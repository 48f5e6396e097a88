\* A confirmed change of device reaches the device that was changed from.
CONSTANTS
  d1 = d1
  d2 = d2
  s1 = s1
  s2 = s2
  None = None
  Devices <- MCDevices
  Slots <- OneSlot
  MaxClaims = 2
SPECIFICATION Spec
PROPERTY
  ChangeOfDeviceReachesOther
