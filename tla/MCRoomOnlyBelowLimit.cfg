\* Nobody is told there is room in a full registry.
CONSTANTS
  d1 = d1
  d2 = d2
  d3 = d3
  d4 = d4
  NoDevice = NoDevice
  Devices <- MCDevices
SPECIFICATION TwoSignIn
PROPERTY
  RoomOnlyBelowLimit
SYMMETRY DeviceSymmetry
