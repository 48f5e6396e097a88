\* Two devices of one account, two checks each in flight, two starts.
CONSTANTS
  d1 = d1
  d2 = d2
  s1 = s1
  s2 = s2
  None = None
  Devices <- MCDevices
  Slots <- TwoSlots
  MaxClaims = 2
SPECIFICATION Spec
INVARIANTS
  TypeOK
  GrantGoesToOwner
PROPERTY
  UnaskedTakeoverIsARace
  EvictionIsCurrent
  ImplementsRight
SYMMETRY Symmetric
