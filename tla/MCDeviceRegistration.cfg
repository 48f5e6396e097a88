\* Four devices of one account, two of which sign in: the second may find three
\* registered. Any registry within the limit to begin with.
CONSTANTS
  d1 = d1
  d2 = d2
  d3 = d3
  d4 = d4
  NoDevice = NoDevice
  Devices <- MCDevices
SPECIFICATION TwoSignIn
INVARIANTS
  TypeOK
  HomeIsAccountedFor
PROPERTY
  OverLimitNeedsStaleAnswer
  ImplementsAdmission
SYMMETRY DeviceSymmetry
