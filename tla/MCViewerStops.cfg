\* An evicted player that asks the log stops, under fairness.
CONSTANTS
  d1 = d1
  d2 = d2
  s1 = s1
  s2 = s2
  None = None
  Devices <- MCDevices
  Slots <- OneSlot
  MaxClaims = 3
SPECIFICATION FairSpec
PROPERTY
  EvictedStops
