SPECIFICATION FairSpec
CONSTANTS
  None = None
  Limiters = {api}
  SkipLongPoll = {api}
  Addresses = {a1}
  Requests = {r1, r2}
  Rate = 3
  Burst = 5
  Cost = 2
  MaxConns = 1
  Retention = 3
  MaxStall = 1
  MaxTime = 5
INVARIANTS
  SustainedRate
  BurstIsGranted
  SlotsMatchRequests
PROPERTIES
  IdleIsForgotten
