SPECIFICATION Spec
CONSTANTS
  u1 = u1
  u2 = u2
  d1 = d1
  d2 = d2
  None = None
  Users = {u1}
  Devices = {d1, d2}
  Owner <- SharedOwner
  Polls = {p1, p2}
  Pushers = {q1}
  MaxPush = 3
  MaxBoot = 1
  Flaky = TRUE
INVARIANTS
  AtMostOnce
  FreshTimeStamps
PROPERTIES
  InOrder
SYMMETRY SharedDevices
