SPECIFICATION PollingSpec
CONSTANTS
  u1 = u1
  u2 = u2
  d1 = d1
  d2 = d2
  None = None
  Users = {u1, u2}
  Devices = {d1, d2}
  Owner <- SplitOwner
  Polls = {p1, p2}
  Pushers = {q1}
  MaxPush = 2
  MaxBoot = 1
  Flaky = FALSE
INVARIANTS
  NoLostWakeup
PROPERTIES
  PollAnswered
  ImplementsFeed
