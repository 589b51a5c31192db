SPECIFICATION Spec
CONSTANTS
  None = None
  Users = {u1, u2}
  Requests = {r1, r2}
  Kinds <- AllKinds
  MaxComments = 2
  Crashes = TRUE
INVARIANTS
  CountersWereTrue
  CountersSettle
PROPERTIES
  RefreshRepairs
SYMMETRY Interchangeable
