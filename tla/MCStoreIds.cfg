SPECIFICATION FairSpec
CONSTANTS
  None = None
  Names = {user, comment}
  Callers = {c1, c2}
  Readers = {q1}
  MaxId = 2
  Crashes = TRUE
  Failures = TRUE
INVARIANTS
  InsertsAreNew
PROPERTIES
  ImplementsIds
  CallsReturn
