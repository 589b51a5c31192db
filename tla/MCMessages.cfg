SPECIFICATION Spec
CONSTANTS
  None = None
  Users = {u1, u2}
  Chats = {c1}
  Handlers = {h1, h2}
  Readers = {r1}
  Page = 1
  Count = 2
  MaxMid = 2
  Crashes = TRUE
INVARIANTS
  TypeOK
  RecipientsAreTold
  RealTimeOrder
  DialogsShowUpdates
  HistoryComplete
SYMMETRY Interchangeable
