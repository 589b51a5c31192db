SPECIFICATION Spec
CONSTANTS
  None = None
  Users = {u1, u2}
  Handlers = {h1, h2}
  Kinds <- AllKinds
  Crashes = TRUE
INVARIANTS
  FriendsWanted
  HalfFriendshipIsListed
  FriendshipIsMutual
  NoAnsweredRequest
SYMMETRY Interchangeable
