SPECIFICATION FeedSpec
CONSTANTS
  NoPlace = NoPlace
  Users = {r, f}
  Reader = r
  Places = {p1}
  Handlers = {h1, h2}
  PageSize = 2
  FirstTime = 2
  MaxTime = 3
  MaxPosts = 3
  MaxCheckins = 1
  MaxNamed = 1
  MinListed = 2
  MaxPages = 2
INVARIANTS
  FeedPagesInOrder
  PagesShowTheRest
  CheckinsAreCounted
  PlacedPostsHaveCheckins
SYMMETRY Interchangeable
