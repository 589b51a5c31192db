SPECIFICATION Spec
CONSTANTS
  None = None
  Files = {f1}
  Handlers = {h1, h2}
  MaxId = 3
  MaxAid = 1
  Failures = TRUE
  Crashes = TRUE
INVARIANTS
  TypeOK
  FilesBehindItems
  NoPhotoLeftBehind
PROPERTIES
  AlbumStartsEmpty
SYMMETRY Interchangeable
