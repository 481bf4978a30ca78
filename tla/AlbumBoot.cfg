SPECIFICATION FairSpec
CONSTANTS
  Titles = {g1}
  None = None
  Empty = Empty
  Restarts = TRUE
  SdFails = FALSE
PROPERTIES
  AlbumAlwaysRestored
