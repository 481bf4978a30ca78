SPECIFICATION FairSpec
CONSTANTS
  Titles = {g1}
  None = None
  Empty = Empty
  Restarts = TRUE
  SdFails = TRUE
INVARIANTS
  TypeOK
  OverrideOwned
  LaunchGoesOn
PROPERTIES
  AlbumRestored
