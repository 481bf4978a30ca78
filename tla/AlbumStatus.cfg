SPECIFICATION Spec
CONSTANTS
  Titles = {g1, g2}
  None = None
  Empty = Empty
  Restarts = FALSE
  SdFails = FALSE
SYMMETRY TitleSymmetry
INVARIANTS
  StatusOfLastLaunch
