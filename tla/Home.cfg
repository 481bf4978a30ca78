SPECIFICATION HomeFairSpec
CONSTANTS
  None = None
  Tokens = {t1, t2}
  Blank = Blank
  Ports = {8275}
  DefaultPort = 8275
  NoPort = NoPort
  Absent = Absent
  Torn = Torn
  AppUsed = FALSE
  SdFails = TRUE
  StartsWith <- MCStartsWith
INVARIANTS
  HomeTypeOK
  ModeShown
  KeptAvailable
  HomeGoesOn
PROPERTIES
  HomeShowsConsole
