SPECIFICATION FairSpec
CONSTANTS
  Tokens = {t1, t2}
  Blank = Blank
  Ports = {8275, 9000}
  DefaultPort = 8275
  NoPort = NoPort
  Absent = Absent
  Torn = Torn
  AppUsed = TRUE
  SdFails = TRUE
INVARIANTS
  TypeOK
  BootAgrees
  NobodyWithoutToken
  ProcessesGoOn
PROPERTIES
  CoreLearnsToken
