SPECIFICATION Spec
CONSTANTS
  Pids = {p1, p2, p3, p4}
  NoPid = NoPid
  Tokens = {t1}
  Ports = {a1, a2}
  NoRequest = NoRequest
  FailThreshold = 3
  Polls = 2
  Backlog = 1
  MaxEvents = 2
  SlotHeld = TRUE
  TerminateMayFail = TRUE
  SleepWakes = TRUE
SYMMETRY PidSymmetry
INVARIANTS
  TypeOK
  ExitObserved
PROPERTIES
  GraceAfterHealthRestart
  CoreAsSeen
\* core may end for good once the orchestrator has given up at boot.
CHECK_DEADLOCK FALSE
