SPECIFICATION FairSpec
CONSTANTS
  Pids = {p1, p2, p3}
  NoPid = NoPid
  Tokens = {t1}
  Ports = {a1}
  NoRequest = NoRequest
  FailThreshold = 2
  Polls = 2
  Backlog = 1
  MaxEvents = 1
  SlotHeld = FALSE
  TerminateMayFail = FALSE
  SleepWakes = TRUE
PROPERTIES
  ControlServed
\* core may end for good once the orchestrator has given up at boot.
CHECK_DEADLOCK FALSE
