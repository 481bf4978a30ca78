------------------------- MODULE Supervisor_proofs -------------------------
(***************************************************************************)
(* What TLAPS proves of Supervisor, for every value of its constants: any  *)
(* number of process ids, tokens and ports, any threshold, number of       *)
(* slices, backlog and event queue, and either process manager.            *)
(*                                                                         *)
(* What counts slices, probes and connections out (CoreReturns and         *)
(* StuckIsReplaced) is shown for limits up to those of the code.           *)
(*                                                                         *)
(* The types need two facts beside them: how far the counters may have got *)
(* at each point, and that a slot in use has a pid.  Exits, tracking and   *)
(* the count of probes build on the types; CoreOutside needs only IndSlot. *)
(***************************************************************************)
EXTENDS Supervisor, TLAPS

\* What the proofs use of the constants.
LEMMA Limits == /\ FailThreshold \in Nat /\ FailThreshold > 0
                /\ Polls \in Nat /\ Polls > 0
                /\ Backlog \in Nat /\ Backlog > 0
                /\ NoPid \notin Pids
BY ConstantsAssumption

-----------------------------------------------------------------------------
(* Types.                                                                  *)

\* terminate_core() waits only while it has slices left, and the count of
\* failed probes reaches its threshold only on the way through a restart that
\* the health check asked for.
CountersInRange ==
  /\ opc = "await" => polls < Polls
  /\ failures = FailThreshold =>
       reason = "health" /\ opc \in {"terminate", "await", "cleanup", "launch"}

SlotNamed == slot # "free" => slotPid # NoPid

IndTypes == TypeOK /\ CountersInRange /\ SlotNamed

\* The initial states have the types.
LEMMA TypesInit == Init => IndTypes
<1> SUFFICES ASSUME Init PROVE IndTypes
  OBVIOUS
<1>1. exited \in BOOLEAN
  BY DEF Init
<1>2. TypeOK
  BY <1>1, Limits DEF Init, TypeOK, OrcPoints, Settings
<1> QED
  BY <1>2, Limits DEF IndTypes, Init, CountersInRange, SlotNamed

\* Every step keeps them.
LEMMA TypesStep == IndTypes /\ [Next]_vars => IndTypes'
<1> SUFFICES ASSUME IndTypes, [Next]_vars PROVE IndTypes'
  OBVIOUS
<1> USE DEF orcVars, pmVars, coreVars, histVars
<1>1. CASE OrcInit
  BY <1>1, Limits DEF IndTypes, TypeOK, CountersInRange, SlotNamed,
     OrcPoints, Settings, OrcInit
<1>2. CASE OrcGivesUp
  BY <1>2, Limits DEF IndTypes, TypeOK, CountersInRange, SlotNamed,
     OrcPoints, Settings, OrcGivesUp
<1>3. CASE OrcListen
  BY <1>3, Limits DEF IndTypes, TypeOK, CountersInRange, SlotNamed,
     OrcPoints, Settings, OrcListen
<1>4. CASE LaunchSucceeds
  BY <1>4, Limits DEF IndTypes, TypeOK, CountersInRange, SlotNamed,
     OrcPoints, Settings, LaunchSucceeds, AfterLaunch, Fresh
<1>5. CASE LaunchFails
  BY <1>5, Limits DEF IndTypes, TypeOK, CountersInRange, SlotNamed,
     OrcPoints, Settings, LaunchFails, AfterLaunch
<1>6. CASE TerminateSkipped
  BY <1>6, Limits DEF IndTypes, TypeOK, CountersInRange, SlotNamed,
     OrcPoints, Settings, TerminateSkipped
<1>7. CASE TerminateCore
  <2>1. exited' \in BOOLEAN
    BY <1>7 DEF TerminateCore
  <2>2. TypeOK'
    BY <1>7, <2>1, Limits DEF TerminateCore, IndTypes, TypeOK, OrcPoints,
       Settings
  <2> QED
    BY <1>7, <2>2, Limits DEF TerminateCore, IndTypes, TypeOK, CountersInRange,
       SlotNamed
<1>8. CASE AwaitNothing
  BY <1>8, Limits DEF IndTypes, TypeOK, CountersInRange, SlotNamed,
     OrcPoints, Settings, AwaitNothing, NextSlice
<1>9. CASE AwaitEvent
  <2>1. exited' \in BOOLEAN
    BY <1>9 DEF AwaitEvent, IndTypes, TypeOK
  <2>2. /\ polls' \in 0..Polls /\ opc' \in OrcPoints
        /\ opc' = "await" => polls' < Polls
    BY <1>9, Limits DEF AwaitEvent, NextSlice, IndTypes, TypeOK,
       CountersInRange, OrcPoints
  <2>3. opc' \in {"await", "cleanup"}
    BY <1>9 DEF AwaitEvent, NextSlice
  <2> QED
    BY <1>9, <2>1, <2>2, <2>3 DEF AwaitEvent, IndTypes, TypeOK, CountersInRange,
       SlotNamed, Settings
<1>10. CASE CleanupCore
  BY <1>10, Limits DEF IndTypes, TypeOK, CountersInRange, SlotNamed,
     OrcPoints, Settings, CleanupCore
<1>11. CASE ProbeSucceeds
  BY <1>11, Limits DEF IndTypes, TypeOK, CountersInRange, SlotNamed,
     OrcPoints, Settings, ProbeSucceeds, Connectable
<1>12. CASE \E noSocket \in BOOLEAN : ProbeFails(noSocket)
  BY <1>12, Limits DEF IndTypes, TypeOK, CountersInRange, SlotNamed,
     OrcPoints, Settings, ProbeFails
<1>13. CASE AcceptControl
  BY <1>13, Limits DEF IndTypes, TypeOK, CountersInRange, SlotNamed,
     OrcPoints, Settings, AcceptControl, ControlNotFound, ControlRestart,
     ControlRefused
<1>14. CASE Teardown
  BY <1>14, Limits DEF IndTypes, TypeOK, CountersInRange, SlotNamed,
     OrcPoints, Settings, Teardown, ProcessEnds
<1>15. CASE CoreDies
  BY <1>15, Limits DEF IndTypes, TypeOK, CountersInRange, SlotNamed,
     OrcPoints, Settings, CoreDies, ProcessEnds
<1>16. CASE CoreStep
  BY <1>16, Limits DEF IndTypes, TypeOK, CountersInRange, SlotNamed,
     OrcPoints, Settings, CoreStep, CoreListens, CoreAccepts, CoreReloads,
     CoreAnswers, CoreSticks, CoreRelistens, coreRest
<1>17. CASE ClientConnects
  BY <1>17, Limits DEF IndTypes, TypeOK, CountersInRange, SlotNamed,
     OrcPoints, Settings, ClientConnects, coreRest
<1>18. CASE ControlRequested
  BY <1>18, Limits DEF IndTypes, TypeOK, CountersInRange, SlotNamed,
     OrcPoints, Settings, ControlRequested
<1>19. CASE SettingsEdited
  BY <1>19, Limits DEF IndTypes, TypeOK, CountersInRange, SlotNamed,
     OrcPoints, Settings, SettingsEdited
<1>20. CASE ConsoleSleepsAndWakes
  BY <1>20, Limits DEF IndTypes, TypeOK, CountersInRange, SlotNamed,
     OrcPoints, Settings, ConsoleSleepsAndWakes
<1>21. CASE UNCHANGED vars
  BY <1>21, Limits DEF IndTypes, TypeOK, CountersInRange, SlotNamed,
     OrcPoints, Settings, vars
<1> QED
  BY <1>1, <1>2, <1>3, <1>4, <1>5, <1>6, <1>7, <1>8, <1>9, <1>10, <1>11,
     <1>12, <1>13, <1>14, <1>15, <1>16, <1>17, <1>18, <1>19, <1>20, <1>21
     DEF Next, OrcStep, Probe

\* Every state of every behaviour has the types.
LEMMA TypesAlways == Spec => []IndTypes
BY TypesInit, TypesStep, PTL DEF Spec

\* main(), terminate_core(), core and the process manager keep to their types:
\* no counter runs over, no pid comes from nowhere.
THEOREM TypeCorrect == Spec => []TypeOK
<1>1. IndTypes => TypeOK
  BY DEF IndTypes
<1> QED
  BY <1>1, TypesAlways, PTL

-----------------------------------------------------------------------------
(* Exit events.                                                            *)

\* An event in the queue is that of a process that has ended: when the slot
\* still names its pid, nothing runs under it.
EventsOld == slotPid \in events => phase = "none"

\* terminate_core() leaves its loop with the first event of target_pid.
WaitsInVain == opc = "await" => ~exited

IndExit == EventsOld /\ WaitsInVain /\ ExitObserved

\* Every step keeps exit events honest.
LEMMA ExitStep == IndTypes /\ IndExit /\ [Next]_vars => IndExit'
<1> SUFFICES ASSUME IndTypes, IndExit, [Next]_vars PROVE IndExit'
  OBVIOUS
<1> NoPid \notin events
  BY Limits DEF IndTypes, TypeOK
<1> USE DEF orcVars, pmVars, coreVars, histVars
<1>1. CASE OrcInit
  BY <1>1 DEF IndExit, EventsOld, WaitsInVain, ExitObserved, OrcInit
<1>2. CASE OrcGivesUp
  BY <1>2 DEF IndExit, EventsOld, WaitsInVain, ExitObserved, OrcGivesUp
<1>3. CASE OrcListen
  BY <1>3 DEF IndExit, EventsOld, WaitsInVain, ExitObserved, OrcListen
<1>4. CASE LaunchSucceeds
  BY <1>4 DEF IndExit, EventsOld, WaitsInVain, ExitObserved, LaunchSucceeds,
     AfterLaunch, Fresh
<1>5. CASE LaunchFails
  BY <1>5 DEF IndExit, EventsOld, WaitsInVain, ExitObserved, LaunchFails,
     AfterLaunch
<1>6. CASE TerminateSkipped
  BY <1>6 DEF IndExit, EventsOld, WaitsInVain, ExitObserved,
     TerminateSkipped
<1>7. CASE TerminateCore
  BY <1>7 DEF IndExit, EventsOld, WaitsInVain, ExitObserved, TerminateCore
<1>8. CASE AwaitNothing
  BY <1>8 DEF IndExit, EventsOld, WaitsInVain, ExitObserved, AwaitNothing,
     NextSlice
<1>9. CASE AwaitEvent
  BY <1>9 DEF IndExit, EventsOld, WaitsInVain, ExitObserved, AwaitEvent,
     NextSlice
<1>10. CASE CleanupCore
  BY <1>10 DEF IndExit, EventsOld, WaitsInVain, ExitObserved, CleanupCore
<1>11. CASE ProbeSucceeds
  BY <1>11 DEF IndExit, EventsOld, WaitsInVain, ExitObserved, ProbeSucceeds,
     Connectable
<1>12. CASE \E noSocket \in BOOLEAN : ProbeFails(noSocket)
  BY <1>12 DEF IndExit, EventsOld, WaitsInVain, ExitObserved, ProbeFails
<1>13. CASE AcceptControl
  BY <1>13 DEF IndExit, EventsOld, WaitsInVain, ExitObserved, AcceptControl,
     ControlNotFound, ControlRestart, ControlRefused
<1>14. CASE Teardown
  BY <1>14 DEF IndExit, EventsOld, WaitsInVain, ExitObserved, Teardown,
     ProcessEnds
<1>15. CASE CoreDies
  BY <1>15 DEF IndExit, EventsOld, WaitsInVain, ExitObserved, CoreDies,
     ProcessEnds
<1>16. CASE CoreStep
  BY <1>16 DEF IndExit, EventsOld, WaitsInVain, ExitObserved, CoreStep,
     CoreListens, CoreAccepts, CoreReloads, CoreAnswers, CoreSticks,
     CoreRelistens, coreRest
<1>17. CASE ClientConnects
  BY <1>17 DEF IndExit, EventsOld, WaitsInVain, ExitObserved,
     ClientConnects, coreRest
<1>18. CASE ControlRequested
  BY <1>18 DEF IndExit, EventsOld, WaitsInVain, ExitObserved,
     ControlRequested
<1>19. CASE SettingsEdited
  BY <1>19 DEF IndExit, EventsOld, WaitsInVain, ExitObserved, SettingsEdited
<1>20. CASE ConsoleSleepsAndWakes
  BY <1>20 DEF IndExit, EventsOld, WaitsInVain, ExitObserved,
     ConsoleSleepsAndWakes
<1>21. CASE UNCHANGED vars
  BY <1>21 DEF IndExit, EventsOld, WaitsInVain, ExitObserved, vars
<1> QED
  BY <1>1, <1>2, <1>3, <1>4, <1>5, <1>6, <1>7, <1>8, <1>9, <1>10, <1>11,
     <1>12, <1>13, <1>14, <1>15, <1>16, <1>17, <1>18, <1>19, <1>20, <1>21
     DEF Next, OrcStep, Probe

\* terminate_core() never takes an older instance's exit for that of the one it
\* terminates, however many waits have timed out before.
THEOREM ExitsObserved == Spec => []ExitObserved
<1>1. Init => IndExit
  BY DEF Init, IndExit, EventsOld, WaitsInVain, ExitObserved
<1>2. IndExit => ExitObserved
  BY DEF IndExit
<1> QED
  BY <1>1, <1>2, TypesAlways, ExitStep, PTL DEF Spec

-----------------------------------------------------------------------------
(* The pid of the core that runs.                                          *)

\* Every step keeps track of core, when TerminateProgram does not fail.
LEMMA TrackedStep ==
  ASSUME TerminateMayFail = FALSE
  PROVE  IndTypes /\ CoreTracked /\ [Next]_vars => CoreTracked'
<1> SUFFICES ASSUME IndTypes, CoreTracked, [Next]_vars PROVE CoreTracked'
  OBVIOUS
<1> USE DEF orcVars, pmVars, coreVars, histVars
<1>1. CASE OrcInit
  BY <1>1 DEF CoreTracked, OrcInit
<1>2. CASE OrcGivesUp
  BY <1>2 DEF CoreTracked, OrcGivesUp
<1>3. CASE OrcListen
  BY <1>3 DEF CoreTracked, OrcListen
<1>4. CASE LaunchSucceeds
  BY <1>4 DEF CoreTracked, LaunchSucceeds, AfterLaunch, Fresh
<1>5. CASE LaunchFails
  BY <1>5 DEF CoreTracked, LaunchFails, AfterLaunch
<1>6. CASE TerminateSkipped
  BY <1>6 DEF CoreTracked, TerminateSkipped
<1>7. CASE TerminateCore
  BY <1>7 DEF CoreTracked, TerminateCore
<1>8. CASE AwaitNothing
  BY <1>8 DEF CoreTracked, AwaitNothing, NextSlice
<1>9. CASE AwaitEvent
  BY <1>9 DEF CoreTracked, AwaitEvent, NextSlice
<1>10. CASE CleanupCore
  BY <1>10 DEF CoreTracked, CleanupCore
<1>11. CASE ProbeSucceeds
  BY <1>11 DEF CoreTracked, ProbeSucceeds, Connectable
<1>12. CASE \E noSocket \in BOOLEAN : ProbeFails(noSocket)
  BY <1>12 DEF CoreTracked, ProbeFails
<1>13. CASE AcceptControl
  BY <1>13 DEF CoreTracked, AcceptControl, ControlNotFound, ControlRestart,
     ControlRefused
<1>14. CASE Teardown
  BY <1>14 DEF CoreTracked, Teardown, ProcessEnds
<1>15. CASE CoreDies
  BY <1>15 DEF CoreTracked, CoreDies, ProcessEnds
<1>16. CASE CoreStep
  BY <1>16 DEF CoreTracked, CoreStep, CoreListens, CoreAccepts, CoreReloads,
     CoreAnswers, CoreSticks, CoreRelistens, coreRest
<1>17. CASE ClientConnects
  BY <1>17 DEF CoreTracked, ClientConnects, coreRest
<1>18. CASE ControlRequested
  BY <1>18 DEF CoreTracked, ControlRequested
<1>19. CASE SettingsEdited
  BY <1>19 DEF CoreTracked, SettingsEdited
<1>20. CASE ConsoleSleepsAndWakes
  BY <1>20 DEF CoreTracked, ConsoleSleepsAndWakes
<1>21. CASE UNCHANGED vars
  BY <1>21 DEF CoreTracked, vars
<1> QED
  BY <1>1, <1>2, <1>3, <1>4, <1>5, <1>6, <1>7, <1>8, <1>9, <1>10, <1>11,
     <1>12, <1>13, <1>14, <1>15, <1>16, <1>17, <1>18, <1>19, <1>20, <1>21
     DEF Next, OrcStep, Probe

\* If TerminateProgram is obeyed, the orchestrator holds the pid of the core
\* that runs: with either process manager, and whatever core itself does.
THEOREM CoreIsTracked ==
  ASSUME TerminateMayFail = FALSE
  PROVE  Spec => []CoreTracked
<1>1. Init => CoreTracked
  BY DEF Init, CoreTracked
<1> QED
  BY <1>1, TypesAlways, TrackedStep, PTL DEF Spec

-----------------------------------------------------------------------------
(* The grace a new core has.                                               *)

\* Until the loop begins no probe has failed; after that the orchestrator's
\* count never runs ahead of the failures of the instance that it launched,
\* unless self_restart launched it.
IndGrace ==
  /\ opc = "boot" => reason = "boot"
  /\ opc \in {"terminate", "await", "cleanup"} => reason # "boot"
  /\ opc \in {"boot", "launch"} /\ reason = "boot" => failures = 0
  /\ launchedFor # "self" => failures <= instFails

\* Every step keeps the two counts in line.
LEMMA GraceStep == IndTypes /\ IndGrace /\ [Next]_vars => IndGrace'
<1> SUFFICES ASSUME IndTypes, IndGrace, [Next]_vars PROVE IndGrace'
  OBVIOUS
<1> /\ failures \in 0..FailThreshold /\ instFails \in 0..FailThreshold
    /\ reason \in {"boot", "self", "health"}
  BY DEF IndTypes, TypeOK
<1> USE DEF orcVars, pmVars, coreVars, histVars
<1>1. CASE OrcInit
  BY <1>1, Limits DEF IndGrace, OrcInit
<1>2. CASE OrcGivesUp
  BY <1>2, Limits DEF IndGrace, OrcGivesUp
<1>3. CASE OrcListen
  BY <1>3, Limits DEF IndGrace, OrcListen
<1>4. CASE LaunchSucceeds
  BY <1>4, Limits DEF IndGrace, LaunchSucceeds, AfterLaunch, Fresh
<1>5. CASE LaunchFails
  BY <1>5, Limits DEF IndGrace, LaunchFails, AfterLaunch
<1>6. CASE TerminateSkipped
  BY <1>6, Limits DEF IndGrace, TerminateSkipped
<1>7. CASE TerminateCore
  BY <1>7, Limits DEF IndGrace, TerminateCore
<1>8. CASE AwaitNothing
  BY <1>8, Limits DEF IndGrace, AwaitNothing, NextSlice
<1>9. CASE AwaitEvent
  BY <1>9, Limits DEF IndGrace, AwaitEvent, NextSlice
<1>10. CASE CleanupCore
  BY <1>10, Limits DEF IndGrace, CleanupCore
<1>11. CASE ProbeSucceeds
  BY <1>11, Limits DEF IndGrace, ProbeSucceeds, Connectable
<1>12. CASE \E noSocket \in BOOLEAN : ProbeFails(noSocket)
  BY <1>12, Limits DEF ProbeFails, IndGrace, IndTypes, CountersInRange
<1>13. CASE AcceptControl
  BY <1>13, Limits DEF IndGrace, AcceptControl, ControlNotFound,
     ControlRestart, ControlRefused
<1>14. CASE Teardown
  BY <1>14, Limits DEF IndGrace, Teardown, ProcessEnds
<1>15. CASE CoreDies
  BY <1>15, Limits DEF IndGrace, CoreDies, ProcessEnds
<1>16. CASE CoreStep
  BY <1>16, Limits DEF IndGrace, CoreStep, CoreListens, CoreAccepts,
     CoreReloads, CoreAnswers, CoreSticks, CoreRelistens, coreRest
<1>17. CASE ClientConnects
  BY <1>17, Limits DEF IndGrace, ClientConnects, coreRest
<1>18. CASE ControlRequested
  BY <1>18, Limits DEF IndGrace, ControlRequested
<1>19. CASE SettingsEdited
  BY <1>19, Limits DEF IndGrace, SettingsEdited
<1>20. CASE ConsoleSleepsAndWakes
  BY <1>20, Limits DEF IndGrace, ConsoleSleepsAndWakes
<1>21. CASE UNCHANGED vars
  BY <1>21, Limits DEF IndGrace, vars
<1> QED
  BY <1>1, <1>2, <1>3, <1>4, <1>5, <1>6, <1>7, <1>8, <1>9, <1>10, <1>11,
     <1>12, <1>13, <1>14, <1>15, <1>16, <1>17, <1>18, <1>19, <1>20, <1>21
     DEF Next, OrcStep, Probe

\* A step that starts a health restart is a failed probe, the last one of as
\* many in a row as the threshold says.
LEMMA RestartIsLastFailure ==
  ASSUME IndTypes, failures <= instFails, [Next]_vars, HealthRestart
  PROVE  instFails' = FailThreshold
<1> /\ failures \in 0..FailThreshold /\ instFails \in 0..FailThreshold
  BY DEF IndTypes, TypeOK
<1> USE DEF orcVars, pmVars, coreVars, histVars
<1>1. CASE OrcInit
  BY <1>1 DEF HealthRestart, OrcInit
<1>2. CASE OrcGivesUp
  BY <1>2 DEF HealthRestart, OrcGivesUp
<1>3. CASE OrcListen
  BY <1>3 DEF HealthRestart, OrcListen
<1>4. CASE LaunchSucceeds
  BY <1>4 DEF HealthRestart, LaunchSucceeds, AfterLaunch, Fresh
<1>5. CASE LaunchFails
  BY <1>5 DEF HealthRestart, LaunchFails, AfterLaunch
<1>6. CASE TerminateSkipped
  BY <1>6 DEF HealthRestart, TerminateSkipped
<1>7. CASE TerminateCore
  BY <1>7 DEF HealthRestart, TerminateCore
<1>8. CASE AwaitNothing
  BY <1>8 DEF HealthRestart, AwaitNothing, NextSlice
<1>9. CASE AwaitEvent
  BY <1>9 DEF HealthRestart, AwaitEvent, NextSlice
<1>10. CASE CleanupCore
  BY <1>10 DEF HealthRestart, CleanupCore
<1>11. CASE ProbeSucceeds
  BY <1>11 DEF HealthRestart, ProbeSucceeds, Connectable
<1>12. CASE \E noSocket \in BOOLEAN : ProbeFails(noSocket)
  BY <1>12, Limits DEF ProbeFails, HealthRestart, IndTypes, CountersInRange
<1>13. CASE AcceptControl
  BY <1>13 DEF HealthRestart, AcceptControl, ControlNotFound,
     ControlRestart, ControlRefused
<1>14. CASE Teardown
  BY <1>14 DEF HealthRestart, Teardown, ProcessEnds
<1>15. CASE CoreDies
  BY <1>15 DEF HealthRestart, CoreDies, ProcessEnds
<1>16. CASE CoreStep
  BY <1>16 DEF HealthRestart, CoreStep, CoreListens, CoreAccepts,
     CoreReloads, CoreAnswers, CoreSticks, CoreRelistens, coreRest
<1>17. CASE ClientConnects
  BY <1>17 DEF HealthRestart, ClientConnects, coreRest
<1>18. CASE ControlRequested
  BY <1>18 DEF HealthRestart, ControlRequested
<1>19. CASE SettingsEdited
  BY <1>19 DEF HealthRestart, SettingsEdited
<1>20. CASE ConsoleSleepsAndWakes
  BY <1>20 DEF HealthRestart, ConsoleSleepsAndWakes
<1>21. CASE UNCHANGED vars
  BY <1>21 DEF HealthRestart, vars
<1> QED
  BY <1>1, <1>2, <1>3, <1>4, <1>5, <1>6, <1>7, <1>8, <1>9, <1>10, <1>11,
     <1>12, <1>13, <1>14, <1>15, <1>16, <1>17, <1>18, <1>19, <1>20, <1>21
     DEF Next, OrcStep, Probe

\* The health check gives up on a core it has launched only after
\* HEALTH_CHECK_FAIL_THRESHOLD failures in a row of that very instance.
THEOREM GraceIsKept == Spec => GraceAfterHealthRestart
<1>1. Init => IndGrace
  BY DEF Init, IndGrace
<1>2. IndTypes /\ IndGrace /\ [Next]_vars =>
        [HealthRestart /\ launchedFor # "self"
           => instFails' = FailThreshold]_vars
  BY RestartIsLastFailure DEF IndGrace
<1> QED
  BY <1>1, <1>2, TypesAlways, GraceStep, PTL DEF Spec, GraceAfterHealthRestart

\* While every self_restart finds the count at zero, it does not run ahead of
\* the failures of any instance.
IndCount ==
  /\ failures <= instFails
  /\ reason = "self" /\ opc \in {"terminate", "await", "cleanup", "launch"}
       => failures = 0

LEMMA CountStep ==
  ASSUME IndTypes, IndGrace, IndCount, [Next]_vars, ControlRestart => failures = 0
  PROVE  IndCount'
<1> /\ failures \in 0..FailThreshold /\ instFails \in 0..FailThreshold
    /\ reason \in {"boot", "self", "health"}
  BY DEF IndTypes, TypeOK
<1> USE DEF IndCount, orcVars, pmVars, coreVars, histVars
<1>1. CASE OrcInit \/ OrcGivesUp \/ OrcListen
  BY <1>1 DEF OrcInit, OrcGivesUp, OrcListen, IndGrace
<1>2. CASE LaunchSucceeds \/ LaunchFails
  BY <1>2 DEF LaunchSucceeds, LaunchFails, AfterLaunch, IndGrace
<1>3. CASE TerminateSkipped \/ TerminateCore \/ CleanupCore
  BY <1>3 DEF TerminateSkipped, TerminateCore, CleanupCore
<1>4. CASE AwaitNothing \/ AwaitEvent
  BY <1>4 DEF AwaitNothing, AwaitEvent, NextSlice
<1>5. CASE ProbeSucceeds
  BY <1>5 DEF ProbeSucceeds
<1>6. CASE \E noSocket \in BOOLEAN : ProbeFails(noSocket)
  BY <1>6, Limits DEF ProbeFails, IndTypes, CountersInRange
<1>7. CASE AcceptControl
  BY <1>7 DEF AcceptControl, ControlNotFound, ControlRestart, ControlRefused
<1>8. CASE Teardown \/ CoreDies
  BY <1>8 DEF Teardown, CoreDies, ProcessEnds
<1>9. CASE CoreStep
  BY <1>9 DEF CoreStep, CoreListens, CoreAccepts, CoreReloads, CoreAnswers,
     CoreSticks, CoreRelistens, coreRest
<1>10. CASE ClientConnects \/ ControlRequested \/ SettingsEdited
              \/ ConsoleSleepsAndWakes \/ UNCHANGED vars
  BY <1>10 DEF ClientConnects, ControlRequested, SettingsEdited,
     ConsoleSleepsAndWakes, coreRest, vars
<1> QED
  BY <1>1, <1>2, <1>3, <1>4, <1>5, <1>6, <1>7, <1>8, <1>9, <1>10
     DEF Next, OrcStep, Probe

\* The count that outlives a self_restart is all that keeps GraceForEveryCore
\* from being true: it holds of every behaviour in which POST /self_restart
\* comes only while no failed probe is counted.
THEOREM GraceUnlessCounted ==
  Spec /\ [][ControlRestart => failures = 0]_vars => GraceForEveryCore
<1>1. Init => IndGrace /\ IndCount
  BY DEF Init, IndGrace, IndCount
<1>2. IndTypes /\ IndGrace /\ IndCount /\ [Next]_vars
        /\ [ControlRestart => failures = 0]_vars => IndCount'
  <2> SUFFICES ASSUME IndTypes, IndGrace, IndCount, [Next]_vars,
                      [ControlRestart => failures = 0]_vars
               PROVE  IndCount'
    OBVIOUS
  <2>1. CASE UNCHANGED vars
    BY <2>1 DEF vars, orcVars, histVars, IndCount
  <2>2. CASE ControlRestart => failures = 0
    BY <2>2, CountStep
  <2> QED
    BY <2>1, <2>2
<1>3. IndTypes /\ IndCount /\ [Next]_vars =>
        [HealthRestart => instFails' = FailThreshold]_vars
  BY RestartIsLastFailure DEF IndCount
<1> QED
  BY <1>1, <1>2, <1>3, TypesAlways, GraceStep, PTL DEF Spec, GraceForEveryCore

-----------------------------------------------------------------------------
(* core, as the orchestrator takes it.                                     *)

\* A slot that is free, or will be once it is cleaned up, runs nothing.
IndSlot == slot \in {"free", "dead"} => phase = "none"

\* The steps of the orchestrator and its callers that leave core, and the slot
\* but for a request to terminate, alone.
Elsewhere ==
  \/ OrcInit \/ OrcGivesUp \/ OrcListen \/ LaunchFails \/ TerminateSkipped
  \/ TerminateCore \/ AwaitNothing \/ AwaitEvent \/ CleanupCore
  \/ AcceptControl \/ Probe \/ ClientConnects \/ ControlRequested
  \/ SettingsEdited \/ UNCHANGED vars

LEMMA ElsewhereKeeps ==
  ASSUME Elsewhere
  PROVE  /\ UNCHANGED <<phase, sock>>
         /\ \/ slot' = slot
            \/ slot = "running" /\ slot' = "terminating"
            \/ slot = "dead" /\ slot' = "free"
<1> USE DEF orcVars, pmVars, coreVars, histVars, vars
<1>1. CASE TerminateCore \/ CleanupCore
  BY <1>1 DEF TerminateCore, CleanupCore
<1>2. CASE Probe \/ ClientConnects \/ AcceptControl
  BY <1>2 DEF Probe, ProbeSucceeds, ProbeFails, ClientConnects, coreRest,
     AcceptControl, ControlRefused, ControlNotFound, ControlRestart
<1>3. CASE ~(TerminateCore \/ CleanupCore \/ Probe \/ ClientConnects
               \/ AcceptControl)
  BY <1>3 DEF Elsewhere, OrcInit, OrcGivesUp, OrcListen, LaunchFails,
     TerminateSkipped, AwaitNothing, AwaitEvent, ControlRequested,
     SettingsEdited
<1> QED
  BY <1>1, <1>2, <1>3

\* Every step keeps it so, and is one of CoreOutside or none of core's.
LEMMA OutsideStep ==
  IndSlot /\ [Next]_vars => IndSlot' /\ [Outside!Next]_<<phase, sock>>
<1> SUFFICES ASSUME IndSlot, [Next]_vars
             PROVE  IndSlot' /\ [Outside!Next]_<<phase, sock>>
  OBVIOUS
<1> USE DEF pmVars, coreVars, coreRest
<1>1. CASE Elsewhere
  BY <1>1, ElsewhereKeeps DEF IndSlot
<1>2. CASE LaunchSucceeds
  BY <1>2 DEF IndSlot, LaunchSucceeds, Outside!Next, Outside!Start
<1>3. CASE Teardown \/ CoreDies
  BY <1>3 DEF IndSlot, Teardown, CoreDies, ProcessEnds, Outside!Next,
     Outside!End
<1>4. CASE CoreListens
  BY <1>4 DEF IndSlot, CoreListens, Outside!Next, Outside!Listen
<1>5. CASE CoreAccepts
  BY <1>5 DEF IndSlot, CoreAccepts, Outside!Next, Outside!Take
<1>6. CASE CoreReloads
  BY <1>6 DEF IndSlot, CoreReloads
<1>7. CASE CoreAnswers
  BY <1>7 DEF IndSlot, CoreAnswers, Outside!Next, Outside!Finish
<1>8. CASE CoreSticks
  BY <1>8 DEF IndSlot, CoreSticks, Outside!Next, Outside!Stick
<1>9. CASE CoreRelistens
  BY <1>9 DEF IndSlot, CoreRelistens, Outside!Next, Outside!Relisten
<1>10. CASE ConsoleSleepsAndWakes
  BY <1>10 DEF IndSlot, ConsoleSleepsAndWakes, Outside!Next, Outside!Lose
<1> QED
  BY <1>1, <1>2, <1>3, <1>4, <1>5, <1>6, <1>7, <1>8, <1>9, <1>10
     DEF Next, OrcStep, CoreStep, Elsewhere

\* core within the supervision is the core of CoreOutside: it is never launched
\* beside an instance that still runs, and its socket changes between two
\* connections, with the console's sleep, or with its end.
THEOREM CoreIsAsSeen == Spec => CoreAsSeen
<1>1. Init => IndSlot /\ Outside!Init
  BY DEF Init, IndSlot, Outside!Init
<1> QED
  BY <1>1, OutsideStep, PTL DEF Spec, CoreAsSeen, Outside!Spec

-----------------------------------------------------------------------------
(* Liveness.                                                               *)

\* The instance p runs; it has been asked to end; it is gone.
Runs(p)  == slotPid = p /\ slot = "running"
Asked(p) == slotPid = p /\ slot = "terminating"
Gone(p)  == slotPid # p \/ slot = "dead"

\* terminate_core() finds the core that runs and terminates it, if it does not
\* end by itself before that.
LEMMA TerminateMovesOn ==
  ASSUME NEW p \in Pids, ~TerminateMayFail, CoreTracked, SlotNamed,
         opc = "terminate", Runs(p), [Next]_vars
  PROVE  \/ ~OrcStep /\ (opc = "terminate" /\ Runs(p))'
         \/ Asked(p)' \/ Gone(p)'
<1> USE DEF Runs, Asked, Gone, orcVars, pmVars, coreVars, histVars
<1>1. corePid = p /\ corePid # NoPid
  BY DEF CoreTracked, SlotNamed
<1>2. CASE OrcStep
  <2>1. TerminateCore
    BY <1>1, <1>2 DEF OrcStep, OrcInit, OrcGivesUp, OrcListen, LaunchSucceeds,
       LaunchFails, TerminateSkipped, AwaitNothing, AwaitEvent, CleanupCore,
       Probe, ProbeSucceeds, ProbeFails
  <2> QED
    BY <2>1 DEF TerminateCore
<1>3. CASE Teardown \/ CoreDies
  BY <1>3, Limits DEF Teardown, CoreDies, ProcessEnds
<1>4. CASE ~OrcStep /\ ~Teardown /\ ~CoreDies
  BY <1>4 DEF Next, AcceptControl, ControlNotFound, ControlRestart,
     ControlRefused, CoreStep, CoreListens, CoreAccepts, CoreReloads,
     CoreAnswers, CoreSticks, CoreRelistens, coreRest, ClientConnects,
     ControlRequested, SettingsEdited, ConsoleSleepsAndWakes, vars
<1> QED
  BY <1>2, <1>3, <1>4

\* What was asked to end only waits for its end: nothing takes the slot over.
LEMMA AskedMovesOn ==
  ASSUME NEW p \in Pids, Asked(p), [Next]_vars
  PROVE  Asked(p)' \/ Gone(p)'
<1> USE DEF Asked, Gone, orcVars, pmVars, coreVars, histVars
<1>1. CASE OrcStep
  BY <1>1 DEF OrcStep, OrcInit, OrcGivesUp, OrcListen, LaunchSucceeds,
     LaunchFails, AfterLaunch, TerminateSkipped, TerminateCore, AwaitNothing,
     AwaitEvent, CleanupCore, Probe, ProbeSucceeds, ProbeFails
<1>2. CASE Teardown \/ CoreDies
  BY <1>2, Limits DEF Teardown, CoreDies, ProcessEnds
<1>3. CASE ~OrcStep /\ ~Teardown /\ ~CoreDies
  BY <1>3 DEF Next, AcceptControl, ControlNotFound, ControlRestart,
     ControlRefused, CoreStep, CoreListens, CoreAccepts, CoreReloads,
     CoreAnswers, CoreSticks, CoreRelistens, coreRest, ClientConnects,
     ControlRequested, SettingsEdited, ConsoleSleepsAndWakes, vars
<1> QED
  BY <1>1, <1>2, <1>3

\* As long as the orchestrator is not stuck and TerminateProgram is obeyed, the
\* core that restart_core() finds is replaced: for the pid that is terminated
\* is its pid, whatever restarts and ends of core came before.
THEOREM RestartReplaces ==
  ASSUME TerminateMayFail = FALSE
  PROVE  FairSpec /\ []OrchestratorGoesOn => SelfRestartReplaces
<1> SUFFICES ASSUME NEW p \in Pids
             PROVE  FairSpec /\ []OrchestratorGoesOn =>
                      ((opc = "terminate" /\ reason = "self" /\ slotPid = p
                          /\ slot = "running") ~> slotPid # p \/ slot = "dead")
  BY DEF SelfRestartReplaces
<1> DEFINE Safe   == CoreTracked /\ SlotNamed /\ OrchestratorGoesOn
           Found  == opc = "terminate" /\ Runs(p)
           Ending == Asked(p)
           Ended  == slotPid # p \/ slot = "dead"
<1>1. Safe /\ Found /\ [Next]_vars =>
        (Found' /\ ~<<OrcStep>>_vars) \/ Ending' \/ Ended'
  BY TerminateMovesOn DEF Gone
<1>2. Safe /\ Found => ENABLED <<OrcStep>>_vars
  BY DEF OrchestratorGoesOn
<1>3. Ending /\ [Next]_vars => Ending' \/ Ended'
  BY AskedMovesOn DEF Gone
<1>4. Ending /\ <<Teardown>>_vars => Ended'
  BY Limits DEF Asked, Teardown, ProcessEnds
<1>5. Safe /\ Ending => ENABLED <<Teardown>>_vars
  BY DEF OrchestratorGoesOn, Asked
<1>6. Spec => []CoreTracked
  BY CoreIsTracked
<1>7. IndTypes => SlotNamed
  BY DEF IndTypes
<1>8. FairSpec /\ []OrchestratorGoesOn => (Found ~> Ended)
  BY <1>1, <1>2, <1>3, <1>4, <1>5, <1>6, <1>7, TypesAlways, PTL
     DEF FairSpec, Fairness, Spec
<1>9. (opc = "terminate" /\ reason = "self" /\ slotPid = p
         /\ slot = "running") => Found
  BY DEF Runs
<1> QED
  BY <1>8, <1>9, PTL

-----------------------------------------------------------------------------
(* Liveness that hangs on counters.  terminate_core()'s slices, the failed *)
(* probes and the accept queue are counted out up to the numbers in the    *)
(* code.                                                                   *)

\* 15 slices of 200 ms, HEALTH_CHECK_FAIL_THRESHOLD and listen(fd, 5).
NumbersOfTheCode == Polls <= 15 /\ FailThreshold <= 3 /\ Backlog <= 5

\* What main() does next, point by point.
LEMMA MainMoves ==
  ASSUME IndTypes, OrcStep
  PROVE  /\ opc # "exited"
         /\ opc = "boot" => opc' \in {"launch", "exited"}
         /\ opc = "launch" => opc' \in {"listen", "loop"}
         /\ opc = "listen" => opc' \in {"loop", "exited"}
         /\ opc = "loop" =>
              \/ opc' = "terminate"
              \/ opc' = "loop" /\ failures' = failures + 1
              \/ opc' = "loop" /\ Connectable /\ pending' = pending + 1
         /\ opc = "terminate" => opc' = "launch" \/ (opc' = "await" /\ polls' = 0)
         /\ opc = "await" =>
              opc' = "cleanup" \/ (opc' = "await" /\ polls' = polls + 1)
         /\ opc = "cleanup" => opc' = "launch"
         /\ slot = "free" => slot' = "free" \/ LaunchSucceeds
         /\ slot = "dead" /\ opc # "cleanup" => slot' = "dead"
<1> USE DEF orcVars, pmVars, coreVars, histVars
<1>1. CASE OrcInit \/ OrcGivesUp \/ OrcListen
  BY <1>1 DEF OrcInit, OrcGivesUp, OrcListen
<1>2. CASE LaunchSucceeds \/ LaunchFails
  BY <1>2 DEF LaunchSucceeds, LaunchFails, AfterLaunch
<1>3. CASE TerminateSkipped \/ TerminateCore \/ CleanupCore
  BY <1>3 DEF TerminateSkipped, TerminateCore, CleanupCore
<1>4. CASE AwaitNothing \/ AwaitEvent
  BY <1>4 DEF AwaitNothing, AwaitEvent, NextSlice
<1>5. CASE Probe
  BY <1>5 DEF Probe, ProbeSucceeds, ProbeFails
<1> QED
  BY <1>1, <1>2, <1>3, <1>4, <1>5 DEF OrcStep

\* All that others do to main() is to ask it for a restart, and all they do to
\* a slot that is free is nothing.
LEMMA OthersOfMain ==
  ASSUME IndTypes, [Next]_vars, ~OrcStep
  PROVE  /\ UNCHANGED <<polls, failures, cached>>
         /\ opc' = opc \/ (opc = "loop" /\ opc' = "terminate")
         /\ slot \in {"free", "dead"} => slot' = slot
<1> USE DEF orcVars, pmVars, coreVars, histVars
<1>1. CASE AcceptControl
  BY <1>1 DEF AcceptControl, ControlNotFound, ControlRestart, ControlRefused
<1>2. CASE Teardown \/ CoreDies
  BY <1>2 DEF Teardown, CoreDies, ProcessEnds
<1>3. CASE CoreStep
  BY <1>3 DEF CoreStep, CoreListens, CoreAccepts, CoreReloads, CoreAnswers,
     CoreSticks, CoreRelistens, coreRest
<1>4. CASE ClientConnects \/ ControlRequested \/ SettingsEdited
             \/ ConsoleSleepsAndWakes \/ UNCHANGED vars
  BY <1>4 DEF ClientConnects, ControlRequested, SettingsEdited,
     ConsoleSleepsAndWakes, coreRest, vars
<1> QED
  BY <1>1, <1>2, <1>3, <1>4 DEF Next

At(point)  == opc = point
Slice(k)   == opc = "await" /\ polls = k
Failed(k)  == opc = "loop" /\ failures = k

\* The k-th slice is followed by the next one, n, or the wait is over.
Waits(k, n) == Slice(k) => \/ Slice(k)' /\ ~<<OrcStep>>_vars
                           \/ Slice(n)' \/ At("cleanup")'

LEMMA SliceWaits ==
  ASSUME IndTypes, [Next]_vars, NEW k \in Nat, NEW n, n = k + 1
  PROVE  Waits(k, n)
<1>1. CASE OrcStep
  BY <1>1, MainMoves DEF Waits, Slice, At
<1>2. CASE ~OrcStep
  BY <1>2, OthersOfMain DEF Waits, Slice, At
<1> QED
  BY <1>1, <1>2

\* terminate_core() does not wait for ever.
LEMMA AwaitEnds ==
  ASSUME Polls <= 15
  PROVE  FairSpec /\ []OrchestratorGoesOn => (At("await") ~> At("cleanup"))
<1>1. IndTypes /\ [Next]_vars =>
        /\ Waits(0, 1) /\ Waits(1, 2) /\ Waits(2, 3) /\ Waits(3, 4)
        /\ Waits(4, 5) /\ Waits(5, 6) /\ Waits(6, 7) /\ Waits(7, 8)
        /\ Waits(8, 9) /\ Waits(9, 10) /\ Waits(10, 11) /\ Waits(11, 12)
        /\ Waits(12, 13) /\ Waits(13, 14) /\ Waits(14, 15)
  BY SliceWaits
<1>2. IndTypes /\ At("await") =>
        \/ Slice(0) \/ Slice(1) \/ Slice(2) \/ Slice(3) \/ Slice(4)
        \/ Slice(5) \/ Slice(6) \/ Slice(7) \/ Slice(8) \/ Slice(9)
        \/ Slice(10) \/ Slice(11) \/ Slice(12) \/ Slice(13) \/ Slice(14)
  BY Limits DEF IndTypes, TypeOK, CountersInRange, At, Slice
<1>3. IndTypes => ~Slice(15)
  BY Limits DEF IndTypes, CountersInRange, Slice
<1>4. OrchestratorGoesOn /\ At("await") => ENABLED <<OrcStep>>_vars
  BY DEF OrchestratorGoesOn, At
<1>5. /\ Slice(0) \/ Slice(1) \/ Slice(2) \/ Slice(3) \/ Slice(4)
           \/ Slice(5) \/ Slice(6) \/ Slice(7) \/ Slice(8) \/ Slice(9)
           \/ Slice(10) \/ Slice(11) \/ Slice(12) \/ Slice(13) \/ Slice(14)
             => At("await")
  BY DEF Slice, At
<1> QED
  BY <1>1, <1>2, <1>3, <1>4, <1>5, TypesAlways, PTL
     DEF FairSpec, Fairness, Spec, Waits

-----------------------------------------------------------------------------
(* A core that is gone comes back.                                         *)

\* Before its socket is bound core has none, and where the process manager
\* frees the slot of an ended process by itself, none is found dead.
IndGone == /\ IndSlot
           /\ phase \in {"none", "booting"} => sock = "none"
           /\ ~SlotHeld => slot # "dead"

LEMMA GoneStep == IndGone /\ [Next]_vars => IndGone'
<1> SUFFICES ASSUME IndGone, [Next]_vars PROVE IndGone'
  OBVIOUS
<1>1. IndSlot' /\ [Outside!Next]_<<phase, sock>>
  BY OutsideStep DEF IndGone
<1>2. phase' \in {"none", "booting"} => sock' = "none"
  BY <1>1 DEF IndGone, Outside!Next, Outside!Start, Outside!End,
     Outside!Listen, Outside!Take, Outside!Finish, Outside!Stick,
     Outside!Relisten, Outside!Lose
<1>3. ~SlotHeld => slot' # "dead"
  <2> USE DEF pmVars, coreRest
  <2>1. CASE Elsewhere
    BY <2>1, ElsewhereKeeps DEF IndGone
  <2>2. CASE LaunchSucceeds \/ Teardown \/ CoreDies
    BY <2>2 DEF LaunchSucceeds, Teardown, CoreDies, ProcessEnds
  <2>3. CASE CoreStep \/ ConsoleSleepsAndWakes
    BY <2>3 DEF IndGone, CoreStep, CoreListens, CoreAccepts, CoreReloads,
       CoreAnswers, CoreSticks, CoreRelistens, ConsoleSleepsAndWakes
  <2> QED
    BY <2>1, <2>2, <2>3 DEF Next, OrcStep, Elsewhere
<1> QED
  BY <1>1, <1>2, <1>3 DEF IndGone

LEMMA GoneAlways == Spec => []IndGone
<1>1. Init => IndGone
  BY DEF Init, IndGone, IndSlot
<1> QED
  BY <1>1, GoneStep, PTL DEF Spec

Back == slot = "running" \/ opc = "exited"

\* Nothing runs while main() stands at the point.
Down(point) == slot = "free" /\ opc = point

\* From one point to the next, with the slot free all the while.
LEMMA DownMoves ==
  ASSUME IndTypes, IndTypes', IndGone, [Next]_vars, slot = "free"
  PROVE  /\ Down("boot") => (Down("boot")' /\ ~<<OrcStep>>_vars)
                              \/ Down("launch")' \/ Back'
         /\ Down("launch") => (Down("launch")' /\ ~<<OrcStep>>_vars)
                                \/ Down("listen")' \/ Down("loop")' \/ Back'
         /\ Down("listen") => (Down("listen")' /\ ~<<OrcStep>>_vars)
                                \/ Down("loop")' \/ Back'
         /\ Down("terminate") => (Down("terminate")' /\ ~<<OrcStep>>_vars)
                                   \/ Down("launch")' \/ Down("await")' \/ Back'
         /\ Down("await") => Down("await")' \/ Down("cleanup")' \/ Back'
         /\ Down("cleanup") => (Down("cleanup")' /\ ~<<OrcStep>>_vars)
                                 \/ Down("launch")' \/ Back'
<1> USE DEF Down, Back
<1>1. LaunchSucceeds => slot' = "running"
  BY DEF LaunchSucceeds
<1>2. CASE OrcStep
  BY <1>1, <1>2, MainMoves
<1>3. CASE ~OrcStep
  BY <1>3, OthersOfMain DEF OrcStep
<1> QED
  BY <1>2, <1>3

\* In the loop every probe fails, for nothing listens: the slot is free, or what
\* it holds is dead.
LEMMA ProbesOfNobody ==
  ASSUME IndTypes, IndGone, [Next]_vars, NEW st \in {"free", "dead"}, slot = st,
         NEW i \in Nat, NEW n, n = i + 1
  PROVE  Failed(i) => \/ (slot = st /\ Failed(i))' /\ ~<<OrcStep>>_vars
                      \/ (slot = st /\ Failed(n))'
                      \/ (slot = st /\ opc = "terminate")' \/ Back'
<1> USE DEF Back, Failed
<1>1. ~Connectable
  BY DEF IndGone, IndSlot, Connectable
<1>2. CASE OrcStep
  <2>1. LaunchSucceeds => slot' = "running"
    BY DEF LaunchSucceeds
  <2> QED
    BY <1>1, <1>2, <2>1, MainMoves
<1>3. CASE ~OrcStep
  BY <1>3, OthersOfMain
<1> QED
  BY <1>2, <1>3

ProbesEnd(st) ==
  (slot = st /\ opc = "loop") ~> (slot = st /\ opc = "terminate") \/ Back

\* With nothing to connect to, the probes end in a restart.
LEMMA ProbesRestart ==
  ASSUME FailThreshold <= 3, NEW st \in {"free", "dead"}
  PROVE  FairSpec /\ []OrchestratorGoesOn => ProbesEnd(st)
<1> DEFINE Safe == IndTypes /\ IndGone
           Missed(k) == slot = st /\ Failed(k)
           Rounds == slot = st /\ opc = "loop"
           Restart == slot = st /\ opc = "terminate"
<1>1. Safe /\ [Next]_vars =>
        /\ Missed(0) => \/ Missed(0)' /\ ~<<OrcStep>>_vars
                        \/ Missed(1)' \/ Restart' \/ Back'
        /\ Missed(1) => \/ Missed(1)' /\ ~<<OrcStep>>_vars
                        \/ Missed(2)' \/ Restart' \/ Back'
        /\ Missed(2) => \/ Missed(2)' /\ ~<<OrcStep>>_vars
                        \/ Missed(3)' \/ Restart' \/ Back'
  BY ProbesOfNobody
<1>2. Safe => /\ Rounds <=> Missed(0) \/ Missed(1) \/ Missed(2)
              /\ ~Missed(3)
  BY Limits DEF IndTypes, TypeOK, CountersInRange, Failed
<1>3. OrchestratorGoesOn /\ Rounds => ENABLED <<OrcStep>>_vars
  BY DEF OrchestratorGoesOn
<1> HIDE DEF Missed, Rounds, Restart
<1>4. FairSpec /\ []OrchestratorGoesOn => (Rounds ~> Restart \/ Back)
  BY <1>1, <1>2, <1>3, TypesAlways, GoneAlways, PTL
     DEF FairSpec, Fairness, Spec
<1> QED
  BY <1>4 DEF Rounds, Restart, ProbesEnd

\* Nor does it wait for ever for the exit of a core that is gone.
LEMMA DownAwaitEnds ==
  ASSUME Polls <= 15
  PROVE  FairSpec /\ []OrchestratorGoesOn =>
           (Down("await") ~> Down("cleanup") \/ Back)
<1> DEFINE Safe == IndTypes /\ IndGone
<1>1. Safe /\ Safe' /\ [Next]_vars =>
        (Down("await") => Down("await")' \/ Down("cleanup")' \/ Back')
  BY DownMoves DEF Down
<1>2. (Down("await") => At("await")) /\ (At("cleanup") => ~At("await"))
  BY DEF Down, At
<1> QED
  BY <1>1, <1>2, AwaitEnds, TypesAlways, GoneAlways, PTL
     DEF FairSpec, Fairness, Spec

\* A slot that is free is launched into, if not at once then after as many more
\* rounds as it takes: each launch that is refused is followed by another,
\* because probes of nobody fail, and LaunchProgram is not refused for ever.
LEMMA FreeIsTaken ==
  ASSUME NumbersOfTheCode
  PROVE  FairSpec /\ []OrchestratorGoesOn => (slot = "free" ~> Back)
<1> DEFINE Safe  == IndTypes /\ IndGone /\ OrchestratorGoesOn
           Freed == slot = "free"
<1>1. Safe /\ Freed => \/ Down("boot") \/ Down("launch") \/ Down("listen")
                       \/ Down("loop") \/ Down("terminate") \/ Down("await")
                       \/ Down("cleanup") \/ Back
  BY DEF IndTypes, TypeOK, OrcPoints, Down, Back
<1>2. Safe /\ Safe' /\ Freed /\ [Next]_vars =>
        /\ Down("boot") => \/ Down("boot")' /\ ~<<OrcStep>>_vars
                           \/ Down("launch")' \/ Back'
        /\ Down("launch") => \/ Down("launch")' /\ ~<<OrcStep>>_vars
                             \/ Down("listen")' \/ Down("loop")' \/ Back'
        /\ Down("listen") => \/ Down("listen")' /\ ~<<OrcStep>>_vars
                             \/ Down("loop")' \/ Back'
        /\ Down("terminate") => \/ Down("terminate")' /\ ~<<OrcStep>>_vars
                                \/ Down("launch")' \/ Down("await")' \/ Back'
        /\ Down("cleanup") => \/ Down("cleanup")' /\ ~<<OrcStep>>_vars
                              \/ Down("launch")' \/ Back'
  BY DownMoves
<1>3. Safe /\ (\/ Down("boot") \/ Down("launch") \/ Down("listen")
               \/ Down("terminate") \/ Down("cleanup"))
        => Freed /\ (Back \/ ENABLED <<OrcStep>>_vars)
  BY DEF OrchestratorGoesOn, Down, Back
<1>4. Safe /\ Down("launch") => ENABLED <<LaunchSucceeds>>_vars
  BY DEF OrchestratorGoesOn, Down
<1>5. FairSpec /\ []OrchestratorGoesOn =>
        /\ Down("loop") ~> Down("terminate") \/ Back
        /\ Down("await") ~> Down("cleanup") \/ Back
  <2>1. FairSpec /\ []OrchestratorGoesOn => ProbesEnd("free")
    BY ProbesRestart DEF NumbersOfTheCode
  <2>2. ProbesEnd("free") => (Down("loop") ~> Down("terminate") \/ Back)
    BY DEF ProbesEnd, Down
  <2> QED
    BY <2>1, <2>2, DownAwaitEnds DEF NumbersOfTheCode
<1>6. <<LaunchSucceeds>>_vars => Back'
  BY DEF LaunchSucceeds, Back
<1> HIDE DEF Freed
<1>7. FairSpec /\ []OrchestratorGoesOn => (Freed ~> Back)
  BY <1>1, <1>2, <1>3, <1>4, <1>5, <1>6, TypesAlways, GoneAlways, PTL
     DEF FairSpec, Fairness, Spec
<1> QED
  BY <1>7 DEF Freed

\* As long as the orchestrator is not stuck, with a process manager that frees
\* the slot by itself, core is launched again however it was lost.
THEOREM CoreReturns ==
  ASSUME SlotHeld = FALSE, NumbersOfTheCode
  PROVE  FairSpec /\ []OrchestratorGoesOn => CoreComesBack
<1> DEFINE Safe  == IndTypes /\ IndGone /\ OrchestratorGoesOn
           Torn  == slot = "terminating"
           Freed == slot = "free"
<1>1. Safe /\ slot # "running" => Torn \/ Freed
  BY DEF IndTypes, TypeOK, IndGone
<1>2. Safe /\ Safe' /\ Torn /\ [Next]_vars => Torn' \/ Freed' \/ Back'
  BY DEF IndTypes, TypeOK, IndGone, Back
<1>3. Torn /\ <<Teardown>>_vars => Freed'
  BY DEF Teardown, ProcessEnds
<1>4. Safe /\ Torn => ENABLED <<Teardown>>_vars
  BY DEF OrchestratorGoesOn
<1>5. (slot = "running" \/ opc = "exited") <=> Back
  BY DEF Back
<1>6. FairSpec /\ []OrchestratorGoesOn => (Freed ~> Back)
  BY FreeIsTaken
<1> HIDE DEF Torn, Freed
<1> QED
  BY <1>1, <1>2, <1>3, <1>4, <1>5, <1>6, TypesAlways, GoneAlways, PTL
     DEF FairSpec, Fairness, Spec, CoreComesBack

-----------------------------------------------------------------------------
(* The other process manager: an ended process keeps its slot until        *)
(* CleanupProcess is called with its pid.                                  *)

\* Whatever has the slot is the process whose pid terminate_core() has.
SlotTracked ==
  slot # "free" => /\ corePid = slotPid
                   /\ opc \in {"await", "cleanup"} => target = slotPid

\* terminate_core() does not forget a core that has not ended yet.
LEMMA SlotTrackedStep ==
  ASSUME IndTypes, SlotTracked, [Next]_vars,
         CleanupCore => slot \in {"free", "dead"}
  PROVE  SlotTracked'
<1> USE DEF SlotTracked, orcVars, pmVars, coreVars, histVars
<1>1. CASE OrcInit \/ OrcGivesUp \/ OrcListen \/ TerminateSkipped
  BY <1>1 DEF OrcInit, OrcGivesUp, OrcListen, TerminateSkipped
<1>2. CASE LaunchSucceeds \/ LaunchFails
  BY <1>2 DEF LaunchSucceeds, LaunchFails, AfterLaunch
<1>3. CASE TerminateCore
  BY <1>3 DEF TerminateCore
<1>4. CASE AwaitNothing \/ AwaitEvent
  BY <1>4 DEF AwaitNothing, AwaitEvent, NextSlice
<1>5. CASE CleanupCore
  BY <1>5 DEF CleanupCore
<1>6. CASE Probe \/ AcceptControl
  BY <1>6 DEF Probe, ProbeSucceeds, ProbeFails, AcceptControl, ControlNotFound,
     ControlRestart, ControlRefused
<1>7. CASE Teardown \/ CoreDies
  BY <1>7 DEF Teardown, CoreDies, ProcessEnds
<1>8. CASE CoreStep
  BY <1>8 DEF CoreStep, CoreListens, CoreAccepts, CoreReloads, CoreAnswers,
     CoreSticks, CoreRelistens, coreRest
<1>9. CASE ClientConnects \/ ControlRequested \/ SettingsEdited
             \/ ConsoleSleepsAndWakes \/ UNCHANGED vars
  BY <1>9 DEF ClientConnects, ControlRequested, SettingsEdited,
     ConsoleSleepsAndWakes, coreRest, vars
<1> QED
  BY <1>1, <1>2, <1>3, <1>4, <1>5, <1>6, <1>7, <1>8, <1>9 DEF Next, OrcStep

\* An ended core is in the slot while main() stands at the point.
Dead(point) == slot = "dead" /\ opc = point

\* From one point to the next, until the slot is cleaned up.
LEMMA DeadMoves ==
  ASSUME IndTypes, IndGone, SlotTracked, [Next]_vars, slot = "dead"
  PROVE  /\ Dead("boot") => (Dead("boot")' /\ ~<<OrcStep>>_vars)
                              \/ Dead("launch")' \/ Back'
         /\ Dead("launch") => (Dead("launch")' /\ ~<<OrcStep>>_vars)
                                \/ Dead("listen")' \/ Dead("loop")'
         /\ Dead("listen") => (Dead("listen")' /\ ~<<OrcStep>>_vars)
                                \/ Dead("loop")' \/ Back'
         /\ Dead("terminate") => (Dead("terminate")' /\ ~<<OrcStep>>_vars)
                                   \/ Dead("await")'
         /\ Dead("await") => Dead("await")' \/ Dead("cleanup")'
         /\ Dead("cleanup") => (Dead("cleanup")' /\ ~<<OrcStep>>_vars)
                                 \/ (slot = "free")'
<1> USE DEF Dead, Back
<1>1. CASE OrcStep
  <2>1. corePid = slotPid /\ corePid # NoPid
    BY DEF SlotTracked, IndTypes, SlotNamed
  <2>2. TerminateSkipped => FALSE
    BY <2>1 DEF TerminateSkipped
  <2>3. opc = "terminate" => opc' = "await"
    BY <1>1, <2>2 DEF OrcStep, OrcInit, OrcGivesUp, OrcListen, LaunchSucceeds,
       LaunchFails, TerminateCore, AwaitNothing, AwaitEvent, CleanupCore, Probe,
       ProbeSucceeds, ProbeFails
  <2>4. opc = "cleanup" => CleanupCore
    BY <1>1 DEF OrcStep, OrcInit, OrcGivesUp, OrcListen, LaunchSucceeds,
       LaunchFails, TerminateSkipped, TerminateCore, AwaitNothing, AwaitEvent,
       Probe, ProbeSucceeds, ProbeFails
  <2>5. opc = "cleanup" => slot' = "free"
    BY <2>4 DEF CleanupCore, SlotTracked
  <2> QED
    BY <1>1, <2>3, <2>5, MainMoves
<1>2. CASE ~OrcStep
  BY <1>2, OthersOfMain
<1> QED
  BY <1>1, <1>2

\* An ended core that still has its slot is found out and cleaned up after.
LEMMA DeadIsFreed ==
  ASSUME NumbersOfTheCode
  PROVE  FairSpec /\ []OrchestratorGoesOn /\ []SlotTracked
           => (slot = "dead" ~> slot = "free" \/ Back)
<1> DEFINE Safe  == IndTypes /\ IndGone /\ SlotTracked /\ OrchestratorGoesOn
           Kept  == slot = "dead"
           Freed == slot = "free"
<1>1. Safe /\ Kept => \/ Dead("boot") \/ Dead("launch") \/ Dead("listen")
                      \/ Dead("loop") \/ Dead("terminate") \/ Dead("await")
                      \/ Dead("cleanup") \/ Back
  BY DEF IndTypes, TypeOK, OrcPoints, Dead, Back
<1>2. Safe /\ [Next]_vars =>
        /\ Dead("boot") => \/ Dead("boot")' /\ ~<<OrcStep>>_vars
                           \/ Dead("launch")' \/ Back'
        /\ Dead("launch") => \/ Dead("launch")' /\ ~<<OrcStep>>_vars
                             \/ Dead("listen")' \/ Dead("loop")'
        /\ Dead("listen") => \/ Dead("listen")' /\ ~<<OrcStep>>_vars
                             \/ Dead("loop")' \/ Back'
        /\ Dead("terminate") => \/ Dead("terminate")' /\ ~<<OrcStep>>_vars
                                \/ Dead("await")'
        /\ Dead("await") => Dead("await")' \/ Dead("cleanup")'
        /\ Dead("cleanup") => \/ Dead("cleanup")' /\ ~<<OrcStep>>_vars
                              \/ Freed'
  <2> SUFFICES ASSUME Safe, [Next]_vars, Kept
               PROVE  /\ Dead("boot") => \/ Dead("boot")' /\ ~<<OrcStep>>_vars
                                         \/ Dead("launch")' \/ Back'
                      /\ Dead("launch") => \/ Dead("launch")' /\ ~<<OrcStep>>_vars
                                           \/ Dead("listen")' \/ Dead("loop")'
                      /\ Dead("listen") => \/ Dead("listen")' /\ ~<<OrcStep>>_vars
                                           \/ Dead("loop")' \/ Back'
                      /\ Dead("terminate") =>
                           \/ Dead("terminate")' /\ ~<<OrcStep>>_vars
                           \/ Dead("await")'
                      /\ Dead("await") => Dead("await")' \/ Dead("cleanup")'
                      /\ Dead("cleanup") =>
                           \/ Dead("cleanup")' /\ ~<<OrcStep>>_vars
                           \/ Freed'
    BY DEF Dead
  <2> QED
    BY DeadMoves
<1>3. Safe /\ (\/ Dead("boot") \/ Dead("launch") \/ Dead("listen")
               \/ Dead("terminate") \/ Dead("cleanup"))
        => ENABLED <<OrcStep>>_vars
  BY DEF OrchestratorGoesOn, Dead
<1>4. FairSpec /\ []OrchestratorGoesOn =>
        (Dead("loop") ~> Dead("terminate") \/ Back)
  <2>1. FairSpec /\ []OrchestratorGoesOn => ProbesEnd("dead")
    BY ProbesRestart DEF NumbersOfTheCode
  <2>2. ProbesEnd("dead") => (Dead("loop") ~> Dead("terminate") \/ Back)
    BY DEF ProbesEnd, Dead
  <2> QED
    BY <2>1, <2>2
<1>5. FairSpec /\ []OrchestratorGoesOn => (At("await") ~> At("cleanup"))
  BY AwaitEnds DEF NumbersOfTheCode
<1>6. (Dead("await") => At("await")) /\ (At("cleanup") => ~At("await"))
  BY DEF Dead, At
<1> HIDE DEF Kept, Freed
<1>7. FairSpec /\ []OrchestratorGoesOn /\ []SlotTracked
        => (Kept ~> Freed \/ Back)
  <2>1. FairSpec /\ []OrchestratorGoesOn /\ []SlotTracked
          => (Dead("await") ~> Dead("cleanup"))
    BY <1>2, <1>5, <1>6, TypesAlways, GoneAlways, PTL
       DEF FairSpec, Fairness, Spec
  <2> QED
    BY <1>1, <1>2, <1>3, <1>4, <2>1, TypesAlways, GoneAlways, PTL
       DEF FairSpec, Fairness, Spec
<1> QED
  BY <1>7 DEF Kept, Freed

\* core is launched again with either process manager, however it was lost, if
\* it has always ended by the time terminate_core() calls CleanupProcess.  With
\* a process manager that keeps the slots of ended processes this is needed:
\* see ForgottenStaysAway.
THEOREM CoreReturnsInTime ==
  ASSUME NumbersOfTheCode
  PROVE  FairSpec /\ []OrchestratorGoesOn
           /\ [][CleanupCore => slot \in {"free", "dead"}]_vars => CoreComesBack
<1> DEFINE Safe  == IndTypes /\ IndGone /\ SlotTracked /\ OrchestratorGoesOn
           InTime == CleanupCore => slot \in {"free", "dead"}
           Torn  == slot = "terminating"
           Kept  == slot = "dead"
           Freed == slot = "free"
<1>1. Init => SlotTracked
  BY DEF Init, SlotTracked
<1>2. IndTypes /\ SlotTracked /\ [Next]_vars /\ [InTime]_vars => SlotTracked'
  <2> SUFFICES ASSUME IndTypes, SlotTracked, [Next]_vars, [InTime]_vars
               PROVE  SlotTracked'
    OBVIOUS
  <2>1. CASE UNCHANGED vars
    BY <2>1 DEF vars, orcVars, pmVars, SlotTracked
  <2>2. CASE InTime
    BY <2>2, SlotTrackedStep
  <2> QED
    BY <2>1, <2>2
<1>3. Safe /\ slot # "running" => Torn \/ Kept \/ Freed
  BY DEF IndTypes, TypeOK
<1>4. Torn /\ <<Teardown>>_vars => Kept' \/ Freed'
  BY DEF Teardown, ProcessEnds
<1>5. Safe /\ Torn => ENABLED <<Teardown>>_vars
  BY DEF OrchestratorGoesOn
<1>6. Safe /\ Safe' /\ Torn /\ [Next]_vars => Torn' \/ Kept' \/ Freed' \/ Back'
  BY DEF IndTypes, TypeOK, Back
<1>7. FairSpec /\ []OrchestratorGoesOn => (Freed ~> Back)
  BY FreeIsTaken
<1>8. FairSpec /\ []OrchestratorGoesOn /\ []SlotTracked
        => (Kept ~> Freed \/ Back)
  BY DeadIsFreed
<1>9. (slot = "running" \/ opc = "exited") <=> Back
  BY DEF Back
<1> HIDE DEF Torn, Kept, Freed, InTime
<1>10. FairSpec /\ [][InTime]_vars => []SlotTracked
  BY <1>1, <1>2, TypesAlways, PTL DEF FairSpec, Spec
<1> QED
  BY <1>3, <1>4, <1>5, <1>6, <1>7, <1>8, <1>9, <1>10, TypesAlways, GoneAlways,
     PTL DEF FairSpec, Fairness, Spec, CoreComesBack, InTime

\* A core whose pid terminate_core() has forgotten before it had ended.
Forgotten ==
  /\ slot \in {"terminating", "dead"} /\ corePid = NoPid
  /\ opc \notin {"await", "cleanup"}

\* Where CleanupProcess alone frees a slot, a core that terminate_core() has
\* forgotten too early blocks it for good: no core ever runs again.
THEOREM ForgottenStaysAway ==
  ASSUME SlotHeld = TRUE
  PROVE  Spec => [](Forgotten => [](slot # "running"))
<1>1. Forgotten /\ [Next]_vars => Forgotten'
  <2> SUFFICES ASSUME Forgotten, [Next]_vars PROVE Forgotten'
    OBVIOUS
  <2> USE DEF Forgotten, orcVars, pmVars, coreVars, histVars
  <2>1. CASE OrcInit \/ OrcGivesUp \/ OrcListen \/ TerminateSkipped
    BY <2>1 DEF OrcInit, OrcGivesUp, OrcListen, TerminateSkipped
  <2>2. CASE LaunchSucceeds \/ LaunchFails
    BY <2>2 DEF LaunchSucceeds, LaunchFails, AfterLaunch
  <2>3. CASE TerminateCore \/ AwaitNothing \/ AwaitEvent \/ CleanupCore
    BY <2>3 DEF TerminateCore, AwaitNothing, AwaitEvent, CleanupCore
  <2>4. CASE Probe \/ AcceptControl
    BY <2>4 DEF Probe, ProbeSucceeds, ProbeFails, AcceptControl,
       ControlNotFound, ControlRestart, ControlRefused
  <2>5. CASE Teardown \/ CoreDies
    BY <2>5 DEF Teardown, CoreDies, ProcessEnds
  <2>6. CASE CoreStep
    BY <2>6 DEF CoreStep, CoreListens, CoreAccepts, CoreReloads, CoreAnswers,
       CoreSticks, CoreRelistens, coreRest
  <2>7. CASE ClientConnects \/ ControlRequested \/ SettingsEdited
               \/ ConsoleSleepsAndWakes \/ UNCHANGED vars
    BY <2>7 DEF ClientConnects, ControlRequested, SettingsEdited,
       ConsoleSleepsAndWakes, coreRest, vars
  <2> QED
    BY <2>1, <2>2, <2>3, <2>4, <2>5, <2>6, <2>7 DEF Next, OrcStep
<1>2. Forgotten => slot # "running"
  BY DEF Forgotten
<1> QED
  BY <1>1, <1>2, PTL DEF Spec

-----------------------------------------------------------------------------
(* A core whose handler hangs is terminated.                               *)

\* The handler of the instance p hangs, and no restart has come to p yet.
Stuck(p) == slotPid = p /\ phase = "stuck" /\ slot = "running"

Over(p) == slotPid # p \/ phase # "stuck" \/ opc = "exited"

\* p is over, on its way out, or about to be terminated.
Caught(p) == Over(p) \/ Asked(p) \/ (Stuck(p) /\ opc = "terminate")

\* Meanwhile a connection can join the queue of its socket, but none leaves it,
\* and a socket that is lost is not replaced.
LEMMA StuckQueue ==
  ASSUME NEW p \in Pids, IndTypes, Stuck(p), [Next]_vars
  PROVE  \/ Over(p)' \/ Asked(p)'
         \/ /\ Stuck(p)'
            /\ opc # "boot" => cached' = cached
            /\ port' = port /\ (sock' = "open" => sock = "open")
            /\ sock' = "open" => pending' = pending \/ pending' = pending + 1
<1> USE DEF Stuck, Over, Asked, orcVars, pmVars, coreVars, histVars
<1>1. CASE Elsewhere
  <2>1. CASE TerminateCore \/ CleanupCore \/ OrcInit
    BY <2>1 DEF TerminateCore, CleanupCore, OrcInit
  <2>2. CASE Probe \/ ClientConnects \/ AcceptControl
    BY <2>2 DEF Probe, ProbeSucceeds, ProbeFails, ClientConnects, coreRest,
       AcceptControl, ControlRefused, ControlNotFound, ControlRestart
  <2>3. CASE OrcGivesUp \/ OrcListen \/ LaunchFails \/ TerminateSkipped
               \/ AwaitNothing \/ AwaitEvent
    BY <2>3 DEF OrcGivesUp, OrcListen, LaunchFails, AfterLaunch,
       TerminateSkipped, AwaitNothing, AwaitEvent
  <2>4. CASE ControlRequested \/ SettingsEdited \/ UNCHANGED vars
    BY <2>4 DEF ControlRequested, SettingsEdited, vars
  <2> QED
    BY <1>1, <2>1, <2>2, <2>3, <2>4 DEF Elsewhere
<1>2. CASE LaunchSucceeds \/ Teardown
  BY <1>2 DEF LaunchSucceeds, Teardown
<1>3. CASE CoreDies
  BY <1>3 DEF CoreDies, ProcessEnds
<1>4. CASE CoreStep
  BY <1>4 DEF CoreStep, CoreListens, CoreAccepts, CoreReloads, CoreAnswers,
     CoreSticks, CoreRelistens
<1>5. CASE ConsoleSleepsAndWakes
  BY <1>5 DEF ConsoleSleepsAndWakes
<1> QED
  BY <1>1, <1>2, <1>3, <1>4, <1>5 DEF Next, OrcStep, Elsewhere

\* The probes go round while j connections wait; or none can be made.
Room(p, j) == Stuck(p) /\ opc = "loop" /\ Connectable /\ pending = j
Deaf(p)    == Stuck(p) /\ opc = "loop" /\ ~Connectable

\* While nothing joins the queue, probes can only fail, one after the other.
LEMMA RoomMoves ==
  ASSUME NEW p \in Pids, IndTypes, [Next]_vars, NEW j \in Nat, NEW m, m = j + 1,
         NEW i \in Nat, NEW n, n = i + 1, Room(p, j), Failed(i)
  PROVE  \/ Room(p, j)' /\ Failed(i)' /\ ~<<OrcStep>>_vars
         \/ Room(p, j)' /\ Failed(n)'
         \/ Room(p, m)' \/ Deaf(p)' \/ Caught(p)'
<1>1. opc' \in {"loop", "terminate"}
  BY MainMoves, OthersOfMain DEF Room
<1>2. Over(p)' \/ Asked(p)' \/ Stuck(p)'
  BY StuckQueue DEF Room
<1>3. CASE Stuck(p)' /\ opc' = "loop" /\ Connectable'
  <2>1. pending' = j \/ pending' = m
    BY <1>3, StuckQueue DEF Room, Connectable, Stuck, Over, Asked
  <2>2. IF OrcStep THEN failures' = n \/ pending' = m ELSE failures' = i
    BY <1>3, MainMoves, OthersOfMain DEF Room, Failed
  <2> QED
    BY <1>3, <2>1, <2>2 DEF Room, Failed
<1>4. CASE Stuck(p)' /\ opc' = "loop" /\ ~Connectable'
  BY <1>4 DEF Deaf
<1> QED
  BY <1>1, <1>2, <1>3, <1>4 DEF Caught

\* With no room, or no socket, all of them do.
LEMMA DeafMoves ==
  ASSUME NEW p \in Pids, IndTypes, [Next]_vars,
         NEW i \in Nat, NEW n, n = i + 1, Deaf(p), Failed(i)
  PROVE  \/ Deaf(p)' /\ Failed(i)' /\ ~<<OrcStep>>_vars
         \/ Deaf(p)' /\ Failed(n)'
         \/ Caught(p)'
<1>1. opc' \in {"loop", "terminate"}
  BY MainMoves, OthersOfMain DEF Deaf
<1>2. Over(p)' \/ Asked(p)' \/ Stuck(p)'
  BY StuckQueue DEF Deaf
<1>3. CASE Stuck(p)' /\ opc' = "loop"
  <2>1. pending \in Nat /\ Backlog \in Nat
    BY Limits DEF IndTypes, TypeOK
  <2>2. ~Connectable'
    BY <1>3, <2>1, StuckQueue DEF Deaf, Connectable, Stuck, Over, Asked
  <2>3. IF OrcStep THEN failures' = n ELSE failures' = i
    BY <1>3, MainMoves, OthersOfMain DEF Deaf, Failed
  <2> QED
    BY <1>3, <2>2, <2>3 DEF Deaf, Failed
<1> QED
  BY <1>1, <1>2, <1>3 DEF Caught

\* The probes go on, with j connections waiting, until m do.
Tried(p, j, i) == Room(p, j) /\ Failed(i)
Ahead(p, m)    == Room(p, m) \/ Deaf(p) \/ Caught(p)

Fills(p, j, m) ==
  /\ Tried(p, j, 0) => \/ Tried(p, j, 0)' /\ ~<<OrcStep>>_vars
                       \/ Tried(p, j, 1)' \/ Ahead(p, m)'
  /\ Tried(p, j, 1) => \/ Tried(p, j, 1)' /\ ~<<OrcStep>>_vars
                       \/ Tried(p, j, 2)' \/ Ahead(p, m)'
  /\ Tried(p, j, 2) => \/ Tried(p, j, 2)' /\ ~<<OrcStep>>_vars
                       \/ Ahead(p, m)'

LEMMA RoomFills ==
  ASSUME FailThreshold <= 3, NEW p \in Pids, NEW j \in Nat, NEW m, m = j + 1,
         IndTypes, IndTypes', [Next]_vars
  PROVE  Fills(p, j, m)
<1>1. ~Failed(3)'
  BY Limits DEF IndTypes, TypeOK, CountersInRange, Failed
<1>2. ASSUME NEW i \in 0..2, NEW n, n = i + 1, Tried(p, j, i)
      PROVE  \/ Tried(p, j, i)' /\ ~<<OrcStep>>_vars
             \/ Tried(p, j, n)' \/ Ahead(p, m)'
  BY <1>2, RoomMoves DEF Tried, Ahead
<1>3. ~Tried(p, j, 3)'
  BY <1>1 DEF Tried
<1> QED
  BY <1>2, <1>3 DEF Fills

LEMMA DeafEnds ==
  ASSUME FailThreshold <= 3, NEW p \in Pids
  PROVE  FairSpec /\ []OrchestratorGoesOn => (Deaf(p) ~> Caught(p))
<1> DEFINE Unheard(k) == Deaf(p) /\ Failed(k)
<1>1. IndTypes /\ [Next]_vars =>
        /\ Unheard(0) => \/ Unheard(0)' /\ ~<<OrcStep>>_vars
                         \/ Unheard(1)' \/ Caught(p)'
        /\ Unheard(1) => \/ Unheard(1)' /\ ~<<OrcStep>>_vars
                         \/ Unheard(2)' \/ Caught(p)'
        /\ Unheard(2) => \/ Unheard(2)' /\ ~<<OrcStep>>_vars
                         \/ Unheard(3)' \/ Caught(p)'
  BY DeafMoves
<1>2. IndTypes => /\ Deaf(p) <=> Unheard(0) \/ Unheard(1) \/ Unheard(2)
                  /\ ~Unheard(3)
  BY Limits DEF IndTypes, TypeOK, CountersInRange, Deaf, Failed
<1>3. OrchestratorGoesOn /\ Deaf(p) => ENABLED <<OrcStep>>_vars
  BY DEF OrchestratorGoesOn, Deaf
<1> HIDE DEF Unheard
<1> QED
  BY <1>1, <1>2, <1>3, TypesAlways, PTL DEF FairSpec, Fairness, Spec

\* The queue takes at most the five connections of listen(fd, 5).
LEMMA ProbesCatch ==
  ASSUME NumbersOfTheCode, NEW p \in Pids
  PROVE  FairSpec /\ []OrchestratorGoesOn =>
           ((Stuck(p) /\ opc = "loop") ~> Caught(p))
<1>1. IndTypes /\ Stuck(p) /\ opc = "loop" =>
        \/ Deaf(p) \/ Room(p, 0) \/ Room(p, 1) \/ Room(p, 2) \/ Room(p, 3)
        \/ Room(p, 4)
  BY Limits DEF IndTypes, TypeOK, NumbersOfTheCode, Deaf, Room, Connectable
<1>2. ~Room(p, 5)
  BY Limits DEF NumbersOfTheCode, Room, Connectable
<1>3. IndTypes /\ IndTypes' /\ [Next]_vars =>
        /\ Fills(p, 0, 1) /\ Fills(p, 1, 2) /\ Fills(p, 2, 3)
        /\ Fills(p, 3, 4) /\ Fills(p, 4, 5)
  BY RoomFills DEF NumbersOfTheCode
<1>4. ASSUME NEW j \in Nat, IndTypes
      PROVE  Room(p, j) <=> Tried(p, j, 0) \/ Tried(p, j, 1) \/ Tried(p, j, 2)
  BY <1>4, Limits DEF IndTypes, TypeOK, CountersInRange, NumbersOfTheCode,
     Room, Failed, Tried
<1>5. IndTypes =>
        /\ Room(p, 0) <=> Tried(p, 0, 0) \/ Tried(p, 0, 1) \/ Tried(p, 0, 2)
        /\ Room(p, 1) <=> Tried(p, 1, 0) \/ Tried(p, 1, 1) \/ Tried(p, 1, 2)
        /\ Room(p, 2) <=> Tried(p, 2, 0) \/ Tried(p, 2, 1) \/ Tried(p, 2, 2)
        /\ Room(p, 3) <=> Tried(p, 3, 0) \/ Tried(p, 3, 1) \/ Tried(p, 3, 2)
        /\ Room(p, 4) <=> Tried(p, 4, 0) \/ Tried(p, 4, 1) \/ Tried(p, 4, 2)
  BY <1>4
<1>6. OrchestratorGoesOn /\ (\/ Room(p, 0) \/ Room(p, 1) \/ Room(p, 2)
                             \/ Room(p, 3) \/ Room(p, 4))
        => ENABLED <<OrcStep>>_vars
  BY DEF OrchestratorGoesOn, Room
<1>7. FairSpec /\ []OrchestratorGoesOn => (Deaf(p) ~> Caught(p))
  BY DeafEnds DEF NumbersOfTheCode
<1>8. FairSpec /\ []OrchestratorGoesOn =>
        /\ Room(p, 0) ~> Room(p, 1) \/ Deaf(p) \/ Caught(p)
        /\ Room(p, 1) ~> Room(p, 2) \/ Deaf(p) \/ Caught(p)
  BY <1>3, <1>5, <1>6, TypesAlways, PTL
     DEF FairSpec, Fairness, Spec, Fills, Ahead
<1>9. FairSpec /\ []OrchestratorGoesOn =>
        /\ Room(p, 2) ~> Room(p, 3) \/ Deaf(p) \/ Caught(p)
        /\ Room(p, 3) ~> Room(p, 4) \/ Deaf(p) \/ Caught(p)
        /\ Room(p, 4) ~> Room(p, 5) \/ Deaf(p) \/ Caught(p)
  BY <1>3, <1>5, <1>6, TypesAlways, PTL
     DEF FairSpec, Fairness, Spec, Fills, Ahead
<1> QED
  BY <1>1, <1>2, <1>7, <1>8, <1>9, TypesAlways, PTL DEF FairSpec, Spec

\* From its start on, the orchestrator comes to its probes, unless it gives up.
LEMMA StuckMoves ==
  ASSUME NEW p \in Pids, IndTypes, CoreTracked, Stuck(p), [Next]_vars
  PROVE  /\ opc \notin {"await", "cleanup"}
         /\ opc = "boot" => \/ Stuck(p)' /\ opc' = "boot" /\ ~<<OrcStep>>_vars
                            \/ Stuck(p)' /\ opc' = "launch"
                            \/ Caught(p)'
         /\ opc = "launch" => \/ Stuck(p)' /\ opc' = "launch" /\ ~<<OrcStep>>_vars
                              \/ Stuck(p)' /\ opc' \in {"listen", "loop"}
                              \/ Caught(p)'
         /\ opc = "listen" => \/ Stuck(p)' /\ opc' = "listen" /\ ~<<OrcStep>>_vars
                              \/ Stuck(p)' /\ opc' = "loop"
                              \/ Caught(p)'
<1>1. opc \notin {"await", "cleanup"}
  BY DEF CoreTracked, Stuck
<1>2. Over(p)' \/ Asked(p)' \/ Stuck(p)'
  BY StuckQueue
<1>3. CASE Over(p)' \/ Asked(p)'
  BY <1>1, <1>3 DEF Caught
<1>4. CASE Stuck(p)' /\ OrcStep
  BY <1>1, <1>4, MainMoves DEF Caught, Over
<1>5. CASE Stuck(p)' /\ ~OrcStep
  BY <1>1, <1>5, OthersOfMain
<1> QED
  BY <1>2, <1>3, <1>4, <1>5

\* As long as the orchestrator is not stuck and TerminateProgram is obeyed, a
\* core whose handler hangs is replaced: a probe that succeeds leaves one more
\* connection in a queue that nobody empties any more, so sooner or later all
\* fail, and the restart finds the core that is stuck.
THEOREM StuckIsReplaced ==
  ASSUME TerminateMayFail = FALSE, NumbersOfTheCode
  PROVE  FairSpec /\ []OrchestratorGoesOn => StuckCoreReplaced
<1> SUFFICES ASSUME NEW p \in Pids
             PROVE  FairSpec /\ []OrchestratorGoesOn =>
                      ((slotPid = p /\ phase = "stuck")
                         ~> (slotPid # p \/ phase # "stuck" \/ opc = "exited"))
  BY DEF StuckCoreReplaced
<1> DEFINE Safe     == IndTypes /\ IndGone /\ CoreTracked /\ OrchestratorGoesOn
           Hangs(k) == Stuck(p) /\ opc = k
           Found    == opc = "terminate" /\ Runs(p)
           Hung     == slotPid = p /\ phase = "stuck"
<1>1. Safe /\ Hung =>
        \/ Asked(p) \/ Over(p) \/ Found
        \/ Hangs("boot") \/ Hangs("launch") \/ Hangs("listen") \/ Hangs("loop")
  BY DEF IndTypes, TypeOK, OrcPoints, IndGone, IndSlot, CoreTracked, Asked,
     Over, Stuck, Runs
<1>2. Safe /\ [Next]_vars =>
        /\ Hangs("boot") => \/ Hangs("boot")' /\ ~<<OrcStep>>_vars
                            \/ Hangs("launch")' \/ Caught(p)'
        /\ Hangs("launch") => \/ Hangs("launch")' /\ ~<<OrcStep>>_vars
                              \/ Hangs("listen")' \/ Hangs("loop")' \/ Caught(p)'
        /\ Hangs("listen") => \/ Hangs("listen")' /\ ~<<OrcStep>>_vars
                              \/ Hangs("loop")' \/ Caught(p)'
  BY StuckMoves
<1>3. Safe /\ (Hangs("boot") \/ Hangs("launch") \/ Hangs("listen") \/ Found)
        => ENABLED <<OrcStep>>_vars
  BY DEF OrchestratorGoesOn
<1>4. FairSpec /\ []OrchestratorGoesOn => (Hangs("loop") ~> Caught(p))
  BY ProbesCatch
<1>5. Caught(p) => Over(p) \/ Asked(p) \/ Found
  BY DEF Caught, Stuck, Runs
<1>6. Safe /\ Safe' /\ Found /\ [Next]_vars =>
        (Found' /\ ~<<OrcStep>>_vars) \/ Asked(p)' \/ Over(p)'
  BY TerminateMovesOn DEF IndTypes, IndGone, IndSlot, Gone, Over
<1>7. Safe' /\ Asked(p) /\ [Next]_vars => Asked(p)' \/ Over(p)'
  BY AskedMovesOn DEF IndGone, IndSlot, Gone, Over
<1>8. Asked(p) /\ <<Teardown>>_vars => Over(p)'
  BY DEF Asked, Teardown, ProcessEnds, Over
<1>9. Safe /\ Asked(p) => ENABLED <<Teardown>>_vars
  BY DEF OrchestratorGoesOn, Asked
<1>10. /\ (slotPid # p \/ phase # "stuck" \/ opc = "exited") <=> Over(p)
       /\ (slotPid = p /\ phase = "stuck") <=> Hung
  BY DEF Over
<1> HIDE DEF Hangs, Found, Hung
<1> QED
  BY <1>1, <1>2, <1>3, <1>4, <1>5, <1>6, <1>7, <1>8, <1>9, <1>10,
     TypesAlways, GoneAlways, CoreIsTracked, PTL
     DEF FairSpec, Fairness, Spec

\* How a core's handler hangs or is freed from it: with the end of its process,
\* and the next process does not begin with a handler that hangs.
LEMMA HangLeaves ==
  ASSUME NEW p \in Pids, IndGone, [Next]_vars
  PROVE  /\ slotPid = p /\ phase = "stuck" =>
              (slotPid = p /\ phase = "stuck")' \/ (phase # "stuck")'
         /\ slot # "running" => (slot # "running" \/ phase # "stuck")'
<1> USE DEF orcVars, pmVars, coreVars, histVars
<1>1. CASE LaunchSucceeds \/ Teardown \/ CoreDies
  BY <1>1 DEF LaunchSucceeds, Teardown, CoreDies, ProcessEnds
<1>2. CASE CleanupCore
  BY <1>2 DEF CleanupCore, IndGone, IndSlot
<1>3. CASE Elsewhere /\ ~CleanupCore
  BY <1>3 DEF Elsewhere, OrcInit, OrcGivesUp, OrcListen, LaunchFails,
     AfterLaunch, TerminateSkipped, TerminateCore, AwaitNothing, AwaitEvent,
     Probe, ProbeSucceeds, ProbeFails, AcceptControl, ControlRefused,
     ControlNotFound, ControlRestart, ClientConnects, coreRest,
     ControlRequested, SettingsEdited, vars
<1>4. CASE CoreStep
  BY <1>4 DEF CoreStep, CoreListens, CoreAccepts, CoreReloads, CoreAnswers,
     CoreSticks, CoreRelistens, coreRest
<1>5. CASE ConsoleSleepsAndWakes
  BY <1>5 DEF ConsoleSleepsAndWakes
<1> QED
  BY <1>1, <1>2, <1>3, <1>4, <1>5 DEF Next, OrcStep, Elsewhere

\* What the supervision is for, from one end to the other: a core whose handler
\* hangs is followed by a core that runs and whose handler does not, whether
\* the launches in between were refused or not.
THEOREM HangIsOvercome ==
  ASSUME SlotHeld = FALSE, TerminateMayFail = FALSE, NumbersOfTheCode
  PROVE  FairSpec /\ []OrchestratorGoesOn =>
           \A p \in Pids :
             (slotPid = p /\ phase = "stuck")
                ~> (slot = "running" /\ phase # "stuck") \/ opc = "exited"
<1> SUFFICES ASSUME NEW p \in Pids
             PROVE  FairSpec /\ []OrchestratorGoesOn =>
                      ((slotPid = p /\ phase = "stuck")
                         ~> (slot = "running" /\ phase # "stuck")
                              \/ opc = "exited")
  OBVIOUS
<1> DEFINE Hung   == slotPid = p /\ phase = "stuck"
           Other  == slotPid # p
           Freed  == phase # "stuck"
           Up     == slot = "running"
           Lost   == slot # "running"
           Exited == opc = "exited"
<1>1. IndGone /\ [Next]_vars =>
        (Hung => Hung' \/ Freed') /\ (Lost => Lost' \/ Freed')
  BY HangLeaves
<1>2. (Hung => ~Other /\ ~Freed) /\ (Lost <=> ~Up)
  OBVIOUS
<1>3. FairSpec /\ []OrchestratorGoesOn => StuckCoreReplaced
  BY StuckIsReplaced
<1>4. StuckCoreReplaced => (Hung ~> Other \/ Freed \/ Exited)
  BY DEF StuckCoreReplaced
<1>5. FairSpec /\ []OrchestratorGoesOn => CoreComesBack
  BY CoreReturns
<1>6. CoreComesBack => (Lost ~> Up \/ Exited)
  BY DEF CoreComesBack
<1> HIDE DEF Hung, Other, Freed, Up, Lost, Exited
<1>7. FairSpec /\ []OrchestratorGoesOn => (Hung ~> (Up /\ Freed) \/ Exited)
  BY <1>1, <1>2, <1>3, <1>4, <1>5, <1>6, GoneAlways, PTL DEF FairSpec, Spec
<1> QED
  BY <1>7 DEF Hung, Freed, Up, Exited

-----------------------------------------------------------------------------
(* The control port.                                                       *)

\* The control socket is made once, on the way into the loop.
IndSocket ==
  /\ opc \in {"boot", "listen"} \/ (opc = "launch" /\ reason = "boot")
       => ctlSock = "none"
  /\ ctlSock = "none" =>
       opc \in {"boot", "listen", "exited"} \/ (opc = "launch" /\ reason = "boot")

LEMMA SocketStep == IndGrace /\ IndSocket /\ [Next]_vars => IndSocket'
<1> SUFFICES ASSUME IndGrace, IndSocket, [Next]_vars PROVE IndSocket'
  OBVIOUS
<1> USE DEF IndSocket, IndGrace, orcVars, pmVars, coreVars, histVars
<1>1. CASE OrcInit \/ OrcGivesUp \/ OrcListen
  BY <1>1 DEF OrcInit, OrcGivesUp, OrcListen
<1>2. CASE LaunchSucceeds \/ LaunchFails
  BY <1>2 DEF LaunchSucceeds, LaunchFails, AfterLaunch
<1>3. CASE TerminateSkipped \/ TerminateCore \/ CleanupCore
  BY <1>3 DEF TerminateSkipped, TerminateCore, CleanupCore
<1>4. CASE AwaitNothing \/ AwaitEvent
  BY <1>4 DEF AwaitNothing, AwaitEvent, NextSlice
<1>5. CASE Probe \/ AcceptControl
  BY <1>5 DEF Probe, ProbeSucceeds, ProbeFails, AcceptControl, ControlNotFound,
     ControlRestart, ControlRefused
<1>6. CASE Teardown \/ CoreDies
  BY <1>6 DEF Teardown, CoreDies, ProcessEnds
<1>7. CASE CoreStep
  BY <1>7 DEF CoreStep, CoreListens, CoreAccepts, CoreReloads, CoreAnswers,
     CoreSticks, CoreRelistens, coreRest
<1>8. CASE ClientConnects \/ ControlRequested \/ SettingsEdited
             \/ UNCHANGED vars
  BY <1>8 DEF ClientConnects, ControlRequested, SettingsEdited, coreRest, vars
<1>9. CASE ConsoleSleepsAndWakes
  BY <1>9 DEF ConsoleSleepsAndWakes
<1> QED
  BY <1>1, <1>2, <1>3, <1>4, <1>5, <1>6, <1>7, <1>8, <1>9 DEF Next, OrcStep

LEMMA SocketAlways == Spec => []IndSocket
<1>1. Init => IndGrace /\ IndSocket
  BY DEF Init, IndGrace, IndSocket
<1> QED
  BY <1>1, TypesAlways, GraceStep, SocketStep, PTL DEF Spec

\* main() comes back to its select() again and again, through every restart and
\* whatever becomes of core, unless it has given up at boot.
LEMMA LoopComesRound ==
  ASSUME NumbersOfTheCode
  PROVE  FairSpec /\ []OrchestratorGoesOn => []<>(At("loop") \/ At("exited"))
<1> DEFINE Safe == IndTypes /\ OrchestratorGoesOn
           Between == \/ At("boot") \/ At("launch") \/ At("listen")
                      \/ At("terminate") \/ At("cleanup")
<1>1. Safe => Between \/ At("await") \/ At("loop") \/ At("exited")
  BY DEF IndTypes, TypeOK, OrcPoints, At
<1>2. Safe /\ [Next]_vars =>
        /\ At("boot") => \/ At("boot")' /\ ~<<OrcStep>>_vars
                         \/ At("launch")' \/ At("exited")'
        /\ At("launch") => \/ At("launch")' /\ ~<<OrcStep>>_vars
                           \/ At("listen")' \/ At("loop")'
        /\ At("listen") => \/ At("listen")' /\ ~<<OrcStep>>_vars
                           \/ At("loop")' \/ At("exited")'
        /\ At("terminate") => \/ At("terminate")' /\ ~<<OrcStep>>_vars
                              \/ At("launch")' \/ At("await")'
        /\ At("cleanup") => \/ At("cleanup")' /\ ~<<OrcStep>>_vars
                            \/ At("launch")'
  <2> SUFFICES ASSUME Safe, [Next]_vars
               PROVE  /\ At("boot") => \/ At("boot")' /\ ~<<OrcStep>>_vars
                                       \/ At("launch")' \/ At("exited")'
                      /\ At("launch") => \/ At("launch")' /\ ~<<OrcStep>>_vars
                                         \/ At("listen")' \/ At("loop")'
                      /\ At("listen") => \/ At("listen")' /\ ~<<OrcStep>>_vars
                                         \/ At("loop")' \/ At("exited")'
                      /\ At("terminate") =>
                           \/ At("terminate")' /\ ~<<OrcStep>>_vars
                           \/ At("launch")' \/ At("await")'
                      /\ At("cleanup") => \/ At("cleanup")' /\ ~<<OrcStep>>_vars
                                          \/ At("launch")'
    OBVIOUS
  <2>1. CASE OrcStep
    BY <2>1, MainMoves DEF At
  <2>2. CASE ~OrcStep
    BY <2>2, OthersOfMain DEF At
  <2> QED
    BY <2>1, <2>2
<1>3. Safe /\ Between => ENABLED <<OrcStep>>_vars
  BY DEF OrchestratorGoesOn, At
<1>4. FairSpec /\ []OrchestratorGoesOn => (At("await") ~> At("cleanup"))
  BY AwaitEnds DEF NumbersOfTheCode
<1> QED
  BY <1>1, <1>2, <1>3, <1>4, TypesAlways, PTL DEF FairSpec, Fairness, Spec

\* Whoever waits at the control port is served, whatever core does meanwhile and
\* however many restarts are in between, until the console sleeps.
THEOREM ServedUntilSleep ==
  ASSUME NumbersOfTheCode
  PROVE  FairSpec /\ []OrchestratorGoesOn =>
           ((ctl # NoRequest)
              ~> (ctl = NoRequest \/ opc = "exited" \/ ctlSock = "dead"))
<1> DEFINE Safe == IndTypes /\ IndSocket /\ OrchestratorGoesOn
           Caller == ctl # NoRequest
           Slept  == ctlSock = "dead"
<1>1. Safe /\ Caller /\ ~Slept /\ At("loop") => ENABLED <<AcceptControl>>_vars
  BY DEF OrchestratorGoesOn, IndTypes, TypeOK, IndSocket, At
<1>2. <<AcceptControl>>_vars => ~Caller'
  BY DEF AcceptControl, ControlNotFound, ControlRestart, ControlRefused
<1>3. FairSpec /\ []OrchestratorGoesOn => []<>(At("loop") \/ At("exited"))
  BY LoopComesRound
<1>4. (ctl = NoRequest <=> ~Caller) /\ (At("exited") <=> opc = "exited")
  BY DEF At
<1> HIDE DEF Caller, Slept
<1>5. FairSpec /\ []OrchestratorGoesOn => (Caller ~> ~Caller \/ At("exited") \/ Slept)
  BY <1>1, <1>2, <1>3, TypesAlways, SocketAlways, PTL
     DEF FairSpec, Fairness, Spec
<1> QED
  BY <1>4, <1>5, PTL DEF Caller, Slept

\* After that nobody is ever served again: the dead socket is not replaced.
THEOREM NobodyServedAfterSleep ==
  Spec => [](ctlSock = "dead" /\ ctl # NoRequest => [](ctl # NoRequest))
<1> DEFINE Unheard == ctlSock = "dead" /\ ctl # NoRequest
<1>1. IndSocket /\ Unheard /\ [Next]_vars => Unheard'
  <2> SUFFICES ASSUME IndSocket, Unheard, [Next]_vars PROVE Unheard'
    OBVIOUS
  <2> USE DEF orcVars, pmVars, coreVars, histVars
  <2>1. CASE OrcStep
    <3>1. ~OrcListen
      BY DEF IndSocket, OrcListen
    <3>2. UNCHANGED <<ctlSock, ctl>>
      BY <2>1, <3>1 DEF OrcStep, OrcInit, OrcGivesUp, LaunchSucceeds,
         LaunchFails, AfterLaunch, TerminateSkipped, TerminateCore,
         AwaitNothing, AwaitEvent, CleanupCore, Probe, ProbeSucceeds, ProbeFails
    <3> QED
      BY <3>2
  <2>2. CASE AcceptControl
    BY <2>2 DEF AcceptControl, ControlNotFound, ControlRestart, ControlRefused
  <2>3. CASE Teardown \/ CoreDies
    BY <2>3 DEF Teardown, CoreDies, ProcessEnds
  <2>4. CASE CoreStep
    BY <2>4 DEF CoreStep, CoreListens, CoreAccepts, CoreReloads, CoreAnswers,
       CoreSticks, CoreRelistens, coreRest
  <2>5. CASE ClientConnects \/ ControlRequested \/ SettingsEdited
               \/ ConsoleSleepsAndWakes \/ UNCHANGED vars
    BY <2>5 DEF ClientConnects, ControlRequested, SettingsEdited,
       ConsoleSleepsAndWakes, coreRest, vars
  <2> QED
    BY <2>1, <2>2, <2>3, <2>4, <2>5 DEF Next
<1>2. Unheard => ctl # NoRequest
  OBVIOUS
<1> QED
  BY <1>1, <1>2, SocketAlways, PTL DEF Spec
=============================================================================
