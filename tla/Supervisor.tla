----------------------------- MODULE Supervisor -----------------------------
(***************************************************************************)
(* The supervision of core: the orchestrator process                       *)
(* (firmware/orchestrator/main.cpp), the process manager it drives through *)
(* pm:shell, and as much of core (firmware/core/main.cpp) as the           *)
(* orchestrator can tell apart from outside: whether its socket listens,   *)
(* on which port, and how full the kernel's accept queue is.               *)
(*                                                                         *)
(* Two process managers are described by the repository.  The comment      *)
(* above terminate_core() describes one that keeps the slot of an ended    *)
(* process until CleanupProcess releases it (SlotHeld = TRUE); docs/api.md *)
(* ("Fix history") describes the one met in practice, which queues no exit *)
(* event, refuses CleanupProcess and frees the slot by itself a while      *)
(* after TerminateProgram (SlotHeld = FALSE).                              *)
(***************************************************************************)
EXTENDS Naturals, FiniteSets

CONSTANTS
  Pids,              \* process ids the process manager hands out
  NoPid,             \* g_core_pid = 0
  Tokens, Ports,     \* values of api_token and port in settings.json
  NoRequest,         \* nobody is waiting at the control port
  FailThreshold,     \* HEALTH_CHECK_FAIL_THRESHOLD
  Polls,             \* slices terminate_core() waits for the exit event (15)
  Backlog,           \* connections that wait in listen(fd, 5)
  MaxEvents,         \* bound: process events the manager keeps queued
  SlotHeld,          \* which process manager, see above
  TerminateMayFail,  \* TerminateProgram may refuse a running process
  SleepWakes         \* the console may sleep and wake up

ASSUME ConstantsAssumption ==
  /\ NoPid \notin Pids
  /\ FailThreshold \in Nat \ {0} /\ Polls \in Nat \ {0}
  /\ Backlog \in Nat \ {0} /\ MaxEvents \in Nat
  /\ {SlotHeld, TerminateMayFail, SleepWakes} \subseteq BOOLEAN

Requests == [token : Tokens, restart : BOOLEAN]
ASSUME NoRequestAssumption == NoRequest \notin Requests

VARIABLES
  opc,         \* where the orchestrator's main() stands
  reason,      \* why core is being launched: restart_core()'s argument
  corePid,     \* g_core_pid
  target,      \* terminate_core()'s target_pid
  polls,       \* terminate_core()'s i
  exited,      \* terminate_core()'s exited
  failures,    \* consecutive_health_failures
  cached,      \* the orchestrator's ConfigManager, loaded once
  ctlSock,     \* the control socket's server_fd
  ctl,         \* the request waiting at the control port
  slotPid,     \* process manager: the instance of core it knows of
  slot,        \* process manager: the state of that instance
  events,      \* process manager: exit events not yet read
  phase,       \* what core's single thread is doing
  sock,        \* core's listening socket
  pending,     \* connections in that socket's accept queue
  port,        \* the port the socket was bound to
  corePort,    \* core's ConfigManager: the port it would bind next
  settings,    \* settings.json
  launchedFor, \* history: reason of the last successful launch
  instFails    \* history: failed probes in a row since that launch

orcVars  == <<opc, reason, corePid, target, polls, exited, failures, cached,
              ctlSock>>
pmVars   == <<slotPid, slot, events>>
coreVars == <<phase, sock, pending, port, corePort>>
histVars == <<launchedFor, instFails>>
vars     == <<orcVars, ctl, pmVars, coreVars, settings, histVars>>

OrcPoints == {"boot", "launch", "listen", "loop", "terminate", "await",
              "cleanup", "exited"}
Settings  == [token : Tokens, port : Ports]

TypeOK ==
  /\ opc \in OrcPoints
  /\ reason \in {"boot", "self", "health"}
  /\ corePid \in Pids \cup {NoPid} /\ target \in Pids \cup {NoPid}
  /\ polls \in 0..Polls /\ exited \in BOOLEAN
  /\ failures \in 0..FailThreshold
  /\ cached \in Settings /\ settings \in Settings
  /\ ctlSock \in {"none", "open", "dead"}
  /\ ctl \in Requests \cup {NoRequest}
  /\ slotPid \in Pids \cup {NoPid}
  /\ slot \in {"free", "running", "terminating", "dead"}
  /\ events \in SUBSET Pids
  /\ phase \in {"none", "booting", "listening", "handling", "stuck"}
  /\ sock \in {"none", "open", "dead"}
  /\ pending \in 0..Backlog
  /\ port \in Ports /\ corePort \in Ports
  /\ launchedFor \in {"none", "boot", "self", "health"}
  /\ instFails \in 0..FailThreshold

Init ==
  /\ opc = "boot" /\ reason = "boot"
  /\ corePid = NoPid /\ target = NoPid /\ polls = 0 /\ exited = FALSE
  /\ failures = 0 /\ ctlSock = "none" /\ ctl = NoRequest
  /\ slotPid = NoPid /\ slot = "free" /\ events = {}
  /\ phase = "none" /\ sock = "none" /\ pending = 0
  /\ settings \in Settings /\ cached = settings
  /\ port = settings.port /\ corePort = settings.port
  /\ launchedFor = "none" /\ instFails = 0

-----------------------------------------------------------------------------
(* The orchestrator's boot.                                                *)

\* main() up to launch_core(): the only ConfigManager::load() of this process.
OrcInit ==
  /\ opc = "boot"
  /\ cached' = settings
  /\ opc' = "launch"
  /\ UNCHANGED <<reason, corePid, target, polls, exited, failures, ctlSock,
                 ctl, pmVars, coreVars, settings, histVars>>

\* socketInitialize, pmshellInitialize, GetProcessEventHandle or the control
\* socket fails: main() returns, and boot2 does not start it again.
OrcGivesUp ==
  /\ opc \in {"boot", "listen"}
  /\ opc' = "exited"
  /\ UNCHANGED <<reason, corePid, target, polls, exited, failures, cached,
                 ctlSock, ctl, pmVars, coreVars, settings, histVars>>

OrcListen ==
  /\ opc = "listen"
  /\ ctlSock' = "open"
  /\ opc' = "loop"
  /\ UNCHANGED <<reason, corePid, target, polls, exited, failures, cached,
                 ctl, pmVars, coreVars, settings, histVars>>

-----------------------------------------------------------------------------
(* launch_core(), and what follows it in main() and restart_core().        *)

\* (mutant: restart_core() does not start a new count of failed probes)
AfterLaunchCountsOn ==
  /\ opc' = IF reason = "boot" THEN "listen" ELSE "loop"
  /\ UNCHANGED <<reason, target, polls, exited, failures, cached, ctlSock, ctl,
                 settings>>

AfterLaunch ==
  /\ opc' = IF reason = "boot" THEN "listen" ELSE "loop"
  /\ failures' = IF reason = "health" THEN 0 ELSE failures
  /\ UNCHANGED <<reason, target, polls, exited, cached, ctlSock, ctl, settings>>

Fresh(p) == p \notin events \cup {slotPid, corePid, target}

\* (mutant: a relaunch leaves g_core_pid alone)
LaunchUntracked ==
  /\ opc = "launch" /\ slot = "free"
  /\ \E p \in Pids : Fresh(p) /\ slotPid' = p
                       /\ corePid' = IF reason = "boot" THEN p ELSE corePid
  /\ slot' = "running" /\ phase' = "booting" /\ corePort' = settings.port
  /\ launchedFor' = reason /\ instFails' = 0
  /\ AfterLaunch
  /\ UNCHANGED <<events, sock, pending, port>>

LaunchSucceeds ==
  /\ opc = "launch"
  /\ slot = "free"
  /\ \E p \in Pids :
       /\ Fresh(p)
       /\ slotPid' = p
       /\ corePid' = p
  /\ slot' = "running"
  /\ phase' = "booting"
  /\ corePort' = settings.port
  /\ launchedFor' = reason
  /\ instFails' = 0
  /\ AfterLaunch
  /\ UNCHANGED <<events, sock, pending, port>>

\* (mutant: launch_core() waits until the old process has left its slot)
LaunchWaits ==
  /\ opc = "launch" /\ slot = "free"
  /\ AfterLaunch
  /\ UNCHANGED <<corePid, pmVars, coreVars, histVars>>

\* LaunchProgram is refused: the old process still has the slot, or the
\* binary cannot be loaded.  g_core_pid keeps its value.
LaunchFails ==
  /\ opc = "launch"
  /\ AfterLaunch
  /\ UNCHANGED <<corePid, pmVars, coreVars, histVars>>

-----------------------------------------------------------------------------
(* terminate_core().                                                       *)

\* (mutant: restart_core() gives up when there is nothing to terminate)
RestartSkipped ==
  /\ opc = "terminate" /\ corePid = NoPid
  /\ opc' = "loop" /\ failures' = 0
  /\ UNCHANGED <<reason, corePid, target, polls, exited, cached,
                 ctlSock, ctl, pmVars, coreVars, settings, histVars>>

TerminateSkipped ==
  /\ opc = "terminate"
  /\ corePid = NoPid
  /\ opc' = "launch"
  /\ UNCHANGED <<reason, corePid, target, polls, exited, failures, cached,
                 ctlSock, ctl, pmVars, coreVars, settings, histVars>>

\* (mutant: only an unhealthy core is terminated)
TerminateUnhealthy ==
  /\ opc = "terminate" /\ corePid # NoPid
  /\ target' = corePid /\ polls' = 0 /\ exited' = FALSE /\ opc' = "await"
  /\ slot' = IF slot = "running" /\ failures > 0 THEN "terminating" ELSE slot
  /\ UNCHANGED <<reason, corePid, failures, cached, ctlSock, ctl, slotPid,
                 events, coreVars, settings, histVars>>

\* TerminateProgram only asks for the end of a running process; its result is
\* logged and otherwise ignored.
TerminateCore ==
  /\ opc = "terminate"
  /\ corePid # NoPid
  /\ target' = corePid
  /\ polls' = 0
  /\ exited' = FALSE
  /\ opc' = "await"
  /\ \/ slot' = IF slot = "running" THEN "terminating" ELSE slot
     \/ TerminateMayFail /\ slot' = slot
  /\ UNCHANGED <<reason, corePid, failures, cached, ctlSock, ctl, slotPid,
                 events, coreVars, settings, histVars>>

NextSlice ==
  /\ polls' = polls + 1
  /\ opc' = IF polls + 1 = Polls THEN "cleanup" ELSE "await"

\* Nothing is signalled in this slice, the event is another program's, or it
\* cannot be read.
AwaitNothing ==
  /\ opc = "await"
  /\ NextSlice
  /\ UNCHANGED <<reason, corePid, target, exited, failures, cached, ctlSock,
                 ctl, pmVars, coreVars, settings, histVars>>

\* (mutant: any exit event is taken for target_pid's)
AwaitAnyEvent ==
  /\ opc = "await"
  /\ \E p \in events : events' = events \ {p}
  /\ exited' = TRUE /\ opc' = "cleanup"
  /\ UNCHANGED <<reason, corePid, target, polls, failures, cached, ctlSock, ctl,
                 slotPid, slot, coreVars, settings, histVars>>

\* An exit event is read; it counts only when it names target_pid.
AwaitEvent ==
  /\ opc = "await"
  /\ \E p \in events :
       /\ events' = events \ {p}
       /\ IF p = target
          THEN exited' = TRUE /\ opc' = "cleanup" /\ polls' = polls
          ELSE exited' = exited /\ NextSlice
  /\ UNCHANGED <<reason, corePid, target, failures, cached, ctlSock, ctl,
                 slotPid, slot, coreVars, settings, histVars>>

\* CleanupProcess(target_pid), its result ignored: it releases the slot of a
\* process that has ended.  The pid is forgotten whatever happened.
CleanupCore ==
  /\ opc = "cleanup"
  /\ IF slot = "dead" /\ slotPid = target
     THEN slot' = "free" /\ slotPid' = NoPid
     ELSE UNCHANGED <<slot, slotPid>>
  /\ corePid' = NoPid
  /\ opc' = "launch"
  /\ UNCHANGED <<reason, target, polls, exited, failures, cached, ctlSock, ctl,
                 events, coreVars, settings, histVars>>

-----------------------------------------------------------------------------
(* The main loop: handle_control_client() and the health check.            *)

Authed(req) == req.token = cached.token

\* 401: the token is not the cached one, or nothing came within 2 seconds.
ControlRefused(inTime) ==
  /\ opc = "loop" /\ ctlSock = "open" /\ ctl # NoRequest
  /\ ~(inTime /\ Authed(ctl))
  /\ ctl' = NoRequest
  /\ UNCHANGED <<orcVars, pmVars, coreVars, settings, histVars>>

\* 404: authorised, but not /self_restart.
ControlNotFound ==
  /\ opc = "loop" /\ ctlSock = "open" /\ ctl # NoRequest
  /\ Authed(ctl) /\ ~ctl.restart
  /\ ctl' = NoRequest
  /\ UNCHANGED <<orcVars, pmVars, coreVars, settings, histVars>>

\* 200 is sent and the connection closed before restart_core() begins.
ControlRestart ==
  /\ opc = "loop" /\ ctlSock = "open" /\ ctl # NoRequest
  /\ Authed(ctl) /\ ctl.restart
  /\ ctl' = NoRequest
  /\ reason' = "self"
  /\ opc' = "terminate"
  /\ UNCHANGED <<corePid, target, polls, exited, failures, cached, ctlSock,
                 pmVars, coreVars, settings, histVars>>

AcceptControl == ControlNotFound \/ ControlRestart
                   \/ \E inTime \in BOOLEAN : ControlRefused(inTime)

\* core_is_alive(): a bare connect.  The kernel completes it for any listening
\* socket whose accept queue has room, whether core's thread runs or not, and
\* the connection stays queued after the orchestrator closes its end.
Connectable == sock = "open" /\ port = cached.port /\ pending < Backlog

\* (mutant: the process list is asked instead of the port)
ProbeProcessList ==
  /\ opc = "loop" /\ slot = "running"
  /\ failures' = 0 /\ instFails' = 0
  /\ UNCHANGED <<opc, reason, corePid, target, polls, exited, cached, ctlSock,
                 ctl, pmVars, coreVars, settings, launchedFor>>

\* (mutant: failed probes add up although one in between succeeds)
ProbeSucceedsCountsOn ==
  /\ opc = "loop" /\ Connectable
  /\ pending' = pending + 1 /\ instFails' = 0
  /\ UNCHANGED <<orcVars, ctl, pmVars, phase, sock, port, corePort, settings,
                 launchedFor>>

ProbeSucceeds ==
  /\ opc = "loop"
  /\ Connectable
  /\ pending' = pending + 1
  /\ failures' = 0
  /\ instFails' = 0
  /\ UNCHANGED <<opc, reason, corePid, target, polls, exited, cached, ctlSock,
                 ctl, pmVars, phase, sock, port, corePort, settings,
                 launchedFor>>

\* No answer, or the orchestrator itself gets no socket (Connectable then does
\* not matter).  The last failure in a row starts restart_core().
ProbeFails(noSocket) ==
  /\ opc = "loop"
  /\ noSocket \/ ~Connectable
  /\ failures' = failures + 1
  /\ instFails' = IF instFails < FailThreshold THEN instFails + 1 ELSE instFails
  /\ IF failures + 1 >= FailThreshold
     THEN opc' = "terminate" /\ reason' = "health"
     ELSE UNCHANGED <<opc, reason>>
  /\ UNCHANGED <<corePid, target, polls, exited, cached, ctlSock, ctl, pmVars,
                 coreVars, settings, launchedFor>>

Probe == ProbeSucceeds \/ \E noSocket \in BOOLEAN : ProbeFails(noSocket)

-----------------------------------------------------------------------------
(* The process manager's own steps.                                        *)

ProcessEnds ==
  /\ slot' = IF SlotHeld THEN "dead" ELSE "free"
  /\ slotPid' = IF SlotHeld THEN slotPid ELSE NoPid
  /\ events' = IF SlotHeld /\ Cardinality(events) < MaxEvents
               THEN events \cup {slotPid} ELSE events
  /\ phase' = "none" /\ sock' = "none" /\ pending' = 0
  /\ UNCHANGED <<orcVars, ctl, port, corePort, settings, histVars>>

Teardown == slot = "terminating" /\ ProcessEnds

\* core aborts, or main() returns because its sockets cannot be set up.
CoreDies == slot = "running" /\ ProcessEnds

-----------------------------------------------------------------------------
(* core, as seen from outside.                                             *)

coreRest == <<orcVars, ctl, pmVars, settings, histVars>>

\* main() loads the settings and binds the socket some time after the launch.
CoreListens ==
  /\ phase = "booting"
  /\ phase' = "listening" /\ sock' = "open"
  /\ port' = settings.port /\ corePort' = settings.port
  /\ UNCHANGED <<coreRest, pending>>

CoreAccepts ==
  /\ phase = "listening" /\ sock = "open" /\ pending > 0
  /\ pending' = pending - 1
  /\ phase' = "handling"
  /\ UNCHANGED <<coreRest, sock, port, corePort>>

\* POST /reload_config, or a token that did not match: the port in memory
\* changes, the bound socket does not.
CoreReloads ==
  /\ phase = "handling"
  /\ corePort' = settings.port
  /\ UNCHANGED <<coreRest, phase, sock, pending, port>>

CoreAnswers ==
  /\ phase = "handling"
  /\ phase' = "listening"
  /\ UNCHANGED <<coreRest, sock, pending, port, corePort>>

\* A handler that never comes back: a service call or a send that blocks.
CoreSticks ==
  /\ phase = "handling"
  /\ phase' = "stuck"
  /\ UNCHANGED <<coreRest, sock, pending, port, corePort>>

\* (mutant: a pool of threads serves clients while main() keeps to accept())
RelistenMeanwhile ==
  /\ phase \in {"listening", "handling"} /\ SleepWakes
  /\ sock' = "open" /\ port' = corePort /\ pending' = 0
  /\ UNCHANGED <<coreRest, phase, corePort>>

\* accept() has failed 25 times in a row, because the socket is dead or while
\* the network is away: it is replaced, its queue goes with it, and the new one
\* is bound to the port in memory.  create_listen_socket() may fail again.
CoreRelistens ==
  /\ phase = "listening" /\ SleepWakes
  /\ \/ sock' = "open" /\ port' = corePort
     \/ sock' = "dead" /\ UNCHANGED port
  /\ pending' = 0
  /\ UNCHANGED <<coreRest, phase, corePort>>

ClientConnects ==
  /\ sock = "open" /\ pending < Backlog
  /\ pending' = pending + 1
  /\ UNCHANGED <<coreRest, phase, sock, port, corePort>>

-----------------------------------------------------------------------------
(* The surroundings.                                                       *)

\* A caller of the orchestrator's port.
ControlRequested ==
  /\ ctl = NoRequest
  /\ ctl' \in Requests
  /\ UNCHANGED <<orcVars, pmVars, coreVars, settings, histVars>>

\* settings.json is edited, or the companion app writes a new token.
SettingsEdited ==
  /\ settings' \in Settings \ {settings}
  /\ UNCHANGED <<orcVars, ctl, pmVars, coreVars, histVars>>

\* Listening sockets do not survive the console's sleep.
ConsoleSleepsAndWakes ==
  /\ SleepWakes
  /\ ctlSock = "open" \/ sock = "open"
  /\ ctlSock' = IF ctlSock = "open" THEN "dead" ELSE ctlSock
  /\ sock' = IF sock = "open" THEN "dead" ELSE sock
  /\ pending' = 0
  /\ UNCHANGED <<opc, reason, corePid, target, polls, exited, failures, cached,
                 ctl, pmVars, phase, port, corePort, settings, histVars>>

-----------------------------------------------------------------------------

OrcStep == \/ OrcInit \/ OrcGivesUp \/ OrcListen
           \/ LaunchSucceeds \/ LaunchFails
           \/ TerminateSkipped \/ TerminateCore
           \/ AwaitNothing \/ AwaitEvent \/ CleanupCore
           \/ Probe

CoreStep == \/ CoreListens \/ CoreAccepts \/ CoreReloads \/ CoreAnswers
            \/ CoreSticks \/ CoreRelistens

Next == \/ OrcStep \/ AcceptControl
        \/ Teardown \/ CoreDies
        \/ CoreStep \/ ClientConnects
        \/ ControlRequested \/ SettingsEdited \/ ConsoleSleepsAndWakes

Spec == Init /\ [][Next]_vars

(***************************************************************************)
(* main() never stops looping, select() hands over a waiting client in     *)
(* every iteration before the health check, a terminated process ends, and *)
(* a LaunchProgram that is tried again and again is not refused for ever.  *)
(* Nothing is assumed of core's thread, its clients or the user.           *)
(***************************************************************************)
Fairness == /\ WF_vars(OrcStep)
            /\ SF_vars(LaunchSucceeds)
            /\ SF_vars(AcceptControl)
            /\ WF_vars(Teardown)

FairSpec == Spec /\ Fairness

-----------------------------------------------------------------------------
(* Properties.                                                             *)

\* A running core is never forgotten: outside the middle of a restart the
\* orchestrator holds exactly the pid of the instance that runs, so that
\* terminate_core() never skips it and never waits for another one's exit.
CoreTracked ==
  slot = "running" => corePid = slotPid /\ opc \notin {"await", "cleanup"}

\* terminate_core() never takes an older instance's exit event, left in the
\* queue by a wait that timed out, for the exit of the one it is terminating.
ExitObserved ==
  opc = "cleanup" /\ exited => ~(slotPid = target /\ phase # "none")

HealthRestart == opc = "loop" /\ opc' = "terminate" /\ reason' = "health"

\* A core launched at boot or by a health restart is only ever given up after
\* HEALTH_CHECK_FAIL_THRESHOLD probes in a row of that same launch failed.
GraceAfterHealthRestart ==
  [][HealthRestart /\ launchedFor # "self" => instFails' = FailThreshold]_vars

\* The same for every core, whoever asked for its launch.
GraceForEveryCore ==
  [][HealthRestart => instFails' = FailThreshold]_vars

\* A core whose handler hangs is terminated: the health check notices in the
\* end, although each bare connect succeeds while the accept queue has room.
StuckCoreReplaced ==
  \A p \in Pids : (slotPid = p /\ phase = "stuck")
                    ~> (slotPid # p \/ phase # "stuck" \/ opc = "exited")

\* Whenever core is gone it is launched again.
CoreComesBack == (slot # "running") ~> (slot = "running" \/ opc = "exited")

\* The orchestrator is never stuck half way through a restart, whatever the
\* process manager makes of it, nor is the end of a terminated core; a slot
\* that is free can be launched into, and whatever waits at an open control
\* socket can be answered from the loop.
OrchestratorGoesOn ==
  /\ opc # "exited" => ENABLED <<OrcStep>>_vars
  /\ slot = "terminating" => ENABLED <<Teardown>>_vars
  /\ opc = "launch" /\ slot = "free" => ENABLED <<LaunchSucceeds>>_vars
  /\ opc = "loop" /\ ctlSock = "open" /\ ctl # NoRequest =>
       ENABLED <<AcceptControl>>_vars

\* A self_restart that was answered 200 gets rid of the instance it found.
SelfRestartReplaces ==
  \A p \in Pids : (opc = "terminate" /\ reason = "self" /\ slotPid = p
                     /\ slot = "running") ~> slotPid # p \/ slot = "dead"

\* What all this takes for granted of core is what CoreOutside says and what
\* core's accept loop delivers (HttpServer!ServesAsSeen): a second core is never
\* launched beside the first, and a hung handler's socket is never replaced.
Outside == INSTANCE CoreOutside

CoreAsSeen == Outside!Spec

\* Whoever waits at the control port is served.
ControlServed == (ctl # NoRequest) ~> (ctl = NoRequest \/ opc = "exited")
=============================================================================
