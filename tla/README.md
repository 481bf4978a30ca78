# NXRemoteAPI in TLA+

TLA+ modules for the firmware of NXRemoteAPI, with the TLC configurations that
check them and TLAPS proofs of the properties that matter most. Line numbers
refer to `src/`, the repository at the commit the modules were written from.
Every definition was translated from the source; `PROJECT.json` ("map") gives
the lines of each.

## The system

| Part | Source | State it keeps | Operations |
|---|---|---|---|
| orchestrator | `firmware/orchestrator/main.cpp` | `g_core_pid`, `consecutive_health_failures`, settings loaded once, the control socket | boot, `launch_core`, `terminate_core`, `restart_core`, health check, `POST /self_restart` on port 8276 |
| core, HTTP server | `firmware/core/main.cpp`, `common/HttpFraming.cpp`, `common/include/JsonSafeAccess.h` | the listening socket, `consecutive_accept_failures`, one connection's buffer, the virtual pad, what was initialised at boot | `accept` loop, body wait, authorisation, one handler per route |
| core, Album launch | `firmware/core/main.cpp` 229-462 | `g_album_override_active` and its tick; files: override, request, status | `request_launch_via_album`, `poll_album_launcher_completion`, install, uninstall |
| companion app, launcher mode | `firmware/companion-app/main.cpp` 223-274 | the title it has read | `run_launcher_mode` |
| companion app, GUI | the rest of that file | files of the sysmodule on the SD card, settings | repair, update, reset of settings |
| Logger | `firmware/common/include/Logger.h` | a ring of 50 entries, head, count, errors | `log`, `getLogCount`, `getLog`; `GET /logs` reads it |
| ConfigManager | `firmware/common/ConfigManager.cpp` | token, port and flags, per process; `settings.json`, shared | `load`, `save`, `generateDefaultConfig` |
| mDNS responder | `firmware/core/main.cpp` 99-158, `common/ByteSearch.cpp` | a socket | answers a query |
| Home Assistant integration | `custom_components/nxremoteapi` | the coordinator's data, sleep mode and interval | refresh, entities, config flow, update check |
| release tooling | `.github/scripts`, `scripts` | none | edit versions and changelogs |

How they interact. boot2 starts the orchestrator, which starts core through
`pm:shell` and from then on knows it by a pid, by exit events and by whether a
`connect` to its port succeeds. core is one thread that serves one connection
after the other, plus the mDNS thread. Both read `settings.json`; the companion
app and the user write it. To launch a patched title core copies the launcher
build into Album's content-override slot, leaves a request file and launches
Album; the launcher answers with a status file that core looks at whenever the
next request arrives. Home Assistant polls core every 30 seconds, or every five
minutes once core has stopped answering.

What is hard:

* **concurrency** between processes that share only files and an accept queue
  (core and launchers; orchestrator, process manager and core);
* **failure**: core hangs, aborts or is terminated at any point; `pm` calls
  and removals fail and their results are ignored; copies fail half way;
* **ordering and staleness**: exit events of earlier instances, statuses of
  earlier launches, a token or port that was edited meanwhile;
* **shared files**: `settings.json` is truncated and filled in two steps, with
  no lock, while two other processes may read it and make up a token;
* **timeouts**: the wait for an exit event, the body wait, the launcher's 20 s,
  the ten seconds a refresh of Home Assistant has for console and GitHub;
* **sleep** of the console, which no listening socket survives.

What makes each part correct:

* *orchestrator*: it never loses sight of a running core or mistakes an older
  core's end for the present one's; a hung or vanished core is replaced; a core
  gets its full number of probes; whoever uses the control port is served.
* *HTTP server*: a slow client cannot hold the thread; no request is acted upon
  while more of what it has announced is coming, and no JSON body unless whole;
  each connection gets one reply; the token of a file that can be opened is
  never refused, and without one nothing is done; no button stays pressed; it
  listens again after sleep.
* *Album launch*: Album's slot is always somebody's to clean up, unless a
  failure is known to have orphaned it, and is cleaned up; a launcher never takes half a request; the status names the last launch.
* *Logger*: it is a bounded log, and a report of it is in order and full.
* *ConfigManager*: nobody works without a token; the processes agree unless
  somebody else writes the file; a changed token is taken up.
* *coordinator*: interval, sleep mode and what the entities show go together;
  a console out of reach does not take the entities away; a console that
  answers again is shown awake.

## Modules

`Supervisor` (with `Supervisor_proofs`, `MCSupervisor`) is the orchestrator
together with the process manager and core as seen from outside. `opc` is where
`main()` stands, so that every step other processes may interleave with is an
action: one slice of `terminate_core()`'s wait (`AwaitNothing`, `AwaitEvent`),
`CleanupProcess`, a launch, a probe, one control request. Probes connect to
core's accept queue (`pending`), which is how a hung core comes to be noticed.
The repository describes two process managers, and `SlotHeld` chooses: TRUE is
that of the comment above `terminate_core()` (a slot is held until
`CleanupProcess`, exits are queued), FALSE the one of `docs/api.md`, "Fix
history" (no event, no cleanup, the slot frees itself). `TerminateMayFail` lets
`TerminateProgram` be refused.

`HttpServer` (`HttpServer_proofs`, `MCHttpServer`) is the accept loop and
`handle_client()`. A request is a number of parts (request line, header lines, blank line, body
units) that arrive in any pieces; `got` counts those in the buffer. `line` is
the route it begins with, which decides about the exemption from
authentication (`strncmp`, 528); `also` is another route whose text occurs
further on, in the body or else in the headers, and `Route` is what the chain of
`strstr` from 546 on finds first among what has come:
`firmware/common/tests/test_http_framing.cpp` (53) documents that the two may
differ. `framed` says whether `HasCompleteBody()` finds a Content-Length; without one a request is
complete where its headers end. `StartsWith` relates tokens to those they begin
with, because `HasValidApiToken()` does not look where the token it has found
ends. `Load` is `ConfigManager::load()`; while `card` is FALSE `settings.json`
cannot be opened, and core makes up a token that may not be saved. A handler
is the sequence of its steps, chosen at dispatch and then done one by one:
`say` sends a status line, `more` the rest of a reply, `power`, `launch`,
`reload`, `press` and `release` are what it does to the console. The plans
(`CommandPlans`, `ButtonPlans`, ...) keep each handler's order of guards and
replies. Content that no property tells apart, the telemetry above all, is left
out.

`AlbumLaunch` (`AlbumLaunch_proofs`, `MCAlbumLaunch`) is
`request_launch_via_album()` one file operation at a time, interleaved with two
processes that can run `run_launcher_mode()`: the one in Album's place and the
`.nro`. `Poll` is part of every request core handles, as in the code. With
`SdFails` every call on the SD card may fail: what is to be opened, copied,
written or read, and also what is to be removed, where nobody looks at the
result (`AfterRemove`, `Uninstalled`) and `g_album_override_active` is cleared
all the same. `orphaned` is a history variable: by a restart, a copy or a
removal that failed, files are in the slot and core no longer knows.

`LogRing` (`LogRing_proofs`, `MCLogRing`) is the ring with its `u32`
arithmetic and `GET /logs`; `BoundedLog` is what it promises: append, and drop
the oldest entry beyond the capacity. In this code only the HTTP thread logs, so
that nothing is logged while it reads; `Log` between two `ReadEntry` is more
than can happen, and what the per-entry lock of `getLog()` is there for.
`LogRing!KeepsTheLastEntries` is the refinement: the abstract sequence is what `getLog(0)` to `getLog(count - 1)`
return.

`Settings` (`Settings_proofs`, `MCSettings`) is `ConfigManager` in the three
processes that have one: orchestrator, core and companion app. A process stands
in `load`, between the decision to save and `fopen(.., "w")` (`truncate`),
between that and the write (`write`), or is `up`; in between anybody may load
the torn file, and a process may end there. `Load` is all of `load()` up to its
`save()`: a file without a token makes one up. The companion app loads when it
is opened, saves its whole copy after its daily look for a version, and resets
with ZR. `SdFails` lets `fopen` and the write behind `fclose` fail. `touched` is
a history variable: since the console's boot somebody else than the
orchestrator and core has written the file, or the SD card has failed.

`Coordinator` (`Coordinator_proofs`) is `SwitchDataUpdateCoordinator`: `stage`
is the request that a refresh is waiting for, and each may be answered, fail,
run into the common limit of ten seconds or bring something that makes no
sense. `available` is what Home Assistant makes of the outcome.

`Home` (`Home_proofs`, `MCHome`) puts the two together: it extends `Coordinator`
and has `Settings` as an instance. A request reaches core if its socket is bound
to the port of the config entry; `/info` needs no token; for the others core
loads `settings.json` when the token does not match (`ReloadForToken`, several
steps of `Settings`) and then answers or refuses (`AnswerAfterReload`). As in
`HttpServer` a token matches that begins with core's (`StartsWith`,
`Authorised`).

`CoreOutside` is what the orchestrator's side may rely on of core: its thread's
phases and its listening socket. Both models implement it: `Supervisor` from
outside, with launches, exits and the accept queue (`CoreAsSeen`), `HttpServer`
from inside, where `Phase` and `Listener` map `pc` and `sock` (`ServesAsSeen`:
`CoreRelistens` there is `AcceptFails`, `Relisten` and `RelistenAgain` here).
What `HttpServer` leaves out, a service that never returns, is `Stick`.

The components meet in one more place: `AlbumLaunch`'s `CoreRestarts` is what
`Supervisor`'s `Teardown` or `CoreDies` followed by a launch does to core's
memory.

## Runs

| Run | Checks | Bounds, and why they are enough |
|---|---|---|
| `SupervisorSafety` | `TypeOK`, `ExitObserved`, `GraceAfterHealthRestart`, `CoreAsSeen` | four pids: the core that runs, one being waited for and two whose events are queued; threshold 3 as in the code; two wait slices (one that brings nothing and the last); two ports |
| `SupervisorLive` | `CoreTracked`, `OrchestratorGoesOn`, `StuckCoreReplaced`, `CoreComesBack`, `SelfRestartReplaces` | the process manager met in practice; two pids are enough, as without events only one old core is remembered; threshold 2, backlog 1; sleeps included |
| `SupervisorGrace` | violates `GraceForEveryCore` | as above |
| `SupervisorSleep` | violates `ControlServed` | as above, fair |
| `Album` | `TypeOK`, `OverrideOwned`, `LaunchGoesOn`, `AlbumRestored` | one title: these properties are about the slot, and whom a status names is `AlbumStatus`'s question; both launchers, every call on the SD card may fail, restarts |
| `AlbumBoot` | violates `AlbumAlwaysRestored` | one title, no SD failures: the restart alone does it |
| `AlbumStatus` | violates `StatusOfLastLaunch` | two titles, neither restarts nor SD failures |
| `Http` | `TypeOK`, `ReadBounded`, `NotCutShort`, `WholeJson`, `AnsweredOnce`, `NoFalse401`, `OnlyForToken`, `ServesAsSeen`, `ThreadGoesOn`, `PadReleased`, `RequestEnds`, `ListensAgain` | all routes, and `POST /reboot` as the one that occurs further on: it has an effect, routes come before and after it, and core looks for the first only; bodies of one and two units against a buffer with room for one, so that one fits and the other does not, announced and not; two tokens, one of which begins with the other; `hiddbg` and `capssc` there or not, together, as no handler needs both; time in units of `recv_timeout()`; two failures in a row instead of 25 |
| `LogRing` | `TypeOK`, `ReportInOrder`, `ReportIsFull`, `KeepsTheLastEntries` | three entries, seven calls: the ring fills and wraps twice; `u32` wraps at 16 |
| `Settings` | `TypeOK`, `BootAgrees`, `NobodyWithoutToken`, `ProcessesGoOn`, `CoreLearnsToken` | two tokens, so that a made-up one may and may not be the old one; two ports, the default and another; three processes as in the code; every fault and the companion app included |
| `SettingsRestart` | violates `SameTokenForSelfRestart` | the same without failures of the SD card; fair |
| `Home` | `HomeTypeOK`, `ModeShown`, `KeptAvailable`, `HomeGoesOn`, `HomeShowsConsole` | two tokens, one of which begins with the other, one port, SD failures; the user's edits stand for those of the companion app (`AppUsed = FALSE`), whose own steps are in `Settings`: with it the run has 20 times the states. A second port would add consoles that nobody reaches, which `RefreshFails` covers |

What the properties say is in the comment above each. Bounds on what is
unbounded: `MaxEvents` (queued exit events), `MaxLogs` (calls of `log()`), and
`instFails`, a history variable that stops at the threshold. The `TypeOK` of
each module is meant to fail when a counter is not reset (`failures`, `fails`,
`m_count`) or a value reaches a variable it has no business in (an empty
request read as a title). The `...GoesOn` invariants say where each process is
never left without an enabled step; besides being what one wants to know of a
thread that waits in many places, they are what the liveness proofs start from.
`OrchestratorGoesOn` says also that whoever waits at an open control socket can
be answered from the loop.

The Supervisor runs do not check deadlock: once the orchestrator has given up
at boot and core has ended, nothing may be left to do. All others do.

### Fairness

* `Supervisor`: `main()` loops for ever (`WF` of its steps); a launch that is
  possible again and again succeeds in the end (`SF`); `select()` hands over a
  waiting control client in each iteration before the health check runs (`SF`
  of `AcceptControl`); a terminated process ends (`WF`). Nothing is assumed of
  core's thread, so a handler may hang for ever, nor of clients.
* `HttpServer`: the thread goes on (`WF` of `ServerStep`): every wait in it has
  a time limit and the services it calls return. One that does not is
  `Supervisor`'s `CoreSticks`.
* `Settings`: a process goes on with what it has begun (`WF`), the orchestrator
  launches a core that is gone (`WF`), and a client comes whose token core does
  not know, or `POST /reload_config` (`WF` of `CoreReloads`). That core listens
  after the three loads of its `main()` is not assumed: the proof of
  `CoreLearns` needs only that each load ends.
* `Home`: no such client is assumed; the coordinator's own requests must do. Of
  the console `ConsoleFairness` is what `Settings` assumes of its processes; by
  `RefreshFairness` refreshes go on (`WF`) as Home Assistant's timer does, and a
  connection that waits in core's queue is accepted when core comes back to
  `accept()` (`SF`).
  That requests succeed is not assumed: the liveness properties speak of runs
  in which they fail, and files are meddled with, only finitely often
  (`Disturbance`, `HomeDisturbance`).
* `AlbumLaunch`: core's thread goes on, time passes, and clients poll core again
  and again (`WF` of `HandleClient`), as the Home Assistant integration does: a
  launch that comes in between is of core's own thread, and ends. Launchers may
  stop anywhere.

### What the violated properties show

1. `GraceForEveryCore`: `self_restart` leaves the count of failed probes as it
   is (`orchestrator/main.cpp` 265-267, against 364), so the new core can be
   terminated by its first failed probe, and with its 15 s sleep at boot
   (`core/main.cpp` 1245) it cannot answer that one.
2. `ControlServed`: the control socket is created once (328) and does not
   survive a sleep; core replaces its own for that reason (1432-1453).
3. `AlbumAlwaysRestored`: the cleanup at boot that the comment at
   `core/main.cpp` 269-270 speaks of is not in `main()`.
4. `StatusOfLastLaunch`: a launcher that has read an earlier request reports on
   it after the status was cleared for a later one.
5. `SameTokenForSelfRestart`: the orchestrator loads `settings.json` once (280)
   and compares every `POST /self_restart` with that (250). After the token was
   changed, with ZR in the `.nro` as the README suggests, core reloads and takes
   the new one; the orchestrator refuses it until the console reboots.

For each of them a theorem says that this is all that goes wrong, and where one
would hope that the state passes, another that it does not: see "What the
violated properties lack" below.

One more divergence needs no run: `{"button": "A"}`, which `docs/api.md` (83)
documents and the Home Assistant client sends (`api.py` 71), is answered 400, as
`ButtonPlans` shows and `core/main.cpp` 1056 to 1145 say.

## Proofs

TLAPS proves these for every value of the constants that satisfies the named
assumptions of each module.

| Theorem | States | From |
|---|---|---|
| `Supervisor_proofs!TypeCorrect` | `TypeOK` | `IndTypes`: the types, with the counters' limits by program point (`CountersInRange`) and a pid for every slot in use (`SlotNamed`) |
| `Supervisor_proofs!ExitsObserved` | `ExitObserved` | `IndExit`: a pid whose exit event is queued has no living core (`EventsOld`), and while an exit is awaited none has been seen, as the loop is left with the first (`WaitsInVain`) |
| `Supervisor_proofs!CoreIsTracked` | `CoreTracked` | itself inductive, assuming `TerminateMayFail = FALSE`; where `TerminateProgram` is refused the pid of a running core is in fact forgotten |
| `Supervisor_proofs!GraceIsKept` | `GraceAfterHealthRestart` | `IndGrace`: except after a `self_restart`, the code's count never exceeds the count since the launch |
| `Supervisor_proofs!CoreIsAsSeen` | `CoreAsSeen` | `IndSlot`: nothing runs in a slot that is free, or dead and so about to be freed |
| `AlbumLaunch_proofs!TypeCorrect` | `TypeOK` | inductive |
| `AlbumLaunch_proofs!SlotIsOwned` | `OverrideOwned` | inductive |
| `LogRing_proofs!RingKeepsTheLastEntries` | `KeepsTheLastEntries` | `IndRing`: types, and the entries at indices 0 to count - 1 have consecutive numbers that end with the last; every step of the ring is a step of `BoundedLog` or stutters |
| `LogRing_proofs!ReportsInOrder`, `ReportsAreFull` | `ReportInOrder`, `ReportIsFull` | `IndReport`: the report has as many entries as indices were read, and the next index has a larger number than each of them |
| `HttpServer_proofs!TypeCorrect` | `TypeOK` | `IndTypes`: unless the socket is being replaced, fewer failures than the limit; a status line that is left to send has a known code (`Coded`) |
| `HttpServer_proofs!OneAnswer` | `AnsweredOnce` | `IndAnswer`: what is left to do has exactly one status line and none was sent, or has none and one was (`Answering`) |
| `HttpServer_proofs!JsonIsWhole` | `WholeJson` | inductive |
| `HttpServer_proofs!ReadIsBounded`, `NoneCutShort` | `ReadBounded`, `NotCutShort` | inductive, with the types. What announces no length is promised its headers only; the clock starts behind the first `recv_timeout()` |
| `HttpServer_proofs!No401ForToken` | `NoFalse401` | a 401 follows a `load()` whose token was compared; the file must be one that can be opened, or `load()` makes a token up |
| `HttpServer_proofs!AcceptLoopAsSeen` | `ServesAsSeen` | each step of the thread is a step of `CoreOutside` or none of its business; no invariant is needed |
| `LogRing_proofs!TypeCorrect` | `TypeOK` | `IndRing`, `IndReport`, and a report of numbers that were logged |
| `Settings_proofs!TypeCorrect` | `TypeOK` | inductive |
| `Settings_proofs!NobodyWithoutTokenAlways` | `NobodyWithoutToken` | `HasToken`: also between decision and save |
| `Settings_proofs!BootAgreesAlways` | `BootAgrees` | `Inv`, see below |
| `Home_proofs!ImplementsCoordinator`, `ImplementsSettings` | `HomeSpec => Spec`, `HomeSpec => S!Spec` | each step of `Home` is a step of both parts, or leaves one of them alone |
| `HttpServer_proofs!EffectsForTokenOnly` | `OnlyForToken` | `ForToken`: from authorisation on the request has core's token, or a longer one, or begins with an open route; then it is `/info`, which is looked for first, so that its plans do nothing (`Harmless`), or the exception that `OnlyForToken` names; and the one step that may change the token, `reload`, is followed by a reply only (`ReloadLast`) |
| `Home_proofs!HomeTypeCorrect` | `HomeTypeOK` | `Settings_proofs` for the console, the types of the coordinator for the rest |
| `Home_proofs!HomeBootAgrees`, `HomeHasToken` | `S!BootAgrees`, `S!NobodyWithoutToken`, of `HomeSpec` | `ImplementsSettings` and `Settings_proofs`, instantiated as `SP` |
| `Home_proofs!HomeModeShown`, `HomeKeptAvailable` | `ModeShown`, `KeptAvailable`, of `HomeSpec` | `ImplementsCoordinator` and `Coordinator_proofs`, where `AwakeAfterInfo` is what `ModeShown` lacks: past `/info` there is no sleep mode |

`BootAgrees` needs `BootOrder`: core runs only beside an orchestrator that is
through with its `load()`, so that when core loads the file is whole and has the
token that the orchestrator holds, and core never saves; while the orchestrator
is about to save, the file holds nothing that another process could have loaded
for good; and only core loads again what it has loaded before, so that nobody
else can take a torn file for unchanged. The mutant `LaunchCoreEarly` shows that
the order of `main()` is what it hangs on.

What `Settings_proofs` shows of `Settings` holds of `Home` by
`ImplementsSettings`. `Home_proofs` has it as the instance `SP`, shows its
assumption about the constants (`SettingsConstants`) and that `SP` and `S` speak
of the same steps (`SameSteps`, `SameConsole`), and takes its theorems over.

`ExitObserved` is not inductive because a wait may end without its event, which
then stays queued while later cores are launched: what keeps it harmless is that
process ids are not reused while they are remembered, and that is `EventsOld`.
`KeepsTheLastEntries` needs the ring's order because `BoundedLog`'s `Tail` drops
index 0, and only the arithmetic lemmas (`PositionIs`, `FillingShiftsNothing`,
`FullShiftsByOne`) show that this is the slot `log()` overwrites. They hold for
any capacity, and any wrap-around above twice the capacity.

The proofs about `HttpServer` are one induction over `IInv`, the conjunction of
`IndTypes`, `IndAnswer` and the four safety invariants. `PlanShapes` lists what
a handler may plan and `PlansFit` shows of each what the invariant asks of it;
all that is asked speaks of the indices of `todo`, so that doing the first step
keeps it (`ActKeeps`). They hold for any tokens, body lengths, buffer and limits.

### Liveness

The prover knows `ENABLED` only as a word, so it cannot find out by itself that
a fair action will be possible. That part is stated as an invariant which TLC
checks in a run of the same module, and the theorem has it as its hypothesis;
everything else, which steps may come in between, that none of them undoes what
was reached and that the fair step gets there, is proved for every value of the
constants from one lemma per kind of step, with `PTL` at the end.

| Theorem | States | Assuming, and the argument |
|---|---|---|
| `AlbumLaunch_proofs!AlbumComesBack` | `AlbumRestored` | `[]LaunchGoesOn`. A launch in progress ends or gives up; then time passes until the next poll takes the files out or, where a removal fails, orphans them, unless a restart has done so |
| `HttpServer_proofs!ButtonLetGo` | `PadReleased` | `[]ThreadGoesOn`. While a button is down its release is the next step of the plan (`Paired`, `HeldInHandler`) |
| `HttpServer_proofs!RequestsEnd` | `RequestEnds` | `[]ThreadGoesOn`, `NumbersOfTheCode`. Each part received fills the buffer further, each step of a handler shortens its plan (at most five, `FewSteps`) |
| `HttpServer_proofs!ListensOnceMore` | `ListensAgain` | the same. `RequestsEnd`, then failures of `accept()` add up to the limit, and with the network there the first attempt at a socket succeeds |
| `Supervisor_proofs!RestartReplaces` | `SelfRestartReplaces` | `[]OrchestratorGoesOn`, `TerminateMayFail = FALSE`. By `CoreTracked` the pid that is terminated is that of the core that runs, and nothing but its end follows |
| `Supervisor_proofs!StuckIsReplaced` | `StuckCoreReplaced` | the same and `NumbersOfTheCode`. While core hangs its queue only grows and a lost socket is not replaced (`StuckQueue`), so each round of probes ends in a restart or with one more connection in the queue (`RoomMoves`, `DeafMoves`) |
| `Supervisor_proofs!CoreReturns` | `CoreComesBack` | `[]OrchestratorGoesOn`, `SlotHeld = FALSE`, `NumbersOfTheCode`. With the slot free nothing listens (`IndGone`), so probes fail until a restart comes to `launch_core()` again, and again; it is not refused for ever |
| `Settings_proofs!CoreLearns` | `CoreLearnsToken` | `[]ProcessesGoOn`. Once the file is left alone each process ends what it has begun and starts nothing that writes it; then core, launched or reloaded, reads the one token there is |
| `Home_proofs!ConsoleShown` | `HomeShowsConsole` | `[]HomeGoesOn`. The same calm of the console, then one whole refresh of the coordinator, whose entry is right and whose token core at least reloads |
| `Supervisor_proofs!CoreReturnsInTime` | `CoreComesBack` | `[]OrchestratorGoesOn`, `NumbersOfTheCode`, and that core has ended whenever `CleanupProcess` is called; with either process manager. Then an old core's slot is released before `launch_core()`, or its pid is still held, so the next restart releases it (`SlotTracked`) |
| `Supervisor_proofs!HangIsOvercome` | a core whose handler hangs is followed by one that runs and does not hang, or the orchestrator has given up at boot | `StuckIsReplaced` and `CoreReturns`, under the assumptions of both: a hang ends only with the core it is in (`HangLeaves`) |

`NumbersOfTheCode` is the one place where numbers are assumed, because a proof
by induction over a count of steps is beyond the prover: in `Supervisor_proofs`
at most 15 slices (`orchestrator/main.cpp` 142), 3 failed probes (82) and 5
connections (`core/main.cpp` 1230), each of which gets its own step in the
proof; in `HttpServer_proofs` at most 2047 bytes in the buffer (471) and 25
failures of `accept()` (1442). The latter are reached by doubling: if one more
part comes from any number on, then two do, then four (`ReadsTwice`,
`FailsTwice`).

`SlotHeld = FALSE` is the process manager met in practice. With the other one
`CoreComesBack` is false when a wait for an exit has run out: the pid is
forgotten, so nobody releases the slot that the dead core holds, and no core
ever runs again (`ForgottenStaysAway`). That `CleanupProcess` comes too early is
the only way to get there (`CoreReturnsInTime`). With `TerminateMayFail = TRUE`
neither `CoreTracked` nor what follows from it holds.

### What the violated properties lack

Each of these theorems has a condition on the behaviour that the code does not
meet always, but often, and proves that nothing else can break the property; or
it proves that what has been broken stays so.

| Theorem | States | Condition, and the argument |
|---|---|---|
| `Supervisor_proofs!GraceUnlessCounted` | `GraceForEveryCore` | `POST /self_restart` comes only while no failed probe is counted. Then the code's count is that of the present core (`IndCount`, with `IndGrace`) |
| `Supervisor_proofs!ServedUntilSleep` | a waiting control client is served, or the console sleeps, or the orchestrator has given up | `[]OrchestratorGoesOn`, `NumbersOfTheCode`. Every restart ends, so `main()` comes round to `select()` again and again (`LoopComesRound`) |
| `Supervisor_proofs!NobodyServedAfterSleep` | who waits at a dead control socket waits for ever | none: nothing but the only start of `main()` opens that socket (`IndSocket`) |
| `AlbumLaunch_proofs!AlbumComesBackUndisturbed` | `AlbumAlwaysRestored` | `[]LaunchGoesOn`; core restarts only while the slot is empty, no copy into it fails and every removal from it works (`Undisturbed`). Then nothing is ever orphaned, and `AlbumComesBack` applies |
| `AlbumLaunch_proofs!OrphanStays` | an orphaned slot is left as it is by every step but the next install | none: `g_album_override_active` is off (`OrphanForgotten`), and every cleanup asks for it |
| `AlbumLaunch_proofs!StatusUnlessLate` | `StatusOfLastLaunch` | no launcher still has an earlier title while core hands over the next one (`Alone`), and the earlier status is in fact removed (`Cleared`). Then what launchers hold and what the status names is of the last request (`IndStatus`) |
| `Settings_proofs!SameTokenIfBootToken` | in the end `/self_restart` takes the token of the API exactly when the file has the token that the orchestrator read at boot | `[]ProcessesGoOn`, nobody meddles any more, and the file is filled. By `CoreLearns` core has the file's token |
| `Settings_proofs!OrchestratorKeepsToken` | an orchestrator that is up keeps its token and port until the console reboots | none |
| `Home_proofs!WrongTokenNeverShown` | in the end a console is not shown awake to whom it refuses the token | `[]HomeGoesOn`, nobody meddles any more, and the entry's token neither is nor begins with the file's or core's (`Refused`). Each refresh gets as far as `/titles`, core reloads, answers 401 and is taken for asleep (`CoreFreeAgain`, `RefreshIsRefused`) |

`WrongTokenNeverShown` is the other half of `ConsoleShown`: 401 is a
`ClientError` like any other to `coordinator.py` (85), so that a wrong token is
never told from sleep. That core must lack the token as well is needed: TLC
finds that an entry whose token was taken out of `settings.json` goes on being
served as long as nobody else makes core reload.

Model-checked only: `OrchestratorGoesOn`, `LaunchGoesOn`, `ThreadGoesOn`,
`ProcessesGoOn` and `HomeGoesOn`, which speak of `ENABLED` and are the
hypotheses above, and the properties that the code violates.

## Not modelled

* `firmware/common/include/json.hpp`: 24,765 of the 27,767 lines of C++ are this
  third-party library. What the firmware asks of it, whether a body is whole
  and has a key, is in `HttpServer`. Of the firmware's own 3,000 lines the map
  covers more than half; Python is on top of that.
* The mDNS responder: one datagram in, at most one out, and no state but its
  socket.
* The companion app's repair and update (`check_and_fix_sysmodule`,
  `download_update`): they fetch release assets named `main`, `main.npdm` and
  `.nro`, and `release.yml` uploads `nxremoteapi.zip` only, so that as released
  each ends with "asset missing" before it writes anything. Its drawing and its
  view of the log keep nothing.
* The contents of replies, tracing and boot logs; in `settings.json` the flags
  and the time of the last update check.
* In `HttpServer`: the text of a token or of a Content-Length inside a body, which
  `strstr` would find there as well, more than one route behind the request
  line, and another route's text in a header of a request that has a body.
  `create_listen_socket()` fails only while the network is down.
* Power and answer in time: that `POST /command` acts before it answers, while
  the power routes answer first, is kept by the plans, and nothing in the
  repository says which it should be.
* Two saves that overlap byte by byte: a file is written in one piece.
* Entities and config flow of the integration: views of the coordinator's data,
  and forms. Comparing versions is Home Assistant's code.
* Release tooling, CI and tests: one-shot scripts that edit text.

## Plan

1. `Supervisor`, the core of the system: who keeps core running. Done.
2. `AlbumLaunch`: processes that talk through files. Done.
3. `HttpServer`: the API itself. Done.
4. `LogRing` implementing `BoundedLog`. Done.
5. `Settings`: one file, three processes. Done.
6. `Coordinator`, and `Home` that composes it with `Settings`. Done.
7. `CoreOutside`, which `Supervisor` and `HttpServer` both implement. Done.
8. Theorems: types, safety and refinements of every module, its liveness from
   the `...GoesOn` invariants, and where the properties that the code violates
   do hold. Done.
9. Left: an updater becomes worth a module when releases carry the files it
   looks for.
