----------------------------- MODULE AlbumLaunch -----------------------------
(***************************************************************************)
(* Launching a patched title by taking the Album applet's place for a few  *)
(* seconds.  core (firmware/core/main.cpp) puts the launcher build into    *)
(* Album's content-override slot, leaves a request file and launches       *)
(* Album; the launcher (run_launcher_mode in firmware/companion-app/       *)
(* main.cpp) takes the request, asks for the title and leaves a status     *)
(* file; core looks at that file whenever a request reaches it, and then   *)
(* takes the launcher out of the slot again.                               *)
(*                                                                         *)
(* Two processes run run_launcher_mode: the one in Album's place and the   *)
(* .nro, which has the same main() and which the user may open at any time.*)
(*                                                                         *)
(* A status file that is truncated, and not written again yet or never, is *)
(* no terminal status for core, exactly like "launching", and is not told  *)
(* apart from it.                                                          *)
(***************************************************************************)
EXTENDS Naturals

CONSTANTS
  Titles,       \* titles clients ask for, all of them with an update installed
  None,         \* a file that is not there, a launcher that holds no title
  Empty,        \* launch_request.json between fopen("w") and fwrite, or one
                \* that was cut short: it parses to no title
  Restarts,     \* the orchestrator may restart core
  SdFails       \* files on the SD card may be missing, and may fail to be
                \* opened, written or removed

ASSUME ConstantsAssumption ==
  /\ None \notin Titles /\ Empty \notin Titles /\ None # Empty
  /\ {Restarts, SdFails} \subseteq BOOLEAN

VARIABLES
  pc,        \* where core's thread is in request_launch_via_album()
  title,     \* its argument, tid, in the call that runs or the last one that
             \* launched Album
  active,    \* g_album_override_active
  expired,   \* more than ALBUM_LAUNCHER_TIMEOUT_SEC since the launch
  override,  \* exefs/main and exefs/main.npdm in Album's slot
  request,   \* launch_request.json
  status,    \* launch_status.json
  launcher,  \* the two processes that can run run_launcher_mode()
  orphaned   \* history: files stayed in the slot, by a restart, a copy or a
             \* removal that failed, and core forgot them

coreVars == <<pc, title, active, expired>>
vars == <<coreVars, override, request, status, launcher, orphaned>>

Launchers == {"album", "nro"}
Copies    == {"absent", "partial", "whole"}
Slot      == [main : Copies, npdm : Copies]
NoFiles   == [main |-> "absent", npdm |-> "absent"]
Statuses  == [state : {"launching", "launched", "error"},
              title : Titles \cup {None}]
Terminal  == {"launched", "error"}
NotRunning == [at |-> "none", title |-> None]

TypeOK ==
  /\ pc \in {"idle", "clear", "open", "write", "install", "launch"}
  /\ title \in Titles \cup {None}
  /\ active \in BOOLEAN /\ expired \in BOOLEAN /\ orphaned \in BOOLEAN
  /\ override \in Slot
  /\ request \in Titles \cup {None, Empty}
  /\ status \in Statuses \cup {None}
  /\ launcher \in [Launchers ->
       [at : {"none", "main", "open", "remove", "report", "ask", "launched",
              "error"},
        title : Titles \cup {None}]]

Init ==
  /\ pc = "idle" /\ title = None /\ active = FALSE /\ expired = FALSE
  /\ override = NoFiles /\ request = None /\ status = None
  /\ launcher = [l \in Launchers |-> NotRunning]
  /\ orphaned = FALSE

-----------------------------------------------------------------------------
(* core.                                                                   *)

\* remove(): what is there afterwards.  Nobody looks at its result.
AfterRemove(file, absent) == {absent} \cup IF SdFails THEN {file} ELSE {}

\* uninstall_album_launcher_override()
Uninstalled ==
  \E m \in AfterRemove(override.main, "absent"),
     n \in AfterRemove(override.npdm, "absent") :
    override' = [main |-> m, npdm |-> n]

LauncherDone ==
  active /\ (expired \/ (status # None /\ status.state \in Terminal))

StatusUnread == SdFails /\ ~expired

Forgets == /\ active' = FALSE /\ expired' = FALSE
           /\ orphaned' = (override' # NoFiles)

\* (mutant: only the code is removed from the slot, not its npdm)
PollLeavesNpdm ==
  \/ /\ LauncherDone
     /\ override' = [override EXCEPT !.main = "absent"]
     /\ active' = FALSE /\ expired' = FALSE /\ UNCHANGED orphaned
  \/ ~LauncherDone /\ UNCHANGED <<override, orphaned, active, expired>>

\* (mutant: without a status core waits for ever)
PollWithoutTimeout ==
  IF active /\ status # None /\ status.state \in Terminal
  THEN Uninstalled /\ Forgets
  ELSE UNCHANGED <<override, orphaned, active, expired>>

\* poll_album_launcher_completion().  What could not be removed stays, and the
\* flag is cleared all the same.
Poll ==
  \/ LauncherDone /\ Uninstalled /\ Forgets
  \/ /\ ~LauncherDone \/ StatusUnread
     /\ UNCHANGED <<override, orphaned, active, expired>>

\* Any request that does not end in request_launch_via_album(): it polls, and
\* may launch a title directly.
HandleClient ==
  /\ pc = "idle"
  /\ Poll
  /\ UNCHANGED <<pc, title, request, status, launcher>>

\* POST /command or POST /launch for a title both direct launches of which
\* fail, one of them with NcaBaseStorageOutOfRangeC.
LaunchRequested(t) ==
  /\ pc = "idle"
  /\ Poll
  /\ pc' = "clear" /\ title' = t
  /\ UNCHANGED <<request, status, launcher>>

ClearStatus ==
  /\ pc = "clear"
  /\ Poll
  /\ status' \in AfterRemove(status, None)
  /\ pc' = "open"
  /\ UNCHANGED <<title, request, launcher>>

OpenRequest ==
  /\ pc = "open"
  /\ \/ request' = Empty /\ pc' = "write"
                           /\ UNCHANGED title
     \/ SdFails /\ request' = request /\ pc' = "idle" /\ title' = None
  /\ UNCHANGED <<active, expired, override, status, launcher, orphaned>>

\* fwrite(), the result of which is ignored.
WriteRequest ==
  /\ pc = "write"
  /\ request' \in {title} \cup IF SdFails THEN {Empty} ELSE {}
  /\ pc' = "install"
  /\ UNCHANGED <<title, active, expired, override, status, launcher, orphaned>>

\* copy_file(): what it reports and what it leaves.  A source that cannot be
\* opened leaves the copy as it was, a write that fails leaves it cut short,
\* and so does a read that fails, which is not noticed.
CopyOutcomes(old) ==
  {[ok |-> TRUE, copy |-> "whole"]} \cup
    IF SdFails
    THEN {[ok |-> TRUE, copy |-> "partial"], [ok |-> FALSE, copy |-> old],
          [ok |-> FALSE, copy |-> "partial"]}
    ELSE {}

\* install_album_launcher_override(); when it fails the request is withdrawn
\* and whatever was copied stays.
Install ==
  /\ pc = "install"
  /\ \E m \in CopyOutcomes(override.main), n \in CopyOutcomes(override.npdm) :
       /\ override' = [main |-> m.copy, npdm |-> n.copy]
       /\ IF m.ok /\ n.ok
          THEN /\ pc' = "launch" /\ orphaned' = FALSE
               /\ UNCHANGED <<title, request>>
          ELSE /\ pc' = "idle" /\ title' = None
               /\ request' \in AfterRemove(request, None)
               /\ orphaned' = (override' # NoFiles /\ ~active)
  /\ UNCHANGED <<active, expired, status, launcher>>

\* (mutant: core waits for an Album that is open instead of giving up)
LaunchAlbumWaits ==
  /\ pc = "launch" /\ launcher["album"].at = "none"
  /\ launcher' = [launcher EXCEPT !["album"].at = "main"]
  /\ active' = TRUE /\ expired' = FALSE /\ pc' = "idle"
  /\ UNCHANGED <<title, request, override, orphaned, status>>

\* pmshellLaunchProgram(Album).  A launch that fails is undone; an earlier one
\* that is still active stays so.
LaunchAlbum ==
  /\ pc = "launch"
  /\ \/ /\ launcher["album"].at = "none"
        /\ launcher' = [launcher EXCEPT !["album"].at =
                          IF override.main = "whole" /\ override.npdm = "whole"
                          THEN "main" ELSE "none"]
        /\ active' = TRUE /\ expired' = FALSE
        /\ UNCHANGED <<title, request, override, orphaned>>
     \/ /\ Uninstalled
        /\ orphaned' = (override' # NoFiles /\ ~active)
        /\ title' = None /\ request' \in AfterRemove(request, None)
        /\ UNCHANGED <<active, expired, launcher>>
  /\ pc' = "idle"
  /\ UNCHANGED status

TimePasses ==
  /\ active /\ ~expired
  /\ expired' = TRUE
  /\ UNCHANGED <<pc, title, active, override, request, status, launcher,
                 orphaned>>

\* The orchestrator restarts core: what it knew of the override is gone, the
\* files are not, and main() does not look for them.
CoreRestarts ==
  /\ Restarts
  /\ pc' = "idle" /\ title' = None /\ active' = FALSE /\ expired' = FALSE
  /\ orphaned' = (override # NoFiles)
  /\ UNCHANGED <<override, request, status, launcher>>

-----------------------------------------------------------------------------
(* main() and run_launcher_mode() of the launcher l.                       *)

Goto(l, p) == launcher' = [launcher EXCEPT ![l].at = p]

\* write_launch_status(): nothing when the file cannot be opened.
Report(l, s) ==
  status' \in {[state |-> s, title |-> launcher[l].title]} \cup
    IF SdFails THEN {status, [state |-> "launching", title |-> None]} ELSE {}

\* The user opens the .nro, or Album while the override is in its slot.
UserOpens(l) ==
  /\ launcher[l].at = "none"
  /\ l = "album" => override = [main |-> "whole", npdm |-> "whole"]
  /\ Goto(l, "main")
  /\ UNCHANGED <<coreVars, override, request, status, orphaned>>

\* file_exists(LAUNCH_REQUEST_PATH); without a request main() goes on as the
\* companion's GUI, which leaves these files alone.
LookForRequest(l) ==
  /\ launcher[l].at = "main"
  /\ IF request # None
     THEN Goto(l, "open")
     ELSE launcher' = [launcher EXCEPT ![l] = NotRunning]
  /\ UNCHANGED <<coreVars, override, request, status, orphaned>>

\* (mutant: an empty request is taken for a title)
ReadRequestUnchecked(l) ==
  /\ launcher[l].at = "open"
  /\ launcher' = [launcher EXCEPT ![l] =
       IF request = None THEN NotRunning
       ELSE [at |-> "remove", title |-> request]]
  /\ UNCHANGED <<coreVars, override, request, status, orphaned>>

\* The file may have gone since; an empty one parses to no title.
ReadRequest(l) ==
  /\ launcher[l].at = "open"
  /\ launcher' = [launcher EXCEPT ![l] =
       IF request = None THEN NotRunning
       ELSE [at |-> "remove",
             title |-> IF request = Empty THEN None ELSE request]]
  /\ UNCHANGED <<coreVars, override, request, status, orphaned>>

RemoveRequest(l) ==
  /\ launcher[l].at = "remove"
  /\ request' \in AfterRemove(request, None)
  /\ Goto(l, IF launcher[l].title = None THEN "error" ELSE "report")
  /\ UNCHANGED <<coreVars, override, status, orphaned>>

ReportLaunching(l) ==
  /\ launcher[l].at = "report"
  /\ Report(l, "launching")
  /\ Goto(l, "ask")
  /\ UNCHANGED <<coreVars, override, request, orphaned>>

\* appletRequestLaunchApplication()
AskForLaunch(l) ==
  /\ launcher[l].at = "ask"
  /\ \E outcome \in Terminal : Goto(l, outcome)
  /\ UNCHANGED <<coreVars, override, request, status, orphaned>>

ReportOutcome(l) ==
  /\ launcher[l].at \in Terminal
  /\ Report(l, launcher[l].at)
  /\ launcher' = [launcher EXCEPT ![l] = NotRunning]
  /\ UNCHANGED <<coreVars, override, request, orphaned>>

\* The applet is closed or crashes before it is through.
LauncherDies(l) ==
  /\ launcher[l].at # "none"
  /\ launcher' = [launcher EXCEPT ![l] = NotRunning]
  /\ UNCHANGED <<coreVars, override, request, status, orphaned>>

LauncherStep(l) == \/ LookForRequest(l) \/ ReadRequest(l) \/ RemoveRequest(l)
                   \/ ReportLaunching(l) \/ AskForLaunch(l) \/ ReportOutcome(l)

-----------------------------------------------------------------------------

CoreStep == ClearStatus \/ OpenRequest \/ WriteRequest \/ Install \/ LaunchAlbum

Next == \/ HandleClient \/ \E t \in Titles : LaunchRequested(t)
        \/ CoreStep \/ TimePasses \/ CoreRestarts
        \/ \E l \in Launchers :
             UserOpens(l) \/ LauncherStep(l) \/ LauncherDies(l)

Spec == Init /\ [][Next]_vars

(***************************************************************************)
(* core's thread goes on, time passes, and some client polls the API again *)
(* and again (Home Assistant's GET /info).  Launchers may stop anywhere.   *)
(* Weak fairness is enough: a launch in between takes the slot anyway.     *)
(***************************************************************************)
Fairness == WF_vars(CoreStep) /\ WF_vars(TimePasses) /\ WF_vars(HandleClient)

FairSpec == Spec /\ Fairness

-----------------------------------------------------------------------------
(* Properties.                                                             *)

\* Whenever anything is in Album's slot, core knows that it has to remove it:
\* it is installing or launching it, or waiting for its launcher.  The one
\* exception is a slot that a restart, or a copy or a removal that failed, has
\* orphaned.
OverrideOwned ==
  override # NoFiles => active \/ pc = "launch" \/ orphaned

\* core is never stuck half way through a launch, whatever fails, and once the
\* time is over nothing but a request is missing to clean up.
LaunchGoesOn ==
  /\ pc # "idle" => ENABLED <<CoreStep>>_vars
  /\ active /\ ~expired => ENABLED <<TimePasses>>_vars
  /\ pc = "idle" /\ active /\ expired => ENABLED <<HandleClient>>_vars

\* The real Album comes back, whatever becomes of the launcher, unless the
\* slot is orphaned or taken for yet another launch.
AlbumRestored ==
  (override # NoFiles) ~> (override = NoFiles \/ orphaned \/ pc = "clear")

\* The same, and a restart of core makes no difference (on a card that works).
AlbumAlwaysRestored ==
  (override # NoFiles) ~> (override = NoFiles \/ pc = "clear")

\* GET /launch_status speaks of the last launch that was handed over to the
\* launcher, never of an earlier one.
StatusOfLastLaunch ==
  pc = "idle" /\ title # None /\ status # None => status.title \in {title, None}
=============================================================================
