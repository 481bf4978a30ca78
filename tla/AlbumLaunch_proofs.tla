------------------------- MODULE AlbumLaunch_proofs -------------------------
(***************************************************************************)
(* What TLAPS proves of AlbumLaunch: for any set of titles, with or without*)
(* restarts of core and failures of the SD card.                           *)
(***************************************************************************)
EXTENDS AlbumLaunch, TLAPS

-----------------------------------------------------------------------------
(* Types.                                                                  *)

\* remove() leaves a file as it was or not at all.
LEMMA RemovedOrKept ==
  ASSUME NEW file, NEW absent, NEW after \in AfterRemove(file, absent)
  PROVE  after \in {file, absent}
BY DEF AfterRemove

\* What uninstalling leaves is a slot.
LEMMA UninstalledTypes ==
  ASSUME override \in Slot, Uninstalled
  PROVE  override' \in Slot
<1>1. override.main \in Copies /\ override.npdm \in Copies
  BY DEF Slot
<1>2. PICK m \in AfterRemove(override.main, "absent"),
           n \in AfterRemove(override.npdm, "absent") :
        override' = [main |-> m, npdm |-> n]
  BY DEF Uninstalled
<1>3. m \in Copies /\ n \in Copies
  BY <1>1, RemovedOrKept DEF Copies
<1> QED
  BY <1>2, <1>3 DEF Slot

\* poll_album_launcher_completion() keeps the types of what it touches.
LEMMA PollTypes ==
  ASSUME TypeOK, Poll
  PROVE  override' \in Slot /\ {active', expired', orphaned'} \subseteq BOOLEAN
<1>1. CASE Uninstalled /\ Forgets
  <2>1. override' \in Slot
    BY <1>1, UninstalledTypes DEF TypeOK
  <2>2. active' = FALSE /\ expired' = FALSE /\ orphaned' \in BOOLEAN
    BY <1>1 DEF Forgets
  <2> QED
    BY <2>1, <2>2
<1>2. CASE UNCHANGED <<override, orphaned, active, expired>>
  BY <1>2 DEF TypeOK
<1> QED
  BY <1>1, <1>2 DEF Poll

\* copy_file() leaves no copy, a partial one or a whole one.
LEMMA CopyOutcomesAreCopies ==
  ASSUME NEW old \in Copies, NEW outcome \in CopyOutcomes(old)
  PROVE  outcome.copy \in Copies
BY DEF CopyOutcomes, Copies

\* Every step keeps the types.
LEMMA TypesStep == TypeOK /\ [Next]_vars => TypeOK'
<1> SUFFICES ASSUME TypeOK, [Next]_vars PROVE TypeOK'
  OBVIOUS
<1> USE DEF coreVars
<1>1. CASE HandleClient
  <2>1. override' \in Slot /\ {active', expired', orphaned'} \subseteq BOOLEAN
    BY <1>1, PollTypes DEF HandleClient
  <2> QED
    BY <1>1, <2>1 DEF HandleClient, TypeOK, Statuses
<1>2. CASE \E t \in Titles : LaunchRequested(t)
  <2>1. override' \in Slot /\ {active', expired', orphaned'} \subseteq BOOLEAN
    BY <1>2, PollTypes DEF LaunchRequested
  <2> QED
    BY <1>2, <2>1 DEF LaunchRequested, TypeOK, Statuses
<1>3. CASE ClearStatus
  <2>1. override' \in Slot /\ {active', expired', orphaned'} \subseteq BOOLEAN
    BY <1>3, PollTypes DEF ClearStatus
  <2> QED
    BY <1>3, <2>1, RemovedOrKept DEF ClearStatus, TypeOK, Statuses
<1>4. CASE OpenRequest
  BY <1>4 DEF TypeOK, Statuses, Slot, Copies, NoFiles, NotRunning, Terminal,
     OpenRequest
<1>5. CASE WriteRequest
  BY <1>5 DEF TypeOK, Statuses, Slot, Copies, NoFiles, NotRunning, Terminal,
     WriteRequest
<1>6. CASE Install
  <2>1. PICK m \in CopyOutcomes(override.main),
             n \in CopyOutcomes(override.npdm) :
          /\ override' = [main |-> m.copy, npdm |-> n.copy]
          /\ \/ /\ pc' = "launch" /\ orphaned' = FALSE
                /\ UNCHANGED <<title, request>>
             \/ /\ pc' = "idle" /\ title' = None
                /\ request' \in AfterRemove(request, None)
                /\ orphaned' = (override' # NoFiles /\ ~active)
    BY <1>6 DEF Install
  <2>2. override' \in Slot
    <3>1. override.main \in Copies /\ override.npdm \in Copies
      BY DEF TypeOK, Slot
    <3>2. m.copy \in Copies /\ n.copy \in Copies
      BY <3>1, CopyOutcomesAreCopies
    <3> QED
      BY <2>1, <3>2 DEF Slot
  <2>3. orphaned' \in BOOLEAN
    BY <2>1
  <2>4. request' \in Titles \cup {None, Empty}
    BY <2>1, RemovedOrKept DEF TypeOK
  <2> QED
    BY <1>6, <2>1, <2>2, <2>3, <2>4 DEF Install, TypeOK, Statuses
<1>7. CASE LaunchAlbum
  <2>1. {active', expired', orphaned'} \subseteq BOOLEAN
    BY <1>7 DEF LaunchAlbum, TypeOK
  <2>2. launcher' \in [Launchers ->
          [at : {"none", "main", "open", "remove", "report", "ask",
                 "launched", "error"}, title : Titles \cup {None}]]
    BY <1>7 DEF LaunchAlbum, TypeOK
  <2>3. override' \in Slot
    BY <1>7, UninstalledTypes DEF LaunchAlbum, TypeOK
  <2>4. request' \in Titles \cup {None, Empty} /\ title' \in Titles \cup {None}
    BY <1>7, RemovedOrKept DEF LaunchAlbum, TypeOK
  <2> QED
    BY <1>7, <2>1, <2>2, <2>3, <2>4 DEF LaunchAlbum, TypeOK, Statuses
<1>8. CASE TimePasses
  BY <1>8 DEF TypeOK, Statuses, Slot, Copies, NoFiles, NotRunning, Terminal,
     TimePasses
<1>9. CASE CoreRestarts
  BY <1>9 DEF TypeOK, Statuses, Slot, Copies, NoFiles, NotRunning, Terminal,
     CoreRestarts
<1>10. ASSUME NEW l \in Launchers,
              UserOpens(l) \/ LauncherStep(l) \/ LauncherDies(l)
      PROVE  TypeOK'
  <2>1. CASE UserOpens(l)
    BY <2>1 DEF TypeOK, Statuses, Slot, Copies, NoFiles, NotRunning,
       Terminal, UserOpens, Goto
  <2>2. CASE LookForRequest(l)
    BY <2>2 DEF TypeOK, Statuses, Slot, Copies, NoFiles, NotRunning,
       Terminal, LookForRequest, Goto
  <2>3. CASE ReadRequest(l)
    BY <2>3 DEF TypeOK, Statuses, Slot, Copies, NoFiles, NotRunning,
       Terminal, ReadRequest
  <2>4. CASE RemoveRequest(l)
    BY <2>4, RemovedOrKept DEF TypeOK, Statuses, Slot, Copies, NoFiles,
       NotRunning, Terminal, RemoveRequest, Goto
  <2>5. CASE ReportLaunching(l)
    BY <2>5 DEF TypeOK, Statuses, Slot, Copies, NoFiles, NotRunning,
       Terminal, ReportLaunching, Report, Goto
  <2>6. CASE AskForLaunch(l)
    BY <2>6 DEF TypeOK, Statuses, Slot, Copies, NoFiles, NotRunning,
       Terminal, AskForLaunch, Goto, Terminal
  <2>7. CASE ReportOutcome(l)
    BY <2>7 DEF TypeOK, Statuses, Slot, Copies, NoFiles, NotRunning,
       Terminal, ReportOutcome, Report, Terminal
  <2>8. CASE LauncherDies(l)
    BY <2>8 DEF TypeOK, Statuses, Slot, Copies, NoFiles, NotRunning,
       Terminal, LauncherDies
  <2> QED
    BY <1>10, <2>1, <2>2, <2>3, <2>4, <2>5, <2>6, <2>7, <2>8 DEF
       LauncherStep
<1>11. CASE UNCHANGED vars
  BY <1>11 DEF TypeOK, Statuses, Slot, Copies, NoFiles, NotRunning,
     Terminal, vars
<1> QED
  BY <1>1, <1>2, <1>3, <1>4, <1>5, <1>6, <1>7, <1>8, <1>9, <1>10, <1>11 DEF
     Next, CoreStep

\* core, both launchers and the files between them keep to their types: no
\* launcher ever takes an empty request for a title.
THEOREM TypeCorrect == Spec => []TypeOK
<1>1. ASSUME Init PROVE TypeOK
  <2>1. {active, expired, orphaned} \subseteq BOOLEAN
    BY <1>1 DEF Init
  <2> QED
    BY <1>1, <2>1 DEF Init, TypeOK, Statuses, Slot, Copies, NoFiles,
       NotRunning, Terminal
<1> QED
  BY <1>1, TypesStep, PTL DEF Spec

-----------------------------------------------------------------------------
(* Album's slot.                                                           *)

\* When the time is over or the launcher is through core forgets about the
\* slot, and orphaned tells whether anything stayed there.
LEMMA PollDoes ==
  ASSUME Poll
  PROVE  \/ active /\ ~active' /\ ~expired' /\ (orphaned' <=> override' # NoFiles)
         \/ /\ ~(active /\ expired)
            /\ UNCHANGED <<override, orphaned, active, expired>>
<1>1. CASE LauncherDone /\ Uninstalled /\ Forgets
  <2>1. active /\ ~active' /\ ~expired'
    BY <1>1 DEF LauncherDone, Forgets
  <2>2. orphaned' <=> override' # NoFiles
    BY <1>1, Zenon DEF Forgets
  <2> QED
    BY <2>1, <2>2
<1>2. CASE /\ ~LauncherDone \/ StatusUnread
           /\ UNCHANGED <<override, orphaned, active, expired>>
  BY <1>2 DEF LauncherDone, StatusUnread
<1> QED
  BY <1>1, <1>2 DEF Poll

\* A launch that succeeds makes core wait for its launcher; one that fails
\* leaves the slot to an earlier launch that is still active, or to nobody.
LEMMA LaunchAlbumDoes ==
  ASSUME LaunchAlbum
  PROVE  /\ pc = "launch" /\ pc' = "idle"
         /\ \/ active' /\ ~expired' /\ UNCHANGED <<title, override, orphaned>>
            \/ /\ UNCHANGED <<active, expired>> /\ title' = None
               /\ orphaned' <=> override' # NoFiles /\ ~active
<1>1. pc = "launch" /\ pc' = "idle"
  BY DEF LaunchAlbum
<1>2. CASE active' = TRUE /\ expired' = FALSE /\ UNCHANGED <<title, override, orphaned>>
  BY <1>1, <1>2
<1>3. CASE /\ orphaned' = (override' # NoFiles /\ ~active)
           /\ title' = None /\ UNCHANGED <<active, expired>>
  <2>1. orphaned' <=> override' # NoFiles /\ ~active
    BY <1>3, Zenon
  <2> QED
    BY <1>1, <1>3, <2>1
<1> QED
  BY <1>2, <1>3 DEF LaunchAlbum

\* Every step leaves somebody in charge of what is in the slot.
LEMMA OwnedStep == OverrideOwned /\ [Next]_vars => OverrideOwned'
<1> SUFFICES ASSUME OverrideOwned, [Next]_vars PROVE OverrideOwned'
  OBVIOUS
<1> USE DEF coreVars
<1>1. CASE HandleClient
  BY <1>1, PollDoes DEF OverrideOwned, HandleClient
<1>2. CASE \E t \in Titles : LaunchRequested(t)
  BY <1>2, PollDoes DEF OverrideOwned, LaunchRequested
<1>3. CASE ClearStatus
  BY <1>3, PollDoes DEF OverrideOwned, ClearStatus
<1>4. CASE OpenRequest
  BY <1>4 DEF OverrideOwned, OpenRequest
<1>5. CASE WriteRequest
  BY <1>5 DEF OverrideOwned, WriteRequest
<1>6. CASE Install
  BY <1>6 DEF OverrideOwned, Install, CopyOutcomes
<1>7. CASE LaunchAlbum
  BY <1>7, LaunchAlbumDoes DEF OverrideOwned
<1>8. CASE TimePasses
  BY <1>8 DEF OverrideOwned, TimePasses
<1>9. CASE CoreRestarts
  BY <1>9 DEF OverrideOwned, CoreRestarts
<1>10. ASSUME NEW l \in Launchers,
              UserOpens(l) \/ LauncherStep(l) \/ LauncherDies(l)
      PROVE  OverrideOwned'
  <2>1. CASE UserOpens(l)
    BY <2>1 DEF OverrideOwned, UserOpens, Goto
  <2>2. CASE LookForRequest(l)
    BY <2>2 DEF OverrideOwned, LookForRequest, Goto
  <2>3. CASE ReadRequest(l)
    BY <2>3 DEF OverrideOwned, ReadRequest
  <2>4. CASE RemoveRequest(l)
    BY <2>4 DEF OverrideOwned, RemoveRequest, Goto
  <2>5. CASE ReportLaunching(l)
    BY <2>5 DEF OverrideOwned, ReportLaunching, Report, Goto
  <2>6. CASE AskForLaunch(l)
    BY <2>6 DEF OverrideOwned, AskForLaunch, Goto, Terminal
  <2>7. CASE ReportOutcome(l)
    BY <2>7 DEF OverrideOwned, ReportOutcome, Report, Terminal
  <2>8. CASE LauncherDies(l)
    BY <2>8 DEF OverrideOwned, LauncherDies
  <2> QED
    BY <1>10, <2>1, <2>2, <2>3, <2>4, <2>5, <2>6, <2>7, <2>8 DEF
       LauncherStep
<1>11. CASE UNCHANGED vars
  BY <1>11 DEF OverrideOwned, vars
<1> QED
  BY <1>1, <1>2, <1>3, <1>4, <1>5, <1>6, <1>7, <1>8, <1>9, <1>10, <1>11 DEF
     Next, CoreStep

\* Whenever anything is in Album's slot, core is about to remove it or launch
\* it, or the slot is orphaned: by a restart of core, or by a copy or a removal
\* that failed.
THEOREM SlotIsOwned == Spec => []OverrideOwned
<1>1. Init => OverrideOwned
  BY DEF Init, OverrideOwned
<1> QED
  BY <1>1, OwnedStep, PTL DEF Spec

-----------------------------------------------------------------------------
(* Liveness.                                                               *)

\* Nobody but core can take this out of the slot, and core stands at p.
Left(p) == override # NoFiles /\ ~orphaned /\ pc = p

Restored == override = NoFiles \/ orphaned \/ pc = "clear"

\* What is in the slot, and what core knows of it, is no launcher's to change.
LEMMA LaunchersLeaveSlot ==
  ASSUME NEW l \in Launchers, UserOpens(l) \/ LauncherStep(l) \/ LauncherDies(l)
  PROVE  UNCHANGED <<coreVars, override, orphaned>>
BY DEF UserOpens, LauncherStep, LauncherDies, LookForRequest, ReadRequest,
   RemoveRequest, ReportLaunching, AskForLaunch, ReportOutcome

\* Whoever moves, while core is within request_launch_via_album() only core
\* itself changes what is left, unless it restarts.
LEMMA OthersLeaveIt ==
  ASSUME NEW p, Left(p), p \notin {"idle", "clear"}, [Next]_vars
  PROVE  <<CoreStep>>_vars \/ Left(p)' \/ Restored'
<1> USE DEF Left, Restored, coreVars
<1>1. CASE HandleClient \/ \E t \in Titles : LaunchRequested(t)
  BY <1>1 DEF HandleClient, LaunchRequested
<1>2. CASE TimePasses \/ CoreRestarts
  BY <1>2 DEF TimePasses, CoreRestarts
<1>3. CASE \E l \in Launchers :
             UserOpens(l) \/ LauncherStep(l) \/ LauncherDies(l)
  BY <1>3, LaunchersLeaveSlot
<1>4. CASE UNCHANGED vars
  BY <1>4 DEF vars
<1> QED
  BY <1>1, <1>2, <1>3, <1>4 DEF Next

\* Its own step leads on, or gives up.
LEMMA CallMovesOn ==
  /\ Left("open") /\ CoreStep => Left("write")' \/ Left("idle")'
  /\ Left("write") /\ CoreStep => Left("install")'
  /\ Left("install") /\ CoreStep =>
       Left("launch")' \/ Left("idle")' \/ Restored'
  /\ Left("launch") /\ CoreStep => Left("idle")' \/ Restored'
BY LaunchAlbumDoes DEF Left, Restored, CoreStep, ClearStatus, OpenRequest, WriteRequest,
   Install, LaunchAlbum

\* Between two requests core waits for the launcher, or for the time to be
\* over, and keeps waiting until the slot is restored.
LEMMA WaitMovesOn ==
  ASSUME OverrideOwned, Left("idle"), [Next]_vars
  PROVE  /\ Left("idle")' \/ Restored'
         /\ expired => expired' \/ Restored'
<1> USE DEF Left, Restored, coreVars
<1>1. active
  BY DEF OverrideOwned
<1>2. CASE HandleClient \/ \E t \in Titles : LaunchRequested(t)
  BY <1>1, <1>2, PollDoes DEF HandleClient, LaunchRequested
<1>3. CASE CoreStep
  BY <1>3 DEF CoreStep, ClearStatus, OpenRequest, WriteRequest, Install,
     LaunchAlbum
<1>4. CASE TimePasses \/ CoreRestarts
  BY <1>1, <1>4 DEF TimePasses, CoreRestarts
<1>5. CASE \E l \in Launchers :
             UserOpens(l) \/ LauncherStep(l) \/ LauncherDies(l)
  BY <1>1, <1>5, LaunchersLeaveSlot
<1>6. CASE UNCHANGED vars
  BY <1>1, <1>6 DEF vars
<1> QED
  BY <1>1, <1>2, <1>3, <1>4, <1>5, <1>6 DEF Next

\* As long as core is not stuck half way through a launch, the real Album
\* comes back, whatever becomes of the launcher: core's call ends, the time is
\* over, and the next request cleans up, unless it asks for another launch or a
\* file cannot be removed.
THEOREM AlbumComesBack == FairSpec /\ []LaunchGoesOn => AlbumRestored
<1> DEFINE Safe == TypeOK /\ OverrideOwned /\ LaunchGoesOn
           Gone == override # NoFiles
           Over == Left("idle") /\ expired
<1>1. Gone /\ Safe =>
        \/ Left("open") \/ Left("write") \/ Left("install")
        \/ Left("launch") \/ Left("idle") \/ Restored
  BY DEF TypeOK, Left, Restored
<1>2. Safe /\ (\/ Left("open") \/ Left("write") \/ Left("install")
               \/ Left("launch")) => ENABLED <<CoreStep>>_vars
  BY DEF Left, LaunchGoesOn
<1>3. Left("open") /\ [Next]_vars =>
        \/ Left("open")' /\ ~<<CoreStep>>_vars
        \/ Left("write")' \/ Left("idle")' \/ Restored'
  BY OthersLeaveIt, CallMovesOn DEF Left
<1>4. Left("write") /\ [Next]_vars =>
        (Left("write")' /\ ~<<CoreStep>>_vars) \/ Left("install")' \/ Restored'
  BY OthersLeaveIt, CallMovesOn DEF Left
<1>5. Left("install") /\ [Next]_vars =>
        \/ Left("install")' /\ ~<<CoreStep>>_vars
        \/ Left("launch")' \/ Left("idle")' \/ Restored'
  BY OthersLeaveIt, CallMovesOn DEF Left
<1>6. Left("launch") /\ [Next]_vars =>
        (Left("launch")' /\ ~<<CoreStep>>_vars) \/ Left("idle")' \/ Restored'
  BY OthersLeaveIt, CallMovesOn DEF Left
<1>7. Safe /\ Left("idle") /\ [Next]_vars => Left("idle")' \/ Restored'
  BY WaitMovesOn
<1>8. Safe /\ Left("idle") /\ ~expired => ENABLED <<TimePasses>>_vars
  BY DEF Left, OverrideOwned, LaunchGoesOn
<1>9. Safe /\ Left("idle") /\ <<TimePasses>>_vars => Over' \/ Restored'
  BY DEF Left, TimePasses
<1>10. Safe /\ Over => ENABLED <<HandleClient>>_vars
  BY DEF Left, OverrideOwned, LaunchGoesOn
<1>11. Safe /\ Over /\ [Next]_vars => Over' \/ Restored'
  BY WaitMovesOn
<1>12. Safe /\ Over /\ <<HandleClient>>_vars => Restored'
  BY PollDoes DEF Left, Restored, OverrideOwned, HandleClient
<1>13. Spec => []TypeOK /\ []OverrideOwned
  BY TypeCorrect, SlotIsOwned, PTL
<1>14. FairSpec /\ []LaunchGoesOn => (Gone ~> Restored)
  BY <1>1, <1>2, <1>3, <1>4, <1>5, <1>6, <1>7, <1>8, <1>9, <1>10, <1>11,
     <1>12, <1>13, PTL DEF FairSpec, Fairness, Spec
<1> QED
  BY <1>14 DEF AlbumRestored, Restored

-----------------------------------------------------------------------------
(* What AlbumAlwaysRestored lacks.                                         *)

\* core takes the launcher out of the slot: it forgets about it, or the launch
\* of Album has failed.
Uninstalling == (active /\ ~active') \/ (pc = "launch" /\ title' = None)

\* Neither a restart of core nor a copy or a removal that fails comes in between.
Undisturbed ==
  /\ CoreRestarts => override = NoFiles
  /\ Install => pc' = "launch"
  /\ Uninstalling => override' = NoFiles

\* The real Album comes back in every behaviour in which core is restarted only
\* while nothing is in Album's slot and no copy into it and no removal from it
\* fails.
THEOREM AlbumComesBackUndisturbed ==
  FairSpec /\ []LaunchGoesOn /\ [][Undisturbed]_vars => AlbumAlwaysRestored
<1>1. Init => ~orphaned
  BY DEF Init
<1>2. ~orphaned /\ [Next]_vars /\ [Undisturbed]_vars => ~orphaned'
  <2> SUFFICES ASSUME ~orphaned, [Next]_vars, [Undisturbed]_vars
               PROVE  ~orphaned'
    OBVIOUS
  <2> USE DEF coreVars
  <2>1. CASE HandleClient \/ (\E t \in Titles : LaunchRequested(t))
               \/ ClearStatus
    <3>1. UNCHANGED orphaned
            \/ (active /\ ~active' /\ (orphaned' <=> override' # NoFiles))
      BY <2>1, PollDoes DEF HandleClient, LaunchRequested, ClearStatus
    <3>2. active /\ ~active' => Undisturbed
      BY DEF vars
    <3> QED
      BY <3>1, <3>2 DEF Undisturbed, Uninstalling
  <2>2. CASE OpenRequest \/ WriteRequest \/ TimePasses
    BY <2>2 DEF OpenRequest, WriteRequest, TimePasses
  <2>7. CASE LaunchAlbum
    <3>1. /\ pc = "launch" /\ pc # pc'
          /\ UNCHANGED orphaned
               \/ (title' = None /\ (orphaned' => override' # NoFiles))
      BY <2>7, LaunchAlbumDoes
    <3>2. pc # pc' => Undisturbed
      BY DEF vars
    <3> QED
      BY <3>1, <3>2 DEF Undisturbed, Uninstalling
  <2>3. CASE UNCHANGED vars
    BY <2>3 DEF vars
  <2>4. CASE Install /\ Undisturbed
    BY <2>4 DEF Install, Undisturbed
  <2>5. CASE CoreRestarts /\ Undisturbed
    BY <2>5 DEF CoreRestarts, Undisturbed
  <2>6. CASE \E l \in Launchers :
               UserOpens(l) \/ LauncherStep(l) \/ LauncherDies(l)
    BY <2>6, LaunchersLeaveSlot
  <2> QED
    BY <2>1, <2>2, <2>3, <2>4, <2>5, <2>6, <2>7 DEF Next, CoreStep
<1>3. FairSpec /\ []LaunchGoesOn =>
        ((override # NoFiles) ~> (override = NoFiles \/ orphaned \/ pc = "clear"))
  BY AlbumComesBack DEF AlbumRestored
<1> QED
  BY <1>1, <1>2, <1>3, PTL DEF FairSpec, Spec, AlbumAlwaysRestored

\* core has forgotten an orphaned slot altogether.
OrphanForgotten == orphaned => ~active /\ override # NoFiles /\ pc # "launch"

\* It is left as it is.
OrphanKept == orphaned => orphaned' /\ override' = override

\* Whatever core does but to install the launcher anew, it does not touch it.
LEMMA OrphanStep ==
  ASSUME OrphanForgotten, [Next]_vars
  PROVE  OrphanForgotten' /\ (OrphanKept \/ Install)
<1> USE DEF OrphanForgotten, OrphanKept, coreVars
<1>1. CASE HandleClient \/ (\E t \in Titles : LaunchRequested(t)) \/ ClearStatus
  BY <1>1, PollDoes DEF HandleClient, LaunchRequested, ClearStatus
<1>2. CASE OpenRequest \/ WriteRequest
  BY <1>2 DEF OpenRequest, WriteRequest
<1>3. CASE Install
  BY <1>3 DEF Install
<1>4. CASE LaunchAlbum \/ TimePasses
  BY <1>4, LaunchAlbumDoes DEF TimePasses
<1>5. CASE CoreRestarts
  BY <1>5 DEF CoreRestarts
<1>6. CASE \E l \in Launchers :
             UserOpens(l) \/ LauncherStep(l) \/ LauncherDies(l)
  BY <1>6, LaunchersLeaveSlot
<1>7. CASE UNCHANGED vars
  BY <1>7 DEF vars
<1> QED
  BY <1>1, <1>2, <1>3, <1>4, <1>5, <1>6, <1>7 DEF Next, CoreStep

\* Once a restart, or a copy or a removal that failed, has orphaned the slot,
\* nothing takes the launcher out of it: no timeout, no status and no further
\* restart, only the next launch that installs it again.
THEOREM OrphanStays == Spec => [][OrphanKept \/ Install]_vars
<1>1. Init => OrphanForgotten
  BY DEF Init, OrphanForgotten
<1>2. OrphanForgotten /\ [Next]_vars =>
        OrphanForgotten' /\ [OrphanKept \/ Install]_vars
  BY OrphanStep
<1> QED
  BY <1>1, <1>2, PTL DEF Spec

-----------------------------------------------------------------------------
(* What StatusOfLastLaunch lacks.                                          *)

\* The status of an earlier launch goes when core removes it.
Cleared == ClearStatus => status' = None

\* While core hands a title over, no launcher is about with another one.
Alone == pc # "idle" => \A l \in Launchers : launcher[l].title \in {None, title}

\* From the moment the request is written until the next one begins it names
\* the title of the launch, and so do the launchers; the status does so from the
\* moment it is cleared.
HandedOver == pc \in {"install", "launch"} \/ (pc = "idle" /\ title # None)

IndStatus ==
  /\ (pc \in {"open", "write"} \/ HandedOver) /\ status # None =>
       status.title \in {title, None}
  /\ pc = "write" => request \in {Empty, None}
  /\ HandedOver => /\ request \in {title, None, Empty}
                   /\ \A l \in Launchers : launcher[l].title \in {None, title}

LEMMA StatusStep ==
  ASSUME TypeOK, IndStatus, Alone, Alone', [Next]_vars, [Cleared]_vars
  PROVE  IndStatus'
<1> USE DEF IndStatus, HandedOver, Alone, coreVars, AfterRemove
<1>1. CASE HandleClient
  BY <1>1 DEF HandleClient
<1>2. CASE \E t \in Titles : LaunchRequested(t)
  BY <1>2 DEF LaunchRequested
<1>3. CASE ClearStatus
  BY <1>3 DEF ClearStatus, Cleared, vars
<1>4. CASE OpenRequest
  BY <1>4 DEF OpenRequest
<1>5. CASE WriteRequest
  BY <1>5 DEF WriteRequest
<1>6. CASE Install
  BY <1>6 DEF Install
<1>7. CASE LaunchAlbum
  BY <1>7 DEF LaunchAlbum, Launchers, TypeOK
<1>8. CASE TimePasses
  BY <1>8 DEF TimePasses
<1>9. CASE CoreRestarts
  BY <1>9 DEF CoreRestarts
<1>10. ASSUME NEW l \in Launchers,
              UserOpens(l) \/ LauncherStep(l) \/ LauncherDies(l)
       PROVE  IndStatus'
  <2> USE DEF TypeOK
  <2>1. CASE UserOpens(l)
    BY <2>1 DEF UserOpens, Goto
  <2>2. CASE LookForRequest(l)
    BY <2>2 DEF LookForRequest, Goto, NotRunning
  <2>3. CASE ReadRequest(l)
    BY <2>3 DEF ReadRequest, NotRunning
  <2>4. CASE RemoveRequest(l)
    BY <2>4 DEF RemoveRequest, Goto
  <2>5. CASE ReportLaunching(l)
    BY <2>5 DEF ReportLaunching, Report, Goto
  <2>6. CASE AskForLaunch(l)
    BY <2>6 DEF AskForLaunch, Goto
  <2>7. CASE ReportOutcome(l)
    BY <2>7 DEF ReportOutcome, Report, NotRunning
  <2>8. CASE LauncherDies(l)
    BY <2>8 DEF LauncherDies, NotRunning
  <2> QED
    BY <1>10, <2>1, <2>2, <2>3, <2>4, <2>5, <2>6, <2>7, <2>8 DEF LauncherStep
<1>11. CASE UNCHANGED vars
  BY <1>11 DEF vars
<1> QED
  BY <1>1, <1>2, <1>3, <1>4, <1>5, <1>6, <1>7, <1>8, <1>9, <1>10, <1>11
     DEF Next, CoreStep

\* GET /launch_status speaks of the last launch in every behaviour in which no
\* launcher is still about with an earlier title while core hands the next one
\* over, and in which the earlier status can be removed: nothing but a launcher
\* that is late, or that remove(), makes it name another.
THEOREM StatusUnlessLate ==
  Spec /\ []Alone /\ [][Cleared]_vars => []StatusOfLastLaunch
<1>1. Init => IndStatus
  BY DEF Init, IndStatus, HandedOver
<1>2. IndStatus => StatusOfLastLaunch
  BY DEF IndStatus, HandedOver, StatusOfLastLaunch
<1>3. TypeOK /\ IndStatus /\ Alone /\ Alone' /\ [Next]_vars /\ [Cleared]_vars
        => IndStatus'
  BY StatusStep
<1> QED
  BY <1>1, <1>2, <1>3, TypeCorrect, PTL DEF Spec
=============================================================================
