---------------------------- MODULE Home_proofs ----------------------------
(***************************************************************************)
(* Home implements both of its parts, for any tokens and ports: what is    *)
(* proved of Coordinator and of Settings alone holds of the two together.  *)
(***************************************************************************)
EXTENDS Home, Coordinator_proofs

\* Whatever the console answers, the integration does what Coordinator says.
LEMMA CoordinatorStep == [HomeNext]_homeVars => [Next]_coordVars
<1> SUFFICES ASSUME HomeNext PROVE [Next]_coordVars
  BY DEF homeVars
<1> USE DEF Next
<1>1. CASE ServeInfo
  BY <1>1 DEF ServeInfo
<1>2. CASE ServeAuthorised
  BY <1>2 DEF ServeAuthorised, Serve
<1>3. CASE ReloadForToken
  BY <1>3 DEF ReloadForToken
<1>4. CASE AnswerAfterReload
  BY <1>4 DEF AnswerAfterReload, Serve
<1>5. CASE Refresh
  BY <1>5 DEF Refresh
<1>6. CASE RefreshFails
  BY <1>6 DEF RefreshFails
<1>7. CASE SetUp
  BY <1>7 DEF SetUp
<1>8. CASE ConsoleStep
  BY <1>8 DEF ConsoleStep
<1> QED
  BY <1>1, <1>2, <1>3, <1>4, <1>5, <1>6, <1>7, <1>8 DEF HomeNext

\* Whatever the integration asks, the console does what Settings says.
LEMMA ConsoleStepOfSettings == [HomeNext]_homeVars => [S!Next]_settingsVars
<1> SUFFICES ASSUME HomeNext PROVE [S!Next]_settingsVars
  BY DEF homeVars
<1>1. CASE ServeInfo
  BY <1>1 DEF ServeInfo, consoleVars
<1>2. CASE ServeAuthorised
  BY <1>2 DEF ServeAuthorised, consoleVars
<1>3. CASE ReloadForToken
  BY <1>3 DEF ReloadForToken, S!Next
<1>4. CASE AnswerAfterReload
  BY <1>4 DEF AnswerAfterReload
<1>5. CASE Refresh
  BY <1>5 DEF Refresh, consoleVars
<1>6. CASE RefreshFails
  BY <1>6 DEF RefreshFails, consoleVars
<1>7. CASE SetUp
  BY <1>7 DEF SetUp
<1>8. CASE ConsoleStep
  BY <1>8 DEF ConsoleStep
<1> QED
  BY <1>1, <1>2, <1>3, <1>4, <1>5, <1>6, <1>7, <1>8 DEF HomeNext

\* The integration keeps to Coordinator.
THEOREM ImplementsCoordinator == HomeSpec => Spec
BY CoordinatorStep, PTL DEF HomeSpec, HomeInit, Spec

\* The console keeps to Settings: core, which loads settings.json whenever the
\* integration sends a token it does not know, does nothing that could upset
\* what Settings_proofs shows of its processes.
THEOREM ImplementsSettings == HomeSpec => S!Spec
<1>1. [S!Next]_settingsVars <=> [S!Next]_(S!vars)
  BY DEF S!vars, settingsVars
<1> QED
  BY <1>1, ConsoleStepOfSettings, PTL DEF HomeSpec, HomeInit, S!Spec

-----------------------------------------------------------------------------
(* What is proved of the console alone.                                    *)

\* The proofs about Settings, of the console here.
SP == INSTANCE Settings_proofs

\* What they assume of the constants is what Home assumes.
LEMMA SettingsConstants == SP!ConstantsAssumption
BY HomeAssumption DEF S!ConstantsAssumption, SP!ConstantsAssumption,
   S!Config, SP!Config

\* The console of both instances is the same.
LEMMA SameSteps ==
  /\ \A p \in S!Procs : S!ProcStep(p) => SP!ProcStep(p)
  /\ \A p \in S!Procs : S!SdFault(p) => SP!SdFault(p)
  /\ \A p \in S!Procs : S!ProcessEnds(p) => SP!ProcessEnds(p)
  /\ S!LaunchCore => SP!LaunchCore
  /\ S!CoreListens => SP!CoreListens
  /\ S!CoreRelistens => SP!CoreRelistens
  /\ S!CoreReloads => SP!CoreReloads
  /\ S!OpenApp => SP!OpenApp
  /\ S!DailyCheck => SP!DailyCheck
  /\ S!Reset => SP!Reset
  /\ S!UserEdits => SP!UserEdits
  /\ S!Reboot => SP!Reboot
<1> USE DEF S!Procs, SP!Procs, S!Fresh, SP!Fresh, S!Goto, SP!Goto, S!Return,
    SP!Return, S!Parsed, SP!Parsed, S!GenerateDefaultConfig,
    SP!GenerateDefaultConfig, S!Config, SP!Config
<1>1. \A p \in S!Procs : S!ProcStep(p) => SP!ProcStep(p)
  BY DEF S!ProcStep, SP!ProcStep, S!Load, SP!Load, S!LoadMissing,
     SP!LoadMissing, S!NewConfig, SP!NewConfig, S!Truncate, SP!Truncate,
     S!Write, SP!Write
<1>2. \A p \in S!Procs : S!SdFault(p) => SP!SdFault(p)
  BY DEF S!SdFault, SP!SdFault, S!LoadFails, SP!LoadFails, S!SaveFails,
     SP!SaveFails, S!NewConfig, SP!NewConfig
<1>3. \A p \in S!Procs : S!ProcessEnds(p) => SP!ProcessEnds(p)
  BY DEF S!ProcessEnds, SP!ProcessEnds
<1>4. /\ S!LaunchCore => SP!LaunchCore
      /\ S!CoreListens => SP!CoreListens
      /\ S!CoreRelistens => SP!CoreRelistens
      /\ S!CoreReloads => SP!CoreReloads
  BY DEF S!LaunchCore, SP!LaunchCore, S!CoreListens, SP!CoreListens,
     S!CoreRelistens, SP!CoreRelistens, S!CoreReloads, SP!CoreReloads
<1>5. /\ S!OpenApp => SP!OpenApp
      /\ S!DailyCheck => SP!DailyCheck
      /\ S!Reset => SP!Reset
  BY DEF S!OpenApp, SP!OpenApp, S!DailyCheck, SP!DailyCheck, S!Reset,
     SP!Reset
<1>6. /\ S!UserEdits => SP!UserEdits
      /\ S!Reboot => SP!Reboot
  BY DEF S!UserEdits, SP!UserEdits, S!Reboot, SP!Reboot, S!Boot, SP!Boot
<1> QED
  BY <1>1, <1>2, <1>3, <1>4, <1>5, <1>6

LEMMA SameConsole == S!Spec => SP!Spec
<1>1. S!Init => SP!Init
  BY DEF S!Init, SP!Init, S!Procs, SP!Procs, S!Fresh, SP!Fresh
<1>2. [S!Next]_(S!vars) => [SP!Next]_(SP!vars)
  BY SameSteps DEF S!Next, SP!Next, S!vars, SP!vars, S!Procs, SP!Procs
<1> QED
  BY <1>1, <1>2, PTL DEF S!Spec, SP!Spec

\* The types of the console's state.
LEMMA ConsoleTypes == HomeSpec => []S!TypeOK
<1>1. SP!Spec => []SP!TypeOK
  BY SettingsConstants, SP!TypeCorrect
<1>2. SP!TypeOK => S!TypeOK
  BY DEF S!TypeOK, SP!TypeOK, S!Procs, SP!Procs, S!Config, SP!Config,
     S!Points, SP!Points
<1> QED
  BY <1>1, <1>2, ImplementsSettings, SameConsole, PTL

\* The integration, whose wrong tokens make core load settings.json again and
\* again, never makes the processes disagree: as long as only the orchestrator
\* and core have written the file, all hold what it says.
THEOREM HomeBootAgrees == HomeSpec => []S!BootAgrees
<1>1. SP!Spec => []SP!BootAgrees
  BY SettingsConstants, SP!BootAgreesAlways
<1>2. SP!BootAgrees => S!BootAgrees
  BY DEF S!BootAgrees, SP!BootAgrees, S!Procs, SP!Procs, S!Loaded, SP!Loaded
<1> QED
  BY <1>1, <1>2, ImplementsSettings, SameConsole, PTL

\* Nor does it ever meet a core that has no token and would take an empty one.
THEOREM HomeHasToken == HomeSpec => []S!NobodyWithoutToken
<1>1. SP!Spec => []SP!NobodyWithoutToken
  BY SettingsConstants, SP!NobodyWithoutTokenAlways
<1>2. SP!NobodyWithoutToken => S!NobodyWithoutToken
  BY DEF S!NobodyWithoutToken, SP!NobodyWithoutToken, S!Procs, SP!Procs,
     S!Loaded, SP!Loaded
<1> QED
  BY <1>1, <1>2, ImplementsSettings, SameConsole, PTL

-----------------------------------------------------------------------------
(* The two together.                                                       *)

\* Every variable of both parts keeps its type.
THEOREM HomeTypeCorrect == HomeSpec => []HomeTypeOK
<1> DEFINE Own == TypeOK /\ entry \in Entries /\ asking \in BOOLEAN
<1>1. HomeInit => Own
  BY NoneAssumption DEF HomeInit, Init, TypeOK, Console
<1>2. Own /\ [HomeNext]_homeVars => Own'
  <2> SUFFICES ASSUME Own, [HomeNext]_homeVars PROVE Own'
    OBVIOUS
  <2>1. TypeOK'
    BY CoordinatorStep, TypesStep
  <2>2. entry' \in Entries /\ asking' \in BOOLEAN
    BY DEF HomeNext, homeVars, consoleVars, ServeInfo, ServeAuthorised,
       ReloadForToken, AnswerAfterReload, Refresh, RefreshFails, SetUp,
       ConsoleStep
  <2> QED
    BY <2>1, <2>2
<1>3. Own /\ S!TypeOK => HomeTypeOK
  BY DEF HomeTypeOK
<1> QED
  BY <1>1, <1>2, <1>3, ConsoleTypes, PTL DEF HomeSpec

\* What the entities show is right with a real console behind them.
THEOREM HomeModeShown == HomeSpec => []ModeShown
BY ImplementsCoordinator, ModeShownAlways, PTL

\* A console out of reach never takes the entities away.
THEOREM HomeKeptAvailable == HomeSpec => []KeptAvailable
BY ImplementsCoordinator, KeptAvailableAlways, PTL

-----------------------------------------------------------------------------
(* Liveness.                                                               *)

\* A step with which nobody meddles.
HomeQuiet ==
  \/ ServeInfo \/ ServeAuthorised \/ ReloadForToken \/ AnswerAfterReload
  \/ Refresh \/ (ConsoleStep /\ SP!Quiet)

LEMMA HomeQuietSteps ==
  [HomeNext]_homeVars /\ ~<<HomeDisturbance>>_homeVars => [HomeQuiet]_homeVars
<1>1. ASSUME ConsoleStep, ~S!Disturbance PROVE SP!Quiet
  BY <1>1, SameSteps DEF ConsoleStep, S!Next, S!Disturbance, SP!Quiet,
     S!Procs, SP!Procs
<1> QED
  BY <1>1 DEF HomeNext, HomeDisturbance, HomeQuiet

\* What holds throughout.
HomeInv ==
  /\ SP!Inv /\ TypeOK /\ entry \in Entries /\ asking \in BOOLEAN
  /\ asking => at["core"] # "off"

LEMMA HomeInvariant == HomeSpec => []HomeInv
<1> DEFINE Busy == asking \in BOOLEAN /\ (asking => at["core"] # "off")
<1>1. HomeInit => Busy
  BY DEF HomeInit
<1>2. HomeTypeOK /\ Busy /\ [HomeNext]_homeVars => Busy'
  <2> SUFFICES ASSUME HomeTypeOK, Busy, [HomeNext]_homeVars PROVE Busy'
    OBVIOUS
  <2>1. CASE ServeInfo \/ ServeAuthorised \/ Refresh \/ RefreshFails
    BY <2>1 DEF ServeInfo, ServeAuthorised, Refresh, RefreshFails,
       consoleVars, settingsVars
  <2>2. CASE ReloadForToken
    BY <2>2 DEF ReloadForToken, S!CoreReloads, S!Goto, HomeTypeOK, S!TypeOK,
       S!Procs
  <2>3. CASE AnswerAfterReload
    BY <2>3 DEF AnswerAfterReload
  <2>4. CASE SetUp \/ UNCHANGED homeVars
    BY <2>4 DEF SetUp, homeVars, settingsVars
  <2>5. CASE ConsoleStep
    BY <2>5 DEF ConsoleStep
  <2> QED
    BY <2>1, <2>2, <2>3, <2>4, <2>5 DEF HomeNext
<1>3. SP!Spec => []SP!Inv
  BY SettingsConstants, SP!Invariant
<1>4. HomeTypeOK /\ Busy /\ SP!Inv => HomeInv
  BY DEF HomeTypeOK, HomeInv
<1> QED
  BY <1>1, <1>2, <1>3, <1>4, HomeTypeCorrect, ImplementsSettings,
     SameConsole, PTL DEF HomeSpec

\* From some time on nobody meddles, and everybody goes on.
HomeCalm ==
  []HomeInv /\ []HomeGoesOn /\ [][HomeQuiet]_homeVars /\ HomeFairness

\* Calm lasts.
LEMMA CalmLasts ==
  /\ HomeCalm => []HomeCalm
  /\ HomeFairness => []HomeFairness
<1>1. RefreshFairness => []RefreshFairness
  BY PTL DEF RefreshFairness
<1>2. ConsoleFairness => []ConsoleFairness
  BY PTL DEF ConsoleFairness
<1>3. HomeFairness => []HomeFairness
  BY <1>1, <1>2, PTL DEF HomeFairness
<1>4. HomeCalm => []HomeCalm
  BY <1>3, PTL DEF HomeCalm
<1> QED
  BY <1>3, <1>4

\* The console sees nothing but quiet steps of its own.
LEMMA ConsoleQuiet == [HomeQuiet]_homeVars => [SP!Quiet]_(SP!vars)
<1>1. ReloadForToken => SP!Quiet
  BY SameSteps DEF ReloadForToken, SP!Quiet
<1> QED
  BY <1>1 DEF HomeQuiet, homeVars, SP!vars, ServeInfo, ServeAuthorised,
     AnswerAfterReload, Refresh, consoleVars, settingsVars

\* A step of a process is one that its own model knows.
LEMMA OwnStepOfHome ==
  ASSUME SP!Inv, NEW p \in S!Procs,
         <<ConsoleStep /\ S!ProcStep(p)>>_homeVars
  PROVE  <<SP!ProcStep(p)>>_(SP!vars)
<1>1. SP!ProcStep(p) /\ p \in SP!Procs
  BY SameSteps DEF S!Procs, SP!Procs
<1>2. at'[p] # at[p] \/ then'[p] # then[p]
  BY <1>1, SettingsConstants, SP!OwnStep
<1> QED
  BY <1>1, <1>2 DEF SP!vars

\* The orchestrator's only load() ends.
LEMMA HomeOrchestratorEnds == HomeCalm => <>[](at["orchestrator"] = "up")
<1> DEFINE o == "orchestrator"
           Up == at["orchestrator"] = "up"
           Begun == SP!Is(o, "load", "up") \/ SP!Is(o, "truncate", "up")
                      \/ SP!Is(o, "write", "up")
<1>1. HomeInv => Begun \/ Up
  BY DEF HomeInv, SP!Inv, SP!TypeOK, SP!Places, SP!Is, SP!Procs, SP!Points
<1>2. HomeInv /\ [HomeQuiet]_homeVars => SP!Moves(o, "up")
  BY ConsoleQuiet, SettingsConstants, SP!BusyMoves DEF HomeInv, SP!Procs
<1>3. HomeInv /\ <<ConsoleStep /\ S!ProcStep(o)>>_homeVars
        => <<SP!ProcStep(o)>>_(SP!vars)
  BY OwnStepOfHome DEF HomeInv, S!Procs
<1>4. SP!Ended(o, "up") => Up
  BY DEF SP!Ended
<1>5. HomeGoesOn /\ Begun => ENABLED <<ConsoleStep /\ S!ProcStep(o)>>_homeVars
  BY DEF HomeGoesOn, GoesOn, SP!Is
<1>6. HomeInv /\ Up /\ [HomeQuiet]_homeVars => Up'
  BY ConsoleQuiet, SettingsConstants, SP!OthersStandStill, SP!OwnStep
     DEF HomeInv, SP!Procs
<1> QED
  BY <1>1, <1>2, <1>3, <1>4, <1>5, <1>6, PTL
     DEF HomeCalm, HomeFairness, ConsoleFairness, SP!Moves

\* So does what the companion app has begun, and nobody opens or resets it.
LEMMA HomeCompanionEnds == HomeCalm => <>[](~SP!Busy("companion"))
<1> DEFINE c == "companion"
           Begun(t) == SP!Is(c, "load", t) \/ SP!Is(c, "truncate", t)
                         \/ SP!Is(c, "write", t)
           Checks == SP!Ended(c, "check")
           Idle   == at["companion"] \in {"off", "up"}
<1>1. HomeInv => \/ Begun("load") \/ Begun("check") \/ Begun("up")
                 \/ Checks \/ Idle
  BY DEF HomeInv, SP!Inv, SP!TypeOK, SP!Places, SP!Is, SP!Ended, SP!Procs,
     SP!Points
<1>2. HomeInv /\ [HomeQuiet]_homeVars =>
        SP!Moves(c, "load") /\ SP!Moves(c, "check") /\ SP!Moves(c, "up")
  BY ConsoleQuiet, SettingsConstants, SP!BusyMoves DEF HomeInv, SP!Procs
<1>3. HomeInv /\ <<ConsoleStep /\ S!ProcStep(c)>>_homeVars
        => <<SP!ProcStep(c)>>_(SP!vars)
  BY OwnStepOfHome DEF HomeInv, S!Procs
<1>4. /\ SP!Ended(c, "load") => SP!Is(c, "load", "up")
      /\ SP!Ended(c, "up") => Idle
  BY DEF SP!Ended, SP!Is
<1>5. HomeGoesOn /\ (Begun("load") \/ Begun("check") \/ Begun("up"))
        => ENABLED <<ConsoleStep /\ S!ProcStep(c)>>_homeVars
  BY DEF HomeGoesOn, GoesOn, SP!Is
<1>6. HomeInv /\ Checks /\ [HomeQuiet]_homeVars =>
        Checks' \/ SP!Is(c, "truncate", "up")' \/ Idle'
  BY ConsoleQuiet, SettingsConstants, SP!OthersStandStill, SP!OwnStep
     DEF HomeInv, SP!Inv, SP!TypeOK, SP!Procs, SP!Ended, SP!Is,
         SP!DailyCheck, SP!Goto
<1>7. HomeInv /\ Idle /\ [HomeQuiet]_homeVars => Idle'
  BY ConsoleQuiet, SettingsConstants, SP!OthersStandStill, SP!OwnStep
     DEF HomeInv, SP!Procs, SP!DailyCheck
<1>8. Checks \/ Idle => ~SP!Busy("companion")
  BY DEF SP!Ended, SP!Busy
<1> QED
  BY <1>1, <1>2, <1>3, <1>4, <1>5, <1>6, <1>7, <1>8, PTL
     DEF HomeCalm, HomeFairness, ConsoleFairness, SP!Moves

\* core has what the file holds, or the file was left empty; core is not in
\* load() or save().
Known == SP!Learnt \/ SP!LeftTorn
AtUp  == at["core"] = "up"

\* A quiet step with nobody but core at the file.
Still == HomeInv /\ SP!Settled /\ [HomeQuiet]_homeVars

\* core comes to have what the file holds, or never looks into it again.
LEMMA HomeCoreEnds ==
  HomeCalm /\ []SP!Settled => <>[]Known \/ <>[]AtUp
<1> DEFINE At(a) == at["core"] = a
           own   == "core"
<1>1. HomeInv => \/ At("off") \/ At("load") \/ At("truncate") \/ At("write")
                 \/ AtUp
  BY DEF HomeInv, SP!Inv, SP!TypeOK, SP!Places, SP!Procs, SP!Points, AtUp
<1> USE SettingsConstants, ConsoleQuiet, SP!OthersStandStill, SP!OwnStep
    DEF Still, HomeInv
<1>2. Still /\ At("off") => At("off")' \/ At("load")'
  BY DEF SP!Inv, SP!TypeOK, SP!Procs, SP!LaunchCore, SP!CoreReloads, SP!Goto
<1>3. HomeInv /\ <<ConsoleStep /\ S!LaunchCore>>_homeVars => At("load")'
  BY SameSteps DEF SP!Inv, SP!TypeOK, SP!Procs, SP!LaunchCore, SP!Goto
<1>4. Still /\ AtUp => AtUp' \/ At("load")'
  BY DEF SP!Inv, SP!TypeOK, SP!Procs, SP!LaunchCore, SP!CoreReloads,
     SP!Goto, AtUp
<1>5. Still /\ At("load") =>
        \/ At("load")' /\ ~<<SP!ProcStep(own)>>_(SP!vars)
        \/ At("truncate")' \/ Known'
  BY SP!CoreSaves DEF SP!Procs, SP!LaunchCore, SP!CoreReloads, Known
<1>6. Still /\ At("truncate") =>
        (At("truncate")' /\ ~<<SP!ProcStep(own)>>_(SP!vars)) \/ At("write")'
  BY DEF SP!Procs, SP!LaunchCore, SP!CoreReloads
<1>7. Still /\ At("write") =>
        (At("write")' /\ ~<<SP!ProcStep(own)>>_(SP!vars)) \/ Known'
  BY SP!CoreSaves DEF SP!Procs, SP!LaunchCore, SP!CoreReloads, Known
<1>8. Still /\ Known => Known'
  BY SP!NothingNew DEF Known
<1>9. HomeInv /\ <<ConsoleStep /\ S!ProcStep(own)>>_homeVars
        => <<SP!ProcStep(own)>>_(SP!vars)
  BY OwnStepOfHome DEF S!Procs
<1>10. /\ HomeGoesOn /\ (At("load") \/ At("truncate") \/ At("write"))
            => ENABLED <<ConsoleStep /\ S!ProcStep(own)>>_homeVars
       /\ HomeGoesOn /\ SP!Settled /\ At("off")
            => ENABLED <<ConsoleStep /\ S!LaunchCore>>_homeVars
  BY DEF HomeGoesOn, GoesOn, SP!Settled
<1> QED
  BY <1>1, <1>2, <1>3, <1>4, <1>5, <1>6, <1>7, <1>8, <1>9, <1>10, PTL
     DEF HomeCalm, HomeFairness, ConsoleFairness, Still

\* The socket has the port that core holds.
PortTaken == bound = mem["core"].port

\* What core and the file hold no longer changes.
Kept == file' = file /\ mem'["core"] = mem["core"]

LEMMA KeptThen ==
  /\ Still /\ Known => Known' /\ Kept
  /\ Still /\ AtUp /\ AtUp' => Kept
<1>1. ASSUME Still, Known PROVE Known' /\ Kept
  BY <1>1, ConsoleQuiet, SettingsConstants, SP!NothingNew
     DEF Still, HomeInv, Known, Kept
<1>2. ASSUME Still, AtUp, AtUp' PROVE Kept
  <2>1. ~SP!ProcStep("core")
    BY <1>2 DEF AtUp, SP!ProcStep, SP!Load, SP!LoadMissing, SP!NewConfig,
       SP!Truncate, SP!Write
  <2>2. ~SP!LaunchCore
    BY <1>2 DEF AtUp, SP!LaunchCore
  <2> QED
    BY <1>2, <2>1, <2>2, ConsoleQuiet, SettingsConstants, SP!SettledSteps
       DEF Still, HomeInv, Kept
<1> QED
  BY <1>1, <1>2

\* The socket keeps its port or takes core's.
LEMMA SocketSteps ==
  ASSUME [SP!Quiet]_(SP!vars)
  PROVE  bound' = bound \/ bound' = mem["core"].port
BY DEF SP!Quiet, SP!vars, SP!ProcStep, SP!Load, SP!LoadMissing,
   SP!NewConfig, SP!Truncate, SP!Write, SP!LaunchCore, SP!CoreListens,
   SP!CoreRelistens, SP!CoreReloads, SP!DailyCheck

\* The entry of Home Assistant fits the console for good, or never again.
LEMMA FitsForGood ==
  HomeCalm /\ []SP!Settled /\ (<>[]Known \/ <>[]AtUp)
    => <>[]EntryFits \/ <>[]~EntryFits
<1> DEFINE Freezes == /\ PortTaken => PortTaken'
                      /\ PortTaken \/ ~PortTaken' => (EntryFits <=> EntryFits')
<1>1. [HomeQuiet]_homeVars => entry' = entry
  BY DEF HomeQuiet, homeVars, consoleVars, ServeInfo, ServeAuthorised,
     ReloadForToken, AnswerAfterReload, Refresh, ConsoleStep
<1>2. Still /\ Kept => Freezes
  BY <1>1, ConsoleQuiet, SocketSteps
     DEF Still, Kept, PortTaken, EntryFits
<1>3. /\ Still /\ Known => Freezes
      /\ Still /\ AtUp /\ AtUp' => Freezes
  BY <1>2, KeptThen
<1> QED
  BY <1>3, PTL DEF HomeCalm, Still

\* While core is up with a request it has reloaded for, it stays up until it
\* has answered.
LEMMA AskingStands ==
  Still /\ AtUp /\ asking => (AtUp' /\ asking') \/ ~asking'
<1> SUFFICES ASSUME Still, AtUp, asking, asking' PROVE AtUp'
  BY DEF Still, HomeInv, HomeQuiet, homeVars, consoleVars, ServeInfo,
     ServeAuthorised, ReloadForToken, AnswerAfterReload, Refresh,
     ConsoleStep
<1>1. ~SP!LaunchCore /\ ~SP!ProcStep("core")
  BY DEF AtUp, SP!LaunchCore, SP!ProcStep, SP!Load, SP!LoadMissing,
     SP!NewConfig, SP!Truncate, SP!Write
<1>2. SP!CoreReloads => S!CoreReloads
  BY DEF SP!CoreReloads, S!CoreReloads, SP!Goto, S!Goto
<1>3. CASE ConsoleStep
  <2>1. ~SP!CoreReloads
    BY <1>2, <1>3 DEF ConsoleStep
  <2> QED
    BY <1>1, <2>1, ConsoleQuiet, SettingsConstants, SP!OthersStandStill
       DEF Still, HomeInv, AtUp, SP!Procs
<1>4. CASE ~ConsoleStep
  BY <1>4 DEF Still, HomeQuiet, homeVars, settingsVars, consoleVars,
     ServeInfo, ServeAuthorised, ReloadForToken, AnswerAfterReload,
     Refresh, AtUp, Accepts
<1> QED
  BY <1>3, <1>4

\* core, whose file holds the token of the entry, answers what it has reloaded
\* for and need not do so again.
LEMMA AskingEnds ==
  HomeCalm /\ []SP!Settled /\ []EntryFits /\ ([]Known \/ []AtUp)
    => <>[]~asking /\ []<>AtUp
<1> DEFINE own    == "core"
           Loads  == at["core"] = "load"
<1>1. Known => Loads \/ AtUp
  BY DEF Known, SP!Learnt, SP!LeftTorn, AtUp
<1>2. Known /\ EntryFits => Authorised
  BY HomeAssumption DEF Known, SP!Learnt, SP!LeftTorn, SP!Good, EntryFits,
     Entries, Authorised, S!ConstantsAssumption, S!Config
<1>3. Still /\ ~asking => ~asking' \/ (~Authorised /\ Loads')
  BY DEF Still, HomeInv, SP!Inv, SP!TypeOK, SP!Procs, HomeQuiet, homeVars,
     consoleVars, ServeInfo, ServeAuthorised, ReloadForToken,
     AnswerAfterReload, Refresh, ConsoleStep, S!CoreReloads, S!Goto
<1>4. Loads => ~AtUp
  BY DEF AtUp
<1>5. Still /\ Known /\ Loads =>
        (Loads' /\ ~<<SP!ProcStep(own)>>_(SP!vars)) \/ AtUp'
  BY ConsoleQuiet, SettingsConstants, SP!OthersStandStill, SP!CoreSaves
     DEF Still, HomeInv, Known, AtUp, SP!Procs, SP!LaunchCore,
         SP!CoreReloads
<1>6. HomeInv /\ <<ConsoleStep /\ S!ProcStep(own)>>_homeVars
        => <<SP!ProcStep(own)>>_(SP!vars)
  BY OwnStepOfHome DEF HomeInv, S!Procs
<1>7. Still /\ AtUp /\ asking => (AtUp' /\ asking') \/ ~asking'
  BY AskingStands
<1>8. <<AnswerAfterReload>>_homeVars => ~asking'
  BY DEF AnswerAfterReload
<1>9. /\ HomeGoesOn /\ Loads
            => ENABLED <<ConsoleStep /\ S!ProcStep(own)>>_homeVars
      /\ HomeGoesOn /\ asking /\ AtUp => ENABLED <<AnswerAfterReload>>_homeVars
  BY DEF HomeGoesOn, GoesOn, AtUp
<1> QED
  BY <1>1, <1>2, <1>3, <1>4, <1>5, <1>6, <1>7, <1>8, <1>9, PTL
     DEF HomeCalm, HomeFairness, ConsoleFairness, RefreshFairness, Still

Shown == available /\ data = "awake"

\* Then a refresh gets all its answers, and so does every later one.
LEMMA RefreshSucceeds ==
  HomeCalm /\ []EntryFits /\ []~asking /\ []<>AtUp => <>[]Shown
<1> DEFINE At(s)  == stage = s
           Asks   == ServeAuthorised \/ ReloadForToken
           Lone   == HomeInv /\ [HomeQuiet]_homeVars /\ ~asking /\ ~asking'
<1>1. HomeInv => \/ At("idle") \/ At("info") \/ At("firmware") \/ At("app")
                 \/ At("titles") \/ At("logs")
  BY DEF HomeInv, TypeOK, Console, GitHub
<1>2. ASSUME Lone
      PROVE  \/ <<ServeInfo>>_homeVars \/ <<Asks>>_homeVars
             \/ <<Refresh>>_homeVars \/ UNCHANGED coordVars
  BY <1>2 DEF HomeQuiet, homeVars, AnswerAfterReload, ConsoleStep
<1>3. ASSUME Lone, Asks PROVE Serve /\ AsksWithToken
  BY <1>3 DEF ServeAuthorised, ReloadForToken
<1>4. Lone /\ At("idle") =>
        (At("idle")' /\ ~<<Refresh>>_homeVars) \/ At("info")'
  BY <1>2, <1>3 DEF coordVars, ServeInfo, InfoAnswered, AsksWithToken,
     Refresh, StartRefresh, GitHubDone, GitHub
<1>5. Lone /\ At("info") =>
        (At("info")' /\ ~<<ServeInfo>>_homeVars) \/ At("firmware")'
  BY <1>2, <1>3 DEF coordVars, ServeInfo, InfoAnswered, AsksWithToken,
     Refresh, StartRefresh, GitHubDone, GitHub
<1>6. Lone /\ At("firmware") =>
        (At("firmware")' /\ ~<<Refresh>>_homeVars) \/ At("app")'
  BY <1>2, <1>3 DEF coordVars, ServeInfo, InfoAnswered, AsksWithToken,
     Refresh, StartRefresh, GitHubDone, GitHub
<1>7. Lone /\ At("app") =>
        (At("app")' /\ ~<<Refresh>>_homeVars) \/ At("titles")'
  BY <1>2, <1>3 DEF coordVars, ServeInfo, InfoAnswered, AsksWithToken,
     Refresh, StartRefresh, GitHubDone, GitHub
<1>8. Lone /\ At("titles") =>
        (At("titles")' /\ ~<<Asks>>_homeVars) \/ At("logs")'
  BY <1>2, <1>3 DEF coordVars, ServeInfo, InfoAnswered, AsksWithToken,
     Refresh, StartRefresh, GitHubDone, GitHub, Serve, TitlesAnswered,
     LogsAnswered
<1>9. Lone /\ At("logs") => (At("logs")' /\ ~<<Asks>>_homeVars) \/ Shown'
  BY <1>2, <1>3 DEF coordVars, ServeInfo, InfoAnswered, AsksWithToken,
     Refresh, StartRefresh, GitHubDone, GitHub, Serve, TitlesAnswered,
     LogsAnswered, Shown
<1>10. Lone /\ Shown => Shown'
  BY <1>2, <1>3 DEF coordVars, ServeInfo, InfoAnswered, AsksWithToken,
     Refresh, StartRefresh, GitHubDone, GitHub, Serve, TitlesAnswered,
     LogsAnswered, Shown
<1>11. /\ HomeGoesOn /\ (At("idle") \/ At("firmware") \/ At("app"))
            => ENABLED <<Refresh>>_homeVars
       /\ HomeGoesOn /\ EntryFits /\ ~asking /\ AtUp /\ At("info")
            => ENABLED <<ServeInfo>>_homeVars
       /\ HomeGoesOn /\ EntryFits /\ ~asking /\ AtUp
                     /\ (At("titles") \/ At("logs"))
            => ENABLED <<ServeAuthorised \/ ReloadForToken>>_homeVars
  BY DEF HomeGoesOn, Console, EntryFits, AtUp, Accepts, AsksWithToken
<1> QED
  BY <1>1, <1>4, <1>5, <1>6, <1>7, <1>8, <1>9, <1>10, <1>11, PTL
     DEF HomeCalm, HomeFairness, RefreshFairness

\* Once nobody meddles any more Home Assistant shows the console awake if its
\* entry holds the token of settings.json and the port of core's socket, as
\* long as no process of the console is stuck, core answers what it has
\* reloaded for and serves those it accepts.
THEOREM ConsoleShown == HomeFairSpec /\ []HomeGoesOn => HomeShowsConsole
<1>1. HomeFairSpec /\ []HomeGoesOn =>
        []<><<HomeDisturbance>>_homeVars \/ <>HomeCalm
  BY HomeQuietSteps, HomeInvariant, CalmLasts, PTL
     DEF HomeFairSpec, HomeSpec, HomeCalm
<1>2. at["orchestrator"] = "up" /\ ~SP!Busy("companion") => SP!Settled
  BY DEF SP!Settled
<1>3. HomeCalm => <>(HomeCalm /\ []SP!Settled)
  BY <1>2, HomeOrchestratorEnds, HomeCompanionEnds, CalmLasts, PTL
<1>4. HomeCalm /\ []SP!Settled =>
        \/ <>[]~EntryFits
        \/ <>(HomeCalm /\ []SP!Settled /\ []EntryFits /\ ([]Known \/ []AtUp))
  BY HomeCoreEnds, FitsForGood, CalmLasts, PTL
<1>5. HomeCalm /\ []SP!Settled /\ []EntryFits /\ ([]Known \/ []AtUp) =>
        <>(HomeCalm /\ []EntryFits /\ []~asking /\ []<>AtUp)
  BY AskingEnds, CalmLasts, PTL
<1>6. HomeCalm => <>[](EntryFits => Shown)
  BY <1>3, <1>4, <1>5, RefreshSucceeds, PTL
<1> QED
  BY <1>1, <1>6, PTL DEF HomeShowsConsole, Shown
-----------------------------------------------------------------------------
(* A token that core does not take.                                        *)

\* core listens where the entry says, and the token of the entry begins neither
\* with core's nor with the one in the file.
Refused ==
  /\ file \in Entries /\ entry.port = bound
  /\ \A t \in {file.token, mem["core"].token} :
        <<entry.token, t>> \notin StartsWith

\* That too is so for good, or never again.
LEMMA RefusedForGood ==
  HomeCalm /\ []SP!Settled /\ (<>[]Known \/ <>[]AtUp)
    => <>[]Refused \/ <>[]~Refused
<1> DEFINE Freezes == /\ PortTaken => PortTaken'
                      /\ PortTaken \/ ~PortTaken' => (Refused <=> Refused')
<1>1. [HomeQuiet]_homeVars => entry' = entry
  BY DEF HomeQuiet, homeVars, consoleVars, ServeInfo, ServeAuthorised,
     ReloadForToken, AnswerAfterReload, Refresh, ConsoleStep
<1>2. Still /\ Kept => Freezes
  BY <1>1, ConsoleQuiet, SocketSteps
     DEF Still, Kept, PortTaken, Refused
<1>3. /\ Still /\ Known => Freezes
      /\ Still /\ AtUp /\ AtUp' => Freezes
  BY <1>2, KeptThen
<1> QED
  BY <1>3, PTL DEF HomeCalm, Still

\* core comes back to accept(), free of any request.
LEMMA CoreFreeAgain ==
  HomeCalm /\ []SP!Settled /\ ([]Known \/ []AtUp) => []<>(AtUp /\ ~asking)
<1> DEFINE own   == "core"
           Loads == at["core"] = "load"
<1>1. Known => Loads \/ AtUp
  BY DEF Known, SP!Learnt, SP!LeftTorn, AtUp
<1>2. Loads => ~AtUp
  BY DEF AtUp
<1>3. Still /\ Known /\ Loads =>
        (Loads' /\ ~<<SP!ProcStep(own)>>_(SP!vars)) \/ AtUp'
  BY ConsoleQuiet, SettingsConstants, SP!OthersStandStill, SP!CoreSaves
     DEF Still, HomeInv, Known, AtUp, SP!Procs, SP!LaunchCore,
         SP!CoreReloads
<1>4. HomeInv /\ <<ConsoleStep /\ S!ProcStep(own)>>_homeVars
        => <<SP!ProcStep(own)>>_(SP!vars)
  BY OwnStepOfHome DEF HomeInv, S!Procs
<1>5. Still /\ Loads /\ ~asking => ~asking'
  BY DEF Still, HomeQuiet, homeVars, consoleVars, ServeInfo, ServeAuthorised,
     ReloadForToken, AnswerAfterReload, Refresh, ConsoleStep, Accepts
<1>6. Still /\ AtUp /\ asking => (AtUp' /\ asking') \/ ~asking'
  BY AskingStands
<1>7. <<AnswerAfterReload>>_homeVars => AtUp' /\ ~asking'
  BY DEF AnswerAfterReload, settingsVars, AtUp
<1>8. /\ HomeGoesOn /\ Loads
            => ENABLED <<ConsoleStep /\ S!ProcStep(own)>>_homeVars
      /\ HomeGoesOn /\ asking /\ AtUp => ENABLED <<AnswerAfterReload>>_homeVars
  BY DEF HomeGoesOn, GoesOn, AtUp
<1> QED
  BY <1>1, <1>2, <1>3, <1>4, <1>5, <1>6, <1>7, <1>8, PTL
     DEF HomeCalm, HomeFairness, ConsoleFairness, RefreshFairness, Still

\* Then a refresh that gets as far as a token is refused, and nothing shows the
\* console awake after that.
LEMMA RefreshIsRefused ==
  HomeCalm /\ []SP!Settled /\ []Refused /\ ([]Known \/ []AtUp)
    => <>[]~Shown
<1> DEFINE At(s) == stage = s
           Asks  == ServeAuthorised \/ ReloadForToken
           Lone  == HomeInv /\ Refused /\ [HomeQuiet]_homeVars
           Told  == At("titles") \/ At("logs")
<1>1. HomeInv => \/ At("idle") \/ At("info") \/ At("firmware") \/ At("app")
                 \/ Told
  BY DEF HomeInv, TypeOK, Console, GitHub
<1>2. Refused => ~Authorised
  BY DEF Refused, Authorised
<1>3. ASSUME Lone
      PROVE  \/ <<ServeInfo>>_homeVars \/ <<Refresh>>_homeVars
             \/ AsksWithToken /\ Unreachable
             \/ UNCHANGED coordVars
  BY <1>2, <1>3 DEF HomeQuiet, homeVars, ServeAuthorised, ReloadForToken,
     AnswerAfterReload, ConsoleStep
<1>4. AsksWithToken /\ Unreachable => ~Shown'
  BY DEF Unreachable, AsksWithToken, Shown
<1>5. Lone /\ ~Shown => ~Shown'
  BY <1>3, <1>4 DEF coordVars, ServeInfo, InfoAnswered, Refresh,
     StartRefresh, GitHubDone, Shown
<1>6. Lone /\ At("idle") =>
        (At("idle")' /\ ~<<Refresh>>_homeVars) \/ At("info")' \/ ~Shown'
  BY <1>3, <1>4 DEF coordVars, ServeInfo, InfoAnswered, Refresh,
     StartRefresh, GitHubDone, GitHub
<1>7. Lone /\ At("info") =>
        (At("info")' /\ ~<<ServeInfo>>_homeVars) \/ At("firmware")' \/ ~Shown'
  BY <1>3, <1>4 DEF coordVars, ServeInfo, InfoAnswered, Refresh,
     StartRefresh, GitHubDone, GitHub
<1>8. Lone /\ At("firmware") =>
        (At("firmware")' /\ ~<<Refresh>>_homeVars) \/ At("app")' \/ ~Shown'
  BY <1>3, <1>4 DEF coordVars, ServeInfo, InfoAnswered, Refresh,
     StartRefresh, GitHubDone, GitHub
<1>9. Lone /\ At("app") =>
        (At("app")' /\ ~<<Refresh>>_homeVars) \/ Told' \/ ~Shown'
  BY <1>3, <1>4 DEF coordVars, ServeInfo, InfoAnswered, Refresh,
     StartRefresh, GitHubDone, GitHub
<1>10. Lone /\ Told => Told' \/ ~Shown'
  BY <1>3, <1>4 DEF coordVars, ServeInfo, InfoAnswered, Refresh,
     StartRefresh, GitHubDone, GitHub
<1>11. Lone /\ <<Asks>>_homeVars => asking'
  BY <1>2 DEF ServeAuthorised, ReloadForToken
<1>12. (Known \/ AtUp)' => at'["core"] # "off"
  BY DEF Known, SP!Learnt, SP!LeftTorn, AtUp
<1>13. Lone /\ Told /\ asking /\ (Known \/ AtUp)' =>
         (Told' /\ asking') \/ ~Shown'
  <2> SUFFICES ASSUME Lone, Told, asking, (Known \/ AtUp)', ~asking'
               PROVE  ~Shown'
    BY <1>10
  <2>1. AnswerAfterReload
    BY <1>12 DEF HomeQuiet, homeVars, consoleVars, ServeInfo,
       ServeAuthorised, ReloadForToken, Refresh, ConsoleStep
  <2> QED
    BY <1>2, <1>4, <2>1 DEF AnswerAfterReload, AsksWithToken
<1>14. /\ HomeGoesOn /\ (At("idle") \/ At("firmware") \/ At("app"))
            => ENABLED <<Refresh>>_homeVars
       /\ HomeGoesOn /\ Refused /\ ~asking /\ AtUp /\ At("info")
            => ENABLED <<ServeInfo>>_homeVars
       /\ HomeGoesOn /\ Refused /\ ~asking /\ AtUp /\ Told
            => ENABLED <<ServeAuthorised \/ ReloadForToken>>_homeVars
  BY DEF HomeGoesOn, Console, Refused, AtUp, Accepts, AsksWithToken
<1> QED
  BY <1>1, <1>5, <1>6, <1>7, <1>8, <1>9, <1>10, <1>11, <1>13, <1>14,
     CoreFreeAgain, PTL DEF HomeCalm, HomeFairness, RefreshFairness

\* A token that neither is nor begins with the one settings.json or core has
\* looks like a console that is asleep: once nobody meddles any more, no refresh
\* ends with the console shown awake, and nothing but a refresh could.  (An
\* entry whose token the file has lost but core has not is served until somebody
\* makes core reload.)
THEOREM WrongTokenNeverShown ==
  HomeFairSpec /\ []HomeGoesOn =>
    \/ []<><<HomeDisturbance>>_homeVars
    \/ <>[](Refused => ~(available /\ data = "awake"))
<1>1. HomeFairSpec /\ []HomeGoesOn =>
        []<><<HomeDisturbance>>_homeVars \/ <>HomeCalm
  BY HomeQuietSteps, HomeInvariant, CalmLasts, PTL
     DEF HomeFairSpec, HomeSpec, HomeCalm
<1>2. at["orchestrator"] = "up" /\ ~SP!Busy("companion") => SP!Settled
  BY DEF SP!Settled
<1>3. HomeCalm => <>(HomeCalm /\ []SP!Settled)
  BY <1>2, HomeOrchestratorEnds, HomeCompanionEnds, CalmLasts, PTL
<1>4. HomeCalm /\ []SP!Settled =>
        \/ <>[]~Refused
        \/ <>(HomeCalm /\ []SP!Settled /\ []Refused /\ ([]Known \/ []AtUp))
  BY HomeCoreEnds, RefusedForGood, CalmLasts, PTL
<1>5. HomeCalm => <>[](Refused => ~Shown)
  BY <1>3, <1>4, RefreshIsRefused, PTL
<1> QED
  BY <1>1, <1>5, PTL DEF Shown
=============================================================================
