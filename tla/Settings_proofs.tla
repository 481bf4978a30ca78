-------------------------- MODULE Settings_proofs --------------------------
(***************************************************************************)
(* Proofs about Settings, for any tokens and ports, with the companion app *)
(* and the faults of the SD card.                                          *)
(***************************************************************************)
EXTENDS Settings, TLAPS

\* A configuration with which the API can be used.
Good == [token : Tokens, port : Ports]

\* Where the processes can be, whatever has happened.
Places == /\ at["orchestrator"] \notin {"off", "check"}
          /\ then["orchestrator"] = "up" /\ then["core"] = "up"
          /\ at["core"] # "check" /\ (at["core"] = "off" => bound = NoPort)
          /\ at["companion"] = "check" => then["companion"] = "up"

\* Whoever is past the decision in load() has a token in memory.
HasToken ==
  \A p \in Procs : at[p] \in {"truncate", "write", "check", "up"} =>
    mem[p] \in Good

\* While nobody else has meddled, core runs only beside an orchestrator that
\* is through, and the orchestrator replaces only what nobody else has taken
\* for good.  Only core loads again what it has loaded before.
BootOrder ==
  /\ at["core"] \in {"off", "load", "up"}
  /\ at["core"] # "off" => at["orchestrator"] = "up"
  /\ at["companion"] # "write"
  /\ at["orchestrator"] \in {"truncate", "write"} => file \notin Good
  /\ \A p \in Procs \ {"core"} : at[p] = "load" => mem[p].token = Blank
  /\ at["companion"] = "load" => then["companion"] # "load"

Agreement == (~touched => BootOrder) /\ BootAgrees

\* The inductive invariant.
Inv == TypeOK /\ Places /\ HasToken /\ Agreement

-----------------------------------------------------------------------------
(* Types.                                                                  *)

\* Every step keeps the types.
LEMMA TypesStep == TypeOK /\ [Next]_vars => TypeOK'
<1> SUFFICES ASSUME TypeOK, [Next]_vars PROVE TypeOK'
  OBVIOUS
<1> USE ConstantsAssumption DEF TypeOK, Config, Points, Procs, Goto
<1>1. ASSUME NEW p \in Procs, Load(p) PROVE TypeOK'
  BY <1>1 DEF Load, Return, Parsed, GenerateDefaultConfig
<1>2. ASSUME NEW p \in Procs, LoadMissing(p) PROVE TypeOK'
  BY <1>2 DEF LoadMissing, NewConfig, GenerateDefaultConfig
<1>3. ASSUME NEW p \in Procs, LoadFails(p) PROVE TypeOK'
  BY <1>3 DEF LoadFails, NewConfig, GenerateDefaultConfig
<1>4. ASSUME NEW p \in Procs, Truncate(p) PROVE TypeOK'
  BY <1>4 DEF Truncate
<1>5. ASSUME NEW p \in Procs, Write(p) PROVE TypeOK'
  BY <1>5 DEF Write, Return
<1>6. ASSUME NEW p \in Procs, SaveFails(p) PROVE TypeOK'
  BY <1>6 DEF SaveFails, Return
<1>7. ASSUME NEW p \in Procs, ProcessEnds(p) PROVE TypeOK'
  BY <1>7 DEF ProcessEnds
<1>8. CASE LaunchCore
  BY <1>8 DEF LaunchCore, Fresh
<1>9. CASE CoreListens
  BY <1>9 DEF CoreListens
<1>10. CASE CoreRelistens
  BY <1>10 DEF CoreRelistens
<1>11. CASE CoreReloads
  BY <1>11 DEF CoreReloads
<1>12. CASE OpenApp
  BY <1>12 DEF OpenApp, Fresh
<1>13. CASE DailyCheck
  BY <1>13 DEF DailyCheck
<1>14. CASE Reset
  BY <1>14 DEF Reset, GenerateDefaultConfig
<1>15. CASE UserEdits
  BY <1>15 DEF UserEdits
<1>16. CASE Reboot
  BY <1>16 DEF Reboot, Boot, Fresh
<1>17. CASE UNCHANGED vars
  BY <1>17 DEF vars
<1> QED
  BY <1>1, <1>2, <1>3, <1>4, <1>5, <1>6, <1>7, <1>8, <1>9, <1>10, <1>11,
     <1>12, <1>13, <1>14, <1>15, <1>16, <1>17 DEF Next, ProcStep, SdFault

\* Init gives every variable its type.
LEMMA TypesAtFirst == Init => TypeOK
<1> SUFFICES ASSUME Init PROVE TypeOK
  OBVIOUS
<1>1. file \in Config \cup {Absent, Torn}
  BY DEF Init, Config
<1>2. Fresh \in Config
  BY ConstantsAssumption DEF Fresh, Config
<1>3. mem \in [Procs -> Config] /\ at \in [Procs -> Points]
  BY <1>2 DEF Init, Points
<1> QED
  BY <1>1, <1>3 DEF Init, TypeOK

\* Every variable keeps its type.
THEOREM TypeCorrect == Spec => []TypeOK
BY TypesAtFirst, TypesStep, PTL DEF Spec

-----------------------------------------------------------------------------
(* Tokens.                                                                 *)

\* Nobody gets past load() without a token.
LEMMA TokenStep ==
  TypeOK /\ Places /\ HasToken /\ [Next]_vars => (Places /\ HasToken)'
<1> SUFFICES ASSUME TypeOK, Places, HasToken, [Next]_vars
             PROVE  (Places /\ HasToken)'
  OBVIOUS
<1> USE ConstantsAssumption DEF TypeOK, Places, HasToken, Good, Config,
    Points, Procs, Goto
<1>1. ASSUME NEW p \in Procs, Load(p) PROVE (Places /\ HasToken)'
  BY <1>1 DEF Load, Return, Parsed, GenerateDefaultConfig
<1>2. ASSUME NEW p \in Procs, LoadMissing(p) PROVE (Places /\ HasToken)'
  BY <1>2 DEF LoadMissing, NewConfig, GenerateDefaultConfig
<1>3. ASSUME NEW p \in Procs, LoadFails(p) PROVE (Places /\ HasToken)'
  BY <1>3 DEF LoadFails, NewConfig, GenerateDefaultConfig
<1>4. ASSUME NEW p \in Procs, Truncate(p) PROVE (Places /\ HasToken)'
  BY <1>4 DEF Truncate
<1>5. ASSUME NEW p \in Procs, Write(p) PROVE (Places /\ HasToken)'
  BY <1>5 DEF Write, Return
<1>6. ASSUME NEW p \in Procs, SaveFails(p) PROVE (Places /\ HasToken)'
  BY <1>6 DEF SaveFails, Return
<1>7. ASSUME NEW p \in Procs, ProcessEnds(p) PROVE (Places /\ HasToken)'
  BY <1>7 DEF ProcessEnds
<1>8. CASE LaunchCore
  BY <1>8 DEF LaunchCore, Fresh
<1>9. CASE CoreListens
  BY <1>9 DEF CoreListens
<1>10. CASE CoreRelistens
  BY <1>10 DEF CoreRelistens
<1>11. CASE CoreReloads
  BY <1>11 DEF CoreReloads
<1>12. CASE OpenApp
  BY <1>12 DEF OpenApp, Fresh
<1>13. CASE DailyCheck
  BY <1>13 DEF DailyCheck
<1>14. CASE Reset
  BY <1>14 DEF Reset, GenerateDefaultConfig
<1>15. CASE UserEdits
  BY <1>15 DEF UserEdits
<1>16. CASE Reboot
  BY <1>16 DEF Reboot, Boot, Fresh
<1>17. CASE UNCHANGED vars
  BY <1>17 DEF vars
<1> QED
  BY <1>1, <1>2, <1>3, <1>4, <1>5, <1>6, <1>7, <1>8, <1>9, <1>10, <1>11,
     <1>12, <1>13, <1>14, <1>15, <1>16, <1>17 DEF Next, ProcStep, SdFault

-----------------------------------------------------------------------------
(* Agreement.                                                              *)

\* Agreement outlasts every step until somebody meddles.
LEMMA BootStep == Inv /\ [Next]_vars => Agreement'
<1> SUFFICES ASSUME Inv, [Next]_vars PROVE Agreement'
  OBVIOUS
<1> USE ConstantsAssumption DEF Inv, Agreement, TypeOK, Places, HasToken,
    BootOrder, BootAgrees, Loaded, Good, Config, Points, Procs, Goto
<1>1. ASSUME NEW p \in Procs, Load(p) PROVE Agreement'
  <2>1. UNCHANGED <<file, bound, touched>> /\ at[p] = "load" /\ file # Absent
    BY <1>1 DEF Load
  <2>2. CASE touched
    BY <2>1, <2>2
  <2>3. ASSUME ~touched, Parsed(p).token = Blank PROVE Agreement'
    <3>1. file \notin Good
      BY <2>1, <2>3 DEF Parsed
    <3>2. p # "core"
      BY <2>1, <2>3, <3>1
    <3>3. at' = [at EXCEPT ![p] = "truncate"] /\ then' = then
      BY <1>1, <2>3 DEF Load
    <3>4. \A q \in Procs \ {p} : mem'[q] = mem[q]
      BY <1>1, <2>3 DEF Load, GenerateDefaultConfig
    <3>5. BootOrder'
      BY <2>1, <2>3, <3>1, <3>2, <3>3, <3>4
    <3>6. \A q \in Procs : Loaded(q)' => mem'[q] = file'
      BY <2>1, <2>3, <3>3, <3>4
    <3>7. bound # NoPort => p # "orchestrator"
      BY <2>1, <2>3
    <3> QED
      BY <2>1, <2>3, <3>2, <3>4, <3>5, <3>6, <3>7
  <2>4. ASSUME ~touched, Parsed(p).token # Blank PROVE Agreement'
    <3>1. mem' = [mem EXCEPT ![p] = Parsed(p)]
      BY <1>1, <2>4 DEF Load
    <3>2. /\ at' = [at EXCEPT ![p] = then[p]]
          /\ then' = [then EXCEPT ![p] = "up"]
      BY <1>1, <2>4 DEF Load, Return
    <3>3. file # Torn
      <4>1. CASE p = "core"
        BY <2>1, <2>4, <4>1
      <4>2. CASE p # "core"
        BY <2>1, <2>4, <4>2 DEF Parsed
      <4> QED
        BY <4>1, <4>2
    <3>4. mem' = [mem EXCEPT ![p] = file]
      BY <3>1, <3>3 DEF Parsed
    <3>5. file \in Good
      BY <2>1, <2>4, <3>3 DEF Parsed
    <3>6. BootOrder'
      BY <2>1, <2>4, <3>2, <3>4, <3>5
    <3>7. \A q \in Procs : Loaded(q)' => mem'[q] = file'
      BY <2>1, <2>4, <3>2, <3>4
    <3>8. bound # NoPort => p # "orchestrator"
      BY <2>1, <2>4
    <3> QED
      BY <2>1, <2>4, <3>4, <3>6, <3>7, <3>8
  <2> QED
    BY <2>2, <2>3, <2>4
<1>2. ASSUME NEW p \in Procs, LoadMissing(p) PROVE Agreement'
  BY <1>2 DEF LoadMissing, NewConfig, GenerateDefaultConfig
<1>3. ASSUME NEW p \in Procs, LoadFails(p) PROVE Agreement'
  BY <1>3 DEF LoadFails, NewConfig, GenerateDefaultConfig
<1>4. ASSUME NEW p \in Procs, Truncate(p) PROVE Agreement'
  BY <1>4 DEF Truncate
<1>5. ASSUME NEW p \in Procs, Write(p) PROVE Agreement'
  BY <1>5 DEF Write, Return
<1>6. ASSUME NEW p \in Procs, SaveFails(p) PROVE Agreement'
  BY <1>6 DEF SaveFails, Return
<1>7. ASSUME NEW p \in Procs, ProcessEnds(p) PROVE Agreement'
  BY <1>7 DEF ProcessEnds
<1>8. CASE LaunchCore
  BY <1>8 DEF LaunchCore, Fresh
<1>9. CASE CoreListens
  BY <1>9 DEF CoreListens
<1>10. CASE CoreRelistens
  BY <1>10 DEF CoreRelistens
<1>11. CASE CoreReloads
  BY <1>11 DEF CoreReloads
<1>12. CASE OpenApp
  BY <1>12 DEF OpenApp, Fresh
<1>13. CASE DailyCheck
  BY <1>13 DEF DailyCheck
<1>14. CASE Reset
  BY <1>14 DEF Reset, GenerateDefaultConfig
<1>15. CASE UserEdits
  BY <1>15 DEF UserEdits
<1>16. CASE Reboot
  BY <1>16 DEF Reboot, Boot, Fresh
<1>17. CASE UNCHANGED vars
  BY <1>17 DEF vars
<1> QED
  BY <1>1, <1>2, <1>3, <1>4, <1>5, <1>6, <1>7, <1>8, <1>9, <1>10, <1>11,
     <1>12, <1>13, <1>14, <1>15, <1>16, <1>17 DEF Next, ProcStep, SdFault

-----------------------------------------------------------------------------

\* Inv is inductive.
LEMMA Invariant == Spec => []Inv
<1>1. Init => Inv
  <2> SUFFICES ASSUME Init PROVE Inv
    OBVIOUS
  <2>1. TypeOK
    BY TypesAtFirst
  <2> QED
    BY <2>1, ConstantsAssumption DEF Inv, Agreement, Init, Places, HasToken,
       BootOrder, BootAgrees, Loaded, Procs, Fresh
<1>2. Inv /\ [Next]_vars => Inv'
  BY TypesStep, TokenStep, BootStep DEF Inv
<1> QED
  BY <1>1, <1>2, PTL DEF Spec

\* As long as only the orchestrator and core write settings.json, all three
\* processes hold what it says and core listens on the port they agree on,
\* however often core is launched, ended and made to reload.
THEOREM BootAgreesAlways == Spec => []BootAgrees
<1>1. Inv => BootAgrees
  BY DEF Inv, Agreement
<1> QED
  BY <1>1, Invariant, PTL

\* No process goes on without a token, whatever it found in settings.json.
THEOREM NobodyWithoutTokenAlways == Spec => []NobodyWithoutToken
<1>1. Inv => NobodyWithoutToken
  BY ConstantsAssumption
     DEF Inv, HasToken, NobodyWithoutToken, Loaded, Good
<1> QED
  BY <1>1, Invariant, PTL

-----------------------------------------------------------------------------
(* Liveness.                                                               *)

\* A step with which nobody meddles.
Quiet == \/ \E p \in Procs : ProcStep(p)
         \/ LaunchCore \/ CoreListens \/ CoreRelistens \/ CoreReloads
         \/ DailyCheck

\* From some time on nobody does, and everybody goes on.
Calm == []Inv /\ []ProcessesGoOn /\ [][Quiet]_vars /\ Fairness

Busy(p) == at[p] \in {"load", "truncate", "write"}

\* What a process does in load() and save(), and that it leaves the others
\* where they are.
LEMMA OwnStep ==
  ASSUME Inv, NEW p \in Procs, ProcStep(p)
  PROVE  /\ \/ /\ at[p] = "load" /\ at'[p] = "truncate" /\ then' = then
            \/ /\ at[p] = "truncate" /\ at'[p] = "write" /\ then' = then
            \/ /\ at[p] \in {"load", "write"}
               /\ at'[p] = then[p] /\ then'[p] = "up"
         /\ \A q \in Procs \ {p} : at'[q] = at[q] /\ then'[q] = then[q]
BY DEF Inv, TypeOK, ProcStep, Load, LoadMissing, NewConfig, Truncate, Write,
   Return, Goto

\* While a process is busy no quiet step but its own moves it, and while it is
\* not only core is launched or made to reload, and only the companion app
\* saves what it has found out.
LEMMA OthersStandStill ==
  ASSUME Inv, [Quiet]_vars, NEW p \in Procs
  PROVE  \/ ProcStep(p)
         \/ at'[p] = at[p] /\ then'[p] = then[p]
         \/ p = "core" /\ (LaunchCore \/ CoreReloads)
         \/ p = "companion" /\ DailyCheck
<1>1. CASE \E q \in Procs : ProcStep(q)
  BY <1>1, OwnStep
<1>2. CASE LaunchCore \/ CoreReloads
  BY <1>2 DEF Inv, TypeOK, LaunchCore, CoreReloads, Goto, Procs
<1>3. CASE DailyCheck
  BY <1>3 DEF Inv, TypeOK, DailyCheck, Goto, Procs
<1>4. CASE CoreListens \/ CoreRelistens \/ UNCHANGED vars
  BY <1>4 DEF CoreListens, CoreRelistens, vars
<1> QED
  BY <1>1, <1>2, <1>3, <1>4 DEF Quiet

\* p stands at a, within a load() or save() after which it goes on at t; it has
\* come to the end of that.
Is(p, a, t) == at[p] = a /\ then[p] = t
Ended(p, t) == at[p] = t /\ then[p] = "up"

\* How a process moves through load() and save(): by its own steps only.
Moves(p, t) ==
  /\ Is(p, "load", t) =>
       \/ Is(p, "load", t)' /\ ~<<ProcStep(p)>>_vars
       \/ Is(p, "truncate", t)' \/ Ended(p, t)'
  /\ Is(p, "truncate", t) =>
       (Is(p, "truncate", t)' /\ ~<<ProcStep(p)>>_vars) \/ Is(p, "write", t)'
  /\ Is(p, "write", t) =>
       (Is(p, "write", t)' /\ ~<<ProcStep(p)>>_vars) \/ Ended(p, t)'

LEMMA BusyMoves ==
  ASSUME NEW p \in Procs, NEW t, Inv, [Quiet]_vars
  PROVE  Moves(p, t)
<1>1. CASE ProcStep(p)
  BY <1>1, OwnStep DEF Moves, Is, Ended
<1>2. CASE ~ProcStep(p)
  BY <1>2, OthersStandStill
     DEF Moves, Is, Ended, LaunchCore, CoreReloads, DailyCheck
<1> QED
  BY <1>1, <1>2

\* The orchestrator's only load() ends, and with it all it ever does to the
\* file.
LEMMA OrchestratorEnds == Calm => <>[](at["orchestrator"] = "up")
<1> DEFINE o == "orchestrator"
           Up == at["orchestrator"] = "up"
<1>1. Inv => \/ Is(o, "load", "up") \/ Is(o, "truncate", "up")
             \/ Is(o, "write", "up") \/ Up
  BY DEF Inv, TypeOK, Places, Is, Procs, Points
<1>2. Inv /\ [Quiet]_vars => Moves(o, "up")
  BY BusyMoves DEF Procs
<1>3. Ended(o, "up") => Up
  BY DEF Ended
<1>4. ProcessesGoOn /\ (\/ Is(o, "load", "up") \/ Is(o, "truncate", "up")
                        \/ Is(o, "write", "up"))
        => ENABLED <<ProcStep(o)>>_vars
  BY DEF ProcessesGoOn, GoesOn, Is
<1>5. Inv /\ Up /\ [Quiet]_vars => Up'
  BY OthersStandStill, OwnStep DEF Procs
<1> QED
  BY <1>1, <1>2, <1>3, <1>4, <1>5, PTL DEF Calm, Fairness, Moves

\* The companion app's load() and save() end, with the daily save, and nobody
\* begins another one.
LEMMA CompanionEnds == Calm => <>[](~Busy("companion"))
<1> DEFINE c == "companion"
           Begun(t) == Is(c, "load", t) \/ Is(c, "truncate", t)
                         \/ Is(c, "write", t)
           Checks == Ended(c, "check")
           Idle   == at["companion"] \in {"off", "up"}
<1>1. Inv => Begun("load") \/ Begun("check") \/ Begun("up") \/ Checks \/ Idle
  BY DEF Inv, TypeOK, Places, Is, Ended, Procs, Points
<1>2. Inv /\ [Quiet]_vars => Moves(c, "load") /\ Moves(c, "check")
                               /\ Moves(c, "up")
  BY BusyMoves DEF Procs
<1>3. (Ended(c, "load") => Is(c, "load", "up")) /\ (Ended(c, "up") => Idle)
  BY DEF Ended, Is
<1>4. ProcessesGoOn /\ (Begun("load") \/ Begun("check") \/ Begun("up"))
        => ENABLED <<ProcStep(c)>>_vars
  BY DEF ProcessesGoOn, GoesOn, Is
<1>5. Inv /\ Checks /\ [Quiet]_vars =>
        Checks' \/ Is(c, "truncate", "up")' \/ Idle'
  BY OthersStandStill, OwnStep
     DEF Inv, TypeOK, Procs, Ended, Is, DailyCheck, Goto
<1>6. Inv /\ Idle /\ [Quiet]_vars => Idle'
  BY OthersStandStill, OwnStep DEF Procs, DailyCheck
<1>7. Checks \/ Idle => ~Busy("companion")
  BY DEF Ended, Busy
<1> QED
  BY <1>1, <1>2, <1>3, <1>4, <1>5, <1>6, <1>7, PTL DEF Calm, Fairness, Moves

\* Nobody but core touches the file any more.
Settled == at["orchestrator"] = "up" /\ ~Busy("companion")

\* core has what the file holds; it has a token and the file was left empty.
Learnt   == at["core"] \in {"load", "up"} /\ file = mem["core"] /\ file \in Good
LeftTorn == at["core"] \in {"load", "up"} /\ file = Torn /\ mem["core"] \in Good

\* What the file and core's copy of it go through then.
LEMMA SettledSteps ==
  ASSUME Inv, Settled, [Quiet]_vars, ~ProcStep("core")
  PROVE  file' = file /\ (mem'["core"] = mem["core"] \/ LaunchCore)
<1>1. ASSUME NEW p \in Procs \ {"core"} PROVE ~ProcStep(p)
  BY <1>1 DEF Settled, Busy, ProcStep, Load, LoadMissing, NewConfig, Truncate,
     Write, Procs
<1>2. CASE CoreListens \/ CoreRelistens \/ CoreReloads
  BY <1>2 DEF CoreListens, CoreRelistens, CoreReloads
<1>3. CASE LaunchCore \/ DailyCheck \/ UNCHANGED vars
  BY <1>3 DEF LaunchCore, DailyCheck, vars
<1> QED
  BY <1>1, <1>2, <1>3 DEF Quiet

\* core's own load() and save(), when they are the only ones.
LEMMA CoreSaves ==
  ASSUME Inv, Settled, ProcStep("core")
  PROVE  /\ at["core"] = "load" => \/ at'["core"] = "truncate"
                                   \/ Learnt' \/ LeftTorn'
         /\ at["core"] = "write" => Learnt'
         /\ Learnt \/ LeftTorn => /\ at'["core"] = "up" /\ file' = file
                                  /\ mem'["core"] = mem["core"]
<1> USE ConstantsAssumption DEF Inv, TypeOK, Places, HasToken, Good, Config,
    Procs, Goto, Learnt, LeftTorn
<1>1. CASE Load("core")
  <2>1. /\ at["core"] = "load" /\ file # Absent /\ file' = file
        /\ then["core"] = "up"
    BY <1>1 DEF Load
  <2>2. CASE Parsed("core").token = Blank
    <3>1. at'["core"] = "truncate"
      BY <1>1, <2>2 DEF Load
    <3>2. ~Learnt /\ ~LeftTorn
      BY <2>2 DEF Parsed
    <3> QED
      BY <2>1, <3>1, <3>2
  <2>3. CASE Parsed("core").token # Blank
    <3>1. mem'["core"] = Parsed("core") /\ at'["core"] = "up"
      BY <1>1, <2>1, <2>3 DEF Load, Return
    <3>2. CASE file = Torn
      BY <2>1, <2>3, <3>1, <3>2 DEF Parsed
    <3>3. CASE file # Torn
      BY <2>1, <2>3, <3>1, <3>3 DEF Parsed
    <3> QED
      BY <3>2, <3>3
  <2> QED
    BY <2>2, <2>3
<1>2. CASE LoadMissing("core")
  BY <1>2 DEF LoadMissing, NewConfig
<1>3. CASE Truncate("core")
  BY <1>3 DEF Truncate
<1>4. CASE Write("core")
  BY <1>4 DEF Write, Return
<1> QED
  BY <1>1, <1>2, <1>3, <1>4 DEF ProcStep

\* Once core has what the file holds, or the file is left empty, it stays so.
LEMMA NothingNew ==
  ASSUME Inv, Settled, [Quiet]_vars, Learnt \/ LeftTorn
  PROVE  (Learnt \/ LeftTorn)' /\ file' = file /\ mem'["core"] = mem["core"]
<1>1. file' = file /\ mem'["core"] = mem["core"]
  <2>1. CASE ProcStep("core")
    BY <2>1, CoreSaves
  <2>2. CASE ~ProcStep("core")
    BY <2>2, SettledSteps DEF Learnt, LeftTorn, LaunchCore
  <2> QED
    BY <2>1, <2>2
<1>2. at'["core"] \in {"load", "up"}
  <2>1. CASE ProcStep("core")
    BY <2>1, CoreSaves
  <2>2. CASE ~ProcStep("core")
    BY <2>2, OthersStandStill
       DEF Learnt, LeftTorn, Inv, TypeOK, Procs, LaunchCore, CoreReloads, Goto
  <2> QED
    BY <2>1, <2>2
<1> QED
  BY <1>1, <1>2 DEF Learnt, LeftTorn

\* Then core comes to have what the file holds, or the file is left empty.
LEMMA CoreEnds == Calm /\ []Settled => <>[](Learnt \/ LeftTorn)
<1> DEFINE At(a) == at["core"] = a
           Done  == Learnt \/ LeftTorn
           Still == Inv /\ Settled /\ [Quiet]_vars
<1>1. Inv => \/ At("off") \/ At("load") \/ At("truncate") \/ At("write")
             \/ At("up")
  BY DEF Inv, TypeOK, Places, Procs, Points
<1>2. Still /\ At("off") => At("off")' \/ At("load")'
  BY OthersStandStill, OwnStep
     DEF Inv, TypeOK, Procs, LaunchCore, CoreReloads, Goto
<1>3. Inv /\ At("off") /\ <<LaunchCore>>_vars => At("load")'
  BY DEF Inv, TypeOK, Procs, LaunchCore, Goto
<1>4. Still /\ At("up") => At("up")' \/ At("load")'
  BY OthersStandStill, OwnStep
     DEF Inv, TypeOK, Procs, LaunchCore, CoreReloads, Goto
<1>5. Inv /\ At("up") /\ <<CoreReloads>>_vars => At("load")'
  BY DEF Inv, TypeOK, Procs, CoreReloads, Goto
<1>6. Still /\ At("load") =>
        (At("load")' /\ ~<<ProcStep("core")>>_vars) \/ At("truncate")' \/ Done'
  BY CoreSaves, OthersStandStill DEF Procs, LaunchCore, CoreReloads
<1>7. Still /\ At("truncate") =>
        (At("truncate")' /\ ~<<ProcStep("core")>>_vars) \/ At("write")'
  BY OwnStep, OthersStandStill DEF Procs, LaunchCore, CoreReloads
<1>8. Still /\ At("write") =>
        (At("write")' /\ ~<<ProcStep("core")>>_vars) \/ Done'
  BY CoreSaves, OthersStandStill DEF Procs, LaunchCore, CoreReloads
<1>9. Still /\ Done => Done'
  BY NothingNew
<1>10. /\ ProcessesGoOn /\ (At("load") \/ At("truncate") \/ At("write"))
            => ENABLED <<ProcStep("core")>>_vars
       /\ ProcessesGoOn /\ Settled /\ At("off") => ENABLED <<LaunchCore>>_vars
       /\ ProcessesGoOn /\ At("up") => ENABLED <<CoreReloads>>_vars
  BY DEF ProcessesGoOn, GoesOn, Settled
<1> QED
  BY <1>1, <1>2, <1>3, <1>4, <1>5, <1>6, <1>7, <1>8, <1>9, <1>10, PTL
     DEF Calm, Fairness

\* As long as nobody is stuck in a load() or save(), core ends up with the
\* token of settings.json once users and the SD card are quiet, or with an
\* empty file, whoever has saved what before and in the midst of which save()
\* a process was ended.
THEOREM CoreLearns == FairSpec /\ []ProcessesGoOn => CoreLearnsToken
<1> DEFINE Known == \/ file = Torn
                    \/ file # Absent /\ file.token = mem["core"].token
<1>1. [Next]_vars /\ ~<<Disturbance>>_vars => [Quiet]_vars
  BY DEF Next, Disturbance, Quiet
<1>2. FairSpec /\ []ProcessesGoOn => []<><<Disturbance>>_vars \/ <>Calm
  BY <1>1, Invariant, PTL DEF FairSpec, Spec, Fairness, Calm
<1>3. Calm => <>[](at["orchestrator"] = "up") /\ <>[](~Busy("companion"))
  BY OrchestratorEnds, CompanionEnds, PTL
<1>4. at["orchestrator"] = "up" /\ ~Busy("companion") => Settled
  BY DEF Settled
<1>5. Calm => <>(Calm /\ []Settled)
  BY <1>3, <1>4, PTL DEF Calm, Fairness
<1>6. Learnt \/ LeftTorn => Known
  BY ConstantsAssumption DEF Learnt, LeftTorn, Good, Config
<1>7. Calm => <>[]Known
  BY <1>5, <1>6, CoreEnds, PTL
<1> QED
  BY <1>2, <1>7, PTL DEF CoreLearnsToken

-----------------------------------------------------------------------------
(* What SameTokenForSelfRestart lacks.                                     *)

\* Once nobody meddles any more, and the file is not left empty, /self_restart
\* takes the token the API takes exactly when settings.json has the token that
\* the orchestrator read at boot, whatever else has been changed in it.
THEOREM SameTokenIfBootToken ==
  FairSpec /\ []ProcessesGoOn /\ <>[](file \in Config)
    => \/ []<><<Disturbance>>_vars
       \/ <>[](mem["orchestrator"].token = mem["core"].token
                 <=> mem["orchestrator"].token = file.token)
<1> DEFINE Filled == file \in Config
           Known  == file = Torn \/ (file # Absent
                                       /\ file.token = mem["core"].token)
           Same   == mem["orchestrator"].token = mem["core"].token
                       <=> mem["orchestrator"].token = file.token
<1>1. Filled /\ Known => Same
  BY ConstantsAssumption
<1>2. FairSpec /\ []ProcessesGoOn => []<><<Disturbance>>_vars \/ <>[]Known
  BY CoreLearns, PTL DEF CoreLearnsToken
<1> HIDE DEF Filled, Known, Same
<1>3. FairSpec /\ []ProcessesGoOn /\ <>[]Filled
        => []<><<Disturbance>>_vars \/ <>[]Same
  BY <1>1, <1>2, PTL
<1> QED
  BY <1>3 DEF Filled, Same

\* What the orchestrator has read stays as it is.
OrchestratorKeeps ==
  at'["orchestrator"] = "up" /\ mem'["orchestrator"] = mem["orchestrator"]

LEMMA KeepsStep ==
  ASSUME TypeOK, [Next]_vars, at["orchestrator"] = "up"
  PROVE  OrchestratorKeeps \/ Reboot \/ UNCHANGED vars
<1> USE DEF TypeOK, OrchestratorKeeps, Procs
<1>1. ASSUME NEW p \in Procs, ProcStep(p) \/ SdFault(p)
      PROVE  OrchestratorKeeps
  BY <1>1 DEF ProcStep, SdFault, Load, LoadMissing, LoadFails, NewConfig,
     GenerateDefaultConfig, Truncate, Write, SaveFails, Return, Goto
<1>2. ASSUME NEW p \in Procs, ProcessEnds(p)
      PROVE  OrchestratorKeeps
  BY <1>2 DEF ProcessEnds, Goto
<1>3. CASE LaunchCore \/ CoreListens \/ CoreRelistens \/ CoreReloads
  BY <1>3 DEF LaunchCore, CoreListens, CoreRelistens, CoreReloads, Goto
<1>4. CASE OpenApp \/ DailyCheck \/ Reset \/ UserEdits
  BY <1>4 DEF OpenApp, DailyCheck, Reset, GenerateDefaultConfig, Goto, UserEdits
<1> QED
  BY <1>1, <1>2, <1>3, <1>4 DEF Next

\* And that token stays what it is until the console reboots: nothing makes an
\* orchestrator that is up read settings.json again.
THEOREM OrchestratorKeepsToken ==
  Spec => [][at["orchestrator"] = "up" => OrchestratorKeeps \/ Reboot]_vars
<1>1. TypeOK /\ [Next]_vars =>
        [at["orchestrator"] = "up" => OrchestratorKeeps \/ Reboot]_vars
  BY KeepsStep
<1> QED
  BY <1>1, TypeCorrect, PTL DEF Spec
=============================================================================
