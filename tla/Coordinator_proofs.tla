------------------------- MODULE Coordinator_proofs -------------------------
(***************************************************************************)
(* Proofs about Coordinator, for any answers and failures, in any order.   *)
(***************************************************************************)
EXTENDS Coordinator, TLAPS

\* Past /info the coordinator has left sleep mode, however it got there.
AwakeAfterInfo == stage \in {"firmware", "app", "titles", "logs"} => ~sleepMode

\* The inductive invariant.
Inv == TypeOK /\ AwakeAfterInfo /\ ModeShown /\ KeptAvailable

\* Every step keeps the types.
LEMMA TypesStep == TypeOK /\ [Next]_coordVars => TypeOK'
<1> SUFFICES ASSUME TypeOK, [Next]_coordVars PROVE TypeOK'
  OBVIOUS
<1> USE DEF TypeOK, Console, GitHub
<1>1. CASE Created
  BY <1>1 DEF Created
<1>2. CASE StartRefresh
  BY <1>2 DEF StartRefresh
<1>3. CASE InfoAnswered
  BY <1>3 DEF InfoAnswered
<1>4. CASE GitHubDone
  BY <1>4 DEF GitHubDone
<1>5. CASE TitlesAnswered
  BY <1>5 DEF TitlesAnswered
<1>6. CASE LogsAnswered
  BY <1>6 DEF LogsAnswered
<1>7. CASE Unreachable
  BY <1>7 DEF Unreachable
<1>8. CASE UnknownError
  BY <1>8 DEF UnknownError
<1>9. CASE UNCHANGED coordVars
  BY <1>9 DEF coordVars
<1> QED
  BY <1>1, <1>2, <1>3, <1>4, <1>5, <1>6, <1>7, <1>8, <1>9 DEF Next

\* Every step keeps the mode, the interval and what is shown together.
LEMMA ModeStep == Inv /\ [Next]_coordVars => (AwakeAfterInfo /\ ModeShown)'
<1> SUFFICES ASSUME Inv, [Next]_coordVars
             PROVE  (AwakeAfterInfo /\ ModeShown)'
  OBVIOUS
<1> USE DEF Inv, TypeOK, AwakeAfterInfo, ModeShown, GitHub, Console
<1>1. CASE Created
  BY <1>1 DEF Created
<1>2. CASE StartRefresh
  BY <1>2 DEF StartRefresh
<1>3. CASE InfoAnswered
  BY <1>3 DEF InfoAnswered
<1>4. CASE GitHubDone
  BY <1>4 DEF GitHubDone
<1>5. CASE TitlesAnswered
  BY <1>5 DEF TitlesAnswered
<1>6. CASE LogsAnswered
  BY <1>6 DEF LogsAnswered
<1>7. CASE Unreachable
  <2>1. CASE ~sleepMode /\ data # None
    BY <1>7, <2>1 DEF Unreachable
  <2>2. CASE sleepMode
    BY <1>7, <2>2 DEF Unreachable
  <2>3. CASE ~sleepMode /\ data = None
    BY <1>7, <2>3 DEF Unreachable
  <2> QED
    BY <2>1, <2>2, <2>3
<1>8. CASE UnknownError
  BY <1>8 DEF UnknownError
<1>9. CASE UNCHANGED coordVars
  BY <1>9 DEF coordVars
<1> QED
  BY <1>1, <1>2, <1>3, <1>4, <1>5, <1>6, <1>7, <1>8, <1>9 DEF Next

\* Only an answer that makes no sense takes the entities away.
LEMMA AvailableStep == Inv /\ [Next]_coordVars => KeptAvailable'
<1> SUFFICES ASSUME Inv, [Next]_coordVars PROVE KeptAvailable'
  OBVIOUS
<1> USE NoneAssumption DEF Inv, TypeOK, KeptAvailable
<1>1. CASE Created
  BY <1>1 DEF Created
<1>2. CASE StartRefresh
  BY <1>2 DEF StartRefresh
<1>3. CASE InfoAnswered
  BY <1>3 DEF InfoAnswered
<1>4. CASE GitHubDone
  BY <1>4 DEF GitHubDone
<1>5. CASE TitlesAnswered
  BY <1>5 DEF TitlesAnswered
<1>6. CASE LogsAnswered
  BY <1>6 DEF LogsAnswered
<1>7. CASE Unreachable
  <2>1. CASE ~sleepMode /\ data # None
    BY <1>7, <2>1 DEF Unreachable
  <2>2. CASE sleepMode
    BY <1>7, <2>2 DEF Unreachable
  <2>3. CASE ~sleepMode /\ data = None
    BY <1>7, <2>3 DEF Unreachable
  <2> QED
    BY <2>1, <2>2, <2>3
<1>8. CASE UnknownError
  BY <1>8 DEF UnknownError
<1>9. CASE UNCHANGED coordVars
  BY <1>9 DEF coordVars
<1> QED
  BY <1>1, <1>2, <1>3, <1>4, <1>5, <1>6, <1>7, <1>8, <1>9 DEF Next

\* Inv is inductive.
LEMMA Invariant == Spec => []Inv
<1>1. Init => Inv
  BY NoneAssumption
     DEF Init, Inv, TypeOK, AwakeAfterInfo, ModeShown, KeptAvailable, Console
<1>2. Inv /\ [Next]_coordVars => Inv'
  BY TypesStep, ModeStep, AvailableStep DEF Inv
<1> QED
  BY <1>1, <1>2, PTL DEF Spec

\* The interval goes with sleep mode, and available entities show that mode
\* between refreshes.
THEOREM ModeShownAlways == Spec => []ModeShown
<1>1. Inv => ModeShown
  BY DEF Inv
<1> QED
  BY <1>1, Invariant, PTL

\* A console or a GitHub out of reach never takes the entities away.
THEOREM KeptAvailableAlways == Spec => []KeptAvailable
<1>1. Inv => KeptAvailable
  BY DEF Inv
<1> QED
  BY <1>1, Invariant, PTL
=============================================================================
