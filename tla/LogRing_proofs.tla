--------------------------- MODULE LogRing_proofs ---------------------------
(***************************************************************************)
(* What TLAPS proves of LogRing, for every capacity, every width of the    *)
(* machine's integers that holds twice the capacity, and every number of   *)
(* calls: the ring implements BoundedLog, and GET /logs reports in order.  *)
(***************************************************************************)
EXTENDS LogRing, SequenceTheorems, TLAPS

\* What the proofs use of the constants.
LEMMA Limits == /\ Capacity \in Nat /\ Capacity > 0
                /\ Wrap \in Nat /\ Wrap > 2 * Capacity /\ Wrap > MaxLogs
                /\ MaxLogs \in Nat /\ Error \in Levels
BY ConstantsAssumption

-----------------------------------------------------------------------------
(* getLog()'s arithmetic.                                                  *)

\* ActualIndex for a given head and count.
Position(h, c, index) == ((h - c + index + Capacity) % Wrap) % Capacity

\* The next slot is the next one of the ring.
LEMMA NextHead ==
  ASSUME NEW h \in Slots
  PROVE  (h + 1) % Capacity = IF h + 1 = Capacity THEN 0 ELSE h + 1
BY Limits DEF Slots

\* No wrapping around shows in the result.
LEMMA PositionIs ==
  ASSUME NEW h \in Slots, NEW c \in 0..Capacity, NEW i \in 0..(c - 1)
  PROVE  /\ Position(h, c, i) = IF h + i < c THEN h - c + i + Capacity
                                             ELSE h - c + i
         /\ Position(h, c, i) \in Slots
<1> DEFINE x == h - c + i + Capacity
<1>1. x \in Nat /\ x < 2 * Capacity
  BY Limits DEF Slots
<1>2. x % Wrap = x
  <2> HIDE DEF x
  <2> QED
    BY <1>1, Limits
<1>3. x % Capacity = IF x < Capacity THEN x ELSE x - Capacity
  <2> HIDE DEF x
  <2> QED
    BY <1>1, Limits
<1> QED
  BY <1>1, <1>2, <1>3, Limits DEF Position, Slots

\* While the ring fills, every entry keeps its index, and the new one comes
\* after the others.
LEMMA FillingShiftsNothing ==
  ASSUME NEW h \in Slots, NEW c \in 0..(Capacity - 1)
  PROVE  /\ (h + 1) % Capacity \in Slots
         /\ \A i \in 0..(c - 1) :
              /\ Position((h + 1) % Capacity, c + 1, i) = Position(h, c, i)
              /\ Position(h, c, i) # h
         /\ Position((h + 1) % Capacity, c + 1, c) = h
<1> DEFINE n == (h + 1) % Capacity
<1>1. n = (IF h + 1 = Capacity THEN 0 ELSE h + 1) /\ n \in Slots
  BY NextHead, Limits DEF Slots
<1> HIDE DEF n
<1>2. ASSUME NEW i \in 0..(c - 1)
      PROVE  Position(n, c + 1, i) = Position(h, c, i) /\ Position(h, c, i) # h
  <2>1. /\ c \in 0..Capacity /\ c + 1 \in 0..Capacity
        /\ i \in 0..((c + 1) - 1)
    BY Limits
  <2>2. Position(h, c, i) = IF h + i < c THEN h - c + i + Capacity
                                         ELSE h - c + i
    BY <2>1, PositionIs
  <2>3. Position(n, c + 1, i) = IF n + i < c + 1 THEN n - (c + 1) + i + Capacity
                                                 ELSE n - (c + 1) + i
    BY <1>1, <2>1, PositionIs
  <2> QED
    BY <1>1, <2>2, <2>3, Limits DEF Slots
<1>3. Position(n, c + 1, c) = h
  <2>1. c + 1 \in 0..Capacity /\ c \in 0..((c + 1) - 1)
    BY Limits
  <2>2. Position(n, c + 1, c) = IF n + c < c + 1 THEN n - (c + 1) + c + Capacity
                                                 ELSE n - (c + 1) + c
    BY <1>1, <2>1, PositionIs
  <2> QED
    BY <1>1, <2>2, Limits DEF Slots
<1> QED
  BY <1>1, <1>2, <1>3 DEF n

\* In a full ring the new entry takes the oldest one's place, and every other
\* entry moves down by one.
LEMMA FullShiftsByOne ==
  ASSUME NEW h \in Slots
  PROVE  /\ (h + 1) % Capacity \in Slots
         /\ \A i \in 0..(Capacity - 2) :
              /\ Position((h + 1) % Capacity, Capacity, i)
                   = Position(h, Capacity, i + 1)
              /\ Position(h, Capacity, i + 1) # h
         /\ Position((h + 1) % Capacity, Capacity, Capacity - 1) = h
<1> DEFINE n == (h + 1) % Capacity
<1>1. n = (IF h + 1 = Capacity THEN 0 ELSE h + 1) /\ n \in Slots
  BY NextHead, Limits DEF Slots
<1> HIDE DEF n
<1>2. ASSUME NEW i \in 0..(Capacity - 2)
      PROVE  /\ Position(n, Capacity, i) = Position(h, Capacity, i + 1)
             /\ Position(h, Capacity, i + 1) # h
  <2>1. /\ Capacity \in 0..Capacity
        /\ i \in 0..(Capacity - 1) /\ i + 1 \in 0..(Capacity - 1)
    BY Limits
  <2>2. Position(h, Capacity, i + 1) =
          IF h + (i + 1) < Capacity THEN h - Capacity + (i + 1) + Capacity
                                    ELSE h - Capacity + (i + 1)
    BY <2>1, PositionIs
  <2>3. Position(n, Capacity, i) =
          IF n + i < Capacity THEN n - Capacity + i + Capacity
                              ELSE n - Capacity + i
    BY <1>1, <2>1, PositionIs
  <2> QED
    BY <1>1, <2>2, <2>3, Limits DEF Slots
<1>3. Position(n, Capacity, Capacity - 1) = h
  <2>1. Capacity \in 0..Capacity /\ Capacity - 1 \in 0..(Capacity - 1)
    BY Limits
  <2>2. Position(n, Capacity, Capacity - 1) =
          IF n + (Capacity - 1) < Capacity
          THEN n - Capacity + (Capacity - 1) + Capacity
          ELSE n - Capacity + (Capacity - 1)
    BY <1>1, <2>1, PositionIs
  <2> QED
    BY <1>1, <2>2, Limits DEF Slots
<1> QED
  BY <1>1, <1>2, <1>3 DEF n

-----------------------------------------------------------------------------
(* What log() does to the entries getLog() finds.                          *)

RingTypes ==
  /\ logs \in [Slots -> Entries]
  /\ head \in Slots /\ count \in 0..Capacity
  /\ errorCount \in 0..logged /\ logged \in 0..MaxLogs
  /\ count <= logged

NewEntry(level) == [level |-> level, number |-> logged + 1]

\* While the ring fills the entries stay where they are.
LEMMA FillingLog ==
  ASSUME RingTypes, NEW level \in Levels, Log(level), count < Capacity
  PROVE  /\ count' = count + 1 /\ head' \in Slots
         /\ logs' \in [Slots -> Entries]
         /\ \A i \in 0..(count - 1) : GetLog(i)' = GetLog(i)
         /\ \A i : i = count => GetLog(i)' = NewEntry(level)
<1>1. /\ head \in Slots /\ count \in 0..(Capacity - 1)
      /\ logs \in [Slots -> Entries] /\ logged + 1 \in 0..MaxLogs
  BY Limits DEF RingTypes, Log
<1>2. /\ head' = (head + 1) % Capacity /\ count' = count + 1
      /\ logs' = [logs EXCEPT ![head] = NewEntry(level)]
  BY DEF Log, NewEntry
<1>3. NewEntry(level) \in Entries
  BY <1>1 DEF NewEntry, Entries
<1>4. \A i \in 0..(count - 1) : Position(head, count, i) \in Slots
  BY <1>1, PositionIs, Limits
<1>5. /\ head' \in Slots
      /\ \A i \in 0..(count - 1) :
           /\ Position(head', count', i) = Position(head, count, i)
           /\ Position(head, count, i) # head
      /\ Position(head', count', count) = head
  BY <1>1, <1>2, FillingShiftsNothing
<1>6. logs' \in [Slots -> Entries]
  BY <1>1, <1>2, <1>3
<1>7. /\ \A i : GetLog(i) = logs[Position(head, count, i)]
      /\ \A i : GetLog(i)' = logs'[Position(head', count', i)]
  BY DEF GetLog, ActualIndex, Position
<1> QED
  BY <1>1, <1>2, <1>4, <1>5, <1>6, <1>7

\* In a full ring every entry moves down by one.
LEMMA FullLog ==
  ASSUME RingTypes, NEW level \in Levels, Log(level), count = Capacity
  PROVE  /\ count' = Capacity /\ logs' \in [Slots -> Entries] /\ head' \in Slots
         /\ \A i \in 0..(Capacity - 2) : GetLog(i)' = GetLog(i + 1)
         /\ \A i : i = Capacity - 1 => GetLog(i)' = NewEntry(level)
<1>1. /\ head \in Slots /\ logs \in [Slots -> Entries]
      /\ logged + 1 \in 0..MaxLogs
  BY Limits DEF RingTypes, Log
<1>2. /\ head' = (head + 1) % Capacity /\ count' = Capacity
      /\ logs' = [logs EXCEPT ![head] = NewEntry(level)]
  BY Limits DEF Log, NewEntry
<1>3. NewEntry(level) \in Entries
  BY <1>1 DEF NewEntry, Entries
<1>4. \A i \in 0..(Capacity - 2) : Position(head, Capacity, i + 1) \in Slots
  <2> TAKE i \in 0..(Capacity - 2)
  <2>1. Capacity \in 0..Capacity /\ i + 1 \in 0..(Capacity - 1)
    BY Limits
  <2> QED
    BY <1>1, <2>1, PositionIs
<1>5. /\ head' \in Slots
      /\ \A i \in 0..(Capacity - 2) :
           /\ Position(head', Capacity, i) = Position(head, Capacity, i + 1)
           /\ Position(head, Capacity, i + 1) # head
      /\ Position(head', Capacity, Capacity - 1) = head
  BY <1>1, <1>2, FullShiftsByOne
<1>6. logs' \in [Slots -> Entries]
  BY <1>1, <1>2, <1>3
<1>7. /\ \A i : GetLog(i) = logs[Position(head, Capacity, i)]
      /\ \A i : GetLog(i)' = logs'[Position(head', Capacity, i)]
  BY <1>2 DEF GetLog, ActualIndex, Position
<1> QED
  BY <1>1, <1>2, <1>4, <1>5, <1>6, <1>7

-----------------------------------------------------------------------------
(* The inductive invariant.                                                *)

\* The entries are the last ones logged, in their order.
Numbered == \A i \in 0..(count - 1) :
              GetLog(i).number = logged - count + i + 1

IndRing == RingTypes /\ Numbered

\* init() leaves a ring without entries.
LEMMA RingInit == Init => IndRing
BY Limits DEF Init, IndRing, RingTypes, Numbered, Slots, Entries, NoEntry

\* Every step keeps the ring in order.
LEMMA RingStep == IndRing /\ [Next]_vars => IndRing'
<1> SUFFICES ASSUME IndRing, [Next]_vars PROVE IndRing'
  OBVIOUS
<1>1. ASSUME NEW level \in Levels, Log(level) PROVE IndRing'
  <2>1. /\ logged' = logged + 1 /\ logged' \in 0..MaxLogs
        /\ errorCount' \in 0..logged'
    BY <1>1, Limits DEF IndRing, RingTypes, Log
  <2>2. CASE count < Capacity
    <3>1. /\ count' = count + 1 /\ head' \in Slots
          /\ logs' \in [Slots -> Entries]
          /\ \A i \in 0..(count - 1) : GetLog(i)' = GetLog(i)
          /\ \A i : i = count => GetLog(i)' = NewEntry(level)
      BY <1>1, <2>2, FillingLog DEF IndRing
    <3>2. ASSUME NEW i \in 0..(count' - 1)
          PROVE  GetLog(i)'.number = logged' - count' + i + 1
      <4>1. CASE i = count
        BY <2>1, <3>1, <4>1 DEF NewEntry, IndRing, RingTypes
      <4>2. CASE i # count
        <5>1. i \in 0..(count - 1)
          BY <3>1, <4>2 DEF IndRing, RingTypes
        <5>2. GetLog(i).number = logged - count + i + 1
          BY <5>1 DEF IndRing, Numbered
        <5>3. GetLog(i)'.number = GetLog(i).number
          BY <3>1, <5>1
        <5> QED
          BY <2>1, <3>1, <5>1, <5>2, <5>3, Limits DEF IndRing, RingTypes
      <4> QED
        BY <4>1, <4>2
    <3> QED
      BY <2>1, <2>2, <3>1, <3>2, Limits DEF IndRing, RingTypes, Numbered
  <2>3. CASE count = Capacity
    <3>1. /\ count' = Capacity /\ head' \in Slots
          /\ logs' \in [Slots -> Entries]
          /\ \A i \in 0..(Capacity - 2) : GetLog(i)' = GetLog(i + 1)
          /\ \A i : i = Capacity - 1 => GetLog(i)' = NewEntry(level)
      BY <1>1, <2>3, FullLog DEF IndRing
    <3>2. ASSUME NEW i \in 0..(count' - 1)
          PROVE  GetLog(i)'.number = logged' - count' + i + 1
      <4>1. CASE i = Capacity - 1
        BY <2>1, <2>3, <3>1, <4>1, Limits DEF NewEntry, IndRing, RingTypes
      <4>2. CASE i # Capacity - 1
        <5>1. i \in 0..(Capacity - 2) /\ i + 1 \in 0..(count - 1)
          BY <2>3, <3>1, <4>2, Limits
        <5>2. GetLog(i + 1).number = logged - count + (i + 1) + 1
          BY <5>1 DEF IndRing, Numbered
        <5>3. GetLog(i)'.number = GetLog(i + 1).number
          BY <3>1, <5>1
        <5> QED
          BY <2>1, <2>3, <3>1, <5>1, <5>2, <5>3, Limits DEF IndRing, RingTypes
      <4> QED
        BY <4>1, <4>2
    <3> QED
      BY <2>1, <2>3, <3>1, <3>2, Limits DEF IndRing, RingTypes, Numbered
  <2> QED
    BY <2>2, <2>3, Limits DEF IndRing, RingTypes
<1>2. CASE UNCHANGED ringVars
  BY <1>2 DEF ringVars, IndRing, RingTypes, Numbered, GetLog, ActualIndex
<1> QED
  BY <1>1, <1>2 DEF Next, StartReport, ReadEntry, EndReport, vars

\* So the ring is in order in every state of every behaviour.
LEMMA RingAlways == Spec => []IndRing
BY RingInit, RingStep, PTL DEF Spec

-----------------------------------------------------------------------------
(* The ring implements the bounded log.                                    *)

\* What is kept is a sequence of entries.
LEMMA KeptIsSeq ==
  ASSUME RingTypes
  PROVE  Kept \in Seq(Entries) /\ Len(Kept) = count
<1>1. ASSUME NEW i \in 1..count PROVE GetLog(i - 1) \in Entries
  <2>1. /\ head \in Slots /\ count \in 0..Capacity
        /\ i - 1 \in 0..(count - 1)
    BY Limits DEF RingTypes
  <2>2. Position(head, count, i - 1) \in Slots
    BY <2>1, PositionIs
  <2> QED
    BY <2>2 DEF RingTypes, GetLog, ActualIndex, Position
<1>2. count \in Nat
  BY Limits DEF RingTypes
<1> QED
  BY <1>1, <1>2 DEF Kept

\* log() appends, and drops the oldest entry when there are too many.
LEMMA LogRefines ==
  ASSUME IndRing, NEW level \in Levels, Log(level)
  PROVE  Abstract!Log(level)
<1> DEFINE e == NewEntry(level)
           s == Append(Kept, e)
<1>1. RingTypes /\ RingTypes' /\ count \in Nat /\ logged \in Nat
  <2>1. [Next]_vars
    BY DEF Next
  <2> QED
    BY <2>1, RingStep, Limits DEF IndRing, RingTypes
<1>2. Kept \in Seq(Entries) /\ Len(Kept) = count /\ e \in Entries
  BY <1>1, KeptIsSeq, Limits DEF Entries, Log, NewEntry, RingTypes
<1>3. /\ s \in Seq(Entries) /\ Len(s) = count + 1
      /\ \A i \in 1..count : s[i] = GetLog(i - 1)
      /\ s[count + 1] = e
  BY <1>1, <1>2 DEF Kept
<1>4. Kept' = [i \in 1..count' |-> GetLog(i - 1)']
  BY DEF Kept
<1> HIDE DEF e, s
<1>5. Kept' = Abstract!Newest(s)
  <2>1. CASE count < Capacity
    <3>1. /\ count' = count + 1
          /\ \A i \in 0..(count - 1) : GetLog(i)' = GetLog(i)
          /\ \A i : i = count => GetLog(i)' = e
      BY <1>1, <2>1, FillingLog DEF e
    <3>2. ASSUME NEW i \in 1..(count + 1) PROVE GetLog(i - 1)' = s[i]
      <4>1. CASE i = count + 1
        BY <1>1, <1>3, <3>1, <4>1
      <4>2. CASE i # count + 1
        <5>1. i \in 1..count /\ i - 1 \in 0..(count - 1)
          BY <1>1, <4>2
        <5> QED
          BY <1>3, <3>1, <5>1
      <4> QED
        BY <4>1, <4>2
    <3>3. s = [i \in 1..(count + 1) |-> s[i]]
      BY <1>3
    <3>4. Kept' = s
      BY <1>4, <3>1, <3>2, <3>3
    <3> QED
      BY <1>1, <1>3, <2>1, <3>4, Limits DEF Abstract!Newest
  <2>2. CASE count = Capacity
    <3>1. /\ count' = Capacity
          /\ \A i \in 0..(Capacity - 2) : GetLog(i)' = GetLog(i + 1)
          /\ \A i : i = Capacity - 1 => GetLog(i)' = e
      BY <1>1, <2>2, FullLog DEF e
    <3>2. ASSUME NEW i \in 1..Capacity PROVE GetLog(i - 1)' = s[i + 1]
      <4>1. CASE i = Capacity
        BY <1>3, <2>2, <3>1, <4>1
      <4>2. CASE i # Capacity
        <5>1. i + 1 \in 1..count /\ i - 1 \in 0..(Capacity - 2)
          BY <2>2, <4>2, Limits
        <5>2. GetLog(i - 1)' = GetLog((i - 1) + 1)
          BY <3>1, <5>1
        <5>3. s[i + 1] = GetLog((i + 1) - 1)
          BY <1>3, <5>1
        <5>4. (i - 1) + 1 = (i + 1) - 1
          BY <5>1
        <5> QED
          BY <5>2, <5>3, <5>4
      <4> QED
        BY <4>1, <4>2
    <3>3. /\ Tail(s) \in Seq(Entries) /\ Len(Tail(s)) = Capacity
          /\ \A i \in 1..Capacity : Tail(s)[i] = s[i + 1]
      <4>1. s # <<>>
        BY <1>3, <2>2, Limits
      <4> QED
        BY <1>3, <2>2, <4>1, HeadTailProperties, Limits
    <3> DEFINE t == Tail(s)
    <3>4. t = [i \in 1..Capacity |-> t[i]]
      <4> HIDE DEF t
      <4> SUFFICES ASSUME t \in Seq(Entries), Len(t) = Capacity
                   PROVE  t = [i \in 1..Capacity |-> t[i]]
        BY <3>3 DEF t
      <4> QED
        OBVIOUS
    <3>5. Kept' = Tail(s)
      BY <1>4, <3>1, <3>2, <3>3, <3>4
    <3> QED
      BY <1>3, <2>2, <3>5, Limits DEF Abstract!Newest
  <2> QED
    BY <2>1, <2>2, <1>1, Limits DEF RingTypes
<1>6. errorCount' = IF level = Error THEN errorCount + 1 ELSE errorCount
  BY <1>1, Limits DEF Log, RingTypes
<1>7. logged < MaxLogs /\ logged' = logged + 1
  BY DEF Log
<1> QED
  BY <1>5, <1>6, <1>7 DEF Abstract!Log, e, s, NewEntry

\* Whoever calls getLog() with the indices 0 to getLogCount() - 1 sees the last
\* MAX_LOG_ENTRIES entries, oldest first: the ring implements BoundedLog.
THEOREM RingKeepsTheLastEntries == Spec => KeepsTheLastEntries
<1>1. Init => Abstract!Init
  BY DEF Init, Abstract!Init, Kept
<1>2. IndRing /\ [Next]_vars => [Abstract!Next]_<<Kept, errorCount, logged>>
  <2> SUFFICES ASSUME IndRing, [Next]_vars
               PROVE  [Abstract!Next]_<<Kept, errorCount, logged>>
    OBVIOUS
  <2>1. ASSUME NEW level \in Levels, Log(level) PROVE Abstract!Next
    BY <2>1, LogRefines DEF Abstract!Next
  <2>2. CASE UNCHANGED ringVars
    BY <2>2 DEF ringVars, Kept, GetLog, ActualIndex
  <2> QED
    BY <2>1, <2>2 DEF Next, StartReport, ReadEntry, EndReport, vars
<1> QED
  BY <1>1, <1>2, RingAlways, PTL DEF Spec, KeepsTheLastEntries, Abstract!Spec

-----------------------------------------------------------------------------
(* GET /logs.                                                              *)

\* The next entry to be read is newer than all that are in the reply.
IndReport ==
  /\ report \in Seq(Nat) /\ next \in Nat /\ total \in Nat
  /\ Len(report) = next /\ next <= total /\ total <= count
  /\ \A k \in 1..Len(report) : report[k] <= logged - count + next
  /\ ReportInOrder

\* Logging in between does not disturb a reply, and reading extends it.
LEMMA ReportStep == IndRing /\ IndReport /\ [Next]_vars => IndReport'
<1> SUFFICES ASSUME IndRing, IndReport, [Next]_vars PROVE IndReport'
  OBVIOUS
<1>1. /\ count \in 0..Capacity /\ logged \in Nat /\ count <= logged
      /\ Capacity \in Nat
  BY Limits DEF IndRing, RingTypes
<1>2. ASSUME NEW level \in Levels, Log(level) PROVE IndReport'
  <2>1. /\ logged' = logged + 1 /\ count' \in {count, count + 1}
        /\ logged' - count' >= logged - count /\ count' >= count
    BY <1>1, <1>2 DEF Log
  <2>2. UNCHANGED readerVars
    BY <1>2 DEF Log
  <2>3. \A k \in 1..Len(report) : report[k] <= logged' - count' + next
    <3> TAKE k \in 1..Len(report)
    <3>1. report[k] \in Nat /\ report[k] <= logged - count + next
      BY DEF IndReport
    <3> QED
      BY <1>1, <2>1, <3>1 DEF IndReport
  <2> QED
    BY <1>1, <2>1, <2>2, <2>3 DEF IndReport, ReportInOrder, readerVars
<1>3. CASE StartReport
  BY <1>1, <1>3 DEF StartReport, IndReport, ReportInOrder, ringVars
<1>4. CASE ReadEntry
  <2>1. next < count /\ next \in 0..(count - 1)
    BY <1>1, <1>4 DEF ReadEntry, IndReport
  <2> DEFINE number == GetLog(next).number
  <2>2. number = logged - count + next + 1 /\ number \in Nat
    BY <1>1, <2>1 DEF IndRing, Numbered
  <2>3. /\ report' = Append(report, number) /\ next' = next + 1
        /\ next < total
        /\ UNCHANGED <<count, logged, total>>
    BY <1>1, <1>4, <2>1 DEF ReadEntry, ringVars, IndReport
  <2> HIDE DEF number
  <2>4. /\ report' \in Seq(Nat) /\ Len(report') = Len(report) + 1
        /\ \A k \in 1..Len(report) : report'[k] = report[k]
        /\ report'[Len(report) + 1] = number
    BY <2>2, <2>3 DEF IndReport
  <2>5. \A k \in 1..Len(report) : report'[k] < number
    <3> TAKE k \in 1..Len(report)
    <3>1. report[k] \in Nat /\ report[k] <= logged - count + next
      BY DEF IndReport
    <3> QED
      BY <1>1, <2>2, <2>4, <3>1 DEF IndReport
  <2>6. \A k \in 1..Len(report') : report'[k] <= logged' - count' + next'
    <3> TAKE k \in 1..Len(report')
    <3>1. k \in 1..Len(report) \/ k = Len(report) + 1
      BY <2>4 DEF IndReport
    <3>2. report'[k] \in Nat /\ report'[k] <= number
      BY <2>2, <2>4, <2>5, <3>1
    <3> QED
      BY <1>1, <2>2, <2>3, <3>2 DEF IndReport
  <2>7. ReportInOrder'
    <3> SUFFICES ASSUME NEW i \in 1..Len(report'), NEW j \in 1..Len(report'),
                        i < j
                 PROVE  report'[i] < report'[j]
      BY DEF ReportInOrder
    <3>1. /\ i \in 1..Len(report)
          /\ j \in 1..Len(report) \/ j = Len(report) + 1
      BY <2>4 DEF IndReport
    <3> QED
      BY <2>4, <2>5, <3>1 DEF IndReport, ReportInOrder
  <2> QED
    BY <1>1, <2>3, <2>4, <2>6, <2>7 DEF IndReport
<1>5. CASE EndReport
  BY <1>5 DEF EndReport, IndReport, ReportInOrder, ringVars
<1>6. CASE UNCHANGED vars
  BY <1>6 DEF vars, ringVars, readerVars, IndReport, ReportInOrder
<1> QED
  BY <1>2, <1>3, <1>4, <1>5, <1>6 DEF Next

\* So a reply is in order, and full, in every state of every behaviour.
LEMMA ReportAlways == Spec => []IndReport
<1>1. Init => IndReport
  BY DEF Init, IndReport, ReportInOrder
<1> QED
  BY <1>1, RingAlways, ReportStep, PTL DEF Spec

\* GET /logs reports every entry at most once, in the order of the log() calls,
\* however many of them come while it is being answered.
THEOREM ReportsInOrder == Spec => []ReportInOrder
<1>1. IndReport => ReportInOrder
  BY DEF IndReport
<1> QED
  BY <1>1, ReportAlways, PTL

\* It leaves no index out: what it has read so far is all there.
THEOREM ReportsAreFull == Spec => []ReportIsFull
<1>1. IndReport => ReportIsFull
  BY DEF IndReport, ReportIsFull
<1> QED
  BY <1>1, ReportAlways, PTL

-----------------------------------------------------------------------------
(* Types.                                                                  *)

ReportTypes == reading \in BOOLEAN /\ report \in Seq(1..MaxLogs)

\* A reply has nothing but numbers of entries in it.
LEMMA ReportTypesStep ==
  IndRing /\ IndReport /\ ReportTypes /\ [Next]_vars => ReportTypes'
<1> SUFFICES ASSUME IndRing, IndReport, ReportTypes, [Next]_vars
             PROVE  ReportTypes'
  OBVIOUS
<1>1. ASSUME NEW level \in Levels, Log(level) PROVE ReportTypes'
  BY <1>1 DEF Log, readerVars, ReportTypes
<1>2. CASE StartReport
  BY <1>2 DEF StartReport, ReportTypes
<1>3. CASE ReadEntry
  <2>1. /\ count \in 0..Capacity /\ logged \in 0..MaxLogs
        /\ count <= logged /\ next \in 0..(count - 1)
    BY <1>3, Limits DEF IndRing, RingTypes, ReadEntry, IndReport
  <2>2. GetLog(next).number = logged - count + next + 1
    BY <2>1 DEF IndRing, Numbered
  <2>3. logged - count + next + 1 \in 1..MaxLogs
    BY <2>1, Limits
  <2>4. report' = Append(report, GetLog(next).number)
    BY <1>3, <2>1, Limits DEF ReadEntry
  <2>5. report' \in Seq(1..MaxLogs)
    BY <2>2, <2>3, <2>4 DEF ReportTypes
  <2> QED
    BY <1>3, <2>5 DEF ReadEntry, ReportTypes
<1>4. CASE EndReport
  BY <1>4 DEF EndReport, ReportTypes
<1>5. CASE UNCHANGED vars
  BY <1>5 DEF vars, readerVars, ReportTypes
<1> QED
  BY <1>1, <1>2, <1>3, <1>4, <1>5 DEF Next

\* Every variable keeps its type; no index leaves the ring.
THEOREM TypeCorrect == Spec => []TypeOK
<1>1. Init => ReportTypes
  <2>1. <<>> \in Seq(1..MaxLogs)
    OBVIOUS
  <2>2. Init => reading \in BOOLEAN /\ report = <<>>
    BY DEF Init
  <2> QED
    BY <2>1, <2>2 DEF ReportTypes
<1>2. IndRing /\ IndReport /\ ReportTypes => TypeOK
  <2> SUFFICES ASSUME IndRing, IndReport, ReportTypes PROVE TypeOK
    OBVIOUS
  <2>1. errorCount \in 0..MaxLogs
    BY Limits DEF IndRing, RingTypes
  <2>2. total \in 0..Capacity /\ next \in 0..Capacity
    BY Limits DEF IndRing, RingTypes, IndReport
  <2> QED
    BY <2>1, <2>2 DEF TypeOK, IndRing, RingTypes, ReportTypes
<1> QED
  BY <1>1, <1>2, RingAlways, ReportAlways, ReportTypesStep, PTL DEF Spec
=============================================================================
