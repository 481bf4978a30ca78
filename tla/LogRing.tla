------------------------------ MODULE LogRing ------------------------------
(***************************************************************************)
(* Logger (firmware/common/include/Logger.h): a ring of MAX_LOG_ENTRIES    *)
(* entries behind a mutex, and the GET /logs handler that reads it entry by*)
(* entry, taking the mutex anew for each (firmware/core/main.cpp).  Other  *)
(* threads may log in between, as the comment above the class expects;     *)
(* today none does, so that this is more than can happen.                  *)
(*                                                                         *)
(* An entry's text is abstracted to its number in the order of the calls.  *)
(* Each method is one action: it runs under m_mutex from end to end.       *)
(***************************************************************************)
EXTENDS Integers, Sequences

CONSTANTS
  Levels, Error,  \* LogLevel, and LOG_LEVEL_ERROR
  Capacity,       \* MAX_LOG_ENTRIES (50)
  Wrap,           \* where a u32 wraps around (2^32)
  MaxLogs         \* bound: calls of log()

ASSUME ConstantsAssumption ==
  /\ Error \in Levels
  /\ Capacity \in Nat \ {0} /\ MaxLogs \in Nat
  /\ Wrap \in Nat /\ Wrap > 2 * Capacity /\ Wrap > MaxLogs

VARIABLES
  logs,        \* m_logs
  head,        \* m_head
  count,       \* m_count
  errorCount,  \* m_errorCount
  logged,      \* history: the number of log() calls
  reading,     \* GET /logs is being answered
  total,       \* its count: getLogCount() at the start
  next,        \* its i
  report       \* the numbers of the entries in its reply so far

ringVars   == <<logs, head, count, errorCount, logged>>
readerVars == <<reading, total, next, report>>
vars       == <<ringVars, readerVars>>

Slots   == 0..(Capacity - 1)
NoEntry == [level |-> Error, number |-> 0]
Entries == [level : Levels, number : 0..MaxLogs]

TypeOK ==
  /\ logs \in [Slots -> Entries]
  /\ head \in Slots /\ count \in 0..Capacity
  /\ errorCount \in 0..MaxLogs /\ logged \in 0..MaxLogs
  /\ reading \in BOOLEAN
  /\ total \in 0..Capacity /\ next \in 0..Capacity
  /\ report \in Seq(1..MaxLogs)

\* init()
Init ==
  /\ logs = [s \in Slots |-> NoEntry]
  /\ head = 0 /\ count = 0 /\ errorCount = 0 /\ logged = 0
  /\ reading = FALSE /\ total = 0 /\ next = 0 /\ report = <<>>

-----------------------------------------------------------------------------

\* (mutant: m_count goes on counting)
LogCountsOn(level) ==
  /\ logged < MaxLogs
  /\ logged' = logged + 1
  /\ logs' = [logs EXCEPT ![head] = [level |-> level, number |-> logged']]
  /\ head' = (head + 1) % Capacity
  /\ count' = (count + 1) % Wrap
  /\ errorCount' = IF level = Error THEN (errorCount + 1) % Wrap ELSE errorCount
  /\ UNCHANGED readerVars

\* (mutant: a full ring is started over)
LogStartsOver(level) ==
  /\ logged < MaxLogs
  /\ logged' = logged + 1
  /\ logs' = [logs EXCEPT ![head] = [level |-> level, number |-> logged']]
  /\ head' = (head + 1) % Capacity
  /\ count' = IF count < Capacity THEN count + 1 ELSE 1
  /\ errorCount' = IF level = Error THEN (errorCount + 1) % Wrap ELSE errorCount
  /\ UNCHANGED readerVars

\* log(level, message).  m_count stops at MAX_LOG_ENTRIES and so never reaches
\* 0xFFFFFFF0, from where on log() would return at once.
Log(level) ==
  /\ logged < MaxLogs
  /\ logged' = logged + 1
  /\ logs' = [logs EXCEPT ![head] = [level |-> level, number |-> logged']]
  /\ head' = (head + 1) % Capacity
  /\ count' = IF count < Capacity THEN count + 1 ELSE count
  /\ errorCount' = IF level = Error THEN (errorCount + 1) % Wrap ELSE errorCount
  /\ UNCHANGED readerVars

\* (mutant: the oldest entry is looked for at the start of the ring)
ActualIndexFromStart(index) == index % Capacity

\* (mutant: index 0 is the newest entry's slot)
ActualIndexFromHead(index) == ((head - 1 + index + Capacity) % Wrap) % Capacity

\* getLog(): where the entry with a logical index is.  The u32 difference may
\* wrap below zero, and comes back when MAX_LOG_ENTRIES is added.
ActualIndex(index) == ((head - count + index + Capacity) % Wrap) % Capacity

GetLog(index) == logs[ActualIndex(index)]

-----------------------------------------------------------------------------
(* GET /logs.                                                              *)

StartReport ==
  /\ ~reading
  /\ reading' = TRUE
  /\ total' = count /\ next' = 0 /\ report' = <<>>
  /\ UNCHANGED ringVars

\* getLog(i) copies the entry out under the mutex; an index that is out of
\* range is left out.
ReadEntry ==
  /\ reading /\ next < total
  /\ report' = IF next >= count THEN report
                                ELSE Append(report, GetLog(next).number)
  /\ next' = next + 1
  /\ UNCHANGED <<ringVars, reading, total>>

EndReport ==
  /\ reading /\ next >= total
  /\ reading' = FALSE
  /\ UNCHANGED <<ringVars, total, next, report>>

-----------------------------------------------------------------------------

Next == \/ \E level \in Levels : Log(level)
        \/ StartReport \/ ReadEntry \/ EndReport

Spec == Init /\ [][Next]_vars

-----------------------------------------------------------------------------
(* Properties.                                                             *)

\* The ring keeps the last MAX_LOG_ENTRIES entries, oldest first, whatever
\* getLog()'s arithmetic on m_head and m_count wraps around.
Kept == [i \in 1..count |-> GetLog(i - 1)]

Abstract == INSTANCE BoundedLog WITH entries <- Kept, errors <- errorCount

KeepsTheLastEntries == Abstract!Spec

\* However many entries are logged while GET /logs is being answered, its
\* reply has each entry at most once and in the order they were logged.
ReportInOrder ==
  \A i, j \in 1..Len(report) : i < j => report[i] < report[j]

\* And it has as many entries as the ring had at the start: for each one that
\* is overwritten meanwhile a newer one moves up.
ReportIsFull == Len(report) = next
=============================================================================
