----------------------------- MODULE BoundedLog -----------------------------
(***************************************************************************)
(* What Logger (firmware/common/include/Logger.h) promises: it keeps the   *)
(* last MAX_LOG_ENTRIES entries, oldest first, and counts the errors of    *)
(* all of them, those it has dropped included.                             *)
(***************************************************************************)
EXTENDS Naturals, Sequences

CONSTANTS Levels, Error, Capacity, MaxLogs

VARIABLES entries, errors, logged

Entries == [level : Levels, number : 1..MaxLogs]

Init == entries = <<>> /\ errors = 0 /\ logged = 0

Newest(s) == IF Len(s) > Capacity THEN Tail(s) ELSE s

Log(level) ==
  /\ logged < MaxLogs
  /\ logged' = logged + 1
  /\ entries' = Newest(Append(entries, [level |-> level, number |-> logged']))
  /\ errors' = IF level = Error THEN errors + 1 ELSE errors

Next == \E level \in Levels : Log(level)

Spec == Init /\ [][Next]_<<entries, errors, logged>>
=============================================================================
