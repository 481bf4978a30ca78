---------------------------- MODULE Coordinator ----------------------------
(***************************************************************************)
(* SwitchDataUpdateCoordinator of the Home Assistant integration           *)
(* (custom_components/nxremoteapi/coordinator.py) with its API client      *)
(* (api.py): one refresh asks the console for /info, GitHub twice, and the *)
(* console again for /titles and /logs, all of it under a single limit of  *)
(* ten seconds.  What Home Assistant's DataUpdateCoordinator does with the *)
(* outcome is modelled as far as it can be seen from here.                 *)
(*                                                                         *)
(* Of the data only the sleep_mode flag is kept.  The inner limits of ten  *)
(* seconds never fire: the outer one began earlier, and its cancellation   *)
(* is no Exception that get_firmware_update() would catch.                 *)
(***************************************************************************)

CONSTANT None  \* no data yet

VARIABLES
  stage,      \* what _async_update_data() is waiting for
  sleepMode,  \* self.sleep_mode
  interval,   \* self.update_interval
  data,       \* self.data, as far as its sleep_mode goes
  available,  \* last_update_success: whether the entities are available
  outcome     \* history: how the last refresh ended

coordVars == <<stage, sleepMode, interval, data, available, outcome>>

ASSUME NoneAssumption == None \notin {"awake", "asleep"}

Console == {"info", "titles", "logs"}
GitHub  == {"firmware", "app"}

TypeOK ==
  /\ stage \in {"idle"} \cup Console \cup GitHub
  /\ sleepMode \in BOOLEAN
  /\ interval \in {"normal", "sleep"}
  /\ data \in {"awake", "asleep", None}
  /\ available \in BOOLEAN
  /\ outcome \in {"none", "answered", "unreachable", "error"}

\* The entry is set up: a coordinator of its own, and its first refresh.
Created ==
  /\ stage' = "info" /\ sleepMode' = FALSE /\ interval' = "normal"
  /\ data' = None /\ available' = FALSE /\ outcome' = "none"

Init ==
  /\ stage = "info" /\ sleepMode = FALSE /\ interval = "normal"
  /\ data = None /\ available = FALSE /\ outcome = "none"

\* The interval is over, an entity asks for a refresh, or the setup is tried
\* again.
StartRefresh ==
  /\ stage = "idle"
  /\ stage' = "info"
  /\ UNCHANGED <<sleepMode, interval, data, available, outcome>>

\* (mutant: the interval is left at five minutes)
InfoKeepsInterval ==
  /\ stage = "info" /\ sleepMode' = FALSE
  /\ stage' = "firmware"
  /\ UNCHANGED <<interval, data, available, outcome>>

\* /info is answered: the console is online.
InfoAnswered ==
  /\ stage = "info"
  /\ sleepMode' = FALSE
  /\ interval' = IF sleepMode THEN "normal" ELSE interval
  /\ stage' = "firmware"
  /\ UNCHANGED <<data, available, outcome>>

\* GitHub answers, or it does not and latest_version is None.
GitHubDone ==
  /\ stage \in GitHub
  /\ stage' = IF stage = "firmware" THEN "app" ELSE "titles"
  /\ UNCHANGED <<sleepMode, interval, data, available, outcome>>

TitlesAnswered ==
  /\ stage = "titles"
  /\ stage' = "logs"
  /\ UNCHANGED <<sleepMode, interval, data, available, outcome>>

\* The last answer: the refresh has succeeded.
LogsAnswered ==
  /\ stage = "logs"
  /\ stage' = "idle"
  /\ data' = "awake" /\ available' = TRUE /\ outcome' = "answered"
  /\ UNCHANGED <<sleepMode, interval>>

\* (mutant: only the first failure returns the old data)
UnreachableOnce ==
  /\ stage # "idle" /\ stage' = "idle" /\ outcome' = "unreachable"
  /\ IF ~sleepMode /\ data # None
     THEN /\ sleepMode' = TRUE /\ interval' = "sleep"
          /\ data' = "asleep" /\ available' = TRUE
     ELSE available' = FALSE /\ UNCHANGED <<sleepMode, interval, data>>

\* A ClientError, or the ten seconds are over: from then on the coordinator is
\* in sleep mode if it has data, and returns the old data with sleep_mode set.
Unreachable ==
  /\ stage # "idle"
  /\ stage' = "idle" /\ outcome' = "unreachable"
  /\ IF ~sleepMode /\ data # None
     THEN sleepMode' = TRUE /\ interval' = "sleep"
     ELSE UNCHANGED <<sleepMode, interval>>
  /\ IF sleepMode'
     THEN data' = "asleep" /\ available' = TRUE
     ELSE available' = FALSE /\ UNCHANGED data

\* Any other exception: an answer is no JSON, or /info is no object, which the
\* first update() of its data shows.  UpdateFailed.
UnknownError ==
  /\ stage \in Console \cup {"firmware"}
  /\ stage' = "idle"
  /\ available' = FALSE /\ outcome' = "error"
  /\ UNCHANGED <<sleepMode, interval, data>>

Next == \/ Created \/ StartRefresh
        \/ InfoAnswered \/ GitHubDone \/ TitlesAnswered \/ LogsAnswered
        \/ Unreachable \/ UnknownError

Spec == Init /\ [][Next]_coordVars

-----------------------------------------------------------------------------
(* Properties.                                                             *)

\* The long interval goes with sleep mode, always; and between refreshes the
\* entities that are available show the mode the coordinator is in, although
\* it leaves that mode before it knows how its refresh will end.
ModeShown ==
  /\ interval = "sleep" <=> sleepMode
  /\ stage = "idle" /\ available => (data = "asleep" <=> sleepMode)

\* Once there is data, a console or a GitHub out of reach never makes the
\* entities unavailable (docs/architecture.md, "Clients"): only an answer that
\* makes no sense does, and no longer than until the next refresh ends.
KeptAvailable == data # None /\ ~available => outcome = "error"
=============================================================================
