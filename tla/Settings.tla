------------------------------ MODULE Settings ------------------------------
(***************************************************************************)
(* settings.json and the three processes that keep a copy of it in memory: *)
(* ConfigManager (firmware/common/ConfigManager.cpp) as the orchestrator,  *)
(* core and the companion app use it.  Nothing guards the file: save()     *)
(* truncates it in one step and fills it in a later one, a process may     *)
(* load it in between, and a process may end there.                        *)
(*                                                                         *)
(* Of the file only the token and the port are kept apart.  A file of some *)
(* hundred bytes is read, and written, in one piece.                       *)
(***************************************************************************)
EXTENDS Naturals

CONSTANTS
  Tokens,       \* passphrases, made up or chosen by the user
  Blank,        \* an empty m_apiToken
  Ports,        \* values of port
  DefaultPort,  \* 8275
  NoPort,       \* core has not called listen() yet
  Absent, Torn, \* no settings.json; one that is truncated and not yet filled
  SdFails,      \* fopen() or the write behind fclose() may fail
  AppUsed       \* bound: the companion app is opened

Config == [token : Tokens \cup {Blank}, port : Ports]

ASSUME ConstantsAssumption ==
  /\ Tokens # {} /\ Blank \notin Tokens
  /\ DefaultPort \in Ports /\ NoPort \notin Ports
  /\ Absent \notin Config /\ Torn \notin Config /\ Absent # Torn
  /\ {SdFails, AppUsed} \subseteq BOOLEAN

VARIABLES
  file,     \* settings.json
  mem,      \* each process's ConfigManager
  at,       \* where each process stands in load() and save()
  then,     \* where each process goes on after its load() or save()
  bound,    \* the port core's listening socket is bound to
  touched   \* history: since the console's boot somebody else than the
            \* orchestrator and core has written settings.json, or the SD
            \* card has failed

vars == <<file, mem, at, then, bound, touched>>

Procs  == {"orchestrator", "core", "companion"}
Points == {"off", "load", "truncate", "write", "check", "up"}
Fresh  == [token |-> Blank, port |-> DefaultPort]

TypeOK ==
  /\ file \in Config \cup {Absent, Torn}
  /\ mem \in [Procs -> Config]
  /\ at \in [Procs -> Points]
  /\ then \in [Procs -> {"check", "load", "up"}]
  /\ bound \in Ports \cup {NoPort}
  /\ touched \in BOOLEAN

\* The console boots, and boot2 starts the orchestrator.
Boot ==
  /\ mem' = [p \in Procs |-> Fresh]
  /\ at' = [p \in Procs |-> IF p = "orchestrator" THEN "load" ELSE "off"]
  /\ then' = [p \in Procs |-> "up"] /\ bound' = NoPort /\ touched' = FALSE

Init ==
  /\ file \in [token : Tokens, port : Ports] \cup {Absent}
  /\ mem = [p \in Procs |-> Fresh]
  /\ at = [p \in Procs |-> IF p = "orchestrator" THEN "load" ELSE "off"]
  /\ then = [p \in Procs |-> "up"] /\ bound = NoPort /\ touched = FALSE

-----------------------------------------------------------------------------
(* ConfigManager.                                                          *)

Goto(p, q) == at' = [at EXCEPT ![p] = q]

\* p returns from load() or save().
Return(p) ==
  /\ Goto(p, then[p])
  /\ then' = [then EXCEPT ![p] = "up"]

\* generateDefaultConfig()
GenerateDefaultConfig(p) ==
  \E t \in Tokens :
    mem' = [mem EXCEPT ![p] = [token |-> t, port |-> DefaultPort]]

\* What is in memory once the lines have been parsed: a key the file does not
\* have leaves what was there.
Parsed(p) == IF file = Torn THEN mem[p] ELSE file

\* (mutant: an empty file is taken for a good one)
LoadTrustsFile(p) ==
  /\ at[p] = "load" /\ file # Absent
  /\ mem' = [mem EXCEPT ![p] = Parsed(p)] /\ Return(p)
  /\ UNCHANGED <<file, bound, touched>>

\* (mutant: what was read is adopted unseen, a file cut short too)
LoadUnseen(p) ==
  /\ at[p] = "load" /\ file # Absent
  /\ mem' = [mem EXCEPT ![p] = file] /\ Return(p)
  /\ UNCHANGED <<file, bound, touched>>

\* (mutant: a file that is being saved is waited for)
LoadWaits(p) ==
  /\ at[p] = "load" /\ file \notin {Absent, Torn}
  /\ IF file.token = Blank
     THEN GenerateDefaultConfig(p) /\ Goto(p, "truncate") /\ UNCHANGED then
     ELSE mem' = [mem EXCEPT ![p] = file] /\ Return(p)
  /\ UNCHANGED <<file, bound, touched>>

\* load() of a file that can be opened.
Load(p) ==
  /\ at[p] = "load" /\ file # Absent
  /\ IF Parsed(p).token = Blank
     THEN GenerateDefaultConfig(p) /\ Goto(p, "truncate") /\ UNCHANGED then
     ELSE mem' = [mem EXCEPT ![p] = Parsed(p)] /\ Return(p)
  /\ UNCHANGED <<file, bound, touched>>

NewConfig(p) ==
  /\ at[p] = "load"
  /\ GenerateDefaultConfig(p)
  /\ Goto(p, "truncate")
  /\ UNCHANGED <<file, then, bound>>

\* (mutant: defaults are kept in memory and not saved)
LoadMissingUnsaved(p) ==
  /\ at[p] = "load" /\ file = Absent
  /\ GenerateDefaultConfig(p) /\ Return(p)
  /\ UNCHANGED <<file, bound, touched>>

\* load() without a file.
LoadMissing(p) == file = Absent /\ NewConfig(p) /\ UNCHANGED touched

\* load() of a file that is there and cannot be opened: the same.
LoadFails(p) == SdFails /\ file # Absent /\ NewConfig(p) /\ touched' = TRUE

\* save(): fopen(.., "w") ...
Truncate(p) ==
  /\ at[p] = "truncate"
  /\ file' = Torn
  /\ Goto(p, "write")
  /\ touched' = (touched \/ p = "companion")
  /\ UNCHANGED <<mem, then, bound>>

\* ... and fprintf() and fclose().
Write(p) ==
  /\ at[p] = "write"
  /\ file' = mem[p]
  /\ Return(p)
  /\ UNCHANGED <<mem, bound, touched>>

\* Neither is noticed by a caller: the file stays as it was, or empty.
SaveFails(p) ==
  /\ SdFails /\ at[p] \in {"truncate", "write"}
  /\ Return(p)
  /\ touched' = TRUE
  /\ UNCHANGED <<file, mem, bound>>

-----------------------------------------------------------------------------
(* core, which the orchestrator launches once it is up, and again whenever *)
(* it is gone.                                                             *)

\* (mutant: core is launched before the orchestrator has loaded)
LaunchCoreEarly ==
  /\ at["core"] = "off"
  /\ at["orchestrator"] # "off"
  /\ Goto("core", "load")
  /\ mem' = [mem EXCEPT !["core"] = Fresh]
  /\ UNCHANGED <<file, then, bound, touched>>

LaunchCore ==
  /\ at["core"] = "off" /\ at["orchestrator"] = "up"
  /\ Goto("core", "load")
  /\ mem' = [mem EXCEPT !["core"] = Fresh]
  /\ UNCHANGED <<file, then, bound, touched>>

\* create_listen_socket() at the end of main()'s start ...
CoreListens ==
  /\ at["core"] = "up" /\ bound = NoPort
  /\ bound' = mem["core"].port
  /\ UNCHANGED <<file, mem, at, then, touched>>

\* ... and once accept() has failed 25 times, as it does after a sleep.
CoreRelistens ==
  /\ at["core"] = "up" /\ bound # NoPort
  /\ bound' = mem["core"].port
  /\ UNCHANGED <<file, mem, at, then, touched>>

\* (mutant: a token that does not match is refused at once, and there is no
\* other way to reload)
CoreNeverReloads ==
  /\ FALSE
  /\ UNCHANGED vars

\* A request whose token is not the one in memory, POST /reload_config, or,
\* before core listens, main(), which loads three times.
CoreReloads ==
  /\ at["core"] = "up"
  /\ Goto("core", "load")
  /\ UNCHANGED <<file, mem, then, bound, touched>>

-----------------------------------------------------------------------------
(* The companion app's main().                                             *)

OpenApp ==
  /\ AppUsed /\ at["companion"] = "off"
  /\ Goto("companion", "load")
  /\ then' = [then EXCEPT !["companion"] = "check"]
  /\ mem' = [mem EXCEPT !["companion"] = Fresh]
  /\ UNCHANGED <<file, bound, touched>>

\* The last look for a new version is more than a day ago, or it is not.
DailyCheck ==
  /\ at["companion"] = "check"
  /\ \E due \in BOOLEAN : Goto("companion", IF due THEN "truncate" ELSE "up")
  /\ UNCHANGED <<file, mem, then, bound, touched>>

\* ZR: generateDefaultConfig(), save() and load().
Reset ==
  /\ at["companion"] = "up"
  /\ GenerateDefaultConfig("companion")
  /\ Goto("companion", "truncate")
  /\ then' = [then EXCEPT !["companion"] = "load"]
  /\ UNCHANGED <<file, bound, touched>>

-----------------------------------------------------------------------------
(* What else happens.                                                      *)

\* core is terminated or crashes; the user leaves the app, wherever it is.
ProcessEnds(p) ==
  /\ p # "orchestrator" /\ at[p] # "off"
  /\ Goto(p, "off")
  /\ bound' = IF p = "core" THEN NoPort ELSE bound
  /\ UNCHANGED <<file, mem, then, touched>>

\* The user writes the file, or removes it.
UserEdits ==
  /\ file' \in Config \cup {Absent}
  /\ touched' = TRUE
  /\ UNCHANGED <<mem, at, then, bound>>

Reboot == Boot /\ UNCHANGED file

-----------------------------------------------------------------------------

ProcStep(p) == Load(p) \/ LoadMissing(p) \/ Truncate(p) \/ Write(p)

SdFault(p) == LoadFails(p) \/ SaveFails(p)

Next ==
  \/ \E p \in Procs : ProcStep(p) \/ SdFault(p) \/ ProcessEnds(p)
  \/ LaunchCore \/ CoreListens \/ CoreRelistens \/ CoreReloads
  \/ OpenApp \/ DailyCheck \/ Reset
  \/ UserEdits \/ Reboot

Spec == Init /\ [][Next]_vars

(***************************************************************************)
(* Processes go on with what they have begun, the orchestrator launches a  *)
(* core that is gone, and clients go on sending requests, with the token   *)
(* in settings.json among others.                                          *)
(***************************************************************************)
Fairness == /\ WF_vars(ProcStep("orchestrator")) /\ WF_vars(ProcStep("core"))
            /\ WF_vars(ProcStep("companion"))
            /\ WF_vars(LaunchCore) /\ WF_vars(CoreReloads)

FairSpec == Spec /\ Fairness

-----------------------------------------------------------------------------
(* Properties.                                                             *)

\* A process that is through with its first load().
Loaded(p) == at[p] \in {"check", "up"}

\* As long as only the orchestrator and core have written settings.json since
\* the boot, every process holds what it says, however often core was ended
\* and launched, was asked to reload or made up the first token: the token of
\* the API is the token of /self_restart, and the port core listens on is the
\* one the health check and the companion app connect to.
BootAgrees ==
  ~touched => /\ \A p \in Procs : Loaded(p) => mem[p] = file
              /\ bound # NoPort => bound = mem["orchestrator"].port

\* Nobody goes on without a token, whatever file was found: no API with an
\* empty one is ever served.
NobodyWithoutToken == \A p \in Procs : Loaded(p) => mem[p].token # Blank

GoesOn(p) ==
  at[p] \in {"load", "truncate", "write"} => ENABLED <<ProcStep(p)>>_vars

\* No process is ever stuck in load() or save(), whatever another one has made
\* of the file meanwhile, nor is core on its way there.
ProcessesGoOn ==
  /\ GoesOn("orchestrator") /\ GoesOn("core") /\ GoesOn("companion")
  /\ at["core"] = "off" /\ at["orchestrator"] = "up" =>
       ENABLED <<LaunchCore>>_vars
  /\ at["core"] = "up" => ENABLED <<CoreReloads>>_vars

\* What users and the SD card do to settings.json and its readers.
Disturbance ==
  \/ \E p \in Procs : SdFault(p) \/ ProcessEnds(p)
  \/ OpenApp \/ Reset \/ UserEdits \/ Reboot

\* Once nobody meddles any more core ends up with the token in settings.json,
\* by way of the reload a wrong token causes, unless the file was left empty.
CoreLearnsToken ==
  \/ []<><<Disturbance>>_vars
  \/ <>[](\/ file = Torn
          \/ file # Absent /\ file.token = mem["core"].token)

\* Once nobody meddles any more /self_restart takes the token the API takes.
SameTokenForSelfRestart ==
  \/ []<><<Disturbance>>_vars
  \/ <>[](mem["orchestrator"].token = mem["core"].token)
=============================================================================
