-------------------------------- MODULE Home --------------------------------
(***************************************************************************)
(* The integration and the console together: the Coordinator's requests    *)
(* reach core when its socket is bound to the port of the config entry,    *)
(* and a token core does not know makes it load settings.json again before *)
(* it answers.  The console is an instance of Settings and takes no step   *)
(* that Settings does not have; the integration takes none that Coordinator*)
(* does not have.                                                          *)
(*                                                                         *)
(* core's one thread is busy with the request it reloads for, and serves   *)
(* nobody else until it has answered it.                                   *)
(***************************************************************************)
EXTENDS Coordinator

CONSTANTS Tokens, Blank, Ports, DefaultPort, NoPort, Absent, Torn,
          SdFails, AppUsed,
          StartsWith   \* pairs of tokens, the first begins with the second

VARIABLES
  file, mem, at, then, bound, touched,  \* the console, see Settings
  entry,   \* token and port in Home Assistant's config entry
  asking   \* core reloads for a request of the coordinator

S == INSTANCE Settings

ASSUME HomeAssumption ==
  /\ S!ConstantsAssumption
  /\ StartsWith \subseteq Tokens \X Tokens
  /\ \A t \in Tokens : <<t, t>> \in StartsWith

settingsVars == <<file, mem, at, then, bound, touched>>
homeVars == <<coordVars, settingsVars, entry, asking>>

Entries == [token : Tokens, port : Ports]

HomeTypeOK ==
  TypeOK /\ S!TypeOK /\ entry \in Entries /\ asking \in BOOLEAN

HomeInit == Init /\ S!Init /\ entry \in Entries /\ asking = FALSE

-----------------------------------------------------------------------------
(* Requests of the coordinator that reach core.                            *)

\* core's thread is in accept() at the port the coordinator asks.
Accepts == at["core"] = "up" /\ bound = entry.port /\ ~asking

\* core looks for its token in the request, and does not look where the one
\* it finds there ends.
Authorised == <<entry.token, mem["core"].token>> \in StartsWith

AsksWithToken == stage \in {"titles", "logs"}

Serve == TitlesAnswered \/ LogsAnswered

consoleVars == <<settingsVars, entry, asking>>

\* GET /info needs no token.
ServeInfo == Accepts /\ InfoAnswered /\ UNCHANGED consoleVars

\* GET /titles and GET /logs do.
ServeAuthorised ==
  AsksWithToken /\ Accepts /\ Authorised /\ Serve /\ UNCHANGED consoleVars

\* (mutant: core goes on to its 401 without looking into settings.json)
RefuseAtOnce ==
  /\ AsksWithToken /\ Accepts /\ ~Authorised
  /\ asking' = TRUE
  /\ UNCHANGED <<coordVars, settingsVars, entry>>

\* core's token is not in the request: core loads settings.json ...
ReloadForToken ==
  /\ AsksWithToken /\ Accepts /\ ~Authorised
  /\ S!CoreReloads
  /\ asking' = TRUE
  /\ UNCHANGED <<coordVars, entry>>

\* (mutant: a client that has stopped waiting is waited for)
AnswerWhoWaits ==
  /\ asking /\ at["core"] = "up" /\ AsksWithToken
  /\ \/ Authorised /\ Serve
     \/ ~Authorised /\ Unreachable
  /\ asking' = FALSE
  /\ UNCHANGED <<settingsVars, entry>>

\* ... and serves the request, or answers 401, which is a ClientError, unless
\* the coordinator has stopped waiting.
AnswerAfterReload ==
  /\ asking /\ at["core"] = "up"
  /\ \/ AsksWithToken /\ Authorised /\ Serve
     \/ AsksWithToken /\ ~Authorised /\ Unreachable
     \/ ~AsksWithToken /\ UNCHANGED coordVars
  /\ asking' = FALSE
  /\ UNCHANGED <<settingsVars, entry>>

-----------------------------------------------------------------------------
(* What the coordinator and the console do without each other.             *)

Refresh == (StartRefresh \/ GitHubDone) /\ UNCHANGED consoleVars

\* Nobody listens at that port, the network or the ten seconds fail, or what
\* comes back makes no sense.
RefreshFails == (Unreachable \/ UnknownError) /\ UNCHANGED consoleVars

\* The user sets the integration up, with any token and port.
SetUp == /\ Created
         /\ entry' \in Entries
         /\ UNCHANGED <<settingsVars, asking>>

\* A request ends with the core that was serving it.
ConsoleStep ==
  /\ S!Next
  /\ ~(asking /\ (S!CoreReloads \/ S!CoreRelistens))
  /\ asking' = (asking /\ at'["core"] # "off")
  /\ UNCHANGED <<coordVars, entry>>

HomeNext ==
  \/ ServeInfo \/ ServeAuthorised \/ ReloadForToken \/ AnswerAfterReload
  \/ Refresh \/ RefreshFails \/ SetUp \/ ConsoleStep

HomeSpec == HomeInit /\ [][HomeNext]_homeVars

(***************************************************************************)
(* Home Assistant goes on refreshing, a connection that waits in core's    *)
(* accept queue is served when core comes back to accept(), and the        *)
(* console's processes go on.  No other client is assumed.                 *)
(***************************************************************************)
RefreshFairness ==
  /\ WF_homeVars(Refresh) /\ WF_homeVars(AnswerAfterReload)
  /\ SF_homeVars(ServeInfo)
  /\ SF_homeVars(ServeAuthorised \/ ReloadForToken)

ConsoleFairness ==
  /\ WF_homeVars(ConsoleStep /\ S!ProcStep("orchestrator"))
  /\ WF_homeVars(ConsoleStep /\ S!ProcStep("core"))
  /\ WF_homeVars(ConsoleStep /\ S!ProcStep("companion"))
  /\ WF_homeVars(ConsoleStep /\ S!LaunchCore)

HomeFairness == RefreshFairness /\ ConsoleFairness

HomeFairSpec == HomeSpec /\ HomeFairness

-----------------------------------------------------------------------------
(* Properties.                                                             *)

HomeDisturbance ==
  RefreshFails \/ SetUp \/ (ConsoleStep /\ S!Disturbance)

GoesOn(p) ==
  at[p] \in {"load", "truncate", "write"} =>
    ENABLED <<ConsoleStep /\ S!ProcStep(p)>>_homeVars

\* core answers whatever it has reloaded for, and none of the console's
\* processes is stuck while it does; nor is a refresh, as soon as core accepts.
HomeGoesOn ==
  /\ GoesOn("orchestrator") /\ GoesOn("core") /\ GoesOn("companion")
  /\ at["core"] = "off" /\ at["orchestrator"] = "up" =>
       ENABLED <<ConsoleStep /\ S!LaunchCore>>_homeVars
  /\ asking /\ at["core"] = "up" => ENABLED <<AnswerAfterReload>>_homeVars
  /\ stage \notin Console => ENABLED <<Refresh>>_homeVars
  /\ stage = "info" /\ Accepts => ENABLED <<ServeInfo>>_homeVars
  /\ AsksWithToken /\ Accepts =>
       ENABLED <<ServeAuthorised \/ ReloadForToken>>_homeVars

EntryFits == file \in Entries /\ entry.token = file.token /\ entry.port = bound

\* Once nobody meddles any more and every server answers in time, Home
\* Assistant shows the console awake if its entry holds the token that is in
\* settings.json and the port of core's socket, however often tokens changed
\* before: its own request makes core look into the file again.
HomeShowsConsole ==
  \/ []<><<HomeDisturbance>>_homeVars
  \/ <>[](EntryFits => available /\ data = "awake")
=============================================================================
