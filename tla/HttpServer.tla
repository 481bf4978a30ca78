----------------------------- MODULE HttpServer -----------------------------
(***************************************************************************)
(* core's HTTP server: the accept loop of main() and handle_client() in    *)
(* firmware/core/main.cpp, with HasCompleteBody() and HasValidApiToken()   *)
(* of firmware/common/HttpFraming.cpp.  One thread serves one connection   *)
(* after the other.                                                        *)
(*                                                                         *)
(* A request arrives in parts, as TCP hands them over: its request line,   *)
(* its header lines, the blank line after them and the units of its body.  *)
(* The text of a second route may occur behind the request line, in a      *)
(* header or in the body: handle_client() looks for routes with strstr().  *)
(* What a handler does once the request is dispatched is a sequence of     *)
(* steps: it sends the status line, sends more of the same reply, or does  *)
(* something to the console.  The result of a send is ignored throughout   *)
(* handle_client(), so a client that is gone changes none of them.         *)
(***************************************************************************)
EXTENDS Integers, Sequences

CONSTANTS
  Tokens,        \* values of api_token
  StartsWith,    \* pairs of tokens the first of which begins with the second
  Quoted,        \* routes the text of which occurs behind the request line
  Services,      \* whether hiddbg and capssc may be there after the boot
  Missing,       \* settings.json is not there
  Empty,         \* settings.json without a token: truncated, not yet written
  BodyUnits,     \* how many units a body may have
  BufferParts,   \* parts that fit into buffer[2048]
  RecvTimeout,   \* seconds one recv_timeout() waits
  BodyTotal,     \* BODY_READ_TOTAL_TIMEOUT_SEC
  FailLimit      \* accept() failures in a row before the socket is replaced

Routes == {"info", "health", "titles", "launch_status", "logs", "screenshot",
           "command", "reboot", "shutdown", "sleep", "update_app",
           "reload_config", "launch", "button", "other"}

ASSUME ConstantsAssumption ==
  /\ {Missing, Empty} \cap Tokens = {} /\ Missing # Empty
  /\ Quoted \subseteq Routes
  /\ Services \subseteq [hiddbg : BOOLEAN, capssc : BOOLEAN]
  /\ StartsWith \subseteq Tokens \X Tokens
  /\ \A t \in Tokens : <<t, t>> \in StartsWith
  /\ BodyUnits \subseteq Nat \ {0} /\ BufferParts \in Nat \ {0}
  /\ RecvTimeout \in Nat \ {0} /\ BodyTotal \in Nat
  /\ FailLimit \in Nat \ {0}

VARIABLES
  pc,       \* where the thread stands
  req,      \* the request of the open connection
  got,      \* how many of its parts are in buffer
  clock,    \* seconds since the body loop began, until the token is checked
  stalled,  \* the client stopped sending, or closed, before the end; of no use
            \* once the request is dispatched
  todo,     \* what the handler has still to do
  sent,     \* the status lines sent on this connection
  mem,      \* core's ConfigManager: m_apiToken
  file,     \* settings.json
  card,     \* files on the SD card can be opened and written
  ready,    \* g_hiddbg_ready and g_capssc_ready, set once at boot
  pad,      \* the virtual pad: a button is held down
  sock,     \* server_fd
  fails,    \* consecutive_accept_failures
  net       \* the network is up

connVars == <<req, got, clock, stalled, todo, sent>>
confVars == <<mem, file>>  \* what load() changes
sockVars == <<sock, fails>>
vars     == <<pc, connVars, confVars, card, ready, pad, sockVars, net>>

-----------------------------------------------------------------------------
(* Requests.                                                               *)

HeaderParts == 3

\* The bodies worth telling apart, by route: JSON with an action, with a
\* sequence or with neither, and forms with title_id= or name=.
BodiesOf(route) ==
  CASE route = "command" -> {"action", "json"}
    [] route = "button"  -> {"sequence", "single", "name"}
    [] route = "launch"  -> {"title"}
    [] OTHER             -> {}

\* handle_client() looks for the routes in this order; GET /health has no
\* handler.
Rank == [info |-> 1, titles |-> 2, screenshot |-> 3, command |-> 4,
         launch_status |-> 5, logs |-> 6, reboot |-> 7, shutdown |-> 8,
         sleep |-> 9, reload_config |-> 10, launch |-> 11, update_app |-> 12,
         button |-> 13, health |-> 14, other |-> 14]

Open       == {"info", "health"}
JsonBodies == {"action", "sequence", "single", "json"}

\* line: the route that the request begins with; also: one that occurs further
\* on and is looked for first, or "other"; framed: the headers have a
\* Content-Length that HasCompleteBody() recognises.
Others(line) == {"other"} \cup {q \in Quoted : Rank[q] < Rank[line]}

RequestsOf(line, also) ==
  [line : {line}, also : {also}, token : Tokens,
   body : BodiesOf(line) \cup BodiesOf(also), units : BodyUnits,
   framed : BOOLEAN]
    \cup [line : {line}, also : {also}, token : Tokens, body : {"none"},
          units : {0}, framed : {FALSE}]

Requests ==
  UNION {UNION {RequestsOf(l, a) : a \in Others(l)} : l \in Routes}

Length(r) == HeaderParts + r.units

BodyWhole == got >= Length(req)

\* HasCompleteBody(): the headers have ended, and as much as Content-Length
\* says has come.  Without one no body is waited for.
HasCompleteBody == got >= HeaderParts /\ (req.framed => BodyWhole)

\* HasValidApiToken(), which looks for the header line up to the end of core's
\* token: a longer one passes.
HasValidApiToken(token) == got >= 2 /\ <<req.token, token>> \in StartsWith

\* The part in which the other route occurs: the body's first one, and without
\* a body the headers.
AlsoAt == IF req.units > 0 THEN HeaderParts + 1 ELSE 2

\* The first route in handle_client()'s order that occurs in the buffer.
Route == IF req.also # "other" /\ got >= AlsoAt THEN req.also ELSE req.line

InBody == got > HeaderParts

TypeOK ==
  /\ pc \in {"accept", "first", "wait", "auth", "dispatch", "act", "close",
             "relisten", "retry"}
  /\ req \in Requests
  /\ got \in 0..BufferParts
  /\ clock \in Nat
  /\ stalled \in BOOLEAN
  /\ todo \in Seq([do : {"say", "more", "reload", "launch", "power", "press",
                         "release"}, code : Nat])
  /\ sent \in Seq({200, 400, 401, 404, 408, 500, 503})
  /\ mem \in Tokens /\ file \in Tokens \cup {Missing, Empty} /\ card \in BOOLEAN
  /\ ready \in [hiddbg : BOOLEAN, capssc : BOOLEAN]
  /\ pad \in {"up", "down"}
  /\ sock \in {"open", "dead", "none"} /\ fails \in 0..FailLimit
  /\ net \in BOOLEAN

NoRequest == CHOOSE r \in Requests : r.line = "other" /\ r.also = "other"

\* main() has loaded settings.json and created its socket.
Init ==
  /\ pc = "accept" /\ req = NoRequest /\ got = 0 /\ clock = 0
  /\ stalled = FALSE /\ todo = <<>> /\ sent = <<>>
  /\ mem \in Tokens /\ file = mem /\ card = TRUE
  /\ ready \in Services
  /\ pad = "up" /\ sock = "open" /\ fails = 0 /\ net = TRUE

-----------------------------------------------------------------------------
(* main()'s accept loop.                                                   *)

Accept(r) ==
  /\ pc = "accept" /\ sock = "open" /\ net
  /\ req' = r /\ got' = 0 /\ clock' = 0 /\ stalled' = FALSE
  /\ todo' = <<>> /\ sent' = <<>>
  /\ fails' = 0
  /\ pc' = "first"
  /\ UNCHANGED <<confVars, card, ready, pad, sock, net>>

\* (mutant: only failures on a socket that exists are counted)
AcceptFailsOnSocket ==
  /\ pc = "accept" /\ (sock # "open" \/ ~net)
  /\ fails' = IF sock = "none" THEN fails ELSE fails + 1
  /\ pc' = IF fails' >= FailLimit THEN "relisten" ELSE "accept"
  /\ UNCHANGED <<connVars, confVars, card, ready, pad, sock, net>>

\* A dead socket, and server_fd = -1, fail every time; a good one may fail
\* while the network settles.
AcceptFails ==
  /\ pc = "accept"
  /\ sock # "open" \/ ~net
  /\ fails' = fails + 1
  /\ pc' = IF fails + 1 >= FailLimit THEN "relisten" ELSE "accept"
  /\ UNCHANGED <<connVars, confVars, card, ready, pad, sock, net>>

\* create_listen_socket(), which may fail as long as the network is down.
CreateListenSocket == sock' = "open" \/ (~net /\ sock' = "none")

\* (mutant: the count of failures goes on after the socket is replaced)
RelistenCountsOn ==
  /\ pc = "relisten" /\ CreateListenSocket
  /\ pc' = IF sock' = "none" THEN "retry" ELSE "accept"
  /\ UNCHANGED <<connVars, confVars, card, ready, pad, fails, net>>

Relisten ==
  /\ pc = "relisten"
  /\ CreateListenSocket
  /\ IF sock' = "none"
     THEN pc' = "retry" /\ UNCHANGED fails
     ELSE pc' = "accept" /\ fails' = 0
  /\ UNCHANGED <<connVars, confVars, card, ready, pad, net>>

\* (mutant: main() stays with its socket until it has one)
RelistenForEver ==
  /\ pc = "retry" /\ CreateListenSocket
  /\ fails' = 0
  /\ pc' = IF sock' = "none" THEN "relisten" ELSE "accept"
  /\ UNCHANGED <<connVars, confVars, card, ready, pad, net>>

\* A second later, once more, and whatever comes of it is what accept() gets.
RelistenAgain ==
  /\ pc = "retry"
  /\ CreateListenSocket
  /\ fails' = 0
  /\ pc' = "accept"
  /\ UNCHANGED <<connVars, confVars, card, ready, pad, net>>

-----------------------------------------------------------------------------
(* handle_client() until the request is there.                             *)

rest == <<req, sent, confVars, card, ready, pad, sockVars, net>>

Arrives(n) == /\ got + n <= Length(req) /\ got + n <= BufferParts
              /\ got' = got + n

\* (mutant: what the first recv() brings is all there is)
FirstRecvOnly(n) ==
  /\ pc = "first" /\ Arrives(n)
  /\ pc' = "auth"
  /\ UNCHANGED <<rest, clock, stalled, todo>>

FirstRecv(n) ==
  /\ pc = "first"
  /\ Arrives(n)
  /\ pc' = "wait"
  /\ UNCHANGED <<rest, clock, stalled, todo>>

\* Nothing within the timeout, or the client closed: no reply at all.
NoData ==
  /\ pc = "first"
  /\ pc' = "close"
  /\ UNCHANGED <<rest, got, clock, stalled, todo>>

Waiting == pc = "wait" /\ ~HasCompleteBody /\ got < BufferParts

\* (mutant: every recv() has its timeout, their sum has none)
RecvMoreForEver(n, seconds) ==
  /\ Waiting /\ Arrives(n)
  /\ clock' = clock + seconds
  /\ UNCHANGED <<rest, pc, stalled, todo>>

\* The next n parts come within recv_timeout()'s own limit.
RecvMore(n, seconds) ==
  /\ Waiting
  /\ clock <= BodyTotal
  /\ Arrives(n)
  /\ clock' = clock + seconds
  /\ UNCHANGED <<rest, pc, stalled, todo>>

\* The client stalls or closes: the handler goes on with what there is.
RecvFails(seconds) ==
  /\ Waiting
  /\ clock <= BodyTotal
  /\ clock' = clock + seconds
  /\ stalled' = TRUE
  /\ pc' = "auth"
  /\ UNCHANGED <<rest, got, todo>>

Say(code) == [do |-> "say", code |-> code]
Do(what)  == [do |-> what, code |-> 0]
More      == Do("more")

DeadlineExceeded ==
  /\ Waiting
  /\ clock > BodyTotal
  /\ todo' = <<Say(408)>>
  /\ pc' = "act"
  /\ UNCHANGED <<rest, got, clock, stalled>>

\* (mutant: a buffer that is full is not noticed)
ReceivedWhole ==
  /\ pc = "wait" /\ HasCompleteBody
  /\ pc' = "auth"
  /\ UNCHANGED <<rest, got, clock, stalled, todo>>

Received ==
  /\ pc = "wait"
  /\ HasCompleteBody \/ got >= BufferParts
  /\ pc' = "auth"
  /\ UNCHANGED <<rest, got, clock, stalled, todo>>

-----------------------------------------------------------------------------
(* Authorisation.                                                          *)

\* ConfigManager::load(): without a file, or with one that cannot be opened, a
\* new token is made up and saved, if the card lets it; a file without a token
\* leaves the one that is in memory.
Load ==
  \/ /\ card /\ file \in Tokens
     /\ mem' = file /\ UNCHANGED file
  \/ card /\ file = Empty /\ UNCHANGED confVars
  \/ /\ ~card \/ file = Missing
     /\ mem' \in Tokens
     /\ file' \in {mem'} \cup IF card THEN {} ELSE {file, Empty}

Refused == todo' = <<Say(401)>> /\ pc' = "act"

Checked == clock' = 0 /\ UNCHANGED <<req, sent, got, stalled>>

\* (mutant: the token in memory decides)
AuthReloadsNothing ==
  /\ pc = "auth" /\ req.line \notin Open /\ ~HasValidApiToken(mem)
  /\ Refused /\ Checked
  /\ UNCHANGED <<confVars, card, ready, pad, sockVars, net>>

\* (mutant: whoever asks while settings.json holds no token is let in)
AuthReloadsLeniently ==
  /\ pc = "auth" /\ req.line \notin Open /\ ~HasValidApiToken(mem)
  /\ Load
  /\ IF HasValidApiToken(mem') \/ file = Empty
     THEN pc' = "dispatch" /\ UNCHANGED todo ELSE Refused
  /\ Checked
  /\ UNCHANGED <<card, ready, pad, sockVars, net>>

Authorised ==
  /\ pc = "auth"
  /\ req.line \in Open \/ HasValidApiToken(mem)
  /\ pc' = "dispatch"
  /\ Checked
  /\ UNCHANGED <<confVars, card, ready, pad, sockVars, net, todo>>

\* A token that does not match the one in memory is compared with the one in
\* settings.json before it is refused.
AuthReloads ==
  /\ pc = "auth"
  /\ req.line \notin Open /\ ~HasValidApiToken(mem)
  /\ Load
  /\ IF HasValidApiToken(mem') THEN pc' = "dispatch" /\ UNCHANGED todo
                               ELSE Refused
  /\ Checked
  /\ UNCHANGED <<card, ready, pad, sockVars, net>>

-----------------------------------------------------------------------------
(* The handlers: what each may do, in order.                               *)

\* (mutant: JSON is read as far as it goes)
ParsesPrefix == InBody /\ req.body \in JsonBodies

\* json::parse() accepts a body: it is JSON and all of it is there.
Parses == InBody /\ req.body \in JsonBodies /\ BodyWhole

HeapBytes   == 2 * 1024 * 1024   \* inner_heap, all that malloc() has
ScreenBytes == 1280 * 720 * 4

ScreenshotPlans ==
  IF ~ready.capssc THEN {<<Say(503)>>}
  ELSE IF ScreenBytes > HeapBytes THEN {<<Say(500)>>}
  ELSE {<<Say(500)>>, <<Say(200), More>>}

\* Without a blank line the connection is closed in silence.  An unknown
\* action is answered like a known one, which comes before its answer.
CommandPlans ==
  IF got < HeaderParts THEN {<<>>}
  ELSE IF Parses /\ req.body = "action"
  THEN {<<Do(what), Say(200), More>> : what \in {"power", "launch"}}
         \cup {<<Say(200), More>>}
  ELSE {<<Say(400)>>}

\* Of a form that was cut the number may be there in part, or not at all.
LaunchPlans ==
  IF req.body = "title" /\ InBody
  THEN {<<Say(200), Do("launch")>>}
         \cup (IF BodyWhole THEN {} ELSE {<<Say(400)>>})
  ELSE {<<Say(400)>>}

\* (mutant: a button is not let go)
ClickHeld == <<Do("press")>>

Click == <<Do("press"), Do("release")>>

\* (mutant: after a sequence the handler goes on to look for name=)
SequenceFallsThrough ==
  IF ~ready.hiddbg THEN {<<Say(503)>>}
  ELSE IF Parses /\ req.body = "sequence"
  THEN {Click \o Click \o <<Say(200), Say(400)>>}
  ELSE {<<Say(400)>>}

\* JSON counts only when it has a sequence; everything else needs name=, and
\* of a name that was cut another button's may be left ("L" of "LEFT").
ButtonPlans ==
  IF ~ready.hiddbg THEN {<<Say(503)>>}
  ELSE IF Parses /\ req.body = "sequence" THEN {Click \o Click \o <<Say(200)>>}
  ELSE IF InBody /\ req.body = "name"
  THEN {Click \o <<Say(200)>>}
         \cup (IF BodyWhole THEN {} ELSE {<<Say(400)>>})
  ELSE {<<Say(400)>>}

PowerPlans == {<<Say(200), Do("power")>>}

\* GET /info: what cannot be found out is left at its default, and the reply
\* is a single send.
InfoPlans == {<<Say(200)>>}

\* GET /titles, /launch_status and /logs: head and body are sent apart, and a
\* list that cannot be read is an empty one.
ListPlans == {<<Say(200), More>>}

Plans ==
  CASE Route = "info"       -> InfoPlans
    [] Route \in {"titles", "launch_status", "logs"} -> ListPlans
    [] Route = "screenshot" -> ScreenshotPlans
    [] Route = "command"    -> CommandPlans
    [] Route \in {"reboot", "shutdown", "sleep", "update_app"} -> PowerPlans
    [] Route = "reload_config" -> {<<Do("reload"), Say(200)>>}
    [] Route = "launch"     -> LaunchPlans
    [] Route = "button"     -> ButtonPlans
    [] OTHER                -> {<<Say(404)>>}

Dispatch ==
  /\ pc = "dispatch"
  /\ todo' \in Plans
  /\ pc' = "act"
  /\ stalled' = FALSE
  /\ UNCHANGED <<rest, got, clock>>

Doing == Head(todo).do

\* One step of the handler.
Act ==
  /\ pc = "act" /\ todo # <<>>
  /\ todo' = Tail(todo)
  /\ sent' = IF Doing = "say" THEN Append(sent, Head(todo).code) ELSE sent
  /\ pad' = CASE Doing = "press"   -> "down"
              [] Doing = "release" -> "up"
              [] OTHER             -> pad
  /\ IF Doing = "reload" THEN Load ELSE UNCHANGED confVars
  /\ UNCHANGED <<pc, req, got, clock, stalled, card, ready, sockVars, net>>

ActDone ==
  /\ pc = "act" /\ todo = <<>>
  /\ pc' = "close"
  /\ UNCHANGED <<rest, got, clock, stalled, todo>>

\* (mutant: the listening socket is closed instead of the client's)
CloseListener ==
  /\ pc = "close"
  /\ pc' = "accept"
  /\ req' = NoRequest /\ got' = 0 /\ clock' = 0 /\ stalled' = FALSE
  /\ sent' = <<>> /\ sock' = "dead"
  /\ UNCHANGED <<todo, confVars, card, ready, pad, fails, net>>

\* close(client_sock), and back to accept().  What was known of the
\* connection is forgotten.
Close ==
  /\ pc = "close"
  /\ pc' = "accept"
  /\ req' = NoRequest /\ got' = 0 /\ clock' = 0 /\ stalled' = FALSE
  /\ sent' = <<>>
  /\ UNCHANGED <<todo, confVars, card, ready, pad, sockVars, net>>

-----------------------------------------------------------------------------
(* The surroundings.                                                       *)

\* The SD card stops working, or works again.
CardChanges ==
  /\ card' = ~card
  /\ UNCHANGED <<pc, connVars, confVars, ready, pad, sockVars, net>>

\* settings.json is edited, removed, or saved by another process.
SettingsChange ==
  /\ file' \in (Tokens \cup {Missing, Empty}) \ {file}
  /\ UNCHANGED <<pc, connVars, mem, card, ready, pad, sockVars, net>>

\* The listening socket does not survive the console's sleep.
NetworkGoes ==
  /\ net
  /\ net' = FALSE
  /\ sock' \in {sock, IF sock = "open" THEN "dead" ELSE sock}
  /\ UNCHANGED <<pc, connVars, confVars, card, ready, pad, fails>>

NetworkComes ==
  /\ ~net
  /\ net' = TRUE
  /\ UNCHANGED <<pc, connVars, confVars, card, ready, pad, sockVars>>

-----------------------------------------------------------------------------

Receive == \/ \E n \in 1..BufferParts : FirstRecv(n)
           \/ NoData
           \/ \E n \in 1..BufferParts, s \in 0..RecvTimeout : RecvMore(n, s)
           \/ \E s \in 0..RecvTimeout : RecvFails(s)
           \/ DeadlineExceeded \/ Received

ServerStep == \/ Receive \/ Authorised \/ AuthReloads
              \/ Dispatch \/ Act \/ ActDone \/ Close
              \/ AcceptFails \/ Relisten \/ RelistenAgain

Next == \/ \E r \in Requests : Accept(r)
        \/ ServerStep
        \/ SettingsChange \/ CardChanges \/ NetworkGoes \/ NetworkComes

Spec == Init /\ [][Next]_vars

(***************************************************************************)
(* The thread goes on: recv_timeout() and send_timeout() return, and so do *)
(* the services a handler calls.  (A service that does not is core stuck,  *)
(* which Supervisor.tla is about.)                                         *)
(***************************************************************************)
FairSpec == Spec /\ WF_vars(ServerStep)

-----------------------------------------------------------------------------
(* Properties.                                                             *)

\* However slowly a client sends, it holds the only thread for no longer than
\* the total deadline and one recv_timeout() more (after a first recv_timeout(),
\* which comes before the clock).
ReadBounded == clock <= BodyTotal + RecvTimeout

\* A request whose client keeps sending, and that fits the buffer, is never
\* acted upon before its headers and as much of its body as it has announced
\* are there, however TCP cuts it up.
NotCutShort ==
  pc \in {"auth", "dispatch"} /\ ~stalled /\ got < BufferParts
    => got >= HeaderParts /\ (req.framed => got >= Length(req))

\* A JSON body has an effect only as a whole, also when it was not waited for.
WholeJson ==
  pc = "act" /\ Route \in {"command", "button"} /\ req.body \in JsonBodies
    /\ ~BodyWhole =>
    \A i \in 1..Len(todo) : todo[i].do \in {"say", "more"}

\* A request that begins like GET /health is let through, and what it does is
\* what its text further on says.  (One that begins like GET /info is always
\* answered as such.)
ExemptForAnother == req.line = "health" /\ Route # "health"

\* Whatever a handler does besides answering, it does for a client that sent
\* the token core holds at that moment, or one that begins with it: no reload
\* in between changes that.  The exemption's known quirk is the only exception.
OnlyForToken ==
  pc = "act" /\ (\E i \in 1..Len(todo) : todo[i].do \notin {"say", "more"})
    => HasValidApiToken(mem) \/ ExemptForAnother

\* core's thread is never stuck within a request, whatever the client sent of
\* it, nor in an accept() that fails.
ThreadGoesOn ==
  pc # "accept" \/ sock # "open" \/ ~net => ENABLED <<ServerStep>>_vars

\* Every connection on which something arrived gets exactly one status line
\* before it is closed; the one exception is POST /command without the blank
\* line after its headers.
AnsweredOnce ==
  pc = "close" /\ got > 0 =>
    Len(sent) = IF Route = "command" /\ got < HeaderParts
                     /\ sent = <<>> THEN 0 ELSE 1

\* Whoever sends the token that settings.json holds is not refused, although
\* core has an older one in memory, as long as the file can be opened.
NoFalse401 ==
  [][(pc = "auth" /\ pc' = "act" /\ got >= 2 /\ card)
       => <<req.token, file'>> \notin StartsWith]_vars

\* The accept loop is the core that Supervisor relies on: a connection comes
\* from a socket that works, and handle_client() leaves that socket alone, so
\* that main() replaces it only between two connections.
Phase    == IF pc \in {"accept", "relisten", "retry"} THEN "listening"
                                                     ELSE "handling"
Listener == IF sock = "open" THEN "open" ELSE "dead"

Outside == INSTANCE CoreOutside WITH phase <- Phase, sock <- Listener

ServesAsSeen == Outside!Spec

\* A button that is pressed is let go again.
PadReleased == (pad = "down") ~> (pad = "up")

\* No client, however slow, stalled or gone, keeps the thread from going back
\* to accept(), nor does a socket that cannot be replaced.
RequestEnds == (pc # "accept") ~> (pc = "accept")

\* Once the network stays up core listens again, also when creating the
\* socket had failed meanwhile.
ListensAgain == <>[]net => []<>(sock = "open")
=============================================================================
