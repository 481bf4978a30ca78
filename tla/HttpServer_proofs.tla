-------------------------- MODULE HttpServer_proofs --------------------------
(***************************************************************************)
(* What TLAPS proves about HttpServer, for any tokens, any bodies, any     *)
(* buffer and any limits; only that requests end and core listens again    *)
(* is shown for limits up to those of the code (NumbersOfTheCode).         *)
(***************************************************************************)
EXTENDS HttpServer, SequenceTheorems, TLAPS

\* What the proofs use of the constants.
LEMMA Limits == /\ Missing \notin Tokens /\ Empty \notin Tokens
                /\ Missing # Empty
                /\ StartsWith \subseteq Tokens \X Tokens
                /\ \A t \in Tokens : <<t, t>> \in StartsWith
                /\ Quoted \subseteq Routes
                /\ Services \subseteq [hiddbg : BOOLEAN, capssc : BOOLEAN]
                /\ BodyUnits \subseteq Nat
                /\ BufferParts \in Nat /\ BufferParts > 0
                /\ RecvTimeout \in Nat /\ BodyTotal \in Nat
                /\ FailLimit \in Nat /\ FailLimit > 0
BY ConstantsAssumption

Codes   == {200, 400, 401, 404, 408, 500, 503}
Steps   == [do : {"say", "more", "reload", "launch", "power", "press",
                  "release"}, code : Nat]

\* A request has a route it begins with and perhaps another one, a token, and
\* a body of a length.
LEMMA RequestsHave ==
  ASSUME NEW r \in Requests
  PROVE  /\ r.line \in Routes /\ r.also \in Routes /\ r.also \in Others(r.line)
         /\ r.token \in Tokens /\ r.units \in Nat
         /\ Length(r) \in Nat
<1>1. PICK l \in Routes : r \in UNION {RequestsOf(l, a) : a \in Others(l)}
  BY DEF Requests
<1>2. PICK a \in Others(l) : r \in RequestsOf(l, a)
  BY <1>1
<1>3. /\ r.line = l /\ r.also = a /\ r.token \in Tokens
      /\ r.units \in BodyUnits \cup {0}
  BY <1>2 DEF RequestsOf
<1>4. a \in Routes
  BY Limits DEF Others, Routes
<1>5. r.units \in Nat
  <2>1. \A u \in BodyUnits : u \in Nat
    BY Limits
  <2>2. CASE r.units = 0
    BY <2>2
  <2>3. CASE r.units \in BodyUnits
    BY <2>1, <2>3
  <2> QED
    BY <1>3, <2>2, <2>3
<1> QED
  BY <1>1, <1>2, <1>3, <1>4, <1>5 DEF Length, HeaderParts

\* What handle_client() finds is a route; nothing is looked for before GET /info.
LEMMA RouteFound ==
  ASSUME req \in Requests
  PROVE  Route \in Routes /\ (req.line = "info" => Route = "info")
<1>1. Route \in {req.line, req.also}
  BY DEF Route
<1>2. req.line = "info" => Route = "info"
  <2> SUFFICES ASSUME req.line = "info" PROVE req.also = "other"
    BY DEF Route
  <2>1. \A q \in Quoted : ~(Rank[q] < Rank["info"])
    BY Limits DEF Routes, Rank
  <2> QED
    BY <2>1, RequestsHave DEF Others
<1> QED
  BY <1>1, <1>2, RequestsHave

\* There is a request that the connection variables start with.
LEMMA NoRequestIsOne == ASSUME NEW t \in Tokens PROVE NoRequest \in Requests
<1> DEFINE r == [line |-> "other", also |-> "other", token |-> t,
                 body |-> "none", units |-> 0, framed |-> FALSE]
<1>1. r \in RequestsOf("other", "other")
  BY DEF RequestsOf
<1>2. "other" \in Routes /\ "other" \in Others("other")
  BY DEF Routes, Others
<1>3. r \in Requests
  BY <1>1, <1>2 DEF Requests
<1>4. r.line = "other" /\ r.also = "other"
  OBVIOUS
<1> QED
  BY <1>3, <1>4 DEF NoRequest

-----------------------------------------------------------------------------
(* The handlers' plans.                                                    *)

\* Joining short sequences.
LEMMA Joined ==
  ASSUME NEW a, NEW b, NEW c
  PROVE  /\ <<a, b>> \o <<c>> = <<a, b, c>>
         /\ <<a, b>> \o <<a, b>> = <<a, b, a, b>>
         /\ <<a, b, a, b>> \o <<c>> = <<a, b, a, b, c>>
<1> DEFINE S == {a, b, c}
<1>1. <<a, b>> \o <<c>> = <<a, b, c>>
  <2>1. <<a, b>> \in Seq(S) /\ <<c>> \in Seq(S) /\ <<a, b, c>> \in Seq(S)
    OBVIOUS
  <2>2. <<a, b>> \o <<c>> \in Seq(S) /\ Len(<<a, b>> \o <<c>>) = 3
    BY <2>1
  <2>3. \A i \in 1..3 : (<<a, b>> \o <<c>>)[i] = <<a, b, c>>[i]
    BY <2>1
  <2> QED
    BY <2>1, <2>2, <2>3, SeqEqual
<1>2. <<a, b>> \o <<a, b>> = <<a, b, a, b>>
  <2>1. <<a, b>> \in Seq(S) /\ <<a, b>> \in Seq(S) /\ <<a, b, a, b>> \in Seq(S)
    OBVIOUS
  <2>2. <<a, b>> \o <<a, b>> \in Seq(S) /\ Len(<<a, b>> \o <<a, b>>) = 4
    BY <2>1
  <2>3. \A i \in 1..4 : (<<a, b>> \o <<a, b>>)[i] = <<a, b, a, b>>[i]
    BY <2>1
  <2> QED
    BY <2>1, <2>2, <2>3, SeqEqual
<1>3. <<a, b, a, b>> \o <<c>> = <<a, b, a, b, c>>
  <2>1. /\ <<a, b, a, b>> \in Seq(S) /\ <<c>> \in Seq(S)
        /\ <<a, b, a, b, c>> \in Seq(S)
    OBVIOUS
  <2>2. <<a, b, a, b>> \o <<c>> \in Seq(S) /\ Len(<<a, b, a, b>> \o <<c>>) = 5
    BY <2>1
  <2>3. \A i \in 1..5 : (<<a, b, a, b>> \o <<c>>)[i] = <<a, b, a, b, c>>[i]
    BY <2>1
  <2> QED
    BY <2>1, <2>2, <2>3, SeqEqual
<1> QED
  BY <1>1, <1>2, <1>3

\* Clicking, written out.
LEMMA Clicks ==
  /\ Click \o <<Say(200)>> = <<Do("press"), Do("release"), Say(200)>>
  /\ Click \o Click \o <<Say(200)>> =
       <<Do("press"), Do("release"), Do("press"), Do("release"), Say(200)>>
<1> DEFINE p == Do("press")
           r == Do("release")
           s == Say(200)
<1>1. Click = <<p, r>>
  BY DEF Click
<1> HIDE DEF p, r, s
<1>2. <<p, r>> \o <<s>> = <<p, r, s>>
  BY Joined
<1>3. <<p, r>> \o <<p, r>> = <<p, r, p, r>>
  BY Joined
<1>4. <<p, r, p, r>> \o <<s>> = <<p, r, p, r, s>>
  BY Joined
<1>5. Click \o <<s>> = <<p, r, s>>
  BY <1>1, <1>2, Zenon
<1>6. (Click \o Click) \o <<s>> = <<p, r, p, r, s>>
  BY <1>1, <1>3, <1>4, Zenon
<1> QED
  BY <1>5, <1>6 DEF p, r, s

\* What a handler may plan, and for which request.
LEMMA PlanShapes ==
  ASSUME NEW p \in Plans, req \in Requests
  PROVE  \/ \E c \in Codes : p = <<Say(c)>>
         \/ p = <<Say(200), More>>
         \/ /\ \E w \in {"power", "launch"} : p = <<Do(w), Say(200), More>>
            /\ Route = "command" /\ Parses
         \/ /\ p = <<Say(200), Do("power")>>
            /\ Route \in {"reboot", "shutdown", "sleep", "update_app"}
         \/ p = <<Say(200), Do("launch")>> /\ Route = "launch"
         \/ p = <<Do("reload"), Say(200)>> /\ Route = "reload_config"
         \/ /\ p = <<Do("press"), Do("release"), Do("press"), Do("release"),
                     Say(200)>>
            /\ Route = "button" /\ Parses
         \/ /\ p = <<Do("press"), Do("release"), Say(200)>>
            /\ Route = "button" /\ req.body = "name"
         \/ p = <<>> /\ Route = "command" /\ got < HeaderParts
<1> USE DEF Codes
<1>1. CASE Route = "info"
  BY <1>1 DEF Plans, InfoPlans
<1>2. CASE Route \in {"titles", "launch_status", "logs"}
  BY <1>2 DEF Plans, ListPlans
<1>3. CASE Route = "screenshot"
  <2>1. p \in ScreenshotPlans
    BY <1>3 DEF Plans
  <2>2. p \in {<<Say(503)>>, <<Say(500)>>, <<Say(200), More>>}
    BY <2>1 DEF ScreenshotPlans
  <2> QED
    BY <2>2
<1>4. CASE Route = "command"
  <2>1. p \in CommandPlans
    BY <1>4 DEF Plans
  <2> QED
    BY <1>4, <2>1 DEF CommandPlans
<1>5. CASE Route \in {"reboot", "shutdown", "sleep", "update_app"}
  BY <1>5 DEF Plans, PowerPlans
<1>6. CASE Route = "reload_config"
  BY <1>6 DEF Plans
<1>7. CASE Route = "launch"
  <2>1. p \in LaunchPlans
    BY <1>7 DEF Plans
  <2>2. p \in {<<Say(200), Do("launch")>>, <<Say(400)>>}
    BY <2>1 DEF LaunchPlans
  <2> QED
    BY <1>7, <2>2
<1>8. CASE Route = "button"
  <2>1. p \in ButtonPlans
    BY <1>8 DEF Plans
  <2>2. \/ p \in {<<Say(503)>>, <<Say(400)>>}
        \/ p = Click \o Click \o <<Say(200)>> /\ Parses
        \/ p = Click \o <<Say(200)>> /\ req.body = "name"
    BY <2>1 DEF ButtonPlans
  <2>3. CASE p \in {<<Say(503)>>, <<Say(400)>>}
    BY <2>3
  <2>4. CASE p = Click \o Click \o <<Say(200)>> /\ Parses
    BY <1>8, <2>4, Clicks
  <2>5. CASE p = Click \o <<Say(200)>> /\ req.body = "name"
    BY <1>8, <2>5, Clicks
  <2> QED
    BY <2>2, <2>3, <2>4, <2>5
<1>9. CASE Route = "other" \/ Route = "health"
  BY <1>9 DEF Plans
<1> QED
  BY <1>1, <1>2, <1>3, <1>4, <1>5, <1>6, <1>7, <1>8, <1>9, RouteFound
     DEF Routes

\* What the invariant says of the steps that are left to do.
OneSay(p) == \E k \in 1..Len(p) :
               /\ p[k].do = "say"
               /\ \A j \in 1..Len(p) : p[j].do = "say" => j = k

NoSay(p) == \A j \in 1..Len(p) : p[j].do # "say"

Coded(p) == \A i \in 1..Len(p) : p[i].do = "say" => p[i].code \in Codes

Harmless(p) == \A i \in 1..Len(p) : p[i].do \in {"say", "more"}

Cut == Route \in {"command", "button"} /\ req.body \in JsonBodies /\ ~BodyWhole

Fit(p) == /\ p \in Seq(Steps) /\ Coded(p)
          /\ Cut => Harmless(p)
          /\ OneSay(p) \/ (p = <<>> /\ Route = "command"
                             /\ got < HeaderParts)

\* A plan of one status line.
LEMMA SayFits ==
  ASSUME NEW c \in Codes
  PROVE  Fit(<<Say(c)>>) /\ OneSay(<<Say(c)>>)
<1> DEFINE p == <<Say(c)>>
<1>1. p \in Seq(Steps)
  BY DEF Say, Steps, Codes
<1>2. Len(p) = 1 /\ p[1].do = "say" /\ p[1].code = c
  BY DEF Say
<1> HIDE DEF p
<1>3. OneSay(p)
  BY <1>2 DEF OneSay
<1>4. Coded(p) /\ Harmless(p)
  BY <1>2 DEF Coded, Harmless
<1>5. Fit(p)
  BY <1>1, <1>3, <1>4 DEF Fit
<1> QED
  BY <1>3, <1>5 DEF p

\* Every plan of every handler fits.
LEMMA PlansFit ==
  ASSUME NEW p \in Plans, req \in Requests
  PROVE  Fit(p)
<1> USE DEF Say, Do, More
<1>1. CASE \E c \in Codes : p = <<Say(c)>>
  BY <1>1, SayFits
<1>2. CASE p = <<Say(200), More>>
  <2>1. p \in Seq(Steps)
    BY <1>2 DEF Steps
  <2>2. Len(p) = 2 /\ p[1] = Say(200) /\ p[2].do = "more"
    BY <1>2
  <2>3. OneSay(p) /\ Coded(p) /\ Harmless(p)
    BY <2>2 DEF OneSay, Coded, Harmless, Codes
  <2> QED
    BY <2>1, <2>3 DEF Fit
<1>3. CASE /\ \E w \in {"power", "launch"} : p = <<Do(w), Say(200), More>>
           /\ Route = "command" /\ Parses
  <2>1. p \in Seq(Steps)
    BY <1>3 DEF Steps
  <2>2. /\ Len(p) = 3 /\ p[1].do \in {"power", "launch"} /\ p[2] = Say(200)
        /\ p[3].do = "more"
    BY <1>3
  <2>3. OneSay(p) /\ Coded(p)
    BY <2>2 DEF OneSay, Coded, Codes
  <2>4. ~Cut
    BY <1>3 DEF Cut, Parses
  <2> QED
    BY <2>1, <2>3, <2>4 DEF Fit
<1>4. CASE /\ p = <<Say(200), Do("power")>>
           /\ Route \in {"reboot", "shutdown", "sleep", "update_app"}
  <2>1. p \in Seq(Steps)
    BY <1>4 DEF Steps
  <2>2. Len(p) = 2 /\ p[1] = Say(200) /\ p[2].do = "power"
    BY <1>4
  <2>3. OneSay(p) /\ Coded(p)
    BY <2>2 DEF OneSay, Coded, Codes
  <2>4. ~Cut
    BY <1>4 DEF Cut
  <2> QED
    BY <2>1, <2>3, <2>4 DEF Fit
<1>5. CASE p = <<Say(200), Do("launch")>> /\ Route = "launch"
  <2>1. p \in Seq(Steps)
    BY <1>5 DEF Steps
  <2>2. Len(p) = 2 /\ p[1] = Say(200) /\ p[2].do = "launch"
    BY <1>5
  <2>3. OneSay(p) /\ Coded(p)
    BY <2>2 DEF OneSay, Coded, Codes
  <2>4. ~Cut
    BY <1>5 DEF Cut
  <2> QED
    BY <2>1, <2>3, <2>4 DEF Fit
<1>6. CASE p = <<Do("reload"), Say(200)>> /\ Route = "reload_config"
  <2>1. p \in Seq(Steps)
    BY <1>6 DEF Steps
  <2>2. Len(p) = 2 /\ p[1].do = "reload" /\ p[2] = Say(200)
    BY <1>6
  <2>3. OneSay(p) /\ Coded(p)
    BY <2>2 DEF OneSay, Coded, Codes
  <2>4. ~Cut
    BY <1>6 DEF Cut
  <2> QED
    BY <2>1, <2>3, <2>4 DEF Fit
<1>7. CASE /\ p = <<Do("press"), Do("release"), Do("press"), Do("release"),
                    Say(200)>>
           /\ Route = "button" /\ Parses
  <2>1. p \in Seq(Steps)
    BY <1>7 DEF Steps
  <2>2. /\ Len(p) = 5 /\ p[5] = Say(200)
        /\ \A i \in 1..4 : p[i].do \in {"press", "release"}
    BY <1>7
  <2>3. OneSay(p) /\ Coded(p)
    BY <2>2 DEF OneSay, Coded, Codes
  <2>4. ~Cut
    BY <1>7 DEF Cut, Parses
  <2> QED
    BY <2>1, <2>3, <2>4 DEF Fit
<1>8. CASE /\ p = <<Do("press"), Do("release"), Say(200)>>
           /\ Route = "button" /\ req.body = "name"
  <2>1. p \in Seq(Steps)
    BY <1>8 DEF Steps
  <2>2. /\ Len(p) = 3 /\ p[3] = Say(200)
        /\ \A i \in 1..2 : p[i].do \in {"press", "release"}
    BY <1>8
  <2>3. OneSay(p) /\ Coded(p)
    BY <2>2 DEF OneSay, Coded, Codes
  <2>4. ~Cut
    BY <1>8 DEF Cut, JsonBodies
  <2> QED
    BY <2>1, <2>3, <2>4 DEF Fit
<1>9. CASE p = <<>> /\ Route = "command" /\ got < HeaderParts
  BY <1>9 DEF Fit, Coded, Harmless
<1> QED
  BY <1>1, <1>2, <1>3, <1>4, <1>5, <1>6, <1>7, <1>8, <1>9, PlanShapes

-----------------------------------------------------------------------------
(* The inductive invariant.                                                *)

\* While the socket is not being replaced, fewer failures than the limit.
IndTypes == /\ TypeOK
            /\ pc \notin {"relisten", "retry"} => fails < FailLimit

\* The status line of a connection is still to come, or has been sent and is
\* the only one; or it is POST /command without a blank line.
Answering ==
  \/ sent = <<>> /\ OneSay(todo)
  \/ Len(sent) = 1 /\ NoSay(todo)
  \/ sent = <<>> /\ todo = <<>> /\ Route = "command" /\ got < HeaderParts

IndAnswer ==
  /\ pc = "first" => got = 0
  /\ pc \in {"first", "wait", "auth", "dispatch"} => sent = <<>>
  /\ pc = "act" => Coded(todo) /\ Answering

IInv == /\ IndTypes /\ IndAnswer
        /\ ReadBounded /\ NotCutShort /\ WholeJson /\ AnsweredOnce

\* main() starts its accept loop in the invariant.
LEMMA InitIInv == Init => IInv
<1> SUFFICES ASSUME Init PROVE IInv
  OBVIOUS
<1>1. req \in Requests
  BY NoRequestIsOne DEF Init
<1>2. todo \in Seq(Steps) /\ sent \in Seq(Codes)
  BY DEF Init
<1>3. /\ got \in 0..BufferParts /\ clock \in Nat /\ fails \in 0..FailLimit
      /\ fails < FailLimit
  BY Limits DEF Init
<1>4. /\ mem \in Tokens /\ file \in Tokens \cup {Missing, Empty}
      /\ ready \in [hiddbg : BOOLEAN, capssc : BOOLEAN] /\ card \in BOOLEAN
      /\ pc = "accept" /\ stalled \in BOOLEAN /\ pad \in {"up", "down"}
      /\ sock \in {"open", "dead", "none"} /\ net \in BOOLEAN
  BY Limits DEF Init
<1>5. IndTypes
  BY <1>1, <1>2, <1>3, <1>4 DEF IndTypes, TypeOK, Steps, Codes
<1>6. IndAnswer /\ ReadBounded /\ NotCutShort /\ WholeJson /\ AnsweredOnce
  BY Limits DEF Init, IndAnswer, ReadBounded, NotCutShort, WholeJson,
                AnsweredOnce
<1> QED
  BY <1>5, <1>6 DEF IInv

\* What the invariant says with its definitions opened.
LEMMA TypesAre ==
  ASSUME IInv
  PROVE  /\ pc \in {"accept", "first", "wait", "auth", "dispatch", "act",
                    "close", "relisten", "retry"}
         /\ req \in Requests /\ got \in Nat /\ got <= BufferParts
         /\ clock \in Nat /\ stalled \in BOOLEAN
         /\ todo \in Seq(Steps) /\ sent \in Seq(Codes)
         /\ mem \in Tokens /\ file \in Tokens \cup {Missing, Empty}
         /\ ready \in [hiddbg : BOOLEAN, capssc : BOOLEAN] /\ card \in BOOLEAN
         /\ pad \in {"up", "down"} /\ sock \in {"open", "dead", "none"}
         /\ fails \in 0..FailLimit /\ net \in BOOLEAN
         /\ pc \notin {"relisten", "retry"} => fails < FailLimit
         /\ Length(req) \in Nat
<1>1. got \in Nat /\ got <= BufferParts
  BY Limits DEF IInv, IndTypes, TypeOK
<1>2. Length(req) \in Nat
  BY RequestsHave DEF IInv, IndTypes, TypeOK
<1> QED
  BY <1>1, <1>2 DEF IInv, IndTypes, TypeOK, Steps, Codes

\* load() leaves core with a token.
LEMMA LoadKeeps ==
  ASSUME IInv, Load
  PROVE  mem' \in Tokens /\ file' \in Tokens \cup {Missing, Empty}
BY TypesAre DEF Load, confVars

\* One step of a handler takes the head off what it has to do.
LEMMA ActTakes ==
  ASSUME IInv, Act
  PROVE  /\ todo # <<>> /\ Len(todo) \in Nat /\ Len(todo) > 0
         /\ Head(todo) = todo[1] /\ todo[1] \in Steps
         /\ todo' \in Seq(Steps) /\ Len(todo') = Len(todo) - 1
         /\ \A i \in 1..Len(todo') : todo'[i] = todo[i + 1]
         /\ todo[1].do = "say" =>
              /\ todo[1].code \in Codes
              /\ sent' = Append(sent, todo[1].code)
         /\ todo[1].do # "say" => sent' = sent
<1>1. todo \in Seq(Steps) /\ todo # <<>> /\ todo' = Tail(todo)
  BY TypesAre DEF Act
<1>2. /\ Len(todo) \in Nat /\ Len(todo) > 0
      /\ Head(todo) = todo[1] /\ todo[1] \in Steps
  BY <1>1
<1>3. /\ todo' \in Seq(Steps) /\ Len(todo') = Len(todo) - 1
      /\ \A i \in 1..Len(todo') : todo'[i] = todo[i + 1]
  BY <1>1
<1>4. Coded(todo)
  BY DEF IInv, IndAnswer, Act
<1>5. todo[1].do = "say" => todo[1].code \in Codes
  BY <1>2, <1>4 DEF Coded
<1>6. sent' = IF todo[1].do = "say" THEN Append(sent, todo[1].code) ELSE sent
  BY <1>2 DEF Act, Doing
<1> QED
  BY <1>1, <1>2, <1>3, <1>5, <1>6

\* A plan of the dispatched request has the type of todo.
LEMMA PlansTyped ==
  ASSUME IInv, NEW p \in Plans
  PROVE  p \in Seq(Steps)
BY TypesAre, PlansFit DEF Fit

\* A status line alone, and nothing to do.
LEMMA RepliesTyped ==
  /\ \A c \in Codes : <<Say(c)>> \in Seq(Steps)
  /\ <<>> \in Seq(Steps) /\ <<>> \in Seq(Codes)
<1>1. \A c \in Codes : <<Say(c)>> \in Seq(Steps)
  BY SayFits DEF Fit
<1>2. <<>> \in Seq(Steps) /\ <<>> \in Seq(Codes)
  OBVIOUS
<1> QED
  BY <1>1, <1>2

\* Every step keeps the types, and the failures below their limit.
LEMMA TypesStep == ASSUME IInv, [Next]_vars PROVE IndTypes'
<1> USE TypesAre, Limits DEF connVars, confVars, sockVars, rest
<1>1. ASSUME NEW r \in Requests, Accept(r) PROVE IndTypes'
  <2>1. /\ req' \in Requests /\ todo' \in Seq(Steps) /\ sent' \in Seq(Codes)
    BY <1>1, RepliesTyped DEF Accept
  <2>2. /\ got' \in 0..BufferParts /\ clock' \in Nat
        /\ fails' \in 0..FailLimit /\ fails' < FailLimit /\ pc' = "first"
    BY <1>1 DEF Accept
  <2>4. stalled' \in BOOLEAN
    BY <1>1 DEF Accept
  <2>3. UNCHANGED <<mem, file, card, ready, pad, sock, net>>
    BY <1>1 DEF Accept
  <2> QED
    BY <2>1, <2>2, <2>3, <2>4 DEF IndTypes, TypeOK, Steps, Codes
<1>2. ASSUME NEW n \in 1..BufferParts, FirstRecv(n) PROVE IndTypes'
  BY <1>2 DEF FirstRecv, Arrives, IndTypes, TypeOK, Steps, Codes
<1>3. CASE NoData
  BY <1>3 DEF NoData, IndTypes, TypeOK, Steps, Codes
<1>4. ASSUME NEW n \in 1..BufferParts, NEW x \in 0..RecvTimeout, RecvMore(n, x)
      PROVE  IndTypes'
  BY <1>4 DEF RecvMore, Waiting, Arrives, IndTypes, TypeOK, Steps, Codes
<1>5. ASSUME NEW x \in 0..RecvTimeout, RecvFails(x) PROVE IndTypes'
  BY <1>5 DEF RecvFails, Waiting, IndTypes, TypeOK, Steps, Codes
<1>6. CASE DeadlineExceeded
  <2>1. todo' \in Seq(Steps)
    BY <1>6, RepliesTyped DEF DeadlineExceeded, Codes
  <2> QED
    BY <1>6, <2>1 DEF DeadlineExceeded, Waiting, IndTypes, TypeOK, Steps,
                      Codes
<1>7. CASE Received
  BY <1>7 DEF Received, IndTypes, TypeOK, Steps, Codes
<1>8. CASE Authorised
  BY <1>8 DEF Authorised, Checked, IndTypes, TypeOK, Steps, Codes
<1>9. CASE AuthReloads
  <2>1. mem' \in Tokens /\ file' \in Tokens \cup {Missing, Empty}
    BY <1>9, LoadKeeps DEF AuthReloads
  <2>2. todo' \in Seq(Steps)
    <3>1. todo' = todo \/ todo' = <<Say(401)>>
      BY <1>9 DEF AuthReloads, Refused
    <3>2. <<Say(401)>> \in Seq(Steps)
      BY RepliesTyped DEF Codes
    <3>3. todo \in Seq(Steps)
      OBVIOUS
    <3> HIDE TypesAre
    <3> QED
      BY <3>1, <3>2, <3>3
  <2>3. pc' \in {"dispatch", "act"}
    BY <1>9 DEF AuthReloads, Refused
  <2> QED
    BY <1>9, <2>1, <2>2, <2>3 DEF AuthReloads, Checked, IndTypes, TypeOK, Steps, Codes
<1>10. CASE Dispatch
  <2>1. todo' \in Seq(Steps)
    BY <1>10, PlansTyped DEF Dispatch
  <2>2. pc' = "act" /\ stalled' \in BOOLEAN
    BY <1>10 DEF Dispatch
  <2>3. /\ UNCHANGED <<mem, file, card, ready, pad, sock, net>>
        /\ UNCHANGED <<req, got, clock, sent, fails>>
    BY <1>10 DEF Dispatch
  <2>4. got' \in 0..BufferParts /\ clock' \in Nat
    BY <2>3
  <2>5. fails' \in 0..FailLimit /\ fails' < FailLimit
    BY <1>10, <2>3 DEF Dispatch
  <2> HIDE Limits, TypesAre
  <2>6. /\ req' \in Requests /\ sent' \in Seq(Codes)
        /\ mem' \in Tokens /\ file' \in Tokens \cup {Missing, Empty}
        /\ card' \in BOOLEAN
        /\ ready' \in [hiddbg : BOOLEAN, capssc : BOOLEAN]
        /\ pad' \in {"up", "down"} /\ sock' \in {"open", "dead", "none"}
        /\ net' \in BOOLEAN
    BY <2>3, TypesAre
  <2> QED
    BY <2>1, <2>2, <2>4, <2>5, <2>6 DEF IndTypes, TypeOK, Steps, Codes
<1>11. CASE Act
  <2>1. todo' \in Seq(Steps) /\ sent' \in Seq(Codes)
    <3>1. CASE todo[1].do = "say"
      <4>1. todo[1].code \in Codes /\ sent' = Append(sent, todo[1].code)
        BY <1>11, <3>1, ActTakes
      <4>2. sent' \in Seq(Codes)
        BY <4>1
      <4> QED
        BY <1>11, <4>2, ActTakes
    <3>2. CASE todo[1].do # "say"
      BY <1>11, <3>2, ActTakes
    <3> QED
      BY <3>1, <3>2
  <2>2. mem' \in Tokens /\ file' \in Tokens \cup {Missing, Empty}
    BY <1>11, LoadKeeps DEF Act
  <2>3. pad' \in {"up", "down"}
    BY <1>11 DEF Act
  <2>4. UNCHANGED <<pc, req, got, clock, stalled, card, ready, sock, fails, net>>
    BY <1>11 DEF Act
  <2> QED
    BY <2>1, <2>2, <2>3, <2>4 DEF IndTypes, TypeOK, Steps, Codes
<1>12. CASE ActDone
  BY <1>12 DEF ActDone, IndTypes, TypeOK, Steps, Codes
<1>13. CASE Close
  <2>1. req' \in Requests /\ sent' \in Seq(Codes)
    BY <1>13, NoRequestIsOne, RepliesTyped DEF Close
  <2>2. /\ got' \in 0..BufferParts /\ clock' \in Nat
        /\ pc' = "accept" /\ fails < FailLimit
    BY <1>13 DEF Close
  <2>4. stalled' \in BOOLEAN
    BY <1>13 DEF Close
  <2>3. UNCHANGED <<todo, mem, file, card, ready, pad, sock, fails, net>>
    BY <1>13 DEF Close
  <2> QED
    BY <2>1, <2>2, <2>3, <2>4 DEF IndTypes, TypeOK, Steps, Codes
<1>14. CASE AcceptFails
  BY <1>14 DEF AcceptFails, IndTypes, TypeOK, Steps, Codes
<1>15. CASE Relisten
  <2>1. sock' \in {"open", "none"}
    BY <1>15 DEF Relisten, CreateListenSocket
  <2>2. \/ pc' = "retry" /\ fails' = fails
        \/ pc' = "accept" /\ fails' = 0
    BY <1>15 DEF Relisten
  <2>3. UNCHANGED <<connVars, confVars, card, ready, pad, net>>
    BY <1>15 DEF Relisten
  <2> QED
    BY <2>1, <2>2, <2>3 DEF IndTypes, TypeOK, Steps, Codes
<1>16. CASE RelistenAgain
  <2>1. sock' \in {"open", "none"}
    BY <1>16 DEF RelistenAgain, CreateListenSocket
  <2> QED
    BY <1>16, <2>1 DEF RelistenAgain, IndTypes, TypeOK, Steps, Codes
<1>17. CASE SettingsChange
  BY <1>17 DEF SettingsChange, IndTypes, TypeOK, Steps, Codes
<1>18. CASE NetworkGoes
  <2>1. sock' \in {"open", "dead", "none"}
    BY <1>18 DEF NetworkGoes
  <2>2. net' \in BOOLEAN
    BY <1>18 DEF NetworkGoes
  <2>3. UNCHANGED <<pc, connVars, confVars, card, ready, pad, fails>>
    BY <1>18 DEF NetworkGoes
  <2> QED
    BY <2>1, <2>2, <2>3 DEF IndTypes, TypeOK, Steps, Codes
<1>19. CASE NetworkComes
  BY <1>19 DEF NetworkComes, IndTypes, TypeOK, Steps, Codes
<1>21. CASE CardChanges
  BY <1>21 DEF CardChanges, IndTypes, TypeOK, Steps, Codes
<1>20. CASE UNCHANGED vars
  BY <1>20 DEF vars, IndTypes, TypeOK, Steps, Codes
<1> QED
  BY <1>1, <1>2, <1>3, <1>4, <1>5, <1>6, <1>7, <1>8, <1>9, <1>10, <1>11,
     <1>12, <1>13, <1>14, <1>15, <1>16, <1>17, <1>18, <1>19, <1>20, <1>21
     DEF Next, ServerStep, Receive

\* What a handler has yet to do after one step is answered as it was
\* planned.
LEMMA ActKeeps ==
  ASSUME IInv, Act
  PROVE  Coded(todo)' /\ Answering' /\ WholeJson'
<1> DEFINE h == todo[1]
<1>1. UNCHANGED <<pc, req, got>> /\ pc = "act"
  BY DEF Act
<1>2. Coded(todo) /\ Answering /\ WholeJson
  BY <1>1 DEF IInv, IndAnswer
<1>3. /\ Len(todo) \in Nat /\ Len(todo) > 0 /\ Len(todo') = Len(todo) - 1
      /\ \A i \in 1..Len(todo') : todo'[i] = todo[i + 1]
  BY ActTakes
<1>4. Coded(todo)'
  BY <1>2, <1>3 DEF Coded
<1>5. WholeJson'
  <2>1. BodyWhole' = BodyWhole /\ Route' = Route
    BY <1>1 DEF BodyWhole, Length, Route, AlsoAt
  <2> QED
    BY <1>1, <1>2, <1>3, <2>1 DEF WholeJson
<1>9. Route' = Route
  BY <1>1 DEF Route, AlsoAt
<1>6. CASE sent = <<>> /\ h.do = "say"
  <2>1. sent' = Append(<<>>, h.code) /\ h.code \in Codes
    BY <1>6, ActTakes
  <2>2. OneSay(todo)
    BY <1>2, <1>3, <1>6 DEF Answering
  <2>3. NoSay(todo')
    BY <1>3, <1>6, <2>2 DEF OneSay, NoSay
  <2>4. sent' = <<h.code>>
    BY <2>1
  <2>5. Answering'
    BY <2>3, <2>4 DEF Answering, NoSay
  <2> QED
    BY <1>4, <1>5, <2>5
<1>7. CASE sent = <<>> /\ h.do # "say"
  <2>1. sent' = <<>>
    BY <1>7, ActTakes
  <2>2. OneSay(todo)
    BY <1>2, <1>3, <1>7 DEF Answering
  <2>3. OneSay(todo')
    <3>1. PICK k \in 1..Len(todo) :
            /\ todo[k].do = "say"
            /\ \A j \in 1..Len(todo) : todo[j].do = "say" => j = k
      BY <2>2 DEF OneSay
    <3>2. k > 1 /\ k - 1 \in 1..Len(todo')
      BY <1>3, <1>7, <3>1
    <3>3. todo'[k - 1].do = "say"
      BY <1>3, <3>1, <3>2
    <3>4. \A j \in 1..Len(todo') : todo'[j].do = "say" => j = k - 1
      BY <1>3, <3>1
    <3> QED
      BY <3>2, <3>3, <3>4 DEF OneSay
  <2>4. Answering'
    BY <2>1, <2>3 DEF Answering, OneSay
  <2> QED
    BY <1>4, <1>5, <2>4
<1>8. CASE sent # <<>>
  <2>1. Len(sent) = 1 /\ NoSay(todo)
    BY <1>2, <1>8 DEF Answering
  <2>2. sent' = sent
    BY <1>3, <2>1, ActTakes DEF NoSay
  <2>3. Answering'
    BY <1>3, <2>1, <2>2 DEF Answering, NoSay
  <2> QED
    BY <1>4, <1>5, <2>3
<1> QED
  BY <1>6, <1>7, <1>8

\* What the invariant says of the open connection.
Conn == IndAnswer /\ ReadBounded /\ NotCutShort /\ WholeJson /\ AnsweredOnce

\* Refusing a request leaves one status line to send.
LEMMA ReplyKeeps ==
  ASSUME IInv, NEW c \in Codes, todo' = <<Say(c)>>, pc' = "act",
         UNCHANGED <<req, got>>, sent = <<>>, sent' = <<>>, ReadBounded'
  PROVE  Conn'
<1>1. Coded(todo') /\ OneSay(todo') /\ Harmless(todo')
  <2>1. Len(<<Say(c)>>) = 1 /\ <<Say(c)>>[1] = Say(c)
    OBVIOUS
  <2> QED
    BY <2>1, SayFits DEF Fit, Harmless, Say
<1>2. Answering'
  BY <1>1 DEF Answering, OneSay
<1>4. WholeJson'
  BY <1>1 DEF WholeJson, Harmless
<1>5. NotCutShort' /\ AnsweredOnce'
  BY DEF NotCutShort, AnsweredOnce
<1>6. IndAnswer'
  BY <1>1, <1>2 DEF IndAnswer
<1> QED
  BY <1>4, <1>5, <1>6 DEF Conn

\* Reading and checking a request leave it unanswered and nothing to do.
LEMMA ReadKeeps ==
  ASSUME IInv, pc' \in {"first", "wait", "auth", "dispatch"}, sent' = <<>>,
         pc' = "first" => got' = 0, ReadBounded', NotCutShort'
  PROVE  Conn'
BY DEF Conn, IndAnswer, WholeJson, AnsweredOnce

\* Every step keeps what the invariant says of the open connection.
LEMMA ConnStep == ASSUME IInv, [Next]_vars PROVE Conn'
<1> USE TypesAre, Limits DEF connVars, confVars, sockVars, rest
<1>0. Conn
  BY DEF Conn, IInv
<1>1. ASSUME NEW r \in Requests, Accept(r) PROVE Conn'
  <2>1. ReadBounded' /\ NotCutShort'
    BY <1>1 DEF Accept, ReadBounded, NotCutShort
  <2> QED
    BY <1>1, <2>1, ReadKeeps DEF Accept
<1>2. ASSUME NEW n \in 1..BufferParts, FirstRecv(n) PROVE Conn'
  <2>1. ReadBounded' /\ NotCutShort'
    BY <1>0, <1>2 DEF Conn, FirstRecv, ReadBounded, NotCutShort
  <2>2. sent' = <<>>
    BY <1>0, <1>2 DEF Conn, IndAnswer, FirstRecv
  <2> QED
    BY <1>2, <2>1, <2>2, ReadKeeps DEF FirstRecv
<1>3. CASE NoData
  <2>1. got' = 0 /\ pc' = "close"
    BY <1>0, <1>3 DEF Conn, IndAnswer, NoData
  <2> QED
    BY <1>0, <1>3, <2>1
       DEF Conn, NoData, IndAnswer, ReadBounded, NotCutShort, WholeJson,
           AnsweredOnce
<1>4. ASSUME NEW n \in 1..BufferParts, NEW x \in 0..RecvTimeout, RecvMore(n, x)
      PROVE  Conn'
  <2>1. ReadBounded' /\ NotCutShort'
    BY <1>4 DEF RecvMore, Waiting, ReadBounded, NotCutShort
  <2>2. sent' = <<>> /\ pc' = "wait"
    BY <1>0, <1>4 DEF Conn, IndAnswer, RecvMore, Waiting
  <2> QED
    BY <2>1, <2>2, ReadKeeps
<1>5. ASSUME NEW x \in 0..RecvTimeout, RecvFails(x) PROVE Conn'
  <2>1. ReadBounded' /\ NotCutShort'
    BY <1>5 DEF RecvFails, Waiting, ReadBounded, NotCutShort
  <2>2. sent' = <<>> /\ pc' = "auth"
    BY <1>0, <1>5 DEF Conn, IndAnswer, RecvFails, Waiting
  <2> QED
    BY <2>1, <2>2, ReadKeeps
<1>6. CASE DeadlineExceeded
  <2>1. ReadBounded'
    BY <1>0, <1>6 DEF Conn, DeadlineExceeded, ReadBounded
  <2>2. sent = <<>> /\ sent' = <<>>
    BY <1>0, <1>6 DEF Conn, IndAnswer, DeadlineExceeded, Waiting
  <2>3. 408 \in Codes
    BY DEF Codes
  <2>4. todo' = <<Say(408)>> /\ pc' = "act" /\ UNCHANGED <<req, got>>
    BY <1>6 DEF DeadlineExceeded
  <2> QED
    BY <2>1, <2>2, <2>3, <2>4, ReplyKeeps
<1>7. CASE Received
  <2>1. ReadBounded' /\ NotCutShort'
    BY <1>0, <1>7
       DEF Conn, Received, HasCompleteBody, BodyWhole, Length, ReadBounded,
           NotCutShort
  <2>2. sent' = <<>> /\ pc' = "auth"
    BY <1>0, <1>7 DEF Conn, IndAnswer, Received
  <2> QED
    BY <2>1, <2>2, ReadKeeps
<1>8. CASE Authorised
  <2>1. ReadBounded' /\ NotCutShort'
    BY <1>0, <1>8
       DEF Conn, Authorised, Checked, Length, ReadBounded, NotCutShort
  <2>2. sent' = <<>> /\ pc' = "dispatch"
    BY <1>0, <1>8 DEF Conn, IndAnswer, Authorised, Checked
  <2> QED
    BY <2>1, <2>2, ReadKeeps
<1>9. CASE AuthReloads
  <2>1. /\ sent = <<>> /\ sent' = <<>> /\ pc = "auth"
        /\ UNCHANGED <<req, got, stalled>> /\ clock' = 0
    BY <1>0, <1>9 DEF Conn, IndAnswer, AuthReloads, Checked
  <2>2. ReadBounded'
    BY <2>1 DEF ReadBounded
  <2>3. CASE pc' = "dispatch"
    <3>1. NotCutShort'
      BY <1>0, <2>1, <2>3 DEF Conn, Length, NotCutShort
    <3> QED
      BY <2>1, <2>2, <2>3, <3>1, ReadKeeps
  <2>4. CASE Refused
    BY <2>1, <2>2, <2>4, ReplyKeeps DEF Refused, Codes
  <2> QED
    BY <1>9, <2>3, <2>4 DEF AuthReloads
<1>10. CASE Dispatch
  <2>1. /\ sent = <<>> /\ sent' = <<>> /\ pc' = "act"
        /\ UNCHANGED <<req, got, clock>>
    BY <1>0, <1>10 DEF Conn, IndAnswer, Dispatch
  <2>2. Fit(todo')
    BY <1>10, PlansFit DEF Dispatch
  <2>4. Route' = Route /\ BodyWhole' = BodyWhole
    BY <2>1 DEF Route, AlsoAt, BodyWhole, Length
  <2>3. Answering'
    BY <2>1, <2>2, <2>4 DEF Fit, Answering, OneSay
  <2>5. WholeJson'
    BY <2>1, <2>2, <2>4 DEF Fit, Cut, Harmless, WholeJson
  <2>6. IndAnswer'
    BY <2>1, <2>2, <2>3 DEF Fit, IndAnswer
  <2> QED
    BY <1>0, <2>1, <2>5, <2>6 DEF Conn, ReadBounded, NotCutShort, AnsweredOnce
<1>11. CASE Act
  <2>1. pc' = "act" /\ UNCHANGED clock
    BY <1>11 DEF Act
  <2>2. IndAnswer' /\ WholeJson'
    BY <1>11, <2>1, ActKeeps DEF IndAnswer
  <2> QED
    BY <1>0, <2>1, <2>2 DEF Conn, ReadBounded, NotCutShort, AnsweredOnce
<1>12. CASE ActDone
  <2>1. /\ Answering /\ todo = <<>> /\ pc' = "close"
        /\ UNCHANGED <<req, got, sent, clock>>
    BY <1>0, <1>12 DEF Conn, IndAnswer, ActDone
  <2>3. Route' = Route
    BY <2>1 DEF Route, AlsoAt
  <2>2. AnsweredOnce'
    BY <2>1, <2>3 DEF Answering, OneSay, AnsweredOnce
  <2> QED
    BY <1>0, <2>1, <2>2
       DEF Conn, IndAnswer, ReadBounded, NotCutShort, WholeJson
<1>13. CASE Close
  BY <1>13
     DEF Conn, Close, IndAnswer, ReadBounded, NotCutShort, WholeJson,
         AnsweredOnce
<1>14. CASE AcceptFails \/ Relisten \/ RelistenAgain
  <2>1. pc' \in {"accept", "relisten", "retry"} /\ UNCHANGED clock
    BY <1>14 DEF AcceptFails, Relisten, RelistenAgain
  <2> QED
    BY <1>0, <2>1
       DEF Conn, IndAnswer, ReadBounded, NotCutShort, WholeJson, AnsweredOnce
<1>15. CASE \/ SettingsChange \/ CardChanges \/ NetworkGoes \/ NetworkComes
            \/ UNCHANGED vars
  <2>1. UNCHANGED <<pc, req, got, clock, stalled, todo, sent>>
    BY <1>15 DEF SettingsChange, CardChanges, NetworkGoes, NetworkComes, vars
  <2> QED
    BY <1>0, <2>1
       DEF Conn, IndAnswer, Coded, Answering, OneSay, NoSay, ReadBounded,
           NotCutShort, WholeJson, AnsweredOnce, BodyWhole, Length, Route,
           AlsoAt
<1> QED
  BY <1>1, <1>2, <1>3, <1>4, <1>5, <1>6, <1>7, <1>8, <1>9, <1>10, <1>11,
     <1>12, <1>13, <1>14, <1>15 DEF Next, ServerStep, Receive

\* The invariant is one.
LEMMA InvariantHolds == Spec => []IInv
<1>1. IInv /\ [Next]_vars => IInv'
  BY TypesStep, ConnStep DEF IInv, Conn
<1> QED
  BY InitIInv, <1>1, PTL DEF Spec

-----------------------------------------------------------------------------
(* The theorems.                                                           *)

\* Type correctness, whatever is sent to core and whatever becomes of
\* settings.json and the network: the count of failed accept()s among it,
\* which never passes its limit.
THEOREM TypeCorrect == Spec => []TypeOK
<1>1. IInv => TypeOK
  BY DEF IInv, IndTypes
<1> QED
  BY <1>1, InvariantHolds, PTL

\* The body loop of handle_client() ends: no client holds the thread longer
\* than the total deadline and one recv_timeout() more.
THEOREM ReadIsBounded == Spec => []ReadBounded
<1>1. IInv => ReadBounded
  BY DEF IInv
<1> QED
  BY <1>1, InvariantHolds, PTL

\* A request that fits the buffer, of a client that keeps sending, is there up
\* to the end of its headers, and as far as they announce its body, when
\* handle_client() acts on it.
THEOREM NoneCutShort == Spec => []NotCutShort
<1>1. IInv => NotCutShort
  BY DEF IInv
<1> QED
  BY <1>1, InvariantHolds, PTL

\* What is left of a handler's steps is only its answer when its JSON body is
\* incomplete.
THEOREM JsonIsWhole == Spec => []WholeJson
<1>1. IInv => WholeJson
  BY DEF IInv
<1> QED
  BY <1>1, InvariantHolds, PTL

\* handle_client() answers a request with one status line, in every branch of
\* every handler, save POST /command without a blank line.
THEOREM OneAnswer == Spec => []AnsweredOnce
<1>1. IInv => AnsweredOnce
  BY DEF IInv
<1> QED
  BY <1>1, InvariantHolds, PTL

\* As long as settings.json can be opened, a 401 is never sent for the token it
\* holds, for load() is called before it and the token compared once more.
THEOREM No401ForToken == Spec => NoFalse401
<1>1. IInv /\ [Next]_vars =>
        [(pc = "auth" /\ pc' = "act" /\ got >= 2 /\ card)
           => <<req.token, file'>> \notin StartsWith]_vars
  <2> SUFFICES ASSUME IInv, Next, pc = "auth", pc' = "act", got >= 2, card
               PROVE  <<req.token, file'>> \notin StartsWith
    OBVIOUS
  <2>1. AuthReloads
    BY DEF Next, ServerStep, Receive, Accept, FirstRecv, NoData, RecvMore,
           RecvFails, DeadlineExceeded, Received, Waiting, Authorised,
           Dispatch, Act, ActDone, Close, AcceptFails, Relisten,
           RelistenAgain, SettingsChange, CardChanges, NetworkGoes,
           NetworkComes
  <2>2. Load /\ UNCHANGED req /\ UNCHANGED got
    BY <2>1 DEF AuthReloads, Checked
  <2>3. <<req.token, mem'>> \notin StartsWith
    BY <2>1, <2>2 DEF AuthReloads, HasValidApiToken
  <2>4. <<req.token, Empty>> \notin StartsWith
    BY Limits
  <2>5. file' = mem' \/ file' = Empty
    BY <2>2, TypesAre DEF Load, confVars
  <2> QED
    BY <2>3, <2>4, <2>5
<1> QED
  BY <1>1, InvariantHolds, PTL DEF Spec, NoFalse401

\* The accept loop implements CoreOutside: a connection is taken from a socket
\* that works, and nothing handle_client() does touches that socket.
THEOREM AcceptLoopAsSeen == Spec => ServesAsSeen
<1>1. Init => Outside!Init
  BY DEF Init, Outside!Init, Phase, Listener
<1>2. [Next]_vars => [Outside!Next]_<<Phase, Listener>>
  <2> SUFFICES ASSUME [Next]_vars PROVE [Outside!Next]_<<Phase, Listener>>
    OBVIOUS
  <2> USE DEF Phase, Listener
  <2>1. CASE \E r \in Requests : Accept(r)
    BY <2>1 DEF Accept, Outside!Next, Outside!Take
  <2>2. CASE AcceptFails
    BY <2>2 DEF AcceptFails
  <2>3. CASE Relisten \/ RelistenAgain
    BY <2>3 DEF Relisten, RelistenAgain, CreateListenSocket, Outside!Next,
       Outside!Relisten
  <2>4. CASE Receive
    BY <2>4 DEF Receive, FirstRecv, NoData, Waiting, RecvMore, RecvFails,
       DeadlineExceeded, Received, rest, sockVars
  <2>5. CASE Authorised \/ AuthReloads \/ Dispatch \/ Act \/ ActDone
    BY <2>5 DEF Authorised, AuthReloads, Refused, Dispatch, Act, ActDone,
       rest, sockVars
  <2>6. CASE Close
    BY <2>6 DEF Close, sockVars, Outside!Next, Outside!Finish
  <2>7. CASE NetworkGoes
    BY <2>7 DEF NetworkGoes, Outside!Next, Outside!Lose
  <2>8. CASE SettingsChange \/ CardChanges \/ NetworkComes \/ UNCHANGED vars
    BY <2>8 DEF SettingsChange, CardChanges, NetworkComes, vars, sockVars
  <2> QED
    BY <2>1, <2>2, <2>3, <2>4, <2>5, <2>6, <2>7, <2>8 DEF Next, ServerStep
<1> QED
  BY <1>1, <1>2, PTL DEF Spec, ServesAsSeen, Outside!Spec

-----------------------------------------------------------------------------
(* What a handler does, and for whom.                                      *)

\* A press is followed by its release, and a reload by answers only.
Paired(p) == \A i \in 1..Len(p) : p[i].do = "press" =>
               i < Len(p) /\ p[i + 1].do = "release"

ReloadLast(p) == \A i \in 1..Len(p) : p[i].do = "reload" =>
                   \A j \in (i + 1)..Len(p) : p[j].do \in {"say", "more"}

\* Every plan is of that kind, and for the routes that are open to anybody
\* there are answers only.
LEMMA PlansPaired ==
  ASSUME NEW p \in Plans, req \in Requests
  PROVE  Paired(p) /\ ReloadLast(p) /\ (Route \in Open => Harmless(p))
<1> USE DEF Say, Do, More, Paired, ReloadLast, Open, Harmless
<1>1. CASE \E c \in Codes : p = <<Say(c)>>
  BY <1>1
<1>2. CASE p = <<Say(200), More>>
  BY <1>2
<1>3. CASE /\ \E w \in {"power", "launch"} : p = <<Do(w), Say(200), More>>
           /\ Route = "command"
  BY <1>3
<1>4. CASE /\ p = <<Say(200), Do("power")>>
           /\ Route \in {"reboot", "shutdown", "sleep", "update_app"}
  BY <1>4
<1>5. CASE p = <<Say(200), Do("launch")>> /\ Route = "launch"
  BY <1>5
<1>6. CASE p = <<Do("reload"), Say(200)>> /\ Route = "reload_config"
  BY <1>6
<1>7. CASE /\ p = <<Do("press"), Do("release"), Do("press"), Do("release"),
                    Say(200)>>
           /\ Route = "button"
  BY <1>7
<1>8. CASE p = <<Do("press"), Do("release"), Say(200)>> /\ Route = "button"
  BY <1>8
<1>9. CASE p = <<>>
  BY <1>9
<1> QED
  BY <1>1, <1>2, <1>3, <1>4, <1>5, <1>6, <1>7, <1>8, <1>9, PlanShapes

\* A button is held between a press and its release and nowhere else.
HeldInHandler ==
  /\ pad = "down" => pc = "act" /\ Len(todo) > 0 /\ todo[1].do = "release"
  /\ pc = "act" => Paired(todo)

ForToken ==
  /\ pc = "dispatch" => req.line \in Open \/ HasValidApiToken(mem)
  /\ pc = "act" => ReloadLast(todo)
  /\ OnlyForToken

\* One step of a handler keeps both.
LEMMA ActKeepsHeld ==
  ASSUME IInv, HeldInHandler, ForToken, Act
  PROVE  HeldInHandler' /\ ForToken'
<1>1. pc = "act" /\ UNCHANGED <<pc, req, got>>
  BY DEF Act
<1>2. /\ Len(todo) \in Nat /\ Len(todo) > 0 /\ Len(todo') = Len(todo) - 1
      /\ \A i \in 1..Len(todo') : todo'[i] = todo[i + 1]
      /\ Doing = todo[1].do /\ 1 \in 1..Len(todo)
  <2>1. /\ todo # <<>> /\ Len(todo) \in Nat /\ Len(todo) > 0
        /\ Head(todo) = todo[1] /\ Len(todo') = Len(todo) - 1
        /\ \A i \in 1..Len(todo') : todo'[i] = todo[i + 1]
    BY ActTakes
  <2>2. 1 \in 1..Len(todo)
    BY <2>1
  <2>3. Doing = todo[1].do
    BY <2>1 DEF Doing
  <2> QED
    BY <2>1, <2>2, <2>3
<1>3. Paired(todo) /\ ReloadLast(todo)
  BY <1>1 DEF HeldInHandler, ForToken
<1>4. Paired(todo') /\ ReloadLast(todo')
  <2>1. /\ Len(todo) \in Nat /\ Len(todo') = Len(todo) - 1
        /\ \A i \in 1..Len(todo') : todo'[i] = todo[i + 1]
    BY <1>2
  <2>2. Paired(todo')
    BY <1>3, <2>1 DEF Paired
  <2>3. ReloadLast(todo')
    <3>1. SUFFICES ASSUME NEW i \in 1..Len(todo'), todo'[i].do = "reload",
                          NEW j \in (i + 1)..Len(todo')
                   PROVE  todo'[j].do \in {"say", "more"}
      BY DEF ReloadLast
    <3>2. /\ i + 1 \in 1..Len(todo)
          /\ j + 1 \in ((i + 1) + 1)..Len(todo) /\ j \in 1..Len(todo')
      BY <2>1
    <3>3. todo'[i] = todo[i + 1] /\ todo'[j] = todo[j + 1]
      BY <2>1, <3>2
    <3> QED
      BY <1>3, <3>1, <3>2, <3>3 DEF ReloadLast
  <2> QED
    BY <2>2, <2>3
<1>5. HeldInHandler'
  <2>1. CASE Doing = "press"
    <3>1. 1 < Len(todo) /\ todo[1 + 1].do = "release"
      BY <1>3, <1>2, <2>1 DEF Paired
    <3> QED
      BY <1>1, <1>2, <1>4, <3>1 DEF HeldInHandler
  <2>2. CASE Doing # "press"
    <3>1. Doing = "release" => pad' = "up"
      BY DEF Act
    <3>2. Doing # "release" => pad # "down" /\ pad' = pad
      BY <1>2, <2>2 DEF Act, HeldInHandler
    <3> QED
      BY <1>1, <1>4, <3>1, <3>2 DEF HeldInHandler
  <2> QED
    BY <2>1, <2>2
<1>6. OnlyForToken'
  <2>1. CASE Doing = "reload"
    <3>1. \A j \in (1 + 1)..Len(todo) : todo[j].do \in {"say", "more"}
      BY <1>3, <1>2, <2>1 DEF ReloadLast
    <3>2. \A i \in 1..Len(todo') : todo'[i].do \in {"say", "more"}
      BY <1>2, <3>1
    <3> QED
      BY <3>2 DEF OnlyForToken
  <2>2. CASE Doing # "reload"
    <3>1. UNCHANGED mem
      BY <2>2 DEF Act, confVars
    <3> QED
      BY <1>1, <1>2, <3>1 DEF ForToken, OnlyForToken, HasValidApiToken,
         ExemptForAnother, Route, AlsoAt
  <2> QED
    BY <2>1, <2>2
<1> QED
  BY <1>1, <1>4, <1>5, <1>6 DEF ForToken

\* Every step keeps them.
LEMMA HeldStep ==
  ASSUME IInv, HeldInHandler, ForToken, [Next]_vars
  PROVE  HeldInHandler' /\ ForToken'
<1> USE DEF HeldInHandler, ForToken, connVars, confVars, sockVars, rest
<1>1. CASE \E r \in Requests : Accept(r)
  BY <1>1 DEF Accept, OnlyForToken
<1>2. CASE Receive
  <2>1. CASE DeadlineExceeded
    <3>1. pc = "wait" /\ pc' = "act" /\ todo' = <<Say(408)>> /\ UNCHANGED pad
      BY <2>1 DEF DeadlineExceeded, Waiting
    <3> QED
      BY <3>1 DEF OnlyForToken, Paired, ReloadLast, Say
  <2>2. CASE ~DeadlineExceeded
    <3>1. /\ pc \in {"first", "wait"} /\ pc' \in {"wait", "auth", "close"}
          /\ UNCHANGED pad
      BY <1>2, <2>2 DEF Receive, FirstRecv, NoData, Waiting, RecvMore,
         RecvFails, Received
    <3> QED
      BY <3>1 DEF OnlyForToken
  <2> QED
    BY <2>1, <2>2
<1>3. CASE Authorised
  BY <1>3 DEF Authorised, Checked, OnlyForToken, HasValidApiToken
<1>4. CASE AuthReloads
  <2>1. CASE pc' = "dispatch"
    BY <1>4, <2>1 DEF AuthReloads, Refused, Checked, OnlyForToken,
       HasValidApiToken
  <2>2. CASE pc' # "dispatch"
    <3>1. pc = "auth" /\ pc' = "act" /\ todo' = <<Say(401)>> /\ UNCHANGED pad
      BY <1>4, <2>2 DEF AuthReloads, Refused
    <3> QED
      BY <3>1 DEF OnlyForToken, Paired, ReloadLast, Say
  <2> QED
    BY <2>1, <2>2
<1>5. CASE Dispatch
  <2>1. /\ pc = "dispatch" /\ pc' = "act" /\ todo' \in Plans
        /\ UNCHANGED <<req, got, mem, pad>>
    BY <1>5 DEF Dispatch
  <2>2. Paired(todo') /\ ReloadLast(todo')
           /\ (Route \in Open => Harmless(todo'))
    BY <2>1, PlansPaired, TypesAre
  <2>3. req.line \in Open => Route \in Open \/ ExemptForAnother
    BY RouteFound, TypesAre DEF Open, ExemptForAnother
  <2>4. HasValidApiToken(mem') = HasValidApiToken(mem)
    BY <2>1 DEF HasValidApiToken
  <2>5. ExemptForAnother' = ExemptForAnother
    BY <2>1 DEF ExemptForAnother, Route, AlsoAt
  <2>6. \/ HasValidApiToken(mem)' \/ ExemptForAnother' \/ Harmless(todo')
    BY <2>1, <2>2, <2>3, <2>4, <2>5 DEF HasValidApiToken
  <2> QED
    BY <2>1, <2>2, <2>6 DEF OnlyForToken, Harmless
<1>6. CASE Act
  BY <1>6, ActKeepsHeld
<1>7. CASE ActDone
  <2>1. Len(todo) = 0 /\ pc = "act" /\ pc' = "close" /\ UNCHANGED pad
    BY <1>7 DEF ActDone
  <2> QED
    BY <2>1 DEF OnlyForToken
<1>8. CASE Close \/ AcceptFails \/ Relisten \/ RelistenAgain
  <2>1. /\ pc \in {"close", "accept", "relisten", "retry"} /\ UNCHANGED pad
        /\ pc' \in {"accept", "relisten", "retry"}
    BY <1>8 DEF Close, AcceptFails, Relisten, RelistenAgain
  <2> QED
    BY <2>1 DEF OnlyForToken
<1>9. CASE \/ SettingsChange \/ CardChanges \/ NetworkGoes \/ NetworkComes
           \/ UNCHANGED vars
  <2>1. UNCHANGED <<pc, req, got, todo, mem, pad>>
    BY <1>9 DEF SettingsChange, CardChanges, NetworkGoes, NetworkComes, vars
  <2> QED
    BY <2>1 DEF OnlyForToken, Paired, ReloadLast, HasValidApiToken,
       ExemptForAnother, Route, AlsoAt
<1> QED
  BY <1>1, <1>2, <1>3, <1>4, <1>5, <1>6, <1>7, <1>8, <1>9 DEF Next, ServerStep

LEMMA HeldAlways == Spec => [](IInv /\ HeldInHandler /\ ForToken)
<1>1. Init => HeldInHandler /\ ForToken
  BY DEF Init, HeldInHandler, ForToken, OnlyForToken
<1> QED
  BY <1>1, HeldStep, InvariantHolds, PTL DEF Spec

\* Whatever a handler does to the console, it does for a client that sent the
\* token core holds at that moment, or a longer one that begins with it; a
\* request that begins like GET /health and names another route further on is
\* the only other one, and one that begins like GET /info never does anything.
THEOREM EffectsForTokenOnly == Spec => []OnlyForToken
<1>1. ForToken => OnlyForToken
  BY DEF ForToken
<1> QED
  BY <1>1, HeldAlways, PTL

\* As long as core's thread is not stuck within a request, a button that is
\* pressed is let go: nothing comes between the press and its release, a
\* client that is gone neither.
THEOREM ButtonLetGo == FairSpec /\ []ThreadGoesOn => PadReleased
<1> DEFINE Safe == IInv /\ HeldInHandler /\ ThreadGoesOn
           Down == pad = "down"
           Up   == pad = "up"
<1>1. Safe /\ Down => ENABLED <<ServerStep>>_vars
  BY DEF HeldInHandler, ThreadGoesOn
<1>2. Safe /\ Down /\ [Next]_vars => Down' \/ Up'
  BY TypesStep DEF IndTypes, TypeOK
<1>3. Safe /\ Down /\ <<ServerStep>>_vars => Up'
  <2> SUFFICES ASSUME Safe, Down, ServerStep PROVE Up'
    OBVIOUS
  <2>1. pc = "act" /\ todo # <<>> /\ todo[1].do = "release"
    BY DEF HeldInHandler
  <2>2. Act
    BY <2>1 DEF ServerStep, Receive, FirstRecv, NoData, Waiting, RecvMore,
       RecvFails, DeadlineExceeded, Received, Authorised, AuthReloads,
       Dispatch, ActDone, Close, AcceptFails, Relisten, RelistenAgain
  <2>3. Doing = "release"
    BY <2>1, <2>2, ActTakes DEF Doing
  <2> QED
    BY <2>2, <2>3 DEF Act
<1>4. FairSpec /\ []ThreadGoesOn => (Down ~> Up)
  BY <1>1, <1>2, <1>3, HeldAlways, PTL DEF FairSpec, Spec
<1> QED
  BY <1>4 DEF PadReleased

-----------------------------------------------------------------------------
(* Liveness of the thread.  Its loops are counted out: the steps of a      *)
(* handler, the parts of a request, the failures of accept().              *)

\* char buffer[2048], of which recv_timeout() fills all but one, and a part has
\* at least one byte; 25 failures of accept().
NumbersOfTheCode == BufferParts <= 2047 /\ FailLimit <= 25

\* No handler does more than five things: two clicks and an answer.
FewSteps == pc = "act" => Len(todo) <= 5

\* What the thread does next, point by point.
LEMMA ThreadMoves ==
  ASSUME IInv, ServerStep
  PROVE  /\ pc = "accept" => \/ pc' = "relisten"
                             \/ pc' = "accept" /\ fails' = fails + 1
         /\ pc = "relisten" => pc' \in {"accept", "retry"}
         /\ pc = "retry" => pc' = "accept"
         /\ pc = "first" => pc' \in {"wait", "close"}
         /\ pc = "wait" => \/ pc' = "auth"
                           \/ pc' = "act" /\ Len(todo') = 1
                           \/ pc' = "wait" /\ got' > got
         /\ pc = "auth" => \/ pc' = "dispatch"
                           \/ pc' = "act" /\ Len(todo') = 1
         /\ pc = "dispatch" => pc' = "act" /\ Len(todo') <= 5
         /\ pc = "act" => \/ pc' = "act" /\ Len(todo') = Len(todo) - 1
                          \/ pc' = "close"
         /\ pc = "close" => pc' = "accept"
         /\ pc \notin {"relisten", "retry"} => sock' = sock
         /\ pc \in {"relisten", "retry"} /\ net => sock' = "open"
<1> USE DEF rest, connVars, confVars, sockVars
<1>1. CASE Receive
  <2>1. CASE DeadlineExceeded
    BY <2>1 DEF DeadlineExceeded, Waiting
  <2>2. CASE \E n \in 1..BufferParts, s \in 0..RecvTimeout : RecvMore(n, s)
    <3>1. PICK n \in 1..BufferParts, s \in 0..RecvTimeout : RecvMore(n, s)
      BY <2>2
    <3>2. got \in Nat /\ got' = got + n /\ n \in Nat /\ n > 0
      BY <3>1, TypesAre, Limits DEF RecvMore, Arrives
    <3> QED
      BY <3>1, <3>2 DEF RecvMore, Waiting
  <2>3. CASE \E n \in 1..BufferParts : FirstRecv(n)
    BY <2>3 DEF FirstRecv
  <2>4. CASE NoData \/ Received \/ \E s \in 0..RecvTimeout : RecvFails(s)
    BY <2>4 DEF NoData, Received, RecvFails, Waiting
  <2> QED
    BY <1>1, <2>1, <2>2, <2>3, <2>4 DEF Receive
<1>2. CASE Authorised \/ AuthReloads
  BY <1>2 DEF Authorised, AuthReloads, Refused
<1>3. CASE Dispatch
  <2>1. PICK p \in Plans : todo' = p
    BY <1>3 DEF Dispatch
  <2>2. \A a, b, c, d, e : /\ Len(<<>>) = 0 /\ Len(<<a>>) = 1
                            /\ Len(<<a, b>>) = 2 /\ Len(<<a, b, c>>) = 3
                            /\ Len(<<a, b, c, d, e>>) = 5
    OBVIOUS
  <2>3. Len(p) \in {0, 1, 2, 3, 5}
    BY <2>2, PlanShapes, TypesAre, Zenon
  <2>4. Len(todo') <= 5
    <3>1. Len(todo') = Len(p)
      BY <2>1
    <3>2. \A n \in {0, 1, 2, 3, 5} : n <= 5
      OBVIOUS
    <3> QED
      BY <2>3, <3>1, <3>2, Zenon
  <2>5. pc = "dispatch" /\ pc' = "act" /\ sock' = sock
    BY <1>3 DEF Dispatch
  <2> QED
    BY <2>4, <2>5
<1>4. CASE Act
  BY <1>4, ActTakes DEF Act
<1>5. CASE ActDone \/ Close
  BY <1>5 DEF ActDone, Close
<1>6. CASE AcceptFails \/ Relisten \/ RelistenAgain
  BY <1>6 DEF AcceptFails, Relisten, RelistenAgain, CreateListenSocket
<1> QED
  BY <1>1, <1>2, <1>3, <1>4, <1>5, <1>6 DEF ServerStep

\* A client is let in by a socket that works; nobody else moves the thread.
LEMMA OthersOfThread ==
  ASSUME [Next]_vars, ~ServerStep
  PROVE  /\ \/ pc = "accept" /\ sock = "open"
            \/ UNCHANGED <<pc, got, todo, fails>>
         /\ pc' \in {"first", pc}
         /\ sock' = "open" => sock = "open"
<1> USE DEF connVars, confVars, sockVars, vars
<1>1. CASE \E r \in Requests : Accept(r)
  BY <1>1 DEF Accept
<1>2. CASE \/ SettingsChange \/ CardChanges \/ NetworkGoes \/ NetworkComes
           \/ UNCHANGED vars
  BY <1>2 DEF SettingsChange, CardChanges, NetworkGoes, NetworkComes
<1> QED
  BY <1>1, <1>2 DEF Next

LEMMA FewAlways == Spec => [](IInv /\ FewSteps)
<1>1. Init => FewSteps
  BY DEF Init, FewSteps
<1>2. IInv /\ FewSteps /\ [Next]_vars => FewSteps'
  <2> SUFFICES ASSUME IInv, FewSteps, [Next]_vars PROVE FewSteps'
    OBVIOUS
  <2>1. Len(todo) \in Nat
    BY TypesAre
  <2>2. CASE ServerStep
    <3> SUFFICES ASSUME pc' = "act" PROVE Len(todo') <= 5
      BY DEF FewSteps
    <3>1. pc \in {"wait", "auth", "dispatch", "act"}
      BY <2>2, ThreadMoves, TypesAre
    <3>2. CASE pc = "act"
      BY <2>1, <2>2, <3>2, ThreadMoves DEF FewSteps
    <3>3. CASE pc # "act"
      BY <2>2, <3>1, <3>3, ThreadMoves
    <3> QED
      BY <3>2, <3>3
  <2>3. CASE ~ServerStep
    BY <2>3, OthersOfThread DEF FewSteps
  <2> QED
    BY <2>2, <2>3
<1> QED
  BY <1>1, <1>2, InvariantHolds, PTL DEF Spec

\* As long as the thread is not stuck: from b parts on, k more of them come, or
\* the body loop is left.
Partly(b) == pc = "wait" /\ got >= b

Reads(b, k) ==
  FairSpec /\ []ThreadGoesOn => (Partly(b) ~> Partly(b + k) \/ pc # "wait")

LEMMA ReadsOne == ASSUME NEW b \in Nat PROVE Reads(b, 1)
<1>1. IInv /\ Partly(b) /\ [Next]_vars =>
        \/ Partly(b)' /\ ~<<ServerStep>>_vars
        \/ Partly(b + 1)' \/ (pc # "wait")'
  <2> SUFFICES ASSUME IInv, Partly(b), [Next]_vars, pc' = "wait"
               PROVE  \/ Partly(b)' /\ ~<<ServerStep>>_vars
                      \/ Partly(b + 1)'
    OBVIOUS
  <2>1. got \in Nat /\ got' \in Nat
    BY TypesAre, TypesStep, Limits DEF IndTypes, TypeOK
  <2>2. CASE ServerStep
    BY <2>1, <2>2, ThreadMoves DEF Partly
  <2>3. CASE ~ServerStep
    BY <2>3, OthersOfThread DEF Partly
  <2> QED
    BY <2>2, <2>3
<1>2. ThreadGoesOn /\ Partly(b) => ENABLED <<ServerStep>>_vars
  BY DEF ThreadGoesOn, Partly
<1> QED
  BY <1>1, <1>2, InvariantHolds, PTL DEF Reads, FairSpec, Spec

LEMMA ReadsChain ==
  ASSUME NEW b \in Nat, NEW k \in Nat, NEW c, c = b + k, NEW n, n = k + k
  PROVE  Reads(b, k) /\ Reads(c, k) => Reads(b, n)
<1>1. Partly(b + k) <=> Partly(c)
  OBVIOUS
<1>2. Partly(c + k) <=> Partly(b + n)
  BY c + k = b + n
<1> QED
  BY <1>1, <1>2, PTL DEF Reads

LEMMA ReadsTwice ==
  ASSUME NEW k \in Nat, NEW n, n = k + k, \A b \in Nat : Reads(b, k)
  PROVE  \A b \in Nat : Reads(b, n)
<1> SUFFICES ASSUME NEW b \in Nat PROVE Reads(b, n)
  OBVIOUS
<1>1. Reads(b, k) /\ Reads(b + k, k) => Reads(b, n)
  BY ReadsChain
<1> QED
  BY <1>1

\* So it is left, for the buffer is full after at most 2047 parts.
LEMMA ReadingEnds ==
  ASSUME NumbersOfTheCode
  PROVE  FairSpec /\ []ThreadGoesOn => (pc = "wait" ~> pc # "wait")
<1>1. \A b \in Nat : Reads(b, 1)
  BY ReadsOne
<1>2. \A b \in Nat : Reads(b, 2)
  BY <1>1, ReadsTwice
<1>3. \A b \in Nat : Reads(b, 4)
  BY <1>2, ReadsTwice
<1>4. \A b \in Nat : Reads(b, 8)
  BY <1>3, ReadsTwice
<1>5. \A b \in Nat : Reads(b, 16)
  BY <1>4, ReadsTwice
<1>6. \A b \in Nat : Reads(b, 32)
  BY <1>5, ReadsTwice
<1>7. \A b \in Nat : Reads(b, 64)
  BY <1>6, ReadsTwice
<1>8. \A b \in Nat : Reads(b, 128)
  BY <1>7, ReadsTwice
<1>9. \A b \in Nat : Reads(b, 256)
  BY <1>8, ReadsTwice
<1>10. \A b \in Nat : Reads(b, 512)
  BY <1>9, ReadsTwice
<1>11. \A b \in Nat : Reads(b, 1024)
  BY <1>10, ReadsTwice
<1>12. \A b \in Nat : Reads(b, 2048)
  BY <1>11, ReadsTwice
<1>13. Reads(0, 2048)
  BY <1>12
<1>14. IInv => ~Partly(0 + 2048) /\ (pc = "wait" <=> Partly(0))
  BY TypesAre, Limits DEF NumbersOfTheCode, Partly
<1> QED
  BY <1>13, <1>14, InvariantHolds, PTL DEF Reads, FairSpec, Spec

\* The thread stands at the point; it has k steps of a handler before it.
Stands(point) == pc = point
Left(k)       == pc = "act" /\ Len(todo) = k

LEMMA LeftMoves ==
  ASSUME IInv, [Next]_vars, NEW k \in Nat, NEW m \in Nat, k = m + 1
  PROVE  Left(k) => \/ Left(k)' /\ ~<<ServerStep>>_vars
                    \/ Left(m)' \/ Stands("close")'
<1> SUFFICES ASSUME Left(k)
             PROVE  \/ Left(k)' /\ ~<<ServerStep>>_vars
                    \/ Left(m)' \/ Stands("close")'
  OBVIOUS
<1>1. CASE ServerStep
  <2>1. pc' = "close" \/ (pc' = "act" /\ Len(todo') = Len(todo) - 1)
    BY <1>1, ThreadMoves DEF Left
  <2> QED
    BY <2>1 DEF Left, Stands
<1>2. CASE ~ServerStep
  BY <1>2, OthersOfThread DEF Left
<1> QED
  BY <1>1, <1>2

LEMMA NothingLeft ==
  ASSUME IInv, IInv', [Next]_vars, Left(0)
  PROVE  (Left(0)' /\ ~<<ServerStep>>_vars) \/ Stands("close")'
<1>1. CASE ServerStep
  <2>1. Len(todo') \in Nat
    BY TypesAre, TypesStep DEF IndTypes, TypeOK
  <2> QED
    BY <1>1, <2>1, ThreadMoves DEF Left, Stands
<1>2. CASE ~ServerStep
  BY <1>2, OthersOfThread DEF Left
<1> QED
  BY <1>1, <1>2

LEMMA HandlersEnd ==
  FairSpec /\ []ThreadGoesOn => (Stands("act") ~> Stands("close"))
<1>1. IInv /\ [Next]_vars =>
        /\ Left(5) => \/ Left(5)' /\ ~<<ServerStep>>_vars
                      \/ Left(4)' \/ Stands("close")'
        /\ Left(4) => \/ Left(4)' /\ ~<<ServerStep>>_vars
                      \/ Left(3)' \/ Stands("close")'
        /\ Left(3) => \/ Left(3)' /\ ~<<ServerStep>>_vars
                      \/ Left(2)' \/ Stands("close")'
        /\ Left(2) => \/ Left(2)' /\ ~<<ServerStep>>_vars
                      \/ Left(1)' \/ Stands("close")'
        /\ Left(1) => \/ Left(1)' /\ ~<<ServerStep>>_vars
                      \/ Left(0)' \/ Stands("close")'
  BY LeftMoves
<1>2. IInv /\ IInv' /\ [Next]_vars /\ Left(0) =>
        (Left(0)' /\ ~<<ServerStep>>_vars) \/ Stands("close")'
  BY NothingLeft
<1>3. IInv /\ FewSteps =>
        (Stands("act") <=> \/ Left(0) \/ Left(1) \/ Left(2) \/ Left(3)
                           \/ Left(4) \/ Left(5))
  <2> SUFFICES ASSUME IInv, FewSteps, pc = "act"
               PROVE  Len(todo) \in 0..5
    BY DEF Stands, Left
  <2>1. todo \in Seq(Steps)
    BY TypesAre
  <2>2. Len(todo) \in Nat
    BY <2>1
  <2>3. Len(todo) <= 5
    BY Zenon DEF FewSteps
  <2>4. \A n \in Nat : n <= 5 => n \in 0..5
    OBVIOUS
  <2> QED
    BY <2>2, <2>3, <2>4, Zenon
<1>4. ThreadGoesOn /\ Stands("act") => ENABLED <<ServerStep>>_vars
  BY DEF ThreadGoesOn, Stands
<1> QED
  BY <1>1, <1>2, <1>3, <1>4, FewAlways, PTL DEF FairSpec, Spec

\* As long as core's thread is not stuck, every request ends: the body loop
\* with the buffer, if not before, a handler with the last of its steps, and
\* two attempts at a socket are all there are.
THEOREM RequestsEnd ==
  ASSUME NumbersOfTheCode
  PROVE  FairSpec /\ []ThreadGoesOn => RequestEnds
<1>1. IInv /\ [Next]_vars =>
        /\ Stands("first") => \/ Stands("first")' /\ ~<<ServerStep>>_vars
                              \/ Stands("wait")' \/ Stands("close")'
        /\ Stands("wait") =>
             Stands("wait")' \/ Stands("auth")' \/ Stands("act")'
        /\ Stands("auth") => \/ Stands("auth")' /\ ~<<ServerStep>>_vars
                             \/ Stands("dispatch")' \/ Stands("act")'
        /\ Stands("dispatch") => \/ Stands("dispatch")' /\ ~<<ServerStep>>_vars
                                 \/ Stands("act")'
        /\ Stands("close") => \/ Stands("close")' /\ ~<<ServerStep>>_vars
                              \/ Stands("accept")'
        /\ Stands("relisten") => \/ Stands("relisten")' /\ ~<<ServerStep>>_vars
                                 \/ Stands("retry")' \/ Stands("accept")'
        /\ Stands("retry") => \/ Stands("retry")' /\ ~<<ServerStep>>_vars
                              \/ Stands("accept")'
  <2> SUFFICES ASSUME IInv, [Next]_vars, ~Stands("accept") PROVE <1>1!2
    BY DEF Stands
  <2>1. CASE ServerStep
    BY <2>1, ThreadMoves DEF Stands
  <2>2. CASE ~ServerStep
    BY <2>2, OthersOfThread DEF Stands
  <2> QED
    BY <2>1, <2>2
<1>2. ThreadGoesOn /\ ~Stands("accept") => ENABLED <<ServerStep>>_vars
  BY DEF ThreadGoesOn, Stands
<1>3. IInv => \/ Stands("accept") \/ Stands("first") \/ Stands("wait")
              \/ Stands("auth") \/ Stands("dispatch") \/ Stands("act")
              \/ Stands("close") \/ Stands("relisten") \/ Stands("retry")
  BY TypesAre DEF Stands
<1>4. /\ pc = "wait" <=> Stands("wait")
      /\ pc # "wait" <=> ~Stands("wait")
      /\ pc = "accept" <=> Stands("accept")
      /\ pc # "accept" <=> ~Stands("accept")
  BY DEF Stands
<1> QED
  BY <1>1, <1>2, <1>3, <1>4, ReadingEnds, HandlersEnd, InvariantHolds, PTL
     DEF FairSpec, Spec, RequestEnds

\* The socket is gone, and accept() has failed b times or more.
Failing(b) == pc = "accept" /\ sock # "open" /\ fails >= b

\* A socket is there, or about to be.
Saved == sock = "open" \/ pc = "relisten"

Fails(b, k) ==
  FairSpec /\ []ThreadGoesOn => (Failing(b) ~> Failing(b + k) \/ Saved)

LEMMA FailsOne == ASSUME NEW b \in Nat PROVE Fails(b, 1)
<1>1. IInv /\ Failing(b) /\ [Next]_vars =>
        \/ Failing(b)' /\ ~<<ServerStep>>_vars
        \/ Failing(b + 1)' \/ Saved'
  <2> SUFFICES ASSUME IInv, Failing(b), [Next]_vars, ~Saved'
               PROVE  \/ Failing(b)' /\ ~<<ServerStep>>_vars
                      \/ Failing(b + 1)'
    OBVIOUS
  <2>1. fails \in Nat
    BY TypesAre, Limits
  <2>2. CASE ServerStep
    BY <2>1, <2>2, ThreadMoves DEF Failing, Saved
  <2>3. CASE ~ServerStep
    BY <2>3, OthersOfThread DEF Failing, Saved
  <2> QED
    BY <2>2, <2>3
<1>2. ThreadGoesOn /\ Failing(b) => ENABLED <<ServerStep>>_vars
  BY DEF ThreadGoesOn, Failing
<1> QED
  BY <1>1, <1>2, InvariantHolds, PTL DEF Fails, FairSpec, Spec

LEMMA FailsChain ==
  ASSUME NEW b \in Nat, NEW k \in Nat, NEW c, c = b + k, NEW n, n = k + k
  PROVE  Fails(b, k) /\ Fails(c, k) => Fails(b, n)
<1>1. Failing(b + k) <=> Failing(c)
  OBVIOUS
<1>2. Failing(c + k) <=> Failing(b + n)
  BY c + k = b + n
<1> QED
  BY <1>1, <1>2, PTL DEF Fails

LEMMA FailsTwice ==
  ASSUME NEW k \in Nat, NEW n, n = k + k, \A b \in Nat : Fails(b, k)
  PROVE  \A b \in Nat : Fails(b, n)
<1> SUFFICES ASSUME NEW b \in Nat PROVE Fails(b, n)
  OBVIOUS
<1>1. Fails(b, k) /\ Fails(b + k, k) => Fails(b, n)
  BY FailsChain
<1> QED
  BY <1>1

\* So the socket is replaced, after at most 25 failures.
LEMMA FailingEnds ==
  ASSUME NumbersOfTheCode
  PROVE  FairSpec /\ []ThreadGoesOn => (Failing(0) ~> Saved)
<1>1. \A b \in Nat : Fails(b, 1)
  BY FailsOne
<1>2. \A b \in Nat : Fails(b, 2)
  BY <1>1, FailsTwice
<1>3. \A b \in Nat : Fails(b, 4)
  BY <1>2, FailsTwice
<1>4. \A b \in Nat : Fails(b, 8)
  BY <1>3, FailsTwice
<1>5. \A b \in Nat : Fails(b, 16)
  BY <1>4, FailsTwice
<1>6. \A b \in Nat : Fails(b, 32)
  BY <1>5, FailsTwice
<1>7. Fails(0, 32)
  BY <1>6
<1>8. IInv => ~Failing(0 + 32)
  BY TypesAre, Limits DEF NumbersOfTheCode, Failing
<1> QED
  BY <1>7, <1>8, InvariantHolds, PTL DEF Fails, FairSpec, Spec

\* As long as core's thread is not stuck, core listens again once the network
\* stays up, whatever request it was in and however many sockets were lost: a
\* socket that is gone makes accept() fail, and with a network the new one is
\* created at the first attempt.
THEOREM ListensOnceMore ==
  ASSUME NumbersOfTheCode
  PROVE  FairSpec /\ []ThreadGoesOn => ListensAgain
<1> DEFINE Listening == sock = "open"
           Net       == net
           Replacing == pc = "relisten"
<1>1. FairSpec /\ []ThreadGoesOn => RequestEnds
  BY RequestsEnd
<1>2. FairSpec /\ []ThreadGoesOn => (Failing(0) ~> Saved)
  BY FailingEnds
<1>3. IInv => (Stands("accept") => Failing(0) \/ Listening)
  BY TypesAre, Limits DEF Failing, Stands
<1>4. Saved => Listening \/ Replacing
  BY DEF Saved
<1>5. IInv /\ Net /\ Replacing /\ [Next]_vars =>
        (Replacing' /\ ~<<ServerStep>>_vars) \/ Listening'
  <2> SUFFICES ASSUME IInv, Net, Replacing, [Next]_vars
               PROVE  (Replacing' /\ ~<<ServerStep>>_vars) \/ Listening'
    OBVIOUS
  <2>1. CASE ServerStep
    BY <2>1, ThreadMoves
  <2>2. CASE ~ServerStep
    BY <2>2, OthersOfThread
  <2> QED
    BY <2>1, <2>2
<1>6. ThreadGoesOn /\ Replacing => ENABLED <<ServerStep>>_vars
  BY DEF ThreadGoesOn
<1>7. /\ Net <=> net
      /\ Listening <=> sock = "open"
      /\ pc # "accept" <=> ~Stands("accept")
      /\ pc = "accept" <=> Stands("accept")
  BY DEF Stands
<1> HIDE DEF Listening, Net, Replacing
<1> QED
  BY <1>1, <1>2, <1>3, <1>4, <1>5, <1>6, <1>7, InvariantHolds, PTL
     DEF FairSpec, Spec, RequestEnds, ListensAgain
=============================================================================
