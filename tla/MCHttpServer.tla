---------------------------- MODULE MCHttpServer ----------------------------
(* HttpServer on small instances: a buffer that holds the shorter of two     *)
(* bodies and not the longer one, one token that begins with another, and    *)
(* the two services, which no handler needs together, there or not.          *)
EXTENDS HttpServer, TLC

MCStartsWith ==
  {<<t, t>> : t \in Tokens} \cup {CHOOSE p \in Tokens \X Tokens : p[1] # p[2]}

MCServices == {[hiddbg |-> there, capssc |-> there] : there \in BOOLEAN}
=============================================================================
