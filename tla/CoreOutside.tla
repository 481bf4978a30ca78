---------------------------- MODULE CoreOutside ----------------------------
(***************************************************************************)
(* core as the rest of the console can rely on it: one thread that takes a *)
(* connection, handles it and goes back to accept(), and one listening     *)
(* socket, which core itself touches only in between.  A handler that      *)
(* hangs is therefore never healed from inside.  Supervisor relies on it,  *)
(* HttpServer delivers it.                                                 *)
(***************************************************************************)

VARIABLES
  phase,   \* what the thread is doing
  sock     \* the listening socket; without a descriptor it is as good as dead

\* core is not there, or listens already.
Init == \/ phase = "none" /\ sock = "none"
        \/ phase = "listening" /\ sock = "open"

\* core is launched only when no other instance of it runs.
Start == phase = "none" /\ phase' = "booting" /\ UNCHANGED sock

Listen == /\ phase = "booting"
          /\ phase' = "listening" /\ sock' = "open"

Take == /\ phase = "listening" /\ sock = "open"
        /\ phase' = "handling"
        /\ UNCHANGED sock

Finish == phase = "handling" /\ phase' = "listening" /\ UNCHANGED sock

Stick == phase = "handling" /\ phase' = "stuck" /\ UNCHANGED sock

\* After too many failures of accept(), which need not be the socket's fault,
\* it is replaced, or closed with nothing to replace it.
Relisten == phase = "listening" /\ sock' \in {"open", "dead"}
              /\ UNCHANGED phase

\* The console sleeps.
Lose == sock = "open" /\ sock' = "dead" /\ UNCHANGED phase

End == phase' = "none" /\ sock' = "none"

Next == Start \/ Listen \/ Take \/ Finish \/ Stick \/ Relisten \/ Lose \/ End

Spec == Init /\ [][Next]_<<phase, sock>>
=============================================================================
