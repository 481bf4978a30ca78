----------------------------- MODULE MCLogRing -----------------------------
(* LogRing on a small instance: a ring of three entries that wraps twice.   *)
EXTENDS LogRing
=============================================================================
