------------------------------- MODULE MCHome -------------------------------
(* Home on small instances: one token begins with the other.                *)
EXTENDS Home

MCStartsWith ==
  {<<t, t>> : t \in Tokens} \cup {CHOOSE p \in Tokens \X Tokens : p[1] # p[2]}
=============================================================================
