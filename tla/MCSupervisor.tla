---------------------------- MODULE MCSupervisor ----------------------------
(* Supervisor on small instances: the process ids are model values, and     *)
(* interchangeable where no liveness is checked.                            *)
EXTENDS Supervisor, TLC

PidSymmetry == Permutations(Pids)
=============================================================================
