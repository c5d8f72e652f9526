----------------------------- MODULE MCSupervisor -----------------------------
(* Small instances of the team run. *)
EXTENDS Supervisor, TLC

ProcessSymmetry == Permutations(Process)
===============================================================================
