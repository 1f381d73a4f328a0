------------------------------ MODULE MCCrontab ------------------------------
(* Instances of Crontab for TLC. *)
EXTENDS Crontab, TLC

Symmetry == Permutations(Procs)
=============================================================================
