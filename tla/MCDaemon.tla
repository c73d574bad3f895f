------------------------------ MODULE MCDaemon ------------------------------
(* Daemon on a small instance.                                             *)
EXTENDS Daemon, TLC

(* Processes differ in nothing but their pid.                              *)
Symmetry == Permutations(Vmms)
=============================================================================
