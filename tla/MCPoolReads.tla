---------------------------- MODULE MCPoolReads ----------------------------
(* ProcessPool and its readers on a small instance.                        *)
EXTENDS PoolReads, TLC

(* Requests that read or do not, and VM names, differ in nothing else.     *)
Symmetry ==
  Permutations(Readers) \cup Permutations(Requests \ Readers) \cup Permutations(Names)
=============================================================================
