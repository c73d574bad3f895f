--------------------------- MODULE MCProcessPool ---------------------------
(* ProcessPool on a small instance.                                        *)
EXTENDS ProcessPool, TLC

(* Requests differ in nothing but their name; so do VM names.              *)
Symmetry == Permutations(Requests) \cup Permutations(Names)
=============================================================================
