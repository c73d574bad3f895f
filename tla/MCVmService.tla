---------------------------- MODULE MCVmService ----------------------------
(* VmService on a small instance.                                          *)
EXTENDS VmService, TLC

(* VM names differ in nothing but their name.                              *)
Symmetry == Permutations(Names)

(* Shutdown, which waits for the last handler, is left to other runs.      *)
Serves == daemon = "serve"
=============================================================================
