-------------------------------- MODULE Words --------------------------------
(* The unsigned words of the code (u64), and what its operators on them do.  *)
EXTENDS Naturals

CONSTANTS
  WordSize,     (* a word is in 0..WordSize - 1, 2^64 in the code            *)
  KiB           (* 1024 in the code                                          *)

ASSUME WordAssumption == WordSize \in Nat \ {0} /\ KiB \in Nat \ {0}

Word == 0..WordSize - 1

Wrapped(n) == n % WordSize

(* saturating_add, saturating_mul *)
Saturated(n) == IF n < WordSize THEN n ELSE WordSize - 1

(* saturating_sub *)
Minus(m, n) == IF m > n THEN m - n ELSE 0

(* kib_to_bytes *)
Bytes(kibs) == Saturated(kibs * KiB)
=============================================================================
