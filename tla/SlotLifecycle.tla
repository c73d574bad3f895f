---------------------------- MODULE SlotLifecycle ----------------------------
(***************************************************************************)
(* What one slot of the pool promises to the code that uses it, without    *)
(* the supervision loop that keeps the promise: a slot is claimed for a VM *)
(* name, booted, and vacated again, while a VMM process behind it is       *)
(* spawned, starts to listen on its API socket, exits and is reaped.       *)
(*                                                                         *)
(* Module SlotSupervisor, the loop of src/slot_supervisor.rs, implements   *)
(* this specification; module ProcessPool builds on it.                    *)
(***************************************************************************)
EXTENDS SlotRecord

VARIABLES
  slot,     (* the slot record                                             *)
  worker    (* "running" until the supervision loop breaks, then "ended"   *)

slotVars == <<slot, worker>>

TypeOK ==
  /\ slot \in SlotRecords
  /\ worker \in {"running", "ended"}

Init ==
  /\ slot = FreshSlot
  /\ worker = "running"

(* s replaces the slot record while the loop runs. *)
Becomes(s) ==
  /\ worker = "running"
  /\ slot' = s
  /\ UNCHANGED worker

Claim == slot.state = "Empty" /\ \E n \in Names : Becomes(Claimed(slot, n))

Boot == slot.state = "Booting" /\ Becomes(Booted(slot))

Release == slot.state = "Occupied" /\ Becomes(FreshSlot)

Reset == Becomes(FreshSlot)

Spawn == slot.proc = "none" /\ slot.state # "Failed" /\ Becomes(Spawned(slot))

SpawnFails == slot.proc = "none" /\ slot.state # "Failed" /\ Becomes(Broken(slot))

Reap == slot.proc = "exited" /\ Becomes(Reaped(slot))

ReapFails == slot.proc # "none" /\ Becomes(Broken(slot))

Listen ==
  slot.proc = "starting" /\ Becomes([slot EXCEPT !.proc = "serving"])

Exit == Alive(slot) /\ Becomes([slot EXCEPT !.proc = "exited"])

Stop ==
  /\ worker = "running"
  /\ worker' = "ended"
  /\ slot' = Stopped(slot)

Next ==
  \/ Claim \/ Boot \/ Release \/ Reset
  \/ Spawn \/ SpawnFails \/ Reap \/ ReapFails
  \/ Listen \/ Exit \/ Stop

Spec == Init /\ [][Next]_slotVars
=============================================================================
