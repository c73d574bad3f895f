----------------------------- MODULE SlotRecord -----------------------------
(***************************************************************************)
(* One slot as the rest of the daemon sees it, and the effect of each      *)
(* event on it, as operators on a slot record.  Module SlotLifecycle makes *)
(* the one-slot specification of them, module ProcessPool a pool of slots. *)
(***************************************************************************)
EXTENDS Naturals

CONSTANTS
  Names,    (* VM names                                                    *)
  NoName    (* Option::None of SlotStatus.name                             *)

ASSUME NoNameAssumption == NoName \notin Names

(***************************************************************************)
(* SlotStatus.state, and the child process of the slot: "none" is a worker *)
(* without a child handle; "starting" a live process that does not accept  *)
(* connections yet; "serving" one that listens on the API socket; "exited" *)
(* one that is dead and not reaped yet.  name stands for the name, mac and *)
(* tap fields, which are always set and cleared together.                  *)
(***************************************************************************)
States == {"Empty", "Booting", "Occupied", "Failed"}
ProcStates == {"none", "starting", "serving", "exited"}
SlotRecords ==
  [state : States, name : Names \cup {NoName}, proc : ProcStates]

(* A new slot; release and reset, which kill the child, lead back to it. *)
FreshSlot == [state |-> "Empty", name |-> NoName, proc |-> "none"]

Alive(s) == s.proc \in {"starting", "serving"}

(* A slot that holds a VM, booted or not. *)
Tenanted(s) == s.state \in {"Booting", "Occupied"}

Claimed(s, n) == [state |-> "Booting", name |-> n, proc |-> s.proc]

Booted(s) == [s EXCEPT !.state = "Occupied"]

Spawned(s) == [s EXCEPT !.proc = "starting"]

(* A spawn that failed, or a child that cannot be polled: the name stays. *)
Broken(s) == [state |-> "Failed", name |-> s.name, proc |-> "none"]

(* An exited child is reaped: a tenant goes with its process. *)
Reaped(s) ==
  IF Tenanted(s) THEN FreshSlot ELSE [s EXCEPT !.proc = "none"]

(* The worker ends: its child is killed, the status is left as it was. *)
Stopped(s) == [s EXCEPT !.proc = "none"]
=============================================================================
