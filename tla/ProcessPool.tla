----------------------------- MODULE ProcessPool -----------------------------
(***************************************************************************)
(* The pool of VM slots of src/pool.rs behind the lock it is shared by:    *)
(* allocation (allocate_vm_slot), scaling (extend, autoscale_tick) and     *)
(* shutdown, interleaved with the slots' workers.                          *)
(*                                                                         *)
(* The callers are the most general ones the lock admits: a request        *)
(* allocates under the write lock, or marks, releases and resets slots     *)
(* under the read lock, and may be dropped at any await.  Module VmService *)
(* puts the handlers of src/service.rs in their place.                     *)
(*                                                                         *)
(* A slot moves as SlotLifecycle says, one command or event a step; that   *)
(* the workers implement this is shown for SlotSupervisor.  Slot i of the  *)
(* model is slot i - 1 of the code.  The cooldown between scale-downs may  *)
(* be over or not at any tick.                                             *)
(***************************************************************************)
EXTENDS SlotRecord, RwLock, FiniteSets

CONSTANTS
  Requests,      (* HTTP requests                                          *)
  Autoscaler,    (* the task of main.rs that calls autoscale_tick          *)
  Main,          (* the main task, which shuts the pool down               *)
  MinSize, MaxSize,
  Faults         (* what may go wrong: see FaultKinds                      *)

FaultKinds == {"spawn", "poll", "tap", "exit"}

Procs == Requests \cup {Autoscaler, Main}

(* parse_pool_size and ProcessPool::spawn *)
ASSUME SizeAssumption ==
  /\ MinSize \in Nat \ {0} /\ MaxSize \in Nat /\ MaxSize >= MinSize
ASSUME ProcAssumption ==
  /\ Autoscaler # Main /\ {Autoscaler, Main} \cap Requests = {}
  /\ NoProc \notin Procs
ASSUME FaultAssumption == Faults \subseteq FaultKinds

VARIABLES
  slots,      (* the slots of the Vec, then the one popped and being joined *)
  ended,      (* slots whose worker has ended                              *)
  joiner,     (* who awaits the worker of the last slot of slots           *)
  shutdown,   (* "sent" once shutdown has been broadcast to the workers    *)
  lock,       (* the RwLock of SharedPool                                  *)
  alloc,      (* the call of allocate_vm_slot of each request              *)
  scaler,     (* the autoscaler: "sleep", "wait", "pop" or "join"          *)
  daemon      (* main: "serve", "drain", "wait", "stop" or "exit"          *)

slotVars == <<slots, ended, joiner, shutdown>>
taskVars == <<scaler, daemon>>
poolVars == <<slots, ended, joiner, shutdown, lock, alloc, scaler, daemon>>

(* self.slots.len(): a popped slot does not count. *)
Size == Len(slots) - (IF joiner = NoProc THEN 0 ELSE 1)

NoAlloc == [phase |-> "idle", name |-> NoName, at |-> 0, hit |-> 0]

(* Phases of allocate_vm_slot; "won" and "lost" are how it returned. *)
Phases == {"idle", "queued", "name", "empty", "reserve", "won", "lost"}

Allocs ==
  [phase : Phases, name : Names \cup {NoName}, at : 0..MaxSize, hit : 0..MaxSize]

PoolTypeOK ==
  /\ slots \in Seq(SlotRecords) /\ Len(slots) <= MaxSize
  /\ ended \subseteq DOMAIN slots
  /\ joiner \in {Autoscaler, Main, NoProc}
  /\ joiner # NoProc => slots # <<>>
  /\ shutdown \in {"no", "sent"}
  /\ lock \in Locks(Procs)
  /\ alloc \in [Requests -> Allocs]
  /\ scaler \in {"sleep", "wait", "pop", "join"}
  /\ daemon \in {"serve", "drain", "wait", "stop", "exit"}

(* ProcessPool::spawn *)
PoolInit ==
  /\ slots = [i \in 1..MinSize |-> FreshSlot]
  /\ ended = {}
  /\ joiner = NoProc
  /\ shutdown = "no"
  /\ lock = LockFree
  /\ alloc = [p \in Requests |-> NoAlloc]
  /\ scaler = "sleep"
  /\ daemon = "serve"

-----------------------------------------------------------------------------
(* allocate_vm_slot, under the write lock. *)

Engaged(p) == Waits(lock, p) \/ Holds(lock, p)

Serving == daemon \in {"serve", "drain"}

AllocRequest(p, n) ==
  /\ Serving /\ ~Engaged(p)
  /\ lock' = Asked(lock, p, "write")
  /\ alloc' = [alloc EXCEPT ![p] =
                 [phase |-> "queued", name |-> n, at |-> 0, hit |-> 0]]
  /\ UNCHANGED <<slotVars, taskVars>>

(* allocate_vm_slot goes on; the guard is kept. *)
AllocGoes(p, phase, at, hit) ==
  /\ alloc' = [alloc EXCEPT ![p].phase = phase, ![p].at = at, ![p].hit = hit]
  /\ UNCHANGED taskVars

(* allocate_vm_slot returns; the guard is dropped. *)
AllocReturns(p, phase, at) ==
  /\ alloc' = [alloc EXCEPT ![p] =
                 [phase |-> phase, name |-> NoName, at |-> at, hit |-> 0]]
  /\ lock' = Left(lock, p)
  /\ UNCHANGED taskVars

AllocStart(p) ==
  /\ alloc[p].phase = "queued" /\ MayEnter(lock, p, "write")
  /\ lock' = Entered(lock, p, "write")
  /\ AllocGoes(p, "name", 1, 0)
  /\ UNCHANGED slotVars

(* Slip: only running VMs are looked at. *)
NameSeenRunning(p) ==
  \/ alloc[p].hit # 0
  \/ /\ slots[alloc[p].at].name = alloc[p].name
     /\ slots[alloc[p].at].state = "Occupied"

(* find_vm_slot_status_by_name: the status of every slot is asked in turn. *)
NameSeen(p) ==
  alloc[p].hit # 0 \/ slots[alloc[p].at].name = alloc[p].name

AllocNameNext(p) ==
  /\ alloc[p].phase = "name" /\ alloc[p].at < Size
  /\ AllocGoes(p, "name", alloc[p].at + 1, IF NameSeen(p) THEN 1 ELSE 0)
  /\ UNCHANGED <<slotVars, lock>>

(* VmAlreadyRunning *)
AllocNameTaken(p) ==
  /\ alloc[p].phase = "name" /\ alloc[p].at = Size /\ NameSeen(p)
  /\ AllocReturns(p, "lost", 0)
  /\ UNCHANGED slotVars

(* Slip: the name is checked under a guard of its own. *)
AllocNameFreeAlone(p) ==
  /\ alloc[p].phase = "name" /\ alloc[p].at = Size /\ ~NameSeen(p)
  /\ AllocGoes(p, "empty", 1, 0)
  /\ lock' = Left(lock, p)
  /\ UNCHANGED slotVars

AllocNameFree(p) ==
  /\ alloc[p].phase = "name" /\ alloc[p].at = Size /\ ~NameSeen(p)
  /\ AllocGoes(p, "empty", 1, 0)
  /\ UNCHANGED <<slotVars, lock>>

(* The first Empty slot so far, or 0. *)
FirstEmpty(p) ==
  IF alloc[p].hit = 0 /\ slots[alloc[p].at].state = "Empty"
  THEN alloc[p].at ELSE alloc[p].hit

AllocEmptyNext(p) ==
  /\ alloc[p].phase = "empty" /\ alloc[p].at < Size
  /\ AllocGoes(p, "empty", alloc[p].at + 1, FirstEmpty(p))
  /\ UNCHANGED <<slotVars, lock>>

AllocEmptyFound(p) ==
  /\ alloc[p].phase = "empty" /\ alloc[p].at = Size /\ FirstEmpty(p) # 0
  /\ AllocGoes(p, "reserve", FirstEmpty(p), 0)
  /\ UNCHANGED <<slotVars, lock>>

(* Slip: a full pool is waited for, with the guard held. *)
AllocSpins(p) ==
  /\ alloc[p].phase = "empty" /\ alloc[p].at = Size /\ FirstEmpty(p) = 0
  /\ Size >= MaxSize
  /\ AllocGoes(p, "empty", 1, 0)
  /\ UNCHANGED <<slotVars, lock>>

(* NoAvailableSlot *)
AllocExhausted(p) ==
  /\ alloc[p].phase = "empty" /\ alloc[p].at = Size /\ FirstEmpty(p) = 0
  /\ Size >= MaxSize
  /\ AllocReturns(p, "lost", 0)
  /\ UNCHANGED slotVars

(* Slip: > for >= at the maximum. *)
AllocExtendPast(p) ==
  /\ alloc[p].phase = "empty" /\ alloc[p].at = Size /\ FirstEmpty(p) = 0
  /\ Size <= MaxSize
  /\ slots' = Append(slots, FreshSlot)
  /\ AllocGoes(p, "empty", 1, 0)
  /\ UNCHANGED <<ended, joiner, shutdown, lock>>

(* extend(1), and the loop looks at every slot again. *)
AllocExtend(p) ==
  /\ alloc[p].phase = "empty" /\ alloc[p].at = Size /\ FirstEmpty(p) = 0
  /\ Size < MaxSize
  /\ slots' = Append(slots, FreshSlot)
  /\ AllocGoes(p, "empty", 1, 0)
  /\ UNCHANGED <<ended, joiner, shutdown, lock>>

(* reserve_vm_slot: the slot may have changed since its status was read. *)
AllocReserve(p) ==
  LET i == alloc[p].at IN
  /\ alloc[p].phase = "reserve" /\ slots[i].state = "Empty"
  /\ slots' = [slots EXCEPT ![i] = Claimed(@, alloc[p].name)]
  /\ AllocReturns(p, "won", i)
  /\ UNCHANGED <<ended, joiner, shutdown>>

(* InvalidTransition, or the tap device did not come up. *)
AllocRefused(p) ==
  /\ alloc[p].phase = "reserve"
  /\ slots[alloc[p].at].state # "Empty" \/ "tap" \in Faults
  /\ AllocReturns(p, "lost", 0)
  /\ UNCHANGED slotVars

AllocStep(p) ==
  \/ AllocStart(p)
  \/ AllocNameNext(p) \/ AllocNameTaken(p) \/ AllocNameFree(p)
  \/ AllocEmptyNext(p) \/ AllocEmptyFound(p)
  \/ AllocExhausted(p) \/ AllocExtend(p)
  \/ AllocReserve(p) \/ AllocRefused(p)

-----------------------------------------------------------------------------
(* The other operations, under the read lock. *)

ReadRequest(p) ==
  /\ Serving /\ ~Engaged(p)
  /\ lock' = Asked(lock, p, "read")
  /\ UNCHANGED <<slotVars, alloc, taskVars>>

ReadEnter(p) ==
  /\ MayEnter(lock, p, "read")
  /\ lock' = Entered(lock, p, "read")
  /\ UNCHANGED <<slotVars, alloc, taskVars>>

ReadLeave(p) ==
  /\ p \in lock.readers
  /\ lock' = Left(lock, p)
  /\ UNCHANGED <<slotVars, alloc, taskVars>>

(* Slot i, which must exist, becomes s. *)
SlotMoves(i, s) ==
  /\ slots' = [slots EXCEPT ![i] = s]
  /\ UNCHANGED <<ended, joiner, shutdown>>

SlotCommand(p, i, s) ==
  /\ p \in lock.readers /\ i \in 1..Size
  /\ SlotMoves(i, s)
  /\ UNCHANGED <<lock, alloc, taskVars>>

(* mark_vm_slot_booted; in any other state it is refused. *)
MarkBooted(p, i) ==
  slots[i].state = "Booting" /\ SlotCommand(p, i, Booted(slots[i]))

(* release_vm_slot; in any other state it is refused. *)
ReleaseSlot(p, i) ==
  slots[i].state = "Occupied" /\ SlotCommand(p, i, FreshSlot)

(* Slip: the slot is cleared and its VMM left running. *)
ResetKeepsVmm(p, i) ==
  SlotCommand(p, i, [FreshSlot EXCEPT !.proc = slots[i].proc])

(* reset_vm_slot *)
ResetSlot(p, i) == SlotCommand(p, i, FreshSlot)

(* The HTTP client goes away and the handler's future is dropped. *)
RequestDropped(p) ==
  /\ Engaged(p)
  /\ lock' = Forgotten(lock, p)
  /\ alloc' = [alloc EXCEPT ![p] = NoAlloc]
  /\ UNCHANGED <<slotVars, taskVars>>

-----------------------------------------------------------------------------
(* autoscale_tick, every interval.                                         *)

ScalerTick ==
  /\ scaler = "sleep" /\ daemon # "exit"
  /\ scaler' = "wait"
  /\ lock' = Asked(lock, Autoscaler, "write")
  /\ UNCHANGED <<slotVars, alloc, daemon>>

(* The pool is at its minimum, cools down, or its last slot is in use. *)
ScalerKeeps ==
  /\ scaler = "wait" /\ MayEnter(lock, Autoscaler, "write")
  /\ scaler' = "sleep"
  /\ lock' = [lock EXCEPT !.queue = Tail(@)]
  /\ UNCHANGED <<slotVars, alloc, daemon>>

(* Slip: the last slot is looked at under a guard of its own. *)
ShrinksUnguarded ==
  /\ scaler = "wait" /\ MayEnter(lock, Autoscaler, "write")
  /\ Size > MinSize /\ slots[Size].state = "Empty"
  /\ scaler' = "pop"
  /\ lock' = [lock EXCEPT !.queue = Tail(@)]
  /\ UNCHANGED <<slotVars, alloc, daemon>>

(* Slip: the last slot goes whatever it holds. *)
ShrinksInUse ==
  /\ scaler = "wait" /\ MayEnter(lock, Autoscaler, "write")
  /\ Size > MinSize
  /\ scaler' = "pop"
  /\ lock' = Entered(lock, Autoscaler, "write")
  /\ UNCHANGED <<slotVars, alloc, daemon>>

(* The status of the last slot is Empty: it will be popped. *)
ScalerShrinks ==
  /\ scaler = "wait" /\ MayEnter(lock, Autoscaler, "write")
  /\ Size > MinSize /\ slots[Size].state = "Empty"
  /\ scaler' = "pop"
  /\ lock' = Entered(lock, Autoscaler, "write")
  /\ UNCHANGED <<slotVars, alloc, daemon>>

ScalerPop ==
  /\ scaler = "pop"
  /\ scaler' = "join"
  /\ joiner' = Autoscaler
  /\ UNCHANGED <<slots, ended, shutdown, lock, alloc, daemon>>

-----------------------------------------------------------------------------
(* The end of main: the server drains, then the pool is shut down.         *)

ShutdownSignal ==
  /\ daemon = "serve" /\ daemon' = "drain"
  /\ UNCHANGED <<slotVars, lock, alloc, scaler>>

Drained ==
  /\ daemon = "drain" /\ daemon' = "wait"
  /\ \A p \in Requests : ~Engaged(p)
  /\ lock' = Asked(lock, Main, "write")
  /\ UNCHANGED <<slotVars, alloc, scaler>>

(* Slip: the workers are awaited and not told. *)
ShutdownUntold ==
  /\ daemon = "wait" /\ MayEnter(lock, Main, "write")
  /\ daemon' = "stop"
  /\ lock' = Entered(lock, Main, "write")
  /\ UNCHANGED <<slotVars, alloc, scaler>>

(* ProcessPool::shutdown *)
ShutdownStart ==
  /\ daemon = "wait" /\ MayEnter(lock, Main, "write")
  /\ daemon' = "stop"
  /\ lock' = Entered(lock, Main, "write")
  /\ shutdown' = "sent"
  /\ UNCHANGED <<slots, ended, joiner, alloc, scaler>>

ShutdownPop ==
  /\ daemon = "stop" /\ joiner = NoProc /\ slots # <<>>
  /\ joiner' = Main
  /\ UNCHANGED <<slots, ended, shutdown, lock, alloc, taskVars>>

ShutdownDone ==
  /\ daemon = "stop" /\ joiner = NoProc /\ slots = <<>>
  /\ daemon' = "exit"
  /\ lock' = Left(lock, Main)
  /\ UNCHANGED <<slotVars, alloc, scaler>>

(* Slip: the popped slot stays on the books. *)
JoinForgets(p) ==
  /\ joiner = p /\ Len(slots) \in ended
  /\ slots' = SubSeq(slots, 1, Len(slots) - 1)
  /\ joiner' = NoProc
  /\ IF p = Autoscaler
     THEN scaler' = "sleep" /\ lock' = Left(lock, Autoscaler)
     ELSE UNCHANGED <<scaler, lock>>
  /\ UNCHANGED <<ended, shutdown, alloc, daemon>>

(* slot.worker.await returns once the worker of the popped slot has ended, *)
(* and slot.tx is dropped only then.                                       *)
Join(p) ==
  /\ joiner = p /\ Len(slots) \in ended
  /\ slots' = SubSeq(slots, 1, Len(slots) - 1)
  /\ ended' = ended \ {Len(slots)}
  /\ joiner' = NoProc
  /\ IF p = Autoscaler
     THEN scaler' = "sleep" /\ lock' = Left(lock, Autoscaler)
     ELSE UNCHANGED <<scaler, lock>>
  /\ UNCHANGED <<shutdown, alloc, daemon>>

-----------------------------------------------------------------------------
(* The workers, popped or not, and their VMMs.                             *)

WorkerMoves(i, s) ==
  /\ i \in DOMAIN slots \ ended
  /\ SlotMoves(i, s)
  /\ UNCHANGED <<lock, alloc, taskVars>>

ChildMissing(i) == slots[i].proc = "none" /\ slots[i].state # "Failed"

Spawn(i) == ChildMissing(i) /\ WorkerMoves(i, Spawned(slots[i]))

SpawnFails(i) ==
  "spawn" \in Faults /\ ChildMissing(i) /\ WorkerMoves(i, Broken(slots[i]))

Reap(i) == slots[i].proc = "exited" /\ WorkerMoves(i, Reaped(slots[i]))

PollFails(i) ==
  /\ "poll" \in Faults /\ slots[i].proc # "none"
  /\ WorkerMoves(i, Broken(slots[i]))

Listen(i) ==
  /\ slots[i].proc = "starting"
  /\ WorkerMoves(i, [slots[i] EXCEPT !.proc = "serving"])

Exit(i) ==
  /\ "exit" \in Faults /\ Alive(slots[i])
  /\ WorkerMoves(i, [slots[i] EXCEPT !.proc = "exited"])

(* Nothing but the broadcast ends a worker: every slot, also a popped one  *)
(* whose worker is awaited, still has its sender.                          *)
WorkerEnds(i) ==
  /\ i \in DOMAIN slots \ ended
  /\ shutdown = "sent"
  /\ slots' = [slots EXCEPT ![i] = Stopped(@)]
  /\ ended' = ended \cup {i}
  /\ UNCHANGED <<joiner, shutdown, lock, alloc, taskVars>>

-----------------------------------------------------------------------------

PoolCall(p) ==
  \/ \E i \in 1..Size : MarkBooted(p, i) \/ ReleaseSlot(p, i) \/ ResetSlot(p, i)
  \/ RequestDropped(p)

Caller(p) ==
  \/ \E n \in Names : AllocRequest(p, n)
  \/ AllocStep(p)
  \/ ReadRequest(p) \/ ReadEnter(p) \/ ReadLeave(p)
  \/ PoolCall(p)

Scaling == ScalerTick \/ ScalerKeeps \/ ScalerShrinks \/ ScalerPop

Stopping ==
  ShutdownSignal \/ Drained \/ ShutdownStart \/ ShutdownPop \/ ShutdownDone

Joining == \E p \in {Autoscaler, Main} : Join(p)

SlotEvent(i) ==
  \/ Spawn(i) \/ SpawnFails(i) \/ Reap(i) \/ PollFails(i)
  \/ Listen(i) \/ Exit(i) \/ WorkerEnds(i)

PoolNext ==
  \/ \E p \in Requests : Caller(p)
  \/ Scaling \/ Stopping \/ Joining
  \/ \E i \in DOMAIN slots : SlotEvent(i)

PoolSpec == PoolInit /\ [][PoolNext]_poolVars

(* The runtime polls every task that can go on. Nothing is assumed of the  *)
(* VMMs, of when a request comes or goes, nor of when shutdown is asked.   *)
PoolFairness ==
  /\ \A p \in Requests :
       WF_poolVars(AllocStep(p)) /\ WF_poolVars(ReadEnter(p))
         /\ WF_poolVars(ReadLeave(p))
  /\ WF_poolVars(Scaling)
  /\ WF_poolVars(Drained \/ ShutdownStart \/ ShutdownPop \/ ShutdownDone)
  /\ WF_poolVars(Joining)
  /\ \A i \in 1..MaxSize : WF_poolVars(WorkerEnds(i))

FairPoolSpec == PoolSpec /\ PoolFairness

-----------------------------------------------------------------------------
(* Safety. *)

(* The phases in which the name of a request is known to be free.          *)
NameChecked(p) == alloc[p].phase \in {"empty", "reserve"}

(* No two slots hold VMs of the same name, booted or not: the check of the *)
(* name and the reservation are many steps apart, and requests, exits and  *)
(* failures of other slots lie between them.                               *)
NamesUnique ==
  \A i, j \in DOMAIN slots :
    slots[i].name # NoName /\ slots[i].name = slots[j].name => i = j

(* A name that allocate_vm_slot found free is still free when it reserves. *)
NameStaysFree ==
  \A p \in Requests : NameChecked(p) =>
    \A i \in DOMAIN slots : slots[i].name # alloc[p].name

(* Until shutdown the pool keeps between its minimum and its maximum of    *)
(* slots, also while a slot is being removed.                              *)
PoolBounded ==
  /\ Len(slots) <= MaxSize
  /\ shutdown = "no" => Size >= MinSize

(* Slots come and go under the write lock alone: no reader ever sees the   *)
(* index it holds disappear, and nobody is inside when the pool is stopped *)
ResizedAlone ==
  [][Len(slots') # Len(slots) \/ joiner' # joiner
       => lock.readers = {} /\ lock.writer # NoProc]_poolVars

(* A VM in a slot of the pool loses it to a command of a reader, to the    *)
(* exit of its VMM or to shutdown; an allocation never takes a slot that   *)
(* holds a VM, and the autoscaler never removes one.                       *)
TenantsKept ==
  [][\A i \in 1..Size :
       Tenanted(slots[i]) /\ (i > Size' \/ slots'[i].name # slots[i].name)
       => \/ lock.readers # {}
          \/ slots[i].proc = "exited"
          \/ shutdown = "sent"]_poolVars

-----------------------------------------------------------------------------
(* Liveness. *)

(* Once the server has drained, the pool is emptied and main returns.      *)
ShutdownCompletes == daemon = "wait" ~> daemon = "exit"

(* main.rs:57 speaks of scale-down operations with a cooldown between      *)
(* them: one that began would have to end.                                 *)
ScaleDownCompletes == joiner = Autoscaler ~> joiner # Autoscaler
=============================================================================
