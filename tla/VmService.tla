------------------------------ MODULE VmService ------------------------------
(***************************************************************************)
(* The handlers of src/service.rs on top of ProcessPool: create, delete    *)
(* and proxied requests as the sequences of awaits they are, each with the *)
(* guard of the pool it holds, and the guests their requests to the VMMs   *)
(* create and remove.                                                      *)
(*                                                                         *)
(* A request to a VMM goes to the socket of a slot index, so it reaches    *)
(* whatever VMM listens there.  The VMM carries it out and answers in one  *)
(* step; the handler goes on in another, and may be dropped or see its     *)
(* slot change between the two.                                            *)
(***************************************************************************)
EXTENDS ProcessPool

CONSTANTS
  Creators, Deleters, Proxiers,  (* the requests that call each handler    *)
  MaxTries,    (* polls of wait_for_slot_ready that fit its 5 s deadline   *)
  Refusals     (* whether a VMM may refuse what it could have done         *)

ASSUME ServiceAssumption ==
  /\ Requests = Creators \cup Deleters \cup Proxiers
  /\ MaxTries \in Nat /\ Refusals \in BOOLEAN

VARIABLES
  call,       (* the handler of each request                               *)
  guest       (* the guest in the VMM that listens at each slot index      *)

serviceVars == <<slots, ended, joiner, shutdown, lock, alloc, scaler, daemon,
                 call, guest>>

(***************************************************************************)
(* Where a handler is.  "ready", "look" and "connect" are the loop of      *)
(* wait_for_slot_ready, "reset" is cleanup_reserved_vm after its read      *)
(* guard was asked for; "leave" drops the guard and goes on at then, where *)
(* "ok" and "failed" end the handler.                                      *)
(***************************************************************************)
Places ==
  {"idle", "alloc", "ready", "look", "connect", "create", "boot", "mark",
   "find", "shutdown", "delete", "release", "proxy", "cleanup", "reset",
   "leave"}

NoCall ==
  [pc |-> "idle", then |-> "idle", name |-> NoName, slot |-> 0,
   pid |-> FALSE, left |-> 0]

Calls ==
  [pc : Places, then : {"idle", "create", "mark", "shutdown", "proxy",
                        "ready", "cleanup", "ok", "failed"},
   name : Names \cup {NoName}, slot : 0..MaxSize,
   pid : BOOLEAN, left : 0..MaxTries]

NoGuest == [name |-> NoName, on |-> FALSE]

VmTypeOK ==
  /\ call \in [Requests -> Calls]
  /\ guest \in [1..MaxSize -> [name : Names \cup {NoName}, on : BOOLEAN]]
  /\ \A i \in 1..MaxSize : guest[i] # NoGuest =>
       i \in DOMAIN slots /\ slots[i].proc = "serving"

VmInit ==
  /\ PoolInit
  /\ call = [p \in Requests |-> NoCall]
  /\ guest = [i \in 1..MaxSize |-> NoGuest]

-----------------------------------------------------------------------------
(* How handlers move. *)

(* A guest is gone with its VMM. *)
GuestsFollow ==
  guest' = [i \in 1..MaxSize |->
    IF i \in DOMAIN slots' /\ Alive(slots'[i]) THEN guest[i] ELSE NoGuest]

At(p, pc) == call[p].pc = pc

(* At an await of a read guard: asked for and not granted, or granted.     *)
Inside(p, pc) == At(p, pc) /\ p \in lock.readers

GoesTo(p, pc) == call' = [call EXCEPT ![p].pc = pc]

(* The guard is about to be dropped and the handler to go on at then. *)
LeavesFor(p, then) ==
  call' = [call EXCEPT ![p].pc = "leave", ![p].then = then]

(* The handler returns, and drops the guard it holds on its way out.       *)
Ends(p, how) ==
  call' = [call EXCEPT ![p] = [NoCall EXCEPT !.pc = "leave", !.then = how]]

(* It returns without a guard. *)
Fails(p) == call' = [call EXCEPT ![p] = NoCall]

(* c calls wait_for_slot_ready and goes on at then. *)
Waiting(c, then) ==
  [c EXCEPT !.pc = "ready", !.then = then, !.left = MaxTries]

(* pool.read().await *)
AsksRead(p) ==
  /\ lock' = Asked(lock, p, "read")
  /\ UNCHANGED <<slotVars, alloc, taskVars, guest>>

Stays == UNCHANGED <<poolVars, guest>>

(* The name of the request is the name of the VM it speaks of. *)
Begins(p, pc, n) ==
  call' = [call EXCEPT ![p] = [NoCall EXCEPT !.pc = pc, !.name = n]]

(* A guard that was asked for is granted. *)
Granted(p) ==
  /\ ReadEnter(p)
  /\ UNCHANGED <<call, guest>>

Leave(p) ==
  /\ At(p, "leave") /\ ReadLeave(p)
  /\ call' = [call EXCEPT ![p] =
       CASE @.then = "cleanup" -> [@ EXCEPT !.pc = "cleanup"]
         [] @.then = "ready"   -> Waiting(@, "mark")
         [] OTHER              -> NoCall]
  /\ UNCHANGED guest

(* The client goes away: the handler is dropped at its await.              *)
Dropped(p) ==
  /\ ~At(p, "idle")
  /\ call' = [call EXCEPT ![p] = NoCall]
  /\ \/ RequestDropped(p)
     \/ ~Engaged(p) /\ UNCHANGED poolVars
  /\ UNCHANGED guest

-----------------------------------------------------------------------------
(* Requests to the VMM at the socket of a slot. *)

Vmm(p) == call[p].slot
Reached(p) == Vmm(p) \in DOMAIN slots /\ slots[Vmm(p)].proc = "serving"

(* An I/O error, `?`. *)
Unreached(p) == ~Reached(p) /\ Ends(p, "failed") /\ Stays

(* Slip: the guard is still held when cleanup_reserved_vm asks for its own. *)
RefusedInside(p, able) ==
  Reached(p) /\ (Refusals \/ ~able) /\ GoesTo(p, "cleanup") /\ Stays

(* A status of 400 or more; able: the VMM could have done it. *)
Refused(p, able) ==
  /\ Reached(p) /\ (Refusals \/ ~able)
  /\ LeavesFor(p, "cleanup")
  /\ Stays

(* The VMM does it: its guest becomes g, the handler goes on at pc. *)
Done(p, g, pc) ==
  /\ Reached(p)
  /\ guest' = [guest EXCEPT ![Vmm(p)] = g]
  /\ GoesTo(p, pc)
  /\ UNCHANGED poolVars

-----------------------------------------------------------------------------
(* create_vm_with_pool *)

CreateBegins(p, n) ==
  /\ p \in Creators /\ At(p, "idle") /\ daemon = "serve"
  /\ AllocRequest(p, n)
  /\ Begins(p, "alloc", n)
  /\ UNCHANGED guest

Allocates(p) ==
  /\ At(p, "alloc") /\ AllocStep(p)
  /\ call' = [call EXCEPT ![p] =
       CASE alloc'[p].phase = "won"  ->
              [Waiting(@, "create") EXCEPT !.slot = alloc'[p].at]
         [] alloc'[p].phase = "lost" -> NoCall
         [] OTHER                    -> @]
  /\ GuestsFollow

(* wait_for_slot_ready: the status is read under a guard of its own... *)
AsksStatus(p) ==
  At(p, "ready") /\ GoesTo(p, "look") /\ AsksRead(p)

LooksAtStatus(p) ==
  /\ Inside(p, "look") /\ ReadLeave(p)
  /\ IF Vmm(p) \in 1..Size
     THEN call' = [call EXCEPT ![p].pc = "connect",
                               ![p].pid = slots[Vmm(p)].proc # "none"]
     ELSE Fails(p)
  /\ UNCHANGED guest

(* ... and the socket is tried without one; what follows asks for a guard. *)
Connects(p) ==
  /\ At(p, "connect") /\ call[p].pid /\ Reached(p)
  /\ call' = [call EXCEPT ![p].pc = call[p].then, ![p].pid = FALSE,
                           ![p].left = 0]
  /\ AsksRead(p)

(* Not ready yet, before or after the deadline. *)
NotReady(p) == At(p, "connect") /\ ~(call[p].pid /\ Reached(p)) /\ Stays

(* Slip: there is no deadline. *)
TriesForever(p) ==
  /\ NotReady(p)
  /\ call' = [call EXCEPT ![p].pc = "ready", ![p].pid = FALSE, ![p].left = @ - 1]

TriesAgain(p) ==
  /\ NotReady(p) /\ call[p].left > 0
  /\ call' = [call EXCEPT ![p].pc = "ready", ![p].pid = FALSE, ![p].left = @ - 1]

TimesOut(p) == NotReady(p) /\ Fails(p)

(* vm.create, or vm.restore, which boots the guest from its snapshot. *)
CreateGuest(p) ==
  /\ Inside(p, "create")
  /\ \/ Unreached(p)
     \/ Refused(p, guest[Vmm(p)] = NoGuest)
     \/ /\ guest[Vmm(p)] = NoGuest
        /\ Done(p, [name |-> call[p].name, on |-> FALSE], "boot")

RestoreGuest(p) ==
  /\ Inside(p, "create") /\ Reached(p) /\ guest[Vmm(p)] = NoGuest
  /\ guest' = [guest EXCEPT ![Vmm(p)] = [name |-> call[p].name, on |-> TRUE]]
  /\ LeavesFor(p, "ready")
  /\ UNCHANGED poolVars

(* Slip: the status of the boot response is not looked at. *)
BootUnchecked(p) ==
  /\ Inside(p, "boot")
  /\ \/ Unreached(p)
     \/ Reached(p) /\ Refusals /\ LeavesFor(p, "ready") /\ Stays
     \/ /\ guest[Vmm(p)].name # NoName /\ ~guest[Vmm(p)].on
        /\ guest' = [guest EXCEPT ![Vmm(p)].on = TRUE]
        /\ Reached(p) /\ LeavesFor(p, "ready")
        /\ UNCHANGED poolVars

(* vm.boot *)
BootGuest(p) ==
  /\ Inside(p, "boot")
  /\ \/ Unreached(p)
     \/ Refused(p, guest[Vmm(p)].name # NoName /\ ~guest[Vmm(p)].on)
     \/ /\ guest[Vmm(p)].name # NoName /\ ~guest[Vmm(p)].on
        /\ guest' = [guest EXCEPT ![Vmm(p)].on = TRUE]
        /\ Reached(p) /\ LeavesFor(p, "ready")
        /\ UNCHANGED poolVars

(* mark_vm_slot_booted, and VmRuntime of what it answers: it needs a pid.  *)
Marks(p) ==
  /\ Inside(p, "mark") /\ Vmm(p) \in 1..Size
  /\ MarkBooted(p, Vmm(p))
  /\ Ends(p, IF slots[Vmm(p)].proc # "none" THEN "ok" ELSE "failed")
  /\ UNCHANGED guest

MarkRefused(p) ==
  /\ Inside(p, "mark")
  /\ Vmm(p) \notin 1..Size \/ slots[Vmm(p)].state # "Booting"
  /\ Ends(p, "failed")
  /\ Stays

CreateStep(p) ==
  \/ Allocates(p)
  \/ AsksStatus(p) \/ LooksAtStatus(p)
  \/ Connects(p) \/ TriesAgain(p) \/ TimesOut(p)
  \/ CreateGuest(p) \/ RestoreGuest(p) \/ BootGuest(p)
  \/ Marks(p) \/ MarkRefused(p)

-----------------------------------------------------------------------------
(* delete_vm_with_pool and the proxied requests, under one read guard. The *)
(* lookup of the name, slot by slot in the code, is one step: while the    *)
(* guard is held names only go away, so that a name seen was seen in the   *)
(* one slot that had it and a name not seen is nowhere at the end.         *)

LookupBegins(p, n, then) ==
  /\ At(p, "idle") /\ daemon = "serve"
  /\ call' = [call EXCEPT ![p] =
                [NoCall EXCEPT !.pc = "find", !.name = n, !.then = then]]
  /\ AsksRead(p)

DeleteBegins(p, n) == p \in Deleters /\ LookupBegins(p, n, "shutdown")
ProxyBegins(p, n) == p \in Proxiers /\ LookupBegins(p, n, "proxy")

(* NotFound, or Conflict *)
NotRunning(p) ==
  /\ Inside(p, "find")
  /\ \A i \in 1..Size :
       slots[i].name = call[p].name => slots[i].state # "Occupied"
  /\ Ends(p, "failed")
  /\ Stays

(* Slip: the lookup has a guard of its own. *)
FindsAlone(p) ==
  /\ Inside(p, "find")
  /\ \E i \in 1..Size :
       /\ slots[i].name = call[p].name /\ slots[i].state = "Occupied"
       /\ call' = [call EXCEPT ![p].pc = call[p].then, ![p].slot = i]
  /\ ReadLeave(p)
  /\ UNCHANGED guest

Finds(p) ==
  /\ Inside(p, "find")
  /\ \E i \in 1..Size :
       /\ slots[i].name = call[p].name /\ slots[i].state = "Occupied"
       /\ call' = [call EXCEPT ![p].pc = call[p].then, ![p].slot = i]
  /\ Stays

(* vm.shutdown *)
ShutdownGuest(p) ==
  /\ Inside(p, "shutdown")
  /\ \/ Unreached(p)
     \/ Refused(p, guest[Vmm(p)].on)
     \/ /\ guest[Vmm(p)].on
        /\ Done(p, [guest[Vmm(p)] EXCEPT !.on = FALSE], "delete")

(* vm.delete *)
DeleteGuest(p) ==
  /\ Inside(p, "delete")
  /\ \/ Unreached(p)
     \/ Refused(p, guest[Vmm(p)] # NoGuest)
     \/ guest[Vmm(p)] # NoGuest /\ Done(p, NoGuest, "release")

Releases(p) ==
  /\ Inside(p, "release") /\ ReleaseSlot(p, Vmm(p))
  /\ Ends(p, "ok")
  /\ GuestsFollow

ReleaseRefused(p) ==
  /\ Inside(p, "release")
  /\ Vmm(p) \notin 1..Size \/ slots[Vmm(p)].state # "Occupied"
  /\ Ends(p, "failed")
  /\ Stays

(* Whatever the VMM answers is passed on. *)
Proxies(p) ==
  /\ Inside(p, "proxy")
  /\ \/ Unreached(p)
     \/ Reached(p) /\ Ends(p, "ok") /\ Stays

(* cleanup_reserved_vm, after the guard was dropped. *)
AsksCleanup(p) ==
  At(p, "cleanup") /\ GoesTo(p, "reset") /\ AsksRead(p)

CleansUp(p) ==
  /\ Inside(p, "reset")
  /\ \/ Vmm(p) \in 1..Size /\ ResetSlot(p, Vmm(p)) /\ GuestsFollow
     \/ Vmm(p) \notin 1..Size /\ Stays
  /\ Ends(p, "failed")

DeleteStep(p) ==
  \/ NotRunning(p) \/ Finds(p) \/ Proxies(p)
  \/ ShutdownGuest(p) \/ DeleteGuest(p) \/ Releases(p) \/ ReleaseRefused(p)

-----------------------------------------------------------------------------

HandlerStep(p) ==
  \/ CreateStep(p) \/ DeleteStep(p)
  \/ AsksCleanup(p) \/ CleansUp(p)
  \/ Granted(p) \/ Leave(p)

(* Graceful shutdown waits for every handler, also one without a guard. *)
ServerDrained == Drained /\ \A p \in Requests : At(p, "idle")

Daemon ==
  /\ \/ Scaling \/ Joining
     \/ ShutdownSignal \/ ServerDrained
     \/ ShutdownStart \/ ShutdownPop \/ ShutdownDone
     \/ \E i \in DOMAIN slots : SlotEvent(i)
  /\ GuestsFollow
  /\ UNCHANGED call

VmNext ==
  \/ \E p \in Requests :
       \/ \E n \in Names :
            CreateBegins(p, n) \/ DeleteBegins(p, n) \/ ProxyBegins(p, n)
       \/ HandlerStep(p) \/ Dropped(p)
  \/ Daemon

VmSpec == VmInit /\ [][VmNext]_serviceVars

(* Handlers go on when they can: every VMM answers, or closes the socket.  *)
(* The autoscaler ticks and gets its turn at the lock, the end of main its *)
(* own, and a worker that was told to end does.                            *)
InDaemon == GuestsFollow /\ UNCHANGED call

FairVmSpec ==
  /\ VmSpec
  /\ \A p \in Requests : WF_serviceVars(HandlerStep(p))
  /\ WF_serviceVars(Scaling /\ InDaemon)
  /\ WF_serviceVars((ServerDrained \/ ShutdownStart \/ ShutdownPop \/ ShutdownDone)
                      /\ InDaemon)
  /\ WF_serviceVars(Joining /\ InDaemon)
  /\ \A i \in 1..MaxSize : WF_serviceVars(WorkerEnds(i) /\ InDaemon)

-----------------------------------------------------------------------------
(* Properties. *)

(* The handlers use the lock and the pool as ProcessPool allows: none asks *)
(* for a guard while it holds one, which would deadlock behind a writer,   *)
(* and slots are changed under the guards ProcessPool says. What is shown  *)
(* and proved of ProcessPool holds with these handlers.                    *)
ImplementsPool == PoolSpec

(* What a lookup found stays true while the guard is held: the slot holds  *)
(* the VM that was looked up or none, never another one, whoever deletes,  *)
(* creates or exits meanwhile. It speaks of the slot: which guest the VMM  *)
(* in it runs is what GuestsHaveSlots is about.                            *)
LookupHolds ==
  \A p \in Requests :
    call[p].pc \in {"shutdown", "delete", "release", "proxy"} =>
      /\ Vmm(p) \in 1..Size
      /\ slots[Vmm(p)].name \in {call[p].name, NoName}

(* A guest is in a slot that is assigned to the VM of its name, so that it *)
(* can be found and deleted, and is never met by the next tenant of the    *)
(* slot.  pool_facade.rs:94 has the requests proxied to the VM assigned to *)
(* the slot.  It holds as long as no VMM exits by itself and deletes do    *)
(* not overlap.                                                            *)
GuestsHaveSlots ==
  \A i \in 1..MaxSize : guest[i] # NoGuest =>
    i \in DOMAIN slots /\ slots[i].name = guest[i].name

(* A create that answers OK answers for the VM it was asked for, which     *)
(* runs in the slot that is now Occupied; under the same conditions.       *)
CreateOkIsMine ==
  [][\A p \in Requests :
       At(p, "mark") /\ call'[p].then = "ok" =>
         /\ slots'[Vmm(p)].name = call[p].name
         /\ slots'[Vmm(p)].state = "Occupied"
         /\ slots'[Vmm(p)].proc = "serving" =>
              guest'[Vmm(p)] = [name |-> call[p].name, on |-> TRUE]]_serviceVars

(* slot_supervisor.rs:149 returns the slot of a VMM that exited to the     *)
(* reusable pool: an Empty slot would have no guest.                       *)
EmptyIsReusable ==
  \A i \in DOMAIN slots : slots[i].state = "Empty" => guest[i] = NoGuest

(* Every request is answered or dropped.                                   *)
RequestsComplete ==
  \A p \in Requests : ~At(p, "idle") ~> At(p, "idle")

=============================================================================
