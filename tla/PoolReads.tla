------------------------------ MODULE PoolReads ------------------------------
(***************************************************************************)
(* The read-only handlers of src/api.rs on top of ProcessPool: health,     *)
(* list_vms, get_vm and vm_metrics.  Each asks the workers for the status  *)
(* of one slot after the other under a read guard, which keeps writers out *)
(* but neither other readers nor the workers themselves: while a handler   *)
(* reads, slots are marked, released and reset, and VMMs exit.             *)
(***************************************************************************)
EXTENDS ProcessPool, FiniteSetsExt

CONSTANT Readers   (* the requests for read-only handlers                 *)

ASSUME ReaderAssumption == Readers \subseteq Requests

VARIABLE view      (* the read-only handler of each reader                 *)

readVars == <<slots, ended, joiner, shutdown, lock, alloc, scaler, daemon, view>>

Kinds == {"health", "list", "get", "metrics"}

(***************************************************************************)
(* "enter" waits for a guard; "first" and "second" are the lookups, at     *)
(* slot at, with the slots in got found so far; "pid", "ask", "request"    *)
(* and "process" are the rest of vm_metrics, whose pid is that of the VMM  *)
(* of slot from; "done" has the answer, if there is one.                      *)
(* History: was holds what was true while the handler read, gone what      *)
(* became of the VMM of the pid. No step depends on them but that the      *)
(* process of a VMM that is gone cannot be read.                           *)
(***************************************************************************)
NoView ==
  [kind |-> "none", name |-> NoName, phase |-> "done", at |-> 0, got |-> {},
   from |-> 0, was |-> {}, gone |-> "no", answer |-> "none"]

Reading(p) == view[p].phase # "done"

-----------------------------------------------------------------------------
(* What there is to see. *)

(* runtime_from_slot_status: a VM without a pid does not run.              *)
Runs(s) == s.state = "Occupied" /\ s.proc # "none"

(* What a handler that saw all slots at once would answer by; vm_metrics   *)
(* does not answer by slots alone.                                         *)
Truth(v) ==
  LET held == {i \in 1..Size : slots[i].name = v.name} IN
  CASE v.kind = "health" -> {[idle   |-> Quantify(1..Size, LAMBDA i : slots[i].state = "Empty"),
                              failed |-> Quantify(1..Size, LAMBDA i : slots[i].state = "Failed")]}
    [] v.kind = "list"   -> {{i \in 1..Size : Runs(slots[i])}}
    [] v.kind = "get"    -> {IF held = {} THEN "missing"
                             ELSE IF \E i \in held : Runs(slots[i]) THEN "ok"
                             ELSE "conflict"}
    [] v.kind = "metrics" -> {}

(* The VMM of the pid after this step: a child that could not be polled    *)
(* lives on without its slot, every other one that is gone was reaped.     *)
Fate(v) ==
  IF v.from = 0 \/ v.gone # "no" THEN v.gone
  ELSE IF v.from \notin DOMAIN slots' THEN "reaped"
  ELSE IF slots'[v.from].proc # "none" THEN "no"
  ELSE IF slots'[v.from].state = "Failed" THEN "loose" ELSE "reaped"

(* The views when somebody else moves. *)
Watched ==
  [p \in Readers |->
     IF view[p].phase \in {"enter", "done"} THEN view[p]
     ELSE [view[p] EXCEPT !.was = @ \cup Truth(view[p]), !.gone = Fate(view[p])]]

(* The view of p becomes v, having seen what is true now.                  *)
Views(p, v) ==
  /\ view' = [view EXCEPT ![p] = [v EXCEPT !.was = @ \cup Truth(v)]]
  /\ UNCHANGED <<slotVars, alloc, taskVars>>

(* The handler returns; its guard, if it has one, is dropped.              *)
Answered(p, answer) ==
  /\ view' = [view EXCEPT ![p] = [NoView EXCEPT !.kind = view[p].kind, !.answer = answer]]
  /\ lock' = IF Holds(lock, p) THEN Left(lock, p) ELSE lock
  /\ UNCHANGED <<slotVars, alloc, taskVars>>

-----------------------------------------------------------------------------
(* The lookups. *)

(* A handler asks for a read guard. *)
ViewBegins(p, k, n) ==
  /\ Serving /\ ~Reading(p)
  /\ view' = [view EXCEPT ![p] = [NoView EXCEPT !.kind = k, !.name = n, !.phase = "enter"]]
  /\ lock' = Asked(lock, p, "read")
  /\ UNCHANGED <<slotVars, alloc, taskVars>>

(* Slip: the first slot is skipped. *)
ViewEntersLate(p) ==
  /\ view[p].phase = "enter" /\ MayEnter(lock, p, "read")
  /\ Views(p, [view[p] EXCEPT !.phase = "first", !.at = 2])
  /\ lock' = Entered(lock, p, "read")

ViewEnters(p) ==
  /\ view[p].phase = "enter" /\ MayEnter(lock, p, "read")
  /\ Views(p, [view[p] EXCEPT !.phase = "first", !.at = 1])
  /\ lock' = Entered(lock, p, "read")

(* Slip: the second lookup of get_vm is for VMs that boot. *)
CollectsBooting(v, s) ==
  \/ v.kind = "health" /\ s.state = "Empty"
  \/ v.kind = "list" /\ Runs(s)
  \/ v.kind \in {"get", "metrics"} /\ s.name = v.name
       /\ IF v.phase = "first" THEN Runs(s) ELSE s.state = "Booting"

(* Whether a status is one that the lookup is for: find_vm_runtime_by_name *)
(* looks for a VM that runs, find_vm_slot_status_by_name for any.          *)
Collects(v, s) ==
  \/ v.kind = "health" /\ s.state = "Empty"
  \/ v.kind = "list" /\ Runs(s)
  \/ v.kind \in {"get", "metrics"} /\ s.name = v.name
       /\ (v.phase = "first" => Runs(s))

(* list_vm_slots: the status of the next slot is asked for. *)
Looks(p) ==
  LET v == view[p] IN
  /\ v.phase \in {"first", "second"} /\ v.at <= Size
  /\ Views(p, [v EXCEPT !.at = @ + 1,
                        !.got = IF Collects(v, slots[v.at]) THEN @ \cup {v.at} ELSE @,
                        !.from = IF v.kind = "metrics" /\ @ = 0
                                    /\ Collects(v, slots[v.at]) THEN v.at ELSE @])
  /\ UNCHANGED lock

(* A lookup of one of these kinds is through. *)
Looked(p, kinds, phase) ==
  view[p].kind \in kinds /\ view[p].phase = phase /\ view[p].at > Size

(* health and list_vms answer by what they collected. *)
Counts(p) == Looked(p, {"health", "list"}, "first") /\ Answered(p, "ok")

(* get_vm *)
GetsRunning(p) ==
  Looked(p, {"get"}, "first") /\ view[p].got # {} /\ Answered(p, "ok")

LooksAgain(p) ==
  /\ Looked(p, {"get"}, "first") /\ view[p].got = {}
  /\ Views(p, [view[p] EXCEPT !.phase = "second", !.at = 1])
  /\ UNCHANGED lock

GetsOther(p) ==
  /\ Looked(p, {"get"}, "second")
  /\ Answered(p, IF view[p].got # {} THEN "conflict" ELSE "missing")

-----------------------------------------------------------------------------
(* vm_metrics: a pid under one guard, counters under the next, the process *)
(* under none.                                                             *)

PidMissing(p) ==
  Looked(p, {"metrics"}, "first") /\ view[p].got = {} /\ Answered(p, "missing")

PidFound(p) ==
  /\ Looked(p, {"metrics"}, "first") /\ view[p].got # {}
  /\ Views(p, [view[p] EXCEPT !.phase = "pid"])
  /\ lock' = Left(lock, p)

(* Writers may have come to stand in line before it. *)
AsksAgain(p) ==
  /\ view[p].phase = "pid"
  /\ Views(p, [view[p] EXCEPT !.phase = "ask"])
  /\ lock' = Asked(lock, p, "read")

AsksCounters(p) ==
  /\ view[p].phase = "ask" /\ MayEnter(lock, p, "read")
  /\ Views(p, [view[p] EXCEPT !.phase = "request"])
  /\ lock' = Entered(lock, p, "read")

(* proxy_passthrough_by_name: the VM is looked up again, in one step as in *)
(* VmService, and the VMM at its socket answers or cannot be reached.      *)
CountersRead(p) ==
  /\ view[p].phase = "request"
  /\ \E i \in 1..Size :
       /\ slots[i].name = view[p].name /\ slots[i].state = "Occupied"
       /\ slots[i].proc = "serving"
       /\ Views(p, [view[p] EXCEPT !.phase = "process", !.at = i])
  /\ lock' = Left(lock, p)

CountersRefused(p) ==
  LET held == {i \in 1..Size : slots[i].name = view[p].name} IN
  /\ view[p].phase = "request"
  /\ \/ held = {} /\ Answered(p, "missing")
     \/ \E i \in held : slots[i].state # "Occupied" /\ Answered(p, "conflict")
     \/ \E i \in held : slots[i].proc # "serving" /\ Answered(p, "failed")

(* Slip: the process was read before the counters. *)
ProcessReadEarly(p) == view[p].phase = "process" /\ Answered(p, "ok")

(* collect_vm_process_metrics reads /proc of the pid. *)
ProcessRead(p) ==
  view[p].phase = "process" /\ view[p].gone # "reaped" /\ Answered(p, "ok")

(* There is no such process, or the counters do not parse. *)
ProcessFails(p) == view[p].phase = "process" /\ Answered(p, "failed")

-----------------------------------------------------------------------------

ReadInit == PoolInit /\ view = [p \in Readers |-> NoView]

ReadStep(p) ==
  \/ ViewEnters(p) \/ Looks(p) \/ Counts(p)
  \/ GetsRunning(p) \/ LooksAgain(p) \/ GetsOther(p)
  \/ PidMissing(p) \/ PidFound(p) \/ AsksAgain(p) \/ AsksCounters(p)
  \/ CountersRead(p) \/ CountersRefused(p) \/ ProcessRead(p) \/ ProcessFails(p)

(* The client goes away and the handler is dropped at an await, of a guard *)
(* or under one.                                                           *)
ViewDropped(p) ==
  /\ Reading(p) /\ Engaged(p)
  /\ view' = [view EXCEPT ![p] = NoView]
  /\ lock' = Forgotten(lock, p)
  /\ UNCHANGED <<slotVars, alloc, taskVars>>

Others ==
  \/ \E p \in Requests \ Readers : Caller(p)
  \/ Scaling \/ Joining
  \/ ShutdownSignal \/ ShutdownStart \/ ShutdownPop \/ ShutdownDone
  \/ Drained /\ \A p \in Readers : ~Reading(p)
  \/ \E i \in DOMAIN slots : SlotEvent(i)

ReadNext ==
  \/ \E p \in Readers :
       \/ \E k \in {"health", "list"} : ViewBegins(p, k, NoName)
       \/ \E k \in {"get", "metrics"}, n \in Names : ViewBegins(p, k, n)
       \/ ReadStep(p) \/ ViewDropped(p)
  \/ Others /\ view' = Watched

ReadSpec == ReadInit /\ [][ReadNext]_readVars

-----------------------------------------------------------------------------
(* Properties: what a handler answers, having seen one slot after another, *)
(* could have been seen at one moment while it read.                       *)

(* The step in which the handler of p answers; what was true by then.      *)
Answers(p, kinds) ==
  view[p].kind \in kinds /\ Reading(p) /\ view'[p].answer # "none"

Seen(p) == view[p].was \cup Truth(view[p])

(* get_vm answers that a VM runs, exists without running, or does not      *)
(* exist (api.rs:104): each was so at one moment, though a VM is marked as *)
(* booted or goes away between its two lookups.                            *)
GetAnswersWereTrue ==
  [][\A p \in Readers : Answers(p, {"get"}) => view'[p].answer \in Seen(p)]_readVars

(* list_vms misses no VM that ran all the time and lists none that did not *)
(* run at some time. (The list as a whole may never have been true.)       *)
ListMissesNoVm ==
  [][\A p \in Readers : Answers(p, {"list"}) =>
       /\ \A i \in 1..MaxSize : (\A w \in Seen(p) : i \in w) => i \in view[p].got
       /\ \A i \in view[p].got : \E w \in Seen(p) : i \in w]_readVars

(* health counts slots in use and idle (api.rs:82); unless a slot failed   *)
(* meanwhile, as many were idle at one moment.   An idle slot that fails   *)
(* is what breaks the rule that slots only become idle under a read guard. *)
CountsWereTrue ==
  [][\A p \in Readers : Answers(p, {"health"}) =>
       \/ \E v, w \in Seen(p) : v.failed # w.failed
       \/ \E w \in Seen(p) : w.idle = Cardinality(view[p].got)]_readVars

(* vm_metrics reads pid, counters and process in three places (api.rs:196) *)
(* and answers only if all are of one VMM: the process is read last, so    *)
(* that it still existed when the counters were read, and a VM does not    *)
(* outlive its VMM. An unpolled child, which lives on, is the exception.   *)
MetricsOfOneVmm ==
  [][\A p \in Readers : Answers(p, {"metrics"}) /\ view'[p].answer = "ok" =>
       \/ view[p].gone = "no" /\ view[p].at = view[p].from
       \/ view[p].gone = "loose"]_readVars
=============================================================================
