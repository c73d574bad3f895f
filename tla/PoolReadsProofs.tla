--------------------------- MODULE PoolReadsProofs ---------------------------
(***************************************************************************)
(* The read-only handlers, for every number of requests, names and slots.  *)
(* Each of their steps is one that ProcessPool allows (ReadStepFits), so   *)
(* that its invariant holds; and while a handler has its guard no slot     *)
(* comes or goes, names only vanish and slots only become idle             *)
(* (ReadersWatch). What a handler has found by then is therefore explained *)
(* by what was true while it read: the invariants below say how.           *)
(***************************************************************************)
EXTENDS PoolReads, ProcessPoolProofs, FiniteSetTheorems

ViewPhases ==
  {"enter", "first", "second", "pid", "ask", "request", "process", "done"}

(* What there is to see, for any handler. *)
Verdicts == {"missing", "ok", "conflict"}
Counted == [idle : Nat, failed : Nat]
Facts == Counted \cup (SUBSET Nat) \cup Verdicts

ViewRecords ==
  [kind : Kinds \cup {"none"}, name : Names \cup {NoName}, phase : ViewPhases,
   at : Nat, got : SUBSET Nat, from : Nat, was : SUBSET Facts,
   gone : {"no", "loose", "reaped"},
   answer : {"none", "ok", "missing", "conflict", "failed"}]

(* Where a handler is says what it has of the lock, and how far it looked. *)
ReaderFine(p) ==
  /\ view[p].phase \in {"done", "pid", "process"} => ~Engaged(p)
  /\ view[p].phase \in {"first", "second", "request"} => p \in lock.readers
  /\ view[p].phase \in {"first", "second"} =>
       view[p].at # 0 /\ view[p].got \subseteq 1..(view[p].at - 1)
  /\ view[p].phase = "enter" => view[p].got = {} /\ view[p].from = 0
  /\ view[p].phase = "second" => view[p].kind = "get"
  /\ view[p].phase \in {"pid", "ask", "request", "process"} => view[p].kind = "metrics"
  /\ view[p].phase # "done" =>
       Serving /\ view[p].answer = "none" /\ view[p].kind \in Kinds
         /\ (view[p].kind \in {"get", "metrics"} => view[p].name \in Names)
  /\ alloc[p] = NoAlloc

ReadInv ==
  /\ IInv /\ LineInv /\ view \in [Readers -> ViewRecords]
  /\ \A p \in Readers : ReaderFine(p)

(* The steps of the handler of p. *)
Own(p) ==
  \/ \E k \in {"health", "list"} : ViewBegins(p, k, NoName)
  \/ \E k \in {"get", "metrics"}, n \in Names : ViewBegins(p, k, n)
  \/ ReadStep(p) \/ ViewDropped(p)

-----------------------------------------------------------------------------
(* What there is to see.                                                   *)

Empties == {i \in 1..Size : slots[i].state = "Empty"}
Faileds == {i \in 1..Size : slots[i].state = "Failed"}
HeldBy(n) == {i \in 1..Size : slots[i].name = n}

(* The truth of each kind of handler. *)
LEMMA TruthIs ==
  ASSUME NEW v
  PROVE  /\ v.kind = "health" =>
              Truth(v) = {[idle |-> Cardinality(Empties), failed |-> Cardinality(Faileds)]}
         /\ v.kind = "list" => Truth(v) = {{i \in 1..Size : Runs(slots[i])}}
         /\ v.kind = "get" =>
              Truth(v) = {IF HeldBy(v.name) = {} THEN "missing"
                          ELSE IF \E i \in HeldBy(v.name) : Runs(slots[i]) THEN "ok"
                          ELSE "conflict"}
         /\ v.kind = "metrics" => Truth(v) = {}
BY DEF Truth, Empties, Faileds, HeldBy, Quantify

(* There are finitely many slots, idle ones and failed ones.               *)
LEMMA SlotsFinite ==
  ASSUME IInv
  PROVE  /\ IsFiniteSet(1..Size) /\ IsFiniteSet(Empties) /\ IsFiniteSet(Faileds)
         /\ Cardinality(Empties) \in Nat /\ Cardinality(Faileds) \in Nat
<1>1. IsFiniteSet(1..Size)
  BY SizeFacts, FS_Interval DEF IInv
<1>2. Empties \subseteq 1..Size /\ Faileds \subseteq 1..Size
  BY DEF Empties, Faileds
<1> QED
  BY <1>1, <1>2, FS_Subset, FS_CardinalityType

(* The truth is made of facts. *)
LEMMA TruthTyped ==
  ASSUME IInv, NEW v, v.kind \in Kinds
  PROVE  Truth(v) \in SUBSET Facts
<1>1. CASE v.kind = "health"
  BY <1>1, TruthIs, SlotsFinite DEF Facts, Counted
<1>2. CASE v.kind = "list"
  <2>1. {i \in 1..Size : Runs(slots[i])} \in SUBSET Nat
    BY SizeFacts DEF IInv
  <2> QED
    BY <1>2, <2>1, TruthIs DEF Facts
<1>3. CASE v.kind = "get"
  <2>1. Truth(v) \in SUBSET Verdicts
    BY <1>3, TruthIs DEF Verdicts
  <2> QED
    BY <2>1 DEF Facts
<1>4. CASE v.kind = "metrics"
  BY <1>4, TruthIs
<1> QED
  BY <1>1, <1>2, <1>3, <1>4 DEF Kinds

-----------------------------------------------------------------------------
(* The steps of a handler are steps of the pool.                           *)

(* A step of the handler of p that leaves the handlers fine. *)
ViewMoves(p) ==
  /\ view' \in [Readers -> ViewRecords]
  /\ \A q \in Readers \ {p} : view'[q] = view[q]
  /\ ReaderFine(p)'

(* The view of one handler changes and no other does.                      *)
LEMMA ViewBecomes ==
  ASSUME view \in [Readers -> ViewRecords], NEW p \in Readers, NEW v \in ViewRecords,
         view' = [view EXCEPT ![p] = v]
  PROVE  /\ view' \in [Readers -> ViewRecords]
         /\ \A q \in Readers \ {p} : view'[q] = view[q]
         /\ view'[p] = v
OBVIOUS

(* A handler that goes on has seen what is true now.                       *)
LEMMA SeesNow ==
  ASSUME IInv, view \in [Readers -> ViewRecords], NEW p \in Readers,
         NEW v \in ViewRecords, v.kind \in Kinds, Views(p, v)
  PROVE  /\ view' \in [Readers -> ViewRecords]
         /\ \A q \in Readers \ {p} : view'[q] = view[q]
         /\ view'[p] \in ViewRecords
         /\ view'[p].was = v.was \cup Truth(v)
         /\ view'[p].kind = v.kind /\ view'[p].name = v.name
         /\ view'[p].phase = v.phase /\ view'[p].at = v.at /\ view'[p].got = v.got
         /\ view'[p].from = v.from /\ view'[p].gone = v.gone
         /\ view'[p].answer = v.answer
         /\ UNCHANGED <<slotVars, alloc, taskVars>>
<1> DEFINE w == [v EXCEPT !.was = @ \cup Truth(v)]
<1>1. Truth(v) \in SUBSET Facts
  BY TruthTyped
<1>2. w \in ViewRecords
  BY <1>1 DEF ViewRecords
<1>3. /\ w.was = v.was \cup Truth(v)
      /\ w.kind = v.kind /\ w.name = v.name /\ w.phase = v.phase /\ w.at = v.at
      /\ w.got = v.got /\ w.from = v.from /\ w.gone = v.gone /\ w.answer = v.answer
  BY DEF ViewRecords
<1>4. view' = [view EXCEPT ![p] = w] /\ UNCHANGED <<slotVars, alloc, taskVars>>
  BY DEF Views
<1> HIDE DEF w
<1>5. /\ view' \in [Readers -> ViewRecords]
      /\ \A q \in Readers \ {p} : view'[q] = view[q]
      /\ view'[p] = w
  BY <1>2, <1>4, ViewBecomes
<1> QED
  BY <1>2, <1>3, <1>4, <1>5

(* What a handler may do to the lock, and what the pool calls it.          *)
LEMMA ReaderAtLock ==
  ASSUME ReadInv, NEW p \in Readers, UNCHANGED <<slotVars, alloc, taskVars>>
  PROVE  /\ UNCHANGED lock => LockStep(p) /\ [PoolNext]_poolVars
         /\ lock' = Asked(lock, p, "read") /\ ~Engaged(p) /\ Serving
              => LockStep(p) /\ [PoolNext]_poolVars
         /\ lock' = Entered(lock, p, "read") /\ MayEnter(lock, p, "read")
              => LockStep(p) /\ [PoolNext]_poolVars
                   /\ p \in lock'.readers
         /\ lock' = Left(lock, p) /\ p \in lock.readers
              => LockStep(p) /\ [PoolNext]_poolVars /\ ~Engaged(p)'
         /\ lock' = Forgotten(lock, p) /\ Engaged(p)
              => LockStep(p) /\ [PoolNext]_poolVars /\ ~Engaged(p)'
<1>0. /\ p \in Requests /\ p \in Procs /\ lock \in Locks(Procs) /\ InLineOnce(lock, p)
      /\ alloc \in [Requests -> Allocs] /\ alloc[p] = NoAlloc
  BY ReaderAssumption DEF ReadInv, IInv, PoolTypeOK, LineInv, Procs, ReaderFine
<1>1. ASSUME Caller(p) PROVE [PoolNext]_poolVars
  BY <1>0, <1>1 DEF PoolNext
<1>2. ASSUME UNCHANGED lock PROVE LockStep(p) /\ [PoolNext]_poolVars
  BY <1>2 DEF LockStep, poolVars, slotVars, taskVars
<1>3. ASSUME lock' = Asked(lock, p, "read"), ~Engaged(p), Serving
      PROVE  LockStep(p) /\ [PoolNext]_poolVars
  <2>1. LockStep(p)
    BY <1>3 DEF LockStep
  <2>2. ReadRequest(p)
    BY <1>3 DEF ReadRequest
  <2> QED
    BY <1>1, <2>1, <2>2 DEF Caller
<1>4. ASSUME lock' = Entered(lock, p, "read"), MayEnter(lock, p, "read")
      PROVE  LockStep(p) /\ [PoolNext]_poolVars /\ p \in lock'.readers
  <2>1. LockStep(p)
    BY <1>4 DEF LockStep
  <2>2. ReadEnter(p)
    BY <1>4 DEF ReadEnter
  <2>3. p \in lock'.readers
    BY <1>4 DEF Entered
  <2> QED
    BY <1>1, <2>1, <2>2, <2>3 DEF Caller
<1>5. ASSUME lock' = Left(lock, p), p \in lock.readers
      PROVE  LockStep(p) /\ [PoolNext]_poolVars /\ ~Engaged(p)'
  <2>1. LockStep(p)
    BY <1>5 DEF LockStep
  <2>2. ReadLeave(p)
    BY <1>5 DEF ReadLeave
  <2>3. Holds(lock, p)
    BY <1>5 DEF Holds
  <2>4. ~Waits(lock', p) /\ ~Holds(lock', p)
    BY <1>0, <1>5, <2>3, LeftLine
  <2> QED
    BY <1>1, <2>1, <2>2, <2>4 DEF Caller, Engaged
<1>6. ASSUME lock' = Forgotten(lock, p), Engaged(p)
      PROVE  LockStep(p) /\ [PoolNext]_poolVars /\ ~Engaged(p)'
  <2>1. LockStep(p)
    BY <1>6 DEF LockStep
  <2>2. alloc' = [alloc EXCEPT ![p] = NoAlloc]
    BY <1>0
  <2>3. RequestDropped(p)
    BY <1>6, <2>2 DEF RequestDropped
  <2>4. ~Waits(lock', p) /\ ~Holds(lock', p)
    BY <1>0, <1>6, ForgottenLine
  <2> QED
    BY <1>1, <2>1, <2>3, <2>4 DEF Caller, PoolCall, Engaged
<1> QED
  BY <1>2, <1>3, <1>4, <1>5, <1>6

(* A handler asks for its first guard. *)
LEMMA BeginMoves ==
  ASSUME ReadInv, NEW p \in Readers, NEW k \in Kinds, NEW n \in Names \cup {NoName},
         k \in {"get", "metrics"} => n \in Names, ViewBegins(p, k, n)
  PROVE  ViewMoves(p) /\ LockStep(p) /\ [PoolNext]_poolVars
<1> DEFINE v == [NoView EXCEPT !.kind = k, !.name = n, !.phase = "enter"]
<1>1. NoView \in ViewRecords
  BY DEF NoView, ViewRecords, ViewPhases
<1>2. /\ v \in ViewRecords /\ v.kind = k /\ v.name = n /\ v.phase = "enter"
      /\ v.got = {} /\ v.from = 0 /\ v.answer = "none"
  BY <1>1 DEF NoView, ViewRecords, ViewPhases
<1>3. /\ view' = [view EXCEPT ![p] = v] /\ UNCHANGED <<slotVars, alloc, taskVars>>
      /\ Serving /\ ~Reading(p) /\ lock' = Asked(lock, p, "read")
  BY DEF ViewBegins
<1> HIDE DEF v
<1>4. /\ view' \in [Readers -> ViewRecords] /\ view'[p] = v
      /\ \A q \in Readers \ {p} : view'[q] = view[q]
  BY <1>2, <1>3, ViewBecomes DEF ReadInv
<1>5. ~Engaged(p) /\ alloc'[p] = NoAlloc /\ Serving'
  BY <1>3 DEF ReadInv, ReaderFine, Reading, Serving, taskVars
<1>6. ReaderFine(p)'
  BY <1>2, <1>4, <1>5 DEF ReaderFine
<1> QED
  BY <1>3, <1>4, <1>5, <1>6, ReaderAtLock DEF ViewMoves

(* A handler answers or is dropped, and leaves nothing at the lock.        *)
LEMMA EndMoves ==
  ASSUME ReadInv, NEW p \in Readers,
         \/ Reading(p) /\ ~(view[p].phase \in {"enter", "ask"})
              /\ \E a \in {"ok", "missing", "conflict", "failed"} : Answered(p, a)
         \/ ViewDropped(p)
  PROVE  /\ ViewMoves(p) /\ LockStep(p) /\ [PoolNext]_poolVars
         /\ view'[p].phase = "done"
<1>1. NoView \in ViewRecords /\ NoView.phase = "done"
  BY DEF NoView, ViewRecords, ViewPhases
<1>2. /\ view[p] \in ViewRecords /\ ReaderFine(p)
      /\ UNCHANGED <<slotVars, alloc, taskVars>>
  BY DEF ReadInv, Answered, ViewDropped
<1>3. ASSUME NEW v \in ViewRecords, v.phase = "done", view' = [view EXCEPT ![p] = v],
             ~Engaged(p)'
      PROVE  ViewMoves(p) /\ view'[p].phase = "done"
  <2>1. /\ view' \in [Readers -> ViewRecords] /\ view'[p] = v
        /\ \A q \in Readers \ {p} : view'[q] = view[q]
    BY <1>3, ViewBecomes DEF ReadInv
  <2>2. alloc'[p] = NoAlloc
    BY <1>2 DEF ReaderFine
  <2> QED
    BY <1>3, <2>1, <2>2 DEF ViewMoves, ReaderFine
<1>4. CASE ViewDropped(p)
  <2>1. lock' = Forgotten(lock, p) /\ Engaged(p) /\ view' = [view EXCEPT ![p] = NoView]
    BY <1>4 DEF ViewDropped
  <2> QED
    BY <1>1, <1>2, <1>3, <2>1, ReaderAtLock
<1>5. CASE /\ Reading(p) /\ ~(view[p].phase \in {"enter", "ask"})
           /\ \E a \in {"ok", "missing", "conflict", "failed"} : Answered(p, a)
  <2>1. PICK a \in {"ok", "missing", "conflict", "failed"} : Answered(p, a)
    BY <1>5
  <2> DEFINE v == [NoView EXCEPT !.kind = view[p].kind, !.answer = a]
  <2>2. v \in ViewRecords /\ v.phase = "done"
    BY <1>1, <1>2 DEF NoView, ViewRecords
  <2>3. view' = [view EXCEPT ![p] = v]
    BY <2>1 DEF Answered
  <2> HIDE DEF v
  <2>4. \/ p \in lock.readers /\ lock' = Left(lock, p)
        \/ ~Engaged(p) /\ UNCHANGED lock
    <3>1. view[p].phase \in {"first", "second", "request"} \/ view[p].phase \in {"pid", "process"}
      BY <1>2, <1>5 DEF Reading, ViewRecords, ViewPhases
    <3> QED
      BY <1>2, <2>1, <3>1 DEF Answered, ReaderFine, Engaged, Holds
  <2>5. LockStep(p) /\ [PoolNext]_poolVars /\ ~Engaged(p)'
    BY <1>2, <2>4, ReaderAtLock DEF Engaged
  <2> QED
    BY <1>3, <2>2, <2>3, <2>5
<1> QED
  BY <1>4, <1>5

(* A handler goes on, with a guard, without one or in line for one.        *)
LEMMA GoesOn ==
  ASSUME ReadInv, NEW p \in Readers, NEW v \in ViewRecords, Views(p, v),
         Reading(p), v.kind = view[p].kind, v.name = view[p].name,
         v.answer = view[p].answer, v.phase = "second" => v.kind = "get",
         v.phase \in {"pid", "ask", "request", "process"} => v.kind = "metrics",
         v.phase \in {"first", "second"} =>
           v.at # 0 /\ v.got \subseteq 1..(v.at - 1),
         \/ /\ lock' = Entered(lock, p, "read") /\ MayEnter(lock, p, "read")
            /\ v.phase \in {"first", "request"}
         \/ /\ UNCHANGED lock /\ p \in lock.readers
            /\ v.phase \in {"first", "second"}
         \/ /\ lock' = Left(lock, p) /\ p \in lock.readers
            /\ v.phase \in {"pid", "process"}
         \/ /\ lock' = Asked(lock, p, "read") /\ ~Engaged(p)
            /\ v.phase = "ask"
  PROVE  ViewMoves(p) /\ LockStep(p) /\ [PoolNext]_poolVars
<1>1. /\ ReaderFine(p) /\ IInv /\ view \in [Readers -> ViewRecords]
  BY DEF ReadInv
<1>2. /\ Serving /\ v.kind \in Kinds /\ v.answer = "none"
      /\ v.kind \in {"get", "metrics"} => v.name \in Names
      /\ alloc[p] = NoAlloc
  BY <1>1 DEF ReaderFine, Reading
<1>3. /\ view' \in [Readers -> ViewRecords]
      /\ \A q \in Readers \ {p} : view'[q] = view[q]
      /\ view'[p].kind = v.kind /\ view'[p].name = v.name
      /\ view'[p].phase = v.phase /\ view'[p].at = v.at /\ view'[p].got = v.got
      /\ view'[p].answer = v.answer /\ UNCHANGED <<slotVars, alloc, taskVars>>
  BY <1>1, <1>2, SeesNow
<1>4. LockStep(p) /\ [PoolNext]_poolVars
  BY <1>2, <1>3, ReaderAtLock
<1>5. /\ v.phase \in {"first", "second", "request"} => p \in lock'.readers
      /\ v.phase \in {"pid", "process", "done"} => ~Engaged(p)'
  BY <1>3, ReaderAtLock
<1>6. Serving' /\ alloc'[p] = NoAlloc
  BY <1>2, <1>3 DEF Serving, taskVars
<1> QED
  BY <1>2, <1>3, <1>4, <1>5, <1>6 DEF ViewMoves, ReaderFine

(* The view of a handler after its lookup began, and after each status.    *)
Entering(p) == [view[p] EXCEPT !.phase = "first", !.at = 1]
Again(p) == [view[p] EXCEPT !.phase = "second", !.at = 1]
Picks(p) == Collects(view[p], slots[view[p].at])
PickedGot(p) == IF Picks(p) THEN view[p].got \cup {view[p].at} ELSE view[p].got
PickedFrom(p) ==
  IF view[p].kind = "metrics" /\ view[p].from = 0 /\ Picks(p)
  THEN view[p].at ELSE view[p].from
Looking(p) ==
  [view[p] EXCEPT !.at = view[p].at + 1, !.got = PickedGot(p), !.from = PickedFrom(p)]

(* What those views are. *)
LEMMA LookViews ==
  ASSUME NEW p \in Readers, view[p] \in ViewRecords
  PROVE  /\ Entering(p) \in ViewRecords
         /\ Entering(p).phase = "first" /\ Entering(p).at = 1
         /\ Entering(p).kind = view[p].kind /\ Entering(p).name = view[p].name
         /\ Entering(p).answer = view[p].answer
         /\ Entering(p).got = view[p].got /\ Entering(p).from = view[p].from
         /\ Entering(p).was = view[p].was /\ Entering(p).gone = view[p].gone
         /\ Again(p) \in ViewRecords
         /\ Again(p).phase = "second" /\ Again(p).at = 1
         /\ Again(p).kind = view[p].kind /\ Again(p).name = view[p].name
         /\ Again(p).answer = view[p].answer
         /\ Again(p).got = view[p].got /\ Again(p).was = view[p].was
         /\ Looking(p) \in ViewRecords
         /\ Looking(p).phase = view[p].phase /\ Looking(p).at = view[p].at + 1
         /\ Looking(p).kind = view[p].kind /\ Looking(p).name = view[p].name
         /\ Looking(p).answer = view[p].answer
         /\ Looking(p).got = PickedGot(p) /\ Looking(p).from = PickedFrom(p)
         /\ Looking(p).was = view[p].was /\ Looking(p).gone = view[p].gone
<1>1. /\ Entering(p) \in ViewRecords
      /\ Entering(p).phase = "first" /\ Entering(p).at = 1
      /\ Entering(p).kind = view[p].kind /\ Entering(p).name = view[p].name
      /\ Entering(p).answer = view[p].answer
      /\ Entering(p).got = view[p].got /\ Entering(p).from = view[p].from
      /\ Entering(p).was = view[p].was /\ Entering(p).gone = view[p].gone
  BY DEF Entering, ViewRecords, ViewPhases
<1>2. /\ Again(p) \in ViewRecords
      /\ Again(p).phase = "second" /\ Again(p).at = 1
      /\ Again(p).kind = view[p].kind /\ Again(p).name = view[p].name
      /\ Again(p).answer = view[p].answer
      /\ Again(p).got = view[p].got /\ Again(p).was = view[p].was
  BY DEF Again, ViewRecords, ViewPhases
<1>3. PickedGot(p) \in SUBSET Nat /\ PickedFrom(p) \in Nat /\ view[p].at + 1 \in Nat
  BY DEF PickedGot, PickedFrom, ViewRecords
<1>4. /\ Looking(p) \in ViewRecords
      /\ Looking(p).phase = view[p].phase /\ Looking(p).at = view[p].at + 1
      /\ Looking(p).kind = view[p].kind /\ Looking(p).name = view[p].name
      /\ Looking(p).answer = view[p].answer
      /\ Looking(p).got = PickedGot(p) /\ Looking(p).from = PickedFrom(p)
      /\ Looking(p).was = view[p].was /\ Looking(p).gone = view[p].gone
  BY <1>3 DEF Looking, ViewRecords
<1> QED
  BY <1>1, <1>2, <1>4

(* A status is asked for. *)
LEMMA LooksAt ==
  ASSUME NEW p \in Readers, view[p] \in ViewRecords, Looks(p)
  PROVE  Views(p, Looking(p))
BY DEF Looks, Looking, PickedGot, PickedFrom, Picks, ViewRecords

(* The steps of the rest of vm_metrics, and what the view becomes. *)
MetricSteps(p, v) ==
  LET o == view[p] IN
  /\ v \in ViewRecords /\ Views(p, v)
  /\ v.kind = o.kind /\ v.name = o.name /\ v.was = o.was /\ v.got = o.got
  /\ v.from = o.from /\ v.gone = o.gone /\ v.answer = o.answer
  /\ \/ /\ o.phase = "first" /\ v.phase = "pid" /\ o.got # {} /\ o.kind = "metrics"
        /\ lock' = Left(lock, p)
     \/ /\ o.phase = "pid" /\ v.phase = "ask" /\ lock' = Asked(lock, p, "read")
     \/ /\ o.phase = "ask" /\ v.phase = "request"
        /\ MayEnter(lock, p, "read") /\ lock' = Entered(lock, p, "read")
     \/ /\ o.phase = "request" /\ v.phase = "process" /\ lock' = Left(lock, p)
        /\ v.at \in 1..Size /\ slots[v.at].name = o.name
        /\ slots[v.at].state = "Occupied" /\ slots[v.at].proc = "serving"

(* They are PidFound, AsksAgain, AsksCounters and CountersRead. *)
LEMMA MetricsGoOn ==
  ASSUME IInv, NEW p \in Readers, view[p] \in ViewRecords,
         PidFound(p) \/ AsksAgain(p) \/ AsksCounters(p) \/ CountersRead(p)
  PROVE  \E v : MetricSteps(p, v)
<1>1. ASSUME NEW f \in {"pid", "ask", "request", "process"}, NEW i \in Nat
      PROVE  LET o == view[p] v == [o EXCEPT !.phase = f, !.at = i]
                 w == [o EXCEPT !.phase = f] IN
             /\ v \in ViewRecords /\ v.kind = o.kind /\ v.name = o.name
             /\ v.was = o.was /\ v.got = o.got /\ v.from = o.from
             /\ v.gone = o.gone /\ v.answer = o.answer /\ v.phase = f /\ v.at = i
             /\ w \in ViewRecords /\ w.kind = o.kind /\ w.name = o.name
             /\ w.was = o.was /\ w.got = o.got /\ w.from = o.from
             /\ w.gone = o.gone /\ w.answer = o.answer /\ w.phase = f
  BY DEF ViewRecords, ViewPhases
<1>2. CASE PidFound(p)
  <2> WITNESS [view[p] EXCEPT !.phase = "pid"]
  <2> QED
    BY <1>1, <1>2 DEF PidFound, MetricSteps, Looked
<1>3. CASE AsksAgain(p)
  <2> WITNESS [view[p] EXCEPT !.phase = "ask"]
  <2> QED
    BY <1>1, <1>3 DEF AsksAgain, MetricSteps
<1>4. CASE AsksCounters(p)
  <2> WITNESS [view[p] EXCEPT !.phase = "request"]
  <2> QED
    BY <1>1, <1>4 DEF AsksCounters, MetricSteps
<1>5. CASE CountersRead(p)
  <2>1. PICK i \in 1..Size :
          /\ slots[i].name = view[p].name /\ slots[i].state = "Occupied"
          /\ slots[i].proc = "serving"
          /\ Views(p, [view[p] EXCEPT !.phase = "process", !.at = i])
    BY <1>5 DEF CountersRead
  <2>2. i \in Nat
    BY SizeFacts DEF IInv
  <2> WITNESS [view[p] EXCEPT !.phase = "process", !.at = i]
  <2> QED
    BY <1>1, <1>5, <2>1, <2>2 DEF CountersRead, MetricSteps
<1> QED
  BY <1>2, <1>3, <1>4, <1>5

(* Which answer ends a handler, and where it was.                          *)
LEMMA AnswersWhere ==
  ASSUME NEW p \in Readers,
         \/ Counts(p) \/ GetsRunning(p) \/ GetsOther(p) \/ PidMissing(p)
         \/ CountersRefused(p) \/ ProcessRead(p) \/ ProcessFails(p)
  PROVE  /\ view[p].phase \in {"first", "second", "request", "process"}
         /\ \E a \in {"ok", "missing", "conflict", "failed"} : Answered(p, a)
BY DEF Counts, GetsRunning, GetsOther, PidMissing, CountersRefused, ProcessRead,
       ProcessFails, Looked

(* Each step of a handler is one that the pool allows. *)
LEMMA OwnMoves ==
  ASSUME ReadInv, NEW p \in Readers, Own(p)
  PROVE  ViewMoves(p) /\ LockStep(p) /\ [PoolNext]_poolVars
<1>1. /\ ReaderFine(p) /\ IInv /\ view[p] \in ViewRecords
  BY DEF ReadInv
<1>2. CASE \/ \E k \in {"health", "list"} : ViewBegins(p, k, NoName)
           \/ \E k \in {"get", "metrics"}, n \in Names : ViewBegins(p, k, n)
  BY <1>2, BeginMoves DEF Kinds
<1>3. CASE ViewDropped(p)
  BY <1>3, EndMoves
<1>4. CASE \/ Counts(p) \/ GetsRunning(p) \/ GetsOther(p) \/ PidMissing(p)
           \/ CountersRefused(p) \/ ProcessRead(p) \/ ProcessFails(p)
  BY <1>4, AnswersWhere, EndMoves DEF Reading
<1>5. CASE ViewEnters(p)
  <2>1. /\ Views(p, Entering(p)) /\ Reading(p) /\ view[p].got = {}
        /\ lock' = Entered(lock, p, "read") /\ MayEnter(lock, p, "read")
    BY <1>1, <1>5 DEF ViewEnters, Entering, Reading, ReaderFine
  <2>2. /\ Entering(p) \in ViewRecords
        /\ Entering(p).phase = "first" /\ Entering(p).at = 1 /\ Entering(p).got = {}
        /\ Entering(p).kind = view[p].kind /\ Entering(p).name = view[p].name
        /\ Entering(p).answer = view[p].answer
    BY <1>1, <2>1, LookViews
  <2> QED
    BY <2>1, <2>2, GoesOn
<1>6. CASE LooksAgain(p)
  <2>1. /\ Views(p, Again(p)) /\ Reading(p) /\ view[p].got = {}
        /\ UNCHANGED lock /\ p \in lock.readers /\ view[p].kind = "get"
    BY <1>1, <1>6 DEF LooksAgain, Looked, Again, Reading, ReaderFine
  <2>2. /\ Again(p) \in ViewRecords
        /\ Again(p).phase = "second" /\ Again(p).at = 1 /\ Again(p).got = {}
        /\ Again(p).kind = view[p].kind /\ Again(p).name = view[p].name
        /\ Again(p).answer = view[p].answer
    BY <1>1, <2>1, LookViews
  <2> QED
    BY <2>1, <2>2, GoesOn
<1>7. CASE Looks(p)
  <2>1. /\ Views(p, Looking(p)) /\ Reading(p) /\ view[p].phase \in {"first", "second"}
        /\ UNCHANGED lock /\ p \in lock.readers
        /\ view[p].at # 0 /\ view[p].got \subseteq 1..(view[p].at - 1)
        /\ view[p].at \in Nat /\ (view[p].phase = "second" => view[p].kind = "get")
    BY <1>1, <1>7, LooksAt DEF Looks, Reading, ReaderFine, ViewRecords
  <2>2. Looking(p).at # 0 /\ Looking(p).got \subseteq 1..(Looking(p).at - 1)
    <3>1. /\ Looking(p).at = view[p].at + 1
          /\ Looking(p).got \subseteq view[p].got \cup {view[p].at}
      BY <1>1, LookViews DEF PickedGot
    <3> QED
      BY <2>1, <3>1
  <2> QED
    BY <1>1, <2>1, <2>2, LookViews, GoesOn
<1>8. CASE PidFound(p) \/ AsksAgain(p) \/ AsksCounters(p) \/ CountersRead(p)
  <2>1. PICK v : MetricSteps(p, v)
    BY <1>1, <1>8, MetricsGoOn
  <2>2. Reading(p)
    BY <2>1 DEF MetricSteps, Reading
  <2> QED
    BY <1>1, <2>1, <2>2, GoesOn DEF MetricSteps, ReaderFine
<1> QED
  BY <1>2, <1>3, <1>4, <1>5, <1>6, <1>7, <1>8 DEF Own, ReadStep

-----------------------------------------------------------------------------
(* The steps of the others.                                                *)

(* A request leaves the calls of others alone. *)
LEMMA CallerAlone ==
  ASSUME PoolTypeOK, NEW p \in Requests, Caller(p), NEW q \in Requests \ {p}
  PROVE  alloc'[q] = alloc[q]
<1>0. alloc \in [Requests -> Allocs]
  BY DEF PoolTypeOK
<1>1. CASE \E n \in Names : AllocRequest(p, n)
  BY <1>0, <1>1 DEF AllocRequest
<1>2. CASE AllocStep(p)
  BY <1>0, <1>2 DEF AllocStep, AllocStart, AllocNameNext, AllocNameTaken,
       AllocNameFree, AllocEmptyNext, AllocEmptyFound, AllocExhausted,
       AllocExtend, AllocReserve, AllocRefused, AllocGoes, AllocReturns
<1>3. CASE ReadRequest(p) \/ ReadEnter(p) \/ ReadLeave(p) \/ RequestDropped(p)
  BY <1>0, <1>3 DEF ReadRequest, ReadEnter, ReadLeave, RequestDropped
<1>4. CASE \E i \in 1..Size :
             MarkBooted(p, i) \/ ReleaseSlot(p, i) \/ ResetSlot(p, i)
  BY <1>4 DEF MarkBooted, ReleaseSlot, ResetSlot, SlotCommand
<1> QED
  BY <1>1, <1>2, <1>3, <1>4 DEF Caller, PoolCall

(* When somebody else moves, a handler that reads sees what is true and    *)
(* what becomes of its VMM, and stays where it is.                         *)
LEMMA WatchedIs ==
  ASSUME ReadInv, view' = Watched, NEW q \in Readers
  PROVE  /\ view'[q] \in ViewRecords
         /\ view'[q].kind = view[q].kind /\ view'[q].name = view[q].name
         /\ view'[q].phase = view[q].phase /\ view'[q].at = view[q].at
         /\ view'[q].got = view[q].got /\ view'[q].from = view[q].from
         /\ view'[q].answer = view[q].answer
         /\ view[q].phase \notin {"enter", "done"} =>
              /\ view'[q].was = view[q].was \cup Truth(view[q])
              /\ view'[q].gone = Fate(view[q])
<1>1. view[q] \in ViewRecords /\ ReaderFine(q) /\ IInv
  BY DEF ReadInv
<1>2. CASE view[q].phase \in {"enter", "done"}
  BY <1>1, <1>2 DEF Watched
<1>3. CASE view[q].phase \notin {"enter", "done"}
  <2> DEFINE now == view[q].was \cup Truth(view[q])
  <2>1. Truth(view[q]) \in SUBSET Facts
    BY <1>1, <1>3, TruthTyped DEF ReaderFine
  <2>2. now \in SUBSET Facts
    BY <1>1, <2>1 DEF ViewRecords
  <2>3. Fate(view[q]) \in {"no", "loose", "reaped"}
    BY <1>1 DEF Fate, ViewRecords
  <2>4. view'[q] = [view[q] EXCEPT !.was = now, !.gone = Fate(view[q])]
    BY <1>1, <1>3 DEF Watched, ViewRecords
  <2> HIDE DEF now
  <2>5. /\ view'[q] \in ViewRecords
        /\ view'[q].kind = view[q].kind /\ view'[q].name = view[q].name
        /\ view'[q].phase = view[q].phase /\ view'[q].at = view[q].at
        /\ view'[q].got = view[q].got /\ view'[q].from = view[q].from
        /\ view'[q].answer = view[q].answer
        /\ view'[q].was = now /\ view'[q].gone = Fate(view[q])
    BY <1>1, <2>2, <2>3, <2>4 DEF ViewRecords
  <2> QED
    BY <2>5 DEF now
<1> QED
  BY <1>2, <1>3

(* The others move as the pool does, and main does not go on while a       *)
(* handler reads.                                                          *)
LEMMA OthersMove ==
  ASSUME ReadInv, Others
  PROVE  /\ [PoolNext]_poolVars
         /\ \E t \in Procs \ Readers : LockStep(t)
         /\ \A q \in Readers : Reading(q) /\ Serving => Serving'
         /\ \A q \in Readers : alloc'[q] = alloc[q]
<1>0. /\ IInv /\ PoolTypeOK /\ Readers \subseteq Requests
      /\ Autoscaler \in Procs \ Readers /\ Main \in Procs \ Readers
  BY ReaderAssumption, ProcAssumption DEF ReadInv, IInv, Procs
<1>1. ASSUME NEW p \in Requests \ Readers, Caller(p)
      PROVE  /\ [PoolNext]_poolVars
             /\ \E t \in Procs \ Readers : LockStep(t)
             /\ UNCHANGED daemon /\ \A q \in Readers : alloc'[q] = alloc[q]
  <2>1. LockStep(p) /\ UNCHANGED daemon
    BY <1>1, CallerLocks
  <2>2. \A q \in Readers : alloc'[q] = alloc[q]
    BY <1>0, <1>1, CallerAlone
  <2> QED
    BY <1>1, <2>1, <2>2 DEF PoolNext, Procs
<1>2. ASSUME \/ Scaling \/ Stopping \/ Joining
             \/ \E i \in DOMAIN slots : SlotEvent(i)
      PROVE  /\ [PoolNext]_poolVars /\ \E t \in Procs \ Readers : LockStep(t)
             /\ UNCHANGED alloc
  <2>1. UNCHANGED alloc
    BY <1>2 DEF Scaling, Stopping, Joining, Join, SlotEvent, Spawn, SpawnFails,
         Reap, PollFails, Listen, Exit, WorkerEnds, WorkerMoves, ScalerTick,
         ScalerKeeps, ScalerShrinks, ScalerPop, ShutdownSignal, Drained,
         ShutdownStart, ShutdownPop, ShutdownDone
  <2> QED
    BY <1>0, <1>2, <2>1, TaskLocksStep DEF PoolNext
<1>3. ASSUME NEW q \in Readers, Reading(q), Serving,
             ~\E p \in Requests \ Readers : Caller(p)
      PROVE  Serving'
  <2>1. CASE Scaling \/ Joining \/ \E i \in DOMAIN slots : SlotEvent(i)
    BY <1>3, <2>1 DEF Scaling, Joining, Join, SlotEvent, Spawn, SpawnFails,
         Reap, PollFails, Listen, Exit, WorkerEnds, WorkerMoves, ScalerTick,
         ScalerKeeps, ScalerShrinks, ScalerPop, Serving, taskVars
  <2>2. CASE ShutdownSignal \/ ShutdownStart \/ ShutdownPop \/ ShutdownDone
    BY <1>3, <2>2 DEF ShutdownSignal, ShutdownStart, ShutdownPop, ShutdownDone,
         Serving, taskVars
  <2> QED
    BY <1>3, <2>1, <2>2 DEF Others
<1> QED
  BY <1>1, <1>2, <1>3 DEF Others, Stopping, Serving

(* The read-only handlers use the lock as ProcessPool allows.              *)
LEMMA ReadStepFits ==
  ASSUME ReadInv, [ReadNext]_readVars
  PROVE  ReadInv' /\ [PoolNext]_poolVars
<1>0. /\ IInv /\ LineInv /\ lock \in Locks(Procs) /\ Readers \subseteq Requests
      /\ view \in [Readers -> ViewRecords] /\ \A q \in Readers : ReaderFine(q)
  BY ReaderAssumption DEF ReadInv, IInv, PoolTypeOK
<1>1. ASSUME NEW t \in Procs, LockStep(t), NEW q \in Readers \ {t},
             alloc'[q] = alloc[q], Reading(q) => Serving',
             /\ view'[q].phase = view[q].phase /\ view'[q].at = view[q].at
             /\ view'[q].got = view[q].got /\ view'[q].from = view[q].from
             /\ view'[q].kind = view[q].kind /\ view'[q].name = view[q].name
             /\ view'[q].answer = view[q].answer
      PROVE  ReaderFine(q)'
  <2>1. /\ Engaged(q)' => Engaged(q)
        /\ q \in lock.readers => q \in lock'.readers
    BY <1>0, <1>1, LockStepKeeps DEF LineInv
  <2> QED
    BY <1>0, <1>1, <2>1 DEF ReaderFine, Reading
<1>2. ASSUME NEW t \in Procs, LockStep(t) PROVE LineInv'
  BY <1>0, <1>2, LockStepKeeps DEF LineInv
<1>3. ASSUME NEW p \in Readers, Own(p) PROVE ReadInv' /\ [PoolNext]_poolVars
  <2>1. ViewMoves(p) /\ LockStep(p) /\ [PoolNext]_poolVars /\ p \in Procs
    BY <1>0, <1>3, OwnMoves DEF Procs
  <2>2. UNCHANGED <<alloc, daemon>>
    BY <1>3 DEF Own, ViewBegins, ReadStep, ViewDropped, Answered, Views, taskVars,
         ViewEnters, Looks, Counts, GetsRunning, LooksAgain, GetsOther, PidMissing,
         PidFound, AsksAgain, AsksCounters, CountersRead, CountersRefused,
         ProcessRead, ProcessFails
  <2>3. ASSUME NEW q \in Readers PROVE ReaderFine(q)'
    <3>1. CASE q = p
      BY <2>1, <3>1 DEF ViewMoves
    <3>2. CASE q # p
      <4>1. view'[q] = view[q] /\ alloc'[q] = alloc[q]
        BY <2>1, <2>2, <3>2 DEF ViewMoves
      <4>2. Reading(q) => Serving'
        BY <1>0, <2>2 DEF ReaderFine, Reading, Serving
      <4> QED
        BY <1>1, <2>1, <3>2, <4>1, <4>2
    <3> QED
      BY <3>1, <3>2
  <2>4. IInv'
    BY <1>0, <2>1, StepInvariant
  <2> QED
    BY <1>2, <2>1, <2>3, <2>4 DEF ReadInv, ViewMoves
<1>4. ASSUME Others, view' = Watched PROVE ReadInv' /\ [PoolNext]_poolVars
  <2>1. PICK t \in Procs \ Readers : LockStep(t)
    BY <1>4, OthersMove
  <2>2. /\ [PoolNext]_poolVars
        /\ \A q \in Readers : Reading(q) /\ Serving => Serving'
        /\ \A q \in Readers : alloc'[q] = alloc[q]
    BY <1>4, OthersMove
  <2>3. ASSUME NEW q \in Readers PROVE view'[q] \in ViewRecords /\ ReaderFine(q)'
    <3>1. /\ view'[q] \in ViewRecords
          /\ view'[q].phase = view[q].phase /\ view'[q].at = view[q].at
          /\ view'[q].got = view[q].got /\ view'[q].from = view[q].from
          /\ view'[q].kind = view[q].kind /\ view'[q].name = view[q].name
          /\ view'[q].answer = view[q].answer
      BY <1>4, WatchedIs
    <3>2. Reading(q) => Serving'
      BY <1>0, <2>2 DEF ReaderFine, Reading
    <3>3. q # t
      BY <2>1
    <3> QED
      BY <1>1, <2>1, <2>2, <3>1, <3>2, <3>3
  <2>4. view' \in [Readers -> ViewRecords]
    BY <1>4, <2>3 DEF Watched
  <2>5. IInv'
    BY <1>0, <2>2, StepInvariant
  <2> QED
    BY <1>2, <2>1, <2>2, <2>3, <2>4, <2>5 DEF ReadInv
<1>5. CASE UNCHANGED readVars
  BY <1>5, <1>0 DEF readVars, poolVars, ReadInv, IInv, PoolTypeOK, LockInv, ScanInv,
       TaskInv, NamesUnique, NameStaysFree, PoolBounded, LineInv, ReaderFine,
       Engaged, Size, Allocating, Serving, NameChecked
<1> QED
  BY <1>3, <1>4, <1>5 DEF ReadNext, Own

(* At first nobody reads. *)
LEMMA ReadInitInv == ReadInit => ReadInv
<1> SUFFICES ASSUME ReadInit PROVE ReadInv
  OBVIOUS
<1>1. IInv
  BY InitInvariant DEF ReadInit
<1>2. /\ lock.queue = <<>> /\ lock.readers = {} /\ lock.writer = NoProc
      /\ alloc = [p \in Requests |-> NoAlloc]
      /\ view = [p \in Readers |-> NoView] /\ Readers \subseteq Requests
      /\ NoProc \notin Requests
  BY ReaderAssumption, ProcAssumption DEF ReadInit, PoolInit, Procs, LockFree
<1>3. \A q \in Requests : ~Holds(lock, q) /\ ~Waits(lock, q)
  BY <1>2 DEF Holds, Waits
<1>4. LineInv
  BY <1>2, <1>3 DEF LineInv, InLineOnce
<1>5. NoView \in ViewRecords /\ NoView.phase = "done"
  BY DEF NoView, ViewRecords, ViewPhases
<1>6. ASSUME NEW q \in Readers PROVE ReaderFine(q)
  <2>1. view[q] = NoView /\ alloc[q] = NoAlloc /\ ~Engaged(q)
    BY <1>2, <1>3 DEF Engaged
  <2> QED
    BY <1>5, <2>1 DEF ReaderFine
<1> QED
  BY <1>1, <1>2, <1>4, <1>5, <1>6 DEF ReadInv

(* The handlers that read, too, use lock and slots only as ProcessPool     *)
(* allows: the invariant of the pool holds while they do.                  *)
THEOREM ReadInvariance == ReadSpec => []ReadInv
<1>1. ReadInv /\ [ReadNext]_readVars => ReadInv'
  BY ReadStepFits
<1> QED
  BY <1>1, ReadInitInv, PTL DEF ReadSpec

(* The refinement, step by step.                                           *)
THEOREM ReadersImplementPool == ReadSpec => PoolSpec
<1>1. ReadInv /\ [ReadNext]_readVars => [PoolNext]_poolVars
  BY ReadStepFits
<1>2. ReadInit => PoolInit
  BY DEF ReadInit
<1> QED
  BY <1>1, <1>2, ReadInvariance, PTL DEF ReadSpec, PoolSpec

-----------------------------------------------------------------------------
(* A lookup, step by step.                                                 *)

(* What was true while a handler reads stays so while its kind and name    *)
(* do and what it saw is kept.                                             *)
LEMMA TruthOf ==
  ASSUME NEW v, NEW w, v.kind = w.kind, v.name = w.name, v.kind \in Kinds
  PROVE  Truth(v) = Truth(w)
BY TruthIs DEF Kinds

(* A handler goes on with its lookup while nobody else moves.              *)
LookStep(p) ==
  /\ UNCHANGED slotVars /\ view[p].kind \in Kinds
  /\ view'[p].kind = view[p].kind /\ view'[p].name = view[p].name
  /\ view'[p].gone = view[p].gone
  /\ view[p].was \cup Truth(view[p]) \subseteq view'[p].was
  /\ \/ /\ view[p].phase = "enter" /\ view'[p].phase = "first" /\ view'[p].at = 1
        /\ view'[p].got = {} /\ view'[p].from = 0
     \/ /\ view[p].phase \in {"first", "second"} /\ view'[p].phase = view[p].phase
        /\ view[p].at \in 1..Size /\ view'[p].at = view[p].at + 1
        /\ view'[p].got = PickedGot(p) /\ view'[p].from = PickedFrom(p)
     \/ /\ view[p].kind = "get" /\ view[p].phase = "first" /\ view'[p].phase = "second"
        /\ view[p].at > Size /\ view[p].got = {}
        /\ view'[p].at = 1 /\ view'[p].got = {}

(* Those are the steps of its own that leave a handler in a lookup.        *)
LEMMA LookMoves ==
  ASSUME ReadInv, NEW p \in Readers, Own(p), view'[p].phase \in {"first", "second"}
  PROVE  LookStep(p)
<1>1. ReaderFine(p) /\ IInv /\ view \in [Readers -> ViewRecords] /\ view[p] \in ViewRecords
  BY DEF ReadInv
<1>2. ASSUME NEW v \in ViewRecords, Views(p, v), Reading(p), v.kind = view[p].kind,
             v.name = view[p].name, v.was = view[p].was
      PROVE  /\ UNCHANGED slotVars /\ view[p].kind \in Kinds
             /\ view'[p].kind = view[p].kind /\ view'[p].name = view[p].name
             /\ view'[p].gone = v.gone /\ view'[p].phase = v.phase
             /\ view'[p].at = v.at /\ view'[p].got = v.got /\ view'[p].from = v.from
             /\ view[p].was \cup Truth(view[p]) \subseteq view'[p].was
  <2>1. view[p].kind \in Kinds
    BY <1>1, <1>2 DEF ReaderFine, Reading
  <2>2. Truth(v) = Truth(view[p])
    BY <1>2, <2>1, TruthOf
  <2> QED
    BY <1>1, <1>2, <2>1, <2>2, SeesNow
<1>3. CASE \/ \E k \in {"health", "list"} : ViewBegins(p, k, NoName)
           \/ \E k \in {"get", "metrics"}, n \in Names : ViewBegins(p, k, n)
  <2>1. PICK k \in Kinds, n \in Names \cup {NoName} : ViewBegins(p, k, n)
    BY <1>3 DEF Kinds
  <2>2. view'[p].phase = "enter"
    BY <1>1, <2>1 DEF ViewBegins, NoView
  <2> QED
    BY <2>2
<1>4. CASE \/ ViewDropped(p) \/ Counts(p) \/ GetsRunning(p) \/ GetsOther(p)
           \/ PidMissing(p) \/ CountersRefused(p) \/ ProcessRead(p) \/ ProcessFails(p)
  <2>1. view'[p].phase = "done"
    BY <1>4, AnswersWhere, EndMoves DEF Reading
  <2> QED
    BY <2>1
<1>5. CASE ViewEnters(p)
  <2>1. Views(p, Entering(p)) /\ Reading(p) /\ view[p].phase = "enter"
    BY <1>5 DEF ViewEnters, Entering, Reading
  <2>2. view[p].got = {} /\ view[p].from = 0
    BY <1>1, <2>1 DEF ReaderFine
  <2>3. Entering(p) \in ViewRecords
    BY <1>1, LookViews
  <2> QED
    BY <1>1, <1>2, <2>1, <2>2, <2>3, LookViews DEF LookStep
<1>6. CASE LooksAgain(p)
  <2>1. /\ Views(p, Again(p)) /\ Reading(p) /\ view[p].phase = "first"
        /\ view[p].got = {} /\ view[p].kind = "get" /\ view[p].at > Size
    BY <1>6 DEF LooksAgain, Looked, Again, Reading
  <2>2. /\ Again(p) \in ViewRecords /\ Again(p).gone = view[p].gone
        /\ Again(p).phase = "second" /\ Again(p).at = 1 /\ Again(p).got = view[p].got
        /\ Again(p).kind = view[p].kind /\ Again(p).name = view[p].name
        /\ Again(p).was = view[p].was
    BY <1>1, LookViews DEF Again, ViewRecords
  <2> QED
    BY <1>2, <2>1, <2>2 DEF LookStep
<1>7. CASE Looks(p)
  <2>1. /\ Views(p, Looking(p)) /\ Reading(p) /\ view[p].phase \in {"first", "second"}
        /\ view[p].at # 0 /\ view[p].at \in Nat /\ view[p].at <= Size
    BY <1>1, <1>7, LooksAt DEF Looks, Reading, ReaderFine, ViewRecords
  <2>2. view[p].at \in 1..Size
    BY <1>1, <2>1, SizeFacts DEF IInv
  <2>3. Looking(p) \in ViewRecords
    BY <1>1, LookViews
  <2> QED
    BY <1>1, <1>2, <2>1, <2>2, <2>3, LookViews DEF LookStep
<1>8. CASE PidFound(p) \/ AsksAgain(p) \/ AsksCounters(p) \/ CountersRead(p)
  <2>1. PICK v : MetricSteps(p, v)
    BY <1>1, <1>8, MetricsGoOn
  <2>2. Reading(p) /\ v.phase \notin {"first", "second"}
    BY <2>1 DEF MetricSteps, Reading
  <2>3. view'[p].phase = v.phase
    BY <1>2, <2>1, <2>2 DEF MetricSteps
  <2> QED
    BY <2>2, <2>3
<1> QED
  BY <1>3, <1>4, <1>5, <1>6, <1>7, <1>8 DEF Own, ReadStep

(* Somebody else moves: the handler stays where it is, having seen what    *)
(* was true.                                                               *)
Stays(q) ==
  /\ view'[q].kind = view[q].kind /\ view'[q].name = view[q].name
  /\ view'[q].phase = view[q].phase /\ view'[q].at = view[q].at
  /\ view'[q].got = view[q].got /\ view'[q].from = view[q].from
  /\ view'[q].answer = view[q].answer
  /\ \/ UNCHANGED slotVars /\ view'[q] = view[q]
     \/ /\ view[q].phase \notin {"enter", "done"}
        /\ view[q].was \cup Truth(view[q]) \subseteq view'[q].was
        /\ view'[q].gone = Fate(view[q])
     \/ view[q].phase \in {"enter", "done"} /\ view'[q] = view[q]

(* A step is one of the handler or of somebody else. *)
LEMMA ViewSteps ==
  ASSUME ReadInv, [ReadNext]_readVars, NEW q \in Readers
  PROVE  Own(q) \/ Stays(q)
<1>1. ASSUME NEW p \in Readers \ {q}, Own(p) PROVE Stays(q)
  <2>1. view'[q] = view[q]
    BY <1>1, OwnMoves DEF ViewMoves
  <2>2. UNCHANGED slotVars
    BY <1>1 DEF Own, ViewBegins, ReadStep, ViewDropped, Answered, Views,
         ViewEnters, Looks, Counts, GetsRunning, LooksAgain, GetsOther, PidMissing,
         PidFound, AsksAgain, AsksCounters, CountersRead, CountersRefused,
         ProcessRead, ProcessFails
  <2> QED
    BY <2>1, <2>2 DEF Stays
<1>2. ASSUME view' = Watched PROVE Stays(q)
  <2>1. view[q].phase \in {"enter", "done"} => view'[q] = view[q]
    BY <1>2 DEF Watched
  <2> QED
    BY <1>2, <2>1, WatchedIs DEF Stays
<1>3. CASE UNCHANGED readVars
  BY <1>3 DEF readVars, slotVars, Stays
<1> QED
  BY <1>1, <1>2, <1>3 DEF ReadNext, Own

(* While it looks, what was true of its kind of answer is not forgotten.   *)
LEMMA NothingForgotten ==
  ASSUME ReadInv, [ReadNext]_readVars, NEW q \in Readers,
         view'[q].phase \in {"first", "second"}
  PROVE  /\ LookStep(q) \/ (Stays(q) /\ q \in lock.readers)
         /\ Seen(q) \subseteq Seen(q)'
<1>1. ReaderFine(q)
  BY DEF ReadInv
<1>2. CASE Own(q)
  <2>1. LookStep(q)
    BY <1>2, LookMoves
  <2> QED
    BY <2>1 DEF LookStep, Seen
<1>3. CASE Stays(q)
  <2>1. view[q].phase \in {"first", "second"} /\ q \in lock.readers
    BY <1>1, <1>3 DEF Stays, ReaderFine
  <2>2. CASE view[q].was \cup Truth(view[q]) \subseteq view'[q].was
    BY <1>3, <2>1, <2>2 DEF Seen
  <2>3. CASE UNCHANGED slotVars /\ view'[q] = view[q]
    <3>1. Truth(view[q])' = Truth(view[q])
      <4>1. slots' = slots /\ Size' = Size /\ view'[q] = view[q]
        BY <2>3 DEF slotVars, Size
      <4> QED
        BY <4>1 DEF Truth, Runs, Quantify
    <3> QED
      BY <1>3, <2>1, <2>3, <3>1 DEF Seen
  <2> QED
    BY <1>3, <2>1, <2>2, <2>3 DEF Stays
<1> QED
  BY <1>2, <1>3, ViewSteps

(* The slots during a lookup: none comes or goes, a name only vanishes.    *)
LEMMA NamesVanish ==
  ASSUME IInv, [PoolNext]_poolVars, NEW q \in Procs, q \in lock.readers
  PROVE  /\ Size' = Size
         /\ \A i \in 1..Size, n \in Names : slots'[i].name = n => slots[i].name = n
<1>1. lock.readers # {}
  OBVIOUS
<1>2. Size' = Size
  BY <1>1, ReadersWatch
<1>3. ASSUME NEW i \in 1..Size, NEW n \in Names, slots'[i].name = n
      PROVE  slots[i].name = n
  <2>1. i \in Nat
    BY SizeFacts DEF IInv
  <2> QED
    BY <1>1, <1>3, <2>1, ReadersSee, NoNameAssumption
<1> QED
  BY <1>2, <1>3

-----------------------------------------------------------------------------
(* get_vm and list_vms.                                                    *)

(* get_vm: a VM that was found to run ran, one that was passed did not     *)
(* run and is the only one of its name; what the second lookup passed has  *)
(* another name and will not get this one.                                 *)
GetFine(p) ==
  /\ view[p].phase = "first" /\ view[p].got # {} => "ok" \in Seen(p)
  /\ view[p].phase = "first" =>
       \A i \in 1..Size :
         i < view[p].at /\ i \notin view[p].got /\ slots[i].name = view[p].name
           => "conflict" \in Seen(p)
  /\ view[p].phase = "second" /\ view[p].got # {} => "conflict" \in Seen(p)
  /\ view[p].phase = "second" =>
       \A i \in 1..Size :
         /\ slots[i].name = view[p].name => "conflict" \in Seen(p)
         /\ i < view[p].at /\ i \notin view[p].got => slots[i].name # view[p].name

(* list_vms: what was collected ran, what was passed did not.              *)
ListFine(p) ==
  view[p].phase = "first" =>
    /\ \A i \in view[p].got : \E w \in Seen(p) : i \in w
    /\ \A i \in 1..Size :
         i < view[p].at /\ i \notin view[p].got => \E w \in Seen(p) : i \notin w

(* What is true of the VM in slot i. *)
LEMMA GetTruth ==
  ASSUME IInv, NEW p \in Readers, view[p].kind = "get", view[p].name \in Names
  PROVE  /\ \A i \in 1..Size : slots[i].name = view[p].name =>
              Truth(view[p]) = {IF Runs(slots[i]) THEN "ok" ELSE "conflict"}
         /\ (\A i \in 1..Size : slots[i].name # view[p].name) =>
              Truth(view[p]) = {"missing"}
<1>1. Truth(view[p]) = {IF HeldBy(view[p].name) = {} THEN "missing"
                        ELSE IF \E i \in HeldBy(view[p].name) : Runs(slots[i]) THEN "ok"
                        ELSE "conflict"}
  BY TruthIs
<1>2. ASSUME NEW i \in 1..Size, slots[i].name = view[p].name
      PROVE  HeldBy(view[p].name) = {i}
  <2>1. 1..Size \subseteq DOMAIN slots /\ view[p].name # NoName
    BY SizeFacts, NoNameAssumption DEF IInv
  <2> QED
    BY <1>2, <2>1 DEF HeldBy, IInv, NamesUnique
<1>3. ASSUME NEW i \in 1..Size, slots[i].name = view[p].name
      PROVE  Truth(view[p]) = {IF Runs(slots[i]) THEN "ok" ELSE "conflict"}
  <2>1. HeldBy(view[p].name) = {i}
    BY <1>2, <1>3
  <2> QED
    BY <1>1, <2>1
<1>4. ASSUME \A i \in 1..Size : slots[i].name # view[p].name
      PROVE  Truth(view[p]) = {"missing"}
  <2>1. HeldBy(view[p].name) = {}
    BY <1>4 DEF HeldBy
  <2> QED
    BY <1>1, <2>1
<1> QED
  BY <1>3, <1>4

(* get_vm looks on. *)
LEMMA GetKeeps ==
  ASSUME ReadInv, ReadInv', [ReadNext]_readVars, NEW p \in Readers,
         view'[p].kind = "get", view'[p].phase \in {"first", "second"},
         view[p].kind = "get" => GetFine(p)
  PROVE  GetFine(p)'
<1>1. /\ IInv /\ ReaderFine(p) /\ ReaderFine(p)' /\ p \in Procs
      /\ view[p] \in ViewRecords /\ view'[p] \in ViewRecords /\ [PoolNext]_poolVars
  BY ReaderAssumption, ReadStepFits DEF ReadInv, Procs
<1>2. /\ LookStep(p) \/ (Stays(p) /\ p \in lock.readers)
      /\ Seen(p) \subseteq Seen(p)'
  BY NothingForgotten
<1>3. view'[p].name \in Names /\ 1..Size \subseteq Nat
  BY <1>1, SizeFacts DEF ReaderFine, IInv
<1>4. CASE Stays(p) /\ p \in lock.readers
  <2>1. /\ Size' = Size
        /\ \A i \in 1..Size : slots'[i].name = view[p].name => slots[i].name = view[p].name
    BY <1>1, <1>3, <1>4, NamesVanish DEF Stays
  <2>2. /\ view[p].kind = "get" /\ view'[p].name = view[p].name
        /\ view'[p].phase = view[p].phase /\ view'[p].at = view[p].at
        /\ view'[p].got = view[p].got
    BY <1>4 DEF Stays
  <2>3. GetFine(p)
    BY <2>2
  <2> QED
    BY <1>2, <2>1, <2>2, <2>3 DEF GetFine
<1>5. CASE LookStep(p)
  <2>1. /\ slots' = slots /\ Size' = Size /\ view[p].kind = "get"
        /\ view'[p].name = view[p].name /\ Truth(view[p]) \subseteq Seen(p)'
    BY <1>5 DEF LookStep, slotVars, Size, Seen
  <2>2. GetFine(p)
    BY <2>1
  <2>3. CASE view'[p].at = 1 /\ view'[p].phase = "first"
    <3>1. view'[p].got = {}
      BY <1>1, <1>5, <2>3 DEF LookStep, ReaderFine, ViewRecords
    <3> QED
      BY <1>3, <2>1, <2>3, <3>1 DEF GetFine
  <2>4. CASE view[p].phase = "first" /\ view'[p].phase = "second"
    <3>1. /\ view[p].at > Size /\ view[p].got = {} /\ view'[p].at = 1 /\ view'[p].got = {}
          /\ view[p].at \in Nat
      BY <1>1, <1>5, <2>4 DEF LookStep, ViewRecords
    <3>2. \A i \in 1..Size : i < view[p].at /\ ~(i < 1)
      BY <1>1, <3>1, SizeFacts DEF IInv
    <3> QED
      BY <1>2, <2>1, <2>2, <2>4, <3>1, <3>2 DEF GetFine
  <2>5. CASE /\ view[p].phase \in {"first", "second"} /\ view'[p].phase = view[p].phase
             /\ view[p].at \in 1..Size /\ view'[p].at = view[p].at + 1
             /\ view'[p].got = PickedGot(p)
    <3> DEFINE a == view[p].at
    <3>1. /\ view[p].name \in Names
          /\ \A i \in 1..Size : i < a + 1 => i < a \/ i = a
      BY <1>1, <1>3, <2>1, <2>5, SizeFacts DEF IInv
    <3>2. slots[a].name = view[p].name =>
            Truth(view[p]) = {IF Runs(slots[a]) THEN "ok" ELSE "conflict"}
      BY <1>1, <2>1, <2>5, <3>1, GetTruth
    <3>3. /\ Picks(p) <=> /\ slots[a].name = view[p].name
                          /\ view[p].phase = "first" => Runs(slots[a])
          /\ view'[p].got = IF Picks(p) THEN view[p].got \cup {a} ELSE view[p].got
      BY <2>1, <2>5 DEF Picks, Collects, PickedGot
    <3> HIDE DEF a
    <3>4. CASE view[p].phase = "first"
      BY <1>2, <2>1, <2>2, <2>5, <3>1, <3>2, <3>3, <3>4 DEF GetFine, a
    <3>5. CASE view[p].phase = "second"
      BY <1>2, <2>1, <2>2, <2>5, <3>1, <3>3, <3>5 DEF GetFine, a
    <3> QED
      BY <2>5, <3>4, <3>5
  <2> QED
    BY <1>5, <2>3, <2>4, <2>5 DEF LookStep
<1> QED
  BY <1>2, <1>4, <1>5

(* list_vms looks on. *)
LEMMA ListKeeps ==
  ASSUME ReadInv, ReadInv', [ReadNext]_readVars, NEW p \in Readers,
         view'[p].kind = "list", view'[p].phase = "first",
         view[p].kind = "list" => ListFine(p)
  PROVE  ListFine(p)'
<1>1. /\ IInv /\ p \in Procs /\ [PoolNext]_poolVars /\ view[p] \in ViewRecords
  BY ReaderAssumption, ReadStepFits DEF ReadInv, Procs
<1>2. /\ LookStep(p) \/ (Stays(p) /\ p \in lock.readers)
      /\ Seen(p) \subseteq Seen(p)'
  BY NothingForgotten
<1>3. CASE Stays(p) /\ p \in lock.readers
  <2>1. Size' = Size
    BY <1>1, <1>3, NamesVanish
  <2> QED
    BY <1>2, <1>3, <2>1 DEF ListFine, Stays
<1>4. CASE LookStep(p)
  <2>1. /\ slots' = slots /\ Size' = Size /\ view[p].kind = "list"
        /\ Truth(view[p]) \subseteq Seen(p)'
    BY <1>4 DEF LookStep, slotVars, Size, Seen
  <2>2. ListFine(p)
    BY <2>1
  <2>3. CASE view[p].phase = "enter"
    <3>1. view'[p].at = 1 /\ view'[p].got = {}
      BY <1>4, <2>3 DEF LookStep
    <3>2. \A i \in 1..Size : ~(i < 1)
      BY <1>1, SizeFacts DEF IInv
    <3> QED
      BY <2>1, <3>1, <3>2 DEF ListFine
  <2>4. CASE view[p].phase # "enter"
    <3> DEFINE a == view[p].at
               now == {i \in 1..Size : Runs(slots[i])}
    <3>1. /\ view[p].phase = "first" /\ a \in 1..Size
          /\ view'[p].at = a + 1 /\ view'[p].got = PickedGot(p)
      BY <1>4, <2>4 DEF LookStep
    <3>2. \A i \in 1..Size : i < a + 1 => i < a \/ i = a
      BY <1>1, <3>1, SizeFacts DEF IInv
    <3>3. now \in Seen(p)' /\ (a \in now <=> Runs(slots[a]))
      BY <2>1, <3>1, TruthIs
    <3>4. view'[p].got = IF Runs(slots[a]) THEN view[p].got \cup {a} ELSE view[p].got
      BY <2>1, <3>1 DEF Picks, Collects, PickedGot
    <3> HIDE DEF a, now
    <3> QED
      BY <1>2, <2>1, <2>2, <3>1, <3>2, <3>3, <3>4 DEF ListFine, a
  <2> QED
    BY <2>3, <2>4
<1> QED
  BY <1>2, <1>3, <1>4

-----------------------------------------------------------------------------
(* health. *)

(* The idle slots that a handler has counted or is yet to count.           *)
Tally(p) == {i \in Empties : i >= view[p].at \/ i \in view[p].got}

Witnessed(p, k) == \E w \in Seen(p) : w.idle = k

(* Unless a slot failed or one that had was freed, what was counted is     *)
(* still idle, and whatever the tally may yet become was once true.        *)
CountFine(p) ==
  view[p].phase = "first" =>
    \/ \E v, w \in Seen(p) : v.failed # w.failed
    \/ /\ view[p].got \subseteq Empties
       /\ \A k \in Nat : Cardinality(Tally(p)) <= k /\ k <= Cardinality(Empties)
                           => Witnessed(p, k)

(* While somebody reads an idle slot stays idle or fails.                  *)
LEMMA IdleWatch ==
  ASSUME IInv, [PoolNext]_poolVars, lock.readers # {}
  PROVE  /\ Size' = Size
         /\ \/ Cardinality(Faileds') # Cardinality(Faileds)
            \/ Empties' = Empties
            \/ \E j \in Nat : j \notin Empties /\ Empties' = Empties \cup {j}
<1>1. Size' = Size /\ slots \in Seq(SlotRecords) /\ 1..Size \subseteq Nat
  BY ReadersWatch, SizeFacts DEF IInv, PoolTypeOK
<1>2. CASE slots' = slots
  BY <1>1, <1>2 DEF Empties
<1>3. ASSUME NEW j \in DOMAIN slots, NEW s \in SlotRecords,
             slots' = [slots EXCEPT ![j] = s],
             \/ s = FreshSlot
             \/ s.name = slots[j].name /\ (Tenanted(s) => Tenanted(slots[j]))
      PROVE  \/ Cardinality(Faileds') # Cardinality(Faileds)
             \/ Empties' = Empties
             \/ \E i \in Nat : i \notin Empties /\ Empties' = Empties \cup {i}
  <2>1. /\ slots'[j] = s /\ \A i \in 1..Size : i # j => slots'[i] = slots[i]
        /\ slots[j].state = "Empty" => s.state \in {"Empty", "Failed"}
    BY <1>1, <1>3 DEF Tenanted, FreshSlot, SlotRecords, States
  <2>2. CASE j \notin 1..Size
    BY <1>1, <2>1, <2>2 DEF Empties
  <2>3. CASE j \in 1..Size /\ slots[j].state = "Empty" /\ s.state = "Failed"
    <3>1. Faileds' = Faileds \cup {j} /\ j \notin Faileds
      BY <1>1, <2>1, <2>3 DEF Faileds
    <3>2. IsFiniteSet(Faileds) /\ Cardinality(Faileds) \in Nat
      BY SlotsFinite
    <3>3. Cardinality(Faileds') = Cardinality(Faileds) + 1
      BY <3>1, <3>2, FS_AddElement
    <3> QED
      BY <3>2, <3>3
  <2>4. CASE j \in 1..Size /\ (slots[j].state = "Empty" <=> s.state = "Empty")
    BY <1>1, <2>1, <2>4 DEF Empties
  <2>5. CASE j \in 1..Size /\ slots[j].state # "Empty" /\ s.state = "Empty"
    <3>1. Empties' = Empties \cup {j} /\ j \notin Empties /\ j \in Nat
      BY <1>1, <2>1, <2>5 DEF Empties
    <3> QED
      BY <3>1
  <2> QED
    BY <2>1, <2>2, <2>3, <2>4, <2>5
<1> QED
  BY <1>1, <1>2, <1>3, ReadersWatch

(* What health counts is bounded by the idle slots.                        *)
LEMMA TallyFinite ==
  ASSUME IInv, NEW p \in Readers
  PROVE  /\ Cardinality(Tally(p)) \in Nat
         /\ Cardinality(Tally(p)) <= Cardinality(Empties)
<1>1. IsFiniteSet(Empties) /\ Tally(p) \in SUBSET Empties
  BY SlotsFinite DEF Tally
<1> QED
  BY <1>1, FS_Subset, FS_CardinalityType

(* What is true now is in sight. *)
LEMMA CountTruth ==
  ASSUME NEW p \in Readers, view[p].kind = "health"
  PROVE  \E w \in Seen(p) : w.idle = Cardinality(Empties) /\ w.failed = Cardinality(Faileds)
<1> DEFINE w == [idle |-> Cardinality(Empties), failed |-> Cardinality(Faileds)]
<1>1. w \in Seen(p)
  BY TruthIs DEF Seen
<1> QED
  BY <1>1

(* The same of the next state. *)
LEMMA CountsNext ==
  ASSUME NEW p \in Readers, view'[p].kind = "health"
  PROVE  (\E w \in Seen(p) : /\ w.idle = Cardinality(Empties)
                             /\ w.failed = Cardinality(Faileds))'
<1> DEFINE w == [idle |-> Cardinality(Empties'), failed |-> Cardinality(Faileds')]
<1>1. Truth(view[p])' = {w}
  BY DEF Truth, Empties, Faileds, Quantify
<1>2. w \in Seen(p)'
  BY <1>1 DEF Seen
<1> QED
  BY <1>2

(* health counts on. *)
LEMMA CountKeeps ==
  ASSUME ReadInv, ReadInv', [ReadNext]_readVars, NEW p \in Readers,
         view'[p].kind = "health", view'[p].phase = "first",
         view[p].kind = "health" => CountFine(p)
  PROVE  CountFine(p)'
<1>1. /\ IInv /\ IInv' /\ p \in Procs /\ [PoolNext]_poolVars /\ view[p] \in ViewRecords
  BY ReaderAssumption, ReadStepFits DEF ReadInv, Procs
<1>2. /\ LookStep(p) \/ (Stays(p) /\ p \in lock.readers)
      /\ Seen(p) \subseteq Seen(p)'
  BY NothingForgotten
<1>3. /\ Cardinality(Tally(p)) \in Nat /\ Cardinality(Empties) \in Nat
      /\ IsFiniteSet(Empties)
  BY <1>1, TallyFinite, SlotsFinite
<1>4. CASE Stays(p) /\ p \in lock.readers
  <2>1. /\ view[p].kind = "health" /\ view[p].phase = "first"
        /\ view'[p].at = view[p].at /\ view'[p].got = view[p].got
    BY <1>4 DEF Stays
  <2>2. CountFine(p)
    BY <2>1
  <2>3. CASE \E v, w \in Seen(p) : v.failed # w.failed
    BY <1>2, <2>3 DEF CountFine
  <2>4. CASE Cardinality(Faileds') # Cardinality(Faileds)
    BY <1>2, <2>1, <2>4, CountTruth, CountsNext DEF CountFine
  <2>5. CASE /\ Empties' = Empties
             /\ view[p].got \subseteq Empties
             /\ \A k \in Nat : Cardinality(Tally(p)) <= k /\ k <= Cardinality(Empties)
                                 => Witnessed(p, k)
    <3>1. Tally(p)' = Tally(p)
      BY <2>1, <2>5 DEF Tally
    <3> QED
      BY <1>2, <2>1, <2>5, <3>1 DEF CountFine, Witnessed
  <2>6. ASSUME NEW j \in Nat, j \notin Empties, Empties' = Empties \cup {j},
               view[p].got \subseteq Empties,
               \A k \in Nat : Cardinality(Tally(p)) <= k /\ k <= Cardinality(Empties)
                                => Witnessed(p, k)
        PROVE  CountFine(p)'
    <3>1. /\ IsFiniteSet(Empties') /\ Cardinality(Empties') = Cardinality(Empties) + 1
      BY <1>3, <2>6, FS_AddElement
    <3>2. Tally(p) \subseteq Tally(p)' /\ Tally(p)' \subseteq Empties'
      BY <2>1, <2>6 DEF Tally
    <3>3. IsFiniteSet(Tally(p)')
      BY <3>1, <3>2, FS_Subset
    <3>4. /\ Cardinality(Tally(p)') \in Nat
          /\ Cardinality(Tally(p)) <= Cardinality(Tally(p)')
      BY <3>2, <3>3, FS_Subset, FS_CardinalityType
    <3>5. Witnessed(p, Cardinality(Empties))'
      BY <2>1, CountsNext DEF Witnessed
    <3>6. ASSUME NEW k \in Nat, Cardinality(Tally(p)') <= k, k <= Cardinality(Empties')
          PROVE  Witnessed(p, k)'
      <4>1. CASE k <= Cardinality(Empties)
        <5>1. Witnessed(p, k)
          BY <1>3, <2>6, <3>4, <3>6, <4>1
        <5> QED
          BY <1>2, <5>1 DEF Witnessed
      <4>2. CASE k = Cardinality(Empties')
        BY <3>5, <4>2 DEF Witnessed
      <4> QED
        BY <1>3, <3>1, <3>6, <4>1, <4>2
    <3>7. view'[p].got \subseteq Empties'
      BY <2>1, <2>6
    <3> QED
      BY <3>6, <3>7 DEF CountFine
  <2>7. lock.readers # {}
    BY <1>4
  <2> QED
    BY <1>1, <2>1, <2>2, <2>3, <2>4, <2>5, <2>6, <2>7, IdleWatch DEF CountFine
<1>5. CASE LookStep(p)
  <2>1. /\ slots' = slots /\ Size' = Size /\ view[p].kind = "health"
        /\ Empties' = Empties
    BY <1>5 DEF LookStep, slotVars, Size, Empties
  <2>2. CountFine(p)
    BY <2>1
  <2>3. CASE view[p].phase = "enter"
    <3>1. view'[p].at = 1 /\ view'[p].got = {}
      BY <1>5, <2>3 DEF LookStep
    <3>2. \A i \in Empties : i >= 1
      BY <1>1, SizeFacts DEF IInv, Empties
    <3>3. Tally(p)' = Empties
      BY <2>1, <3>1, <3>2 DEF Tally
    <3>4. Witnessed(p, Cardinality(Empties))'
      BY <1>2, <2>1, CountTruth DEF Witnessed
    <3>5. ASSUME NEW k \in Nat, Cardinality(Tally(p)') <= k, k <= Cardinality(Empties')
          PROVE  Witnessed(p, k)'
      <4>1. k = Cardinality(Empties)
        BY <1>3, <2>1, <3>3, <3>5
      <4> QED
        BY <2>1, <3>4, <4>1 DEF Witnessed
    <3> QED
      BY <3>1, <3>5 DEF CountFine
  <2>4. CASE view[p].phase # "enter"
    <3> DEFINE a == view[p].at
    <3>1. /\ view[p].phase = "first" /\ a \in 1..Size /\ a \in Nat
          /\ view'[p].at = a + 1 /\ view'[p].got = PickedGot(p)
      BY <1>1, <1>5, <2>1, <2>4 DEF LookStep, ViewRecords
    <3>2. view'[p].got = IF a \in Empties THEN view[p].got \cup {a} ELSE view[p].got
      BY <2>1, <3>1 DEF Picks, Collects, PickedGot, Empties
    <3>3. \A i \in Empties : i >= a <=> i = a \/ i >= a + 1
      BY <1>1, <3>1, SizeFacts DEF IInv, Empties
    <3>4. Tally(p)' = Tally(p)
      BY <2>1, <3>1, <3>2, <3>3 DEF Tally
    <3> HIDE DEF a
    <3> QED
      BY <1>2, <2>1, <2>2, <3>1, <3>2, <3>4 DEF CountFine, Witnessed
  <2> QED
    BY <2>3, <2>4
<1> QED
  BY <1>2, <1>4, <1>5

-----------------------------------------------------------------------------
(* vm_metrics. *)

(* A pid, once found, is that of the VMM of slot from, which runs the VM   *)
(* of the name until that VMM is gone; and while it is not, no other slot  *)
(* has the name, so that the counters are its own.                         *)
MetricFine(p) ==
  view[p].phase # "done" =>
    /\ view[p].phase \in {"pid", "ask", "request", "process"} \/ view[p].got # {}
         => view[p].from # 0
    /\ view[p].from # 0 /\ view[p].gone = "no" =>
         /\ view[p].from \in DOMAIN slots
         /\ slots[view[p].from].name = view[p].name /\ Runs(slots[view[p].from])
    /\ view[p].phase = "process" /\ view[p].gone = "no" => view[p].at = view[p].from

(* As long as its VMM is not gone, a slot that runs a VM keeps it.         *)
LEMMA TenantStays ==
  ASSUME IInv, [PoolNext]_poolVars, NEW i \in DOMAIN slots, Runs(slots[i]),
         i \in DOMAIN slots', slots'[i].proc # "none"
  PROVE  slots'[i].name = slots[i].name /\ Runs(slots'[i])
<1>0. slots \in Seq(SlotRecords) /\ Len(slots) \in Nat /\ DOMAIN slots = 1..Len(slots)
  BY SizeFacts DEF IInv, PoolTypeOK
<1>1. ASSUME NEW j \in DOMAIN slots, NEW s \in SlotRecords, OneSlotMoves(j, s)
      PROVE  slots'[i].name = slots[i].name /\ Runs(slots'[i])
  <2>1. slots'[i] = IF i = j THEN s ELSE slots[i]
    BY <1>1 DEF OneSlotMoves
  <2> QED
    BY <1>1, <2>1 DEF OneSlotMoves, Runs, FreshSlot
<1>2. CASE slots' = Append(slots, FreshSlot)
  BY <1>0, <1>2
<1>3. CASE slots' = SubSeq(slots, 1, Len(slots) - 1) /\ slots # <<>>
  BY <1>0, <1>3
<1>4. CASE SlotsStay
  BY <1>4 DEF SlotsStay
<1> QED
  BY <1>1, <1>2, <1>3, <1>4, SlotSteps

(* vm_metrics goes on. *)
LEMMA MetricKeeps ==
  ASSUME ReadInv, ReadInv', [ReadNext]_readVars, NEW p \in Readers,
         view'[p].kind = "metrics", view'[p].phase # "done",
         view[p].kind = "metrics" => MetricFine(p)
  PROVE  MetricFine(p)'
<1>1. /\ IInv /\ ReaderFine(p) /\ ReaderFine(p)' /\ [PoolNext]_poolVars
      /\ view[p] \in ViewRecords /\ view'[p] \in ViewRecords
      /\ view \in [Readers -> ViewRecords]
  BY ReadStepFits DEF ReadInv
<1>2. CASE Stays(p)
  <2>1. /\ view[p].kind = "metrics" /\ view[p].phase # "done"
        /\ view'[p].at = view[p].at /\ view'[p].from = view[p].from
        /\ view'[p].got = view[p].got /\ view'[p].phase = view[p].phase
        /\ view'[p].name = view[p].name
    BY <1>2 DEF Stays
  <2>2. MetricFine(p)
    BY <2>1
  <2>3. CASE UNCHANGED slotVars /\ view'[p] = view[p]
    BY <2>2, <2>3 DEF MetricFine, slotVars
  <2>4. CASE view[p].phase = "enter"
    BY <1>1, <2>1, <2>4 DEF MetricFine, ReaderFine
  <2>5. CASE view'[p].gone = Fate(view[p])
    <3>1. ASSUME view[p].from # 0, view'[p].gone = "no"
          PROVE  /\ view[p].gone = "no" /\ view[p].from \in DOMAIN slots'
                 /\ slots'[view[p].from].proc # "none"
      BY <2>5, <3>1 DEF Fate
    <3>2. ASSUME view[p].from # 0, view'[p].gone = "no"
          PROVE  /\ view[p].from \in DOMAIN slots'
                 /\ slots'[view[p].from].name = view[p].name
                 /\ Runs(slots'[view[p].from])
      BY <1>1, <2>1, <2>2, <3>1, <3>2, TenantStays DEF MetricFine
    <3>3. view'[p].phase = "process" /\ view'[p].gone = "no" => view[p].at = view[p].from
      BY <2>1, <2>2, <3>1 DEF MetricFine
    <3> QED
      BY <2>1, <2>2, <3>2, <3>3 DEF MetricFine
  <2> QED
    BY <1>2, <2>1, <2>3, <2>4, <2>5 DEF Stays
<1>3. CASE view'[p].phase = "enter"
  BY <1>1, <1>3 DEF MetricFine, ReaderFine
<1>4. CASE Own(p) /\ view'[p].phase = "first"
  <2>1. /\ LookStep(p) /\ slots' = slots /\ view[p].kind = "metrics"
        /\ view'[p].gone = view[p].gone /\ view'[p].name = view[p].name
    BY <1>4, LookMoves DEF LookStep, slotVars
  <2>2. MetricFine(p)
    BY <2>1
  <2>3. CASE view[p].phase = "enter"
    BY <1>4, <2>1, <2>3 DEF LookStep, MetricFine
  <2>4. CASE view[p].phase # "enter"
    <3> DEFINE a == view[p].at
    <3>1. /\ view[p].phase = "first" /\ a \in 1..Size
          /\ view'[p].got = PickedGot(p) /\ view'[p].from = PickedFrom(p)
      BY <1>4, <2>1, <2>4 DEF LookStep
    <3>2. a # 0 /\ a \in DOMAIN slots
      BY <1>1, <3>1, SizeFacts DEF IInv
    <3>3. Picks(p) => slots[a].name = view[p].name /\ Runs(slots[a])
      BY <2>1, <3>1 DEF Picks, Collects
    <3>4. CASE Picks(p) /\ view[p].from = 0
      <4>1. view'[p].from = a
        BY <2>1, <3>1, <3>4 DEF PickedFrom
      <4> HIDE DEF a
      <4> QED
        BY <1>4, <2>1, <3>2, <3>3, <3>4, <4>1 DEF MetricFine
    <3>5. CASE Picks(p) /\ view[p].from # 0
      <4>1. view'[p].from = view[p].from
        BY <3>1, <3>5 DEF PickedFrom
      <4> QED
        BY <1>4, <2>1, <2>2, <3>1, <3>5, <4>1 DEF MetricFine
    <3>6. CASE ~Picks(p)
      <4>1. view'[p].from = view[p].from /\ view'[p].got = view[p].got
        BY <3>1, <3>6 DEF PickedFrom, PickedGot
      <4> QED
        BY <1>4, <2>1, <2>2, <3>1, <4>1 DEF MetricFine
    <3> QED
      BY <3>4, <3>5, <3>6
  <2> QED
    BY <2>3, <2>4
<1>5. ASSUME NEW v, MetricSteps(p, v) PROVE MetricFine(p)'
  <2>1. /\ view[p].kind = "metrics" /\ view[p].phase # "done"
    BY <1>1, <1>5 DEF MetricSteps, ReaderFine
  <2>2. /\ view'[p].kind = v.kind /\ view'[p].name = v.name
        /\ view'[p].phase = v.phase /\ view'[p].at = v.at /\ view'[p].got = v.got
        /\ view'[p].from = v.from /\ view'[p].gone = v.gone /\ slots' = slots
    BY <1>1, <1>5, <2>1, SeesNow DEF MetricSteps, Kinds, slotVars
  <2>3. MetricFine(p) /\ view[p].name \in Names
    BY <1>1, <2>1 DEF ReaderFine
  <2>4. ASSUME v.phase = "process", v.gone = "no" PROVE v.at = v.from
    <3>1. /\ view[p].phase = "request" /\ v.at \in 1..Size
          /\ slots[v.at].name = view[p].name /\ v.from = view[p].from
          /\ view[p].gone = "no"
      BY <1>5, <2>4 DEF MetricSteps
    <3>2. view[p].from \in DOMAIN slots /\ slots[view[p].from].name = view[p].name
      BY <2>1, <2>3, <3>1 DEF MetricFine
    <3>3. v.at \in DOMAIN slots
      BY <1>1, <3>1, SizeFacts DEF IInv
    <3> QED
      BY <1>1, <2>3, <3>1, <3>2, <3>3, NoNameAssumption DEF IInv, NamesUnique
  <2>5. view[p].from # 0
    BY <1>5, <2>1, <2>3 DEF MetricFine, MetricSteps
  <2> QED
    BY <1>5, <2>1, <2>2, <2>3, <2>4, <2>5 DEF MetricFine, MetricSteps
<1>6. CASE Own(p) /\ view'[p].phase # "first"
  <2>1. CASE PidFound(p) \/ AsksAgain(p) \/ AsksCounters(p) \/ CountersRead(p)
    BY <1>1, <1>5, <2>1, MetricsGoOn
  <2>2. CASE \/ ViewDropped(p) \/ Counts(p) \/ GetsRunning(p) \/ GetsOther(p)
             \/ PidMissing(p) \/ CountersRefused(p) \/ ProcessRead(p) \/ ProcessFails(p)
    BY <2>2, AnswersWhere, EndMoves DEF Reading
  <2>3. CASE \/ \E k \in {"health", "list"} : ViewBegins(p, k, NoName)
             \/ \E k \in {"get", "metrics"}, n \in Names : ViewBegins(p, k, n)
    <3>1. PICK k \in Kinds, n \in Names \cup {NoName} : ViewBegins(p, k, n)
      BY <2>3 DEF Kinds
    <3>2. view'[p].phase = "enter"
      BY <1>1, <3>1 DEF ViewBegins, NoView
    <3> QED
      BY <1>3, <3>2
  <2>4. CASE ViewEnters(p) \/ Looks(p) \/ LooksAgain(p)
    <3>1. view'[p].phase \in {"first", "second"}
      <4>1. ASSUME NEW v \in ViewRecords, v.phase \in {"first", "second"}, Views(p, v)
            PROVE  view'[p].phase \in {"first", "second"}
        BY <1>1, <4>1 DEF Views, ViewRecords
      <4>2. CASE ViewEnters(p)
        <5>1. Views(p, Entering(p))
          BY <4>2 DEF ViewEnters, Entering
        <5>2. Entering(p) \in ViewRecords /\ Entering(p).phase = "first"
          BY <1>1, LookViews
        <5> QED
          BY <4>1, <5>1, <5>2
      <4>3. CASE Looks(p)
        <5>1. Views(p, Looking(p)) /\ view[p].phase \in {"first", "second"}
          BY <1>1, <4>3, LooksAt DEF Looks
        <5>2. Looking(p) \in ViewRecords /\ Looking(p).phase = view[p].phase
          BY <1>1, LookViews
        <5> QED
          BY <4>1, <5>1, <5>2
      <4>4. CASE LooksAgain(p)
        <5>1. Views(p, Again(p))
          BY <4>4 DEF LooksAgain, Again
        <5>2. Again(p) \in ViewRecords /\ Again(p).phase = "second"
          BY <1>1, LookViews
        <5> QED
          BY <4>1, <5>1, <5>2
      <4> QED
        BY <2>4, <4>2, <4>3, <4>4
    <3> QED
      BY <1>1, <1>6, <3>1 DEF ReaderFine
  <2> QED
    BY <1>6, <2>1, <2>2, <2>3, <2>4 DEF Own, ReadStep
<1> QED
  BY <1>2, <1>4, <1>6, ViewSteps

-----------------------------------------------------------------------------
(* The answers.                                                            *)

FineInv ==
  \A p \in Readers :
    /\ view[p].kind = "get" => GetFine(p)
    /\ view[p].kind = "list" => ListFine(p)
    /\ view[p].kind = "health" => CountFine(p)
    /\ view[p].kind = "metrics" => MetricFine(p)

(* Nobody reads when the daemon begins to serve. *)
LEMMA FineInit == ReadInit => FineInv
BY DEF ReadInit, FineInv, NoView

(* Every step leaves every handler with what it has found explained. *)
LEMMA FineStep ==
  ASSUME ReadInv, FineInv, [ReadNext]_readVars
  PROVE  FineInv'
<1>0. ReadInv'
  BY ReadStepFits
<1> SUFFICES ASSUME NEW p \in Readers
             PROVE  /\ view'[p].kind = "get" => GetFine(p)'
                    /\ view'[p].kind = "list" => ListFine(p)'
                    /\ view'[p].kind = "health" => CountFine(p)'
                    /\ view'[p].kind = "metrics" => MetricFine(p)'
  BY DEF FineInv
<1>1. ASSUME view'[p].kind = "get" PROVE GetFine(p)'
  <2>1. CASE view'[p].phase \in {"first", "second"}
    BY <1>0, <1>1, <2>1, GetKeeps DEF FineInv
  <2>2. CASE view'[p].phase \notin {"first", "second"}
    BY <2>2 DEF GetFine
  <2> QED
    BY <2>1, <2>2
<1>2. ASSUME view'[p].kind = "list" PROVE ListFine(p)'
  <2>1. CASE view'[p].phase = "first"
    BY <1>0, <1>2, <2>1, ListKeeps DEF FineInv
  <2>2. CASE view'[p].phase # "first"
    BY <2>2 DEF ListFine
  <2> QED
    BY <2>1, <2>2
<1>3. ASSUME view'[p].kind = "health" PROVE CountFine(p)'
  <2>1. CASE view'[p].phase = "first"
    BY <1>0, <1>3, <2>1, CountKeeps DEF FineInv
  <2>2. CASE view'[p].phase # "first"
    BY <2>2 DEF CountFine
  <2> QED
    BY <2>1, <2>2
<1>4. ASSUME view'[p].kind = "metrics" PROVE MetricFine(p)'
  <2>1. CASE view'[p].phase # "done"
    BY <1>0, <1>4, <2>1, MetricKeeps DEF FineInv
  <2>2. CASE view'[p].phase = "done"
    BY <2>2 DEF MetricFine
  <2> QED
    BY <2>1, <2>2
<1> QED
  BY <1>1, <1>2, <1>3, <1>4

(* What a handler found is explained by what was true while it looked.     *)
THEOREM ReadersWereFine == ReadSpec => []FineInv
<1>1. ReadInv /\ FineInv /\ [ReadNext]_readVars => FineInv'
  BY FineStep
<1> QED
  BY <1>1, FineInit, ReadInvariance, PTL DEF ReadSpec

(* The step with which a handler answers, and its answer. *)
LEMMA AnswerSteps ==
  ASSUME ReadInv, [ReadNext]_readVars, NEW p \in Readers, Reading(p),
         view'[p].answer # "none"
  PROVE  /\ \/ Counts(p) \/ GetsRunning(p) \/ GetsOther(p) \/ PidMissing(p)
            \/ CountersRefused(p) \/ ProcessRead(p) \/ ProcessFails(p)
         /\ \A a \in {"ok", "missing", "conflict", "failed"} :
              Answered(p, a) => view'[p].answer = a
         /\ view[p].phase \in {"request", "process"} => view[p].kind = "metrics"
<1>1. /\ ReaderFine(p) /\ view \in [Readers -> ViewRecords] /\ view[p] \in ViewRecords
      /\ IInv /\ view[p].answer = "none"
  BY DEF ReadInv, ReaderFine, Reading
<1>2. ASSUME NEW v \in ViewRecords, Views(p, v), v.answer = "none" PROVE FALSE
  <2>1. view'[p].answer = v.answer
    BY <1>1, <1>2 DEF Views, ViewRecords
  <2> QED
    BY <1>2, <2>1
<1>3. Own(p)
  BY <1>1, ViewSteps DEF Stays
<1>4. ~(\/ \E k \in {"health", "list"} : ViewBegins(p, k, NoName)
        \/ \E k \in {"get", "metrics"}, n \in Names : ViewBegins(p, k, n))
  BY DEF ViewBegins
<1>5. ~ViewDropped(p)
  BY <1>1 DEF ViewDropped, NoView
<1>6. ASSUME ViewEnters(p) PROVE FALSE
  <2>1. Views(p, Entering(p))
    BY <1>6 DEF ViewEnters, Entering
  <2>2. Entering(p) \in ViewRecords /\ Entering(p).answer = "none"
    BY <1>1, LookViews
  <2> QED
    BY <1>2, <2>1, <2>2
<1>7. ASSUME Looks(p) PROVE FALSE
  <2>1. Views(p, Looking(p))
    BY <1>1, <1>7, LooksAt
  <2>2. Looking(p) \in ViewRecords /\ Looking(p).answer = "none"
    BY <1>1, LookViews
  <2> QED
    BY <1>2, <2>1, <2>2
<1>8. ASSUME LooksAgain(p) PROVE FALSE
  <2>1. Views(p, Again(p))
    BY <1>8 DEF LooksAgain, Again
  <2>2. Again(p) \in ViewRecords /\ Again(p).answer = "none"
    BY <1>1, LookViews
  <2> QED
    BY <1>2, <2>1, <2>2
<1>9. ASSUME PidFound(p) \/ AsksAgain(p) \/ AsksCounters(p) \/ CountersRead(p)
      PROVE  FALSE
  <2>1. PICK v : MetricSteps(p, v)
    BY <1>1, <1>9, MetricsGoOn
  <2> QED
    BY <1>1, <1>2, <2>1 DEF MetricSteps
<1>10. ASSUME NEW a \in {"ok", "missing", "conflict", "failed"}, Answered(p, a)
       PROVE  view'[p].answer = a
  BY <1>1, <1>10 DEF Answered, NoView
<1> QED
  BY <1>1, <1>3, <1>4, <1>5, <1>6, <1>7, <1>8, <1>9, <1>10 DEF Own, ReadStep, ReaderFine

(* get_vm answers what was true of its VM at one moment while it read, for *)
(* any number of slots, names and requests.                                *)
THEOREM GetIsTrue == ReadSpec => GetAnswersWereTrue
<1>1. ASSUME ReadInv, FineInv, [ReadNext]_readVars, NEW p \in Readers,
             Answers(p, {"get"})
      PROVE  view'[p].answer \in Seen(p)
  <2>1. /\ ReaderFine(p) /\ GetFine(p) /\ IInv /\ view[p] \in ViewRecords
        /\ Reading(p) /\ view[p].kind = "get" /\ view'[p].answer # "none"
    BY <1>1 DEF ReadInv, FineInv, Answers
  <2>2. CASE GetsRunning(p)
    <3>1. view'[p].answer = "ok"
      BY <1>1, <2>1, <2>2, AnswerSteps DEF GetsRunning
    <3> QED
      BY <2>1, <2>2, <3>1 DEF GetsRunning, Looked, GetFine
  <2>3. CASE GetsOther(p) /\ view[p].got # {}
    <3>1. view'[p].answer = "conflict"
      BY <1>1, <2>1, <2>3, AnswerSteps DEF GetsOther
    <3> QED
      BY <2>1, <2>3, <3>1 DEF GetsOther, Looked, GetFine
  <2>4. CASE GetsOther(p) /\ view[p].got = {}
    <3>1. view'[p].answer = "missing"
      BY <1>1, <2>1, <2>4, AnswerSteps DEF GetsOther
    <3>2. view[p].phase = "second" /\ view[p].at > Size /\ view[p].at \in Nat
      BY <2>1, <2>4 DEF GetsOther, Looked, ViewRecords
    <3>3. \A i \in 1..Size : i < view[p].at
      BY <2>1, <3>2, SizeFacts DEF IInv
    <3>4. \A i \in 1..Size : slots[i].name # view[p].name
      BY <2>1, <2>4, <3>2, <3>3 DEF GetFine
    <3>5. Truth(view[p]) = {"missing"}
      BY <2>1, <3>4, GetTruth DEF ReaderFine, Reading
    <3> QED
      BY <3>1, <3>5 DEF Seen
  <2>5. GetsRunning(p) \/ GetsOther(p)
    BY <1>1, <2>1, AnswerSteps DEF Counts, PidMissing, Looked, CountersRefused,
         ProcessRead, ProcessFails
  <2> QED
    BY <2>2, <2>3, <2>4, <2>5
<1>2. ReadInv /\ FineInv /\ [ReadNext]_readVars
        => [\A p \in Readers : Answers(p, {"get"}) => view'[p].answer \in Seen(p)]_readVars
  BY <1>1
<1> QED
  BY <1>2, ReadInvariance, ReadersWereFine, PTL DEF ReadSpec, GetAnswersWereTrue

(* list_vms and health answer by what they have collected. *)
LEMMA CountsWhere ==
  ASSUME ReadInv, [ReadNext]_readVars, NEW p \in Readers, NEW k \in {"health", "list"},
         Answers(p, {k})
  PROVE  /\ view[p].kind = k /\ view[p].phase = "first"
         /\ \A i \in 1..Size : i < view[p].at
<1>1. IInv /\ view[p] \in ViewRecords /\ Reading(p) /\ view'[p].answer # "none"
      /\ view[p].kind = k
  BY DEF ReadInv, Answers
<1>2. Counts(p)
  BY <1>1, AnswerSteps DEF GetsRunning, GetsOther, PidMissing, Looked,
       CountersRefused, ProcessRead, ProcessFails
<1>3. view[p].phase = "first" /\ view[p].at > Size /\ view[p].at \in Nat
  BY <1>1, <1>2 DEF Counts, Looked, ViewRecords
<1> QED
  BY <1>1, <1>3, SizeFacts DEF IInv

(* list_vms misses no VM that ran while it read, and lists none that did   *)
(* not run at some moment of that.                                         *)
THEOREM ListIsComplete == ReadSpec => ListMissesNoVm
<1> DEFINE Complete(p) ==
             /\ \A i \in 1..MaxSize : (\A w \in Seen(p) : i \in w) => i \in view[p].got
             /\ \A i \in view[p].got : \E w \in Seen(p) : i \in w
<1>1. ASSUME ReadInv, FineInv, [ReadNext]_readVars, NEW p \in Readers,
             Answers(p, {"list"})
      PROVE  Complete(p)
  <2>1. /\ view[p].kind = "list" /\ view[p].phase = "first"
        /\ \A i \in 1..Size : i < view[p].at
    BY <1>1, CountsWhere
  <2>2. ListFine(p)
    BY <1>1, <2>1 DEF FineInv
  <2>3. {i \in 1..Size : Runs(slots[i])} \in Seen(p)
    BY <2>1, TruthIs DEF Seen
  <2>4. ASSUME NEW i \in 1..MaxSize, \A w \in Seen(p) : i \in w
        PROVE  i \in view[p].got
    <3>1. i \in 1..Size
      BY <2>3, <2>4
    <3> QED
      BY <2>1, <2>2, <2>4, <3>1 DEF ListFine
  <2> QED
    BY <2>1, <2>2, <2>4 DEF ListFine
<1>2. ReadInv /\ FineInv /\ [ReadNext]_readVars
        => [\A p \in Readers : Answers(p, {"list"}) => Complete(p)]_readVars
  BY <1>1
<1> QED
  BY <1>2, ReadInvariance, ReadersWereFine, PTL DEF ReadSpec, ListMissesNoVm

(* health answers a number of idle slots that was right at one moment,     *)
(* unless a slot failed or a failed one was freed while it counted.        *)
THEOREM CountIsTrue == ReadSpec => CountsWereTrue
<1> DEFINE Right(p) ==
             \/ \E v, w \in Seen(p) : v.failed # w.failed
             \/ \E w \in Seen(p) : w.idle = Cardinality(view[p].got)
<1>1. ASSUME ReadInv, FineInv, [ReadNext]_readVars, NEW p \in Readers,
             Answers(p, {"health"})
      PROVE  Right(p)
  <2>1. /\ view[p].kind = "health" /\ view[p].phase = "first"
        /\ \A i \in 1..Size : i < view[p].at
    BY <1>1, CountsWhere
  <2>2. CountFine(p) /\ IInv /\ view[p] \in ViewRecords
    BY <1>1, <2>1 DEF FineInv, ReadInv
  <2>3. CASE \E v, w \in Seen(p) : v.failed # w.failed
    BY <2>3
  <2>4. CASE /\ view[p].got \subseteq Empties
             /\ \A k \in Nat : Cardinality(Tally(p)) <= k /\ k <= Cardinality(Empties)
                                 => Witnessed(p, k)
    <3>1. \A i \in Empties : ~(i >= view[p].at)
      BY <2>1, <2>2, SizeFacts DEF Empties, IInv, ViewRecords
    <3>2. Tally(p) = view[p].got
      BY <2>4, <3>1 DEF Tally
    <3>3. Witnessed(p, Cardinality(view[p].got))
      BY <2>2, <2>4, <3>2, TallyFinite
    <3> QED
      BY <3>3 DEF Witnessed
  <2> QED
    BY <2>1, <2>2, <2>3, <2>4 DEF CountFine
<1>2. ReadInv /\ FineInv /\ [ReadNext]_readVars
        => [\A p \in Readers : Answers(p, {"health"}) => Right(p)]_readVars
  BY <1>1
<1> QED
  BY <1>2, ReadInvariance, ReadersWereFine, PTL DEF ReadSpec, CountsWereTrue

(* vm_metrics never answers with the counters of one VMM and the process   *)
(* of another, unless the child of the first could not be polled.          *)
THEOREM MetricsAreOfOneVmm == ReadSpec => MetricsOfOneVmm
<1> DEFINE OneVmm(p) == \/ view[p].gone = "no" /\ view[p].at = view[p].from
                        \/ view[p].gone = "loose"
<1>1. ASSUME ReadInv, FineInv, [ReadNext]_readVars, NEW p \in Readers,
             Answers(p, {"metrics"}) /\ view'[p].answer = "ok"
      PROVE  OneVmm(p)
  <2>1. /\ MetricFine(p) /\ Reading(p) /\ view[p].kind = "metrics"
        /\ view[p] \in ViewRecords /\ view'[p].answer = "ok"
    BY <1>1 DEF ReadInv, FineInv, Answers
  <2>2. ProcessRead(p)
    <3>1. ~(Counts(p) \/ GetsRunning(p) \/ GetsOther(p))
      BY <2>1 DEF Counts, GetsRunning, GetsOther, Looked
    <3>2. \A a \in {"ok", "missing", "conflict", "failed"} : Answered(p, a) => a = "ok"
      BY <1>1, <2>1, AnswerSteps
    <3>3. ~(PidMissing(p) \/ CountersRefused(p) \/ ProcessFails(p))
      BY <3>2 DEF PidMissing, CountersRefused, ProcessFails
    <3> QED
      BY <1>1, <2>1, <3>1, <3>3, AnswerSteps
  <2>3. view[p].phase = "process" /\ view[p].gone \in {"no", "loose"}
    BY <2>1, <2>2 DEF ProcessRead, ViewRecords
  <2> QED
    BY <2>1, <2>3 DEF MetricFine
<1>2. ReadInv /\ FineInv /\ [ReadNext]_readVars
        => [\A p \in Readers : Answers(p, {"metrics"}) /\ view'[p].answer = "ok"
              => OneVmm(p)]_readVars
  BY <1>1
<1> QED
  BY <1>2, ReadInvariance, ReadersWereFine, PTL DEF ReadSpec, MetricsOfOneVmm

=============================================================================
