-------------------------- MODULE ProcessPoolProofs --------------------------
(***************************************************************************)
(* The safety of ProcessPool for every number of requests, names and slots *)
(* and every set of faults.  NamesUnique is not inductive: it rests on the *)
(* name having been looked for in every slot (ScanInv), which stays true   *)
(* because whoever is inside allocate_vm_slot holds the write lock alone   *)
(* (LockInv) and the slots' workers only ever take names away.             *)
(***************************************************************************)
EXTENDS ProcessPool, SequenceTheorems, TLAPS

(* p is inside allocate_vm_slot. *)
Allocating(p) == alloc[p].phase \in {"name", "empty", "reserve"}

(* What holding the lock for writing means for each task. *)
LockInv ==
  /\ lock.writer # NoProc => lock.readers = {}
  /\ \A p \in Requests : Allocating(p) => lock.writer = p
  /\ scaler \in {"pop", "join"} => lock.writer = Autoscaler
  /\ daemon = "stop" => lock.writer = Main
  /\ joiner = Autoscaler => scaler = "join"
  /\ joiner = Main => daemon = "stop"

(* How far a call of allocate_vm_slot has looked, and what it knows. *)
ScanInv ==
  \A p \in Requests :
    /\ alloc[p].phase = "queued" \/ Allocating(p) => alloc[p].name \in Names
    /\ Allocating(p) => alloc[p].at \in 1..Size /\ alloc[p].hit <= Size
    /\ alloc[p].phase = "name" /\ alloc[p].hit = 0
         => \A i \in 1..(alloc[p].at - 1) : slots[i].name # alloc[p].name

(* The pool is above its minimum when a slot is popped, and shutdown is    *)
(* broadcast by a main that has seen the last request leave.               *)
TaskInv ==
  /\ scaler = "pop" => Size > MinSize
  /\ shutdown = "sent" <=> daemon \in {"stop", "exit"}
  /\ ~Serving => \A p \in Requests : ~Engaged(p)

IInv ==
  /\ PoolTypeOK
  /\ LockInv
  /\ ScanInv
  /\ TaskInv
  /\ NamesUnique
  /\ NameStaysFree
  /\ PoolBounded

-----------------------------------------------------------------------------
(* Facts about the state. *)

(* Nobody is joining while a request is inside allocate_vm_slot.           *)
LEMMA NobodyJoins ==
  ASSUME IInv, NEW p \in Requests, Allocating(p)
  PROVE  /\ joiner = NoProc /\ Size = Len(slots)
         /\ lock.writer = p
         /\ \A q \in Requests \ {p} : ~Allocating(q)
<1>1. lock.writer = p /\ p # Autoscaler /\ p # Main /\ p # NoProc
  BY ProcAssumption DEF IInv, LockInv, Procs
<1>2. joiner = NoProc
  BY <1>1 DEF IInv, LockInv, PoolTypeOK
<1> QED
  BY <1>1, <1>2 DEF Size, IInv, LockInv, PoolTypeOK

(* The number of slots. *)
LEMMA SizeFacts ==
  ASSUME PoolTypeOK
  PROVE  /\ Len(slots) \in Nat /\ DOMAIN slots = 1..Len(slots)
         /\ Size \in Nat /\ Size <= Len(slots) /\ Len(slots) <= MaxSize
         /\ joiner = NoProc => Size = Len(slots)
         /\ joiner # NoProc => Size = Len(slots) - 1
BY DEF PoolTypeOK, Size

(* The operators of the lock keep its type.                                *)
LEMMA LockTyped ==
  ASSUME NEW l \in Locks(Procs), NEW p \in Procs, NEW m \in {"read", "write"}
  PROVE  /\ Asked(l, p, m) \in Locks(Procs)
         /\ l.queue # <<>> => Entered(l, p, m) \in Locks(Procs)
         /\ Left(l, p) \in Locks(Procs)
         /\ Forgotten(l, p) \in Locks(Procs)
<1> DEFINE E == [who : Procs, mode : {"read", "write"}]
<1>0. l.queue \in Seq(E)
  BY DEF Locks
<1>1. Asked(l, p, m) \in Locks(Procs)
  <2>1. Append(l.queue, [who |-> p, mode |-> m]) \in Seq(E)
    BY <1>0
  <2> QED
    BY <2>1 DEF Asked, Locks
<1>2. l.queue # <<>> => Entered(l, p, m) \in Locks(Procs)
  <2>1. l.queue # <<>> => Tail(l.queue) \in Seq(E)
    BY <1>0
  <2> QED
    BY <2>1 DEF Entered, Locks
<1>3. Left(l, p) \in Locks(Procs) /\ Left(l, p).queue = l.queue
  BY DEF Left, Locks
<1>4. Forgotten(l, p) \in Locks(Procs)
  <2> DEFINE k == CHOOSE j \in DOMAIN l.queue : l.queue[j].who = p
             q == SubSeq(l.queue, 1, k - 1) \o SubSeq(l.queue, k + 1, Len(l.queue))
  <2>1. CASE Waits(l, p)
    <3>1. k \in 1..Len(l.queue)
      BY <1>0, <2>1 DEF Waits
    <3> HIDE DEF k
    <3>2. SubSeq(l.queue, 1, k - 1) \in Seq(E)
      <4> HIDE DEF E
      <4>1. \A i \in 1..(k - 1) : l.queue[i] \in E
        BY <1>0, <3>1
      <4>2. 1 \in Int /\ k - 1 \in Int
        BY <1>0, <3>1
      <4> QED
        BY <4>1, <4>2, SubSeqProperties
    <3>3. SubSeq(l.queue, k + 1, Len(l.queue)) \in Seq(E)
      <4> HIDE DEF E
      <4>1. \A i \in (k + 1)..Len(l.queue) : l.queue[i] \in E
        BY <1>0, <3>1
      <4>2. k + 1 \in Int /\ Len(l.queue) \in Int
        BY <1>0, <3>1
      <4> QED
        BY <4>1, <4>2, SubSeqProperties
    <3>4. q \in Seq(E)
      BY <3>2, <3>3
    <3> HIDE DEF q
    <3>5. [Left(l, p) EXCEPT !.queue = q] \in Locks(Procs)
      BY <1>3, <3>4 DEF Locks
    <3>6. Forgotten(l, p) = [Left(l, p) EXCEPT !.queue = q]
      BY <1>3, <2>1 DEF Forgotten, q, k
    <3> QED
      BY <3>5, <3>6
  <2>2. CASE ~Waits(l, p)
    BY <1>3, <2>2 DEF Forgotten, Locks
  <2> QED
    BY <2>1, <2>2
<1> QED
  BY <1>1, <1>2, <1>3, <1>4

(* An operator of the lock for p gives no other process anything.          *)
LEMMA LockOthers ==
  ASSUME NEW l \in Locks(Procs), NEW p \in Procs, NEW q \in Procs \ {p},
         NEW m \in {"read", "write"}
  PROVE  /\ Waits(Asked(l, p, m), q) => Waits(l, q)
         /\ Holds(Asked(l, p, m), q) => Holds(l, q)
         /\ l.queue # <<>> /\ Waits(Entered(l, p, m), q) => Waits(l, q)
         /\ Holds(Entered(l, p, m), q) => Holds(l, q)
         /\ Waits(Left(l, p), q) => Waits(l, q)
         /\ Holds(Left(l, p), q) => Holds(l, q)
         /\ Waits(Forgotten(l, p), q) => Waits(l, q)
         /\ Holds(Forgotten(l, p), q) => Holds(l, q)
<1> DEFINE E == [who : Procs, mode : {"read", "write"}]
<1>0. l.queue \in Seq(E) /\ q # NoProc
  BY ProcAssumption DEF Locks
<1>1. Waits(Asked(l, p, m), q) => Waits(l, q)
  <2>1. Asked(l, p, m).queue = Append(l.queue, [who |-> p, mode |-> m])
    BY DEF Asked, Locks
  <2> QED
    BY <1>0, <2>1 DEF Waits
<1>2. Holds(Asked(l, p, m), q) => Holds(l, q)
  BY DEF Holds, Asked, Locks
<1>3. l.queue # <<>> /\ Waits(Entered(l, p, m), q) => Waits(l, q)
  <2>1. Entered(l, p, m).queue = Tail(l.queue)
    BY DEF Entered
  <2> QED
    BY <1>0, <2>1, HeadTailProperties DEF Waits
<1>4. Holds(Entered(l, p, m), q) => Holds(l, q)
  BY DEF Holds, Entered, Locks
<1>5. Waits(Left(l, p), q) => Waits(l, q)
  BY DEF Waits, Left, Locks
<1>6. Holds(Left(l, p), q) => Holds(l, q)
  BY <1>0 DEF Holds, Left, Locks
<1>7. Waits(Forgotten(l, p), q) => Waits(l, q)
  <2> DEFINE k == CHOOSE j \in DOMAIN l.queue : l.queue[j].who = p
             a == SubSeq(l.queue, 1, k - 1)
             b == SubSeq(l.queue, k + 1, Len(l.queue))
  <2>1. CASE Waits(l, p)
    <3>1. k \in 1..Len(l.queue)
      BY <1>0, <2>1 DEF Waits
    <3> HIDE DEF k
    <3>2. /\ \A i \in 1..(k - 1) : l.queue[i] \in E
          /\ \A i \in (k + 1)..Len(l.queue) : l.queue[i] \in E
          /\ 1 \in Int /\ k - 1 \in Int /\ k + 1 \in Int /\ Len(l.queue) \in Int
      <4> HIDE DEF E
      <4> QED
        BY <1>0, <3>1
    <3>3. Forgotten(l, p).queue = a \o b
      BY <2>1 DEF Forgotten, Left, Locks, k
    <3>4. /\ a \in Seq(E) /\ Len(a) = k - 1
          /\ \A i \in 1..(k - 1) : a[i] = l.queue[i]
      <4> HIDE DEF E
      <4>1. /\ a \in Seq(E)
            /\ Len(a) = IF 1 <= k - 1 THEN (k - 1) - 1 + 1 ELSE 0
            /\ \A i \in 1..((k - 1) - 1 + 1) : a[i] = l.queue[1 + i - 1]
        BY <3>2, SubSeqProperties
      <4> HIDE DEF a
      <4> QED
        BY <3>1, <4>1
    <3>5. /\ b \in Seq(E) /\ Len(b) = Len(l.queue) - k
          /\ \A i \in 1..(Len(l.queue) - k) : b[i] = l.queue[k + i]
      <4> HIDE DEF E
      <4>1. /\ b \in Seq(E)
            /\ Len(b) = IF k + 1 <= Len(l.queue)
                        THEN Len(l.queue) - (k + 1) + 1 ELSE 0
            /\ \A i \in 1..(Len(l.queue) - (k + 1) + 1) :
                 b[i] = l.queue[(k + 1) + i - 1]
        BY <3>2, SubSeqProperties
      <4> HIDE DEF b
      <4> QED
        BY <1>0, <3>1, <4>1
    <3> HIDE DEF a, b
    <3>6. \A i \in DOMAIN (a \o b) :
            \E j \in DOMAIN l.queue : (a \o b)[i] = l.queue[j]
      <4> SUFFICES ASSUME NEW i \in 1..(Len(a) + Len(b))
                   PROVE  \E j \in DOMAIN l.queue : (a \o b)[i] = l.queue[j]
        BY <3>4, <3>5
      <4>1. CASE i <= Len(a)
        <5>1. (a \o b)[i] = l.queue[i] /\ i \in DOMAIN l.queue
          BY <1>0, <3>1, <3>4, <3>5, <4>1
        <5> QED
          BY <5>1
      <4>2. CASE i > Len(a)
        <5>1. (a \o b)[i] = b[i - Len(a)] /\ i - Len(a) \in 1..(Len(l.queue) - k)
          BY <3>4, <3>5, <4>2
        <5>2. (a \o b)[i] = l.queue[k + (i - Len(a))]
          BY <3>5, <5>1
        <5>3. k + (i - Len(a)) \in DOMAIN l.queue
          BY <1>0, <3>1, <3>4, <3>5, <5>1
        <5> QED
          BY <5>2, <5>3
      <4> QED
        BY <3>4, <3>5, <4>1, <4>2
    <3> QED
      BY <3>3, <3>6 DEF Waits
  <2>2. CASE ~Waits(l, p)
    BY <2>2 DEF Forgotten, Waits, Left, Locks
  <2> QED
    BY <2>1, <2>2
<1>8. Holds(Forgotten(l, p), q) => Holds(l, q)
  BY <1>0 DEF Holds, Forgotten, Left, Locks
<1> QED
  BY <1>1, <1>2, <1>3, <1>4, <1>5, <1>6, <1>7, <1>8

-----------------------------------------------------------------------------
(* A step of request p that changes the lock and its own call only.        *)

(* What the lock must give the request and leave the others.               *)
LockMoves(p) ==
  /\ lock' \in Locks(Procs)
  /\ lock'.writer # NoProc => lock'.readers = {}
  /\ lock'.writer = lock.writer \/ lock.writer \in {NoProc, p}
  /\ Serving \/ ~Engaged(p)'
  /\ \A q \in Requests \ {p} : Engaged(q)' => Engaged(q)

(* What the call of the request must know.                                 *)
CallFits(p) ==
  /\ alloc' \in [Requests -> Allocs]
  /\ \A q \in Requests \ {p} : alloc'[q] = alloc[q]
  /\ Allocating(p)' =>
       /\ lock'.writer = p
       /\ alloc'[p].at \in 1..Size /\ alloc'[p].hit <= Size
  /\ (alloc[p].phase = "queued" \/ Allocating(p))' => alloc'[p].name \in Names
  /\ alloc'[p].phase = "name" /\ alloc'[p].hit = 0
       => \A i \in 1..(alloc'[p].at - 1) : slots[i].name # alloc'[p].name
  /\ alloc'[p].phase \in {"empty", "reserve"}
       => \A i \in DOMAIN slots : slots[i].name # alloc'[p].name

(* A step of a request that changes only its own place and the lock keeps  *)
(* the invariant, if what it is left with fits its guard.                  *)
LEMMA RequestKeeps ==
  ASSUME IInv, NEW p \in Requests, LockMoves(p), CallFits(p),
         UNCHANGED <<slotVars, taskVars>>
  PROVE  IInv'
<1>1. UNCHANGED <<slots, ended, joiner, shutdown, scaler, daemon>>
  BY DEF slotVars, taskVars
<1>2. Size' = Size
  BY <1>1 DEF Size
<1>3. p # Autoscaler /\ p # Main /\ NoProc # Autoscaler /\ NoProc # Main /\ p # NoProc
  BY ProcAssumption DEF Procs
<1>4. PoolTypeOK'
  BY <1>1 DEF IInv, PoolTypeOK, LockMoves, CallFits
<1>5. LockInv'
  <2>1. \A q \in Requests : Allocating(q)' => lock'.writer = q
    <3> SUFFICES ASSUME NEW q \in Requests \ {p}, Allocating(q)'
                 PROVE  lock'.writer = q
      BY DEF CallFits
    <3>1. Allocating(q) /\ lock.writer = q /\ q # NoProc
      BY ProcAssumption DEF CallFits, Allocating, IInv, LockInv, Procs
    <3> QED
      BY <3>1 DEF LockMoves
  <2> QED
    BY <1>1, <1>3, <2>1 DEF IInv, LockInv, LockMoves
<1>6. ScanInv'
  BY <1>1, <1>2 DEF IInv, ScanInv, CallFits, Allocating
<1>7. TaskInv'
  BY <1>1, <1>2 DEF IInv, TaskInv, LockMoves, Serving
<1>8. NamesUnique' /\ PoolBounded'
  BY <1>1, <1>2 DEF IInv, NamesUnique, PoolBounded
<1>9. NameStaysFree'
  BY <1>1 DEF IInv, NameStaysFree, NameChecked, CallFits
<1> QED
  BY <1>4, <1>5, <1>6, <1>7, <1>8, <1>9 DEF IInv

-----------------------------------------------------------------------------
(* The steps of a request that change no slot.                             *)

(* What AllocGoes does to the call of p.                                   *)
LEMMA CallGoes ==
  ASSUME PoolTypeOK, NEW p \in Requests, NEW phase \in Phases,
         NEW at \in 0..MaxSize, NEW hit \in 0..MaxSize,
         AllocGoes(p, phase, at, hit)
  PROVE  /\ alloc' \in [Requests -> Allocs]
         /\ \A q \in Requests \ {p} : alloc'[q] = alloc[q]
         /\ alloc'[p].phase = phase /\ alloc'[p].at = at
         /\ alloc'[p].hit = hit /\ alloc'[p].name = alloc[p].name
         /\ UNCHANGED taskVars
<1>1. alloc' = [alloc EXCEPT ![p] =
                  [alloc[p] EXCEPT !.phase = phase, !.at = at, !.hit = hit]]
  BY DEF AllocGoes, PoolTypeOK
<1>2. [alloc[p] EXCEPT !.phase = phase, !.at = at, !.hit = hit] \in Allocs
  BY DEF PoolTypeOK, Allocs
<1>3. alloc'[p] = [alloc[p] EXCEPT !.phase = phase, !.at = at, !.hit = hit]
  BY <1>1 DEF PoolTypeOK
<1>4. alloc[p] \in Allocs
  BY DEF PoolTypeOK
<1>5. /\ alloc'[p].phase = phase /\ alloc'[p].at = at
      /\ alloc'[p].hit = hit /\ alloc'[p].name = alloc[p].name
  BY <1>3, <1>4 DEF Allocs
<1> QED
  BY <1>1, <1>2, <1>5 DEF PoolTypeOK, AllocGoes

(* What AllocReturns does to the call of p.                                *)
LEMMA CallReturns ==
  ASSUME PoolTypeOK, NEW p \in Requests, NEW phase \in Phases,
         NEW at \in 0..MaxSize, AllocReturns(p, phase, at)
  PROVE  /\ alloc' \in [Requests -> Allocs]
         /\ \A q \in Requests \ {p} : alloc'[q] = alloc[q]
         /\ alloc'[p].phase = phase
         /\ lock' = Left(lock, p)
         /\ UNCHANGED taskVars
<1>1. 0 \in 0..MaxSize
  BY SizeAssumption
<1> QED
  BY <1>1 DEF AllocReturns, PoolTypeOK, Allocs

(* While p allocates, the lock stays as it is.                             *)
LEMMA KeepsLock ==
  ASSUME IInv, NEW p \in Requests, Allocating(p),
         UNCHANGED <<lock, taskVars>>
  PROVE  LockMoves(p) /\ lock'.writer = p
<1>1. lock.writer = p
  BY NobodyJoins
<1>2. Engaged(p)
  BY <1>1 DEF Engaged, Holds
<1>3. Serving
  BY <1>2 DEF IInv, TaskInv
<1> QED
  BY <1>1, <1>3 DEF LockMoves, IInv, PoolTypeOK, LockInv, Engaged, Serving, taskVars

(* A request that leaves the lock frees it for others only.                *)
LEMMA LeavesLock ==
  ASSUME IInv, NEW p \in Requests, Holds(lock, p),
         lock' = Left(lock, p), UNCHANGED taskVars
  PROVE  LockMoves(p)
<1>1. lock \in Locks(Procs) /\ p \in Procs /\ Requests \subseteq Procs
  BY DEF IInv, PoolTypeOK, Procs
<1>2. lock' \in Locks(Procs)
  BY <1>1, LockTyped
<1>3. /\ lock'.readers = lock.readers \ {p}
      /\ lock'.writer = IF lock.writer = p THEN NoProc ELSE lock.writer
  BY <1>1 DEF Left, Locks
<1>4. Serving
  BY DEF IInv, TaskInv, Engaged
<1>5. \A q \in Requests \ {p} : Engaged(q)' => Engaged(q)
  BY <1>1, LockOthers DEF Engaged
<1> QED
  BY <1>2, <1>3, <1>4, <1>5 DEF LockMoves, IInv, LockInv

(* A request that enters the lock finds nobody in its way.                 *)
LEMMA EntersLock ==
  ASSUME IInv, NEW p \in Requests, NEW m \in {"read", "write"},
         MayEnter(lock, p, m), lock' = Entered(lock, p, m), UNCHANGED taskVars
  PROVE  /\ LockMoves(p)
         /\ lock.writer = NoProc
         /\ m = "write" => lock'.writer = p
         /\ m = "read" => lock'.writer = NoProc
<1>1. lock \in Locks(Procs) /\ p \in Procs /\ Requests \subseteq Procs
  BY DEF IInv, PoolTypeOK, Procs
<1>2. /\ lock.queue # <<>> /\ Head(lock.queue).who = p
      /\ lock.writer = NoProc
      /\ m = "write" => lock.readers = {}
  BY DEF MayEnter
<1>3. lock' \in Locks(Procs)
  BY <1>1, <1>2, LockTyped
<1>4. /\ lock'.readers = IF m = "read" THEN lock.readers \cup {p} ELSE lock.readers
      /\ lock'.writer = IF m = "write" THEN p ELSE lock.writer
  BY <1>1 DEF Entered
<1>5. Serving
  <2>1. 1 \in DOMAIN lock.queue /\ lock.queue[1].who = p
    BY <1>1, <1>2 DEF Locks
  <2> QED
    BY <2>1 DEF IInv, TaskInv, Engaged, Waits
<1>6. \A q \in Requests \ {p} : Engaged(q)' => Engaged(q)
  BY <1>1, <1>2, LockOthers DEF Engaged
<1> QED
  BY <1>2, <1>3, <1>4, <1>5, <1>6 DEF LockMoves

(* A request that asks for the lock only joins the line.                   *)
LEMMA AsksLock ==
  ASSUME IInv, NEW p \in Requests, NEW m \in {"read", "write"},
         Serving, lock' = Asked(lock, p, m), UNCHANGED taskVars
  PROVE  LockMoves(p) /\ lock'.writer = lock.writer
<1>1. lock \in Locks(Procs) /\ p \in Procs /\ Requests \subseteq Procs
  BY DEF IInv, PoolTypeOK, Procs
<1>2. lock' \in Locks(Procs)
  BY <1>1, LockTyped
<1>3. lock'.readers = lock.readers /\ lock'.writer = lock.writer
  BY <1>1 DEF Asked, Locks
<1>4. \A q \in Requests \ {p} : Engaged(q)' => Engaged(q)
  BY <1>1, LockOthers DEF Engaged
<1> QED
  BY <1>2, <1>3, <1>4 DEF LockMoves, IInv, LockInv

(* A request that is dropped leaves the lock and the line.                 *)
LEMMA ForgetsLock ==
  ASSUME IInv, NEW p \in Requests, Engaged(p),
         lock' = Forgotten(lock, p), UNCHANGED taskVars
  PROVE  LockMoves(p)
<1>1. lock \in Locks(Procs) /\ p \in Procs /\ Requests \subseteq Procs
  BY DEF IInv, PoolTypeOK, Procs
<1>2. lock' \in Locks(Procs)
  BY <1>1, LockTyped
<1>3. /\ lock'.readers = lock.readers \ {p}
      /\ lock'.writer = IF lock.writer = p THEN NoProc ELSE lock.writer
  BY <1>1 DEF Forgotten, Left, Locks
<1>4. Serving
  BY DEF IInv, TaskInv
<1>5. \A q \in Requests \ {p} : Engaged(q)' => Engaged(q)
  BY <1>1, LockOthers DEF Engaged
<1> QED
  BY <1>2, <1>3, <1>4, <1>5 DEF LockMoves, IInv, LockInv

(* The steps of allocate_vm_slot that change no slot.                      *)
LEMMA LookingKeeps ==
  ASSUME IInv, NEW p \in Requests, UNCHANGED slotVars,
         \/ AllocStart(p)
         \/ AllocNameNext(p) \/ AllocNameTaken(p) \/ AllocNameFree(p)
         \/ AllocEmptyNext(p) \/ AllocEmptyFound(p)
         \/ AllocExhausted(p) \/ AllocRefused(p)
  PROVE  IInv'
<1>0. /\ PoolTypeOK /\ Size \in Nat /\ Size <= MaxSize
      /\ MinSize \in Nat /\ MinSize >= 1
      /\ MaxSize \in Nat /\ MaxSize >= 1
  BY SizeFacts, SizeAssumption DEF IInv
<1>1. alloc[p].at \in Nat /\ alloc[p].hit \in Nat
  BY <1>0 DEF PoolTypeOK, Allocs
<1>2. Allocating(p) =>
        /\ alloc[p].name \in Names
        /\ alloc[p].at \in 1..Size /\ alloc[p].hit \in 0..Size
        /\ DOMAIN slots = 1..Size
        /\ Holds(lock, p)
  <2> SUFFICES ASSUME Allocating(p)
               PROVE  /\ alloc[p].name \in Names
                      /\ alloc[p].at \in 1..Size /\ alloc[p].hit \in 0..Size
                      /\ DOMAIN slots = 1..Size
                      /\ Holds(lock, p)
    OBVIOUS
  <2>1. joiner = NoProc /\ lock.writer = p
    BY NobodyJoins
  <2>2. DOMAIN slots = 1..Size
    BY <1>0, <2>1, SizeFacts
  <2>3. /\ alloc[p].name \in Names
        /\ alloc[p].at \in 1..Size /\ alloc[p].hit <= Size
    BY DEF IInv, ScanInv
  <2> QED
    BY <1>0, <1>1, <2>1, <2>2, <2>3 DEF Holds
<1>3. alloc[p].phase \in {"empty", "reserve"}
        => \A i \in DOMAIN slots : slots[i].name # alloc[p].name
  BY DEF IInv, NameStaysFree, NameChecked
<1>4. alloc[p].phase = "name" /\ ~NameSeen(p)
        => \A i \in 1..alloc[p].at : slots[i].name # alloc[p].name
  <2> SUFFICES ASSUME alloc[p].phase = "name", ~NameSeen(p),
                      NEW i \in 1..alloc[p].at
               PROVE  slots[i].name # alloc[p].name
    OBVIOUS
  <2>1. alloc[p].hit = 0 /\ slots[alloc[p].at].name # alloc[p].name
    BY DEF NameSeen
  <2>2. i = alloc[p].at \/ i \in 1..(alloc[p].at - 1)
    BY <1>1
  <2> QED
    BY <2>1, <2>2 DEF IInv, ScanInv
<1>5. ASSUME Allocating(p),
             NEW phase \in {"name", "empty", "reserve"},
             NEW at \in 1..Size, NEW hit \in 0..Size,
             AllocGoes(p, phase, at, hit), UNCHANGED lock,
             phase = "name" /\ hit = 0
               => \A i \in 1..(at - 1) : slots[i].name # alloc[p].name,
             phase \in {"empty", "reserve"}
               => \A i \in DOMAIN slots : slots[i].name # alloc[p].name
      PROVE  IInv'
  <2>1. /\ alloc' \in [Requests -> Allocs]
        /\ \A q \in Requests \ {p} : alloc'[q] = alloc[q]
        /\ alloc'[p].phase = phase /\ alloc'[p].at = at
        /\ alloc'[p].hit = hit /\ alloc'[p].name = alloc[p].name
        /\ UNCHANGED taskVars
    BY <1>0, <1>5, CallGoes DEF Phases
  <2>2. LockMoves(p) /\ lock'.writer = p
    BY <1>5, <2>1, KeepsLock
  <2>3. CallFits(p)
    BY <1>2, <1>5, <2>1, <2>2 DEF CallFits, Allocating
  <2> QED
    BY <2>1, <2>2, <2>3, RequestKeeps
<1>6. ASSUME Allocating(p), AllocReturns(p, "lost", 0)
      PROVE  IInv'
  <2>1. /\ alloc' \in [Requests -> Allocs]
        /\ \A q \in Requests \ {p} : alloc'[q] = alloc[q]
        /\ alloc'[p].phase = "lost"
        /\ UNCHANGED taskVars
    <3>1. 0 \in 0..MaxSize /\ "lost" \in Phases
      BY <1>0 DEF Phases
    <3> QED
      BY <1>0, <1>6, <3>1, CallReturns
  <2>2. LockMoves(p)
    BY <1>2, <1>6, <2>1, LeavesLock DEF AllocReturns
  <2>3. CallFits(p)
    BY <2>1 DEF CallFits, Allocating
  <2> QED
    BY <2>1, <2>2, <2>3, RequestKeeps
<1>7. CASE AllocStart(p)
  <2>1. /\ alloc' \in [Requests -> Allocs]
        /\ \A q \in Requests \ {p} : alloc'[q] = alloc[q]
        /\ alloc'[p].phase = "name" /\ alloc'[p].at = 1
        /\ alloc'[p].hit = 0 /\ alloc'[p].name = alloc[p].name
        /\ UNCHANGED taskVars
    BY <1>0, <1>7, CallGoes DEF Phases, AllocStart
  <2>2. LockMoves(p) /\ lock'.writer = p
    BY <1>7, <2>1, EntersLock DEF AllocStart
  <2>3. Size >= 1
    <3>1. Serving
      <4>1. 1 \in DOMAIN lock.queue /\ lock.queue[1].who = p
        BY <1>0, <1>7 DEF AllocStart, MayEnter, PoolTypeOK, Locks
      <4> QED
        BY <4>1 DEF IInv, TaskInv, Engaged, Waits
    <3>2. shutdown = "no"
      BY <1>0, <3>1 DEF IInv, TaskInv, Serving, PoolTypeOK
    <3> QED
      BY <1>0, <3>2 DEF IInv, PoolBounded
  <2>4. alloc[p].name \in Names
    BY <1>7 DEF AllocStart, IInv, ScanInv
  <2>5. CallFits(p)
    BY <1>0, <2>1, <2>2, <2>3, <2>4 DEF CallFits, Allocating
  <2> QED
    BY <2>1, <2>2, <2>5, RequestKeeps
<1>8. CASE AllocNameNext(p)
  <2>1. /\ Allocating(p) /\ alloc[p].phase = "name"
        /\ alloc[p].at + 1 \in 1..Size
        /\ (alloc[p].at + 1) - 1 = alloc[p].at
        /\ UNCHANGED lock
        /\ AllocGoes(p, "name", alloc[p].at + 1, IF NameSeen(p) THEN 1 ELSE 0)
    BY <1>0, <1>1, <1>8 DEF AllocNameNext, Allocating
  <2>2. CASE NameSeen(p)
    BY <1>0, <1>5, <2>1, <2>2
  <2>3. CASE ~NameSeen(p)
    <3>1. \A i \in 1..((alloc[p].at + 1) - 1) : slots[i].name # alloc[p].name
      BY <1>4, <2>1, <2>3
    <3> QED
      BY <1>0, <1>5, <2>1, <2>3, <3>1
  <2> QED
    BY <2>2, <2>3
<1>9. CASE AllocNameTaken(p)
  BY <1>6, <1>9 DEF AllocNameTaken, Allocating
<1>10. CASE AllocNameFree(p)
  <2>1. /\ Allocating(p) /\ alloc[p].phase = "name" /\ ~NameSeen(p)
        /\ alloc[p].at = Size
        /\ UNCHANGED lock /\ AllocGoes(p, "empty", 1, 0)
    BY <1>10 DEF AllocNameFree, Allocating
  <2>2. 1 \in 1..Size /\ DOMAIN slots = 1..alloc[p].at
    BY <1>0, <1>2, <2>1
  <2>3. \A i \in DOMAIN slots : slots[i].name # alloc[p].name
    BY <1>4, <2>1, <2>2
  <2> QED
    BY <1>0, <1>5, <2>1, <2>2, <2>3
<1>11. CASE AllocEmptyNext(p)
  <2>1. /\ Allocating(p) /\ alloc[p].phase = "empty"
        /\ alloc[p].at + 1 \in 1..Size /\ FirstEmpty(p) \in 0..Size
        /\ UNCHANGED lock
        /\ AllocGoes(p, "empty", alloc[p].at + 1, FirstEmpty(p))
    BY <1>0, <1>1, <1>2, <1>11 DEF AllocEmptyNext, Allocating, FirstEmpty
  <2> QED
    BY <1>3, <1>5, <2>1
<1>12. CASE AllocEmptyFound(p)
  <2>1. /\ Allocating(p) /\ alloc[p].phase = "empty"
        /\ FirstEmpty(p) \in 1..Size
        /\ UNCHANGED lock /\ AllocGoes(p, "reserve", FirstEmpty(p), 0)
    BY <1>0, <1>1, <1>2, <1>12 DEF AllocEmptyFound, Allocating, FirstEmpty
  <2> QED
    BY <1>0, <1>3, <1>5, <2>1
<1>13. CASE AllocExhausted(p)
  BY <1>6, <1>13 DEF AllocExhausted, Allocating
<1>14. CASE AllocRefused(p)
  BY <1>6, <1>14 DEF AllocRefused, Allocating
<1> QED
  BY <1>7, <1>8, <1>9, <1>10, <1>11, <1>12, <1>13, <1>14

(* The other steps of a request that change no slot.                       *)
LEMMA CallingKeeps ==
  ASSUME IInv, NEW p \in Requests,
         \/ \E n \in Names : AllocRequest(p, n)
         \/ ReadRequest(p) \/ ReadEnter(p) \/ ReadLeave(p)
         \/ RequestDropped(p)
  PROVE  IInv'
<1>0. PoolTypeOK /\ alloc[p] \in Allocs /\ MaxSize \in Nat /\ 0 \in 0..MaxSize
  BY SizeAssumption DEF IInv, PoolTypeOK
<1>1. Allocating(p) => lock.writer = p /\ Engaged(p)
  BY NobodyJoins DEF Engaged, Holds
<1>2. ASSUME ~Allocating(p), UNCHANGED <<alloc, taskVars>>
      PROVE  CallFits(p)
  BY <1>0, <1>2 DEF CallFits, Allocating, PoolTypeOK, IInv, ScanInv
<1>3. ASSUME NEW n \in Names, AllocRequest(p, n) PROVE IInv'
  <2>2. /\ alloc' \in [Requests -> Allocs]
        /\ \A q \in Requests \ {p} : alloc'[q] = alloc[q]
        /\ alloc'[p].phase = "queued" /\ alloc'[p].name = n
    BY <1>0, <1>3 DEF AllocRequest, PoolTypeOK, Allocs, Phases
  <2>3. CallFits(p)
    BY <2>2 DEF CallFits, Allocating
  <2>4. LockMoves(p)
    BY <1>3, AsksLock DEF AllocRequest
  <2> QED
    BY <1>3, <2>3, <2>4, RequestKeeps DEF AllocRequest
<1>4. CASE ReadRequest(p)
  BY <1>1, <1>2, <1>4, AsksLock, RequestKeeps DEF ReadRequest
<1>5. CASE ReadEnter(p)
  <2>1. ~Allocating(p)
    BY <1>1, <1>5, ProcAssumption DEF ReadEnter, MayEnter, Procs
  <2> QED
    BY <1>2, <1>5, <2>1, EntersLock, RequestKeeps DEF ReadEnter
<1>6. CASE ReadLeave(p)
  <2>1. ~Allocating(p)
    BY <1>1, <1>6, ProcAssumption DEF ReadLeave, IInv, LockInv, Procs
  <2> QED
    BY <1>2, <1>6, <2>1, LeavesLock, RequestKeeps DEF ReadLeave, Holds
<1>7. CASE RequestDropped(p)
  <2>1. /\ alloc' \in [Requests -> Allocs]
        /\ \A q \in Requests \ {p} : alloc'[q] = alloc[q]
        /\ alloc'[p].phase = "idle"
    BY <1>0, <1>7 DEF RequestDropped, PoolTypeOK, NoAlloc, Allocs, Phases
  <2>2. CallFits(p)
    BY <2>1 DEF CallFits, Allocating
  <2> QED
    BY <1>7, <2>2, ForgetsLock, RequestKeeps DEF RequestDropped
<1> QED
  BY <1>3, <1>4, <1>5, <1>6, <1>7

-----------------------------------------------------------------------------
(* The steps that change slots.                                            *)

(* A slot that is replaced by one with the same name or none.              *)
LEMMA SlotKeeps ==
  ASSUME IInv, NEW i \in DOMAIN slots, NEW s \in SlotRecords,
         s.name \in {slots[i].name, NoName},
         slots' = [slots EXCEPT ![i] = s], ended' \subseteq DOMAIN slots,
         UNCHANGED <<joiner, shutdown, lock, alloc, taskVars>>
  PROVE  IInv'
<1>0. PoolTypeOK /\ slots \in Seq(SlotRecords)
  BY DEF IInv, PoolTypeOK
<1>1. /\ slots' \in Seq(SlotRecords) /\ Len(slots') = Len(slots)
      /\ DOMAIN slots' = DOMAIN slots
      /\ \A j \in DOMAIN slots : slots'[j] = IF j = i THEN s ELSE slots[j]
  BY <1>0
<1>2. Size' = Size
  BY <1>1 DEF Size
<1>3. \A j \in DOMAIN slots : slots'[j].name \in {slots[j].name, NoName}
  BY <1>1
<1>4. slots # <<>> => slots' # <<>>
  BY <1>0, <1>1
<1>5. PoolTypeOK'
  BY <1>0, <1>1, <1>4 DEF PoolTypeOK, taskVars
<1>6. LockInv' /\ TaskInv' /\ PoolBounded'
  BY <1>1, <1>2 DEF IInv, LockInv, TaskInv, PoolBounded, Allocating, Serving,
                    Engaged, taskVars
<1>7. \A p \in Requests : Allocating(p) => alloc[p].name # NoName
  BY NoNameAssumption DEF IInv, ScanInv
<1>8. ScanInv'
  <2> SUFFICES ASSUME NEW p \in Requests, alloc[p].phase = "name",
                      alloc[p].hit = 0, NEW j \in 1..(alloc[p].at - 1)
               PROVE  slots'[j].name # alloc[p].name
    BY <1>2 DEF IInv, ScanInv, Allocating
  <2>1. slots[j].name # alloc[p].name /\ alloc[p].name # NoName
    BY <1>7 DEF IInv, ScanInv, Allocating
  <2>2. j \in DOMAIN slots
    <3>1. alloc[p].at \in 1..Size
      BY DEF IInv, ScanInv, Allocating
    <3> QED
      BY <1>0, <3>1, SizeFacts
  <2> QED
    BY <1>3, <2>1, <2>2
<1>9. NamesUnique'
  BY <1>1, <1>3 DEF IInv, NamesUnique
<1>10. NameStaysFree'
  BY <1>1, <1>3, <1>7 DEF IInv, NameStaysFree, NameChecked, Allocating
<1> QED
  BY <1>5, <1>6, <1>8, <1>9, <1>10 DEF IInv

(* The commands of the readers, the workers and the VMMs.                  *)
LEMMA SlotEventKeeps ==
  ASSUME IInv,
         \/ \E p \in Requests, i \in 1..Size :
              MarkBooted(p, i) \/ ReleaseSlot(p, i) \/ ResetSlot(p, i)
         \/ \E i \in DOMAIN slots : SlotEvent(i)
  PROVE  IInv'
<1>0. /\ PoolTypeOK /\ slots \in Seq(SlotRecords)
      /\ \A i \in DOMAIN slots : slots[i] \in SlotRecords
      /\ 1..Size \subseteq DOMAIN slots
  <2>1. PoolTypeOK
    BY DEF IInv
  <2> QED
    BY <2>1, SizeFacts DEF PoolTypeOK
<1>1. FreshSlot \in SlotRecords /\ FreshSlot.name = NoName
  BY DEF FreshSlot, SlotRecords, States, ProcStates
<1>2. ASSUME NEW i \in DOMAIN slots
      PROVE  /\ Booted(slots[i]) \in SlotRecords
             /\ Booted(slots[i]).name = slots[i].name
             /\ Spawned(slots[i]) \in SlotRecords
             /\ Spawned(slots[i]).name = slots[i].name
             /\ Broken(slots[i]) \in SlotRecords
             /\ Broken(slots[i]).name = slots[i].name
             /\ Reaped(slots[i]) \in SlotRecords
             /\ Reaped(slots[i]).name \in {slots[i].name, NoName}
             /\ Stopped(slots[i]) \in SlotRecords
             /\ Stopped(slots[i]).name = slots[i].name
             /\ \A c \in {"serving", "exited"} :
                  /\ [slots[i] EXCEPT !.proc = c] \in SlotRecords
                  /\ [slots[i] EXCEPT !.proc = c].name = slots[i].name
  <2>1. slots[i] \in SlotRecords
    BY <1>0
  <2> QED
    BY <1>1, <2>1 DEF Booted, Spawned, Broken, Reaped, Stopped, SlotRecords,
                      States, ProcStates
<1>3. ASSUME NEW i \in DOMAIN slots, NEW s \in SlotRecords,
             s.name \in {slots[i].name, NoName},
             SlotMoves(i, s), UNCHANGED <<lock, alloc, taskVars>>
      PROVE  IInv'
  BY <1>0, <1>3, SlotKeeps DEF SlotMoves, PoolTypeOK
<1>4. ASSUME NEW p \in Requests, NEW i \in 1..Size,
             MarkBooted(p, i) \/ ReleaseSlot(p, i) \/ ResetSlot(p, i)
      PROVE  IInv'
  <2>1. i \in DOMAIN slots
    BY <1>0
  <2>2. CASE MarkBooted(p, i)
    BY <1>2, <1>3, <2>1, <2>2 DEF MarkBooted, SlotCommand
  <2>3. CASE ReleaseSlot(p, i)
    BY <1>1, <1>3, <2>1, <2>3 DEF ReleaseSlot, SlotCommand
  <2>4. CASE ResetSlot(p, i)
    BY <1>1, <1>3, <2>1, <2>4 DEF ResetSlot, SlotCommand
  <2> QED
    BY <1>4, <2>2, <2>3, <2>4
<1>5. ASSUME NEW i \in DOMAIN slots, SlotEvent(i)
      PROVE  IInv'
  <2>1. CASE Spawn(i)
    BY <1>2, <1>3, <2>1 DEF Spawn, WorkerMoves
  <2>2. CASE SpawnFails(i)
    BY <1>2, <1>3, <2>2 DEF SpawnFails, WorkerMoves
  <2>3. CASE Reap(i)
    BY <1>2, <1>3, <2>3 DEF Reap, WorkerMoves
  <2>4. CASE PollFails(i)
    BY <1>2, <1>3, <2>4 DEF PollFails, WorkerMoves
  <2>5. CASE Listen(i)
    BY <1>2, <1>3, <2>5 DEF Listen, WorkerMoves
  <2>6. CASE Exit(i)
    BY <1>2, <1>3, <2>6 DEF Exit, WorkerMoves
  <2>7. CASE WorkerEnds(i)
    <3>1. /\ slots' = [slots EXCEPT ![i] = Stopped(slots[i])]
          /\ ended' \subseteq DOMAIN slots
          /\ UNCHANGED <<joiner, shutdown, lock, alloc, taskVars>>
      BY <1>0, <2>7 DEF WorkerEnds, PoolTypeOK
    <3> QED
      BY <1>2, <3>1, SlotKeeps
  <2> QED
    BY <1>5, <2>1, <2>2, <2>3, <2>4, <2>5, <2>6, <2>7 DEF SlotEvent
<1> QED
  BY <1>4, <1>5

(* A slot appended to a pool that is below its maximum.                    *)
LEMMA ExtendKeeps ==
  ASSUME IInv, NEW p \in Requests, AllocExtend(p)
  PROVE  IInv'
<1>0. /\ PoolTypeOK /\ slots \in Seq(SlotRecords)
      /\ Size \in Nat /\ MaxSize \in Nat /\ MinSize \in Nat /\ MaxSize >= 1
  BY SizeFacts, SizeAssumption DEF IInv, PoolTypeOK
<1>1. Allocating(p) /\ alloc[p].phase = "empty" /\ Size < MaxSize
  BY <1>0 DEF AllocExtend, Allocating
<1>2. /\ joiner = NoProc /\ Size = Len(slots) /\ lock.writer = p
      /\ \A q \in Requests \ {p} : ~Allocating(q)
  BY <1>1, NobodyJoins
<1>3. FreshSlot \in SlotRecords /\ FreshSlot.name = NoName
  BY DEF FreshSlot, SlotRecords, States, ProcStates
<1>4. /\ slots' \in Seq(SlotRecords) /\ Len(slots') = Len(slots) + 1
      /\ DOMAIN slots' = 1..(Len(slots) + 1) /\ DOMAIN slots = 1..Len(slots)
      /\ \A j \in DOMAIN slots : slots'[j] = slots[j]
      /\ slots'[Len(slots) + 1] = FreshSlot
  BY <1>0, <1>3 DEF AllocExtend
<1>5. /\ alloc' \in [Requests -> Allocs]
      /\ \A q \in Requests \ {p} : alloc'[q] = alloc[q]
      /\ alloc'[p].phase = "empty" /\ alloc'[p].at = 1
      /\ alloc'[p].hit = 0 /\ alloc'[p].name = alloc[p].name
      /\ UNCHANGED taskVars
  <2>1. /\ 1 \in 0..MaxSize /\ 0 \in 0..MaxSize /\ "empty" \in Phases
        /\ AllocGoes(p, "empty", 1, 0)
    BY <1>0 DEF AllocExtend, Phases
  <2> QED
    BY <1>0, <2>1, CallGoes
<1>6. UNCHANGED <<ended, joiner, shutdown, lock, scaler, daemon>>
  BY <1>5 DEF AllocExtend, taskVars
<1>7. Size' = Size + 1
  BY <1>0, <1>2, <1>4, <1>6 DEF Size
<1>8. alloc[p].name \in Names /\ alloc[p].name # NoName
  BY <1>1, NoNameAssumption DEF IInv, ScanInv
<1>9. PoolTypeOK'
  BY <1>0, <1>1, <1>2, <1>4, <1>5, <1>6 DEF PoolTypeOK
<1>10. LockInv'
  BY <1>1, <1>2, <1>5, <1>6 DEF IInv, LockInv, Allocating
<1>11. ScanInv'
  <2>1. /\ alloc'[p].name \in Names /\ alloc'[p].at \in 1..Size'
        /\ alloc'[p].hit <= Size' /\ alloc'[p].phase = "empty"
    BY <1>0, <1>5, <1>7, <1>8
  <2>2. \A q \in Requests \ {p} :
          /\ ~Allocating(q)'
          /\ alloc'[q].phase # "name"
          /\ alloc'[q].phase = "queued" => alloc'[q].name \in Names
    BY <1>2, <1>5 DEF IInv, ScanInv, Allocating
  <2> QED
    BY <2>1, <2>2 DEF ScanInv, Allocating
<1>12. TaskInv' /\ PoolBounded'
  BY <1>0, <1>1, <1>2, <1>4, <1>6, <1>7
     DEF IInv, TaskInv, PoolBounded, Serving, Engaged
<1>13. NamesUnique'
  BY <1>3, <1>4 DEF IInv, NamesUnique
<1>14. NameStaysFree'
  <2>1. \A j \in DOMAIN slots : slots[j].name # alloc[p].name
    BY <1>1 DEF IInv, NameStaysFree, NameChecked
  <2>2. \A q \in Requests \ {p} : ~NameChecked(q)'
    BY <1>2, <1>5 DEF NameChecked, Allocating
  <2>3. \A j \in DOMAIN slots' : slots'[j].name # alloc'[p].name
    BY <1>0, <1>3, <1>4, <1>5, <1>8, <2>1
  <2> QED
    BY <2>2, <2>3 DEF NameStaysFree
<1> QED
  BY <1>9, <1>10, <1>11, <1>12, <1>13, <1>14 DEF IInv

(* A reservation: the name was free, so it is used once.                   *)
LEMMA ReserveKeeps ==
  ASSUME IInv, NEW p \in Requests, AllocReserve(p)
  PROVE  IInv'
<1> DEFINE i == alloc[p].at
           s == Claimed(slots[i], alloc[p].name)
<1>0. /\ PoolTypeOK /\ slots \in Seq(SlotRecords)
      /\ Size \in Nat /\ MaxSize \in Nat /\ Size <= MaxSize
  BY SizeFacts, SizeAssumption DEF IInv, PoolTypeOK
<1>1. Allocating(p) /\ alloc[p].phase = "reserve"
  BY DEF AllocReserve, Allocating
<1>2. /\ joiner = NoProc /\ Size = Len(slots) /\ lock.writer = p
      /\ \A q \in Requests \ {p} : ~Allocating(q)
  BY <1>1, NobodyJoins
<1>3. i \in DOMAIN slots /\ i \in 1..Size /\ alloc[p].name \in Names
  BY <1>0, <1>1, <1>2 DEF IInv, ScanInv
<1>4. slots[i] \in SlotRecords /\ s \in SlotRecords /\ s.name = alloc[p].name
  <2>1. slots[i] \in SlotRecords
    BY <1>0, <1>3
  <2> QED
    BY <1>3, <2>1 DEF Claimed, SlotRecords, States
<1>5. /\ slots' = [slots EXCEPT ![i] = s]
      /\ AllocReturns(p, "won", i) /\ UNCHANGED <<ended, joiner, shutdown>>
  BY DEF AllocReserve
<1>6. /\ alloc' \in [Requests -> Allocs]
      /\ \A q \in Requests \ {p} : alloc'[q] = alloc[q]
      /\ alloc'[p].phase = "won"
      /\ UNCHANGED taskVars
  <2>1. i \in 0..MaxSize /\ "won" \in Phases
    BY <1>0, <1>3 DEF Phases
  <2> QED
    BY <1>0, <1>5, <2>1, CallReturns
<1> HIDE DEF s, i
<1>7. /\ slots' \in Seq(SlotRecords) /\ Len(slots') = Len(slots)
      /\ DOMAIN slots' = DOMAIN slots
      /\ \A j \in DOMAIN slots : slots'[j] = IF j = i THEN s ELSE slots[j]
  BY <1>0, <1>3, <1>4, <1>5
<1>8. UNCHANGED <<ended, joiner, shutdown, scaler, daemon>>
  BY <1>5, <1>6 DEF taskVars
<1>9. Size' = Size
  BY <1>7, <1>8 DEF Size
<1>10. LockMoves(p) /\ lock'.writer = NoProc
  <2>1. Holds(lock, p) /\ lock' = Left(lock, p)
    BY <1>2, <1>5 DEF Holds, AllocReturns
  <2>2. lock'.writer = NoProc
    BY <1>0, <1>2, <2>1 DEF Left, PoolTypeOK, Locks
  <2> QED
    BY <1>6, <2>1, <2>2, LeavesLock
<1>11. /\ \A q \in Requests : ~Allocating(q)'
       /\ \A q \in Requests : alloc'[q].phase = "queued" => alloc'[q].name \in Names
  BY <1>2, <1>6 DEF Allocating, IInv, ScanInv
<1>12. PoolTypeOK'
  BY <1>0, <1>6, <1>7, <1>8, <1>10 DEF PoolTypeOK, LockMoves
<1>13. LockInv'
  BY <1>2, <1>8, <1>10, <1>11, ProcAssumption DEF IInv, LockInv, Procs
<1>14. ScanInv'
  BY <1>11 DEF ScanInv, Allocating
<1>15. TaskInv'
  BY <1>6, <1>8, <1>9, <1>10 DEF IInv, TaskInv, LockMoves, Serving
<1>16. PoolBounded'
  BY <1>7, <1>8, <1>9 DEF IInv, PoolBounded
<1>17. NamesUnique'
  <2>1. \A j \in DOMAIN slots : slots[j].name # alloc[p].name
    BY <1>1 DEF IInv, NameStaysFree, NameChecked
  <2> QED
    BY <1>3, <1>4, <1>7, <2>1 DEF IInv, NamesUnique
<1>18. NameStaysFree'
  BY <1>11 DEF NameStaysFree, NameChecked, Allocating
<1> QED
  BY <1>12, <1>13, <1>14, <1>15, <1>16, <1>17, <1>18 DEF IInv

-----------------------------------------------------------------------------
(* The steps of the autoscaler and of main.                                *)

(* They leave the slots' names and the calls of the requests alone; the    *)
(* pool shrinks only for a writer that is not a request.                   *)
LEMMA TaskLooksAway ==
  ASSUME IInv, UNCHANGED <<slots, alloc>>,
         joiner' = joiner \/ lock.writer \in {Autoscaler, Main}
  PROVE  ScanInv' /\ NamesUnique' /\ NameStaysFree'
<1>1. \A p \in Requests : Allocating(p) => Size' = Size
  BY NobodyJoins, ProcAssumption DEF Size
<1> QED
  BY <1>1 DEF IInv, ScanInv, NamesUnique, NameStaysFree, NameChecked, Allocating

(* What a task does to the lock gives no request anything.                 *)
LEMMA TaskLocks ==
  ASSUME PoolTypeOK, NEW t \in {Autoscaler, Main}
  PROVE  /\ LET l == Asked(lock, t, "write") IN
              /\ l \in Locks(Procs)
              /\ l.writer = lock.writer /\ l.readers = lock.readers
              /\ \A q \in Requests :
                   Waits(l, q) \/ Holds(l, q) => Engaged(q)
         /\ MayEnter(lock, t, "write") =>
              LET l == Entered(lock, t, "write") IN
              /\ l \in Locks(Procs)
              /\ l.writer = t /\ l.readers = {}
              /\ \A q \in Requests :
                   Waits(l, q) \/ Holds(l, q) => Engaged(q)
         /\ LET l == Left(lock, t) IN
              /\ l \in Locks(Procs)
              /\ l.writer = IF lock.writer = t THEN NoProc ELSE lock.writer
              /\ l.readers \subseteq lock.readers
              /\ \A q \in Requests :
                   Waits(l, q) \/ Holds(l, q) => Engaged(q)
<1>1. /\ lock \in Locks(Procs) /\ t \in Procs
      /\ \A q \in Requests : q \in Procs \ {t}
  BY ProcAssumption DEF PoolTypeOK, Procs
<1>2. /\ Asked(lock, t, "write").writer = lock.writer
      /\ Asked(lock, t, "write").readers = lock.readers
  BY <1>1 DEF Asked, Locks
<1>3. MayEnter(lock, t, "write") =>
        /\ Entered(lock, t, "write").writer = t
        /\ Entered(lock, t, "write").readers = {}
        /\ lock.queue # <<>>
  BY DEF Entered, MayEnter
<1>4. /\ Left(lock, t).writer = IF lock.writer = t THEN NoProc ELSE lock.writer
      /\ Left(lock, t).readers \subseteq lock.readers
  BY <1>1 DEF Left, Locks
<1> QED
  BY <1>1, <1>2, <1>3, <1>4, LockTyped, LockOthers DEF Engaged

(* The autoscaler's steps keep the invariant.                              *)
LEMMA ScalingKeeps ==
  ASSUME IInv, Scaling
  PROVE  IInv'
<1>0. /\ PoolTypeOK /\ Autoscaler # Main
      /\ Autoscaler # NoProc /\ Main # NoProc
      /\ Autoscaler \notin Requests /\ Main \notin Requests
      /\ NoProc \notin Requests
      /\ Size \in Nat /\ MinSize \in Nat /\ slots \in Seq(SlotRecords)
  BY SizeFacts, SizeAssumption, ProcAssumption DEF IInv, PoolTypeOK, Procs
<1>1. CASE ScalerTick
  <2>1. /\ UNCHANGED <<slots, ended, joiner, shutdown, alloc, daemon>>
        /\ scaler = "sleep" /\ scaler' = "wait"
        /\ lock' = Asked(lock, Autoscaler, "write")
    BY <1>1 DEF ScalerTick, slotVars
  <2>2. /\ lock' \in Locks(Procs)
        /\ lock'.writer = lock.writer /\ lock'.readers = lock.readers
        /\ \A q \in Requests : Engaged(q)' => Engaged(q)
    BY <1>0, <2>1, TaskLocks DEF Engaged
  <2>3. PoolTypeOK' /\ Size' = Size
    BY <1>0, <2>1, <2>2 DEF PoolTypeOK, Size
  <2>4. LockInv'
    BY <2>1, <2>2 DEF IInv, LockInv, Allocating
  <2>5. TaskInv' /\ PoolBounded'
    BY <2>1, <2>2, <2>3 DEF IInv, TaskInv, PoolBounded, Serving
  <2> QED
    BY <2>1, <2>3, <2>4, <2>5, TaskLooksAway DEF IInv
<1>2. CASE ScalerKeeps
  <2>1. /\ UNCHANGED <<slots, ended, joiner, shutdown, alloc, daemon>>
        /\ scaler = "wait" /\ scaler' = "sleep"
        /\ MayEnter(lock, Autoscaler, "write")
        /\ lock' = [lock EXCEPT !.queue = Tail(@)]
    BY <1>2 DEF ScalerKeeps, slotVars
  <2>2. /\ lock' \in Locks(Procs)
        /\ lock'.writer = lock.writer /\ lock'.readers = lock.readers
        /\ \A q \in Requests : Engaged(q)' => Engaged(q)
    <3>1. /\ lock \in Locks(Procs) /\ lock.queue # <<>>
          /\ lock.queue \in Seq([who : Procs, mode : {"read", "write"}])
      BY <1>0, <2>1 DEF PoolTypeOK, Locks, MayEnter
    <3>2. Tail(lock.queue) \in Seq([who : Procs, mode : {"read", "write"}])
      BY <3>1
    <3>3. /\ lock' \in Locks(Procs) /\ lock'.queue = Tail(lock.queue)
          /\ lock'.writer = lock.writer /\ lock'.readers = lock.readers
      BY <2>1, <3>1, <3>2 DEF Locks
    <3>4. \A q \in Requests : Waits(lock', q) => Waits(lock, q)
      BY <3>1, <3>3, HeadTailProperties DEF Waits
    <3> QED
      BY <3>3, <3>4 DEF Engaged, Holds
  <2>3. PoolTypeOK' /\ Size' = Size
    BY <1>0, <2>1, <2>2 DEF PoolTypeOK, Size
  <2>4. LockInv'
    BY <2>1, <2>2 DEF IInv, LockInv, Allocating
  <2>5. TaskInv' /\ PoolBounded'
    BY <2>1, <2>2, <2>3 DEF IInv, TaskInv, PoolBounded, Serving
  <2> QED
    BY <2>1, <2>3, <2>4, <2>5, TaskLooksAway DEF IInv
<1>3. CASE ScalerShrinks
  <2>1. /\ UNCHANGED <<slots, ended, joiner, shutdown, alloc, daemon>>
        /\ scaler = "wait" /\ scaler' = "pop" /\ Size > MinSize
        /\ MayEnter(lock, Autoscaler, "write") /\ lock.writer = NoProc
        /\ lock' = Entered(lock, Autoscaler, "write")
    BY <1>3 DEF ScalerShrinks, slotVars, MayEnter
  <2>2. /\ lock' \in Locks(Procs)
        /\ lock'.writer = Autoscaler /\ lock'.readers = {}
        /\ \A q \in Requests : Engaged(q)' => Engaged(q)
    BY <1>0, <2>1, TaskLocks DEF Engaged
  <2>3. PoolTypeOK' /\ Size' = Size
    BY <1>0, <2>1, <2>2 DEF PoolTypeOK, Size
  <2>4. LockInv'
    BY <1>0, <2>1, <2>2 DEF IInv, LockInv, Allocating
  <2>5. TaskInv' /\ PoolBounded'
    BY <2>1, <2>2, <2>3 DEF IInv, TaskInv, PoolBounded, Serving
  <2> QED
    BY <2>1, <2>3, <2>4, <2>5, TaskLooksAway DEF IInv
<1>4. CASE ScalerPop
  <2>1. /\ UNCHANGED <<slots, ended, shutdown, lock, alloc, daemon>>
        /\ scaler = "pop" /\ scaler' = "join" /\ joiner' = Autoscaler
        /\ lock.writer = Autoscaler /\ Size > MinSize
    BY <1>4 DEF ScalerPop, IInv, LockInv, TaskInv
  <2>2. joiner = NoProc
    BY <1>0, <2>1 DEF IInv, LockInv, PoolTypeOK
  <2>3. /\ Size = Len(slots) /\ Size' = Len(slots) - 1
        /\ Len(slots) \in Nat /\ slots # <<>>
    <3>1. Size = Len(slots) /\ Size' = Len(slots) - 1 /\ Len(slots) \in Nat
      BY <1>0, <2>1, <2>2 DEF Size
    <3> QED
      BY <1>0, <2>1, <3>1
  <2>4. PoolTypeOK'
    BY <1>0, <2>1, <2>3 DEF PoolTypeOK
  <2>5. LockInv'
    BY <1>0, <2>1, <2>2 DEF IInv, LockInv, Allocating
  <2>6. TaskInv' /\ PoolBounded'
    BY <1>0, <2>1, <2>3 DEF IInv, TaskInv, PoolBounded, Serving, Engaged
  <2> QED
    BY <2>1, <2>4, <2>5, <2>6, TaskLooksAway DEF IInv
<1> QED
  BY <1>1, <1>2, <1>3, <1>4 DEF Scaling

(* The end of main keeps the invariant.                                    *)
LEMMA StoppingKeeps ==
  ASSUME IInv, Stopping
  PROVE  IInv'
<1>0. /\ PoolTypeOK /\ Autoscaler # Main
      /\ Autoscaler # NoProc /\ Main # NoProc
      /\ Autoscaler \notin Requests /\ Main \notin Requests
      /\ NoProc \notin Requests
  BY ProcAssumption DEF IInv, Procs
<1>1. CASE ShutdownSignal
  <2>1. /\ UNCHANGED <<slots, ended, joiner, shutdown, lock, alloc, scaler>>
        /\ daemon = "serve" /\ daemon' = "drain"
    BY <1>1 DEF ShutdownSignal, slotVars
  <2>2. PoolTypeOK' /\ Size' = Size
    BY <1>0, <2>1 DEF PoolTypeOK, Size
  <2>3. LockInv' /\ TaskInv' /\ PoolBounded'
    BY <2>1, <2>2 DEF IInv, LockInv, TaskInv, PoolBounded, Allocating, Serving
  <2> QED
    BY <2>1, <2>2, <2>3, TaskLooksAway DEF IInv
<1>2. CASE Drained
  <2>1. /\ UNCHANGED <<slots, ended, joiner, shutdown, alloc, scaler>>
        /\ daemon = "drain" /\ daemon' = "wait"
        /\ \A q \in Requests : ~Engaged(q)
        /\ lock' = Asked(lock, Main, "write")
    BY <1>2 DEF Drained, slotVars
  <2>2. /\ lock' \in Locks(Procs)
        /\ lock'.writer = lock.writer /\ lock'.readers = lock.readers
        /\ \A q \in Requests : Engaged(q)' => Engaged(q)
    BY <1>0, <2>1, TaskLocks DEF Engaged
  <2>3. PoolTypeOK' /\ Size' = Size
    BY <1>0, <2>1, <2>2 DEF PoolTypeOK, Size
  <2>4. LockInv'
    BY <2>1, <2>2 DEF IInv, LockInv, Allocating
  <2>5. TaskInv' /\ PoolBounded'
    BY <2>1, <2>2, <2>3 DEF IInv, TaskInv, PoolBounded, Serving
  <2> QED
    BY <2>1, <2>3, <2>4, <2>5, TaskLooksAway DEF IInv
<1>3. CASE ShutdownStart
  <2>1. /\ UNCHANGED <<slots, ended, joiner, alloc, scaler>>
        /\ daemon = "wait" /\ daemon' = "stop" /\ shutdown' = "sent"
        /\ MayEnter(lock, Main, "write") /\ lock.writer = NoProc
        /\ lock' = Entered(lock, Main, "write")
    BY <1>3 DEF ShutdownStart, MayEnter
  <2>2. /\ lock' \in Locks(Procs)
        /\ lock'.writer = Main /\ lock'.readers = {}
        /\ \A q \in Requests : Engaged(q)' => Engaged(q)
    BY <1>0, <2>1, TaskLocks DEF Engaged
  <2>3. PoolTypeOK' /\ Size' = Size
    BY <1>0, <2>1, <2>2 DEF PoolTypeOK, Size
  <2>4. LockInv'
    BY <1>0, <2>1, <2>2 DEF IInv, LockInv, Allocating
  <2>5. TaskInv' /\ PoolBounded'
    BY <2>1, <2>2, <2>3 DEF IInv, TaskInv, PoolBounded, Serving
  <2> QED
    BY <2>1, <2>3, <2>4, <2>5, TaskLooksAway DEF IInv
<1>4. CASE ShutdownPop
  <2>1. /\ UNCHANGED <<slots, ended, shutdown, lock, alloc, scaler, daemon>>
        /\ daemon = "stop" /\ joiner = NoProc /\ slots # <<>> /\ joiner' = Main
        /\ lock.writer = Main /\ shutdown = "sent"
    BY <1>4 DEF ShutdownPop, taskVars, IInv, LockInv, TaskInv
  <2>2. PoolTypeOK'
    BY <1>0, <2>1 DEF PoolTypeOK
  <2>3. LockInv' /\ PoolBounded'
    BY <1>0, <2>1 DEF IInv, LockInv, PoolBounded, Allocating
  <2>4. TaskInv'
    BY <1>0, <2>1 DEF IInv, LockInv, TaskInv, Serving, Engaged
  <2> QED
    BY <2>1, <2>2, <2>3, <2>4, TaskLooksAway DEF IInv
<1>5. CASE ShutdownDone
  <2>1. /\ UNCHANGED <<slots, ended, joiner, shutdown, alloc, scaler>>
        /\ daemon = "stop" /\ daemon' = "exit" /\ joiner = NoProc
        /\ lock.writer = Main /\ lock' = Left(lock, Main)
    BY <1>5 DEF ShutdownDone, slotVars, IInv, LockInv
  <2>2. /\ lock' \in Locks(Procs) /\ lock'.writer = NoProc
        /\ \A q \in Requests : Engaged(q)' => Engaged(q)
    BY <1>0, <2>1, TaskLocks DEF Engaged
  <2>3. PoolTypeOK' /\ Size' = Size
    BY <1>0, <2>1, <2>2 DEF PoolTypeOK, Size
  <2>4. LockInv'
    BY <1>0, <2>1, <2>2 DEF IInv, LockInv, Allocating
  <2>5. TaskInv' /\ PoolBounded'
    BY <2>1, <2>2, <2>3 DEF IInv, TaskInv, PoolBounded, Serving
  <2> QED
    BY <2>1, <2>3, <2>4, <2>5, TaskLooksAway DEF IInv
<1> QED
  BY <1>1, <1>2, <1>3, <1>4, <1>5 DEF Stopping

(* The popped slot goes; the pool was already counted without it.          *)
LEMMA JoiningKeeps ==
  ASSUME IInv, Joining
  PROVE  IInv'
<1>1. PICK t \in {Autoscaler, Main} : Join(t)
  BY DEF Joining
<1>2. /\ PoolTypeOK /\ Autoscaler # Main
      /\ Autoscaler # NoProc /\ Main # NoProc
      /\ Autoscaler \notin Requests /\ Main \notin Requests
      /\ NoProc \notin Requests
      /\ slots \in Seq(SlotRecords)
      /\ Len(slots) \in Nat /\ Len(slots) >= 1
  <2>1. Len(slots) \in DOMAIN slots /\ DOMAIN slots = 1..Len(slots)
    BY <1>1 DEF Join, IInv, PoolTypeOK
  <2> QED
    BY <2>1, ProcAssumption DEF IInv, PoolTypeOK, Procs
<1>3. /\ joiner = t /\ joiner' = NoProc
      /\ slots' = SubSeq(slots, 1, Len(slots) - 1)
      /\ ended' = ended \ {Len(slots)}
      /\ UNCHANGED <<shutdown, alloc, daemon>>
      /\ lock.writer = t
      /\ t = Autoscaler => scaler' = "sleep" /\ lock' = Left(lock, Autoscaler)
      /\ t = Main => UNCHANGED <<scaler, lock>>
  BY <1>1, <1>2 DEF Join, IInv, LockInv
<1>4. /\ slots' \in Seq(SlotRecords) /\ Len(slots') = Len(slots) - 1
      /\ DOMAIN slots' = 1..(Len(slots) - 1)
      /\ DOMAIN slots = 1..Len(slots)
      /\ \A j \in DOMAIN slots' : j \in DOMAIN slots /\ slots'[j] = slots[j]
  <2>1. /\ 1 \in Int /\ Len(slots) - 1 \in Int
        /\ \A j \in 1..(Len(slots) - 1) : slots[j] \in SlotRecords
    BY <1>2
  <2>2. /\ slots' \in Seq(SlotRecords)
        /\ Len(slots') = IF 1 <= Len(slots) - 1 THEN (Len(slots) - 1) - 1 + 1 ELSE 0
        /\ \A j \in 1..((Len(slots) - 1) - 1 + 1) : slots'[j] = slots[1 + j - 1]
    BY <1>3, <2>1, SubSeqProperties
  <2>3. Len(slots') = Len(slots) - 1
    <3>1. \A n \in Nat : n >= 1 =>
            (IF 1 <= n - 1 THEN (n - 1) - 1 + 1 ELSE 0) = n - 1
      OBVIOUS
    <3> QED
      BY <1>2, <2>2, <3>1
  <2> QED
    BY <1>2, <2>2, <2>3
<1>5. Size' = Size
  <2>1. joiner # NoProc /\ joiner' = NoProc /\ Len(slots) \in Int
    BY <1>2, <1>3
  <2>2. Size = Len(slots) - 1
    BY <2>1 DEF Size
  <2>3. Size' = Len(slots') - 0
    BY <2>1 DEF Size
  <2> QED
    BY <1>4, <2>1, <2>2, <2>3
<1>6. /\ lock' \in Locks(Procs)
      /\ lock'.writer # NoProc => lock'.readers = {}
      /\ \A q \in Requests : Engaged(q)' => Engaged(q)
      /\ t = Main => lock'.writer = Main
  <2>1. lock \in Locks(Procs) /\ lock.readers = {}
    BY <1>2, <1>3 DEF IInv, PoolTypeOK, LockInv
  <2>2. CASE t = Autoscaler
    BY <1>2, <1>3, <2>1, <2>2, TaskLocks DEF Engaged
  <2>3. CASE t = Main
    BY <1>3, <2>1, <2>3 DEF Engaged
  <2> QED
    BY <2>2, <2>3
<1>7. \A q \in Requests : ~Allocating(q) /\ ~Allocating(q)'
  BY <1>2, <1>3 DEF IInv, LockInv, Allocating
<1>8. PoolTypeOK'
  <2>1. ended' \subseteq DOMAIN slots' /\ Len(slots') <= MaxSize
    BY <1>2, <1>3, <1>4, SizeAssumption DEF PoolTypeOK
  <2> QED
    BY <1>2, <1>3, <1>4, <1>6, <2>1 DEF PoolTypeOK
<1>9. LockInv'
  BY <1>2, <1>3, <1>6, <1>7 DEF IInv, LockInv
<1>10. ScanInv'
  BY <1>3, <1>7 DEF IInv, ScanInv, Allocating
<1>11. TaskInv'
  BY <1>2, <1>3, <1>5, <1>6 DEF IInv, TaskInv, Serving
<1>12. NamesUnique'
  BY <1>4 DEF IInv, NamesUnique
<1>13. NameStaysFree'
  BY <1>7 DEF NameStaysFree, NameChecked, Allocating
<1>14. PoolBounded'
  BY <1>2, <1>3, <1>4, <1>5, SizeAssumption DEF IInv, PoolBounded
<1> QED
  BY <1>8, <1>9, <1>10, <1>11, <1>12, <1>13, <1>14 DEF IInv

-----------------------------------------------------------------------------
(* The theorems.                                                           *)

(* The invariant holds of the pool that spawn has filled.                  *)
LEMMA InitInvariant == PoolInit => IInv
<1> SUFFICES ASSUME PoolInit PROVE IInv
  OBVIOUS
<1>1. /\ MinSize \in Nat \ {0} /\ MaxSize \in Nat /\ MaxSize >= MinSize
      /\ NoProc \notin Procs
  BY SizeAssumption, ProcAssumption
<1>2. FreshSlot \in SlotRecords /\ FreshSlot.name = NoName
  BY DEF FreshSlot, SlotRecords, States, ProcStates
<1>3. /\ slots \in Seq(SlotRecords) /\ Len(slots) = MinSize
      /\ DOMAIN slots = 1..MinSize
      /\ \A i \in DOMAIN slots : slots[i].name = NoName
  BY <1>1, <1>2 DEF PoolInit
<1>4. Size = MinSize
  BY <1>1, <1>3 DEF PoolInit, Size
<1>5. lock \in Locks(Procs)
  BY DEF PoolInit, LockFree, Locks
<1>6. NoAlloc \in Allocs /\ NoAlloc.phase = "idle"
  BY <1>1 DEF NoAlloc, Allocs, Phases
<1>7. PoolTypeOK
  BY <1>1, <1>3, <1>5, <1>6 DEF PoolInit, PoolTypeOK
<1>8. \A p \in Requests : alloc[p].phase = "idle"
  BY <1>6 DEF PoolInit
<1>9. LockInv /\ ScanInv /\ NameStaysFree
  BY <1>8, ProcAssumption
     DEF PoolInit, LockInv, ScanInv, NameStaysFree, NameChecked, Allocating,
         LockFree, Procs
<1>10. TaskInv
  BY DEF PoolInit, TaskInv, Serving
<1>11. NamesUnique /\ PoolBounded
  BY <1>1, <1>3, <1>4 DEF NamesUnique, PoolBounded
<1> QED
  BY <1>7, <1>9, <1>10, <1>11 DEF IInv

(* Every step of the pool keeps the invariant.                             *)
LEMMA StepInvariant == IInv /\ [PoolNext]_poolVars => IInv'
<1> SUFFICES ASSUME IInv, [PoolNext]_poolVars PROVE IInv'
  OBVIOUS
<1>1. ASSUME NEW p \in Requests, Caller(p) PROVE IInv'
  <2>1. CASE \E n \in Names : AllocRequest(p, n)
    BY <2>1, CallingKeeps
  <2>2. CASE AllocStep(p)
    <3>1. CASE AllocExtend(p) \/ AllocReserve(p)
      BY <3>1, ExtendKeeps, ReserveKeeps
    <3>2. CASE ~AllocExtend(p) /\ ~AllocReserve(p)
      <4>1. UNCHANGED slotVars
        BY <2>2, <3>2 DEF AllocStep, AllocStart, AllocNameNext, AllocNameTaken,
           AllocNameFree, AllocEmptyNext, AllocEmptyFound, AllocExhausted,
           AllocRefused
      <4> QED
        BY <2>2, <3>2, <4>1, LookingKeeps DEF AllocStep
    <3> QED
      BY <3>1, <3>2
  <2>3. CASE ReadRequest(p) \/ ReadEnter(p) \/ ReadLeave(p)
    BY <2>3, CallingKeeps
  <2>4. CASE PoolCall(p)
    BY <2>4, CallingKeeps, SlotEventKeeps DEF PoolCall
  <2> QED
    BY <1>1, <2>1, <2>2, <2>3, <2>4 DEF Caller
<1>2. CASE \E i \in DOMAIN slots : SlotEvent(i)
  BY <1>2, SlotEventKeeps
<1>3. CASE UNCHANGED poolVars
  BY <1>3 DEF poolVars, IInv, PoolTypeOK, LockInv, ScanInv, TaskInv,
              NamesUnique, NameStaysFree, PoolBounded, NameChecked,
              Allocating, Serving, Engaged, Size
<1> QED
  BY <1>1, <1>2, <1>3, ScalingKeeps, StoppingKeeps, JoiningKeeps DEF PoolNext

(* The inductive invariant of the pool.                                    *)
THEOREM Invariance == PoolSpec => []IInv
BY InitInvariant, StepInvariant, PTL DEF PoolSpec

(* The pool's state stays well formed: no index of an allocation and no    *)
(* number of slots ever leaves its range.                                  *)
THEOREM PoolTypeCorrect == PoolSpec => []PoolTypeOK
<1>1. IInv => PoolTypeOK
  BY DEF IInv
<1> QED
  BY <1>1, Invariance, PTL

(* allocate_vm_slot never gives two slots one name.                        *)
THEOREM NamesAreUnique == PoolSpec => []NamesUnique
<1>1. IInv => NamesUnique
  BY DEF IInv
<1> QED
  BY <1>1, Invariance, PTL

(* What find_vm_slot_status_by_name found stays true until the             *)
(* reservation that relies on it.                                          *)
THEOREM NamesStayFree == PoolSpec => []NameStaysFree
<1>1. IInv => NameStaysFree
  BY DEF IInv
<1> QED
  BY <1>1, Invariance, PTL

(* Neither extend nor autoscale_tick takes the pool out of its bounds.     *)
THEOREM PoolStaysBounded == PoolSpec => []PoolBounded
<1>1. IInv => PoolBounded
  BY DEF IInv
<1> QED
  BY <1>1, Invariance, PTL

(* Slots are appended and popped under the write lock with no reader       *)
(* inside.                                                                 *)
THEOREM OnlyWritersResize == PoolSpec => ResizedAlone
<1>1. IInv /\ [PoolNext]_poolVars =>
        [Len(slots') # Len(slots) \/ joiner' # joiner
           => lock.readers = {} /\ lock.writer # NoProc]_poolVars
  <2> SUFFICES ASSUME IInv, PoolNext,
                      Len(slots') # Len(slots) \/ joiner' # joiner
               PROVE  lock.readers = {} /\ lock.writer # NoProc
    OBVIOUS
  <2>0. /\ PoolTypeOK /\ NoProc \notin Procs
        /\ lock.writer # NoProc => lock.readers = {}
        /\ \A i \in DOMAIN slots : \A s : Len([slots EXCEPT ![i] = s]) = Len(slots)
    BY ProcAssumption DEF IInv, LockInv, PoolTypeOK
  <2>1. ASSUME NEW p \in Requests, Caller(p) PROVE lock.writer = p
    <3>1. CASE AllocStep(p)
      <4>1. CASE AllocExtend(p)
        BY <4>1, NobodyJoins DEF AllocExtend, Allocating
      <4>2. CASE AllocReserve(p)
        BY <4>2, NobodyJoins DEF AllocReserve, Allocating
      <4>3. CASE ~AllocExtend(p) /\ ~AllocReserve(p)
        BY <3>1, <4>3 DEF AllocStep, AllocStart, AllocNameNext, AllocNameTaken,
             AllocNameFree, AllocEmptyNext, AllocEmptyFound, AllocExhausted,
             AllocRefused, slotVars
      <4> QED
        BY <4>1, <4>2, <4>3
    <3>2. CASE PoolCall(p)
      <4>1. CASE RequestDropped(p)
        BY <4>1 DEF RequestDropped, slotVars
      <4>2. ASSUME NEW i \in 1..Size,
                   MarkBooted(p, i) \/ ReleaseSlot(p, i) \/ ResetSlot(p, i)
            PROVE  FALSE
        <5>1. i \in DOMAIN slots
          BY <2>0, SizeFacts
        <5> QED
          BY <2>0, <4>2, <5>1 DEF MarkBooted, ReleaseSlot, ResetSlot,
                                  SlotCommand, SlotMoves
      <4> QED
        BY <3>2, <4>1, <4>2 DEF PoolCall
    <3>3. CASE \/ \E n \in Names : AllocRequest(p, n)
               \/ ReadRequest(p) \/ ReadEnter(p) \/ ReadLeave(p)
      BY <3>3 DEF AllocRequest, ReadRequest, ReadEnter, ReadLeave, slotVars
    <3> QED
      BY <2>1, <3>1, <3>2, <3>3 DEF Caller
  <2>2. CASE Scaling
    BY <2>0, <2>2 DEF Scaling, ScalerTick, ScalerKeeps, ScalerShrinks, ScalerPop,
                slotVars, IInv, LockInv, Procs
  <2>3. CASE Stopping
    BY <2>0, <2>3 DEF Stopping, ShutdownSignal, Drained, ShutdownStart,
                ShutdownPop, ShutdownDone, slotVars, IInv, LockInv, Procs
  <2>4. CASE Joining
    BY <2>0, <2>4 DEF Joining, Join, IInv, LockInv, Procs
  <2>5. ASSUME NEW i \in DOMAIN slots, SlotEvent(i) PROVE FALSE
    BY <2>0, <2>5 DEF SlotEvent, Spawn, SpawnFails, Reap, PollFails, Listen,
                Exit, WorkerEnds, WorkerMoves, SlotMoves
  <2> QED
    BY <2>0, <2>1, <2>2, <2>3, <2>4, <2>5 DEF PoolNext, Procs
<1> QED
  BY <1>1, Invariance, PTL DEF PoolSpec, ResizedAlone

-----------------------------------------------------------------------------
(* What a step may do to the slots.                                        *)

(* Slot i becomes s, which is brought about by a reader, by the slot's own *)
(* worker and VMM, or by a reservation of an Empty slot.                   *)
OneSlotMoves(i, s) ==
  /\ slots' = [slots EXCEPT ![i] = s]
  /\ UNCHANGED <<joiner, scaler>>
  /\ Alive(s) /\ slots[i].proc = "serving" => s.proc = "serving"
  /\ slots[i].state = "Occupied" /\ s.proc # "none" => s.state = "Occupied"
  /\ \/ s = FreshSlot /\ (lock.readers # {} \/ slots[i].proc = "exited")
     \/ s.name = slots[i].name /\ (Tenanted(s) => Tenanted(slots[i]))
     \/ slots[i].state = "Empty" /\ lock.writer \in Requests

(* No slot changes; the last one may be popped, by the autoscaler when it  *)
(* decided to or by main, and the autoscaler may decide it.                *)
SlotsStay ==
  /\ UNCHANGED slots
  /\ joiner' # joiner =>
       /\ lock.writer \in {Autoscaler, Main} /\ joiner = NoProc
       /\ scaler = "pop" \/ daemon = "stop"
  /\ scaler' = "pop" =>
       joiner' = joiner /\ (scaler = "pop" \/ slots[Size].state = "Empty")

(* A step leaves the slots alone, changes one of them, adds a fresh one at *)
(* the end, or takes the last one away.                                    *)
LEMMA SlotSteps ==
  ASSUME IInv, [PoolNext]_poolVars
  PROVE  \/ SlotsStay
         \/ \E i \in DOMAIN slots, s \in SlotRecords : OneSlotMoves(i, s)
         \/ /\ slots' = Append(slots, FreshSlot)
            /\ joiner = NoProc /\ UNCHANGED <<joiner, scaler>>
            /\ lock.writer \in Requests
         \/ /\ slots' = SubSeq(slots, 1, Len(slots) - 1) /\ slots # <<>>
            /\ joiner # NoProc /\ joiner' = NoProc
            /\ lock.writer \in {Autoscaler, Main} /\ scaler' \in {"sleep", scaler}
            /\ scaler # "pop"
<1> DEFINE Goal1 == SlotsStay
           Goal2 == \E i \in DOMAIN slots, s \in SlotRecords : OneSlotMoves(i, s)
           Goal3 == /\ slots' = Append(slots, FreshSlot)
                    /\ joiner = NoProc /\ UNCHANGED <<joiner, scaler>>
                    /\ lock.writer \in Requests
           Goal4 == /\ slots' = SubSeq(slots, 1, Len(slots) - 1) /\ slots # <<>>
                    /\ joiner # NoProc /\ joiner' = NoProc
                    /\ lock.writer \in {Autoscaler, Main}
                    /\ scaler' \in {"sleep", scaler}
                    /\ scaler # "pop"
<1> SUFFICES Goal1 \/ Goal2 \/ Goal3 \/ Goal4
  OBVIOUS
<1>0. /\ PoolTypeOK /\ slots \in Seq(SlotRecords)
      /\ \A i \in DOMAIN slots : slots[i] \in SlotRecords
      /\ 1..Size \subseteq DOMAIN slots
      /\ FreshSlot \in SlotRecords /\ ~Alive(FreshSlot)
      /\ FreshSlot.proc = "none"
      /\ Autoscaler # Main /\ Autoscaler # NoProc /\ Main # NoProc
  <2>1. PoolTypeOK /\ slots \in Seq(SlotRecords)
    BY DEF IInv, PoolTypeOK
  <2>2. /\ \A i \in DOMAIN slots : slots[i] \in SlotRecords
        /\ 1..Size \subseteq DOMAIN slots
    BY <2>1, SizeFacts DEF PoolTypeOK
  <2>3. FreshSlot \in SlotRecords /\ ~Alive(FreshSlot) /\ FreshSlot.proc = "none"
    BY DEF FreshSlot, SlotRecords, States, ProcStates, Alive
  <2>4. Autoscaler # Main /\ Autoscaler # NoProc /\ Main # NoProc
    BY ProcAssumption DEF Procs
  <2> QED
    BY <2>1, <2>2, <2>3, <2>4
<1>0a. UNCHANGED <<slots, joiner, scaler>> => SlotsStay
  BY DEF SlotsStay
<1>1. ASSUME NEW p \in Requests, Caller(p) PROVE Goal1 \/ Goal2 \/ Goal3
  <2>1. CASE AllocExtend(p)
    <3>1. joiner = NoProc /\ lock.writer = p
      BY <2>1, NobodyJoins DEF AllocExtend, Allocating
    <3> QED
      BY <2>1, <3>1 DEF AllocExtend, AllocGoes, taskVars
  <2>2. CASE AllocReserve(p)
    <3> DEFINE i == alloc[p].at
               s == Claimed(slots[i], alloc[p].name)
    <3>1. lock.writer = p /\ i \in DOMAIN slots /\ alloc[p].name \in Names
      <4>1. Allocating(p)
        BY <2>2 DEF AllocReserve, Allocating
      <4> QED
        BY <1>0, <4>1, NobodyJoins DEF IInv, ScanInv
    <3>2. slots[i] \in SlotRecords /\ slots[i].state = "Empty"
      BY <1>0, <2>2, <3>1 DEF AllocReserve
    <3>3. s \in SlotRecords /\ s.proc = slots[i].proc
      BY <3>1, <3>2 DEF Claimed, SlotRecords, States
    <3>4. /\ slots' = [slots EXCEPT ![i] = s]
          /\ UNCHANGED <<joiner, scaler>>
      BY <2>2 DEF AllocReserve, AllocReturns, taskVars
    <3> HIDE DEF s, i
    <3>5. OneSlotMoves(i, s)
      BY <3>1, <3>2, <3>3, <3>4 DEF OneSlotMoves, Alive
    <3> QED
      BY <3>1, <3>3, <3>5
  <2>3. CASE AllocStep(p) /\ ~AllocExtend(p) /\ ~AllocReserve(p)
    BY <1>0a, <2>3 DEF SlotsStay, AllocGoes, AllocReturns, taskVars, AllocStep, AllocStart, AllocNameNext, AllocNameTaken,
         AllocNameFree, AllocEmptyNext, AllocEmptyFound, AllocExhausted,
         AllocRefused, slotVars
  <2>4. CASE \/ \E n \in Names : AllocRequest(p, n)
             \/ ReadRequest(p) \/ ReadEnter(p) \/ ReadLeave(p)
             \/ RequestDropped(p)
    BY <1>0a, <2>4 DEF SlotsStay, AllocRequest, ReadRequest, ReadEnter,
         ReadLeave, RequestDropped, slotVars, taskVars
  <2>5. ASSUME NEW i \in 1..Size,
               MarkBooted(p, i) \/ ReleaseSlot(p, i) \/ ResetSlot(p, i)
        PROVE  Goal2
    <3>1. /\ i \in DOMAIN slots /\ slots[i] \in SlotRecords
          /\ lock.readers # {} /\ UNCHANGED <<joiner, scaler>>
      BY <1>0, <2>5 DEF MarkBooted, ReleaseSlot, ResetSlot, SlotCommand,
                        SlotMoves, taskVars
    <3>2. CASE MarkBooted(p, i)
      <4>1. /\ Booted(slots[i]) \in SlotRecords
            /\ Booted(slots[i]).name = slots[i].name
            /\ Booted(slots[i]).proc = slots[i].proc
            /\ slots[i].state = "Booting"
            /\ slots' = [slots EXCEPT ![i] = Booted(slots[i])]
        BY <3>1, <3>2 DEF MarkBooted, SlotCommand, SlotMoves, Booted,
                          SlotRecords, States
      <4>2. OneSlotMoves(i, Booted(slots[i]))
        BY <3>1, <4>1 DEF OneSlotMoves, Alive, Tenanted
      <4> QED
        BY <3>1, <4>1, <4>2
    <3>3. CASE ReleaseSlot(p, i) \/ ResetSlot(p, i)
      <4>1. slots' = [slots EXCEPT ![i] = FreshSlot]
        BY <3>3 DEF ReleaseSlot, ResetSlot, SlotCommand, SlotMoves
      <4>2. OneSlotMoves(i, FreshSlot)
        BY <1>0, <3>1, <4>1 DEF OneSlotMoves
      <4> QED
        BY <1>0, <3>1, <4>2
    <3> QED
      BY <2>5, <3>2, <3>3
  <2> QED
    BY <1>1, <2>1, <2>2, <2>3, <2>4, <2>5 DEF Caller, PoolCall
<1>2. ASSUME NEW i \in DOMAIN slots, SlotEvent(i) PROVE Goal2
  <2>1. /\ slots[i] \in SlotRecords /\ UNCHANGED <<joiner, scaler>>
    BY <1>0, <1>2 DEF SlotEvent, Spawn, SpawnFails, Reap, PollFails, Listen,
         Exit, WorkerEnds, WorkerMoves, SlotMoves, taskVars
  <2>2. ASSUME NEW s \in SlotRecords, slots' = [slots EXCEPT ![i] = s],
               Alive(s) /\ slots[i].proc = "serving" => s.proc = "serving",
               s.state # slots[i].state => s.proc = "none",
               \/ s = FreshSlot /\ slots[i].proc = "exited"
               \/ s.name = slots[i].name /\ (Tenanted(s) => Tenanted(slots[i]))
        PROVE  Goal2
    BY <2>1, <2>2 DEF OneSlotMoves
  <2>3. CASE Spawn(i)
    <3>1. /\ Spawned(slots[i]) \in SlotRecords
          /\ Spawned(slots[i]).name = slots[i].name
          /\ Spawned(slots[i]).state = slots[i].state
          /\ slots[i].proc = "none"
          /\ slots' = [slots EXCEPT ![i] = Spawned(slots[i])]
      BY <2>1, <2>3 DEF Spawn, ChildMissing, WorkerMoves, SlotMoves, Spawned,
                        SlotRecords, ProcStates
    <3> QED
      BY <2>2, <3>1 DEF Tenanted
  <2>4. CASE SpawnFails(i) \/ PollFails(i)
    <3>1. /\ Broken(slots[i]) \in SlotRecords
          /\ Broken(slots[i]).name = slots[i].name
          /\ Broken(slots[i]).state = "Failed"
          /\ Broken(slots[i]).proc = "none"
          /\ slots' = [slots EXCEPT ![i] = Broken(slots[i])]
      BY <2>1, <2>4 DEF SpawnFails, PollFails, WorkerMoves, SlotMoves, Broken,
                        SlotRecords, States, ProcStates
    <3> QED
      BY <2>2, <3>1 DEF Tenanted, Alive
  <2>5. CASE Reap(i)
    <3>1. /\ slots[i].proc = "exited"
          /\ slots' = [slots EXCEPT ![i] = Reaped(slots[i])]
      BY <2>5 DEF Reap, WorkerMoves, SlotMoves
    <3>2. CASE Tenanted(slots[i])
      BY <1>0, <2>2, <3>1, <3>2 DEF Reaped
    <3>3. CASE ~Tenanted(slots[i])
      <4>1. /\ Reaped(slots[i]) \in SlotRecords
            /\ Reaped(slots[i]).name = slots[i].name
            /\ Reaped(slots[i]).state = slots[i].state
        BY <2>1, <3>3 DEF Reaped, SlotRecords, ProcStates
      <4> QED
        BY <2>2, <3>1, <4>1 DEF Tenanted
    <3> QED
      BY <3>2, <3>3
  <2>6. CASE Listen(i) \/ Exit(i)
    <3>1. PICK c \in {"serving", "exited"} :
            slots' = [slots EXCEPT ![i] = [slots[i] EXCEPT !.proc = c]]
      BY <2>6 DEF Listen, Exit, WorkerMoves, SlotMoves
    <3>2. /\ [slots[i] EXCEPT !.proc = c] \in SlotRecords
          /\ [slots[i] EXCEPT !.proc = c].name = slots[i].name
          /\ [slots[i] EXCEPT !.proc = c].state = slots[i].state
          /\ [slots[i] EXCEPT !.proc = c].proc = c
      BY <2>1 DEF SlotRecords, ProcStates
    <3> QED
      BY <2>2, <3>1, <3>2 DEF Tenanted, Alive
  <2>7. CASE WorkerEnds(i)
    <3>1. /\ Stopped(slots[i]) \in SlotRecords
          /\ Stopped(slots[i]).name = slots[i].name
          /\ Stopped(slots[i]).state = slots[i].state
          /\ Stopped(slots[i]).proc = "none"
          /\ slots' = [slots EXCEPT ![i] = Stopped(slots[i])]
      BY <1>0, <2>1, <2>7 DEF WorkerEnds, Stopped, SlotRecords, ProcStates
    <3> QED
      BY <2>2, <3>1 DEF Tenanted, Alive
  <2> QED
    BY <1>2, <2>3, <2>4, <2>5, <2>6, <2>7 DEF SlotEvent
<1>3. CASE Scaling \/ Stopping
  <2>1. CASE ScalerPop \/ ShutdownPop
    BY <1>0, <1>0a, <2>1 DEF SlotsStay, ScalerPop, ShutdownPop, IInv, LockInv,
         PoolTypeOK, taskVars
  <2>2. CASE ScalerTick \/ ScalerKeeps \/ ScalerShrinks
    BY <2>2 DEF SlotsStay, ScalerTick, ScalerKeeps, ScalerShrinks, slotVars
  <2>3. CASE ShutdownSignal \/ Drained \/ ShutdownStart \/ ShutdownDone
    BY <1>0a, <2>3 DEF SlotsStay, ShutdownSignal, Drained, ShutdownStart,
         ShutdownDone, slotVars
  <2> QED
    BY <1>3, <2>1, <2>2, <2>3 DEF Scaling, Stopping
<1>4. CASE Joining
  <2>1. PICK t \in {Autoscaler, Main} : Join(t)
    BY <1>4 DEF Joining
  <2>2. /\ joiner = t /\ joiner' = NoProc /\ slots # <<>>
        /\ slots' = SubSeq(slots, 1, Len(slots) - 1)
        /\ scaler' \in {"sleep", scaler}
    BY <1>0, <2>1 DEF Join, PoolTypeOK
  <2>3. lock.writer = t /\ scaler # "pop"
    BY <1>0, <2>2 DEF IInv, LockInv
  <2> QED
    BY <1>0, <2>2, <2>3
<1>5. CASE UNCHANGED poolVars
  BY <1>5, <1>0a DEF poolVars, SlotsStay
<1> HIDE DEF Goal1, Goal2, Goal3, Goal4
<1> QED
  BY <1>1, <1>2, <1>3, <1>4, <1>5 DEF PoolNext

(* A slot that the autoscaler is about to pop holds no VM.                 *)
PopInv == scaler = "pop" => ~Tenanted(slots[Size])

(* Nobody reserves the last slot between the look the autoscaler takes at  *)
(* it and the pop, since the write lock is held.                           *)
LEMMA PopKeeps ==
  ASSUME IInv, PopInv, [PoolNext]_poolVars
  PROVE  PopInv'
<1> SUFFICES ASSUME scaler' = "pop" PROVE ~Tenanted(slots[Size])'
  BY DEF PopInv
<1>0. /\ \A i \in DOMAIN slots : slots[i] \in SlotRecords
      /\ Size \in Nat /\ Size <= Len(slots) /\ DOMAIN slots = 1..Len(slots)
  BY SizeFacts DEF IInv, PoolTypeOK
<1>1. CASE SlotsStay
  <2>1. Size' = Size /\ (scaler = "pop" \/ slots[Size].state = "Empty")
    BY <1>1 DEF SlotsStay, Size
  <2> QED
    BY <1>1, <2>1 DEF SlotsStay, PopInv, Tenanted
<1>2. ASSUME scaler = "pop"
      PROVE  /\ lock.writer = Autoscaler /\ lock.readers = {}
             /\ lock.writer \notin Requests
  BY <1>2, ProcAssumption DEF IInv, LockInv, Procs
<1>3. ASSUME NEW i \in DOMAIN slots, NEW s \in SlotRecords, OneSlotMoves(i, s)
      PROVE  ~Tenanted(slots[Size])'
  <2>1. scaler = "pop" /\ Len(slots') = Len(slots) /\ Size' = Size
    BY <1>0, <1>3 DEF OneSlotMoves, Size, IInv, PoolTypeOK
  <2>2. ~Tenanted(slots[Size])
    BY <2>1 DEF PopInv
  <2>3. CASE i = Size
    <3>1. slots'[Size] = s
      BY <1>3, <2>3 DEF OneSlotMoves
    <3>2. s = FreshSlot \/ (Tenanted(s) => Tenanted(slots[i]))
      BY <1>2, <1>3, <2>1 DEF OneSlotMoves
    <3>3. ~Tenanted(s)
      BY <2>2, <2>3, <3>2 DEF FreshSlot, Tenanted
    <3> QED
      BY <2>1, <3>1, <3>3 DEF Tenanted
  <2>4. CASE i # Size
    <3>1. slots'[Size] = slots[Size]
      BY <1>3, <2>4 DEF OneSlotMoves
    <3> QED
      BY <2>1, <2>2, <3>1 DEF Tenanted
  <2> QED
    BY <2>3, <2>4
<1> QED
  BY <1>1, <1>2, <1>3, SlotSteps

(* For every size of the pool, any number of requests and all faults: a VM *)
(* leaves its slot for a command of a reader, the exit of its VMM or       *)
(* shutdown, and for nothing else. allocate_vm_slot claims no slot that    *)
(* holds one, and autoscale_tick, which pops a slot a step after it read   *)
(* the slot's status, removes none.                                        *)
THEOREM TenantsStay == PoolSpec => TenantsKept
<1>1. PoolInit => PopInv
  BY DEF PoolInit, PopInv
<1>2. ASSUME IInv, PopInv, [PoolNext]_poolVars,
             NEW i \in Nat, 1 <= i, i <= Size, Tenanted(slots[i]),
             i > Size' \/ slots'[i].name # slots[i].name
      PROVE  lock.readers # {} \/ slots[i].proc = "exited" \/ shutdown = "sent"
  <2>0. /\ Size \in Nat /\ Len(slots) \in Nat /\ Size <= Len(slots)
        /\ joiner = NoProc => Size = Len(slots)
        /\ joiner # NoProc => Size = Len(slots) - 1
    BY <1>2, SizeFacts DEF IInv
  <2>00. slots \in Seq(SlotRecords)
    BY <1>2 DEF IInv, PoolTypeOK
  <2>0a. i \in Nat /\ 1 <= i /\ i <= Size
    BY <1>2
  <2>1. CASE SlotsStay
    <3>1. CASE joiner' = joiner
      <4>1. Size' = Size /\ slots' = slots
        BY <2>1, <3>1 DEF SlotsStay, Size
      <4>2. ~(i > Size') /\ slots'[i].name = slots[i].name
        BY <2>0, <2>0a, <4>1
      <4> QED
        BY <1>2, <4>2
    <3>2. CASE daemon = "stop"
      BY <1>2, <3>2 DEF IInv, TaskInv
    <3>3. CASE joiner' # joiner /\ scaler = "pop"
      <4>1. Size' >= Size - 1 /\ Size' \in Int /\ UNCHANGED slots
        BY <2>0, <2>1, <3>3 DEF SlotsStay, Size
      <4>2. i = Size
        <5>1. i > Size'
          BY <1>2, <4>1
        <5> QED
          BY <2>0, <2>0a, <4>1, <5>1
      <4> QED
        BY <1>2, <3>3, <4>2 DEF PopInv
    <3> QED
      BY <2>1, <3>1, <3>2, <3>3 DEF SlotsStay
  <2>2. ASSUME NEW j \in DOMAIN slots, NEW s \in SlotRecords, OneSlotMoves(j, s)
        PROVE  lock.readers # {} \/ slots[i].proc = "exited"
    <3>1. Size' = Size
      <4>1. Len(slots') = Len(slots) /\ joiner' = joiner
        BY <2>00, <2>2 DEF OneSlotMoves
      <4> QED
        BY <2>0, <2>0a, <4>1 DEF Size
    <3>1a. i \in DOMAIN slots
      BY <2>0, <2>0a, <2>00
    <3>2. j = i /\ slots'[i] = s /\ s.name # slots[i].name
      <4>1. slots'[i].name # slots[i].name
        BY <1>2, <2>0, <2>0a, <3>1
      <4> QED
        BY <2>2, <3>1a, <4>1 DEF OneSlotMoves
    <3>3. slots[i].state # "Empty"
      BY <1>2 DEF Tenanted
    <3> QED
      BY <2>2, <3>2, <3>3 DEF OneSlotMoves
  <2>3. CASE slots' = Append(slots, FreshSlot) /\ joiner = NoProc /\ UNCHANGED joiner
    BY <1>2, <2>0, <2>0a, <2>00, <2>3 DEF Size
  <2>4. CASE /\ slots' = SubSeq(slots, 1, Len(slots) - 1) /\ slots # <<>>
             /\ joiner # NoProc /\ joiner' = NoProc
    <3>1. Len(slots') = Len(slots) - 1 /\ slots'[i] = slots[i]
      BY <2>0, <2>0a, <2>00, <2>4
    <3>2. Size' = Size
      BY <2>0, <2>4, <3>1 DEF Size
    <3> QED
      BY <1>2, <2>0, <2>0a, <3>1, <3>2
  <2> QED
    BY <1>2, <2>1, <2>2, <2>3, <2>4, SlotSteps
<1>3. IInv /\ PopInv /\ [PoolNext]_poolVars => PopInv'
  BY PopKeeps
<1>4. IInv /\ PopInv /\ [PoolNext]_poolVars
        => [\A i \in 1..Size :
              Tenanted(slots[i]) /\ (i > Size' \/ slots'[i].name # slots[i].name)
              => \/ lock.readers # {}
                 \/ slots[i].proc = "exited"
                 \/ shutdown = "sent"]_poolVars
  <2> SUFFICES ASSUME IInv, PopInv, [PoolNext]_poolVars,
                      NEW i \in 1..Size, Tenanted(slots[i]),
                      i > Size' \/ slots'[i].name # slots[i].name
               PROVE  \/ lock.readers # {} \/ slots[i].proc = "exited"
                      \/ shutdown = "sent"
    OBVIOUS
  <2>1. Size \in Nat
    BY SizeFacts DEF IInv
  <2>2. i \in Nat /\ 1 <= i /\ i <= Size
    BY <2>1
  <2> QED
    BY <1>2, <2>2
<1> QED
  BY <1>1, <1>3, <1>4, Invariance, PTL DEF PoolSpec, TenantsKept

-----------------------------------------------------------------------------
(* What callers that use the lock step by step can rely on.                *)

(* q is in the line at most once, and not while it is inside.              *)
InLineOnce(l, q) ==
  /\ Holds(l, q) => ~Waits(l, q)
  /\ \A j, k \in DOMAIN l.queue :
       l.queue[j].who = q /\ l.queue[k].who = q => j = k

LineInv == \A q \in Requests : InLineOnce(lock, q)

(* What p may do to the lock. *)
LockStep(p) ==
  \/ UNCHANGED lock
  \/ /\ p \in Requests => ~Engaged(p)
     /\ \E m \in {"read", "write"} : lock' = Asked(lock, p, m)
  \/ \E m \in {"read", "write"} :
       MayEnter(lock, p, m) /\ lock' = Entered(lock, p, m)
  \/ lock.queue # <<>> /\ lock' = [lock EXCEPT !.queue = Tail(@)]
  \/ lock' = Left(lock, p)
  \/ lock' = Forgotten(lock, p)

(* The line with its k-th place taken out. *)
Without(queue, k) == SubSeq(queue, 1, k - 1) \o SubSeq(queue, k + 1, Len(queue))

(* What is left of a line when one place is taken out of it: the places    *)
(* before keep their numbers, those behind move up by one.                 *)
LEMMA WithoutFacts ==
  ASSUME NEW S, NEW queue \in Seq(S), NEW k \in 1..Len(queue)
  PROVE  /\ Without(queue, k) \in Seq(S)
         /\ Len(Without(queue, k)) = Len(queue) - 1
         /\ \A j \in 1..(Len(queue) - 1) :
              Without(queue, k)[j] = queue[IF j < k THEN j ELSE j + 1]
<1> DEFINE A == SubSeq(queue, 1, k - 1)
           B == SubSeq(queue, k + 1, Len(queue))
<1>1. /\ A \in Seq(S) /\ Len(A) = k - 1
      /\ \A j \in 1..(k - 1) : A[j] = queue[j]
  OBVIOUS
<1>2. /\ B \in Seq(S) /\ Len(B) = Len(queue) - k
      /\ \A j \in 1..(Len(queue) - k) : B[j] = queue[k + j]
  OBVIOUS
<1> HIDE DEF A, B
<1>3. /\ A \o B \in Seq(S) /\ Len(A \o B) = Len(queue) - 1
      /\ \A j \in 1..(Len(queue) - 1) :
           (A \o B)[j] = IF j <= k - 1 THEN A[j] ELSE B[j - (k - 1)]
  <2>1. /\ A \o B \in Seq(S) /\ Len(A \o B) = Len(A) + Len(B)
        /\ \A j \in 1..(Len(A) + Len(B)) :
             (A \o B)[j] = IF j <= Len(A) THEN A[j] ELSE B[j - Len(A)]
    <3>1. A \in Seq(S) /\ B \in Seq(S)
      BY <1>1, <1>2
    <3> QED
      BY <3>1, ConcatProperties
  <2>2. Len(A) = k - 1 /\ Len(A) + Len(B) = Len(queue) - 1
    BY <1>1, <1>2
  <2> QED
    BY <2>1, <2>2
<1>4. \A j \in 1..(Len(queue) - 1) :
        (A \o B)[j] = queue[IF j < k THEN j ELSE j + 1]
  <2> SUFFICES ASSUME NEW j \in 1..(Len(queue) - 1)
               PROVE  (A \o B)[j] = queue[IF j < k THEN j ELSE j + 1]
    OBVIOUS
  <2>1. CASE j < k
    BY <1>1, <1>3, <2>1
  <2>2. CASE ~(j < k)
    <3>1. j - (k - 1) \in 1..(Len(queue) - k) /\ k + (j - (k - 1)) = j + 1
      BY <2>2
    <3>2. (A \o B)[j] = B[j - (k - 1)]
      BY <1>3, <2>2
    <3> QED
      BY <1>2, <2>2, <3>1, <3>2
  <2> QED
    BY <2>1, <2>2
<1> QED
  BY <1>3, <1>4 DEF Without, A, B

(* What a line without some of its places is to whoever is in it. *)
LEMMA ThinnedLine ==
  ASSUME NEW l \in Locks(Procs), NEW n \in Locks(Procs), NEW q \in Procs,
         InLineOnce(l, q), Holds(n, q) => Holds(l, q),
         NEW f \in [DOMAIN n.queue -> DOMAIN l.queue],
         \A j, k \in DOMAIN n.queue : f[j] = f[k] => j = k,
         \A j \in DOMAIN n.queue : n.queue[j] = l.queue[f[j]]
  PROVE  InLineOnce(n, q) /\ (Waits(n, q) => Waits(l, q))
BY DEF InLineOnce, Waits

(* Who asks for a guard while neither in line nor inside is in line once.  *)
LEMMA AskedLine ==
  ASSUME NEW l \in Locks(Procs), NEW p \in Procs, NEW q \in Procs,
         NEW m \in {"read", "write"}, InLineOnce(l, q),
         p = q => ~Waits(l, p) /\ ~Holds(l, p)
  PROVE  InLineOnce(Asked(l, p, m), q)
<1> DEFINE e == [who |-> p, mode |-> m]
           n == Asked(l, p, m)
<1>1. /\ l.queue \in Seq([who : Procs, mode : {"read", "write"}])
      /\ n.queue = Append(l.queue, e)
      /\ n.readers = l.readers /\ n.writer = l.writer
  BY DEF Locks, Asked
<1>2. /\ e \in [who : Procs, mode : {"read", "write"}] /\ e.who = p
      /\ Len(n.queue) = Len(l.queue) + 1
      /\ DOMAIN n.queue = 1..(Len(l.queue) + 1) /\ DOMAIN l.queue = 1..Len(l.queue)
      /\ n.queue[Len(l.queue) + 1].who = p
      /\ \A j \in DOMAIN l.queue : n.queue[j] = l.queue[j]
      /\ Len(l.queue) \in Nat
  BY <1>1
<1> HIDE DEF e, n
<1>3. \A j \in DOMAIN n.queue : j \in DOMAIN l.queue \/ j = Len(l.queue) + 1
  BY <1>2
<1>4. CASE p = q
  <2>1. \A j \in DOMAIN n.queue : n.queue[j].who = q => j = Len(l.queue) + 1
    BY <1>2, <1>3, <1>4 DEF Waits
  <2>2. ~Holds(n, q)
    BY <1>1, <1>4 DEF Holds
  <2> QED
    BY <2>1, <2>2 DEF InLineOnce, n
<1>5. CASE p # q
  <2>1. \A j \in DOMAIN n.queue :
          n.queue[j].who = q => j \in DOMAIN l.queue /\ l.queue[j].who = q
    BY <1>2, <1>3, <1>5
  <2>2. Holds(n, q) => Holds(l, q)
    BY <1>1 DEF Holds
  <2> QED
    BY <2>1, <2>2 DEF InLineOnce, Waits, n
<1> QED
  BY <1>4, <1>5

(* The head of the line goes away: nobody comes to be in it twice.         *)
LEMMA TailLine ==
  ASSUME NEW l \in Locks(Procs), NEW n \in Locks(Procs), NEW q \in Procs,
         InLineOnce(l, q), l.queue # <<>>, n.queue = Tail(l.queue),
         Holds(n, q) => Holds(l, q)
  PROVE  InLineOnce(n, q)
<1> DEFINE f == [j \in DOMAIN n.queue |-> j + 1]
<1>1. /\ DOMAIN l.queue = 1..Len(l.queue) /\ DOMAIN n.queue = 1..(Len(l.queue) - 1)
      /\ Len(l.queue) \in Nat
      /\ \A j \in DOMAIN n.queue : n.queue[j] = l.queue[j + 1]
  BY HeadTailProperties DEF Locks
<1>2. /\ f \in [DOMAIN n.queue -> DOMAIN l.queue]
      /\ \A j \in DOMAIN n.queue : f[j] = j + 1
      /\ \A j, k \in DOMAIN n.queue : f[j] = f[k] => j = k
  BY <1>1
<1> HIDE DEF f
<1>3. \A j \in DOMAIN n.queue : n.queue[j] = l.queue[f[j]]
  BY <1>1, <1>2
<1> QED
  BY <1>2, <1>3, ThinnedLine

(* The head of the line enters, and is in the line no more.                *)
LEMMA EnteredLine ==
  ASSUME NEW l \in Locks(Procs), NEW p \in Procs, NEW q \in Procs,
         NEW m \in {"read", "write"}, MayEnter(l, p, m), InLineOnce(l, q)
  PROVE  InLineOnce(Entered(l, p, m), q)
<1> DEFINE n == Entered(l, p, m)
<1>1. l.queue # <<>> /\ Head(l.queue).who = p
  BY DEF MayEnter
<1>2. n \in Locks(Procs) /\ n.queue = Tail(l.queue)
  BY <1>1, LockTyped DEF Entered
<1>3. CASE p # q
  <2>1. Holds(n, q) => Holds(l, q)
    BY <1>3, LockOthers
  <2> QED
    BY <1>1, <1>2, <2>1, TailLine DEF n
<1>4. CASE p = q
  <2>1. /\ DOMAIN l.queue = 1..Len(l.queue) /\ Len(l.queue) \in Nat
        /\ DOMAIN n.queue = 1..(Len(l.queue) - 1) /\ 1 \in DOMAIN l.queue
        /\ \A j \in DOMAIN n.queue : n.queue[j] = l.queue[j + 1]
    BY <1>1, <1>2, HeadTailProperties DEF Locks
  <2> HIDE DEF n
  <2>2. l.queue[1].who = q
    BY <1>1, <1>4 DEF Locks
  <2>3. \A j \in DOMAIN n.queue : n.queue[j].who # q
    <3> SUFFICES ASSUME NEW j \in DOMAIN n.queue, n.queue[j].who = q
                 PROVE  FALSE
      OBVIOUS
    <3>1. j + 1 \in DOMAIN l.queue /\ j + 1 # 1 /\ l.queue[j + 1].who = q
      BY <2>1
    <3> QED
      BY <2>1, <2>2, <3>1 DEF InLineOnce
  <2> QED
    BY <2>3 DEF InLineOnce, Waits, n
<1> QED
  BY <1>3, <1>4

(* Whoever drops a guard is in no line; whoever is dropped is nowhere.     *)
LEMMA LeftLine ==
  ASSUME NEW l \in Locks(Procs), NEW p \in Procs, NEW q \in Procs,
         InLineOnce(l, q)
  PROVE  /\ InLineOnce(Left(l, p), q)
         /\ p = q /\ Holds(l, p) => ~Waits(Left(l, p), p)
         /\ ~Holds(Left(l, p), p)
<1>1. /\ Left(l, p).queue = l.queue
      /\ Left(l, p).readers = l.readers \ {p}
      /\ Left(l, p).writer = IF l.writer = p THEN NoProc ELSE l.writer
      /\ p # NoProc /\ q # NoProc
  BY ProcAssumption DEF Left, Locks
<1>2. Holds(Left(l, p), q) => Holds(l, q)
  BY <1>1 DEF Holds
<1>3. Waits(Left(l, p), q) <=> Waits(l, q)
  BY <1>1 DEF Waits
<1>4. ~Holds(Left(l, p), p)
  BY <1>1 DEF Holds
<1> QED
  BY <1>1, <1>2, <1>3, <1>4 DEF InLineOnce

(* A dropped future leaves its place in the line and its guard, and the    *)
(* others keep theirs.                                                     *)
LEMMA ForgottenLine ==
  ASSUME NEW l \in Locks(Procs), NEW p \in Procs, NEW q \in Procs,
         InLineOnce(l, q)
  PROVE  /\ InLineOnce(Forgotten(l, p), q)
         /\ p = q => ~Waits(Forgotten(l, p), p)
         /\ ~Holds(Forgotten(l, p), p)
<1> DEFINE n == Forgotten(l, p)
           at == CHOOSE j \in DOMAIN l.queue : l.queue[j].who = p
<1>1. InLineOnce(Left(l, p), q) /\ ~Holds(Left(l, p), p) /\ n \in Locks(Procs)
  BY LeftLine, LockTyped
<1>2. CASE ~Waits(l, p)
  <2>1. n = Left(l, p)
    BY <1>2 DEF Forgotten, Left, Locks
  <2>2. ~Waits(n, p)
    BY <1>2, <2>1 DEF Waits, Left, Locks
  <2> QED
    BY <1>1, <2>1, <2>2
<1>3. CASE Waits(l, p)
  <2>1. n.queue = Without(l.queue, at) /\ n.readers = l.readers \ {p}
        /\ n.writer = IF l.writer = p THEN NoProc ELSE l.writer
    BY <1>3 DEF Forgotten, Left, Locks, Without
  <2>2. /\ at \in 1..Len(l.queue) /\ l.queue[at].who = p
        /\ l.queue \in Seq([who : Procs, mode : {"read", "write"}])
        /\ DOMAIN l.queue = 1..Len(l.queue) /\ Len(l.queue) \in Nat
    BY <1>3 DEF Waits, Locks
  <2> HIDE DEF at, n
  <2>3. /\ Len(n.queue) = Len(l.queue) - 1
        /\ \A j \in 1..(Len(l.queue) - 1) :
             n.queue[j] = l.queue[IF j < at THEN j ELSE j + 1]
        /\ n.queue \in Seq([who : Procs, mode : {"read", "write"}])
    <3> DEFINE E == [who : Procs, mode : {"read", "write"}]
    <3>1. l.queue \in Seq(E)
      BY <2>2
    <3> HIDE DEF E
    <3>2. /\ Without(l.queue, at) \in Seq(E)
          /\ Len(Without(l.queue, at)) = Len(l.queue) - 1
          /\ \A j \in 1..(Len(l.queue) - 1) :
               Without(l.queue, at)[j] = l.queue[IF j < at THEN j ELSE j + 1]
      BY <2>2, <3>1, WithoutFacts
    <3> QED
      BY <2>1, <3>2 DEF E
  <2>4. DOMAIN n.queue = 1..(Len(l.queue) - 1)
    BY <2>3
  <2> DEFINE f == [j \in DOMAIN n.queue |-> IF j < at THEN j ELSE j + 1]
  <2>5. /\ f \in [DOMAIN n.queue -> DOMAIN l.queue]
        /\ \A j \in DOMAIN n.queue : f[j] # at
        /\ \A j, k \in DOMAIN n.queue : f[j] = f[k] => j = k
        /\ \A j \in DOMAIN n.queue : n.queue[j] = l.queue[f[j]]
    <3>1. \A j \in DOMAIN n.queue : f[j] = IF j < at THEN j ELSE j + 1
      OBVIOUS
    <3>2. \A j \in DOMAIN n.queue : f[j] \in DOMAIN l.queue /\ f[j] # at
      BY <2>2, <2>4, <3>1
    <3>3. f \in [DOMAIN n.queue -> DOMAIN l.queue]
      BY <3>2
    <3> HIDE DEF f
    <3>4. \A j, k \in DOMAIN n.queue : f[j] = f[k] => j = k
      BY <2>2, <2>4, <3>1
    <3>5. \A j \in DOMAIN n.queue : n.queue[j] = l.queue[f[j]]
      BY <2>3, <2>4, <3>1
    <3> QED
      BY <3>2, <3>3, <3>4, <3>5
  <2> HIDE DEF f
  <2>6. p # NoProc /\ q # NoProc
    BY ProcAssumption
  <2>7. (Holds(n, q) => Holds(l, q)) /\ ~Holds(n, p)
    BY <2>1, <2>6 DEF Holds
  <2>8. InLineOnce(n, q)
    BY <1>1, <2>5, <2>7, ThinnedLine DEF n
  <2>9. ASSUME p = q PROVE ~Waits(n, p)
    BY <2>2, <2>5, <2>9 DEF InLineOnce, Waits
  <2> QED
    BY <2>7, <2>8, <2>9 DEF n
<1> QED
  BY <1>2, <1>3

(* A step at the lock leaves everyone once in line and gives p alone       *)
(* anything; whoever reads goes on reading.                                *)
LEMMA LockStepKeeps ==
  ASSUME lock \in Locks(Procs), NEW p \in Procs, NEW q \in Requests,
         LockStep(p), InLineOnce(lock, q)
  PROVE  /\ InLineOnce(lock', q)
         /\ q # p => /\ Engaged(q)' => Engaged(q)
                     /\ q \in lock.readers => q \in lock'.readers
<1>0. q \in Procs
  BY DEF Procs
<1>1. CASE UNCHANGED lock
  BY <1>1 DEF Engaged
<1>2. ASSUME NEW m \in {"read", "write"}, lock' = Asked(lock, p, m),
             p \in Requests => ~Engaged(p)
      PROVE  /\ InLineOnce(lock', q)
             /\ q # p => /\ Engaged(q)' => Engaged(q)
                         /\ q \in lock.readers => q \in lock'.readers
  <2>1. InLineOnce(lock', q)
    BY <1>0, <1>2, AskedLine DEF Engaged
  <2>2. lock'.readers = lock.readers
    BY <1>2 DEF Asked, Locks
  <2> QED
    BY <1>0, <1>2, <2>1, <2>2, LockOthers DEF Engaged
<1>3. ASSUME NEW m \in {"read", "write"}, lock' = Entered(lock, p, m),
             MayEnter(lock, p, m)
      PROVE  /\ InLineOnce(lock', q)
             /\ q # p => /\ Engaged(q)' => Engaged(q)
                         /\ q \in lock.readers => q \in lock'.readers
  <2>1. InLineOnce(lock', q)
    BY <1>0, <1>3, EnteredLine
  <2>2. lock.queue # <<>> /\ lock.readers \subseteq lock'.readers
    BY <1>3 DEF Entered, MayEnter
  <2> QED
    BY <1>0, <1>3, <2>1, <2>2, LockOthers DEF Engaged
<1>4. CASE lock.queue # <<>> /\ lock' = [lock EXCEPT !.queue = Tail(@)]
  <2>1. /\ lock' \in Locks(Procs) /\ lock'.queue = Tail(lock.queue)
        /\ lock'.readers = lock.readers /\ lock'.writer = lock.writer
    BY <1>4, HeadTailProperties DEF Locks
  <2>2. Holds(lock', q) => Holds(lock, q)
    BY <2>1 DEF Holds
  <2>3. InLineOnce(lock', q)
    BY <1>0, <1>4, <2>1, <2>2, TailLine
  <2>4. Waits(lock', q) => Waits(lock, q)
    BY <1>4, <2>1, HeadTailProperties DEF Waits, Locks
  <2> QED
    BY <2>1, <2>2, <2>3, <2>4 DEF Engaged
<1>5. CASE lock' = Left(lock, p)
  <2>1. q # p => (q \in lock.readers => q \in lock'.readers)
    BY <1>5 DEF Left, Locks
  <2> QED
    BY <1>0, <1>5, <2>1, LeftLine, LockOthers DEF Engaged
<1>6. CASE lock' = Forgotten(lock, p)
  <2>1. q # p => (q \in lock.readers => q \in lock'.readers)
    BY <1>6 DEF Forgotten, Left, Locks
  <2> QED
    BY <1>0, <1>6, <2>1, ForgottenLine, LockOthers DEF Engaged
<1> QED
  BY <1>1, <1>2, <1>3, <1>4, <1>5, <1>6 DEF LockStep

(* What the steps of ProcessPool do at the lock, and to main. *)
LEMMA CallerLocks ==
  ASSUME NEW p \in Requests, Caller(p)
  PROVE  LockStep(p) /\ UNCHANGED daemon
<1>1. CASE \E n \in Names : AllocRequest(p, n)
  BY <1>1 DEF AllocRequest, LockStep, taskVars
<1>2. CASE AllocStart(p)
  BY <1>2 DEF AllocStart, LockStep, AllocGoes, taskVars
<1>3. CASE AllocNameNext(p) \/ AllocNameFree(p) \/ AllocEmptyNext(p)
             \/ AllocEmptyFound(p) \/ AllocExtend(p)
  BY <1>3 DEF AllocNameNext, AllocNameFree, AllocEmptyNext, AllocEmptyFound,
              AllocExtend, LockStep, AllocGoes, taskVars
<1>4. CASE AllocNameTaken(p) \/ AllocExhausted(p) \/ AllocReserve(p)
             \/ AllocRefused(p)
  BY <1>4 DEF AllocNameTaken, AllocExhausted, AllocReserve, AllocRefused,
              LockStep, AllocReturns, taskVars
<1>5. CASE ReadRequest(p) \/ ReadEnter(p) \/ ReadLeave(p) \/ RequestDropped(p)
  BY <1>5 DEF ReadRequest, ReadEnter, ReadLeave, RequestDropped, LockStep,
              taskVars
<1>6. CASE \E i \in 1..Size :
             MarkBooted(p, i) \/ ReleaseSlot(p, i) \/ ResetSlot(p, i)
  BY <1>6 DEF MarkBooted, ReleaseSlot, ResetSlot, SlotCommand, LockStep, taskVars
<1> QED
  BY <1>1, <1>2, <1>3, <1>4, <1>5, <1>6 DEF Caller, AllocStep, PoolCall

(* The daemon's own tasks and the workers use the lock in the ways of      *)
(* LockStep.                                                               *)
LEMMA TaskLocksStep ==
  ASSUME \/ Scaling \/ Stopping \/ Joining
         \/ \E i \in DOMAIN slots : SlotEvent(i)
  PROVE  \E t \in {Autoscaler, Main} : LockStep(t)
<1>0. Autoscaler \notin Requests /\ Main \notin Requests
  BY ProcAssumption
<1>1. CASE Scaling
  <2>1. ScalerKeeps => lock.queue # <<>>
    BY DEF ScalerKeeps, MayEnter
  <2> QED
    BY <1>0, <1>1, <2>1 DEF Scaling, ScalerTick, ScalerKeeps, ScalerShrinks,
         ScalerPop, LockStep
<1>2. CASE Stopping
  BY <1>0, <1>2 DEF Stopping, ShutdownSignal, Drained, ShutdownStart,
       ShutdownPop, ShutdownDone, LockStep
<1>3. CASE Joining
  BY <1>3 DEF Joining, Join, LockStep
<1>4. CASE \E i \in DOMAIN slots : SlotEvent(i)
  BY <1>4 DEF SlotEvent, Spawn, SpawnFails, Reap, PollFails, Listen, Exit,
       WorkerEnds, WorkerMoves, LockStep
<1> QED
  BY <1>1, <1>2, <1>3, <1>4

-----------------------------------------------------------------------------
(* The slots.                                                              *)

(* While somebody reads no slot comes or goes, and of the slots one may    *)
(* move: it is freed, or keeps its name and gets no tenant.                *)
LEMMA ReadersWatch ==
  ASSUME IInv, [PoolNext]_poolVars, lock.readers # {}
  PROVE  /\ Size' = Size /\ DOMAIN slots' = DOMAIN slots
         /\ \/ slots' = slots
            \/ \E j \in DOMAIN slots, s \in SlotRecords :
                 /\ slots' = [slots EXCEPT ![j] = s]
                 /\ \/ s = FreshSlot
                    \/ s.name = slots[j].name /\ (Tenanted(s) => Tenanted(slots[j]))
<1>0. slots \in Seq(SlotRecords) /\ Len(slots) \in Nat
  BY DEF IInv, PoolTypeOK
<1>1. lock.writer = NoProc /\ NoProc \notin Procs
  BY ProcAssumption DEF IInv, LockInv
<1>2. CASE SlotsStay
  BY <1>1, <1>2 DEF SlotsStay, Procs, Size
<1>3. ASSUME NEW j \in DOMAIN slots, NEW s \in SlotRecords, OneSlotMoves(j, s)
      PROVE  /\ Size' = Size /\ DOMAIN slots' = DOMAIN slots
             /\ slots' = [slots EXCEPT ![j] = s]
             /\ \/ s = FreshSlot
                \/ s.name = slots[j].name /\ (Tenanted(s) => Tenanted(slots[j]))
  <2>1. Len(slots') = Len(slots) /\ joiner' = joiner
    BY <1>0, <1>3 DEF OneSlotMoves
  <2> QED
    BY <1>1, <1>3, <2>1 DEF OneSlotMoves, Size, Procs
<1> QED
  BY <1>1, <1>2, <1>3, SlotSteps DEF Procs

(* Who reads sees names only vanish. *)
LEMMA ReadersSee ==
  ASSUME IInv, [PoolNext]_poolVars, lock.readers # {},
         NEW i \in Nat, i \in 1..Size
  PROVE  i \in 1..Size' /\ slots'[i].name \in {slots[i].name, NoName}
<1>1. i \in DOMAIN slots
  BY SizeFacts DEF IInv
<1> QED
  BY <1>1, ReadersWatch DEF FreshSlot

(* A VMM that listens goes on until it exits. *)
LEMMA ServingStays ==
  ASSUME IInv, [PoolNext]_poolVars, NEW i \in Nat, i \in DOMAIN slots,
         slots[i].proc = "serving", i \in DOMAIN slots', Alive(slots'[i])
  PROVE  slots'[i].proc = "serving"
<1>0. /\ slots \in Seq(SlotRecords) /\ Len(slots) \in Nat
      /\ DOMAIN slots = 1..Len(slots)
  BY SizeFacts DEF IInv, PoolTypeOK
<1>1. ASSUME NEW j \in DOMAIN slots, NEW s \in SlotRecords, OneSlotMoves(j, s)
      PROVE  slots'[i].proc = "serving"
  <2>1. slots'[i] = IF i = j THEN s ELSE slots[i]
    BY <1>1 DEF OneSlotMoves
  <2> QED
    BY <1>1, <2>1 DEF OneSlotMoves
<1>2. CASE slots' = Append(slots, FreshSlot)
  BY <1>0, <1>2
<1>3. CASE slots' = SubSeq(slots, 1, Len(slots) - 1) /\ slots # <<>>
  BY <1>0, <1>3
<1>4. CASE SlotsStay
  BY <1>4 DEF SlotsStay
<1> QED
  BY <1>1, <1>2, <1>3, <1>4, SlotSteps

-----------------------------------------------------------------------------
(* The slots of the pool are slots of SlotLifecycle.                       *)

(* What SlotSupervisor implements, of slot i.                              *)
Life(i) == INSTANCE SlotLifecycle WITH
  slot <- slots[i], worker <- IF i \in ended THEN "ended" ELSE "running"

LivesOn(i) == Life(i)!Next \/ (slots'[i] = slots[i] /\ (i \in ended' <=> i \in ended))

(* A slot begins as SlotLifecycle has it, takes steps of it only, whatever *)
(* callers, autoscaler and shutdown do to it, and goes once it has ended.  *)
SlotsLive ==
  [][/\ \A i \in DOMAIN slots :
          IF i \in DOMAIN slots' THEN LivesOn(i) ELSE i \in ended
     /\ \A i \in DOMAIN slots' \ DOMAIN slots :
          slots'[i] = FreshSlot /\ i \notin ended']_poolVars

(* Workers end when they were told to.                                     *)
EndInv == ended # {} => shutdown = "sent"

LEMMA EndKeeps ==
  ASSUME EndInv, [PoolNext]_poolVars
  PROVE  EndInv'
<1>1. CASE \E p \in Requests : Caller(p)
  BY <1>1 DEF EndInv, Caller, PoolCall, AllocStep, AllocRequest, AllocStart,
     AllocNameNext, AllocNameTaken, AllocNameFree, AllocEmptyNext, AllocEmptyFound,
     AllocExhausted, AllocExtend, AllocReserve, AllocRefused, ReadRequest, ReadEnter,
     ReadLeave, RequestDropped, MarkBooted, ReleaseSlot, ResetSlot, SlotCommand,
     SlotMoves, slotVars
<1>2. CASE Scaling \/ Stopping \/ Joining
  BY <1>2 DEF EndInv, Scaling, Stopping, Joining, Join, ScalerTick, ScalerKeeps,
     ScalerShrinks, ScalerPop, ShutdownSignal, Drained, ShutdownStart, ShutdownPop,
     ShutdownDone, slotVars
<1>3. CASE \E i \in DOMAIN slots : SlotEvent(i)
  BY <1>3 DEF EndInv, SlotEvent, Spawn, SpawnFails, Reap, PollFails, Listen, Exit,
     WorkerEnds, WorkerMoves, SlotMoves
<1>4. CASE UNCHANGED poolVars
  BY <1>4 DEF EndInv, poolVars
<1> QED
  BY <1>1, <1>2, <1>3, <1>4 DEF PoolNext

(* A request that holds a guard finds every worker running.                *)
LEMMA WorkersRun ==
  ASSUME IInv, EndInv, NEW p \in Requests, Holds(lock, p)
  PROVE  ended = {}
BY DEF IInv, TaskInv, EndInv, Engaged, Serving

(* What a slot in state o may become while its worker runs.                *)
Offered(o, s) ==
  \/ o.state = "Empty" /\ \E n \in Names : s = Claimed(o, n)
  \/ o.state = "Booting" /\ s = Booted(o)
  \/ s = FreshSlot
  \/ o.proc = "none" /\ o.state # "Failed" /\ s \in {Spawned(o), Broken(o)}
  \/ o.proc = "exited" /\ s = Reaped(o)
  \/ o.proc # "none" /\ s = Broken(o)
  \/ o.proc = "starting" /\ s = [o EXCEPT !.proc = "serving"]
  \/ Alive(o) /\ s = [o EXCEPT !.proc = "exited"]

(* SlotLifecycle has all of it. *)
LEMMA LifeOffers ==
  ASSUME NEW i, NEW s, Offered(slots[i], s), Life(i)!Becomes(s)
  PROVE  Life(i)!Next
<1>1. CASE slots[i].state = "Empty" /\ \E n \in Names : s = Claimed(slots[i], n)
  BY <1>1 DEF Life!Next, Life!Claim, Life!Claimed, Claimed
<1>2. CASE slots[i].state = "Booting" /\ s = Booted(slots[i])
  BY <1>2 DEF Life!Next, Life!Boot, Life!Booted, Booted
<1>3. CASE s = FreshSlot
  BY <1>3 DEF Life!Next, Life!Reset, Life!FreshSlot, FreshSlot
<1>4. CASE /\ slots[i].proc = "none" /\ slots[i].state # "Failed"
           /\ s \in {Spawned(slots[i]), Broken(slots[i])}
  BY <1>4 DEF Life!Next, Life!Spawn, Life!SpawnFails, Life!Spawned, Life!Broken,
     Spawned, Broken
<1>5. CASE slots[i].proc = "exited" /\ s = Reaped(slots[i])
  BY <1>5 DEF Life!Next, Life!Reap, Life!Reaped, Life!FreshSlot, Life!Tenanted,
     Reaped, FreshSlot, Tenanted
<1>6. CASE slots[i].proc # "none" /\ s = Broken(slots[i])
  BY <1>6 DEF Life!Next, Life!ReapFails, Life!Broken, Broken
<1>7. CASE slots[i].proc = "starting" /\ s = [slots[i] EXCEPT !.proc = "serving"]
  BY <1>7 DEF Life!Next, Life!Listen
<1>8. CASE Alive(slots[i]) /\ s = [slots[i] EXCEPT !.proc = "exited"]
  BY <1>8 DEF Life!Next, Life!Exit, Life!Alive, Alive
<1> QED
  BY <1>1, <1>2, <1>3, <1>4, <1>5, <1>6, <1>7, <1>8 DEF Offered

(* One slot changes as SlotLifecycle has it, and the others do not.        *)
LEMMA OneLives ==
  ASSUME PoolTypeOK, NEW j \in DOMAIN slots, NEW s, Offered(slots[j], s),
         slots' = [slots EXCEPT ![j] = s], UNCHANGED ended, j \notin ended
  PROVE  /\ DOMAIN slots' = DOMAIN slots
         /\ \A i \in DOMAIN slots : LivesOn(i)
<1>1. slots'[j] = s /\ \A i \in DOMAIN slots : i # j => slots'[i] = slots[i]
  BY DEF PoolTypeOK
<1>2. Life(j)!Becomes(s)
  BY <1>1 DEF Life!Becomes
<1>3. Life(j)!Next
  BY <1>2, LifeOffers
<1> QED
  BY <1>1, <1>3 DEF LivesOn

(* A step of the pool, seen by its slots. *)
LEMMA SlotsLiveOn ==
  ASSUME IInv, EndInv, [PoolNext]_poolVars
  PROVE  /\ \A i \in DOMAIN slots :
              IF i \in DOMAIN slots' THEN LivesOn(i) ELSE i \in ended
         /\ \A i \in DOMAIN slots' \ DOMAIN slots :
              slots'[i] = FreshSlot /\ i \notin ended'
<1> DEFINE Goal == /\ \A i \in DOMAIN slots :
                        IF i \in DOMAIN slots' THEN LivesOn(i) ELSE i \in ended
                   /\ \A i \in DOMAIN slots' \ DOMAIN slots :
                        slots'[i] = FreshSlot /\ i \notin ended'
<1>0. /\ PoolTypeOK /\ slots \in Seq(SlotRecords) /\ Len(slots) \in Nat
      /\ DOMAIN slots = 1..Len(slots) /\ 1..Size \subseteq DOMAIN slots
      /\ ended \subseteq DOMAIN slots
  BY SizeFacts DEF IInv, PoolTypeOK
<1>1. ASSUME UNCHANGED <<slots, ended>> PROVE Goal
  BY <1>1 DEF LivesOn
<1>2. ASSUME NEW j \in DOMAIN slots \ ended, NEW s,
             Offered(slots[j], s), slots' = [slots EXCEPT ![j] = s], UNCHANGED ended
      PROVE  Goal
  BY <1>0, <1>2, OneLives
<1> HIDE DEF Goal
<1>3. ASSUME NEW p \in Requests, Caller(p) PROVE Goal
  <2>1. CASE AllocExtend(p)
    <3>1. slots' = Append(slots, FreshSlot) /\ UNCHANGED ended
      BY <2>1 DEF AllocExtend
    <3>2. /\ DOMAIN slots' = 1..(Len(slots) + 1) /\ slots'[Len(slots) + 1] = FreshSlot
          /\ \A i \in DOMAIN slots : slots'[i] = slots[i]
      BY <1>0, <3>1
    <3>3. \A i \in DOMAIN slots' \ DOMAIN slots : i = Len(slots) + 1
      BY <1>0, <3>2
    <3>4. DOMAIN slots \subseteq DOMAIN slots'
      BY <1>0, <3>2
    <3>5. \A i \in DOMAIN slots' \ DOMAIN slots : i \notin ended
      BY <1>0
    <3> QED
      BY <3>1, <3>2, <3>3, <3>4, <3>5 DEF Goal, LivesOn
  <2>2. CASE AllocReserve(p)
    <3> DEFINE j == alloc[p].at
               s == Claimed(slots[j], alloc[p].name)
    <3>1. Allocating(p)
      BY <2>2 DEF AllocReserve, Allocating
    <3>2. Holds(lock, p) /\ j \in DOMAIN slots /\ alloc[p].name \in Names
      BY <1>0, <3>1, NobodyJoins DEF Holds, IInv, ScanInv
    <3>3. /\ slots[j].state = "Empty" /\ UNCHANGED ended
          /\ slots' = [slots EXCEPT ![j] = s]
      BY <2>2 DEF AllocReserve
    <3>4. Offered(slots[j], s)
      BY <3>2, <3>3 DEF Offered
    <3>5. j \in DOMAIN slots \ ended
      BY <3>2, WorkersRun
    <3> HIDE DEF j, s
    <3> QED
      BY <1>2, <3>3, <3>4, <3>5
  <2>3. CASE AllocStep(p) /\ ~AllocExtend(p) /\ ~AllocReserve(p)
    BY <1>1, <2>3 DEF AllocStep, AllocStart, AllocNameNext, AllocNameTaken,
         AllocNameFree, AllocEmptyNext, AllocEmptyFound, AllocExhausted,
         AllocRefused, slotVars
  <2>4. CASE \/ \E n \in Names : AllocRequest(p, n)
             \/ ReadRequest(p) \/ ReadEnter(p) \/ ReadLeave(p) \/ RequestDropped(p)
    BY <1>1, <2>4 DEF AllocRequest, ReadRequest, ReadEnter, ReadLeave,
         RequestDropped, slotVars
  <2>5. ASSUME NEW j \in 1..Size,
               MarkBooted(p, j) \/ ReleaseSlot(p, j) \/ ResetSlot(p, j)
        PROVE  Goal
    <3>1. /\ Holds(lock, p) /\ j \in DOMAIN slots /\ UNCHANGED ended
          /\ \/ slots[j].state = "Booting" /\ slots' = [slots EXCEPT ![j] = Booted(slots[j])]
             \/ slots' = [slots EXCEPT ![j] = FreshSlot]
      BY <1>0, <2>5 DEF MarkBooted, ReleaseSlot, ResetSlot, SlotCommand, SlotMoves, Holds
    <3>2. j \in DOMAIN slots \ ended
      BY <3>1, WorkersRun
    <3>3. /\ slots[j].state = "Booting" => Offered(slots[j], Booted(slots[j]))
          /\ Offered(slots[j], FreshSlot)
      BY DEF Offered
    <3> QED
      BY <1>2, <3>1, <3>2, <3>3
  <2> QED
    BY <1>3, <2>1, <2>2, <2>3, <2>4, <2>5 DEF Caller, PoolCall
<1>4. ASSUME NEW j \in DOMAIN slots, SlotEvent(j), ~WorkerEnds(j) PROVE Goal
  <2>1. j \in DOMAIN slots \ ended /\ UNCHANGED ended
    BY <1>4 DEF SlotEvent, Spawn, SpawnFails, Reap, PollFails, Listen, Exit,
         WorkerMoves, SlotMoves
  <2>2. PICK s : slots' = [slots EXCEPT ![j] = s] /\ Offered(slots[j], s)
    BY <1>4 DEF SlotEvent, Spawn, SpawnFails, Reap, PollFails, Listen, Exit,
         ChildMissing, WorkerMoves, SlotMoves, Offered
  <2> QED
    BY <1>2, <2>1, <2>2
<1>5. ASSUME NEW j \in DOMAIN slots, WorkerEnds(j) PROVE Goal
  <2>1. /\ slots' = [slots EXCEPT ![j] = Stopped(slots[j])] /\ j \notin ended
        /\ ended' = ended \cup {j}
    BY <1>5 DEF WorkerEnds
  <2>2. /\ DOMAIN slots' = DOMAIN slots /\ slots'[j] = Stopped(slots[j])
        /\ \A i \in DOMAIN slots : i # j => slots'[i] = slots[i]
    BY <1>0, <2>1
  <2>3. Life(j)!Next
    BY <2>1, <2>2 DEF Life!Next, Life!Stop, Life!Stopped, Stopped
  <2> QED
    BY <2>1, <2>2, <2>3 DEF Goal, LivesOn
<1>6. CASE Scaling \/ Stopping \/ UNCHANGED poolVars
  <2>1. Scaling => UNCHANGED <<slots, ended>>
    BY DEF Scaling, ScalerTick, ScalerKeeps, ScalerShrinks, ScalerPop, slotVars
  <2>2. Stopping => UNCHANGED <<slots, ended>>
    BY DEF Stopping, ShutdownSignal, Drained, ShutdownStart, ShutdownPop,
       ShutdownDone, slotVars
  <2>3. UNCHANGED poolVars => UNCHANGED <<slots, ended>>
    BY DEF poolVars
  <2> QED
    BY <1>1, <1>6, <2>1, <2>2, <2>3 DEF Goal
<1>7. CASE Joining
  <2>1. /\ Len(slots) \in ended /\ slots' = SubSeq(slots, 1, Len(slots) - 1)
        /\ ended' = ended \ {Len(slots)}
    BY <1>7 DEF Joining, Join
  <2>2. /\ DOMAIN slots' = 1..(Len(slots) - 1)
        /\ \A i \in 1..(Len(slots) - 1) : slots'[i] = slots[i]
    BY <1>0, <2>1
  <2>3. /\ \A i \in DOMAIN slots : i = Len(slots) \/ i \in DOMAIN slots'
        /\ \A i \in DOMAIN slots' : i # Len(slots) /\ i \in DOMAIN slots
    BY <1>0, <2>2
  <2> QED
    BY <2>1, <2>2, <2>3 DEF Goal, LivesOn
<1> QED
  BY <1>3, <1>4, <1>5, <1>6, <1>7 DEF PoolNext, Goal

(* Each slot of the pool, from the moment it is spawned until it is joined,*)
(* is a slot of SlotLifecycle, which the supervision loop implements: no   *)
(* caller, autoscaler or shutdown, in any number and order, takes it for a *)
(* step that its worker does not offer.                                    *)
THEOREM PoolSlotsLive == PoolSpec => SlotsLive
<1>1. PoolInit => EndInv
  BY DEF PoolInit, EndInv
<1>2. EndInv /\ [PoolNext]_poolVars => EndInv'
  BY EndKeeps
<1>3. IInv /\ EndInv /\ [PoolNext]_poolVars
        => [/\ \A i \in DOMAIN slots :
                 IF i \in DOMAIN slots' THEN LivesOn(i) ELSE i \in ended
            /\ \A i \in DOMAIN slots' \ DOMAIN slots :
                 slots'[i] = FreshSlot /\ i \notin ended']_poolVars
  BY SlotsLiveOn
<1> QED
  BY <1>1, <1>2, <1>3, Invariance, PTL DEF PoolSpec, SlotsLive

=============================================================================
