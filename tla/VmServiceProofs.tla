--------------------------- MODULE VmServiceProofs ---------------------------
(***************************************************************************)
(* The handlers of VmService implement ProcessPool, for every number of    *)
(* requests, names and slots: none asks for a guard while it holds one or  *)
(* waits for one (CallInv), which is so because nobody is twice in the     *)
(* line of the lock or in the line and inside (LineInv).  What is proved   *)
(* of ProcessPool then holds of the handlers, and what a lookup found      *)
(* stays true while its guard is held.                                     *)
(***************************************************************************)
EXTENDS VmService, ProcessPoolProofs

-----------------------------------------------------------------------------
(* The handlers.                                                           *)

(* Where a handler is says what it has of the lock, and where it goes on.  *)
CallFine(p) ==
  /\ ~At(p, "idle") => Serving
  /\ call[p].pc \in {"idle", "ready", "connect", "cleanup"} => ~Engaged(p)
  /\ call[p].pc \in {"shutdown", "delete", "release", "proxy"}
       => p \in lock.readers
  /\ call[p].pc \in {"ready", "look", "connect"}
       => call[p].then \in {"create", "mark"}
  /\ call[p].pc = "find" => call[p].then \in {"shutdown", "proxy"}

CallInv == call \in [Requests -> Calls] /\ \A p \in Requests : CallFine(p)

VmInv == IInv /\ LineInv /\ CallInv

(* A step of the handler of p that leaves the calls fine. *)
CallMoves(p) ==
  /\ call' \in [Requests -> Calls]
  /\ \A q \in Requests \ {p} : call'[q] = call[q]
  /\ CallFine(p)'

(* A handler's record changes and no other does.                           *)
LEMMA CallBecomes ==
  ASSUME call \in [Requests -> Calls], NEW p \in Requests, NEW c \in Calls,
         call' = [call EXCEPT ![p] = c]
  PROVE  /\ call' \in [Requests -> Calls]
         /\ \A q \in Requests \ {p} : call'[q] = call[q]
         /\ call'[p] = c
OBVIOUS

(* The records the handlers of VmService go through are well formed.       *)
LEMMA CallTypes ==
  /\ NoCall \in Calls
  /\ \A how \in {"ok", "failed"} :
       /\ [NoCall EXCEPT !.pc = "leave", !.then = how] \in Calls
       /\ [NoCall EXCEPT !.pc = "leave", !.then = how].pc = "leave"
  /\ \A c \in Calls, then \in {"create", "mark"} :
       /\ Waiting(c, then) \in Calls
       /\ Waiting(c, then).pc = "ready" /\ Waiting(c, then).then = then
<1>0. 0 \in 0..MaxSize /\ 0 \in 0..MaxTries /\ MaxTries \in 0..MaxTries
  BY SizeAssumption, ServiceAssumption
<1>1. NoCall \in Calls
  BY <1>0 DEF NoCall, Calls, Places
<1>2. ASSUME NEW how \in {"ok", "failed"}
      PROVE  /\ [NoCall EXCEPT !.pc = "leave", !.then = how] \in Calls
             /\ [NoCall EXCEPT !.pc = "leave", !.then = how].pc = "leave"
  BY <1>1 DEF Calls, Places
<1>3. ASSUME NEW c \in Calls, NEW then \in {"create", "mark"}
      PROVE  /\ Waiting(c, then) \in Calls
             /\ Waiting(c, then).pc = "ready" /\ Waiting(c, then).then = then
  <2>1. [c EXCEPT !.pc = "ready", !.then = then, !.left = MaxTries] \in Calls
    BY <1>0 DEF Calls, Places
  <2>2. /\ [c EXCEPT !.pc = "ready", !.then = then, !.left = MaxTries].pc = "ready"
        /\ [c EXCEPT !.pc = "ready", !.then = then, !.left = MaxTries].then = then
    BY DEF Calls
  <2> QED
    BY <2>1, <2>2 DEF Waiting
<1> QED
  BY <1>1, <1>2, <1>3

(* The handler goes on inside its guard, or is about to drop it. *)
LEMMA InsideMoves ==
  ASSUME CallInv, NEW p \in Requests, p \in lock.readers, ~At(p, "idle"),
         UNCHANGED <<lock, daemon>>,
         \/ \E how \in {"ok", "failed"} : Ends(p, how)
         \/ \E then \in {"cleanup", "ready"} : LeavesFor(p, then)
         \/ \E pc \in {"boot", "delete", "release"} : GoesTo(p, pc)
  PROVE  CallMoves(p)
<1>1. /\ call \in [Requests -> Calls] /\ call[p] \in Calls
      /\ Serving /\ Serving'
  BY DEF CallInv, CallFine, Serving
<1>2. ASSUME NEW how \in {"ok", "failed"}, Ends(p, how) PROVE CallMoves(p)
  <2> DEFINE c == [NoCall EXCEPT !.pc = "leave", !.then = how]
  <2>1. c \in Calls /\ c.pc = "leave" /\ call' = [call EXCEPT ![p] = c]
    BY <1>2, CallTypes DEF Ends
  <2> HIDE DEF c
  <2> QED
    BY <1>1, <2>1, CallBecomes DEF CallMoves, CallFine, At
<1>3. ASSUME NEW then \in {"cleanup", "ready"}, LeavesFor(p, then)
      PROVE  CallMoves(p)
  <2> DEFINE c == [call[p] EXCEPT !.pc = "leave", !.then = then]
  <2>1. call' = [call EXCEPT ![p] = c]
    BY <1>1, <1>3 DEF LeavesFor
  <2>2. c \in Calls /\ c.pc = "leave"
    BY <1>1 DEF Calls, Places
  <2> HIDE DEF c
  <2> QED
    BY <1>1, <2>1, <2>2, CallBecomes DEF CallMoves, CallFine, At
<1>4. ASSUME NEW pc \in {"boot", "delete", "release"}, GoesTo(p, pc)
      PROVE  CallMoves(p)
  <2> DEFINE c == [call[p] EXCEPT !.pc = pc]
  <2>1. call' = [call EXCEPT ![p] = c]
    BY <1>1, <1>4 DEF GoesTo
  <2>2. c \in Calls /\ c.pc = pc
    BY <1>1 DEF Calls, Places
  <2> HIDE DEF c
  <2> QED
    BY <1>1, <2>1, <2>2, CallBecomes DEF CallMoves, CallFine, At
<1> QED
  BY <1>2, <1>3, <1>4

(* The requests to the VMMs, and the lookups. *)
LEMMA VmmStepMoves ==
  ASSUME CallInv, PoolTypeOK, NEW p \in Requests,
         \/ CreateGuest(p) \/ RestoreGuest(p) \/ BootGuest(p)
         \/ MarkRefused(p) \/ NotRunning(p) \/ Finds(p)
         \/ ShutdownGuest(p) \/ DeleteGuest(p) \/ ReleaseRefused(p)
         \/ Proxies(p)
  PROVE  CallMoves(p) /\ UNCHANGED poolVars
<1>1. /\ UNCHANGED poolVars /\ p \in lock.readers /\ ~At(p, "idle")
      /\ Finds(p) => At(p, "find")
  BY DEF CreateGuest, RestoreGuest, BootGuest, MarkRefused, NotRunning, Finds,
         ShutdownGuest, DeleteGuest, ReleaseRefused, Proxies, Inside, At,
         Unreached, Refused, Done, Stays
<1>2. UNCHANGED <<lock, daemon>>
  BY <1>1 DEF poolVars
<1>3. CASE ~Finds(p)
  <2>1. \/ \E how \in {"ok", "failed"} : Ends(p, how)
        \/ \E then \in {"cleanup", "ready"} : LeavesFor(p, then)
        \/ \E pc \in {"boot", "delete", "release"} : GoesTo(p, pc)
    BY <1>3 DEF CreateGuest, RestoreGuest, BootGuest, MarkRefused, NotRunning,
         ShutdownGuest, DeleteGuest, ReleaseRefused, Proxies, Unreached,
         Refused, Done
  <2> QED
    BY <1>1, <1>2, <2>1, InsideMoves
<1>4. CASE Finds(p)
  <2>1. PICK i \in 1..Size :
          call' = [call EXCEPT ![p].pc = call[p].then, ![p].slot = i]
    BY <1>4 DEF Finds
  <2>2. i \in 0..MaxSize
    BY <2>1, SizeFacts, SizeAssumption
  <2> DEFINE c == [call[p] EXCEPT !.pc = call[p].then, !.slot = i]
  <2>3. /\ call \in [Requests -> Calls] /\ call[p] \in Calls
        /\ call[p].then \in {"shutdown", "proxy"} /\ Serving /\ Serving'
    BY <1>1, <1>2, <1>4 DEF CallInv, CallFine, Serving, At
  <2>4. call' = [call EXCEPT ![p] = c]
    BY <2>1, <2>3
  <2>5. c \in Calls /\ c.pc = call[p].then
    BY <2>2, <2>3 DEF Calls, Places
  <2> HIDE DEF c
  <2> QED
    BY <1>1, <1>2, <2>3, <2>4, <2>5, CallBecomes DEF CallMoves, CallFine, At
<1> QED
  BY <1>1, <1>3, <1>4

(* Guards that are asked for: at each such await the handler has none.     *)
LEMMA AskMoves ==
  ASSUME CallInv, NEW p \in Requests,
         \/ \E n \in Names :
              CreateBegins(p, n) \/ DeleteBegins(p, n) \/ ProxyBegins(p, n)
         \/ AsksStatus(p) \/ Connects(p) \/ AsksCleanup(p)
  PROVE  CallMoves(p) /\ Caller(p)
<1>1. call \in [Requests -> Calls] /\ call[p] \in Calls /\ CallFine(p)
  BY DEF CallInv
<1>2. ASSUME NEW c \in Calls, call' = [call EXCEPT ![p] = c],
             c.pc \in {"alloc", "find", "look", "create", "mark", "reset"},
             c.pc = "look" => c.then \in {"create", "mark"},
             c.pc = "find" => c.then \in {"shutdown", "proxy"},
             Serving, UNCHANGED daemon
      PROVE  CallMoves(p)
  BY <1>1, <1>2, CallBecomes DEF CallMoves, CallFine, At, Serving
<1>3. ASSUME AsksRead(p), Serving, ~Engaged(p)
      PROVE  Caller(p) /\ UNCHANGED daemon
  BY <1>3 DEF AsksRead, Caller, ReadRequest, taskVars
<1>4. ASSUME NEW n \in Names, CreateBegins(p, n) PROVE CallMoves(p) /\ Caller(p)
  <2> DEFINE c == [NoCall EXCEPT !.pc = "alloc", !.name = n]
  <2>1. c \in Calls /\ c.pc = "alloc"
    BY CallTypes DEF Calls, Places
  <2>2a. call' = [call EXCEPT ![p] = c]
    BY <1>4, Zenon DEF CreateBegins, Begins
  <2>2. call' = [call EXCEPT ![p] = c] /\ AllocRequest(p, n) /\ Serving
    BY <1>4, <2>2a DEF CreateBegins, Serving
  <2> HIDE DEF c
  <2>3. UNCHANGED daemon /\ Caller(p)
    BY <2>2 DEF AllocRequest, taskVars, Caller
  <2> QED
    BY <1>2, <2>1, <2>2, <2>3
<1>5. ASSUME NEW n \in Names, NEW then \in {"shutdown", "proxy"},
             LookupBegins(p, n, then)
      PROVE  CallMoves(p) /\ Caller(p)
  <2> DEFINE c == [NoCall EXCEPT !.pc = "find", !.name = n, !.then = then]
  <2>1. c \in Calls /\ c.pc = "find" /\ c.then \in {"shutdown", "proxy"}
    BY <1>5, CallTypes DEF Calls, Places
  <2>2. call' = [call EXCEPT ![p] = c] /\ AsksRead(p) /\ Serving /\ ~Engaged(p)
    BY <1>1, <1>5 DEF LookupBegins, Serving, CallFine, At
  <2> HIDE DEF c
  <2> QED
    BY <1>2, <1>3, <2>1, <2>2
<1>6. CASE AsksStatus(p)
  <2> DEFINE c == [call[p] EXCEPT !.pc = "look"]
  <2>1. c \in Calls /\ c.pc = "look" /\ c.then = call[p].then
    BY <1>1 DEF Calls, Places
  <2>2. /\ call' = [call EXCEPT ![p] = c] /\ AsksRead(p) /\ Serving
        /\ ~Engaged(p) /\ call[p].then \in {"create", "mark"}
    BY <1>1, <1>6 DEF AsksStatus, GoesTo, CallFine, At
  <2> HIDE DEF c
  <2> QED
    BY <1>2, <1>3, <2>1, <2>2
<1>7. CASE Connects(p)
  <2> DEFINE c == [call[p] EXCEPT !.pc = call[p].then, !.pid = FALSE, !.left = 0]
  <2>1. /\ AsksRead(p) /\ Serving /\ ~Engaged(p)
        /\ call[p].then \in {"create", "mark"}
    BY <1>1, <1>7 DEF Connects, CallFine, At
  <2>2. c \in Calls /\ c.pc = call[p].then
    <3>1. 0 \in 0..MaxTries /\ call[p].then \in Places
      BY <2>1, ServiceAssumption DEF Places
    <3>2. c \in Calls
      BY <1>1, <3>1 DEF Calls
    <3>3. c.pc = call[p].then
      BY <1>1 DEF Calls
    <3> QED
      BY <3>2, <3>3
  <2>3. call' = [call EXCEPT ![p] = c]
    BY <1>1, <1>7 DEF Connects
  <2> HIDE DEF c
  <2> QED
    BY <1>2, <1>3, <2>1, <2>2, <2>3
<1>8. CASE AsksCleanup(p)
  <2> DEFINE c == [call[p] EXCEPT !.pc = "reset"]
  <2>1. c \in Calls /\ c.pc = "reset"
    BY <1>1 DEF Calls, Places
  <2>2. /\ call' = [call EXCEPT ![p] = c] /\ AsksRead(p) /\ Serving
        /\ ~Engaged(p)
    BY <1>1, <1>8 DEF AsksCleanup, GoesTo, CallFine, At
  <2> HIDE DEF c
  <2> QED
    BY <1>2, <1>3, <2>1, <2>2
<1> QED
  BY <1>4, <1>5, <1>6, <1>7, <1>8 DEF DeleteBegins, ProxyBegins

(* wait_for_slot_ready between two looks, with no guard. *)
LEMMA RetryMoves ==
  ASSUME CallInv, NEW p \in Requests, TriesAgain(p) \/ TimesOut(p)
  PROVE  CallMoves(p) /\ UNCHANGED poolVars
<1>1. /\ call \in [Requests -> Calls] /\ call[p] \in Calls /\ CallFine(p)
      /\ At(p, "connect") /\ UNCHANGED poolVars
  BY DEF CallInv, TriesAgain, TimesOut, NotReady, Stays
<1>2. /\ UNCHANGED <<lock, daemon>> /\ Serving /\ Serving' /\ ~Engaged(p)
      /\ ~Engaged(p)' /\ call[p].then \in {"create", "mark"}
  BY <1>1 DEF poolVars, CallFine, At, Serving, Engaged
<1>3. CASE TriesAgain(p)
  <2> DEFINE c == [call[p] EXCEPT !.pc = "ready", !.pid = FALSE, !.left = @ - 1]
  <2>1. call' = [call EXCEPT ![p] = c] /\ call[p].left > 0
    BY <1>1, <1>3 DEF TriesAgain
  <2>2. call[p].left - 1 \in 0..MaxTries
    BY <1>1, <2>1, ServiceAssumption DEF Calls
  <2>3. c \in Calls /\ c.pc = "ready" /\ c.then = call[p].then
    BY <1>1, <2>2 DEF Calls, Places
  <2> HIDE DEF c
  <2> QED
    BY <1>1, <1>2, <2>1, <2>3, CallBecomes DEF CallMoves, CallFine, At
<1>4. CASE TimesOut(p)
  <2>1. call' = [call EXCEPT ![p] = NoCall] /\ NoCall.pc = "idle"
    BY <1>4 DEF TimesOut, Fails, NoCall
  <2> QED
    BY <1>1, <1>2, <2>1, CallTypes, CallBecomes DEF CallMoves, CallFine, At
<1> QED
  BY <1>1, <1>3, <1>4

(* Guards that are granted, dropped or forgotten, under the read lock. *)
LEMMA GuardMoves ==
  ASSUME CallInv, LineInv, PoolTypeOK, NEW p \in Requests,
         Granted(p) \/ Leave(p) \/ LooksAtStatus(p) \/ Dropped(p)
  PROVE  CallMoves(p) /\ (Caller(p) \/ UNCHANGED poolVars)
<1>1. /\ call \in [Requests -> Calls] /\ call[p] \in Calls /\ CallFine(p)
      /\ InLineOnce(lock, p) /\ lock \in Locks(Procs) /\ p \in Procs
  BY DEF CallInv, LineInv, PoolTypeOK, Procs
<1>2. CASE Granted(p)
  <2>1. /\ Caller(p) /\ call' = call /\ UNCHANGED daemon
        /\ MayEnter(lock, p, "read") /\ p \in lock'.readers
    BY <1>2 DEF Granted, ReadEnter, Caller, taskVars, Entered
  <2>2. Waits(lock, p)
    BY <1>1, <2>1 DEF MayEnter, Waits, Locks
  <2>3. call[p].pc \notin {"idle", "ready", "connect", "cleanup"}
    BY <1>1, <2>2 DEF CallFine, Engaged
  <2> QED
    BY <1>1, <2>1, <2>3 DEF CallMoves, CallFine, At, Serving
<1>3. ASSUME ReadLeave(p), ~At(p, "idle")
      PROVE  /\ Caller(p) /\ Serving /\ Serving'
             /\ ~Engaged(p)'
  <2>1. lock' = Left(lock, p) /\ p \in lock.readers /\ UNCHANGED daemon
    BY <1>3 DEF ReadLeave, taskVars
  <2>2. ~Waits(lock', p) /\ ~Holds(lock', p)
    BY <1>1, <2>1, LeftLine DEF Holds
  <2> QED
    BY <1>1, <1>3, <2>1, <2>2 DEF Caller, CallFine, Serving, Engaged
<1>4. ASSUME NEW c \in Calls, call' = [call EXCEPT ![p] = c],
             c.pc \in {"idle", "cleanup", "ready", "connect"},
             c.pc \in {"ready", "connect"} => c.then \in {"create", "mark"},
             Serving', ~Engaged(p)'
      PROVE  CallMoves(p)
  BY <1>1, <1>4, CallBecomes DEF CallMoves, CallFine, At
<1>5. NoCall \in Calls /\ NoCall.pc = "idle"
  BY CallTypes DEF NoCall
<1>6. CASE Leave(p)
  <2>1. ReadLeave(p) /\ ~At(p, "idle")
    BY <1>6 DEF Leave, At
  <2>2. CASE call[p].then = "cleanup"
    <3> DEFINE c == [call[p] EXCEPT !.pc = "cleanup"]
    <3>1. call' = [call EXCEPT ![p] = c] /\ c \in Calls /\ c.pc = "cleanup"
      BY <1>1, <1>6, <2>2 DEF Leave, Calls, Places
    <3> HIDE DEF c
    <3> QED
      BY <1>3, <1>4, <2>1, <3>1
  <2>3. CASE call[p].then = "ready"
    <3> DEFINE c == Waiting(call[p], "mark")
    <3>1. call' = [call EXCEPT ![p] = c]
      BY <1>1, <1>6, <2>3 DEF Leave
    <3>2. c \in Calls /\ c.pc = "ready" /\ c.then = "mark"
      BY <1>1, CallTypes
    <3> HIDE DEF c
    <3> QED
      BY <1>3, <1>4, <2>1, <3>1, <3>2
  <2>4. CASE call[p].then \notin {"cleanup", "ready"}
    <3>1. call' = [call EXCEPT ![p] = NoCall]
      BY <1>1, <1>6, <2>4 DEF Leave
    <3> QED
      BY <1>3, <1>4, <1>5, <2>1, <3>1
  <2> QED
    BY <1>3, <2>1, <2>2, <2>3, <2>4
<1>7. CASE LooksAtStatus(p)
  <2>1. ReadLeave(p) /\ ~At(p, "idle") /\ call[p].then \in {"create", "mark"}
    BY <1>1, <1>7 DEF LooksAtStatus, Inside, At, CallFine
  <2>2. CASE Vmm(p) \in 1..Size
    <3> DEFINE b == slots[Vmm(p)].proc # "none"
               c == [call[p] EXCEPT !.pc = "connect", !.pid = b]
    <3>1. b \in BOOLEAN
      OBVIOUS
    <3>2. call' = [call EXCEPT ![p].pc = "connect", ![p].pid = b]
      BY <1>7, <2>2 DEF LooksAtStatus
    <3> HIDE DEF b
    <3>3. call' = [call EXCEPT ![p] = c]
      BY <1>1, <3>2
    <3>4. c \in Calls /\ c.pc = "connect" /\ c.then = call[p].then
      BY <1>1, <3>1 DEF Calls, Places
    <3> HIDE DEF c
    <3> QED
      BY <1>3, <1>4, <2>1, <3>3, <3>4
  <2>3. CASE Vmm(p) \notin 1..Size
    <3>1. call' = [call EXCEPT ![p] = NoCall]
      BY <1>7, <2>3 DEF LooksAtStatus, Fails
    <3> QED
      BY <1>3, <1>4, <1>5, <2>1, <3>1
  <2> QED
    BY <1>3, <2>1, <2>2, <2>3
<1>8. CASE Dropped(p)
  <2>1. ~At(p, "idle") /\ call' = [call EXCEPT ![p] = NoCall]
    BY <1>8 DEF Dropped
  <2>2. CASE RequestDropped(p)
    <3>1. lock' = Forgotten(lock, p) /\ UNCHANGED daemon
      BY <2>2 DEF RequestDropped, taskVars
    <3>2. ~Waits(lock', p) /\ ~Holds(lock', p)
      BY <1>1, <3>1, ForgottenLine
    <3>3. Serving' /\ ~Engaged(p)'
      BY <1>1, <2>1, <3>1, <3>2 DEF CallFine, Serving, Engaged
    <3> QED
      BY <1>4, <1>5, <2>1, <2>2, <3>3 DEF Caller, PoolCall
  <2>3. CASE ~Engaged(p) /\ UNCHANGED poolVars
    <3>1. Serving' /\ ~Engaged(p)'
      BY <1>1, <2>1, <2>3 DEF CallFine, Serving, Engaged, poolVars
    <3> QED
      BY <1>4, <1>5, <2>1, <2>3, <3>1
  <2> QED
    BY <1>8, <2>2, <2>3 DEF Dropped
<1> QED
  BY <1>2, <1>6, <1>7, <1>8

(* Commands to a slot, inside a read guard. *)
LEMMA CommandMoves ==
  ASSUME CallInv, NEW p \in Requests, Marks(p) \/ Releases(p) \/ CleansUp(p)
  PROVE  CallMoves(p) /\ (Caller(p) \/ UNCHANGED poolVars)
<1>1. p \in lock.readers /\ ~At(p, "idle")
  BY DEF Marks, Releases, CleansUp, Inside, At
<1>2. Caller(p) \/ UNCHANGED poolVars
  <2>1. \/ UNCHANGED poolVars
        \/ /\ Vmm(p) \in 1..Size
           /\ \/ MarkBooted(p, Vmm(p)) \/ ReleaseSlot(p, Vmm(p))
              \/ ResetSlot(p, Vmm(p))
    BY DEF Marks, Releases, CleansUp, Stays, ReleaseSlot, SlotCommand
  <2> QED
    BY <2>1 DEF Caller, PoolCall
<1>3. UNCHANGED <<lock, daemon>>
  BY DEF Marks, Releases, CleansUp, Stays, MarkBooted, ReleaseSlot, ResetSlot,
         SlotCommand, poolVars, taskVars
<1>4. \E how \in {"ok", "failed"} : Ends(p, how)
  BY DEF Marks, Releases, CleansUp
<1> QED
  BY <1>1, <1>2, <1>3, <1>4, InsideMoves

(* allocate_vm_slot keeps the write guard until it returns. *)
LEMMA AllocMoves ==
  ASSUME CallInv, LineInv, IInv, NEW p \in Requests, Allocates(p)
  PROVE  CallMoves(p) /\ Caller(p)
<1>1. /\ call \in [Requests -> Calls] /\ call[p] \in Calls /\ CallFine(p)
      /\ InLineOnce(lock, p) /\ lock \in Locks(Procs) /\ p \in Procs
      /\ At(p, "alloc") /\ AllocStep(p) /\ alloc \in [Requests -> Allocs]
  BY DEF CallInv, LineInv, IInv, PoolTypeOK, Procs, Allocates
<1>2. Caller(p)
  BY <1>1 DEF Caller
<1>3. UNCHANGED daemon /\ Serving /\ Serving'
  BY <1>1, <1>2, CallerLocks DEF CallFine, At, Serving
<1>4. alloc' \in [Requests -> Allocs]
  <2>1. PoolNext
    BY <1>2 DEF PoolNext
  <2> QED
    BY <2>1, StepInvariant DEF IInv, PoolTypeOK
<1>5. CASE alloc'[p].phase \in {"won", "lost"}
  <2>1. /\ \/ AllocNameTaken(p) \/ AllocExhausted(p) \/ AllocReserve(p)
           \/ AllocRefused(p)
        /\ lock' = Left(lock, p)
    <3>0. ASSUME NEW phase, NEW at, NEW hit, AllocGoes(p, phase, at, hit)
          PROVE  alloc'[p].phase = phase
      <4>1. alloc'[p] = [alloc[p] EXCEPT !.phase = phase, !.at = at, !.hit = hit]
        BY <1>1, <3>0 DEF AllocGoes
      <4> QED
        BY <1>1, <4>1 DEF Allocs
    <3>1. ~AllocStart(p)
      BY <1>5, <3>0 DEF AllocStart
    <3>2. ~(AllocNameNext(p) \/ AllocNameFree(p))
      BY <1>5, <3>0 DEF AllocNameNext, AllocNameFree
    <3>3. ~(AllocEmptyNext(p) \/ AllocEmptyFound(p) \/ AllocExtend(p))
      BY <1>5, <3>0 DEF AllocEmptyNext, AllocEmptyFound, AllocExtend
    <3> QED
      BY <1>1, <3>1, <3>2, <3>3 DEF AllocStep, AllocNameTaken, AllocExhausted,
         AllocReserve, AllocRefused, AllocReturns
  <2>2. Allocating(p)
    BY <2>1 DEF AllocNameTaken, AllocExhausted, AllocReserve, AllocRefused,
                Allocating
  <2>3. Holds(lock, p)
    BY <2>2, NobodyJoins DEF Holds
  <2>4. ~Engaged(p)'
    BY <1>1, <2>1, <2>3, LeftLine DEF Engaged
  <2>5. CASE alloc'[p].phase = "won"
    <3> DEFINE w == Waiting(call[p], "create")
               c == [w EXCEPT !.slot = alloc'[p].at]
    <3>1. call' = [call EXCEPT ![p] = c]
      BY <1>1, <2>5 DEF Allocates
    <3>2. w \in Calls /\ w.pc = "ready" /\ w.then = "create"
      BY <1>1, CallTypes
    <3>3. alloc'[p].at \in 0..MaxSize
      BY <1>4 DEF Allocs
    <3> HIDE DEF w
    <3>4. c \in Calls /\ c.pc = "ready" /\ c.then = "create"
      BY <3>2, <3>3 DEF Calls
    <3> HIDE DEF c
    <3> QED
      BY <1>1, <1>2, <1>3, <2>4, <3>1, <3>4, CallBecomes
         DEF CallMoves, CallFine, At
  <2>6. CASE alloc'[p].phase = "lost"
    <3>1. call' = [call EXCEPT ![p] = NoCall]
      BY <1>1, <2>6 DEF Allocates
    <3>2. NoCall \in Calls /\ NoCall.pc = "idle"
      BY CallTypes DEF NoCall
    <3> QED
      BY <1>1, <1>2, <1>3, <2>4, <3>1, <3>2, CallBecomes
         DEF CallMoves, CallFine, At
  <2> QED
    BY <1>5, <2>5, <2>6
<1>6. CASE alloc'[p].phase \notin {"won", "lost"}
  <2>1. call' = call
    BY <1>1, <1>6 DEF Allocates
  <2> QED
    BY <1>1, <1>2, <1>3, <2>1 DEF CallMoves, CallFine, At
<1> QED
  BY <1>5, <1>6

-----------------------------------------------------------------------------
(* The service implements the pool. *)

(* Every step of a handler changes its own record only, leaves it with the *)
(* guard its place in the code needs, and is a step of a caller of the     *)
(* pool or leaves the pool alone.                                          *)
LEMMA HandlerMoves ==
  ASSUME VmInv, NEW p \in Requests,
         \/ \E n \in Names :
              CreateBegins(p, n) \/ DeleteBegins(p, n) \/ ProxyBegins(p, n)
         \/ HandlerStep(p) \/ Dropped(p)
  PROVE  CallMoves(p) /\ (Caller(p) \/ UNCHANGED poolVars)
<1>1. IInv /\ LineInv /\ CallInv /\ PoolTypeOK
  BY DEF VmInv, IInv
<1> QED
  BY <1>1, AskMoves, RetryMoves, VmmStepMoves, GuardMoves, CommandMoves,
     AllocMoves
     DEF HandlerStep, CreateStep, DeleteStep

(* Every step of the service is one of the pool and keeps the invariant.   *)
LEMMA VmStep ==
  ASSUME VmInv, [VmNext]_serviceVars
  PROVE  [PoolNext]_poolVars /\ VmInv'
<1>0. IInv /\ LineInv /\ CallInv /\ lock \in Locks(Procs)
  BY DEF VmInv, IInv, PoolTypeOK
<1>1. CASE UNCHANGED serviceVars
  <2>1. UNCHANGED poolVars /\ UNCHANGED <<call, lock, daemon>>
    BY <1>1 DEF serviceVars, poolVars
  <2>2. IInv'
    BY <1>0, <2>1, StepInvariant
  <2>3. LineInv'
    BY <1>0, <2>1 DEF LineInv
  <2>4. CallInv'
    BY <1>0, <2>1 DEF CallInv, CallFine, At, Serving, Engaged
  <2> QED
    BY <2>1, <2>2, <2>3, <2>4 DEF VmInv
<1>2. ASSUME NEW p \in Requests, CallMoves(p), Caller(p) \/ UNCHANGED poolVars
      PROVE  [PoolNext]_poolVars /\ VmInv'
  <2>1. [PoolNext]_poolVars
    BY <1>2 DEF PoolNext
  <2>2. IInv'
    BY <1>0, <2>1, StepInvariant
  <2>3. LockStep(p) /\ UNCHANGED daemon /\ p \in Procs
    BY <1>2, CallerLocks DEF LockStep, poolVars, Procs
  <2>4. LineInv'
    BY <1>0, <2>3, LockStepKeeps DEF LineInv
  <2>5. ASSUME NEW q \in Requests PROVE CallFine(q)'
    <3>1. CASE q = p
      BY <1>2, <3>1 DEF CallMoves
    <3>2. CASE q # p
      <4>1. /\ call'[q] = call[q] /\ CallFine(q)
            /\ Engaged(q)' => Engaged(q)
            /\ q \in lock.readers => q \in lock'.readers
        BY <1>0, <1>2, <2>3, <3>2, LockStepKeeps DEF CallMoves, CallInv, LineInv
      <4> QED
        BY <2>3, <4>1 DEF CallFine, At, Serving
    <3> QED
      BY <3>1, <3>2
  <2> QED
    BY <1>2, <2>1, <2>2, <2>4, <2>5 DEF VmInv, CallInv, CallMoves
<1>3. CASE Daemon
  <2>1. /\ \/ Scaling \/ Stopping \/ Joining
           \/ \E i \in DOMAIN slots : SlotEvent(i)
        /\ UNCHANGED call
    BY <1>3 DEF Daemon, Stopping, ServerDrained
  <2>2. [PoolNext]_poolVars
    BY <2>1 DEF PoolNext
  <2>3. IInv'
    BY <1>0, <2>2, StepInvariant
  <2>4. PICK t \in {Autoscaler, Main} : LockStep(t)
    BY <2>1, TaskLocksStep
  <2>5. t \in Procs /\ t \notin Requests
    BY <2>4, ProcAssumption DEF Procs
  <2>6. LineInv'
    BY <1>0, <2>4, <2>5, LockStepKeeps DEF LineInv
  <2>7. ASSUME NEW q \in Requests PROVE CallFine(q)'
    <3>1. /\ call'[q] = call[q] /\ CallFine(q)
          /\ Engaged(q)' => Engaged(q)
          /\ q \in lock.readers => q \in lock'.readers
      BY <1>0, <2>1, <2>4, <2>5, LockStepKeeps DEF CallInv, LineInv
    <3>2. ~At(q, "idle") => Serving'
      <4> SUFFICES ASSUME ~At(q, "idle") PROVE Serving'
        OBVIOUS
      <4>1. daemon \in {"serve", "drain"} /\ ~ServerDrained
        BY <3>1 DEF CallFine, Serving, ServerDrained
      <4>2. CASE ShutdownSignal
        BY <4>2 DEF ShutdownSignal, Serving
      <4>3. CASE ShutdownStart \/ ShutdownPop \/ ShutdownDone
        BY <4>1, <4>3 DEF ShutdownStart, ShutdownPop, ShutdownDone
      <4>4. CASE Scaling \/ Joining \/ \E i \in DOMAIN slots : SlotEvent(i)
        BY <4>1, <4>4 DEF Scaling, ScalerTick, ScalerKeeps, ScalerShrinks,
             ScalerPop, Joining, Join, SlotEvent, Spawn, SpawnFails, Reap,
             PollFails, Listen, Exit, WorkerEnds, WorkerMoves, taskVars, Serving
      <4> QED
        BY <1>3, <4>1, <4>2, <4>3, <4>4 DEF Daemon
    <3> QED
      BY <3>1, <3>2 DEF CallFine, At
  <2> QED
    BY <1>0, <2>1, <2>2, <2>3, <2>6, <2>7 DEF VmInv, CallInv
<1> QED
  BY <1>1, <1>2, <1>3, HandlerMoves DEF VmNext

(* The invariant holds when the daemon starts to serve.                    *)
LEMMA VmInitInv == VmInit => VmInv
<1> SUFFICES ASSUME VmInit PROVE VmInv
  OBVIOUS
<1>1. PoolInit /\ IInv
  BY InitInvariant DEF VmInit
<1>2. /\ lock.queue = <<>> /\ lock.readers = {} /\ lock.writer = NoProc
      /\ daemon = "serve" /\ NoProc \notin Requests
  BY <1>1, ProcAssumption DEF PoolInit, LockFree, Procs
<1>3. \A p \in Requests : ~Waits(lock, p) /\ ~Holds(lock, p)
  BY <1>2 DEF Waits, Holds
<1>4. LineInv
  BY <1>2, <1>3 DEF LineInv, InLineOnce
<1>5. call \in [Requests -> Calls] /\ \A p \in Requests : call[p].pc = "idle"
  BY CallTypes DEF VmInit, NoCall
<1>6. CallInv
  BY <1>3, <1>5 DEF CallInv, CallFine, At, Engaged
<1> QED
  BY <1>1, <1>4, <1>6 DEF VmInv

(* In every reachable state of the service, for any number of clients,     *)
(* names and slots: the pool's invariant holds, nobody is twice in the     *)
(* line of the lock, and each handler of service.rs is inside, in line or  *)
(* away from the lock as its place in the code says.                       *)
THEOREM VmInvariance == VmSpec => []VmInv
<1>1. VmInv /\ [VmNext]_serviceVars => VmInv'
  BY VmStep
<1> QED
  BY <1>1, VmInitInv, PTL DEF VmSpec

(* The handlers of service.rs use the lock and the pool as ProcessPool     *)
(* allows, whatever they are interleaved with and wherever they are        *)
(* dropped: no handler asks for a guard while it holds or awaits another   *)
(* one, and every change to a slot is one that ProcessPool makes under the *)
(* same guard.                                                             *)
THEOREM HandlersImplementPool == VmSpec => ImplementsPool
<1>1. VmInit => PoolInit
  BY DEF VmInit
<1>2. VmInv /\ [VmNext]_serviceVars => [PoolNext]_poolVars
  BY VmStep
<1> QED
  BY <1>1, <1>2, VmInvariance, PTL DEF VmSpec, ImplementsPool, PoolSpec

(* Concurrent creates of one name leave one VM of that name.               *)
THEOREM CreatedNamesUnique == VmSpec => []NamesUnique
BY HandlersImplementPool, NamesAreUnique DEF ImplementsPool

-----------------------------------------------------------------------------
(* What a lookup found, and the guests. *)

(* Past a lookup that found its VM, inside the guard it was made under. *)
Found(p) == call[p].pc \in {"shutdown", "delete", "release", "proxy"}

(* A handler is past a lookup that found its VM because it has just made   *)
(* it or was so before, with the same name and slot.                       *)
LEMMA FoundStep ==
  ASSUME VmInv, NEW p \in Requests, Found(p)',
         \/ \E n \in Names :
              CreateBegins(p, n) \/ DeleteBegins(p, n) \/ ProxyBegins(p, n)
         \/ HandlerStep(p) \/ Dropped(p)
  PROVE  /\ UNCHANGED poolVars
         /\ \/ Finds(p)
            \/ /\ Found(p) /\ call'[p].slot = call[p].slot
               /\ call'[p].name = call[p].name
<1>1. call \in [Requests -> Calls] /\ call[p] \in Calls /\ CallFine(p)
  BY DEF VmInv, CallInv
<1>2. /\ \A pc : GoesTo(p, pc) =>
           /\ call'[p].pc = pc /\ call'[p].slot = call[p].slot
           /\ call'[p].name = call[p].name
      /\ \A then : LeavesFor(p, then) => call'[p].pc = "leave"
      /\ \A how : Ends(p, how) => call'[p].pc = "leave"
      /\ Fails(p) => call'[p].pc = "idle"
      /\ \A pc, n : Begins(p, pc, n) => call'[p].pc = pc
  <2>1. \A pc : GoesTo(p, pc) =>
           /\ call'[p].pc = pc /\ call'[p].slot = call[p].slot
           /\ call'[p].name = call[p].name
    BY <1>1 DEF GoesTo, Calls
  <2>2. \A then : LeavesFor(p, then) => call'[p].pc = "leave"
    BY <1>1 DEF LeavesFor, Calls
  <2>3. \A how : Ends(p, how) => call'[p].pc = "leave"
    BY <1>1 DEF Ends, NoCall
  <2>4. Fails(p) => call'[p].pc = "idle"
    BY <1>1 DEF Fails, NoCall
  <2>5. \A pc, n : Begins(p, pc, n) => call'[p].pc = pc
    BY <1>1 DEF Begins, NoCall
  <2> QED
    BY <2>1, <2>2, <2>3, <2>4, <2>5
<1>3. CASE Finds(p)
  BY <1>3 DEF Finds, Stays
<1>4. CASE ShutdownGuest(p) \/ DeleteGuest(p)
  BY <1>1, <1>2, <1>4 DEF ShutdownGuest, DeleteGuest, Unreached, Refused, Done,
       Found, Inside, At
<1>5. CASE \/ CreateGuest(p) \/ RestoreGuest(p) \/ BootGuest(p)
           \/ MarkRefused(p) \/ NotRunning(p) \/ ReleaseRefused(p) \/ Proxies(p)
           \/ Marks(p) \/ Releases(p) \/ CleansUp(p)
  BY <1>2, <1>5 DEF CreateGuest, RestoreGuest, BootGuest, MarkRefused,
       NotRunning, ReleaseRefused, Proxies, Marks, Releases, CleansUp,
       Unreached, Refused, Done, Found
<1>6. CASE \E n \in Names : CreateBegins(p, n) \/ DeleteBegins(p, n)
                             \/ ProxyBegins(p, n)
  <2>1. call'[p].pc \in {"alloc", "find"}
    <3>1. ASSUME NEW n \in Names, CreateBegins(p, n) PROVE call'[p].pc = "alloc"
      BY <1>2, <3>1 DEF CreateBegins
    <3>2. ASSUME NEW n \in Names, NEW then, LookupBegins(p, n, then)
          PROVE  call'[p].pc = "find"
      BY <1>1, <3>2 DEF LookupBegins, NoCall
    <3> QED
      BY <1>6, <3>1, <3>2 DEF DeleteBegins, ProxyBegins
  <2> QED
    BY <2>1 DEF Found
<1>7. CASE AsksStatus(p) \/ AsksCleanup(p) \/ TimesOut(p)
  BY <1>2, <1>7 DEF AsksStatus, AsksCleanup, TimesOut, Found
<1>8. CASE Connects(p) \/ TriesAgain(p)
  <2>1. call'[p].pc = call[p].then \/ call'[p].pc = "ready"
    BY <1>1, <1>8 DEF Connects, TriesAgain, Calls
  <2>2. call[p].then \in {"create", "mark"}
    BY <1>1, <1>8 DEF Connects, TriesAgain, NotReady, At, CallFine
  <2> QED
    BY <2>1, <2>2 DEF Found
<1>9. CASE Granted(p)
  <2>1. call' = call /\ MayEnter(lock, p, "read")
    BY <1>9 DEF Granted, ReadEnter
  <2>2. Waits(lock, p) /\ p \notin lock.readers
    BY <2>1 DEF MayEnter, Waits, VmInv, IInv, PoolTypeOK, Locks, LineInv,
                InLineOnce, Holds
  <2> QED
    BY <1>1, <2>1, <2>2 DEF Found, CallFine
<1>10. CASE Leave(p) \/ LooksAtStatus(p) \/ Dropped(p)
  <2>1. CASE Leave(p)
    <3>1. call'[p].pc \in {"cleanup", "ready", "idle"}
      BY <1>1, <2>1 DEF Leave, Waiting, NoCall, Calls
    <3> QED
      BY <3>1 DEF Found
  <2>2. CASE LooksAtStatus(p)
    <3>1. call'[p].pc \in {"connect", "idle"}
      BY <1>1, <1>2, <2>2 DEF LooksAtStatus, Calls
    <3> QED
      BY <3>1 DEF Found
  <2>3. CASE Dropped(p)
    BY <1>1, <2>3 DEF Dropped, NoCall, Found
  <2> QED
    BY <1>10, <2>1, <2>2, <2>3
<1>11. CASE Allocates(p)
  <2>1. call'[p].pc \in {"ready", "idle", "alloc"}
    BY <1>1, <1>11 DEF Allocates, Waiting, NoCall, Calls, At
  <2> QED
    BY <2>1 DEF Found
<1> QED
  BY <1>3, <1>4, <1>5, <1>6, <1>7, <1>8, <1>9, <1>10, <1>11
     DEF HandlerStep, CreateStep, DeleteStep

(* What a lookup found survives every step of the service.                 *)
LEMMA LookupKeeps ==
  ASSUME VmInv, LookupHolds, [VmNext]_serviceVars
  PROVE  LookupHolds'
<1> SUFFICES ASSUME NEW p \in Requests, Found(p)'
             PROVE  /\ call'[p].slot \in 1..Size'
                    /\ slots'[call'[p].slot].name \in {call'[p].name, NoName}
  BY DEF LookupHolds, Found, Vmm
<1>0. /\ IInv /\ Size \in Nat /\ [PoolNext]_poolVars
      /\ call \in [Requests -> Calls] /\ call[p] \in Calls /\ CallFine(p)
  BY VmStep, SizeFacts DEF VmInv, IInv, CallInv
<1>1. ASSUME call'[p] = call[p]
      PROVE  /\ call'[p].slot \in 1..Size'
             /\ slots'[call'[p].slot].name \in {call'[p].name, NoName}
  <2>1. Found(p) /\ p \in lock.readers
    BY <1>0, <1>1 DEF Found, CallFine
  <2>2. /\ call[p].slot \in 1..Size /\ call[p].slot \in Nat
        /\ slots[call[p].slot].name \in {call[p].name, NoName}
    BY <1>0, <2>1 DEF LookupHolds, Found, Vmm
  <2>3. /\ call[p].slot \in 1..Size'
        /\ slots'[call[p].slot].name \in {slots[call[p].slot].name, NoName}
    BY <1>0, <2>1, <2>2, ReadersSee
  <2> QED
    BY <1>1, <2>2, <2>3
<1>2. CASE \/ \E n \in Names :
              CreateBegins(p, n) \/ DeleteBegins(p, n) \/ ProxyBegins(p, n)
           \/ HandlerStep(p) \/ Dropped(p)
  <2>1. /\ slots' = slots /\ Size' = Size
        /\ \/ Finds(p)
           \/ /\ Found(p) /\ call'[p].slot = call[p].slot
              /\ call'[p].name = call[p].name
    BY <1>2, FoundStep DEF poolVars, Size
  <2>2. CASE Finds(p)
    <3>1. PICK i \in 1..Size :
            /\ slots[i].name = call[p].name
            /\ call' = [call EXCEPT ![p].pc = call[p].then, ![p].slot = i]
      BY <2>2 DEF Finds
    <3>2. call'[p].slot = i /\ call'[p].name = call[p].name
      BY <1>0, <3>1 DEF Calls
    <3> QED
      BY <2>1, <3>1, <3>2
  <2>3. CASE ~Finds(p)
    <3>1. /\ call[p].slot \in 1..Size
          /\ slots[call[p].slot].name \in {call[p].name, NoName}
      BY <2>1, <2>3 DEF LookupHolds, Found, Vmm
    <3> QED
      BY <2>1, <2>3, <3>1
  <2> QED
    BY <2>2, <2>3
<1>3. ASSUME NEW q \in Requests \ {p},
             \/ \E n \in Names :
                  CreateBegins(q, n) \/ DeleteBegins(q, n) \/ ProxyBegins(q, n)
             \/ HandlerStep(q) \/ Dropped(q)
      PROVE  call'[p] = call[p]
  BY <1>3, HandlerMoves DEF CallMoves
<1>4. Daemon \/ UNCHANGED serviceVars => call'[p] = call[p]
  BY DEF Daemon, serviceVars
<1> QED
  BY <1>1, <1>2, <1>3, <1>4 DEF VmNext

(* delete and proxied requests, for every number of clients and names and  *)
(* every interleaving with creates, cleanups, exits and scaling: the slot  *)
(* a name was found in is still there and holds that VM or none for as     *)
(* long as the read guard is held.                                         *)
THEOREM LookupsHold == VmSpec => []LookupHolds
<1>1. VmInit => LookupHolds
  BY DEF VmInit, NoCall, LookupHolds
<1>2. VmInv /\ LookupHolds /\ [VmNext]_serviceVars => LookupHolds'
  BY LookupKeeps
<1> QED
  BY <1>1, <1>2, VmInvariance, PTL DEF VmSpec

(* A guest is in a VMM that listens at a slot of the pool. *)
Guests == [name : Names \cup {NoName}, on : BOOLEAN]

GuestsRun ==
  /\ guest \in [1..MaxSize -> Guests]
  /\ \A i \in 1..MaxSize : guest[i] # NoGuest =>
       i \in DOMAIN slots /\ slots[i].proc = "serving"

(* The guests go with their VMMs. *)
LEMMA GuestsFollowKeeps ==
  ASSUME IInv, GuestsRun, [PoolNext]_poolVars, GuestsFollow
  PROVE  GuestsRun'
<1>1. NoGuest \in Guests
  BY DEF NoGuest, Guests
<1>2. guest' \in [1..MaxSize -> Guests]
  BY <1>1 DEF GuestsRun, GuestsFollow
<1>3. ASSUME NEW i \in 1..MaxSize, guest'[i] # NoGuest
      PROVE  i \in DOMAIN slots' /\ slots'[i].proc = "serving"
  <2>1. i \in DOMAIN slots' /\ Alive(slots'[i]) /\ guest[i] # NoGuest
    BY <1>3 DEF GuestsFollow
  <2>2. i \in DOMAIN slots /\ slots[i].proc = "serving" /\ i \in Nat
    BY <2>1 DEF GuestsRun
  <2> QED
    BY <2>1, <2>2, ServingStays
<1> QED
  BY <1>2, <1>3 DEF GuestsRun

(* A VMM that listens creates or removes its guest. *)
LEMMA GuestsChangeKeeps ==
  ASSUME GuestsRun, UNCHANGED slots, NEW i \in DOMAIN slots,
         slots[i].proc = "serving", NEW g \in Guests,
         guest' = [guest EXCEPT ![i] = g]
  PROVE  GuestsRun'
BY DEF GuestsRun

(* No step of a handler puts a guest anywhere but into a VMM that listens. *)
LEMMA HandlerGuests ==
  ASSUME VmInv, GuestsRun, NEW p \in Requests,
         \/ \E n \in Names :
              CreateBegins(p, n) \/ DeleteBegins(p, n) \/ ProxyBegins(p, n)
         \/ HandlerStep(p) \/ Dropped(p)
  PROVE  GuestsRun'
<1>0. /\ IInv /\ [PoolNext]_poolVars
      /\ call[p].name \in Names \cup {NoName} /\ slots \in Seq(SlotRecords)
  <2>1. call[p] \in Calls /\ IInv /\ slots \in Seq(SlotRecords)
    BY DEF VmInv, CallInv, IInv, PoolTypeOK
  <2>2. [PoolNext]_poolVars
    BY HandlerMoves DEF PoolNext
  <2> QED
    BY <2>1, <2>2 DEF Calls
<1>1. CASE UNCHANGED <<slots, guest>>
  BY <1>1 DEF GuestsRun
<1>2. CASE GuestsFollow
  BY <1>0, <1>2, GuestsFollowKeeps
<1>3. CASE CreateGuest(p) \/ RestoreGuest(p)
  <2>1. CASE UNCHANGED <<slots, guest>>
    BY <1>1, <2>1
  <2>2. CASE ~UNCHANGED <<slots, guest>>
    <3>1. PICK b \in BOOLEAN :
            /\ guest' = [guest EXCEPT ![Vmm(p)] = [name |-> call[p].name, on |-> b]]
            /\ Reached(p) /\ UNCHANGED poolVars
      BY <1>3, <2>2 DEF CreateGuest, RestoreGuest, Unreached, Refused, Done,
                        Stays, poolVars
    <3>2. /\ UNCHANGED slots /\ Vmm(p) \in DOMAIN slots
          /\ slots[Vmm(p)].proc = "serving"
          /\ [name |-> call[p].name, on |-> b] \in Guests
      BY <1>0, <3>1 DEF Reached, Guests, poolVars
    <3> QED
      BY <3>1, <3>2, GuestsChangeKeeps
  <2> QED
    BY <2>1, <2>2
<1>4. CASE BootGuest(p) \/ ShutdownGuest(p) \/ DeleteGuest(p)
  <2>1. CASE UNCHANGED <<slots, guest>>
    BY <1>1, <2>1
  <2>2. CASE ~UNCHANGED <<slots, guest>>
    <3>1. /\ Reached(p) /\ UNCHANGED poolVars
          /\ \/ guest' = [guest EXCEPT ![Vmm(p)] = NoGuest]
             \/ \E b \in BOOLEAN :
                  \/ guest' = [guest EXCEPT ![Vmm(p)].on = b]
                  \/ guest' = [guest EXCEPT ![Vmm(p)] = [guest[Vmm(p)] EXCEPT !.on = b]]
      BY <1>4, <2>2 DEF BootGuest, ShutdownGuest, DeleteGuest, Unreached,
                        Refused, Done, Stays, poolVars
    <3>2. /\ UNCHANGED slots /\ Vmm(p) \in DOMAIN slots
          /\ slots[Vmm(p)].proc = "serving"
      BY <3>1 DEF Reached, poolVars
    <3>3. Vmm(p) \in 1..MaxSize
      <4>1. DOMAIN slots = 1..Len(slots) /\ Len(slots) \in Nat /\ Len(slots) <= MaxSize
        BY <1>0, SizeFacts DEF IInv
      <4> QED
        BY <3>2, <4>1, SizeAssumption
    <3>4. guest[Vmm(p)] \in Guests /\ NoGuest \in Guests
      BY <3>3 DEF GuestsRun, NoGuest, Guests
    <3>5. \A b \in BOOLEAN : [guest[Vmm(p)] EXCEPT !.on = b] \in Guests
      BY <3>4 DEF Guests
    <3>6. \E g \in Guests : guest' = [guest EXCEPT ![Vmm(p)] = g]
      <4>1. CASE guest' = [guest EXCEPT ![Vmm(p)] = NoGuest]
        BY <3>4, <4>1
      <4>2. ASSUME NEW b \in BOOLEAN,
                   \/ guest' = [guest EXCEPT ![Vmm(p)].on = b]
                   \/ guest' = [guest EXCEPT ![Vmm(p)] = [guest[Vmm(p)] EXCEPT !.on = b]]
            PROVE  \E g \in Guests : guest' = [guest EXCEPT ![Vmm(p)] = g]
        <5>1. guest' = [guest EXCEPT ![Vmm(p)] = [guest[Vmm(p)] EXCEPT !.on = b]]
          BY <4>2
        <5> QED
          BY <3>5, <5>1
      <4> QED
        BY <3>1, <4>1, <4>2
    <3> QED
      BY <3>2, <3>6, GuestsChangeKeeps
  <2> QED
    BY <2>1, <2>2
<1>5. CASE Marks(p)
  <2>1. /\ guest' = guest /\ Vmm(p) \in 1..Size
        /\ slots' = [slots EXCEPT ![Vmm(p)] = Booted(slots[Vmm(p)])]
    BY <1>5 DEF Marks, MarkBooted, SlotCommand, SlotMoves
  <2>2. DOMAIN slots' = DOMAIN slots
    BY <2>1
  <2>3. ASSUME NEW i \in DOMAIN slots, slots[i].proc = "serving"
        PROVE  slots'[i].proc = "serving"
    <3>1. slots[i] \in SlotRecords
      BY <1>0
    <3> QED
      BY <2>1, <2>3, <3>1 DEF Booted, SlotRecords
  <2> QED
    BY <2>1, <2>2, <2>3 DEF GuestsRun
<1>6. CASE \/ \E n \in Names :
                CreateBegins(p, n) \/ DeleteBegins(p, n) \/ ProxyBegins(p, n)
           \/ AsksStatus(p) \/ Connects(p) \/ AsksCleanup(p)
  BY <1>1, <1>6 DEF CreateBegins, DeleteBegins, ProxyBegins, LookupBegins,
       AsksStatus, Connects, AsksCleanup, AsksRead, AllocRequest, slotVars
<1>7. CASE \/ TriesAgain(p) \/ TimesOut(p) \/ MarkRefused(p)
           \/ NotRunning(p) \/ Finds(p) \/ ReleaseRefused(p) \/ Proxies(p)
  BY <1>1, <1>7 DEF TriesAgain, TimesOut, NotReady, MarkRefused, NotRunning,
       Finds, ReleaseRefused, Proxies, Unreached, Stays, poolVars
<1>8. CASE Granted(p) \/ Leave(p) \/ LooksAtStatus(p) \/ Dropped(p)
  BY <1>1, <1>8 DEF Granted, Leave, LooksAtStatus, Dropped, ReadEnter,
       ReadLeave, RequestDropped, slotVars, poolVars
<1>9. CASE Allocates(p) \/ Releases(p) \/ CleansUp(p)
  BY <1>1, <1>2, <1>9 DEF Allocates, Releases, CleansUp, Stays, poolVars
<1> QED
  BY <1>3, <1>4, <1>5, <1>6, <1>7, <1>8, <1>9
     DEF HandlerStep, CreateStep, DeleteStep

(* The state of the handlers stays well formed, and every guest is in a    *)
(* VMM that listens at a slot of the pool.                                 *)
THEOREM VmTypeCorrect == VmSpec => []VmTypeOK
<1>1. VmInit => GuestsRun
  BY DEF VmInit, GuestsRun, NoGuest, Guests
<1>2. ASSUME VmInv, GuestsRun, [VmNext]_serviceVars PROVE GuestsRun'
  <2>1. CASE UNCHANGED serviceVars
    BY <1>2, <2>1 DEF serviceVars, GuestsRun
  <2>2. CASE Daemon
    <3>1. GuestsFollow /\ IInv /\ [PoolNext]_poolVars
      BY <1>2, <2>2, VmStep DEF Daemon, VmInv
    <3> QED
      BY <1>2, <3>1, GuestsFollowKeeps
  <2> QED
    BY <1>2, <2>1, <2>2, HandlerGuests DEF VmNext
<1>3. VmInv /\ GuestsRun => VmTypeOK
  BY DEF VmInv, CallInv, GuestsRun, Guests, VmTypeOK
<1> QED
  BY <1>1, <1>2, <1>3, VmInvariance, PTL DEF VmSpec

=============================================================================
