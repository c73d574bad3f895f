------------------------------- MODULE RwLock -------------------------------
(***************************************************************************)
(* tokio::sync::RwLock, the lock around the process pool, as operators on  *)
(* a lock record.  It is not code of the repository; what is modelled is   *)
(* what src/main.rs and src/service.rs rely on: many readers or one        *)
(* writer, and requests served strictly in the order they were made, so    *)
(* that a reader queues behind a writer that waits, also one who already   *)
(* reads.                                                                  *)
(***************************************************************************)
EXTENDS Naturals, Sequences

CONSTANT NoProc     (* nobody holds the lock for writing                    *)

Locks(P) ==
  [readers : SUBSET P, writer : P \cup {NoProc},
   queue : Seq([who : P, mode : {"read", "write"}])]

LockFree == [readers |-> {}, writer |-> NoProc, queue |-> <<>>]

(* read() and write() before they are granted *)
Asked(l, p, m) == [l EXCEPT !.queue = Append(@, [who |-> p, mode |-> m])]

(* p is first in line, and what it waits for fits what is held. *)
MayEnter(l, p, m) ==
  /\ l.queue # <<>> /\ Head(l.queue) = [who |-> p, mode |-> m]
  /\ l.writer = NoProc
  /\ m = "write" => l.readers = {}

Entered(l, p, m) ==
  [readers |-> IF m = "read" THEN l.readers \cup {p} ELSE l.readers,
   writer  |-> IF m = "write" THEN p ELSE l.writer,
   queue   |-> Tail(l.queue)]

(* The guard is dropped. *)
Left(l, p) ==
  [l EXCEPT !.readers = @ \ {p}, !.writer = IF @ = p THEN NoProc ELSE @]

Waits(l, p) == \E k \in DOMAIN l.queue : l.queue[k].who = p

(* The future of p is dropped: its guard and its place in the line go. *)
Forgotten(l, p) ==
  LET k == CHOOSE j \in DOMAIN l.queue : l.queue[j].who = p
  IN  [Left(l, p) EXCEPT !.queue =
         IF Waits(l, p) THEN SubSeq(@, 1, k - 1) \o SubSeq(@, k + 1, Len(@))
                        ELSE @]

Holds(l, p) == l.writer = p \/ p \in l.readers
=============================================================================
