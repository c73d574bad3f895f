---------------------------- MODULE VmGuestProofs ----------------------------
(***************************************************************************)
(* The guests of VmService are in the slots of their VMs, for every number *)
(* of creates, names and slots, as long as no VMM exits by itself and      *)
(* deletes do not overlap; both hypotheses are needed, as the runs that    *)
(* drop them show.  The invariant is about who is in charge of a slot: a   *)
(* create from its reservation on, a delete from its lookup on, each alone *)
(* (Alone), so that a slot keeps its name while requests for that name go  *)
(* to its VMM.                                                             *)
(***************************************************************************)
EXTENDS VmServiceProofs

(* The places where a handler has a slot in its charge. *)
InCharge(p) ==
  \/ call[p].pc \in {"ready", "look", "connect", "create", "boot", "mark",
                     "shutdown", "delete", "release", "cleanup", "reset"}
  \/ call[p].pc = "leave" /\ call[p].then \in {"ready", "cleanup"}

(* A create whose guest was started and who goes on to mark its slot. *)
PastBoot(p) ==
  \/ call[p].pc = "leave" /\ call[p].then = "ready"
  \/ call[p].pc \in {"ready", "look", "connect"} /\ call[p].then = "mark"
  \/ call[p].pc = "mark"

Running(n) == [name |-> n, on |-> TRUE]

(* The slot in the charge of p is that of the VM it was asked for. *)
ChargeFine(p) ==
  InCharge(p) =>
    /\ Vmm(p) \in 1..Size
    /\ call[p].name \in Names /\ slots[Vmm(p)].name = call[p].name
    /\ slots[Vmm(p)].state = "Occupied" => p \in Deleters
    /\ PastBoot(p) => \/ slots[Vmm(p)].state = "Failed"
                      \/ guest[Vmm(p)] = Running(call[p].name)

(* What a handler knows before it has a slot, and where marking leads. *)
IntentFine(p) ==
  /\ At(p, "alloc") => alloc[p].name = call[p].name
  /\ At(p, "find") =>
       /\ call[p].name \in Names
       /\ call[p].then = "shutdown" => p \in Deleters
  /\ At(p, "mark") => call[p].then = "mark"

(* No slot is in the charge of two handlers. *)
Alone ==
  \A p, q \in Requests :
    InCharge(p) /\ InCharge(q) /\ Vmm(p) = Vmm(q) => p = q

(* An Empty slot has no name, and no VMM has exited. *)
SlotFine(s) == (s.state = "Empty" => s.name = NoName) /\ s.proc # "exited"

SlotsFine ==
  /\ \A i \in DOMAIN slots : SlotFine(slots[i])
  /\ scaler = "pop" => slots[Size].name = NoName

(* A guest has a name, which is that of its slot. *)
GuestsFine ==
  \A i \in 1..MaxSize : guest[i] # NoGuest =>
    /\ guest[i].name # NoName
    /\ i \in DOMAIN slots /\ slots[i].name = guest[i].name

TenantInv ==
  /\ SlotsFine /\ GuestsRun /\ GuestsFine /\ Alone
  /\ \A p \in Requests : ChargeFine(p) /\ IntentFine(p)

OneDeleter == \A p, q \in Deleters : p = q

-----------------------------------------------------------------------------
(* The steps of a handler, by what they do to the slots, the guests and    *)
(* the slot in its charge.                                                 *)

SlotsKept == UNCHANGED <<slots, joiner, scaler>>

(* It has no slot in its charge afterwards and changes none. *)
Passes(p) == ~InCharge(p)' /\ SlotsKept /\ UNCHANGED guest

(* It goes on with the slot it has. *)
GoesOn(p) ==
  /\ InCharge(p)
  /\ call'[p].slot = call[p].slot /\ call'[p].name = call[p].name

Proceeds(p) ==
  /\ GoesOn(p) /\ SlotsKept /\ UNCHANGED guest
  /\ PastBoot(p)' => PastBoot(p)

(* A VMM creates, boots, stops or deletes a guest for it. *)
Changes(p, g) ==
  /\ GoesOn(p) /\ SlotsKept /\ Reached(p)
  /\ guest' = [guest EXCEPT ![Vmm(p)] = g]
  /\ PastBoot(p)' => g = Running(call[p].name)

(* It found a running VM to delete. *)
Grasps(p, i) ==
  /\ SlotsKept /\ UNCHANGED guest
  /\ slots[i].name = call[p].name /\ call[p].name \in Names
  /\ slots[i].state = "Occupied" /\ p \in Deleters
  /\ call'[p].slot = i /\ call'[p].name = call[p].name
  /\ ~InCharge(p) /\ ~PastBoot(p)'

(* Slot i becomes s. *)
Becomes(i, s) ==
  /\ slots' = [slots EXCEPT ![i] = s] /\ s \in SlotRecords
  /\ UNCHANGED <<joiner, scaler>> /\ scaler # "pop"
  /\ GuestsFollow

(* It reserves an Empty slot. *)
Takes(p, i) ==
  /\ slots[i].state = "Empty" /\ call[p].name \in Names
  /\ Becomes(i, Claimed(slots[i], call[p].name))
  /\ call'[p].slot = i /\ call'[p].name = call[p].name
  /\ ~InCharge(p) /\ ~PastBoot(p)'

(* It is done with its slot, which is marked or cleared. *)
Finishes(p) ==
  /\ InCharge(p) /\ ~InCharge(p)'
  /\ \/ Becomes(Vmm(p), FreshSlot)
     \/ slots[Vmm(p)].state = "Booting" /\ Becomes(Vmm(p), Booted(slots[Vmm(p)]))

(* It adds a slot. *)
Extends(p) ==
  /\ ~InCharge(p)'
  /\ slots' = Append(slots, FreshSlot) /\ joiner = NoProc
  /\ UNCHANGED <<joiner, scaler>> /\ scaler # "pop"
  /\ GuestsFollow

StepKind(p) ==
  \/ Passes(p) \/ Proceeds(p) \/ Extends(p)
  \/ \E g \in Guests : Changes(p, g) /\ (g = NoGuest \/ g.name = call[p].name)
  \/ \E i \in 1..Size : Grasps(p, i) \/ Takes(p, i)
  \/ Vmm(p) \in 1..Size /\ Finishes(p)

(* Where the ways a handler moves lead it. *)
LEMMA CallFacts ==
  ASSUME call \in [Requests -> Calls], NEW p \in Requests
  PROVE  /\ \A pc : GoesTo(p, pc) =>
              /\ call'[p].pc = pc /\ call'[p].then = call[p].then
              /\ call'[p].slot = call[p].slot /\ call'[p].name = call[p].name
         /\ \A then : LeavesFor(p, then) =>
              /\ call'[p].pc = "leave" /\ call'[p].then = then
              /\ call'[p].slot = call[p].slot /\ call'[p].name = call[p].name
         /\ \A how \in {"ok", "failed"} : Ends(p, how) =>
              call'[p].pc = "leave" /\ call'[p].then = how
         /\ Fails(p) => call'[p].pc = "idle"
         /\ call[p] \in Calls
<1>1. ASSUME NEW pc, GoesTo(p, pc)
      PROVE  /\ call'[p].pc = pc /\ call'[p].then = call[p].then
             /\ call'[p].slot = call[p].slot /\ call'[p].name = call[p].name
  BY <1>1 DEF GoesTo, Calls
<1>2. ASSUME NEW then, LeavesFor(p, then)
      PROVE  /\ call'[p].pc = "leave" /\ call'[p].then = then
             /\ call'[p].slot = call[p].slot /\ call'[p].name = call[p].name
  BY <1>2 DEF LeavesFor, Calls
<1>3. ASSUME NEW how \in {"ok", "failed"}, Ends(p, how)
      PROVE  call'[p].pc = "leave" /\ call'[p].then = how
  BY <1>3 DEF Ends, NoCall
<1>4. Fails(p) => call'[p].pc = "idle"
  BY DEF Fails, NoCall
<1> QED
  BY <1>1, <1>2, <1>3, <1>4

(* A handler that returns has nothing in its charge. *)
LEMMA OverFacts ==
  ASSUME call \in [Requests -> Calls], NEW p \in Requests,
         (\E how \in {"ok", "failed"} : Ends(p, how)) \/ Fails(p)
  PROVE  ~InCharge(p)'
<1>1. call'[p].pc = "leave" => call'[p].then \in {"ok", "failed"}
  BY CallFacts
<1>2. call'[p].pc \in {"leave", "idle"}
  BY CallFacts
<1> QED
  BY <1>1, <1>2 DEF InCharge

(* A guest is its name and whether it is on. *)
LEMMA GuestFields == \A g \in Guests : g = [name |-> g.name, on |-> g.on]
BY DEF Guests

(* Requests to the VMMs.                                                   *)
LEMMA GuestSteps ==
  ASSUME VmInv, TenantInv, NEW p \in Requests,
         CreateGuest(p) \/ RestoreGuest(p) \/ BootGuest(p)
           \/ ShutdownGuest(p) \/ DeleteGuest(p)
  PROVE  StepKind(p)
<1>1. /\ call \in [Requests -> Calls] /\ call[p] \in Calls /\ ChargeFine(p)
      /\ InCharge(p) /\ ~PastBoot(p)
      /\ call[p].pc \in {"create", "boot", "shutdown", "delete"}
  BY DEF VmInv, CallInv, TenantInv, InCharge, PastBoot, CreateGuest,
         RestoreGuest, BootGuest, ShutdownGuest, DeleteGuest, Inside, At
<1>2. SlotsKept
  BY DEF CreateGuest, RestoreGuest, BootGuest, ShutdownGuest, DeleteGuest,
         Unreached, Refused, Done, Stays, SlotsKept, poolVars
<1>3. /\ Vmm(p) \in 1..Size /\ Vmm(p) \in 1..MaxSize
      /\ call[p].name \in Names /\ slots[Vmm(p)].name = call[p].name
      /\ guest[Vmm(p)] \in Guests /\ NoGuest \in Guests
      /\ guest[Vmm(p)] # NoGuest => guest[Vmm(p)].name = call[p].name
  <2>1. Vmm(p) \in 1..Size /\ Vmm(p) \in 1..MaxSize
    BY <1>1, SizeFacts, SizeAssumption DEF ChargeFine, VmInv, IInv
  <2>2. guest[Vmm(p)] \in Guests /\ NoGuest \in Guests
    BY <2>1 DEF TenantInv, GuestsRun, Guests, NoGuest
  <2>3. guest[Vmm(p)] # NoGuest => guest[Vmm(p)].name = slots[Vmm(p)].name
    BY <2>1 DEF TenantInv, GuestsFine
  <2> QED
    BY <1>1, <2>1, <2>2, <2>3 DEF ChargeFine
<1>4. CASE Ends(p, "failed") /\ Stays
  BY <1>2, <1>4, OverFacts, <1>1 DEF StepKind, Passes, Stays
<1>5. CASE LeavesFor(p, "cleanup") /\ Stays
  <2>1. /\ call'[p].pc = "leave" /\ call'[p].then = "cleanup"
        /\ call'[p].slot = call[p].slot /\ call'[p].name = call[p].name
    BY <1>1, <1>5, CallFacts
  <2>2. Proceeds(p)
    BY <1>1, <1>2, <1>5, <2>1 DEF Proceeds, GoesOn, PastBoot, Stays
  <2> QED
    BY <2>2 DEF StepKind
<1>6. ASSUME NEW g \in Guests, g = NoGuest \/ g.name = call[p].name,
             Reached(p), guest' = [guest EXCEPT ![Vmm(p)] = g],
             \/ \E pc \in {"boot", "delete", "release"} : GoesTo(p, pc)
             \/ LeavesFor(p, "ready") /\ g = Running(call[p].name)
      PROVE  StepKind(p)
  <2>1. /\ call'[p].slot = call[p].slot /\ call'[p].name = call[p].name
        /\ \/ call'[p].pc \in {"boot", "delete", "release"}
           \/ g = Running(call[p].name)
    BY <1>1, <1>6, CallFacts
  <2>2. Changes(p, g)
    BY <1>1, <1>2, <1>6, <2>1 DEF Changes, GoesOn, PastBoot
  <2> QED
    BY <1>6, <2>2 DEF StepKind
<1>7. CASE CreateGuest(p)
  <2> DEFINE g == [name |-> call[p].name, on |-> FALSE]
  <2>1. g \in Guests /\ g.name = call[p].name
    BY <1>3 DEF Guests
  <2> HIDE DEF g
  <2>2. \/ Ends(p, "failed") /\ Stays
        \/ LeavesFor(p, "cleanup") /\ Stays
        \/ /\ Reached(p) /\ guest' = [guest EXCEPT ![Vmm(p)] = g]
           /\ GoesTo(p, "boot")
    BY <1>7 DEF CreateGuest, Unreached, Refused, Done, g
  <2> QED
    BY <1>4, <1>5, <1>6, <2>1, <2>2
<1>8. CASE RestoreGuest(p)
  <2>1. Running(call[p].name) \in Guests /\ Running(call[p].name).name = call[p].name
    BY <1>3 DEF Guests, Running
  <2>2. /\ Reached(p) /\ guest' = [guest EXCEPT ![Vmm(p)] = Running(call[p].name)]
        /\ LeavesFor(p, "ready")
    BY <1>8 DEF RestoreGuest, Running
  <2> QED
    BY <1>6, <2>1, <2>2
<1>9. CASE BootGuest(p)
  <2>1. \/ Ends(p, "failed") /\ Stays
        \/ LeavesFor(p, "cleanup") /\ Stays
        \/ /\ Reached(p) /\ guest' = [guest EXCEPT ![Vmm(p)].on = TRUE]
           /\ guest[Vmm(p)].name # NoName /\ LeavesFor(p, "ready")
    BY <1>9 DEF BootGuest, Unreached, Refused
  <2>2. CASE /\ Reached(p) /\ guest' = [guest EXCEPT ![Vmm(p)].on = TRUE]
             /\ guest[Vmm(p)].name # NoName /\ LeavesFor(p, "ready")
    <3>1. guest[Vmm(p)].name = call[p].name
      BY <1>3, <2>2 DEF NoGuest
    <3>2. [guest[Vmm(p)] EXCEPT !.on = TRUE] = Running(call[p].name)
      <4> DEFINE g == guest[Vmm(p)]
                 h == [g EXCEPT !.on = TRUE]
      <4>1. h \in Guests /\ h.name = call[p].name /\ h.on = TRUE
        BY <1>3, <3>1 DEF Guests
      <4> HIDE DEF h
      <4> QED
        BY <4>1, GuestFields DEF Running, h
    <3>3. guest' = [guest EXCEPT ![Vmm(p)] = [guest[Vmm(p)] EXCEPT !.on = TRUE]]
      BY <2>2
    <3>4. guest' = [guest EXCEPT ![Vmm(p)] = Running(call[p].name)]
      BY <3>2, <3>3
    <3>5. Running(call[p].name) \in Guests /\ Running(call[p].name).name = call[p].name
      BY <1>3 DEF Guests, Running
    <3> QED
      BY <1>6, <2>2, <3>4, <3>5
  <2> QED
    BY <1>4, <1>5, <2>1, <2>2
<1>10. CASE ShutdownGuest(p)
  <2> DEFINE g == [guest[Vmm(p)] EXCEPT !.on = FALSE]
  <2>1. g \in Guests /\ g.name = guest[Vmm(p)].name
    BY <1>3 DEF Guests
  <2> HIDE DEF g
  <2>2. \/ Ends(p, "failed") /\ Stays
        \/ LeavesFor(p, "cleanup") /\ Stays
        \/ /\ Reached(p) /\ guest' = [guest EXCEPT ![Vmm(p)] = g]
           /\ guest[Vmm(p)].on /\ GoesTo(p, "delete")
    BY <1>10 DEF ShutdownGuest, Unreached, Refused, Done, g
  <2>3. guest[Vmm(p)].on => guest[Vmm(p)] # NoGuest
    BY DEF NoGuest
  <2> QED
    BY <1>3, <1>4, <1>5, <1>6, <2>1, <2>2, <2>3
<1>11. CASE DeleteGuest(p)
  <2>1. \/ Ends(p, "failed") /\ Stays
        \/ LeavesFor(p, "cleanup") /\ Stays
        \/ /\ Reached(p) /\ guest' = [guest EXCEPT ![Vmm(p)] = NoGuest]
           /\ GoesTo(p, "release")
    BY <1>11 DEF DeleteGuest, Unreached, Refused, Done
  <2> QED
    BY <1>3, <1>4, <1>5, <1>6, <2>1
<1> QED
  BY <1>7, <1>8, <1>9, <1>10, <1>11

(* Steps that end the charge of a slot or leave it as it is, without a     *)
(* change to any slot.                                                     *)
LEMMA StillSteps ==
  ASSUME VmInv, TenantInv, NEW p \in Requests,
         \/ \E n \in Names :
              CreateBegins(p, n) \/ DeleteBegins(p, n) \/ ProxyBegins(p, n)
         \/ AsksStatus(p) \/ Connects(p) \/ TriesAgain(p) \/ TimesOut(p)
         \/ MarkRefused(p) \/ NotRunning(p) \/ Proxies(p) \/ ReleaseRefused(p)
         \/ AsksCleanup(p) \/ LooksAtStatus(p)
         \/ Granted(p) \/ Leave(p) \/ Dropped(p)
  PROVE  StepKind(p)
<1>1. /\ call \in [Requests -> Calls] /\ call[p] \in Calls /\ CallFine(p)
  BY DEF VmInv, CallInv
<1>2. SlotsKept /\ UNCHANGED guest
  <2>1. CASE \/ \E n \in Names :
                  CreateBegins(p, n) \/ DeleteBegins(p, n) \/ ProxyBegins(p, n)
             \/ AsksStatus(p) \/ Connects(p) \/ AsksCleanup(p)
    BY <2>1 DEF CreateBegins, DeleteBegins, ProxyBegins, LookupBegins,
         AsksStatus, Connects, AsksCleanup, AsksRead, AllocRequest, slotVars,
         taskVars, SlotsKept
  <2>2. CASE \/ TriesAgain(p) \/ TimesOut(p) \/ MarkRefused(p)
             \/ NotRunning(p) \/ ReleaseRefused(p) \/ Proxies(p)
    BY <2>2 DEF TriesAgain, TimesOut, NotReady, MarkRefused, NotRunning,
         ReleaseRefused, Proxies, Unreached, Stays, poolVars, SlotsKept
  <2>3. CASE Granted(p) \/ Leave(p) \/ LooksAtStatus(p) \/ Dropped(p)
    BY <2>3 DEF Granted, Leave, LooksAtStatus, Dropped, ReadEnter, ReadLeave,
         RequestDropped, slotVars, taskVars, poolVars, SlotsKept
  <2> QED
    BY <2>1, <2>2, <2>3
<1>3. ~InCharge(p)' => StepKind(p)
  BY <1>2 DEF StepKind, Passes
<1>4. InCharge(p) /\ call'[p].slot = call[p].slot /\ call'[p].name = call[p].name
        /\ (PastBoot(p)' => PastBoot(p))
        => StepKind(p)
  BY <1>2 DEF StepKind, Proceeds, GoesOn
<1>5. CASE \E n \in Names : CreateBegins(p, n) \/ DeleteBegins(p, n)
                             \/ ProxyBegins(p, n)
  <2>1. call'[p].pc \in {"alloc", "find"}
    <3>1. ASSUME NEW n \in Names, CreateBegins(p, n) PROVE call'[p].pc = "alloc"
      BY <1>1, <3>1 DEF CreateBegins, Begins, NoCall
    <3>2. ASSUME NEW n \in Names, NEW then, LookupBegins(p, n, then)
          PROVE  call'[p].pc = "find"
      BY <1>1, <3>2 DEF LookupBegins, NoCall
    <3> QED
      BY <1>5, <3>1, <3>2 DEF DeleteBegins, ProxyBegins
  <2> QED
    BY <1>3, <2>1 DEF InCharge
<1>6. CASE \/ TimesOut(p) \/ MarkRefused(p) \/ NotRunning(p) \/ Proxies(p)
           \/ ReleaseRefused(p)
  BY <1>1, <1>3, <1>6, OverFacts DEF TimesOut, MarkRefused, NotRunning, Proxies,
     ReleaseRefused, Unreached
<1>7. CASE AsksStatus(p) \/ AsksCleanup(p)
  <2>1. PICK pc \in {"look", "reset"} : GoesTo(p, pc)
    BY <1>7 DEF AsksStatus, AsksCleanup
  <2>2. /\ call'[p].pc = pc /\ call'[p].then = call[p].then
        /\ call'[p].slot = call[p].slot /\ call'[p].name = call[p].name
    BY <1>1, <2>1, CallFacts
  <2>3. (AsksStatus(p) /\ call[p].pc = "ready") \/ pc = "reset"
    <3>1. AsksStatus(p) => GoesTo(p, "look") /\ call[p].pc = "ready"
      BY DEF AsksStatus, At
    <3>2. AsksCleanup(p) => GoesTo(p, "reset")
      BY DEF AsksCleanup
    <3>3. GoesTo(p, "reset") => pc = "reset"
      BY <1>1, <2>2, CallFacts
    <3> QED
      BY <1>7, <3>1, <3>2, <3>3
  <2>4. InCharge(p)
    BY <1>7 DEF AsksStatus, AsksCleanup, At, InCharge
  <2> QED
    BY <1>4, <2>2, <2>3, <2>4 DEF PastBoot
<1>8. CASE Connects(p) \/ TriesAgain(p)
  <2>1. /\ call[p].pc = "connect" /\ call[p].then \in {"create", "mark"}
        /\ InCharge(p)
    BY <1>1, <1>8 DEF Connects, TriesAgain, NotReady, At, CallFine, InCharge
  <2>2. /\ call'[p].slot = call[p].slot /\ call'[p].name = call[p].name
        /\ call'[p].then = call[p].then
        /\ call'[p].pc = call[p].then \/ call'[p].pc = "ready"
    BY <1>1, <1>8 DEF Connects, TriesAgain, Calls
  <2> QED
    BY <1>4, <2>1, <2>2 DEF PastBoot
<1>9. CASE LooksAtStatus(p)
  <2>1. call[p].pc = "look" /\ InCharge(p)
    BY <1>9 DEF LooksAtStatus, Inside, At, InCharge
  <2>2. CASE Vmm(p) \in 1..Size
    <3>1. /\ call'[p].slot = call[p].slot /\ call'[p].name = call[p].name
          /\ call'[p].then = call[p].then /\ call'[p].pc = "connect"
      BY <1>1, <1>9, <2>2 DEF LooksAtStatus, Calls
    <3> QED
      BY <1>4, <2>1, <3>1 DEF PastBoot
  <2>3. CASE Vmm(p) \notin 1..Size
    BY <1>1, <1>3, <1>9, <2>3, OverFacts DEF LooksAtStatus
  <2> QED
    BY <2>2, <2>3
<1>10. CASE Granted(p)
  <2>1. call' = call
    BY <1>10 DEF Granted
  <2> QED
    BY <1>3, <1>4, <2>1 DEF InCharge, PastBoot
<1>11. CASE Leave(p)
  <2>1. call[p].pc = "leave"
    BY <1>11 DEF Leave, At
  <2>2. CASE call[p].then = "cleanup"
    <3>1. /\ call'[p].slot = call[p].slot /\ call'[p].name = call[p].name
          /\ call'[p].pc = "cleanup"
      BY <1>1, <1>11, <2>2 DEF Leave, Calls
    <3> QED
      BY <1>4, <2>1, <2>2, <3>1 DEF PastBoot, InCharge
  <2>3. CASE call[p].then = "ready"
    <3>1. /\ call'[p].slot = call[p].slot /\ call'[p].name = call[p].name
      BY <1>1, <1>11, <2>3 DEF Leave, Waiting, Calls
    <3> QED
      BY <1>4, <2>1, <2>3, <3>1 DEF PastBoot, InCharge
  <2>4. CASE call[p].then \notin {"cleanup", "ready"}
    <3>1. call'[p].pc = "idle"
      BY <1>1, <1>11, <2>4 DEF Leave, NoCall
    <3> QED
      BY <1>3, <3>1 DEF InCharge
  <2> QED
    BY <2>2, <2>3, <2>4
<1>12. CASE Dropped(p)
  <2>1. call'[p].pc = "idle"
    BY <1>1, <1>12 DEF Dropped, NoCall
  <2> QED
    BY <1>3, <2>1 DEF InCharge
<1> QED
  BY <1>5, <1>6, <1>7, <1>8, <1>9, <1>10, <1>11, <1>12

(* Nothing changes the guests of slots whose VMMs go on as they were.      *)
LEMMA FollowsAnyway ==
  ASSUME GuestsRun, UNCHANGED guest, DOMAIN slots' = DOMAIN slots,
         \A i \in DOMAIN slots : slots'[i].proc = slots[i].proc
  PROVE  GuestsFollow
<1> DEFINE g == [i \in 1..MaxSize |->
                  IF i \in DOMAIN slots' /\ Alive(slots'[i]) THEN guest[i] ELSE NoGuest]
<1>1. ASSUME NEW i \in 1..MaxSize PROVE g[i] = guest[i]
  <2>1. guest[i] # NoGuest => i \in DOMAIN slots' /\ Alive(slots'[i])
    BY DEF GuestsRun, Alive
  <2> QED
    BY <2>1
<1>2. guest \in [1..MaxSize -> Guests]
  BY DEF GuestsRun
<1>3. guest = g
  BY <1>1, <1>2
<1> QED
  BY <1>3 DEF GuestsFollow

(* A VMM that goes on keeps its guest. *)
LEMMA FollowsOne ==
  ASSUME GuestsRun, GuestsFollow, NEW i \in 1..MaxSize,
         guest[i] # NoGuest => i \in DOMAIN slots' /\ slots'[i].proc = "serving"
  PROVE  guest'[i] = guest[i]
BY DEF GuestsFollow, GuestsRun, Alive

(* No guest goes if no slot changes.                                       *)
LEMMA FollowsNothing ==
  ASSUME GuestsRun, GuestsFollow, UNCHANGED slots
  PROVE  UNCHANGED guest
<1>1. ASSUME NEW i \in 1..MaxSize PROVE guest'[i] = guest[i]
  BY <1>1, FollowsOne DEF GuestsRun
<1>2. /\ guest \in [1..MaxSize -> Guests]
      /\ guest' = [i \in 1..MaxSize |-> guest'[i]]
  BY DEF GuestsRun, GuestsFollow
<1> QED
  BY <1>1, <1>2

(* Steps that take, find, mark and clear slots, and allocations on their   *)
(* way.                                                                    *)
LEMMA TenureSteps ==
  ASSUME VmInv, TenantInv, NEW p \in Requests,
         Allocates(p) \/ Finds(p) \/ Marks(p) \/ Releases(p) \/ CleansUp(p)
  PROVE  StepKind(p)
<1>1. /\ call \in [Requests -> Calls] /\ call[p] \in Calls /\ CallFine(p)
      /\ ChargeFine(p) /\ IntentFine(p) /\ IInv
      /\ \A i \in DOMAIN slots : slots[i] \in SlotRecords
      /\ 1..Size \subseteq DOMAIN slots /\ FreshSlot \in SlotRecords
  <2>1. /\ call \in [Requests -> Calls] /\ call[p] \in Calls /\ CallFine(p)
        /\ ChargeFine(p) /\ IntentFine(p) /\ IInv /\ PoolTypeOK
    BY DEF VmInv, CallInv, TenantInv, IInv
  <2>2. /\ \A i \in DOMAIN slots : slots[i] \in SlotRecords
        /\ 1..Size \subseteq DOMAIN slots
    BY <2>1, SizeFacts DEF PoolTypeOK
  <2>3. FreshSlot \in SlotRecords
    BY DEF FreshSlot, SlotRecords, States, ProcStates
  <2> QED
    BY <2>1, <2>2, <2>3
<1>2. lock.readers # {} => scaler # "pop"
  BY <1>1, ProcAssumption DEF IInv, LockInv, Procs
<1>3. CASE Finds(p)
  <2>1. PICK i \in 1..Size :
          /\ slots[i].name = call[p].name /\ slots[i].state = "Occupied"
          /\ call' = [call EXCEPT ![p].pc = call[p].then, ![p].slot = i]
    BY <1>3 DEF Finds
  <2>2. /\ call'[p].slot = i /\ call'[p].name = call[p].name
        /\ call'[p].pc = call[p].then /\ At(p, "find")
    BY <1>1, <1>3, <2>1 DEF Calls, Finds, Inside
  <2>3. SlotsKept /\ UNCHANGED guest
    BY <1>3 DEF Finds, Stays, poolVars, SlotsKept
  <2>4. call[p].then \in {"shutdown", "proxy"} /\ call[p].name \in Names
    BY <1>1, <2>2 DEF CallFine, IntentFine, At
  <2>5. CASE call[p].then = "proxy"
    BY <2>2, <2>3, <2>5 DEF StepKind, Passes, InCharge
  <2>6. CASE call[p].then = "shutdown"
    <3>1. Grasps(p, i)
      BY <1>1, <2>1, <2>2, <2>3, <2>4, <2>6
         DEF Grasps, InCharge, PastBoot, At, IntentFine
    <3> QED
      BY <3>1 DEF StepKind
  <2> QED
    BY <2>4, <2>5, <2>6
<1>4. CASE Marks(p)
  <2> DEFINE s == Booted(slots[Vmm(p)])
  <2>1. /\ Vmm(p) \in 1..Size /\ slots' = [slots EXCEPT ![Vmm(p)] = s]
        /\ slots[Vmm(p)].state = "Booting" /\ UNCHANGED <<joiner, scaler, guest>>
        /\ p \in lock.readers /\ At(p, "mark")
    BY <1>4 DEF Marks, MarkBooted, SlotCommand, SlotMoves, taskVars, Inside
  <2>2. ~InCharge(p)' /\ InCharge(p)
    BY <1>1, <1>4, <2>1, OverFacts DEF Marks, InCharge, At
  <2>3. slots[Vmm(p)] \in SlotRecords
    BY <1>1, <2>1
  <2>4. s \in SlotRecords /\ s.proc = slots[Vmm(p)].proc
    BY <2>3 DEF Booted, SlotRecords, States
  <2> HIDE DEF s
  <2>5. GuestsFollow
    <3>1. \A i \in DOMAIN slots : slots'[i].proc = slots[i].proc
      BY <2>1, <2>4
    <3> QED
      BY <2>1, <3>1, FollowsAnyway DEF TenantInv
  <2>6. Finishes(p)
    BY <1>2, <2>1, <2>2, <2>4, <2>5 DEF Finishes, Becomes, s
  <2> QED
    BY <2>1, <2>6 DEF StepKind
<1>5. CASE Releases(p) \/ CleansUp(p)
  <2>1. CASE Vmm(p) \in 1..Size
    <3>1. /\ slots' = [slots EXCEPT ![Vmm(p)] = FreshSlot] /\ GuestsFollow
          /\ UNCHANGED <<joiner, scaler>> /\ p \in lock.readers
      BY <1>5, <2>1 DEF Releases, CleansUp, ReleaseSlot, ResetSlot, SlotCommand,
           SlotMoves, taskVars
    <3>2. ~InCharge(p)' /\ InCharge(p)
      BY <1>1, <1>5, OverFacts DEF Releases, CleansUp, Inside, InCharge, At
    <3>3. Finishes(p)
      BY <1>1, <1>2, <3>1, <3>2 DEF Finishes, Becomes
    <3> QED
      BY <2>1, <3>3 DEF StepKind
  <2>2. CASE Vmm(p) \notin 1..Size
    <3>1. CleansUp(p) /\ Stays
      BY <1>5, <2>2 DEF Releases, ReleaseSlot, SlotCommand, CleansUp
    <3>2. ~InCharge(p)'
      BY <1>1, <3>1, OverFacts DEF CleansUp
    <3> QED
      BY <3>1, <3>2 DEF StepKind, Passes, SlotsKept, Stays, poolVars
  <2> QED
    BY <2>1, <2>2
<1>6. CASE Allocates(p)
  <2>1. AllocStep(p) /\ GuestsFollow /\ At(p, "alloc") /\ ~InCharge(p)
    BY <1>6 DEF Allocates, At, InCharge
  <2>0. ASSUME NEW phase, NEW at, NEW hit, AllocGoes(p, phase, at, hit)
        PROVE  alloc'[p].phase = phase
    <3>1. alloc'[p] = [alloc[p] EXCEPT !.phase = phase, !.at = at, !.hit = hit]
      BY <1>1, <2>0 DEF AllocGoes, IInv, PoolTypeOK
    <3> QED
      BY <1>1, <3>1 DEF Allocs, IInv, PoolTypeOK
  <2>0a. ASSUME NEW phase, NEW at, AllocReturns(p, phase, at)
         PROVE  alloc'[p].phase = phase /\ alloc'[p].at = at
    BY <1>1, <2>0a DEF AllocReturns, IInv, PoolTypeOK
  <2>2. CASE AllocReserve(p)
    <3> DEFINE i == alloc[p].at
               s == Claimed(slots[i], call[p].name)
    <3>1. /\ Allocating(p) /\ alloc[p].name = call[p].name
          /\ slots[i].state = "Empty"
      BY <1>1, <2>1, <2>2 DEF AllocReserve, Allocating, IntentFine
    <3>2. call[p].name \in Names /\ i \in 1..Size /\ scaler # "pop"
      BY <1>1, <3>1, ProcAssumption DEF IInv, ScanInv, LockInv, Procs
    <3>3. /\ slots' = [slots EXCEPT ![i] = s]
          /\ UNCHANGED <<joiner, scaler>> /\ AllocReturns(p, "won", i)
      BY <2>2, <3>1 DEF AllocReserve, AllocReturns, taskVars
    <3>4. s \in SlotRecords
      <4>1. slots[i] \in SlotRecords
        BY <1>1, <3>2
      <4> QED
        BY <3>2, <4>1 DEF Claimed, SlotRecords, States
    <3>5. alloc'[p].phase = "won" /\ alloc'[p].at = i
      BY <2>0a, <3>3
    <3> HIDE DEF i, s
    <3>6. call' = [call EXCEPT ![p] = [Waiting(call[p], "create") EXCEPT !.slot = i]]
      BY <1>1, <1>6, <3>5 DEF Allocates
    <3>7. /\ call'[p].slot = i /\ call'[p].name = call[p].name
          /\ call'[p].pc = "ready" /\ call'[p].then = "create"
      BY <1>1, <3>6 DEF Waiting, Calls
    <3>8. Takes(p, i)
      BY <2>1, <3>1, <3>2, <3>3, <3>4, <3>7 DEF Takes, Becomes, PastBoot, i, s
    <3> QED
      BY <3>2, <3>8 DEF StepKind
  <2>3. CASE AllocExtend(p)
    <3>1. Allocating(p)
      BY <2>3 DEF AllocExtend, Allocating
    <3>2. joiner = NoProc /\ scaler # "pop"
      BY <1>1, <3>1, NobodyJoins, ProcAssumption DEF IInv, LockInv, Procs
    <3>3. alloc'[p].phase = "empty"
      BY <2>0, <2>3 DEF AllocExtend
    <3>4. call' = call
      BY <1>1, <1>6, <3>3 DEF Allocates
    <3>5. Extends(p)
      BY <2>1, <2>3, <3>2, <3>4 DEF AllocExtend, AllocGoes, taskVars, Extends,
                                    InCharge
    <3> QED
      BY <3>5 DEF StepKind
  <2>4. CASE ~AllocReserve(p) /\ ~AllocExtend(p)
    <3>1. SlotsKept
      BY <2>1, <2>4 DEF AllocStep, AllocStart, AllocNameNext, AllocNameTaken,
         AllocNameFree, AllocEmptyNext, AllocEmptyFound, AllocExhausted,
         AllocRefused, AllocGoes, AllocReturns, slotVars, taskVars, SlotsKept
    <3>2. alloc'[p].phase # "won"
      BY <2>0, <2>0a, <2>1, <2>4 DEF AllocStep, AllocStart, AllocNameNext,
         AllocNameTaken, AllocNameFree, AllocEmptyNext, AllocEmptyFound,
         AllocExhausted, AllocRefused
    <3>3. ~InCharge(p)'
      <4>1. call' = call \/ call' = [call EXCEPT ![p] = NoCall]
        BY <1>1, <1>6, <3>2 DEF Allocates
      <4>2. call'[p] = call[p] \/ call'[p].pc = "idle"
        BY <1>1, <4>1 DEF NoCall
      <4> QED
        BY <2>1, <4>2 DEF InCharge
    <3>4. UNCHANGED guest
      BY <2>1, <3>1, FollowsNothing DEF TenantInv, SlotsKept
    <3> QED
      BY <3>1, <3>3, <3>4 DEF StepKind, Passes
  <2> QED
    BY <2>2, <2>3, <2>4
<1> QED
  BY <1>3, <1>4, <1>5, <1>6

(* Every step of a handler is of one of the kinds. *)
LEMMA HandlerKind ==
  ASSUME VmInv, TenantInv, NEW p \in Requests,
         \/ \E n \in Names :
              CreateBegins(p, n) \/ DeleteBegins(p, n) \/ ProxyBegins(p, n)
         \/ HandlerStep(p) \/ Dropped(p)
  PROVE  StepKind(p)
BY GuestSteps, StillSteps, TenureSteps DEF HandlerStep, CreateStep, DeleteStep

(* What the worker and the VMM of a slot do to it. *)
LEMMA EventKind ==
  ASSUME IInv, SlotsFine, "exit" \notin Faults,
         NEW i \in DOMAIN slots, SlotEvent(i)
  PROVE  \E s \in SlotRecords :
           /\ slots' = [slots EXCEPT ![i] = s] /\ UNCHANGED <<joiner, scaler>>
           /\ SlotFine(s) /\ s.name = slots[i].name
           /\ s.state \in {slots[i].state, "Failed"}
           /\ \/ s.state = "Failed" \/ shutdown = "sent"
              \/ slots[i].proc = "serving" => s.proc = "serving"
<1>1. /\ slots[i] \in SlotRecords /\ SlotFine(slots[i])
      /\ UNCHANGED <<joiner, scaler>>
  BY DEF IInv, PoolTypeOK, SlotsFine, SlotEvent, Spawn, SpawnFails, Reap,
         PollFails, Listen, Exit, WorkerEnds, WorkerMoves, SlotMoves, taskVars
<1>2. CASE Spawn(i)
  <2>1. /\ Spawned(slots[i]) \in SlotRecords
        /\ Spawned(slots[i]).name = slots[i].name
        /\ Spawned(slots[i]).state = slots[i].state
        /\ Spawned(slots[i]).proc = "starting" /\ slots[i].proc = "none"
        /\ slots' = [slots EXCEPT ![i] = Spawned(slots[i])]
    BY <1>1, <1>2 DEF Spawn, ChildMissing, WorkerMoves, SlotMoves, Spawned,
                      SlotRecords, ProcStates
  <2> QED
    BY <1>1, <2>1 DEF SlotFine
<1>3. CASE SpawnFails(i) \/ PollFails(i)
  <2>1. /\ Broken(slots[i]) \in SlotRecords
        /\ Broken(slots[i]).name = slots[i].name
        /\ Broken(slots[i]).state = "Failed"
        /\ Broken(slots[i]).proc = "none"
        /\ slots' = [slots EXCEPT ![i] = Broken(slots[i])]
    BY <1>1, <1>3 DEF SpawnFails, PollFails, WorkerMoves, SlotMoves, Broken,
                      SlotRecords, States, ProcStates
  <2> QED
    BY <1>1, <2>1 DEF SlotFine
<1>4. CASE Listen(i)
  <2> DEFINE s == [slots[i] EXCEPT !.proc = "serving"]
  <2>1. /\ s \in SlotRecords /\ s.name = slots[i].name
        /\ s.state = slots[i].state /\ s.proc = "serving"
    BY <1>1 DEF SlotRecords, ProcStates
  <2>2. slots' = [slots EXCEPT ![i] = s]
    BY <1>4 DEF Listen, WorkerMoves, SlotMoves
  <2> HIDE DEF s
  <2> QED
    BY <1>1, <2>1, <2>2 DEF SlotFine
<1>5. CASE WorkerEnds(i)
  <2>1. /\ Stopped(slots[i]) \in SlotRecords
        /\ Stopped(slots[i]).name = slots[i].name
        /\ Stopped(slots[i]).state = slots[i].state
        /\ Stopped(slots[i]).proc = "none" /\ shutdown = "sent"
        /\ slots' = [slots EXCEPT ![i] = Stopped(slots[i])]
    BY <1>1, <1>5 DEF WorkerEnds, Stopped, SlotRecords, ProcStates
  <2> QED
    BY <1>1, <2>1 DEF SlotFine
<1> QED
  BY <1>1, <1>2, <1>3, <1>4, <1>5 DEF SlotEvent, Reap, Exit, SlotFine

-----------------------------------------------------------------------------
(* The slots and the guests. *)

(* One slot becomes another good one. *)
LEMMA FineMoves ==
  ASSUME PoolTypeOK, SlotsFine, NEW i \in DOMAIN slots, NEW s \in SlotRecords,
         slots' = [slots EXCEPT ![i] = s], UNCHANGED <<joiner, scaler>>,
         SlotFine(s), scaler # "pop" \/ s.name = slots[i].name
  PROVE  SlotsFine'
<1>1. /\ DOMAIN slots' = DOMAIN slots
      /\ \A j \in DOMAIN slots : slots'[j] = IF j = i THEN s ELSE slots[j]
  OBVIOUS
<1>2. Len(slots') = Len(slots) /\ Size' = Size
  BY DEF PoolTypeOK, Size
<1>3. scaler' = "pop" => slots'[Size].name = NoName
  <2> SUFFICES ASSUME scaler = "pop" PROVE slots'[Size].name = NoName
    OBVIOUS
  <2>1. slots[Size].name = NoName
    BY DEF SlotsFine
  <2>2. CASE i = Size
    BY <1>1, <2>1, <2>2
  <2>3. CASE i # Size
    BY <2>1, <2>3
  <2> QED
    BY <2>2, <2>3
<1> QED
  BY <1>1, <1>2, <1>3 DEF SlotsFine

(* Handlers keep the slots fine.                                           *)
LEMMA HandlerSlotsFine ==
  ASSUME IInv, SlotsFine, NEW p \in Requests, StepKind(p)
  PROVE  SlotsFine'
<1>0. /\ PoolTypeOK /\ slots \in Seq(SlotRecords) /\ Len(slots) \in Nat
      /\ DOMAIN slots = 1..Len(slots) /\ 1..Size \subseteq DOMAIN slots
  BY SizeFacts DEF IInv, PoolTypeOK
<1>1. CASE SlotsKept
  BY <1>1 DEF SlotsKept, SlotsFine, Size
<1>2. CASE Extends(p)
  <2>1. \A i \in DOMAIN slots' :
          \/ slots'[i] = FreshSlot
          \/ i \in DOMAIN slots /\ slots'[i] = slots[i]
    <3>1. FreshSlot \in SlotRecords
      BY DEF FreshSlot, SlotRecords, States, ProcStates
    <3>2. slots' = Append(slots, FreshSlot)
      BY <1>2 DEF Extends
    <3>3. /\ DOMAIN slots' = 1..(Len(slots) + 1)
          /\ slots'[Len(slots) + 1] = FreshSlot
          /\ \A i \in 1..Len(slots) : slots'[i] = slots[i]
      BY <1>0, <3>1, <3>2
    <3> QED
      BY <1>0, <3>3
  <2>2. SlotFine(FreshSlot) /\ scaler' # "pop"
    BY <1>2 DEF SlotFine, FreshSlot, Extends
  <2> QED
    BY <2>1, <2>2 DEF SlotsFine
<1>3. ASSUME NEW i \in 1..Size, Takes(p, i) PROVE SlotsFine'
  <2>1. SlotFine(slots[i]) /\ slots[i] \in SlotRecords /\ i \in DOMAIN slots
    BY <1>0 DEF SlotsFine
  <2> DEFINE s == Claimed(slots[i], call[p].name)
  <2>2. /\ SlotFine(s) /\ s \in SlotRecords /\ scaler # "pop"
        /\ slots' = [slots EXCEPT ![i] = s] /\ UNCHANGED <<joiner, scaler>>
    BY <1>3, <2>1 DEF Takes, Becomes, SlotFine, Claimed
  <2> HIDE DEF s
  <2> QED
    BY <1>0, <2>1, <2>2, FineMoves
<1>4. CASE Vmm(p) \in 1..Size /\ Finishes(p)
  <2>1. /\ SlotFine(slots[Vmm(p)]) /\ slots[Vmm(p)] \in SlotRecords
        /\ Vmm(p) \in DOMAIN slots
    BY <1>0, <1>4 DEF SlotsFine
  <2>2. PICK s \in SlotRecords : Becomes(Vmm(p), s) /\ SlotFine(s)
    <3>1. SlotFine(FreshSlot)
      BY DEF SlotFine, FreshSlot
    <3>2. SlotFine(Booted(slots[Vmm(p)]))
      BY <2>1 DEF SlotFine, Booted, SlotRecords
    <3> QED
      BY <1>4, <3>1, <3>2 DEF Finishes, Becomes
  <2> QED
    BY <1>0, <2>1, <2>2, FineMoves DEF Becomes
<1> QED
  BY <1>1, <1>2, <1>3, <1>4 DEF StepKind, Passes, Proceeds, Changes, Grasps

(* The daemon's tasks and the VMMs keep the slots fine.                    *)
LEMMA DaemonSlotsFine ==
  ASSUME IInv, SlotsFine, "exit" \notin Faults,
         \/ Scaling \/ Stopping \/ Joining
         \/ \E i \in DOMAIN slots : SlotEvent(i)
  PROVE  SlotsFine'
<1>0. /\ PoolTypeOK /\ slots \in Seq(SlotRecords) /\ Len(slots) \in Nat
      /\ DOMAIN slots = 1..Len(slots) /\ 1..Size \subseteq DOMAIN slots
      /\ Autoscaler # NoProc /\ Main # NoProc /\ Autoscaler # Main
  BY SizeFacts, ProcAssumption DEF IInv, PoolTypeOK, Procs
<1>1. CASE UNCHANGED slots /\ scaler' # "pop"
  BY <1>1 DEF SlotsFine
<1>2. CASE ScalerShrinks
  <2>1. Size \in DOMAIN slots /\ slots[Size].state = "Empty" /\ UNCHANGED <<slots, joiner>>
    <3>1. Size > MinSize /\ Size <= Len(slots) /\ Size \in Nat
      BY <1>0, <1>2, SizeFacts DEF ScalerShrinks
    <3>2. Size \in DOMAIN slots
      BY <1>0, <3>1, SizeAssumption
    <3> QED
      BY <1>2, <3>2 DEF ScalerShrinks, slotVars
  <2>2. slots[Size].name = NoName
    BY <2>1 DEF SlotsFine, SlotFine
  <2> QED
    BY <2>1, <2>2 DEF SlotsFine, Size
<1>3. CASE ScalerTick \/ ScalerKeeps \/ ScalerPop
  BY <1>1, <1>3 DEF ScalerTick, ScalerKeeps, ScalerPop, slotVars
<1>4. CASE Stopping
  <2>1. UNCHANGED <<slots, scaler>>
    BY <1>4 DEF Stopping, ShutdownSignal, Drained, ShutdownStart, ShutdownPop,
         ShutdownDone, slotVars, taskVars
  <2>2. CASE scaler # "pop"
    BY <1>1, <2>1, <2>2
  <2>3. CASE scaler = "pop"
    <3>1. lock.writer = Autoscaler /\ daemon # "stop"
      BY <1>0, <2>3 DEF IInv, LockInv
    <3>2. UNCHANGED joiner
      BY <1>4, <3>1 DEF Stopping, ShutdownSignal, Drained, ShutdownStart,
           ShutdownPop, ShutdownDone, slotVars
    <3> QED
      BY <2>1, <3>2 DEF SlotsFine, Size
  <2> QED
    BY <2>2, <2>3
<1>5. CASE Joining
  <2>1. PICK t \in {Autoscaler, Main} : Join(t)
    BY <1>5 DEF Joining
  <2>2. slots # <<>> /\ slots' = SubSeq(slots, 1, Len(slots) - 1) /\ joiner = t
    BY <1>0, <2>1 DEF Join, PoolTypeOK
  <2>3. \A i \in DOMAIN slots' : i \in DOMAIN slots /\ slots'[i] = slots[i]
    BY <1>0, <2>2
  <2>4. scaler' # "pop"
    BY <1>0, <2>1, <2>2 DEF Join, IInv, LockInv
  <2> QED
    BY <2>3, <2>4 DEF SlotsFine
<1>6. ASSUME NEW i \in DOMAIN slots, SlotEvent(i) PROVE SlotsFine'
  BY <1>0, <1>6, EventKind, FineMoves
<1> QED
  BY <1>2, <1>3, <1>4, <1>5, <1>6 DEF Scaling

(* The name of a slot with a VMM that goes on stays.                       *)
LEMMA NamedStays ==
  ASSUME IInv, SlotsFine, [PoolNext]_poolVars,
         NEW i \in Nat, i \in DOMAIN slots, i \in DOMAIN slots',
         Alive(slots'[i]), slots[i].name # NoName
  PROVE  slots'[i].name = slots[i].name
<1>0. /\ slots \in Seq(SlotRecords) /\ Len(slots) \in Nat
      /\ DOMAIN slots = 1..Len(slots)
  BY SizeFacts DEF IInv, PoolTypeOK
<1>1. ASSUME NEW j \in DOMAIN slots, NEW s \in SlotRecords, OneSlotMoves(j, s)
      PROVE  slots'[i].name = slots[i].name
  <2>1. slots'[i] = IF i = j THEN s ELSE slots[i]
    BY <1>1 DEF OneSlotMoves
  <2>2. SlotFine(slots[j])
    BY DEF SlotsFine
  <2> QED
    BY <1>1, <2>1, <2>2 DEF OneSlotMoves, FreshSlot, Alive, SlotFine
<1>2. CASE slots' = Append(slots, FreshSlot)
  BY <1>0, <1>2
<1>3. CASE slots' = SubSeq(slots, 1, Len(slots) - 1) /\ slots # <<>>
  BY <1>0, <1>3
<1>4. CASE SlotsStay
  BY <1>4 DEF SlotsStay
<1> QED
  BY <1>1, <1>2, <1>3, <1>4, SlotSteps

(* Guests that go with their VMMs stay where their names are.              *)
LEMMA FollowsFine ==
  ASSUME IInv, SlotsFine, GuestsRun, GuestsFine, [PoolNext]_poolVars, GuestsFollow
  PROVE  GuestsFine'
<1> SUFFICES ASSUME NEW i \in 1..MaxSize, guest'[i] # NoGuest
             PROVE  /\ guest'[i].name # NoName
                    /\ i \in DOMAIN slots' /\ slots'[i].name = guest'[i].name
  BY DEF GuestsFine
<1>1. i \in DOMAIN slots' /\ Alive(slots'[i]) /\ guest'[i] = guest[i] /\ i \in Nat
  BY DEF GuestsFollow
<1>2. guest[i].name # NoName /\ i \in DOMAIN slots /\ slots[i].name = guest[i].name
  BY <1>1 DEF GuestsFine
<1> QED
  BY <1>1, <1>2, NamedStays

(* Handlers put guests where their names are. *)
LEMMA HandlerGuestsFine ==
  ASSUME VmInv, TenantInv, NEW p \in Requests, StepKind(p), [PoolNext]_poolVars
  PROVE  GuestsFine'
<1>1. CASE GuestsFollow
  BY <1>1, FollowsFine DEF VmInv, TenantInv
<1>2. CASE UNCHANGED guest /\ SlotsKept
  BY <1>2 DEF SlotsKept, TenantInv, GuestsFine
<1>3. ASSUME NEW g \in Guests, Changes(p, g), g = NoGuest \/ g.name = call[p].name
      PROVE  GuestsFine'
  <2>1. /\ Vmm(p) \in DOMAIN slots /\ slots[Vmm(p)].name = call[p].name
        /\ call[p].name # NoName
    <3>1. ChargeFine(p) /\ InCharge(p) /\ Reached(p)
      BY <1>3 DEF TenantInv, Changes, GoesOn
    <3> QED
      BY <3>1, NoNameAssumption DEF ChargeFine, Reached
  <2>2. /\ slots' = slots /\ guest' = [guest EXCEPT ![Vmm(p)] = g]
        /\ guest \in [1..MaxSize -> Guests]
    BY <1>3 DEF Changes, SlotsKept, TenantInv, GuestsRun
  <2> QED
    BY <1>3, <2>1, <2>2 DEF GuestsFine, TenantInv
<1> QED
  BY <1>1, <1>2, <1>3 DEF StepKind, Passes, Proceeds, Grasps, Takes, Finishes,
     Becomes, Extends

-----------------------------------------------------------------------------
(* The slots in charge. *)

(* Slot i stays a slot of the pool with its VM, which fails or keeps its   *)
(* guest.                                                                  *)
Steady(i) ==
  /\ i \in 1..Size'
  /\ slots'[i].name = slots[i].name
  /\ slots'[i].state \in {slots[i].state, "Failed"}
  /\ slots'[i].state = "Failed" \/ guest'[i] = guest[i]

(* A handler that waits loses nothing while its slot is steady.            *)
LEMMA SteadyKeeps ==
  ASSUME NEW q \in Requests, ChargeFine(q), call'[q] = call[q],
         InCharge(q) => Steady(Vmm(q))
  PROVE  ChargeFine(q)'
<1>1. /\ InCharge(q)' <=> InCharge(q)
      /\ PastBoot(q)' <=> PastBoot(q)
      /\ call'[q].slot = call[q].slot
  BY DEF InCharge, PastBoot
<1> QED
  BY <1>1 DEF ChargeFine, Steady, Vmm

(* A step of a handler leaves the slots steady that are not in its charge. *)
LEMMA HandlerSteady ==
  ASSUME VmInv, TenantInv, NEW p \in Requests, StepKind(p),
         NEW i \in 1..Size, slots[i].name \in Names,
         ~(InCharge(p) /\ Vmm(p) = i)
  PROVE  Steady(i)
<1>0. /\ slots \in Seq(SlotRecords) /\ Len(slots) \in Nat /\ Size \in Nat
      /\ DOMAIN slots = 1..Len(slots) /\ Size <= Len(slots)
      /\ i \in DOMAIN slots /\ i \in 1..MaxSize /\ slots[i].state # "Empty"
      /\ guest \in [1..MaxSize -> Guests]
  <2>1. /\ slots \in Seq(SlotRecords) /\ Len(slots) \in Nat /\ Size \in Nat
        /\ DOMAIN slots = 1..Len(slots) /\ Size <= Len(slots) /\ Len(slots) <= MaxSize
    BY SizeFacts DEF VmInv, IInv, PoolTypeOK
  <2>2. i \in DOMAIN slots /\ i \in 1..MaxSize
    BY <2>1, SizeAssumption
  <2>3. slots[i].state # "Empty"
    BY <2>2, NoNameAssumption DEF TenantInv, SlotsFine, SlotFine
  <2> QED
    BY <2>1, <2>2, <2>3 DEF TenantInv, GuestsRun
<1>1. CASE SlotsKept /\ UNCHANGED guest
  BY <1>1 DEF SlotsKept, Steady, Size
<1>2. ASSUME NEW g \in Guests, Changes(p, g) PROVE Steady(i)
  <2>1. Vmm(p) # i /\ guest' = [guest EXCEPT ![Vmm(p)] = g] /\ SlotsKept
    BY <1>2 DEF Changes, GoesOn
  <2>2. guest'[i] = guest[i]
    BY <1>0, <2>1
  <2> QED
    BY <2>1, <2>2 DEF SlotsKept, Steady, Size
<1>3. ASSUME NEW j \in 1..Size, NEW s \in SlotRecords, Becomes(j, s), j # i
      PROVE  Steady(i)
  <2>1. slots'[i] = slots[i] /\ i \in DOMAIN slots' /\ Size' = Size
    BY <1>0, <1>3 DEF Becomes, Size
  <2>2. guest'[i] = guest[i]
    BY <1>0, <1>3, <2>1, FollowsOne DEF Becomes, TenantInv, GuestsRun
  <2> QED
    BY <2>1, <2>2 DEF Steady
<1>4. CASE Extends(p)
  <2>0. FreshSlot \in SlotRecords
    BY DEF FreshSlot, SlotRecords, States, ProcStates
  <2>1. /\ slots'[i] = slots[i] /\ i \in DOMAIN slots'
        /\ Len(slots') = Len(slots) + 1
    BY <1>0, <1>4, <2>0 DEF Extends
  <2>2. guest'[i] = guest[i]
    BY <1>0, <1>4, <2>1, FollowsOne DEF Extends, TenantInv, GuestsRun
  <2>3. i \in 1..Size'
    BY <1>0, <1>4, <2>1 DEF Extends, Size
  <2> QED
    BY <2>1, <2>2, <2>3 DEF Steady
<1>5. ASSUME NEW j \in 1..Size, Takes(p, j) PROVE Steady(i)
  BY <1>0, <1>3, <1>5 DEF Takes, Becomes
<1>6. CASE Vmm(p) \in 1..Size /\ Finishes(p)
  BY <1>3, <1>6 DEF Finishes, Becomes
<1> QED
  BY <1>1, <1>2, <1>4, <1>5, <1>6 DEF StepKind, Passes, Proceeds, Grasps

(* The daemon's tasks and the VMMs leave every slot with a VM steady until *)
(* shutdown.                                                               *)
LEMMA DaemonSteady ==
  ASSUME VmInv, TenantInv, "exit" \notin Faults, GuestsFollow, shutdown = "no",
         \/ Scaling \/ Stopping \/ Joining
         \/ \E i \in DOMAIN slots : SlotEvent(i),
         NEW i \in 1..Size, slots[i].name \in Names
  PROVE  Steady(i)
<1>0. /\ slots \in Seq(SlotRecords) /\ Len(slots) \in Nat /\ Size \in Nat
      /\ DOMAIN slots = 1..Len(slots) /\ Size <= Len(slots)
      /\ i \in DOMAIN slots /\ i \in 1..MaxSize
      /\ i \in Nat /\ 1 <= i /\ i <= Size
      /\ Autoscaler # NoProc /\ Main # NoProc
  <2>1. /\ slots \in Seq(SlotRecords) /\ Len(slots) \in Nat /\ Size \in Nat
        /\ DOMAIN slots = 1..Len(slots) /\ Size <= Len(slots) /\ Len(slots) <= MaxSize
    BY SizeFacts DEF VmInv, IInv, PoolTypeOK
  <2>2. i \in Nat /\ 1 <= i /\ i <= Size
    <3>1. Size \in Int
      BY SizeFacts DEF VmInv, IInv
    <3> QED
      BY <3>1
  <2>3. i \in DOMAIN slots /\ i \in 1..MaxSize
    BY <2>1, <2>2, SizeAssumption
  <2> QED
    BY <2>1, <2>2, <2>3, ProcAssumption DEF Procs
<1>0a. /\ joiner = NoProc => Size = Len(slots)
       /\ joiner # NoProc => Size = Len(slots) - 1
  BY SizeFacts DEF VmInv, IInv
<1>1. ASSUME slots'[i] = slots[i], i \in DOMAIN slots', i \in 1..Size'
      PROVE  Steady(i)
  <2>1. guest'[i] = guest[i]
    BY <1>0, <1>1, FollowsOne DEF TenantInv, GuestsRun
  <2> QED
    BY <1>1, <2>1 DEF Steady
<1>2. CASE UNCHANGED <<slots, joiner>>
  BY <1>0, <1>1, <1>2 DEF Size
<1>3. CASE ScalerPop
  <2>1. i # Size
    BY <1>3, NoNameAssumption DEF ScalerPop, TenantInv, SlotsFine
  <2>2. slots' = slots /\ joiner' # NoProc
    BY <1>0, <1>3 DEF ScalerPop
  <2>3. Size' = Size \/ Size' = Size - 1
    BY <1>0, <1>0a, <2>2 DEF Size
  <2>4. i \in 1..Size'
    BY <1>0, <2>1, <2>3
  <2> QED
    BY <1>0, <1>1, <2>2, <2>4
<1>4. CASE ScalerTick \/ ScalerKeeps \/ ScalerShrinks
  BY <1>2, <1>4 DEF ScalerTick, ScalerKeeps, ScalerShrinks, slotVars
<1>5. CASE Stopping
  <2>1. daemon # "stop"
    BY DEF VmInv, IInv, TaskInv
  <2> QED
    BY <1>2, <1>5, <2>1 DEF Stopping, ShutdownSignal, Drained, ShutdownStart,
         ShutdownPop, ShutdownDone, slotVars
<1>6. CASE Joining
  <2>1. /\ joiner # NoProc /\ joiner' = NoProc
        /\ slots' = SubSeq(slots, 1, Len(slots) - 1)
    BY <1>0, <1>6 DEF Joining, Join
  <2>2. Len(slots') = Len(slots) - 1 /\ slots'[i] = slots[i] /\ i \in DOMAIN slots'
    <3>1. i <= Len(slots) - 1 /\ Len(slots) - 1 \in Nat
      BY <1>0, <1>0a, <2>1
    <3> QED
      BY <1>0, <2>1, <3>1
  <2>3. Size' = Size
    <3>1. Size' = Len(slots')
      BY <2>1 DEF Size
    <3>2. Size = Len(slots) - 1
      BY <1>0a, <2>1
    <3> QED
      BY <2>2, <3>1, <3>2
  <2>4. i \in 1..Size'
    BY <1>0, <2>3
  <2> QED
    BY <1>1, <2>2, <2>4
<1>7. ASSUME NEW j \in DOMAIN slots, SlotEvent(j) PROVE Steady(i)
  <2>1. PICK s \in SlotRecords :
          /\ slots' = [slots EXCEPT ![j] = s] /\ UNCHANGED <<joiner, scaler>>
          /\ s.name = slots[j].name
          /\ s.state \in {slots[j].state, "Failed"}
          /\ s.state = "Failed" \/ (slots[j].proc = "serving" => s.proc = "serving")
    BY <1>7, EventKind DEF VmInv, TenantInv
  <2>2. Len(slots') = Len(slots) /\ i \in DOMAIN slots'
    BY <1>0, <2>1
  <2>3. i \in 1..Size'
    BY <1>0, <2>1, <2>2 DEF Size
  <2>4. CASE i # j
    BY <1>0, <1>1, <2>1, <2>2, <2>3, <2>4
  <2>5. CASE i = j
    <3>1. slots'[i] = s
      BY <2>1, <2>5
    <3>2. s.state = "Failed" \/ guest'[i] = guest[i]
      <4> SUFFICES ASSUME s.state # "Failed" PROVE guest'[i] = guest[i]
        OBVIOUS
      <4>1. guest[i] # NoGuest => slots'[i].proc = "serving"
        BY <1>0, <2>1, <2>5, <3>1 DEF TenantInv, GuestsRun
      <4> QED
        BY <1>0, <2>2, <4>1, FollowsOne DEF TenantInv
    <3> QED
      BY <2>1, <2>3, <2>5, <3>1, <3>2 DEF Steady
  <2> QED
    BY <2>4, <2>5
<1> QED
  BY <1>3, <1>4, <1>5, <1>6, <1>7 DEF Scaling

(* What a step of p leaves p with. *)
LEMMA OwnKeeps ==
  ASSUME VmInv, TenantInv, NEW p \in Requests, StepKind(p)
  PROVE  ChargeFine(p)'
<1> SUFFICES ASSUME InCharge(p)'
             PROVE  /\ call'[p].slot \in 1..Size'
                    /\ call'[p].name \in Names
                    /\ slots'[call'[p].slot].name = call'[p].name
                    /\ slots'[call'[p].slot].state = "Occupied" => p \in Deleters
                    /\ PastBoot(p)' =>
                         \/ slots'[call'[p].slot].state = "Failed"
                         \/ guest'[call'[p].slot] = Running(call'[p].name)
  BY DEF ChargeFine, Vmm
<1>0. /\ 1..Size \subseteq DOMAIN slots /\ 1..Size \subseteq 1..MaxSize
      /\ guest \in [1..MaxSize -> Guests] /\ slots \in Seq(SlotRecords)
      /\ Len(slots) \in Nat /\ DOMAIN slots = 1..Len(slots)
  BY SizeFacts, SizeAssumption DEF VmInv, IInv, PoolTypeOK, TenantInv, GuestsRun
<1>1. ChargeFine(p)
  BY DEF TenantInv
<1>2. CASE Proceeds(p)
  BY <1>1, <1>2 DEF Proceeds, GoesOn, SlotsKept, ChargeFine, Vmm, Size
<1>3. ASSUME NEW g \in Guests, Changes(p, g)
      PROVE  /\ call'[p].slot \in 1..Size'
             /\ call'[p].name \in Names
             /\ slots'[call'[p].slot].name = call'[p].name
             /\ slots'[call'[p].slot].state = "Occupied" => p \in Deleters
             /\ PastBoot(p)' =>
                  \/ slots'[call'[p].slot].state = "Failed"
                  \/ guest'[call'[p].slot] = Running(call'[p].name)
  <2>1. /\ Vmm(p) \in 1..Size /\ call[p].name \in Names
        /\ slots[Vmm(p)].name = call[p].name
        /\ slots[Vmm(p)].state = "Occupied" => p \in Deleters
    BY <1>1, <1>3 DEF Changes, GoesOn, ChargeFine
  <2>2. guest'[Vmm(p)] = g
    BY <1>0, <1>3, <2>1 DEF Changes
  <2> QED
    BY <1>3, <2>1, <2>2 DEF Changes, GoesOn, SlotsKept, Size, Vmm
<1>4. ASSUME NEW i \in 1..Size, Grasps(p, i)
      PROVE  /\ call'[p].slot \in 1..Size' /\ call'[p].name \in Names
             /\ slots'[call'[p].slot].name = call'[p].name
             /\ p \in Deleters /\ ~PastBoot(p)'
  BY <1>4 DEF Grasps, SlotsKept, Size
<1>5. ASSUME NEW i \in 1..Size, Takes(p, i)
      PROVE  /\ call'[p].slot \in 1..Size' /\ call'[p].name \in Names
             /\ slots'[call'[p].slot].name = call'[p].name
             /\ slots'[call'[p].slot].state # "Occupied" /\ ~PastBoot(p)'
  <2>1. i \in DOMAIN slots
    BY <1>0
  <2>2. /\ slots'[i] = Claimed(slots[i], call[p].name)
        /\ Len(slots') = Len(slots) /\ joiner' = joiner
    BY <1>0, <1>5, <2>1 DEF Takes, Becomes
  <2>3. Size' = Size
    BY <2>2 DEF Size
  <2> QED
    BY <1>5, <2>2, <2>3 DEF Takes, Claimed
<1> QED
  BY <1>2, <1>3, <1>4, <1>5 DEF StepKind, Passes, Extends, Finishes

(* A step of p leaves every slot in the charge of one handler. *)
LEMMA AloneKeeps ==
  ASSUME VmInv, TenantInv, OneDeleter, NEW p \in Requests, StepKind(p),
         \A q \in Requests \ {p} : call'[q] = call[q]
  PROVE  Alone'
<1>1. ASSUME NEW q \in Requests \ {p}, InCharge(q), InCharge(p)',
             call[q].slot = call'[p].slot
      PROVE  FALSE
  <2>1. /\ ChargeFine(q) /\ Vmm(q) \in 1..Size /\ slots[Vmm(q)].name \in Names
        /\ slots[Vmm(q)].state = "Occupied" => q \in Deleters
    BY <1>1 DEF TenantInv, ChargeFine
  <2>2. slots[Vmm(q)].state # "Empty"
    <3>1. Vmm(q) \in DOMAIN slots
      BY <2>1, SizeFacts DEF VmInv, IInv
    <3> QED
      BY <2>1, <3>1, NoNameAssumption DEF TenantInv, SlotsFine, SlotFine
  <2>3. CASE InCharge(p) /\ call'[p].slot = call[p].slot
    BY <1>1, <2>3 DEF TenantInv, Alone, Vmm
  <2>4. ASSUME NEW i \in 1..Size, Takes(p, i) PROVE FALSE
    BY <1>1, <2>2, <2>4 DEF Takes, Vmm
  <2>5. ASSUME NEW i \in 1..Size, Grasps(p, i) PROVE FALSE
    BY <1>1, <2>1, <2>5 DEF Grasps, Vmm, OneDeleter
  <2> QED
    BY <1>1, <2>3, <2>4, <2>5 DEF StepKind, Passes, Extends, Finishes, Proceeds,
       Changes, GoesOn
<1>2. \A q \in Requests \ {p} :
        (InCharge(q)' <=> InCharge(q)) /\ call'[q].slot = call[q].slot
  BY DEF InCharge
<1>3. ASSUME NEW q \in Requests, NEW r \in Requests,
             InCharge(q)', InCharge(r)', call'[q].slot = call'[r].slot
      PROVE  q = r
  <2>1. CASE q # p /\ r # p
    BY <1>2, <1>3, <2>1 DEF TenantInv, Alone, Vmm
  <2>2. CASE q = p \/ r = p
    BY <1>1, <1>2, <1>3, <2>2
  <2> QED
    BY <2>1, <2>2
<1> QED
  BY <1>3 DEF Alone, Vmm

-----------------------------------------------------------------------------
(* What handlers know. *)

(* A caller changes no call of allocate_vm_slot but its own. *)
LEMMA AllocsKept ==
  ASSUME PoolTypeOK, NEW p \in Requests, Caller(p) \/ UNCHANGED poolVars,
         NEW q \in Requests \ {p}
  PROVE  alloc'[q] = alloc[q]
<1>1. alloc \in [Requests -> Allocs]
  BY DEF PoolTypeOK
<1>2. CASE \/ \E n \in Names : AllocRequest(p, n)
           \/ ReadRequest(p) \/ ReadEnter(p) \/ ReadLeave(p) \/ PoolCall(p)
           \/ UNCHANGED poolVars
  BY <1>1, <1>2 DEF AllocRequest, ReadRequest, ReadEnter, ReadLeave, PoolCall,
     MarkBooted, ReleaseSlot, ResetSlot, SlotCommand, RequestDropped, poolVars
<1>3. CASE AllocStep(p)
  <2>1. ASSUME NEW phase, NEW at, NEW hit,
               AllocGoes(p, phase, at, hit) \/ AllocReturns(p, phase, at)
        PROVE  alloc'[q] = alloc[q]
    BY <1>1, <2>1 DEF AllocGoes, AllocReturns
  <2> QED
    BY <1>3, <2>1 DEF AllocStep, AllocStart, AllocNameNext, AllocNameTaken,
       AllocNameFree, AllocEmptyNext, AllocEmptyFound, AllocExhausted,
       AllocExtend, AllocReserve, AllocRefused
<1> QED
  BY <1>2, <1>3 DEF Caller

(* A call of allocate_vm_slot that goes on is for the same name. *)
LEMMA AllocNamed ==
  ASSUME PoolTypeOK, NEW p \in Requests, AllocStep(p),
         alloc'[p].phase \notin {"won", "lost"}
  PROVE  alloc'[p].name = alloc[p].name
<1>1. alloc \in [Requests -> Allocs]
  BY DEF PoolTypeOK
<1>2. ASSUME NEW phase, NEW at, NEW hit, AllocGoes(p, phase, at, hit)
      PROVE  alloc'[p].name = alloc[p].name
  <2>1. alloc'[p] = [alloc[p] EXCEPT !.phase = phase, !.at = at, !.hit = hit]
    BY <1>1, <1>2 DEF AllocGoes
  <2> QED
    BY <1>1, <2>1 DEF Allocs
<1>3. ASSUME NEW phase, NEW at, AllocReturns(p, phase, at)
      PROVE  alloc'[p].phase = phase
  BY <1>1, <1>3 DEF AllocReturns
<1> QED
  BY <1>2, <1>3 DEF AllocStep, AllocStart, AllocNameNext, AllocNameTaken,
     AllocNameFree, AllocEmptyNext, AllocEmptyFound, AllocExhausted,
     AllocExtend, AllocReserve, AllocRefused

(* A handler knows what it needs after each of its steps. *)
LEMMA IntentKeeps ==
  ASSUME VmInv, NEW p \in Requests, IntentFine(p),
         \/ \E n \in Names :
              CreateBegins(p, n) \/ DeleteBegins(p, n) \/ ProxyBegins(p, n)
         \/ HandlerStep(p) \/ Dropped(p)
  PROVE  IntentFine(p)'
<1>1. /\ call \in [Requests -> Calls] /\ call[p] \in Calls /\ CallFine(p)
      /\ PoolTypeOK /\ alloc \in [Requests -> Allocs]
  BY DEF VmInv, CallInv, IInv, PoolTypeOK
<1>2. call'[p].pc \notin {"alloc", "find", "mark"} => IntentFine(p)'
  BY DEF IntentFine, At
<1>3. CASE CreateGuest(p) \/ RestoreGuest(p) \/ BootGuest(p)
             \/ ShutdownGuest(p) \/ DeleteGuest(p)
  <2>1. \/ Ends(p, "failed") \/ LeavesFor(p, "cleanup") \/ LeavesFor(p, "ready")
        \/ \E pc \in {"boot", "delete", "release"} : GoesTo(p, pc)
    BY <1>3 DEF CreateGuest, RestoreGuest, BootGuest, ShutdownGuest, DeleteGuest,
       Unreached, Refused, Done
  <2> QED
    BY <1>1, <1>2, <2>1, CallFacts
<1>4. CASE \/ TimesOut(p) \/ MarkRefused(p) \/ NotRunning(p) \/ Proxies(p)
           \/ ReleaseRefused(p) \/ Marks(p) \/ Releases(p) \/ CleansUp(p)
  <2>1. Fails(p) \/ \E how \in {"ok", "failed"} : Ends(p, how)
    BY <1>4 DEF TimesOut, MarkRefused, NotRunning, Proxies, ReleaseRefused,
       Marks, Releases, CleansUp, Unreached
  <2> QED
    BY <1>1, <1>2, <2>1, CallFacts
<1>5. CASE AsksStatus(p) \/ AsksCleanup(p)
  <2>1. \E pc \in {"look", "reset"} : GoesTo(p, pc)
    BY <1>5 DEF AsksStatus, AsksCleanup
  <2> QED
    BY <1>1, <1>2, <2>1, CallFacts
<1>6. CASE Connects(p) \/ TriesAgain(p)
  <2>1. /\ call[p].then \in {"create", "mark"} /\ call'[p].then = call[p].then
        /\ call'[p].pc = call[p].then \/ call'[p].pc = "ready"
    BY <1>1, <1>6 DEF Connects, TriesAgain, NotReady, At, CallFine, Calls
  <2> QED
    BY <2>1 DEF IntentFine, At
<1>7. CASE LooksAtStatus(p) \/ Leave(p) \/ Dropped(p)
  <2>1. call'[p].pc \in {"connect", "cleanup", "ready", "idle"}
    <3>1. CASE LooksAtStatus(p)
      BY <1>1, <3>1, CallFacts DEF LooksAtStatus, Calls
    <3>2. CASE Leave(p)
      BY <1>1, <3>2 DEF Leave, Waiting, NoCall, Calls
    <3>3. CASE Dropped(p)
      BY <1>1, <3>3 DEF Dropped, NoCall
    <3> QED
      BY <1>7, <3>1, <3>2, <3>3
  <2> QED
    BY <1>2, <2>1
<1>8. CASE Granted(p)
  BY <1>8 DEF Granted, ReadEnter, IntentFine, At
<1>9. CASE Finds(p)
  <2>1. call'[p].pc = call[p].then /\ call[p].then \in {"shutdown", "proxy"}
    BY <1>1, <1>9 DEF Finds, Inside, At, CallFine, Calls
  <2> QED
    BY <1>2, <2>1
<1>10. CASE Allocates(p)
  <2>1. At(p, "alloc") /\ AllocStep(p)
    BY <1>10 DEF Allocates
  <2>2. CASE alloc'[p].phase \in {"won", "lost"}
    <3>1. call'[p].pc \in {"ready", "idle"}
      BY <1>1, <1>10, <2>2 DEF Allocates, Waiting, NoCall, Calls
    <3> QED
      BY <1>2, <3>1
  <2>3. CASE alloc'[p].phase \notin {"won", "lost"}
    <3>1. call' = call
      BY <1>1, <1>10, <2>3 DEF Allocates
    <3>2. alloc'[p].name = alloc[p].name
      BY <1>1, <2>1, <2>3, AllocNamed
    <3> QED
      BY <2>1, <3>1, <3>2 DEF IntentFine, At
  <2> QED
    BY <2>2, <2>3
<1>11. ASSUME NEW n \in Names, CreateBegins(p, n) PROVE IntentFine(p)'
  <2>1. call'[p].pc = "alloc" /\ call'[p].name = n
    BY <1>1, <1>11 DEF CreateBegins, Begins, NoCall
  <2>2. alloc'[p].name = n
    BY <1>1, <1>11 DEF CreateBegins, AllocRequest
  <2> QED
    BY <2>1, <2>2 DEF IntentFine, At
<1>12. ASSUME NEW n \in Names, DeleteBegins(p, n) \/ ProxyBegins(p, n)
       PROVE  IntentFine(p)'
  <2>1. /\ call'[p].pc = "find" /\ call'[p].name = n
        /\ call'[p].then = "shutdown" => p \in Deleters
    BY <1>1, <1>12 DEF DeleteBegins, ProxyBegins, LookupBegins, NoCall
  <2> QED
    BY <2>1 DEF IntentFine, At
<1> QED
  BY <1>3, <1>4, <1>5, <1>6, <1>7, <1>8, <1>9, <1>10, <1>11, <1>12
     DEF HandlerStep, CreateStep, DeleteStep

-----------------------------------------------------------------------------
(* The invariant. *)

(* It holds when the daemon starts to serve. *)
LEMMA TenantInit == VmInit => TenantInv
<1> SUFFICES ASSUME VmInit PROVE TenantInv
  OBVIOUS
<1>1. /\ call = [p \in Requests |-> NoCall] /\ NoCall.pc = "idle"
      /\ guest = [i \in 1..MaxSize |-> NoGuest]
      /\ slots = [i \in 1..MinSize |-> FreshSlot] /\ scaler = "sleep"
  BY DEF VmInit, PoolInit, NoCall
<1>2. \A p \in Requests : ~InCharge(p) /\ call[p].pc = "idle"
  BY <1>1 DEF InCharge
<1>3. SlotsFine
  BY <1>1 DEF SlotsFine, SlotFine, FreshSlot
<1>4. GuestsRun /\ GuestsFine
  BY <1>1 DEF GuestsRun, GuestsFine, Guests, NoGuest
<1> QED
  BY <1>2, <1>3, <1>4 DEF TenantInv, Alone, ChargeFine, IntentFine, At

(* Every step keeps it, if no VMM exits and deletes do not overlap. *)
LEMMA TenantStep ==
  ASSUME VmInv, TenantInv, "exit" \notin Faults, OneDeleter,
         [VmNext]_serviceVars
  PROVE  TenantInv'
<1>0. /\ IInv /\ PoolTypeOK /\ [PoolNext]_poolVars /\ SlotsFine /\ GuestsRun
      /\ GuestsFine /\ Alone
      /\ \A p \in Requests : ChargeFine(p) /\ IntentFine(p)
  BY VmStep DEF VmInv, IInv, TenantInv
<1>1. CASE UNCHANGED serviceVars
  BY <1>1 DEF serviceVars, TenantInv, SlotsFine, GuestsRun, GuestsFine, Alone,
     ChargeFine, IntentFine, InCharge, PastBoot, At, Vmm, Size
<1>2. ASSUME NEW p \in Requests,
             \/ \E n \in Names :
                  CreateBegins(p, n) \/ DeleteBegins(p, n) \/ ProxyBegins(p, n)
             \/ HandlerStep(p) \/ Dropped(p)
      PROVE  TenantInv'
  <2>1. StepKind(p)
    BY <1>2, HandlerKind
  <2>2. /\ Caller(p) \/ UNCHANGED poolVars
        /\ \A q \in Requests \ {p} : call'[q] = call[q]
    BY <1>2, HandlerMoves DEF CallMoves
  <2>3. SlotsFine'
    BY <1>0, <2>1, HandlerSlotsFine
  <2>4. GuestsRun'
    BY <1>0, <1>2, HandlerGuests
  <2>5. GuestsFine'
    BY <1>0, <2>1, HandlerGuestsFine
  <2>6. Alone'
    BY <2>1, <2>2, AloneKeeps
  <2>7. ChargeFine(p)' /\ IntentFine(p)'
    BY <1>0, <1>2, <2>1, OwnKeeps, IntentKeeps
  <2>8. ASSUME NEW q \in Requests \ {p} PROVE ChargeFine(q)'
    <3>1. ASSUME InCharge(q) PROVE Steady(Vmm(q))
      <4>1. Vmm(q) \in 1..Size /\ slots[Vmm(q)].name \in Names
        BY <1>0, <3>1 DEF ChargeFine
      <4>2. ~(InCharge(p) /\ Vmm(p) = Vmm(q))
        BY <1>0, <3>1 DEF Alone
      <4> QED
        BY <2>1, <4>1, <4>2, HandlerSteady
    <3> QED
      BY <1>0, <2>2, <3>1, SteadyKeeps
  <2>9. ASSUME NEW q \in Requests \ {p} PROVE IntentFine(q)'
    <3>1. alloc'[q] = alloc[q] /\ call'[q] = call[q]
      BY <1>0, <2>2, AllocsKept
    <3> QED
      BY <1>0, <3>1 DEF IntentFine, At
  <2> QED
    BY <2>3, <2>4, <2>5, <2>6, <2>7, <2>8, <2>9 DEF TenantInv
<1>3. CASE Daemon
  <2>1. /\ \/ Scaling \/ Stopping \/ Joining
           \/ \E i \in DOMAIN slots : SlotEvent(i)
        /\ UNCHANGED call /\ GuestsFollow
    BY <1>3 DEF Daemon, Stopping, ServerDrained
  <2>2. SlotsFine'
    BY <1>0, <2>1, DaemonSlotsFine
  <2>3. GuestsRun' /\ GuestsFine'
    BY <1>0, <2>1, GuestsFollowKeeps, FollowsFine
  <2>4. Alone'
    BY <1>0, <2>1 DEF Alone, InCharge, Vmm
  <2>5. ASSUME NEW q \in Requests PROVE ChargeFine(q)'
    <3>1. ASSUME InCharge(q) PROVE Steady(Vmm(q))
      <4>1. Vmm(q) \in 1..Size /\ slots[Vmm(q)].name \in Names
        BY <1>0, <3>1 DEF ChargeFine
      <4>2. shutdown = "no"
        <5>1. ~At(q, "idle")
          BY <3>1 DEF InCharge, At
        <5>2. Serving
          BY <5>1 DEF VmInv, CallInv, CallFine
        <5> QED
          BY <1>0, <5>2 DEF IInv, TaskInv, Serving, PoolTypeOK
      <4> QED
        BY <2>1, <4>1, <4>2, DaemonSteady
    <3> QED
      BY <1>0, <2>1, <3>1, SteadyKeeps
  <2>6. UNCHANGED alloc
    BY <2>1 DEF Scaling, ScalerTick, ScalerKeeps, ScalerShrinks, ScalerPop,
       Stopping, ShutdownSignal, Drained, ShutdownStart, ShutdownPop,
       ShutdownDone, Joining, Join, SlotEvent, Spawn, SpawnFails, Reap,
       PollFails, Listen, Exit, WorkerEnds, WorkerMoves
  <2>7. ASSUME NEW q \in Requests PROVE IntentFine(q)'
    BY <1>0, <2>1, <2>6 DEF IntentFine, At
  <2> QED
    BY <2>2, <2>3, <2>4, <2>5, <2>7 DEF TenantInv
<1> QED
  BY <1>1, <1>2, <1>3 DEF VmNext

(* Without exits and overlapping deletes, in every reachable state: each   *)
(* create and delete that is under way is alone in charge of its slot,     *)
(* whose VM has the name it was asked for.                                 *)
THEOREM ChargesHold ==
  ASSUME "exit" \notin Faults, OneDeleter
  PROVE  VmSpec => []TenantInv
<1>1. VmInv /\ TenantInv /\ [VmNext]_serviceVars => TenantInv'
  BY TenantStep
<1> QED
  BY <1>1, TenantInit, VmInvariance, PTL DEF VmSpec

(* For every number of creates, proxied requests, names and slots, and     *)
(* whatever is interleaved, refused, dropped or failing to spawn: a guest  *)
(* that service.rs had created is in a slot that is assigned to its name.  *)
(* So it can be found and deleted, and no later tenant meets it.           *)
THEOREM GuestsKeepSlots ==
  ASSUME "exit" \notin Faults, OneDeleter
  PROVE  VmSpec => []GuestsHaveSlots
<1>1. TenantInv => GuestsHaveSlots
  BY DEF TenantInv, GuestsFine, GuestsHaveSlots
<1> QED
  BY <1>1, ChargesHold, PTL

(* A create_vm that answers OK has its own VM in an Occupied slot, and the *)
(* guest it started in the VMM that listens there: nothing that happens    *)
(* between the boot and the mark, where the guard is dropped twice, makes  *)
(* it speak of another VM.                                                 *)
THEOREM CreatesAnswerForTheirs ==
  ASSUME "exit" \notin Faults, OneDeleter
  PROVE  VmSpec => CreateOkIsMine
<1> DEFINE Mine ==
      \A p \in Requests :
        At(p, "mark") /\ call'[p].then = "ok" =>
          /\ slots'[Vmm(p)].name = call[p].name
          /\ slots'[Vmm(p)].state = "Occupied"
          /\ slots'[Vmm(p)].proc = "serving" =>
               guest'[Vmm(p)] = [name |-> call[p].name, on |-> TRUE]
<1>1. VmInv /\ TenantInv /\ [VmNext]_serviceVars => [Mine]_serviceVars
  <2> SUFFICES ASSUME VmInv, TenantInv, [VmNext]_serviceVars,
                      NEW p \in Requests, At(p, "mark"), call'[p].then = "ok"
               PROVE  /\ slots'[Vmm(p)].name = call[p].name
                      /\ slots'[Vmm(p)].state = "Occupied"
                      /\ slots'[Vmm(p)].proc = "serving" =>
                           guest'[Vmm(p)] = [name |-> call[p].name, on |-> TRUE]
    OBVIOUS
  <2>0. /\ call \in [Requests -> Calls] /\ call[p] \in Calls
        /\ ChargeFine(p) /\ call[p].then = "mark"
        /\ PoolTypeOK
    BY DEF VmInv, IInv, CallInv, TenantInv, IntentFine
  <2>1. call'[p] # call[p]
    BY <2>0
  <2>2. \/ \E n \in Names :
             CreateBegins(p, n) \/ DeleteBegins(p, n) \/ ProxyBegins(p, n)
        \/ HandlerStep(p) \/ Dropped(p)
    <3>1. ASSUME NEW q \in Requests \ {p},
                 \/ \E n \in Names :
                      CreateBegins(q, n) \/ DeleteBegins(q, n) \/ ProxyBegins(q, n)
                 \/ HandlerStep(q) \/ Dropped(q)
          PROVE  call'[p] = call[p]
      BY <3>1, HandlerMoves DEF CallMoves
    <3>2. Daemon \/ UNCHANGED serviceVars => call'[p] = call[p]
      BY DEF Daemon, serviceVars
    <3> QED
      BY <2>1, <3>1, <3>2 DEF VmNext
  <2>3. Marks(p)
    <3>1. ~(Dropped(p) \/ MarkRefused(p) \/ Granted(p))
      <4>1. ~Dropped(p)
        BY <2>0 DEF Dropped, NoCall
      <4>2. ~MarkRefused(p)
        BY <2>0, CallFacts DEF MarkRefused
      <4>3. ~Granted(p)
        BY <2>1 DEF Granted
      <4> QED
        BY <4>1, <4>2, <4>3
    <3> QED
      BY <2>2, <3>1 DEF HandlerStep, CreateStep, DeleteStep, At, Inside,
         CreateBegins, DeleteBegins, ProxyBegins, LookupBegins, Allocates,
         AsksStatus, LooksAtStatus, Connects, TriesAgain, TimesOut, NotReady,
         CreateGuest, RestoreGuest, BootGuest, NotRunning, Finds, Proxies,
         ShutdownGuest, DeleteGuest, Releases, ReleaseRefused, AsksCleanup,
         CleansUp, Leave
  <2>4. /\ Vmm(p) \in 1..Size /\ slots[Vmm(p)].name = call[p].name
        /\ \/ slots[Vmm(p)].state = "Failed"
           \/ guest[Vmm(p)] = Running(call[p].name)
    BY <2>0 DEF ChargeFine, InCharge, PastBoot, At
  <2>5. /\ slots' = [slots EXCEPT ![Vmm(p)] = Booted(slots[Vmm(p)])]
        /\ slots[Vmm(p)].state = "Booting" /\ guest' = guest
    BY <2>3 DEF Marks, MarkBooted, SlotCommand, SlotMoves
  <2>6. slots[Vmm(p)] \in SlotRecords /\ Vmm(p) \in DOMAIN slots
    BY <2>0, <2>4, SizeFacts DEF PoolTypeOK
  <2>7. /\ slots'[Vmm(p)] = Booted(slots[Vmm(p)])
        /\ Booted(slots[Vmm(p)]).name = slots[Vmm(p)].name
        /\ Booted(slots[Vmm(p)]).state = "Occupied"
    BY <2>5, <2>6 DEF Booted, SlotRecords
  <2> QED
    BY <2>4, <2>5, <2>7 DEF Running
<1> QED
  BY <1>1, ChargesHold, VmInvariance, PTL DEF VmSpec, CreateOkIsMine

=============================================================================
