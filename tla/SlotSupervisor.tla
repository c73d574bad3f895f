--------------------------- MODULE SlotSupervisor ---------------------------
(***************************************************************************)
(* The worker of one slot: supervise_slot of src/slot_supervisor.rs, with  *)
(* the commands that reach it over its channel, the VMM process it spawns  *)
(* and the API socket that process listens on.                             *)
(*                                                                         *)
(* Each round of the loop goes through four places, where commands, exits  *)
(* of the VMM and the shutdown broadcast interleave with it: "top" (look   *)
(* at the shutdown flag, spawn a missing VMM), "drain" (answer what is     *)
(* queued), "poll" (reap an exited VMM) and "select" (wait for the next    *)
(* event, or 200 ms).                                                      *)
(*                                                                         *)
(* Against the code: mac and tap go with name; pid, started_at and         *)
(* last_error are "some" or "none"; killing a child always succeeds.       *)
(***************************************************************************)
EXTENDS SlotRecord, Sequences, FiniteSets

CONSTANTS
  Calls,       (* callers of this slot, each with one call at a time        *)
  NoStatus,    (* what a caller was shown before its first answer          *)
  Capacity,    (* bound of the command channel, 16 in the code             *)
  MaxCalls,    (* bound: how many calls are made                           *)
  MaxExits     (* bound: how often the VMM exits by itself                 *)

ASSUME CapacityAssumption == Capacity \in Nat \ {0}
ASSUME MaxCallsAssumption == MaxCalls \in Nat
ASSUME MaxExitsAssumption == MaxExits \in Nat

VARIABLES
  rt,         (* SlotRuntime: the status, the child and its socket         *)
  queue,      (* the command channel                                       *)
  call,       (* where the call of each caller is                          *)
  seen,       (* the generation and tenant each caller was last shown      *)
  handle,     (* "held" until the pool drops the SlotHandle                *)
  shutdown,   (* "sent" once the pool has broadcast shutdown               *)
  made,       (* calls made so far                                         *)
  exits,      (* exits of the VMM so far                                   *)
  pc          (* place in the loop                                         *)

vars == <<rt, queue, call, seen, handle, shutdown, made, exits, pc>>

Options == {"none", "some"}
Places == {"top", "drain", "poll", "select", "done"}

(* "idle" is a caller without a call, before the first and after an       *)
(* answer. "abandoned" is one whose future was dropped: it makes no more   *)
(* calls, and its command, once queued, stays.                             *)
CallStates == {"idle", "sending", "pending", "closed", "abandoned"}

Stamps == [generation : Nat, name : Names \cup {NoName}]

Runtimes ==
  [state : States, generation : Nat, name : Names \cup {NoName},
   pid : Options, startedAt : Options, lastError : Options,
   proc : ProcStates, socket : {"absent", "present"}]

Commands ==
  [call : Calls, kind : {"status", "boot", "release", "reset"}]
    \cup [call : Calls, kind : {"reserve"}, name : Names]

(* Of runtime.status.clone(): what an answer says of the tenancy. *)
Stamp(r) == [generation |-> r.generation, name |-> r.name]

TypeOK ==
  /\ rt \in Runtimes
  /\ queue \in Seq(Commands) /\ Len(queue) <= Capacity
  /\ call \in [Calls -> CallStates]
  /\ seen \in [Calls -> Stamps \cup {NoStatus}]
  /\ handle \in {"held", "dropped"}
  /\ shutdown \in {"no", "sent"}
  /\ made \in 0..MaxCalls
  /\ exits \in 0..MaxExits
  /\ pc \in Places

(* A daemon that was killed leaves its socket files behind. *)
Init ==
  /\ \E left \in {"absent", "present"} :
       rt = [state |-> "Empty", generation |-> 0, name |-> NoName,
             pid |-> "none", startedAt |-> "none", lastError |-> "none",
             proc |-> "none", socket |-> left]
  /\ queue = <<>>
  /\ call = [c \in Calls |-> "idle"]
  /\ seen = [c \in Calls |-> NoStatus]
  /\ handle = "held"
  /\ shutdown = "no"
  /\ made = 0
  /\ exits = 0
  /\ pc = "top"

-----------------------------------------------------------------------------
(* Steps on the runtime. *)

(* cleanup_api_socket *)
SocketRemoved(r) == [r EXCEPT !.socket = "absent"]

(* stop_child and child = None *)
ChildStopped(r) == [r EXCEPT !.proc = "none"]

(* The fields every way back to Empty clears; pid is the caller's. *)
TenantCleared(r) ==
  [r EXCEPT !.state = "Empty", !.name = NoName, !.startedAt = "none",
            !.lastError = "none", !.generation = @ + 1]

ReserveVm(r, name) ==
  [r EXCEPT !.state = "Booting", !.name = name, !.generation = @ + 1,
            !.lastError = "none", !.startedAt = "none"]

MarkVmBooted(r) == [r EXCEPT !.state = "Occupied", !.startedAt = "some"]

(* Slip: a release forgets to stamp the generation. *)
ReleaseUnstamped(r) ==
  [SocketRemoved(ChildStopped(r)) EXCEPT
     !.state = "Empty", !.name = NoName, !.startedAt = "none",
     !.lastError = "none", !.pid = "none"]

ReleaseVm(r) ==
  SocketRemoved(ChildStopped([TenantCleared(r) EXCEPT !.pid = "none"]))

ResetVm(r) ==
  [TenantCleared(SocketRemoved(ChildStopped(r))) EXCEPT !.pid = "none"]

(* Slip: the socket of an earlier daemon is left in the way. *)
SpawnOnStaleSocket(r) ==
  [r EXCEPT !.proc = "starting", !.pid = "some", !.lastError = "none"]

SpawnOk(r) ==
  [SocketRemoved(r) EXCEPT !.proc = "starting", !.pid = "some",
                           !.lastError = "none"]

SpawnErr(r) ==
  [SocketRemoved(r) EXCEPT !.state = "Failed", !.pid = "none",
                           !.lastError = "some"]

(* Slip: the pid of the dead VMM is kept. *)
ExitKeepsPid(r) ==
  LET gone == SocketRemoved(ChildStopped(r))
  IN  IF r.state \in {"Booting", "Occupied"} THEN TenantCleared(gone) ELSE gone

(* Slip: only a booted VM ends with its VMM. *)
ExitKeepsBooting(r) ==
  LET gone == SocketRemoved([r EXCEPT !.proc = "none", !.pid = "none"])
  IN  IF r.state = "Occupied" THEN TenantCleared(gone) ELSE gone

ExitReaped(r) ==
  LET gone == SocketRemoved([r EXCEPT !.proc = "none", !.pid = "none"])
  IN  IF r.state \in {"Booting", "Occupied"} THEN TenantCleared(gone) ELSE gone

PollErr(r) ==
  SocketRemoved([r EXCEPT !.proc = "none", !.pid = "none",
                          !.state = "Failed", !.lastError = "some"])

(* Slip: the child is dropped, not stopped. *)
LoopLeftOrphan(r) == SocketRemoved(r)

(* The loop breaks: the child is stopped, the status left as it was. *)
LoopLeft(r) == SocketRemoved(ChildStopped(r))

-----------------------------------------------------------------------------
(* handle_command *)

(* [runtime, answer] after command m; a tap device may not come up. *)
Outcomes(r, m) ==
  LET Done(s)   == [runtime |-> s, answer |-> "ok"]
      Refused   == [runtime |-> r, answer |-> "rejected"]
  IN  CASE m.kind = "status"  -> {Done(r)}
        [] m.kind = "reserve" ->
             IF r.state = "Empty"
             THEN {Done(ReserveVm(r, m.name)),
                   [runtime |-> r, answer |-> "backend"]}
             ELSE {Refused}
        [] m.kind = "boot"    ->
             IF r.state = "Booting" THEN {Done(MarkVmBooted(r))} ELSE {Refused}
        [] m.kind = "release" ->
             IF r.state = "Occupied" THEN {Done(ReleaseVm(r))} ELSE {Refused}
        [] m.kind = "reset"   -> {Done(ResetVm(r))}

(* The oldest command is taken and answered; nobody may be waiting. *)
HandleCommand ==
  /\ queue # <<>>
  /\ queue' = Tail(queue)
  /\ \E o \in Outcomes(rt, Head(queue)) :
       LET c == Head(queue).call IN
       /\ rt' = o.runtime
       /\ IF call[c] = "pending"
          THEN /\ call' = [call EXCEPT ![c] = "idle"]
               /\ seen' = [seen EXCEPT ![c] = IF o.answer = "ok"
                                              THEN Stamp(o.runtime) ELSE @]
          ELSE UNCHANGED <<call, seen>>

(* Slip: the senders of the queued commands outlive the loop. *)
LeaveUnanswered ==
  /\ pc' = "done" /\ rt' = LoopLeft(rt) /\ queue' = <<>>
  /\ UNCHANGED <<call, seen, handle, shutdown, made, exits>>

(* Slip: the loop does not break. *)
LeaveGoesOn ==
  /\ pc' = "top" /\ rt' = LoopLeft(rt)
  /\ UNCHANGED <<queue, call, seen, handle, shutdown, made, exits>>

(* supervise_slot returns: the channel goes with everything still in it. *)
LeaveLoop ==
  /\ pc' = "done"
  /\ rt' = LoopLeft(rt)
  /\ queue' = <<>>
  /\ call' = [c \in Calls |-> IF call[c] = "pending" THEN "closed"
                                                     ELSE call[c]]
  /\ UNCHANGED <<seen, handle, shutdown, made, exits>>

Goto(from, to) == pc = from /\ pc' = to

(* The worker moves on and touches the runtime only. *)
WorkerOnly == UNCHANGED <<queue, call, seen, handle, shutdown, made, exits>>

-----------------------------------------------------------------------------
(* The loop of supervise_slot. *)

TopShutdown == pc = "top" /\ shutdown = "sent" /\ LeaveLoop

(* Slip: should_spawn allows a Failed slot. *)
SpawnAnyway == rt.proc = "none"

(* Slip: should_spawn forgets Booting and Occupied. *)
SpawnIdleOnly == rt.proc = "none" /\ rt.state = "Empty"

ShouldSpawn == rt.proc = "none" /\ rt.state # "Failed"

TopSpawn ==
  /\ Goto("top", "drain")
  /\ shutdown = "no" /\ ShouldSpawn
  /\ rt' \in {SpawnOk(rt), SpawnErr(rt)}
  /\ WorkerOnly

TopKeep ==
  /\ Goto("top", "drain")
  /\ shutdown = "no" /\ ~ShouldSpawn
  /\ UNCHANGED rt /\ WorkerOnly

DrainCommand ==
  /\ pc = "drain" /\ HandleCommand
  /\ UNCHANGED <<handle, shutdown, made, exits, pc>>

DrainEmpty ==
  Goto("drain", "poll") /\ queue = <<>> /\ UNCHANGED rt /\ WorkerOnly

(* try_wait: the child has exited, is alive, or cannot be waited for. *)
PollExited ==
  /\ Goto("poll", "select") /\ rt.proc = "exited"
  /\ rt' = ExitReaped(rt) /\ WorkerOnly

PollFails ==
  /\ Goto("poll", "select") /\ rt.proc # "none"
  /\ rt' = PollErr(rt) /\ WorkerOnly

PollNothing ==
  /\ Goto("poll", "select") /\ rt.proc # "exited"
  /\ UNCHANGED rt /\ WorkerOnly

(* shutdown_rx.changed(): the flag was sent, or its sender is gone. *)
SelectShutdown ==
  /\ pc = "select"
  /\ shutdown = "sent" \/ handle = "dropped"
  /\ LeaveLoop

SelectCommand ==
  /\ Goto("select", "top") /\ HandleCommand
  /\ UNCHANGED <<handle, shutdown, made, exits>>

(* commands.recv() is None: the last sender is gone and nothing is queued. *)
SelectClosed ==
  pc = "select" /\ handle = "dropped" /\ queue = <<>> /\ LeaveLoop

(* 200 ms went by with no event; one that comes as they end comes at "top". *)
SelectSleep ==
  /\ Goto("select", "top")
  /\ queue = <<>> /\ handle = "held" /\ shutdown = "no"
  /\ UNCHANGED rt /\ WorkerOnly

Worker ==
  \/ TopShutdown \/ TopSpawn \/ TopKeep
  \/ DrainCommand \/ DrainEmpty
  \/ PollExited \/ PollFails \/ PollNothing
  \/ SelectShutdown \/ SelectCommand \/ SelectClosed \/ SelectSleep

-----------------------------------------------------------------------------
(* The callers in src/pool.rs, the pool itself and the VMM process. *)

CallMoves(c, from, to) == call[c] = from /\ call' = [call EXCEPT ![c] = to]

Call(c) ==
  /\ handle = "held" /\ made < MaxCalls
  /\ CallMoves(c, "idle", "sending")
  /\ made' = made + 1
  /\ UNCHANGED <<rt, queue, seen, handle, shutdown, exits, pc>>

(* Slip: one command more than the channel holds. *)
SendOverfull(c) ==
  /\ pc # "done" /\ Len(queue) <= Capacity
  /\ CallMoves(c, "sending", "pending")
  /\ \E m \in Commands : m.call = c /\ queue' = Append(queue, m)
  /\ UNCHANGED <<rt, seen, handle, shutdown, made, exits, pc>>

(* tx.send(command).await: the channel has room *)
Send(c) ==
  /\ pc # "done" /\ Len(queue) < Capacity
  /\ CallMoves(c, "sending", "pending")
  /\ \E m \in Commands : m.call = c /\ queue' = Append(queue, m)
  /\ UNCHANGED <<rt, seen, handle, shutdown, made, exits, pc>>

(* tx.send(command).await: the receiver is gone, ChannelClosed *)
SendClosed(c) ==
  /\ pc = "done" /\ CallMoves(c, "sending", "closed")
  /\ UNCHANGED <<rt, queue, seen, handle, shutdown, made, exits, pc>>

(* The caller's future is dropped, as when an HTTP client goes away. *)
Abandon(c) ==
  /\ CallMoves(c, "sending", "abandoned") \/ CallMoves(c, "pending", "abandoned")
  /\ UNCHANGED <<rt, queue, seen, handle, shutdown, made, exits, pc>>

(* ProcessPool::shutdown: shutdown_tx.send(true) *)
BroadcastShutdown ==
  /\ shutdown = "no" /\ shutdown' = "sent"
  /\ UNCHANGED <<rt, queue, call, seen, handle, made, exits, pc>>

(* A call borrows the pool: the handle is dropped with no call under way. *)
DropHandle ==
  /\ handle = "held" /\ handle' = "dropped"
  /\ \A c \in Calls : call[c] \notin {"sending", "pending"}
  /\ UNCHANGED <<rt, queue, call, seen, shutdown, made, exits, pc>>

(* The VMM binds its API socket, which must not exist, and accepts. *)
Listen ==
  /\ rt.proc = "starting" /\ rt.socket = "absent"
  /\ rt' = [rt EXCEPT !.proc = "serving", !.socket = "present"]
  /\ UNCHANGED pc /\ WorkerOnly

(* The VMM exits by itself and leaves its socket behind. *)
Exit ==
  /\ rt.proc \in {"starting", "serving"} /\ exits < MaxExits
  /\ rt' = [rt EXCEPT !.proc = "exited"]
  /\ exits' = exits + 1
  /\ UNCHANGED <<queue, call, seen, handle, shutdown, made, pc>>

Environment ==
  \/ \E c \in Calls : Call(c) \/ Send(c) \/ SendClosed(c) \/ Abandon(c)
  \/ BroadcastShutdown \/ DropHandle \/ Listen \/ Exit

Next == Worker \/ Environment

(* The runtime polls a ready task: the worker, and a sender with room. *)
Fairness ==
  /\ WF_vars(Worker)
  /\ \A c \in Calls : WF_vars(Send(c) \/ SendClosed(c))

Spec == Init /\ [][Next]_vars

FairSpec == Spec /\ Fairness

-----------------------------------------------------------------------------
(* Safety. *)

(* The fields of the runtime agree with each other. *)
Coherent(r) ==
  /\ r.pid = "some" <=> r.proc # "none"
  /\ r.lastError = "some" <=> r.state = "Failed"
  /\ r.state = "Failed" => r.proc = "none"
  /\ r.state = "Empty" => r.name = NoName /\ r.startedAt = "none"
  /\ r.state = "Booting" => r.name # NoName /\ r.startedAt = "none"
  /\ r.state = "Occupied" => r.name # NoName /\ r.startedAt = "some"

(* A starting VMM can bind its socket; a serving one can be connected to. *)
SocketFits(r) ==
  /\ r.proc = "starting" => r.socket = "absent"
  /\ r.proc = "serving" => r.socket = "present"

(* While the loop runs, the fields of SlotStatus agree with the state and  *)
(* the child: a pid is shown exactly while a child is held, which is what  *)
(* wait_for_slot_ready and list_running_vms take a pid to mean; an Empty   *)
(* slot shows no tenant and an Occupied one shows all of it; only a Failed *)
(* slot carries an error, and no child is left behind it.                  *)
StatusCoherent == pc # "done" => Coherent(rt)

(* generation stamps a tenancy: answers, and the slot itself, that show    *)
(* the same generation show the same VM, whatever reserves, releases,      *)
(* resets and exits lie between them, and an answer is never ahead of the  *)
(* slot.                                                                   *)
GenerationStampsTenancy ==
  \A c \in Calls : seen[c] # NoStatus =>
    /\ seen[c].generation <= rt.generation
    /\ seen[c].generation = rt.generation => seen[c].name = rt.name
    /\ \A d \in Calls :
         seen[d] # NoStatus /\ seen[d].generation = seen[c].generation
           => seen[d].name = seen[c].name

(* The socket file follows the VMM: a new VMM finds its path free, even    *)
(* when a daemon that was killed left one there, and nothing removes the   *)
(* socket of a VMM that serves on it.                                      *)
SocketFollowsVmm == SocketFits(rt)

(* However the loop ends, it leaves no VMM process, no socket file and no  *)
(* caller that waits for an answer.                                        *)
NothingLeftBehind ==
  pc = "done" =>
    /\ rt.proc = "none" /\ rt.socket = "absent"
    /\ queue = <<>>
    /\ \A c \in Calls : call[c] # "pending"

-----------------------------------------------------------------------------
(* The loop implements the one-slot specification. *)

SlotOf(r) == [state |-> r.state, name |-> r.name, proc |-> r.proc]

slotBar == SlotOf(rt)
workerBar == IF pc = "done" THEN "ended" ELSE "running"

Slot == INSTANCE SlotLifecycle WITH slot <- slotBar, worker <- workerBar

(* Whatever the order of commands, exits, failures and shutdown, the slot  *)
(* the loop shows moves as SlotLifecycle says, one event at a time: no     *)
(* claim of a slot that is not Empty, no tenant lost but by release,       *)
(* reset, exit or failure, no VMM spawned behind a Failed slot.            *)
ImplementsSlot == Slot!Spec

-----------------------------------------------------------------------------
(* Liveness. *)

Waiting(c) == call[c] \in {"sending", "pending"}

(* Every call on a slot returns: it is answered, or told that the channel  *)
(* closed, also when the worker ends with its command still queued.        *)
CallsAnswered == \A c \in Calls : Waiting(c) ~> ~Waiting(c)

(* A VM whose VMM exited, booted or still booting, loses its slot, and the *)
(* slot goes back to the pool (or is Failed, or the worker ends).          *)
ExitedVmLosesSlot ==
  \A n \in Names :
    (rt.name = n /\ rt.proc = "exited")
      ~> (rt.name # n \/ rt.state = "Failed" \/ pc = "done")

(* A slot that lost its VMM gets a new one, also when it was reserved      *)
(* again before the loop came round.                                       *)
VmmRespawned ==
  (rt.proc = "none" /\ rt.state # "Failed")
    ~> (rt.proc # "none" \/ rt.state = "Failed" \/ pc = "done")

(* A worker that is told to stop, or that lost its handle, ends.           *)
StopsWhenTold == (shutdown = "sent" \/ handle = "dropped") ~> pc = "done"

(* main.rs:42 calls the slots of the pool "warm": one whose VMM could not  *)
(* be spawned or polled once would have to get another VMM at some time.   *)
StaysWarm == []<>(rt.proc # "none" \/ pc = "done")
=============================================================================
