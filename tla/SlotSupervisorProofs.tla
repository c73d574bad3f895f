------------------------ MODULE SlotSupervisorProofs ------------------------
(***************************************************************************)
(* The safety of SlotSupervisor, for every set of calls and names and      *)
(* every bound: the inductive invariant is the conjunction of the type     *)
(* invariant and the four safety invariants, each of which needs another.  *)
(***************************************************************************)
EXTENDS SlotSupervisor, TLAPS

IInv ==
  /\ TypeOK
  /\ StatusCoherent
  /\ GenerationStampsTenancy
  /\ SocketFollowsVmm
  /\ NothingLeftBehind

-----------------------------------------------------------------------------
(* The operators on the runtime. *)

(* s is a legal successor of r: it is typed, it fits its socket, and the   *)
(* tenant changes only together with the generation.                       *)
Follows(r, s) ==
  /\ s \in Runtimes
  /\ SocketFits(s)
  /\ r.generation <= s.generation
  /\ r.generation = s.generation => r.name = s.name

(* Arithmetic on generations, away from the records they are fields of.    *)
LEMMA Generations ==
  ASSUME NEW r \in Runtimes
  PROVE  /\ r.generation \in Nat
         /\ r.generation + 1 \in Nat
         /\ r.generation <= r.generation
         /\ r.generation <= r.generation + 1
         /\ r.generation # r.generation + 1
BY DEF Runtimes

(* A reserved slot.                                                        *)
LEMMA ReserveFollows ==
  ASSUME NEW r \in Runtimes, Coherent(r), SocketFits(r),
         NEW n \in Names,
         r.state = "Empty"
  PROVE  Follows(r, ReserveVm(r, n)) /\ Coherent(ReserveVm(r, n))
<1> DEFINE s == ReserveVm(r, n)
<1>1. s \in Runtimes
  BY Generations DEF ReserveVm, Runtimes, States, ProcStates, Options
<1>2. /\ s.state = "Booting" /\ s.generation = r.generation + 1
      /\ s.name = n /\ s.pid = r.pid
      /\ s.startedAt = "none" /\ s.lastError = "none"
      /\ s.proc = r.proc /\ s.socket = r.socket
  BY DEF ReserveVm, Runtimes
<1> HIDE DEF s
<1>3. Follows(r, s) /\ Coherent(s)
  BY <1>1, <1>2, Generations, NoNameAssumption DEF Follows, Coherent, SocketFits
<1> QED
  BY <1>3 DEF s

(* A slot marked booted.                                                   *)
LEMMA MarkBootedFollows ==
  ASSUME NEW r \in Runtimes, Coherent(r), SocketFits(r),
         r.state = "Booting"
  PROVE  Follows(r, MarkVmBooted(r)) /\ Coherent(MarkVmBooted(r))
<1> DEFINE s == MarkVmBooted(r)
<1>1. s \in Runtimes
  BY Generations DEF MarkVmBooted, Runtimes, States, ProcStates, Options
<1>2. /\ s.state = "Occupied" /\ s.generation = r.generation
      /\ s.name = r.name /\ s.pid = r.pid
      /\ s.startedAt = "some" /\ s.lastError = r.lastError
      /\ s.proc = r.proc /\ s.socket = r.socket
  BY DEF MarkVmBooted, Runtimes
<1> HIDE DEF s
<1>3. Follows(r, s) /\ Coherent(s)
  BY <1>1, <1>2, Generations DEF Follows, Coherent, SocketFits
<1> QED
  BY <1>3 DEF s

(* A released slot.                                                        *)
LEMMA ReleaseFollows ==
  ASSUME NEW r \in Runtimes, Coherent(r), SocketFits(r)
  PROVE  Follows(r, ReleaseVm(r)) /\ Coherent(ReleaseVm(r))
<1> DEFINE s == ReleaseVm(r)
<1>1. s \in Runtimes
  BY Generations DEF ReleaseVm, SocketRemoved, ChildStopped, TenantCleared, Runtimes, States, ProcStates, Options
<1>2. /\ s.state = "Empty" /\ s.generation = r.generation + 1
      /\ s.name = NoName /\ s.pid = "none"
      /\ s.startedAt = "none" /\ s.lastError = "none"
      /\ s.proc = "none" /\ s.socket = "absent"
  BY DEF ReleaseVm, SocketRemoved, ChildStopped, TenantCleared, Runtimes
<1> HIDE DEF s
<1>3. Follows(r, s) /\ Coherent(s)
  BY <1>1, <1>2, Generations DEF Follows, Coherent, SocketFits
<1> QED
  BY <1>3 DEF s

(* A reset slot.                                                           *)
LEMMA ResetFollows ==
  ASSUME NEW r \in Runtimes, Coherent(r), SocketFits(r)
  PROVE  Follows(r, ResetVm(r)) /\ Coherent(ResetVm(r))
<1> DEFINE s == ResetVm(r)
<1>1. s \in Runtimes
  BY Generations DEF ResetVm, SocketRemoved, ChildStopped, TenantCleared, Runtimes, States, ProcStates, Options
<1>2. /\ s.state = "Empty" /\ s.generation = r.generation + 1
      /\ s.name = NoName /\ s.pid = "none"
      /\ s.startedAt = "none" /\ s.lastError = "none"
      /\ s.proc = "none" /\ s.socket = "absent"
  BY DEF ResetVm, SocketRemoved, ChildStopped, TenantCleared, Runtimes
<1> HIDE DEF s
<1>3. Follows(r, s) /\ Coherent(s)
  BY <1>1, <1>2, Generations DEF Follows, Coherent, SocketFits
<1> QED
  BY <1>3 DEF s

(* A slot whose VMM was spawned.                                           *)
LEMMA SpawnOkFollows ==
  ASSUME NEW r \in Runtimes, Coherent(r), SocketFits(r),
         r.proc = "none",
         r.state # "Failed"
  PROVE  Follows(r, SpawnOk(r)) /\ Coherent(SpawnOk(r))
<1> DEFINE s == SpawnOk(r)
<1>1. s \in Runtimes
  BY Generations DEF SpawnOk, SocketRemoved, Runtimes, States, ProcStates, Options
<1>2. /\ s.state = r.state /\ s.generation = r.generation
      /\ s.name = r.name /\ s.pid = "some"
      /\ s.startedAt = r.startedAt /\ s.lastError = "none"
      /\ s.proc = "starting" /\ s.socket = "absent"
  BY DEF SpawnOk, SocketRemoved, Runtimes
<1> HIDE DEF s
<1>3. Follows(r, s) /\ Coherent(s)
  BY <1>1, <1>2, Generations DEF Follows, Coherent, SocketFits
<1> QED
  BY <1>3 DEF s

(* A slot whose VMM could not be spawned.                                  *)
LEMMA SpawnErrFollows ==
  ASSUME NEW r \in Runtimes, Coherent(r), SocketFits(r),
         r.proc = "none"
  PROVE  Follows(r, SpawnErr(r)) /\ Coherent(SpawnErr(r))
<1> DEFINE s == SpawnErr(r)
<1>1. s \in Runtimes
  BY Generations DEF SpawnErr, SocketRemoved, Runtimes, States, ProcStates, Options
<1>2. /\ s.state = "Failed" /\ s.generation = r.generation
      /\ s.name = r.name /\ s.pid = "none"
      /\ s.startedAt = r.startedAt /\ s.lastError = "some"
      /\ s.proc = r.proc /\ s.socket = "absent"
  BY DEF SpawnErr, SocketRemoved, Runtimes
<1> HIDE DEF s
<1>3. Follows(r, s) /\ Coherent(s)
  BY <1>1, <1>2, Generations DEF Follows, Coherent, SocketFits
<1> QED
  BY <1>3 DEF s

(* A slot whose VMM could not be polled.                                   *)
LEMMA PollErrFollows ==
  ASSUME NEW r \in Runtimes, Coherent(r), SocketFits(r)
  PROVE  Follows(r, PollErr(r)) /\ Coherent(PollErr(r))
<1> DEFINE s == PollErr(r)
<1>1. s \in Runtimes
  BY Generations DEF PollErr, SocketRemoved, Runtimes, States, ProcStates, Options
<1>2. /\ s.state = "Failed" /\ s.generation = r.generation
      /\ s.name = r.name /\ s.pid = "none"
      /\ s.startedAt = r.startedAt /\ s.lastError = "some"
      /\ s.proc = "none" /\ s.socket = "absent"
  BY DEF PollErr, SocketRemoved, Runtimes
<1> HIDE DEF s
<1>3. Follows(r, s) /\ Coherent(s)
  BY <1>1, <1>2, Generations DEF Follows, Coherent, SocketFits
<1> QED
  BY <1>3 DEF s

(* A slot whose worker ends.                                               *)
LEMMA LoopLeftFollows ==
  ASSUME NEW r \in Runtimes, Coherent(r), SocketFits(r)
  PROVE  Follows(r, LoopLeft(r))
<1> DEFINE s == LoopLeft(r)
<1>1. s \in Runtimes
  BY Generations DEF LoopLeft, SocketRemoved, ChildStopped, Runtimes, States, ProcStates, Options
<1>2. /\ s.state = r.state /\ s.generation = r.generation
      /\ s.name = r.name /\ s.pid = r.pid
      /\ s.startedAt = r.startedAt /\ s.lastError = r.lastError
      /\ s.proc = "none" /\ s.socket = "absent"
  BY DEF LoopLeft, SocketRemoved, ChildStopped, Runtimes
<1> HIDE DEF s
<1>3. Follows(r, s)
  BY <1>1, <1>2, Generations DEF Follows, Coherent, SocketFits
<1> QED
  BY <1>3 DEF s

(* A slot whose VMM exited: with its tenant, if it has one.                *)
LEMMA ExitFollows ==
  ASSUME NEW r \in Runtimes, Coherent(r), SocketFits(r), r.proc = "exited"
  PROVE  Follows(r, ExitReaped(r)) /\ Coherent(ExitReaped(r))
<1> DEFINE s == ExitReaped(r)
<1>1. s \in Runtimes
  BY Generations DEF ExitReaped, TenantCleared, SocketRemoved, Runtimes, States, ProcStates, Options
<1>2. s.pid = "none" /\ s.proc = "none" /\ s.socket = "absent"
  BY DEF ExitReaped, TenantCleared, SocketRemoved, Runtimes
<1>3. CASE r.state \in {"Booting", "Occupied"}
  <2>1. /\ s.state = "Empty" /\ s.generation = r.generation + 1
        /\ s.name = NoName /\ s.startedAt = "none" /\ s.lastError = "none"
    BY <1>3 DEF ExitReaped, TenantCleared, SocketRemoved, Runtimes
  <2> HIDE DEF s
  <2>2. Follows(r, s) /\ Coherent(s)
    BY <1>1, <1>2, <2>1, Generations DEF Follows, Coherent, SocketFits
  <2> QED
    BY <2>2 DEF s
<1>4. CASE r.state \notin {"Booting", "Occupied"}
  <2>1. /\ s.state = r.state /\ s.generation = r.generation
        /\ s.name = r.name /\ s.startedAt = r.startedAt
        /\ s.lastError = r.lastError
    BY <1>4 DEF ExitReaped, TenantCleared, SocketRemoved, Runtimes
  <2> HIDE DEF s
  <2>2. Follows(r, s) /\ Coherent(s)
    BY <1>1, <1>2, <1>4, <2>1, Generations DEF Follows, Coherent, SocketFits
  <2> QED
    BY <2>2 DEF s
<1> QED
  BY <1>3, <1>4

(* Each answered command leaves a coherent runtime that follows the last.  *)
LEMMA OutcomesFollow ==
  ASSUME NEW r \in Runtimes, Coherent(r), SocketFits(r),
         NEW m \in Commands, NEW o \in Outcomes(r, m)
  PROVE  /\ Follows(r, o.runtime)
         /\ Coherent(o.runtime)
         /\ o.answer \in {"ok", "rejected", "backend"}
<1>0. Follows(r, r)
  BY Generations DEF Follows
<1>1. CASE m.kind = "status"
  <2>1. o = [runtime |-> r, answer |-> "ok"]
    BY <1>1 DEF Outcomes
  <2> QED
    BY <1>0, <2>1
<1>2. CASE m.kind = "reserve"
  <2>1. m.name \in Names
    BY <1>2 DEF Commands
  <2>2. \/ r.state = "Empty" /\ o = [runtime |-> ReserveVm(r, m.name), answer |-> "ok"]
        \/ o = [runtime |-> r, answer |-> "backend"]
        \/ o = [runtime |-> r, answer |-> "rejected"]
    BY <1>2 DEF Outcomes
  <2> QED
    BY <1>0, <2>1, <2>2, ReserveFollows
<1>3. CASE m.kind = "boot"
  <2>1. \/ r.state = "Booting" /\ o = [runtime |-> MarkVmBooted(r), answer |-> "ok"]
        \/ o = [runtime |-> r, answer |-> "rejected"]
    BY <1>3 DEF Outcomes
  <2> QED
    BY <1>0, <2>1, MarkBootedFollows
<1>4. CASE m.kind = "release"
  <2>1. \/ o = [runtime |-> ReleaseVm(r), answer |-> "ok"]
        \/ o = [runtime |-> r, answer |-> "rejected"]
    BY <1>4 DEF Outcomes
  <2> QED
    BY <1>0, <2>1, ReleaseFollows
<1>5. CASE m.kind = "reset"
  <2>1. o = [runtime |-> ResetVm(r), answer |-> "ok"]
    BY <1>5 DEF Outcomes
  <2> QED
    BY <2>1, ResetFollows
<1> QED
  BY <1>1, <1>2, <1>3, <1>4, <1>5 DEF Commands

-----------------------------------------------------------------------------
(* The invariant. *)

(* A step of the loop that only moves the runtime on keeps the invariant.  *)
LEMMA RuntimeMoves ==
  ASSUME IInv, pc # "done", pc' \in Places \ {"done"}, WorkerOnly,
         Follows(rt, rt'), Coherent(rt')
  PROVE  IInv'
<1>1. TypeOK'
  BY DEF IInv, TypeOK, WorkerOnly, Follows
<1>2. StatusCoherent' /\ SocketFollowsVmm' /\ NothingLeftBehind'
  BY DEF StatusCoherent, SocketFollowsVmm, NothingLeftBehind, Follows
<1>3. GenerationStampsTenancy'
  <2> SUFFICES ASSUME NEW c \in Calls, seen[c] # NoStatus
               PROVE  /\ seen[c].generation <= rt'.generation
                      /\ seen[c].generation = rt'.generation
                           => seen[c].name = rt'.name
    BY DEF IInv, GenerationStampsTenancy, WorkerOnly
  <2>1. /\ seen[c].generation \in Nat /\ rt.generation \in Nat
        /\ rt'.generation \in Nat
    BY DEF IInv, TypeOK, Stamps, Runtimes, Follows
  <2>2. /\ seen[c].generation <= rt.generation
        /\ seen[c].generation = rt.generation => seen[c].name = rt.name
    BY DEF IInv, GenerationStampsTenancy
  <2>3. /\ rt.generation <= rt'.generation
        /\ rt.generation = rt'.generation => rt.name = rt'.name
    BY DEF Follows
  <2> QED
    BY <2>1, <2>2, <2>3
<1> QED
  BY <1>1, <1>2, <1>3 DEF IInv

(* The end of the loop keeps the invariant.                                *)
LEMMA LoopLeaves ==
  ASSUME IInv, pc # "done", LeaveLoop
  PROVE  IInv'
<1>1. Follows(rt, rt') /\ rt' \in Runtimes /\ rt'.proc = "none" /\ rt'.socket = "absent"
  <2>1. rt \in Runtimes /\ Coherent(rt) /\ SocketFits(rt)
    BY DEF IInv, TypeOK, StatusCoherent, SocketFollowsVmm
  <2>2. rt'.proc = "none" /\ rt'.socket = "absent"
    BY <2>1 DEF LeaveLoop, LoopLeft, SocketRemoved, ChildStopped, Runtimes
  <2> QED
    BY <2>1, <2>2, LoopLeftFollows DEF LeaveLoop, Follows
<1>2. TypeOK'
  <2>1. Len(queue') <= Capacity
    BY CapacityAssumption DEF LeaveLoop
  <2> QED
    BY <1>1, <2>1 DEF IInv, TypeOK, LeaveLoop, CallStates, Places
<1>3. StatusCoherent' /\ SocketFollowsVmm'
  BY <1>1 DEF StatusCoherent, SocketFollowsVmm, LeaveLoop, Follows
<1>4. NothingLeftBehind'
  <2>1. \A c \in Calls : call'[c] # "pending"
    BY DEF IInv, TypeOK, LeaveLoop
  <2> QED
    BY <1>1, <2>1 DEF NothingLeftBehind, LeaveLoop
<1>5. GenerationStampsTenancy'
  <2> SUFFICES ASSUME NEW c \in Calls, seen[c] # NoStatus
               PROVE  /\ seen[c].generation <= rt'.generation
                      /\ seen[c].generation = rt'.generation
                           => seen[c].name = rt'.name
    BY DEF IInv, GenerationStampsTenancy, LeaveLoop
  <2>1. rt'.generation = rt.generation /\ rt'.name = rt.name
    BY DEF IInv, TypeOK, LeaveLoop, LoopLeft, SocketRemoved, ChildStopped, Runtimes
  <2> QED
    BY <2>1 DEF IInv, GenerationStampsTenancy
<1> QED
  BY <1>2, <1>3, <1>4, <1>5 DEF IInv

(* A command that is answered keeps the invariant.                         *)
LEMMA CommandHandled ==
  ASSUME IInv, pc # "done", pc' \in Places \ {"done"}, HandleCommand,
         UNCHANGED <<handle, shutdown, made, exits>>
  PROVE  IInv'
<1> DEFINE m == Head(queue)
<1>1. rt \in Runtimes /\ Coherent(rt) /\ SocketFits(rt)
  BY DEF IInv, TypeOK, StatusCoherent, SocketFollowsVmm
<1>2. m \in Commands /\ queue' \in Seq(Commands) /\ m.call \in Calls
  <2>1. queue \in Seq(Commands) /\ queue # <<>> /\ queue' = Tail(queue)
    BY DEF IInv, TypeOK, HandleCommand
  <2>2. m \in Commands /\ queue' \in Seq(Commands)
    BY <2>1
  <2> QED
    BY <2>2 DEF Commands
<1>3. PICK o \in Outcomes(rt, m) :
        /\ rt' = o.runtime
        /\ IF call[m.call] = "pending"
           THEN /\ call' = [call EXCEPT ![m.call] = "idle"]
                /\ seen' = [seen EXCEPT ![m.call] =
                              IF o.answer = "ok" THEN Stamp(o.runtime) ELSE @]
           ELSE UNCHANGED <<call, seen>>
  BY DEF HandleCommand
<1>4. /\ Follows(rt, rt') /\ Coherent(rt')
      /\ o.answer \in {"ok", "rejected", "backend"}
  BY <1>1, <1>2, <1>3, OutcomesFollow
<1> HIDE DEF m
<1>5. /\ Stamp(rt') \in Stamps
      /\ Stamp(rt').generation = rt'.generation
      /\ Stamp(rt').name = rt'.name
  BY <1>4 DEF Follows, Runtimes, Stamps, Stamp
<1>6. \A c \in Calls : seen'[c] = seen[c] \/ seen'[c] = Stamp(rt')
  BY <1>2, <1>3 DEF IInv, TypeOK
<1>7. TypeOK'
  <2>1. call' \in [Calls -> CallStates]
    BY <1>2, <1>3, <1>4 DEF IInv, TypeOK, CallStates
  <2>2. seen' \in [Calls -> Stamps \cup {NoStatus}]
    BY <1>2, <1>3, <1>5 DEF IInv, TypeOK
  <2>3. Len(queue') <= Capacity
    <3>1. /\ queue \in Seq(Commands) /\ Len(queue) <= Capacity
          /\ queue # <<>> /\ queue' = Tail(queue)
      BY DEF IInv, TypeOK, HandleCommand
    <3> QED
      BY <3>1, CapacityAssumption
  <2> QED
    BY <1>2, <1>4, <2>1, <2>2, <2>3 DEF IInv, TypeOK, Follows
<1>8. StatusCoherent' /\ SocketFollowsVmm' /\ NothingLeftBehind'
  BY <1>4 DEF StatusCoherent, SocketFollowsVmm, NothingLeftBehind, Follows
<1>9. GenerationStampsTenancy'
  <2>1. \A c \in Calls : seen[c] # NoStatus =>
          /\ seen[c].generation \in Nat
          /\ seen[c].generation <= rt'.generation
          /\ seen[c].generation = rt'.generation => seen[c].name = rt'.name
    <3> SUFFICES ASSUME NEW c \in Calls, seen[c] # NoStatus
                 PROVE  /\ seen[c].generation \in Nat
                        /\ seen[c].generation <= rt'.generation
                        /\ seen[c].generation = rt'.generation
                             => seen[c].name = rt'.name
      OBVIOUS
    <3>1. /\ seen[c].generation \in Nat /\ rt.generation \in Nat
          /\ rt'.generation \in Nat
      BY <1>4 DEF IInv, TypeOK, Stamps, Runtimes, Follows
    <3>2. /\ seen[c].generation <= rt.generation
          /\ seen[c].generation = rt.generation => seen[c].name = rt.name
      BY DEF IInv, GenerationStampsTenancy
    <3>3. /\ rt.generation <= rt'.generation
          /\ rt.generation = rt'.generation => rt.name = rt'.name
      BY <1>4 DEF Follows
    <3> QED
      BY <3>1, <3>2, <3>3
  <2>2. rt'.generation \in Nat
    BY <1>4 DEF Follows, Runtimes
  <2>3. \A c, d \in Calls :
          seen[c] # NoStatus /\ seen[d] # NoStatus
            /\ seen[d].generation = seen[c].generation
          => seen[d].name = seen[c].name
    BY DEF IInv, GenerationStampsTenancy
  <2> SUFFICES ASSUME NEW c \in Calls, seen'[c] # NoStatus
               PROVE  /\ seen'[c].generation <= rt'.generation
                      /\ seen'[c].generation = rt'.generation
                           => seen'[c].name = rt'.name
                      /\ \A d \in Calls :
                           seen'[d] # NoStatus
                             /\ seen'[d].generation = seen'[c].generation
                           => seen'[d].name = seen'[c].name
    BY DEF GenerationStampsTenancy
  <2>4. CASE seen'[c] = Stamp(rt')
    BY <1>5, <1>6, <2>1, <2>2, <2>4
  <2>5. CASE seen'[c] = seen[c]
    BY <1>5, <1>6, <2>1, <2>2, <2>3, <2>5
  <2> QED
    BY <1>6, <2>4, <2>5
<1> QED
  BY <1>7, <1>8, <1>9 DEF IInv

(* The steps of the loop keep the invariant.                               *)
LEMMA WorkerKeepsInvariant ==
  ASSUME IInv, Worker
  PROVE  IInv'
<1>1. rt \in Runtimes /\ SocketFits(rt) /\ Follows(rt, rt)
  BY Generations DEF IInv, TypeOK, SocketFollowsVmm, Follows
<1>2. pc # "done" => Coherent(rt)
  BY DEF IInv, StatusCoherent
<1> USE DEF Goto, Places
<1>3. CASE TopShutdown
  BY <1>3, LoopLeaves DEF TopShutdown
<1>4. CASE TopSpawn
  <2>1. Follows(rt, rt') /\ Coherent(rt')
    BY <1>1, <1>2, <1>4, SpawnOkFollows, SpawnErrFollows DEF TopSpawn, ShouldSpawn
  <2> QED
    BY <1>4, <2>1, RuntimeMoves DEF TopSpawn
<1>5. CASE TopKeep
  BY <1>1, <1>2, <1>5, RuntimeMoves DEF TopKeep
<1>6. CASE DrainCommand
  BY <1>6, CommandHandled DEF DrainCommand
<1>7. CASE DrainEmpty
  BY <1>1, <1>2, <1>7, RuntimeMoves DEF DrainEmpty
<1>8. CASE PollExited
  BY <1>1, <1>2, <1>8, ExitFollows, RuntimeMoves DEF PollExited
<1>9. CASE PollFails
  BY <1>1, <1>2, <1>9, PollErrFollows, RuntimeMoves DEF PollFails
<1>10. CASE PollNothing
  BY <1>1, <1>2, <1>10, RuntimeMoves DEF PollNothing
<1>11. CASE SelectShutdown
  BY <1>11, LoopLeaves DEF SelectShutdown
<1>12. CASE SelectCommand
  BY <1>12, CommandHandled DEF SelectCommand
<1>13. CASE SelectClosed
  BY <1>13, LoopLeaves DEF SelectClosed
<1>14. CASE SelectSleep
  BY <1>1, <1>2, <1>14, RuntimeMoves DEF SelectSleep
<1> QED
  BY <1>3, <1>4, <1>5, <1>6, <1>7, <1>8, <1>9, <1>10, <1>11, <1>12,
     <1>13, <1>14 DEF Worker

(* A step that leaves rt, seen and pc alone keeps what is about them.      *)
LEMMA CallersKeepInvariant ==
  ASSUME IInv, UNCHANGED <<rt, seen, pc>>, TypeOK',
         pc = "done" => queue' = <<>> /\ \A c \in Calls : call'[c] # "pending"
  PROVE  IInv'
BY DEF IInv, StatusCoherent, GenerationStampsTenancy, SocketFollowsVmm,
       NothingLeftBehind

(* The callers, the pool and the VMM keep the invariant.                   *)
LEMMA EnvironmentKeepsInvariant ==
  ASSUME IInv, Environment
  PROVE  IInv'
<1>0. TypeOK /\ NothingLeftBehind /\ SocketFits(rt)
  BY DEF IInv, SocketFollowsVmm
<1> USE DEF CallStates, CallMoves
<1>1. ASSUME NEW c \in Calls, Call(c) PROVE IInv'
  <2>1. TypeOK'
    BY <1>0, <1>1, MaxCallsAssumption DEF TypeOK, Call
  <2> QED
    BY <1>0, <1>1, <2>1, CallersKeepInvariant DEF Call, NothingLeftBehind, TypeOK
<1>2. ASSUME NEW c \in Calls, Send(c) PROVE IInv'
  <2>1. queue' \in Seq(Commands) /\ Len(queue') <= Capacity
    <3>1. /\ queue \in Seq(Commands) /\ Len(queue) < Capacity
          /\ \E m \in Commands : queue' = Append(queue, m)
      BY <1>0, <1>2 DEF TypeOK, Send
    <3> QED
      BY <3>1, CapacityAssumption
  <2>2. TypeOK'
    BY <1>0, <1>2, <2>1 DEF TypeOK, Send
  <2> QED
    BY <1>2, <2>2, CallersKeepInvariant DEF Send
<1>3. ASSUME NEW c \in Calls, SendClosed(c) PROVE IInv'
  <2>1. TypeOK'
    BY <1>0, <1>3 DEF TypeOK, SendClosed
  <2> QED
    BY <1>0, <1>3, <2>1, CallersKeepInvariant DEF SendClosed, NothingLeftBehind, TypeOK
<1>4. ASSUME NEW c \in Calls, Abandon(c) PROVE IInv'
  <2>1. TypeOK'
    BY <1>0, <1>4 DEF TypeOK, Abandon
  <2> QED
    BY <1>0, <1>4, <2>1, CallersKeepInvariant DEF Abandon, NothingLeftBehind, TypeOK
<1>5. CASE BroadcastShutdown
  <2>1. TypeOK'
    BY <1>0, <1>5 DEF TypeOK, BroadcastShutdown
  <2> QED
    BY <1>0, <1>5, <2>1, CallersKeepInvariant DEF BroadcastShutdown, NothingLeftBehind
<1>6. CASE DropHandle
  <2>1. TypeOK'
    BY <1>0, <1>6 DEF TypeOK, DropHandle
  <2> QED
    BY <1>0, <1>6, <2>1, CallersKeepInvariant DEF DropHandle, NothingLeftBehind
<1>7. CASE Listen
  <2>1. pc # "done" /\ pc' = pc /\ Coherent(rt) /\ rt.pid = "some"
    BY <1>7 DEF IInv, NothingLeftBehind, StatusCoherent, Coherent, Listen
  <2>2. /\ rt' \in Runtimes
        /\ rt'.proc = "serving" /\ rt'.socket = "present"
        /\ rt'.state = rt.state /\ rt'.generation = rt.generation
        /\ rt'.name = rt.name /\ rt'.pid = rt.pid
        /\ rt'.startedAt = rt.startedAt /\ rt'.lastError = rt.lastError
    BY <1>0, <1>7 DEF TypeOK, Listen, Runtimes, ProcStates
  <2>3. Follows(rt, rt') /\ Coherent(rt')
    BY <1>0, <1>7, <2>1, <2>2, Generations
       DEF Listen, Follows, Coherent, SocketFits, TypeOK
  <2> QED
    BY <1>0, <1>7, <2>1, <2>3, RuntimeMoves DEF Listen, TypeOK
<1>8. CASE Exit
  <2>1. pc # "done" /\ Coherent(rt) /\ rt.pid = "some"
    BY <1>8 DEF IInv, NothingLeftBehind, StatusCoherent, Coherent, Exit
  <2>2. /\ rt' \in Runtimes
        /\ rt'.proc = "exited" /\ rt'.socket = rt.socket
        /\ rt'.state = rt.state /\ rt'.generation = rt.generation
        /\ rt'.name = rt.name /\ rt'.pid = rt.pid
        /\ rt'.startedAt = rt.startedAt /\ rt'.lastError = rt.lastError
    BY <1>0, <1>8 DEF TypeOK, Exit, Runtimes, ProcStates
  <2>3. Coherent(rt') /\ SocketFits(rt')
    BY <1>8, <2>1, <2>2 DEF Exit, Coherent, SocketFits
  <2>4. TypeOK'
    BY <1>0, <1>8, <2>2, MaxExitsAssumption DEF TypeOK, Exit
  <2>5. GenerationStampsTenancy'
    BY <1>8, <2>2 DEF IInv, GenerationStampsTenancy, Exit
  <2> QED
    BY <1>8, <2>1, <2>3, <2>4, <2>5
       DEF IInv, StatusCoherent, SocketFollowsVmm, NothingLeftBehind, Exit
<1> QED
  BY <1>1, <1>2, <1>3, <1>4, <1>5, <1>6, <1>7, <1>8 DEF Environment

(* The invariant holds at the start and is kept by every step.             *)
THEOREM Invariance == Spec => []IInv
<1>1. Init => IInv
  <2> SUFFICES ASSUME Init PROVE IInv
    OBVIOUS
  <2>1. /\ rt \in Runtimes /\ rt.proc = "none" /\ rt.pid = "none"
        /\ rt.state = "Empty" /\ rt.name = NoName
        /\ rt.startedAt = "none" /\ rt.lastError = "none"
    BY DEF Init, Runtimes, States, ProcStates, Options
  <2>2. TypeOK
    BY <2>1, MaxCallsAssumption, MaxExitsAssumption, CapacityAssumption
       DEF Init, TypeOK, CallStates, Places
  <2> QED
    BY <2>1, <2>2
       DEF IInv, Init, StatusCoherent, Coherent, GenerationStampsTenancy,
           SocketFollowsVmm, SocketFits, NothingLeftBehind
<1>2. IInv /\ [Next]_vars => IInv'
  <2> SUFFICES ASSUME IInv, [Next]_vars PROVE IInv'
    OBVIOUS
  <2>1. CASE Worker
    BY <2>1, WorkerKeepsInvariant
  <2>2. CASE Environment
    BY <2>2, EnvironmentKeepsInvariant
  <2>3. CASE UNCHANGED vars
    BY <2>3 DEF vars, IInv, TypeOK, StatusCoherent, GenerationStampsTenancy,
                SocketFollowsVmm, NothingLeftBehind
  <2> QED
    BY <2>1, <2>2, <2>3 DEF Next
<1> QED
  BY <1>1, <1>2, PTL DEF Spec

(* The slot fits its type in every state.                                  *)
THEOREM TypeCorrect == Spec => []TypeOK
BY Invariance, PTL DEF IInv

(* SlotStatus and the child agree in every state the loop runs in.         *)
THEOREM StatusAlwaysCoherent == Spec => []StatusCoherent
BY Invariance, PTL DEF IInv

(* A generation number stands for one tenancy, for every observer.         *)
THEOREM GenerationIsStamp == Spec => []GenerationStampsTenancy
BY Invariance, PTL DEF IInv

(* The API socket follows the VMM process.                                 *)
THEOREM SocketAlwaysFits == Spec => []SocketFollowsVmm
BY Invariance, PTL DEF IInv

(* An ended worker leaves no process, no socket and no waiting caller.     *)
THEOREM EndIsClean == Spec => []NothingLeftBehind
BY Invariance, PTL DEF IInv

-----------------------------------------------------------------------------
(* The refinement: each operator on the runtime is, on the slot, the       *)
(* operator of SlotRecord for the same event.                              *)

(* For each operator on the runtime, the slot of its result is what the    *)
(* operator of SlotRecord makes of the slot.                               *)
LEMMA OperatorsCommute ==
  ASSUME NEW r \in Runtimes
  PROVE  /\ \A n \in Names : SlotOf(ReserveVm(r, n)) = Slot!Claimed(SlotOf(r), n)
         /\ SlotOf(MarkVmBooted(r)) = Slot!Booted(SlotOf(r))
         /\ SlotOf(ReleaseVm(r)) = Slot!FreshSlot
         /\ SlotOf(ResetVm(r)) = Slot!FreshSlot
         /\ SlotOf(SpawnOk(r)) = Slot!Spawned(SlotOf(r))
         /\ r.proc = "none" => SlotOf(SpawnErr(r)) = Slot!Broken(SlotOf(r))
         /\ SlotOf(ExitReaped(r)) = Slot!Reaped(SlotOf(r))
         /\ SlotOf(PollErr(r)) = Slot!Broken(SlotOf(r))
         /\ SlotOf(LoopLeft(r)) = Slot!Stopped(SlotOf(r))
<1> USE DEF Runtimes, SocketRemoved, ChildStopped, TenantCleared
<1>v. Slot!FreshSlot
        = [state |-> "Empty", name |-> NoName, proc |-> "none"]
  BY DEF SlotOf, Slot!FreshSlot
<1>b. Slot!Broken(SlotOf(r))
        = [state |-> "Failed", name |-> r.name, proc |-> "none"]
  BY DEF SlotOf, Slot!Broken
<1>1. ASSUME NEW n \in Names
      PROVE  SlotOf(ReserveVm(r, n)) = Slot!Claimed(SlotOf(r), n)
  <2>1. /\ ReserveVm(r, n).state = "Booting"
        /\ ReserveVm(r, n).name = n
        /\ ReserveVm(r, n).proc = r.proc
    BY DEF ReserveVm
  <2>2. Slot!Claimed(SlotOf(r), n)
          = [state |-> "Booting", name |-> n, proc |-> r.proc]
    BY DEF SlotOf, Slot!Claimed
  <2> QED
    BY <2>1, <2>2 DEF SlotOf
<1>2. SlotOf(MarkVmBooted(r)) = Slot!Booted(SlotOf(r))
  BY DEF SlotOf, MarkVmBooted, Slot!Booted
<1>3. SlotOf(ReleaseVm(r)) = Slot!FreshSlot
  <2>1. /\ ReleaseVm(r).state = "Empty" /\ ReleaseVm(r).name = NoName
        /\ ReleaseVm(r).proc = "none"
    BY DEF ReleaseVm
  <2> QED
    BY <1>v, <2>1 DEF SlotOf
<1>4. SlotOf(ResetVm(r)) = Slot!FreshSlot
  <2>1. /\ ResetVm(r).state = "Empty" /\ ResetVm(r).name = NoName
        /\ ResetVm(r).proc = "none"
    BY DEF ResetVm
  <2> QED
    BY <1>v, <2>1 DEF SlotOf
<1>5. SlotOf(SpawnOk(r)) = Slot!Spawned(SlotOf(r))
  BY DEF SlotOf, SpawnOk, Slot!Spawned
<1>6. r.proc = "none" => SlotOf(SpawnErr(r)) = Slot!Broken(SlotOf(r))
  <2>1. /\ SpawnErr(r).state = "Failed" /\ SpawnErr(r).name = r.name
        /\ SpawnErr(r).proc = r.proc
    BY DEF SpawnErr
  <2> QED
    BY <1>b, <2>1 DEF SlotOf
<1>7. SlotOf(ExitReaped(r)) = Slot!Reaped(SlotOf(r))
  BY DEF SlotOf, ExitReaped, Slot!Reaped, Slot!Tenanted, Slot!FreshSlot
<1>8. SlotOf(PollErr(r)) = Slot!Broken(SlotOf(r))
  <2>1. /\ PollErr(r).state = "Failed" /\ PollErr(r).name = r.name
        /\ PollErr(r).proc = "none"
    BY DEF PollErr
  <2> QED
    BY <1>b, <2>1 DEF SlotOf
<1>9. SlotOf(LoopLeft(r)) = Slot!Stopped(SlotOf(r))
  BY DEF SlotOf, LoopLeft, Slot!Stopped
<1> QED
  BY <1>1, <1>2, <1>3, <1>4, <1>5, <1>6, <1>7, <1>8, <1>9

(* A handled command is a claim, boot, release or reset, or changes no     *)
(* slot at all.                                                            *)
LEMMA CommandIsSlotEvent ==
  ASSUME IInv, pc # "done", pc' # "done", HandleCommand
  PROVE  Slot!Next \/ UNCHANGED <<slotBar, workerBar>>
<1> DEFINE m == Head(queue)
<1>0. rt \in Runtimes /\ m \in Commands
  <2>1. queue \in Seq(Commands) /\ queue # <<>>
    BY DEF IInv, TypeOK, HandleCommand
  <2> QED
    BY <2>1 DEF IInv, TypeOK
<1>1. PICK o \in Outcomes(rt, m) : rt' = o.runtime
  BY DEF HandleCommand
<1> HIDE DEF m
<1>2. workerBar = "running" /\ workerBar' = "running"
  BY DEF workerBar
<1>3. slotBar.state = rt.state
  BY DEF slotBar, SlotOf
<1>4. CASE rt' = rt
  BY <1>2, <1>4 DEF slotBar
<1>5. CASE /\ m.kind = "reserve" /\ rt.state = "Empty"
           /\ rt' = ReserveVm(rt, m.name)
  <2>1. m.name \in Names
    BY <1>0, <1>5 DEF Commands
  <2>2. Slot!Claim
    BY <1>0, <1>2, <1>3, <1>5, <2>1, OperatorsCommute
       DEF Slot!Claim, Slot!Becomes, slotBar
  <2> QED
    BY <2>2 DEF Slot!Next
<1>6. CASE rt.state = "Booting" /\ rt' = MarkVmBooted(rt)
  <2>1. Slot!Boot
    BY <1>0, <1>2, <1>3, <1>6, OperatorsCommute
       DEF Slot!Boot, Slot!Becomes, slotBar
  <2> QED
    BY <2>1 DEF Slot!Next
<1>7. CASE rt.state = "Occupied" /\ rt' = ReleaseVm(rt)
  <2>1. Slot!Release
    BY <1>0, <1>2, <1>3, <1>7, OperatorsCommute
       DEF Slot!Release, Slot!Becomes, slotBar
  <2> QED
    BY <2>1 DEF Slot!Next
<1>8. CASE rt' = ResetVm(rt)
  <2>1. Slot!Reset
    BY <1>0, <1>2, <1>8, OperatorsCommute DEF Slot!Reset, Slot!Becomes, slotBar
  <2> QED
    BY <2>1 DEF Slot!Next
<1>9. \/ rt' = rt
      \/ m.kind = "reserve" /\ rt.state = "Empty" /\ rt' = ReserveVm(rt, m.name)
      \/ rt.state = "Booting" /\ rt' = MarkVmBooted(rt)
      \/ rt.state = "Occupied" /\ rt' = ReleaseVm(rt)
      \/ rt' = ResetVm(rt)
  <2>1. m.kind \in {"status", "reserve", "boot", "release", "reset"}
    BY <1>0 DEF Commands
  <2> QED
    BY <1>1, <2>1 DEF Outcomes
<1> QED
  BY <1>4, <1>5, <1>6, <1>7, <1>8, <1>9

(* The end of the loop is the end of the slot's worker.                    *)
LEMMA LoopEndIsStop ==
  ASSUME IInv, pc # "done", LeaveLoop
  PROVE  Slot!Stop
BY OperatorsCommute DEF IInv, TypeOK, LeaveLoop, Slot!Stop, slotBar, workerBar

(* The loop implements the one-slot specification: whatever interleaves    *)
(* with it, each of its steps is one event on the slot or none.            *)
THEOREM Refinement == Spec => ImplementsSlot
<1>1. Init => Slot!Init
  BY DEF Init, Slot!Init, slotBar, workerBar, SlotOf, Slot!FreshSlot
<1>2. IInv /\ [Next]_vars => [Slot!Next]_<<slotBar, workerBar>>
  <2> SUFFICES ASSUME IInv, [Next]_vars
               PROVE  Slot!Next \/ UNCHANGED <<slotBar, workerBar>>
    OBVIOUS
  <2>0. rt \in Runtimes
    BY DEF IInv, TypeOK
  <2>1. pc # "done" => workerBar = "running"
    BY DEF workerBar
  <2>2. pc' # "done" => workerBar' = "running"
    BY DEF workerBar
  <2>3. slotBar.state = rt.state /\ slotBar.proc = rt.proc
    BY DEF slotBar, SlotOf
  <2>4. pc # "done" /\ pc' # "done" /\ rt' = rt
          => UNCHANGED <<slotBar, workerBar>>
    BY <2>1, <2>2 DEF slotBar
  <2> USE DEF Goto
  <2>5. CASE TopShutdown \/ SelectShutdown \/ SelectClosed
    BY <2>5, LoopEndIsStop DEF TopShutdown, SelectShutdown, SelectClosed, Slot!Next
  <2>6. CASE TopSpawn
    <3>1. Slot!Spawn \/ Slot!SpawnFails
      BY <2>0, <2>1, <2>2, <2>3, <2>6, OperatorsCommute
         DEF TopSpawn, ShouldSpawn, Slot!Spawn, Slot!SpawnFails,
             Slot!Becomes, slotBar
    <3> QED
      BY <3>1 DEF Slot!Next
  <2>7. CASE TopKeep \/ DrainEmpty \/ PollNothing \/ SelectSleep
    BY <2>4, <2>7 DEF TopKeep, DrainEmpty, PollNothing, SelectSleep
  <2>8. CASE DrainCommand \/ SelectCommand
    BY <2>8, CommandIsSlotEvent DEF DrainCommand, SelectCommand
  <2>9. CASE PollExited
    <3>1. Slot!Reap
      BY <2>0, <2>1, <2>2, <2>3, <2>9, OperatorsCommute
         DEF PollExited, Slot!Reap, Slot!Becomes, slotBar
    <3> QED
      BY <3>1 DEF Slot!Next
  <2>10. CASE PollFails
    <3>1. Slot!ReapFails
      BY <2>0, <2>1, <2>2, <2>3, <2>10, OperatorsCommute
         DEF PollFails, Slot!ReapFails, Slot!Becomes, slotBar
    <3> QED
      BY <3>1 DEF Slot!Next
  <2>11. CASE Listen
    <3>1. pc # "done" /\ pc' # "done"
      BY <2>11 DEF IInv, NothingLeftBehind, Listen
    <3>2. slotBar' = [slotBar EXCEPT !.proc = "serving"]
      BY <2>0, <2>11 DEF Listen, slotBar, SlotOf, Runtimes
    <3>3. Slot!Listen
      BY <2>1, <2>2, <2>3, <2>11, <3>1, <3>2 DEF Listen, Slot!Listen, Slot!Becomes
    <3> QED
      BY <3>3 DEF Slot!Next
  <2>12. CASE Exit
    <3>1. pc # "done" /\ pc' # "done"
      BY <2>12 DEF IInv, NothingLeftBehind, Exit
    <3>2. slotBar' = [slotBar EXCEPT !.proc = "exited"]
      BY <2>0, <2>12 DEF Exit, slotBar, SlotOf, Runtimes
    <3>3. Slot!Exit
      BY <2>1, <2>2, <2>3, <2>12, <3>1, <3>2
         DEF Exit, Slot!Exit, Slot!Alive, Slot!Becomes
    <3> QED
      BY <3>3 DEF Slot!Next
  <2>13. CASE \/ \E c \in Calls : Call(c) \/ Send(c) \/ SendClosed(c) \/ Abandon(c)
              \/ BroadcastShutdown \/ DropHandle \/ UNCHANGED vars
    <3>1. UNCHANGED <<rt, pc>>
      BY <2>13 DEF Call, Send, SendClosed, Abandon, BroadcastShutdown,
                   DropHandle, vars
    <3> QED
      BY <3>1 DEF slotBar, workerBar
  <2> QED
    BY <2>5, <2>6, <2>7, <2>8, <2>9, <2>10, <2>11, <2>12, <2>13
       DEF Next, Worker, Environment
<1> QED
  BY <1>1, <1>2, Invariance, PTL DEF Spec, ImplementsSlot, Slot!Spec, Slot!slotVars
=============================================================================
