----------------------------- MODULE DaemonProofs -----------------------------
(***************************************************************************)
(* For any number of slots, processes and restarts: who listens at the     *)
(* socket of a slot, and what a run of the daemon leaves behind.           *)
(***************************************************************************)
EXTENDS Daemon, FiniteSetTheorems, TLAPS

(* What a run that goes on has not got: an ending, and later runs.         *)
RunInv ==
  /\ main # "down" => run # 0 /\ ending[run] = "none"
  /\ \A r \in 1..MaxRuns : r > run => ending[r] = "none"
  /\ main = "down" => workers = {}

(* The child of a worker is a process of this run, at its slot.            *)
ChildInv ==
  \A i \in Slots : child[i] # NoVmm =>
    /\ i \in workers
    /\ vmm[child[i]].phase # "none"
    /\ vmm[child[i]].slot = i /\ vmm[child[i]].run = run

(* A process is of some run and of some slot; only children wait to be     *)
(* reaped; and unless the daemon is started too early, only children are   *)
(* about to listen while it runs.                                          *)
VmmInv ==
  \A v \in Vmms : vmm[v].phase # "none" =>
    /\ vmm[v].slot \in Slots /\ vmm[v].run \in 1..run
    /\ vmm[v].phase = "exited" => HasParent(v)
    /\ vmm[v].phase = "starting" /\ main # "down" => HasParent(v) \/ Hasty

(* A file that is listened at is of a process that serves it; one that a   *)
(* VMM of this run made belongs to a worker.                               *)
FileInv ==
  \A i \in Slots :
    /\ file[i].run <= run
    /\ file[i].vmm # NoVmm =>
         /\ vmm[file[i].vmm].phase = "serving"
         /\ vmm[file[i].vmm].slot = i /\ vmm[file[i].vmm].run = file[i].run
    /\ main # "down" /\ file[i].run = run => i \in workers

IInv ==
  /\ DaemonTypeOK /\ RunInv /\ ChildInv /\ VmmInv /\ FileInv
  /\ OwnSocket \/ Hasty
  /\ OrphansExplained /\ CleanEnd

(* The invariant holds before the first run.                               *)
LEMMA InitEstablishes == DaemonInit => IInv
<1> SUFFICES ASSUME DaemonInit PROVE IInv
  OBVIOUS
<1>1. DaemonTypeOK
  BY DaemonAssumption DEF DaemonInit, DaemonTypeOK, NoProcess, NoFile
<1>2. RunInv /\ ChildInv /\ VmmInv /\ FileInv
  BY DaemonAssumption DEF DaemonInit, RunInv, ChildInv, VmmInv, FileInv, NoProcess, NoFile
<1>3. OwnSocket /\ OrphansExplained /\ CleanEnd
  BY DEF DaemonInit, OwnSocket, OrphansExplained, CleanEnd, Lives, NoProcess
<1> QED
  BY <1>1, <1>2, <1>3 DEF IInv

(* The next slot of a pool below its maximum is one it may have. *)
LEMMA NextSlot ==
  ASSUME DaemonTypeOK, Cardinality(workers) < most
  PROVE  Cardinality(workers) + 1 \in 1..most
<1>1. most \in Nat
  BY DaemonAssumption DEF DaemonTypeOK
<1>2. IsFiniteSet(1..most)
  BY <1>1, FS_Interval
<1>3. IsFiniteSet(workers)
  BY <1>2, FS_Subset DEF DaemonTypeOK
<1>4. Cardinality(workers) \in Nat
  BY <1>3, FS_CardinalityType
<1> QED
  BY <1>1, <1>4

(* The slots of a run are slots of the directory. *)
LEMMA WorkersAreSlots ==
  ASSUME DaemonTypeOK
  PROVE  workers \subseteq Slots /\ Slots \subseteq Nat \ {0}
<1>1. most \in Sizes \/ workers = {}
  BY DEF DaemonTypeOK
<1>2. Slots \subseteq Nat \ {0}
  BY DaemonAssumption DEF Slots
<1> QED
  BY <1>1, <1>2 DEF DaemonTypeOK, Slots

-----------------------------------------------------------------------------
(* main *)

(* The start of a run keeps the invariant.                                 *)
LEMMA StartKeeps ==
  ASSUME IInv, NEW least \in Sizes, NEW max \in Sizes \cup {0}, Start(least, max)
  PROVE  IInv'
<1> USE DEF IInv
<1>1. /\ main = "down" /\ main' = "pool" /\ run \in Nat /\ run < MaxRuns
      /\ run' = run + 1 /\ run' \in 1..MaxRuns /\ workers = {} /\ workers' = 1..least
      /\ Hasty \/ \A v \in Vmms : vmm[v].phase # "starting"
      /\ UNCHANGED <<child, vmm, file, ending>>
  BY DaemonAssumption DEF Start, DaemonTypeOK, RunInv
<1>2. DaemonTypeOK'
  <2>1. most' \in Sizes /\ workers' \subseteq 1..most'
    BY DaemonAssumption DEF Start, Accepted
  <2> QED
    BY <1>1, <2>1 DEF DaemonTypeOK
<1>3. \A i \in Slots : child[i] = NoVmm
  BY <1>1 DEF ChildInv
<1>4. RunInv'
  BY <1>1, DaemonAssumption DEF RunInv, DaemonTypeOK
<1>5. ChildInv'
  BY <1>1, <1>3 DEF ChildInv
<1>6. VmmInv'
  <2> SUFFICES ASSUME NEW v \in Vmms, vmm[v].phase # "none"
               PROVE  /\ vmm[v].slot \in Slots /\ vmm[v].run \in 1..run + 1
                      /\ vmm[v].phase = "exited" => HasParent(v)
                      /\ vmm[v].phase = "starting" => HasParent(v) \/ Hasty
    BY <1>1 DEF VmmInv, HasParent
  <2> QED
    BY <1>1 DEF VmmInv
<1>7. FileInv'
  BY <1>1, DaemonAssumption DEF FileInv, DaemonTypeOK
<1>8. (OwnSocket \/ Hasty)' /\ OrphansExplained' /\ CleanEnd'
  BY <1>1, <1>3 DEF OwnSocket, OrphansExplained, CleanEnd, HasParent, Lives
<1> QED
  BY <1>2, <1>4, <1>5, <1>6, <1>7, <1>8

(* What changes nothing but what main does, or adds a worker. *)
LEMMA MainKeeps ==
  ASSUME IInv, Binds \/ Extends \/ Signalled
  PROVE  IInv'
<1> USE DEF IInv
<1>1. /\ main # "down" /\ main' \in {"serve", "stop"} /\ workers \subseteq workers'
      /\ workers' \subseteq 1..most
      /\ UNCHANGED <<run, most, child, vmm, file, ending>>
  BY NextSlot DEF Binds, Extends, Signalled, DaemonTypeOK
<1>2. DaemonTypeOK' /\ RunInv' /\ ChildInv'
  BY <1>1 DEF DaemonTypeOK, RunInv, ChildInv
<1>3. VmmInv' /\ FileInv'
  BY <1>1 DEF VmmInv, FileInv, HasParent
<1>4. (OwnSocket \/ Hasty)' /\ OrphansExplained' /\ CleanEnd'
  BY <1>1 DEF OwnSocket, OrphansExplained, CleanEnd, HasParent, Lives
<1> QED
  BY <1>2, <1>3, <1>4

(* A run ends; clean is how one ends that has no worker any more. *)
LEMMA EndKeeps ==
  ASSUME IInv, NEW how \in {"clean", "unbound", "killed"}, Ends(how),
         main # "down", how = "clean" => workers = {}
  PROVE  IInv'
<1> USE DEF IInv
<1>1. /\ main' = "down" /\ run \in 1..MaxRuns /\ workers' = {}
      /\ ending' = [ending EXCEPT ![run] = how]
      /\ child' = [i \in Slots |-> NoVmm]
      /\ \A v \in Vmms : vmm'[v] = IF Lives(v) THEN vmm[v] ELSE NoProcess
      /\ UNCHANGED <<run, most, file>>
  BY DaemonAssumption DEF Ends, DaemonTypeOK, RunInv
<1>2. DaemonTypeOK'
  <2>1. vmm' \in [Vmms -> [phase : {"none", "starting", "serving", "exited"},
                          slot : Slots \cup {0}, run : 0..MaxRuns]]
    BY DaemonAssumption DEF Ends, DaemonTypeOK, NoProcess
  <2> QED
    BY <1>1, <2>1 DEF DaemonTypeOK
<1>3. /\ ending'[run] = how
      /\ \A r \in 1..MaxRuns : r # run => ending'[r] = ending[r]
  BY <1>1 DEF DaemonTypeOK
<1>4. RunInv' /\ ChildInv'
  BY <1>1, <1>3 DEF RunInv, ChildInv, DaemonTypeOK
<1>5. \A v \in Vmms : vmm'[v].phase # "none" => Lives(v) /\ vmm'[v] = vmm[v]
  BY <1>1 DEF NoProcess
<1>6. VmmInv'
  BY <1>1, <1>5 DEF VmmInv, Lives
<1>7. FileInv'
  <2> SUFFICES ASSUME NEW i \in Slots, file[i].vmm # NoVmm
               PROVE  vmm'[file[i].vmm] = vmm[file[i].vmm]
    BY <1>1 DEF FileInv
  <2>1. file[i].vmm \in Vmms
    BY DEF DaemonTypeOK
  <2> QED
    BY <1>1, <2>1 DEF FileInv, Lives
<1>8. OwnSocket'
  BY <1>1 DEF OwnSocket
<1>9. OrphansExplained'
  <2> SUFFICES ASSUME NEW v \in Vmms, Lives(v)' PROVE ending'[vmm'[v].run] \in {"unbound", "killed"}
    BY DEF OrphansExplained
  <2>1. Lives(v) /\ vmm'[v] = vmm[v] /\ vmm[v].run \in 1..run
    BY <1>5 DEF Lives, VmmInv
  <2>2. CASE HasParent(v)
    <3>1. vmm[v].run = run /\ workers # {}
      BY <2>2, DaemonAssumption DEF HasParent, ChildInv
    <3> QED
      BY <1>3, <2>1, <3>1
  <2>3. CASE ~HasParent(v)
    <3>1. ending[vmm[v].run] \in {"unbound", "killed"}
      BY <2>1, <2>3 DEF OrphansExplained
    <3>2. vmm[v].run # run
      BY <3>1 DEF RunInv
    <3> QED
      BY <1>1, <1>3, <2>1, <3>1, <3>2
  <2> QED
    BY <2>2, <2>3
<1>10. CleanEnd'
  <2> SUFFICES ASSUME NEW r \in 1..MaxRuns, ending'[r] = "clean", NEW i \in Slots
               PROVE  file[i].run # r
    BY <1>1 DEF CleanEnd
  <2>1. CASE r = run
    BY <1>3, <2>1 DEF FileInv
  <2>2. CASE r # run
    BY <1>3, <2>2 DEF CleanEnd
  <2> QED
    BY <2>1, <2>2
<1> QED
  BY <1>2, <1>4, <1>6, <1>7, <1>8, <1>9, <1>10

-----------------------------------------------------------------------------
(* The workers and the VMMs. *)

(* A worker that starts a VMM, after it has removed the socket file in its *)
(* way, keeps the invariant.                                               *)
LEMMA SpawnKeeps ==
  ASSUME IInv, NEW i \in Slots, NEW v \in Vmms, Spawns(i, v)
  PROVE  IInv'
<1> USE DEF IInv
<1>1. /\ i \in workers /\ child[i] = NoVmm /\ vmm[v].phase = "none"
      /\ main # "down" /\ run \in 1..MaxRuns
      /\ UNCHANGED <<main, run, workers, most, ending>>
  BY DaemonAssumption DEF Spawns, mainVars, RunInv, DaemonTypeOK
<1>2. /\ child'[i] = v /\ \A j \in Slots : j # i => child'[j] = child[j]
      /\ child' \in [Slots -> Vmms \cup {NoVmm}]
  BY DEF Spawns, DaemonTypeOK
<1>3. /\ vmm'[v] = [phase |-> "starting", slot |-> i, run |-> run]
      /\ \A u \in Vmms : u # v => vmm'[u] = vmm[u]
      /\ vmm' \in [Vmms -> [phase : {"none", "starting", "serving", "exited"},
                            slot : Slots \cup {0}, run : 0..MaxRuns]]
  BY <1>1 DEF Spawns, DaemonTypeOK
<1>4. /\ file'[i] = NoFile /\ \A j \in Slots : j # i => file'[j] = file[j]
      /\ file' \in [Slots -> [vmm : Vmms \cup {NoVmm}, run : 0..MaxRuns]]
  BY DaemonAssumption DEF Spawns, DaemonTypeOK, NoFile
<1>5. DaemonTypeOK' /\ RunInv'
  BY <1>1, <1>2, <1>3, <1>4 DEF DaemonTypeOK, RunInv
<1>6. \A j \in Slots : child[j] # v
  BY <1>1, DaemonAssumption DEF ChildInv
<1>7. ChildInv'
  <2> SUFFICES ASSUME NEW j \in Slots, child'[j] # NoVmm
               PROVE  /\ j \in workers /\ vmm'[child'[j]].phase # "none"
                      /\ vmm'[child'[j]].slot = j /\ vmm'[child'[j]].run = run
    BY <1>1 DEF ChildInv
  <2>1. CASE j = i
    BY <1>1, <1>2, <1>3, <2>1
  <2>2. CASE j # i
    <3>1. child'[j] = child[j] /\ child[j] \in Vmms /\ child[j] # v
      BY <1>2, <1>6, <2>2 DEF DaemonTypeOK
    <3> QED
      BY <1>3, <3>1 DEF ChildInv
  <2> QED
    BY <2>1, <2>2
<1>8. \A u \in Vmms : HasParent(u) => HasParent(u)'
  BY <1>1, <1>2, DaemonAssumption DEF HasParent
<1>9. VmmInv'
  <2> SUFFICES ASSUME NEW u \in Vmms, vmm'[u].phase # "none"
               PROVE  /\ vmm'[u].slot \in Slots /\ vmm'[u].run \in 1..run
                      /\ vmm'[u].phase = "exited" => HasParent(u)'
                      /\ vmm'[u].phase = "starting" => HasParent(u)' \/ Hasty
    BY <1>1 DEF VmmInv
  <2>1. CASE u = v
    BY <1>1, <1>2, <1>3, <2>1, DaemonAssumption DEF HasParent
  <2>2. CASE u # v
    BY <1>1, <1>3, <1>8, <2>2 DEF VmmInv
  <2> QED
    BY <2>1, <2>2
<1>10. FileInv'
  <2> SUFFICES ASSUME NEW j \in Slots
               PROVE  /\ file'[j].run <= run
                      /\ file'[j].vmm # NoVmm =>
                           /\ vmm'[file'[j].vmm].phase = "serving"
                           /\ vmm'[file'[j].vmm].slot = j
                           /\ vmm'[file'[j].vmm].run = file'[j].run
                      /\ file'[j].run = run => j \in workers
    BY <1>1 DEF FileInv
  <2>1. CASE j = i
    BY <1>1, <1>4, <2>1 DEF NoFile
  <2>2. CASE j # i
    <3>1. file'[j] = file[j] /\ (file[j].vmm # NoVmm => file[j].vmm \in Vmms /\ file[j].vmm # v)
      BY <1>1, <1>4, <2>2 DEF FileInv, DaemonTypeOK
    <3> QED
      BY <1>1, <1>3, <3>1 DEF FileInv
  <2> QED
    BY <2>1, <2>2
<1>11. (OwnSocket \/ Hasty)'
  BY <1>2, <1>4 DEF OwnSocket, NoFile
<1>12. OrphansExplained'
  BY <1>1, <1>2, <1>3, <1>8, DaemonAssumption DEF OrphansExplained, Lives, HasParent
<1>13. CleanEnd'
  BY <1>1, <1>4 DEF CleanEnd, NoFile
<1> QED
  BY <1>5, <1>7, <1>9, <1>10, <1>11, <1>12, <1>13

(* The socket files without those of one VMM.                              *)
LEMMA FilesTyped ==
  ASSUME DaemonTypeOK, NEW v
  PROVE  /\ FilesWithout(v) \in [Slots -> [vmm : Vmms \cup {NoVmm}, run : 0..MaxRuns]]
         /\ \A j \in Slots :
              /\ FilesWithout(v)[j].run = file[j].run
              /\ FilesWithout(v)[j].vmm = IF file[j].vmm = v THEN NoVmm ELSE file[j].vmm
<1> SUFFICES ASSUME NEW j \in Slots
             PROVE  /\ FilesWithout(v)[j] \in [vmm : Vmms \cup {NoVmm}, run : 0..MaxRuns]
                    /\ FilesWithout(v)[j].run = file[j].run
                    /\ FilesWithout(v)[j].vmm = IF file[j].vmm = v THEN NoVmm ELSE file[j].vmm
  BY DEF FilesWithout
<1>1. file[j] \in [vmm : Vmms \cup {NoVmm}, run : 0..MaxRuns]
  BY DEF DaemonTypeOK
<1> QED
  BY <1>1 DEF FilesWithout

(* A worker is rid of its child, and goes on or ends. *)
LEMMA ChildGoneKeeps ==
  ASSUME IInv, NEW i \in Slots, ChildGone(i), i \in workers,
         workers' = workers \/ workers' = workers \ {i},
         UNCHANGED <<main, run, most, ending>>
  PROVE  IInv'
<1> USE DEF IInv
<1>1. main # "down" /\ run \in 1..MaxRuns
  BY DaemonAssumption DEF RunInv, DaemonTypeOK
<1>2. /\ child'[i] = NoVmm /\ \A j \in Slots : j # i => child'[j] = child[j]
      /\ child' \in [Slots -> Vmms \cup {NoVmm}]
  BY DEF ChildGone, DaemonTypeOK
<1>3. /\ \A v \in Vmms : vmm'[v] = IF v = child[i] THEN NoProcess ELSE vmm[v]
      /\ vmm' \in [Vmms -> [phase : {"none", "starting", "serving", "exited"},
                            slot : Slots \cup {0}, run : 0..MaxRuns]]
  BY DaemonAssumption DEF ChildGone, DaemonTypeOK, NoProcess
<1>4. /\ file'[i] = NoFile
      /\ \A j \in Slots : j # i => file'[j] = FilesWithout(child[i])[j]
      /\ file' \in [Slots -> [vmm : Vmms \cup {NoVmm}, run : 0..MaxRuns]]
  <2>1. /\ FilesWithout(child[i]) \in [Slots -> [vmm : Vmms \cup {NoVmm}, run : 0..MaxRuns]]
        /\ NoFile \in [vmm : Vmms \cup {NoVmm}, run : 0..MaxRuns]
    BY DaemonAssumption, FilesTyped DEF DaemonTypeOK, NoFile
  <2> QED
    BY <2>1 DEF ChildGone
<1>5. \A j \in Slots : j # i /\ child[i] # NoVmm => file[j].vmm # child[i]
  BY DEF FileInv, ChildInv
<1>6. \A j \in Slots : j # i =>
        file'[j].vmm = file[j].vmm /\ file'[j].run = file[j].run
  BY <1>4, <1>5 DEF FilesWithout, DaemonTypeOK
<1>7. DaemonTypeOK' /\ RunInv'
  BY <1>1, <1>2, <1>3, <1>4 DEF DaemonTypeOK, RunInv
<1>8. \A j \in Slots : j # i /\ child[j] # NoVmm => child[j] # child[i]
  BY DEF ChildInv
<1>9. ChildInv'
  <2> SUFFICES ASSUME NEW j \in Slots, child'[j] # NoVmm
               PROVE  /\ j \in workers' /\ vmm'[child'[j]].phase # "none"
                      /\ vmm'[child'[j]].slot = j /\ vmm'[child'[j]].run = run
    BY DEF ChildInv
  <2>1. j # i /\ child'[j] = child[j] /\ child[j] \in Vmms
    BY <1>2 DEF DaemonTypeOK
  <2> QED
    BY <1>3, <1>8, <2>1 DEF ChildInv
<1>10. \A v \in Vmms : vmm'[v].phase # "none" =>
         vmm'[v] = vmm[v] /\ v # child[i] /\ (HasParent(v) => HasParent(v)')
  BY <1>2, <1>3 DEF NoProcess, HasParent
<1>11. VmmInv'
  BY <1>1, <1>10 DEF VmmInv
<1>12. FileInv'
  <2> SUFFICES ASSUME NEW j \in Slots
               PROVE  /\ file'[j].run <= run
                      /\ file'[j].vmm # NoVmm =>
                           /\ vmm'[file'[j].vmm].phase = "serving"
                           /\ vmm'[file'[j].vmm].slot = j
                           /\ vmm'[file'[j].vmm].run = file'[j].run
                      /\ file'[j].run = run => j \in workers'
    BY <1>1 DEF FileInv
  <2>1. CASE j = i
    BY <1>1, <1>4, <2>1 DEF NoFile
  <2>2. CASE j # i
    <3>1. file'[j].vmm # NoVmm => file[j].vmm \in Vmms /\ file[j].vmm # child[i]
      BY <1>5, <1>6, <2>2 DEF DaemonTypeOK
    <3> QED
      BY <1>1, <1>3, <1>6, <2>2, <3>1 DEF FileInv
  <2> QED
    BY <2>1, <2>2
<1>13. (OwnSocket \/ Hasty)'
  BY <1>2, <1>6 DEF OwnSocket
<1>14. OrphansExplained'
  <2> SUFFICES ASSUME NEW v \in Vmms, Lives(v)', ~HasParent(v)'
               PROVE  ending[vmm'[v].run] \in {"unbound", "killed"}
    BY DEF OrphansExplained
  <2> QED
    BY <1>10 DEF OrphansExplained, Lives
<1>15. CleanEnd'
  BY <1>1, <1>4, <1>6 DEF CleanEnd, NoFile
<1> QED
  BY <1>7, <1>9, <1>11, <1>12, <1>13, <1>14, <1>15

(* A VMM that binds its socket, or finds the path taken and ends, keeps    *)
(* the invariant.                                                          *)
LEMMA ListenKeeps ==
  ASSUME IInv, NEW v \in Vmms, VmmListens(v)
  PROVE  IInv'
<1> USE DEF IInv
<1> DEFINE i == vmm[v].slot
<1>1. /\ vmm[v].phase = "starting" /\ i \in Slots /\ vmm[v].run \in 1..run
      /\ UNCHANGED <<main, run, workers, most, child, ending>>
  BY DEF VmmListens, mainVars, VmmInv
<1>2. /\ vmm'[v].phase = "serving" /\ vmm'[v].slot = i /\ vmm'[v].run = vmm[v].run
      /\ \A u \in Vmms : u # v => vmm'[u] = vmm[u]
      /\ vmm' \in [Vmms -> [phase : {"none", "starting", "serving", "exited"},
                            slot : Slots \cup {0}, run : 0..MaxRuns]]
  BY DEF VmmListens, DaemonTypeOK
<1>3. /\ file'[i] = [vmm |-> v, run |-> vmm[v].run]
      /\ \A j \in Slots : j # i => file'[j] = file[j]
      /\ file' \in [Slots -> [vmm : Vmms \cup {NoVmm}, run : 0..MaxRuns]]
  BY <1>1 DEF VmmListens, DaemonTypeOK
<1>4. DaemonTypeOK' /\ RunInv'
  BY <1>1, <1>2, <1>3 DEF DaemonTypeOK, RunInv
<1>5. ChildInv'
  <2> SUFFICES ASSUME NEW j \in Slots, child[j] # NoVmm
               PROVE  /\ j \in workers /\ vmm'[child[j]].phase # "none"
                      /\ vmm'[child[j]].slot = j /\ vmm'[child[j]].run = run
    BY <1>1 DEF ChildInv
  <2>1. child[j] \in Vmms
    BY DEF DaemonTypeOK
  <2>2. CASE child[j] = v
    BY <1>2, <2>2 DEF ChildInv
  <2>3. CASE child[j] # v
    BY <1>2, <2>1, <2>3 DEF ChildInv
  <2> QED
    BY <2>2, <2>3
<1>6. \A u \in Vmms : HasParent(u)' <=> HasParent(u)
  BY <1>1 DEF HasParent
<1>7. VmmInv'
  <2> SUFFICES ASSUME NEW u \in Vmms, vmm'[u].phase # "none"
               PROVE  /\ vmm'[u].slot \in Slots /\ vmm'[u].run \in 1..run
                      /\ vmm'[u].phase = "exited" => HasParent(u)
                      /\ vmm'[u].phase = "starting" /\ main # "down" => HasParent(u) \/ Hasty
    BY <1>1, <1>6 DEF VmmInv
  <2>1. CASE u = v
    BY <1>1, <1>2, <2>1
  <2>2. CASE u # v
    BY <1>2, <2>2 DEF VmmInv
  <2> QED
    BY <2>1, <2>2
<1>8. HasParent(v) => child[i] = v
  BY DaemonAssumption DEF HasParent, ChildInv
<1>9. HasParent(v) \/ ending[vmm[v].run] \in {"unbound", "killed"}
  BY <1>1 DEF OrphansExplained, Lives
<1>10. FileInv'
  <2> SUFFICES ASSUME NEW j \in Slots
               PROVE  /\ file'[j].run <= run
                      /\ file'[j].vmm # NoVmm =>
                           /\ vmm'[file'[j].vmm].phase = "serving"
                           /\ vmm'[file'[j].vmm].slot = j
                           /\ vmm'[file'[j].vmm].run = file'[j].run
                      /\ main # "down" /\ file'[j].run = run => j \in workers
    BY <1>1 DEF FileInv
  <2>1. CASE j = i
    <3>1. main # "down" /\ vmm[v].run = run => child[i] = v
      BY <1>8, <1>9 DEF RunInv
    <3>2. child[i] = v => i \in workers
      BY <1>1, DaemonAssumption DEF ChildInv
    <3>3. vmm[v].run <= run
      BY <1>1, DaemonAssumption DEF DaemonTypeOK
    <3> QED
      BY <1>1, <1>2, <1>3, <2>1, <3>1, <3>2, <3>3
  <2>2. CASE j # i
    <3>1. file'[j] = file[j] /\ (file[j].vmm # NoVmm => file[j].vmm \in Vmms /\ file[j].vmm # v)
      BY <1>1, <1>3, <2>2 DEF FileInv, DaemonTypeOK
    <3> QED
      BY <1>1, <1>2, <3>1 DEF FileInv
  <2> QED
    BY <2>1, <2>2
<1>11. (OwnSocket \/ Hasty)'
  <2> SUFFICES ASSUME ~Hasty, NEW j \in Slots, child[j] # NoVmm
               PROVE  file'[j].vmm \in {child[j], NoVmm}
    BY <1>1 DEF OwnSocket
  <2>1. CASE j = i
    <3>1. main # "down"
      BY <2>1 DEF ChildInv, RunInv
    <3>2. HasParent(v)
      BY <1>1, <3>1 DEF VmmInv
    <3> QED
      BY <1>1, <1>3, <1>8, <2>1, <3>2
  <2>2. CASE j # i
    BY <1>3, <2>2 DEF OwnSocket
  <2> QED
    BY <2>1, <2>2
<1>12. OrphansExplained'
  <2> SUFFICES ASSUME NEW u \in Vmms, Lives(u)', ~HasParent(u)
               PROVE  ending[vmm'[u].run] \in {"unbound", "killed"}
    BY <1>1, <1>6 DEF OrphansExplained
  <2>1. CASE u = v
    BY <1>2, <1>9, <2>1
  <2>2. CASE u # v
    BY <1>2, <2>2 DEF OrphansExplained, Lives
  <2> QED
    BY <2>1, <2>2
<1>13. CleanEnd'
  <2> SUFFICES ASSUME NEW r \in 1..MaxRuns, ending[r] = "clean", NEW j \in Slots
               PROVE  file'[j].run # r
    BY <1>1 DEF CleanEnd
  <2>1. CASE j = i
    <3>1. HasParent(v) => vmm[v].run = run /\ ending[run] = "none"
      <4> SUFFICES ASSUME HasParent(v) PROVE vmm[v].run = run /\ ending[run] = "none"
        OBVIOUS
      <4>1. child[i] = v /\ child[i] # NoVmm
        BY <1>8, DaemonAssumption
      <4> QED
        BY <1>1, <4>1 DEF ChildInv, RunInv
    <3> QED
      BY <1>1, <1>3, <1>9, <2>1, <3>1
  <2>2. CASE j # i
    BY <1>3, <2>2 DEF CleanEnd
  <2> QED
    BY <2>1, <2>2
<1> QED
  BY <1>4, <1>5, <1>7, <1>10, <1>11, <1>12, <1>13

(* A VMM that ends by itself keeps the invariant.                          *)
LEMMA ExitKeeps ==
  ASSUME IInv, NEW v \in Vmms, VmmExits(v)
  PROVE  IInv'
<1> USE DEF IInv
<1>1. Lives(v) /\ UNCHANGED <<main, run, workers, most, child, ending>>
  BY DEF VmmExits, mainVars
<1>2. /\ vmm'[v] = IF HasParent(v) THEN [vmm[v] EXCEPT !.phase = "exited"] ELSE NoProcess
      /\ \A u \in Vmms : u # v => vmm'[u] = vmm[u]
  BY DEF VmmExits, DaemonTypeOK
<1>3. vmm' \in [Vmms -> [phase : {"none", "starting", "serving", "exited"},
                         slot : Slots \cup {0}, run : 0..MaxRuns]]
  <2> DEFINE Processes == [phase : {"none", "starting", "serving", "exited"},
                           slot : Slots \cup {0}, run : 0..MaxRuns]
  <2>1. vmm[v] \in Processes
    BY DEF DaemonTypeOK
  <2>2. [vmm[v] EXCEPT !.phase = "exited"] \in Processes
    BY <2>1
  <2>3. NoProcess \in Processes
    BY DaemonAssumption DEF NoProcess
  <2> QED
    BY <2>2, <2>3 DEF VmmExits, DaemonTypeOK
<1>4. /\ \A j \in Slots : /\ file'[j].run = file[j].run
                          /\ file'[j].vmm = IF file[j].vmm = v THEN NoVmm ELSE file[j].vmm
      /\ file' \in [Slots -> [vmm : Vmms \cup {NoVmm}, run : 0..MaxRuns]]
  BY DEF VmmExits, FilesWithout, DaemonTypeOK
<1>5. DaemonTypeOK' /\ RunInv'
  BY <1>1, <1>3, <1>4 DEF DaemonTypeOK, RunInv
<1>6. \A u \in Vmms : HasParent(u)' <=> HasParent(u)
  BY <1>1 DEF HasParent
<1>7. HasParent(v) => vmm'[v].phase = "exited" /\ vmm'[v].slot = vmm[v].slot
                        /\ vmm'[v].run = vmm[v].run
  BY <1>2 DEF DaemonTypeOK
<1>8. ChildInv'
  <2> SUFFICES ASSUME NEW j \in Slots, child[j] # NoVmm
               PROVE  /\ j \in workers /\ vmm'[child[j]].phase # "none"
                      /\ vmm'[child[j]].slot = j /\ vmm'[child[j]].run = run
    BY <1>1 DEF ChildInv
  <2>1. CASE child[j] = v
    BY <1>7, <2>1 DEF ChildInv, HasParent
  <2>2. CASE child[j] # v
    BY <1>2, <2>2 DEF ChildInv, DaemonTypeOK
  <2> QED
    BY <2>1, <2>2
<1>9. VmmInv'
  <2> SUFFICES ASSUME NEW u \in Vmms, vmm'[u].phase # "none"
               PROVE  /\ vmm'[u].slot \in Slots /\ vmm'[u].run \in 1..run
                      /\ vmm'[u].phase = "exited" => HasParent(u)
                      /\ vmm'[u].phase = "starting" /\ main # "down" => HasParent(u) \/ Hasty
    BY <1>1, <1>6 DEF VmmInv
  <2>1. CASE u = v
    <3>1. HasParent(v)
      BY <1>2, <2>1 DEF NoProcess
    <3> QED
      BY <1>1, <1>7, <2>1, <3>1 DEF VmmInv, Lives
  <2>2. CASE u # v
    BY <1>2, <2>2 DEF VmmInv
  <2> QED
    BY <2>1, <2>2
<1>10. FileInv'
  <2> SUFFICES ASSUME NEW j \in Slots, file'[j].vmm # NoVmm
               PROVE  vmm'[file'[j].vmm] = vmm[file[j].vmm] /\ file'[j].vmm = file[j].vmm
    BY <1>1, <1>4 DEF FileInv
  <2>1. file[j].vmm # v /\ file'[j].vmm = file[j].vmm /\ file[j].vmm \in Vmms
    BY <1>4 DEF DaemonTypeOK
  <2> QED
    BY <1>2, <2>1
<1>11. (OwnSocket \/ Hasty)' /\ CleanEnd'
  BY <1>1, <1>4 DEF OwnSocket, CleanEnd
<1>12. OrphansExplained'
  <2> SUFFICES ASSUME NEW u \in Vmms, Lives(u)', ~HasParent(u)
               PROVE  ending[vmm'[u].run] \in {"unbound", "killed"}
    BY <1>1, <1>6 DEF OrphansExplained
  <2>1. u # v
    BY <1>2 DEF Lives, NoProcess
  <2> QED
    BY <1>2, <2>1 DEF OrphansExplained, Lives
<1> QED
  BY <1>5, <1>8, <1>9, <1>10, <1>11, <1>12

-----------------------------------------------------------------------------

(* The inductive invariant of the daemon's runs: what main, the workers,   *)
(* the processes and the socket files each know of the others, over any    *)
(* number of runs on one runtime directory.                                *)
THEOREM Invariance == DaemonSpec => []IInv
<1>1. IInv /\ [DaemonNext]_daemonVars => IInv'
  <2> SUFFICES ASSUME IInv, [DaemonNext]_daemonVars PROVE IInv'
    OBVIOUS
  <2>1. ASSUME NEW least \in Sizes, NEW max \in Sizes \cup {0}, Start(least, max)
        PROVE  IInv'
    BY <2>1, StartKeeps
  <2>2. CASE Binds \/ Extends \/ Signalled
    BY <2>2, MainKeeps
  <2>3. CASE BindRefused
    BY <2>3, EndKeeps DEF BindRefused
  <2>4. CASE Killed
    BY <2>4, EndKeeps DEF Killed
  <2>5. CASE Stops
    BY <2>5, EndKeeps DEF Stops
  <2>6. ASSUME NEW i \in Slots, Reaps(i) \/ Recycles(i) \/ WorkerEnds(i) PROVE IInv'
    BY <2>6, ChildGoneKeeps DEF Reaps, Recycles, WorkerEnds, mainVars
  <2>7. ASSUME NEW i \in Slots, NEW v \in Vmms, Spawns(i, v) PROVE IInv'
    BY <2>7, SpawnKeeps
  <2>8. ASSUME NEW v \in Vmms, VmmListens(v) \/ VmmExits(v) PROVE IInv'
    BY <2>8, ListenKeeps, ExitKeeps
  <2>9. CASE UNCHANGED daemonVars
    BY <2>9 DEF daemonVars, IInv, DaemonTypeOK, RunInv, ChildInv, VmmInv, FileInv,
                OwnSocket, OrphansExplained, CleanEnd, Lives, HasParent
  <2> QED
    BY <2>1, <2>2, <2>3, <2>4, <2>5, <2>6, <2>7, <2>8, <2>9 DEF DaemonNext
<1> QED
  BY <1>1, InitEstablishes, PTL DEF DaemonSpec

(* The variables of the daemon have their types. *)
THEOREM DaemonTypesHold == DaemonSpec => []DaemonTypeOK
<1>1. IInv => DaemonTypeOK
  BY DEF IInv
<1> QED
  BY <1>1, Invariance, PTL

(* However often it is killed or fails to bind, once the daemon waits for  *)
(* what is about to listen of earlier runs, a connection to the socket of  *)
(* a slot with a child reaches that child.                                 *)
THEOREM SocketsAreOwn == ~Hasty => (DaemonSpec => []OwnSocket)
<1> SUFFICES ASSUME ~Hasty PROVE DaemonSpec => []OwnSocket
  OBVIOUS
<1>1. IInv => OwnSocket
  BY DEF IInv
<1> QED
  BY <1>1, Invariance, PTL

(* A VMM without a worker is of a run that was killed or could not bind,   *)
(* also if the daemon is started too early.                                *)
THEOREM OrphansAreExplained == DaemonSpec => []OrphansExplained
<1>1. IInv => OrphansExplained
  BY DEF IInv
<1> QED
  BY <1>1, Invariance, PTL

(* A run that shuts down leaves no socket that a VMM of its has made.      *)
THEOREM EndsAreClean == DaemonSpec => []CleanEnd
<1>1. IInv => CleanEnd
  BY DEF IInv
<1> QED
  BY <1>1, Invariance, PTL
=============================================================================
