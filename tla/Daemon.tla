-------------------------------- MODULE Daemon --------------------------------
(***************************************************************************)
(* The life of src/main.rs over its restarts on one runtime directory: the *)
(* workers of a run, the VMMs they start, and the API sockets in the       *)
(* directory, which outlive a run that ends without shutting its pool down *)
(* as its VMMs do.                                                         *)
(*                                                                         *)
(* Of a worker only what it does to its child and its socket is modelled;  *)
(* SlotSupervisor has the rest. The pool grows and does not shrink.  The   *)
(* child of a worker can always be polled.                                 *)
(***************************************************************************)
EXTENDS Naturals, FiniteSets

CONSTANTS
  Vmms,       (* processes of VMMs                                         *)
  NoVmm,      (* none                                                      *)
  Sizes,      (* bound: the numbers that --pool-size may be given          *)
  MaxRuns,    (* bound: how often the daemon is started                    *)
  Hasty       (* whether it may be started while VMMs of an earlier run    *)
              (* are still starting                                        *)

ASSUME DaemonAssumption ==
  /\ NoVmm \notin Vmms
  /\ Sizes \subseteq Nat /\ IsFiniteSet(Sizes)
  /\ MaxRuns \in Nat /\ Hasty \in BOOLEAN

(* No daemon of a run has more slots. *)
Slots == UNION {1..n : n \in Sizes}

VARIABLES
  main,     (* "down", "pool" before it listens, "serve" or "stop"          *)
  run,      (* the number of this run, or of the last                       *)
  workers,  (* the slots whose workers are there                            *)
  most,     (* its --max-pool-size                                          *)
  child,    (* the child of the worker of each slot                         *)
  vmm,      (* the processes                                                *)
  file,     (* the socket file of each slot: who listens, and of which run  *)
            (* the process is that made it                                  *)
  ending    (* how each run has ended, "none" if it has not                 *)

daemonVars == <<main, run, workers, most, child, vmm, file, ending>>
mainVars == <<main, run, workers, most, ending>>

(* No file. The file of a process that is gone stays, and nobody listens.  *)
NoFile == [vmm |-> NoVmm, run |-> 0]

(* A process that has exited waits for its parent; one that has no parent  *)
(* does not exist any longer.                                              *)
NoProcess == [phase |-> "none", slot |-> 0, run |-> 0]

Lives(v) == vmm[v].phase \in {"starting", "serving"}

HasParent(v) == \E i \in Slots : child[i] = v

DaemonTypeOK ==
  /\ main \in {"down", "pool", "serve", "stop"}
  /\ run \in 0..MaxRuns
  /\ workers \subseteq 1..most /\ most \in Sizes \cup {0}
  /\ child \in [Slots -> Vmms \cup {NoVmm}]
  /\ vmm \in [Vmms -> [phase : {"none", "starting", "serving", "exited"},
                       slot : Slots \cup {0}, run : 0..MaxRuns]]
  /\ file \in [Slots -> [vmm : Vmms \cup {NoVmm}, run : 0..MaxRuns]]
  /\ ending \in [1..MaxRuns -> {"none", "clean", "unbound", "killed"}]

DaemonInit ==
  /\ main = "down" /\ run = 0 /\ workers = {} /\ most = 0
  /\ child = [i \in Slots |-> NoVmm]
  /\ vmm = [v \in Vmms |-> NoProcess]
  /\ file = [i \in Slots |-> NoFile]
  /\ ending = [r \in 1..MaxRuns |-> "none"]

-----------------------------------------------------------------------------
(* main *)

(* parse_pool_size, and the check of main; the maximum is 0 if not given.  *)
Accepted(least, max) == least >= 1 /\ (max = 0 \/ max >= least)

(* ProcessPool::spawn; with sizes it does not accept main returns at once. *)
Start(least, max) ==
  /\ main = "down" /\ run < MaxRuns
  /\ Accepted(least, max)
  /\ Hasty \/ \A v \in Vmms : vmm[v].phase # "starting"
  /\ main' = "pool" /\ run' = run + 1
  /\ workers' = 1..least /\ most' = (IF max = 0 THEN least ELSE max)
  /\ UNCHANGED <<child, vmm, file, ending>>

(* bind_listener *)
Binds ==
  /\ main = "pool" /\ main' = "serve"
  /\ UNCHANGED <<run, workers, most, child, vmm, file, ending>>

(* The tasks of the workers are dropped with main, their children are not. *)
Ends(how) ==
  /\ main' = "down"
  /\ ending' = [ending EXCEPT ![run] = how]
  /\ workers' = {}
  /\ child' = [i \in Slots |-> NoVmm]
  /\ vmm' = [v \in Vmms |-> IF Lives(v) THEN vmm[v] ELSE NoProcess]
  /\ UNCHANGED <<run, most, file>>

(* The address is in use: `?`. *)
BindRefused == main = "pool" /\ Ends("unbound")

(* SIGKILL, or the machine runs out of memory, at any moment. *)
Killed == main # "down" /\ Ends("killed")

(* Slip: the maximum is not looked at. *)
ExtendsPast ==
  /\ main = "serve"
  /\ workers' = workers \cup {Cardinality(workers) + 1}
  /\ UNCHANGED <<main, run, most, child, vmm, file, ending>>

(* A slot more, for an allocation. *)
Extends ==
  /\ main = "serve" /\ Cardinality(workers) < most
  /\ workers' = workers \cup {Cardinality(workers) + 1}
  /\ UNCHANGED <<main, run, most, child, vmm, file, ending>>

(* SIGTERM or SIGINT: the server ends, then the workers are told to. *)
Signalled ==
  /\ main = "serve" /\ main' = "stop"
  /\ UNCHANGED <<run, workers, most, child, vmm, file, ending>>

(* The last worker was awaited. *)
Stops == main = "stop" /\ workers = {} /\ Ends("clean")

-----------------------------------------------------------------------------
(* The workers. *)

(* The socket files when v is gone. *)
FilesWithout(v) ==
  [i \in Slots |-> IF file[i].vmm = v THEN [file[i] EXCEPT !.vmm = NoVmm] ELSE file[i]]

(* Slip: the socket of an earlier process is left. *)
SpawnsOverFile(i, v) ==
  /\ i \in workers /\ child[i] = NoVmm /\ vmm[v].phase = "none"
  /\ child' = [child EXCEPT ![i] = v]
  /\ vmm' = [vmm EXCEPT ![v] = [phase |-> "starting", slot |-> i, run |-> run]]
  /\ UNCHANGED <<mainVars, file>>

(* cleanup_api_socket, then the child is spawned. *)
Spawns(i, v) ==
  /\ i \in workers /\ child[i] = NoVmm /\ vmm[v].phase = "none"
  /\ child' = [child EXCEPT ![i] = v]
  /\ vmm' = [vmm EXCEPT ![v] = [phase |-> "starting", slot |-> i, run |-> run]]
  /\ file' = [file EXCEPT ![i] = NoFile]
  /\ UNCHANGED mainVars

(* The child of i, if there is one, is gone, and so is the socket. *)
ChildGone(i) ==
  /\ child' = [child EXCEPT ![i] = NoVmm]
  /\ vmm' = [v \in Vmms |-> IF v = child[i] THEN NoProcess ELSE vmm[v]]
  /\ file' = [FilesWithout(child[i]) EXCEPT ![i] = NoFile]

(* The child has exited. *)
Reaps(i) ==
  /\ i \in workers /\ child[i] # NoVmm /\ vmm[child[i]].phase = "exited"
  /\ ChildGone(i)
  /\ UNCHANGED mainVars

(* Release and reset: stop_child kills it and waits. *)
Recycles(i) ==
  /\ i \in workers /\ child[i] # NoVmm
  /\ ChildGone(i)
  /\ UNCHANGED mainVars

(* Slip: the worker ends and leaves its child. *)
WorkerLeavesChild(i) ==
  /\ i \in workers /\ main = "stop"
  /\ child' = [child EXCEPT ![i] = NoVmm]
  /\ file' = [file EXCEPT ![i] = NoFile]
  /\ workers' = workers \ {i}
  /\ UNCHANGED <<main, run, most, vmm, ending>>

(* Slip: the worker kills its child and leaves the socket. *)
WorkerLeavesFile(i) ==
  /\ i \in workers /\ main = "stop"
  /\ child' = [child EXCEPT ![i] = NoVmm]
  /\ vmm' = [v \in Vmms |-> IF v = child[i] THEN NoProcess ELSE vmm[v]]
  /\ file' = FilesWithout(child[i])
  /\ workers' = workers \ {i}
  /\ UNCHANGED <<main, run, most, ending>>

(* The worker was told to end. *)
WorkerEnds(i) ==
  /\ i \in workers /\ main = "stop"
  /\ ChildGone(i)
  /\ workers' = workers \ {i}
  /\ UNCHANGED <<main, run, most, ending>>

-----------------------------------------------------------------------------
(* The VMMs. *)

(* The VMM binds its path. A file that is there already it may replace.    *)
VmmListens(v) ==
  /\ vmm[v].phase = "starting"
  /\ vmm' = [vmm EXCEPT ![v].phase = "serving"]
  /\ file' = [file EXCEPT ![vmm[v].slot] = [vmm |-> v, run |-> vmm[v].run]]
  /\ UNCHANGED <<mainVars, child>>

(* It exits, for one because the path is taken. *)
VmmExits(v) ==
  /\ Lives(v)
  /\ vmm' = [vmm EXCEPT ![v] = IF HasParent(v) THEN [@ EXCEPT !.phase = "exited"]
                               ELSE NoProcess]
  /\ file' = FilesWithout(v)
  /\ UNCHANGED <<mainVars, child>>

-----------------------------------------------------------------------------

DaemonNext ==
  \/ \E least \in Sizes, max \in Sizes \cup {0} : Start(least, max)
  \/ Binds \/ BindRefused \/ Killed \/ Extends \/ Signalled \/ Stops
  \/ \E i \in Slots : Reaps(i) \/ Recycles(i) \/ WorkerEnds(i)
  \/ \E i \in Slots, v \in Vmms : Spawns(i, v)
  \/ \E v \in Vmms : VmmListens(v) \/ VmmExits(v)

DaemonSpec == DaemonInit /\ [][DaemonNext]_daemonVars

-----------------------------------------------------------------------------
(* Safety. *)

(* Who connects to the socket of a slot that has a child reaches the child *)
(* and no VMM of an earlier run, so that wait_for_slot_ready, which takes  *)
(* a pid and a connection for readiness (service.rs:299), waits for the    *)
(* right one.  With Hasty it fails: a VMM of an earlier run may bind late. *)
OwnSocket ==
  \A i \in Slots : child[i] # NoVmm => file[i].vmm \in {child[i], NoVmm}

(* A VMM without a worker is left of a run that was killed or could not    *)
(* bind its address, when the pool has been started already (main.rs:242). *)
OrphansExplained ==
  \A v \in Vmms :
    Lives(v) /\ ~HasParent(v) => ending[vmm[v].run] \in {"unbound", "killed"}

(* A run that shuts its pool down leaves no socket in the directory that   *)
(* one of its VMMs has made, however late it was started.                  *)
CleanEnd ==
  \A r \in 1..MaxRuns : ending[r] = "clean" => \A i \in Slots : file[i].run # r
=============================================================================
