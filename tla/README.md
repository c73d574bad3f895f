# croutond in TLA+

`croutond` is a daemon that keeps a pool of Cloud Hypervisor VMM processes warm
and hands them to HTTP clients: a client creates a named VM, the daemon reserves
a *slot* (one VMM process with one API socket), configures and boots the guest
through that socket, and tears it down again on delete. This directory holds
TLA+ modules that model the daemon, TLC configurations that check them, and
TLAPS proofs about them. Paths and line numbers refer to the repository
(`src/...`, `contrib/...`).

## 1. Inventory

| component | state | operations | in the model |
|---|---|---|---|
| slot supervisor, `src/slot_supervisor.rs` | per slot: `SlotRuntime` (state, name/mac/tap, pid, generation, error, child), command channel of 16, socket file | the loop `supervise_slot`: spawn, drain, poll, select; five commands | `SlotSupervisor`, `SlotLifecycle` |
| process pool, `src/pool.rs` | `Vec<SlotHandle>`, shutdown flag, sizes, time of the last scale-down | allocate, extend, mark, release, reset, autoscale, shutdown; listings and lookups | `ProcessPool`; listings in `PoolReads` |
| lock around the pool | `Arc<RwLock<ProcessPool>>` of tokio | read, write, fair queue | `RwLock` (external) |
| VM service, `src/service.rs` | locals of each handler | create, delete, proxied requests, readiness wait, clean-up | `VmService` |
| HTTP API, `src/api.rs` | locals of each handler | `health`, `list_vms`, `get_vm`, `vm_metrics`; routes | `PoolReads`; the handlers that change state in `VmService` |
| daemon, `src/main.rs` | the tasks, the runtime directory | sizes, start-up, refused listener, autoscaler task, graceful shutdown, restarts | `Daemon`; the tasks also in `ProcessPool` and `VmService` |
| boot configuration, `src/vm_validation.rs`, `src/vm_payload.rs` | none | validation, bodies of the requests to the VMM | `BootRequest` |
| host metrics, `src/host_metrics.rs` | none | parses `/proc/stat`, `/proc/meminfo` and others; sums, differences | `HostMetrics` |
| process metrics, `src/vm_metrics.rs` | none | parses `/proc/<pid>/stat` and `status` | `VmMetrics` |
| pool facade, `src/pool_facade.rs` | none | forwards to the pool | by the calls `VmService` makes |
| errors, `src/error.rs` | none | kinds of errors to status codes | as far as `PoolReads` tells answers apart |
| VMM client, `src/ch_client.rs` | none | one HTTP request over a UNIX socket, no timeout | one step of `VmService` |
| tap devices, `src/net_tap.rs` | none | `ip` commands | succeed or fail the reservation |
| VMM (external), with its stand-in `src/bin/demo-vm.rs` | process, socket file, guest | starts, listens, exits; create, boot, shut down, delete | `SlotRecord`, `VmService`, `Daemon` |
| service unit, `contrib/croutond.service` | none | | not modelled |

**How they interact.** Each slot has a task of its own that owns the child
process; the pool talks to it by commands over an `mpsc` channel and gets the
answer over a `oneshot`. All handlers and the autoscaler share the pool through
one fair read-write lock: allocation, scaling and shutdown take it for writing,
everything else for reading. Handlers talk to the VMM of a slot directly over
the socket whose path follows from the slot *index*. The paths are the same in
every run of the daemon, and a VMM outlives a daemon that does not shut its pool
down: the runtime directory is what one run hands to the next.

**What is hard.** A slot changes under everybody who looks at it: VMMs exit by
themselves, spawns fail, and the supervisor notices at one place of its loop
only. `create_vm` holds a slot index across two waits that hold no lock. Read
guards do not exclude each other, so two deletes of one VM overlap, and a
listing asks slot after slot while other readers release and reset them. Any
handler may be dropped at any `await` when its client goes away, with its
command already queued. The lock is fair, so that whoever waits for ever while
holding it stops the daemon. And a daemon may be killed at any moment and started
again among the VMMs and sockets it left. `PROJECT.json` lists these hazards at
their lines with the properties that cover them.

**What makes each part correct.** Supervisor: a status whose fields agree, a
generation that tells tenancies apart, no process, socket or caller left behind,
no call unanswered. Pool: unique names, bounded size, slots that come and go only
when nobody is looking, tenants that only lose their slot to a cause. Service: a
looked-up slot stays the one of its name, a guest is reachable by its name (where
that fails, section 3 says), no handler deadlocks. Reads: an answer put together from several looks was true at
one moment. Daemon: a socket leads to the VMM of this run, and what is left behind
has a cause. Boot configuration: what is validated is what is sent. Metrics: the
numbers add up and are of the process asked for.

## 2. Modules

```
SlotRecord -- a slot as a record, and each event as an operator on it
  |- SlotLifecycle    one slot, abstractly           <-- refinement --.
  |- SlotSupervisor   the worker's loop in detail  -------------------'
  |    '- SlotSupervisorProofs
  '- ProcessPool (+ RwLock)   many slots behind the lock  <-- refinement --.
       |- MCProcessPool, ProcessPoolProofs                                 |
       |- PoolReads   the handlers that read  -----------------------------|
       |    '- MCPoolReads, PoolReadsProofs                                |
       '- VmService   the handlers that write, and the guests  ------------'
            '- MCVmService, VmServiceProofs, VmGuestProofs
Daemon -- runs of main on one directory;  MCDaemon, DaemonProofs
BootRequest -- validation and request bodies;  BootRequestProofs
Words -- machine words
  |- HostMetrics  --.
  '- VmMetrics    --'- MetricsProofs
MCInputs -- BootRequest, HostMetrics and VmMetrics on small words
```

* **SlotRecord** is `SlotStatus` and the child reduced to what other parts can
  tell apart: `state`, `name` (mac and tap are set and cleared with it) and `proc`
  (no child, starting, serving on its socket, exited but not reaped).
* **SlotLifecycle** is the promise of one slot: which state changes there are.
* **SlotSupervisor** has `pc` for the four places of a round of the loop (`top`,
  `drain`, `poll`, `select`), one action per branch there, `queue` for the
  channel, `call` for where each caller is and `seen` for the generation and tenant
  it was last shown. An answered caller may call again; `made` counts the calls. The
  initial socket file may be left over from a daemon that was killed. A call may
  be abandoned at any time; its queued command is executed all the same, and its
  caller makes no more.
* **RwLock** is tokio's lock as operators on a record: a queue served strictly in
  order, any number of readers or one writer, and what happens to both when the
  future of a holder or of somebody in the queue is dropped.
* **ProcessPool** has `allocate_vm_slot` as one step per slot status it awaits
  (`phase`, `at`, `hit`), the autoscaler as `sleep`, `wait`, `pop`, `join`, and
  the end of `main` as `serve`, `drain`, `wait`, `stop`, `exit`. A popped slot
  stays at the end of `slots` with `joiner` set until its worker has ended, since
  its `tx` lives that long; `Size` leaves it out. Callers are as general as the
  lock allows. A command takes effect in one step: commands and status reads of a
  slot are served in the order they were sent, so that a command still queued
  when its caller was dropped is seen by whoever asks later.
* **PoolReads** adds the handlers that only read. `view` is such a handler: the
  lookup it is in, the slot it looks at next, the slots found so far; `vm_metrics`
  goes on through its second guard to the process. Two history fields, `was` (what
  a handler that saw all slots at once would have answered, at each moment of the
  view) and `gone` (what became of the VMM whose pid was read), state what the
  answers are compared with; no guard of the code depends on them, except that
  `/proc` of a process that was reaped cannot be read.
* **VmService** puts the handlers in place of the general callers. A handler is a
  record (`pc`, the name, the slot index it remembers, the `pid` it saw, the tries
  left); `guest[i]` is what the VMM listening at index `i` has been told to run.
  The lookup by name of delete and proxy is one step, because names only go away
  while a read guard is held; the lookup of allocate, which decides about a name
  being *absent*, is step by step in `ProcessPool`.
* **Daemon** is `main` over several runs: `main` (`down`, `pool`, `serve`, `stop`),
  the workers with their children, the processes, and for each slot the socket
  file with who listens and the run whose VMM made it. A run ends by a shutdown,
  by an address in use (`main.rs:242`, after the pool was spawned), or killed
  anywhere. Of a worker only what it does to its child and socket is there.
* **BootRequest** has the twelve checks of `validate_boot_config` in their order
  and both bodies; paths are absent, absolute or relative, and the word size is a
  constant.
* **HostMetrics** and **VmMetrics** have the parsing as far as it decides between
  numbers, a default and an error, and the arithmetic on words (`Words`: wrapping,
  saturating). `VmMetrics` also has the process, which runs on, exits and is reaped
  between the reads of its two files; its name is any of a few awkward texts.
* **MCInputs** runs these three as one specification in which one of them moves.

Slot `i` of the models is slot `i - 1` of the code. Operators whose comment
begins with "Slip" are deliberate mistakes used to show that each property can
fail; no specification uses them.

## 3. What TLC checks

| run | module, cfg | bounds | shows |
|---|---|---|---|
| `slot` | SlotSupervisor, MCSlotSupervisor | 4 calls of any kind by 2 callers, 1 name, channel of 1, 1 exit | `TypeOK`, `StatusCoherent`, `GenerationStampsTenancy`, `SocketFollowsVmm`, `NothingLeftBehind`; `ImplementsSlot`: the loop implements `SlotLifecycle`; liveness: `CallsAnswered`, `ExitedVmLosesSlot`, `VmmRespawned`, `StopsWhenTold` |
| `pool_safety` | MCProcessPool, MCPoolSafety | 2 requests, 2 names, 1 to 2 slots, all faults | `PoolTypeOK`, `NamesUnique`, `NameStaysFree`, `PoolBounded`, `ResizedAlone`, `TenantsKept` |
| `reads` | MCPoolReads | a reader and a general caller, 2 names, 1 to 2 slots, failing polls and exits | `GetAnswersWereTrue`, `ListMissesNoVm`, `CountsWereTrue`, `MetricsOfOneVmm` |
| `service_guarded` | MCVmService, MCVmGuarded | a create, a delete or proxy, 2 names, 1 to 2 slots, exits | `VmTypeOK`, `LookupHolds`; `ImplementsPool`: the handlers behave as `ProcessPool` allows |
| `service_guests` | MCVmService, MCVmGuests | 2 creates, 1 delete, 2 names, 1 to 2 slots, all faults but exits, refusals, 1 retry | `GuestsHaveSlots`, `CreateOkIsMine` |
| `service_liveness` | MCVmService, MCVmLiveness | a create, a delete, exactly 2 slots, refusals, exits, spawn failures, 1 retry | `RequestsComplete`, `ShutdownCompletes` |
| `inputs` | MCInputs | words of 16, units of 4, all configurations, files and processes of a few values each | `MemoryIntact`, `BodyBoots`, `TicksAddUp`, `MemoryAddsUp`, `SampleWasTrue` |
| `daemon` | MCDaemon | 4 VMMs, sizes 1 and 2, 3 runs | `DaemonTypeOK`, `OwnSocket`, `OrphansExplained`, `CleanEnd` |

Four more runs expect a violation; they show where the code does not do what a
comment or a help text of the repository says:

| run | property | what the counterexample shows |
|---|---|---|
| `slot_warm` | `StaysWarm` | one failed spawn or poll leaves a slot `Failed` and cold for ever (`main.rs:42` speaks of warm slots) |
| `pool_scale_down` | `ScaleDownCompletes` | the first scale-down awaits a worker nobody told to end, with the write lock held (`pool.rs:340`; `main.rs:57`) |
| `service_exit` | `EmptyIsReusable` | the exit of an idle VMM, reaped after the slot was reserved, cancels the reservation; the create puts a guest into an `Empty` slot (`slot_supervisor.rs:149`) |
| `service_overlap` | `GuestsHaveSlots` | the clean-up of one of two overlapping deletes resets the slot of a later create (`service.rs:316`; `pool_facade.rs:94`) |

`GuestsHaveSlots` and `CreateOkIsMine` therefore hold under two conditions: no
VMM exits by itself, and deletes do not overlap. `service_guests` checks them
under both, `VmGuestProofs` proves them from both, and the last two runs show that
neither can be dropped.

Some properties say precisely how far an answer can be trusted, and the limits
are part of what the runs show:

* `health` counts the idle slots one by one. A count that was never true needs a
  slot that *failed* meanwhile: under a read guard all other changes make slots
  idle, and then some moment agrees with the count (`CountsWereTrue`).
* `list_vms` misses no VM that ran throughout and shows none that never ran while
  it looked; the list as a whole may show two VMs that never ran together.
* `vm_metrics` looks the VM up under two guards and reads the process under none.
  An answer is of one VMM all the same, because the process is read last
  (`MetricsOfOneVmm`); only a child that was dropped because it could not be polled
  lives on without its slot. For a VM that is booting it answers that there is none
  (404), where `get_vm` answers that it does not run (409), and it does not look at
  the status of the answer it takes the counters from (`api.rs:196`).
* The tick sum of `host_metrics.rs:184` takes every number of the line, so guest
  time counts twice, once as the part of user time it is (`TicksAddUp` says so);
  and the sum wraps in a release build, where every other operation saturates.
* A line of `meminfo` without a number fails the whole report, even if no number
  of the report comes from it; an odd line of `status` is passed over.
* The memory of a sample is from another file than its ticks, read later: it is that
  of the later moment, while state, ticks and threads are those of the earlier one
  (`SampleWasTrue`). Of a process that exits in between, an answer may have the state
  of one that runs and no memory.
* `OwnSocket` is what makes a successful connection mean readiness
  (`service.rs:299`). It holds if no run starts while a VMM of an earlier one is
  still on its way to its socket (`Hasty = FALSE`). With `Hasty = TRUE` it is
  violated: such a VMM binds after the worker of the new run has removed the file,
  and the worker's own VMM is shadowed by it. The window is the start-up time of a
  VMM; nothing in the code closes it, and no document speaks of it.

**Why the bounds are enough.** A slot race needs the slot's worker, the request
that has a stale view and one that changes the slot. Four calls by two callers, each
making another one once it is answered, are a reservation, its mark, its release or
reset, and one more of any kind, in every order and overlap; with one name `seen`
still tells a tenancy from the Empty slot before and after it. Longer histories, more
names and more exits (one here; spawn and poll failures, releases and resets take
VMMs away as well) are covered by the proofs as far as safety goes. The
channel of one place is full in the runs, which the real one of 16 rarely is; for
the safety properties of this run every size is covered by the proofs. A pool of
one to two slots is the smallest that can be extended, be full, and be scaled down
to its minimum; names collide with two requests, and two names are needed to meet
the VM of somebody else. A reader needs one other request, which makes every
change a reader or a writer can make. A service handler passes through every place
of the code with one retry of the readiness wait. In `inputs` a word is four units,
so that both sides of each overflow occur. Three runs of the daemon have one
before and one after a run with orphans of an earlier one; four processes are two
for the slots and two orphans. `Serves` cuts the two larger service runs off at the
shutdown signal: graceful shutdown waits for the last handler, so that nothing
that follows concerns one; `pool_safety` and `service_liveness` go on to the end.
Symmetry is used in safety runs only, over sets the modules treat alike. Deadlock
is not checked where a run may end: every call, request, process or run may be
done, and the daemon exits.

**Fairness, and why the code justifies it.** The tokio runtime polls every ready
task, hence weak fairness of the worker's loop, of a sender whose channel has
room, of each handler's next step, of the autoscaler and of the end of `main`.
Nothing is assumed of clients (requests come, go and are dropped as they like),
of exits and failures, or of when shutdown is asked for. Two assumptions are
worth naming. `RequestsComplete` takes a VMM request to be answered or to fail:
`ch_client.rs` has no timeout, so with a VMM that accepts and never answers the
handler waits for ever, and with its read guard everybody else. And
`service_liveness` has the minimum size equal to the maximum, where a scale-down
never starts; otherwise the violation of `pool_scale_down` would be in the way of
both its properties.

## 4. What is proved

For every value of the constants; the assumptions are those on the constants:
the names of absent values are not values, sizes and capacities are positive,
`MinSize <= MaxSize`, the numbers tried fit a word.

`SlotSupervisorProofs` (any number of calls and names, any capacity, any number of
exits):

* `Invariance`: the inductive invariant `IInv` is the conjunction of the type
  invariant and the four safety invariants. None of them is inductive alone: that a
  generation stamps a tenancy rests on a coherent status (an `Empty` slot has no
  name to lose), coherence on the types, and the clean end on the sockets of the
  steps before it. The argument goes through `Follows(r, s)`: every operator on the
  runtime leads to one that is typed, fits its socket, and changes its name only
  together with its generation.
* `TypeCorrect`, `StatusAlwaysCoherent`, `GenerationIsStamp`, `SocketAlwaysFits`,
  `EndIsClean`: the invariants of `slot`.
* `Refinement`: `Spec => ImplementsSlot`. Every branch of the loop is one step of
  `SlotLifecycle` or a stutter; `CommandIsSlotEvent` does the commands and
  `LoopEndIsStop` the three ways the loop ends, both over `OperatorsCommute`.

`ProcessPoolProofs` (any set of requests and names, any sizes, any faults):

* `Invariance`: `NamesUnique` is not inductive, since the check of the name and the
  reservation are many steps apart. `IInv` adds `ScanInv` (an allocation knows that
  its name is in none of the slots it has passed, and the slot it chose exists),
  which survives because of `LockInv` (whoever is inside `allocate_vm_slot`, pops or
  joins holds the write lock, alone) and because the slots' workers only ever take
  names away; `TaskInv` adds that the pool is above its minimum when a slot is
  popped and that no request is left when shutdown is broadcast.
* `PoolTypeCorrect`, `NamesAreUnique`, `NamesStayFree`, `PoolStaysBounded`,
  `OnlyWritersResize`: what follows from it.
* `TenantsStay`: `PoolSpec => TenantsKept`. `SlotSteps` sorts every step by what it
  does to the slots (nothing; one slot, with its cause; one more; the last one
  gone), and `PopInv` adds what the autoscaler needs: the slot it is about to pop
  still holds no VM, though it was looked at a step earlier.
* `PoolSlotsLive`: each slot of the pool, from its spawn to its join, takes steps of
  `SlotLifecycle` only (`Life(i)` is that module, of slot `i`). The supervision loop
  implements `SlotLifecycle` (`Refinement`), so that the pool, which has each command
  in one step, asks nothing of its workers that the loop does not offer. `EndInv` is
  what it needs: a worker ends only once shutdown was broadcast, when no request is
  left, hence no request reaches a slot without its worker (`WorkersRun`).

`VmServiceProofs` (any clients, names, sizes, tries, faults and refusals):

* `VmInvariance`: the pool's `IInv` together with `LineInv` (nobody is in the line of
  the lock twice, or in the line and inside) and `CallInv` (at each place of its
  code a handler holds the guard, waits for it, or is away from the lock). `CallInv`
  is what the refinement needs, since `ProcessPool` lets a request ask for the lock
  only when it is not engaged with it; `LineInv` is what makes it inductive: who
  leaves the lock or is dropped is then gone from it altogether.
* `HandlersImplementPool`: `VmSpec => ImplementsPool`. Every step of a handler
  changes its own record only and is a step of a caller of the pool or leaves the
  pool alone (`HandlerMoves`). All theorems on `ProcessPool` carry over:
  `CreatedNamesUnique` is one line.
* `LookupsHold`: the slot in which delete or proxy found its VM is there and holds
  that VM or none as long as the guard is held (`ReadersSee`: while somebody reads,
  no slot comes or goes, and names only vanish).
* `VmTypeCorrect`: with `GuestsRun`, every guest is in a VMM that listens.

`VmGuestProofs` (any number of creates, names, sizes and tries, all faults but exits, one
deleter at a time): `"exit" \notin Faults` and `OneDeleter` are hypotheses of the three
theorems, the two conditions of section 3.

* `ChargesHold`: the invariant behind the next two. From its reservation or lookup to
  its last command a handler has a slot *in its charge* (`InCharge`), across every
  wait in which it holds no lock. `Alone`: no other handler has the same one. `ChargeFine`:
  the slot keeps the name the handler was asked for; only a delete finds it
  `Occupied`, so that a create never marks, or cleans up, a slot that was handed out
  again; and a create past its boot finds its guest in it, unless the slot failed.
  `SlotsFine` and `GuestsFine`, of slots and guests, are what a new charge begins with.
* Its proof sorts the steps by kind (`StepKind`: no slot and no charge changes, a
  request to a VMM, a slot is taken, found, marked or cleared) and shows for each
  part of the invariant which kinds keep it; what others do leaves a slot in
  somebody's charge `Steady`.
* `GuestsKeepSlots`, `CreatesAnswerForTheirs`: `GuestsHaveSlots` and `CreateOkIsMine`.

`PoolReadsProofs` (any number of reading and other requests, any names, sizes, faults):

* `ReadInvariance` and `ReadersImplementPool`: `ReadSpec => PoolSpec`, each step of a
  handler that reads is one of a caller of the pool or none at all (`ReadStepFits`).
  So `IInv` holds while they run, and with it `ReadersWatch`: under a read guard no slot
  comes or goes, and names only vanish.
* `ReadersWereFine`: what a handler has found so far is explained by the moments it
  has seen (`FineInv`, one part for each kind of handler). `GetFine`: a slot of the VM
  that was passed did not run, and no other slot has its name. `ListFine`: each slot
  that was passed once ran if it was collected and once did not if not. `CountFine`:
  unless a slot failed, idle slots stay idle and others join them one at a time, so
  that each number between what was counted (with what is still ahead) and what is
  idle now was the right one at some moment. `MetricFine`: as long as the VMM
  whose pid was read is not gone its slot keeps the VM (`TenantStays`), and by
  `NamesUnique` the second lookup finds no other.
* `GetIsTrue`, `ListIsComplete`, `CountIsTrue`, `MetricsAreOfOneVmm`: the four properties
  of `reads`.

`DaemonProofs` (any sizes, processes and number of runs):

* `Invariance`: `OwnSocket` needs to know of every socket file who made it and in
  which run (`FileInv`), of every process its slot, its run and whether it still has
  a parent (`VmmInv`), of every child that it is the process of its slot
  (`ChildInv`), and that a run that goes on has no ending (`RunInv`).
* `DaemonTypesHold`, `SocketsAreOwn` (with `~Hasty`), `OrphansAreExplained`,
  `EndsAreClean`.

`BootRequestProofs` (any word size and unit): `MemoryStaysIntact`: the bound of
validation is exactly the largest size the shift keeps (`BoundIsTight`,
`ShiftKeepsBits`). `BodiesBoot`: validation and body read the boot mode alike
whatever the memory, so that a body names what its mode needs (`SamePasses`: the
verdict on everything but the memory does not depend on the word).

`MetricsProofs` (words of any size, any unit, any values):

* `MemoryAlwaysAddsUp`, over `PartsAddUp`: what a saturating difference and its
  subtrahend add up to survives the multiplication by the unit and its saturation, and
  a difference with a larger subtrahend stays 0.
* `TicksAlwaysAddUp`: for any ticks, on lines of old and new kernels. A line has ten numbers at most, and their sum is written out: no
  induction over the line is needed.
* `SamplesAreTrue`, for all numbers and each of the awkward names of the model: the
  name is cut off at the *last* parenthesis, and none comes after it
  (`SampleInvariance` says of each place of the handler what it has read and what
  the process was then). The process runs on between the reads, in every number.

Every safety property that a passing run checks is stated by one of these theorems.
Only model-checked is liveness (`CallsAnswered`, `ExitedVmLosesSlot`, `VmmRespawned`,
`StopsWhenTold`, `RequestsComplete`, `ShutdownCompletes`): proofs under fairness need
`ENABLED`, which is out of the prover's reach. And the runs that expect a violation
stand by themselves.

## 5. What is not modelled

* `kill` or `wait` failing in `stop_child`; a socket file that cannot be removed;
  what a child that cannot be polled does after it was dropped unkilled (but that
  it may live on is in `PoolReads`).
* The times themselves: the cooldown is over or not at any tick, the deadline of
  the readiness wait is a number of tries or comes at any of them.
* `log_pool_occupancy`: more status reads after each operation, under the same
  guard, that change nothing.
* An endless stream of commands, which could keep the supervisor in its drain loop.
* A second daemon on the directory of one that runs: it removes the sockets of the
  first one's VMMs before it finds the address taken (`main.rs:202`). Nothing in the
  code keeps two apart and no document speaks of it.
* A pid used again by the system between its lookup and the read of `/proc`.
* That the metrics are collected by blocking reads inside an async handler.
* The `ip` commands of `net_tap.rs` (a tap device that exists already is taken over
  as if it had been made), image types of disks, the absolute path a snapshot is
  written to, the wording of errors and their bodies, the facade as a trait,
  command-line parsing but for the sizes, routes, logging, what `demo-vm` answers.
* `contrib/croutond.service`. Its `ExecStart` ends in a `\` at line 16, so that
  systemd reads line 17, `Restart=on-failure`, as one more word of the command
  line and does not restart the daemon. With the default kill mode it also kills
  the VMMs of a daemon that failed, which leaves the orphans of `Daemon` to daemons
  run without it.
* Two more hazards that no property covers, because the code has no promise on them to
  break: a create that times out or is dropped leaves its slot `Booting`, with its
  name, until its VMM exits (`service.rs:58`); a slot that fails with a tenant keeps
  its name, and no request frees it (`slot_supervisor.rs:166`). The models take both paths, and the invariants are
  checked and proved over them.

## 6. Plan

Done: supervisor and its abstract slot, pool, handlers, reads, daemon, boot
configuration and metrics, each with its runs; a theorem for each of their safety
properties, and the refinements from handlers to pool and from slots to `SlotLifecycle`.
Next:

1. The refinement of the supervision loop by the daemon's workers: that what `Daemon`
   has of a worker (its child and its socket) is what `SlotSupervisor` does to them.
2. `GuestsHaveSlots` without its second condition for deletes of different VMs:
   whether overlapping is harmful only for one name.

## 7. Running it

    tlc -config MCSlotSupervisor.cfg SlotSupervisor
    tlapm VmServiceProofs.tla

The other runs are listed with their modules in `PROJECT.json`; each takes less
than five minutes with two workers, each proof module less than ten.
