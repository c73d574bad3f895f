----------------------------- MODULE HostMetrics -----------------------------
(***************************************************************************)
(* The numbers of the host that src/host_metrics.rs derives from /proc.    *)
(*                                                                         *)
(* Lines of a file that no number of the report comes from are left out.   *)
(***************************************************************************)
EXTENDS Words, Sequences

CONSTANTS
  TickInputs,   (* bound: the numbers of /proc/stat that are tried          *)
  SizeInputs    (* bound: the numbers of /proc/meminfo that are tried       *)

ASSUME HostAssumption ==
  TickInputs \subseteq Word /\ SizeInputs \subseteq Word

VARIABLES
  host,     (* what /proc shows                                            *)
  report    (* NoReport, "failed" or the HostMetrics of the answer         *)

hostVars == <<host, report>>

NoReport == [kind |-> "none"]
Failed == [kind |-> "failed"]

(* The line of all CPUs: user, nice, system, idle, iowait, irq, softirq,   *)
(* steal, guest, guest_nice. Old kernels write fewer numbers. Guest time   *)
(* is part of the time of user, that of niced guests part of nice; what is *)
(* not told apart below is alike.                                          *)
CpuLine(n, user, other, idle, iowait, guest) ==
  [k \in 1..n |-> CASE k = 1 -> user [] k = 4 -> idle [] k = 5 -> iowait
                    [] k \in {9, 10} -> guest [] OTHER -> other]

CpuLines ==
  {CpuLine(n, user, other, idle, iowait, guest) :
     n \in {3, 4, 5, 10}, user \in TickInputs, other \in TickInputs,
     idle \in TickInputs, iowait \in TickInputs, guest \in TickInputs}

Keys ==
  {"MemTotal", "MemAvailable", "MemFree", "Buffers", "Cached", "SwapTotal",
   "SwapFree"}

Required == {"MemTotal", "MemAvailable", "MemFree"}

(* The line of a key may be missing, or have no number where one belongs.  *)
Absent == WordSize
Garbled == WordSize + 1

Lines == SizeInputs \cup {Absent, Garbled}

(* The other files that are read: hostname, uptime and loadavg. *)
OtherFiles == {"hostname", "uptime", "loadavg"}

(* A host whose files are in order, but for one at most.                   *)
Fine ==
  [cpu |-> CpuLine(10, 0, 0, 0, 0, 0), memory |-> [k \in Keys |-> 0], unread |-> {}]

Hosts ==
  {[Fine EXCEPT !.cpu = line] :
     line \in {l \in CpuLines : Len(l) = 10 => l[9] <= l[1] /\ l[10] <= l[2]}}
    \cup {[Fine EXCEPT !.memory = m] : m \in [Keys -> Lines]}
    \cup {[Fine EXCEPT !.unread = {file}] : file \in OtherFiles}

-----------------------------------------------------------------------------
(* read_cpu_metrics *)

Tick(line, k) == IF k <= Len(line) THEN line[k] ELSE 0

(* A line has ten numbers at most. *)
Sum(line) ==
  Tick(line, 1) + Tick(line, 2) + Tick(line, 3) + Tick(line, 4) + Tick(line, 5)
  + Tick(line, 6) + Tick(line, 7) + Tick(line, 8) + Tick(line, 9) + Tick(line, 10)

IoWait(line) == Tick(line, 5)

(* Slip: time spent waiting for I/O is not idle time. *)
IdleAlone(line) == line[4]

Idle(line) == Saturated(line[4] + IoWait(line))

(* The sum wraps around in a release build. *)
Cpu(line) ==
  LET total == Wrapped(Sum(line))
  IN  [total |-> total, idle |-> Idle(line), busy |-> Minus(total, Idle(line))]

-----------------------------------------------------------------------------
(* parse_meminfo_kib, required_meminfo_kib and read_memory_metrics         *)

(* One line that does not parse fails them all. *)
Parses(memory) ==
  /\ \A k \in Keys : memory[k] # Garbled
  /\ \A k \in Required : memory[k] # Absent

Kibs(memory, k) == IF memory[k] = Absent THEN 0 ELSE memory[k]

(* Slip: what is free is taken for what is available. *)
UsedFromFree(memory) == Minus(Kibs(memory, "MemTotal"), Kibs(memory, "MemFree"))

Used(memory) == Minus(Kibs(memory, "MemTotal"), Kibs(memory, "MemAvailable"))

SwapUsed(memory) == Minus(Kibs(memory, "SwapTotal"), Kibs(memory, "SwapFree"))

Memory(memory) ==
  LET bytes(k) == Bytes(Kibs(memory, k)) IN
  [total |-> bytes("MemTotal"), available |-> bytes("MemAvailable"),
   used |-> Bytes(Used(memory)), free |-> bytes("MemFree"),
   buffers |-> bytes("Buffers"), cached |-> bytes("Cached"),
   swapTotal |-> bytes("SwapTotal"), swapFree |-> bytes("SwapFree"),
   swapUsed |-> Bytes(SwapUsed(memory))]

-----------------------------------------------------------------------------

HostInit == host \in Hosts /\ report = NoReport

(* collect_host_metrics: all of it or an error. *)
CollectHost ==
  /\ report = NoReport
  /\ host.unread = {} /\ Len(host.cpu) >= 4 /\ Parses(host.memory)
  /\ report' = [kind |-> "ok", cpu |-> Cpu(host.cpu), memory |-> Memory(host.memory)]
  /\ UNCHANGED host

CollectFails ==
  /\ report = NoReport
  /\ host.unread # {} \/ Len(host.cpu) < 4 \/ ~Parses(host.memory)
  /\ report' = Failed
  /\ UNCHANGED host

HostNext == CollectHost \/ CollectFails

HostSpec == HostInit /\ [][HostNext]_hostVars

-----------------------------------------------------------------------------
(* Safety. *)

(* The ticks add up: total is idle and busy time, and busy time is what    *)
(* was spent on anything but idling and waiting; but guest time counts     *)
(* twice, on its own and as the part of user or nice time it is. Without   *)
(* overflow.                                                               *)
TicksAddUp ==
  report.kind = "ok" /\ Sum(host.cpu) < WordSize =>
    LET tick(k) == Tick(host.cpu, k) IN
    /\ report.cpu.busy + report.cpu.idle = report.cpu.total
    /\ report.cpu.busy = tick(1) + tick(2) + tick(3) + tick(6) + tick(7)
                           + tick(8) + tick(9) + tick(10)

(* Memory adds up, in bytes too, whatever is missing or saturates: in use  *)
(* and available are all there is, or nothing is in use when more is said  *)
(* to be available than there is; and so it is with swap.                  *)
MemoryAddsUp ==
  report.kind = "ok" =>
    LET m == report.memory IN
    /\ IF m.available <= m.total THEN Saturated(m.used + m.available) = m.total
                                 ELSE m.used = 0
    /\ IF m.swapFree <= m.swapTotal
       THEN Saturated(m.swapUsed + m.swapFree) = m.swapTotal
       ELSE m.swapUsed = 0
=============================================================================
