------------------------------ MODULE VmMetrics ------------------------------
(***************************************************************************)
(* The numbers of a VMM's process that src/vm_metrics.rs derives from      *)
(* /proc/<pid>/stat and then /proc/<pid>/status, while the process runs,   *)
(* exits and is reaped.                                                    *)
(*                                                                         *)
(* A line of stat is a sequence of tokens, parentheses being tokens too,   *)
(* where the code splits it at white space.                                *)
(***************************************************************************)
EXTENDS Words, Sequences

CONSTANTS
  TicksTried, (* bound: the ticks a process can have spent in either mode  *)
  SizesTried  (* bound: the memory a process can have                      *)

(* 7 is the largest number that StatLine writes on its own account.        *)
ASSUME ProcessAssumption ==
  TicksTried \subseteq Word /\ SizesTried \subseteq Word /\ 7 \in Word

VARIABLES
  process,  (* the process of the pid                                      *)
  stat,     (* what was parsed from its stat, or NoStat                    *)
  then,     (* history: the process when its stat was read                 *)
  later,    (* history: the process when its status was read               *)
  sample    (* the answer                                                  *)

processVars == <<process, stat, then, later, sample>>

(* Tokens that are not numbers are beyond the words. *)
Open == WordSize
Close == WordSize + 1
Letter == WordSize + 2
StateLetter == [runs |-> WordSize + 3, exited |-> WordSize + 4]

(* The name of a process may be any text: here a word, words with a space  *)
(* between them, and what looks like the end of the name or more.          *)
Comms ==
  {<<Letter>>, <<Letter, Letter>>, <<Letter, Close>>, <<Close, Letter>>,
   <<Close, StateLetter["exited"], 1>>}

NoStat == [kind |-> "none"]
NoSample == [kind |-> "none"]
SampleFailed == [kind |-> "failed"]

-----------------------------------------------------------------------------
(* What the kernel writes, as proc(5) has it. *)

(* pid (comm), and the fields from the third on; all others are 7.         *)
StatLine(p) ==
  LET field == [k \in 3..22 |-> CASE k = 3  -> StateLetter[p.life]
                                  [] k = 14 -> p.utime
                                  [] k = 15 -> p.stime
                                  [] k = 20 -> p.threads
                                  [] OTHER  -> 7]
  IN  <<1, Open>> \o p.comm \o <<Close>> \o [k \in 1..20 |-> field[k + 2]]

(* A process that has exited has no lines on memory. *)
StatusLines(p) ==
  IF p.life = "runs" THEN [VmRSS |-> p.rss, VmSize |-> p.size] ELSE <<>>

-----------------------------------------------------------------------------
(* collect_vm_process_metrics *)

(* parse_proc_stat of the fields after the name. *)
ParseFields(after) ==
  IF Len(after) >= 18 /\ {after[12], after[13], after[18]} \subseteq Word
  THEN [kind |-> "ok", state |-> after[1], utime |-> after[12],
        stime |-> after[13], threads |-> after[18]]
  ELSE NoStat

(* Slip: the name is taken to end at the first parenthesis. *)
ParseAtFirst(line) ==
  LET close == CHOOSE k \in DOMAIN line :
                 line[k] = Close /\ \A j \in 1..k - 1 : line[j] # Close
  IN  ParseFields(SubSeq(line, close + 1, Len(line)))

ParseStat(line) ==
  LET close == CHOOSE k \in DOMAIN line :
                 line[k] = Close /\ \A j \in k + 1..Len(line) : line[j] # Close
  IN  ParseFields(SubSeq(line, close + 1, Len(line)))

(* parse_status_kib keeps what is a number; a key without one counts as 0. *)
Status(lines, key) == IF key \in DOMAIN lines THEN lines[key] ELSE 0

(* The pid is of no process any more. *)
ReadFails ==
  /\ sample = NoSample /\ process.life = "gone"
  /\ sample' = SampleFailed
  /\ UNCHANGED <<process, stat, then, later>>

ReadStat ==
  /\ sample = NoSample /\ stat = NoStat /\ process.life # "gone"
  /\ stat' = ParseStat(StatLine(process))
  /\ sample' = IF stat' = NoStat THEN SampleFailed ELSE NoSample
  /\ then' = process
  /\ UNCHANGED <<process, later>>

ReadStatus ==
  /\ sample = NoSample /\ stat # NoStat /\ process.life # "gone"
  /\ sample' =
       [kind |-> "ok", state |-> stat.state, threads |-> stat.threads,
        rss |-> Bytes(Status(StatusLines(process), "VmRSS")),
        size |-> Bytes(Status(StatusLines(process), "VmSize")),
        user |-> stat.utime, system |-> stat.stime,
        total |-> Saturated(stat.utime + stat.stime)]
  /\ later' = process
  /\ UNCHANGED <<process, stat, then>>

-----------------------------------------------------------------------------
(* The process, meanwhile. *)

ProcessRuns ==
  /\ process.life = "runs"
  /\ \E user, system \in TicksTried, kibs, virtual \in SizesTried, n \in {1, 2} :
       /\ user >= process.utime /\ system >= process.stime
       /\ process' = [process EXCEPT !.utime = user, !.stime = system,
                                     !.rss = kibs, !.size = virtual, !.threads = n]
  /\ UNCHANGED <<stat, then, later, sample>>

ProcessExits ==
  /\ process.life = "runs"
  /\ process' = [process EXCEPT !.life = "exited"]
  /\ UNCHANGED <<stat, then, later, sample>>

ProcessReaped ==
  /\ process.life = "exited"
  /\ process' = [process EXCEPT !.life = "gone"]
  /\ UNCHANGED <<stat, then, later, sample>>

-----------------------------------------------------------------------------

(* A process that has begun. *)
Begun ==
  [life : {"runs"}, comm : Comms, utime : {0}, stime : {0}, threads : {1, 2},
   rss : SizesTried, size : SizesTried]

ProcessInit ==
  /\ process \in Begun
  /\ stat = NoStat /\ sample = NoSample
  /\ then = process /\ later = process

ProcessNext ==
  \/ ReadStat \/ ReadStatus \/ ReadFails
  \/ ProcessRuns \/ ProcessExits \/ ProcessReaped

ProcessSpec == ProcessInit /\ [][ProcessNext]_processVars

-----------------------------------------------------------------------------
(* Safety. *)

(* Whatever the process is called, the answer gives its state, ticks and   *)
(* threads as they were when its stat was read, total being user and       *)
(* system time unless they do not fit a word, and its memory as it was     *)
(* when its status was read, however it ran on between the two. Of one     *)
(* that exited in between the answer has a state and no memory; that       *)
(* memory has gone is never said of a process that still runs.             *)
SampleWasTrue ==
  sample.kind = "ok" =>
    /\ sample.state = StateLetter[then.life]
    /\ sample.user = then.utime /\ sample.system = then.stime
    /\ sample.total = Saturated(then.utime + then.stime)
    /\ sample.threads = then.threads
    /\ IF later.life = "runs"
       THEN sample.rss = Bytes(later.rss) /\ sample.size = Bytes(later.size)
       ELSE sample.rss = 0 /\ sample.size = 0
    /\ sample.size = 0 /\ later.size # 0 => process.life # "runs"
=============================================================================
