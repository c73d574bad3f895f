----------------------------- MODULE MetricsProofs -----------------------------
(***************************************************************************)
(* The numbers from /proc, in words of any size. Ticks and memory of the   *)
(* host add up: a report is made of the lines that parse, and multiplying  *)
(* by the unit and saturating keep what a difference and its subtrahend    *)
(* add up to. A sample of a process is what the process was, by whatever   *)
(* name it goes: the name ends at the last parenthesis.                    *)
(***************************************************************************)
EXTENDS HostMetrics, VmMetrics, SequenceTheorems, TLAPS

-----------------------------------------------------------------------------
(* The host.                                                               *)

(* What is in use and what is left are all there is, in bytes too, unless  *)
(* more is left than there is: then nothing is in use.                     *)
LEMMA PartsAddUp ==
  ASSUME NEW total \in Nat, NEW left \in Nat
  PROVE  /\ Bytes(total) \in Nat /\ Bytes(left) \in Nat
         /\ Bytes(Minus(total, left)) \in Nat
         /\ Bytes(left) <= Bytes(total) =>
              Saturated(Bytes(Minus(total, left)) + Bytes(left)) = Bytes(total)
         /\ ~(Bytes(left) <= Bytes(total)) => Bytes(Minus(total, left)) = 0
<1> DEFINE t == total * KiB
           l == left * KiB
           u == Minus(total, left) * KiB
<1>1. KiB \in Nat \ {0} /\ WordSize \in Nat \ {0} /\ Minus(total, left) \in Nat
  BY WordAssumption DEF Minus
<1>2. /\ t \in Nat /\ l \in Nat /\ u \in Nat
      /\ Bytes(total) = Saturated(t) /\ Bytes(left) = Saturated(l)
      /\ Bytes(Minus(total, left)) = Saturated(u)
  BY <1>1 DEF Bytes
<1>3. CASE total > left
  <2>1. Minus(total, left) = total - left
    BY <1>3 DEF Minus
  <2>2. u + l = t
    BY <1>1, <2>1
  <2> HIDE DEF t, l, u
  <2> QED
    BY <1>1, <1>2, <2>2 DEF Saturated
<1>4. CASE ~(total > left)
  <2>1. PICK d \in Nat : left = total + d
    BY <1>4
  <2>2. d * KiB \in Nat /\ l = t + d * KiB
    BY <1>1, <2>1
  <2>3. u = 0
    BY <1>1, <1>4 DEF Minus
  <2> HIDE DEF t, l, u
  <2> QED
    BY <1>1, <1>2, <2>2, <2>3 DEF Saturated
<1> QED
  BY <1>3, <1>4

(* What a line may say, whatever values are tried. *)
AnyLine == Word \cup {Absent, Garbled}

(* A line of ticks, whatever values are tried. *)
TickLine(line) ==
  \E n \in {3, 4, 5, 10}, user, other, idle, iowait, guest \in Word :
    line = CpuLine(n, user, other, idle, iowait, guest)

(* A report is about the host it was made of. *)
HostInv ==
  /\ host.memory \in [Keys -> AnyLine] /\ TickLine(host.cpu)
  /\ report.kind = "ok" =>
       /\ Parses(host.memory) /\ report.memory = Memory(host.memory)
       /\ Len(host.cpu) >= 4 /\ report.cpu = Cpu(host.cpu)

(* The numbers of lines that parse are numbers.                            *)
LEMMA NumbersRead ==
  ASSUME NEW m \in [Keys -> AnyLine], Parses(m), NEW k \in Keys
  PROVE  Kibs(m, k) \in Nat
<1>1. m[k] \in Word \cup {Absent}
  BY DEF Parses, AnyLine
<1> QED
  BY <1>1, WordAssumption DEF Kibs, Word

(* A line of four ticks or more says how many were idle, and every tick,   *)
(* written or not, is a number.                                            *)
LEMMA LineTicks ==
  ASSUME NEW line, TickLine(line), Len(line) >= 4
  PROVE  line[4] = Tick(line, 4) /\ \A k \in 1..10 : Tick(line, k) \in Nat
<1>1. PICK n \in {3, 4, 5, 10}, user, other, idle, iowait, guest \in Word :
        line = CpuLine(n, user, other, idle, iowait, guest)
  BY DEF TickLine
<1>2. Word \subseteq Nat
  BY WordAssumption DEF Word
<1>3. line \in [1..n -> Nat]
  BY <1>1, <1>2 DEF CpuLine
<1>4. n \in Nat /\ Len(line) = n
  BY <1>3, IsASeq, LenProperties
<1> QED
  BY <1>3, <1>4 DEF Tick

(* The invariant holds in every reachable state, for words of any size.    *)
THEOREM Invariance == HostSpec => []HostInv
<1>1. HostInit => HostInv
  <2> SUFFICES ASSUME HostInit PROVE HostInv
    OBVIOUS
  <2>1. 0 \in AnyLine /\ Lines \subseteq AnyLine
    <3>1. 0 \in Word
      BY WordAssumption DEF Word
    <3> QED
      BY <3>1, HostAssumption DEF AnyLine, Lines
  <2>2. Fine.memory \in [Keys -> AnyLine]
    BY <2>1 DEF Fine
  <2>3. \/ \E line \in CpuLines : host = [Fine EXCEPT !.cpu = line]
        \/ \E m \in [Keys -> Lines] : host = [Fine EXCEPT !.memory = m]
        \/ \E file \in OtherFiles : host = [Fine EXCEPT !.unread = {file}]
    BY DEF HostInit, Hosts
  <2>4. TickLine(Fine.cpu) /\ \A line \in CpuLines : TickLine(line)
    <3>1. 0 \in Word /\ TickInputs \subseteq Word
      BY WordAssumption, HostAssumption DEF Word
    <3> QED
      BY <3>1 DEF Fine, CpuLines, TickLine
  <2>5. host.memory \in [Keys -> AnyLine] /\ TickLine(host.cpu)
    <3>1. CASE \E m \in [Keys -> Lines] : host = [Fine EXCEPT !.memory = m]
      <4>1. PICK m \in [Keys -> Lines] : host = [Fine EXCEPT !.memory = m]
        BY <3>1
      <4>2. host.memory = m /\ m \in [Keys -> AnyLine] /\ host.cpu = Fine.cpu
        BY <2>1, <4>1 DEF Fine
      <4> QED
        BY <2>4, <4>2
    <3>2. CASE \E line \in CpuLines : host = [Fine EXCEPT !.cpu = line]
      <4>1. PICK line \in CpuLines : host = [Fine EXCEPT !.cpu = line]
        BY <3>2
      <4>2. host.memory = Fine.memory /\ host.cpu = line
        BY <4>1 DEF Fine
      <4> QED
        BY <2>2, <2>4, <4>2
    <3>3. CASE \E file \in OtherFiles : host = [Fine EXCEPT !.unread = {file}]
      <4>1. host.memory = Fine.memory /\ host.cpu = Fine.cpu
        BY <3>3 DEF Fine
      <4> QED
        BY <2>2, <2>4, <4>1
    <3> QED
      BY <2>3, <3>1, <3>2, <3>3
  <2> QED
    BY <2>5 DEF HostInit, HostInv, NoReport
<1>2. HostInv /\ [HostNext]_hostVars => HostInv'
  BY DEF HostInv, HostNext, CollectHost, CollectFails, Failed, hostVars
<1> QED
  BY <1>1, <1>2, PTL DEF HostSpec

(* read_memory_metrics, for every meminfo and words of any size: memory in *)
(* use and available are all there is, also in bytes that saturate, and    *)
(* none is in use where more is said to be available than there is; and so *)
(* it is with swap.                                                        *)
THEOREM MemoryAlwaysAddsUp == HostSpec => []MemoryAddsUp
<1>1. ASSUME HostInv PROVE MemoryAddsUp
  <2> SUFFICES ASSUME report.kind = "ok"
               PROVE  LET m == report.memory IN
                      /\ IF m.available <= m.total
                         THEN Saturated(m.used + m.available) = m.total
                         ELSE m.used = 0
                      /\ IF m.swapFree <= m.swapTotal
                         THEN Saturated(m.swapUsed + m.swapFree) = m.swapTotal
                         ELSE m.swapUsed = 0
    BY DEF MemoryAddsUp
  <2> DEFINE kibs(k) == Kibs(host.memory, k)
  <2>1. \A k \in Keys : kibs(k) \in Nat
    BY <1>1, NumbersRead DEF HostInv
  <2>2. /\ kibs("MemTotal") \in Nat /\ kibs("MemAvailable") \in Nat
        /\ kibs("SwapTotal") \in Nat /\ kibs("SwapFree") \in Nat
    BY <2>1 DEF Keys
  <2>3. /\ report.memory.total = Bytes(kibs("MemTotal"))
        /\ report.memory.available = Bytes(kibs("MemAvailable"))
        /\ report.memory.used = Bytes(Minus(kibs("MemTotal"), kibs("MemAvailable")))
        /\ report.memory.swapTotal = Bytes(kibs("SwapTotal"))
        /\ report.memory.swapFree = Bytes(kibs("SwapFree"))
        /\ report.memory.swapUsed = Bytes(Minus(kibs("SwapTotal"), kibs("SwapFree")))
    BY <1>1 DEF HostInv, Memory, Used, SwapUsed
  <2> HIDE DEF kibs
  <2> DEFINE m == report.memory
  <2>4. IF m.available <= m.total THEN Saturated(m.used + m.available) = m.total
                                  ELSE m.used = 0
    <3>1. PICK total, left \in Nat :
            total = kibs("MemTotal") /\ left = kibs("MemAvailable")
      BY <2>2
    <3>2. /\ m.total = Bytes(total) /\ m.available = Bytes(left)
          /\ m.used = Bytes(Minus(total, left))
      BY <2>3, <3>1
    <3> QED
      BY <3>2, PartsAddUp
  <2>5. IF m.swapFree <= m.swapTotal
        THEN Saturated(m.swapUsed + m.swapFree) = m.swapTotal
        ELSE m.swapUsed = 0
    <3>1. PICK total, left \in Nat :
            total = kibs("SwapTotal") /\ left = kibs("SwapFree")
      BY <2>2
    <3>2. /\ m.swapTotal = Bytes(total) /\ m.swapFree = Bytes(left)
          /\ m.swapUsed = Bytes(Minus(total, left))
      BY <2>3, <3>1
    <3> QED
      BY <3>2, PartsAddUp
  <2> QED
    BY <2>4, <2>5
<1> QED
  BY <1>1, Invariance, PTL

(* read_cpu_metrics, for every line of ticks whose sum fits a word: idle   *)
(* and busy ticks are all there are, and busy ticks are those spent on     *)
(* anything but idling and waiting, with those of guests once more.        *)
THEOREM TicksAlwaysAddUp == HostSpec => []TicksAddUp
<1>1. ASSUME HostInv PROVE TicksAddUp
  <2> DEFINE tick(k) == Tick(host.cpu, k)
             busy == tick(1) + tick(2) + tick(3) + tick(6) + tick(7)
                       + tick(8) + tick(9) + tick(10)
  <2> SUFFICES ASSUME report.kind = "ok", Sum(host.cpu) < WordSize
               PROVE  /\ report.cpu.busy + report.cpu.idle = report.cpu.total
                      /\ report.cpu.busy = busy
    BY DEF TicksAddUp
  <2>1. TickLine(host.cpu) /\ Len(host.cpu) >= 4 /\ report.cpu = Cpu(host.cpu)
    BY <1>1 DEF HostInv
  <2>2. host.cpu[4] = tick(4) /\ \A k \in 1..10 : tick(k) \in Nat
    BY <2>1, LineTicks
  <2>3. /\ tick(1) \in Nat /\ tick(2) \in Nat /\ tick(3) \in Nat
        /\ tick(4) \in Nat /\ tick(5) \in Nat /\ tick(6) \in Nat
        /\ tick(7) \in Nat /\ tick(8) \in Nat /\ tick(9) \in Nat
        /\ tick(10) \in Nat
    BY <2>2
  <2>4. WordSize \in Nat \ {0}
    BY WordAssumption
  <2>5. /\ Sum(host.cpu) = tick(1) + tick(2) + tick(3) + tick(4) + tick(5)
                            + tick(6) + tick(7) + tick(8) + tick(9) + tick(10)
        /\ Idle(host.cpu) = Saturated(tick(4) + tick(5))
    BY <2>2 DEF Sum, Idle, IoWait
  <2> HIDE DEF tick
  <2>6. /\ busy \in Nat /\ tick(4) + tick(5) \in Nat
        /\ Sum(host.cpu) = busy + (tick(4) + tick(5))
    BY <2>3, <2>5
  <2> HIDE DEF busy
  <2>7. /\ Idle(host.cpu) = tick(4) + tick(5)
        /\ Wrapped(Sum(host.cpu)) = busy + (tick(4) + tick(5))
    BY <2>4, <2>5, <2>6 DEF Saturated, Wrapped
  <2>8. /\ report.cpu.total = busy + (tick(4) + tick(5))
        /\ report.cpu.idle = tick(4) + tick(5)
        /\ report.cpu.busy = Minus(busy + (tick(4) + tick(5)), tick(4) + tick(5))
    BY <2>1, <2>7 DEF Cpu
  <2> QED
    BY <2>6, <2>8 DEF Minus
<1> QED
  BY <1>1, Invariance, PTL

-----------------------------------------------------------------------------
(* The process of a VMM.                                                   *)

(* The tokens of a line of stat. *)
Token == Word \cup {Open, Close, Letter} \cup {StateLetter["runs"], StateLetter["exited"]}

Processes ==
  [life : {"runs", "exited", "gone"}, comm : Comms, utime : Word, stime : Word,
   threads : {1, 2}, rss : SizesTried, size : SizesTried]

(* What there is to be parsed of a process. *)
StatOf(p) ==
  [kind |-> "ok", state |-> StateLetter[p.life], utime |-> p.utime,
   stime |-> p.stime, threads |-> p.threads]

(* What was parsed is of the process as it was then, and the memory of a   *)
(* sample of the process as it was later. One that has exited stays so.    *)
SampleInv ==
  /\ process \in Processes /\ then \in Processes /\ later \in Processes
  /\ stat \in {NoStat, StatOf(then)}
  /\ SampleWasTrue

(* Tokens that are not numbers are not numbers, and differ.                *)
LEMMA TokensDiffer ==
  /\ Word \subseteq Nat /\ 1 \in Word /\ 2 \in Word /\ 7 \in Word
  /\ Close \notin Word
  /\ \A life \in {"runs", "exited"} : StateLetter[life] # Close
  /\ \A life \in {"runs", "exited"} : StateLetter[life] \in Token
BY WordAssumption, ProcessAssumption DEF Word, Close, StateLetter, Token

(* parse_proc_stat finds the fields behind whatever name a process has,    *)
(* parentheses and all.                                                    *)
LEMMA StatParses ==
  ASSUME NEW p \in Processes, p.life # "gone"
  PROVE  ParseStat(StatLine(p)) = StatOf(p)
<1> DEFINE field == [k \in 3..22 |-> CASE k = 3  -> StateLetter[p.life]
                                       [] k = 14 -> p.utime
                                       [] k = 15 -> p.stime
                                       [] k = 20 -> p.threads
                                       [] OTHER  -> 7]
           fields == [k \in 1..20 |-> field[k + 2]]
           head == <<1, Open>>
           name == head \o p.comm
           line == StatLine(p)
           n == Len(p.comm)
<1>1. /\ p.life \in {"runs", "exited"} /\ p.utime \in Word /\ p.stime \in Word
      /\ p.threads \in Word /\ p.comm \in Comms
  BY TokensDiffer DEF Processes
<1>2. p.comm \in Seq(Token) /\ n \in Nat
  <2>1. Letter \in Token /\ Close \in Token /\ StateLetter["exited"] \in Token
        /\ 1 \in Token
    BY TokensDiffer DEF Token
  <2>2. /\ <<Letter>> \in Seq(Token) /\ <<Letter, Letter>> \in Seq(Token)
        /\ <<Letter, Close>> \in Seq(Token) /\ <<Close, Letter>> \in Seq(Token)
        /\ <<Close, StateLetter["exited"], 1>> \in Seq(Token)
    BY <2>1
  <2>3. p.comm \in Seq(Token)
    BY <1>1, <2>2 DEF Comms
  <2> QED
    BY <2>3
<1> HIDE DEF n
<1>3. /\ \A k \in 1..20 : fields[k] \in Token /\ fields[k] # Close
      /\ fields[1] = StateLetter[p.life] /\ fields[12] = p.utime
      /\ fields[13] = p.stime /\ fields[18] = p.threads
  <2>1. \A k \in 3..22 : field[k] \in Word \cup {StateLetter[p.life]}
    BY <1>1, TokensDiffer
  <2>2. \A k \in 1..20 : k + 2 \in 3..22 /\ fields[k] = field[k + 2]
    OBVIOUS
  <2>3. /\ field[3] = StateLetter[p.life] /\ field[14] = p.utime
        /\ field[15] = p.stime /\ field[20] = p.threads
    OBVIOUS
  <2> HIDE DEF field, fields
  <2>4. \A k \in 1..20 : fields[k] \in Word \cup {StateLetter[p.life]}
    BY <2>1, <2>2
  <2>5. /\ fields[1] = field[3] /\ fields[12] = field[14]
        /\ fields[13] = field[15] /\ fields[18] = field[20]
    BY <2>2
  <2> QED
    BY <1>1, <2>3, <2>4, <2>5, TokensDiffer DEF Token
<1>4. fields \in [1..20 -> Token]
  BY <1>3
<1>5. fields \in Seq(Token) /\ Len(fields) = 20
  BY <1>4, IsASeq, LenProperties
<1>6. line = ((head \o p.comm) \o <<Close>>) \o fields
  BY DEF StatLine
<1> HIDE DEF fields, line
<1>7. name \in Seq(Token) /\ Len(name) = n + 2
  BY <1>2, TokensDiffer DEF Token, n
<1> HIDE DEF name
<1>8. /\ line \in Seq(Token) /\ Len(line) = n + 23
      /\ line[n + 3] = Close
      /\ \A k \in 1..20 : line[n + 3 + k] = fields[k]
  <2> DEFINE front == name \o <<Close>>
  <2>1. /\ front \in Seq(Token) /\ Len(front) = n + 3 /\ front[n + 3] = Close
    BY <1>2, <1>7 DEF Token
  <2>2. line = front \o fields
    BY <1>6 DEF name
  <2> HIDE DEF front
  <2>3. /\ line \in Seq(Token) /\ Len(line) = (n + 3) + 20
        /\ \A k \in 1..(n + 3) + 20 :
             line[k] = IF k <= n + 3 THEN front[k] ELSE fields[k - (n + 3)]
    <3>1. /\ line \in Seq(Token) /\ Len(line) = Len(front) + Len(fields)
          /\ \A k \in 1..Len(front) + Len(fields) :
               line[k] = IF k <= Len(front) THEN front[k] ELSE fields[k - Len(front)]
      BY <1>5, <2>1, <2>2, ConcatProperties, Zenon
    <3> QED
      BY <1>5, <2>1, <3>1
  <2>5. line[n + 3] = Close
    BY <1>2, <2>1, <2>3
  <2>6. ASSUME NEW k \in 1..20 PROVE line[n + 3 + k] = fields[k]
    <3>1. PICK j \in Nat : j = n + 3 + k
      BY <1>2
    <3>2. j \in 1..(n + 3) + 20 /\ ~(j <= n + 3) /\ j - (n + 3) = k
      BY <1>2, <3>1
    <3>3. line[j] = fields[k]
      BY <2>3, <3>2
    <3> QED
      BY <3>1, <3>3
  <2> QED
    BY <1>2, <2>3, <2>5, <2>6
<1>9. n + 3 \in DOMAIN line /\ \A j \in n + 4..Len(line) : line[j] # Close
  <2>1. ASSUME NEW j \in n + 4..Len(line) PROVE line[j] # Close
    <3>1. j - (n + 3) \in 1..20 /\ j = n + 3 + (j - (n + 3))
      BY <1>2, <1>8
    <3>2. line[j] = fields[j - (n + 3)]
      BY <1>8, <3>1
    <3> QED
      BY <1>3, <3>1, <3>2
  <2>2. n + 3 \in 1..Len(line) /\ DOMAIN line = 1..Len(line)
    <3>1. Len(line) \in Nat /\ n + 3 >= 1 /\ n + 3 <= Len(line)
      BY <1>2, <1>8
    <3>2. DOMAIN line = 1..Len(line)
      BY <1>8
    <3> QED
      BY <1>2, <3>1, <3>2
  <2> QED
    BY <2>1, <2>2
<1> DEFINE close == CHOOSE k \in DOMAIN line :
                      line[k] = Close /\ \A j \in k + 1..Len(line) : line[j] # Close
<1>10. close = n + 3
  <2>1. \A j \in (n + 3) + 1..Len(line) : line[j] # Close
    BY <1>2, <1>9
  <2>2. /\ close \in DOMAIN line /\ line[close] = Close
        /\ \A j \in close + 1..Len(line) : line[j] # Close
    BY <1>8, <1>9, <2>1
  <2> HIDE DEF close
  <2>3. close \in 1..Len(line) /\ Len(line) \in Nat
    BY <1>8, <2>2
  <2>4. ASSUME close < n + 3 PROVE FALSE
    <3>1. n + 3 \in close + 1..Len(line)
      BY <1>2, <1>8, <2>3, <2>4
    <3> QED
      BY <1>8, <2>2, <3>1
  <2>5. ASSUME close > n + 3 PROVE FALSE
    <3>1. close \in n + 4..Len(line)
      BY <1>2, <2>3, <2>5
    <3> QED
      BY <1>9, <2>2, <3>1
  <2> QED
    BY <1>2, <2>3, <2>4, <2>5
<1> DEFINE after == SubSeq(line, n + 4, Len(line))
<1>11. Len(after) = 20 /\ \A k \in 1..20 : after[k] = line[n + 3 + k]
  <2>0. Len(line) = n + 23
    BY <1>8
  <2> HIDE DEF n
  <2>1. n + 4 \in 1..Len(line) + 1 /\ Len(line) \in 1..Len(line)
    BY <1>2, <2>0
  <2>2. Len(line) - (n + 4) + 1 = 20
    BY <1>2, <2>0
  <2>3. /\ Len(after) = 20
        /\ \A k \in 1..20 : after[k] = line[n + 4 + k - 1]
    BY <1>2, <1>8, <2>1, <2>2, SubSeqProperties
  <2>4. \A k \in 1..20 : n + 4 + k - 1 = n + 3 + k
    BY <1>2
  <2> QED
    BY <2>3, <2>4
<1>12. ParseStat(line) = ParseFields(after)
  <2>1. close + 1 = n + 4
    <3> HIDE DEF close
    <3> QED
      BY <1>2, <1>10
  <2>2. ParseStat(line) = ParseFields(SubSeq(line, close + 1, Len(line)))
    BY DEF ParseStat
  <2> QED
    BY <2>1, <2>2
<1> HIDE DEF after
<1>13. /\ after[1] = StateLetter[p.life] /\ after[12] = p.utime
       /\ after[13] = p.stime /\ after[18] = p.threads
  <2>1. \A k \in 1..20 : after[k] = fields[k]
    BY <1>8, <1>11
  <2> QED
    BY <1>3, <2>1
<1>14. ParseFields(after) = StatOf(p)
  BY <1>1, <1>11, <1>13 DEF ParseFields, StatOf
<1> QED
  BY <1>12, <1>14 DEF line

(* A process with memory has memory in bytes. *)
LEMMA MemoryShows ==
  ASSUME NEW kibs \in Word
  PROVE  Bytes(0) = 0 /\ (kibs # 0 => Bytes(kibs) # 0)
<1>1. /\ KiB \in Nat \ {0} /\ WordSize \in Nat /\ WordSize > 7 /\ kibs \in Nat
      /\ kibs * KiB \in Nat /\ 0 * KiB = 0
  BY WordAssumption, ProcessAssumption DEF Word
<1>2. ASSUME kibs # 0 PROVE kibs * KiB # 0
  BY <1>1, <1>2
<1> QED
  BY <1>1, <1>2 DEF Bytes, Saturated

(* What was parsed, of whom, and the end of the process do not change.     *)
LEMMA SampleInvariance == ProcessSpec => []SampleInv
<1>1. ASSUME ProcessInit PROVE SampleInv
  <2>1. process \in Processes
    <3>1. 0 \in Word
      BY WordAssumption DEF Word
    <3> QED
      BY <1>1, <3>1 DEF ProcessInit, Begun, Processes
  <2> QED
    BY <1>1, <2>1 DEF ProcessInit, SampleInv, SampleWasTrue, NoSample
<1>2. ASSUME SampleInv, [ProcessNext]_processVars PROVE SampleInv'
  <2>1. CASE ReadStat
    <3>1. /\ process.life # "gone" /\ then' = process
          /\ UNCHANGED <<process, later>>
          /\ stat' = ParseStat(StatLine(process))
          /\ sample' = IF stat' = NoStat THEN SampleFailed ELSE NoSample
      BY <2>1 DEF ReadStat
    <3>2. stat' = StatOf(then')
      BY <1>2, <3>1, StatParses DEF SampleInv
    <3>3. sample'.kind # "ok"
      BY <3>1 DEF SampleFailed, NoSample
    <3> QED
      BY <1>2, <3>1, <3>2, <3>3 DEF SampleInv, SampleWasTrue
  <2>2. CASE ReadStatus
    <3>1. /\ later' = process /\ UNCHANGED <<process, stat, then>>
          /\ stat = StatOf(then)
          /\ sample'.state = stat.state /\ sample'.threads = stat.threads
          /\ sample'.user = stat.utime /\ sample'.system = stat.stime
          /\ sample'.total = Saturated(stat.utime + stat.stime)
          /\ sample'.rss = Bytes(Status(StatusLines(process), "VmRSS"))
          /\ sample'.size = Bytes(Status(StatusLines(process), "VmSize"))
      BY <1>2, <2>2 DEF ReadStatus, SampleInv
    <3>2. /\ Status(StatusLines(process), "VmRSS")
               = IF process.life = "runs" THEN process.rss ELSE 0
          /\ Status(StatusLines(process), "VmSize")
               = IF process.life = "runs" THEN process.size ELSE 0
      BY DEF Status, StatusLines
    <3>3. process.size \in Word
      BY <1>2, ProcessAssumption DEF SampleInv, Processes
    <3>4. 0 \in Word
      BY WordAssumption DEF Word
    <3>5. /\ IF process.life = "runs"
             THEN sample'.rss = Bytes(process.rss) /\ sample'.size = Bytes(process.size)
             ELSE sample'.rss = 0 /\ sample'.size = 0
          /\ sample'.size = 0 /\ process.size # 0 => process.life # "runs"
      BY <3>1, <3>2, <3>3, <3>4, MemoryShows
    <3>6. /\ stat.state = StateLetter[then.life] /\ stat.utime = then.utime
          /\ stat.stime = then.stime /\ stat.threads = then.threads
      BY <3>1 DEF StatOf
    <3> QED
      BY <1>2, <3>1, <3>5, <3>6 DEF SampleInv, SampleWasTrue
  <2>3. CASE ReadFails
    BY <1>2, <2>3 DEF ReadFails, SampleFailed, SampleInv, SampleWasTrue
  <2>4. CASE ProcessRuns \/ ProcessExits \/ ProcessReaped
    <3>1. /\ process' \in Processes
          /\ process'.life = "runs" => process.life = "runs"
          /\ UNCHANGED <<stat, then, later, sample>>
      BY <1>2, <2>4, ProcessAssumption
         DEF ProcessRuns, ProcessExits, ProcessReaped, Processes, SampleInv
    <3> QED
      BY <1>2, <3>1 DEF SampleInv, SampleWasTrue
  <2>5. CASE UNCHANGED processVars
    BY <1>2, <2>5 DEF processVars, SampleInv, SampleWasTrue
  <2> QED
    BY <1>2, <2>1, <2>2, <2>3, <2>4, <2>5 DEF ProcessNext
<1> QED
  BY <1>1, <1>2, PTL DEF ProcessSpec

(* collect_vm_process_metrics, for words of any size and whatever ticks    *)
(* and sizes a process has: by whatever name it goes and however it runs   *)
(* on meanwhile, the sample gives its state, ticks and threads as they     *)
(* were at the first read and its memory as it was at the second, or none  *)
(* if it exited between the two.                                           *)
THEOREM SamplesAreTrue == ProcessSpec => []SampleWasTrue
<1>1. SampleInv => SampleWasTrue
  BY DEF SampleInv
<1> QED
  BY <1>1, SampleInvariance, PTL
=============================================================================
