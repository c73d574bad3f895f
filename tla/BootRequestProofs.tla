-------------------------- MODULE BootRequestProofs --------------------------
(***************************************************************************)
(* For every word size and every unit of memory: what validation lets      *)
(* through reaches the VMM without losing a bit, and can be booted.        *)
(***************************************************************************)
EXTENDS BootRequest, TLAPS

(* The bound of validation is the largest number that can be shifted.      *)
LEMMA BoundIsTight ==
  ASSUME NEW m \in Nat
  PROVE  m <= MaxMemory <=> m * MiB <= WordSize - 1
<1> DEFINE w == WordSize - 1
           q == MaxMemory
<1>1. w \in Nat /\ MiB \in Nat \ {0} /\ q = w \div MiB
  BY WordAssumption, MemoryAssumption DEF MaxMemory, Word
<1>2. q \in Nat /\ q * MiB <= w /\ w < (q + 1) * MiB
  BY <1>1, Z3
<1> HIDE DEF w, q
<1>3. CASE m <= q
  <2>1. m * MiB <= q * MiB
    BY <1>1, <1>2, <1>3, Z3
  <2> QED
    BY <2>1, <1>1, <1>2, <1>3 DEF q, w
<1>4. CASE m >= q + 1
  <2>1. (q + 1) * MiB <= m * MiB
    BY <1>1, <1>2, <1>4, Z3
  <2> QED
    BY <2>1, <1>1, <1>2, <1>4 DEF q, w
<1> QED
  BY <1>2, <1>3, <1>4

(* A number that fits is shifted without loss. *)
LEMMA ShiftKeepsBits ==
  ASSUME NEW m \in Nat, m * MiB <= WordSize - 1
  PROVE  Shifted(m) = m * MiB
<1> DEFINE n == m * MiB
<1>1. n \in Nat /\ WordSize \in Nat \ {0} /\ n < WordSize
  BY WordAssumption, MemoryAssumption DEF Word
<1> HIDE DEF n
<1>2. n % WordSize = n
  BY <1>1
<1> QED
  BY <1>2 DEF n, Shifted, Wrapped

(* What validation established is remembered by the steps after it.        *)
IInv ==
  /\ config \in Configs
  /\ verdict = "ok" => config.memoryMb # 0 /\ config.memoryMb <= MaxMemory
  /\ verdict = "memoryMb" =>
       config.memoryMb = 0 \/ ~(config.memoryMb <= MaxMemory)
  /\ body.kind = "create" => verdict = "ok" /\ body = CreateBody(config)

(* A configuration that passes has a memory size within the bound, and one *)
(* refused for its memory size has not.                                    *)
LEMMA MemoryChecked ==
  ASSUME NEW c
  PROVE  /\ Passes(c) => c.memoryMb # 0 /\ c.memoryMb <= MaxMemory
         /\ FailsAt(c, "memoryMb") => c.memoryMb = 0 \/ ~(c.memoryMb <= MaxMemory)
<1>1. DOMAIN Checks(c) = 1..12
  BY DEF Checks
<1>2. /\ Checks(c)[3][2] = (c.memoryMb # 0)
      /\ Checks(c)[5][2] = (c.memoryMb <= MaxMemory)
  BY DEF Checks
<1>3. /\ Checks(c)[1][1] = "name" /\ Checks(c)[2][1] = "cpus"
      /\ Checks(c)[4][1] = "bootMode" /\ Checks(c)[6][1] = "kernelPath"
      /\ Checks(c)[7][1] = "firmwarePath" /\ Checks(c)[8][1] = "disks"
      /\ Checks(c)[9][1] = "kernelPath" /\ Checks(c)[10][1] = "initrdPath"
      /\ Checks(c)[11][1] = "firmwarePath" /\ Checks(c)[12][1] = "snapshotPath"
  BY DEF Checks
<1>4. ASSUME Passes(c) PROVE c.memoryMb # 0 /\ c.memoryMb <= MaxMemory
  <2>1. Checks(c)[3][2] /\ Checks(c)[5][2]
    BY <1>1, <1>4 DEF Passes
  <2> QED
    BY <1>2, <2>1
<1>5. ASSUME FailsAt(c, "memoryMb")
      PROVE  c.memoryMb = 0 \/ ~(c.memoryMb <= MaxMemory)
  <2>1. PICK k \in 1..12 : Checks(c)[k] = <<"memoryMb", FALSE>>
    BY <1>1, <1>5 DEF FailsAt
  <2>2. Checks(c)[k][1] = "memoryMb" /\ Checks(c)[k][2] = FALSE
    BY <2>1
  <2>3. k = 3 \/ k = 5
    BY <1>3, <2>2
  <2> QED
    BY <1>2, <2>2, <2>3
<1> QED
  BY <1>4, <1>5

(* The inductive invariant of a boot request: what is known of the memory  *)
(* size of a configuration at each verdict.                                *)
THEOREM Invariance == BootSpec => []IInv
<1>1. BootInit => IInv
  BY DEF BootInit, IInv, NoBody
<1>2. IInv /\ [BootNext]_bootVars => IInv'
  <2> SUFFICES ASSUME IInv, [BootNext]_bootVars PROVE IInv'
    OBVIOUS
  <2>1. CASE Accept
    BY <2>1, MemoryChecked DEF IInv, Accept, CreateBody
  <2>2. CASE Refuse
    BY <2>2, MemoryChecked DEF IInv, Refuse, CreateBody, Fields
  <2>3. CASE Send
    <3>1. /\ UNCHANGED <<config, verdict>> /\ verdict = "ok"
          /\ body' = RestoreBody(config) \/ body' = CreateBody(config)
      BY <2>3 DEF Send
    <3>2. RestoreBody(config).kind # "create"
      BY DEF RestoreBody
    <3> QED
      BY <3>1, <3>2 DEF IInv, CreateBody
  <2>4. CASE UNCHANGED bootVars
    BY <2>4 DEF IInv, bootVars, CreateBody
  <2> QED
    BY <2>1, <2>2, <2>3, <2>4 DEF BootNext
<1> QED
  BY <1>1, <1>2, PTL DEF BootSpec

(* memory_mb << 20 of a validated request loses nothing, whatever the      *)
(* width of the word and the size of the unit, and what validation refuses *)
(* would have lost something.                                              *)
THEOREM MemoryStaysIntact == BootSpec => []MemoryIntact
<1>1. IInv => MemoryIntact
  <2> SUFFICES ASSUME IInv PROVE MemoryIntact
    OBVIOUS
  <2> DEFINE m == config.memoryMb
  <2>0. m \in MemoryInputs
    BY DEF IInv, Configs
  <2>1. m \in Nat /\ MiB \in Nat \ {0} /\ m * MiB \in Nat
    <3> HIDE DEF m
    <3>1. WordSize \in Nat /\ MiB \in 1..WordSize /\ m \in 0..WordSize - 1
      BY <2>0, WordAssumption, MemoryAssumption DEF Word
    <3> QED
      BY <3>1
  <2>2. m # 0 => m * MiB > 0
    BY <2>1, Z3
  <2>3. m = 0 => m * MiB = 0
    BY <2>1, Z3
  <2>4. ASSUME body.kind = "create" PROVE body.memory = m * MiB /\ body.memory > 0
    <3>1. m # 0 /\ m * MiB <= WordSize - 1 /\ body.memory = Shifted(m)
      BY <2>1, <2>4, BoundIsTight DEF IInv, CreateBody
    <3> QED
      BY <2>1, <2>2, <3>1, ShiftKeepsBits
  <2>5. ASSUME verdict = "memoryMb" PROVE m * MiB \notin 1..WordSize - 1
    BY <2>1, <2>3, <2>5, BoundIsTight DEF IInv
  <2> QED
    BY <2>4, <2>5 DEF MemoryIntact
<1> QED
  BY <1>1, Invariance, PTL

-----------------------------------------------------------------------------
(* Every body was validated as a whole, and says what the request says.    *)
BodyInv ==
  /\ config \in Configs
  /\ verdict = "ok" => Passes(config)
  /\ body = NoBody \/
     /\ verdict = "ok"
     /\ IF config.snapshot # "none"
        THEN body = RestoreBody(config) ELSE body = CreateBody(config)

(* The verdict is on the request alone. *)
LEMMA SamePasses ==
  ASSUME config' = config, Passes(config)
  PROVE  Passes(config)'
<1>1. Checks(config)' = Checks(config)
  BY DEF Checks, Starts, MaxMemory, Lowered
<1> QED
  BY <1>1 DEF Passes

(* The inductive invariant behind BodyBoots: a body was made from a        *)
(* configuration that passed.                                              *)
THEOREM BodyInvariance == BootSpec => []BodyInv
<1>1. BootInit => BodyInv
  BY DEF BootInit, BodyInv
<1>2. BodyInv /\ [BootNext]_bootVars => BodyInv'
  <2> SUFFICES ASSUME BodyInv, [BootNext]_bootVars PROVE BodyInv'
    OBVIOUS
  <2>1. CASE Accept
    <3>1. Passes(config)'
      BY <2>1, SamePasses DEF Accept
    <3> QED
      BY <2>1, <3>1 DEF BodyInv, Accept
  <2>2. CASE Refuse
    BY <2>2 DEF BodyInv, Refuse, Fields
  <2>3. CASE Send
    <3>1. Passes(config)'
      BY <2>3, SamePasses DEF BodyInv, Send
    <3> QED
      BY <2>3, <3>1 DEF BodyInv, Send, RestoreBody, CreateBody
  <2>4. CASE UNCHANGED bootVars
    <3>1. verdict = "ok" => Passes(config)'
      BY <2>4, SamePasses DEF BodyInv, bootVars
    <3> QED
      BY <2>4, <3>1 DEF BodyInv, bootVars, RestoreBody, CreateBody
  <2> QED
    BY <2>1, <2>2, <2>3, <2>4 DEF BootNext
<1> QED
  BY <1>1, <1>2, PTL DEF BootSpec

(* What the checks on mode and paths come to. *)
LEMMA PathsChecked ==
  ASSUME NEW c, Passes(c)
  PROVE  /\ Lowered[c.bootMode] \in {"linux", "uefi"}
         /\ Starts(c, "linux", c.kernel) /\ Starts(c, "uefi", c.firmware)
         /\ "relative" \notin c.disks
         /\ c.kernel # "relative" /\ c.initrd # "relative"
         /\ c.firmware # "relative" /\ c.snapshot # "relative"
<1>1. DOMAIN Checks(c) = 1..12
  BY DEF Checks
<1>2. /\ Checks(c)[4][2] /\ Checks(c)[6][2] /\ Checks(c)[7][2] /\ Checks(c)[8][2]
      /\ Checks(c)[9][2] /\ Checks(c)[10][2] /\ Checks(c)[11][2] /\ Checks(c)[12][2]
  BY <1>1 DEF Passes
<1>3. /\ Checks(c)[4][2] = (Lowered[c.bootMode] \in {"linux", "uefi"})
      /\ Checks(c)[6][2] = Starts(c, "linux", c.kernel)
      /\ Checks(c)[7][2] = Starts(c, "uefi", c.firmware)
      /\ Checks(c)[8][2] = ("relative" \notin c.disks)
  BY DEF Checks
<1>4. /\ Checks(c)[9][2] = (c.kernel # "relative")
      /\ Checks(c)[10][2] = (c.initrd # "relative")
      /\ Checks(c)[11][2] = (c.firmware # "relative")
      /\ Checks(c)[12][2] = (c.snapshot # "relative")
  BY DEF Checks
<1> QED
  BY <1>2, <1>3, <1>4

(* Every body that is sent can be booted, for every request: whatever      *)
(* validation lets through names the files its boot mode needs.            *)
THEOREM BodiesBoot == BootSpec => []BodyBoots
<1>1. BodyInv => BodyBoots
  <2> SUFFICES ASSUME BodyInv PROVE BodyBoots
    OBVIOUS
  <2>1. ASSUME body = RestoreBody(config), Passes(config), config.snapshot # "none"
        PROVE  BodyBoots
    <3>1. config.snapshot \in Paths
      BY DEF BodyInv, Configs
    <3>2. config.snapshot = "absolute"
      BY <2>1, <3>1, PathsChecked DEF Paths
    <3>3. body.kind = "restore" /\ body.source = config.snapshot
      BY <2>1 DEF RestoreBody
    <3> QED
      BY <3>2, <3>3 DEF BodyBoots
  <2>2. ASSUME body = CreateBody(config), Passes(config), config.snapshot = "none"
        PROVE  BodyBoots
    <3>1. config.kernel \in Paths /\ config.firmware \in Paths /\ config.initrd \in Paths
      BY DEF BodyInv, Configs
    <3>2. body.kind = "create" /\ "relative" \notin body.disks
      BY <2>2, PathsChecked DEF CreateBody
    <3>3. CASE Lowered[config.bootMode] = "uefi"
      <4>1. body.files = [firmware |-> config.firmware]
        BY <2>2, <3>3 DEF CreateBody
      <4>2. config.firmware = "absolute"
        BY <2>2, <3>1, <3>3, PathsChecked DEF Starts, Paths
      <4>3. DOMAIN body.files = {"firmware"} /\ body.files["firmware"] = "absolute"
        BY <4>1, <4>2
      <4> QED
        BY <3>2, <4>3 DEF BodyBoots
    <3>4. CASE Lowered[config.bootMode] # "uefi"
      <4>1. body.files = [kernel |-> config.kernel, initramfs |-> config.initrd]
        BY <2>2, <3>4 DEF CreateBody
      <4>2. config.kernel = "absolute" /\ config.initrd # "relative"
        BY <2>2, <3>1, <3>4, PathsChecked DEF Starts, Paths
      <4>3. /\ DOMAIN body.files = {"kernel", "initramfs"}
            /\ body.files["kernel"] = "absolute" /\ body.files["initramfs"] # "relative"
        BY <4>1, <4>2
      <4> QED
        BY <3>2, <4>3 DEF BodyBoots
    <3> QED
      BY <3>3, <3>4
  <2>3. CASE body = NoBody
    BY <2>3 DEF NoBody, BodyBoots
  <2> QED
    BY <2>1, <2>2, <2>3 DEF BodyInv
<1> QED
  BY <1>1, BodyInvariance, PTL
=============================================================================
