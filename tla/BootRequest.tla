----------------------------- MODULE BootRequest -----------------------------
(***************************************************************************)
(* From the boot configuration of a create request to the body of the      *)
(* request to the VMM: validate_boot_config of src/vm_validation.rs, and   *)
(* create_vm_request_body and create_restore_request_body of               *)
(* src/vm_payload.rs, in the order create_vm_with_pool calls them.         *)
(*                                                                         *)
(* A path is absent, absolute or relative; the disks are the kinds of path *)
(* that occur among them; the word size and the shift of memoryMb to bytes *)
(* are constants, 2^64 and 2^20 in the code.                               *)
(***************************************************************************)
EXTENDS Words, Sequences

CONSTANTS
  MiB,          (* bytes of one unit of memoryMb                            *)
  MemoryInputs  (* bound: the values of memoryMb that are tried             *)

ASSUME MemoryAssumption == MiB \in 1..WordSize /\ MemoryInputs \subseteq Word

VARIABLES
  config,   (* the BootConfig of the request                               *)
  verdict,  (* "none" yet, "ok", or the field validation complains of      *)
  body      (* what is sent to the VMM, or NoBody                          *)

bootVars == <<config, verdict, body>>

Paths == {"none", "absolute", "relative"}

(* Boot modes as they are written in requests, and in lower case.          *)
Lowered ==
  [m \in {"", "linux", "Linux", "uefi", "UEFI", "bios"} |->
     CASE m = "Linux" -> "linux" [] m = "UEFI" -> "uefi" [] OTHER -> m]

(* The name is empty once trimmed, or not.                                 *)
Configs ==
  [name : {"", "vm"}, cpus : 0..1, memoryMb : MemoryInputs,
   bootMode : DOMAIN Lowered, disks : SUBSET {"absolute", "relative"},
   kernel : Paths, initrd : Paths, firmware : Paths, snapshot : Paths]

Fields ==
  {"name", "cpus", "memoryMb", "bootMode", "disks", "kernelPath", "initrdPath",
   "firmwarePath", "snapshotPath"}

NoBody == [kind |-> "none"]

-----------------------------------------------------------------------------
(* validate_boot_config *)

(* Slip: the bound of memoryMb is one unit too high. *)
MaxMemoryPast == (WordSize - 1) \div MiB + 1

(* u64::MAX >> 20 *)
MaxMemory == (WordSize - 1) \div MiB

Starts(c, mode, path) ==
  c.snapshot = "none" /\ Lowered[c.bootMode] = mode => path # "none"

(* The checks, in the order they are made: the field and whether it is fine. *)
Checks(c) ==
  << <<"name",         c.name # "">>,
     <<"cpus",         c.cpus # 0>>,
     <<"memoryMb",     c.memoryMb # 0>>,
     <<"bootMode",     Lowered[c.bootMode] \in {"linux", "uefi"}>>,
     <<"memoryMb",     c.memoryMb <= MaxMemory>>,
     <<"kernelPath",   Starts(c, "linux", c.kernel)>>,
     <<"firmwarePath", Starts(c, "uefi", c.firmware)>>,
     <<"disks",        "relative" \notin c.disks>>,
     <<"kernelPath",   c.kernel # "relative">>,
     <<"initrdPath",   c.initrd # "relative">>,
     <<"firmwarePath", c.firmware # "relative">>,
     <<"snapshotPath", c.snapshot # "relative">> >>

(* Every check is fine. *)
Passes(c) == \A k \in DOMAIN Checks(c) : Checks(c)[k][2]

(* The first check that is not is about field. *)
FailsAt(c, field) ==
  \E k \in DOMAIN Checks(c) :
    /\ Checks(c)[k] = <<field, FALSE>>
    /\ \A j \in 1..k - 1 : Checks(c)[j][2]

-----------------------------------------------------------------------------
(* The bodies. *)

(* config.memory_mb << 20: the bits that do not fit are lost. *)
Shifted(m) == Wrapped(m * MiB)

(* Slip: the boot mode is compared as it was written. *)
CreateBodyAsWritten(c) ==
  [kind |-> "create", memory |-> Shifted(c.memoryMb), disks |-> c.disks,
   files |-> IF c.bootMode = "uefi"
             THEN [firmware |-> c.firmware]
             ELSE [kernel |-> c.kernel, initramfs |-> c.initrd]]

CreateBody(c) ==
  [kind |-> "create", memory |-> Shifted(c.memoryMb), disks |-> c.disks,
   files |-> IF Lowered[c.bootMode] = "uefi"
             THEN [firmware |-> c.firmware]
             ELSE [kernel |-> c.kernel, initramfs |-> c.initrd]]

RestoreBody(c) == [kind |-> "restore", source |-> c.snapshot]

-----------------------------------------------------------------------------

BootInit ==
  /\ config \in Configs
  /\ verdict = "none" /\ body = NoBody

(* The request goes on, or is refused with the field that is wrong. *)
Accept ==
  /\ verdict = "none" /\ Passes(config)
  /\ verdict' = "ok"
  /\ UNCHANGED <<config, body>>

Refuse ==
  /\ verdict = "none"
  /\ \E field \in Fields : FailsAt(config, field) /\ verdict' = field
  /\ UNCHANGED <<config, body>>

(* vm.restore if there is a snapshot, else vm.create *)
Send ==
  /\ verdict = "ok" /\ body = NoBody
  /\ body' = IF config.snapshot # "none"
             THEN RestoreBody(config) ELSE CreateBody(config)
  /\ UNCHANGED <<config, verdict>>

BootNext == Accept \/ Refuse \/ Send

BootSpec == BootInit /\ [][BootNext]_bootVars

-----------------------------------------------------------------------------
(* Safety. *)

(* The memory of the VM, in bytes, is what was asked for: the bound that   *)
(* validation sets is just the one the shift of the body needs, neither    *)
(* letting through what would lose bits nor refusing what would not.       *)
MemoryIntact ==
  /\ body.kind = "create" =>
       body.memory = config.memoryMb * MiB /\ body.memory > 0
  /\ verdict = "memoryMb" => config.memoryMb * MiB \notin 1..WordSize - 1

(* A body that passed validation can be booted: it names the kernel or the *)
(* firmware (or the snapshot) its boot mode needs, though both modules     *)
(* read the mode on their own, and every file it names is named absolutely *)
BodyBoots ==
  /\ body.kind = "create" =>
       /\ "relative" \notin body.disks
       /\ \A f \in DOMAIN body.files : body.files[f] # "relative"
       /\ \E f \in DOMAIN body.files \cap {"kernel", "firmware"} :
            body.files[f] = "absolute"
  /\ body.kind = "restore" => body.source = "absolute"
=============================================================================
