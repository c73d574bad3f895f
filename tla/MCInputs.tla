------------------------------ MODULE MCInputs ------------------------------
(* What is computed from a request or from /proc alone, on small words: a   *)
(* boot request, a report on the host or a sample of a process, from every  *)
(* input of the instance.                                                   *)
EXTENDS BootRequest, HostMetrics, VmMetrics

VARIABLE subject   (* which of the three it is; the others are left alone   *)

AConfig == CHOOSE c \in Configs : TRUE
AProcess == CHOOSE p \in Begun : TRUE

InputsInit ==
  \/ /\ subject = "boot" /\ BootInit
     /\ host = Fine /\ report = NoReport
     /\ process = AProcess
     /\ stat = NoStat /\ then = process /\ later = process /\ sample = NoSample
  \/ /\ subject = "host" /\ HostInit
     /\ config = AConfig /\ verdict = "none" /\ body = NoBody
     /\ process = AProcess
     /\ stat = NoStat /\ then = process /\ later = process /\ sample = NoSample
  \/ /\ subject = "process" /\ ProcessInit
     /\ config = AConfig /\ verdict = "none" /\ body = NoBody
     /\ host = Fine /\ report = NoReport

InputsNext ==
  /\ \/ subject = "boot" /\ BootNext /\ UNCHANGED <<hostVars, processVars>>
     \/ subject = "host" /\ HostNext /\ UNCHANGED <<bootVars, processVars>>
     \/ subject = "process" /\ ProcessNext /\ UNCHANGED <<bootVars, hostVars>>
  /\ UNCHANGED subject

InputsSpec == InputsInit /\ [][InputsNext]_<<subject, bootVars, hostVars, processVars>>
=============================================================================
