------------------------------- MODULE MsrBatch -------------------------------
(***************************************************************************)
(* msr_batch.c and msr-smp.c: the ioctl on /dev/cpu/msr_batch.  A call     *)
(* copies the user's operations, checks each against the online CPUs and   *)
(* the allowlist, and if all of them pass sends __msr_safe_batch to every  *)
(* CPU that some operation names.  Each CPU walks the whole array and runs *)
(* its own operations with interrupts off.                                 *)
(*                                                                         *)
(* The allowlist is its contract, so it may be replaced between any two    *)
(* lookups.                                                                *)
(***************************************************************************)
EXTENDS Environment, Sequences

CONSTANTS Callers,      \* tasks that issue the ioctl
          Batches,      \* the arrays of operations they submit
          MaxOps,       \* the longest of them
          NoCPU,        \* a CPU number from nr_cpu_ids on
          MaskAllocMayFail   \* zalloc_cpumask_var, CONFIG_CPUMASK_OFFSTACK

VARIABLES bpc,       \* where each caller is in msrbatch_ioctl
          ops,       \* koa.ops: the kernel's copy of the operations
          cur,       \* the operation msrbatch_apply_allowlist is at
          err,       \* the error to return, "0" when there is none
          ipi,       \* CPUs that on_each_cpu_mask still waits for
          hpos,      \* hpos[t][c]: the operation c is at for t
          done,      \* history: the operations whose CPU got to them
          missed     \* history: CPUs that were offline at the dispatch

batchVars == <<bpc, ops, cur, err, ipi, hpos, done, missed>>
history == <<during, raced>>
bvars == <<envVars, batchVars>>

NoError == "0"
OpErrors == {NoError, "ENXIO", "EACCES", "EROFS", "EIO"}
CallErrors == {"rejected", "EFAULT", "ENOMEM"}

\* struct msr_batch_op; err and wmask come in as the user left them.
Op == [cpu : CPUs \cup {NoCPU}, isrdmsr : BOOLEAN, msr : Regs, msrdata : Masks,
       wmask : Masks, err : OpErrors]

ASSUME BatchAssumption ==
  /\ MaxOps \in Nat \ {0}
  /\ \A b \in Batches : b \in Seq(Op) /\ Len(b) \in 1 .. MaxOps
  /\ Callers \subseteq Lookers /\ NoCPU \notin CPUs
  /\ MaskAllocMayFail \in BOOLEAN

Step(t, from, to) == bpc[t] = from /\ bpc' = [bpc EXCEPT ![t] = to]
CurOp(t) == ops[t][cur[t]]
\* Mutant: the loop that builds the CPU mask stops one operation short.
CpusOfAllButLast(t) == {ops[t][i].cpu : i \in 1 .. Len(ops[t]) - 1}
CpusOf(t) == {ops[t][i].cpu : i \in DOMAIN ops[t]}
NextOp(t) == cur' = [cur EXCEPT ![t] = @ + 1]

\* Mutants: op->err is forgotten; the loop advances twice, or not at all.
RefuseSilently(t, e) ==
  /\ err' = [err EXCEPT ![t] = e]
  /\ UNCHANGED ops
  /\ NextOp(t)
RefuseTwice(t, e) ==
  /\ ops' = [ops EXCEPT ![t][cur[t]].err = e]
  /\ err' = [err EXCEPT ![t] = e]
  /\ cur' = [cur EXCEPT ![t] = @ + 2]
RefuseForever(t, e) ==
  /\ ops' = [ops EXCEPT ![t][cur[t]].err = e]
  /\ err' = [err EXCEPT ![t] = e]
  /\ UNCHANGED cur

\* op->err = err = e
Refuse(t, e) ==
  /\ ops' = [ops EXCEPT ![t][cur[t]].err = e]
  /\ err' = [err EXCEPT ![t] = e]
  /\ NextOp(t)

(***************************************************************************)
(* msrbatch_ioctl, up to the copy of the operations                        *)
(***************************************************************************)
\* ENOTTY, EBADF, EFAULT, EINVAL or E2BIG, before any operation is looked at.
IoctlRejected(t) ==
  /\ Step(t, "idle", "return")
  /\ err' = [err EXCEPT ![t] = "rejected"]
  /\ UNCHANGED <<specVars, machine, ops, cur, ipi, hpos, done, missed, history>>

Ioctl(t) ==
  /\ Step(t, "idle", "apply")
  /\ \E b \in Batches : ops' = [ops EXCEPT ![t] = b]
  /\ cur' = [cur EXCEPT ![t] = 1]
  /\ BeginCall(t)
  /\ UNCHANGED <<specVars, machine, err, ipi, hpos, done, missed, raced>>

(***************************************************************************)
(* msrbatch_apply_allowlist, one operation: CPU, presence, mask            *)
(***************************************************************************)
ApplyCpu(t) ==
  /\ bpc[t] = "apply"
  /\ cur[t] <= Len(ops[t])
  /\ IF CurOp(t).cpu \notin online
     THEN /\ Refuse(t, "ENXIO")
          /\ UNCHANGED bpc
     ELSE /\ Step(t, "apply", "exists")
          /\ ops' = [ops EXCEPT ![t][cur[t]].err = NoError]
          /\ UNCHANGED <<err, cur>>
  /\ UNCHANGED <<specVars, machine, ipi, hpos, done, missed, history>>

ApplyExists(t) ==
  /\ bpc[t] = "exists"
  /\ MaskExists(t, CurOp(t).msr)
  /\ IF ans'[t].exists
     THEN Step(t, "exists", "find") /\ UNCHANGED <<ops, err, cur>>
     ELSE Step(t, "exists", "apply") /\ Refuse(t, "EACCES")
  /\ UNCHANGED <<machine, ipi, hpos, done, missed, history>>

\* Mutants: a good operation clears err; the user's wmask is left in place.
MaskedForgets(t, m) ==
  /\ ops' = [ops EXCEPT ![t][cur[t]].wmask = m,
                        ![t][cur[t]].err = IF m = {} /\ ~CurOp(t).isrdmsr THEN "EROFS" ELSE @]
  /\ err' = [err EXCEPT ![t] = IF m = {} /\ ~CurOp(t).isrdmsr THEN "EROFS" ELSE NoError]
MaskedByUser(t, m) ==
  IF m = {} /\ ~CurOp(t).isrdmsr
  THEN /\ ops' = [ops EXCEPT ![t][cur[t]].err = "EROFS"]
       /\ err' = [err EXCEPT ![t] = "EROFS"]
  ELSE UNCHANGED <<ops, err>>

\* The end of an operation's check, once msr_allowlist_writemask answered m.
Masked(t, m) ==
  IF m = {} /\ ~CurOp(t).isrdmsr
  THEN /\ ops' = [ops EXCEPT ![t][cur[t]].wmask = m, ![t][cur[t]].err = "EROFS"]
       /\ err' = [err EXCEPT ![t] = "EROFS"]
  ELSE /\ ops' = [ops EXCEPT ![t][cur[t]].wmask = m]
       /\ UNCHANGED err

\* The entry has gone since msr_allowlist_maskexists saw it.
ApplyGone(t) ==
  /\ Step(t, "find", "apply")
  /\ WriteMaskAbsent(t, CurOp(t).msr)
  /\ Masked(t, {})
  /\ NextOp(t)
  /\ UNCHANGED <<machine, ipi, hpos, done, missed, history>>

ApplyFind(t) ==
  /\ Step(t, "find", "read")
  /\ WriteMaskFind(t, CurOp(t).msr)
  /\ UNCHANGED <<machine, ops, cur, err, ipi, hpos, done, missed, history>>

ApplyRead(t) ==
  /\ Step(t, "read", "apply")
  /\ GetMask(t)
  /\ Masked(t, ans'[t].mask)
  /\ NextOp(t)
  /\ UNCHANGED <<machine, ipi, hpos, done, missed>>

ApplyDone(t) ==
  /\ Step(t, "apply", IF err[t] = NoError THEN "send" ELSE "copyout")
  /\ cur[t] > Len(ops[t])
  /\ UNCHANGED <<specVars, machine, ops, cur, err, ipi, hpos, done, missed, history>>

(***************************************************************************)
(* msr_safe_batch: on_each_cpu_mask reaches the CPUs online at that moment *)
(***************************************************************************)
SendFails(t) ==
  /\ MaskAllocMayFail
  /\ Step(t, "send", "copyout")
  /\ err' = [err EXCEPT ![t] = "ENOMEM"]
  /\ UNCHANGED <<specVars, machine, ops, cur, ipi, hpos, done, missed, history>>

Send(t) ==
  /\ Step(t, "send", "wait")
  /\ ipi' = [ipi EXCEPT ![t] = CpusOf(t) \cap online]
  /\ missed' = [missed EXCEPT ![t] = CpusOf(t) \ online]
  /\ UNCHANGED <<specVars, machine, ops, cur, err, hpos, done, history>>

\* One operation in __msr_safe_batch: what becomes of it and the register.
Execute(op, old) ==
  {[err |-> "EIO", msrdata |-> op.msrdata, new |-> old] : f \in Faults(op.msr) \ {FALSE}}
  \cup IF op.isrdmsr
       THEN {[err |-> NoError, msrdata |-> old, new |-> old]}
       ELSE {[err |-> NoError, msrdata |-> op.msrdata,
              new |-> Merge(old, op.msrdata, op.wmask)]}

\* An interrupt handler: on one CPU the functions run one after the other.
RunsOn(t, c) == running[c] \in {NoTask, t}

\* Mutant: the loop advances twice past an operation for another CPU.
NextPosSkips(t, c) == hpos[t][c] + IF ops[t][hpos[t][c]].cpu = c THEN 1 ELSE 2
NextPos(t, c) == hpos[t][c] + 1

\* One round of the loop in __msr_safe_batch on CPU c; the last one ends it.
Handler(t, c) ==
  LET i == hpos[t][c]
      op == ops[t][i]
      last == NextPos(t, c) > Len(ops[t])
  IN  /\ c \in ipi[t]
      /\ RunsOn(t, c)
      /\ IF op.cpu = c
         THEN \E x \in Execute(op, msr[c][op.msr]) :
                /\ ops' = [ops EXCEPT ![t][i].err = x.err,
                                      ![t][i].msrdata = x.msrdata]
                /\ msr' = [msr EXCEPT ![c][op.msr] = x.new]
                /\ done' = [done EXCEPT ![t] = @ \cup {i}]
         ELSE UNCHANGED <<ops, msr, done>>
      /\ hpos' = [hpos EXCEPT ![t][c] = IF last THEN 1 ELSE NextPos(t, c)]
      /\ ipi' = [ipi EXCEPT ![t] = IF last THEN @ \ {c} ELSE @]
      /\ running' = [running EXCEPT ![c] = IF last THEN NoTask ELSE t]
      /\ UNCHANGED <<specVars, online, bpc, cur, err, missed, history>>

\* The error of the first operation that has one.
FirstError(s) ==
  IF \A i \in DOMAIN s : s[i].err = NoError THEN NoError
  ELSE s[CHOOSE i \in DOMAIN s : /\ s[i].err # NoError
                                 /\ \A j \in 1 .. i - 1 : s[j].err = NoError].err

Collect(t) ==
  /\ ipi[t] = {}
  /\ Step(t, "wait", "copyout")
  /\ err' = [err EXCEPT ![t] = FirstError(ops[t])]
  /\ UNCHANGED <<specVars, machine, ops, cur, ipi, hpos, done, missed, history>>

\* copyout_and_return: a failed copy counts only when all went well so far.
CopyOut(t) ==
  /\ Step(t, "copyout", "return")
  /\ \E copied \in BOOLEAN :
       err' = [err EXCEPT ![t] = IF ~copied /\ @ = NoError THEN "EFAULT" ELSE @]
  /\ UNCHANGED <<specVars, machine, ops, cur, ipi, hpos, done, missed, history>>

\* bundle_alloc: the array is freed and the call returns err[t].
Return(t) ==
  /\ Step(t, "return", "idle")
  /\ ops' = [ops EXCEPT ![t] = <<>>]
  /\ cur' = [cur EXCEPT ![t] = 1]
  /\ err' = [err EXCEPT ![t] = NoError]
  /\ done' = [done EXCEPT ![t] = {}]
  /\ missed' = [missed EXCEPT ![t] = {}]
  /\ EndCall(t)
  /\ UNCHANGED <<specVars, machine, ipi, hpos, raced>>

(***************************************************************************)
(* CPU hotplug                                                             *)
(***************************************************************************)
\* on_each_cpu_mask keeps preemption off, which holds up a CPU's departure.
CpuDies(c) ==
  /\ CpuDown(c)
  /\ \A t \in Callers : ipi[t] = {}
  /\ UNCHANGED <<specVars, history>>

CpuComes(c) == CpuUp(c) /\ UNCHANGED <<specVars, history>>

-----------------------------------------------------------------------------
NoCalls ==
  /\ bpc = [t \in Callers |-> "idle"]
  /\ ops = [t \in Callers |-> <<>>]
  /\ cur = [t \in Callers |-> 1]
  /\ err = [t \in Callers |-> NoError]
  /\ ipi = [t \in Callers |-> {}]
  /\ hpos = [t \in Callers |-> [c \in CPUs |-> 1]]
  /\ done = [t \in Callers |-> {}]
  /\ missed = [t \in Callers |-> {}]

BatchInit == EnvInit /\ NoCalls

\* The steps of a call once it is under way, on the task that made it.
CallStep(t) ==
  \/ ApplyCpu(t) \/ ApplyExists(t) \/ ApplyGone(t) \/ ApplyFind(t) \/ ApplyRead(t)
  \/ ApplyDone(t) \/ SendFails(t) \/ Send(t) \/ Collect(t) \/ CopyOut(t) \/ Return(t)

BatchNext ==
  \/ \E t \in Callers : IoctlRejected(t) \/ Ioctl(t) \/ CallStep(t)
  \/ \E t \in Callers, c \in CPUs : Handler(t, c)
  \/ ReplaceList /\ UNCHANGED batchVars
  \/ \E c \in CPUs : (CpuDies(c) \/ CpuComes(c)) /\ UNCHANGED batchVars

BatchSpec == BatchInit /\ [][BatchNext]_bvars

(***************************************************************************)
(* A task inside a call keeps running.  A CPU serves its queue of          *)
(* interrupts in order, so a function that waits while others run is       *)
(* reached: strong fairness.                                               *)
(***************************************************************************)
BatchFairSpec ==
  /\ BatchSpec
  /\ \A t \in Callers : WF_bvars(CallStep(t)) /\ \A c \in CPUs : SF_bvars(Handler(t, c))

-----------------------------------------------------------------------------
\* The types of the variables (one per module).
BatchLabels == {"idle", "apply", "exists", "find", "read", "send", "wait",
                "copyout", "return"}

BatchTypeOK ==
  /\ EnvTypeOK
  /\ bpc \in [Callers -> BatchLabels]
  /\ ops \in [Callers -> Seq(Op)] /\ \A t \in Callers : Len(ops[t]) <= MaxOps
  /\ cur \in [Callers -> 1 .. MaxOps + 1]
  /\ err \in [Callers -> OpErrors \cup CallErrors]
  /\ ipi \in [Callers -> SUBSET CPUs]
  /\ hpos \in [Callers -> [CPUs -> 1 .. MaxOps]]
  /\ done \in [Callers -> SUBSET (1 .. MaxOps)]
  /\ missed \in [Callers -> SUBSET (CPUs \cup {NoCPU})]

(***************************************************************************)
(* A batch reaches the CPUs only when every operation in it has passed:    *)
(* its register was on a list installed during the call, its mask is not   *)
(* what the user left in the field but one that register had during the    *)
(* call (as long as no lookup was overtaken), and no write has an empty    *)
(* mask.  A later operation that passes must not hide an earlier refusal.  *)
(***************************************************************************)
ChecksPrecedeRun ==
  \A t \in Callers : bpc[t] \in {"send", "wait"} =>
    \A i \in DOMAIN ops[t] :
      LET op == ops[t][i]
      IN  /\ op.cpu # NoCPU
          /\ \E l \in during[t] : op.msr \in DOMAIN l
          /\ raced \/ op.wmask \in MasksDuring(t, op.msr)
          /\ op.isrdmsr \/ op.wmask # {}

(***************************************************************************)
(* The error a call reports and the errors in its operations agree: zero   *)
(* means that no operation failed, an error of an operation is reported,   *)
(* and only a failed allocation has none to show.                          *)
(***************************************************************************)
ErrorsReported ==
  \A t \in Callers : bpc[t] = "copyout" =>
    \/ err[t] = "ENOMEM"
    \/ err[t] = NoError /\ \A i \in DOMAIN ops[t] : ops[t][i].err = NoError
    \/ err[t] # NoError /\ \E i \in DOMAIN ops[t] : ops[t][i].err = err[t]

\* The operations for one CPU run in the order of the array, none left out.
OrderPerCpu ==
  \A t \in Callers : \A i \in done[t] : \A j \in 1 .. i - 1 :
    ops[t][j].cpu = ops[t][i].cpu => j \in done[t]

(***************************************************************************)
(* Nothing comes between the operations of a batch on one CPU: an          *)
(* operation that reads a register after the batch wrote it sees the       *)
(* written bits, whatever other callers send to the same CPU.              *)
(***************************************************************************)
ReadsOwnWrite ==
  \A t \in Callers : \A j \in done[t] : \A i \in 1 .. j - 1 :
    LET w == ops[t][i]
        r == ops[t][j]
    IN  /\ w.cpu = r.cpu /\ w.msr = r.msr
        /\ ~w.isrdmsr /\ r.isrdmsr
        /\ w.err = NoError /\ r.err = NoError
        /\ \A k \in i + 1 .. j - 1 :
              ops[t][k].isrdmsr \/ ops[t][k].cpu # r.cpu \/ ops[t][k].msr # r.msr
        => r.msrdata \cap w.wmask = w.msrdata \cap w.wmask

\* A bit that no list opens keeps its value on every CPU.
UnlistedBitsKept ==
  raced \/ \A c \in CPUs, a \in Regs :
             msr[c][a] \ Writable(a) = PowerOn \ Writable(a)

(***************************************************************************)
(* A call that is about to report success has run every operation, except  *)
(* those whose CPU went offline between the check and the dispatch.        *)
(***************************************************************************)
RunUnlessOffline ==
  \A t \in Callers : bpc[t] = "copyout" /\ err[t] = NoError =>
    \A i \in DOMAIN ops[t] : i \in done[t] \/ ops[t][i].cpu \in missed[t]

\* Every ioctl returns, whoever else uses the same CPUs.
IoctlReturns == \A t \in Callers : bpc[t] # "idle" ~> bpc[t] = "idle"

(***************************************************************************)
(* README.md:210, "__err__ is populated by the kernel if there is an error *)
(* on a particular operation", ENXIO when "the virtual CPU does not exist  *)
(* or is offline": an operation that reports no error in a call that       *)
(* reports none has run.                                                   *)
(***************************************************************************)
SuccessMeansRun ==
  \A t \in Callers : bpc[t] = "copyout" /\ err[t] = NoError =>
    DOMAIN ops[t] \subseteq done[t]
==============================================================================
