----------------------------- MODULE MsrSafeProofs -----------------------------
(***************************************************************************)
(* The theorems of MsrSafe: batch calls and calls on the per-CPU devices   *)
(* keep each other's promises when they share the registers and the        *)
(* allowlist.                                                              *)
(*                                                                         *)
(* SafeInv is the conjunction of the invariants of the two parts. A step   *)
(* of one part preserves its own invariant by the part's theorems; that it *)
(* preserves the other's needs only that it leaves the other's calls alone *)
(* (TaskAlone), keeps the closed bits (BitsKept), and, if it is not of a   *)
(* batch, does not write on a CPU where the function of a batch is under   *)
(* way.                                                                    *)
(***************************************************************************)
EXTENDS MsrSafe, MsrBatchProofs, MsrEntryProofs

\* What holds of the parts holds of both together.
SafeInv == BatchInv /\ EntryInv

\* A step of task t on the allowlist and in its own calls.
TaskAlone(t) ==
  /\ \A u \in Lookers \ {t} : held'[u] = held[u] /\ during'[u] = during[u]
  /\ list' = list /\ (raced => raced')

\* A batch call leaves the lookups of all other tasks and the allowlist alone.
LEMMA BatchStepAlone ==
  ASSUME BatchInv, NEW t \in Callers, BatchStep(t)
  PROVE  TaskAlone(t)
<1>1. LookupTypeOK /\ t \in Lookers
  BY BatchAssumption DEF BatchInv, BatchTypeOK, EnvTypeOK, LookupTypeOK
<1>2. CASE IoctlRejected(t) \/ Ioctl(t)
  BY <1>1, <1>2 DEF IoctlRejected, Ioctl, BeginCall, TaskAlone, LookupTypeOK, specVars, history
<1>3. CASE ApplyCpu(t) \/ ApplyDone(t) \/ SendFails(t) \/ Send(t) \/ Collect(t) \/ CopyOut(t)
  BY <1>3 DEF ApplyCpu, ApplyDone, SendFails, Send, Collect, CopyOut, TaskAlone, specVars,
              history
<1>4. CASE ApplyExists(t)
  BY <1>4 DEF ApplyExists, MaskExists, TaskAlone, history
<1>5. CASE ApplyGone(t)
  BY <1>5 DEF ApplyGone, WriteMaskAbsent, TaskAlone, history
<1>6. CASE ApplyFind(t)
  BY <1>1, <1>6, FindEffect DEF ApplyFind, TaskAlone, history
<1>7. CASE ApplyRead(t)
  BY <1>1, <1>7, GetMaskEffect DEF ApplyRead, TaskAlone
<1>8. CASE Return(t)
  BY <1>1, <1>8 DEF Return, EndCall, TaskAlone, LookupTypeOK, specVars
<1>9. CASE \E c \in CPUs : Handler(t, c)
  BY <1>9, SMTT(20) DEF Handler, TaskAlone, specVars, history
<1> QED
  BY <1>2, <1>3, <1>4, <1>5, <1>6, <1>7, <1>8, <1>9 DEF BatchStep, CallStep

\* So does a call on a device, and it reaches a CPU only between the functions of batches.
LEMMA EntryStepAlone ==
  ASSUME EntryInv, NEW u \in Users, EntryStep(u)
  PROVE  /\ TaskAlone(u) /\ running' = running
         /\ \A c \in CPUs : running[c] # NoTask => msr'[c] = msr[c]
<1>1. LookupTypeOK /\ u \in Lookers /\ EntryTypeOK /\ CallInv(u)
  BY EntryView
<1>2. CASE (\E c \in Minors : Open(u, c)) \/ Close(u) \/ Seek(u) \/ BadCount(u)
  BY <1>2 DEF Open, Close, Seek, BadCount, TaskAlone, envVars, specVars, machine
<1>3. CASE ReadCall(u)
  BY <1>1, <1>3 DEF ReadCall, MaskExists, BeginCall, TaskAlone, LookupTypeOK, machine
<1>4. CASE WriteUnlisted(u)
  BY <1>1, <1>4 DEF WriteUnlisted, WriteMaskAbsent, BeginCall, TaskAlone, LookupTypeOK, machine
<1>5. CASE WriteCall(u)
  BY <1>1, <1>5, FindEffect DEF WriteCall, BeginCall, TaskAlone, LookupTypeOK, machine
<1>6. CASE WriteMask(u)
  BY <1>1, <1>6, GetMaskEffect DEF WriteMask, TaskAlone, machine
<1>7. CASE \E label \in {"rdmsr", "merge", "wrmsr"} :
             Unreachable(u, label) \/ AccessFaults(u, label)
  <2>1. UNCHANGED envVars
    BY <1>7 DEF Unreachable, AccessFaults
  <2> QED
    BY <2>1 DEF TaskAlone, envVars, specVars, machine
<1>8. CASE Rdmsr(u) \/ ReadForMerge(u)
  BY <1>8 DEF Rdmsr, ReadForMerge, TaskAlone, envVars, specVars, machine
<1>9. CASE Wrmsr(u)
  <2>1. running[Cpu(u)] = NoTask /\ msr' = [msr EXCEPT ![Cpu(u)][Reg(u)] = data[u]]
    BY <1>9 DEF Wrmsr, Reaches
  <2>2. \A c \in CPUs : running[c] # NoTask => msr'[c] = msr[c]
    BY <1>1, <2>1 DEF EntryTypeOK, EnvTypeOK, MachineTypeOK
  <2> QED
    BY <1>9, <2>2 DEF Wrmsr, TaskAlone, specVars
<1>10. CASE EReturn(u)
  BY <1>1, <1>10 DEF EReturn, EndCall, TaskAlone, LookupTypeOK, specVars, machine
<1> QED
  BY <1>2, <1>3, <1>4, <1>5, <1>6, <1>7, <1>8, <1>9, <1>10 DEF EntryStep, Interrupt

\* A user that is not in a batch call leaves the batch calls as they are: it reaches a CPU
\* only when no function of a batch is under way there.
LEMMA BatchUndisturbed ==
  ASSUME BatchInv, NEW u \in Lookers \ Callers, TaskAlone(u), UNCHANGED batchVars,
         EnvTypeOK', BitsKept', running' = running,
         \A c \in CPUs : running[c] # NoTask => msr'[c] = msr[c]
  PROVE  BatchInv'
<1>1. /\ UNCHANGED <<bpc, ops, cur, err, ipi, hpos, done, missed>>
      /\ \A t \in Callers : held'[t] = held[t] /\ during'[t] = during[t]
      /\ list' = list /\ (raced => raced')
  BY BatchAssumption DEF batchVars, TaskAlone
<1>2. BatchTypeOK'
  BY <1>1 DEF BatchInv, BatchTypeOK
<1>3. ASSUME NEW t \in Callers
      PROVE  ViewInv(t)' /\ ScanInv(t)' /\ RunInv(t)'
  <2>1. ViewInv(t) /\ ScanInv(t) /\ RunInv(t)
    BY DEF BatchInv
  <2> QED
    BY <1>1, <2>1 DEF ViewInv, InCall, HeldListed, WasListed, MasksDuring, CurOp, ScanInv,
                      ErrorOf, Checked, RunInv
<1>4. OwnInv' /\ ReadsOwnWrite'
  BY <1>1 DEF BatchInv, OwnInv, ReadsOwnWrite
<1>5. WrittenInv'
  <2> SUFFICES ASSUME NEW t \in Callers, NEW c \in ipi[t], NEW i \in 1 .. hpos[t][c] - 1,
                      LastWrite(t, c, i)
               PROVE  msr'[c][ops[t][i].msr] \cap ops[t][i].wmask
                        = ops[t][i].msrdata \cap ops[t][i].wmask
    BY <1>1 DEF WrittenInv, LastWrite
  <2>1. c \in CPUs /\ hpos[t][c] \in Int
    BY DEF BatchInv, BatchTypeOK
  <2>2. running[c] # NoTask
    BY <2>1, BatchAssumption, EnvironmentAssumption DEF BatchInv, OwnInv
  <2> QED
    BY <2>1, <2>2 DEF BatchInv, WrittenInv
<1>6. UnlistedBitsKept'
  BY DEF BitsKept, UnlistedBitsKept
<1> QED
  BY <1>2, <1>3, <1>4, <1>5, <1>6 DEF BatchInv

\* A batch leaves the calls on the devices as they are: between the two halves of a masked
\* write it may change the register, but no closed bit.
LEMMA EntryUndisturbed ==
  ASSUME EntryInv, NEW t \in Lookers \ Users, TaskAlone(t), UNCHANGED entryVars,
         EnvTypeOK', BitsKept'
  PROVE  EntryInv'
<1>1. /\ UNCHANGED <<epc, file, call, mask, user, data, out>>
      /\ \A u \in Users : held'[u] = held[u] /\ during'[u] = during[u]
      /\ list' = list /\ (raced => raced')
  BY EntryAssumption DEF entryVars, TaskAlone
<1>2. EntryTypeOK'
  BY <1>1 DEF EntryInv, EntryTypeOK
<1>3. ASSUME NEW u \in Users PROVE CallInv(u)'
  BY <1>1 DEF EntryInv, CallInv, InCall, WasListed, HeldListed, MasksDuring, MaskIn, Reg,
              MayRefuse, Writable, AdminLists
<1> QED
  BY <1>2, <1>3 DEF EntryInv

\* A step of either part preserves the invariants of both.
LEMMA SafeNextStep == SafeInv /\ [SafeNext]_safeVars => SafeInv'
<1> SUFFICES ASSUME SafeInv, [SafeNext]_safeVars PROVE SafeInv'
  OBVIOUS
<1> USE DEF SafeInv
<1>1. ASSUME NEW t \in Callers, BatchStep(t), UNCHANGED entryVars
      PROVE  SafeInv'
  <2>1. BatchInv'
    BY <1>1, BatchStepKeeps DEF BatchStep
  <2>2. EnvTypeOK' /\ BitsKept'
    BY <2>1 DEF BatchInv, BatchTypeOK, UnlistedBitsKept, BitsKept
  <2>3. t \in Lookers \ Users
    BY SafeAssumption, BatchAssumption
  <2>4. TaskAlone(t)
    BY <1>1, BatchStepAlone
  <2> QED
    BY <1>1, <2>1, <2>2, <2>3, <2>4, EntryUndisturbed
<1>2. ASSUME NEW u \in Users, EntryStep(u), UNCHANGED batchVars
      PROVE  SafeInv'
  <2>1. EntryInv'
    BY <1>2, EntryStepKeeps
  <2>2. EnvTypeOK' /\ BitsKept'
    BY <2>1 DEF EntryInv, EntryTypeOK
  <2>3. u \in Lookers \ Callers
    BY SafeAssumption, EntryAssumption
  <2>4. /\ TaskAlone(u) /\ running' = running
        /\ \A c \in CPUs : running[c] # NoTask => msr'[c] = msr[c]
    BY <1>2, EntryStepAlone
  <2> QED
    BY <1>2, <2>1, <2>2, <2>3, <2>4, BatchUndisturbed
<1>3. ASSUME ReplaceList, UNCHANGED <<batchVars, entryVars>>
      PROVE  SafeInv'
  BY <1>3, BatchReplaceList, EntryReplaceList
<1>4. ASSUME NEW c \in CPUs, CpuDies(c) \/ CpuComes(c), UNCHANGED <<batchVars, entryVars>>
      PROVE  SafeInv'
  <2>1. /\ online' \subseteq CPUs /\ UNCHANGED <<msr, running>>
        /\ UNCHANGED <<specVars, during, raced, entryVars>>
    BY <1>4 DEF EntryInv, EntryTypeOK, EnvTypeOK, MachineTypeOK, CpuDies, CpuComes, CpuDown,
                CpuUp, history
  <2> QED
    BY <1>4, <2>1, BatchHotplug, EntryHotplug
<1>5. ASSUME UNCHANGED safeVars PROVE SafeInv'
  <2>1. UNCHANGED bvars /\ UNCHANGED evars
    BY <1>5 DEF safeVars, bvars, evars
  <2> QED
    BY <2>1, BatchStutters, EntryNextStep
<1> QED
  BY <1>1, <1>2, <1>3, <1>4, <1>5 DEF SafeNext

\* Nothing is under way when the module has been loaded.
LEMMA SafeInitHolds == SafeInit => SafeInv
  BY BatchInitHolds, EntryInitHolds DEF SafeInit, BatchInit, EntryInit, SafeInv

\* The invariants of both parts hold while both run.
THEOREM SafeInductive == SafeSpec => []SafeInv
  BY SafeInitHolds, SafeNextStep, PTL DEF SafeSpec

\* Calls on the devices do not come between a write and a read of one batch on a CPU.
THEOREM SafeReadsOwnWrite == SafeSpec => []ReadsOwnWrite
<1>1. SafeInv => ReadsOwnWrite
  BY DEF SafeInv, BatchInv
<1> QED
  BY <1>1, SafeInductive, PTL

\* Neither batches nor writes to the devices change a bit that no list opens, but for a mask
\* read from a freed entry.
THEOREM SafeClosedBits == SafeSpec => []ClosedBitsKept
<1>1. SafeInv => ClosedBitsKept
  BY EntryBits DEF SafeInv
<1> QED
  BY <1>1, SafeInductive, PTL

\* What MsrBatch promises of a batch, it promises among calls on the devices as well.
THEOREM SafeKeepsBatch ==
  SafeSpec => [](ChecksPrecedeRun /\ ErrorsReported /\ OrderPerCpu /\ RunUnlessOffline)
<1>1. SafeInv => ChecksPrecedeRun /\ ErrorsReported /\ OrderPerCpu /\ RunUnlessOffline
  BY BatchChecks, BatchErrors, BatchOrder, BatchRun DEF SafeInv
<1> QED
  BY <1>1, SafeInductive, PTL

\* What MsrEntry promises of a call on a device, it promises among batches as well.
THEOREM SafeKeepsEntry == SafeSpec => [](AccessListed /\ RefusalJustified)
<1>1. SafeInv => AccessListed /\ RefusalJustified
  BY EntryListed, EntryJustified DEF SafeInv
<1> QED
  BY <1>1, SafeInductive, PTL

\* All lists that have a register give it the same mask.
OneMaskPerRegister ==
  \A k, l \in AdminLists : \A a \in DOMAIN k \cap DOMAIN l : k[a] = l[a]

\* If the lists agree on the register, the mask of a write opens all that is ever writable.
LEMMA MaskIsAllThatIsWritable ==
  ASSUME OneMaskPerRegister, EntryInv, NEW u \in Users, epc[u] = "wrmsr", ~raced
  PROVE  mask[u] = Writable(Reg(u))
<1>1. mask[u] \in MasksDuring(u, Reg(u)) /\ mask[u] # {}
  BY EntryView DEF CallInv
<1>2. PICK l \in during[u] : mask[u] = MaskIn(l, Reg(u))
  BY <1>1 DEF MasksDuring
<1>3. l \in AdminLists /\ Reg(u) \in DOMAIN l /\ mask[u] = l[Reg(u)]
  BY <1>1, <1>2, EntryView DEF LookupTypeOK, MaskIn
<1>4. \A k \in AdminLists : MaskIn(k, Reg(u)) \subseteq mask[u]
  BY <1>3 DEF OneMaskPerRegister, MaskIn
<1> QED
  BY <1>2, <1>3, <1>4 DEF Writable

\* If the lists agree on the mask of each register, a masked write (msr_write) changes no
\* bit outside its mask, although batches may change the register between its read and its
\* write.  Without the agreement it may write back a bit that another list had opened.
THEOREM OneWritePerMaskedWrite ==
  ASSUME OneMaskPerRegister
  PROVE  SafeSpec => MaskedDespiteBatches
<1>1. SafeInv => \A u \in Users : Wrmsr(u) /\ ~raced =>
        msr'[Cpu(u)][Reg(u)] \ mask[u] = msr[Cpu(u)][Reg(u)] \ mask[u]
  <2> SUFFICES ASSUME SafeInv, NEW u \in Users, Wrmsr(u), ~raced
               PROVE  msr'[Cpu(u)][Reg(u)] \ mask[u] = msr[Cpu(u)][Reg(u)] \ mask[u]
    OBVIOUS
  <2>1. /\ EntryInv /\ EntryTypeOK /\ CallInv(u) /\ BitsKept /\ epc[u] = "wrmsr"
        /\ msr' = [msr EXCEPT ![Cpu(u)][Reg(u)] = data[u]]
    BY EntryView DEF SafeInv, Wrmsr, EStep
  <2>2. mask[u] = Writable(Reg(u))
    BY <2>1, MaskIsAllThatIsWritable
  <2>3. Cpu(u) \in CPUs /\ Reg(u) \in Regs
    BY <2>1, FileNamesRegister DEF CallInv
  <2>4. msr'[Cpu(u)][Reg(u)] = data[u]
    BY <2>1, <2>3 DEF EntryTypeOK, EnvTypeOK, MachineTypeOK
  <2>5. msr[Cpu(u)][Reg(u)] \ mask[u] = PowerOn \ mask[u]
    BY <2>1, <2>2, <2>3 DEF BitsKept
  <2>6. data[u] \ mask[u] = PowerOn \ mask[u]
    BY <2>1, <2>2, MachineAssumption, EnvironmentAssumption DEF CallInv, EntryTypeOK, Masks
  <2> QED
    BY <2>4, <2>5, <2>6
<1> QED
  BY <1>1, SafeInductive, PTL DEF MaskedDespiteBatches
==============================================================================
