------------------------------- MODULE MsrSafe -------------------------------
(***************************************************************************)
(* The loaded module: batch calls (MsrBatch) and calls on the per-CPU      *)
(* devices (MsrEntry) over the same CPUs and the same allowlist.  A        *)
(* function that a batch runs on a CPU is an interrupt there, and so is    *)
(* each half of a masked write, so they meet only between those.           *)
(***************************************************************************)
EXTENDS MsrBatch, MsrEntry

\* A task is in one call at a time.
ASSUME SafeAssumption == Callers \cap Users = {}

safeVars == <<envVars, batchVars, entryVars>>

SafeInit == EnvInit /\ NoCalls /\ NoFiles

BatchStep(t) ==
  \/ IoctlRejected(t) \/ Ioctl(t) \/ CallStep(t)
  \/ \E c \in CPUs : Handler(t, c)

SafeNext ==
  \/ \E t \in Callers : BatchStep(t) /\ UNCHANGED entryVars
  \/ \E u \in Users : EntryStep(u) /\ UNCHANGED batchVars
  \/ ReplaceList /\ UNCHANGED <<batchVars, entryVars>>
  \/ \E c \in CPUs : (CpuDies(c) \/ CpuComes(c)) /\ UNCHANGED <<batchVars, entryVars>>

SafeSpec == SafeInit /\ [][SafeNext]_safeVars

-----------------------------------------------------------------------------
(***************************************************************************)
(* While all lists that have the register give it the same mask, a masked  *)
(* write (msr_write) is one write: batches that change the register        *)
(* between its two interrupts do not make it change a bit outside its mask.*)
(***************************************************************************)
MaskedDespiteBatches ==
  [][\A u \in Users : Wrmsr(u) /\ ~raced =>
       msr'[Cpu(u)][Reg(u)] \ mask[u] = msr[Cpu(u)][Reg(u)] \ mask[u]]_safeVars
==============================================================================
