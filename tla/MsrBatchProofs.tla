---------------------------- MODULE MsrBatchProofs ----------------------------
(***************************************************************************)
(* The theorems of MsrBatch: for any callers, CPUs, registers and arrays   *)
(* of operations, a batch runs only what all its checks let pass, in the   *)
(* order of the array on each CPU, and opens no bit that no list opens.    *)
(*                                                                         *)
(* BatchInv is inductive. ViewInv says what a call in the loop of          *)
(* msrbatch_apply_allowlist has seen of the allowlist, ScanInv what the    *)
(* loop has made sure of for the operations behind it, and RunInv which    *)
(* operations have run: below a position on a CPU that the call waits for, *)
(* all or none on the others. OwnInv and WrittenInv are what ReadsOwnWrite *)
(* needs: a function under way on a CPU has the CPU, and therefore a       *)
(* register keeps what the function wrote there until the function reads   *)
(* it.                                                                     *)
(***************************************************************************)
EXTENDS MsrBatch, EnvironmentProofs, SequenceTheorems

Checking == {"apply", "exists", "find", "read"}

\* What t knows of the allowlist.
ViewInv(t) ==
  /\ held[t].open <=> bpc[t] = "read"
  /\ bpc[t] \notin {"idle", "return"} => InCall(t)
  /\ bpc[t] = "read" => HeldListed(t, CurOp(t).msr)
  /\ bpc[t] \in {"find", "read"} => WasListed(t, CurOp(t).msr)

\* What msrbatch_apply_allowlist has made sure of for an operation that it lets pass.
Checked(t, op) ==
  /\ op.cpu # NoCPU
  /\ WasListed(t, op.msr)
  /\ raced \/ op.wmask \in MasksDuring(t, op.msr)
  /\ op.isrdmsr \/ op.wmask # {}

\* err is that of a refused operation, or all operations so far have passed.
ErrorOf(t, last) ==
  \/ err[t] # NoError /\ \E i \in 1 .. last : ops[t][i].err = err[t]
  \/ err[t] = NoError /\ \A i \in 1 .. last : ops[t][i].err = NoError

ScanInv(t) ==
  /\ bpc[t] = "idle" => err[t] = NoError
  /\ bpc[t] \in Checking =>
       /\ cur[t] <= Len(ops[t]) + 1
       /\ ErrorOf(t, cur[t] - 1)
       /\ err[t] = NoError => \A i \in 1 .. cur[t] - 1 : Checked(t, ops[t][i])
  /\ bpc[t] \in Checking \ {"apply"} =>
       cur[t] <= Len(ops[t]) /\ CurOp(t).cpu # NoCPU /\ CurOp(t).err = NoError
  /\ bpc[t] \in {"send", "wait"} =>
       err[t] = NoError /\ \A i \in 1 .. Len(ops[t]) : Checked(t, ops[t][i])
  /\ bpc[t] = "copyout" => err[t] = "ENOMEM" \/ ErrorOf(t, Len(ops[t]))

\* Which operations have run: on a CPU that the call waits for, those before the
\* position there; on any other, all of them, or none if it was offline.
RunInv(t) ==
  /\ bpc[t] \in {"wait", "copyout", "return"} \/ done[t] = {}
  /\ bpc[t] # "wait" => ipi[t] = {}
  /\ done[t] \subseteq 1 .. Len(ops[t]) /\ \A i \in done[t] : ops[t][i].cpu \in CPUs
  /\ \A c \in ipi[t] :
       /\ hpos[t][c] <= Len(ops[t])
       /\ \A i \in 1 .. Len(ops[t]) : ops[t][i].cpu = c => (i \in done[t] <=> i < hpos[t][c])
  /\ \A c \in CPUs \ ipi[t] :
       /\ hpos[t][c] = 1
       /\ \/ \A i \in 1 .. Len(ops[t]) : ops[t][i].cpu = c => i \in done[t]
          \/ \A i \in 1 .. Len(ops[t]) : ops[t][i].cpu = c => i \notin done[t]
  /\ bpc[t] = "wait" \/ (bpc[t] = "copyout" /\ err[t] = NoError) =>
       \A i \in 1 .. Len(ops[t]) :
         i \in done[t] \/ ops[t][i].cpu \in ipi[t] \cup missed[t]

\* A function that is under way on a CPU has the CPU, ...
OwnInv == \A t \in Callers : \A c \in ipi[t] : hpos[t][c] > 1 => running[c] = t

\* ... and so the register still has what the function last wrote to it.
LastWrite(t, c, i) ==
  /\ ops[t][i].cpu = c /\ ~ops[t][i].isrdmsr /\ ops[t][i].err = NoError
  /\ \A k \in i + 1 .. hpos[t][c] - 1 :
       ops[t][k].isrdmsr \/ ops[t][k].cpu # c \/ ops[t][k].msr # ops[t][i].msr

WrittenInv ==
  \A t \in Callers : \A c \in ipi[t] : \A i \in 1 .. hpos[t][c] - 1 :
    LastWrite(t, c, i) =>
      msr[c][ops[t][i].msr] \cap ops[t][i].wmask = ops[t][i].msrdata \cap ops[t][i].wmask

BatchInv ==
  /\ BatchTypeOK
  /\ \A t \in Callers : ViewInv(t) /\ ScanInv(t) /\ RunInv(t)
  /\ OwnInv /\ WrittenInv
  /\ ReadsOwnWrite /\ UnlistedBitsKept

\* o2 is o with another operation i of t, for the same CPU, register and direction.
OnlyOp(o, o2, t, i) ==
  /\ o2 \in [Callers -> Seq(Op)]
  /\ Len(o2[t]) = Len(o[t])
  /\ \A u \in Callers \ {t} : o2[u] = o[u]
  /\ \A j \in 1 .. Len(o[t]) : j # i => o2[t][j] = o[t][j]
  /\ o2[t][i].cpu = o[t][i].cpu
  /\ o2[t][i].isrdmsr = o[t][i].isrdmsr
  /\ o2[t][i].msr = o[t][i].msr

\* The three ways in which the code changes an operation.
WithErr(o, t, i, e) == [o EXCEPT ![t][i].err = e]
WithMask(o, t, i, m) == [o EXCEPT ![t][i].wmask = m]
WithData(o, t, i, d) == [o EXCEPT ![t][i].msrdata = d]

\* op->err = e changes the one operation in its one field.
LEMMA SetErr ==
  ASSUME NEW o \in [Callers -> Seq(Op)], NEW t \in Callers, NEW i \in 1 .. Len(o[t]),
         NEW e \in OpErrors, NEW o2, o2 = WithErr(o, t, i, e)
  PROVE  /\ OnlyOp(o, o2, t, i) /\ o2[t][i].err = e
         /\ o2[t][i].wmask = o[t][i].wmask /\ o2[t][i].msrdata = o[t][i].msrdata
<1>1. o[t] \in Seq(Op) /\ o[t][i] \in Op
  OBVIOUS
<1> DEFINE op == [o[t][i] EXCEPT !.err = e]
           s == [o[t] EXCEPT ![i] = op]
<1>2. /\ op \in Op /\ op.cpu = o[t][i].cpu
      /\ op.isrdmsr = o[t][i].isrdmsr /\ op.msr = o[t][i].msr
      /\ op.err = e /\ op.wmask = o[t][i].wmask /\ op.msrdata = o[t][i].msrdata
  BY <1>1 DEF Op
<1> HIDE DEF op
<1>3. s \in Seq(Op) /\ Len(s) = Len(o[t]) /\ s[i] = op
      /\ \A j \in 1 .. Len(o[t]) : j # i => s[j] = o[t][j]
  BY <1>1, <1>2, ExceptSeq
<1>4. o2 = [o EXCEPT ![t] = s]
  BY DEF op, WithErr
<1> HIDE DEF s
<1>5. o2 \in [Callers -> Seq(Op)] /\ o2[t] = s /\ \A u \in Callers \ {t} : o2[u] = o[u]
  BY <1>3, <1>4
<1> QED
  BY <1>2, <1>3, <1>5 DEF OnlyOp

\* op->wmask = m changes the one operation in its one field.
LEMMA SetMask ==
  ASSUME NEW o \in [Callers -> Seq(Op)], NEW t \in Callers, NEW i \in 1 .. Len(o[t]),
         NEW m \in Masks, NEW o2, o2 = WithMask(o, t, i, m)
  PROVE  /\ OnlyOp(o, o2, t, i) /\ o2[t][i].wmask = m
         /\ o2[t][i].err = o[t][i].err /\ o2[t][i].msrdata = o[t][i].msrdata
<1>1. o[t] \in Seq(Op) /\ o[t][i] \in Op
  OBVIOUS
<1> DEFINE op == [o[t][i] EXCEPT !.wmask = m]
           s == [o[t] EXCEPT ![i] = op]
<1>2. /\ op \in Op /\ op.cpu = o[t][i].cpu
      /\ op.isrdmsr = o[t][i].isrdmsr /\ op.msr = o[t][i].msr
      /\ op.wmask = m /\ op.err = o[t][i].err /\ op.msrdata = o[t][i].msrdata
  BY <1>1 DEF Op
<1> HIDE DEF op
<1>3. s \in Seq(Op) /\ Len(s) = Len(o[t]) /\ s[i] = op
      /\ \A j \in 1 .. Len(o[t]) : j # i => s[j] = o[t][j]
  BY <1>1, <1>2, ExceptSeq
<1>4. o2 = [o EXCEPT ![t] = s]
  BY DEF op, WithMask
<1> HIDE DEF s
<1>5. o2 \in [Callers -> Seq(Op)] /\ o2[t] = s /\ \A u \in Callers \ {t} : o2[u] = o[u]
  BY <1>3, <1>4
<1> QED
  BY <1>2, <1>3, <1>5 DEF OnlyOp

\* op->msrdata = d changes the one operation in its one field.
LEMMA SetData ==
  ASSUME NEW o \in [Callers -> Seq(Op)], NEW t \in Callers, NEW i \in 1 .. Len(o[t]),
         NEW d \in Masks, NEW o2, o2 = WithData(o, t, i, d)
  PROVE  /\ OnlyOp(o, o2, t, i) /\ o2[t][i].msrdata = d
         /\ o2[t][i].err = o[t][i].err /\ o2[t][i].wmask = o[t][i].wmask
<1>1. o[t] \in Seq(Op) /\ o[t][i] \in Op
  OBVIOUS
<1> DEFINE op == [o[t][i] EXCEPT !.msrdata = d]
           s == [o[t] EXCEPT ![i] = op]
<1>2. /\ op \in Op /\ op.cpu = o[t][i].cpu
      /\ op.isrdmsr = o[t][i].isrdmsr /\ op.msr = o[t][i].msr
      /\ op.msrdata = d /\ op.err = o[t][i].err /\ op.wmask = o[t][i].wmask
  BY <1>1 DEF Op
<1> HIDE DEF op
<1>3. s \in Seq(Op) /\ Len(s) = Len(o[t]) /\ s[i] = op
      /\ \A j \in 1 .. Len(o[t]) : j # i => s[j] = o[t][j]
  BY <1>1, <1>2, ExceptSeq
<1>4. o2 = [o EXCEPT ![t] = s]
  BY DEF op, WithData
<1> HIDE DEF s
<1>5. o2 \in [Callers -> Seq(Op)] /\ o2[t] = s /\ \A u \in Callers \ {t} : o2[u] = o[u]
  BY <1>3, <1>4
<1> QED
  BY <1>2, <1>3, <1>5 DEF OnlyOp

\* Two changes of an operation are a change of that operation.
LEMMA TwoChanges ==
  ASSUME NEW o, NEW o1, NEW o2, NEW t, NEW i \in 1 .. Len(o[t]),
         OnlyOp(o, o1, t, i), OnlyOp(o1, o2, t, i)
  PROVE  OnlyOp(o, o2, t, i)
  BY DEF OnlyOp

\* The other calls are where they were and see what they saw.
Elsewhere(t) ==
  /\ \A u \in Callers \ {t} :
       /\ bpc'[u] = bpc[u] /\ ops'[u] = ops[u] /\ cur'[u] = cur[u] /\ err'[u] = err[u]
       /\ ipi'[u] = ipi[u] /\ hpos'[u] = hpos[u] /\ done'[u] = done[u]
       /\ missed'[u] = missed[u]
       /\ held'[u] = held[u] /\ during'[u] = during[u]
  /\ list' = list /\ (raced => raced')

\* An operation that has passed its checks has passed them under a longer record.
LEMMA CheckedStays ==
  ASSUME NEW t, NEW op, during[t] \subseteq during'[t], raced => raced', Checked(t, op)
  PROVE  Checked(t, op)'
  BY DEF Checked, WasListed, MasksDuring

\* A step of one call leaves what is known of the others as it is.
LEMMA OthersKeep ==
  ASSUME NEW t, Elsewhere(t), NEW u \in Callers \ {t}, ViewInv(u), ScanInv(u), RunInv(u)
  PROVE  ViewInv(u)' /\ ScanInv(u)' /\ RunInv(u)'
<1> USE DEF Elsewhere
<1>1. ViewInv(u)'
  BY DEF ViewInv, InCall, HeldListed, MasksDuring, WasListed, CurOp
<1>2. ScanInv(u)'
  <2>1. \A op : Checked(u, op) => Checked(u, op)'
    BY CheckedStays
  <2>2. \A last : ErrorOf(u, last) => ErrorOf(u, last)'
    BY DEF ErrorOf
  <2>3. /\ bpc'[u] = bpc[u] /\ ops'[u] = ops[u] /\ cur'[u] = cur[u] /\ err'[u] = err[u]
        /\ CurOp(u)' = CurOp(u)
    BY DEF CurOp
  <2> HIDE DEF Elsewhere
  <2> QED
    BY <2>1, <2>2, <2>3 DEF ScanInv
<1>3. RunInv(u)'
  <2>1. /\ bpc'[u] = bpc[u] /\ ops'[u] = ops[u] /\ err'[u] = err[u] /\ ipi'[u] = ipi[u]
        /\ hpos'[u] = hpos[u] /\ done'[u] = done[u] /\ missed'[u] = missed[u]
    OBVIOUS
  <2> HIDE DEF Elsewhere
  <2> QED
    BY <2>1 DEF RunInv
<1> QED
  BY <1>1, <1>2, <1>3

\* A step of a call on its own array, before its functions are sent or after they have
\* ended, preserves the invariant if it preserves what the invariant says of the call.
LEMMA LocalStep ==
  ASSUME BatchInv, NEW t \in Callers, Elsewhere(t), UNCHANGED <<msr, running, hpos>>,
         \A c \in ipi'[t] : hpos[t][c] = 1,
         done'[t] = {} \/ (done'[t] = done[t] /\ ops'[t] = ops[t]),
         BatchTypeOK', ViewInv(t)', ScanInv(t)', RunInv(t)'
  PROVE  BatchInv'
<1> USE DEF BatchInv
<1>1. \A u \in Callers : ViewInv(u)' /\ ScanInv(u)' /\ RunInv(u)'
  BY OthersKeep
<1>2. OwnInv'
  <2> SUFFICES ASSUME NEW u \in Callers, NEW c \in ipi'[u], hpos'[u][c] > 1
               PROVE  running'[c] = u
    BY DEF OwnInv
  <2>1. u # t /\ ipi'[u] = ipi[u]
    BY DEF Elsewhere
  <2> QED
    BY <2>1 DEF OwnInv
<1>3. WrittenInv'
  <2> SUFFICES ASSUME NEW u \in Callers, NEW c \in ipi'[u], NEW i \in 1 .. hpos'[u][c] - 1,
                      LastWrite(u, c, i)'
               PROVE  (msr[c][ops[u][i].msr] \cap ops[u][i].wmask
                         = ops[u][i].msrdata \cap ops[u][i].wmask)'
    BY DEF WrittenInv
  <2>1. CASE u = t
    BY <2>1
  <2>2. CASE u # t
    <3>1. ipi'[u] = ipi[u] /\ ops'[u] = ops[u] /\ hpos' = hpos /\ msr' = msr
      BY <2>2 DEF Elsewhere
    <3>2. LastWrite(u, c, i)
      BY <3>1 DEF LastWrite
    <3> QED
      BY <3>1, <3>2 DEF WrittenInv
  <2> QED
    BY <2>1, <2>2
<1>4. ReadsOwnWrite'
  <2>1. \A u \in Callers : done'[u] = {} \/ (done'[u] = done[u] /\ ops'[u] = ops[u])
    BY DEF Elsewhere
  <2> QED
    BY <2>1 DEF ReadsOwnWrite
<1>5. UnlistedBitsKept'
  BY DEF UnlistedBitsKept, Elsewhere, Writable, AdminLists, MaskIn
<1> QED
  BY <1>1, <1>2, <1>3, <1>4, <1>5

\* The types of the environment are those of the allowlist and of the CPUs.
LEMMA EnvTypes == EnvTypeOK <=> LookupTypeOK /\ MachineTypeOK(Lookers)
  BY DEF EnvTypeOK, LookupTypeOK

\* msrbatch_apply_allowlist returns the error of an operation, or 0 when none has one.
LEMMA FirstErrorIsFirst ==
  ASSUME NEW s \in Seq(Op)
  PROVE  /\ FirstError(s) \in OpErrors
         /\ \/ FirstError(s) # NoError /\ \E i \in 1 .. Len(s) : s[i].err = FirstError(s)
            \/ FirstError(s) = NoError /\ \A i \in 1 .. Len(s) : s[i].err = NoError
<1>1. CASE \A i \in DOMAIN s : s[i].err = NoError
  BY <1>1 DEF FirstError, OpErrors
<1>2. CASE ~ \A i \in DOMAIN s : s[i].err = NoError
  <2> DEFINE F(i) == /\ s[i].err # NoError
                     /\ \A j \in 1 .. i - 1 : s[j].err = NoError
             S == {i \in DOMAIN s : s[i].err # NoError}
  <2>1. S \subseteq Nat /\ S # {}
    BY <1>2
  <2>2. PICK x \in S : \A y \in S : x <= y
    BY <2>1, LeastElement
  <2>3. F(x)
    BY <2>2
  <2>4. F(CHOOSE i \in DOMAIN s : F(i)) /\ (CHOOSE i \in DOMAIN s : F(i)) \in DOMAIN s
    <3> HIDE DEF F
    <3> QED
      BY <2>2, <2>3
  <2>5. FirstError(s) = s[CHOOSE i \in DOMAIN s : F(i)].err
    BY <1>2 DEF FirstError
  <2> HIDE DEF F
  <2>6. PICK i \in DOMAIN s : FirstError(s) = s[i].err /\ F(i)
    BY <2>4, <2>5
  <2>7. s[i] \in Op
    OBVIOUS
  <2> QED
    BY <2>6, <2>7 DEF F, Op
<1> QED
  BY <1>1, <1>2

\* msrbatch_ioctl returns before it has an array.
LEMMA IoctlRejectedStep == ASSUME BatchInv, NEW t \in Callers, IoctlRejected(t) PROVE BatchInv'
<1> USE BatchAssumption DEF IoctlRejected, Step, history, specVars, machine
<1>1. Elsewhere(t)
  BY DEF Elsewhere
<1>2. BatchTypeOK'
  BY DEF BatchInv, BatchTypeOK, EnvTypeOK, MachineTypeOK, BatchLabels, CallErrors
<1>3. ViewInv(t)'
  BY DEF BatchInv, ViewInv
<1>4. ScanInv(t)'
  BY DEF BatchInv, BatchTypeOK, ScanInv, Checking
<1>5. RunInv(t)'
  BY DEF BatchInv, RunInv
<1>6. \A c \in ipi'[t] : hpos[t][c] = 1
  BY DEF BatchInv, RunInv
<1> QED
  BY <1>1, <1>2, <1>3, <1>4, <1>5, <1>6, LocalStep DEF BatchInv, RunInv, BatchTypeOK

\* msrbatch_ioctl has copied the array in.
LEMMA IoctlStep == ASSUME BatchInv, NEW t \in Callers, Ioctl(t) PROVE BatchInv'
<1> USE BatchAssumption DEF Ioctl, BeginCall, Step, history, specVars, machine
<1>1. Elsewhere(t)
  BY DEF Elsewhere
<1>2. BatchTypeOK'
  <2>1. EnvTypeOK'
    BY DEF BatchInv, BatchTypeOK, EnvTypeOK, MachineTypeOK
  <2>2. ops' \in [Callers -> Seq(Op)] /\ \A u \in Callers : Len(ops'[u]) <= MaxOps
    BY DEF BatchInv, BatchTypeOK
  <2> QED
    BY <2>1, <2>2 DEF BatchInv, BatchTypeOK, BatchLabels
<1>3. ViewInv(t)'
  BY DEF BatchInv, BatchTypeOK, EnvTypeOK, ViewInv, InCall
<1>4. ScanInv(t)'
  BY DEF BatchInv, BatchTypeOK, ScanInv, ErrorOf
<1>5. RunInv(t)'
  BY DEF BatchInv, RunInv
<1>6. \A c \in ipi'[t] : hpos[t][c] = 1
  BY DEF BatchInv, RunInv
<1> QED
  BY <1>1, <1>2, <1>3, <1>4, <1>5, <1>6, LocalStep DEF BatchInv, RunInv, BatchTypeOK

\* The loop over the operations ends, and the call goes on if it has met no error.
LEMMA ApplyDoneStep == ASSUME BatchInv, NEW t \in Callers, ApplyDone(t) PROVE BatchInv'
<1> USE BatchAssumption DEF ApplyDone, Step, history, specVars, machine
<1>1. Elsewhere(t)
  BY DEF Elsewhere
<1>2. BatchTypeOK'
  BY DEF BatchInv, BatchTypeOK, EnvTypeOK, MachineTypeOK, BatchLabels
<1>3. ViewInv(t)'
  BY DEF BatchInv, ViewInv, InCall
<1>4. ScanInv(t)'
  <2>1. cur[t] - 1 = Len(ops[t])
    BY DEF BatchInv, BatchTypeOK, ScanInv, Checking
  <2>2. /\ ErrorOf(t, Len(ops[t]))
        /\ err[t] = NoError => \A i \in 1 .. Len(ops[t]) : Checked(t, ops[t][i])
    BY <2>1 DEF BatchInv, ScanInv, Checking
  <2>3. ErrorOf(t, Len(ops[t]))' /\ \A op : Checked(t, op) => Checked(t, op)'
    BY <2>2 DEF ErrorOf, Checked, WasListed, MasksDuring
  <2>4. bpc'[t] = IF err[t] = NoError THEN "send" ELSE "copyout"
    BY DEF BatchInv, BatchTypeOK
  <2> QED
    BY <2>2, <2>3, <2>4 DEF ScanInv, Checking
<1>5. RunInv(t)'
  BY DEF BatchInv, RunInv
<1>6. \A c \in ipi'[t] : hpos[t][c] = 1
  BY DEF BatchInv, RunInv
<1> QED
  BY <1>1, <1>2, <1>3, <1>4, <1>5, <1>6, LocalStep DEF BatchInv, RunInv, BatchTypeOK

\* msr_safe_batch has no memory for its CPU mask, and no function runs.
LEMMA SendFailsStep == ASSUME BatchInv, NEW t \in Callers, SendFails(t) PROVE BatchInv'
<1> USE BatchAssumption DEF SendFails, Step, history, specVars, machine
<1>1. Elsewhere(t)
  BY DEF Elsewhere
<1>2. BatchTypeOK'
  BY DEF BatchInv, BatchTypeOK, EnvTypeOK, MachineTypeOK, BatchLabels, CallErrors
<1>3. ViewInv(t)'
  BY DEF BatchInv, ViewInv, InCall
<1>4. ScanInv(t)'
  BY DEF BatchInv, BatchTypeOK, ScanInv, Checking
<1>5. RunInv(t)'
  BY DEF BatchInv, BatchTypeOK, RunInv, NoError
<1>6. \A c \in ipi'[t] : hpos[t][c] = 1
  BY DEF BatchInv, RunInv
<1> QED
  BY <1>1, <1>2, <1>3, <1>4, <1>5, <1>6, LocalStep DEF BatchInv, RunInv, BatchTypeOK

\* msr_safe_batch sends its function to the CPUs that are named and online: nothing has
\* run there yet.
LEMMA SendStep == ASSUME BatchInv, NEW t \in Callers, Send(t) PROVE BatchInv'
<1> USE BatchAssumption DEF Send, Step, history, specVars, machine
<1>1. Elsewhere(t)
  BY DEF Elsewhere
<1>2. BatchTypeOK'
  <2>1. EnvTypeOK'
    BY DEF BatchInv, BatchTypeOK, EnvTypeOK, MachineTypeOK
  <2>2. CpusOf(t) \subseteq CPUs \cup {NoCPU} /\ online \subseteq CPUs
    <3>1. \A i \in DOMAIN ops[t] : ops[t][i] \in Op
      BY DEF BatchInv, BatchTypeOK
    <3> QED
      BY <3>1 DEF BatchInv, BatchTypeOK, EnvTypeOK, MachineTypeOK, CpusOf, Op
  <2>3. ipi' \in [Callers -> SUBSET CPUs] /\ missed' \in [Callers -> SUBSET (CPUs \cup {NoCPU})]
    BY <2>2 DEF BatchInv, BatchTypeOK
  <2> QED
    BY <2>1, <2>3 DEF BatchInv, BatchTypeOK, BatchLabels
<1>3. ViewInv(t)'
  BY DEF BatchInv, ViewInv, InCall
<1>4. ScanInv(t)'
  <2>1. bpc'[t] = "wait" /\ err[t] = NoError
    BY DEF BatchInv, BatchTypeOK, ScanInv
  <2>2. \A i \in 1 .. Len(ops[t]) : Checked(t, ops[t][i])
    BY DEF BatchInv, ScanInv
  <2>3. \A i \in 1 .. Len(ops[t]) : Checked(t, ops[t][i])'
    BY <2>2 DEF Checked, WasListed, MasksDuring
  <2> QED
    BY <2>1, <2>3 DEF ScanInv, Checking
<1>5. RunInv(t)'
  <2>1. /\ done'[t] = {} /\ bpc'[t] = "wait" /\ ops' = ops
        /\ ipi'[t] = CpusOf(t) \cap online /\ missed'[t] = CpusOf(t) \ online
    BY DEF BatchInv, BatchTypeOK, RunInv
  <2>2. \A c \in CPUs : hpos'[t][c] = 1
    BY DEF BatchInv, RunInv
  <2>3. \A i \in 1 .. Len(ops[t]) : ops[t][i].cpu \in ipi'[t] \cup missed'[t]
    BY <2>1 DEF CpusOf, BatchInv, BatchTypeOK
  <2>4. \A c \in ipi'[t] : c \in CPUs /\ 1 <= Len(ops[t])
    BY <2>1 DEF CpusOf, BatchInv, BatchTypeOK, EnvTypeOK, MachineTypeOK
  <2> QED
    BY <2>1, <2>2, <2>3, <2>4 DEF RunInv
<1>6. \A c \in ipi'[t] : hpos[t][c] = 1
  <2>1. ipi'[t] \subseteq CPUs /\ ipi[t] = {}
    BY <1>2 DEF BatchInv, BatchTypeOK, RunInv
  <2> QED
    BY <2>1 DEF BatchInv, RunInv
<1> QED
  BY <1>1, <1>2, <1>3, <1>4, <1>5, <1>6, LocalStep DEF BatchInv, RunInv, BatchTypeOK

\* Every function has ended: each operation has run, or its CPU went offline.
LEMMA CollectStep == ASSUME BatchInv, NEW t \in Callers, Collect(t) PROVE BatchInv'
<1> USE BatchAssumption DEF Collect, Step, history, specVars, machine
<1>1. Elsewhere(t)
  BY DEF Elsewhere
<1>2. BatchTypeOK'
  <2>1. EnvTypeOK'
    BY DEF BatchInv, BatchTypeOK, EnvTypeOK, MachineTypeOK
  <2>2. FirstError(ops[t]) \in OpErrors
    BY FirstErrorIsFirst DEF BatchInv, BatchTypeOK
  <2> QED
    BY <2>1, <2>2 DEF BatchInv, BatchTypeOK, BatchLabels
<1>3. ViewInv(t)'
  BY DEF BatchInv, ViewInv, InCall
<1>4. ScanInv(t)'
  <2>1. ErrorOf(t, Len(ops[t]))'
    BY FirstErrorIsFirst DEF BatchInv, BatchTypeOK, ErrorOf
  <2>2. bpc'[t] = "copyout"
    BY DEF BatchInv, BatchTypeOK
  <2> QED
    BY <2>1, <2>2 DEF ScanInv, Checking
<1>5. RunInv(t)'
  <2>1. /\ bpc[t] = "wait" /\ bpc'[t] = "copyout" /\ ipi[t] = {}
        /\ UNCHANGED <<ops, ipi, hpos, done, missed>>
    BY DEF BatchInv, BatchTypeOK
  <2>2. RunInv(t)
    BY DEF BatchInv
  <2> QED
    BY <2>1, <2>2 DEF RunInv
<1>6. \A c \in ipi'[t] : hpos[t][c] = 1
  BY DEF BatchInv
<1> QED
  BY <1>1, <1>2, <1>3, <1>4, <1>5, <1>6, LocalStep DEF BatchInv, RunInv, BatchTypeOK

\* msrbatch_ioctl copies the array back.
LEMMA CopyOutStep == ASSUME BatchInv, NEW t \in Callers, CopyOut(t) PROVE BatchInv'
<1> USE BatchAssumption DEF CopyOut, Step, history, specVars, machine
<1>1. Elsewhere(t)
  BY DEF Elsewhere
<1>2. BatchTypeOK'
  BY DEF BatchInv, BatchTypeOK, EnvTypeOK, MachineTypeOK, BatchLabels, CallErrors
<1>3. ViewInv(t)'
  BY DEF BatchInv, BatchTypeOK, ViewInv
<1>4. ScanInv(t)'
  BY DEF BatchInv, BatchTypeOK, ScanInv, Checking
<1>5. RunInv(t)'
  BY DEF BatchInv, BatchTypeOK, RunInv, ScanInv, Checking
<1>6. \A c \in ipi'[t] : hpos[t][c] = 1
  BY DEF BatchInv, RunInv
<1> QED
  BY <1>1, <1>2, <1>3, <1>4, <1>5, <1>6, LocalStep DEF BatchInv, RunInv, BatchTypeOK

\* The ioctl returns, and the call is over.
LEMMA ReturnStep == ASSUME BatchInv, NEW t \in Callers, Return(t) PROVE BatchInv'
<1> USE BatchAssumption DEF Return, EndCall, Step, history, specVars, machine
<1>1. Elsewhere(t)
  BY DEF Elsewhere
<1>2. BatchTypeOK'
  <2>1. EnvTypeOK'
    BY DEF BatchInv, BatchTypeOK, EnvTypeOK, MachineTypeOK
  <2>2. ops' \in [Callers -> Seq(Op)] /\ \A u \in Callers : Len(ops'[u]) <= MaxOps
    BY EmptySeq DEF BatchInv, BatchTypeOK
  <2> QED
    BY <2>1, <2>2 DEF BatchInv, BatchTypeOK, BatchLabels, OpErrors
<1>3. ViewInv(t)'
  BY DEF BatchInv, ViewInv
<1>4. ScanInv(t)'
  BY DEF BatchInv, BatchTypeOK, ScanInv, Checking
<1>5. RunInv(t)'
  BY DEF BatchInv, BatchTypeOK, RunInv
<1>6. \A c \in ipi'[t] : hpos[t][c] = 1
  BY DEF BatchInv, RunInv
<1>7. done'[t] = {}
  BY DEF BatchInv, BatchTypeOK
<1> QED
  BY <1>1, <1>2, <1>3, <1>4, <1>5, <1>6, <1>7, LocalStep

\* A step of the loop in msrbatch_apply_allowlist touches at most the operation that it is
\* at, and nothing has been sent yet.
LEMMA CheckingStep ==
  ASSUME BatchInv, NEW t \in Callers, bpc[t] \in Checking, bpc'[t] \in Checking,
         UNCHANGED <<machine, ipi, hpos, done, missed>>,
         LookupTypeOK', \A u \in Callers \ {t} : held'[u] = held[u],
         list' = list /\ during' = during, raced => raced',
         bpc' = [bpc EXCEPT ![t] = bpc'[t]],
         ops' = ops \/ OnlyOp(ops, ops', t, cur[t]),
         cur' = cur \/ (cur[t] <= Len(ops[t]) /\ NextOp(t)),
         err' = err \/ \E e \in OpErrors : err' = [err EXCEPT ![t] = e],
         ViewInv(t)', ScanInv(t)'
  PROVE  BatchInv'
<1> USE DEF BatchInv
<1>1. Elsewhere(t)
  BY DEF Elsewhere, OnlyOp, NextOp, BatchTypeOK
<1>2. BatchTypeOK'
  <2>1. EnvTypeOK'
    BY DEF BatchTypeOK, EnvTypeOK, LookupTypeOK, MachineTypeOK, machine
  <2>2. ops' \in [Callers -> Seq(Op)] /\ \A u \in Callers : Len(ops'[u]) <= MaxOps
    BY DEF BatchTypeOK, OnlyOp
  <2>3. bpc' \in [Callers -> BatchLabels]
    BY DEF BatchTypeOK, Checking, BatchLabels
  <2>4. cur' \in [Callers -> 1 .. MaxOps + 1]
    <3>1. Len(ops[t]) \in Nat /\ Len(ops[t]) <= MaxOps /\ MaxOps \in Nat
      BY BatchAssumption, LenProperties DEF BatchTypeOK
    <3>2. cur \in [Callers -> 1 .. MaxOps + 1]
      BY DEF BatchTypeOK
    <3>3. CASE cur[t] <= Len(ops[t]) /\ cur' = [cur EXCEPT ![t] = @ + 1]
      <4>1. cur[t] + 1 \in 1 .. MaxOps + 1
        BY <3>1, <3>2, <3>3
      <4> QED
        BY <3>2, <3>3, <4>1
    <3> QED
      BY <3>2, <3>3 DEF NextOp
  <2>5. err' \in [Callers -> OpErrors \cup CallErrors]
    BY DEF BatchTypeOK
  <2> QED
    BY <2>1, <2>2, <2>3, <2>4, <2>5 DEF BatchTypeOK
<1>3. RunInv(t)'
  <2>1. done'[t] = {} /\ ipi'[t] = {} /\ hpos' = hpos
    BY DEF RunInv, Checking
  <2>2. bpc'[t] \notin {"wait", "copyout"}
    BY DEF Checking
  <2> QED
    BY <2>1, <2>2 DEF RunInv
<1>4. UNCHANGED <<msr, running, hpos>> /\ done'[t] = {} /\ ipi'[t] = {}
  BY DEF machine, RunInv, Checking
<1> QED
  BY <1>1, <1>2, <1>3, <1>4, LocalStep

\* The operation that is refused gets the error, and so does the call.
LEMMA RefuseEffect ==
  ASSUME BatchTypeOK, NEW t \in Callers, cur[t] <= Len(ops[t]), NEW e \in OpErrors \ {NoError},
         Refuse(t, e), ErrorOf(t, cur[t] - 1)
  PROVE  /\ OnlyOp(ops, ops', t, cur[t]) /\ ErrorOf(t, cur[t] - 1)'
         /\ cur' = [cur EXCEPT ![t] = @ + 1] /\ cur'[t] = cur[t] + 1
         /\ err'[t] = e /\ err' = [err EXCEPT ![t] = e]
         /\ cur'[t] <= Len(ops'[t]) + 1
<1>1. cur[t] \in 1 .. Len(ops[t]) /\ ops \in [Callers -> Seq(Op)] /\ e \in OpErrors
  BY DEF BatchTypeOK
<1>2. /\ ops' = WithErr(ops, t, cur[t], e)
      /\ err' = [err EXCEPT ![t] = e] /\ cur' = [cur EXCEPT ![t] = @ + 1]
  BY DEF Refuse, NextOp, WithErr
<1>3. OnlyOp(ops, ops', t, cur[t]) /\ ops'[t][cur[t]].err = e
  BY <1>1, <1>2, SetErr
<1>4. ops'[t][cur[t]].err = e
  BY <1>3
<1>5. cur'[t] = cur[t] + 1 /\ err'[t] = e
  BY <1>2 DEF BatchTypeOK
<1>6. ErrorOf(t, cur[t] - 1)'
  BY <1>1, <1>4, <1>5 DEF ErrorOf
<1> QED
  BY <1>1, <1>2, <1>3, <1>5, <1>6 DEF OnlyOp

\* An operation that is listed gets the mask, and is let pass unless it is a write and the
\* mask is empty.
LEMMA MaskedEffect ==
  ASSUME BatchTypeOK, NEW t \in Callers, cur[t] <= Len(ops[t]), NEW m \in Masks,
         Masked(t, m), NextOp(t), ErrorOf(t, cur[t] - 1), CurOp(t).err = NoError
  PROVE  /\ OnlyOp(ops, ops', t, cur[t]) /\ ErrorOf(t, cur[t] - 1)'
         /\ ops'[t][cur[t]].wmask = m
         /\ cur' = [cur EXCEPT ![t] = @ + 1] /\ cur'[t] = cur[t] + 1
         /\ err' = err \/ \E e \in OpErrors : err' = [err EXCEPT ![t] = e]
         /\ cur'[t] <= Len(ops'[t]) + 1
         /\ err'[t] = NoError => err[t] = NoError /\ (CurOp(t).isrdmsr \/ m # {})
<1>1. cur[t] \in 1 .. Len(ops[t]) /\ ops \in [Callers -> Seq(Op)] /\ "EROFS" \in OpErrors
  BY DEF BatchTypeOK, OpErrors
<1>2. cur' = [cur EXCEPT ![t] = @ + 1] /\ cur'[t] = cur[t] + 1
  BY DEF NextOp, BatchTypeOK
<1> DEFINE o1 == WithMask(ops, t, cur[t], m)
           refused == m = {} /\ ~CurOp(t).isrdmsr
<1>3. /\ OnlyOp(ops, o1, t, cur[t]) /\ o1[t][cur[t]].wmask = m
      /\ o1[t][cur[t]].err = ops[t][cur[t]].err
  BY <1>1, SetMask
<1>4. CASE refused
  <2>1. ops' = WithErr(o1, t, cur[t], "EROFS") /\ err' = [err EXCEPT ![t] = "EROFS"]
    BY <1>4 DEF Masked, WithMask, WithErr
  <2> HIDE DEF o1
  <2>2. /\ o1 \in [Callers -> Seq(Op)] /\ cur[t] \in 1 .. Len(o1[t])
        /\ "EROFS" \in OpErrors /\ ops' = WithErr(o1, t, cur[t], "EROFS")
    BY <1>1, <1>3, <2>1 DEF OnlyOp
  <2>3. /\ OnlyOp(o1, ops', t, cur[t]) /\ ops'[t][cur[t]].err = "EROFS"
        /\ ops'[t][cur[t]].wmask = m
    <3>1. /\ OnlyOp(o1, ops', t, cur[t]) /\ ops'[t][cur[t]].err = "EROFS"
          /\ ops'[t][cur[t]].wmask = o1[t][cur[t]].wmask
      BY <2>2, SetErr
    <3> QED
      BY <1>3, <3>1
  <2>4. OnlyOp(ops, ops', t, cur[t])
    BY <1>1, <1>3, <2>3, TwoChanges
  <2>5. err'[t] = "EROFS"
    BY <2>1 DEF BatchTypeOK
  <2>6. ErrorOf(t, cur[t] - 1)'
    BY <1>1, <1>2, <2>3, <2>5 DEF ErrorOf, NoError
  <2>7. err'[t] # NoError
    BY <2>5 DEF NoError
  <2>8. cur'[t] <= Len(ops'[t]) + 1
    BY <1>1, <1>2, <2>4 DEF OnlyOp
  <2> QED
    BY <1>1, <1>2, <2>1, <2>3, <2>4, <2>6, <2>7, <2>8
<1>5. CASE ~refused
  <2>1. ops' = o1 /\ err' = err
    BY <1>5 DEF Masked, WithMask
  <2> HIDE DEF o1
  <2>2. cur'[t] <= Len(ops'[t]) + 1
    BY <1>1, <1>2, <1>3, <2>1 DEF OnlyOp
  <2>3. ErrorOf(t, cur[t] - 1)'
    <3>1. \A i \in 1 .. cur[t] - 1 : ops'[t][i].err = ops[t][i].err
      <4>1. \A i \in 1 .. cur[t] - 1 : i \in 1 .. Len(ops[t]) /\ i # cur[t]
        BY <1>1
      <4>2. \A i \in 1 .. Len(ops[t]) : i # cur[t] => ops'[t][i] = ops[t][i]
        BY <1>3, <2>1 DEF OnlyOp
      <4> QED
        BY <4>1, <4>2
    <3>2. ops'[t][cur[t]].err = NoError
      BY <1>3, <2>1 DEF CurOp
    <3>3. /\ cur'[t] - 1 = cur[t] /\ err'[t] = err[t]
          /\ \A i \in 1 .. cur[t] : i \in 1 .. cur[t] - 1 \/ i = cur[t]
          /\ \A i \in 1 .. cur[t] - 1 : i \in 1 .. cur[t]
      <4>1. cur[t] \in Nat
        BY <1>1
      <4> QED
        BY <1>2, <2>1, <4>1
    <3>4. CASE err[t] # NoError
      BY <3>1, <3>3, <3>4 DEF ErrorOf
    <3>5. CASE err[t] = NoError
      BY <3>1, <3>2, <3>3, <3>5 DEF ErrorOf
    <3> QED
      BY <3>4, <3>5
  <2> QED
    BY <1>2, <1>3, <1>5, <2>1, <2>2, <2>3
<1> QED
  BY <1>4, <1>5

\* The loop refuses an operation whose CPU is not online, or looks its register up.
LEMMA ApplyCpuStep == ASSUME BatchInv, NEW t \in Callers, ApplyCpu(t) PROVE BatchInv'
<1>1. ViewInv(t) /\ ScanInv(t) /\ BatchTypeOK /\ ErrorOf(t, cur[t] - 1)
  BY DEF BatchInv, ScanInv, ApplyCpu, Checking
<1>2. /\ UNCHANGED <<machine, ipi, hpos, done, missed, list, held, ans, during, raced>>
      /\ bpc[t] = "apply" /\ cur[t] <= Len(ops[t])
  BY DEF ApplyCpu, specVars, history
<1>3. cur[t] \in 1 .. Len(ops[t]) /\ ops \in [Callers -> Seq(Op)] /\ ops[t][cur[t]] \in Op
  BY <1>1, <1>2 DEF BatchTypeOK
<1>4. LookupTypeOK'
  BY <1>1, <1>2 DEF BatchTypeOK, EnvTypeOK, LookupTypeOK
<1>5. \A op : Checked(t, op) => Checked(t, op)'
  BY <1>2, CheckedStays
<1>6. CASE CurOp(t).cpu \notin online
  <2>1. Refuse(t, "ENXIO") /\ bpc' = bpc /\ "ENXIO" \in OpErrors \ {NoError}
    BY <1>6 DEF ApplyCpu, OpErrors, NoError
  <2>2. /\ OnlyOp(ops, ops', t, cur[t]) /\ ErrorOf(t, cur[t] - 1)'
        /\ cur' = [cur EXCEPT ![t] = @ + 1] /\ cur'[t] = cur[t] + 1
        /\ err'[t] = "ENXIO" /\ err' = [err EXCEPT ![t] = "ENXIO"]
        /\ cur'[t] <= Len(ops'[t]) + 1
    BY <1>1, <1>2, <2>1, RefuseEffect
  <2>3. ScanInv(t)'
    BY <1>2, <2>1, <2>2 DEF ScanInv, Checking, NoError
  <2>4. ViewInv(t)'
    BY <1>1, <1>2, <2>1 DEF ViewInv, InCall
  <2>5. bpc[t] \in Checking /\ bpc'[t] \in Checking /\ bpc' = [bpc EXCEPT ![t] = bpc'[t]]
    BY <1>1, <1>2, <2>1 DEF Checking, BatchTypeOK
  <2>6. NextOp(t)
    BY <2>2 DEF NextOp
  <2> QED
    BY <1>1, <1>2, <1>4, <2>1, <2>2, <2>3, <2>4, <2>5, <2>6, CheckingStep
<1>7. CASE CurOp(t).cpu \in online
  <2>1. /\ bpc' = [bpc EXCEPT ![t] = "exists"] /\ err' = err /\ cur' = cur
        /\ ops' = WithErr(ops, t, cur[t], NoError) /\ NoError \in OpErrors
    BY <1>7 DEF ApplyCpu, Step, WithErr, OpErrors
  <2>2. OnlyOp(ops, ops', t, cur[t]) /\ ops'[t][cur[t]].err = NoError
    BY <1>3, <2>1, SetErr
  <2>3. CurOp(t).cpu # NoCPU
    BY <1>1, <1>7, BatchAssumption DEF BatchTypeOK, EnvTypeOK, MachineTypeOK
  <2>4. bpc'[t] = "exists"
    BY <1>1, <2>1 DEF BatchTypeOK
  <2>5. \A i \in 1 .. cur[t] - 1 : ops'[t][i] = ops[t][i]
    BY <1>3, <2>2 DEF OnlyOp
  <2>6. ErrorOf(t, cur[t] - 1)'
    BY <1>1, <2>1, <2>5 DEF ErrorOf
  <2>7. ScanInv(t)'
    <3>1. err'[t] = NoError => \A i \in 1 .. cur[t] - 1 : Checked(t, ops[t][i])'
      BY <1>1, <1>2, <1>5, <2>1, <2>5 DEF ScanInv, Checking
    <3>2. CurOp(t)'.cpu # NoCPU /\ CurOp(t)'.err = NoError /\ cur'[t] <= Len(ops'[t])
      BY <1>3, <2>1, <2>2, <2>3 DEF CurOp, OnlyOp
    <3>3. cur'[t] <= Len(ops'[t]) + 1
      BY <1>3, <2>1, <2>2 DEF OnlyOp
    <3> QED
      BY <2>1, <2>4, <2>6, <3>1, <3>2, <3>3 DEF ScanInv, Checking
  <2>8. ViewInv(t)'
    BY <1>1, <1>2, <2>4 DEF ViewInv, InCall
  <2>9. bpc[t] \in Checking /\ bpc'[t] \in Checking /\ bpc' = [bpc EXCEPT ![t] = bpc'[t]]
    BY <1>2, <2>1, <2>4 DEF Checking
  <2> QED
    BY <1>1, <1>2, <1>4, <2>1, <2>2, <2>7, <2>8, <2>9, CheckingStep
<1> QED
  BY <1>6, <1>7

\* The loop refuses an operation whose register is not listed.
LEMMA ApplyExistsStep == ASSUME BatchInv, NEW t \in Callers, ApplyExists(t) PROVE BatchInv'
<1>1. /\ ViewInv(t) /\ ScanInv(t) /\ BatchTypeOK
      /\ ErrorOf(t, cur[t] - 1) /\ cur[t] <= Len(ops[t])
  BY DEF BatchInv, ScanInv, ApplyExists, Checking
<1>2. /\ UNCHANGED <<machine, ipi, hpos, done, missed, during, raced>>
      /\ bpc[t] = "exists" /\ MaskExists(t, CurOp(t).msr)
  BY DEF ApplyExists, history
<1>3. /\ list' = list /\ held' = held /\ LookupTypeOK'
      /\ ans'[t].exists <=> CurOp(t).msr \in DOMAIN list
  <2>1. LookupTypeOK /\ t \in Lookers
    BY <1>1, BatchAssumption DEF BatchTypeOK, EnvTypeOK, LookupTypeOK
  <2> QED
    BY <1>2, <2>1, MaskExistsEffect DEF LookupTypeOK
<1>4. \A op : Checked(t, op) => Checked(t, op)'
  BY <1>2, CheckedStays
<1>5. InCall(t)
  BY <1>1, <1>2 DEF ViewInv
<1>6. CASE ~ans'[t].exists
  <2>1. /\ Refuse(t, "EACCES") /\ bpc' = [bpc EXCEPT ![t] = "apply"]
        /\ "EACCES" \in OpErrors \ {NoError}
    BY <1>6 DEF ApplyExists, OpErrors, NoError, Step
  <2>2. /\ OnlyOp(ops, ops', t, cur[t]) /\ ErrorOf(t, cur[t] - 1)'
        /\ cur' = [cur EXCEPT ![t] = @ + 1] /\ cur'[t] = cur[t] + 1
        /\ err'[t] = "EACCES" /\ err' = [err EXCEPT ![t] = "EACCES"]
        /\ cur'[t] <= Len(ops'[t]) + 1
    BY <1>1, <2>1, RefuseEffect
  <2>3. bpc'[t] = "apply"
    BY <1>1, <2>1 DEF BatchTypeOK
  <2>4. ScanInv(t)'
    BY <2>2, <2>3 DEF ScanInv, Checking, NoError
  <2>5. ViewInv(t)'
    BY <1>1, <1>2, <1>3, <1>5, <2>3 DEF ViewInv, InCall
  <2>6. bpc[t] \in Checking /\ bpc'[t] \in Checking /\ bpc' = [bpc EXCEPT ![t] = bpc'[t]]
    BY <1>2, <2>1, <2>3 DEF Checking
  <2>7. NextOp(t)
    BY <2>2 DEF NextOp
  <2> QED
    BY <1>1, <1>2, <1>3, <2>1, <2>2, <2>4, <2>5, <2>6, <2>7, CheckingStep
<1>7. CASE ans'[t].exists
  <2>1. /\ bpc' = [bpc EXCEPT ![t] = "find"] /\ UNCHANGED <<ops, err, cur>>
    BY <1>7 DEF ApplyExists, Step
  <2>2. bpc'[t] = "find"
    BY <1>1, <2>1 DEF BatchTypeOK
  <2>3. ScanInv(t)'
    BY <1>1, <1>2, <1>4, <2>1, <2>2 DEF ScanInv, Checking, ErrorOf, CurOp
  <2>4. WasListed(t, CurOp(t).msr)'
    BY <1>2, <1>3, <1>5, <1>7, <2>1 DEF WasListed, InCall, CurOp
  <2>5. ViewInv(t)'
    BY <1>1, <1>2, <1>3, <1>5, <2>2, <2>4 DEF ViewInv, InCall
  <2>6. bpc[t] \in Checking /\ bpc'[t] \in Checking /\ bpc' = [bpc EXCEPT ![t] = bpc'[t]]
    BY <1>2, <2>1, <2>2 DEF Checking
  <2> QED
    BY <1>1, <1>2, <1>3, <2>1, <2>3, <2>5, <2>6, CheckingStep
<1> QED
  BY <1>6, <1>7

\* The loop finds the entry whose mask it is going to use.
LEMMA ApplyFindStep == ASSUME BatchInv, NEW t \in Callers, ApplyFind(t) PROVE BatchInv'
<1>1. ViewInv(t) /\ ScanInv(t) /\ BatchTypeOK
  BY DEF BatchInv
<1>2. /\ UNCHANGED <<machine, ops, cur, err, ipi, hpos, done, missed, during, raced>>
      /\ bpc[t] = "find" /\ WriteMaskFind(t, CurOp(t).msr)
      /\ bpc' = [bpc EXCEPT ![t] = "read"] /\ bpc'[t] = "read"
  BY <1>1 DEF ApplyFind, history, Step, BatchTypeOK
<1>3. LookupTypeOK /\ t \in Lookers
  BY <1>1, BatchAssumption DEF BatchTypeOK, EnvTypeOK, LookupTypeOK
<1>4. /\ list' = list /\ ans' = ans /\ held' \in [Lookers -> HeldType]
      /\ held'[t].open /\ held'[t].mask = MaskIn(list, CurOp(t).msr)
      /\ \A u \in Lookers \ {t} : held'[u] = held[u]
  BY <1>2, <1>3, FindEffect
<1>5. LookupTypeOK' /\ \A u \in Callers \ {t} : held'[u] = held[u]
  BY <1>2, <1>3, <1>4, BatchAssumption DEF LookupTypeOK
<1>6. InCall(t) /\ WasListed(t, CurOp(t).msr)
  BY <1>1, <1>2 DEF ViewInv
<1>7. HeldListed(t, CurOp(t).msr)'
  BY <1>2, <1>4, <1>6 DEF HeldListed, MasksDuring, InCall, CurOp, MaskIn
<1>8. ViewInv(t)'
  BY <1>2, <1>4, <1>6, <1>7 DEF ViewInv, InCall, WasListed, CurOp
<1>9. ScanInv(t)'
  <2>1. \A op : Checked(t, op) => Checked(t, op)'
    BY <1>2, CheckedStays
  <2> QED
    BY <1>1, <1>2, <2>1 DEF ScanInv, Checking, ErrorOf, CurOp
<1>10. bpc[t] \in Checking /\ bpc'[t] \in Checking /\ bpc' = [bpc EXCEPT ![t] = bpc'[t]]
  BY <1>2 DEF Checking
<1> QED
  BY <1>1, <1>2, <1>4, <1>5, <1>8, <1>9, <1>10, CheckingStep

\* The end of an operation's check, whichever of the two lookups brings it about.
LEMMA MaskedStep ==
  ASSUME BatchInv, NEW t \in Callers, bpc[t] \in {"find", "read"},
         NEW m \in Masks, Masked(t, m),
         NextOp(t), bpc' = [bpc EXCEPT ![t] = "apply"],
         UNCHANGED <<machine, ipi, hpos, done, missed, list, during>>,
         LookupTypeOK', \A u \in Callers \ {t} : held'[u] = held[u], ~held'[t].open,
         raced => raced', raced' \/ m \in MasksDuring(t, CurOp(t).msr)
  PROVE  BatchInv'
<1>1. /\ ViewInv(t) /\ ScanInv(t) /\ BatchTypeOK
      /\ ErrorOf(t, cur[t] - 1) /\ cur[t] <= Len(ops[t])
      /\ CurOp(t).cpu # NoCPU /\ CurOp(t).err = NoError
      /\ InCall(t) /\ WasListed(t, CurOp(t).msr)
  BY DEF BatchInv, ScanInv, ViewInv, Checking
<1>2. /\ OnlyOp(ops, ops', t, cur[t]) /\ ErrorOf(t, cur[t] - 1)'
      /\ ops'[t][cur[t]].wmask = m
      /\ cur' = [cur EXCEPT ![t] = @ + 1] /\ cur'[t] = cur[t] + 1
      /\ err' = err \/ \E e \in OpErrors : err' = [err EXCEPT ![t] = e]
      /\ cur'[t] <= Len(ops'[t]) + 1
      /\ err'[t] = NoError => err[t] = NoError /\ (CurOp(t).isrdmsr \/ m # {})
  BY <1>1, MaskedEffect
<1>3. cur[t] \in 1 .. Len(ops[t])
  BY <1>1 DEF BatchTypeOK
<1>4. bpc'[t] = "apply"
  BY <1>1 DEF BatchTypeOK
<1>5. ASSUME err'[t] = NoError, NEW i \in 1 .. cur[t]
      PROVE  Checked(t, ops[t][i])'
  <2>1. CASE i = cur[t]
    <3>1. ops'[t][i].cpu = CurOp(t).cpu /\ ops'[t][i].msr = CurOp(t).msr
          /\ ops'[t][i].isrdmsr = CurOp(t).isrdmsr /\ ops'[t][i].wmask = m
      BY <1>2, <2>1 DEF OnlyOp, CurOp
    <3> QED
      BY <1>1, <1>2, <1>5, <3>1 DEF Checked, WasListed, MasksDuring
  <2>2. CASE i \in 1 .. cur[t] - 1
    <3>1. Checked(t, ops[t][i])
      BY <1>1, <1>2, <1>5, <2>2 DEF ScanInv, Checking
    <3>2. ops'[t][i] = ops[t][i]
      BY <1>2, <1>3, <2>2 DEF OnlyOp
    <3> QED
      BY <3>1, <3>2 DEF Checked, WasListed, MasksDuring
  <2> QED
    BY <1>3, <2>1, <2>2
<1>6. ScanInv(t)'
  <2>1. cur'[t] - 1 = cur[t]
    BY <1>2, <1>3
  <2>2. err'[t] = NoError => \A i \in 1 .. cur'[t] - 1 : Checked(t, ops[t][i])'
    BY <1>5, <2>1
  <2> QED
    BY <1>2, <1>4, <2>2 DEF ScanInv, Checking
<1>7. ViewInv(t)'
  BY <1>1, <1>4 DEF ViewInv, InCall
<1>8. bpc[t] \in Checking /\ bpc'[t] \in Checking /\ bpc' = [bpc EXCEPT ![t] = bpc'[t]]
  BY <1>4 DEF Checking
<1> QED
  BY <1>1, <1>2, <1>6, <1>7, <1>8, CheckingStep

\* The list was replaced between the two lookups, and the register has mask 0.
LEMMA ApplyGoneStep == ASSUME BatchInv, NEW t \in Callers, ApplyGone(t) PROVE BatchInv'
<1>1. /\ UNCHANGED <<machine, ipi, hpos, done, missed, during, raced>>
      /\ bpc[t] = "find" /\ bpc' = [bpc EXCEPT ![t] = "apply"]
      /\ WriteMaskAbsent(t, CurOp(t).msr) /\ Masked(t, {}) /\ NextOp(t)
  BY DEF ApplyGone, Step, history
<1>2. LookupTypeOK /\ t \in Lookers /\ ViewInv(t)
  BY BatchAssumption DEF BatchInv, BatchTypeOK, EnvTypeOK, LookupTypeOK
<1>3. /\ list' = list /\ held' = held /\ CurOp(t).msr \notin DOMAIN list
      /\ ans' \in [Lookers -> Answer] /\ raced' \in BOOLEAN
  BY <1>1, <1>2, AbsentEffect
<1>4. {} \in MasksDuring(t, CurOp(t).msr) /\ ~held[t].open /\ {} \in Masks
  BY <1>1, <1>2, <1>3 DEF ViewInv, InCall, MasksDuring, MaskIn, Masks
<1>5. LookupTypeOK'
  BY <1>1, <1>2, <1>3 DEF LookupTypeOK
<1> QED
  BY <1>1, <1>3, <1>4, <1>5, MaskedStep

\* The mask of the entry is that of a list installed during the call, or the entry was
\* freed before it was read.
LEMMA ApplyReadStep == ASSUME BatchInv, NEW t \in Callers, ApplyRead(t) PROVE BatchInv'
<1>1. /\ UNCHANGED <<machine, ipi, hpos, done, missed>>
      /\ bpc[t] = "read" /\ bpc' = [bpc EXCEPT ![t] = "apply"]
      /\ GetMask(t) /\ Masked(t, ans'[t].mask) /\ NextOp(t)
  BY DEF ApplyRead, Step
<1>2. LookupTypeOK /\ t \in Lookers /\ ViewInv(t)
  BY BatchAssumption DEF BatchInv, BatchTypeOK, EnvTypeOK, LookupTypeOK
<1>3. /\ list' = list /\ during' = during /\ held[t].open
      /\ held' \in [Lookers -> HeldType] /\ ~held'[t].open
      /\ \A u \in Lookers \ {t} : held'[u] = held[u]
      /\ ans' \in [Lookers -> Answer] /\ ans'[t].mask \in Masks
      /\ raced' \in BOOLEAN /\ (raced => raced')
      /\ raced' \/ (~held[t].stale /\ ans'[t].mask = held[t].mask)
  BY <1>1, <1>2, GetMaskEffect
<1>4. HeldListed(t, CurOp(t).msr)
  BY <1>1, <1>2 DEF ViewInv
<1>5. raced' \/ ans'[t].mask \in MasksDuring(t, CurOp(t).msr)
  BY <1>3, <1>4 DEF HeldListed
<1>6. LookupTypeOK' /\ \A u \in Callers \ {t} : held'[u] = held[u]
  BY <1>2, <1>3, BatchAssumption DEF LookupTypeOK
<1> QED
  BY <1>1, <1>3, <1>5, <1>6, MaskedStep

\* rdmsr_safe_on_cpu and wrmsr_safe_on_cpu: a read returns the register and leaves it, a
\* write sets the bits under the mask and no others, and either may fail.
LEMMA ExecuteEffect ==
  ASSUME NEW op \in Op, NEW old \in Masks, NEW x \in Execute(op, old)
  PROVE  /\ x.err \in OpErrors /\ x.msrdata \in Masks /\ x.new \in Masks
         /\ x.err = NoError /\ op.isrdmsr => x.msrdata = old
         /\ x.err = NoError /\ ~op.isrdmsr => x.new \cap op.wmask = x.msrdata \cap op.wmask
         /\ op.isrdmsr => x.new = old
         /\ \A V : op.wmask \subseteq V => x.new \ V = old \ V
<1>1. op.msrdata \in Masks /\ op.wmask \in Masks /\ op.isrdmsr \in BOOLEAN
  BY DEF Op
<1>2. CASE x = [err |-> "EIO", msrdata |-> op.msrdata, new |-> old]
  BY <1>1, <1>2 DEF OpErrors, NoError
<1>3. CASE op.isrdmsr /\ x = [err |-> NoError, msrdata |-> old, new |-> old]
  BY <1>1, <1>3 DEF OpErrors
<1>4. CASE /\ ~op.isrdmsr
           /\ x = [err |-> NoError, msrdata |-> op.msrdata,
                   new |-> Merge(old, op.msrdata, op.wmask)]
  BY <1>1, <1>4, MergeEffect DEF OpErrors
<1> QED
  BY <1>2, <1>3, <1>4 DEF Execute

\* Where __msr_safe_batch is on CPU c afterwards.
Moves(t, c) ==
  /\ \/ /\ hpos[t][c] = Len(ops[t])
        /\ hpos'[t][c] = 1 /\ ipi'[t] = ipi[t] \ {c} /\ running'[c] = NoTask
     \/ /\ hpos[t][c] < Len(ops[t])
        /\ hpos'[t][c] = hpos[t][c] + 1 /\ ipi'[t] = ipi[t] /\ running'[c] = t
  /\ \A d \in CPUs \ {c} : hpos'[t][d] = hpos[t][d] /\ running'[d] = running[d]
  /\ \A u \in Callers \ {t} : hpos'[u] = hpos[u] /\ ipi'[u] = ipi[u]

\* What the operation there did.
Runs(t, c, i) ==
  \/ ops[t][i].cpu # c /\ ops' = ops /\ msr' = msr /\ done' = done
  \/ /\ ops[t][i].cpu = c
     /\ done' = [done EXCEPT ![t] = @ \cup {i}]
     /\ \A d \in CPUs, a \in Regs : d # c \/ a # ops[t][i].msr => msr'[d][a] = msr[d][a]
     /\ LET op == ops'[t][i]
            old == msr[c][op.msr]
            new == msr'[c][op.msr]
        IN  /\ op.err = NoError /\ op.isrdmsr => op.msrdata = old
            /\ op.err = NoError /\ ~op.isrdmsr =>
                 new \cap op.wmask = op.msrdata \cap op.wmask
            /\ op.isrdmsr => new = old
            /\ \A V : op.wmask \subseteq V => new \ V = old \ V

\* The context of a step of the function that t sent to CPU c.
LEMMA HandlerContext ==
  ASSUME BatchInv, NEW t \in Callers, NEW c \in CPUs, Handler(t, c)
  PROVE  /\ c \in ipi[t] /\ bpc[t] = "wait" /\ running[c] \in {NoTask, t}
         /\ hpos[t][c] \in 1 .. Len(ops[t]) /\ Len(ops[t]) \in Nat /\ Len(ops[t]) <= MaxOps
         /\ ops \in [Callers -> Seq(Op)] /\ ops[t][hpos[t][c]] \in Op
         /\ UNCHANGED <<specVars, online, bpc, cur, err, missed, during, raced>>
<1>1. c \in ipi[t] /\ running[c] \in {NoTask, t}
      /\ UNCHANGED <<specVars, online, bpc, cur, err, missed, during, raced>>
  BY DEF Handler, RunsOn, history
<1>2. bpc[t] = "wait" /\ hpos[t][c] <= Len(ops[t])
  BY <1>1 DEF BatchInv, RunInv
<1>3. ops[t] \in Seq(Op) /\ ops \in [Callers -> Seq(Op)] /\ hpos[t][c] \in 1 .. MaxOps
      /\ Len(ops[t]) \in Nat /\ Len(ops[t]) <= MaxOps
  BY BatchAssumption DEF BatchInv, BatchTypeOK
<1>4. hpos[t][c] \in 1 .. Len(ops[t])
  BY <1>2, <1>3, BatchAssumption
<1> QED
  BY <1>1, <1>2, <1>3, <1>4

\* A function on a CPU moves one operation ahead and keeps the CPU, or ends there.
LEMMA HandlerMoves ==
  ASSUME BatchInv, NEW t \in Callers, NEW c \in CPUs, Handler(t, c)
  PROVE  /\ Moves(t, c)
         /\ hpos' \in [Callers -> [CPUs -> 1 .. MaxOps]]
         /\ ipi' \in [Callers -> SUBSET CPUs]
         /\ running' \in [CPUs -> Lookers \cup {NoTask}]
<1>1. /\ c \in ipi[t] /\ hpos[t][c] \in 1 .. Len(ops[t])
      /\ Len(ops[t]) \in Nat /\ Len(ops[t]) <= MaxOps /\ MaxOps \in Nat /\ t \in Lookers
  BY HandlerContext, BatchAssumption
<1>2. /\ hpos \in [Callers -> [CPUs -> 1 .. MaxOps]] /\ ipi \in [Callers -> SUBSET CPUs]
      /\ running \in [CPUs -> Lookers \cup {NoTask}]
  BY DEF BatchInv, BatchTypeOK, EnvTypeOK, MachineTypeOK
<1> DEFINE last == hpos[t][c] + 1 > Len(ops[t])
<1>3. /\ hpos' = [hpos EXCEPT ![t][c] = IF last THEN 1 ELSE hpos[t][c] + 1]
      /\ ipi' = [ipi EXCEPT ![t] = IF last THEN @ \ {c} ELSE @]
      /\ running' = [running EXCEPT ![c] = IF last THEN NoTask ELSE t]
  BY DEF Handler, NextPos
<1>4. (last <=> hpos[t][c] = Len(ops[t])) /\ (~last <=> hpos[t][c] < Len(ops[t]))
  BY <1>1
<1>5. CASE last
  BY <1>1, <1>2, <1>3, <1>4, <1>5 DEF Moves
<1>6. CASE ~last
  <2>1. hpos[t][c] + 1 \in 1 .. MaxOps
    BY <1>1, <1>4, <1>6
  <2> QED
    BY <1>1, <1>2, <1>3, <1>4, <1>6, <2>1 DEF Moves
<1> QED
  BY <1>5, <1>6

\* A function runs the operation that it is at if that is for its CPU.
LEMMA HandlerRuns ==
  ASSUME BatchInv, NEW t \in Callers, NEW c \in CPUs, Handler(t, c)
  PROVE  /\ Runs(t, c, hpos[t][c]) /\ OnlyOp(ops, ops', t, hpos[t][c])
         /\ \A i \in 1 .. Len(ops[t]) : ops'[t][i].wmask = ops[t][i].wmask
         /\ done' \in [Callers -> SUBSET (1 .. MaxOps)]
         /\ msr' \in [CPUs -> [Regs -> SUBSET RegBits]]
<1> DEFINE i == hpos[t][c]
           op == ops[t][i]
           old == msr[c][op.msr]
<1>1. /\ i \in 1 .. Len(ops[t]) /\ ops \in [Callers -> Seq(Op)] /\ op \in Op
      /\ Len(ops[t]) \in Nat /\ Len(ops[t]) <= MaxOps /\ MaxOps \in Nat
  BY HandlerContext, BatchAssumption
<1>2. /\ done \in [Callers -> SUBSET (1 .. MaxOps)]
      /\ msr \in [CPUs -> [Regs -> SUBSET RegBits]]
  BY DEF BatchInv, BatchTypeOK, EnvTypeOK, MachineTypeOK
<1>3. op.msr \in Regs /\ old \in Masks /\ Masks = SUBSET RegBits
  BY <1>1, <1>2, EnvironmentAssumption DEF Op, Masks
<1> HIDE DEF i, op, old
<1>4. CASE op.cpu # c
  <2>1. ops' = ops /\ msr' = msr /\ done' = done
    BY <1>4 DEF Handler, op, i
  <2> QED
    BY <1>1, <1>2, <1>4, <2>1 DEF Runs, OnlyOp, op, i
<1>5. CASE op.cpu = c
  <2>1. PICK x \in Execute(op, old) :
          /\ ops' = WithData(WithErr(ops, t, i, x.err), t, i, x.msrdata)
          /\ msr' = [msr EXCEPT ![c][op.msr] = x.new]
          /\ done' = [done EXCEPT ![t] = @ \cup {i}]
    BY <1>5 DEF Handler, WithData, WithErr, i, op, old
  <2>2. /\ x.err \in OpErrors /\ x.msrdata \in Masks /\ x.new \in Masks
        /\ x.err = NoError /\ op.isrdmsr => x.msrdata = old
        /\ x.err = NoError /\ ~op.isrdmsr => x.new \cap op.wmask = x.msrdata \cap op.wmask
        /\ op.isrdmsr => x.new = old
        /\ \A V : op.wmask \subseteq V => x.new \ V = old \ V
    <3>1. op \in Op /\ old \in Masks
      BY <1>1, <1>3
    <3> QED
      BY <3>1, ExecuteEffect
  <2> DEFINE o1 == WithErr(ops, t, i, x.err)
  <2>3. OnlyOp(ops, o1, t, i) /\ o1[t][i].err = x.err /\ o1[t][i].wmask = op.wmask
    <3>1. /\ ops \in [Callers -> Seq(Op)] /\ i \in 1 .. Len(ops[t]) /\ x.err \in OpErrors
      BY <1>1, <2>2
    <3> QED
      BY <3>1, SetErr DEF op
  <2>4. ops' = WithData(o1, t, i, x.msrdata)
    BY <2>1
  <2> HIDE DEF o1
  <2>5. o1 \in [Callers -> Seq(Op)] /\ i \in 1 .. Len(o1[t]) /\ x.msrdata \in Masks
    BY <1>1, <2>2, <2>3 DEF OnlyOp
  <2>6. /\ OnlyOp(o1, ops', t, i) /\ ops'[t][i].msrdata = x.msrdata
        /\ ops'[t][i].err = o1[t][i].err /\ ops'[t][i].wmask = o1[t][i].wmask
    BY <2>4, <2>5, SetData
  <2>7. OnlyOp(ops, ops', t, i)
    BY <1>1, <2>3, <2>6, TwoChanges
  <2>8. /\ ops'[t][i].cpu = op.cpu /\ ops'[t][i].isrdmsr = op.isrdmsr
        /\ ops'[t][i].msr = op.msr /\ ops'[t][i].wmask = op.wmask
        /\ ops'[t][i].err = x.err /\ ops'[t][i].msrdata = x.msrdata
    BY <2>3, <2>6, <2>7 DEF OnlyOp, op
  <2>9. /\ msr'[c][op.msr] = x.new
        /\ \A d \in CPUs, a \in Regs : d # c \/ a # op.msr => msr'[d][a] = msr[d][a]
        /\ msr' \in [CPUs -> [Regs -> SUBSET RegBits]]
    BY <1>2, <1>3, <2>1, <2>2
  <2>10. done' \in [Callers -> SUBSET (1 .. MaxOps)]
    BY <1>1, <1>2, <2>1
  <2>11. \A j \in 1 .. Len(ops[t]) : ops'[t][j].wmask = ops[t][j].wmask
    <3>1. \A j \in 1 .. Len(ops[t]) : j # i => ops'[t][j] = ops[t][j]
      BY <2>7 DEF OnlyOp
    <3>2. ops'[t][i].wmask = ops[t][i].wmask
      BY <2>8 DEF op
    <3> QED
      BY <3>1, <3>2
  <2>12. Runs(t, c, i)
    <3>1. ops[t][i].cpu = c
      BY <1>5 DEF op
    <3>2. \A d \in CPUs, a \in Regs : d # c \/ a # ops[t][i].msr => msr'[d][a] = msr[d][a]
      BY <2>9 DEF op
    <3>3. msr[c][ops'[t][i].msr] = old /\ msr'[c][ops'[t][i].msr] = x.new
      BY <2>8, <2>9 DEF old
    <3> QED
      BY <2>1, <2>2, <2>8, <3>1, <3>2, <3>3 DEF Runs
  <2> QED
    BY <2>7, <2>9, <2>10, <2>11, <2>12 DEF i
<1> QED
  BY <1>4, <1>5

\* What the steps of a function rest on, for the next lemmas.
HandlerFacts(t, c) ==
  /\ c \in ipi[t] /\ bpc[t] = "wait" /\ running[c] \in {NoTask, t}
  /\ hpos[t][c] \in 1 .. Len(ops[t]) /\ Len(ops[t]) \in Nat
  /\ Moves(t, c) /\ Runs(t, c, hpos[t][c]) /\ OnlyOp(ops, ops', t, hpos[t][c])
  /\ \A i \in 1 .. Len(ops[t]) : ops'[t][i].wmask = ops[t][i].wmask
  /\ UNCHANGED <<specVars, online, bpc, cur, err, missed, during, raced>>

\* What has run is still what lies behind the positions: the operation is run exactly when
\* the position passes it.
LEMMA HandlerKeepsRunInv ==
  ASSUME BatchInv, NEW t \in Callers, NEW c \in CPUs, HandlerFacts(t, c)
  PROVE  RunInv(t)'
<1> DEFINE p == hpos[t][c]
           L == Len(ops[t])
<1>1. /\ p \in 1 .. L /\ L \in Nat /\ Len(ops'[t]) = L /\ bpc[t] = "wait" /\ bpc' = bpc
      /\ \A i \in 1 .. L : ops'[t][i].cpu = ops[t][i].cpu
      /\ c \in ipi[t] /\ ipi[t] \subseteq CPUs /\ missed' = missed
      /\ ipi'[t] \subseteq ipi[t]
  BY DEF HandlerFacts, OnlyOp, Moves, BatchInv, BatchTypeOK
<1>2. /\ done[t] \subseteq 1 .. L /\ \A i \in done[t] : ops[t][i].cpu \in CPUs
      /\ \A d \in ipi[t] :
           /\ hpos[t][d] <= L
           /\ \A i \in 1 .. L : ops[t][i].cpu = d => (i \in done[t] <=> i < hpos[t][d])
      /\ \A d \in CPUs \ ipi[t] :
           /\ hpos[t][d] = 1
           /\ \/ \A i \in 1 .. L : ops[t][i].cpu = d => i \in done[t]
              \/ \A i \in 1 .. L : ops[t][i].cpu = d => i \notin done[t]
      /\ \A i \in 1 .. L : i \in done[t] \/ ops[t][i].cpu \in ipi[t] \cup missed[t]
  BY <1>1 DEF BatchInv, RunInv
<1>3. done'[t] = IF ops[t][p].cpu = c THEN done[t] \cup {p} ELSE done[t]
  BY DEF HandlerFacts, Runs, BatchInv, BatchTypeOK
<1>4. /\ done'[t] \subseteq 1 .. L /\ \A i \in done'[t] : ops[t][i].cpu \in CPUs
  BY <1>1, <1>2, <1>3
<1>5. \A d \in CPUs \ {c} :
        /\ hpos'[t][d] = hpos[t][d] /\ (d \in ipi'[t] <=> d \in ipi[t])
        /\ \A i \in 1 .. L : ops[t][i].cpu = d => (i \in done'[t] <=> i \in done[t])
  BY <1>1, <1>3 DEF HandlerFacts, Moves
<1>6. \A i \in 1 .. L : ops[t][i].cpu = c => (i \in done'[t] <=> i < p + 1)
  <2> SUFFICES ASSUME NEW i \in 1 .. L, ops[t][i].cpu = c
               PROVE  i \in done'[t] <=> i < p + 1
    OBVIOUS
  <2>1. i \in done[t] <=> i < p
    BY <1>1, <1>2
  <2>2. CASE i = p
    BY <1>1, <1>3, <2>2
  <2>3. CASE i # p
    BY <1>1, <1>3, <2>1, <2>3
  <2> QED
    BY <2>2, <2>3
<1>7. CASE p = L
  <2>1. hpos'[t][c] = 1 /\ ipi'[t] = ipi[t] \ {c}
    BY <1>1, <1>7 DEF HandlerFacts, Moves
  <2>2. \A i \in 1 .. L : ops[t][i].cpu = c => i \in done'[t]
    BY <1>1, <1>6, <1>7
  <2>3. \A i \in 1 .. L : i \in done'[t] \/ ops[t][i].cpu \in ipi'[t] \cup missed[t]
    BY <1>2, <1>3, <2>1, <2>2
  <2>4. \A d \in CPUs \ ipi'[t] :
          /\ hpos'[t][d] = 1
          /\ \/ \A i \in 1 .. L : ops[t][i].cpu = d => i \in done'[t]
             \/ \A i \in 1 .. L : ops[t][i].cpu = d => i \notin done'[t]
    <3> SUFFICES ASSUME NEW d \in CPUs \ ipi'[t], d # c
                 PROVE  /\ hpos'[t][d] = 1
                        /\ \/ \A i \in 1 .. L : ops[t][i].cpu = d => i \in done'[t]
                           \/ \A i \in 1 .. L : ops[t][i].cpu = d => i \notin done'[t]
      BY <2>1, <2>2
    <3> QED
      BY <1>2, <1>5
  <2>5. \A d \in ipi'[t] :
          /\ hpos'[t][d] <= L
          /\ \A i \in 1 .. L : ops[t][i].cpu = d => (i \in done'[t] <=> i < hpos'[t][d])
    BY <1>1, <1>2, <1>5, <2>1
  <2> HIDE DEF L
  <2> QED
    BY <1>1, <1>4, <2>3, <2>4, <2>5 DEF RunInv, L
<1>8. CASE p # L
  <2>1. hpos'[t][c] = p + 1 /\ ipi'[t] = ipi[t] /\ p < L
    BY <1>1, <1>8 DEF HandlerFacts, Moves
  <2>3. \A i \in 1 .. L : i \in done'[t] \/ ops[t][i].cpu \in ipi'[t] \cup missed[t]
    BY <1>2, <1>3, <2>1
  <2>4. \A d \in CPUs \ ipi'[t] :
          /\ hpos'[t][d] = 1
          /\ \/ \A i \in 1 .. L : ops[t][i].cpu = d => i \in done'[t]
             \/ \A i \in 1 .. L : ops[t][i].cpu = d => i \notin done'[t]
    BY <1>1, <1>2, <1>5, <2>1
  <2>5. \A d \in ipi'[t] :
          /\ hpos'[t][d] <= L
          /\ \A i \in 1 .. L : ops[t][i].cpu = d => (i \in done'[t] <=> i < hpos'[t][d])
    <3> SUFFICES ASSUME NEW d \in ipi[t]
                 PROVE  /\ hpos'[t][d] <= L
                        /\ \A i \in 1 .. L : ops[t][i].cpu = d =>
                             (i \in done'[t] <=> i < hpos'[t][d])
      BY <2>1
    <3>1. CASE d = c
      BY <1>1, <1>6, <2>1, <3>1
    <3>2. CASE d # c
      BY <1>1, <1>2, <1>5, <3>2
    <3> QED
      BY <3>1, <3>2
  <2> QED
    BY <1>1, <1>4, <2>3, <2>4, <2>5 DEF RunInv
<1> QED
  BY <1>7, <1>8

\* The register that was written last keeps the value: the function has the CPU, and the
\* next operation that writes there is the last write from then on.
LEMMA HandlerKeepsWritten ==
  ASSUME BatchInv, NEW t \in Callers, NEW c \in CPUs, HandlerFacts(t, c)
  PROVE  OwnInv' /\ WrittenInv'
<1> DEFINE p == hpos[t][c]
           L == Len(ops[t])
<1>1. /\ p \in 1 .. L /\ L \in Nat /\ c \in ipi[t] /\ ipi \in [Callers -> SUBSET CPUs]
      /\ \A u \in Callers \ {t} : /\ hpos'[u] = hpos[u] /\ ipi'[u] = ipi[u]
                                  /\ ops'[u] = ops[u]
      /\ \A d \in CPUs \ {c} : hpos'[t][d] = hpos[t][d] /\ running'[d] = running[d]
      /\ ipi'[t] \subseteq ipi[t]
      /\ \A d \in ipi[t] : hpos[t][d] \in Int /\ hpos[t][d] <= L
  BY DEF HandlerFacts, OnlyOp, Moves, BatchInv, BatchTypeOK, RunInv
<1>2. /\ \A i \in 1 .. L : i # p => ops'[t][i] = ops[t][i]
      /\ \A i \in 1 .. L : /\ ops'[t][i].cpu = ops[t][i].cpu
                           /\ ops'[t][i].msr = ops[t][i].msr
                           /\ ops'[t][i].isrdmsr = ops[t][i].isrdmsr
  BY <1>1 DEF HandlerFacts, OnlyOp
<1>3. \A u \in Callers \ {t} : c \in ipi[u] => ~(hpos[u][c] > 1)
  <2>1. running[c] \in {NoTask, t}
    BY DEF HandlerFacts
  <2> QED
    BY <2>1, EnvironmentAssumption, BatchAssumption DEF BatchInv, OwnInv
<1>4. OwnInv'
  <2> SUFFICES ASSUME NEW u \in Callers, NEW d \in ipi'[u], hpos'[u][d] > 1
               PROVE  running'[d] = u
    BY DEF OwnInv
  <2>1. CASE u # t
    <3>1. d \in CPUs \ {c} /\ d \in ipi[u] /\ hpos[u][d] > 1
      BY <1>1, <1>3, <2>1
    <3> QED
      BY <1>1, <3>1 DEF BatchInv, OwnInv
  <2>2. CASE u = t /\ d # c
    <3>1. d \in CPUs \ {c} /\ d \in ipi[u] /\ hpos[u][d] > 1
      BY <1>1, <2>2
    <3> QED
      BY <1>1, <3>1 DEF BatchInv, OwnInv
  <2>3. CASE u = t /\ d = c
    BY <1>1, <2>3 DEF HandlerFacts, Moves
  <2> QED
    BY <2>1, <2>2, <2>3
<1>5. WrittenInv'
  <2> SUFFICES ASSUME NEW u \in Callers, NEW d \in ipi'[u], NEW i \in 1 .. hpos'[u][d] - 1,
                      LastWrite(u, d, i)'
               PROVE  (msr[d][ops[u][i].msr] \cap ops[u][i].wmask
                         = ops[u][i].msrdata \cap ops[u][i].wmask)'
    BY DEF WrittenInv
  <2>1. CASE u # t
    <3>1. d \in CPUs \ {c} /\ d \in ipi[u] /\ i \in 1 .. hpos[u][d] - 1
      <4>1. d \in ipi[u] /\ d \in CPUs /\ i \in 1 .. hpos[u][d] - 1 /\ hpos[u][d] \in Int
        BY <1>1, <2>1 DEF BatchInv, BatchTypeOK
      <4> QED
        BY <1>3, <2>1, <4>1
    <3>2. LastWrite(u, d, i)
      BY <1>1, <2>1 DEF LastWrite
    <3>3. \A a \in Regs : msr'[d][a] = msr[d][a]
      BY <3>1 DEF HandlerFacts, Runs
    <3>4. ops[u][i].msr \in Regs
      <4>1. ops[u] \in Seq(Op) /\ i \in 1 .. Len(ops[u])
        BY <3>1 DEF BatchInv, BatchTypeOK, RunInv
      <4>2. ops[u][i] \in Op
        BY <4>1
      <4> QED
        BY <4>2 DEF Op
    <3> QED
      BY <1>1, <2>1, <3>1, <3>2, <3>3, <3>4 DEF BatchInv, WrittenInv
  <2>2. CASE u = t /\ d # c
    <3>1. d \in CPUs \ {c} /\ d \in ipi[t] /\ i \in 1 .. hpos[t][d] - 1 /\ i \in 1 .. L
      BY <1>1, <2>2
    <3>2. ops'[t][i] = ops[t][i]
      <4>1. ops'[t][i].cpu = d
        BY <2>2 DEF LastWrite
      <4> QED
        BY <1>2, <3>1, <4>1 DEF HandlerFacts, Runs
    <3>3. LastWrite(t, d, i)
      <4>1. \A k \in i + 1 .. hpos[t][d] - 1 : k \in 1 .. L
        BY <1>1, <3>1
      <4>2. \A k \in i + 1 .. hpos[t][d] - 1 :
              ops[t][k].isrdmsr \/ ops[t][k].cpu # d \/ ops[t][k].msr # ops[t][i].msr
        <5> SUFFICES ASSUME NEW k \in i + 1 .. hpos[t][d] - 1
                     PROVE  \/ ops[t][k].isrdmsr \/ ops[t][k].cpu # d
                            \/ ops[t][k].msr # ops[t][i].msr
          OBVIOUS
        <5>1. k \in 1 .. L /\ hpos'[t][d] = hpos[t][d]
          BY <1>1, <3>1, <4>1
        <5>2. \/ ops'[t][k].isrdmsr \/ ops'[t][k].cpu # d
              \/ ops'[t][k].msr # ops'[t][i].msr
          BY <2>2, <5>1 DEF LastWrite
        <5>3. /\ ops'[t][k].cpu = ops[t][k].cpu /\ ops'[t][k].msr = ops[t][k].msr
              /\ ops'[t][k].isrdmsr = ops[t][k].isrdmsr
          BY <1>2, <5>1
        <5> QED
          BY <3>2, <5>2, <5>3
      <4> QED
        BY <2>2, <3>2, <4>2 DEF LastWrite
    <3>4. msr'[d][ops[t][i].msr] = msr[d][ops[t][i].msr]
      <4>1. ops[t][i] \in Op
        BY <3>1 DEF BatchInv, BatchTypeOK
      <4> QED
        BY <3>1, <4>1 DEF HandlerFacts, Runs, Op
    <3> QED
      BY <2>2, <3>1, <3>2, <3>3, <3>4 DEF BatchInv, WrittenInv
  <2>3. CASE u = t /\ d = c
    <3>1. p < L /\ hpos'[t][c] = p + 1 /\ ipi'[t] = ipi[t] /\ i \in 1 .. p /\ i \in 1 .. L
      BY <1>1, <2>3 DEF HandlerFacts, Moves
    <3>2. ops[t][i].cpu = c
      BY <1>2, <2>3, <3>1 DEF LastWrite
    <3>3. ASSUME i # p
          PROVE  LastWrite(t, c, i) /\ i \in 1 .. p - 1 /\ ops'[t][i] = ops[t][i]
      <4>1. i \in 1 .. p - 1 /\ \A k \in i + 1 .. p - 1 : k \in 1 .. L /\ k \in i + 1 .. p
        BY <1>1, <3>1, <3>3
      <4>2. ops'[t][i] = ops[t][i]
        BY <1>2, <3>1, <3>3
      <4>3. hpos'[t][c] - 1 = p
        BY <1>1, <3>1
      <4> QED
        BY <1>2, <2>3, <3>1, <4>1, <4>2, <4>3 DEF LastWrite
    <3>4. CASE ops[t][p].cpu # c
      <4>1. i # p /\ msr' = msr
        BY <3>2, <3>4 DEF HandlerFacts, Runs
      <4> QED
        BY <1>1, <2>3, <3>3, <4>1 DEF BatchInv, WrittenInv
    <3>5. CASE ops[t][p].cpu = c /\ i = p
      BY <2>3, <3>5 DEF HandlerFacts, Runs, LastWrite
    <3>6. CASE ops[t][p].cpu = c /\ i # p
      <4>1. p \in i + 1 .. hpos'[t][c] - 1
        BY <1>1, <3>1, <3>6
      <4>2. ops[t][p].isrdmsr \/ ops[t][p].msr # ops[t][i].msr
        <5>1. LastWrite(t, c, i)'
          BY <2>3
        <5>2. \/ ops'[t][p].isrdmsr \/ ops'[t][p].cpu # c
              \/ ops'[t][p].msr # ops'[t][i].msr
          BY <4>1, <5>1 DEF LastWrite
        <5> QED
          BY <1>1, <1>2, <3>1, <3>6, <5>2
      <4>3. ops[t][i] \in Op
        BY <3>1 DEF BatchInv, BatchTypeOK
      <4>4. msr'[c][ops[t][i].msr] = msr[c][ops[t][i].msr]
        <5>1. CASE ops[t][p].msr # ops[t][i].msr
          BY <1>1, <3>6, <4>3, <5>1 DEF HandlerFacts, Runs, Op, BatchInv, BatchTypeOK
        <5>2. CASE ops[t][p].msr = ops[t][i].msr /\ ops[t][p].isrdmsr
          <6>1. LET op == ops'[t][p] IN op.isrdmsr => msr'[c][op.msr] = msr[c][op.msr]
            BY <3>6 DEF HandlerFacts, Runs
          <6>2. ops'[t][p].isrdmsr /\ ops'[t][p].msr = ops[t][i].msr
            BY <1>1, <1>2, <5>2
          <6> QED
            BY <6>1, <6>2
        <5> QED
          BY <4>2, <5>1, <5>2
      <4> QED
        BY <1>1, <2>3, <3>3, <3>6, <4>4 DEF BatchInv, WrittenInv
    <3> QED
      BY <3>4, <3>5, <3>6
  <2> QED
    BY <2>1, <2>2, <2>3
<1> QED
  BY <1>4, <1>5

\* A read finds what the last write of its array left in the register.
LEMMA HandlerKeepsReads ==
  ASSUME BatchInv, NEW t \in Callers, NEW c \in CPUs, HandlerFacts(t, c)
  PROVE  ReadsOwnWrite'
<1> DEFINE p == hpos[t][c]
           L == Len(ops[t])
<1>1. /\ p \in 1 .. L /\ L \in Nat /\ c \in ipi[t]
      /\ \A i \in 1 .. L : i # p => ops'[t][i] = ops[t][i]
      /\ \A i \in 1 .. L : /\ ops'[t][i].cpu = ops[t][i].cpu
                           /\ ops'[t][i].msr = ops[t][i].msr
                           /\ ops'[t][i].isrdmsr = ops[t][i].isrdmsr
      /\ \A u \in Callers \ {t} : ops'[u] = ops[u] /\ done'[u] = done[u]
  BY DEF HandlerFacts, OnlyOp, BatchInv, BatchTypeOK, Runs
<1>2. /\ done[t] \subseteq 1 .. L
      /\ \A i \in 1 .. L : ops[t][i].cpu = c => (i \in done[t] <=> i < p)
  BY <1>1 DEF BatchInv, RunInv
<1>3. CASE ops[t][p].cpu # c
  <2>1. ops' = ops /\ done' = done
    BY <1>3 DEF HandlerFacts, Runs
  <2> QED
    BY <2>1 DEF BatchInv, ReadsOwnWrite
<1>4. CASE ops[t][p].cpu = c
  <2>1. done'[t] = done[t] \cup {p}
    BY <1>4 DEF HandlerFacts, Runs, BatchInv, BatchTypeOK
  <2> SUFFICES ASSUME NEW u \in Callers, NEW j \in done'[u], NEW i \in 1 .. j - 1,
                      ops'[u][i].cpu = ops'[u][j].cpu, ops'[u][i].msr = ops'[u][j].msr,
                      ~ops'[u][i].isrdmsr, ops'[u][j].isrdmsr,
                      ops'[u][i].err = NoError, ops'[u][j].err = NoError,
                      \A k \in i + 1 .. j - 1 : \/ ops'[u][k].isrdmsr
                                                \/ ops'[u][k].cpu # ops'[u][j].cpu
                                                \/ ops'[u][k].msr # ops'[u][j].msr
               PROVE  ops'[u][j].msrdata \cap ops'[u][i].wmask
                        = ops'[u][i].msrdata \cap ops'[u][i].wmask
    BY DEF ReadsOwnWrite
  <2>2. CASE u # t
    BY <1>1, <2>2 DEF BatchInv, ReadsOwnWrite
  <2>3. CASE u = t
    <3>1. /\ j \in 1 .. L /\ i \in 1 .. L /\ i < j
          /\ \A k \in i + 1 .. j - 1 : k \in 1 .. L
      BY <1>1, <1>2, <2>1, <2>3
    <3>2. \A k \in i + 1 .. j - 1 : \/ ops[t][k].isrdmsr
                                    \/ ops[t][k].cpu # ops[t][j].cpu
                                    \/ ops[t][k].msr # ops[t][j].msr
      BY <1>1, <2>3, <3>1
    <3>3. CASE j # p
      <4>1. j \in done[t] /\ i # p
        BY <1>1, <1>2, <1>4, <2>1, <2>3, <3>1, <3>3, SMTT(20)
      <4>2. ops'[t][j] = ops[t][j] /\ ops'[t][i] = ops[t][i]
        BY <1>1, <3>1, <3>3, <4>1
      <4> QED
        BY <2>3, <3>2, <4>1, <4>2 DEF BatchInv, ReadsOwnWrite
    <3>4. CASE j = p
      <4>1. ops'[t][i] = ops[t][i] /\ i \in 1 .. p - 1
        BY <1>1, <3>1, <3>4
      <4>2. LastWrite(t, c, i)
        <5>1. ops[t][i].cpu = c /\ ops[t][i].msr = ops[t][p].msr
              /\ ~ops[t][i].isrdmsr /\ ops[t][i].err = NoError
          BY <1>1, <1>4, <2>3, <3>1, <3>4, <4>1, SMTT(20)
        <5>2. \A k \in i + 1 .. hpos[t][c] - 1 :
                \/ ops[t][k].isrdmsr \/ ops[t][k].cpu # c
                \/ ops[t][k].msr # ops[t][i].msr
          BY <1>4, <3>2, <3>4, <5>1
        <5> QED
          BY <5>1, <5>2 DEF LastWrite
      <4>3. msr[c][ops[t][i].msr] \cap ops[t][i].wmask
              = ops[t][i].msrdata \cap ops[t][i].wmask
        BY <1>1, <4>1, <4>2 DEF BatchInv, WrittenInv
      <4>4. ops'[t][p].msrdata = msr[c][ops'[t][p].msr]
        <5>1. LET op == ops'[t][p]
              IN  op.err = NoError /\ op.isrdmsr => op.msrdata = msr[c][op.msr]
          BY <1>4 DEF HandlerFacts, Runs
        <5> QED
          BY <2>3, <3>4, <5>1
      <4>5. ops'[t][p].msr = ops[t][i].msr
        BY <2>3, <3>4, <4>1
      <4>6. ops'[t][p].msrdata \cap ops'[t][i].wmask
              = ops'[t][i].msrdata \cap ops'[t][i].wmask
        BY <4>1, <4>3, <4>4, <4>5
      <4> QED
        BY <2>3, <3>4, <4>6
    <3> QED
      BY <3>3, <3>4
  <2> QED
    BY <2>2, <2>3
<1> QED
  BY <1>3, <1>4

\* A write changes bits under its mask only, and its mask was listed.
LEMMA HandlerKeepsBits ==
  ASSUME BatchInv, NEW t \in Callers, NEW c \in CPUs, HandlerFacts(t, c)
  PROVE  UnlistedBitsKept'
<1> DEFINE p == hpos[t][c]
           op == ops'[t][p]
<1>1. /\ p \in 1 .. Len(ops[t]) /\ raced' = raced /\ bpc[t] = "wait"
      /\ op.msr = ops[t][p].msr /\ op.wmask = ops[t][p].wmask
  BY DEF HandlerFacts, OnlyOp
<1> SUFFICES ASSUME ~raced, NEW d \in CPUs, NEW a \in Regs
             PROVE  msr'[d][a] \ Writable(a) = PowerOn \ Writable(a)
  BY <1>1 DEF UnlistedBitsKept, Writable, AdminLists, MaskIn
<1>2. msr[d][a] \ Writable(a) = PowerOn \ Writable(a)
  BY DEF BatchInv, UnlistedBitsKept
<1>3. CASE msr'[d][a] = msr[d][a]
  BY <1>2, <1>3
<1>4. CASE ops[t][p].cpu = c /\ d = c /\ a = op.msr
  <2>1. Checked(t, ops[t][p])
    BY <1>1 DEF BatchInv, ScanInv
  <2>2. LookupTypeOK /\ t \in Lookers
    BY BatchAssumption DEF BatchInv, BatchTypeOK, EnvTypeOK, LookupTypeOK
  <2>3. op.wmask \subseteq Writable(a)
    BY <1>1, <1>4, <2>1, <2>2, MasksDuringWritable DEF Checked
  <2>4. LET o == ops'[t][p]
        IN  \A V : o.wmask \subseteq V => msr'[c][o.msr] \ V = msr[c][o.msr] \ V
    BY <1>4 DEF HandlerFacts, Runs
  <2> QED
    BY <1>2, <1>4, <2>3, <2>4
<1> QED
  BY <1>1, <1>3, <1>4 DEF HandlerFacts, Runs

\* __msr_safe_batch runs one operation on a CPU.
LEMMA HandlerStep ==
  ASSUME BatchInv, NEW t \in Callers, NEW c \in CPUs, Handler(t, c)
  PROVE  BatchInv'
<1>1. HandlerFacts(t, c)
  BY HandlerContext, HandlerMoves, HandlerRuns DEF HandlerFacts
<1>2. BatchTypeOK'
  <2>1. EnvTypeOK'
    BY <1>1, HandlerRuns, HandlerMoves
       DEF BatchInv, BatchTypeOK, EnvTypeOK, MachineTypeOK, HandlerFacts, specVars
  <2>2. ops' \in [Callers -> Seq(Op)] /\ \A u \in Callers : Len(ops'[u]) <= MaxOps
    BY <1>1 DEF HandlerFacts, OnlyOp, BatchInv, BatchTypeOK
  <2> QED
    BY <1>1, <2>1, <2>2, HandlerMoves, HandlerRuns DEF BatchInv, BatchTypeOK, HandlerFacts
<1>3. Elsewhere(t)
  BY <1>1 DEF HandlerFacts, Elsewhere, OnlyOp, Moves, Runs, BatchInv, BatchTypeOK, specVars
<1>4. ViewInv(t)'
  BY <1>1 DEF HandlerFacts, BatchInv, ViewInv, InCall, specVars
<1>5. ScanInv(t)'
  <2>1. err[t] = NoError /\ \A i \in 1 .. Len(ops[t]) : Checked(t, ops[t][i])
    BY <1>1 DEF BatchInv, ScanInv, HandlerFacts
  <2>2. /\ Len(ops'[t]) = Len(ops[t])
        /\ \A i \in 1 .. Len(ops[t]) : /\ ops'[t][i].cpu = ops[t][i].cpu
                                       /\ ops'[t][i].msr = ops[t][i].msr
                                       /\ ops'[t][i].isrdmsr = ops[t][i].isrdmsr
                                       /\ ops'[t][i].wmask = ops[t][i].wmask
    BY <1>1 DEF HandlerFacts, OnlyOp
  <2>3. \A i \in 1 .. Len(ops'[t]) : Checked(t, ops[t][i])'
    BY <1>1, <2>1, <2>2 DEF HandlerFacts, Checked, WasListed, MasksDuring
  <2> QED
    BY <1>1, <2>1, <2>3 DEF ScanInv, HandlerFacts, Checking
<1>6. RunInv(t)' /\ OwnInv' /\ WrittenInv' /\ ReadsOwnWrite' /\ UnlistedBitsKept'
  BY <1>1, HandlerKeepsRunInv, HandlerKeepsWritten, HandlerKeepsReads, HandlerKeepsBits
<1>7. \A u \in Callers : ViewInv(u)' /\ ScanInv(u)' /\ RunInv(u)'
  BY <1>3, <1>4, <1>5, <1>6, OthersKeep DEF BatchInv
<1> QED
  BY <1>2, <1>6, <1>7 DEF BatchInv

\* A new list lies between two steps of a call: the call may meet both.
LEMMA BatchReplaceList == ASSUME BatchInv, ReplaceList, UNCHANGED batchVars PROVE BatchInv'
<1>1. LookupTypeOK /\ Callers \subseteq Lookers
  BY BatchAssumption DEF BatchInv, BatchTypeOK, EnvTypeOK, LookupTypeOK
<1>2. /\ LookupTypeOK' /\ raced' = raced /\ UNCHANGED machine
      /\ \A t \in Lookers :
           /\ during[t] \subseteq during'[t]
           /\ InCall(t) => InCall(t)'
           /\ held'[t].open <=> held[t].open
           /\ held'[t].mask = held[t].mask
           /\ held[t].open => held'[t].stale
  BY <1>1, ReplaceListEffect
<1>3. UNCHANGED <<bpc, ops, cur, err, ipi, hpos, done, missed>>
  BY DEF batchVars
<1>4. BatchTypeOK'
  BY <1>2, <1>3 DEF BatchInv, BatchTypeOK, EnvTypeOK, LookupTypeOK, MachineTypeOK, machine
<1>5. ASSUME NEW t \in Callers
      PROVE  ViewInv(t)' /\ ScanInv(t)' /\ RunInv(t)'
  <2>1. ViewInv(t) /\ ScanInv(t) /\ RunInv(t)
    BY DEF BatchInv
  <2>2. /\ during[t] \subseteq during'[t] /\ (InCall(t) => InCall(t)')
        /\ held'[t].open <=> held[t].open
        /\ held[t].open => held'[t].stale
    BY <1>1, <1>2
  <2>3. \A op : Checked(t, op) => Checked(t, op)'
    BY <1>2, <2>2, CheckedStays
  <2>4. ViewInv(t)'
    BY <1>3, <2>1, <2>2 DEF ViewInv, HeldListed, WasListed, CurOp
  <2>5. ScanInv(t)'
    BY <1>3, <2>1, <2>3 DEF ScanInv, ErrorOf, CurOp
  <2> QED
    BY <1>3, <2>1, <2>4, <2>5 DEF RunInv
<1>6. OwnInv' /\ WrittenInv' /\ ReadsOwnWrite'
  BY <1>2, <1>3 DEF BatchInv, OwnInv, WrittenInv, ReadsOwnWrite, LastWrite, machine
<1>7. UnlistedBitsKept'
  BY <1>2 DEF BatchInv, UnlistedBitsKept, Writable, AdminLists, MaskIn, machine
<1> QED
  BY <1>4, <1>5, <1>6, <1>7 DEF BatchInv

\* A CPU that comes or goes changes no call; what a dead CPU takes along is in missed.
LEMMA BatchHotplug ==
  ASSUME BatchInv, NEW c \in CPUs, CpuDies(c) \/ CpuComes(c), UNCHANGED batchVars
  PROVE  BatchInv'
<1>1. /\ UNCHANGED <<list, held, ans, during, raced, msr, running>> /\ online' \subseteq CPUs
      /\ UNCHANGED <<bpc, ops, cur, err, ipi, hpos, done, missed>>
  BY DEF BatchInv, BatchTypeOK, EnvTypeOK, MachineTypeOK, CpuDies, CpuComes, CpuDown, CpuUp,
         specVars, history, batchVars
<1>2. BatchTypeOK'
  BY <1>1 DEF BatchInv, BatchTypeOK, EnvTypeOK, MachineTypeOK
<1>3. ASSUME NEW t \in Callers
      PROVE  ViewInv(t)' /\ ScanInv(t)' /\ RunInv(t)'
  <2>1. ViewInv(t) /\ ScanInv(t) /\ RunInv(t)
    BY DEF BatchInv
  <2> QED
    BY <1>1, <2>1 DEF ViewInv, InCall, HeldListed, WasListed, MasksDuring, CurOp, ScanInv,
                      ErrorOf, Checked, RunInv
<1>4. OwnInv' /\ WrittenInv' /\ ReadsOwnWrite' /\ UnlistedBitsKept'
  BY <1>1
     DEF BatchInv, OwnInv, WrittenInv, ReadsOwnWrite, LastWrite, UnlistedBitsKept, Writable,
              AdminLists, MaskIn
<1> QED
  BY <1>2, <1>3, <1>4 DEF BatchInv

\* Where nothing changes, the invariant stays.
LEMMA BatchStutters == ASSUME BatchInv, UNCHANGED bvars PROVE BatchInv'
<1>1. /\ UNCHANGED <<list, held, ans, during, raced, online, msr, running>>
      /\ UNCHANGED <<bpc, ops, cur, err, ipi, hpos, done, missed>>
  BY DEF bvars, envVars, specVars, machine, batchVars
<1>2. BatchTypeOK'
  BY <1>1 DEF BatchInv, BatchTypeOK, EnvTypeOK, MachineTypeOK
<1>3. ASSUME NEW t \in Callers
      PROVE  ViewInv(t)' /\ ScanInv(t)' /\ RunInv(t)'
  <2>1. ViewInv(t) /\ ScanInv(t) /\ RunInv(t)
    BY DEF BatchInv
  <2> QED
    BY <1>1, <2>1 DEF ViewInv, InCall, HeldListed, WasListed, MasksDuring, CurOp, ScanInv,
                      ErrorOf, Checked, RunInv
<1>4. OwnInv' /\ WrittenInv' /\ ReadsOwnWrite' /\ UnlistedBitsKept'
  BY <1>1
     DEF BatchInv, OwnInv, WrittenInv, ReadsOwnWrite, LastWrite, UnlistedBitsKept, Writable,
              AdminLists, MaskIn
<1> QED
  BY <1>2, <1>3, <1>4 DEF BatchInv

\* A step of a call or of one of its functions preserves the invariant.
LEMMA BatchStepKeeps ==
  ASSUME BatchInv, NEW t \in Callers,
         IoctlRejected(t) \/ Ioctl(t) \/ CallStep(t) \/ \E c \in CPUs : Handler(t, c)
  PROVE  BatchInv'
<1>1. CASE CallStep(t)
  BY <1>1, ApplyCpuStep, ApplyExistsStep, ApplyGoneStep, ApplyFindStep, ApplyReadStep,
     ApplyDoneStep, SendFailsStep, SendStep, CollectStep, CopyOutStep, ReturnStep
     DEF CallStep
<1> QED
  BY <1>1, IoctlRejectedStep, IoctlStep, HandlerStep

\* So does every step of the specification.
LEMMA BatchNextStep == BatchInv /\ [BatchNext]_bvars => BatchInv'
  BY BatchStepKeeps, BatchReplaceList, BatchHotplug, BatchStutters DEF BatchNext

\* No call is under way at first, and the registers have their values from power-on.
LEMMA BatchInitHolds == BatchInit => BatchInv
<1> SUFFICES ASSUME BatchInit PROVE BatchInv
  OBVIOUS
<1> USE DEF BatchInit, NoCalls
<1>1. EnvTypeOK /\ \A t \in Lookers : ~held[t].open
  BY EnvInitHolds
<1>2. BatchTypeOK
  <2>1. ops \in [Callers -> Seq(Op)] /\ \A t \in Callers : Len(ops[t]) <= MaxOps
    BY BatchAssumption, EmptySeq
  <2> QED
    BY <1>1, <2>1, BatchAssumption DEF BatchTypeOK, BatchLabels, OpErrors, NoError
<1>3. ASSUME NEW t \in Callers
      PROVE  ViewInv(t) /\ ScanInv(t) /\ RunInv(t)
  <2>1. /\ bpc[t] = "idle" /\ ops[t] = <<>> /\ err[t] = NoError /\ ipi[t] = {}
        /\ done[t] = {} /\ ~held[t].open /\ \A c \in CPUs : hpos[t][c] = 1
    BY <1>1, BatchAssumption
  <2> QED
    BY <2>1 DEF ViewInv, ScanInv, RunInv, Checking
<1>4. OwnInv /\ WrittenInv /\ ReadsOwnWrite
  BY DEF OwnInv, WrittenInv, ReadsOwnWrite
<1>5. UnlistedBitsKept
  BY DEF EnvInit, MachineInit, UnlistedBitsKept
<1> QED
  BY <1>2, <1>3, <1>4, <1>5 DEF BatchInv

\* Whatever calls, functions, new lists and CPUs do, the invariant holds.
THEOREM BatchInductive == BatchSpec => []BatchInv
  BY BatchInitHolds, BatchNextStep, PTL DEF BatchSpec

\* An array stays as long as it was copied in, and positions, errors and the CPUs waited
\* for are of their types throughout the ioctl.
THEOREM BatchTypesHold == BatchSpec => []BatchTypeOK
<1>1. BatchInv => BatchTypeOK
  BY DEF BatchInv
<1> QED
  BY <1>1, BatchInductive, PTL

\* Past the loop of msrbatch_apply_allowlist, every operation has passed its checks.
LEMMA BatchChecks == BatchInv => ChecksPrecedeRun
<1> SUFFICES ASSUME BatchInv, NEW t \in Callers, bpc[t] \in {"send", "wait"},
                    NEW i \in DOMAIN ops[t]
             PROVE  Checked(t, ops[t][i])
  BY DEF ChecksPrecedeRun, Checked, WasListed
<1>1. i \in 1 .. Len(ops[t])
  BY DEF BatchInv, BatchTypeOK
<1> QED
  BY <1>1 DEF BatchInv, ScanInv

\* No operation of a batch runs before all of its operations have passed the allowlist.
THEOREM ChecksComeFirst == BatchSpec => []ChecksPrecedeRun
  BY BatchChecks, BatchInductive, PTL

\* At the copy out, the error of the call is that of one of its operations.
LEMMA BatchErrors == BatchInv => ErrorsReported
BY DEF BatchInv, BatchTypeOK, ScanInv, ErrorOf, ErrorsReported

\* The caller finds the error that the ioctl returns in the array that it gets back.
THEOREM ErrorsAgree == BatchSpec => []ErrorsReported
  BY BatchErrors, BatchInductive, PTL

\* On one CPU, what has run is what lies below a position.
LEMMA BatchOrder == BatchInv => OrderPerCpu
<1> SUFFICES ASSUME BatchInv, NEW t \in Callers, NEW i \in done[t], NEW j \in 1 .. i - 1,
                    ops[t][j].cpu = ops[t][i].cpu
             PROVE  j \in done[t]
  BY DEF OrderPerCpu
<1>1. /\ RunInv(t) /\ Len(ops[t]) \in Nat
  BY DEF BatchInv, BatchTypeOK
<1>2. i \in 1 .. Len(ops[t]) /\ j \in 1 .. Len(ops[t]) /\ j < i /\ ops[t][i].cpu \in CPUs
  BY <1>1 DEF RunInv
<1>3. CASE ops[t][i].cpu \in ipi[t]
  <2>1. hpos[t][ops[t][i].cpu] \in Int
    BY <1>2 DEF BatchInv, BatchTypeOK
  <2> QED
    BY <1>1, <1>2, <1>3, <2>1 DEF RunInv
<1>4. CASE ops[t][i].cpu \notin ipi[t]
  BY <1>1, <1>2, <1>4 DEF RunInv
<1> QED
  BY <1>3, <1>4

\* The operations of a batch for one CPU run in the order of the array.
THEOREM OrderHolds == BatchSpec => []OrderPerCpu
  BY BatchOrder, BatchInductive, PTL

\* A read of a batch returns the bits that the last write before it, to the same register
\* and CPU, has set, whatever other calls and new lists come between.
THEOREM OwnWritesAreRead == BatchSpec => []ReadsOwnWrite
<1>1. BatchInv => ReadsOwnWrite
  BY DEF BatchInv
<1> QED
  BY <1>1, BatchInductive, PTL

\* No batch changes a bit that no list opens, but for a mask read from a freed entry.
THEOREM UnlistedBitsHold == BatchSpec => []UnlistedBitsKept
<1>1. BatchInv => UnlistedBitsKept
  BY DEF BatchInv
<1> QED
  BY <1>1, BatchInductive, PTL

\* When no error is reported, an operation that has not run is one of a missed CPU.
LEMMA BatchRun == BatchInv => RunUnlessOffline
<1> SUFFICES ASSUME BatchInv, NEW t \in Callers, bpc[t] = "copyout", err[t] = NoError,
                    NEW i \in DOMAIN ops[t]
             PROVE  i \in done[t] \/ ops[t][i].cpu \in missed[t]
  BY DEF RunUnlessOffline
<1>1. i \in 1 .. Len(ops[t])
  BY DEF BatchInv, BatchTypeOK
<1>2. RunInv(t)
  BY DEF BatchInv
<1> QED
  BY <1>1, <1>2 DEF RunInv

\* A batch that returns 0 has run every operation, but for those whose CPU went offline
\* between the check and the interrupt.
THEOREM SuccessMeansRunOrOffline == BatchSpec => []RunUnlessOffline
  BY BatchRun, BatchInductive, PTL

==============================================================================
