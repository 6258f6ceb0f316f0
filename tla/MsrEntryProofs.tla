---------------------------- MODULE MsrEntryProofs ----------------------------
(***************************************************************************)
(* The theorems of MsrEntry: for any users, CPUs, registers and lists, a   *)
(* call on the device of a CPU touches only a register that was listed     *)
(* while the call ran, refuses only what some list of that time does not   *)
(* open, and changes no bit that no list opens.                            *)
(*                                                                         *)
(* EntryInv is inductive. CallInv says of each call what its lookups have  *)
(* told it: the register was listed, the mask it merges under was given to *)
(* the register in this call, and the merged value that it is about to     *)
(* write has the closed bits as they were. A mask that was read from a     *)
(* freed entry voids the last two: raced records that.                     *)
(***************************************************************************)
EXTENDS MsrEntry, EnvironmentProofs

\* A bit that no list opens keeps its value on every CPU.
BitsKept ==
  raced \/ \A c \in CPUs, a \in Regs :
             msr[c][a] \ Writable(a) = PowerOn \ Writable(a)

\* A list that was installed during u's call justifies a refusal.
MayRefuse(u) ==
  \E l \in during[u] : \/ Reg(u) \notin DOMAIN l
                       \/ call[u] = "write" /\ MaskIn(l, Reg(u)) = {}

\* What the call of u knows of the allowlist, and what it is about to do.
CallInv(u) ==
  /\ held[u].open <=> epc[u] = "mask"
  /\ epc[u] # "idle" => file[u] # Closed
  /\ epc[u] \notin {"idle", "return"} => InCall(u) /\ WasListed(u, Reg(u))
  /\ epc[u] = "mask" => call[u] = "write" /\ HeldListed(u, Reg(u))
  /\ epc[u] = "rdmsr" => call[u] = "read"
  /\ epc[u] \in {"merge", "wrmsr"} =>
       mask[u] # {} /\ (raced \/ mask[u] \in MasksDuring(u, Reg(u)))
  /\ epc[u] = "wrmsr" =>
       \/ raced
       \/ mask[u] = Bits
       \/ data[u] \ Writable(Reg(u)) = PowerOn \ Writable(Reg(u))
  /\ epc[u] = "return" /\ out[u] = "EACCES" => raced \/ MayRefuse(u)

EntryInv == EntryTypeOK /\ BitsKept /\ \A u \in Users : CallInv(u)

\* The other users are where they were and see what they saw.
UserAlone(u) ==
  /\ \A v \in Users \ {u} :
       /\ epc'[v] = epc[v] /\ file'[v] = file[v] /\ call'[v] = call[v]
       /\ mask'[v] = mask[v] /\ user'[v] = user[v] /\ data'[v] = data[v]
       /\ out'[v] = out[v] /\ held'[v] = held[v] /\ during'[v] = during[v]
  /\ list' = list /\ (raced => raced')

\* The steps of one user leave the calls of the others as they are.
LEMMA UserStep ==
  ASSUME EntryInv, NEW u \in Users, UserAlone(u), EntryTypeOK', BitsKept', CallInv(u)'
  PROVE  EntryInv'
<1> SUFFICES ASSUME NEW v \in Users \ {u} PROVE CallInv(v)'
  BY DEF EntryInv
<1>1. CallInv(v)
  BY DEF EntryInv
<1> QED
  BY <1>1, SMTT(20) DEF UserAlone, CallInv, InCall, WasListed, HeldListed, MasksDuring, MaskIn, Reg,
              MayRefuse, Writable, AdminLists

\* The registers stay as they are, or the history says that an entry was read too late.
LEMMA BitsStay ==
  ASSUME BitsKept, msr' = msr, raced => raced'
  PROVE  BitsKept'
  BY DEF BitsKept, Writable, AdminLists, MaskIn

\* An open file names a CPU, and a register by the address that this CPU takes.
LEMMA FileNamesRegister ==
  ASSUME EntryTypeOK, NEW u \in Users, file[u] # Closed
  PROVE  Cpu(u) \in CPUs /\ Reg(u) \in Regs
<1>1. file[u] \in [cpu : CPUs, pos : 0 .. MaxPos]
  BY DEF EntryTypeOK
<1>2. file[u].pos \in Nat /\ W \in Nat /\ W > 0 /\ Regs = 0 .. W - 1
  BY <1>1, EntryAssumption
<1>3. file[u].pos % W \in 0 .. W - 1
  BY <1>2
<1> QED
  BY <1>1, <1>2, <1>3 DEF Cpu, Reg

\* What the invariant says of one user and of the environment.
LEMMA EntryView ==
  ASSUME EntryInv, NEW u \in Users
  PROVE  /\ EntryTypeOK /\ CallInv(u) /\ BitsKept /\ u \in Lookers /\ LookupTypeOK
         /\ \A v \in Users \ {u} : v \in Lookers \ {u}
  BY EntryAssumption DEF EntryInv, EntryTypeOK, EnvTypeOK, LookupTypeOK

\* msr_open, the close of the file and msr_seek are not calls on a register.
LEMMA OpenStep ==
  ASSUME EntryInv, NEW u \in Users,
         (\E c \in Minors : Open(u, c)) \/ Close(u) \/ Seek(u)
  PROVE  EntryInv'
<1>1. EntryTypeOK /\ CallInv(u) /\ BitsKept
  BY EntryView
<1>2. /\ UNCHANGED <<list, held, ans, online, msr, running, during, raced>>
      /\ UNCHANGED <<epc, call, mask, user, data, out>> /\ epc[u] = "idle"
  BY DEF Open, Close, Seek, OpenFile, envVars, specVars, machine
<1>3. \E f \in [cpu : CPUs, pos : 0 .. MaxPos] \cup {Closed} : file' = [file EXCEPT ![u] = f]
  <2>1. ASSUME NEW c \in Minors, Open(u, c)
        PROVE  [cpu |-> c, pos |-> 0] \in [cpu : CPUs, pos : 0 .. MaxPos]
    BY <1>1, <2>1, EntryAssumption DEF Open, Openable, EntryTypeOK, EnvTypeOK, MachineTypeOK
  <2>2. ASSUME NEW p \in 0 .. MaxPos, file[u] # Closed
        PROVE  [file[u] EXCEPT !.pos = p] \in [cpu : CPUs, pos : 0 .. MaxPos]
    BY <1>1, <2>2 DEF EntryTypeOK
  <2>3. CASE \E c \in Minors : Open(u, c)
    BY <2>1, <2>3 DEF Open
  <2>4. CASE Close(u)
    BY <2>4 DEF Close
  <2>5. CASE Seek(u)
    BY <2>2, <2>5 DEF Seek, OpenFile
  <2> QED
    BY <2>3, <2>4, <2>5
<1>4. EntryTypeOK'
  BY <1>1, <1>2, <1>3 DEF EntryTypeOK, EnvTypeOK, MachineTypeOK
<1>5. UserAlone(u)
  BY <1>1, <1>2, <1>3 DEF UserAlone, EntryTypeOK
<1>6. CallInv(u)'
  BY <1>1, <1>2 DEF CallInv
<1> QED
  BY <1>1, <1>2, <1>4, <1>5, <1>6, UserStep, BitsStay

\* A call that returns without another lookup keeps its file and its view.
LEMMA ReplyStep ==
  ASSUME EntryInv, NEW u \in Users, file[u] # Closed, epc[u] # "mask",
         UNCHANGED <<envVars, file, call, mask, user>>,
         epc' = [epc EXCEPT ![u] = "return"],
         NEW r \in {"8", "EINVAL", "EFAULT", "EIO", "ENXIO"}, Reply(u, r),
         data' = data \/ \E d \in Masks : data' = [data EXCEPT ![u] = d]
  PROVE  EntryInv'
<1>1. EntryTypeOK /\ CallInv(u) /\ BitsKept
  BY EntryView
<1>2. UNCHANGED <<list, held, ans, online, msr, running, during, raced>>
  BY DEF envVars, specVars, machine
<1>3. EntryTypeOK'
  BY <1>1, <1>2 DEF EntryTypeOK, EnvTypeOK, MachineTypeOK, Reply
<1>4. UserAlone(u)
  BY <1>1, <1>2 DEF UserAlone, EntryTypeOK, Reply
<1>5. epc'[u] = "return" /\ out'[u] # "EACCES"
  BY <1>1 DEF EntryTypeOK, Reply
<1>6. CallInv(u)'
  BY <1>1, <1>2, <1>5 DEF CallInv
<1> QED
  BY <1>1, <1>2, <1>3, <1>4, <1>6, UserStep, BitsStay

\* A count that is no multiple of 8 is refused before the allowlist is asked.
LEMMA BadCountStep == ASSUME EntryInv, NEW u \in Users, BadCount(u) PROVE EntryInv'
<1>1. /\ file[u] # Closed /\ epc[u] = "idle" /\ epc' = [epc EXCEPT ![u] = "return"]
      /\ UNCHANGED <<envVars, file, call, mask, user, data>> /\ Reply(u, "EINVAL")
  BY DEF BadCount, OpenFile, EStep
<1> QED
  BY <1>1, ReplyStep

\* The CPU is offline, or the instruction faults: the call returns ENXIO or EIO.
LEMMA UnreachableStep ==
  ASSUME EntryInv, NEW u \in Users, NEW label \in {"rdmsr", "merge", "wrmsr"},
         Unreachable(u, label) \/ AccessFaults(u, label)
  PROVE  EntryInv'
<1>1. /\ epc[u] = label /\ epc' = [epc EXCEPT ![u] = "return"]
      /\ UNCHANGED <<envVars, file, call, mask, user, data>>
      /\ Reply(u, "ENXIO") \/ Reply(u, "EIO")
  BY DEF Unreachable, AccessFaults, EStep
<1>2. file[u] # Closed
  BY <1>1, EntryView DEF CallInv
<1> QED
  BY <1>1, <1>2, ReplyStep

\* msr_read gets the register, which it found listed.
LEMMA RdmsrStep == ASSUME EntryInv, NEW u \in Users, Rdmsr(u) PROVE EntryInv'
<1>1. /\ epc[u] = "rdmsr" /\ epc' = [epc EXCEPT ![u] = "return"]
      /\ UNCHANGED <<envVars, file, call, mask, user>>
      /\ data' = [data EXCEPT ![u] = msr[Cpu(u)][Reg(u)]]
      /\ Reply(u, "8") \/ Reply(u, "EFAULT")
  BY DEF Rdmsr, EStep
<1>2. file[u] # Closed
  BY <1>1, EntryView DEF CallInv
<1>3. msr[Cpu(u)][Reg(u)] \in Masks
  BY <1>2, EntryView, FileNamesRegister, EnvironmentAssumption
     DEF EntryTypeOK, EnvTypeOK, MachineTypeOK, Masks
<1> QED
  BY <1>1, <1>2, <1>3, ReplyStep

\* msr_read asks whether the register is listed, and refuses what is not.
LEMMA ReadCallStep == ASSUME EntryInv, NEW u \in Users, ReadCall(u) PROVE EntryInv'
<1>1. /\ EntryTypeOK /\ CallInv(u) /\ BitsKept /\ u \in Lookers /\ LookupTypeOK
      /\ \A v \in Users \ {u} : v \in Lookers \ {u}
  BY EntryView
<1>2. /\ UNCHANGED <<online, msr, running, raced, file, mask, user, data>>
      /\ call' = [call EXCEPT ![u] = "read"] /\ during' = [during EXCEPT ![u] = {list}]
      /\ epc[u] = "idle" /\ file[u] # Closed /\ MaskExists(u, Reg(u))
  BY DEF ReadCall, OpenFile, EStep, BeginCall, machine
<1>3. /\ list' = list /\ held' = held /\ ans' \in [Lookers -> Answer] /\ raced' \in BOOLEAN
      /\ ans'[u].exists <=> Reg(u) \in DOMAIN list
  BY <1>1, <1>2, MaskExistsEffect
<1>4. \/ Reg(u) \in DOMAIN list /\ epc' = [epc EXCEPT ![u] = "rdmsr"] /\ out' = out
      \/ /\ Reg(u) \notin DOMAIN list /\ epc' = [epc EXCEPT ![u] = "return"]
         /\ out' = [out EXCEPT ![u] = "EACCES"]
  BY <1>3 DEF ReadCall, EStep, Reply
<1>5. EntryTypeOK'
  BY <1>1, <1>2, <1>3, <1>4 DEF EntryTypeOK, EnvTypeOK, MachineTypeOK
<1>6. UserAlone(u)
  BY <1>1, <1>2, <1>3, <1>4 DEF UserAlone, EntryTypeOK, LookupTypeOK
<1>7. CallInv(u)'
  <2>1. during'[u] = {list} /\ call'[u] = "read" /\ Reg(u)' = Reg(u) /\ file'[u] # Closed
    BY <1>1, <1>2 DEF EntryTypeOK, LookupTypeOK, Reg
  <2>2. CASE Reg(u) \in DOMAIN list /\ epc'[u] = "rdmsr"
    BY <1>1, <1>2, <1>3, <2>1, <2>2 DEF CallInv, InCall, WasListed
  <2>3. CASE Reg(u) \notin DOMAIN list /\ epc'[u] = "return"
    <3>1. MayRefuse(u)'
      BY <2>1, <2>3 DEF MayRefuse
    <3> QED
      BY <1>1, <1>2, <1>3, <2>1, <2>3, <3>1 DEF CallInv
  <2> QED
    BY <1>1, <1>4, <2>2, <2>3 DEF EntryTypeOK
<1> QED
  BY <1>1, <1>2, <1>5, <1>6, <1>7, UserStep, BitsStay

\* msr_write finds no entry, and refuses: the list does not have the register.
LEMMA WriteUnlistedStep == ASSUME EntryInv, NEW u \in Users, WriteUnlisted(u) PROVE EntryInv'
<1>1. /\ EntryTypeOK /\ CallInv(u) /\ BitsKept /\ u \in Lookers /\ LookupTypeOK
      /\ \A v \in Users \ {u} : v \in Lookers \ {u}
  BY EntryView
<1>2. /\ UNCHANGED <<online, msr, running, raced, file, mask, user, data>>
      /\ call' = [call EXCEPT ![u] = "write"] /\ during' = [during EXCEPT ![u] = {list}]
      /\ epc[u] = "idle" /\ epc' = [epc EXCEPT ![u] = "return"]
      /\ out' = [out EXCEPT ![u] = "EACCES"]
      /\ file[u] # Closed /\ WriteMaskAbsent(u, Reg(u))
  BY DEF WriteUnlisted, OpenFile, EStep, BeginCall, Reply, machine
<1>3. /\ list' = list /\ held' = held /\ Reg(u) \notin DOMAIN list
      /\ ans' \in [Lookers -> Answer] /\ raced' \in BOOLEAN
  BY <1>1, <1>2, AbsentEffect
<1>4. EntryTypeOK'
  BY <1>1, <1>2, <1>3 DEF EntryTypeOK, EnvTypeOK, MachineTypeOK
<1>5. UserAlone(u)
  BY <1>1, <1>2, <1>3 DEF UserAlone, EntryTypeOK, LookupTypeOK
<1>6. CallInv(u)'
  <2>1. during'[u] = {list} /\ Reg(u)' = Reg(u) /\ epc'[u] = "return"
    BY <1>1, <1>2 DEF EntryTypeOK, LookupTypeOK, Reg
  <2>2. MayRefuse(u)'
    BY <1>3, <2>1 DEF MayRefuse
  <2> QED
    BY <1>1, <1>2, <1>3, <2>1, <2>2 DEF CallInv
<1> QED
  BY <1>1, <1>2, <1>4, <1>5, <1>6, UserStep, BitsStay

\* msr_write finds the entry whose mask it is going to use.
LEMMA WriteCallStep == ASSUME EntryInv, NEW u \in Users, WriteCall(u) PROVE EntryInv'
<1>1. /\ EntryTypeOK /\ CallInv(u) /\ BitsKept /\ u \in Lookers /\ LookupTypeOK
      /\ \A v \in Users \ {u} : v \in Lookers \ {u}
  BY EntryView
<1>2. /\ UNCHANGED <<online, msr, running, raced, file, mask, user, data, out>>
      /\ call' = [call EXCEPT ![u] = "write"] /\ during' = [during EXCEPT ![u] = {list}]
      /\ epc[u] = "idle" /\ epc' = [epc EXCEPT ![u] = "mask"]
      /\ file[u] # Closed /\ WriteMaskFind(u, Reg(u))
  BY DEF WriteCall, OpenFile, EStep, BeginCall, machine
<1>3. /\ list' = list /\ ans' = ans /\ Reg(u) \in DOMAIN list
      /\ held' \in [Lookers -> HeldType]
      /\ held'[u].open /\ held'[u].mask = MaskIn(list, Reg(u))
      /\ \A v \in Lookers \ {u} : held'[v] = held[v]
  BY <1>1, <1>2, FindEffect
<1>4. EntryTypeOK'
  BY <1>1, <1>2, <1>3 DEF EntryTypeOK, EnvTypeOK, MachineTypeOK
<1>5. UserAlone(u)
  BY <1>1, <1>2, <1>3 DEF UserAlone, EntryTypeOK, LookupTypeOK
<1>6. CallInv(u)'
  <2>1. /\ during'[u] = {list} /\ Reg(u)' = Reg(u) /\ epc'[u] = "mask"
        /\ call'[u] = "write" /\ file'[u] # Closed
    BY <1>1, <1>2 DEF EntryTypeOK, LookupTypeOK, Reg
  <2>2. HeldListed(u, Reg(u))'
    BY <1>3, <2>1 DEF HeldListed, MasksDuring, MaskIn
  <2>3. WasListed(u, Reg(u))' /\ InCall(u)'
    BY <1>3, <2>1 DEF WasListed, InCall
  <2> QED
    BY <1>3, <2>1, <2>2, <2>3 DEF CallInv
<1> QED
  BY <1>1, <1>2, <1>4, <1>5, <1>6, UserStep, BitsStay

\* msr_write reads the mask of its entry: 0 is refused, a full mask needs no merge.
LEMMA WriteMaskStep == ASSUME EntryInv, NEW u \in Users, WriteMask(u) PROVE EntryInv'
<1>1. /\ EntryTypeOK /\ CallInv(u) /\ BitsKept /\ u \in Lookers /\ LookupTypeOK
      /\ \A v \in Users \ {u} : v \in Lookers \ {u}
  BY EntryView
<1> DEFINE m == ans'[u].mask
<1>2. /\ UNCHANGED <<online, msr, running, file, call>> /\ GetMask(u) /\ epc[u] = "mask"
      /\ mask' = [mask EXCEPT ![u] = m]
  BY DEF WriteMask, machine
<1>3. /\ list' = list /\ during' = during /\ held[u].open
      /\ held' \in [Lookers -> HeldType] /\ ~held'[u].open
      /\ \A v \in Lookers \ {u} : held'[v] = held[v]
      /\ ans' \in [Lookers -> Answer] /\ m \in Masks
      /\ raced' \in BOOLEAN /\ (raced => raced')
      /\ raced' \/ (~held[u].stale /\ m = held[u].mask)
  BY <1>1, <1>2, GetMaskEffect
<1>4. \/ /\ m = {} /\ epc' = [epc EXCEPT ![u] = "return"]
         /\ out' = [out EXCEPT ![u] = "EACCES"] /\ UNCHANGED <<user, data>>
      \/ /\ m # {} /\ epc' = [epc EXCEPT ![u] = AfterMask(m)]
         /\ AfterMask(m) = IF m = Bits THEN "wrmsr" ELSE "merge"
         /\ \E v \in Values : user' = [user EXCEPT ![u] = v] /\ data' = [data EXCEPT ![u] = v]
         /\ out' = out
      \/ /\ m # {} /\ epc' = [epc EXCEPT ![u] = "return"]
         /\ out' = [out EXCEPT ![u] = "EFAULT"] /\ UNCHANGED <<user, data>>
  <2>1. AfterMask(m) = IF m = {} THEN "return" ELSE IF m = Bits THEN "wrmsr" ELSE "merge"
    BY EntryAssumption DEF AfterMask
  <2>2. AfterMask(m) = "return" <=> m = {}
    BY <2>1
  <2> QED
    BY <2>1, <2>2 DEF WriteMask, EStep, Reply
<1>5. EntryTypeOK'
  <2>1. /\ EnvTypeOK' /\ file' = file /\ call' = call /\ mask' \in [Users -> Masks]
    BY <1>1, <1>2, <1>3 DEF EntryTypeOK, EnvTypeOK, MachineTypeOK
  <2>2. /\ epc' \in [Users -> {"idle", "mask", "rdmsr", "merge", "wrmsr", "return"}]
        /\ user' \in [Users -> Masks] /\ data' \in [Users -> Masks]
        /\ out' \in [Users -> {"none", "8", "EINVAL", "EACCES", "EFAULT", "EIO", "ENXIO"}]
    BY <1>1, <1>4, EntryAssumption DEF EntryTypeOK
  <2> QED
    BY <1>1, <2>1, <2>2 DEF EntryTypeOK
<1>6. UserAlone(u)
  BY <1>1, <1>2, <1>3, <1>4 DEF UserAlone, EntryTypeOK, LookupTypeOK
<1>7. CallInv(u)'
  <2>1. /\ InCall(u)' /\ WasListed(u, Reg(u))' /\ HeldListed(u, Reg(u)) /\ Reg(u)' = Reg(u)
        /\ file'[u] # Closed /\ call'[u] = "write" /\ mask'[u] = m
    BY <1>1, <1>2, <1>3 DEF CallInv, InCall, WasListed, Reg, EntryTypeOK
  <2>2. raced' \/ m \in MasksDuring(u, Reg(u))
    BY <1>3, <2>1 DEF HeldListed
  <2>3. CASE m = {} /\ epc'[u] = "return"
    <3>1. raced' \/ MayRefuse(u)'
      BY <1>3, <2>1, <2>2, <2>3 DEF MayRefuse, MasksDuring
    <3> QED
      BY <1>3, <2>1, <2>3, <3>1 DEF CallInv
  <2>4. CASE m # {} /\ (epc'[u] = "merge" \/ (m = Bits /\ epc'[u] = "wrmsr"))
    <3>1. (raced \/ mask[u] \in MasksDuring(u, Reg(u)))'
      BY <1>3, <2>1, <2>2 DEF MasksDuring
    <3> QED
      BY <1>3, <2>1, <2>4, <3>1 DEF CallInv
  <2>5. CASE epc'[u] = "return" /\ out'[u] = "EFAULT"
    BY <1>3, <2>1, <2>5 DEF CallInv
  <2> QED
    BY <1>1, <1>4, <2>3, <2>4, <2>5 DEF EntryTypeOK
<1> QED
  BY <1>1, <1>2, <1>3, <1>5, <1>6, <1>7, UserStep, BitsStay

\* The mask of a write under way opens writable bits only.
LEMMA MaskOfWrite ==
  ASSUME EntryInv, NEW u \in Users, epc[u] \in {"merge", "wrmsr"}
  PROVE  raced \/ mask[u] \subseteq Writable(Reg(u))
  BY EntryView, MasksDuringWritable DEF CallInv

\* msr_write merges the new bits into the register as it reads it: the others keep their
\* value.
LEMMA ReadForMergeStep == ASSUME EntryInv, NEW u \in Users, ReadForMerge(u) PROVE EntryInv'
<1>1. /\ EntryTypeOK /\ CallInv(u) /\ BitsKept
  BY EntryView
<1> DEFINE old == msr[Cpu(u)][Reg(u)]
           new == Merge(old, data[u], mask[u])
<1>2. /\ UNCHANGED <<list, held, ans, online, msr, running, during, raced>>
      /\ UNCHANGED <<file, call, mask, user, out>> /\ epc[u] = "merge"
      /\ epc' = [epc EXCEPT ![u] = "wrmsr"] /\ data' = [data EXCEPT ![u] = new]
  BY DEF ReadForMerge, EStep, Merged, envVars, specVars, machine
<1>3. Cpu(u) \in CPUs /\ Reg(u) \in Regs
  BY <1>1, <1>2, FileNamesRegister DEF CallInv
<1>4. old \in Masks /\ data[u] \in Masks /\ mask[u] \in Masks
  BY <1>1, <1>3, EnvironmentAssumption DEF EntryTypeOK, EnvTypeOK, MachineTypeOK, Masks
<1>5. new \in Masks /\ \A V : mask[u] \subseteq V => new \ V = old \ V
  BY <1>4, MergeEffect
<1> HIDE DEF new
<1>6. EntryTypeOK'
  BY <1>1, <1>2, <1>5 DEF EntryTypeOK, EnvTypeOK, MachineTypeOK
<1>7. UserAlone(u)
  BY <1>1, <1>2 DEF UserAlone, EntryTypeOK
<1>8. raced \/ new \ Writable(Reg(u)) = PowerOn \ Writable(Reg(u))
  BY <1>1, <1>2, <1>3, <1>5, MaskOfWrite DEF BitsKept
<1>9. CallInv(u)'
  <2>1. epc'[u] = "wrmsr" /\ data'[u] = new /\ Reg(u)' = Reg(u)
    BY <1>1, <1>2 DEF EntryTypeOK, Reg
  <2>2. InCall(u)' /\ WasListed(u, Reg(u))' /\ file'[u] # Closed /\ ~held'[u].open
    BY <1>1, <1>2 DEF CallInv, InCall, WasListed, Reg
  <2>3. mask'[u] # {} /\ (raced \/ mask[u] \in MasksDuring(u, Reg(u)))'
    BY <1>1, <1>2 DEF CallInv, MasksDuring, Reg
  <2>4. (raced \/ data[u] \ Writable(Reg(u)) = PowerOn \ Writable(Reg(u)))'
    BY <1>2, <1>8, <2>1 DEF Writable, AdminLists, MaskIn
  <2> QED
    BY <2>1, <2>2, <2>3, <2>4 DEF CallInv
<1> QED
  BY <1>1, <1>2, <1>6, <1>7, <1>9, UserStep, BitsStay

\* msr_write writes the merged value, in which the closed bits are as they were.
LEMMA WrmsrStep == ASSUME EntryInv, NEW u \in Users, Wrmsr(u) PROVE EntryInv'
<1>1. /\ EntryTypeOK /\ CallInv(u) /\ BitsKept
  BY EntryView
<1>2. /\ UNCHANGED <<list, held, ans, online, running, during, raced>>
      /\ UNCHANGED <<file, call, mask, user, data>> /\ epc[u] = "wrmsr"
      /\ epc' = [epc EXCEPT ![u] = "return"] /\ out' = [out EXCEPT ![u] = "8"]
      /\ msr' = [msr EXCEPT ![Cpu(u)][Reg(u)] = data[u]]
  BY DEF Wrmsr, EStep, Reply, specVars
<1>3. Cpu(u) \in CPUs /\ Reg(u) \in Regs
  BY <1>1, <1>2, FileNamesRegister DEF CallInv
<1>4. data[u] \in SUBSET RegBits /\ msr \in [CPUs -> [Regs -> SUBSET RegBits]]
  BY <1>1, EnvironmentAssumption DEF EntryTypeOK, EnvTypeOK, MachineTypeOK, Masks
<1>5. /\ msr' \in [CPUs -> [Regs -> SUBSET RegBits]] /\ msr'[Cpu(u)][Reg(u)] = data[u]
      /\ \A c \in CPUs, a \in Regs : c # Cpu(u) \/ a # Reg(u) => msr'[c][a] = msr[c][a]
  BY <1>2, <1>3, <1>4
<1>6. EntryTypeOK'
  BY <1>1, <1>2, <1>5 DEF EntryTypeOK, EnvTypeOK, MachineTypeOK
<1>7. UserAlone(u)
  BY <1>1, <1>2 DEF UserAlone, EntryTypeOK
<1>8. raced \/ data[u] \ Writable(Reg(u)) = PowerOn \ Writable(Reg(u))
  <2>1. CASE mask[u] = Bits
    BY <1>2, <1>4, <2>1, MaskOfWrite, MachineAssumption, EnvironmentAssumption
  <2>2. CASE mask[u] # Bits
    BY <1>1, <1>2, <2>2 DEF CallInv
  <2> QED
    BY <2>1, <2>2
<1>9. BitsKept'
  <2> SUFFICES ASSUME ~raced, NEW c \in CPUs, NEW a \in Regs
               PROVE  msr'[c][a] \ Writable(a) = PowerOn \ Writable(a)
    BY <1>2 DEF BitsKept, Writable, AdminLists, MaskIn
  <2> QED
    BY <1>1, <1>5, <1>8 DEF BitsKept
<1>10. CallInv(u)'
  BY <1>1, <1>2 DEF CallInv, EntryTypeOK
<1> QED
  BY <1>6, <1>7, <1>9, <1>10, UserStep

\* The call returns.
LEMMA EReturnStep == ASSUME EntryInv, NEW u \in Users, EReturn(u) PROVE EntryInv'
<1>1. /\ EntryTypeOK /\ CallInv(u) /\ BitsKept /\ u \in Lookers
      /\ \A v \in Users \ {u} : v \in Lookers \ {u}
  BY EntryView
<1>2. /\ UNCHANGED <<list, held, ans, online, msr, running, raced, file>>
      /\ epc[u] = "return" /\ epc' = [epc EXCEPT ![u] = "idle"]
      /\ during' = [during EXCEPT ![u] = {}] /\ call' = [call EXCEPT ![u] = "none"]
      /\ mask' = [mask EXCEPT ![u] = {}] /\ user' = [user EXCEPT ![u] = {}]
      /\ data' = [data EXCEPT ![u] = {}] /\ out' = [out EXCEPT ![u] = "none"]
  BY DEF EReturn, EStep, EndCall, Reply, specVars, machine
<1>3. EntryTypeOK'
  BY <1>1, <1>2 DEF EntryTypeOK, EnvTypeOK, MachineTypeOK, Masks
<1>4. UserAlone(u)
  BY <1>1, <1>2 DEF UserAlone, EntryTypeOK, EnvTypeOK
<1>5. CallInv(u)'
  BY <1>1, <1>2 DEF CallInv, EntryTypeOK
<1> QED
  BY <1>1, <1>2, <1>3, <1>4, <1>5, UserStep, BitsStay

\* A step of a user preserves the invariant.
LEMMA EntryStepKeeps == ASSUME EntryInv, NEW u \in Users, EntryStep(u) PROVE EntryInv'
<1>1. CASE Interrupt(u)
  BY <1>1, RdmsrStep, ReadForMergeStep, WrmsrStep, UnreachableStep DEF Interrupt
<1> QED
  BY <1>1, OpenStep, BadCountStep, ReadCallStep, WriteUnlistedStep, WriteCallStep,
     WriteMaskStep, EReturnStep DEF EntryStep

\* A new list lies between two steps of a call: the call may meet both.
LEMMA EntryReplaceList ==
  ASSUME EntryInv, ReplaceList, UNCHANGED entryVars
  PROVE  EntryInv'
<1>1. LookupTypeOK /\ Users \subseteq Lookers /\ EntryTypeOK /\ BitsKept
  BY EntryAssumption DEF EntryInv, EntryTypeOK, EnvTypeOK, LookupTypeOK
<1>2. /\ LookupTypeOK' /\ raced' = raced /\ UNCHANGED machine
      /\ \A t \in Lookers :
           /\ during[t] \subseteq during'[t]
           /\ InCall(t) => InCall(t)'
           /\ held'[t].open <=> held[t].open
           /\ held'[t].mask = held[t].mask
           /\ held[t].open => held'[t].stale
  BY <1>1, ReplaceListEffect
<1>3. UNCHANGED <<epc, file, call, mask, user, data, out>>
  BY DEF entryVars
<1>4. EntryTypeOK'
  BY <1>1, <1>2, <1>3 DEF EntryTypeOK, EnvTypeOK, LookupTypeOK, MachineTypeOK, machine
<1>5. ASSUME NEW u \in Users PROVE CallInv(u)'
  <2>1. CallInv(u)
    BY DEF EntryInv
  <2>2. /\ during[u] \subseteq during'[u] /\ (InCall(u) => InCall(u)')
        /\ held'[u].open <=> held[u].open
        /\ held[u].open => held'[u].stale
    BY <1>1, <1>2
  <2>3. MayRefuse(u) => MayRefuse(u)'
    BY <1>3, <2>2 DEF MayRefuse, Reg, MaskIn
  <2>4. WasListed(u, Reg(u)) => WasListed(u, Reg(u))'
    BY <1>3, <2>2 DEF WasListed, Reg
  <2>5. HeldListed(u, Reg(u)) => HeldListed(u, Reg(u))'
    BY <1>3, <2>2 DEF HeldListed
  <2>6. mask[u] \in MasksDuring(u, Reg(u)) => (mask[u] \in MasksDuring(u, Reg(u)))'
    BY <1>3, <2>2 DEF MasksDuring, Reg, MaskIn
  <2> QED
    BY <1>2, <1>3, <2>1, <2>2, <2>3, <2>4, <2>5, <2>6
       DEF CallInv, Writable, AdminLists, MaskIn, Reg
<1> QED
  BY <1>1, <1>2, <1>4, <1>5, BitsStay DEF EntryInv, machine

\* A CPU that comes or goes changes no register and no call.
LEMMA EntryHotplug ==
  ASSUME EntryInv, online' \subseteq CPUs, UNCHANGED <<msr, running>>,
         UNCHANGED <<specVars, during, raced, entryVars>>
  PROVE  EntryInv'
<1>1. UNCHANGED <<list, held, ans, epc, file, call, mask, user, data, out>>
  BY DEF specVars, entryVars
<1>2. EntryTypeOK'
  BY <1>1 DEF EntryInv, EntryTypeOK, EnvTypeOK, MachineTypeOK
<1>3. ASSUME NEW u \in Users PROVE CallInv(u)'
  BY <1>1 DEF EntryInv, CallInv, InCall, WasListed, HeldListed, MasksDuring, MaskIn, Reg,
              MayRefuse, Writable, AdminLists
<1> QED
  BY <1>2, <1>3, BitsStay DEF EntryInv

\* So does every step of the specification.
LEMMA EntryNextStep == EntryInv /\ [EntryNext]_evars => EntryInv'
<1> SUFFICES ASSUME EntryInv, [EntryNext]_evars PROVE EntryInv'
  OBVIOUS
<1>1. ASSUME NEW c \in CPUs, CpuDown(c) \/ CpuUp(c)
      PROVE  online' \subseteq CPUs /\ UNCHANGED <<msr, running>>
  BY <1>1 DEF EntryInv, EntryTypeOK, EnvTypeOK, MachineTypeOK, CpuDown, CpuUp
<1>2. ASSUME UNCHANGED evars
      PROVE  /\ online' \subseteq CPUs /\ UNCHANGED <<msr, running>>
             /\ UNCHANGED <<specVars, during, raced, entryVars>>
  BY <1>2 DEF EntryInv, EntryTypeOK, EnvTypeOK, MachineTypeOK, evars, envVars, machine
<1> QED
  BY <1>1, <1>2, EntryStepKeeps, EntryReplaceList, EntryHotplug DEF EntryNext

\* No file is open at first, and the registers have their values from power-on.
LEMMA EntryInitHolds == EntryInit => EntryInv
<1> SUFFICES ASSUME EntryInit PROVE EntryInv
  OBVIOUS
<1>1. EnvTypeOK /\ \A u \in Lookers : ~held[u].open
  BY EnvInitHolds DEF EntryInit
<1>2. EntryTypeOK
  BY <1>1 DEF EntryInit, NoFiles, EntryTypeOK, Masks
<1>3. BitsKept
  BY DEF EntryInit, EnvInit, MachineInit, BitsKept
<1>4. \A u \in Users : CallInv(u)
  BY <1>1, EntryAssumption DEF EntryInit, NoFiles, CallInv
<1> QED
  BY <1>2, <1>3, <1>4 DEF EntryInv

\* Whatever calls, new lists and CPUs do, the invariant holds.
THEOREM EntryInductive == EntrySpec => []EntryInv
  BY EntryInitHolds, EntryNextStep, PTL DEF EntrySpec

\* Files, positions, masks and results are of their types throughout the calls.
THEOREM EntryTypesHold == EntrySpec => []EntryTypeOK
<1>1. EntryInv => EntryTypeOK
  BY DEF EntryInv
<1> QED
  BY <1>1, EntryInductive, PTL

\* A call that reaches a register has found it listed.
LEMMA EntryListed == EntryInv => AccessListed
<1> SUFFICES ASSUME EntryInv, NEW u \in Users, epc[u] \in {"rdmsr", "merge", "wrmsr"}
             PROVE  /\ Reg(u) \in Regs
                    /\ \E l \in during[u] : Reg(u) \in DOMAIN l
                    /\ call[u] = "write" => /\ mask[u] # {}
                                            /\ raced \/ mask[u] \in MasksDuring(u, Reg(u))
  BY DEF AccessListed
<1> QED
  BY EntryView, FileNamesRegister DEF CallInv, WasListed

\* msr_read and msr_write reach only registers that were listed while the call ran.
THEOREM AccessesAreListed == EntrySpec => []AccessListed
  BY EntryListed, EntryInductive, PTL

\* A call that is refused has met a list that does not open the register to it.
LEMMA EntryJustified == EntryInv => RefusalJustified
  BY DEF EntryInv, CallInv, RefusalJustified, MayRefuse

\* msr_read and msr_write refuse with EACCES only where some list that was installed while
\* the call ran does, but for a mask read from a freed entry.
THEOREM RefusalsAreJustified == EntrySpec => []RefusalJustified
  BY EntryJustified, EntryInductive, PTL

\* The closed bits are kept, in the registers and in a value that is about to be written.
LEMMA EntryBits == EntryInv => ClosedBitsKept
  BY DEF EntryInv, BitsKept, CallInv, ClosedBitsKept

\* No write to the device of a CPU changes a bit that no list opens, but for a mask read
\* from a freed entry.
THEOREM ClosedBitsHold == EntrySpec => []ClosedBitsKept
  BY EntryBits, EntryInductive, PTL
==============================================================================
