------------------------------- MODULE MsrEntry -------------------------------
(***************************************************************************)
(* The per-CPU device of msr_entry.c: open, seek, read and write of        *)
(* /dev/cpu/<cpuid>/msr_safe.  The file position names the register.  A    *)
(* write under a partial mask reads the register with one inter-processor  *)
(* interrupt and writes it with another.                                   *)
(***************************************************************************)
EXTENDS Environment

CONSTANTS Users,       \* tasks with a file of their own on such a device
          Minors,      \* the minor numbers of the nodes they open
          W,           \* 2^32: a position is cut to 32 bits
          MaxPos,      \* bound on the positions
          Values,      \* the data written
          Closed

VARIABLES epc,     \* where each user is in its call
          file,    \* the open file: the CPU of its minor number, its position
          call,    \* the kind of call under way
          mask,    \* the mask msr_allowlist_writemask returned
          user,    \* history: the data the user passed to write
          data,    \* the local data: what is going to be written
          out      \* what the call returns

entryVars == <<epc, file, call, mask, user, data, out>>
evars == <<envVars, entryVars>>

ASSUME EntryAssumption ==
  /\ Users \subseteq Lookers /\ CPUs \subseteq Minors
  /\ W \in Nat \ {0} /\ Regs = 0 .. W - 1
  /\ MaxPos \in Nat
  /\ Values \subseteq Masks /\ Bits # {}
  /\ Closed \notin [cpu : CPUs, pos : 0 .. MaxPos]

\* Mutant: the register is the whole 64-bit position, as the allowlist has it.
RegOfWide(u) == file[u].pos
\* u32 reg = *ppos
Reg(u) == file[u].pos % W
Cpu(u) == file[u].cpu
EStep(u, from, to) == epc[u] = from /\ epc' = [epc EXCEPT ![u] = to]
Reply(u, r) == out' = [out EXCEPT ![u] = r]
OpenFile(u) == epc[u] = "idle" /\ file[u] # Closed

\* Mutant: msr_open does not look at the minor number.
AnyMinor(c) == TRUE
Openable(c) == c \in online

\* msr_open; a refused open leaves no file.
Open(u, c) ==
  /\ epc[u] = "idle" /\ file[u] = Closed
  /\ Openable(c)
  /\ file' = [file EXCEPT ![u] = [cpu |-> c, pos |-> 0]]
  /\ UNCHANGED <<envVars, epc, call, mask, user, data, out>>

Close(u) ==
  /\ OpenFile(u)
  /\ file' = [file EXCEPT ![u] = Closed]
  /\ UNCHANGED <<envVars, epc, call, mask, user, data, out>>

\* SEEK_SET and SEEK_CUR, up to MaxPos; SEEK_END changes nothing.
Seek(u) ==
  /\ OpenFile(u)
  /\ \E p \in 0 .. MaxPos : file' = [file EXCEPT ![u].pos = p]
  /\ UNCHANGED <<envVars, epc, call, mask, user, data, out>>

\* count # 8, in msr_read and msr_write
BadCount(u) ==
  /\ OpenFile(u)
  /\ EStep(u, "idle", "return")
  /\ Reply(u, "EINVAL")
  /\ UNCHANGED <<envVars, file, call, mask, user, data>>

(***************************************************************************)
(* msr_read                                                                *)
(***************************************************************************)
ReadCall(u) ==
  /\ OpenFile(u)
  /\ call' = [call EXCEPT ![u] = "read"]
  /\ BeginCall(u)
  /\ MaskExists(u, Reg(u))
  /\ IF ans'[u].exists
     THEN EStep(u, "idle", "rdmsr") /\ UNCHANGED out
     ELSE EStep(u, "idle", "return") /\ Reply(u, "EACCES")
  /\ UNCHANGED <<machine, raced, file, mask, user, data>>

\* Mutant: a masked write goes on when the register could not be read.
UnreachableGoesOn(u, label) ==
  /\ EStep(u, label, IF label = "merge" THEN "wrmsr" ELSE "return")
  /\ Cpu(u) \notin online
  /\ Reply(u, IF label = "merge" THEN out[u] ELSE "ENXIO")
  /\ UNCHANGED <<envVars, file, call, mask, user, data>>
\* An interrupt to a CPU that has gone fails; otherwise it waits its turn there.
Unreachable(u, label) ==
  /\ EStep(u, label, "return")
  /\ Cpu(u) \notin online
  /\ Reply(u, "ENXIO")
  /\ UNCHANGED <<envVars, file, call, mask, user, data>>

\* Mutant: the interrupt gets through in the middle of another function.
ReachesNested(u) == Cpu(u) \in online
Reaches(u) == Cpu(u) \in online /\ running[Cpu(u)] = NoTask

\* rdmsr_safe_on_cpu or wrmsr_safe_on_cpu raises a fault there.
AccessFaults(u, label) ==
  /\ EStep(u, label, "return")
  /\ Reaches(u)
  /\ TRUE \in Faults(Reg(u))
  /\ Reply(u, "EIO")
  /\ UNCHANGED <<envVars, file, call, mask, user, data>>

\* The value read reaches the user, or copy_to_user fails.
Rdmsr(u) ==
  /\ EStep(u, "rdmsr", "return")
  /\ Reaches(u)
  /\ data' = [data EXCEPT ![u] = msr[Cpu(u)][Reg(u)]]
  /\ \E r \in {"8", "EFAULT"} : Reply(u, r)
  /\ UNCHANGED <<envVars, file, call, mask, user>>

(***************************************************************************)
(* msr_write                                                               *)
(***************************************************************************)
WriteUnlisted(u) ==
  /\ OpenFile(u)
  /\ EStep(u, "idle", "return")
  /\ call' = [call EXCEPT ![u] = "write"]
  /\ BeginCall(u)
  /\ WriteMaskAbsent(u, Reg(u))
  /\ Reply(u, "EACCES")
  /\ UNCHANGED <<machine, raced, file, mask, user, data>>

WriteCall(u) ==
  /\ OpenFile(u)
  /\ EStep(u, "idle", "mask")
  /\ call' = [call EXCEPT ![u] = "write"]
  /\ BeginCall(u)
  /\ WriteMaskFind(u, Reg(u))
  /\ UNCHANGED <<machine, raced, file, mask, user, data, out>>

\* Mutant: a partial mask is refused.
AfterMaskFullOnly(m) == IF m = Bits THEN "wrmsr" ELSE "return"
\* The step that follows: refuse, write at once, or read the register first.
AfterMask(m) ==
  CASE m = {} -> "return" [] m = Bits -> "wrmsr" [] OTHER -> "merge"

WriteMask(u) ==
  /\ epc[u] = "mask"
  /\ GetMask(u)
  /\ LET m == ans'[u].mask
     IN  /\ mask' = [mask EXCEPT ![u] = m]
         /\ IF AfterMask(m) = "return"
            THEN /\ EStep(u, "mask", "return")
                 /\ Reply(u, "EACCES")
                 /\ UNCHANGED <<user, data>>
            ELSE \/ /\ EStep(u, "mask", AfterMask(m))
                    /\ \E v \in Values : /\ user' = [user EXCEPT ![u] = v]
                                         /\ data' = [data EXCEPT ![u] = v]
                    /\ UNCHANGED out
                 \/ /\ EStep(u, "mask", "return")     \* copy_from_user
                    /\ Reply(u, "EFAULT")
                    /\ UNCHANGED <<user, data>>
  /\ UNCHANGED <<machine, file, call>>

\* Mutant: the masked bits are kept, the others written.
MergedInverted(u, old) == Merge(old, data[u], Bits \ mask[u])
\* curdata &= ~mask; data &= mask; data |= curdata
Merged(u, old) == Merge(old, data[u], mask[u])

ReadForMerge(u) ==
  /\ EStep(u, "merge", "wrmsr")
  /\ Reaches(u)
  /\ data' = [data EXCEPT ![u] = Merged(u, msr[Cpu(u)][Reg(u)])]
  /\ UNCHANGED <<envVars, file, call, mask, user, out>>

Wrmsr(u) ==
  /\ EStep(u, "wrmsr", "return")
  /\ Reaches(u)
  /\ msr' = [msr EXCEPT ![Cpu(u)][Reg(u)] = data[u]]
  /\ Reply(u, "8")
  /\ UNCHANGED <<specVars, online, running, during, raced, file, call, mask, user, data>>

\* The locals go; read and write leave the position where it was.
EReturn(u) ==
  /\ EStep(u, "return", "idle")
  /\ EndCall(u)
  /\ call' = [call EXCEPT ![u] = "none"]
  /\ mask' = [mask EXCEPT ![u] = {}]
  /\ user' = [user EXCEPT ![u] = {}]
  /\ data' = [data EXCEPT ![u] = {}]
  /\ Reply(u, "none")
  /\ UNCHANGED <<specVars, machine, raced, file>>

-----------------------------------------------------------------------------
NoFiles ==
  /\ epc = [u \in Users |-> "idle"]
  /\ file = [u \in Users |-> Closed]
  /\ call = [u \in Users |-> "none"]
  /\ mask = [u \in Users |-> {}]
  /\ user = [u \in Users |-> {}]
  /\ data = [u \in Users |-> {}]
  /\ out = [u \in Users |-> "none"]

EntryInit == EnvInit /\ NoFiles

\* The interrupts a call waits for, and the rest of it on the user's task.
Interrupt(u) ==
  \/ Rdmsr(u) \/ ReadForMerge(u) \/ Wrmsr(u)
  \/ \E label \in {"rdmsr", "merge", "wrmsr"} : Unreachable(u, label) \/ AccessFaults(u, label)

EntryStep(u) ==
  \/ \E c \in Minors : Open(u, c)
  \/ Close(u) \/ Seek(u) \/ BadCount(u)
  \/ ReadCall(u) \/ WriteUnlisted(u) \/ WriteCall(u)
  \/ WriteMask(u) \/ Interrupt(u) \/ EReturn(u)

EntryNext ==
  \/ \E u \in Users : EntryStep(u)
  \/ ReplaceList /\ UNCHANGED entryVars
  \/ \E c \in CPUs : (CpuDown(c) \/ CpuUp(c)) /\ UNCHANGED <<specVars, during, raced, entryVars>>

EntrySpec == EntryInit /\ [][EntryNext]_evars

-----------------------------------------------------------------------------
\* The types of the variables (one per module).
EntryTypeOK ==
  /\ EnvTypeOK
  /\ epc \in [Users -> {"idle", "mask", "rdmsr", "merge", "wrmsr", "return"}]
  /\ file \in [Users -> [cpu : CPUs, pos : 0 .. MaxPos] \cup {Closed}]
  /\ call \in [Users -> {"none", "read", "write"}]
  /\ mask \in [Users -> Masks]
  /\ user \in [Users -> Masks]
  /\ data \in [Users -> Masks]
  /\ out \in [Users -> {"none", "8", "EINVAL", "EACCES", "EFAULT", "EIO", "ENXIO"}]

(***************************************************************************)
(* The register a call is about to touch was on a list installed during    *)
(* the call, at the very address the CPU gets; and a write goes ahead only *)
(* under a mask that some such list gave to it, never under none.          *)
(***************************************************************************)
AccessListed ==
  \A u \in Users : epc[u] \in {"rdmsr", "merge", "wrmsr"} =>
    /\ Reg(u) \in Regs
    /\ \E l \in during[u] : Reg(u) \in DOMAIN l
    /\ call[u] = "write" => /\ mask[u] # {}
                            /\ raced \/ mask[u] \in MasksDuring(u, Reg(u))

(***************************************************************************)
(* A refusal is justified: some list installed during the call lacks the   *)
(* register, or gives it no writable bit.                                  *)
(***************************************************************************)
RefusalJustified ==
  \A u \in Users : epc[u] = "return" /\ out[u] = "EACCES" =>
    \/ raced
    \/ \E l \in during[u] : \/ Reg(u) \notin DOMAIN l
                            \/ call[u] = "write" /\ MaskIn(l, Reg(u)) = {}

(***************************************************************************)
(* A bit that no list opens keeps its value on every CPU, and no user is   *)
(* about to write another one, however the two interrupts of its write     *)
(* fall between those of others, and although the CPU may leave and come   *)
(* back around the first of them.                                          *)
(***************************************************************************)
ClosedBitsKept ==
  raced \/ /\ \A c \in CPUs, a \in Regs :
                msr[c][a] \ Writable(a) = PowerOn \ Writable(a)
           /\ \A u \in Users : epc[u] = "wrmsr" =>
                mask[u] = Bits \/ data[u] \ Writable(Reg(u)) = PowerOn \ Writable(Reg(u))

(***************************************************************************)
(* A write is a masked write of the register as it is at that moment, as   *)
(* if its two interrupts were one: the bits outside its mask do not        *)
(* change.  README.md:117, "only the bottom sixteen bits are writeable".   *)
(* (A list with another mask in between breaks it, even when every lookup  *)
(* read a live entry; MaskedDespiteBatches in MsrSafe is the other case.)  *)
(***************************************************************************)
WriteIsMasked ==
  [][\A u \in Users : Wrmsr(u) /\ ~raced =>
       msr'[Cpu(u)][Reg(u)] = Merge(msr[Cpu(u)][Reg(u)], user[u], mask[u])]_evars
==============================================================================
