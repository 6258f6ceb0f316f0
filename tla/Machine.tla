------------------------------- MODULE Machine -------------------------------
(***************************************************************************)
(* The machine under the kernel module: the registers of each logical CPU, *)
(* which CPUs are online, and which CPU is inside an inter-processor       *)
(* interrupt that runs module code.  A register is the set of its 1 bits.  *)
(* None of this is in the module: it is what msr_entry.c, msr_batch.c and  *)
(* msr-smp.c rely on when they call cpu_online, rdmsr_safe, wrmsr_safe and *)
(* the smp_call family.                                                    *)
(***************************************************************************)
CONSTANTS CPUs,      \* the possible logical CPUs
          Regs,      \* the addresses of the registers, as the CPU takes them
          RegBits,   \* the bits of a register
          Faulty,    \* registers whose access may raise a fault
          PowerOn,   \* the contents of the registers at the start
          Hotplug,   \* whether CPUs come and go
          NoTask

VARIABLES online,    \* the CPUs for which cpu_online answers yes
          msr,       \* msr[c][a]: the register a of CPU c
          running    \* running[c]: the caller whose function c executes

machine == <<online, msr, running>>

ASSUME MachineAssumption ==
  /\ Faulty \subseteq Regs
  /\ PowerOn \subseteq RegBits
  /\ Hotplug \in BOOLEAN

MachineInit ==
  /\ online = CPUs
  /\ msr = [c \in CPUs |-> [a \in Regs |-> PowerOn]]
  /\ running = [c \in CPUs |-> NoTask]

MachineTypeOK(callers) ==
  /\ online \subseteq CPUs
  /\ msr \in [CPUs -> [Regs -> SUBSET RegBits]]
  /\ running \in [CPUs -> callers \cup {NoTask}]

\* rdmsr_safe or wrmsr_safe reports a fault, or it does not.
Faults(a) == IF a \in Faulty THEN BOOLEAN ELSE {FALSE}

\* Mutant: the masked bits of old are not cleared first.
MergeKeepsOld(old, new, mask) == (new \cap mask) \cup old

\* The bits of new that the mask selects, over the other bits of old.
Merge(old, new, mask) == (new \cap mask) \cup (old \ mask)

\* A CPU leaves only after it has run the functions queued on it; one stays.
CpuDown(c) ==
  /\ Hotplug
  /\ c \in online /\ online # {c}
  /\ running[c] = NoTask
  /\ online' = online \ {c}
  /\ UNCHANGED <<msr, running>>

CpuUp(c) ==
  /\ Hotplug
  /\ c \notin online
  /\ online' = online \cup {c}
  /\ UNCHANGED <<msr, running>>
==============================================================================
