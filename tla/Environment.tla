----------------------------- MODULE Environment -----------------------------
(***************************************************************************)
(* What every call into the module shares: the machine, the installed      *)
(* allowlist behind its contract (AllowlistSpec), and the administrator    *)
(* who may write another list at any time.  The history of a call is the   *)
(* set of lists that were installed while it ran.                          *)
(***************************************************************************)
EXTENDS AllowlistSpec, Machine, Naturals

CONSTANTS Initial,   \* the allowlist installed at the start
          Admin      \* the allowlists written over it later

VARIABLES during,    \* history: during[t]: lists installed since t's call began
          raced      \* history: some lookup read an entry after its free

envVars == <<specVars, machine, during, raced>>

ASSUME EnvironmentAssumption ==
  /\ Initial \in Lists /\ Admin \subseteq Lists
  /\ Regs \subseteq Addrs /\ RegBits = Bits
  /\ NoTask \notin Lookers

EnvInit ==
  /\ list = Initial
  /\ held = [l \in Lookers |-> NotHeld]
  /\ ans = [l \in Lookers |-> Mask({})]
  /\ MachineInit
  /\ during = [t \in Lookers |-> {}]
  /\ raced = FALSE

BeginCall(t) == during' = [during EXCEPT ![t] = {list}]
EndCall(t) == during' = [during EXCEPT ![t] = {}]

\* msr_allowlist_writemask reads the mask, possibly of a freed entry.
GetMask(t) ==
  /\ WriteMaskRead(t)
  /\ raced' = (raced \/ held[t].stale)
  /\ UNCHANGED during

ReplaceList ==
  /\ Replace
  /\ list' \in Admin
  /\ during' = [t \in Lookers |-> IF during[t] = {} THEN {} ELSE during[t] \cup {list'}]
  /\ UNCHANGED <<machine, raced>>

AdminLists == Admin \cup {Initial}

EnvTypeOK ==
  /\ list \in AdminLists
  /\ held \in [Lookers -> HeldType]
  /\ ans \in [Lookers -> Answer]
  /\ MachineTypeOK(Lookers)
  /\ during \in [Lookers -> SUBSET AdminLists]
  /\ raced \in BOOLEAN

\* The mask that list l gives to register a; none when it is not listed.
MaskIn(l, a) == IF a \in DOMAIN l THEN l[a] ELSE {}

\* The masks that the lists installed during t's call give to register a.
MasksDuring(t, a) == {MaskIn(l, a) : l \in during[t]}

\* The bits of register a that some list of the administrator opens.
Writable(a) == UNION {MaskIn(l, a) : l \in AdminLists}
==============================================================================
