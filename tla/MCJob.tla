-------------------------------- MODULE MCJob --------------------------------
(***************************************************************************)
(* Two CPUs, whose registers differ from the start; a list with a register *)
(* that is opened in part and one that is opened whole, and another list.  *)
(* mkstemp returns 3 or more in a process whose standard descriptors are   *)
(* open, and 0 in one without standard input.                              *)
(***************************************************************************)
EXTENDS SpankJob

MCBits == {"low", "high"}
MCInitial == <<[msr |-> "A", mask |-> {"low"}], [msr |-> "B", mask |-> MCBits]>>
MCOther == <<[msr |-> "B", mask |-> {"low"}]>>
MCLists == {MCInitial, MCOther}
MCPowerOn == [c \in {0, 1} |-> [a \in {"A", "B"} |-> IF c = 1 /\ a = "A" THEN {"high"} ELSE {}]]
MCJobValues == {MCBits, {"high"}}
==============================================================================
