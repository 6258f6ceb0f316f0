-------------------------------- MODULE MCSafe --------------------------------
(***************************************************************************)
(* One batch caller and one user of the device of a CPU, both at the same  *)
(* register of two bits, of which the list opens "lo".                     *)
(***************************************************************************)
EXTENDS MsrSafe, TLC

CONSTANTS t1, u1, c1, c2, cNone

MCMinors == {c1, c2, cNone}
MCBits == {"lo", "hi"}
MCRegs == {0}
MCPowerOn == {"hi"}
MCValues == {{}}

Low == (0 :> {"lo"})
Unlisted == [a \in {} |-> {}]
ListOrNone == {Low, Unlisted}

O(c, r, d) == [cpu |-> c, isrdmsr |-> r, msr |-> 0, msrdata |-> d,
               wmask |-> MCBits, err |-> "0"]
Rd(c) == O(c, TRUE, {})
Wr(c, d) == O(c, FALSE, d)

WriteRead == { <<Wr(c1, {"lo"}), Rd(c1)>> }
==============================================================================
