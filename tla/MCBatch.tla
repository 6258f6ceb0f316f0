------------------------------- MODULE MCBatch -------------------------------
(***************************************************************************)
(* Small instances of MsrBatch: two CPUs, registers 0 and 1 of two bits,   *)
(* of which the lists open at most "lo"; "hi" is 1 at the start.           *)
(***************************************************************************)
EXTENDS MsrBatch, TLC

CONSTANTS t1, t2, c1, c2, cNone

MCBits == {"lo", "hi"}
MCRegs == {0, 1}
MCPowerOn == {"hi"}

L1 == (0 :> {"lo"} @@ 1 :> {})       \* 0 writable, 1 read-only
L2 == (0 :> {} @@ 1 :> {"lo"})       \* the other way round
L3 == (1 :> {"lo"})                  \* 0 not listed
NoLists == {}
ListChurn == {L1, L2, L3}

\* The user leaves 1s everywhere in the fields the kernel fills in.
O(c, r, a, d) == [cpu |-> c, isrdmsr |-> r, msr |-> a, msrdata |-> d,
                  wmask |-> MCBits, err |-> "0"]
Rd(c, a) == O(c, TRUE, a, {})
Wr(c, a, d) == O(c, FALSE, a, d)

\* Writes and reads back, on one CPU and on two.
CrossBatches ==
  { <<Wr(c1, 0, {"lo"}), Rd(c1, 0)>>,
    <<Wr(c1, 0, {}), Rd(c2, 1), Rd(c1, 0)>>,
    <<Rd(c2, 1), Wr(c1, 0, {"lo"}), Rd(c1, 0)>>,
    <<Wr(c2, 0, {"lo", "hi"}), Wr(c1, 0, {"hi"})>>,
    <<Wr(cNone, 0, {}), Rd(c2, 1)>> }

\* Refusals of each kind, before and after an operation that passes.
ErrorBatches ==
  { <<Wr(c1, 0, {"lo"}), Wr(c1, 1, {"lo"})>>,
    <<Rd(cNone, 0), Wr(c2, 0, {})>>,
    <<Wr(c1, 1, {}), Rd(c1, 0), Rd(cNone, 0)>>,
    <<Rd(c1, 0), Rd(c2, 1)>> }
==============================================================================
