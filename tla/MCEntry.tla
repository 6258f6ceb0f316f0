------------------------------- MODULE MCEntry -------------------------------
(***************************************************************************)
(* Small instances of MsrEntry: registers 0 to 2 of two bits, positions    *)
(* that wrap around (W stands for 2^32), and lists with an entry at W,     *)
(* which no position reaches.                                              *)
(***************************************************************************)
EXTENDS MsrEntry, TLC

CONSTANTS u1, u2, c1, c2, cNone

MCMinors == {c1, c2, cNone}

MCBits == {"lo", "hi"}
MCRegs == {0, 1, 2}
MCAddrs == {0, 1, 2, 3}
MCPowerOn == {"hi"}
MCValues == {{}, {"lo"}, MCBits}

\* 0 writable in part, 1 read-only, 2 writable, 3 out of reach.
Low == (0 :> {"lo"} @@ 1 :> {} @@ 2 :> MCBits @@ 3 :> MCBits)
High == (0 :> {"hi"} @@ 1 :> MCBits)
None == [a \in {} |-> {}]

Churn == {Low, High, None}

\* Two registers: 0 writable in part, 1 read-only, in full or not at all.
TwoRegs == {0, 1}
TwoRegsAddrs == {0, 1, 2}
Two == (0 :> {"lo"} @@ 1 :> MCBits @@ 2 :> MCBits)
TwoRO == (0 :> {} @@ 2 :> {})
TwoLists == {Two, TwoRO}
==============================================================================
