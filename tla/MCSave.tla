------------------------------- MODULE MCSave -------------------------------
(***************************************************************************)
(* Two CPUs, of which either may leave, so that the CPUs online need not   *)
(* be the first ones; two registers of two bits, one writable in part and  *)
(* one in full, and two other lists: with the masks and places exchanged,  *)
(* and with one entry.                                                     *)
(***************************************************************************)
EXTENDS MsrSave

MCBits == {"low", "high"}
Part(a) == [msr |-> a, mask |-> {"low"}]
Full(a) == [msr |-> a, mask |-> MCBits]
MCInitial == <<Part("A"), Full("B")>>
MCLists == {MCInitial, <<Part("B"), Full("A")>>, <<Full("B")>>}
MCCookie == {"high"}
\* No two registers begin with the same value; jobs write the cookie.
MCPowerOn ==
  [c \in {0, 1} |-> [a \in {"A", "B"} |->
    IF c = 0 THEN IF a = "A" THEN {"low"} ELSE {}
    ELSE IF a = "A" THEN {"high"} ELSE MCBits]]
MCJobValues == {{"high"}}
==============================================================================
