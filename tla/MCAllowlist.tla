----------------------------- MODULE MCAllowlist -----------------------------
(***************************************************************************)
(* A small instance of Allowlist: two addresses, one of them the address 0 *)
(* that kcalloc leaves in an entry, one mask bit, arrays of two entries    *)
(* and two blocks, so that a freed block can be handed out again.  The     *)
(* buffers written are parsed from texts by Parser.                        *)
(***************************************************************************)
EXTENDS Allowlist, Parser

CONSTANTS w1, w2, r1, l1, b1, b2

MCAddrs == {0, 1}
MCBits == {"bit"}
MCBlocks == {b1, b2}
MCNumerals == {"0", "1"}

AddrOf == [n \in MCNumerals |-> IF n = "0" THEN 0 ELSE 1]
MaskOf == [n \in MCNumerals |-> IF n = "0" THEN {} ELSE MCBits]

\* What write_allowlist makes of a text.
Written(text) ==
  LET r == Scan(text)
  IN  [entries |-> [i \in DOMAIN r.entries |-> [msr |-> AddrOf[r.entries[i][1]],
                                                wmask |-> MaskOf[r.entries[i][2]]]],
       tail |-> r.tail]

\* Empty, one and two entries, a duplicate, and text that pass 1 rejects.
FewTexts ==
  { <<"1", " ", "1", "\n">>,
    <<"0", " ", "1", "\n", "0", "\n", "0", " ">>,
    <<"letter", " ", "1", "\n">> }
InputTexts == FewTexts \cup
  { <<"#", "0", " ", "1", "\n", " ">>,
    <<"1", " ", "0", " ", "#", "letter", "\n", "0", "\n", "1", "\n">>,
    <<"0", " ", "0", "\n", "1", " ", "0", "\n">>,
    <<"0", " ", "1", "\n", "0", " ", "1">>,
    <<"1", " ", "huge", "\n">> }

\* What they contain.
Of(msr, wmask) == [msr |-> msr, wmask |-> wmask]
MCFewInputs ==
  { [entries |-> <<Of(1, MCBits)>>, tail |-> "end"],
    [entries |-> <<Of(0, MCBits), Of(0, {})>>, tail |-> "end"],
    [entries |-> <<>>, tail |-> "EINVAL"] }
MCInputs == MCFewInputs \cup
  { [entries |-> <<>>, tail |-> "end"],
    [entries |-> <<Of(1, {}), Of(0, MCBits)>>, tail |-> "end"],
    [entries |-> <<Of(0, {}), Of(1, {})>>, tail |-> "end"],
    [entries |-> <<Of(0, MCBits)>>, tail |-> "EILSEQ"],
    [entries |-> <<>>, tail |-> "ERANGE"] }
ASSUME InputsAreParsed ==
  /\ MCFewInputs = {Written(t) : t \in FewTexts}
  /\ MCInputs = {Written(t) : t \in InputTexts}

\* Up to four of these in a row: two entries with something before, between or
\* after them, words that end a text or run into each other, and so on.
Pieces == { <<"1", " ">>, <<"0", "\n">>, <<"#">>, <<"#", "1", " ", "letter", "\n">>,
            <<"\n">>, <<"huge", " ">>, <<"letter">>, <<"1", "NUL">> }
\* A numeral is one piece: no two adjoin.
OneNumeral(t) ==
  \A i \in 1 .. Len(t) - 1 : {t[i], t[i + 1]} \cap (MCNumerals \cup {"huge"}) # {t[i], t[i + 1]}
MCTexts == {t \in {p \o q : p, q \in {a \o b : a, b \in Pieces \cup {<<>>}}}
                   \cup InputTexts : OneNumeral(t)}

(***************************************************************************)
(* write_allowlist is about to allocate the array by the count of the      *)
(* first pass, which the second fills without a bound: whatever text the   *)
(* writer parsed, the second pass finds in the buffer what the first did.  *)
(***************************************************************************)
TwoPassesAgree ==
  \A w \in Writers : pc[w] = "create" => \A t \in Misread : Written(t) # kbuf[w]

\* The lines that reader r has got, as numbers in text.
Printed(r) ==
  LET es == listing[r].lines
  IN  [i \in DOMAIN es |-> <<CHOOSE n \in MCNumerals : AddrOf[n] = es[i].msr,
                             CHOOSE n \in MCNumerals : MaskOf[n] = es[i].wmask>>]
AllWrittenBack == WrittenBack(MaxEntries)
AllReadBySave == ReadBySave(MaxEntries)

\* What a reader has read of a list, written back as it is, installs the same.
ListingParsesBack ==
  \A r \in Readers : ~listing[r].torn =>
    LET b == AllWrittenBack[Printed(r)] IN b.entries = Printed(r) /\ b.tail = "end"

\* msrsave, as a reader, finds the entries of the list in their order.
MsrsaveReadsTheList ==
  \A r \in Readers : ~listing[r].torn /\ listing[r].lines # <<>> =>
    LET b == AllReadBySave[Printed(r)] IN b.entries = Printed(r) /\ b.err = 0
==============================================================================
