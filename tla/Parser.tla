-------------------------------- MODULE Parser --------------------------------
(***************************************************************************)
(* The text of an allowlist: how write_allowlist parses it, twice, in a    *)
(* buffer that the parser changes; how read_allowlist prints it; and how   *)
(* msrsave reads what is printed.                                          *)
(*                                                                         *)
(* A text is a sequence of pieces: a numeral (one piece, whatever its      *)
(* length), "huge" (a numeral over 64 bits), "letter", "#", a blank, a     *)
(* newline, or the null character, which also ends every buffer.           *)
(***************************************************************************)
LOCAL INSTANCE Naturals
LOCAL INSTANCE Sequences
LOCAL INSTANCE FiniteSets
LOCAL INSTANCE SequencesExt

CONSTANTS Numerals,   \* numerals that denote different 64-bit numbers
          Texts       \* texts written to the allowlist device

Blank == {" ", "\n"}

\* The first position from s on whose piece is in stop; the buffer has one.
FirstIn(buf, s, stop) ==
  CHOOSE i \in s .. Len(buf) : buf[i] \in stop /\ \A j \in s .. i - 1 : buf[j] \notin stop
skip_spaces(buf, s) ==
  CHOOSE i \in s .. Len(buf) : buf[i] \notin Blank /\ \A j \in s .. i - 1 : buf[j] \in Blank
WordEnd(buf, s) == FirstIn(buf, s, Blank \cup {"NUL"})
LineEnd(buf, s) == FirstIn(buf, s, {"\n", "NUL"})

\* kstrtoull with base 0, up to the null character: overflow, garbage, or neither.
kstrtoull(buf, s) ==
  LET word == SubSeq(buf, s, FirstIn(buf, s, {"NUL"}) - 1)
  IN  IF word # <<>> /\ word[1] = "huge" THEN "ERANGE"
      ELSE IF \E n \in Numerals : word = <<n>> THEN "entry" ELSE "EINVAL"

(***************************************************************************)
(* parse_next_allowlist_entry                                              *)
(***************************************************************************)
RECURSIVE SkipComments(_, _)
SkipComments(buf, s) ==
  IF buf[s] = "#" THEN SkipComments(buf, skip_spaces(buf, LineEnd(buf, s + 1))) ELSE s

\* Mutant: the character after the number stays overwritten.
RestoreForgotten(buf, s, tmp) == buf
Restore(buf, s, tmp) == [buf EXCEPT ![s] = tmp]

\* One number, which has to be terminated by a blank: it is cut off in place,
\* converted, and the blank put back unless the conversion failed.
ParseNumber(buf, inbuf) ==
  LET s2 == skip_spaces(buf, inbuf)
      s == WordEnd(buf, s2)
      cut == [buf EXCEPT ![s] = "NUL"]
      err == kstrtoull(cut, s2)
  IN  IF buf[s] = "NUL" THEN [res |-> "EILSEQ", buf |-> buf]
      ELSE IF err # "entry" THEN [res |-> err, buf |-> cut]
      ELSE [res |-> err, buf |-> Restore(cut, s, buf[s]), s |-> s + 1, data |-> buf[s2]]

parse_next_allowlist_entry(buf, inbuf) ==
  LET s == SkipComments(buf, skip_spaces(buf, inbuf))
      msr == ParseNumber(buf, s)
      wmask == ParseNumber(msr.buf, msr.s)
  IN  CASE buf[s] = "NUL" -> [res |-> "end", buf |-> buf]
        [] buf[s] # "NUL" /\ msr.res # "entry" -> msr
        [] buf[s] # "NUL" /\ msr.res = "entry" /\ wmask.res # "entry" -> wmask
        [] OTHER -> [res |-> "entry", buf |-> wmask.buf, s |-> wmask.s,
                     entry |-> <<msr.data, wmask.data>>]

\* The loop of either pass of write_allowlist.
RECURSIVE Pass(_, _, _)
Pass(buf, s, entries) ==
  LET r == parse_next_allowlist_entry(buf, s)
  IN  IF r.res = "entry" THEN Pass(r.buf, r.s, Append(entries, r.entry))
      ELSE [entries |-> entries, tail |-> r.res, buf |-> r.buf]

\* kzalloc(count + 1) leaves a null character behind the text.
Scan(text) == Pass(Append(text, "NUL"), 1, <<>>)

(***************************************************************************)
(* read_allowlist: a line per entry, under a header before the first.      *)
(***************************************************************************)
Header == <<"#", "letter", " ", "letter", " ", "letter", " ", "\n">>
\* Mutant: no newline at the end of an entry.
LineUnended(e) == <<e[1], " ", e[2]>>
Line(e) == <<e[1], " ", e[2], "\n">>
Listing(es) == IF es = <<>> THEN <<>> ELSE Header \o FlattenSeq([i \in DOMAIN es |-> Line(es[i])])

(***************************************************************************)
(* msr_parse_allowlist of msrsave.c, on a copy of such a listing.          *)
(***************************************************************************)
LineStarts(buf) ==
  {p \in 1 .. Len(buf) : buf[p] # "NUL" /\ (p = 1 \/ buf[p - 1] = "\n")}
\* Mutant: comment lines are counted.
EntryLinesAll(buf) == LineStarts(buf)
\* The lines that do not start with '#', which the first loop counts.
EntryLines(buf) == {p \in LineStarts(buf) : buf[p] # "#"}

\* sscanf("%zX %zX\n"): blanks before a number are skipped, newlines too.
sscanf(buf, s) ==
  LET msr == skip_spaces(buf, s)
      wmask == skip_spaces(buf, WordEnd(buf, msr))
  IN  IF {buf[msr], buf[wmask]} \subseteq Numerals
      THEN <<<<buf[msr], buf[wmask]>>>> ELSE <<>>

NextLine(buf, s) == LineEnd(buf, s) + 1

RECURSIVE SkipCommentLines(_, _)
SkipCommentLines(buf, s) ==
  IF s <= Len(buf) /\ buf[s] = "#" THEN SkipCommentLines(buf, NextLine(buf, s)) ELSE s

RECURSIVE ScanLines(_, _, _, _)
ScanLines(buf, s, num_msr, entries) ==
  LET line == SkipCommentLines(buf, s)
      pair == IF line > Len(buf) THEN <<>> ELSE sscanf(buf, line)
  IN  IF num_msr = 0 THEN [err |-> 0, entries |-> entries]
      ELSE IF pair = <<>> THEN [err |-> 1, entries |-> <<>>]
      ELSE ScanLines(buf, NextLine(buf, line), num_msr - 1, entries \o pair)

\* An empty file is an error.
msr_parse_allowlist(text) ==
  LET buf == Append(text, "NUL")
  IN  IF text = <<>> THEN [err |-> 1, entries |-> <<>>]
      ELSE ScanLines(buf, 1, Cardinality(EntryLines(buf)), <<>>)

-----------------------------------------------------------------------------
\* The texts that pass one accepts, but pass two does not find the same in: on
\* the buffer as the first pass leaves it, other entries or an error.
Misread ==
  {t \in Texts : LET first == Scan(t)
                 IN  first.tail = "end" /\ Pass(first.buf, 1, <<>>) # first}

\* What the kernel and msrsave make of the listings of the lists up to a length.
ListsUpTo(n) == BoundedSeq(Numerals \X Numerals, n)
WrittenBack(n) == [es \in ListsUpTo(n) |-> Scan(Listing(es))]
ReadBySave(n) == [es \in ListsUpTo(n) |-> msr_parse_allowlist(Listing(es))]
==============================================================================
