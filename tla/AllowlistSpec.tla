---------------------------- MODULE AllowlistSpec ----------------------------
(***************************************************************************)
(* What msr_allowlist.c promises to the rest of the module: an allowlist   *)
(* that maps MSR addresses to write masks, is replaced as a whole, and is  *)
(* consulted with msr_allowlist_maskexists and msr_allowlist_writemask.    *)
(*                                                                         *)
(* msr_allowlist_writemask drops the mutex before it reads the mask of the *)
(* entry it found, so its answer is the listed mask only when no           *)
(* replacement falls in between; afterwards the memory may hold anything.  *)
(* held[l] is that open window of task l.                                  *)
(***************************************************************************)
CONSTANTS Lookers,  \* tasks that consult the allowlist
          Addrs,    \* MSR addresses
          Bits      \* bit positions of a register

VARIABLES list,     \* the installed allowlist: address -> write mask
          held,     \* held[l]: the entry that l found and has not read yet
          ans       \* ans[l]: what the last lookup returned to l

specVars == <<list, held, ans>>

Masks == SUBSET Bits
Lists == UNION {[S -> Masks] : S \in SUBSET Addrs}
Empty == [a \in {} |-> {}]

NotHeld == [mask |-> {}, open |-> FALSE, stale |-> FALSE]
Held(m) == [mask |-> m, open |-> TRUE, stale |-> FALSE]
HeldType == [mask : Masks, open : BOOLEAN, stale : BOOLEAN]

Answer == [exists : BOOLEAN, mask : Masks]
Present(b) == [exists |-> b, mask |-> {}]
Mask(m) == [exists |-> FALSE, mask |-> m]

\* The entry has been freed under every task that still has to read it.
Stale(h) == [l \in Lookers |-> IF h[l].open THEN [h[l] EXCEPT !.stale = TRUE]
                                            ELSE h[l]]

\* What reading a held entry can return.
Readable(h) == IF h.stale THEN Masks ELSE {h.mask}

SpecInit ==
  /\ list = Empty
  /\ held = [l \in Lookers |-> NotHeld]
  /\ ans = [l \in Lookers |-> Mask({})]

\* write(2) on the allowlist device, or the empty write that clears it.
Replace ==
  /\ list' \in Lists
  /\ held' = Stale(held)
  /\ UNCHANGED ans

MaskExists(l, a) ==
  /\ ~held[l].open
  /\ ans' = [ans EXCEPT ![l] = Present(a \in DOMAIN list)]
  /\ UNCHANGED <<list, held>>

WriteMaskAbsent(l, a) ==
  /\ ~held[l].open
  /\ a \notin DOMAIN list
  /\ ans' = [ans EXCEPT ![l] = Mask({})]
  /\ UNCHANGED <<list, held>>

WriteMaskFind(l, a) ==
  /\ ~held[l].open
  /\ a \in DOMAIN list
  /\ held' = [held EXCEPT ![l] = Held(list[a])]
  /\ UNCHANGED <<list, ans>>

WriteMaskRead(l) ==
  /\ held[l].open
  /\ \E m \in Readable(held[l]) : ans' = [ans EXCEPT ![l] = Mask(m)]
  /\ held' = [held EXCEPT ![l] = NotHeld]
  /\ UNCHANGED list

SpecNext ==
  \/ Replace
  \/ \E l \in Lookers, a \in Addrs :
       MaskExists(l, a) \/ WriteMaskAbsent(l, a) \/ WriteMaskFind(l, a)
  \/ \E l \in Lookers : WriteMaskRead(l)

Spec == SpecInit /\ [][SpecNext]_specVars
==============================================================================
