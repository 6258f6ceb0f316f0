-------------------------- MODULE EnvironmentProofs --------------------------
(***************************************************************************)
(* Lemmas about Environment that the proofs of the devices share: what the *)
(* lookups of the allowlist return, what a replacement of the list does to *)
(* the calls under way, and which bits the masks of a call can open.  Each *)
(* speaks of one task, so that the steps of others leave it alone.         *)
(***************************************************************************)
EXTENDS Environment, WellFoundedInduction, TLAPS

\* The part of the types that a lookup or a new list touches.
LookupTypeOK ==
  /\ list \in AdminLists
  /\ held \in [Lookers -> HeldType]
  /\ ans \in [Lookers -> Answer]
  /\ during \in [Lookers -> SUBSET AdminLists]
  /\ raced \in BOOLEAN

\* t has installed lists on record since its call began, the current one among them.
InCall(t) == list \in during[t]

\* The entry that t points to has been freed, or its mask was listed in this call.
HeldListed(t, a) ==
  held[t].open /\ (held[t].stale \/ held[t].mask \in MasksDuring(t, a))

\* Some list installed during t's call has register a.
WasListed(t, a) == \E l \in during[t] : a \in DOMAIN l

\* A set of natural numbers has a least element.
LEMMA LeastElement ==
  ASSUME NEW S \in SUBSET Nat, S # {}
  PROVE  \E x \in S : \A y \in S : x <= y
<1>1. IsWellFoundedOn(OpToRel(<, Nat), Nat)
  BY NatLessThanWellFounded
<1>2. PICK x \in S : \A y \in S : ~ (<<y, x>> \in OpToRel(<, Nat))
  BY <1>1, WFMin
<1>3. \A y \in S : ~ (y < x)
  BY <1>2 DEF OpToRel
<1> QED
  BY <1>3

\* The lists of the administrator map addresses to masks.
LEMMA ListsAreMaps ==
  \A l \in AdminLists : l \in Lists /\ \A a \in DOMAIN l : l[a] \in Masks
<1> SUFFICES ASSUME NEW l \in AdminLists
             PROVE  l \in Lists /\ \A a \in DOMAIN l : l[a] \in Masks
  OBVIOUS
<1>1. l \in Lists
  BY EnvironmentAssumption DEF AdminLists
<1>2. PICK S \in SUBSET Addrs : l \in [S -> Masks]
  BY <1>1 DEF Lists
<1> QED
  BY <1>1, <1>2

\* A mask that some list gives to a register opens only bits that are writable there.
LEMMA MaskIsWritable ==
  ASSUME NEW l \in AdminLists, NEW a
  PROVE  MaskIn(l, a) \in Masks /\ MaskIn(l, a) \subseteq Writable(a)
  BY ListsAreMaps DEF MaskIn, Writable, Masks

\* So does a mask that the register had during a call.
LEMMA MasksDuringWritable ==
  ASSUME LookupTypeOK, NEW t \in Lookers, NEW a, NEW m \in MasksDuring(t, a)
  PROVE  m \subseteq Writable(a)
<1>1. PICK l \in during[t] : m = MaskIn(l, a)
  BY DEF MasksDuring
<1>2. l \in AdminLists
  BY <1>1 DEF LookupTypeOK
<1> QED
  BY <1>1, <1>2, MaskIsWritable

\* The environment starts with its types, and with no call under way.
LEMMA EnvInitHolds ==
  EnvInit => EnvTypeOK /\ \A t \in Lookers : ~held[t].open
<1> SUFFICES ASSUME EnvInit PROVE EnvTypeOK /\ \A t \in Lookers : ~held[t].open
  OBVIOUS
<1>1. list \in AdminLists /\ during \in [Lookers -> SUBSET AdminLists] /\ raced \in BOOLEAN
  BY DEF EnvInit, AdminLists
<1>2. held \in [Lookers -> HeldType] /\ ans \in [Lookers -> Answer]
  BY DEF EnvInit, NotHeld, HeldType, Mask, Answer, Masks
<1>3. MachineTypeOK(Lookers)
  BY MachineAssumption DEF EnvInit, MachineInit, MachineTypeOK
<1> QED
  BY <1>1, <1>2, <1>3 DEF EnvTypeOK, EnvInit, NotHeld

\* msr_allowlist_maskexists answers whether the list installed now has the register.
LEMMA MaskExistsEffect ==
  ASSUME LookupTypeOK, NEW t \in Lookers, NEW a, MaskExists(t, a), UNCHANGED raced
  PROVE  /\ list' = list /\ held' = held
         /\ ans' \in [Lookers -> Answer] /\ raced' \in BOOLEAN
         /\ ans'[t].exists <=> a \in DOMAIN list
<1>1. \A b \in BOOLEAN : Present(b) \in Answer /\ Present(b).exists = b
  BY DEF Present, Answer, Masks
<1>2. UNCHANGED <<list, held>> /\ ans' = [ans EXCEPT ![t] = Present(a \in DOMAIN list)]
  BY DEF MaskExists
<1>3. CASE a \in DOMAIN list
  <2>1. (a \in DOMAIN list) = TRUE
    BY <1>3
  <2>2. ans' = [ans EXCEPT ![t] = Present(TRUE)]
    BY <1>2, <2>1
  <2> QED
    BY <1>1, <1>2, <1>3, <2>2 DEF LookupTypeOK
<1>4. CASE a \notin DOMAIN list
  <2>1. (a \in DOMAIN list) = FALSE
    BY <1>4
  <2>2. ans' = [ans EXCEPT ![t] = Present(FALSE)]
    BY <1>2, <2>1
  <2> QED
    BY <1>1, <1>2, <1>4, <2>2 DEF LookupTypeOK
<1> QED
  BY <1>3, <1>4

\* msr_allowlist_writemask does not find the register: the list does not have it.
LEMMA AbsentEffect ==
  ASSUME LookupTypeOK, NEW t \in Lookers, NEW a, WriteMaskAbsent(t, a), UNCHANGED raced
  PROVE  /\ list' = list /\ held' = held /\ a \notin DOMAIN list
         /\ ans' \in [Lookers -> Answer] /\ raced' \in BOOLEAN
  BY DEF LookupTypeOK, WriteMaskAbsent, Mask, Answer, Masks

\* msr_allowlist_writemask finds the register and points to its entry, whose mask it has
\* yet to read.
LEMMA FindEffect ==
  ASSUME LookupTypeOK, NEW t \in Lookers, NEW a, WriteMaskFind(t, a)
  PROVE  /\ list' = list /\ ans' = ans /\ a \in DOMAIN list
         /\ held' \in [Lookers -> HeldType]
         /\ held'[t].open /\ ~held'[t].stale /\ held'[t].mask = MaskIn(list, a)
         /\ \A u \in Lookers \ {t} : held'[u] = held[u]
<1>1. list[a] \in Masks
  BY ListsAreMaps DEF LookupTypeOK, WriteMaskFind
<1> QED
  BY <1>1 DEF LookupTypeOK, WriteMaskFind, Held, HeldType, MaskIn

\* msr_allowlist_writemask reads the mask of its entry; anything, if that was freed.
LEMMA GetMaskEffect ==
  ASSUME LookupTypeOK, NEW t \in Lookers, GetMask(t)
  PROVE  /\ list' = list /\ during' = during /\ held[t].open
         /\ held' \in [Lookers -> HeldType] /\ ~held'[t].open
         /\ \A u \in Lookers \ {t} : held'[u] = held[u]
         /\ ans' \in [Lookers -> Answer] /\ ans'[t].mask \in Masks
         /\ raced' \in BOOLEAN /\ (raced => raced')
         /\ raced' \/ (~held[t].stale /\ ans'[t].mask = held[t].mask)
<1>1. PICK m \in Readable(held[t]) : ans' = [ans EXCEPT ![t] = Mask(m)]
  BY DEF GetMask, WriteMaskRead
<1>2. held[t] \in HeldType
  BY DEF LookupTypeOK
<1>3. m \in Masks /\ (held[t].stale \/ m = held[t].mask)
  BY <1>1, <1>2 DEF Readable, HeldType
<1>4. ans' \in [Lookers -> Answer] /\ ans'[t].mask = m
  BY <1>1, <1>3 DEF LookupTypeOK, Mask, Answer
<1>5. /\ held' \in [Lookers -> HeldType] /\ ~held'[t].open /\ held[t].open
      /\ \A u \in Lookers \ {t} : held'[u] = held[u]
  BY DEF LookupTypeOK, GetMask, WriteMaskRead, NotHeld, HeldType, Masks
<1>6. list' = list /\ during' = during
  BY DEF GetMask, WriteMaskRead
<1>7. raced' \in BOOLEAN /\ (raced => raced') /\ (held[t].stale => raced')
  <2>1. raced' = (raced \/ held[t].stale)
    BY DEF GetMask
  <2>2. raced \in BOOLEAN /\ held[t].stale \in BOOLEAN
    BY <1>2 DEF LookupTypeOK, HeldType
  <2> QED
    BY <2>1, <2>2
<1> QED
  BY <1>3, <1>4, <1>5, <1>6, <1>7

\* A new list is on record for the calls under way, and overtakes their open lookups;
\* what was listed in a call stays so.
LEMMA ReplaceListEffect ==
  ASSUME LookupTypeOK, ReplaceList
  PROVE  /\ LookupTypeOK' /\ raced' = raced /\ UNCHANGED machine
         /\ \A t \in Lookers :
              /\ during[t] \subseteq during'[t]
              /\ InCall(t) => InCall(t)'
              /\ held'[t].open <=> held[t].open
              /\ held'[t].mask = held[t].mask
              /\ held[t].open => held'[t].stale
<1>1. list' \in AdminLists /\ raced' = raced /\ ans' = ans /\ UNCHANGED machine
  BY DEF ReplaceList, Replace, AdminLists
<1>2. during' \in [Lookers -> SUBSET AdminLists]
  BY <1>1 DEF ReplaceList, LookupTypeOK
<1>3. \A t \in Lookers : during[t] \subseteq during'[t] /\ (InCall(t) => InCall(t)')
  BY DEF ReplaceList, LookupTypeOK, InCall
<1>4. held' = Stale(held)
  BY DEF ReplaceList, Replace
<1>5. \A t \in Lookers : /\ held'[t] \in HeldType
                         /\ held'[t].open <=> held[t].open
                         /\ held'[t].mask = held[t].mask
                         /\ held[t].open => held'[t].stale
  BY <1>4 DEF Stale, HeldType, LookupTypeOK
<1>6. held' \in [Lookers -> HeldType]
  BY <1>4, <1>5 DEF Stale
<1> QED
  BY <1>1, <1>2, <1>3, <1>5, <1>6 DEF LookupTypeOK

\* What was listed in a call stays so under a longer record.
LEMMA RecordGrows ==
  ASSUME NEW t, NEW a, during[t] \subseteq during'[t]
  PROVE  /\ WasListed(t, a) => WasListed(t, a)'
         /\ MasksDuring(t, a) \subseteq MasksDuring(t, a)'
  BY DEF WasListed, MasksDuring

\* The merge of new bits under a mask changes no bit outside of it.
LEMMA MergeEffect ==
  ASSUME NEW old \in Masks, NEW new \in Masks, NEW m \in Masks
  PROVE  /\ Merge(old, new, m) \in Masks
         /\ Merge(old, new, m) \cap m = new \cap m
         /\ \A V : m \subseteq V => Merge(old, new, m) \ V = old \ V
  BY DEF Merge, Masks
==============================================================================
