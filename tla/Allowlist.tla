------------------------------ MODULE Allowlist ------------------------------
(***************************************************************************)
(* msr_allowlist.c: the allowlist as the kernel module keeps it, an array  *)
(* from kcalloc whose entries are linked into a hash table, under          *)
(* allowlist_mutex.                                                        *)
(*                                                                         *)
(* Writers run write_allowlist, Readers run read_allowlist, Lookers are    *)
(* the read, write and ioctl calls that consult the list through           *)
(* msr_allowlist_maskexists and msr_allowlist_writemask.  A critical       *)
(* section that only reads is one step that needs the mutex free; that of  *)
(* write_allowlist is split, because msr_allowlist_writemask reads the     *)
(* entry it found after it has dropped the mutex.                          *)
(***************************************************************************)
EXTENDS Naturals, Sequences, FiniteSets

CONSTANTS Writers, Readers, Lookers,
          Addrs, Bits,
          ZeroAddr,      \* the address 0, which kcalloc leaves in an entry
          MaxEntries,    \* entries that fit in MAX_WLIST_BSIZE bytes
          Blocks,        \* memory kcalloc can return
          NULL,          \* the null pointer, and no task
          Inputs,        \* parsed contents of the buffers written
          AllocMayFail   \* whether kcalloc may return NULL

VARIABLES allowlist_mutex,       \* the task that holds it, or NULL
          allowlist,             \* the current array, or NULL
          allowlist_numentries,
          allowlist_hash,        \* the linked entries, as <<block, index>>
          live,                  \* blocks allocated and not freed
          mem,                   \* contents of every block
          pc,                    \* where each task is in its call
          kbuf,                  \* kbuf[w]: the parsed buffer of writer w
          next,                  \* next[w]: the entry pass 2 is about to add
          ret,                   \* ret[w]: what write_allowlist returns
          found,                 \* found[l]: the pointer l reads the mask of
          ans,                   \* ans[l]: what the last lookup returned to l
          fpos,                  \* fpos[r]: the file position of reader r
          held,                  \* history: see AllowlistSpec
          listing                \* history: what r has read from position 0 on

shared == <<allowlist, allowlist_numentries, allowlist_hash, live, mem>>
writer == <<kbuf, next, ret>>
looker == <<found, ans, held>>
reader == <<fpos, listing>>
vars == <<allowlist_mutex, shared, pc, writer, looker, reader>>

Tasks == Writers \cup Readers \cup Lookers
Masks == SUBSET Bits
Entry == [msr : Addrs, wmask : Masks]
Index == 1 .. MaxEntries
Pointers == Blocks \X Index
Zeroed == [i \in Index |-> [msr |-> ZeroAddr, wmask |-> {}]]

\* The parser stops at the end of the buffer or at text it rejects.
Tails == {"end", "EILSEQ", "EINVAL", "ERANGE"}
Buffer == [entries : {s \in Seq(Entry) : Len(s) <= MaxEntries}, tail : Tails]
NoBuffer == [entries |-> <<>>, tail |-> "end"]

\* What a reader has collected, and whether the list was replaced meanwhile.
Unread == [torn |-> FALSE, lines |-> <<>>]
Torn == [torn |-> TRUE, lines |-> <<>>]

ASSUME TasksDisjoint ==
  /\ Writers \cap Readers = {} /\ Writers \cap Lookers = {}
  /\ Readers \cap Lookers = {} /\ NULL \notin Tasks
ASSUME MemoryAssumption ==
  /\ MaxEntries \in Nat \ {0} /\ NULL \notin Blocks /\ ZeroAddr \in Addrs
ASSUME InputsAssumption == Inputs \subseteq Buffer
ASSUME AllocAssumption == AllocMayFail \in BOOLEAN

At(p) == mem[p[1]][p[2]]
Goto(t, label) == pc' = [pc EXCEPT ![t] = label]
Return(w, r) == ret' = [ret EXCEPT ![w] = r]

\* Mutant: the table is walked although there is no array.
FindWithoutArray(a) == {p \in allowlist_hash : At(p).msr = a}

\* The linked entries for an address, as a set of pointers.
find_in_allowlist(a) ==
  IF allowlist = NULL THEN {} ELSE {p \in allowlist_hash : At(p).msr = a}

(***************************************************************************)
(* The list that the data structure stands for.  From the creation of the  *)
(* array to the unlock nobody can look anything up, so the new list counts *)
(* as installed when its array is created: all of it, or the empty list    *)
(* when pass 2 is going to meet a duplicate.                               *)
(***************************************************************************)
Distinct(es) == \A i, j \in DOMAIN es : es[i].msr = es[j].msr => i = j

ListOf(es) ==
  [a \in {es[i].msr : i \in DOMAIN es} |->
     es[CHOOSE i \in DOMAIN es : es[i].msr = a].wmask]

LinkedList ==
  [a \in {a \in Addrs : find_in_allowlist(a) # {}} |->
     At(CHOOSE p \in find_in_allowlist(a) : TRUE).wmask]

InstalledList ==
  IF allowlist_mutex \in Writers /\ pc[allowlist_mutex] = "add"
  THEN LET es == kbuf[allowlist_mutex].entries
       IN  IF Distinct(es) THEN ListOf(es) ELSE ListOf(<<>>)
  ELSE LinkedList

Contract == INSTANCE AllowlistSpec WITH list <- InstalledList
NotHeld == Contract!NotHeld
Held(m) == Contract!Held(m)

\* The array is freed or replaced: whoever is between two reads is overtaken.
Overtake ==
  /\ held' = Contract!Stale(held)
  /\ listing' = [r \in Readers |-> Torn]

(***************************************************************************)
(* The helpers that the handlers call with the mutex held.                 *)
(***************************************************************************)
\* Freed memory has no contents to rely on: Zeroed stands for any.
Freed == [b \in Blocks |-> IF b = allowlist THEN Zeroed ELSE mem[b]]

\* Mutant: allowlist_numentries is not reset.
DeleteKeepsCount ==
  /\ live' = live \ {allowlist}
  /\ allowlist' = NULL
  /\ UNCHANGED allowlist_numentries
  /\ mem' = Freed
  /\ Overtake

delete_allowlist ==
  /\ live' = live \ {allowlist}
  /\ allowlist' = NULL
  /\ allowlist_numentries' = IF allowlist = NULL THEN allowlist_numentries ELSE 0
  /\ mem' = Freed
  /\ Overtake

\* kcalloc(n): a block of zeroed entries out of those that are free, or NULL.
Allocate(used) ==
  \/ \E b \in Blocks \ used : allowlist' = b /\ live' = used \cup {b}
  \/ AllocMayFail /\ allowlist' = NULL /\ live' = used

\* Mutants: hash_init forgotten, delete_allowlist forgotten, one entry too many.
CreateKeepsHash(n) ==
  /\ UNCHANGED allowlist_hash
  /\ allowlist_numentries' = n
  /\ mem' = Freed
  /\ Overtake
  /\ Allocate(live \ {allowlist})
CreateWithoutDelete(n) ==
  /\ allowlist_hash' = {}
  /\ allowlist_numentries' = n
  /\ UNCHANGED mem
  /\ Overtake
  /\ Allocate(live)
CreateOneMore(n) ==
  /\ allowlist_hash' = {}
  /\ allowlist_numentries' = n + 1
  /\ mem' = Freed
  /\ Overtake
  /\ Allocate(live \ {allowlist})

\* hash_init and delete_allowlist; the freed block may be handed out at once.
create_allowlist(n) ==
  /\ allowlist_hash' = {}
  /\ allowlist_numentries' = n
  /\ mem' = Freed
  /\ Overtake
  /\ Allocate(live \ {allowlist})

(***************************************************************************)
(* write_allowlist                                                         *)
(***************************************************************************)
\* count <= 2: the whole critical section, its unlock included.
ClearList(w) ==
  /\ pc[w] = "idle"
  /\ allowlist_mutex = NULL
  /\ delete_allowlist
  /\ allowlist_hash' = {}                             \* hash_init
  /\ UNCHANGED <<allowlist_mutex, pc, kbuf, next, ret, found, ans, fpos>>

\* A buffer too large, a failed kzalloc or copy_from_user.
RejectBuffer(w) ==
  /\ pc[w] = "idle"
  /\ \E e \in {"E2BIG", "ENOMEM", "EFAULT"} : Return(w, e)
  /\ Goto(w, "free")
  /\ UNCHANGED <<allowlist_mutex, shared, kbuf, next, looker, reader>>

\* Pass 1 counts the entries of a private copy; only a valid one goes on.
Pass1(w) ==
  /\ pc[w] = "idle"
  /\ \E in \in Inputs :
       IF in.tail = "end" /\ in.entries # <<>>
       THEN /\ kbuf' = [kbuf EXCEPT ![w] = in]
            /\ Goto(w, "lock")
            /\ UNCHANGED ret
       ELSE /\ Return(w, IF in.tail # "end" THEN in.tail ELSE "ENOMSG")
            /\ Goto(w, "free")
            /\ UNCHANGED kbuf
  /\ UNCHANGED <<allowlist_mutex, shared, next, looker, reader>>

Lock(w) ==
  /\ pc[w] = "lock"
  /\ allowlist_mutex = NULL
  /\ allowlist_mutex' = w
  /\ Goto(w, "create")
  /\ UNCHANGED <<shared, writer, looker, reader>>

Create(w) ==
  /\ pc[w] = "create"
  /\ create_allowlist(Len(kbuf[w].entries))
  /\ IF allowlist' = NULL
     THEN Goto(w, "unlock") /\ Return(w, "ENOMEM")
     ELSE Goto(w, "add") /\ UNCHANGED ret
  /\ next' = [next EXCEPT ![w] = 1]
  /\ UNCHANGED <<allowlist_mutex, kbuf, found, ans, fpos>>

\* Mutants: the partial list stays; the mutex is not released.
DuplicateKeepsPart(w) ==
  /\ Return(w, "ENOTUNIQ")
  /\ Goto(w, "unlock")
  /\ UNCHANGED <<shared, next, held, listing>>
DuplicateSkipsUnlock(w) ==
  /\ delete_allowlist
  /\ Return(w, "ENOTUNIQ")
  /\ Goto(w, "free")
  /\ UNCHANGED <<allowlist_hash, next>>

\* Pass 2 meets an address that is linked already.
Duplicate(w) ==
  /\ delete_allowlist
  /\ Return(w, "ENOTUNIQ")
  /\ Goto(w, "unlock")
  /\ UNCHANGED <<allowlist_hash, next>>

AddEntry(w, e) ==
  /\ mem' = [mem EXCEPT ![allowlist][next[w]] = e]
  /\ allowlist_hash' = allowlist_hash \cup {<<allowlist, next[w]>>}
  /\ next' = [next EXCEPT ![w] = @ + 1]
  /\ UNCHANGED <<allowlist, allowlist_numentries, live, pc, ret, held, listing>>

\* One round of pass 2: parse into the array, look for a duplicate, link.
Add(w) ==
  /\ pc[w] = "add"
  /\ next[w] <= Len(kbuf[w].entries)
  /\ LET e == kbuf[w].entries[next[w]]
     IN  IF find_in_allowlist(e.msr) # {} THEN Duplicate(w) ELSE AddEntry(w, e)
  /\ UNCHANGED <<allowlist_mutex, kbuf, found, ans, fpos>>

\* The parser reports the end of the buffer.
AddDone(w) ==
  /\ pc[w] = "add"
  /\ next[w] > Len(kbuf[w].entries)
  /\ Return(w, "count")
  /\ Goto(w, "unlock")
  /\ UNCHANGED <<allowlist_mutex, shared, kbuf, next, looker, reader>>

Unlock(w) ==                                         \* out_releasemutex
  /\ pc[w] = "unlock"
  /\ allowlist_mutex' = NULL
  /\ Goto(w, "free")
  /\ UNCHANGED <<shared, writer, looker, reader>>

\* The call returns ret[w], and its locals are gone.
FreeBuffer(w) ==                                     \* out_freebuffer
  /\ pc[w] = "free"
  /\ kbuf' = [kbuf EXCEPT ![w] = NoBuffer]
  /\ next' = [next EXCEPT ![w] = 1]
  /\ Return(w, "none")
  /\ Goto(w, "idle")
  /\ UNCHANGED <<allowlist_mutex, shared, looker, reader>>

(***************************************************************************)
(* msr_allowlist_maskexists and msr_allowlist_writemask                    *)
(***************************************************************************)
\* Mutant: the lookup does not take the mutex.
MaskExistsUnlocked(l, a) ==
  /\ pc[l] = "idle"
  /\ ans' = [ans EXCEPT ![l] = Contract!Present(find_in_allowlist(a) # {})]
  /\ UNCHANGED <<allowlist_mutex, shared, pc, writer, found, held, reader>>

MaskExists(l, a) ==
  /\ pc[l] = "idle"
  /\ allowlist_mutex = NULL
  /\ ans' = [ans EXCEPT ![l] = Contract!Present(find_in_allowlist(a) # {})]
  /\ UNCHANGED <<allowlist_mutex, shared, pc, writer, found, held, reader>>

\* Lock, find, unlock; an absent entry is answered without touching memory.
WriteMaskFind(l, a) ==
  /\ pc[l] = "idle"
  /\ allowlist_mutex = NULL
  /\ IF find_in_allowlist(a) = {}
     THEN /\ ans' = [ans EXCEPT ![l] = Contract!Mask({})]
          /\ UNCHANGED <<pc, found, held>>
     ELSE \E p \in find_in_allowlist(a) :
            /\ found' = [found EXCEPT ![l] = p]
            /\ held' = [held EXCEPT ![l] = Held(At(p).wmask)]
            /\ Goto(l, "deref")
            /\ UNCHANGED ans
  /\ UNCHANGED <<allowlist_mutex, shared, writer, reader>>

\* entry->wmask without the mutex: a freed block may hold anything.
WriteMaskRead(l) ==
  /\ pc[l] = "deref"
  /\ \E m \in IF found[l][1] \in live THEN {At(found[l]).wmask} ELSE Masks :
       ans' = [ans EXCEPT ![l] = Contract!Mask(m)]
  /\ held' = [held EXCEPT ![l] = NotHeld]
  /\ found' = [found EXCEPT ![l] = NULL]
  /\ Goto(l, "idle")
  /\ UNCHANGED <<allowlist_mutex, shared, writer, reader>>

(***************************************************************************)
(* read_allowlist: one entry per call, at the file position.  The VFS      *)
(* stores *ppos back only when the handler did not return an error.        *)
(***************************************************************************)
CanRead(r) == pc[r] = "idle" /\ allowlist_mutex = NULL
PastEnd(r) == fpos[r] >= allowlist_numentries

ReadEnd(r) ==
  /\ CanRead(r)
  /\ PastEnd(r)
  /\ fpos' = [fpos EXCEPT ![r] = 0]
  /\ listing' = [listing EXCEPT ![r] = Unread]
  /\ UNCHANGED <<allowlist_mutex, shared, pc, writer, looker>>

\* Mutant: the position counts bytes, as in most read handlers.
AdvanceByBytes(idx) == idx + 2
Advance(idx) == idx + 1

ReadEntry(r) ==
  /\ CanRead(r)
  /\ ~PastEnd(r)
  /\ allowlist # NULL
  /\ fpos' = [fpos EXCEPT ![r] = Advance(@)]
  /\ LET e == mem[allowlist][fpos[r] + 1]
         before == IF fpos[r] = 0 THEN Unread ELSE listing[r]
     IN  listing' = [listing EXCEPT ![r] =
                       IF before.torn THEN Torn
                       ELSE [torn |-> FALSE, lines |-> Append(before.lines, e)]]
  /\ UNCHANGED <<allowlist_mutex, shared, pc, writer, looker>>

\* The line does not fit the user's buffer, or copy_to_user fails.
ReadFails(r) ==
  /\ CanRead(r)
  /\ ~PastEnd(r)
  /\ allowlist # NULL
  /\ UNCHANGED vars

\* allowlist[idx] of a null array: the task dies inside the critical section.
ReadFaults(r) ==
  /\ CanRead(r)
  /\ ~PastEnd(r)
  /\ allowlist = NULL
  /\ allowlist_mutex' = r
  /\ Goto(r, "dead")
  /\ UNCHANGED <<shared, writer, looker, reader>>

-----------------------------------------------------------------------------
Init ==
  /\ allowlist_mutex = NULL
  /\ allowlist = NULL
  /\ allowlist_numentries = 0
  /\ allowlist_hash = {}
  /\ live = {}
  /\ mem = [b \in Blocks |-> Zeroed]
  /\ pc = [t \in Tasks |-> "idle"]
  /\ kbuf = [w \in Writers |-> NoBuffer]
  /\ next = [w \in Writers |-> 1]
  /\ ret = [w \in Writers |-> "none"]
  /\ found = [l \in Lookers |-> NULL]
  /\ ans = [l \in Lookers |-> Contract!Mask({})]
  /\ fpos = [r \in Readers |-> 0]
  /\ held = [l \in Lookers |-> NotHeld]
  /\ listing = [r \in Readers |-> Unread]

WriterStep(w) ==
  \/ ClearList(w) \/ RejectBuffer(w) \/ Pass1(w) \/ Lock(w)
  \/ Create(w) \/ Add(w) \/ AddDone(w) \/ Unlock(w) \/ FreeBuffer(w)
LookerStep(l) ==
  \/ \E a \in Addrs : MaskExists(l, a) \/ WriteMaskFind(l, a)
  \/ WriteMaskRead(l)
ReaderStep(r) == ReadEnd(r) \/ ReadEntry(r) \/ ReadFails(r) \/ ReadFaults(r)

Next ==
  \/ \E w \in Writers : WriterStep(w)
  \/ \E l \in Lookers : LookerStep(l)
  \/ \E r \in Readers : ReaderStep(r)

Spec == Init /\ [][Next]_vars

(***************************************************************************)
(* A kernel mutex hands the lock over, so a task that waits for it gets it *)
(* if it is released again and again; a task inside a call keeps running.  *)
(* Nobody is obliged to start a call.                                      *)
(***************************************************************************)
Fairness ==
  /\ \A w \in Writers : /\ SF_vars(Lock(w))
                         /\ WF_vars(Create(w) \/ Add(w) \/ AddDone(w) \/ Unlock(w) \/ FreeBuffer(w))
  /\ \A l \in Lookers : WF_vars(WriteMaskRead(l))

FairSpec == Spec /\ Fairness

-----------------------------------------------------------------------------
\* The types of the variables (one per module).
WriterLabels == {"idle", "lock", "create", "add", "unlock", "free"}
Results == {"none", "count", "E2BIG", "ENOMEM", "EFAULT", "ENOMSG", "ENOTUNIQ"}
             \cup Tails

HeapTypeOK ==
  /\ allowlist_mutex \in Writers \cup Readers \cup {NULL}
  /\ allowlist \in Blocks \cup {NULL}
  /\ allowlist_numentries \in 0 .. MaxEntries
  /\ allowlist_hash \subseteq Pointers
  /\ live \subseteq Blocks
  /\ mem \in [Blocks -> [Index -> Entry]]

CallTypeOK ==
  /\ pc \in [Tasks -> WriterLabels \cup {"deref", "dead"}]
  /\ kbuf \in [Writers -> Buffer]
  /\ next \in [Writers -> 1 .. MaxEntries + 1]
  /\ ret \in [Writers -> Results]

LookupTypeOK ==
  /\ found \in [Lookers -> Pointers \cup {NULL}]
  /\ ans \in [Lookers -> Contract!Answer]
  /\ held \in [Lookers -> Contract!HeldType]

ReadTypeOK ==
  /\ fpos \in [Readers -> 0 .. MaxEntries]
  /\ listing \in [Readers -> [torn : BOOLEAN, lines : Seq(Entry)]]

TypeOK == HeapTypeOK /\ CallTypeOK /\ LookupTypeOK /\ ReadTypeOK

(***************************************************************************)
(* find_in_allowlist walks the hash table only while there is an array,    *)
(* and then every node it meets lies in that array, which is allocated;    *)
(* outside pass 2 the nodes are the whole array, no address twice.  The    *)
(* table keeps nodes of a freed array after a duplicate: nobody may walk   *)
(* them, and the next creation must drop them.                             *)
(***************************************************************************)
Filled == IF allowlist_mutex \in Writers /\ pc[allowlist_mutex] = "add"
          THEN next[allowlist_mutex] - 1
          ELSE allowlist_numentries

HashIsArray ==
  allowlist # NULL =>
    /\ allowlist \in live
    /\ allowlist_hash = {allowlist} \X (1 .. Filled)
    /\ \A p, q \in allowlist_hash : At(p).msr = At(q).msr => p = q

\* Every array is freed exactly when it is replaced: nothing leaks, and
\* the module never holds a pointer to a freed array.
NoLeak == live = {allowlist} \ {NULL}

(***************************************************************************)
(* When write_allowlist is about to release the mutex, what it returns and *)
(* what it leaves agree: the byte count means that exactly its entries are *)
(* linked, an error means that no lookup finds anything.                   *)
(***************************************************************************)
OutcomeMatches ==
  \A w \in Writers : pc[w] = "unlock" =>
    IF ret[w] = "count"
    THEN /\ LinkedList = ListOf(kbuf[w].entries)
         /\ allowlist_numentries = Len(kbuf[w].entries)
    ELSE allowlist = NULL

(***************************************************************************)
(* A lookup that no replacement overtook reads the mask it found: the      *)
(* entry is still linked, in an allocated array, and unchanged.            *)
(***************************************************************************)
UnraceyLookup ==
  \A l \in Lookers : held[l].open /\ ~held[l].stale =>
    /\ found[l][1] = allowlist
    /\ found[l] \in allowlist_hash
    /\ At(found[l]).wmask = held[l].mask

(***************************************************************************)
(* A reader that no replacement overtook has read the first fpos entries   *)
(* in order, none skipped and none twice, however often a read failed; so  *)
(* at the end of file it has read the whole list.                          *)
(***************************************************************************)
ListingIsPrefix ==
  \A r \in Readers : ~listing[r].torn =>
    /\ Len(listing[r].lines) = fpos[r]
    /\ fpos[r] > 0 => /\ allowlist # NULL
                      /\ fpos[r] <= allowlist_numentries
                      /\ \A i \in 1 .. fpos[r] : listing[r].lines[i] = mem[allowlist][i]

(***************************************************************************)
(* The handlers implement the contract: the list changes as a whole, and   *)
(* no lookup sees a partly built or a freed one.                           *)
(***************************************************************************)
ImplementsContract == Contract!Spec

\* Every write that waits for the mutex or holds it returns.
WritesReturn == \A w \in Writers : pc[w] # "idle" ~> pc[w] = "idle"

\* No reader dies on a null array (when kcalloc does not fail).
ReadersSurvive == \A r \in Readers : pc[r] # "dead"

(***************************************************************************)
(* README.md:153, "If an error occurs during the second pass the allowlist *)
(* is reset to be empty": no array, no entry.                              *)
(***************************************************************************)
FailedSecondPassEmpties ==
  \A w \in Writers : pc[w] = "unlock" /\ ret[w] # "count" =>
    allowlist = NULL /\ allowlist_numentries = 0
==============================================================================
