--------------------------- MODULE AllowlistProofs ---------------------------
(***************************************************************************)
(* Invariants of Allowlist, and that it implements AllowlistSpec, for any  *)
(* number of tasks, entries and blocks.                                    *)
(*                                                                         *)
(* The argument: a task is inside the critical section of write_allowlist  *)
(* exactly when it owns the mutex (MutexInv), so the array under           *)
(* construction belongs to one writer and is a prefix of what its buffer   *)
(* holds (BuildInv).  That gives the array, the count and the hash table   *)
(* their relation (NoLeak, HashIsArray, OutcomeMatches), and the entry a   *)
(* lookup points to outlives the mutex until the array is replaced         *)
(* (LookerInv, UnraceyLookup).                                             *)
(***************************************************************************)
EXTENDS Allowlist, TLAPS

\* The owner of allowlist_mutex is the task whose label is between its lock and
\* its unlock; each kind of task is at a label of its own handler.
MutexInv ==
  /\ \A w \in Writers : pc[w] \in WriterLabels
  /\ \A w \in Writers : pc[w] \in {"create", "add", "unlock"} <=> allowlist_mutex = w
  /\ \A r \in Readers : pc[r] \in {"idle", "dead"} /\ (pc[r] = "dead" <=> allowlist_mutex = r)
  /\ \A l \in Lookers : pc[l] \in {"idle", "deref"}

\* msr_allowlist_writemask points at an entry exactly between its unlock and its
\* read of entry->wmask.
LookerInv ==
  \A l \in Lookers : /\ pc[l] = "deref" <=> held[l].open
                     /\ pc[l] = "deref" => found[l] \in Pointers

\* During pass 2 of write_allowlist the first next[w] - 1 entries of the array are
\* those of the buffer, and allowlist_numentries is what pass 1 counted.
BuildInv ==
  \A w \in Writers : pc[w] = "add" =>
       /\ next[w] <= Len(kbuf[w].entries) + 1
       /\ allowlist # NULL
       /\ allowlist_numentries = Len(kbuf[w].entries)
       /\ \A i \in 1 .. next[w] - 1 : mem[allowlist][i] = kbuf[w].entries[i]

\* The inductive invariant of the mutex, the array, the table and the lookups.
IInv ==
  /\ TypeOK
  /\ MutexInv
  /\ LookerInv
  /\ BuildInv
  /\ NoLeak
  /\ HashIsArray
  /\ UnraceyLookup
  /\ OutcomeMatches

\* After msr_allowlist_init nothing is allocated and nobody is inside a handler.
LEMMA InitIInv == Init => IInv
<1> SUFFICES ASSUME Init PROVE IInv
  OBVIOUS
<1> USE DEF Init
<1>1. TypeOK
  BY TasksDisjoint, MemoryAssumption
     DEF TypeOK, HeapTypeOK, CallTypeOK, LookupTypeOK, ReadTypeOK, Tasks, Zeroed,
         Entry, Index, NoBuffer, Buffer, Tails, Results, Unread, NotHeld,
         Contract!NotHeld, Contract!HeldType, Contract!Answer, Contract!Mask,
         Contract!Masks, Masks, WriterLabels
<1>2. MutexInv
  BY TasksDisjoint DEF MutexInv, WriterLabels, Tasks
<1>3. LookerInv
  BY DEF LookerInv, NotHeld, Contract!NotHeld, Tasks
<1>4. BuildInv
  BY DEF BuildInv, NoBuffer, Tasks
<1>5. NoLeak /\ HashIsArray /\ UnraceyLookup /\ OutcomeMatches
  BY DEF NoLeak, HashIsArray, UnraceyLookup, OutcomeMatches, NotHeld,
         Contract!NotHeld, Tasks
<1> QED
  BY <1>1, <1>2, <1>3, <1>4, <1>5 DEF IInv

\* Only three steps of write_allowlist change the array, the count or the table.
LEMMA HeapFrame ==
  [Next]_vars => \/ \E w \in Writers : ClearList(w) \/ Create(w) \/ Add(w)
                 \/ UNCHANGED shared
  BY DEF Next, WriterStep, LookerStep, ReaderStep, RejectBuffer, Pass1, Lock, AddDone,
         Unlock, FreeBuffer, MaskExists, WriteMaskFind, WriteMaskRead, ReadEnd,
         ReadEntry, ReadFails, ReadFaults, vars, shared

\* Only the lookups, and what frees the array under them, change their pointers.
LEMMA LookupFrame ==
  [Next]_vars => \/ \E w \in Writers : ClearList(w) \/ Create(w) \/ Add(w)
                 \/ \E l \in Lookers, a \in Addrs : MaskExists(l, a) \/ WriteMaskFind(l, a)
                 \/ \E l \in Lookers : WriteMaskRead(l)
                 \/ UNCHANGED looker
  BY DEF Next, WriterStep, LookerStep, ReaderStep, RejectBuffer, Pass1, Lock, AddDone,
         Unlock, FreeBuffer, ReadEnd, ReadEntry, ReadFails, ReadFaults, vars, looker

\* Only read_allowlist, and what replaces the array under it, changes what a
\* reader has collected.
LEMMA ReadFrame ==
  [Next]_vars => \/ \E w \in Writers : ClearList(w) \/ Create(w) \/ Add(w)
                 \/ \E r \in Readers : ReadEnd(r) \/ ReadEntry(r)
                 \/ UNCHANGED reader
  BY DEF Next, WriterStep, LookerStep, ReaderStep, RejectBuffer, Pass1, Lock, AddDone,
         Unlock, FreeBuffer, MaskExists, WriteMaskFind, WriteMaskRead, ReadFails,
         ReadFaults, vars, reader

\* allowlist_mutex is only ever taken by write_allowlist and read_allowlist tasks.
LEMMA MutexFrame ==
  [Next]_vars => allowlist_mutex' \in {allowlist_mutex, NULL} \cup Writers \cup Readers
  BY DEF Next, WriterStep, LookerStep, ReaderStep, ClearList, RejectBuffer, Pass1, Lock,
         Create, Add, AddDone, Unlock, FreeBuffer, MaskExists, WriteMaskFind,
         WriteMaskRead, ReadEnd, ReadEntry, ReadFails, ReadFaults, vars

\* Each step keeps allowlist_mutex and the labels of the handlers in agreement.
LEMMA MutexStep == TypeOK /\ MutexInv /\ [Next]_vars => MutexInv'
<1> SUFFICES ASSUME TypeOK, MutexInv, [Next]_vars PROVE MutexInv'
  OBVIOUS
<1>p. /\ pc \in [Tasks -> WriterLabels \cup {"deref", "dead"}]
      /\ allowlist_mutex \in Writers \cup Readers \cup {NULL}
  BY DEF TypeOK, CallTypeOK, HeapTypeOK
<1> USE <1>p, TasksDisjoint DEF MutexInv, WriterLabels, Tasks
<1>1. ASSUME NEW w \in Writers, ClearList(w) PROVE MutexInv'
  BY <1>1 DEF ClearList, delete_allowlist, Overtake, Freed
<1>2. ASSUME NEW w \in Writers, RejectBuffer(w) PROVE MutexInv'
  BY <1>2 DEF RejectBuffer, Return, Goto, shared, looker, reader
<1>3. ASSUME NEW w \in Writers, Pass1(w) PROVE MutexInv'
  <2>1. pc' = [pc EXCEPT ![w] = "lock"] \/ pc' = [pc EXCEPT ![w] = "free"]
    BY <1>3 DEF Pass1, Goto
  <2>2. pc[w] = "idle" /\ UNCHANGED allowlist_mutex
    BY <1>3 DEF Pass1
  <2> QED
    BY <2>1, <2>2
<1>4. ASSUME NEW w \in Writers, Lock(w) PROVE MutexInv'
  BY <1>4 DEF Lock, Goto, shared, writer, looker, reader
<1>5. ASSUME NEW w \in Writers, Create(w) PROVE MutexInv'
  <2>1. pc' = [pc EXCEPT ![w] = "add"] \/ pc' = [pc EXCEPT ![w] = "unlock"]
    BY <1>5 DEF Create, Goto
  <2>2. pc[w] = "create" /\ UNCHANGED allowlist_mutex
    BY <1>5 DEF Create
  <2> QED
    BY <2>1, <2>2
<1>6. ASSUME NEW w \in Writers, Add(w) PROVE MutexInv'
  <2>1. pc' = pc \/ pc' = [pc EXCEPT ![w] = "unlock"]
    BY <1>6 DEF Add, Duplicate, AddEntry, Goto
  <2>2. pc[w] = "add" /\ UNCHANGED allowlist_mutex
    BY <1>6 DEF Add
  <2> QED
    BY <2>1, <2>2
<1>7. ASSUME NEW w \in Writers, AddDone(w) PROVE MutexInv'
  BY <1>7 DEF AddDone, Return, Goto, shared, looker, reader
<1>8. ASSUME NEW w \in Writers, Unlock(w) PROVE MutexInv'
  BY <1>8 DEF Unlock, Goto, shared, writer, looker, reader
<1>9. ASSUME NEW w \in Writers, FreeBuffer(w) PROVE MutexInv'
  BY <1>9 DEF FreeBuffer, Goto, Return, shared, looker, reader
<1>10. ASSUME NEW l \in Lookers, NEW a \in Addrs, MaskExists(l, a) PROVE MutexInv'
  BY <1>10 DEF MaskExists, shared, writer, reader
<1>11. ASSUME NEW l \in Lookers, NEW a \in Addrs, WriteMaskFind(l, a) PROVE MutexInv'
  <2>1. pc' = pc \/ pc' = [pc EXCEPT ![l] = "deref"]
    BY <1>11 DEF WriteMaskFind, Goto
  <2>2. pc[l] = "idle" /\ UNCHANGED allowlist_mutex
    BY <1>11 DEF WriteMaskFind
  <2> QED
    BY <2>1, <2>2
<1>12. ASSUME NEW l \in Lookers, WriteMaskRead(l) PROVE MutexInv'
  BY <1>12 DEF WriteMaskRead, Goto, shared, writer, reader
<1>13. ASSUME NEW r \in Readers, ReadEnd(r) PROVE MutexInv'
  BY <1>13 DEF ReadEnd, CanRead, PastEnd, shared, writer, looker
<1>14. ASSUME NEW r \in Readers, ReadEntry(r) PROVE MutexInv'
  BY <1>14 DEF ReadEntry, CanRead, PastEnd, Advance, shared, writer, looker
<1>15. ASSUME NEW r \in Readers, ReadFails(r) PROVE MutexInv'
  BY <1>15 DEF ReadFails, vars, shared, writer, looker, reader
<1>16. ASSUME NEW r \in Readers, ReadFaults(r) PROVE MutexInv'
  BY <1>16 DEF ReadFaults, CanRead, PastEnd, Goto, shared, writer, looker, reader
<1>17. CASE UNCHANGED vars
  BY <1>17 DEF vars, shared, writer, looker, reader
<1> QED
  BY <1>1, <1>2, <1>3, <1>4, <1>5, <1>6, <1>7, <1>8, <1>9, <1>10, <1>11, <1>12,
     <1>13, <1>14, <1>15, <1>16, <1>17
     DEF Next, WriterStep, LookerStep, ReaderStep

\* Each step keeps the pointer of msr_allowlist_writemask and its label in agreement.
LEMMA LookerInvStep == TypeOK /\ MutexInv /\ LookerInv /\ [Next]_vars => LookerInv'
<1> SUFFICES ASSUME TypeOK, MutexInv, LookerInv, [Next]_vars PROVE LookerInv'
  OBVIOUS
<1>p. /\ pc \in [Tasks -> WriterLabels \cup {"deref", "dead"}]
      /\ allowlist_mutex \in Writers \cup Readers \cup {NULL}
  BY DEF TypeOK, CallTypeOK, HeapTypeOK
<1>q. /\ found \in [Lookers -> Pointers \cup {NULL}]
      /\ held \in [Lookers -> Contract!HeldType]
      /\ allowlist_hash \subseteq Pointers
  BY DEF TypeOK, LookupTypeOK, HeapTypeOK
<1> USE <1>p, <1>q, TasksDisjoint
   DEF MutexInv, WriterLabels, Tasks, LookerInv, Held, NotHeld, Contract!Held,
       Contract!NotHeld, Contract!Stale, Contract!HeldType, find_in_allowlist
<1>1. ASSUME NEW w \in Writers, ClearList(w) PROVE LookerInv'
  BY <1>1 DEF ClearList, delete_allowlist, Overtake, Freed
<1>2. ASSUME NEW w \in Writers, RejectBuffer(w) PROVE LookerInv'
  BY <1>2 DEF RejectBuffer, Return, Goto, shared, looker, reader
<1>3. ASSUME NEW w \in Writers, Pass1(w) PROVE LookerInv'
  BY <1>3 DEF Pass1, Return, Goto, shared, looker, reader
<1>4. ASSUME NEW w \in Writers, Lock(w) PROVE LookerInv'
  BY <1>4 DEF Lock, Goto, shared, writer, looker, reader
<1>5. ASSUME NEW w \in Writers, Create(w) PROVE LookerInv'
  BY <1>5 DEF Create, create_allowlist, Allocate, Overtake, Freed, Goto, Return
<1>6. ASSUME NEW w \in Writers, Add(w) PROVE LookerInv'
  <2>1. /\ pc' = pc \/ pc' = [pc EXCEPT ![w] = "unlock"]
        /\ held' = held \/ held' = Contract!Stale(held)
        /\ found' = found
    BY <1>6 DEF Add, Duplicate, AddEntry, Goto, delete_allowlist, Overtake
  <2>2. w \notin Lookers
    OBVIOUS
  <2> QED
    BY <2>1, <2>2
<1>7. ASSUME NEW w \in Writers, AddDone(w) PROVE LookerInv'
  BY <1>7 DEF AddDone, Return, Goto, shared, looker, reader
<1>8. ASSUME NEW w \in Writers, Unlock(w) PROVE LookerInv'
  BY <1>8 DEF Unlock, Goto, shared, writer, looker, reader
<1>9. ASSUME NEW w \in Writers, FreeBuffer(w) PROVE LookerInv'
  BY <1>9 DEF FreeBuffer, Goto, Return, shared, looker, reader
<1>10. ASSUME NEW l \in Lookers, NEW a \in Addrs, MaskExists(l, a) PROVE LookerInv'
  BY <1>10 DEF MaskExists, shared, writer, reader
<1>11. ASSUME NEW l \in Lookers, NEW a \in Addrs, WriteMaskFind(l, a) PROVE LookerInv'
  BY <1>11 DEF WriteMaskFind, Goto, shared, writer, reader
<1>12. ASSUME NEW l \in Lookers, WriteMaskRead(l) PROVE LookerInv'
  BY <1>12 DEF WriteMaskRead, Goto, shared, writer, reader
<1>13. ASSUME NEW r \in Readers, ReadEnd(r) PROVE LookerInv'
  BY <1>13 DEF ReadEnd, CanRead, PastEnd, shared, writer, looker
<1>14. ASSUME NEW r \in Readers, ReadEntry(r) PROVE LookerInv'
  BY <1>14 DEF ReadEntry, CanRead, PastEnd, Advance, shared, writer, looker
<1>15. ASSUME NEW r \in Readers, ReadFails(r) PROVE LookerInv'
  BY <1>15 DEF ReadFails, vars, shared, writer, looker, reader
<1>16. ASSUME NEW r \in Readers, ReadFaults(r) PROVE LookerInv'
  BY <1>16 DEF ReadFaults, CanRead, PastEnd, Goto, shared, writer, looker, reader
<1>17. CASE UNCHANGED vars
  BY <1>17 DEF vars, shared, writer, looker, reader
<1> QED
  BY <1>1, <1>2, <1>3, <1>4, <1>5, <1>6, <1>7, <1>8, <1>9, <1>10, <1>11, <1>12,
     <1>13, <1>14, <1>15, <1>16, <1>17
     DEF Next, WriterStep, LookerStep, ReaderStep

\* Each step keeps the array under construction a prefix of the writer's buffer:
\* nobody else writes it while pass 2 of write_allowlist holds the mutex.
LEMMA BuildStep == TypeOK /\ MutexInv /\ BuildInv /\ [Next]_vars => BuildInv'
<1> SUFFICES ASSUME TypeOK, MutexInv, BuildInv, [Next]_vars PROVE BuildInv'
  OBVIOUS
<1>p. /\ pc \in [Tasks -> WriterLabels \cup {"deref", "dead"}]
      /\ allowlist_mutex \in Writers \cup Readers \cup {NULL}
  BY DEF TypeOK, CallTypeOK, HeapTypeOK
<1>q. /\ \A w \in Writers : Len(kbuf[w].entries) \in 0 .. MaxEntries
      /\ kbuf \in [Writers -> Buffer]
      /\ next \in [Writers -> 1 .. MaxEntries + 1]
      /\ allowlist \in Blocks \cup {NULL}
      /\ mem \in [Blocks -> [Index -> Entry]]
  BY DEF TypeOK, HeapTypeOK, CallTypeOK, Buffer
<1> USE <1>p, <1>q, TasksDisjoint, MemoryAssumption
   DEF MutexInv, WriterLabels, Tasks, BuildInv, Index
<1>1. ASSUME NEW w \in Writers, ClearList(w) PROVE BuildInv'
  BY <1>1 DEF ClearList, delete_allowlist, Overtake, Freed
<1>2. ASSUME NEW w \in Writers, RejectBuffer(w) PROVE BuildInv'
  BY <1>2 DEF RejectBuffer, Return, Goto, shared, looker, reader
<1>3. ASSUME NEW w \in Writers, Pass1(w) PROVE BuildInv'
  <2>1. pc' = [pc EXCEPT ![w] = "lock"] \/ pc' = [pc EXCEPT ![w] = "free"]
    BY <1>3 DEF Pass1, Goto
  <2>2. \A v \in Writers \ {w} : kbuf'[v] = kbuf[v]
    BY <1>3 DEF Pass1
  <2>3. UNCHANGED <<shared, next>>
    BY <1>3 DEF Pass1
  <2>4. \A v \in Writers : pc'[v] = "add" => v # w /\ pc[v] = "add"
    BY <2>1
  <2> QED
    BY <2>2, <2>3, <2>4 DEF shared
<1>4. ASSUME NEW w \in Writers, Lock(w) PROVE BuildInv'
  BY <1>4 DEF Lock, Goto, shared, writer, looker, reader
<1>5. ASSUME NEW w \in Writers, Create(w) PROVE BuildInv'
  BY <1>5 DEF Create, create_allowlist, Allocate, Overtake, Freed, Goto, Return
<1>6. ASSUME NEW w \in Writers, Add(w) PROVE BuildInv'
  <2>1. CASE Duplicate(w)
    BY <1>6, <2>1 DEF Add, Duplicate, Goto
  <2>2. CASE AddEntry(w, kbuf[w].entries[next[w]])
    <3>1. pc[w] = "add" /\ next[w] <= Len(kbuf[w].entries) /\ kbuf' = kbuf
      BY <1>6 DEF Add
    <3>2. \A v \in Writers : pc'[v] = "add" => v = w
      BY <3>1, <2>2 DEF AddEntry
    <3>3. /\ allowlist' = allowlist
          /\ next'[w] = next[w] + 1
          /\ allowlist_numentries' = allowlist_numentries
      BY <2>2 DEF AddEntry
    <3>4. mem' = [mem EXCEPT ![allowlist] =
                 [mem[allowlist] EXCEPT ![next[w]] = kbuf[w].entries[next[w]]]]
      BY <2>2 DEF AddEntry
    <3>5. allowlist \in Blocks /\ mem[allowlist] \in [Index -> Entry] /\ next[w] \in Index
      BY <3>1
    <3>6. mem'[allowlist] = [mem[allowlist] EXCEPT ![next[w]] = kbuf[w].entries[next[w]]]
      BY <3>4, <3>5
    <3>7. \A i \in 1 .. next[w] : mem'[allowlist][i] = kbuf[w].entries[i]
      BY <3>1, <3>5, <3>6
    <3> QED
      BY <3>1, <3>2, <3>3, <3>7
  <2> QED
    BY <1>6, <2>1, <2>2 DEF Add
<1>7. ASSUME NEW w \in Writers, AddDone(w) PROVE BuildInv'
  BY <1>7 DEF AddDone, Return, Goto, shared, looker, reader
<1>8. ASSUME NEW w \in Writers, Unlock(w) PROVE BuildInv'
  BY <1>8 DEF Unlock, Goto, shared, writer, looker, reader
<1>9. ASSUME NEW w \in Writers, FreeBuffer(w) PROVE BuildInv'
  BY <1>9 DEF FreeBuffer, Goto, Return, shared, looker, reader
<1>10. ASSUME NEW l \in Lookers, NEW a \in Addrs, MaskExists(l, a) PROVE BuildInv'
  BY <1>10 DEF MaskExists, shared, writer, reader
<1>11. ASSUME NEW l \in Lookers, NEW a \in Addrs, WriteMaskFind(l, a) PROVE BuildInv'
  BY <1>11 DEF WriteMaskFind, Goto, shared, writer, reader
<1>12. ASSUME NEW l \in Lookers, WriteMaskRead(l) PROVE BuildInv'
  BY <1>12 DEF WriteMaskRead, Goto, shared, writer, reader
<1>13. ASSUME NEW r \in Readers, ReadEnd(r) PROVE BuildInv'
  BY <1>13 DEF ReadEnd, CanRead, PastEnd, shared, writer, looker
<1>14. ASSUME NEW r \in Readers, ReadEntry(r) PROVE BuildInv'
  BY <1>14 DEF ReadEntry, CanRead, PastEnd, Advance, shared, writer, looker
<1>15. ASSUME NEW r \in Readers, ReadFails(r) PROVE BuildInv'
  BY <1>15 DEF ReadFails, vars, shared, writer, looker, reader
<1>16. ASSUME NEW r \in Readers, ReadFaults(r) PROVE BuildInv'
  BY <1>16 DEF ReadFaults, CanRead, PastEnd, Goto, shared, writer, looker, reader
<1>17. CASE UNCHANGED vars
  BY <1>17 DEF vars, shared, writer, looker, reader
<1> QED
  BY <1>1, <1>2, <1>3, <1>4, <1>5, <1>6, <1>7, <1>8, <1>9, <1>10, <1>11, <1>12,
     <1>13, <1>14, <1>15, <1>16, <1>17
     DEF Next, WriterStep, LookerStep, ReaderStep

\* Each step frees an array exactly when it is replaced: create_allowlist begins
\* with delete_allowlist.
LEMMA NoLeakStep == TypeOK /\ MutexInv /\ BuildInv /\ NoLeak /\ [Next]_vars => NoLeak'
<1> SUFFICES ASSUME TypeOK, MutexInv, BuildInv, NoLeak, [Next]_vars PROVE NoLeak'
  OBVIOUS
<1> USE MemoryAssumption DEF TypeOK, HeapTypeOK, NoLeak, BuildInv
<1>1. ASSUME NEW w \in Writers, ClearList(w) PROVE NoLeak'
  BY <1>1 DEF ClearList, delete_allowlist, Overtake, Freed
<1>2. ASSUME NEW w \in Writers, Create(w) PROVE NoLeak'
  BY <1>2 DEF Create, create_allowlist, Allocate, Overtake, Freed, Goto, Return
<1>3. ASSUME NEW w \in Writers, Add(w) PROVE NoLeak'
  BY <1>3
     DEF Add, Duplicate, AddEntry, delete_allowlist, Overtake, Freed, Goto, Return
<1>4. CASE UNCHANGED <<shared>>
  BY <1>4 DEF shared
<1> QED
  BY <1>1, <1>2, <1>3, <1>4, HeapFrame

\* The array, its count and the hash table keep their types: pass 2 writes inside the
\* array, because the buffer holds no more entries than pass 1 counted.
LEMMA HeapTypeStep == TypeOK /\ BuildInv /\ [Next]_vars => HeapTypeOK'
<1> SUFFICES ASSUME TypeOK, BuildInv, [Next]_vars PROVE HeapTypeOK'
  OBVIOUS
<1>q. /\ HeapTypeOK
      /\ kbuf \in [Writers -> Buffer]
      /\ next \in [Writers -> 1 .. MaxEntries + 1]
       /\ \A w \in Writers : /\ kbuf[w].entries \in Seq(Entry)
                            /\ Len(kbuf[w].entries) \in 0 .. MaxEntries
  BY MemoryAssumption DEF TypeOK, CallTypeOK, Buffer
<1>z. Zeroed \in [Index -> Entry]
  BY MemoryAssumption DEF Zeroed, Entry, Masks
<1> USE <1>q, <1>z, MemoryAssumption DEF HeapTypeOK, Index, Pointers
<1>1. ASSUME NEW w \in Writers, ClearList(w) PROVE HeapTypeOK'
  BY <1>1 DEF ClearList, delete_allowlist, Overtake, Freed
<1>2. ASSUME NEW w \in Writers, Create(w) PROVE HeapTypeOK'
  BY <1>2 DEF Create, create_allowlist, Allocate, Overtake, Freed, Goto, Return
<1>3. ASSUME NEW w \in Writers, Add(w) PROVE HeapTypeOK'
  <2>1. CASE Duplicate(w)
    BY <1>3, <2>1 DEF Add, Duplicate, delete_allowlist, Freed
  <2>2. CASE AddEntry(w, kbuf[w].entries[next[w]])
    <3>1. /\ pc[w] = "add"
          /\ next[w] <= Len(kbuf[w].entries)
          /\ allowlist_mutex' = allowlist_mutex
      BY <1>3 DEF Add
    <3>2. allowlist \in Blocks /\ next[w] \in Index /\ kbuf[w].entries[next[w]] \in Entry
      BY <3>1 DEF BuildInv
    <3> QED
      BY <3>1, <3>2, <2>2 DEF AddEntry
  <2> QED
    BY <1>3, <2>1, <2>2 DEF Add
<1>4. CASE UNCHANGED shared
  <2>1. allowlist_mutex' \in Writers \cup Readers \cup {NULL}
    BY MutexFrame
  <2> QED
    BY <1>4, <2>1 DEF shared
<1> QED
  BY <1>1, <1>2, <1>3, <1>4, HeapFrame

\* The locals of write_allowlist keep their types.
LEMMA CallTypeStep == TypeOK /\ MutexInv /\ [Next]_vars => CallTypeOK'
<1> SUFFICES ASSUME TypeOK, MutexInv, [Next]_vars PROVE CallTypeOK'
  OBVIOUS
<1>q. /\ CallTypeOK /\ NoBuffer \in Buffer
      /\ \A w \in Writers : Len(kbuf[w].entries) \in 0 .. MaxEntries
  BY MemoryAssumption DEF TypeOK, CallTypeOK, Buffer, NoBuffer, Tails
<1>i. \A in \in Inputs : in \in Buffer /\ in.tail \in Tails
  BY InputsAssumption DEF Buffer
<1> USE <1>q, <1>i, MemoryAssumption, TasksDisjoint
   DEF CallTypeOK, Tasks, WriterLabels, Results, Tails
<1>1. ASSUME NEW w \in Writers, ClearList(w) PROVE CallTypeOK'
  BY <1>1 DEF ClearList, delete_allowlist, Overtake, Freed
<1>2. ASSUME NEW w \in Writers, RejectBuffer(w) PROVE CallTypeOK'
  BY <1>2 DEF RejectBuffer, Return, Goto, shared, looker, reader
<1>3. ASSUME NEW w \in Writers, Pass1(w) PROVE CallTypeOK'
  <2>1. PICK in \in Inputs :
          \/ kbuf' = [kbuf EXCEPT ![w] = in] /\ pc' = [pc EXCEPT ![w] = "lock"] /\ ret' = ret
          \/ \E e \in Tails \cup {"ENOMSG"} :
               kbuf' = kbuf /\ pc' = [pc EXCEPT ![w] = "free"] /\ ret' = [ret EXCEPT ![w] = e]
    BY <1>3 DEF Pass1, Return, Goto
  <2>2. next' = next
    BY <1>3 DEF Pass1
  <2>3. in \in Buffer /\ w \in Tasks
    BY DEF Tasks
  <2>4. kbuf' \in [Writers -> Buffer]
    BY <2>1, <2>3
  <2>5. ret' \in [Writers -> Results]
    BY <2>1
  <2>6. pc' \in [Tasks -> WriterLabels \cup {"deref", "dead"}]
    BY <2>1, <2>3
  <2> QED
    BY <2>2, <2>4, <2>5, <2>6
<1>4. ASSUME NEW w \in Writers, Lock(w) PROVE CallTypeOK'
  BY <1>4 DEF Lock, Goto, shared, writer, looker, reader
<1>5. ASSUME NEW w \in Writers, Create(w) PROVE CallTypeOK'
  <2>1. /\ pc' = [pc EXCEPT ![w] = "unlock"] \/ pc' = [pc EXCEPT ![w] = "add"]
        /\ ret' = [ret EXCEPT ![w] = "ENOMEM"] \/ ret' = ret
    BY <1>5 DEF Create, Return, Goto
  <2>2. kbuf' = kbuf /\ next' = [next EXCEPT ![w] = 1]
    BY <1>5 DEF Create
  <2> QED
    BY <2>1, <2>2, SMTT(20)
<1>6. ASSUME NEW w \in Writers, Add(w) PROVE CallTypeOK'
  <2>1. next[w] + 1 \in 1 .. MaxEntries + 1
    BY <1>6 DEF Add
  <2>2. /\ pc' = pc \/ pc' = [pc EXCEPT ![w] = "unlock"]
        /\ ret' = ret \/ ret' = [ret EXCEPT ![w] = "ENOTUNIQ"]
        /\ next' = next \/ next' = [next EXCEPT ![w] = next[w] + 1]
        /\ kbuf' = kbuf
    BY <1>6 DEF Add, Duplicate, AddEntry, Goto, Return
  <2> QED
    BY <2>1, <2>2, SMTT(20)
<1>7. ASSUME NEW w \in Writers, AddDone(w) PROVE CallTypeOK'
  BY <1>7 DEF AddDone, Return, Goto, shared, looker, reader
<1>8. ASSUME NEW w \in Writers, Unlock(w) PROVE CallTypeOK'
  BY <1>8 DEF Unlock, Goto, shared, writer, looker, reader
<1>9. ASSUME NEW w \in Writers, FreeBuffer(w) PROVE CallTypeOK'
  BY <1>9 DEF FreeBuffer, Goto, Return, shared, looker, reader
<1>10. ASSUME NEW l \in Lookers, NEW a \in Addrs, MaskExists(l, a) PROVE CallTypeOK'
  BY <1>10 DEF MaskExists, shared, writer, reader
<1>11. ASSUME NEW l \in Lookers, NEW a \in Addrs, WriteMaskFind(l, a) PROVE CallTypeOK'
  BY <1>11 DEF WriteMaskFind, Goto, shared, writer, reader
<1>12. ASSUME NEW l \in Lookers, WriteMaskRead(l) PROVE CallTypeOK'
  BY <1>12 DEF WriteMaskRead, Goto, shared, writer, reader
<1>13. ASSUME NEW r \in Readers, ReadEnd(r) PROVE CallTypeOK'
  BY <1>13 DEF ReadEnd, CanRead, PastEnd, shared, writer, looker
<1>14. ASSUME NEW r \in Readers, ReadEntry(r) PROVE CallTypeOK'
  BY <1>14 DEF ReadEntry, CanRead, PastEnd, Advance, shared, writer, looker
<1>15. ASSUME NEW r \in Readers, ReadFails(r) PROVE CallTypeOK'
  BY <1>15 DEF ReadFails, vars, shared, writer, looker, reader
<1>16. ASSUME NEW r \in Readers, ReadFaults(r) PROVE CallTypeOK'
  BY <1>16 DEF ReadFaults, CanRead, PastEnd, Goto, shared, writer, looker, reader
<1>17. CASE UNCHANGED vars
  BY <1>17 DEF vars, shared, writer, looker, reader
<1> QED
  BY <1>1, <1>2, <1>3, <1>4, <1>5, <1>6, <1>7, <1>8, <1>9, <1>10, <1>11, <1>12,
     <1>13, <1>14, <1>15, <1>16, <1>17
     DEF Next, WriterStep, LookerStep, ReaderStep

\* What the lookups found and what they return keep their types.
LEMMA LookupTypeStep ==
  TypeOK /\ MutexInv /\ LookerInv /\ [Next]_vars
    => LookupTypeOK'
<1> SUFFICES ASSUME TypeOK, MutexInv, LookerInv, [Next]_vars PROVE LookupTypeOK'
  OBVIOUS
<1>q. /\ LookupTypeOK
      /\ mem \in [Blocks -> [Index -> Entry]]
      /\ allowlist_hash \subseteq Pointers
  BY DEF TypeOK, HeapTypeOK
<1> USE <1>q
   DEF LookupTypeOK, Contract!Stale, Contract!HeldType, Contract!Answer,
       Contract!Masks, Contract!Present, Contract!Mask, Held, NotHeld,
       Contract!Held, Contract!NotHeld
<1>1. ASSUME NEW w \in Writers, ClearList(w) PROVE LookupTypeOK'
  BY <1>1 DEF ClearList, delete_allowlist, Overtake, Freed
<1>2. ASSUME NEW w \in Writers, Create(w) PROVE LookupTypeOK'
  BY <1>2 DEF Create, create_allowlist, Allocate, Overtake, Freed, Goto, Return
<1>3. ASSUME NEW w \in Writers, Add(w) PROVE LookupTypeOK'
  <2>1. /\ held' = held \/ held' = Contract!Stale(held)
        /\ found' = found /\ ans' = ans
    BY <1>3 DEF Add, Duplicate, AddEntry, delete_allowlist, Overtake
  <2>2. CASE held' = held
    BY <2>1, <2>2
  <2>3. CASE held' = Contract!Stale(held)
    <3>1. held' \in [Lookers -> Contract!HeldType]
      BY <2>3
    <3> QED
      BY <2>1, <3>1
  <2> QED
    BY <2>1, <2>2, <2>3
<1>4. ASSUME NEW l \in Lookers, NEW a \in Addrs, MaskExists(l, a) PROVE LookupTypeOK'
  BY <1>4 DEF MaskExists, shared, writer, reader
<1>5. ASSUME NEW l \in Lookers, NEW a \in Addrs, WriteMaskFind(l, a) PROVE LookupTypeOK'
  <2>1. CASE find_in_allowlist(a) = {}
    <3>1. ans' = [ans EXCEPT ![l] = Contract!Mask({})] /\ found' = found /\ held' = held
      BY <1>5, <2>1 DEF WriteMaskFind
    <3>2. {} \in SUBSET Bits
      OBVIOUS
    <3> QED
      BY <3>1, <3>2
  <2>2. CASE find_in_allowlist(a) # {}
    <3>1. PICK p \in find_in_allowlist(a) :
            /\ found' = [found EXCEPT ![l] = p]
            /\ held' = [held EXCEPT ![l] = Held(At(p).wmask)]
            /\ ans' = ans
      BY <1>5, <2>2 DEF WriteMaskFind
    <3>2. p \in Pointers
      BY DEF find_in_allowlist
    <3>3. At(p).wmask \in Masks
      BY <3>2 DEF Pointers, At, Entry
    <3> QED
      BY <3>1, <3>2, <3>3 DEF Masks
  <2> QED
    BY <2>1, <2>2
<1>6. ASSUME NEW l \in Lookers, WriteMaskRead(l) PROVE LookupTypeOK'
  <2>1. found[l] \in Pointers
    BY <1>6 DEF WriteMaskRead, LookerInv
  <2>2. At(found[l]).wmask \in Masks
    BY <2>1 DEF Pointers, At, Entry
  <2>3. PICK m \in Masks : ans' = [ans EXCEPT ![l] = Contract!Mask(m)]
    BY <1>6, <2>2 DEF WriteMaskRead
  <2>4. held' = [held EXCEPT ![l] = NotHeld] /\ found' = [found EXCEPT ![l] = NULL]
    BY <1>6 DEF WriteMaskRead
  <2> QED
    BY <2>3, <2>4 DEF Masks
<1>7. CASE UNCHANGED <<looker>>
  BY <1>7 DEF looker
<1> QED
  BY <1>1, <1>2, <1>3, <1>4, <1>5, <1>6, <1>7, LookupFrame

\* The file position of read_allowlist stays inside the list it has read from.
LEMMA ReadTypeStep == TypeOK /\ [Next]_vars => ReadTypeOK'
<1> SUFFICES ASSUME TypeOK, [Next]_vars PROVE ReadTypeOK'
  OBVIOUS
<1>q. ReadTypeOK
  BY DEF TypeOK
<1> USE <1>q DEF ReadTypeOK, Unread, Torn
<1>1. ASSUME NEW w \in Writers, ClearList(w) PROVE ReadTypeOK'
  BY <1>1 DEF ClearList, delete_allowlist, Overtake, Freed
<1>2. ASSUME NEW w \in Writers, Create(w) PROVE ReadTypeOK'
  BY <1>2 DEF Create, create_allowlist, Allocate, Overtake, Freed, Goto, Return
<1>3. ASSUME NEW w \in Writers, Add(w) PROVE ReadTypeOK'
  <2>1. fpos' = fpos /\ (listing' = listing \/ listing' = [r \in Readers |-> Torn])
    BY <1>3 DEF Add, Duplicate, AddEntry, delete_allowlist, Overtake
  <2>2. Torn \in [torn : BOOLEAN, lines : Seq(Entry)]
    OBVIOUS
  <2> HIDE DEF Torn
  <2> QED
    BY <2>1, <2>2
<1>4. ASSUME NEW r \in Readers, ReadEnd(r) PROVE ReadTypeOK'
  <2>1. <<>> \in Seq(Entry)
    OBVIOUS
  <2> QED
    BY <1>4, <2>1, MemoryAssumption DEF ReadEnd
<1>5. ASSUME NEW r \in Readers, ReadEntry(r) PROVE ReadTypeOK'
  <2> DEFINE e == mem[allowlist][fpos[r] + 1]
             before == IF fpos[r] = 0 THEN Unread ELSE listing[r]
             after == IF before.torn THEN Torn
                      ELSE [torn |-> FALSE, lines |-> Append(before.lines, e)]
  <2>1. /\ fpos' = [fpos EXCEPT ![r] = fpos[r] + 1]
        /\ listing' = [listing EXCEPT ![r] = after]
    BY <1>5 DEF ReadEntry, Advance
  <2>p. allowlist_numentries \in 0 .. MaxEntries /\ allowlist \in Blocks \cup {NULL}
    BY DEF TypeOK, HeapTypeOK
  <2>f. fpos[r] \in 0 .. MaxEntries
    OBVIOUS
  <2>g. allowlist # NULL /\ ~(fpos[r] >= allowlist_numentries)
    BY <1>5 DEF ReadEntry, PastEnd
  <2>2. fpos[r] + 1 \in Index /\ allowlist \in Blocks
    BY <2>p, <2>f, <2>g, MemoryAssumption DEF Index
  <2>3. e \in Entry
    BY <2>2 DEF TypeOK, HeapTypeOK
  <2>4. /\ <<>> \in Seq(Entry)
        /\ listing[r].lines \in Seq(Entry)
        /\ listing[r].torn \in BOOLEAN
    OBVIOUS
  <2>5. before.lines \in Seq(Entry) /\ before.torn \in BOOLEAN
    BY <2>4
  <2>6. Append(before.lines, e) \in Seq(Entry)
    BY <2>3, <2>5
  <2>7. after \in [torn : BOOLEAN, lines : Seq(Entry)]
    BY <2>4, <2>6
  <2> HIDE DEF e, before, after
  <2> QED
    BY <2>1, <2>2, <2>7, MemoryAssumption DEF Index
<1>6. CASE UNCHANGED <<reader>>
  BY <1>6 DEF reader
<1> QED
  BY <1>1, <1>2, <1>3, <1>4, <1>5, <1>6, ReadFrame

\* The hash table stays the array: add_to_allowlist links what pass 2 has just
\* written, which find_in_allowlist did not find.
LEMMA HashStep ==
  TypeOK /\ MutexInv /\ BuildInv /\ NoLeak /\ HashIsArray /\ [Next]_vars
    => HashIsArray'
<1> SUFFICES ASSUME TypeOK, MutexInv, BuildInv, NoLeak, HashIsArray, [Next]_vars
             PROVE  HashIsArray'
  OBVIOUS
<1>p. /\ pc \in [Tasks -> WriterLabels \cup {"deref", "dead"}]
      /\ allowlist_mutex \in Writers \cup Readers \cup {NULL}
  BY DEF TypeOK, CallTypeOK, HeapTypeOK
<1>q. /\ allowlist \in Blocks \cup {NULL} /\ allowlist_numentries \in 0 .. MaxEntries
      /\ next \in [Writers -> 1 .. MaxEntries + 1]
      /\ mem \in [Blocks -> [Index -> Entry]]
      /\ \A w \in Writers : Len(kbuf[w].entries) \in 0 .. MaxEntries
  BY DEF TypeOK, CallTypeOK, HeapTypeOK, Buffer
<1> USE <1>p, <1>q, TasksDisjoint, MemoryAssumption
   DEF MutexInv, HashIsArray, Filled, WriterLabels, Tasks, At
<1>1. ASSUME NEW w \in Writers, ClearList(w) PROVE HashIsArray'
  BY <1>1 DEF ClearList, delete_allowlist, Overtake, Freed
<1>2. ASSUME NEW w \in Writers, RejectBuffer(w) PROVE HashIsArray'
  BY <1>2 DEF RejectBuffer, Return, Goto, shared, looker, reader
<1>3. ASSUME NEW w \in Writers, Pass1(w) PROVE HashIsArray'
  BY <1>3 DEF Pass1, Return, Goto, shared, looker, reader
<1>4. ASSUME NEW w \in Writers, Lock(w) PROVE HashIsArray'
  BY <1>4 DEF Lock, Goto, shared, writer, looker, reader
<1>5. ASSUME NEW w \in Writers, Create(w) PROVE HashIsArray'
  BY <1>5 DEF Create, create_allowlist, Allocate, Overtake, Freed, Goto, Return
<1>6. ASSUME NEW w \in Writers, Add(w) PROVE HashIsArray'
  <2> DEFINE e == kbuf[w].entries[next[w]]
  <2>1. CASE Duplicate(w)
    BY <2>1 DEF Duplicate, delete_allowlist
  <2>2. CASE AddEntry(w, e) /\ find_in_allowlist(e.msr) = {}
    <3>1. /\ pc[w] = "add"
          /\ allowlist_mutex = w
          /\ next[w] \in Index
          /\ allowlist_mutex' = w
      BY <1>6 DEF Add, Index
    <3>2. /\ allowlist' = allowlist /\ live' = live /\ pc' = pc
          /\ allowlist_hash' = allowlist_hash \cup {<<allowlist, next[w]>>}
          /\ next'[w] = next[w] + 1
      BY <2>2 DEF AddEntry
    <3>3. Filled = next[w] - 1 /\ Filled' = next[w]
      BY <3>1, <3>2
    <3>4. /\ allowlist \in Blocks
          /\ allowlist \in live
          /\ allowlist_hash = {allowlist} \X (1 .. next[w] - 1)
      BY <3>1, <3>3 DEF BuildInv
    <3>5. allowlist_hash' = {allowlist} \X (1 .. next[w])
      BY <3>2, <3>4, <3>1 DEF Index
    <3>6. \A p \in allowlist_hash : At(p).msr # e.msr
      BY <2>2, <3>4 DEF find_in_allowlist
    <3>7. /\ mem'[allowlist][next[w]] = e
          /\ \A i \in 1 .. next[w] - 1 : mem'[allowlist][i] = mem[allowlist][i]
      <4>1. mem' = [mem EXCEPT ![allowlist] = [mem[allowlist] EXCEPT ![next[w]] = e]]
        BY <2>2 DEF AddEntry
      <4>2. mem'[allowlist] = [mem[allowlist] EXCEPT ![next[w]] = e]
        BY <4>1, <3>4
      <4>3. mem[allowlist] \in [Index -> Entry]
        BY <3>4
      <4> QED
        BY <4>2, <4>3, <3>1 DEF Index
    <3>8. \A i, j \in 1 .. next[w] : mem'[allowlist][i].msr = mem'[allowlist][j].msr => i = j
      <4>1. \A i \in 1 .. next[w] - 1 : mem[allowlist][i].msr # e.msr
        <5> TAKE i \in 1 .. next[w] - 1
        <5>1. <<allowlist, i>> \in allowlist_hash
          BY <3>4
        <5>2. At(<<allowlist, i>>).msr # e.msr
          BY <5>1, <3>6
        <5> QED
          BY <5>2
      <4>2. \A i, j \in 1 .. next[w] - 1 : mem[allowlist][i].msr = mem[allowlist][j].msr => i = j
        <5> TAKE i, j \in 1 .. next[w] - 1
        <5>1. <<allowlist, i>> \in allowlist_hash /\ <<allowlist, j>> \in allowlist_hash
          BY <3>4
        <5>2. At(<<allowlist, i>>).msr = At(<<allowlist, j>>).msr =>
                <<allowlist, i>> = <<allowlist, j>>
          BY <5>1, <3>4
        <5> QED
          BY <5>2
      <4>3. next[w] \in Nat
        BY <3>1 DEF Index
      <4> HIDE DEF e
      <4> QED
        BY <4>1, <4>2, <4>3, <3>7
    <3>9. \A p, q \in allowlist_hash' : At(p)'.msr = At(q)'.msr => p = q
      BY <3>5, <3>8, <3>2
    <3> QED
      BY <3>2, <3>3, <3>4, <3>5, <3>9
  <2>3. find_in_allowlist(e.msr) # {} => Duplicate(w)
    BY <1>6 DEF Add
  <2>4. find_in_allowlist(e.msr) = {} => AddEntry(w, e)
    BY <1>6 DEF Add
  <2> QED
    BY <2>1, <2>2, <2>3, <2>4
<1>7. ASSUME NEW w \in Writers, AddDone(w) PROVE HashIsArray'
  <2>1. pc[w] = "add" /\ allowlist_mutex = w /\ pc'[w] = "unlock" /\ allowlist_mutex' = w
    BY <1>7 DEF AddDone, Goto
  <2>2. Filled = next[w] - 1 /\ Filled' = allowlist_numentries'
    BY <2>1
  <2>3. UNCHANGED <<allowlist, allowlist_numentries, allowlist_hash, live, mem>>
    BY <1>7 DEF AddDone, shared
  <2>4. next[w] > Len(kbuf[w].entries)
    BY <1>7 DEF AddDone
  <2>5. next[w] <= Len(kbuf[w].entries) + 1 /\ allowlist_numentries = Len(kbuf[w].entries)
    BY <2>1 DEF BuildInv
  <2>6. Filled' = Filled
    BY <2>2, <2>3, <2>4, <2>5
  <2> QED
    BY <2>3, <2>6 DEF At
<1>8. ASSUME NEW w \in Writers, Unlock(w) PROVE HashIsArray'
  BY <1>8 DEF Unlock, Goto, shared, writer, looker, reader
<1>9. ASSUME NEW w \in Writers, FreeBuffer(w) PROVE HashIsArray'
  BY <1>9 DEF FreeBuffer, Goto, Return, shared, looker, reader
<1>10. ASSUME NEW l \in Lookers, NEW a \in Addrs, MaskExists(l, a) PROVE HashIsArray'
  BY <1>10 DEF MaskExists, shared, writer, reader
<1>11. ASSUME NEW l \in Lookers, NEW a \in Addrs, WriteMaskFind(l, a) PROVE HashIsArray'
  BY <1>11 DEF WriteMaskFind, Goto, shared, writer, reader
<1>12. ASSUME NEW l \in Lookers, WriteMaskRead(l) PROVE HashIsArray'
  BY <1>12 DEF WriteMaskRead, Goto, shared, writer, reader
<1>13. ASSUME NEW r \in Readers, ReadEnd(r) PROVE HashIsArray'
  BY <1>13 DEF ReadEnd, CanRead, PastEnd, shared, writer, looker
<1>14. ASSUME NEW r \in Readers, ReadEntry(r) PROVE HashIsArray'
  BY <1>14 DEF ReadEntry, CanRead, PastEnd, Advance, shared, writer, looker
<1>15. ASSUME NEW r \in Readers, ReadFails(r) PROVE HashIsArray'
  BY <1>15 DEF ReadFails, vars, shared, writer, looker, reader
<1>16. ASSUME NEW r \in Readers, ReadFaults(r) PROVE HashIsArray'
  BY <1>16 DEF ReadFaults, CanRead, PastEnd, Goto, shared, writer, looker, reader
<1>17. CASE UNCHANGED vars
  BY <1>17 DEF vars, shared, writer, looker, reader
<1> QED
  BY <1>1, <1>2, <1>3, <1>4, <1>5, <1>6, <1>7, <1>8, <1>9, <1>10, <1>11, <1>12,
     <1>13, <1>14, <1>15, <1>16, <1>17
     DEF Next, WriterStep, LookerStep, ReaderStep

\* The entry of a lookup is neither freed nor overwritten until the list is replaced.
LEMMA UnraceyStep ==
  TypeOK /\ MutexInv /\ LookerInv /\ BuildInv /\ HashIsArray /\ UnraceyLookup /\ [Next]_vars
    => UnraceyLookup'
<1> SUFFICES ASSUME TypeOK, MutexInv, LookerInv, BuildInv, HashIsArray, UnraceyLookup, [Next]_vars
             PROVE  UnraceyLookup'
  OBVIOUS
<1>p. /\ pc \in [Tasks -> WriterLabels \cup {"deref", "dead"}]
      /\ allowlist_mutex \in Writers \cup Readers \cup {NULL}
  BY DEF TypeOK, CallTypeOK, HeapTypeOK
<1>q. /\ allowlist \in Blocks \cup {NULL}
      /\ held \in [Lookers -> Contract!HeldType] /\ found \in [Lookers -> Pointers \cup {NULL}]
      /\ mem \in [Blocks -> [Index -> Entry]]
  BY DEF TypeOK, LookupTypeOK, HeapTypeOK
<1> USE <1>p, <1>q, TasksDisjoint, MemoryAssumption
   DEF MutexInv, LookerInv, UnraceyLookup, Tasks, At, Contract!Stale, Held,
       NotHeld, Contract!Held, Contract!NotHeld, Contract!HeldType,
       find_in_allowlist
<1>1. ASSUME NEW w \in Writers, ClearList(w) PROVE UnraceyLookup'
  BY <1>1 DEF ClearList, delete_allowlist, Overtake, Freed
<1>2. ASSUME NEW w \in Writers, Create(w) PROVE UnraceyLookup'
  BY <1>2 DEF Create, create_allowlist, Allocate, Overtake, Freed, Goto, Return
<1>3. ASSUME NEW w \in Writers, Add(w) PROVE UnraceyLookup'
  <2>1. CASE Duplicate(w)
    BY <2>1, <1>3 DEF Add, Duplicate, delete_allowlist, Overtake
  <2>2. CASE AddEntry(w, kbuf[w].entries[next[w]])
    <3>1. /\ pc[w] = "add"
          /\ allowlist_mutex = w
          /\ next[w] \in Index
          /\ allowlist \in Blocks
          /\ found' = found
      BY <1>3 DEF Add, BuildInv, TypeOK, CallTypeOK, Buffer, Index
    <3>2. /\ allowlist' = allowlist /\ held' = held
          /\ allowlist_hash \subseteq allowlist_hash'
      BY <2>2 DEF AddEntry
    <3>3. allowlist_hash = {allowlist} \X (1 .. next[w] - 1)
      BY <3>1 DEF HashIsArray, Filled
    <3>4. \A i \in 1 .. next[w] - 1 : mem'[allowlist][i] = mem[allowlist][i]
      <4>1. mem' = [mem EXCEPT ![allowlist] =
                   [mem[allowlist] EXCEPT ![next[w]] = kbuf[w].entries[next[w]]]]
        BY <2>2 DEF AddEntry
      <4>2. mem'[allowlist] = [mem[allowlist] EXCEPT ![next[w]] = kbuf[w].entries[next[w]]]
        BY <4>1, <3>1
      <4>3. mem[allowlist] \in [Index -> Entry]
        BY <3>1
      <4> QED
        BY <4>2, <4>3, <3>1 DEF Index
    <3>5. \A p \in allowlist_hash : At(p)' = At(p)
      BY <3>2, <3>3, <3>4
    <3> SUFFICES ASSUME NEW l \in Lookers, held[l].open, ~held[l].stale
                 PROVE  /\ found[l][1] = allowlist
                        /\ found[l] \in allowlist_hash'
                        /\ At(found[l])'.wmask = held[l].mask
      BY <3>1, <3>2
    <3>6. /\ found[l] \in allowlist_hash
          /\ found[l][1] = allowlist
          /\ At(found[l]).wmask = held[l].mask
      OBVIOUS
    <3>7. At(found[l])' = At(found[l])
      BY <3>1, <3>5, <3>6
    <3>8. At(found[l])'.wmask = held[l].mask
      BY <3>6, <3>7
    <3> QED
      BY <3>2, <3>6, <3>8
  <2> QED
    BY <2>1, <2>2, <1>3 DEF Add
<1>4. ASSUME NEW l \in Lookers, NEW a \in Addrs, MaskExists(l, a) PROVE UnraceyLookup'
  BY <1>4 DEF MaskExists, shared, writer, reader
<1>5. ASSUME NEW l \in Lookers, NEW a \in Addrs, WriteMaskFind(l, a) PROVE UnraceyLookup'
  <2>1. UNCHANGED <<allowlist, allowlist_hash, mem>>
    BY <1>5 DEF WriteMaskFind, shared
  <2>2. CASE find_in_allowlist(a) = {}
    BY <1>5, <2>1, <2>2 DEF WriteMaskFind
  <2>3. CASE find_in_allowlist(a) # {}
    <3>1. PICK p \in find_in_allowlist(a) :
            /\ found' = [found EXCEPT ![l] = p]
            /\ held' = [held EXCEPT ![l] = Held(At(p).wmask)]
      BY <1>5, <2>3 DEF WriteMaskFind
    <3>2. allowlist # NULL /\ p \in allowlist_hash
      BY DEF find_in_allowlist
    <3>3. p[1] = allowlist
      BY <3>2 DEF HashIsArray
    <3> QED
      BY <2>1, <3>1, <3>2, <3>3
  <2> QED
    BY <2>2, <2>3
<1>6. ASSUME NEW l \in Lookers, WriteMaskRead(l) PROVE UnraceyLookup'
  BY <1>6 DEF WriteMaskRead, Goto, shared, writer, reader
<1>7. CASE UNCHANGED <<shared, looker>>
  BY <1>7 DEF shared, looker
<1> QED
  BY <1>1, <1>2, <1>3, <1>4, <1>5, <1>6, <1>7, HeapFrame, LookupFrame

\* When pass 2 ends, the list that the table stands for is that of the buffer: the
\* table links exactly the entries, and none of their addresses occurs twice.
LEMMA CompletedList ==
  ASSUME TypeOK, MutexInv, BuildInv, HashIsArray,
         NEW w \in Writers, pc[w] = "add", next[w] > Len(kbuf[w].entries)
  PROVE  /\ LinkedList = ListOf(kbuf[w].entries)
         /\ allowlist_numentries = Len(kbuf[w].entries)
         /\ Distinct(kbuf[w].entries)
<1> DEFINE es == kbuf[w].entries
           n == Len(es)
<1>1. /\ es \in Seq(Entry) /\ n \in 0 .. MaxEntries /\ next[w] \in 1 .. MaxEntries + 1
      /\ allowlist_hash \subseteq Pointers
  BY DEF TypeOK, HeapTypeOK, CallTypeOK, Buffer
<1>2. /\ allowlist # NULL /\ allowlist_numentries = n /\ next[w] = n + 1
      /\ allowlist_mutex = w
  BY <1>1, MemoryAssumption DEF BuildInv, MutexInv
<1>3. allowlist_hash = {allowlist} \X (1 .. n)
  BY <1>1, <1>2, MemoryAssumption DEF HashIsArray, Filled
<1>4. \A i \in 1 .. n : /\ mem[allowlist][i] = es[i]
                        /\ es[i] \in Entry
  BY <1>1, <1>2, MemoryAssumption DEF BuildInv
<1>5. \A i \in 1 .. n : At(<<allowlist, i>>) = es[i]
  BY <1>4 DEF At
<1>6. \A i, j \in 1 .. n : es[i].msr = es[j].msr => i = j
  <2> TAKE i, j \in 1 .. n
  <2>1. <<allowlist, i>> \in allowlist_hash /\ <<allowlist, j>> \in allowlist_hash
    BY <1>3
  <2>2. At(<<allowlist, i>>).msr = At(<<allowlist, j>>).msr => <<allowlist, i>> = <<allowlist, j>>
    BY <2>1, <1>2 DEF HashIsArray
  <2> QED
    BY <2>2, <1>5
<1>7. \A i \in 1 .. n : find_in_allowlist(es[i].msr) = {<<allowlist, i>>}
  <2> TAKE i \in 1 .. n
  <2>1. \A p \in allowlist_hash : \E j \in 1 .. n : p = <<allowlist, j>>
    BY <1>3
  <2>2. \A p \in allowlist_hash : At(p).msr = es[i].msr => p = <<allowlist, i>>
    BY <2>1, <1>5, <1>6
  <2>3. <<allowlist, i>> \in allowlist_hash
    BY <1>3
  <2> QED
    BY <1>2, <1>5, <2>2, <2>3 DEF find_in_allowlist
<1>8. {a \in Addrs : find_in_allowlist(a) # {}} = {es[i].msr : i \in DOMAIN es}
  <2>1. DOMAIN es = 1 .. n
    BY <1>1
  <2>2. ASSUME NEW a \in Addrs, find_in_allowlist(a) # {}
        PROVE  a \in {es[i].msr : i \in DOMAIN es}
    <3>1. PICK p \in allowlist_hash : At(p).msr = a
      BY <2>2 DEF find_in_allowlist
    <3>2. PICK i \in 1 .. n : p = <<allowlist, i>>
      BY <1>3
    <3> QED
      BY <3>1, <3>2, <1>5, <2>1
  <2>3. ASSUME NEW i \in DOMAIN es
        PROVE  es[i].msr \in Addrs /\ find_in_allowlist(es[i].msr) # {}
    BY <2>1, <1>4, <1>7 DEF Entry
  <2> QED
    BY <2>2, <2>3
<1>9. ASSUME NEW a \in {es[i].msr : i \in DOMAIN es}
      PROVE  At(CHOOSE p \in find_in_allowlist(a) : TRUE).wmask
               = es[CHOOSE i \in DOMAIN es : es[i].msr = a].wmask
  <2>1. PICK i \in 1 .. n : a = es[i].msr
    BY <1>1
  <2>2. (CHOOSE p \in find_in_allowlist(a) : TRUE) = <<allowlist, i>>
    BY <2>1, <1>7
  <2>3. (CHOOSE j \in DOMAIN es : es[j].msr = a) = i
    BY <2>1, <1>1, <1>6
  <2> QED
    BY <2>2, <2>3, <1>5
<1>10. Distinct(es)
  BY <1>1, <1>6 DEF Distinct
<1>11. LinkedList = ListOf(es)
  <2> HIDE DEF es
  <2> QED
    BY <1>8, <1>9 DEF LinkedList, ListOf
<1> QED
  BY <1>2, <1>10, <1>11

\* What write_allowlist is about to return and the list it leaves agree, until it
\* releases the mutex.
LEMMA OutcomeStep ==
  TypeOK /\ MutexInv /\ BuildInv /\ HashIsArray /\ OutcomeMatches /\ [Next]_vars
    => OutcomeMatches'
<1> SUFFICES ASSUME TypeOK, MutexInv, BuildInv, HashIsArray, OutcomeMatches, [Next]_vars,
                    NEW v \in Writers, pc'[v] = "unlock"
             PROVE  IF ret'[v] = "count"
                    THEN /\ LinkedList' = ListOf(kbuf[v].entries)'
                         /\ allowlist_numentries' = Len(kbuf[v].entries)'
                    ELSE allowlist' = NULL
  BY DEF OutcomeMatches
<1>p. /\ pc \in [Tasks -> WriterLabels \cup {"deref", "dead"}]
      /\ ret \in [Writers -> Results]
  BY DEF TypeOK, CallTypeOK
<1>1. CASE pc[v] = "unlock" /\ UNCHANGED <<shared, kbuf[v], ret[v]>>
  <2>1. LinkedList' = LinkedList /\ ListOf(kbuf[v].entries)' = ListOf(kbuf[v].entries)
    BY <1>1 DEF LinkedList, ListOf, find_in_allowlist, At, shared
  <2> QED
    BY <1>1, <2>1 DEF OutcomeMatches, shared
<1>2. CASE AddDone(v)
  <2>1. /\ LinkedList = ListOf(kbuf[v].entries)
        /\ allowlist_numentries = Len(kbuf[v].entries)
    BY <1>2, CompletedList DEF AddDone, TypeOK, CallTypeOK, Buffer, MutexInv
  <2>2. UNCHANGED <<shared, kbuf>> /\ ret'[v] = "count"
    BY <1>2, <1>p DEF AddDone, Return
  <2>3. LinkedList' = LinkedList /\ ListOf(kbuf[v].entries)' = ListOf(kbuf[v].entries)
    BY <2>2 DEF LinkedList, ListOf, find_in_allowlist, At, shared
  <2> QED
    BY <2>1, <2>2, <2>3 DEF shared
<1>3. CASE Create(v) \/ Add(v)
  <2>1. CASE Create(v)
    BY <2>1, <1>p, TasksDisjoint DEF Create, Goto, Return, Tasks
  <2>2. CASE Add(v)
    BY <2>2, <1>p, TasksDisjoint
       DEF Add, Duplicate, AddEntry, delete_allowlist, Goto, Return, Tasks
  <2> QED
    BY <1>3, <2>1, <2>2
<1>4. ASSUME NEW w \in Writers, WriterStep(w), w # v
      PROVE  pc[v] = "unlock" /\ UNCHANGED <<shared, kbuf[v], ret[v]>>
  <2>1. pc'[v] = pc[v]
    BY <1>4, <1>p, TasksDisjoint
       DEF WriterStep, ClearList, RejectBuffer, Pass1, Lock, Create, Add, Duplicate, AddEntry,
           AddDone, Unlock, FreeBuffer, Goto, Tasks
  <2>2. allowlist_mutex = v
    BY <2>1 DEF MutexInv
  <2>3. RejectBuffer(w) \/ Pass1(w) \/ FreeBuffer(w)
    BY <1>4, <2>2, TasksDisjoint
       DEF WriterStep, ClearList, Lock, Create, Add, AddDone, Unlock, MutexInv, Tasks
  <2>4. kbuf \in [Writers -> Buffer]
    BY DEF TypeOK, CallTypeOK
  <2>5. UNCHANGED <<shared, kbuf[v], ret[v]>>
    BY <1>4, <2>3, <2>4, <1>p DEF RejectBuffer, Pass1, FreeBuffer, Return
  <2> QED
    BY <2>1, <2>5
<1>5. WriterStep(v) => AddDone(v) \/ Create(v) \/ Add(v)
  BY <1>p, TasksDisjoint
     DEF WriterStep, ClearList, RejectBuffer, Pass1, Lock, Unlock, FreeBuffer, Goto, Tasks
<1>6. ASSUME \/ \E l \in Lookers : LookerStep(l)
             \/ \E r \in Readers : ReaderStep(r)
             \/ UNCHANGED vars
      PROVE  pc[v] = "unlock" /\ UNCHANGED <<shared, kbuf[v], ret[v]>>
  BY <1>6, <1>p, TasksDisjoint
     DEF LookerStep, ReaderStep, MaskExists, WriteMaskFind, WriteMaskRead, ReadEnd, ReadEntry,
         ReadFails, ReadFaults, Goto, Tasks, vars, writer
<1> QED
  BY <1>1, <1>2, <1>3, <1>4, <1>5, <1>6 DEF Next

\* The invariants together are inductive: each needs the others.
LEMMA InductiveIInv == IInv /\ [Next]_vars => IInv'
  BY MutexStep, LookerInvStep, BuildStep, NoLeakStep, HeapTypeStep, CallTypeStep,
     LookupTypeStep, ReadTypeStep, HashStep, UnraceyStep, OutcomeStep DEF IInv, TypeOK

\* Every handler of msr_allowlist.c preserves the inductive invariant.
THEOREM Invariance == Spec => []IInv
<1> QED
  BY InitIInv, InductiveIInv, PTL DEF Spec

\* The variables of msr_allowlist.c keep their types; in particular pass 2 never
\* writes, and read_allowlist never reads, outside the array.
THEOREM TypeCorrect == Spec => []TypeOK
<1>1. IInv => TypeOK
  BY DEF IInv
<1> QED
  BY <1>1, Invariance, PTL

\* Whenever the hash table may be walked, its nodes are the entries of the array
\* that is allocated, no address twice: find_in_allowlist meets no freed node.
THEOREM TableIsSound == Spec => []HashIsArray
<1>1. IInv => HashIsArray
  BY DEF IInv
<1> QED
  BY <1>1, Invariance, PTL

\* create_allowlist and delete_allowlist never lose an array and never keep a
\* pointer to one they freed.
THEOREM ArraysAreFreed == Spec => []NoLeak
<1>1. IInv => NoLeak
  BY DEF IInv
<1> QED
  BY <1>1, Invariance, PTL

\* The read of entry->wmask after the unlock is sound unless a write replaces the
\* list in between.
THEOREM LookupIsSound == Spec => []UnraceyLookup
<1>1. IInv => UnraceyLookup
  BY DEF IInv
<1> QED
  BY <1>1, Invariance, PTL

\* When write_allowlist returns the byte count exactly its entries can be looked up,
\* and when it returns an error after locking nothing can.
THEOREM WriteIsAllOrNothing == Spec => []OutcomeMatches
<1>1. IInv => OutcomeMatches
  BY DEF IInv
<1> QED
  BY <1>1, Invariance, PTL

\* While pass 2 of write_allowlist fills a new array, no reader has read of it.
TornInv == \A w \in Writers, r \in Readers : pc[w] = "add" => listing[r].torn

\* Each step keeps what read_allowlist has returned a prefix of the array.
LEMMA ListingStep ==
  ASSUME IInv, TornInv, ListingIsPrefix, [Next]_vars
  PROVE  TornInv' /\ ListingIsPrefix'
<1>1. /\ pc \in [Tasks -> WriterLabels \cup {"deref", "dead"}]
      /\ fpos \in [Readers -> 0 .. MaxEntries] /\ MaxEntries \in Nat
      /\ listing \in [Readers -> [torn : BOOLEAN, lines : Seq(Entry)]]
  BY MemoryAssumption DEF IInv, TypeOK, CallTypeOK, ReadTypeOK
<1>2. ASSUME listing' = [r \in Readers |-> Torn]
      PROVE  TornInv' /\ ListingIsPrefix'
  BY <1>2 DEF TornInv, ListingIsPrefix, Torn
<1>3. ASSUME NEW w \in Writers, ClearList(w) \/ Create(w) \/ Add(w)
      PROVE  TornInv' /\ ListingIsPrefix'
  <2>1. \/ listing' = [r \in Readers |-> Torn]
        \/ Add(w) /\ pc' = pc /\ listing' = listing
    BY <1>3 DEF ClearList, Create, Add, Duplicate, AddEntry, delete_allowlist,
                create_allowlist, Overtake
  <2>2. CASE Add(w) /\ pc' = pc /\ listing' = listing
    <3>1. pc[w] = "add"
      BY <2>2 DEF Add
    <3> QED
      BY <2>2, <3>1 DEF TornInv, ListingIsPrefix
  <2> QED
    BY <1>2, <2>1, <2>2
<1>4. ASSUME NEW r \in Readers, ReadEnd(r) \/ ReadEntry(r)
      PROVE  TornInv' /\ ListingIsPrefix'
  <2>1. /\ allowlist_mutex = NULL /\ UNCHANGED <<shared, pc>>
        /\ \A q \in Readers \ {r} : fpos'[q] = fpos[q] /\ listing'[q] = listing[q]
    BY <1>1, <1>4 DEF ReadEnd, ReadEntry, CanRead
  <2>2. TornInv'
    <3>1. \A w \in Writers : pc'[w] # "add"
      BY <2>1, TasksDisjoint DEF IInv, MutexInv, Tasks
    <3> QED
      BY <3>1 DEF TornInv
  <2>3. CASE ReadEnd(r)
    <3>1. fpos'[r] = 0 /\ Len(listing'[r].lines) = 0
      BY <1>1, <2>3 DEF ReadEnd, Unread
    <3> QED
      BY <2>1, <2>2, <3>1 DEF ListingIsPrefix, shared
  <2>4. CASE ReadEntry(r)
    <3> DEFINE e == mem[allowlist][fpos[r] + 1]
               before == IF fpos[r] = 0 THEN Unread ELSE listing[r]
    <3>1. /\ allowlist # NULL /\ fpos'[r] = fpos[r] + 1 /\ fpos[r] \in Nat
          /\ listing'[r] = IF before.torn THEN Torn
                           ELSE [torn |-> FALSE, lines |-> Append(before.lines, e)]
      BY <1>1, <2>4 DEF ReadEntry, Advance
    <3>2. fpos[r] + 1 \in Index /\ e \in Entry /\ fpos'[r] <= allowlist_numentries
      <4>1. /\ allowlist_numentries \in 0 .. MaxEntries /\ allowlist \in Blocks
            /\ mem \in [Blocks -> [Index -> Entry]]
        BY <3>1 DEF IInv, TypeOK, HeapTypeOK
      <4>2. ~(fpos[r] >= allowlist_numentries)
        BY <2>4 DEF ReadEntry, PastEnd
      <4>3. fpos[r] + 1 \in Index /\ fpos[r] + 1 <= allowlist_numentries
        BY <1>1, <3>1, <4>1, <4>2 DEF Index
      <4> QED
        BY <3>1, <4>1, <4>3
    <3>3. before.lines \in Seq(Entry)
      BY <1>1 DEF Unread
    <3>4. ASSUME ~before.torn
          PROVE  /\ Len(before.lines) = fpos[r]
                 /\ \A i \in 1 .. fpos[r] : before.lines[i] = mem[allowlist][i]
      BY <3>1, <3>4 DEF ListingIsPrefix, Unread
    <3>5. ASSUME ~listing'[r].torn
          PROVE  /\ Len(listing'[r].lines) = fpos[r] + 1
                 /\ \A i \in 1 .. fpos[r] + 1 : listing'[r].lines[i] = mem[allowlist][i]
      <4>1. ~before.torn /\ listing'[r].lines = Append(before.lines, e)
        BY <3>1, <3>5 DEF Torn
      <4> QED
        BY <3>1, <3>2, <3>3, <3>4, <4>1
    <3>6. \A q \in Readers : ~listing'[q].torn =>
            /\ Len(listing'[q].lines) = fpos'[q]
            /\ fpos'[q] > 0 =>
                 /\ allowlist # NULL /\ fpos'[q] <= allowlist_numentries
                 /\ \A i \in 1 .. fpos'[q] : listing'[q].lines[i] = mem[allowlist][i]
      <4> TAKE q \in Readers
      <4>1. CASE q = r
        BY <3>1, <3>2, <3>5, <4>1
      <4>2. CASE q # r
        BY <2>1, <4>2 DEF ListingIsPrefix
      <4> QED
        BY <4>1, <4>2
    <3> QED
      BY <2>1, <2>2, <3>6 DEF ListingIsPrefix, shared
  <2> QED
    BY <1>4, <2>3, <2>4
<1>5. ASSUME UNCHANGED reader, UNCHANGED shared,
             ~\E w \in Writers : ClearList(w) \/ Create(w) \/ Add(w)
      PROVE  TornInv' /\ ListingIsPrefix'
  <2>1. ListingIsPrefix'
    BY <1>5 DEF ListingIsPrefix, reader, shared
  <2>2. \A w \in Writers : pc'[w] = "add" => pc[w] = "add"
    BY <1>1, <1>5, TasksDisjoint
       DEF Next, WriterStep, LookerStep, ReaderStep, RejectBuffer, Pass1, Lock, AddDone, Unlock,
           FreeBuffer, MaskExists, WriteMaskFind, WriteMaskRead, ReadEnd, ReadEntry, ReadFails,
           ReadFaults, Goto, Tasks, vars
  <2> QED
    BY <1>5, <2>1, <2>2 DEF TornInv, reader
<1> QED
  BY <1>3, <1>4, <1>5, ReadFrame, HeapFrame

\* A reader that no replacement overtook has the entries of the array in order, none
\* twice and none left out, whatever failed in between.
THEOREM ListingsAreTrue == Spec => []ListingIsPrefix
<1>1. Init => TornInv /\ ListingIsPrefix
  BY DEF Init, TornInv, ListingIsPrefix, Unread, Tasks
<1>2. IInv /\ (TornInv /\ ListingIsPrefix) /\ [Next]_vars => (TornInv /\ ListingIsPrefix)'
  BY ListingStep
<1> QED
  BY <1>1, <1>2, Invariance, PTL DEF Spec

\* A count without an array, on which read_allowlist would fault.
CountInv == allowlist = NULL => allowlist_numentries = 0

\* Where kcalloc never fails, no reader finds a count without an array: every path
\* that leaves no array resets the count.
LEMMA SurviveStep ==
  ASSUME AllocMayFail = FALSE, IInv, CountInv, ReadersSurvive, [Next]_vars
  PROVE  CountInv' /\ ReadersSurvive'
<1>1. CountInv'
  <2>1. ASSUME NEW w \in Writers, ClearList(w) \/ Add(w) PROVE CountInv'
    BY <2>1 DEF ClearList, Add, Duplicate, AddEntry, delete_allowlist, CountInv
  <2>2. ASSUME NEW w \in Writers, Create(w) PROVE CountInv'
    BY <2>2, MemoryAssumption DEF Create, create_allowlist, Allocate, CountInv
  <2>3. CASE UNCHANGED shared
    BY <2>3 DEF CountInv, shared
  <2> QED
    BY <2>1, <2>2, <2>3, HeapFrame
<1>2. pc \in [Tasks -> WriterLabels \cup {"deref", "dead"}]
  BY DEF IInv, TypeOK, CallTypeOK
<1>3. ASSUME NEW w \in Writers, WriterStep(w) PROVE ReadersSurvive'
  <2>1. pc' = pc \/ \E label \in WriterLabels : pc' = [pc EXCEPT ![w] = label]
    BY <1>3 DEF WriterStep, ClearList, RejectBuffer, Pass1, Lock, Create, Add, Duplicate,
                AddEntry, AddDone, Unlock, FreeBuffer, Goto, WriterLabels
  <2> QED
    BY <1>2, <2>1, TasksDisjoint DEF ReadersSurvive, WriterLabels, Tasks
<1>4. ASSUME NEW l \in Lookers, LookerStep(l) PROVE ReadersSurvive'
  <2>1. pc' = pc \/ \E label \in {"deref", "idle"} : pc' = [pc EXCEPT ![l] = label]
    BY <1>4 DEF LookerStep, MaskExists, WriteMaskFind, WriteMaskRead, Goto
  <2> QED
    BY <1>2, <2>1, TasksDisjoint DEF ReadersSurvive, Tasks
<1>5. ASSUME NEW r \in Readers, ReaderStep(r) PROVE ReadersSurvive'
  <2>1. ~ReadFaults(r)
    <3> SUFFICES ASSUME ReadFaults(r) PROVE FALSE
      OBVIOUS
    <3>1. allowlist_numentries = 0 /\ ~(fpos[r] >= 0)
      BY DEF ReadFaults, PastEnd, CountInv
    <3>2. fpos[r] \in 0 .. MaxEntries
      BY DEF IInv, TypeOK, ReadTypeOK
    <3> QED
      BY <3>1, <3>2, MemoryAssumption
  <2>2. pc' = pc
    BY <1>5, <2>1 DEF ReaderStep, ReadEnd, ReadEntry, ReadFails, vars
  <2> QED
    BY <2>2 DEF ReadersSurvive
<1>6. CASE UNCHANGED vars
  <2>1. pc' = pc
    BY <1>6 DEF vars
  <2> QED
    BY <1>1, <2>1 DEF ReadersSurvive
<1> QED
  BY <1>1, <1>3, <1>4, <1>5, <1>6 DEF Next

\* read_allowlist never faults on a null array while kcalloc succeeds.
THEOREM ReadersDoNotFault ==
  ASSUME AllocMayFail = FALSE
  PROVE  Spec => []ReadersSurvive
<1>1. Init => CountInv /\ ReadersSurvive
  BY DEF Init, CountInv, ReadersSurvive, Tasks
<1>2. IInv /\ (CountInv /\ ReadersSurvive) /\ [Next]_vars => (CountInv /\ ReadersSurvive)'
  BY SurviveStep
<1> QED
  BY <1>1, <1>2, Invariance, PTL DEF Spec

-----------------------------------------------------------------------------
(***************************************************************************)
(* Allowlist implements AllowlistSpec: the list that the array and the     *)
(* hash table stand for (InstalledList) changes only as a whole, and each  *)
(* lookup answers from it.  A write that clears the list, one that creates *)
(* an array and one that meets a duplicate are Replace; the rounds of pass *)
(* 2, locks and unlocks, and all that a reader does, leave the contract's  *)
(* state alone.                                                            *)
(***************************************************************************)

\* A list that a buffer holds is a list of the contract.
LEMMA ListOfBuffer ==
  ASSUME NEW es \in Seq(Entry)
  PROVE  ListOf(es) \in Contract!Lists
<1>1. \A i \in DOMAIN es : es[i].msr \in Addrs /\ es[i].wmask \in Masks
  <2>1. \A i \in DOMAIN es : es[i] \in Entry
    OBVIOUS
  <2> QED
    BY <2>1 DEF Entry
<1>2. ASSUME NEW a \in {es[i].msr : i \in DOMAIN es}
      PROVE  es[CHOOSE i \in DOMAIN es : es[i].msr = a].wmask \in Masks
  BY <1>1
<1>3. {es[i].msr : i \in DOMAIN es} \in SUBSET Addrs
  BY <1>1
<1>4. ListOf(es) \in [{es[i].msr : i \in DOMAIN es} -> Masks]
  BY <1>2 DEF ListOf
<1> QED
  BY <1>3, <1>4 DEF Contract!Lists, Contract!Masks, Masks

\* Without an array nothing is found: the list is the empty one of the contract.
LEMMA NoArrayNoList ==
  ASSUME allowlist = NULL
  PROVE  LinkedList = Contract!Empty /\ LinkedList = ListOf(<<>>)
<1>1. {a \in Addrs : find_in_allowlist(a) # {}} = {}
  BY DEF find_in_allowlist
<1>2. LinkedList = Contract!Empty
  BY <1>1 DEF LinkedList, Contract!Empty
<1>3. ListOf(<<>>) = Contract!Empty
  BY DEF ListOf, Contract!Empty
<1> QED
  BY <1>2, <1>3

\* The empty list is one of the contract.
LEMMA EmptyIsList == Contract!Empty \in Contract!Lists
<1>1. Contract!Empty \in [{} -> Contract!Masks]
  BY DEF Contract!Empty
<1> QED
  BY <1>1 DEF Contract!Lists

\* Under the mutex, free or held outside pass 2, the list is what the table links.
LEMMA InstalledIsLinked ==
  ASSUME ~(allowlist_mutex \in Writers /\ pc[allowlist_mutex] = "add")
  PROVE  InstalledList = LinkedList
  BY DEF InstalledList

\* An address is found in one entry, and that entry holds its mask of the list.
LEMMA FoundIsListed ==
  ASSUME IInv, allowlist_mutex = NULL, NEW a \in Addrs
  PROVE  /\ a \in DOMAIN InstalledList <=> find_in_allowlist(a) # {}
         /\ \A p \in find_in_allowlist(a) : InstalledList[a] = At(p).wmask
<1>1. InstalledList = LinkedList
  BY TasksDisjoint, InstalledIsLinked DEF Tasks
<1>2. \A p, q \in find_in_allowlist(a) : p = q
  BY DEF IInv, HashIsArray, find_in_allowlist
<1>3. ASSUME NEW p \in find_in_allowlist(a)
      PROVE  (CHOOSE q \in find_in_allowlist(a) : TRUE) = p
  BY <1>2
<1> QED
  BY <1>1, <1>3 DEF LinkedList

\* No step but those of write_allowlist changes the list, and those do only where
\* the array is created, or freed.
LEMMA InstalledStays ==
  ASSUME UNCHANGED <<shared, kbuf, pc, allowlist_mutex>>
  PROVE  UNCHANGED InstalledList
  BY DEF InstalledList, LinkedList, ListOf, Distinct, find_in_allowlist, At, shared

\* What the table links changes only with the array and the table.
LEMMA LinkedStays ==
  ASSUME UNCHANGED shared
  PROVE  UNCHANGED LinkedList
  BY DEF LinkedList, find_in_allowlist, At, shared

\* A step of write_allowlist that frees or creates the array replaces the list.
LEMMA ReplaceSteps ==
  ASSUME IInv, NEW w \in Writers, ClearList(w) \/ Create(w)
                                    \/ (Add(w) /\ Duplicate(w))
  PROVE  Contract!Replace
<1>1. UNCHANGED ans /\ held' = Contract!Stale(held)
  BY DEF ClearList, Create, Add, Duplicate, delete_allowlist, create_allowlist, Overtake
<1>2. /\ pc \in [Tasks -> WriterLabels \cup {"deref", "dead"}]
      /\ w \in Tasks /\ kbuf[w].entries \in Seq(Entry)
  BY DEF IInv, TypeOK, CallTypeOK, Buffer, Tasks
<1>3. InstalledList' \in Contract!Lists
  <2>1. ASSUME allowlist' = NULL, ~(allowlist_mutex' \in Writers /\ pc'[allowlist_mutex'] = "add")
        PROVE  InstalledList' \in Contract!Lists
    <3>1. InstalledList' = LinkedList'
      BY <2>1 DEF InstalledList
    <3>2. {a \in Addrs : find_in_allowlist(a)' # {}} = {}
      BY <2>1 DEF find_in_allowlist
    <3>3. LinkedList' = Contract!Empty
      BY <3>2 DEF LinkedList, Contract!Empty
    <3> QED
      BY <3>1, <3>3, EmptyIsList
  <2>2. CASE ClearList(w)
    BY <2>1, <2>2, TasksDisjoint DEF ClearList, delete_allowlist, Tasks
  <2>3. CASE Add(w) /\ Duplicate(w)
    <3>1. allowlist' = NULL /\ pc'[w] = "unlock" /\ allowlist_mutex' = allowlist_mutex
      BY <1>2, <2>3 DEF Add, Duplicate, delete_allowlist, Goto
    <3>2. allowlist_mutex = w
      BY <2>3 DEF Add, IInv, MutexInv
    <3> QED
      BY <2>1, <3>1, <3>2
  <2>4. CASE Create(w)
    <3>1. /\ allowlist_mutex' = allowlist_mutex /\ kbuf' = kbuf /\ pc[w] = "create"
          /\ \/ allowlist' = NULL /\ pc' = [pc EXCEPT ![w] = "unlock"]
             \/ pc' = [pc EXCEPT ![w] = "add"]
      BY <2>4 DEF Create, Goto
    <3>2. allowlist_mutex = w
      BY <3>1 DEF IInv, MutexInv
    <3>3. CASE pc' = [pc EXCEPT ![w] = "add"]
      <4>1. InstalledList' = IF Distinct(kbuf[w].entries) THEN ListOf(kbuf[w].entries)
                                                          ELSE ListOf(<<>>)
        BY <1>2, <3>1, <3>2, <3>3 DEF InstalledList, Distinct, ListOf
      <4>2. <<>> \in Seq(Entry)
        OBVIOUS
      <4>3. ListOf(kbuf[w].entries) \in Contract!Lists /\ ListOf(<<>>) \in Contract!Lists
        BY <1>2, <4>2, ListOfBuffer
      <4> QED
        BY <4>1, <4>3
    <3>4. CASE allowlist' = NULL /\ pc' = [pc EXCEPT ![w] = "unlock"]
      BY <1>2, <2>1, <3>1, <3>2, <3>4
    <3> QED
      BY <3>1, <3>3, <3>4
  <2> QED
    BY <2>2, <2>3, <2>4
<1> QED
  BY <1>1, <1>3 DEF Contract!Replace

\* A round of pass 2, and its end, leave the list as it was when it was created.
LEMMA AddSteps ==
  ASSUME IInv, NEW w \in Writers,
         (Add(w) /\ AddEntry(w, kbuf[w].entries[next[w]])) \/ AddDone(w)
  PROVE  UNCHANGED <<InstalledList, held, ans>>
<1>1. /\ pc \in [Tasks -> WriterLabels \cup {"deref", "dead"}] /\ w \in Tasks
      /\ pc[w] = "add" /\ UNCHANGED <<allowlist_mutex, kbuf, held, ans>>
  BY DEF IInv, TypeOK, CallTypeOK, Tasks, Add, AddEntry, AddDone, looker
<1>2. allowlist_mutex = w
  BY <1>1 DEF IInv, MutexInv
<1>3. CASE AddDone(w)
  <2>1. next[w] > Len(kbuf[w].entries) /\ UNCHANGED shared /\ pc'[w] = "unlock"
    BY <1>1, <1>3 DEF AddDone, Goto
  <2>2. LinkedList = ListOf(kbuf[w].entries) /\ Distinct(kbuf[w].entries)
    BY <1>1, <2>1, CompletedList DEF IInv
  <2>3. InstalledList = LinkedList
    BY <1>1, <1>2, <2>2 DEF InstalledList
  <2>4. InstalledList' = LinkedList'
    BY <1>1, <1>2, <2>1 DEF InstalledList
  <2> QED
    BY <1>1, <2>1, <2>3, <2>4, LinkedStays
<1>4. CASE Add(w) /\ AddEntry(w, kbuf[w].entries[next[w]])
  <2>1. pc' = pc
    BY <1>4 DEF AddEntry
  <2>2. InstalledList' = InstalledList
    BY <1>1, <1>2, <2>1 DEF InstalledList, Distinct, ListOf
  <2> QED
    BY <1>1, <2>2
<1> QED
  BY <1>3, <1>4

\* The other steps of write_allowlist change no list: they are of calls that hold no
\* mutex, or take it or release it outside pass 2.
LEMMA OtherWriterSteps ==
  ASSUME IInv, NEW w \in Writers,
         RejectBuffer(w) \/ Pass1(w) \/ Lock(w) \/ Unlock(w) \/ FreeBuffer(w)
  PROVE  UNCHANGED <<InstalledList, held, ans>>
<1>1. /\ pc \in [Tasks -> WriterLabels \cup {"deref", "dead"}] /\ w \in Tasks
      /\ kbuf \in [Writers -> Buffer] /\ pc[w] # "add" /\ pc'[w] # "add"
      /\ UNCHANGED <<shared, held, ans>>
      /\ \A v \in Writers \ {w} : pc'[v] = pc[v] /\ kbuf'[v] = kbuf[v]
      /\ allowlist_mutex' = allowlist_mutex \/ {allowlist_mutex, allowlist_mutex'} = {w, NULL}
  <2>1. /\ pc \in [Tasks -> WriterLabels \cup {"deref", "dead"}] /\ w \in Tasks
        /\ kbuf \in [Writers -> Buffer]
    BY DEF IInv, TypeOK, CallTypeOK, Tasks
  <2>2. CASE RejectBuffer(w) \/ Pass1(w) \/ FreeBuffer(w)
    <3>1. /\ pc[w] \in {"idle", "free"}
          /\ \E label \in {"idle", "lock", "free"} : pc' = [pc EXCEPT ![w] = label]
          /\ UNCHANGED <<shared, held, ans, allowlist_mutex>>
          /\ kbuf' = kbuf \/ \E b : kbuf' = [kbuf EXCEPT ![w] = b]
      BY <2>2 DEF RejectBuffer, Pass1, FreeBuffer, Goto, looker
    <3> QED
      BY <2>1, <3>1, TasksDisjoint DEF Tasks
  <2>3. CASE Lock(w) \/ Unlock(w)
    <3>1. allowlist_mutex = NULL \/ allowlist_mutex = w
      BY <2>3 DEF Lock, Unlock, IInv, MutexInv
    <3>2. /\ UNCHANGED <<shared, kbuf, held, ans>> /\ pc[w] \in {"lock", "unlock"}
          /\ \E label \in {"create", "free"} : pc' = [pc EXCEPT ![w] = label]
          /\ {allowlist_mutex, allowlist_mutex'} = {w, NULL}
      BY <2>3, <3>1 DEF Lock, Unlock, Goto, writer, looker, IInv, MutexInv
    <3> QED
      BY <2>1, <3>2, TasksDisjoint DEF Tasks
  <2> QED
    BY <2>2, <2>3
<1>2. LinkedList' = LinkedList
  BY <1>1, LinkedStays
<1>3. CASE allowlist_mutex \in Writers /\ pc[allowlist_mutex] = "add"
  <2>1. PICK v \in Writers : v = allowlist_mutex
    BY <1>3
  <2>2. v # w /\ NULL \notin Writers
    BY <1>1, <1>3, <2>1, TasksDisjoint DEF Tasks
  <2>3. allowlist_mutex' = v /\ pc'[v] = "add" /\ kbuf'[v] = kbuf[v]
    BY <1>1, <1>3, <2>1, <2>2
  <2>4. InstalledList' = InstalledList
    BY <1>3, <2>1, <2>3 DEF InstalledList, Distinct, ListOf
  <2> QED
    BY <1>1, <2>4
<1>4. CASE ~(allowlist_mutex \in Writers /\ pc[allowlist_mutex] = "add")
  <2>1. ~(allowlist_mutex' \in Writers /\ pc'[allowlist_mutex'] = "add")
    <3>1. \A v \in Writers \ {w} : pc[v] = "add" => allowlist_mutex = v
      BY DEF IInv, MutexInv
    <3> QED
      BY <1>1, <1>4, <3>1, TasksDisjoint DEF Tasks
  <2>2. InstalledList = LinkedList /\ InstalledList' = LinkedList'
    BY <1>4, <2>1 DEF InstalledList
  <2> QED
    BY <1>1, <1>2, <2>2
<1> QED
  BY <1>3, <1>4

\* A read of the listing changes nothing that the list is made of, and releases the mutex
\* outside any write.
LEMMA ReaderSteps ==
  ASSUME IInv, NEW r \in Readers, ReaderStep(r)
  PROVE  UNCHANGED <<InstalledList, held, ans>>
<1>1. UNCHANGED <<shared, kbuf, held, ans>>
  BY DEF ReaderStep, ReadEnd, ReadEntry, ReadFails, ReadFaults, writer, looker, vars
<1>2. /\ allowlist_mutex \notin Writers \/ UNCHANGED <<pc, allowlist_mutex>>
      /\ allowlist_mutex' \notin Writers \/ UNCHANGED <<pc, allowlist_mutex>>
  BY TasksDisjoint
     DEF ReaderStep, ReadEnd, ReadEntry, ReadFails, ReadFaults, CanRead, vars, Tasks
<1>3. CASE UNCHANGED <<pc, allowlist_mutex>>
  BY <1>1, <1>3, InstalledStays
<1>4. CASE ~UNCHANGED <<pc, allowlist_mutex>>
  <2>1. InstalledList = LinkedList /\ InstalledList' = LinkedList'
    BY <1>2, <1>4 DEF InstalledList
  <2> QED
    BY <1>1, <2>1, LinkedStays
<1> QED
  BY <1>3, <1>4

\* Each lookup answers from the list, under the mutex.
LEMMA MaskExistsStep ==
  ASSUME IInv, NEW l \in Lookers, NEW a \in Addrs, MaskExists(l, a)
  PROVE  Contract!MaskExists(l, a)
<1>1. ~held[l].open
  BY DEF MaskExists, IInv, LookerInv
<1>2. UNCHANGED <<InstalledList, held>>
  BY InstalledStays DEF MaskExists, writer
<1>3. a \in DOMAIN InstalledList <=> find_in_allowlist(a) # {}
  BY FoundIsListed DEF MaskExists
<1>4. (a \in DOMAIN InstalledList) = (find_in_allowlist(a) # {})
  BY <1>3
<1>5. ans' = [ans EXCEPT ![l] = Contract!Present(a \in DOMAIN InstalledList)]
  BY <1>4 DEF MaskExists
<1> QED
  BY <1>1, <1>2, <1>5 DEF Contract!MaskExists

\* msr_allowlist_writemask looks the address up under the mutex: the list has no entry, or
\* the task holds the one found.
LEMMA WriteMaskFindStep ==
  ASSUME IInv, NEW l \in Lookers, NEW a \in Addrs, WriteMaskFind(l, a)
  PROVE  Contract!WriteMaskAbsent(l, a) \/ Contract!WriteMaskFind(l, a)
<1>1. ~held[l].open /\ allowlist_mutex = NULL
  BY DEF WriteMaskFind, IInv, LookerInv
<1>2. UNCHANGED InstalledList
  <2>1. UNCHANGED <<shared, kbuf, allowlist_mutex>> /\ allowlist_mutex \notin Writers
    BY <1>1, TasksDisjoint DEF WriteMaskFind, writer, Tasks
  <2>2. InstalledList = LinkedList /\ InstalledList' = LinkedList'
    BY <2>1 DEF InstalledList
  <2> QED
    BY <2>1, <2>2, LinkedStays
<1>3. /\ a \in DOMAIN InstalledList <=> find_in_allowlist(a) # {}
      /\ \A p \in find_in_allowlist(a) : InstalledList[a] = At(p).wmask
  BY <1>1, FoundIsListed
<1>4. CASE find_in_allowlist(a) = {}
  BY <1>1, <1>2, <1>3, <1>4 DEF WriteMaskFind, Contract!WriteMaskAbsent
<1>5. CASE find_in_allowlist(a) # {}
  BY <1>1, <1>2, <1>3, <1>5 DEF WriteMaskFind, Contract!WriteMaskFind, Held
<1> QED
  BY <1>4, <1>5

\* The mask that is read after the unlock is that of the entry, or, once the entry is
\* freed, any.
LEMMA WriteMaskReadStep ==
  ASSUME IInv, NEW l \in Lookers, WriteMaskRead(l)
  PROVE  Contract!WriteMaskRead(l)
<1>1. /\ pc[l] = "deref" /\ held[l].open /\ found[l] \in Pointers
      /\ held[l] \in Contract!HeldType /\ mem \in [Blocks -> [Index -> Entry]]
  BY DEF WriteMaskRead, IInv, LookerInv, TypeOK, LookupTypeOK, HeapTypeOK
<1>2. UNCHANGED InstalledList
  <2>1. UNCHANGED <<shared, kbuf, allowlist_mutex>>
    BY DEF WriteMaskRead, writer
  <2>2. \A w \in Writers : pc'[w] = pc[w]
    BY TasksDisjoint DEF WriteMaskRead, Goto, IInv, TypeOK, CallTypeOK, Tasks
  <2>3. UNCHANGED LinkedList
    BY <2>1, LinkedStays
  <2> QED
    BY <2>1, <2>2, <2>3 DEF InstalledList, ListOf, Distinct
<1>3. PICK m \in IF found[l][1] \in live THEN {At(found[l]).wmask} ELSE Masks :
        ans' = [ans EXCEPT ![l] = Contract!Mask(m)]
  BY DEF WriteMaskRead
<1>4. m \in Contract!Readable(held[l])
  <2>1. At(found[l]).wmask \in Masks /\ found[l][1] \in Blocks
    BY <1>1 DEF At, Pointers, Entry
  <2>2. CASE held[l].stale
    BY <1>3, <2>1, <2>2 DEF Contract!Readable, Contract!Masks, Masks
  <2>3. CASE ~held[l].stale
    <3>1. /\ found[l][1] = allowlist /\ At(found[l]).wmask = held[l].mask
      BY <1>1, <2>3 DEF IInv, UnraceyLookup
    <3>2. found[l][1] \in live
      BY <2>1, <3>1, MemoryAssumption DEF IInv, HashIsArray
    <3> QED
      BY <1>3, <2>3, <3>1, <3>2 DEF Contract!Readable
  <2> QED
    BY <2>2, <2>3
<1>5. held' = [held EXCEPT ![l] = Contract!NotHeld]
  BY DEF WriteMaskRead, NotHeld
<1> QED
  BY <1>1, <1>2, <1>3, <1>4, <1>5 DEF Contract!WriteMaskRead

\* Every step of msr_allowlist.c is one of the contract, or none.
LEMMA ContractStep ==
  ASSUME IInv, [Next]_vars
  PROVE  Contract!SpecNext \/ UNCHANGED Contract!specVars
<1>1. ASSUME NEW w \in Writers, WriterStep(w)
      PROVE  Contract!SpecNext \/ UNCHANGED Contract!specVars
  <2>1. Add(w) => Duplicate(w) \/ AddEntry(w, kbuf[w].entries[next[w]])
    BY DEF Add
  <2>2. CASE ClearList(w) \/ Create(w) \/ (Add(w) /\ Duplicate(w))
    BY <2>2, ReplaceSteps DEF Contract!SpecNext
  <2>3. CASE ~(ClearList(w) \/ Create(w) \/ (Add(w) /\ Duplicate(w)))
    BY <1>1, <2>1, <2>3, AddSteps, OtherWriterSteps DEF WriterStep, Contract!specVars
  <2> QED
    BY <2>2, <2>3
<1>2. ASSUME NEW l \in Lookers, LookerStep(l)
      PROVE  Contract!SpecNext
  BY <1>2, MaskExistsStep, WriteMaskFindStep, WriteMaskReadStep
     DEF LookerStep, Contract!SpecNext
<1>3. ASSUME NEW r \in Readers, ReaderStep(r)
      PROVE  UNCHANGED Contract!specVars
  BY <1>3, ReaderSteps DEF Contract!specVars
<1>4. CASE UNCHANGED vars
  BY <1>4, InstalledStays DEF vars, writer, looker, Contract!specVars
<1> QED
  BY <1>1, <1>2, <1>3, <1>4 DEF Next

\* After msr_allowlist_init the list is empty and nobody holds an entry.
LEMMA ContractInit == Init => Contract!SpecInit
<1> SUFFICES ASSUME Init PROVE Contract!SpecInit
  OBVIOUS
<1>1. allowlist = NULL /\ allowlist_mutex \notin Writers
  BY TasksDisjoint DEF Init, Tasks
<1>2. InstalledList = Contract!Empty
  BY <1>1, NoArrayNoList DEF InstalledList
<1> QED
  BY <1>2 DEF Init, Contract!SpecInit, NotHeld

\* msr_allowlist.c keeps the contract that the rest of the module relies on: a list
\* is installed or cleared as a whole, and every lookup answers from the list that is
\* installed, except where a replacement falls between its two critical reads.
THEOREM ContractIsKept == Spec => ImplementsContract
<1>1. IInv /\ [Next]_vars => [Contract!SpecNext]_Contract!specVars
  BY ContractStep
<1> QED
  BY <1>1, ContractInit, Invariance, PTL DEF Spec, ImplementsContract, Contract!Spec
==============================================================================
