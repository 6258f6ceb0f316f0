----------------------------- MODULE MsrSaveProofs -----------------------------
(***************************************************************************)
(* The theorems of MsrSave: for any CPUs, lists and failures, a restore    *)
(* gives back what its save has read, writes nothing for a bad read, and   *)
(* is refused where the list is newer than the file.                       *)
(*                                                                         *)
(* SaveInv is inductive. The loops of msr_save and msr_restore walk CPUs   *)
(* and entries with one position: RegAt is the register there, and no two  *)
(* positions of a list without duplicates are the same register. BufferInv *)
(* says that the words a save has so far stand for what it has read,       *)
(* FileInv that the same holds of the file, TimeInv what the times of the  *)
(* file and of the list say about each other.                              *)
(***************************************************************************)
EXTENDS MsrSave, FiniteSetTheorems, SequenceTheorems, TLAPS

\* No register is listed twice.
Distinct(l) == \A i, j \in DOMAIN l : l[i].msr = l[j].msr => i = j

\* The entry and the register at position k of the loops over the CPUs and list l.
EntryAt(l, k) == l[(k % Len(l)) + 1]
RegAt(l, k) == <<k \div Len(l), EntryAt(l, k).msr>>

\* Words of a save through l that has read s: each stands for a bad read, or for the
\* masked value of its register, which is not what stands for a bad read.
Faithful(words, l, s) ==
  \A k \in 0 .. Len(words) - 1 :
    /\ RegAt(l, k) \in DOMAIN s \/ words[k + 1] = BadRead(EntryAt(l, k).mask)
    /\ Distinct(l) /\ RegAt(l, k) \in DOMAIN s =>
         /\ words[k + 1] = s[RegAt(l, k)] \cap EntryAt(l, k).mask
         /\ EntryAt(l, k).mask = Bits => s[RegAt(l, k)] # Cookie

Looping == {"open", "register", "write", "pwrite"}

\* Where a call is, and what it has done by then.
PlaceInv ==
  /\ spc = "idle" => op = "none" /\ ~moved
  /\ spc # "idle" => op \in {"save", "restore"}
  /\ spc = "write" => op = "save"
  /\ spc \in {"check", "pwrite"} => op = "restore"
  /\ spc \in {"idle", "list", "check"} => pos = 0 /\ buffer = <<>> /\ seen = Empty
  /\ spc = "idle" => copy = <<>>
  /\ spc \in Looping \cup {"check"} => copy # <<>>
  /\ spc \in {"register", "pwrite"} => pos < num_cpu * num_msr
  /\ op = "save" /\ spc \in Looping => Len(buffer) = pos
  /\ op = "restore" /\ spc \in Looping =>
       file # NoFile /\ buffer = file.words /\ Len(buffer) = num_cpu * num_msr
  /\ spc = "pwrite" => is_good_value(Word, Mask(pos))

\* The copy of the list is the list, as far as it goes, unless that was replaced.
CopyInv ==
  /\ op # "none" /\ ~moved =>
       Len(copy) <= Len(list) /\ \A i \in 1 .. Len(copy) : copy[i] = list[i]
  /\ spc \in Looping \cup {"check"} /\ ~moved => copy = list

\* What the save under way has in its buffer.
BufferInv ==
  op = "save" /\ spc \in Looping =>
    /\ Faithful(buffer, copy, seen)
    /\ \A h \in DOMAIN seen : \E k \in 0 .. pos - 1 : h = RegAt(copy, k)

FileInv == file # NoFile => Faithful(file.words, file.list, file.seen)

\* What the times of the two files say about the lists.
TimeInv ==
  /\ listTime <= clock
  /\ file # NoFile => file.time <= clock
  /\ file # NoFile /\ ~onDevice /\ ~file.raced =>
       /\ file.time >= listTime => file.list = list
       /\ op = "restore" /\ moved => file.time < listTime

SaveInv ==
  /\ SaveTypeOK
  /\ PlaceInv /\ CopyInv /\ BufferInv /\ FileInv /\ TimeInv
  /\ RestoredBehind /\ StaleListRefused

\* Position k of m * n is on one of m CPUs, at one of n entries.
LEMMA PositionBounds ==
  ASSUME NEW n \in Nat \ {0}, NEW m \in Nat, NEW k \in 0 .. m * n - 1
  PROVE  k \div n \in 0 .. m - 1 /\ (k % n) + 1 \in 1 .. n
<1>1. k \div n \in 0 .. m - 1
  OBVIOUS
<1>2. (k % n) + 1 \in 1 .. n
  OBVIOUS
<1> QED
  BY <1>1, <1>2

\* Each position is at an entry of the list.
LEMMA EntryOfPosition ==
  ASSUME NEW k \in Nat, NEW n \in Nat \ {0}
  PROVE  (k % n) + 1 \in 1 .. n
  OBVIOUS

\* The product is a whole number of CPUs.
LEMMA WholeCpus ==
  ASSUME NEW n \in Nat \ {0}, NEW m \in Nat
  PROVE  m * n \in Nat /\ (m * n) % n = 0
<1>1. m * n \in Nat
  OBVIOUS
<1>2. (m * n) % n = 0
  OBVIOUS
<1> QED
  BY <1>1, <1>2

\* The CPU and the entry make the position.
LEMMA SamePosition ==
  ASSUME NEW n \in Nat \ {0}, NEW k \in Nat, NEW j \in Nat, k \div n = j \div n, k % n = j % n
  PROVE  k = j
  OBVIOUS

\* Two positions of a list without duplicates are two registers.
LEMMA OneRegisterPerPosition ==
  ASSUME NEW l \in Seq(Entry), l # <<>>, Distinct(l), NEW k \in Nat, NEW j \in Nat,
         RegAt(l, k) = RegAt(l, j)
  PROVE  k = j
<1>1. Len(l) \in Nat \ {0} /\ DOMAIN l = 1 .. Len(l)
  OBVIOUS
<1>2. (k % Len(l)) + 1 \in 1 .. Len(l) /\ (j % Len(l)) + 1 \in 1 .. Len(l)
  BY <1>1, EntryOfPosition
<1>3. k \div Len(l) = j \div Len(l) /\ l[(k % Len(l)) + 1].msr = l[(j % Len(l)) + 1].msr
  BY DEF RegAt, EntryAt
<1>4. (k % Len(l)) + 1 = (j % Len(l)) + 1
  BY <1>1, <1>2, <1>3 DEF Distinct
<1>5. k % Len(l) = j % Len(l)
  BY <1>1, <1>4
<1> QED
  BY <1>1, <1>3, <1>5, SamePosition

\* The entry at a position is one of the list.
LEMMA EntryHasType ==
  ASSUME NEW l \in Seq(Entry), l # <<>>, NEW k \in Nat
  PROVE  /\ EntryAt(l, k) \in Entry /\ EntryAt(l, k).mask \in Masks
         /\ EntryAt(l, k).msr \in Addrs
         /\ \E i \in DOMAIN l : EntryAt(l, k) = l[i]
<1>1. Len(l) \in Nat \ {0} /\ DOMAIN l = 1 .. Len(l)
  OBVIOUS
<1>2. (k % Len(l)) + 1 \in 1 .. Len(l)
  BY <1>1, EntryOfPosition
<1>3. EntryAt(l, k) \in Entry
  BY <1>2 DEF EntryAt
<1> QED
  BY <1>1, <1>2, <1>3 DEF EntryAt, Entry

\* The position of the loops is a register of a CPU.
LEMMA PositionNamesRegister ==
  ASSUME SaveTypeOK, copy # <<>>, NEW k \in 0 .. num_cpu * num_msr - 1
  PROVE  /\ Cpu(k) \in CPUs /\ Reg(k) \in Addrs /\ Mask(k) \in Masks
         /\ <<Cpu(k), Reg(k)>> = RegAt(copy, k) /\ Mask(k) = EntryAt(copy, k).mask
         /\ RegAt(copy, k) \in Registers /\ k \in Nat
<1>1. /\ num_msr \in Nat \ {0} /\ num_cpu \in 0 .. NumCpu /\ copy \in Seq(Entry)
      /\ num_cpu * num_msr \in Nat
  BY WholeCpus, SaveAssumption DEF SaveTypeOK, num_msr
<1>2. k \in Nat
  BY <1>1
<1>3. k \div num_msr \in 0 .. num_cpu - 1
  <2>1. num_msr \in Nat \ {0} /\ num_cpu \in Nat
    BY <1>1, SaveAssumption
  <2> QED
    BY <2>1, PositionBounds
<1>4. k \div num_msr \in 0 .. NumCpu - 1
  BY <1>1, <1>3, SaveAssumption
<1>5. EntryAt(copy, k).mask \in Masks /\ EntryAt(copy, k).msr \in Addrs
  BY <1>1, <1>2, EntryHasType
<1>6. /\ Cpu(k) = k \div num_msr /\ Reg(k) = EntryAt(copy, k).msr
      /\ Mask(k) = EntryAt(copy, k).mask /\ RegAt(copy, k) = <<Cpu(k), Reg(k)>>
  BY DEF Cpu, Reg, Mask, EntryAt, RegAt, num_msr
<1> QED
  BY <1>2, <1>4, <1>5, <1>6 DEF CPUs, Registers

\* What stands for a bad read is not a good value.
LEMMA BadReadIsNotGood ==
  ASSUME NEW m \in Masks
  PROVE  ~is_good_value(BadRead(m), m)
  BY DEF BadRead, is_good_value, Masks

\* What a save writes for a value that it has read is good.
LEMMA ReadValueIsGood ==
  ASSUME NEW m \in Masks, NEW v \in Masks, m = Bits => v # Cookie
  PROVE  is_good_value(v \cap m, m)
  BY DEF is_good_value, Masks

\* The buffer of a save grows by a word for the next position.
LEMMA FaithfulGrows ==
  ASSUME NEW l \in Seq(Entry), l # <<>>, NEW b \in Seq(Masks), NEW w \in Masks, NEW s, NEW s2,
         Faithful(b, l, s),
         \A k \in 0 .. Len(b) - 1 : RegAt(l, k) \in DOMAIN s => RegAt(l, k) \in DOMAIN s2,
         \A k \in 0 .. Len(b) - 1 : Distinct(l) /\ RegAt(l, k) \in DOMAIN s2 =>
           RegAt(l, k) \in DOMAIN s /\ s2[RegAt(l, k)] = s[RegAt(l, k)],
         RegAt(l, Len(b)) \in DOMAIN s2 \/ w = BadRead(EntryAt(l, Len(b)).mask),
         Distinct(l) /\ RegAt(l, Len(b)) \in DOMAIN s2 =>
           /\ w = s2[RegAt(l, Len(b))] \cap EntryAt(l, Len(b)).mask
           /\ EntryAt(l, Len(b)).mask = Bits => s2[RegAt(l, Len(b))] # Cookie
  PROVE  Faithful(Append(b, w), l, s2)
<1>1. /\ Len(b) \in Nat /\ Len(Append(b, w)) = Len(b) + 1 /\ Append(b, w)[Len(b) + 1] = w
      /\ \A i \in 1 .. Len(b) : Append(b, w)[i] = b[i]
  OBVIOUS
<1> SUFFICES ASSUME NEW k \in 0 .. Len(b)
             PROVE  /\ \/ RegAt(l, k) \in DOMAIN s2
                       \/ Append(b, w)[k + 1] = BadRead(EntryAt(l, k).mask)
                    /\ Distinct(l) /\ RegAt(l, k) \in DOMAIN s2 =>
                         /\ Append(b, w)[k + 1] = s2[RegAt(l, k)] \cap EntryAt(l, k).mask
                         /\ EntryAt(l, k).mask = Bits => s2[RegAt(l, k)] # Cookie
  BY <1>1 DEF Faithful
<1>2. CASE k = Len(b)
  BY <1>1, <1>2
<1>3. CASE k # Len(b)
  <2>1. k \in 0 .. Len(b) - 1 /\ Append(b, w)[k + 1] = b[k + 1]
    BY <1>1, <1>3
  <2>2. /\ RegAt(l, k) \in DOMAIN s \/ b[k + 1] = BadRead(EntryAt(l, k).mask)
        /\ Distinct(l) /\ RegAt(l, k) \in DOMAIN s =>
             /\ b[k + 1] = s[RegAt(l, k)] \cap EntryAt(l, k).mask
             /\ EntryAt(l, k).mask = Bits => s[RegAt(l, k)] # Cookie
    BY <2>1 DEF Faithful
  <2> QED
    BY <2>1, <2>2
<1> QED
  BY <1>2, <1>3

\* Nothing is lost behind the loops while their place and the registers stay.
LEMMA RestoredStays ==
  ASSUME SaveInv, UNCHANGED <<msr, file, op, copy, moved, pos>>, failed \subseteq failed'
  PROVE  RestoredBehind'
<1>1. CASE spc = "check"
  BY <1>1 DEF SaveInv, PlaceInv, RestoredBehind
<1>2. CASE spc # "check"
  <2> SUFFICES ASSUME op = "restore", ~moved, SameList, NEW k \in 0 .. pos - 1,
                      <<Cpu(k), Reg(k)>> \in DOMAIN file.seen \ failed
               PROVE  msr[Cpu(k)][Reg(k)] \cap Mask(k)
                        = file.seen[<<Cpu(k), Reg(k)>>] \cap Mask(k)
    BY DEF RestoredBehind, SameList, Cpu, Reg, Mask, num_msr
  <2> QED
    BY <1>2 DEF SaveInv, RestoredBehind
<1> QED
  BY <1>1, <1>2

\* goto exit, and the end of msr_restore.
LEMMA FailStep ==
  ASSUME SaveInv, spc # "idle", spc' = "return", err' \in {0, 1}, troubles' \in 0 .. MaxTroubles,
         UNCHANGED <<machine, admin, file, op, num_cpu, copy, buffer, read_val, pos, history>>
  PROVE  SaveInv'
<1> USE DEF SaveInv, machine, admin, history
<1>1. SaveTypeOK'
  BY DEF SaveTypeOK, num_msr, Labels
<1>2. PlaceInv' /\ CopyInv' /\ BufferInv' /\ FileInv' /\ TimeInv' /\ StaleListRefused'
  BY DEF PlaceInv, CopyInv, BufferInv, FileInv, TimeInv, StaleListRefused, Looping
<1> QED
  BY <1>1, <1>2, RestoredStays

\* A step inside the loops that leaves the lists and the file alone.
LEMMA LoopStep ==
  ASSUME SaveInv, UNCHANGED <<admin, file, op, num_cpu, copy, moved>>,
         spc \in Looping, spc' \in Looping, SaveTypeOK', PlaceInv', BufferInv', RestoredBehind',
         spc = "write" => spc' = "write"
  PROVE  SaveInv'
<1> USE DEF SaveInv, admin
<1>1. CopyInv' /\ FileInv' /\ TimeInv'
  BY DEF CopyInv, FileInv, TimeInv, Looping
<1>2. StaleListRefused'
  BY DEF StaleListRefused, SameList, Looping
<1> QED
  BY <1>1, <1>2

\* msr_save or msr_restore is called, with nothing of an earlier call left.
LEMMA CallStepHolds == ASSUME SaveInv, NEW o \in {"save", "restore"}, Call(o) PROVE SaveInv'
<1> USE DEF SaveInv, Call, Step, machine, admin, history
<1>1. pos = 0 /\ buffer = <<>> /\ seen = Empty /\ copy = <<>> /\ spc = "idle" /\ ~moved
      /\ op = "none"
  BY DEF PlaceInv
<1>2. Cardinality(online) \in 0 .. NumCpu
  <2>1. IsFiniteSet(CPUs) /\ Cardinality(CPUs) = NumCpu
    BY FS_Interval, SaveAssumption DEF CPUs
  <2>2. Cardinality(online) \in Nat /\ Cardinality(online) <= NumCpu
    BY <2>1, FS_Subset, FS_CardinalityType DEF SaveTypeOK
  <2> QED
    BY <2>2, SaveAssumption
<1>3. SaveTypeOK'
  <2>1. num_cpu' * num_msr' \in Nat /\ pos' \in 0 .. num_cpu' * num_msr' /\ Len(buffer') = 0
    BY <1>1, <1>2, SaveAssumption DEF num_msr
  <2> QED
    BY <1>2, <2>1 DEF SaveTypeOK, Labels
<1>4. PlaceInv' /\ CopyInv' /\ BufferInv' /\ FileInv' /\ StaleListRefused'
  BY <1>1 DEF PlaceInv, CopyInv, BufferInv, FileInv, StaleListRefused, Looping, SaveTypeOK
<1>5. TimeInv'
  BY <1>1 DEF TimeInv
<1>6. RestoredBehind'
  BY <1>1 DEF RestoredBehind
<1> QED
  BY <1>3, <1>4, <1>5, <1>6

\* The copy of the list grows by the entry that is next in the listing.
LEMMA CopyEntryHolds == ASSUME SaveInv, CopyEntry PROVE SaveInv'
<1> USE DEF SaveInv, CopyEntry, Step, machine, admin, history
<1>1. pos = 0 /\ buffer = <<>> /\ seen = Empty /\ spc = "list" /\ op \in {"save", "restore"}
  BY DEF PlaceInv
<1>2. /\ Len(copy) \in Nat /\ Len(copy) < Len(list) /\ list \in Seq(Entry)
      /\ list[Len(copy) + 1] \in Entry /\ copy \in Seq(Entry)
  <2>1. list \in Seq(Entry) /\ Len(copy) \in Nat /\ Len(copy) < Len(list)
    BY SaveAssumption DEF SaveTypeOK, num_msr
  <2>2. Len(copy) + 1 \in 1 .. Len(list)
    BY <2>1
  <2> QED
    BY <2>1, <2>2 DEF SaveTypeOK
<1>3. /\ copy' = Append(copy, list[Len(copy) + 1]) /\ copy' \in Seq(Entry)
      /\ Len(copy') = Len(copy) + 1 /\ copy'[Len(copy) + 1] = list[Len(copy) + 1]
      /\ \A i \in 1 .. Len(copy) : copy'[i] = copy[i]
  BY <1>2 DEF num_msr
<1>4. SaveTypeOK'
  <2>1. num_cpu * Len(copy') \in Nat
    BY <1>3, WholeCpus, SaveAssumption DEF SaveTypeOK
  <2> QED
    BY <1>1, <1>3, <2>1 DEF SaveTypeOK, num_msr
<1>5. CopyInv'
  <2>1. ASSUME ~moved
        PROVE  Len(copy') <= Len(list) /\ \A i \in 1 .. Len(copy') : copy'[i] = list[i]
    <3>1. \A i \in 1 .. Len(copy) : copy[i] = list[i]
      BY <1>1, <2>1 DEF CopyInv
    <3> QED
      BY <1>2, <1>3, <3>1
  <2> QED
    BY <1>1, <2>1 DEF CopyInv, Looping
<1>6. PlaceInv' /\ BufferInv' /\ FileInv' /\ TimeInv' /\ StaleListRefused' /\ RestoredBehind'
  BY <1>1 DEF PlaceInv, BufferInv, FileInv, TimeInv, StaleListRefused, RestoredBehind, Looping
<1> QED
  BY <1>4, <1>5, <1>6

\* The copy of the list is complete, and memory for the words is allocated.
LEMMA CopyEndHolds == ASSUME SaveInv, CopyEnd PROVE SaveInv'
<1>1. /\ UNCHANGED <<machine, admin, file, op, num_cpu, copy, buffer, read_val, pos, history>>
      /\ UNCHANGED troubles /\ spc = "list" /\ num_msr >= Len(list) /\ err' \in {err, 1}
      /\ spc' = IF copy = <<>> THEN "return" ELSE IF op = "save" THEN "open" ELSE "check"
  BY DEF CopyEnd, Fail, Step
<1>2. CASE copy = <<>>
  BY <1>1, <1>2, FailStep DEF SaveInv, SaveTypeOK
<1>3. CASE copy # <<>>
  <2> USE <1>1 DEF SaveInv, machine, admin, history
  <2>1. pos = 0 /\ buffer = <<>> /\ seen = Empty /\ op \in {"save", "restore"}
    BY DEF PlaceInv
  <2>2. SaveTypeOK'
    BY <1>3 DEF SaveTypeOK, num_msr, Labels
  <2>3. ~moved => copy = list
    <3> HAVE ~moved
    <3>1. /\ copy \in Seq(Entry) /\ list \in Seq(Entry) /\ Len(copy) >= Len(list)
          /\ Len(copy) <= Len(list) /\ \A i \in 1 .. Len(copy) : copy[i] = list[i]
      BY <2>1, SaveAssumption DEF SaveTypeOK, CopyInv, num_msr
    <3> QED
      BY <3>1, SeqEqual
  <2>4. CopyInv'
    BY <2>3 DEF CopyInv
  <2>5. PlaceInv'
    BY <1>3, <2>1 DEF PlaceInv, Looping
  <2>6. BufferInv'
    BY <2>1 DEF BufferInv, Faithful, Empty
  <2>7. FileInv' /\ TimeInv' /\ StaleListRefused' /\ RestoredBehind'
    BY <1>3, <2>1 DEF FileInv, TimeInv, StaleListRefused, RestoredBehind
  <2> QED
    BY <2>2, <2>4, <2>5, <2>6, <2>7
<1> QED
  BY <1>2, <1>3

\* The outer loop opens the device of the next CPU.
LEMMA OpenCpuHolds == ASSUME SaveInv, OpenCpu PROVE SaveInv'
<1>1. /\ UNCHANGED <<machine, admin, file, op, num_cpu, copy, buffer, read_val, pos, history>>
      /\ UNCHANGED troubles /\ spc = "open" /\ pos < num_cpu * num_msr
      /\ (spc' = "register" /\ err' = err) \/ (spc' = "return" /\ err' = 1)
  BY DEF OpenCpu, Fail, Step
<1>2. CASE spc' = "return"
  BY <1>1, <1>2, FailStep DEF SaveInv, SaveTypeOK
<1>3. CASE spc' = "register"
  <2> USE <1>1, <1>3 DEF SaveInv, machine, admin, history
  <2>1. SaveTypeOK'
    BY DEF SaveTypeOK, num_msr, Labels
  <2>2. PlaceInv' /\ BufferInv'
    BY DEF PlaceInv, BufferInv, Looping, num_msr
  <2>3. RestoredBehind'
    BY RestoredStays
  <2> QED
    BY <2>1, <2>2, <2>3, LoopStep DEF Looping
<1> QED
  BY <1>1, <1>2, <1>3

\* The outer loop is past the last CPU.
LEMMA AllDoneHolds == ASSUME SaveInv, AllDone PROVE SaveInv'
<1>1. /\ UNCHANGED <<machine, admin, file, locals, pos, history, troubles>> /\ spc = "open"
      /\ spc' = IF op = "save" THEN "write" ELSE "return"
  BY DEF AllDone, Step
<1>2. CASE op # "save"
  BY <1>1, <1>2, FailStep DEF SaveInv, SaveTypeOK, locals
<1>3. CASE op = "save"
  <2> USE <1>1, <1>3 DEF SaveInv, machine, admin, history, locals
  <2>1. SaveTypeOK'
    BY DEF SaveTypeOK, num_msr, Labels
  <2>2. PlaceInv' /\ BufferInv'
    BY DEF PlaceInv, BufferInv, Looping, num_msr
  <2>3. RestoredBehind'
    BY RestoredStays
  <2> QED
    BY <2>1, <2>2, <2>3, LoopStep DEF Looping
<1> QED
  BY <1>2, <1>3

\* A system call fails, and the call goes to its exit.
LEMMA SystemCallFailsHolds == ASSUME SaveInv, SystemCallFails PROVE SaveInv'
<1>1. /\ UNCHANGED <<machine, admin, file, op, num_cpu, copy, buffer, read_val, pos, history>>
      /\ spc # "idle" /\ spc' = "return" /\ err' = 1
      /\ troubles < MaxTroubles /\ troubles' = troubles + 1
  BY DEF SystemCallFails, Fail, Step, Trouble
<1>2. troubles' \in 0 .. MaxTroubles
  BY <1>1, SaveAssumption DEF SaveInv, SaveTypeOK
<1> QED
  BY <1>1, <1>2, FailStep

\* A register holds the value that stands for a bad read: the save is given up.
LEMMA SaveCookieHolds == ASSUME SaveInv, SaveCookie PROVE SaveInv'
  BY FailStep DEF SaveCookie, Fail, Step, SaveInv, SaveTypeOK

\* The loops go on to a register only where there is one left.
LEMMA AdvanceBounds ==
  ASSUME SaveInv, Advance, UNCHANGED <<num_cpu, copy>>, spc \in {"register", "pwrite"}
  PROVE  /\ copy # <<>> /\ pos \in 0 .. num_cpu * num_msr - 1
         /\ pos' = pos + 1 /\ pos' \in 0 .. num_cpu' * num_msr'
         /\ spc' \in {"open", "register"} /\ (spc' = "register" => pos' < num_cpu * num_msr)
<1>1. /\ copy # <<>> /\ copy \in Seq(Entry) /\ num_msr \in Nat \ {0} /\ num_cpu \in Nat
      /\ num_cpu * num_msr \in Nat /\ pos \in Nat /\ pos < num_cpu * num_msr
  <2>1. copy # <<>> /\ pos < num_cpu * num_msr
    BY DEF SaveInv, PlaceInv, Looping
  <2>2. copy \in Seq(Entry) /\ num_cpu \in Nat
    BY SaveAssumption DEF SaveInv, SaveTypeOK
  <2>3. num_msr \in Nat \ {0}
    BY <2>1, <2>2 DEF num_msr
  <2>4. num_cpu * num_msr \in Nat
    BY <2>2, <2>3, WholeCpus
  <2> QED
    BY <2>1, <2>2, <2>3, <2>4 DEF SaveInv, SaveTypeOK
<1>2. pos' = pos + 1 /\ num_cpu' * num_msr' = num_cpu * num_msr
  BY DEF Advance, num_msr
<1>3. pos + 1 = num_cpu * num_msr => (pos + 1) % num_msr = 0
  BY <1>1, WholeCpus
<1>4. spc' = IF (pos + 1) % num_msr = 0 THEN "open" ELSE "register"
  BY DEF Advance
<1> QED
  BY <1>1, <1>2, <1>3, <1>4

\* A word for the register at the position of a save.
LEMMA SaveAppends ==
  ASSUME SaveInv, op = "save", spc = "register", Advance, NEW w \in Masks,
         buffer' = Append(buffer, w), seen' \in Readings,
         DOMAIN seen' \subseteq DOMAIN seen \cup {Here}, DOMAIN seen \subseteq DOMAIN seen',
         \A h \in DOMAIN seen \ {Here} : seen'[h] = seen[h],
         Here \in DOMAIN seen' \/ w = BadRead(Mask(pos)),
         Here \in DOMAIN seen' /\ Distinct(copy) =>
           w = seen'[Here] \cap Mask(pos) /\ (Mask(pos) = Bits => seen'[Here] # Cookie),
         troubles' \in 0 .. MaxTroubles,
         UNCHANGED <<machine, admin, file, op, num_cpu, copy, read_val, err, failed, moved>>
  PROVE  SaveInv'
<1>1. /\ copy # <<>> /\ pos \in 0 .. num_cpu * num_msr - 1 /\ pos' = pos + 1
      /\ pos' \in 0 .. num_cpu' * num_msr' /\ spc' \in {"open", "register"}
      /\ spc' = "register" => pos' < num_cpu * num_msr
  BY AdvanceBounds
<1>2. /\ copy \in Seq(Entry) /\ buffer \in Seq(Masks) /\ Len(buffer) = pos /\ pos \in Nat
      /\ Here = RegAt(copy, pos) /\ Mask(pos) = EntryAt(copy, pos).mask
  BY <1>1, PositionNamesRegister DEF SaveInv, SaveTypeOK, PlaceInv, Looping, Here
<1>3. buffer' \in Seq(Masks) /\ Len(buffer') = pos'
  BY <1>1, <1>2
<1>4. SaveTypeOK'
  BY <1>1, <1>3 DEF SaveInv, SaveTypeOK, Labels, machine, admin
<1>5. PlaceInv'
  BY <1>1, <1>3 DEF SaveInv, PlaceInv, Looping, num_msr
<1>6. /\ Faithful(buffer, copy, seen)
      /\ \A h \in DOMAIN seen : \E k \in 0 .. pos - 1 : h = RegAt(copy, k)
  BY DEF SaveInv, BufferInv, Looping
<1>7. Faithful(buffer', copy, seen')
  <2>1. \A k \in 0 .. Len(buffer) - 1 : RegAt(copy, k) \in DOMAIN seen =>
          RegAt(copy, k) \in DOMAIN seen'
    OBVIOUS
  <2>2. \A k \in 0 .. Len(buffer) - 1 : Distinct(copy) /\ RegAt(copy, k) \in DOMAIN seen' =>
          RegAt(copy, k) \in DOMAIN seen /\ seen'[RegAt(copy, k)] = seen[RegAt(copy, k)]
    <3> SUFFICES ASSUME NEW k \in 0 .. Len(buffer) - 1, Distinct(copy),
                        RegAt(copy, k) \in DOMAIN seen'
                 PROVE  RegAt(copy, k) \in DOMAIN seen \ {Here}
      OBVIOUS
    <3>1. k \in Nat /\ k # pos
      BY <1>2
    <3>2. RegAt(copy, k) # Here
      BY <1>1, <1>2, <3>1, OneRegisterPerPosition
    <3> QED
      BY <3>2
  <2> QED
    BY <1>1, <1>2, <1>6, <2>1, <2>2, FaithfulGrows
<1>8. ASSUME NEW h \in DOMAIN seen' PROVE \E k \in 0 .. pos : h = RegAt(copy, k)
  <2>1. CASE h = Here
    BY <1>2, <2>1
  <2>2. CASE h # Here
    <3>1. PICK k \in 0 .. pos - 1 : h = RegAt(copy, k)
      BY <1>6, <2>2
    <3> QED
      BY <1>2, <3>1
  <2> QED
    BY <2>1, <2>2
<1>9. BufferInv'
  <2>1. pos' - 1 = pos
    BY <1>1, <1>2
  <2> QED
    BY <1>7, <1>8, <2>1 DEF BufferInv
<1>10. RestoredBehind'
  BY DEF RestoredBehind
<1> QED
  BY <1>1, <1>4, <1>5, <1>9, <1>10, LoopStep DEF Looping

\* The save appends the masked value of the register it has read.
LEMMA SaveValueHolds == ASSUME SaveInv, SaveValue PROVE SaveInv'
<1>1. pos \in 0 .. num_cpu * num_msr - 1 /\ copy # <<>>
  BY AdvanceBounds DEF SaveValue
<1>2. Here \in Registers /\ Mask(pos) \in Masks /\ Cpu(pos) \in CPUs /\ Reg(pos) \in Addrs
  BY <1>1, PositionNamesRegister DEF SaveInv, Here
<1>3. Value \in Masks
  BY <1>2 DEF Value, SaveInv, SaveTypeOK
<1>4. seen = [x \in DOMAIN seen |-> seen[x]] /\ DOMAIN seen \subseteq Registers
      /\ \A x \in DOMAIN seen : seen[x] \in Masks
  BY DEF SaveInv, SaveTypeOK, Readings
<1>5. /\ seen' = [x \in DOMAIN seen \cup {Here} |-> IF x = Here THEN Value ELSE seen[x]]
      /\ DOMAIN seen' = DOMAIN seen \cup {Here} /\ seen'[Here] = Value
      /\ \A h \in DOMAIN seen \ {Here} : seen'[h] = seen[h]
  BY DEF SaveValue
<1>6. seen' \in Readings
  <2>1. DOMAIN seen \cup {Here} \in SUBSET Registers
    BY <1>2, <1>4
  <2>2. seen' \in [DOMAIN seen \cup {Here} -> Masks]
    BY <1>3, <1>4, <1>5
  <2> QED
    BY <2>1, <2>2 DEF Readings
<1>7. Value \cap Mask(pos) \in Masks
  BY <1>3 DEF Masks
<1> QED
  BY <1>5, <1>6, <1>7, SaveAppends DEF SaveValue, SaveInv, SaveTypeOK

\* The save appends the word that stands for a bad read.
LEMMA SaveBadReadHolds == ASSUME SaveInv, SaveBadRead PROVE SaveInv'
<1>1. /\ pos \in 0 .. num_cpu * num_msr - 1 /\ copy # <<>> /\ copy \in Seq(Entry)
      /\ spc = "register" /\ op = "save"
  BY AdvanceBounds DEF SaveBadRead, SaveInv, SaveTypeOK
<1>2. Here = RegAt(copy, pos) /\ pos \in Nat
  BY <1>1, PositionNamesRegister DEF SaveInv, Here
<1>3. BadRead(Mask(pos)) \in Masks
  BY SaveAssumption DEF BadRead, Masks
<1>4. ~(Here \in DOMAIN seen /\ Distinct(copy))
  <2> SUFFICES ASSUME Here \in DOMAIN seen, Distinct(copy) PROVE FALSE
    OBVIOUS
  <2>1. PICK k \in 0 .. pos - 1 : Here = RegAt(copy, k)
    BY <1>1 DEF SaveInv, BufferInv, Looping
  <2>2. k \in Nat /\ k # pos
    BY <1>2
  <2> QED
    BY <1>1, <1>2, <2>1, <2>2, OneRegisterPerPosition
<1>5. troubles' \in 0 .. MaxTroubles
  BY SaveAssumption DEF SaveBadRead, AccessFails, Trouble, SaveInv, SaveTypeOK
<1>6. seen' = seen /\ seen \in Readings
  BY DEF SaveBadRead, history, SaveInv, SaveTypeOK
<1> QED
  BY <1>3, <1>4, <1>5, <1>6, SaveAppends DEF SaveBadRead, history

\* A part of the words is faithful as well.
LEMMA FaithfulPrefix ==
  ASSUME NEW b \in Seq(Masks), NEW n \in 0 .. Len(b), NEW l, NEW s, Faithful(b, l, s)
  PROVE  SubSeq(b, 1, n) \in Seq(Masks) /\ Faithful(SubSeq(b, 1, n), l, s)
<1>1. /\ SubSeq(b, 1, n) \in Seq(Masks) /\ Len(SubSeq(b, 1, n)) = n
      /\ \A k \in 0 .. n - 1 : SubSeq(b, 1, n)[k + 1] = b[k + 1] /\ k \in 0 .. Len(b) - 1
  OBVIOUS
<1> QED
  BY <1>1 DEF Faithful

\* The save writes its words to the file, all of them or, when that fails, some.
LEMMA WriteFileHolds == ASSUME SaveInv, WriteFile PROVE SaveInv'
<1>1. PICK words :
        /\ words \in Seq(Masks) /\ Faithful(words, copy, seen) /\ file' = Saved(words)
        /\ err' \in {0, 1} /\ troubles' \in 0 .. MaxTroubles
  <2>1. Faithful(buffer, copy, seen) /\ buffer \in Seq(Masks)
    BY DEF WriteFile, Step, SaveInv, PlaceInv, BufferInv, Looping, SaveTypeOK
  <2>2. CASE file' = Saved(buffer) /\ UNCHANGED <<err, troubles>>
    BY <2>1, <2>2 DEF SaveInv, SaveTypeOK
  <2>3. CASE \E n \in 0 .. Len(buffer) :
               file' = Saved(SubSeq(buffer, 1, n)) /\ err' = 1 /\ Trouble
    <3>1. PICK n \in 0 .. Len(buffer) :
            file' = Saved(SubSeq(buffer, 1, n)) /\ err' = 1 /\ Trouble
      BY <2>3
    <3>2. troubles' \in 0 .. MaxTroubles
      BY <3>1, SaveAssumption DEF Trouble, SaveInv, SaveTypeOK
    <3> QED
      BY <2>1, <3>1, <3>2, FaithfulPrefix
  <2> QED
    BY <2>2, <2>3 DEF WriteFile
<1>2. /\ UNCHANGED <<machine, admin, op, num_cpu, copy, buffer, read_val, pos, history>>
      /\ spc = "write" /\ spc' = "return" /\ op = "save"
  BY DEF WriteFile, Step, SaveInv, PlaceInv
<1>3. /\ file'.words = words /\ file'.time = clock /\ file'.list = copy /\ file'.seen = seen
      /\ file'.raced = moved
  BY <1>1 DEF Saved
<1>4. file' \in FileType
  <2>1. /\ words \in Seq(Masks) /\ clock \in 0 .. MaxTime /\ copy \in Seq(Entry)
        /\ seen \in Readings /\ moved \in BOOLEAN
    BY <1>1 DEF SaveInv, SaveTypeOK
  <2> QED
    BY <1>1, <2>1 DEF Saved, FileType
<1> USE <1>2 DEF SaveInv, machine, admin, history
<1>5. SaveTypeOK'
  BY <1>1, <1>4 DEF SaveTypeOK, num_msr, Labels
<1>6. PlaceInv' /\ CopyInv' /\ BufferInv' /\ RestoredBehind' /\ StaleListRefused'
  BY DEF PlaceInv, CopyInv, BufferInv, RestoredBehind, StaleListRefused, Looping
<1>7. FileInv'
  BY <1>1, <1>3 DEF FileInv
<1>8. TimeInv'
  <2>1. ~moved => copy = list
    BY DEF CopyInv, Looping
  <2> QED
    BY <1>3, <2>1 DEF TimeInv, SaveTypeOK
<1> QED
  BY <1>5, <1>6, <1>7, <1>8

\* The restore reads the file, if that is not older than the list.
LEMMA CheckFileHolds == ASSUME SaveInv, CheckFile PROVE SaveInv'
<1>1. /\ UNCHANGED <<machine, admin, file, op, num_cpu, copy, read_val, pos, history, troubles>>
      /\ spc = "check" /\ op = "restore" /\ copy # <<>> /\ pos = 0
  BY DEF CheckFile, Fail, Step, SaveInv, PlaceInv
<1>2. CASE ~Accepted
  BY <1>1, <1>2, FailStep DEF CheckFile, Fail, Step, SaveInv, SaveTypeOK
<1>3. CASE Accepted
  <2> USE <1>1, <1>3 DEF SaveInv, machine, admin, history
  <2>1. /\ spc' = "open" /\ err' = err /\ buffer' = file.words
        /\ file # NoFile /\ file.time >= listTime /\ Len(buffer') = num_cpu * num_msr
    BY DEF CheckFile, Step, Accepted, Fresh
  <2>2. file \in FileType /\ buffer' \in Seq(Masks)
    BY <2>1 DEF SaveTypeOK, FileType
  <2>3. SaveTypeOK'
    BY <2>1, <2>2 DEF SaveTypeOK, num_msr, Labels
  <2>4. PlaceInv' /\ CopyInv' /\ BufferInv' /\ FileInv' /\ TimeInv'
    BY <2>1 DEF PlaceInv, CopyInv, BufferInv, FileInv, TimeInv, Looping, num_msr
  <2>5. RestoredBehind'
    BY DEF RestoredBehind
  <2>6. StaleListRefused'
    <3> SUFFICES ASSUME ~onDevice, ~file.raced PROVE copy = file.list
      BY <2>1 DEF StaleListRefused, SameList
    <3>1. file.list = list /\ ~(file.time < listTime)
      BY <2>1, <2>2 DEF TimeInv, SaveTypeOK, FileType
    <3>2. ~moved
      BY <2>1, <3>1 DEF TimeInv
    <3> QED
      BY <3>1, <3>2 DEF CopyInv
  <2> QED
    BY <2>3, <2>4, <2>5, <2>6
<1> QED
  BY <1>2, <1>3

\* The word for a register that the save has read is its masked value, and is good.
LEMMA WordOfSave ==
  ASSUME SaveInv, op = "restore", spc \in {"register", "pwrite"}, ~moved, SameList
  PROVE  /\ copy = list /\ Distinct(copy)
         /\ Here \in DOMAIN file.seen =>
              Word = file.seen[Here] \cap Mask(pos) /\ is_good_value(Word, Mask(pos))
<1>1. copy = list /\ Distinct(copy)
  BY SaveAssumption DEF SaveInv, CopyInv, Looping, SaveTypeOK, Distinct
<1>2. ASSUME Here \in DOMAIN file.seen
      PROVE  Word = file.seen[Here] \cap Mask(pos) /\ is_good_value(Word, Mask(pos))
  <2>1. /\ pos < num_cpu * num_msr /\ copy # <<>> /\ buffer = file.words
        /\ Len(buffer) = num_cpu * num_msr /\ file # NoFile /\ copy = file.list
    BY DEF SaveInv, PlaceInv, Looping, SameList
  <2>2. buffer \in Seq(Masks) /\ copy \in Seq(Entry) /\ file \in FileType /\ pos \in Nat
    <3>1. num_cpu * num_msr \in Nat
      BY <2>1 DEF SaveInv, SaveTypeOK
    <3> QED
      BY <2>1, <3>1 DEF SaveInv, SaveTypeOK
  <2>3. pos \in 0 .. Len(buffer) - 1 /\ pos \in 0 .. num_cpu * num_msr - 1
    BY <2>1, <2>2
  <2>4. Here = RegAt(copy, pos) /\ Mask(pos) = EntryAt(copy, pos).mask /\ Mask(pos) \in Masks
    BY <2>1, <2>3, PositionNamesRegister DEF SaveInv, Here
  <2>5. file.seen[Here] \in Masks
    BY <1>2, <2>2 DEF FileType, Readings
  <2>6. /\ Word = file.seen[Here] \cap Mask(pos)
        /\ Mask(pos) = Bits => file.seen[Here] # Cookie
    BY <1>1, <1>2, <2>1, <2>3, <2>4 DEF SaveInv, FileInv, Faithful, Word
  <2> QED
    BY <2>4, <2>5, <2>6, ReadValueIsGood
<1> QED
  BY <1>1, <1>2

\* A step of a restore to the next position.
LEMMA RestoreAdvances ==
  ASSUME SaveInv, op = "restore", spc \in {"register", "pwrite"}, Advance,
         UNCHANGED <<online, admin, file, locals, seen, moved>>,
         msr' \in [CPUs -> [Addrs -> Masks]], troubles' \in 0 .. MaxTroubles,
         failed \subseteq failed', failed' \subseteq Registers,
         ~moved /\ SameList /\ Here \in DOMAIN file.seen \ failed' =>
           msr'[Cpu(pos)][Reg(pos)] \cap Mask(pos) = file.seen[Here] \cap Mask(pos),
         ~moved /\ SameList =>
           \A k \in 0 .. pos - 1 : msr'[Cpu(k)][Reg(k)] = msr[Cpu(k)][Reg(k)]
  PROVE  SaveInv'
<1>1. /\ copy # <<>> /\ pos \in 0 .. num_cpu * num_msr - 1 /\ pos' = pos + 1
      /\ pos' \in 0 .. num_cpu' * num_msr' /\ spc' \in {"open", "register"}
      /\ spc' = "register" => pos' < num_cpu * num_msr
  BY AdvanceBounds DEF locals
<1>2. /\ buffer = file.words /\ Len(buffer) = num_cpu * num_msr /\ file # NoFile /\ pos \in Nat
      /\ num_cpu' * num_msr' = num_cpu * num_msr
  BY <1>1, PositionNamesRegister DEF SaveInv, PlaceInv, Looping, locals, num_msr
<1>3. SaveTypeOK'
  BY <1>1, <1>2 DEF SaveInv, SaveTypeOK, Labels, locals, admin
<1>4. PlaceInv'
  BY <1>1, <1>2 DEF SaveInv, PlaceInv, Looping, locals
<1>5. BufferInv'
  BY DEF BufferInv, locals
<1>6. RestoredBehind'
  <2> SUFFICES ASSUME ~moved, SameList, NEW k \in 0 .. pos,
                      <<Cpu(k), Reg(k)>> \in DOMAIN file.seen \ failed'
               PROVE  msr'[Cpu(k)][Reg(k)] \cap Mask(k)
                        = file.seen[<<Cpu(k), Reg(k)>>] \cap Mask(k)
    <3>1. 0 .. pos' - 1 = 0 .. pos
      BY <1>1, <1>2
    <3> QED
      BY <3>1 DEF RestoredBehind, SameList, Cpu, Reg, Mask, num_msr, locals
  <2>1. CASE k = pos
    BY <2>1 DEF Here
  <2>2. CASE k # pos
    <3>1. k \in 0 .. pos - 1
      BY <1>2, <2>2
    <3> QED
      BY <3>1 DEF SaveInv, RestoredBehind
  <2> QED
    BY <2>1, <2>2
<1> QED
  BY <1>1, <1>3, <1>4, <1>5, <1>6, LoopStep DEF Looping, locals

\* The restore passes over a register whose word stands for a bad read.
LEMMA SkipRegisterHolds == ASSUME SaveInv, SkipRegister PROVE SaveInv'
<1>1. /\ op = "restore" /\ spc = "register" /\ Advance
      /\ UNCHANGED <<machine, admin, file, locals, history, troubles>>
      /\ ~is_good_value(Word, Mask(pos)) \/ Word = Value \cap Mask(pos)
  BY DEF SkipRegister, Restoring, Unchanged
<1>2. ~moved /\ SameList /\ Here \in DOMAIN file.seen \ failed =>
        msr[Cpu(pos)][Reg(pos)] \cap Mask(pos) = file.seen[Here] \cap Mask(pos)
  BY <1>1, WordOfSave DEF Value
<1> QED
  BY <1>1, <1>2, RestoreAdvances DEF machine, history, SaveInv, SaveTypeOK

\* The restore reads the register to merge the saved bits into it.
LEMMA ReadRegisterHolds == ASSUME SaveInv, ReadRegister PROVE SaveInv'
<1>1. /\ op = "restore" /\ spc = "register" /\ spc' = "pwrite" /\ read_val' = Value
      /\ is_good_value(Word, Mask(pos))
      /\ UNCHANGED <<machine, admin, file, op, num_cpu, copy, buffer, err, pos>>
      /\ UNCHANGED <<history, troubles>>
  BY DEF ReadRegister, Restoring
<1>2. /\ copy # <<>> /\ pos < num_cpu * num_msr /\ pos \in 0 .. num_cpu * num_msr
      /\ num_cpu * num_msr \in Nat
  <2>1. copy # <<>> /\ copy \in Seq(Entry) /\ num_cpu \in Nat /\ num_msr = Len(copy)
    BY <1>1, SaveAssumption DEF SaveInv, PlaceInv, Looping, SaveTypeOK, num_msr
  <2>2. num_cpu * num_msr \in Nat
    BY <2>1, WholeCpus
  <2> QED
    BY <1>1, <2>1, <2>2 DEF SaveInv, PlaceInv, SaveTypeOK
<1>3. Value \in Masks
  <2>1. Cpu(pos) \in CPUs /\ Reg(pos) \in Addrs
    BY <1>2, PositionNamesRegister DEF SaveInv
  <2> QED
    BY <2>1 DEF Value, SaveInv, SaveTypeOK
<1>4. SaveTypeOK'
  BY <1>1, <1>3 DEF SaveInv, SaveTypeOK, num_msr, Labels, machine, admin, history
<1>5. PlaceInv'
  BY <1>1 DEF SaveInv, PlaceInv, Looping, num_msr, history, Word, Mask, is_good_value
<1>6. BufferInv'
  BY <1>1 DEF BufferInv
<1>7. RestoredBehind'
  BY <1>1, RestoredStays DEF machine, history
<1> QED
  BY <1>1, <1>4, <1>5, <1>6, <1>7, LoopStep DEF Looping, history

\* The read or the write of the register fails, and the restore passes over it.
LEMMA AccessWarningHolds == ASSUME SaveInv, AccessWarning PROVE SaveInv'
<1>1. /\ op = "restore" /\ spc \in {"register", "pwrite"} /\ Advance
      /\ UNCHANGED <<machine, admin, file, locals, seen, moved>>
      /\ failed' = failed \cup {Here}
  BY DEF AccessWarning, Restoring
<1>2. Here \in Registers
  BY <1>1, AdvanceBounds, PositionNamesRegister DEF locals, SaveInv, Here
<1>3. troubles' \in 0 .. MaxTroubles
  BY SaveAssumption, SMTT(20) DEF AccessWarning, AccessFails, Trouble, SaveInv, SaveTypeOK
<1> QED
  BY <1>1, <1>2, <1>3, RestoreAdvances DEF machine, SaveInv, SaveTypeOK

\* The restore writes the register: the bits under the mask are those of the save.
LEMMA WriteRegisterHolds == ASSUME SaveInv, WriteRegister PROVE SaveInv'
<1> DEFINE open == OpenBits(Reg(pos))
           new == (WordWritten \cap open) \cup (Value \ open)
<1>1. /\ op = "restore" /\ spc = "pwrite" /\ Advance
      /\ UNCHANGED <<online, admin, file, locals, history, troubles>>
      /\ msr' = [msr EXCEPT ![Cpu(pos)][Reg(pos)] = new]
  BY DEF WriteRegister, Restoring, Value
<1>2. /\ copy # <<>> /\ copy \in Seq(Entry) /\ pos \in 0 .. num_cpu * num_msr - 1
      /\ Cpu(pos) \in CPUs /\ Reg(pos) \in Addrs /\ Here = RegAt(copy, pos) /\ pos \in Nat
      /\ msr \in [CPUs -> [Addrs -> Masks]] /\ Mask(pos) \in Masks
      /\ Mask(pos) = EntryAt(copy, pos).mask /\ Reg(pos) = EntryAt(copy, pos).msr
  <2>1. copy # <<>> /\ pos \in 0 .. num_cpu * num_msr - 1
    BY <1>1, AdvanceBounds DEF locals
  <2> QED
    BY <2>1, PositionNamesRegister
       DEF SaveInv, SaveTypeOK, Here, Reg, EntryAt, num_msr
<1>3. Value \in Masks /\ Word \in Masks /\ read_val \in Masks
  <2>1. Value \in Masks /\ read_val \in Masks
    BY <1>2 DEF Value, SaveInv, SaveTypeOK
  <2>2. buffer \in Seq(Masks) /\ Len(buffer) = num_cpu * num_msr
    BY <1>1 DEF SaveInv, SaveTypeOK, PlaceInv, Looping
  <2> QED
    BY <1>2, <2>1, <2>2 DEF Word
<1>4. new \in Masks
  BY <1>3 DEF WordWritten, Masks
<1>5. /\ msr' \in [CPUs -> [Addrs -> Masks]] /\ msr'[Cpu(pos)][Reg(pos)] = new
      /\ \A c \in CPUs, a \in Addrs :
           <<c, a>> # Here => msr'[c][a] = msr[c][a]
  BY <1>1, <1>2, <1>4 DEF Here
<1>6. ASSUME ~moved, SameList, Here \in DOMAIN file.seen
      PROVE  msr'[Cpu(pos)][Reg(pos)] \cap Mask(pos) = file.seen[Here] \cap Mask(pos)
  <2>1. copy = list /\ Distinct(list) /\ Word = file.seen[Here] \cap Mask(pos)
    BY <1>1, <1>6, WordOfSave
  <2>2. open = Mask(pos)
    <3>1. PICK i \in DOMAIN list : EntryAt(copy, pos) = list[i]
      BY <1>2, <2>1, EntryHasType
    <3>2. {j \in DOMAIN list : list[j].msr = Reg(pos)} = {i}
      BY <1>2, <2>1, <3>1 DEF Distinct
    <3> QED
      BY <1>2, <3>1, <3>2 DEF OpenBits
  <2> QED
    BY <1>5, <2>1, <2>2 DEF WordWritten
<1>7. ASSUME ~moved, SameList, NEW k \in 0 .. pos - 1
      PROVE  msr'[Cpu(k)][Reg(k)] = msr[Cpu(k)][Reg(k)]
  <2>1. Distinct(copy)
    BY <1>1, <1>7, WordOfSave
  <2>2. k \in 0 .. num_cpu * num_msr - 1 /\ k # pos
    <3>1. num_cpu * num_msr \in Nat
      BY <1>2, WholeCpus, SaveAssumption DEF SaveInv, SaveTypeOK, num_msr
    <3> QED
      BY <1>2, <3>1
  <2>3. /\ Cpu(k) \in CPUs /\ Reg(k) \in Addrs /\ <<Cpu(k), Reg(k)>> = RegAt(copy, k)
        /\ k \in Nat
    BY <1>2, <2>2, PositionNamesRegister DEF SaveInv
  <2>4. RegAt(copy, k) # Here
    BY <1>2, <2>1, <2>2, <2>3, OneRegisterPerPosition
  <2> QED
    BY <1>5, <2>3, <2>4
<1>8. failed' = failed /\ seen' = seen /\ moved' = moved
  BY <1>1 DEF history
<1> QED
  BY <1>1, <1>5, <1>6, <1>7, <1>8, RestoreAdvances DEF SaveInv, SaveTypeOK

\* The call returns its result.
LEMMA ReturnHolds == ASSUME SaveInv, Return PROVE SaveInv'
<1> USE DEF SaveInv, Return, Step, machine, admin
<1>1. SaveTypeOK'
  <2>1. seen' \in Readings /\ read_val' \in Masks
    BY SMTT(20) DEF Readings, Masks, Empty
  <2>2. /\ 0 \in 0 .. NumCpu /\ num_cpu' = 0 /\ num_msr' = 0 /\ num_cpu' * num_msr' = 0
        /\ pos' \in 0 .. num_cpu' * num_msr' /\ buffer' \in Seq(Masks) /\ copy' \in Seq(Entry)
        /\ Len(buffer') \in {0, pos', num_cpu' * num_msr'}
    BY SaveAssumption DEF num_msr
  <2>3. failed' \subseteq Registers /\ num_cpu' \in 0 .. NumCpu /\ moved' \in BOOLEAN
    BY <2>2
  <2> QED
    BY <2>1, <2>2, <2>3 DEF SaveTypeOK, Labels
<1>2. /\ PlaceInv' /\ CopyInv' /\ BufferInv' /\ FileInv' /\ TimeInv' /\ RestoredBehind'
      /\ StaleListRefused'
  BY DEF PlaceInv, CopyInv, BufferInv, FileInv, TimeInv, RestoredBehind, StaleListRefused,
         Looping
<1> QED
  BY <1>1, <1>2

\* The job changes registers between the calls of the library, and not while one runs.
LEMMA JobWritesHolds == ASSUME SaveInv, JobWrites PROVE SaveInv'
<1> USE DEF SaveInv, admin, locals, history
<1>1. /\ spc = "idle" /\ UNCHANGED <<online, admin, file, spc, locals, pos, history, troubles>>
      /\ op = "none"
  BY DEF JobWrites, PlaceInv
<1>2. msr' \in [CPUs -> [Addrs -> Masks]]
  <2>1. PICK c \in online, a \in Addrs, v \in JobValues :
          msr' = [msr EXCEPT ![c][a] = (v \cap OpenBits(a)) \cup (@ \ OpenBits(a))]
    BY DEF JobWrites
  <2>2. c \in CPUs /\ msr[c][a] \in Masks /\ v \in Masks
    BY SaveAssumption DEF SaveTypeOK
  <2>3. (v \cap OpenBits(a)) \cup (msr[c][a] \ OpenBits(a)) \in Masks
    BY <2>2 DEF Masks
  <2> QED
    BY <2>1, <2>2, <2>3 DEF SaveTypeOK
<1>3. SaveTypeOK'
  BY <1>1, <1>2 DEF SaveTypeOK, num_msr
<1>4. /\ PlaceInv' /\ CopyInv' /\ BufferInv' /\ FileInv' /\ TimeInv' /\ RestoredBehind'
      /\ StaleListRefused'
  BY <1>1 DEF PlaceInv, CopyInv, BufferInv, FileInv, TimeInv, RestoredBehind,
              StaleListRefused, Looping
<1> QED
  BY <1>3, <1>4

\* The administrator replaces the list, and the device has a new time.
LEMMA ReplaceListHolds == ASSUME SaveInv, ReplaceList PROVE SaveInv'
<1> USE DEF SaveInv, locals
<1>1. /\ UNCHANGED <<machine, onDevice, clock, spc, locals, pos, seen, failed>>
      /\ list' \in Lists /\ listTime' = (IF onDevice THEN listTime ELSE clock)
      /\ moved' = (spc # "idle") /\ troubles' \in 0 .. MaxTroubles
      /\ {listTime, clock} \subseteq 0 .. MaxTime
  BY SaveAssumption DEF ReplaceList, Trouble, SaveTypeOK
<1>2. /\ file' \in FileType \cup {NoFile} /\ (file # NoFile <=> file' # NoFile)
      /\ file # NoFile =>
           /\ file'.words = file.words /\ file'.time = file.time /\ file'.list = file.list
           /\ file'.seen = file.seen /\ file.time \in 0 .. MaxTime
           /\ file.raced => file'.raced
           /\ ~file'.raced => file' = file /\ clock # file.time
  <2>1. CASE file = NoFile
    BY <2>1 DEF ReplaceList
  <2>2. CASE file # NoFile
    <3>1. file \in FileType
      BY <2>2 DEF SaveTypeOK
    <3>2. file' = IF clock = file.time THEN [file EXCEPT !.raced = TRUE] ELSE file
      BY <2>2 DEF ReplaceList
    <3>3. [file EXCEPT !.raced = TRUE] \in FileType
      BY <3>1 DEF FileType
    <3>4. file' \in FileType
      BY <3>1, <3>2, <3>3
    <3> QED
      BY <2>2, <3>1, <3>2, <3>4, SaveAssumption DEF FileType
  <2> QED
    BY <2>1, <2>2
<1>3. SaveTypeOK'
  BY <1>1, <1>2 DEF SaveTypeOK, num_msr, machine
<1>4. PlaceInv'
  BY <1>1, <1>2 DEF PlaceInv, Looping, num_msr, Word, Mask, is_good_value
<1>5. CopyInv'
  BY <1>1 DEF CopyInv, PlaceInv, Looping
<1>6. BufferInv' /\ FileInv'
  BY <1>1, <1>2 DEF BufferInv, FileInv
<1>7. TimeInv'
  <2>1. listTime' <= clock /\ (file' # NoFile => file'.time <= clock)
    BY <1>1, <1>2 DEF TimeInv
  <2>2. ASSUME file' # NoFile, ~onDevice, ~file'.raced PROVE file'.time < listTime'
    BY <1>1, <1>2, <2>2 DEF TimeInv
  <2>3. ASSUME file' # NoFile, ~onDevice, ~file'.raced PROVE ~(file'.time >= listTime')
    BY <1>1, <1>2, <2>2, <2>3
  <2> QED
    BY <1>1, <2>1, <2>2, <2>3 DEF TimeInv
<1>8. RestoredBehind'
  BY <1>1 DEF RestoredBehind, PlaceInv
<1>9. StaleListRefused'
  BY <1>1, <1>2 DEF StaleListRefused, SameList
<1> QED
  BY <1>3, <1>4, <1>5, <1>6, <1>7, <1>8, <1>9

\* Time passes.
LEMMA TickHolds == ASSUME SaveInv, Tick PROVE SaveInv'
<1> USE DEF SaveInv, Tick, machine, locals, history
<1>1. SaveTypeOK'
  BY SaveAssumption DEF SaveTypeOK, num_msr
<1>2. PlaceInv' /\ CopyInv' /\ BufferInv' /\ FileInv' /\ StaleListRefused'
  BY DEF PlaceInv, CopyInv, BufferInv, FileInv, StaleListRefused, SameList, Looping, num_msr,
         Word, Mask, is_good_value
<1>3. TimeInv'
  <2>1. {listTime, clock} \subseteq Nat /\ (file # NoFile => file.time \in Nat)
    BY SaveAssumption DEF SaveTypeOK, FileType
  <2> QED
    BY <2>1 DEF TimeInv
<1>4. RestoredBehind'
  BY RestoredStays
<1> QED
  BY <1>1, <1>2, <1>3, <1>4

\* A CPU comes or goes.
LEMMA HotplugHolds == ASSUME SaveInv, Hotplug PROVE SaveInv'
<1> USE DEF SaveInv, admin, locals, history
<1>1. UNCHANGED <<msr, admin, file, spc, locals, pos, history>>
  BY DEF Hotplug
<1>2. troubles' \in 0 .. MaxTroubles
  BY SaveAssumption DEF Hotplug, Trouble, SaveTypeOK
<1>3. online' \in (SUBSET CPUs) \ {{}}
  <2>1. PICK c \in Removable : online' = IF c \in online THEN online \ {c} ELSE online \cup {c}
    BY DEF Hotplug
  <2>2. c \in CPUs /\ online \subseteq CPUs /\ online' # {}
    BY SaveAssumption DEF Hotplug, SaveTypeOK
  <2> QED
    BY <2>1, <2>2
<1>4. SaveTypeOK'
  BY <1>1, <1>2, <1>3 DEF SaveTypeOK, num_msr
<1>5. PlaceInv' /\ CopyInv' /\ BufferInv' /\ FileInv' /\ TimeInv' /\ StaleListRefused'
  BY <1>1 DEF PlaceInv, CopyInv, BufferInv, FileInv, TimeInv, StaleListRefused, SameList,
              Looping, num_msr, Word, Mask, is_good_value
<1>6. RestoredBehind'
  BY <1>1, RestoredStays
<1> QED
  BY <1>4, <1>5, <1>6

\* Where nothing changes but the number of troubles, the invariant stays.
LEMMA SaveStutters ==
  ASSUME SaveInv, UNCHANGED <<machine, admin, file, spc, locals, pos, history>>,
         troubles' \in 0 .. MaxTroubles
  PROVE  SaveInv'
<1> USE DEF SaveInv, machine, admin, locals, history
<1>1. SaveTypeOK'
  BY DEF SaveTypeOK, num_msr
<1>2. PlaceInv' /\ CopyInv' /\ BufferInv' /\ FileInv' /\ TimeInv' /\ StaleListRefused'
  BY DEF PlaceInv, CopyInv, BufferInv, FileInv, TimeInv, StaleListRefused, SameList,
         Looping, num_msr, Word, Mask, is_good_value
<1>3. RestoredBehind'
  BY RestoredStays
<1> QED
  BY <1>1, <1>2, <1>3

\* Every step of a call preserves the invariant.
LEMMA CallKeepsInv == ASSUME SaveInv, CallStep PROVE SaveInv'
  BY CopyEntryHolds, CopyEndHolds, OpenCpuHolds, AllDoneHolds, SystemCallFailsHolds,
     SaveCookieHolds, SaveValueHolds, SaveBadReadHolds, WriteFileHolds, CheckFileHolds,
     SkipRegisterHolds, ReadRegisterHolds, AccessWarningHolds, WriteRegisterHolds, ReturnHolds
     DEF CallStep

\* Every step of the library and of its environment preserves the invariant.
LEMMA SaveNextStep == ASSUME SaveInv, [SaveNext]_svars PROVE SaveInv'
<1>1. CASE Call("save") \/ Call("restore")
  BY <1>1, CallStepHolds
<1>2. CASE JobBetween \/ ReplaceList \/ Tick \/ Hotplug
  BY <1>2, JobWritesHolds, ReplaceListHolds, TickHolds, HotplugHolds DEF JobBetween
<1>3. CASE UNCHANGED svars
  BY <1>3, SaveStutters DEF svars, SaveInv, SaveTypeOK
<1> QED
  BY <1>1, <1>2, <1>3, CallKeepsInv DEF SaveNext

\* No call is under way at first, and there is no file.
LEMMA SaveInitHolds == SaveInit => SaveInv
<1> SUFFICES ASSUME SaveInit PROVE SaveInv
  OBVIOUS
<1> USE DEF SaveInit
<1>1. SaveTypeOK
  <2>1. {NumCpu, MaxTime, MaxTroubles} \subseteq Nat /\ 0 \in 0 .. NumCpu - 1
    BY SaveAssumption
  <2>2. 0 \in 0 .. NumCpu /\ 0 \in 0 .. MaxTime /\ 0 \in 0 .. MaxTroubles
    BY <2>1
  <2>3. online \in (SUBSET CPUs) \ {{}}
    BY <2>1 DEF CPUs
  <2>4. seen \in Readings /\ read_val \in Masks
    BY DEF Readings, Masks, Empty
  <2>5. /\ num_cpu = 0 /\ num_msr = 0 /\ num_cpu * num_msr = 0 /\ pos \in 0 .. num_cpu * num_msr
        /\ buffer \in Seq(Masks) /\ copy \in Seq(Entry)
        /\ Len(buffer) \in {0, pos, num_cpu * num_msr}
    BY DEF num_msr
  <2>6. list \in Lists /\ msr \in [CPUs -> [Addrs -> Masks]] /\ failed \subseteq Registers
    BY SaveAssumption
  <2> QED
    BY <2>2, <2>3, <2>4, <2>5, <2>6 DEF SaveTypeOK, Labels
<1>2. PlaceInv /\ CopyInv /\ BufferInv /\ FileInv /\ TimeInv /\ RestoredBehind /\ StaleListRefused
  BY DEF PlaceInv, CopyInv, BufferInv, FileInv, TimeInv, RestoredBehind, StaleListRefused,
         Looping
<1> QED
  BY <1>1, <1>2 DEF SaveInv

\* Whatever calls, jobs, new lists and CPUs do, the invariant holds.
THEOREM SaveInductive == SaveSpec => []SaveInv
  BY SaveInitHolds, SaveNextStep, PTL DEF SaveSpec

\* The buffers of msr_save and msr_restore are as long as the CPUs and entries that were
\* counted, and the loops stay inside of them.
THEOREM SaveTypesHold == SaveSpec => []SaveTypeOK
<1>1. SaveInv => SaveTypeOK
  BY DEF SaveInv
<1> QED
  BY <1>1, SaveInductive, PTL

\* A register that msr_restore has passed, through the list of the save, has the bits that
\* msr_save read from it, unless an access to it has failed.
THEOREM RestoreGivesBack == SaveSpec => []RestoredBehind
<1>1. SaveInv => RestoredBehind
  BY DEF SaveInv
<1> QED
  BY <1>1, SaveInductive, PTL

\* msr_restore goes on to its loops only under the list that the file was saved under, where
\* that is a regular file and was not replaced while the save ran or in the second in which
\* it wrote.
THEOREM StaleListsAreRefused == SaveSpec => []StaleListRefused
<1>1. SaveInv => StaleListRefused
  BY DEF SaveInv
<1> QED
  BY <1>1, SaveInductive, PTL

\* A word that msr_restore is about to write stands for a value that msr_save had read.
LEMMA WrittenWasRead == SaveInv => BadReadsNotRestored
<1> SUFFICES ASSUME SaveInv, spc = "pwrite", SameList PROVE Here \in DOMAIN file.seen
  BY DEF BadReadsNotRestored
<1>1. /\ pos < num_cpu * num_msr /\ copy # <<>> /\ buffer = file.words
      /\ Len(buffer) = num_cpu * num_msr /\ file # NoFile /\ copy = file.list
      /\ is_good_value(Word, Mask(pos)) /\ buffer \in Seq(Masks) /\ pos \in Nat
  <2>1. /\ pos < num_cpu * num_msr /\ copy # <<>> /\ buffer = file.words
        /\ Len(buffer) = num_cpu * num_msr /\ file # NoFile /\ copy = file.list
        /\ is_good_value(Word, Mask(pos)) /\ buffer \in Seq(Masks)
    BY DEF SaveInv, SaveTypeOK, PlaceInv, Looping, SameList
  <2>2. Len(buffer) \in Nat
    BY <2>1
  <2> QED
    BY <2>1, <2>2 DEF SaveInv, SaveTypeOK
<1>2. pos \in 0 .. Len(buffer) - 1 /\ pos \in 0 .. num_cpu * num_msr - 1
  BY <1>1
<1>3. Here = RegAt(copy, pos) /\ Mask(pos) = EntryAt(copy, pos).mask /\ Mask(pos) \in Masks
  BY <1>1, <1>2, PositionNamesRegister DEF SaveInv, Here
<1>4. Word # BadRead(Mask(pos))
  BY <1>1, <1>3, BadReadIsNotGood
<1> QED
  BY <1>1, <1>2, <1>3, <1>4 DEF SaveInv, FileInv, Faithful, Word

\* Through the list of the save, msr_restore writes a register only if msr_save had read it.
THEOREM BadReadsStayOut == SaveSpec => []BadReadsNotRestored
  BY WrittenWasRead, SaveInductive, PTL
==============================================================================
