-------------------------------- MODULE MsrSave --------------------------------
(***************************************************************************)
(* msrsave: msr_save writes the listed registers of all CPUs to a file,    *)
(* msr_restore puts them back; between two calls a job changes registers.  *)
(* During a call the administrator may replace the list, CPUs may leave    *)
(* and come, and any access may fail.  The kernel module is what its       *)
(* devices do for this program: a register is readable when it is listed,  *)
(* and a write changes the bits of its mask.                               *)
(***************************************************************************)
EXTENDS Naturals, Sequences, FiniteSets

CONSTANTS NumCpu,      \* the CPUs are 0 .. NumCpu - 1
          Removable,   \* those that may go offline
          Addrs, Bits,
          Cookie,      \* G_COOKIE_BAD_READ
          Lists,       \* the allowlists there may be, the first one Initial
          Initial,
          PowerOn,     \* the registers at the start
          JobValues,   \* what jobs write to registers
          MaxTime, MaxTroubles,   \* bounds
          NoFile

VARIABLES online, msr,
          list, listTime,   \* the allowlist and st_mtime of its file
          onDevice,         \* that file is the device, not a regular file
          clock,            \* the time in whole seconds
          file,             \* the save file: words, st_mtime, and history (below)
          spc, op,          \* where the call is, and which call it is
          num_cpu, copy,    \* its number of CPUs, its copy of the list
          pos,              \* i * num_msr + j
          buffer,           \* save_buffer or restore_buffer
          read_val, err,
          seen,             \* history: the registers read by the save
          failed,           \* history: accesses that failed in the restore
          moved,            \* history: the list was replaced during the call
          troubles          \* failures, CPUs leaving or coming, new lists, so far

machine == <<online, msr>>
admin == <<list, listTime, onDevice, clock>>
locals == <<op, num_cpu, copy, buffer, read_val, err>>
history == <<seen, failed, moved>>
svars == <<machine, admin, file, spc, locals, pos, history, troubles>>

CPUs == 0 .. NumCpu - 1
Masks == SUBSET Bits
Empty == [x \in {} |-> {}]
Entry == [msr : Addrs, mask : Masks]
Registers == CPUs \X Addrs
Readings == UNION {[S -> Masks] : S \in SUBSET Registers}
FileType == [words : Seq(Masks), time : 0 .. MaxTime, list : Seq(Entry),
             seen : Readings, raced : BOOLEAN]

ASSUME SaveAssumption ==
  /\ NumCpu \in Nat \ {0} /\ Removable \subseteq CPUs
  /\ Cookie \subseteq Bits /\ JobValues \subseteq Masks
  /\ PowerOn \in [CPUs -> [Addrs -> Masks]]
  /\ Initial \in Lists /\ Lists \subseteq Seq(Entry) /\ NoFile \notin FileType
  /\ \A l \in Lists : \A i, j \in DOMAIN l : l[i].msr = l[j].msr => i = j
  /\ {MaxTime, MaxTroubles} \subseteq Nat

Step(from, to) == spc = from /\ spc' = to
\* err = errno ? errno : -1; goto exit
Fail(from) == Step(from, "return") /\ err' = 1
\* A failure, a replacement of the list or a hotplug event: up to MaxTroubles.
Trouble == troubles < MaxTroubles /\ troubles' = troubles + 1

(***************************************************************************)
(* The device of a CPU, for the register at the position of the loops.     *)
(***************************************************************************)
num_msr == Len(copy)
Cpu(k) == k \div num_msr
Reg(k) == copy[(k % num_msr) + 1].msr
Mask(k) == copy[(k % num_msr) + 1].mask
Here == <<Cpu(pos), Reg(pos)>>

Listed(a) == \E i \in DOMAIN list : list[i].msr = a
OpenBits(a) == UNION {list[i].mask : i \in {i \in DOMAIN list : list[i].msr = a}}
Readable == Cpu(pos) \in online /\ Listed(Reg(pos))
Writable == Cpu(pos) \in online /\ OpenBits(Reg(pos)) # {}
Value == msr[Cpu(pos)][Reg(pos)]

\* pread or pwrite returns something else than 8.
AccessFails(possible) == (~possible /\ UNCHANGED troubles) \/ (possible /\ Trouble)

\* Mutant: the cookie passes for a value.
GoodIfMasked(v, mask) == v \subseteq mask
is_good_value(v, mask) == IF mask # Bits THEN v \subseteq mask ELSE v # Cookie
BadRead(mask) == IF mask # Bits THEN Bits \ mask ELSE Cookie

\* The next register of this CPU, or the next CPU.
Advance ==
  /\ pos' = pos + 1
  /\ spc' = IF (pos + 1) % num_msr = 0 THEN "open" ELSE "register"

(***************************************************************************)
(* What both calls begin with.  num_cpu is the number of CPUs online.      *)
(***************************************************************************)
Call(o) ==
  /\ Step("idle", "list")
  /\ op' = o
  /\ num_cpu' = Cardinality(online)
  /\ UNCHANGED <<machine, admin, file, copy, buffer, read_val, err, pos, history, troubles>>

\* msr_parse_allowlist: one read gives one entry, until there is none.
CopyEntry ==
  /\ Step("list", "list")
  /\ num_msr < Len(list)
  /\ copy' = Append(copy, list[num_msr + 1])
  /\ UNCHANGED <<machine, admin, file, op, num_cpu, buffer, read_val, err, pos, history, troubles>>

CopyEnd ==
  /\ num_msr >= Len(list)
  /\ IF copy = <<>> THEN Fail("list")
     ELSE Step("list", IF op = "save" THEN "open" ELSE "check") /\ UNCHANGED err
  /\ UNCHANGED <<machine, admin, file, op, num_cpu, copy, buffer, read_val, pos, history, troubles>>

\* The devices of CPUs 0 to num_cpu - 1 are opened in turn.
OpenCpu ==
  /\ pos < num_cpu * num_msr
  /\ IF Cpu(pos) \in online THEN Step("open", "register") /\ UNCHANGED err
     ELSE Fail("open")
  /\ UNCHANGED <<machine, admin, file, op, num_cpu, copy, buffer, read_val, pos, history, troubles>>

AllDone ==
  /\ pos = num_cpu * num_msr
  /\ Step("open", IF op = "save" THEN "write" ELSE "return")
  /\ UNCHANGED <<machine, admin, file, locals, pos, history, troubles>>

\* Any other call of libc or the system that is checked, and leaves no trace.
SystemCallFails ==
  /\ Trouble
  /\ \E label \in {"list", "open", "check", "write"} : Fail(label)
  /\ UNCHANGED <<machine, admin, file, op, num_cpu, copy, buffer, read_val, pos, history>>

(***************************************************************************)
(* msr_save                                                                *)
(***************************************************************************)
SaveCookie ==
  /\ op = "save" /\ Fail("register")
  /\ Readable /\ Mask(pos) = Bits /\ Value = Cookie
  /\ UNCHANGED <<machine, admin, file, op, num_cpu, copy, buffer, read_val, pos, history, troubles>>

SaveValue ==
  /\ op = "save" /\ spc = "register"
  /\ Readable /\ ~(Mask(pos) = Bits /\ Value = Cookie)
  /\ buffer' = Append(buffer, Value \cap Mask(pos))
  /\ seen' = [x \in DOMAIN seen \cup {Here} |-> IF x = Here THEN Value ELSE seen[x]]
  /\ Advance
  /\ UNCHANGED <<machine, admin, file, op, num_cpu, copy, read_val, err, failed, moved, troubles>>

SaveBadRead ==
  /\ op = "save" /\ spc = "register"
  /\ AccessFails(Readable)
  /\ buffer' = Append(buffer, BadRead(Mask(pos)))
  /\ Advance
  /\ UNCHANGED <<machine, admin, file, op, num_cpu, copy, read_val, err, history>>

\* fopen empties the file; fwrite may stop half way.
Saved(words) ==
  [words |-> words, time |-> clock, list |-> copy, seen |-> seen, raced |-> moved]
WriteFile ==
  /\ Step("write", "return")
  /\ \/ file' = Saved(buffer) /\ UNCHANGED <<err, troubles>>
     \/ \E n \in 0 .. Len(buffer) : file' = Saved(SubSeq(buffer, 1, n)) /\ err' = 1 /\ Trouble
  /\ UNCHANGED <<machine, admin, op, num_cpu, copy, buffer, read_val, pos, history>>

(***************************************************************************)
(* msr_restore                                                             *)
(***************************************************************************)
\* Mutant: the times are not compared.
AnyTime == TRUE
Fresh == file.time >= listTime
\* Mutant: the size of the file is not compared.
AnySize == file # NoFile /\ Fresh
Accepted == file # NoFile /\ Fresh /\ Len(file.words) = num_cpu * num_msr

CheckFile ==
  /\ IF Accepted THEN Step("check", "open") /\ buffer' = file.words /\ UNCHANGED err
     ELSE Fail("check") /\ UNCHANGED buffer
  /\ UNCHANGED <<machine, admin, file, op, num_cpu, copy, read_val, pos, history, troubles>>

Word == buffer[pos + 1]
Restoring(label) == op = "restore" /\ spc = label

\* Mutant: bits that the job has set count as unchanged.
NoBitLost == Word \subseteq Value
Unchanged == Word = Value \cap Mask(pos)

\* A bad read of the save, or a register that has not changed.
SkipRegister ==
  /\ Restoring("register")
  /\ \/ ~is_good_value(Word, Mask(pos))
     \/ Readable /\ Unchanged
  /\ Advance
  /\ UNCHANGED <<machine, admin, file, locals, history, troubles>>

ReadRegister ==
  /\ Restoring("register") /\ spc' = "pwrite"
  /\ is_good_value(Word, Mask(pos))
  /\ Readable /\ ~Unchanged
  /\ read_val' = Value
  /\ UNCHANGED <<machine, admin, file, op, num_cpu, copy, buffer, err, pos, history, troubles>>

\* Only a warning: the call goes on, and reports success.
AccessWarning ==
  /\ \/ Restoring("register") /\ is_good_value(Word, Mask(pos)) /\ AccessFails(Readable)
     \/ Restoring("pwrite") /\ AccessFails(Writable)
  /\ failed' = failed \cup {Here}
  /\ Advance
  /\ UNCHANGED <<machine, admin, file, locals, seen, moved>>

WordWritten == Word \cup (read_val \ Mask(pos))
WriteRegister ==
  /\ Restoring("pwrite")
  /\ Writable
  /\ LET open == OpenBits(Reg(pos))
     IN  msr' = [msr EXCEPT ![Cpu(pos)][Reg(pos)] = (WordWritten \cap open) \cup (@ \ open)]
  /\ Advance
  /\ UNCHANGED <<online, admin, file, locals, history, troubles>>

Return ==
  /\ Step("return", "idle")
  /\ op' = "none" /\ num_cpu' = 0 /\ copy' = <<>> /\ buffer' = <<>>
  /\ read_val' = {} /\ err' = 0 /\ pos' = 0
  /\ seen' = Empty /\ failed' = {} /\ moved' = FALSE
  /\ UNCHANGED <<machine, admin, file, troubles>>

(***************************************************************************)
(* The job, the administrator, the clock and hotplug                       *)
(***************************************************************************)
JobWrites ==
  /\ spc = "idle"
  /\ \E c \in online, a \in Addrs, v \in JobValues :
       msr' = [msr EXCEPT ![c][a] = (v \cap OpenBits(a)) \cup (@ \ OpenBits(a))]
  /\ UNCHANGED <<online, admin, file, spc, locals, pos, history, troubles>>

JobBetween == file # NoFile /\ JobWrites

\* A write to a device does not change the time of its node.
ReplaceList ==
  /\ Trouble
  /\ list' \in Lists \ {list}
  /\ listTime' = IF onDevice THEN listTime ELSE clock
  /\ moved' = (spc # "idle")
  /\ file' = IF file # NoFile /\ clock = file.time THEN [file EXCEPT !.raced = TRUE] ELSE file
  /\ UNCHANGED <<machine, onDevice, clock, spc, locals, pos, seen, failed>>

Tick ==
  /\ clock < MaxTime /\ clock' = clock + 1
  /\ UNCHANGED <<machine, list, listTime, onDevice, file, spc, locals, pos, history, troubles>>

Hotplug ==
  /\ Trouble
  /\ \E c \in Removable : online' = IF c \in online THEN online \ {c} ELSE online \cup {c}
  /\ online' # {}
  /\ UNCHANGED <<msr, admin, file, spc, locals, pos, history>>

-----------------------------------------------------------------------------
SaveInit ==
  /\ online = CPUs /\ msr = PowerOn
  /\ list = Initial /\ listTime = 0 /\ onDevice \in BOOLEAN /\ clock = 0
  /\ file = NoFile
  /\ spc = "idle" /\ op = "none" /\ num_cpu = 0 /\ copy = <<>> /\ buffer = <<>>
  /\ read_val = {} /\ err = 0 /\ pos = 0
  /\ seen = Empty /\ failed = {} /\ moved = FALSE
  /\ troubles = 0

\* A call that has begun.
CallStep ==
  \/ CopyEntry \/ CopyEnd \/ OpenCpu \/ AllDone \/ SystemCallFails
  \/ SaveCookie \/ SaveValue \/ SaveBadRead \/ WriteFile
  \/ CheckFile \/ SkipRegister \/ ReadRegister \/ AccessWarning \/ WriteRegister
  \/ Return

SaveNext ==
  \/ Call("save") \/ Call("restore") \/ CallStep
  \/ JobBetween \/ ReplaceList \/ Tick \/ Hotplug

SaveSpec == SaveInit /\ [][SaveNext]_svars

-----------------------------------------------------------------------------
\* The types of the variables (one per module).
Labels == {"idle", "list", "open", "register", "write", "check", "pwrite", "return"}

SaveTypeOK ==
  /\ online \in (SUBSET CPUs) \ {{}} /\ msr \in [CPUs -> [Addrs -> Masks]]
  /\ list \in Lists /\ {listTime, clock} \subseteq 0 .. MaxTime /\ onDevice \in BOOLEAN
  /\ file \in FileType \cup {NoFile}
  /\ spc \in Labels /\ op \in {"none", "save", "restore"} /\ err \in {0, 1}
  /\ num_cpu \in 0 .. NumCpu /\ copy \in Seq(Entry)
  /\ pos \in 0 .. num_cpu * num_msr
  /\ buffer \in Seq(Masks) /\ Len(buffer) \in {0, pos, num_cpu * num_msr}
  /\ read_val \in Masks /\ troubles \in 0 .. MaxTroubles
  /\ seen \in Readings /\ failed \subseteq Registers /\ moved \in BOOLEAN

\* The file goes with the list that the restore has read.
SameList == file # NoFile /\ copy = file.list

(***************************************************************************)
(* In a restore through the list of the save, every register passed so far *)
(* has its writable bits of the time of the save again, unless the save    *)
(* could not read it or an access to it failed in the restore: one that    *)
(* fails does not shift or stop the others, and neither do a half-written  *)
(* file, a CPU that left, or a failure of the rest.                        *)
(***************************************************************************)
RestoredBehind ==
  op = "restore" /\ spc # "check" /\ ~moved /\ SameList =>
    \A k \in 0 .. pos - 1 :
      LET here == <<Cpu(k), Reg(k)>>
      IN  here \in DOMAIN file.seen \ failed =>
            msr[here[1]][here[2]] \cap Mask(k) = file.seen[here] \cap Mask(k)

\* What stands in the file for a bad read is never written to a register.
BadReadsNotRestored == spc = "pwrite" /\ SameList => Here \in DOMAIN file.seen

(***************************************************************************)
(* No register is restored through another list than that of the save,     *)
(* when the list is a regular file and was not replaced while the save ran *)
(* or in the second in which it wrote the file (st_mtime is compared in    *)
(* whole seconds, and the restore reads the list before it compares).      *)
(***************************************************************************)
StaleListRefused ==
  op = "restore" /\ spc \in {"open", "register", "pwrite"} /\ ~onDevice /\ ~file.raced
    => SameList
==============================================================================
