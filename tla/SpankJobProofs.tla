---------------------------- MODULE SpankJobProofs ----------------------------
(***************************************************************************)
(* The theorems of SpankJob: the calls of the plugin keep what msrsave     *)
(* promises, and what a job finds again of its registers, whatever mkstemp *)
(* returns in its prolog and its epilog (ResetUnlessSkipped).              *)
(*                                                                         *)
(* JobInv is inductive. PhaseInv ties the call under way to the phase of   *)
(* the job, LeftInv the registers to what the job has left as long as the  *)
(* epilog makes no call. The node stays as it was at first until something *)
(* fails (Unmoved), and CalmInv holds of a job that has skipped no phase   *)
(* so far: the save has found what was granted at every position behind    *)
(* it, its file is complete when the job begins, and all the time the bits *)
(* that the list does not open are those that were granted. A new job      *)
(* begins calm whatever the jobs before it have skipped.                   *)
(***************************************************************************)
EXTENDS SpankJob, MsrSaveProofs

\* Where the node is while a call is under way.
PhaseInv ==
  /\ jpc \in {"pool", "prolog", "job", "epilog"}
  /\ jpc \in {"pool", "job"} => spc = "idle"
  /\ spc # "idle" => op = Operation[jpc]

\* A save through the list has read n positions, and found what was granted.
ReadBehind(s, n) ==
  \A k \in 0 .. n - 1 :
    /\ RegAt(Initial, k) \in DOMAIN s
    /\ s[RegAt(Initial, k)] = granted[RegAt(Initial, k)[1]][RegAt(Initial, k)[2]]

Positions == NumCpu * Len(Initial)

\* The file of the prolog, unless nothing is listed.
Complete ==
  Initial # <<>> =>
    /\ file # NoFile /\ file.list = Initial /\ Len(file.words) = Positions
    /\ ReadBehind(file.seen, Positions)

\* The node has all its CPUs and the list that it had at first.
Unmoved == online = CPUs /\ list = Initial /\ listTime = 0 /\ ~moved

\* So it is, and no access has failed in the call.
Quiet == Unmoved /\ failed = {} /\ granted \in [CPUs -> [Addrs -> Masks]]

\* How far the loops have come.
CallQuiet ==
  /\ spc # "idle" => num_cpu = NumCpu
  /\ spc = "pwrite" => Mask(pos) # {}
  /\ spc = "write" => pos = Positions
  /\ op = "restore" /\ spc = "return" /\ Initial # <<>> => copy = Initial /\ pos = Positions

\* Nobody can change the bits that the list does not open.
ClosedKept ==
  \A c \in CPUs, a \in Addrs : msr[c][a] \ OpenBits(a) = granted[c][a] \ OpenBits(a)

\* The registers are those granted until the job runs, and then those are in the file.
GrantedSaved ==
  /\ jpc \in {"pool", "prolog"} => msr = granted
  /\ op = "save" => ReadBehind(seen, pos)
  /\ jpc \in {"job", "epilog"} \/ (op = "save" /\ spc = "return") => Complete

CalmInv == Quiet /\ CallQuiet /\ ClosedKept /\ GrantedSaved

\* Without a call in the epilog nothing has changed a register since the job, and without
\* a call no access fails.
LeftInv ==
  /\ jpc = "epilog" /\ spc = "idle" => msr = left
  /\ "epilog" \in skipped => jpc = "pool" /\ msr = left
  /\ spc = "idle" => failed = {}

JobInv ==
  /\ SaveInv /\ PhaseInv /\ LeftInv
  /\ troubles = 0 => Unmoved /\ (skipped = {} /\ CookieFree(granted) => CalmInv)


-----------------------------------------------------------------------------
\* A step of a call is one of a call under way, and does not change which call that is.
LEMMA CallUnderWay ==
  ASSUME SaveInv, CallStep, spc # "return"
  PROVE  spc # "idle" /\ op' = op
<1>1. CASE CopyEntry \/ CopyEnd \/ OpenCpu \/ AllDone \/ SystemCallFails
  BY <1>1 DEF CopyEntry, CopyEnd, OpenCpu, AllDone, SystemCallFails, Step, Fail, locals
<1>2. CASE SaveCookie \/ SaveValue \/ SaveBadRead \/ WriteFile
  BY <1>2 DEF SaveCookie, SaveValue, SaveBadRead, WriteFile, Step, Fail
<1>3. CASE CheckFile \/ SkipRegister \/ ReadRegister \/ AccessWarning \/ WriteRegister
  BY <1>3 DEF CheckFile, SkipRegister, ReadRegister, AccessWarning, WriteRegister, Restoring,
              Step, Fail, locals
<1> QED
  BY <1>1, <1>2, <1>3 DEF CallStep, Return, Step

\* The plugin calls msrsave as SaveInv expects, so that invariant holds during jobs too.
LEMMA JobStepHolds ==
  ASSUME SaveInv, PhaseInv, [JobNext]_jvars
  PROVE  SaveInv' /\ PhaseInv'
<1>1. CASE Grant
  <2>1. SaveInv'
    BY <1>1, SaveStutters DEF Grant, svars, SaveInv, SaveTypeOK
  <2> QED
    BY <1>1, <2>1 DEF Grant, svars, locals, PhaseInv
<1>2. CASE JobRuns
  <2>1. SaveInv'
    BY <1>2, SaveStutters, JobWritesHolds DEF JobRuns, svars, SaveInv, SaveTypeOK
  <2>2. spc = "idle" /\ spc' = spc /\ jpc = "job" /\ jpc' \in {"job", "epilog"}
    BY <1>2 DEF JobRuns, JobWrites, svars, PhaseInv
  <2> QED
    BY <2>1, <2>2 DEF PhaseInv
<1>3. ASSUME NEW phase \in {"prolog", "epilog"}, PluginFails(phase)
      PROVE  SaveInv' /\ PhaseInv'
  <2>1. troubles' \in 0 .. MaxTroubles
    BY <1>3, SaveAssumption DEF PluginFails, Trouble, SaveInv, SaveTypeOK
  <2>2. SaveInv'
    BY <1>3, <2>1, SaveStutters DEF PluginFails
  <2>3. spc' = "idle" /\ jpc' \in {"job", "pool"}
    BY <1>3 DEF PluginFails, Skip, After
  <2> QED
    BY <2>2, <2>3 DEF PhaseInv
<1>4. ASSUME NEW phase \in {"prolog", "epilog"}, PluginTakesLog(phase)
      PROVE  SaveInv' /\ PhaseInv'
  <2>1. jpc = phase /\ spc = "idle"
    BY <1>4 DEF PluginTakesLog
  <2>2. CASE Skip(phase) /\ UNCHANGED svars
    <3>1. SaveInv'
      BY <2>2, SaveStutters DEF svars, SaveInv, SaveTypeOK
    <3>2. spc' = "idle" /\ jpc' \in {"job", "pool"}
      BY <2>1, <2>2 DEF svars, Skip, After
    <3> QED
      BY <3>1, <3>2 DEF PhaseInv
  <2>3. CASE Call(Operation[phase]) /\ UNCHANGED <<jpc, skipped>>
    <3>1. Operation[phase] \in {"save", "restore"}
      BY DEF Operation
    <3>2. SaveInv'
      BY <2>3, <3>1, CallStepHolds
    <3>3. op' = Operation[jpc']
      BY <2>1, <2>3 DEF Call
    <3> QED
      BY <2>1, <2>3, <3>2, <3>3 DEF PhaseInv
  <2> QED
    BY <1>4, <2>2, <2>3 DEF PluginTakesLog
<1>5. ASSUME NEW phase \in {"prolog", "epilog"}, PluginReturns(phase)
      PROVE  SaveInv' /\ PhaseInv'
  <2>1. SaveInv'
    BY <1>5, ReturnHolds DEF PluginReturns
  <2>2. spc' = "idle" /\ jpc' \in {"job", "pool"}
    BY <1>5 DEF PluginReturns, Return, Step, After
  <2> QED
    BY <2>1, <2>2 DEF PhaseInv
<1>6. CASE CallStep /\ spc # "return" /\ UNCHANGED job
  <2>1. SaveInv'
    BY <1>6, CallKeepsInv
  <2>2. spc # "idle" /\ op' = op
    BY <1>6, CallUnderWay
  <2> QED
    BY <1>6, <2>1, <2>2 DEF PhaseInv, job
<1>7. CASE (ReplaceList \/ Tick \/ Hotplug) /\ UNCHANGED job
  <2>1. SaveInv'
    BY <1>7, ReplaceListHolds, TickHolds, HotplugHolds
  <2>2. UNCHANGED <<jpc, spc, op>>
    BY <1>7 DEF ReplaceList, Tick, Hotplug, locals, job
  <2> QED
    BY <2>1, <2>2 DEF PhaseInv
<1>8. CASE UNCHANGED jvars
  <2>1. SaveInv'
    BY <1>8, SaveStutters DEF jvars, svars, SaveInv, SaveTypeOK
  <2> QED
    BY <1>8, <2>1 DEF jvars, job, svars, locals, PhaseInv
<1> QED
  BY <1>1, <1>2, <1>3, <1>4, <1>5, <1>6, <1>7, <1>8 DEF JobNext
-----------------------------------------------------------------------------
\* The mask of a register in a list without duplicates is what the list opens of it.
LEMMA ListOpensMask ==
  ASSUME NEW i \in DOMAIN list, Distinct(list)
  PROVE  OpenBits(list[i].msr) = list[i].mask
<1>1. \A j \in DOMAIN list : list[j].msr = list[i].msr => list[j].mask = list[i].mask
  <2> SUFFICES ASSUME NEW j \in DOMAIN list, list[j].msr = list[i].msr
               PROVE  list[j].mask = list[i].mask
    OBVIOUS
  <2>1. j = i
    BY DEF Distinct
  <2> QED
    BY <2>1
<1> DEFINE S == {list[j].mask : j \in {j \in DOMAIN list : list[j].msr = list[i].msr}}
<1>2. S = {list[i].mask}
  BY <1>1
<1>3. UNION S = list[i].mask
  BY <1>2
<1> QED
  BY <1>3 DEF OpenBits

\* A register that is not listed is closed.
LEMMA UnlistedIsClosed ==
  ASSUME NEW a, \A i \in DOMAIN list : list[i].msr # a
  PROVE  OpenBits(a) = {}
  BY DEF OpenBits

\* Multiplication keeps the order.
LEMMA TimesMonotone ==
  ASSUME NEW a \in Nat, NEW b \in Nat, NEW n \in Nat, a <= b
  PROVE  a * n <= b * n
<1>1. b = a + (b - a) /\ b - a \in Nat
  OBVIOUS
<1>2. b * n = a * n + (b - a) * n
  BY <1>1
<1>3. (b - a) * n \in Nat /\ a * n \in Nat
  BY <1>1
<1> QED
  BY <1>2, <1>3

\* One of the positions of m CPUs and n entries is entry i of CPU c.
HasPosition(m, n, c, i) == \E k \in 0 .. m * n - 1 : k \div n = c /\ (k % n) + 1 = i

\* The loops come to every entry of every CPU.
LEMMA EveryRegisterHasPosition ==
  ASSUME NEW m \in Nat, NEW n \in Nat \ {0}, NEW c \in 0 .. m - 1, NEW i \in 1 .. n
  PROVE  HasPosition(m, n, c, i)
<1> DEFINE k == c * n + (i - 1)
<1>1. k \in Nat /\ k \div n = c /\ k % n = i - 1
  <2>1. c * n \in Nat /\ i - 1 \in 0 .. n - 1
    OBVIOUS
  <2> QED
    BY <2>1
<1>2. k <= m * n - 1
  <2>1. (c + 1) * n <= m * n
    <3>1. c + 1 \in Nat /\ c + 1 <= m
      OBVIOUS
    <3> QED
      BY <3>1, TimesMonotone
  <2>2. (c + 1) * n = c * n + n
    OBVIOUS
  <2>3. {c * n, m * n} \subseteq Nat
    OBVIOUS
  <2> QED
    BY <2>1, <2>2, <2>3
<1>3. m * n \in Nat
  OBVIOUS
<1>4. k \in 0 .. m * n - 1
  BY <1>1, <1>2, <1>3
<1>5. (k % n) + 1 = i
  BY <1>1
<1> HIDE DEF k
<1> QED
  BY <1>1, <1>4, <1>5 DEF HasPosition

-----------------------------------------------------------------------------
\* Nothing has failed, and nothing fails in this step of a call.
Calm == SaveInv /\ PhaseInv /\ CalmInv /\ troubles = 0
CalmStep == Calm /\ troubles' = 0 /\ UNCHANGED <<jpc, granted>>

\* The loops walk all CPUs, and the list that was there at first.
LEMMA CalmLoops ==
  ASSUME Calm, spc \in Looping \cup {"check"}
  PROVE  /\ copy = Initial /\ Initial # <<>> /\ Initial \in Seq(Entry) /\ Distinct(Initial)
         /\ num_msr = Len(Initial) /\ num_cpu * num_msr = Positions
<1>1. copy = list /\ copy # <<>> /\ list = Initial
  BY DEF Calm, CalmInv, Quiet, Unmoved, SaveInv, CopyInv, PlaceInv
<1>2. Initial \in Seq(Entry) /\ Distinct(Initial)
  BY SaveAssumption DEF Distinct
<1>3. num_cpu = NumCpu
  BY DEF Calm, CalmInv, CallQuiet, Looping
<1> QED
  BY <1>1, <1>2, <1>3 DEF num_msr, Positions

\* Every register in the loops can be read, and the list opens the bits of its mask.
LEMMA CalmAccess ==
  ASSUME Calm, spc \in Looping, pos < num_cpu * num_msr
  PROVE  /\ Here = RegAt(Initial, pos) /\ Here[1] = Cpu(pos) /\ Here[2] = Reg(pos)
         /\ Cpu(pos) \in CPUs /\ Reg(pos) \in Addrs /\ Cpu(pos) \in online /\ Readable
         /\ OpenBits(Reg(pos)) = Mask(pos)
         /\ Value \in Masks /\ Mask(pos) \in Masks
         /\ \E i \in DOMAIN Initial : Reg(pos) = Initial[i].msr /\ Mask(pos) = Initial[i].mask
<1>1. /\ copy = Initial /\ Initial # <<>> /\ Initial \in Seq(Entry) /\ Distinct(Initial)
      /\ list = Initial /\ online = CPUs /\ SaveTypeOK
  BY CalmLoops DEF Calm, CalmInv, Quiet, Unmoved, SaveInv
<1>2. pos \in 0 .. num_cpu * num_msr - 1
  <2>1. num_cpu * num_msr \in Nat
    BY <1>1, WholeCpus, SaveAssumption DEF SaveTypeOK, num_msr
  <2> QED
    BY <1>1, <2>1 DEF SaveTypeOK
<1>3. /\ Cpu(pos) \in CPUs /\ Reg(pos) \in Addrs /\ Mask(pos) \in Masks
      /\ <<Cpu(pos), Reg(pos)>> = RegAt(copy, pos) /\ pos \in Nat
  BY <1>1, <1>2, PositionNamesRegister
<1>4. PICK i \in DOMAIN Initial : EntryAt(Initial, pos) = Initial[i]
  BY <1>1, <1>3, EntryHasType
<1>5. Reg(pos) = Initial[i].msr /\ Mask(pos) = Initial[i].mask
  BY <1>1, <1>4 DEF Reg, Mask, EntryAt, num_msr
<1>6. OpenBits(Reg(pos)) = Mask(pos)
  BY <1>1, <1>5, ListOpensMask
<1>7. Readable
  BY <1>1, <1>3, <1>5 DEF Readable, Listed
<1>8. Value \in Masks
  BY <1>1, <1>3 DEF Value, SaveTypeOK
<1> QED
  BY <1>1, <1>3, <1>5, <1>6, <1>7, <1>8 DEF Here

\* What a step of a call leaves alone.
LEMMA CalmFrame ==
  ASSUME CalmStep, UNCHANGED <<machine, list, listTime, moved, failed, op>>, CallQuiet',
         op = "save" => ReadBehind(seen', pos'),
         file' = file \/ op = "save",
         op = "save" /\ spc' = "return" => Complete'
  PROVE  CalmInv'
<1> USE DEF CalmStep, Calm, CalmInv, machine
<1>1. Quiet'
  BY DEF Quiet, Unmoved
<1>2. ClosedKept'
  <2>1. \A a \in Addrs : OpenBits(a)' = OpenBits(a)
    BY DEF OpenBits
  <2> QED
    BY <2>1 DEF ClosedKept
<1>3. GrantedSaved'
  <2>1. /\ jpc \in {"pool", "prolog"} => msr' = granted'
        /\ op' = "save" => ReadBehind(seen, pos)'
    BY DEF GrantedSaved, ReadBehind
  <2>2. ASSUME jpc \in {"job", "epilog"} PROVE Complete'
    <3>1. op # "save"
      BY <2>2 DEF PhaseInv, Operation, SaveInv, PlaceInv
    <3>2. file' = file /\ Complete
      BY <2>2, <3>1 DEF GrantedSaved
    <3> QED
      BY <3>2 DEF Complete, ReadBehind
  <2> QED
    BY <2>1, <2>2 DEF GrantedSaved
<1> QED
  BY <1>1, <1>2, <1>3

\* The list is copied, and its copy is empty only if the list is.
LEMMA CalmList == ASSUME CalmStep, CopyEntry \/ CopyEnd PROVE CalmInv'
<1> USE DEF CalmStep, Calm, machine, admin, history
<1>1. /\ UNCHANGED <<machine, list, listTime, moved, failed, op, file, seen, pos, num_cpu>>
      /\ spc = "list"
  BY DEF CopyEntry, CopyEnd, Step, Fail
<1>2. op = "save" => ReadBehind(seen', pos')
  BY <1>1 DEF CalmInv, GrantedSaved
<1>3. CASE CopyEntry
  <2>1. spc' = "list"
    BY <1>3 DEF CopyEntry, Step
  <2>2. CallQuiet'
    BY <1>1, <2>1 DEF CalmInv, CallQuiet
  <2> QED
    BY <1>1, <1>2, <2>1, <2>2, CalmFrame
<1>4. CASE CopyEnd
  <2>1. spc' \in {"open", "check"} \/ (spc' = "return" /\ Initial = <<>>)
    <3>1. CASE copy # <<>>
      BY <1>4, <3>1 DEF CopyEnd, Step
    <3>2. CASE copy = <<>>
      <4>1. Len(list) <= 0 /\ spc' = "return"
        BY <1>4, <3>2 DEF CopyEnd, Fail, Step, num_msr
      <4>2. list = Initial /\ Initial \in Seq(Entry)
        BY SaveAssumption DEF CalmInv, Quiet, Unmoved
      <4> QED
        BY <4>1, <4>2
    <3> QED
      BY <3>1, <3>2
  <2>2. CallQuiet'
    BY <1>1, <2>1 DEF CalmInv, CallQuiet
  <2>3. spc' = "return" => Complete'
    BY <2>1 DEF Complete
  <2> QED
    BY <1>1, <1>2, <2>2, <2>3, CalmFrame
<1> QED
  BY <1>3, <1>4

\* All devices open, and the loops end at the last position.
LEMMA CalmOpen == ASSUME CalmStep, OpenCpu \/ AllDone PROVE CalmInv'
<1> USE DEF CalmStep, Calm, machine, admin, locals, history
<1>1. /\ UNCHANGED <<machine, list, listTime, moved, failed, op, file, seen, pos>>
      /\ UNCHANGED <<num_cpu, copy>>
      /\ spc = "open"
  BY DEF OpenCpu, AllDone, Step, Fail
<1>2. op = "save" => ReadBehind(seen', pos')
  BY <1>1 DEF CalmInv, GrantedSaved
<1>3. CASE OpenCpu
  <2>1. spc' = "register"
    <3>1. Cpu(pos) \in online
      BY <1>1, <1>3, CalmAccess DEF OpenCpu, Looping
    <3> QED
      BY <1>3, <3>1 DEF OpenCpu, Step
  <2>2. CallQuiet'
    BY <1>1, <2>1 DEF CalmInv, CallQuiet
  <2> QED
    BY <1>1, <1>2, <2>1, <2>2, CalmFrame
<1>4. CASE AllDone
  <2>1. pos = Positions /\ copy = Initial
    BY <1>1, <1>4, CalmLoops DEF AllDone, Looping
  <2>2. spc' = IF op = "save" THEN "write" ELSE "return"
    BY <1>4 DEF AllDone, Step
  <2>3. CallQuiet'
    BY <1>1, <2>1, <2>2 DEF CalmInv, CallQuiet
  <2>4. ~(op = "save" /\ spc' = "return")
    BY <2>2
  <2> QED
    BY <1>1, <1>2, <2>3, <2>4, CalmFrame
<1> QED
  BY <1>3, <1>4

\* The save reads at its position what was granted there.
LEMMA CalmSaveValue == ASSUME CalmStep, SaveValue PROVE CalmInv'
<1> USE DEF CalmStep, Calm, machine, admin
<1>1. /\ UNCHANGED <<machine, list, listTime, moved, failed, op, file, num_cpu, copy>>
      /\ spc = "register" /\ op = "save" /\ pos' = pos + 1 /\ spc' \in {"open", "register"}
      /\ seen' = [x \in DOMAIN seen \cup {Here} |-> IF x = Here THEN Value ELSE seen[x]]
  BY DEF SaveValue, Advance
<1>2. pos < num_cpu * num_msr
  BY <1>1 DEF SaveInv, PlaceInv
<1>3. /\ Here = RegAt(Initial, pos) /\ Here[1] = Cpu(pos) /\ Here[2] = Reg(pos)
  BY <1>1, <1>2, CalmAccess DEF Looping
<1>4. msr = granted
  BY <1>1 DEF CalmInv, GrantedSaved, PhaseInv, Operation
<1>5. ReadBehind(seen', pos')
  <2> SUFFICES ASSUME NEW k \in 0 .. pos' - 1
               PROVE  /\ RegAt(Initial, k) \in DOMAIN seen'
                      /\ seen'[RegAt(Initial, k)]
                           = granted[RegAt(Initial, k)[1]][RegAt(Initial, k)[2]]
    BY DEF ReadBehind
  <2> DEFINE r == RegAt(Initial, k)
  <2>1. CASE r = Here
    <3>1. Here \in DOMAIN seen' /\ seen'[Here] = Value
      BY <1>1
    <3> QED
      BY <1>3, <1>4, <2>1, <3>1 DEF Value
  <2>2. CASE r # Here
    <3>1. pos \in Nat /\ k \in 0 .. pos
      <4>1. pos \in Nat
        <5>1. num_cpu * num_msr \in Nat
          BY <1>1, CalmLoops, WholeCpus, SaveAssumption DEF SaveInv, SaveTypeOK, Looping
        <5> QED
          BY <5>1 DEF SaveInv, SaveTypeOK
      <4> QED
        BY <1>1, <4>1
    <3>2. k \in 0 .. pos - 1
      BY <1>3, <2>2, <3>1
    <3>3. r \in DOMAIN seen /\ seen[r] = granted[r[1]][r[2]]
      BY <1>1, <3>2 DEF CalmInv, GrantedSaved, ReadBehind
    <3>4. r \in DOMAIN seen' /\ seen'[r] = seen[r]
      BY <1>1, <2>2, <3>3
    <3> QED
      BY <3>3, <3>4
  <2> QED
    BY <2>1, <2>2
<1>6. CallQuiet'
  BY <1>1 DEF CalmInv, CallQuiet
<1> QED
  BY <1>1, <1>5, <1>6, CalmFrame

\* The file has a word for every position, and what was granted behind it.
LEMMA CalmWriteFile == ASSUME CalmStep, WriteFile PROVE CalmInv'
<1> USE DEF CalmStep, Calm, machine, admin, history
<1>1. /\ UNCHANGED <<machine, list, listTime, moved, failed, op, seen, pos, num_cpu, copy>>
      /\ spc = "write" /\ op = "save" /\ spc' = "return"
  BY DEF WriteFile, Step, SaveInv, PlaceInv
<1>2. file' = Saved(buffer)
  BY DEF WriteFile, Trouble
<1>3. copy = Initial /\ pos = Positions /\ Len(buffer) = pos /\ ReadBehind(seen, pos)
  BY <1>1, CalmLoops DEF Looping, CalmInv, CallQuiet, GrantedSaved, SaveInv, PlaceInv
<1>4. file' \in FileType
  <2>1. /\ buffer \in Seq(Masks) /\ clock \in 0 .. MaxTime /\ copy \in Seq(Entry)
        /\ seen \in Readings /\ moved \in BOOLEAN
    BY DEF SaveInv, SaveTypeOK
  <2> QED
    BY <1>2, <2>1 DEF Saved, FileType
<1>5. Complete'
  <2>1. file' # NoFile
    BY <1>4, SaveAssumption
  <2>2. file'.list = Initial /\ Len(file'.words) = Positions /\ file'.seen = seen
    BY <1>2, <1>3 DEF Saved
  <2> QED
    BY <1>3, <2>1, <2>2 DEF Complete, ReadBehind
<1>6. CallQuiet'
  BY <1>1 DEF CalmInv, CallQuiet
<1> QED
  BY <1>1, <1>3, <1>5, <1>6, CalmFrame

\* The file of the prolog is accepted.
LEMMA CalmCheckFile == ASSUME CalmStep, CheckFile PROVE CalmInv'
<1> USE DEF CalmStep, Calm, machine, admin, history
<1>1. /\ UNCHANGED <<machine, list, listTime, moved, failed, op, file, seen, pos>>
      /\ UNCHANGED <<num_cpu, copy>>
      /\ spc = "check" /\ op = "restore"
  BY DEF CheckFile, Step, Fail, SaveInv, PlaceInv
<1>2. Complete /\ Initial # <<>> /\ num_cpu * num_msr = Positions
  BY <1>1, CalmLoops DEF CalmInv, GrantedSaved, PhaseInv, Operation
<1>3. file.time >= listTime
  <2>1. file \in FileType
    BY <1>2 DEF Complete, SaveInv, SaveTypeOK
  <2> QED
    BY <2>1, SaveAssumption DEF FileType, CalmInv, Quiet, Unmoved
<1>4. spc' = "open"
  BY <1>2, <1>3 DEF CheckFile, Accepted, Fresh, Complete, Step
<1>5. CallQuiet'
  BY <1>1, <1>4 DEF CalmInv, CallQuiet
<1> QED
  BY <1>1, <1>5, CalmFrame

\* A register is skipped, or is to be written because bits of its mask differ.
LEMMA CalmReadRegister == ASSUME CalmStep, SkipRegister \/ ReadRegister PROVE CalmInv'
<1> USE DEF CalmStep, Calm, machine, admin, locals, history
<1>1. /\ UNCHANGED <<machine, list, listTime, moved, failed, op, file, num_cpu, copy>>
      /\ spc = "register" /\ op = "restore"
  BY DEF SkipRegister, ReadRegister, Restoring
<1>2. CASE SkipRegister
  <2>1. spc' \in {"open", "register"}
    BY <1>2 DEF SkipRegister, Advance
  <2>2. CallQuiet'
    BY <1>1, <2>1 DEF CalmInv, CallQuiet
  <2> QED
    BY <1>1, <2>2, CalmFrame
<1>3. CASE ReadRegister
  <2>1. spc' = "pwrite" /\ pos' = pos
    BY <1>3 DEF ReadRegister
  <2>2. Mask(pos) # {}
    <3>1. Word # Value \cap Mask(pos) /\ is_good_value(Word, Mask(pos))
      BY <1>3 DEF ReadRegister, Unchanged
    <3>2. Word \in Masks
      <4>1. pos < num_cpu * num_msr /\ buffer \in Seq(Masks) /\ Len(buffer) = num_cpu * num_msr
        BY <1>1 DEF SaveInv, PlaceInv, SaveTypeOK, Looping
      <4>2. num_cpu * num_msr \in Nat
        BY <1>1, CalmLoops, WholeCpus, SaveAssumption DEF SaveInv, SaveTypeOK, Looping
      <4>3. pos + 1 \in 1 .. Len(buffer)
        BY <4>1, <4>2 DEF SaveInv, SaveTypeOK
      <4> QED
        BY <4>1, <4>3 DEF Word
    <3> QED
      BY <3>1, <3>2, SaveAssumption DEF is_good_value, Masks
  <2>3. Mask(pos)' = Mask(pos)
    BY <1>1, <2>1 DEF Mask, num_msr
  <2>4. CallQuiet'
    BY <1>1, <2>1, <2>2, <2>3 DEF CalmInv, CallQuiet
  <2> QED
    BY <1>1, <2>1, <2>4, CalmFrame
<1> QED
  BY <1>2, <1>3

\* Only bits that the list opens change.
LEMMA OpenBitsChange ==
  ASSUME CalmInv, UNCHANGED <<list, granted>>, SaveTypeOK,
         NEW c \in CPUs, NEW a \in Addrs, NEW v,
         msr' = [msr EXCEPT ![c][a] = (v \cap OpenBits(a)) \cup (@ \ OpenBits(a))]
  PROVE  ClosedKept'
<1> SUFFICES ASSUME NEW d \in CPUs, NEW b \in Addrs
             PROVE  msr'[d][b] \ OpenBits(b) = granted[d][b] \ OpenBits(b)
  BY DEF ClosedKept, OpenBits
<1>1. msr[d][b] \ OpenBits(b) = granted[d][b] \ OpenBits(b)
  BY DEF CalmInv, ClosedKept
<1>2. msr \in [CPUs -> [Addrs -> Masks]]
  BY DEF SaveTypeOK
<1>3. CASE d = c /\ b = a
  <2>1. msr'[d][b] = (v \cap OpenBits(b)) \cup (msr[d][b] \ OpenBits(b))
    BY <1>2, <1>3
  <2> QED
    BY <1>1, <2>1
<1>4. CASE ~(d = c /\ b = a)
  <2>1. msr'[d][b] = msr[d][b]
    BY <1>2, <1>4
  <2> QED
    BY <1>1, <2>1
<1> QED
  BY <1>3, <1>4

\* The restore writes its word.
LEMMA CalmWriteRegister == ASSUME CalmStep, WriteRegister PROVE CalmInv'
<1> USE DEF CalmStep, Calm, admin, locals, history
<1>1. /\ UNCHANGED <<online, list, listTime, moved, failed, op, file, num_cpu, copy>>
      /\ spc = "pwrite" /\ op = "restore" /\ spc' \in {"open", "register"}
  BY DEF WriteRegister, Restoring, Advance
<1>2. jpc = "epilog" /\ Complete
  BY <1>1 DEF PhaseInv, Operation, CalmInv, GrantedSaved
<1>3. Cpu(pos) \in CPUs /\ Reg(pos) \in Addrs
  BY <1>1, CalmAccess DEF Looping, SaveInv, PlaceInv
<1>4. msr' = [msr EXCEPT ![Cpu(pos)][Reg(pos)] = (WordWritten \cap OpenBits(Reg(pos)))
                                                   \cup (@ \ OpenBits(Reg(pos)))]
  BY DEF WriteRegister
<1>5. ClosedKept'
  BY <1>1, <1>3, <1>4, OpenBitsChange DEF SaveInv
<1>6. CallQuiet' /\ Quiet'
  BY <1>1 DEF CalmInv, CallQuiet, Quiet, Unmoved
<1>7. Complete'
  BY <1>1, <1>2 DEF Complete, ReadBehind
<1>8. GrantedSaved'
  BY <1>1, <1>2, <1>7 DEF GrantedSaved
<1> QED
  BY <1>5, <1>6, <1>8 DEF CalmInv

\* A step that counts as a failure is none of these.
LEMMA CalmCall == ASSUME CookieFree(granted), CalmStep, CallStep, spc # "return" PROVE CalmInv'
<1> USE DEF CalmStep, Calm
<1>1. ~Trouble
  BY DEF Trouble
<1>2. ~SystemCallFails
  BY <1>1 DEF SystemCallFails
<1>3. ~SaveBadRead
  <2> SUFFICES ASSUME SaveBadRead PROVE FALSE
    OBVIOUS
  <2>1. spc = "register" /\ AccessFails(Readable)
    BY DEF SaveBadRead
  <2>2. Readable
    BY <2>1, CalmAccess DEF Looping, SaveInv, PlaceInv
  <2> QED
    BY <1>1, <2>1, <2>2 DEF AccessFails
<1>4. ~AccessWarning
  <2> SUFFICES ASSUME AccessWarning PROVE FALSE
    OBVIOUS
  <2>1. \/ spc = "register" /\ AccessFails(Readable)
        \/ spc = "pwrite" /\ AccessFails(Writable)
    BY DEF AccessWarning, Restoring
  <2>2. Readable /\ Cpu(pos) \in online /\ OpenBits(Reg(pos)) = Mask(pos)
    BY <2>1, CalmAccess DEF Looping, SaveInv, PlaceInv
  <2>3. spc = "pwrite" => Writable
    BY <2>2 DEF Writable, CalmInv, CallQuiet
  <2> QED
    BY <1>1, <2>1, <2>2, <2>3 DEF AccessFails
<1>5. ~SaveCookie
  <2> SUFFICES ASSUME SaveCookie PROVE FALSE
    OBVIOUS
  <2>1. /\ spc = "register" /\ op = "save" /\ Mask(pos) = Bits
        /\ msr[Cpu(pos)][Reg(pos)] = Cookie
    BY DEF SaveCookie, Fail, Step, Value
  <2>2. /\ Cpu(pos) \in CPUs
        /\ \E i \in DOMAIN Initial : Reg(pos) = Initial[i].msr /\ Mask(pos) = Initial[i].mask
    BY <2>1, CalmAccess DEF Looping, SaveInv, PlaceInv
  <2>3. msr = granted
    BY <2>1 DEF CalmInv, GrantedSaved, PhaseInv, Operation
  <2> QED
    BY <2>1, <2>2, <2>3 DEF CookieFree
<1> QED
  BY <1>2, <1>3, <1>4, <1>5, CalmList, CalmOpen, CalmSaveValue, CalmWriteFile, CalmCheckFile,
     CalmReadRegister, CalmWriteRegister DEF CallStep, Return, Step

\* A restore that has passed all positions has given back what was granted.
LEMMA AllRestored ==
  ASSUME Calm, op = "restore", spc = "return", Complete
  PROVE  msr = granted
<1>1. /\ msr \in [CPUs -> [Addrs -> Masks]] /\ granted \in [CPUs -> [Addrs -> Masks]]
      /\ list = Initial /\ Initial \in Seq(Entry) /\ Distinct(Initial) /\ failed = {}
  BY SaveAssumption DEF Calm, CalmInv, Quiet, Unmoved, SaveInv, SaveTypeOK, Distinct
<1>2. ASSUME NEW c \in CPUs, NEW a \in Addrs PROVE msr[c][a] = granted[c][a]
  <2>1. msr[c][a] \ OpenBits(a) = granted[c][a] \ OpenBits(a)
    BY DEF Calm, CalmInv, ClosedKept
  <2>2. CASE \A i \in DOMAIN Initial : Initial[i].msr # a
    <3>1. OpenBits(a) = {}
      BY <1>1, <2>2, UnlistedIsClosed
    <3> QED
      BY <2>1, <3>1
  <2>3. ASSUME NEW i \in DOMAIN Initial, Initial[i].msr = a
        PROVE  msr[c][a] = granted[c][a]
    <3>1. /\ Initial # <<>> /\ Len(Initial) \in Nat \ {0} /\ i \in 1 .. Len(Initial)
          /\ c \in 0 .. NumCpu - 1
      BY <1>1, <2>3 DEF CPUs
    <3>2. copy = Initial /\ pos = Positions
      BY <3>1 DEF Calm, CalmInv, CallQuiet
    <3>3. PICK k \in 0 .. Positions - 1 : k \div Len(Initial) = c /\ (k % Len(Initial)) + 1 = i
      <4>1. NumCpu \in Nat
        BY SaveAssumption
      <4>2. HasPosition(NumCpu, Len(Initial), c, i)
        BY <3>1, <4>1, EveryRegisterHasPosition
      <4> QED
        BY <4>2 DEF HasPosition, Positions
    <3>4. /\ Cpu(k) = c /\ Reg(k) = a /\ Mask(k) = Initial[i].mask
          /\ RegAt(Initial, k) = <<c, a>>
      BY <2>3, <3>2, <3>3 DEF Cpu, Reg, Mask, num_msr, RegAt, EntryAt
    <3>5. <<c, a>> \in DOMAIN file.seen /\ file.seen[<<c, a>>] = granted[c][a] /\ SameList
      BY <3>1, <3>2, <3>3, <3>4 DEF Complete, ReadBehind, SameList
    <3>6. msr[c][a] \cap Mask(k) = file.seen[<<c, a>>] \cap Mask(k)
      <4>1. \A j \in 0 .. pos - 1 :
              <<Cpu(j), Reg(j)>> \in DOMAIN file.seen \ failed =>
                msr[Cpu(j)][Reg(j)] \cap Mask(j) = file.seen[<<Cpu(j), Reg(j)>>] \cap Mask(j)
        BY <3>5 DEF Calm, SaveInv, RestoredBehind, CalmInv, Quiet, Unmoved
      <4> QED
        BY <1>1, <3>2, <3>3, <3>4, <3>5, <4>1
    <3>7. OpenBits(a) = Mask(k)
      BY <1>1, <2>3, <3>4, ListOpensMask
    <3> QED
      BY <2>1, <3>5, <3>6, <3>7
  <2> QED
    BY <2>2, <2>3
<1> QED
  BY <1>1, <1>2

\* A new job begins calm.
LEMMA CalmGrant ==
  ASSUME SaveInv, PhaseInv, LeftInv, Unmoved, Grant
  PROVE  CalmInv'
<1>1. /\ granted' = msr /\ jpc' = "prolog" /\ UNCHANGED svars
      /\ op = "none" /\ spc = "idle" /\ failed = {}
  BY DEF Grant, PhaseInv, LeftInv, SaveInv, PlaceInv
<1>2. Quiet' /\ CallQuiet'
  BY <1>1 DEF Quiet, Unmoved, CallQuiet, svars, machine, admin, locals, history, SaveInv,
              SaveTypeOK
<1>3. ClosedKept' /\ GrantedSaved'
  BY <1>1 DEF ClosedKept, OpenBits, GrantedSaved, svars, machine, admin, locals
<1> QED
  BY <1>2, <1>3 DEF CalmInv

\* The steps of the job and of the plugin around its calls.
LEMMA CalmJob ==
  ASSUME Calm, troubles' = 0, skipped' = {},
         \/ JobRuns
         \/ \E phase \in {"prolog", "epilog"} :
              PluginFails(phase) \/ PluginTakesLog(phase) \/ PluginReturns(phase)
  PROVE  CalmInv'
<1> USE DEF Calm
<1>2. CASE JobRuns
  <2>1. /\ jpc = "job" /\ jpc' \in {"job", "epilog"} /\ spc = "idle" /\ op = "none"
        /\ UNCHANGED <<online, admin, file, spc, locals, pos, history, granted>>
    BY <1>2 DEF JobRuns, JobWrites, svars, machine, PhaseInv, SaveInv, PlaceInv
  <2>2. Quiet' /\ CallQuiet'
    BY <2>1 DEF CalmInv, Quiet, Unmoved, CallQuiet, admin, locals, history
  <2>3. ClosedKept'
    <3>1. CASE msr' = msr
      BY <2>1, <3>1 DEF CalmInv, ClosedKept, OpenBits, admin
    <3>2. CASE JobWrites
      <4>1. PICK c \in online, a \in Addrs, v \in JobValues :
              msr' = [msr EXCEPT ![c][a] = (v \cap OpenBits(a)) \cup (@ \ OpenBits(a))]
        BY <3>2 DEF JobWrites
      <4>2. c \in CPUs
        BY <4>1 DEF CalmInv, Quiet, Unmoved
      <4> QED
        BY <2>1, <4>1, <4>2, OpenBitsChange DEF SaveInv, admin
    <3> QED
      BY <1>2, <3>1, <3>2 DEF JobRuns, svars, machine
  <2>4. Complete'
    BY <2>1 DEF CalmInv, GrantedSaved, Complete, ReadBehind
  <2>5. GrantedSaved'
    BY <2>1, <2>4 DEF GrantedSaved, locals
  <2> QED
    BY <2>2, <2>3, <2>5 DEF CalmInv
<1>3. ASSUME NEW phase \in {"prolog", "epilog"}, PluginFails(phase) PROVE FALSE
  BY <1>3 DEF PluginFails, Trouble
<1>4. ASSUME NEW phase \in {"prolog", "epilog"}, PluginTakesLog(phase) PROVE CalmInv'
  <2>1. jpc = phase /\ jpc' = phase /\ Call(Operation[phase]) /\ granted' = granted
    BY <1>4 DEF PluginTakesLog, Skip
  <2>2. /\ UNCHANGED <<machine, admin, file, history>> /\ pos' = 0 /\ spc' = "list"
        /\ spc = "idle" /\ num_cpu' = Cardinality(CPUs)
    BY <2>1 DEF Call, Step, CalmInv, Quiet, Unmoved, SaveInv, PlaceInv
  <2>3. num_cpu' = NumCpu
    BY <2>2, FS_Interval, SaveAssumption DEF CPUs
  <2>4. Quiet' /\ CallQuiet'
    BY <2>1, <2>2, <2>3 DEF CalmInv, Quiet, Unmoved, CallQuiet, machine, admin, history
  <2>5. ClosedKept'
    BY <2>1, <2>2 DEF CalmInv, ClosedKept, OpenBits, machine, admin
  <2>6. GrantedSaved'
    <3>1. ReadBehind(seen, pos)'
      BY <2>2 DEF ReadBehind
    <3>2. jpc = "epilog" => Complete'
      BY <2>1, <2>2 DEF CalmInv, GrantedSaved, Complete, ReadBehind
    <3>3. jpc = "prolog" => msr' = granted'
      BY <2>1, <2>2 DEF CalmInv, GrantedSaved, machine
    <3> QED
      BY <2>1, <2>2, <3>1, <3>2, <3>3 DEF GrantedSaved
  <2> QED
    BY <2>4, <2>5, <2>6 DEF CalmInv
<1>5. ASSUME NEW phase \in {"prolog", "epilog"}, PluginReturns(phase) PROVE CalmInv'
  <2>1. /\ jpc = phase /\ jpc' = After[phase] /\ granted' = granted
        /\ UNCHANGED <<machine, admin, file>> /\ spc = "return" /\ spc' = "idle" /\ op' = "none"
        /\ failed' = {} /\ ~moved'
    BY <1>5 DEF PluginReturns, Return, Step
  <2>2. op = Operation[phase]
    BY <2>1 DEF PhaseInv
  <2>3. Complete
    <3>1. CASE phase = "prolog"
      BY <2>1, <2>2, <3>1 DEF CalmInv, GrantedSaved, Operation
    <3>2. CASE phase = "epilog"
      BY <2>1, <3>2 DEF CalmInv, GrantedSaved
    <3> QED
      BY <3>1, <3>2
  <2>4. Quiet' /\ CallQuiet'
    BY <2>1 DEF CalmInv, Quiet, Unmoved, CallQuiet, machine, admin
  <2>5. ClosedKept'
    BY <2>1 DEF CalmInv, ClosedKept, OpenBits, machine, admin
  <2>6. Complete'
    BY <2>1, <2>3 DEF Complete, ReadBehind
  <2>7. jpc' = "pool" => msr' = granted'
    <3> SUFFICES ASSUME jpc' = "pool" PROVE msr' = granted'
      OBVIOUS
    <3>1. phase = "epilog"
      BY <2>1 DEF After
    <3>2. op = "restore"
      BY <2>2, <3>1 DEF Operation
    <3>3. msr = granted
      BY <2>1, <2>3, <3>2, AllRestored
    <3> QED
      BY <2>1, <3>3 DEF machine
  <2>8. jpc' \in {"job", "pool"}
    BY <2>1 DEF After
  <2>9. GrantedSaved'
    BY <2>1, <2>6, <2>7, <2>8 DEF GrantedSaved
  <2> QED
    BY <2>4, <2>5, <2>9 DEF CalmInv
<1> QED
  BY <1>2, <1>3, <1>4, <1>5

\* Where nothing changes but the time, nothing is lost.
LEMMA CalmTime ==
  ASSUME CalmInv, UNCHANGED <<machine, list, listTime, file, spc, locals, pos, history>>,
         UNCHANGED <<jpc, granted>>
  PROVE  CalmInv'
<1>1. Quiet' /\ CallQuiet'
  BY DEF CalmInv, Quiet, Unmoved, CallQuiet, machine, locals, history, Mask, num_msr
<1>2. ClosedKept'
  BY DEF CalmInv, ClosedKept, OpenBits, machine
<1>3. GrantedSaved'
  BY DEF CalmInv, GrantedSaved, Complete, ReadBehind, machine, locals, history
<1> QED
  BY <1>1, <1>2, <1>3 DEF CalmInv

\* A node that has met no trouble before a step has met none if it has met none after it.
LEMMA TroublesGrow ==
  ASSUME SaveInv, [JobNext]_jvars, troubles' = 0
  PROVE  troubles = 0
<1>1. CASE UNCHANGED troubles
  BY <1>1
<1>2. CASE Trouble
  BY <1>2 DEF Trouble, SaveInv, SaveTypeOK
<1>3. UNCHANGED troubles \/ Trouble
  <2>1. CASE CallStep
    <3>1. CASE CopyEntry \/ CopyEnd \/ OpenCpu \/ AllDone \/ SystemCallFails
      BY <3>1 DEF CopyEntry, CopyEnd, OpenCpu, AllDone, SystemCallFails
    <3>2. CASE SaveCookie \/ SaveValue \/ SaveBadRead \/ WriteFile
      BY <3>2 DEF SaveCookie, SaveValue, SaveBadRead, WriteFile, AccessFails
    <3>3. CASE CheckFile \/ SkipRegister \/ ReadRegister \/ AccessWarning \/ WriteRegister
      BY <3>3 DEF CheckFile, SkipRegister, ReadRegister, AccessWarning, WriteRegister,
                  AccessFails
    <3> QED
      BY <2>1, <3>1, <3>2, <3>3 DEF CallStep, Return
  <2>2. CASE Grant \/ JobRuns \/ UNCHANGED jvars
    BY <2>2 DEF Grant, JobRuns, JobWrites, svars, jvars
  <2>3. CASE \E phase \in {"prolog", "epilog"} :
               PluginFails(phase) \/ PluginTakesLog(phase) \/ PluginReturns(phase)
    BY <2>3 DEF PluginFails, PluginTakesLog, PluginReturns, Return, Call, svars
  <2>4. CASE ReplaceList \/ Tick \/ Hotplug
    BY <2>4 DEF ReplaceList, Tick, Hotplug
  <2> QED
    BY <2>1, <2>2, <2>3, <2>4 DEF JobNext
<1> QED
  BY <1>1, <1>2, <1>3

\* Only a failure takes CPUs or the list away.
LEMMA UnmovedStays ==
  ASSUME SaveInv, Unmoved, troubles = 0, troubles' = 0, [JobNext]_jvars
  PROVE  Unmoved'
<1> USE DEF Unmoved, machine, admin, history
<1>1. ~Trouble
  BY DEF Trouble
<1>2. CASE CallStep
  <2>1. CASE CopyEntry \/ CopyEnd \/ OpenCpu \/ AllDone \/ SystemCallFails
    BY <2>1 DEF CopyEntry, CopyEnd, OpenCpu, AllDone, SystemCallFails
  <2>2. CASE SaveCookie \/ SaveValue \/ SaveBadRead \/ WriteFile
    BY <2>2 DEF SaveCookie, SaveValue, SaveBadRead, WriteFile
  <2>3. CASE CheckFile \/ SkipRegister \/ ReadRegister \/ AccessWarning \/ WriteRegister
    BY <2>3 DEF CheckFile, SkipRegister, ReadRegister, AccessWarning, WriteRegister
  <2> QED
    BY <1>2, <2>1, <2>2, <2>3 DEF CallStep, Return
<1>3. CASE Grant \/ JobRuns \/ UNCHANGED jvars
  BY <1>3 DEF Grant, JobRuns, JobWrites, svars, jvars
<1>4. CASE \E phase \in {"prolog", "epilog"} :
             PluginFails(phase) \/ PluginTakesLog(phase) \/ PluginReturns(phase)
  BY <1>1, <1>4 DEF PluginFails, PluginTakesLog, PluginReturns, Return, Call, svars
<1>5. CASE ReplaceList \/ Tick \/ Hotplug
  BY <1>1, <1>5 DEF ReplaceList, Tick, Hotplug
<1> QED
  BY <1>2, <1>3, <1>4, <1>5 DEF JobNext

\* Registers change only in a job and in a call.
LEMMA LeftStays ==
  ASSUME SaveInv, PhaseInv, LeftInv, [JobNext]_jvars
  PROVE  LeftInv'
<1>1. CASE Grant
  BY <1>1 DEF Grant, svars, history, LeftInv
<1>2. CASE JobRuns
  BY <1>2 DEF JobRuns, JobWrites, svars, machine, history, LeftInv
<1>3. ASSUME NEW phase \in {"prolog", "epilog"}, PluginFails(phase)
      PROVE  LeftInv'
  BY <1>3 DEF PluginFails, Skip, After, machine, history, LeftInv
<1>4. ASSUME NEW phase \in {"prolog", "epilog"}, PluginTakesLog(phase)
      PROVE  LeftInv'
  BY <1>4 DEF PluginTakesLog, Skip, After, Call, Step, svars, machine, history, LeftInv
<1>5. ASSUME NEW phase \in {"prolog", "epilog"}, PluginReturns(phase)
      PROVE  LeftInv'
  BY <1>5 DEF PluginReturns, Return, After, machine, PhaseInv, LeftInv
<1>6. CASE CallStep /\ spc # "return" /\ UNCHANGED job
  <2>1. spc # "idle" /\ spc' # "idle"
    <3>1. spc # "idle"
      BY <1>6, CallUnderWay
    <3>2. CASE CopyEntry \/ CopyEnd \/ OpenCpu \/ AllDone \/ SystemCallFails
      BY <3>2 DEF CopyEntry, CopyEnd, OpenCpu, AllDone, SystemCallFails, Step, Fail
    <3>3. CASE SaveCookie \/ SaveValue \/ SaveBadRead \/ WriteFile
      BY <3>3 DEF SaveCookie, SaveValue, SaveBadRead, WriteFile, Step, Fail, Advance
    <3>4. CASE CheckFile \/ SkipRegister \/ ReadRegister \/ AccessWarning \/ WriteRegister
      <4>1. CASE CheckFile \/ ReadRegister
        BY <3>1, <4>1 DEF CheckFile, ReadRegister, Step, Fail
      <4>2. CASE SkipRegister
        BY <3>1, <4>2 DEF SkipRegister, Advance
      <4>3. CASE AccessWarning
        BY <3>1, <4>3 DEF AccessWarning, Advance
      <4>4. CASE WriteRegister
        BY <3>1, <4>4 DEF WriteRegister, Advance
      <4> QED
        BY <3>4, <4>1, <4>2, <4>3, <4>4
    <3> QED
      BY <1>6, <3>1, <3>2, <3>3, <3>4 DEF CallStep, Return, Step
  <2>2. jpc # "pool"
    BY <2>1 DEF PhaseInv
  <2> QED
    BY <1>6, <2>1, <2>2 DEF job, LeftInv
<1>7. CASE (ReplaceList \/ Tick \/ Hotplug) /\ UNCHANGED job
  BY <1>7 DEF ReplaceList, Tick, Hotplug, machine, locals, history, job, LeftInv
<1>8. CASE UNCHANGED jvars
  BY <1>8 DEF jvars, job, svars, machine, history, LeftInv
<1> QED
  BY <1>1, <1>2, <1>3, <1>4, <1>5, <1>6, <1>7, <1>8 DEF JobNext

\* Within a job, a phase that has been skipped remains so.
LEMMA SkippedGrows ==
  ASSUME [JobNext]_jvars, ~Grant, skipped' = {}
  PROVE  skipped = {} /\ granted' = granted
<1>1. CASE JobRuns \/ UNCHANGED jvars
  BY <1>1 DEF JobRuns, jvars, job
<1>2. CASE \E phase \in {"prolog", "epilog"} :
             PluginFails(phase) \/ PluginTakesLog(phase) \/ PluginReturns(phase)
  BY <1>2 DEF PluginFails, PluginTakesLog, PluginReturns, Skip
<1> QED
  BY <1>1, <1>2 DEF JobNext, job

\* As long as nothing fails, the calm lasts, from job to job.
LEMMA CalmStays ==
  ASSUME JobInv, [JobNext]_jvars
  PROVE  JobInv'
<1>1. SaveInv' /\ PhaseInv' /\ LeftInv'
  BY JobStepHolds, LeftStays DEF JobInv
<1>2. ASSUME troubles' = 0 PROVE troubles = 0 /\ Unmoved /\ Unmoved'
  BY <1>2, TroublesGrow, UnmovedStays DEF JobInv
<1>3. ASSUME troubles' = 0, skipped' = {}, CookieFree(granted)' PROVE CalmInv'
  <2>1. CASE Grant
    BY <1>2, <1>3, <2>1, CalmGrant DEF JobInv
  <2>2. ASSUME ~Grant PROVE Calm /\ CookieFree(granted) /\ granted' = granted
    <3>1. skipped = {} /\ granted' = granted
      BY <1>3, <2>2, SkippedGrows
    <3>2. CookieFree(granted)
      BY <1>3, <3>1 DEF CookieFree
    <3> QED
      BY <1>2, <1>3, <3>1, <3>2 DEF JobInv, Calm
  <2>3. CASE CallStep /\ spc # "return" /\ UNCHANGED job
    <3>1. ~Grant
      BY <2>3, CallUnderWay DEF Grant, JobInv, PhaseInv
    <3> QED
      BY <1>3, <2>2, <2>3, <3>1, CalmCall DEF CalmStep, job
  <2>4. CASE ~Grant /\ (ReplaceList \/ Tick \/ Hotplug) /\ UNCHANGED job
    <3>1. Tick
      BY <1>2, <1>3, <2>4 DEF ReplaceList, Hotplug, Trouble
    <3> QED
      BY <2>2, <2>4, <3>1, CalmTime DEF Tick, Calm, job
  <2>5. CASE ~Grant /\ UNCHANGED jvars
    BY <2>2, <2>5, CalmTime DEF jvars, job, svars, admin, Calm
  <2>6. CASE ~Grant /\ (JobRuns \/ \E phase \in {"prolog", "epilog"} :
               PluginFails(phase) \/ PluginTakesLog(phase) \/ PluginReturns(phase))
    BY <1>3, <2>2, <2>6, CalmJob
  <2> QED
    BY <2>1, <2>3, <2>4, <2>5, <2>6 DEF JobNext
<1> QED
  BY <1>1, <1>2, <1>3 DEF JobInv

\* The first job is granted the node as it is powered on.
LEMMA JobInitHolds == JobInit => JobInv
<1> SUFFICES ASSUME JobInit PROVE JobInv
  OBVIOUS
<1>1. SaveInv
  BY SaveInitHolds DEF JobInit
<1>2. PhaseInv
  BY DEF JobInit, SaveInit, PhaseInv
<1>3. CalmInv
  BY SaveAssumption DEF JobInit, SaveInit, CalmInv, Quiet, Unmoved, CallQuiet, ClosedKept,
                        GrantedSaved
<1>4. LeftInv
  BY DEF JobInit, SaveInit, LeftInv
<1> QED
  BY <1>1, <1>2, <1>3, <1>4 DEF JobInv, CalmInv, Quiet

\* Whatever fails and whatever mkstemp returns, the calls of the plugin promise what msrsave
\* does: nothing is written for a bad read, no register is restored through another list,
\* and every register behind the loops that could be restored is.
THEOREM PluginKeepsPromises ==
  JobSpec => [](SaveTypeOK /\ RestoredBehind /\ BadReadsNotRestored /\ StaleListRefused)
<1>1. JobInit => SaveInv /\ PhaseInv
  BY JobInitHolds DEF JobInv
<1>2. (SaveInv /\ PhaseInv) /\ [JobNext]_jvars => (SaveInv /\ PhaseInv)'
  BY JobStepHolds
<1>3. SaveInv => SaveTypeOK /\ RestoredBehind /\ BadReadsNotRestored /\ StaleListRefused
  BY WrittenWasRead DEF SaveInv
<1> QED
  BY <1>1, <1>2, <1>3, PTL DEF JobSpec

\* Whatever mkstemp returns: a job whose prolog and epilog both call msrsave, on a node that
\* has met no failure, gives every register back as it was granted, for every list, every
\* number of CPUs and whatever the job writes; and one whose epilog makes no call leaves
\* every register as the job has left it (ResetUnlessSkipped).
THEOREM RegistersComeBack == JobSpec => []ResetUnlessSkipped
<1>1. JobInv => ResetUnlessSkipped
  BY DEF JobInv, LeftInv, CalmInv, GrantedSaved, ResetUnlessSkipped
<1>2. JobInv /\ [JobNext]_jvars => JobInv'
  BY CalmStays
<1> QED
  BY <1>1, <1>2, JobInitHolds, PTL DEF JobSpec

\* No call of msrsave is under way, and none has written a file.
NothingSaved == spc = "idle" /\ file = NoFile

\* A step of the job keeps it so if the plugin makes no call.
LEMMA NoCallStep ==
  ASSUME 0 \notin Descriptors, SaveInv, NothingSaved, [JobNext]_jvars
  PROVE  NothingSaved'
<1> USE DEF NothingSaved
<1>1. CASE Grant \/ JobRuns \/ UNCHANGED jvars
  BY <1>1 DEF Grant, JobRuns, JobWrites, jvars, svars
<1>2. ASSUME NEW phase \in {"prolog", "epilog"},
             PluginFails(phase) \/ PluginTakesLog(phase) \/ PluginReturns(phase)
      PROVE  NothingSaved'
  BY <1>2 DEF PluginFails, PluginTakesLog, PluginReturns, Return, Step, svars
<1>3. ~(CallStep /\ spc # "return")
  BY CallUnderWay
<1>4. CASE ReplaceList \/ Tick \/ Hotplug
  BY <1>4 DEF ReplaceList, Tick, Hotplug
<1> QED
  BY <1>1, <1>2, <1>3, <1>4 DEF JobNext

\* In a process where mkstemp never returns 0, which is one with a standard input, the plugin
\* saves nothing in any job, whatever happens.
THEOREM OtherDescriptorsSaveNothing ==
  ASSUME 0 \notin Descriptors
  PROVE  JobSpec => [](file = NoFile)
<1>1. JobInit => SaveInv /\ PhaseInv /\ NothingSaved
  BY JobInitHolds DEF JobInv, JobInit, SaveInit, NothingSaved
<1>2. (SaveInv /\ PhaseInv /\ NothingSaved) /\ [JobNext]_jvars
        => (SaveInv /\ PhaseInv /\ NothingSaved)'
  BY JobStepHolds, NoCallStep
<1>3. NothingSaved => file = NoFile
  BY DEF NothingSaved
<1> QED
  BY <1>1, <1>2, <1>3, PTL DEF JobSpec
===============================================================================
