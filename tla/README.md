# msr-safe: a verification development

msr-safe is a Linux kernel module that lets unprivileged users read and write
the model-specific registers (MSRs) that an administrator has put on an
allowlist, bit by bit.  This directory models the module in TLA+, checks the
models with TLC, and proves with TLAPS that the safety properties hold for any
number of CPUs, callers, registers and lists.  It also models `msrsave`, which
saves and restores registers through the module's devices, and the SLURM plugin
that calls it.

1. [The system](#1-the-system): components, state, interactions, hard behaviours
2. [The modules](#2-the-modules) and how they correspond to the code
3. [The runs](#3-the-runs): what each shows, bounds
4. [Fairness](#4-fairness)
5. [What is proved](#5-what-is-proved)
6. [Where the code and its documentation disagree](#6-where-the-code-and-its-documentation-disagree)
7. [What is not modelled](#7-what-is-not-modelled-and-why)
8. [Plan](#8-plan)

Check a configuration with `tlc -config MCAllowlist.cfg MCAllowlist`, the proofs
of a module with `tlapm AllowlistProofs.tla`, and likewise for the other modules
whose names end in `Proofs`.  `PROJECT.json` lists the runs, the theorems, the
source lines behind every definition, the hazards of the code, and for every
property of a passing run a plausible bug (a *mutant*) that the property catches.

## 1. The system

### Allowlist (`msr_allowlist.c`)

State: an array of entries (register address, write mask) from `kcalloc`, its
length `allowlist_numentries`, a hash table that links the entries, and
`allowlist_mutex`; for each open file a position.

Operations: `write_allowlist` parses the written text once to validate it, takes
the mutex, frees the old array, allocates one of the right size and parses the
text again into it, linking each entry; a duplicate throws the new list away.  A
write of two bytes or less clears the list.  `read_allowlist` returns one entry
for each call.  `msr_allowlist_maskexists` and `msr_allowlist_writemask` are
called by the other parts of the module.

The parser, `parse_next_allowlist_entry`, cuts each number off in the buffer with
a null character and puts back what was there.  A listing is text again, which
`msrsave`, or an administrator who writes it back, parses in turn.

Hard: `msr_allowlist_writemask` returns `entry->wmask` after it has dropped the
mutex, so the entry may have been freed; failures in the middle of the second
pass; stale nodes in the hash table; a list replaced between two reads; two
passes over a buffer that the first one changes; three views of one text.

Correct when: the table that lookups walk is exactly the array; no array leaks
or is used after its free by anyone who was not overtaken; a write is all or
nothing; a listing is complete; the second pass finds what the first one did; a
listing denotes the list to every parser.

### Batch ioctl (`msr_batch.c`) and cross-CPU execution (`msr-smp.c`)

State: none between calls; within a call, the kernel's copy of the array of
operations, each with its CPU, register, data, mask and error.

Operations: the ioctl copies the array, checks every operation (CPU online,
register listed, mask not empty for a write), and if none is refused interrupts
all CPUs that the batch names.  Each CPU walks the array and executes its own
operations with interrupts off.  The array is then copied back.

Hard: several callers interrupt the same CPUs; the list changes between two
lookups of the same call; CPUs go offline between check and dispatch; errors of
single operations and the error of the call.

Correct when: nothing runs unchecked; the operations for a CPU run in order and
undisturbed; errors of operations and of the call agree; closed bits never
change; every call returns.

### Per-CPU device (`msr_entry.c`)

State: an open file with its CPU (minor number) and position; the position is
the register.

Operations: open, seek, close, an 8-byte read, an 8-byte write.  A write under a
partial mask reads the register with one interrupt, merges, and writes it with
another.

Hard: the two interrupts of a write and everything that falls in between: other
writes, batches, another list, a CPU that leaves; the 64-bit position and the
32-bit register.

Correct when: the register accessed is one that was checked; closed bits keep
their value whatever falls in between; refusals are justified.

### Loading and unloading (`msr_init`, `msr_exit`, and an init and a cleanup function per device)

State: three flags per device; in the kernel, the registered regions, classes,
device nodes and the hotplug callback.

Hard: each of twelve kernel calls may fail, CPUs come and go meanwhile, what one
load leaves behind is in the way of the next; before Linux 4.10 hotplug is held
off neither between the creation of the nodes and the installation of the
notifier nor between their removal and its removal; nodes are opened as soon as
they are there, in a load that may still fail, and what is open outlives its
node; the cleanup frees the list without the mutex that every call takes.

Correct when: a failed load and an unload leave nothing behind; no call uses an
array that the cleanup has freed.

### msrsave (`msrsave/msrsave.c`, `msrsave_main.c`)

State: the save file; within a call, a copy of the allowlist and the buffer of
values, CPU by CPU.

Operations: `msr_save` copies the list from its device, reads every listed
register of CPUs 0 to n - 1 (n of them are online), marks those it could not
read, and writes the file.  `msr_restore` copies the list, compares the times of
file and list and the file's size, and writes back each value that differs from
the register's under its mask.

Hard: a failing access must not stop or shift the others; a mark must not be
written as a value; the list may have changed since, or be replaced while it is
copied; a save that fails has destroyed the earlier file; the number of CPUs may
differ, and their names may have gaps.

Correct when: what a restore has passed is as it was at the save, as far as it
could be read and written; nothing else is ever written; a restore through
another list than that of the save is refused.

### SLURM plugin (`msrsave/spank_msrsafe.c`)

State: none.  The prolog of a job calls `msr_save`, the epilog `msr_restore`,
each after it has created a log file.  Correct when the node returns to the pool
with the registers it was given out with.

### Others

The version device hands out a constant.  Packaging, sample allowlists and an
example program hold no state.

### How they interact

The batch ioctl and the per-CPU device call the two lookups of the allowlist;
the administrator's write replaces it at any moment.  Both devices run functions
on CPUs through inter-processor interrupts, and so meet only on a CPU, between
two such functions.  CPU hotplug changes under all of them.  `msrsave` sees the
module only through its devices: it reads the allowlist device, and reads and
writes the devices of the CPUs.

## 2. The modules

| Module | Models |
|---|---|
| `AllowlistSpec` | what `msr_allowlist.c` promises: a map from addresses to masks, replaced as a whole; lookups, with the window of `msr_allowlist_writemask` |
| `Allowlist` | `msr_allowlist.c` step by step under the mutex; implements `AllowlistSpec` |
| `AllowlistProofs` | theorems about `Allowlist`; it implements `AllowlistSpec` |
| `Parser` | the text of an allowlist: the parser of `msr_allowlist.c`, the lines `read_allowlist` prints, the parser of `msrsave.c` |
| `Machine` | external: registers, online CPUs, faults, which CPU is inside an interrupt |
| `Environment` | the machine, the allowlist behind its contract, the administrator; history of a call |
| `EnvironmentProofs` | lemmas about lookups and lists that the proofs about the devices share |
| `MsrBatch`, `MsrBatchProofs` | `msr_batch.c` and `msr-smp.c`; theorems about them |
| `MsrEntry`, `MsrEntryProofs` | the file operations of `msr_entry.c`; theorems about them |
| `MsrSafe`, `MsrSafeProofs` | `MsrBatch` and `MsrEntry` over one machine and one list; theorems: each keeps its promises in the presence of the other |
| `Lifecycle` | `msr_init`, `msr_exit`, init and cleanup of the devices, hotplug callbacks |
| `LifecycleProofs` | theorems about `Lifecycle` |
| `MsrSave` | `msr_save` and `msr_restore`, over the devices as they behave for this program; jobs, the administrator, the clock |
| `MsrSaveProofs` | theorems about `MsrSave` |
| `SpankJob` | prolog, job and epilog over `MsrSave` |
| `SpankJobProofs` | theorems about `SpankJob` |
| `MCAllowlist`, `MCBatch`, `MCEntry`, `MCSafe`, `MCLifecycle`, `MCSave`, `MCJob` | small instances for TLC |

`Environment` takes the allowlist as `AllowlistSpec`; that `Allowlist`
implements it (`ImplementsContract`, theorem `ContractIsKept`) justifies checking
and proving the devices against the contract only.

**Allowlist.**  `Writers`, `Readers` and `Lookers` are tasks in
`write_allowlist`, `read_allowlist` and the lookups.  The array is `mem[allowlist]`
for a block `allowlist` of a small heap (`live` are the allocated blocks, and a
freed block may be handed out at once); `allowlist_hash` is the set of linked
entries, as pointers into blocks, and survives the free of the array exactly
where the code lets it.  The second pass is one action per entry (`Add`), so
that whoever does not take the mutex would see it half done.  A critical section
that only reads is one step that needs the mutex free.  A text is its parsed
entries and what stops the parser (`Inputs`, `Tails`); those of
`MCAllowlist` are what `Parser` makes of texts (assumption `InputsAreParsed`).  `held` and `listing` are
history: an entry found and not read yet, and what a reader collected.

The refinement maps the data structure to the list `InstalledList`: what a walk
of the hash table finds, except while the array is being filled, when nobody can
look anything up: there the new list counts as installed already, or the empty
list when the second pass is going to meet a duplicate.

**Parser.**  A text is a sequence of pieces: a numeral is one piece, and so is one
that overflows 64 bits, a letter, `#`, a blank, a newline, the null character.
`ParseNumber` is one of the two like halves of `parse_next_allowlist_entry`: it
cuts the word off in place, converts it, and puts the character back, unless the
conversion fails.  Every result comes with the buffer it leaves, so the second
pass can be run on what the first one left (`Misread`).  `Pass` is recursive, so
no theorem is stated in this module or above it.  `MCAllowlist` ties the texts to
the states of `Allowlist`: its properties speak of the buffer that a writer holds
between the passes and of the lines that a reader holds.

**MsrBatch.**  `bpc` is the place in `msrbatch_ioctl`; `ops`, `cur` and `err` are
`koa.ops`, the loop pointer and the local `err`.  The two lookups of an operation
are separate actions (`ApplyExists`; `ApplyFind` and `ApplyRead`, or
`ApplyGone`), between which the list may change.  `ipi[t]` is the set of CPUs
that `on_each_cpu_mask` waits for, `Handler(t, c)` one round of the loop of
`__msr_safe_batch` on CPU `c`, `running[c]` the caller whose function `c` is in:
an interrupt handler is not interrupted by another one.  `done` and `missed` are
history.

**MsrEntry.**  One action up to the lookup, one per interrupt, one for the
return.  A position is cut to the register with `% W` (`u32 reg = *ppos`).
Concurrent calls on one open file are not modelled: each user has its own.

**Lifecycle.**  One action per kernel call of `msr_init`, which either succeeds
or takes the code's `goto`; the labels at the end are actions that fall through
to each other.  `flags` are the module's static variables, zero in every fresh
load; `chrdevs`, `classes`, `devices`, `nodes` and `callback` belong to the
kernel and outlive it.  `class_create` fails for a name in use, and
`register_chrdev` for a major number in use if it was given as a parameter.
`legacy` chooses between the two forms of the code for older and newer kernels.
Users open a node once it exists, also during a load that is going to fail, and
keep the descriptor (`fd`) when the node has gone.  A descriptor of any device
holds the module (`Owner`: `.owner = THIS_MODULE`), so an unload waits until all
are closed and the kernel refuses to open a node once it has begun; a load that
fails waits for nobody.  A call through a descriptor takes `allowlist_mutex`
(`caller`) and goes in steps through what it does with the array: a write of the
allowlist through `delete_allowlist`, `kcalloc`, the filling, and the second
`delete_allowlist` of its error paths; a lookup through the test of `allowlist`
and the reading of the array behind it.  `delete_allowlist` is two steps wherever
it is called, `kfree` and the assignment, and `msr_allowlist_cleanup` calls it
without the mutex (`DeleteList`, `ForgetList`), so any of its steps may fall
between any two of a call.  `heap` are the allocated blocks; `unsafe` tells that
an array was used, or freed again, after it had been freed.  Texts, entries and
hash table are those of `Allowlist`, and so are the listings, whose window is
that of a write that fails.  `unsafe`, `crossed`, `revived`, `stranded`, `slipped`
and `unnoticed` are history.

**MsrSave.**  `pos` is `i * num_msr + j` of the two nested loops, and one action is
one access to a register; `copy` is the list as `msr_parse_allowlist` has it,
read entry by entry.  Each access may fail on its own, and does when the CPU has
left, the register is not listed any more or its mask has become empty.  All
other system calls that the code checks fail alike (`SystemCallFails`), except
those that leave a trace: `WriteFile`, where `fopen` has emptied the file.
Buffers are words over a few bits, with a cookie among them.  `onDevice` tells
whether the list is read from the device, whose node keeps its time when it is
written, or from a regular file that is written to the device too (as the
library's test does); both are explored.  In `file`, the fields `list`, `seen`
and `raced` are history: the list that the save has used, what it has read, and
whether the list was replaced while the save ran or in the second of its end.
Jobs write between two calls, not during one.

**SpankJob.**  A job is granted the node, the prolog runs, the job writes
registers, the epilog runs, the node returns to the pool.  `Descriptors` is what
a successful `mkstemp` may return, 3 or more in an ordinary process.  `granted`,
`left` and `skipped` are history: the registers when the job was given the node
and when it ended, and the phases that made no call of the library.
`CookieFree(granted)` says that no register that is saved whole held, when the
job began, the value that `msr_save` takes for a bad read.

Operators named `Mutant` in a comment are plausible bugs that the properties are
tried against.  No action uses them.

## 3. The runs

Bounds: every run has the fewest actors with which its question is not trivial.

| Run | Instance | Shows |
|---|---|---|
| `MCAllowlist` | 2 writers, 1 reader, 1 lookup task, 2 addresses, arrays of up to 2 entries, 2 blocks, `kcalloc` may fail; 8 texts are written, 4,688 are parsed twice, all lists of up to 2 entries are printed and parsed by kernel and `msrsave` | The table is the array (`HashIsArray`), nothing leaks (`NoLeak`), results and lists agree (`OutcomeMatches`), lookups not overtaken are right (`UnraceyLookup`), listings are complete (`ListingIsPrefix`), and the handlers implement `AllowlistSpec` (`ImplementsContract`); no text makes the second pass find other entries than the first (`TwoPassesAgree`); a listing denotes its list (`ListingParsesBack`, `MsrsaveReadsTheList`) |
| `MCAllowlistLive` | the same, three inputs, `kcalloc` never fails | Every write returns; no reader dies on a null array |
| `MCBatchCross` | 2 callers, 2 CPUs, batches of up to 3 operations | Order on each CPU, a batch reads what it wrote, every ioctl returns while the callers send functions to each other's CPUs |
| `MCBatchChurn` | 1 caller, 2 CPUs that come and go, three lists written at any moment, faults, failed mask allocation | Checks precede execution, errors are reported, unlisted bits are kept; success leaves out only operations whose CPU went away after the check |
| `MCEntryChurn` | 1 user, 2 CPUs that come and go, two lists, positions that wrap around | Accesses and refusals are justified by a list of that call |
| `MCSafe` | 1 caller, 1 user, 2 CPUs that come and go, a list that comes and goes | A batch is not disturbed on its CPU; a write changes only the bits of its mask although batches fall between its two interrupts; closed bits keep their value, also when the CPU is away at the first interrupt and back at the second |
| `MCLifecycle` | kernels before and from 4.10, 3 CPUs, 2 users, 2 blocks, two devices with fixed and two with dynamic major numbers | What stays after failed loads and unloads, exactly (`NothingLeft`); the array is used after its free only beside the unwinding of a failed load (`ArrayHeld`); what can stop a retry, exactly (`RetryWorks`); nodes follow the online CPUs (`NodesFollowOnline`) and never outlive class or region (`NodesBacked`) |
| `MCSave` | 2 CPUs, either of which may leave, so that the only one online may be CPU 1; 2 registers of 2 bits, one of them fully writable; three lists; at most 3 troubles (`MaxTroubles`: a failure, a new list, a CPU that leaves or comes) and one tick of the clock (`MaxTime`) in a behaviour with any number of saves, jobs and restores | What a restore has passed is as it was at the save (`RestoredBehind`), marks of bad reads are never written (`BadReadsNotRestored`), a changed list is refused (`StaleListRefused`) |

Why these are enough.  Two writers make one wait while the other is anywhere in
its second pass, and a third only waits likewise; two blocks make the freed block
the next one allocated, the case where a stale pointer is the most dangerous; two
entries make a duplicate, a first and a last entry; address 0 is what `kcalloc`
leaves in an entry, so an entry not yet filled could be mistaken for a listed one.
Two callers and two CPUs give every order of two batches on two CPUs, and three
operations put one for another CPU, or for another register, between two that
belong together.  Two bits are one open and one closed, and one value of them is the cookie.  Three
troubles let a failed read, a failed write and a CPU that leaves, or a half
written file and two new lists, meet in one save and restore; one tick tells a
list of the same second from one of a later second.  A piece of a text stands for
a word of any length: the parser looks at no character of a word but through
`kstrtoull`.  Three CPUs, of which at
least one stays online, allow one to come while another goes.  In `MCLifecycle`
one user can be inside a call while the other opens, closes or waits, and with
two blocks a write gets a fresh array while a freed one is still in use.

`raced` records that some lookup has read the mask of a freed entry; the
properties that name it claim nothing afterwards, since the memory of the entry
may then hold anything.  Without list changes it never happens, and
`MCEntryChurn`, `MCBatchChurn` and `MCSafe` also explore all behaviours
with list changes where it does not.

Some properties have to say what the code does not clean up, and they say no
more than that; the runs reach every case.

* `stranded`: when `msr_version_init` fails, `msr_init` jumps to `out_version`,
  below the labels that clean up the allowlist and batch devices.  `NothingLeft`
  says that exactly the regions, classes and nodes of these two stay, and
  `RetryWorks` that later loads fail at the first of them and nowhere else.
* `crossed`, `revived`: in a load that fails, a call through an open descriptor
  may be in its critical section when `delete_allowlist` runs without the mutex
  (msr_allowlist.c:389), and a write may begin behind it, until the module has
  gone.  The array is then used after its free, freed twice or never freed.
  `ArrayHeld` and `NothingLeft` say that it happens in no other case, and so never
  in an unload.
* `slipped`: on a kernel before 4.10 a CPU that comes or goes in one of the
  unguarded windows leaves a node without a CPU or a class, or has none.
  `NothingLeft` says that nothing but nodes of CPUs stays then.
* `unnoticed`: the loop that creates the nodes on such a kernel keeps only the
  error of the last CPU (msr_entry.c:351).  `NodesFollowOnline` says that nodes are
  missing then, and that none is there without its CPU.
* `onDevice`, for `StaleListRefused`: the time of the node does not change when a
  list is written.

Deadlock is checked in all runs but `MCAllowlist` and `MCAllowlistEmpty`: there a
reader may die on a null array with the mutex held, and then every task waits.

## 4. Fairness

* `Allowlist`: a kernel mutex has handed itself over to its first waiter since
  Linux 4.10, so a writer that waits for it gets it if it is free again and again
  (strong fairness on `Lock`); a task inside a call goes on (weak fairness).
  Nobody has to start a call.
* `MsrBatch`: a task inside a call goes on (weak fairness); a CPU
  serves the functions queued on it in order, so each gets its turn although
  others run in between (strong fairness on `Handler`).
* `MsrEntry`, `MsrSafe`, `Lifecycle`, `MsrSave` and `SpankJob` have no liveness property and no fairness.

## 5. What is proved

Every safety property of a passing run is a theorem, but for the three that speak
of texts; so is the refinement.  Each theorem holds for any sets of tasks, CPUs,
registers, bits and lists that satisfy the named assumptions on the constants.
TLC evaluates those assumptions in the runs.

### The allowlist (`AllowlistProofs`)

| Theorem | States |
|---|---|
| `TypeCorrect` | `Spec => []TypeOK`: among others, no access outside the array |
| `TableIsSound` | `Spec => []HashIsArray` |
| `ArraysAreFreed` | `Spec => []NoLeak` |
| `LookupIsSound` | `Spec => []UnraceyLookup` |
| `WriteIsAllOrNothing` | `Spec => []OutcomeMatches` |
| `ListingsAreTrue` | `Spec => []ListingIsPrefix` |
| `ReadersDoNotFault` | `Spec => []ReadersSurvive` if `AllocMayFail = FALSE` |
| `ContractIsKept` | `Spec => ImplementsContract`: `Allowlist` implements `AllowlistSpec` |

Assumptions: the kinds of tasks are disjoint and none is `NULL`, an array has at
least one entry, `NULL` is no block, the inputs are buffers of at most
`MaxEntries` entries (`TasksDisjoint`, `MemoryAssumption`, `InputsAssumption`,
`AllocAssumption`).  `ReadersDoNotFault` needs its hypothesis: the run
`MCAllowlistEmpty` shows a reader that dies after a failed `kcalloc`.

None of the invariants is inductive.  The inductive invariant `IInv` adds three
facts: who owns the mutex is inside the critical section (`MutexInv`), which keeps
every other task away from the array while a writer fills it; the part of the
array that is filled is a prefix of the writer's buffer, and the count is the
buffer's length (`BuildInv`), which bounds the second pass and gives `HashIsArray`
its next entry; a task between its lookup and its read points into a block
(`LookerInv`).  `HeapFrame`, `LookupFrame`, `ReadFrame` and `MutexFrame` say
which steps can touch what, so that the other lemmas treat only those.
`CompletedList` is the step from the data structure to the list it stands for.
For the listings, `TornInv` adds that no reader has collected anything from an
array that is still being filled; for the readers, `CountInv` adds that a count
without an array is zero.

The refinement rests on `IInv` too.  A step that frees or creates the array is the
contract's `Replace` (`ReplaceSteps`); the rounds of the second pass change what
the table links but not `InstalledList` (`AddSteps`), and neither do locks,
unlocks and readers.  A lookup finds at most one entry for an address, with the
mask of the list (`FoundIsListed`), so each of the three lookups is the
contract's; a mask read after the free is what the contract calls stale.

### The devices (`EnvironmentProofs`, `MsrBatchProofs`, `MsrEntryProofs`, `MsrSafeProofs`)

| Theorem | States |
|---|---|
| `BatchTypesHold` | `BatchSpec => []BatchTypeOK` |
| `ChecksComeFirst` | `BatchSpec => []ChecksPrecedeRun` |
| `ErrorsAgree` | `BatchSpec => []ErrorsReported` |
| `OrderHolds` | `BatchSpec => []OrderPerCpu` |
| `OwnWritesAreRead` | `BatchSpec => []ReadsOwnWrite` |
| `UnlistedBitsHold` | `BatchSpec => []UnlistedBitsKept` |
| `SuccessMeansRunOrOffline` | `BatchSpec => []RunUnlessOffline` |
| `EntryTypesHold` | `EntrySpec => []EntryTypeOK` |
| `AccessesAreListed` | `EntrySpec => []AccessListed` |
| `RefusalsAreJustified` | `EntrySpec => []RefusalJustified` |
| `ClosedBitsHold` | `EntrySpec => []ClosedBitsKept` |
| `SafeReadsOwnWrite`, `SafeClosedBits` | the same two properties of `SafeSpec` |
| `SafeKeepsBatch`, `SafeKeepsEntry` | the other properties of the parts, of `SafeSpec` |
| `OneWritePerMaskedWrite` | `SafeSpec => MaskedDespiteBatches` if `OneMaskPerRegister` |

Assumptions: callers and users look things up (`Callers`, `Users` within
`Lookers`) and no task does both (`SafeAssumption`: a task is in one call at a
time); `NoTask` is no task, `NoCPU` and `Closed` are no CPU and no file; batches
are sequences of one to `MaxOps` operations, with `MaxOps` above zero; a register
has at least one bit and users write values of the width of a register (`Bits`,
`Values`); registers are `0 .. W - 1`.

`BatchInv` consists of what a call has seen of the list (`ViewInv`), what the loop
of `msrbatch_apply_allowlist` has made sure of behind its pointer (`ScanInv`),
which operations have run (`RunInv`: below the position on a CPU that the call
waits for, all or none elsewhere), that a function under way has its CPU
(`OwnInv`), and that a register written by such a function still has the value
(`WrittenInv`).  The last two are why a read of a batch returns what the batch
wrote: no property of the runs says so of a batch that is half done.
`HandlerFacts` sums up a round of `__msr_safe_batch`, and each part of the
invariant is shown from it in a lemma of its own.

`EntryInv` needs less: what the lookups have told a call, and that the value it is
about to write has the closed bits at their values from power-on (`CallInv`),
because every mask of a call opens writable bits only (`MasksDuringWritable`).

`SafeInv` is the conjunction of the two.  It is inductive because a step of one
part leaves the other's calls alone (`BatchStepAlone`, `EntryStepAlone`), keeps
the closed bits, and reaches a CPU only when no function is under way there,
which is what `WrittenInv` asks of others.  `OneMaskPerRegister` says that all
lists that have a register give it the same mask; without it the property fails
(section 6, `MCEntryWriteIsMasked`), with it the mask of a write is all that is
ever writable, so that what the write puts back is what nobody may change.

### Loading and unloading (`LifecycleProofs`)

For any sets of CPUs, users and blocks, any choice of devices with fixed major
numbers and both kinds of kernels:

| Theorem | States |
|---|---|
| `LifecycleTypeCorrect` | `LifecycleSpec => []LifecycleTypeOK`: among others, no region is given back twice |
| `NothingIsLeft` | `LifecycleSpec => []NothingLeft` |
| `ArrayIsHeld` | `LifecycleSpec => []ArrayHeld` |
| `LoadsAreRepeatable` | `LifecycleSpec => []RetryWorks` |
| `NodesAreFollowing` | `LifecycleSpec => []NodesFollowOnline` |
| `NodesAreBacked` | `LifecycleSpec => []NodesBacked` |

Assumptions: there is a CPU, and `NULL` is no device, user or block
(`LifecycleAssumption`).  The properties speak of what the kernel
holds, mostly at the end of a load or an unload; the inductive invariant says at
every label why.  A device has all its flags or none, except the one
whose init function is running (`FlagsInv`).  The kernel holds of a device what
its flags record, and a second region only if a stranded load has left one
(`KernelInv`); this is why `Cleanup` gives back what is there.  The labels call
the cleanup functions in an order that leaves no flag set (`OrderInv`): for
`NothingLeft` at the end, and for `RetryWorks` because the next load starts with
fresh flags.  The device of the CPUs has no flags, and what the kernel holds of
it follows from the label (`SafeInv`), as do its nodes (`NodesInv`).  A stranded
load leaves two devices and stops every later one at the first (`StrandedInv`).
An open descriptor keeps the module from its unload, so no call is under way in
`msr_exit` (`DescriptorsInv`); unless the cleanup has run beside a call, the
pointer and the heap go together through every call and the cleanup (`HeapInv`),
and behind the cleanup there is no array unless a write has begun there
(`EmptyInv`).  `CleanupEffect` and `InitFailsStep` are shared by all steps that
take the way out.

### msrsave (`MsrSaveProofs`)

| Theorem | States |
|---|---|
| `SaveTypesHold` | `SaveSpec => []SaveTypeOK`: among others, no word outside the buffer |
| `RestoreGivesBack` | `SaveSpec => []RestoredBehind` |
| `StaleListsAreRefused` | `SaveSpec => []StaleListRefused` |
| `BadReadsStayOut` | `SaveSpec => []BadReadsNotRestored` |

Assumptions: there is a CPU 0; no address is twice in a list (the module accepts
none with a duplicate); the cookie and what jobs write are values of the width of
a register; `NoFile` is no file (`SaveAssumption`).

`SaveInv` says where a call is and what that means for its buffer and its position
(`PlaceInv`), that the copy of the list is the list unless that was replaced
(`CopyInv`), and what the times of list and file say (`TimeInv`, from which
`StaleListRefused` follows at the comparison).  Its core is `Faithful`: each word
is the masked value that was read at its position, or stands for a bad read, and
the two cannot be confused.  It holds of the buffer of a save (`BufferInv`), of
the file (`FileInv`), also of one that was written half (`FaithfulPrefix`), and so
of what a restore compares with.  `OneRegisterPerPosition` is why a write at one
position does not undo what was restored at another: with `i * num_msr + j` as the
position, two positions of a list without duplicates are two registers.

### SLURM plugin (`SpankJobProofs`)

| Theorem | States |
|---|---|
| `PluginKeepsPromises` | `SaveTypeOK`, `RestoredBehind`, `BadReadsNotRestored` and `StaleListRefused`, of `JobSpec` |
| `RegistersComeBack` | `JobSpec => []ResetUnlessSkipped` |
| `OtherDescriptorsSaveNothing` | `JobSpec => [](file = NoFile)` if `0 \notin Descriptors` |

None needs an assumption on the constants but `SaveAssumption`, and the third its
hypothesis.  The first holds because the steps of the plugin and of a job are
calls and pauses that `SaveInv` allows; `PhaseInv` says which call goes with which
phase.

The second is for whatever `mkstemp` returns, phase by phase and job by job.  Its
property speaks of the jobs whose two phases both called the library, and only
while nothing has failed on the node, no list was replaced and no CPU has come or
gone; of jobs whose epilog made no call it says, whatever fails, that nobody else
changes their registers.  It leaves out jobs that began with the cookie in a
register that is saved whole, since a save then gives up although nothing has
failed (msrsave.c:324, `SaveCookie`).  The run `MCJob` shows that
`RegistersReset`, which leaves out neither, fails in an ordinary process, and the
third theorem that it fails there in every job: with no 0 among the descriptors
there is never a save file.

`LeftInv` carries the second part of the property: in an epilog that has made no
call, the registers are those the job has left.  The first part rests on
`CalmInv`, which holds of a job that has skipped no phase so far on a node that is
as it was at first (`Unmoved`).  No access to a register fails on its own
(`CalmAccess`: in the loops the list is the one of the start, so it opens just the
bits of the mask, and `AccessWarning` is then a failure).  The save has found at
every position behind it what was granted (`ReadBehind`), so its file has a word
for every register and nothing of it is a bad read (`Complete`).  A job, like a
restore, changes only bits that the list opens (`ClosedKept`).  At the end of the
epilog the loops have come to every listed register of every CPU
(`EveryRegisterHasPosition`), `RestoredBehind` gives its open bits, `ClosedKept`
the others (`AllRestored`).  A new job begins calm whatever those before it have
skipped (`CalmGrant`), and a state without a trouble has none behind it
(`TroublesGrow`), nor has a job that has skipped nothing skipped anything before
(`SkippedGrows`).  TLC finds the same on a small instance: with `Descriptors =
{0, 3}` and `MaxTroubles = 1` in `MCJob.cfg`, so that each phase has both outcomes
and any one call in any job of a sequence may fail, `ResetUnlessSkipped` holds in
all 7,031,228 states.

### TLC only

* `TwoPassesAgree`, `ListingParsesBack` and `MsrsaveReadsTheList`: they are about
  what the recursive operators of `Parser` compute for every text, which takes an
  induction over data.
* `WritesReturn` and `IoctlReturns`: liveness under fairness is outside of what
  TLAPS can do, as is `ENABLED`.
* The four properties of section 6, which do not hold.

## 6. Where the code and its documentation disagree

Four have a run that finds the counterexample.

| Run | Documentation | Code |
|---|---|---|
| `MCAllowlistEmpty` | README.md:153 "If an error occurs during the second pass the allowlist is reset to be empty" | when `kcalloc` fails, `allowlist_numentries` already holds the new count (msr_allowlist.c:261); the next read dereferences the null array with the mutex held |
| `MCBatchSuccessMeansRun` | README.md:210 an operation whose CPU is offline reports `ENXIO` | not if the CPU leaves after the check (msr_batch.c:51, msr-smp.c:105) |
| `MCEntryWriteIsMasked` | README.md:117 only the bits of the mask are writeable | a write that took its mask from an earlier list undoes another user's write of other bits (msr_entry.c:158) |
| `MCJob` | spank_msrsafe.c:10 registers modified by a job "are reset to their original state before the compute node is returned to the pool" | `mkstemp` returns a descriptor, `if (err)` takes it for an error, and neither `msr_save` nor `msr_restore` is called (spank_msrsafe.c:129, 177); jobs for which it returned 0 in both phases, as in a process without standard input, do get their registers back (theorem `RegistersComeBack`), and without a 0 among the descriptors no job saves anything (`OtherDescriptorsSaveNothing`) |

The others can be read off the code; the models behave as the code does:

* README.md:340 "All of the operations in the batch will be executed": one
  refusal keeps all from running (msr_batch.c:127, action `ApplyDone`).
* README.md:342 "the first such error becomes the return value for ioctl(2)": of
  several refusals the last one does (msr_batch.c:54, `Refuse`).
* README.md:442 a list changed during a call "will be applied to subsequent
  calls": also to the rest of a batch that is being checked (msr_batch.c:58).
* README.md:401 the plugin makes "a popen(3) call to the msrsave command line
  utility": it calls the library (spank_msrsafe.c:142).
* msrsave.c:444 "allowlist was modified after restore file was written!": not
  noticed in the second of the save, and never on the device, whose node keeps
  its time (`Fresh`, `ReplaceList`).
* README.md:451 "We haven't had a good reason to wire up hotplugging": the nodes
  follow hotplug (msr_entry.c:359, `CpuOnline`, `CpuOffline`).

## 7. What is not modelled, and why

* Characters: what `kstrtoull` and `sscanf` make of signs, prefixes and digits
  inside one numeral; texts that `msrsave` would read from a file other than a
  listing.
* Width: register values have two bits, and addresses are few; the cut of the
  position to 32 bits is modelled in `MsrEntry`, sizes of buffers and files not.
* In `Allowlist`: a write that clears the list waits for the mutex like any other,
  but it is one step (`ClearList`), so `WritesReturn` does not speak of that wait.
* In `MsrBatch`: a caller that waits for other CPUs occupies none itself, and the
  kernel's cross-calls are taken to serve interrupts while they wait; so
  `IoctlReturns` is about the order in which CPUs serve the functions, and shows
  nothing about deadlocks inside those calls.
* In `Lifecycle`: the hotplug actions of a suspend (`CPU_UP_CANCELED_FROZEN` and
  those the switch at msr_entry.c:237 does not name), during which user space is
  frozen; a hotplug callback is one step; a descriptor that is still open when a
  failed load has given the module's memory back; a listing beside the cleanup.
* In `MsrSave`: other writers of a register during a call (the module's part of
  such a meeting is in `MCSafe`); `errno` and wording of errors; usage and
  version printing of `msrsave_main.c`.
* In `SpankJob`: forwarding the log to SLURM; the plugin goes on with a null log
  when `fopen` fails (spank_msrsafe.c:136), and crashes in `rewind`.
* The read handler of the version device: a constant string, once per open file.
* Early rejections of the ioctl in detail (wrong command, mode, size): one action.
* Header and wording of listings, log messages, names and modes of nodes, module
  parameters other than whether they are given, `SEEK_END`.
* Example, packaging, build files, sample allowlists: no state of their own.

## 8. Plan

Done: the models of all parts with state of their own; the proofs of every safety
property of the passing runs that does not speak of texts, and of the refinement.

Next: a contract for `read_allowlist`, whose listings are now shown against the
array and not against `AllowlistSpec`; the crash of the plugin in `rewind`.
