------------------------------- MODULE Lifecycle -------------------------------
(***************************************************************************)
(* Loading and unloading the module: msr_init and msr_exit of msr_entry.c, *)
(* in the forms for kernels before 4.10 and from it on, with the init and  *)
(* cleanup functions of msr_batch.c, msr_allowlist.c and msr_version.c,    *)
(* which are the same but for their names.  Each call of the kernel may    *)
(* fail, and what an earlier load has left behind makes a later one fail.  *)
(* CPUs come and go.  Users open the nodes as soon as they are there, and  *)
(* their calls go on through the descriptors when the nodes have gone: the *)
(* cleanup of the allowlist, which does not take its mutex, may run beside *)
(* a write or a lookup.  What a descriptor of an earlier copy of the       *)
(* module leads to is outside the model.                                   *)
(***************************************************************************)
EXTENDS Naturals, FiniteSets

CONSTANTS CPUs,
          Users,
          Blocks,        \* what kcalloc can return
          NULL,
          FixedMajors    \* the devices whose major number is a module parameter

VARIABLES legacy,      \* the kernel is older than 4.10
          pc,          \* where msr_init or msr_exit is
          at,          \* the device that is being initialised
          flags,       \* flags[d]: cdev_registered, cdev_class_created, cdev_created
          chrdevs,     \* chrdevs[d]: the regions registered under d's name
          classes,     \* the device classes that exist
          devices,     \* the device nodes of the three single devices
          nodes,       \* the CPUs that have a device node
          callback,    \* the cpuhp state or the hotplug notifier is installed
          online,
          fd,          \* fd[u]: the device whose node u has open, or NULL
          caller,      \* the user in the critical section of allowlist_mutex, or NULL
          call,        \* how far the call has come there
          entry,       \* the array the call works on
          allowlist,   \* the pointer to the array
          heap,        \* the blocks allocated for arrays
          unsafe,      \* history: an array was used or freed after it was freed
          crossed,     \* history: delete_allowlist ran beside a call
          revived,     \* history: a write began after delete_allowlist
          fault,       \* history: a kernel call failed on its own in this load
          failed,      \* history: the last load failed
          stranded,    \* history: a load failed in msr_version_init
          slipped,     \* history: before 4.10, hotplug in an unguarded window
          unnoticed    \* history: before 4.10, this load has missed an error of
                       \* msr_device_create

resources == <<chrdevs, classes, devices>>
hotplug == <<nodes, callback, online>>
pointers == <<allowlist, heap, unsafe>>
list == <<fd, caller, call, entry, pointers, crossed, revived>>
record == <<fault, failed, stranded, slipped, unnoticed>>
module == <<legacy, pc, at, flags, resources, record>>
lvars == <<module, hotplug, list>>

Single == {"batch", "allowlist", "version"}
Devices == Single \cup {"safe"}
Successor == [batch |-> "allowlist", allowlist |-> "version", version |-> "safe"]

ASSUME LifecycleAssumption ==
  /\ CPUs # {} /\ FixedMajors \subseteq Devices
  /\ NULL \notin Devices \cup Users \cup Blocks

At(label) == pc = label
Goto(label) == pc' = label

\* Mutant: the ladder is entered one label too low.
LadderTooLow == [batch |-> "out", allowlist |-> "out_version", version |-> "out_version"]
\* Where msr_init goes when the init function of a device fails.
Ladder == [batch |-> "out", allowlist |-> "out_batch", version |-> "out_version"]

(***************************************************************************)
(* The cleanup function of a device undoes what its flags record.          *)
(***************************************************************************)
\* Mutant: cdev_registered is tested after it has been cleared.
CleanupKeepsRegion(d) ==
  /\ devices' = devices \ {x \in {d} : "device" \in flags[d]}
  /\ classes' = classes \ {x \in {d} : "class" \in flags[d]}
  /\ UNCHANGED chrdevs
  /\ flags' = [flags EXCEPT ![d] = {}]

Cleanup(d) ==
  /\ devices' = devices \ {x \in {d} : "device" \in flags[d]}
  /\ classes' = classes \ {x \in {d} : "class" \in flags[d]}
  /\ chrdevs' = [chrdevs EXCEPT ![d] = IF "registered" \in flags[d] THEN @ - 1 ELSE @]
  /\ flags' = [flags EXCEPT ![d] = {}]

\* An init function cleans up after itself, and msr_init takes the ladder.
InitFails(selfInflicted) ==
  /\ Cleanup(at)
  /\ Goto(Ladder[at])
  /\ fault' = (fault \/ selfInflicted)
  /\ failed' = TRUE
  /\ stranded' = (stranded \/ at = "version")
  /\ UNCHANGED <<legacy, at, hotplug, list, slipped, unnoticed>>

(***************************************************************************)
(* msr_init: msrbatch_init, msr_allowlist_init, msr_version_init           *)
(***************************************************************************)
\* A fresh copy of the module, its static variables zero.
Load ==
  /\ At("out")
  /\ Goto("register")
  /\ at' = "batch"
  /\ flags' = [d \in Single |-> {}]
  /\ fault' = FALSE /\ failed' = FALSE /\ unnoticed' = FALSE
  /\ fd' = [u \in Users |-> NULL]
  /\ caller' = NULL /\ call' = "idle" /\ entry' = NULL
  /\ allowlist' = NULL /\ heap' = {}
  /\ unsafe' = FALSE /\ crossed' = FALSE /\ revived' = FALSE
  /\ UNCHANGED <<legacy, resources, hotplug, stranded, slipped>>

\* A major number can be taken; a dynamic one is looked for among the free.
MajorTaken == at \in FixedMajors /\ chrdevs[at] > 0

Register ==
  /\ At("register") /\ at \in Single
  /\ \/ /\ ~MajorTaken
        /\ chrdevs' = [chrdevs EXCEPT ![at] = @ + 1]
        /\ flags' = [flags EXCEPT ![at] = @ \cup {"registered"}]
        /\ Goto("class")
        /\ UNCHANGED <<legacy, at, classes, devices, hotplug, list, record>>
     \/ InitFails(~MajorTaken)

\* class_create fails for a name in use.
CreateClass ==
  /\ At("class") /\ at \in Single
  /\ \/ /\ at \notin classes
        /\ classes' = classes \cup {at}
        /\ flags' = [flags EXCEPT ![at] = @ \cup {"class"}]
        /\ Goto("device")
        /\ UNCHANGED <<legacy, at, chrdevs, devices, hotplug, list, record>>
     \/ InitFails(at \notin classes)

CreateDevice ==
  /\ At("device")
  /\ \/ /\ devices' = devices \cup {at}
        /\ flags' = [flags EXCEPT ![at] = @ \cup {"device"}]
        /\ at' = Successor[at]
        /\ Goto("register")
        /\ UNCHANGED <<legacy, chrdevs, classes, hotplug, list, record>>
     \/ InitFails(TRUE)

(***************************************************************************)
(* msr_init: the device of the CPUs                                        *)
(***************************************************************************)
SafeFails(label, selfInflicted) ==
  /\ Goto(label)
  /\ fault' = (fault \/ selfInflicted)
  /\ failed' = TRUE
  /\ UNCHANGED <<legacy, at, flags, resources, hotplug, list, stranded, slipped, unnoticed>>

RegisterSafe ==
  /\ At("register") /\ at = "safe"
  /\ \/ /\ ~MajorTaken
        /\ chrdevs' = [chrdevs EXCEPT !["safe"] = @ + 1]
        /\ Goto("class")
        /\ UNCHANGED <<legacy, at, flags, classes, devices, hotplug, list, record>>
     \/ SafeFails("out_wlist", ~MajorTaken)

CreateClassSafe ==
  /\ At("class") /\ at = "safe"
  /\ \/ /\ "safe" \notin classes
        /\ classes' = classes \cup {"safe"}
        /\ Goto("nodes")
        /\ UNCHANGED <<legacy, at, flags, chrdevs, devices, hotplug, list, record>>
     \/ SafeFails("out_chrdev", "safe" \notin classes)

\* cpuhp_setup_state creates a node for each CPU online, or none of them.
SetupNodes ==
  /\ At("nodes") /\ ~legacy
  /\ \/ /\ nodes' = online
        /\ callback' = TRUE
        /\ Goto("loaded")
        /\ UNCHANGED <<legacy, at, flags, resources, online, list, record>>
     \/ SafeFails("out_class", TRUE)

\* Before 4.10, for_each_online_cpu err = msr_device_create(i): only the error of
\* the last CPU is looked at.
CreateNodes ==
  /\ At("nodes") /\ legacy
  /\ \E created \in SUBSET online, last \in online :
       /\ nodes' = nodes \cup created
       /\ fault' = (fault \/ created # online)
       /\ IF last \in created
          THEN /\ Goto("notifier")
               /\ unnoticed' = (created # online)
               /\ UNCHANGED failed
          ELSE Goto("out_class") /\ failed' = TRUE /\ UNCHANGED unnoticed
  /\ UNCHANGED <<legacy, at, flags, resources, callback, online, list, stranded, slipped>>

SetNotifier(from, to, on) ==
  /\ At(from) /\ Goto(to)
  /\ callback' = on
  /\ UNCHANGED <<legacy, at, flags, resources, nodes, online, list, record>>

(***************************************************************************)
(* The labels at the end of msr_init, each falling through to the next,    *)
(* and msr_exit, which does the same after the nodes have gone.            *)
(***************************************************************************)
\* Before 4.10 the nodes of the CPUs online are destroyed first.
DestroyNodes(from, to) ==
  /\ legacy /\ At(from) /\ Goto(to)
  /\ nodes' = nodes \ online
  /\ UNCHANGED <<legacy, at, flags, resources, callback, online, list, record>>

DestroyClass(from, to) ==
  /\ At(from) /\ Goto(to)
  /\ classes' = classes \ {"safe"}
  /\ UNCHANGED <<legacy, at, flags, chrdevs, devices, hotplug, list, record>>

Unregister(from, to) ==
  /\ At(from) /\ Goto(to)
  /\ chrdevs' = [chrdevs EXCEPT !["safe"] = @ - 1]
  /\ UNCHANGED <<legacy, at, flags, classes, devices, hotplug, list, record>>

CleanupAt(d, from, to) ==
  /\ At(from) /\ Goto(to)
  /\ Cleanup(d)
  /\ UNCHANGED <<legacy, at, hotplug, list, record>>

(***************************************************************************)
(* msr_allowlist_cleanup begins with delete_allowlist, without the mutex:  *)
(* the test and kfree of the array, then the assignment.                   *)
(***************************************************************************)
Kfree ==
  /\ heap' = heap \ {allowlist}
  /\ unsafe' = (unsafe \/ allowlist \notin heap)

DeleteList(from, to, done) ==
  /\ At(from)
  /\ IF allowlist = NULL THEN Goto(done) /\ UNCHANGED pointers
                         ELSE Goto(to) /\ Kfree /\ UNCHANGED allowlist
  /\ crossed' = (crossed \/ caller # NULL)
  /\ UNCHANGED <<legacy, at, flags, resources, hotplug, fd, caller, call, entry, revived, record>>

ForgetList(from, to) ==
  /\ At(from) /\ Goto(to)
  /\ allowlist' = NULL
  /\ UNCHANGED <<legacy, at, flags, resources, hotplug, fd, caller, call, entry, heap, unsafe,
                 crossed, revived, record>>

Unwind ==
  \/ DestroyNodes("out_class", "out_class2")
  \/ ~legacy /\ DestroyClass("out_class", "out_chrdev")
  \/ DestroyClass("out_class2", "out_chrdev")
  \/ Unregister("out_chrdev", "out_wlist")
  \/ DeleteList("out_wlist", "out_wlist1", "out_wlist2")
  \/ ForgetList("out_wlist1", "out_wlist2")
  \/ CleanupAt("allowlist", "out_wlist2", "out_batch")
  \/ CleanupAt("batch", "out_batch", "out_version")
  \/ CleanupAt("version", "out_version", "out")

\* Mutant: one of the file_operations has no owner.
OwnerForgotten == Devices \ {"allowlist"}
\* .owner = THIS_MODULE: an open descriptor holds the module, and it is not unloaded.
Owner == Devices
Unreferenced == \A u \in Users : fd[u] \notin Owner

\* Mutant: the callback stays installed until the class has gone.
RemoveNodesLate ==
  /\ At("loaded") /\ ~legacy /\ Unreferenced /\ Goto("exit_class")
  /\ UNCHANGED <<legacy, at, flags, resources, hotplug, list, record>>
\* cpuhp_remove_state
RemoveNodes ==
  /\ At("loaded") /\ ~legacy /\ Unreferenced /\ Goto("exit_class")
  /\ nodes' = nodes \ online
  /\ callback' = FALSE
  /\ UNCHANGED <<legacy, at, flags, resources, online, list, record>>

\* Before 4.10 the notifier goes only after the region.
Exit ==
  \/ RemoveNodes
  \/ Unreferenced /\ DestroyNodes("loaded", "exit_class")
  \/ DestroyClass("exit_class", "exit_chrdev")
  \/ Unregister("exit_chrdev", IF legacy THEN "exit_notifier" ELSE "exit_wlist")
  \/ SetNotifier("exit_notifier", "exit_wlist", FALSE)
  \/ DeleteList("exit_wlist", "exit_wlist1", "exit_wlist2")
  \/ ForgetList("exit_wlist1", "exit_wlist2")
  \/ CleanupAt("allowlist", "exit_wlist2", "exit_batch")
  \/ CleanupAt("batch", "exit_batch", "exit_version")
  \/ CleanupAt("version", "exit_version", "out")

(***************************************************************************)
(* CPU hotplug                                                             *)
(***************************************************************************)
\* Before 4.10: nodes and online are not kept together by anyone.
Unguarded ==
  legacy /\ pc \in {"notifier", "out_class", "out_class2",
                    "exit_class", "exit_chrdev", "exit_notifier"}
Slip == slipped' = (slipped \/ Unguarded)

\* If the callback fails to create the node the CPU stays offline: no step.
CpuOnline(c) ==
  /\ c \notin online
  /\ online' = online \cup {c}
  /\ nodes' = IF callback THEN nodes \cup {c} ELSE nodes
  /\ Slip
  /\ UNCHANGED <<legacy, pc, at, flags, resources, callback, list, fault, failed, stranded, unnoticed>>

\* Mutant: msr_device_destroy is not registered.
CpuOfflineKeepsNode(c) ==
  /\ c \in online /\ online # {c}
  /\ online' = online \ {c}
  /\ Slip
  /\ UNCHANGED <<legacy, pc, at, flags, resources, nodes, callback, list, fault, failed, stranded, unnoticed>>
CpuOffline(c) ==
  /\ c \in online /\ online # {c}
  /\ online' = online \ {c}
  /\ nodes' = IF callback THEN nodes \ {c} ELSE nodes
  /\ Slip
  /\ UNCHANGED <<legacy, pc, at, flags, resources, callback, list, fault, failed, stranded, unnoticed>>

(***************************************************************************)
(* The users.  Neither device_destroy nor unregister_chrdev closes what is *)
(* open, and a load that fails does not wait for it.                       *)
(***************************************************************************)
\* A node can be opened from its creation on, until the unload begins.
Unloading == pc \in {"out", "exit_class", "exit_chrdev", "exit_notifier", "exit_wlist",
                     "exit_wlist1", "exit_wlist2", "exit_batch", "exit_version"}
HasNode(d) ==
  IF d = "safe" THEN nodes \cap online # {} /\ chrdevs["safe"] > 0 ELSE "device" \in flags[d]

Open(u, d) ==
  /\ fd[u] = NULL /\ HasNode(d) /\ ~Unloading
  /\ fd' = [fd EXCEPT ![u] = d]
  /\ UNCHANGED <<module, hotplug, caller, call, entry, pointers, crossed, revived>>

Close(u) ==
  /\ fd[u] # NULL /\ caller # u /\ pc # "out"
  /\ fd' = [fd EXCEPT ![u] = NULL]
  /\ UNCHANGED <<module, hotplug, caller, call, entry, pointers, crossed, revived>>

(***************************************************************************)
(* Calls under allowlist_mutex: a write of the list's device replaces or   *)
(* clears the list, an access through another device looks a register up.  *)
(* (A listing, which tests allowlist_numentries instead of the pointer, is *)
(* in Allowlist.)                                                          *)
(***************************************************************************)
\* Where the cleanup is done with the list.
BehindDelete == pc \in {"out_wlist2", "out_batch", "out_version"}

Lock(u) ==
  /\ caller = NULL /\ fd[u] \notin {NULL, "version"} /\ pc # "out"
  /\ caller' = u
  /\ call' \in IF fd[u] = "allowlist" THEN {"create", "clear"} ELSE {"look"}
  /\ crossed' = (crossed \/ pc \in {"out_wlist1", "exit_wlist1"})
  /\ revived' = (revived \/ (BehindDelete /\ fd[u] = "allowlist"))
  /\ UNCHANGED <<module, hotplug, fd, entry, pointers>>

Called(label) == caller # NULL /\ call = label /\ pc # "out"
untouched == <<module, hotplug, fd, caller, crossed, revived>>

\* delete_allowlist, called by create_allowlist and by a write that clears the list.
DeleteInCall(from, to, done) ==
  /\ Called(from)
  /\ IF allowlist = NULL THEN call' = done /\ UNCHANGED pointers
                         ELSE call' = to /\ Kfree /\ UNCHANGED allowlist
  /\ UNCHANGED <<untouched, entry>>

ForgetInCall(from, to) ==
  /\ Called(from) /\ call' = to
  /\ allowlist' = NULL
  /\ UNCHANGED <<untouched, entry, heap, unsafe>>

\* kcalloc, whose result is assigned before it is tested.
Allocate ==
  /\ Called("allocate")
  /\ \/ \E b \in Blocks \ heap :
          allowlist' = b /\ heap' = heap \cup {b} /\ call' = "test"
     \/ allowlist' = NULL /\ call' = "unlock" /\ UNCHANGED heap
  /\ UNCHANGED <<untouched, entry, unsafe>>

\* The pointer is tested, then read again: both find the same unless the cleanup
\* has assigned to it in between.
Test(from, to) ==
  /\ Called(from)
  /\ \/ call' = to /\ (from = "look" => allowlist # NULL) /\ entry' = allowlist
     \/ call' = "unlock" /\ allowlist = NULL /\ UNCHANGED entry
  /\ UNCHANGED <<untouched, pointers>>

\* The array is filled, until the end or until an error, or read.
UseArray(from, done) ==
  /\ Called(from) /\ call' \in done
  /\ unsafe' = (unsafe \/ entry \notin heap)
  /\ entry' = NULL
  /\ UNCHANGED <<untouched, allowlist, heap>>

Unlock ==
  /\ Called("unlock")
  /\ caller' = NULL /\ call' = "idle"
  /\ UNCHANGED <<module, hotplug, fd, entry, pointers, crossed, revived>>

UserStep ==
  \/ \E u \in Users : Lock(u) \/ Close(u) \/ \E d \in Devices : Open(u, d)
  \/ DeleteInCall("create", "create1", "allocate") \/ ForgetInCall("create1", "allocate")
  \/ Allocate \/ Test("test", "fill") \/ UseArray("fill", {"clear", "unlock"})
  \/ DeleteInCall("clear", "clear1", "unlock") \/ ForgetInCall("clear1", "unlock")
  \/ Test("look", "read") \/ UseArray("read", {"unlock"})
  \/ Unlock

-----------------------------------------------------------------------------
LifecycleInit ==
  /\ legacy \in BOOLEAN
  /\ pc = "out" /\ at = "batch"
  /\ flags = [d \in Single |-> {}]
  /\ chrdevs = [d \in Devices |-> 0]
  /\ classes = {} /\ devices = {} /\ nodes = {}
  /\ callback = FALSE
  /\ online \in (SUBSET CPUs) \ {{}}
  /\ fd = [u \in Users |-> NULL]
  /\ caller = NULL /\ call = "idle" /\ entry = NULL
  /\ allowlist = NULL /\ heap = {}
  /\ unsafe = FALSE /\ crossed = FALSE /\ revived = FALSE
  /\ fault = FALSE /\ failed = FALSE /\ stranded = FALSE
  /\ slipped = FALSE /\ unnoticed = FALSE

LifecycleNext ==
  \/ Load \/ Register \/ CreateClass \/ CreateDevice
  \/ RegisterSafe \/ CreateClassSafe \/ SetupNodes
  \/ CreateNodes \/ SetNotifier("notifier", "loaded", TRUE)
  \/ Unwind \/ Exit \/ UserStep
  \/ \E c \in CPUs : CpuOnline(c) \/ CpuOffline(c)

LifecycleSpec == LifecycleInit /\ [][LifecycleNext]_lvars

-----------------------------------------------------------------------------
\* The types of the variables (one per module).
Labels == {"out", "register", "class", "device", "nodes", "notifier", "loaded",
           "out_class", "out_class2", "out_chrdev", "out_wlist", "out_wlist1",
           "out_wlist2", "out_batch", "out_version", "exit_class", "exit_chrdev", "exit_notifier",
           "exit_wlist", "exit_wlist1", "exit_wlist2", "exit_batch", "exit_version"}
CallLabels == {"idle", "create", "create1", "allocate", "test", "fill", "clear", "clear1",
               "look", "read", "unlock"}

LifecycleTypeOK ==
  /\ pc \in Labels /\ at \in Devices
  /\ flags \in [Single -> SUBSET {"registered", "class", "device"}]
  /\ chrdevs \in [Devices -> 0 .. 2]
  /\ classes \subseteq Devices /\ devices \subseteq Single
  /\ nodes \subseteq CPUs /\ online \subseteq CPUs
  /\ fd \in [Users -> Devices \cup {NULL}] /\ caller \in Users \cup {NULL}
  /\ call \in CallLabels /\ heap \subseteq Blocks
  /\ {entry, allowlist} \subseteq Blocks \cup {NULL}
  /\ {legacy, callback, unsafe, crossed, revived} \subseteq BOOLEAN
  /\ {fault, failed, stranded, slipped, unnoticed} \subseteq BOOLEAN

(***************************************************************************)
(* What is left in the kernel after a load that failed, at whichever call, *)
(* and after an unload: no region, class, node or callback that refers to  *)
(* code and data that have gone, and no array.  Where the code falls short *)
(* the property says of what:                                              *)
(*   - msr_init jumps to out_version when msr_version_init fails, below    *)
(*     the labels that clean up the other two devices: these two stay, and *)
(*     nothing else of the module does;                                    *)
(*   - an array stays if in the unwinding of a load a call ran beside      *)
(*     delete_allowlist (crossed) or a write began after it (revived);     *)
(*   - nodes of CPUs stay through hotplug in the windows of old kernels.   *)
(***************************************************************************)
Stays == IF stranded THEN {"batch", "allowlist"} ELSE {}
NothingLeft ==
  pc = "out" =>
    /\ \A d \in Devices : chrdevs[d] = IF d \in Stays THEN 1 ELSE 0
    /\ classes = Stays /\ devices = Stays /\ ~callback
    /\ heap # {} => stranded \/ (failed /\ (crossed \/ revived))
    /\ nodes # {} => slipped

(***************************************************************************)
(* No call uses the array after it was freed, and it is not freed twice:   *)
(* an unload frees it without the mutex, but no call can be under way      *)
(* then.  Only the unwinding of a load that fails can run beside a call.   *)
(***************************************************************************)
ArrayHeld == unsafe => failed /\ crossed

\* A load fails only when a kernel call fails during it: no earlier load or unload
\* is in its way, but for the two devices that stay, which stop it at the first.
RetryWorks == failed /\ ~fault => stranded /\ at = "batch"

\* While the module is loaded the nodes are those of the CPUs online, unless
\* hotplug fell into a window of an old kernel; of an old kernel that missed an
\* error there are fewer, until their CPUs come back, and never more.
NodesFollowOnline ==
  pc = "loaded" /\ ~slipped => nodes \subseteq online /\ (nodes = online \/ unnoticed)

(***************************************************************************)
(* A device node never outlives its class or its region, whichever way the *)
(* module comes down and whichever CPU comes online meanwhile, the windows *)
(* of old kernels excepted.                                                *)
(***************************************************************************)
NodesBacked ==
  /\ \A d \in devices : d \in classes /\ chrdevs[d] > 0
  /\ nodes # {} /\ ~slipped => "safe" \in classes /\ chrdevs["safe"] > 0
==============================================================================
