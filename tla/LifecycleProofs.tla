--------------------------- MODULE LifecycleProofs ---------------------------
(***************************************************************************)
(* Invariants of Lifecycle for any set of CPUs and any choice of fixed     *)
(* major numbers, on kernels before and from 4.10.                         *)
(*                                                                         *)
(* The argument: how far the init function of a device has come is in its  *)
(* flags (FlagsInv), and the kernel holds of the device what they record,  *)
(* plus what a stranded load has left (KernelInv).  The ladder at the end  *)
(* of msr_init, and msr_exit, call the cleanup functions in an order that  *)
(* leaves no flag set at "out" (OrderInv).  The device of the CPUs has no  *)
(* flags: what the kernel holds of it follows from the label (SafeInv),    *)
(* and so does which nodes there are (NodesInv).  A stranded load leaves   *)
(* two devices, at the first of which every later load fails               *)
(* (StrandedInv).  An open descriptor keeps the module from its unload     *)
(* (DescriptorsInv), so the cleanup runs beside a call only in a load that *)
(* fails; unless it does, the pointer to the array and the heap go         *)
(* together through every call and the cleanup (HeapInv), and behind the   *)
(* cleanup there is no array unless a write has begun there (EmptyInv).    *)
(***************************************************************************)
EXTENDS Lifecycle, TLAPS

\* The flags of a device: cdev_registered, cdev_class_created, cdev_created.
All == {"registered", "class", "device"}

\* The types of the variables; how many regions a name can have follows later.
TypeInv ==
  /\ pc \in Labels /\ at \in Devices
  /\ flags \in [Single -> SUBSET All]
  /\ chrdevs \in [Devices -> Nat]
  /\ classes \subseteq Devices /\ devices \subseteq Single
  /\ nodes \subseteq CPUs /\ online \subseteq CPUs
  /\ legacy \in BOOLEAN /\ callback \in BOOLEAN
  /\ fault \in BOOLEAN /\ failed \in BOOLEAN /\ stranded \in BOOLEAN
  /\ slipped \in BOOLEAN /\ unnoticed \in BOOLEAN

\* The types of the users' variables.
ListTypeInv ==
  /\ fd \in [Users -> Devices \cup {NULL}] /\ caller \in Users \cup {NULL}
  /\ call \in CallLabels /\ heap \subseteq Blocks
  /\ entry \in Blocks \cup {NULL} /\ allowlist \in Blocks \cup {NULL}
  /\ unsafe \in BOOLEAN /\ crossed \in BOOLEAN /\ revived \in BOOLEAN

\* The single devices that msr_init initialises after a device.
Later == [batch |-> {"allowlist", "version"}, allowlist |-> {"version"},
          version |-> {}, safe |-> {}]
\* Those it has initialised before.
Earlier == [batch |-> {}, allowlist |-> {"batch"}, version |-> {"batch", "allowlist"},
            safe |-> Single]
\* A device has all flags or none, but for the one whose init function runs; the
\* devices that msr_init has not come to have none.
FlagsInv ==
  /\ pc = "device" => at \in Single
  /\ pc \in {"register", "class", "device"} => \A d \in Later[at] : flags[d] = {}
  /\ pc \in {"nodes", "notifier", "loaded"} => at = "safe"
  /\ \A d \in Single :
       /\ flags[d] = IF at = d /\ pc = "class" THEN {"registered"}
                     ELSE IF at = d /\ pc = "device" THEN {"registered", "class"}
                     ELSE IF "device" \in flags[d] THEN All ELSE {}
       /\ at = d /\ pc = "register" => flags[d] = {}
       /\ at = d /\ pc = "device" => d \notin devices
       /\ "device" \in flags[d] => d \in devices

One(b) == IF b THEN 1 ELSE 0
\* What the kernel holds of a single device: a region and a class by its flags,
\* and one of each with the node of a stranded load.
KernelInv ==
  \A d \in Single :
    /\ chrdevs[d] = One("registered" \in flags[d])
                      + One(d \in devices /\ "device" \notin flags[d])
    /\ d \in classes <=> "class" \in flags[d] \/ d \in devices

\* Unless a load was stranded, a node has its flag, and at each label the cleanup
\* functions already called have left no flag.
OrderInv ==
  ~stranded =>
    /\ \A d \in devices : "device" \in flags[d]
    /\ pc \in {"out_batch", "exit_batch", "out_version", "exit_version", "out"}
         => flags["allowlist"] = {}
    /\ pc \in {"out_version", "exit_version", "out"} => flags["batch"] = {}
    /\ pc = "out" => flags["version"] = {}

\* The labels at which the class of the CPUs' device exists.
WithClass == {"nodes", "notifier", "loaded", "out_class", "out_class2", "exit_class"}
\* What the kernel holds of the CPUs' device follows from the label.
SafeInv ==
  /\ "safe" \in classes <=> pc \in WithClass
  /\ chrdevs["safe"] = One(\/ pc \in WithClass \cup {"out_chrdev", "exit_chrdev"}
                         \/ (pc = "class" /\ at = "safe"))
  /\ callback <=> \/ pc = "loaded"
                  \/ legacy /\ pc \in {"exit_class", "exit_chrdev", "exit_notifier"}
  /\ pc \in {"notifier", "out_class2", "exit_notifier"} => legacy

\* Which nodes of CPUs there are follows from the label, hotplug in a window apart.
NodesInv ==
  ~slipped =>
    /\ pc \in {"notifier", "loaded"} => nodes \subseteq online /\ (nodes = online \/ unnoticed)
    /\ pc = "out_class" => nodes \subseteq online /\ (legacy \/ nodes = {})
    /\ pc \notin {"notifier", "loaded", "out_class"} => nodes = {}

\* The labels at the end of msr_init, and those of msr_exit.
UnwindLabels == {"out_class", "out_class2", "out_chrdev", "out_wlist", "out_wlist1",
                 "out_wlist2", "out_batch", "out_version"}
ExitLabels == {"exit_class", "exit_chrdev", "exit_notifier", "exit_wlist", "exit_wlist1",
               "exit_wlist2", "exit_batch", "exit_version"}
\* A load has failed where it is unwound, and not before.
FailedInv ==
  /\ pc \in UnwindLabels => failed
  /\ failed => pc \in UnwindLabels \cup {"out"}

\* A stranded load leaves two devices, and no later load comes past the first.
StrandedInv ==
  /\ stranded =>
       /\ devices = {"batch", "allowlist"}
       /\ pc \in {"out", "out_version"} \/ (at = "batch" /\ pc \in {"register", "class"})
  /\ pc \in {"register", "class", "device"} => Earlier[at] \subseteq devices

\* No list can be written before the allowlist has its node.
Early == pc \in {"register", "class", "device"} /\ at \in {"batch", "allowlist"}
\* The labels behind delete_allowlist, and the one between its kfree and its end.
Behind == pc \in {"out_wlist2", "exit_wlist2", "out_batch", "exit_batch", "out_version",
                  "exit_version", "out"}
Halfway == pc \in {"out_wlist1", "exit_wlist1"}

\* A call needs a descriptor, and what it does fits the descriptor's device; there
\* is none when the module is unloaded.
DescriptorsInv ==
  /\ caller # NULL => fd[caller] # NULL
  /\ call = "idle" <=> caller = NULL
  /\ call \in {"idle", "look", "read", "unlock"} \/ fd[caller] = "allowlist"
  /\ pc \in ExitLabels => \A u \in Users : fd[u] = NULL
  /\ Early => \A u \in Users : fd[u] # "allowlist"

\* Unless the cleanup runs beside a call, the heap holds the list and nothing else.
HeapInv ==
  ~crossed =>
    /\ ~unsafe
    /\ heap = IF call \in {"create1", "clear1"} \/ Halfway THEN {} ELSE {allowlist} \ {NULL}
    /\ Halfway => call = "idle"
    /\ call = "allocate" => allowlist = NULL
    /\ call = "test" => allowlist # NULL
    /\ call \in {"fill", "read"} => allowlist # NULL /\ entry = allowlist

\* There is no array where there can be no list.
EmptyInv ==
  Early \/ (Behind /\ ~stranded /\ ~crossed /\ ~revived)
    => allowlist = NULL /\ heap = {} /\ call \in {"idle", "look", "unlock"}

\* The list and its users.
ListInv ==
  /\ ListTypeInv /\ DescriptorsInv /\ HeapInv /\ EmptyInv
  /\ crossed \/ revived => failed

\* The inductive invariant.
IInv ==
  /\ TypeInv /\ FlagsInv /\ KernelInv /\ OrderInv /\ SafeInv
  /\ NodesInv /\ FailedInv /\ StrandedInv /\ ListInv /\ RetryWorks

\* The three devices with init functions are devices, that of the CPUs is another.
LEMMA DevicesDisjoint == Single \subseteq Devices /\ "safe" \in Devices /\ "safe" \notin Single
BY DEF Devices, Single

\* No device comes after itself in msr_init.
LEMMA LaterDevices == \A d \in Devices : Later[d] \subseteq Single \ {d}
BY DEF Later, Devices, Single

\* Before the first load the module holds nothing in the kernel.
LEMMA InitHolds == LifecycleInit => IInv
<1> SUFFICES ASSUME LifecycleInit PROVE IInv
  OBVIOUS
<1> USE DEF LifecycleInit, Labels, Devices, Single
<1>1. TypeInv /\ FlagsInv
  BY DEF TypeInv, FlagsInv
<1>2. KernelInv
  BY DEF KernelInv, One
<1>3. OrderInv /\ NodesInv /\ RetryWorks
  BY DEF OrderInv, NodesInv, RetryWorks
<1>4. SafeInv
  BY DEF SafeInv, One, WithClass
<1>5. FailedInv /\ StrandedInv
  BY DEF FailedInv, StrandedInv, UnwindLabels
<1>6. ListTypeInv /\ DescriptorsInv
  BY DEF ListTypeInv, DescriptorsInv, CallLabels, ExitLabels, Early
<1>7. HeapInv /\ EmptyInv
  BY DEF HeapInv, EmptyInv, Halfway
<1> QED
  BY <1>1, <1>2, <1>3, <1>4, <1>5, <1>6, <1>7 DEF IInv, ListInv

\* A step that leaves the list and its users alone keeps what is said of them, if it
\* begins an unload only without descriptors and comes behind delete_allowlist only
\* from there or from where there is no list.
LEMMA ListKept ==
  ASSUME IInv, list' = list, ~Halfway, ~Halfway', failed => failed', stranded => stranded',
         Early' => Early, pc' \in ExitLabels => pc \in ExitLabels \/ Unreferenced,
         Behind' => Behind \/ Early \/ stranded'
  PROVE  ListInv'
<1> USE DEF IInv, ListInv, list, pointers
<1>1. ListTypeInv'
  BY DEF ListTypeInv
<1>2. DescriptorsInv'
  <2>1. Unreferenced => \A u \in Users : fd[u] = NULL
    BY DEF Unreferenced, Owner, ListTypeInv
  <2> QED
    BY <2>1 DEF DescriptorsInv, ListTypeInv
<1>3. HeapInv'
  BY DEF HeapInv
<1>4. EmptyInv'
  BY DEF EmptyInv
<1>5. (crossed \/ revived => failed)'
  OBVIOUS
<1> QED
  BY <1>1, <1>2, <1>3, <1>4, <1>5

\* A step of a user leaves the module and the CPUs alone.
LEMMA ModuleKept == ASSUME IInv, module' = module, hotplug' = hotplug, ListInv' PROVE IInv'
BY DEF module, resources, hotplug, record, IInv, TypeInv, FlagsInv, KernelInv, OrderInv,
  SafeInv, NodesInv, FailedInv, StrandedInv, RetryWorks, One

\* The cleanup function of a device clears its flags, gives back what they record
\* and leaves the other devices alone.
LEMMA CleanupEffect ==
  ASSUME TypeInv, FlagsInv, KernelInv, NEW d \in Single, Cleanup(d)
  PROVE  /\ flags' \in [Single -> SUBSET All] /\ chrdevs' \in [Devices -> Nat]
         /\ classes' \subseteq classes /\ devices' \subseteq devices
         /\ flags'[d] = {} /\ \A e \in Single \ {d} : flags'[e] = flags[e]
         /\ \A e \in Devices \ {d} :
              /\ chrdevs'[e] = chrdevs[e]
              /\ e \in classes <=> e \in classes'
              /\ e \in devices <=> e \in devices'
         /\ d \in devices' <=> d \in devices /\ "device" \notin flags[d]
         /\ KernelInv'
<1> USE DevicesDisjoint DEF Cleanup, TypeInv
<1>1. /\ flags' \in [Single -> SUBSET All] /\ flags'[d] = {}
      /\ \A e \in Single \ {d} : flags'[e] = flags[e]
  OBVIOUS
<1>2. /\ classes' \subseteq classes /\ devices' \subseteq devices
      /\ \A e \in Devices \ {d} : (e \in classes <=> e \in classes') /\ (e \in devices <=> e \in devices')
      /\ d \in devices' <=> d \in devices /\ "device" \notin flags[d]
      /\ d \in classes' <=> d \in classes /\ "class" \notin flags[d]
  OBVIOUS
<1>3. /\ \A e \in Devices \ {d} : chrdevs'[e] = chrdevs[e]
      /\ chrdevs'[d] = IF "registered" \in flags[d] THEN chrdevs[d] - 1 ELSE chrdevs[d]
      /\ DOMAIN chrdevs' = Devices
  OBVIOUS
<1>4. chrdevs[d] = One("registered" \in flags[d]) + One(d \in devices /\ "device" \notin flags[d])
  BY DEF KernelInv
<1>5. chrdevs'[d] = One(d \in devices')
  BY <1>2, <1>3, <1>4 DEF One
<1>6. chrdevs' \in [Devices -> Nat]
  BY <1>3, <1>5 DEF One
<1>7. d \in classes' <=> d \in devices'
  BY <1>2 DEF KernelInv, FlagsInv, All
<1>8. KernelInv'
  <2> SUFFICES ASSUME NEW e \in Single
               PROVE  /\ chrdevs'[e] = One("registered" \in flags'[e])
                           + One(e \in devices' /\ "device" \notin flags'[e])
                      /\ e \in classes' <=> "class" \in flags'[e] \/ e \in devices'
    BY DEF KernelInv
  <2>1. CASE e = d
    BY <2>1, <1>1, <1>5, <1>7 DEF One
  <2>2. CASE e # d
    BY <2>2, <1>1, <1>2, <1>3 DEF KernelInv
  <2> QED
    BY <2>1, <2>2
<1> QED
  BY <1>1, <1>2, <1>3, <1>6, <1>8

\* An init function that fails cleans up its device, and msr_init takes the ladder
\* at a label below which no other flag is set, or the load is stranded.
LEMMA InitFailsStep ==
  ASSUME IInv, at \in Single, pc \in {"register", "class", "device"},
         NEW b \in BOOLEAN, InitFails(b), b \/ (stranded /\ at = "batch")
  PROVE  IInv'
<1> USE DevicesDisjoint DEF IInv, InitFails, Goto, hotplug
<1>1. /\ flags' \in [Single -> SUBSET All] /\ chrdevs' \in [Devices -> Nat]
      /\ classes' \subseteq classes /\ devices' \subseteq devices
      /\ flags'[at] = {} /\ \A e \in Single \ {at} : flags'[e] = flags[e]
      /\ \A e \in Devices \ {at} :
           /\ chrdevs'[e] = chrdevs[e]
           /\ e \in classes <=> e \in classes'
           /\ e \in devices <=> e \in devices'
      /\ at \in devices' <=> at \in devices /\ "device" \notin flags[at]
      /\ KernelInv'
  BY CleanupEffect
<1>2. /\ pc' \in {"out", "out_batch", "out_version"} /\ at' = at
      /\ at = "batch" => pc' = "out"
      /\ at = "allowlist" => pc' = "out_batch"
      /\ at = "version" => pc' = "out_version"
  BY DEF Ladder, Single
<1>3. UNCHANGED <<legacy, nodes, callback, online, list, slipped, unnoticed>>
  OBVIOUS
<1>4. /\ stranded' = (stranded \/ at = "version")
      /\ failed' = TRUE /\ fault' = (fault \/ b)
  OBVIOUS
<1> HIDE DEF InitFails
<1>5. TypeInv'
  <2>1. fault' \in BOOLEAN /\ failed' \in BOOLEAN /\ stranded' \in BOOLEAN
    BY <1>4, Zenon DEF TypeInv
  <2> QED
    BY <1>1, <1>2, <1>3, <2>1 DEF TypeInv, Labels
<1>6. FlagsInv'
  BY <1>1, <1>2 DEF FlagsInv
<1>7. OrderInv'
  BY <1>1, <1>2, <1>4 DEF TypeInv, OrderInv, FlagsInv, Later, Single
<1>8. SafeInv'
  BY <1>1, <1>2, <1>3 DEF SafeInv, WithClass
<1>9. NodesInv'
  BY <1>2, <1>3 DEF NodesInv
<1>10. ListInv'
  BY <1>2, <1>3, <1>4, ListKept DEF Early, Behind, Halfway, ExitLabels, Single
<1>11. RetryWorks'
  BY <1>2, <1>4 DEF RetryWorks
<1>12. FailedInv'
  BY <1>2, <1>4 DEF FailedInv, UnwindLabels
<1>13. StrandedInv'
  <2>1. "device" \notin flags[at]
    BY DEF FlagsInv
  <2>2. \A e \in Devices : e \in devices <=> e \in devices'
    BY <1>1, <2>1
  <2>3. devices' = devices
    BY <1>1, <2>2 DEF TypeInv
  <2>4. CASE stranded
    BY <1>2, <2>3, <2>4 DEF StrandedInv
  <2>5. CASE ~stranded /\ at = "version"
    <3>2. "batch" \in devices /\ "allowlist" \in devices /\ "version" \notin devices
      BY <2>1, <2>5 DEF StrandedInv, Earlier, OrderInv
    <3>3. devices = {"batch", "allowlist"}
      BY <3>2 DEF TypeInv, Single
    <3> QED
      BY <1>2, <2>3, <2>5, <3>3 DEF StrandedInv, Single
  <2> QED
    BY <1>2, <1>4, <2>4, <2>5 DEF StrandedInv
<1> QED
  BY <1>1, <1>5, <1>6, <1>7, <1>8, <1>9, <1>10, <1>11, <1>12, <1>13

\* cpuhp_setup_state, or the jump to out_class.
LEMMA SetupNodesStep == IInv /\ SetupNodes => IInv'
<1> SUFFICES ASSUME IInv, SetupNodes PROVE IInv'
  OBVIOUS
<1> USE DevicesDisjoint DEF IInv, SetupNodes, SafeFails, At, Goto, resources, hotplug,
      record
<1>1. TypeInv'
  BY DEF TypeInv, Labels
<1>2. FlagsInv'
  BY DEF FlagsInv
<1>3. KernelInv'
  BY DEF KernelInv
<1>4. OrderInv'
  <2>1. /\ UNCHANGED <<stranded, list, devices, flags, at>>
        /\ pc' \in {"loaded", "out_class"}
    OBVIOUS
  <2> QED
    BY <2>1 DEF OrderInv
<1>5. SafeInv'
  BY DEF SafeInv, WithClass
<1>6. NodesInv'
  BY DEF NodesInv
<1>7. ListInv'
  <2>1. /\ UNCHANGED <<stranded, list, devices, flags, at>>
        /\ pc' \in {"loaded", "out_class"} /\ (failed => failed')
    OBVIOUS
  <2> QED
    BY <2>1, ListKept DEF Early, Behind, Halfway, ExitLabels
<1>9. FailedInv' /\ StrandedInv'
  BY DEF FailedInv, StrandedInv, UnwindLabels
<1>8. RetryWorks'
  <2>1. CASE UNCHANGED record
    BY <2>1 DEF RetryWorks
  <2>2. CASE SafeFails("out_class", TRUE)
    <3>1. fault'
      BY <2>2
    <3> QED
      BY <3>1, Zenon DEF RetryWorks
  <2> QED
    BY <2>1, <2>2
<1> QED
  BY <1>1, <1>2, <1>3, <1>4, <1>5, <1>6, <1>7, <1>8, <1>9

\* Before 4.10, the nodes of the CPUs online are destroyed, in msr_exit and at the
\* label out_class.
LEMMA DestroyNodesStep ==
  ASSUME IInv, NEW from \in Labels, NEW to \in Labels, DestroyNodes(from, to),
         <<from, to>> \in {<<"out_class", "out_class2">>, <<"loaded", "exit_class">>},
         from = "loaded" => Unreferenced
  PROVE  IInv'
<1> USE DevicesDisjoint DEF IInv, DestroyNodes, At, Goto, resources, hotplug, record
<1>1. TypeInv'
  BY DEF TypeInv
<1>2. FlagsInv'
  BY DEF FlagsInv
<1>3. KernelInv'
  BY DEF KernelInv
<1>4. OrderInv'
  BY DEF OrderInv
<1>5. SafeInv'
  BY DEF SafeInv, WithClass
<1>6. NodesInv'
  BY DEF NodesInv
<1>7. ListInv'
  BY ListKept DEF Early, Behind, Halfway, ExitLabels
<1>9. FailedInv' /\ StrandedInv'
  BY DEF FailedInv, StrandedInv, UnwindLabels
<1>8. RetryWorks'
  BY DEF RetryWorks
<1> QED
  BY <1>1, <1>2, <1>3, <1>4, <1>5, <1>6, <1>7, <1>8, <1>9

\* class_destroy for the CPUs' device, on each of the three ways there.
LEMMA DestroyClassStep ==
  ASSUME IInv, NEW from \in Labels, NEW to \in Labels, DestroyClass(from, to),
         <<from, to>> \in {<<"out_class", "out_chrdev">>, <<"out_class2", "out_chrdev">>,
                         <<"exit_class", "exit_chrdev">>},
         from = "out_class" => ~legacy
  PROVE  IInv'
<1> USE DevicesDisjoint DEF IInv, DestroyClass, At, Goto, resources, hotplug, record
<1>1. TypeInv'
  BY DEF TypeInv
<1>2. FlagsInv'
  BY DEF FlagsInv
<1>3. KernelInv'
  BY DEF KernelInv
<1>4. OrderInv'
  BY DEF OrderInv
<1>5. SafeInv'
  BY DEF SafeInv, WithClass
<1>6. NodesInv'
  BY DEF NodesInv
<1>7. ListInv'
  BY ListKept DEF Early, Behind, Halfway, ExitLabels
<1>9. FailedInv' /\ StrandedInv'
  BY DEF FailedInv, StrandedInv, UnwindLabels
<1>8. RetryWorks'
  BY DEF RetryWorks
<1> QED
  BY <1>1, <1>2, <1>3, <1>4, <1>5, <1>6, <1>7, <1>8, <1>9

\* __unregister_chrdev for the CPUs' device: its region is there to be given back.
LEMMA UnregisterStep ==
  ASSUME IInv, NEW from \in Labels, NEW to \in Labels, Unregister(from, to),
         \/ <<from, to>> = <<"out_chrdev", "out_wlist">>
         \/ <<from, to>> = <<"exit_chrdev", IF legacy THEN "exit_notifier" ELSE "exit_wlist">>
  PROVE  IInv'
<1> USE DevicesDisjoint DEF IInv, Unregister, At, Goto, resources, hotplug, record
<1>1. TypeInv'
  <2>1. chrdevs["safe"] = 1
    BY DEF SafeInv, One
  <2>2. chrdevs' \in [Devices -> Nat]
    BY <2>1 DEF TypeInv
  <2> QED
    BY <2>2 DEF TypeInv
<1>2. FlagsInv'
  BY DEF FlagsInv
<1>3. KernelInv'
  BY DEF KernelInv
<1>4. OrderInv'
  BY DEF OrderInv
<1>5. SafeInv'
  BY DEF TypeInv, SafeInv, WithClass, One
<1>6. NodesInv'
  BY DEF NodesInv
<1>7. ListInv'
  BY ListKept DEF Early, Behind, Halfway, ExitLabels
<1>9. FailedInv' /\ StrandedInv'
  BY DEF FailedInv, StrandedInv, UnwindLabels
<1>8. RetryWorks'
  BY DEF RetryWorks
<1> QED
  BY <1>1, <1>2, <1>3, <1>4, <1>5, <1>6, <1>7, <1>8, <1>9

\* Before 4.10, the hotplug notifier is installed at the end of msr_init and removed
\* in msr_exit.
LEMMA SetNotifierStep ==
  ASSUME IInv, NEW from \in Labels, NEW to \in Labels, NEW on, SetNotifier(from, to, on),
         <<from, to, on>> \in {<<"notifier", "loaded", TRUE>>, <<"exit_notifier", "exit_wlist", FALSE>>}
  PROVE  IInv'
<1> USE DevicesDisjoint DEF IInv, SetNotifier, At, Goto, resources, hotplug, record
<1>1. TypeInv'
  BY DEF TypeInv
<1>2. FlagsInv'
  BY DEF FlagsInv
<1>3. KernelInv'
  BY DEF KernelInv
<1>4. OrderInv'
  BY DEF OrderInv
<1>5. SafeInv'
  BY DEF SafeInv, WithClass
<1>6. NodesInv'
  BY DEF NodesInv
<1>7. ListInv'
  BY ListKept DEF Early, Behind, Halfway, ExitLabels
<1>9. FailedInv' /\ StrandedInv'
  BY DEF FailedInv, StrandedInv, UnwindLabels
<1>8. RetryWorks'
  BY DEF RetryWorks
<1> QED
  BY <1>1, <1>2, <1>3, <1>4, <1>5, <1>6, <1>7, <1>8, <1>9

\* delete_allowlist at the begin of msr_allowlist_cleanup, up to kfree: no call is
\* under way, or this is the unwinding of a load.
LEMMA DeleteListStep ==
  ASSUME IInv, NEW from, NEW to, NEW done, DeleteList(from, to, done),
         <<from, to, done>> \in {<<"out_wlist", "out_wlist1", "out_wlist2">>,
                                <<"exit_wlist", "exit_wlist1", "exit_wlist2">>}
  PROVE  IInv'
<1> USE DevicesDisjoint DEF IInv, DeleteList, At, Goto, resources, hotplug, record
<1>1. TypeInv'
  BY DEF TypeInv, Labels
<1>2. FlagsInv'
  BY DEF FlagsInv
<1>3. KernelInv'
  BY DEF KernelInv
<1>4. OrderInv'
  BY DEF OrderInv
<1>5. SafeInv'
  BY DEF SafeInv, WithClass
<1>6. NodesInv'
  BY DEF NodesInv
<1>7. ListInv'
  <2>1. /\ pc = "out_wlist" \/ (pc = "exit_wlist" /\ caller = NULL)
        /\ ~Halfway /\ ~Early /\ ~Early' /\ pc' \notin {"out_batch", "exit_batch", "out"}
    BY DEF ListInv, DescriptorsInv, ListTypeInv, ExitLabels, Halfway, Early
  <2>2. /\ UNCHANGED <<fd, caller, call, entry, allowlist, revived, failed, stranded>>
        /\ crossed' = (crossed \/ caller # NULL)
        /\ \/ allowlist = NULL /\ heap' = heap /\ unsafe' = unsafe /\ ~Halfway'
           \/ /\ allowlist # NULL /\ ~Behind' /\ Halfway'
              /\ heap' = heap \ {allowlist} /\ unsafe' = (unsafe \/ allowlist \notin heap)
    BY DEF Kfree, pointers, Behind, Halfway
  <2>3. ListTypeInv'
    <3>1. unsafe' \in BOOLEAN /\ crossed' \in BOOLEAN
      BY <2>2, Zenon DEF ListInv, ListTypeInv
    <3> QED
      BY <2>2, <3>1 DEF ListInv, ListTypeInv
  <2>4. DescriptorsInv'
    BY <2>1, <2>2 DEF ListInv, DescriptorsInv, ExitLabels
  <2>5. HeapInv'
    BY <2>1, <2>2 DEF ListInv, DescriptorsInv, HeapInv
  <2>6. EmptyInv'
    BY <2>1, <2>2 DEF ListInv, DescriptorsInv, HeapInv, EmptyInv
  <2>7. (crossed \/ revived => failed)'
    <3>1. CASE pc = "out_wlist"
      BY <2>2, <3>1 DEF FailedInv, UnwindLabels
    <3>2. CASE caller = NULL
      <4>1. crossed' => crossed
        BY <2>2, <3>2
      <4> QED
        BY <2>2, <4>1 DEF ListInv
    <3> QED
      BY <2>1, <3>1, <3>2
  <2> QED
    BY <2>3, <2>4, <2>5, <2>6, <2>7 DEF ListInv
<1>8. RetryWorks'
  BY DEF RetryWorks
<1>9. FailedInv' /\ StrandedInv'
  BY DEF FailedInv, StrandedInv, UnwindLabels
<1> QED
  BY <1>1, <1>2, <1>3, <1>4, <1>5, <1>6, <1>7, <1>8, <1>9

\* The end of delete_allowlist in msr_allowlist_cleanup.
LEMMA ForgetListStep ==
  ASSUME IInv, NEW from, NEW to, ForgetList(from, to),
         <<from, to>> \in {<<"out_wlist1", "out_wlist2">>, <<"exit_wlist1", "exit_wlist2">>}
  PROVE  IInv'
<1> USE DevicesDisjoint DEF IInv, ForgetList, At, Goto, resources, hotplug, record
<1>1. TypeInv'
  BY DEF TypeInv, Labels
<1>2. FlagsInv'
  BY DEF FlagsInv
<1>3. KernelInv'
  BY DEF KernelInv
<1>4. OrderInv'
  BY DEF OrderInv
<1>5. SafeInv'
  BY DEF SafeInv, WithClass
<1>6. NodesInv'
  BY DEF NodesInv
<1>7. ListInv'
  <2>1. /\ Halfway /\ ~Halfway' /\ ~Early' /\ (pc' \in ExitLabels => pc \in ExitLabels)
        /\ UNCHANGED <<fd, caller, call, entry, heap, unsafe, crossed, revived, failed, stranded>>
        /\ allowlist' = NULL
    BY DEF Halfway, Early, ExitLabels
  <2>2. ListTypeInv' /\ DescriptorsInv'
    BY <2>1 DEF ListInv, ListTypeInv, DescriptorsInv
  <2>3. HeapInv' /\ EmptyInv'
    BY <2>1 DEF ListInv, HeapInv, EmptyInv
  <2> QED
    BY <2>1, <2>2, <2>3 DEF ListInv
<1>8. RetryWorks'
  BY DEF RetryWorks
<1>9. FailedInv' /\ StrandedInv'
  BY DEF FailedInv, StrandedInv, UnwindLabels
<1> QED
  BY <1>1, <1>2, <1>3, <1>4, <1>5, <1>6, <1>7, <1>8, <1>9

\* One of the three cleanup functions, called at its label or in msr_exit.
LEMMA CleanupAtStep ==
  ASSUME IInv, NEW d \in Single, NEW from, NEW to, CleanupAt(d, from, to),
         <<d, from, to>> \in {<<"allowlist", "out_wlist2", "out_batch">>,
                              <<"allowlist", "exit_wlist2", "exit_batch">>,
                              <<"batch", "out_batch", "out_version">>,
                              <<"batch", "exit_batch", "exit_version">>,
                              <<"version", "out_version", "out">>,
                              <<"version", "exit_version", "out">>}
  PROVE  IInv'
<1> USE DevicesDisjoint DEF IInv, CleanupAt, At, Goto, hotplug, record
<1>1. /\ flags' \in [Single -> SUBSET All] /\ chrdevs' \in [Devices -> Nat]
      /\ classes' \subseteq classes /\ devices' \subseteq devices
      /\ flags'[d] = {} /\ \A e \in Single \ {d} : flags'[e] = flags[e]
      /\ \A e \in Devices \ {d} :
           /\ chrdevs'[e] = chrdevs[e]
           /\ e \in classes <=> e \in classes'
           /\ e \in devices <=> e \in devices'
      /\ d \in devices' <=> d \in devices /\ "device" \notin flags[d]
      /\ KernelInv'
  BY CleanupEffect
<1>2. /\ pc = from /\ pc' = to
      /\ UNCHANGED <<legacy, at, nodes, callback, online, list>>
      /\ UNCHANGED <<fault, failed, stranded, slipped, unnoticed>>
  OBVIOUS
<1> HIDE DEF CleanupAt
<1>3. TypeInv'
  BY <1>1, <1>2 DEF TypeInv, Labels
<1>4. FlagsInv'
  BY <1>1, <1>2 DEF FlagsInv
<1>5. OrderInv'
  BY <1>1, <1>2 DEF TypeInv, OrderInv, Single
<1>6. SafeInv'
  BY <1>1, <1>2 DEF SafeInv, WithClass
<1>7. NodesInv'
  BY <1>2 DEF NodesInv
<1>8. ListInv'
  BY <1>2, ListKept DEF Early, Behind, Halfway, ExitLabels
<1>9. RetryWorks'
  BY <1>2, Zenon DEF RetryWorks
<1>10. FailedInv'
  BY <1>2 DEF FailedInv, UnwindLabels
<1>11. StrandedInv'
  <2>1. stranded => d = "version" /\ pc' = "out"
    BY <1>2 DEF StrandedInv
  <2>2. stranded => \A e \in Devices : e \in devices <=> e \in devices'
    BY <1>1, <2>1 DEF StrandedInv
  <2>3. stranded => devices' = devices
    BY <1>1, <2>2 DEF TypeInv
  <2> QED
    BY <1>2, <2>1, <2>3 DEF StrandedInv
<1> QED
  BY <1>1, <1>3, <1>4, <1>5, <1>6, <1>7, <1>8, <1>9, <1>10, <1>11

\* A load begins with a fresh copy of the module, whose flags are zero; its earlier
\* copy had none set, or was stranded.
LEMMA LoadStep == IInv /\ Load => IInv'
<1> SUFFICES ASSUME IInv, Load PROVE IInv'
  OBVIOUS
<1> USE DevicesDisjoint DEF IInv, Load, At, Goto, resources, hotplug, record
<1>1. TypeInv'
  BY DEF TypeInv, Labels, Single
<1>2. FlagsInv'
  BY DEF FlagsInv, Single, Later
<1>3. KernelInv'
  BY DEF KernelInv, FlagsInv, One, All
<1>4. OrderInv'
  BY DEF TypeInv, OrderInv, Single
<1>5. SafeInv'
  BY DEF SafeInv, WithClass
<1>6. NodesInv'
  BY DEF NodesInv
<1>7. ListInv'
  <2>1. ListTypeInv' /\ DescriptorsInv'
    BY LifecycleAssumption DEF ListTypeInv, DescriptorsInv, CallLabels, ExitLabels, Devices, Single
  <2>2. HeapInv' /\ EmptyInv'
    BY DEF HeapInv, EmptyInv, Halfway
  <2> QED
    BY <2>1, <2>2 DEF ListInv
<1>9. FailedInv' /\ StrandedInv'
  BY DEF FailedInv, StrandedInv, UnwindLabels, Earlier
<1>8. RetryWorks'
  BY DEF RetryWorks
<1> QED
  BY <1>1, <1>2, <1>3, <1>4, <1>5, <1>6, <1>7, <1>8, <1>9

\* class_create for the CPUs' device, or the jump to out_chrdev.
LEMMA CreateClassSafeStep == IInv /\ CreateClassSafe => IInv'
<1> SUFFICES ASSUME IInv, CreateClassSafe PROVE IInv'
  OBVIOUS
<1> USE DevicesDisjoint DEF IInv, CreateClassSafe, SafeFails, At, Goto, resources,
      hotplug, record
<1>1. TypeInv'
  BY DEF TypeInv, Labels
<1>2. FlagsInv'
  BY DEF FlagsInv
<1>3. KernelInv'
  BY DEF KernelInv
<1>4. OrderInv'
  BY DEF OrderInv
<1>5. SafeInv'
  BY DEF SafeInv, WithClass
<1>6. NodesInv'
  BY DEF NodesInv
<1>7. ListInv'
  BY ListKept DEF Early, Behind, Halfway, ExitLabels
<1>9. FailedInv' /\ StrandedInv'
  BY DEF FailedInv, StrandedInv, UnwindLabels
<1>8. RetryWorks'
  BY DEF RetryWorks, SafeInv, WithClass
<1> QED
  BY <1>1, <1>2, <1>3, <1>4, <1>5, <1>6, <1>7, <1>8, <1>9

\* __register_chrdev for the CPUs' device, or the jump to out_wlist: its region is
\* not left from an earlier load, so only a fault of its own can stop it.
LEMMA RegisterSafeStep == IInv /\ RegisterSafe => IInv'
<1> SUFFICES ASSUME IInv, RegisterSafe PROVE IInv'
  OBVIOUS
<1> USE DevicesDisjoint DEF IInv, RegisterSafe, MajorTaken, SafeFails, At, Goto,
      resources, hotplug, record
<1>1. TypeInv'
  <2>1. chrdevs' \in [Devices -> Nat]
    BY DEF TypeInv
  <2> QED
    BY <2>1 DEF TypeInv, Labels
<1>2. FlagsInv'
  BY DEF FlagsInv
<1>3. KernelInv'
  BY DEF TypeInv, KernelInv
<1>4. OrderInv'
  BY DEF OrderInv
<1>5. SafeInv'
  BY DEF TypeInv, SafeInv, WithClass, One
<1>6. NodesInv'
  BY DEF NodesInv
<1>7. ListInv'
  BY ListKept DEF Early, Behind, Halfway, ExitLabels
<1>9. FailedInv' /\ StrandedInv'
  BY DEF FailedInv, StrandedInv, UnwindLabels
<1>8. RetryWorks'
  <2>1. chrdevs["safe"] = 0
    BY DEF SafeInv, One, WithClass
  <2>2. CASE UNCHANGED record
    BY <2>2 DEF RetryWorks
  <2>3. CASE SafeFails("out_wlist", ~MajorTaken)
    <3>1. fault' = (fault \/ ~MajorTaken) /\ ~MajorTaken
      BY <2>1, <2>3
    <3> QED
      BY <3>1, Zenon DEF RetryWorks
  <2> QED
    BY <2>2, <2>3
<1> QED
  BY <1>1, <1>2, <1>3, <1>4, <1>5, <1>6, <1>7, <1>8, <1>9

\* Before 4.10, the loop that creates the nodes: all of them, or some and a jump to
\* out_class, or some unnoticed.
LEMMA CreateNodesStep == IInv /\ CreateNodes => IInv'
<1> SUFFICES ASSUME IInv, CreateNodes PROVE IInv'
  OBVIOUS
<1> USE DevicesDisjoint DEF IInv, CreateNodes, At, Goto, resources, hotplug, record
<1>1. TypeInv'
  BY DEF TypeInv, Labels
<1>2. FlagsInv'
  BY DEF FlagsInv
<1>3. KernelInv'
  BY DEF KernelInv
<1>4. OrderInv'
  BY DEF OrderInv
<1>5. SafeInv'
  BY DEF SafeInv, WithClass
<1>6. NodesInv'
  BY DEF NodesInv
<1>7. ListInv'
  BY ListKept DEF Early, Behind, Halfway, ExitLabels
<1>9. FailedInv' /\ StrandedInv'
  BY DEF FailedInv, StrandedInv, UnwindLabels
<1>8. RetryWorks'
  BY DEF RetryWorks
<1> QED
  BY <1>1, <1>2, <1>3, <1>4, <1>5, <1>6, <1>7, <1>8, <1>9

\* cpuhp_remove_state: nodes and callback go together.
LEMMA RemoveNodesStep == IInv /\ RemoveNodes => IInv'
<1> SUFFICES ASSUME IInv, RemoveNodes PROVE IInv'
  OBVIOUS
<1> USE DevicesDisjoint DEF IInv, RemoveNodes, At, Goto, resources, hotplug, record
<1>1. TypeInv'
  BY DEF TypeInv, Labels
<1>2. FlagsInv'
  BY DEF FlagsInv
<1>3. KernelInv'
  BY DEF KernelInv
<1>4. OrderInv'
  BY DEF OrderInv
<1>5. SafeInv'
  BY DEF SafeInv, WithClass
<1>6. NodesInv'
  BY DEF NodesInv
<1>7. ListInv'
  BY ListKept DEF Early, Behind, Halfway, ExitLabels
<1>9. FailedInv' /\ StrandedInv'
  BY DEF FailedInv, StrandedInv, UnwindLabels
<1>8. RetryWorks'
  BY DEF RetryWorks
<1> QED
  BY <1>1, <1>2, <1>3, <1>4, <1>5, <1>6, <1>7, <1>8, <1>9

\* What a label is, for the steps of the users, which leave it alone.
LEMMA LabelsKept ==
  ASSUME module' = module
  PROVE  /\ pc' = pc /\ failed' = failed /\ stranded' = stranded
         /\ Early' = Early /\ Behind' = Behind /\ Halfway' = Halfway
BY DEF module, record, Early, Behind, Halfway

\* A node is opened or closed: no descriptor of the allowlist before it has a node.
LEMMA OpenCloseStep ==
  ASSUME IInv, NEW u \in Users, (\E d \in Devices : Open(u, d)) \/ Close(u)
  PROVE  IInv'
<1>1. PICK d \in Devices \cup {NULL} :
        /\ fd' = [fd EXCEPT ![u] = d] /\ module' = module /\ hotplug' = hotplug
        /\ UNCHANGED <<caller, call, entry, allowlist, heap, unsafe, crossed, revived>>
        /\ d = NULL => caller # u
        /\ d # NULL => fd[u] = NULL /\ HasNode(d) /\ ~Unloading
  BY LifecycleAssumption DEF Open, Close, pointers
<1> USE LabelsKept DEF IInv, ListInv
<1>2. /\ \A v \in Users : fd'[v] = IF v = u THEN d ELSE fd[v]
      /\ ListTypeInv'
  <2>1. fd \in [Users -> Devices \cup {NULL}]
    BY DEF ListTypeInv
  <2>2. /\ \A v \in Users : fd'[v] = IF v = u THEN d ELSE fd[v]
        /\ fd' \in [Users -> Devices \cup {NULL}]
    BY <1>1, <2>1
  <2> QED
    BY <1>1, <2>2 DEF ListTypeInv
<1>3. Early => d # "allowlist"
  <2>1. Early => "device" \notin flags["allowlist"]
    BY DEF Early, FlagsInv, Later, Single
  <2>2. d = "allowlist" => "device" \in flags["allowlist"]
    BY <1>1, LifecycleAssumption DEF HasNode, Devices, Single
  <2> QED
    BY <2>1, <2>2
<1>4. d # NULL => caller # u
  BY <1>1, LifecycleAssumption DEF DescriptorsInv
<1>5. pc \in ExitLabels => d = NULL
  BY <1>1 DEF ExitLabels, Unloading
<1>6. DescriptorsInv'
  BY <1>1, <1>2, <1>3, <1>4, <1>5 DEF DescriptorsInv, ListTypeInv
<1>7. HeapInv' /\ EmptyInv'
  BY <1>1 DEF HeapInv, EmptyInv
<1> QED
  BY <1>1, <1>2, <1>6, <1>7, ModuleKept

\* A call takes the mutex: beside the cleanup it is crossed, behind it revived.
LEMMA LockStep == ASSUME IInv, NEW u \in Users, Lock(u) PROVE IInv'
<1> USE LabelsKept DEF IInv, ListInv
<1>1. /\ caller = NULL /\ caller' = u /\ fd[u] \notin {NULL, "version"} /\ pc # "out"
      /\ call' \in IF fd[u] = "allowlist" THEN {"create", "clear"} ELSE {"look"}
      /\ module' = module /\ hotplug' = hotplug
      /\ UNCHANGED <<fd, entry, allowlist, heap, unsafe>>
      /\ crossed' = (crossed \/ Halfway)
      /\ revived' = (revived \/ (BehindDelete /\ fd[u] = "allowlist"))
  BY DEF Lock, pointers, Halfway
<1>2. pc \notin ExitLabels /\ call = "idle"
  BY <1>1 DEF DescriptorsInv
<1>3. ListTypeInv'
  <2>1. crossed' \in BOOLEAN /\ revived' \in BOOLEAN
    BY <1>1, Zenon DEF ListTypeInv
  <2> QED
    BY <1>1, <2>1 DEF ListTypeInv, CallLabels
<1>4. DescriptorsInv'
  BY <1>1, <1>2, LifecycleAssumption DEF DescriptorsInv
<1>5. HeapInv'
  BY <1>1, <1>2 DEF HeapInv
<1>6. EmptyInv'
  <2>1. Early => fd[u] # "allowlist"
    BY DEF DescriptorsInv
  <2>2. Behind => BehindDelete
    BY <1>1, <1>2 DEF Behind, BehindDelete, ExitLabels
  <2> QED
    BY <1>1, <1>2, <2>1, <2>2 DEF EmptyInv
<1>7. (crossed \/ revived => failed)'
  BY <1>1, <1>2 DEF Halfway, BehindDelete, FailedInv, UnwindLabels, ExitLabels
<1> QED
  BY <1>1, <1>3, <1>4, <1>5, <1>6, <1>7, ModuleKept

\* What every step of a call leaves alone keeps its place in the invariant.
LEMMA CallKept ==
  ASSUME IInv, untouched' = untouched, caller # NULL, call' \in CallLabels \ {"idle"},
         call' \in {"read", "unlock"} \/ call \notin {"look", "read", "unlock"},
         heap' \subseteq Blocks, entry' \in Blocks \cup {NULL}, unsafe' \in BOOLEAN,
         allowlist' \in Blocks \cup {NULL}, HeapInv', EmptyInv'
  PROVE  IInv'
<1> USE LabelsKept DEF IInv, ListInv
<1>1. module' = module /\ hotplug' = hotplug /\ UNCHANGED <<fd, caller, crossed, revived>>
  BY DEF untouched
<1>2. ListTypeInv'
  BY <1>1 DEF ListTypeInv
<1>3. DescriptorsInv'
  BY <1>1 DEF DescriptorsInv
<1> QED
  BY <1>1, <1>2, <1>3, ModuleKept

\* delete_allowlist in a call, up to kfree.
LEMMA DeleteInCallStep ==
  ASSUME IInv, NEW from, NEW to, NEW done, DeleteInCall(from, to, done),
         <<from, to, done>> \in {<<"create", "create1", "allocate">>, <<"clear", "clear1", "unlock">>}
  PROVE  IInv'
<1>1. /\ call = from /\ caller # NULL /\ untouched' = untouched /\ entry' = entry
      /\ allowlist' = allowlist
      /\ \/ allowlist = NULL /\ call' = done /\ heap' = heap /\ unsafe' = unsafe
         \/ /\ allowlist # NULL /\ call' = to
            /\ heap' = heap \ {allowlist} /\ unsafe' = (unsafe \/ allowlist \notin heap)
  BY DEF DeleteInCall, Called, Kfree, pointers
<1>2. module' = module /\ UNCHANGED <<crossed, revived>>
  BY <1>1 DEF untouched
<1>3. unsafe' \in BOOLEAN
  BY <1>1, Zenon DEF IInv, ListInv, ListTypeInv
<1>4. HeapInv'
  BY <1>1, <1>2, LabelsKept DEF IInv, ListInv, HeapInv
<1>5. EmptyInv'
  BY <1>1, <1>2, LabelsKept DEF IInv, ListInv, EmptyInv
<1> QED
  BY <1>1, <1>3, <1>4, <1>5, CallKept DEF IInv, ListInv, ListTypeInv, CallLabels

\* The end of delete_allowlist in a call.
LEMMA ForgetInCallStep ==
  ASSUME IInv, NEW from, NEW to, ForgetInCall(from, to),
         <<from, to>> \in {<<"create1", "allocate">>, <<"clear1", "unlock">>}
  PROVE  IInv'
<1>1. /\ call = from /\ caller # NULL /\ untouched' = untouched /\ call' = to
      /\ allowlist' = NULL /\ UNCHANGED <<entry, heap, unsafe>>
  BY DEF ForgetInCall, Called
<1>2. module' = module /\ UNCHANGED <<crossed, revived>>
  BY <1>1 DEF untouched
<1>3. HeapInv' /\ EmptyInv'
  BY <1>1, <1>2, LabelsKept DEF IInv, ListInv, HeapInv, EmptyInv
<1> QED
  BY <1>1, <1>3, CallKept DEF IInv, ListInv, ListTypeInv, CallLabels

\* kcalloc in create_allowlist.
LEMMA AllocateStep == IInv /\ Allocate => IInv'
<1> SUFFICES ASSUME IInv, Allocate PROVE IInv'
  OBVIOUS
<1>1. /\ call = "allocate" /\ caller # NULL /\ untouched' = untouched
      /\ UNCHANGED <<entry, unsafe>>
      /\ \/ \E b \in Blocks \ heap :
              allowlist' = b /\ heap' = heap \cup {b} /\ call' = "test"
         \/ allowlist' = NULL /\ call' = "unlock" /\ heap' = heap
  BY DEF Allocate, Called
<1>2. module' = module /\ UNCHANGED <<crossed, revived>>
  BY <1>1 DEF untouched
<1>3. HeapInv' /\ EmptyInv'
  BY <1>1, <1>2, LabelsKept, LifecycleAssumption DEF IInv, ListInv, HeapInv, EmptyInv
<1> QED
  BY <1>1, <1>3, CallKept DEF IInv, ListInv, ListTypeInv, CallLabels

\* The test of the pointer, in create_allowlist and in find_in_allowlist.
LEMMA TestStep ==
  ASSUME IInv, NEW from, NEW to, Test(from, to),
         <<from, to>> \in {<<"test", "fill">>, <<"look", "read">>}
  PROVE  IInv'
<1>1. /\ call = from /\ caller # NULL /\ untouched' = untouched
      /\ UNCHANGED <<allowlist, heap, unsafe>>
      /\ \/ call' = to /\ (from = "look" => allowlist # NULL) /\ entry' = allowlist
         \/ call' = "unlock" /\ allowlist = NULL /\ entry' = entry
  BY DEF Test, Called, pointers
<1>2. module' = module /\ UNCHANGED <<crossed, revived>>
  BY <1>1 DEF untouched
<1>3. HeapInv' /\ EmptyInv'
  BY <1>1, <1>2, LabelsKept DEF IInv, ListInv, HeapInv, EmptyInv
<1> QED
  BY <1>1, <1>3, CallKept DEF IInv, ListInv, ListTypeInv, CallLabels

\* The array is filled or read: it is in the heap.
LEMMA UseArrayStep ==
  ASSUME IInv, NEW from, NEW done, UseArray(from, done),
         <<from, done>> \in {<<"fill", {"clear", "unlock"}>>, <<"read", {"unlock"}>>}
  PROVE  IInv'
<1>1. /\ call = from /\ caller # NULL /\ untouched' = untouched
      /\ UNCHANGED <<allowlist, heap>> /\ entry' = NULL
      /\ unsafe' = (unsafe \/ entry \notin heap)
      /\ call' \in {"clear", "unlock"} /\ (from = "read" => call' = "unlock")
  BY DEF UseArray, Called
<1>2. module' = module /\ UNCHANGED <<crossed, revived>>
  BY <1>1 DEF untouched
<1>3. unsafe' \in BOOLEAN
  BY <1>1, Zenon DEF IInv, ListInv, ListTypeInv
<1>4. HeapInv'
  BY <1>1, <1>2, LabelsKept DEF IInv, ListInv, HeapInv
<1>5. EmptyInv'
  BY <1>1, <1>2, LabelsKept DEF IInv, ListInv, EmptyInv
<1> QED
  BY <1>1, <1>3, <1>4, <1>5, CallKept DEF IInv, ListInv, ListTypeInv, CallLabels

\* The mutex is given back.
LEMMA UnlockStep == IInv /\ Unlock => IInv'
<1> SUFFICES ASSUME IInv, Unlock PROVE IInv'
  OBVIOUS
<1> USE LabelsKept DEF IInv, ListInv
<1>1. /\ call = "unlock" /\ caller' = NULL /\ call' = "idle"
      /\ module' = module /\ hotplug' = hotplug
      /\ UNCHANGED <<fd, entry, allowlist, heap, unsafe, crossed, revived>>
  BY DEF Unlock, Called, pointers
<1>2. ListTypeInv' /\ DescriptorsInv'
  BY <1>1 DEF ListTypeInv, DescriptorsInv, CallLabels
<1>3. HeapInv' /\ EmptyInv'
  BY <1>1 DEF HeapInv, EmptyInv
<1> QED
  BY <1>1, <1>2, <1>3, ModuleKept

\* Every step of the users.
LEMMA UserSteps == IInv /\ UserStep => IInv'
BY OpenCloseStep, LockStep, DeleteInCallStep, ForgetInCallStep, AllocateStep, TestStep,
  UseArrayStep, UnlockStep DEF UserStep

\* A CPU comes or goes: the callback, while it is installed, moves its node along.
LEMMA HotplugStep == IInv /\ (\E c \in CPUs : CpuOnline(c) \/ CpuOffline(c)) => IInv'
<1> SUFFICES ASSUME IInv, (\E c \in CPUs : CpuOnline(c) \/ CpuOffline(c)) PROVE IInv'
  OBVIOUS
<1> USE DevicesDisjoint DEF IInv, CpuOnline, CpuOffline, Slip, Unguarded, At, Goto,
      resources, hotplug, record
<1>1. TypeInv'
  BY DEF TypeInv
<1>2. FlagsInv'
  BY DEF FlagsInv
<1>3. KernelInv'
  BY DEF KernelInv
<1>4. OrderInv'
  BY DEF OrderInv
<1>5. SafeInv'
  BY DEF SafeInv
<1>6. NodesInv'
  <2>1. /\ pc' = pc /\ legacy' = legacy /\ unnoticed' = unnoticed /\ slipped' = (slipped \/ Unguarded)
        /\ \E c \in CPUs :
             \/ /\ c \notin online /\ online' = online \cup {c}
                /\ nodes' = IF callback THEN nodes \cup {c} ELSE nodes
             \/ /\ c \in online /\ online' = online \ {c}
                /\ nodes' = IF callback THEN nodes \ {c} ELSE nodes
    BY Zenon DEF CpuOnline, CpuOffline, Slip
  <2>2. ~slipped' => ~slipped /\ ~Unguarded
    BY <2>1
  <2>3. ASSUME ~slipped, pc = "loaded"
        PROVE  nodes' \subseteq online' /\ (nodes' = online' \/ unnoticed)
    <3>1. callback /\ nodes \subseteq online /\ (nodes = online \/ unnoticed)
      BY <2>3 DEF SafeInv, NodesInv
    <3> QED
      BY <2>1, <3>1
  <2>4. ASSUME ~slipped, ~Unguarded, pc \notin {"notifier", "loaded"}
        PROVE  nodes' = nodes /\ (pc = "out_class" => ~legacy)
    BY <2>1, <2>4 DEF SafeInv, Unguarded
  <2>5. ~Unguarded => pc # "notifier"
    BY DEF SafeInv, Unguarded
  <2> QED
    BY <2>1, <2>2, <2>3, <2>4, <2>5 DEF NodesInv
<1>7. ListInv'
  BY DEF list, pointers, ListInv, ListTypeInv, DescriptorsInv, HeapInv, EmptyInv, Early,
    Behind, Halfway
<1>9. FailedInv' /\ StrandedInv'
  BY DEF FailedInv, StrandedInv
<1>8. RetryWorks'
  <2>1. UNCHANGED <<failed, stranded, fault, at>>
    OBVIOUS
  <2> QED
    BY <2>1, Zenon DEF RetryWorks
<1> QED
  BY <1>1, <1>2, <1>3, <1>4, <1>5, <1>6, <1>7, <1>8, <1>9

\* register_chrdev for a single device, or the way out: its region is not left from
\* an earlier load.
LEMMA RegisterStep == IInv /\ Register => IInv'
<1> SUFFICES ASSUME IInv, Register PROVE IInv'
  OBVIOUS
<1> USE DevicesDisjoint DEF IInv, Register, At
<1>1. CASE InitFails(~MajorTaken)
  <2>1. flags[at] = {}
    BY DEF FlagsInv
  <2>2. stranded \/ at \notin devices
    BY <2>1 DEF OrderInv
  <2>3. stranded \/ chrdevs[at] = 0
    BY <2>1, <2>2 DEF KernelInv, One
  <2>4. (stranded /\ at = "batch") \/ ~MajorTaken
    BY <2>3 DEF MajorTaken, StrandedInv
  <2> QED
    BY <1>1, <2>4, InitFailsStep
<1>2. CASE /\ chrdevs' = [chrdevs EXCEPT ![at] = @ + 1]
           /\ flags' = [flags EXCEPT ![at] = @ \cup {"registered"}]
           /\ Goto("class")
           /\ UNCHANGED <<legacy, at, classes, devices, hotplug, list, record>>
  <2> USE <1>2 DEF Goto, hotplug, record
  <2>1. /\ flags' \in [Single -> SUBSET All] /\ chrdevs' \in [Devices -> Nat]
        /\ flags[at] = {} /\ flags'[at] = {"registered"} /\ chrdevs'[at] = chrdevs[at] + 1
        /\ \A e \in Single \ {at} : flags'[e] = flags[e]
        /\ \A e \in Devices \ {at} : chrdevs'[e] = chrdevs[e]
    BY DEF TypeInv, FlagsInv, All
  <2>2. TypeInv'
    BY <2>1 DEF TypeInv, Labels
  <2>3. FlagsInv'
    <3>1. pc' = "class" /\ at' = at /\ devices' = devices /\ pc = "register"
      OBVIOUS
    <3>2. \A d \in Later[at] : flags'[d] = {}
      BY <2>1, <3>1, LaterDevices DEF FlagsInv
    <3>3. ASSUME NEW d \in Single \ {at}
          PROVE  /\ flags'[d] = IF "device" \in flags'[d] THEN All ELSE {}
                 /\ "device" \in flags'[d] => d \in devices
      BY <2>1, <3>1, <3>3 DEF FlagsInv
    <3> HIDE DEF IInv, Register, Goto, hotplug, record
    <3> QED
      BY <2>1, <3>1, <3>2, <3>3 DEF FlagsInv
  <2>4. KernelInv'
    BY <2>1 DEF KernelInv, One
  <2>5. OrderInv'
    BY <2>1 DEF OrderInv
  <2>6. SafeInv' /\ NodesInv'
    BY <2>1 DEF SafeInv, NodesInv, WithClass
  <2>7. ListInv' /\ RetryWorks'
    BY ListKept DEF Early, Behind, Halfway, ExitLabels, RetryWorks
  <2>8. FailedInv' /\ StrandedInv'
    BY DEF FailedInv, StrandedInv, UnwindLabels, KernelInv, Single
  <2> QED
    BY <2>2, <2>3, <2>4, <2>5, <2>6, <2>7, <2>8
<1> QED
  BY <1>1, <1>2

\* class_create for a single device, or the way out: its class is not left from an
\* earlier load.
LEMMA CreateClassStep == IInv /\ CreateClass => IInv'
<1> SUFFICES ASSUME IInv, CreateClass PROVE IInv'
  OBVIOUS
<1> USE DevicesDisjoint DEF IInv, CreateClass, At
<1>1. CASE InitFails(at \notin classes)
  <2>1. flags[at] = {"registered"}
    BY DEF FlagsInv
  <2>2. stranded \/ at \notin devices
    BY <2>1 DEF OrderInv
  <2>3. (stranded /\ at = "batch") \/ at \notin classes
    BY <2>1, <2>2 DEF KernelInv, StrandedInv
  <2> QED
    BY <1>1, <2>3, InitFailsStep
<1>2. CASE /\ at \notin classes
           /\ classes' = classes \cup {at}
           /\ flags' = [flags EXCEPT ![at] = @ \cup {"class"}]
           /\ Goto("device")
           /\ UNCHANGED <<legacy, at, chrdevs, devices, hotplug, list, record>>
  <2> USE <1>2 DEF Goto, hotplug, record
  <2>1. /\ flags' \in [Single -> SUBSET All]
        /\ flags[at] = {"registered"} /\ flags'[at] = {"registered", "class"}
        /\ \A e \in Single \ {at} : flags'[e] = flags[e]
    BY DEF TypeInv, FlagsInv, All
  <2>2. TypeInv'
    BY <2>1 DEF TypeInv, Labels
  <2>3. FlagsInv'
    <3>1. at \notin devices
      BY DEF KernelInv
    <3>2. \A d \in Later[at] : flags'[d] = {}
      BY <2>1, LaterDevices DEF FlagsInv
    <3> QED
      BY <2>1, <3>1, <3>2 DEF FlagsInv
  <2>4. KernelInv'
    BY <2>1 DEF KernelInv
  <2>5. OrderInv'
    BY <2>1 DEF OrderInv
  <2>6. SafeInv' /\ NodesInv'
    BY <2>1 DEF SafeInv, NodesInv, WithClass
  <2>7. ListInv' /\ RetryWorks'
    BY ListKept DEF Early, Behind, Halfway, ExitLabels, RetryWorks
  <2>8. FailedInv' /\ StrandedInv'
    BY DEF FailedInv, StrandedInv, UnwindLabels, KernelInv, Single
  <2> QED
    BY <2>2, <2>3, <2>4, <2>5, <2>6, <2>7, <2>8
<1> QED
  BY <1>1, <1>2

\* device_create for a single device, on which msr_init goes on to the next one, or
\* the way out.
LEMMA CreateDeviceStep == IInv /\ CreateDevice => IInv'
<1> SUFFICES ASSUME IInv, CreateDevice PROVE IInv'
  OBVIOUS
<1> USE DevicesDisjoint DEF IInv, CreateDevice, At
<1>1. at \in Single /\ flags[at] = {"registered", "class"} /\ at \notin devices
  BY DEF FlagsInv
<1>2. CASE InitFails(TRUE)
  BY <1>1, <1>2, InitFailsStep
<1>3. CASE /\ devices' = devices \cup {at}
           /\ flags' = [flags EXCEPT ![at] = @ \cup {"device"}]
           /\ at' = Successor[at]
           /\ Goto("register")
           /\ UNCHANGED <<legacy, chrdevs, classes, hotplug, list, record>>
  <2> USE <1>3 DEF Goto, hotplug, record
  <2>1. /\ flags' \in [Single -> SUBSET All] /\ flags'[at] = All
        /\ \A e \in Single \ {at} : flags'[e] = flags[e]
    BY <1>1 DEF TypeInv, All
  <2>2. /\ at' \in Devices /\ at' # at /\ (at' = "safe" \/ at' \in Later[at])
        /\ Later[at'] \subseteq Later[at]
    BY <1>1 DEF Successor, Devices, Single, Later
  <2>3. TypeInv'
    BY <1>1, <2>1, <2>2 DEF TypeInv, Labels
  <2>4. FlagsInv'
    <3>1. \A d \in Later[at] : flags'[d] = {}
      BY <2>1, LaterDevices DEF FlagsInv
    <3>2. \A d \in Single :
            /\ flags'[d] = IF "device" \in flags'[d] THEN All ELSE {}
            /\ at' = d => flags'[d] = {}
            /\ "device" \in flags'[d] => d \in devices'
      <4> SUFFICES ASSUME NEW d \in Single
                   PROVE  /\ flags'[d] = IF "device" \in flags'[d] THEN All ELSE {}
                          /\ at' = d => flags'[d] = {}
                          /\ "device" \in flags'[d] => d \in devices'
        OBVIOUS
      <4>1. CASE d = at
        BY <2>1, <2>2, <4>1 DEF All
      <4>2. CASE d # at
        BY <2>1, <2>2, <3>1, <4>2 DEF FlagsInv
      <4> QED
        BY <4>1, <4>2
    <3> QED
      BY <2>2, <3>1, <3>2 DEF FlagsInv
  <2>5. KernelInv'
    BY <1>1, <2>1 DEF KernelInv
  <2>6. OrderInv'
    BY <1>1, <2>1, <2>2 DEF OrderInv
  <2>7. SafeInv' /\ NodesInv'
    BY <1>1, <2>2 DEF SafeInv, NodesInv, WithClass
  <2>8. ListInv' /\ RetryWorks'
    <3>1. (Early' => Early)
      BY <1>1, <2>2 DEF Early, Successor, Single
    <3> QED
      BY <3>1, ListKept DEF Behind, Halfway, ExitLabels, RetryWorks, FailedInv, UnwindLabels
  <2>9. FailedInv' /\ StrandedInv'
    <3>1. Earlier[at'] = Earlier[at] \cup {at}
      BY <1>1 DEF Successor, Earlier, Single
    <3> QED
      BY <3>1 DEF FailedInv, StrandedInv, UnwindLabels
  <2> QED
    BY <2>3, <2>4, <2>5, <2>6, <2>7, <2>8, <2>9
<1> QED
  BY <1>2, <1>3

\* The labels at the end of msr_init, and msr_exit.
LEMMA UnwindStep == IInv /\ (Unwind \/ Exit) => IInv'
<1> SUFFICES ASSUME IInv, Unwind \/ Exit PROVE IInv'
  OBVIOUS
<1> USE DEF Labels
<1>1. CASE \/ DestroyNodes("out_class", "out_class2")
           \/ Unreferenced /\ DestroyNodes("loaded", "exit_class")
  BY <1>1, DestroyNodesStep
<1>2. CASE \/ ~legacy /\ DestroyClass("out_class", "out_chrdev")
           \/ DestroyClass("out_class2", "out_chrdev")
           \/ DestroyClass("exit_class", "exit_chrdev")
  BY <1>2, DestroyClassStep
<1>3. CASE Unregister("out_chrdev", "out_wlist")
  BY <1>3, UnregisterStep
<1>4. CASE Unregister("exit_chrdev", IF legacy THEN "exit_notifier" ELSE "exit_wlist")
  BY <1>4, UnregisterStep
<1>5. CASE SetNotifier("exit_notifier", "exit_wlist", FALSE)
  BY <1>5, SetNotifierStep
<1>6. CASE \/ DeleteList("out_wlist", "out_wlist1", "out_wlist2")
           \/ DeleteList("exit_wlist", "exit_wlist1", "exit_wlist2")
  BY <1>6, DeleteListStep
<1>9. CASE \/ ForgetList("out_wlist1", "out_wlist2")
           \/ ForgetList("exit_wlist1", "exit_wlist2")
  BY <1>9, ForgetListStep
<1>7. CASE \/ CleanupAt("allowlist", "out_wlist2", "out_batch")
           \/ CleanupAt("batch", "out_batch", "out_version")
           \/ CleanupAt("version", "out_version", "out")
           \/ CleanupAt("allowlist", "exit_wlist2", "exit_batch")
           \/ CleanupAt("batch", "exit_batch", "exit_version")
           \/ CleanupAt("version", "exit_version", "out")
  BY <1>7, CleanupAtStep DEF Single
<1>8. CASE RemoveNodes
  BY <1>8, RemoveNodesStep
<1> QED
  BY <1>1, <1>2, <1>3, <1>4, <1>5, <1>6, <1>7, <1>8, <1>9 DEF Unwind, Exit

\* A step that leaves the variables alone keeps the invariant.
LEMMA StutterStep == IInv /\ UNCHANGED lvars => IInv'
<1> SUFFICES ASSUME IInv, UNCHANGED lvars PROVE IInv'
  OBVIOUS
<1>1. module' = module /\ hotplug' = hotplug /\ list' = list
  BY DEF lvars
<1>2. ListInv'
  BY <1>1, LabelsKept DEF IInv, ListInv, list, pointers, ListTypeInv, DescriptorsInv, HeapInv,
    EmptyInv
<1> QED
  BY <1>1, <1>2, ModuleKept

\* Every step of the module, the CPUs and the users keeps the invariant.
LEMMA NextStep == IInv /\ [LifecycleNext]_lvars => IInv'
<1> SUFFICES ASSUME IInv, [LifecycleNext]_lvars PROVE IInv'
  OBVIOUS
<1>1. CASE Load \/ Register \/ CreateClass \/ CreateDevice
  BY <1>1, LoadStep, RegisterStep, CreateClassStep, CreateDeviceStep
<1>2. CASE RegisterSafe \/ CreateClassSafe \/ SetupNodes \/ CreateNodes
  BY <1>2, RegisterSafeStep, CreateClassSafeStep, SetupNodesStep, CreateNodesStep
<1>3. CASE SetNotifier("notifier", "loaded", TRUE)
  BY <1>3, SetNotifierStep DEF Labels
<1>4. CASE Unwind \/ Exit
  BY <1>4, UnwindStep
<1>5. CASE UserStep \/ \E c \in CPUs : CpuOnline(c) \/ CpuOffline(c)
  BY <1>5, UserSteps, HotplugStep
<1>6. CASE UNCHANGED lvars
  BY <1>6, StutterStep
<1> QED
  BY <1>1, <1>2, <1>3, <1>4, <1>5, <1>6 DEF LifecycleNext

\* The flags, the kernel's objects and the labels of msr_init and msr_exit agree at
\* all times.
THEOREM InductiveInvariant == LifecycleSpec => []IInv
  BY InitHolds, NextStep, PTL DEF LifecycleSpec

\* The variables keep their types: among others, no region is given back that is not
\* registered, and a name never has more than two.
THEOREM LifecycleTypeCorrect == LifecycleSpec => []LifecycleTypeOK
<1>1. IInv => LifecycleTypeOK
  <2> SUFFICES ASSUME IInv PROVE LifecycleTypeOK
    OBVIOUS
  <2> USE DEF IInv
  <2>1. chrdevs \in [Devices -> 0 .. 2]
    <3>1. \A d \in Devices : d \in Single \/ d = "safe"
      BY DEF Devices
    <3>2. \A d \in Devices : chrdevs[d] \in 0 .. 2
      BY <3>1 DEF KernelInv, SafeInv, One
    <3> QED
      BY <3>2 DEF TypeInv
  <2>2. flags \in [Single -> SUBSET {"registered", "class", "device"}]
    BY DEF TypeInv, All
  <2>3. /\ {legacy, callback, unsafe, crossed, revived} \subseteq BOOLEAN
        /\ {fault, failed, stranded, slipped, unnoticed} \subseteq BOOLEAN
    BY Zenon DEF TypeInv, ListInv, ListTypeInv
  <2> QED
    BY <2>1, <2>2, <2>3 DEF TypeInv, ListInv, ListTypeInv, LifecycleTypeOK
<1> QED
  BY <1>1, InductiveInvariant, PTL

\* What a load that failed at whichever call, and an unload, leave in the kernel
\* (NothingLeft): nothing, or the two devices of a stranded load, and an array only
\* of a call beside or behind delete_allowlist in a load that failed.
THEOREM NothingIsLeft == LifecycleSpec => []NothingLeft
<1>1. IInv => NothingLeft
  <2> SUFFICES ASSUME IInv, pc = "out" PROVE NothingLeft
    BY DEF NothingLeft
  <2> USE DEF IInv
  <2>1. devices = Stays
    BY DEF OrderInv, StrandedInv, Single, Stays, TypeInv
  <2>2. \A d \in Single : flags[d] = All \/ flags[d] = {}
    BY DEF FlagsInv, Single
  <2>3. \A d \in Single : "device" \in flags[d] => d \in devices
    BY DEF FlagsInv
  <2>4. \A d \in Single : /\ chrdevs[d] = One(d \in devices)
                          /\ d \in classes <=> d \in devices
    BY <2>2, <2>3 DEF KernelInv, One, All
  <2>5. chrdevs["safe"] = 0 /\ "safe" \notin classes /\ ~callback
    BY DEF SafeInv, WithClass, One
  <2>6. \A d \in Devices : chrdevs[d] = IF d \in Stays THEN 1 ELSE 0
    BY <2>1, <2>4, <2>5 DEF Devices, One, Stays
  <2>7. classes = Stays
    BY <2>1, <2>4, <2>5 DEF TypeInv, Devices, Stays, Single
  <2>8. heap # {} => stranded \/ (failed /\ (crossed \/ revived))
    BY DEF ListInv, EmptyInv, Behind
  <2>9. nodes # {} => slipped
    BY DEF NodesInv
  <2> QED
    BY <2>1, <2>5, <2>6, <2>7, <2>8, <2>9 DEF NothingLeft
<1> QED
  BY <1>1, InductiveInvariant, PTL

\* No call uses or frees an array that has been freed, unless it runs beside the
\* cleanup of a load that failed (ArrayHeld).
THEOREM ArrayIsHeld == LifecycleSpec => []ArrayHeld
<1>1. IInv => ArrayHeld
  BY DEF IInv, ListInv, HeapInv, ArrayHeld
<1> QED
  BY <1>1, InductiveInvariant, PTL

\* A load fails only by a fault of its own: nothing that an earlier load or unload has
\* left is in its way (RetryWorks).
THEOREM LoadsAreRepeatable == LifecycleSpec => []RetryWorks
<1>1. IInv => RetryWorks
  BY DEF IInv
<1> QED
  BY <1>1, InductiveInvariant, PTL

\* While the module is loaded, the callbacks keep the nodes those of the CPUs online
\* (NodesFollowOnline).
THEOREM NodesAreFollowing == LifecycleSpec => []NodesFollowOnline
<1>1. IInv => NodesFollowOnline
  BY DEF IInv, NodesInv, NodesFollowOnline
<1> QED
  BY <1>1, InductiveInvariant, PTL

\* No node outlives its class or its region on any way up or down (NodesBacked).
THEOREM NodesAreBacked == LifecycleSpec => []NodesBacked
<1>1. IInv => NodesBacked
  <2> SUFFICES ASSUME IInv PROVE NodesBacked
    OBVIOUS
  <2>1. \A d \in devices : d \in classes /\ chrdevs[d] > 0
    BY DEF IInv, TypeInv, KernelInv, FlagsInv, One, All
  <2>2. nodes # {} /\ ~slipped => "safe" \in classes /\ chrdevs["safe"] > 0
    BY DEF IInv, NodesInv, SafeInv, WithClass, One
  <2> QED
    BY <2>1, <2>2 DEF NodesBacked
<1> QED
  BY <1>1, InductiveInvariant, PTL
==============================================================================
