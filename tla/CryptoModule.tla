---------------------------- MODULE CryptoModule ----------------------------
(***************************************************************************)
(* The life of the guest's kernel module (crypto-module.c and the          *)
(* registration in crypto-chrdev.c): init and fini of the module, probe    *)
(* and remove of virtio devices, and the tasks that look a device up by    *)
(* its minor number and keep a pointer to it in an open file.              *)
(*                                                                         *)
(* Devices are numbered in the order in which they are plugged; a device   *)
(* that is unplugged and plugged again is a new one.  What a call does     *)
(* with the virtqueue is VirtioCrypto; here it only uses the device, with  *)
(* crdrvdata.lock held.                                                    *)
(***************************************************************************)
EXTENDS Integers, FiniteSets, SequencesExt

CONSTANTS
  Tasks,      \* processes that open device nodes
  MaxPlugs,   \* bound: devices plugged in all
  NrDevices,  \* CRYPTO_NR_DEVICES
  None

ASSUME PlugAssumption == MaxPlugs \in Nat /\ NrDevices \in Nat \ {0} /\ None \notin Int
ASSUME ModuleTasksAssumption == None \notin Tasks

VARIABLES
  mod,        \* where init or fini is
  cdev,       \* the character device region is registered and live
  listReady,  \* crdrvdata.devs and crdrvdata.lock have been initialised
  devs,       \* crdrvdata.devs
  nextMinor,  \* crdrvdata.next_minor
  dev,        \* each device: unplugged or where its crypto_device is
  minor,      \* crdev->minor
  lock,       \* crdrvdata.lock, held by a call that uses its device, or None
  pc,         \* where each task is
  node,       \* the minor number of the node it opens
  file,       \* crof->crdev of its open file, or None
  hotUnplug,  \* whether devices are removed while the module stays
  earlyOpen   \* whether nodes are opened while init still runs

moduleVars == <<mod, cdev, listReady>>
deviceVars == <<devs, nextMinor, dev, minor>>
taskVars   == <<lock, pc, node, file>>
useVars    == <<hotUnplug, earlyOpen>>
vars == <<moduleVars, deviceVars, taskVars, useVars>>

Devices == 1 .. MaxPlugs

(* "live": init has returned 0.  "going": rmmod has found no user.  "gone": *)
(* not loaded any more.                                                    *)
Modes == {"start", "cdev", "ready", "undo", "live", "going", "detach", "gone"}

(* "lost": the probe failed and nothing refers to its crypto_device. *)
DevStates ==
  {"absent", "present", "refused", "alloc", "vq", "listed", "unlisted", "freed", "lost"}

TypeOK ==
  /\ mod \in Modes
  /\ cdev \in BOOLEAN
  /\ listReady \in BOOLEAN
  /\ devs \in Seq(Devices)
  /\ nextMinor \in 0 .. MaxPlugs
  /\ dev \in [Devices -> DevStates]
  /\ minor \in [Devices -> 0 .. MaxPlugs]
  /\ lock \in Tasks \cup {None}
  /\ pc \in [Tasks -> {"user", "lookup", "oops", "found", "ioctl", "release", "call", "last"}]
  /\ node \in [Tasks -> 0 .. NrDevices - 1]
  /\ file \in [Tasks -> Devices \cup {None}]
  /\ hotUnplug \in BOOLEAN
  /\ earlyOpen \in BOOLEAN

Init ==
  /\ mod = "start"
  /\ cdev = FALSE
  /\ listReady = FALSE
  /\ devs = <<>>
  /\ nextMinor = 0
  /\ dev = [d \in Devices |-> "absent"]
  /\ minor = [d \in Devices |-> 0]
  /\ lock = None
  /\ pc = [t \in Tasks |-> "user"]
  /\ node = [t \in Tasks |-> 0]
  /\ file = [t \in Tasks |-> None]
  /\ hotUnplug \in BOOLEAN
  /\ earlyOpen \in BOOLEAN

------------------------------------------------------------------------------
(* init and fini. *)

Mode(from, to) == mod = from /\ mod' = to

(* register_chrdev_region or cdev_add can fail; the region is given back. *)
ChrdevInit ==
  /\ \/ Mode("start", "cdev") /\ cdev' = TRUE
     \/ Mode("start", "gone") /\ UNCHANGED cdev
  /\ UNCHANGED <<listReady, deviceVars, taskVars>>

InitList ==
  /\ Mode("cdev", "ready")
  /\ listReady' = TRUE
  /\ UNCHANGED <<cdev, deviceVars, taskVars>>

RegisterDriver ==
  /\ Mode("ready", "live") \/ Mode("ready", "undo")
  /\ UNCHANGED <<cdev, listReady, deviceVars, taskVars>>

(* Variant: .owner is not set, nothing counts the users. *)
RmmodInUse ==
  /\ Mode("live", "going")
  /\ UNCHANGED <<cdev, listReady, deviceVars, taskVars>>

(* rmmod only goes on when no open file and no open refers to the module. *)
Rmmod ==
  /\ Mode("live", "going")
  /\ \A t \in Tasks : pc[t] = "user" /\ file[t] = None
  /\ UNCHANGED <<cdev, listReady, deviceVars, taskVars>>

(* Variant: the character device is not deleted. *)
ChrdevLeft ==
  /\ Mode("going", "detach") \/ Mode("undo", "gone")
  /\ UNCHANGED <<cdev, listReady, deviceVars, taskVars>>

ChrdevDestroy ==
  /\ Mode("going", "detach") \/ Mode("undo", "gone")
  /\ cdev' = FALSE
  /\ UNCHANGED <<listReady, deviceVars, taskVars>>

Bound == {d \in Devices : dev[d] \in {"alloc", "vq", "listed", "unlisted"}}

(* unregister_virtio_driver returns when every device is removed. *)
UnregisterDriver ==
  /\ Mode("detach", "gone")
  /\ Bound = {}
  /\ UNCHANGED <<cdev, listReady, deviceVars, taskVars>>

------------------------------------------------------------------------------
(* Devices.  The virtio core calls probe and remove in turn for a device,  *)
(* and for several devices at once.                                        *)

Registered == mod \in {"live", "going", "detach"}

Become(d, from, to) ==
  /\ dev[d] = from
  /\ dev' = [dev EXCEPT ![d] = to]

Plug(d) ==
  /\ Become(d, "absent", "present")
  /\ \A e \in 1 .. d - 1 : dev[e] # "absent"
  /\ UNCHANGED <<moduleVars, devs, nextMinor, minor, taskVars>>

ProbeAlloc(d) ==
  /\ mod \in {"live", "going"}
  /\ Become(d, "present", "alloc") \/ Become(d, "present", "refused")
  /\ UNCHANGED <<moduleVars, devs, nextMinor, minor, taskVars>>

(* When the device has no virtqueue, probe fails and keeps its allocation. *)
ProbeFindVq(d) ==
  /\ Become(d, "alloc", "vq") \/ Become(d, "alloc", "lost")
  /\ UNCHANGED <<moduleVars, devs, nextMinor, minor, taskVars>>

(* Variant: next_minor is not incremented. *)
ProbeListSameMinor(d) ==
  /\ lock = None
  /\ Become(d, "vq", "listed")
  /\ minor' = [minor EXCEPT ![d] = nextMinor]
  /\ devs' = Append(devs, d)
  /\ UNCHANGED <<moduleVars, nextMinor, taskVars>>

ProbeList(d) ==
  /\ lock = None
  /\ Become(d, "vq", "listed")
  /\ minor' = [minor EXCEPT ![d] = nextMinor]
  /\ nextMinor' = nextMinor + 1
  /\ devs' = Append(devs, d)
  /\ UNCHANGED <<moduleVars, taskVars>>

(* list_del(&crdev->list) *)
ListDel(d) == \E k \in DOMAIN devs : devs[k] = d /\ devs' = RemoveAt(devs, k)

(* Variant: the device stays on the list. *)
RemoveKeepsList(d) ==
  /\ mod = "detach" \/ (hotUnplug /\ Registered)
  /\ lock = None
  /\ Become(d, "listed", "unlisted")
  /\ UNCHANGED <<moduleVars, devs, nextMinor, minor, taskVars>>

(* Variant: remove needs the nodes, which fini has deleted already. *)
RemoveWithNodes(d) ==
  /\ mod = "detach" \/ (hotUnplug /\ Registered)
  /\ cdev
  /\ lock = None
  /\ Become(d, "listed", "unlisted")
  /\ ListDel(d)
  /\ UNCHANGED <<moduleVars, nextMinor, minor, taskVars>>

RemoveUnlist(d) ==
  /\ mod = "detach" \/ (hotUnplug /\ Registered)
  /\ lock = None
  /\ Become(d, "listed", "unlisted")
  /\ ListDel(d)
  /\ UNCHANGED <<moduleVars, nextMinor, minor, taskVars>>

RemoveFree(d) ==
  /\ Become(d, "unlisted", "freed")
  /\ UNCHANGED <<moduleVars, devs, nextMinor, minor, taskVars>>

------------------------------------------------------------------------------
(* Tasks. *)

Goto(t, from, to) ==
  /\ pc[t] = from
  /\ pc' = [pc EXCEPT ![t] = to]

(* open() of a node takes a reference of the module, unless it is going.   *)
Open(t) ==
  /\ cdev
  /\ mod = "live" \/ (earlyOpen /\ mod \in {"cdev", "ready", "undo"})
  /\ file[t] = None
  /\ Goto(t, "user", "lookup")
  /\ \E m \in 0 .. NrDevices - 1 : node' = [node EXCEPT ![t] = m]
  /\ UNCHANGED <<moduleVars, deviceVars, lock, file>>

WithMinor(m) == {d \in Devices : minor[d] = m /\ \E k \in DOMAIN devs : devs[k] = d}

(* Variant: "crdev = NULL" is missing and the cursor ends at the list head. *)
LookupNoNull(t) ==
  /\ lock = None
  /\ listReady
  /\ Goto(t, "lookup", "found")
  /\ \E d \in IF WithMinor(node[t]) = {} THEN {0} ELSE WithMinor(node[t]) :
       file' = [file EXCEPT ![t] = d]
  /\ UNCHANGED <<moduleVars, deviceVars, lock, node>>

(* get_crypto_dev_by_minor follows the pointers of a list that may not be  *)
(* one yet.                                                                *)
Lookup(t) ==
  /\ lock = None
  /\ \/ /\ ~listReady
        /\ Goto(t, "lookup", "oops")
        /\ UNCHANGED file
     \/ /\ listReady
        /\ \E d \in WithMinor(node[t]) : file' = [file EXCEPT ![t] = d]
        /\ Goto(t, "lookup", "found")
     \/ /\ listReady
        /\ WithMinor(node[t]) = {}
        /\ Goto(t, "lookup", "user")
        /\ UNCHANGED file
  /\ UNCHANGED <<moduleVars, deviceVars, lock, node>>

EnterCall(t) ==
  /\ Goto(t, "user", "ioctl") \/ Goto(t, "user", "release")
  /\ file[t] # None
  /\ UNCHANGED <<moduleVars, deviceVars, lock, node, file>>

(* The three handlers use crdev->vq with the lock held. *)
UseDevice(t) ==
  /\ lock = None
  /\ lock' = t
  /\ Goto(t, "found", "call") \/ Goto(t, "ioctl", "call") \/ Goto(t, "release", "last")
  /\ UNCHANGED <<moduleVars, deviceVars, node, file>>

EndCall(t) ==
  /\ \/ Goto(t, "call", "user") /\ UNCHANGED file
     \/ Goto(t, "last", "user") /\ file' = [file EXCEPT ![t] = None]
  /\ lock' = None
  /\ UNCHANGED <<moduleVars, deviceVars, node>>

------------------------------------------------------------------------------
Unload == ChrdevDestroy \/ UnregisterDriver

Module == ChrdevInit \/ InitList \/ RegisterDriver \/ Rmmod \/ Unload

Device(d) ==
  \/ Plug(d)
  \/ ProbeAlloc(d)
  \/ ProbeFindVq(d)
  \/ ProbeList(d)
  \/ RemoveUnlist(d)
  \/ RemoveFree(d)

Task(t) ==
  \/ Open(t)
  \/ Lookup(t)
  \/ EnterCall(t)
  \/ UseDevice(t)
  \/ EndCall(t)

Next ==
  /\ \/ Module
     \/ \E d \in Devices : Device(d)
     \/ \E t \in Tasks : Task(t)
  /\ UNCHANGED useVars

Spec == Init /\ [][Next]_vars

(* fini runs to its end, and so do probe, remove and the handlers.         *)
Fairness ==
  /\ WF_vars(Unload /\ UNCHANGED useVars)
  /\ \A d \in Devices :
       WF_vars(/\ \/ ProbeFindVq(d)
                  \/ ProbeList(d)
                  \/ RemoveFree(d)
                  \/ mod = "detach" /\ RemoveUnlist(d)
               /\ UNCHANGED useVars)
  /\ \A t \in Tasks :
       WF_vars((Lookup(t) \/ UseDevice(t) \/ EndCall(t)) /\ UNCHANGED useVars)

FairSpec == Spec /\ Fairness

------------------------------------------------------------------------------
(* Properties. *)

(* The list holds exactly the devices that are ready, once each, and no    *)
(* two of them have the same minor number, whatever probes and removes     *)
(* overlap: a node leads to one device.                                    *)
ListSound ==
  /\ {devs[k] : k \in DOMAIN devs} = {d \in Devices : dev[d] = "listed"}
  /\ \A k, l \in DOMAIN devs : k # l => minor[devs[k]] # minor[devs[l]]

(* The device of an open file is there, in use or not, as long as none is  *)
(* unplugged: rmmod, the only other reason to remove it, waits for the     *)
(* file to be closed.  And the list that open walks is one, unless a node  *)
(* is opened while init runs.                                              *)
DeviceAlive ==
  \A t \in Tasks :
    /\ file[t] # None /\ ~hotUnplug => dev[file[t]] = "listed"
    /\ pc[t] = "oops" => earlyOpen

(* When the module is gone nothing of it is in use or registered: no node  *)
(* can be opened, the virtio core knows no device of the driver, and no    *)
(* task is in a handler or has an open file, unless it came while init ran *)
(* and init failed.                                                        *)
NothingBehind ==
  mod = "gone" =>
    /\ ~cdev
    /\ Bound = {}
    /\ devs = <<>>
    /\ \A t \in Tasks : file[t] = None /\ (pc[t] = "user" \/ earlyOpen)

(* Once rmmod has found no user the module goes, also when devices are     *)
(* being probed at that moment.                                            *)
UnloadEnds == mod = "going" ~> mod = "gone"

==============================================================================
