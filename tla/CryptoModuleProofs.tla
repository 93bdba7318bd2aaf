------------------------- MODULE CryptoModuleProofs -------------------------
(***************************************************************************)
(* Proofs about CryptoModule for any number of tasks, devices and device   *)
(* nodes.                                                                  *)
(***************************************************************************)
EXTENDS CryptoModule, FiniteSetTheorems, SequenceTheorems, TLAPS

(* Minor numbers are given out in order, to the devices that were ever     *)
(* listed.                                                                 *)
Numbered == {d \in Devices : dev[d] \in {"listed", "unlisted", "freed"}}

MinorsCounted ==
  /\ nextMinor = Cardinality(Numbered)
  /\ \A d \in Numbered : minor[d] < nextMinor

(* How far init and fini are, what they have set up and what devices there *)
(* can be: none before the driver is registered, none bound after it.      *)
Loading == {"start", "cdev", "ready", "undo"}

ModuleInOrder ==
  /\ cdev => mod \in {"cdev", "ready", "undo", "live", "going"}
  /\ mod \in {"ready", "undo", "live", "going", "detach"} => listReady
  /\ mod \in Loading => \A d \in Devices : dev[d] \in {"absent", "present"}
  /\ mod = "gone" => Bound = {}

(* Where tasks can be meanwhile.  When rmmod goes on nobody uses the module *)
(* and nobody comes any more.                                              *)
TasksInOrder ==
  \A t \in Tasks :
    /\ mod # "live" /\ pc[t] # "user" => earlyOpen /\ mod \in {"cdev", "ready", "undo", "gone"}
    /\ mod # "live" => file[t] = None
    /\ pc[t] = "lookup" /\ ~listReady => earlyOpen

(* The inductive invariant. *)
ModuleInv ==
  TypeOK /\ ListSound /\ MinorsCounted /\ ModuleInOrder /\ TasksInOrder /\ DeviceAlive

------------------------------------------------------------------------------
(* list_add_tail *)
LEMMA AppendItems ==
  ASSUME NEW S, NEW s \in Seq(S), NEW x \in S
  PROVE  /\ Append(s, x) \in Seq(S)
         /\ DOMAIN Append(s, x) = 1 .. Len(s) + 1
         /\ \A i \in 1 .. Len(s) : Append(s, x)[i] = s[i]
         /\ Append(s, x)[Len(s) + 1] = x
OBVIOUS

(* list_del: the other items keep their order. *)
LEMMA RemoveItems ==
  ASSUME NEW S, NEW s \in Seq(S), NEW k \in DOMAIN s
  PROVE  /\ RemoveAt(s, k) \in Seq(S)
         /\ DOMAIN RemoveAt(s, k) = 1 .. Len(s) - 1
         /\ \A i \in 1 .. Len(s) - 1 :
              RemoveAt(s, k)[i] = IF i < k THEN s[i] ELSE s[i + 1]
<1> DEFINE left  == SubSeq(s, 1, k - 1)
           right == SubSeq(s, k + 1, Len(s))
<1>1. /\ left \in Seq(S) /\ Len(left) = k - 1
      /\ \A i \in 1 .. k - 1 : left[i] = s[i]
  OBVIOUS
<1>2. /\ right \in Seq(S) /\ Len(right) = Len(s) - k
      /\ \A i \in 1 .. Len(s) - k : right[i] = s[i + k]
  OBVIOUS
<1>3. RemoveAt(s, k) = left \o right
  BY DEF RemoveAt
<1> HIDE DEF left, right
<1>4. QED
  BY <1>1, <1>2, <1>3

------------------------------------------------------------------------------
(* No device is numbered at first. *)
LEMMA InitModuleInv == Init => ModuleInv
<1> SUFFICES ASSUME Init PROVE ModuleInv
  OBVIOUS
<1> USE PlugAssumption, ModuleTasksAssumption DEF Init
<1>1. TypeOK
  <2>1. mod \in Modes /\ 0 \in 0 .. MaxPlugs /\ 0 \in 0 .. NrDevices - 1
    BY DEF Modes
  <2>2. devs \in Seq(Devices)
    OBVIOUS
  <2>3. /\ dev \in [Devices -> DevStates]
        /\ minor \in [Devices -> 0 .. MaxPlugs]
    BY <2>1 DEF DevStates
  <2>4. QED
    BY <2>1, <2>2, <2>3 DEF TypeOK
<1>2. MinorsCounted
  <2>1. Numbered = {}
    BY DEF Numbered
  <2>2. QED
    BY <2>1, FS_EmptySet DEF MinorsCounted
<1>3. ListSound /\ ModuleInOrder /\ TasksInOrder /\ DeviceAlive
  BY DEF ListSound, ModuleInOrder, TasksInOrder, DeviceAlive, Bound, Loading
<1>4. QED
  BY <1>1, <1>2, <1>3 DEF ModuleInv

(* What the invariant says of the list and the devices. *)
DevicesInv ==
  /\ devs \in Seq(Devices)
  /\ nextMinor \in 0 .. MaxPlugs
  /\ dev \in [Devices -> DevStates]
  /\ minor \in [Devices -> 0 .. MaxPlugs]
  /\ ListSound
  /\ MinorsCounted

(* What keeps devices, list and numbers keeps their invariant. *)
LEMMA DevicesInvUnchanged ==
  ASSUME DevicesInv, UNCHANGED deviceVars
  PROVE  DevicesInv'
BY DEF DevicesInv, deviceVars, ListSound, MinorsCounted, Numbered

(* A device that neither was nor becomes listed, and keeps its number if it *)
(* has one.                                                                *)
LEMMA DevicesInvKept ==
  ASSUME DevicesInv, UNCHANGED <<devs, nextMinor, minor>>,
         NEW d \in Devices, NEW from, NEW to \in DevStates, Become(d, from, to),
         from # "listed", to # "listed",
         from \in {"unlisted", "freed"} <=> to \in {"unlisted", "freed"}
  PROVE  DevicesInv'
<1>1. dev' \in [Devices -> DevStates]
  BY DEF DevicesInv, Become
<1>2. Numbered' = Numbered
  BY DEF DevicesInv, Become, Numbered
<1>3. {e \in Devices : dev'[e] = "listed"} = {e \in Devices : dev[e] = "listed"}
  BY DEF DevicesInv, Become
<1>4. QED
  BY <1>1, <1>2, <1>3 DEF DevicesInv, ListSound, MinorsCounted

(* A device gets the next number, one that no other device has, and there   *)
(* is one left: it counts the devices that were listed before.             *)
LEMMA ProbeListKeepsDevices ==
  ASSUME DevicesInv, NEW d \in Devices, ProbeList(d)
  PROVE  DevicesInv'
<1> USE PlugAssumption
<1>1. dev[d] = "vq" /\ d \notin Numbered
  BY DEF ProbeList, Become, Numbered
<1>2. dev' = [dev EXCEPT ![d] = "listed"] /\ Numbered' = Numbered \cup {d}
  BY DEF ProbeList, Become, Numbered, DevicesInv
<1>3. IsFiniteSet(Devices) /\ Cardinality(Devices) = MaxPlugs
  BY FS_Interval DEF Devices
<1>4. IsFiniteSet(Numbered) /\ Cardinality(Numbered) \in Nat
  BY <1>3, FS_Subset, FS_CardinalityType DEF Numbered
<1>5. Cardinality(Numbered') = Cardinality(Numbered) + 1
  BY <1>1, <1>2, <1>4, FS_AddElement
<1>6. Cardinality(Numbered') <= MaxPlugs
  <2>1. Numbered' \in SUBSET Devices
    BY <1>2 DEF Numbered
  <2>2. QED
    BY <1>3, <2>1, FS_Subset
<1>7. nextMinor' = nextMinor + 1 /\ nextMinor' = Cardinality(Numbered') /\ nextMinor' \in 0 .. MaxPlugs
  BY <1>4, <1>5, <1>6 DEF ProbeList, DevicesInv, MinorsCounted
<1>8. minor' = [minor EXCEPT ![d] = nextMinor] /\ minor' \in [Devices -> 0 .. MaxPlugs]
  BY DEF ProbeList, DevicesInv
<1>9. MinorsCounted'
  BY <1>2, <1>7, <1>8 DEF MinorsCounted, DevicesInv, Numbered
<1>10. /\ devs' \in Seq(Devices)
       /\ DOMAIN devs' = 1 .. Len(devs) + 1
       /\ \A i \in 1 .. Len(devs) : devs'[i] = devs[i]
       /\ devs'[Len(devs) + 1] = d
       /\ DOMAIN devs = 1 .. Len(devs) /\ Len(devs) \in Nat
  BY AppendItems DEF ProbeList, DevicesInv
<1>11. \A i \in 1 .. Len(devs) : devs[i] # d /\ devs[i] \in Numbered
  BY <1>1, <1>10, Zenon DEF DevicesInv, ListSound, Numbered
<1>12. ListSound'
  <2>1. {devs'[k] : k \in DOMAIN devs'} = {devs[k] : k \in DOMAIN devs} \cup {d}
    BY <1>10
  <2>2. {e \in Devices : dev'[e] = "listed"} = {e \in Devices : dev[e] = "listed"} \cup {d}
    BY <1>2 DEF DevicesInv
  <2>3. \A k \in 1 .. Len(devs) : minor'[devs'[k]] = minor[devs[k]] /\ minor[devs[k]] < nextMinor
    BY <1>8, <1>10, <1>11 DEF DevicesInv, MinorsCounted, Numbered
  <2>4. minor'[devs'[Len(devs) + 1]] = nextMinor
    BY <1>8, <1>10 DEF DevicesInv
  <2>5. \A k, l \in DOMAIN devs' : k # l => minor'[devs'[k]] # minor'[devs'[l]]
    <3> SUFFICES ASSUME NEW k \in DOMAIN devs', NEW l \in DOMAIN devs', k # l
                 PROVE  minor'[devs'[k]] # minor'[devs'[l]]
      OBVIOUS
    <3>1. CASE k \in 1 .. Len(devs) /\ l \in 1 .. Len(devs)
      BY <1>10, <2>3, <3>1, SMTT(30) DEF DevicesInv, ListSound
    <3>2. CASE k = Len(devs) + 1 \/ l = Len(devs) + 1
      <4>1. nextMinor \in Int /\ \A i \in 1 .. Len(devs) : minor[devs[i]] \in Int
        BY <1>10 DEF DevicesInv
      <4>2. QED
        BY <1>10, <2>3, <2>4, <3>2, <4>1
    <3>3. QED
      BY <1>10, <3>1, <3>2
  <2>6. QED
    BY <2>1, <2>2, <2>5 DEF DevicesInv, ListSound
<1>13. dev' \in [Devices -> DevStates]
  BY <1>2 DEF DevicesInv, DevStates
<1>14. QED
  BY <1>7, <1>8, <1>9, <1>10, <1>12, <1>13 DEF DevicesInv

(* list_del takes this device off the list, wherever it is, and no other.   *)
LEMMA RemoveUnlistKeepsDevices ==
  ASSUME DevicesInv, NEW d \in Devices, RemoveUnlist(d)
  PROVE  DevicesInv'
<1>1. /\ dev[d] = "listed"
      /\ dev' = [dev EXCEPT ![d] = "unlisted"]
      /\ UNCHANGED <<nextMinor, minor>>
  BY DEF RemoveUnlist, Become
<1>2. PICK k \in DOMAIN devs : devs[k] = d /\ devs' = RemoveAt(devs, k)
  BY DEF RemoveUnlist, ListDel
<1>3. /\ devs' \in Seq(Devices)
      /\ DOMAIN devs' = 1 .. Len(devs) - 1
      /\ \A i \in 1 .. Len(devs) - 1 : devs'[i] = IF i < k THEN devs[i] ELSE devs[i + 1]
      /\ DOMAIN devs = 1 .. Len(devs) /\ Len(devs) \in Nat
  <2>1. devs \in Seq(Devices)
    BY DEF DevicesInv
  <2>2. DOMAIN devs = 1 .. Len(devs) /\ Len(devs) \in Nat
    BY <2>1
  <2>3. QED
    BY <1>2, <2>1, <2>2, RemoveItems, Zenon
<1>4. \A i, j \in DOMAIN devs : i # j => devs[i] # devs[j]
  BY DEF DevicesInv, ListSound
<1>5. Numbered' = Numbered /\ MinorsCounted'
  BY <1>1 DEF DevicesInv, MinorsCounted, Numbered
<1>6. ListSound'
  <2> DEFINE after  == {devs'[i] : i \in DOMAIN devs'}
             before == {devs[i] : i \in DOMAIN devs}
  <2>1. after = before \ {d}
    <3>1. ASSUME NEW i \in DOMAIN devs'
          PROVE  \E j \in DOMAIN devs \ {k} : devs'[i] = devs[j]
      BY <1>2, <1>3
    <3>2. ASSUME NEW j \in DOMAIN devs \ {k}
          PROVE  \E i \in DOMAIN devs' : devs'[i] = devs[j]
      <4>1. CASE j < k
        <5>1. j \in DOMAIN devs' /\ devs'[j] = devs[j]
          BY <1>2, <1>3, <4>1
        <5>2. QED
          BY <5>1
      <4>2. CASE j > k
        <5>1. j - 1 \in DOMAIN devs' /\ devs'[j - 1] = devs[j]
          BY <1>2, <1>3, <4>2
        <5>2. QED
          BY <5>1
      <4>3. QED
        BY <1>2, <1>3, <4>1, <4>2
    <3>3. \A j \in DOMAIN devs : devs[j] = d <=> j = k
      BY <1>2, <1>4
    <3>4. after \subseteq before \ {d}
      BY <3>1, <3>3
    <3>5. before \ {d} \subseteq after
      BY <3>2, <3>3
    <3> HIDE DEF after, before
    <3>6. QED
      BY <3>4, <3>5
  <2>2. {e \in Devices : dev'[e] = "listed"} = {e \in Devices : dev[e] = "listed"} \ {d}
    BY <1>1 DEF DevicesInv
  <2>3. \A i, j \in DOMAIN devs' : i # j => minor[devs'[i]] # minor[devs'[j]]
    <3> DEFINE from(i) == IF i < k THEN i ELSE i + 1
    <3>1. \A i \in DOMAIN devs' : from(i) \in DOMAIN devs /\ devs'[i] = devs[from(i)]
      BY <1>2, <1>3
    <3>2. \A i, j \in DOMAIN devs' : i # j => from(i) # from(j)
      BY <1>2, <1>3
    <3>3. \A i, j \in DOMAIN devs : i # j => minor[devs[i]] # minor[devs[j]]
      BY DEF DevicesInv, ListSound
    <3> HIDE DEF from
    <3>4. QED
      BY <3>1, <3>2, <3>3
  <2>4. QED
    BY <1>1, <2>1, <2>2, <2>3 DEF DevicesInv, ListSound
<1>7. QED
  BY <1>1, <1>3, <1>5, <1>6 DEF DevicesInv, DevStates

------------------------------------------------------------------------------
(* init and fini: rmmod waits for the users, unregistering for the devices. *)
LEMMA ModuleKeepsInv ==
  ASSUME ModuleInv, Module, UNCHANGED useVars
  PROVE  ModuleInv'
<1>1. DevicesInv /\ UNCHANGED <<deviceVars, taskVars, useVars>>
  BY DEF Module, ChrdevInit, InitList, RegisterDriver, Rmmod, Unload, ChrdevDestroy,
         UnregisterDriver, ModuleInv, TypeOK, DevicesInv
<1>2. DevicesInv'
  BY <1>1, DevicesInvUnchanged
<1>3. TypeOK'
  BY <1>1 DEF Module, ChrdevInit, InitList, RegisterDriver, Rmmod, Unload, ChrdevDestroy,
         UnregisterDriver, ModuleInv, TypeOK, Mode, Modes, deviceVars, taskVars, useVars
<1>4. ModuleInOrder'
  BY <1>1 DEF Module, ChrdevInit, InitList, RegisterDriver, Rmmod, Unload, ChrdevDestroy,
         UnregisterDriver, ModuleInv, ModuleInOrder, Loading, Bound, Mode, deviceVars
<1>5. TasksInOrder'
  BY <1>1 DEF Module, ChrdevInit, InitList, RegisterDriver, Rmmod, Unload, ChrdevDestroy,
         UnregisterDriver, ModuleInv, TasksInOrder, Mode, taskVars, useVars
<1>6. DeviceAlive'
  BY <1>1 DEF ModuleInv, DeviceAlive, deviceVars, taskVars, useVars
<1>7. QED
  BY <1>2, <1>3, <1>4, <1>5, <1>6 DEF ModuleInv, DevicesInv

(* probe and remove. *)
LEMMA DeviceKeepsInv ==
  ASSUME ModuleInv, NEW d \in Devices, Device(d), UNCHANGED useVars
  PROVE  ModuleInv'
<1>1. /\ DevicesInv
      /\ UNCHANGED <<mod, cdev, listReady, lock, pc, node, file, hotUnplug, earlyOpen>>
  BY DEF Device, Plug, ProbeAlloc, ProbeFindVq, ProbeList, RemoveUnlist, RemoveFree,
         ModuleInv, TypeOK, DevicesInv, moduleVars, taskVars, useVars
<1>2. DevicesInv'
  <2>1. CASE Plug(d)
    BY <1>1, <2>1, DevicesInvKept DEF Plug, DevStates
  <2>2. CASE ProbeAlloc(d)
    BY <1>1, <2>2, DevicesInvKept DEF ProbeAlloc, DevStates
  <2>3. CASE ProbeFindVq(d)
    BY <1>1, <2>3, DevicesInvKept DEF ProbeFindVq, DevStates
  <2>4. CASE RemoveFree(d)
    BY <1>1, <2>4, DevicesInvKept DEF RemoveFree, DevStates
  <2>5. QED
    BY <1>1, <2>1, <2>2, <2>3, <2>4, ProbeListKeepsDevices, RemoveUnlistKeepsDevices
       DEF Device
<1>3. TypeOK'
  BY <1>1, <1>2 DEF ModuleInv, TypeOK, DevicesInv
<1>4. ModuleInOrder'
  BY <1>1 DEF Device, Plug, ProbeAlloc, ProbeFindVq, ProbeList, RemoveUnlist, RemoveFree,
              Become, ModuleInv, TypeOK, ModuleInOrder, Loading, Bound
<1>5. TasksInOrder'
  BY <1>1 DEF ModuleInv, TasksInOrder
<1>6. DeviceAlive'
  <2> SUFFICES ASSUME NEW t \in Tasks, file[t] # None, ~hotUnplug
               PROVE  dev'[file[t]] = "listed"
    BY <1>1 DEF DeviceAlive, ModuleInv
  <2>1. file[t] \in Devices /\ dev[file[t]] = "listed" /\ mod = "live"
    BY DEF ModuleInv, TypeOK, DeviceAlive, TasksInOrder
  <2>2. QED
    BY <2>1 DEF Device, Plug, ProbeAlloc, ProbeFindVq, ProbeList, RemoveUnlist, RemoveFree,
                Become, ModuleInv, TypeOK
<1>7. QED
  BY <1>2, <1>3, <1>4, <1>5, <1>6 DEF ModuleInv, DevicesInv

(* The handlers of the device nodes. *)
LEMMA TaskKeepsInv ==
  ASSUME ModuleInv, NEW t \in Tasks, Task(t), UNCHANGED useVars
  PROVE  ModuleInv'
<1>1. DevicesInv /\ UNCHANGED <<moduleVars, deviceVars, useVars>>
  BY DEF Task, Open, Lookup, EnterCall, UseDevice, EndCall, ModuleInv, TypeOK, DevicesInv
<1>2. DevicesInv'
  BY <1>1, DevicesInvUnchanged
<1>3. ModuleInOrder'
  BY <1>1 DEF ModuleInv, ModuleInOrder, Bound, moduleVars, deviceVars
<1>4. TypeOK'
  <2>1. CASE Lookup(t)
    <3>1. file' \in [Tasks -> Devices \cup {None}]
      BY <2>1 DEF Lookup, WithMinor, ModuleInv, TypeOK
    <3>2. pc' \in [Tasks -> {"user", "lookup", "oops", "found", "ioctl", "release", "call", "last"}]
      BY <2>1 DEF Lookup, Goto, ModuleInv, TypeOK
    <3>3. UNCHANGED <<lock, node>>
      BY <2>1 DEF Lookup
    <3>4. QED
      BY <1>1, <3>1, <3>2, <3>3 DEF ModuleInv, TypeOK, moduleVars, deviceVars, useVars
  <2>2. CASE Open(t) \/ EnterCall(t) \/ UseDevice(t) \/ EndCall(t)
    <3>1. pc' \in [Tasks -> {"user", "lookup", "oops", "found", "ioctl", "release", "call", "last"}]
      BY <2>2 DEF Open, EnterCall, UseDevice, EndCall, Goto, ModuleInv, TypeOK
    <3>2. /\ lock' \in Tasks \cup {None}
          /\ node' \in [Tasks -> 0 .. NrDevices - 1]
          /\ file' \in [Tasks -> Devices \cup {None}]
      BY <2>2 DEF Open, EnterCall, UseDevice, EndCall, ModuleInv, TypeOK
    <3>3. QED
      BY <1>1, <3>1, <3>2 DEF ModuleInv, TypeOK, moduleVars, deviceVars, useVars
  <2>3. QED
    BY <2>1, <2>2 DEF Task
<1>5. \A u \in Tasks \ {t} : pc'[u] = pc[u] /\ file'[u] = file[u]
  BY DEF Task, Open, Lookup, EnterCall, UseDevice, EndCall, Goto, ModuleInv, TypeOK
<1>6. file'[t] # None =>
        \/ file'[t] = file[t]
        \/ dev[file'[t]] = "listed" /\ mod \notin Loading \cup {"gone"}
  <2>1. \A d \in WithMinor(node[t]) : dev[d] = "listed" /\ mod \notin Loading \cup {"gone"}
    <3>1. \A d \in WithMinor(node[t]) : d \in Devices /\ dev[d] = "listed"
      BY DEF ModuleInv, ListSound, WithMinor
    <3>2. \A d \in Devices : dev[d] = "listed" => mod \notin Loading \cup {"gone"}
      BY DEF ModuleInv, ModuleInOrder, Bound
    <3>3. QED
      BY <3>1, <3>2
  <2>2. file \in [Tasks -> Devices \cup {None}]
    BY DEF ModuleInv, TypeOK
  <2>3. CASE Lookup(t)
    BY <2>1, <2>2, <2>3 DEF Lookup
  <2>4. CASE Open(t) \/ EnterCall(t) \/ UseDevice(t) \/ EndCall(t)
    BY <2>2, <2>4 DEF Open, EnterCall, UseDevice, EndCall
  <2>5. QED
    BY <2>3, <2>4 DEF Task
<1>7. TasksInOrder'
  <2>1. /\ mod # "live" /\ pc'[t] # "user" =>
             earlyOpen /\ mod \in {"cdev", "ready", "undo", "gone"}
        /\ pc'[t] = "lookup" /\ ~listReady => earlyOpen
    BY DEF Task, Open, Lookup, EnterCall, UseDevice, EndCall, Goto, ModuleInv, ModuleInOrder,
           TypeOK, TasksInOrder
  <2>2. mod # "live" => file'[t] = None
    <3>1. mod # "live" /\ mod \notin Loading \cup {"gone"} => pc[t] = "user" /\ file[t] = None
      BY DEF ModuleInv, TasksInOrder, Loading
    <3>2. pc[t] = "user" => file'[t] = file[t]
      BY DEF Task, Open, Lookup, EnterCall, UseDevice, EndCall, Goto
    <3>3. QED
      BY <1>6, <3>1, <3>2 DEF ModuleInv, TasksInOrder
  <2>3. QED
    BY <1>1, <1>5, <2>1, <2>2 DEF ModuleInv, TasksInOrder, moduleVars, useVars
<1>8. DeviceAlive'
  <2>1. pc'[t] = "oops" => earlyOpen
    BY DEF Task, Open, Lookup, EnterCall, UseDevice, EndCall, Goto, ModuleInv, TypeOK,
           TasksInOrder, DeviceAlive
  <2>2. QED
    BY <1>1, <1>5, <1>6, <2>1 DEF ModuleInv, DeviceAlive, deviceVars, useVars
<1>9. QED
  BY <1>2, <1>3, <1>4, <1>7, <1>8 DEF ModuleInv, DevicesInv

(* Every step of module, driver core and tasks keeps the invariant. *)
LEMMA NextModuleInv == ModuleInv /\ [Next]_vars => ModuleInv'
<1> SUFFICES ASSUME ModuleInv, [Next]_vars PROVE ModuleInv'
  OBVIOUS
<1>1. CASE UNCHANGED vars
  BY <1>1 DEF vars, moduleVars, deviceVars, taskVars, useVars, ModuleInv, TypeOK, ListSound,
              MinorsCounted, Numbered, ModuleInOrder, Bound, TasksInOrder, DeviceAlive
<1>2. QED
  BY <1>1, ModuleKeepsInv, DeviceKeepsInv, TaskKeepsInv DEF Next

(* The lists, the numbers, the pointers of files and the registration stay sound. *)
LEMMA ModuleInvariance == Spec => []ModuleInv
BY InitModuleInv, NextModuleInv, PTL DEF Spec

------------------------------------------------------------------------------
(* Every variable keeps to its type; next_minor in particular counts the    *)
(* devices and never runs past them.                                       *)
THEOREM ModuleTypes == Spec => []TypeOK
<1>1. ModuleInv => TypeOK
  BY DEF ModuleInv
<1>2. QED
  BY ModuleInvariance, <1>1, PTL

(* The list has the devices that are ready, once each, and a minor number   *)
(* leads to one device at most, whatever probes and removes overlap.       *)
THEOREM ListStaysSound == Spec => []ListSound
<1>1. ModuleInv => ListSound
  BY DEF ModuleInv
<1>2. QED
  BY ModuleInvariance, <1>1, PTL

(* As long as no device is unplugged, an open file's device is there for    *)
(* every handler, through rmmod too; and open walks a list.                *)
THEOREM NoFileOutlivesDevice == Spec => []DeviceAlive
<1>1. ModuleInv => DeviceAlive
  BY DEF ModuleInv
<1>2. QED
  BY ModuleInvariance, <1>1, PTL

(* A module that is gone has left nothing registered and nobody inside.     *)
THEOREM CleanUnload == Spec => []NothingBehind
<1>1. ModuleInv => NothingBehind
  <2> SUFFICES ASSUME ModuleInv, mod = "gone"
               PROVE  /\ ~cdev
                      /\ Bound = {}
                      /\ devs = <<>>
                      /\ \A t \in Tasks : file[t] = None /\ (pc[t] = "user" \/ earlyOpen)
    BY DEF NothingBehind
  <2>1. ~cdev /\ Bound = {}
    BY DEF ModuleInv, ModuleInOrder
  <2>2. \A t \in Tasks : file[t] = None /\ (pc[t] = "user" \/ earlyOpen)
    BY DEF ModuleInv, TasksInOrder
  <2>3. devs = <<>>
    <3>1. devs \in Seq(Devices) /\ DOMAIN devs = {}
      BY <2>1 DEF ModuleInv, TypeOK, ListSound, Bound
    <3>2. QED
      BY <3>1
  <2>4. QED
    BY <2>1, <2>2, <2>3
<1>2. QED
  BY ModuleInvariance, <1>1, PTL
==============================================================================
