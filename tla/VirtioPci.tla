------------------------------ MODULE VirtioPci ------------------------------
(***************************************************************************)
(* virtio-pci.c: the transport between the guest's driver of a virtio      *)
(* device and whoever serves its queues.  The guest writes registers and   *)
(* PCI configuration, the machine is stopped, migrated, continued and      *)
(* reset; through all of that kicks and interrupts must come through.      *)
(*                                                                         *)
(* The crypto device is served by QEMU itself.  Another device of this     *)
(* file, such as vhost-scsi-pci, has a backend in the kernel that takes    *)
(* the notifiers of all queues over when the driver is ready (DRIVER_OK)   *)
(* and the machine runs, as vhost_scsi_set_status does: external.          *)
(***************************************************************************)
EXTENDS HostNotifiers, GuestNotifiers

VARIABLES
  vhost,      \* the device has a vhost backend
  status,     \* vdev->status: "reset" (0), "setup" (no DRIVER_OK) or "ok"
  busMaster,  \* PCI_COMMAND_MASTER in the configuration space
  busBug,     \* VIRTIO_PCI_FLAG_BUS_MASTER_BUG
  running     \* the virtual machine runs

pciVars == <<vhost, status, busMaster, busBug, running>>
vars == <<todo, hostVars, guestVars, pciVars>>

TypeOK ==
  /\ HostTypeOK
  /\ GuestTypeOK
  /\ status \in {"reset", "setup", "ok"}
  /\ {vhost, busMaster, busBug, running} \subseteq BOOLEAN

(* The masking of guest notifiers is vhost's. *)
Init ==
  /\ todo = <<>>
  /\ HostInit
  /\ GuestInit
  /\ vhost \in BOOLEAN
  /\ canMask => vhost
  /\ status = "reset"
  /\ busMaster = FALSE /\ busBug = FALSE
  /\ running = TRUE

------------------------------------------------------------------------------
(* Steps of the handlers below. *)

(* virtio_set_status: the device is told, and a vhost backend starts, by    *)
(* taking the notifiers, or stops.                                          *)
SetStatus ==
  /\ At("set_status")
  /\ status' = Index
  /\ LET ready == Index = "ok" /\ running IN
     Then(IF vhost /\ ready /\ ~active THEN <<Step("take", 1)>>
          ELSE IF active /\ ~ready THEN <<Step("backend_stop", 0)>>
          ELSE <<>>)
  /\ UNCHANGED <<hostVars, guestVars, vhost, busMaster, busBug, running>>

BackendStart ==
  /\ At("backend_start")
  /\ active' = TRUE
  /\ Then(<<>>)
  /\ UNCHANGED <<useIoeventfd, disabled, started, hn, trapped, work, guestVars, pciVars>>

(* What the masked notifiers hold when it stops, vhost throws away: nothing *)
(* looks at them first, as virtio_pci_vector_poll would.                    *)
OnlyMasked(q) == gn[q].masked /\ ~(HasVector(q) /\ vec[gn[q].vector].pending)

BackendStop ==
  /\ At("backend_stop")
  /\ active' = FALSE
  /\ gn' = [q \in Queues |-> [gn[q] EXCEPT !.masked = FALSE,
                                  !.due = IF @ = "yes" /\ OnlyMasked(q) THEN "lost" ELSE @]]
  /\ Then(UnsetGuestNotifiers \o <<Step("give", NQueues)>>)
  /\ UNCHANGED <<useIoeventfd, disabled, started, hn, trapped, work,
                 intr, canMask, vec, irqfds, notifiers, pciVars>>

(* virtio_reset and msix_unuse_all_vectors *)
ResetDevice == <<Step("set_status", "reset"), Step("clear", 0)>>

Clear ==
  /\ At("clear")
  /\ work' = {}
  /\ gn' = [q \in Queues |-> [gn[q] EXCEPT !.vector = NoVector, !.due = "no"]]
  /\ vec' = [v \in Vectors |-> [vec[v] EXCEPT !.used = 0, !.pending = FALSE]]
  /\ Then(<<>>)
  /\ UNCHANGED <<useIoeventfd, disabled, started, hn, active, trapped,
                 intr, canMask, irqfds, notifiers, pciVars>>

Call ==
  \/ SetStatus \/ BackendStart \/ BackendStop \/ Clear
  \/ (Ioeventfd \/ SetHostNotifier \/ SetHostNotifierInternal)
     /\ UNCHANGED <<guestVars, pciVars>>
  \/ (SetGuestNotifiers \/ Unmasking) /\ UNCHANGED <<hostVars, pciVars>>

------------------------------------------------------------------------------
(* The guest writes the device's registers (virtio_ioport_write) ... *)

(* "Linux before 2.6.34 sets the device as OK without enabling the PCI      *)
(* device bus master bit."  Nothing before the check reads the flag.        *)
CheckMaster == busBug' = (busBug \/ ~busMaster)

(* Variant: the device is reset without stopping ioeventfd. *)
WriteStatusKeepsIoeventfd(s) ==
  /\ running
  /\ IF s = "ok" THEN CheckMaster ELSE UNCHANGED busBug
  /\ Enter(CASE s = "ok"    -> <<Step("set_status", s), Step("start", 0)>>
             [] s = "setup" -> <<Step("set_status", s)>>
             [] s = "reset" -> <<Step("set_status", s)>> \o ResetDevice)
  /\ UNCHANGED <<hostVars, guestVars, vhost, status, busMaster, running>>

WriteStatus(s) ==
  /\ running
  /\ IF s = "ok" THEN CheckMaster ELSE UNCHANGED busBug
  /\ Enter(CASE s = "ok"    -> <<Step("set_status", s), Step("start", 0)>>
             [] s = "setup" -> StopSteps \o <<Step("set_status", s)>>
             [] s = "reset" -> StopSteps \o <<Step("set_status", s)>> \o ResetDevice)
  /\ UNCHANGED <<hostVars, guestVars, vhost, status, busMaster, running>>

(* case VIRTIO_PCI_QUEUE_PFN: a queue's address 0 resets the whole device.  *)
WriteNoPfn ==
  /\ running
  /\ Enter(StopSteps \o ResetDevice)
  /\ UNCHANGED <<hostVars, guestVars, pciVars>>

Unuse(w, v) ==
  IF v = NoVector THEN w
  ELSE [w EXCEPT ![v].used = @ - 1, ![v].pending = @ /\ w[v].used > 1]

Use(w, v) == IF v = NoVector THEN w ELSE [w EXCEPT ![v].used = @ + 1]

(* Variant: the old vector stays in use. *)
WriteQueueVectorKeepsOld(q, v) ==
  /\ Idle /\ running /\ status = "setup" /\ intr # "intx"
  /\ v # gn[q].vector
  /\ gn' = [gn EXCEPT ![q].vector = v, ![q].due = "no"]
  /\ vec' = Use(vec, v)
  /\ UNCHANGED <<todo, hostVars, intr, canMask, irqfds, notifiers, pciVars>>

(* case VIRTIO_MSI_QUEUE_VECTOR; drivers write it before they set DRIVER_OK. *)
WriteQueueVector(q, v) ==
  /\ Idle /\ running /\ status = "setup" /\ intr # "intx"
  /\ v # gn[q].vector
  /\ gn' = [gn EXCEPT ![q].vector = v, ![q].due = "no"]
  /\ vec' = Use(Unuse(vec, gn[q].vector), v)
  /\ UNCHANGED <<todo, hostVars, intr, canMask, irqfds, notifiers, pciVars>>

(* ... or PCI_COMMAND (virtio_write_config). *)

EnableMaster ==
  /\ Idle /\ running /\ ~busMaster
  /\ busMaster' = TRUE
  /\ UNCHANGED <<todo, hostVars, guestVars, vhost, status, busBug, running>>

(* Any write that leaves bus mastering off. *)
DisableMaster ==
  /\ running
  /\ busMaster' = FALSE
  /\ Enter(IF busBug THEN <<>>
           ELSE StopSteps
                \o <<Step("set_status", IF status = "ok" THEN "setup" ELSE status)>>)
  /\ UNCHANGED <<hostVars, guestVars, vhost, status, busBug, running>>

------------------------------------------------------------------------------
(* The machine (virtio_pci_vmstate_change, which QEMU's virtio.c calls with *)
(* running only when the driver is ready, and before it tells the device    *)
(* that the machine stops but after it that the machine runs).              *)

StopMachine ==
  /\ running /\ trapped = {}
  /\ running' = FALSE
  /\ Enter(StopSteps \o <<Step("set_status", status)>>)
  /\ UNCHANGED <<hostVars, guestVars, vhost, status, busMaster, busBug>>

(* Variant: a guest that has not enabled bus mastering is not looked for. *)
ContinueMachineUnchecked ==
  /\ ~running
  /\ running' = TRUE
  /\ Enter(<<Step("set_status", status)>>
           \o (IF status = "ok" THEN <<Step("start", 0)>> ELSE <<>>))
  /\ UNCHANGED <<hostVars, guestVars, vhost, status, busMaster, busBug>>

ContinueMachine ==
  /\ ~running
  /\ running' = TRUE
  /\ IF status = "ok" THEN CheckMaster ELSE UNCHANGED busBug
  /\ Enter(<<Step("set_status", status)>>
           \o (IF status = "ok" THEN <<Step("start", 0)>> ELSE <<>>))
  /\ UNCHANGED <<hostVars, guestVars, vhost, status, busMaster>>

(* Another QEMU loads what this one has saved, in virtio_pci_load_config and *)
(* then virtio_pci_load_queue of each queue: a new proxy, whose vectors are  *)
(* used anew, with the mask and pending bits of msix_load.                   *)
Migrate ==
  /\ Idle /\ ~running
  /\ disabled' = FALSE /\ busBug' = FALSE /\ irqfds' = FALSE
  /\ vec' = [v \in Vectors |-> [vec[v] EXCEPT !.used = Cardinality(Sharing(v)), !.users = 0]]
  /\ UNCHANGED <<todo, useIoeventfd, started, hn, active, trapped, work,
                 intr, canMask, gn, notifiers, vhost, status, busMaster, running>>

(* virtio_pci_reset, after the PCI bus has cleared PCI_COMMAND *)
ResetMachine ==
  /\ trapped = {}
  /\ busMaster' = FALSE
  /\ busBug' = FALSE
  /\ Enter(StopSteps \o ResetDevice)
  /\ UNCHANGED <<hostVars, guestVars, vhost, status, running>>

------------------------------------------------------------------------------
Guest ==
  \/ \E s \in {"reset", "setup", "ok"} : WriteStatus(s)
  \/ WriteNoPfn
  \/ \E q \in Queues, v \in Vectors \cup {NoVector} : WriteQueueVector(q, v)
  \/ EnableMaster
  \/ DisableMaster
  \/ \E v \in Vectors :
       /\ running /\ intr # "intx"
       /\ MaskVector(v) \/ UnmaskVector(v)
       /\ UNCHANGED <<hostVars, pciVars>>
  \/ running /\ PollVectors /\ UNCHANGED <<hostVars, pciVars>>

Machine == StopMachine \/ ContinueMachine \/ Migrate \/ ResetMachine

Kicks ==
  \E q \in Queues :
    \/ /\ running /\ status # "reset" /\ Kick(q)
       /\ UNCHANGED <<guestVars, pciVars>>
    \/ /\ NotifyTrapped(q) \/ MainLoopReads(q) \/ BackendReads(q)
       /\ UNCHANGED <<guestVars, pciVars>>

Interrupts ==
  \E q \in Queues :
    \/ /\ running /\ ~active /\ status # "reset" /\ DeviceNotifies(q)
       /\ UNCHANGED <<hostVars, pciVars>>
    \/ /\ active /\ BackendSignals(q)
       /\ UNCHANGED <<hostVars, pciVars>>
    \/ /\ GuestNotifierRead(q)
       /\ UNCHANGED <<hostVars, pciVars>>

Next == Call \/ Guest \/ Machine \/ Kicks \/ Interrupts

Spec == Init /\ [][Next]_vars

------------------------------------------------------------------------------
(* Properties. *)

(* No kick is lost, whatever the transport is doing: as long as a buffer    *)
(* that the guest has kicked for has not been looked at, a CPU waits to      *)
(* notify the queue or the queue's host notifier is set.                    *)
KickPending == \A q \in work : q \in trapped \/ hn[q].ev = "set"

(* Between two handlers the host notifiers are all QEMU's, all the vhost     *)
(* backend's or all closed, as started and active say: a notifier that could *)
(* not be opened leaves nothing of the others, two owners never share one,   *)
(* and an open notifier has a reader.                                       *)
Opened(q, handler) == hn[q].ev # "closed" /\ hn[q].fast /\ hn[q].handler = handler

HostAllOrNone ==
  Idle =>
    /\ ~(started /\ active)
    /\ \A q \in Queues : IF started THEN Opened(q, TRUE)
                         ELSE IF active THEN Opened(q, FALSE)
                         ELSE hn[q] = Closed

(* A notifier is opened only when it is closed: virtio_pci_set_host_notifier *)
(* stops ioeventfd first, "to avoid stepping on each others' toes".          *)
OpensClosed ==
  /\ At("assign") \/ At("open") => hn[Index].ev = "closed"
  /\ At("set_guest") => gn[Index].ev = "closed"

(* Nobody serves the queues outside a handler's view of the driver: only     *)
(* while it is ready, on a machine that runs.                               *)
ServedWhenReady == Idle /\ (started \/ active) => status = "ok" /\ running

(* A guest that is ready without ever having enabled bus mastering is known *)
(* for it, also after a migration, which does not carry the flag; so a later *)
(* write of PCI_COMMAND will not stop its device.                           *)
BuggyGuestKnown == Idle /\ running /\ status = "ok" => busMaster \/ busBug

(* Between two handlers the guest notifiers, irqfds and routes are those of  *)
(* a running backend or all gone, at whatever point the set-up failed, and   *)
(* msix counts the users of each vector right.                              *)
RouteUsers(v) == IF active /\ intr = "irqfd" THEN Cardinality(Sharing(v)) ELSE 0

HasIrqfd(q) == active /\ intr = "irqfd" /\ HasVector(q) /\ (canMask \/ Unmasked(q))

GuestAllOrNone ==
  Idle =>
    /\ \A q \in Queues :
         /\ gn[q].ev # "closed" <=> active
         /\ gn[q].handler <=> active /\ intr # "irqfd"
         /\ gn[q].irqfd <=> HasIrqfd(q)
         /\ canMask => (gn[q].onMasked <=> ~(active /\ (intr = "intx" \/ Unmasked(q))))
    /\ \A v \in Vectors : /\ vec[v].users = RouteUsers(v)
                          /\ vec[v].used = Cardinality(Sharing(v))

(* The assertion of kvm_virtio_pci_irqfd_release: an irqfd is only removed   *)
(* from a queue that has it, by a backend that stops, a set-up that is       *)
(* undone or a guest that masks a vector.                                   *)
ReleasesHeld ==
  /\ At("vector_release") \/ At("undo") =>
       (HasVector(Index) =>
          /\ vec[gn[Index].vector].users > 0
          /\ canMask => gn[Index].irqfd)
  /\ At("unset_vector_notifiers") \/ Idle =>
       (notifiers /\ ~canMask => \A q \in Queues : Unmasked(q) => gn[q].irqfd)

(* What the steps rely on and the code asserts or takes for granted, in     *)
(* every order of set-up, failure, masking and taking down.                *)
StepsAllowed == OpensClosed /\ ReleasesHeld

(* No interrupt is lost but in one way: a queue that was signalled and of    *)
(* which the guest has not heard since has an eventfd set that somebody      *)
(* reads, or its vector is masked and the signal is kept where unmasking     *)
(* looks for it, or the backend has stopped (the machine was stopped or      *)
(* migrated, the driver is no longer ready) while only the masked notifier   *)
(* of the queue held the signal: virtio_pci_set_guest_notifiers takes the    *)
(* vector notifiers away without a poll, and nobody looks there any more.    *)
Kept(q) ==
  \/ gn[q].ev = "set" /\ gn[q].handler
  \/ /\ gn[q].vector # NoVector
     /\ vec[gn[q].vector].masked
     /\ \/ vec[gn[q].vector].pending
        \/ IF canMask THEN gn[q].masked ELSE gn[q].ev = "set"

InterruptKept ==
  Idle => \A q \in Queues : gn[q].due # "no" => Kept(q) \/ gn[q].due = "lost"
==============================================================================
