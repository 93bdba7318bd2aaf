---------------------------- MODULE HostNotifiers ----------------------------
(***************************************************************************)
(* The way of a kick from the guest to whoever serves the virtqueue.       *)
(*                                                                         *)
(* A write to VIRTIO_PCI_QUEUE_NOTIFY traps into QEMU, where it waits for  *)
(* the global lock, unless the queue's host notifier is registered with    *)
(* KVM (memory_region_add_eventfd), which then signals it and lets the CPU *)
(* run on.  The notifier is read by QEMU's main loop when ioeventfd is     *)
(* started, or by a backend in the kernel (vhost) that has taken it over.  *)
(***************************************************************************)
EXTENDS ProxySteps

VARIABLES
  useIoeventfd,  \* VIRTIO_PCI_FLAG_USE_IOEVENTFD
  disabled,      \* proxy->ioeventfd_disabled
  started,       \* proxy->ioeventfd_started
  hn,            \* host notifier of each queue: its eventfd (ev), whether the
                 \* main loop reads it (handler) and KVM signals it (fast)
  active,        \* the vhost backend is running
  trapped,       \* queues for which a CPU waits in the write of QUEUE_NOTIFY
  work           \* queues with a buffer that was made available and kicked and
                 \* has not been looked at since

hostVars == <<useIoeventfd, disabled, started, hn, active, trapped, work>>

HostTypeOK ==
  /\ {useIoeventfd, disabled, started, active} \subseteq BOOLEAN
  /\ hn \in [Queues -> [ev : {"closed", "clear", "set"}, handler : BOOLEAN, fast : BOOLEAN]]
  /\ trapped \subseteq Queues
  /\ work \subseteq Queues

Closed == [ev |-> "closed", handler |-> FALSE, fast |-> FALSE]

HostInit ==
  /\ useIoeventfd \in BOOLEAN
  /\ disabled = FALSE /\ started = FALSE /\ active = FALSE
  /\ hn = [q \in Queues |-> Closed]
  /\ trapped = {}
  /\ work = {}

------------------------------------------------------------------------------
(* Kicks. *)

(* The driver holds its lock while it kicks: a CPU that waits for QEMU keeps *)
(* the others from the same queue.                                          *)
Kick(q) ==
  /\ q \notin trapped
  /\ work' = work \cup {q}
  /\ IF hn[q].fast
     THEN hn' = [hn EXCEPT ![q].ev = "set"] /\ UNCHANGED trapped
     ELSE trapped' = trapped \cup {q} /\ UNCHANGED hn
  /\ UNCHANGED <<todo, useIoeventfd, disabled, started, active>>

(* case VIRTIO_PCI_QUEUE_NOTIFY: the trapped CPU gets the global lock. *)
NotifyTrapped(q) ==
  /\ Idle
  /\ q \in trapped
  /\ trapped' = trapped \ {q}
  /\ work' = work \ {q}
  /\ UNCHANGED <<todo, useIoeventfd, disabled, started, hn, active>>

ReadNotifier(q) ==
  /\ hn[q].ev = "set"
  /\ hn' = [hn EXCEPT ![q].ev = "clear"]
  /\ work' = work \ {q}
  /\ UNCHANGED <<todo, useIoeventfd, disabled, started, active, trapped>>

MainLoopReads(q) == Idle /\ hn[q].handler /\ ReadNotifier(q)

BackendReads(q) == active /\ ReadNotifier(q)

------------------------------------------------------------------------------
(* virtio_pci_set_host_notifier_internal. *)

(* assign: the eventfd is made signalled, its handler is set and KVM told   *)
(* of it.  When event_notifier_init fails nothing has been done.            *)
OpenNotifier(q, handler) ==
  hn' = [hn EXCEPT ![q] = [ev |-> "set", handler |-> handler, fast |-> TRUE]]

Unassign(q) == <<Step("delete", q), Step("flush", q)>>

DeleteEventfd ==
  /\ At("delete")
  /\ hn' = [hn EXCEPT ![Index].fast = FALSE]
  /\ Then(<<>>)
  /\ UNCHANGED <<useIoeventfd, disabled, started, active, trapped, work>>

(* Variant: what the notifier has received is not looked at any more. *)
FlushNothing ==
  /\ At("flush")
  /\ hn' = [hn EXCEPT ![Index].handler = FALSE, ![Index].ev = "closed"]
  /\ Then(<<>>)
  /\ UNCHANGED <<useIoeventfd, disabled, started, active, trapped, work>>

(* virtio_queue_set_host_notifier_fd_handler(vq, false, false) reads the    *)
(* notifier once more, then event_notifier_cleanup closes it.               *)
Flush ==
  /\ At("flush")
  /\ hn' = [hn EXCEPT ![Index].handler = FALSE, ![Index].ev = "closed"]
  /\ work' = IF hn[Index].ev = "set" THEN work \ {Index} ELSE work
  /\ Then(<<>>)
  /\ UNCHANGED <<useIoeventfd, disabled, started, active, trapped>>

SetHostNotifierInternal == DeleteEventfd \/ Flush

------------------------------------------------------------------------------
(* virtio_pci_start_ioeventfd and virtio_pci_stop_ioeventfd. *)

StartSteps ==
  IF ~useIoeventfd \/ disabled \/ started THEN <<>> ELSE <<Step("assign", 1)>>

StartIoeventfd ==
  /\ At("start")
  /\ Then(StartSteps)
  /\ UNCHANGED hostVars

AssignNext ==
  /\ At("assign")
  /\ \/ /\ OpenNotifier(Index, TRUE)
        /\ started' = (Index = NQueues)
        /\ Then(Up("assign", Index + 1, <<>>))
     \/ /\ Then(Down("assign_error", Index - 1, <<>>))   \* event_notifier_init fails
        /\ UNCHANGED <<hn, started>>
  /\ UNCHANGED <<useIoeventfd, disabled, active, trapped, work>>

(* Variant: the error path leaves the earlier queues as they are. *)
AssignErrorForgets ==
  /\ At("assign_error")
  /\ started' = FALSE
  /\ Then(<<>>)
  /\ UNCHANGED <<useIoeventfd, disabled, hn, active, trapped, work>>

AssignError ==
  /\ At("assign_error")
  /\ started' = FALSE
  /\ Then(Unassign(Index) \o Down("assign_error", Index - 1, <<>>))
  /\ UNCHANGED <<useIoeventfd, disabled, hn, active, trapped, work>>

StopSteps == IF started THEN <<Step("unassign", 1)>> ELSE <<>>

UnassignNext ==
  /\ At("unassign")
  /\ started' = FALSE
  /\ Then(Unassign(Index) \o Up("unassign", Index + 1, <<>>))
  /\ UNCHANGED <<useIoeventfd, disabled, hn, active, trapped, work>>

Ioeventfd == StartIoeventfd \/ AssignNext \/ AssignError \/ UnassignNext

------------------------------------------------------------------------------
(* A vhost backend takes over the host notifiers of all queues and gives   *)
(* them back: virtio_pci_set_host_notifier, called in the loops of         *)
(* vhost_dev_enable_notifiers and vhost_dev_disable_notifiers.             *)

TakeNext ==
  /\ At("take")
  /\ disabled' = TRUE
  /\ Then(StopSteps \o <<Step("open", Index)>>)
  /\ UNCHANGED <<useIoeventfd, started, hn, active, trapped, work>>

TakeOpen ==
  /\ At("open")
  /\ \/ /\ OpenNotifier(Index, FALSE)
        /\ Then(Up("take", Index + 1, <<Step("set_guest", 1)>>))
     \/ /\ Then(Down("give", Index - 1, <<>>))
        /\ UNCHANGED hn
  /\ UNCHANGED <<useIoeventfd, disabled, started, active, trapped, work>>

GiveBack ==
  /\ At("give")
  /\ disabled' = FALSE
  /\ Then(Unassign(Index) \o Down("give", Index - 1, <<>>))
  /\ UNCHANGED <<useIoeventfd, started, hn, active, trapped, work>>

SetHostNotifier == TakeNext \/ TakeOpen \/ GiveBack
==============================================================================
