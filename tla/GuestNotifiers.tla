--------------------------- MODULE GuestNotifiers ---------------------------
(***************************************************************************)
(* The way of an interrupt from whoever serves a virtqueue to the guest.   *)
(*                                                                         *)
(* QEMU's own devices notify the guest directly.  A vhost backend signals  *)
(* the queue's guest notifier, an eventfd that QEMU's main loop reads or   *)
(* that KVM turns into an interrupt itself (irqfd).  While the guest masks *)
(* the queue's MSI-X vector, a device with guest_notifier_mask signals     *)
(* another eventfd, its masked notifier; without, the irqfd is taken away. *)
(* msix.c, the main loop, KVM and vhost are external.                      *)
(***************************************************************************)
EXTENDS ProxySteps, FiniteSets

CONSTANTS
  Vectors,   \* MSI-X vectors of the device: the property "vectors"
  NoVector   \* VIRTIO_NO_VECTOR

ASSUME VectorsAssumption == NoVector \notin Vectors

VARIABLES
  intr,       \* how the guest gets interrupts: "intx", "msix", or "irqfd" (MSI-X
              \* with kvm_msi_via_irqfd_enabled)
  canMask,    \* the device has guest_notifier_mask
  gn,         \* guest notifier of each queue, see GuestTypeOK
  vec,        \* each MSI-X vector
  irqfds,     \* proxy->vector_irqfd is allocated
  notifiers   \* msix has the vector notifiers of the proxy

guestVars == <<intr, canMask, gn, vec, irqfds, notifiers>>

(* ev: the eventfd.  handler: the main loop reads it.  irqfd: KVM does.     *)
(* onMasked: the backend signals the masked notifier, whose state is        *)
(* masked.  due: the queue was signalled since the guest's last interrupt;  *)
(* "lost" if the backend went while only its masked notifier held that.     *)
(* Of a vector: masked and pending as the guest sees them, used as msix     *)
(* counts it, users and the route of vector_irqfd.                          *)
GuestTypeOK ==
  /\ intr \in {"intx", "msix", "irqfd"}
  /\ {canMask, irqfds, notifiers} \subseteq BOOLEAN
  /\ gn \in [Queues -> [ev : {"closed", "clear", "set"}, handler : BOOLEAN, irqfd : BOOLEAN,
                        onMasked : BOOLEAN, masked : BOOLEAN, due : {"no", "yes", "lost"},
                        vector : Vectors \cup {NoVector}]]
  /\ vec \in [Vectors -> [masked : BOOLEAN, pending : BOOLEAN,
                          used : 0..NQueues, users : 0..NQueues]]

GuestInit ==
  /\ intr \in {"intx", "msix", "irqfd"}
  /\ canMask \in BOOLEAN
  /\ gn = [q \in Queues |-> [ev |-> "closed", handler |-> FALSE, irqfd |-> FALSE,
                             onMasked |-> TRUE, masked |-> FALSE, due |-> "no",
                             vector |-> NoVector]]
  /\ vec = [v \in Vectors |-> [masked |-> TRUE, pending |-> FALSE, used |-> 0, users |-> 0]]
  /\ irqfds = FALSE /\ notifiers = FALSE

Sharing(v) == {q \in Queues : gn[q].vector = v}

(* The guest's handler of vector v looks at every queue that has it. *)
Interrupted(g, v) ==
  [q \in Queues |-> [g[q] EXCEPT !.due = IF g[q].vector = v THEN "no" ELSE @]]

WantsInterrupt(q) == intr = "intx" \/ gn[q].vector # NoVector

MarkDue(q) == [gn EXCEPT ![q].due = IF WantsInterrupt(q) THEN "yes" ELSE "no"]

InUse(v) == v # NoVector /\ vec[v].used > 0

(* virtio_pci_notify for queue q, when the notifiers have become g: msix    *)
(* drops what goes to a vector not in use and keeps what is masked.         *)
Notify(q, g) ==
  LET v == g[q].vector IN
  \/ /\ intr = "intx"
     /\ gn' = [p \in Queues |-> [g[p] EXCEPT !.due = "no"]]
     /\ UNCHANGED vec
  \/ /\ intr # "intx" /\ ~InUse(v)
     /\ gn' = g
     /\ UNCHANGED vec
  \/ /\ intr # "intx" /\ InUse(v) /\ vec[v].masked
     /\ gn' = g
     /\ vec' = [vec EXCEPT ![v].pending = TRUE]
  \/ /\ intr # "intx" /\ InUse(v) /\ ~vec[v].masked
     /\ gn' = Interrupted(g, v)
     /\ UNCHANGED vec

------------------------------------------------------------------------------
(* Signals. *)

(* A device in QEMU has pushed a buffer: virtio_notify. *)
DeviceNotifies(q) ==
  /\ Idle
  /\ Notify(q, MarkDue(q))
  /\ UNCHANGED <<todo, intr, canMask, irqfds, notifiers>>

(* An eventfd that KVM reads is an interrupt at once. *)
SignalTo(q, g) ==
  gn' = IF g[q].irqfd THEN Interrupted(g, g[q].vector) ELSE [g EXCEPT ![q].ev = "set"]

BackendSignals(q) ==
  /\ IF gn[q].onMasked /\ canMask
     THEN gn' = [MarkDue(q) EXCEPT ![q].masked = TRUE]
     ELSE SignalTo(q, MarkDue(q))
  /\ UNCHANGED <<todo, intr, canMask, vec, irqfds, notifiers>>

GuestNotifierRead(q) ==
  /\ Idle
  /\ gn[q].handler /\ gn[q].ev = "set"
  /\ Notify(q, [gn EXCEPT ![q].ev = "clear"])
  /\ UNCHANGED <<todo, intr, canMask, irqfds, notifiers>>

------------------------------------------------------------------------------
(* The guest masks and unmasks vectors and reads the pending bits. *)

(* virtio_pci_vq_vector_mask *)
Masking(q, g) ==
  IF canMask THEN [g EXCEPT ![q].onMasked = TRUE] ELSE [g EXCEPT ![q].irqfd = FALSE]

(* virtio_pci_vector_mask, for the queues of vector v *)
MaskVector(v) ==
  /\ Idle
  /\ ~vec[v].masked
  /\ vec' = [vec EXCEPT ![v].masked = TRUE]
  /\ gn' = [q \in Queues |->
              IF notifiers /\ gn[q].vector = v THEN Masking(q, gn)[q] ELSE gn[q]]
  /\ UNCHANGED <<todo, intr, canMask, irqfds, notifiers>>

NextSharing(v, n) ==
  LET rest == {q \in Sharing(v) : q > n} IN
  IF rest = {} THEN <<>> ELSE <<Step("unmask", CHOOSE q \in rest : \A p \in rest : q <= p)>>

(* virtio_pci_vector_unmask, a round for each queue, then msix delivers     *)
(* what it has kept for the vector.                                         *)
UnmaskVector(v) ==
  /\ Idle
  /\ vec[v].masked
  /\ vec' = [vec EXCEPT ![v].masked = FALSE]
  /\ todo' = (IF notifiers THEN NextSharing(v, 0) ELSE <<>>) \o <<Step("fire", v)>>
  /\ UNCHANGED <<intr, canMask, gn, irqfds, notifiers>>

(* KVM finds the eventfd signalled when the irqfd is added. *)
AddIrqfd(q, g) ==
  IF g[q].ev = "set"
  THEN Interrupted([g EXCEPT ![q].irqfd = TRUE, ![q].ev = "clear"], g[q].vector)
  ELSE [g EXCEPT ![q].irqfd = TRUE]

(* virtio_pci_vq_vector_unmask, up to "Test after unmasking" *)
(* Variant: tested before unmasking. *)
UnmaskNextTestsFirst ==
  /\ \/ /\ At("unmask")
        /\ Then(<<Step("test_pending", Index), Step("unmask_now", Index)>>
                \o NextSharing(gn[Index].vector, Index))
        /\ UNCHANGED gn
     \/ /\ At("unmask_now")
        /\ gn' = IF canMask THEN [gn EXCEPT ![Index].onMasked = FALSE] ELSE AddIrqfd(Index, gn)
        /\ Then(<<>>)
  /\ UNCHANGED <<intr, canMask, vec, irqfds, notifiers>>

UnmaskNext ==
  /\ At("unmask")
  /\ LET next == NextSharing(gn[Index].vector, Index) IN
     IF canMask
     THEN /\ gn' = [gn EXCEPT ![Index].onMasked = FALSE]
          /\ Then(<<Step("test_pending", Index)>> \o next)
     ELSE /\ gn' = AddIrqfd(Index, gn)
          /\ Then(next)
  /\ UNCHANGED <<intr, canMask, vec, irqfds, notifiers>>

TestPending ==
  /\ At("test_pending")
  /\ IF gn[Index].masked
     THEN SignalTo(Index, [gn EXCEPT ![Index].masked = FALSE])
     ELSE UNCHANGED gn
  /\ Then(<<>>)
  /\ UNCHANGED <<intr, canMask, vec, irqfds, notifiers>>

FirePending ==
  /\ At("fire")
  /\ IF vec[Index].pending
     THEN /\ vec' = [vec EXCEPT ![Index].pending = FALSE]
          /\ gn' = IF vec[Index].used > 0 THEN Interrupted(gn, Index) ELSE gn
     ELSE UNCHANGED <<gn, vec>>
  /\ Then(<<>>)
  /\ UNCHANGED <<intr, canMask, irqfds, notifiers>>

(* virtio_pci_vector_poll, when the guest reads the pending bits *)
PollVectors ==
  LET waiting == {q \in Queues : /\ gn[q].vector # NoVector
                                 /\ vec[gn[q].vector].masked
                                 /\ IF canMask THEN gn[q].masked ELSE gn[q].ev = "set"}
  IN
  /\ Idle
  /\ notifiers
  /\ waiting # {}
  /\ gn' = [q \in Queues |->
              IF q \notin waiting THEN gn[q]
              ELSE IF canMask THEN [gn[q] EXCEPT !.masked = FALSE]
              ELSE [gn[q] EXCEPT !.ev = "clear"]]
  /\ vec' = [v \in Vectors |->
               [vec[v] EXCEPT !.pending = @ \/ \E q \in waiting : gn[q].vector = v]]
  /\ UNCHANGED <<todo, intr, canMask, irqfds, notifiers>>

------------------------------------------------------------------------------
(* virtio_pci_set_guest_notifiers, assign: a guest notifier for each queue, *)
(* then the routes and irqfds, then the functions that msix calls.          *)

GuestAssigned ==
  IF intr = "irqfd" THEN <<Step("vector_use", 1)>>
  ELSE IF canMask THEN <<Step("set_vector_notifiers", 0)>>
  ELSE <<Step("backend_start", 0)>>

(* Variant: while (--n > 0). *)
FailedButFirst(n) == Down("unset_error", n - 1, <<Step("give", NQueues)>>)

(* assign_error, then the backend gives the host notifiers back.            *)
Failed(n) == Down("unset_error", n, <<Step("give", NQueues)>>)

SetGuestNext ==
  /\ At("set_guest")
  /\ \/ /\ gn' = [gn EXCEPT ![Index].ev = "clear", ![Index].handler = intr # "irqfd",
                            ![Index].onMasked = @ /\ ~(intr = "intx" /\ canMask)]
        /\ irqfds' = (irqfds \/ (Index = NQueues /\ intr = "irqfd"))
        /\ Then(Up("set_guest", Index + 1, GuestAssigned))
     \/ /\ Then(Failed(Index - 1))   \* event_notifier_init fails
        /\ UNCHANGED <<gn, irqfds>>
  /\ UNCHANGED <<intr, canMask, vec, notifiers>>

(* virtio_pci_set_guest_notifier, deassign: what the eventfd has received   *)
(* is still passed on.                                                      *)
UnsetGuest(q) ==
  LET g == [gn EXCEPT ![q].ev = "closed", ![q].handler = FALSE,
                      ![q].onMasked = @ \/ intr = "intx"]
  IN IF gn[q].ev = "set" THEN Notify(q, g) ELSE gn' = g /\ UNCHANGED vec

AssignGuestError ==
  /\ At("unset_error")
  /\ UnsetGuest(Index)
  /\ Then(Failed(Index - 1))
  /\ UNCHANGED <<intr, canMask, irqfds, notifiers>>

------------------------------------------------------------------------------
(* kvm_virtio_pci_vector_use: a route for each vector, shared by its        *)
(* queues, and with guest_notifier_mask the irqfd of each queue.            *)

HasVector(q) == gn[q].vector # NoVector

(* Variant: the undo begins with the queue that failed. *)
UndoFromFailed(q) == Down("undo", q, Failed(NQueues))

Undo(q) == Down("undo", q - 1, Failed(NQueues))

VectorUseNext ==
  /\ At("vector_use")
  /\ LET next == Up("vector_use", Index + 1, <<Step("set_vector_notifiers", 0)>>) IN
     \/ /\ ~HasVector(Index)
        /\ Then(next)
        /\ UNCHANGED <<gn, vec>>
     \/ /\ HasVector(Index)
        /\ vec' = [vec EXCEPT ![gn[Index].vector].users = @ + 1]
        /\ gn' = IF canMask THEN AddIrqfd(Index, gn) ELSE gn
        /\ Then(next)
     \/ /\ HasVector(Index)   \* no route or no irqfd
        /\ vec[gn[Index].vector].users = 0 \/ canMask
        /\ Then(Undo(Index))
        /\ UNCHANGED <<gn, vec>>
  /\ UNCHANGED <<intr, canMask, irqfds, notifiers>>

Release(q) ==
  IF HasVector(q)
  THEN /\ gn' = [gn EXCEPT ![q].irqfd = @ /\ ~canMask]
       /\ vec' = [vec EXCEPT ![gn[q].vector].users = @ - 1]
  ELSE UNCHANGED <<gn, vec>>

VectorUndo ==
  /\ At("undo")
  /\ Release(Index)
  /\ Then(Undo(Index))
  /\ UNCHANGED <<intr, canMask, irqfds, notifiers>>

(* kvm_virtio_pci_vector_release *)
VectorReleaseNext ==
  /\ At("vector_release")
  /\ Release(Index)
  /\ Then(Up("vector_release", Index + 1, <<>>))
  /\ UNCHANGED <<intr, canMask, irqfds, notifiers>>

Unmasked(q) == HasVector(q) /\ ~vec[gn[q].vector].masked

(* virtio_pci_vector_unmask is at queue n, after it was called for the       *)
(* vectors in done: the queues that it has unmasked.                         *)
UnmaskedBefore(n, done) ==
  {q \in Queues : /\ Unmasked(q)
                  /\ IF gn[q].vector = gn[n].vector THEN q < n ELSE gn[q].vector \in done}

(* Variant: while (--queue_no > 0). *)
MaskedAgainButFirst(n, done) == {q \in UnmaskedBefore(n, done) : q > 1}

(* Its undo masks those of its own vector again, then msix the others.       *)
MaskedAgain(n, done) ==
  {q \in Queues : gn[q].vector = gn[n].vector /\ q < n}
  \cup {q \in Queues : Unmasked(q) /\ gn[q].vector \in done \ {gn[n].vector}}

(* msix_set_vector_notifiers unmasks every queue whose vector is not masked. *)
(* Adding an irqfd may fail; the route is as vector_use has just set it.     *)
(* No backend signals yet.                                                   *)
SetVectorNotifiers ==
  /\ At("set_vector_notifiers")
  /\ \/ /\ notifiers' = TRUE
        /\ gn' = [q \in Queues |->
                    IF intr = "intx" \/ ~Unmasked(q) THEN gn[q]
                    ELSE IF canMask THEN [gn[q] EXCEPT !.onMasked = FALSE]
                    ELSE [gn[q] EXCEPT !.irqfd = TRUE]]
        /\ Then(<<Step("backend_start", 0)>>)
     \/ /\ intr = "irqfd" /\ ~canMask
        /\ \E n \in Queues, done \in SUBSET Vectors :
             /\ Unmasked(n)
             /\ gn' = [q \in Queues |->
                         [gn[q] EXCEPT !.irqfd = /\ @ \/ q \in UnmaskedBefore(n, done)
                                                 /\ q \notin MaskedAgain(n, done)]]
        /\ Then(<<Step("vector_release", 1)>> \o Failed(NQueues))
        /\ UNCHANGED notifiers
  /\ UNCHANGED <<intr, canMask, vec, irqfds>>

------------------------------------------------------------------------------
(* virtio_pci_set_guest_notifiers, deassign. *)

(* "Must unset vector notifier while guest notifier is still assigned" *)
UnsetGuestNotifiers ==
  (IF irqfds \/ canMask THEN <<Step("unset_vector_notifiers", 0)>> ELSE <<>>)
  \o (IF irqfds THEN <<Step("vector_release", 1)>> ELSE <<>>)
  \o <<Step("unset_guest", 1)>>

(* Every queue is masked; vector_irqfd goes once the vectors are released. *)
UnsetVectorNotifiers ==
  /\ At("unset_vector_notifiers")
  /\ notifiers' = FALSE
  /\ irqfds' = FALSE
  /\ gn' = [q \in Queues |->
              IF intr # "intx" /\ Unmasked(q) THEN Masking(q, gn)[q] ELSE gn[q]]
  /\ Then(<<>>)
  /\ UNCHANGED <<intr, canMask, vec>>

UnsetGuestNext ==
  /\ At("unset_guest")
  /\ UnsetGuest(Index)
  /\ Then(Up("unset_guest", Index + 1, <<>>))
  /\ UNCHANGED <<intr, canMask, irqfds, notifiers>>

SetGuestNotifiers ==
  \/ SetGuestNext \/ AssignGuestError
  \/ VectorUseNext \/ VectorUndo \/ VectorReleaseNext
  \/ SetVectorNotifiers \/ UnsetVectorNotifiers \/ UnsetGuestNext

Unmasking == UnmaskNext \/ TestPending \/ FirePending
==============================================================================
