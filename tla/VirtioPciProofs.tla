-------------------------- MODULE VirtioPciProofs --------------------------
(***************************************************************************)
(* Proofs about VirtioPci, for any number of queues and vectors.           *)
(***************************************************************************)
EXTENDS VirtioPci, SequenceTheorems, FiniteSetTheorems, WellFoundedInduction, TLAPS

Notifier == [ev : {"closed", "clear", "set"}, handler : BOOLEAN, fast : BOOLEAN]

(* What the invariant rests on: the shape of the host notifiers, and that   *)
(* buffers wait only in queues of the device.                               *)
KickInv ==
  /\ hn \in [Queues -> Notifier]
  /\ work \subseteq Queues
  /\ KickPending

(* A step that leaves the notifiers, the waiting CPUs and the buffers alone. *)
LEMMA KickInvUnchanged ==
  ASSUME KickInv, UNCHANGED <<hn, trapped, work>>
  PROVE  KickInv'
BY DEF KickInv, KickPending, Notifier

(* Opening a notifier: it is signalled from the start. *)
LEMMA OpenKeepsKicks ==
  ASSUME KickInv, NEW q, NEW handler \in BOOLEAN, OpenNotifier(q, handler),
         UNCHANGED <<trapped, work>>
  PROVE  KickInv'
BY DEF KickInv, KickPending, Notifier, OpenNotifier

(* What a reader does with a signalled notifier. *)
LEMMA ReadKeepsKicks ==
  ASSUME KickInv, NEW q \in Queues, ReadNotifier(q)
  PROVE  KickInv'
BY DEF KickInv, KickPending, Notifier, ReadNotifier

(* A kick leaves a CPU waiting or the notifier set. *)
LEMMA KickKeepsKicks ==
  ASSUME KickInv, NEW q \in Queues, Kick(q)
  PROVE  KickInv'
<1>1. CASE hn[q].fast
  BY <1>1 DEF KickInv, KickPending, Notifier, Kick
<1>2. CASE ~hn[q].fast
  BY <1>2 DEF KickInv, KickPending, Notifier, Kick
<1> QED BY <1>1, <1>2

LEMMA NotifyKeepsKicks ==
  ASSUME KickInv, NEW q \in Queues, NotifyTrapped(q)
  PROVE  KickInv'
BY DEF KickInv, KickPending, Notifier, NotifyTrapped

(* Giving a notifier up: KVM stops to signal it, and what it had received is *)
(* looked at before it is closed.                                           *)
LEMMA UnassignKeepsKicks ==
  ASSUME KickInv, SetHostNotifierInternal
  PROVE  KickInv'
<1>1. CASE DeleteEventfd
  BY <1>1 DEF KickInv, KickPending, Notifier, DeleteEventfd
<1>2. CASE Flush
  BY <1>2 DEF KickInv, KickPending, Notifier, Flush
<1> QED BY <1>1, <1>2 DEF SetHostNotifierInternal

(* Every step a handler consists of. *)
LEMMA CallKeepsKicks ==
  ASSUME KickInv, Call
  PROVE  KickInv'
<1>1. CASE SetStatus \/ BackendStart \/ BackendStop
  BY <1>1, KickInvUnchanged, Zenon DEF SetStatus, BackendStart, BackendStop, hostVars
<1>2. CASE Clear
  BY <1>2, Zenon DEF Clear, KickInv, KickPending
<1>3. CASE Ioeventfd
  <2>1. CASE AssignNext
    <3>1. CASE OpenNotifier(Index, TRUE)
      BY <2>1, <3>1, OpenKeepsKicks DEF AssignNext
    <3>2. CASE UNCHANGED hn
      BY <2>1, <3>2, KickInvUnchanged DEF AssignNext
    <3>3. QED
      BY <2>1, <3>1, <3>2 DEF AssignNext
  <2>2. CASE StartIoeventfd \/ AssignError \/ UnassignNext
    BY <2>2, KickInvUnchanged DEF StartIoeventfd, AssignError, UnassignNext, hostVars
  <2>3. QED
    BY <1>3, <2>1, <2>2 DEF Ioeventfd
<1>4. CASE SetHostNotifier
  <2>1. CASE TakeOpen
    <3>1. CASE OpenNotifier(Index, FALSE)
      BY <2>1, <3>1, OpenKeepsKicks DEF TakeOpen
    <3>2. CASE UNCHANGED hn
      BY <2>1, <3>2, KickInvUnchanged DEF TakeOpen
    <3>3. QED
      BY <2>1, <3>1, <3>2 DEF TakeOpen
  <2>2. CASE TakeNext \/ GiveBack
    BY <2>2, KickInvUnchanged DEF TakeNext, GiveBack
  <2>3. QED
    BY <1>4, <2>1, <2>2 DEF SetHostNotifier
<1>5. CASE SetHostNotifierInternal
  BY <1>5, UnassignKeepsKicks
<1>6. CASE UNCHANGED hostVars
  BY <1>6, KickInvUnchanged DEF hostVars
<1>7. QED
  BY <1>1, <1>2, <1>3, <1>4, <1>5, <1>6 DEF Call

(* What the guest writes and what happens to the machine enters a handler or *)
(* changes what no kick goes through.                                       *)
LEMMA GuestAndMachineKeepKicks ==
  ASSUME KickInv, Guest \/ Machine
  PROVE  KickInv'
<1>1. CASE Guest
  <2>1. UNCHANGED hostVars
    BY <1>1 DEF Guest, WriteStatus, WriteNoPfn, WriteQueueVector, EnableMaster, DisableMaster
  <2>2. QED
    BY <2>1, KickInvUnchanged DEF hostVars
<1>2. CASE Machine
  <2>1. UNCHANGED <<hn, trapped, work>>
    BY <1>2, Zenon DEF Machine, StopMachine, ContinueMachine, Migrate, ResetMachine, hostVars
  <2>2. QED
    BY <2>1, KickInvUnchanged
<1>3. QED
  BY <1>1, <1>2

LEMMA NextKickInv == KickInv /\ [Next]_vars => KickInv'
<1> SUFFICES ASSUME KickInv, [Next]_vars PROVE KickInv'
  OBVIOUS
<1>1. CASE Call \/ Guest \/ Machine
  BY <1>1, CallKeepsKicks, GuestAndMachineKeepKicks
<1>2. CASE Kicks
  <2>1. PICK q \in Queues : \/ Kick(q)
                            \/ NotifyTrapped(q)
                            \/ ReadNotifier(q)
    BY <1>2 DEF Kicks, MainLoopReads, BackendReads
  <2>2. QED
    BY <2>1, KickKeepsKicks, NotifyKeepsKicks, ReadKeepsKicks
<1>3. CASE Interrupts
  BY <1>3, KickInvUnchanged DEF Interrupts, hostVars
<1>4. CASE UNCHANGED vars
  BY <1>4, KickInvUnchanged DEF vars, hostVars
<1>5. QED
  BY <1>1, <1>2, <1>3, <1>4 DEF Next

(* No kick is lost between the slow path, ioeventfd and a vhost backend,    *)
(* for any number of queues: virtio_pci_set_host_notifier_internal signals  *)
(* what it opens and looks at what it closes, after KVM has let go of it.    *)
THEOREM KicksArrive == Spec => []KickPending
<1>1. Init => KickInv
  BY DEF Init, HostInit, Closed, KickInv, KickPending, Notifier
<1>2. KickInv => KickPending
  BY DEF KickInv
<1>3. QED
  BY <1>1, <1>2, NextKickInv, PTL DEF Spec

------------------------------------------------------------------------------
(* What the invariants rest on: the list of steps.  Counted steps are rounds  *)
(* of a loop over the queues.                                                 *)
CountedSteps ==
  {"assign", "assign_error", "unassign", "delete", "flush", "take", "open", "give",
   "set_guest", "unset_error", "vector_use", "undo", "vector_release", "unset_guest",
   "unmask", "test_pending"}

(* Steps that are done once.                                                *)
PlainSteps ==
  {"start", "backend_start", "backend_stop", "clear",
   "set_vector_notifiers", "unset_vector_notifiers"}

(* All steps.                                                               *)
AnyStep ==
  [do : CountedSteps, n : Queues] \cup [do : PlainSteps, n : {0}]
  \cup [do : {"set_status"}, n : {"reset", "setup", "ok"}] \cup [do : {"fire"}, n : Vectors]

(* Steps that are never a handler's last. *)
Unfinished == {"delete", "vector_release", "unset_vector_notifiers", "unset_guest"}

(* Steps at whose end no host notifier is open. *)
ClosingSteps == {"unassign", "flush", "give", "unset_error", "undo", "backend_stop"}

(* Steps of a backend that starts: all of them only with a ready driver. *)
TakingSteps ==
  {"take", "open", "set_guest", "vector_use", "set_vector_notifiers", "backend_start"}

(* Those, and those that start ioeventfd.                                   *)
ReadySteps == TakingSteps \cup {"start", "assign"}

(* Steps while the guest notifiers are set up or taken down. *)
SetGuestSteps == {"set_guest", "vector_use", "set_vector_notifiers"}

(* Those, and those that take the guest notifiers down again.               *)
GuestSteps ==
  SetGuestSteps \cup
  {"backend_start", "unset_error", "undo", "vector_release", "unset_vector_notifiers",
   "unset_guest"}

(* What comes after the last step.                                          *)
Last == Step("none", 0)

(* The i-th step.                                                           *)
Nth(i) == IF i <= Len(todo) THEN todo[i] ELSE Last

(* Step t may come right after step s in a handler; Last: s ends it. *)
After(s, t) ==
  \/ t = Last /\ s.do \notin Unfinished
  \/ s.do = "delete" /\ t = Step("flush", s.n)
  \/ s.do = "flush" /\ t \in {Step("unassign", s.n + 1), Step("assign_error", s.n - 1),
                              Step("give", s.n - 1)}
  \/ s.do \in {"flush", "unassign"} /\ t = Step("open", 1)
  \/ s.do \in ClosingSteps /\ t.do \in {"set_status", "start", "clear"}
  \/ s.do \in TakingSteps /\ t.do = "start"
  \/ s.do = "set_status" /\ s.n = "ok" /\ t.do = "start"
  \/ s.do = "set_status" /\ s.n = "reset"
     /\ (t.do = "clear" \/ t = Step("set_status", "reset"))
  \/ s.do = "vector_release" /\ t \in {Step("unset_error", NQueues), Step("unset_guest", 1)}
  \/ s.do = "unset_vector_notifiers"
     /\ t \in {Step("vector_release", 1), Step("unset_guest", 1)}
  \/ s.do = "unset_guest" /\ t = Step("give", NQueues)
  \/ s.do \in {"unmask", "test_pending"} /\ t.do \in {"test_pending", "unmask", "fire"}

(* The steps of a handler follow each other as they may.                    *)
TodoInv ==
  /\ todo \in Seq(AnyStep)
  /\ \A i \in 1..Len(todo) : After(todo[i], Nth(i + 1))

(* The driver is ready where a step needs that, or the step before it sees to that. *)
Ready == status = "ok" /\ running

(* The driver is ready where a step needs that, or the step before sees to it. *)
ReadyInv ==
  \A i \in 1..Len(todo) :
    todo[i].do \in ReadySteps =>
      /\ running
      /\ \/ status = "ok" /\ \A j \in 1..i - 1 : todo[j].do # "set_status"
         \/ i > 1 /\ todo[i - 1].do = "set_status"

(* A backend opens notifiers with ioeventfd disabled, once it has stopped.    *)
Stopping == {"unassign", "delete", "flush"}

(* Only a stopping ioeventfd comes before an "open".                        *)
OpenInv ==
  \A i \in 1..Len(todo) :
    todo[i].do = "open" => disabled /\ \A j \in 1..i - 1 : todo[j].do \in Stopping

(* The first step and the one that follows it. *)
LEMMA FirstStep ==
  ASSUME TodoInv, todo # <<>>
  PROVE  /\ todo[1] \in AnyStep /\ Head(todo) = todo[1]
         /\ After(todo[1], Nth(2))
         /\ Nth(2) \in AnyStep \cup {Last}
BY DEF TodoInv, Nth

(* Where an index past the first L lands.                                   *)
LEMMA Shift ==
  ASSUME NEW L \in Nat, NEW T \in Nat, NEW M \in Nat, M = L + T - 1,
         NEW i \in 1..M, L < i
  PROVE  \E k \in 2..T : i = k + L - 1
<1>1. i - L + 1 \in 2..T /\ i = (i - L + 1) + L - 1
  OBVIOUS
<1> QED BY <1>1

(* A list that replaces the first step. *)
LEMMA ThenDoes ==
  ASSUME todo \in Seq(AnyStep), todo # <<>>, NEW list \in Seq(AnyStep), Then(list)
  PROVE  \E L \in Nat, T \in Nat \ {0}, M \in Nat :
           /\ L = Len(list) /\ T = Len(todo) /\ M = Len(todo')
           /\ M = L + T - 1
           /\ todo' \in Seq(AnyStep)
           /\ \A i \in 1..L : todo'[i] = list[i]
           /\ \A j \in 2..T : todo'[j + L - 1] = todo[j]
<1>1. PICK L \in Nat, T \in Nat \ {0} : L = Len(list) /\ T = Len(todo)
  OBVIOUS
<1>2. Tail(todo) \in Seq(AnyStep) /\ Len(Tail(todo)) = T - 1
  BY <1>1
<1>3. todo' \in Seq(AnyStep) /\ Len(todo') = L + T - 1
  BY <1>1, <1>2 DEF Then
<1>4. \A i \in 1..L : todo'[i] = list[i]
  BY <1>1, <1>2 DEF Then
<1>5. ASSUME NEW j \in 2..T
      PROVE  todo'[j + L - 1] = todo[j]
  <2>1. PICK k \in 1..T - 1 : k = j - 1
    OBVIOUS
  <2>2. todo'[L + k] = Tail(todo)[k]
    BY <1>1, <1>2 DEF Then
  <2>3. Tail(todo)[k] = todo[j]
    BY <1>1, <2>1
  <2>4. L + k = j + L - 1
    BY <2>1
  <2>5. QED
    BY <2>2, <2>3, <2>4
<1>6. L + T - 1 \in Nat
  OBVIOUS
<1> WITNESS L \in Nat, T \in Nat \ {0}, L + T - 1 \in Nat
<1>7. QED
  BY <1>1, <1>3, <1>4, <1>5

(* The steps still follow each other when the first one is replaced.        *)
LEMMA ThenKeepsTodo ==
  ASSUME TodoInv, todo # <<>>, NEW list \in Seq(AnyStep), Then(list),
         \A i \in 1..Len(list) :
           After(list[i], IF i < Len(list) THEN list[i + 1] ELSE Nth(2))
  PROVE  TodoInv'
<1>1. PICK L \in Nat, T \in Nat \ {0}, M \in Nat :
        /\ L = Len(list) /\ T = Len(todo) /\ M = Len(todo')
        /\ M = L + T - 1
        /\ todo' \in Seq(AnyStep)
        /\ \A i \in 1..L : todo'[i] = list[i]
        /\ \A j \in 2..T : todo'[j + L - 1] = todo[j]
  BY ThenDoes DEF TodoInv
<1> SUFFICES ASSUME NEW i \in 1..M
             PROVE  After(todo'[i], IF i + 1 <= M THEN todo'[i + 1] ELSE Last)
  BY <1>1 DEF TodoInv, Nth, Last, Step
<1>2. CASE i < L
  <2>1. i \in 1..L /\ i + 1 \in 1..L /\ i + 1 <= M
    BY <1>1, <1>2
  <2>2. todo'[i] = list[i] /\ todo'[i + 1] = list[i + 1]
    BY <1>1, <2>1
  <2>3. After(list[i], list[i + 1])
    BY <1>1, <1>2, <2>1
  <2>4. QED
    BY <2>1, <2>2, <2>3
<1>3. CASE i = L
  <2>1. Nth(2) = IF 2 <= T THEN todo[2] ELSE Last
    BY <1>1 DEF Nth
  <2>2. 2 <= T => todo'[L + 1] = todo[2]
    BY <1>1
  <2>3. i + 1 <= M <=> 2 <= T
    BY <1>1, <1>3
  <2>4. QED
    BY <1>1, <1>3, <2>1, <2>2, <2>3
<1>4. CASE i > L
  <2>1. PICK j \in 2..T : i = j + L - 1
    <3>1. M = L + T - 1
      BY <1>1
    <3>2. QED
      BY <1>4, <3>1, Shift
  <2>2. After(todo[j], IF j + 1 <= T THEN todo[j + 1] ELSE Last)
    BY <1>1 DEF TodoInv, Nth
  <2>3. todo'[i] = todo[j] /\ (i + 1 <= M <=> j + 1 <= T)
    BY <1>1, <2>1, SMTT(30)
  <2>4. j + 1 <= T => todo'[i + 1] = todo[j + 1]
    <3> HAVE j + 1 <= T
    <3>1. PICK k \in 2..T : k = j + 1
      OBVIOUS
    <3>2. todo'[k + L - 1] = todo[k] /\ k + L - 1 = i + 1
      BY <1>1, <2>1, <3>1
    <3>3. QED
      BY <3>1, <3>2
  <2>5. QED
    BY <2>2, <2>3, <2>4
<1>5. QED
  BY <1>1, <1>2, <1>3, <1>4

(* ... the driver is ready where that is needed ...                         *)
LEMMA ThenKeepsReady ==
  ASSUME TodoInv, ReadyInv, todo # <<>>, NEW list \in Seq(AnyStep), Then(list),
         UNCHANGED running,
         IF todo[1].do = "set_status" THEN status' = todo[1].n ELSE UNCHANGED status,
         \A i \in 1..Len(list) :
           /\ list[i].do # "set_status"
           /\ list[i].do \in ReadySteps => running /\ status' = "ok"
  PROVE  ReadyInv'
<1>1. PICK L \in Nat, T \in Nat \ {0}, M \in Nat :
        /\ L = Len(list) /\ T = Len(todo) /\ M = Len(todo')
        /\ M = L + T - 1
        /\ todo' \in Seq(AnyStep)
        /\ \A i \in 1..L : todo'[i] = list[i]
        /\ \A j \in 2..T : todo'[j + L - 1] = todo[j]
  BY ThenDoes DEF TodoInv
<1> SUFFICES ASSUME NEW i \in 1..M, todo'[i].do \in ReadySteps
             PROVE  /\ running
                    /\ \/ status' = "ok" /\ \A j \in 1..i - 1 : todo'[j].do # "set_status"
                       \/ i > 1 /\ todo'[i - 1].do = "set_status"
  BY <1>1 DEF ReadyInv
<1>2. CASE i <= L
  <2>1. i \in 1..L /\ todo'[i] = list[i]
    BY <1>1, <1>2
  <2>2. running /\ status' = "ok"
    BY <1>1, <2>1
  <2>3. ASSUME NEW j \in 1..i - 1
        PROVE  todo'[j].do # "set_status"
    BY <1>1, <1>2
  <2>4. QED
    BY <2>2, <2>3
<1>3. CASE i > L
  <2>1. PICK k \in 2..T : i = k + L - 1
    <3>1. M = L + T - 1
      BY <1>1
    <3>2. QED
      BY <1>3, <3>1, Shift
  <2>2. todo'[i] = todo[k]
    BY <1>1, <2>1
  <2>3. /\ running
        /\ \/ status = "ok" /\ \A j \in 1..k - 1 : todo[j].do # "set_status"
           \/ todo[k - 1].do = "set_status"
    BY <1>1, <2>2 DEF ReadyInv
  <2>4. CASE k > 2 /\ todo[k - 1].do = "set_status"
    <3>1. PICK m \in 2..T : m = k - 1
      BY <2>4
    <3>2. todo'[m + L - 1] = todo[m]
      BY <1>1, <3>1
    <3>3. m + L - 1 = i - 1 /\ i > 1
      BY <2>1, <2>4, <3>1
    <3>4. todo'[i - 1].do = "set_status"
      BY <2>4, <3>1, <3>2, <3>3
    <3>5. QED
      BY <2>3, <3>3, <3>4
  <2>5. CASE ~(k > 2 /\ todo[k - 1].do = "set_status")
    <3>1. status' = "ok" /\ \A j \in 2..k - 1 : todo[j].do # "set_status"
      <4>1. CASE todo[1].do = "set_status"
        <5>1. 1 \in 1..k - 1 /\ (k = 2 \/ k > 2)
          OBVIOUS
        <5>2. k = 2
          BY <2>3, <2>5, <4>1, <5>1
        <5>3. After(todo[1], todo[2]) /\ todo[2].do \in ReadySteps
          <6>1. After(todo[1], Nth(2))
            BY FirstStep
          <6>2. Nth(2) = todo[2]
            BY <1>1, <5>2 DEF Nth
          <6>3. QED
            BY <2>2, <5>2, <6>1, <6>2
        <5>4. todo[1].n = "ok"
          BY <4>1, <5>3 DEF After, ReadySteps, TakingSteps, ClosingSteps, Last, Step
        <5>5. QED
          BY <4>1, <5>2, <5>4
      <4>2. CASE todo[1].do # "set_status"
        <5>1. k = 2 \/ k > 2
          OBVIOUS
        <5>2. status = "ok" /\ \A j \in 1..k - 1 : todo[j].do # "set_status"
          BY <2>3, <2>5, <4>2, <5>1
        <5>3. QED
          BY <4>2, <5>2
      <4>3. QED
        BY <4>1, <4>2
    <3>2. ASSUME NEW j \in 1..i - 1
          PROVE  todo'[j].do # "set_status"
      <4>1. CASE j <= L
        BY <1>1, <4>1
      <4>2. CASE j > L
        <5>1. PICK m \in 2..k - 1 : j = m + L - 1
          <6>1. i - 1 \in Nat /\ k - 1 \in Nat /\ i - 1 = L + (k - 1) - 1
            BY <2>1
          <6>2. QED
            BY <4>2, <6>1, Shift
        <5>2. todo'[m + L - 1] = todo[m]
          BY <1>1
        <5>3. QED
          BY <3>1, <5>1, <5>2
      <4>3. QED
        BY <4>1, <4>2
    <3>3. QED
      BY <2>3, <3>1, <3>2
  <2>6. QED
    BY <2>4, <2>5
<1>4. QED
  BY <1>1, <1>2, <1>3

(* ... and an "open" still has only a stopping ioeventfd before it.         *)
LEMMA ThenKeepsOpen ==
  ASSUME TodoInv, OpenInv, todo # <<>>, NEW list \in Seq(AnyStep), Then(list),
         \A i \in 1..Len(list) :
           list[i].do = "open" => disabled' /\ \A j \in 1..i - 1 : list[j].do \in Stopping,
         todo[1].do \in Stopping =>
           disabled' = disabled /\ \A i \in 1..Len(list) : list[i].do \in Stopping
  PROVE  OpenInv'
<1>1. PICK L \in Nat, T \in Nat \ {0}, M \in Nat :
        /\ L = Len(list) /\ T = Len(todo) /\ M = Len(todo')
        /\ M = L + T - 1
        /\ todo' \in Seq(AnyStep)
        /\ \A i \in 1..L : todo'[i] = list[i]
        /\ \A j \in 2..T : todo'[j + L - 1] = todo[j]
  BY ThenDoes DEF TodoInv
<1> SUFFICES ASSUME NEW i \in 1..M, todo'[i].do = "open"
             PROVE  disabled' /\ \A j \in 1..i - 1 : todo'[j].do \in Stopping
  BY <1>1 DEF OpenInv
<1>2. CASE i <= L
  <2>1. i \in 1..L /\ todo'[i] = list[i]
    BY <1>1, <1>2
  <2>2. disabled' /\ \A j \in 1..i - 1 : list[j].do \in Stopping
    BY <1>1, <2>1
  <2>3. ASSUME NEW j \in 1..i - 1
        PROVE  todo'[j] = list[j]
    BY <1>1, <1>2
  <2>4. QED
    BY <2>2, <2>3
<1>3. CASE i > L
  <2>1. PICK k \in 2..T : i = k + L - 1
    <3>1. M = L + T - 1
      BY <1>1
    <3>2. QED
      BY <1>3, <3>1, Shift
  <2>2. disabled /\ \A j \in 1..k - 1 : todo[j].do \in Stopping
    BY <1>1, <2>1 DEF OpenInv
  <2>3. disabled' /\ \A j \in 1..L : todo'[j].do \in Stopping
    <3>1. 1 \in 1..k - 1
      OBVIOUS
    <3>2. QED
      BY <1>1, <2>2, <3>1
  <2>4. ASSUME NEW j \in L + 1..i - 1
        PROVE  todo'[j].do \in Stopping
    <3>1. PICK m \in 2..k - 1 : j = m + L - 1
      <4>1. i - 1 \in Nat /\ k - 1 \in Nat /\ i - 1 = L + (k - 1) - 1 /\ L < j
        BY <2>1
      <4>2. QED
        BY <4>1, Shift
    <3>2. todo'[m + L - 1] = todo[m]
      BY <1>1
    <3>3. QED
      BY <2>2, <3>1, <3>2
  <2>5. QED
    BY <2>3, <2>4
<1>4. QED
  BY <1>1, <1>2, <1>3

(* A list is empty when its length is 0.                                    *)
LEMMA LenZero ==
  ASSUME NEW S, NEW s \in Seq(S)
  PROVE  Len(s) \in Nat /\ (s = <<>> <=> Len(s) = 0)
OBVIOUS

(* What ends a handler is no step.                                          *)
LEMMA LastIsNone == Last \notin AnyStep
BY DEF Last, Step, AnyStep, CountedSteps, PlainSteps

(* The rounds of a loop are about queues.                                   *)
LEMMA CountedIndex ==
  ASSUME NEW s \in AnyStep, s.do \in CountedSteps
  PROVE  s.n \in Queues
BY DEF AnyStep, CountedSteps, PlainSteps

(* A step that leaves the rest to do. *)
LEMMA ThenNothing ==
  ASSUME TodoInv, ReadyInv, OpenInv, todo # <<>>, Then(<<>>),
         todo[1].do # "set_status", UNCHANGED <<status, running>>,
         todo[1].do \in Stopping => disabled' = disabled
  PROVE  /\ TodoInv' /\ ReadyInv' /\ OpenInv'
         /\ Nth(2) = Last => todo' = <<>>
         /\ Nth(2) # Last => todo' # <<>> /\ todo'[1] = Nth(2) /\ Nth(2)' = Nth(3)
<1> DEFINE list == <<>>
<1>1. list \in Seq(AnyStep) /\ Len(list) = 0 /\ 1..Len(list) = {} /\ Then(list)
  OBVIOUS
<1> HIDE DEF list
<1>2. TodoInv'
  BY <1>1, ThenKeepsTodo
<1>3. ReadyInv'
  BY <1>1, ThenKeepsReady
<1>9. OpenInv'
  BY <1>1, ThenKeepsOpen
<1>4. todo' = Tail(todo) /\ todo \in Seq(AnyStep)
  BY DEF Then, TodoInv
<1>5. CASE Len(todo) = 1
  BY <1>2, <1>3, <1>4, <1>5, <1>9 DEF Nth
<1>6. CASE Len(todo) > 1
  <2>0. PICK T \in Nat : T = Len(todo) /\ T > 1
    BY <1>4, <1>6, LenZero
  <2>1. todo[2] \in AnyStep /\ Last \notin AnyStep
    <3>1. 2 \in 1..T
      BY <2>0
    <3>2. todo[2] \in AnyStep
      BY <1>4, <2>0, <3>1
    <3>3. QED
      BY <3>2, LastIsNone
  <2>2. todo' # <<>> /\ todo'[1] = todo[2] /\ Len(todo') = Len(todo) - 1
    <3>1. Tail(todo) \in Seq(AnyStep) /\ Len(Tail(todo)) = T - 1
      BY <1>4, <2>0
    <3>2. T - 1 # 0 /\ 1 \in 1..T - 1
      BY <2>0
    <3>3. Tail(todo)[1] = todo[2]
      BY <1>4, <2>0, <3>2
    <3>4. QED
      BY <1>4, <2>0, <3>1, <3>2, <3>3, LenZero
  <2>3. Len(todo) > 2 => todo'[2] = todo[3]
    BY <1>4, <1>6
  <2>4. Nth(2)' = Nth(3)
    BY <1>4, <1>6, <2>2, <2>3 DEF Nth, Last, Step
  <2>5. QED
    BY <1>2, <1>3, <1>6, <1>9, <2>1, <2>2, <2>4 DEF Nth
<1>7. Len(todo) = 1 \/ Len(todo) > 1
  <2>1. PICK T \in Nat : T = Len(todo) /\ T # 0
    BY <1>4, LenZero
  <2>2. T = 1 \/ T > 1
    BY <2>1
  <2>3. QED
    BY <2>1, <2>2
<1>8. QED
  BY <1>5, <1>6, <1>7, <1>9

(* A step that others replace. *)
LEMMA ThenOne ==
  ASSUME TodoInv, ReadyInv, OpenInv, todo # <<>>, NEW a \in AnyStep, Then(<<a>>),
         todo[1].do # "set_status", UNCHANGED <<status, running>>,
         After(a, Nth(2)), a.do \in ReadySteps => Ready, a.do # "set_status",
         todo[1].do \notin Stopping, a.do = "open" => disabled'
  PROVE  /\ TodoInv' /\ ReadyInv' /\ OpenInv'
         /\ todo' # <<>> /\ todo'[1] = a /\ Nth(2)' = Nth(2) /\ Nth(3)' = Nth(3)
<1> DEFINE list == <<a>>
<1>1. list \in Seq(AnyStep) /\ Len(list) = 1 /\ list[1] = a /\ Then(list)
  OBVIOUS
<1> HIDE DEF list
<1>2. TodoInv'
  BY <1>1, ThenKeepsTodo
<1>3. ReadyInv'
  <2>1. ASSUME NEW i \in 1..Len(list)
        PROVE  /\ list[i].do # "set_status"
               /\ list[i].do \in ReadySteps => running /\ status' = "ok"
    <3>1. i = 1
      BY <1>1
    <3>2. QED
      BY <1>1, <3>1 DEF Ready
  <2>2. QED
    BY <1>1, <2>1, ThenKeepsReady
<1>8. OpenInv'
  BY <1>1, ThenKeepsOpen
<1>4. PICK L \in Nat, T \in Nat \ {0}, M \in Nat :
        /\ L = Len(list) /\ T = Len(todo) /\ M = Len(todo')
        /\ M = L + T - 1
        /\ todo' \in Seq(AnyStep)
        /\ \A i \in 1..L : todo'[i] = list[i]
        /\ \A j \in 2..T : todo'[j + L - 1] = todo[j]
  BY <1>1, ThenDoes DEF TodoInv
<1>5. Nth(2)' = Nth(2) /\ Nth(3)' = Nth(3)
  BY <1>1, <1>4 DEF Nth, Last, Step
<1>6. todo' # <<>> /\ todo'[1] = a
  <2>1. 1 \in 1..L /\ M # 0
    BY <1>1, <1>4
  <2>2. QED
    BY <1>1, <1>4, <2>1, LenZero
<1>7. QED
  BY <1>2, <1>3, <1>5, <1>6, <1>8

(* ... by two.                                                              *)
LEMMA ThenTwo ==
  ASSUME TodoInv, ReadyInv, OpenInv, todo # <<>>, NEW a \in AnyStep, NEW b \in AnyStep,
         Then(<<a, b>>),
         todo[1].do # "set_status", UNCHANGED <<status, running>>,
         After(a, b), After(b, Nth(2)),
         a.do \in ReadySteps => Ready, b.do \in ReadySteps => Ready,
         "set_status" \notin {a.do, b.do},
         a.do # "open", b.do = "open" => disabled' /\ a.do \in Stopping,
         todo[1].do \in Stopping =>
           disabled' = disabled /\ {a.do, b.do} \subseteq Stopping
  PROVE  /\ TodoInv' /\ ReadyInv' /\ OpenInv'
         /\ todo' # <<>> /\ todo'[1] = a /\ Nth(2)' = b /\ Nth(3)' = Nth(2)
<1> DEFINE list == <<a, b>>
<1>1. /\ list \in Seq(AnyStep) /\ Len(list) = 2 /\ list[1] = a /\ list[2] = b
      /\ Then(list)
  OBVIOUS
<1> HIDE DEF list
<1>2. TodoInv'
  BY <1>1, ThenKeepsTodo, SMTT(30)
<1>3. ReadyInv'
  <2>1. ASSUME NEW i \in 1..Len(list)
        PROVE  /\ list[i].do # "set_status"
               /\ list[i].do \in ReadySteps => running /\ status' = "ok"
    <3>1. i = 1 \/ i = 2
      BY <1>1
    <3>2. QED
      BY <1>1, <3>1 DEF Ready
  <2>2. QED
    BY <1>1, <2>1, ThenKeepsReady
<1>8. OpenInv'
  BY <1>1, ThenKeepsOpen
<1>4. PICK L \in Nat, T \in Nat \ {0}, M \in Nat :
        /\ L = Len(list) /\ T = Len(todo) /\ M = Len(todo')
        /\ M = L + T - 1
        /\ todo' \in Seq(AnyStep)
        /\ \A i \in 1..L : todo'[i] = list[i]
        /\ \A j \in 2..T : todo'[j + L - 1] = todo[j]
  BY <1>1, ThenDoes DEF TodoInv
<1>5. Nth(2)' = b /\ Nth(3)' = Nth(2)
  BY <1>1, <1>4 DEF Nth, Last, Step
<1>6. todo' # <<>> /\ todo'[1] = a
  <2>1. 1 \in 1..L /\ M # 0
    BY <1>1, <1>4
  <2>2. QED
    BY <1>1, <1>4, <2>1, LenZero
<1>7. QED
  BY <1>2, <1>3, <1>5, <1>6, <1>8

(* ... by three.                                                            *)
LEMMA ThenThree ==
  ASSUME TodoInv, ReadyInv, OpenInv, todo # <<>>,
         NEW a \in AnyStep, NEW b \in AnyStep, NEW c \in AnyStep, Then(<<a, b, c>>),
         todo[1].do # "set_status", UNCHANGED <<status, running>>,
         After(a, b), After(b, c), After(c, Nth(2)),
         {a.do, b.do, c.do} \cap (ReadySteps \cup {"set_status"}) = {},
         todo[1].do \in Stopping =>
           disabled' = disabled /\ {a.do, b.do, c.do} \subseteq Stopping
  PROVE  /\ TodoInv' /\ ReadyInv' /\ OpenInv'
         /\ todo' # <<>> /\ todo'[1] = a /\ Nth(2)' = b /\ Nth(3)' = c
<1> DEFINE list == <<a, b, c>>
<1>1. /\ list \in Seq(AnyStep) /\ Len(list) = 3
      /\ list[1] = a /\ list[2] = b /\ list[3] = c
      /\ Then(list)
  OBVIOUS
<1> HIDE DEF list
<1>2. TodoInv'
  <2>1. ASSUME NEW i \in 1..Len(list)
        PROVE  After(list[i], IF i < Len(list) THEN list[i + 1] ELSE Nth(2))
    <3>1. i = 1 \/ i = 2 \/ i = 3
      BY <1>1
    <3>2. QED
      BY <1>1, <3>1
  <2>2. QED
    BY <1>1, <2>1, ThenKeepsTodo
<1>3. ReadyInv'
  <2>1. ASSUME NEW i \in 1..Len(list)
        PROVE  /\ list[i].do # "set_status"
               /\ list[i].do \in ReadySteps => running /\ status' = "ok"
    <3>1. i = 1 \/ i = 2 \/ i = 3
      BY <1>1
    <3>2. QED
      BY <1>1, <3>1 DEF Ready
  <2>2. QED
    BY <1>1, <2>1, ThenKeepsReady
<1>8. OpenInv'
  <2>1. ASSUME NEW i \in 1..Len(list)
        PROVE  /\ list[i].do # "open"
               /\ {a.do, b.do, c.do} \subseteq Stopping => list[i].do \in Stopping
    <3>1. i = 1 \/ i = 2 \/ i = 3
      BY <1>1
    <3>2. QED
      BY <1>1, <3>1 DEF ReadySteps, TakingSteps
  <2>2. QED
    BY <1>1, <2>1, ThenKeepsOpen
<1>4. PICK L \in Nat, T \in Nat \ {0}, M \in Nat :
        /\ L = Len(list) /\ T = Len(todo) /\ M = Len(todo')
        /\ M = L + T - 1
        /\ todo' \in Seq(AnyStep)
        /\ \A i \in 1..L : todo'[i] = list[i]
        /\ \A j \in 2..T : todo'[j + L - 1] = todo[j]
  BY <1>1, ThenDoes DEF TodoInv
<1>5. Nth(2)' = b /\ Nth(3)' = c
  BY <1>1, <1>4 DEF Nth, Last, Step
<1>6. todo' # <<>> /\ todo'[1] = a
  <2>1. 1 \in 1..L /\ M # 0
    BY <1>1, <1>4
  <2>2. QED
    BY <1>1, <1>4, <2>1, LenZero
<1>7. QED
  BY <1>2, <1>3, <1>5, <1>6, <1>8

(* The host notifiers of queues lo to hi are open, for QEMU's main loop or   *)
(* for a backend, the others closed.                                        *)
Span(lo, hi, handler) ==
  \A q \in Queues : IF q \in lo..hi THEN Opened(q, handler) ELSE hn[q] = Closed

(* The same but for queue n, which is being closed. *)
SpanBut(lo, hi, handler, n) ==
  \A q \in Queues \ {n} :
    IF q \in lo..hi THEN Opened(q, handler) ELSE hn[q] = Closed

(* While queue n's is being closed, the step after that says which others   *)
(* are still open.                                                          *)
SpanBefore(n, next) ==
  /\ next.do = "unassign" => SpanBut(n, NQueues, TRUE, n)
  /\ next.do = "assign_error" => SpanBut(1, n, TRUE, n)
  /\ next.do = "give" => SpanBut(1, n, FALSE, n)
  /\ next.do \notin {"unassign", "assign_error", "give"} => SpanBut(n, n, FALSE, n)

(* Neither QEMU nor a backend serves the queues.                            *)
NobodyServes == ~started /\ ~active

(* Nothing is being opened or closed. *)
Settled ==
  /\ ~(started /\ active)
  /\ active => disabled
  /\ IF started THEN Span(1, NQueues, TRUE)
     ELSE IF active THEN Span(1, NQueues, FALSE)
     ELSE \A q \in Queues : hn[q] = Closed

(* What the first step finds, where a and b follow it. *)
Finds(s, a, b) ==
  /\ s.do \in {"unmask", "test_pending", "fire"} => Settled /\ (started \/ active => Ready)
  /\ s.do = "start" => Settled
  /\ s.do = "set_status" => Settled /\ (started => s.n = "ok" /\ running)
  /\ s.do = "clear" => Settled /\ NobodyServes
  /\ s.do = "assign" => Span(1, s.n - 1, TRUE) /\ NobodyServes
  /\ s.do = "assign_error" => Span(1, s.n, TRUE) /\ NobodyServes
  /\ s.do = "unassign" =>
       Span(s.n, NQueues, TRUE) /\ ~active /\ (s.n > 1 => ~started)
  /\ s.do = "delete" =>
       SpanBefore(s.n, b) /\ hn[s.n].ev # "closed" /\ NobodyServes
  /\ s.do = "flush" => SpanBefore(s.n, a) /\ ~hn[s.n].fast /\ NobodyServes
  /\ s.do = "take" => IF s.n = 1 THEN Settled /\ ~active
                      ELSE Span(1, s.n - 1, FALSE) /\ NobodyServes
  /\ s.do = "open" => Span(1, s.n - 1, FALSE) /\ NobodyServes
  /\ s.do = "give" => Span(1, s.n, FALSE) /\ NobodyServes
  /\ s.do = "backend_stop" => Settled /\ active
  /\ s.do \in GuestSteps => Span(1, NQueues, FALSE) /\ NobodyServes
  /\ s.do \in {"backend_start"} \cup SetGuestSteps => disabled

(* The notifiers are what the first step takes them for.                    *)
HeadInv ==
  IF todo = <<>> THEN Settled /\ (started \/ active => Ready)
  ELSE \A s \in {todo[1]}, a \in {Nth(2)}, b \in {Nth(3)} : Finds(s, a, b)

(* The inductive invariant of the host notifiers.                           *)
HostInv ==
  /\ hn \in [Queues -> Notifier]
  /\ TodoInv
  /\ ReadyInv
  /\ OpenInv
  /\ HeadInv

(* What is so of the first step found after a step. *)
LEMMA HeadIs ==
  ASSUME NEW s, NEW a, NEW b, todo' # <<>>, s = todo'[1], a = Nth(2)', b = Nth(3)',
         Finds(s, a, b)'
  PROVE  HeadInv'
BY DEF HeadInv

(* Closing a notifier, in two steps. *)
LEMMA DeleteKeepsHost ==
  ASSUME HostInv, DeleteEventfd, UNCHANGED pciVars
  PROVE  HostInv'
<1> DEFINE n == todo[1].n
<1>1. /\ todo # <<>> /\ todo[1].do = "delete" /\ Index = n
      /\ TodoInv /\ ReadyInv /\ OpenInv /\ hn \in [Queues -> Notifier]
  BY FirstStep DEF HostInv, DeleteEventfd, At, Index
<1>2. n \in Queues
  BY <1>1, FirstStep, CountedIndex DEF CountedSteps
<1>3. Nth(2) = Step("flush", n)
  BY <1>1, FirstStep DEF After, Unfinished, Last, Step, ClosingSteps, TakingSteps
<1>4. SpanBefore(n, Nth(3)) /\ hn[n].ev # "closed" /\ NobodyServes
  BY <1>1 DEF HostInv, HeadInv, Finds
<1>5. TodoInv' /\ ReadyInv' /\ OpenInv'
      /\ todo' # <<>> /\ todo'[1] = Step("flush", n) /\ Nth(2)' = Nth(3)
  <2>1. Then(<<>>) /\ UNCHANGED <<status, running, disabled>>
    BY DEF DeleteEventfd, pciVars
  <2>2. Nth(2) # Last
    BY <1>3 DEF Last, Step
  <2>3. QED
    BY <1>1, <1>3, <2>1, <2>2, ThenNothing
<1>6. /\ hn' \in [Queues -> Notifier] /\ ~hn'[n].fast
      /\ \A q \in Queues \ {n} : hn'[q] = hn[q]
      /\ UNCHANGED <<started, active, disabled>>
  BY <1>1, <1>2 DEF DeleteEventfd, Notifier
<1> PICK m : m = n
  OBVIOUS
<1> PICK next : next = Nth(3)
  OBVIOUS
<1>7. SpanBefore(m, next)'
  BY <1>4, <1>6 DEF SpanBefore, SpanBut, Opened
<1> PICK later : later = Nth(3)'
  OBVIOUS
<1>8. Finds(Step("flush", m), next, later)'
  BY <1>4, <1>6, <1>7 DEF Finds, Step, NobodyServes, GuestSteps, SetGuestSteps
<1>9. HeadInv'
  BY <1>5, <1>8, HeadIs
<1>10. QED
  BY <1>5, <1>6, <1>9 DEF HostInv

(* The second step of closing: the queues before or after it stay open.     *)
LEMMA FlushKeepsHost ==
  ASSUME HostInv, Flush, UNCHANGED pciVars
  PROVE  HostInv'
<1>1. /\ todo # <<>> /\ todo[1].do = "flush" /\ Index = todo[1].n
      /\ TodoInv /\ ReadyInv /\ OpenInv /\ hn \in [Queues -> Notifier]
  BY FirstStep DEF HostInv, Flush, At, Index
<1>2. PICK n \in Queues : n = todo[1].n
  BY <1>1, FirstStep, CountedIndex DEF CountedSteps
<1>3. PICK a : a = Nth(2)
  OBVIOUS
<1>4. SpanBefore(n, a) /\ ~hn[n].fast /\ NobodyServes
  BY <1>1, <1>2, <1>3 DEF HostInv, HeadInv, Finds
<1>5. /\ hn' \in [Queues -> Notifier] /\ hn'[n] = Closed
      /\ \A q \in Queues \ {n} : hn'[q] = hn[q]
      /\ UNCHANGED <<started, active, disabled>>
  BY <1>1, <1>2, <1>4, ZenonT(40) DEF Flush, Notifier, Closed
<1>6. /\ TodoInv' /\ ReadyInv' /\ OpenInv'
      /\ a = Last => todo' = <<>>
      /\ a # Last => todo' # <<>> /\ a = todo'[1]
  <2>1. Then(<<>>) /\ UNCHANGED <<status, running, disabled>>
    BY DEF Flush, pciVars
  <2>2. QED
    BY <1>1, <1>3, <2>1, ThenNothing
<1>7. /\ \/ a = Last
         \/ a.do = "unassign" /\ a.n = n + 1
         \/ a.do = "assign_error" /\ a.n = n - 1
         \/ a.do = "give" /\ a.n = n - 1
         \/ a = Step("open", 1)
         \/ a.do \in {"set_status", "start", "clear"}
      /\ a \in AnyStep \cup {Last}
  BY <1>1, <1>2, <1>3, FirstStep DEF After, Step, TakingSteps
<1>8. CASE a.do = "unassign" /\ a.n = n + 1
  <2>1. Span(n + 1, NQueues, TRUE)'
    BY <1>2, <1>4, <1>5, <1>8, NQueuesAssumption DEF SpanBefore, SpanBut, Span, Opened, Queues
  <2>2. Finds(a, Nth(2), Nth(3))'
    BY <1>4, <1>5, <1>8, <2>1 DEF Finds, NobodyServes, GuestSteps, SetGuestSteps
  <2>3. QED
    BY <1>5, <1>6, <1>8, <2>2, HeadIs DEF HostInv, Last, Step
<1>9. CASE a.do = "assign_error" /\ a.n = n - 1
  <2>1. Span(1, n - 1, TRUE)'
    BY <1>2, <1>4, <1>5, <1>9, NQueuesAssumption DEF SpanBefore, SpanBut, Span, Opened, Queues
  <2>2. Finds(a, Nth(2), Nth(3))'
    BY <1>4, <1>5, <1>9, <2>1 DEF Finds, NobodyServes, GuestSteps, SetGuestSteps
  <2>3. QED
    BY <1>5, <1>6, <1>9, <2>2, HeadIs DEF HostInv, Last, Step
<1>10. CASE a.do = "give" /\ a.n = n - 1
  <2>1. Span(1, n - 1, FALSE)'
    BY <1>2, <1>4, <1>5, <1>10, NQueuesAssumption DEF SpanBefore, SpanBut, Span, Opened, Queues
  <2>2. Finds(a, Nth(2), Nth(3))'
    BY <1>4, <1>5, <1>10, <2>1 DEF Finds, NobodyServes, GuestSteps, SetGuestSteps
  <2>3. QED
    BY <1>5, <1>6, <1>10, <2>2, HeadIs DEF HostInv, Last, Step
<1>11. CASE a.do \notin {"unassign", "assign_error", "give"}
  <2>1. \A q \in Queues : hn'[q] = Closed
    <3>1. SpanBut(n, n, FALSE, n)
      BY <1>4, <1>11 DEF SpanBefore
    <3>2. ASSUME NEW q \in Queues \ {n}
          PROVE  q \notin n..n
      BY <1>2, NQueuesAssumption DEF Queues
    <3>3. QED
      BY <1>5, <3>1, <3>2 DEF SpanBut
  <2>2. Settled' /\ NobodyServes' /\ ~started' /\ ~active'
    BY <1>4, <1>5, <2>1 DEF Settled, NobodyServes
  <2>3. CASE a = Last
    BY <1>5, <1>6, <2>2, <2>3 DEF HostInv, HeadInv
  <2>4. CASE a = Step("open", 1)
    <3> a.n = 1
      BY <2>4 DEF Step
    <3>1. Span(1, a.n - 1, FALSE)'
      BY <2>1 DEF Span
    <3>2. Finds(a, Nth(2), Nth(3))'
      BY <2>2, <2>4, <3>1 DEF Finds, Step, GuestSteps, SetGuestSteps
    <3>3. QED
      BY <1>5, <1>6, <2>4, <3>2, HeadIs DEF HostInv, Last, Step
  <2>5. CASE a.do \in {"set_status", "start", "clear"}
    <3>1. Finds(a, Nth(2), Nth(3))'
      BY <2>2, <2>5 DEF Finds, GuestSteps, SetGuestSteps
    <3>2. QED
      BY <1>5, <1>6, <2>5, <3>1, HeadIs DEF HostInv, Last, Step
  <2>6. QED
    BY <1>7, <1>11, <2>3, <2>4, <2>5
<1>12. QED
  BY <1>7, <1>8, <1>9, <1>10, <1>11 DEF Last, Step

(* Short lists, put together.                                               *)
LEMMA Lists ==
  ASSUME NEW a, NEW b, NEW c
  PROVE  /\ <<>> \o <<a>> = <<a>> /\ <<a>> \o <<b>> = <<a, b>>
         /\ <<a>> \o <<>> = <<a>>
         /\ <<a, b>> \o <<>> = <<a, b>> /\ <<a, b>> \o <<c>> = <<a, b, c>>
<1> DEFINE S == {a, b, c}
<1>1. <<>> \in Seq(S) /\ <<a>> \in Seq(S) /\ <<b>> \in Seq(S) /\ <<c>> \in Seq(S)
      /\ <<a, b>> \in Seq(S)
  OBVIOUS
<1> HIDE DEF S
<1>2. <<>> \o <<a>> = <<a>>
  BY <1>1, ConcatEmptySeq
<1>3. <<a>> \o <<b>> = <<a, b>>
  <2> DEFINE s == <<a>> \o <<b>>
             t == <<a, b>>
  <2>1. /\ s \in Seq(S) /\ t \in Seq(S) /\ Len(s) = 2 /\ Len(t) = 2
        /\ s[1] = t[1] /\ s[2] = t[2]
    BY <1>1
  <2> HIDE DEF s, t
  <2>2. \A i \in 1..2 : s[i] = t[i]
    BY <2>1
  <2>3. s = t
    BY <2>1, <2>2, SeqEqual
  <2>4. QED
    BY <2>3 DEF s, t
<1>4. <<a>> \o <<>> = <<a>>
  BY <1>1
<1>5. <<a, b>> \o <<>> = <<a, b>>
  BY <1>1, ConcatEmptySeq
<1>6. <<a, b>> \o <<c>> = <<a, b, c>>
  <2> DEFINE s == <<a, b>> \o <<c>>
             t == <<a, b, c>>
  <2>1. /\ s \in Seq(S) /\ t \in Seq(S) /\ Len(s) = 3 /\ Len(t) = 3
        /\ s[1] = t[1] /\ s[2] = t[2] /\ s[3] = t[3]
    BY <1>1 DEF S
  <2> HIDE DEF s, t
  <2>2. \A i \in 1..3 : s[i] = t[i]
    <3>1. \A i \in 1..3 : i = 1 \/ i = 2 \/ i = 3
      OBVIOUS
    <3>2. QED
      BY <2>1, <3>1
  <2>3. s = t
    BY <2>1, <2>2, SeqEqual
  <2>4. QED
    BY <2>3 DEF s, t
<1>7. QED
  BY <1>2, <1>3, <1>4, <1>5, <1>6

(* What closing a queue's notifier starts from. *)
LEMMA DeleteFinds ==
  ASSUME NEW n \in Queues, NEW next, NEW s,
         s = Step("delete", n), UNCHANGED hn,
         SpanBefore(n, next), hn[n].ev # "closed", NobodyServes',
         todo' # <<>>, s = todo'[1], next = Nth(3)'
  PROVE  HeadInv'
<1> PICK b : b = Nth(2)'
  OBVIOUS
<1>1. SpanBefore(n, next)'
  BY DEF SpanBefore, SpanBut, Opened
<1>2. Finds(s, b, next)'
  BY <1>1 DEF Finds, Step, GuestSteps, SetGuestSteps
<1>3. QED
  BY <1>2, HeadIs

(* virtio_pci_stop_ioeventfd takes the queues in order. *)
LEMMA UnassignKeepsHost ==
  ASSUME HostInv, UnassignNext, UNCHANGED pciVars
  PROVE  HostInv'
<1>1. /\ todo # <<>> /\ todo[1].do = "unassign" /\ Index = todo[1].n
      /\ TodoInv /\ ReadyInv /\ OpenInv /\ hn \in [Queues -> Notifier]
  BY FirstStep DEF HostInv, UnassignNext, At, Index
<1>2. PICK n \in Queues : n = todo[1].n
  BY <1>1, FirstStep, CountedIndex DEF CountedSteps
<1>3. Span(n, NQueues, TRUE) /\ ~active
  BY <1>1, <1>2 DEF HostInv, HeadInv, Finds
<1>4. NobodyServes' /\ UNCHANGED <<hn, status, running, disabled>>
  BY <1>3 DEF UnassignNext, NobodyServes, pciVars
<1>5. n \in Nat /\ NQueues \in Nat /\ 1 <= n /\ n <= NQueues
  BY <1>2, NQueuesAssumption DEF Queues
<1>6. hn[n].ev # "closed"
  BY <1>2, <1>3, <1>5 DEF Span, Opened
<1>7. After(todo[1], Nth(2))
  BY <1>1, FirstStep
<1> DEFINE d == Step("delete", n)
           f == Step("flush", n)
           u == Step("unassign", n + 1)
<1>8. CASE n + 1 <= NQueues
  <2>1. Then(<<d, f, u>>)
    <3>1. Unassign(Index) = <<d, f>> /\ Up("unassign", Index + 1, <<>>) = <<u>>
      BY <1>1, <1>2, <1>8 DEF Unassign, Up
    <3>2. QED
      BY <3>1, Lists, ZenonT(40) DEF UnassignNext
  <2>2. d \in AnyStep /\ f \in AnyStep /\ u \in AnyStep
    BY <1>5, <1>8 DEF AnyStep, Step, CountedSteps, Queues
  <2>3. After(d, f) /\ After(f, u) /\ After(u, Nth(2))
    BY <1>1, <1>7 DEF After, Step, ClosingSteps, TakingSteps, Unfinished
  <2>4. /\ {d.do, f.do, u.do} \cap (ReadySteps \cup {"set_status"}) = {}
        /\ {d.do, f.do, u.do} \subseteq Stopping
    BY DEF ReadySteps, TakingSteps, Stopping, Step
  <2>5. /\ TodoInv' /\ ReadyInv' /\ OpenInv'
        /\ todo' # <<>> /\ todo'[1] = d /\ Nth(3)' = u
    BY <1>1, <1>4, <2>1, <2>2, <2>3, <2>4, ThenThree, ZenonT(40)
  <2>6. SpanBefore(n, u)
    BY <1>2, <1>3 DEF SpanBefore, SpanBut, Span, Step
  <2>7. QED
    BY <1>1, <1>2, <1>4, <1>6, <2>5, <2>6, DeleteFinds DEF HostInv
<1>9. CASE n = NQueues
  <2>1. Then(<<d, f>>)
    <3>1. Unassign(Index) = <<d, f>> /\ Up("unassign", Index + 1, <<>>) = <<>>
      BY <1>1, <1>2, <1>5, <1>9 DEF Unassign, Up
    <3>2. QED
      BY <3>1, Lists DEF UnassignNext
  <2>2. d \in AnyStep /\ f \in AnyStep
    BY <1>5, <1>9 DEF AnyStep, Step, CountedSteps, Queues
  <2>3. After(d, f) /\ After(f, Nth(2))
    BY <1>1, <1>7 DEF After, Step, ClosingSteps, TakingSteps, Unfinished
  <2>4. {d.do, f.do} \cap (ReadySteps \cup {"set_status"}) = {} /\ {d.do, f.do} \subseteq Stopping
        /\ d.do # "open" /\ f.do # "open"
    BY DEF ReadySteps, TakingSteps, Stopping, Step
  <2>5. /\ TodoInv' /\ ReadyInv' /\ OpenInv'
        /\ todo' # <<>> /\ todo'[1] = d /\ Nth(3)' = Nth(2)
    BY <1>1, <1>4, <2>1, <2>2, <2>3, <2>4, ThenTwo
  <2>6. PICK a : a = Nth(2)
    OBVIOUS
  <2>7. a.do \notin {"unassign", "assign_error", "give"}
    BY <1>1, <1>7, <2>6 DEF After, Step, Last, TakingSteps
  <2>8. SpanBefore(n, a)
    <3>1. \A q \in Queues \ {n} : hn[q] = Closed
      <4>1. \A q \in Queues \ {n} : q \notin n..NQueues
        BY <1>5, <1>9 DEF Queues
      <4>2. QED
        BY <1>3, <4>1 DEF Span
    <3>2. \A q \in Queues \ {n} : q \notin n..n
      BY <1>5 DEF Queues
    <3>3. QED
      BY <2>7, <3>1, <3>2 DEF SpanBefore, SpanBut
  <2>9. QED
    BY <1>1, <1>2, <1>4, <1>6, <2>5, <2>6, <2>8, DeleteFinds DEF HostInv
<1>10. QED
  BY <1>5, <1>8, <1>9

(* When a notifier cannot be opened, the earlier ones are closed again. *)
LEMMA AssignErrorKeepsHost ==
  ASSUME HostInv, AssignError, UNCHANGED pciVars
  PROVE  HostInv'
<1>1. /\ todo # <<>> /\ todo[1].do = "assign_error" /\ Index = todo[1].n
      /\ TodoInv /\ ReadyInv /\ OpenInv /\ hn \in [Queues -> Notifier]
  BY FirstStep DEF HostInv, AssignError, At, Index
<1>2. PICK n \in Queues : n = todo[1].n
  BY <1>1, FirstStep, CountedIndex DEF CountedSteps
<1>3. Span(1, n, TRUE) /\ NobodyServes
  BY <1>1, <1>2 DEF HostInv, HeadInv, Finds
<1>4. NobodyServes' /\ UNCHANGED <<hn, status, running>>
  BY <1>3 DEF AssignError, NobodyServes, pciVars
<1>5. n \in Nat /\ NQueues \in Nat /\ 1 <= n /\ n <= NQueues
  BY <1>2, NQueuesAssumption DEF Queues
<1>6. hn[n].ev # "closed"
  BY <1>2, <1>3, <1>5 DEF Span, Opened
<1>7. After(todo[1], Nth(2))
  BY <1>1, FirstStep
<1> DEFINE d == Step("delete", n)
           f == Step("flush", n)
           e == Step("assign_error", n - 1)
<1>8. CASE n - 1 > 0
  <2>1. Then(<<d, f, e>>)
    <3>1. Unassign(Index) = <<d, f>> /\ Down("assign_error", Index - 1, <<>>) = <<e>>
      BY <1>1, <1>2, <1>8 DEF Unassign, Down
    <3>2. QED
      BY <3>1, Lists, ZenonT(40) DEF AssignError
  <2>2. d \in AnyStep /\ f \in AnyStep /\ e \in AnyStep
    BY <1>5, <1>8 DEF AnyStep, Step, CountedSteps, Queues
  <2>3. After(d, f) /\ After(f, e) /\ After(e, Nth(2))
    BY <1>1, <1>7 DEF After, Step, ClosingSteps, TakingSteps, Unfinished
  <2>4. {d.do, f.do, e.do} \cap (ReadySteps \cup {"set_status"}) = {} /\ todo[1].do \notin Stopping
    BY <1>1 DEF ReadySteps, TakingSteps, Stopping, Step
  <2>5. /\ TodoInv' /\ ReadyInv' /\ OpenInv'
        /\ todo' # <<>> /\ todo'[1] = d /\ Nth(3)' = e
    BY <1>1, <1>4, <2>1, <2>2, <2>3, <2>4, ThenThree
  <2>6. SpanBefore(n, e)
    BY <1>2, <1>3 DEF SpanBefore, SpanBut, Span, Step
  <2>7. QED
    BY <1>1, <1>2, <1>4, <1>6, <2>5, <2>6, DeleteFinds DEF HostInv
<1>9. CASE n = 1
  <2>1. Then(<<d, f>>)
    <3>1. Unassign(Index) = <<d, f>> /\ Down("assign_error", Index - 1, <<>>) = <<>>
      BY <1>1, <1>2, <1>9 DEF Unassign, Down
    <3>2. QED
      BY <3>1, Lists DEF AssignError
  <2>2. d \in AnyStep /\ f \in AnyStep
    BY <1>5, <1>9 DEF AnyStep, Step, CountedSteps, Queues
  <2>3. After(d, f) /\ After(f, Nth(2))
    BY <1>1, <1>7 DEF After, Step, ClosingSteps, TakingSteps, Unfinished
  <2>4. /\ {d.do, f.do} \cap (ReadySteps \cup {"set_status"}) = {} /\ todo[1].do \notin Stopping
        /\ d.do # "open" /\ f.do # "open"
    BY <1>1 DEF ReadySteps, TakingSteps, Stopping, Step
  <2>5. /\ TodoInv' /\ ReadyInv' /\ OpenInv'
        /\ todo' # <<>> /\ todo'[1] = d /\ Nth(3)' = Nth(2)
    BY <1>1, <1>4, <2>1, <2>2, <2>3, <2>4, ThenTwo
  <2>6. PICK a : a = Nth(2)
    OBVIOUS
  <2>7. a.do \notin {"unassign", "assign_error", "give"}
    BY <1>1, <1>7, <2>6 DEF After, Step, Last, TakingSteps
  <2>8. SpanBefore(n, a)
    <3>1. \A q \in Queues \ {n} : q \notin 1..n
      BY <1>5, <1>9 DEF Queues
    <3>2. \A q \in Queues \ {n} : hn[q] = Closed
      BY <1>3, <3>1 DEF Span
    <3>3. QED
      BY <1>9, <2>7, <3>1, <3>2 DEF SpanBefore, SpanBut
  <2>9. QED
    BY <1>1, <1>2, <1>4, <1>6, <2>5, <2>6, <2>8, DeleteFinds DEF HostInv
<1>10. QED
  BY <1>5, <1>8, <1>9

(* A backend gives the notifiers back, those of all queues or those it has got. *)
LEMMA GiveBackKeepsHost ==
  ASSUME HostInv, GiveBack, UNCHANGED pciVars
  PROVE  HostInv'
<1>1. /\ todo # <<>> /\ todo[1].do = "give" /\ Index = todo[1].n
      /\ TodoInv /\ ReadyInv /\ OpenInv /\ hn \in [Queues -> Notifier]
  BY FirstStep DEF HostInv, GiveBack, At, Index
<1>2. PICK n \in Queues : n = todo[1].n
  BY <1>1, FirstStep, CountedIndex DEF CountedSteps
<1>3. Span(1, n, FALSE) /\ NobodyServes
  BY <1>1, <1>2 DEF HostInv, HeadInv, Finds
<1>4. NobodyServes' /\ UNCHANGED <<hn, status, running>>
  BY <1>3 DEF GiveBack, NobodyServes, pciVars
<1>5. n \in Nat /\ NQueues \in Nat /\ 1 <= n /\ n <= NQueues
  BY <1>2, NQueuesAssumption DEF Queues
<1>6. hn[n].ev # "closed"
  BY <1>2, <1>3, <1>5 DEF Span, Opened
<1>7. After(todo[1], Nth(2))
  BY <1>1, FirstStep
<1> DEFINE d == Step("delete", n)
           f == Step("flush", n)
           e == Step("give", n - 1)
<1>8. CASE n - 1 > 0
  <2>1. Then(<<d, f, e>>)
    <3>1. Unassign(Index) = <<d, f>> /\ Down("give", Index - 1, <<>>) = <<e>>
      BY <1>1, <1>2, <1>8 DEF Unassign, Down
    <3>2. QED
      BY <3>1, Lists, ZenonT(40) DEF GiveBack
  <2>2. d \in AnyStep /\ f \in AnyStep /\ e \in AnyStep
    BY <1>5, <1>8 DEF AnyStep, Step, CountedSteps, Queues
  <2>3. After(d, f) /\ After(f, e) /\ After(e, Nth(2))
    BY <1>1, <1>7 DEF After, Step, ClosingSteps, TakingSteps, Unfinished
  <2>4. {d.do, f.do, e.do} \cap (ReadySteps \cup {"set_status"}) = {} /\ todo[1].do \notin Stopping
    BY <1>1 DEF ReadySteps, TakingSteps, Stopping, Step
  <2>5. /\ TodoInv' /\ ReadyInv' /\ OpenInv'
        /\ todo' # <<>> /\ todo'[1] = d /\ Nth(3)' = e
    BY <1>1, <1>4, <2>1, <2>2, <2>3, <2>4, ThenThree
  <2>6. SpanBefore(n, e)
    BY <1>2, <1>3 DEF SpanBefore, SpanBut, Span, Step
  <2>7. QED
    BY <1>1, <1>2, <1>4, <1>6, <2>5, <2>6, DeleteFinds DEF HostInv
<1>9. CASE n = 1
  <2>1. Then(<<d, f>>)
    <3>1. Unassign(Index) = <<d, f>> /\ Down("give", Index - 1, <<>>) = <<>>
      BY <1>1, <1>2, <1>9 DEF Unassign, Down
    <3>2. QED
      BY <3>1, Lists DEF GiveBack
  <2>2. d \in AnyStep /\ f \in AnyStep
    BY <1>5, <1>9 DEF AnyStep, Step, CountedSteps, Queues
  <2>3. After(d, f) /\ After(f, Nth(2))
    BY <1>1, <1>7 DEF After, Step, ClosingSteps, TakingSteps, Unfinished
  <2>4. /\ {d.do, f.do} \cap (ReadySteps \cup {"set_status"}) = {} /\ todo[1].do \notin Stopping
        /\ d.do # "open" /\ f.do # "open"
    BY <1>1 DEF ReadySteps, TakingSteps, Stopping, Step
  <2>5. /\ TodoInv' /\ ReadyInv' /\ OpenInv'
        /\ todo' # <<>> /\ todo'[1] = d /\ Nth(3)' = Nth(2)
    BY <1>1, <1>4, <2>1, <2>2, <2>3, <2>4, ThenTwo
  <2>6. PICK a : a = Nth(2)
    OBVIOUS
  <2>7. a.do \notin {"unassign", "assign_error", "give"}
    BY <1>1, <1>7, <2>6 DEF After, Step, Last, TakingSteps
  <2>8. SpanBefore(n, a)
    <3>1. \A q \in Queues \ {n} : q \notin 1..n
      BY <1>5, <1>9 DEF Queues
    <3>2. \A q \in Queues \ {n} : hn[q] = Closed
      BY <1>3, <3>1 DEF Span
    <3>3. QED
      BY <1>9, <2>7, <3>1, <3>2 DEF SpanBefore, SpanBut
  <2>9. QED
    BY <1>1, <1>2, <1>4, <1>6, <2>5, <2>6, <2>8, DeleteFinds DEF HostInv
<1>10. QED
  BY <1>5, <1>8, <1>9

(* A ready step finds the driver ready. *)
LEMMA ReadyNow ==
  ASSUME TodoInv, ReadyInv, todo # <<>>, todo[1].do \in ReadySteps
  PROVE  Ready
<1>1. 1 \in 1..Len(todo)
  <2>1. PICK T \in Nat : T = Len(todo) /\ T # 0
    BY LenZero DEF TodoInv
  <2>2. QED
    BY <2>1
<1>2. QED
  BY <1>1 DEF ReadyInv, Ready

(* Settled and Span are about the notifiers and the three flags only.       *)
LEMMA SettledKept ==
  ASSUME Settled, UNCHANGED <<hn, started, active, disabled>>
  PROVE  Settled'
BY DEF Settled, Span, Opened

(* The same of Span.                                                        *)
LEMMA SpanKept ==
  ASSUME NEW lo, NEW hi, NEW handler, Span(lo, hi, handler), UNCHANGED hn
  PROVE  Span(lo, hi, handler)'
BY DEF Span, Opened

(* No queue is before the first one. *)
LEMMA SpanNone ==
  ASSUME NEW handler
  PROVE  Span(1, 0, handler) <=> \A q \in Queues : hn[q] = Closed
BY DEF Span, Queues

(* One more notifier is opened. *)
LEMMA OpenExtends ==
  ASSUME hn \in [Queues -> Notifier], NEW n \in Queues, NEW handler \in BOOLEAN,
         Span(1, n - 1, handler), OpenNotifier(n, handler)
  PROVE  Span(1, n, handler)' /\ hn' \in [Queues -> Notifier]
<1>1. /\ hn' \in [Queues -> Notifier]
      /\ hn'[n] = [ev |-> "set", handler |-> handler, fast |-> TRUE]
      /\ \A q \in Queues \ {n} : hn'[q] = hn[q]
  BY DEF OpenNotifier, Notifier
<1>2. \A q \in Queues \ {n} : q \in 1..n <=> q \in 1..n - 1
  BY NQueuesAssumption DEF Queues
<1>3. n \in 1..n
  BY NQueuesAssumption DEF Queues
<1>4. QED
  BY <1>1, <1>2, <1>3 DEF Span, Opened

(* virtio_pci_start_ioeventfd goes to work only when nobody serves. *)
LEMMA StartKeepsHost ==
  ASSUME HostInv, StartIoeventfd, UNCHANGED pciVars
  PROVE  HostInv'
<1>1. /\ todo # <<>> /\ todo[1].do = "start"
      /\ TodoInv /\ ReadyInv /\ OpenInv /\ hn \in [Queues -> Notifier]
  BY FirstStep DEF HostInv, StartIoeventfd, At
<1>2. Ready /\ Settled
  BY <1>1, ReadyNow DEF HostInv, HeadInv, Finds, ReadySteps
<1>3. Nth(2) = Last
  BY <1>1, FirstStep DEF After, Last, Step, ClosingSteps, TakingSteps
<1>4. /\ UNCHANGED <<hn, started, active, disabled, status, running>>
      /\ Settled' /\ todo[1].do \notin Stopping
  BY <1>1, <1>2, SettledKept DEF StartIoeventfd, hostVars, pciVars, Stopping
<1>5. CASE ~useIoeventfd \/ disabled \/ started
  <2>1. Then(<<>>)
    BY <1>5 DEF StartIoeventfd, StartSteps
  <2>2. TodoInv' /\ ReadyInv' /\ OpenInv' /\ todo' = <<>>
    BY <1>1, <1>3, <1>4, <2>1, ThenNothing
  <2>3. QED
    BY <1>1, <1>2, <1>4, <2>2 DEF HostInv, HeadInv, Ready
<1>6. CASE ~(~useIoeventfd \/ disabled \/ started)
  <2> DEFINE a == Step("assign", 1)
  <2>1. Then(<<a>>)
    BY <1>6 DEF StartIoeventfd, StartSteps
  <2>2. a \in AnyStep /\ After(a, Nth(2)) /\ a.do # "set_status" /\ a.do # "open"
    BY <1>3, NQueuesAssumption DEF AnyStep, CountedSteps, Queues, Step, After, Unfinished
  <2>3. TodoInv' /\ ReadyInv' /\ OpenInv' /\ todo' # <<>> /\ todo'[1] = a
    BY <1>1, <1>2, <1>4, <2>1, <2>2, ThenOne
  <2>4. ~started /\ ~active
    BY <1>2, <1>6 DEF Settled
  <2>5. Span(1, 0, TRUE)' /\ NobodyServes'
    BY <1>2, <1>4, <2>4, SpanNone, SpanKept DEF Settled, NobodyServes
  <2>6. PICK b, c : b = Nth(2)' /\ c = Nth(3)'
    OBVIOUS
  <2>7. a.n - 1 = 0 /\ a.do = "assign"
    BY DEF Step
  <2>8. Finds(a, b, c)'
    BY <2>5, <2>7 DEF Finds, GuestSteps, SetGuestSteps
  <2>9. QED
    BY <1>1, <1>4, <2>3, <2>6, <2>8, HeadIs DEF HostInv
<1>7. QED
  BY <1>5, <1>6

(* virtio_pci_start_ioeventfd opens the notifiers in order, or turns back.  *)
LEMMA AssignKeepsHost ==
  ASSUME HostInv, AssignNext, UNCHANGED pciVars
  PROVE  HostInv'
<1>1. /\ todo # <<>> /\ todo[1].do = "assign" /\ Index = todo[1].n
      /\ TodoInv /\ ReadyInv /\ OpenInv /\ hn \in [Queues -> Notifier]
  BY FirstStep DEF HostInv, AssignNext, At, Index
<1>2. PICK n \in Queues : n = todo[1].n
  BY <1>1, FirstStep, CountedIndex DEF CountedSteps
<1>3. Span(1, n - 1, TRUE) /\ NobodyServes /\ Ready
  BY <1>1, <1>2, ReadyNow DEF HostInv, HeadInv, Finds, ReadySteps
<1>4. /\ UNCHANGED <<active, disabled, status, running>>
      /\ ~active' /\ Ready' /\ todo[1].do \notin Stopping
  BY <1>1, <1>3 DEF AssignNext, pciVars, Stopping, NobodyServes, Ready
<1>5. n \in Nat /\ NQueues \in Nat /\ 1 <= n /\ n <= NQueues
  BY <1>2, NQueuesAssumption DEF Queues
<1>6. Nth(2) = Last
  BY <1>1, FirstStep DEF After, Last, Step, ClosingSteps, TakingSteps
<1>7. CASE OpenNotifier(n, TRUE) /\ started' = (n = NQueues) /\ Then(Up("assign", n + 1, <<>>))
  <2>1. Span(1, n, TRUE)' /\ hn' \in [Queues -> Notifier]
    BY <1>1, <1>3, <1>7, OpenExtends
  <2>2. CASE n + 1 <= NQueues
    <3> DEFINE a == Step("assign", n + 1)
    <3>1. Then(<<a>>)
      BY <1>7, <2>2 DEF Up
    <3>2. a \in AnyStep /\ After(a, Nth(2)) /\ a.do # "set_status" /\ a.do # "open"
      BY <1>5, <1>6, <2>2 DEF AnyStep, CountedSteps, Queues, Step, After, Unfinished
    <3>3. TodoInv' /\ ReadyInv' /\ OpenInv' /\ todo' # <<>> /\ todo'[1] = a
      BY <1>1, <1>3, <1>4, <3>1, <3>2, ThenOne
    <3>4. PICK b, c : b = Nth(2)' /\ c = Nth(3)'
      OBVIOUS
    <3>5. a.n - 1 = n /\ a.do = "assign" /\ n # NQueues
      BY <1>5, <2>2 DEF Step
    <3>6. Finds(a, b, c)'
      BY <1>4, <1>7, <2>1, <3>5 DEF Finds, GuestSteps, SetGuestSteps, NobodyServes
    <3>7. QED
      BY <2>1, <3>3, <3>4, <3>6, HeadIs DEF HostInv
  <2>3. CASE n = NQueues
    <3>1. Then(<<>>)
      BY <1>5, <1>7, <2>3 DEF Up
    <3>2. TodoInv' /\ ReadyInv' /\ OpenInv' /\ todo' = <<>>
      BY <1>1, <1>4, <1>6, <3>1, ThenNothing
    <3>3. Settled'
      BY <1>4, <1>7, <2>1, <2>3 DEF Settled
    <3>4. QED
      BY <1>4, <2>1, <3>2, <3>3 DEF HostInv, HeadInv
  <2>4. QED
    BY <1>5, <2>2, <2>3
<1>8. CASE Then(Down("assign_error", n - 1, <<>>)) /\ UNCHANGED <<hn, started>>
  <2>1. CASE n - 1 > 0
    <3> DEFINE a == Step("assign_error", n - 1)
    <3>1. Then(<<a>>)
      BY <1>8, <2>1 DEF Down
    <3>2. a \in AnyStep /\ After(a, Nth(2)) /\ a.do \notin ReadySteps
          /\ a.do # "set_status" /\ a.do # "open"
      BY <1>5, <1>6, <2>1 DEF AnyStep, CountedSteps, Queues, Step, After, Unfinished,
                              ReadySteps, TakingSteps
    <3>3. TodoInv' /\ ReadyInv' /\ OpenInv' /\ todo' # <<>> /\ todo'[1] = a
      BY <1>1, <1>4, <3>1, <3>2, ThenOne
    <3>4. PICK b, c : b = Nth(2)' /\ c = Nth(3)'
      OBVIOUS
    <3>5. a.n = n - 1 /\ a.do = "assign_error"
      BY DEF Step
    <3>6. Span(1, n - 1, TRUE)' /\ NobodyServes'
      BY <1>3, <1>4, <1>8, SpanKept DEF NobodyServes
    <3>7. Finds(a, b, c)'
      BY <3>5, <3>6 DEF Finds, GuestSteps, SetGuestSteps
    <3>8. QED
      BY <1>1, <1>8, <3>3, <3>4, <3>7, HeadIs DEF HostInv
  <2>2. CASE n = 1
    <3>1. Then(<<>>)
      BY <1>8, <2>2 DEF Down
    <3>2. TodoInv' /\ ReadyInv' /\ OpenInv' /\ todo' = <<>>
      BY <1>1, <1>4, <1>6, <3>1, ThenNothing
    <3>3. n - 1 = 0
      BY <2>2
    <3>4. Settled /\ ~started
      BY <1>3, <3>3, SpanNone DEF Settled, NobodyServes
    <3>5. Settled' /\ ~started'
      BY <1>4, <1>8, <3>4, SettledKept
    <3>6. QED
      BY <1>1, <1>4, <1>8, <3>2, <3>5 DEF HostInv, HeadInv
  <2>3. QED
    BY <1>5, <2>1, <2>2
<1>9. QED
  BY <1>1, <1>2, <1>7, <1>8 DEF AssignNext

(* virtio_pci_set_host_notifier stops ioeventfd before it opens a notifier. *)
LEMMA TakeKeepsHost ==
  ASSUME HostInv, TakeNext, UNCHANGED pciVars
  PROVE  HostInv'
<1>1. /\ todo # <<>> /\ todo[1].do = "take" /\ Index = todo[1].n
      /\ TodoInv /\ ReadyInv /\ OpenInv /\ hn \in [Queues -> Notifier]
  BY FirstStep DEF HostInv, TakeNext, At, Index
<1>2. PICK n \in Queues : n = todo[1].n
  BY <1>1, FirstStep, CountedIndex DEF CountedSteps
<1>3. /\ Ready
      /\ IF n = 1 THEN Settled /\ ~active ELSE Span(1, n - 1, FALSE) /\ NobodyServes
  BY <1>1, <1>2, ReadyNow DEF HostInv, HeadInv, Finds, ReadySteps, TakingSteps
<1>4. /\ UNCHANGED <<hn, started, active, status, running>> /\ disabled'
      /\ todo[1].do \notin Stopping /\ Then(StopSteps \o <<Step("open", n)>>)
  BY <1>1, <1>2 DEF TakeNext, pciVars, Stopping
<1>5. n \in Nat /\ NQueues \in Nat /\ 1 <= n /\ n <= NQueues
  BY <1>2, NQueuesAssumption DEF Queues
<1>6. After(todo[1], Nth(2))
  BY <1>1, FirstStep
<1> DEFINE a == Step("open", n)
           u == Step("unassign", 1)
<1>7. /\ a \in AnyStep /\ u \in AnyStep /\ After(a, Nth(2))
      /\ a.do = "open" /\ a.n = n /\ u.do = "unassign" /\ u.n = 1
  BY <1>1, <1>5, <1>6 DEF AnyStep, CountedSteps, Queues, Step, After, Unfinished, TakingSteps,
                          ClosingSteps
<1>8. CASE started
  <2>1. n = 1 /\ Span(1, NQueues, TRUE) /\ ~active
    BY <1>3, <1>8 DEF Settled, NobodyServes
  <2>2. Then(<<u, a>>)
    BY <1>4, <1>8, Lists DEF StopSteps
  <2>3. After(u, a)
    BY <2>1 DEF After, Step
  <2>4. /\ TodoInv' /\ ReadyInv' /\ OpenInv' /\ todo' # <<>> /\ todo'[1] = u
    BY <1>1, <1>3, <1>4, <1>7, <2>2, <2>3, ThenTwo DEF ReadySteps, TakingSteps, Stopping
  <2>5. PICK b, c : b = Nth(2)' /\ c = Nth(3)'
    OBVIOUS
  <2>6. PICK s : s = u
    OBVIOUS
  <2>7. Finds(s, b, c)'
    <3>1. s.do = "unassign" /\ s.n = 1
      BY <1>7, <2>6
    <3>2. Span(s.n, NQueues, TRUE)
      BY <2>1, <3>1
    <3>3. Span(s.n, NQueues, TRUE)'
      BY <1>4, <3>2, SpanKept
    <3>4. ~(s.n > 1) /\ ~active'
      BY <1>4, <2>1, <3>1
    <3>5. QED
      BY <3>1, <3>3, <3>4 DEF Finds, GuestSteps, SetGuestSteps
  <2>8. QED
    BY <1>1, <1>4, <2>4, <2>5, <2>6, <2>7, HeadIs DEF HostInv
<1>9. CASE ~started
  <2>1. Span(1, n - 1, FALSE) /\ NobodyServes
    <3>1. CASE n = 1
      <4>1. n - 1 = 0
        BY <3>1
      <4>2. QED
        BY <1>3, <1>9, <3>1, <4>1, SpanNone DEF Settled, NobodyServes
    <3>2. QED
      BY <1>3, <3>1
  <2>2. Then(<<a>>)
    BY <1>4, <1>9, Lists DEF StopSteps
  <2>3. /\ TodoInv' /\ ReadyInv' /\ OpenInv' /\ todo' # <<>> /\ todo'[1] = a
    BY <1>1, <1>3, <1>4, <1>7, <2>2, ThenOne
  <2>4. PICK b, c : b = Nth(2)' /\ c = Nth(3)'
    OBVIOUS
  <2>5. Span(1, n - 1, FALSE)' /\ NobodyServes'
    BY <1>4, <2>1, SpanKept DEF NobodyServes
  <2>6. Finds(a, b, c)'
    BY <1>7, <2>5 DEF Finds, GuestSteps, SetGuestSteps
  <2>7. QED
    BY <1>1, <1>4, <2>3, <2>4, <2>6, HeadIs DEF HostInv
<1>10. QED
  BY <1>8, <1>9

(* A backend opens a notifier of its own, or gives back those before it.    *)
LEMMA TakeOpenKeepsHost ==
  ASSUME HostInv, TakeOpen, UNCHANGED pciVars
  PROVE  HostInv'
<1>1. /\ todo # <<>> /\ todo[1].do = "open" /\ Index = todo[1].n
      /\ TodoInv /\ ReadyInv /\ OpenInv /\ hn \in [Queues -> Notifier]
  BY FirstStep DEF HostInv, TakeOpen, At, Index
<1>2. PICK n \in Queues : n = todo[1].n
  BY <1>1, FirstStep, CountedIndex DEF CountedSteps
<1>3. Span(1, n - 1, FALSE) /\ NobodyServes /\ Ready /\ disabled
  <2>1. 1 \in 1..Len(todo)
    <3>1. PICK T \in Nat : T = Len(todo) /\ T # 0
      BY <1>1, LenZero DEF TodoInv
    <3>2. QED
      BY <3>1
  <2>2. disabled
    BY <1>1, <2>1 DEF OpenInv
  <2>3. Ready
    BY <1>1, ReadyNow DEF ReadySteps, TakingSteps
  <2>4. QED
    BY <1>1, <1>2, <2>2, <2>3 DEF HostInv, HeadInv, Finds
<1>4. /\ UNCHANGED <<started, active, disabled, status, running>>
      /\ disabled' /\ Ready' /\ NobodyServes' /\ todo[1].do \notin Stopping
  BY <1>1, <1>3 DEF TakeOpen, pciVars, Stopping, NobodyServes, Ready
<1>5. n \in Nat /\ NQueues \in Nat /\ 1 <= n /\ n <= NQueues
  BY <1>2, NQueuesAssumption DEF Queues
<1>6. After(todo[1], Nth(2))
  BY <1>1, FirstStep
<1>7. CASE OpenNotifier(n, FALSE) /\ Then(Up("take", n + 1, <<Step("set_guest", 1)>>))
  <2>1. Span(1, n, FALSE)' /\ hn' \in [Queues -> Notifier]
    BY <1>1, <1>3, <1>7, OpenExtends
  <2>2. CASE n + 1 <= NQueues
    <3> DEFINE a == Step("take", n + 1)
    <3>1. Then(<<a>>)
      BY <1>7, <2>2 DEF Up
    <3>2. a \in AnyStep /\ After(a, Nth(2)) /\ a.do # "set_status" /\ a.do # "open"
      BY <1>1, <1>5, <1>6, <2>2 DEF AnyStep, CountedSteps, Queues, Step, After, Unfinished,
                                   TakingSteps, ClosingSteps
    <3>3. TodoInv' /\ ReadyInv' /\ OpenInv' /\ todo' # <<>> /\ todo'[1] = a
      BY <1>1, <1>3, <1>4, <3>1, <3>2, ThenOne
    <3>4. PICK b, c : b = Nth(2)' /\ c = Nth(3)'
      OBVIOUS
    <3>5. a.n - 1 = n /\ a.do = "take" /\ a.n # 1
      BY <1>5, <2>2 DEF Step
    <3>6. Finds(a, b, c)'
      BY <1>4, <2>1, <3>5 DEF Finds, GuestSteps, SetGuestSteps
    <3>7. QED
      BY <2>1, <3>3, <3>4, <3>6, HeadIs DEF HostInv
  <2>3. CASE n = NQueues
    <3> DEFINE a == Step("set_guest", 1)
    <3>1. Then(<<a>>)
      BY <1>5, <1>7, <2>3 DEF Up
    <3>2. a \in AnyStep /\ After(a, Nth(2)) /\ a.do # "set_status" /\ a.do # "open"
      BY <1>1, <1>5, <1>6, <2>3 DEF AnyStep, CountedSteps, Queues, Step, After, Unfinished,
                                   TakingSteps, ClosingSteps
    <3>3. TodoInv' /\ ReadyInv' /\ OpenInv' /\ todo' # <<>> /\ todo'[1] = a
      BY <1>1, <1>3, <1>4, <3>1, <3>2, ThenOne
    <3>4. PICK b, c : b = Nth(2)' /\ c = Nth(3)'
      OBVIOUS
    <3>5. a.do = "set_guest"
      BY DEF Step
    <3>6. Finds(a, b, c)'
      BY <1>4, <2>1, <2>3, <3>5 DEF Finds
    <3>7. QED
      BY <2>1, <3>3, <3>4, <3>6, HeadIs DEF HostInv
  <2>4. QED
    BY <1>5, <2>2, <2>3
<1>8. CASE Then(Down("give", n - 1, <<>>)) /\ UNCHANGED hn
  <2>1. Span(1, n - 1, FALSE)'
    BY <1>3, <1>8, SpanKept
  <2>2. CASE n - 1 > 0
    <3> DEFINE a == Step("give", n - 1)
    <3>1. Then(<<a>>)
      BY <1>8, <2>2 DEF Down
    <3>2. a \in AnyStep /\ After(a, Nth(2)) /\ a.do \notin ReadySteps
          /\ a.do # "set_status" /\ a.do # "open"
      BY <1>1, <1>5, <1>6, <2>2 DEF AnyStep, CountedSteps, Queues, Step, After, Unfinished,
                                   ReadySteps, TakingSteps, ClosingSteps
    <3>3. TodoInv' /\ ReadyInv' /\ OpenInv' /\ todo' # <<>> /\ todo'[1] = a
      BY <1>1, <1>4, <3>1, <3>2, ThenOne
    <3>4. PICK b, c : b = Nth(2)' /\ c = Nth(3)'
      OBVIOUS
    <3>5. a.n = n - 1 /\ a.do = "give"
      BY DEF Step
    <3>6. Finds(a, b, c)'
      BY <1>4, <2>1, <3>5 DEF Finds, GuestSteps, SetGuestSteps
    <3>7. QED
      BY <1>1, <1>8, <3>3, <3>4, <3>6, HeadIs DEF HostInv
  <2>3. CASE n = 1
    <3>1. Then(<<>>)
      BY <1>8, <2>3 DEF Down
    <3>2. PICK a : a = Nth(2)
      OBVIOUS
    <3>3. /\ TodoInv' /\ ReadyInv' /\ OpenInv'
          /\ a = Last => todo' = <<>>
          /\ a # Last => todo' # <<>> /\ a = todo'[1]
      BY <1>1, <1>4, <3>1, <3>2, ThenNothing
    <3>4. n - 1 = 0
      BY <2>3
    <3>5. Settled /\ ~started
      BY <1>3, <3>4, SpanNone DEF Settled, NobodyServes
    <3>6. Settled' /\ ~started'
      BY <1>4, <1>8, <3>5, SettledKept
    <3>7. CASE a = Last
      BY <1>1, <1>4, <1>8, <3>3, <3>6, <3>7 DEF HostInv, HeadInv
    <3>8. CASE a # Last
      <4>1. a.do = "start"
        BY <1>1, <1>6, <3>2, <3>8 DEF After, ClosingSteps
      <4>2. PICK b, c : b = Nth(2)' /\ c = Nth(3)'
        OBVIOUS
      <4>3. Finds(a, b, c)'
        BY <3>6, <4>1 DEF Finds, GuestSteps, SetGuestSteps
      <4>4. QED
        BY <1>1, <1>8, <3>3, <3>8, <4>2, <4>3, HeadIs DEF HostInv
    <3>9. QED
      BY <3>7, <3>8
  <2>4. QED
    BY <1>5, <2>2, <2>3
<1>9. QED
  BY <1>1, <1>2, <1>7, <1>8 DEF TakeOpen

(* While a backend's guest notifiers are set up or taken down, all host     *)
(* notifiers are its own.                                                   *)
LEMMA TakenFinds ==
  ASSUME NEW s, NEW b, NEW c,
         s.do \in GuestSteps \/ s = Step("give", NQueues),
         Span(1, NQueues, FALSE)', NobodyServes',
         s.do \in {"backend_start"} \cup SetGuestSteps => disabled'
  PROVE  Finds(s, b, c)'
<1>1. CASE s.do \in GuestSteps
  BY <1>1 DEF Finds, GuestSteps, SetGuestSteps
<1>2. CASE s = Step("give", NQueues)
  <2>1. s.do = "give" /\ s.n = NQueues
    BY <1>2 DEF Step
  <2>2. Span(1, s.n, FALSE)'
    BY <2>1 DEF Span
  <2>3. QED
    BY <2>1, <2>2 DEF Finds, GuestSteps, SetGuestSteps
<1>3. QED
  BY <1>1, <1>2

(* What holds of the host while a backend deals with guest notifiers.       *)
LEMMA TakenState ==
  ASSUME HostInv, todo # <<>>, todo[1].do \in GuestSteps, UNCHANGED <<hostVars, pciVars>>
  PROVE  /\ Span(1, NQueues, FALSE)' /\ NobodyServes'
         /\ UNCHANGED <<hn, disabled, status, running>>
         /\ todo[1].do \in {"backend_start"} \cup SetGuestSteps => (disabled' /\ Ready)
         /\ todo[1].do \notin Stopping
<1>1. /\ Span(1, NQueues, FALSE) /\ NobodyServes
      /\ todo[1].do \in {"backend_start"} \cup SetGuestSteps => disabled
  BY DEF HostInv, HeadInv, Finds
<1>2. todo[1].do \in {"backend_start"} \cup SetGuestSteps => Ready
  <2>1. {"backend_start"} \cup SetGuestSteps \subseteq ReadySteps
    BY DEF SetGuestSteps, ReadySteps, TakingSteps
  <2>2. QED
    BY <2>1, ReadyNow DEF HostInv
<1>3. UNCHANGED <<hn, started, active, disabled, status, running>>
  BY DEF hostVars, pciVars
<1>4. Span(1, NQueues, FALSE)' /\ NobodyServes'
  BY <1>1, <1>3, SpanKept DEF NobodyServes
<1>5. QED
  BY <1>1, <1>2, <1>3, <1>4 DEF GuestSteps, SetGuestSteps, Stopping

(* One step of that leads to another ...                                    *)
LEMMA TakenOne ==
  ASSUME HostInv, todo # <<>>, todo[1].do \in GuestSteps, UNCHANGED <<hostVars, pciVars>>,
         NEW a \in AnyStep, Then(<<a>>), After(a, Nth(2)),
         a.do \in GuestSteps \/ a = Step("give", NQueues),
         a.do \in {"backend_start"} \cup SetGuestSteps => todo[1].do \in SetGuestSteps
  PROVE  HostInv'
<1>1. /\ Span(1, NQueues, FALSE)' /\ NobodyServes'
      /\ UNCHANGED <<hn, disabled, status, running>>
      /\ todo[1].do \in {"backend_start"} \cup SetGuestSteps => disabled' /\ Ready
      /\ todo[1].do \notin Stopping
  BY TakenState
<1>2. /\ a.do # "set_status" /\ a.do # "open"
      /\ a.do \in ReadySteps => a.do \in {"backend_start"} \cup SetGuestSteps
      /\ todo[1].do # "set_status"
  BY DEF GuestSteps, SetGuestSteps, ReadySteps, TakingSteps, Step
<1>3. TodoInv' /\ ReadyInv' /\ OpenInv' /\ todo' # <<>> /\ todo'[1] = a
  BY <1>1, <1>2, ThenOne DEF HostInv
<1>4. PICK b, c : b = Nth(2)' /\ c = Nth(3)'
  OBVIOUS
<1>5. Finds(a, b, c)'
  BY <1>1, TakenFinds
<1>6. QED
  BY <1>1, <1>3, <1>4, <1>5, HeadIs DEF HostInv

(* ... or to two ...                                                        *)
LEMMA TakenTwo ==
  ASSUME HostInv, todo # <<>>, todo[1].do \in GuestSteps, UNCHANGED <<hostVars, pciVars>>,
         NEW a \in AnyStep, NEW b \in AnyStep, Then(<<a, b>>),
         After(a, b), After(b, Nth(2)),
         a.do \in GuestSteps, b.do \in GuestSteps,
         {a.do, b.do} \cap ({"backend_start"} \cup SetGuestSteps) = {}
  PROVE  HostInv'
<1>1. /\ Span(1, NQueues, FALSE)' /\ NobodyServes'
      /\ UNCHANGED <<hn, disabled, status, running>>
      /\ todo[1].do \notin Stopping
  BY TakenState
<1>2. /\ "set_status" \notin {a.do, b.do} /\ a.do # "open" /\ b.do # "open"
      /\ a.do \notin ReadySteps /\ b.do \notin ReadySteps
      /\ todo[1].do # "set_status"
  BY DEF GuestSteps, SetGuestSteps, ReadySteps, TakingSteps
<1>3. TodoInv' /\ ReadyInv' /\ OpenInv' /\ todo' # <<>> /\ todo'[1] = a
  BY <1>1, <1>2, ThenTwo DEF HostInv
<1>4. PICK d, c : d = Nth(2)' /\ c = Nth(3)'
  OBVIOUS
<1>5. Finds(a, d, c)'
  BY <1>1, TakenFinds
<1>6. QED
  BY <1>1, <1>3, <1>4, <1>5, HeadIs DEF HostInv

(* ... or to the one after it.                                              *)
LEMMA TakenNothing ==
  ASSUME HostInv, todo # <<>>, UNCHANGED <<hostVars, pciVars>>, Then(<<>>),
         todo[1].do \in {"vector_release", "unset_vector_notifiers", "unset_guest"}
  PROVE  HostInv'
<1>1. todo[1].do \in GuestSteps
  BY DEF GuestSteps
<1>2. /\ Span(1, NQueues, FALSE)' /\ NobodyServes'
      /\ UNCHANGED <<hn, disabled, status, running>>
      /\ todo[1].do \notin Stopping
  BY <1>1, TakenState
<1>3. PICK a : a = Nth(2)
  OBVIOUS
<1>4. /\ a # Last
      /\ \/ a.do \in GuestSteps /\ a.do \notin {"backend_start"} \cup SetGuestSteps
         \/ a = Step("give", NQueues)
  BY <1>3, FirstStep
     DEF HostInv, After, Last, Step, GuestSteps, SetGuestSteps, ClosingSteps, TakingSteps,
         Unfinished
<1>5. TodoInv' /\ ReadyInv' /\ OpenInv' /\ todo' # <<>> /\ todo'[1] = a
  BY <1>2, <1>3, <1>4, ThenNothing DEF HostInv
<1>6. PICK b, c : b = Nth(2)' /\ c = Nth(3)'
  OBVIOUS
<1>7. a.do \notin {"backend_start"} \cup SetGuestSteps
  BY <1>4 DEF Step, SetGuestSteps
<1>8. Finds(a, b, c)'
  BY <1>2, <1>4, <1>7, TakenFinds
<1>9. QED
  BY <1>2, <1>5, <1>6, <1>8, HeadIs DEF HostInv

(* What follows a failed set-up of queue n + 1's notifier. *)
LEMMA FailedIs ==
  ASSUME NEW n \in 0..NQueues
  PROVE  \E a \in AnyStep :
           /\ Failed(n) = <<a>>
           /\ \/ n > 0 /\ a = Step("unset_error", n)
              \/ n = 0 /\ a = Step("give", NQueues)
<1> n \in Nat /\ NQueues \in Nat \ {0} /\ n <= NQueues
  BY NQueuesAssumption
<1> DEFINE e == Step("unset_error", n)
           g == Step("give", NQueues)
<1>1. CASE n > 0
  <2>1. e \in AnyStep
    BY <1>1 DEF AnyStep, CountedSteps, Step, Queues
  <2>2. Failed(n) = <<e>>
    BY <1>1 DEF Failed, Down
  <2>3. QED
    BY <1>1, <2>1, <2>2
<1>2. CASE n = 0
  <2>1. g \in AnyStep
    BY DEF AnyStep, CountedSteps, Step, Queues
  <2>2. Failed(n) = <<g>>
    BY <1>2, SMTT(30) DEF Failed, Down
  <2>3. QED
    BY <1>2, <2>1, <2>2
<1>3. QED
  BY <1>1, <1>2

(* virtio_pci_set_guest_notifier, assign, for one queue.                    *)
LEMMA SetGuestKeepsHost ==
  ASSUME HostInv, SetGuestNext, UNCHANGED <<hostVars, pciVars>>
  PROVE  HostInv'
<1>1. /\ todo # <<>> /\ todo[1].do = "set_guest" /\ Index = todo[1].n
      /\ TodoInv
  BY FirstStep DEF HostInv, SetGuestNext, At, Index
<1>2. PICK n \in Queues : n = todo[1].n
  BY <1>1, FirstStep, CountedIndex DEF CountedSteps
<1>3. n \in Nat /\ NQueues \in Nat /\ 1 <= n /\ n <= NQueues
  BY <1>2, NQueuesAssumption DEF Queues
<1>4. After(todo[1], Nth(2)) /\ todo[1].do \in GuestSteps
  BY <1>1, FirstStep DEF GuestSteps, SetGuestSteps
<1>5. CASE Then(Up("set_guest", n + 1, GuestAssigned))
  <2>1. \E a \in AnyStep : Then(<<a>>) /\ a.do \in {"backend_start"} \cup SetGuestSteps
    <3>1. CASE n + 1 <= NQueues
      <4>1. Step("set_guest", n + 1) \in AnyStep
        BY <1>3, <3>1 DEF AnyStep, CountedSteps, Step, Queues
      <4>2. Then(<<Step("set_guest", n + 1)>>)
        BY <1>5, <3>1 DEF Up
      <4>3. QED
        BY <4>1, <4>2 DEF Step, SetGuestSteps
    <3>2. CASE ~(n + 1 <= NQueues)
      <4>1. Then(GuestAssigned)
        BY <1>5, <3>2 DEF Up
      <4>2. Step("vector_use", 1) \in AnyStep /\ Step("set_vector_notifiers", 0) \in AnyStep
            /\ Step("backend_start", 0) \in AnyStep
        BY <1>3 DEF AnyStep, CountedSteps, PlainSteps, Step, Queues
      <4>3. QED
        BY <4>1, <4>2 DEF GuestAssigned, Step, SetGuestSteps
    <3>3. QED
      BY <3>1, <3>2
  <2>2. PICK a \in AnyStep : Then(<<a>>) /\ a.do \in {"backend_start"} \cup SetGuestSteps
    BY <2>1
  <2>3. After(a, Nth(2))
    BY <1>1, <1>4, <2>2
       DEF After, Step, SetGuestSteps, ClosingSteps, TakingSteps, Unfinished
  <2>4. QED
    BY <1>1, <1>4, <2>2, <2>3, TakenOne DEF GuestSteps, SetGuestSteps
<1>6. CASE Then(Failed(n - 1))
  <2>1. n - 1 \in 0..NQueues
    BY <1>3
  <2>2. PICK a \in AnyStep :
           /\ Failed(n - 1) = <<a>>
           /\ \/ n - 1 > 0 /\ a = Step("unset_error", n - 1)
              \/ n - 1 = 0 /\ a = Step("give", NQueues)
    BY <2>1, FailedIs
  <2>3. After(a, Nth(2))
    BY <1>1, <1>4, <2>2 DEF After, Step, ClosingSteps, TakingSteps, Unfinished
  <2>4. QED
    BY <1>1, <1>4, <1>6, <2>2, <2>3, TakenOne DEF GuestSteps, SetGuestSteps, Step
<1>7. QED
  BY <1>1, <1>2, <1>5, <1>6 DEF SetGuestNext

(* assign_error of virtio_pci_set_guest_notifiers.                          *)
LEMMA GuestErrorKeepsHost ==
  ASSUME HostInv, AssignGuestError, UNCHANGED <<hostVars, pciVars>>
  PROVE  HostInv'
<1>1. /\ todo # <<>> /\ todo[1].do = "unset_error" /\ Index = todo[1].n
      /\ TodoInv
  BY FirstStep DEF HostInv, AssignGuestError, At, Index
<1>2. PICK n \in Queues : n = todo[1].n
  BY <1>1, FirstStep, CountedIndex DEF CountedSteps
<1>3. n - 1 \in 0..NQueues
  BY <1>2, NQueuesAssumption DEF Queues
<1>4. After(todo[1], Nth(2)) /\ todo[1].do \in GuestSteps
  BY <1>1, FirstStep DEF GuestSteps
<1>5. PICK a \in AnyStep :
           /\ Failed(n - 1) = <<a>>
           /\ \/ n - 1 > 0 /\ a = Step("unset_error", n - 1)
              \/ n - 1 = 0 /\ a = Step("give", NQueues)
  BY <1>3, FailedIs
<1>6. After(a, Nth(2))
  BY <1>1, <1>4, <1>5 DEF After, Step, ClosingSteps, TakingSteps, Unfinished
<1>7. Then(<<a>>)
  BY <1>1, <1>2, <1>5 DEF AssignGuestError
<1>8. QED
  BY <1>1, <1>4, <1>5, <1>6, <1>7, TakenOne DEF GuestSteps, SetGuestSteps, Step

(* The undo of the routes ends with the notifiers of all queues.            *)
LEMMA UndoKeepsHost ==
  ASSUME HostInv, todo # <<>>, todo[1].do \in {"vector_use", "undo"},
         NEW n \in Queues, Then(Undo(n)), UNCHANGED <<hostVars, pciVars>>
  PROVE  HostInv'
<1>1. TodoInv /\ After(todo[1], Nth(2)) /\ todo[1].do \in GuestSteps
  BY FirstStep DEF HostInv, GuestSteps, SetGuestSteps
<1>2. n \in Nat /\ NQueues \in Nat \ {0} /\ 1 <= n /\ n <= NQueues
  BY NQueuesAssumption DEF Queues
<1>3. \E a \in AnyStep : Undo(n) = <<a>> /\ a.do \in {"undo", "unset_error"}
  <2>1. CASE n - 1 > 0
    <3>1. Step("undo", n - 1) \in AnyStep
      BY <1>2, <2>1 DEF AnyStep, CountedSteps, Step, Queues
    <3>2. Undo(n) = <<Step("undo", n - 1)>>
      BY <2>1 DEF Undo, Down
    <3>3. QED
      BY <3>1, <3>2 DEF Step
  <2>2. CASE ~(n - 1 > 0)
    <3>1. Step("unset_error", NQueues) \in AnyStep
      BY <1>2 DEF AnyStep, CountedSteps, Step, Queues
    <3>2. Undo(n) = <<Step("unset_error", NQueues)>>
      BY <1>2, <2>2 DEF Undo, Down, Failed
    <3>3. QED
      BY <3>1, <3>2 DEF Step
  <2>3. QED
    BY <2>1, <2>2
<1>4. PICK a \in AnyStep : Undo(n) = <<a>> /\ a.do \in {"undo", "unset_error"}
  BY <1>3
<1>5. After(a, Nth(2))
  BY <1>1, <1>4, SMTT(30) DEF After, Step, ClosingSteps, TakingSteps, Unfinished
<1>6. QED
  BY <1>1, <1>4, <1>5, TakenOne DEF GuestSteps, SetGuestSteps

(* kvm_virtio_pci_vector_use, for one queue.                                *)
LEMMA VectorUseKeepsHost ==
  ASSUME HostInv, VectorUseNext, UNCHANGED <<hostVars, pciVars>>
  PROVE  HostInv'
<1>1. /\ todo # <<>> /\ todo[1].do = "vector_use" /\ Index = todo[1].n
      /\ TodoInv
  BY FirstStep DEF HostInv, VectorUseNext, At, Index
<1>2. PICK n \in Queues : n = todo[1].n
  BY <1>1, FirstStep, CountedIndex DEF CountedSteps
<1>3. n \in Nat /\ NQueues \in Nat /\ 1 <= n /\ n <= NQueues
  BY <1>2, NQueuesAssumption DEF Queues
<1>4. After(todo[1], Nth(2)) /\ todo[1].do \in GuestSteps
  BY <1>1, FirstStep DEF GuestSteps, SetGuestSteps
<1>5. CASE Then(Up("vector_use", n + 1, <<Step("set_vector_notifiers", 0)>>))
  <2>1. \E a \in AnyStep : Then(<<a>>) /\ a.do \in SetGuestSteps
    <3>1. CASE n + 1 <= NQueues
      <4>1. Step("vector_use", n + 1) \in AnyStep
        BY <1>3, <3>1 DEF AnyStep, CountedSteps, Step, Queues
      <4>2. Then(<<Step("vector_use", n + 1)>>)
        BY <1>5, <3>1 DEF Up
      <4>3. QED
        BY <4>1, <4>2 DEF Step, SetGuestSteps
    <3>2. CASE ~(n + 1 <= NQueues)
      <4>1. Then(<<Step("set_vector_notifiers", 0)>>)
        BY <1>5, <3>2 DEF Up
      <4>2. Step("set_vector_notifiers", 0) \in AnyStep
        BY DEF AnyStep, PlainSteps, Step
      <4>3. QED
        BY <4>1, <4>2 DEF Step, SetGuestSteps
    <3>3. QED
      BY <3>1, <3>2
  <2>2. PICK a \in AnyStep : Then(<<a>>) /\ a.do \in SetGuestSteps
    BY <2>1
  <2>3. After(a, Nth(2))
    BY <1>1, <1>4, <2>2
       DEF After, Step, SetGuestSteps, ClosingSteps, TakingSteps, Unfinished
  <2>4. QED
    BY <1>1, <1>4, <2>2, <2>3, TakenOne DEF GuestSteps, SetGuestSteps
<1>6. CASE Then(Undo(n))
  BY <1>1, <1>6, UndoKeepsHost
<1>7. QED
  BY <1>1, <1>2, <1>5, <1>6, SMTT(30) DEF VectorUseNext

(* Its undo.                                                                *)
LEMMA VectorUndoKeepsHost ==
  ASSUME HostInv, VectorUndo, UNCHANGED <<hostVars, pciVars>>
  PROVE  HostInv'
<1>1. /\ todo # <<>> /\ todo[1].do = "undo" /\ Index = todo[1].n
      /\ TodoInv
  BY FirstStep DEF HostInv, VectorUndo, At, Index
<1>2. PICK n \in Queues : n = todo[1].n
  BY <1>1, FirstStep, CountedIndex DEF CountedSteps
<1>3. Then(Undo(n))
  BY <1>1, <1>2 DEF VectorUndo
<1>4. QED
  BY <1>1, <1>3, UndoKeepsHost

(* A round over the queues that leaves the rest of the handler to do. *)
LEMMA RoundKeepsHost ==
  ASSUME HostInv, todo # <<>>, NEW d \in {"vector_release", "unset_guest"},
         todo[1].do = d, Then(Up(d, todo[1].n + 1, <<>>)), UNCHANGED <<hostVars, pciVars>>
  PROVE  HostInv'
<1>1. TodoInv /\ After(todo[1], Nth(2)) /\ todo[1].do \in GuestSteps
  BY FirstStep DEF HostInv, GuestSteps
<1>2. PICK n \in Queues : n = todo[1].n
  BY <1>1, FirstStep, CountedIndex DEF CountedSteps
<1>3. n \in Nat /\ NQueues \in Nat /\ 1 <= n /\ n <= NQueues
  BY <1>2, NQueuesAssumption DEF Queues
<1>4. CASE n + 1 <= NQueues
  <2> DEFINE a == Step(d, n + 1)
  <2>1. Then(<<a>>) /\ a \in AnyStep /\ a.do = d
    BY <1>2, <1>3, <1>4 DEF Up, AnyStep, CountedSteps, Step, Queues
  <2>2. After(a, Nth(2))
    BY <1>1, <2>1 DEF After, ClosingSteps, TakingSteps, Unfinished
  <2>3. QED
    BY <1>1, <2>1, <2>2, TakenOne DEF GuestSteps, SetGuestSteps
<1>5. CASE ~(n + 1 <= NQueues)
  <2>1. Then(<<>>)
    BY <1>2, <1>5 DEF Up
  <2>2. QED
    BY <1>1, <2>1, TakenNothing
<1>6. QED
  BY <1>4, <1>5

(* msix_set_vector_notifiers and msix_unset_vector_notifiers.               *)
LEMMA VectorNotifiersKeepHost ==
  ASSUME HostInv, SetVectorNotifiers, UNCHANGED <<hostVars, pciVars>>
  PROVE  HostInv'
<1>1. /\ todo # <<>> /\ todo[1].do = "set_vector_notifiers" /\ TodoInv
      /\ NQueues \in 1..NQueues
  BY FirstStep, NQueuesAssumption DEF HostInv, SetVectorNotifiers, At
<1>2. After(todo[1], Nth(2)) /\ todo[1].do \in GuestSteps
  BY <1>1, FirstStep DEF GuestSteps, SetGuestSteps
<1> DEFINE e == Step("unset_error", NQueues)
           r == Step("vector_release", 1)
           b == Step("backend_start", 0)
<1>3. /\ e \in AnyStep /\ r \in AnyStep /\ b \in AnyStep
      /\ e.do = "unset_error" /\ r.do = "vector_release" /\ b.do = "backend_start"
  BY <1>1, NQueuesAssumption DEF AnyStep, CountedSteps, PlainSteps, Step, Queues
<1>4. After(e, Nth(2)) /\ After(b, Nth(2)) /\ After(r, e)
  BY <1>1, <1>2, <1>3 DEF After, Step, ClosingSteps, TakingSteps, Unfinished
<1>5. Failed(NQueues) = <<e>>
  BY NQueuesAssumption DEF Failed, Down
<1>6. CASE Then(<<b>>)
  BY <1>1, <1>2, <1>3, <1>4, <1>6, TakenOne DEF GuestSteps, SetGuestSteps
<1>7. CASE Then(<<r>> \o Failed(NQueues))
  <2>1. Then(<<r, e>>)
    BY <1>5, <1>7, Lists
  <2>2. QED
    BY <1>1, <1>2, <1>3, <1>4, <2>1, TakenTwo DEF GuestSteps, SetGuestSteps
<1>8. QED
  BY <1>6, <1>7 DEF SetVectorNotifiers

(* The guest notifiers do nothing to the host notifiers. *)
LEMMA GuestNotifiersKeepHost ==
  ASSUME HostInv, SetGuestNotifiers, UNCHANGED <<hostVars, pciVars>>
  PROVE  HostInv'
<1>1. CASE VectorReleaseNext
  <2>1. todo # <<>> /\ todo[1].do = "vector_release" /\ Index = todo[1].n
    BY <1>1, FirstStep DEF HostInv, VectorReleaseNext, At, Index
  <2>2. QED
    BY <1>1, <2>1, RoundKeepsHost DEF VectorReleaseNext
<1>2. CASE UnsetGuestNext
  <2>1. todo # <<>> /\ todo[1].do = "unset_guest" /\ Index = todo[1].n
    BY <1>2, FirstStep DEF HostInv, UnsetGuestNext, At, Index
  <2>2. QED
    BY <1>2, <2>1, RoundKeepsHost DEF UnsetGuestNext
<1>3. CASE UnsetVectorNotifiers
  <2>1. todo # <<>> /\ todo[1].do = "unset_vector_notifiers" /\ Then(<<>>)
    BY <1>3, FirstStep DEF HostInv, UnsetVectorNotifiers, At
  <2>2. QED
    BY <2>1, TakenNothing
<1>4. QED
  BY <1>1, <1>2, <1>3, SetGuestKeepsHost, GuestErrorKeepsHost, VectorUseKeepsHost,
     VectorUndoKeepsHost, VectorNotifiersKeepHost DEF SetGuestNotifiers

(* There is a first queue among some.                                       *)
LEMMA LeastQueue ==
  ASSUME NEW T \in SUBSET Queues, T # {}
  PROVE  \E x \in T : \A y \in T : x <= y
<1> DEFINE R == {ss \in Nat \X Nat : ss[1] < ss[2]}
<1>1. IsWellFoundedOn(R, Nat)
  <2>1. IsWellFoundedOn(OpToRel(<, Nat), Nat)
    BY NatLessThanWellFounded, Zenon
  <2>2. OpToRel(<, Nat) = R
    BY DEF OpToRel
  <2>3. QED
    BY <2>1, <2>2, Zenon
<1>2. T \in SUBSET Nat
  BY NQueuesAssumption DEF Queues
<1>3. PICK x \in T : \A y \in T : ~(<<y, x>> \in R)
  <2> HIDE DEF R
  <2> QED BY <1>1, <1>2, WFMin
<1>4. ASSUME NEW y \in T PROVE x <= y
  <2>1. x \in Nat /\ y \in Nat
    BY <1>2
  <2>2. ~(<<y, x>> \in R)
    <3> HIDE DEF R
    <3> QED BY <1>3
  <2>3. QED
    BY <2>1, <2>2
<1>5. QED
  BY <1>4

(* The next queue to unmask for a vector is a queue, if there is one.       *)
LEMMA NextSharingIs ==
  ASSUME NEW v, NEW n
  PROVE  \/ /\ NextSharing(v, n) = <<>>
            /\ \A p \in Queues : ~(gn[p].vector = v /\ p > n)
         \/ \E q \in Queues : /\ NextSharing(v, n) = <<Step("unmask", q)>>
                              /\ gn[q].vector = v /\ q > n
                              /\ \A p \in Queues : gn[p].vector = v /\ p > n => q <= p
<1> DEFINE rest == {q \in Sharing(v) : q > n}
           first == CHOOSE q \in rest : \A p \in rest : q <= p
<1>1. rest \in SUBSET Queues
  BY DEF Sharing
<1>2. CASE rest = {}
  <2>1. NextSharing(v, n) = <<>>
    BY <1>2 DEF NextSharing
  <2>2. \A p \in Queues : ~(gn[p].vector = v /\ p > n)
    BY <1>2 DEF Sharing
  <2>3. QED
    BY <2>1, <2>2
<1>3. CASE rest # {}
  <2>1. first \in rest /\ \A p \in rest : first <= p
    <3> HIDE DEF rest
    <3>1. \E q \in rest : \A p \in rest : q <= p
      BY <1>1, <1>3, LeastQueue
    <3>2. QED
      BY <3>1
  <2>2. NextSharing(v, n) = <<Step("unmask", first)>>
    BY <1>3 DEF NextSharing
  <2>3. QED
    BY <1>1, <2>1, <2>2 DEF Sharing
<1>4. QED
  BY <1>2, <1>3

(* The steps of virtio_pci_vector_unmask and after it.                      *)
UnmaskingSteps == {"unmask", "test_pending", "fire"}

(* Unmasking goes on whoever serves the queues. *)
LEMMA UnmaskingState ==
  ASSUME HostInv, todo # <<>>, todo[1].do \in UnmaskingSteps, UNCHANGED <<hostVars, pciVars>>
  PROVE  /\ Settled' /\ (started \/ active => Ready)'
         /\ UNCHANGED <<hn, disabled, status, running>>
         /\ todo[1].do \notin Stopping /\ todo[1].do # "set_status"
<1>1. Settled /\ (started \/ active => Ready)
  BY DEF HostInv, HeadInv, Finds, UnmaskingSteps
<1>2. UNCHANGED <<hn, started, active, disabled, status, running>>
  BY DEF hostVars, pciVars
<1>3. QED
  BY <1>1, <1>2, SettledKept DEF UnmaskingSteps, Stopping, Ready

(* Unmasking asks of the host what holds between handlers.                  *)
LEMMA UnmaskingFinds ==
  ASSUME NEW s, NEW a, NEW b, s.do \in UnmaskingSteps,
         Settled', (started \/ active => Ready)'
  PROVE  Finds(s, a, b)'
BY DEF Finds, UnmaskingSteps, GuestSteps, SetGuestSteps

(* A step of it ends, ...                                                   *)
LEMMA UnmaskingNothing ==
  ASSUME HostInv, todo # <<>>, todo[1].do \in UnmaskingSteps, UNCHANGED <<hostVars, pciVars>>,
         Then(<<>>)
  PROVE  HostInv'
<1>1. /\ Settled' /\ (started \/ active => Ready)'
      /\ UNCHANGED <<hn, disabled, status, running>>
      /\ todo[1].do \notin Stopping /\ todo[1].do # "set_status"
  BY UnmaskingState
<1>2. PICK a : a = Nth(2)
  OBVIOUS
<1>3. a # Last => a.do \in UnmaskingSteps
  BY <1>2, FirstStep
     DEF HostInv, After, Last, Step, UnmaskingSteps, ClosingSteps, TakingSteps
<1>4. /\ TodoInv' /\ ReadyInv' /\ OpenInv'
      /\ a = Last => todo' = <<>>
      /\ a # Last => todo' # <<>> /\ a = todo'[1]
  BY <1>1, <1>2, ThenNothing DEF HostInv
<1>5. CASE a = Last
  BY <1>1, <1>4, <1>5 DEF HostInv, HeadInv
<1>6. CASE a # Last
  <2>1. PICK b, c : b = Nth(2)' /\ c = Nth(3)'
    OBVIOUS
  <2>2. Finds(a, b, c)'
    BY <1>1, <1>3, <1>6, UnmaskingFinds
  <2>3. QED
    BY <1>1, <1>4, <1>6, <2>1, <2>2, HeadIs DEF HostInv
<1>7. QED
  BY <1>5, <1>6

(* ... leads to another ...                                                 *)
LEMMA UnmaskingOne ==
  ASSUME HostInv, todo # <<>>, todo[1].do \in UnmaskingSteps \ {"fire"},
         UNCHANGED <<hostVars, pciVars>>,
         NEW a \in AnyStep, a.do \in UnmaskingSteps \ {"fire"}, Then(<<a>>)
  PROVE  HostInv'
<1>1. /\ Settled' /\ (started \/ active => Ready)'
      /\ UNCHANGED <<hn, disabled, status, running>>
      /\ todo[1].do \notin Stopping /\ todo[1].do # "set_status"
  BY UnmaskingState
<1>2. /\ After(a, Nth(2))
      /\ a.do \notin ReadySteps /\ a.do # "set_status" /\ a.do # "open"
  BY FirstStep
     DEF HostInv, After, Last, Step, UnmaskingSteps, ClosingSteps, TakingSteps, ReadySteps,
         Unfinished
<1>3. TodoInv' /\ ReadyInv' /\ OpenInv' /\ todo' # <<>> /\ todo'[1] = a
  BY <1>1, <1>2, ThenOne DEF HostInv
<1>4. PICK b, c : b = Nth(2)' /\ c = Nth(3)'
  OBVIOUS
<1>5. Finds(a, b, c)'
  BY <1>1, UnmaskingFinds
<1>6. QED
  BY <1>1, <1>3, <1>4, <1>5, HeadIs DEF HostInv

(* ... or to two.                                                           *)
LEMMA UnmaskingTwo ==
  ASSUME HostInv, todo # <<>>, todo[1].do \in UnmaskingSteps \ {"fire"},
         UNCHANGED <<hostVars, pciVars>>,
         NEW a \in AnyStep, a.do \in UnmaskingSteps \ {"fire"},
         NEW d \in AnyStep, d.do \in UnmaskingSteps \ {"fire"}, Then(<<a, d>>)
  PROVE  HostInv'
<1>1. /\ Settled' /\ (started \/ active => Ready)'
      /\ UNCHANGED <<hn, disabled, status, running>>
      /\ todo[1].do \notin Stopping /\ todo[1].do # "set_status"
  BY UnmaskingState
<1>2. /\ After(a, d) /\ After(d, Nth(2))
      /\ a.do \notin ReadySteps /\ d.do \notin ReadySteps
      /\ "set_status" \notin {a.do, d.do} /\ a.do # "open" /\ d.do # "open"
  BY FirstStep
     DEF HostInv, After, Last, Step, UnmaskingSteps, ClosingSteps, TakingSteps, ReadySteps,
         Unfinished
<1>3. TodoInv' /\ ReadyInv' /\ OpenInv' /\ todo' # <<>> /\ todo'[1] = a
  BY <1>1, <1>2, ThenTwo DEF HostInv
<1>4. PICK b, c : b = Nth(2)' /\ c = Nth(3)'
  OBVIOUS
<1>5. Finds(a, b, c)'
  BY <1>1, UnmaskingFinds
<1>6. QED
  BY <1>1, <1>3, <1>4, <1>5, HeadIs DEF HostInv

(* virtio_pci_vector_unmask and what msix.c does after it.                  *)
LEMMA UnmaskingKeepsHost ==
  ASSUME HostInv, Unmasking, UNCHANGED <<hostVars, pciVars>>
  PROVE  HostInv'
<1>1. CASE UnmaskNext
  <2>1. todo # <<>> /\ todo[1].do = "unmask" /\ Index = todo[1].n /\ TodoInv
    BY <1>1, FirstStep DEF HostInv, UnmaskNext, At, Index
  <2>2. PICK n \in Queues : n = todo[1].n
    BY <2>1, FirstStep, CountedIndex DEF CountedSteps
  <2> DEFINE next == NextSharing(gn[n].vector, n)
             t == Step("test_pending", n)
  <2>3. next = <<>> \/ \E q \in Queues : next = <<Step("unmask", q)>>
    BY NextSharingIs
  <2>4. Then(next) \/ Then(<<t>> \o next)
    BY <1>1, <2>1, <2>2 DEF UnmaskNext
  <2>5. /\ t \in AnyStep /\ t.do = "test_pending"
        /\ \A q \in Queues : Step("unmask", q) \in AnyStep /\ Step("unmask", q).do = "unmask"
    BY DEF AnyStep, CountedSteps, Step
  <2>6. CASE next = <<>>
    <3>1. Then(<<>>) \/ Then(<<t>>)
      BY <2>4, <2>6, Lists
    <3>2. QED
      BY <2>1, <2>5, <3>1, UnmaskingNothing, UnmaskingOne DEF UnmaskingSteps
  <2>7. ASSUME NEW q \in Queues, next = <<Step("unmask", q)>>
        PROVE  HostInv'
    <3>1. Then(<<Step("unmask", q)>>) \/ Then(<<t, Step("unmask", q)>>)
      BY <2>4, <2>7, Lists
    <3>2. QED
      BY <2>1, <2>5, <3>1, UnmaskingOne, UnmaskingTwo DEF UnmaskingSteps
  <2>8. QED
    BY <2>3, <2>6, <2>7
<1>2. CASE TestPending \/ FirePending
  <2>1. todo # <<>> /\ todo[1].do \in UnmaskingSteps /\ Then(<<>>)
    BY <1>2, FirstStep DEF HostInv, TestPending, FirePending, At, UnmaskingSteps
  <2>2. QED
    BY <2>1, UnmaskingNothing
<1>3. QED
  BY <1>1, <1>2 DEF Unmasking

(* More short lists, put together.                                          *)
LEMMA FourInARow ==
  ASSUME NEW a, NEW b, NEW c, NEW d
  PROVE  <<a, b, c>> \o <<d>> = <<a, b, c, d>> /\ <<a, b>> \o <<c, d>> = <<a, b, c, d>>
<1> DEFINE S == {a, b, c, d}
<1>1. /\ <<d>> \in Seq(S) /\ <<a, b, c>> \in Seq(S)
      /\ <<a, b>> \in Seq(S) /\ <<c, d>> \in Seq(S)
  OBVIOUS
<1> DEFINE s == <<a, b, c>> \o <<d>>
           t == <<a, b, c, d>>
           x == <<a, b>> \o <<c, d>>
<1>2. /\ s \in Seq(S) /\ t \in Seq(S) /\ Len(s) = 4 /\ Len(t) = 4
      /\ s[1] = t[1] /\ s[2] = t[2] /\ s[3] = t[3] /\ s[4] = t[4]
  BY <1>1 DEF S
<1>3. /\ x \in Seq(S) /\ Len(x) = 4
      /\ x[1] = t[1] /\ x[2] = t[2] /\ x[3] = t[3] /\ x[4] = t[4]
  BY <1>1 DEF S
<1>4. \A i \in 1..4 : i = 1 \/ i = 2 \/ i = 3 \/ i = 4
  OBVIOUS
<1>5. s = t /\ x = t
  <2> HIDE DEF S, s, t, x
  <2>1. \A i \in 1..4 : s[i] = t[i] /\ x[i] = t[i]
    BY <1>2, <1>3, <1>4
  <2>2. s = t
    BY <1>2, <2>1, SeqEqual
  <2>3. x = t
    BY <1>2, <1>3, <2>1, SeqEqual
  <2>4. QED
    BY <2>2, <2>3
<1>6. QED
  BY <1>5

(* Pairs, put together.                                                     *)
LEMMA PairInARow ==
  ASSUME NEW a, NEW b, NEW c
  PROVE  /\ <<>> \o <<>> = <<>> /\ <<>> \o <<b, c>> = <<b, c>>
         /\ <<a>> \o <<b, c>> = <<a, b, c>>
<1> DEFINE S == {a, b, c}
<1>1. <<>> \in Seq(S) /\ <<a>> \in Seq(S) /\ <<b, c>> \in Seq(S)
  OBVIOUS
<1> DEFINE u == <<a>> \o <<b, c>>
           v == <<a, b, c>>
<1>2. /\ u \in Seq(S) /\ v \in Seq(S) /\ Len(u) = 3 /\ Len(v) = 3
      /\ u[1] = v[1] /\ u[2] = v[2] /\ u[3] = v[3]
  BY <1>1 DEF S
<1>3. \A i \in 1..3 : i = 1 \/ i = 2 \/ i = 3
  OBVIOUS
<1>4. u = v
  <2> HIDE DEF S, u, v
  <2>1. \A i \in 1..3 : u[i] = v[i]
    BY <1>2, <1>3
  <2>2. QED
    BY <1>2, <2>1, SeqEqual
<1>5. <<>> \o <<>> = <<>> /\ <<>> \o <<b, c>> = <<b, c>>
  BY <1>1, ConcatEmptySeq
<1>6. QED
  BY <1>4, <1>5

(* ... by four.                                                             *)
LEMMA ThenFour ==
  ASSUME TodoInv, ReadyInv, OpenInv, todo # <<>>,
         NEW a \in AnyStep, NEW b \in AnyStep, NEW c \in AnyStep, NEW d \in AnyStep,
         Then(<<a, b, c, d>>),
         todo[1].do # "set_status", UNCHANGED <<status, running>>,
         After(a, b), After(b, c), After(c, d), After(d, Nth(2)),
         {a.do, b.do, c.do, d.do} \cap (ReadySteps \cup {"set_status"}) = {},
         todo[1].do \notin Stopping
  PROVE  /\ TodoInv' /\ ReadyInv' /\ OpenInv'
         /\ todo' # <<>> /\ todo'[1] = a
<1> DEFINE list == <<a, b, c, d>>
<1>1. /\ list \in Seq(AnyStep) /\ Len(list) = 4
      /\ list[1] = a /\ list[2] = b /\ list[3] = c /\ list[4] = d
      /\ Then(list)
  OBVIOUS
<1> HIDE DEF list
<1>0. \A i \in 1..Len(list) : i = 1 \/ i = 2 \/ i = 3 \/ i = 4
  BY <1>1
<1>2. TodoInv'
  <2>1. ASSUME NEW i \in 1..Len(list)
        PROVE  After(list[i], IF i < Len(list) THEN list[i + 1] ELSE Nth(2))
    BY <1>0, <1>1
  <2>2. QED
    BY <1>1, <2>1, ThenKeepsTodo
<1>3. ReadyInv'
  <2>1. ASSUME NEW i \in 1..Len(list)
        PROVE  /\ list[i].do # "set_status"
               /\ list[i].do \in ReadySteps => running /\ status' = "ok"
    BY <1>0, <1>1
  <2>2. QED
    BY <1>1, <2>1, ThenKeepsReady
<1>4. OpenInv'
  <2>1. ASSUME NEW i \in 1..Len(list)
        PROVE  list[i].do # "open"
    BY <1>0, <1>1 DEF ReadySteps, TakingSteps
  <2>2. QED
    BY <1>1, <2>1, ThenKeepsOpen
<1>5. PICK L \in Nat, T \in Nat \ {0}, M \in Nat :
        /\ L = Len(list) /\ T = Len(todo) /\ M = Len(todo')
        /\ M = L + T - 1
        /\ todo' \in Seq(AnyStep)
        /\ \A i \in 1..L : todo'[i] = list[i]
  BY <1>1, ThenDoes, ZenonT(40) DEF TodoInv
<1>6. todo' # <<>> /\ todo'[1] = a
  <2>1. 1 \in 1..L /\ M # 0
    BY <1>1, <1>5
  <2>2. QED
    BY <1>1, <1>5, <2>1, LenZero
<1>7. QED
  BY <1>2, <1>3, <1>4, <1>6

(* The backend runs: it has all the host notifiers. *)
LEMMA BackendStartKeepsHost ==
  ASSUME HostInv, BackendStart
  PROVE  HostInv'
<1>1. /\ todo # <<>> /\ todo[1].do = "backend_start"
      /\ TodoInv /\ ReadyInv /\ OpenInv /\ hn \in [Queues -> Notifier]
  BY FirstStep DEF HostInv, BackendStart, At
<1>2. Span(1, NQueues, FALSE) /\ NobodyServes /\ disabled /\ Ready
  BY <1>1, ReadyNow
     DEF HostInv, HeadInv, Finds, GuestSteps, SetGuestSteps, ReadySteps, TakingSteps
<1>3. /\ UNCHANGED <<hn, disabled, status, running>> /\ ~started' /\ active'
      /\ todo[1].do \notin Stopping /\ Then(<<>>)
  BY <1>1, <1>2 DEF BackendStart, pciVars, NobodyServes, Stopping
<1>4. Settled' /\ Ready'
  BY <1>2, <1>3, SpanKept DEF Settled, Ready
<1>5. PICK a : a = Nth(2)
  OBVIOUS
<1>6. /\ TodoInv' /\ ReadyInv' /\ OpenInv'
      /\ a = Last => todo' = <<>>
      /\ a # Last => todo' # <<>> /\ a = todo'[1]
  BY <1>1, <1>3, <1>5, ThenNothing
<1>7. CASE a = Last
  BY <1>1, <1>3, <1>4, <1>6, <1>7 DEF HostInv, HeadInv
<1>8. CASE a # Last
  <2>1. a.do = "start"
    BY <1>1, <1>5, <1>8, FirstStep DEF After, ClosingSteps
  <2>2. PICK b, c : b = Nth(2)' /\ c = Nth(3)'
    OBVIOUS
  <2>3. Finds(a, b, c)'
    BY <1>4, <2>1 DEF Finds, GuestSteps, SetGuestSteps
  <2>4. QED
    BY <1>1, <1>3, <1>6, <1>8, <2>2, <2>3, HeadIs DEF HostInv
<1>9. QED
  BY <1>7, <1>8

(* The device's registers are cleared once nobody serves the queues. *)
LEMMA ClearKeepsHost ==
  ASSUME HostInv, Clear
  PROVE  HostInv'
<1>1. /\ todo # <<>> /\ todo[1].do = "clear"
      /\ TodoInv /\ ReadyInv /\ OpenInv /\ hn \in [Queues -> Notifier]
  BY FirstStep, Zenon DEF HostInv, Clear, At
<1>2. Settled /\ NobodyServes
  BY <1>1 DEF HostInv, HeadInv, Finds
<1>3. /\ UNCHANGED <<hn, started, active, disabled, status, running>>
      /\ todo[1].do \notin Stopping /\ Then(<<>>)
  BY <1>1, Zenon DEF Clear, pciVars, Stopping
<1>4. Nth(2) = Last
  BY <1>1, FirstStep DEF After, Last, Step, ClosingSteps, TakingSteps
<1>5. TodoInv' /\ ReadyInv' /\ OpenInv' /\ todo' = <<>>
  BY <1>1, <1>3, <1>4, ThenNothing
<1>6. Settled' /\ ~started' /\ ~active'
  BY <1>2, <1>3, SettledKept DEF NobodyServes
<1>7. QED
  BY <1>1, <1>3, <1>5, <1>6 DEF HostInv, HeadInv

(* The steps that take the guest notifiers down, as a list. *)
LEMMA UnsetLists ==
  ASSUME NEW a, NEW b, NEW c, NEW d,
         a = Step("unset_vector_notifiers", 0), b = Step("vector_release", 1),
         c = Step("unset_guest", 1), d = Step("give", NQueues),
         Then(UnsetGuestNotifiers \o <<d>>)
  PROVE  /\ irqfds => Then(<<a, b, c, d>>)
         /\ ~irqfds /\ canMask => Then(<<a, c, d>>)
         /\ ~irqfds /\ ~canMask => Then(<<c, d>>)
<1>1. CASE irqfds
  <2>1. Then(((<<a>> \o <<b>>) \o <<c>>) \o <<d>>)
    BY <1>1, Zenon DEF UnsetGuestNotifiers
  <2>2. <<a>> \o <<b>> = <<a, b>>
    BY Lists
  <2>3. <<a, b>> \o <<c>> = <<a, b, c>>
    BY Lists
  <2>4. <<a, b, c>> \o <<d>> = <<a, b, c, d>>
    BY FourInARow, Zenon
  <2>5. QED
    BY <1>1, <2>1, <2>2, <2>3, <2>4, Zenon
<1>2. CASE ~irqfds /\ canMask
  <2>1. Then(((<<a>> \o <<>>) \o <<c>>) \o <<d>>)
    BY <1>2, Zenon DEF UnsetGuestNotifiers
  <2>2. Then(<<a, c, d>>)
    BY <2>1, Lists, ZenonT(40)
  <2>3. QED
    BY <1>2, <2>2, Zenon
<1>3. CASE ~irqfds /\ ~canMask
  <2>1. Then(((<<>> \o <<>>) \o <<c>>) \o <<d>>)
    BY <1>3, Zenon DEF UnsetGuestNotifiers
  <2>2. <<>> \o <<>> = <<>>
    BY PairInARow
  <2>3. <<>> \o <<c>> = <<c>> /\ <<c>> \o <<d>> = <<c, d>>
    BY Lists
  <2>4. QED
    BY <1>3, <2>1, <2>2, <2>3, Zenon
<1>4. QED
  BY <1>1, <1>2, <1>3

(* A backend that stops takes the guest notifiers down, then gives the host *)
(* notifiers back.                                                          *)
LEMMA BackendStopKeepsHost ==
  ASSUME HostInv, BackendStop
  PROVE  HostInv'
<1>1. /\ todo # <<>> /\ todo[1].do = "backend_stop"
      /\ TodoInv /\ ReadyInv /\ OpenInv /\ hn \in [Queues -> Notifier]
  BY FirstStep, Zenon DEF HostInv, BackendStop, At
<1>2. Span(1, NQueues, FALSE) /\ ~started
  BY <1>1 DEF HostInv, HeadInv, Finds, Settled
<1>3. /\ UNCHANGED <<hn, disabled, status, running>> /\ NobodyServes'
      /\ todo[1].do \notin Stopping
  BY <1>1, <1>2, Zenon DEF BackendStop, pciVars, NobodyServes, Stopping
<1>4. Span(1, NQueues, FALSE)'
  BY <1>2, <1>3, SpanKept
<1> DEFINE a == Step("unset_vector_notifiers", 0)
           b == Step("vector_release", 1)
           c == Step("unset_guest", 1)
           d == Step("give", NQueues)
<1>5. {a, b, c, d} \subseteq AnyStep
  BY NQueuesAssumption DEF AnyStep, CountedSteps, PlainSteps, Step, Queues
<1>6. /\ After(a, b) /\ After(a, c) /\ After(b, c) /\ After(c, d)
      /\ After(d, Nth(2))
  <2>1. After(todo[1], Nth(2))
    BY <1>1, FirstStep
  <2>2. QED
    BY <1>1, <2>1 DEF After, Step, ClosingSteps, TakingSteps, Unfinished
<1>7. {a.do, b.do, c.do, d.do} \cap (ReadySteps \cup {"set_status"}) = {}
      /\ "open" \notin {a.do, b.do, c.do, d.do}
  BY DEF Step, ReadySteps, TakingSteps
<1>0. /\ irqfds => Then(<<a, b, c, d>>)
      /\ ~irqfds /\ canMask => Then(<<a, c, d>>)
      /\ ~irqfds /\ ~canMask => Then(<<c, d>>)
  BY UnsetLists DEF BackendStop
<1>8. CASE irqfds
  <2>1. Then(<<a, b, c, d>>)
    BY <1>0, <1>8
  <2>2. TodoInv' /\ ReadyInv' /\ OpenInv' /\ todo' # <<>> /\ todo'[1] = a
    BY <1>1, <1>3, <1>5, <1>6, <1>7, <2>1, ThenFour
  <2>3. PICK s, t, u : s = a /\ t = Nth(2)' /\ u = Nth(3)'
    OBVIOUS
  <2>4. s.do = "unset_vector_notifiers"
    BY <2>3 DEF Step
  <2>5. Finds(s, t, u)'
    BY <1>3, <1>4, <2>4, TakenFinds DEF GuestSteps, SetGuestSteps
  <2>6. QED
    BY <1>1, <1>3, <2>2, <2>3, <2>5, HeadIs DEF HostInv
<1>9. CASE ~irqfds /\ canMask
  <2>1. Then(<<a, c, d>>)
    BY <1>0, <1>9
  <2>2. TodoInv' /\ ReadyInv' /\ OpenInv' /\ todo' # <<>> /\ todo'[1] = a
    BY <1>1, <1>3, <1>5, <1>6, <1>7, <2>1, ThenThree
  <2>3. PICK s, t, u : s = a /\ t = Nth(2)' /\ u = Nth(3)'
    OBVIOUS
  <2>4. s.do = "unset_vector_notifiers"
    BY <2>3 DEF Step
  <2>5. Finds(s, t, u)'
    BY <1>3, <1>4, <2>4, TakenFinds DEF GuestSteps, SetGuestSteps
  <2>6. QED
    BY <1>1, <1>3, <2>2, <2>3, <2>5, HeadIs DEF HostInv
<1>10. CASE ~irqfds /\ ~canMask
  <2>1. Then(<<c, d>>)
    BY <1>0, <1>10
  <2>2. TodoInv' /\ ReadyInv' /\ OpenInv' /\ todo' # <<>> /\ todo'[1] = c
    BY <1>1, <1>3, <1>5, <1>6, <1>7, <2>1, ThenTwo
  <2>3. PICK s, t, u : s = c /\ t = Nth(2)' /\ u = Nth(3)'
    OBVIOUS
  <2>4. s.do = "unset_guest"
    BY <2>3 DEF Step
  <2>5. Finds(s, t, u)'
    BY <1>3, <1>4, <2>4, TakenFinds DEF GuestSteps, SetGuestSteps
  <2>6. QED
    BY <1>1, <1>3, <2>2, <2>3, <2>5, HeadIs DEF HostInv
<1>11. QED
  BY <1>8, <1>9, <1>10

(* A step that sets the status: what else it does is at most one step. *)
LEMMA StatusNothing ==
  ASSUME TodoInv, ReadyInv, OpenInv, todo # <<>>, Then(<<>>),
         todo[1].do = "set_status", status' = todo[1].n, UNCHANGED running
  PROVE  /\ TodoInv' /\ ReadyInv' /\ OpenInv'
         /\ Nth(2) = Last => todo' = <<>>
         /\ Nth(2) # Last => todo' # <<>> /\ todo'[1] = Nth(2)
<1> DEFINE list == <<>>
<1>1. list \in Seq(AnyStep) /\ Len(list) = 0 /\ 1..Len(list) = {} /\ Then(list)
  OBVIOUS
<1> HIDE DEF list
<1>2. TodoInv'
  BY <1>1, ThenKeepsTodo
<1>3. ReadyInv'
  BY <1>1, ThenKeepsReady
<1>4. OpenInv'
  BY <1>1, ThenKeepsOpen DEF Stopping
<1>5. PICK L \in Nat, T \in Nat \ {0}, M \in Nat :
        /\ L = Len(list) /\ T = Len(todo) /\ M = Len(todo')
        /\ M = L + T - 1
        /\ todo' \in Seq(AnyStep)
        /\ \A j \in 2..T : todo'[j + L - 1] = todo[j]
  BY <1>1, ThenDoes, ZenonT(40) DEF TodoInv
<1>6. CASE T = 1
  <2>1. M = 0
    BY <1>1, <1>5, <1>6
  <2>2. todo' = <<>>
    <3>1. Len(todo') = 0
      BY <1>5, <2>1
    <3>2. QED
      BY <1>5, <3>1, LenZero
  <2>3. Nth(2) = Last
    BY <1>5, <1>6 DEF Nth
  <2>4. QED
    BY <1>2, <1>3, <1>4, <2>2, <2>3
<1>7. CASE T > 1
  <2>1. 2 \in 2..T /\ 2 + L - 1 = 1 /\ M # 0
    BY <1>1, <1>5, <1>7
  <2>2. todo'[1] = todo[2] /\ todo' # <<>> /\ Nth(2) = todo[2]
    <3>1. todo'[2 + L - 1] = todo[2]
      BY <1>5, <2>1
    <3>2. todo' # <<>>
      BY <1>5, <2>1, LenZero
    <3>3. 2 <= T
      BY <1>7
    <3>4. Nth(2) = todo[2]
      BY <1>5, <3>3 DEF Nth
    <3>5. QED
      BY <2>1, <3>1, <3>2, <3>4
  <2>3. todo[2] \in AnyStep
    BY <1>5, <1>7 DEF TodoInv
  <2>4. QED
    BY <1>2, <1>3, <1>4, <2>2, <2>3, LastIsNone
<1>8. QED
  BY <1>6, <1>7

(* ... or does one step first.                                              *)
LEMMA StatusOne ==
  ASSUME TodoInv, ReadyInv, OpenInv, todo # <<>>, NEW a \in AnyStep, Then(<<a>>),
         todo[1].do = "set_status", status' = todo[1].n, UNCHANGED running,
         After(a, Nth(2)), a.do \in ReadySteps => running /\ status' = "ok",
         a.do # "set_status", a.do # "open"
  PROVE  /\ TodoInv' /\ ReadyInv' /\ OpenInv'
         /\ todo' # <<>> /\ todo'[1] = a
<1> DEFINE list == <<a>>
<1>1. /\ list \in Seq(AnyStep) /\ Len(list) = 1 /\ list[1] = a /\ Then(list)
      /\ 1..Len(list) = {1}
  OBVIOUS
<1> HIDE DEF list
<1>2. TodoInv'
  BY <1>1, ThenKeepsTodo
<1>3. ReadyInv'
  BY <1>1, ThenKeepsReady
<1>4. OpenInv'
  BY <1>1, ThenKeepsOpen DEF Stopping
<1>5. PICK L \in Nat, T \in Nat \ {0}, M \in Nat :
        /\ L = Len(list) /\ T = Len(todo) /\ M = Len(todo')
        /\ M = L + T - 1
        /\ todo' \in Seq(AnyStep)
        /\ \A i \in 1..L : todo'[i] = list[i]
  BY <1>1, ThenDoes DEF TodoInv
<1>6. todo' # <<>> /\ todo'[1] = a
  <2>1. 1 \in 1..L /\ M # 0
    BY <1>1, <1>5
  <2>2. QED
    BY <1>1, <1>5, <2>1, LenZero
<1>7. QED
  BY <1>2, <1>3, <1>4, <1>6

(* virtio_set_status starts or stops the backend when that is called for. *)
LEMMA SetStatusKeepsHost ==
  ASSUME HostInv, SetStatus
  PROVE  HostInv'
<1>1. /\ todo # <<>> /\ todo[1].do = "set_status" /\ Index = todo[1].n
      /\ TodoInv /\ ReadyInv /\ OpenInv /\ hn \in [Queues -> Notifier]
  BY FirstStep DEF HostInv, SetStatus, At, Index
<1>2. PICK n : n = todo[1].n
  OBVIOUS
<1>3. Settled /\ (started => n = "ok" /\ running)
  BY <1>1, <1>2 DEF HostInv, HeadInv, Finds
<1>4. /\ UNCHANGED <<hn, started, active, disabled, running>> /\ status' = n
      /\ status' = todo[1].n
  BY <1>1, <1>2 DEF SetStatus, hostVars
<1>5. Settled'
  BY <1>3, <1>4, SettledKept
<1>6. /\ After(todo[1], Nth(2))
      /\ \/ Nth(2) = Last
         \/ n = "ok" /\ Nth(2).do = "start"
         \/ n = "reset" /\ (Nth(2).do = "clear" \/ Nth(2) = Step("set_status", "reset"))
  <2>1. After(todo[1], Nth(2))
    BY <1>1, FirstStep
  <2>2. QED
    BY <1>1, <1>2, <2>1 DEF After, ClosingSteps, TakingSteps
<1> DEFINE ready == n = "ok" /\ running
           a == Step("take", 1)
           b == Step("backend_stop", 0)
<1>7. Then(IF vhost /\ ready /\ ~active THEN <<a>>
           ELSE IF active /\ ~ready THEN <<b>>
           ELSE <<>>)
  BY <1>1, <1>2 DEF SetStatus
<1>8. CASE vhost /\ ready /\ ~active
  <2>1. Then(<<a>>)
    BY <1>7, <1>8
  <2>2. /\ a \in AnyStep /\ a.do = "take" /\ a.n = 1
        /\ a.do # "set_status" /\ a.do # "open"
        /\ After(a, Nth(2))
    BY <1>6, <1>8, NQueuesAssumption
       DEF AnyStep, CountedSteps, Queues, Step, After, Unfinished, TakingSteps
  <2>3. TodoInv' /\ ReadyInv' /\ OpenInv' /\ todo' # <<>> /\ todo'[1] = a
    BY <1>1, <1>4, <1>8, <2>1, <2>2, StatusOne
  <2>4. PICK s, c, d : s = a /\ c = Nth(2)' /\ d = Nth(3)'
    OBVIOUS
  <2>5. Finds(s, c, d)'
    BY <1>4, <1>5, <1>8, <2>2, <2>4 DEF Finds, GuestSteps, SetGuestSteps
  <2>6. QED
    BY <1>1, <1>4, <2>3, <2>4, <2>5, HeadIs DEF HostInv
<1>9. CASE active /\ ~ready
  <2>1. Then(<<b>>)
    BY <1>7, <1>9
  <2>2. /\ b \in AnyStep /\ b.do = "backend_stop"
        /\ b.do # "set_status" /\ b.do # "open" /\ b.do \notin ReadySteps
        /\ After(b, Nth(2))
    BY <1>6 DEF AnyStep, PlainSteps, Step, After, Unfinished, ClosingSteps, ReadySteps,
                TakingSteps
  <2>3. TodoInv' /\ ReadyInv' /\ OpenInv' /\ todo' # <<>> /\ todo'[1] = b
    BY <1>1, <1>4, <2>1, <2>2, StatusOne
  <2>4. PICK s, c, d : s = b /\ c = Nth(2)' /\ d = Nth(3)'
    OBVIOUS
  <2>5. Finds(s, c, d)'
    BY <1>4, <1>5, <1>9, <2>2, <2>4 DEF Finds, GuestSteps, SetGuestSteps
  <2>6. QED
    BY <1>1, <1>4, <2>3, <2>4, <2>5, HeadIs DEF HostInv
<1>10. CASE ~(vhost /\ ready /\ ~active) /\ ~(active /\ ~ready)
  <2>1. Then(<<>>)
    BY <1>7, <1>10
  <2>2. PICK s, c, d : s = Nth(2) /\ c = Nth(2)' /\ d = Nth(3)'
    OBVIOUS
  <2>3. /\ TodoInv' /\ ReadyInv' /\ OpenInv'
        /\ s = Last => todo' = <<>>
        /\ s # Last => todo' # <<>> /\ s = todo'[1]
    BY <1>1, <1>4, <2>1, <2>2, StatusNothing
  <2>4. started \/ active => ready
    BY <1>3, <1>10
  <2>5. CASE s = Last
    BY <1>1, <1>4, <1>5, <2>3, <2>4, <2>5 DEF HostInv, HeadInv, Ready
  <2>6. CASE s # Last
    <3>1. \/ s.do = "start"
          \/ n = "reset" /\ s.do \in {"clear", "set_status"}
      BY <1>6, <2>2, <2>6 DEF Step
    <3>2. n = "reset" => ~started' /\ ~active' /\ NobodyServes'
      BY <1>4, <2>4 DEF NobodyServes
    <3>3. Finds(s, c, d)'
      BY <1>5, <3>1, <3>2 DEF Finds, GuestSteps, SetGuestSteps
    <3>4. QED
      BY <1>1, <1>4, <2>2, <2>3, <2>6, <3>3, HeadIs DEF HostInv
  <2>7. QED
    BY <2>5, <2>6
<1>11. QED
  BY <1>8, <1>9, <1>10

(* A handler is entered between two others, with a list of steps. *)
EntersWith(s) ==
  \/ s.do = "unassign" /\ s.n = 1 /\ started
  \/ s.do = "set_status" /\ (started => s.n = "ok" /\ running')
  \/ s.do \in UnmaskingSteps /\ UNCHANGED <<status, running>>

(* A list that begins in one of these ways may be entered with.             *)
LEMMA EnterKeepsHost ==
  ASSUME HostInv, Idle, NEW list \in Seq(AnyStep), Len(list) # 0, Enter(list),
         UNCHANGED hostVars, EntersWith(list[1]),
         \A i \in 1..Len(list) :
           /\ After(list[i], IF i < Len(list) THEN list[i + 1] ELSE Last)
           /\ list[i].do # "open"
           /\ list[i].do \in ReadySteps => running' /\ i > 1 /\ list[i - 1].do = "set_status"
  PROVE  HostInv'
<1>1. todo' = list
  BY DEF Enter
<1>2. PICK L \in Nat : L = Len(list) /\ L # 0
  OBVIOUS
<1>3. TodoInv'
  <2> SUFFICES ASSUME NEW i \in 1..L
               PROVE  After(list[i], IF i + 1 <= L THEN list[i + 1] ELSE Last)
    BY <1>1, <1>2 DEF TodoInv, Nth, Last, Step
  <2>1. i < L <=> i + 1 <= L
    OBVIOUS
  <2>2. QED
    BY <1>2, <2>1
<1>4. ReadyInv'
  <2> SUFFICES ASSUME NEW i \in 1..L, list[i].do \in ReadySteps
               PROVE  running' /\ i > 1 /\ list[i - 1].do = "set_status"
    BY <1>1, <1>2 DEF ReadyInv
  <2>1. QED
    BY <1>2
<1>5. OpenInv'
  BY <1>1, <1>2 DEF OpenInv
<1>6. /\ UNCHANGED <<hn, started, active, disabled>>
      /\ Settled /\ (started \/ active => Ready)
  BY DEF hostVars, HostInv, HeadInv, Idle
<1>7. Settled'
  BY <1>6, SettledKept
<1>8. PICK s, b, c : s = list[1] /\ b = Nth(2)' /\ c = Nth(3)'
  OBVIOUS
<1>9. Finds(s, b, c)'
  <2>1. CASE s.do = "unassign" /\ s.n = 1 /\ started
    <3>1. Span(1, NQueues, TRUE) /\ ~active
      BY <1>6, <2>1 DEF Settled
    <3>2. Span(s.n, NQueues, TRUE)
      BY <2>1, <3>1
    <3>3. Span(s.n, NQueues, TRUE)'
      BY <1>6, <3>2, SpanKept
    <3>4. ~active' /\ ~(s.n > 1)
      BY <1>6, <2>1, <3>1
    <3>5. QED
      BY <2>1, <3>3, <3>4 DEF Finds, GuestSteps, SetGuestSteps
  <2>2. CASE s.do = "set_status" /\ (started => s.n = "ok" /\ running')
    BY <1>6, <1>7, <2>2 DEF Finds, GuestSteps, SetGuestSteps
  <2>3. CASE s.do \in UnmaskingSteps /\ UNCHANGED <<status, running>>
    <3>1. (started \/ active => Ready)'
      BY <1>6, <2>3 DEF Ready
    <3>2. QED
      BY <1>7, <2>3, <3>1, UnmaskingFinds
  <2>4. QED
    BY <1>8, <2>1, <2>2, <2>3 DEF EntersWith
<1>10. HeadInv'
  <2>1. todo' # <<>>
    BY <1>1, <1>2
  <2>2. QED
    BY <1>1, <1>8, <1>9, <2>1, HeadIs
<1>11. QED
  BY <1>3, <1>4, <1>5, <1>6, <1>10 DEF HostInv

(* With one step, ...                                                       *)
LEMMA EnterOne ==
  ASSUME HostInv, Idle, NEW a \in AnyStep, Enter(<<a>>), UNCHANGED hostVars, EntersWith(a),
         After(a, Last), a.do \notin ReadySteps
  PROVE  HostInv'
<1> DEFINE list == <<a>>
<1>1. list \in Seq(AnyStep) /\ Len(list) = 1 /\ list[1] = a /\ Enter(list)
  OBVIOUS
<1> HIDE DEF list
<1>2. ASSUME NEW i \in 1..Len(list)
      PROVE  /\ After(list[i], IF i < Len(list) THEN list[i + 1] ELSE Last)
             /\ list[i].do # "open"
             /\ list[i].do \in ReadySteps => running' /\ i > 1 /\ list[i - 1].do = "set_status"
  <2>1. i = 1
    BY <1>1
  <2>2. QED
    BY <1>1, <2>1 DEF ReadySteps, TakingSteps
<1>3. QED
  BY <1>1, <1>2, EnterKeepsHost

(* ... two, ...                                                             *)
LEMMA EnterTwo ==
  ASSUME HostInv, Idle, NEW a \in AnyStep, NEW b \in AnyStep, Enter(<<a, b>>),
         UNCHANGED hostVars, EntersWith(a),
         After(a, b), After(b, Last), a.do \notin ReadySteps, b.do # "open",
         b.do \in ReadySteps => running' /\ a.do = "set_status"
  PROVE  HostInv'
<1> DEFINE list == <<a, b>>
<1>1. list \in Seq(AnyStep) /\ Len(list) = 2 /\ list[1] = a /\ list[2] = b /\ Enter(list)
  OBVIOUS
<1> HIDE DEF list
<1>2. ASSUME NEW i \in 1..Len(list)
      PROVE  /\ After(list[i], IF i < Len(list) THEN list[i + 1] ELSE Last)
             /\ list[i].do # "open"
             /\ list[i].do \in ReadySteps => running' /\ i > 1 /\ list[i - 1].do = "set_status"
  <2>1. i = 1 \/ i = 2
    BY <1>1
  <2>2. QED
    BY <1>1, <2>1 DEF ReadySteps, TakingSteps
<1>3. QED
  BY <1>1, <1>2, EnterKeepsHost

(* ... three ...                                                            *)
LEMMA EnterThree ==
  ASSUME HostInv, Idle, NEW a \in AnyStep, NEW b \in AnyStep, NEW c \in AnyStep,
         Enter(<<a, b, c>>), UNCHANGED hostVars, EntersWith(a),
         After(a, b), After(b, c), After(c, Last),
         {a.do, b.do, c.do} \cap ReadySteps = {}
  PROVE  HostInv'
<1> DEFINE list == <<a, b, c>>
<1>1. /\ list \in Seq(AnyStep) /\ Len(list) = 3
      /\ list[1] = a /\ list[2] = b /\ list[3] = c /\ Enter(list)
  OBVIOUS
<1> HIDE DEF list
<1>2. ASSUME NEW i \in 1..Len(list)
      PROVE  /\ After(list[i], IF i < Len(list) THEN list[i + 1] ELSE Last)
             /\ list[i].do # "open"
             /\ list[i].do \in ReadySteps => running' /\ i > 1 /\ list[i - 1].do = "set_status"
  <2>1. i = 1 \/ i = 2 \/ i = 3
    BY <1>1
  <2>2. CASE i = 1
    <3>1. list[i] = a /\ (IF i < Len(list) THEN list[i + 1] ELSE Last) = b
      BY <1>1, <2>2
    <3>2. QED
      BY <1>1, <2>2, <3>1 DEF ReadySteps, TakingSteps
  <2>3. CASE i = 2
    <3>1. list[i] = b /\ (IF i < Len(list) THEN list[i + 1] ELSE Last) = c
      BY <1>1, <2>3
    <3>2. QED
      BY <1>1, <2>3, <3>1 DEF ReadySteps, TakingSteps
  <2>4. CASE i = 3
    <3>1. list[i] = c /\ (IF i < Len(list) THEN list[i + 1] ELSE Last) = Last
      BY <1>1, <2>4
    <3>2. QED
      BY <1>1, <2>4, <3>1 DEF ReadySteps, TakingSteps
  <2>5. QED
    BY <2>1, <2>2, <2>3, <2>4
<1>3. QED
  BY <1>1, <1>2, EnterKeepsHost, SMTT(30)

(* ... or four.                                                             *)
LEMMA EnterFour ==
  ASSUME HostInv, Idle,
         NEW a \in AnyStep, NEW b \in AnyStep, NEW c \in AnyStep, NEW d \in AnyStep,
         Enter(<<a, b, c, d>>), UNCHANGED hostVars, EntersWith(a),
         After(a, b), After(b, c), After(c, d), After(d, Last),
         {a.do, b.do, c.do, d.do} \cap ReadySteps = {}
  PROVE  HostInv'
<1> DEFINE list == <<a, b, c, d>>
<1>1. /\ list \in Seq(AnyStep) /\ Len(list) = 4
      /\ list[1] = a /\ list[2] = b /\ list[3] = c /\ list[4] = d /\ Enter(list)
  OBVIOUS
<1> HIDE DEF list
<1>2. ASSUME NEW i \in 1..Len(list)
      PROVE  /\ After(list[i], IF i < Len(list) THEN list[i + 1] ELSE Last)
             /\ list[i].do # "open"
             /\ list[i].do \in ReadySteps => running' /\ i > 1 /\ list[i - 1].do = "set_status"
  <2>1. i = 1 \/ i = 2 \/ i = 3 \/ i = 4
    BY <1>1
  <2>2. CASE i = 1
    <3>1. list[i] = a /\ (IF i < Len(list) THEN list[i + 1] ELSE Last) = b
      BY <1>1, <2>2
    <3>2. QED
      BY <1>1, <2>2, <3>1 DEF ReadySteps, TakingSteps
  <2>3. CASE i = 2
    <3>1. list[i] = b /\ (IF i < Len(list) THEN list[i + 1] ELSE Last) = c
      BY <1>1, <2>3
    <3>2. QED
      BY <1>1, <2>3, <3>1 DEF ReadySteps, TakingSteps
  <2>4. CASE i = 3
    <3>1. list[i] = c /\ (IF i < Len(list) THEN list[i + 1] ELSE Last) = d
      BY <1>1, <2>4
    <3>2. QED
      BY <1>1, <2>4, <3>1 DEF ReadySteps, TakingSteps
  <2>5. CASE i = 4
    <3>1. list[i] = d /\ (IF i < Len(list) THEN list[i + 1] ELSE Last) = Last
      BY <1>1, <2>5
    <3>2. QED
      BY <1>1, <2>5, <3>1 DEF ReadySteps, TakingSteps
  <2>6. QED
    BY <2>1, <2>2, <2>3, <2>4, <2>5
<1>3. Len(list) # 0 /\ EntersWith(list[1])
  BY <1>1
<1> HIDE DEF EntersWith
<1>4. QED
  BY <1>1, <1>2, <1>3, EnterKeepsHost

(* virtio_pci_stop_ioeventfd, if it was started, then the status is set. *)
Statuses == {"reset", "setup", "ok"}

(* The steps that handlers are entered with.                                *)
LEMMA StepKinds ==
  /\ Step("unassign", 1) \in AnyStep /\ Step("start", 0) \in AnyStep
  /\ Step("clear", 0) \in AnyStep
  /\ \A s \in Statuses : Step("set_status", s) \in AnyStep
  /\ \A s \in Statuses : After(Step("unassign", 1), Step("set_status", s))
  /\ \A s \in Statuses : After(Step("set_status", s), Last)
  /\ After(Step("set_status", "ok"), Step("start", 0)) /\ After(Step("start", 0), Last)
  /\ After(Step("set_status", "reset"), Step("set_status", "reset"))
  /\ After(Step("set_status", "reset"), Step("clear", 0)) /\ After(Step("clear", 0), Last)
  /\ \A s \in Statuses : Step("set_status", s).do \notin ReadySteps
  /\ Step("unassign", 1).do \notin ReadySteps /\ Step("clear", 0).do \notin ReadySteps
<1>1. /\ Step("unassign", 1) \in AnyStep /\ Step("start", 0) \in AnyStep
      /\ Step("clear", 0) \in AnyStep
  BY NQueuesAssumption DEF AnyStep, CountedSteps, PlainSteps, Queues, Step
<1>2. \A s \in Statuses : Step("set_status", s) \in AnyStep
  BY DEF AnyStep, Step, Statuses
<1>3. \A s \in Statuses : After(Step("unassign", 1), Step("set_status", s))
  BY DEF After, Step, ClosingSteps
<1>4. \A s \in Statuses : After(Step("set_status", s), Last)
  BY DEF After, Step, Unfinished
<1>5. /\ After(Step("set_status", "ok"), Step("start", 0)) /\ After(Step("start", 0), Last)
      /\ After(Step("set_status", "reset"), Step("set_status", "reset"))
      /\ After(Step("set_status", "reset"), Step("clear", 0)) /\ After(Step("clear", 0), Last)
  BY DEF After, Step, Unfinished
<1>6. /\ \A s \in Statuses : Step("set_status", s).do \notin ReadySteps
      /\ Step("unassign", 1).do \notin ReadySteps /\ Step("clear", 0).do \notin ReadySteps
  BY DEF Step, ReadySteps, TakingSteps
<1>7. QED
  BY <1>1, <1>2, <1>3, <1>4, <1>5, <1>6

(* The way in of most handlers: ioeventfd is stopped, the status is set. *)
LEMMA StopAndSetKeepsHost ==
  ASSUME HostInv, Idle, NEW s \in Statuses, UNCHANGED hostVars,
         Enter(StopSteps \o <<Step("set_status", s)>>)
  PROVE  HostInv'
<1>1. PICK u \in AnyStep : u = Step("unassign", 1) /\ u.do = "unassign" /\ u.n = 1
  BY StepKinds DEF Step
<1>2. PICK a \in AnyStep : a = Step("set_status", s) /\ a.do = "set_status" /\ a.n = s
  BY StepKinds DEF Step
<1>3. After(u, a) /\ After(a, Last) /\ u.do \notin ReadySteps /\ a.do \notin ReadySteps
      /\ a.do # "open"
  BY <1>1, <1>2, StepKinds
<1>4. CASE started
  <2>1. Enter(<<u>> \o <<a>>)
    BY <1>1, <1>2, <1>4 DEF StopSteps
  <2>2. Enter(<<u, a>>)
    BY <2>1, Lists
  <2>3. QED
    BY <1>1, <1>3, <1>4, <2>2, EnterTwo DEF EntersWith
<1>5. CASE ~started
  <2>1. Enter(<<>> \o <<a>>)
    BY <1>2, <1>5 DEF StopSteps
  <2>2. Enter(<<a>>)
    BY <2>1, Lists
  <2>3. QED
    BY <1>2, <1>3, <1>5, <2>2, EnterOne DEF EntersWith
<1>6. QED
  BY <1>4, <1>5

(* ... or the device is reset. *)
LEMMA StopAndResetKeepsHost ==
  ASSUME HostInv, Idle, UNCHANGED hostVars, Enter(StopSteps \o ResetDevice)
  PROVE  HostInv'
<1>1. PICK u \in AnyStep : u = Step("unassign", 1) /\ u.do = "unassign" /\ u.n = 1
  BY StepKinds DEF Step
<1>2. PICK a \in AnyStep : a = Step("set_status", "reset") /\ a.do = "set_status"
  BY StepKinds DEF Step, Statuses
<1>3. PICK b \in AnyStep : b = Step("clear", 0) /\ b.do = "clear"
  BY StepKinds DEF Step
<1>4. /\ After(u, a) /\ After(a, b) /\ After(b, Last)
      /\ u.do \notin ReadySteps /\ a.do \notin ReadySteps /\ b.do \notin ReadySteps
      /\ b.do # "open"
  BY <1>1, <1>2, <1>3, StepKinds DEF Statuses
<1>5. CASE started
  <2>1. Enter(<<u>> \o <<a, b>>)
    BY <1>1, <1>2, <1>3, <1>5 DEF StopSteps, ResetDevice
  <2>2. Enter(<<u, a, b>>)
    BY <2>1, PairInARow
  <2>3. QED
    BY <1>1, <1>4, <1>5, <2>2, EnterThree DEF EntersWith
<1>6. CASE ~started
  <2>1. Enter(<<>> \o <<a, b>>)
    BY <1>2, <1>3, <1>6 DEF StopSteps, ResetDevice
  <2>2. Enter(<<a, b>>)
    BY <2>1, PairInARow
  <2>3. QED
    BY <1>2, <1>4, <1>6, <2>2, EnterTwo DEF EntersWith
<1>7. QED
  BY <1>5, <1>6

(* ... or both, when the guest writes 0 to the status. *)
LEMMA StopSetAndResetKeepsHost ==
  ASSUME HostInv, Idle, UNCHANGED hostVars,
         Enter(StopSteps \o <<Step("set_status", "reset")>> \o ResetDevice)
  PROVE  HostInv'
<1>1. PICK u \in AnyStep : u = Step("unassign", 1) /\ u.do = "unassign" /\ u.n = 1
  BY StepKinds DEF Step
<1>2. PICK a \in AnyStep : a = Step("set_status", "reset") /\ a.do = "set_status"
  BY StepKinds DEF Step, Statuses
<1>3. PICK b \in AnyStep : b = Step("clear", 0) /\ b.do = "clear"
  BY StepKinds DEF Step
<1>4. /\ After(u, a) /\ After(a, a) /\ After(a, b) /\ After(b, Last)
      /\ {u.do, a.do, b.do} \cap ReadySteps = {}
  BY <1>1, <1>2, <1>3, StepKinds DEF Statuses
<1>5. CASE started
  <2>1. Enter((<<u>> \o <<a>>) \o <<a, b>>)
    BY <1>1, <1>2, <1>3, <1>5 DEF StopSteps, ResetDevice
  <2>2. (<<u>> \o <<a>>) \o <<a, b>> = <<u, a, a, b>>
    <3>1. <<u>> \o <<a>> = <<u, a>>
      BY Lists
    <3>2. <<u, a>> \o <<a, b>> = <<u, a, a, b>>
      BY FourInARow, Zenon
    <3>3. QED
      BY <3>1, <3>2, Zenon
  <2>3. Enter(<<u, a, a, b>>)
    BY <2>1, <2>2
  <2>4. QED
    BY <1>1, <1>4, <1>5, <2>3, EnterFour DEF EntersWith
<1>6. CASE ~started
  <2>1. Enter((<<>> \o <<a>>) \o <<a, b>>)
    BY <1>2, <1>3, <1>6 DEF StopSteps, ResetDevice
  <2>2. (<<>> \o <<a>>) \o <<a, b>> = <<a, a, b>>
    <3>1. <<>> \o <<a>> = <<a>>
      BY Lists
    <3>2. <<a>> \o <<a, b>> = <<a, a, b>>
      BY PairInARow, Zenon
    <3>3. QED
      BY <3>1, <3>2, Zenon
  <2>3. Enter(<<a, a, b>>)
    BY <2>1, <2>2
  <2>4. QED
    BY <1>2, <1>4, <1>6, <2>3, EnterThree DEF EntersWith
<1>7. QED
  BY <1>5, <1>6

(* Setting DRIVER_OK, or continuing a machine whose driver is ready. *)
LEMMA SetOkKeepsHost ==
  ASSUME HostInv, Idle, UNCHANGED hostVars, running',
         Enter(<<Step("set_status", "ok"), Step("start", 0)>>)
  PROVE  HostInv'
<1>1. PICK a \in AnyStep : a = Step("set_status", "ok") /\ a.do = "set_status" /\ a.n = "ok"
  BY StepKinds DEF Step, Statuses
<1>2. PICK b \in AnyStep : b = Step("start", 0) /\ b.do = "start"
  BY StepKinds DEF Step
<1>3. After(a, b) /\ After(b, Last) /\ a.do \notin ReadySteps /\ b.do # "open"
  BY <1>1, <1>2, StepKinds DEF Statuses
<1>4. Enter(<<a, b>>)
  BY <1>1, <1>2
<1>5. QED
  BY <1>1, <1>3, <1>4, EnterTwo DEF EntersWith

(* Kicks and readers change what an open notifier holds, no more than that.  *)
SameShape ==
  /\ hn' \in [Queues -> Notifier]
  /\ \A q \in Queues : /\ hn'[q].ev = "closed" <=> hn[q].ev = "closed"
                       /\ hn'[q].handler = hn[q].handler
                       /\ hn'[q].fast = hn[q].fast

(* A notifier is closed when nothing of it is left.                         *)
LEMMA ClosedIs ==
  ASSUME NEW r \in Notifier
  PROVE  r = Closed <=> r.ev = "closed" /\ ~r.handler /\ ~r.fast
BY DEF Notifier, Closed

(* Whether a notifier is open, and for whom, is its shape.                  *)
LEMMA ShapeKeepsNotifiers ==
  ASSUME hn \in [Queues -> Notifier], SameShape, NEW q \in Queues, NEW handler
  PROVE  /\ Opened(q, handler)' <=> Opened(q, handler)
         /\ hn'[q] = Closed <=> hn[q] = Closed
<1>1. /\ hn[q] \in Notifier /\ hn'[q] \in Notifier
      /\ hn'[q].ev = "closed" <=> hn[q].ev = "closed"
      /\ hn'[q].handler = hn[q].handler /\ hn'[q].fast = hn[q].fast
  BY DEF SameShape
<1>2. hn'[q] = Closed <=> hn[q] = Closed
  BY <1>1, ClosedIs
<1>3. QED
  BY <1>1, <1>2 DEF Opened

(* So is which of them are.                                                 *)
LEMMA ShapeKeepsSpan ==
  ASSUME hn \in [Queues -> Notifier], SameShape, NEW lo, NEW hi, NEW handler
  PROVE  /\ Span(lo, hi, handler) => Span(lo, hi, handler)'
         /\ \A n : SpanBut(lo, hi, handler, n) => SpanBut(lo, hi, handler, n)'
<1>1. \A q \in Queues : /\ Opened(q, handler)' <=> Opened(q, handler)
                        /\ hn'[q] = Closed <=> hn[q] = Closed
  BY ShapeKeepsNotifiers
<1>2. QED
  BY <1>1 DEF Span, SpanBut

(* So what is signalled and what is read does not matter to handlers.       *)
LEMMA EventsKeepHost ==
  ASSUME HostInv, SameShape, UNCHANGED <<todo, started, active, disabled, status, running>>
  PROVE  HostInv'
<1>1. hn \in [Queues -> Notifier] /\ TodoInv /\ ReadyInv /\ OpenInv
  BY DEF HostInv
<1>2. TodoInv'
  BY <1>1 DEF TodoInv, Nth, Last, Step
<1>3. ReadyInv' /\ OpenInv'
  BY <1>1 DEF ReadyInv, OpenInv
<1>4. ASSUME Settled PROVE Settled'
  <2>1. /\ Span(1, NQueues, TRUE) => Span(1, NQueues, TRUE)'
        /\ Span(1, NQueues, FALSE) => Span(1, NQueues, FALSE)'
    BY <1>1, ShapeKeepsSpan
  <2>2. \A q \in Queues : hn[q] = Closed => hn'[q] = Closed
    BY <1>1, ShapeKeepsNotifiers
  <2>3. QED
    BY <1>4, <2>1, <2>2 DEF Settled
<1>5. CASE todo = <<>>
  BY <1>1, <1>2, <1>3, <1>4, <1>5 DEF HostInv, HeadInv, Ready, SameShape
<1>6. CASE todo # <<>>
  <2>1. PICK s, a, b : s = todo[1] /\ a = Nth(2) /\ b = Nth(3)
    OBVIOUS
  <2>2. Finds(s, a, b)
    BY <1>6, <2>1 DEF HostInv, HeadInv
  <2>3. s = todo'[1] /\ a = Nth(2)' /\ b = Nth(3)' /\ todo' # <<>>
    BY <1>6, <2>1 DEF Nth, Last, Step
  <2>4. ASSUME NEW n PROVE SpanBefore(n, a) => SpanBefore(n, a)'
    <3>1. /\ SpanBut(n, NQueues, TRUE, n) => SpanBut(n, NQueues, TRUE, n)'
          /\ SpanBut(1, n, TRUE, n) => SpanBut(1, n, TRUE, n)'
          /\ SpanBut(1, n, FALSE, n) => SpanBut(1, n, FALSE, n)'
          /\ SpanBut(n, n, FALSE, n) => SpanBut(n, n, FALSE, n)'
      BY <1>1, ShapeKeepsSpan
    <3>2. QED
      BY <3>1 DEF SpanBefore
  <2>5. ASSUME NEW n PROVE SpanBefore(n, b) => SpanBefore(n, b)'
    <3>1. /\ SpanBut(n, NQueues, TRUE, n) => SpanBut(n, NQueues, TRUE, n)'
          /\ SpanBut(1, n, TRUE, n) => SpanBut(1, n, TRUE, n)'
          /\ SpanBut(1, n, FALSE, n) => SpanBut(1, n, FALSE, n)'
          /\ SpanBut(n, n, FALSE, n) => SpanBut(n, n, FALSE, n)'
      BY <1>1, ShapeKeepsSpan
    <3>2. QED
      BY <3>1 DEF SpanBefore
  <2>6. PICK n : n = s.n
    OBVIOUS
  <2>7. s.do \in {"delete", "flush"} => n \in Queues
    <3>1. s \in AnyStep
      BY <1>1, <1>6, <2>1, FirstStep
    <3>2. QED
      BY <2>6, <3>1, CountedIndex DEF CountedSteps
  <2>8. /\ Span(1, n - 1, TRUE) => Span(1, n - 1, TRUE)'
        /\ Span(1, n - 1, FALSE) => Span(1, n - 1, FALSE)'
        /\ Span(1, n, TRUE) => Span(1, n, TRUE)'
        /\ Span(1, n, FALSE) => Span(1, n, FALSE)'
        /\ Span(n, NQueues, TRUE) => Span(n, NQueues, TRUE)'
        /\ Span(1, NQueues, FALSE) => Span(1, NQueues, FALSE)'
    BY <1>1, ShapeKeepsSpan
  <2>9. s.do \in {"delete", "flush"} =>
          /\ hn'[n].ev = "closed" <=> hn[n].ev = "closed"
          /\ hn'[n].fast = hn[n].fast
    BY <2>7 DEF SameShape
  <2>10. Finds(s, a, b)'
    <3>1. /\ s.do \in {"unmask", "test_pending", "fire"} =>
               (Settled /\ (started \/ active => Ready))'
          /\ s.do = "start" => Settled'
          /\ s.do = "set_status" => (Settled /\ (started => s.n = "ok" /\ running))'
          /\ s.do = "clear" => (Settled /\ NobodyServes)'
          /\ s.do = "backend_stop" => (Settled /\ active)'
      BY <1>4, <2>2 DEF Finds, NobodyServes, Ready
    <3>2. /\ s.do = "assign" => (Span(1, s.n - 1, TRUE) /\ NobodyServes)'
          /\ s.do = "assign_error" => (Span(1, s.n, TRUE) /\ NobodyServes)'
          /\ s.do = "unassign" =>
               (Span(s.n, NQueues, TRUE) /\ ~active /\ (s.n > 1 => ~started))'
      BY <2>2, <2>6, <2>8 DEF Finds, NobodyServes
    <3>3. /\ s.do = "delete" =>
               (SpanBefore(s.n, b) /\ hn[s.n].ev # "closed" /\ NobodyServes)'
          /\ s.do = "flush" => (SpanBefore(s.n, a) /\ ~hn[s.n].fast /\ NobodyServes)'
      BY <2>2, <2>4, <2>5, <2>6, <2>9 DEF Finds, NobodyServes
    <3>4. /\ s.do = "take" => (IF s.n = 1 THEN Settled /\ ~active
                               ELSE Span(1, s.n - 1, FALSE) /\ NobodyServes)'
          /\ s.do = "open" => (Span(1, s.n - 1, FALSE) /\ NobodyServes)'
          /\ s.do = "give" => (Span(1, s.n, FALSE) /\ NobodyServes)'
      BY <1>4, <2>2, <2>6, <2>8 DEF Finds, NobodyServes
    <3>5. /\ s.do \in GuestSteps => (Span(1, NQueues, FALSE) /\ NobodyServes)'
          /\ s.do \in {"backend_start"} \cup SetGuestSteps => disabled'
      BY <2>2, <2>8 DEF Finds, NobodyServes
    <3>6. QED
      BY <3>1, <3>2, <3>3, <3>4, <3>5 DEF Finds
  <2>11. QED
    BY <1>2, <1>3, <2>3, <2>10, HeadIs DEF HostInv, SameShape
<1>7. QED
  BY <1>5, <1>6

(* Nor do steps that leave the notifiers alone.                             *)
LEMMA NothingKeepsHost ==
  ASSUME HostInv, UNCHANGED <<todo, hn, started, active, disabled, status, running>>
  PROVE  HostInv'
<1>1. SameShape
  BY DEF HostInv, SameShape
<1>2. QED
  BY <1>1, EventsKeepHost

(* KVM signals only notifiers that are open. *)
FastInv == \A q \in Queues : hn[q].fast => hn[q].ev # "closed"

(* Kicks, and those who hear them.                                          *)
LEMMA KicksKeepHost ==
  ASSUME HostInv, FastInv, Kicks
  PROVE  HostInv'
<1>1. PICK q \in Queues : (Kick(q) \/ NotifyTrapped(q) \/ ReadNotifier(q)) /\ UNCHANGED pciVars
  BY DEF Kicks, MainLoopReads, BackendReads
<1>2. UNCHANGED <<todo, started, active, disabled, status, running>>
  BY <1>1 DEF Kick, NotifyTrapped, ReadNotifier, pciVars
<1>3. hn \in [Queues -> Notifier]
  BY DEF HostInv
<1>4. SameShape
  <2>1. CASE UNCHANGED hn
    BY <1>3, <2>1 DEF SameShape
  <2>2. CASE Kick(q) /\ hn[q].fast
    BY <1>3, <2>2 DEF Kick, SameShape, FastInv, Notifier
  <2>3. CASE ReadNotifier(q)
    BY <1>3, <2>3 DEF ReadNotifier, SameShape, Notifier
  <2>4. QED
    BY <1>1, <2>1, <2>2, <2>3 DEF Kick, NotifyTrapped
<1>5. QED
  BY <1>2, <1>4, EventsKeepHost

(* Every step a handler consists of.                                        *)
LEMMA CallKeepsHost ==
  ASSUME HostInv, Call
  PROVE  HostInv'
<1>1. CASE SetStatus \/ BackendStart \/ BackendStop \/ Clear
  BY <1>1, SetStatusKeepsHost, BackendStartKeepsHost, BackendStopKeepsHost, ClearKeepsHost
<1>2. CASE (Ioeventfd \/ SetHostNotifier \/ SetHostNotifierInternal) /\ UNCHANGED pciVars
  <2>1. CASE Ioeventfd
    BY <1>2, <2>1, StartKeepsHost, AssignKeepsHost, AssignErrorKeepsHost, UnassignKeepsHost
       DEF Ioeventfd
  <2>2. CASE SetHostNotifier
    BY <1>2, <2>2, TakeKeepsHost, TakeOpenKeepsHost, GiveBackKeepsHost DEF SetHostNotifier
  <2>3. CASE SetHostNotifierInternal
    BY <1>2, <2>3, DeleteKeepsHost, FlushKeepsHost DEF SetHostNotifierInternal
  <2>4. QED
    BY <1>2, <2>1, <2>2, <2>3
<1>3. CASE (SetGuestNotifiers \/ Unmasking) /\ UNCHANGED <<hostVars, pciVars>>
  BY <1>3, GuestNotifiersKeepHost, UnmaskingKeepsHost
<1>4. QED
  BY <1>1, <1>2, <1>3 DEF Call

(* The status has one of its values.                                        *)
StatusInv == status \in Statuses

(* virtio_set_status is called with a status.                               *)
LEMMA StatusKept ==
  ASSUME HostInv, StatusInv, [Next]_vars
  PROVE  StatusInv'
<1>1. CASE SetStatus
  <2>1. todo # <<>> /\ todo[1].do = "set_status" /\ Index = todo[1].n /\ todo[1] \in AnyStep
    BY <1>1, FirstStep DEF HostInv, SetStatus, At, Index
  <2>2. todo[1].n \in Statuses
    BY <2>1 DEF AnyStep, CountedSteps, PlainSteps, Statuses
  <2>3. QED
    BY <1>1, <2>1, <2>2 DEF SetStatus, StatusInv
<1>2. CASE UNCHANGED status
  BY <1>2 DEF StatusInv
<1>3. CASE Call
  BY <1>1, <1>2, <1>3, Zenon DEF Call, BackendStart, BackendStop, Clear, pciVars
<1>4. CASE Guest
  BY <1>2, <1>4 DEF Guest, WriteStatus, WriteNoPfn, WriteQueueVector, EnableMaster,
                    DisableMaster, pciVars
<1>5. CASE Machine
  BY <1>2, <1>5, Zenon DEF Machine, StopMachine, ContinueMachine, Migrate, ResetMachine
<1>6. CASE Kicks \/ Interrupts \/ UNCHANGED vars
  BY <1>2, <1>6 DEF Kicks, Interrupts, vars, pciVars
<1>7. QED
  BY <1>3, <1>4, <1>5, <1>6 DEF Next

(* What the guest writes. *)
LEMMA WriteStatusKeepsHost ==
  ASSUME HostInv, NEW s \in Statuses, WriteStatus(s)
  PROVE  HostInv'
<1>1. Idle /\ UNCHANGED hostVars /\ running'
  BY DEF WriteStatus, Enter
<1>2. CASE s = "ok"
  <2>1. Enter(<<Step("set_status", "ok"), Step("start", 0)>>)
    BY <1>2 DEF WriteStatus
  <2>2. QED
    BY <1>1, <2>1, SetOkKeepsHost
<1>3. CASE s = "setup"
  <2>1. Enter(StopSteps \o <<Step("set_status", "setup")>>) /\ "setup" \in Statuses
    BY <1>3 DEF WriteStatus, Statuses
  <2>2. QED
    BY <1>1, <2>1, StopAndSetKeepsHost
<1>4. CASE s = "reset"
  <2>1. Enter(StopSteps \o <<Step("set_status", "reset")>> \o ResetDevice)
    BY <1>4 DEF WriteStatus
  <2>2. QED
    BY <1>1, <2>1, StopSetAndResetKeepsHost
<1>5. QED
  BY <1>2, <1>3, <1>4 DEF Statuses

(* The guest disables bus mastering.                                        *)
LEMMA DisableMasterKeepsHost ==
  ASSUME HostInv, StatusInv, DisableMaster
  PROVE  HostInv'
<1>1. Idle /\ UNCHANGED <<hostVars, status, running>>
  BY DEF DisableMaster, Enter
<1>2. CASE busBug
  <2>1. UNCHANGED <<todo, hn, started, active, disabled, status, running>>
    BY <1>1, <1>2 DEF DisableMaster, Enter, Idle, hostVars
  <2>2. QED
    BY <2>1, NothingKeepsHost
<1>3. CASE ~busBug
  <2>1. PICK s \in Statuses : s = IF status = "ok" THEN "setup" ELSE status
    BY DEF StatusInv, Statuses
  <2>2. Enter(StopSteps \o <<Step("set_status", s)>>)
    BY <1>3, <2>1 DEF DisableMaster
  <2>3. QED
    BY <1>1, <2>2, StopAndSetKeepsHost
<1>4. QED
  BY <1>2, <1>3

(* The guest unmasks a vector.                                              *)
LEMMA UnmaskVectorKeepsHost ==
  ASSUME HostInv, NEW v \in Vectors, UnmaskVector(v), UNCHANGED <<hostVars, pciVars>>
  PROVE  HostInv'
<1>1. Idle /\ UNCHANGED <<hostVars, status, running>>
  BY DEF UnmaskVector, pciVars
<1>2. PICK f \in AnyStep : f = Step("fire", v) /\ f.do = "fire"
  <2>1. Step("fire", v) \in [do : {"fire"}, n : Vectors] /\ Step("fire", v).do = "fire"
    BY DEF Step
  <2>2. Step("fire", v) \in AnyStep
    BY <2>1, Zenon DEF AnyStep
  <2>3. QED
    BY <2>1, <2>2
<1>3. After(f, Last) /\ f.do \notin ReadySteps /\ f.do # "open"
  BY <1>2 DEF After, Unfinished, ReadySteps, TakingSteps
<1>4. \/ Enter(<<>> \o <<f>>)
      \/ \E q \in Queues : Enter(<<Step("unmask", q)>> \o <<f>>)
  <2> DEFINE list == IF notifiers THEN NextSharing(v, 0) ELSE <<>>
  <2>1. todo' = list \o <<f>>
    BY <1>2 DEF UnmaskVector
  <2>2. list = <<>> \/ \E q \in Queues : list = <<Step("unmask", q)>>
    BY NextSharingIs
  <2> HIDE DEF list
  <2>3. QED
    BY <1>1, <2>1, <2>2 DEF Enter
<1>5. CASE Enter(<<>> \o <<f>>)
  <2>1. Enter(<<f>>) /\ EntersWith(f)
    BY <1>1, <1>2, <1>5, Lists DEF EntersWith, UnmaskingSteps
  <2>2. QED
    BY <1>1, <1>3, <2>1, EnterOne
<1>6. ASSUME NEW q \in Queues, Enter(<<Step("unmask", q)>> \o <<f>>)
      PROVE  HostInv'
  <2>1. PICK a \in AnyStep : a = Step("unmask", q) /\ a.do = "unmask"
    <3>1. Step("unmask", q) \in [do : CountedSteps, n : Queues]
          /\ Step("unmask", q).do = "unmask"
      BY DEF Step, CountedSteps
    <3>2. Step("unmask", q) \in AnyStep
      BY <3>1, Zenon DEF AnyStep
    <3>3. QED
      BY <3>1, <3>2
  <2>2. Enter(<<a, f>>)
    BY <1>6, <2>1, Lists
  <2>3. EntersWith(a) /\ After(a, f) /\ a.do \notin ReadySteps
    BY <1>1, <1>2, <2>1 DEF EntersWith, UnmaskingSteps, After, ReadySteps, TakingSteps
  <2>4. QED
    BY <1>1, <1>3, <2>2, <2>3, EnterTwo
<1>7. QED
  BY <1>4, <1>5, <1>6

(* All that the guest writes.                                               *)
LEMMA GuestKeepsHost ==
  ASSUME HostInv, StatusInv, Guest
  PROVE  HostInv'
<1>1. ASSUME NEW s \in {"reset", "setup", "ok"}, WriteStatus(s)
      PROVE  HostInv'
  BY <1>1, WriteStatusKeepsHost DEF Statuses
<1>2. CASE WriteNoPfn
  BY <1>2, StopAndResetKeepsHost DEF WriteNoPfn, Enter
<1>3. CASE DisableMaster
  BY <1>3, DisableMasterKeepsHost
<1>4. ASSUME NEW v \in Vectors, UnmaskVector(v), UNCHANGED <<hostVars, pciVars>>
      PROVE  HostInv'
  BY <1>4, UnmaskVectorKeepsHost
<1>5. CASE UNCHANGED <<todo, hostVars, status, running>>
  BY <1>5, NothingKeepsHost DEF hostVars
<1>6. ASSUME NEW q \in Queues, NEW v \in Vectors \cup {NoVector}, WriteQueueVector(q, v)
      PROVE  HostInv'
  BY <1>5, <1>6 DEF WriteQueueVector, pciVars
<1>7. CASE EnableMaster
  BY <1>5, <1>7 DEF EnableMaster
<1>8. ASSUME NEW v \in Vectors, MaskVector(v), UNCHANGED <<hostVars, pciVars>>
      PROVE  HostInv'
  BY <1>5, <1>8 DEF MaskVector, pciVars
<1>9. CASE PollVectors /\ UNCHANGED <<hostVars, pciVars>>
  BY <1>5, <1>9 DEF PollVectors, pciVars
<1>10. QED
  BY <1>1, <1>2, <1>3, <1>4, <1>6, <1>7, <1>8, <1>9 DEF Guest

(* The machine stops, continues, is migrated and reset.                     *)
LEMMA MachineKeepsHost ==
  ASSUME HostInv, StatusInv, Machine
  PROVE  HostInv'
<1>1. CASE StopMachine
  <2>1. Idle /\ UNCHANGED hostVars /\ Enter(StopSteps \o <<Step("set_status", status)>>)
    BY <1>1 DEF StopMachine, Enter
  <2>2. PICK s \in Statuses : s = status
    BY DEF StatusInv
  <2>3. QED
    BY <2>1, <2>2, StopAndSetKeepsHost
<1>2. CASE ContinueMachine
  <2>1. Idle /\ UNCHANGED hostVars /\ running' /\ ~running
    BY <1>2 DEF ContinueMachine, Enter
  <2>2. ~started
    BY <2>1 DEF HostInv, HeadInv, Idle, Ready
  <2>3. CASE status = "ok"
    <3>1. Enter(<<Step("set_status", "ok")>> \o <<Step("start", 0)>>)
      BY <1>2, <2>3 DEF ContinueMachine
    <3>2. Enter(<<Step("set_status", "ok"), Step("start", 0)>>)
      BY <3>1, Lists
    <3>3. QED
      BY <2>1, <3>2, SetOkKeepsHost
  <2>4. CASE status # "ok"
    <3>1. PICK s \in Statuses : s = status
      BY DEF StatusInv
    <3>2. PICK a \in AnyStep : a = Step("set_status", s) /\ a.do = "set_status"
      BY StepKinds DEF Step
    <3>3. Enter(<<a>> \o <<>>)
      BY <1>2, <2>4, <3>1, <3>2 DEF ContinueMachine
    <3>4. Enter(<<a>>)
      BY <3>3, Lists
    <3>5. EntersWith(a) /\ After(a, Last) /\ a.do \notin ReadySteps
      BY <2>2, <3>2, StepKinds DEF EntersWith
    <3>6. QED
      BY <2>1, <3>4, <3>5, EnterOne
  <2>5. QED
    BY <2>3, <2>4
<1>3. CASE Migrate
  <2>1. todo = <<>> /\ ~running /\ UNCHANGED <<todo, hn, started, active, status, running>>
    BY <1>3, Zenon DEF Migrate, Idle
  <2>2. ~started /\ ~active /\ Settled
    BY <2>1 DEF HostInv, HeadInv, Ready
  <2>3. Settled'
    BY <2>1, <2>2 DEF Settled
  <2>4. TodoInv' /\ ReadyInv' /\ OpenInv'
    BY <2>1 DEF HostInv, TodoInv, ReadyInv, OpenInv
  <2>5. QED
    BY <2>1, <2>2, <2>3, <2>4 DEF HostInv, HeadInv
<1>4. CASE ResetMachine
  BY <1>4, StopAndResetKeepsHost DEF ResetMachine, Enter
<1>5. QED
  BY <1>1, <1>2, <1>3, <1>4 DEF Machine

(* KVM lets go of a notifier before it is closed.                           *)
LEMMA FastKept ==
  ASSUME HostInv, FastInv, [Next]_vars
  PROVE  FastInv'
<1>0. hn \in [Queues -> Notifier]
  BY DEF HostInv
<1>1. CASE UNCHANGED hn
  BY <1>1 DEF FastInv
<1>2. ASSUME NEW q, NEW handler \in BOOLEAN, OpenNotifier(q, handler)
      PROVE  FastInv'
  BY <1>0, <1>2 DEF FastInv, OpenNotifier, Notifier
<1>3. CASE AssignNext \/ TakeOpen
  BY <1>1, <1>2, <1>3 DEF AssignNext, TakeOpen
<1>4. CASE DeleteEventfd
  BY <1>0, <1>4 DEF DeleteEventfd, FastInv, Notifier
<1>5. CASE Flush
  <2>1. todo # <<>> /\ todo[1].do = "flush" /\ Index = todo[1].n
    BY <1>5, FirstStep DEF HostInv, Flush, At, Index
  <2>2. ~hn[Index].fast
    BY <2>1 DEF HostInv, HeadInv, Finds
  <2>3. QED
    BY <1>0, <1>5, <2>2 DEF Flush, FastInv, Notifier
<1>6. CASE Call
  <2>1. CASE Ioeventfd
    BY <1>1, <1>3, <2>1
       DEF Ioeventfd, StartIoeventfd, AssignError, UnassignNext, hostVars
  <2>2. CASE SetHostNotifier
    BY <1>1, <1>3, <2>2 DEF SetHostNotifier, TakeNext, GiveBack
  <2>3. CASE SetHostNotifierInternal
    BY <1>4, <1>5, <2>3 DEF SetHostNotifierInternal
  <2>4. CASE SetStatus \/ BackendStart \/ BackendStop \/ Clear \/ UNCHANGED hostVars
    BY <1>1, <2>4, Zenon DEF SetStatus, BackendStart, BackendStop, Clear, hostVars
  <2>5. QED
    BY <1>6, <2>1, <2>2, <2>3, <2>4 DEF Call
<1>7. CASE Guest
  BY <1>1, <1>7 DEF Guest, WriteStatus, WriteNoPfn, WriteQueueVector, EnableMaster,
                    DisableMaster, hostVars
<1>8. CASE Machine
  BY <1>1, <1>8, Zenon DEF Machine, StopMachine, ContinueMachine, Migrate, ResetMachine, hostVars
<1>9. CASE Kicks
  <2>1. PICK q \in Queues : Kick(q) \/ NotifyTrapped(q) \/ ReadNotifier(q)
    BY <1>9 DEF Kicks, MainLoopReads, BackendReads
  <2>2. QED
    BY <1>0, <1>1, <2>1 DEF Kick, NotifyTrapped, ReadNotifier, FastInv, Notifier
<1>10. CASE Interrupts \/ UNCHANGED vars
  BY <1>1, <1>10 DEF Interrupts, vars, hostVars
<1>11. QED
  BY <1>6, <1>7, <1>8, <1>9, <1>10 DEF Next

(* All together.                                                            *)
PciInv == HostInv /\ FastInv /\ StatusInv

(* Every step keeps all of this.                                            *)
LEMMA NextPciInv == PciInv /\ [Next]_vars => PciInv'
<1> SUFFICES ASSUME PciInv, [Next]_vars PROVE PciInv'
  OBVIOUS
<1>1. HostInv /\ FastInv /\ StatusInv
  BY DEF PciInv
<1>2. FastInv' /\ StatusInv'
  BY <1>1, FastKept, StatusKept
<1>3. CASE Call
  BY <1>1, <1>2, <1>3, CallKeepsHost DEF PciInv
<1>4. CASE Guest \/ Machine
  BY <1>1, <1>2, <1>4, GuestKeepsHost, MachineKeepsHost DEF PciInv
<1>5. CASE Kicks
  BY <1>1, <1>2, <1>5, KicksKeepHost DEF PciInv
<1>6. CASE Interrupts \/ UNCHANGED vars
  <2>1. UNCHANGED <<todo, hn, started, active, disabled, status, running>>
    BY <1>6 DEF Interrupts, DeviceNotifies, BackendSignals, GuestNotifierRead, hostVars,
                pciVars, vars
  <2>2. QED
    BY <1>1, <1>2, <2>1, NothingKeepsHost DEF PciInv
<1>7. QED
  BY <1>3, <1>4, <1>5, <1>6 DEF Next

(* It holds of a machine that has just been started.                        *)
LEMMA InitPciInv == Init => PciInv
<1> SUFFICES ASSUME Init PROVE PciInv
  OBVIOUS
<1>1. /\ todo = <<>> /\ status = "reset" /\ ~started /\ ~active /\ ~disabled
      /\ hn \in [Queues -> Notifier] /\ \A q \in Queues : hn[q] = Closed
  BY DEF Init, HostInit, Closed, Notifier
<1>2. TodoInv /\ ReadyInv /\ OpenInv
  BY <1>1 DEF TodoInv, ReadyInv, OpenInv
<1>3. HeadInv
  BY <1>1 DEF HeadInv, Settled
<1>4. FastInv /\ StatusInv
  BY <1>1 DEF FastInv, StatusInv, Statuses, Closed
<1>5. QED
  BY <1>1, <1>2, <1>3, <1>4 DEF PciInv, HostInv

(* The inductive invariant of the host notifiers, for any number of queues: *)
(* where a handler is, which notifiers are open and who serves them.        *)
THEOREM PciInvariant == Spec => []PciInv
BY InitPciInv, NextPciInv, PTL DEF Spec

(* Between two handlers the host notifiers of all queues are QEMU's, the    *)
(* vhost backend's or closed, for any number of queues: no error path of    *)
(* virtio_pci_start_ioeventfd or of a backend that starts leaves some behind. *)
THEOREM NotifiersAllOrNone == Spec => []HostAllOrNone
<1>1. PciInv => HostAllOrNone
  <2> SUFFICES ASSUME PciInv, Idle
               PROVE  /\ ~(started /\ active)
                      /\ \A q \in Queues : IF started THEN Opened(q, TRUE)
                                           ELSE IF active THEN Opened(q, FALSE)
                                           ELSE hn[q] = Closed
    BY DEF HostAllOrNone
  <2>1. Settled
    BY DEF PciInv, HostInv, HeadInv, Idle
  <2>2. \A q \in Queues : q \in 1..NQueues
    BY DEF Queues
  <2>3. QED
    BY <2>1, <2>2 DEF Settled, Span
<1>2. QED
  BY <1>1, PciInvariant, PTL

(* The queues are served only while the driver is ready, on a machine that  *)
(* runs: whatever clears DRIVER_OK or stops the machine stops them first.   *)
THEOREM OnlyServedWhenReady == Spec => []ServedWhenReady
<1>1. PciInv => ServedWhenReady
  BY DEF PciInv, HostInv, HeadInv, ServedWhenReady, Idle, Ready
<1>2. QED
  BY <1>1, PciInvariant, PTL

(* A list that sets no status. *)
Quiet(list) ==
  /\ list \in Seq(AnyStep)
  /\ \A i \in 1..Len(list) : list[i].do # "set_status"

(* How such lists are put together.                                         *)
LEMMA QuietLists ==
  /\ Quiet(<<>>)
  /\ \A s \in AnyStep : s.do # "set_status" => Quiet(<<s>>)
  /\ \A l, m : Quiet(l) /\ Quiet(m) => Quiet(l \o m)
<1>1. Quiet(<<>>)
  BY DEF Quiet
<1>2. ASSUME NEW s \in AnyStep, s.do # "set_status"
      PROVE  Quiet(<<s>>)
  <2>1. /\ <<s>> \in Seq(AnyStep) /\ Len(<<s>>) = 1 /\ <<s>>[1] = s
    OBVIOUS
  <2>2. \A i \in 1..1 : i = 1
    OBVIOUS
  <2>3. QED
    BY <1>2, <2>1, <2>2 DEF Quiet
<1>3. ASSUME NEW l, NEW m, Quiet(l), Quiet(m)
      PROVE  Quiet(l \o m)
  <2>0. l \in Seq(AnyStep) /\ m \in Seq(AnyStep)
    BY <1>3 DEF Quiet
  <2>a. /\ l \o m \in Seq(AnyStep)
        /\ Len(l \o m) = Len(l) + Len(m)
        /\ \A i \in 1..Len(l) + Len(m) :
             (l \o m)[i] = IF i <= Len(l) THEN l[i] ELSE m[i - Len(l)]
    BY <2>0, ConcatProperties, Zenon
  <2>b. Len(l) \in Nat /\ Len(m) \in Nat
    BY <2>0
  <2>1. PICK A \in Nat, B \in Nat :
          /\ A = Len(l) /\ B = Len(m)
          /\ l \o m \in Seq(AnyStep) /\ Len(l \o m) = A + B
          /\ \A i \in 1..A + B : (l \o m)[i] = IF i <= A THEN l[i] ELSE m[i - A]
    BY <2>a, <2>b, Zenon
  <2>2. ASSUME NEW i \in 1..A + B
        PROVE  (l \o m)[i].do # "set_status"
    <3>1. CASE i <= A
      BY <1>3, <2>1, <3>1 DEF Quiet
    <3>2. CASE i > A
      <4>1. PICK k \in 1..B : k = i - A
        BY <3>2
      <4>2. (l \o m)[i] = m[k]
        <5>1. ~(i <= A)
          BY <3>2
        <5>2. (l \o m)[i] = m[i - A]
          BY <2>1, <5>1
        <5>3. QED
          BY <4>1, <5>2
      <4>3. QED
        BY <1>3, <2>1, <4>1, <4>2 DEF Quiet
    <3>3. i <= A \/ i > A
      OBVIOUS
    <3>4. QED
      BY <3>1, <3>2, <3>3
  <2>3. QED
    BY <2>1, <2>2 DEF Quiet
<1>4. QED
  BY <1>1, <1>2, <1>3

(* Every step but set_status makes one.                                     *)
LEMMA QuietStep ==
  /\ \A do \in CountedSteps, n \in Queues : Quiet(<<Step(do, n)>>)
  /\ \A do \in PlainSteps : Quiet(<<Step(do, 0)>>)
<1>1. ASSUME NEW do \in CountedSteps, NEW n \in Queues
      PROVE  Quiet(<<Step(do, n)>>)
  <2>1. Step(do, n) \in [do : CountedSteps, n : Queues] /\ Step(do, n).do # "set_status"
    BY DEF Step, CountedSteps
  <2>2. Step(do, n) \in AnyStep
    BY <2>1, Zenon DEF AnyStep
  <2>3. QED
    BY <2>1, <2>2, QuietLists
<1>2. ASSUME NEW do \in PlainSteps
      PROVE  Quiet(<<Step(do, 0)>>)
  <2>1. Step(do, 0) \in [do : PlainSteps, n : {0}] /\ Step(do, 0).do # "set_status"
    BY DEF Step, PlainSteps
  <2>2. Step(do, 0) \in AnyStep
    BY <2>1, Zenon DEF AnyStep
  <2>3. QED
    BY <2>1, <2>2, QuietLists
<1>3. QED
  BY <1>1, <1>2

(* So do the rounds of a loop.                                              *)
LEMMA QuietLoops ==
  ASSUME NEW n \in Queues, NEW do \in CountedSteps
  PROVE  /\ \A end : Quiet(end) => Quiet(Up(do, n + 1, end))
         /\ \A end : Quiet(end) => Quiet(Down(do, n - 1, end))
         /\ \A end : Quiet(end) => Quiet(Down(do, NQueues, end))
         /\ Quiet(Unassign(n))
<1>1. n + 1 <= NQueues => n + 1 \in Queues
  BY NQueuesAssumption DEF Queues
<1>2. n - 1 > 0 => n - 1 \in Queues
  BY NQueuesAssumption DEF Queues
<1>3. NQueues \in Queues
  BY NQueuesAssumption DEF Queues
<1>4. \A end : Quiet(end) => Quiet(Up(do, n + 1, end))
  BY <1>1, QuietStep DEF Up
<1>5. \A end : Quiet(end) => Quiet(Down(do, n - 1, end))
  BY <1>2, QuietStep DEF Down
<1>6. \A end : Quiet(end) => Quiet(Down(do, NQueues, end))
  BY <1>3, QuietStep DEF Down
<1>7. Quiet(Unassign(n))
  <2> DEFINE d == Step("delete", n)
             f == Step("flush", n)
  <2>1. Quiet(<<d>>) /\ Quiet(<<f>>)
    BY QuietStep DEF CountedSteps
  <2>2. <<d>> \o <<f>> = <<d, f>>
    <3> HIDE DEF d, f
    <3> QED BY Lists
  <2>3. Quiet(<<d>> \o <<f>>)
    <3> HIDE DEF d, f
    <3> QED BY <2>1, QuietLists
  <2>4. QED
    BY <2>2, <2>3 DEF Unassign
<1>8. QED
  BY <1>4, <1>5, <1>6, <1>7

(* The steps of a handler set no status, but for the one that does that.    *)
LEMMA CallIsQuiet ==
  ASSUME HostInv, Call, ~SetStatus
  PROVE  /\ \E list : Quiet(list) /\ Then(list)
         /\ UNCHANGED pciVars
         /\ todo # <<>> /\ todo[1].do # "set_status"
<1> DEFINE Goal == \E list : Quiet(list) /\ Then(list)
<1>1. todo # <<>> /\ todo[1].do # "set_status"
  <2>1. todo # <<>> /\ Head(todo).do # "set_status"
    BY ZenonT(40) DEF Call, BackendStart, BackendStop, Clear, At,
           Ioeventfd, StartIoeventfd, AssignNext, AssignError, UnassignNext,
           SetHostNotifier, TakeNext, TakeOpen, GiveBack,
           SetHostNotifierInternal, DeleteEventfd, Flush,
           SetGuestNotifiers, SetGuestNext, AssignGuestError, VectorUseNext, VectorUndo,
           VectorReleaseNext, SetVectorNotifiers, UnsetVectorNotifiers, UnsetGuestNext,
           Unmasking, UnmaskNext, TestPending, FirePending
  <2>2. QED
    BY <2>1, FirstStep DEF HostInv
<1>2. UNCHANGED pciVars
  BY Zenon DEF Call, BackendStart, BackendStop, Clear
<1>3. PICK n : n = todo[1].n /\ Index = n
  BY <1>1, FirstStep DEF HostInv, Index
<1>4. todo[1].do \in CountedSteps => n \in Queues
  BY <1>1, <1>3, FirstStep, CountedIndex DEF HostInv
<1>5. NQueues \in Queues /\ 1 \in Queues
  BY NQueuesAssumption DEF Queues
<1>6. ASSUME NEW do \in CountedSteps, At(do)
      PROVE  n \in Queues
  BY <1>4, <1>6, FirstStep DEF At, HostInv
<1> HIDE DEF Goal
<1>7. ASSUME NEW list, Quiet(list), Then(list)
      PROVE  Goal
  BY <1>7 DEF Goal
<1>8. Quiet(<<>>) /\ Quiet(<<Step("give", NQueues)>>)
  BY <1>5, QuietLists, QuietStep DEF CountedSteps
<1>9. Quiet(StartSteps) /\ Quiet(StopSteps)
  BY <1>5, <1>8, QuietStep DEF StartSteps, StopSteps, CountedSteps
<1>10. Quiet(Failed(NQueues)) /\ (n \in Queues => Quiet(Failed(n - 1)))
  BY <1>5, <1>8, QuietLoops DEF Failed, CountedSteps
<1>11. n \in Queues => Quiet(Undo(n))
  BY <1>10, QuietLoops DEF Undo, CountedSteps
<1>12. Quiet(GuestAssigned)
  BY <1>5, QuietStep DEF GuestAssigned, CountedSteps, PlainSteps
<1>13. ASSUME BackendStart \/ Clear PROVE Goal
  BY <1>7, <1>8, <1>13, Zenon DEF BackendStart, Clear
<1>14. ASSUME BackendStop PROVE Goal
  <2> DEFINE a == IF irqfds \/ canMask THEN <<Step("unset_vector_notifiers", 0)>> ELSE <<>>
             b == IF irqfds THEN <<Step("vector_release", 1)>> ELSE <<>>
             c == <<Step("unset_guest", 1)>>
  <2>1. Quiet(a) /\ Quiet(b) /\ Quiet(c)
    BY <1>5, <1>8, QuietStep DEF CountedSteps, PlainSteps
  <2>2. UnsetGuestNotifiers = (a \o b) \o c
    BY DEF UnsetGuestNotifiers
  <2>3. Quiet(UnsetGuestNotifiers)
    <3> HIDE DEF a, b, c
    <3>1. Quiet(a \o b)
      BY <2>1, QuietLists
    <3>2. Quiet((a \o b) \o c)
      BY <2>1, <3>1, QuietLists
    <3>3. QED
      BY <2>2, <3>2
  <2>4. Quiet(UnsetGuestNotifiers \o <<Step("give", NQueues)>>)
    BY <1>8, <2>3, QuietLists
  <2>5. QED
    BY <1>7, <1>14, <2>4, Zenon DEF BackendStop
<1>15. ASSUME Ioeventfd PROVE Goal
  <2>1. ASSUME StartIoeventfd PROVE Goal
    BY <1>7, <1>9, <2>1 DEF StartIoeventfd
  <2>2. ASSUME AssignNext PROVE Goal
    <3>1. n \in Queues /\ "assign" \in CountedSteps /\ "assign_error" \in CountedSteps
      BY <1>6, <2>2 DEF AssignNext, CountedSteps
    <3>2. Quiet(Up("assign", n + 1, <<>>)) /\ Quiet(Down("assign_error", n - 1, <<>>))
      BY <1>8, <3>1, QuietLoops
    <3>3. QED
      BY <1>3, <1>7, <2>2, <3>2 DEF AssignNext
  <2>3. ASSUME AssignError PROVE Goal
    <3>1. n \in Queues /\ "assign_error" \in CountedSteps
      BY <1>6, <2>3 DEF AssignError, CountedSteps
    <3>2. Quiet(Unassign(n)) /\ Quiet(Down("assign_error", n - 1, <<>>))
      BY <1>8, <3>1, QuietLoops
    <3>3. Quiet(Unassign(n) \o Down("assign_error", n - 1, <<>>))
      BY <3>2, QuietLists
    <3>4. QED
      BY <1>3, <1>7, <2>3, <3>3 DEF AssignError
  <2>4. ASSUME UnassignNext PROVE Goal
    <3>1. n \in Queues /\ "unassign" \in CountedSteps
      BY <1>6, <2>4 DEF UnassignNext, CountedSteps
    <3>2. Quiet(Unassign(n)) /\ Quiet(Up("unassign", n + 1, <<>>))
      BY <1>8, <3>1, QuietLoops
    <3>3. Quiet(Unassign(n) \o Up("unassign", n + 1, <<>>))
      BY <3>2, QuietLists
    <3>4. QED
      BY <1>3, <1>7, <2>4, <3>3 DEF UnassignNext
  <2>5. QED
    BY <1>15, <2>1, <2>2, <2>3, <2>4 DEF Ioeventfd
<1>16. ASSUME SetHostNotifier PROVE Goal
  <2>1. ASSUME TakeNext PROVE Goal
    <3>1. n \in Queues /\ "open" \in CountedSteps
      BY <1>6, <2>1 DEF TakeNext, CountedSteps
    <3>2. Quiet(<<Step("open", n)>>)
      BY <3>1, QuietStep
    <3>3. Quiet(StopSteps \o <<Step("open", n)>>)
      BY <1>9, <3>2, QuietLists
    <3>4. QED
      BY <1>3, <1>7, <2>1, <3>3 DEF TakeNext
  <2>2. ASSUME TakeOpen PROVE Goal
    <3>1. n \in Queues /\ "take" \in CountedSteps /\ "give" \in CountedSteps
          /\ "set_guest" \in CountedSteps
      BY <1>6, <2>2 DEF TakeOpen, CountedSteps
    <3>2. Quiet(<<Step("set_guest", 1)>>)
      BY <1>5, <3>1, QuietStep
    <3>3. Quiet(Up("take", n + 1, <<Step("set_guest", 1)>>))
          /\ Quiet(Down("give", n - 1, <<>>))
      BY <1>8, <3>1, <3>2, QuietLoops
    <3>4. QED
      BY <1>3, <1>7, <2>2, <3>3 DEF TakeOpen
  <2>3. ASSUME GiveBack PROVE Goal
    <3>1. n \in Queues /\ "give" \in CountedSteps
      BY <1>6, <2>3 DEF GiveBack, CountedSteps
    <3>2. Quiet(Unassign(n)) /\ Quiet(Down("give", n - 1, <<>>))
      BY <1>8, <3>1, QuietLoops
    <3>3. Quiet(Unassign(n) \o Down("give", n - 1, <<>>))
      BY <3>2, QuietLists
    <3>4. QED
      BY <1>3, <1>7, <2>3, <3>3 DEF GiveBack
  <2>4. QED
    BY <1>16, <2>1, <2>2, <2>3 DEF SetHostNotifier
<1>17. ASSUME SetHostNotifierInternal PROVE Goal
  BY <1>7, <1>8, <1>17 DEF SetHostNotifierInternal, DeleteEventfd, Flush
<1>18. ASSUME SetGuestNotifiers PROVE Goal
  <2>1. ASSUME SetGuestNext PROVE Goal
    <3>1. n \in Queues /\ "set_guest" \in CountedSteps
      BY <1>6, <2>1 DEF SetGuestNext, CountedSteps
    <3>2. Quiet(Up("set_guest", n + 1, GuestAssigned)) /\ Quiet(Failed(n - 1))
      BY <1>10, <1>12, <3>1, QuietLoops
    <3>3. QED
      BY <1>3, <1>7, <2>1, <3>2 DEF SetGuestNext
  <2>2. ASSUME AssignGuestError PROVE Goal
    <3>1. n \in Queues
      BY <1>6, <2>2 DEF AssignGuestError, CountedSteps
    <3>2. QED
      BY <1>3, <1>7, <1>10, <2>2, <3>1 DEF AssignGuestError
  <2>3. ASSUME VectorUseNext PROVE Goal
    <3>1. n \in Queues /\ "vector_use" \in CountedSteps
      BY <1>6, <2>3, SMTT(30) DEF VectorUseNext, CountedSteps
    <3>2. Quiet(<<Step("set_vector_notifiers", 0)>>)
      BY QuietStep, SMTT(30) DEF PlainSteps
    <3>3. Quiet(Up("vector_use", n + 1, <<Step("set_vector_notifiers", 0)>>))
      BY <3>1, <3>2, QuietLoops, SMTT(30)
    <3>4. Then(Up("vector_use", n + 1, <<Step("set_vector_notifiers", 0)>>)) \/ Then(Undo(n))
      BY <1>3, <2>3 DEF VectorUseNext
    <3>5. QED
      BY <1>7, <1>11, <3>1, <3>3, <3>4
  <2>4. ASSUME VectorUndo PROVE Goal
    <3>1. n \in Queues
      BY <1>6, <2>4 DEF VectorUndo, CountedSteps
    <3>2. QED
      BY <1>3, <1>7, <1>11, <2>4, <3>1 DEF VectorUndo
  <2>5. ASSUME VectorReleaseNext PROVE Goal
    <3>1. n \in Queues /\ "vector_release" \in CountedSteps
      BY <1>6, <2>5 DEF VectorReleaseNext, CountedSteps
    <3>2. Quiet(Up("vector_release", n + 1, <<>>))
      BY <1>8, <3>1, QuietLoops
    <3>3. QED
      BY <1>3, <1>7, <2>5, <3>2 DEF VectorReleaseNext
  <2>6. ASSUME UnsetGuestNext PROVE Goal
    <3>1. n \in Queues /\ "unset_guest" \in CountedSteps
      BY <1>6, <2>6 DEF UnsetGuestNext, CountedSteps
    <3>2. Quiet(Up("unset_guest", n + 1, <<>>))
      BY <1>8, <3>1, QuietLoops
    <3>3. QED
      BY <1>3, <1>7, <2>6, <3>2 DEF UnsetGuestNext
  <2>7. ASSUME SetVectorNotifiers PROVE Goal
    <3> DEFINE a == <<Step("vector_release", 1)>>
    <3>1. Quiet(a) /\ Quiet(<<Step("backend_start", 0)>>)
      BY <1>5, <1>8, QuietStep DEF CountedSteps, PlainSteps
    <3>2. Quiet(a \o Failed(NQueues))
      BY <1>10, <3>1, QuietLists
    <3>3. Then(a \o Failed(NQueues)) \/ Then(<<Step("backend_start", 0)>>)
      BY <2>7 DEF SetVectorNotifiers
    <3>4. QED
      BY <1>7, <3>1, <3>2, <3>3
  <2>8. ASSUME UnsetVectorNotifiers PROVE Goal
    BY <1>7, <1>8, <2>8 DEF UnsetVectorNotifiers
  <2>9. QED
    BY <1>18, <2>1, <2>2, <2>3, <2>4, <2>5, <2>6, <2>7, <2>8 DEF SetGuestNotifiers
<1>19. ASSUME Unmasking PROVE Goal
  <2>1. ASSUME UnmaskNext PROVE Goal
    <3>1. n \in Queues /\ "unmask" \in CountedSteps /\ "test_pending" \in CountedSteps
      BY <1>6, <2>1 DEF UnmaskNext, CountedSteps
    <3> DEFINE next == NextSharing(gn[n].vector, n)
    <3>2. next = <<>> \/ \E q \in Queues : next = <<Step("unmask", q)>>
      BY NextSharingIs
    <3>3. Then(next) \/ Then(<<Step("test_pending", n)>> \o next)
      BY <1>3, <2>1 DEF UnmaskNext
    <3> HIDE DEF next
    <3>4. Quiet(next) /\ Quiet(<<Step("test_pending", n)>>)
      BY <1>8, <3>1, <3>2, QuietStep
    <3>5. Quiet(<<Step("test_pending", n)>> \o next)
      BY <3>4, QuietLists
    <3>6. QED
      BY <1>7, <3>3, <3>4, <3>5
  <2>2. ASSUME TestPending \/ FirePending PROVE Goal
    BY <1>7, <1>8, <2>2 DEF TestPending, FirePending
  <2>3. QED
    BY <1>19, <2>1, <2>2 DEF Unmasking
<1>20. Goal
  BY <1>13, <1>14, <1>15, <1>16, <1>17, <1>18, <1>19 DEF Call
<1>21. QED
  BY <1>1, <1>2, <1>20 DEF Goal

(* A guest that sets DRIVER_OK is looked at before that, and one whose bus   *)
(* mastering goes loses DRIVER_OK.                                          *)
BusKnown == busMaster \/ busBug

(* A step that takes DRIVER_OK back.                                        *)
Clears(s) == s.do = "set_status" /\ s.n # "ok"

(* A ready guest, or one about to be, is known, or will not stay ready.     *)
BusInv ==
  running =>
    /\ \A i \in 1..Len(todo) : todo[i].do = "set_status" /\ todo[i].n = "ok" => BusKnown
    /\ status = "ok" => BusKnown \/ \E i \in 1..Len(todo) : Clears(todo[i])

(* The steps of a handler only carry out what its entry has seen to.        *)
LEMMA CallKeepsBus ==
  ASSUME HostInv, BusInv, Call
  PROVE  BusInv'
<1>1. todo \in Seq(AnyStep)
  BY DEF HostInv, TodoInv
<1>2. CASE SetStatus
  <2>1. todo # <<>> /\ todo[1].do = "set_status" /\ Index = todo[1].n
    BY <1>2, FirstStep DEF HostInv, SetStatus, At, Index
  <2>2. UNCHANGED <<running, busMaster, busBug>> /\ status' = todo[1].n
    BY <1>2, <2>1 DEF SetStatus
  <2>3. \E list : Quiet(list) /\ Then(list)
    <3>1. Quiet(<<>>) /\ Quiet(<<Step("take", 1)>>) /\ Quiet(<<Step("backend_stop", 0)>>)
      BY NQueuesAssumption, QuietLists, QuietStep DEF CountedSteps, PlainSteps, Queues
    <3>2. QED
      BY <1>2, <3>1 DEF SetStatus
  <2>4. PICK list : Quiet(list) /\ Then(list)
    BY <2>3
  <2>5. PICK L \in Nat, T \in Nat \ {0}, M \in Nat :
          /\ L = Len(list) /\ T = Len(todo) /\ M = Len(todo')
          /\ M = L + T - 1
          /\ \A i \in 1..L : todo'[i] = list[i]
          /\ \A j \in 2..T : todo'[j + L - 1] = todo[j]
    BY <1>1, <2>1, <2>4, ThenDoes, ZenonT(40) DEF Quiet
  <2> SUFFICES ASSUME running'
               PROVE  /\ \A i \in 1..M : todo'[i].do = "set_status" /\ todo'[i].n = "ok"
                           => BusKnown'
                      /\ status' = "ok" => BusKnown'
    BY <2>5 DEF BusInv
  <2>6. 1 \in 1..T
    BY <2>5
  <2>7. status' = "ok" => BusKnown
    BY <2>1, <2>2, <2>5, <2>6 DEF BusInv
  <2>8. ASSUME NEW i \in 1..M, todo'[i].do = "set_status", todo'[i].n = "ok"
        PROVE  BusKnown
    <3>1. CASE i <= L
      BY <2>4, <2>5, <2>8, <3>1 DEF Quiet
    <3>2. CASE i > L
      <4>1. PICK k \in 2..T : i = k + L - 1
        <5>1. M = L + T - 1
          BY <2>5
        <5>2. QED
          BY <3>2, <5>1, Shift
      <4>2. todo[k] = todo'[i] /\ k \in 1..T
        BY <2>5, <4>1
      <4>3. QED
        BY <2>2, <2>5, <2>8, <4>2 DEF BusInv
    <3>3. QED
      BY <3>1, <3>2
  <2>9. QED
    BY <2>2, <2>7, <2>8 DEF BusKnown
<1>3. CASE ~SetStatus
  <2>1. /\ UNCHANGED <<status, running, busMaster, busBug>>
        /\ todo # <<>> /\ todo[1].do # "set_status"
    BY <1>3, CallIsQuiet DEF pciVars
  <2>2. PICK list : Quiet(list) /\ Then(list)
    BY <1>3, CallIsQuiet
  <2>3. PICK L \in Nat, T \in Nat \ {0}, M \in Nat :
          /\ L = Len(list) /\ T = Len(todo) /\ M = Len(todo')
          /\ M = L + T - 1
          /\ \A i \in 1..L : todo'[i] = list[i]
          /\ \A j \in 2..T : todo'[j + L - 1] = todo[j]
    BY <1>1, <2>1, <2>2, ThenDoes, ZenonT(40) DEF Quiet
  <2> SUFFICES ASSUME running'
               PROVE  /\ \A i \in 1..M : todo'[i].do = "set_status" /\ todo'[i].n = "ok"
                           => BusKnown'
                      /\ status' = "ok" => BusKnown' \/ \E i \in 1..M : Clears(todo'[i])
    BY <2>3 DEF BusInv, Clears
  <2>4. ASSUME NEW i \in 1..M, todo'[i].do = "set_status", todo'[i].n = "ok"
        PROVE  BusKnown
    <3>1. CASE i <= L
      BY <2>2, <2>3, <2>4, <3>1 DEF Quiet
    <3>2. CASE i > L
      <4>1. PICK k \in 2..T : i = k + L - 1
        <5>1. M = L + T - 1
          BY <2>3
        <5>2. QED
          BY <3>2, <5>1, Shift
      <4>2. todo[k] = todo'[i] /\ k \in 1..T
        BY <2>3, <4>1
      <4>3. QED
        BY <2>1, <2>3, <2>4, <4>2 DEF BusInv
    <3>3. QED
      BY <3>1, <3>2
  <2>5. ASSUME status' = "ok", ~BusKnown
        PROVE  \E i \in 1..M : Clears(todo'[i])
    <3>1. PICK k \in 1..T : Clears(todo[k])
      BY <2>1, <2>3, <2>5 DEF BusInv
    <3>2. k \in 2..T
      BY <2>1, <3>1 DEF Clears
    <3>3. k + L - 1 \in 1..M /\ todo'[k + L - 1] = todo[k]
      BY <2>3, <3>2
    <3>4. QED
      BY <3>1, <3>3
  <2>6. QED
    BY <2>1, <2>4, <2>5 DEF BusKnown
<1>4. QED
  BY <1>2, <1>3

(* What the guest writes and what becomes of the machine, as far as bus      *)
(* mastering goes.                                                          *)
LEMMA StopThenStatusKeepsBus ==
  ASSUME NEW s \in Statuses, s # "ok", todo' = StopSteps \o <<Step("set_status", s)>>
  PROVE  BusInv'
<1>1. PICK u \in AnyStep : u = Step("unassign", 1) /\ u.do = "unassign"
  BY StepKinds DEF Step
<1>2. PICK a \in AnyStep : a = Step("set_status", s) /\ a.do = "set_status" /\ a.n = s
  BY StepKinds DEF Step
<1>3. CASE started
  <2>1. todo' = <<u>> \o <<a>>
    BY <1>1, <1>2, <1>3 DEF StopSteps
  <2>2. todo' = <<u, a>>
    BY <2>1, Lists
  <2>3. Len(todo') = 2 /\ todo'[1] = u /\ todo'[2] = a
    <3>1. Len(<<u, a>>) = 2 /\ <<u, a>>[1] = u /\ <<u, a>>[2] = a
      OBVIOUS
    <3>2. QED
      BY <2>2, <3>1, Zenon
  <2>4. 2 \in 1..2 /\ \A i \in 1..2 : i = 1 \/ i = 2
    OBVIOUS
  <2>5. u.do # "set_status" /\ a.n # "ok" /\ Clears(a)
    BY <1>1, <1>2 DEF Clears
  <2>6. QED
    BY <2>3, <2>4, <2>5 DEF BusInv
<1>4. CASE ~started
  <2>1. todo' = <<>> \o <<a>>
    BY <1>2, <1>4 DEF StopSteps
  <2>2. todo' = <<a>>
    BY <2>1, Lists
  <2>3. QED
    BY <1>2, <2>2 DEF BusInv, Clears
<1>5. QED
  BY <1>3, <1>4

(* A device that is reset is not ready any more.                            *)
LEMMA StopThenResetKeepsBus ==
  ASSUME \/ todo' = StopSteps \o ResetDevice
         \/ todo' = StopSteps \o <<Step("set_status", "reset")>> \o ResetDevice
  PROVE  BusInv'
<1>1. PICK u \in AnyStep : u = Step("unassign", 1) /\ u.do = "unassign"
  BY StepKinds DEF Step
<1>2. PICK a \in AnyStep : a = Step("set_status", "reset") /\ Clears(a) /\ a.n # "ok"
  BY StepKinds DEF Step, Statuses, Clears
<1>3. PICK b \in AnyStep : b = Step("clear", 0) /\ b.do = "clear"
  BY StepKinds DEF Step
<1>4. <<a, b>> \in Seq(AnyStep) /\ <<u>> \in Seq(AnyStep) /\ <<a>> \in Seq(AnyStep)
  OBVIOUS
<1>5. \E l : /\ l \in Seq(AnyStep) /\ todo' = l \o <<a, b>>
             /\ \A i \in 1..Len(l) : l[i] \in {u, a}
  <2>1. /\ <<>> \in Seq(AnyStep) /\ \A i \in 1..Len(<<>>) : <<>>[i] \in {u, a}
        /\ \A i \in 1..Len(<<u>>) : <<u>>[i] \in {u, a}
        /\ \A i \in 1..Len(<<a>>) : <<a>>[i] \in {u, a}
        /\ <<u, a>> \in Seq(AnyStep) /\ \A i \in 1..Len(<<u, a>>) : <<u, a>>[i] \in {u, a}
    OBVIOUS
  <2>2. /\ StopSteps = <<>> \/ StopSteps = <<u>>
        /\ ResetDevice = <<a, b>>
    BY <1>1, <1>2, <1>3 DEF StopSteps, ResetDevice
  <2>3. <<>> \o <<a>> = <<a>> /\ <<u>> \o <<a>> = <<u, a>>
    BY Lists
  <2>4. \/ todo' = <<>> \o <<a, b>> \/ todo' = <<u>> \o <<a, b>>
        \/ todo' = <<a>> \o <<a, b>> \/ todo' = <<u, a>> \o <<a, b>>
    BY <1>2, <2>2, <2>3
  <2>5. QED
    BY <1>4, <2>1, <2>4
<1>6. PICK l \in Seq(AnyStep) :
        todo' = l \o <<a, b>> /\ \A i \in 1..Len(l) : l[i] \in {u, a}
  BY <1>5
<1>7. PICK A \in Nat :
        /\ A = Len(l)
        /\ todo' \in Seq(AnyStep) /\ Len(todo') = A + 2
        /\ \A i \in 1..A : todo'[i] = l[i]
        /\ todo'[A + 1] = a /\ todo'[A + 2] = b
  BY <1>4, <1>6
<1>8. \A i \in 1..A + 2 : i \in 1..A \/ i = A + 1 \/ i = A + 2
  OBVIOUS
<1>9. \A i \in 1..A + 2 : ~(todo'[i].do = "set_status" /\ todo'[i].n = "ok")
  BY <1>1, <1>2, <1>3, <1>6, <1>7, <1>8, ZenonT(40)
<1>10. A + 1 \in 1..A + 2 /\ Clears(todo'[A + 1])
  BY <1>2, <1>7
<1>11. QED
  BY <1>7, <1>9, <1>10 DEF BusInv, Clears

(* All that the guest writes.                                               *)
LEMMA GuestKeepsBus ==
  ASSUME HostInv, StatusInv, BusInv, Guest
  PROVE  BusInv'
<1>1. CASE UNCHANGED <<todo, status, running>> /\ (BusKnown => BusKnown')
  BY <1>1 DEF BusInv, Clears
<1>2. ASSUME NEW s \in Statuses, WriteStatus(s)
      PROVE  BusInv'
  <2>1. CASE s = "ok"
    <3>1. BusKnown'
      BY <1>2, <2>1 DEF WriteStatus, CheckMaster, BusKnown
    <3>2. QED
      BY <3>1 DEF BusInv
  <2>2. CASE s = "setup"
    <3>1. todo' = StopSteps \o <<Step("set_status", "setup")>> /\ "setup" \in Statuses
      BY <1>2, <2>2 DEF WriteStatus, Enter, Statuses
    <3>2. QED
      BY <3>1, StopThenStatusKeepsBus
  <2>3. CASE s = "reset"
    BY <1>2, <2>3, StopThenResetKeepsBus DEF WriteStatus, Enter
  <2>4. QED
    BY <2>1, <2>2, <2>3 DEF Statuses
<1>3. CASE WriteNoPfn
  BY <1>3, StopThenResetKeepsBus DEF WriteNoPfn, Enter
<1>4. CASE DisableMaster
  <2>1. CASE busBug
    BY <2>1, <1>4 DEF DisableMaster, BusInv, BusKnown
  <2>2. CASE ~busBug
    <3>1. PICK s \in Statuses : s = IF status = "ok" THEN "setup" ELSE status
      BY DEF StatusInv, Statuses
    <3>2. s # "ok" /\ todo' = StopSteps \o <<Step("set_status", s)>>
      BY <1>4, <2>2, <3>1 DEF DisableMaster, Enter
    <3>3. QED
      BY <3>2, StopThenStatusKeepsBus
  <2>3. QED
    BY <2>1, <2>2
<1>5. ASSUME NEW v \in Vectors, UnmaskVector(v), UNCHANGED pciVars
      PROVE  BusInv'
  <2>1. Idle /\ UNCHANGED <<status, running, busMaster, busBug>>
    BY <1>5 DEF UnmaskVector, pciVars
  <2>2. PICK list : Quiet(list) /\ todo' = list
    <3>1. Step("fire", v) \in [do : {"fire"}, n : Vectors] /\ Step("fire", v).do # "set_status"
      BY DEF Step
    <3>2. Step("fire", v) \in AnyStep
      BY <3>1, Zenon DEF AnyStep
    <3>3. Quiet(<<Step("fire", v)>>) /\ Quiet(<<>>)
      BY <3>1, <3>2, QuietLists
    <3> DEFINE next == IF notifiers THEN NextSharing(v, 0) ELSE <<>>
    <3>4. next = <<>> \/ \E q \in Queues : next = <<Step("unmask", q)>>
      BY NextSharingIs
    <3>5. todo' = next \o <<Step("fire", v)>>
      BY <1>5 DEF UnmaskVector
    <3> HIDE DEF next
    <3>6. Quiet(next)
      BY <3>3, <3>4, QuietStep DEF CountedSteps
    <3>7. Quiet(next \o <<Step("fire", v)>>)
      BY <3>3, <3>6, QuietLists
    <3>8. QED
      BY <3>5, <3>7
  <2>3. BusKnown' <=> BusKnown
    BY <2>1 DEF BusKnown
  <2>4. status = "ok" /\ running => BusKnown
    BY <2>1 DEF BusInv, Idle
  <2>5. QED
    BY <2>1, <2>2, <2>3, <2>4 DEF BusInv, Quiet
<1>6. ASSUME NEW q \in Queues, NEW v \in Vectors \cup {NoVector}, WriteQueueVector(q, v)
      PROVE  BusInv'
  BY <1>1, <1>6 DEF WriteQueueVector, pciVars, BusKnown
<1>7. CASE EnableMaster
  BY <1>1, <1>7 DEF EnableMaster, BusKnown
<1>8. ASSUME NEW v \in Vectors, MaskVector(v), UNCHANGED pciVars
      PROVE  BusInv'
  BY <1>1, <1>8 DEF MaskVector, pciVars, BusKnown
<1>9. CASE PollVectors /\ UNCHANGED pciVars
  BY <1>1, <1>9 DEF PollVectors, pciVars, BusKnown
<1>10. QED
  BY <1>2, <1>3, <1>4, <1>5, <1>6, <1>7, <1>8, <1>9 DEF Guest, Statuses

(* A machine that continues is looked at again; the flag was not migrated.  *)
LEMMA MachineKeepsBus ==
  ASSUME HostInv, StatusInv, BusInv, Machine
  PROVE  BusInv'
<1>1. CASE StopMachine \/ Migrate
  BY <1>1, Zenon DEF StopMachine, Migrate, BusInv
<1>2. CASE ContinueMachine
  <2>1. CASE status = "ok"
    BY <1>2, <2>1 DEF ContinueMachine, CheckMaster, BusInv, BusKnown
  <2>2. CASE status # "ok"
    <3>1. PICK a \in AnyStep : a = Step("set_status", status) /\ a.n = status
      BY StepKinds DEF Step, StatusInv
    <3>2. todo' = <<a>> \o <<>> /\ status' = status
      BY <1>2, <2>2, <3>1 DEF ContinueMachine, Enter
    <3>3. todo' = <<a>>
      BY <3>2, Lists
    <3>4. QED
      BY <2>2, <3>1, <3>2, <3>3 DEF BusInv
  <2>3. QED
    BY <2>1, <2>2
<1>3. CASE ResetMachine
  BY <1>3, StopThenResetKeepsBus DEF ResetMachine, Enter
<1>4. QED
  BY <1>1, <1>2, <1>3 DEF Machine

(* Every step keeps it.                                                     *)
LEMMA NextBusInv == PciInv /\ BusInv /\ [Next]_vars => BusInv'
<1> SUFFICES ASSUME PciInv, BusInv, [Next]_vars PROVE BusInv'
  OBVIOUS
<1>1. HostInv /\ StatusInv
  BY DEF PciInv
<1>2. CASE Call
  BY <1>1, <1>2, CallKeepsBus
<1>3. CASE Guest \/ Machine
  BY <1>1, <1>3, GuestKeepsBus, MachineKeepsBus
<1>4. CASE Kicks \/ Interrupts \/ UNCHANGED vars
  <2>1. UNCHANGED <<todo, status, running, busMaster, busBug>>
    BY <1>4 DEF Kicks, Kick, NotifyTrapped, MainLoopReads, BackendReads, ReadNotifier,
                Interrupts, DeviceNotifies, BackendSignals, GuestNotifierRead, pciVars, vars
  <2>2. QED
    BY <2>1 DEF BusInv, BusKnown, Clears
<1>5. QED
  BY <1>2, <1>3, <1>4 DEF Next

(* A guest that is ready without bus mastering is known for it, also after a *)
(* migration, so that a later write of PCI_COMMAND does not stop its device. *)
THEOREM BuggyGuestsKnown == Spec => []BuggyGuestKnown
<1>1. Init => BusInv
  BY DEF Init, BusInv
<1>2. BusInv => BuggyGuestKnown
  BY DEF BusInv, BuggyGuestKnown, BusKnown, Idle
<1>3. QED
  BY <1>1, <1>2, NextBusInv, PciInvariant, PTL DEF Spec

------------------------------------------------------------------------------
(* The guest notifiers: how far they are is said by the step that is next    *)
(* and, between handlers, by whether the backend runs.  The steps on which    *)
(* nothing of them is being done are elsewhere.                              *)
Elsewhere(s) == s.do \notin GuestSteps \cup UnmaskingSteps

(* The queue has its guest notifier. *)
Assigned(q) ==
  \/ active
  \/ Nth(1).do \in {"vector_use", "set_vector_notifiers", "backend_start", "undo",
                    "vector_release", "unset_vector_notifiers"}
  \/ Nth(1).do = "set_guest" /\ q < Nth(1).n
  \/ Nth(1).do = "unset_error" /\ q <= Nth(1).n
  \/ Nth(1).do = "unset_guest" /\ q >= Nth(1).n

(* It holds a route of its vector. *)
RoutedNow(q) ==
  \/ active
  \/ Nth(1).do \in {"set_vector_notifiers", "backend_start", "unset_vector_notifiers"}
  \/ Nth(1).do = "vector_use" /\ q < Nth(1).n
  \/ Nth(1).do = "undo" /\ q <= Nth(1).n
  \/ Nth(1).do = "vector_release" /\ q >= Nth(1).n

(* A queue has a route of the vector it has, if it has one. *)
Routed(q) == intr = "irqfd" /\ HasVector(q) /\ RoutedNow(q)

(* The set-up is complete, so msix tells the proxy of masks. *)
Serving == active \/ Nth(1).do \in {"backend_start", "unset_vector_notifiers"}

(* msix calls the functions of the proxy. *)
Watched == (intr = "irqfd" \/ canMask) /\ Serving

(* The rounds of virtio_pci_vector_unmask: the queue's is still to come, or  *)
(* is to be completed by the test of its masked notifier, or the vector is   *)
(* to be fired after the last.                                               *)
Waits(q) ==
  /\ Nth(1).do \in {"unmask", "test_pending"}
  /\ \E s \in {Nth(1), Nth(2)} :
       s.do = "unmask" /\ gn[q].vector = gn[s.n].vector /\ q >= s.n

(* The test of the masked notifier of the queue is next. *)
Tests(q) == Nth(1).do = "test_pending" /\ Nth(1).n = q

(* msix is still to deliver what it has kept for the vector. *)
Fires(v) ==
  Nth(1).do \in UnmaskingSteps /\ \E s \in {Nth(1), Nth(2), Nth(3)} : s = Step("fire", v)

(* The backend's signals of the queue reach the guest without a mask. *)
Heard(q) == Watched /\ intr # "intx" /\ Unmasked(q) /\ ~Waits(q)

(* The guest notifier of a queue is as far as that. *)
QueueOK(q) ==
  /\ gn[q].ev # "closed" <=> Assigned(q)
  /\ gn[q].handler <=> Assigned(q) /\ intr # "irqfd"
  /\ gn[q].irqfd <=> IF canMask THEN Routed(q) ELSE Heard(q)
  /\ canMask => (gn[q].onMasked <=> IF intr = "intx" THEN ~Assigned(q) ELSE ~Heard(q))
  /\ gn[q].masked => active
  /\ gn[q].due = "yes" => WantsInterrupt(q)

(* The guest notifier of every queue is. *)
QueuesInv == \A q \in Queues : QueueOK(q)

(* Of each vector, msix counts the queues and the proxy those with a route. *)
UsersOf(v) == {q \in Queues : gn[q].vector = v /\ Routed(q)}

(* The counts of a vector are those. *)
VectorOK(v) ==
  /\ vec[v].used = Cardinality(Sharing(v))
  /\ vec[v].users = Cardinality(UsersOf(v))

(* The counts of every vector are. *)
VectorsInv == \A v \in Vectors : VectorOK(v)

(* vector_irqfd is allocated as long as there may be routes, msix knows the  *)
(* proxy's functions once they watch, and only the steps that the set-up     *)
(* calls for are taken.                                                      *)
FlagsInv ==
  /\ notifiers <=> Watched
  /\ irqfds => intr = "irqfd"
  /\ intr = "irqfd" /\ (Serving \/ Nth(1).do \in {"vector_use", "set_vector_notifiers"})
       => irqfds
  /\ Nth(1).do = "unset_vector_notifiers" =>
       Nth(2) = IF intr = "irqfd" THEN Step("vector_release", 1) ELSE Step("unset_guest", 1)
  /\ Nth(1).do \in {"vector_use", "undo", "vector_release"} => intr = "irqfd"
  /\ Nth(1).do \in {"set_vector_notifiers", "unset_vector_notifiers"} =>
       intr = "irqfd" \/ canMask

(* What virtio_pci_vector_unmask has left to do for vector v. *)
UnmasksFor(v) ==
  \/ Nth(1) = Step("fire", v) /\ Nth(2) = Last
  \/ /\ Watched /\ active /\ intr # "intx"
     /\ \E n \in Sharing(v) :
          \/ Nth(1) = Step("unmask", n) /\ Nth(2) = Step("fire", v) /\ Nth(3) = Last
          \/ /\ canMask
             /\ Nth(1) = Step("test_pending", n)
             /\ \/ Nth(2) = Step("fire", v) /\ Nth(3) = Last
                \/ \E m \in Sharing(v) : /\ n < m /\ Nth(2) = Step("unmask", m)
                                         /\ Nth(3) = Step("fire", v) /\ Nth(4) = Last

(* An unmasking is about one vector, which the guest has unmasked. *)
UnmaskingInv ==
  Nth(1).do \in UnmaskingSteps =>
    \E v \in Vectors : ~vec[v].masked /\ UnmasksFor(v)

(* A signal that the guest has not heard of is on its way: where somebody    *)
(* reads it, or where the unmasking that goes on or a later one looks.       *)
Reaches(q) ==
  \/ gn[q].ev = "set" /\ gn[q].handler
  \/ /\ HasVector(q)
     /\ \/ /\ vec[gn[q].vector].pending
           /\ vec[gn[q].vector].masked \/ Fires(gn[q].vector)
        \/ /\ IF canMask THEN gn[q].masked ELSE gn[q].ev = "set"
           /\ vec[gn[q].vector].masked \/ Waits(q) \/ Tests(q)

(* No signal that is due is anywhere else. *)
DueInv == \A q \in Queues : gn[q].due = "yes" => Reaches(q)

(* The shape of the notifiers and of the vectors. *)
GuestNotifier ==
  [ev : {"closed", "clear", "set"}, handler : BOOLEAN, irqfd : BOOLEAN, onMasked : BOOLEAN,
   masked : BOOLEAN, due : {"no", "yes", "lost"}, vector : Vectors \cup {NoVector}]

(* Their counts are whole numbers; that they are small follows. *)
Vector == [masked : BOOLEAN, pending : BOOLEAN, used : Int, users : Int]

(* The whole state of the guest notifiers. *)
GuestShape ==
  /\ intr \in {"intx", "msix", "irqfd"}
  /\ canMask \in BOOLEAN /\ irqfds \in BOOLEAN /\ notifiers \in BOOLEAN
  /\ active \in BOOLEAN
  /\ gn \in [Queues -> GuestNotifier]
  /\ vec \in [Vectors -> Vector]

(* The inductive invariant of the guest notifiers. *)
GuestInv ==
  GuestShape /\ QueuesInv /\ VectorsInv /\ FlagsInv /\ UnmaskingInv /\ DueInv

(* The steps after a step: what it puts first, then the rest. *)
LEMMA NextSteps ==
  ASSUME todo \in Seq(AnyStep), todo # <<>>, NEW list \in Seq(AnyStep), Then(list)
  PROVE  /\ \A i \in 1..Len(list) : Nth(i)' = list[i]
         /\ \A k \in Nat \ {0, 1} : Nth(Len(list) + k - 1)' = Nth(k)
<1>1. PICK L \in Nat, T \in Nat \ {0}, M \in Nat :
        /\ L = Len(list) /\ T = Len(todo) /\ M = Len(todo')
        /\ M = L + T - 1
        /\ todo' \in Seq(AnyStep)
        /\ \A i \in 1..L : todo'[i] = list[i]
        /\ \A j \in 2..T : todo'[j + L - 1] = todo[j]
  BY ThenDoes
<1>2. ASSUME NEW i \in 1..L
      PROVE  Nth(i)' = list[i]
  <2>1. i <= M
    BY <1>1
  <2>2. QED
    BY <1>1, <2>1 DEF Nth
<1>3. ASSUME NEW k \in Nat \ {0, 1}
      PROVE  Nth(L + k - 1)' = Nth(k)
  <2>1. L + k - 1 <= M <=> k <= T
    BY <1>1
  <2>2. CASE k <= T
    <3>1. k \in 2..T /\ L + k - 1 = k + L - 1
      BY <2>2
    <3>2. QED
      BY <1>1, <2>1, <2>2, <3>1 DEF Nth
  <2>3. CASE ~(k <= T)
    BY <1>1, <2>1, <2>3 DEF Nth, Last, Step
  <2>4. QED
    BY <2>2, <2>3
<1>4. QED
  BY <1>1, <1>2, <1>3

(* The steps to come after a step that puts nothing before them ... *)
LEMMA NextNone ==
  ASSUME todo \in Seq(AnyStep), todo # <<>>, Then(<<>>)
  PROVE  Nth(1)' = Nth(2) /\ Nth(2)' = Nth(3) /\ Nth(3)' = Nth(4)
<1> DEFINE list == <<>>
<1>1. list \in Seq(AnyStep) /\ Len(list) = 0 /\ Then(list)
  OBVIOUS
<1> HIDE DEF list
<1>2. \A k \in Nat \ {0, 1} : Nth(Len(list) + k - 1)' = Nth(k)
  BY <1>1, NextSteps
<1>3. 0 + 2 - 1 = 1 /\ 0 + 3 - 1 = 2 /\ 0 + 4 - 1 = 3 /\ {2, 3, 4} \subseteq Nat \ {0, 1}
  OBVIOUS
<1>4. QED
  BY <1>1, <1>2, <1>3

(* ... or one step ... *)
LEMMA NextOne ==
  ASSUME todo \in Seq(AnyStep), todo # <<>>, NEW a \in AnyStep, Then(<<a>>)
  PROVE  Nth(1)' = a /\ Nth(2)' = Nth(2) /\ Nth(3)' = Nth(3) /\ Nth(4)' = Nth(4)
<1> DEFINE list == <<a>>
<1>1. list \in Seq(AnyStep) /\ Len(list) = 1 /\ list[1] = a /\ Then(list)
  OBVIOUS
<1> HIDE DEF list
<1>2. /\ \A i \in 1..Len(list) : Nth(i)' = list[i]
      /\ \A k \in Nat \ {0, 1} : Nth(Len(list) + k - 1)' = Nth(k)
  BY <1>1, NextSteps
<1>3. /\ 1 \in 1..1 /\ 1 + 2 - 1 = 2 /\ 1 + 3 - 1 = 3 /\ 1 + 4 - 1 = 4
      /\ {2, 3, 4} \subseteq Nat \ {0, 1}
  OBVIOUS
<1>4. QED
  BY <1>1, <1>2, <1>3

(* ... or two. *)
LEMMA NextTwo ==
  ASSUME todo \in Seq(AnyStep), todo # <<>>, NEW a \in AnyStep, NEW b \in AnyStep,
         Then(<<a, b>>)
  PROVE  Nth(1)' = a /\ Nth(2)' = b /\ Nth(3)' = Nth(2) /\ Nth(4)' = Nth(3)
<1> DEFINE list == <<a, b>>
<1>1. list \in Seq(AnyStep) /\ Len(list) = 2 /\ list[1] = a /\ list[2] = b /\ Then(list)
  OBVIOUS
<1> HIDE DEF list
<1>2. /\ \A i \in 1..Len(list) : Nth(i)' = list[i]
      /\ \A k \in Nat \ {0, 1} : Nth(Len(list) + k - 1)' = Nth(k)
  BY <1>1, NextSteps
<1>3. /\ 1 \in 1..2 /\ 2 \in 1..2 /\ 2 + 2 - 1 = 3 /\ 2 + 3 - 1 = 4
      /\ {2, 3} \subseteq Nat \ {0, 1}
  OBVIOUS
<1>4. QED
  BY <1>1, <1>2, <1>3

(* No handler comes upon the guest notifiers but where it begins with them. *)
LEMMA AfterElsewhere ==
  ASSUME NEW s, NEW t, After(s, t), Elsewhere(s)
  PROVE  Elsewhere(t)
BY DEF After, Elsewhere, GuestSteps, SetGuestSteps, UnmaskingSteps, Last, Step,
       ClosingSteps, TakingSteps

(* The first step of a handler, if there is one, and its successor. *)
LEMMA FirstNth ==
  ASSUME TodoInv
  PROVE  /\ todo \in Seq(AnyStep)
         /\ todo = <<>> => Nth(1) = Last
         /\ todo # <<>> => Nth(1) = todo[1] /\ Nth(1) \in AnyStep /\ Head(todo) = Nth(1)
                           /\ After(Nth(1), Nth(2))
<1>1. todo \in Seq(AnyStep)
  BY DEF TodoInv
<1>2. ASSUME todo = <<>> PROVE Nth(1) = Last
  BY <1>2 DEF Nth
<1>3. ASSUME todo # <<>> PROVE Nth(1) = todo[1]
  <2>1. PICK T \in Nat : T = Len(todo) /\ T # 0
    BY <1>1, <1>3, LenZero
  <2>2. QED
    BY <2>1 DEF Nth
<1>4. QED
  BY <1>1, <1>2, <1>3, FirstStep

(* A step elsewhere that only puts such steps before the rest leads elsewhere. *)
LEMMA ThenElsewhere ==
  ASSUME TodoInv, todo # <<>>, Elsewhere(Nth(1)), NEW list, Then(list),
         list \in Seq({s \in AnyStep : Elsewhere(s)})
  PROVE  Elsewhere(Nth(1)')
<1>1. list \in Seq(AnyStep) /\ todo \in Seq(AnyStep)
  BY DEF TodoInv
<1>2. CASE list = <<>>
  <2>1. Nth(1)' = Nth(2)
    BY <1>1, <1>2, NextNone
  <2>2. QED
    BY <2>1, FirstNth, AfterElsewhere
<1>3. CASE list # <<>>
  <2>1. 1 \in 1..Len(list) /\ list[1] \in {s \in AnyStep : Elsewhere(s)}
    BY <1>1, <1>3
  <2>2. Nth(1)' = list[1]
    BY <1>1, <2>1, NextSteps
  <2>3. QED
    BY <2>1, <2>2
<1>4. QED
  BY <1>2, <1>3

(* A handler of steps elsewhere begins elsewhere. *)
LEMMA EnterElsewhere ==
  ASSUME NEW list \in Seq({s \in AnyStep : Elsewhere(s)}), Enter(list)
  PROVE  Elsewhere(Nth(1)) /\ Elsewhere(Nth(1)')
<1>0. Elsewhere(Last)
  BY DEF Elsewhere, Last, Step, GuestSteps, SetGuestSteps, UnmaskingSteps
<1>1. todo = <<>> /\ todo' = list
  BY DEF Enter, Idle
<1>2. Nth(1) = Last
  BY <1>1 DEF Nth
<1>3. CASE list = <<>>
  <2>1. Nth(1)' = Last
    BY <1>1, <1>3 DEF Nth, Last, Step
  <2>2. QED
    BY <1>0, <1>2, <2>1
<1>4. CASE list # <<>>
  <2>1. 1 \in 1..Len(list) /\ list[1] \in {s \in AnyStep : Elsewhere(s)} /\ 1 <= Len(list)
    BY <1>4
  <2>2. Nth(1)' = list[1]
    BY <1>1, <2>1 DEF Nth
  <2>3. QED
    BY <1>0, <1>2, <2>1, <2>2
<1>5. QED
  BY <1>3, <1>4
(* Elsewhere the guest notifiers are all there or all gone, and no unmasking *)
(* goes on.                                                                 *)
LEMMA PhaseElsewhere ==
  ASSUME Elsewhere(Nth(1))
  PROVE  /\ Serving <=> active
         /\ \A q : /\ Assigned(q) <=> active
                   /\ RoutedNow(q) <=> active
                   /\ ~Waits(q) /\ ~Tests(q)
         /\ \A v : ~Fires(v)
BY DEF Elsewhere, Serving, Assigned, RoutedNow, Waits, Tests, Fires, GuestSteps,
       SetGuestSteps, UnmaskingSteps

(* Elsewhere the flags say no more than that. *)
LEMMA FlagsElsewhere ==
  ASSUME Elsewhere(Nth(1))
  PROVE  /\ FlagsInv <=> /\ notifiers <=> (intr = "irqfd" \/ canMask) /\ active
                         /\ irqfds => intr = "irqfd"
                         /\ intr = "irqfd" /\ active => irqfds
         /\ UnmaskingInv
BY PhaseElsewhere
   DEF FlagsInv, UnmaskingInv, Elsewhere, Watched, GuestSteps, SetGuestSteps, UnmaskingSteps

(* The step is as far with the guest notifiers as the one before. *)
SamePhase ==
  /\ Serving' <=> Serving
  /\ \A q \in Queues : /\ Assigned(q)' <=> Assigned(q)
                       /\ Routed(q)' <=> Routed(q)
                       /\ Waits(q)' <=> Waits(q)
                       /\ Tests(q)' <=> Tests(q)
  /\ \A v \in Vectors : Fires(v)' <=> Fires(v)

(* What the counts of vectors are about. *)
LEMMA SameSharing ==
  ASSUME \A q \in Queues : gn'[q].vector = gn[q].vector
  PROVE  \A v : Sharing(v)' = Sharing(v)
BY DEF Sharing

(* Who has a route of a vector stays when routes and vectors do. *)
LEMMA SameUsers ==
  ASSUME \A q \in Queues : gn'[q].vector = gn[q].vector,
         \A q \in Queues : Routed(q)' <=> Routed(q)
  PROVE  \A v : UsersOf(v)' = UsersOf(v)
BY DEF UsersOf

(* Then the counts stay right. *)
LEMMA SameVectors ==
  ASSUME VectorsInv, \A q \in Queues : gn'[q].vector = gn[q].vector,
         \A q \in Queues : Routed(q)' <=> Routed(q),
         \A v \in Vectors : vec'[v].used = vec[v].used /\ vec'[v].users = vec[v].users
  PROVE  VectorsInv'
<1>1. \A v \in Vectors : Sharing(v)' = Sharing(v) /\ UsersOf(v)' = UsersOf(v)
  BY SameSharing, SameUsers, Zenon
<1>2. \A v \in Vectors : VectorOK(v)'
  BY <1>1 DEF VectorsInv, VectorOK
<1>3. QED
  BY <1>2 DEF VectorsInv

(* Nothing happens to the guest notifiers. *)
LEMMA Frame ==
  ASSUME GuestInv, UNCHANGED guestVars, active' \in BOOLEAN, active => active',
         SamePhase, FlagsInv', UnmaskingInv'
  PROVE  GuestInv'
<1>1. UNCHANGED <<intr, canMask, gn, vec, irqfds, notifiers>>
  BY DEF guestVars
<1>2. GuestShape'
  BY <1>1 DEF GuestInv, GuestShape
<1>3. \A q \in Queues : Unmasked(q)' = Unmasked(q) /\ HasVector(q)' = HasVector(q)
                        /\ WantsInterrupt(q)' = WantsInterrupt(q)
  BY <1>1 DEF Unmasked, HasVector, WantsInterrupt
<1>4. \A q \in Queues : Heard(q)' <=> Heard(q)
  BY <1>1, <1>3 DEF Heard, Watched, SamePhase
<1>5. \A q \in Queues : Routed(q)' <=> Routed(q)
  BY DEF SamePhase
<1>6. QueuesInv'
  <2> SUFFICES ASSUME NEW q \in Queues PROVE QueueOK(q)'
    BY DEF QueuesInv
  <2>1. QueueOK(q) /\ (Assigned(q)' <=> Assigned(q))
    BY DEF GuestInv, QueuesInv, SamePhase
  <2>2. QED
    BY <1>1, <1>3, <1>4, <1>5, <2>1 DEF QueueOK
<1>7. VectorsInv'
  BY <1>1, SameVectors DEF GuestInv, SamePhase
<1>8. DueInv'
  <2> SUFFICES ASSUME NEW q \in Queues, gn[q].due = "yes" PROVE Reaches(q)'
    BY <1>1 DEF DueInv
  <2>1. Reaches(q) /\ (HasVector(q) => gn[q].vector \in Vectors)
    BY DEF GuestInv, DueInv, GuestShape, GuestNotifier, HasVector
  <2>2. QED
    BY <1>1, <1>3, <2>1 DEF Reaches, SamePhase
<1>9. QED
  BY <1>2, <1>6, <1>7, <1>8 DEF GuestInv

(* Neither does anything when both steps are elsewhere. *)
LEMMA FrameElsewhere ==
  ASSUME GuestInv, UNCHANGED <<guestVars, active>>, Elsewhere(Nth(1)), Elsewhere(Nth(1)')
  PROVE  GuestInv'
<1>1. /\ Serving' <=> active'
      /\ \A q \in Queues : /\ Assigned(q)' <=> active'
                           /\ RoutedNow(q)' <=> active'
                           /\ ~Waits(q)' /\ ~Tests(q)'
      /\ \A v \in Vectors : ~Fires(v)'
  BY DEF Elsewhere, Serving, Assigned, RoutedNow, Waits, Tests, Fires, GuestSteps,
         SetGuestSteps, UnmaskingSteps
<1>2. SamePhase
  BY <1>1, PhaseElsewhere DEF SamePhase, Routed, HasVector, guestVars
<1>3. FlagsInv' /\ UnmaskingInv'
  <2>1. UNCHANGED <<intr, canMask, irqfds, notifiers, active>>
    BY DEF guestVars
  <2>2. /\ notifiers <=> (intr = "irqfd" \/ canMask) /\ active
        /\ irqfds => intr = "irqfd"
        /\ intr = "irqfd" /\ active => irqfds
    BY FlagsElsewhere DEF GuestInv
  <2>3. QED
    BY <1>1, <2>1, <2>2
       DEF FlagsInv, UnmaskingInv, Elsewhere, Watched, GuestSteps, SetGuestSteps, UnmaskingSteps
<1>4. QED
  BY <1>2, <1>3, Frame DEF GuestInv, GuestShape
(* The steps that have nothing to do with the guest notifiers. *)
HostSteps == {s \in AnyStep : Elsewhere(s)}

(* The steps of the host notifiers are of that kind. *)
LEMMA HostStep ==
  /\ \A d \in CountedSteps \ (GuestSteps \cup UnmaskingSteps), n \in Queues :
       Step(d, n) \in HostSteps
  /\ \A d \in {"start", "backend_stop", "clear"} : Step(d, 0) \in HostSteps
  /\ \A s \in {"reset", "setup", "ok"} : Step("set_status", s) \in HostSteps
BY DEF HostSteps, AnyStep, CountedSteps, PlainSteps, Step, Elsewhere, GuestSteps,
       SetGuestSteps, UnmaskingSteps

(* Lists of such steps are put together from one another. *)
LEMMA HostLists ==
  /\ <<>> \in Seq(HostSteps)
  /\ \A a \in HostSteps : <<a>> \in Seq(HostSteps)
  /\ \A s, t \in Seq(HostSteps) : s \o t \in Seq(HostSteps)
OBVIOUS

(* The rounds of the loops over the host notifiers are such lists. *)
LEMMA HostRounds ==
  ASSUME NEW n \in Queues
  PROVE  /\ Unassign(n) \in Seq(HostSteps)
         /\ \A d \in {"assign", "take", "unassign"} : Up(d, n + 1, <<>>) \in Seq(HostSteps)
         /\ \A d \in {"assign_error", "give"} : Down(d, n - 1, <<>>) \in Seq(HostSteps)
<1>1. n \in Nat /\ NQueues \in Nat /\ 1 <= n /\ n <= NQueues
  BY NQueuesAssumption DEF Queues
<1>2. {"assign", "take", "unassign", "assign_error", "give", "delete", "flush"}
        \subseteq CountedSteps \ (GuestSteps \cup UnmaskingSteps)
  BY DEF CountedSteps, GuestSteps, SetGuestSteps, UnmaskingSteps
<1>3. Unassign(n) \in Seq(HostSteps)
  <2>1. Step("delete", n) \in HostSteps /\ Step("flush", n) \in HostSteps
    BY <1>2, HostStep
  <2>2. QED
    BY <2>1 DEF Unassign
<1>4. ASSUME NEW d \in {"assign", "take", "unassign"}
      PROVE  Up(d, n + 1, <<>>) \in Seq(HostSteps)
  <2>1. CASE n + 1 <= NQueues
    <3>1. n + 1 \in Queues
      BY <1>1, <2>1 DEF Queues
    <3>2. Step(d, n + 1) \in HostSteps
      BY <1>2, <3>1, HostStep
    <3>3. QED
      BY <2>1, <3>2, HostLists DEF Up
  <2>2. CASE ~(n + 1 <= NQueues)
    BY <2>2, HostLists DEF Up
  <2>3. QED
    BY <2>1, <2>2
<1>5. ASSUME NEW d \in {"assign_error", "give"}
      PROVE  Down(d, n - 1, <<>>) \in Seq(HostSteps)
  <2>1. CASE n - 1 > 0
    <3>1. n - 1 \in Queues
      BY <1>1, <2>1 DEF Queues
    <3>2. Step(d, n - 1) \in HostSteps
      BY <1>2, <3>1, HostStep
    <3>3. QED
      BY <2>1, <3>2, HostLists DEF Down
  <2>2. CASE ~(n - 1 > 0)
    BY <2>2, HostLists DEF Down
  <2>3. QED
    BY <2>1, <2>2
<1>6. QED
  BY <1>3, <1>4, <1>5

(* So is what stops ioeventfd. *)
LEMMA StopStepsAreHost == StopSteps \in Seq(HostSteps)
<1>1. 1 \in Queues /\ "unassign" \in CountedSteps \ (GuestSteps \cup UnmaskingSteps)
  BY NQueuesAssumption
     DEF Queues, CountedSteps, GuestSteps, SetGuestSteps, UnmaskingSteps
<1>2. Step("unassign", 1) \in HostSteps
  BY <1>1, HostStep
<1>3. QED
  BY <1>2, HostLists DEF StopSteps

(* A step elsewhere that leads to such steps leaves the guest notifiers alone. *)
LEMMA HostStepKeepsGuest ==
  ASSUME TodoInv, GuestInv, todo # <<>>, Elsewhere(Nth(1)),
         NEW list \in Seq(HostSteps), Then(list), UNCHANGED <<guestVars, active>>
  PROVE  GuestInv'
<1>1. Elsewhere(Nth(1)')
  BY ThenElsewhere DEF HostSteps
<1>2. QED
  BY <1>1, FrameElsewhere

(* The step that is next and its queue. *)
LEMMA StepNow ==
  ASSUME TodoInv, NEW d, At(d)
  PROVE  /\ todo # <<>> /\ Nth(1).do = d /\ Nth(1).n = Index
         /\ Nth(1) \in AnyStep
         /\ d \in CountedSteps => Index \in Queues
         /\ d \notin GuestSteps \cup UnmaskingSteps => Elsewhere(Nth(1))
<1>1. todo # <<>> /\ Head(todo).do = d
  BY DEF At
<1>2. Nth(1) = Head(todo) /\ Nth(1) \in AnyStep
  BY <1>1, FirstNth
<1>3. QED
  BY <1>1, <1>2, CountedIndex DEF Index, Elsewhere

(* virtio_pci_start_ioeventfd and virtio_pci_stop_ioeventfd. *)
LEMMA IoeventfdKeepsGuest ==
  ASSUME TodoInv, GuestInv, Ioeventfd, UNCHANGED guestVars
  PROVE  GuestInv'
<1>1. CASE StartIoeventfd
  <2>1. At("start") /\ Then(StartSteps) /\ UNCHANGED active
    BY <1>1 DEF StartIoeventfd, hostVars
  <2>2. todo # <<>> /\ Elsewhere(Nth(1))
    BY <2>1, StepNow DEF GuestSteps, SetGuestSteps, UnmaskingSteps
  <2>3. StartSteps \in Seq(HostSteps)
    <3>1. 1 \in Queues /\ "assign" \in CountedSteps \ (GuestSteps \cup UnmaskingSteps)
      BY NQueuesAssumption
         DEF Queues, CountedSteps, GuestSteps, SetGuestSteps, UnmaskingSteps
    <3>2. Step("assign", 1) \in HostSteps
      BY <3>1, HostStep
    <3>3. QED
      BY <3>2, HostLists DEF StartSteps
  <2>4. QED
    BY <2>1, <2>2, <2>3, HostStepKeepsGuest
<1>2. CASE AssignNext
  <2>1. At("assign") /\ UNCHANGED active
        /\ \/ Then(Up("assign", Index + 1, <<>>)) \/ Then(Down("assign_error", Index - 1, <<>>))
    BY <1>2 DEF AssignNext
  <2>2. todo # <<>> /\ Elsewhere(Nth(1)) /\ Index \in Queues
    BY <2>1, StepNow DEF GuestSteps, SetGuestSteps, UnmaskingSteps, CountedSteps
  <2>3. PICK list \in Seq(HostSteps) : Then(list)
    BY <2>1, <2>2, HostRounds
  <2>4. QED
    BY <2>1, <2>2, <2>3, HostStepKeepsGuest
<1>3. CASE AssignError
  <2>1. At("assign_error") /\ UNCHANGED active
        /\ Then(Unassign(Index) \o Down("assign_error", Index - 1, <<>>))
    BY <1>3 DEF AssignError
  <2>2. todo # <<>> /\ Elsewhere(Nth(1)) /\ Index \in Queues
    BY <2>1, StepNow DEF GuestSteps, SetGuestSteps, UnmaskingSteps, CountedSteps
  <2>3. PICK list \in Seq(HostSteps) : Then(list)
    BY <2>1, <2>2, HostRounds, HostLists
  <2>4. QED
    BY <2>1, <2>2, <2>3, HostStepKeepsGuest
<1>4. CASE UnassignNext
  <2>1. At("unassign") /\ UNCHANGED active
        /\ Then(Unassign(Index) \o Up("unassign", Index + 1, <<>>))
    BY <1>4 DEF UnassignNext
  <2>2. todo # <<>> /\ Elsewhere(Nth(1)) /\ Index \in Queues
    BY <2>1, StepNow DEF GuestSteps, SetGuestSteps, UnmaskingSteps, CountedSteps
  <2>3. PICK list \in Seq(HostSteps) : Then(list)
    BY <2>1, <2>2, HostRounds, HostLists
  <2>4. QED
    BY <2>1, <2>2, <2>3, HostStepKeepsGuest
<1>5. QED
  BY <1>1, <1>2, <1>3, <1>4 DEF Ioeventfd

(* virtio_pci_set_host_notifier_internal *)
LEMMA HostInternalKeepsGuest ==
  ASSUME TodoInv, GuestInv, SetHostNotifierInternal, UNCHANGED guestVars
  PROVE  GuestInv'
<1> DEFINE list == <<>>
<1>1. (At("delete") \/ At("flush")) /\ UNCHANGED active /\ Then(list)
  BY DEF SetHostNotifierInternal, DeleteEventfd, Flush
<1>2. list \in Seq(HostSteps)
  OBVIOUS
<1>3. todo # <<>> /\ Elsewhere(Nth(1))
  BY <1>1, StepNow DEF GuestSteps, SetGuestSteps, UnmaskingSteps
<1>4. QED
  <2> HIDE DEF list
  <2> QED BY <1>1, <1>2, <1>3, HostStepKeepsGuest
(* A backend takes the host notifiers and gives them back. *)
LEMMA SetHostNotifierKeepsGuest ==
  ASSUME HostInv, GuestInv, SetHostNotifier, UNCHANGED guestVars
  PROVE  GuestInv'
<1>0. TodoInv /\ HeadInv
  BY DEF HostInv
<1>1. CASE TakeNext
  <2>1. At("take") /\ UNCHANGED active /\ Then(StopSteps \o <<Step("open", Index)>>)
    BY <1>1 DEF TakeNext
  <2>2. todo # <<>> /\ Elsewhere(Nth(1)) /\ Index \in Queues
    BY <1>0, <2>1, StepNow DEF GuestSteps, SetGuestSteps, UnmaskingSteps, CountedSteps
  <2>3. Step("open", Index) \in HostSteps
    BY <2>2, HostStep DEF GuestSteps, SetGuestSteps, UnmaskingSteps, CountedSteps
  <2>4. PICK list \in Seq(HostSteps) : Then(list)
    BY <2>1, <2>3, StopStepsAreHost, HostLists
  <2>5. QED
    BY <1>0, <2>1, <2>2, <2>4, HostStepKeepsGuest
<1>2. CASE GiveBack
  <2>1. At("give") /\ UNCHANGED active
        /\ Then(Unassign(Index) \o Down("give", Index - 1, <<>>))
    BY <1>2 DEF GiveBack
  <2>2. todo # <<>> /\ Elsewhere(Nth(1)) /\ Index \in Queues
    BY <1>0, <2>1, StepNow DEF GuestSteps, SetGuestSteps, UnmaskingSteps, CountedSteps
  <2>3. PICK list \in Seq(HostSteps) : Then(list)
    BY <2>1, <2>2, HostRounds, HostLists
  <2>4. QED
    BY <1>0, <2>1, <2>2, <2>3, HostStepKeepsGuest
<1>3. CASE TakeOpen
  <2>1. At("open") /\ UNCHANGED active
        /\ \/ Then(Up("take", Index + 1, <<Step("set_guest", 1)>>))
           \/ Then(Down("give", Index - 1, <<>>))
    BY <1>3 DEF TakeOpen
  <2>2. todo # <<>> /\ Elsewhere(Nth(1)) /\ Index \in Queues
    BY <1>0, <2>1, StepNow DEF GuestSteps, SetGuestSteps, UnmaskingSteps, CountedSteps
  <2>3. CASE Then(Down("give", Index - 1, <<>>))
    <3>1. PICK list \in Seq(HostSteps) : Then(list)
      BY <2>2, <2>3, HostRounds
    <3>2. QED
      BY <1>0, <2>1, <2>2, <3>1, HostStepKeepsGuest
  <2>4. CASE Index + 1 <= NQueues /\ Then(Up("take", Index + 1, <<Step("set_guest", 1)>>))
    <3>1. Then(Up("take", Index + 1, <<>>))
      BY <2>4 DEF Up
    <3>2. PICK list \in Seq(HostSteps) : Then(list)
      BY <2>2, <3>1, HostRounds
    <3>3. QED
      BY <1>0, <2>1, <2>2, <3>2, HostStepKeepsGuest
  <2>5. CASE ~(Index + 1 <= NQueues) /\ Then(Up("take", Index + 1, <<Step("set_guest", 1)>>))
    <3>1. Then(<<Step("set_guest", 1)>>) /\ Step("set_guest", 1) \in AnyStep
      BY <2>5, NQueuesAssumption DEF Up, AnyStep, CountedSteps, Step, Queues
    <3>2. Nth(1)' = Step("set_guest", 1)
      BY <1>0, <2>2, <3>1, NextOne, FirstNth
    <3>3. Nth(1)'.do = "set_guest" /\ Nth(1)'.n = 1
      BY <3>2 DEF Step
    <3>4. ~active /\ ~active'
      <4>1. Nth(1).do = "open" /\ Nth(1) = todo[1]
        BY <1>0, <2>1, StepNow, FirstNth
      <4>2. QED
        BY <1>0, <2>1, <2>2, <4>1 DEF HeadInv, Finds, NobodyServes
    <3>5. \A q \in Queues : ~(q < 1)
      BY NQueuesAssumption DEF Queues
    <3>6. /\ ~Serving'
          /\ \A q \in Queues : ~Assigned(q)' /\ ~RoutedNow(q)' /\ ~Waits(q)' /\ ~Tests(q)'
          /\ \A v \in Vectors : ~Fires(v)'
      BY <3>3, <3>4, <3>5 DEF Serving, Assigned, RoutedNow, Waits, Tests, Fires, UnmaskingSteps
    <3>7. SamePhase
      BY <2>2, <3>4, <3>6, PhaseElsewhere DEF SamePhase, Routed
    <3>8. FlagsInv' /\ UnmaskingInv'
      <4>1. UNCHANGED <<intr, canMask, irqfds, notifiers>>
        BY DEF guestVars
      <4>2. ~notifiers /\ (irqfds => intr = "irqfd")
        BY <2>2, <3>4, FlagsElsewhere DEF GuestInv
      <4>3. QED
        BY <3>3, <3>6, <4>1, <4>2 DEF FlagsInv, UnmaskingInv, Watched, UnmaskingSteps
    <3>9. QED
      BY <2>1, <3>7, <3>8, Frame DEF GuestInv, GuestShape
  <2>6. QED
    BY <2>1, <2>3, <2>4, <2>5
<1>4. QED
  BY <1>1, <1>2, <1>3 DEF SetHostNotifier

(* virtio_set_status *)
LEMMA SetStatusKeepsGuest ==
  ASSUME TodoInv, GuestInv, SetStatus
  PROVE  GuestInv'
<1>1. At("set_status") /\ UNCHANGED active /\ UNCHANGED guestVars
      /\ \/ Then(<<Step("take", 1)>>) \/ Then(<<Step("backend_stop", 0)>>) \/ Then(<<>>)
  BY DEF SetStatus, hostVars
<1>2. todo # <<>> /\ Elsewhere(Nth(1))
  BY <1>1, StepNow DEF GuestSteps, SetGuestSteps, UnmaskingSteps
<1>3. /\ <<Step("take", 1)>> \in Seq(HostSteps)
      /\ <<Step("backend_stop", 0)>> \in Seq(HostSteps)
      /\ <<>> \in Seq(HostSteps)
  <2>1. 1 \in Queues /\ "take" \in CountedSteps \ (GuestSteps \cup UnmaskingSteps)
    BY NQueuesAssumption
       DEF Queues, CountedSteps, GuestSteps, SetGuestSteps, UnmaskingSteps
  <2>2. Step("take", 1) \in HostSteps /\ Step("backend_stop", 0) \in HostSteps
    BY <2>1, HostStep
  <2>3. QED
    BY <2>2, HostLists
<1>4. PICK list \in Seq(HostSteps) : Then(list)
  BY <1>1, <1>3
<1>5. QED
  BY <1>1, <1>2, <1>4, HostStepKeepsGuest

(* The backend runs: what has been set up for it is now its own. *)
LEMMA BackendStartKeepsGuest ==
  ASSUME TodoInv, GuestInv, BackendStart
  PROVE  GuestInv'
<1>1. At("backend_start") /\ active' = TRUE /\ UNCHANGED guestVars /\ Then(<<>>)
  BY DEF BackendStart
<1>2. todo # <<>> /\ Nth(1).do = "backend_start" /\ todo \in Seq(AnyStep)
  BY <1>1, StepNow, FirstNth
<1>3. Nth(1)' = Nth(2) /\ Elsewhere(Nth(2))
  <2>1. Nth(1)' = Nth(2)
    BY <1>1, <1>2, NextNone
  <2>2. After(Nth(1), Nth(2))
    BY <1>2, FirstNth
  <2>3. QED
    BY <1>2, <2>1, <2>2
       DEF After, Elsewhere, GuestSteps, SetGuestSteps, UnmaskingSteps, Last, Step,
           ClosingSteps, TakingSteps
<1>4. SamePhase
  BY <1>1, <1>2, <1>3
     DEF SamePhase, Serving, Assigned, Routed, RoutedNow, HasVector, guestVars,
          Waits, Tests, Fires, Elsewhere, UnmaskingSteps
<1>5. FlagsInv' /\ UnmaskingInv'
  <2>1. UNCHANGED <<intr, canMask, irqfds, notifiers>>
    BY <1>1 DEF guestVars
  <2>2. Serving' /\ Serving /\ FlagsInv
    BY <1>1, <1>2 DEF Serving, GuestInv
  <2>3. QED
    BY <1>3, <2>1, <2>2
       DEF FlagsInv, UnmaskingInv, Watched, Elsewhere, GuestSteps, SetGuestSteps, UnmaskingSteps
<1>6. QED
  BY <1>1, <1>4, <1>5, Frame

(* The guest, the machine and the kicks enter handlers that begin elsewhere. *)
LEMMA EnterKeepsGuest ==
  ASSUME GuestInv, NEW list \in Seq(HostSteps), Enter(list), UNCHANGED <<guestVars, active>>
  PROVE  GuestInv'
<1>1. Elsewhere(Nth(1)) /\ Elsewhere(Nth(1)')
  BY EnterElsewhere DEF HostSteps
<1>2. QED
  BY <1>1, FrameElsewhere

(* And so are the lists that set the status. *)
LEMMA StatusLists ==
  /\ \A s \in {"reset", "setup", "ok"} : <<Step("set_status", s)>> \in Seq(HostSteps)
  /\ <<Step("start", 0)>> \in Seq(HostSteps)
  /\ <<Step("set_status", "ok"), Step("start", 0)>> \in Seq(HostSteps)
  /\ ResetDevice \in Seq(HostSteps)
<1>1. /\ \A s \in {"reset", "setup", "ok"} : Step("set_status", s) \in HostSteps
      /\ Step("start", 0) \in HostSteps /\ Step("clear", 0) \in HostSteps
  BY HostStep
<1>2. QED
  BY <1>1 DEF ResetDevice

(* The guest writes registers or PCI_COMMAND; the machine stops or is reset. *)
LEMMA WritesKeepGuest ==
  ASSUME GuestInv, StatusInv,
         \/ \E s \in {"reset", "setup", "ok"} : WriteStatus(s)
         \/ WriteNoPfn \/ DisableMaster \/ StopMachine \/ ContinueMachine \/ ResetMachine
  PROVE  GuestInv'
<1>1. UNCHANGED <<guestVars, active>>
  BY DEF WriteStatus, WriteNoPfn, DisableMaster, StopMachine, ContinueMachine, ResetMachine,
         hostVars
<1>2. status \in {"reset", "setup", "ok"}
  BY DEF StatusInv, Statuses
<1>3. \E list \in Seq(HostSteps) : Enter(list)
  <2>1. ASSUME NEW s \in {"reset", "setup", "ok"}, WriteStatus(s)
        PROVE  \E list \in Seq(HostSteps) : Enter(list)
    <3>1. CASE s = "ok"
      <4>1. Enter(<<Step("set_status", s), Step("start", 0)>>)
        BY <2>1, <3>1 DEF WriteStatus
      <4>2. QED
        BY <3>1, <4>1, StatusLists
    <3>2. CASE s = "setup"
      <4>1. Enter(StopSteps \o <<Step("set_status", s)>>)
        BY <2>1, <3>2 DEF WriteStatus
      <4>2. QED
        BY <4>1, StatusLists, StopStepsAreHost, HostLists
    <3>3. CASE s = "reset"
      <4>1. Enter(StopSteps \o <<Step("set_status", s)>> \o ResetDevice)
        BY <2>1, <3>3 DEF WriteStatus
      <4>2. QED
        BY <4>1, StatusLists, StopStepsAreHost, HostLists
    <3>4. QED
      BY <3>1, <3>2, <3>3
  <2>2. CASE WriteNoPfn \/ ResetMachine
    <3>1. Enter(StopSteps \o ResetDevice)
      BY <2>2 DEF WriteNoPfn, ResetMachine
    <3>2. QED
      BY <3>1, StatusLists, StopStepsAreHost, HostLists
  <2>3. CASE DisableMaster
    <3>1. PICK s \in {"reset", "setup", "ok"} : s = IF status = "ok" THEN "setup" ELSE status
      BY <1>2
    <3>2. Enter(<<>>) \/ Enter(StopSteps \o <<Step("set_status", s)>>)
      BY <2>3, <3>1 DEF DisableMaster
    <3>3. QED
      BY <3>2, StatusLists, StopStepsAreHost, HostLists
  <2>4. CASE StopMachine
    <3>1. Enter(StopSteps \o <<Step("set_status", status)>>)
      BY <2>4 DEF StopMachine
    <3>2. QED
      BY <1>2, <3>1, StatusLists, StopStepsAreHost, HostLists
  <2>5. CASE ContinueMachine
    <3>1. Enter(<<Step("set_status", status)>>
                \o (IF status = "ok" THEN <<Step("start", 0)>> ELSE <<>>))
      BY <2>5 DEF ContinueMachine
    <3>2. QED
      BY <1>2, <3>1, StatusLists, HostLists
  <2>6. QED
    BY <2>1, <2>2, <2>3, <2>4, <2>5
<1>4. PICK list \in Seq(HostSteps) : Enter(list)
  BY <1>3
<1>5. QED
  BY <1>1, <1>4, EnterKeepsGuest

(* What changes none of what the invariant is about. *)
LEMMA NothingKeepsGuest ==
  ASSUME GuestInv, UNCHANGED <<guestVars, todo, active>>
  PROVE  GuestInv'
<1>1. /\ SamePhase
      /\ Nth(1)' = Nth(1) /\ Nth(2)' = Nth(2) /\ Nth(3)' = Nth(3) /\ Nth(4)' = Nth(4)
  BY DEF SamePhase, Serving, Assigned, Routed, RoutedNow, HasVector,
         Waits, Tests, Fires, Nth, guestVars
<1>2. UNCHANGED <<intr, canMask, gn, vec, irqfds, notifiers, active>>
  BY DEF guestVars
<1>3. FlagsInv'
  BY <1>1, <1>2 DEF GuestInv, FlagsInv, Watched, Serving
<1>4. UnmaskingInv'
  BY <1>1, <1>2 DEF GuestInv, UnmaskingInv, UnmasksFor, Watched, Serving, Sharing
<1>5. QED
  BY <1>1, <1>2, <1>3, <1>4, Frame DEF GuestInv, GuestShape
(* Sets of queues are counted. *)
LEMMA QueuesCounted ==
  ASSUME NEW T \in SUBSET Queues
  PROVE  /\ IsFiniteSet(T) /\ Cardinality(T) \in 0..NQueues
         /\ T = {} => Cardinality(T) = 0
         /\ \A n \in Queues \ T : Cardinality(T \cup {n}) = Cardinality(T) + 1
         /\ \A n \in T : Cardinality(T \ {n}) = Cardinality(T) - 1 /\ Cardinality(T) > 0
<1>1. IsFiniteSet(Queues) /\ Cardinality(Queues) = NQueues
  <2>1. NQueues \in Nat /\ NQueues > 0 /\ 1 \in Int /\ NQueues \in Int
    BY NQueuesAssumption
  <2>2. IsFiniteSet(1..NQueues)
        /\ Cardinality(1..NQueues) = IF 1 > NQueues THEN 0 ELSE NQueues - 1 + 1
    BY <2>1, FS_Interval
  <2>3. QED
    BY <2>1, <2>2 DEF Queues
<1>2. IsFiniteSet(T) /\ Cardinality(T) <= NQueues
  BY <1>1, FS_Subset
<1>3. Cardinality(T) \in Nat /\ (T = {} <=> Cardinality(T) = 0)
  BY <1>2, FS_CardinalityType, FS_EmptySet
<1>4. \A n \in Queues \ T : Cardinality(T \cup {n}) = Cardinality(T) + 1
  BY <1>2, FS_AddElement
<1>5. \A n \in T : Cardinality(T \ {n}) = Cardinality(T) - 1
  BY <1>2, FS_RemoveElement
<1>6. \A n \in T : Cardinality(T) > 0
  BY <1>3
<1>7. QED
  BY <1>2, <1>3, <1>4, <1>5, <1>6, NQueuesAssumption

(* A queue whose notifier stays as it is, but for what it has received.      *)
Keeps(q) ==
  /\ gn'[q].vector = gn[q].vector
  /\ gn'[q].handler = gn[q].handler
  /\ gn'[q].irqfd = gn[q].irqfd
  /\ gn'[q].onMasked = gn[q].onMasked
  /\ gn'[q].ev = "closed" <=> gn[q].ev = "closed"

(* Such a queue stays as it is, whether its signals are heard or not. *)
LEMMA QueueKept ==
  ASSUME NEW q \in Queues, QueueOK(q), Keeps(q), UNCHANGED <<intr, canMask>>,
         Assigned(q)' <=> Assigned(q), Routed(q)' <=> Routed(q), Heard(q)' <=> Heard(q),
         gn'[q].masked => active', gn'[q].due = "yes" => gn[q].due = "yes" \/ WantsInterrupt(q)
  PROVE  QueueOK(q)'
BY DEF QueueOK, Keeps, WantsInterrupt

(* Nothing is unmasked while the guest notifiers are set up or taken down.   *)
LEMMA PhaseSetUp ==
  ASSUME Nth(1).do \in GuestSteps
  PROVE  (\A q : ~Waits(q) /\ ~Tests(q)) /\ (\A v : ~Fires(v)) /\ UnmaskingInv
BY DEF Waits, Tests, Fires, UnmaskingInv, GuestSteps, SetGuestSteps, UnmaskingSteps

(* The steps of the set-up find nobody serving. *)
LEMMA SetUpState ==
  ASSUME HostInv, NEW d \in GuestSteps, At(d)
  PROVE  /\ todo # <<>> /\ todo \in Seq(AnyStep)
         /\ Nth(1).do = d /\ Nth(1).n = Index /\ Nth(1).do \in GuestSteps
         /\ d \in CountedSteps => Index \in Queues
         /\ ~active
         /\ After(Nth(1), Nth(2))
<1>1. TodoInv /\ HeadInv
  BY DEF HostInv
<1>2. /\ todo # <<>> /\ Nth(1).do = d /\ Nth(1).n = Index
      /\ d \in CountedSteps => Index \in Queues
      /\ todo \in Seq(AnyStep) /\ Nth(1) = todo[1] /\ After(Nth(1), Nth(2))
  BY <1>1, StepNow, FirstNth
<1>3. ~active
  BY <1>1, <1>2 DEF HeadInv, Finds, NobodyServes
<1>4. QED
  BY <1>2, <1>3

(* A failed set-up goes on with the notifiers that are there. *)
LEMMA FailedNext ==
  ASSUME todo \in Seq(AnyStep), todo # <<>>, NEW n \in 0..NQueues, Then(Failed(n)), ~active'
  PROVE  /\ \A q \in Queues : (Assigned(q)' <=> q <= n) /\ ~Routed(q)'
         /\ \A q : ~Waits(q)' /\ ~Tests(q)'
         /\ \A v : ~Fires(v)'
         /\ ~Serving'
         /\ Nth(1)'.do \in {"unset_error", "give"} /\ UnmaskingInv'
<1>1. PICK a \in AnyStep :
         /\ Then(<<a>>)
         /\ \/ n > 0 /\ a = Step("unset_error", n)
            \/ n = 0 /\ a = Step("give", NQueues)
  BY FailedIs
<1>2. Nth(1)' = a
  BY <1>1, NextOne
<1>3. \A q \in Queues : q \in Nat /\ q >= 1
  BY NQueuesAssumption DEF Queues
<1>4. \/ Nth(1)'.do = "unset_error" /\ Nth(1)'.n = n
      \/ n = 0 /\ Nth(1)'.do = "give"
  BY <1>1, <1>2 DEF Step
<1>5. \A q \in Queues : Assigned(q)' <=> q <= n
  BY <1>3, <1>4 DEF Assigned
<1>6. QED
  BY <1>4, <1>5
     DEF Routed, RoutedNow, Waits, Tests, Fires, Serving, UnmaskingInv, UnmaskingSteps

(* The flags while a set-up is undone. *)
LEMMA FlagsFailed ==
  ASSUME ~Serving', Nth(1)'.do \in {"unset_error", "give", "set_guest", "unset_guest"},
         ~notifiers', irqfds' => intr' = "irqfd"
  PROVE  FlagsInv'
BY DEF FlagsInv, Watched, Serving
(* A queue of which nothing changes, but that the guest may have heard of it. *)
Steady(q) ==
  /\ Keeps(q)
  /\ gn'[q].ev = gn[q].ev /\ gn'[q].masked = gn[q].masked
  /\ gn'[q].due = "yes" => gn[q].due = "yes"

(* Of the vectors' bits only pending ones are added. *)
PendingGrows ==
  \A v \in Vectors : vec'[v].masked = vec[v].masked /\ (vec[v].pending => vec'[v].pending)

(* Before and after the backend runs, its masked notifiers hold nothing, and *)
(* a signal is in an eventfd or pending.                                     *)
InEventfd(q) ==
  \/ gn[q].ev = "set" /\ gn[q].handler
  \/ /\ HasVector(q) /\ vec[gn[q].vector].masked
     /\ vec[gn[q].vector].pending \/ (~canMask /\ gn[q].ev = "set")

(* That is one of the places where a due signal may be. *)
LEMMA InEventfdReaches ==
  ASSUME NEW q \in Queues, InEventfd(q)
  PROVE  Reaches(q)
BY DEF InEventfd, Reaches

(* While the guest notifiers are set up or taken down there is no other. *)
LEMMA SetUpReaches ==
  ASSUME GuestInv, ~active, Nth(1).do \in GuestSteps, NEW q \in Queues, gn[q].due = "yes"
  PROVE  InEventfd(q)
<1>1. Reaches(q) /\ ~gn[q].masked
  BY DEF GuestInv, DueInv, QueuesInv, QueueOK
<1>2. QED
  BY <1>1, PhaseSetUp DEF InEventfd, Reaches

(* A round that has to do with one queue, before or after the backend runs.  *)
LEMMA OneQueue ==
  ASSUME GuestInv, ~active, ~active', UNCHANGED <<intr, canMask>>, Nth(1).do \in GuestSteps,
         GuestShape', VectorsInv', FlagsInv', UnmaskingInv', ~Watched, ~Watched',
         PendingGrows, NEW n \in Queues, QueueOK(n)', gn'[n].due = "yes" => InEventfd(n)',
         \A q \in Queues \ {n} : Steady(q) /\ (Assigned(q)' <=> Assigned(q))
                                 /\ (Routed(q)' <=> Routed(q))
  PROVE  GuestInv'
<1>1. QueuesInv'
  <2> SUFFICES ASSUME NEW q \in Queues \ {n} PROVE QueueOK(q)'
    BY DEF QueuesInv
  <2>1. QueueOK(q) /\ Steady(q) /\ Keeps(q) /\ ~gn'[q].masked
        /\ (gn'[q].due = "yes" => gn[q].due = "yes")
        /\ (Assigned(q)' <=> Assigned(q)) /\ (Routed(q)' <=> Routed(q))
    BY DEF GuestInv, QueuesInv, Steady, QueueOK
  <2>2. ~Heard(q) /\ ~Heard(q)'
    BY DEF Heard
  <2>3. QED
    BY <2>1, <2>2, QueueKept
<1>2. DueInv'
  <2> SUFFICES ASSUME NEW q \in Queues, gn'[q].due = "yes" PROVE Reaches(q)'
    BY DEF DueInv
  <2>1. CASE q = n
    BY <2>1 DEF InEventfd, Reaches
  <2>2. CASE q # n
    <3>1. Steady(q) /\ gn[q].due = "yes"
      BY <2>2 DEF Steady
    <3>2. InEventfd(q) /\ (HasVector(q) => gn[q].vector \in Vectors)
      BY <3>1, SetUpReaches DEF GuestInv, GuestShape, GuestNotifier, HasVector
    <3>3. QED
      BY <3>1, <3>2 DEF Reaches, InEventfd, Steady, Keeps, HasVector, PendingGrows
  <2>3. QED
    BY <2>1, <2>2
<1>3. QED
  BY <1>1, <1>2 DEF GuestInv

(* What is next in the loop over the queues that assigns. *)
LEMMA SetGuestPhase ==
  ASSUME HostInv, GuestInv, At("set_guest"), ~active',
         Then(Up("set_guest", Index + 1, GuestAssigned)), UNCHANGED <<intr, canMask, notifiers>>,
         irqfds' = (irqfds \/ (Index = NQueues /\ intr = "irqfd"))
  PROVE  /\ \A q \in Queues : (Assigned(q)' <=> q <= Index) /\ ~Routed(q)'
         /\ ~Watched' /\ FlagsInv' /\ UnmaskingInv'
<1>1. todo # <<>> /\ todo \in Seq(AnyStep) /\ Index \in Queues
      /\ Nth(1).do = "set_guest" /\ ~active
  BY SetUpState DEF GuestSteps, SetGuestSteps, CountedSteps
<1>2. PICK n \in Queues : n = Index /\ n \in Nat /\ n >= 1
  BY <1>1, NQueuesAssumption DEF Queues
<1>3. \A q \in Queues : q \in Nat /\ q >= 1 /\ q <= NQueues
  BY NQueuesAssumption DEF Queues
<1>4. ~notifiers' /\ (irqfds' => intr' = "irqfd")
      /\ (n = NQueues /\ intr = "irqfd" => irqfds')
  BY <1>1, <1>2 DEF GuestInv, FlagsInv, Watched, Serving
<1>5. CASE n + 1 <= NQueues
  <2>1. n + 1 \in Queues /\ Step("set_guest", n + 1) \in AnyStep
    BY <1>2, <1>5, NQueuesAssumption DEF Queues, AnyStep, CountedSteps, Step
  <2>2. Then(<<Step("set_guest", n + 1)>>)
    BY <1>2, <1>5 DEF Up
  <2>3. Nth(1)' = Step("set_guest", n + 1)
    BY <1>1, <2>1, <2>2, NextOne
  <2>4. Nth(1)'.do = "set_guest" /\ Nth(1)'.n = n + 1
    BY <2>3 DEF Step
  <2>5. \A q \in Queues : q < n + 1 <=> q <= n
    BY <1>2, <1>3
  <2>6. \A q \in Queues : Assigned(q)' <=> q <= n
    BY <2>4, <2>5 DEF Assigned
  <2>7. ~Serving' /\ \A q : ~RoutedNow(q)'
    BY <2>4 DEF Serving, RoutedNow
  <2>8. QED
    BY <1>2, <1>4, <2>4, <2>6, <2>7, FlagsFailed
       DEF Routed, Watched, UnmaskingInv, UnmaskingSteps
<1>6. CASE ~(n + 1 <= NQueues)
  <2>1. n = NQueues /\ \A q \in Queues : q <= n
    BY <1>2, <1>3, <1>6, NQueuesAssumption DEF Queues
  <2>2. PICK a \in AnyStep :
          /\ Then(<<a>>)
          /\ \/ intr = "irqfd" /\ a.do = "vector_use" /\ a.n = 1
             \/ intr # "irqfd" /\ canMask /\ a.do = "set_vector_notifiers"
             \/ intr # "irqfd" /\ ~canMask /\ a.do = "backend_start"
    <3>1. /\ Step("vector_use", 1) \in AnyStep /\ Step("set_vector_notifiers", 0) \in AnyStep
          /\ Step("backend_start", 0) \in AnyStep
      BY NQueuesAssumption DEF AnyStep, CountedSteps, PlainSteps, Step, Queues
    <3>2. Then(GuestAssigned)
      BY <1>2, <1>6 DEF Up
    <3>3. QED
      BY <3>1, <3>2 DEF GuestAssigned, Step
  <2>3. Nth(1)' = a
    BY <1>1, <2>2, NextOne
  <2>4. \A q \in Queues : ~(q < 1)
    BY <1>3
  <2>5. \A q \in Queues : Assigned(q)' /\ ~Routed(q)'
    BY <2>2, <2>3, <2>4 DEF Assigned, Routed, RoutedNow
  <2>6. ~Watched' /\ UnmaskingInv'
    BY <2>2, <2>3 DEF Watched, Serving, UnmaskingInv, UnmaskingSteps
  <2>7. FlagsInv'
    BY <1>4, <2>1, <2>2, <2>3, <2>6 DEF FlagsInv, Serving
  <2>8. QED
    BY <1>2, <2>1, <2>5, <2>6, <2>7
<1>7. QED
  BY <1>5, <1>6

(* virtio_pci_set_guest_notifier, assign *)
LEMMA SetGuestKeepsGuest ==
  ASSUME HostInv, GuestInv, SetGuestNext, UNCHANGED active
  PROVE  GuestInv'
<1>1. At("set_guest") /\ UNCHANGED <<intr, canMask, vec, notifiers>>
  BY DEF SetGuestNext
<1>2. todo # <<>> /\ todo \in Seq(AnyStep) /\ Index \in Queues
      /\ Nth(1).do = "set_guest" /\ Nth(1).do \in GuestSteps /\ Nth(1).n = Index /\ ~active
  BY <1>1, SetUpState DEF GuestSteps, SetGuestSteps, CountedSteps
<1>3. PICK n \in Queues : n = Index /\ n \in Nat /\ n >= 1 /\ n <= NQueues
  BY <1>2, NQueuesAssumption DEF Queues
<1>4. \A q \in Queues : q \in Nat /\ q >= 1 /\ q <= NQueues
  BY NQueuesAssumption DEF Queues
<1>5. /\ \A q \in Queues : (Assigned(q) <=> q < n) /\ ~Routed(q)
      /\ ~Watched
  BY <1>2, <1>3 DEF Assigned, Routed, RoutedNow, Watched, Serving
<1>6. CASE Then(Failed(Index - 1)) /\ UNCHANGED <<gn, irqfds>>
  <2>1. n - 1 \in 0..NQueues /\ Then(Failed(n - 1))
    BY <1>3, <1>6, NQueuesAssumption
  <2>2. /\ \A q \in Queues : (Assigned(q)' <=> q <= n - 1) /\ ~Routed(q)'
        /\ \A q : ~Waits(q)' /\ ~Tests(q)'
        /\ \A v : ~Fires(v)'
        /\ ~Serving' /\ UnmaskingInv'
        /\ Nth(1)'.do \in {"unset_error", "give"}
    BY <1>2, <2>1, FailedNext
  <2>3. \A q \in Queues : q <= n - 1 <=> q < n
    BY <1>3, <1>4
  <2>4. SamePhase
    BY <1>2, <1>5, <2>2, <2>3, PhaseSetUp DEF SamePhase, Serving
  <2>5. FlagsInv'
    <3>1. ~notifiers' /\ (irqfds' => intr' = "irqfd")
      BY <1>1, <1>5, <1>6 DEF GuestInv, FlagsInv
    <3>2. QED
      BY <2>2, <3>1, FlagsFailed
  <2>6. UNCHANGED guestVars
    BY <1>1, <1>6 DEF guestVars
  <2>7. QED
    BY <1>2, <2>2, <2>4, <2>5, <2>6, Frame DEF GuestInv, GuestShape
<1>7. CASE /\ gn' = [gn EXCEPT ![Index].ev = "clear", ![Index].handler = intr # "irqfd",
                               ![Index].onMasked = @ /\ ~(intr = "intx" /\ canMask)]
           /\ irqfds' = (irqfds \/ (Index = NQueues /\ intr = "irqfd"))
           /\ Then(Up("set_guest", Index + 1, GuestAssigned))
  <2>1. /\ \A q \in Queues : (Assigned(q)' <=> q <= n) /\ ~Routed(q)'
        /\ ~Watched' /\ FlagsInv' /\ UnmaskingInv'
    BY <1>1, <1>2, <1>3, <1>7, SetGuestPhase
  <2>2. GuestShape /\ GuestShape'
    <3>1. GuestShape
      BY DEF GuestInv
    <3>2. irqfds' \in BOOLEAN
      BY <1>7, <3>1 DEF GuestShape
    <3>4. gn' \in [Queues -> GuestNotifier]
      <4>1. PICK h \in BOOLEAN, m \in BOOLEAN :
              /\ h = (intr # "irqfd")
              /\ m = (gn[Index].onMasked /\ ~(intr = "intx" /\ canMask))
        OBVIOUS
      <4>2. [gn[Index] EXCEPT !.ev = "clear", !.handler = h, !.onMasked = m] \in GuestNotifier
        <5>1. PICK g \in GuestNotifier : g = gn[Index]
          BY <1>2, <3>1 DEF GuestShape
        <5>2. [g EXCEPT !.ev = "clear", !.handler = h, !.onMasked = m] \in GuestNotifier
          BY DEF GuestNotifier
        <5>3. QED
          BY <5>1, <5>2
      <4>3. gn' = [gn EXCEPT ![Index] =
                     [gn[Index] EXCEPT !.ev = "clear", !.handler = h, !.onMasked = m]]
        BY <1>2, <1>7, <3>1, <4>1, Zenon DEF GuestShape
      <4>4. QED
        BY <1>2, <3>1, <4>2, <4>3 DEF GuestShape
    <3>3. QED
      BY <1>1, <1>2, <3>1, <3>2, <3>4 DEF GuestShape
  <2>3. /\ gn'[n].ev = "clear" /\ gn'[n].handler = (intr # "irqfd")
        /\ gn'[n].onMasked = (gn[n].onMasked /\ ~(intr = "intx" /\ canMask))
        /\ gn'[n].vector = gn[n].vector /\ gn'[n].irqfd = gn[n].irqfd
        /\ gn'[n].masked = gn[n].masked /\ gn'[n].due = gn[n].due
    BY <1>3, <1>7, <2>2 DEF GuestShape, GuestNotifier
  <2>4. \A q \in Queues \ {n} : gn'[q] = gn[q]
    BY <1>3, <1>7, <2>2 DEF GuestShape, GuestNotifier
  <2>5. VectorsInv'
    <3>1. \A q \in Queues : gn'[q].vector = gn[q].vector /\ (Routed(q)' <=> Routed(q))
      BY <1>5, <2>1, <2>3, <2>4
    <3>2. QED
      BY <1>1, <3>1, SameVectors DEF GuestInv
  <2>6. QueueOK(n) /\ Assigned(n)' /\ ~Assigned(n) /\ ~Routed(n) /\ ~Routed(n)'
        /\ ~Heard(n) /\ ~Heard(n)'
    BY <1>3, <1>5, <2>1 DEF GuestInv, QueuesInv, Heard
  <2>7. QueueOK(n)'
    BY <1>1, <1>2, <2>3, <2>6 DEF QueueOK, WantsInterrupt
  <2>8. gn'[n].due = "yes" => InEventfd(n)'
    <3>1. gn[n].due = "yes" => InEventfd(n) /\ gn[n].ev = "closed"
      BY <1>2, <2>6, SetUpReaches DEF QueueOK
    <3>2. QED
      BY <1>1, <2>3, <3>1 DEF InEventfd, HasVector
  <2>9. ASSUME NEW q \in Queues \ {n}
        PROVE  Steady(q) /\ (Assigned(q)' <=> Assigned(q)) /\ (Routed(q)' <=> Routed(q))
    <3>1. q < n <=> q <= n
      BY <1>3, <1>4
    <3>2. QED
      BY <1>5, <2>1, <2>4, <3>1 DEF Steady, Keeps
  <2>10. PendingGrows
    BY <1>1 DEF PendingGrows
  <2>11. QED
    BY <1>1, <1>2, <1>5, <2>1, <2>2, <2>5, <2>7, <2>8, <2>9, <2>10, OneQueue
<1>8. QED
  BY <1>6, <1>7 DEF SetGuestNext
(* A notifier of which only due is set. *)
SetsDue(k, h, d) ==
  /\ k \in GuestNotifier
  /\ k.ev = h.ev /\ k.handler = h.handler /\ k.irqfd = h.irqfd
  /\ k.onMasked = h.onMasked /\ k.masked = h.masked /\ k.vector = h.vector
  /\ k.due = d

(* What due may be. *)
LEMMA DueOf ==
  ASSUME NEW h \in GuestNotifier
  PROVE  h.due \in {"no", "yes", "lost"}
BY DEF GuestNotifier

(* Setting due does only that. *)
LEMMA DueSet ==
  ASSUME NEW h \in GuestNotifier, NEW d \in {"no", "yes", "lost"}
  PROVE  SetsDue([h EXCEPT !.due = d], h, d)
BY DEF GuestNotifier, SetsDue

(* What virtio_pci_notify may do to the notifiers it is given. *)
LEMMA NotifyDoes ==
  ASSUME GuestShape, NEW g \in [Queues -> GuestNotifier], NEW n \in Queues, Notify(n, g)
  PROVE  /\ gn' \in [Queues -> GuestNotifier] /\ vec' \in [Vectors -> Vector]
         /\ \A q \in Queues : /\ gn'[q].ev = g[q].ev /\ gn'[q].handler = g[q].handler
                              /\ gn'[q].irqfd = g[q].irqfd /\ gn'[q].onMasked = g[q].onMasked
                              /\ gn'[q].masked = g[q].masked /\ gn'[q].vector = g[q].vector
                              /\ gn'[q].due = "yes" => g[q].due = "yes"
         /\ PendingGrows
         /\ \A v \in Vectors : vec'[v].used = vec[v].used /\ vec'[v].users = vec[v].users
         /\ gn'[n].due = "yes" => /\ intr # "intx"
                                  /\ InUse(g[n].vector) =>
                                       vec[g[n].vector].masked /\ vec'[g[n].vector].pending
<1>0. vec \in [Vectors -> Vector]
  BY DEF GuestShape
<1>1. CASE intr = "intx" /\ gn' = [p \in Queues |-> [g[p] EXCEPT !.due = "no"]] /\ UNCHANGED vec
  <2>1. \A q \in Queues : gn'[q] = [g[q] EXCEPT !.due = "no"] /\ g[q] \in GuestNotifier
    BY <1>1
  <2>2. "no" \in {"no", "yes", "lost"}
    OBVIOUS
  <2>3. \A q \in Queues : SetsDue(gn'[q], g[q], "no")
    BY <2>1, <2>2, DueSet
  <2>4. gn' \in [Queues -> GuestNotifier]
    <3>1. gn' = [q \in Queues |-> gn'[q]]
      BY <1>1
    <3>2. QED
      BY <2>3, <3>1 DEF SetsDue
  <2>5. QED
    BY <1>0, <1>1, <2>3, <2>4 DEF PendingGrows, SetsDue
<1>2. CASE intr # "intx" /\ ~InUse(g[n].vector) /\ gn' = g /\ UNCHANGED vec
  BY <1>0, <1>2 DEF PendingGrows
<1>3. CASE /\ intr # "intx" /\ InUse(g[n].vector) /\ vec[g[n].vector].masked
           /\ gn' = g
           /\ vec' = [vec EXCEPT ![g[n].vector].pending = TRUE]
  <2>1. g[n].vector \in Vectors
    BY <1>3 DEF InUse, GuestNotifier
  <2>2. PICK v \in Vectors : v = g[n].vector
    BY <2>1
  <2>3. vec' \in [Vectors -> Vector]
    BY <1>0, <1>3, <2>2 DEF Vector
  <2>4. \A w \in Vectors : /\ vec'[w].masked = vec[w].masked
                           /\ vec'[w].used = vec[w].used /\ vec'[w].users = vec[w].users
                           /\ vec'[w].pending <=> vec[w].pending \/ w = v
    BY <1>0, <1>3, <2>2 DEF Vector
  <2>5. PendingGrows /\ vec'[v].pending
    BY <2>4 DEF PendingGrows
  <2>6. QED
    BY <1>3, <2>2, <2>3, <2>4, <2>5
<1>4. CASE /\ intr # "intx" /\ InUse(g[n].vector) /\ ~vec[g[n].vector].masked
           /\ gn' = Interrupted(g, g[n].vector) /\ UNCHANGED vec
  <2>1. \A q \in Queues :
          /\ gn'[q] = [g[q] EXCEPT !.due = IF g[q].vector = g[n].vector THEN "no" ELSE g[q].due]
          /\ g[q] \in GuestNotifier
    BY <1>4 DEF Interrupted
  <2>2. ASSUME NEW q \in Queues
        PROVE  SetsDue(gn'[q], g[q], IF g[q].vector = g[n].vector THEN "no" ELSE g[q].due)
    <3>1. PICK d \in {"no", "yes", "lost"} :
          d = IF g[q].vector = g[n].vector THEN "no" ELSE g[q].due
      BY DueOf
    <3>2. gn'[q] = [g[q] EXCEPT !.due = d] /\ g[q] \in GuestNotifier
      BY <2>1, <3>1
    <3>3. SetsDue([g[q] EXCEPT !.due = d], g[q], d)
      BY <3>2, DueSet, ZenonT(40)
    <3>4. QED
      BY <3>1, <3>2, <3>3, Zenon
  <2>3. gn' \in [Queues -> GuestNotifier]
    <3>1. gn' = [q \in Queues |-> gn'[q]]
      BY <1>4 DEF Interrupted
    <3>2. QED
      BY <2>2, <3>1 DEF SetsDue
  <2>4. gn'[n].due # "yes"
    BY <2>2 DEF SetsDue
  <2>5. QED
    BY <1>0, <1>4, <2>2, <2>3, <2>4 DEF PendingGrows, SetsDue
<1>5. QED
  BY <1>1, <1>2, <1>3, <1>4 DEF Notify

(* A vector that a queue has is in use. *)
LEMMA UsedBy ==
  ASSUME VectorsInv, NEW q \in Queues, gn[q].vector \in Vectors
  PROVE  InUse(gn[q].vector)
<1>1. PICK v \in Vectors : v = gn[q].vector
  OBVIOUS
<1>2. q \in Sharing(v) /\ Sharing(v) \in SUBSET Queues
  BY <1>1 DEF Sharing
<1>3. Cardinality(Sharing(v)) > 0
  BY <1>2, QueuesCounted
<1>4. vec[v].used > 0
  BY <1>3 DEF VectorsInv, VectorOK
<1>5. QED
  BY <1>1, <1>4, VectorsAssumption DEF InUse

(* virtio_pci_set_guest_notifier, deassign: what the eventfd has received is *)
(* passed on.                                                               *)
LEMMA UnsetGuestDoes ==
  ASSUME GuestShape, VectorsInv, NEW n \in Queues, UnsetGuest(n), UNCHANGED intr
  PROVE  /\ gn' \in [Queues -> GuestNotifier] /\ vec' \in [Vectors -> Vector]
         /\ \A q \in Queues \ {n} : Steady(q)
         /\ gn'[n].ev = "closed" /\ ~gn'[n].handler
         /\ gn'[n].irqfd = gn[n].irqfd /\ gn'[n].masked = gn[n].masked
         /\ gn'[n].vector = gn[n].vector
         /\ gn'[n].onMasked <=> gn[n].onMasked \/ intr = "intx"
         /\ gn'[n].due = "yes" => gn[n].due = "yes"
         /\ PendingGrows
         /\ \A v \in Vectors : vec'[v].used = vec[v].used /\ vec'[v].users = vec[v].users
         /\ gn'[n].due = "yes" /\ gn[n].ev = "set" /\ HasVector(n) =>
              vec[gn[n].vector].masked /\ vec'[gn[n].vector].pending
         /\ gn'[n].due = "yes" /\ gn[n].ev = "set" => intr # "intx"
<1> DEFINE g == [gn EXCEPT ![n].ev = "closed", ![n].handler = FALSE,
                           ![n].onMasked = @ \/ intr = "intx"]
<1>0. gn \in [Queues -> GuestNotifier] /\ vec \in [Vectors -> Vector]
  BY DEF GuestShape
<1>1. IF gn[n].ev = "set" THEN Notify(n, g) ELSE gn' = g /\ UNCHANGED vec
  BY DEF UnsetGuest
<1>2. PICK h \in GuestNotifier, m \in BOOLEAN :
        h = gn[n] /\ m = (gn[n].onMasked \/ intr = "intx")
  BY <1>0
<1>3. g = [gn EXCEPT ![n] = [h EXCEPT !.ev = "closed", !.handler = FALSE, !.onMasked = m]]
  BY <1>0, <1>2, Zenon
<1> HIDE DEF g
<1>4. PICK k \in GuestNotifier :
        /\ k = [h EXCEPT !.ev = "closed", !.handler = FALSE, !.onMasked = m]
        /\ k.ev = "closed" /\ ~k.handler /\ k.irqfd = h.irqfd /\ k.masked = h.masked
        /\ k.vector = h.vector /\ (k.onMasked <=> m) /\ k.due = h.due
  <2>1. [h EXCEPT !.ev = "closed", !.handler = FALSE, !.onMasked = m] \in GuestNotifier
    BY DEF GuestNotifier
  <2>2. QED
    BY <2>1 DEF GuestNotifier
<1>5. g \in [Queues -> GuestNotifier] /\ g[n] = k /\ \A q \in Queues \ {n} : g[q] = gn[q]
  BY <1>0, <1>3, <1>4
<1>6. CASE gn[n].ev = "set"
  <2>1. Notify(n, g)
    BY <1>1, <1>6
  <2>2. /\ gn' \in [Queues -> GuestNotifier] /\ vec' \in [Vectors -> Vector]
        /\ \A q \in Queues : /\ gn'[q].ev = g[q].ev /\ gn'[q].handler = g[q].handler
                             /\ gn'[q].irqfd = g[q].irqfd /\ gn'[q].onMasked = g[q].onMasked
                             /\ gn'[q].masked = g[q].masked /\ gn'[q].vector = g[q].vector
                             /\ gn'[q].due = "yes" => g[q].due = "yes"
        /\ PendingGrows
        /\ \A v \in Vectors : vec'[v].used = vec[v].used /\ vec'[v].users = vec[v].users
        /\ gn'[n].due = "yes" => /\ intr # "intx"
                                 /\ InUse(g[n].vector) =>
                                      vec[g[n].vector].masked /\ vec'[g[n].vector].pending
    BY <1>5, <2>1, NotifyDoes
  <2>3. \A q \in Queues \ {n} : Steady(q)
    BY <1>5, <2>2 DEF Steady, Keeps
  <2>4. HasVector(n) => InUse(gn[n].vector)
    <3>1. HasVector(n) => gn[n].vector \in Vectors
      BY <1>0 DEF HasVector, GuestNotifier
    <3>2. QED
      BY <3>1, UsedBy
  <2>5. /\ gn'[n].ev = "closed" /\ ~gn'[n].handler
        /\ gn'[n].irqfd = gn[n].irqfd /\ gn'[n].masked = gn[n].masked
        /\ gn'[n].vector = gn[n].vector
        /\ gn'[n].onMasked <=> gn[n].onMasked \/ intr = "intx"
        /\ gn'[n].due = "yes" => gn[n].due = "yes"
    <3>1. /\ gn'[n].ev = g[n].ev /\ gn'[n].handler = g[n].handler
          /\ gn'[n].irqfd = g[n].irqfd /\ gn'[n].onMasked = g[n].onMasked
          /\ gn'[n].masked = g[n].masked /\ gn'[n].vector = g[n].vector
          /\ gn'[n].due = "yes" => g[n].due = "yes"
      BY <2>2
    <3>2. g[n] = k /\ gn[n] = h
      BY <1>2, <1>5
    <3>3. /\ gn'[n].ev = "closed" /\ ~gn'[n].handler
          /\ gn'[n].irqfd = gn[n].irqfd /\ gn'[n].masked = gn[n].masked
          /\ gn'[n].vector = gn[n].vector
      <4>1. k.ev = "closed" /\ ~k.handler
        BY <1>4
      <4>2. k.irqfd = h.irqfd /\ k.masked = h.masked /\ k.vector = h.vector
        BY <1>4
      <4>3. gn'[n].ev = "closed" /\ ~gn'[n].handler
        BY <3>1, <3>2, <4>1, ZenonT(40)
      <4>4. gn'[n].irqfd = gn[n].irqfd /\ gn'[n].masked = gn[n].masked
            /\ gn'[n].vector = gn[n].vector
        BY <3>1, <3>2, <4>2, ZenonT(40)
      <4>5. QED
        BY <4>3, <4>4
    <3>4. gn'[n].onMasked <=> gn[n].onMasked \/ intr = "intx"
      BY <1>2, <1>4, <3>1, <3>2, ZenonT(40)
    <3>5. gn'[n].due = "yes" => gn[n].due = "yes"
      BY <1>4, <3>1, <3>2, ZenonT(40)
    <3>6. QED
      BY <3>3, <3>4, <3>5, Zenon
  <2>6. g[n].vector = gn[n].vector
    BY <1>2, <1>4, <1>5
  <2>7. /\ gn'[n].due = "yes" /\ HasVector(n) =>
             vec[gn[n].vector].masked /\ vec'[gn[n].vector].pending
        /\ gn'[n].due = "yes" => intr # "intx"
    BY <2>2, <2>4, <2>6
  <2>8. QED
    BY <2>2, <2>3, <2>5, <2>7
<1>7. CASE gn[n].ev # "set"
  <2>1. gn' = g /\ UNCHANGED vec
    BY <1>1, <1>7
  <2>2. \A q \in Queues \ {n} : Steady(q)
    BY <1>5, <2>1 DEF Steady, Keeps
  <2>3. QED
    BY <1>0, <1>2, <1>4, <1>5, <1>7, <2>1, <2>2 DEF PendingGrows
<1>8. QED
  BY <1>6, <1>7

(* A queue loses its guest notifier, in an error path or at the end. *)
LEMMA UnsetGuestKeeps ==
  ASSUME HostInv, GuestInv, NEW n \in Queues, n = Index, At("unset_error") \/ At("unset_guest"),
         UnsetGuest(n), UNCHANGED <<active, intr, canMask, irqfds, notifiers>>,
         ~Assigned(n)', \A q \in Queues \ {n} : Assigned(q)' <=> Assigned(q),
         \A q \in Queues : ~Routed(q)', ~Watched', FlagsInv', UnmaskingInv'
  PROVE  GuestInv'
<1>1. /\ Nth(1).do \in {"unset_error", "unset_guest"} /\ Nth(1).do \in GuestSteps
      /\ Nth(1).n = n /\ ~active
  BY SetUpState DEF GuestSteps
<1>2. n \in Nat /\ n <= n
  BY NQueuesAssumption DEF Queues
<1>3. Assigned(n) /\ ~Watched /\ \A q \in Queues : ~Routed(q)
  BY <1>1, <1>2 DEF Assigned, Watched, Serving, Routed, RoutedNow
<1>4. /\ gn' \in [Queues -> GuestNotifier] /\ vec' \in [Vectors -> Vector]
      /\ \A q \in Queues \ {n} : Steady(q)
      /\ gn'[n].ev = "closed" /\ ~gn'[n].handler
      /\ gn'[n].irqfd = gn[n].irqfd /\ gn'[n].masked = gn[n].masked
      /\ gn'[n].vector = gn[n].vector
      /\ gn'[n].onMasked <=> gn[n].onMasked \/ intr = "intx"
      /\ gn'[n].due = "yes" => gn[n].due = "yes"
      /\ PendingGrows
      /\ \A v \in Vectors : vec'[v].used = vec[v].used /\ vec'[v].users = vec[v].users
      /\ gn'[n].due = "yes" /\ gn[n].ev = "set" /\ HasVector(n) =>
           vec[gn[n].vector].masked /\ vec'[gn[n].vector].pending
      /\ gn'[n].due = "yes" /\ gn[n].ev = "set" => intr # "intx"
  BY UnsetGuestDoes DEF GuestInv
<1>5. GuestShape'
  BY <1>4 DEF GuestInv, GuestShape
<1>6. VectorsInv'
  <2>1. \A q \in Queues : gn'[q].vector = gn[q].vector /\ (Routed(q)' <=> Routed(q))
    BY <1>3, <1>4 DEF Steady, Keeps
  <2>2. QED
    BY <1>4, <2>1, SameVectors DEF GuestInv
<1>7. QueueOK(n)'
  <2>1. QueueOK(n) /\ ~Heard(n) /\ ~Heard(n)' /\ ~Routed(n) /\ ~Routed(n)'
    BY <1>3 DEF GuestInv, QueuesInv, Heard
  <2>2. QED
    BY <1>1, <1>3, <1>4, <2>1 DEF QueueOK, WantsInterrupt
<1>8. gn'[n].due = "yes" => InEventfd(n)'
  <2> SUFFICES ASSUME gn'[n].due = "yes" PROVE InEventfd(n)'
    OBVIOUS
  <2>1. gn[n].due = "yes" /\ InEventfd(n) /\ WantsInterrupt(n)
    BY <1>1, <1>4, SetUpReaches DEF GuestInv, QueuesInv, QueueOK
  <2>2. HasVector(n) => gn[n].vector \in Vectors
    BY DEF GuestInv, GuestShape, GuestNotifier, HasVector
  <2>3. HasVector(n) /\ vec[gn[n].vector].masked /\ vec'[gn[n].vector].pending
    BY <1>4, <2>1, <2>2 DEF InEventfd, WantsInterrupt, HasVector, PendingGrows
  <2>4. QED
    BY <1>4, <2>2, <2>3 DEF InEventfd, HasVector, PendingGrows
<1>9. \A q \in Queues \ {n} : Steady(q) /\ (Assigned(q)' <=> Assigned(q))
                              /\ (Routed(q)' <=> Routed(q))
  BY <1>3, <1>4
<1>10. QED
  BY <1>1, <1>3, <1>4, <1>5, <1>6, <1>7, <1>8, <1>9, OneQueue
(* assign_error *)
LEMMA GuestErrorKeepsGuest ==
  ASSUME HostInv, GuestInv, AssignGuestError, UNCHANGED active
  PROVE  GuestInv'
<1>1. At("unset_error") /\ UnsetGuest(Index) /\ Then(Failed(Index - 1))
      /\ UNCHANGED <<intr, canMask, irqfds, notifiers>>
  BY DEF AssignGuestError
<1>2. todo # <<>> /\ todo \in Seq(AnyStep) /\ Index \in Queues
      /\ Nth(1).do = "unset_error" /\ Nth(1).do \in GuestSteps /\ Nth(1).n = Index /\ ~active
  BY <1>1, SetUpState DEF GuestSteps, CountedSteps
<1>3. PICK n \in Queues : n = Index /\ n \in Nat /\ n >= 1 /\ n <= NQueues
  BY <1>2, NQueuesAssumption DEF Queues
<1>4. \A q \in Queues : q \in Nat /\ q >= 1 /\ q <= NQueues
  BY NQueuesAssumption DEF Queues
<1>5. n - 1 \in 0..NQueues /\ Then(Failed(n - 1)) /\ ~active'
  BY <1>1, <1>2, <1>3, NQueuesAssumption
<1>6. /\ \A q \in Queues : (Assigned(q)' <=> q <= n - 1) /\ ~Routed(q)'
      /\ ~Serving' /\ UnmaskingInv' /\ Nth(1)'.do \in {"unset_error", "give"}
  BY <1>2, <1>5, FailedNext
<1>7. ~Watched' /\ FlagsInv'
  <2>1. ~notifiers' /\ (irqfds' => intr' = "irqfd")
    BY <1>1, <1>2 DEF GuestInv, FlagsInv, Watched, Serving
  <2>2. FlagsInv'
    BY <1>6, <2>1, FlagsFailed
  <2>3. QED
    BY <1>6, <2>2 DEF Watched
<1>8. ~Assigned(n)'
  BY <1>3, <1>6
<1>9. ASSUME NEW q \in Queues \ {n}
      PROVE  Assigned(q)' <=> Assigned(q)
  <2>1. Assigned(q) <=> q <= n
    BY <1>2, <1>3 DEF Assigned
  <2>2. q <= n <=> q <= n - 1
    BY <1>3, <1>4
  <2>3. QED
    BY <1>6, <2>1, <2>2
<1>10. UnsetGuest(n) /\ n = Index
  BY <1>1, <1>3
<1>11. QED
  BY <1>1, <1>6, <1>7, <1>8, <1>9, <1>10, UnsetGuestKeeps

(* The loop over the queues that deassigns. *)
LEMMA UnsetGuestKeepsGuest ==
  ASSUME HostInv, GuestInv, UnsetGuestNext, UNCHANGED active
  PROVE  GuestInv'
<1>1. At("unset_guest") /\ UnsetGuest(Index) /\ Then(Up("unset_guest", Index + 1, <<>>))
      /\ UNCHANGED <<intr, canMask, irqfds, notifiers>>
  BY DEF UnsetGuestNext
<1>2. todo # <<>> /\ todo \in Seq(AnyStep) /\ Index \in Queues /\ After(Nth(1), Nth(2))
      /\ Nth(1).do = "unset_guest" /\ Nth(1).do \in GuestSteps /\ Nth(1).n = Index /\ ~active
  BY <1>1, SetUpState DEF GuestSteps, CountedSteps
<1>3. PICK n \in Queues : n = Index /\ n \in Nat /\ n >= 1 /\ n <= NQueues
  BY <1>2, NQueuesAssumption DEF Queues
<1>4. \A q \in Queues : q \in Nat /\ q >= 1 /\ q <= NQueues
  BY NQueuesAssumption DEF Queues
<1>5. /\ \A q \in Queues : Assigned(q)' <=> q >= n + 1
      /\ Nth(1)'.do \in {"unset_guest", "give"}
  <2>1. CASE n + 1 <= NQueues
    <3>1. Step("unset_guest", n + 1) \in AnyStep
      BY <1>3, <2>1, NQueuesAssumption DEF Queues, AnyStep, CountedSteps, Step
    <3>2. Then(<<Step("unset_guest", n + 1)>>)
      BY <1>1, <1>3, <2>1 DEF Up
    <3>3. Nth(1)' = Step("unset_guest", n + 1)
      BY <1>2, <3>1, <3>2, NextOne
    <3>4. Nth(1)'.do = "unset_guest" /\ Nth(1)'.n = n + 1
      BY <3>3 DEF Step
    <3>5. QED
      BY <1>2, <3>4 DEF Assigned
  <2>2. CASE ~(n + 1 <= NQueues)
    <3>1. Then(<<>>)
      BY <1>1, <1>3, <2>2 DEF Up
    <3>2. Nth(1)' = Nth(2)
      BY <1>2, <3>1, NextNone
    <3>3. Nth(2).do = "give"
      BY <1>2 DEF After, Unfinished, ClosingSteps, TakingSteps, Step
    <3>4. \A q \in Queues : ~(q >= n + 1)
      BY <1>3, <1>4, <2>2, NQueuesAssumption
    <3>5. QED
      BY <1>2, <3>2, <3>3, <3>4 DEF Assigned
  <2>3. QED
    BY <2>1, <2>2
<1>6. ~Serving' /\ UnmaskingInv' /\ \A q \in Queues : ~Routed(q)'
  BY <1>2, <1>5 DEF Serving, UnmaskingInv, UnmaskingSteps, Routed, RoutedNow
<1>7. ~Watched' /\ FlagsInv'
  <2>1. ~notifiers' /\ (irqfds' => intr' = "irqfd")
    BY <1>1, <1>2 DEF GuestInv, FlagsInv, Watched, Serving
  <2>2. FlagsInv'
    BY <1>5, <1>6, <2>1, FlagsFailed
  <2>3. QED
    BY <1>6, <2>2 DEF Watched
<1>8. ~Assigned(n)'
  BY <1>3, <1>5
<1>9. ASSUME NEW q \in Queues \ {n}
      PROVE  Assigned(q)' <=> Assigned(q)
  <2>1. Assigned(q) <=> q >= n
    BY <1>2, <1>3 DEF Assigned
  <2>2. q >= n <=> q >= n + 1
    BY <1>3, <1>4
  <2>3. QED
    BY <1>5, <2>1, <2>2
<1>10. UnsetGuest(n) /\ n = Index
  BY <1>1, <1>3
<1>11. QED
  BY <1>1, <1>6, <1>7, <1>8, <1>9, <1>10, UnsetGuestKeeps
(* A queue gets a route of its vector, or gives it back.                     *)
LEMMA UserAdded ==
  ASSUME VectorsInv, GuestShape, NEW n \in Queues, NEW w \in Vectors, w = gn[n].vector,
         \A q \in Queues : gn'[q].vector = gn[q].vector,
         ~Routed(n), Routed(n)', \A q \in Queues \ {n} : Routed(q)' <=> Routed(q),
         vec' = [vec EXCEPT ![w].users = @ + 1]
  PROVE  VectorsInv'
<1>1. \A v : Sharing(v)' = Sharing(v)
  BY SameSharing
<1>2. UsersOf(w)' = UsersOf(w) \cup {n} /\ n \in Queues \ UsersOf(w)
  BY DEF UsersOf
<1>3. \A v \in Vectors \ {w} : UsersOf(v)' = UsersOf(v)
  BY DEF UsersOf
<1>4. vec \in [Vectors -> Vector]
  BY DEF GuestShape
<1>5. /\ vec'[w].used = vec[w].used /\ vec'[w].users = vec[w].users + 1
      /\ \A v \in Vectors \ {w} : vec'[v] = vec[v]
  BY <1>4 DEF Vector
<1>6. UsersOf(w) \in SUBSET Queues
  BY DEF UsersOf
<1>7. Cardinality(UsersOf(w) \cup {n}) = Cardinality(UsersOf(w)) + 1
  BY <1>2, <1>6, QueuesCounted
<1>8. VectorOK(w)'
  BY <1>1, <1>2, <1>5, <1>7 DEF VectorsInv, VectorOK
<1>9. \A v \in Vectors \ {w} : VectorOK(v)'
  BY <1>1, <1>3, <1>5 DEF VectorsInv, VectorOK
<1>10. QED
  BY <1>8, <1>9 DEF VectorsInv

(* A queue gives its route back. *)
LEMMA UserGone ==
  ASSUME VectorsInv, GuestShape, NEW n \in Queues, NEW w \in Vectors, w = gn[n].vector,
         \A q \in Queues : gn'[q].vector = gn[q].vector,
         Routed(n), ~Routed(n)', \A q \in Queues \ {n} : Routed(q)' <=> Routed(q),
         vec' = [vec EXCEPT ![w].users = @ - 1]
  PROVE  VectorsInv'
<1>1. \A v : Sharing(v)' = Sharing(v)
  BY SameSharing
<1>2. UsersOf(w)' = UsersOf(w) \ {n} /\ n \in UsersOf(w)
  BY DEF UsersOf
<1>3. \A v \in Vectors \ {w} : UsersOf(v)' = UsersOf(v)
  BY DEF UsersOf
<1>4. vec \in [Vectors -> Vector]
  BY DEF GuestShape
<1>5. /\ vec'[w].used = vec[w].used /\ vec'[w].users = vec[w].users - 1
      /\ \A v \in Vectors \ {w} : vec'[v] = vec[v]
  BY <1>4 DEF Vector
<1>6. UsersOf(w) \in SUBSET Queues
  BY DEF UsersOf
<1>7. Cardinality(UsersOf(w) \ {n}) = Cardinality(UsersOf(w)) - 1
  BY <1>2, <1>6, QueuesCounted
<1>8. VectorOK(w)'
  BY <1>1, <1>2, <1>5, <1>7 DEF VectorsInv, VectorOK
<1>9. \A v \in Vectors \ {w} : VectorOK(v)'
  BY <1>1, <1>3, <1>5 DEF VectorsInv, VectorOK
<1>10. QED
  BY <1>8, <1>9 DEF VectorsInv

(* KVM gets the irqfd of a queue and delivers what the eventfd has received. *)
LEMMA AddIrqfdDoes ==
  ASSUME GuestShape, NEW n \in Queues, gn' = AddIrqfd(n, gn)
  PROVE  /\ gn' \in [Queues -> GuestNotifier]
         /\ \A q \in Queues \ {n} : Steady(q)
         /\ gn'[n].vector = gn[n].vector /\ gn'[n].handler = gn[n].handler
         /\ gn'[n].onMasked = gn[n].onMasked /\ gn'[n].masked = gn[n].masked
         /\ gn'[n].irqfd /\ gn'[n].ev # "set"
         /\ gn'[n].ev = "closed" <=> gn[n].ev = "closed"
         /\ gn'[n].due = "yes" => gn[n].due = "yes" /\ gn[n].ev # "set"
<1>0. gn \in [Queues -> GuestNotifier]
  BY DEF GuestShape
<1>1. PICK h \in GuestNotifier : h = gn[n]
  BY <1>0
<1>2. CASE gn[n].ev # "set"
  <2>1. gn' = [gn EXCEPT ![n] = [h EXCEPT !.irqfd = TRUE]]
    BY <1>0, <1>1, <1>2, Zenon DEF AddIrqfd
  <2>2. PICK k \in GuestNotifier :
          /\ k = [h EXCEPT !.irqfd = TRUE]
          /\ k.irqfd /\ k.ev = h.ev /\ k.handler = h.handler /\ k.onMasked = h.onMasked
          /\ k.masked = h.masked /\ k.vector = h.vector /\ k.due = h.due
    <3>1. [h EXCEPT !.irqfd = TRUE] \in GuestNotifier
      BY DEF GuestNotifier
    <3>2. QED
      BY <3>1 DEF GuestNotifier
  <2>3. gn' \in [Queues -> GuestNotifier] /\ gn'[n] = k /\ \A q \in Queues \ {n} : gn'[q] = gn[q]
    BY <1>0, <2>1, <2>2
  <2>4. QED
    BY <1>1, <1>2, <2>2, <2>3 DEF Steady, Keeps
<1>3. CASE gn[n].ev = "set"
  <2> DEFINE g == [gn EXCEPT ![n].irqfd = TRUE, ![n].ev = "clear"]
  <2>1. gn' = Interrupted(g, gn[n].vector)
    BY <1>3 DEF AddIrqfd
  <2>2. g = [gn EXCEPT ![n] = [h EXCEPT !.irqfd = TRUE, !.ev = "clear"]]
    BY <1>0, <1>1, Zenon
  <2> HIDE DEF g
  <2>3. PICK k \in GuestNotifier :
          /\ k = [h EXCEPT !.irqfd = TRUE, !.ev = "clear"]
          /\ k.irqfd /\ k.ev = "clear" /\ k.handler = h.handler /\ k.onMasked = h.onMasked
          /\ k.masked = h.masked /\ k.vector = h.vector /\ k.due = h.due
    <3>1. [h EXCEPT !.irqfd = TRUE, !.ev = "clear"] \in GuestNotifier
      BY DEF GuestNotifier
    <3>2. QED
      BY <3>1 DEF GuestNotifier
  <2>4. g \in [Queues -> GuestNotifier] /\ g[n] = k /\ \A q \in Queues \ {n} : g[q] = gn[q]
    BY <1>0, <2>2, <2>3
  <2>5. ASSUME NEW q \in Queues
        PROVE  SetsDue(gn'[q], g[q], IF g[q].vector = gn[n].vector THEN "no" ELSE g[q].due)
    <3>1. PICK d \in {"no", "yes", "lost"} :
          d = IF g[q].vector = gn[n].vector THEN "no" ELSE g[q].due
      BY <2>4, DueOf
    <3>2. gn'[q] = [g[q] EXCEPT !.due = d] /\ g[q] \in GuestNotifier
      BY <2>1, <2>4, <3>1 DEF Interrupted
    <3>3. SetsDue([g[q] EXCEPT !.due = d], g[q], d)
      BY <3>2, DueSet, ZenonT(40)
    <3>4. QED
      BY <3>1, <3>2, <3>3, Zenon
  <2>6. gn' \in [Queues -> GuestNotifier]
    <3>1. gn' = [q \in Queues |-> gn'[q]]
      BY <2>1 DEF Interrupted
    <3>2. \A q \in Queues : gn'[q] \in GuestNotifier
      BY <2>5 DEF SetsDue
    <3>3. QED
      BY <3>1, <3>2
  <2>7. ASSUME NEW q \in Queues \ {n}
        PROVE  Steady(q)
    <3>1. SetsDue(gn'[q], gn[q], IF gn[q].vector = gn[n].vector THEN "no" ELSE gn[q].due)
      BY <2>4, <2>5
    <3>2. QED
      BY <3>1 DEF SetsDue, Steady, Keeps
  <2>8. SetsDue(gn'[n], k, IF k.vector = gn[n].vector THEN "no" ELSE k.due)
    BY <2>4, <2>5
  <2>9. /\ gn'[n].vector = gn[n].vector /\ gn'[n].handler = gn[n].handler
        /\ gn'[n].onMasked = gn[n].onMasked /\ gn'[n].masked = gn[n].masked
        /\ gn'[n].irqfd /\ gn'[n].ev = "clear"
    <3>1. /\ gn'[n].vector = k.vector /\ gn'[n].handler = k.handler
          /\ gn'[n].onMasked = k.onMasked /\ gn'[n].masked = k.masked
          /\ gn'[n].irqfd = k.irqfd /\ gn'[n].ev = k.ev
      BY <2>8 DEF SetsDue
    <3>2. QED
      BY <1>1, <2>3, <3>1
  <2>10. gn'[n].due # "yes"
    BY <1>1, <2>3, <2>8 DEF SetsDue
  <2>11. QED
    BY <1>3, <2>6, <2>7, <2>9, <2>10
<1>4. QED
  BY <1>2, <1>3
(* The flags while the routes are made or given back.                        *)
LEMMA FlagsRouting ==
  ASSUME ~Serving', intr' = "irqfd", ~notifiers',
         Nth(1)'.do \in {"vector_use", "set_vector_notifiers"} => irqfds',
         Nth(1)'.do \notin {"unset_vector_notifiers"}
  PROVE  FlagsInv'
BY DEF FlagsInv, Watched, Serving

(* What is next in the loop over the queues that takes routes. *)
LEMMA VectorUsePhase ==
  ASSUME HostInv, GuestInv, At("vector_use"), ~active',
         Then(Up("vector_use", Index + 1, <<Step("set_vector_notifiers", 0)>>)),
         UNCHANGED <<intr, canMask, irqfds, notifiers>>
  PROVE  /\ \A q \in Queues : Assigned(q)' /\ (RoutedNow(q)' <=> q <= Index)
         /\ ~Serving' /\ ~Watched' /\ FlagsInv' /\ UnmaskingInv'
         /\ Nth(1)'.do \in {"vector_use", "set_vector_notifiers"}
<1>1. todo # <<>> /\ todo \in Seq(AnyStep) /\ Index \in Queues
      /\ Nth(1).do = "vector_use" /\ ~active
  BY SetUpState DEF GuestSteps, SetGuestSteps, CountedSteps
<1>2. PICK n \in Queues : n = Index /\ n \in Nat /\ n >= 1
  BY <1>1, NQueuesAssumption DEF Queues
<1>3. \A q \in Queues : q \in Nat /\ q >= 1 /\ q <= NQueues
  BY NQueuesAssumption DEF Queues
<1>4. ~notifiers' /\ irqfds' /\ intr' = "irqfd"
  BY <1>1 DEF GuestInv, FlagsInv, Watched, Serving
<1>5. /\ \A q \in Queues : Assigned(q)' /\ (RoutedNow(q)' <=> q <= n)
      /\ Nth(1)'.do \in {"vector_use", "set_vector_notifiers"}
  <2>1. CASE n + 1 <= NQueues
    <3>1. Step("vector_use", n + 1) \in AnyStep
      BY <1>2, <2>1, NQueuesAssumption DEF Queues, AnyStep, CountedSteps, Step
    <3>2. Then(<<Step("vector_use", n + 1)>>)
      BY <1>2, <2>1 DEF Up
    <3>3. Nth(1)' = Step("vector_use", n + 1)
      BY <1>1, <3>1, <3>2, NextOne
    <3>4. Nth(1)'.do = "vector_use" /\ Nth(1)'.n = n + 1
      BY <3>3 DEF Step
    <3>5. \A q \in Queues : q < n + 1 <=> q <= n
      BY <1>2, <1>3
    <3>6. QED
      BY <1>1, <3>4, <3>5 DEF Assigned, RoutedNow
  <2>2. CASE ~(n + 1 <= NQueues)
    <3>1. Step("set_vector_notifiers", 0) \in AnyStep
      BY DEF AnyStep, PlainSteps, Step
    <3>2. Then(<<Step("set_vector_notifiers", 0)>>)
      BY <1>2, <2>2 DEF Up
    <3>3. Nth(1)' = Step("set_vector_notifiers", 0)
      BY <1>1, <3>1, <3>2, NextOne
    <3>4. Nth(1)'.do = "set_vector_notifiers"
      BY <3>3 DEF Step
    <3>5. \A q \in Queues : q <= n
      BY <1>2, <1>3, <2>2, NQueuesAssumption
    <3>6. QED
      BY <3>4, <3>5 DEF Assigned, RoutedNow
  <2>3. QED
    BY <2>1, <2>2
<1>6. ~Serving' /\ ~Watched' /\ UnmaskingInv'
  BY <1>5 DEF Serving, Watched, UnmaskingInv, UnmaskingSteps
<1>7. FlagsInv'
  BY <1>4, <1>5, <1>6, FlagsRouting
<1>8. QED
  BY <1>2, <1>5, <1>6, <1>7

(* The routes are given back from the one before queue n down.               *)
LEMMA UndoNext ==
  ASSUME todo \in Seq(AnyStep), todo # <<>>, NEW n \in Queues, Then(Undo(n)), ~active',
         intr' = "irqfd", ~notifiers'
  PROVE  /\ \A q \in Queues : Assigned(q)' /\ (RoutedNow(q)' <=> q < n)
         /\ \A q : ~Waits(q)' /\ ~Tests(q)'
         /\ \A v : ~Fires(v)'
         /\ ~Serving' /\ ~Watched' /\ FlagsInv' /\ UnmaskingInv'
<1>1. n \in Nat /\ n >= 1 /\ n <= NQueues
  BY NQueuesAssumption DEF Queues
<1>2. \A q \in Queues : q \in Nat /\ q >= 1 /\ q <= NQueues
  BY NQueuesAssumption DEF Queues
<1>3. CASE n - 1 > 0
  <2>1. Step("undo", n - 1) \in AnyStep
    BY <1>1, <1>3, NQueuesAssumption DEF Queues, AnyStep, CountedSteps, Step
  <2>2. Then(<<Step("undo", n - 1)>>)
    BY <1>3 DEF Undo, Down
  <2>3. Nth(1)' = Step("undo", n - 1)
    BY <2>1, <2>2, NextOne
  <2>4. Nth(1)'.do = "undo" /\ Nth(1)'.n = n - 1
    BY <2>3 DEF Step
  <2>5. \A q \in Queues : q <= n - 1 <=> q < n
    BY <1>1, <1>2
  <2>6. \A q \in Queues : Assigned(q)' /\ (RoutedNow(q)' <=> q < n)
    BY <2>4, <2>5 DEF Assigned, RoutedNow
  <2>7. ~Serving' /\ ~Watched' /\ UnmaskingInv'
    BY <2>4 DEF Serving, Watched, UnmaskingInv, UnmaskingSteps
  <2>8. FlagsInv'
    BY <2>4, <2>7, FlagsRouting
  <2>9. (\A q : ~Waits(q)' /\ ~Tests(q)') /\ (\A v : ~Fires(v)')
    BY <2>4 DEF Waits, Tests, Fires, UnmaskingSteps
  <2>10. QED
    BY <2>6, <2>7, <2>8, <2>9
<1>4. CASE ~(n - 1 > 0)
  <2>1. Then(Failed(NQueues)) /\ NQueues \in 0..NQueues
    BY <1>4, NQueuesAssumption DEF Undo, Down
  <2>2. /\ \A q \in Queues : (Assigned(q)' <=> q <= NQueues) /\ ~Routed(q)'
        /\ \A q : ~Waits(q)' /\ ~Tests(q)'
        /\ \A v : ~Fires(v)'
        /\ ~Serving' /\ UnmaskingInv'
        /\ Nth(1)'.do \in {"unset_error", "give"}
    BY <2>1, FailedNext
  <2>3. \A q \in Queues : ~(q < n)
    BY <1>1, <1>2, <1>4
  <2>4. FlagsInv'
    BY <2>2, FlagsFailed
  <2>5. ~Watched'
    BY <2>2 DEF Watched
  <2>6. QED
    BY <1>2, <2>2, <2>3, <2>4, <2>5 DEF RoutedNow
<1>5. QED
  BY <1>3, <1>4

(* kvm_virtio_pci_vector_use *)
LEMMA VectorUseKeepsGuest ==
  ASSUME HostInv, GuestInv, VectorUseNext, UNCHANGED active
  PROVE  GuestInv'
<1>1. At("vector_use") /\ UNCHANGED <<intr, canMask, irqfds, notifiers>>
  BY DEF VectorUseNext
<1>2. todo # <<>> /\ todo \in Seq(AnyStep) /\ Index \in Queues
      /\ Nth(1).do = "vector_use" /\ Nth(1).do \in GuestSteps /\ Nth(1).n = Index /\ ~active
  BY <1>1, SetUpState DEF GuestSteps, SetGuestSteps, CountedSteps
<1>3. PICK n \in Queues : n = Index /\ n \in Nat /\ n >= 1 /\ n <= NQueues
  BY <1>2, NQueuesAssumption DEF Queues
<1>4. \A q \in Queues : q \in Nat /\ q >= 1 /\ q <= NQueues
  BY NQueuesAssumption DEF Queues
<1>5. /\ intr = "irqfd" /\ ~notifiers /\ ~Serving /\ ~Watched
      /\ \A q \in Queues : Assigned(q) /\ (Routed(q) <=> HasVector(q) /\ q < n)
  BY <1>2, <1>3 DEF GuestInv, FlagsInv, Watched, Serving, Assigned, Routed, RoutedNow
<1>6. GuestShape /\ (HasVector(n) => gn[n].vector \in Vectors)
  BY DEF GuestInv, GuestShape, GuestNotifier, HasVector
<1>7. CASE HasVector(n) /\ Then(Undo(n)) /\ UNCHANGED <<gn, vec>>
  <2>1. /\ \A q \in Queues : Assigned(q)' /\ (RoutedNow(q)' <=> q < n)
        /\ \A q : ~Waits(q)' /\ ~Tests(q)'
        /\ \A v : ~Fires(v)'
        /\ ~Serving' /\ FlagsInv' /\ UnmaskingInv'
    BY <1>1, <1>2, <1>5, <1>7, UndoNext
  <2>2. \A q \in Queues : HasVector(q)' <=> HasVector(q)
    BY <1>7 DEF HasVector
  <2>3. SamePhase
    <3>1. \A q \in Queues : Routed(q)' <=> Routed(q)
      BY <1>1, <1>5, <2>1, <2>2 DEF Routed
    <3>2. QED
      BY <1>2, <1>5, <2>1, <3>1, PhaseSetUp DEF SamePhase
  <2>4. UNCHANGED guestVars
    BY <1>1, <1>7 DEF guestVars
  <2>5. QED
    BY <1>2, <2>1, <2>3, <2>4, Frame DEF GuestInv, GuestShape
<1>8. ASSUME Then(Up("vector_use", Index + 1, <<Step("set_vector_notifiers", 0)>>))
      PROVE  /\ \A q \in Queues : Assigned(q)' /\ (RoutedNow(q)' <=> q <= n)
             /\ ~Serving' /\ ~Watched' /\ FlagsInv' /\ UnmaskingInv'
             /\ Nth(1)'.do \in {"vector_use", "set_vector_notifiers"}
  BY <1>1, <1>2, <1>3, <1>8, VectorUsePhase
<1>9. CASE /\ ~HasVector(n)
           /\ Then(Up("vector_use", Index + 1, <<Step("set_vector_notifiers", 0)>>))
           /\ UNCHANGED <<gn, vec>>
  <2>1. ASSUME NEW q \in Queues PROVE Routed(q)' <=> Routed(q)
    <3>1. q # n => (q <= n <=> q < n)
      BY <1>3, <1>4
    <3>2. HasVector(q)' <=> HasVector(q)
      BY <1>9 DEF HasVector
    <3>3. Routed(q)' <=> HasVector(q) /\ q <= n
      BY <1>1, <1>5, <1>8, <1>9, <3>2 DEF Routed
    <3>4. QED
      BY <1>5, <1>9, <3>1, <3>3
  <2>2. SamePhase
    <3>1. (\A q : ~Waits(q)' /\ ~Tests(q)') /\ (\A v : ~Fires(v)')
      BY <1>8, <1>9 DEF Waits, Tests, Fires, UnmaskingSteps
    <3>2. QED
      BY <1>2, <1>5, <1>8, <1>9, <2>1, <3>1, PhaseSetUp DEF SamePhase
  <2>3. UNCHANGED guestVars
    BY <1>1, <1>9 DEF guestVars
  <2>4. QED
    BY <1>2, <1>8, <1>9, <2>2, <2>3, Frame DEF GuestInv, GuestShape
<1>10. CASE /\ HasVector(n)
            /\ vec' = [vec EXCEPT ![gn[n].vector].users = @ + 1]
            /\ gn' = IF canMask THEN AddIrqfd(n, gn) ELSE gn
            /\ Then(Up("vector_use", Index + 1, <<Step("set_vector_notifiers", 0)>>))
  <2>1. PICK w \in Vectors : w = gn[n].vector
    BY <1>6, <1>10
  <2>2. vec' = [vec EXCEPT ![w].users = @ + 1] /\ vec \in [Vectors -> Vector]
    BY <1>6, <1>10, <2>1 DEF GuestShape
  <2>3. vec' \in [Vectors -> Vector] /\ PendingGrows
    BY <2>2 DEF Vector, PendingGrows
  <2>4. /\ gn' \in [Queues -> GuestNotifier]
        /\ \A q \in Queues \ {n} : Steady(q)
        /\ gn'[n].vector = gn[n].vector /\ gn'[n].handler = gn[n].handler
        /\ gn'[n].onMasked = gn[n].onMasked /\ gn'[n].masked = gn[n].masked
        /\ gn'[n].irqfd <=> gn[n].irqfd \/ canMask
        /\ gn'[n].ev = "closed" <=> gn[n].ev = "closed"
        /\ gn'[n].due = "yes" => gn[n].due = "yes" /\ (gn[n].ev = "set" => gn'[n].ev = "set")
    <3>1. CASE canMask
      BY <1>6, <1>10, <3>1, AddIrqfdDoes
    <3>2. CASE ~canMask
      BY <1>6, <1>10, <3>2 DEF GuestShape, Steady, Keeps
    <3>3. QED
      BY <3>1, <3>2
  <2>5. GuestShape'
    BY <1>1, <1>2, <1>6, <2>3, <2>4 DEF GuestShape
  <2>6. ASSUME NEW q \in Queues \ {n}
        PROVE  (Assigned(q)' <=> Assigned(q)) /\ (Routed(q)' <=> Routed(q))
    <3>1. q <= n <=> q < n
      BY <1>3, <1>4
    <3>2. HasVector(q)' <=> HasVector(q)
      BY <2>4 DEF HasVector, Steady, Keeps
    <3>3. QED
      BY <1>1, <1>5, <1>8, <1>10, <3>1, <3>2 DEF Routed
  <2>7. ~Routed(n) /\ Routed(n)'
    BY <1>1, <1>3, <1>5, <1>8, <1>10, <2>4 DEF Routed, HasVector
  <2>8. VectorsInv'
    <3>1. \A q \in Queues : gn'[q].vector = gn[q].vector
      BY <2>4 DEF Steady, Keeps
    <3>2. QED
      BY <1>6, <2>1, <2>2, <2>6, <2>7, <3>1, UserAdded DEF GuestInv
  <2>9. QueueOK(n)'
    <3>1. QueueOK(n) /\ Assigned(n) /\ Assigned(n)' /\ ~Heard(n) /\ ~Heard(n)'
      BY <1>5, <1>8, <1>10 DEF GuestInv, QueuesInv, Heard
    <3>2. QED
      BY <1>1, <1>2, <1>5, <2>4, <2>7, <3>1 DEF QueueOK, WantsInterrupt
  <2>10. gn'[n].due = "yes" => InEventfd(n)'
    <3> SUFFICES ASSUME gn'[n].due = "yes" PROVE InEventfd(n)'
      OBVIOUS
    <3>1. gn[n].due = "yes" /\ InEventfd(n)
      BY <1>2, <2>4, SetUpReaches
    <3>2. QED
      BY <1>1, <2>1, <2>3, <2>4, <3>1 DEF InEventfd, HasVector, PendingGrows
  <2>11. QED
    BY <1>1, <1>2, <1>5, <1>8, <1>10, <2>3, <2>4, <2>5, <2>6, <2>8, <2>9, <2>10, OneQueue
<1>11. QED
  BY <1>3, <1>7, <1>9, <1>10 DEF VectorUseNext
(* A route is given back, while the set-up is undone or the backend has      *)
(* stopped.                                                                 *)
LEMMA ReleaseKeeps ==
  ASSUME HostInv, GuestInv, NEW n \in Queues, n = Index, At("undo") \/ At("vector_release"),
         Release(n), UNCHANGED <<active, intr, canMask, irqfds, notifiers>>,
         \A q \in Queues : Assigned(q)',
         \A q \in Queues \ {n} : RoutedNow(q)' <=> RoutedNow(q),
         ~RoutedNow(n)', ~Serving', FlagsInv', UnmaskingInv'
  PROVE  GuestInv'
<1>1. /\ Nth(1).do \in {"undo", "vector_release"} /\ Nth(1).do \in GuestSteps
      /\ Nth(1).n = n /\ ~active
  BY SetUpState DEF GuestSteps
<1>2. n \in Nat /\ n <= n
  BY NQueuesAssumption DEF Queues
<1>3. /\ intr = "irqfd" /\ ~Watched /\ ~Watched' /\ RoutedNow(n)
      /\ \A q \in Queues : Assigned(q)
  BY <1>1, <1>2 DEF GuestInv, FlagsInv, Assigned, Watched, Serving, RoutedNow
<1>4. GuestShape /\ (HasVector(n) => gn[n].vector \in Vectors)
  BY DEF GuestInv, GuestShape, GuestNotifier, HasVector
<1>5. /\ gn' \in [Queues -> GuestNotifier] /\ vec' \in [Vectors -> Vector]
      /\ \A q \in Queues \ {n} : Steady(q)
      /\ gn'[n].vector = gn[n].vector /\ gn'[n].handler = gn[n].handler
      /\ gn'[n].onMasked = gn[n].onMasked /\ gn'[n].masked = gn[n].masked
      /\ gn'[n].ev = gn[n].ev /\ gn'[n].due = gn[n].due
      /\ gn'[n].irqfd <=> gn[n].irqfd /\ (HasVector(n) => ~canMask)
      /\ PendingGrows
  <2>1. CASE ~HasVector(n)
    <3>1. UNCHANGED <<gn, vec>>
      BY <2>1 DEF Release
    <3>2. QED
      BY <1>4, <2>1, <3>1 DEF GuestShape, Steady, Keeps, PendingGrows
  <2>2. CASE HasVector(n)
    <3>0. gn \in [Queues -> GuestNotifier] /\ vec \in [Vectors -> Vector]
      BY <1>4 DEF GuestShape
    <3>1. gn' = [gn EXCEPT ![n].irqfd = @ /\ ~canMask]
          /\ vec' = [vec EXCEPT ![gn[n].vector].users = @ - 1]
      BY <2>2 DEF Release
    <3>2. PICK w \in Vectors : w = gn[n].vector
      BY <1>4, <2>2
    <3>3. vec' \in [Vectors -> Vector] /\ PendingGrows
      BY <3>0, <3>1, <3>2 DEF Vector, PendingGrows
    <3>4. PICK h \in GuestNotifier, m \in BOOLEAN : h = gn[n] /\ m = (gn[n].irqfd /\ ~canMask)
      BY <3>0
    <3>5. gn' = [gn EXCEPT ![n] = [h EXCEPT !.irqfd = m]]
      BY <3>0, <3>1, <3>4, Zenon
    <3>6. PICK k \in GuestNotifier :
            /\ k = [h EXCEPT !.irqfd = m]
            /\ k.irqfd = m /\ k.ev = h.ev /\ k.handler = h.handler /\ k.onMasked = h.onMasked
            /\ k.masked = h.masked /\ k.vector = h.vector /\ k.due = h.due
      <4>1. [h EXCEPT !.irqfd = m] \in GuestNotifier
        BY DEF GuestNotifier
      <4>2. QED
        BY <4>1 DEF GuestNotifier
    <3>7. gn' \in [Queues -> GuestNotifier] /\ gn'[n] = k
          /\ \A q \in Queues \ {n} : gn'[q] = gn[q]
      BY <3>0, <3>5, <3>6
    <3>8. \A q \in Queues \ {n} : Steady(q)
      BY <3>7 DEF Steady, Keeps
    <3>9. QED
      BY <2>2, <3>3, <3>4, <3>6, <3>7, <3>8
  <2>3. QED
    BY <2>1, <2>2
<1>6. GuestShape'
  BY <1>4, <1>5 DEF GuestShape
<1>7. \A q \in Queues : gn'[q].vector = gn[q].vector
  BY <1>5 DEF Steady, Keeps
<1>8. /\ \A q \in Queues \ {n} : Routed(q)' <=> Routed(q)
      /\ ~Routed(n)' /\ (Routed(n) <=> HasVector(n))
  BY <1>3, <1>7 DEF Routed, HasVector
<1>9. VectorsInv'
  <2>1. CASE ~HasVector(n)
    <3>1. UNCHANGED vec
      BY <2>1 DEF Release
    <3>2. QED
      BY <1>7, <1>8, <2>1, <3>1, SameVectors DEF GuestInv
  <2>2. CASE HasVector(n)
    <3>1. PICK w \in Vectors : w = gn[n].vector
      BY <1>4, <2>2
    <3>2. vec' = [vec EXCEPT ![w].users = @ - 1]
      BY <2>2, <3>1 DEF Release
    <3>3. QED
      BY <1>4, <1>7, <1>8, <2>2, <3>1, <3>2, UserGone DEF GuestInv
  <2>3. QED
    BY <2>1, <2>2
<1>10. QueueOK(n)'
  <2>1. QueueOK(n) /\ Assigned(n) /\ Assigned(n)' /\ ~Heard(n) /\ ~Heard(n)'
    BY <1>3 DEF GuestInv, QueuesInv, Heard
  <2>2. QED
    BY <1>1, <1>3, <1>5, <1>8, <2>1 DEF QueueOK, WantsInterrupt
<1>11. gn'[n].due = "yes" => InEventfd(n)'
  <2>1. gn'[n].due = "yes" => InEventfd(n)
    BY <1>1, <1>5, SetUpReaches
  <2>2. QED
    BY <1>4, <1>5, <2>1 DEF InEventfd, HasVector, PendingGrows
<1>12. QED
  BY <1>1, <1>3, <1>5, <1>6, <1>8, <1>9, <1>10, <1>11, OneQueue

(* The undo of kvm_virtio_pci_vector_use. *)
LEMMA VectorUndoKeepsGuest ==
  ASSUME HostInv, GuestInv, VectorUndo, UNCHANGED active
  PROVE  GuestInv'
<1>1. At("undo") /\ Release(Index) /\ Then(Undo(Index))
      /\ UNCHANGED <<intr, canMask, irqfds, notifiers>>
  BY DEF VectorUndo
<1>2. todo # <<>> /\ todo \in Seq(AnyStep) /\ Index \in Queues
      /\ Nth(1).do = "undo" /\ Nth(1).do \in GuestSteps /\ Nth(1).n = Index /\ ~active
  BY <1>1, SetUpState DEF GuestSteps, CountedSteps
<1>3. PICK n \in Queues : n = Index /\ n \in Nat /\ n >= 1 /\ n <= NQueues
  BY <1>2, NQueuesAssumption DEF Queues
<1>4. \A q \in Queues : q \in Nat /\ q >= 1 /\ q <= NQueues
  BY NQueuesAssumption DEF Queues
<1>5. intr' = "irqfd" /\ ~notifiers' /\ (irqfds' => intr' = "irqfd")
  BY <1>1, <1>2 DEF GuestInv, FlagsInv, Watched, Serving
<1>6. Release(n) /\ n = Index /\ Then(Undo(n)) /\ ~active'
  BY <1>1, <1>2, <1>3
<1>7. /\ \A q \in Queues : Assigned(q)' /\ (RoutedNow(q)' <=> q < n)
      /\ ~Serving' /\ FlagsInv' /\ UnmaskingInv'
  BY <1>2, <1>5, <1>6, UndoNext
<1>8. ~RoutedNow(n)'
  BY <1>3, <1>7
<1>9. ASSUME NEW q \in Queues \ {n}
      PROVE  RoutedNow(q)' <=> RoutedNow(q)
  <2>1. RoutedNow(q) <=> q <= n
    BY <1>2, <1>3 DEF RoutedNow
  <2>2. q <= n <=> q < n
    BY <1>3, <1>4
  <2>3. QED
    BY <1>7, <2>1, <2>2
<1>10. QED
  BY <1>1, <1>6, <1>7, <1>8, <1>9, ReleaseKeeps

(* kvm_virtio_pci_vector_release *)
LEMMA VectorReleaseKeepsGuest ==
  ASSUME HostInv, GuestInv, VectorReleaseNext, UNCHANGED active
  PROVE  GuestInv'
<1>1. At("vector_release") /\ Release(Index) /\ Then(Up("vector_release", Index + 1, <<>>))
      /\ UNCHANGED <<intr, canMask, irqfds, notifiers>>
  BY DEF VectorReleaseNext
<1>2. todo # <<>> /\ todo \in Seq(AnyStep) /\ Index \in Queues /\ After(Nth(1), Nth(2))
      /\ Nth(1).do = "vector_release" /\ Nth(1).do \in GuestSteps /\ Nth(1).n = Index
      /\ ~active
  BY <1>1, SetUpState DEF GuestSteps, CountedSteps
<1>3. PICK n \in Queues : n = Index /\ n \in Nat /\ n >= 1 /\ n <= NQueues
  BY <1>2, NQueuesAssumption DEF Queues
<1>4. \A q \in Queues : q \in Nat /\ q >= 1 /\ q <= NQueues
  BY NQueuesAssumption DEF Queues
<1>5. intr' = "irqfd" /\ ~notifiers' /\ (irqfds' => intr' = "irqfd")
  BY <1>1, <1>2 DEF GuestInv, FlagsInv, Watched, Serving
<1>6. /\ \A q \in Queues : Assigned(q)' /\ (RoutedNow(q)' <=> q >= n + 1)
      /\ Nth(1)'.do \in {"vector_release", "unset_error", "unset_guest"}
  <2>1. CASE n + 1 <= NQueues
    <3>1. Step("vector_release", n + 1) \in AnyStep
      BY <1>3, <2>1, NQueuesAssumption DEF Queues, AnyStep, CountedSteps, Step
    <3>2. Then(<<Step("vector_release", n + 1)>>)
      BY <1>1, <1>3, <2>1 DEF Up
    <3>3. Nth(1)' = Step("vector_release", n + 1)
      BY <1>2, <3>1, <3>2, NextOne
    <3>4. Nth(1)'.do = "vector_release" /\ Nth(1)'.n = n + 1
      BY <3>3 DEF Step
    <3>5. QED
      BY <1>2, <3>4 DEF Assigned, RoutedNow
  <2>2. CASE ~(n + 1 <= NQueues)
    <3>1. Then(<<>>)
      BY <1>1, <1>3, <2>2 DEF Up
    <3>2. Nth(1)' = Nth(2)
      BY <1>2, <3>1, NextNone
    <3>3. \/ Nth(2).do = "unset_error" /\ Nth(2).n = NQueues
          \/ Nth(2).do = "unset_guest" /\ Nth(2).n = 1
      BY <1>2 DEF After, Unfinished, ClosingSteps, TakingSteps, Step
    <3>4. \A q \in Queues : ~(q >= n + 1) /\ q >= 1 /\ q <= NQueues
      BY <1>3, <1>4, <2>2, NQueuesAssumption
    <3>5. QED
      BY <1>2, <3>2, <3>3, <3>4 DEF Assigned, RoutedNow
  <2>3. QED
    BY <2>1, <2>2
<1>7. ~Serving' /\ UnmaskingInv'
  BY <1>2, <1>6 DEF Serving, UnmaskingInv, UnmaskingSteps
<1>8. FlagsInv'
  BY <1>5, <1>6, <1>7, FlagsRouting
<1>9. ~RoutedNow(n)'
  BY <1>3, <1>6
<1>10. ASSUME NEW q \in Queues \ {n}
       PROVE  RoutedNow(q)' <=> RoutedNow(q)
  <2>1. RoutedNow(q) <=> q >= n
    BY <1>2, <1>3 DEF RoutedNow
  <2>2. q >= n <=> q >= n + 1
    BY <1>3, <1>4
  <2>3. QED
    BY <1>6, <2>1, <2>2
<1>11. Release(n) /\ n = Index
  BY <1>1, <1>3
<1>12. QED
  BY <1>1, <1>6, <1>7, <1>8, <1>9, <1>10, <1>11, ReleaseKeeps
(* The way of a queue's signals is set, and nothing else of its notifier.    *)
SetsPath(k, h, irqfd, onMasked) ==
  /\ k \in GuestNotifier
  /\ k.ev = h.ev /\ k.handler = h.handler /\ k.masked = h.masked
  /\ k.due = h.due /\ k.vector = h.vector
  /\ k.irqfd = irqfd /\ k.onMasked = onMasked

(* Setting irqfd or onMasked does only that. *)
LEMMA PathSet ==
  ASSUME NEW h \in GuestNotifier
  PROVE  /\ SetsPath(h, h, h.irqfd, h.onMasked)
         /\ \A b \in BOOLEAN : /\ SetsPath([h EXCEPT !.irqfd = b], h, b, h.onMasked)
                               /\ SetsPath([h EXCEPT !.onMasked = b], h, h.irqfd, b)
BY DEF GuestNotifier, SetsPath

(* A step for all queues, before or after the backend runs. *)
LEMMA AllQueues ==
  ASSUME GuestInv, ~active, UNCHANGED <<active, intr, canMask, vec>>,
         Nth(1).do \in GuestSteps, notifiers' \in BOOLEAN, irqfds' \in BOOLEAN,
         gn' \in [Queues -> GuestNotifier], FlagsInv', UnmaskingInv',
         \A q \in Queues : /\ SetsPath(gn'[q], gn[q], gn'[q].irqfd, gn'[q].onMasked)
                           /\ Routed(q)' <=> Routed(q)
                           /\ QueueOK(q)'
  PROVE  GuestInv'
<1>1. GuestShape'
  BY DEF GuestInv, GuestShape
<1>2. \A q \in Queues : gn'[q].vector = gn[q].vector
  BY DEF SetsPath
<1>3. VectorsInv'
  BY <1>2, SameVectors DEF GuestInv
<1>4. DueInv'
  <2> SUFFICES ASSUME NEW q \in Queues, gn'[q].due = "yes" PROVE Reaches(q)'
    BY DEF DueInv
  <2>1. gn[q].due = "yes" /\ InEventfd(q)
    BY SetUpReaches DEF SetsPath
  <2>2. QED
    BY <2>1 DEF Reaches, InEventfd, SetsPath, HasVector
<1>5. QED
  BY <1>1, <1>3, <1>4 DEF GuestInv, QueuesInv

(* msix_set_vector_notifiers *)
LEMMA SetVectorNotifiersKeepsGuest ==
  ASSUME HostInv, GuestInv, SetVectorNotifiers, UNCHANGED active
  PROVE  GuestInv'
<1>1. At("set_vector_notifiers") /\ UNCHANGED <<intr, canMask, vec, irqfds>>
  BY DEF SetVectorNotifiers
<1>2. todo # <<>> /\ todo \in Seq(AnyStep) /\ Nth(1).do = "set_vector_notifiers"
      /\ Nth(1).do \in GuestSteps /\ ~active
  BY <1>1, SetUpState DEF GuestSteps, SetGuestSteps
<1>3. /\ intr = "irqfd" \/ canMask
      /\ intr = "irqfd" => irqfds
      /\ irqfds => intr = "irqfd"
      /\ ~notifiers /\ ~Serving /\ ~Watched
      /\ \A q \in Queues : Assigned(q) /\ RoutedNow(q)
  BY <1>2 DEF GuestInv, FlagsInv, Watched, Serving, Assigned, RoutedNow
<1>4. GuestShape
  BY DEF GuestInv
<1>5. \A q \in Queues : q \in Nat /\ q >= 1 /\ q <= NQueues
  BY NQueuesAssumption DEF Queues
<1>6. CASE /\ notifiers' = TRUE
           /\ gn' = [q \in Queues |->
                       IF intr = "intx" \/ ~Unmasked(q) THEN gn[q]
                       ELSE IF canMask THEN [gn[q] EXCEPT !.onMasked = FALSE]
                       ELSE [gn[q] EXCEPT !.irqfd = TRUE]]
           /\ Then(<<Step("backend_start", 0)>>)
  <2>1. Step("backend_start", 0) \in AnyStep
    BY DEF AnyStep, PlainSteps, Step
  <2>2. Nth(1)' = Step("backend_start", 0)
    BY <1>2, <1>6, <2>1, NextOne
  <2>3. Nth(1)'.do = "backend_start"
    BY <2>2 DEF Step
  <2>4. /\ Serving' /\ Watched' /\ UnmaskingInv'
        /\ \A q \in Queues : Assigned(q)' /\ RoutedNow(q)' /\ ~Waits(q)'
    BY <1>1, <1>3, <2>3
       DEF Serving, Watched, UnmaskingInv, UnmaskingSteps, Assigned, RoutedNow, Waits
  <2>5. FlagsInv'
    BY <1>1, <1>3, <1>6, <2>3, <2>4 DEF FlagsInv
  <2>6. ASSUME NEW q \in Queues
        PROVE  SetsPath(gn'[q], gn[q],
                        gn[q].irqfd \/ (intr # "intx" /\ Unmasked(q) /\ ~canMask),
                        gn[q].onMasked /\ ~(intr # "intx" /\ Unmasked(q) /\ canMask))
    <3>1. PICK h \in GuestNotifier : h = gn[q]
      BY <1>4 DEF GuestShape
    <3>2. h.irqfd \in BOOLEAN /\ h.onMasked \in BOOLEAN
      BY DEF GuestNotifier
    <3>3. CASE intr = "intx" \/ ~Unmasked(q)
      <4>1. gn'[q] = h
        BY <1>6, <3>1, <3>3
      <4>2. SetsPath(h, h, h.irqfd, h.onMasked)
        BY PathSet
      <4>3. QED
        BY <3>1, <3>2, <3>3, <4>1, <4>2 DEF SetsPath
    <3>4. CASE ~(intr = "intx" \/ ~Unmasked(q)) /\ canMask
      <4>1. gn'[q] = [h EXCEPT !.onMasked = FALSE]
        BY <1>6, <3>1, <3>4
      <4>2. SetsPath([h EXCEPT !.onMasked = FALSE], h, h.irqfd, FALSE)
        BY PathSet
      <4>3. QED
        BY <3>1, <3>2, <3>4, <4>1, <4>2 DEF SetsPath
    <3>5. CASE ~(intr = "intx" \/ ~Unmasked(q)) /\ ~canMask
      <4>1. gn'[q] = [h EXCEPT !.irqfd = TRUE]
        BY <1>6, <3>1, <3>5
      <4>2. SetsPath([h EXCEPT !.irqfd = TRUE], h, TRUE, h.onMasked)
        BY PathSet
      <4>3. QED
        BY <3>1, <3>2, <3>5, <4>1, <4>2 DEF SetsPath
    <3>6. QED
      BY <3>3, <3>4, <3>5
  <2>7. gn' \in [Queues -> GuestNotifier]
    <3>1. gn' = [q \in Queues |-> gn'[q]]
      BY <1>6
    <3>2. QED
      BY <2>6, <3>1 DEF SetsPath
  <2>8. \A q \in Queues : HasVector(q)' = HasVector(q) /\ Unmasked(q)' = Unmasked(q)
    BY <1>1, <2>6 DEF SetsPath, HasVector, Unmasked
  <2>9. \A q \in Queues : Routed(q)' <=> Routed(q)
    BY <1>1, <1>3, <2>4, <2>8 DEF Routed
  <2>10. ASSUME NEW q \in Queues
         PROVE  QueueOK(q)'
    <3>1. QueueOK(q) /\ ~Heard(q) /\ (Heard(q)' <=> intr # "intx" /\ Unmasked(q))
      BY <1>1, <1>3, <2>4, <2>8 DEF GuestInv, QueuesInv, Heard
    <3>2. Assigned(q) /\ Assigned(q)' /\ (Routed(q)' <=> Routed(q))
      BY <1>3, <2>4, <2>9
    <3>3. QED
      BY <1>1, <1>2, <2>6, <3>1, <3>2 DEF QueueOK, WantsInterrupt, SetsPath
  <2>11. \A q \in Queues : SetsPath(gn'[q], gn[q], gn'[q].irqfd, gn'[q].onMasked)
    BY <2>6 DEF SetsPath
  <2>12. QED
    BY <1>1, <1>2, <1>4, <1>6, <2>4, <2>5, <2>7, <2>9, <2>10, <2>11, AllQueues DEF GuestShape
<1>7. CASE /\ intr = "irqfd" /\ ~canMask
           /\ \E n \in Queues, done \in SUBSET Vectors :
                /\ Unmasked(n)
                /\ gn' = [q \in Queues |->
                            [gn[q] EXCEPT !.irqfd = /\ @ \/ q \in UnmaskedBefore(n, done)
                                                    /\ q \notin MaskedAgain(n, done)]]
           /\ Then(<<Step("vector_release", 1)>> \o Failed(NQueues))
           /\ UNCHANGED notifiers
  <2>1. gn' = gn
    <3>1. PICK n \in Queues, done \in SUBSET Vectors :
            /\ Unmasked(n)
            /\ gn' = [q \in Queues |->
                        [gn[q] EXCEPT !.irqfd = /\ @ \/ q \in UnmaskedBefore(n, done)
                                                /\ q \notin MaskedAgain(n, done)]]
      BY <1>7
    <3>2. ASSUME NEW q \in Queues
          PROVE  gn'[q] = gn[q]
      <4>1. ~gn[q].irqfd
        BY <1>3, <1>7 DEF GuestInv, QueuesInv, QueueOK, Heard
      <4>2. q \in UnmaskedBefore(n, done) => q \in MaskedAgain(n, done)
        BY <1>5 DEF UnmaskedBefore, MaskedAgain
      <4>3. PICK h \in GuestNotifier : h = gn[q]
        BY <1>4 DEF GuestShape
      <4>4. gn'[q] = [h EXCEPT !.irqfd = FALSE]
        BY <3>1, <4>1, <4>2, <4>3
      <4>5. h.irqfd = FALSE
        BY <4>1, <4>3 DEF GuestNotifier
      <4>6. [h EXCEPT !.irqfd = FALSE] = h
        BY <4>5 DEF GuestNotifier
      <4>7. QED
        BY <4>3, <4>4, <4>6
    <3>3. gn' = [q \in Queues |-> gn'[q]]
      BY <3>1
    <3>4. gn = [q \in Queues |-> gn[q]]
      BY <1>4 DEF GuestShape
    <3>5. QED
      BY <3>2, <3>3, <3>4
  <2>2. UNCHANGED guestVars
    BY <1>1, <1>7, <2>1 DEF guestVars
  <2>3. \A q \in Queues : HasVector(q)' <=> HasVector(q)
    BY <2>1 DEF HasVector
  <2>4. /\ Step("vector_release", 1) \in AnyStep
        /\ Step("unset_error", NQueues) \in AnyStep
    BY NQueuesAssumption DEF AnyStep, CountedSteps, Step, Queues
  <2>5. Then(<<Step("vector_release", 1), Step("unset_error", NQueues)>>)
    <3>1. Failed(NQueues) = <<Step("unset_error", NQueues)>>
      BY NQueuesAssumption DEF Failed, Down
    <3>2. \A a, b : <<a>> \o <<b>> = <<a, b>>
      BY Lists
    <3>3. Then(<<Step("vector_release", 1)>> \o <<Step("unset_error", NQueues)>>)
      BY <1>7, <3>1
    <3>4. QED
      BY <2>4, <3>2, <3>3
  <2>6. Nth(1)' = Step("vector_release", 1)
    BY <1>2, <2>4, <2>5, NextTwo
  <2>7. Nth(1)'.do = "vector_release" /\ Nth(1)'.n = 1
    BY <2>6 DEF Step
  <2>8. \A q \in Queues : Assigned(q)' /\ RoutedNow(q)'
    BY <1>5, <2>7 DEF Assigned, RoutedNow
  <2>9. \A q \in Queues : Routed(q)' <=> Routed(q)
    BY <1>1, <1>3, <2>3, <2>8 DEF Routed
  <2>10. ~Serving' /\ UnmaskingInv' /\ (\A q : ~Waits(q)' /\ ~Tests(q)')
         /\ (\A v : ~Fires(v)')
    BY <1>2, <2>7 DEF Serving, UnmaskingInv, UnmaskingSteps, Waits, Tests, Fires
  <2>11. FlagsInv'
    BY <1>1, <1>3, <1>7, <2>7, <2>10, FlagsRouting
  <2>12. SamePhase
    BY <1>2, <1>3, <2>8, <2>9, <2>10, PhaseSetUp DEF SamePhase
  <2>13. QED
    BY <1>2, <1>4, <2>2, <2>10, <2>11, <2>12, Frame DEF GuestShape
<1>8. QED
  BY <1>6, <1>7 DEF SetVectorNotifiers

(* msix_unset_vector_notifiers *)
LEMMA UnsetVectorNotifiersKeepsGuest ==
  ASSUME HostInv, GuestInv, UnsetVectorNotifiers, UNCHANGED active
  PROVE  GuestInv'
<1>1. At("unset_vector_notifiers") /\ UNCHANGED <<intr, canMask, vec>> /\ Then(<<>>)
      /\ notifiers' = FALSE /\ irqfds' = FALSE
      /\ gn' = [q \in Queues |->
                  IF intr # "intx" /\ Unmasked(q) THEN Masking(q, gn)[q] ELSE gn[q]]
  BY DEF UnsetVectorNotifiers
<1>2. todo # <<>> /\ todo \in Seq(AnyStep) /\ Nth(1).do = "unset_vector_notifiers"
      /\ Nth(1).do \in GuestSteps /\ ~active
  BY <1>1, SetUpState DEF GuestSteps
<1>3. /\ intr = "irqfd" \/ canMask
      /\ Serving /\ Watched
      /\ \A q \in Queues : Assigned(q) /\ RoutedNow(q) /\ ~Waits(q)
      /\ Nth(2) = IF intr = "irqfd" THEN Step("vector_release", 1) ELSE Step("unset_guest", 1)
  BY <1>2 DEF GuestInv, FlagsInv, Watched, Serving, Assigned, RoutedNow, Waits
<1>4. GuestShape
  BY DEF GuestInv
<1>5. \A q \in Queues : q \in Nat /\ q >= 1 /\ q <= NQueues
  BY NQueuesAssumption DEF Queues
<1>6. \/ intr = "irqfd" /\ Nth(1)'.do = "vector_release" /\ Nth(1)'.n = 1
      \/ intr # "irqfd" /\ Nth(1)'.do = "unset_guest" /\ Nth(1)'.n = 1
  <2>1. Nth(1)' = Nth(2)
    BY <1>1, <1>2, NextNone
  <2>2. QED
    BY <1>3, <2>1 DEF Step
<1>7. /\ \A q \in Queues : Assigned(q)' /\ (intr = "irqfd" => RoutedNow(q)')
      /\ ~Serving' /\ ~Watched' /\ UnmaskingInv'
  BY <1>2, <1>5, <1>6
     DEF Assigned, RoutedNow, Serving, Watched, UnmaskingInv, UnmaskingSteps
<1>8. FlagsInv'
  BY <1>1, <1>6, <1>7 DEF FlagsInv
<1>9. ASSUME NEW q \in Queues
      PROVE  SetsPath(gn'[q], gn[q],
                      gn[q].irqfd /\ ~(intr # "intx" /\ Unmasked(q) /\ ~canMask),
                      gn[q].onMasked \/ (intr # "intx" /\ Unmasked(q) /\ canMask))
  <2>1. PICK h \in GuestNotifier : h = gn[q]
    BY <1>4 DEF GuestShape
  <2>2. h.irqfd \in BOOLEAN /\ h.onMasked \in BOOLEAN
    BY DEF GuestNotifier
  <2>3. CASE ~(intr # "intx" /\ Unmasked(q))
    <3>1. gn'[q] = h
      BY <1>1, <2>1, <2>3
    <3>2. SetsPath(h, h, h.irqfd, h.onMasked)
      BY PathSet
    <3>3. QED
      BY <2>1, <2>2, <2>3, <3>1, <3>2 DEF SetsPath
  <2>4. CASE intr # "intx" /\ Unmasked(q) /\ canMask
    <3>1. gn'[q] = [h EXCEPT !.onMasked = TRUE]
      <4>1. gn'[q] = [gn EXCEPT ![q].onMasked = TRUE][q]
        BY <1>1, <2>4 DEF Masking
      <4>2. QED
        BY <1>4, <2>1, <4>1 DEF GuestShape
    <3>2. SetsPath([h EXCEPT !.onMasked = TRUE], h, h.irqfd, TRUE)
      BY PathSet
    <3>3. QED
      BY <2>1, <2>2, <2>4, <3>1, <3>2 DEF SetsPath
  <2>5. CASE intr # "intx" /\ Unmasked(q) /\ ~canMask
    <3>1. gn'[q] = [h EXCEPT !.irqfd = FALSE]
      <4>1. gn'[q] = [gn EXCEPT ![q].irqfd = FALSE][q]
        BY <1>1, <2>5 DEF Masking
      <4>2. QED
        BY <1>4, <2>1, <4>1 DEF GuestShape
    <3>2. SetsPath([h EXCEPT !.irqfd = FALSE], h, FALSE, h.onMasked)
      BY PathSet
    <3>3. QED
      BY <2>1, <2>2, <2>5, <3>1, <3>2 DEF SetsPath
  <2>6. QED
    BY <2>3, <2>4, <2>5
<1>10. gn' \in [Queues -> GuestNotifier]
  <2>1. gn' = [q \in Queues |-> gn'[q]]
    BY <1>1
  <2>2. QED
    BY <1>9, <2>1 DEF SetsPath
<1>11. \A q \in Queues : HasVector(q)' = HasVector(q) /\ Unmasked(q)' = Unmasked(q)
  BY <1>1, <1>9 DEF SetsPath, HasVector, Unmasked
<1>12. \A q \in Queues : Routed(q)' <=> Routed(q)
  BY <1>1, <1>3, <1>7, <1>11 DEF Routed
<1>13. ASSUME NEW q \in Queues
       PROVE  QueueOK(q)'
  <2>1. QueueOK(q) /\ ~Heard(q)' /\ (Heard(q) <=> intr # "intx" /\ Unmasked(q))
    BY <1>3, <1>7 DEF GuestInv, QueuesInv, Heard
  <2>2. Assigned(q) /\ Assigned(q)' /\ (Routed(q)' <=> Routed(q))
    BY <1>3, <1>7, <1>12
  <2>3. QED
    BY <1>1, <1>2, <1>9, <2>1, <2>2 DEF QueueOK, WantsInterrupt, SetsPath
<1>14. \A q \in Queues : SetsPath(gn'[q], gn[q], gn'[q].irqfd, gn'[q].onMasked)
  BY <1>9 DEF SetsPath
<1>15. QED
  BY <1>1, <1>2, <1>4, <1>7, <1>8, <1>10, <1>12, <1>13, <1>14, AllQueues
(* What is next when a backend has stopped. *)
LEMMA BackendStopNext ==
  ASSUME todo \in Seq(AnyStep), todo # <<>>,
         Then(UnsetGuestNotifiers \o <<Step("give", NQueues)>>)
  PROVE  IF irqfds \/ canMask
         THEN /\ Nth(1)' = Step("unset_vector_notifiers", 0)
              /\ Nth(2)' = IF irqfds THEN Step("vector_release", 1) ELSE Step("unset_guest", 1)
         ELSE Nth(1)' = Step("unset_guest", 1)
<1>1. PICK a, b, c, d : /\ a = Step("unset_vector_notifiers", 0)
                        /\ b = Step("vector_release", 1)
                        /\ c = Step("unset_guest", 1)
                        /\ d = Step("give", NQueues)
  OBVIOUS
<1>2. {a, b, c, d} \subseteq AnyStep
  BY <1>1, NQueuesAssumption DEF AnyStep, CountedSteps, PlainSteps, Step, Queues
<1>3. /\ irqfds => Then(<<a, b, c, d>>)
      /\ ~irqfds /\ canMask => Then(<<a, c, d>>)
      /\ ~irqfds /\ ~canMask => Then(<<c, d>>)
  BY <1>1, UnsetLists
<1>4. CASE irqfds
  <2> DEFINE list == <<a, b, c, d>>
  <2>1. list \in Seq(AnyStep) /\ Len(list) = 4 /\ list[1] = a /\ list[2] = b /\ Then(list)
    BY <1>2, <1>3, <1>4
  <2> HIDE DEF list
  <2>2. Nth(1)' = list[1] /\ Nth(2)' = list[2]
    <3>1. 1 \in 1..4 /\ 2 \in 1..4
      OBVIOUS
    <3>2. QED
      BY <2>1, <3>1, NextSteps
  <2>3. QED
    BY <1>1, <1>4, <2>1, <2>2
<1>5. CASE ~irqfds /\ canMask
  <2> DEFINE list == <<a, c, d>>
  <2>1. list \in Seq(AnyStep) /\ Len(list) = 3 /\ list[1] = a /\ list[2] = c /\ Then(list)
    BY <1>2, <1>3, <1>5
  <2> HIDE DEF list
  <2>2. Nth(1)' = list[1] /\ Nth(2)' = list[2]
    <3>1. 1 \in 1..3 /\ 2 \in 1..3
      OBVIOUS
    <3>2. QED
      BY <2>1, <3>1, NextSteps
  <2>3. QED
    BY <1>1, <1>5, <2>1, <2>2
<1>6. CASE ~irqfds /\ ~canMask
  <2>1. Then(<<c, d>>) /\ c \in AnyStep /\ d \in AnyStep
    BY <1>2, <1>3, <1>6
  <2>2. Nth(1)' = c
    BY <2>1, NextTwo
  <2>3. QED
    BY <1>1, <1>6, <2>2
<1>7. QED
  BY <1>4, <1>5, <1>6

(* The backend stops: what was set up for it is to be taken down. *)
LEMMA BackendStopKeepsGuest ==
  ASSUME HostInv, GuestInv, BackendStop
  PROVE  GuestInv'
<1>1. /\ At("backend_stop") /\ active' = FALSE
      /\ gn' = [q \in Queues |->
                  [gn[q] EXCEPT !.masked = FALSE,
                                !.due = IF @ = "yes" /\ OnlyMasked(q) THEN "lost" ELSE @]]
      /\ Then(UnsetGuestNotifiers \o <<Step("give", NQueues)>>)
      /\ UNCHANGED <<intr, canMask, vec, irqfds, notifiers>>
  BY DEF BackendStop
<1>2. todo # <<>> /\ todo \in Seq(AnyStep) /\ Nth(1).do = "backend_stop" /\ Nth(1) = todo[1]
      /\ Elsewhere(Nth(1))
  <2>1. TodoInv
    BY DEF HostInv
  <2>2. At("backend_stop")
    BY <1>1
  <2>3. todo # <<>> /\ Nth(1).do = "backend_stop" /\ Elsewhere(Nth(1))
    BY <2>1, <2>2, StepNow DEF GuestSteps, SetGuestSteps, UnmaskingSteps
  <2>4. QED
    BY <2>1, <2>3, FirstNth
<1>3. active
  BY <1>2 DEF HostInv, HeadInv, Finds
<1>4. /\ Serving /\ \A q \in Queues : Assigned(q) /\ RoutedNow(q) /\ ~Waits(q) /\ ~Tests(q)
      /\ \A v : ~Fires(v)
  BY <1>2, <1>3, PhaseElsewhere
<1>5. /\ notifiers <=> Watched
      /\ irqfds <=> intr = "irqfd"
  BY <1>4 DEF GuestInv, FlagsInv
<1>6. \A q \in Queues : q \in Nat /\ q >= 1 /\ q <= NQueues
  BY NQueuesAssumption DEF Queues
<1>7. /\ \A q \in Queues : /\ Assigned(q)'
                           /\ RoutedNow(q)' \/ intr # "irqfd"
                           /\ ~Waits(q)'
      /\ Watched' <=> Watched
      /\ FlagsInv' /\ UnmaskingInv'
  <2>1. CASE irqfds \/ canMask
    <3>1. /\ Nth(1)' = Step("unset_vector_notifiers", 0)
          /\ Nth(2)' = IF irqfds THEN Step("vector_release", 1) ELSE Step("unset_guest", 1)
      BY <1>1, <1>2, <2>1, BackendStopNext
    <3>2. Nth(1)'.do = "unset_vector_notifiers"
      BY <3>1 DEF Step
    <3>3. Serving' /\ UnmaskingInv' /\ \A q \in Queues : Assigned(q)' /\ RoutedNow(q)' /\ ~Waits(q)'
      BY <3>2 DEF Serving, UnmaskingInv, UnmaskingSteps, Assigned, RoutedNow, Waits
    <3>4. Watched' <=> Watched
      BY <1>1, <1>4, <3>3, ZenonT(40) DEF Watched
    <3>5. FlagsInv'
      BY <1>1, <1>5, <2>1, <3>1, <3>2, <3>4 DEF FlagsInv
    <3>6. QED
      BY <3>3, <3>4, <3>5
  <2>2. CASE ~(irqfds \/ canMask)
    <3>1. Nth(1)' = Step("unset_guest", 1)
      BY <1>1, <1>2, <2>2, BackendStopNext
    <3>2. Nth(1)'.do = "unset_guest" /\ Nth(1)'.n = 1
      BY <3>1 DEF Step
    <3>3. ~Serving' /\ UnmaskingInv' /\ \A q \in Queues : Assigned(q)' /\ ~Waits(q)'
      BY <1>1, <1>6, <3>2 DEF Serving, UnmaskingInv, UnmaskingSteps, Assigned, Waits
    <3>4. ~Watched' /\ ~Watched /\ intr # "irqfd"
      BY <1>5, <2>2, <3>3 DEF Watched
    <3>5. FlagsInv'
      BY <1>1, <1>5, <3>2, <3>3, <3>4, FlagsFailed
    <3>6. QED
      BY <3>3, <3>4, <3>5
  <2>3. QED
    BY <2>1, <2>2
<1>8. ASSUME NEW q \in Queues
      PROVE  /\ gn'[q] \in GuestNotifier /\ Keeps(q) /\ gn'[q].ev = gn[q].ev
             /\ ~gn'[q].masked
             /\ gn'[q].due = "yes" => gn[q].due = "yes" /\ ~OnlyMasked(q)
  <2>1. PICK h \in GuestNotifier, d \in {"no", "yes", "lost"} :
          h = gn[q] /\ d = IF gn[q].due = "yes" /\ OnlyMasked(q) THEN "lost" ELSE gn[q].due
    BY DEF GuestInv, GuestShape, GuestNotifier
  <2>2. gn'[q] = [h EXCEPT !.masked = FALSE, !.due = d]
    BY <1>1, <2>1
  <2>3. PICK k \in GuestNotifier :
          /\ k = [h EXCEPT !.masked = FALSE, !.due = d]
          /\ k.due = d /\ ~k.masked /\ k.ev = h.ev /\ k.handler = h.handler
          /\ k.irqfd = h.irqfd /\ k.onMasked = h.onMasked /\ k.vector = h.vector
    <3>1. [h EXCEPT !.masked = FALSE, !.due = d] \in GuestNotifier
      BY DEF GuestNotifier
    <3>2. QED
      BY <3>1, ZenonT(40) DEF GuestNotifier
  <2>4. QED
    BY <2>1, <2>2, <2>3 DEF Keeps
<1>9. GuestShape'
  <2>1. gn' = [q \in Queues |-> gn'[q]]
    BY <1>1, ZenonT(40)
  <2>2. gn' \in [Queues -> GuestNotifier]
    BY <1>8, <2>1, SMTT(30)
  <2>3. QED
    BY <1>1, <2>2 DEF GuestInv, GuestShape
<1>10. \A q \in Queues : /\ Routed(q)' <=> Routed(q)
                         /\ HasVector(q)' <=> HasVector(q)
                         /\ Heard(q)' <=> Heard(q)
  <2>1. \A q \in Queues : HasVector(q)' = HasVector(q) /\ Unmasked(q)' = Unmasked(q)
    BY <1>1, <1>8, ZenonT(40) DEF HasVector, Unmasked, Keeps
  <2>2. QED
    BY <1>1, <1>4, <1>7, <2>1, ZenonT(40) DEF Routed, Heard
<1>11. QueuesInv'
  <2> SUFFICES ASSUME NEW q \in Queues PROVE QueueOK(q)'
    BY DEF QueuesInv
  <2>1. QueueOK(q) /\ (Assigned(q)' <=> Assigned(q)) /\ (Routed(q)' <=> Routed(q))
        /\ (Heard(q)' <=> Heard(q))
    BY <1>4, <1>7, <1>10 DEF GuestInv, QueuesInv
  <2>2. QED
    BY <1>1, <1>8, <2>1, QueueKept
<1>12. VectorsInv'
  <2>1. \A q \in Queues : gn'[q].vector = gn[q].vector /\ (Routed(q)' <=> Routed(q))
    BY <1>8, <1>10 DEF Keeps
  <2>2. QED
    BY <1>1, <2>1, SameVectors DEF GuestInv
<1>13. DueInv'
  <2> SUFFICES ASSUME NEW q \in Queues, gn'[q].due = "yes" PROVE Reaches(q)'
    BY SMTT(30) DEF DueInv
  <2>1. Reaches(q) /\ ~OnlyMasked(q) /\ ~Waits(q) /\ ~Tests(q) /\ (\A v : ~Fires(v))
    BY <1>4, <1>8, SMTT(30) DEF GuestInv, DueInv
  <2>2. InEventfd(q)
    BY <2>1, SMTT(30) DEF InEventfd, Reaches, OnlyMasked
  <2>3. InEventfd(q)'
    <3>1. gn'[q].ev = gn[q].ev /\ gn'[q].handler = gn[q].handler /\ gn'[q].vector = gn[q].vector
      BY <1>8 DEF Keeps
    <3>2. HasVector(q)' <=> HasVector(q)
      BY <1>10
    <3>3. vec' = vec /\ canMask' = canMask
      BY <1>1
    <3>4. QED
      BY <2>2, <3>1, <3>2, <3>3, ZenonT(40) DEF InEventfd
  <2>4. QED
    BY <2>3 DEF InEventfd, Reaches
<1>14. QED
  BY <1>7, <1>9, <1>11, <1>12, <1>13 DEF GuestInv

(* virtio_reset and msix_unuse_all_vectors *)
LEMMA ClearKeepsGuest ==
  ASSUME HostInv, GuestInv, Clear
  PROVE  GuestInv'
<1>1. /\ At("clear") /\ Then(<<>>)
      /\ gn' = [q \in Queues |-> [gn[q] EXCEPT !.vector = NoVector, !.due = "no"]]
      /\ vec' = [v \in Vectors |-> [vec[v] EXCEPT !.used = 0, !.pending = FALSE]]
      /\ UNCHANGED <<active, intr, canMask, irqfds, notifiers>>
  BY DEF Clear
<1>2. todo # <<>> /\ todo \in Seq(AnyStep) /\ Nth(1).do = "clear" /\ Nth(1) = todo[1]
      /\ Elsewhere(Nth(1)) /\ After(Nth(1), Nth(2))
  <2>1. TodoInv
    BY DEF HostInv
  <2>2. At("clear")
    BY <1>1, ZenonT(40)
  <2>3. todo # <<>> /\ Nth(1).do = "clear" /\ Elsewhere(Nth(1))
    BY <2>1, <2>2, StepNow, SMTT(30) DEF GuestSteps, SetGuestSteps, UnmaskingSteps
  <2>4. QED
    BY <2>1, <2>3, FirstNth
<1>3. ~active /\ ~active'
  BY <1>1, <1>2 DEF HostInv, HeadInv, Finds, NobodyServes
<1>4. Nth(1)' = Nth(2) /\ Elsewhere(Nth(2))
  BY <1>1, <1>2, NextNone, AfterElsewhere
<1>5. /\ ~Serving /\ \A q \in Queues : ~Assigned(q) /\ ~RoutedNow(q)
  BY <1>2, <1>3, PhaseElsewhere
<1>6. /\ ~Serving' /\ UnmaskingInv' /\ \A q \in Queues : ~Assigned(q)' /\ ~RoutedNow(q)'
      /\ Nth(1)'.do \notin GuestSteps
  BY <1>3, <1>4 DEF Elsewhere, Serving, Assigned, RoutedNow, UnmaskingInv, GuestSteps,
     SetGuestSteps, UnmaskingSteps
<1>7. FlagsInv'
  <2>1. ~notifiers /\ (irqfds => intr = "irqfd")
    BY <1>5 DEF GuestInv, FlagsInv, Watched
  <2>2. QED
    BY <1>1, <1>6, <2>1 DEF FlagsInv, Watched, GuestSteps, SetGuestSteps
<1>8. ASSUME NEW q \in Queues
      PROVE  /\ gn'[q] \in GuestNotifier /\ gn'[q].ev = gn[q].ev
             /\ gn'[q].handler = gn[q].handler /\ gn'[q].irqfd = gn[q].irqfd
             /\ gn'[q].onMasked = gn[q].onMasked /\ gn'[q].masked = gn[q].masked
             /\ gn'[q].vector = NoVector /\ gn'[q].due # "yes"
  <2>1. PICK h \in GuestNotifier : h = gn[q]
    BY DEF GuestInv, GuestShape
  <2>2. gn'[q] = [h EXCEPT !.vector = NoVector, !.due = "no"]
    BY <1>1, <2>1
  <2>3. PICK k \in GuestNotifier :
          /\ k = [h EXCEPT !.vector = NoVector, !.due = "no"]
          /\ k.due # "yes" /\ k.masked = h.masked /\ k.ev = h.ev /\ k.handler = h.handler
          /\ k.irqfd = h.irqfd /\ k.onMasked = h.onMasked /\ k.vector = NoVector
    <3>1. [h EXCEPT !.vector = NoVector, !.due = "no"] \in GuestNotifier
      BY DEF GuestNotifier
    <3>2. QED
      BY <3>1, ZenonT(40) DEF GuestNotifier
  <2>4. QED
    BY <2>1, <2>2, <2>3
<1>9. ASSUME NEW v \in Vectors
      PROVE  vec'[v] \in Vector /\ vec'[v].used = 0 /\ vec'[v].users = vec[v].users
  <2>1. PICK w \in Vector : w = vec[v]
    BY DEF GuestInv, GuestShape
  <2>2. vec'[v] = [w EXCEPT !.used = 0, !.pending = FALSE]
    BY <1>1, <2>1
  <2>3. [w EXCEPT !.used = 0, !.pending = FALSE] \in Vector
    <3>1. ASSUME NEW i \in Int, NEW b \in BOOLEAN
          PROVE  [w EXCEPT !.used = i, !.pending = b] \in Vector
      BY DEF Vector
    <3>2. 0 \in Int /\ FALSE \in BOOLEAN
      OBVIOUS
    <3>3. QED
      BY <3>1, <3>2
  <2>4. /\ [w EXCEPT !.used = 0, !.pending = FALSE].used = 0
        /\ [w EXCEPT !.used = 0, !.pending = FALSE].users = w.users
    BY DEF Vector
  <2>5. QED
    BY <2>1, <2>2, <2>3, <2>4
<1>10. GuestShape'
  <2>1. gn' = [q \in Queues |-> gn'[q]] /\ vec' = [v \in Vectors |-> vec'[v]]
    BY <1>1, ZenonT(40)
  <2>2. gn' \in [Queues -> GuestNotifier] /\ vec' \in [Vectors -> Vector]
    BY <1>8, <1>9, <2>1, SMTT(30)
  <2>3. QED
    BY <1>1, <1>3, <2>2 DEF GuestInv, GuestShape
<1>11. QueuesInv'
  <2> SUFFICES ASSUME NEW q \in Queues PROVE QueueOK(q)'
    BY DEF QueuesInv
  <2>1. QueueOK(q) /\ ~Routed(q) /\ ~Routed(q)' /\ ~Heard(q) /\ ~Heard(q)'
        /\ ~Assigned(q) /\ ~Assigned(q)'
    BY <1>5, <1>6 DEF GuestInv, QueuesInv, Routed, Heard, Watched
  <2>2. QED
    BY <1>1, <1>3, <1>8, <2>1, ZenonT(40) DEF QueueOK
<1>12. VectorsInv'
  <2> SUFFICES ASSUME NEW v \in Vectors PROVE VectorOK(v)'
    BY DEF VectorsInv
  <2>1. UsersOf(v) = {} /\ UsersOf(v)' = {} /\ Sharing(v)' = {}
    BY <1>5, <1>6, <1>8, VectorsAssumption DEF UsersOf, Routed, Sharing
  <2>2. Cardinality({}) = 0 /\ vec[v].users = Cardinality(UsersOf(v))
    BY FS_EmptySet DEF GuestInv, VectorsInv, VectorOK
  <2>3. QED
    BY <1>9, <2>1, <2>2 DEF VectorOK
<1>13. DueInv'
  BY <1>8 DEF DueInv
<1>14. QED
  BY <1>6, <1>7, <1>10, <1>11, <1>12, <1>13 DEF GuestInv
(* Neither of the steps, before and after, sets up or takes down anything. *)
LEMMA Between ==
  ASSUME GuestInv, UNCHANGED <<active, intr, canMask, irqfds, notifiers>>,
         Nth(1).do \notin GuestSteps, Nth(1)'.do \notin GuestSteps
  PROVE  /\ \A q \in Queues : /\ (Assigned(q) <=> active) /\ (Assigned(q)' <=> active)
                              /\ (RoutedNow(q) <=> active) /\ (RoutedNow(q)' <=> active)
         /\ Watched <=> (intr = "irqfd" \/ canMask) /\ active
         /\ Watched' <=> Watched
         /\ FlagsInv'
<1>1. /\ Serving <=> active
      /\ Serving' <=> active
      /\ \A q \in Queues : /\ (Assigned(q) <=> active) /\ (Assigned(q)' <=> active)
                           /\ (RoutedNow(q) <=> active) /\ (RoutedNow(q)' <=> active)
  BY DEF Serving, Assigned, RoutedNow, GuestSteps, SetGuestSteps
<1>2. /\ Watched <=> (intr = "irqfd" \/ canMask) /\ active
      /\ Watched' <=> Watched
  BY <1>1 DEF Watched
<1>3. FlagsInv'
  BY <1>1, <1>2 DEF GuestInv, FlagsInv, GuestSteps, SetGuestSteps
<1>4. QED
  BY <1>1, <1>2, <1>3

(* A step that has to do with one queue, between set-up and taking down, and *)
(* changes no vector.                                                       *)
LEMMA OneQueueBetween ==
  ASSUME GuestInv, UNCHANGED <<active, intr, canMask, irqfds, notifiers, vec>>,
         Nth(1).do \notin GuestSteps, Nth(1)'.do \notin GuestSteps,
         gn' \in [Queues -> GuestNotifier], UnmaskingInv',
         NEW n \in Queues, QueueOK(n)', gn'[n].due = "yes" => Reaches(n)',
         gn'[n].vector = gn[n].vector,
         \A q \in Queues \ {n} : Steady(q) /\ (Waits(q)' <=> Waits(q)) /\ (Tests(q)' <=> Tests(q)),
         \A v \in Vectors : Fires(v)' <=> Fires(v)
  PROVE  GuestInv'
<1>1. /\ \A q \in Queues : /\ (Assigned(q) <=> active) /\ (Assigned(q)' <=> active)
                           /\ (RoutedNow(q) <=> active) /\ (RoutedNow(q)' <=> active)
      /\ Watched' <=> Watched
      /\ FlagsInv'
  BY Between
<1>2. GuestShape'
  BY DEF GuestInv, GuestShape
<1>3. \A q \in Queues : gn'[q].vector = gn[q].vector
  BY DEF Steady, Keeps
<1>4. \A q \in Queues : HasVector(q)' = HasVector(q) /\ Unmasked(q)' = Unmasked(q)
                        /\ (Routed(q)' <=> Routed(q))
  BY <1>1, <1>3 DEF HasVector, Unmasked, Routed
<1>5. VectorsInv'
  BY <1>3, <1>4, SameVectors DEF GuestInv
<1>6. QueuesInv'
  <2> SUFFICES ASSUME NEW q \in Queues \ {n} PROVE QueueOK(q)'
    BY DEF QueuesInv
  <2>1. QueueOK(q) /\ Keeps(q) /\ (gn'[q].masked => active')
        /\ (gn'[q].due = "yes" => gn[q].due = "yes")
    BY DEF GuestInv, QueuesInv, Steady, QueueOK
  <2>2. Heard(q)' <=> Heard(q)
    BY <1>1, <1>4 DEF Heard
  <2>3. (Assigned(q)' <=> Assigned(q)) /\ (Routed(q)' <=> Routed(q))
    BY <1>1, <1>4
  <2>4. QED
    BY <2>1, <2>2, <2>3, QueueKept
<1>7. DueInv'
  <2> SUFFICES ASSUME NEW q \in Queues \ {n}, gn'[q].due = "yes" PROVE Reaches(q)'
    BY DEF DueInv
  <2>1. Reaches(q) /\ (HasVector(q) => gn[q].vector \in Vectors) /\ Steady(q)
        /\ (Waits(q)' <=> Waits(q)) /\ (Tests(q)' <=> Tests(q))
    BY DEF GuestInv, DueInv, GuestShape, GuestNotifier, HasVector, Steady
  <2>2. QED
    BY <1>4, <2>1 DEF Reaches, Steady, Keeps
<1>8. QED
  BY <1>1, <1>2, <1>5, <1>6, <1>7 DEF GuestInv

(* What unmasking is about. *)
LEMMA UnmaskingNow ==
  ASSUME HostInv, GuestInv, NEW d \in UnmaskingSteps, At(d)
  PROVE  /\ todo # <<>> /\ todo \in Seq(AnyStep)
         /\ Nth(1).do = d /\ Nth(1).n = Index /\ Nth(1).do \notin GuestSteps
         /\ \E v \in Vectors : ~vec[v].masked /\ UnmasksFor(v)
<1>1. TodoInv
  BY DEF HostInv
<1>2. todo # <<>> /\ Nth(1).do = d /\ Nth(1).n = Index
  BY <1>1, StepNow
<1>3. Nth(1).do \notin GuestSteps
  BY <1>2 DEF UnmaskingSteps, GuestSteps, SetGuestSteps
<1>4. QED
  BY <1>1, <1>2, <1>3, FirstNth DEF GuestInv, UnmaskingInv

(* There is nothing after the end of a handler. *)
LEMMA LastStays ==
  ASSUME todo \in Seq(AnyStep), NEW k \in Nat \ {0}, Nth(k) = Last
  PROVE  Nth(k + 1) = Last
<1>1. PICK T \in Nat : T = Len(todo)
  OBVIOUS
<1>2. ~(k <= T)
  <2> SUFFICES ASSUME k <= T PROVE FALSE
    OBVIOUS
  <2>1. todo[k] \in AnyStep /\ Nth(k) = todo[k]
    BY <1>1 DEF Nth
  <2>2. QED
    BY <2>1, LastIsNone
<1>3. QED
  BY <1>1, <1>2 DEF Nth

(* The rounds still to come after the queue's. *)
LEMMA NextRound ==
  ASSUME todo \in Seq(AnyStep), todo # <<>>, NEW v \in Vectors, NEW n \in Queues,
         Nth(2) = Step("fire", v), Nth(3) = Last, Then(NextSharing(v, n)),
         \A q \in Queues : gn'[q].vector = gn[q].vector
  PROVE  /\ Nth(1)'.do \in {"unmask", "fire"}
         /\ \A w : Fires(w)' <=> w = v
         /\ \A q \in Queues : ~Tests(q)' /\ (Waits(q)' <=> gn[q].vector = v /\ q > n)
         /\ \/ Nth(1)' = Step("fire", v) /\ Nth(2)' = Last
            \/ \E m \in Sharing(v) : /\ Nth(1)' = Step("unmask", m)
                                     /\ Nth(2)' = Step("fire", v) /\ Nth(3)' = Last
<1>0. \A q \in Queues : q \in Nat
  BY NQueuesAssumption DEF Queues
<1>1. CASE /\ NextSharing(v, n) = <<>>
           /\ \A p \in Queues : ~(gn[p].vector = v /\ p > n)
  <2>1. Then(<<>>)
    BY <1>1
  <2>2. Nth(1)' = Step("fire", v) /\ Nth(2)' = Last
    BY <2>1, NextNone
  <2>3. \A q \in Queues : ~Tests(q)' /\ ~Waits(q)'
    BY <2>2 DEF Waits, Tests, Step, Last
  <2>4. \A w : Fires(w)' <=> w = v
    <3>1. Nth(3)' = Nth(4)
      BY <2>1, NextNone
    <3>2. Nth(3)' = Last
      <4>1. 3 \in Nat \ {0} /\ 3 + 1 = 4
        OBVIOUS
      <4>2. QED
        BY <3>1, <4>1, LastStays
    <3>3. QED
      BY <2>2, <3>2 DEF Fires, Step, Last, UnmaskingSteps
  <2>5. QED
    BY <1>1, <2>2, <2>3, <2>4 DEF Step
<1>2. ASSUME NEW m \in Queues, NextSharing(v, n) = <<Step("unmask", m)>>,
             gn[m].vector = v, m > n,
             \A p \in Queues : gn[p].vector = v /\ p > n => m <= p
      PROVE  /\ Nth(1)'.do \in {"unmask", "fire"}
             /\ \A w : Fires(w)' <=> w = v
             /\ \A q \in Queues : ~Tests(q)' /\ (Waits(q)' <=> gn[q].vector = v /\ q > n)
             /\ \E k \in Sharing(v) : /\ Nth(1)' = Step("unmask", k)
                                      /\ Nth(2)' = Step("fire", v) /\ Nth(3)' = Last
  <2>1. Then(<<Step("unmask", m)>>) /\ Step("unmask", m) \in AnyStep /\ m \in Sharing(v)
    BY <1>2 DEF AnyStep, CountedSteps, Step, Sharing
  <2>2. Nth(1)' = Step("unmask", m) /\ Nth(2)' = Step("fire", v) /\ Nth(3)' = Last
    BY <2>1, NextOne
  <2>3. /\ Nth(1)'.do = "unmask" /\ Nth(1)'.n = m /\ Nth(2)'.do = "fire"
    BY <2>2 DEF Step
  <2>4. ASSUME NEW q \in Queues
        PROVE  Waits(q)' <=> gn[q].vector = v /\ q > n
    <3>1. Waits(q)' <=> gn[q].vector = v /\ q >= m
      BY <1>2, <2>3 DEF Waits
    <3>2. gn[q].vector = v => (q >= m <=> q > n)
      BY <1>0, <1>2
    <3>3. QED
      BY <3>1, <3>2
  <2>5. \A q \in Queues : ~Tests(q)'
    BY <2>3 DEF Tests
  <2>6. \A w : Fires(w)' <=> w = v
    BY <2>2 DEF Fires, Step, Last, UnmaskingSteps
  <2>7. QED
    BY <2>1, <2>2, <2>3, <2>4, <2>5, <2>6
<1>3. QED
  BY <1>1, <1>2, NextSharingIs
(* virtio_pci_vq_vector_unmask, before its test *)
LEMMA UnmaskNextKeepsGuest ==
  ASSUME HostInv, GuestInv, UnmaskNext, UNCHANGED active
  PROVE  GuestInv'
<1>1. At("unmask") /\ UNCHANGED <<active, intr, canMask, irqfds, notifiers, vec>>
  BY DEF UnmaskNext
<1>2. /\ todo # <<>> /\ todo \in Seq(AnyStep) /\ Nth(1).do = "unmask" /\ Nth(1).n = Index
      /\ Nth(1).do \notin GuestSteps
      /\ \E v \in Vectors : ~vec[v].masked /\ UnmasksFor(v)
  BY <1>1, UnmaskingNow DEF UnmaskingSteps
<1>3. PICK v \in Vectors, n \in Queues :
        /\ ~vec[v].masked /\ Watched /\ active /\ intr # "intx"
        /\ n = Index /\ gn[n].vector = v
        /\ Nth(1) = Step("unmask", n) /\ Nth(2) = Step("fire", v) /\ Nth(3) = Last
  BY <1>2 DEF UnmasksFor, Step, Sharing
<1>4. \A q \in Queues : q \in Nat
  BY NQueuesAssumption DEF Queues
<1>5. /\ \A w : Fires(w) <=> w = v
      /\ \A q \in Queues : ~Tests(q) /\ (Waits(q) <=> gn[q].vector = v /\ q >= n)
  BY <1>3 DEF Fires, Tests, Waits, Step, Last, UnmaskingSteps
<1>6. /\ GuestShape /\ HasVector(n) /\ Unmasked(n) /\ gn \in [Queues -> GuestNotifier]
      /\ QueueOK(n) /\ Waits(n) /\ ~Heard(n)
  BY <1>3, <1>4, <1>5, VectorsAssumption
     DEF GuestInv, GuestShape, HasVector, Unmasked, QueuesInv, Heard
<1>7. CASE canMask
  <2>1. /\ gn' = [gn EXCEPT ![n].onMasked = FALSE]
        /\ Then(<<Step("test_pending", n)>> \o NextSharing(v, n))
    BY <1>3, <1>7 DEF UnmaskNext
  <2>2. PICK h \in GuestNotifier : h = gn[n]
    BY <1>6
  <2>3. gn' = [gn EXCEPT ![n] = [h EXCEPT !.onMasked = FALSE]]
    BY <1>6, <2>1, <2>2, Zenon
  <2>4. SetsPath([h EXCEPT !.onMasked = FALSE], h, h.irqfd, FALSE)
    BY PathSet
  <2>5. gn' \in [Queues -> GuestNotifier] /\ SetsPath(gn'[n], gn[n], gn[n].irqfd, FALSE)
        /\ \A q \in Queues \ {n} : gn'[q] = gn[q]
    BY <1>6, <2>2, <2>3, <2>4 DEF SetsPath
  <2>6. /\ Nth(1)' = Step("test_pending", n)
        /\ \/ Nth(2)' = Step("fire", v) /\ Nth(3)' = Last
              /\ \A p \in Queues : ~(gn[p].vector = v /\ p > n)
           \/ \E m \in Queues : /\ Nth(2)' = Step("unmask", m) /\ gn[m].vector = v /\ m > n
                                /\ \A p \in Queues : gn[p].vector = v /\ p > n => m <= p
                                /\ Nth(3)' = Step("fire", v) /\ Nth(4)' = Last
    <3>0. Step("test_pending", n) \in AnyStep
      BY DEF AnyStep, CountedSteps, Step
    <3>1. CASE /\ NextSharing(v, n) = <<>>
               /\ \A p \in Queues : ~(gn[p].vector = v /\ p > n)
      <4>1. Then(<<Step("test_pending", n)>>)
        BY <2>1, <3>1, Lists, Zenon
      <4>2. QED
        BY <1>2, <1>3, <3>0, <3>1, <4>1, NextOne
    <3>2. ASSUME NEW m \in Queues, NextSharing(v, n) = <<Step("unmask", m)>>,
                 gn[m].vector = v, m > n,
                 \A p \in Queues : gn[p].vector = v /\ p > n => m <= p
          PROVE  /\ Nth(1)' = Step("test_pending", n) /\ Nth(2)' = Step("unmask", m)
                 /\ Nth(3)' = Step("fire", v) /\ Nth(4)' = Last
      <4>1. Then(<<Step("test_pending", n), Step("unmask", m)>>)
        BY <2>1, <3>2, Lists, Zenon
      <4>2. Step("unmask", m) \in AnyStep
        BY DEF AnyStep, CountedSteps, Step
      <4>3. QED
        BY <1>2, <1>3, <3>0, <4>1, <4>2, NextTwo
    <3>3. QED
      BY <3>1, <3>2, NextSharingIs
  <2>7. Nth(1)'.do = "test_pending" /\ Nth(1)'.n = n
    BY <2>6 DEF Step
  <2>8. Nth(1)'.do \notin GuestSteps
    BY <2>7 DEF GuestSteps, SetGuestSteps
  <2>9. \A q \in Queues : gn'[q].vector = gn[q].vector
    BY <2>5 DEF SetsPath
  <2>10. /\ \A w : Fires(w)' <=> w = v
         /\ \A q \in Queues : (Tests(q)' <=> q = n) /\ (Waits(q)' <=> gn[q].vector = v /\ q > n)
    <3>1. CASE /\ Nth(2)' = Step("fire", v) /\ Nth(3)' = Last
               /\ \A p \in Queues : ~(gn[p].vector = v /\ p > n)
      BY <2>6, <3>1 DEF Fires, Tests, Waits, Step, Last, UnmaskingSteps
    <3>2. ASSUME NEW m \in Queues, Nth(2)' = Step("unmask", m), gn[m].vector = v, m > n,
                 \A p \in Queues : gn[p].vector = v /\ p > n => m <= p,
                 Nth(3)' = Step("fire", v)
          PROVE  /\ \A w : Fires(w)' <=> w = v
                 /\ \A q \in Queues : /\ Tests(q)' <=> q = n
                                      /\ Waits(q)' <=> gn[q].vector = v /\ q > n
      <4>1. /\ Nth(2)'.do = "unmask" /\ Nth(2)'.n = m
        BY <3>2 DEF Step
      <4>2. \A q \in Queues : Waits(q)' <=> gn[q].vector = v /\ q >= m
        BY <2>7, <2>9, <3>2, <4>1 DEF Waits
      <4>3. \A q \in Queues : gn[q].vector = v => (q >= m <=> q > n)
        BY <1>4, <3>2
      <4>4. \A w : Fires(w)' <=> w = v
        BY <2>6, <3>2 DEF Fires, Step, Last, UnmaskingSteps
      <4>5. \A q \in Queues : Tests(q)' <=> q = n
        BY <2>7 DEF Tests
      <4>6. QED
        BY <4>2, <4>3, <4>4, <4>5
    <3>3. QED
      BY <2>6, <3>1, <3>2
  <2>11. Watched'
    BY <1>1, <1>2, <1>3, <2>8, Between
  <2>12. UnmaskingInv'
    <3>1. Sharing(v)' = Sharing(v) /\ n \in Sharing(v)
      BY <1>3, <2>9 DEF Sharing
    <3>2. UnmasksFor(v)'
      BY <1>1, <1>3, <1>7, <2>6, <2>11, <3>1 DEF UnmasksFor, Sharing
    <3>3. QED
      BY <1>1, <1>3, <3>2 DEF UnmaskingInv
  <2>13. \A q \in Queues \ {n} :
           Steady(q) /\ (Waits(q)' <=> Waits(q)) /\ (Tests(q)' <=> Tests(q))
    <3>1. \A q \in Queues \ {n} : q >= n <=> q > n
      BY <1>4
    <3>2. QED
      BY <1>5, <2>5, <2>10, <3>1 DEF Steady, Keeps
  <2>14. QueueOK(n)'
    <3>1. Heard(n)'
      BY <1>1, <1>3, <1>4, <1>6, <2>9, <2>10, <2>11 DEF Heard, Unmasked, HasVector
    <3>2. Assigned(n) /\ Assigned(n)' /\ (Routed(n)' <=> Routed(n))
      BY <1>1, <1>2, <1>3, <2>8, <2>9, Between DEF Routed, HasVector
    <3>3. QED
      BY <1>1, <1>3, <1>6, <1>7, <2>5, <3>1, <3>2 DEF QueueOK, WantsInterrupt, SetsPath
  <2>15. gn'[n].due = "yes" => Reaches(n)'
    <3>1. gn'[n].due = "yes" => Reaches(n)
      BY <2>5 DEF SetsPath, GuestInv, DueInv
    <3>2. QED
      BY <1>1, <1>3, <1>5, <2>5, <2>10, <3>1 DEF Reaches, SetsPath, HasVector
  <2>16. QED
    BY <1>1, <1>2, <1>5, <2>5, <2>8, <2>9, <2>10, <2>12, <2>13, <2>14, <2>15, OneQueueBetween
<1>8. CASE ~canMask
  <2>1. gn' = AddIrqfd(n, gn) /\ Then(NextSharing(v, n))
    BY <1>3, <1>8 DEF UnmaskNext
  <2>2. /\ gn' \in [Queues -> GuestNotifier]
        /\ \A q \in Queues \ {n} : Steady(q)
        /\ gn'[n].vector = gn[n].vector /\ gn'[n].handler = gn[n].handler
        /\ gn'[n].onMasked = gn[n].onMasked /\ gn'[n].masked = gn[n].masked
        /\ gn'[n].irqfd /\ gn'[n].ev # "set"
        /\ gn'[n].ev = "closed" <=> gn[n].ev = "closed"
        /\ gn'[n].due = "yes" => gn[n].due = "yes" /\ gn[n].ev # "set"
    BY <1>6, <2>1, AddIrqfdDoes
  <2>3. \A q \in Queues : gn'[q].vector = gn[q].vector
    BY <2>2 DEF Steady, Keeps
  <2>4. /\ Nth(1)'.do \in {"unmask", "fire"}
        /\ \A w : Fires(w)' <=> w = v
        /\ \A q \in Queues : ~Tests(q)' /\ (Waits(q)' <=> gn[q].vector = v /\ q > n)
        /\ \/ Nth(1)' = Step("fire", v) /\ Nth(2)' = Last
           \/ \E m \in Sharing(v) : /\ Nth(1)' = Step("unmask", m)
                                    /\ Nth(2)' = Step("fire", v) /\ Nth(3)' = Last
    BY <1>2, <1>3, <2>1, <2>3, NextRound
  <2>5. Nth(1)'.do \notin GuestSteps
    BY <2>4 DEF GuestSteps, SetGuestSteps
  <2>6. Watched'
    BY <1>1, <1>2, <1>3, <2>5, Between
  <2>7. UnmaskingInv'
    <3>1. Sharing(v)' = Sharing(v)
      BY <2>3 DEF Sharing
    <3>2. UnmasksFor(v)'
      BY <1>1, <1>3, <2>4, <2>6, <3>1 DEF UnmasksFor
    <3>3. QED
      BY <1>1, <1>3, <3>2 DEF UnmaskingInv
  <2>8. \A q \in Queues \ {n} :
           Steady(q) /\ (Waits(q)' <=> Waits(q)) /\ (Tests(q)' <=> Tests(q))
    <3>1. \A q \in Queues \ {n} : q >= n <=> q > n
      BY <1>4
    <3>2. QED
      BY <1>5, <2>2, <2>4, <3>1
  <2>9. QueueOK(n)'
    <3>1. Heard(n)'
      BY <1>1, <1>3, <1>4, <1>6, <2>3, <2>4, <2>6 DEF Heard, Unmasked, HasVector
    <3>2. Assigned(n) /\ Assigned(n)'
      BY <1>1, <1>2, <1>3, <2>5, Between
    <3>3. QED
      BY <1>1, <1>3, <1>6, <1>8, <2>2, <3>1, <3>2 DEF QueueOK, WantsInterrupt
  <2>10. gn'[n].due = "yes" => Reaches(n)'
    <3>1. gn'[n].due = "yes" => Reaches(n) /\ gn[n].ev # "set"
      BY <2>2 DEF GuestInv, DueInv
    <3>2. QED
      BY <1>1, <1>3, <1>5, <1>8, <2>2, <2>4, <3>1 DEF Reaches, HasVector
  <2>11. QED
    BY <1>1, <1>2, <1>5, <2>2, <2>4, <2>5, <2>7, <2>8, <2>9, <2>10, OneQueueBetween
<1>9. QED
  BY <1>7, <1>8

(* A signal to the eventfd of a guest notifier. *)
LEMMA SignalDoes ==
  ASSUME NEW g \in [Queues -> GuestNotifier], NEW n \in Queues, SignalTo(n, g)
  PROVE  /\ gn' \in [Queues -> GuestNotifier]
         /\ \A q \in Queues : /\ gn'[q].handler = g[q].handler
                              /\ gn'[q].irqfd = g[q].irqfd /\ gn'[q].onMasked = g[q].onMasked
                              /\ gn'[q].masked = g[q].masked /\ gn'[q].vector = g[q].vector
                              /\ gn'[q].due = "yes" => g[q].due = "yes"
                              /\ q # n => gn'[q].ev = g[q].ev
         /\ g[n].irqfd => gn'[n].due # "yes" /\ gn'[n].ev = g[n].ev
         /\ ~g[n].irqfd => gn'[n].ev = "set"
<1>1. CASE g[n].irqfd /\ gn' = Interrupted(g, g[n].vector)
  <2>1. ASSUME NEW q \in Queues
        PROVE  SetsDue(gn'[q], g[q], IF g[q].vector = g[n].vector THEN "no" ELSE g[q].due)
    <3>1. PICK d \in {"no", "yes", "lost"} :
          d = IF g[q].vector = g[n].vector THEN "no" ELSE g[q].due
      BY DueOf
    <3>2. gn'[q] = [g[q] EXCEPT !.due = d] /\ g[q] \in GuestNotifier
      BY <1>1, <3>1 DEF Interrupted
    <3>3. SetsDue([g[q] EXCEPT !.due = d], g[q], d)
      BY <3>2, DueSet, ZenonT(40)
    <3>4. QED
      BY <3>1, <3>2, <3>3, Zenon
  <2>2. gn' \in [Queues -> GuestNotifier]
    <3>1. gn' = [q \in Queues |-> gn'[q]]
      BY <1>1 DEF Interrupted
    <3>2. QED
      BY <2>1, <3>1 DEF SetsDue
  <2>3. QED
    BY <1>1, <2>1, <2>2 DEF SetsDue
<1>2. CASE ~g[n].irqfd /\ gn' = [g EXCEPT ![n].ev = "set"]
  <2>1. PICK h \in GuestNotifier : h = g[n]
    OBVIOUS
  <2>2. PICK k \in GuestNotifier :
          /\ k = [h EXCEPT !.ev = "set"]
          /\ k.ev = "set" /\ k.irqfd = h.irqfd /\ k.handler = h.handler
          /\ k.onMasked = h.onMasked /\ k.masked = h.masked /\ k.vector = h.vector
          /\ k.due = h.due
    <3>1. [h EXCEPT !.ev = "set"] \in GuestNotifier
      BY DEF GuestNotifier
    <3>2. QED
      BY <3>1 DEF GuestNotifier
  <2>3. gn' = [g EXCEPT ![n] = k]
    BY <1>2, <2>1, <2>2, Zenon
  <2>4. QED
    BY <1>2, <2>1, <2>2, <2>3
<1>3. QED
  BY <1>1, <1>2 DEF SignalTo

(* virtio_pci_vq_vector_unmask, "Test after unmasking" *)
LEMMA TestPendingKeepsGuest ==
  ASSUME HostInv, GuestInv, TestPending, UNCHANGED active
  PROVE  GuestInv'
<1>1. At("test_pending") /\ Then(<<>>)
      /\ UNCHANGED <<active, intr, canMask, irqfds, notifiers, vec>>
  BY DEF TestPending
<1>2. /\ todo # <<>> /\ todo \in Seq(AnyStep) /\ Nth(1).do = "test_pending" /\ Nth(1).n = Index
      /\ Nth(1).do \notin GuestSteps
      /\ \E v \in Vectors : ~vec[v].masked /\ UnmasksFor(v)
  BY <1>1, UnmaskingNow DEF UnmaskingSteps
<1>3. PICK v \in Vectors, n \in Queues :
        /\ ~vec[v].masked /\ Watched /\ active /\ intr # "intx" /\ canMask
        /\ n = Index /\ gn[n].vector = v /\ Nth(1) = Step("test_pending", n)
        /\ \/ Nth(2) = Step("fire", v) /\ Nth(3) = Last
           \/ \E m \in Sharing(v) : /\ n < m /\ Nth(2) = Step("unmask", m)
                                    /\ Nth(3) = Step("fire", v) /\ Nth(4) = Last
  BY <1>2 DEF UnmasksFor, Step, Sharing
<1>4. \A q \in Queues : q \in Nat
  BY NQueuesAssumption DEF Queues
<1>5. Nth(1)' = Nth(2) /\ Nth(2)' = Nth(3) /\ Nth(3)' = Nth(4)
  BY <1>1, <1>2, NextNone
<1>6. Nth(2) = Step("fire", v) /\ Nth(3) = Last => Nth(4) = Last
  <2>1. 3 \in Nat \ {0} /\ 3 + 1 = 4
    OBVIOUS
  <2>2. QED
    BY <1>2, <2>1, LastStays
<1>7. Nth(1)'.do \notin GuestSteps /\ Nth(1)'.do \in {"unmask", "fire"}
  BY <1>3, <1>5 DEF GuestSteps, SetGuestSteps, Step
<1>8. /\ GuestShape /\ HasVector(n) /\ Unmasked(n) /\ gn \in [Queues -> GuestNotifier]
      /\ QueueOK(n)
  BY <1>3, VectorsAssumption DEF GuestInv, GuestShape, HasVector, Unmasked, QueuesInv
<1>9. /\ Assigned(n) /\ RoutedNow(n) /\ RoutedNow(n)' /\ Assigned(n)'
      /\ Watched'
  BY <1>1, <1>2, <1>3, <1>7, Between
<1>10. PICK h \in GuestNotifier : h = gn[n]
  BY <1>8
<1>11. /\ gn' \in [Queues -> GuestNotifier]
       /\ \A q \in Queues \ {n} : Steady(q)
       /\ gn'[n].vector = gn[n].vector /\ gn'[n].handler = gn[n].handler
       /\ gn'[n].irqfd = gn[n].irqfd /\ gn'[n].onMasked = gn[n].onMasked
       /\ ~gn'[n].masked
       /\ gn'[n].due = "yes" => gn[n].due = "yes"
       /\ gn'[n].ev = "closed" => gn[n].ev = "closed"
       /\ gn[n].ev = "closed" => gn'[n].ev = "closed" \/ ~gn[n].irqfd
       /\ gn'[n].due = "yes" /\ gn[n].masked => gn'[n].ev = "set" /\ ~gn[n].irqfd
       /\ ~gn[n].masked => gn'[n] = gn[n]
  <2>1. CASE ~gn[n].masked
    <3>1. gn' = gn
      BY <1>3, <2>1 DEF TestPending
    <3>2. QED
      BY <1>8, <2>1, <3>1 DEF Steady, Keeps
  <2>2. CASE gn[n].masked
    <3> DEFINE g == [gn EXCEPT ![n].masked = FALSE]
    <3>1. SignalTo(n, g)
      BY <1>3, <2>2 DEF TestPending
    <3>2. g = [gn EXCEPT ![n] = [h EXCEPT !.masked = FALSE]]
      BY <1>8, <1>10, Zenon
    <3> HIDE DEF g
    <3>3. PICK k \in GuestNotifier :
            /\ k = [h EXCEPT !.masked = FALSE]
            /\ k.ev = h.ev /\ k.irqfd = h.irqfd /\ k.handler = h.handler
            /\ k.onMasked = h.onMasked /\ ~k.masked /\ k.vector = h.vector /\ k.due = h.due
      <4>1. [h EXCEPT !.masked = FALSE] \in GuestNotifier
        BY DEF GuestNotifier
      <4>2. QED
        BY <4>1 DEF GuestNotifier
    <3>4. g \in [Queues -> GuestNotifier] /\ g[n] = k /\ \A q \in Queues \ {n} : g[q] = gn[q]
      BY <1>8, <3>2, <3>3
    <3>5. /\ gn' \in [Queues -> GuestNotifier]
          /\ \A q \in Queues : /\ gn'[q].handler = g[q].handler
                               /\ gn'[q].irqfd = g[q].irqfd /\ gn'[q].onMasked = g[q].onMasked
                               /\ gn'[q].masked = g[q].masked /\ gn'[q].vector = g[q].vector
                               /\ gn'[q].due = "yes" => g[q].due = "yes"
                               /\ q # n => gn'[q].ev = g[q].ev
          /\ g[n].irqfd => gn'[n].due # "yes" /\ gn'[n].ev = g[n].ev
          /\ ~g[n].irqfd => gn'[n].ev = "set"
      BY <3>1, <3>4, SignalDoes
    <3>6. \A q \in Queues \ {n} : Steady(q)
      BY <3>4, <3>5 DEF Steady, Keeps
    <3>7. g[n] = k /\ gn[n] = h
      BY <1>10, <3>4
    <3>8. /\ gn'[n].handler = g[n].handler /\ gn'[n].irqfd = g[n].irqfd
          /\ gn'[n].onMasked = g[n].onMasked /\ gn'[n].masked = g[n].masked
          /\ gn'[n].vector = g[n].vector /\ (gn'[n].due = "yes" => g[n].due = "yes")
      BY <3>5
    <3>9. /\ gn'[n].vector = gn[n].vector /\ gn'[n].handler = gn[n].handler
          /\ gn'[n].irqfd = gn[n].irqfd /\ gn'[n].onMasked = gn[n].onMasked
          /\ ~gn'[n].masked /\ (gn'[n].due = "yes" => gn[n].due = "yes")
      BY <3>3, <3>7, <3>8
    <3>10. /\ gn[n].irqfd => gn'[n].due # "yes" /\ gn'[n].ev = gn[n].ev
           /\ ~gn[n].irqfd => gn'[n].ev = "set"
      <4>1. g[n].irqfd = gn[n].irqfd /\ g[n].ev = gn[n].ev
        BY <3>3, <3>7
      <4>2. QED
        BY <3>5, <4>1
    <3>11. gn' \in [Queues -> GuestNotifier]
      BY <3>5
    <3>12. QED
      BY <2>2, <3>6, <3>9, <3>10, <3>11
  <2>3. QED
    BY <2>1, <2>2
<1>12. \A q \in Queues : gn'[q].vector = gn[q].vector
  BY <1>11 DEF Steady, Keeps
<1>13. /\ \A w : (Fires(w) <=> w = v) /\ (Fires(w)' <=> w = v)
       /\ \A q \in Queues : (Tests(q) <=> q = n) /\ ~Tests(q)' /\ (Waits(q)' <=> Waits(q))
       /\ ~Waits(n)
  <2>1. CASE Nth(2) = Step("fire", v) /\ Nth(3) = Last
    BY <1>3, <1>5, <1>6, <2>1 DEF Fires, Tests, Waits, Step, Last, UnmaskingSteps
  <2>2. ASSUME NEW m \in Sharing(v), n < m, Nth(2) = Step("unmask", m),
               Nth(3) = Step("fire", v), Nth(4) = Last
        PROVE  /\ \A w : (Fires(w) <=> w = v) /\ (Fires(w)' <=> w = v)
               /\ \A q \in Queues : /\ Tests(q) <=> q = n
                                    /\ ~Tests(q)' /\ (Waits(q)' <=> Waits(q))
               /\ ~Waits(n)
    <3>1. \A w : (Fires(w) <=> w = v) /\ (Fires(w)' <=> w = v)
      BY <1>3, <1>5, <2>2 DEF Fires, Step, Last, UnmaskingSteps
    <3>2. \A q \in Queues : (Tests(q) <=> q = n) /\ ~Tests(q)'
      BY <1>3, <1>5, <2>2 DEF Tests, Step
    <3>3. m \in Queues /\ gn[m].vector = v
      BY <2>2 DEF Sharing
    <3>4. /\ Nth(1).do = "test_pending" /\ Nth(2).do = "unmask" /\ Nth(2).n = m
          /\ Nth(1)'.do = "unmask" /\ Nth(1)'.n = m /\ Nth(2)'.do = "fire"
      BY <1>3, <1>5, <2>2 DEF Step
    <3>5. \A q \in Queues : /\ Waits(q) <=> gn[q].vector = v /\ q >= m
                            /\ Waits(q)' <=> gn[q].vector = v /\ q >= m
      BY <1>12, <3>3, <3>4 DEF Waits
    <3>6. ~(n >= m)
      BY <1>4, <2>2, <3>3
    <3>7. QED
      BY <3>1, <3>2, <3>5, <3>6
  <2>3. QED
    BY <1>3, <2>1, <2>2
<1>14. UnmaskingInv'
  <2>1. Sharing(v)' = Sharing(v)
    BY <1>12 DEF Sharing
  <2>2. UnmasksFor(v)'
    BY <1>1, <1>3, <1>5, <1>9, <2>1 DEF UnmasksFor
  <2>3. QED
    BY <1>1, <1>3, <2>2 DEF UnmaskingInv
<1>15. Heard(n) /\ Heard(n)'
  BY <1>1, <1>3, <1>8, <1>9, <1>12, <1>13 DEF Heard, Unmasked, HasVector
<1>16. Routed(n) <=> intr = "irqfd"
  BY <1>8, <1>9 DEF Routed
<1>17. Routed(n)' <=> Routed(n)
  BY <1>1, <1>9, <1>12 DEF Routed, HasVector
<1>18. gn[n].ev # "closed" /\ gn'[n].ev # "closed"
  BY <1>8, <1>9, <1>11 DEF QueueOK
<1>19. QueueOK(n)'
  BY <1>1, <1>3, <1>8, <1>9, <1>11, <1>15, <1>17, <1>18 DEF QueueOK, WantsInterrupt
<1>20. gn'[n].due = "yes" => Reaches(n)'
  <2>1. CASE gn[n].masked
    <3>1. ~gn[n].irqfd => gn[n].handler
      BY <1>3, <1>8, <1>9, <1>16 DEF QueueOK
    <3>2. QED
      BY <1>11, <2>1, <3>1 DEF Reaches
  <2>2. CASE ~gn[n].masked
    <3>1. gn'[n].due = "yes" => Reaches(n)
      BY <1>11 DEF GuestInv, DueInv
    <3>2. QED
      BY <1>1, <1>3, <1>11, <1>13, <2>2, <3>1 DEF Reaches, HasVector
  <2>3. QED
    BY <2>1, <2>2
<1>21. \A q \in Queues \ {n} :
         Steady(q) /\ (Waits(q)' <=> Waits(q)) /\ (Tests(q)' <=> Tests(q))
  BY <1>11, <1>13
<1>22. QED
  BY <1>1, <1>2, <1>7, <1>11, <1>12, <1>13, <1>14, <1>19, <1>20, <1>21, OneQueueBetween

(* The end of msix's unmasking: what it has kept for the vector *)
LEMMA FirePendingKeepsGuest ==
  ASSUME HostInv, GuestInv, FirePending, UNCHANGED active
  PROVE  GuestInv'
<1>1. At("fire") /\ Then(<<>>) /\ UNCHANGED <<active, intr, canMask, irqfds, notifiers>>
  BY DEF FirePending
<1>2. /\ todo # <<>> /\ todo \in Seq(AnyStep) /\ Nth(1).do = "fire" /\ Nth(1).n = Index
      /\ Nth(1).do \notin GuestSteps
      /\ \E v \in Vectors : ~vec[v].masked /\ UnmasksFor(v)
  BY <1>1, UnmaskingNow DEF UnmaskingSteps
<1>3. PICK v \in Vectors :
        ~vec[v].masked /\ v = Index /\ Nth(1) = Step("fire", v) /\ Nth(2) = Last
  BY <1>2 DEF UnmasksFor, Step
<1>4. Nth(3) = Last
  <2>1. 2 \in Nat \ {0} /\ 2 + 1 = 3
    OBVIOUS
  <2>2. QED
    BY <1>2, <1>3, <2>1, LastStays
<1>5. Nth(1)' = Last /\ Elsewhere(Nth(1)')
  <2>1. Nth(1)' = Last
    BY <1>1, <1>2, <1>3, NextNone
  <2>2. QED
    BY <2>1 DEF Elsewhere, GuestSteps, SetGuestSteps, UnmaskingSteps, Last, Step
<1>6. Nth(1)'.do \notin GuestSteps /\ UnmaskingInv'
  BY <1>5 DEF Elsewhere, UnmaskingInv
<1>7. /\ \A q \in Queues : ~Waits(q) /\ ~Tests(q)
      /\ \A w : Fires(w) <=> w = v
  BY <1>3, <1>4 DEF Waits, Tests, Fires, UnmaskingSteps, Step, Last
<1>8. /\ \A q \in Queues : ~Waits(q)' /\ ~Tests(q)'
      /\ \A w : ~Fires(w)'
  BY <1>5 DEF Waits, Tests, Fires, Elsewhere, UnmaskingSteps
<1>9. GuestShape /\ gn \in [Queues -> GuestNotifier] /\ vec \in [Vectors -> Vector] /\ VectorsInv
  BY DEF GuestInv, GuestShape
<1>10. /\ vec' \in [Vectors -> Vector]
       /\ \A w \in Vectors : /\ vec'[w].masked = vec[w].masked
                             /\ vec'[w].used = vec[w].used /\ vec'[w].users = vec[w].users
                             /\ w # v => vec'[w].pending = vec[w].pending
  <2>1. CASE vec[v].pending
    <3>1. vec' = [vec EXCEPT ![v].pending = FALSE]
      BY <1>3, <2>1 DEF FirePending
    <3>2. QED
      BY <1>9, <3>1 DEF Vector
  <2>2. CASE ~vec[v].pending
    BY <1>3, <1>9, <2>2 DEF FirePending
  <2>3. QED
    BY <2>1, <2>2
<1>11. /\ gn' \in [Queues -> GuestNotifier]
       /\ \A q \in Queues : /\ Steady(q)
                            /\ gn'[q].due = "yes" =>
                                 ~(vec[v].pending /\ vec[v].used > 0 /\ gn[q].vector = v)
  <2>1. CASE vec[v].pending /\ vec[v].used > 0
    <3>1. gn' = Interrupted(gn, v)
      BY <1>3, <2>1 DEF FirePending
    <3>2. ASSUME NEW q \in Queues
          PROVE  SetsDue(gn'[q], gn[q], IF gn[q].vector = v THEN "no" ELSE gn[q].due)
      <4>1. PICK d \in {"no", "yes", "lost"} :
            d = IF gn[q].vector = v THEN "no" ELSE gn[q].due
        BY <1>9, DueOf
      <4>2. gn'[q] = [gn[q] EXCEPT !.due = d] /\ gn[q] \in GuestNotifier
        BY <1>9, <3>1, <4>1 DEF Interrupted
      <4>3. SetsDue([gn[q] EXCEPT !.due = d], gn[q], d)
        BY <4>2, DueSet
      <4>4. QED
        BY <4>1, <4>2, <4>3, Zenon
    <3>3. gn' \in [Queues -> GuestNotifier]
      <4>1. gn' = [q \in Queues |-> gn'[q]]
        BY <3>1 DEF Interrupted
      <4>2. QED
        BY <3>2, <4>1 DEF SetsDue
    <3>4. QED
      BY <3>2, <3>3 DEF SetsDue, Steady, Keeps
  <2>2. CASE ~(vec[v].pending /\ vec[v].used > 0)
    <3>1. gn' = gn
      BY <1>3, <2>2 DEF FirePending
    <3>2. QED
      BY <1>9, <2>2, <3>1 DEF Steady, Keeps
  <2>3. QED
    BY <2>1, <2>2
<1>12. \A q \in Queues : gn'[q].vector = gn[q].vector
                         /\ (HasVector(q) => gn[q].vector \in Vectors)
  BY <1>9, <1>11 DEF Steady, Keeps, HasVector, GuestNotifier
<1>13. \A q \in Queues : HasVector(q)' = HasVector(q) /\ Unmasked(q)' = Unmasked(q)
  BY <1>10, <1>12 DEF HasVector, Unmasked
<1>14. /\ \A q \in Queues : /\ (Assigned(q) <=> active) /\ (Assigned(q)' <=> active)
                            /\ (RoutedNow(q) <=> active) /\ (RoutedNow(q)' <=> active)
       /\ Watched' <=> Watched
       /\ FlagsInv'
  BY <1>1, <1>2, <1>6, Between
<1>15. \A q \in Queues : Routed(q)' <=> Routed(q)
  BY <1>1, <1>13, <1>14 DEF Routed
<1>16. VectorsInv'
  BY <1>9, <1>10, <1>12, <1>15, SameVectors
<1>17. QueuesInv'
  <2> SUFFICES ASSUME NEW q \in Queues PROVE QueueOK(q)'
    BY DEF QueuesInv
  <2>1. QueueOK(q) /\ Keeps(q) /\ (gn'[q].masked => active')
        /\ (gn'[q].due = "yes" => gn[q].due = "yes")
    BY <1>1, <1>11 DEF GuestInv, QueuesInv, Steady, QueueOK
  <2>2. Heard(q)' <=> Heard(q)
    BY <1>1, <1>7, <1>8, <1>13, <1>14 DEF Heard
  <2>3. QED
    BY <1>1, <1>14, <1>15, <2>1, <2>2, QueueKept
<1>18. DueInv'
  <2> SUFFICES ASSUME NEW q \in Queues, gn'[q].due = "yes" PROVE Reaches(q)'
    BY DEF DueInv
  <2>1. Reaches(q) /\ Steady(q)
    BY <1>11 DEF GuestInv, DueInv, Steady
  <2>2. ~(vec[v].pending /\ gn[q].vector = v)
    <3>1. SUFFICES ASSUME vec[v].pending, gn[q].vector = v PROVE FALSE
      OBVIOUS
    <3>2. vec[v].used > 0
      BY <1>9, <3>1, UsedBy DEF InUse
    <3>3. QED
      BY <1>11, <3>1, <3>2
  <2>3. QED
    BY <1>1, <1>7, <1>10, <1>12, <1>13, <2>1, <2>2 DEF Reaches, Steady, Keeps
<1>19. GuestShape'
  BY <1>1, <1>9, <1>10, <1>11 DEF GuestShape
<1>20. QED
  BY <1>6, <1>14, <1>16, <1>17, <1>18, <1>19 DEF GuestInv

(* Between two handlers. *)
LEMMA IdleElsewhere ==
  ASSUME Idle, UNCHANGED todo
  PROVE  Elsewhere(Nth(1)) /\ Elsewhere(Nth(1)')
<1>1. <<>> \in Seq(HostSteps) /\ <<>> \in Seq({s \in AnyStep : Elsewhere(s)}) /\ Enter(<<>>)
  BY DEF Idle, Enter
<1>2. QED
  BY <1>1, EnterElsewhere

(* What neither the steps of the set-up nor those of an unmasking change.    *)
LEMMA ElsewhereBoth ==
  ASSUME GuestInv, UNCHANGED <<active, intr, canMask, irqfds, notifiers>>,
         Elsewhere(Nth(1)), Elsewhere(Nth(1)')
  PROVE  /\ \A q \in Queues : /\ (Assigned(q) <=> active) /\ (Assigned(q)' <=> active)
                              /\ (RoutedNow(q) <=> active) /\ (RoutedNow(q)' <=> active)
                              /\ ~Waits(q) /\ ~Waits(q)' /\ ~Tests(q) /\ ~Tests(q)'
         /\ \A w : ~Fires(w) /\ ~Fires(w)'
         /\ Watched <=> (intr = "irqfd" \/ canMask) /\ active
         /\ Watched' <=> Watched
         /\ FlagsInv' /\ UnmaskingInv'
         /\ notifiers <=> Watched
<1>1. Nth(1).do \notin GuestSteps /\ Nth(1)'.do \notin GuestSteps
  BY DEF Elsewhere
<1>2. /\ \A q \in Queues : /\ (Assigned(q) <=> active) /\ (Assigned(q)' <=> active)
                           /\ (RoutedNow(q) <=> active) /\ (RoutedNow(q)' <=> active)
      /\ Watched <=> (intr = "irqfd" \/ canMask) /\ active
      /\ Watched' <=> Watched
      /\ FlagsInv'
  BY <1>1, Between
<1>3. /\ \A q \in Queues : ~Waits(q) /\ ~Waits(q)' /\ ~Tests(q) /\ ~Tests(q)'
      /\ \A w : ~Fires(w) /\ ~Fires(w)'
      /\ UnmaskingInv'
  BY DEF Elsewhere, Waits, Tests, Fires, UnmaskingInv, UnmaskingSteps
<1>4. QED
  BY <1>2, <1>3 DEF GuestInv, FlagsInv

(* A step that has to do with one queue and what msix keeps, when idle. *)
LEMMA OneQueueIdle ==
  ASSUME GuestInv, Idle, UNCHANGED <<todo, active, intr, canMask, irqfds, notifiers>>,
         gn' \in [Queues -> GuestNotifier], vec' \in [Vectors -> Vector], PendingGrows,
         \A v \in Vectors : vec'[v].used = vec[v].used /\ vec'[v].users = vec[v].users,
         NEW n \in Queues, Keeps(n), gn'[n].masked = gn[n].masked,
         gn'[n].due = "yes" => gn[n].due = "yes" \/ WantsInterrupt(n),
         gn'[n].due = "yes" => Reaches(n)',
         \A q \in Queues \ {n} : Steady(q)
  PROVE  GuestInv'
<1>1. Elsewhere(Nth(1)) /\ Elsewhere(Nth(1)')
  BY IdleElsewhere
<1>2. /\ \A q \in Queues : /\ (Assigned(q) <=> active) /\ (Assigned(q)' <=> active)
                           /\ (RoutedNow(q) <=> active) /\ (RoutedNow(q)' <=> active)
                           /\ ~Waits(q) /\ ~Waits(q)' /\ ~Tests(q) /\ ~Tests(q)'
      /\ \A w : ~Fires(w) /\ ~Fires(w)'
      /\ Watched' <=> Watched
      /\ FlagsInv' /\ UnmaskingInv'
  BY <1>1, ElsewhereBoth
<1>3. GuestShape'
  BY DEF GuestInv, GuestShape
<1>4. \A q \in Queues : /\ gn'[q].vector = gn[q].vector /\ Keeps(q)
                        /\ gn'[q].masked = gn[q].masked
                        /\ HasVector(q) => gn[q].vector \in Vectors
  BY DEF Steady, Keeps, GuestInv, GuestShape, GuestNotifier, HasVector
<1>5. \A q \in Queues : HasVector(q)' = HasVector(q) /\ Unmasked(q)' = Unmasked(q)
                        /\ (Routed(q)' <=> Routed(q))
  BY <1>2, <1>4 DEF HasVector, Unmasked, Routed, PendingGrows
<1>6. VectorsInv'
  BY <1>4, <1>5, SameVectors DEF GuestInv
<1>7. QueuesInv'
  <2> SUFFICES ASSUME NEW q \in Queues PROVE QueueOK(q)'
    BY DEF QueuesInv
  <2>1. QueueOK(q) /\ (gn'[q].masked => active')
        /\ (gn'[q].due = "yes" => gn[q].due = "yes" \/ WantsInterrupt(q))
    BY <1>4 DEF GuestInv, QueuesInv, Steady, QueueOK
  <2>2. Heard(q)' <=> Heard(q)
    BY <1>2, <1>5 DEF Heard
  <2>3. QED
    BY <1>2, <1>4, <1>5, <2>1, <2>2, QueueKept
<1>8. DueInv'
  <2> SUFFICES ASSUME NEW q \in Queues \ {n}, gn'[q].due = "yes" PROVE Reaches(q)'
    BY DEF DueInv
  <2>1. Reaches(q) /\ Steady(q)
    BY DEF GuestInv, DueInv, Steady
  <2>2. QED
    BY <1>2, <1>4, <1>5, <2>1 DEF Reaches, Steady, Keeps, PendingGrows
<1>9. QED
  BY <1>2, <1>3, <1>6, <1>7, <1>8 DEF GuestInv

(* What MarkDue does to the notifiers. *)
LEMMA MarkedDue ==
  ASSUME GuestShape, NEW n \in Queues
  PROVE  /\ MarkDue(n) \in [Queues -> GuestNotifier]
         /\ SetsDue(MarkDue(n)[n], gn[n], IF WantsInterrupt(n) THEN "yes" ELSE "no")
         /\ \A q \in Queues \ {n} : MarkDue(n)[q] = gn[q]
<1>0. gn \in [Queues -> GuestNotifier]
  BY DEF GuestShape
<1>1. PICK h \in GuestNotifier, d \in {"no", "yes", "lost"} :
        h = gn[n] /\ d = IF WantsInterrupt(n) THEN "yes" ELSE "no"
  BY <1>0 DEF WantsInterrupt
<1>2. MarkDue(n) = [gn EXCEPT ![n] = [h EXCEPT !.due = d]]
  BY <1>0, <1>1, Zenon DEF MarkDue
<1>3. SetsDue([h EXCEPT !.due = d], h, d)
  BY DueSet
<1>4. QED
  BY <1>0, <1>1, <1>2, <1>3 DEF SetsDue

(* A device in QEMU notifies: virtio_notify *)
LEMMA DeviceNotifiesKeepsGuest ==
  ASSUME GuestInv, NEW n \in Queues, DeviceNotifies(n), UNCHANGED active
  PROVE  GuestInv'
<1>1. Idle /\ Notify(n, MarkDue(n)) /\ UNCHANGED <<todo, active, intr, canMask, irqfds, notifiers>>
  BY DEF DeviceNotifies
<1>2. GuestShape /\ gn \in [Queues -> GuestNotifier] /\ VectorsInv
  BY DEF GuestInv, GuestShape
<1>3. PICK g \in [Queues -> GuestNotifier] :
        /\ g = MarkDue(n)
        /\ SetsDue(g[n], gn[n], IF WantsInterrupt(n) THEN "yes" ELSE "no")
        /\ \A q \in Queues \ {n} : g[q] = gn[q]
  BY <1>2, MarkedDue
<1>4. Notify(n, g)
  BY <1>1, <1>3
<1>5. /\ gn' \in [Queues -> GuestNotifier] /\ vec' \in [Vectors -> Vector]
      /\ \A q \in Queues : /\ gn'[q].ev = g[q].ev /\ gn'[q].handler = g[q].handler
                           /\ gn'[q].irqfd = g[q].irqfd /\ gn'[q].onMasked = g[q].onMasked
                           /\ gn'[q].masked = g[q].masked /\ gn'[q].vector = g[q].vector
                           /\ gn'[q].due = "yes" => g[q].due = "yes"
      /\ PendingGrows
      /\ \A v \in Vectors : vec'[v].used = vec[v].used /\ vec'[v].users = vec[v].users
      /\ gn'[n].due = "yes" => /\ intr # "intx"
                               /\ InUse(g[n].vector) =>
                                    vec[g[n].vector].masked /\ vec'[g[n].vector].pending
  BY <1>2, <1>4, NotifyDoes
<1>6. \A q \in Queues \ {n} : Steady(q)
  BY <1>3, <1>5 DEF Steady, Keeps
<1>7. /\ Keeps(n) /\ gn'[n].masked = gn[n].masked /\ g[n].vector = gn[n].vector
      /\ gn'[n].due = "yes" => WantsInterrupt(n)
  BY <1>3, <1>5 DEF SetsDue, Keeps
<1>8. gn'[n].due = "yes" => Reaches(n)'
  <2> SUFFICES ASSUME gn'[n].due = "yes" PROVE Reaches(n)'
    OBVIOUS
  <2>1. HasVector(n) /\ gn[n].vector \in Vectors
    BY <1>2, <1>5, <1>7 DEF WantsInterrupt, HasVector, GuestNotifier
  <2>2. InUse(gn[n].vector)
    BY <1>2, <2>1, UsedBy
  <2>3. vec'[gn[n].vector].masked /\ vec'[gn[n].vector].pending
    BY <1>5, <1>7, <2>1, <2>2 DEF PendingGrows
  <2>4. gn'[n].vector = gn[n].vector
    BY <1>7 DEF Keeps
  <2>5. QED
    BY <2>1, <2>3, <2>4 DEF Reaches, HasVector
<1>9. QED
  BY <1>1, <1>5, <1>6, <1>7, <1>8, OneQueueIdle

(* The main loop reads a guest notifier: virtio_queue_guest_notifier_read *)
LEMMA ReadKeepsGuest ==
  ASSUME GuestInv, NEW n \in Queues, GuestNotifierRead(n), UNCHANGED active
  PROVE  GuestInv'
<1> DEFINE c == [gn EXCEPT ![n].ev = "clear"]
<1>1. /\ Idle /\ gn[n].ev = "set" /\ Notify(n, c)
      /\ UNCHANGED <<todo, active, intr, canMask, irqfds, notifiers>>
  BY DEF GuestNotifierRead
<1>2. GuestShape /\ gn \in [Queues -> GuestNotifier] /\ VectorsInv
  BY DEF GuestInv, GuestShape
<1>3. PICK h \in GuestNotifier : h = gn[n]
  BY <1>2
<1>4. c = [gn EXCEPT ![n] = [h EXCEPT !.ev = "clear"]]
  BY <1>2, <1>3, Zenon
<1> HIDE DEF c
<1>5. PICK k \in GuestNotifier :
        /\ k = [h EXCEPT !.ev = "clear"]
        /\ k.ev = "clear" /\ k.handler = h.handler /\ k.irqfd = h.irqfd
        /\ k.onMasked = h.onMasked /\ k.masked = h.masked /\ k.vector = h.vector
        /\ k.due = h.due
  <2>1. [h EXCEPT !.ev = "clear"] \in GuestNotifier
    BY DEF GuestNotifier
  <2>2. QED
    BY <2>1 DEF GuestNotifier
<1>6. c \in [Queues -> GuestNotifier] /\ c[n] = k /\ \A q \in Queues \ {n} : c[q] = gn[q]
  BY <1>2, <1>4, <1>5
<1>7. /\ gn' \in [Queues -> GuestNotifier] /\ vec' \in [Vectors -> Vector]
      /\ \A q \in Queues : /\ gn'[q].ev = c[q].ev /\ gn'[q].handler = c[q].handler
                           /\ gn'[q].irqfd = c[q].irqfd /\ gn'[q].onMasked = c[q].onMasked
                           /\ gn'[q].masked = c[q].masked /\ gn'[q].vector = c[q].vector
                           /\ gn'[q].due = "yes" => c[q].due = "yes"
      /\ PendingGrows
      /\ \A v \in Vectors : vec'[v].used = vec[v].used /\ vec'[v].users = vec[v].users
      /\ gn'[n].due = "yes" => /\ intr # "intx"
                               /\ InUse(c[n].vector) =>
                                    vec[c[n].vector].masked /\ vec'[c[n].vector].pending
  BY <1>1, <1>2, <1>6, NotifyDoes
<1>8. \A q \in Queues \ {n} : Steady(q)
  BY <1>6, <1>7 DEF Steady, Keeps
<1>9. /\ gn'[n].ev = "clear" /\ gn'[n].handler = gn[n].handler /\ gn'[n].irqfd = gn[n].irqfd
      /\ gn'[n].onMasked = gn[n].onMasked /\ gn'[n].masked = gn[n].masked
      /\ gn'[n].vector = gn[n].vector /\ (gn'[n].due = "yes" => gn[n].due = "yes")
      /\ c[n].vector = gn[n].vector
  <2>1. c[n] = k /\ gn[n] = h
    BY <1>3, <1>6
  <2>2. /\ gn'[n].ev = c[n].ev /\ gn'[n].handler = c[n].handler
        /\ gn'[n].irqfd = c[n].irqfd /\ gn'[n].onMasked = c[n].onMasked
        /\ gn'[n].masked = c[n].masked /\ gn'[n].vector = c[n].vector
        /\ (gn'[n].due = "yes" => c[n].due = "yes")
    BY <1>7
  <2>3. QED
    BY <1>5, <2>1, <2>2
<1>10. Keeps(n)
  BY <1>1, <1>9 DEF Keeps
<1>11. gn'[n].due = "yes" => Reaches(n)'
  <2> SUFFICES ASSUME gn'[n].due = "yes" PROVE Reaches(n)'
    OBVIOUS
  <2>1. HasVector(n) /\ gn[n].vector \in Vectors
    <3>1. QueueOK(n) /\ gn[n].due = "yes" /\ intr # "intx"
      BY <1>7, <1>9 DEF GuestInv, QueuesInv
    <3>2. QED
      BY <1>2, <3>1 DEF QueueOK, WantsInterrupt, HasVector, GuestNotifier
  <2>2. InUse(gn[n].vector)
    BY <1>2, <2>1, UsedBy
  <2>3. vec'[gn[n].vector].masked /\ vec'[gn[n].vector].pending
    BY <1>7, <1>9, <2>1, <2>2 DEF PendingGrows
  <2>4. QED
    BY <1>9, <2>1, <2>3 DEF Reaches, HasVector
<1>12. QED
  BY <1>1, <1>7, <1>8, <1>9, <1>10, <1>11, OneQueueIdle

(* What a running backend does, it does between set-up and taking down. *)
LEMMA ServingElsewhere ==
  ASSUME HostInv, active
  PROVE  Nth(1).do \notin GuestSteps
<1>1. CASE todo = <<>>
  <2>1. Nth(1) = Last
    BY <1>1 DEF Nth
  <2>2. QED
    BY <2>1 DEF Last, Step, GuestSteps, SetGuestSteps
<1>2. CASE todo # <<>>
  <2>1. Nth(1) = todo[1]
    BY <1>2, FirstNth DEF HostInv
  <2>2. QED
    BY <1>2, <2>1 DEF HostInv, HeadInv, Finds, NobodyServes
<1>3. QED
  BY <1>1, <1>2

(* The steps of an unmasking that goes on are for queues of its vector. *)
LEMMA UnmaskingSame ==
  ASSUME GuestInv, UNCHANGED <<todo, active, intr, canMask, irqfds, notifiers, vec>>,
         \A q \in Queues : gn'[q].vector = gn[q].vector,
         Nth(1).do \notin GuestSteps
  PROVE  /\ \A q \in Queues : (Waits(q)' <=> Waits(q)) /\ (Tests(q)' <=> Tests(q))
         /\ \A v \in Vectors : Fires(v)' <=> Fires(v)
         /\ UnmaskingInv'
         /\ Nth(1)'.do \notin GuestSteps
<1>1. Nth(1)' = Nth(1) /\ Nth(2)' = Nth(2) /\ Nth(3)' = Nth(3) /\ Nth(4)' = Nth(4)
  BY DEF Nth
<1>2. Watched' <=> Watched
  BY <1>1 DEF Watched, Serving
<1>3. \A v : Sharing(v)' = Sharing(v)
  BY DEF Sharing
<1>4. UnmaskingInv'
  BY <1>1, <1>2, <1>3 DEF GuestInv, UnmaskingInv, UnmasksFor
<1>5. Nth(1).do \in {"unmask", "test_pending"} =>
        \A s \in {Nth(1), Nth(2)} : s.do = "unmask" => s.n \in Queues
  <2> SUFFICES ASSUME Nth(1).do \in {"unmask", "test_pending"},
                      NEW s \in {Nth(1), Nth(2)}, s.do = "unmask"
               PROVE  s.n \in Queues
    OBVIOUS
  <2>1. PICK v \in Vectors : UnmasksFor(v)
    BY DEF GuestInv, UnmaskingInv, UnmaskingSteps
  <2>2. \A n : Step("unmask", n).do = "unmask" /\ Step("unmask", n).n = n
               /\ Step("test_pending", n).do = "test_pending"
    BY DEF Step
  <2>3. Step("fire", v).do = "fire"
    BY DEF Step
  <2>4. PICK n \in Queues :
          \/ Nth(1) = Step("unmask", n) /\ Nth(2) = Step("fire", v)
          \/ Nth(1) = Step("test_pending", n)
             /\ \/ Nth(2) = Step("fire", v)
                \/ \E m \in Queues : Nth(2) = Step("unmask", m)
    BY <2>1, <2>3 DEF UnmasksFor, Sharing
  <2>5. CASE s = Nth(1)
    BY <2>2, <2>4, <2>5
  <2>6. CASE s = Nth(2)
    BY <2>2, <2>3, <2>4, <2>6
  <2>7. QED
    BY <2>5, <2>6
<1>6. \A q \in Queues : Waits(q)' <=> Waits(q)
  BY <1>1, <1>5 DEF Waits
<1>7. QED
  BY <1>1, <1>4, <1>6 DEF Tests, Fires

(* A vhost backend signals a queue, in the middle of any handler. *)
LEMMA BackendSignalsKeepsGuest ==
  ASSUME HostInv, GuestInv, NEW n \in Queues, active, BackendSignals(n), UNCHANGED active
  PROVE  GuestInv'
<1>1. UNCHANGED <<todo, active, intr, canMask, irqfds, notifiers, vec>>
  BY DEF BackendSignals
<1>2. GuestShape /\ gn \in [Queues -> GuestNotifier] /\ QueueOK(n)
  BY DEF GuestInv, GuestShape, QueuesInv
<1>3. PICK g \in [Queues -> GuestNotifier] :
        /\ g = MarkDue(n)
        /\ SetsDue(g[n], gn[n], IF WantsInterrupt(n) THEN "yes" ELSE "no")
        /\ \A q \in Queues \ {n} : g[q] = gn[q]
  BY <1>2, MarkedDue
<1>4. Nth(1).do \notin GuestSteps
  BY ServingElsewhere
<1>5. Assigned(n) /\ RoutedNow(n) /\ Serving
  BY DEF Assigned, RoutedNow, Serving
<1>6. /\ gn' \in [Queues -> GuestNotifier]
      /\ \A q \in Queues \ {n} : Steady(q)
      /\ gn'[n].vector = gn[n].vector /\ gn'[n].handler = gn[n].handler
      /\ gn'[n].irqfd = gn[n].irqfd /\ gn'[n].onMasked = gn[n].onMasked
      /\ (gn'[n].due = "yes" => WantsInterrupt(n))
      /\ IF gn[n].onMasked /\ canMask THEN gn'[n].masked /\ gn'[n].ev = gn[n].ev
         ELSE /\ gn'[n].masked = gn[n].masked
              /\ gn[n].irqfd => gn'[n].due # "yes" /\ gn'[n].ev = gn[n].ev
              /\ ~gn[n].irqfd => gn'[n].ev = "set"
  <2>1. CASE gn[n].onMasked /\ canMask
    <3>1. PICK h \in GuestNotifier : h = g[n]
      OBVIOUS
    <3>2. PICK k \in GuestNotifier :
            /\ k = [h EXCEPT !.masked = TRUE]
            /\ k.ev = h.ev /\ k.irqfd = h.irqfd /\ k.handler = h.handler
            /\ k.onMasked = h.onMasked /\ k.masked /\ k.vector = h.vector /\ k.due = h.due
      <4>1. [h EXCEPT !.masked = TRUE] \in GuestNotifier
        BY DEF GuestNotifier
      <4>2. QED
        BY <4>1 DEF GuestNotifier
    <3>3. gn' = [g EXCEPT ![n].masked = TRUE]
      BY <1>3, <2>1 DEF BackendSignals
    <3>4. gn' = [g EXCEPT ![n] = k]
      BY <3>1, <3>2, <3>3, Zenon
    <3>5. gn' \in [Queues -> GuestNotifier] /\ gn'[n] = k /\ \A q \in Queues \ {n} : gn'[q] = gn[q]
      BY <1>3, <3>4
    <3>6. QED
      BY <1>3, <2>1, <3>1, <3>2, <3>5 DEF SetsDue, Steady, Keeps
  <2>2. CASE ~(gn[n].onMasked /\ canMask)
    <3>1. SignalTo(n, g)
      BY <1>3, <2>2 DEF BackendSignals
    <3>2. /\ gn' \in [Queues -> GuestNotifier]
          /\ \A q \in Queues : /\ gn'[q].handler = g[q].handler
                               /\ gn'[q].irqfd = g[q].irqfd /\ gn'[q].onMasked = g[q].onMasked
                               /\ gn'[q].masked = g[q].masked /\ gn'[q].vector = g[q].vector
                               /\ gn'[q].due = "yes" => g[q].due = "yes"
                               /\ q # n => gn'[q].ev = g[q].ev
          /\ g[n].irqfd => gn'[n].due # "yes" /\ gn'[n].ev = g[n].ev
          /\ ~g[n].irqfd => gn'[n].ev = "set"
      BY <3>1, SignalDoes
    <3>3. \A q \in Queues \ {n} : Steady(q)
      BY <1>3, <3>2 DEF Steady, Keeps
    <3>4. /\ gn'[n].vector = gn[n].vector /\ gn'[n].handler = gn[n].handler
          /\ gn'[n].irqfd = gn[n].irqfd /\ gn'[n].onMasked = gn[n].onMasked
          /\ (gn'[n].due = "yes" => WantsInterrupt(n))
          /\ gn'[n].masked = gn[n].masked
          /\ g[n].irqfd = gn[n].irqfd /\ g[n].ev = gn[n].ev
      BY <1>3, <3>2 DEF SetsDue
    <3>5. QED
      BY <2>2, <3>2, <3>3, <3>4
  <2>3. QED
    BY <2>1, <2>2
<1>7. \A q \in Queues : gn'[q].vector = gn[q].vector
  BY <1>6 DEF Steady, Keeps
<1>8. /\ \A q \in Queues : (Waits(q)' <=> Waits(q)) /\ (Tests(q)' <=> Tests(q))
      /\ \A v \in Vectors : Fires(v)' <=> Fires(v)
      /\ UnmaskingInv'
      /\ Nth(1)'.do \notin GuestSteps
  BY <1>1, <1>4, <1>7, UnmaskingSame
<1>9. (Watched' <=> Watched) /\ (Watched <=> (intr = "irqfd" \/ canMask))
      /\ Assigned(n)' /\ RoutedNow(n)'
  BY <1>1, <1>4, <1>8, Between
<1>10. HasVector(n)' = HasVector(n) /\ Unmasked(n)' = Unmasked(n)
       /\ (Routed(n)' <=> Routed(n)) /\ (Heard(n)' <=> Heard(n))
  BY <1>1, <1>5, <1>7, <1>8, <1>9 DEF HasVector, Unmasked, Routed, Heard
<1>11. Keeps(n)
  <2>1. gn[n].ev # "closed"
    BY <1>2, <1>5 DEF QueueOK
  <2>2. QED
    BY <1>6, <2>1 DEF Keeps
<1>12. QueueOK(n)'
  BY <1>1, <1>2, <1>5, <1>6, <1>9, <1>10, <1>11, QueueKept
<1>13. gn'[n].due = "yes" => Reaches(n)'
  <2> SUFFICES ASSUME gn'[n].due = "yes" PROVE Reaches(n)'
    OBVIOUS
  <2>1. intr # "intx" => HasVector(n)
    BY <1>6 DEF WantsInterrupt, HasVector
  <2>2. ~Unmasked(n) /\ HasVector(n) => vec[gn[n].vector].masked
    BY DEF Unmasked
  <2>3. CASE gn[n].onMasked /\ canMask
    <3>1. intr # "intx" /\ ~Heard(n)
      BY <1>2, <1>5, <2>3 DEF QueueOK
    <3>2. vec[gn[n].vector].masked \/ Waits(n)
      BY <1>9, <2>1, <2>2, <2>3, <3>1 DEF Heard
    <3>3. QED
      BY <1>1, <1>6, <1>8, <1>10, <2>1, <2>3, <3>1, <3>2 DEF Reaches
  <2>4. CASE ~(gn[n].onMasked /\ canMask)
    <3>1. ~gn[n].irqfd /\ gn'[n].ev = "set"
      BY <1>6, <2>4
    <3>2. CASE gn[n].handler
      BY <1>6, <3>1, <3>2 DEF Reaches
    <3>3. CASE ~gn[n].handler
      <4>1. intr = "irqfd" /\ HasVector(n) /\ Routed(n)
        BY <1>2, <1>5, <2>1, <3>3 DEF QueueOK, Routed
      <4>2. ~canMask /\ ~Heard(n)
        BY <1>2, <3>1, <4>1 DEF QueueOK
      <4>3. vec[gn[n].vector].masked \/ Waits(n)
        BY <1>9, <2>2, <4>1, <4>2 DEF Heard
      <4>4. QED
        BY <1>1, <1>6, <1>8, <1>10, <3>1, <4>1, <4>2, <4>3 DEF Reaches
    <3>4. QED
      BY <3>2, <3>3
  <2>5. QED
    BY <2>3, <2>4
<1>14. QED
  BY <1>1, <1>4, <1>6, <1>8, <1>12, <1>13, OneQueueBetween

(* A vector's bits change, its users do not. *)
SetsBits(k, w, masked, pending) ==
  /\ k \in Vector
  /\ k.used = w.used /\ k.users = w.users
  /\ k.masked = masked /\ k.pending = pending

(* Setting one of the bits does only that. *)
LEMMA BitsSet ==
  ASSUME NEW w \in Vector
  PROVE  /\ SetsBits(w, w, w.masked, w.pending)
         /\ \A b \in BOOLEAN : /\ SetsBits([w EXCEPT !.masked = b], w, b, w.pending)
                               /\ SetsBits([w EXCEPT !.pending = b], w, w.masked, b)
BY DEF SetsBits, Vector

(* What the guest masks, the backend's signals of it are put aside or left   *)
(* in the eventfd.                                                          *)
LEMMA MaskingDoes ==
  ASSUME GuestShape, NEW q \in Queues
  PROVE  SetsPath(Masking(q, gn)[q], gn[q], gn[q].irqfd /\ canMask, gn[q].onMasked \/ canMask)
<1>0. gn \in [Queues -> GuestNotifier]
  BY DEF GuestShape
<1>1. PICK h \in GuestNotifier : h = gn[q]
  BY <1>0
<1>2. /\ SetsPath([h EXCEPT !.irqfd = FALSE], h, FALSE, h.onMasked)
      /\ SetsPath([h EXCEPT !.onMasked = TRUE], h, h.irqfd, TRUE)
  BY PathSet
<1>3. CASE canMask
  <2>1. Masking(q, gn)[q] = [h EXCEPT !.onMasked = TRUE]
    BY <1>0, <1>1, <1>3 DEF Masking
  <2>2. (h.irqfd /\ canMask) = h.irqfd /\ (h.onMasked \/ canMask) = TRUE
    BY <1>3 DEF GuestNotifier
  <2>3. QED
    BY <1>1, <1>2, <2>1, <2>2, ZenonT(40)
<1>4. CASE ~canMask
  <2>1. Masking(q, gn)[q] = [h EXCEPT !.irqfd = FALSE]
    BY <1>0, <1>1, <1>4 DEF Masking
  <2>2. (h.irqfd /\ canMask) = FALSE /\ (h.onMasked \/ canMask) = h.onMasked
    BY <1>4 DEF GuestNotifier
  <2>3. QED
    BY <1>1, <1>2, <2>1, <2>2, ZenonT(40)
<1>5. QED
  BY <1>3, <1>4

(* virtio_pci_vector_mask *)
LEMMA MaskVectorKeepsGuest ==
  ASSUME GuestInv, NEW v \in Vectors, intr # "intx", MaskVector(v), UNCHANGED active
  PROVE  GuestInv'
<1>1. /\ Idle /\ ~vec[v].masked
      /\ vec' = [vec EXCEPT ![v].masked = TRUE]
      /\ gn' = [q \in Queues |->
                  IF notifiers /\ gn[q].vector = v THEN Masking(q, gn)[q] ELSE gn[q]]
      /\ UNCHANGED <<todo, active, intr, canMask, irqfds, notifiers>>
  BY DEF MaskVector
<1>2. GuestShape /\ gn \in [Queues -> GuestNotifier] /\ vec \in [Vectors -> Vector]
  BY DEF GuestInv, GuestShape
<1>3. Elsewhere(Nth(1)) /\ Elsewhere(Nth(1)')
  BY <1>1, IdleElsewhere
<1>4. /\ \A q \in Queues : /\ (Assigned(q) <=> active) /\ (Assigned(q)' <=> active)
                           /\ (RoutedNow(q) <=> active) /\ (RoutedNow(q)' <=> active)
                           /\ ~Waits(q) /\ ~Waits(q)' /\ ~Tests(q) /\ ~Tests(q)'
      /\ \A w : ~Fires(w) /\ ~Fires(w)'
      /\ Watched' <=> Watched
      /\ FlagsInv' /\ UnmaskingInv'
      /\ notifiers <=> Watched
  BY <1>1, <1>3, ElsewhereBoth
<1>5. /\ vec' \in [Vectors -> Vector]
      /\ \A w \in Vectors : /\ vec'[w].used = vec[w].used /\ vec'[w].users = vec[w].users
                            /\ vec'[w].pending = vec[w].pending
                            /\ vec'[w].masked <=> vec[w].masked \/ w = v
  <2>1. PICK w \in Vector : w = vec[v]
    BY <1>2
  <2>2. vec' = [vec EXCEPT ![v] = [w EXCEPT !.masked = TRUE]]
    BY <1>1, <1>2, <2>1, Zenon
  <2>3. SetsBits([w EXCEPT !.masked = TRUE], w, TRUE, w.pending)
    BY BitsSet
  <2>4. QED
    BY <1>2, <2>1, <2>2, <2>3 DEF SetsBits
<1>6. ASSUME NEW q \in Queues
      PROVE  IF notifiers /\ gn[q].vector = v
             THEN SetsPath(gn'[q], gn[q], gn[q].irqfd /\ canMask, gn[q].onMasked \/ canMask)
             ELSE gn'[q] = gn[q]
  BY <1>1, <1>2, MaskingDoes
<1>7. gn' \in [Queues -> GuestNotifier]
  <2>1. gn' = [q \in Queues |-> gn'[q]]
    BY <1>1
  <2>2. \A q \in Queues : gn'[q] \in GuestNotifier
    BY <1>2, <1>6 DEF SetsPath
  <2>3. QED
    BY <2>1, <2>2
<1>8. \A q \in Queues : /\ gn'[q].vector = gn[q].vector /\ gn'[q].ev = gn[q].ev
                        /\ gn'[q].handler = gn[q].handler /\ gn'[q].masked = gn[q].masked
                        /\ gn'[q].due = gn[q].due
                        /\ HasVector(q) => gn[q].vector \in Vectors
  BY <1>2, <1>6 DEF SetsPath, HasVector, GuestNotifier
<1>9. \A q \in Queues : HasVector(q)' = HasVector(q) /\ (Routed(q)' <=> Routed(q))
                        /\ (Unmasked(q)' <=> Unmasked(q) /\ gn[q].vector # v)
  BY <1>1, <1>4, <1>5, <1>8 DEF HasVector, Routed, Unmasked
<1>10. VectorsInv'
  BY <1>5, <1>8, <1>9, SameVectors DEF GuestInv
<1>11. QueuesInv'
  <2> SUFFICES ASSUME NEW q \in Queues PROVE QueueOK(q)'
    BY DEF QueuesInv
  <2>1. QueueOK(q)
    BY DEF GuestInv, QueuesInv
  <2>2. Heard(q)' <=> Heard(q) /\ gn[q].vector # v
    BY <1>1, <1>4, <1>9 DEF Heard
  <2>3. (Assigned(q)' <=> Assigned(q)) /\ (Routed(q)' <=> Routed(q))
    BY <1>4, <1>9
  <2>4. CASE notifiers /\ gn[q].vector = v
    <3>1. SetsPath(gn'[q], gn[q], gn[q].irqfd /\ canMask, gn[q].onMasked \/ canMask)
      BY <1>6, <2>4
    <3>2. ~Heard(q)'
      BY <2>2, <2>4
    <3>3. /\ gn'[q].ev = gn[q].ev /\ gn'[q].handler = gn[q].handler
          /\ gn'[q].masked = gn[q].masked /\ gn'[q].due = gn[q].due
          /\ gn'[q].vector = gn[q].vector
          /\ gn'[q].irqfd <=> gn[q].irqfd /\ canMask
          /\ gn'[q].onMasked <=> gn[q].onMasked \/ canMask
      BY <3>1 DEF SetsPath
    <3>4. QED
      BY <1>1, <2>1, <2>3, <3>2, <3>3 DEF QueueOK, WantsInterrupt
  <2>5. CASE ~(notifiers /\ gn[q].vector = v)
    <3>1. gn'[q] = gn[q]
      BY <1>6, <2>5
    <3>2. Heard(q)' <=> Heard(q)
      BY <1>4, <2>2, <2>5 DEF Heard
    <3>3. QED
      BY <1>1, <2>1, <2>3, <3>1, <3>2 DEF QueueOK, WantsInterrupt
  <2>6. QED
    BY <2>4, <2>5
<1>12. DueInv'
  <2> SUFFICES ASSUME NEW q \in Queues, gn'[q].due = "yes" PROVE Reaches(q)'
    BY DEF DueInv
  <2>1. Reaches(q)
    BY <1>8 DEF GuestInv, DueInv
  <2>2. QED
    BY <1>1, <1>4, <1>5, <1>8, <1>9, <2>1 DEF Reaches
<1>13. GuestShape'
  BY <1>1, <1>2, <1>5, <1>7 DEF GuestShape
<1>14. QED
  BY <1>4, <1>10, <1>11, <1>12, <1>13 DEF GuestInv

(* virtio_pci_vector_poll *)
LEMMA PollVectorsKeepsGuest ==
  ASSUME GuestInv, PollVectors, UNCHANGED active
  PROVE  GuestInv'
<1> DEFINE waiting == {q \in Queues : /\ gn[q].vector # NoVector
                                      /\ vec[gn[q].vector].masked
                                      /\ IF canMask THEN gn[q].masked ELSE gn[q].ev = "set"}
<1>1. /\ Idle /\ notifiers
      /\ gn' = [q \in Queues |->
                  IF q \notin waiting THEN gn[q]
                  ELSE IF canMask THEN [gn[q] EXCEPT !.masked = FALSE]
                  ELSE [gn[q] EXCEPT !.ev = "clear"]]
      /\ vec' = [v \in Vectors |->
                   [vec[v] EXCEPT !.pending = @ \/ \E q \in waiting : gn[q].vector = v]]
      /\ UNCHANGED <<todo, active, intr, canMask, irqfds, notifiers>>
  BY DEF PollVectors
<1>w. \A q \in Queues : q \in waiting <=>
                           /\ HasVector(q) /\ vec[gn[q].vector].masked
                           /\ IF canMask THEN gn[q].masked ELSE gn[q].ev = "set"
  BY DEF HasVector
<1> HIDE DEF waiting
<1>2. GuestShape /\ gn \in [Queues -> GuestNotifier] /\ vec \in [Vectors -> Vector]
  BY DEF GuestInv, GuestShape
<1>3. Elsewhere(Nth(1)) /\ Elsewhere(Nth(1)')
  BY <1>1, IdleElsewhere
<1>4. /\ \A q \in Queues : /\ (Assigned(q) <=> active) /\ (Assigned(q)' <=> active)
                           /\ (RoutedNow(q) <=> active) /\ (RoutedNow(q)' <=> active)
                           /\ ~Waits(q) /\ ~Waits(q)' /\ ~Tests(q) /\ ~Tests(q)'
      /\ \A w : ~Fires(w) /\ ~Fires(w)'
      /\ Watched' <=> Watched
      /\ FlagsInv' /\ UnmaskingInv'
  BY <1>1, <1>3, ElsewhereBoth
<1>5. ASSUME NEW w \in Vectors
      PROVE  /\ vec'[w] \in Vector
             /\ vec'[w].used = vec[w].used /\ vec'[w].users = vec[w].users
             /\ vec'[w].masked = vec[w].masked
             /\ vec[w].pending => vec'[w].pending
             /\ \A q \in waiting : gn[q].vector = w => vec'[w].pending
  <2>1. PICK x \in Vector, b \in BOOLEAN :
          x = vec[w] /\ b = (vec[w].pending \/ \E q \in waiting : gn[q].vector = w)
    BY <1>2
  <2>2. vec'[w] = [x EXCEPT !.pending = b]
    BY <1>1, <2>1
  <2>3. SetsBits(vec'[w], x, x.masked, b)
    BY <2>2, BitsSet
  <2>4. QED
    BY <2>1, <2>3 DEF SetsBits
<1>6. ASSUME NEW q \in Queues
      PROVE  /\ gn'[q] \in GuestNotifier /\ Keeps(q)
             /\ (gn'[q].masked => gn[q].masked) /\ gn'[q].due = gn[q].due
             /\ q \notin waiting => gn'[q] = gn[q]
  <2>1. CASE q \notin waiting
    <3>1. gn'[q] = gn[q]
      BY <1>1, <2>1
    <3>2. QED
      BY <1>2, <2>1, <3>1 DEF Keeps
  <2>2. CASE q \in waiting /\ canMask
    <3>1. PICK h \in GuestNotifier : h = gn[q]
      BY <1>2
    <3>2. gn'[q] = [h EXCEPT !.masked = FALSE]
      BY <1>1, <2>2, <3>1
    <3>3. gn'[q] \in GuestNotifier
      BY <3>2 DEF GuestNotifier
    <3>4. QED
      BY <2>2, <3>1, <3>2, <3>3 DEF GuestNotifier, Keeps
  <2>3. CASE q \in waiting /\ ~canMask
    <3>1. PICK h \in GuestNotifier : h = gn[q]
      BY <1>2
    <3>2. gn'[q] = [h EXCEPT !.ev = "clear"] /\ h.ev = "set"
      BY <1>1, <1>w, <2>3, <3>1
    <3>3. gn'[q] \in GuestNotifier
      BY <3>2 DEF GuestNotifier
    <3>4. QED
      BY <2>3, <3>1, <3>2, <3>3 DEF GuestNotifier, Keeps
  <2>4. QED
    BY <2>1, <2>2, <2>3
<1>7. GuestShape'
  <2>1. gn' = [q \in Queues |-> gn'[q]] /\ vec' = [v \in Vectors |-> vec'[v]]
    BY <1>1
  <2>2. gn' \in [Queues -> GuestNotifier] /\ vec' \in [Vectors -> Vector]
    BY <1>5, <1>6, <2>1
  <2>3. QED
    BY <1>1, <1>2, <2>2 DEF GuestShape
<1>8. \A q \in Queues : /\ gn'[q].vector = gn[q].vector
                        /\ HasVector(q) => gn[q].vector \in Vectors
  BY <1>2, <1>6 DEF Keeps, HasVector, GuestNotifier
<1>9. \A q \in Queues : HasVector(q)' = HasVector(q) /\ Unmasked(q)' = Unmasked(q)
                        /\ (Routed(q)' <=> Routed(q))
  BY <1>1, <1>4, <1>5, <1>8 DEF HasVector, Routed, Unmasked
<1>10. VectorsInv'
  BY <1>5, <1>8, <1>9, SameVectors DEF GuestInv
<1>11. QueuesInv'
  <2> SUFFICES ASSUME NEW q \in Queues PROVE QueueOK(q)'
    BY DEF QueuesInv
  <2>1. QueueOK(q) /\ Keeps(q) /\ (gn'[q].masked => active')
        /\ (gn'[q].due = "yes" => gn[q].due = "yes")
    <3>1. QueueOK(q)
      BY DEF GuestInv, QueuesInv
    <3>2. gn[q].masked => active'
      BY <1>1, <3>1 DEF QueueOK
    <3>3. QED
      BY <1>6, <3>1, <3>2
  <2>2. Heard(q)' <=> Heard(q)
    BY <1>1, <1>4, <1>9 DEF Heard
  <2>3. (Assigned(q)' <=> Assigned(q)) /\ (Routed(q)' <=> Routed(q))
    BY <1>4, <1>9
  <2>4. UNCHANGED <<intr, canMask>>
    BY <1>1
  <2>5. QED
    BY <2>1, <2>2, <2>3, <2>4, QueueKept
<1>12. DueInv'
  <2> SUFFICES ASSUME NEW q \in Queues, gn'[q].due = "yes" PROVE Reaches(q)'
    BY DEF DueInv
  <2>1. CASE q \in waiting
    BY <1>5, <1>8, <1>9, <1>w, <2>1 DEF Reaches
  <2>2. CASE q \notin waiting
    <3>1. Reaches(q) /\ gn'[q] = gn[q]
      BY <1>6, <2>2 DEF GuestInv, DueInv
    <3>2. ~Waits(q) /\ ~Tests(q) /\ ~Fires(gn[q].vector) /\ HasVector(q)' = HasVector(q)
      BY <1>4, <1>9
    <3>3. \/ gn[q].ev = "set" /\ gn[q].handler
          \/ /\ HasVector(q) /\ vec[gn[q].vector].pending /\ vec[gn[q].vector].masked
      BY <1>w, <2>2, <3>1, <3>2 DEF Reaches
    <3>4. CASE gn[q].ev = "set" /\ gn[q].handler
      BY <3>1, <3>4 DEF Reaches
    <3>5. CASE /\ HasVector(q) /\ vec[gn[q].vector].pending /\ vec[gn[q].vector].masked
      <4>1. vec'[gn[q].vector].pending /\ vec'[gn[q].vector].masked
        BY <1>5, <1>8, <3>5
      <4>2. QED
        BY <3>1, <3>2, <3>5, <4>1 DEF Reaches
    <3>6. QED
      BY <3>3, <3>4, <3>5
  <2>3. QED
    BY <2>1, <2>2
<1>13. QED
  BY <1>4, <1>7, <1>10, <1>11, <1>12 DEF GuestInv

(* A handler of one step. *)
LEMMA EntersOne ==
  ASSUME NEW a, todo' = <<a>>
  PROVE  Nth(1)' = a /\ Nth(2)' = Last /\ Nth(3)' = Last
<1>1. Len(<<a>>) = 1 /\ <<a>>[1] = a /\ 1 <= 1 /\ ~(2 <= 1) /\ ~(3 <= 1)
  OBVIOUS
<1>2. Nth(1)' = IF 1 <= Len(todo') THEN todo'[1] ELSE Last'
  BY DEF Nth
<1>3. /\ Nth(2)' = IF 2 <= Len(todo') THEN todo'[2] ELSE Last'
      /\ Nth(3)' = IF 3 <= Len(todo') THEN todo'[3] ELSE Last'
  BY DEF Nth
<1>4. Last' = Last
  BY DEF Last, Step
<1>5. QED
  BY <1>1, <1>2, <1>3, <1>4

(* A handler of two steps. *)
LEMMA EntersTwo ==
  ASSUME NEW a, NEW b, todo' = <<a, b>>
  PROVE  Nth(1)' = a /\ Nth(2)' = b /\ Nth(3)' = Last
<1>1. /\ Len(<<a, b>>) = 2 /\ <<a, b>>[1] = a /\ <<a, b>>[2] = b
      /\ 1 <= 2 /\ 2 <= 2 /\ ~(3 <= 2)
  OBVIOUS
<1>2. Nth(1)' = IF 1 <= Len(todo') THEN todo'[1] ELSE Last'
  BY DEF Nth
<1>3. /\ Nth(2)' = IF 2 <= Len(todo') THEN todo'[2] ELSE Last'
      /\ Nth(3)' = IF 3 <= Len(todo') THEN todo'[3] ELSE Last'
  BY DEF Nth
<1>4. Last' = Last
  BY DEF Last, Step
<1>5. QED
  BY <1>1, <1>2, <1>3, <1>4

(* msix unmasks a vector, and has the proxy unmask its queues *)
LEMMA UnmaskVectorKeepsGuest ==
  ASSUME HostInv, GuestInv, NEW v \in Vectors, intr # "intx", UnmaskVector(v), UNCHANGED active
  PROVE  GuestInv'
<1>1. /\ Idle /\ vec[v].masked
      /\ vec' = [vec EXCEPT ![v].masked = FALSE]
      /\ todo' = (IF notifiers THEN NextSharing(v, 0) ELSE <<>>) \o <<Step("fire", v)>>
      /\ UNCHANGED <<active, intr, canMask, gn, irqfds, notifiers>>
  BY DEF UnmaskVector
<1>2. GuestShape /\ gn \in [Queues -> GuestNotifier] /\ vec \in [Vectors -> Vector]
  BY DEF GuestInv, GuestShape
<1>3. \A q \in Queues : q \in Nat /\ q > 0
  BY NQueuesAssumption DEF Queues
<1>4. Nth(1) = Last /\ Nth(1).do = "none"
  BY <1>1 DEF Idle, Nth, Last, Step
<1>5. Nth(1).do \notin GuestSteps
  BY <1>4 DEF GuestSteps, SetGuestSteps
<1>6. /\ \A q \in Queues : ~Waits(q) /\ ~Tests(q)
      /\ \A w : ~Fires(w)
  BY <1>4 DEF Waits, Tests, Fires, UnmaskingSteps
<1>7. /\ vec' \in [Vectors -> Vector]
      /\ \A w \in Vectors : /\ vec'[w].used = vec[w].used /\ vec'[w].users = vec[w].users
                            /\ vec'[w].pending = vec[w].pending
                            /\ vec'[w].masked <=> vec[w].masked /\ w # v
  <2>1. PICK w \in Vector : w = vec[v]
    BY <1>2
  <2>2. vec' = [vec EXCEPT ![v] = [w EXCEPT !.masked = FALSE]]
    BY <1>1, <1>2, <2>1, Zenon
  <2>3. SetsBits([w EXCEPT !.masked = FALSE], w, FALSE, w.pending)
    BY BitsSet
  <2>4. QED
    BY <1>2, <2>1, <2>2, <2>3 DEF SetsBits
<1>8. \/ /\ ~notifiers \/ \A q \in Queues : gn[q].vector # v
         /\ todo' = <<Step("fire", v)>>
      \/ \E m \in Queues : /\ notifiers /\ gn[m].vector = v
                           /\ \A q \in Queues : gn[q].vector = v => m <= q
                           /\ todo' = <<Step("unmask", m), Step("fire", v)>>
  <2>1. CASE ~notifiers
    <3>1. todo' = <<>> \o <<Step("fire", v)>>
      BY <1>1, <2>1
    <3>2. QED
      BY <2>1, <3>1, Lists
  <2>2. CASE notifiers /\ NextSharing(v, 0) = <<>> /\ \A p \in Queues : ~(gn[p].vector = v /\ p > 0)
    <3>1. todo' = <<>> \o <<Step("fire", v)>>
      BY <1>1, <2>2
    <3>2. QED
      BY <1>3, <2>2, <3>1, Lists
  <2>3. CASE notifiers /\ \E m \in Queues : /\ NextSharing(v, 0) = <<Step("unmask", m)>>
                                           /\ gn[m].vector = v /\ m > 0
                                           /\ \A p \in Queues : gn[p].vector = v /\ p > 0 => m <= p
    <3>1. PICK m \in Queues : /\ NextSharing(v, 0) = <<Step("unmask", m)>>
                              /\ gn[m].vector = v
                              /\ \A p \in Queues : gn[p].vector = v /\ p > 0 => m <= p
      BY <2>3
    <3>2. todo' = <<Step("unmask", m)>> \o <<Step("fire", v)>>
      BY <1>1, <2>3, <3>1
    <3>3. todo' = <<Step("unmask", m), Step("fire", v)>>
      BY <3>2, Lists
    <3>4. QED
      BY <1>3, <2>3, <3>1, <3>3
  <2>4. QED
    BY <2>1, <2>2, <2>3, NextSharingIs
<1>9. /\ Nth(1)'.do \in {"unmask", "fire"} /\ Nth(1)'.do \notin GuestSteps
      /\ \A w : Fires(w)' <=> w = v
      /\ \A q \in Queues : ~Tests(q)' /\ (Waits(q)' <=> notifiers /\ gn[q].vector = v)
      /\ \/ Nth(1)' = Step("fire", v) /\ Nth(2)' = Last
         \/ \E m \in Queues : /\ notifiers /\ gn[m].vector = v
                              /\ Nth(1)' = Step("unmask", m)
                              /\ Nth(2)' = Step("fire", v) /\ Nth(3)' = Last
  <2>1. CASE /\ ~notifiers \/ \A q \in Queues : gn[q].vector # v
             /\ todo' = <<Step("fire", v)>>
    <3>1. Nth(1)' = Step("fire", v) /\ Nth(2)' = Last /\ Nth(3)' = Last
      BY <2>1, EntersOne
    <3>2. /\ Nth(1)'.do = "fire"
          /\ \A w : Step("fire", w) = Step("fire", v) <=> w = v
          /\ \A w : Step("fire", w) # Last
      BY <3>1 DEF Step, Last
    <3>3. \A w : Fires(w)' <=> w = v
      BY <3>1, <3>2 DEF Fires, UnmaskingSteps
    <3>4. \A q \in Queues : ~Tests(q)' /\ ~Waits(q)'
      BY <3>2 DEF Tests, Waits
    <3>5. "fire" \notin GuestSteps
      BY DEF GuestSteps, SetGuestSteps
    <3>6. QED
      BY <2>1, <3>1, <3>2, <3>3, <3>4, <3>5
  <2>2. ASSUME NEW m \in Queues, notifiers, gn[m].vector = v,
               \A q \in Queues : gn[q].vector = v => m <= q,
               todo' = <<Step("unmask", m), Step("fire", v)>>
        PROVE  /\ Nth(1)'.do = "unmask"
               /\ Nth(1)' = Step("unmask", m) /\ Nth(2)' = Step("fire", v) /\ Nth(3)' = Last
               /\ \A w : Fires(w)' <=> w = v
               /\ \A q \in Queues : ~Tests(q)' /\ (Waits(q)' <=> gn[q].vector = v)
    <3>1. Nth(1)' = Step("unmask", m) /\ Nth(2)' = Step("fire", v) /\ Nth(3)' = Last
      BY <2>2, EntersTwo
    <3>2. /\ Nth(1)'.do = "unmask" /\ Nth(1)'.n = m /\ Nth(2)'.do = "fire"
      BY <3>1 DEF Step
    <3>3. \A w : Fires(w)' <=> w = v
      BY <3>1, <3>2 DEF Fires, Step, Last, UnmaskingSteps
    <3>4. \A q \in Queues : Waits(q)' <=> gn[q].vector = v /\ q >= m
      BY <1>1, <2>2, <3>2 DEF Waits
    <3>5. \A q \in Queues : gn[q].vector = v => q >= m
      BY <1>3, <2>2
    <3>6. \A q \in Queues : ~Tests(q)'
      BY <3>2 DEF Tests
    <3>7. QED
      BY <3>1, <3>2, <3>3, <3>4, <3>5, <3>6
  <2>3. "unmask" \notin GuestSteps
    BY DEF GuestSteps, SetGuestSteps
  <2>4. QED
    BY <1>8, <2>1, <2>2, <2>3
<1>10. /\ \A q \in Queues : /\ (Assigned(q) <=> active) /\ (Assigned(q)' <=> active)
                            /\ (RoutedNow(q) <=> active) /\ (RoutedNow(q)' <=> active)
       /\ Watched <=> (intr = "irqfd" \/ canMask) /\ active
       /\ Watched' <=> Watched
       /\ FlagsInv'
  BY <1>1, <1>5, <1>9, Between
<1>11. notifiers <=> Watched
  BY DEF GuestInv, FlagsInv
<1>12. UnmaskingInv'
  <2>1. ~vec'[v].masked
    BY <1>7
  <2>2. UnmasksFor(v)'
    <3>1. CASE Nth(1)' = Step("fire", v) /\ Nth(2)' = Last
      BY <3>1 DEF UnmasksFor
    <3>2. ASSUME NEW m \in Queues, notifiers, gn[m].vector = v, Nth(1)' = Step("unmask", m),
                 Nth(2)' = Step("fire", v), Nth(3)' = Last
          PROVE  UnmasksFor(v)'
      <4>1. Watched' /\ active' /\ intr' # "intx"
        BY <1>1, <1>10, <1>11, <3>2
      <4>2. m \in Sharing(v)'
        BY <1>1, <3>2 DEF Sharing
      <4>3. QED
        BY <3>2, <4>1, <4>2 DEF UnmasksFor
    <3>3. QED
      BY <1>9, <3>1, <3>2
  <2>3. QED
    BY <2>1, <2>2 DEF UnmaskingInv
<1>13. \A q \in Queues : /\ HasVector(q)' = HasVector(q) /\ (Routed(q)' <=> Routed(q))
                         /\ HasVector(q) => gn[q].vector \in Vectors
  BY <1>1, <1>2, <1>10 DEF HasVector, Routed, GuestNotifier
<1>14. \A q \in Queues : Unmasked(q)' <=> Unmasked(q) \/ (gn[q].vector = v)
  BY <1>1, <1>7, <1>13, VectorsAssumption DEF Unmasked, HasVector
<1>15. VectorsInv'
  BY <1>1, <1>7, <1>13, SameVectors DEF GuestInv
<1>16. QueuesInv'
  <2> SUFFICES ASSUME NEW q \in Queues PROVE QueueOK(q)'
    BY DEF QueuesInv
  <2>1. QueueOK(q) /\ Keeps(q) /\ (gn'[q].masked => active')
        /\ (gn'[q].due = "yes" => gn[q].due = "yes")
    BY <1>1 DEF GuestInv, QueuesInv, QueueOK, Keeps
  <2>2. gn[q].vector = v => ~Unmasked(q)
    BY <1>1 DEF Unmasked
  <2>3. Heard(q)' <=> Heard(q)
    BY <1>1, <1>6, <1>9, <1>10, <1>11, <1>14, <2>2 DEF Heard
  <2>4. QED
    BY <1>1, <1>10, <1>13, <2>1, <2>3, QueueKept
<1>17. DueInv'
  <2> SUFFICES ASSUME NEW q \in Queues, gn'[q].due = "yes" PROVE Reaches(q)'
    BY DEF DueInv
  <2>1. Reaches(q) /\ gn' = gn /\ QueueOK(q)
    BY <1>1 DEF GuestInv, DueInv, QueuesInv
  <2>2. CASE gn[q].ev = "set" /\ gn[q].handler
    BY <2>1, <2>2 DEF Reaches
  <2>3. CASE HasVector(q) /\ vec[gn[q].vector].pending /\ vec[gn[q].vector].masked
    <3>1. PICK w \in Vectors : w = gn[q].vector /\ vec[w].pending /\ vec[w].masked
      BY <1>13, <2>3
    <3>2. vec'[w].pending /\ (vec'[w].masked \/ Fires(w)')
      BY <1>7, <1>9, <3>1
    <3>3. w = gn'[q].vector /\ HasVector(q)'
      BY <1>13, <2>1, <2>3, <3>1
    <3>4. QED
      BY <3>2, <3>3 DEF Reaches
  <2>4. CASE /\ HasVector(q) /\ vec[gn[q].vector].masked
             /\ IF canMask THEN gn[q].masked ELSE gn[q].ev = "set"
             /\ ~(gn[q].ev = "set" /\ gn[q].handler)
    <3>1. Watched
      BY <1>10, <2>1, <2>4 DEF QueueOK
    <3>2. vec'[gn[q].vector].masked \/ Waits(q)'
      BY <1>7, <1>9, <1>11, <1>13, <2>4, <3>1
    <3>3. QED
      BY <1>1, <1>13, <2>4, <3>2 DEF Reaches
  <2>5. QED
    BY <1>6, <2>1, <2>2, <2>3, <2>4 DEF Reaches
<1>18. GuestShape'
  BY <1>1, <1>2, <1>7 DEF GuestShape
<1>19. QED
  BY <1>10, <1>12, <1>15, <1>16, <1>17, <1>18 DEF GuestInv

(* As long as no backend runs, the guest notifiers are closed. *)
LEMMA NothingOpen ==
  ASSUME GuestInv, Elsewhere(Nth(1)), ~active
  PROVE  \A q \in Queues : /\ gn[q].ev = "closed" /\ ~gn[q].handler /\ ~gn[q].irqfd /\ ~gn[q].masked
                           /\ canMask => gn[q].onMasked
<1> SUFFICES ASSUME NEW q \in Queues
             PROVE  /\ gn[q].ev = "closed" /\ ~gn[q].handler /\ ~gn[q].irqfd /\ ~gn[q].masked
                    /\ canMask => gn[q].onMasked
  OBVIOUS
<1>1. ~Assigned(q) /\ ~RoutedNow(q) /\ ~Serving
  BY PhaseElsewhere
<1>2. ~Routed(q) /\ ~Heard(q)
  BY <1>1 DEF Routed, Heard, Watched
<1>3. QED
  BY <1>1, <1>2 DEF GuestInv, QueuesInv, QueueOK

(* A change of the vectors while no backend runs. *)
LEMMA IdleVectors ==
  ASSUME GuestInv, Idle, ~active, UNCHANGED <<todo, active, intr, canMask>>,
         gn' \in [Queues -> GuestNotifier], vec' \in [Vectors -> Vector],
         irqfds' \in BOOLEAN, irqfds' => irqfds, UNCHANGED notifiers,
         \A q \in Queues : /\ gn'[q].ev = gn[q].ev /\ gn'[q].handler = gn[q].handler
                           /\ gn'[q].irqfd = gn[q].irqfd /\ gn'[q].onMasked = gn[q].onMasked
                           /\ gn'[q].masked = gn[q].masked
                           /\ gn'[q].due = "yes" =>
                                gn[q].due = "yes" /\ gn'[q].vector = gn[q].vector,
         \A q \in Queues : gn'[q].due = "yes" /\ gn[q].vector \in Vectors
                             /\ vec[gn[q].vector].pending => vec'[gn[q].vector].pending,
         \A v \in Vectors : /\ vec'[v].masked = vec[v].masked
                            /\ vec'[v].users = 0
                            /\ vec'[v].used = Cardinality(Sharing(v)')
  PROVE  GuestInv'
<1>1. Elsewhere(Nth(1)) /\ Elsewhere(Nth(1)')
  BY IdleElsewhere
<1>2. \A q \in Queues : /\ gn[q].ev = "closed" /\ ~gn[q].handler /\ ~gn[q].irqfd /\ ~gn[q].masked
                        /\ canMask => gn[q].onMasked
  BY <1>1, NothingOpen
<1>3. /\ ~Serving /\ ~Serving' /\ Nth(1)'.do \notin GuestSteps
      /\ \A q \in Queues : ~Assigned(q)' /\ ~RoutedNow(q)' /\ ~Waits(q) /\ ~Tests(q)
      /\ \A w : ~Fires(w)
      /\ UnmaskingInv'
  BY <1>1 DEF Elsewhere, Serving, Assigned, RoutedNow, Waits, Tests, Fires, UnmaskingInv,
              GuestSteps, SetGuestSteps, UnmaskingSteps
<1>4. ~Watched' /\ ~notifiers' /\ (irqfds' => intr' = "irqfd")
  BY <1>3 DEF Watched, GuestInv, FlagsInv
<1>5. FlagsInv'
  BY <1>3, <1>4 DEF FlagsInv, GuestSteps, SetGuestSteps
<1>6. \A q \in Queues : ~Heard(q)' /\ ~Routed(q)'
  BY <1>3, <1>4 DEF Heard, Routed
<1>7. QueuesInv'
  <2> SUFFICES ASSUME NEW q \in Queues PROVE QueueOK(q)'
    BY DEF QueuesInv
  <2>1. QueueOK(q)
    BY DEF GuestInv, QueuesInv
  <2>2. gn'[q].due = "yes" => WantsInterrupt(q)'
    BY <2>1 DEF QueueOK, WantsInterrupt
  <2>3. /\ gn'[q].ev = "closed" /\ ~gn'[q].handler /\ ~gn'[q].irqfd /\ ~gn'[q].masked
        /\ canMask => gn'[q].onMasked
    BY <1>2
  <2>4. QED
    BY <1>3, <1>6, <2>2, <2>3 DEF QueueOK
<1>8. VectorsInv'
  <2> SUFFICES ASSUME NEW v \in Vectors PROVE VectorOK(v)'
    BY DEF VectorsInv
  <2>1. UsersOf(v)' = {}
    BY <1>6 DEF UsersOf
  <2>2. {} \in SUBSET Queues
    OBVIOUS
  <2>3. Cardinality({}) = 0
    BY <2>2, QueuesCounted
  <2>4. QED
    BY <2>1, <2>3 DEF VectorOK
<1>9. DueInv'
  <2> SUFFICES ASSUME NEW q \in Queues, gn'[q].due = "yes" PROVE Reaches(q)'
    BY DEF DueInv
  <2>1. Reaches(q) /\ gn'[q].vector = gn[q].vector
    BY DEF GuestInv, DueInv
  <2>2. HasVector(q) /\ vec[gn[q].vector].pending /\ vec[gn[q].vector].masked
    BY <1>2, <1>3, <2>1 DEF Reaches
  <2>3. gn[q].vector \in Vectors
    BY <2>2, SMTT(30) DEF GuestInv, GuestShape, HasVector, GuestNotifier
  <2>4. QED
    BY <2>1, <2>2, <2>3 DEF Reaches, HasVector
<1>10. QED
  BY <1>3, <1>5, <1>7, <1>8, <1>9 DEF GuestInv, GuestShape

(* Between two handlers a backend only runs with a ready driver. *)
LEMMA IdleReady ==
  ASSUME HostInv, Idle, ~Ready
  PROVE  ~active
BY SMTT(30) DEF HostInv, HeadInv, Idle

(* virtio_pci_load_queue: the vectors are used anew *)
LEMMA MigrateKeepsGuest ==
  ASSUME HostInv, GuestInv, Migrate
  PROVE  GuestInv'
<1>1. /\ Idle /\ ~running /\ irqfds' = FALSE
      /\ vec' = [v \in Vectors |-> [vec[v] EXCEPT !.used = Cardinality(Sharing(v)), !.users = 0]]
      /\ UNCHANGED <<todo, active, intr, canMask, gn, notifiers>>
  BY DEF Migrate
<1>2. ~active
  BY <1>1, IdleReady DEF Ready
<1>3. ASSUME NEW v \in Vectors
      PROVE  /\ vec'[v] \in Vector /\ vec'[v].masked = vec[v].masked
             /\ vec'[v].pending = vec[v].pending
             /\ vec'[v].used = Cardinality(Sharing(v)) /\ vec'[v].users = 0
  <2>1. PICK w \in Vector : w = vec[v]
    BY DEF GuestInv, GuestShape
  <2>2. Sharing(v) \in SUBSET Queues
    BY DEF Sharing
  <2>3. PICK c \in Int, z \in Int : c = Cardinality(Sharing(v)) /\ z = 0
    BY <2>2, QueuesCounted
  <2>4. vec'[v] = [w EXCEPT !.used = c, !.users = z]
    BY <1>1, <2>1, <2>3
  <2>5. PICK k \in Vector :
          /\ k = [w EXCEPT !.used = c, !.users = z]
          /\ k.used = c /\ k.users = z /\ k.masked = w.masked /\ k.pending = w.pending
    <3>1. [w EXCEPT !.used = c, !.users = z] \in Vector
      BY DEF Vector
    <3>2. QED
      BY <3>1 DEF Vector
  <2>6. QED
    BY <2>1, <2>3, <2>4, <2>5
<1>4. vec' \in [Vectors -> Vector]
  <2>1. vec' = [v \in Vectors |-> vec'[v]]
    BY <1>1
  <2>2. QED
    BY <1>3, <2>1
<1>5. \A v : Sharing(v)' = Sharing(v)
  BY <1>1 DEF Sharing
<1>6. gn' \in [Queues -> GuestNotifier]
  BY <1>1 DEF GuestInv, GuestShape
<1>7. QED
  BY <1>1, <1>2, <1>3, <1>4, <1>5, <1>6, IdleVectors, ZenonT(40)

(* The vector that a queue had is used once less, and not pending for none. *)
LEMMA UnuseDoes ==
  ASSUME NEW u \in [Vectors -> Vector], NEW x \in Vectors \cup {NoVector}
  PROVE  /\ Unuse(u, x) \in [Vectors -> Vector]
         /\ \A v \in Vectors :
              /\ Unuse(u, x)[v].masked = u[v].masked /\ Unuse(u, x)[v].users = u[v].users
              /\ v # x => Unuse(u, x)[v] = u[v]
              /\ v = x => /\ Unuse(u, x)[v].used = u[v].used - 1
                          /\ Unuse(u, x)[v].pending <=> u[v].pending /\ u[v].used > 1
<1>1. CASE x = NoVector
  BY <1>1, VectorsAssumption DEF Unuse
<1>2. CASE x # NoVector
  <2>1. PICK w \in Vector, i \in Int, b \in BOOLEAN :
          w = u[x] /\ i = u[x].used - 1 /\ b = (u[x].pending /\ u[x].used > 1)
    <3>1. PICK w \in Vector : w = u[x]
      BY <1>2
    <3>2. w.used - 1 \in Int
      BY DEF Vector
    <3>3. QED
      BY <3>1, <3>2
  <2>2. Unuse(u, x) = [u EXCEPT ![x] = [w EXCEPT !.used = i, !.pending = b]]
    BY <1>2, <2>1, Zenon DEF Unuse
  <2>3. PICK k \in Vector :
          /\ k = [w EXCEPT !.used = i, !.pending = b]
          /\ k.used = i /\ k.users = w.users /\ k.masked = w.masked /\ k.pending = b
    <3>1. [w EXCEPT !.used = i, !.pending = b] \in Vector
      BY DEF Vector
    <3>2. QED
      BY <3>1 DEF Vector
  <2>4. Unuse(u, x) = [u EXCEPT ![x] = k]
    BY <2>2, <2>3
  <2>5. x \in Vectors
    BY <1>2
  <2>6. QED
    BY <2>1, <2>3, <2>4, <2>5, ZenonT(40)
<1>3. QED
  BY <1>1, <1>2

(* The vector that a queue gets is used once more. *)
LEMMA UseDoes ==
  ASSUME NEW u \in [Vectors -> Vector], NEW x \in Vectors \cup {NoVector}
  PROVE  /\ Use(u, x) \in [Vectors -> Vector]
         /\ \A v \in Vectors :
              /\ Use(u, x)[v].masked = u[v].masked /\ Use(u, x)[v].users = u[v].users
              /\ Use(u, x)[v].pending = u[v].pending
              /\ Use(u, x)[v].used = IF v = x THEN u[v].used + 1 ELSE u[v].used
<1>1. CASE x = NoVector
  BY <1>1, VectorsAssumption DEF Use
<1>2. CASE x # NoVector
  <2>1. PICK w \in Vector, i \in Int : w = u[x] /\ i = u[x].used + 1
    <3>1. PICK w \in Vector : w = u[x]
      BY <1>2
    <3>2. w.used + 1 \in Int
      BY DEF Vector
    <3>3. QED
      BY <3>1, <3>2
  <2>2. Use(u, x) = [u EXCEPT ![x] = [w EXCEPT !.used = i]]
    BY <1>2, <2>1, Zenon DEF Use
  <2>3. PICK k \in Vector :
          /\ k = [w EXCEPT !.used = i]
          /\ k.used = i /\ k.users = w.users /\ k.masked = w.masked /\ k.pending = w.pending
    <3>1. [w EXCEPT !.used = i] \in Vector
      BY DEF Vector
    <3>2. QED
      BY <3>1 DEF Vector
  <2>4. Use(u, x) = [u EXCEPT ![x] = k]
    BY <2>2, <2>3
  <2>5. x \in Vectors
    BY <1>2
  <2>6. QED
    BY <2>1, <2>3, <2>4, <2>5
<1>3. QED
  BY <1>1, <1>2

(* case VIRTIO_MSI_QUEUE_VECTOR *)
LEMMA WriteQueueVectorKeepsGuest ==
  ASSUME HostInv, GuestInv, NEW n \in Queues, NEW x \in Vectors \cup {NoVector},
         WriteQueueVector(n, x)
  PROVE  GuestInv'
<1>1. /\ Idle /\ status = "setup" /\ x # gn[n].vector
      /\ gn' = [gn EXCEPT ![n].vector = x, ![n].due = "no"]
      /\ vec' = Use(Unuse(vec, gn[n].vector), x)
      /\ UNCHANGED <<todo, active, intr, canMask, irqfds, notifiers>>
  BY DEF WriteQueueVector, hostVars
<1>2. ~active
  BY <1>1, IdleReady DEF Ready
<1>3. gn \in [Queues -> GuestNotifier] /\ vec \in [Vectors -> Vector] /\ irqfds \in BOOLEAN
      /\ VectorsInv
  BY DEF GuestInv, GuestShape
<1>4. PICK h \in GuestNotifier : h = gn[n]
  BY <1>3
<1>5. gn' = [gn EXCEPT ![n] = [h EXCEPT !.vector = x, !.due = "no"]]
  BY <1>1, <1>3, <1>4, Zenon
<1>6. PICK k \in GuestNotifier :
        /\ k = [h EXCEPT !.vector = x, !.due = "no"]
        /\ k.ev = h.ev /\ k.handler = h.handler /\ k.irqfd = h.irqfd
        /\ k.onMasked = h.onMasked /\ k.masked = h.masked /\ k.vector = x
        /\ k.due # "yes"
  <2>1. [h EXCEPT !.vector = x, !.due = "no"] \in GuestNotifier
    BY DEF GuestNotifier
  <2>2. QED
    BY <2>1, ZenonT(40) DEF GuestNotifier
<1>7. gn' \in [Queues -> GuestNotifier] /\ gn'[n] = k /\ \A q \in Queues \ {n} : gn'[q] = gn[q]
  BY <1>3, <1>5, <1>6
<1>8. PICK o \in Vectors \cup {NoVector} : o = gn[n].vector /\ o # x
  BY <1>1, <1>3 DEF GuestNotifier
<1>9. PICK u \in [Vectors -> Vector] :
        /\ u = Unuse(vec, o)
        /\ \A v \in Vectors :
             /\ u[v].masked = vec[v].masked /\ u[v].users = vec[v].users
             /\ v # o => u[v] = vec[v]
             /\ v = o => /\ u[v].used = vec[v].used - 1
                         /\ u[v].pending <=> vec[v].pending /\ vec[v].used > 1
  BY <1>3, UnuseDoes
<1>10. vec' = Use(u, x)
  BY <1>1, <1>8, <1>9
<1>11. /\ vec' \in [Vectors -> Vector]
       /\ \A v \in Vectors :
            /\ vec'[v].masked = u[v].masked /\ vec'[v].users = u[v].users
            /\ vec'[v].pending = u[v].pending
            /\ vec'[v].used = IF v = x THEN u[v].used + 1 ELSE u[v].used
  BY <1>10, UseDoes
<1>12. ASSUME NEW v \in Vectors
       PROVE  /\ vec'[v].used = Cardinality(Sharing(v)')
              /\ vec[v].used = Cardinality(Sharing(v)) /\ Sharing(v) \in SUBSET Queues
  <2>1. vec[v].used = Cardinality(Sharing(v)) /\ Sharing(v) \in SUBSET Queues
    BY <1>3 DEF VectorsInv, VectorOK, Sharing
  <2>2. gn[n].vector = o /\ \A q \in Queues : gn'[q].vector = IF q = n THEN x ELSE gn[q].vector
    BY <1>6, <1>7, <1>8
  <2>3. CASE v = x
    <3>1. Sharing(v)' = Sharing(v) \cup {n} /\ n \in Queues \ Sharing(v)
      BY <1>8, <2>2, <2>3 DEF Sharing
    <3>2. Cardinality(Sharing(v) \cup {n}) = Cardinality(Sharing(v)) + 1
      BY <2>1, <3>1, QueuesCounted
    <3>3. QED
      BY <1>8, <1>9, <1>11, <2>1, <2>3, <3>1, <3>2
  <2>4. CASE v = o
    <3>1. Sharing(v)' = Sharing(v) \ {n} /\ n \in Sharing(v)
      BY <1>8, <2>2, <2>4 DEF Sharing
    <3>2. Cardinality(Sharing(v) \ {n}) = Cardinality(Sharing(v)) - 1
      BY <2>1, <3>1, QueuesCounted
    <3>3. QED
      BY <1>8, <1>9, <1>11, <2>1, <2>4, <3>1, <3>2
  <2>5. CASE v # x /\ v # o
    <3>1. Sharing(v)' = Sharing(v)
      BY <2>2, <2>5 DEF Sharing
    <3>2. QED
      BY <1>9, <1>11, <2>1, <2>5, <3>1
  <2>6. QED
    BY <2>3, <2>4, <2>5
<1>13. ASSUME NEW v \in Vectors
       PROVE  vec'[v].masked = vec[v].masked /\ vec'[v].users = 0
  <2>1. Elsewhere(Nth(1))
    BY <1>1, IdleElsewhere
  <2>2. \A q \in Queues : ~Routed(q)
    BY <1>2, <2>1, PhaseElsewhere DEF Routed
  <2>3. UsersOf(v) = {} /\ {} \in SUBSET Queues
    BY <2>2 DEF UsersOf
  <2>4. vec[v].users = 0
    BY <1>3, <2>3, QueuesCounted DEF VectorsInv, VectorOK
  <2>5. QED
    BY <1>9, <1>11, <2>4
<1>14. ASSUME NEW q \in Queues, gn'[q].due = "yes", gn[q].vector \in Vectors,
              vec[gn[q].vector].pending
       PROVE  vec'[gn[q].vector].pending
  <2>1. PICK v \in Vectors : v = gn[q].vector
    BY <1>14
  <2>2. q # n
    BY <1>6, <1>7, <1>14
  <2>3. CASE v # o
    BY <1>9, <1>11, <1>14, <2>1, <2>3
  <2>4. CASE v = o
    <3>1. {q, n} \in SUBSET Sharing(v)
      BY <1>8, <2>1, <2>4 DEF Sharing
    <3>2. q \in Sharing(v) \ {n} /\ n \in Sharing(v) /\ Sharing(v) \ {n} \in SUBSET Queues
      BY <1>12, <2>2, <3>1
    <3>3. Cardinality(Sharing(v) \ {n}) > 0
      BY <3>2, QueuesCounted
    <3>4. Cardinality(Sharing(v) \ {n}) = Cardinality(Sharing(v)) - 1
      BY <1>12, <3>2, QueuesCounted
    <3>5. Cardinality(Sharing(v)) \in Int
      BY <1>12, QueuesCounted
    <3>6. vec[v].used > 1
      BY <1>12, <3>3, <3>4, <3>5
    <3>7. QED
      BY <1>9, <1>11, <1>14, <2>1, <2>4, <3>6
  <2>5. QED
    BY <2>3, <2>4
<1>15. ASSUME NEW q \in Queues
       PROVE  /\ gn'[q].ev = gn[q].ev /\ gn'[q].handler = gn[q].handler
              /\ gn'[q].irqfd = gn[q].irqfd /\ gn'[q].onMasked = gn[q].onMasked
              /\ gn'[q].masked = gn[q].masked
              /\ gn'[q].due = "yes" => gn[q].due = "yes" /\ gn'[q].vector = gn[q].vector
  BY <1>4, <1>6, <1>7
<1>16. irqfds' \in BOOLEAN /\ (irqfds' => irqfds)
  BY <1>1, <1>3
<1>17. \A v \in Vectors : /\ vec'[v].masked = vec[v].masked
                          /\ vec'[v].users = 0
                          /\ vec'[v].used = Cardinality(Sharing(v)')
  BY <1>12, <1>13
<1>18. vec' \in [Vectors -> Vector]
  BY <1>11
<1>19. QED
  BY <1>1, <1>2, <1>7, <1>14, <1>15, <1>16, <1>17, <1>18, IdleVectors

(* It holds of a machine that has just been started.                        *)
LEMMA InitGuestInv == Init => GuestInv
<1> SUFFICES ASSUME Init PROVE GuestInv
  OBVIOUS
<1>1. /\ todo = <<>> /\ active = FALSE /\ irqfds = FALSE /\ notifiers = FALSE
      /\ intr \in {"intx", "msix", "irqfd"} /\ canMask \in BOOLEAN
      /\ gn = [q \in Queues |-> [ev |-> "closed", handler |-> FALSE, irqfd |-> FALSE,
                                 onMasked |-> TRUE, masked |-> FALSE, due |-> "no",
                                 vector |-> NoVector]]
      /\ vec = [v \in Vectors |-> [masked |-> TRUE, pending |-> FALSE, used |-> 0, users |-> 0]]
  BY DEF Init, HostInit, GuestInit
<1>2. Nth(1) = Last /\ Elsewhere(Nth(1))
  BY <1>1 DEF Nth, Elsewhere, GuestSteps, SetGuestSteps, UnmaskingSteps, Last, Step
<1>3. /\ ~Serving /\ \A q \in Queues : ~Assigned(q) /\ ~RoutedNow(q)
  BY <1>1, <1>2, PhaseElsewhere
<1>4. FlagsInv /\ UnmaskingInv
  BY <1>1, <1>2, FlagsElsewhere
<1>5. GuestShape
  <2>1. \A q \in Queues : gn[q] \in GuestNotifier
    BY <1>1 DEF GuestNotifier
  <2>2. \A v \in Vectors : vec[v] \in Vector
    BY <1>1 DEF Vector
  <2>3. gn = [q \in Queues |-> gn[q]] /\ vec = [v \in Vectors |-> vec[v]]
    BY <1>1
  <2>4. gn \in [Queues -> GuestNotifier] /\ vec \in [Vectors -> Vector]
    BY <2>1, <2>2, <2>3
  <2>5. QED
    BY <1>1, <2>4 DEF GuestShape
<1>6. \A q \in Queues : ~Heard(q) /\ ~Routed(q)
  BY <1>3 DEF Heard, Routed, Watched
<1>7. QueuesInv /\ DueInv
  BY <1>1, <1>3, <1>6 DEF QueuesInv, QueueOK, DueInv
<1>8. VectorsInv
  <2> SUFFICES ASSUME NEW v \in Vectors PROVE VectorOK(v)
    BY DEF VectorsInv
  <2>1. Sharing(v) = {} /\ UsersOf(v) = {} /\ {} \in SUBSET Queues
    BY <1>1, <1>6, VectorsAssumption DEF Sharing, UsersOf
  <2>2. Cardinality({}) = 0
    BY <2>1, QueuesCounted
  <2>3. QED
    BY <1>1, <2>1, <2>2 DEF VectorOK
<1>9. QED
  BY <1>4, <1>5, <1>7, <1>8 DEF GuestInv

(* The steps of the handlers keep it, *)
LEMMA CallKeepsGuest ==
  ASSUME HostInv, GuestInv, Call
  PROVE  GuestInv'
<1>0. TodoInv
  BY DEF HostInv
<1>1. CASE SetStatus \/ BackendStart \/ BackendStop \/ Clear
  BY <1>0, <1>1, SetStatusKeepsGuest, BackendStartKeepsGuest, BackendStopKeepsGuest,
     ClearKeepsGuest
<1>2. CASE (Ioeventfd \/ SetHostNotifier \/ SetHostNotifierInternal) /\ UNCHANGED guestVars
  BY <1>0, <1>2, IoeventfdKeepsGuest, SetHostNotifierKeepsGuest, HostInternalKeepsGuest
<1>3. CASE SetGuestNotifiers /\ UNCHANGED active
  BY <1>3, SetGuestKeepsGuest, GuestErrorKeepsGuest, VectorUseKeepsGuest, VectorUndoKeepsGuest,
     VectorReleaseKeepsGuest, SetVectorNotifiersKeepsGuest, UnsetVectorNotifiersKeepsGuest,
     UnsetGuestKeepsGuest DEF SetGuestNotifiers
<1>4. CASE Unmasking /\ UNCHANGED active
  BY <1>4, UnmaskNextKeepsGuest, TestPendingKeepsGuest, FirePendingKeepsGuest DEF Unmasking
<1>5. QED
  BY <1>1, <1>2, <1>3, <1>4 DEF Call, hostVars

(* and so do all the others. *)
LEMMA NextGuestInv == PciInv /\ GuestInv /\ [Next]_vars => GuestInv'
<1> SUFFICES ASSUME PciInv, GuestInv, [Next]_vars PROVE GuestInv'
  OBVIOUS
<1>1. HostInv /\ StatusInv
  BY DEF PciInv
<1>2. CASE Call
  BY <1>1, <1>2, CallKeepsGuest
<1>3. CASE Guest
  <2>1. CASE (\E s \in {"reset", "setup", "ok"} : WriteStatus(s)) \/ WriteNoPfn \/ DisableMaster
    BY <1>1, <2>1, WritesKeepGuest
  <2>2. CASE EnableMaster
    <3>1. UNCHANGED <<guestVars, todo, active>>
      BY <2>2 DEF EnableMaster, hostVars
    <3>2. QED
      BY <3>1, NothingKeepsGuest
  <2>3. CASE \E q \in Queues, v \in Vectors \cup {NoVector} : WriteQueueVector(q, v)
    BY <1>1, <2>3, WriteQueueVectorKeepsGuest
  <2>4. CASE \E v \in Vectors : /\ running /\ intr # "intx"
                                /\ MaskVector(v) \/ UnmaskVector(v)
                                /\ UNCHANGED <<hostVars, pciVars>>
    <3>1. PICK v \in Vectors : /\ intr # "intx" /\ UNCHANGED active
                               /\ MaskVector(v) \/ UnmaskVector(v)
      BY <2>4 DEF hostVars
    <3>2. QED
      BY <1>1, <3>1, MaskVectorKeepsGuest, UnmaskVectorKeepsGuest
  <2>5. CASE PollVectors /\ UNCHANGED hostVars
    <3>1. UNCHANGED active
      BY <2>5 DEF hostVars
    <3>2. QED
      BY <2>5, <3>1, PollVectorsKeepsGuest
  <2>6. QED
    BY <1>3, <2>1, <2>2, <2>3, <2>4, <2>5 DEF Guest
<1>4. CASE Machine
  BY <1>1, <1>4, WritesKeepGuest, MigrateKeepsGuest DEF Machine
<1>5. CASE Kicks \/ UNCHANGED vars
  <2>1. UNCHANGED <<guestVars, todo, active>>
    BY <1>5 DEF Kicks, Kick, NotifyTrapped, MainLoopReads, BackendReads, ReadNotifier, vars,
                hostVars
  <2>2. QED
    BY <2>1, NothingKeepsGuest
<1>6. CASE Interrupts
  <2>1. PICK q \in Queues : /\ UNCHANGED active
                            /\ \/ DeviceNotifies(q)
                               \/ active /\ BackendSignals(q)
                               \/ GuestNotifierRead(q)
    BY <1>6 DEF Interrupts, hostVars
  <2>2. QED
    BY <1>1, <2>1, DeviceNotifiesKeepsGuest, BackendSignalsKeepsGuest, ReadKeepsGuest
<1>7. QED
  BY <1>2, <1>3, <1>4, <1>5, <1>6 DEF Next

(* The inductive invariant of the guest notifiers, for any number of queues *)
(* and any vectors: how far each notifier, irqfd, route and count is at each *)
(* step, and where a signal that the guest has not heard of is.             *)
THEOREM GuestInvariant == Spec => []GuestInv
BY InitGuestInv, NextGuestInv, PciInvariant, PTL DEF Spec

(* Between two handlers the guest notifiers, irqfds and routes are those of  *)
(* a running backend or all gone, wherever virtio_pci_set_guest_notifiers    *)
(* failed, and the vectors' users are counted right.                        *)
THEOREM GuestNotifiersAllOrNone == Spec => []GuestAllOrNone
<1>1. GuestInv => GuestAllOrNone
  <2> SUFFICES ASSUME GuestInv, Idle PROVE GuestAllOrNone
    BY DEF GuestAllOrNone
  <2>1. Elsewhere(Nth(1))
    BY DEF Idle, Nth, Elsewhere, GuestSteps, SetGuestSteps, UnmaskingSteps, Last, Step
  <2>2. /\ Serving <=> active
        /\ \A q \in Queues : (Assigned(q) <=> active) /\ (RoutedNow(q) <=> active) /\ ~Waits(q)
    BY <2>1, PhaseElsewhere
  <2>3. ASSUME NEW q \in Queues
        PROVE  /\ gn[q].ev # "closed" <=> active
               /\ gn[q].handler <=> active /\ intr # "irqfd"
               /\ gn[q].irqfd <=> HasIrqfd(q)
               /\ canMask => (gn[q].onMasked <=> ~(active /\ (intr = "intx" \/ Unmasked(q))))
    <3>1. QueueOK(q)
      BY DEF GuestInv, QueuesInv
    <3>2. /\ Heard(q) <=> (intr = "irqfd" \/ canMask) /\ active /\ intr # "intx" /\ Unmasked(q)
          /\ Routed(q) <=> intr = "irqfd" /\ HasVector(q) /\ active
          /\ Unmasked(q) => HasVector(q)
      BY <2>2 DEF Heard, Watched, Routed, Unmasked
    <3>3. QED
      BY <2>2, <3>1, <3>2 DEF QueueOK, HasIrqfd
  <2>4. ASSUME NEW v \in Vectors
        PROVE  vec[v].users = RouteUsers(v) /\ vec[v].used = Cardinality(Sharing(v))
    <3>1. VectorOK(v)
      BY DEF GuestInv, VectorsInv
    <3>2. CASE active /\ intr = "irqfd"
      <4>1. UsersOf(v) = Sharing(v)
        BY <2>2, <3>2, VectorsAssumption DEF UsersOf, Sharing, Routed, HasVector
      <4>2. QED
        BY <3>1, <3>2, <4>1 DEF VectorOK, RouteUsers
    <3>3. CASE ~(active /\ intr = "irqfd")
      <4>1. UsersOf(v) = {} /\ {} \in SUBSET Queues
        BY <2>2, <3>3 DEF UsersOf, Routed
      <4>2. Cardinality({}) = 0
        BY <4>1, QueuesCounted
      <4>3. QED
        BY <3>1, <3>3, <4>1, <4>2 DEF VectorOK, RouteUsers
    <3>4. QED
      BY <3>2, <3>3
  <2>5. QED
    BY <2>3, <2>4 DEF GuestAllOrNone
<1>2. QED
  BY <1>1, GuestInvariant, PTL

(* What the code asserts or takes for granted: a notifier is opened only     *)
(* when it is closed, and kvm_virtio_pci_irqfd_release and the release of a  *)
(* vector only find what was set up, in every order of set-up, failure,      *)
(* masking and taking down.                                                 *)
THEOREM StepsAreAllowed == Spec => []StepsAllowed
<1>1. PciInv /\ GuestInv => OpensClosed
  <2> SUFFICES ASSUME PciInv, GuestInv PROVE OpensClosed
    OBVIOUS
  <2>1. HostInv /\ TodoInv
    BY DEF PciInv, HostInv
  <2>2. ASSUME At("assign") \/ At("open")
        PROVE  hn[Index].ev = "closed"
    <3>1. todo # <<>> /\ Index \in Queues /\ Nth(1).n = Index /\ Nth(1) = todo[1]
          /\ Nth(1).do \in {"assign", "open"}
      BY <2>1, <2>2, StepNow, FirstNth DEF CountedSteps
    <3>2. \E handler \in BOOLEAN : Span(1, Index - 1, handler)
      BY <2>1, <3>1 DEF HostInv, HeadInv, Finds
    <3>3. Index \notin 1..Index - 1
      BY <3>1, NQueuesAssumption DEF Queues
    <3>4. hn[Index] = Closed
      BY <3>1, <3>2, <3>3 DEF Span
    <3>5. QED
      BY <3>4 DEF Closed
  <2>3. ASSUME At("set_guest")
        PROVE  gn[Index].ev = "closed"
    <3>1. Nth(1).do = "set_guest" /\ Nth(1).n = Index /\ Index \in Queues /\ ~active
      BY <2>1, <2>3, SetUpState DEF GuestSteps, SetGuestSteps, CountedSteps
    <3>2. PICK n \in Queues : n = Index /\ ~(n < n)
      BY <3>1, NQueuesAssumption DEF Queues
    <3>3. ~Assigned(n)
      BY <3>1, <3>2 DEF Assigned
    <3>4. QED
      BY <3>2, <3>3 DEF GuestInv, QueuesInv, QueueOK
  <2>4. QED
    BY <2>2, <2>3 DEF OpensClosed
<1>2. PciInv /\ GuestInv => ReleasesHeld
  <2> SUFFICES ASSUME PciInv, GuestInv PROVE ReleasesHeld
    OBVIOUS
  <2>1. HostInv
    BY DEF PciInv
  <2>2. ASSUME At("vector_release") \/ At("undo"), HasVector(Index)
        PROVE  vec[gn[Index].vector].users > 0 /\ (canMask => gn[Index].irqfd)
    <3>1. Nth(1).do \in {"vector_release", "undo"} /\ Nth(1).n = Index /\ Index \in Queues
      BY <2>1, <2>2, SetUpState DEF GuestSteps, SetGuestSteps, CountedSteps
    <3>2. PICK n \in Queues : n = Index /\ n <= n /\ n >= n
      BY <3>1, NQueuesAssumption DEF Queues
    <3>3. Routed(n)
      BY <2>2, <3>1, <3>2 DEF Routed, RoutedNow, GuestInv, FlagsInv
    <3>4. PICK v \in Vectors : v = gn[n].vector
      BY <2>2, <3>2 DEF GuestInv, GuestShape, GuestNotifier, HasVector
    <3>5. n \in UsersOf(v) /\ UsersOf(v) \in SUBSET Queues
      BY <3>3, <3>4 DEF UsersOf
    <3>6. vec[v].users > 0
      BY <3>5, QueuesCounted DEF GuestInv, VectorsInv, VectorOK
    <3>7. QED
      BY <3>2, <3>3, <3>4, <3>6 DEF GuestInv, QueuesInv, QueueOK
  <2>3. ASSUME At("unset_vector_notifiers") \/ Idle, notifiers, ~canMask,
               NEW q \in Queues, Unmasked(q)
        PROVE  gn[q].irqfd
    <3>1. Nth(1).do \in {"unset_vector_notifiers", "none"}
      <4>1. CASE At("unset_vector_notifiers")
        BY <2>1, <4>1, SetUpState DEF GuestSteps
      <4>2. CASE Idle
        BY <4>2 DEF Idle, Nth, Last, Step
      <4>3. QED
        BY <2>3, <4>1, <4>2
    <3>2. Watched /\ intr = "irqfd" /\ ~Waits(q)
      BY <2>3, <3>1 DEF GuestInv, FlagsInv, Watched, Waits
    <3>3. Heard(q) /\ QueueOK(q)
      BY <2>3, <3>2 DEF Heard, GuestInv, QueuesInv
    <3>4. QED
      BY <2>3, <3>3 DEF QueueOK
  <2>4. QED
    BY <2>2, <2>3 DEF ReleasesHeld
<1>3. PciInv /\ GuestInv => StepsAllowed
  BY <1>1, <1>2 DEF StepsAllowed
<1>4. QED
  BY <1>3, PciInvariant, GuestInvariant, PTL

(* Interrupts are lost in one way only: through masking, polling and failed  *)
(* and undone set-ups, what the guest has not heard of is in an eventfd that *)
(* somebody reads, or kept where unmasking looks for it, unless it was in    *)
(* nothing but the masked notifier of a backend that has gone since.        *)
THEOREM InterruptsKept == Spec => []InterruptKept
<1>1. GuestInv => InterruptKept
  <2> SUFFICES ASSUME GuestInv, Idle, NEW q \in Queues, gn[q].due = "yes" PROVE Kept(q)
    <3>1. \A q \in Queues : GuestInv => gn[q].due \in {"no", "yes", "lost"}
      BY DEF GuestInv, GuestShape, GuestNotifier
    <3>2. QED
      BY <3>1 DEF InterruptKept
  <2>1. Nth(1).do = "none"
    BY DEF Idle, Nth, Last, Step
  <2>2. ~Waits(q) /\ ~Tests(q) /\ ~Fires(gn[q].vector)
    BY <2>1 DEF Waits, Tests, Fires, UnmaskingSteps
  <2>3. Reaches(q)
    BY DEF GuestInv, DueInv
  <2>4. QED
    BY <2>2, <2>3 DEF Reaches, Kept, HasVector
<1>2. QED
  BY <1>1, GuestInvariant, PTL

(* What the rest of the state is made of. *)
RestShape ==
  /\ {useIoeventfd, disabled, started, vhost, busMaster, busBug, running} \subseteq BOOLEAN
  /\ trapped \subseteq Queues /\ work \subseteq Queues

(* Every step keeps the shape of the rest. *)
LEMMA NextRestShape == RestShape /\ [Next]_vars => RestShape'
<1> SUFFICES ASSUME RestShape, [Next]_vars PROVE RestShape'
  OBVIOUS
<1>1. CASE Call
  <2>1. CASE SetStatus \/ BackendStart \/ BackendStop \/ Clear
    BY <2>1 DEF SetStatus, BackendStart, BackendStop, Clear, RestShape, hostVars, pciVars
  <2>2. CASE Ioeventfd /\ UNCHANGED pciVars
    BY <2>2 DEF Ioeventfd, StartIoeventfd, AssignNext, AssignError, UnassignNext, RestShape,
                hostVars, pciVars
  <2>3. CASE (SetHostNotifier \/ SetHostNotifierInternal) /\ UNCHANGED pciVars
    BY <2>3 DEF SetHostNotifier, TakeNext, TakeOpen, GiveBack, SetHostNotifierInternal,
                DeleteEventfd, Flush, RestShape, pciVars
  <2>4. CASE UNCHANGED <<hostVars, pciVars>>
    BY <2>4 DEF RestShape, hostVars, pciVars
  <2>5. QED
    BY <1>1, <2>1, <2>2, <2>3, <2>4 DEF Call
<1>2. CASE Guest
  BY <1>2 DEF Guest, WriteStatus, CheckMaster, WriteNoPfn, WriteQueueVector, EnableMaster,
              DisableMaster, RestShape, hostVars, pciVars
<1>3. CASE Machine
  BY <1>3 DEF Machine, StopMachine, ContinueMachine, CheckMaster, Migrate, ResetMachine,
              RestShape, hostVars
<1>4. CASE Kicks
  BY <1>4 DEF Kicks, Kick, NotifyTrapped, MainLoopReads, BackendReads, ReadNotifier, RestShape,
              pciVars
<1>5. CASE Interrupts \/ UNCHANGED vars
  BY <1>5 DEF Interrupts, RestShape, vars, hostVars, pciVars
<1>6. QED
  BY <1>1, <1>2, <1>3, <1>4, <1>5, SMTT(30) DEF Next

(* The state has its type, for any number of queues and vectors: no count of *)
(* a vector's queues or routes ever passes the number of queues or zero.    *)
THEOREM TypeCorrect == Spec => []TypeOK
<1>1. Init => RestShape
  BY DEF Init, HostInit, RestShape
<1>2. PciInv /\ GuestInv /\ RestShape => TypeOK
  <2> SUFFICES ASSUME PciInv, GuestInv, RestShape PROVE TypeOK
    OBVIOUS
  <2>1. HostTypeOK
    BY DEF HostTypeOK, PciInv, HostInv, Notifier, RestShape, GuestInv, GuestShape
  <2>2. ASSUME NEW v \in Vectors
        PROVE  vec[v] \in [masked : BOOLEAN, pending : BOOLEAN,
                           used : 0..NQueues, users : 0..NQueues]
    <3>1. PICK w \in Vector : w = vec[v]
      BY DEF GuestInv, GuestShape
    <3>2. Sharing(v) \in SUBSET Queues /\ UsersOf(v) \in SUBSET Queues
      BY DEF Sharing, UsersOf
    <3>3. w.used \in 0..NQueues /\ w.users \in 0..NQueues
      BY <3>1, <3>2, QueuesCounted DEF GuestInv, VectorsInv, VectorOK
    <3>4. QED
      BY <3>1, <3>3 DEF Vector
  <2>3. vec \in [Vectors -> [masked : BOOLEAN, pending : BOOLEAN,
                             used : 0..NQueues, users : 0..NQueues]]
    BY <2>2 DEF GuestInv, GuestShape
  <2>4. GuestTypeOK
    BY <2>3 DEF GuestTypeOK, GuestInv, GuestShape, GuestNotifier
  <2>5. QED
    BY <2>1, <2>4 DEF TypeOK, PciInv, StatusInv, Statuses, RestShape
<1>3. QED
  BY <1>1, <1>2, NextRestShape, PciInvariant, GuestInvariant, PTL DEF Spec
==============================================================================
