----------------------------- MODULE ProxySteps -----------------------------
(***************************************************************************)
(* How the handlers of virtio-pci.c run.  Each holds QEMU's global lock    *)
(* from its entry to its return, but the guest's other CPUs, KVM and a     *)
(* backend with a thread of its own go on meanwhile.  So a handler is a    *)
(* list of steps: the first one is next, and a step may put others before  *)
(* the rest, as a call or one more round of a loop does.                   *)
(***************************************************************************)
EXTENDS Integers, Sequences

CONSTANT
  NQueues   \* the virtqueues of the device, those with a size

ASSUME NQueuesAssumption == NQueues \in Nat \ {0}

VARIABLE
  todo      \* what the handler that holds the global lock has left to do

Queues == 1..NQueues

Step(do, n) == [do |-> do, n |-> n]

Idle == todo = <<>>

Enter(steps) == Idle /\ todo' = steps

At(do) == todo # <<>> /\ Head(todo).do = do

Index == Head(todo).n

Then(steps) == todo' = steps \o Tail(todo)

(* for (n = ...; n < nvqs; n++) and while (--n >= 0), then the steps end *)
Up(do, n, end)   == IF n <= NQueues THEN <<Step(do, n)>> ELSE end
Down(do, n, end) == IF n > 0 THEN <<Step(do, n)>> ELSE end
==============================================================================
