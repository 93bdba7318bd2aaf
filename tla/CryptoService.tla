---------------------------- MODULE CryptoService ----------------------------
(***************************************************************************)
(* What the virtual crypto device promises to the programs of the guest:   *)
(* every call takes effect on the host's /dev/crypto exactly once, at one  *)
(* moment between its entry and its return, and returns what that moment   *)
(* answered.  No lock, no virtqueue, no backend.                           *)
(***************************************************************************)
EXTENDS CryptoCalls

VARIABLE
  status   \* of each task: "user" (in user space), "called" or "served"

serviceVars == <<callVars, status>>

Become(t, from, to) ==
  /\ status[t] = from
  /\ status' = [status EXCEPT ![t] = to]

ServiceTypeOK ==
  /\ CallsTypeOK
  /\ status \in [Tasks -> {"user", "called", "served"}]

ServiceInit ==
  /\ CallsInit
  /\ status = [t \in Tasks |-> "user"]

ServiceCall(t) ==
  /\ Become(t, "user", "called")
  /\ \/ EnterOpen(t)
     \/ \E c \in Ioctls : EnterIoctl(t, c)
     \/ EnterRelease(t)

ServiceServe(t) ==
  /\ Become(t, "called", "served")
  /\ Serve(t)

ServiceReturn(t) ==
  /\ Become(t, "served", "user")
  /\ Leave(t)

(* A call that never reaches the host. *)
ServiceRefuse(t) ==
  \/ /\ Become(t, "called", "user")
     /\ req[t].cmd = "OPEN"
     /\ RefuseOpen(t)
  \/ /\ Become(t, "user", "user")
     /\ \E c \in Ioctls : FaultIoctl(t, c)

ServiceLocal(t) ==
  /\ Become(t, "user", "user")
  /\ \/ DropReference(t)
     \/ \E u \in Tasks \ {t} : status[u] = "user" /\ Fork(t, u)

ServiceNext ==
  \E t \in Tasks :
    \/ ServiceCall(t)
    \/ ServiceServe(t)
    \/ ServiceReturn(t)
    \/ ServiceRefuse(t)
    \/ ServiceLocal(t)

ServiceSpec == ServiceInit /\ [][ServiceNext]_serviceVars
==============================================================================
