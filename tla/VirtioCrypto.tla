---------------------------- MODULE VirtioCrypto ----------------------------
(***************************************************************************)
(* The guest driver (crypto-chrdev.c), the virtqueue and the QEMU backend  *)
(* (virtio-crypto.c) serving the crypto device of one guest.               *)
(*                                                                         *)
(* A handler of the driver prepares its buffers, takes crdrvdata.lock,     *)
(* puts one request on the virtqueue, kicks the backend, spins until       *)
(* virtqueue_get_buf gives it SOMETHING - the token is not compared with   *)
(* what it put - releases the lock and copies its buffers to the caller.   *)
(***************************************************************************)
EXTENDS CryptoCalls, Sequences

CONSTANT
  RingSize  \* requests that fit on the ring: virtio_add_queue(vdev, 128, ...)

ASSUME RingSizeAssumption == RingSize \in Nat \ {0}

VARIABLES
  pc,      \* where each task is in its handler
  lock,    \* holder of crdrvdata.lock, or None
  avail,   \* requests the backend has not taken, by the task they are of
  used,    \* requests the backend has pushed back
  kicked   \* the backend has been notified and has not run since

ringVars == <<avail, used, kicked>>
vars == <<callVars, pc, lock, ringVars>>

Labels == {"user", "lookup", "spin", "submit", "poll", "unlock", "finish"}

TypeOK ==
  /\ CallsTypeOK
  /\ pc \in [Tasks -> Labels]
  /\ lock \in Tasks \cup {None}
  /\ avail \in Seq(Tasks)
  /\ used \in Seq(Tasks)
  /\ kicked \in BOOLEAN

Init ==
  /\ CallsInit
  /\ pc = [t \in Tasks |-> "user"]
  /\ lock = None
  /\ avail = <<>>
  /\ used = <<>>
  /\ kicked = FALSE

Goto(t, from, to) ==
  /\ pc[t] = from
  /\ pc' = [pc EXCEPT ![t] = to]

------------------------------------------------------------------------------
(* The caller's side. *)

Open(t) ==
  /\ Goto(t, "user", "lookup")
  /\ EnterOpen(t)
  /\ UNCHANGED <<lock, ringVars>>

(* get_crypto_dev_by_minor holds the lock while it walks the list. *)
LookupFound(t) ==
  /\ Goto(t, "lookup", "spin")
  /\ lock = None
  /\ UNCHANGED <<callVars, lock, ringVars>>

LookupFailed(t) ==
  /\ Goto(t, "lookup", "user")
  /\ lock = None
  /\ RefuseOpen(t)
  /\ UNCHANGED <<lock, ringVars>>

Ioctl(t, c) ==
  /\ Goto(t, "user", "spin")
  /\ EnterIoctl(t, c)
  /\ UNCHANGED <<lock, ringVars>>

IoctlFault(t, c) ==
  /\ Goto(t, "user", "user")
  /\ FaultIoctl(t, c)
  /\ UNCHANGED <<lock, ringVars>>

Release(t) ==
  /\ Goto(t, "user", "spin")
  /\ EnterRelease(t)
  /\ UNCHANGED <<lock, ringVars>>

Close(t) ==
  /\ Goto(t, "user", "user")
  /\ DropReference(t)
  /\ UNCHANGED <<lock, ringVars>>

ForkTask(t, u) ==
  /\ Goto(t, "user", "user")
  /\ pc[u] = "user"
  /\ Fork(t, u)
  /\ UNCHANGED <<lock, ringVars>>

------------------------------------------------------------------------------
(* The critical section of every handler. *)

(* Variant: no lock. *)
SpinLockAlways(t) ==
  /\ Goto(t, "spin", "submit")
  /\ lock' = t
  /\ UNCHANGED <<callVars, ringVars>>

SpinLock(t) ==
  /\ Goto(t, "spin", "submit")
  /\ lock = None
  /\ lock' = t
  /\ UNCHANGED <<callVars, ringVars>>

(* Variant: no kick. *)
SubmitSilently(t) ==
  /\ Goto(t, "submit", "poll")
  /\ avail' = IF Len(avail) + Len(used) < RingSize THEN Append(avail, t) ELSE avail
  /\ UNCHANGED <<callVars, lock, used, kicked>>

(* The error of virtqueue_add_sgs is dropped: a full ring loses the request *)
(* and the handler polls all the same.                                     *)
Submit(t) ==
  /\ Goto(t, "submit", "poll")
  /\ avail' = IF Len(avail) + Len(used) < RingSize THEN Append(avail, t) ELSE avail
  /\ kicked' = TRUE
  /\ UNCHANGED <<callVars, lock, used>>

(* Variant: the handler does not wait. *)
GetBufAnyway(t) ==
  /\ Goto(t, "poll", "unlock")
  /\ used' = IF used = <<>> THEN used ELSE Tail(used)
  /\ UNCHANGED <<callVars, lock, avail, kicked>>

GetBuf(t) ==
  /\ Goto(t, "poll", "unlock")
  /\ used # <<>>
  /\ used' = Tail(used)
  /\ UNCHANGED <<callVars, lock, avail, kicked>>

SpinUnlock(t) ==
  /\ Goto(t, "unlock", "finish")
  /\ lock' = None
  /\ UNCHANGED <<callVars, ringVars>>

Finish(t) ==
  /\ Goto(t, "finish", "user")
  /\ Leave(t)
  /\ UNCHANGED <<lock, ringVars>>

------------------------------------------------------------------------------
(* The backend runs once per notification and pops one element. *)

HandleOutput ==
  /\ kicked
  /\ kicked' = FALSE
  /\ \/ /\ avail = <<>>
        /\ UNCHANGED <<callVars, avail, used>>
     \/ /\ avail # <<>>
        /\ Serve(Head(avail))
        /\ avail' = Tail(avail)
        /\ used' = Append(used, Head(avail))
  /\ UNCHANGED <<pc, lock>>

------------------------------------------------------------------------------
Handler(t) ==
  \/ LookupFound(t)
  \/ LookupFailed(t)
  \/ SpinLock(t)
  \/ Submit(t)
  \/ GetBuf(t)
  \/ SpinUnlock(t)
  \/ Finish(t)

Caller(t) ==
  \/ Open(t)
  \/ \E c \in Ioctls : Ioctl(t, c) \/ IoctlFault(t, c)
  \/ Release(t)
  \/ Close(t)
  \/ \E u \in Tasks \ {t} : ForkTask(t, u)

Next ==
  \/ HandleOutput
  \/ \E t \in Tasks : Handler(t) \/ Caller(t)

Spec == Init /\ [][Next]_vars

(* The backend is a thread of QEMU's main loop and runs when notified.  A  *)
(* handler is kernel code and keeps running.  crdrvdata.lock is a kernel   *)
(* spinlock, which grants in the order of arrival: a task whose turn comes *)
(* again and again is let in.                                              *)
Fairness ==
  /\ WF_vars(HandleOutput)
  /\ \A t \in Tasks :
       /\ WF_vars(Submit(t))
       /\ WF_vars(GetBuf(t))
       /\ WF_vars(SpinUnlock(t))
       /\ WF_vars(Finish(t))
       /\ SF_vars(SpinLock(t))
       /\ SF_vars(LookupFound(t) \/ LookupFailed(t))

FairSpec == Spec /\ Fairness

------------------------------------------------------------------------------
(* Properties. *)

InSection(t) == pc[t] \in {"submit", "poll", "unlock"}

(* crdrvdata.lock: at most one handler is between spin_lock_irqsave and    *)
(* spin_unlock_irqrestore, and the lock says which.                        *)
LockInv == \A t \in Tasks : InSection(t) <=> lock = t

(* The virtqueue carries at most one request, that of the task polling, so *)
(* the buffer virtqueue_get_buf returns to a handler is always its own     *)
(* (crypto-chrdev.c:123, :180 and :328 do not look at it) and the ring     *)
(* never overflows (:121, :177 and :326 drop the error).                   *)
SingleOutstanding ==
  /\ \A t \in Tasks :
       pc[t] = "poll" =>
         \/ avail = <<t>> /\ used = <<>> /\ kicked
         \/ avail = <<>> /\ used = <<t>>
  /\ (\A t \in Tasks : pc[t] # "poll") => avail = <<>> /\ used = <<>>

(* A task is in user space exactly when it is in no call of the device.    *)
OneCall ==
  \A t \in Tasks :
    /\ pc[t] = "user" <=> cur[t] = None
    /\ pc[t] = "lookup" => req[t].cmd = "OPEN"

(* The inductive invariant of the proofs. *)
DriverInv == TypeOK /\ FilesOwned /\ OneCall /\ LockInv /\ SingleOutstanding

(* A session that a task in user space has got and not finished is alive   *)
(* on the host's descriptor behind the task's open file, and no other task *)
(* of that open file has it too.                                           *)
SessionsPrivate ==
  \A t \in Tasks :
    pc[t] = "user" /\ ses[t] # None =>
      /\ crof[fd[t]] \in host.open
      /\ ses[t] \in host.ses[crof[fd[t]]]
      /\ \A u \in Tasks \ {t} :
           pc[u] = "user" /\ fd[u] = fd[t] => ses[u] # ses[t]

(* A handler that has taken the lock to send its request comes back: the   *)
(* busy wait with interrupts off ends, and every call returns.             *)
CallReturns == \A t \in Tasks : pc[t] # "user" ~> pc[t] = "user"

(* The driver, its virtqueue and the backend give the guest the service of *)
(* an atomic /dev/crypto.                                                  *)
StatusOf(t) ==
  CASE pc[t] = "user" -> "user"
    [] pc[t] \in {"unlock", "finish"} \/ (pc[t] = "poll" /\ used = <<t>>) -> "served"
    [] OTHER -> "called"

Service == INSTANCE CryptoService WITH status <- [t \in Tasks |-> StatusOf(t)]

ImplementsService == Service!ServiceSpec

(* crypto-chrdev.c:127: "If host failed to open() return -ENODEV." *)
OpenFailureReported ==
  \A t \in Tasks :
    fd[t] # None /\ result[t] = Result("OPEN", 0) => crof[fd[t]] # NoHostFd
==============================================================================
