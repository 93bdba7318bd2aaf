------------------------- MODULE VirtioCryptoProofs -------------------------
(***************************************************************************)
(* Proofs about VirtioCrypto for any number of tasks, files, descriptors   *)
(* and sessions and any ring size.  DriverInv is inductive: what a call    *)
(* does to open files and memory is settled by the lemmas of               *)
(* CryptoCallsProofs, what is left is the lock and the ring.  With it the  *)
(* driver, its virtqueue and the backend are shown to implement            *)
(* CryptoService, and to keep what is proved of that.                      *)
(***************************************************************************)
EXTENDS VirtioCrypto, CryptoCallsProofs

(* The driver starts with no call, a free lock and an empty ring. *)
LEMMA InitDriverInv == Init => DriverInv
<1> SUFFICES ASSUME Init PROVE DriverInv
  OBVIOUS
<1>1. CallsInv
  BY CallsInitInv DEF Init
<1>2. cur = [t \in Tasks |-> None]
  BY DEF Init, CallsInit
<1>3. TypeOK
  <2>1. pc \in [Tasks -> Labels]
    BY DEF Init, Labels
  <2>2. avail \in Seq(Tasks) /\ used \in Seq(Tasks)
    BY DEF Init
  <2>3. QED
    BY <1>1, <2>1, <2>2 DEF Init, TypeOK, CallsInv
<1>4. OneCall /\ LockInv /\ SingleOutstanding
  BY <1>2, CallersAssumption
     DEF Init, OneCall, LockInv, InSection, SingleOutstanding
<1>5. QED
  BY <1>1, <1>3, <1>4 DEF DriverInv, CallsInv

(* What the steps of a caller and of a handler outside the critical        *)
(* section leave of the invariant: the lock and the ring are untouched.    *)
LEMMA OutsideSection ==
  ASSUME DriverInv, NEW t \in Tasks, CallsInv',
         NEW l \in Labels, pc' = [pc EXCEPT ![t] = l],
         ~InSection(t), l \notin {"submit", "poll", "unlock"},
         UNCHANGED <<lock, ringVars>>
  PROVE  TypeOK' /\ FilesOwned' /\ LockInv' /\ SingleOutstanding'
<1>1. TypeOK' /\ FilesOwned'
  BY DEF DriverInv, TypeOK, CallsInv, ringVars
<1>2. LockInv'
  BY DEF DriverInv, TypeOK, LockInv, InSection
<1>3. SingleOutstanding'
  BY DEF DriverInv, TypeOK, SingleOutstanding, InSection, ringVars
<1>4. QED
  BY <1>1, <1>2, <1>3

(* Every step of the driver, its callers and the backend keeps DriverInv.  *)
LEMMA NextDriverInv == DriverInv /\ [Next]_vars => DriverInv'
<1> SUFFICES ASSUME DriverInv, [Next]_vars PROVE DriverInv'
  OBVIOUS
<1> USE CallersAssumption DEF Goto
<1>1. ASSUME NEW t \in Tasks, Handler(t)
      PROVE  DriverInv'
  <2>1. CASE LookupFound(t)
    <3>1. CallsInv' /\ OneCall'
      BY <2>1 DEF LookupFound, DriverInv, CallsInv, CallsTypeOK, FilesOwned, InOpenOrRelease,
                  TypeOK, OneCall, callVars
    <3>2. QED
      BY <2>1, <3>1, OutsideSection DEF LookupFound, DriverInv, InSection, Labels
  <2>2. CASE LookupFailed(t)
    <3>1. CallsInv'
      BY <2>2, ContinuesKeepInv
         DEF LookupFailed, Continues, DriverInv, CallsInv, TypeOK, OneCall
    <3>2. OneCall'
      BY <2>2 DEF LookupFailed, RefuseOpen, DriverInv, TypeOK, CallsTypeOK, OneCall
    <3>3. QED
      BY <2>2, <3>1, <3>2, OutsideSection DEF LookupFailed, DriverInv, InSection, Labels
  <2>3. CASE SpinLock(t)
    <3>1. CallsInv' /\ TypeOK' /\ OneCall'
      BY <2>3 DEF SpinLock, DriverInv, CallsInv, CallsTypeOK, FilesOwned, InOpenOrRelease,
                  TypeOK, OneCall, callVars, ringVars, Labels
    <3>2. LockInv'
      BY <2>3 DEF SpinLock, DriverInv, TypeOK, LockInv, InSection
    <3>3. SingleOutstanding'
      BY <2>3 DEF SpinLock, DriverInv, TypeOK, SingleOutstanding, ringVars
    <3>4. QED
      BY <3>1, <3>2, <3>3 DEF DriverInv, CallsInv
  <2>4. CASE Submit(t)
    <3>1. lock = t /\ \A u \in Tasks : pc[u] # "poll"
      BY <2>4 DEF Submit, DriverInv, TypeOK, LockInv, InSection
    <3>2. avail = <<>> /\ used = <<>>
      BY <3>1 DEF DriverInv, SingleOutstanding
    <3>3. avail' = <<t>>
      BY <2>4, <3>2, RingSizeAssumption DEF Submit
    <3>4. CallsInv' /\ OneCall'
      BY <2>4 DEF Submit, DriverInv, CallsInv, CallsTypeOK, FilesOwned, InOpenOrRelease,
                  TypeOK, OneCall, callVars
    <3>5. TypeOK'
      BY <2>4, <3>3, <3>4 DEF Submit, DriverInv, CallsInv, TypeOK, Labels
    <3>6. LockInv'
      BY <2>4 DEF Submit, DriverInv, TypeOK, LockInv, InSection
    <3>7. SingleOutstanding'
      BY <2>4, <3>1, <3>2, <3>3, SMTT(30) DEF Submit, DriverInv, TypeOK, SingleOutstanding
    <3>8. QED
      BY <3>4, <3>5, <3>6, <3>7 DEF DriverInv, CallsInv
  <2>5. CASE GetBuf(t)
    <3>1. avail = <<>> /\ used = <<t>>
      BY <2>5 DEF GetBuf, DriverInv, SingleOutstanding
    <3>2. lock = t /\ \A u \in Tasks \ {t} : pc[u] # "poll"
      BY <2>5 DEF GetBuf, DriverInv, TypeOK, LockInv, InSection
    <3>3. used' = <<>>
      BY <2>5, <3>1 DEF GetBuf
    <3>4. CallsInv' /\ OneCall'
      BY <2>5 DEF GetBuf, DriverInv, CallsInv, CallsTypeOK, FilesOwned, InOpenOrRelease,
                  TypeOK, OneCall, callVars
    <3>5. TypeOK'
      BY <2>5, <3>3, <3>4 DEF GetBuf, DriverInv, CallsInv, TypeOK, Labels
    <3>6. LockInv'
      BY <2>5 DEF GetBuf, DriverInv, TypeOK, LockInv, InSection
    <3>7. SingleOutstanding'
      BY <2>5, <3>1, <3>2, <3>3 DEF GetBuf, DriverInv, TypeOK, SingleOutstanding
    <3>8. QED
      BY <3>4, <3>5, <3>6, <3>7 DEF DriverInv, CallsInv
  <2>6. CASE SpinUnlock(t)
    <3>1. CallsInv' /\ OneCall'
      BY <2>6 DEF SpinUnlock, DriverInv, CallsInv, CallsTypeOK, FilesOwned, InOpenOrRelease,
                  TypeOK, OneCall, callVars
    <3>2. TypeOK'
      BY <2>6, <3>1 DEF SpinUnlock, DriverInv, CallsInv, TypeOK, ringVars, Labels
    <3>3. LockInv'
      BY <2>6 DEF SpinUnlock, DriverInv, TypeOK, LockInv, InSection
    <3>4. SingleOutstanding'
      BY <2>6 DEF SpinUnlock, DriverInv, TypeOK, SingleOutstanding, ringVars
    <3>5. QED
      BY <3>1, <3>2, <3>3, <3>4 DEF DriverInv, CallsInv
  <2>7. CASE Finish(t)
    <3>1. CallsInv'
      BY <2>7, ContinuesKeepInv DEF Finish, Continues, DriverInv, CallsInv, TypeOK, OneCall
    <3>2. cur' = [cur EXCEPT ![t] = None] /\ req' = req
      BY <2>7 DEF Finish, Leave, LeaveOpen, LeaveRelease, LeaveGetSession,
                  LeaveFinishSession, LeaveCrypt, LeaveOther, Return
    <3>3. OneCall'
      BY <2>7, <3>2 DEF Finish, DriverInv, TypeOK, CallsTypeOK, OneCall
    <3>4. QED
      BY <2>7, <3>1, <3>3, OutsideSection DEF Finish, DriverInv, InSection, Labels
  <2>8. QED
    BY <1>1, <2>1, <2>2, <2>3, <2>4, <2>5, <2>6, <2>7 DEF Handler
<1>2. ASSUME NEW t \in Tasks, Caller(t)
      PROVE  DriverInv'
  <2>1. cur[t] = None
    BY <1>2 DEF Caller, Open, Ioctl, IoctlFault, Release, Close, ForkTask, DriverInv, OneCall
  <2>2. CallsInv'
    BY <1>2, <2>1, StartsKeepInv
       DEF Caller, Open, Ioctl, IoctlFault, Release, Close, ForkTask, Starts, DriverInv,
           OneCall, TypeOK, CallsInv
  <2>3. CASE Open(t)
    <3>1. OneCall'
      BY <2>3 DEF Open, EnterOpen, Issue, Request, DriverInv, TypeOK, CallsTypeOK, OneCall
    <3>2. QED
      BY <2>2, <2>3, <3>1, OutsideSection DEF Open, DriverInv, InSection, Labels
  <2>4. ASSUME NEW c \in Ioctls, Ioctl(t, c)
        PROVE  DriverInv'
    <3>1. OneCall'
      BY <2>4 DEF Ioctl, EnterIoctl, LegalIoctl, Issue, DriverInv, TypeOK, CallsTypeOK,
                  OneCall
    <3>2. QED
      BY <2>2, <2>4, <3>1, OutsideSection DEF Ioctl, DriverInv, InSection, Labels
  <2>5. ASSUME NEW c \in Ioctls, IoctlFault(t, c)
        PROVE  DriverInv'
    <3>1. OneCall'
      BY <2>5 DEF IoctlFault, FaultIoctl, DriverInv, TypeOK, CallsTypeOK, OneCall
    <3>2. QED
      BY <2>2, <2>5, <3>1, OutsideSection DEF IoctlFault, DriverInv, InSection, Labels
  <2>6. CASE Release(t)
    <3>1. OneCall'
      BY <2>6 DEF Release, EnterRelease, Issue, DriverInv, TypeOK, CallsTypeOK, OneCall
    <3>2. QED
      BY <2>2, <2>6, <3>1, OutsideSection DEF Release, DriverInv, InSection, Labels
  <2>7. CASE Close(t)
    <3>1. OneCall'
      BY <2>7 DEF Close, DropReference, DriverInv, TypeOK, CallsTypeOK, OneCall
    <3>2. QED
      BY <2>2, <2>7, <3>1, OutsideSection DEF Close, DriverInv, InSection, Labels
  <2>8. ASSUME NEW u \in Tasks \ {t}, ForkTask(t, u)
        PROVE  DriverInv'
    <3>1. OneCall'
      BY <2>8 DEF ForkTask, Fork, DriverInv, TypeOK, CallsTypeOK, OneCall
    <3>2. QED
      BY <2>2, <2>8, <3>1, OutsideSection DEF ForkTask, DriverInv, InSection, Labels
  <2>9. QED
    BY <1>2, <2>3, <2>4, <2>5, <2>6, <2>7, <2>8 DEF Caller
<1>3. CASE HandleOutput
  <2>1. LockInv'
    BY <1>3 DEF HandleOutput, DriverInv, LockInv, InSection
  <2>2. CASE avail = <<>>
    <3>1. UNCHANGED <<callVars, pc, lock, avail, used>> /\ kicked' = FALSE
      BY <1>3, <2>2 DEF HandleOutput
    <3>2. CallsInv' /\ OneCall'
      BY <3>1 DEF DriverInv, CallsInv, CallsTypeOK, FilesOwned, InOpenOrRelease, TypeOK,
                  OneCall, callVars
    <3>3. TypeOK' /\ SingleOutstanding'
      BY <2>2, <3>1, <3>2 DEF DriverInv, CallsInv, TypeOK, SingleOutstanding
    <3>4. QED
      BY <2>1, <3>2, <3>3 DEF DriverInv, CallsInv
  <2>3. CASE avail # <<>>
    <3>1. PICK t \in Tasks : pc[t] = "poll" /\ avail = <<t>> /\ used = <<>>
      BY <2>3 DEF DriverInv, SingleOutstanding
    <3>2. /\ Serve(t)
          /\ avail' = <<>> /\ used' = <<t>> /\ kicked' = FALSE
          /\ UNCHANGED <<pc, lock>>
      BY <1>3, <2>3, <3>1 DEF HandleOutput
    <3>3. cur[t] # None
      BY <3>1 DEF DriverInv, OneCall
    <3>4. CallsInv'
      BY <3>2, <3>3, ContinuesKeepInv DEF Continues, DriverInv, CallsInv, TypeOK
    <3>5. OneCall'
      <4>1. \A u \in Tasks : pc[u] = "lookup" => u # t
        BY <3>1
      <4>2. \A u \in Tasks \ {t} : req'[u] = req[u]
        BY <3>2 DEF Serve, DriverInv, TypeOK, CallsTypeOK
      <4>3. QED
        BY <3>2, <4>1, <4>2 DEF Serve, DriverInv, OneCall
    <3>6. TypeOK'
      <4>1. avail' \in Seq(Tasks) /\ used' \in Seq(Tasks)
        BY <3>2
      <4>2. QED
        BY <3>2, <3>4, <4>1 DEF DriverInv, CallsInv, TypeOK
    <3>7. \A u \in Tasks : pc[u] = "poll" => u = t
      BY <3>1 DEF DriverInv, LockInv, InSection
    <3>8. SingleOutstanding'
      BY <3>1, <3>2, <3>7 DEF SingleOutstanding
    <3>9. QED
      BY <2>1, <3>4, <3>5, <3>6, <3>8 DEF DriverInv, CallsInv
  <2>4. QED
    BY <2>2, <2>3
<1>4. CASE UNCHANGED vars
  <2>1. CallsInv'
    BY <1>4 DEF vars, DriverInv, CallsInv, CallsTypeOK, FilesOwned, InOpenOrRelease, TypeOK,
                callVars
  <2>2. QED
    BY <1>4, <2>1 DEF vars, DriverInv, CallsInv, TypeOK, OneCall, LockInv, InSection,
                      SingleOutstanding, callVars, ringVars
<1>5. QED
  BY <1>1, <1>2, <1>3, <1>4 DEF Next

LEMMA Invariance == Spec => []DriverInv
BY InitDriverInv, NextDriverInv, PTL DEF Spec

------------------------------------------------------------------------------
(* Every variable of the driver, the virtqueue and the host keeps to its   *)
(* type, for every number of tasks and every ring size.                    *)
THEOREM TypeCorrect == Spec => []TypeOK
<1>1. DriverInv => TypeOK
  BY DEF DriverInv
<1>2. QED
  BY Invariance, <1>1, PTL

(* crdrvdata.lock excludes: one handler at most is between its             *)
(* spin_lock_irqsave and its spin_unlock_irqrestore.                       *)
THEOREM Exclusion == Spec => []LockInv
<1>1. DriverInv => LockInv
  BY DEF DriverInv
<1>2. QED
  BY Invariance, <1>1, PTL

(* A handler that virtqueue_get_buf answers gets its own request back, and *)
(* no request is dropped by a full ring, however small the ring is and     *)
(* however many tasks use the device.                                      *)
THEOREM OwnRequest == Spec => []SingleOutstanding
<1>1. DriverInv => SingleOutstanding
  BY DEF DriverInv
<1>2. QED
  BY Invariance, <1>1, PTL

(* The crypto_open_file that a handler works on is allocated, and none is  *)
(* freed or filled in while another task uses it.                          *)
THEOREM NoUseAfterFree == Spec => []FilesOwned
<1>1. DriverInv => FilesOwned
  BY DEF DriverInv
<1>2. QED
  BY Invariance, <1>1, PTL

------------------------------------------------------------------------------
(* The driver implements CryptoService.                                     *)

(* CryptoService has the steps of CryptoCalls from an instance of its own:  *)
(* they are those of the driver, which the substitution leaves alone.      *)
LEMMA SameData ==
  /\ \A c, v : Result(c, v) = Service!Result(c, v)
  /\ \A c, d, s : Request(c, d, s) = Service!Request(c, d, s)
  /\ NoHostFd = Service!NoHostFd /\ EFAULT = Service!EFAULT
  /\ ENODEV = Service!ENODEV /\ ENOMEM = Service!ENOMEM
  /\ Ioctls = Service!Ioctls
BY DEF NoHostFd, Result, Service!Result, Request, Service!Request, Service!NoHostFd, EFAULT,
       Service!EFAULT, ENODEV, Service!ENODEV, ENOMEM, Service!ENOMEM, Ioctls, Service!Ioctls

(* Calls are entered in the same way, *)
LEMMA SameEntries ==
  ASSUME NEW t
  PROVE  /\ EnterOpen(t) <=> Service!EnterOpen(t)
         /\ \A c \in Ioctls : /\ EnterIoctl(t, c) <=> Service!EnterIoctl(t, c)
                              /\ FaultIoctl(t, c) <=> Service!FaultIoctl(t, c)
         /\ EnterRelease(t) <=> Service!EnterRelease(t)
         /\ DropReference(t) <=> Service!DropReference(t)
         /\ \A u : Fork(t, u) <=> Service!Fork(t, u)
<1>1. NoResult = Service!NoResult
  BY SameData DEF NoResult, Service!NoResult
<1>2. \A r : Issue(t, r) <=> Service!Issue(t, r)
  BY <1>1 DEF Issue, Service!Issue
<1>3. \A c : /\ LegalIoctl(t, c) <=> Service!LegalIoctl(t, c)
             /\ SetKey(t, c) <=> Service!SetKey(t, c)
  BY DEF LegalIoctl, Service!LegalIoctl, SetKey, Service!SetKey
<1>4. /\ LastReference(t) <=> Service!LastReference(t)
      /\ ForgetSession(t) <=> Service!ForgetSession(t)
  BY DEF LastReference, Service!LastReference, ForgetSession, Service!ForgetSession
<1>5. EnterOpen(t) <=> Service!EnterOpen(t)
  BY <1>2, SameData DEF EnterOpen, Service!EnterOpen, Service!NoHostFd
<1>6. ASSUME NEW c \in Ioctls
      PROVE  EnterIoctl(t, c) <=> Service!EnterIoctl(t, c)
  BY <1>2, <1>3, SameData DEF EnterIoctl, Service!EnterIoctl
<1>7. ASSUME NEW c \in Ioctls
      PROVE  FaultIoctl(t, c) <=> Service!FaultIoctl(t, c)
  BY <1>3, SameData DEF FaultIoctl, Service!FaultIoctl
<1>8. EnterRelease(t) <=> Service!EnterRelease(t)
  BY <1>2, <1>4, SameData DEF EnterRelease, Service!EnterRelease
<1>9. DropReference(t) <=> Service!DropReference(t)
  BY <1>4 DEF DropReference, Service!DropReference
<1>10. ASSUME NEW u
       PROVE  Fork(t, u) <=> Service!Fork(t, u)
  BY DEF Fork, Service!Fork
<1>11. QED
  BY <1>5, <1>6, <1>7, <1>8, <1>9, <1>10

(* the host answers them in the same way, *)
LEMMA SameOutcomes ==
  \A h, r : HostOutcomes(h, r) = Service!HostOutcomes(h, r)
<1> SUFFICES ASSUME NEW h, NEW r PROVE HostOutcomes(h, r) = Service!HostOutcomes(h, r)
  OBVIOUS
<1> USE DEF Outcome, Service!Outcome, NoHostFd, Service!NoHostFd
<1>1. OpenOutcomes(h, r) = Service!OpenOutcomes(h, r)
  BY DEF OpenOutcomes, Service!OpenOutcomes
<1>2. CloseOutcomes(h, r) = Service!CloseOutcomes(h, r)
  BY DEF CloseOutcomes, Service!CloseOutcomes
<1>3. GetSessionOutcomes(h, r) = Service!GetSessionOutcomes(h, r)
  BY DEF GetSessionOutcomes, Service!GetSessionOutcomes
<1>4. FinishSessionOutcomes(h, r) = Service!FinishSessionOutcomes(h, r)
  BY DEF FinishSessionOutcomes, Service!FinishSessionOutcomes, Live, Service!Live
<1>5. CryptOutcomes(h, r) = Service!CryptOutcomes(h, r)
  BY DEF CryptOutcomes, Service!CryptOutcomes, Live, Service!Live
<1>6. QED
  BY <1>1, <1>2, <1>3, <1>4, <1>5 DEF HostOutcomes, Service!HostOutcomes

(* and they return in the same way. *)
LEMMA SameReturns ==
  ASSUME NEW t
  PROVE  /\ RefuseOpen(t) <=> Service!RefuseOpen(t)
         /\ Serve(t) <=> Service!Serve(t)
         /\ Leave(t) <=> Service!Leave(t)
<1>1. RefuseOpen(t) <=> Service!RefuseOpen(t)
  BY DEF RefuseOpen, Service!RefuseOpen, Result, Service!Result, ENODEV, Service!ENODEV, ENOMEM,
         Service!ENOMEM
<1>2. Serve(t) <=> Service!Serve(t)
  BY SameOutcomes DEF Serve, Service!Serve
<1>3. Leave(t) <=> Service!Leave(t)
  BY DEF Leave, LeaveOpen, LeaveRelease, LeaveGetSession, LeaveFinishSession, LeaveCrypt,
         LeaveOther, Return, Result, EFAULT, Service!Leave, Service!LeaveOpen,
         Service!LeaveRelease, Service!LeaveGetSession, Service!LeaveFinishSession,
         Service!LeaveCrypt, Service!LeaveOther, Service!Return, Service!Result, Service!EFAULT
<1>4. QED
  BY <1>1, <1>2, <1>3

------------------------------------------------------------------------------
Status == [t \in Tasks |-> StatusOf(t)]

(* The status of a task is a matter of where it is, except while it polls. *)
LEMMA StatusByPc ==
  ASSUME DriverInv, NEW t \in Tasks
  PROVE  /\ Status[t] = "user" <=> pc[t] = "user"
         /\ pc[t] \in {"lookup", "spin", "submit"} => Status[t] = "called"
         /\ pc[t] \in {"unlock", "finish"} => Status[t] = "served"
         /\ pc[t] = "poll" => Status[t] = IF used = <<t>> THEN "served" ELSE "called"
<1>1. pc[t] \in Labels
  BY DEF DriverInv, TypeOK
<1>2. QED
  BY <1>1 DEF Status, StatusOf, Labels

(* The driver starts as the service does. *)
LEMMA InitImplements == Init => Service!ServiceInit
<1> SUFFICES ASSUME Init PROVE Service!ServiceInit
  OBVIOUS
<1>1. [t \in Tasks |-> StatusOf(t)] = [t \in Tasks |-> "user"]
  BY DEF Init, StatusOf
<1>2. CallsInit <=> Service!CallsInit
  <2>1. /\ Request("OPEN", NoHostFd, None) = Service!Request("OPEN", Service!NoHostFd, None)
        /\ NoResult = Service!NoResult
    BY SameData DEF NoResult, Service!NoResult
  <2>2. QED
    BY <2>1, Zenon DEF CallsInit, Service!CallsInit
<1>3. QED
  BY <1>1, <1>2 DEF Init, Service!ServiceInit

(* How the status follows the program counter. *)
LEMMA StatusStep ==
  ASSUME DriverInv, DriverInv', NEW t \in Tasks, NEW l \in Labels,
         pc' = [pc EXCEPT ![t] = l],
         \A u \in Tasks \ {t} : pc[u] = "poll" => UNCHANGED used
  PROVE  Status' = [Status EXCEPT ![t] = Status'[t]]
<1>1. \A u \in Tasks \ {t} : Status'[u] = Status[u]
  BY DEF Status, StatusOf, DriverInv, TypeOK
<1>2. QED
  BY <1>1 DEF Status

(* A handler that is entered is a call of the service. *)
LEMMA CallImplements ==
  ASSUME DriverInv, DriverInv', NEW t \in Tasks, Goto(t, "user", "lookup") \/ Goto(t, "user", "spin"),
         UNCHANGED used,
         \/ EnterOpen(t)
         \/ \E c \in Ioctls : EnterIoctl(t, c)
         \/ EnterRelease(t)
  PROVE  Service!ServiceCall(t)
<1>1. Status[t] = "user" /\ Status'[t] = "called"
  BY DEF Goto, Status, StatusOf, DriverInv, TypeOK
<1>2. Status' = [Status EXCEPT ![t] = "called"]
  BY <1>1, StatusStep DEF Goto, Labels
<1>3. Service!Become(t, "user", "called")
  BY <1>1, <1>2 DEF Service!Become, Status
<1>4. QED
  BY <1>3, SameEntries, SameData DEF Service!ServiceCall

(* A step that leaves calls and their status alone is none of the service. *)
LEMMA Stutter ==
  ASSUME UNCHANGED callVars, Status' = Status
  PROVE  UNCHANGED Service!serviceVars
BY DEF Status, callVars, Service!serviceVars, Service!callVars

(* Every step of the driver, the callers and the backend is a step of the   *)
(* service or none: a call takes effect when the backend serves it.         *)
LEMMA StepImplements ==
  ASSUME DriverInv, DriverInv', [Next]_vars
  PROVE  [Service!ServiceNext]_(Service!serviceVars)
<1>1. ASSUME NEW t \in Tasks, Handler(t)
      PROVE  [Service!ServiceNext]_(Service!serviceVars)
  <2>1. CASE LookupFound(t) \/ SpinLock(t) \/ Submit(t) \/ GetBuf(t) \/ SpinUnlock(t)
    <3>1. PICK l \in Labels : pc' = [pc EXCEPT ![t] = l]
      BY <2>1 DEF LookupFound, SpinLock, Submit, GetBuf, SpinUnlock, Goto, Labels
    <3>2. \A u \in Tasks \ {t} : pc[u] = "poll" => UNCHANGED used
      <4>1. CASE GetBuf(t)
        BY <4>1 DEF GetBuf, Goto, DriverInv, LockInv, InSection
      <4>2. CASE ~GetBuf(t)
        BY <2>1, <4>2 DEF LookupFound, SpinLock, Submit, SpinUnlock, ringVars
      <4>3. QED
        BY <4>1, <4>2
    <3>3. Status'[t] = Status[t]
      <4>1. CASE LookupFound(t) \/ SpinLock(t) \/ SpinUnlock(t)
        BY <4>1 DEF LookupFound, SpinLock, SpinUnlock, Goto, Status, StatusOf, DriverInv, TypeOK
      <4>2. CASE Submit(t)
        <5>1. used = <<>> /\ used' = <<>>
          BY <4>2 DEF Submit, Goto, DriverInv, LockInv, InSection, SingleOutstanding
        <5>2. used' # <<t>>
          BY <5>1
        <5>3. QED
          BY <4>2, <5>2 DEF Submit, Goto, Status, StatusOf, DriverInv, TypeOK
      <4>3. CASE GetBuf(t)
        <5>1. used = <<t>>
          BY <4>3 DEF GetBuf, Goto, DriverInv, SingleOutstanding
        <5>2. QED
          BY <4>3, <5>1 DEF GetBuf, Goto, Status, StatusOf, DriverInv, TypeOK
      <4>4. QED
        BY <2>1, <4>1, <4>2, <4>3
    <3>4. Status' = Status
      BY <3>1, <3>2, <3>3, StatusStep DEF Status
    <3>5. UNCHANGED callVars
      BY <2>1 DEF LookupFound, SpinLock, Submit, GetBuf, SpinUnlock
    <3>6. QED
      BY <3>4, <3>5, Stutter
  <2>2. CASE LookupFailed(t)
    <3>1. Status[t] = "called" /\ Status'[t] = "user" /\ req[t].cmd = "OPEN"
      BY <2>2 DEF LookupFailed, Goto, Status, StatusOf, DriverInv, TypeOK, OneCall
    <3>2. Status' = [Status EXCEPT ![t] = "user"]
      BY <2>2, <3>1, StatusStep DEF LookupFailed, Goto, Labels, ringVars
    <3>3. Service!ServiceRefuse(t)
      BY <2>2, <3>1, <3>2, SameReturns
         DEF LookupFailed, Service!ServiceRefuse, Service!Become, Status
    <3>4. QED
      BY <3>3 DEF Service!ServiceNext
  <2>3. CASE Finish(t)
    <3>1. Status[t] = "served" /\ Status'[t] = "user"
      BY <2>3 DEF Finish, Goto, Status, StatusOf, DriverInv, TypeOK
    <3>2. Status' = [Status EXCEPT ![t] = "user"]
      BY <2>3, <3>1, StatusStep DEF Finish, Goto, Labels, ringVars
    <3>3. Service!ServiceReturn(t)
      BY <2>3, <3>1, <3>2, SameReturns
         DEF Finish, Service!ServiceReturn, Service!Become, Status
    <3>4. QED
      BY <3>3 DEF Service!ServiceNext
  <2>4. QED
    BY <1>1, <2>1, <2>2, <2>3 DEF Handler
<1>2. ASSUME NEW t \in Tasks, Caller(t)
      PROVE  [Service!ServiceNext]_(Service!serviceVars)
  <2>1. CASE Open(t) \/ (\E c \in Ioctls : Ioctl(t, c)) \/ Release(t)
    <3>1. Service!ServiceCall(t)
      BY <2>1, CallImplements DEF Open, Ioctl, Release, ringVars
    <3>2. QED
      BY <3>1 DEF Service!ServiceNext
  <2>2. ASSUME Goto(t, "user", "user"), UNCHANGED ringVars
        PROVE  Service!Become(t, "user", "user")
    <3>1. Status[t] = "user" /\ Status'[t] = "user"
      BY <2>2 DEF Goto, Status, StatusOf, DriverInv, TypeOK
    <3>2. Status' = [Status EXCEPT ![t] = "user"]
      BY <2>2, <3>1, StatusStep DEF Goto, Labels, ringVars
    <3>3. QED
      BY <3>1, <3>2 DEF Service!Become, Status
  <2>3. CASE \E c \in Ioctls : IoctlFault(t, c)
    <3>1. Service!ServiceRefuse(t)
      BY <2>2, <2>3, SameEntries, SameData DEF IoctlFault, Service!ServiceRefuse
    <3>2. QED
      BY <3>1 DEF Service!ServiceNext
  <2>4. CASE Close(t)
    <3>1. Service!ServiceLocal(t)
      BY <2>2, <2>4, SameEntries DEF Close, Service!ServiceLocal
    <3>2. QED
      BY <3>1 DEF Service!ServiceNext
  <2>5. ASSUME NEW u \in Tasks \ {t}, ForkTask(t, u)
        PROVE  [Service!ServiceNext]_(Service!serviceVars)
    <3>1. Service!Become(t, "user", "user")
      BY <2>2, <2>5 DEF ForkTask
    <3>2. Status[u] = "user" /\ Service!Fork(t, u)
      BY <2>5, StatusByPc, SameEntries DEF ForkTask
    <3>3. Service!ServiceLocal(t)
      BY <3>1, <3>2 DEF Service!ServiceLocal, Status
    <3>4. QED
      BY <3>3 DEF Service!ServiceNext
  <2>6. QED
    BY <1>2, <2>1, <2>3, <2>4, <2>5 DEF Caller
<1>3. CASE HandleOutput
  <2>1. CASE avail = <<>>
    <3>1. UNCHANGED <<callVars, pc, used>>
      BY <1>3, <2>1 DEF HandleOutput
    <3>2. QED
      BY <3>1, Stutter DEF Status, StatusOf
  <2>2. CASE avail # <<>>
    <3>1. PICK t \in Tasks : pc[t] = "poll" /\ avail = <<t>> /\ used = <<>>
      BY <2>2 DEF DriverInv, SingleOutstanding
    <3>2. Serve(t) /\ used' = <<t>> /\ UNCHANGED pc
      BY <1>3, <2>2, <3>1 DEF HandleOutput
    <3>3. \A u \in Tasks : pc[u] = "poll" => u = t
      BY <3>1 DEF DriverInv, LockInv, InSection
    <3>4. used # <<t>>
      BY <3>1
    <3>5. Status[t] = "called" /\ Status'[t] = "served"
      BY <3>1, <3>2, <3>4 DEF Status, StatusOf
    <3>6. Status' = [Status EXCEPT ![t] = "served"]
      BY <3>2, <3>3, <3>5, StatusStep DEF DriverInv, TypeOK
    <3>7. Service!ServiceServe(t)
      BY <3>2, <3>5, <3>6, SameReturns DEF Service!ServiceServe, Service!Become, Status
    <3>8. QED
      BY <3>7 DEF Service!ServiceNext
  <2>3. QED
    BY <2>1, <2>2
<1>4. CASE UNCHANGED vars
  BY <1>4, Stutter DEF vars, ringVars, callVars, Status, StatusOf
<1>5. QED
  BY <1>1, <1>2, <1>3, <1>4 DEF Next

(* The driver with its lock, its virtqueue and the backend gives each task  *)
(* what an atomic /dev/crypto would, whatever the others do: each call has  *)
(* its effect on the host once, between its entry and its return, and gets  *)
(* the answer of that moment.                                              *)
THEOREM DriverImplementsService == Spec => ImplementsService
<1>1. DriverInv /\ DriverInv' /\ [Next]_vars => [Service!ServiceNext]_(Service!serviceVars)
  BY StepImplements
<1>2. QED
  BY <1>1, InitImplements, Invariance, PTL DEF Spec, ImplementsService, Service!ServiceSpec

------------------------------------------------------------------------------
(* What is proved of the service holds for the driver.  The theorems about *)
(* the service are instantiated with the driver's status; the service they *)
(* speak of is the one that the driver implements.                         *)
Promise == INSTANCE CryptoServiceProofs WITH status <- [t \in Tasks |-> StatusOf(t)]

(* Both instances of the service are the same specification. *)
LEMMA SameInit == Service!ServiceInit => Promise!ServiceInit
BY DEF Service!ServiceInit, Promise!ServiceInit, Service!CallsInit, Promise!CallsInit,
       Service!NoHostFd, Promise!NoHostFd, Service!Request, Promise!Request,
       Service!NoResult, Promise!NoResult, Service!Result, Promise!Result

LEMMA SameNext == Service!ServiceNext => Promise!ServiceNext
BY Zenon DEF Service!ServiceNext, Promise!ServiceNext, Service!Become, Promise!Become,
       Service!ServiceCall, Promise!ServiceCall, Service!ServiceServe, Promise!ServiceServe,
       Service!ServiceReturn, Promise!ServiceReturn, Service!ServiceRefuse,
       Promise!ServiceRefuse, Service!ServiceLocal, Promise!ServiceLocal,
       Service!EnterOpen, Promise!EnterOpen, Service!EnterIoctl, Promise!EnterIoctl,
       Service!EnterRelease, Promise!EnterRelease, Service!FaultIoctl, Promise!FaultIoctl,
       Service!DropReference, Promise!DropReference, Service!Fork, Promise!Fork,
       Service!Issue, Promise!Issue, Service!LegalIoctl, Promise!LegalIoctl,
       Service!SetKey, Promise!SetKey, Service!LastReference, Promise!LastReference,
       Service!ForgetSession, Promise!ForgetSession, Service!NoResult, Promise!NoResult,
       Service!Result, Promise!Result, Service!Request, Promise!Request,
       Service!Ioctls, Promise!Ioctls, Service!NoHostFd, Promise!NoHostFd,
       Service!EFAULT, Promise!EFAULT, Service!ENODEV, Promise!ENODEV,
       Service!ENOMEM, Promise!ENOMEM, Service!Serve, Promise!Serve,
       Service!HostOutcomes, Promise!HostOutcomes, Service!OpenOutcomes,
       Promise!OpenOutcomes, Service!CloseOutcomes, Promise!CloseOutcomes,
       Service!GetSessionOutcomes, Promise!GetSessionOutcomes,
       Service!FinishSessionOutcomes, Promise!FinishSessionOutcomes,
       Service!CryptOutcomes, Promise!CryptOutcomes, Service!Outcome, Promise!Outcome,
       Service!Live, Promise!Live, Service!RefuseOpen, Promise!RefuseOpen,
       Service!Leave, Promise!Leave, Service!Return, Promise!Return,
       Service!LeaveOpen, Promise!LeaveOpen, Service!LeaveRelease, Promise!LeaveRelease,
       Service!LeaveGetSession, Promise!LeaveGetSession, Service!LeaveFinishSession,
       Promise!LeaveFinishSession, Service!LeaveCrypt, Promise!LeaveCrypt,
       Service!LeaveOther, Promise!LeaveOther

(* The invariant of the service, of the driver. *)
LEMMA DriverKeepsPromise == Spec => []Promise!ServiceInv
<1>1. [Service!ServiceNext]_(Service!serviceVars) => [Promise!ServiceNext]_(Promise!serviceVars)
  BY SameNext DEF Service!serviceVars, Promise!serviceVars, Service!callVars, Promise!callVars
<1>2. Service!ServiceSpec => Promise!ServiceSpec
  BY <1>1, SameInit, PTL DEF Service!ServiceSpec, Promise!ServiceSpec
<1>3. QED
  BY <1>2, DriverImplementsService, Promise!ServiceInvariance, CallersAssumption,
     NoneAssumption, HostFdsAssumption, PTL DEF ImplementsService

(* Every host descriptor that is open belongs to one open file or one call *)
(* of open, for any number of either, and no open file names a descriptor  *)
(* that the host has closed (crof->host_fd in crypto_chrdev_open and       *)
(* _release).                                                              *)
THEOREM HostFdsStayOwned == Spec => []HostFdsOwned
<1>1. DriverInv /\ Promise!ServiceInv => HostFdsOwned
  <2> SUFFICES ASSUME DriverInv, Promise!ServiceInv PROVE HostFdsOwned
    OBVIOUS
  <2>1. Promise!FdsOwned
    BY DEF Promise!ServiceInv, Promise!SessionInv
  <2>2. host.open \subseteq HeldFds
    <3>1. host.open \subseteq HostFds
      BY DEF DriverInv, TypeOK, CallsTypeOK, HostStates
    <3>2. QED
      BY <2>1, <3>1
         DEF Promise!FdsOwned, Promise!Stores, Promise!Brings, Promise!Served, HeldFds
  <2>3. \A f \in Files : Promise!Closed(f) => Releasing(f)
    BY DEF Promise!Closed, Promise!Served, Releasing
  <2>4. QED
    BY <2>1, <2>2, <2>3 DEF Promise!FdsOwned, Promise!Stores, HostFdsOwned
<1>2. QED
  BY <1>1, Invariance, DriverKeepsPromise, PTL

(* CIOCCRYPT on a session that the caller has got and not finished succeeds *)
(* and is computed with that session, however many tasks share the open    *)
(* file or the device.                                                     *)
THEOREM CryptsSucceed == Spec => []CryptSucceeds
<1>1. Promise!ServiceInv => CryptSucceeds
  BY SameData DEF Promise!ServiceInv, Promise!SessionInv, Promise!CryptSucceeds, CryptSucceeds,
                  Promise!EFAULT, EFAULT
<1>2. QED
  BY <1>1, DriverKeepsPromise, PTL

(* The session of a task is alive behind its open file, and its own. *)
THEOREM SessionsStayPrivate == Spec => []SessionsPrivate
<1>1. DriverInv /\ Promise!ServiceInv => SessionsPrivate
  <2> SUFFICES ASSUME DriverInv, Promise!ServiceInv PROVE SessionsPrivate
    OBVIOUS
  <2>1. \A t \in Tasks : pc[t] = "user" => Promise!Own(t) = ses[t]
    BY StatusByPc DEF Promise!Own, Promise!Served, Status
  <2>2. QED
    BY <2>1 DEF Promise!ServiceInv, Promise!SessionInv, Promise!SessionsOwned, SessionsPrivate
<1>2. QED
  BY <1>1, Invariance, DriverKeepsPromise, PTL

(* When no task has a descriptor or is in a call of the driver, the host's *)
(* device is closed and has no session, and the driver has no open file:   *)
(* crypto_chrdev_release and the host's close leave nothing.               *)
HostClosed ==
  (\A t \in Tasks : fd[t] = None /\ pc[t] = "user") =>
    /\ host.open = {}
    /\ \A d \in HostFds : host.ses[d] = {}
    /\ \A f \in Files : crof[f] = None

(* The driver leaves nothing of a caller that has gone, whatever its calls  *)
(* were and however they failed.                                           *)
THEOREM DriverLeavesNothing == Spec => []HostClosed
<1>1. DriverInv /\ Promise!ServiceInv => HostClosed
  <2> SUFFICES ASSUME DriverInv, Promise!ServiceInv,
                      \A t \in Tasks : fd[t] = None /\ cur[t] = None
               PROVE  /\ host.open = {}
                      /\ \A d \in HostFds : host.ses[d] = {}
                      /\ \A f \in Files : crof[f] = None
    BY DEF DriverInv, OneCall, HostClosed
  <2>1. \A f \in Files : crof[f] = None
    BY CallersAssumption DEF Promise!ServiceInv, Promise!NothingLost
  <2>2. \A d \in HostFds : d # None
    BY HostFdIsSomething
  <2>3. host.open = {}
    <3>1. host.open \subseteq HostFds
      BY DEF DriverInv, TypeOK, CallsTypeOK, HostStates
    <3>2. QED
      BY <2>1, <2>2, <3>1
         DEF Promise!ServiceInv, Promise!SessionInv, Promise!FdsOwned, Promise!Stores,
             Promise!Brings
  <2>4. QED
    BY <2>1, <2>3 DEF Promise!ServiceInv, Promise!NothingLost
<1>2. QED
  BY <1>1, Invariance, DriverKeepsPromise, PTL
==============================================================================
