-------------------------- MODULE CryptoCallsProofs --------------------------
(***************************************************************************)
(* The steps of CryptoCalls keep its variables well typed and its open     *)
(* files owned, for any number of tasks, files, descriptors and sessions.  *)
(* The modules that put the steps together cite StartsKeepInv and          *)
(* ContinuesKeepInv.                                                       *)
(***************************************************************************)
EXTENDS CryptoCalls, TLAPS

USE DEF NoHostFd

(* What the host answers to a well-formed request is a host state and a    *)
(* well-formed request: vq_handle_output.                                  *)
LEMMA HostOutcomesType ==
  ASSUME NEW h \in HostStates, NEW r \in Requests, NEW o \in HostOutcomes(h, r)
  PROVE  o.host \in HostStates /\ o.req \in Requests /\ o.req.cmd = r.cmd
<1>1. CASE r.cmd = "OPEN"
  BY <1>1, SMTT(30) DEF HostOutcomes, OpenOutcomes, Outcome, HostStates, Requests
<1>2. CASE r.cmd = "CLOSE"
  BY <1>2 DEF HostOutcomes, CloseOutcomes, Outcome, HostStates, Requests
<1>3. CASE r.cmd = "CIOCGSESSION"
  <2>1. CASE o = Outcome(h, [r EXCEPT !.key = "host", !.ret = -1])
    BY <2>1 DEF Outcome, Requests
  <2>2. ASSUME NEW d \in h.open \cap {r.hostFd}, NEW i \in SessionIds \ h.ses[d],
               o = Outcome([h EXCEPT !.ses[r.hostFd] = @ \cup {i}],
                           [r EXCEPT !.key = "host", !.ses = i, !.ret = 0])
        PROVE  o.host \in HostStates /\ o.req \in Requests /\ o.req.cmd = r.cmd
    <3>1. r.hostFd \in HostFds /\ h.ses[r.hostFd] \cup {i} \in SUBSET SessionIds
      BY DEF HostStates
    <3>2. [h EXCEPT !.ses[r.hostFd] = @ \cup {i}] \in HostStates
      BY <3>1 DEF HostStates
    <3>3. [r EXCEPT !.key = "host", !.ses = i, !.ret = 0] \in Requests
      BY DEF Requests
    <3>4. QED
      BY <2>2, <3>2, <3>3 DEF Outcome, Requests
  <2>3. o \in GetSessionOutcomes(h, r)
    BY <1>3 DEF HostOutcomes
  <2>4. QED
    BY <2>1, <2>2, <2>3 DEF GetSessionOutcomes
<1>4. CASE r.cmd = "CIOCFSESSION"
  BY <1>4 DEF HostOutcomes, FinishSessionOutcomes, Live, Outcome, HostStates, Requests
<1>5. CASE r.cmd = "CIOCCRYPT"
  <2>1. /\ [r EXCEPT !.dst = r.ses, !.ret = 0] \in Requests
        /\ [r EXCEPT !.ret = -1] \in Requests
        /\ [r EXCEPT !.dst = r.ses, !.ret = 0].cmd = r.cmd
        /\ [r EXCEPT !.ret = -1].cmd = r.cmd
    BY DEF Requests
  <2>2. o \in CryptOutcomes(h, r)
    BY <1>5 DEF HostOutcomes
  <2>3. o.host = h /\ o.req \in {[r EXCEPT !.dst = r.ses, !.ret = 0], [r EXCEPT !.ret = -1]}
    BY <2>2 DEF CryptOutcomes, Outcome
  <2>4. QED
    BY <2>1, <2>3
<1>6. CASE r.cmd = "OTHER"
  BY <1>6 DEF HostOutcomes, Outcome
<1>7. QED
  BY <1>1, <1>2, <1>3, <1>4, <1>5, <1>6, SMTT(30) DEF Requests, Commands, Ioctls

(* The request that a driver's handler builds is well formed. *)
LEMMA RequestType ==
  ASSUME NEW c \in Commands, NEW d \in HostFds \cup {NoHostFd},
         NEW s \in SessionIds \cup {None}
  PROVE  Request(c, d, s) \in Requests
BY DEF Request, Requests

(* What open leaves in host_fd, a descriptor or -1, is never "not           *)
(* allocated".                                                             *)
LEMMA HostFdIsSomething ==
  ASSUME NEW d \in HostFds \cup {NoHostFd}
  PROVE  d # None
<1>1. CASE d \in HostFds
  <2>1. d \in Nat
    BY <1>1, HostFdsAssumption
  <2>2. QED
    BY <2>1, NoneAssumption
<1>2. CASE d = NoHostFd
  BY <1>2, NoneAssumption
<1>3. QED
  BY <1>1, <1>2

------------------------------------------------------------------------------
(* A step of task t, with what the control of a driver ensures about it:   *)
(* a task is in one call at a time.                                        *)
Starts(t) ==
  /\ cur[t] = None
  /\ \/ EnterOpen(t)
     \/ \E c \in Ioctls : EnterIoctl(t, c) \/ FaultIoctl(t, c)
     \/ DropReference(t)
     \/ EnterRelease(t)
     \/ \E u \in Tasks : cur[u] = None /\ Fork(t, u)

Continues(t) ==
  /\ cur[t] # None
  /\ \/ req[t].cmd = "OPEN" /\ RefuseOpen(t)
     \/ Serve(t)
     \/ Leave(t)

CallsInv == CallsTypeOK /\ FilesOwned

(* In the initial state no open file is allocated and no task is in a call. *)
LEMMA CallsInitInv == CallsInit => CallsInv
<1>1. Request("OPEN", NoHostFd, None) \in Requests
  BY RequestType DEF Commands
<1>2. QED
  BY <1>1 DEF CallsInit, CallsInv, CallsTypeOK, FilesOwned, InOpenOrRelease, HostStates,
              NoResult, Result, Results, Commands

(* Whatever a task starts keeps the calls well formed and the open files   *)
(* owned: the entry of open, ioctl and release, fork and close.            *)
LEMMA StartsKeepInv ==
  ASSUME CallsInv, NEW t \in Tasks, Starts(t)
  PROVE  CallsInv'
<1> USE CallersAssumption, NoneAssumption
<1>1. CASE EnterOpen(t)
  <2>1. PICK f \in Files : /\ crof[f] = None
                           /\ crof' = [crof EXCEPT ![f] = NoHostFd]
                           /\ cur' = [cur EXCEPT ![t] = f]
    BY <1>1 DEF EnterOpen
  <2>2. req' = [req EXCEPT ![t] = Request("OPEN", NoHostFd, None)]
    BY <1>1 DEF EnterOpen, Issue
  <2>3. /\ Request("OPEN", NoHostFd, None) \in Requests
        /\ Request("OPEN", NoHostFd, None).cmd = "OPEN"
    BY RequestType DEF Commands, Request
  <2>4. CallsTypeOK'
    BY <1>1, <2>1, <2>2, <2>3
       DEF CallsInv, CallsTypeOK, EnterOpen, Issue, NoResult, Result, Results
  <2>5. FilesOwned'
    BY <1>1, <2>1, <2>2, <2>3
       DEF CallsInv, CallsTypeOK, FilesOwned, InOpenOrRelease, EnterOpen, Ioctls
  <2>6. QED
    BY <2>4, <2>5 DEF CallsInv
<1>2. ASSUME NEW c \in Ioctls, EnterIoctl(t, c)
      PROVE  CallsInv'
  <2>1. fd[t] \in Files /\ crof[fd[t]] # None
    BY <1>2 DEF EnterIoctl, LegalIoctl, CallsInv, CallsTypeOK, FilesOwned
  <2>2. /\ Request(c, crof[fd[t]], ses[t]) \in Requests
        /\ Request(c, crof[fd[t]], ses[t]).cmd = c
    <3>1. crof[fd[t]] \in HostFds \cup {NoHostFd} /\ ses[t] \in SessionIds \cup {None}
      BY <2>1 DEF CallsInv, CallsTypeOK
    <3>2. QED
      BY <3>1, RequestType DEF Commands, Request
  <2>3. CallsTypeOK'
    BY <1>2, <2>1, <2>2
       DEF CallsInv, CallsTypeOK, EnterIoctl, Issue, SetKey, NoResult, Result, Results
  <2>4. FilesOwned'
    BY <1>2, <2>1, <2>2
       DEF CallsInv, CallsTypeOK, FilesOwned, InOpenOrRelease, EnterIoctl, Issue, Ioctls
  <2>5. QED
    BY <2>3, <2>4 DEF CallsInv
<1>3. ASSUME NEW c \in Ioctls, FaultIoctl(t, c)
      PROVE  CallsInv'
  BY <1>3 DEF FaultIoctl, SetKey, CallsInv, CallsTypeOK, FilesOwned, InOpenOrRelease,
              Result, Results, Commands
<1>4. CASE DropReference(t)
  <2>1. CallsTypeOK'
    BY <1>4 DEF DropReference, ForgetSession, CallsInv, CallsTypeOK
  <2>2. FilesOwned'
    BY <1>4, Starts(t)
       DEF Starts, DropReference, CallsInv, CallsTypeOK, FilesOwned, InOpenOrRelease
  <2>3. QED
    BY <2>1, <2>2 DEF CallsInv
<1>5. CASE EnterRelease(t)
  <2>1. fd[t] \in Files /\ crof[fd[t]] # None
    BY <1>5 DEF EnterRelease, CallsInv, CallsTypeOK, FilesOwned
  <2>2. /\ Request("CLOSE", crof[fd[t]], None) \in Requests
        /\ Request("CLOSE", crof[fd[t]], None).cmd = "CLOSE"
    BY <2>1, RequestType DEF CallsInv, CallsTypeOK, Commands, Request
  <2>3. CallsTypeOK'
    BY <1>5, <2>1, <2>2
       DEF EnterRelease, ForgetSession, Issue, CallsInv, CallsTypeOK, NoResult, Result,
           Results
  <2>4. \A u \in Tasks \ {t} : fd[u] # fd[t] /\ cur[u] # fd[t]
    BY <1>5, <2>1
       DEF EnterRelease, LastReference, CallsInv, CallsTypeOK, FilesOwned,
           InOpenOrRelease, Requests, Commands
  <2>5. FilesOwned'
    BY <1>5, <2>1, <2>2, <2>4
       DEF EnterRelease, Issue, CallsInv, CallsTypeOK, FilesOwned, InOpenOrRelease,
           Ioctls
  <2>6. QED
    BY <2>3, <2>5 DEF CallsInv
<1>6. ASSUME NEW u \in Tasks, cur[u] = None, Fork(t, u)
      PROVE  CallsInv'
  BY <1>6 DEF Fork, CallsInv, CallsTypeOK, FilesOwned, InOpenOrRelease
<1>7. QED
  BY Starts(t), <1>1, <1>2, <1>3, <1>4, <1>5, <1>6 DEF Starts

(* So does every later step of a call: the refusal of open, the host's     *)
(* service and the return.                                                 *)
LEMMA ContinuesKeepInv ==
  ASSUME CallsInv, NEW t \in Tasks, Continues(t)
  PROVE  CallsInv'
<1> USE CallersAssumption, NoneAssumption
<1>1. cur[t] \in Files /\ crof[cur[t]] # None /\ req[t] \in Requests
  BY DEF Continues, CallsInv, CallsTypeOK, FilesOwned
<1>2. CASE req[t].cmd = "OPEN" /\ RefuseOpen(t)
  <2>1. CallsTypeOK'
    BY <1>1, <1>2
       DEF RefuseOpen, CallsInv, CallsTypeOK, Result, Results, Commands, ENODEV, ENOMEM
  <2>2. FilesOwned'
    BY <1>1, <1>2
       DEF RefuseOpen, CallsInv, CallsTypeOK, FilesOwned, InOpenOrRelease
  <2>3. QED
    BY <2>1, <2>2 DEF CallsInv
<1>3. CASE Serve(t)
  <2>1. PICK o \in HostOutcomes(host, req[t]) :
          host' = o.host /\ req' = [req EXCEPT ![t] = o.req]
    BY <1>3 DEF Serve
  <2>2. o.host \in HostStates /\ o.req \in Requests /\ o.req.cmd = req[t].cmd
    BY <1>1, HostOutcomesType DEF CallsInv, CallsTypeOK
  <2>3. QED
    BY <1>3, <2>1, <2>2
       DEF Serve, CallsInv, CallsTypeOK, FilesOwned, InOpenOrRelease
<1>4. CASE LeaveOpen(t)
  <2>1. CallsTypeOK'
    BY <1>1, <1>4
       DEF LeaveOpen, Return, CallsInv, CallsTypeOK, Result, Results, Commands, Requests
  <2>2. req[t].hostFd # None
    <3>1. req[t].hostFd \in HostFds \cup {NoHostFd}
      BY <1>1 DEF Requests
    <3>2. QED
      BY <3>1, HostFdIsSomething
  <2>3. FilesOwned'
    BY <1>1, <1>4, <2>2
       DEF LeaveOpen, Return, CallsInv, CallsTypeOK, FilesOwned, InOpenOrRelease
  <2>4. QED
    BY <2>1, <2>3 DEF CallsInv
<1>5. CASE LeaveRelease(t)
  <2>1. CallsTypeOK'
    BY <1>1, <1>5
       DEF LeaveRelease, Return, CallsInv, CallsTypeOK, Result, Results, Commands
  <2>2. FilesOwned'
    BY <1>1, <1>5
       DEF LeaveRelease, Return, CallsInv, CallsTypeOK, FilesOwned, InOpenOrRelease
  <2>3. QED
    BY <2>1, <2>2 DEF CallsInv
<1>6. CASE \/ LeaveGetSession(t)
           \/ LeaveFinishSession(t)
           \/ LeaveCrypt(t)
           \/ LeaveOther(t)
  <2>1. /\ cur' = [cur EXCEPT ![t] = None]
        /\ UNCHANGED <<host, req, crof, fd>>
        /\ \E v \in {0, -1, EFAULT} :
             result' = [result EXCEPT ![t] = Result(req[t].cmd, v)]
    BY <1>1, <1>6
       DEF LeaveGetSession, LeaveFinishSession, LeaveCrypt, LeaveOther, Return, Requests
  <2>2. /\ ses' \in [Tasks -> SessionIds \cup {None}]
        /\ key' \in [Tasks -> {"user", "host"}]
        /\ out' \in [Tasks -> SessionIds \cup {None}]
    BY <1>1, <1>6
       DEF LeaveGetSession, LeaveFinishSession, LeaveCrypt, LeaveOther, CallsInv,
           CallsTypeOK, Requests
  <2>3. \A v \in {0, -1, EFAULT} : Result(req[t].cmd, v) \in Results
    BY <1>1 DEF Result, Results, Requests
  <2>4. CallsTypeOK'
    <3>1. result' \in [Tasks -> Results]
      BY <2>1, <2>3 DEF CallsInv, CallsTypeOK
    <3>2. QED
      BY <2>1, <2>2, <3>1 DEF CallsInv, CallsTypeOK
  <2>5. FilesOwned'
    BY <1>1, <2>1 DEF CallsInv, CallsTypeOK, FilesOwned, InOpenOrRelease
  <2>6. QED
    BY <2>4, <2>5 DEF CallsInv
<1>7. QED
  BY Continues(t), <1>2, <1>3, <1>4, <1>5, <1>6 DEF Continues, Leave
==============================================================================
