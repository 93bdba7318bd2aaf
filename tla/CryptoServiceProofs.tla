------------------------- MODULE CryptoServiceProofs -------------------------
(***************************************************************************)
(* What the programs of the guest get from CryptoService: whose the host's *)
(* descriptors and sessions are, and that nothing is left of them.  For    *)
(* any number of tasks, files, descriptors and sessions.                   *)
(***************************************************************************)
EXTENDS CryptoService, CryptoCallsProofs

Served(t, c) == status[t] = "served" /\ req[t].cmd = c

(* A request still says what the handler put in it, as far as the host has *)
(* not answered it, and the open file has not changed under the call.      *)
RequestKept ==
  \A t \in Tasks :
    cur[t] # None =>
      /\ req[t].cmd = "OPEN" => crof[cur[t]] = NoHostFd
      /\ req[t].cmd # "OPEN" => req[t].hostFd = crof[cur[t]]
      /\ req[t].cmd \in {"OPEN", "CLOSE"} => fd[t] = None
      /\ req[t].cmd = "CIOCGSESSION" => ses[t] = None
      /\ req[t].cmd \in {"CIOCFSESSION", "CIOCCRYPT"} =>
           req[t].ses = ses[t] /\ ses[t] # None
      /\ status[t] = "called" =>
           /\ req[t].cmd = "OPEN" => req[t].hostFd = NoHostFd
           /\ req[t].cmd = "CIOCGSESSION" => req[t].ses = None

(* The host descriptor of an open file, until the host has closed it, and  *)
(* the one that an open has got and not stored yet.                        *)
Closed(f) == \E t \in Tasks : cur[t] = f /\ Served(t, "CLOSE")

Stores(f, d) == crof[f] = d /\ ~Closed(f)

Brings(t, d) == cur[t] # None /\ Served(t, "OPEN") /\ req[t].hostFd = d

FdsOwned ==
  \A d \in HostFds :
    /\ d \in host.open <=> (\E f \in Files : Stores(f, d)) \/ (\E t \in Tasks : Brings(t, d))
    /\ \A f, g \in Files : Stores(f, d) /\ Stores(g, d) => f = g
    /\ \A t, u \in Tasks : Brings(t, d) /\ Brings(u, d) => t = u
    /\ \A f \in Files, t \in Tasks : ~(Stores(f, d) /\ Brings(t, d))

(* The session that a task has or is about to learn of. *)
Own(t) ==
  IF Served(t, "CIOCGSESSION") THEN req[t].ses
  ELSE IF Served(t, "CIOCFSESSION") THEN None
  ELSE ses[t]

SessionsOwned ==
  \A t \in Tasks :
    /\ fd[t] = None => ses[t] = None
    /\ Own(t) # None =>
         /\ fd[t] # None
         /\ crof[fd[t]] \in host.open
         /\ Own(t) \in host.ses[crof[fd[t]]]
         /\ \A u \in Tasks \ {t} : fd[u] = fd[t] => Own(u) # Own(t)

(* What the host has answered to a CIOCCRYPT or CIOCFSESSION. *)
Answered ==
  \A t \in Tasks :
    /\ Served(t, "CIOCCRYPT") => req[t].ret = 0 /\ req[t].dst = ses[t]
    /\ Served(t, "CIOCFSESSION") => req[t].ret = 0

(* Open files are released: one that is allocated has a descriptor or is in *)
(* a call, and a descriptor that is not open has no sessions.              *)
NothingLost ==
  /\ \A f \in Files : crof[f] # None => \E t \in Tasks : fd[t] = f \/ cur[t] = f
  /\ \A d \in HostFds \ host.open : host.ses[d] = {}

SessionInv == RequestKept /\ FdsOwned /\ SessionsOwned /\ Answered /\ CryptSucceeds

------------------------------------------------------------------------------
(* A task is in a call from its entry to its return. *)
StatusOK ==
  /\ status \in [Tasks -> {"user", "called", "served"}]
  /\ \A t \in Tasks : status[t] = "user" <=> cur[t] = None

Base == CallsInv /\ StatusOK

ServiceInv == Base /\ SessionInv /\ NothingLost

(* The steps of the service, sorted by what they do to a call. *)
LocalStep(t) ==
  /\ Become(t, "user", "user")
  /\ \/ \E c \in Ioctls : FaultIoctl(t, c)
     \/ DropReference(t)
     \/ \E u \in Tasks \ {t} : status[u] = "user" /\ Fork(t, u)

ReturnStep(t) ==
  \/ ServiceReturn(t)
  \/ Become(t, "called", "user") /\ req[t].cmd = "OPEN" /\ RefuseOpen(t)

StepOf(t) == ServiceCall(t) \/ LocalStep(t) \/ ServiceServe(t) \/ ReturnStep(t)

(* The steps of the service, sorted by what they do to a call. *)
LEMMA SortedSteps == ServiceNext <=> \E t \in Tasks : StepOf(t)
BY DEF ServiceNext, StepOf, LocalStep, ReturnStep, ServiceRefuse, ServiceLocal

(* A step of one call keeps the calls well formed. *)
LEMMA StepKeepsBase ==
  ASSUME Base, NEW t \in Tasks, StepOf(t)
  PROVE  Base'
<1>1. CASE ServiceCall(t) \/ LocalStep(t)
  <2>1. CallsInv'
    BY <1>1, StartsKeepInv DEF ServiceCall, LocalStep, Become, Starts, Base, StatusOK
  <2>2. CASE ServiceCall(t)
    <3>1. cur' = [cur EXCEPT ![t] = cur'[t]] /\ cur'[t] # None
      BY <2>2, CallersAssumption
         DEF ServiceCall, EnterOpen, EnterIoctl, LegalIoctl, EnterRelease, Base, CallsInv,
             CallsTypeOK
    <3>2. StatusOK'
      BY <2>2, <3>1 DEF ServiceCall, Become, Base, StatusOK, CallsInv, CallsTypeOK
    <3>3. QED
      BY <2>1, <3>2 DEF Base
  <2>3. CASE LocalStep(t)
    <3>1. UNCHANGED cur
      BY <2>3 DEF LocalStep, FaultIoctl, DropReference, Fork
    <3>2. StatusOK'
      BY <2>3, <3>1 DEF LocalStep, Become, Base, StatusOK
    <3>3. QED
      BY <2>1, <3>2 DEF Base
  <2>4. QED
    BY <1>1, <2>2, <2>3
<1>2. CASE ServiceServe(t) \/ ReturnStep(t)
  <2>1. CallsInv'
    BY <1>2, ContinuesKeepInv
       DEF ServiceServe, ReturnStep, ServiceReturn, Become, Continues, Base, StatusOK
  <2>2. CASE ServiceServe(t)
    <3>1. StatusOK'
      BY <2>2 DEF ServiceServe, Serve, Become, Base, StatusOK
    <3>2. QED
      BY <2>1, <3>1 DEF Base
  <2>3. CASE ReturnStep(t)
    <3>1. cur' = [cur EXCEPT ![t] = None]
      BY <2>3 DEF ReturnStep, ServiceReturn, Leave, LeaveOpen, LeaveRelease, LeaveGetSession,
                  LeaveFinishSession, LeaveCrypt, LeaveOther, Return, RefuseOpen
    <3>2. StatusOK'
      BY <2>3, <3>1 DEF ReturnStep, ServiceReturn, Become, Base, StatusOK, CallsInv, CallsTypeOK
    <3>3. QED
      BY <2>1, <3>2 DEF Base
  <2>4. QED
    BY <1>2, <2>2, <2>3
<1>3. QED
  BY <1>1, <1>2 DEF StepOf

(* Host descriptors are not the values that stand for none. *)
LEMMA FdSort == \A d \in HostFds : d # None /\ d # NoHostFd
<1> SUFFICES ASSUME NEW d \in HostFds PROVE d # None /\ d # NoHostFd
  BY Zenon
<1>1. d \in Nat
  BY HostFdsAssumption
<1>2. QED
  BY <1>1, NoneAssumption DEF NoHostFd

(* A step that moves no descriptor of the host keeps their owners. *)
LEMMA FdsFrame ==
  ASSUME FdsOwned, host'.open = host.open,
         \A d \in HostFds : /\ \A f \in Files : Stores(f, d)' <=> Stores(f, d)
                            /\ \A u \in Tasks : Brings(u, d)' <=> Brings(u, d)
  PROVE  FdsOwned'
BY DEF FdsOwned

(* Entering a call. *)
LEMMA CallKeeps ==
  ASSUME Base, Base', SessionInv, NEW t \in Tasks, ServiceCall(t)
  PROVE  SessionInv'
<1> USE CallersAssumption, NoneAssumption
<1>1. /\ cur[t] = None /\ status[t] = "user" /\ status'[t] = "called"
      /\ \A u \in Tasks \ {t} : status'[u] = status[u]
  BY DEF ServiceCall, Become, Base, StatusOK
<1>2. /\ \A u \in Tasks \ {t} : req'[u] = req[u] /\ cur'[u] = cur[u]
      /\ host' = host
      /\ result' = [result EXCEPT ![t] = NoResult]
  BY DEF ServiceCall, EnterOpen, EnterIoctl, EnterRelease, Issue, Base, CallsInv, CallsTypeOK
<1>3. \A u \in Tasks, c \in Commands : Served(u, c)' <=> Served(u, c)
  BY <1>1, <1>2 DEF Served
<1>4. \A f \in Files : Closed(f)' <=> Closed(f)
  BY <1>1, <1>2 DEF Closed, Served
<1>5. \A u \in Tasks, d \in HostFds : Brings(u, d)' <=> Brings(u, d)
  BY <1>1, <1>2 DEF Brings, Served
<1>6. Answered'
  BY <1>1, <1>2 DEF Answered, Served, SessionInv, ServiceCall, EnterOpen, EnterIoctl, EnterRelease,
        ForgetSession, Base, CallsInv, CallsTypeOK
<1>7. CryptSucceeds'
  BY <1>2 DEF CryptSucceeds, SessionInv, ServiceCall, EnterOpen, EnterIoctl, EnterRelease,
        ForgetSession, Base, CallsInv, CallsTypeOK, NoResult, Result
<1>8. CASE EnterOpen(t)
  <2>1. PICK f \in Files : /\ crof[f] = None
                           /\ crof' = [crof EXCEPT ![f] = NoHostFd]
                           /\ cur' = [cur EXCEPT ![t] = f]
    BY <1>8 DEF EnterOpen
  <2>2. /\ req'[t] = Request("OPEN", NoHostFd, None)
        /\ fd[t] = None /\ UNCHANGED <<fd, ses>>
    BY <1>8 DEF EnterOpen, Issue, Base, CallsInv, CallsTypeOK
  <2>3. \A u \in Tasks \ {t} : cur[u] # f /\ fd[u] # f
    BY <2>1 DEF Base, CallsInv, FilesOwned
  <2>4. RequestKept'
    BY <1>1, <1>2, <2>1, <2>2, <2>3
       DEF SessionInv, RequestKept, Request, Base, CallsInv, CallsTypeOK
  <2>5. \A g \in Files, d \in HostFds : Stores(g, d)' <=> Stores(g, d)
    BY <1>4, <2>1, FdSort DEF Stores, Base, CallsInv, CallsTypeOK
  <2>6. FdsOwned'
    BY <1>2, <1>5, <2>5, FdsFrame DEF SessionInv
  <2>7. SessionsOwned'
    BY <1>1, <1>2, <2>1, <2>2, <2>3
       DEF SessionInv, SessionsOwned, Own, Served, Base, CallsInv, CallsTypeOK
  <2>8. QED
    BY <1>6, <1>7, <2>4, <2>6, <2>7 DEF SessionInv
<1>9. ASSUME NEW c \in Ioctls, EnterIoctl(t, c)
      PROVE  SessionInv'
  <2>1. /\ req'[t] = Request(c, crof[fd[t]], ses[t])
        /\ cur' = [cur EXCEPT ![t] = fd[t]]
        /\ LegalIoctl(t, c) /\ UNCHANGED <<crof, fd, ses>>
    BY <1>9 DEF EnterIoctl, Issue, Base, CallsInv, CallsTypeOK
  <2>2. RequestKept'
    BY <1>1, <1>2, <2>1
       DEF SessionInv, RequestKept, Request, LegalIoctl, Ioctls, Base, CallsInv, CallsTypeOK
  <2>3. \A g \in Files, d \in HostFds : Stores(g, d)' <=> Stores(g, d)
    BY <1>4, <2>1 DEF Stores
  <2>4. FdsOwned'
    BY <1>2, <1>5, <2>3, FdsFrame DEF SessionInv
  <2>5. SessionsOwned'
    BY <1>1, <1>2, <2>1
       DEF SessionInv, SessionsOwned, Own, Served, Base, CallsInv, CallsTypeOK
  <2>6. QED
    BY <1>6, <1>7, <2>2, <2>4, <2>5 DEF SessionInv
<1>10. CASE EnterRelease(t)
  <2>1. /\ req'[t] = Request("CLOSE", crof[fd[t]], None)
        /\ cur' = [cur EXCEPT ![t] = fd[t]]
        /\ fd[t] # None /\ fd' = [fd EXCEPT ![t] = None]
        /\ ses' = [ses EXCEPT ![t] = None]
        /\ UNCHANGED crof
    BY <1>10 DEF EnterRelease, Issue, ForgetSession, Base, CallsInv, CallsTypeOK
  <2>2. RequestKept'
    BY <1>1, <1>2, <2>1
       DEF SessionInv, RequestKept, Request, Base, CallsInv, CallsTypeOK
  <2>3. \A g \in Files, d \in HostFds : Stores(g, d)' <=> Stores(g, d)
    BY <1>4, <2>1 DEF Stores
  <2>4. FdsOwned'
    BY <1>2, <1>5, <2>3, FdsFrame DEF SessionInv
  <2>5. SessionsOwned'
    BY <1>1, <1>2, <2>1
       DEF SessionInv, SessionsOwned, Own, Served, Base, CallsInv, CallsTypeOK
  <2>6. QED
    BY <1>6, <1>7, <2>2, <2>4, <2>5 DEF SessionInv
<1>11. QED
  BY <1>8, <1>9, <1>10 DEF ServiceCall

(* What happens without a call: a fault before it, fork and a close that is *)
(* not the last.                                                           *)
LEMMA LocalKeeps ==
  ASSUME Base, Base', SessionInv, NEW t \in Tasks, LocalStep(t)
  PROVE  SessionInv'
<1> USE CallersAssumption, NoneAssumption
<1>1. /\ cur[t] = None /\ status' = status
      /\ UNCHANGED <<host, crof, cur, req>>
  BY DEF LocalStep, Become, Base, StatusOK, FaultIoctl, DropReference, Fork
<1>2. RequestKept'
  <2>1. \A u \in Tasks : cur[u] # None => ses'[u] = ses[u] /\ fd'[u] = fd[u]
    BY <1>1 DEF LocalStep, FaultIoctl, DropReference, ForgetSession, Fork, Base, StatusOK,
                CallsInv, CallsTypeOK
  <2>2. QED
    BY <1>1, <2>1 DEF SessionInv, RequestKept
<1>3. FdsOwned'
  BY <1>1, FdsFrame DEF SessionInv, Stores, Closed, Brings, Served
<1>4. Answered'
  <2>1. \A u \in Tasks : status[u] = "served" => ses'[u] = ses[u]
    BY <1>1 DEF LocalStep, FaultIoctl, DropReference, ForgetSession, Fork, Base, StatusOK, CallsInv,
                CallsTypeOK
  <2>2. QED
    BY <1>1, <2>1 DEF SessionInv, Answered, Served
<1>5. CryptSucceeds'
  <2>1. CASE \E c \in Ioctls : FaultIoctl(t, c)
    BY <2>1 DEF FaultIoctl, SessionInv, CryptSucceeds, Base, CallsInv, CallsTypeOK, Result
  <2>2. CASE DropReference(t)
    BY <2>2 DEF DropReference, ForgetSession, SessionInv, CryptSucceeds, Base, CallsInv, CallsTypeOK
  <2>3. CASE \E u \in Tasks : Fork(t, u)
    BY <2>3 DEF Fork, SessionInv, CryptSucceeds
  <2>4. QED
    BY <2>1, <2>2, <2>3 DEF LocalStep
<1>6. SessionsOwned'
  <2>1. CASE \E c \in Ioctls : FaultIoctl(t, c)
    BY <1>1, <2>1 DEF FaultIoctl, SessionInv, SessionsOwned, Own, Served
  <2>2. CASE DropReference(t)
    BY <1>1, <2>2
       DEF DropReference, ForgetSession, SessionInv, SessionsOwned, Own, Served, Base, StatusOK,
           CallsInv, CallsTypeOK
  <2>3. ASSUME NEW u \in Tasks \ {t}, status[u] = "user", Fork(t, u)
        PROVE  SessionsOwned'
    BY <1>1, <2>3 DEF Fork, SessionInv, SessionsOwned, Own, Served, Base, CallsInv, CallsTypeOK
  <2>4. QED
    BY <2>1, <2>2, <2>3 DEF LocalStep
<1>7. QED
  BY <1>2, <1>3, <1>4, <1>5, <1>6 DEF SessionInv

(* Returning from a call. *)
LEMMA ReturnKeeps ==
  ASSUME Base, Base', SessionInv, NEW t \in Tasks, ReturnStep(t)
  PROVE  SessionInv'
<1> USE CallersAssumption, NoneAssumption
<1>1. /\ cur[t] \in Files /\ status'[t] = "user" /\ req[t] \in Requests
      /\ \A u \in Tasks \ {t} : status'[u] = status[u]
      /\ cur' = [cur EXCEPT ![t] = None]
      /\ UNCHANGED <<host, req>>
  BY DEF ReturnStep, ServiceReturn, Become, Leave, LeaveOpen, LeaveRelease, LeaveGetSession, LeaveFinishSession,
         LeaveCrypt, LeaveOther, Return, RefuseOpen, Base, StatusOK, CallsInv, CallsTypeOK
<1> PICK f \in Files : cur[t] = f
  BY <1>1
<1>2. /\ \A u \in Tasks \ {t} : /\ cur'[u] = cur[u] /\ ses'[u] = ses[u] /\ out'[u] = out[u]
                                /\ result'[u] = result[u] /\ fd'[u] = fd[u]
      /\ \A g \in Files \ {f} : crof'[g] = crof[g]
      /\ cur'[t] = None
  BY <1>1
     DEF ReturnStep, ServiceReturn, Leave, LeaveOpen, LeaveRelease, LeaveGetSession, LeaveFinishSession,
         LeaveCrypt, LeaveOther, Return, RefuseOpen, Base, CallsInv, CallsTypeOK
<1>3. \A u \in Tasks \ {t} : cur[u] = f => req[t].cmd \notin {"OPEN", "CLOSE"}
  BY <1>1 DEF Base, CallsInv, FilesOwned, InOpenOrRelease
<1>4. req[t].cmd \notin {"OPEN", "CLOSE"} => UNCHANGED <<crof, fd>>
  BY DEF ReturnStep, ServiceReturn, Leave, LeaveOpen, LeaveRelease, LeaveGetSession, LeaveFinishSession,
         LeaveCrypt, LeaveOther
<1>5. RequestKept'
  <2>1. \A u \in Tasks \ {t} : cur[u] # None => crof'[cur[u]] = crof[cur[u]]
    BY <1>1, <1>2, <1>3, <1>4 DEF Base, CallsInv, CallsTypeOK
  <2>2. QED
    BY <1>1, <1>2, <2>1 DEF SessionInv, RequestKept
<1>6. Answered'
  BY <1>1, <1>2 DEF SessionInv, Answered, Served
<1>7. CryptSucceeds'
  <2>1. \/ result'[t].cmd # "CIOCCRYPT"
        \/ result'[t].ret = EFAULT
        \/ result'[t].ret = 0 /\ out'[t] = ses'[t]
    <3>1. CASE LeaveCrypt(t) /\ status[t] = "served"
      BY <3>1 DEF LeaveCrypt, Return, Result, SessionInv, Answered, Served, Base, CallsInv,
                  CallsTypeOK
    <3>2. CASE ~(LeaveCrypt(t) /\ status[t] = "served")
      BY <3>2 DEF ReturnStep, ServiceReturn, Become, Leave, LeaveOpen, LeaveRelease, LeaveGetSession,
                  LeaveFinishSession, LeaveOther, Return, RefuseOpen, Result, Base, CallsInv,
                  CallsTypeOK
    <3>3. QED
      BY <3>1, <3>2
  <2>2. QED
    BY <1>2, <2>1 DEF SessionInv, CryptSucceeds
<1>8. FdsOwned'
  <2>1. \A g \in Files \ {f}, d \in HostFds : Stores(g, d)' <=> Stores(g, d)
    BY <1>1, <1>2 DEF Stores, Closed, Served
  <2>2. \A u \in Tasks \ {t}, d \in HostFds : Brings(u, d)' <=> Brings(u, d)
    BY <1>1, <1>2 DEF Brings, Served
  <2>3. \A d \in HostFds : ~Brings(t, d)'
    BY <1>1 DEF Brings, Served
  <2>4. CASE req[t].cmd \notin {"OPEN", "CLOSE"}
    <3>1. \A g \in Files, d \in HostFds : Stores(g, d)' <=> Stores(g, d)
      BY <1>1, <1>2, <1>4, <2>4 DEF Stores, Closed, Served
    <3>2. \A d \in HostFds : ~Brings(t, d)
      BY <2>4 DEF Brings, Served
    <3>3. QED
      BY <1>1, <2>2, <2>3, <3>1, <3>2, FdsFrame DEF SessionInv
  <2>5. CASE req[t].cmd = "CLOSE"
    <3>1. status[t] = "served" /\ crof'[f] = None
      BY <1>1, <2>5 DEF ReturnStep, ServiceReturn, Become, Leave, LeaveOpen, LeaveRelease, LeaveGetSession,
         LeaveFinishSession, LeaveCrypt, LeaveOther, Base, CallsInv, CallsTypeOK
    <3>2. \A d \in HostFds : ~Stores(f, d) /\ ~Stores(f, d)'
      BY <1>1, <2>5, <3>1, FdSort DEF Stores, Closed, Served
    <3>3. \A d \in HostFds : ~Brings(t, d)
      BY <2>5 DEF Brings, Served
    <3>4. QED
      BY <1>1, <2>1, <2>2, <2>3, <3>2, <3>3, FdsFrame DEF SessionInv
  <2>6. CASE req[t].cmd = "OPEN" /\ status[t] = "served"
    <3>1. crof'[f] = req[t].hostFd /\ crof[f] = NoHostFd
      BY <1>1, <2>6 DEF ReturnStep, ServiceReturn, Become, Leave, LeaveOpen, LeaveRelease, LeaveGetSession,
         LeaveFinishSession, LeaveCrypt, LeaveOther, Base, CallsInv, CallsTypeOK, SessionInv,
         RequestKept
    <3>2. ~Closed(f)'
      BY <1>1, <1>2, <1>3, <2>6 DEF Closed, Served
    <3>3. \A d \in HostFds : /\ ~Stores(f, d)
                             /\ Stores(f, d)' <=> Brings(t, d)
      BY <1>1, <2>6, <3>1, <3>2, FdSort DEF Stores, Brings, Served
    <3>4. QED
      BY <1>1, <2>1, <2>2, <2>3, <3>3 DEF SessionInv, FdsOwned
  <2>7. CASE req[t].cmd = "OPEN" /\ status[t] = "called"
    <3>1. crof'[f] = None /\ crof[f] = NoHostFd
      BY <1>1, <2>7 DEF ReturnStep, ServiceReturn, Become, RefuseOpen, Base, CallsInv, CallsTypeOK, SessionInv,
         RequestKept
    <3>2. \A d \in HostFds : ~Stores(f, d) /\ ~Stores(f, d)'
      BY <1>1, <3>1, FdSort DEF Stores
    <3>3. \A d \in HostFds : ~Brings(t, d)
      BY <2>7 DEF Brings, Served
    <3>4. QED
      BY <1>1, <2>1, <2>2, <2>3, <3>2, <3>3, FdsFrame DEF SessionInv
  <2>8. QED
    BY <2>4, <2>5, <2>6, <2>7 DEF ReturnStep, ServiceReturn, Become
<1>9. SessionsOwned'
  <2>1. \A u \in Tasks \ {t} : Own(u)' = Own(u)
    BY <1>1, <1>2 DEF Own, Served
  <2>2. Own(t)' = ses'[t] /\ (Own(t)' # None => Own(t)' = Own(t) /\ UNCHANGED <<crof, fd>>)
    <3>1. Own(t)' = ses'[t]
      BY <1>1 DEF Own, Served
    <3>2. CASE LeaveOpen(t) \/ LeaveRelease(t) \/ (RefuseOpen(t) /\ req[t].cmd = "OPEN")
      <4>1. ses'[t] = None
        BY <1>1, <3>2 DEF LeaveOpen, LeaveRelease, RefuseOpen, SessionInv, RequestKept,
                          SessionsOwned
      <4>2. QED
        BY <3>1, <4>1
    <3>3. CASE LeaveGetSession(t) /\ status[t] = "served"
      BY <1>1, <3>1, <3>3 DEF LeaveGetSession, Own, Served, SessionInv, RequestKept, Base,
                              CallsInv, CallsTypeOK
    <3>4. CASE LeaveFinishSession(t) /\ status[t] = "served"
      BY <1>1, <3>1, <3>4 DEF LeaveFinishSession, Own, Served, SessionInv, Answered, Base,
                              CallsInv, CallsTypeOK
    <3>5. CASE LeaveCrypt(t) \/ LeaveOther(t)
      BY <1>1, <3>1, <3>5 DEF LeaveCrypt, LeaveOther, Own, Served
    <3>6. QED
      BY <3>2, <3>3, <3>4, <3>5 DEF ReturnStep, ServiceReturn, Become, Leave
  <2>3. \A u \in Tasks \ {t} : Own(u) # None => crof'[fd[u]] = crof[fd[u]]
    BY <1>1, <1>2, <1>4
       DEF SessionInv, SessionsOwned, Base, CallsInv, CallsTypeOK, FilesOwned, InOpenOrRelease
  <2>4. QED
    BY <1>1, <1>2, <2>1, <2>2, <2>3 DEF SessionInv, SessionsOwned
<1>10. QED
  BY <1>5, <1>6, <1>7, <1>8, <1>9 DEF SessionInv

(* No open file that the host has not closed shares the descriptor of one   *)
(* that a task can use.                                                    *)
LEMMA FdsApart ==
  ASSUME Base, FdsOwned, NEW u \in Tasks, fd[u] # None, crof[fd[u]] \in HostFds,
         NEW g \in Files, g # fd[u], ~Closed(g)
  PROVE  crof[g] # crof[fd[u]]
<1>1. ~Closed(fd[u])
  BY DEF Closed, Served, Base, CallsInv, CallsTypeOK, FilesOwned, InOpenOrRelease
<1>2. fd[u] \in Files
  BY DEF Base, CallsInv, CallsTypeOK
<1>3. QED
  BY <1>1, <1>2 DEF FdsOwned, Stores

(* The host serves a call. *)
LEMMA ServeKeeps ==
  ASSUME Base, Base', SessionInv, NEW t \in Tasks, ServiceServe(t)
  PROVE  SessionInv'
<1> USE CallersAssumption, NoneAssumption
<1>1. /\ cur[t] \in Files /\ status[t] = "called" /\ status'[t] = "served"
      /\ req[t] \in Requests /\ host \in HostStates
      /\ \A u \in Tasks \ {t} : status'[u] = status[u]
      /\ UNCHANGED <<crof, fd, cur, ses, out, result>>
  BY DEF ServiceServe, Become, Serve, Base, StatusOK, CallsInv, CallsTypeOK
<1> PICK f \in Files : cur[t] = f
  BY <1>1
<1>2. PICK o \in HostOutcomes(host, req[t]) :
        host' = o.host /\ req' = [req EXCEPT ![t] = o.req]
  BY DEF ServiceServe, Serve
<1>3. /\ o.req \in Requests /\ o.req.cmd = req[t].cmd /\ o.host \in HostStates
      /\ req'[t] = o.req
      /\ \A u \in Tasks \ {t} : req'[u] = req[u]
  BY <1>1, <1>2, HostOutcomesType DEF Base, CallsInv, CallsTypeOK
<1>4. /\ \A u \in Tasks \ {t} : /\ Own(u)' = Own(u)
                                /\ \A d \in HostFds : Brings(u, d)' <=> Brings(u, d)
                                /\ \A c \in Commands : Served(u, c)' <=> Served(u, c)
      /\ \A c \in Commands : ~Served(t, c) /\ (Served(t, c)' <=> c = req[t].cmd)
      /\ Own(t) = ses[t]
      /\ \A d \in HostFds : ~Brings(t, d)
  BY <1>1, <1>3 DEF Own, Brings, Served
<1>5. CryptSucceeds'
  BY <1>1 DEF SessionInv, CryptSucceeds
<1>6. /\ req[t].cmd # "OPEN" => /\ req[t].hostFd = crof[f]
                                /\ \A d \in HostFds : ~Brings(t, d)'
      /\ req[t].cmd # "CLOSE" => \A g \in Files : Closed(g)' <=> Closed(g)
  BY <1>1, <1>3 DEF SessionInv, RequestKept, Brings, Served, Closed
<1>7. req[t].cmd \notin {"OPEN", "CLOSE"} => fd[t] = f
  BY <1>1 DEF Base, CallsInv, FilesOwned, Requests, Commands
<1>8. ASSUME req[t].cmd # "OPEN" => o.req.hostFd = req[t].hostFd,
             req[t].cmd \in {"CIOCFSESSION", "CIOCCRYPT"} => o.req.ses = req[t].ses
      PROVE  RequestKept'
  BY <1>1, <1>3, <1>8 DEF SessionInv, RequestKept
<1>9. ASSUME req[t].cmd = "CIOCCRYPT" => o.req.ret = 0 /\ o.req.dst = ses[t],
             req[t].cmd = "CIOCFSESSION" => o.req.ret = 0
      PROVE  Answered'
  BY <1>1, <1>3, <1>9 DEF SessionInv, Answered, Served
<1>10. ASSUME host'.open = host.open, req[t].cmd \notin {"OPEN", "CLOSE"}
       PROVE  FdsOwned'
  <2>1. \A d \in HostFds, g \in Files : Stores(g, d)' <=> Stores(g, d)
    BY <1>1, <1>6, <1>10 DEF Stores
  <2>2. QED
    BY <1>4, <1>6, <1>10, <2>1, FdsFrame DEF SessionInv
<1>11. ASSUME NEW u \in Tasks, Own(u) # None
       PROVE  /\ fd[u] \in Files /\ crof[fd[u]] \in HostFds
              /\ fd[u] # f /\ req[t].cmd # "OPEN" => crof[f] # crof[fd[u]]
  <2>1. fd[u] # None /\ crof[fd[u]] \in host.open
    BY <1>11 DEF SessionInv, SessionsOwned
  <2>2. fd[u] \in Files /\ crof[fd[u]] \in HostFds
    BY <1>1, <2>1 DEF Base, CallsInv, CallsTypeOK, HostStates
  <2>3. req[t].cmd # "OPEN" => ~Closed(f)
    BY <1>1 DEF Closed, Served, Base, CallsInv, FilesOwned, InOpenOrRelease
  <2>4. QED
    BY <2>1, <2>2, <2>3, FdsApart DEF SessionInv
<1>12. CASE req[t].cmd = "OPEN"
  <2>1. o \in OpenOutcomes(host, req[t])
    BY <1>2, <1>12 DEF HostOutcomes
  <2>2. RequestKept' /\ Answered'
    BY <1>8, <1>9, <1>12
  <2>3. \A u \in Tasks : Own(u)' = Own(u)
    BY <1>1, <1>3, <1>4, <1>12 DEF Own, Served
  <2>4. \A d \in HostFds, g \in Files : Stores(g, d)' <=> Stores(g, d)
    BY <1>1, <1>6, <1>12 DEF Stores
  <2>5. CASE o = Outcome(host, [req[t] EXCEPT !.hostFd = NoHostFd])
    <3>1. host' = host /\ o.req.hostFd = NoHostFd
      BY <1>1, <1>2, <2>5 DEF Outcome, Requests
    <3>2. \A d \in HostFds : ~Brings(t, d)'
      BY <1>3, <3>1, FdSort DEF Brings
    <3>3. FdsOwned'
      BY <1>4, <2>4, <3>1, <3>2, FdsFrame DEF SessionInv
    <3>4. SessionsOwned'
      BY <1>1, <2>3, <3>1 DEF SessionInv, SessionsOwned
    <3>5. QED
      BY <1>5, <2>2, <3>3, <3>4 DEF SessionInv
  <2>6. ASSUME NEW d \in HostFds \ host.open,
               o = Outcome([host EXCEPT !.open = @ \cup {d}], [req[t] EXCEPT !.hostFd = d])
        PROVE  SessionInv'
    <3>1. /\ host'.open = host.open \cup {d} /\ host'.ses = host.ses
          /\ o.req.hostFd = d
      BY <1>1, <1>2, <2>6 DEF Outcome, Requests, HostStates
    <3>2. \A e \in HostFds : Brings(t, e)' <=> e = d
      BY <1>1, <1>3, <1>12, <3>1 DEF Brings, Served
    <3>3. FdsOwned'
      BY <1>4, <2>4, <3>1, <3>2 DEF SessionInv, FdsOwned
    <3>4. SessionsOwned'
      BY <1>1, <2>3, <3>1 DEF SessionInv, SessionsOwned
    <3>5. QED
      BY <1>5, <2>2, <3>3, <3>4 DEF SessionInv
  <2>7. QED
    BY <2>1, <2>5, <2>6 DEF OpenOutcomes
<1>13. CASE req[t].cmd = "CLOSE"
  <2> DEFINE h == req[t].hostFd
  <2>1. o \in CloseOutcomes(host, req[t])
    BY <1>2, <1>13 DEF HostOutcomes
  <2>2. /\ o.req = req[t]
        /\ host'.open = host.open \ {h}
        /\ \A d \in HostFds \ {h} : host'.ses[d] = host.ses[d]
    BY <1>1, <1>2, <2>1 DEF CloseOutcomes, Outcome, HostStates
  <2>3. RequestKept' /\ Answered'
    BY <1>8, <1>9, <1>13, <2>2
  <2>4. /\ \A u \in Tasks \ {t} : cur[u] # f
        /\ \A u \in Tasks : fd[u] # f
    BY <1>1, <1>13 DEF Base, CallsInv, FilesOwned, InOpenOrRelease
  <2>5. /\ Closed(f)' /\ ~Closed(f)
        /\ \A g \in Files \ {f} : Closed(g)' <=> Closed(g)
    BY <1>1, <1>3, <1>13, <2>4 DEF Closed, Served
  <2>6. /\ \A d \in HostFds : ~Stores(f, d)' /\ (Stores(f, d) <=> d = h)
        /\ \A g \in Files \ {f}, d \in HostFds : Stores(g, d)' <=> Stores(g, d)
    BY <1>1, <1>6, <1>13, <2>5 DEF Stores
  <2>7. FdsOwned'
    BY <1>4, <1>6, <1>13, <2>2, <2>6 DEF SessionInv, FdsOwned
  <2>8. \A u \in Tasks : Own(u)' = Own(u)
    BY <1>1, <1>3, <1>4, <1>13 DEF Own, Served
  <2>9. \A u \in Tasks : Own(u) # None => crof[fd[u]] \in HostFds \ {h}
    BY <1>6, <1>11, <1>13, <2>4
  <2>10. SessionsOwned'
    BY <1>1, <2>2, <2>8, <2>9 DEF SessionInv, SessionsOwned
  <2>11. QED
    BY <1>5, <2>3, <2>7, <2>10 DEF SessionInv
<1>14. CASE req[t].cmd = "CIOCGSESSION"
  <2> DEFINE h == req[t].hostFd
  <2>1. o \in GetSessionOutcomes(host, req[t])
    BY <1>2, <1>14 DEF HostOutcomes
  <2>2. Own(t)' = o.req.ses
    BY <1>1, <1>3, <1>14 DEF Own, Served
  <2>3. fd[t] = f /\ h = crof[f] /\ ses[t] = None /\ req[t].ses = None
    BY <1>1, <1>6, <1>7, <1>14 DEF SessionInv, RequestKept
  <2>4. CASE o = Outcome(host, [req[t] EXCEPT !.key = "host", !.ret = -1])
    <3>1. host' = host /\ o.req.hostFd = h /\ o.req.ses = None
      BY <1>1, <1>2, <2>3, <2>4 DEF Outcome, Requests
    <3>2. RequestKept' /\ Answered' /\ FdsOwned'
      BY <1>8, <1>9, <1>10, <1>14, <3>1
    <3>3. SessionsOwned'
      BY <1>1, <1>4, <2>2, <3>1 DEF SessionInv, SessionsOwned
    <3>4. QED
      BY <1>5, <3>2, <3>3 DEF SessionInv
  <2>5. ASSUME h \in host.open, NEW i \in SessionIds \ host.ses[h],
               o = Outcome([host EXCEPT !.ses[h] = @ \cup {i}],
                           [req[t] EXCEPT !.key = "host", !.ses = i, !.ret = 0])
        PROVE  SessionInv'
    <3>1. /\ host'.open = host.open
          /\ host'.ses = [host.ses EXCEPT ![h] = @ \cup {i}]
          /\ o.req.hostFd = h /\ o.req.ses = i
      BY <1>1, <1>2, <2>5 DEF Outcome, Requests, HostStates
    <3>2. RequestKept' /\ Answered' /\ FdsOwned'
      BY <1>8, <1>9, <1>10, <1>14, <3>1
    <3>3. i \in host'.ses[h] /\ \A d \in HostFds : host.ses[d] \subseteq host'.ses[d]
      BY <1>1, <2>5, <3>1 DEF HostStates
    <3>4. \A u \in Tasks : fd[u] = f /\ Own(u) # None => Own(u) # i
      BY <2>3, <2>5 DEF SessionInv, SessionsOwned
    <3>5. SessionsOwned'
      BY <1>1, <1>4, <1>11, <2>2, <2>3, <2>5, <3>1, <3>3, <3>4 DEF SessionInv, SessionsOwned
    <3>6. QED
      BY <1>5, <3>2, <3>5 DEF SessionInv
  <2>6. QED
    BY <2>1, <2>4, <2>5, Zenon DEF GetSessionOutcomes
<1>15. ASSUME req[t].cmd \in {"CIOCFSESSION", "CIOCCRYPT"}
       PROVE  /\ Live(host, req[t]) /\ fd[t] = f
              /\ req[t].ses = ses[t] /\ ses[t] = Own(t) /\ Own(t) # None
              /\ req[t].hostFd = crof[f] /\ crof[f] \in HostFds
  BY <1>1, <1>4, <1>6, <1>7, <1>11, <1>15
     DEF Live, SessionInv, RequestKept, SessionsOwned
<1>16. CASE req[t].cmd = "CIOCFSESSION"
  <2> DEFINE h == req[t].hostFd
  <2>1. o = Outcome([host EXCEPT !.ses[h] = @ \ {ses[t]}], [req[t] EXCEPT !.ret = 0])
    BY <1>2, <1>15, <1>16 DEF HostOutcomes, FinishSessionOutcomes
  <2>2. /\ host'.open = host.open
        /\ host'.ses = [host.ses EXCEPT ![h] = @ \ {ses[t]}]
        /\ o.req.hostFd = h /\ o.req.ses = req[t].ses /\ o.req.ret = 0
    BY <1>1, <1>2, <2>1 DEF Outcome, Requests, HostStates
  <2>3. RequestKept' /\ Answered' /\ FdsOwned'
    BY <1>8, <1>9, <1>10, <1>16, <2>2
  <2>4. Own(t)' = None
    BY <1>1, <1>3, <1>16 DEF Own, Served
  <2>5. \A u \in Tasks \ {t} : Own(u) # None => Own(u) \in host'.ses[crof[fd[u]]]
    <3>1. SUFFICES ASSUME NEW u \in Tasks \ {t}, Own(u) # None
                   PROVE  Own(u) \in host'.ses[crof[fd[u]]]
      OBVIOUS
    <3>2. Own(u) \in host.ses[crof[fd[u]]]
      BY <3>1 DEF SessionInv, SessionsOwned
    <3>3. CASE fd[u] = f
      <4>1. Own(u) # ses[t]
        BY <1>15, <1>16, <3>1, <3>3 DEF SessionInv, SessionsOwned
      <4>2. QED
        BY <1>1, <1>11, <2>2, <3>1, <3>2, <4>1 DEF HostStates
    <3>4. CASE fd[u] # f
      BY <1>1, <1>11, <1>15, <1>16, <2>2, <3>1, <3>2, <3>4 DEF HostStates
    <3>5. QED
      BY <3>3, <3>4
  <2>6. SessionsOwned'
    BY <1>1, <1>4, <1>15, <1>16, <2>2, <2>4, <2>5 DEF SessionInv, SessionsOwned
  <2>7. QED
    BY <1>5, <2>3, <2>6 DEF SessionInv
<1>17. CASE req[t].cmd \in {"CIOCCRYPT", "OTHER"}
  <2>1. /\ host' = host
        /\ o.req.hostFd = req[t].hostFd /\ o.req.ses = req[t].ses
        /\ req[t].cmd = "CIOCCRYPT" => o.req.ret = 0 /\ o.req.dst = ses[t]
    <3>1. CASE req[t].cmd = "CIOCCRYPT"
      <4>1. o = Outcome(host, [req[t] EXCEPT !.dst = req[t].ses, !.ret = 0])
        BY <1>2, <1>15, <3>1 DEF HostOutcomes, CryptOutcomes
      <4>2. QED
        BY <1>1, <1>2, <1>15, <3>1, <4>1 DEF Outcome, Requests
    <3>2. CASE req[t].cmd = "OTHER"
      BY <1>1, <1>2, <3>2 DEF HostOutcomes, Outcome
    <3>3. QED
      BY <1>17, <3>1, <3>2
  <2>2. RequestKept' /\ Answered' /\ FdsOwned'
    BY <1>8, <1>9, <1>10, <1>17, <2>1
  <2>3. Own(t)' = Own(t)
    BY <1>1, <1>3, <1>4, <1>17 DEF Own, Served
  <2>4. SessionsOwned'
    BY <1>1, <1>4, <2>1, <2>3 DEF SessionInv, SessionsOwned
  <2>5. QED
    BY <1>5, <2>2, <2>4 DEF SessionInv
<1>18. QED
  BY <1>1, <1>12, <1>13, <1>14, <1>16, <1>17 DEF Requests, Commands, Ioctls

(* No step loses an open file or a session. *)
LEMMA NothingGetsLost ==
  ASSUME Base, Base', SessionInv, NothingLost, NEW t \in Tasks, StepOf(t)
  PROVE  NothingLost'
<1> USE CallersAssumption
<1>1. CASE ServiceCall(t)
  <2>1. UNCHANGED host
    BY <1>1 DEF ServiceCall, EnterOpen, EnterIoctl, EnterRelease
  <2>2. \A f \in Files : crof'[f] # None => \E u \in Tasks : fd'[u] = f \/ cur'[u] = f
    BY <1>1 DEF ServiceCall, Become, EnterOpen, EnterIoctl, EnterRelease, Base, StatusOK,
                CallsInv, CallsTypeOK, NothingLost
  <2>3. QED
    BY <2>1, <2>2 DEF NothingLost
<1>2. CASE LocalStep(t)
  <2>1. UNCHANGED <<host, crof, cur>>
    BY <1>2 DEF LocalStep, FaultIoctl, DropReference, Fork
  <2>2. \A f \in Files : crof[f] # None => \E u \in Tasks : fd'[u] = f \/ cur[u] = f
    BY <1>2 DEF LocalStep, FaultIoctl, DropReference, LastReference, Fork, Base, CallsInv,
                CallsTypeOK, NothingLost
  <2>3. QED
    BY <2>1, <2>2 DEF NothingLost
<1>3. CASE ServiceServe(t)
  <2>1. PICK o \in HostOutcomes(host, req[t]) : host' = o.host
    BY <1>3 DEF ServiceServe, Serve
  <2>2. UNCHANGED <<crof, fd, cur>> /\ req[t] \in Requests /\ host \in HostStates
    BY <1>3 DEF ServiceServe, Serve, Base, CallsInv, CallsTypeOK
  <2>3. \A d \in HostFds \ o.host.open : o.host.ses[d] = {}
    <3>1. CASE req[t].cmd = "OPEN"
      BY <2>1, <2>2, <3>1
         DEF HostOutcomes, OpenOutcomes, Outcome, HostStates, NothingLost
    <3>2. CASE req[t].cmd = "CLOSE"
      BY <2>1, <2>2, <3>2
         DEF HostOutcomes, CloseOutcomes, Outcome, HostStates, NothingLost
    <3>3. CASE req[t].cmd = "CIOCGSESSION"
      <4> DEFINE h == req[t].hostFd
      <4>1. o \in GetSessionOutcomes(host, req[t])
        BY <2>1, <3>3 DEF HostOutcomes
      <4>2. CASE o = Outcome(host, [req[t] EXCEPT !.key = "host", !.ret = -1])
        BY <4>2 DEF Outcome, NothingLost
      <4>3. ASSUME h \in host.open, NEW i \in SessionIds \ host.ses[h],
                   o = Outcome([host EXCEPT !.ses[h] = @ \cup {i}],
                               [req[t] EXCEPT !.key = "host", !.ses = i, !.ret = 0])
            PROVE  \A d \in HostFds \ o.host.open : o.host.ses[d] = {}
        BY <2>2, <4>3 DEF Outcome, HostStates, NothingLost
      <4>4. QED
        BY <4>1, <4>2, <4>3, Zenon DEF GetSessionOutcomes
    <3>4. CASE req[t].cmd = "CIOCFSESSION"
      BY <2>1, <2>2, <3>4
         DEF HostOutcomes, FinishSessionOutcomes, Outcome, HostStates, NothingLost
    <3>5. CASE req[t].cmd \in {"CIOCCRYPT", "OTHER"}
      BY <2>1, <2>2, <3>5 DEF HostOutcomes, CryptOutcomes, Outcome, NothingLost
    <3>6. QED
      BY <2>2, <3>1, <3>2, <3>3, <3>4, <3>5 DEF Requests, Commands, Ioctls
  <2>4. QED
    BY <2>1, <2>2, <2>3 DEF NothingLost
<1>4. CASE ReturnStep(t)
  <2>1. UNCHANGED host /\ cur' = [cur EXCEPT ![t] = None] /\ cur[t] \in Files
    BY <1>4 DEF ReturnStep, ServiceReturn, Become, Leave, LeaveOpen, LeaveRelease,
                LeaveGetSession, LeaveFinishSession, LeaveCrypt, LeaveOther, Return, RefuseOpen,
                Base, StatusOK, CallsInv, CallsTypeOK
  <2>2. CASE LeaveOpen(t)
    BY <2>1, <2>2 DEF LeaveOpen, SessionInv, RequestKept, Base, CallsInv, CallsTypeOK,
                      NothingLost
  <2>3. CASE LeaveRelease(t) \/ RefuseOpen(t)
    BY <2>1, <2>3 DEF LeaveRelease, RefuseOpen, Base, CallsInv, CallsTypeOK, NothingLost
  <2>4. CASE LeaveGetSession(t) \/ LeaveFinishSession(t) \/ LeaveCrypt(t) \/ LeaveOther(t)
    <3>1. UNCHANGED <<crof, fd>> /\ fd[t] = cur[t]
      BY <2>1, <2>4 DEF LeaveGetSession, LeaveFinishSession, LeaveCrypt, LeaveOther, Base,
                        CallsInv, FilesOwned, Ioctls
    <3>2. QED
      BY <2>1, <3>1 DEF Base, CallsInv, CallsTypeOK, NothingLost
  <2>5. QED
    BY <1>4, <2>2, <2>3, <2>4 DEF ReturnStep, ServiceReturn, Leave
<1>5. QED
  BY <1>1, <1>2, <1>3, <1>4 DEF StepOf

------------------------------------------------------------------------------
(* The invariant holds at the start. *)
LEMMA InitServiceInv == ServiceInit => ServiceInv
<1> SUFFICES ASSUME ServiceInit PROVE ServiceInv
  OBVIOUS
<1>1. /\ host = [open |-> {}, ses |-> [d \in HostFds |-> {}]]
      /\ status = [t \in Tasks |-> "user"]
      /\ crof = [f \in Files |-> None] /\ cur = [t \in Tasks |-> None]
      /\ ses = [t \in Tasks |-> None] /\ result = [t \in Tasks |-> NoResult]
  BY DEF ServiceInit, CallsInit
<1>2. Base
  BY <1>1, CallsInitInv DEF ServiceInit, Base, StatusOK
<1>3. RequestKept /\ Answered /\ SessionsOwned /\ CryptSucceeds
  BY <1>1 DEF RequestKept, Answered, SessionsOwned, Own, Served, CryptSucceeds, NoResult, Result
<1>4. FdsOwned /\ NothingLost
  BY <1>1, FdSort DEF FdsOwned, Stores, Brings, NothingLost
<1>5. QED
  BY <1>2, <1>3, <1>4 DEF ServiceInv, SessionInv

(* A program built from the steps of the service keeps ServiceInv. *)
LEMMA StepKeepsService ==
  ASSUME ServiceInv, \/ UNCHANGED serviceVars
                     \/ \E t \in Tasks : StepOf(t)
  PROVE  ServiceInv'
<1>1. CASE UNCHANGED serviceVars
  BY <1>1 DEF serviceVars, callVars, ServiceInv, Base, StatusOK, CallsInv, CallsTypeOK,
              FilesOwned, InOpenOrRelease, SessionInv, RequestKept, FdsOwned, Stores, Closed,
              Brings, SessionsOwned, Own, Answered, Served, CryptSucceeds, NothingLost
<1>2. ASSUME NEW t \in Tasks, StepOf(t)
      PROVE  ServiceInv'
  <2>1. Base'
    BY <1>2, StepKeepsBase DEF ServiceInv
  <2>2. SessionInv'
    BY <1>2, <2>1, CallKeeps, LocalKeeps, ServeKeeps, ReturnKeeps DEF ServiceInv, StepOf
  <2>3. NothingLost'
    BY <1>2, <2>1, NothingGetsLost DEF ServiceInv
  <2>4. QED
    BY <2>1, <2>2, <2>3 DEF ServiceInv
<1>3. QED
  BY <1>1, <1>2

(* The atomic service owns what the host has open, and its sessions. *)
THEOREM ServiceInvariance == ServiceSpec => []ServiceInv
<1>1. ServiceInv /\ [ServiceNext]_serviceVars => ServiceInv'
  BY StepKeepsService, SortedSteps
<1>2. QED
  BY <1>1, InitServiceInv, PTL DEF ServiceSpec
==============================================================================
