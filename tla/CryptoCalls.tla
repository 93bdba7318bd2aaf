----------------------------- MODULE CryptoCalls -----------------------------
(***************************************************************************)
(* The data side of the system calls on the guest's crypto device: what    *)
(* entering, serving and leaving a call does to the open files of the      *)
(* driver, to the caller's memory and to the host.  It has no control      *)
(* state: CryptoService puts these steps together as an atomic service,    *)
(* VirtioCrypto as the driver does, with its lock and its virtqueue.       *)
(*                                                                         *)
(* Callers use the device as the programs of the repository do: a task     *)
(* names only a session that it got itself, and has one at a time.         *)
(***************************************************************************)
EXTENDS HostCryptodev

CONSTANTS
  Tasks,   \* user processes of the guest
  Files    \* struct file / struct crypto_open_file pairs

ASSUME CallersAssumption == None \notin Tasks \cup Files

VARIABLES
  host,    \* state of the host's /dev/crypto
  crof,    \* crof->host_fd of each open file, None when it is not allocated
  fd,      \* the open file each task has a descriptor of, or None
  cur,     \* the open file of the call a task is in, or None
  req,     \* the buffers of the call a task is in
  ses,     \* sess.ses in the task's memory
  key,     \* sess.key in the task's memory: its own pointer or a host address
  out,     \* the session whose output is in the task's data buffer
  result   \* what the last call of a task returned, cleared when it enters one

callVars == <<host, crof, fd, cur, req, ses, key, out, result>>

ENODEV == -19
ENOMEM == -12
EFAULT == -14

Result(c, v) == [cmd |-> c, ret |-> v]

NoResult == Result("none", 0)

Results ==
  [cmd : Commands \cup {"none"}, ret : {0, -1, ENODEV, ENOMEM, EFAULT}]

CallsTypeOK ==
  /\ host \in HostStates
  /\ crof \in [Files -> HostFds \cup {NoHostFd, None}]
  /\ fd \in [Tasks -> Files \cup {None}]
  /\ cur \in [Tasks -> Files \cup {None}]
  /\ req \in [Tasks -> Requests]
  /\ ses \in [Tasks -> SessionIds \cup {None}]
  /\ key \in [Tasks -> {"user", "host"}]
  /\ out \in [Tasks -> SessionIds \cup {None}]
  /\ result \in [Tasks -> Results]

CallsInit ==
  /\ host = [open |-> {}, ses |-> [d \in HostFds |-> {}]]
  /\ crof = [f \in Files |-> None]
  /\ fd = [t \in Tasks |-> None]
  /\ cur = [t \in Tasks |-> None]
  /\ req = [t \in Tasks |-> Request("OPEN", NoHostFd, None)]
  /\ ses = [t \in Tasks |-> None]
  /\ key = [t \in Tasks |-> "user"]
  /\ out = [t \in Tasks |-> None]
  /\ result = [t \in Tasks |-> NoResult]

------------------------------------------------------------------------------
(* Entering a call. *)

Issue(t, r) ==
  /\ req' = [req EXCEPT ![t] = r]
  /\ result' = [result EXCEPT ![t] = NoResult]

EnterOpen(t) ==
  /\ fd[t] = None
  /\ \E f \in Files :
       /\ crof[f] = None
       /\ crof' = [crof EXCEPT ![f] = NoHostFd]
       /\ cur' = [cur EXCEPT ![t] = f]
  /\ Issue(t, Request("OPEN", NoHostFd, None))
  /\ UNCHANGED <<host, fd, ses, key, out>>

(* No device has the minor number, or kzalloc of the crof fails. *)
RefuseOpen(t) ==
  /\ crof' = [crof EXCEPT ![cur[t]] = None]
  /\ cur' = [cur EXCEPT ![t] = None]
  /\ \E e \in {ENODEV, ENOMEM} : result' = [result EXCEPT ![t] = Result("OPEN", e)]
  /\ UNCHANGED <<host, fd, req, ses, key, out>>

(* The repository's callers hold one session at a time. *)
LegalIoctl(t, c) ==
  /\ fd[t] # None
  /\ c = "CIOCGSESSION" => ses[t] = None
  /\ c \in {"CIOCFSESSION", "CIOCCRYPT"} => ses[t] # None

(* They set sess.key before every CIOCGSESSION. *)
SetKey(t, c) ==
  key' = IF c = "CIOCGSESSION" THEN [key EXCEPT ![t] = "user"] ELSE key

EnterIoctl(t, c) ==
  /\ LegalIoctl(t, c)
  /\ SetKey(t, c)
  /\ cur' = [cur EXCEPT ![t] = fd[t]]
  /\ Issue(t, Request(c, crof[fd[t]], ses[t]))
  /\ UNCHANGED <<host, crof, fd, ses, out>>

(* copy_from_user fails before anything is sent to the host. *)
FaultIoctl(t, c) ==
  /\ LegalIoctl(t, c)
  /\ c # "OTHER"
  /\ SetKey(t, c)
  /\ result' = [result EXCEPT ![t] = Result(c, EFAULT)]
  /\ UNCHANGED <<host, crof, fd, cur, req, ses, out>>

LastReference(t) == \A u \in Tasks \ {t} : fd[u] # fd[t]

ForgetSession(t) ==
  /\ ses' = [ses EXCEPT ![t] = None]
  /\ key' = [key EXCEPT ![t] = "user"]
  /\ out' = [out EXCEPT ![t] = None]

(* close() of a descriptor that another task still has. *)
DropReference(t) ==
  /\ fd[t] # None
  /\ ~LastReference(t)
  /\ fd' = [fd EXCEPT ![t] = None]
  /\ ForgetSession(t)
  /\ UNCHANGED <<host, crof, cur, req, result>>

(* Variant: release does its work on every close. *)
EnterReleaseEveryClose(t) ==
  /\ fd[t] # None
  /\ fd' = [fd EXCEPT ![t] = None]
  /\ cur' = [cur EXCEPT ![t] = fd[t]]
  /\ Issue(t, Request("CLOSE", crof[fd[t]], None))
  /\ ForgetSession(t)
  /\ UNCHANGED <<host, crof>>

(* close() of the last descriptor, or exit: crypto_chrdev_release runs. *)
EnterRelease(t) ==
  /\ fd[t] # None
  /\ LastReference(t)
  /\ fd' = [fd EXCEPT ![t] = None]
  /\ cur' = [cur EXCEPT ![t] = fd[t]]
  /\ Issue(t, Request("CLOSE", crof[fd[t]], None))
  /\ ForgetSession(t)
  /\ UNCHANGED <<host, crof>>

(* fork() before any session exists, as in test_fork_crypto.c. *)
Fork(t, u) ==
  /\ fd[t] # None
  /\ ses[t] = None
  /\ fd[u] = None
  /\ fd' = [fd EXCEPT ![u] = fd[t]]
  /\ UNCHANGED <<host, crof, cur, req, ses, key, out, result>>

------------------------------------------------------------------------------
(* The host serves the request that task t has issued. *)

Serve(t) ==
  /\ \E o \in HostOutcomes(host, req[t]) :
       /\ host' = o.host
       /\ req' = [req EXCEPT ![t] = o.req]
  /\ UNCHANGED <<crof, fd, cur, ses, key, out, result>>

------------------------------------------------------------------------------
(* Leaving a call: the buffers are copied to the caller and freed. *)

Return(t, v) ==
  /\ result' = [result EXCEPT ![t] = Result(req[t].cmd, v)]
  /\ cur' = [cur EXCEPT ![t] = None]
  /\ UNCHANGED <<host, req>>

(* Variant: crof->host_fd is not set. *)
LeaveOpenLosesFd(t) ==
  /\ req[t].cmd = "OPEN"
  /\ fd' = [fd EXCEPT ![t] = cur[t]]
  /\ Return(t, 0)
  /\ UNCHANGED <<crof, ses, key, out>>

(* Variant: host_fd is kept in crdev, one for all the open files. *)
LeaveOpenPerDevice(t) ==
  /\ req[t].cmd = "OPEN"
  /\ crof' = [f \in Files |-> IF crof[f] = None THEN None ELSE req[t].hostFd]
  /\ fd' = [fd EXCEPT ![t] = cur[t]]
  /\ Return(t, 0)
  /\ UNCHANGED <<ses, key, out>>

(* "if (host_fd<0)" tests the pointer: the call succeeds whatever the host  *)
(* answered.                                                               *)
LeaveOpen(t) ==
  /\ req[t].cmd = "OPEN"
  /\ crof' = [crof EXCEPT ![cur[t]] = req[t].hostFd]
  /\ fd' = [fd EXCEPT ![t] = cur[t]]
  /\ Return(t, 0)
  /\ UNCHANGED <<ses, key, out>>

LeaveRelease(t) ==
  /\ req[t].cmd = "CLOSE"
  /\ crof' = [crof EXCEPT ![cur[t]] = None]
  /\ Return(t, 0)
  /\ UNCHANGED <<fd, ses, key, out>>

(* copy_to_user can fail: the host has done its part by then. *)
LeaveGetSession(t) ==
  /\ req[t].cmd = "CIOCGSESSION"
  /\ \/ /\ ses' = [ses EXCEPT ![t] = req[t].ses]
        /\ key' = [key EXCEPT ![t] = req[t].key]
        /\ Return(t, req[t].ret)
     \/ /\ Return(t, EFAULT)
        /\ UNCHANGED <<ses, key>>
  /\ UNCHANGED <<crof, fd, out>>

(* A caller that has finished its session does not name it again. *)
LeaveFinishSession(t) ==
  /\ req[t].cmd = "CIOCFSESSION"
  /\ ses' = [ses EXCEPT ![t] = IF req[t].ret = 0 THEN None ELSE @]
  /\ Return(t, req[t].ret)
  /\ UNCHANGED <<crof, fd, key, out>>

LeaveCrypt(t) ==
  /\ req[t].cmd = "CIOCCRYPT"
  /\ \/ /\ out' = [out EXCEPT ![t] = req[t].dst]
        /\ Return(t, req[t].ret)
     \/ /\ Return(t, EFAULT)
        /\ UNCHANGED out
  /\ UNCHANGED <<crof, fd, ses, key>>

LeaveOther(t) ==
  /\ req[t].cmd = "OTHER"
  /\ Return(t, req[t].ret)
  /\ UNCHANGED <<crof, fd, ses, key, out>>

Leave(t) ==
  \/ LeaveOpen(t)
  \/ LeaveRelease(t)
  \/ LeaveGetSession(t)
  \/ LeaveFinishSession(t)
  \/ LeaveCrypt(t)
  \/ LeaveOther(t)

------------------------------------------------------------------------------
(* An open file is not freed while it is in use: whoever has a descriptor  *)
(* of it or is in a call on it finds it allocated (private_data in ioctl   *)
(* and release), and while open or release work on it nobody else does     *)
(* (kfree(crof) in crypto_chrdev_release).                                 *)
InOpenOrRelease(t) == cur[t] # None /\ req[t].cmd \in {"OPEN", "CLOSE"}

FilesOwned ==
  /\ \A t \in Tasks : fd[t] # None => crof[fd[t]] # None
  /\ \A t \in Tasks :
       cur[t] # None =>
         /\ crof[cur[t]] # None
         /\ req[t].cmd \in Ioctls => cur[t] = fd[t]
  /\ \A t \in Tasks :
       InOpenOrRelease(t) =>
         \A u \in Tasks : fd[u] # cur[t] /\ (u # t => cur[u] # cur[t])

(* What the host has open is what the guest's open files and calls account *)
(* for: no descriptor is shared by two open files, none is lost, and an    *)
(* open file never names a descriptor the host has closed.                 *)
HeldFds ==
  {crof[f] : f \in Files} \cup
  {req[t].hostFd : t \in {u \in Tasks : cur[u] # None /\ req[u].cmd = "OPEN"}}

Releasing(f) == \E t \in Tasks : cur[t] = f /\ req[t].cmd = "CLOSE"

HostFdsOwned ==
  /\ host.open \subseteq HeldFds
  /\ \A f \in Files :
       crof[f] \in HostFds /\ ~Releasing(f) =>
         /\ crof[f] \in host.open
         /\ \A g \in Files \ {f} : crof[g] = crof[f] => Releasing(g)

(* A CIOCCRYPT on a session that the caller got and has not finished is    *)
(* never refused by the host and is computed with that session, whatever   *)
(* the other tasks do with the same open file or with theirs.              *)
CryptSucceeds ==
  \A t \in Tasks :
    result[t].cmd = "CIOCCRYPT" =>
      \/ result[t].ret = EFAULT
      \/ result[t].ret = 0 /\ out[t] = ses[t]
==============================================================================
