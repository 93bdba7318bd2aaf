---------------------------- MODULE CryptProgram ----------------------------
(***************************************************************************)
(* The programs that use the crypto device, on top of the service that     *)
(* VirtioCrypto implements: encrypt() and decrypt() of socket-common.c in  *)
(* the threads of one process, and the test programs test_crypto.c,        *)
(* test_fork_crypto.c and crypto-test.c, a process per task.               *)
(*                                                                         *)
(* All of them do the same calls in the same order - open, CIOCGSESSION,   *)
(* CIOCCRYPT, CIOCFSESSION, close - and end when one is refused, leaving   *)
(* it to the kernel to close what they have open.  Their buffers are on    *)
(* the stack: no copy from or to them faults.                              *)
(***************************************************************************)
EXTENDS CryptoService

Programs == {"threads", "test_crypto", "test_fork_crypto", "crypto-test"}

VARIABLES
  program,  \* which of the programs the tasks run
  step,     \* the call a task makes next, or is in
  text,     \* its data: "plain", the session that encrypted it, or "garbage"
  failed,   \* the step at which something failed, or "no"
  exit      \* "running", or how the task's program ended: "ok" or "error"

progVars == <<step, text, failed, exit>>
vars == <<serviceVars, progVars, program>>

Steps ==
  {"idle", "open", "fork", "session", "crypt", "decrypt", "verify", "finish", "close",
   "ended"}

TypeOK ==
  /\ ServiceTypeOK
  /\ program \in Programs
  /\ step \in [Tasks -> Steps]
  /\ text \in [Tasks -> {"plain", "garbage"} \cup SessionIds]
  /\ failed \in [Tasks -> Steps \cup {"no"}]
  /\ exit \in [Tasks -> {"running", "ok", "error"}]

Init ==
  /\ ServiceInit
  /\ program \in Programs
  /\ step = [t \in Tasks |-> "idle"]
  /\ text = [t \in Tasks |-> "plain"]
  /\ failed = [t \in Tasks |-> "no"]
  /\ exit = [t \in Tasks |-> "running"]

Threads == program = "threads"

(* The tasks that exit(1) of task t ends. *)
Process(t) == IF Threads THEN Tasks ELSE {t}

Dying(t) == \E u \in Process(t) : exit[u] = "error"

Running(t) == step[t] \notin {"idle", "ended"} /\ ~Dying(t)

(* encrypt() and decrypt() make one CIOCCRYPT, the tests two. *)
After(s) ==
  CASE s = "open"    -> IF program = "test_fork_crypto" THEN "fork" ELSE "session"
    [] s = "session" -> "crypt"
    [] s = "crypt"   -> IF Threads THEN "finish" ELSE "decrypt"
    [] s = "decrypt" -> "verify"
    [] s = "finish"  -> "close"
    [] s = "close"   -> IF Threads THEN "idle" ELSE "ended"

Ioctl(s) ==
  CASE s = "session" -> {"CIOCGSESSION"}
    [] s \in {"crypt", "decrypt"} -> {"CIOCCRYPT"}
    [] s = "finish" -> {"CIOCFSESSION"}
    [] OTHER -> {}

(* Going on to step s. *)
Proceed(t, s) ==
  /\ step' = [step EXCEPT ![t] = s]
  /\ exit' = [exit EXCEPT ![t] = IF s = "ended" THEN "ok" ELSE @]
  /\ UNCHANGED failed

(* Variant: the call is made again until it succeeds. *)
FailRetries(t) == UNCHANGED <<step, failed, exit>>

(* A failure ends the program, except that main of crypto-test.c compares  *)
(* the 1 that test_crypto returns with "< 0": it closes and returns 0.     *)
Fail(t) ==
  /\ failed' = [failed EXCEPT ![t] = step[t]]
  /\ IF program = "crypto-test" /\ step[t] \notin {"open", "close"}
     THEN step' = [step EXCEPT ![t] = "close"] /\ UNCHANGED exit
     ELSE exit' = [exit EXCEPT ![t] = "error"] /\ UNCHANGED step

------------------------------------------------------------------------------
(* A forked test starts as one process. *)
Begin(t) ==
  /\ step[t] = "idle"
  /\ ~Dying(t)
  /\ program = "test_fork_crypto" => \A u \in Tasks : step[u] = "idle"
  /\ Proceed(t, "open")
  /\ text' = [text EXCEPT ![t] = "plain"]
  /\ UNCHANGED serviceVars

ForkTest(t) ==
  /\ step[t] = "fork"
  /\ Running(t)
  /\ \/ \E u \in Tasks \ {t} :
          /\ step[u] = "idle"
          /\ Fork(t, u)
          /\ step' = [step EXCEPT ![t] = "session", ![u] = "session"]
          /\ UNCHANGED <<failed, exit>>
     \/ Fail(t) /\ UNCHANGED callVars
  /\ UNCHANGED <<status, text>>

Call(t) ==
  /\ Running(t)
  /\ Become(t, "user", "called")
  /\ \/ step[t] = "open" /\ EnterOpen(t)
     \/ \E c \in Ioctl(step[t]) : EnterIoctl(t, c)
     \/ step[t] = "close" /\ EnterRelease(t)
  /\ UNCHANGED progVars

(* close() while the other process still has the open file. *)
CloseShared(t) ==
  /\ Running(t)
  /\ step[t] = "close"
  /\ status[t] = "user"
  /\ DropReference(t)
  /\ Proceed(t, After("close"))
  /\ UNCHANGED <<status, text>>

CallServed(t) ==
  /\ ServiceServe(t)
  /\ UNCHANGED progVars

(* Variant: the result is copied before the ioctl. *)
CryptedEarly(t) ==
  CASE step[t] = "crypt"   -> out[t]
    [] step[t] = "decrypt" -> IF out[t] = text[t] THEN "plain" ELSE "garbage"
    [] OTHER               -> text[t]

Crypted(t) ==
  CASE step[t] = "crypt"   -> out'[t]
    [] step[t] = "decrypt" -> IF out'[t] = text[t] THEN "plain" ELSE "garbage"
    [] OTHER               -> text[t]

(* A task whose process is ending never sees what its call returned. *)
CallReturned(t) ==
  /\ ServiceReturn(t)
  /\ result'[t].ret # EFAULT
  /\ IF Dying(t)
     THEN UNCHANGED progVars
     ELSE \/ /\ result'[t].ret = 0
             /\ Proceed(t, After(step[t]))
             /\ text' = [text EXCEPT ![t] = Crypted(t)]
          \/ /\ result'[t].ret # 0
             /\ Fail(t)
             /\ UNCHANGED text

OpenRefused(t) ==
  /\ step[t] = "open"
  /\ Become(t, "called", "user")
  /\ RefuseOpen(t)
  /\ IF Dying(t) THEN UNCHANGED progVars ELSE Fail(t) /\ UNCHANGED text

(* memcmp(data.in, data.decrypted, sizeof(data.in)) *)
Verify(t) ==
  /\ step[t] = "verify"
  /\ Running(t)
  /\ \/ text[t] = "plain" /\ Proceed(t, "finish")
     \/ text[t] # "plain" /\ Fail(t)
  /\ UNCHANGED <<serviceVars, text>>

(* Variant: pthread_exit() instead of exit(1). *)
ReapOneThread(t) ==
  /\ exit[t] = "error"
  /\ status[t] = "user"
  /\ \/ Become(t, "user", "called") /\ EnterRelease(t)
     \/ DropReference(t) /\ UNCHANGED status
  /\ step' = [step EXCEPT ![t] = "ended"]
  /\ UNCHANGED <<text, failed, exit>>

(* The kernel closes the descriptors of a process when its last task has   *)
(* left the call it was in, one after the other.                           *)
Reap(t) ==
  /\ Dying(t)
  /\ \A u \in Process(t) : status[u] = "user"
  /\ \/ Become(t, "user", "called") /\ EnterRelease(t)
     \/ DropReference(t) /\ UNCHANGED status
  /\ step' = [step EXCEPT ![t] = "ended"]
  /\ UNCHANGED <<text, failed, exit>>

------------------------------------------------------------------------------
Goes(t) ==
  \/ ForkTest(t)
  \/ Call(t)
  \/ CloseShared(t)
  \/ CallServed(t)
  \/ CallReturned(t)
  \/ OpenRefused(t)
  \/ Verify(t)
  \/ Reap(t)

Next == (\E t \in Tasks : Begin(t) \/ Goes(t)) /\ UNCHANGED program

Spec == Init /\ [][Next]_vars

(* A program that has begun runs, and so do the service and the kernel. *)
FairSpec == Spec /\ \A t \in Tasks : WF_vars(Goes(t) /\ UNCHANGED program)

------------------------------------------------------------------------------
(* Properties. *)

(* A program is refused by open or by CIOCGSESSION (or it cannot fork) or  *)
(* not at all: its CIOCCRYPTs, its CIOCFSESSION and its close succeed and  *)
(* what it encrypts decrypts to the same, whatever the other threads or    *)
(* the other process of a shared open file do and wherever they end.       *)
FailsEarly == \A t \in Tasks : failed[t] \in {"no", "open", "fork", "session"}

(* When no task has a descriptor or is in a call, the host's /dev/crypto   *)
(* is closed: neither encrypt() in a loop nor an exit in the middle leaves *)
(* anything behind.                                                        *)
NothingLeft ==
  (\A t \in Tasks : fd[t] = None /\ status[t] = "user") =>
    /\ host.open = {}
    /\ \A d \in HostFds : host.ses[d] = {}
    /\ \A f \in Files : crof[f] = None

(* A test that has opened the device comes to its end, and so does a call  *)
(* of encrypt() or decrypt(), unless the process is ending.                *)
ProgramEnds ==
  \A t \in Tasks : Running(t) ~> step[t] \in {"idle", "ended"} \/ Dying(t)

(* When a thread of a process calls exit(1), the descriptors of all its    *)
(* threads are closed in the end, those in the middle of a call too.       *)
ExitReleases == \A t \in Tasks : Dying(t) ~> fd[t] = None /\ status[t] = "user"
==============================================================================
