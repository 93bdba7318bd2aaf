------------------------- MODULE CryptProgramProofs -------------------------
(***************************************************************************)
(* Proofs about the programs that use the crypto device, for any number of *)
(* tasks, files, descriptors and sessions.  What the service does for them *)
(* is ServiceInv of CryptoServiceProofs; what is left is where a program   *)
(* is when it gets an answer.                                              *)
(***************************************************************************)
EXTENDS CryptProgram, CryptoServiceProofs

ProgramTypeOK ==
  /\ program \in Programs
  /\ step \in [Tasks -> Steps]
  /\ text \in [Tasks -> {"plain", "garbage"} \cup SessionIds]
  /\ failed \in [Tasks -> Steps \cup {"no"}]
  /\ exit \in [Tasks -> {"running", "ok", "error"}]

(* The call a task is in is the one of its step; after the last step it is  *)
(* the kernel's close for a process that ends in error.                    *)
CallOfStep ==
  \A t \in Tasks :
    status[t] # "user" =>
      \/ step[t] = "open" /\ req[t].cmd = "OPEN"
      \/ req[t].cmd \in Ioctl(step[t])
      \/ step[t] \in {"close", "ended"} /\ req[t].cmd = "CLOSE"

(* What a program has in its buffers, unless it is ending. *)
TextOfStep ==
  \A t \in Tasks :
    ~Dying(t) =>
      /\ step[t] = "ended" => status[t] = "user"
      /\ step[t] = "decrypt" => text[t] = ses[t]
      /\ step[t] = "verify" => text[t] = "plain"

ProgramInv == ServiceInv /\ ProgramTypeOK /\ CallOfStep /\ TextOfStep /\ FailsEarly

------------------------------------------------------------------------------
(* The invariant holds when the programs start, and every step keeps it. *)
LEMMA InitProgramInv == Init => ProgramInv
<1> SUFFICES ASSUME Init PROVE ProgramInv
  OBVIOUS
<1>1. ServiceInv
  BY InitServiceInv DEF Init
<1>2. ProgramTypeOK /\ CallOfStep /\ TextOfStep /\ FailsEarly
  BY DEF Init, ServiceInit, ProgramTypeOK, CallOfStep, TextOfStep, FailsEarly, Steps, Programs
<1>3. QED
  BY <1>1, <1>2 DEF ProgramInv

(* A task whose step is none of a call is in none. *)
LEMMA InNoCall ==
  ASSUME ProgramInv, NEW t \in Tasks, step[t] \in {"idle", "fork", "verify"}
  PROVE  status[t] = "user" /\ status = [status EXCEPT ![t] = "user"]
BY DEF ProgramInv, CallOfStep, Ioctl, ServiceInv, Base, StatusOK

(* Whatever a program does is a step of the service or none of its business. *)
LEMMA StepOfService ==
  ASSUME ProgramInv, NEW t \in Tasks, Begin(t) \/ Goes(t)
  PROVE  UNCHANGED serviceVars \/ StepOf(t)
<1>1. CASE Begin(t) \/ Verify(t)
  BY <1>1 DEF Begin, Verify
<1>2. CASE ForkTest(t)
  <2>1. status[t] = "user" /\ status' = [status EXCEPT ![t] = "user"]
    BY <1>2, InNoCall DEF ForkTest
  <2>2. ASSUME NEW u \in Tasks \ {t}, step[u] = "idle", Fork(t, u)
        PROVE  LocalStep(t)
    <3>1. status[u] = "user"
      BY <2>2, InNoCall
    <3>2. QED
      BY <2>1, <2>2, <3>1 DEF LocalStep, Become
  <2>3. CASE UNCHANGED callVars
    BY <1>2, <2>3 DEF ForkTest, serviceVars
  <2>4. QED
    BY <1>2, <2>2, <2>3 DEF ForkTest, StepOf
<1>3. CASE Call(t)
  <2>1. Ioctl(step[t]) \subseteq Ioctls
    BY DEF Ioctl, Ioctls
  <2>2. QED
    BY <1>3, <2>1 DEF Call, StepOf, ServiceCall
<1>4. CASE CloseShared(t) \/ Reap(t)
  <2>1. status[t] = "user"
    BY <1>4 DEF CloseShared, Reap, Process
  <2>2. status = [status EXCEPT ![t] = "user"]
    BY <2>1 DEF ProgramInv, ServiceInv, Base, StatusOK
  <2>3. QED
    BY <1>4, <2>1, <2>2
       DEF CloseShared, Reap, StepOf, LocalStep, ServiceCall, Become
<1>5. CASE CallServed(t) \/ CallReturned(t)
  BY <1>5 DEF CallServed, CallReturned, StepOf, ReturnStep
<1>6. CASE OpenRefused(t)
  <2>1. req[t].cmd = "OPEN"
    BY <1>6 DEF OpenRefused, Become, ProgramInv, CallOfStep, Ioctl
  <2>2. QED
    BY <1>6, <2>1 DEF OpenRefused, StepOf, ReturnStep
<1>7. QED
  BY <1>1, <1>2, <1>3, <1>4, <1>5, <1>6 DEF Goes

(* What a task can be told: only CIOCGSESSION is refused, and what a       *)
(* CIOCCRYPT leaves is of the task's own session.                          *)
LEMMA CallResult ==
  ASSUME ProgramInv, ServiceInv', NEW t \in Tasks, CallReturned(t), ~Dying(t)
  PROVE  /\ step[t] \in {"open", "session", "crypt", "decrypt", "finish", "close"}
         /\ result'[t].ret # 0 => step[t] = "session"
         /\ step[t] \in {"crypt", "decrypt"} =>
              out'[t] = ses[t] /\ ses[t] \in SessionIds
<1>1. status[t] = "served" /\ Leave(t) /\ result'[t].ret # EFAULT
  BY DEF CallReturned, ServiceReturn, Become
<1>2. \/ step[t] = "open" /\ req[t].cmd = "OPEN"
      \/ step[t] = "session" /\ req[t].cmd = "CIOCGSESSION"
      \/ step[t] \in {"crypt", "decrypt"} /\ req[t].cmd = "CIOCCRYPT"
      \/ step[t] = "finish" /\ req[t].cmd = "CIOCFSESSION"
      \/ step[t] = "close" /\ req[t].cmd = "CLOSE"
  BY <1>1 DEF ProgramInv, CallOfStep, TextOfStep, Ioctl
<1>3. /\ result \in [Tasks -> Results] /\ out \in [Tasks -> SessionIds \cup {None}]
      /\ ses \in [Tasks -> SessionIds \cup {None}]
  BY DEF ProgramInv, ServiceInv, Base, CallsInv, CallsTypeOK
<1>4. CASE req[t].cmd \in {"OPEN", "CLOSE"}
  BY <1>1, <1>2, <1>3, <1>4
     DEF Leave, LeaveOpen, LeaveRelease, LeaveGetSession, LeaveFinishSession, LeaveCrypt,
         LeaveOther, Return, Result
<1>5. CASE req[t].cmd = "CIOCGSESSION"
  BY <1>2, <1>5
<1>6. CASE req[t].cmd = "CIOCFSESSION"
  <2>1. req[t].ret = 0
    BY <1>1, <1>6 DEF ProgramInv, ServiceInv, SessionInv, Answered, Served
  <2>2. QED
    BY <1>1, <1>2, <1>3, <1>6, <2>1 DEF Leave, LeaveOpen, LeaveRelease, LeaveGetSession,
       LeaveFinishSession, LeaveCrypt, LeaveOther, Return, Result
<1>7. CASE req[t].cmd = "CIOCCRYPT"
  <2>1. LeaveCrypt(t)
    BY <1>1, <1>7 DEF Leave, LeaveOpen, LeaveRelease, LeaveGetSession, LeaveFinishSession,
                      LeaveOther
  <2>2. req[t].ret = 0 /\ req[t].dst = ses[t]
    BY <1>1, <1>7 DEF ProgramInv, ServiceInv, SessionInv, Answered, Served
  <2>3. ses[t] # None
    BY <1>1, <1>7 DEF ProgramInv, ServiceInv, Base, StatusOK, SessionInv, RequestKept
  <2>4. QED
    BY <1>1, <1>2, <1>3, <1>7, <2>1, <2>2, <2>3 DEF LeaveCrypt, Return, Result
<1>8. QED
  BY <1>2, <1>4, <1>5, <1>6, <1>7

(* exit(1) is not taken back. *)
LEMMA DyingStays ==
  ASSUME ProgramInv, ServiceInv', NEW t \in Tasks, Begin(t) \/ Goes(t), UNCHANGED program,
         NEW u \in Tasks, Dying(u)
  PROVE  Dying(u)'
<1>1. exit \in [Tasks -> {"running", "ok", "error"}]
  BY DEF ProgramInv, ProgramTypeOK
<1>2. Process(u)' = Process(u) /\ Process(u) \subseteq Tasks
  BY DEF Process, Threads
<1>3. ~Dying(t) => exit[t] # "error"
  BY DEF Dying, Process
<1>4. \A v \in Tasks : exit[v] = "error" => exit'[v] = "error"
  BY <1>1, <1>3
     DEF Begin, Goes, ForkTest, Call, CloseShared, CallServed, CallReturned, OpenRefused,
         Verify, Reap, Running, Proceed, Fail, progVars
<1>5. QED
  BY <1>2, <1>4 DEF Dying

(* The steps of other tasks do not touch what CallOfStep and TextOfStep say *)
(* of a task.                                                              *)
LEMMA OthersKept ==
  ASSUME ProgramInv, NEW t \in Tasks, Begin(t) \/ Goes(t), NEW u \in Tasks \ {t}
  PROVE  /\ status'[u] = status[u] /\ req'[u] = req[u] /\ ses'[u] = ses[u] /\ text'[u] = text[u]
         /\ \/ step'[u] = step[u]
            \/ step'[u] = "session" /\ status[u] = "user"
<1>1. CASE Begin(t) \/ Verify(t)
  BY <1>1 DEF Begin, Verify, Proceed, Fail, serviceVars, callVars, ProgramInv, ProgramTypeOK
<1>2. CASE ForkTest(t)
  <2>1. UNCHANGED <<status, text, req, ses>>
    BY <1>2 DEF ForkTest, Fork, callVars
  <2>2. CASE Fail(t)
    BY <2>1, <2>2 DEF Fail, ProgramInv, ProgramTypeOK
  <2>3. ASSUME NEW v \in Tasks \ {t}, step[v] = "idle",
               step' = [step EXCEPT ![t] = "session", ![v] = "session"]
        PROVE  \/ step'[u] = step[u]
               \/ step'[u] = "session" /\ status[u] = "user"
    BY <2>3, InNoCall DEF ProgramInv, ProgramTypeOK
  <2>4. QED
    BY <1>2, <2>1, <2>2, <2>3 DEF ForkTest
<1>3. CASE \/ Call(t) \/ CloseShared(t) \/ CallServed(t)
           \/ CallReturned(t) \/ OpenRefused(t) \/ Reap(t)
  <2>1. step'[u] = step[u] /\ text'[u] = text[u]
    BY <1>3 DEF Call, CloseShared, CallServed, CallReturned, OpenRefused, Reap, Proceed, Fail,
                progVars, ProgramInv, ProgramTypeOK
  <2>2. status'[u] = status[u]
    BY <1>3 DEF Call, CloseShared, CallServed, CallReturned, OpenRefused, Reap, ServiceServe,
                ServiceReturn, Become, ProgramInv, ServiceInv, Base, StatusOK
  <2>3. CASE Call(t) \/ CloseShared(t) \/ Reap(t)
    BY <2>1, <2>2, <2>3
       DEF Call, CloseShared, Reap, EnterOpen, EnterIoctl, EnterRelease, DropReference, Issue,
           ForgetSession, ProgramInv, ServiceInv, Base, CallsInv, CallsTypeOK
  <2>4. CASE CallServed(t)
    BY <2>1, <2>2, <2>4 DEF CallServed, ServiceServe, Serve, ProgramInv, ServiceInv, Base,
                            CallsInv, CallsTypeOK
  <2>5. CASE CallReturned(t) \/ OpenRefused(t)
    BY <2>1, <2>2, <2>5
       DEF CallReturned, OpenRefused, RefuseOpen, ServiceReturn, Leave, LeaveOpen, LeaveRelease,
           LeaveGetSession, LeaveFinishSession, LeaveCrypt, LeaveOther, Return, ProgramInv,
           ServiceInv, Base, CallsInv, CallsTypeOK
  <2>6. QED
    BY <1>3, <2>3, <2>4, <2>5
<1>4. QED
  BY <1>1, <1>2, <1>3 DEF Goes

(* The task's own step. *)
LEMMA StepKeepsProgram ==
  ASSUME ProgramInv, ServiceInv', NEW t \in Tasks, Begin(t) \/ Goes(t), UNCHANGED program
  PROVE  ProgramInv'
<1> DEFINE OwnCall == status'[t] # "user" =>
                        \/ step'[t] = "open" /\ req'[t].cmd = "OPEN"
                        \/ req'[t].cmd \in Ioctl(step'[t])
                        \/ step'[t] \in {"close", "ended"} /\ req'[t].cmd = "CLOSE"
           OwnText == ~Dying(t)' =>
                        /\ step'[t] = "ended" => status'[t] = "user"
                        /\ step'[t] = "decrypt" => text'[t] = ses'[t]
                        /\ step'[t] = "verify" => text'[t] = "plain"
           Own1 == ProgramTypeOK' /\ FailsEarly' /\ OwnCall /\ OwnText
<1>1. /\ program \in Programs /\ step \in [Tasks -> Steps]
      /\ text \in [Tasks -> {"plain", "garbage"} \cup SessionIds]
      /\ failed \in [Tasks -> Steps \cup {"no"}]
      /\ exit \in [Tasks -> {"running", "ok", "error"}]
      /\ status \in [Tasks -> {"user", "called", "served"}]
  BY DEF ProgramInv, ProgramTypeOK, ServiceInv, Base, StatusOK
<1>2. Dying(t) => Dying(t)'
  BY DyingStays
<1>3. ASSUME Begin(t) PROVE Own1
  BY <1>1, <1>3, InNoCall
     DEF Begin, Proceed, serviceVars, ProgramInv, ProgramTypeOK, FailsEarly, Steps
<1>4. ASSUME ForkTest(t) PROVE Own1
  <2>1. status'[t] = "user" /\ UNCHANGED <<text, program>>
    BY <1>4, InNoCall DEF ForkTest
  <2>2. step'[t] \notin {"decrypt", "verify"}
    BY <1>1, <1>4 DEF ForkTest, Fail
  <2>3. ProgramTypeOK' /\ FailsEarly'
    BY <1>1, <1>4, <2>1 DEF ForkTest, Fail, ProgramInv, ProgramTypeOK, FailsEarly, Steps
  <2>4. QED
    BY <2>1, <2>2, <2>3
<1>5. ASSUME Call(t) PROVE Own1
  <2>1. UNCHANGED progVars /\ step[t] # "ended" /\ ~Dying(t)
    BY <1>5 DEF Call, Running
  <2>2. ProgramTypeOK' /\ FailsEarly'
    BY <1>1, <2>1 DEF progVars, ProgramInv, ProgramTypeOK, FailsEarly
  <2>3. OwnCall
    BY <1>1, <1>5, <2>1
       DEF Call, progVars, EnterOpen, EnterIoctl, EnterRelease, Issue, Request, ProgramInv,
           ServiceInv, Base, CallsInv, CallsTypeOK
  <2>4. step[t] = "decrypt" => ses' = ses
    BY <1>5 DEF Call, EnterIoctl
  <2>5. OwnText
    BY <2>1, <2>4 DEF progVars, ProgramInv, TextOfStep
  <2>6. QED
    BY <2>2, <2>3, <2>5
<1>6. ASSUME CloseShared(t) PROVE Own1
  <2>1. step'[t] \in {"idle", "ended"} /\ status'[t] = "user"
    BY <1>1, <1>6 DEF CloseShared, Proceed, After
  <2>2. ProgramTypeOK' /\ FailsEarly'
    BY <1>1, <1>6 DEF CloseShared, Proceed, After, ProgramInv, ProgramTypeOK, FailsEarly, Steps
  <2>3. QED
    BY <2>1, <2>2
<1>7. ASSUME CallServed(t) PROVE Own1
  <2>1. UNCHANGED progVars /\ status[t] # "user" /\ ses' = ses
    BY <1>7 DEF CallServed, ServiceServe, Serve, Become
  <2>2. req'[t].cmd = req[t].cmd
    <3>1. PICK o \in HostOutcomes(host, req[t]) : req' = [req EXCEPT ![t] = o.req]
      BY <1>7 DEF CallServed, ServiceServe, Serve
    <3>2. host \in HostStates /\ req \in [Tasks -> Requests]
      BY DEF ProgramInv, ServiceInv, Base, CallsInv, CallsTypeOK
    <3>3. QED
      BY <3>1, <3>2, HostOutcomesType
  <2>3. ProgramTypeOK' /\ FailsEarly'
    BY <1>1, <2>1 DEF progVars, ProgramInv, ProgramTypeOK, FailsEarly
  <2>4. OwnCall /\ OwnText
    BY <1>2, <2>1, <2>2 DEF progVars, ProgramInv, CallOfStep, TextOfStep
  <2>5. QED
    BY <2>3, <2>4
<1>8. ASSUME CallReturned(t) PROVE Own1
  <2>1. status'[t] = "user"
    BY <1>1, <1>8 DEF CallReturned, ServiceReturn, Become
  <2>2. CASE Dying(t)
    BY <1>1, <1>2, <1>8, <2>1, <2>2
       DEF CallReturned, progVars, ProgramInv, ProgramTypeOK, FailsEarly
  <2>3. ASSUME ~Dying(t), Proceed(t, After(step[t])), text' = [text EXCEPT ![t] = Crypted(t)]
        PROVE  Own1
    <3>1. step[t] \in {"open", "session", "crypt", "decrypt", "finish", "close"}
      BY <1>8, <2>3, CallResult
    <3>2. step' = [step EXCEPT ![t] = After(step[t])] /\ After(step[t]) \in Steps
      BY <2>3, <3>1 DEF Proceed, After, Steps
    <3>3. Crypted(t) \in {"plain", "garbage"} \cup SessionIds
      BY <1>1, <1>8, <2>3, CallResult DEF Crypted
    <3>4. ProgramTypeOK' /\ FailsEarly'
      BY <1>1, <2>3, <3>2, <3>3 DEF Proceed, ProgramInv, ProgramTypeOK, FailsEarly
    <3>5. step'[t] = "decrypt" => text'[t] = ses'[t]
      <4>1. SUFFICES ASSUME step'[t] = "decrypt" PROVE text'[t] = ses'[t]
        OBVIOUS
      <4>2. step[t] = "crypt"
        BY <1>1, <3>1, <3>2, <4>1 DEF After
      <4>3. out'[t] = ses[t] /\ ses'[t] = ses[t]
        BY <1>8, <2>3, <4>2, CallResult
           DEF CallReturned, ServiceReturn, Become, Leave, LeaveOpen, LeaveRelease,
               LeaveGetSession, LeaveFinishSession, LeaveCrypt, LeaveOther, ProgramInv,
               CallOfStep, Ioctl
      <4>4. QED
        BY <1>1, <2>3, <4>2, <4>3 DEF Crypted
    <3>6. step'[t] = "verify" => text'[t] = "plain"
      <4>1. SUFFICES ASSUME step'[t] = "verify" PROVE text'[t] = "plain"
        OBVIOUS
      <4>2. step[t] = "decrypt"
        BY <1>1, <3>1, <3>2, <4>1 DEF After
      <4>3. out'[t] = ses[t] /\ text[t] = ses[t]
        BY <1>8, <2>3, <4>2, CallResult DEF ProgramInv, TextOfStep
      <4>4. QED
        BY <1>1, <2>3, <4>2, <4>3 DEF Crypted
    <3>7. QED
      BY <2>1, <3>4, <3>5, <3>6
  <2>4. ASSUME ~Dying(t), result'[t].ret # 0, Fail(t), UNCHANGED text
        PROVE  Own1
    <3>1. step[t] = "session"
      BY <1>8, <2>4, CallResult
    <3>2. ProgramTypeOK' /\ FailsEarly' /\ step'[t] \in {"session", "close"}
      BY <1>1, <2>4, <3>1 DEF Fail, ProgramInv, ProgramTypeOK, FailsEarly, Steps
    <3>3. QED
      BY <2>1, <3>2
  <2>5. QED
    BY <1>8, <2>2, <2>3, <2>4 DEF CallReturned
<1>9. ASSUME OpenRefused(t) PROVE Own1
  <2>1. status'[t] = "user" /\ step[t] = "open"
    BY <1>1, <1>9 DEF OpenRefused, Become
  <2>2. CASE Dying(t)
    BY <1>1, <1>2, <1>9, <2>1, <2>2
       DEF OpenRefused, progVars, ProgramInv, ProgramTypeOK, FailsEarly
  <2>3. CASE Fail(t) /\ UNCHANGED text
    BY <1>1, <2>1, <2>3 DEF Fail, ProgramInv, ProgramTypeOK, FailsEarly, Steps
  <2>4. QED
    BY <1>9, <2>2, <2>3 DEF OpenRefused
<1>10. ASSUME Verify(t) PROVE Own1
  <2>1. text[t] = "plain" /\ Proceed(t, "finish") /\ UNCHANGED <<status, text>>
    BY <1>10 DEF Verify, Running, ProgramInv, TextOfStep, serviceVars
  <2>2. status'[t] = "user"
    BY <1>10, <2>1, InNoCall DEF Verify
  <2>3. QED
    BY <1>1, <2>1, <2>2 DEF Proceed, ProgramInv, ProgramTypeOK, FailsEarly, Steps
<1>11. ASSUME Reap(t) PROVE Own1
  <2>1. step' = [step EXCEPT ![t] = "ended"] /\ UNCHANGED <<text, failed, exit>> /\ Dying(t)'
    BY <1>2, <1>11 DEF Reap
  <2>2. ProgramTypeOK' /\ FailsEarly'
    BY <1>1, <2>1 DEF ProgramInv, ProgramTypeOK, FailsEarly, Steps
  <2>3. status'[t] = "user" \/ req'[t].cmd = "CLOSE"
    BY <1>1, <1>11
       DEF Reap, Process, EnterRelease, Issue, Request, ProgramInv, ServiceInv, Base, CallsInv,
           CallsTypeOK
  <2>4. QED
    BY <1>1, <2>1, <2>2, <2>3
<1>12. Own1
  BY <1>3, <1>4, <1>5, <1>6, <1>7, <1>8, <1>9, <1>10, <1>11 DEF Goes
<1>13. CallOfStep'
  <2>1. ASSUME NEW u \in Tasks \ {t}, status'[u] # "user"
        PROVE  \/ step'[u] = "open" /\ req'[u].cmd = "OPEN"
               \/ req'[u].cmd \in Ioctl(step'[u])
               \/ step'[u] \in {"close", "ended"} /\ req'[u].cmd = "CLOSE"
    BY <2>1, OthersKept DEF ProgramInv, CallOfStep
  <2>2. QED
    BY <1>12, <2>1 DEF CallOfStep, Ioctl
<1>14. TextOfStep'
  <2>1. ASSUME NEW u \in Tasks \ {t}, ~Dying(u)'
        PROVE  /\ step'[u] = "ended" => status'[u] = "user"
               /\ step'[u] = "decrypt" => text'[u] = ses'[u]
               /\ step'[u] = "verify" => text'[u] = "plain"
    <3>1. ~Dying(u)
      BY <2>1, DyingStays
    <3>2. QED
      BY <3>1, OthersKept DEF ProgramInv, TextOfStep
  <2>2. QED
    BY <1>12, <2>1 DEF TextOfStep
<1>15. QED
  BY <1>12, <1>13, <1>14 DEF ProgramInv

LEMMA NextKeepsProgram == ProgramInv /\ [Next]_vars => ProgramInv'
<1> SUFFICES ASSUME ProgramInv, [Next]_vars PROVE ProgramInv'
  OBVIOUS
<1>1. CASE UNCHANGED vars
  <2>1. ServiceInv'
    BY <1>1, StepKeepsService DEF vars, ProgramInv
  <2>2. QED
    BY <1>1, <2>1
       DEF vars, progVars, serviceVars, callVars, ProgramInv, ProgramTypeOK, CallOfStep, Ioctl,
           TextOfStep, Dying, Process, Threads, FailsEarly
<1>2. ASSUME NEW t \in Tasks, Begin(t) \/ Goes(t), UNCHANGED program
      PROVE  ProgramInv'
  <2>1. ServiceInv'
    BY <1>2, StepOfService, StepKeepsService DEF ProgramInv
  <2>2. QED
    BY <1>2, <2>1, StepKeepsProgram
<1>3. QED
  BY <1>1, <1>2 DEF Next

(* A program makes the call of its step, has in its buffers what the steps before *)
(* put there, and has failed early or not at all.                          *)
THEOREM ProgramInvariance == Spec => []ProgramInv
BY InitProgramInv, NextKeepsProgram, PTL DEF Spec

------------------------------------------------------------------------------
(* The programs' steps, data and endings, and the calls they are in, are   *)
(* well formed.                                                            *)
THEOREM ProgramTypes == Spec => []TypeOK
<1>1. ProgramInv => TypeOK
  BY DEF ProgramInv, ProgramTypeOK, ServiceInv, Base, StatusOK, CallsInv, ServiceTypeOK, TypeOK
<1>2. QED
  BY <1>1, ProgramInvariance, PTL

(* encrypt(), decrypt() and the tests fail at open, fork or CIOCGSESSION or *)
(* not at all, with any number of threads and processes.                   *)
THEOREM FailuresAreEarly == Spec => []FailsEarly
<1>1. ProgramInv => FailsEarly
  BY DEF ProgramInv
<1>2. QED
  BY <1>1, ProgramInvariance, PTL

(* When every task has closed what it opened, by itself or by exit, the    *)
(* host has no descriptor and no session of theirs, and the driver no open *)
(* file.                                                                   *)
THEOREM ProgramsLeaveNothing == Spec => []NothingLeft
<1>1. ProgramInv => NothingLeft
  <2> SUFFICES ASSUME ProgramInv, \A t \in Tasks : fd[t] = None /\ status[t] = "user"
               PROVE  /\ host.open = {}
                      /\ \A d \in HostFds : host.ses[d] = {}
                      /\ \A f \in Files : crof[f] = None
    BY DEF NothingLeft
  <2>1. \A t \in Tasks : cur[t] = None
    BY DEF ProgramInv, ServiceInv, Base, StatusOK
  <2>2. \A f \in Files : crof[f] = None
    BY <2>1, CallersAssumption DEF ProgramInv, ServiceInv, NothingLost
  <2>3. \A d \in HostFds : d \notin host.open
    BY <2>1, <2>2, FdSort DEF ProgramInv, ServiceInv, SessionInv, FdsOwned, Stores, Brings
  <2>4. host.open \subseteq HostFds
    BY DEF ProgramInv, ServiceInv, Base, CallsInv, CallsTypeOK, HostStates
  <2>5. QED
    BY <2>2, <2>3, <2>4 DEF ProgramInv, ServiceInv, NothingLost
<1>2. QED
  BY <1>1, ProgramInvariance, PTL
==============================================================================
