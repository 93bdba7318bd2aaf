------------------------------ MODULE IrcServer ------------------------------
(***************************************************************************)
(* socket-server-irc.c: the main thread accepts connections and starts a   *)
(* thread for each; every thread reads messages from its client, prints    *)
(* them and forwards them to all clients counted so far.  The threads      *)
(* share newsd_serve, locks and no_client, and main's local client_id,     *)
(* whose address each of them is given.                                    *)
(*                                                                         *)
(* A frame is two pieces of a TCP stream, "head" and "body": the size and  *)
(* the text, or two parts of the fixed DATA_SIZE when encrypted.  A read   *)
(* or a write of one piece is a step (insist_read and insist_write may     *)
(* take several calls).  Text printed on descriptor 0 is a piece "raw".    *)
(* What a thread has in buf when another one has read a part of its frame  *)
(* is no client's message: garbage, NoMessage.                             *)
(***************************************************************************)
EXTENDS Integers, Sequences, FiniteSets

CONSTANTS
  Clients,     \* client programs that connect, once each
  Leavers,     \* those of them whose program may end
  MaxSends,    \* bound: messages that all clients together send
  Window,      \* pieces a connection holds, each way, before a write blocks
  Encrypted,   \* the option --encrypted
  Failing,     \* what may fail at any call of it: accept(), malloc, /dev/crypto
  None

ASSUME ClientsAssumption == IsFiniteSet(Clients) /\ Leavers \subseteq Clients
ASSUME IrcBoundsAssumption == MaxSends \in Nat /\ Window \in Nat \ {0}
ASSUME EncryptedAssumption == Encrypted \in BOOLEAN
ASSUME FailingAssumption == Failing \subseteq {"accept", "memory", "crypto"}
ASSUME NamesAssumption == Clients \cap {None, "tty", "free"} = {}

VARIABLES
  mpc,       \* main: "accept", "spawn" or "count"
  noClient,  \* no_client
  newsd,     \* newsd_serve, zeroed
  sem,       \* locks: Uninit, 0 or 1
  clientId,  \* main's local client_id
  th,        \* the threads, by the value of no_client that started them
  tab,       \* the descriptor table of the process
  ended,     \* why the process has ended, or "no"
  console,   \* messages printed on the terminal
  backlog,   \* connections to accept
  conn,      \* each connection as the server's kernel sees it
  up,        \* pieces from a client that the server has not read
  down,      \* pieces the server has written to a client
  unread,    \* how many of them the client has not read
  sending,   \* the message a client has sent the head of only
  sent       \* messages sent so far; the n-th is <<its sender, n>>

mainVars   == <<mpc, noClient, newsd, clientId>>
clientVars == <<backlog, sending, sent>>
streamVars == <<conn, up, down, unread>>
vars == <<mainVars, sem, th, tab, ended, console, clientVars, streamVars>>

Slots  == 0 .. Cardinality(Clients)
\* No thread is started in the last slot: CloseNext reads newsd_serve[no_client].
Threads == 0 .. Cardinality(Clients) - 1
Fds    == {0} \cup {3 + n : n \in 1 .. Cardinality(Clients)}
Uninit == -1

Messages == Clients \X (1 .. MaxSends)
NoMessage == <<None, 0>>
Texts == Messages \cup {NoMessage}

Causes == {"no", "accept", "memory", "crypto", "reset", "closed", "garbage"}

Piece(m, part, depth) == [msg |-> m, part |-> part, depth |-> depth]

(* depth: how many times encrypt() has been applied to buf since decrypt(). *)
Thread(pc, id, sd) ==
  [pc |-> pc, id |-> id, sd |-> sd, ref |-> None, msg |-> NoMessage, to |-> 0, depth |-> 0]

ThreadLabels ==
  {"none", "start", "head", "body", "print", "dist", "write1", "write2", "leave", "done"}

Pieces(parts) == [msg : Texts, part : parts, depth : 0 .. Cardinality(Clients)]

ThreadStates ==
  [pc : ThreadLabels, id : Slots, sd : Fds, ref : Clients \cup {None},
   msg : Texts, to : Slots, depth : 0 .. Cardinality(Clients)]

TypeOK ==
  /\ mpc \in {"accept", "spawn", "count"}
  /\ noClient \in Slots
  /\ newsd \in [Slots -> Fds]
  /\ sem \in [Slots -> {Uninit, 0, 1}]
  /\ clientId \in Slots
  /\ th \in [Slots -> ThreadStates]
  /\ tab \in [Fds -> Clients \cup {"tty", "free"}]
  /\ ended \in Causes
  /\ console \in Seq(Texts)
  /\ backlog \in Seq(Clients)
  /\ conn \in [Clients -> {"none", "open", "fin", "rst"}]
  /\ up \in [Clients -> Seq(Pieces({"head", "body"}))]
  /\ down \in [Clients -> Seq(Pieces({"head", "body", "raw"}))]
  /\ unread \in [Clients -> 0 .. Window]
  /\ sending \in [Clients -> Texts]
  /\ sent \in 0 .. MaxSends

Init ==
  /\ mpc = "accept"
  /\ noClient = 0
  /\ newsd = [s \in Slots |-> 0]
  /\ sem = [s \in Slots |-> Uninit]
  /\ clientId = 0
  /\ th = [s \in Slots |-> Thread("none", 0, 0)]
  /\ tab = [d \in Fds |-> IF d = 0 THEN "tty" ELSE "free"]
  /\ ended = "no"
  /\ console = <<>>
  /\ backlog = <<>>
  /\ conn = [c \in Clients |-> "none"]
  /\ up = [c \in Clients |-> <<>>]
  /\ down = [c \in Clients |-> <<>>]
  /\ unread = [c \in Clients |-> 0]
  /\ sending = [c \in Clients |-> NoMessage]
  /\ sent = 0

------------------------------------------------------------------------------
(* The client programs (socket-client.c), as the server sees them. *)

Connect(c) ==
  /\ conn[c] = "none"
  /\ conn' = [conn EXCEPT ![c] = "open"]
  /\ backlog' = Append(backlog, c)
  /\ UNCHANGED <<mainVars, sem, th, tab, console, sending, sent, up, down, unread>>

(* insist_write: a client waits in it while the connection is full.        *)
Send(c, m, part) ==
  /\ conn[c] = "open"
  /\ Len(up[c]) < Window
  /\ up' = [up EXCEPT ![c] = Append(@, Piece(m, part, 0))]
  /\ UNCHANGED <<mainVars, sem, th, tab, console, backlog, conn, down, unread>>

(* get_and_print has read the head of a frame and waits for its body.      *)
MidFrame(c) ==
  LET n == Len(down[c]) - unread[c] IN n > 0 /\ down[c][n].part = "head"

(* One loop reads and writes: a message is sent between two frames.        *)
SendHead(c) ==
  /\ sent < MaxSends
  /\ sending[c] = NoMessage
  /\ ~MidFrame(c)
  /\ sent' = sent + 1
  /\ sending' = [sending EXCEPT ![c] = <<c, sent + 1>>]
  /\ Send(c, <<c, sent + 1>>, "head")

SendBody(c) ==
  /\ sending[c] # NoMessage
  /\ sending' = [sending EXCEPT ![c] = NoMessage]
  /\ Send(c, sending[c], "body")
  /\ UNCHANGED sent

Receive(c) ==
  /\ unread[c] > 0
  /\ sending[c] = NoMessage
  /\ conn[c] = "open"
  /\ unread' = [unread EXCEPT ![c] = @ - 1]
  /\ UNCHANGED <<mainVars, sem, th, tab, console, clientVars, conn, up, down>>

(* A program that ends with unread data in its socket resets the           *)
(* connection, else it closes it in order.                                 *)
Leave(c) ==
  /\ c \in Leavers
  /\ conn[c] = "open"
  /\ conn' = [conn EXCEPT ![c] = IF unread[c] > 0 THEN "rst" ELSE "fin"]
  /\ UNCHANGED <<mainVars, sem, th, tab, console, clientVars, up, down, unread>>

------------------------------------------------------------------------------
Exit(cause) ==
  /\ ended' = cause
  /\ UNCHANGED <<mainVars, sem, th, tab, console, clientVars, streamVars>>

Fails(cause) == cause \in Failing /\ Exit(cause)

(* main *)

LowestFree == CHOOSE d \in Fds : tab[d] = "free" /\ \A e \in Fds : tab[e] = "free" => d <= e

Accept ==
  /\ mpc = "accept"
  /\ backlog # <<>>
  /\ newsd' = [newsd EXCEPT ![noClient] = LowestFree]
  /\ tab' = [tab EXCEPT ![LowestFree] = Head(backlog)]
  /\ backlog' = Tail(backlog)
  /\ mpc' = "spawn"
  /\ UNCHANGED <<noClient, clientId, sem, th, console, sending, sent, streamVars>>

AcceptFails == mpc = "accept" /\ backlog # <<>> /\ Fails("accept")

(* Variant: the semaphores start at 2. *)
SpawnTwoPermits ==
  /\ mpc = "spawn"
  /\ clientId' = noClient
  /\ sem' = [sem EXCEPT ![noClient] = 2]
  /\ \E pc \in {"none", "start"} : th' = [th EXCEPT ![noClient] = Thread(pc, 0, 0)]
  /\ mpc' = "count"
  /\ UNCHANGED <<noClient, newsd, tab, console, clientVars, streamVars>>

(* pthread_create can fail: main says so and goes on. *)
Spawn ==
  /\ mpc = "spawn"
  /\ clientId' = noClient
  /\ sem' = [sem EXCEPT ![noClient] = 1]
  /\ \E pc \in {"none", "start"} : th' = [th EXCEPT ![noClient] = Thread(pc, 0, 0)]
  /\ mpc' = "count"
  /\ UNCHANGED <<noClient, newsd, tab, console, clientVars, streamVars>>

Count ==
  /\ mpc = "count"
  /\ noClient' = noClient + 1
  /\ mpc' = "accept"
  /\ UNCHANGED <<newsd, clientId, sem, th, tab, console, clientVars, streamVars>>

------------------------------------------------------------------------------
(* client_service and forward, in thread i. *)

Set(i, r) == th' = [th EXCEPT ![i] = r]

(* "int id = *((int * ) client_id)": whatever main has stored there by now. *)
Start(i) ==
  /\ th[i].pc = "start"
  /\ Set(i, Thread("head", clientId, newsd[clientId]))
  /\ UNCHANGED <<mainVars, sem, tab, console, clientVars, streamVars>>

(* Variant: the thread reads from the newest connection, not from its own. *)
EnterReadNewest(i) ==
  /\ th[i].pc \in {"head", "body"}
  /\ th[i].ref = None
  /\ tab[newsd[clientId]] \in Clients
  /\ Set(i, [th[i] EXCEPT !.ref = tab[newsd[clientId]]])
  /\ UNCHANGED <<mainVars, sem, tab, console, clientVars, streamVars>>

(* The read call finds its file: the descriptor may be closed under it. *)
EnterRead(i) ==
  /\ th[i].pc \in {"head", "body"}
  /\ th[i].ref = None
  /\ tab[th[i].sd] \in Clients
  /\ Set(i, [th[i] EXCEPT !.ref = tab[th[i].sd]])
  /\ UNCHANGED <<mainVars, sem, tab, console, clientVars, streamVars>>

Expected(i) ==
  IF th[i].pc = "head" THEN {<<c, n>> : c \in {th[i].ref}, n \in 1 .. MaxSends} \X {"head"}
                       ELSE {<<th[i].msg, "body">>}

ReadAs(i, next) ==
  /\ th[i].ref # None
  /\ up[th[i].ref] # <<>>
  /\ LET p == Head(up[th[i].ref])
     IN /\ <<p.msg, p.part>> \in Expected(i)
        /\ Set(i, [th[i] EXCEPT !.ref = None, !.msg = p.msg, !.depth = 0, !.pc = next])
  /\ up' = [up EXCEPT ![th[i].ref] = Tail(@)]
  /\ UNCHANGED <<mainVars, sem, tab, console, clientVars, conn, down, unread>>

(* Variant: the body is not read. *)
ReadHeadOnly(i) == ReadAs(i, "print")

ReadPiece(i) == ReadAs(i, IF th[i].pc = "head" THEN "body" ELSE "print")

(* Another thread is in a read of the same connection. *)
Disturbed(i) == \E j \in Slots \ {i} : th[j].ref = th[i].ref

(* A piece that is not the next one of this thread's frame, or that two    *)
(* threads share: it takes all of it or leaves a rest (bound: one rest of  *)
(* a piece).  Part of a text taken for a size may be 0, insist_read then   *)
(* returns 0, or more than there is, and the read goes on.                 *)
ReadTorn(i) ==
  /\ th[i].ref # None
  /\ up[th[i].ref] # <<>>
  /\ LET p == Head(up[th[i].ref])
     IN /\ <<p.msg, p.part>> \notin Expected(i) \/ Disturbed(i)
        /\ \/ up' = [up EXCEPT ![th[i].ref] = Tail(@)]
           \/ /\ p.msg # NoMessage
              /\ up' = [up EXCEPT ![th[i].ref][1].msg = NoMessage]
  /\ \E next \in {"body", "print", "leave"} :
       /\ next = "print" => th[i].pc = "body"
       /\ next = "leave" => th[i].pc = "head" /\ ~Encrypted
       /\ Set(i, [th[i] EXCEPT !.ref = None, !.msg = NoMessage, !.depth = 0, !.pc = next])
  /\ UNCHANGED <<mainVars, sem, tab, console, clientVars, conn, down, unread>>

(* malloc of the frame, before its first read or once its size is known.   *)
OutOfMemory(i) ==
  /\ th[i].pc = IF Encrypted THEN "head" ELSE "body"
  /\ th[i].ref = None
  /\ Fails("memory")

(* decrypt() before a message is printed, encrypt() before it is written.  *)
CryptoFails(i) == Encrypted /\ th[i].pc \in {"print", "write1"} /\ Fails("crypto")

(* A size that is garbage: there is no memory for it, or, encrypted, it is *)
(* beyond buf when the message is printed or copied.                       *)
GarbageFails(i) ==
  /\ th[i].msg = NoMessage
  /\ th[i].pc \in IF Encrypted THEN {"print", "write1"} ELSE {"body"}
  /\ Exit("garbage")

ReadEnd(i) ==
  /\ th[i].ref # None
  /\ up[th[i].ref] = <<>>
  /\ conn[th[i].ref] = "fin"
  /\ Set(i, [th[i] EXCEPT !.pc = "leave", !.ref = None])
  /\ UNCHANGED <<mainVars, sem, tab, console, clientVars, streamVars>>

ReadFails(i) ==
  \/ /\ th[i].pc \in {"head", "body"} /\ th[i].ref = None
     /\ tab[th[i].sd] = "free"
     /\ Exit("closed")
  \/ /\ th[i].ref # None /\ conn[th[i].ref] = "rst"
     /\ Exit("reset")

(* A piece written to a connection: the peer of a closed one answers RST. *)
Put(c, p) ==
  \/ /\ conn[c] = "open"
     /\ unread[c] < Window
     /\ down' = [down EXCEPT ![c] = Append(@, p)]
     /\ unread' = [unread EXCEPT ![c] = @ + 1]
     /\ UNCHANGED <<conn, up>>
  \/ /\ conn[c] = "fin"
     /\ conn' = [conn EXCEPT ![c] = "rst"]
     /\ UNCHANGED <<up, down, unread>>

WriteBreaks(d) ==
  \/ tab[d] = "free" /\ Exit("closed")
  \/ tab[d] \in Clients /\ conn[tab[d]] = "rst" /\ Exit("reset")

(* insist_write(0, buf, size) *)
PrintMessage(i) ==
  /\ th[i].pc = "print"
  /\ \/ /\ tab[0] = "tty"
        /\ console' = Append(console, th[i].msg)
        /\ UNCHANGED streamVars
     \/ /\ tab[0] \in Clients
        /\ Put(tab[0], Piece(th[i].msg, "raw", 0))
        /\ UNCHANGED console
  /\ Set(i, [th[i] EXCEPT !.pc = "dist", !.to = 0])
  /\ UNCHANGED <<mainVars, sem, tab, clientVars>>

PrintFails(i) == th[i].pc = "print" /\ WriteBreaks(0)

(* for (client = 0; client < no_client; client++) *)
SkipSelf(i) ==
  /\ th[i].pc = "dist"
  /\ th[i].to < noClient
  /\ th[i].to = th[i].id
  /\ Set(i, [th[i] EXCEPT !.to = @ + 1])
  /\ UNCHANGED <<mainVars, sem, tab, console, clientVars, streamVars>>

(* encrypt() works in place: buf is encrypted once more for each client. *)
StartWrite(i) ==
  /\ th[i].pc = "dist"
  /\ th[i].to < noClient
  /\ sem' = [sem EXCEPT ![th[i].to] = 0]
  /\ Set(i, [th[i] EXCEPT !.pc = "write1", !.depth = IF Encrypted THEN @ + 1 ELSE @])
  /\ UNCHANGED <<mainVars, tab, console, clientVars, streamVars>>

(* Variants: the semaphore is not waited for; the loop does not skip me. *)
AcquireAnyway(i) == th[i].to # th[i].id /\ StartWrite(i)

AcquireOwn(i) == sem[th[i].to] = 1 /\ StartWrite(i)

Acquire(i) == th[i].to # th[i].id /\ sem[th[i].to] = 1 /\ StartWrite(i)

(* Variant: client < no_client - 1. *)
EndDistributionEarly(i) ==
  /\ th[i].pc = "dist"
  /\ th[i].to >= noClient - 1
  /\ Set(i, [th[i] EXCEPT !.pc = "head"])
  /\ UNCHANGED <<mainVars, sem, tab, console, clientVars, streamVars>>

EndDistribution(i) ==
  /\ th[i].pc = "dist"
  /\ th[i].to >= noClient
  /\ Set(i, [th[i] EXCEPT !.pc = "head"])
  /\ UNCHANGED <<mainVars, sem, tab, console, clientVars, streamVars>>

WritePiece(i, part) ==
  LET d == newsd[th[i].to]
  IN /\ tab[d] \in Clients
     /\ Put(tab[d], Piece(th[i].msg, part, th[i].depth))

WriteHead(i) ==
  /\ th[i].pc = "write1"
  /\ WritePiece(i, "head")
  /\ Set(i, [th[i] EXCEPT !.pc = "write2"])
  /\ UNCHANGED <<mainVars, sem, tab, console, clientVars>>

(* Variant: the semaphore is not posted. *)
WriteBodyNoPost(i) ==
  /\ th[i].pc = "write2"
  /\ WritePiece(i, "body")
  /\ Set(i, [th[i] EXCEPT !.pc = "dist", !.to = @ + 1])
  /\ UNCHANGED <<mainVars, sem, tab, console, clientVars>>

WriteBody(i) ==
  /\ th[i].pc = "write2"
  /\ WritePiece(i, "body")
  /\ sem' = [sem EXCEPT ![th[i].to] = @ + 1]
  /\ Set(i, [th[i] EXCEPT !.pc = "dist", !.to = @ + 1])
  /\ UNCHANGED <<mainVars, tab, console, clientVars>>

WriteFails(i) ==
  th[i].pc \in {"write1", "write2"} /\ WriteBreaks(newsd[th[i].to])

(* close(newsd_serve[no_client]): not the descriptor of this client. *)
CloseNext(i) ==
  /\ th[i].pc = "leave"
  /\ tab' = [tab EXCEPT ![newsd[noClient]] = "free"]
  /\ Set(i, [th[i] EXCEPT !.pc = "done"])
  /\ UNCHANGED <<mainVars, sem, console, clientVars, streamVars>>

------------------------------------------------------------------------------
Main == ended = "no" /\ (Accept \/ Spawn \/ Count) /\ UNCHANGED ended

Service(i) ==
  /\ ended = "no"
  /\ \/ /\ \/ Start(i)
           \/ EnterRead(i)
           \/ ReadPiece(i)
           \/ ReadTorn(i)
           \/ ReadEnd(i)
           \/ PrintMessage(i)
           \/ SkipSelf(i)
           \/ Acquire(i)
           \/ EndDistribution(i)
           \/ WriteHead(i)
           \/ WriteBody(i)
           \/ CloseNext(i)
        /\ UNCHANGED ended
     \/ ReadFails(i)
     \/ PrintFails(i)
     \/ WriteFails(i)

Client(c) ==
  /\ ended = "no"
  /\ UNCHANGED ended
  /\ \/ Connect(c)
     \/ SendHead(c)
     \/ SendBody(c)
     \/ Receive(c)
     \/ Leave(c)

(* What need not ever happen. *)
Fail ==
  /\ ended = "no"
  /\ \/ AcceptFails
     \/ \E i \in Slots : OutOfMemory(i) \/ CryptoFails(i) \/ GarbageFails(i)

Next ==
  \/ Main
  \/ \E i \in Slots : Service(i)
  \/ \E c \in Clients : Client(c)
  \/ Fail

Spec == Init /\ [][Next]_vars

(* main and the threads run; a client that is in no write of its own reads *)
(* what it gets, and goes on with the write once there is room.  A         *)
(* semaphore that is posted again and again lets every waiter in.          *)
Fairness ==
  /\ WF_vars(Main)
  /\ \A i \in Threads :
       /\ WF_vars(Service(i))
       /\ SF_vars(ended = "no" /\ Acquire(i) /\ UNCHANGED ended)
  /\ \A c \in Clients :
       WF_vars(ended = "no" /\ (Receive(c) \/ SendBody(c)) /\ UNCHANGED ended)

FairSpec == Spec /\ Fairness

------------------------------------------------------------------------------
(* Properties. *)

Running(i) == th[i].pc \notin {"none", "start"}

Holds(i, s) == th[i].pc \in {"write1", "write2"} /\ th[i].to = s

(* locks[]: a thread only waits on a semaphore that main has initialised,  *)
(* the semaphore is 0 exactly while one thread writes to that client and   *)
(* it is never above 1, whatever the threads have read.                    *)
LocksExclusive ==
  \A s \in Slots :
    /\ s < noClient => sem[s] # Uninit
    /\ sem[s] = 0 <=> \E i \in Slots : Holds(i, s)
    /\ \A i, j \in Slots : Holds(i, s) /\ Holds(j, s) => i = j

(* Two threads have got the same number: main stored the next one in       *)
(* client_id before the first thread read it.                              *)
SharedId ==
  \E i, j \in Slots : i # j /\ Running(i) /\ Running(j) /\ th[i].sd = th[j].sd

(* No client is sent one message inside another: in what it gets, every    *)
(* head is followed by the body of the same message.                       *)
WellFramed ==
  \A c \in Clients : \A k \in DOMAIN down[c] :
    /\ down[c][k].part # "raw"
    /\ IF k % 2 = 1
       THEN down[c][k].part = "head"
       ELSE down[c][k].part = "body" /\ down[c][k].msg = down[c][k - 1].msg

(* No message comes back to the client that sent it, and none reaches a    *)
(* client twice.                                                           *)
NoEchoNoDuplicate ==
  \A c \in Clients : \A k \in DOMAIN down[c] :
    /\ down[c][k].msg[1] # c
    /\ \A l \in DOMAIN down[c] :
         down[c][l].msg = down[c][k].msg /\ down[c][l].part = down[c][k].part => l = k

(* insist_write under locks[]: what a client gets are whole messages of     *)
(* the others, each once, as long as every thread has a number of its own. *)
WholeOnce ==
  ~SharedId =>
    /\ \A c \in Clients : \A k \in DOMAIN down[c] : down[c][k].msg # NoMessage
    /\ WellFramed
    /\ NoEchoNoDuplicate

Carries(i) == th[i].pc \in {"body", "print", "dist", "write1", "write2"}

(* Each client gets the messages of another one in the order in which they *)
(* were sent, and no thread has read a part of a frame that another thread *)
(* has the rest of, unless two threads read for one client.                *)
SenderOrder ==
  ~SharedId =>
    /\ \A i \in Slots : Carries(i) => th[i].msg # NoMessage
    /\ \A c \in Clients : \A k, l \in DOMAIN down[c] :
         k < l /\ down[c][k].msg[1] = down[c][l].msg[1] =>
           down[c][k].msg[2] <= down[c][l].msg[2]

(* A message that has been distributed is complete at every client counted *)
(* when its thread leaves the loop, whoever was accepted in the meantime.  *)
HasMessage(s, m) ==
  \E k \in DOMAIN down[tab[newsd[s]]] :
    LET p == down[tab[newsd[s]]][k] IN p.msg = m /\ p.part = "body"

Complete(i) ==
  \A s \in 0 .. noClient - 1 : s # th[i].id => HasMessage(s, th[i].msg)

DistributionComplete ==
  [][~SharedId =>
       \A i \in Slots : th[i].pc = "dist" /\ th'[i].pc = "head" => Complete(i)]_vars

Left == \E c \in Clients : conn[c] \in {"fin", "rst"}

(* With --encrypted, the client in slot s gets what the client in slot r   *)
(* wrote encrypted once for each client up to s: only the first of them    *)
(* has it back after the one decrypt() of get_and_print                    *)
(* (socket-common.c:50).                                                   *)
Layers(r, s) == Cardinality((0 .. s) \ {r})

CopiesLayered ==
  Encrypted /\ ~SharedId /\ ~Left =>
    \A r, s \in 0 .. noClient - 1 : \A k \in DOMAIN down[tab[newsd[s]]] :
      LET p == down[tab[newsd[s]]][k]
      IN p.msg[1] = tab[newsd[r]] => p.depth = Layers(r, s)

(* The server does not end by a read or a write that fails, or a size that *)
(* makes no sense, before a client has left or two threads share a number. *)
EndsForReason == ended \in {"reset", "closed", "garbage"} => Left \/ SharedId

(* Thread i waits for client c, in a write to it or for its semaphore.     *)
WritesTo(i) == IF th[i].pc = "print" THEN 0 ELSE newsd[th[i].to]

WaitsFor(i, c) ==
  /\ th[i].pc \in {"print", "dist", "write1", "write2"}
  /\ tab[WritesTo(i)] = c
  /\ th[i].pc = "dist" =>
       th[i].to < noClient /\ th[i].to # th[i].id /\ sem[th[i].to] = 0

(* Clients that wait in a write of their own, with a frame still to be     *)
(* read, and whose threads, if they have any, all wait for such clients:   *)
(* nothing ever moves there.                                               *)
Serves(i, c) == Running(i) /\ tab[th[i].sd] = c /\ th[i].pc \notin {"leave", "done"}

Blocked(S) ==
  /\ mpc = "accept" /\ backlog = <<>> /\ \A i \in Slots : th[i].pc # "start"
  /\ \A c \in S :
       /\ conn[c] = "open"
       /\ sending[c] # NoMessage /\ Len(up[c]) = Window
       /\ unread[c] = Window
       /\ \A i \in Slots : Serves(i, c) => \E d \in S : WaitsFor(i, d)

Stuck(i) == \E S \in SUBSET Clients : Blocked(S) /\ \E c \in S : WaitsFor(i, c)

(* A thread that has begun to forward a message comes back for the next,   *)
(* unless the process ends or the thread waits for clients that are        *)
(* blocked in a write themselves: for a client that nobody reads from, or  *)
(* for one whose thread waits for the client of this one.                  *)
DistributionEnds ==
  \A i \in Threads : th[i].pc = "dist" ~> (th[i].pc = "head" \/ ended # "no" \/ Stuck(i))

(* A message that has arrived is printed in the end, unless no thread ever *)
(* reads for its client again (its thread was not created or took another  *)
(* number), two threads do, its thread is stuck with an earlier message, a *)
(* client has left (a wrong descriptor may then be closed, the terminal's  *)
(* among them), or accept(), malloc, encrypt() or decrypt() has failed.    *)
Arrived(m) == \E k \in DOMAIN up[m[1]] : up[m[1]][k] = Piece(m, "body", 0)

Printed(m) == \E k \in DOMAIN console : console[k] = m

Unserved(c) == \A i \in Slots : Running(i) => tab[th[i].sd] # c

MessagePrinted ==
  \A m \in Messages :
    Arrived(m) ~>
      \/ Printed(m)
      \/ SharedId \/ Left
      \/ ended \in {"accept", "memory", "crypto"}
      \/ \E i \in Slots : Serves(i, m[1]) /\ Stuck(i)
      \/ [](Unserved(m[1]))

------------------------------------------------------------------------------
(* What comments of the code say and the code does not do. *)


(* socket-server-irc.c:156: "Make sure we don't leak open files": the      *)
(* thread of a client that went away has closed that client's descriptor.  *)
ClosesOwnFile ==
  \A i \in Slots :
    th[i].pc = "done" /\ tab[th[i].sd] \in Clients => conn[tab[th[i].sd]] = "open"
==============================================================================
