-------------------------------- MODULE Chat --------------------------------
(***************************************************************************)
(* socket-server.c and socket-client.c talking to each other.  Both run    *)
(* the same loop: select on the terminal and the socket, hand a typed line *)
(* to my_rlhandler, which writes one message, then read and print one      *)
(* message if select said the socket was readable.  Reads and writes       *)
(* block.  The server has one client at a time; the others wait in the     *)
(* backlog of its socket, connected all the same.                          *)
(*                                                                         *)
(* A message is two pieces of the TCP stream, as in IrcServer; the two     *)
(* ends of a connection are called "server" and "client".                  *)
(***************************************************************************)
EXTENDS Integers, Sequences, FiniteSets

CONSTANTS
  Clients,    \* socket-client processes
  Server,     \* the socket-server process
  Quitters,   \* processes that their user may stop at any moment
  Failing,    \* processes with --encrypted whose calls of /dev/crypto may fail
  MaxLines,   \* bound: lines typed at each terminal
  Window,     \* pieces that fit in one direction of a connection
  Delay,      \* pieces take time to arrive; FALSE: both run on one host
  None

Peers == Clients \cup {Server}
Sides == {"server", "client"}
Ends  == Clients \X Sides

ASSUME ChatAssumption ==
  /\ Server \notin Clients /\ None \notin Peers
  /\ Quitters \subseteq Peers /\ Failing \subseteq Peers
  /\ MaxLines \in Nat /\ Window \in Nat \ {0} /\ Delay \in BOOLEAN

VARIABLES
  pc,       \* where each process is in its loop
  newsd,    \* the client that the server's newsd leads to, or None
  backlog,  \* connections to accept
  typed,    \* lines typed at each terminal so far
  input,    \* how many of them the process has not read
  ready,    \* what select reported
  inbox,    \* the pieces on their way to each end of a connection
  arrived,  \* how many of them the end can read
  open,     \* whether each end has its descriptor open
  rst,      \* whether a connection has been reset
  print     \* how many messages each end has printed

typingVars == <<typed, input>>
linkVars == <<inbox, arrived, open, rst>>
vars == <<pc, newsd, backlog, typingVars, ready, linkVars, print>>

Labels ==
  {"start", "accept", "select", "stdin", "write1", "write2", "sock", "read1", "read2",
   "close", "off"}

Parts == {"head", "body"}

TypeOK ==
  /\ pc \in [Peers -> Labels]
  /\ newsd \in Clients \cup {None}
  /\ backlog \in Seq(Clients)
  /\ typed \in [Peers -> 0 .. MaxLines]
  /\ input \in [Peers -> 0 .. MaxLines]
  /\ ready \in [Peers -> SUBSET {"stdin", "sock"}]
  /\ inbox \in [Ends -> Seq(Parts)]
  /\ arrived \in [Ends -> 0 .. Window]
  /\ open \in [Ends -> BOOLEAN]
  /\ rst \in [Clients -> BOOLEAN]
  /\ print \in [Ends -> 0 .. MaxLines]

Init ==
  /\ pc = [p \in Peers |-> IF p = Server THEN "accept" ELSE "start"]
  /\ newsd = None
  /\ backlog = <<>>
  /\ typed = [p \in Peers |-> 0]
  /\ input = [p \in Peers |-> 0]
  /\ ready = [p \in Peers |-> {}]
  /\ inbox = [e \in Ends |-> <<>>]
  /\ arrived = [e \in Ends |-> 0]
  /\ open = [e \in Ends |-> FALSE]
  /\ rst = [c \in Clients |-> FALSE]
  /\ print = [e \in Ends |-> 0]

Link(p)  == IF p = Server THEN newsd ELSE p
Mine(p)  == <<Link(p), IF p = Server THEN "server" ELSE "client">>
Other(p) == <<Link(p), IF p = Server THEN "client" ELSE "server">>

Goto(p, from, to) ==
  /\ pc[p] = from
  /\ pc' = [pc EXCEPT ![p] = to]

------------------------------------------------------------------------------
(* Connections. *)

Connect(c) ==
  /\ c \in Clients
  /\ pc[Server] # "off"
  /\ Goto(c, "start", "select")
  /\ backlog' = Append(backlog, c)
  /\ open' = [e \in Ends |-> open[e] \/ e[1] = c]
  /\ UNCHANGED <<newsd, typingVars, ready, inbox, arrived, rst, print>>

Accept ==
  /\ Goto(Server, "accept", "select")
  /\ backlog # <<>>
  /\ newsd' = Head(backlog)
  /\ backlog' = Tail(backlog)
  /\ UNCHANGED <<typingVars, ready, linkVars, print>>

(* The descriptors a process has when it ends; the kernel closes them and  *)
(* resets a connection whose end has unread data.                          *)
EndsOf(p) ==
  IF p = Server THEN {<<c, "server">> : c \in Clients} ELSE {<<p, "client">>}

KernelCloses(p) ==
  /\ open' = [e \in Ends |-> open[e] /\ e \notin EndsOf(p)]
  /\ rst' = [c \in Clients |-> rst[c] \/ \E e \in EndsOf(p) :
                                           e[1] = c /\ open[e] /\ inbox'[e] # <<>>]

Die(p) ==
  /\ UNCHANGED <<inbox, arrived>>
  /\ pc' = [pc EXCEPT ![p] = "off"]
  /\ KernelCloses(p)
  /\ UNCHANGED <<newsd, backlog, typingVars, ready, print>>

Quit(p) ==
  /\ p \in Quitters
  /\ pc[p] \notin {"start", "off"}
  /\ Die(p)

------------------------------------------------------------------------------
(* The loop. *)

Type(p) ==
  /\ pc[p] \notin {"start", "off"}
  /\ typed[p] < MaxLines
  /\ typed' = [typed EXCEPT ![p] = @ + 1]
  /\ input' = [input EXCEPT ![p] = @ + 1]
  /\ UNCHANGED <<pc, newsd, backlog, ready, linkVars, print>>

AtEnd(p) == (inbox[Mine(p)] = <<>> /\ ~open[Other(p)]) \/ rst[Link(p)]

(* Variant: FD_SET(newsd, &fds) is not repeated. *)
ReadableTerminal(p) == IF input[p] > 0 THEN {"stdin"} ELSE {}

Readable(p) ==
  {r \in {"stdin", "sock"} :
     \/ r = "stdin" /\ input[p] > 0
     \/ r = "sock" /\ (arrived[Mine(p)] > 0 \/ AtEnd(p))}

Select(p) ==
  /\ Goto(p, "select", "stdin")
  /\ Readable(p) # {}
  /\ ready' = [ready EXCEPT ![p] = Readable(p)]
  /\ UNCHANGED <<newsd, backlog, typingVars, linkVars, print>>

(* rl_callback_read_char: a line that is not empty is sent. *)
ReadLine(p) ==
  /\ "stdin" \in ready[p]
  /\ Goto(p, "stdin", "write1") \/ Goto(p, "stdin", "sock")
  /\ input' = [input EXCEPT ![p] = @ - 1]
  /\ UNCHANGED <<newsd, backlog, typed, ready, linkVars, print>>

NoLine(p) ==
  /\ "stdin" \notin ready[p]
  /\ Goto(p, "stdin", "sock")
  /\ UNCHANGED <<newsd, backlog, typingVars, ready, linkVars, print>>

Writing(p) == pc[p] \in {"write1", "write2"}

(* Variant: "else if (FD_ISSET(newsd, &fds))". *)
WriteThenSelect(p) ==
  /\ Goto(p, "write1", "write2") \/ Goto(p, "write2", "select")
  /\ ~rst[Link(p)]
  /\ open[Other(p)]
  /\ Len(inbox[Other(p)]) < Window
  /\ inbox' = [inbox EXCEPT ![Other(p)] =
                 Append(@, IF pc[p] = "write1" THEN "head" ELSE "body")]
  /\ arrived' = [arrived EXCEPT ![Other(p)] = IF Delay THEN @ ELSE @ + 1]
  /\ UNCHANGED <<newsd, backlog, typingVars, ready, open, rst, print>>

(* insist_write: blocks while the peer's buffer is full; data for a peer   *)
(* that has closed is answered with a reset.                               *)
Write(p) ==
  /\ Goto(p, "write1", "write2") \/ Goto(p, "write2", "sock")
  /\ ~rst[Link(p)]
  /\ \/ /\ open[Other(p)]
        /\ Len(inbox[Other(p)]) < Window
        /\ inbox' = [inbox EXCEPT ![Other(p)] =
                       Append(@, IF pc[p] = "write1" THEN "head" ELSE "body")]
        /\ arrived' = [arrived EXCEPT ![Other(p)] = IF Delay THEN @ ELSE @ + 1]
        /\ UNCHANGED rst
     \/ /\ ~open[Other(p)]
        /\ rst' = [rst EXCEPT ![Link(p)] = TRUE]
        /\ UNCHANGED <<inbox, arrived>>
  /\ UNCHANGED <<newsd, backlog, typingVars, ready, open, print>>

Arrive(e) ==
  /\ arrived[e] < Len(inbox[e])
  /\ arrived' = [arrived EXCEPT ![e] = @ + 1]
  /\ UNCHANGED <<pc, newsd, backlog, typingVars, ready, inbox, open, rst, print>>

(* A failed write: exit(1), or SIGPIPE in the client. *)
WriteFails(p) ==
  /\ Writing(p)
  /\ rst[Link(p)]
  /\ Die(p)

EnterRead(p) ==
  /\ \/ "sock" \in ready[p] /\ Goto(p, "sock", "read1")
     \/ "sock" \notin ready[p] /\ Goto(p, "sock", "select")
  /\ UNCHANGED <<newsd, backlog, typingVars, ready, linkVars, print>>

(* Variants: the body is not read; each part is printed. *)
ReadHeadOnly(p) ==
  /\ Goto(p, "read1", "select")
  /\ arrived[Mine(p)] > 0
  /\ inbox' = [inbox EXCEPT ![Mine(p)] = Tail(@)]
  /\ arrived' = [arrived EXCEPT ![Mine(p)] = @ - 1]
  /\ UNCHANGED <<newsd, backlog, typingVars, ready, open, rst, print>>

ReadPrintsParts(p) ==
  /\ Goto(p, "read1", "read2") \/ Goto(p, "read2", "select")
  /\ arrived[Mine(p)] > 0
  /\ inbox' = [inbox EXCEPT ![Mine(p)] = Tail(@)]
  /\ arrived' = [arrived EXCEPT ![Mine(p)] = @ - 1]
  /\ print' = [print EXCEPT ![Mine(p)] = @ + 1]
  /\ UNCHANGED <<newsd, backlog, typingVars, ready, open, rst>>

(* get_and_print reads the two parts of a message and prints it. *)
Read(p) ==
  /\ Goto(p, "read1", "read2") \/ Goto(p, "read2", "select")
  /\ arrived[Mine(p)] > 0
  /\ inbox' = [inbox EXCEPT ![Mine(p)] = Tail(@)]
  /\ arrived' = [arrived EXCEPT ![Mine(p)] = @ - 1]
  /\ print' = [print EXCEPT ![Mine(p)] = IF pc[p] = "read2" THEN @ + 1 ELSE @]
  /\ UNCHANGED <<newsd, backlog, typingVars, ready, open, rst>>

(* encrypt() ends the process before anything of the message is written,   *)
(* decrypt() once it has been read and before it is printed.               *)
EncryptFails(p) ==
  /\ p \in Failing
  /\ pc[p] = "write1"
  /\ Die(p)

DecryptFails(p) ==
  /\ p \in Failing
  /\ Goto(p, "read2", "off")
  /\ arrived[Mine(p)] > 0
  /\ inbox' = [inbox EXCEPT ![Mine(p)] = Tail(@)]
  /\ arrived' = [arrived EXCEPT ![Mine(p)] = @ - 1]
  /\ KernelCloses(p)
  /\ UNCHANGED <<newsd, backlog, typingVars, ready, print>>

Reading(p) == pc[p] \in {"read1", "read2"}

(* Variant: the end is not noticed. *)
ReadEndIgnored(p) ==
  /\ Goto(p, "read1", "select") \/ Goto(p, "read2", "select")
  /\ inbox[Mine(p)] = <<>>
  /\ ~open[Other(p)]
  /\ ~rst[Link(p)]
  /\ UNCHANGED <<newsd, backlog, typingVars, ready, linkVars, print>>

ReadEnd(p) ==
  /\ Goto(p, "read1", "close") \/ Goto(p, "read2", "close")
  /\ inbox[Mine(p)] = <<>>
  /\ ~open[Other(p)]
  /\ ~rst[Link(p)]
  /\ UNCHANGED <<newsd, backlog, typingVars, ready, linkVars, print>>

ReadFails(p) ==
  /\ Reading(p)
  /\ rst[Link(p)]
  /\ Die(p)

(* The server goes back to accept, the client ends. *)
Close(p) ==
  /\ Goto(p, "close", IF p = Server THEN "accept" ELSE "off")
  /\ open' = [open EXCEPT ![Mine(p)] = FALSE]
  /\ newsd' = IF p = Server THEN None ELSE newsd
  /\ UNCHANGED <<backlog, typingVars, ready, inbox, arrived, rst, print>>

------------------------------------------------------------------------------
Step(p) ==
  \/ Select(p)
  \/ ReadLine(p)
  \/ NoLine(p)
  \/ Write(p)
  \/ WriteFails(p)
  \/ EnterRead(p)
  \/ Read(p)
  \/ ReadEnd(p)
  \/ ReadFails(p)
  \/ Close(p)

(* What may end a process at any time, or never.                           *)
End(p) == Quit(p) \/ EncryptFails(p) \/ DecryptFails(p)

Next ==
  \/ Accept
  \/ \E e \in Ends : Arrive(e)
  \/ \E p \in Peers : Connect(p) \/ Type(p) \/ Step(p) \/ End(p)

Spec == Init /\ [][Next]_vars

(* Processes run and data arrives; nobody has to type, connect, quit or    *)
(* fail.                                                                   *)
Fairness ==
  /\ WF_vars(Accept)
  /\ \A e \in Ends : WF_vars(Arrive(e))
  /\ \A p \in Peers : WF_vars(Step(p))

FairSpec == Spec /\ Fairness

------------------------------------------------------------------------------
(* Properties. *)

Blocked(p) ==
  /\ Writing(p)
  /\ open[Other(p)] /\ ~rst[Link(p)]
  /\ Len(inbox[Other(p)]) = Window

(* On one host, where what is written can be read at once, the server and  *)
(* its client are never both stuck in insist_write, each waiting for the   *)
(* other to read, if a connection holds three messages: an iteration of    *)
(* the loop writes at most one message and reads one that select has seen. *)
MutualBlock == newsd # None /\ Blocked(Server) /\ Blocked(newsd)

NoMutualBlock == ~MutualBlock

(* What an end has read and what waits for it are whole messages, in       *)
(* order: the next piece is the one that get_and_print is about to read.   *)
InStep ==
  \A p \in Peers : Link(p) # None /\ pc[p] # "off" =>
    LET rest == inbox[Mine(p)]
        first == IF pc[p] = "read2" THEN "body" ELSE "head"
    IN \A k \in DOMAIN rest : (rest[k] = first) <=> (k % 2 = 1)

(* What is sent to a process is read in the end, unless one of the two     *)
(* ends, because a user has stopped one or its /dev/crypto has failed, the *)
(* server has another client, or both are stuck writing.                   *)
AllRead ==
  \A c \in Clients : \A s \in Sides :
    inbox[<<c, s>>] # <<>> ~>
      \/ inbox[<<c, s>>] = <<>>
      \/ /\ pc[c] = "off" \/ pc[Server] = "off"
         /\ \E q \in Quitters \cup Failing : pc[q] = "off"
      \/ newsd # c
      \/ MutualBlock

(* When its client goes away the server turns to the next one, unless a    *)
(* broken connection or /dev/crypto has ended it.                          *)
NextServed ==
  \A c \in Clients :
    (newsd = c /\ pc[c] = "off") ~> (newsd # c \/ pc[Server] = "off")
==============================================================================
