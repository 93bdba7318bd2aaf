----------------------------- MODULE ChatProofs -----------------------------
(***************************************************************************)
(* Proofs about Chat for any number of clients and lines and any window.   *)
(* ChatInv is inductive whoever quits or fails and however long pieces     *)
(* travel; NearInv is so on top of it where pieces arrive at once.         *)
(***************************************************************************)
EXTENDS Chat, SequenceTheorems, TLAPS

(* A process in the loop that follows its connection.                       *)
InLoop(p) == pc[p] \notin {"start", "accept", "off"}

(* A client whose connection the server has not accepted yet.               *)
Waiting(c) == \E i \in 1..Len(backlog) : backlog[i] = c

(* Who reads what is on its way to an end, and who writes it, if the        *)
(* descriptor in use leads there.                                           *)
Reader(e) == IF e[2] = "server" THEN Server ELSE e[1]
Writer(e) == IF e[2] = "server" THEN e[1] ELSE Server

(* A reader or a writer is between the two parts of a message.              *)
HalfRead(e)    == Link(Reader(e)) = e[1] /\ pc[Reader(e)] = "read2"
HalfWritten(e) == Link(Writer(e)) = e[1] /\ pc[Writer(e)] = "write2"

(* Pieces that the writer has yet to write of a line it has read.           *)
Owes(e) ==
  IF Link(Writer(e)) # e[1] THEN 0
  ELSE IF pc[Writer(e)] = "write1" THEN 2
  ELSE IF pc[Writer(e)] = "write2" THEN 1 ELSE 0

(* The types that do not depend on how processes go on.                     *)
Types ==
  /\ pc \in [Peers -> Labels]
  /\ newsd \in Clients \cup {None}
  /\ backlog \in Seq(Clients)
  /\ typed \in [Peers -> 0..MaxLines]
  /\ input \in [Peers -> 0..MaxLines]
  /\ ready \in [Peers -> SUBSET {"stdin", "sock"}]
  /\ inbox \in [Ends -> Seq(Parts)]
  /\ arrived \in [Ends -> Nat]
  /\ open \in [Ends -> BOOLEAN]
  /\ rst \in [Clients -> BOOLEAN]
  /\ print \in [Ends -> Nat]

(* What select has reported of the terminal is still there.                 *)
LinesInv ==
  \A p \in Peers :
    /\ input[p] <= typed[p]
    /\ pc[p] = "stdin" /\ "stdin" \in ready[p] => input[p] > 0

(* Whose descriptors are open.  A client connects once, is accepted once    *)
(* and has nothing to read before.                                          *)
LinkInv ==
  /\ pc[Server] # "start"
  /\ pc[Server] = "accept" => newsd = None
  /\ InLoop(Server) => newsd # None
  /\ \A i, j \in 1..Len(backlog) : backlog[i] = backlog[j] => i = j
  /\ \A c \in Clients :
       /\ pc[c] # "accept"
       /\ open[<<c, "client">>] <=> InLoop(c)
       /\ open[<<c, "server">>] <=> pc[Server] # "off" /\ (newsd = c \/ Waiting(c))
       /\ newsd = c => ~Waiting(c)
       /\ pc[c] = "start" => newsd # c /\ ~Waiting(c) /\ inbox[<<c, "server">>] = <<>>
       /\ pc[c] = "start" \/ Waiting(c) =>
            inbox[<<c, "client">>] = <<>> /\ pc[c] # "read2"

(* No more has arrived than was sent, nor was sent than there is room.      *)
BufferInv == \A e \in Ends : arrived[e] <= Len(inbox[e]) /\ Len(inbox[e]) <= Window

(* What an end has printed, read, will read and will be sent of the lines   *)
(* that were read at the other.                                             *)
Half(e) == IF HalfRead(e) THEN 1 ELSE 0

CountInv ==
  \A e \in Ends :
    2 * print[e] + Half(e) + Len(inbox[e]) + Owes(e)
      <= 2 * (typed[Writer(e)] - input[Writer(e)])

(* The parts of a message alternate, from the one that is read next.        *)
First(e) == IF HalfRead(e) THEN "body" ELSE "head"

StreamInv ==
  \A e \in Ends : open[e] =>
    \A k \in 1..Len(inbox[e]) : inbox[e][k] = First(e) <=> k % 2 = 1

(* While both ends are open, a part of a message is missing in the stream   *)
(* only if its writer is about to write it.                                 *)
BothOpen(c) == open[<<c, "server">>] /\ open[<<c, "client">>]

PairInv ==
  \A e \in Ends : BothOpen(e[1]) =>
    ((Len(inbox[e]) + Half(e)) % 2 = 1 <=> HalfWritten(e))

(* The inductive invariant.                                                 *)
ChatInv ==
  /\ Types /\ LinesInv /\ LinkInv /\ BufferInv /\ CountInv
  /\ StreamInv /\ PairInv

(* What the rest of p's iteration can add to the pieces that are in the two *)
(* directions of its connection.                                            *)
Gain(p) ==
  LET sock == "sock" \in ready[p] IN
  CASE pc[p] \in {"stdin", "write1"} -> IF sock THEN 0 ELSE 2
    [] pc[p] = "write2"              -> IF sock THEN -1 ELSE 1
    [] pc[p] = "sock"                -> IF sock THEN -2 ELSE 0
    [] pc[p] = "read1"               -> -2
    [] pc[p] = "read2"               -> -1
    [] OTHER                         -> 0

(* The pieces in both directions of a connection.                           *)
InFlight(c) == Len(inbox[<<c, "server">>]) + Len(inbox[<<c, "client">>])

(* On one host all that was sent has arrived, and while the server talks to *)
(* a client no more is in flight, or will be after the iterations of both,  *)
(* than a full direction and a message each.  A process reads in each       *)
(* iteration unless nothing was there for it when it called select.         *)
AllArrived == \A e \in Ends : arrived[e] = Len(inbox[e])
NotMuch ==
  \A c \in Clients :
    newsd = c /\ BothOpen(c) => InFlight(c) + Gain(Server) + Gain(c) <= Window + 4

NearInv == AllArrived /\ NotMuch

(* A step of p on the ends m and o of its connection adds no more than it   *)
(* was to add, or leaves room for what the other process may add.           *)
AddsLittle(p, m, o) ==
  /\ UNCHANGED <<newsd, open>>
  /\ inbox' \in [Ends -> Seq(Parts)]
  /\ \A q \in Peers \ {p} : ready'[q] = ready[q]
  /\ \A e \in Ends \ {m, o} : inbox'[e] = inbox[e]
  /\ open[o] =>
       \/ Len(inbox'[m]) + Len(inbox'[o]) + Gain(p)'
            <= Len(inbox[m]) + Len(inbox[o]) + Gain(p)
       \/ Len(inbox'[m]) + Len(inbox'[o]) + Gain(p)' <= Window + 2

------------------------------------------------------------------------------
(* A process in its loop has a connection, and two ends of its own.         *)
LEMMA Linked ==
  ASSUME Types, LinkInv, NEW p \in Peers, InLoop(p)
  PROVE  /\ Link(p) \in Clients
         /\ Mine(p) \in Ends /\ Other(p) \in Ends /\ Mine(p) # Other(p)
         /\ Mine(p)[1] = Link(p) /\ Other(p)[1] = Link(p)
         /\ Reader(Mine(p)) = p /\ Writer(Other(p)) = p
         /\ Reader(Other(p)) # p /\ Writer(Mine(p)) # p
         /\ open[Mine(p)]
         /\ BothOpen(Link(p)) <=> open[Other(p)]
         /\ \A e \in Ends : Reader(e) = p /\ Link(p) = e[1] => e = Mine(p)
         /\ \A e \in Ends : Writer(e) = p /\ Link(p) = e[1] => e = Other(p)
<1>1. Server \notin Clients /\ None \notin Clients
  BY ChatAssumption DEF Peers
<1>2. \A e \in Ends : \E c \in Clients, s \in Sides : e = <<c, s>>
  BY DEF Ends
<1>3. CASE p = Server
  <2>1. /\ newsd \in Clients /\ Link(p) = newsd
        /\ Mine(p) = <<newsd, "server">> /\ Other(p) = <<newsd, "client">>
    BY <1>3 DEF Types, LinkInv, Link, Mine, Other
  <2>2. open[Mine(p)]
    BY <1>3, <2>1 DEF LinkInv, InLoop
  <2>3. QED
    BY <1>1, <1>2, <1>3, <2>1, <2>2 DEF Ends, Sides, Reader, Writer, BothOpen
<1>4. CASE p # Server
  <2>1. /\ p \in Clients /\ Link(p) = p
        /\ Mine(p) = <<p, "client">> /\ Other(p) = <<p, "server">>
    BY <1>4 DEF Peers, Link, Mine, Other
  <2>2. open[Mine(p)]
    BY <2>1 DEF LinkInv
  <2>3. QED
    BY <1>1, <1>2, <1>4, <2>1, <2>2 DEF Ends, Sides, Reader, Writer, BothOpen
<1>5. QED
  BY <1>3, <1>4

(* Each end has one reader and one writer.                                  *)
LEMMA EndsArePeers ==
  ASSUME NEW e \in Ends
  PROVE  /\ Reader(e) \in Peers /\ Writer(e) \in Peers /\ Reader(e) # Writer(e)
         /\ e[1] \in Clients /\ (e = <<e[1], "server">> \/ e = <<e[1], "client">>)
BY ChatAssumption DEF Ends, Sides, Reader, Writer, Peers

(* Numbers of pieces are numbers.                                           *)
LEMMA PieceNumbers ==
  ASSUME Types, NEW e \in Ends
  PROVE  /\ Half(e) \in 0..1 /\ Owes(e) \in 0..2
         /\ Len(inbox[e]) \in Nat /\ inbox[e] \in Seq(Parts)
         /\ arrived[e] \in Nat /\ print[e] \in Nat
         /\ typed[Writer(e)] \in Nat /\ input[Writer(e)] \in Nat
<1>1. inbox[e] \in Seq(Parts) /\ arrived[e] \in Nat /\ print[e] \in Nat
  BY DEF Types
<1>2. typed[Writer(e)] \in Nat /\ input[Writer(e)] \in Nat
  BY EndsArePeers, ChatAssumption DEF Types
<1>3. QED
  BY <1>1, <1>2 DEF Half, Owes

(* What a step of process p to l in its loop means for the ends: only what  *)
(* its own two, m to read and o to write, say of it changes.                *)
OnlyOwn(p, l, m, o) ==
  /\ HalfRead(m) <=> pc[p] = "read2"
  /\ HalfRead(m)' <=> l = "read2"
  /\ HalfWritten(o) <=> pc[p] = "write2"
  /\ HalfWritten(o)' <=> l = "write2"
  /\ Owes(o) = (IF pc[p] = "write1" THEN 2 ELSE IF pc[p] = "write2" THEN 1 ELSE 0)
  /\ Owes(o)' = (IF l = "write1" THEN 2 ELSE IF l = "write2" THEN 1 ELSE 0)
  /\ \A e \in Ends : e # m =>
       (HalfRead(e)' <=> HalfRead(e)) /\ Half(e)' = Half(e) /\ First(e)' = First(e)
  /\ \A e \in Ends : e # o =>
       (HalfWritten(e)' <=> HalfWritten(e)) /\ Owes(e)' = Owes(e)

(* It is so of every step that keeps the server's connection.               *)
LEMMA OwnEnds ==
  ASSUME Types, LinkInv, NEW p \in Peers, InLoop(p), NEW l,
         pc' = [pc EXCEPT ![p] = l], UNCHANGED newsd,
         NEW m, m = Mine(p), NEW o, o = Other(p)
  PROVE  OnlyOwn(p, l, m, o)
<1>1. /\ \A q \in Peers : pc'[q] = IF q = p THEN l ELSE pc[q]
      /\ \A q : Link(q)' = Link(q)
  BY DEF Types, Link
<1>2. Reader(m) = p /\ Writer(o) = p /\ Link(p) = m[1] /\ Link(p) = o[1]
  BY Linked
<1>3. \A e : Reader(e)' = Reader(e) /\ Writer(e)' = Writer(e)
  BY DEF Reader, Writer
<1>4. ASSUME NEW e \in Ends, e # m
      PROVE  HalfRead(e)' <=> HalfRead(e)
  BY <1>1, <1>3, <1>4, Linked, EndsArePeers DEF HalfRead
<1>5. ASSUME NEW e \in Ends, e # o
      PROVE  (HalfWritten(e)' <=> HalfWritten(e)) /\ Owes(e)' = Owes(e)
  <2>1. Writer(e) \in Peers /\ ~(Writer(e) = p /\ Link(p) = e[1])
    BY <1>5, Linked, EndsArePeers
  <2>2. CASE Link(Writer(e)) = e[1]
    BY <1>1, <1>3, <2>1, <2>2 DEF HalfWritten, Owes
  <2>3. CASE Link(Writer(e)) # e[1]
    BY <1>1, <1>3, <2>1, <2>3 DEF HalfWritten, Owes
  <2>4. QED
    BY <2>2, <2>3
<1>6. /\ HalfRead(m) <=> pc[p] = "read2"
      /\ HalfRead(m)' <=> l = "read2"
  BY <1>1, <1>2, <1>3 DEF HalfRead
<1>7. /\ HalfWritten(o) <=> pc[p] = "write2"
      /\ HalfWritten(o)' <=> l = "write2"
  BY <1>1, <1>2, <1>3 DEF HalfWritten
<1>8. /\ Owes(o) = (IF pc[p] = "write1" THEN 2 ELSE IF pc[p] = "write2" THEN 1 ELSE 0)
      /\ Owes(o)' = (IF l = "write1" THEN 2 ELSE IF l = "write2" THEN 1 ELSE 0)
  BY <1>1, <1>2, <1>3 DEF Owes
<1>9. \A e \in Ends : e # m => Half(e)' = Half(e) /\ First(e)' = First(e)
  BY <1>4 DEF Half, First
<1>10. QED
  BY <1>4, <1>5, <1>6, <1>7, <1>8, <1>9 DEF OnlyOwn

(* Connections stay what they are when a process goes on in its loop.       *)
LEMMA LoopKeepsLinks ==
  ASSUME Types, LinkInv, NEW p \in Peers, InLoop(p), NEW l \in Labels,
         l \notin {"start", "accept", "off"}, l = "read2" => inbox[Mine(p)] # <<>>,
         pc' = [pc EXCEPT ![p] = l], UNCHANGED <<newsd, backlog, open>>,
         \A e \in Ends \ {Mine(p), Other(p)} : inbox'[e] = inbox[e],
         inbox'[Mine(p)] = inbox[Mine(p)] \/ inbox[Mine(p)] # <<>>
  PROVE  LinkInv'
<1>0. ASSUME NEW c
      PROVE  Waiting(c)' <=> Waiting(c)
  BY DEF Waiting
<1>1. /\ \A q \in Peers : pc'[q] = IF q = p THEN l ELSE pc[q]
      /\ \A c \in Clients : c \in Peers /\ c # Server
      /\ Server \in Peers
  BY ChatAssumption DEF Types, Peers
<1>2. ASSUME NEW c \in Clients, pc'[c] = "start" \/ Waiting(c)
      PROVE  inbox'[<<c, "client">>] = <<>> /\ pc'[c] # "read2"
  <2>1. inbox[<<c, "client">>] = <<>> /\ pc[c] # "read2"
    <3>1. CASE Waiting(c)
      BY <3>1 DEF LinkInv
    <3>2. CASE pc'[c] = "start"
      <4>1. pc[c] = "start"
        BY <1>1, <3>2
      <4>2. QED
        BY <4>1 DEF LinkInv
    <3>3. QED
      BY <1>2, <3>1, <3>2
  <2>2. CASE c = p
    <3>1. Mine(p) = <<c, "client">>
      BY <1>1, <2>2 DEF Mine, Link
    <3>2. QED
      BY <1>1, <2>1, <2>2, <3>1
  <2>3. CASE c # p
    <3>1. Link(p) # c
      <4>1. CASE Waiting(c)
        BY <1>1, <2>3, <4>1 DEF Link, LinkInv
      <4>2. CASE pc'[c] = "start"
        BY <1>1, <2>3, <4>2, ZenonT(40) DEF Link, LinkInv
      <4>3. QED
        BY <1>2, <4>1, <4>2
    <3>2. Mine(p)[1] = Link(p) /\ Other(p)[1] = Link(p)
      BY Linked
    <3>3. <<c, "client">> \in Ends \ {Mine(p), Other(p)}
      BY <3>1, <3>2 DEF Ends, Sides
    <3>4. QED
      BY <1>1, <2>1, <2>3, <3>3
  <2>4. QED
    BY <2>2, <2>3
<1>3. ASSUME NEW c \in Clients, pc'[c] = "start"
      PROVE  newsd # c /\ ~Waiting(c) /\ inbox'[<<c, "server">>] = <<>>
  <2>1. c # p /\ pc[c] = "start"
    BY <1>1, <1>3
  <2>2. newsd # c /\ ~Waiting(c) /\ inbox[<<c, "server">>] = <<>>
    BY <2>1 DEF LinkInv
  <2>3. Mine(p)[1] # c /\ Other(p)[1] # c
    BY <2>1, <2>2, Linked DEF Link
  <2>4. <<c, "server">> \in Ends \ {Mine(p), Other(p)}
    BY <2>3 DEF Ends, Sides
  <2>5. QED
    BY <2>2, <2>4
<1>4. ASSUME NEW c \in Clients
      PROVE  /\ pc'[c] # "accept"
             /\ open'[<<c, "client">>] <=> InLoop(c)'
             /\ open'[<<c, "server">>]
                  <=> pc'[Server] # "off" /\ (newsd' = c \/ Waiting(c)')
             /\ newsd' = c => ~Waiting(c)'
  <2>1. /\ pc[c] # "accept"
        /\ open[<<c, "client">>] <=> InLoop(c)
        /\ open[<<c, "server">>] <=> pc[Server] # "off" /\ (newsd = c \/ Waiting(c))
        /\ newsd = c => ~Waiting(c)
    BY DEF LinkInv
  <2>2. /\ pc'[c] # "accept" /\ (InLoop(c)' <=> InLoop(c))
        /\ pc'[Server] = "off" <=> pc[Server] = "off"
    BY <1>1, <2>1 DEF InLoop
  <2>3. QED
    BY <1>0, <2>1, <2>2
<1>5. /\ pc'[Server] # "start"
      /\ pc'[Server] = "accept" => newsd' = None
      /\ InLoop(Server)' => newsd' # None
  BY <1>1 DEF LinkInv, InLoop
<1>6. QED
  <2>1. \A c \in Clients :
          /\ pc'[c] = "start" => newsd' # c /\ ~Waiting(c)' /\ inbox'[<<c, "server">>] = <<>>
          /\ pc'[c] = "start" \/ Waiting(c)' =>
               inbox'[<<c, "client">>] = <<>> /\ pc'[c] # "read2"
    BY <1>0, <1>2, <1>3, Zenon
  <2>2. \A i, j \in 1..Len(backlog') : backlog'[i] = backlog'[j] => i = j
    BY DEF LinkInv
  <2>3. QED
    BY <1>4, <1>5, <2>1, <2>2 DEF LinkInv

------------------------------------------------------------------------------
(* A step of p in its loop that sends and receives nothing.                 *)
LEMMA SilentKeepsChat ==
  ASSUME ChatInv, NEW p \in Peers, InLoop(p), NEW l \in Labels,
         l \notin {"start", "accept", "off", "write2", "read2"},
         pc[p] \notin {"write1", "write2"},
         pc[p] = "read2" => inbox[Mine(p)] = <<>> /\ ~open[Other(p)],
         pc' = [pc EXCEPT ![p] = l],
         UNCHANGED <<newsd, backlog, typed, inbox, arrived, open, rst, print>>,
         ready' \in [Peers -> SUBSET {"stdin", "sock"}],
         input' \in [Peers -> 0..MaxLines],
         \A q \in Peers : input'[q] = input[q] \/ (q = p /\ input'[q] = input[q] - 1),
         l = "write1" => input'[p] = input[p] - 1,
         LinesInv'
  PROVE  ChatInv'
<1>1. Types /\ LinkInv /\ BufferInv /\ CountInv /\ StreamInv /\ PairInv
  BY DEF ChatInv
<1>2. PICK m, o : m = Mine(p) /\ o = Other(p)
  OBVIOUS
<1>3. /\ m \in Ends /\ o \in Ends /\ m # o /\ Reader(m) = p /\ Writer(o) = p
      /\ BothOpen(m[1]) <=> open[o]
  BY <1>1, <1>2, Linked
<1>4. /\ HalfRead(m) <=> pc[p] = "read2"
      /\ ~HalfRead(m)' /\ ~HalfWritten(o) /\ ~HalfWritten(o)'
      /\ Owes(o) = 0 /\ Owes(o)' = (IF l = "write1" THEN 2 ELSE 0)
      /\ \A e \in Ends : e # m =>
           (HalfRead(e)' <=> HalfRead(e)) /\ Half(e)' = Half(e) /\ First(e)' = First(e)
      /\ \A e \in Ends : e # o =>
           (HalfWritten(e)' <=> HalfWritten(e)) /\ Owes(e)' = Owes(e)
  <2>1. l # "write2" /\ l # "read2" /\ pc[p] # "write1" /\ pc[p] # "write2"
    OBVIOUS
  <2>2. UNCHANGED newsd
    OBVIOUS
  <2>3. OnlyOwn(p, l, m, o)
    BY <1>1, <1>2, <2>2, OwnEnds, Zenon
  <2>4. QED
    BY <2>1, <2>3 DEF OnlyOwn
<1>5. Types'
  BY <1>1 DEF Types
<1>6. LinkInv'
  BY <1>1, LoopKeepsLinks
<1>7. BufferInv'
  BY <1>1 DEF BufferInv
<1>8. CountInv'
  <2> SUFFICES ASSUME NEW e \in Ends
               PROVE  2 * print[e] + Half(e)' + Len(inbox[e]) + Owes(e)'
                        <= 2 * (typed[Writer(e)] - input'[Writer(e)])
    BY DEF CountInv, Writer
  <2>1. 2 * print[e] + Half(e) + Len(inbox[e]) + Owes(e)
          <= 2 * (typed[Writer(e)] - input[Writer(e)])
    BY <1>1 DEF CountInv
  <2>2. PICK P \in Nat, H \in Nat, L \in Nat, O \in Nat, t \in Nat, i \in Nat :
          /\ P = print[e] /\ H = Half(e) /\ L = Len(inbox[e]) /\ O = Owes(e)
          /\ t = typed[Writer(e)] /\ i = input[Writer(e)]
    <3>1. /\ print[e] \in Nat /\ Half(e) \in Nat /\ Len(inbox[e]) \in Nat /\ Owes(e) \in Nat
          /\ typed[Writer(e)] \in Nat /\ input[Writer(e)] \in Nat
      BY <1>1, PieceNumbers
    <3>2. QED
      BY <3>1, Zenon
  <2>b. 2 * P + H + L + O <= 2 * (t - i)
    BY <2>1, <2>2
  <2>3. PICK j \in Nat : j = input'[Writer(e)]
    BY EndsArePeers
  <2>4. PICK h \in Nat : h = Half(e)'
    BY DEF Half
  <2>5. h = H \/ h = 0
    BY <1>4, <2>2, <2>4 DEF Half
  <2>6. j = i \/ j = i - 1
    BY <2>2, <2>3, EndsArePeers
  <2>7. CASE e = o
    <3>1. O = 0 /\ Owes(e)' = (IF l = "write1" THEN 2 ELSE 0)
      BY <1>4, <2>2, <2>7
    <3>2. l = "write1" => j = i - 1
      BY <1>3, <2>2, <2>3, <2>7
    <3>3. PICK k \in {0, 2} : k = Owes(e)' /\ (k = 2 => j = i - 1)
      BY <3>1, <3>2
    <3>4. 2 * P + h + L + k <= 2 * (t - j)
      BY <2>b, <2>5, <2>6, <3>1, <3>3
    <3>5. QED
      BY <2>2, <2>3, <2>4, <3>3, <3>4
  <2>8. CASE e # o
    <3>1. Owes(e)' = O
      BY <1>4, <2>2, <2>8
    <3>2. 2 * P + h + L + O <= 2 * (t - j)
      BY <2>b, <2>5, <2>6
    <3>3. QED
      BY <2>2, <2>3, <2>4, <3>1, <3>2
  <2>9. QED
    BY <2>7, <2>8
<1>9. StreamInv'
  <2> SUFFICES ASSUME NEW e \in Ends, open[e], NEW k \in 1..Len(inbox[e])
               PROVE  inbox[e][k] = First(e)' <=> k % 2 = 1
    BY DEF StreamInv
  <2>1. inbox[e][k] = First(e) <=> k % 2 = 1
    BY <1>1 DEF StreamInv
  <2>2. First(e)' = First(e)
    <3>1. CASE e = m
      <4>1. inbox[e] # <<>>
        OBVIOUS
      <4>2. pc[p] # "read2"
        BY <1>2, <3>1, <4>1
      <4>3. QED
        BY <1>4, <3>1, <4>2 DEF First
    <3>2. QED
      BY <1>4, <3>1
  <2>3. QED
    BY <2>1, <2>2
<1>10. PairInv'
  <2> SUFFICES ASSUME NEW e \in Ends, BothOpen(e[1])
               PROVE  (Len(inbox[e]) + Half(e)') % 2 = 1 <=> HalfWritten(e)'
    BY DEF PairInv, BothOpen
  <2>1. (Len(inbox[e]) + Half(e)) % 2 = 1 <=> HalfWritten(e)
    BY <1>1 DEF PairInv
  <2>2. HalfWritten(e)' <=> HalfWritten(e)
    BY <1>4
  <2>3. Half(e)' = Half(e)
    <3>1. CASE e = m
      <4>1. pc[p] # "read2"
        BY <1>2, <1>3, <3>1
      <4>2. QED
        BY <1>4, <3>1, <4>1 DEF Half
    <3>2. QED
      BY <1>4, <3>1
  <2>4. QED
    BY <2>1, <2>2, <2>3
<1>11. QED
  BY <1>5, <1>6, <1>7, <1>8, <1>9, <1>10 DEF ChatInv

(* Numbers of lines.                                                        *)
LEMMA LineNumbers ==
  ASSUME Types, NEW q \in Peers
  PROVE  input[q] \in 0..MaxLines /\ typed[q] \in 0..MaxLines /\ MaxLines \in Nat
BY ChatAssumption DEF Types

(* select                                                                   *)
LEMMA SelectKeepsChat == ASSUME ChatInv, NEW p \in Peers, Select(p) PROVE ChatInv'
<1>1. Types /\ LinesInv
  BY DEF ChatInv
<1>2. /\ pc[p] = "select" /\ pc' = [pc EXCEPT ![p] = "stdin"]
      /\ ready' = [ready EXCEPT ![p] = Readable(p)]
      /\ UNCHANGED <<newsd, backlog, typed, input, inbox, arrived, open, rst, print>>
  BY DEF Select, Goto, typingVars, linkVars
<1>3. Readable(p) \in SUBSET {"stdin", "sock"} /\ ("stdin" \in Readable(p) => input[p] > 0)
  BY DEF Readable
<1>4. ready' \in [Peers -> SUBSET {"stdin", "sock"}]
  BY <1>1, <1>2, <1>3 DEF Types
<1>5. LinesInv'
  BY <1>1, <1>2, <1>3 DEF Types, LinesInv
<1>6. "stdin" \in Labels /\ InLoop(p) /\ input' \in [Peers -> 0..MaxLines]
  BY <1>1, <1>2 DEF Labels, InLoop, Types
<1>7. QED
  BY <1>2, <1>4, <1>5, <1>6, SilentKeepsChat

(* rl_callback_read_char                                                    *)
LEMMA ReadLineKeepsChat == ASSUME ChatInv, NEW p \in Peers, ReadLine(p) PROVE ChatInv'
<1>1. Types /\ LinesInv
  BY DEF ChatInv
<1>2. PICK l \in {"write1", "sock"} :
        /\ pc[p] = "stdin" /\ pc' = [pc EXCEPT ![p] = l]
        /\ input' = [input EXCEPT ![p] = @ - 1] /\ "stdin" \in ready[p]
        /\ UNCHANGED <<newsd, backlog, typed, ready, inbox, arrived, open, rst, print>>
  BY DEF ReadLine, Goto, linkVars
<1>3. \A q \in Peers : /\ input[q] \in 0..MaxLines /\ typed[q] \in Nat
                       /\ input[q] <= typed[q]
                       /\ input'[q] = IF q = p THEN input[q] - 1 ELSE input[q]
  BY <1>1, <1>2, LineNumbers DEF LinesInv, Types
<1>4. input[p] > 0
  BY <1>1, <1>2 DEF LinesInv
<1>5. input' \in [Peers -> 0..MaxLines]
  <2>1. \A q \in Peers : input'[q] \in 0..MaxLines
    BY <1>3, <1>4, ChatAssumption
  <2>2. DOMAIN input' = Peers /\ input' = [q \in Peers |-> input'[q]]
    BY <1>1, <1>2 DEF Types
  <2>3. QED
    BY <2>1, <2>2
<1>6. LinesInv'
  <2> SUFFICES ASSUME NEW q \in Peers
               PROVE  /\ input'[q] <= typed[q]
                      /\ pc'[q] = "stdin" /\ "stdin" \in ready[q] => input'[q] > 0
    BY <1>2 DEF LinesInv
  <2>1. input'[q] <= typed[q]
    BY <1>3
  <2>2. CASE q = p
    BY <1>1, <1>2, <2>1, <2>2 DEF Types
  <2>3. CASE q # p
    BY <1>1, <1>2, <1>3, <2>1, <2>3 DEF Types, LinesInv
  <2>4. QED
    BY <2>2, <2>3
<1>7. /\ l \in Labels /\ InLoop(p) /\ ready' \in [Peers -> SUBSET {"stdin", "sock"}]
      /\ l \notin {"start", "accept", "off", "write2", "read2"}
      /\ pc[p] \notin {"write1", "write2"} /\ pc[p] # "read2"
  BY <1>1, <1>2 DEF Labels, InLoop, Types
<1>8. \A q \in Peers : input'[q] = input[q] \/ (q = p /\ input'[q] = input[q] - 1)
  BY <1>3
<1>9. input'[p] = input[p] - 1
  BY <1>3
<1>10. QED
  BY <1>2, <1>5, <1>6, <1>7, <1>8, <1>9, SilentKeepsChat

(* No line was read: what was read and typed stays as it is.                *)
LEMMA LinesStay ==
  ASSUME Types, LinesInv, NEW p, NEW l, l # "stdin",
         pc' = [pc EXCEPT ![p] = l], UNCHANGED <<typed, input, ready>>
  PROVE  LinesInv'
BY DEF Types, LinesInv

(* The steps between: nothing typed, what select reported, the end seen.    *)
LEMMA NoLineKeepsChat ==
  ASSUME ChatInv, NEW p \in Peers, NoLine(p) \/ EnterRead(p) \/ ReadEnd(p)
  PROVE  ChatInv'
<1>1. Types /\ LinesInv
  BY DEF ChatInv
<1>2. PICK l \in {"sock", "read1", "select", "close"} :
        /\ pc[p] \in {"stdin", "sock", "read1", "read2"} /\ pc' = [pc EXCEPT ![p] = l]
        /\ pc[p] = "read2" => inbox[Mine(p)] = <<>> /\ ~open[Other(p)]
        /\ UNCHANGED <<newsd, backlog, typed, input, ready, inbox, arrived, open, rst, print>>
  BY DEF NoLine, EnterRead, ReadEnd, Goto, typingVars, linkVars
<1>3. LinesInv'
  BY <1>1, <1>2, LinesStay
<1>4. /\ l \in Labels /\ InLoop(p) /\ ready' \in [Peers -> SUBSET {"stdin", "sock"}]
      /\ input' \in [Peers -> 0..MaxLines]
      /\ l \notin {"start", "accept", "off", "write2", "read2"} /\ l # "write1"
      /\ pc[p] \notin {"write1", "write2"}
  BY <1>1, <1>2 DEF Labels, InLoop, Types
<1>5. QED
  BY <1>2, <1>3, <1>4, SilentKeepsChat

------------------------------------------------------------------------------
(* Every second number is odd.                                              *)
LEMMA Parity ==
  ASSUME NEW n \in Nat
  PROVE  /\ (n + 1) % 2 = 1 <=> ~(n % 2 = 1)
         /\ (n + 2) % 2 = 1 <=> n % 2 = 1
OBVIOUS

(* A piece is sent.                                                         *)
LEMMA SendKeepsChat ==
  ASSUME ChatInv, NEW p \in Peers, pc[p] \in {"write1", "write2"},
         NEW l, l = (IF pc[p] = "write1" THEN "write2" ELSE "sock"),
         NEW x, x = (IF pc[p] = "write1" THEN "head" ELSE "body"),
         pc' = [pc EXCEPT ![p] = l],
         open[Other(p)], Len(inbox[Other(p)]) < Window,
         inbox' = [inbox EXCEPT ![Other(p)] = Append(@, x)],
         arrived' = [arrived EXCEPT ![Other(p)] = IF Delay THEN @ ELSE @ + 1],
         UNCHANGED <<newsd, backlog, typed, input, ready, open, rst, print>>
  PROVE  ChatInv'
<1>1. Types /\ LinesInv /\ LinkInv /\ BufferInv /\ CountInv /\ StreamInv /\ PairInv
  BY DEF ChatInv
<1>2. PICK m, o : m = Mine(p) /\ o = Other(p)
  OBVIOUS
<1>3. InLoop(p)
  BY DEF InLoop
<1>4. /\ m \in Ends /\ o \in Ends /\ m # o /\ Reader(m) = p /\ Writer(o) = p
      /\ BothOpen(o[1])
  BY <1>1, <1>2, <1>3, Linked
<1>5. OnlyOwn(p, l, m, o)
  <2>1. UNCHANGED newsd
    OBVIOUS
  <2>2. QED
    BY <1>1, <1>2, <1>3, <2>1, OwnEnds, Zenon
<1>6. /\ l \in {"write2", "sock"} /\ (l = "write2" <=> pc[p] = "write1")
      /\ (x = "body" <=> pc[p] = "write2") /\ x \in {"head", "body"} /\ pc[p] # "read2"
  OBVIOUS
<1>7. /\ \A e \in Ends : /\ First(e)' = First(e) /\ Half(e)' = Half(e)
                         /\ HalfRead(e)' <=> HalfRead(e)
      /\ HalfWritten(o) <=> pc[p] = "write2"
      /\ HalfWritten(o)' <=> pc[p] = "write1"
      /\ Owes(o) = (IF pc[p] = "write1" THEN 2 ELSE 1)
      /\ Owes(o)' = (IF pc[p] = "write1" THEN 1 ELSE 0)
      /\ \A e \in Ends : e # o =>
           (HalfWritten(e)' <=> HalfWritten(e)) /\ Owes(e)' = Owes(e)
  <2>1. ~HalfRead(m) /\ ~HalfRead(m)'
    BY <1>5, <1>6 DEF OnlyOwn
  <2>2. First(m)' = First(m) /\ Half(m)' = Half(m) /\ (HalfRead(m)' <=> HalfRead(m))
    BY <2>1 DEF First, Half
  <2>3. QED
    BY <1>5, <1>6, <2>2 DEF OnlyOwn
<1>8. PICK L \in Nat : L = Len(inbox[o]) /\ L < Window /\ inbox[o] \in Seq(Parts)
  BY <1>1, <1>2, <1>4, PieceNumbers
<1>9. /\ Len(inbox'[o]) = L + 1 /\ inbox'[o] \in Seq(Parts) /\ inbox'[o][L + 1] = x
      /\ \A k \in 1..L : inbox'[o][k] = inbox[o][k]
      /\ \A e \in Ends : e # o => inbox'[e] = inbox[e]
  <2>1. inbox'[o] = Append(inbox[o], x) /\ x \in Parts
    BY <1>1, <1>2, <1>4, <1>6 DEF Types, Parts
  <2>2. \A e \in Ends : e # o => inbox'[e] = inbox[e]
    BY <1>1, <1>2 DEF Types
  <2>3. QED
    BY <1>8, <2>1, <2>2
<1>10. Types'
  <2>1. inbox' \in [Ends -> Seq(Parts)]
    BY <1>1, <1>2, <1>4, <1>9 DEF Types
  <2>2. arrived' \in [Ends -> Nat]
    <3>1. PICK a \in Nat : a = IF Delay THEN arrived[o] ELSE arrived[o] + 1
      BY <1>1, <1>4 DEF Types
    <3>2. arrived' = [arrived EXCEPT ![o] = a]
      BY <1>2, <3>1
    <3>3. QED
      BY <1>1, <3>2 DEF Types
  <2>3. pc' \in [Peers -> Labels]
    BY <1>1, <1>6 DEF Types, Labels
  <2>4. QED
    BY <1>1, <2>1, <2>2, <2>3 DEF Types
<1>11. LinesInv'
  <2>1. l # "stdin" /\ UNCHANGED <<typed, input, ready>>
    BY <1>6
  <2>2. QED
    BY <1>1, <2>1, LinesStay
<1>12. LinkInv'
  <2>1. /\ l \in Labels /\ l \notin {"start", "accept", "off"} /\ l # "read2"
        /\ inbox'[Mine(p)] = inbox[Mine(p)]
        /\ \A e \in Ends \ {Mine(p), Other(p)} : inbox'[e] = inbox[e]
        /\ UNCHANGED <<newsd, backlog, open>>
    BY <1>2, <1>4, <1>6, <1>9 DEF Labels
  <2>2. QED
    BY <1>1, <1>3, <2>1, LoopKeepsLinks
<1>13. BufferInv'
  <2> SUFFICES ASSUME NEW e \in Ends
               PROVE  arrived'[e] <= Len(inbox'[e]) /\ Len(inbox'[e]) <= Window
    BY DEF BufferInv
  <2>1. arrived[e] <= Len(inbox[e]) /\ Len(inbox[e]) <= Window
    BY <1>1 DEF BufferInv
  <2>2. CASE e = o
    <3>1. PICK a \in Nat : a = arrived[o]
      BY <1>1, <1>4, PieceNumbers
    <3>2. arrived'[o] = a \/ arrived'[o] = a + 1
      BY <1>1, <1>2, <1>4, <3>1 DEF Types
    <3>3. Window \in Nat
      BY ChatAssumption
    <3>4. a <= L
      BY <1>8, <2>1, <2>2, <3>1
    <3>5. QED
      BY <1>8, <1>9, <2>2, <3>2, <3>3, <3>4
  <2>3. CASE e # o
    BY <1>1, <1>2, <1>9, <2>1, <2>3 DEF Types
  <2>4. QED
    BY <2>2, <2>3
<1>14. CountInv'
  <2> SUFFICES ASSUME NEW e \in Ends
               PROVE  2 * print[e] + Half(e)' + Len(inbox'[e]) + Owes(e)'
                        <= 2 * (typed[Writer(e)] - input[Writer(e)])
    BY DEF CountInv, Writer
  <2>1. 2 * print[e] + Half(e) + Len(inbox[e]) + Owes(e)
          <= 2 * (typed[Writer(e)] - input[Writer(e)])
    BY <1>1 DEF CountInv
  <2>2. CASE e = o
    <3>1. PICK P \in Nat, H \in Nat, t \in Nat, i \in Nat :
            P = print[e] /\ H = Half(e) /\ t = typed[Writer(e)] /\ i = input[Writer(e)]
      <4>1. /\ print[e] \in Nat /\ Half(e) \in Nat
            /\ typed[Writer(e)] \in Nat /\ input[Writer(e)] \in Nat
        BY <1>1, PieceNumbers
      <4>2. QED
        BY <4>1, Zenon
    <3>2. PICK O \in 1..2 : O = Owes(o) /\ O - 1 = Owes(o)'
      BY <1>7
    <3>3. 2 * P + H + L + O <= 2 * (t - i)
      BY <1>8, <2>1, <2>2, <3>1, <3>2
    <3>4. 2 * P + H + (L + 1) + (O - 1) <= 2 * (t - i)
      BY <3>3
    <3>5. QED
      BY <1>7, <1>9, <2>2, <3>1, <3>2, <3>4
  <2>3. CASE e # o
    BY <1>7, <1>9, <2>1, <2>3
  <2>4. QED
    BY <2>2, <2>3
<1>15. (L + Half(o)) % 2 = 1 <=> pc[p] = "write2"
  BY <1>1, <1>4, <1>7, <1>8 DEF PairInv
<1>16. StreamInv'
  <2> SUFFICES ASSUME NEW e \in Ends, open[e], NEW k \in 1..Len(inbox'[e])
               PROVE  inbox'[e][k] = First(e)' <=> k % 2 = 1
    BY DEF StreamInv
  <2>1. \A i \in 1..Len(inbox[e]) : inbox[e][i] = First(e) <=> i % 2 = 1
    BY <1>1 DEF StreamInv
  <2>2. CASE e = o /\ k <= L
    BY <1>7, <1>8, <1>9, <2>1, <2>2
  <2>3. CASE e = o /\ k > L
    <3>1. k = L + 1
      BY <1>9, <2>3
    <3>2. CASE HalfRead(o)
      <4>1. Half(o) = 1 /\ First(o) = "body"
        BY <3>2 DEF Half, First
      <4>2. QED
        BY <1>6, <1>7, <1>9, <1>15, <2>3, <3>1, <4>1
    <3>3. CASE ~HalfRead(o)
      <4>1. Half(o) = 0 /\ First(o) = "head"
        BY <3>3 DEF Half, First
      <4>2. L % 2 = 1 <=> pc[p] = "write2"
        BY <1>15, <4>1
      <4>3. (L + 1) % 2 = 1 <=> ~(L % 2 = 1)
        BY Parity
      <4>4. QED
        BY <1>6, <1>7, <1>9, <2>3, <3>1, <4>1, <4>2, <4>3
    <3>4. QED
      BY <3>2, <3>3
  <2>4. CASE e # o
    BY <1>7, <1>9, <2>1, <2>4
  <2>5. QED
    BY <1>9, <2>2, <2>3, <2>4
<1>17. PairInv'
  <2> SUFFICES ASSUME NEW e \in Ends, BothOpen(e[1])
               PROVE  (Len(inbox'[e]) + Half(e)') % 2 = 1 <=> HalfWritten(e)'
    BY DEF PairInv, BothOpen
  <2>1. (Len(inbox[e]) + Half(e)) % 2 = 1 <=> HalfWritten(e)
    BY <1>1 DEF PairInv
  <2>2. CASE e = o
    <3>1. PICK n \in Nat : n = L + Half(o) /\ L + 1 + Half(o) = n + 1
      <4>1. PICK H \in Nat : H = Half(o)
        BY DEF Half
      <4>2. L + H \in Nat /\ L + 1 + H = (L + H) + 1
        OBVIOUS
      <4>3. QED
        BY <4>1, <4>2, Zenon
    <3>2. (n + 1) % 2 = 1 <=> ~(n % 2 = 1)
      BY Parity
    <3>3. QED
      BY <1>7, <1>9, <1>15, <2>2, <3>1, <3>2
  <2>3. CASE e # o
    BY <1>7, <1>9, <2>1, <2>3
  <2>4. QED
    BY <2>2, <2>3
<1>18. QED
  BY <1>10, <1>11, <1>12, <1>13, <1>14, <1>16, <1>17 DEF ChatInv

(* insist_write, also to a peer that has closed.                            *)
LEMMA WriteKeepsChat == ASSUME ChatInv, NEW p \in Peers, Write(p) PROVE ChatInv'
<1>1. CASE open[Other(p)]
  <2>1. PICK l, x :
          /\ pc[p] \in {"write1", "write2"}
          /\ l = (IF pc[p] = "write1" THEN "write2" ELSE "sock")
          /\ x = (IF pc[p] = "write1" THEN "head" ELSE "body")
          /\ pc' = [pc EXCEPT ![p] = l]
          /\ inbox' = [inbox EXCEPT ![Other(p)] = Append(@, x)]
    BY <1>1 DEF Write, Goto
  <2>2. /\ Len(inbox[Other(p)]) < Window
        /\ arrived' = [arrived EXCEPT ![Other(p)] = IF Delay THEN @ ELSE @ + 1]
        /\ UNCHANGED <<newsd, backlog, typed, input, ready, open, rst, print>>
    BY <1>1 DEF Write, typingVars
  <2>3. QED
    BY <1>1, <2>1, <2>2, SendKeepsChat
<1>2. CASE ~open[Other(p)]
  <2>1. PICK l :
          /\ pc[p] \in {"write1", "write2"}
          /\ l = (IF pc[p] = "write1" THEN "write2" ELSE "sock")
          /\ pc' = [pc EXCEPT ![p] = l]
          /\ rst' = [rst EXCEPT ![Link(p)] = TRUE]
          /\ UNCHANGED <<newsd, backlog, typed, input, ready, inbox, arrived, open, print>>
    BY <1>2 DEF Write, Goto, typingVars
  <2>2. Types /\ LinesInv /\ LinkInv /\ BufferInv /\ CountInv /\ StreamInv /\ PairInv
    BY DEF ChatInv
  <2>3. PICK m, o : m = Mine(p) /\ o = Other(p)
    OBVIOUS
  <2>4. InLoop(p)
    BY <2>1 DEF InLoop
  <2>5. m \in Ends /\ o \in Ends /\ m # o /\ (BothOpen(o[1]) <=> open[o]) /\ m[1] = o[1]
    BY <2>2, <2>3, <2>4, Linked
  <2>6. OnlyOwn(p, l, m, o)
    <3>1. UNCHANGED newsd /\ pc' = [pc EXCEPT ![p] = l]
      BY <2>1
    <3>2. QED
      BY <2>2, <2>3, <2>4, <3>1, OwnEnds, Zenon
  <2>7. /\ \A e \in Ends : First(e)' = First(e) /\ Half(e)' = Half(e)
        /\ Owes(o) \in 1..2 /\ Owes(o)' = Owes(o) - 1
        /\ \A e \in Ends : e # o =>
             (HalfWritten(e)' <=> HalfWritten(e)) /\ Owes(e)' = Owes(e)
    <3>1. ~HalfRead(m) /\ ~HalfRead(m)' /\ Owes(o) \in 1..2 /\ Owes(o)' = Owes(o) - 1
      BY <2>1, <2>6 DEF OnlyOwn
    <3>2. First(m)' = First(m) /\ Half(m)' = Half(m)
      BY <3>1 DEF First, Half
    <3>3. QED
      BY <2>6, <3>1, <3>2 DEF OnlyOwn
  <2>8. Types'
    <3>1. pc' \in [Peers -> Labels]
      BY <2>1, <2>2 DEF Types, Labels
    <3>2. rst' \in [Clients -> BOOLEAN]
      BY <2>1, <2>2 DEF Types
    <3>3. QED
      BY <2>1, <2>2, <3>1, <3>2 DEF Types
  <2>9. LinesInv'
    <3>1. l # "stdin" /\ UNCHANGED <<typed, input, ready>> /\ pc' = [pc EXCEPT ![p] = l]
      BY <2>1
    <3>2. QED
      BY <2>2, <3>1, LinesStay
  <2>10. LinkInv'
    <3>1. /\ l \in Labels /\ l \notin {"start", "accept", "off"} /\ l # "read2"
          /\ inbox'[Mine(p)] = inbox[Mine(p)] /\ pc' = [pc EXCEPT ![p] = l]
          /\ \A e \in Ends \ {Mine(p), Other(p)} : inbox'[e] = inbox[e]
          /\ UNCHANGED <<newsd, backlog, open>>
      BY <2>1 DEF Labels
    <3>2. QED
      BY <2>2, <2>4, <3>1, LoopKeepsLinks
  <2>11. BufferInv'
    BY <2>1, <2>2 DEF BufferInv
  <2>12. CountInv'
    <3> SUFFICES ASSUME NEW e \in Ends
                 PROVE  2 * print[e] + Half(e)' + Len(inbox[e]) + Owes(e)'
                          <= 2 * (typed[Writer(e)] - input[Writer(e)])
      BY <2>1 DEF CountInv, Writer
    <3>1. 2 * print[e] + Half(e) + Len(inbox[e]) + Owes(e)
            <= 2 * (typed[Writer(e)] - input[Writer(e)])
      BY <2>2 DEF CountInv
    <3>2. CASE e # o
      BY <2>7, <3>1, <3>2
    <3>3. CASE e = o
      <4>1. PICK P \in Nat, H \in Nat, L \in Nat, t \in Nat, i \in Nat :
              /\ P = print[e] /\ H = Half(e) /\ L = Len(inbox[e])
              /\ t = typed[Writer(e)] /\ i = input[Writer(e)]
        <5>1. /\ print[e] \in Nat /\ Half(e) \in Nat /\ Len(inbox[e]) \in Nat
              /\ typed[Writer(e)] \in Nat /\ input[Writer(e)] \in Nat
          BY <2>2, PieceNumbers
        <5>2. QED
          BY <5>1, Zenon
      <4>2. PICK O \in 1..2 : O = Owes(o) /\ O - 1 = Owes(o)'
        BY <2>7
      <4>3. 2 * P + H + L + O <= 2 * (t - i)
        BY <3>1, <3>3, <4>1, <4>2
      <4>4. 2 * P + H + L + (O - 1) <= 2 * (t - i)
        BY <4>3
      <4>5. QED
        BY <2>7, <3>3, <4>1, <4>2, <4>4
    <3>4. QED
      BY <3>2, <3>3
  <2>13. StreamInv'
    BY <2>1, <2>2, <2>7 DEF StreamInv
  <2>14. PairInv'
    <3> SUFFICES ASSUME NEW e \in Ends, BothOpen(e[1])
                 PROVE  (Len(inbox[e]) + Half(e)') % 2 = 1 <=> HalfWritten(e)'
      BY <2>1 DEF PairInv, BothOpen
    <3>1. (Len(inbox[e]) + Half(e)) % 2 = 1 <=> HalfWritten(e)
      BY <2>2 DEF PairInv
    <3>2. e # o
      BY <1>2, <2>3, <2>5
    <3>3. QED
      BY <2>7, <3>1, <3>2
  <2>15. QED
    BY <2>8, <2>9, <2>10, <2>11, <2>12, <2>13, <2>14 DEF ChatInv
<1>3. QED
  BY <1>1, <1>2

(* get_and_print: a piece is read.                                          *)
LEMMA ReadKeepsChat == ASSUME ChatInv, NEW p \in Peers, Read(p) PROVE ChatInv'
<1>1. Types /\ LinesInv /\ LinkInv /\ BufferInv /\ CountInv /\ StreamInv /\ PairInv
  BY DEF ChatInv
<1>2. PICK m, o : m = Mine(p) /\ o = Other(p)
  OBVIOUS
<1>3. PICK l \in {"read2", "select"} :
        /\ pc[p] \in {"read1", "read2"} /\ (l = "read2" <=> pc[p] = "read1")
        /\ pc' = [pc EXCEPT ![p] = l]
        /\ arrived[m] > 0
        /\ inbox' = [inbox EXCEPT ![m] = Tail(@)]
        /\ arrived' = [arrived EXCEPT ![m] = @ - 1]
        /\ print' = [print EXCEPT ![m] = IF pc[p] = "read2" THEN @ + 1 ELSE @]
        /\ UNCHANGED <<newsd, backlog, typed, input, ready, open, rst>>
  BY <1>2 DEF Read, Goto, typingVars
<1>4. /\ InLoop(p) /\ l \in Labels /\ l \notin {"start", "accept", "off"}
      /\ pc' = [pc EXCEPT ![p] = l] /\ UNCHANGED newsd
  BY <1>3 DEF InLoop, Labels
<1>5. m \in Ends /\ o \in Ends /\ m # o /\ m[1] = o[1]
  BY <1>1, <1>2, <1>4, Linked
<1>6. OnlyOwn(p, l, m, o)
  BY <1>1, <1>2, <1>4, OwnEnds, Zenon
<1>7. /\ First(m) # First(m)' /\ First(m) \in Parts /\ First(m)' \in Parts
      /\ Half(m) = (IF pc[p] = "read2" THEN 1 ELSE 0)
      /\ Half(m)' = (IF pc[p] = "read2" THEN 0 ELSE 1)
      /\ \A e \in Ends : e # m => First(e)' = First(e) /\ Half(e)' = Half(e)
      /\ \A e \in Ends : (HalfWritten(e)' <=> HalfWritten(e)) /\ Owes(e)' = Owes(e)
  <2>1. /\ HalfRead(m) <=> pc[p] = "read2"
        /\ HalfRead(m)' <=> pc[p] # "read2"
        /\ ~HalfWritten(o) /\ ~HalfWritten(o)' /\ Owes(o) = 0 /\ Owes(o)' = 0
    BY <1>3, <1>6 DEF OnlyOwn
  <2>2. QED
    BY <1>6, <2>1 DEF OnlyOwn, First, Half, Parts
<1>8. PICK L \in Nat, a \in Nat :
        L = Len(inbox[m]) /\ a = arrived[m] /\ 0 < a /\ a <= L /\ L <= Window
  <2>1. PICK L \in Nat, a \in Nat : L = Len(inbox[m]) /\ a = arrived[m]
    BY <1>1, <1>5, PieceNumbers
  <2>2. 0 < a /\ a <= L /\ L <= Window
    BY <1>1, <1>3, <1>5, <2>1 DEF BufferInv
  <2>3. QED
    BY <2>1, <2>2
<1>9. /\ Len(inbox'[m]) = L - 1 /\ inbox'[m] \in Seq(Parts)
      /\ \A k \in 1..L - 1 : inbox'[m][k] = inbox[m][k + 1]
      /\ \A e \in Ends : e # m => inbox'[e] = inbox[e]
  <2>1. inbox'[m] = Tail(inbox[m]) /\ inbox[m] \in Seq(Parts)
    BY <1>1, <1>3, <1>5 DEF Types
  <2>2. \A e \in Ends : e # m => inbox'[e] = inbox[e]
    BY <1>1, <1>3 DEF Types
  <2>3. inbox[m] # <<>>
    BY <1>8, <2>1
  <2>4. QED
    BY <1>8, <2>1, <2>2, <2>3
<1>10. Types'
  <2>1. inbox' \in [Ends -> Seq(Parts)]
    BY <1>1, <1>3, <1>9 DEF Types
  <2>2. arrived' \in [Ends -> Nat]
    <3>1. arrived' = [arrived EXCEPT ![m] = a - 1] /\ a - 1 \in Nat
      BY <1>3, <1>8
    <3>2. QED
      BY <1>1, <3>1 DEF Types
  <2>3. print' \in [Ends -> Nat]
    <3>1. PICK n \in Nat : n = IF pc[p] = "read2" THEN print[m] + 1 ELSE print[m]
      BY <1>1, <1>5 DEF Types
    <3>2. print' = [print EXCEPT ![m] = n]
      BY <1>3, <3>1
    <3>3. QED
      BY <1>1, <3>2 DEF Types
  <2>4. pc' \in [Peers -> Labels]
    BY <1>1, <1>4 DEF Types
  <2>5. QED
    BY <1>1, <1>3, <2>1, <2>2, <2>3, <2>4 DEF Types
<1>11. LinesInv'
  <2>1. l # "stdin" /\ UNCHANGED <<typed, input, ready>>
    BY <1>3
  <2>2. QED
    BY <1>1, <1>4, <2>1, LinesStay
<1>12. LinkInv'
  <2>1. /\ inbox[Mine(p)] # <<>>
        /\ \A e \in Ends \ {Mine(p), Other(p)} : inbox'[e] = inbox[e]
        /\ UNCHANGED <<newsd, backlog, open>>
    BY <1>2, <1>3, <1>8, <1>9
  <2>2. QED
    BY <1>1, <1>4, <2>1, LoopKeepsLinks
<1>13. BufferInv'
  <2> SUFFICES ASSUME NEW e \in Ends
               PROVE  arrived'[e] <= Len(inbox'[e]) /\ Len(inbox'[e]) <= Window
    BY DEF BufferInv
  <2>1. arrived[e] <= Len(inbox[e]) /\ Len(inbox[e]) <= Window
    BY <1>1 DEF BufferInv
  <2>2. CASE e = m
    <3>1. arrived'[m] = a - 1
      BY <1>1, <1>3, <1>5, <1>8 DEF Types
    <3>2. Window \in Nat
      BY ChatAssumption
    <3>3. a - 1 <= L - 1 /\ L - 1 <= Window
      BY <1>8, <3>2
    <3>4. QED
      BY <1>9, <2>2, <3>1, <3>3
  <2>3. CASE e # m
    BY <1>1, <1>3, <1>9, <2>1, <2>3 DEF Types
  <2>4. QED
    BY <2>2, <2>3
<1>14. CountInv'
  <2> SUFFICES ASSUME NEW e \in Ends
               PROVE  2 * print'[e] + Half(e)' + Len(inbox'[e]) + Owes(e)'
                        <= 2 * (typed[Writer(e)] - input[Writer(e)])
    BY <1>3 DEF CountInv, Writer
  <2>1. 2 * print[e] + Half(e) + Len(inbox[e]) + Owes(e)
          <= 2 * (typed[Writer(e)] - input[Writer(e)])
    BY <1>1 DEF CountInv
  <2>2. CASE e = m
    <3>1. PICK P \in Nat, O \in Nat, t \in Nat, i \in Nat :
            P = print[e] /\ O = Owes(e) /\ t = typed[Writer(e)] /\ i = input[Writer(e)]
      <4>1. /\ print[e] \in Nat /\ Owes(e) \in Nat
            /\ typed[Writer(e)] \in Nat /\ input[Writer(e)] \in Nat
        BY <1>1, PieceNumbers
      <4>2. QED
        BY <4>1, Zenon
    <3>2. PICK H \in 0..1 : H = Half(m) /\ 1 - H = Half(m)'
      BY <1>7
    <3>3. 2 * P + H + L + O <= 2 * (t - i)
      BY <1>8, <2>1, <2>2, <3>1, <3>2
    <3>4. print'[m] = P + H
      <4>1. print'[m] = IF pc[p] = "read2" THEN P + 1 ELSE P
        BY <1>1, <1>3, <1>5, <2>2, <3>1 DEF Types
      <4>2. QED
        BY <1>7, <3>1, <3>2, <4>1
    <3>5. 2 * (P + H) + (1 - H) + (L - 1) + O <= 2 * (t - i)
      BY <3>3
    <3>6. Owes(m)' = O
      BY <1>7, <2>2, <3>1
    <3>7. QED
      BY <1>9, <2>2, <3>1, <3>2, <3>4, <3>5, <3>6
  <2>3. CASE e # m
    BY <1>1, <1>3, <1>7, <1>9, <2>1, <2>3 DEF Types
  <2>4. QED
    BY <2>2, <2>3
<1>15. StreamInv'
  <2> SUFFICES ASSUME NEW e \in Ends, open[e], NEW k \in 1..Len(inbox'[e])
               PROVE  inbox'[e][k] = First(e)' <=> k % 2 = 1
    BY <1>3 DEF StreamInv
  <2>1. \A i \in 1..Len(inbox[e]) : inbox[e][i] = First(e) <=> i % 2 = 1
    BY <1>1 DEF StreamInv
  <2>2. CASE e = m
    <3>1. k \in Nat /\ k \in 1..L - 1 /\ k + 1 \in 1..L
      BY <1>9, <2>2
    <3>2. inbox'[m][k] = inbox[m][k + 1]
      BY <1>9, <3>1
    <3>3. inbox[m][k + 1] = First(m) <=> (k + 1) % 2 = 1
      BY <1>8, <2>1, <2>2, <3>1
    <3>4. inbox'[m][k] \in Parts
      BY <1>9, <3>1
    <3>5. (k + 1) % 2 = 1 <=> ~(k % 2 = 1)
      BY <3>1, Parity
    <3>6. QED
      BY <1>7, <2>2, <3>2, <3>3, <3>4, <3>5 DEF Parts
  <2>3. CASE e # m
    BY <1>7, <1>9, <2>1, <2>3
  <2>4. QED
    BY <2>2, <2>3
<1>16. PairInv'
  <2> SUFFICES ASSUME NEW e \in Ends, BothOpen(e[1])
               PROVE  (Len(inbox'[e]) + Half(e)') % 2 = 1 <=> HalfWritten(e)'
    BY <1>3 DEF PairInv, BothOpen
  <2>1. (Len(inbox[e]) + Half(e)) % 2 = 1 <=> HalfWritten(e)
    BY <1>1 DEF PairInv
  <2>2. CASE e = m
    <3>1. PICK n \in Nat : n = L - 1
      <4>1. L - 1 \in Nat
        BY <1>8
      <4>2. QED
        BY <4>1
    <3>2. CASE pc[p] = "read2"
      <4>1. L + Half(m) = n + 2 /\ L - 1 + Half(m)' = n
        BY <1>7, <3>1, <3>2
      <4>2. (n + 2) % 2 = 1 <=> n % 2 = 1
        BY Parity
      <4>3. QED
        BY <1>7, <1>8, <1>9, <2>1, <2>2, <4>1, <4>2
    <3>3. CASE pc[p] # "read2"
      <4>1. L + Half(m) = L /\ L - 1 + Half(m)' = L
        BY <1>7, <3>3
      <4>2. QED
        BY <1>7, <1>8, <1>9, <2>1, <2>2, <4>1
    <3>4. QED
      BY <3>2, <3>3
  <2>3. CASE e # m
    BY <1>7, <1>9, <2>1, <2>3
  <2>4. QED
    BY <2>2, <2>3
<1>17. QED
  BY <1>10, <1>11, <1>12, <1>13, <1>14, <1>15, <1>16 DEF ChatInv

(* A process is gone, and no end of its connections is open.  What was to   *)
(* be read at them may be a piece shorter.                                  *)
Shorter(p) ==
  /\ inbox' \in [Ends -> Seq(Parts)] /\ arrived' \in [Ends -> Nat]
  /\ \A e \in Ends : Reader(e) # p => inbox'[e] = inbox[e] /\ arrived'[e] = arrived[e]
  /\ \A e \in Ends :
       /\ Len(inbox'[e]) <= Len(inbox[e]) /\ arrived'[e] <= Len(inbox'[e])
       /\ inbox[e] = <<>> => inbox'[e] = <<>>

LEMMA GoneKeepsChat ==
  ASSUME ChatInv, NEW p \in Peers, pc[p] \notin {"start", "off"},
         pc' = [pc EXCEPT ![p] = "off"], KernelCloses(p), Shorter(p),
         UNCHANGED <<newsd, backlog, typed, input, ready, print>>
  PROVE  ChatInv'
<1>1. Types /\ LinesInv /\ LinkInv /\ BufferInv /\ CountInv /\ StreamInv /\ PairInv
  BY DEF ChatInv
<1>2. /\ pc' = [pc EXCEPT ![p] = "off"]
      /\ UNCHANGED <<newsd, backlog, typed, input, ready, print>>
      /\ open' = [e \in Ends |-> open[e] /\ e \notin EndsOf(p)]
      /\ rst' \in [Clients -> BOOLEAN]
  BY DEF KernelCloses
<1>3. \A q \in Peers : pc'[q] = IF q = p THEN "off" ELSE pc[q]
  BY <1>1, <1>2 DEF Types
<1>4. \A e \in Ends : /\ e \in EndsOf(p) <=> Reader(e) = p
                      /\ open'[e] <=> open[e] /\ Reader(e) # p
  <2>1. ASSUME NEW c \in Clients, NEW s \in Sides
        PROVE  <<c, s>> \in EndsOf(p) <=> Reader(<<c, s>>) = p
    BY ChatAssumption DEF EndsOf, Reader, Sides, Peers
  <2>2. \A e \in Ends : e \in EndsOf(p) <=> Reader(e) = p
    BY <2>1 DEF Ends
  <2>3. QED
    BY <1>2, <2>2
<1>5. \A e \in Ends : open'[e] => open[e] /\ (HalfRead(e)' <=> HalfRead(e))
  <2> SUFFICES ASSUME NEW e \in Ends, open'[e]
               PROVE  open[e] /\ (HalfRead(e)' <=> HalfRead(e))
    OBVIOUS
  <2>1. open[e] /\ Reader(e) # p /\ Reader(e) \in Peers
    BY <1>4, EndsArePeers
  <2>2. pc'[Reader(e)] = pc[Reader(e)] /\ Link(Reader(e))' = Link(Reader(e))
    BY <1>2, <1>3, <2>1 DEF Link, Reader
  <2>3. QED
    BY <2>1, <2>2 DEF HalfRead, Reader, Link
<1>6. Types'
  <2>1. "off" \in Labels
    BY DEF Labels
  <2>2. pc' \in [Peers -> Labels]
    BY <1>1, <1>2, <2>1 DEF Types
  <2>3. open' \in [Ends -> BOOLEAN]
    BY <1>1, <1>2 DEF Types
  <2>4. QED
    BY <1>1, <1>2, <2>2, <2>3 DEF Types, Shorter
<1>7. LinesInv'
  BY <1>1, <1>2, LinesStay
<1>8. BufferInv'
  <2> SUFFICES ASSUME NEW e \in Ends
               PROVE  arrived'[e] <= Len(inbox'[e]) /\ Len(inbox'[e]) <= Window
    BY DEF BufferInv
  <2>1. /\ Len(inbox'[e]) <= Len(inbox[e]) /\ arrived'[e] <= Len(inbox'[e])
        /\ Len(inbox[e]) <= Window
    BY <1>1 DEF Shorter, BufferInv
  <2>2. Len(inbox'[e]) \in Nat /\ Len(inbox[e]) \in Nat /\ Window \in Nat
    BY <1>1, <1>6, ChatAssumption DEF Types
  <2>3. QED
    BY <2>1, <2>2
<1>9. CountInv'
  <2> SUFFICES ASSUME NEW e \in Ends
               PROVE  2 * print[e] + Half(e)' + Len(inbox'[e]) + Owes(e)'
                        <= 2 * (typed[Writer(e)] - input[Writer(e)])
    BY <1>2 DEF CountInv, Writer
  <2>1. 2 * print[e] + Half(e) + Len(inbox[e]) + Owes(e)
          <= 2 * (typed[Writer(e)] - input[Writer(e)])
    BY <1>1 DEF CountInv
  <2>2. /\ Half(e)' = Half(e) \/ Half(e)' = 0
        /\ Owes(e)' = Owes(e) \/ Owes(e)' = 0
    <3>1. /\ Reader(e) \in Peers /\ Writer(e) \in Peers
          /\ Reader(e)' = Reader(e) /\ Writer(e)' = Writer(e)
          /\ Link(Reader(e))' = Link(Reader(e)) /\ Link(Writer(e))' = Link(Writer(e))
      BY <1>2, EndsArePeers DEF Reader, Writer, Link
    <3>2. HalfRead(e)' => HalfRead(e)
      BY <1>3, <3>1 DEF HalfRead
    <3>3. Half(e)' = Half(e) \/ Half(e)' = 0
      BY <3>2 DEF Half
    <3>4. CASE Writer(e) = p
      BY <1>3, <3>1, <3>3, <3>4 DEF Owes
    <3>5. CASE Writer(e) # p
      <4>1. pc'[Writer(e)] = pc[Writer(e)]
        BY <1>3, <3>1, <3>5
      <4>2. Owes(e)' = Owes(e)
        BY <3>1, <4>1 DEF Owes
      <4>3. QED
        BY <3>3, <4>2
    <3>6. QED
      BY <3>4, <3>5
  <2>3. PICK P \in Nat, H \in Nat, L \in Nat, O \in Nat, t \in Nat, i \in Nat :
          /\ P = print[e] /\ H = Half(e) /\ L = Len(inbox[e]) /\ O = Owes(e)
          /\ t = typed[Writer(e)] /\ i = input[Writer(e)]
    <3>1. /\ print[e] \in Nat /\ Half(e) \in Nat /\ Len(inbox[e]) \in Nat /\ Owes(e) \in Nat
          /\ typed[Writer(e)] \in Nat /\ input[Writer(e)] \in Nat
      BY <1>1, PieceNumbers
    <3>2. QED
      BY <3>1, Zenon
  <2>4. 2 * P + H + L + O <= 2 * (t - i)
    BY <2>1, <2>3
  <2>5. PICK h \in {H, 0}, x \in {O, 0} : h = Half(e)' /\ x = Owes(e)'
    BY <2>2, <2>3
  <2>6. PICK l \in 0..L : l = Len(inbox'[e])
    <3>1. Len(inbox'[e]) \in Nat /\ Len(inbox'[e]) <= L
      BY <1>6, <2>3 DEF Shorter, Types
    <3>2. QED
      BY <3>1
  <2>7. 2 * P + h + l + x <= 2 * (t - i)
    BY <2>4
  <2>8. QED
    BY <2>3, <2>5, <2>6, <2>7
<1>10. StreamInv'
  <2>1. \A e \in Ends : open'[e] =>
          open[e] /\ First(e)' = First(e) /\ inbox'[e] = inbox[e]
    BY <1>4, <1>5 DEF First, Shorter
  <2>2. QED
    BY <1>1, <2>1 DEF StreamInv
<1>11. PairInv'
  <2> SUFFICES ASSUME NEW e \in Ends, BothOpen(e[1])'
               PROVE  (Len(inbox'[e]) + Half(e)') % 2 = 1 <=> HalfWritten(e)'
    BY DEF PairInv
  <2>1. PICK c \in Clients : /\ c = e[1] /\ <<c, "server">> \in Ends /\ <<c, "client">> \in Ends
                             /\ e \in {<<c, "server">>, <<c, "client">>}
    BY EndsArePeers DEF Ends, Sides
  <2>2. open'[<<c, "server">>] /\ open'[<<c, "client">>]
    BY <2>1 DEF BothOpen
  <2>3. BothOpen(e[1]) /\ p # Server /\ p # c
    <3>1. Reader(<<c, "server">>) = Server /\ Reader(<<c, "client">>) = c
      BY DEF Reader
    <3>2. QED
      BY <1>4, <2>1, <2>2, <3>1 DEF BothOpen
  <2>4. (Len(inbox[e]) + Half(e)) % 2 = 1 <=> HalfWritten(e)
    BY <1>1, <2>3 DEF PairInv
  <2>5. Half(e)' = Half(e)
    BY <1>5, <2>1, <2>2 DEF Half
  <2>6. HalfWritten(e)' <=> HalfWritten(e)
    <3>1. /\ Writer(e) \in Peers /\ Writer(e) # p /\ Writer(e)' = Writer(e)
          /\ Link(Writer(e))' = Link(Writer(e))
      BY <1>2, <2>1, <2>3, EndsArePeers DEF Writer, Link
    <3>2. QED
      BY <1>3, <3>1 DEF HalfWritten
  <2>7. inbox'[e] = inbox[e]
    BY <1>4, <2>1, <2>2 DEF Shorter
  <2>8. QED
    BY <2>4, <2>5, <2>6, <2>7
<1>12. LinkInv'
  <2>1. Server \in Peers /\ Server \notin Clients /\ \A c \in Clients : c \in Peers
    BY ChatAssumption DEF Peers
  <2>2. ASSUME NEW c
        PROVE  Waiting(c)' <=> Waiting(c)
    BY <1>2 DEF Waiting
  <2>3. /\ pc'[Server] # "start"
        /\ pc'[Server] = "accept" => newsd' = None
        /\ InLoop(Server)' => newsd' # None
        /\ \A i, j \in 1..Len(backlog') : backlog'[i] = backlog'[j] => i = j
    BY <1>1, <1>2, <1>3, <2>1 DEF LinkInv, InLoop
  <2>4. ASSUME NEW c \in Clients
        PROVE  /\ pc'[c] # "accept"
               /\ open'[<<c, "client">>] <=> InLoop(c)'
               /\ open'[<<c, "server">>]
                    <=> pc'[Server] # "off" /\ (newsd' = c \/ Waiting(c)')
               /\ newsd' = c => ~Waiting(c)'
               /\ pc'[c] = "start" => newsd' # c /\ ~Waiting(c)' /\ inbox'[<<c, "server">>] = <<>>
               /\ pc'[c] = "start" \/ Waiting(c)' =>
                    inbox'[<<c, "client">>] = <<>> /\ pc'[c] # "read2"
    <3>1. /\ pc[c] # "accept"
          /\ open[<<c, "client">>] <=> InLoop(c)
          /\ open[<<c, "server">>] <=> pc[Server] # "off" /\ (newsd = c \/ Waiting(c))
          /\ newsd = c => ~Waiting(c)
          /\ pc[c] = "start" => newsd # c /\ ~Waiting(c) /\ inbox[<<c, "server">>] = <<>>
          /\ pc[c] = "start" \/ Waiting(c) =>
               inbox[<<c, "client">>] = <<>> /\ pc[c] # "read2"
      BY <1>1 DEF LinkInv
    <3>2. /\ open'[<<c, "client">>] <=> open[<<c, "client">>] /\ c # p
          /\ open'[<<c, "server">>] <=> open[<<c, "server">>] /\ Server # p
      <4>1. <<c, "client">> \in Ends /\ <<c, "server">> \in Ends
        BY DEF Ends, Sides
      <4>2. QED
        BY <1>4, <4>1 DEF Reader
    <3>3. InLoop(c)' <=> InLoop(c) /\ c # p
      BY <1>3, <2>1, <3>1 DEF InLoop
    <3>4. pc'[Server] # "off" <=> pc[Server] # "off" /\ Server # p
      BY <1>3, <2>1
    <3>5. pc'[c] = pc[c] \/ pc'[c] = "off"
      BY <1>3, <2>1
    <3>6. /\ inbox[<<c, "server">>] = <<>> => inbox'[<<c, "server">>] = <<>>
          /\ inbox[<<c, "client">>] = <<>> => inbox'[<<c, "client">>] = <<>>
      BY DEF Shorter, Ends, Sides
    <3>7. QED
      BY <1>2, <2>2, <3>1, <3>2, <3>3, <3>4, <3>5, <3>6
  <2>5. QED
    BY <2>3, <2>4 DEF LinkInv
<1>13. QED
  BY <1>6, <1>7, <1>8, <1>9, <1>10, <1>11, <1>12 DEF ChatInv

LEMMA DieKeepsChat ==
  ASSUME ChatInv, NEW p \in Peers, pc[p] \notin {"start", "off"}, Die(p)
  PROVE  ChatInv'
<1>1. Types /\ BufferInv
  BY DEF ChatInv
<1>2. /\ pc' = [pc EXCEPT ![p] = "off"] /\ KernelCloses(p)
      /\ UNCHANGED <<newsd, backlog, typed, input, ready, print, inbox, arrived>>
  BY DEF Die, typingVars
<1>3. \A e \in Ends : Len(inbox[e]) \in Nat
  BY <1>1 DEF Types
<1>4. Shorter(p)
  BY <1>1, <1>2, <1>3 DEF Shorter, Types, BufferInv
<1>5. QED
  BY <1>2, <1>4, GoneKeepsChat

(* decrypt() has failed on a message that is read and not printed.          *)
LEMMA DecryptKeepsChat ==
  ASSUME ChatInv, NEW p \in Peers, DecryptFails(p)
  PROVE  ChatInv'
<1>1. Types /\ LinkInv /\ BufferInv
  BY DEF ChatInv
<1>2. PICK m : m = Mine(p)
  OBVIOUS
<1>3. /\ pc[p] = "read2" /\ pc' = [pc EXCEPT ![p] = "off"] /\ KernelCloses(p)
      /\ arrived[m] > 0
      /\ inbox' = [inbox EXCEPT ![m] = Tail(@)]
      /\ arrived' = [arrived EXCEPT ![m] = @ - 1]
      /\ UNCHANGED <<newsd, backlog, typed, input, ready, print>>
  BY <1>2 DEF DecryptFails, Goto, typingVars
<1>4. m \in Ends /\ Reader(m) = p
  BY <1>1, <1>2, <1>3, Linked DEF InLoop
<1>5. PICK L \in Nat, a \in Nat : L = Len(inbox[m]) /\ a = arrived[m] /\ 0 < a /\ a <= L
  <2>1. PICK L \in Nat, a \in Nat : L = Len(inbox[m]) /\ a = arrived[m]
    BY <1>1, <1>4, PieceNumbers
  <2>2. arrived[m] <= Len(inbox[m])
    BY <1>1, <1>4 DEF BufferInv
  <2>3. a > 0
    BY <1>3, <2>1
  <2>4. 0 < a /\ a <= L
    BY <2>1, <2>2, <2>3
  <2>5. QED
    BY <2>1, <2>4
<1>6. inbox[m] \in Seq(Parts) /\ inbox[m] # <<>>
  BY <1>1, <1>4, <1>5 DEF Types
<1>7. inbox'[m] \in Seq(Parts) /\ Len(inbox'[m]) = L - 1 /\ arrived'[m] = a - 1
  <2>1. inbox'[m] = Tail(inbox[m]) /\ arrived'[m] = a - 1
    BY <1>1, <1>3, <1>4, <1>5 DEF Types
  <2>2. QED
    BY <1>5, <1>6, <2>1
<1>8. \A e \in Ends : e # m => inbox'[e] = inbox[e] /\ arrived'[e] = arrived[e]
  BY <1>1, <1>3 DEF Types
<1>9. inbox' \in [Ends -> Seq(Parts)] /\ arrived' \in [Ends -> Nat]
  <2>1. inbox' \in [Ends -> Seq(Parts)]
    BY <1>1, <1>3, <1>7 DEF Types
  <2>2. arrived' = [arrived EXCEPT ![m] = a - 1] /\ a - 1 \in Nat
    BY <1>3, <1>5
  <2>3. QED
    BY <1>1, <2>1, <2>2 DEF Types
<1>10. ASSUME NEW e \in Ends
       PROVE  /\ Len(inbox'[e]) <= Len(inbox[e]) /\ arrived'[e] <= Len(inbox'[e])
              /\ inbox[e] = <<>> => inbox'[e] = <<>>
  <2>1. CASE e = m
    BY <1>5, <1>6, <1>7, <2>1
  <2>2. CASE e # m
    <3>1. arrived[e] <= Len(inbox[e]) /\ Len(inbox[e]) \in Nat
      BY <1>1, PieceNumbers DEF BufferInv
    <3>2. QED
      BY <1>8, <2>2, <3>1
  <2>3. QED
    BY <2>1, <2>2
<1>11. Shorter(p)
  BY <1>4, <1>8, <1>9, <1>10 DEF Shorter
<1>12. QED
  BY <1>3, <1>11, GoneKeepsChat

------------------------------------------------------------------------------
(* What reading and writing ends are in the middle of depends on where the  *)
(* processes are, connections and streams on little more.                   *)
LEMMA SameStreams ==
  ASSUME LinkInv, StreamInv, PairInv, UNCHANGED <<pc, newsd, backlog, inbox, open>>
  PROVE  /\ LinkInv' /\ StreamInv' /\ PairInv'
         /\ \A e \in Ends : Half(e)' = Half(e) /\ Owes(e)' = Owes(e)
<1>1. ASSUME NEW e
      PROVE  /\ HalfRead(e)' <=> HalfRead(e)
             /\ HalfWritten(e)' <=> HalfWritten(e)
             /\ Owes(e)' = Owes(e)
  BY DEF HalfRead, HalfWritten, Owes, Link, Reader, Writer
<1>2. ASSUME NEW e
      PROVE  Half(e)' = Half(e) /\ First(e)' = First(e)
  BY <1>1 DEF Half, First
<1>3. StreamInv'
  BY <1>2 DEF StreamInv
<1>4. PairInv'
  BY <1>1, <1>2 DEF PairInv, BothOpen
<1>5. ASSUME NEW c
      PROVE  (Waiting(c)' <=> Waiting(c)) /\ (InLoop(c)' <=> InLoop(c))
  BY DEF Waiting, InLoop
<1>6. LinkInv'
  BY <1>5 DEF LinkInv
<1>7. QED
  BY <1>1, <1>2, <1>3, <1>4, <1>6

(* The terminal and the network.                                            *)
LEMMA TypeKeepsChat == ASSUME ChatInv, NEW p \in Peers, Type(p) PROVE ChatInv'
<1>1. Types /\ LinesInv /\ LinkInv /\ BufferInv /\ CountInv /\ StreamInv /\ PairInv
  BY DEF ChatInv
<1>2. /\ typed[p] < MaxLines
      /\ typed' = [typed EXCEPT ![p] = @ + 1]
      /\ input' = [input EXCEPT ![p] = @ + 1]
      /\ UNCHANGED <<pc, newsd, backlog, ready, inbox, arrived, open, rst, print>>
  BY DEF Type, linkVars
<1>3. \A q \in Peers : /\ input[q] \in 0..MaxLines /\ typed[q] \in 0..MaxLines
                       /\ input[q] <= typed[q]
  BY <1>1, LineNumbers DEF LinesInv
<1>4. \A q \in Peers : /\ input'[q] = IF q = p THEN input[q] + 1 ELSE input[q]
                       /\ typed'[q] = IF q = p THEN typed[q] + 1 ELSE typed[q]
  BY <1>1, <1>2 DEF Types
<1>5. MaxLines \in Nat
  BY ChatAssumption
<1>6. \A q \in Peers : /\ input'[q] \in 0..MaxLines /\ typed'[q] \in 0..MaxLines
                       /\ input'[q] <= typed'[q] /\ input'[q] >= input[q]
                       /\ typed'[q] - input'[q] = typed[q] - input[q]
  BY <1>2, <1>3, <1>4, <1>5
<1>7. Types'
  <2>1. input' = [q \in Peers |-> input'[q]] /\ typed' = [q \in Peers |-> typed'[q]]
    BY <1>1, <1>2 DEF Types
  <2>2. input' \in [Peers -> 0..MaxLines] /\ typed' \in [Peers -> 0..MaxLines]
    BY <1>6, <2>1
  <2>3. QED
    BY <1>1, <1>2, <2>2 DEF Types
<1>8. LinesInv'
  <2> SUFFICES ASSUME NEW q \in Peers
               PROVE  /\ input'[q] <= typed'[q]
                      /\ pc[q] = "stdin" /\ "stdin" \in ready[q] => input'[q] > 0
    BY <1>2 DEF LinesInv
  <2>1. pc[q] = "stdin" /\ "stdin" \in ready[q] => input[q] > 0
    BY <1>1 DEF LinesInv
  <2>2. QED
    BY <1>3, <1>6, <2>1
<1>9. UNCHANGED <<pc, newsd, backlog, inbox, arrived, open, print>>
  BY <1>2
<1>10. /\ LinkInv' /\ StreamInv' /\ PairInv'
       /\ \A e \in Ends : Half(e)' = Half(e) /\ Owes(e)' = Owes(e)
  <2>1. UNCHANGED <<pc, newsd, backlog, inbox, open>>
    BY <1>9
  <2>2. QED
    BY <1>1, <2>1, SameStreams
<1>13. BufferInv'
  BY <1>1, <1>9 DEF BufferInv
<1>11. CountInv'
  <2> SUFFICES ASSUME NEW e \in Ends
               PROVE  2 * print[e] + Half(e) + Len(inbox[e]) + Owes(e)
                        <= 2 * (typed'[Writer(e)] - input'[Writer(e)])
    BY <1>9, <1>10 DEF CountInv, Writer
  <2>1. 2 * print[e] + Half(e) + Len(inbox[e]) + Owes(e)
          <= 2 * (typed[Writer(e)] - input[Writer(e)])
    BY <1>1 DEF CountInv
  <2>2. typed'[Writer(e)] - input'[Writer(e)] = typed[Writer(e)] - input[Writer(e)]
    BY <1>6, EndsArePeers
  <2>3. QED
    BY <2>1, <2>2
<1>12. QED
  BY <1>1, <1>7, <1>8, <1>10, <1>11, <1>13 DEF ChatInv

(* A piece arrives.                                                         *)
LEMMA ArriveKeepsChat == ASSUME ChatInv, NEW e \in Ends, Arrive(e) PROVE ChatInv'
<1>1. Types /\ LinesInv /\ LinkInv /\ BufferInv /\ CountInv /\ StreamInv /\ PairInv
  BY DEF ChatInv
<1>2. /\ arrived[e] < Len(inbox[e])
      /\ arrived' = [arrived EXCEPT ![e] = @ + 1]
      /\ UNCHANGED <<pc, newsd, backlog, typed, input, ready, inbox, open, rst, print>>
  BY DEF Arrive, typingVars
<1>3. Types'
  BY <1>1, <1>2 DEF Types
<1>4. BufferInv'
  <2> SUFFICES ASSUME NEW d \in Ends
               PROVE  arrived'[d] <= Len(inbox[d]) /\ Len(inbox[d]) <= Window
    BY <1>2 DEF BufferInv
  <2>1. arrived[d] <= Len(inbox[d]) /\ Len(inbox[d]) <= Window
    BY <1>1 DEF BufferInv
  <2>2. arrived[d] \in Nat /\ Len(inbox[d]) \in Nat
    BY <1>1, PieceNumbers
  <2>3. arrived'[d] = IF d = e THEN arrived[d] + 1 ELSE arrived[d]
    BY <1>1, <1>2 DEF Types
  <2>4. QED
    BY <1>2, <2>1, <2>2, <2>3
<1>5. UNCHANGED <<pc, newsd, backlog, typed, input, ready, inbox, open, print>>
  BY <1>2
<1>6. /\ LinkInv' /\ StreamInv' /\ PairInv'
      /\ \A d \in Ends : Half(d)' = Half(d) /\ Owes(d)' = Owes(d)
  <2>1. UNCHANGED <<pc, newsd, backlog, inbox, open>>
    BY <1>5
  <2>2. QED
    BY <1>1, <2>1, SameStreams
<1>7. LinesInv'
  BY <1>1, <1>5 DEF LinesInv
<1>8. CountInv'
  BY <1>1, <1>5, <1>6 DEF CountInv, Writer
<1>9. QED
  BY <1>3, <1>4, <1>6, <1>7, <1>8 DEF ChatInv

(* What changes nothing.                                                    *)
LEMMA StutterKeepsChat == ASSUME ChatInv, UNCHANGED vars PROVE ChatInv'
<1>1. Types /\ LinesInv /\ LinkInv /\ BufferInv /\ CountInv /\ StreamInv /\ PairInv
  BY DEF ChatInv
<1>2. UNCHANGED <<pc, newsd, backlog, typed, input, ready, inbox, arrived, open, rst, print>>
  BY DEF vars, typingVars, linkVars
<1>3. /\ LinkInv' /\ StreamInv' /\ PairInv'
      /\ \A e \in Ends : Half(e)' = Half(e) /\ Owes(e)' = Owes(e)
  <2>1. UNCHANGED <<pc, newsd, backlog, inbox, open>>
    BY <1>2
  <2>2. QED
    BY <1>1, <2>1, SameStreams
<1>4. Types' /\ LinesInv' /\ BufferInv'
  BY <1>1, <1>2 DEF Types, LinesInv, BufferInv
<1>5. CountInv'
  BY <1>1, <1>2, <1>3 DEF CountInv, Writer
<1>6. QED
  BY <1>3, <1>4, <1>5 DEF ChatInv

(* A client connects: nothing is on its way yet.                            *)
LEMMA ConnectKeepsChat == ASSUME ChatInv, NEW c \in Clients, Connect(c) PROVE ChatInv'
<1>1. Types /\ LinesInv /\ LinkInv /\ BufferInv /\ CountInv /\ StreamInv /\ PairInv
  BY DEF ChatInv
<1>2. /\ pc[Server] # "off" /\ pc[c] = "start"
      /\ pc' = [pc EXCEPT ![c] = "select"]
      /\ backlog' = Append(backlog, c)
      /\ open' = [e \in Ends |-> open[e] \/ e[1] = c]
      /\ UNCHANGED <<newsd, typed, input, ready, inbox, arrived, rst, print>>
  BY DEF Connect, Goto, typingVars
<1>3. /\ \A q \in Peers : pc'[q] = IF q = c THEN "select" ELSE pc[q]
      /\ c # Server /\ c \in Peers /\ Server \in Peers
      /\ \A d \in Clients : d \in Peers /\ d # Server
  BY <1>1, <1>2, ChatAssumption DEF Types, Peers
<1>4. /\ newsd # c /\ ~Waiting(c)
      /\ inbox[<<c, "client">>] = <<>> /\ inbox[<<c, "server">>] = <<>>
  BY <1>1, <1>2 DEF LinkInv
<1>5. PICK n \in Nat : /\ n = Len(backlog) /\ n + 1 = Len(backlog')
                       /\ backlog' \in Seq(Clients)
                       /\ backlog'[n + 1] = c /\ \A i \in 1..n : backlog'[i] = backlog[i]
  <2>1. PICK n \in Nat : n = Len(backlog)
    BY <1>1 DEF Types
  <2>2. /\ Append(backlog, c) \in Seq(Clients) /\ Len(Append(backlog, c)) = n + 1
        /\ Append(backlog, c)[n + 1] = c
        /\ \A i \in 1..n : Append(backlog, c)[i] = backlog[i]
    BY <1>1, <2>1 DEF Types
  <2>3. QED
    BY <1>2, <2>1, <2>2
<1>6. ASSUME NEW d
      PROVE  Waiting(d)' <=> Waiting(d) \/ d = c
  <2>1. ASSUME Waiting(d)'
        PROVE  Waiting(d) \/ d = c
    <3>1. PICK i \in 1..n + 1 : backlog'[i] = d
      BY <1>5, <2>1 DEF Waiting
    <3>2. CASE i = n + 1
      BY <1>5, <3>1, <3>2
    <3>3. CASE i # n + 1
      BY <1>5, <3>1, <3>3 DEF Waiting
    <3>4. QED
      BY <3>2, <3>3
  <2>2. ASSUME Waiting(d)
        PROVE  Waiting(d)'
    <3>1. PICK i \in 1..n : backlog[i] = d
      BY <1>5, <2>2 DEF Waiting
    <3>2. i \in 1..n + 1 /\ backlog'[i] = d
      BY <1>5, <3>1
    <3>3. QED
      BY <1>5, <3>2 DEF Waiting
  <2>3. Waiting(c)'
    <3>1. n + 1 \in 1..Len(backlog')
      BY <1>5
    <3>2. QED
      BY <1>5, <3>1 DEF Waiting
  <2>4. QED
    BY <2>1, <2>2, <2>3
<1>7. \A e \in Ends :
        /\ HalfRead(e)' <=> HalfRead(e)
        /\ HalfWritten(e)' <=> HalfWritten(e)
        /\ Owes(e)' = Owes(e)
  <2> SUFFICES ASSUME NEW e \in Ends
               PROVE  /\ HalfRead(e)' <=> HalfRead(e)
                      /\ HalfWritten(e)' <=> HalfWritten(e)
                      /\ Owes(e)' = Owes(e)
    OBVIOUS
  <2>1. /\ Reader(e) \in Peers /\ Writer(e) \in Peers
        /\ Reader(e)' = Reader(e) /\ Writer(e)' = Writer(e)
        /\ Link(Reader(e))' = Link(Reader(e)) /\ Link(Writer(e))' = Link(Writer(e))
    BY <1>2, EndsArePeers DEF Reader, Writer, Link
  <2>2. \A q \in Peers : /\ pc'[q] = "read2" <=> pc[q] = "read2"
                         /\ pc'[q] = "write1" <=> pc[q] = "write1"
                         /\ pc'[q] = "write2" <=> pc[q] = "write2"
    BY <1>2, <1>3
  <2>3. QED
    BY <2>1, <2>2 DEF HalfRead, HalfWritten, Owes
<1>8. \A e \in Ends : Half(e)' = Half(e) /\ First(e)' = First(e)
  BY <1>7 DEF Half, First
<1>9. Types'
  <2>1. pc' \in [Peers -> Labels]
    BY <1>1, <1>2 DEF Types, Labels
  <2>2. open' \in [Ends -> BOOLEAN]
    BY <1>1, <1>2 DEF Types
  <2>3. QED
    BY <1>1, <1>2, <1>5, <2>1, <2>2 DEF Types
<1>10. LinesInv'
  <2>1. UNCHANGED <<typed, input, ready>>
    BY <1>2
  <2>2. QED
    BY <1>1, <1>2, <2>1, LinesStay
<1>11. BufferInv'
  BY <1>1, <1>2 DEF BufferInv
<1>12. CountInv'
  <2> SUFFICES ASSUME NEW e \in Ends
               PROVE  2 * print[e] + Half(e)' + Len(inbox[e]) + Owes(e)'
                        <= 2 * (typed[Writer(e)] - input[Writer(e)])
    BY <1>2 DEF CountInv, Writer
  <2>1. Half(e)' = Half(e) /\ Owes(e)' = Owes(e)
    BY <1>7, <1>8
  <2>2. QED
    BY <1>1, <2>1 DEF CountInv
<1>13. \A e \in Ends : e[1] = c =>
         inbox[e] = <<>> /\ Len(inbox[e]) = 0 /\ ~HalfRead(e) /\ ~HalfWritten(e)
  <2> SUFFICES ASSUME NEW e \in Ends, e[1] = c
               PROVE  inbox[e] = <<>> /\ Len(inbox[e]) = 0 /\ ~HalfRead(e) /\ ~HalfWritten(e)
    OBVIOUS
  <2>1. inbox[e] = <<>> /\ Len(inbox[e]) = 0
    BY <1>4, EndsArePeers
  <2>2. ~HalfRead(e) /\ ~HalfWritten(e)
    BY <1>2, <1>3, <1>4 DEF HalfRead, HalfWritten, Reader, Writer, Link
  <2>3. QED
    BY <2>1, <2>2
<1>14. \A e \in Ends : e[1] # c => open'[e] = open[e]
  BY <1>1, <1>2 DEF Types
<1>15. StreamInv'
  <2> SUFFICES ASSUME NEW e \in Ends, open'[e], NEW k \in 1..Len(inbox[e])
               PROVE  inbox[e][k] = First(e) <=> k % 2 = 1
    BY <1>2, <1>8 DEF StreamInv
  <2>1. e[1] # c
    BY <1>13
  <2>2. open[e]
    BY <1>14, <2>1
  <2>3. QED
    BY <1>1, <2>2 DEF StreamInv
<1>16. PairInv'
  <2> SUFFICES ASSUME NEW e \in Ends, BothOpen(e[1])'
               PROVE  (Len(inbox[e]) + Half(e)) % 2 = 1 <=> HalfWritten(e)
    BY <1>2, <1>7, <1>8 DEF PairInv
  <2>1. CASE e[1] = c
    <3>1. Len(inbox[e]) = 0 /\ Half(e) = 0 /\ ~HalfWritten(e)
      BY <1>13, <2>1 DEF Half
    <3>2. QED
      BY <3>1
  <2>2. CASE e[1] # c
    <3>1. BothOpen(e[1])
      <4>1. e[1] \in Clients
        BY EndsArePeers
      <4>2. PICK d \in Clients : d = e[1]
        BY <4>1
      <4>3. /\ <<d, "server">> \in Ends /\ <<d, "server">>[1] # c
            /\ <<d, "client">> \in Ends /\ <<d, "client">>[1] # c
        BY <2>2, <4>2 DEF Ends, Sides
      <4>4. BothOpen(d)'
        BY <4>2
      <4>5. QED
        BY <1>14, <4>2, <4>3, <4>4 DEF BothOpen
    <3>2. QED
      BY <1>1, <3>1 DEF PairInv
  <2>3. QED
    BY <2>1, <2>2
<1>17. LinkInv'
  <2>1. /\ pc'[Server] # "start"
        /\ pc'[Server] = "accept" => newsd' = None
        /\ InLoop(Server)' => newsd' # None
    BY <1>1, <1>2, <1>3 DEF LinkInv, InLoop
  <2>2. \A i, j \in 1..Len(backlog') : backlog'[i] = backlog'[j] => i = j
    <3> SUFFICES ASSUME NEW i \in 1..n + 1, NEW j \in 1..n + 1, backlog'[i] = backlog'[j]
                 PROVE  i = j
      BY <1>5
    <3>1. \A k \in 1..n : backlog[k] # c
      BY <1>4, <1>5 DEF Waiting
    <3>2. \A k, l \in 1..n : backlog[k] = backlog[l] => k = l
      BY <1>1, <1>5 DEF LinkInv
    <3>3. CASE i \in 1..n /\ j \in 1..n
      BY <1>5, <3>2, <3>3
    <3>4. CASE i = n + 1 \/ j = n + 1
      BY <1>5, <3>1, <3>4
    <3>5. QED
      BY <3>3, <3>4
  <2>3. ASSUME NEW d \in Clients
        PROVE  /\ pc'[d] # "accept"
               /\ open'[<<d, "client">>] <=> InLoop(d)'
               /\ open'[<<d, "server">>]
                    <=> pc'[Server] # "off" /\ (newsd' = d \/ Waiting(d)')
               /\ newsd' = d => ~Waiting(d)'
               /\ pc'[d] = "start" => newsd' # d /\ ~Waiting(d)' /\ inbox'[<<d, "server">>] = <<>>
               /\ pc'[d] = "start" \/ Waiting(d)' =>
                    inbox'[<<d, "client">>] = <<>> /\ pc'[d] # "read2"
    <3>1. /\ pc[d] # "accept"
          /\ open[<<d, "client">>] <=> InLoop(d)
          /\ open[<<d, "server">>] <=> pc[Server] # "off" /\ (newsd = d \/ Waiting(d))
          /\ newsd = d => ~Waiting(d)
          /\ pc[d] = "start" => newsd # d /\ ~Waiting(d) /\ inbox[<<d, "server">>] = <<>>
          /\ pc[d] = "start" \/ Waiting(d) =>
               inbox[<<d, "client">>] = <<>> /\ pc[d] # "read2"
      BY <1>1 DEF LinkInv
    <3>2. /\ open'[<<d, "client">>] <=> open[<<d, "client">>] \/ d = c
          /\ open'[<<d, "server">>] <=> open[<<d, "server">>] \/ d = c
      <4>1. <<d, "client">> \in Ends /\ <<d, "server">> \in Ends
        BY DEF Ends, Sides
      <4>2. QED
        BY <1>2, <4>1
    <3>3. InLoop(d)' <=> InLoop(d) \/ d = c
      BY <1>3, <3>1 DEF InLoop
    <3>4. pc'[Server] # "off" /\ (d # c => pc'[d] = pc[d]) /\ (d = c => pc'[d] = "select")
      BY <1>2, <1>3
    <3>5. QED
      BY <1>2, <1>4, <1>6, <3>1, <3>2, <3>3, <3>4
  <2>4. QED
    BY <2>1, <2>2, <2>3 DEF LinkInv
<1>18. QED
  BY <1>9, <1>10, <1>11, <1>12, <1>15, <1>16, <1>17 DEF ChatInv

------------------------------------------------------------------------------
(* Between two messages it does not matter which connection a process has.  *)
LEMMA BetweenMessages ==
  ASSUME Types, NEW p \in Peers, NEW l, pc' = [pc EXCEPT ![p] = l],
         pc[p] \notin {"read2", "write1", "write2"}, l \notin {"read2", "write1", "write2"},
         p = Server \/ UNCHANGED newsd
  PROVE  \A e \in Ends : /\ Half(e)' = Half(e) /\ First(e)' = First(e)
                         /\ HalfWritten(e)' <=> HalfWritten(e)
                         /\ Owes(e)' = Owes(e)
<1> SUFFICES ASSUME NEW e \in Ends
             PROVE  /\ Half(e)' = Half(e) /\ First(e)' = First(e)
                    /\ HalfWritten(e)' <=> HalfWritten(e)
                    /\ Owes(e)' = Owes(e)
  OBVIOUS
<1>1. \A q \in Peers : pc'[q] = IF q = p THEN l ELSE pc[q]
  BY DEF Types
<1>2. /\ Reader(e) \in Peers /\ Writer(e) \in Peers
      /\ Reader(e)' = Reader(e) /\ Writer(e)' = Writer(e)
  BY EndsArePeers DEF Reader, Writer
<1>3. \A q \in Peers \ {p} : Link(q)' = Link(q)
  BY DEF Link
<1>4. HalfRead(e)' <=> HalfRead(e)
  <2>1. CASE Reader(e) = p
    BY <1>1, <1>2, <2>1 DEF HalfRead
  <2>2. CASE Reader(e) # p
    <3>1. PICK q \in Peers \ {p} : q = Reader(e)
      BY <1>2, <2>2
    <3>2. Link(q)' = Link(q) /\ pc'[q] = pc[q]
      BY <1>1, <1>3
    <3>3. (Link(q)' = e[1] /\ pc'[q] = "read2") <=> HalfRead(e)
      BY <3>1, <3>2 DEF HalfRead
    <3>4. HalfRead(e)' <=> (Link(q)' = e[1] /\ pc'[q] = "read2")
      BY <1>2, <3>1 DEF HalfRead, Link
    <3>5. QED
      BY <3>3, <3>4
  <2>3. QED
    BY <2>1, <2>2
<1>5. (HalfWritten(e)' <=> HalfWritten(e)) /\ Owes(e)' = Owes(e)
  <2>1. CASE Writer(e) = p
    BY <1>1, <1>2, <2>1 DEF HalfWritten, Owes
  <2>2. CASE Writer(e) # p
    <3>1. PICK q \in Peers \ {p} : q = Writer(e)
      BY <1>2, <2>2
    <3>2. Link(q)' = Link(q) /\ pc'[q] = pc[q]
      BY <1>1, <1>3
    <3>3. /\ (Link(q)' = e[1] /\ pc'[q] = "write2") <=> HalfWritten(e)
          /\ Owes(e) = IF Link(q)' # e[1] THEN 0 ELSE IF pc'[q] = "write1" THEN 2
                       ELSE IF pc'[q] = "write2" THEN 1 ELSE 0
      BY <3>1, <3>2 DEF HalfWritten, Owes
    <3>4. /\ HalfWritten(e)' <=> (Link(q)' = e[1] /\ pc'[q] = "write2")
          /\ Owes(e)' = IF Link(q)' # e[1] THEN 0 ELSE IF pc'[q] = "write1" THEN 2
                        ELSE IF pc'[q] = "write2" THEN 1 ELSE 0
      BY <1>2, <3>1 DEF HalfWritten, Owes, Link
    <3>5. QED
      BY <3>3, <3>4
  <2>3. QED
    BY <2>1, <2>2
<1>6. QED
  BY <1>4, <1>5 DEF Half, First

(* Nothing is sent or received, and nothing opened.                         *)
LEMMA QuietEnds ==
  ASSUME ChatInv, UNCHANGED <<typed, input, inbox, arrived, print>>,
         \A e \in Ends : /\ Half(e)' = Half(e) /\ First(e)' = First(e)
                         /\ HalfWritten(e)' <=> HalfWritten(e)
                         /\ Owes(e)' = Owes(e)
                         /\ open'[e] => open[e]
  PROVE  BufferInv' /\ CountInv' /\ StreamInv' /\ PairInv'
<1>1. BufferInv /\ CountInv /\ StreamInv /\ PairInv
  BY DEF ChatInv
<1>2. BufferInv'
  BY <1>1 DEF BufferInv
<1>3. CountInv'
  BY <1>1 DEF CountInv, Writer
<1>4. StreamInv'
  BY <1>1 DEF StreamInv
<1>5. PairInv'
  <2> SUFFICES ASSUME NEW e \in Ends, BothOpen(e[1])'
               PROVE  (Len(inbox[e]) + Half(e)) % 2 = 1 <=> HalfWritten(e)
    BY DEF PairInv
  <2>1. PICK d \in Clients : d = e[1]
    BY EndsArePeers
  <2>2. <<d, "server">> \in Ends /\ <<d, "client">> \in Ends
    BY DEF Ends, Sides
  <2>3. BothOpen(d)'
    BY <2>1
  <2>4. BothOpen(e[1])
    BY <2>1, <2>2, <2>3 DEF BothOpen
  <2>5. QED
    BY <1>1, <2>4 DEF PairInv
<1>6. QED
  BY <1>2, <1>3, <1>4, <1>5

(* The server accepts the client that has waited longest.                   *)
LEMMA AcceptKeepsChat == ASSUME ChatInv, Accept PROVE ChatInv'
<1>1. Types /\ LinesInv /\ LinkInv
  BY DEF ChatInv
<1>2. /\ pc[Server] = "accept" /\ pc' = [pc EXCEPT ![Server] = "select"]
      /\ backlog # <<>> /\ newsd' = Head(backlog) /\ backlog' = Tail(backlog)
      /\ UNCHANGED <<typed, input, ready, inbox, arrived, open, rst, print>>
  BY DEF Accept, Goto, typingVars, linkVars
<1>3. /\ Server \in Peers /\ None \notin Clients
      /\ \A c \in Clients : c \in Peers /\ c # Server
      /\ \A q \in Peers : pc'[q] = IF q = Server THEN "select" ELSE pc[q]
  BY <1>1, <1>2, ChatAssumption DEF Types, Peers
<1>4. \A e \in Ends : /\ Half(e)' = Half(e) /\ First(e)' = First(e)
                      /\ HalfWritten(e)' <=> HalfWritten(e)
                      /\ Owes(e)' = Owes(e)
  <2>1. /\ pc[Server] \notin {"read2", "write1", "write2"}
        /\ "select" \notin {"read2", "write1", "write2"}
        /\ pc' = [pc EXCEPT ![Server] = "select"]
    BY <1>2
  <2>2. QED
    BY <1>1, <1>3, <2>1, BetweenMessages, Zenon
<1>5. BufferInv' /\ CountInv' /\ StreamInv' /\ PairInv'
  BY <1>2, <1>4, QuietEnds
<1>6. PICK n \in Nat, c \in Clients :
        /\ n = Len(backlog) /\ n > 0 /\ c = backlog[1] /\ newsd' = c
        /\ backlog' \in Seq(Clients) /\ Len(backlog') = n - 1
        /\ \A i \in 1..n - 1 : backlog'[i] = backlog[i + 1]
  <2>1. PICK n \in Nat : n = Len(backlog)
    BY <1>1 DEF Types
  <2>2. n > 0
    BY <1>1, <1>2, <2>1 DEF Types
  <2>3. backlog[1] \in Clients /\ Head(backlog) = backlog[1]
    BY <1>1, <2>1, <2>2 DEF Types
  <2>4. /\ Tail(backlog) \in Seq(Clients) /\ Len(Tail(backlog)) = n - 1
        /\ \A i \in 1..n - 1 : Tail(backlog)[i] = backlog[i + 1]
    BY <1>1, <1>2, <2>1 DEF Types
  <2>5. QED
    BY <1>2, <2>1, <2>2, <2>3, <2>4
<1>7. \A i, j \in 1..n : backlog[i] = backlog[j] => i = j
  BY <1>1, <1>6 DEF LinkInv
<1>8. ASSUME NEW d
      PROVE  Waiting(d)' <=> Waiting(d) /\ d # c
  <2>1. ASSUME Waiting(d)'
        PROVE  Waiting(d) /\ d # c
    <3>1. PICK i \in 1..n - 1 : backlog'[i] = d
      BY <1>6, <2>1 DEF Waiting
    <3>2. i + 1 \in 1..n /\ backlog[i + 1] = d /\ i + 1 # 1 /\ 1 \in 1..n
      BY <1>6, <3>1
    <3>3. QED
      BY <1>6, <1>7, <3>2 DEF Waiting
  <2>2. ASSUME Waiting(d), d # c
        PROVE  Waiting(d)'
    <3>1. PICK i \in 1..n : backlog[i] = d
      BY <1>6, <2>2 DEF Waiting
    <3>2. PICK k \in 1..n - 1 : i = k + 1
      <4>1. i # 1
        BY <1>6, <2>2, <3>1
      <4>2. i - 1 \in 1..n - 1 /\ i = (i - 1) + 1
        BY <4>1
      <4>3. QED
        BY <4>2
    <3>3. backlog'[k] = d
      BY <1>6, <3>1, <3>2
    <3>4. QED
      BY <1>6, <3>3 DEF Waiting
  <2>3. QED
    BY <2>1, <2>2
<1>9. Waiting(c)
  <2>1. 1 \in 1..Len(backlog)
    BY <1>6
  <2>2. QED
    BY <1>6, <2>1 DEF Waiting
<1>10. Types'
  <2>1. pc' \in [Peers -> Labels]
    BY <1>1, <1>2 DEF Types, Labels
  <2>2. QED
    BY <1>1, <1>2, <1>6, <2>1 DEF Types
<1>11. LinesInv'
  <2>1. UNCHANGED <<typed, input, ready>> /\ pc' = [pc EXCEPT ![Server] = "select"]
    BY <1>2
  <2>2. QED
    BY <1>1, <2>1, LinesStay
<1>12. LinkInv'
  <2>1. newsd = None
    BY <1>1, <1>2 DEF LinkInv
  <2>2. /\ pc'[Server] = "select" /\ newsd' # None
    BY <1>3, <1>6
  <2>3. \A i, j \in 1..Len(backlog') : backlog'[i] = backlog'[j] => i = j
    <3> SUFFICES ASSUME NEW i \in 1..n - 1, NEW j \in 1..n - 1, backlog'[i] = backlog'[j]
                 PROVE  i = j
      BY <1>6
    <3>1. i + 1 \in 1..n /\ j + 1 \in 1..n /\ backlog[i + 1] = backlog[j + 1]
      BY <1>6
    <3>2. i + 1 = j + 1
      BY <1>7, <3>1
    <3>3. QED
      BY <3>2
  <2>4. ASSUME NEW d \in Clients
        PROVE  /\ pc'[d] # "accept"
               /\ open'[<<d, "client">>] <=> InLoop(d)'
               /\ open'[<<d, "server">>]
                    <=> pc'[Server] # "off" /\ (newsd' = d \/ Waiting(d)')
               /\ newsd' = d => ~Waiting(d)'
               /\ pc'[d] = "start" => newsd' # d /\ ~Waiting(d)' /\ inbox'[<<d, "server">>] = <<>>
               /\ pc'[d] = "start" \/ Waiting(d)' =>
                    inbox'[<<d, "client">>] = <<>> /\ pc'[d] # "read2"
    <3>1. /\ pc[d] # "accept"
          /\ open[<<d, "client">>] <=> InLoop(d)
          /\ open[<<d, "server">>] <=> pc[Server] # "off" /\ (newsd = d \/ Waiting(d))
          /\ pc[d] = "start" => ~Waiting(d) /\ inbox[<<d, "server">>] = <<>>
          /\ pc[d] = "start" \/ Waiting(d) =>
               inbox[<<d, "client">>] = <<>> /\ pc[d] # "read2"
      BY <1>1 DEF LinkInv
    <3>2. pc'[d] = pc[d] /\ (InLoop(d)' <=> InLoop(d)) /\ open' = open /\ inbox' = inbox
      BY <1>2, <1>3 DEF InLoop
    <3>3. newsd # d /\ pc[Server] # "off"
      BY <1>2, <1>3, <2>1
    <3>4. QED
      BY <1>6, <1>8, <1>9, <2>2, <3>1, <3>2, <3>3
  <2>5. QED
    BY <2>2, <2>3, <2>4 DEF LinkInv, InLoop
<1>13. QED
  BY <1>5, <1>10, <1>11, <1>12 DEF ChatInv

(* The end of a connection: the server turns to the next, a client ends.    *)
LEMMA CloseKeepsChat == ASSUME ChatInv, NEW p \in Peers, Close(p) PROVE ChatInv'
<1>1. Types /\ LinesInv /\ LinkInv
  BY DEF ChatInv
<1>2. PICK l \in {"accept", "off"} :
        /\ l = (IF p = Server THEN "accept" ELSE "off")
        /\ pc[p] = "close" /\ pc' = [pc EXCEPT ![p] = l]
        /\ open' = [open EXCEPT ![Mine(p)] = FALSE]
        /\ newsd' = IF p = Server THEN None ELSE newsd
        /\ UNCHANGED <<backlog, typed, input, ready, inbox, arrived, rst, print>>
  BY DEF Close, Goto, typingVars
<1>3. /\ Server \in Peers /\ None \notin Clients
      /\ \A c \in Clients : c \in Peers /\ c # Server
      /\ \A q \in Peers : pc'[q] = IF q = p THEN l ELSE pc[q]
  BY <1>1, <1>2, ChatAssumption DEF Types, Peers
<1>4. InLoop(p)
  BY <1>2 DEF InLoop
<1>5. PICK m \in Ends : m = Mine(p) /\ m[1] = Link(p) /\ Reader(m) = p
  BY <1>1, <1>4, Linked
<1>6. \A e \in Ends : open'[e] = IF e = m THEN FALSE ELSE open[e]
  BY <1>1, <1>2, <1>5 DEF Types
<1>7. \A e \in Ends : /\ Half(e)' = Half(e) /\ First(e)' = First(e)
                      /\ HalfWritten(e)' <=> HalfWritten(e)
                      /\ Owes(e)' = Owes(e)
  <2>1. /\ pc[p] \notin {"read2", "write1", "write2"}
        /\ l \notin {"read2", "write1", "write2"}
        /\ pc' = [pc EXCEPT ![p] = l]
        /\ p = Server \/ UNCHANGED newsd
    BY <1>2
  <2>2. QED
    BY <1>1, <2>1, BetweenMessages, Zenon
<1>8. BufferInv' /\ CountInv' /\ StreamInv' /\ PairInv'
  BY <1>2, <1>6, <1>7, QuietEnds
<1>9. Types'
  <2>1. pc' \in [Peers -> Labels]
    BY <1>1, <1>2 DEF Types, Labels
  <2>2. open' \in [Ends -> BOOLEAN]
    BY <1>1, <1>2 DEF Types
  <2>3. newsd' \in Clients \cup {None}
    BY <1>1, <1>2 DEF Types
  <2>4. QED
    BY <1>1, <1>2, <2>1, <2>2, <2>3 DEF Types
<1>10. LinesInv'
  <2>1. UNCHANGED <<typed, input, ready>> /\ pc' = [pc EXCEPT ![p] = l] /\ l # "stdin"
    BY <1>2
  <2>2. QED
    BY <1>1, <2>1, LinesStay
<1>11. LinkInv'
  <2>1. ASSUME NEW d
        PROVE  Waiting(d)' <=> Waiting(d)
    BY <1>2 DEF Waiting
  <2>2. /\ pc'[Server] # "start"
        /\ pc'[Server] = "accept" => newsd' = None
        /\ InLoop(Server)' => newsd' # None
        /\ \A i, j \in 1..Len(backlog') : backlog'[i] = backlog'[j] => i = j
    BY <1>1, <1>2, <1>3 DEF LinkInv, InLoop
  <2>3. ASSUME NEW d \in Clients
        PROVE  /\ pc'[d] # "accept"
               /\ open'[<<d, "client">>] <=> InLoop(d)'
               /\ open'[<<d, "server">>]
                    <=> pc'[Server] # "off" /\ (newsd' = d \/ Waiting(d)')
               /\ newsd' = d => ~Waiting(d)'
               /\ pc'[d] = "start" => newsd' # d /\ ~Waiting(d)' /\ inbox'[<<d, "server">>] = <<>>
               /\ pc'[d] = "start" \/ Waiting(d)' =>
                    inbox'[<<d, "client">>] = <<>> /\ pc'[d] # "read2"
    <3>1. /\ pc[d] # "accept"
          /\ open[<<d, "client">>] <=> InLoop(d)
          /\ open[<<d, "server">>] <=> pc[Server] # "off" /\ (newsd = d \/ Waiting(d))
          /\ newsd = d => ~Waiting(d)
          /\ pc[d] = "start" => newsd # d /\ ~Waiting(d) /\ inbox[<<d, "server">>] = <<>>
          /\ pc[d] = "start" \/ Waiting(d) =>
               inbox[<<d, "client">>] = <<>> /\ pc[d] # "read2"
      BY <1>1 DEF LinkInv
    <3>2. <<d, "client">> \in Ends /\ <<d, "server">> \in Ends
      BY DEF Ends, Sides
    <3>3. CASE p = Server
      <4>1. /\ m = <<newsd, "server">> /\ newsd' = None
            /\ pc'[Server] = "accept" /\ pc[Server] = "close"
        BY <1>2, <1>3, <1>5, <3>3 DEF Mine, Link
      <4>2. pc'[d] = pc[d] /\ (InLoop(d)' <=> InLoop(d))
        BY <1>3, <3>3 DEF InLoop
      <4>3. open'[<<d, "client">>] = open[<<d, "client">>]
        BY <1>6, <3>2, <4>1
      <4>4. open'[<<d, "server">>] <=> open[<<d, "server">>] /\ d # newsd
        BY <1>6, <3>2, <4>1
      <4>5. QED
        BY <1>2, <1>3, <2>1, <3>1, <4>1, <4>2, <4>3, <4>4
    <3>4. CASE p # Server
      <4>1. m = <<p, "client">> /\ newsd' = newsd /\ pc'[Server] = pc[Server]
        BY <1>2, <1>3, <1>5, <3>4 DEF Mine, Link
      <4>2. /\ pc'[d] = (IF d = p THEN "off" ELSE pc[d])
            /\ InLoop(d)' <=> InLoop(d) /\ d # p
        BY <1>2, <1>3, <3>4 DEF InLoop
      <4>3. open'[<<d, "server">>] = open[<<d, "server">>]
        BY <1>6, <3>2, <4>1
      <4>4. open'[<<d, "client">>] <=> open[<<d, "client">>] /\ d # p
        BY <1>6, <3>2, <4>1
      <4>5. QED
        BY <1>2, <2>1, <3>1, <4>1, <4>2, <4>3, <4>4
    <3>5. QED
      BY <3>3, <3>4
  <2>4. QED
    BY <2>2, <2>3 DEF LinkInv
<1>12. QED
  BY <1>8, <1>9, <1>10, <1>11 DEF ChatInv

(* The start.                                                               *)
LEMMA InitChatInv == Init => ChatInv
<1> SUFFICES ASSUME Init PROVE ChatInv
  OBVIOUS
<1>1. /\ Server \in Peers /\ Server \notin Clients /\ MaxLines \in Nat /\ Window \in Nat
      /\ \A c \in Clients : c \in Peers /\ c # Server
  BY ChatAssumption DEF Peers
<1>2. Types
  BY <1>1 DEF Init, Types, Labels
<1>3. LinesInv
  BY <1>1 DEF Init, LinesInv
<1>4. ASSUME NEW c
      PROVE  ~Waiting(c)
  BY DEF Init, Waiting
<1>5. LinkInv
  <2>1. pc[Server] = "accept" /\ newsd = None /\ Len(backlog) = 0
    BY <1>1 DEF Init
  <2>2. ASSUME NEW c \in Clients
        PROVE  /\ pc[c] = "start" /\ newsd # c
               /\ ~open[<<c, "client">>] /\ ~open[<<c, "server">>]
               /\ inbox[<<c, "client">>] = <<>> /\ inbox[<<c, "server">>] = <<>>
    BY <1>1, <2>1, ChatAssumption DEF Init, Ends, Sides, Peers
  <2>3. QED
    BY <1>4, <2>1, <2>2 DEF LinkInv, InLoop
<1>6. \A e \in Ends : /\ inbox[e] = <<>> /\ Len(inbox[e]) = 0 /\ arrived[e] = 0 /\ print[e] = 0
                      /\ ~open[e]
  BY DEF Init
<1>7. \A e \in Ends : Half(e) = 0 /\ Owes(e) = 0
  <2> SUFFICES ASSUME NEW e \in Ends
               PROVE  Half(e) = 0 /\ Owes(e) = 0
    OBVIOUS
  <2>1. \A q \in Peers : pc[q] \notin {"read2", "write1", "write2"}
    BY DEF Init
  <2>2. QED
    BY <2>1, EndsArePeers DEF Half, HalfRead, Owes
<1>8. BufferInv
  BY <1>1, <1>6 DEF BufferInv
<1>9. CountInv
  <2> SUFFICES ASSUME NEW e \in Ends
               PROVE  2 * print[e] + Half(e) + Len(inbox[e]) + Owes(e)
                        <= 2 * (typed[Writer(e)] - input[Writer(e)])
    BY DEF CountInv
  <2>1. typed[Writer(e)] = 0 /\ input[Writer(e)] = 0
    BY EndsArePeers DEF Init
  <2>2. QED
    BY <1>6, <1>7, <2>1
<1>10. StreamInv
  BY <1>6 DEF StreamInv
<1>11. PairInv
  <2>1. \A c \in Clients : ~BothOpen(c)
    BY <1>6 DEF BothOpen, Ends, Sides
  <2>2. QED
    BY <2>1, EndsArePeers DEF PairInv
<1>12. QED
  BY <1>2, <1>3, <1>5, <1>8, <1>9, <1>10, <1>11 DEF ChatInv

(* Every step.                                                              *)
LEMMA NextChatInv == ChatInv /\ [Next]_vars => ChatInv'
<1> SUFFICES ASSUME ChatInv, [Next]_vars PROVE ChatInv'
  OBVIOUS
<1>1. CASE Accept
  BY <1>1, AcceptKeepsChat
<1>2. ASSUME NEW e \in Ends, Arrive(e)
      PROVE  ChatInv'
  BY <1>2, ArriveKeepsChat
<1>3. ASSUME NEW p \in Peers, Connect(p)
      PROVE  ChatInv'
  BY <1>3, ConnectKeepsChat DEF Connect
<1>4. ASSUME NEW p \in Peers, Type(p)
      PROVE  ChatInv'
  BY <1>4, TypeKeepsChat
<1>5. ASSUME NEW p \in Peers, WriteFails(p) \/ ReadFails(p) \/ Quit(p) \/ EncryptFails(p)
      PROVE  ChatInv'
  <2>1. Die(p) /\ pc[p] \notin {"start", "off"}
    BY <1>5 DEF WriteFails, Writing, ReadFails, Reading, Quit, EncryptFails
  <2>2. QED
    BY <2>1, DieKeepsChat
<1>6. ASSUME NEW p \in Peers, Step(p)
      PROVE  ChatInv'
  BY <1>5, <1>6, SelectKeepsChat, ReadLineKeepsChat, NoLineKeepsChat, WriteKeepsChat,
     ReadKeepsChat, CloseKeepsChat DEF Step
<1>7. CASE UNCHANGED vars
  BY <1>7, StutterKeepsChat
<1>8. ASSUME NEW p \in Peers, End(p)
      PROVE  ChatInv'
  BY <1>5, <1>8, DecryptKeepsChat DEF End
<1>9. QED
  BY <1>1, <1>2, <1>3, <1>4, <1>6, <1>7, <1>8 DEF Next

(* The inductive invariant of a chat, for any number of clients, lines and  *)
(* any window, whoever quits or fails and however late pieces arrive.       *)
THEOREM ChatInvariant == Spec => []ChatInv
BY InitChatInv, NextChatInv, PTL DEF Spec

(* Streams, buffers and processes stay in their types: no more is printed   *)
(* than was typed at the other end, and buffers are not overrun.            *)
THEOREM ChatTypes == Spec => []TypeOK
<1>1. ChatInv => TypeOK
  <2> SUFFICES ASSUME ChatInv PROVE TypeOK
    OBVIOUS
  <2>1. Types /\ LinesInv /\ BufferInv /\ CountInv
    BY DEF ChatInv
  <2>2. arrived \in [Ends -> 0..Window]
    <3> SUFFICES ASSUME NEW e \in Ends
                 PROVE  arrived[e] \in 0..Window
      BY <2>1 DEF Types
    <3>1. arrived[e] \in Nat /\ Len(inbox[e]) \in Nat
      BY <2>1, PieceNumbers
    <3>2. arrived[e] <= Len(inbox[e]) /\ Len(inbox[e]) <= Window
      BY <2>1 DEF BufferInv
    <3>3. QED
      BY <3>1, <3>2, ChatAssumption
  <2>3. print \in [Ends -> 0..MaxLines]
    <3> SUFFICES ASSUME NEW e \in Ends
                 PROVE  print[e] \in 0..MaxLines
      BY <2>1 DEF Types
    <3>1. PICK P \in Nat, H \in Nat, L \in Nat, O \in Nat, t \in Nat, i \in Nat :
            /\ P = print[e] /\ H = Half(e) /\ L = Len(inbox[e]) /\ O = Owes(e)
            /\ t = typed[Writer(e)] /\ i = input[Writer(e)]
      <4>1. /\ print[e] \in Nat /\ Half(e) \in Nat /\ Len(inbox[e]) \in Nat /\ Owes(e) \in Nat
            /\ typed[Writer(e)] \in Nat /\ input[Writer(e)] \in Nat
        BY <2>1, PieceNumbers
      <4>2. QED
        BY <4>1, Zenon
    <3>2. 2 * print[e] + Half(e) + Len(inbox[e]) + Owes(e)
            <= 2 * (typed[Writer(e)] - input[Writer(e)])
      BY <2>1 DEF CountInv
    <3>3. 2 * P + H + L + O <= 2 * (t - i)
      BY <3>1, <3>2
    <3>4. MaxLines \in Nat /\ t <= MaxLines
      BY <2>1, <3>1, LineNumbers, EndsArePeers
    <3>5. P <= MaxLines
      BY <3>3, <3>4
    <3>6. QED
      BY <3>1, <3>4, <3>5
  <2>4. QED
    BY <2>1, <2>2, <2>3 DEF Types, TypeOK
<1>2. QED
  BY <1>1, ChatInvariant, PTL

(* What waits for an end are whole messages from where get_and_print goes   *)
(* on: both ends keep in step, also when a line or a reading is cut short   *)
(* by the end of a process.                                                 *)
THEOREM EndsStayInStep == Spec => []InStep
<1>1. ChatInv => InStep
  <2> SUFFICES ASSUME ChatInv, NEW p \in Peers, Link(p) # None, pc[p] # "off",
                      NEW k \in DOMAIN inbox[Mine(p)]
               PROVE  (inbox[Mine(p)][k] = IF pc[p] = "read2" THEN "body" ELSE "head")
                        <=> (k % 2 = 1)
    BY DEF InStep
  <2>1. Types /\ LinkInv /\ StreamInv
    BY DEF ChatInv
  <2>2. CASE InLoop(p)
    <3>1. PICK m \in Ends : m = Mine(p) /\ open[m] /\ Reader(m) = p /\ m[1] = Link(p)
      BY <2>1, <2>2, Linked
    <3>2. inbox[m] \in Seq(Parts) /\ k \in 1..Len(inbox[m])
      BY <2>1, <3>1, PieceNumbers
    <3>3. inbox[m][k] = First(m) <=> k % 2 = 1
      BY <2>1, <3>1, <3>2 DEF StreamInv
    <3>4. First(m) = IF pc[p] = "read2" THEN "body" ELSE "head"
      BY <3>1 DEF First, HalfRead
    <3>5. QED
      BY <3>1, <3>3, <3>4
  <2>3. CASE ~InLoop(p)
    <3>1. p # Server
      BY <2>1, <2>3 DEF LinkInv, InLoop, Link
    <3>2. p \in Clients /\ pc[p] = "start" /\ Mine(p) = <<p, "client">>
      BY <2>1, <2>3, <3>1 DEF LinkInv, InLoop, Peers, Mine, Link
    <3>3. inbox[Mine(p)] = <<>>
      BY <2>1, <3>2 DEF LinkInv
    <3>4. QED
      BY <3>3
  <2>4. QED
    BY <2>2, <2>3
<1>2. QED
  BY <1>1, ChatInvariant, PTL

------------------------------------------------------------------------------
(* Both stuck in insist_write: how many pieces can be in the two directions *)
(* of a connection on one host.                                             *)

(* What the rest of an iteration can add, place by place.                   *)
LEMMA GainValues ==
  ASSUME NEW p
  PROVE  /\ pc[p] \in {"stdin", "write1"} =>
              Gain(p) = (IF "sock" \in ready[p] THEN 0 ELSE 2)
         /\ pc[p] = "write2" => Gain(p) = (IF "sock" \in ready[p] THEN -1 ELSE 1)
         /\ pc[p] = "sock" => Gain(p) = (IF "sock" \in ready[p] THEN -2 ELSE 0)
         /\ pc[p] = "read1" => Gain(p) = -2
         /\ pc[p] = "read2" => Gain(p) = -1
         /\ pc[p] \notin {"stdin", "write1", "write2", "sock", "read1", "read2"} => Gain(p) = 0
         /\ Gain(p) \in -2..2
BY DEF Gain

(* Where nothing happens nothing is gained.                                 *)
LEMMA SameGain ==
  ASSUME NEW p, pc'[p] = pc[p], ready'[p] = ready[p]
  PROVE  Gain(p)' = Gain(p)
BY DEF Gain

(* What p does in its loop leaves room if it adds little.                   *)
LEMMA LoopKeepsNear ==
  ASSUME ChatInv, NearInv, NEW p \in Peers, InLoop(p), NEW l, pc' = [pc EXCEPT ![p] = l],
         NEW m, m = Mine(p), NEW o, o = Other(p), AddsLittle(p, m, o)
  PROVE  NotMuch'
<1> USE DEF AddsLittle
<1> SUFFICES ASSUME NEW c \in Clients, newsd = c, BothOpen(c)
             PROVE  InFlight(c)' + Gain(Server)' + Gain(c)' <= Window + 4
  BY DEF BothOpen, NotMuch
<1>1. Types /\ LinkInv /\ Window \in Nat
  BY ChatAssumption DEF ChatInv
<1>2. InFlight(c) + Gain(Server) + Gain(c) <= Window + 4
  BY DEF NearInv, NotMuch
<1>3. /\ c \in Peers /\ Server \in Peers /\ c # Server
      /\ <<c, "server">> \in Ends /\ <<c, "client">> \in Ends
  BY ChatAssumption DEF Peers, Ends, Sides
<1>4. \A q \in Peers \ {p} : pc'[q] = pc[q]
  BY <1>1 DEF Types
<1>5. \A q \in Peers \ {p} : Gain(q)' = Gain(q)
  BY <1>4, SameGain
<1>6. PICK A \in Nat, B \in Nat, C \in Nat, D \in Nat :
        /\ A = Len(inbox[<<c, "server">>]) /\ B = Len(inbox[<<c, "client">>])
        /\ C = Len(inbox'[<<c, "server">>]) /\ D = Len(inbox'[<<c, "client">>])
  <2>1. /\ inbox[<<c, "server">>] \in Seq(Parts) /\ inbox[<<c, "client">>] \in Seq(Parts)
        /\ inbox'[<<c, "server">>] \in Seq(Parts) /\ inbox'[<<c, "client">>] \in Seq(Parts)
    BY <1>1, <1>3 DEF Types
  <2>2. /\ Len(inbox[<<c, "server">>]) \in Nat /\ Len(inbox[<<c, "client">>]) \in Nat
        /\ Len(inbox'[<<c, "server">>]) \in Nat /\ Len(inbox'[<<c, "client">>]) \in Nat
    BY <2>1
  <2>3. QED
    BY <2>2, Zenon
<1>7. PICK G \in -2..2, H \in -2..2, K \in -2..2, M \in -2..2 :
        G = Gain(Server) /\ H = Gain(c) /\ K = Gain(Server)' /\ M = Gain(c)'
  <2>1. Gain(Server) \in -2..2 /\ Gain(c) \in -2..2
    BY GainValues
  <2>2. Gain(Server)' \in -2..2 /\ Gain(c)' \in -2..2
    BY DEF Gain
  <2>3. QED
    BY <2>1, <2>2, Zenon
<1>8. A + B + G + H <= Window + 4
  BY <1>2, <1>6, <1>7 DEF InFlight
<1>9. C + D + K + M <= Window + 4
  <2>1. CASE p = Server
    <3>1. m = <<c, "server">> /\ o = <<c, "client">> /\ open[o]
      BY <2>1 DEF Mine, Other, Link, BothOpen
    <3>2. M = H
      BY <1>3, <1>5, <1>7, <2>1
    <3>3. C + D + K <= A + B + G \/ C + D + K <= Window + 2
      BY <1>6, <1>7, <2>1, <3>1
    <3>4. QED
      BY <1>1, <1>8, <3>2, <3>3
  <2>2. CASE p = c
    <3>1. m = <<c, "client">> /\ o = <<c, "server">> /\ open[o]
      BY <1>3, <2>2 DEF Mine, Other, Link, BothOpen
    <3>2. K = G
      BY <1>3, <1>5, <1>7, <2>2
    <3>3. D + C + M <= B + A + H \/ D + C + M <= Window + 2
      BY <1>6, <1>7, <2>2, <3>1
    <3>4. QED
      BY <1>1, <1>8, <3>2, <3>3
  <2>3. CASE p # Server /\ p # c
    <3>1. m[1] = p /\ o[1] = p
      BY <2>3 DEF Mine, Other, Link
    <3>2. <<c, "server">> \notin {m, o} /\ <<c, "client">> \notin {m, o}
      BY <2>3, <3>1
    <3>3. C = A /\ D = B
      BY <1>3, <1>6, <3>2
    <3>4. K = G /\ M = H
      BY <1>3, <1>5, <1>7, <2>3
    <3>5. QED
      BY <1>8, <3>3, <3>4
  <2>4. QED
    BY <2>1, <2>2, <2>3
<1>10. InFlight(c)' = C + D
  BY <1>6 DEF InFlight
<1>11. QED
  BY <1>7, <1>9, <1>10

(* Steps that send and receive nothing.                                     *)
LEMMA SilentKeepsNear ==
  ASSUME ChatInv, NearInv, NEW p \in Peers,
         Select(p) \/ ReadLine(p) \/ NoLine(p) \/ EnterRead(p) \/ ReadEnd(p)
  PROVE  NearInv'
<1>1. Types /\ LinkInv /\ BufferInv
  BY DEF ChatInv
<1>2. UNCHANGED <<newsd, open, inbox, arrived>>
  BY DEF Select, ReadLine, NoLine, EnterRead, ReadEnd, linkVars
<1>3. PICK l \in Labels : pc' = [pc EXCEPT ![p] = l] /\ InLoop(p)
  BY DEF Select, ReadLine, NoLine, EnterRead, ReadEnd, Goto, Labels, InLoop
<1>4. PICK m \in Ends, o \in Ends : m = Mine(p) /\ o = Other(p) /\ m # o
  BY <1>1, <1>3, Linked
<1>5. pc'[p] = l
  BY <1>1, <1>3 DEF Types
<1>6. PICK A \in Nat, B \in Nat :
        A = Len(inbox[m]) /\ B = Len(inbox[o]) /\ B <= Window
  <2>1. Len(inbox[m]) \in Nat /\ Len(inbox[o]) \in Nat /\ Len(inbox[o]) <= Window
    BY <1>1, <1>4, PieceNumbers DEF BufferInv
  <2>2. QED
    BY <2>1, Zenon
<1>7. /\ \A q \in Peers \ {p} : ready'[q] = ready[q]
      /\ open[o] => \/ Gain(p)' <= Gain(p)
                    \/ A = 0 /\ Gain(p)' = 2
  <2>1. CASE Select(p)
    <3>1. pc[p] = "select" /\ l = "stdin" /\ ready' = [ready EXCEPT ![p] = Readable(p)]
      BY <1>1, <1>3, <1>5, <2>1 DEF Select, Goto, Types
    <3>2. ready'[p] = Readable(p) /\ \A q \in Peers \ {p} : ready'[q] = ready[q]
      BY <1>1, <3>1 DEF Types
    <3>3. Gain(p) = 0
      BY <3>1, GainValues
    <3>4. Gain(p)' = IF "sock" \in ready'[p] THEN 0 ELSE 2
      BY <1>5, <3>1 DEF Gain
    <3>5. CASE "sock" \in ready'[p]
      BY <3>2, <3>3, <3>4, <3>5
    <3>6. CASE "sock" \notin ready'[p]
      <4>1. ~(arrived[m] > 0)
        BY <1>4, <3>2, <3>6 DEF Readable
      <4>2. arrived[m] \in Nat /\ arrived[m] = Len(inbox[m])
        BY <1>1, <1>4 DEF Types, NearInv, AllArrived
      <4>3. A = 0
        BY <1>6, <4>1, <4>2
      <4>4. QED
        BY <3>2, <3>4, <3>6, <4>3
    <3>7. QED
      BY <3>5, <3>6
  <2>2. CASE ReadLine(p) \/ NoLine(p) \/ EnterRead(p)
    <3>1. UNCHANGED ready
      BY <2>2 DEF ReadLine, NoLine, EnterRead
    <3>2. \/ pc[p] = "stdin" /\ l \in {"write1", "sock"}
          \/ pc[p] = "sock" /\ "sock" \in ready[p] /\ l = "read1"
          \/ pc[p] = "sock" /\ "sock" \notin ready[p] /\ l = "select"
      BY <1>1, <1>5, <2>2 DEF ReadLine, NoLine, EnterRead, Goto, Types
    <3>3. Gain(p)' <= Gain(p)
      BY <1>5, <3>1, <3>2 DEF Gain
    <3>4. QED
      BY <3>1, <3>3
  <2>3. CASE ReadEnd(p)
    BY <1>4, <2>3 DEF ReadEnd
  <2>4. QED
    BY <2>1, <2>2, <2>3
<1>8. PICK G \in -2..2, K \in -2..2 : G = Gain(p) /\ K = Gain(p)'
  <2>1. Gain(p) \in -2..2 /\ Gain(p)' \in -2..2
    BY GainValues DEF Gain
  <2>2. QED
    BY <2>1, Zenon
<1>9. open[o] => A + B + K <= A + B + G \/ A + B + K <= Window + 2
  <2>1. Window \in Nat /\ B <= Window
    BY <1>6, ChatAssumption
  <2>2. open[o] => K <= G \/ (A = 0 /\ K = 2)
    BY <1>7, <1>8, Zenon
  <2>3. K <= G => A + B + K <= A + B + G
    OBVIOUS
  <2>4. A = 0 /\ K = 2 => A + B + K <= Window + 2
    BY <2>1
  <2>5. QED
    BY <2>2, <2>3, <2>4
<1>10. AddsLittle(p, m, o)
  BY <1>1, <1>2, <1>6, <1>7, <1>8, <1>9 DEF Types, AddsLittle
<1>11. NotMuch'
  BY <1>3, <1>4, <1>10, LoopKeepsNear
<1>12. AllArrived'
  BY <1>2 DEF NearInv, AllArrived
<1>13. QED
  BY <1>11, <1>12 DEF NearInv

(* Sending takes as much from what is to come as it adds.                   *)
LEMMA WriteKeepsNear ==
  ASSUME ~Delay, ChatInv, NearInv, NEW p \in Peers, Write(p)
  PROVE  NearInv'
<1>1. Types /\ LinkInv /\ Types'
  BY WriteKeepsChat DEF ChatInv
<1>2. /\ UNCHANGED <<newsd, open, ready>>
      /\ pc[p] \in {"write1", "write2"}
  BY DEF Write, typingVars, Goto
<1>3. PICK l : /\ pc' = [pc EXCEPT ![p] = l]
               /\ l = (IF pc[p] = "write1" THEN "write2" ELSE "sock")
  BY DEF Write, Goto
<1>4. InLoop(p)
  BY <1>2 DEF InLoop
<1>5. PICK m \in Ends, o \in Ends : m = Mine(p) /\ o = Other(p) /\ m # o
  BY <1>1, <1>4, Linked
<1>6. pc'[p] = l
  BY <1>1, <1>3 DEF Types
<1>7. Gain(p)' = Gain(p) - 1
  BY <1>2, <1>3, <1>6 DEF Gain
<1>8. CASE open[o]
  <2>1. PICK x \in Parts : inbox' = [inbox EXCEPT ![o] = Append(@, x)]
    BY <1>5, <1>8 DEF Write, Parts
  <2>2. arrived' = [arrived EXCEPT ![o] = @ + 1]
    BY <1>5, <1>8 DEF Write
  <2>3. PICK A \in Nat, B \in Nat : A = Len(inbox[m]) /\ B = Len(inbox[o])
    <3>1. Len(inbox[m]) \in Nat /\ Len(inbox[o]) \in Nat
      BY <1>1, <1>5, PieceNumbers
    <3>2. QED
      BY <3>1, Zenon
  <2>4. /\ Len(inbox'[o]) = B + 1 /\ inbox'[m] = inbox[m]
        /\ \A e \in Ends \ {o} : inbox'[e] = inbox[e]
    <3>1. inbox[o] \in Seq(Parts) /\ inbox'[o] = Append(inbox[o], x)
      BY <1>1, <1>5, <2>1 DEF Types
    <3>2. \A e \in Ends \ {o} : inbox'[e] = inbox[e]
      BY <1>1, <2>1 DEF Types
    <3>3. QED
      BY <1>5, <2>3, <3>1, <3>2
  <2>5. \A e \in Ends : arrived'[e] = Len(inbox'[e])
    <3>1. \A e \in Ends : arrived[e] = Len(inbox[e])
      BY DEF NearInv, AllArrived
    <3>2. \A e \in Ends \ {o} : arrived'[e] = arrived[e]
      BY <1>1, <2>2 DEF Types
    <3>3. arrived'[o] = B + 1
      BY <1>1, <1>5, <2>2, <2>3, <3>1 DEF Types
    <3>4. QED
      BY <2>4, <3>1, <3>2, <3>3
  <2>6. PICK G \in -2..2 : G = Gain(p)
    BY GainValues
  <2>7. A + (B + 1) + (G - 1) <= A + B + G
    OBVIOUS
  <2>8. Len(inbox'[m]) + Len(inbox'[o]) + Gain(p)' <= Len(inbox[m]) + Len(inbox[o]) + Gain(p)
    BY <1>7, <2>3, <2>4, <2>6, <2>7
  <2>9. AddsLittle(p, m, o)
    BY <1>1, <1>2, <2>4, <2>8 DEF Types, AddsLittle
  <2>10. NotMuch'
    BY <1>3, <1>4, <1>5, <2>9, LoopKeepsNear
  <2>11. QED
    BY <2>5, <2>10 DEF NearInv, AllArrived
<1>9. CASE ~open[o]
  <2>1. UNCHANGED <<inbox, arrived>>
    BY <1>5, <1>9 DEF Write
  <2>2. AddsLittle(p, m, o)
    BY <1>1, <1>2, <1>9, <2>1 DEF Types, AddsLittle
  <2>3. NotMuch'
    BY <1>3, <1>4, <1>5, <2>2, LoopKeepsNear
  <2>4. QED
    BY <2>1, <2>3 DEF NearInv, AllArrived
<1>10. QED
  BY <1>8, <1>9

(* Reading adds to what is to come what it takes.                           *)
LEMMA ReadKeepsNear ==
  ASSUME ChatInv, NearInv, NEW p \in Peers, Read(p)
  PROVE  NearInv'
<1>1. Types /\ LinkInv /\ BufferInv /\ Types'
  BY ReadKeepsChat DEF ChatInv
<1>2. PICK m : m = Mine(p)
  OBVIOUS
<1>3. PICK l : /\ pc' = [pc EXCEPT ![p] = l] /\ pc[p] \in {"read1", "read2"}
               /\ l = (IF pc[p] = "read1" THEN "read2" ELSE "select")
               /\ arrived[m] > 0
               /\ inbox' = [inbox EXCEPT ![m] = Tail(@)]
               /\ arrived' = [arrived EXCEPT ![m] = @ - 1]
               /\ UNCHANGED <<newsd, open, ready>>
  BY <1>2 DEF Read, Goto
<1>4. InLoop(p)
  BY <1>3 DEF InLoop
<1>5. PICK o \in Ends : m \in Ends /\ o = Other(p) /\ m # o
  BY <1>1, <1>2, <1>4, Linked
<1>6. pc'[p] = l
  BY <1>1, <1>3 DEF Types
<1>7. Gain(p)' = Gain(p) + 1
  BY <1>3, <1>6 DEF Gain
<1>8. PICK A \in Nat, B \in Nat :
        A = Len(inbox[m]) /\ B = Len(inbox[o]) /\ arrived[m] = A /\ A > 0
  <2>1. Len(inbox[m]) \in Nat /\ Len(inbox[o]) \in Nat
    BY <1>1, <1>5, PieceNumbers
  <2>2. arrived[m] = Len(inbox[m])
    BY <1>5 DEF NearInv, AllArrived
  <2>3. Len(inbox[m]) > 0
    BY <1>3, <2>2
  <2>4. QED
    BY <2>1, <2>2, <2>3, Zenon
<1>9. /\ Len(inbox'[m]) = A - 1 /\ inbox'[o] = inbox[o]
      /\ \A e \in Ends \ {m} : inbox'[e] = inbox[e]
  <2>1. inbox[m] \in Seq(Parts) /\ inbox'[m] = Tail(inbox[m]) /\ inbox[m] # <<>>
    BY <1>1, <1>3, <1>5, <1>8 DEF Types
  <2>2. \A e \in Ends \ {m} : inbox'[e] = inbox[e]
    BY <1>1, <1>3 DEF Types
  <2>3. QED
    BY <1>5, <1>8, <2>1, <2>2
<1>10. \A e \in Ends : arrived'[e] = Len(inbox'[e])
  <2>1. \A e \in Ends : arrived[e] = Len(inbox[e])
    BY DEF NearInv, AllArrived
  <2>2. \A e \in Ends \ {m} : arrived'[e] = arrived[e]
    BY <1>1, <1>3 DEF Types
  <2>3. arrived'[m] = A - 1
    BY <1>1, <1>3, <1>5, <1>8 DEF Types
  <2>4. QED
    BY <1>9, <2>1, <2>2, <2>3
<1>11. PICK G \in -2..2 : G = Gain(p)
  BY GainValues
<1>12. (A - 1) + B + (G + 1) <= A + B + G
  OBVIOUS
<1>13. Len(inbox'[m]) + Len(inbox'[o]) + Gain(p)' <= Len(inbox[m]) + Len(inbox[o]) + Gain(p)
  BY <1>7, <1>8, <1>9, <1>11, <1>12
<1>14. AddsLittle(p, m, o)
  BY <1>1, <1>3, <1>9, <1>13 DEF Types, AddsLittle
<1>15. NotMuch'
  BY <1>2, <1>3, <1>4, <1>5, <1>14, LoopKeepsNear
<1>16. QED
  BY <1>10, <1>15 DEF NearInv, AllArrived

(* The server's connection and its two processes stay as they are.          *)
LEMMA BothStay ==
  ASSUME NearInv, AllArrived', UNCHANGED newsd,
         \A c \in Clients : newsd = c /\ BothOpen(c)' =>
           /\ BothOpen(c) /\ InFlight(c)' = InFlight(c)
           /\ \A q \in {c, Server} : pc'[q] = pc[q] /\ ready'[q] = ready[q]
  PROVE  NearInv'
<1>1. ASSUME NEW c \in Clients, newsd' = c, BothOpen(c)'
      PROVE  InFlight(c)' + Gain(Server)' + Gain(c)' <= Window + 4
  <2>1. Gain(Server)' = Gain(Server) /\ Gain(c)' = Gain(c) /\ InFlight(c)' = InFlight(c)
    BY <1>1, SameGain
  <2>2. InFlight(c) + Gain(Server) + Gain(c) <= Window + 4
    BY <1>1 DEF NearInv, NotMuch
  <2>3. QED
    BY <2>1, <2>2
<1>2. QED
  BY <1>1 DEF NearInv, NotMuch

LEMMA BothStayAsTheyAre ==
  ASSUME NearInv, UNCHANGED <<newsd, inbox, arrived>>,
         \A c \in Clients : newsd = c /\ BothOpen(c)' =>
           /\ BothOpen(c)
           /\ \A q \in {c, Server} : pc'[q] = pc[q] /\ ready'[q] = ready[q]
  PROVE  NearInv'
<1>1. AllArrived'
  BY DEF NearInv, AllArrived
<1>2. \A c \in Clients : InFlight(c)' = InFlight(c)
  BY DEF InFlight
<1>3. QED
  BY <1>1, <1>2, BothStay

(* A piece is read before decrypt() fails.                                  *)
LEMMA LastPieceTaken ==
  ASSUME ChatInv, NearInv, NEW p \in Peers, DecryptFails(p)
  PROVE  AllArrived' /\ \A e \in Ends : e # Mine(p) => inbox'[e] = inbox[e]
<1>1. Types /\ LinkInv
  BY DEF ChatInv
<1>2. PICK m : m = Mine(p)
  OBVIOUS
<1>3. /\ pc[p] = "read2" /\ arrived[m] > 0
      /\ inbox' = [inbox EXCEPT ![m] = Tail(@)]
      /\ arrived' = [arrived EXCEPT ![m] = @ - 1]
  BY <1>2 DEF DecryptFails, Goto
<1>4. m \in Ends
  BY <1>1, <1>2, <1>3, Linked DEF InLoop
<1>5. PICK A \in Nat : A = arrived[m] /\ A = Len(inbox[m]) /\ inbox[m] \in Seq(Parts)
  BY <1>1, <1>4 DEF Types, NearInv, AllArrived
<1>6. Len(inbox'[m]) = A - 1 /\ arrived'[m] = A - 1
  <2>1. inbox'[m] = Tail(inbox[m]) /\ arrived'[m] = A - 1 /\ A > 0
    BY <1>1, <1>3, <1>4, <1>5 DEF Types
  <2>2. QED
    BY <1>5, <2>1
<1>7. \A e \in Ends : e # m => inbox'[e] = inbox[e] /\ arrived'[e] = arrived[e]
  BY <1>1, <1>3 DEF Types
<1>8. QED
  BY <1>2, <1>6, <1>7 DEF NearInv, AllArrived

(* Every step, on one host.                                                 *)
LEMMA NextNearInv ==
  ASSUME ~Delay, ChatInv, NearInv, [Next]_vars
  PROVE  NearInv'
<1>1. Types /\ LinkInv /\ BufferInv
  BY DEF ChatInv
<1>2. /\ Server \in Peers /\ Server \notin Clients /\ None \notin Clients
      /\ \A c \in Clients : /\ c \in Peers /\ c # Server
                            /\ <<c, "server">> \in Ends /\ <<c, "client">> \in Ends
  BY ChatAssumption DEF Peers, Ends, Sides
<1>3. CASE Accept
  <2>1. /\ pc[Server] = "accept" /\ pc' = [pc EXCEPT ![Server] = "select"]
        /\ backlog # <<>> /\ newsd' = Head(backlog)
        /\ UNCHANGED <<inbox, arrived>>
    BY <1>3 DEF Accept, Goto, linkVars
  <2>2. ASSUME NEW c \in Clients, newsd' = c
        PROVE  InFlight(c)' + Gain(Server)' + Gain(c)' <= Window + 4
    <3>1. Waiting(c)
      <4>1. 1 \in 1..Len(backlog) /\ backlog[1] = c
        BY <1>1, <2>1, <2>2 DEF Types
      <4>2. QED
        BY <4>1 DEF Waiting
    <3>2. inbox[<<c, "client">>] = <<>>
      BY <1>1, <3>1 DEF LinkInv
    <3>3. PICK A \in Nat : A = Len(inbox[<<c, "server">>]) /\ A <= Window
      BY <1>1, <1>2, PieceNumbers DEF BufferInv
    <3>4. InFlight(c)' = A
      BY <2>1, <3>2, <3>3 DEF InFlight
    <3>5. pc'[Server] = "select"
      BY <1>1, <1>2, <2>1 DEF Types
    <3>6. Gain(Server)' = 0 /\ Gain(c)' \in -2..2
      BY <3>5, GainValues DEF Gain
    <3>7. QED
      BY <3>3, <3>4, <3>6, ChatAssumption
  <2>3. QED
    BY <2>1, <2>2 DEF NearInv, AllArrived, NotMuch
<1>4. ASSUME NEW e \in Ends, Arrive(e)
      PROVE  NearInv'
  <2>1. arrived[e] = Len(inbox[e]) /\ arrived[e] \in Nat /\ arrived[e] < Len(inbox[e])
    BY <1>1, <1>4 DEF NearInv, AllArrived, Arrive, Types
  <2>2. QED
    BY <2>1
<1>5. ASSUME NEW d \in Peers, Connect(d)
      PROVE  NearInv'
  <2>1. /\ pc[d] = "start" /\ pc' = [pc EXCEPT ![d] = "select"] /\ d \in Clients
        /\ open' = [e \in Ends |-> open[e] \/ e[1] = d]
        /\ UNCHANGED <<newsd, ready, inbox, arrived>>
    BY <1>5 DEF Connect, Goto
  <2>2. newsd # d /\ d # Server
    BY <1>1, <1>2, <2>1 DEF LinkInv
  <2>3. ASSUME NEW c \in Clients, newsd = c, BothOpen(c)'
        PROVE  /\ BothOpen(c)
               /\ \A q \in {c, Server} : pc'[q] = pc[q] /\ ready'[q] = ready[q]
    <3>1. c # d
      BY <2>2, <2>3
    <3>2. BothOpen(c)
      BY <1>2, <2>1, <2>3, <3>1 DEF BothOpen
    <3>3. \A q \in {c, Server} : pc'[q] = pc[q] /\ ready'[q] = ready[q]
      BY <1>1, <1>2, <2>1, <2>2, <3>1 DEF Types
    <3>4. QED
      BY <3>2, <3>3
  <2>4. QED
    BY <2>1, <2>3, BothStayAsTheyAre
<1>6. ASSUME NEW p \in Peers, Type(p) \/ UNCHANGED vars
      PROVE  NearInv'
  <2>1. UNCHANGED <<pc, newsd, ready, inbox, arrived, open>>
    BY <1>6 DEF Type, vars, linkVars
  <2>2. \A c \in Clients : BothOpen(c)' => BothOpen(c)
    BY <2>1 DEF BothOpen
  <2>3. QED
    BY <2>1, <2>2, BothStayAsTheyAre
<1>7. ASSUME NEW p \in Peers, Die(p) \/ DecryptFails(p)
      PROVE  NearInv'
  <2>1. /\ pc' = [pc EXCEPT ![p] = "off"]
        /\ open' = [e \in Ends |-> open[e] /\ e \notin EndsOf(p)]
        /\ UNCHANGED <<newsd, ready>>
    BY <1>7 DEF Die, DecryptFails, Goto, KernelCloses
  <2>2. /\ AllArrived'
        /\ \A e \in Ends : e # Mine(p) => inbox'[e] = inbox[e]
    <3>1. CASE Die(p)
      BY <3>1 DEF Die, NearInv, AllArrived
    <3>2. CASE DecryptFails(p)
      BY <3>2, LastPieceTaken
    <3>3. QED
      BY <1>7, <3>1, <3>2
  <2>3. ASSUME NEW c \in Clients, newsd = c, BothOpen(c)'
        PROVE  /\ BothOpen(c) /\ InFlight(c)' = InFlight(c)
               /\ \A q \in {c, Server} : pc'[q] = pc[q] /\ ready'[q] = ready[q]
    <3>1. BothOpen(c) /\ <<c, "server">> \notin EndsOf(p) /\ <<c, "client">> \notin EndsOf(p)
      BY <1>2, <2>1, <2>3 DEF BothOpen
    <3>2. p # Server /\ p # c
      BY <1>2, <3>1 DEF EndsOf
    <3>3. Mine(p) # <<c, "server">> /\ Mine(p) # <<c, "client">>
      BY <3>2 DEF Mine, Link
    <3>4. InFlight(c)' = InFlight(c)
      BY <1>2, <2>2, <3>3 DEF InFlight
    <3>5. QED
      BY <1>1, <1>2, <2>1, <3>1, <3>2, <3>4 DEF Types
  <2>4. QED
    BY <2>1, <2>2, <2>3, BothStay
<1>8. ASSUME NEW p \in Peers, Close(p)
      PROVE  NearInv'
  <2>1. PICK l : /\ pc[p] = "close" /\ pc' = [pc EXCEPT ![p] = l]
                 /\ open' = [open EXCEPT ![Mine(p)] = FALSE]
                 /\ newsd' = IF p = Server THEN None ELSE newsd
                 /\ UNCHANGED <<ready, inbox, arrived>>
    BY <1>8 DEF Close, Goto
  <2>2. CASE p = Server
    BY <1>2, <2>1, <2>2 DEF NearInv, AllArrived, NotMuch
  <2>3. CASE p # Server
    <3>1. newsd' = newsd /\ p \in Clients /\ Mine(p) = <<p, "client">>
      BY <2>1, <2>3 DEF Peers, Mine, Link
    <3>2. ASSUME NEW c \in Clients, newsd = c, BothOpen(c)'
          PROVE  /\ BothOpen(c)
                 /\ \A q \in {c, Server} : pc'[q] = pc[q] /\ ready'[q] = ready[q]
      <4>1. \A e \in Ends : open'[e] = IF e = <<p, "client">> THEN FALSE ELSE open[e]
        BY <1>1, <2>1, <3>1 DEF Types
      <4>2. p # c /\ BothOpen(c)
        BY <1>2, <3>2, <4>1 DEF BothOpen
      <4>3. QED
        BY <1>1, <1>2, <2>1, <2>3, <4>2 DEF Types
    <3>3. QED
      BY <2>1, <3>1, <3>2, BothStayAsTheyAre
  <2>4. QED
    BY <2>2, <2>3
<1>9. ASSUME NEW p \in Peers, Step(p)
      PROVE  NearInv'
  <2>1. CASE WriteFails(p) \/ ReadFails(p)
    BY <1>7, <2>1 DEF WriteFails, ReadFails
  <2>2. CASE Close(p)
    BY <1>8, <2>2
  <2>3. QED
    BY <1>9, <2>1, <2>2, SilentKeepsNear, WriteKeepsNear, ReadKeepsNear DEF Step
<1>10. ASSUME NEW p \in Peers, End(p)
       PROVE  NearInv'
  BY <1>7, <1>10 DEF End, Quit, EncryptFails
<1>11. CASE UNCHANGED vars
  BY <1>2, <1>6, <1>11
<1>12. QED
  BY <1>3, <1>4, <1>5, <1>6, <1>9, <1>10, <1>11 DEF Next

(* Where nothing takes time to arrive, no more than Window + 4 pieces are   *)
(* ever on their way or due in the two directions of a connection.          *)
THEOREM NeverMuchInFlight ==
  ASSUME ~Delay
  PROVE  Spec => [](ChatInv /\ NearInv)
<1>1. Init => NearInv
  <2> SUFFICES ASSUME Init PROVE NearInv
    OBVIOUS
  <2>1. \A e \in Ends : arrived[e] = 0 /\ inbox[e] = <<>>
    BY DEF Init
  <2>2. newsd \notin Clients
    BY ChatAssumption DEF Init, Peers
  <2>3. QED
    BY <2>1, <2>2 DEF NearInv, AllArrived, NotMuch
<1>2. ChatInv /\ NearInv /\ [Next]_vars => NearInv'
  BY NextNearInv
<1>3. QED
  BY <1>1, <1>2, InitChatInv, NextChatInv, PTL DEF Spec

(* On one host, where what is written can be read at once, the server and   *)
(* its client are never both stuck in insist_write if three messages fit in *)
(* each direction, for any number of clients and lines.                     *)
THEOREM NeverBothStuck ==
  ASSUME ~Delay, Window >= 6
  PROVE  Spec => []NoMutualBlock
<1>1. ChatInv /\ NearInv => NoMutualBlock
  <2> SUFFICES ASSUME ChatInv, NearInv, MutualBlock
               PROVE  FALSE
    BY DEF NoMutualBlock
  <2>1. Types /\ LinkInv /\ PairInv /\ Window \in Nat
    BY ChatAssumption DEF ChatInv
  <2>2. PICK c \in Clients : newsd = c
    BY <2>1 DEF MutualBlock, Types
  <2>3. /\ c # Server /\ <<c, "server">> \in Ends /\ <<c, "client">> \in Ends
    BY ChatAssumption DEF Ends, Sides, Peers
  <2>4. /\ Other(Server) = <<c, "client">> /\ Other(c) = <<c, "server">>
    BY <2>2, <2>3 DEF Other, Link
  <2>5. /\ pc[Server] \in {"write1", "write2"} /\ pc[c] \in {"write1", "write2"}
        /\ BothOpen(c)
        /\ Len(inbox[<<c, "client">>]) = Window /\ Len(inbox[<<c, "server">>]) = Window
    BY <2>2, <2>4 DEF MutualBlock, Blocked, Writing, BothOpen
  <2>6. Window + Window + Gain(Server) + Gain(c) <= Window + 4
    BY <2>2, <2>5 DEF NearInv, NotMuch, InFlight
  <2>7. /\ HalfWritten(<<c, "client">>) <=> pc[Server] = "write2"
        /\ HalfWritten(<<c, "server">>) <=> pc[c] = "write2"
        /\ Half(<<c, "client">>) = 0 /\ Half(<<c, "server">>) = 0
    BY <2>2, <2>3, <2>5 DEF HalfWritten, Half, HalfRead, Reader, Writer, Link
  <2>8. /\ Window % 2 = 1 <=> pc[Server] = "write2"
        /\ Window % 2 = 1 <=> pc[c] = "write2"
    BY <2>1, <2>3, <2>5, <2>7 DEF PairInv
  <2>9. PICK G \in -1..2, H \in -1..2 :
          /\ G = Gain(Server) /\ H = Gain(c)
          /\ pc[Server] = "write1" => G >= 0
          /\ pc[c] = "write1" => H >= 0
    <3>1. /\ Gain(Server) \in -1..2 /\ (pc[Server] = "write1" => Gain(Server) >= 0)
          /\ Gain(c) \in -1..2 /\ (pc[c] = "write1" => Gain(c) >= 0)
      BY <2>5, GainValues
    <3>2. QED
      BY <3>1, Zenon
  <2>10. Window + Window + G + H <= Window + 4
    BY <2>6, <2>9
  <2>11. CASE Window = 6
    <3>1. Window % 2 = 0
      BY <2>11
    <3>2. G >= 0 /\ H >= 0
      BY <2>5, <2>8, <2>9, <3>1
    <3>3. QED
      BY <2>10, <2>11, <3>2
  <2>12. CASE Window > 6
    BY <2>1, <2>10, <2>12
  <2>13. QED
    BY <2>1, <2>11, <2>12
<1>2. QED
  BY <1>1, NeverMuchInFlight, PTL
==============================================================================
