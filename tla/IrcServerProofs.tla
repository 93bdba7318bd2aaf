--------------------------- MODULE IrcServerProofs ---------------------------
(***************************************************************************)
(* Proofs about the chat server for many clients, for any number of        *)
(* clients and messages and any window of the connections.                 *)
(***************************************************************************)
EXTENDS IrcServer, FiniteSetTheorems, SequenceTheorems, WellFoundedInduction, TLAPS

(* The connections that main has accepted are those it has counted, and     *)
(* the one it is about to count.                                           *)
Waits(c) == \E k \in DOMAIN backlog : backlog[k] = c

Accepted == {c \in Clients : conn[c] # "none" /\ ~Waits(c)}

AcceptedCounted ==
  Cardinality(Accepted) = IF mpc = "accept" THEN noClient ELSE noClient + 1

BacklogOK ==
  /\ \A k \in DOMAIN backlog : conn[backlog[k]] # "none"
  /\ \A k, l \in DOMAIN backlog : backlog[k] = backlog[l] => k = l

(* A connection has one descriptor. *)
TableOK ==
  /\ \A d \in Fds : tab[d] = "tty" => d = 0
  /\ \A d \in Fds : tab[d] \in Clients => tab[d] \in Accepted
  /\ \A d, e \in Fds : tab[d] \in Clients /\ tab[d] = tab[e] => d = e

(* The slots that main has given to a thread, and those it has connected. *)
Given(s) == s < noClient \/ (s = noClient /\ mpc = "count")

Taken(s) == s < noClient \/ (s = noClient /\ mpc # "accept")

SlotsOK ==
  /\ \A s \in Slots : Given(s) <=> sem[s] # Uninit
  /\ \A s \in Slots : th[s].pc # "none" => Given(s) /\ Given(clientId)
  /\ \A s \in Slots : Running(s) => Given(th[s].id) /\ th[s].sd = newsd[th[s].id]

Writing(i) == th[i].pc \in {"write1", "write2"}

(* How often the buffer has been encrypted for the clients before "to". *)
Copies(i) == IF th[i].id < th[i].to THEN th[i].to - 1 ELSE th[i].to

ThreadOK(i) ==
  /\ th[i].ref # None => th[i].pc \in {"head", "body"}
  /\ th[i].pc = "dist" => th[i].to <= noClient
  /\ Writing(i) => th[i].to < noClient /\ th[i].to # th[i].id
  /\ ~Encrypted \/ th[i].pc = "print" => th[i].depth = 0
  /\ Encrypted /\ th[i].pc = "dist" => th[i].depth = Copies(i)
  /\ Encrypted /\ Writing(i) => th[i].depth = Copies(i) + 1

ThreadsOK == \A i \in Slots : ThreadOK(i)

ServerInv ==
  /\ TypeOK
  /\ AcceptedCounted
  /\ BacklogOK
  /\ TableOK
  /\ SlotsOK
  /\ ThreadsOK
  /\ LocksExclusive

------------------------------------------------------------------------------
(* As long as no client has left and no two threads read for the same one. *)

(* Every slot has a client of its own. *)
SlotsConnected ==
  /\ tab[0] = "tty"
  /\ \A s \in Slots : Taken(s) => tab[newsd[s]] \in Clients
  /\ \A s, r \in Slots : Taken(s) /\ Taken(r) /\ newsd[s] = newsd[r] => s = r

(* A thread reads from its client, and what it carries is from there. *)
ReadsOwn ==
  \A i \in Slots :
    /\ th[i].pc \notin {"leave", "done"}
    /\ th[i].ref # None => th[i].ref = tab[th[i].sd]
    /\ Carries(i) => th[i].msg[1] = tab[th[i].sd]

(* Messages are numbered as they are sent, and a head is sent once. *)
Numbered(m) == m[2] <= sent

HeadWaits(m) ==
  \E c \in Clients : \E k \in DOMAIN up[c] : up[c][k].msg = m /\ up[c][k].part = "head"

SentOnce ==
  /\ \A c \in Clients : sending[c] # NoMessage => sending[c][1] = c /\ Numbered(sending[c])
  /\ \A c \in Clients : \A k \in DOMAIN up[c] : up[c][k].msg[1] = c /\ Numbered(up[c][k].msg)
  /\ \A c \in Clients : \A k, l \in DOMAIN up[c] :
       up[c][k].part = "head" /\ up[c][l].part = "head" /\ up[c][k].msg = up[c][l].msg => k = l

(* A message is in one place: waiting, in one thread's buffer or forwarded. *)
CarriedOnce ==
  /\ \A i \in Slots : Carries(i) => Numbered(th[i].msg) /\ ~HeadWaits(th[i].msg)
  /\ \A i, j \in Slots : Carries(i) /\ Carries(j) /\ th[i].msg = th[j].msg => i = j
  /\ \A c \in Clients : \A k \in DOMAIN down[c] :
       Numbered(down[c][k].msg) /\ ~HeadWaits(down[c][k].msg)

Forwards(i) == th[i].pc \in {"dist", "write1", "write2"}

(* Who has got a message that a thread is forwarding: the clients before    *)
(* "to", and of that one the head while the body is to be written.         *)
GotSoFar(i, c, part) ==
  \E s \in Slots :
    /\ Taken(s)
    /\ tab[newsd[s]] = c
    /\ s # th[i].id
    /\ \/ Forwards(i) /\ s < th[i].to
       \/ th[i].pc = "write2" /\ s = th[i].to /\ part = "head"

Forwarded ==
  \A i \in Slots : Carries(i) =>
    /\ \A c \in Clients : \A k \in DOMAIN down[c] :
         down[c][k].msg = th[i].msg => GotSoFar(i, c, down[c][k].part)
    /\ Forwards(i) =>
         \A s \in Slots : s < th[i].to /\ s # th[i].id => HasMessage(s, th[i].msg)

(* Half a message is at a client only while its thread writes the rest. *)
Half(c) == Len(down[c]) % 2 = 1

HalfOf(c, m) == Half(c) /\ down[c][Len(down[c])].msg = m

HalfWritten ==
  /\ \A c \in Clients :
       Half(c) => \E i \in Slots : th[i].pc = "write2" /\ tab[newsd[th[i].to]] = c
  /\ \A i \in Slots : \A c \in Clients :
       th[i].pc = "write2" /\ tab[newsd[th[i].to]] = c => HalfOf(c, th[i].msg)

(* What is sent, carried and written are messages.                         *)
NoGarbage ==
  /\ \A c \in Clients : \A k \in DOMAIN up[c] : up[c][k].msg \in Messages
  /\ \A i \in Slots : Carries(i) => th[i].msg \in Messages
  /\ \A c \in Clients : \A k \in DOMAIN down[c] : down[c][k].msg \in Messages

(* With --encrypted, the copy for slot s of a message of slot r.           *)
Depth(r, s) == IF s < r THEN s + 1 ELSE s

HasDepth(c, p) ==
  \E r, s \in Slots :
    /\ Taken(r) /\ Taken(s)
    /\ tab[newsd[s]] = c /\ tab[newsd[r]] = p.msg[1]
    /\ p.depth = Depth(r, s)

Layered ==
  Encrypted => \A c \in Clients : \A k \in DOMAIN down[c] : HasDepth(c, down[c][k])

TogetherInv ==
  /\ SlotsConnected
  /\ ReadsOwn
  /\ SentOnce
  /\ CarriedOnce
  /\ Forwarded
  /\ HalfWritten
  /\ NoGarbage
  /\ WellFramed /\ NoEchoNoDuplicate
  /\ Layered

(* Each thread finds its client's messages one after another.              *)

(* The thread that has read the head of a message of c and not its body. *)
Reads(i, c) == th[i].pc = "body" /\ tab[th[i].sd] = c

Framed ==
  \A c \in Clients : \A k \in DOMAIN up[c] :
    IF up[c][k].part = "head"
    THEN IF k + 1 \in DOMAIN up[c]
         THEN up[c][k + 1].part = "body" /\ up[c][k + 1].msg = up[c][k].msg
         ELSE sending[c] = up[c][k].msg
    ELSE IF k + 1 \in DOMAIN up[c]
         THEN up[c][k + 1].part = "head"
         ELSE sending[c] = NoMessage

Resumed ==
  \A c \in Clients :
    /\ \A i \in Slots : Reads(i, c) =>
         IF up[c] = <<>> THEN sending[c] = th[i].msg
                         ELSE up[c][1].part = "body" /\ up[c][1].msg = th[i].msg
    /\ (\A i \in Slots : ~Reads(i, c)) =>
         IF up[c] = <<>> THEN sending[c] = NoMessage ELSE up[c][1].part = "head"

(* What the server has yet to read of c has the number n or a later one. *)
Ahead(c, n) ==
  /\ \A k \in DOMAIN up[c] : n <= up[c][k].msg[2]
  /\ sending[c] # NoMessage => n <= sending[c][2]

Ascending ==
  /\ \A c \in Clients : \A k \in DOMAIN up[c] :
       /\ \A l \in DOMAIN up[c] : k <= l => up[c][k].msg[2] <= up[c][l].msg[2]
       /\ sending[c] # NoMessage => up[c][k].msg[2] <= sending[c][2]
  /\ \A i \in Slots : Carries(i) => Ahead(th[i].msg[1], th[i].msg[2])
  /\ \A c \in Clients : \A k \in DOMAIN down[c] : Ahead(down[c][k].msg[1], down[c][k].msg[2])
  /\ \A c \in Clients : \A k \in DOMAIN down[c] : \A i \in Slots :
       Carries(i) /\ th[i].msg[1] = down[c][k].msg[1] => down[c][k].msg[2] <= th[i].msg[2]

InOrder ==
  /\ Framed
  /\ Resumed
  /\ Ascending
  /\ SenderOrder

ChatInv == ServerInv /\ (~Left /\ ~SharedId => TogetherInv /\ InOrder)

------------------------------------------------------------------------------
(* Lowest elements, which LowestFree asks for. *)
LEMMA LeastNatural ==
  ASSUME NEW T \in SUBSET Nat, T # {}
  PROVE  \E x \in T : \A y \in T : x <= y
<1> DEFINE R == {ss \in Nat \X Nat : ss[1] < ss[2]}
<1>1. IsWellFoundedOn(OpToRel(<, Nat), Nat)
  BY NatLessThanWellFounded, Zenon
<1>2. OpToRel(<, Nat) = R
  BY DEF OpToRel
<1>3. IsWellFoundedOn(R, Nat)
  BY <1>1, <1>2, Zenon
<1>4. PICK x \in T : \A y \in T : ~ (<<y, x>> \in R)
  <2> HIDE DEF R
  <2> QED BY <1>3, WFMin
<1>5. ASSUME NEW y \in T PROVE x <= y
  <2>1. x \in Nat /\ y \in Nat
    OBVIOUS
  <2>2. ~ (<<y, x>> \in R)
    <3> HIDE DEF R
    <3> QED BY <1>4
  <2>3. QED
    BY <2>1, <2>2
<1>6. QED
  BY <1>5

(* Slots and descriptors are numbers. *)
LEMMA Sizes ==
  /\ Cardinality(Clients) \in Nat
  /\ Slots \subseteq Nat /\ Fds \subseteq Nat
  /\ 0 \in Slots /\ 0 \in Fds
<1>1. Cardinality(Clients) \in Nat
  BY ClientsAssumption, FS_CardinalityType
<1>2. QED
  BY <1>1 DEF Slots, Fds

(* A piece put at the end of a stream, and one taken from its front. *)
LEMMA AppendFacts ==
  ASSUME NEW S, NEW s \in Seq(S), NEW e \in S
  PROVE  /\ Append(s, e) \in Seq(S)
         /\ Len(s) \in Nat /\ Len(Append(s, e)) = Len(s) + 1
         /\ DOMAIN s = 1 .. Len(s) /\ DOMAIN Append(s, e) = 1 .. Len(s) + 1
         /\ \A k \in 1 .. Len(s) : Append(s, e)[k] = s[k]
         /\ Append(s, e)[Len(s) + 1] = e
OBVIOUS

LEMMA TailFacts ==
  ASSUME NEW S, NEW s \in Seq(S), s # <<>>
  PROVE  /\ Head(s) \in S /\ Head(s) = s[1] /\ Tail(s) \in Seq(S)
         /\ Len(s) \in Nat \ {0} /\ Len(Tail(s)) = Len(s) - 1
         /\ DOMAIN s = 1 .. Len(s) /\ DOMAIN Tail(s) = 1 .. Len(s) - 1
         /\ \A k \in 1 .. Len(s) - 1 : Tail(s)[k] = s[k + 1]
OBVIOUS

(* There are as many descriptors as clients, and the terminal: while a     *)
(* client waits one is free.                                               *)
LEMMA SomeFree ==
  ASSUME ServerInv, backlog # <<>>
  PROVE  LowestFree \in Fds /\ tab[LowestFree] = "free"
<1> DEFINE n == Cardinality(Clients)
           c == Head(backlog)
           Names == (Clients \ {c}) \cup {"tty"}
           Free == {d \in Fds : tab[d] = "free"}
           g == [m \in 0 .. n |-> IF m = 0 THEN tab[0] ELSE tab[3 + m]]
<1>1. c \in Clients /\ Waits(c)
  <2>1. backlog \in Seq(Clients)
    BY DEF ServerInv, TypeOK
  <2>2. QED
    BY <2>1, TailFacts DEF Waits
<1>2. n \in Nat /\ IsFiniteSet(Clients) /\ "tty" \notin Clients
  BY Sizes, ClientsAssumption, NamesAssumption
<1>3. IsFiniteSet(Names) /\ Cardinality(Names) = n
  <2>1. IsFiniteSet(Clients \ {c}) /\ Cardinality(Clients \ {c}) = n - 1
    BY <1>1, <1>2, FS_RemoveElement
  <2> DEFINE C == Clients \ {c}
  <2>2. "tty" \notin C
    BY <1>2
  <2>3. IsFiniteSet(C \cup {"tty"}) /\ Cardinality(C \cup {"tty"}) = Cardinality(C) + 1
    <3> HIDE DEF C
    <3> QED BY <2>1, <2>2, FS_AddElement DEF C
  <2>4. QED
    BY <1>2, <2>1, <2>3
<1>4. IsFiniteSet(0 .. n) /\ Cardinality(0 .. n) = n + 1
  BY <1>2, FS_Interval
<1>5. Free # {}
  <2>1. SUFFICES ASSUME Free = {} PROVE FALSE
    OBVIOUS
  <2>2. \A d \in Fds : tab[d] \in Names
    BY <1>1, <2>1 DEF ServerInv, TypeOK, TableOK, Accepted
  <2>3. \A m \in 0 .. n : m # 0 => 3 + m \in Fds
    BY <1>2 DEF Fds
  <2>4. g \in [0 .. n -> Names]
    BY <2>2, <2>3, Sizes
  <2>5. PICK x, y \in 0 .. n : x # y /\ g[x] = g[y]
    <3> HIDE DEF n, Names, g
    <3>1. Cardinality(Names) < Cardinality(0 .. n)
      BY <1>2, <1>3, <1>4
    <3>2. QED
      BY <1>3, <1>4, <2>4, <3>1, FS_PigeonHole, ZenonT(40)
  <2> DEFINE fdOf(m) == IF m = 0 THEN 0 ELSE 3 + m
  <2>6. /\ fdOf(x) \in Fds /\ fdOf(y) \in Fds /\ fdOf(x) # fdOf(y)
        /\ tab[fdOf(x)] = tab[fdOf(y)]
    BY <1>2, <2>3, <2>5, Sizes
  <2>7. QED
    BY <2>2, <2>6 DEF ServerInv, TableOK
<1>6. PICK d \in Free : \A e \in Free : d <= e
  BY <1>5, Sizes, LeastNatural
<1>7. d \in Fds /\ tab[d] = "free" /\ \A e \in Fds : tab[e] = "free" => d <= e
  BY <1>6
<1>8. QED
  BY <1>7 DEF LowestFree

(* A write changes what its client has got by the piece or not at all.     *)
LEMMA PutDoes ==
  ASSUME TypeOK, NEW c \in Clients, NEW p \in Pieces({"head", "body", "raw"}), Put(c, p)
  PROVE  /\ conn' \in [Clients -> {"none", "open", "fin", "rst"}]
         /\ \A e \in Clients : conn'[e] = "none" <=> conn[e] = "none"
         /\ down' \in [Clients -> Seq(Pieces({"head", "body", "raw"}))]
         /\ down' = down \/ down' = [down EXCEPT ![c] = Append(@, p)]
         /\ conn[c] = "open" => down' = [down EXCEPT ![c] = Append(@, p)]
         /\ unread' \in [Clients -> 0 .. Window]
         /\ UNCHANGED up
<1> USE IrcBoundsAssumption
<1>1. CASE conn[c] = "open"
  <2>1. /\ unread[c] < Window /\ UNCHANGED <<conn, up>>
        /\ down' = [down EXCEPT ![c] = Append(@, p)]
        /\ unread' = [unread EXCEPT ![c] = @ + 1]
    BY <1>1 DEF Put
  <2>2. Append(down[c], p) \in Seq(Pieces({"head", "body", "raw"}))
    BY AppendFacts DEF TypeOK
  <2>3. unread[c] + 1 \in 0 .. Window
    BY <2>1 DEF TypeOK
  <2>4. QED
    BY <2>1, <2>2, <2>3 DEF TypeOK
<1>2. CASE conn[c] = "fin"
  BY <1>2 DEF Put, TypeOK
<1>3. QED
  BY <1>1, <1>2 DEF Put

------------------------------------------------------------------------------
(* The variables keep their types. *)
LEMMA ClientTypes ==
  ASSUME ServerInv, NEW c \in Clients, Client(c)
  PROVE  TypeOK'
<1> USE IrcBoundsAssumption, Sizes DEF TypeOK, mainVars, clientVars, streamVars
<1>1. TypeOK /\ UNCHANGED <<mainVars, sem, th, tab, ended, console>>
  BY DEF ServerInv, Client, Connect, SendHead, SendBody, Send, Receive, Leave
<1>2. CASE Connect(c)
  BY <1>1, <1>2, AppendFacts, SMTT(30) DEF Connect
<1>3. ASSUME NEW m \in Texts, NEW part \in {"head", "body"}, Send(c, m, part),
             sending' \in [Clients -> Texts], sent' \in 0 .. MaxSends
      PROVE  TypeOK'
  <2>1. Piece(m, part, 0) \in Pieces({"head", "body"})
    BY DEF Piece, Pieces
  <2>2. Append(up[c], Piece(m, part, 0)) \in Seq(Pieces({"head", "body"}))
    BY <1>1, <2>1, AppendFacts
  <2>3. QED
    BY <1>1, <1>3, <2>2 DEF Send
<1>4. CASE SendHead(c)
  <2>1. <<c, sent + 1>> \in Texts /\ sent' \in 0 .. MaxSends
    BY <1>1, <1>4 DEF SendHead, Messages, Texts
  <2>2. QED
    BY <1>1, <1>3, <1>4, <2>1 DEF SendHead
<1>5. CASE SendBody(c)
  <2>1. sending[c] \in Texts /\ sending' \in [Clients -> Texts] /\ sent' \in 0 .. MaxSends
    BY <1>1, <1>5 DEF SendBody, Texts
  <2>2. QED
    BY <1>1, <1>3, <1>5, <2>1 DEF SendBody
<1>6. CASE Receive(c)
  BY <1>1, <1>6, SMTT(30) DEF Receive
<1>7. CASE Leave(c)
  BY <1>1, <1>7 DEF Leave
<1>8. QED
  BY <1>2, <1>4, <1>5, <1>6, <1>7 DEF Client

(* No more connections are accepted than there are clients. *)
LEMMA AcceptedBound == ServerInv => /\ IsFiniteSet(Accepted)
                                   /\ Cardinality(Accepted) <= Cardinality(Clients)
BY ClientsAssumption, FS_Subset DEF Accepted

(* A thread that main starts, or that takes its number, is well formed. *)
LEMMA ThreadType ==
  ASSUME NEW pc \in ThreadLabels, NEW id \in Slots, NEW sd \in Fds
  PROVE  Thread(pc, id, sd) \in ThreadStates
BY Sizes DEF Thread, ThreadStates, Texts

(* Main's steps keep the types. *)
LEMMA MainTypes ==
  ASSUME ServerInv, Main
  PROVE  TypeOK'
<1> USE Sizes DEF TypeOK, mainVars, clientVars, streamVars
<1>1. TypeOK /\ UNCHANGED <<ended, console, sending, sent, conn, up, down, unread>>
  BY DEF ServerInv, Main, Accept, Spawn, Count
<1>2. CASE Accept
  <2>1. LowestFree \in Fds
    BY <1>2, SomeFree DEF Accept
  <2>2. Head(backlog) \in Clients /\ Tail(backlog) \in Seq(Clients)
    BY <1>1, <1>2, TailFacts DEF Accept
  <2>3. QED
    BY <1>1, <1>2, <2>1, <2>2 DEF Accept
<1>3. CASE Spawn
  <2>1. \A pc \in {"none", "start"} : Thread(pc, 0, 0) \in ThreadStates
    BY ThreadType DEF ThreadLabels
  <2>2. PICK pc \in {"none", "start"} : th' = [th EXCEPT ![noClient] = Thread(pc, 0, 0)]
    BY <1>3 DEF Spawn
  <2>3. QED
    BY <1>1, <1>3, <2>1, <2>2 DEF Spawn
<1>4. CASE Count
  <2>1. noClient + 1 <= Cardinality(Clients)
    BY <1>1, <1>4, AcceptedBound DEF Count, ServerInv, AcceptedCounted, Slots
  <2>2. noClient + 1 \in Slots
    BY <1>1, <2>1 DEF Slots
  <2>3. QED
    BY <1>1, <1>4, <2>2 DEF Count
<1>5. QED
  BY <1>2, <1>3, <1>4 DEF Main

(* A piece that a thread prints or writes. *)
LEMMA CarriedPiece ==
  ASSUME ServerInv, NEW i \in Slots, NEW part \in {"head", "body", "raw"}
  PROVE  /\ Piece(th[i].msg, part, 0) \in Pieces({"head", "body", "raw"})
         /\ Piece(th[i].msg, part, th[i].depth) \in Pieces({"head", "body", "raw"})
<1>1. th[i].msg \in Texts /\ th[i].depth \in 0 .. Cardinality(Clients)
  BY DEF ServerInv, TypeOK, ThreadStates
<1>2. QED
  BY <1>1, Sizes DEF Piece, Pieces

(* "to" is a slot and the copies are at most one for each client.          *)
LEMMA DepthBound ==
  ASSUME ServerInv, NEW i \in Slots, th[i].pc = "dist", th[i].to < noClient,
         th[i].to # th[i].id
  PROVE  /\ th[i].to + 1 \in Slots
         /\ Encrypted => th[i].depth + 1 \in 0 .. Cardinality(Clients)
<1>1. /\ noClient \in Slots /\ th[i].to \in Slots /\ th[i].id \in Slots
      /\ th[i].depth \in 0 .. Cardinality(Clients)
      /\ Encrypted => th[i].depth = Copies(i)
  BY DEF ServerInv, TypeOK, ThreadsOK, ThreadOK, ThreadStates
<1>2. QED
  BY <1>1, Sizes DEF Copies, Slots

(* The loop of forward() stays within the counted clients. *)
LEMMA NextSlot ==
  ASSUME noClient \in Slots, NEW n \in Slots, n < noClient
  PROVE  n + 1 \in Slots
BY Sizes DEF Slots

(* What reading a piece leaves of a thread. *)
AfterPiece(i, m, pc) ==
  [th[i] EXCEPT !.ref = None, !.msg = m, !.depth = 0, !.pc = pc]

(* A read takes a piece, or a part of it, from a stream.                   *)
LEMMA PieceRead ==
  ASSUME TypeOK, ThreadsOK, NEW i \in Slots, ReadPiece(i) \/ ReadTorn(i)
  PROVE  /\ th[i].pc \in {"head", "body"}
         /\ up' \in [Clients -> Seq(Pieces({"head", "body"}))]
         /\ \E m \in Texts, pc \in {"body", "print", "leave"} :
              /\ th' = [th EXCEPT ![i] = AfterPiece(i, m, pc)]
              /\ AfterPiece(i, m, pc) \in ThreadStates
<1> DEFINE c == th[i].ref
<1>1. th[i] \in ThreadStates /\ up \in [Clients -> Seq(Pieces({"head", "body"}))]
  BY DEF TypeOK
<1>2. c \in Clients /\ th[i].pc \in {"head", "body"} /\ up[c] # <<>>
  BY <1>1 DEF ReadPiece, ReadAs, ReadTorn, ThreadsOK, ThreadOK, ThreadStates
<1>3. up[c] \in Seq(Pieces({"head", "body"}))
  BY <1>1, <1>2
<1>4. /\ Head(up[c]) \in Pieces({"head", "body"})
      /\ Tail(up[c]) \in Seq(Pieces({"head", "body"}))
  BY <1>2, <1>3, TailFacts
<1>5. up' \in [Clients -> Seq(Pieces({"head", "body"}))]
  <2>1. CASE up' = [up EXCEPT ![c] = Tail(@)]
    BY <1>1, <1>4, <2>1
  <2>2. CASE up' = [up EXCEPT ![c][1].msg = NoMessage]
    <3> DEFINE q == [up[c] EXCEPT ![1].msg = NoMessage]
    <3>1. Head(up[c]) = up[c][1] /\ 1 \in DOMAIN up[c]
      BY <1>2, <1>3, TailFacts
    <3>2. [up[c][1] EXCEPT !.msg = NoMessage] \in Pieces({"head", "body"})
      BY <1>4, <3>1 DEF Pieces, Texts
    <3>3. q = [up[c] EXCEPT ![1] = [up[c][1] EXCEPT !.msg = NoMessage]]
      OBVIOUS
    <3>4. q \in Seq(Pieces({"head", "body"}))
      BY <1>3, <3>1, <3>2, <3>3, ExceptSeq
    <3>5. up' = [up EXCEPT ![c] = q]
      BY <2>2
    <3>6. QED
      BY <1>1, <3>4, <3>5
  <2>3. QED
    BY <2>1, <2>2 DEF ReadPiece, ReadAs, ReadTorn
<1>6. Head(up[c]).msg \in Texts /\ NoMessage \in Texts
  BY <1>4 DEF Pieces, Texts
<1>7. ASSUME NEW m \in Texts, NEW pc \in ThreadLabels
      PROVE  AfterPiece(i, m, pc) \in ThreadStates
  <2>1. \A q \in ThreadStates : [q EXCEPT !.ref = None, !.msg = m] \in ThreadStates
    BY ZenonT(40) DEF ThreadStates
  <2>2. \A q \in ThreadStates : [q EXCEPT !.depth = 0] \in ThreadStates
    <3>1. 0 \in 0 .. Cardinality(Clients)
      BY Sizes
    <3>2. QED
      BY <3>1 DEF ThreadStates
  <2>3. \A q \in ThreadStates : [q EXCEPT !.pc = pc] \in ThreadStates
    BY DEF ThreadStates
  <2>4. QED
    BY <1>1, <2>1, <2>2, <2>3, ZenonT(40) DEF AfterPiece
<1>8. \E m \in Texts, pc \in {"body", "print", "leave"} :
        th' = [th EXCEPT ![i] = AfterPiece(i, m, pc)]
  BY <1>6, Zenon DEF ReadPiece, ReadAs, ReadTorn, Set, AfterPiece
<1>9. QED
  BY <1>2, <1>5, <1>7, <1>8 DEF ThreadLabels

(* Reading: a step of the thread alone, and of its stream. *)
LEMMA ReadTypes ==
  ASSUME ServerInv, NEW i \in Slots,
         \/ Start(i) \/ EnterRead(i) \/ ReadPiece(i) \/ ReadTorn(i) \/ ReadEnd(i)
         \/ SkipSelf(i)
         \/ EndDistribution(i) \/ CloseNext(i),
         UNCHANGED ended
  PROVE  TypeOK'
<1> USE Sizes DEF TypeOK, mainVars, clientVars, streamVars
<1>1. TypeOK /\ th[i] \in ThreadStates
  BY DEF ServerInv
<1>2. CASE Start(i)
  <2>1. Thread("head", clientId, newsd[clientId]) \in ThreadStates
    BY <1>1, ThreadType DEF ThreadLabels
  <2>2. QED
    BY <1>1, <1>2, <2>1 DEF Start, Set
<1>3. CASE EnterRead(i) \/ ReadEnd(i) \/ EndDistribution(i)
  <2>1. CASE EnterRead(i)
    <3>1. [th[i] EXCEPT !.ref = tab[th[i].sd]] \in ThreadStates
      BY <1>1, <2>1 DEF EnterRead, ThreadStates
    <3>2. QED
      BY <1>1, <2>1, <3>1 DEF EnterRead, Set
  <2>2. CASE ReadEnd(i)
    <3>1. [th[i] EXCEPT !.pc = "leave", !.ref = None] \in ThreadStates
      BY <1>1 DEF ThreadStates, ThreadLabels
    <3>2. QED
      BY <1>1, <2>2, <3>1 DEF ReadEnd, Set
  <2>3. CASE EndDistribution(i)
    <3>1. [th[i] EXCEPT !.pc = "head"] \in ThreadStates
      BY <1>1 DEF ThreadStates, ThreadLabels
    <3>2. QED
      BY <1>1, <2>3, <3>1 DEF EndDistribution, Set
  <2>4. QED
    BY <1>3, <2>1, <2>2, <2>3
<1>4. CASE ReadPiece(i) \/ ReadTorn(i)
  <2>1. ThreadsOK
    BY DEF ServerInv
  <2>2. up' \in [Clients -> Seq(Pieces({"head", "body"}))]
    BY <1>1, <1>4, <2>1, PieceRead
  <2>3. \E r \in ThreadStates : th' = [th EXCEPT ![i] = r]
    BY <1>1, <1>4, <2>1, PieceRead
  <2>4. QED
    BY <1>1, <1>4, <2>2, <2>3 DEF ReadPiece, ReadAs, ReadTorn
<1>5. CASE SkipSelf(i)
  <2>1. th[i].to + 1 \in Slots
    BY <1>1, <1>5, NextSlot DEF SkipSelf, ThreadStates
  <2>2. [th[i] EXCEPT !.to = @ + 1] \in ThreadStates
    BY <1>1, <2>1 DEF ThreadStates
  <2>3. QED
    BY <1>1, <1>5, <2>2 DEF SkipSelf, Set
<1>6. CASE CloseNext(i)
  <2>1. [th[i] EXCEPT !.pc = "done"] \in ThreadStates
    BY <1>1 DEF ThreadStates, ThreadLabels
  <2>2. QED
    BY <1>1, <1>6, <2>1 DEF CloseNext, Set
<1>7. QED
  BY <1>2, <1>3, <1>4, <1>5, <1>6

(* Printing, locking and writing. *)
LEMMA WriteTypes ==
  ASSUME ServerInv, NEW i \in Slots,
         PrintMessage(i) \/ Acquire(i) \/ WriteHead(i) \/ WriteBody(i),
         UNCHANGED ended
  PROVE  TypeOK'
<1> USE Sizes DEF TypeOK, mainVars, clientVars
<1>1. TypeOK /\ th[i] \in ThreadStates
  BY DEF ServerInv
<1>2. th[i].msg \in Texts
  BY <1>1 DEF ThreadStates
<1>3. CASE PrintMessage(i)
  <2>1. [th[i] EXCEPT !.pc = "dist", !.to = 0] \in ThreadStates
    BY <1>1 DEF ThreadStates, ThreadLabels
  <2>2. CASE tab[0] = "tty" /\ console' = Append(console, th[i].msg) /\ UNCHANGED streamVars
    <3>1. console' \in Seq(Texts)
      BY <1>1, <1>2, <2>2, AppendFacts
    <3>2. QED
      BY <1>1, <1>3, <2>1, <2>2, <3>1 DEF PrintMessage, Set, streamVars
  <2>3. CASE tab[0] \in Clients /\ Put(tab[0], Piece(th[i].msg, "raw", 0)) /\ UNCHANGED console
    <3>1. /\ conn' \in [Clients -> {"none", "open", "fin", "rst"}]
          /\ down' \in [Clients -> Seq(Pieces({"head", "body", "raw"}))]
          /\ unread' \in [Clients -> 0 .. Window]
          /\ UNCHANGED up
      BY <1>1, <2>3, CarriedPiece, PutDoes
    <3>2. QED
      BY <1>1, <1>3, <2>1, <2>3, <3>1 DEF PrintMessage, Set
  <2>4. QED
    BY <1>3, <2>2, <2>3 DEF PrintMessage
<1>4. CASE Acquire(i)
  <2>1. [th[i] EXCEPT !.pc = "write1", !.depth = IF Encrypted THEN @ + 1 ELSE @] \in ThreadStates
    BY <1>1, <1>4, DepthBound DEF Acquire, StartWrite, ThreadStates, ThreadLabels
  <2>2. QED
    BY <1>1, <1>4, <2>1 DEF Acquire, StartWrite, Set, streamVars
<1>5. ASSUME NEW part \in {"head", "body"}, WritePiece(i, part)
      PROVE  /\ conn' \in [Clients -> {"none", "open", "fin", "rst"}]
             /\ down' \in [Clients -> Seq(Pieces({"head", "body", "raw"}))]
             /\ unread' \in [Clients -> 0 .. Window]
             /\ UNCHANGED up
  <2> DEFINE c == tab[newsd[th[i].to]]
  <2>1. c \in Clients /\ Put(c, Piece(th[i].msg, part, th[i].depth))
    BY <1>5 DEF WritePiece
  <2>2. Piece(th[i].msg, part, th[i].depth) \in Pieces({"head", "body", "raw"})
    BY CarriedPiece
  <2>3. QED
    BY <1>1, <2>1, <2>2, PutDoes
<1>6. CASE WriteHead(i)
  <2>1. [th[i] EXCEPT !.pc = "write2"] \in ThreadStates
    BY <1>1 DEF ThreadStates, ThreadLabels
  <2>2. QED
    BY <1>1, <1>5, <1>6, <2>1 DEF WriteHead, Set
<1>7. CASE WriteBody(i)
  <2>1. th[i].to + 1 \in Slots /\ sem[th[i].to] = 0
    <3>1. th[i].to \in Slots /\ th[i].to < noClient /\ Holds(i, th[i].to)
      BY <1>1, <1>7 DEF WriteBody, ServerInv, ThreadsOK, ThreadOK, Writing, Holds, ThreadStates
    <3>2. QED
      BY <1>1, <3>1, NextSlot DEF ServerInv, LocksExclusive
  <2>2. [th[i] EXCEPT !.pc = "dist", !.to = @ + 1] \in ThreadStates
    BY <1>1, <2>1 DEF ThreadStates, ThreadLabels
  <2>3. sem' \in [Slots -> {Uninit, 0, 1}]
    BY <1>1, <1>7, <2>1 DEF WriteBody, ThreadStates
  <2>4. QED
    BY <1>1, <1>5, <1>7, <2>2, <2>3 DEF WriteBody, Set
<1>8. QED
  BY <1>3, <1>4, <1>6, <1>7

(* A step that ends the process does nothing else.                         *)
Dies ==
  /\ ended' \in Causes
  /\ UNCHANGED <<mainVars, sem, th, tab, console, clientVars, streamVars>>

LEMMA EndingDies ==
  /\ Fail => Dies
  /\ \A i \in Slots : ReadFails(i) \/ PrintFails(i) \/ WriteFails(i) => Dies
<1>1. \A cause \in Causes : Exit(cause) => Dies
  BY DEF Exit, Dies
<1>2. Fail => \E cause \in Causes : Exit(cause)
  BY FailingAssumption DEF Fail, AcceptFails, OutOfMemory, CryptoFails, GarbageFails, Fails, Causes
<1>3. ASSUME NEW i \in Slots, ReadFails(i) \/ PrintFails(i) \/ WriteFails(i)
      PROVE  \E cause \in Causes : Exit(cause)
  BY <1>3 DEF ReadFails, PrintFails, WriteFails, WriteBreaks, Causes
<1>4. QED
  BY <1>1, <1>2, <1>3

------------------------------------------------------------------------------
(* What is accepted is counted, and has one descriptor.                    *)
Accounts == AcceptedCounted /\ BacklogOK /\ TableOK

(* A step that accepts, connects and closes nothing keeps the accounts. *)
LEMMA AccountsFrame ==
  ASSUME ServerInv, UNCHANGED <<mpc, noClient, backlog, tab>>,
         \A c \in Clients : conn'[c] = "none" <=> conn[c] = "none"
  PROVE  Accounts'
<1>1. Accepted' = Accepted
  BY DEF Accepted, Waits
<1>2. \A k \in DOMAIN backlog : backlog[k] \in Clients
  BY DEF ServerInv, TypeOK
<1>3. QED
  BY <1>1, <1>2 DEF ServerInv, Accounts, AcceptedCounted, BacklogOK, TableOK

(* A new connection waits in the backlog, once. *)
LEMMA ConnectAccounts ==
  ASSUME ServerInv, NEW c \in Clients, Connect(c)
  PROVE  Accounts'
<1>1. /\ conn[c] = "none" /\ conn' = [conn EXCEPT ![c] = "open"]
      /\ backlog' = Append(backlog, c) /\ UNCHANGED <<mpc, noClient, tab>>
      /\ backlog \in Seq(Clients) /\ conn \in [Clients -> {"none", "open", "fin", "rst"}]
  BY DEF Connect, mainVars, ServerInv, TypeOK
<1>2. /\ DOMAIN backlog = 1 .. Len(backlog) /\ Len(backlog) \in Nat
      /\ DOMAIN backlog' = 1 .. Len(backlog) + 1
      /\ \A k \in 1 .. Len(backlog) : backlog'[k] = backlog[k] /\ backlog[k] \in Clients
      /\ backlog'[Len(backlog) + 1] = c
  BY <1>1, AppendFacts
<1>3. \A k \in DOMAIN backlog : backlog[k] # c
  BY <1>1 DEF ServerInv, BacklogOK
<1>4. \A e \in Clients : Waits(e)' <=> Waits(e) \/ e = c
  BY <1>2 DEF Waits
<1>5. Accepted' = Accepted
  BY <1>1, <1>3, <1>4 DEF Accepted
<1>6. BacklogOK'
  BY <1>1, <1>2, <1>3 DEF ServerInv, BacklogOK
<1>7. QED
  BY <1>1, <1>5, <1>6 DEF ServerInv, Accounts, AcceptedCounted, TableOK

(* An accepted one gets the lowest free descriptor, and is counted next. *)
LEMMA AcceptAccounts ==
  ASSUME ServerInv, Accept, UNCHANGED ended
  PROVE  Accounts'
<1> PICK c : c = Head(backlog)
  OBVIOUS
<1>1. /\ mpc = "accept" /\ mpc' = "spawn" /\ UNCHANGED <<noClient, conn>>
      /\ backlog # <<>> /\ backlog' = Tail(backlog)
      /\ tab' = [tab EXCEPT ![LowestFree] = c]
      /\ backlog \in Seq(Clients) /\ tab \in [Fds -> Clients \cup {"tty", "free"}]
      /\ noClient \in Nat
  BY Sizes DEF Accept, streamVars, ServerInv, TypeOK
<1>2. /\ c \in Clients /\ c = backlog[1] /\ Len(backlog) \in Nat \ {0}
      /\ DOMAIN backlog = 1 .. Len(backlog) /\ DOMAIN backlog' = 1 .. Len(backlog) - 1
      /\ \A k \in 1 .. Len(backlog) - 1 : backlog'[k] = backlog[k + 1]
  BY <1>1, TailFacts
<1>3. \A e \in Clients : Waits(e) <=> Waits(e)' \/ e = c
  <2>1. ASSUME NEW e \in Clients, Waits(e), e # c PROVE Waits(e)'
    <3>1. PICK k \in DOMAIN backlog : backlog[k] = e
      BY <2>1 DEF Waits
    <3>2. k - 1 \in DOMAIN backlog' /\ backlog'[k - 1] = e
      BY <1>2, <2>1, <3>1
    <3>3. QED
      BY <3>2 DEF Waits
  <2>2. ASSUME NEW e \in Clients, Waits(e)' PROVE Waits(e)
    <3>1. PICK k \in DOMAIN backlog' : backlog'[k] = e
      BY <2>2 DEF Waits
    <3>2. k + 1 \in DOMAIN backlog /\ backlog[k + 1] = e
      BY <1>2, <3>1
    <3>3. QED
      BY <3>2 DEF Waits
  <2>3. Waits(c)
    BY <1>2 DEF Waits
  <2>4. QED
    BY <2>1, <2>2, <2>3
<1>4. ~Waits(c)'
  <2>1. SUFFICES ASSUME NEW k \in DOMAIN backlog', backlog'[k] = c PROVE FALSE
    BY DEF Waits
  <2>2. /\ k + 1 \in DOMAIN backlog /\ 1 \in DOMAIN backlog /\ k + 1 # 1
        /\ backlog[k + 1] = backlog[1]
    BY <1>2, <2>1
  <2>3. QED
    BY <2>2 DEF ServerInv, BacklogOK
<1>5. Accepted' = Accepted \cup {c} /\ c \notin Accepted
  <2>1. conn[c] # "none"
    BY <1>2 DEF ServerInv, BacklogOK
  <2>2. QED
    BY <1>1, <1>2, <1>3, <1>4, <2>1 DEF Accepted
<1>6. AcceptedCounted'
  <2>1. Cardinality(Accepted') = Cardinality(Accepted) + 1
    BY <1>5, AcceptedBound, FS_AddElement
  <2>2. QED
    BY <1>1, <2>1 DEF ServerInv, AcceptedCounted
<1>7. BacklogOK'
  <2>1. \A k \in DOMAIN backlog' : k + 1 \in DOMAIN backlog /\ backlog'[k] = backlog[k + 1]
    BY <1>2
  <2>2. \A k \in DOMAIN backlog' : conn'[backlog'[k]] # "none"
    BY <1>1, <2>1 DEF ServerInv, BacklogOK
  <2>3. \A k, l \in DOMAIN backlog' : backlog'[k] = backlog'[l] => k + 1 = l + 1
    BY <2>1 DEF ServerInv, BacklogOK
  <2>4. \A k, l \in DOMAIN backlog' : k + 1 = l + 1 => k = l
    BY <1>2
  <2>5. QED
    BY <2>2, <2>3, <2>4 DEF BacklogOK
<1>8. TableOK'
  <2>1. LowestFree \in Fds /\ tab[LowestFree] = "free"
    BY <1>1, SomeFree
  <2>2. QED
    BY <1>1, <1>2, <1>5, <2>1, NamesAssumption DEF ServerInv, TableOK
<1>9. QED
  BY <1>6, <1>7, <1>8 DEF Accounts

(* Every step keeps the accounts of connections and descriptors. *)
LEMMA StepAccounts ==
  ASSUME ServerInv, Next
  PROVE  Accounts'
<1>1. CASE Main
  <2>1. CASE Accept
    BY <1>1, <2>1, AcceptAccounts DEF Main
  <2>2. CASE Spawn \/ Count
    <3>1. /\ UNCHANGED <<backlog, tab, conn>>
          /\ (IF mpc' = "accept" THEN noClient' ELSE noClient' + 1)
               = (IF mpc = "accept" THEN noClient ELSE noClient + 1)
      BY <2>2 DEF Spawn, Count, clientVars, streamVars
    <3>2. Accepted' = Accepted
      BY <3>1 DEF Accepted, Waits
    <3>3. QED
      BY <3>1, <3>2 DEF ServerInv, Accounts, AcceptedCounted, BacklogOK, TableOK
  <2>3. QED
    BY <1>1, <2>1, <2>2 DEF Main
<1>2. ASSUME NEW i \in Slots, Service(i)
      PROVE  Accounts'
  <2>1. CASE CloseNext(i)
    <3>1. /\ UNCHANGED <<mpc, noClient, backlog, conn>>
          /\ tab' = [tab EXCEPT ![newsd[noClient]] = "free"]
      BY <2>1 DEF CloseNext, mainVars, clientVars, streamVars
    <3>2. Accepted' = Accepted
      BY <3>1 DEF Accepted, Waits
    <3>3. TableOK'
      BY <3>1, <3>2, NamesAssumption DEF ServerInv, TypeOK, TableOK
    <3>4. QED
      BY <3>1, <3>2, <3>3 DEF ServerInv, Accounts, AcceptedCounted, BacklogOK
  <2>2. ASSUME NEW c \in Clients, NEW p \in Pieces({"head", "body", "raw"}), Put(c, p)
        PROVE  \A e \in Clients : conn'[e] = "none" <=> conn[e] = "none"
    BY <2>2, PutDoes DEF ServerInv
  <2>3. CASE PrintMessage(i) \/ WriteHead(i) \/ WriteBody(i)
    <3>1. UNCHANGED <<mpc, noClient, backlog, tab>>
      BY <2>3 DEF PrintMessage, WriteHead, WriteBody, mainVars, clientVars
    <3>2. \/ UNCHANGED conn
          \/ \E c \in Clients, p \in Pieces({"head", "body", "raw"}) : Put(c, p)
      BY <2>3, CarriedPiece DEF PrintMessage, WriteHead, WriteBody, WritePiece, streamVars
    <3>3. QED
      BY <2>2, <3>1, <3>2, AccountsFrame
  <2>4. CASE ~CloseNext(i) /\ ~PrintMessage(i) /\ ~WriteHead(i) /\ ~WriteBody(i)
    <3>1. UNCHANGED <<mpc, noClient, backlog, tab, conn>>
      BY <1>2, <2>4, EndingDies DEF Service, Start, EnterRead, ReadPiece, ReadAs, ReadTorn, ReadEnd,
         SkipSelf, Acquire, StartWrite, EndDistribution, Dies, mainVars, clientVars, streamVars
    <3>2. QED
      BY <3>1, AccountsFrame
  <2>5. QED
    BY <2>1, <2>3, <2>4
<1>3. ASSUME NEW c \in Clients, Client(c)
      PROVE  Accounts'
  <2>1. CASE Connect(c)
    BY <2>1, ConnectAccounts
  <2>2. CASE ~Connect(c)
    <3>1. UNCHANGED <<mpc, noClient, backlog, tab>>
      BY <1>3, <2>2 DEF Client, SendHead, SendBody, Send, Receive, Leave, mainVars, clientVars
    <3>2. \A e \in Clients : conn'[e] = "none" <=> conn[e] = "none"
      BY <1>3, <2>2 DEF Client, SendHead, SendBody, Send, Receive, Leave, ServerInv, TypeOK
    <3>3. QED
      BY <3>1, <3>2, AccountsFrame
  <2>3. QED
    BY <2>1, <2>2
<1>4. CASE Fail
  BY <1>4, EndingDies, AccountsFrame DEF Dies, mainVars, clientVars, streamVars
<1>5. QED
  BY <1>1, <1>2, <1>3, <1>4 DEF Next

------------------------------------------------------------------------------
(* The slots, the threads and the semaphores. *)
Controls == SlotsOK /\ ThreadsOK /\ LocksExclusive

(* The rest of the invariant depends on slots, semaphores and threads only. *)
LEMMA ControlsFrame ==
  ASSUME ServerInv, UNCHANGED <<mainVars, sem, th>>
  PROVE  Controls'
BY DEF mainVars, ServerInv, Controls, SlotsOK, Given, Running, ThreadsOK, ThreadOK, Carries,
       Writing, Copies, LocksExclusive, Holds

(* Main gives a thread its slot and semaphore before it counts it. *)
LEMMA MainControls ==
  ASSUME ServerInv, Main
  PROVE  Controls'
<1> USE Sizes
<1>1. /\ noClient \in Nat /\ noClient \in Slots /\ clientId \in Slots
      /\ \A s \in Slots : s \in Nat
      /\ \A i \in Slots : th[i].to \in Nat /\ th[i].id \in Slots
      /\ newsd \in [Slots -> Fds] /\ sem \in [Slots -> {Uninit, 0, 1}]
      /\ th \in [Slots -> ThreadStates]
  BY DEF ServerInv, TypeOK, ThreadStates
<1>2. CASE Accept
  <2>1. /\ mpc = "accept" /\ mpc' = "spawn" /\ UNCHANGED <<noClient, clientId, sem, th>>
        /\ \A s \in Slots \ {noClient} : newsd'[s] = newsd[s]
    BY <1>1, <1>2 DEF Accept
  <2>2. \A s \in Slots : (Given(s)' <=> Given(s)) /\ (Given(s) => s # noClient)
    BY <1>1, <2>1 DEF Given
  <2>3. SlotsOK'
    BY <1>1, <2>1, <2>2 DEF ServerInv, SlotsOK, Running, Given
  <2>4. ThreadsOK' /\ LocksExclusive'
    BY <2>1 DEF ServerInv, ThreadsOK, ThreadOK, Carries, Writing, Copies, LocksExclusive, Holds
  <2>5. QED
    BY <2>3, <2>4 DEF Controls
<1>3. CASE Spawn
  <2>1. PICK pc \in {"none", "start"} : th' = [th EXCEPT ![noClient] = Thread(pc, 0, 0)]
    BY <1>3 DEF Spawn
  <2>2. /\ mpc = "spawn" /\ mpc' = "count" /\ UNCHANGED <<noClient, newsd>>
        /\ clientId' = noClient /\ sem' = [sem EXCEPT ![noClient] = 1]
    BY <1>3 DEF Spawn
  <2>3. /\ th'[noClient] = Thread(pc, 0, 0)
        /\ \A s \in Slots \ {noClient} : th'[s] = th[s]
    BY <1>1, <2>1
  <2>4. \A s \in Slots : Given(s)' <=> Given(s) \/ s = noClient
    BY <1>1, <2>2 DEF Given
  <2>5. SlotsOK'
    <3>1. th'[noClient].pc \in {"none", "start"}
      BY <2>3 DEF Thread
    <3>2. Given(clientId)' /\ Given(noClient)'
      BY <2>2 DEF Given
    <3>3. \A s \in Slots : Given(s)' <=> sem'[s] # Uninit
      BY <1>1, <2>2, <2>4 DEF ServerInv, SlotsOK, Uninit
    <3>4. \A s \in Slots : th'[s].pc # "none" => Given(s)' /\ Given(clientId)'
      BY <2>3, <2>4, <3>2 DEF ServerInv, SlotsOK
    <3>5. ASSUME NEW s \in Slots, Running(s)'
          PROVE  Given(th[s].id)' /\ th'[s].sd = newsd'[th'[s].id] /\ th'[s] = th[s]
      <4>1. s # noClient /\ th'[s] = th[s]
        BY <2>3, <3>1, <3>5 DEF Running
      <4>2. Given(th[s].id) /\ th[s].sd = newsd[th[s].id]
        BY <3>5, <4>1 DEF Running, ServerInv, SlotsOK
      <4>3. Given(th[s].id)'
        BY <2>2, <4>1, <4>2 DEF Given
      <4>4. QED
        BY <2>2, <4>1, <4>2, <4>3
    <3>6. \A s \in Slots : Running(s)' => Given(th[s].id)' /\ th'[s].sd = newsd'[th'[s].id]
      BY <3>5
    <3>7. QED
      BY <3>3, <3>4, <3>6 DEF SlotsOK
  <2>6. ThreadsOK'
    BY <2>2, <2>3 DEF ServerInv, ThreadsOK, ThreadOK, Carries, Writing, Copies, Thread
  <2>7. ~Given(noClient)
    BY <1>1, <2>2 DEF Given
  <2>8. \A i \in Slots : Holds(i, noClient) => FALSE
    BY <1>1 DEF ServerInv, ThreadsOK, ThreadOK, Writing, Holds
  <2>9. \A i, s \in Slots : Holds(i, s)' <=> Holds(i, s)
    <3>1. th'[noClient].pc \in {"none", "start"} /\ th[noClient].pc = "none"
      BY <1>1, <2>3, <2>7 DEF ServerInv, SlotsOK, Thread
    <3>2. QED
      BY <2>3, <3>1 DEF Holds
  <2>10. LocksExclusive'
    BY <1>1, <2>2, <2>8, <2>9 DEF ServerInv, LocksExclusive, Uninit
  <2>11. QED
    BY <2>5, <2>6, <2>10 DEF Controls
<1>4. CASE Count
  <2>1. /\ mpc = "count" /\ mpc' = "accept" /\ noClient' = noClient + 1
        /\ UNCHANGED <<newsd, clientId, sem, th>>
    BY <1>4 DEF Count
  <2>2. \A s \in Slots : Given(s)' <=> Given(s)
    BY <1>1, <2>1 DEF Given
  <2>3. SlotsOK'
    BY <1>1, <2>1, <2>2 DEF ServerInv, SlotsOK, Running
  <2>4. ThreadsOK'
    BY <1>1, <2>1 DEF ServerInv, ThreadsOK, ThreadOK, Carries, Writing, Copies
  <2>5. \A s \in Slots : s < noClient' => sem[s] # Uninit
    BY <1>1, <2>1 DEF ServerInv, SlotsOK, Given
  <2>6. LocksExclusive'
    BY <2>1, <2>5 DEF ServerInv, LocksExclusive, Holds
  <2>7. QED
    BY <2>3, <2>4, <2>6 DEF Controls
<1>5. QED
  BY <1>2, <1>3, <1>4 DEF Main

(* A step of one thread. *)
LEMMA ThreadControls ==
  ASSUME ServerInv, UNCHANGED mainVars, NEW i \in Slots,
         th[i].pc # "none",
         \A j \in Slots \ {i} : th'[j] = th[j],
         Running(i)' => Given(th'[i].id) /\ th'[i].sd = newsd[th'[i].id],
         ThreadOK(i)',
         \/ /\ UNCHANGED sem
            /\ \A s \in Slots : Holds(i, s)' <=> Holds(i, s)
         \/ \E s \in Slots :
              /\ sem[s] = 1 /\ sem' = [sem EXCEPT ![s] = 0]
              /\ \A r \in Slots : ~Holds(i, r) /\ (Holds(i, r)' <=> r = s)
         \/ \E s \in Slots :
              /\ Holds(i, s) /\ sem' = [sem EXCEPT ![s] = 1]
              /\ \A r \in Slots : ~Holds(i, r)'
  PROVE  Controls'
<1>1. /\ sem \in [Slots -> {Uninit, 0, 1}]
      /\ UNCHANGED <<mpc, noClient, newsd, clientId>>
  BY DEF ServerInv, TypeOK, mainVars
<1>2. \A s \in Slots : Given(s)' <=> Given(s)
  BY <1>1 DEF Given
<1>3. \A s \in Slots : sem'[s] = Uninit <=> sem[s] = Uninit
  BY <1>1 DEF ServerInv, LocksExclusive, Uninit
<1>4. SlotsOK'
  <2>1. Given(i) /\ Given(clientId)
    BY DEF ServerInv, SlotsOK
  <2>2. QED
    BY <1>1, <1>2, <1>3, <2>1 DEF ServerInv, SlotsOK, Running, Given
<1>5. ThreadsOK'
  BY <1>1 DEF ServerInv, ThreadsOK, ThreadOK, Carries, Writing, Copies
<1>6. \A j \in Slots \ {i}, s \in Slots : Holds(j, s)' <=> Holds(j, s)
  BY DEF Holds
<1>7. LocksExclusive'
  <2>1. CASE UNCHANGED sem /\ \A s \in Slots : Holds(i, s)' <=> Holds(i, s)
    BY <1>1, <1>6, <2>1 DEF ServerInv, LocksExclusive
  <2>2. ASSUME NEW s \in Slots, sem[s] = 1, sem' = [sem EXCEPT ![s] = 0],
               \A r \in Slots : ~Holds(i, r) /\ (Holds(i, r)' <=> r = s)
        PROVE  LocksExclusive'
    BY <1>1, <1>3, <1>6, <2>2 DEF ServerInv, LocksExclusive
  <2>3. ASSUME NEW s \in Slots, Holds(i, s), sem' = [sem EXCEPT ![s] = 1],
               \A r \in Slots : ~Holds(i, r)'
        PROVE  LocksExclusive'
    <3>1. \A r \in Slots \ {s} : ~Holds(i, r)
      BY <2>3 DEF Holds
    <3>2. QED
      BY <1>1, <1>3, <1>6, <2>3, <3>1 DEF ServerInv, LocksExclusive
  <2>4. QED
    BY <2>1, <2>2, <2>3
<1>8. QED
  BY <1>4, <1>5, <1>7 DEF Controls

(* A read changes the message and the place of its thread. *)
LEMMA AfterPieceFields ==
  ASSUME TypeOK, NEW i \in Slots, NEW m, NEW pc
  PROVE  LET r == AfterPiece(i, m, pc)
         IN /\ r.pc = pc /\ r.id = th[i].id /\ r.sd = th[i].sd /\ r.ref = None
            /\ r.msg = m /\ r.to = th[i].to /\ r.depth = 0
<1>1. th[i] \in ThreadStates
  BY DEF TypeOK
<1>2. \A r \in ThreadStates :
        LET q == [r EXCEPT !.ref = None, !.msg = m, !.depth = 0, !.pc = pc]
        IN /\ q.pc = pc /\ q.id = r.id /\ q.sd = r.sd /\ q.ref = None
           /\ q.msg = m /\ q.to = r.to /\ q.depth = 0
  BY DEF ThreadStates
<1>3. QED
  BY <1>1, <1>2 DEF AfterPiece

(* A thread stays on the semaphore it waited for until it posts it. *)
LEMMA ServiceControls ==
  ASSUME ServerInv, NEW i \in Slots, Service(i)
  PROVE  Controls'
<1> USE DEF Set
<1>1. /\ th \in [Slots -> ThreadStates] /\ th[i] \in ThreadStates
      /\ th[i].to \in Nat /\ th[i].to \in Slots /\ th[i].id \in Nat /\ th[i].depth \in Nat
      /\ noClient \in Nat /\ sem \in [Slots -> {Uninit, 0, 1}]
  <2>1. /\ th \in [Slots -> ThreadStates] /\ noClient \in Slots
        /\ sem \in [Slots -> {Uninit, 0, 1}]
    BY DEF ServerInv, TypeOK
  <2>2. th[i] \in ThreadStates
    BY <2>1
  <2>3. /\ th[i].to \in Slots /\ th[i].id \in Slots
        /\ th[i].depth \in 0 .. Cardinality(Clients)
    BY <2>2 DEF ThreadStates
  <2>4. /\ th[i].to \in Nat /\ th[i].id \in Nat /\ th[i].depth \in Nat
        /\ noClient \in Nat
    <3>1. \A n \in 0 .. Cardinality(Clients) : n \in Nat
      OBVIOUS
    <3>2. QED
      BY <2>1, <2>3, <3>1 DEF Slots
  <2>5. QED
    BY <2>1, <2>2, <2>3, <2>4
<1>2. ThreadOK(i) /\ (Running(i) => Given(th[i].id) /\ th[i].sd = newsd[th[i].id])
  BY DEF ServerInv, ThreadsOK, SlotsOK
<1>3. CASE Start(i)
  <2>1. /\ UNCHANGED <<mainVars, sem>> /\ th[i].pc = "start"
        /\ th'[i] = Thread("head", clientId, newsd[clientId])
        /\ \A j \in Slots \ {i} : th'[j] = th[j]
    BY <1>1, <1>3 DEF Start
  <2>2. Given(clientId)
    BY <2>1 DEF ServerInv, SlotsOK
  <2>3. ThreadOK(i)' /\ \A s \in Slots : ~Holds(i, s) /\ ~Holds(i, s)'
    BY <2>1 DEF Thread, ThreadOK, Carries, Writing, Holds
  <2>4. QED
    BY <2>1, <2>2, <2>3, ThreadControls DEF Thread
<1>4. CASE EnterRead(i) \/ ReadEnd(i) \/ EndDistribution(i) \/ CloseNext(i)
  <2>1. /\ UNCHANGED <<mainVars, sem>>
        /\ th'[i] \in { [th[i] EXCEPT !.ref = tab[th[i].sd]], [th[i] EXCEPT !.pc = "head"],
                        [th[i] EXCEPT !.pc = "leave", !.ref = None],
                        [th[i] EXCEPT !.pc = "done"] }
        /\ \A j \in Slots \ {i} : th'[j] = th[j]
    BY <1>1, <1>4 DEF EnterRead, ReadEnd, EndDistribution, CloseNext
  <2>2. /\ th[i].pc \in {"head", "body", "dist", "leave"}
        /\ th'[i].pc \in {"head", "body", "leave", "done"}
        /\ th'[i].pc = "body" => th[i].pc = "body"
        /\ th'[i].id = th[i].id /\ th'[i].sd = th[i].sd /\ th'[i].msg = th[i].msg
        /\ th'[i].depth = th[i].depth
        /\ th'[i].ref # None => th'[i].pc \in {"head", "body"}
    <3>1. CASE EnterRead(i)
      BY <1>1, <1>2, <3>1 DEF EnterRead, ThreadStates, ThreadOK
    <3>2. CASE ReadEnd(i)
      BY <1>1, <1>2, <3>2 DEF ReadEnd, ThreadStates, ThreadOK
    <3>3. CASE EndDistribution(i)
      BY <1>1, <1>2, <3>3 DEF EndDistribution, ThreadStates, ThreadOK
    <3>4. CASE CloseNext(i)
      BY <1>1, <1>2, <3>4 DEF CloseNext, ThreadStates, ThreadOK
    <3>5. QED
      BY <1>4, <3>1, <3>2, <3>3, <3>4
  <2>3. ThreadOK(i)'
    BY <1>2, <2>2 DEF ThreadOK, Carries, Writing
  <2>4. \A s \in Slots : ~Holds(i, s) /\ ~Holds(i, s)'
    <3>1. th[i].pc \notin {"write1", "write2"} /\ th'[i].pc \notin {"write1", "write2"}
      BY <2>2
    <3>2. QED
      BY <3>1, Zenon DEF Holds
  <2>5. QED
    BY <1>2, <2>1, <2>2, <2>3, <2>4, ThreadControls DEF Running
<1>5. CASE ReadPiece(i) \/ ReadTorn(i)
  <2>1. /\ th[i].pc \in {"head", "body"}
        /\ UNCHANGED <<mainVars, sem>>
    BY <1>5, PieceRead, Zenon DEF ServerInv, ReadPiece, ReadAs, ReadTorn
  <2>2. PICK m \in Texts, pc \in {"body", "print", "leave"} :
          th' = [th EXCEPT ![i] = AfterPiece(i, m, pc)]
    BY <1>5, PieceRead DEF ServerInv
  <2>3. /\ \A j \in Slots \ {i} : th'[j] = th[j]
        /\ th'[i].pc = pc /\ th'[i].id = th[i].id /\ th'[i].sd = th[i].sd /\ th'[i].ref = None
        /\ th'[i].depth = 0
    BY <1>1, <2>2, AfterPieceFields DEF ServerInv
  <2>4. ThreadOK(i)' /\ \A s \in Slots : ~Holds(i, s) /\ ~Holds(i, s)'
    BY <2>1, <2>3 DEF ThreadOK, Writing, Holds
  <2>5. Running(i)
    BY <2>1 DEF Running
  <2>6. QED
    BY <1>2, <2>1, <2>3, <2>4, <2>5, ThreadControls, Zenon
<1>6. CASE PrintMessage(i) \/ SkipSelf(i)
  <2>1. /\ UNCHANGED <<mainVars, sem>>
        /\ th'[i] \in { [th[i] EXCEPT !.pc = "dist", !.to = 0], [th[i] EXCEPT !.to = @ + 1] }
        /\ \A j \in Slots \ {i} : th'[j] = th[j]
    BY <1>1, <1>6 DEF PrintMessage, SkipSelf
  <2>2. /\ th[i].pc \in {"print", "dist"} /\ th'[i].pc = "dist"
        /\ th'[i].id = th[i].id /\ th'[i].sd = th[i].sd /\ th'[i].msg = th[i].msg
        /\ th'[i].ref = th[i].ref /\ th'[i].depth = th[i].depth
        /\ \/ PrintMessage(i) /\ th[i].pc = "print" /\ th'[i].to = 0
           \/ SkipSelf(i) /\ th[i].pc = "dist" /\ th[i].to < noClient /\ th[i].to = th[i].id
              /\ th'[i].to = th[i].to + 1
    <3>1. CASE PrintMessage(i)
      BY <1>1, <3>1 DEF PrintMessage, ThreadStates
    <3>2. CASE SkipSelf(i)
      BY <1>1, <3>2 DEF SkipSelf, ThreadStates
    <3>3. QED
      BY <1>6, <3>1, <3>2
  <2>3. noClient' = noClient
    BY <2>1 DEF mainVars
  <2>4. ThreadOK(i)'
    BY <1>1, <1>2, <2>2, <2>3 DEF ThreadOK, Carries, Writing, Copies
  <2>5. \A s \in Slots : ~Holds(i, s) /\ ~Holds(i, s)'
    BY <2>2 DEF Holds
  <2>6. QED
    BY <1>2, <2>1, <2>2, <2>4, <2>5, ThreadControls DEF Running
<1>7. CASE Acquire(i)
  <2>1. /\ UNCHANGED mainVars /\ th[i].pc = "dist"
        /\ th[i].to < noClient /\ th[i].to # th[i].id
        /\ sem[th[i].to] = 1 /\ sem' = [sem EXCEPT ![th[i].to] = 0]
        /\ th'[i] = [th[i] EXCEPT !.pc = "write1", !.depth = IF Encrypted THEN @ + 1 ELSE @]
        /\ \A j \in Slots \ {i} : th'[j] = th[j]
    BY <1>1, <1>7 DEF Acquire, StartWrite
  <2>2. /\ th'[i].pc = "write1" /\ th'[i].id = th[i].id /\ th'[i].sd = th[i].sd
        /\ th'[i].msg = th[i].msg /\ th'[i].ref = th[i].ref /\ th'[i].to = th[i].to
        /\ th'[i].depth = IF Encrypted THEN th[i].depth + 1 ELSE th[i].depth
    BY <1>1, <2>1 DEF ThreadStates
  <2>3. noClient' = noClient
    BY <2>1 DEF mainVars
  <2>4. ThreadOK(i)'
    BY <1>1, <1>2, <2>1, <2>2, <2>3 DEF ThreadOK, Carries, Writing, Copies
  <2>5. \A s \in Slots : ~Holds(i, s) /\ (Holds(i, s)' <=> s = th[i].to)
    BY <2>1, <2>2 DEF Holds
  <2>6. QED
    BY <1>1, <1>2, <2>1, <2>2, <2>4, <2>5, ThreadControls DEF Running
<1>8. CASE WriteHead(i)
  <2>1. /\ UNCHANGED <<mainVars, sem>> /\ th[i].pc = "write1"
        /\ th'[i] = [th[i] EXCEPT !.pc = "write2"]
        /\ \A j \in Slots \ {i} : th'[j] = th[j]
    BY <1>1, <1>8 DEF WriteHead
  <2>2. /\ th'[i].pc = "write2" /\ th'[i].id = th[i].id /\ th'[i].sd = th[i].sd
        /\ th'[i].msg = th[i].msg /\ th'[i].ref = th[i].ref /\ th'[i].to = th[i].to
        /\ th'[i].depth = th[i].depth /\ noClient' = noClient
    BY <1>1, <2>1 DEF ThreadStates, mainVars
  <2>3. ThreadOK(i)' /\ \A s \in Slots : Holds(i, s)' <=> Holds(i, s)
    BY <1>2, <2>1, <2>2 DEF ThreadOK, Carries, Writing, Copies, Holds
  <2>4. QED
    BY <1>2, <2>1, <2>2, <2>3, ThreadControls DEF Running
<1>9. CASE WriteBody(i)
  <2>1. /\ UNCHANGED mainVars /\ th[i].pc = "write2"
        /\ sem' = [sem EXCEPT ![th[i].to] = @ + 1]
        /\ th'[i] = [th[i] EXCEPT !.pc = "dist", !.to = @ + 1]
        /\ \A j \in Slots \ {i} : th'[j] = th[j]
    BY <1>1, <1>9 DEF WriteBody
  <2>2. /\ th'[i].pc = "dist" /\ th'[i].id = th[i].id /\ th'[i].sd = th[i].sd
        /\ th'[i].msg = th[i].msg /\ th'[i].ref = th[i].ref /\ th'[i].to = th[i].to + 1
        /\ th'[i].depth = th[i].depth /\ noClient' = noClient
    BY <1>1, <2>1 DEF ThreadStates, mainVars
  <2>3. ThreadOK(i)'
    <3>1. /\ th[i].ref = None
          /\ th[i].to < noClient /\ th[i].to # th[i].id
          /\ ~Encrypted => th[i].depth = 0
          /\ Encrypted => th[i].depth = Copies(i) + 1
          /\ noClient' = noClient
      BY <1>2, <2>1, <2>2 DEF ThreadOK, Carries, Writing
    <3>2. th'[i].to <= noClient' /\ (Encrypted => th'[i].depth = Copies(i)')
      BY <1>1, <2>2, <3>1 DEF Copies
    <3>3. QED
      BY <2>2, <3>1, <3>2 DEF ThreadOK, Carries, Writing
  <2>4. Holds(i, th[i].to) /\ \A s \in Slots : ~Holds(i, s)'
    BY <2>1, <2>2 DEF Holds
  <2>5. sem' = [sem EXCEPT ![th[i].to] = 1]
    <3>1. sem[th[i].to] = 0
      BY <1>1, <2>4 DEF ServerInv, LocksExclusive
    <3>2. QED
      BY <2>1, <3>1
  <2>6. QED
    BY <1>1, <1>2, <2>1, <2>2, <2>3, <2>4, <2>5, ThreadControls DEF Running
<1>10. CASE ReadFails(i) \/ PrintFails(i) \/ WriteFails(i)
  BY <1>10, EndingDies, ControlsFrame DEF Dies
<1>11. QED
  BY <1>3, <1>4, <1>5, <1>6, <1>7, <1>8, <1>9, <1>10 DEF Service

------------------------------------------------------------------------------
(* The invariant holds when the server starts, and every step keeps it. *)
LEMMA InitServerInv == Init => ServerInv
<1> SUFFICES ASSUME Init PROVE ServerInv
  OBVIOUS
<1> USE Sizes, IrcBoundsAssumption
<1>1. TypeOK
  <2>1. Thread("none", 0, 0) \in ThreadStates
    BY ThreadType DEF ThreadLabels
  <2>2. <<>> \in Seq(Texts) /\ <<>> \in Seq(Clients)
    BY EmptySeq
  <2>3. <<>> \in Seq(Pieces({"head", "body"})) /\ <<>> \in Seq(Pieces({"head", "body", "raw"}))
    BY EmptySeq
  <2>4. QED
    BY <2>1, <2>2, <2>3 DEF Init, TypeOK, Texts, Causes
<1>2. Accepted = {}
  BY DEF Init, Accepted
<1>3. AcceptedCounted
  BY <1>2, FS_EmptySet DEF Init, AcceptedCounted
<1>4. BacklogOK /\ TableOK
  BY NamesAssumption DEF Init, BacklogOK, TableOK
<1>5. \A i \in Slots : th[i].pc = "none" /\ th[i].ref = None /\ th[i].depth = 0
  BY DEF Init, Thread
<1>6. \A s \in Slots : ~Given(s) /\ sem[s] = Uninit
  BY DEF Init, Given
<1>7. SlotsOK
  BY <1>5, <1>6 DEF SlotsOK, Running
<1>8. ThreadsOK
  BY <1>5 DEF ThreadsOK, ThreadOK, Carries, Writing
<1>9. LocksExclusive
  BY <1>5, <1>6 DEF Init, LocksExclusive, Holds, Uninit
<1>10. QED
  BY <1>1, <1>3, <1>4, <1>7, <1>8, <1>9 DEF ServerInv

LEMMA StepServerInv ==
  ASSUME ServerInv, [Next]_vars
  PROVE  ServerInv'
<1>1. CASE UNCHANGED vars
  BY <1>1 DEF vars, mainVars, clientVars, streamVars, ServerInv, TypeOK, AcceptedCounted,
      Accepted, Waits, BacklogOK, TableOK, SlotsOK, Given, Running, ThreadsOK, ThreadOK, Carries,
      Writing, Copies, LocksExclusive, Holds
<1>2. CASE Next
  <2>1. TypeOK'
    <3>1. Dies => TypeOK'
      BY DEF Dies, mainVars, clientVars, streamVars, ServerInv, TypeOK
    <3>2. ASSUME NEW i \in Slots, Service(i)
          PROVE  TypeOK'
      <4>1. CASE ReadFails(i) \/ PrintFails(i) \/ WriteFails(i)
        BY <3>1, <4>1, EndingDies
      <4>2. QED
        BY <3>2, <4>1, ReadTypes, WriteTypes DEF Service
    <3>3. QED
      BY <1>2, <3>1, <3>2, ClientTypes, MainTypes, EndingDies DEF Next
  <2>2. Controls'
    <3>1. ASSUME NEW c \in Clients, Client(c)
          PROVE  Controls'
      BY <3>1, ControlsFrame DEF Client, Connect, SendHead, SendBody, Send, Receive, Leave
    <3>2. Fail => Controls'
      BY EndingDies, ControlsFrame DEF Dies
    <3>3. QED
      BY <1>2, <3>1, <3>2, MainControls, ServiceControls DEF Next
  <2>3. QED
    BY <1>2, <2>1, <2>2, StepAccounts DEF ServerInv, Accounts, Controls
<1>3. QED
  BY <1>1, <1>2

(* Connections, descriptors, slots and semaphores stay in order, whatever  *)
(* clients leave, whatever descriptors their threads close and whatever    *)
(* two threads read of one connection.                                     *)
THEOREM ServerInvariance == Spec => []ServerInv
BY InitServerInv, StepServerInv, PTL DEF Spec

(* The shared arrays, the threads, the descriptor table and the streams    *)
(* are well typed: main counts no more connections than there are clients, *)
(* accept() finds a free descriptor, and a buffer is encrypted at most     *)
(* once for each client.                                                   *)
THEOREM ServerTypes == Spec => []TypeOK
<1>1. ServerInv => TypeOK
  BY DEF ServerInv
<1>2. QED
  BY <1>1, ServerInvariance, PTL

(* locks[]: at most one thread writes to a client, whoever joins or leaves *)
(* and whatever number or text a thread has read.                          *)
THEOREM LocksStayExclusive == Spec => []LocksExclusive
<1>1. ServerInv => LocksExclusive
  BY DEF ServerInv
<1>2. QED
  BY <1>1, ServerInvariance, PTL

------------------------------------------------------------------------------
(* As long as no client has left and no two threads read for the same one. *)

(* A message names its sender and its number. *)
LEMMA MessageTypes ==
  \A m \in Messages : m[1] \in Clients /\ m[2] \in Nat /\ m[2] \in 1 .. MaxSends
BY DEF Messages

(* The pieces of a stream carry messages. *)
LEMMA StreamTypes ==
  ASSUME ServerInv, TogetherInv, NEW c \in Clients
  PROVE  /\ Len(up[c]) \in Nat /\ DOMAIN up[c] = 1 .. Len(up[c])
         /\ \A k \in DOMAIN up[c] : up[c][k].msg \in Messages
         /\ Len(down[c]) \in Nat /\ DOMAIN down[c] = 1 .. Len(down[c])
         /\ \A k \in DOMAIN down[c] : down[c][k].msg \in Messages
<1>1. up[c] \in Seq(Pieces({"head", "body"})) /\ down[c] \in Seq(Pieces({"head", "body", "raw"}))
  BY DEF ServerInv, TypeOK
<1>2. /\ \A k \in DOMAIN up[c] : up[c][k].msg \in Messages
      /\ \A k \in DOMAIN down[c] : down[c][k].msg \in Messages
  BY DEF TogetherInv, NoGarbage
<1>3. QED
  BY <1>1, <1>2

(* A client that has left does not come back. *)
LEMMA StayedTogether ==
  ASSUME ServerInv, Next, ~Left'
  PROVE  ~Left
<1>1. conn \in [Clients -> {"none", "open", "fin", "rst"}]
  BY DEF ServerInv, TypeOK
<1>2. SUFFICES ASSUME NEW c \in Clients, conn[c] \in {"fin", "rst"}
               PROVE  conn'[c] \in {"fin", "rst"}
  BY DEF Left
<1>3. ASSUME NEW e, NEW p, Put(e, p)
      PROVE  conn'[c] \in {"fin", "rst"}
  BY <1>1, <1>2, <1>3 DEF Put
<1>4. CASE Main
  BY <1>2, <1>4 DEF Main, Accept, Spawn, Count, streamVars
<1>5. ASSUME NEW i \in Slots, Service(i)
      PROVE  conn'[c] \in {"fin", "rst"}
  <2>1. CASE UNCHANGED conn
    BY <1>2, <2>1
  <2>2. CASE ~UNCHANGED conn
    BY <1>3, <1>5, <2>2, EndingDies DEF Service, Start, EnterRead, ReadPiece, ReadAs, ReadTorn,
       ReadEnd, PrintMessage, SkipSelf, Acquire, StartWrite, EndDistribution, WriteHead,
       WriteBody, WritePiece, CloseNext, Dies, streamVars
  <2>3. QED
    BY <2>1, <2>2
<1>6. ASSUME NEW e \in Clients, Client(e)
      PROVE  conn'[c] \in {"fin", "rst"}
  BY <1>1, <1>2, <1>6 DEF Client, Connect, SendHead, SendBody, Send, Receive, Leave
<1>7. CASE Fail
  BY <1>2, <1>7, EndingDies DEF Dies, streamVars
<1>8. QED
  BY <1>4, <1>5, <1>6, <1>7 DEF Next

(* A thread that has taken a number keeps it and its descriptor, so two that *)
(* share one go on sharing it.                                             *)
LEMMA StaysRunning ==
  ASSUME ServerInv, Next, NEW i \in Slots, Running(i)
  PROVE  Running(i)' /\ th'[i].sd = th[i].sd
<1>1. th \in [Slots -> ThreadStates] /\ th[i] \in ThreadStates /\ noClient \in Slots
  BY DEF ServerInv, TypeOK
<1>2. CASE UNCHANGED th
  BY <1>2 DEF Running
<1>3. CASE Main
  <2>1. CASE Spawn
    <3>1. i # noClient
      BY <1>1, <2>1, Sizes DEF Spawn, ServerInv, SlotsOK, Given, Running, Slots
    <3>2. th'[i] = th[i]
      BY <1>1, <2>1, <3>1 DEF Spawn
    <3>3. QED
      BY <3>2 DEF Running
  <2>2. QED
    BY <1>2, <1>3, <2>1 DEF Main, Accept, Count
<1>4. ASSUME NEW j \in Slots, Service(j)
      PROVE  Running(i)' /\ th'[i].sd = th[i].sd
  <2>1. CASE j # i
    <3>1. UNCHANGED th \/ \E r : th' = [th EXCEPT ![j] = r]
      BY <1>4, EndingDies DEF Service, Set, Start, EnterRead, ReadPiece, ReadAs, ReadTorn,
         ReadEnd, PrintMessage, SkipSelf, Acquire, StartWrite, EndDistribution, WriteHead,
         WriteBody, CloseNext, Dies
    <3>2. th'[i] = th[i]
      BY <1>1, <2>1, <3>1
    <3>3. QED
      BY <3>2 DEF Running
  <2>2. CASE j = i
    <3>1. CASE ReadPiece(i) \/ ReadTorn(i)
      BY <1>1, <3>1, PieceRead, AfterPieceFields DEF ServerInv, Running
    <3>2. CASE ReadFails(i) \/ PrintFails(i) \/ WriteFails(i)
      BY <1>2, <3>2, EndingDies DEF Dies
    <3>3. ~Start(i)
      BY DEF Start, Running
    <3>4. CASE Acquire(i)
      <4>1. \E d : th' = [th EXCEPT ![i] = [th[i] EXCEPT !.pc = "write1", !.depth = d]]
        BY <3>4, Zenon DEF Acquire, StartWrite, Set
      <4>2. QED
        BY <1>1, <4>1 DEF ThreadStates, Running
    <3>5. CASE SkipSelf(i)
      BY <1>1, <3>5 DEF SkipSelf, ThreadStates, Running, Set
    <3>6. CASE PrintMessage(i)
      BY <1>1, <3>6 DEF PrintMessage, ThreadStates, Running, Set
    <3>7. CASE EndDistribution(i)
      BY <1>1, <3>7 DEF EndDistribution, ThreadStates, Running, Set
    <3>8. CASE EnterRead(i)
      BY <1>1, <3>8 DEF EnterRead, ThreadStates, Running, Set
    <3>9. CASE WriteHead(i)
      BY <1>1, <3>9 DEF WriteHead, ThreadStates, Running, Set
    <3>10. CASE WriteBody(i)
      BY <1>1, <3>10 DEF WriteBody, ThreadStates, Running, Set
    <3>11. CASE CloseNext(i)
      BY <1>1, <3>11 DEF CloseNext, ThreadStates, Running, Set
    <3>12. CASE ReadEnd(i)
      BY <1>1, <3>12 DEF ReadEnd, ThreadStates, Running, Set
    <3>13. QED
      BY <1>4, <2>2, <3>1, <3>2, <3>3, <3>4, <3>5, <3>6, <3>7, <3>8, <3>9, <3>10, <3>11, <3>12
      DEF Service
  <2>3. QED
    BY <2>1, <2>2
<1>5. ASSUME NEW c \in Clients, Client(c)
      PROVE  UNCHANGED th
  BY <1>5 DEF Client, Connect, SendHead, SendBody, Send, Receive, Leave
<1>6. CASE Fail
  BY <1>2, <1>6, EndingDies DEF Dies
<1>7. QED
  BY <1>2, <1>3, <1>4, <1>5, <1>6 DEF Next

LEMMA StaysShared ==
  ASSUME ServerInv, Next, ~SharedId'
  PROVE  ~SharedId
BY StaysRunning DEF SharedId

(* A write to an open connection goes through.                             *)
LEMMA OpenPut ==
  ASSUME ServerInv, ~Left, NEW c \in Clients, NEW p \in Pieces({"head", "body", "raw"}), Put(c, p)
  PROVE  /\ UNCHANGED <<conn, up>>
         /\ \A e \in Clients \ {c} : down'[e] = down[e]
         /\ Len(down[c]) \in Nat /\ Len(down'[c]) = Len(down[c]) + 1
         /\ DOMAIN down[c] = 1 .. Len(down[c]) /\ DOMAIN down'[c] = 1 .. Len(down[c]) + 1
         /\ \A k \in 1 .. Len(down[c]) : down'[c][k] = down[c][k]
         /\ down'[c][Len(down[c]) + 1] = p
<1>1. /\ down \in [Clients -> Seq(Pieces({"head", "body", "raw"}))]
      /\ down[c] \in Seq(Pieces({"head", "body", "raw"}))
  BY DEF ServerInv, TypeOK
<1>2. UNCHANGED <<conn, up>> /\ down' = [down EXCEPT ![c] = Append(@, p)]
  BY DEF Put, Left
<1>3. down'[c] = Append(down[c], p) /\ \A e \in Clients \ {c} : down'[e] = down[e]
  BY <1>1, <1>2
<1>4. QED
  BY <1>1, <1>2, <1>3, AppendFacts

(* Every slot that main has connected keeps its client, and every thread   *)
(* that runs its descriptor.                                               *)
KeepsSlots ==
  /\ \A s \in Slots : Taken(s) => Taken(s)' /\ tab'[newsd'[s]] = tab[newsd[s]]
  /\ \A i \in Slots : Running(i) => tab'[th[i].sd] = tab[th[i].sd]

(* A thread uses the descriptor of the slot whose number it took. *)
LEMMA RunningSlots ==
  ASSUME ServerInv, SlotsConnected, NEW i \in Slots, Running(i)
  PROVE  /\ th[i].id \in Slots /\ Taken(th[i].id)
         /\ th[i].sd = newsd[th[i].id] /\ tab[th[i].sd] \in Clients
<1>1. th[i] \in ThreadStates
  BY DEF ServerInv, TypeOK
<1>2. th[i].id \in Slots /\ Given(th[i].id) /\ th[i].sd = newsd[th[i].id]
  BY <1>1 DEF ThreadStates, ServerInv, SlotsOK
<1>3. Taken(th[i].id)
  BY <1>2 DEF Given, Taken
<1>4. QED
  BY <1>2, <1>3 DEF SlotsConnected

(* Main connects a new slot to a client that no other slot has. *)
LEMMA MainSlots ==
  ASSUME ServerInv, SlotsConnected, Main
  PROVE  SlotsConnected' /\ KeepsSlots
<1>1. /\ noClient \in Slots /\ newsd \in [Slots -> Fds] /\ noClient \in Nat
      /\ tab \in [Fds -> Clients \cup {"tty", "free"}]
      /\ "free" \notin Clients
  BY Sizes, NamesAssumption DEF ServerInv, TypeOK
<1>2. CASE Accept
  <2> DEFINE d == LowestFree
             c == Head(backlog)
  <2>1. d \in Fds /\ tab[d] = "free" /\ c \in Clients
    <3>1. backlog \in Seq(Clients) /\ backlog # <<>>
      BY <1>2 DEF Accept, ServerInv, TypeOK
    <3>2. QED
      BY <3>1, SomeFree, TailFacts
  <2>2. /\ mpc = "accept" /\ mpc' = "spawn" /\ noClient' = noClient /\ th' = th
        /\ newsd' = [newsd EXCEPT ![noClient] = d] /\ tab' = [tab EXCEPT ![d] = c]
    BY <1>2 DEF Accept
  <2> HIDE DEF d, c
  <2>3. \A s \in Slots : Taken(s) => /\ s # noClient /\ s < noClient
                                     /\ newsd'[s] = newsd[s] /\ newsd[s] \in Fds /\ newsd[s] # d
                                     /\ tab'[newsd'[s]] = tab[newsd[s]]
    <3>1. ASSUME NEW s \in Slots, Taken(s)
          PROVE  /\ s # noClient /\ s < noClient
                 /\ newsd'[s] = newsd[s] /\ newsd[s] \in Fds /\ newsd[s] # d
                 /\ tab'[newsd'[s]] = tab[newsd[s]]
      <4>1. s < noClient /\ s # noClient
        BY <1>1, <2>2, <3>1, Sizes DEF Taken
      <4>2. newsd'[s] = newsd[s] /\ newsd[s] \in Fds
        BY <1>1, <2>2, <4>1
      <4>3. newsd[s] # d
        BY <1>1, <2>1, <3>1 DEF SlotsConnected
      <4>4. QED
        BY <1>1, <2>2, <4>1, <4>2, <4>3
    <3>2. QED
      BY <3>1
  <2>4. \A s \in Slots : Taken(s)' <=> Taken(s) \/ s = noClient
    BY <1>1, <2>2, Sizes DEF Taken
  <2>5. newsd'[noClient] = d /\ tab'[d] = c
    BY <1>1, <2>1, <2>2
  <2>6. SlotsConnected'
    <3>1. tab'[0] = "tty"
      BY <1>1, <2>1, <2>2, Sizes DEF SlotsConnected
    <3>2. \A s \in Slots : Taken(s)' => tab'[newsd'[s]] \in Clients
      BY <2>1, <2>3, <2>4, <2>5 DEF SlotsConnected
    <3>3. \A s, r \in Slots : Taken(s)' /\ Taken(r)' /\ newsd'[s] = newsd'[r] => s = r
      BY <2>3, <2>4, <2>5 DEF SlotsConnected
    <3>4. QED
      BY <3>1, <3>2, <3>3 DEF SlotsConnected
  <2>7. \A i \in Slots : Running(i) => tab'[th[i].sd] = tab[th[i].sd]
    BY <2>3, RunningSlots
  <2>8. QED
    BY <2>3, <2>4, <2>6, <2>7 DEF KeepsSlots
<1>3. CASE Spawn \/ Count
  <2>1. /\ tab' = tab /\ newsd' = newsd
        /\ \/ mpc = "spawn" /\ mpc' = "count" /\ noClient' = noClient
           \/ mpc = "count" /\ mpc' = "accept" /\ noClient' = noClient + 1
    BY <1>3 DEF Spawn, Count
  <2>2. \A s \in Slots : Taken(s)' <=> Taken(s)
    BY <1>1, <2>1, Sizes DEF Taken
  <2>3. QED
    BY <2>1, <2>2 DEF SlotsConnected, KeepsSlots
<1>4. QED
  BY <1>2, <1>3 DEF Main

(* A thread goes on, without a piece read or written: what it carries and  *)
(* who has got it stay as they are.                                        *)
GoesOn(i) ==
  /\ th[i].pc # "write2" /\ th'[i].pc \notin {"write2", "leave", "done"}
  /\ th'[i].pc = "body" <=> th[i].pc = "body"
  /\ th'[i].ref # None => th'[i].ref = tab'[th'[i].sd]
  /\ Carries(i)' =>
       /\ Carries(i)
       /\ th'[i].id = th[i].id /\ th'[i].sd = th[i].sd /\ th'[i].msg = th[i].msg
       /\ Forwards(i) => Forwards(i)'
       /\ Forwards(i)' =>
            \A s \in Slots \ {th[i].id} : s < th'[i].to <=> Forwards(i) /\ s < th[i].to

Onward ==
  /\ SlotsConnected' /\ KeepsSlots
  /\ UNCHANGED <<up, down, sent, sending>>
  /\ \A i \in Slots : th'[i] = th[i] \/ GoesOn(i)

(* Nobody starts or ends the writing of a message: the halves stay. *)
LEMMA HalvesKept ==
  ASSUME HalfWritten, UNCHANGED down,
         \A i \in Slots : th[i].pc = "write2" \/ th'[i].pc = "write2" =>
           /\ th'[i] = th[i] /\ tab'[newsd'[th[i].to]] = tab[newsd[th[i].to]]
  PROVE  HalfWritten'
<1>1. \A i \in Slots : th[i].pc = "write2" \/ th'[i].pc = "write2" =>
        /\ th'[i] = th[i] /\ tab'[newsd'[th[i].to]] = tab[newsd[th[i].to]]
  OBVIOUS
<1>2. \A c \in Clients : \A m : (Half(c)' <=> Half(c)) /\ (HalfOf(c, m)' <=> HalfOf(c, m))
  BY DEF Half, HalfOf
<1>3. \A c \in Clients :
        Half(c)' => \E i \in Slots : th'[i].pc = "write2" /\ tab'[newsd'[th'[i].to]] = c
  BY <1>1, <1>2 DEF HalfWritten
<1>4. \A i \in Slots : \A c \in Clients :
        th'[i].pc = "write2" /\ tab'[newsd'[th'[i].to]] = c => HalfOf(c, th[i].msg)'
  <2>1. SUFFICES ASSUME NEW i \in Slots, NEW c \in Clients,
                        th'[i].pc = "write2", tab'[newsd'[th'[i].to]] = c
                 PROVE  HalfOf(c, th[i].msg)'
    OBVIOUS
  <2>2. th'[i] = th[i] /\ HalfOf(c, th[i].msg)
    BY <1>1, <2>1 DEF HalfWritten
  <2>3. QED
    BY <2>2 DEF HalfOf, Half
<1>5. QED
  BY <1>3, <1>4 DEF HalfWritten

(* Steps of threads that neither read nor write keep the invariant. *)
LEMMA OnwardTogether ==
  ASSUME ServerInv, TogetherInv, Onward
  PROVE  TogetherInv'
<1> USE DEF Onward
<1>1. \A i \in Slots : Carries(i) \/ th[i].ref # None => Running(i)
  BY DEF ServerInv, ThreadsOK, ThreadOK, Carries, Running
<1>2. ASSUME NEW i \in Slots, Carries(i)'
      PROVE  /\ Carries(i) /\ tab'[th'[i].sd] = tab[th[i].sd]
             /\ th'[i].id = th[i].id /\ th'[i].msg = th[i].msg
             /\ Forwards(i) => Forwards(i)'
             /\ Forwards(i)' =>
                  \A s \in Slots \ {th[i].id} : s < th'[i].to <=> Forwards(i) /\ s < th[i].to
  <2>1. CASE th'[i] = th[i]
    BY <1>1, <1>2, <2>1 DEF Carries, KeepsSlots, Forwards
  <2>2. CASE GoesOn(i)
    BY <1>1, <1>2, <2>2 DEF GoesOn, KeepsSlots
  <2>3. QED
    BY <2>1, <2>2
<1>3. ReadsOwn'
  <2>1. ASSUME NEW i \in Slots
        PROVE  /\ th'[i].pc \notin {"leave", "done"}
               /\ th'[i].ref # None => th'[i].ref = tab'[th'[i].sd]
    <3>1. CASE th'[i] = th[i]
      BY <1>1, <3>1 DEF TogetherInv, ReadsOwn, KeepsSlots
    <3>2. CASE GoesOn(i)
      BY <3>2 DEF GoesOn
    <3>3. QED
      BY <3>1, <3>2
  <2>2. \A i \in Slots : Carries(i)' => th'[i].msg[1] = tab'[th'[i].sd]
    BY <1>2 DEF TogetherInv, ReadsOwn
  <2>3. QED
    BY <2>1, <2>2 DEF ReadsOwn
<1>4. SentOnce' /\ WellFramed' /\ NoEchoNoDuplicate' /\ NoGarbage' /\ Layered'
  <2>1. SentOnce' /\ WellFramed' /\ NoEchoNoDuplicate'
    BY DEF TogetherInv, SentOnce, Numbered, WellFramed, NoEchoNoDuplicate
  <2>2. NoGarbage'
    BY <1>2 DEF TogetherInv, NoGarbage
  <2>3. ASSUME NEW c, NEW p, HasDepth(c, p)
        PROVE  HasDepth(c, p)'
    BY <2>3 DEF HasDepth, KeepsSlots
  <2>4. Layered'
    BY <2>3 DEF TogetherInv, Layered
  <2>5. QED
    BY <2>1, <2>2, <2>4
<1>5. CarriedOnce'
  BY <1>2 DEF TogetherInv, CarriedOnce, Numbered, HeadWaits
<1>6. Forwarded'
  <2>1. SUFFICES ASSUME NEW i \in Slots, Carries(i)'
                 PROVE  /\ \A c \in Clients : \A part : \A k \in DOMAIN down[c] :
                             down[c][k].msg = th'[i].msg /\ part = down[c][k].part =>
                               GotSoFar(i, c, part)'
                        /\ Forwards(i)' => \A s \in Slots :
                             s < th'[i].to /\ s # th'[i].id => HasMessage(s, th[i].msg)'
    BY DEF Forwarded, GotSoFar, HasMessage
  <2>2. ASSUME NEW c \in Clients, NEW part, GotSoFar(i, c, part)
        PROVE  GotSoFar(i, c, part)'
    <3>1. PICK s \in Slots :
            /\ Taken(s) /\ tab[newsd[s]] = c /\ s # th[i].id
            /\ \/ Forwards(i) /\ s < th[i].to
               \/ th[i].pc = "write2" /\ s = th[i].to /\ part = "head"
      BY <2>2 DEF GotSoFar
    <3>2. Taken(s)' /\ tab'[newsd'[s]] = c /\ s # th'[i].id
      BY <1>2, <2>1, <3>1 DEF KeepsSlots
    <3>3. \/ Forwards(i)' /\ s < th'[i].to
          \/ th'[i].pc = "write2" /\ s = th'[i].to /\ part = "head"
      BY <1>2, <2>1, <3>1 DEF GoesOn
    <3>4. QED
      BY <3>2, <3>3 DEF GotSoFar
  <2>3. ASSUME NEW s \in Slots, Forwards(i)', s < th'[i].to, s # th'[i].id
        PROVE  HasMessage(s, th[i].msg)'
    <3>1. Forwards(i) /\ s < th[i].to /\ s # th[i].id /\ th'[i].msg = th[i].msg
      BY <1>2, <2>1, <2>3
    <3>2. HasMessage(s, th[i].msg)
      BY <1>2, <2>1, <3>1 DEF TogetherInv, Forwarded
    <3>3. Taken(s)
      <4>1. th[i] \in ThreadStates /\ th[i].to \in Slots /\ noClient \in Slots
        BY DEF ServerInv, TypeOK, ThreadStates
      <4>2. th[i].to <= noClient
        BY <3>1, <4>1 DEF Forwards, ServerInv, ThreadsOK, ThreadOK, Writing, Slots
      <4>3. QED
        BY <3>1, <4>1, <4>2 DEF Taken, Slots
    <3>4. tab'[newsd'[s]] = tab[newsd[s]]
      BY <3>3 DEF KeepsSlots
    <3>5. QED
      BY <3>1, <3>2, <3>4 DEF HasMessage
  <2>4. \A c \in Clients : \A part : \A k \in DOMAIN down[c] :
          down[c][k].msg = th[i].msg /\ part = down[c][k].part => GotSoFar(i, c, part)
    BY <1>2, <2>1 DEF TogetherInv, Forwarded, GotSoFar
  <2>5. QED
    BY <1>2, <2>1, <2>2, <2>3, <2>4
<1>7. HalfWritten'
  <2>1. \A i \in Slots : th[i].pc = "write2" \/ th'[i].pc = "write2" =>
          /\ th'[i] = th[i] /\ tab'[newsd'[th[i].to]] = tab[newsd[th[i].to]]
    <3>1. SUFFICES ASSUME NEW i \in Slots, th[i].pc = "write2" \/ th'[i].pc = "write2"
                   PROVE  th'[i] = th[i] /\ Taken(th[i].to) /\ th[i].to \in Slots
      BY DEF KeepsSlots
    <3>2. th'[i] = th[i] /\ th[i].pc = "write2"
      BY <3>1 DEF GoesOn
    <3>3. th[i].to < noClient
      BY <3>2 DEF ServerInv, ThreadsOK, ThreadOK, Writing
    <3>4. th[i] \in ThreadStates /\ th[i].to \in Slots
      BY DEF ServerInv, TypeOK, ThreadStates
    <3>5. QED
      BY <3>2, <3>3, <3>4 DEF Taken
  <2>2. QED
    BY <2>1, HalvesKept DEF TogetherInv
<1>8. QED
  BY <1>3, <1>4, <1>5, <1>6, <1>7 DEF TogetherInv

(* Main, idle steps, and six actions of a thread are such steps. *)
LEMMA MainOnward ==
  ASSUME ServerInv, TogetherInv, Main
  PROVE  Onward
<1>1. UNCHANGED <<up, down, sent, sending>>
  BY DEF Main, Accept, Spawn, Count, clientVars, streamVars
<1>2. SlotsConnected' /\ KeepsSlots
  BY MainSlots DEF TogetherInv
<1>3. ASSUME NEW i \in Slots
      PROVE  th'[i] = th[i] \/ GoesOn(i)
  <2>1. CASE Accept \/ Count
    BY <2>1 DEF Accept, Count
  <2>2. CASE Spawn
    <3>1. PICK pc \in {"none", "start"} : th' = [th EXCEPT ![noClient] = Thread(pc, 0, 0)]
      BY <2>2 DEF Spawn
    <3>2. th \in [Slots -> ThreadStates] /\ noClient \in Slots
      BY DEF ServerInv, TypeOK
    <3>3. th[noClient].pc = "none"
      BY <2>2, <3>2, Sizes DEF Spawn, ServerInv, SlotsOK, Given, Slots
    <3>4. CASE i = noClient
      <4>1. /\ th'[i].pc = pc /\ th'[i].ref = None
        BY <3>1, <3>2, <3>4 DEF Thread
      <4>2. QED
        BY <3>3, <3>4, <4>1 DEF GoesOn, Carries
    <3>5. QED
      BY <3>1, <3>2, <3>4
  <2>3. QED
    BY <2>1, <2>2 DEF Main
<1>4. QED
  BY <1>1, <1>2, <1>3 DEF Onward

LEMMA StillOnward ==
  ASSUME ServerInv, TogetherInv,
         UNCHANGED <<mpc, noClient, newsd, tab, th, up, down, sent, sending>>
  PROVE  Onward
BY DEF TogetherInv, SlotsConnected, KeepsSlots, Taken, Onward

LEMMA MovesOnward ==
  ASSUME ServerInv, TogetherInv, NEW i \in Slots,
         \/ Start(i) \/ EnterRead(i) \/ PrintMessage(i)
         \/ SkipSelf(i) \/ Acquire(i) \/ EndDistribution(i)
  PROVE  Onward
<1> USE DEF Set
<1>1. th \in [Slots -> ThreadStates] /\ th[i] \in ThreadStates
  BY DEF ServerInv, TypeOK
<1>2. UNCHANGED <<mpc, noClient, newsd, tab, up, down, sent, sending>>
  <2>1. tab[0] = "tty"
    BY DEF TogetherInv, SlotsConnected
  <2>2. QED
    BY <2>1, NamesAssumption DEF Start, EnterRead, PrintMessage, SkipSelf, Acquire, StartWrite,
       EndDistribution, mainVars, clientVars, streamVars
<1>3. SlotsConnected' /\ KeepsSlots
  BY <1>2 DEF TogetherInv, SlotsConnected, KeepsSlots, Taken
<1>4. CASE Start(i)
  <2>1. /\ th[i].pc = "start" /\ th'[i].pc = "head" /\ th'[i].ref = None
        /\ \A j \in Slots \ {i} : th'[j] = th[j]
    BY <1>1, <1>4 DEF Start, Thread
  <2>2. GoesOn(i)
    BY <2>1 DEF GoesOn, Carries
  <2>3. QED
    BY <1>2, <1>3, <2>1, <2>2 DEF Onward
<1>5. CASE EnterRead(i)
  <2>1. /\ th[i].pc \in {"head", "body"} /\ th' = [th EXCEPT ![i] = [th[i] EXCEPT !.ref = tab[th[i].sd]]]
    BY <1>5 DEF EnterRead
  <2>2. /\ th'[i].pc = th[i].pc /\ th'[i].id = th[i].id /\ th'[i].sd = th[i].sd
        /\ th'[i].msg = th[i].msg /\ th'[i].ref = tab[th[i].sd]
        /\ \A j \in Slots \ {i} : th'[j] = th[j]
    BY <1>1, <2>1 DEF ThreadStates
  <2>3. GoesOn(i)
    BY <1>2, <2>1, <2>2 DEF GoesOn, Carries, Forwards
  <2>4. QED
    BY <1>2, <1>3, <2>2, <2>3 DEF Onward
<1>6. CASE PrintMessage(i)
  <2>1. th[i].pc = "print" /\ th' = [th EXCEPT ![i] = [th[i] EXCEPT !.pc = "dist", !.to = 0]]
    BY <1>6 DEF PrintMessage
  <2>2. /\ th'[i].pc = "dist" /\ th'[i].id = th[i].id /\ th'[i].sd = th[i].sd
        /\ th'[i].msg = th[i].msg /\ th'[i].ref = th[i].ref /\ th'[i].to = 0
        /\ \A j \in Slots \ {i} : th'[j] = th[j]
    BY <1>1, <2>1 DEF ThreadStates
  <2>3. th[i].ref = None
    BY <2>1 DEF ServerInv, ThreadsOK, ThreadOK
  <2>4. \A s \in Slots : ~(s < 0)
    BY Sizes
  <2>5. GoesOn(i)
    BY <2>1, <2>2, <2>3, <2>4 DEF GoesOn, Carries, Forwards
  <2>6. QED
    BY <1>2, <1>3, <2>2, <2>5 DEF Onward
<1>7. CASE SkipSelf(i)
  <2>1. /\ th[i].pc = "dist" /\ th[i].to = th[i].id
        /\ th' = [th EXCEPT ![i] = [th[i] EXCEPT !.to = @ + 1]]
    BY <1>7 DEF SkipSelf
  <2>2. /\ th'[i].pc = "dist" /\ th'[i].id = th[i].id /\ th'[i].sd = th[i].sd
        /\ th'[i].msg = th[i].msg /\ th'[i].ref = th[i].ref /\ th'[i].to = th[i].to + 1
        /\ \A j \in Slots \ {i} : th'[j] = th[j]
    BY <1>1, <2>1 DEF ThreadStates
  <2>3. th[i].ref = None
    BY <2>1 DEF ServerInv, ThreadsOK, ThreadOK
  <2>4. \A s \in Slots \ {th[i].id} : s < th[i].to + 1 <=> s < th[i].to
    BY <1>1, <2>1 DEF ThreadStates, Slots
  <2>5. GoesOn(i)
    BY <2>1, <2>2, <2>3, <2>4 DEF GoesOn, Carries, Forwards
  <2>6. QED
    BY <1>2, <1>3, <2>2, <2>5 DEF Onward
<1>8. CASE Acquire(i)
  <2>1. /\ th[i].pc = "dist"
        /\ \E d : th' = [th EXCEPT ![i] = [th[i] EXCEPT !.pc = "write1", !.depth = d]]
    BY <1>8, Zenon DEF Acquire, StartWrite
  <2>2. /\ th'[i].pc = "write1" /\ th'[i].id = th[i].id /\ th'[i].sd = th[i].sd
        /\ th'[i].msg = th[i].msg /\ th'[i].ref = th[i].ref /\ th'[i].to = th[i].to
        /\ \A j \in Slots \ {i} : th'[j] = th[j]
    BY <1>1, <2>1 DEF ThreadStates
  <2>3. th[i].ref = None
    BY <2>1 DEF ServerInv, ThreadsOK, ThreadOK
  <2>4. GoesOn(i)
    BY <2>1, <2>2, <2>3 DEF GoesOn, Carries, Forwards
  <2>5. QED
    BY <1>2, <1>3, <2>2, <2>4 DEF Onward
<1>9. CASE EndDistribution(i)
  <2>1. th[i].pc = "dist" /\ th' = [th EXCEPT ![i] = [th[i] EXCEPT !.pc = "head"]]
    BY <1>9 DEF EndDistribution
  <2>2. /\ th'[i].pc = "head" /\ th'[i].ref = th[i].ref
        /\ \A j \in Slots \ {i} : th'[j] = th[j]
    BY <1>1, <2>1 DEF ThreadStates
  <2>3. th[i].ref = None
    BY <2>1 DEF ServerInv, ThreadsOK, ThreadOK
  <2>4. GoesOn(i)
    BY <2>1, <2>2, <2>3 DEF GoesOn, Carries
  <2>5. QED
    BY <1>2, <1>3, <2>2, <2>4 DEF Onward
<1>10. QED
  BY <1>4, <1>5, <1>6, <1>7, <1>8, <1>9

(* The client c sends a piece p, of a new message or of the one it has begun. *)
SendsPiece(c, p) ==
  /\ p.msg \in Messages /\ p.msg[1] = c /\ p.part \in {"head", "body"}
  /\ \A e \in Clients \ {c} : up'[e] = up[e] /\ sending'[e] = sending[e]
  /\ Len(up[c]) \in Nat /\ up'[c] # <<>>
  /\ DOMAIN up[c] = 1 .. Len(up[c]) /\ DOMAIN up'[c] = 1 .. Len(up[c]) + 1
  /\ \A k \in 1 .. Len(up[c]) : up'[c][k] = up[c][k]
  /\ up'[c][Len(up[c]) + 1] = p
  /\ p.part = "head" => sending[c] = NoMessage /\ sending'[c] = p.msg /\ sent < p.msg[2]
  /\ p.part = "body" => sending[c] = p.msg /\ sending'[c] = NoMessage
  /\ sent \in Nat /\ sent' \in Nat /\ sent <= sent' /\ p.msg[2] <= sent'

(* What a client sends comes after what it has sent. *)
LEMMA SendDoes ==
  ASSUME ServerInv, TogetherInv, NEW c \in Clients, SendHead(c) \/ SendBody(c)
  PROVE  /\ UNCHANGED <<mpc, noClient, newsd, clientId, tab, th, down>>
         /\ \E p : SendsPiece(c, p)
<1>1. /\ UNCHANGED <<mpc, noClient, newsd, clientId, tab, th, down>>
      /\ up \in [Clients -> Seq(Pieces({"head", "body"}))] /\ sent \in Nat
      /\ sending \in [Clients -> Messages \cup {NoMessage}]
  BY DEF SendHead, SendBody, Send, mainVars, ServerInv, TypeOK, Texts
<1>2. PICK m \in Messages, part \in {"head", "body"} :
        /\ up' = [up EXCEPT ![c] = Append(@, Piece(m, part, 0))]
        /\ m[1] = c /\ sent <= sent' /\ sent' \in Nat /\ m[2] <= sent'
        /\ part = "head" => sending[c] = NoMessage /\ sending'[c] = m /\ sent < m[2]
        /\ part = "body" => sending[c] = m /\ sending'[c] = NoMessage
        /\ \A e \in Clients \ {c} : sending'[e] = sending[e]
  <2>1. CASE SendHead(c)
    <3>1. PICK m \in Messages : m[1] = c /\ m[2] = sent + 1 /\ m = <<c, sent + 1>>
      <4>1. sent + 1 \in 1 .. MaxSends
        BY <1>1, <2>1, IrcBoundsAssumption DEF SendHead
      <4>2. <<c, sent + 1>> \in Messages
        BY <4>1 DEF Messages
      <4>3. <<c, sent + 1>>[1] = c /\ <<c, sent + 1>>[2] = sent + 1
        OBVIOUS
      <4>4. QED
        BY <4>2, <4>3
    <3>2. /\ up' = [up EXCEPT ![c] = Append(@, Piece(m, "head", 0))] /\ sending[c] = NoMessage
          /\ sent' = sent + 1 /\ sending' = [sending EXCEPT ![c] = m]
      BY <2>1, <3>1 DEF SendHead, Send
    <3>3. /\ sent <= sent' /\ sent' \in Nat /\ m[2] <= sent' /\ sent < m[2]
      BY <1>1, <3>1, <3>2
    <3>4. sending'[c] = m /\ \A e \in Clients \ {c} : sending'[e] = sending[e]
      BY <1>1, <3>2
    <3>5. QED
      BY <3>1, <3>2, <3>3, <3>4
  <2>2. CASE SendBody(c)
    <3>1. sending[c] \in Messages /\ sending[c][1] = c /\ sending[c][2] <= sent
      BY <1>1, <2>2 DEF SendBody, TogetherInv, SentOnce, Numbered
    <3>2. /\ up' = [up EXCEPT ![c] = Append(@, Piece(sending[c], "body", 0))]
          /\ sent' = sent /\ sending' = [sending EXCEPT ![c] = NoMessage]
      BY <2>2 DEF SendBody, Send
    <3>3. sending'[c] = NoMessage /\ \A e \in Clients \ {c} : sending'[e] = sending[e]
      BY <1>1, <3>2
    <3>4. PICK m \in Messages : m = sending[c]
      BY <3>1
    <3>5. /\ m[1] = c /\ sent <= sent' /\ sent' \in Nat /\ m[2] <= sent'
          /\ up' = [up EXCEPT ![c] = Append(@, Piece(m, "body", 0))]
      BY <1>1, <3>1, <3>2, <3>4
    <3>6. QED
      BY <3>3, <3>4, <3>5
  <2>3. QED
    BY <2>1, <2>2
<1> DEFINE p == Piece(m, part, 0)
<1>3. p \in Pieces({"head", "body"}) /\ p.msg = m /\ p.part = part
  BY Sizes DEF Piece, Pieces, Texts
<1>4. /\ up'[c] = Append(up[c], p) /\ up[c] \in Seq(Pieces({"head", "body"}))
      /\ \A e \in Clients \ {c} : up'[e] = up[e]
  BY <1>1, <1>2
<1> HIDE DEF p
<1>5. /\ Len(up[c]) \in Nat
      /\ DOMAIN up[c] = 1 .. Len(up[c]) /\ DOMAIN up'[c] = 1 .. Len(up[c]) + 1
      /\ \A k \in 1 .. Len(up[c]) : up'[c][k] = up[c][k]
      /\ up'[c][Len(up[c]) + 1] = p /\ up'[c] # <<>>
  BY <1>3, <1>4, AppendFacts
<1>6. SendsPiece(c, p)
  BY <1>1, <1>2, <1>3, <1>4, <1>5 DEF SendsPiece
<1>7. QED
  BY <1>1, <1>6

(* A new message is nowhere else, the body belongs to the head before it. *)
LEMMA SendTogether ==
  ASSUME ServerInv, TogetherInv, NEW c \in Clients, SendHead(c) \/ SendBody(c)
  PROVE  TogetherInv'
<1>1. /\ UNCHANGED <<mpc, noClient, newsd, clientId, tab, th, down>>
      /\ sending \in [Clients -> Messages \cup {NoMessage}]
  BY SendDoes DEF ServerInv, TypeOK, Texts
<1>2. /\ SlotsConnected' /\ ReadsOwn' /\ HalfWritten'
      /\ WellFramed' /\ NoEchoNoDuplicate' /\ Layered'
  <2>1. SlotsConnected' /\ ReadsOwn'
    BY <1>1 DEF TogetherInv, SlotsConnected, Taken, ReadsOwn, Carries
  <2>2. HalfWritten'
    BY <1>1 DEF TogetherInv, HalfWritten, Half, HalfOf
  <2>3. WellFramed' /\ NoEchoNoDuplicate'
    BY <1>1 DEF TogetherInv, WellFramed, NoEchoNoDuplicate
  <2>4. Layered'
    BY <1>1 DEF TogetherInv, Layered, HasDepth, Taken
  <2>5. QED
    BY <2>1, <2>2, <2>3, <2>4
<1>3. Forwarded'
  BY <1>1 DEF TogetherInv, Forwarded, Carries, Forwards, GotSoFar, Taken, HasMessage
<1>4. PICK p : SendsPiece(c, p)
  BY SendDoes
<1>5. PICK m \in Messages, part \in {"head", "body"} :
        /\ p.msg = m /\ p.part = part
        /\ m[1] = c /\ sent \in Nat /\ sent' \in Nat /\ sent <= sent' /\ m[2] <= sent'
        /\ part = "head" => sent < m[2]
        /\ \A e \in Clients : sending'[e] = sending[e] \/ sending'[e] = NoMessage
                              \/ (e = c /\ sending'[e] = m)
  BY <1>4 DEF SendsPiece
<1>6. \A n \in Messages : n[2] \in Nat /\ (Numbered(n) => Numbered(n)')
  BY <1>5 DEF Messages, Numbered
<1>7. p.msg = m /\ p.part = part
  BY <1>5
<1>8. \A e \in Clients : \A k \in DOMAIN up'[e] :
        \/ k \in DOMAIN up[e] /\ up'[e][k] = up[e][k]
        \/ e = c /\ k = Len(up[c]) + 1 /\ up'[e][k] = p
  BY <1>4, SMTT(30) DEF SendsPiece
<1>9. \A e \in Clients : \A k \in DOMAIN up[e] : up[e][k].msg \in Messages
  BY StreamTypes
<1>10. SentOnce'
  <2>1. \A e \in Clients :
          sending'[e] # NoMessage => sending'[e][1] = e /\ sending'[e][2] <= sent'
    <3>1. \A e \in Clients : sending[e] # NoMessage =>
            sending[e] \in Messages /\ sending[e][1] = e /\ sending[e][2] <= sent
      BY <1>1 DEF TogetherInv, SentOnce, Numbered
    <3>2. \A e \in Clients : sending[e] # NoMessage => sending[e][2] <= sent'
      BY <1>6, <3>1 DEF Numbered
    <3>3. QED
      BY <1>5, <3>1, <3>2
  <2>2. \A e \in Clients : \A k \in DOMAIN up'[e] : up'[e][k].msg[1] = e
    BY <1>5, <1>7, <1>8 DEF TogetherInv, SentOnce
  <2>3. \A e \in Clients : \A k \in DOMAIN up'[e] : up'[e][k].msg[2] <= sent'
    BY <1>5, <1>6, <1>7, <1>8, <1>9 DEF TogetherInv, SentOnce, Numbered
  <2>4. \A e \in Clients : \A k, l :
          /\ k \in DOMAIN up'[e] /\ l \in DOMAIN up'[e]
          /\ up'[e][k].part = "head" /\ up'[e][l].part = "head" /\ up'[e][k].msg = up'[e][l].msg
          => k = l
    <3>1. \A k \in DOMAIN up[c] : part = "head" => up[c][k].msg # m
      BY <1>1, <1>5, <1>6, <1>9 DEF TogetherInv, SentOnce, Numbered
    <3>2. QED
      BY <1>7, <1>8, <3>1 DEF TogetherInv, SentOnce
  <2>5. QED
    BY <2>1, <2>2, <2>3, <2>4 DEF SentOnce, Numbered
<1>11. CarriedOnce'
  <2>1. ASSUME NEW n \in Messages, Numbered(n), ~HeadWaits(n)
        PROVE  Numbered(n)' /\ ~HeadWaits(n)'
    <3>1. part = "head" => n # m
      BY <1>1, <1>5, <1>6, <2>1 DEF Numbered
    <3>2. QED
      BY <1>6, <1>7, <1>8, <2>1, <3>1 DEF HeadWaits
  <2>2. \A i \in Slots : Carries(i) => th[i].msg \in Messages
    BY DEF TogetherInv, NoGarbage
  <2>3. \A e \in Clients : \A k \in DOMAIN down[e] : down[e][k].msg \in Messages
    BY StreamTypes
  <2>4. ASSUME NEW i \in Slots, Carries(i)'
        PROVE  th'[i] = th[i] /\ Carries(i) /\ th[i].msg[2] <= sent' /\ ~HeadWaits(th[i].msg)'
    <3>1. th'[i] = th[i] /\ Carries(i)
      BY <1>1, <2>4 DEF Carries
    <3>2. PICK n \in Messages : n = th[i].msg
      BY <2>2, <3>1
    <3>3. Numbered(n) /\ ~HeadWaits(n)
      BY <3>1, <3>2 DEF TogetherInv, CarriedOnce
    <3>4. QED
      BY <1>1, <2>1, <3>1, <3>2, <3>3 DEF Numbered, HeadWaits
  <2>5. ASSUME NEW e \in Clients, NEW k \in DOMAIN down[e]
        PROVE  down[e][k].msg[2] <= sent' /\ ~HeadWaits(down[e][k].msg)'
    <3>1. PICK n \in Messages : n = down[e][k].msg
      BY <2>3, <2>5
    <3>2. Numbered(n) /\ ~HeadWaits(n)
      BY <2>5, <3>1 DEF TogetherInv, CarriedOnce
    <3>3. QED
      BY <1>1, <2>1, <3>1, <3>2 DEF Numbered, HeadWaits
  <2>6. \A i, j \in Slots : Carries(i)' /\ Carries(j)' /\ th'[i].msg = th'[j].msg => i = j
    BY <2>4 DEF TogetherInv, CarriedOnce
  <2>7. \A i \in Slots : Carries(i)' => Numbered(th[i].msg)' /\ ~HeadWaits(th[i].msg)'
    BY <1>1, <2>4 DEF Numbered
  <2>8. \A e \in Clients : \A k \in DOMAIN down'[e] :
          Numbered(down[e][k].msg)' /\ ~HeadWaits(down[e][k].msg)'
    BY <1>1, <2>5 DEF Numbered
  <2>9. QED
    BY <2>6, <2>7, <2>8 DEF CarriedOnce
<1>12. NoGarbage'
  <2>1. \A e \in Clients : \A k \in DOMAIN up'[e] : up'[e][k].msg \in Messages
    BY <1>5, <1>7, <1>8, <1>9
  <2>2. QED
    BY <1>1, <2>1 DEF TogetherInv, NoGarbage, Carries
<1>13. QED
  BY <1>2, <1>3, <1>10, <1>11, <1>12 DEF TogetherInv

(* Thread i takes the first piece of what its client c has sent, of message m. *)
TakesFrom(i, c) == c \in Clients /\ c = tab[th[i].sd] /\ th[i].pc \in {"head", "body"}

TakesMessage(c, m) == m \in Messages /\ m = up[c][1].msg
SentBy(c, m) == m[1] = c /\ Numbered(m)

TakesFirst(c) ==
  /\ Len(up[c]) \in Nat \ {0} /\ DOMAIN up[c] = 1 .. Len(up[c])
  /\ \A e \in Clients \ {c} : up'[e] = up[e]
  /\ DOMAIN up'[c] = 1 .. Len(up[c]) - 1 /\ (up'[c] = <<>> <=> Len(up[c]) = 1)
  /\ \A k \in 1 .. Len(up[c]) - 1 : up'[c][k] = up[c][k + 1]

TakesOver(i, m) ==
  /\ th'[i].id = th[i].id /\ th'[i].sd = th[i].sd /\ th'[i].ref = None /\ th'[i].msg = m
  /\ \A j \in Slots \ {i} : th'[j] = th[j]

TakesPart(i, c, m) ==
  \/ th[i].pc = "head" /\ up[c][1].part = "head" /\ th'[i].pc = "body"
  \/ th[i].pc = "body" /\ up[c][1].part = "body" /\ m = th[i].msg /\ th'[i].pc = "print"

TakesPiece(i, c, m) ==
  /\ TakesFrom(i, c) /\ TakesMessage(c, m) /\ SentBy(c, m)
  /\ TakesFirst(c) /\ TakesOver(i, m) /\ TakesPart(i, c, m)

(* A thread reads from its own client, and its first waiting piece. *)
LEMMA ReadDoes ==
  ASSUME ServerInv, TogetherInv, NEW i \in Slots, ReadPiece(i)
  PROVE  /\ UNCHANGED <<mpc, noClient, newsd, tab, down, sent, sending>>
         /\ \E c, m : TakesPiece(i, c, m)
<1> DEFINE c == th[i].ref
           q == up[c][1]
           pc == IF th[i].pc = "head" THEN "body" ELSE "print"
<1>1. /\ c \in Clients /\ up[c] # <<>> /\ up' = [up EXCEPT ![c] = Tail(@)]
      /\ th' = [th EXCEPT ![i] = AfterPiece(i, Head(up[c]).msg, pc)]
      /\ <<Head(up[c]).msg, Head(up[c]).part>> \in Expected(i)
  <2>1. c \in Clients
    BY DEF ReadPiece, ReadAs, ServerInv, TypeOK, ThreadStates
  <2>2. QED
    BY <2>1 DEF ReadPiece, ReadAs, Set, AfterPiece
<1>2. /\ UNCHANGED <<mpc, noClient, newsd, tab, down, sent, sending>>
      /\ th \in [Slots -> ThreadStates] /\ th[i] \in ThreadStates /\ th[i].pc \in {"head", "body"}
  BY DEF ReadPiece, ReadAs, mainVars, clientVars, ServerInv, TypeOK, ThreadsOK, ThreadOK
<1>3. /\ Head(up[c]) = q /\ q.msg \in Messages /\ 1 \in DOMAIN up[c]
      /\ Len(up[c]) \in Nat \ {0} /\ DOMAIN up[c] = 1 .. Len(up[c])
      /\ \A e \in Clients \ {c} : up'[e] = up[e]
      /\ DOMAIN up'[c] = 1 .. Len(up[c]) - 1 /\ (up'[c] = <<>> <=> Len(up[c]) = 1)
      /\ \A k \in 1 .. Len(up[c]) - 1 : up'[c][k] = up[c][k + 1]
  <2>1. up[c] \in Seq(Pieces({"head", "body"})) /\ up \in [Clients -> Seq(Pieces({"head", "body"}))]
    BY <1>1 DEF ServerInv, TypeOK
  <2>2. /\ Head(up[c]) = q /\ Len(up[c]) \in Nat \ {0} /\ Tail(up[c]) \in Seq(Pieces({"head", "body"}))
        /\ DOMAIN up[c] = 1 .. Len(up[c]) /\ DOMAIN Tail(up[c]) = 1 .. Len(up[c]) - 1
        /\ Len(Tail(up[c])) = Len(up[c]) - 1
        /\ \A k \in 1 .. Len(up[c]) - 1 : Tail(up[c])[k] = up[c][k + 1]
    BY <1>1, <2>1, TailFacts
  <2>3. up'[c] = Tail(up[c]) /\ \A e \in Clients \ {c} : up'[e] = up[e]
    BY <1>1, <2>1
  <2>4. 1 \in DOMAIN up[c] /\ q.msg \in Messages
    <3>1. 1 \in DOMAIN up[c]
      BY <2>2
    <3>2. QED
      BY <1>1, <3>1, StreamTypes
  <2>5. up'[c] = <<>> <=> Len(up[c]) = 1
    <3>1. Tail(up[c]) = <<>> <=> Len(Tail(up[c])) = 0
      BY <2>2, EmptySeq
    <3>2. QED
      BY <2>2, <2>3, <3>1
  <2>6. QED
    BY <2>2, <2>3, <2>4, <2>5
<1>4. /\ th'[i].pc = pc /\ th'[i].id = th[i].id /\ th'[i].sd = th[i].sd /\ th'[i].ref = None
      /\ th'[i].msg = q.msg
      /\ \A j \in Slots \ {i} : th'[j] = th[j]
  BY <1>1, <1>2, <1>3, AfterPieceFields DEF ServerInv
<1>5. /\ c = tab[th[i].sd] /\ q.msg[1] = c /\ Numbered(q.msg)
  BY <1>1, <1>2, <1>3, NamesAssumption DEF TogetherInv, ReadsOwn, SentOnce
<1>6. \/ th[i].pc = "head" /\ q.part = "head"
      \/ th[i].pc = "body" /\ q.part = "body" /\ q.msg = th[i].msg
  <2>1. <<q.msg, q.part>> \in Expected(i)
    BY <1>1, <1>3
  <2>2. QED
    BY <1>2, <2>1 DEF Expected
<1>8. PICK m \in Messages : m = q.msg
  BY <1>3
<1>9. TakesPiece(i, c, m)
  <2>1. TakesPart(i, c, m)
    BY <1>2, <1>4, <1>6, <1>8 DEF TakesPart
  <2>2. TakesOver(i, m)
    BY <1>4, <1>8 DEF TakesOver
  <2>3. TakesFrom(i, c)
    BY <1>1, <1>2, <1>5 DEF TakesFrom
  <2> HIDE DEF c
  <2>4. TakesMessage(c, m)
    BY <1>3, <1>8 DEF TakesMessage
  <2>5. SentBy(c, m)
    BY <1>5, <1>8, Zenon DEF SentBy
  <2>6. TakesFirst(c)
    BY <1>3 DEF TakesFirst
  <2>7. QED
    BY <2>1, <2>2, <2>3, <2>4, <2>5, <2>6 DEF TakesPiece
<1>10. QED
  BY <1>2, <1>9

(* Reading the head moves a message from its stream to its thread. *)
LEMMA ReadTogether ==
  ASSUME ServerInv, TogetherInv, NEW i \in Slots, ReadPiece(i)
  PROVE  TogetherInv'
<1>1. PICK c, m :
        /\ TakesFrom(i, c) /\ TakesMessage(c, m) /\ SentBy(c, m)
        /\ TakesFirst(c) /\ TakesOver(i, m) /\ TakesPart(i, c, m)
  BY ReadDoes DEF TakesPiece
<1>2. /\ UNCHANGED <<mpc, noClient, newsd, tab, down, sent, sending>>
      /\ th \in [Slots -> ThreadStates]
      /\ c \in Clients /\ m \in Messages /\ th[i].pc \in {"head", "body"}
  <2>1. UNCHANGED <<mpc, noClient, newsd, tab, down, sent, sending>>
    BY ReadDoes
  <2>2. th \in [Slots -> ThreadStates]
    BY DEF ServerInv, TypeOK
  <2>3. c \in Clients /\ th[i].pc \in {"head", "body"}
    BY <1>1 DEF TakesFrom
  <2>4. m \in Messages
    BY <1>1 DEF TakesMessage
  <2>5. QED
    BY <2>1, <2>2, <2>3, <2>4
<1> DEFINE q == up[c][1]
<1>3. /\ q.msg = m /\ 1 \in DOMAIN up[c]
      /\ \A e \in Clients : \A k \in DOMAIN up'[e] :
           \/ e # c /\ k \in DOMAIN up[e] /\ up'[e][k] = up[e][k]
           \/ e = c /\ k \in Nat /\ k + 1 \in DOMAIN up[e] /\ k + 1 # 1 /\ up'[e][k] = up[e][k + 1]
  <2>1. q.msg = m
    BY <1>1 DEF TakesMessage
  <2>2. PICK n \in Nat : n = Len(up[c]) /\ n # 0
    BY <1>1 DEF TakesFirst
  <2>3. 1 \in DOMAIN up[c] /\ \A e \in Clients \ {c} : up'[e] = up[e]
    BY <1>1, <2>2 DEF TakesFirst
  <2>4. \A k \in DOMAIN up'[c] :
          k \in Nat /\ k + 1 \in DOMAIN up[c] /\ k + 1 # 1 /\ up'[c][k] = up[c][k + 1]
    <3>1. /\ DOMAIN up[c] = 1 .. n /\ DOMAIN up'[c] = 1 .. n - 1
          /\ \A k \in 1 .. n - 1 : up'[c][k] = up[c][k + 1]
      BY <1>1, <2>2 DEF TakesFirst
    <3>2. \A k \in 1 .. n - 1 : k \in Nat /\ k + 1 \in 1 .. n /\ k + 1 # 1
      OBVIOUS
    <3>3. QED
      BY <3>1, <3>2
  <2>5. QED
    BY <2>1, <2>3, <2>4
<1>4. /\ th'[i].id = th[i].id /\ th'[i].sd = th[i].sd /\ th'[i].ref = None
      /\ th'[i].msg = m /\ th'[i].pc \in {"body", "print"}
      /\ \A j \in Slots \ {i} : th'[j] = th[j]
  BY <1>1 DEF TakesOver, TakesPart
<1>5. /\ c = tab[th[i].sd] /\ m[1] = c /\ Numbered(m)
  <2>1. c = tab[th[i].sd]
    BY <1>1 DEF TakesFrom
  <2>2. m[1] = c /\ Numbered(m)
    BY <1>1 DEF SentBy
  <2>3. QED
    BY <2>1, <2>2
<1>6. \/ th[i].pc = "head" /\ q.part = "head"
      \/ th[i].pc = "body" /\ q.part = "body" /\ m = th[i].msg
  BY <1>1 DEF TakesPart
<1> HIDE DEF q
<1>7. SlotsConnected' /\ WellFramed' /\ NoEchoNoDuplicate' /\ Layered' /\ NoGarbage'
  <2>1. SlotsConnected' /\ WellFramed' /\ NoEchoNoDuplicate'
    BY <1>2 DEF TogetherInv, SlotsConnected, Taken, WellFramed, NoEchoNoDuplicate
  <2>2. Layered'
    BY <1>2 DEF TogetherInv, Layered, HasDepth, Taken
  <2>3. \A e \in Clients : \A k \in DOMAIN up'[e] : up'[e][k].msg \in Messages
    BY <1>3 DEF TogetherInv, NoGarbage
  <2>4. \A j \in Slots : Carries(j)' => th'[j].msg \in Messages
    BY <1>2, <1>4 DEF TogetherInv, NoGarbage, Carries
  <2>5. NoGarbage'
    BY <1>2, <2>3, <2>4 DEF TogetherInv, NoGarbage
  <2>6. QED
    BY <2>1, <2>2, <2>5
<1>8. ReadsOwn'
  BY <1>2, <1>4, <1>5 DEF TogetherInv, ReadsOwn, Carries
<1>9. SentOnce'
  <2>1. \A e \in Clients : sending'[e] # NoMessage => sending'[e][1] = e /\ sending'[e][2] <= sent'
    BY <1>2 DEF TogetherInv, SentOnce, Numbered
  <2>2. \A e \in Clients : \A k \in DOMAIN up'[e] :
          up'[e][k].msg[1] = e /\ up'[e][k].msg[2] <= sent'
    BY <1>2, <1>3 DEF TogetherInv, SentOnce, Numbered
  <2>3. \A e \in Clients : \A k, l :
          /\ k \in DOMAIN up'[e] /\ l \in DOMAIN up'[e]
          /\ up'[e][k].part = "head" /\ up'[e][l].part = "head" /\ up'[e][k].msg = up'[e][l].msg
          => k = l
    <3>1. ASSUME NEW e \in Clients, NEW k \in DOMAIN up'[e], NEW l \in DOMAIN up'[e],
                 up'[e][k].part = "head", up'[e][l].part = "head",
                 up'[e][k].msg = up'[e][l].msg
          PROVE  k = l
      <4>1. CASE e # c
        BY <1>3, <3>1, <4>1 DEF TogetherInv, SentOnce
      <4>2. CASE e = c
        <5>1. k + 1 = l + 1 /\ k \in Nat /\ l \in Nat
          BY <1>3, <3>1, <4>2 DEF TogetherInv, SentOnce
        <5>2. QED
          BY <5>1
      <4>3. QED
        BY <4>1, <4>2
    <3>2. QED
      BY <3>1
  <2>4. QED
    BY <2>1, <2>2, <2>3 DEF SentOnce, Numbered
<1>10. \A n : HeadWaits(n)' => HeadWaits(n)
  BY <1>3 DEF HeadWaits
<1>12. q.part = "head" => HeadWaits(m) /\ ~HeadWaits(m)'
  <2>1. SUFFICES ASSUME q.part = "head"
                 PROVE  HeadWaits(m) /\ ~HeadWaits(m)'
    OBVIOUS
  <2>2. HeadWaits(m)
    BY <1>2, <1>3, <2>1 DEF HeadWaits, q
  <2>3. ~HeadWaits(m)'
    <3>1. SUFFICES ASSUME NEW e \in Clients, NEW k \in DOMAIN up'[e],
                          up'[e][k].msg = m, up'[e][k].part = "head"
                   PROVE  FALSE
      BY DEF HeadWaits
    <3>2. e = c
      BY <1>3, <1>5, <3>1 DEF TogetherInv, SentOnce
    <3>3. /\ k + 1 \in DOMAIN up[c] /\ k + 1 # 1
          /\ up[c][k + 1].msg = m /\ up[c][k + 1].part = "head"
      BY <1>3, <3>1, <3>2
    <3>4. QED
      BY <1>2, <1>3, <2>1, <3>3 DEF TogetherInv, SentOnce, q
  <2>4. QED
    BY <2>2, <2>3
<1>13. Carries(i)' => \/ HeadWaits(m) /\ ~HeadWaits(m)'
                      \/ Carries(i) /\ m = th[i].msg /\ ~HeadWaits(m) /\ ~HeadWaits(m)'
  <2>1. SUFFICES ASSUME Carries(i)', q.part # "head"
                 PROVE  Carries(i) /\ m = th[i].msg /\ ~HeadWaits(m)
    BY <1>10, <1>12
  <2>2. th[i].pc = "body" /\ m = th[i].msg
    BY <1>4, <1>6, <2>1 DEF Carries
  <2>3. QED
    BY <2>2 DEF Carries, TogetherInv, CarriedOnce
<1>14. \A j \in Slots \ {i} : Carries(j) => th[j].msg # m \/ ~Carries(i)'
  BY <1>13 DEF TogetherInv, CarriedOnce
<1>15. CarriedOnce'
  <2>1. ASSUME NEW j \in Slots, Carries(j)'
        PROVE  Numbered(th[j].msg)' /\ ~HeadWaits(th[j].msg)'
    <3>1. CASE j = i
      BY <1>2, <1>4, <1>5, <1>13, <2>1, <3>1 DEF Numbered, HeadWaits
    <3>2. CASE j # i
      <4>1. th'[j] = th[j] /\ Carries(j)
        BY <1>4, <2>1, <3>2 DEF Carries
      <4>2. PICK n : n = th[j].msg
        OBVIOUS
      <4>3. Numbered(n) /\ ~HeadWaits(n) /\ ~HeadWaits(n)'
        BY <1>10, <4>1, <4>2 DEF TogetherInv, CarriedOnce
      <4>4. QED
        BY <1>2, <4>1, <4>2, <4>3 DEF Numbered, HeadWaits
    <3>3. QED
      BY <3>1, <3>2
  <2>2. ASSUME NEW j \in Slots, Carries(j)', NEW k \in Slots, Carries(k)',
               th'[j].msg = th'[k].msg
        PROVE  j = k
    <3>1. \A l \in Slots \ {i} : Carries(l)' => Carries(l) /\ th'[l].msg = th[l].msg
      BY <1>4 DEF Carries
    <3>2. CASE j # i /\ k # i
      BY <2>2, <3>1, <3>2 DEF TogetherInv, CarriedOnce
    <3>3. CASE j = i \/ k = i
      BY <1>4, <1>14, <2>2, <3>1, <3>3
    <3>4. QED
      BY <3>2, <3>3
  <2>3. ASSUME NEW e \in Clients, NEW k \in DOMAIN down[e]
        PROVE  Numbered(down[e][k].msg)' /\ ~HeadWaits(down[e][k].msg)'
    <3>1. PICK n : n = down[e][k].msg
      OBVIOUS
    <3>2. Numbered(n) /\ ~HeadWaits(n) /\ ~HeadWaits(n)'
      BY <1>10, <2>3, <3>1 DEF TogetherInv, CarriedOnce
    <3>3. QED
      BY <1>2, <3>1, <3>2 DEF Numbered, HeadWaits
  <2>4. \A e \in Clients : \A k \in DOMAIN down'[e] :
          Numbered(down[e][k].msg)' /\ ~HeadWaits(down[e][k].msg)'
    BY <1>2, <2>3
  <2>5. QED
    BY <2>1, <2>2, <2>4 DEF CarriedOnce
<1>16. Forwarded'
  <2>1. SUFFICES ASSUME NEW j \in Slots, Carries(j)'
                 PROVE  /\ \A e \in Clients : \A part : \A k \in DOMAIN down[e] :
                             down[e][k].msg = th'[j].msg /\ part = down[e][k].part =>
                               GotSoFar(j, e, part)'
                        /\ Forwards(j)' => \A s \in Slots :
                             s < th'[j].to /\ s # th'[j].id => HasMessage(s, th[j].msg)'
    BY <1>2 DEF Forwarded, GotSoFar, HasMessage
  <2>2. CASE j = i
    <3>1. ~Forwards(i)'
      BY <1>4 DEF Forwards
    <3>2. \A e \in Clients : \A k \in DOMAIN down[e] : down[e][k].msg # m
      <4>1. CASE HeadWaits(m)
        BY <4>1 DEF TogetherInv, CarriedOnce
      <4>2. CASE Carries(i) /\ m = th[i].msg
        BY <1>2, <4>2 DEF TogetherInv, Forwarded, GotSoFar, Forwards
      <4>3. QED
        BY <1>13, <2>1, <2>2, <4>1, <4>2
    <3>3. QED
      BY <1>4, <2>2, <3>1, <3>2
  <2>3. CASE j # i
    <3>1. th'[j] = th[j] /\ Carries(j)
      BY <1>4, <2>1, <2>3 DEF Carries
    <3>2. QED
      BY <1>2, <3>1 DEF TogetherInv, Forwarded, GotSoFar, Taken, Forwards, HasMessage
  <2>4. QED
    BY <2>2, <2>3
<1>17. HalfWritten'
  <2>1. \A j \in Slots : th[j].pc = "write2" \/ th'[j].pc = "write2" => th'[j] = th[j]
    BY <1>2, <1>4
  <2>2. QED
    BY <1>2, <2>1, HalvesKept DEF TogetherInv
<1>18. QED
  BY <1>7, <1>8, <1>9, <1>15, <1>16, <1>17 DEF TogetherInv

(* The client that a thread writes to has one slot and one thread that     *)
(* writes to it, and is not the one that has sent the message.             *)
LEMMA Target ==
  ASSUME ServerInv, TogetherInv, NEW i \in Slots, Writing(i),
         NEW c, c = tab[newsd[th[i].to]]
  PROVE  /\ c \in Clients /\ th[i].to \in Slots /\ Taken(th[i].to) /\ th[i].to # th[i].id
         /\ \A s \in Slots : Taken(s) /\ tab[newsd[s]] = c => s = th[i].to
         /\ \A j \in Slots \ {i} : Writing(j) => tab[newsd[th[j].to]] # c
         /\ th[i].msg \in Messages /\ th[i].msg[1] # c
         /\ \A k \in DOMAIN down[c] :
              down[c][k].msg = th[i].msg => th[i].pc = "write2" /\ down[c][k].part = "head"
<1>1. \A j \in Slots : Writing(j) =>
        /\ th[j].to \in Slots /\ Taken(th[j].to) /\ th[j].to # th[j].id /\ th[j].msg \in Messages
  <2>1. \A j \in Slots : th[j] \in ThreadStates /\ th[j].to \in Slots
    BY DEF ServerInv, TypeOK, ThreadStates
  <2>2. QED
    BY <2>1 DEF ServerInv, ThreadsOK, ThreadOK, Taken, Carries, Writing, TogetherInv, NoGarbage
<1>2. newsd \in [Slots -> Fds]
  BY DEF ServerInv, TypeOK
<1>3. c \in Clients
  BY <1>1 DEF TogetherInv, SlotsConnected
<1>4. ASSUME NEW s \in Slots, Taken(s), tab[newsd[s]] = c
      PROVE  s = th[i].to
  <2>1. newsd[s] = newsd[th[i].to]
    BY <1>1, <1>2, <1>3, <1>4 DEF ServerInv, TableOK
  <2>2. QED
    BY <1>1, <1>4, <2>1 DEF TogetherInv, SlotsConnected
<1>5. ASSUME NEW j \in Slots \ {i}, Writing(j)
      PROVE  tab[newsd[th[j].to]] # c
  <2>1. SUFFICES ASSUME tab[newsd[th[j].to]] = c PROVE FALSE
    OBVIOUS
  <2>2. th[j].to = th[i].to
    BY <1>1, <1>4, <1>5, <2>1
  <2>3. Holds(i, th[i].to) /\ Holds(j, th[i].to)
    BY <1>5, <2>2 DEF Holds, Writing
  <2>4. QED
    BY <1>1, <1>5, <2>3 DEF ServerInv, LocksExclusive
<1>6. th[i].msg[1] # c
  <2>1. Running(i) /\ Carries(i)
    BY DEF Running, Carries, Writing
  <2>2. th[i].id \in Slots /\ Taken(th[i].id) /\ tab[newsd[th[i].id]] = th[i].msg[1]
    BY <2>1, RunningSlots DEF TogetherInv, ReadsOwn
  <2>3. QED
    BY <1>1, <1>4, <2>2
<1>7. ASSUME NEW k \in DOMAIN down[c], down[c][k].msg = th[i].msg
      PROVE  th[i].pc = "write2" /\ down[c][k].part = "head"
  <2>1. Carries(i)
    BY DEF Carries, Writing
  <2>2. PICK part : part = down[c][k].part
    OBVIOUS
  <2>3. PICK s \in Slots :
          /\ Taken(s) /\ tab[newsd[s]] = c
          /\ \/ Forwards(i) /\ s < th[i].to
             \/ th[i].pc = "write2" /\ s = th[i].to /\ part = "head"
    <3>1. GotSoFar(i, c, down[c][k].part)
      BY <1>3, <1>7, <2>1, Zenon DEF TogetherInv, Forwarded
    <3>2. QED
      BY <2>2, <3>1, Zenon DEF GotSoFar
  <2>4. s = th[i].to
    BY <1>4, <2>3
  <2>5. ~(s < th[i].to)
    BY <1>1, <2>4 DEF Slots
  <2>6. QED
    BY <2>2, <2>3, <2>5
<1>8. QED
  BY <1>1, <1>3, <1>4, <1>5, <1>6, <1>7, Zenon

(* Heads are at the odd places of what a client gets, bodies at the even ones. *)
LEMMA Parity ==
  \A n \in Nat : /\ n % 2 = 1 => n # 0 /\ (n + 1) % 2 # 1
                 /\ n % 2 # 1 => (n + 1) % 2 = 1
OBVIOUS

(* A client that gets a piece, in the way OpenPut states. *)
Gets(c, p) ==
  /\ \A e \in Clients \ {c} : down'[e] = down[e]
  /\ Len(down[c]) \in Nat /\ Len(down'[c]) = Len(down[c]) + 1
  /\ DOMAIN down[c] = 1 .. Len(down[c]) /\ DOMAIN down'[c] = 1 .. Len(down[c]) + 1
  /\ \A k \in 1 .. Len(down[c]) : down'[c][k] = down[c][k]
  /\ down'[c][Len(down[c]) + 1] = p

(* A head after whole messages, or the body after its head, is in its place. *)
LEMMA GetsWhole ==
  ASSUME WellFramed, NoEchoNoDuplicate, NEW c \in Clients, NEW p, Gets(c, p), p.msg[1] # c,
         \/ /\ p.part = "head" /\ ~Half(c)
            /\ \A k \in DOMAIN down[c] : down[c][k].msg # p.msg
         \/ /\ p.part = "body" /\ HalfOf(c, p.msg)
            /\ \A k \in DOMAIN down[c] : down[c][k].msg = p.msg => down[c][k].part = "head"
  PROVE  WellFramed' /\ NoEchoNoDuplicate'
<1> DEFINE n == Len(down[c])
<1>1. \A e \in Clients : \A k \in DOMAIN down'[e] :
        \/ k \in DOMAIN down[e] /\ down'[e][k] = down[e][k]
        \/ e = c /\ k = n + 1 /\ down'[e][k] = p
  BY DEF Gets
<1>2. WellFramed'
  <2>1. SUFFICES ASSUME NEW e \in Clients, NEW k \in DOMAIN down'[e]
                 PROVE  /\ down'[e][k].part # "raw"
                        /\ k % 2 = 1 => down'[e][k].part = "head"
                        /\ k % 2 # 1 => /\ down'[e][k].part = "body"
                                        /\ down'[e][k].msg = down'[e][k - 1].msg
    BY DEF WellFramed
  <2>2. CASE e # c
    BY <2>1, <2>2 DEF Gets, WellFramed
  <2>3. CASE e = c /\ k \in 1 .. n
    <3>1. k % 2 # 1 => k - 1 \in 1 .. n
      <4>1. n \in Nat /\ k \in Nat /\ k # 0
        BY <2>3 DEF Gets
      <4>2. k % 2 # 1 => k # 1
        OBVIOUS
      <4>3. QED
        BY <2>3, <4>1, <4>2
    <3>2. /\ down[c][k].part # "raw"
          /\ k % 2 = 1 => down[c][k].part = "head"
          /\ k % 2 # 1 => down[c][k].part = "body" /\ down[c][k].msg = down[c][k - 1].msg
      BY <2>3 DEF Gets, WellFramed
    <3>3. QED
      BY <2>3, <3>1, <3>2 DEF Gets
  <2>4. CASE e = c /\ k = n + 1
    <3>1. n \in Nat /\ down'[e][k] = p
      BY <2>4 DEF Gets
    <3>2. CASE p.part = "head" /\ ~Half(c)
      <4>1. k % 2 = 1
        BY <2>4, <3>1, <3>2, Parity DEF Half
      <4>2. QED
        BY <3>1, <3>2, <4>1
    <3>3. CASE p.part = "body" /\ HalfOf(c, p.msg)
      <4>1. n # 0 /\ k % 2 # 1 /\ down[c][n].msg = p.msg
        BY <2>4, <3>1, <3>3, Parity DEF Half, HalfOf
      <4>2. k - 1 = n /\ n \in 1 .. n
        BY <2>4, <3>1, <4>1
      <4>3. down'[c][n] = down[c][n]
        BY <4>2 DEF Gets
      <4>4. QED
        BY <2>4, <3>1, <3>3, <4>1, <4>2, <4>3
    <3>4. QED
      BY <3>2, <3>3
  <2>5. QED
    BY <2>1, <2>2, <2>3, <2>4 DEF Gets
<1>3. NoEchoNoDuplicate'
  <2>1. \A e \in Clients : \A k \in DOMAIN down'[e] : down'[e][k].msg[1] # e
    BY <1>1 DEF NoEchoNoDuplicate
  <2>2. \A k \in DOMAIN down[c] : ~(down[c][k].msg = p.msg /\ down[c][k].part = p.part)
    OBVIOUS
  <2>3. \A e \in Clients : \A k, l \in DOMAIN down'[e] :
          down'[e][l].msg = down'[e][k].msg /\ down'[e][l].part = down'[e][k].part => l = k
    BY <1>1, <2>2 DEF NoEchoNoDuplicate
  <2>4. QED
    BY <2>1, <2>3 DEF NoEchoNoDuplicate
<1>4. QED
  BY <1>2, <1>3

(* Thread i writes a piece p of its message to the client c it has locked. *)
WritesPiece(i, c, p) ==
  /\ c \in Clients /\ c = tab[newsd[th[i].to]]
  /\ p.msg = th[i].msg /\ p.depth = th[i].depth /\ Gets(c, p)
  /\ \/ /\ p.part = "head" /\ th[i].pc = "write1"
        /\ th'[i].pc = "write2" /\ th'[i].to = th[i].to
     \/ /\ p.part = "body" /\ th[i].pc = "write2"
        /\ th'[i].pc = "dist" /\ th'[i].to = th[i].to + 1
  /\ th'[i].id = th[i].id /\ th'[i].sd = th[i].sd /\ th'[i].msg = th[i].msg /\ th'[i].ref = None
  /\ \A j \in Slots \ {i} : th'[j] = th[j]

(* A write puts a piece of the message carried at the end of a stream. *)
LEMMA WriteDoes ==
  ASSUME ServerInv, TogetherInv, ~Left, NEW i \in Slots, WriteHead(i) \/ WriteBody(i)
  PROVE  /\ UNCHANGED <<mpc, noClient, newsd, tab, sent, sending, up>>
         /\ Writing(i) /\ th[i].to \in Nat /\ th[i].ref = None
         /\ \E c, p : WritesPiece(i, c, p)
<1>1. /\ UNCHANGED <<mpc, noClient, newsd, tab, sent, sending>>
      /\ th \in [Slots -> ThreadStates] /\ th[i] \in ThreadStates
      /\ th[i].to \in Nat /\ Writing(i) /\ th[i].ref = None
  <2>1. th[i] \in ThreadStates /\ Writing(i)
    BY DEF WriteHead, WriteBody, Writing, ServerInv, TypeOK
  <2>2. th[i].ref = None /\ th[i].to \in Nat
    BY <2>1, Sizes DEF ThreadStates, Writing, ServerInv, ThreadsOK, ThreadOK
  <2>3. QED
    BY <2>1, <2>2 DEF WriteHead, WriteBody, mainVars, clientVars, ServerInv, TypeOK
<1>2. PICK part \in {"head", "body"} :
        /\ WritePiece(i, part)
        /\ \/ /\ part = "head" /\ th[i].pc = "write1"
              /\ th'[i].pc = "write2" /\ th'[i].to = th[i].to
           \/ /\ part = "body" /\ th[i].pc = "write2"
              /\ th'[i].pc = "dist" /\ th'[i].to = th[i].to + 1
        /\ th'[i].id = th[i].id /\ th'[i].sd = th[i].sd /\ th'[i].msg = th[i].msg
        /\ th'[i].ref = None
        /\ \A j \in Slots \ {i} : th'[j] = th[j]
  <2>1. CASE WriteHead(i)
    <3>1. /\ th[i].pc = "write1" /\ WritePiece(i, "head")
          /\ th' = [th EXCEPT ![i] = [th[i] EXCEPT !.pc = "write2"]]
      BY <2>1 DEF WriteHead, Set
    <3>2. /\ th'[i].pc = "write2" /\ th'[i].to = th[i].to
          /\ th'[i].id = th[i].id /\ th'[i].sd = th[i].sd /\ th'[i].msg = th[i].msg
          /\ th'[i].ref = None /\ \A j \in Slots \ {i} : th'[j] = th[j]
      BY <1>1, <3>1 DEF ThreadStates
    <3>3. QED
      BY <3>1, <3>2
  <2>2. CASE WriteBody(i)
    <3>1. /\ th[i].pc = "write2" /\ WritePiece(i, "body")
          /\ th' = [th EXCEPT ![i] = [th[i] EXCEPT !.pc = "dist", !.to = @ + 1]]
      BY <2>2 DEF WriteBody, Set
    <3>2. /\ th'[i].pc = "dist" /\ th'[i].to = th[i].to + 1
          /\ th'[i].id = th[i].id /\ th'[i].sd = th[i].sd /\ th'[i].msg = th[i].msg
          /\ th'[i].ref = None /\ \A j \in Slots \ {i} : th'[j] = th[j]
      BY <1>1, <3>1 DEF ThreadStates
    <3>3. QED
      BY <3>1, <3>2
  <2>3. QED
    BY <2>1, <2>2
<1>3. PICK c : c = tab[newsd[th[i].to]]
  OBVIOUS
<1>4. PICK p : p = Piece(th[i].msg, part, th[i].depth)
  OBVIOUS
<1>5. c \in Clients
  BY <1>1, <1>3, Target
<1>6. /\ p.msg = th[i].msg /\ p.part = part /\ p.depth = th[i].depth
      /\ Gets(c, p) /\ UNCHANGED up
  <2>1. /\ p \in Pieces({"head", "body", "raw"})
        /\ p.msg = th[i].msg /\ p.part = part /\ p.depth = th[i].depth
    BY <1>1, <1>4, CarriedPiece DEF Carries, Writing, Piece
  <2>2. Put(c, p)
    BY <1>2, <1>3, <1>4 DEF WritePiece
  <2>3. QED
    BY <1>5, <2>1, <2>2, OpenPut DEF Gets
<1>7. WritesPiece(i, c, p)
  BY <1>2, <1>3, <1>5, <1>6 DEF WritesPiece
<1>8. QED
  BY <1>1, <1>6, <1>7

LEMMA WriteTogether ==
  ASSUME ServerInv, TogetherInv, ~Left, NEW i \in Slots, WriteHead(i) \/ WriteBody(i)
  PROVE  TogetherInv'
<1>1. /\ UNCHANGED <<mpc, noClient, newsd, tab, sent, sending, up>>
      /\ th \in [Slots -> ThreadStates] /\ Writing(i) /\ th[i].to \in Nat /\ th[i].ref = None
  BY WriteDoes DEF ServerInv, TypeOK
<1>2. PICK c, p : WritesPiece(i, c, p)
  BY WriteDoes
<1>3. PICK part \in {"head", "body"} :
        /\ part = p.part /\ c = tab[newsd[th[i].to]]
        /\ \/ /\ part = "head" /\ th[i].pc = "write1"
              /\ th'[i].pc = "write2" /\ th'[i].to = th[i].to
           \/ /\ part = "body" /\ th[i].pc = "write2"
              /\ th'[i].pc = "dist" /\ th'[i].to = th[i].to + 1
        /\ th'[i].id = th[i].id /\ th'[i].sd = th[i].sd /\ th'[i].msg = th[i].msg
        /\ th'[i].ref = None
        /\ \A j \in Slots \ {i} : th'[j] = th[j]
  BY <1>2 DEF WritesPiece
<1>4. PICK m : m = th[i].msg
  OBVIOUS
<1>5. p.msg = m /\ p.part = part /\ p.depth = th[i].depth /\ Gets(c, p)
  BY <1>2, <1>3, <1>4 DEF WritesPiece
<1>6. /\ c \in Clients /\ th[i].to \in Slots /\ Taken(th[i].to) /\ th[i].to # th[i].id
      /\ \A s \in Slots : Taken(s) /\ tab[newsd[s]] = c => s = th[i].to
      /\ \A j \in Slots \ {i} : Writing(j) => tab[newsd[th[j].to]] # c
      /\ m \in Messages /\ m[1] # c
      /\ \A k \in DOMAIN down[c] :
           down[c][k].msg = m => th[i].pc = "write2" /\ down[c][k].part = "head"
  <2>1. /\ c \in Clients /\ th[i].to \in Slots /\ Taken(th[i].to) /\ th[i].to # th[i].id
        /\ \A s \in Slots : Taken(s) /\ tab[newsd[s]] = c => s = th[i].to
        /\ \A j \in Slots \ {i} : Writing(j) => tab[newsd[th[j].to]] # c
        /\ th[i].msg \in Messages /\ th[i].msg[1] # c
        /\ \A k \in DOMAIN down[c] :
             down[c][k].msg = th[i].msg => th[i].pc = "write2" /\ down[c][k].part = "head"
    <3>1. Writing(i) /\ c = tab[newsd[th[i].to]]
      BY <1>1, <1>3, Zenon
    <3>2. QED
      BY <3>1, Target, Zenon
  <2>2. QED
    BY <1>4, <2>1, Zenon
<1>7. Carries(i) /\ Carries(i)' /\ \A j \in Slots \ {i} : Carries(j)' <=> Carries(j)
  BY <1>1, <1>3 DEF Carries, Writing
<1>8. SlotsConnected' /\ ReadsOwn' /\ SentOnce'
  <2>1. SlotsConnected' /\ SentOnce'
    BY <1>1, <1>5 DEF TogetherInv, SlotsConnected, Taken, SentOnce, Numbered
  <2>2. ReadsOwn'
    BY <1>1, <1>3, <1>7 DEF TogetherInv, ReadsOwn
  <2>3. QED
    BY <2>1, <2>2
<1>9. \A e \in Clients : \A k \in DOMAIN down'[e] :
         \/ k \in DOMAIN down[e] /\ down'[e][k] = down[e][k]
         \/ e = c /\ k = Len(down[c]) + 1 /\ down'[e][k] = p
  BY <1>5 DEF Gets
<1>10. \A e \in Clients : \A k \in DOMAIN down[e] :
         k \in DOMAIN down'[e] /\ down'[e][k] = down[e][k]
  BY <1>5, SMTT(30) DEF Gets
<1>11. CarriedOnce'
  <2>1. ASSUME NEW j \in Slots, Carries(j)'
        PROVE  Numbered(th[j].msg)' /\ ~HeadWaits(th[j].msg)'
    <3>1. Carries(j) /\ th'[j].msg = th[j].msg
      BY <1>3, <1>7, <2>1
    <3>2. QED
      BY <1>1, <1>5, <3>1 DEF TogetherInv, CarriedOnce, Numbered, HeadWaits
  <2>2. \A j, k \in Slots : Carries(j)' /\ Carries(k)' /\ th'[j].msg = th'[k].msg => j = k
    BY <1>3, <1>7 DEF TogetherInv, CarriedOnce
  <2>3. ASSUME NEW e \in Clients, NEW k \in DOMAIN down'[e]
        PROVE  Numbered(down[e][k].msg)' /\ ~HeadWaits(down[e][k].msg)'
    <3>1. PICK n : n = down'[e][k].msg
      OBVIOUS
    <3>2. Numbered(n) /\ ~HeadWaits(n)
      BY <1>1, <1>4, <1>5, <1>7, <1>9, <2>3, <3>1 DEF TogetherInv, CarriedOnce
    <3>3. QED
      BY <1>1, <1>5, <3>1, <3>2 DEF Numbered, HeadWaits
  <2>4. QED
    BY <2>1, <2>2, <2>3 DEF CarriedOnce
<1>12. Forwarded'
  <2>1. SUFFICES ASSUME NEW j \in Slots, Carries(j)'
                 PROVE  /\ \A e \in Clients : \A pt : \A k \in DOMAIN down'[e] :
                             down'[e][k].msg = th[j].msg /\ pt = down'[e][k].part =>
                               GotSoFar(j, e, pt)'
                        /\ Forwards(j)' => \A s \in Slots :
                             s < th'[j].to /\ s # th[j].id => HasMessage(s, th[j].msg)'
    BY <1>3 DEF Forwarded, GotSoFar
  <2>2. /\ \A e \in Clients : \A pt : \A k \in DOMAIN down[e] :
             down[e][k].msg = th[j].msg /\ pt = down[e][k].part => GotSoFar(j, e, pt)
        /\ Forwards(j) => \A s \in Slots :
             s < th[j].to /\ s # th[j].id => HasMessage(s, th[j].msg)
    BY <1>7, <2>1 DEF TogetherInv, Forwarded, GotSoFar
  <2>3. ASSUME NEW s \in Slots, Taken(s), HasMessage(s, th[j].msg)
        PROVE  HasMessage(s, th[j].msg)'
    <3>1. PICK n : n = th[j].msg
      OBVIOUS
    <3>2. PICK e \in Clients : e = tab[newsd[s]] /\ e = tab'[newsd'[s]]
      BY <1>1, <2>3 DEF TogetherInv, SlotsConnected
    <3>3. \E k \in DOMAIN down[e] : down[e][k].msg = n /\ down[e][k].part = "body"
      BY <2>3, <3>1, <3>2 DEF HasMessage
    <3>4. th'[j].msg = n
      BY <1>3, <3>1
    <3>5. QED
      BY <1>10, <3>2, <3>3, <3>4 DEF HasMessage
  <2>4. th[j] \in ThreadStates /\ th[j].to \in Nat /\ noClient \in Nat
    BY <1>1, Sizes DEF ThreadStates, ServerInv, TypeOK
  <2>5. Forwards(j) => \A s \in Slots : s < th[j].to => Taken(s)
    <3>1. Forwards(j) => th[j].to <= noClient
      BY <2>4 DEF Forwards, ServerInv, ThreadsOK, ThreadOK, Writing
    <3>2. QED
      BY <2>4, <3>1, Sizes DEF Taken
  <2>6. CASE j # i
    <3>1. th'[j] = th[j] /\ th[j].msg # m /\ (Forwards(j)' <=> Forwards(j))
      BY <1>3, <1>4, <1>7, <2>1, <2>6 DEF TogetherInv, CarriedOnce, Forwards
    <3>2. \A e \in Clients : \A pt : GotSoFar(j, e, pt) => GotSoFar(j, e, pt)'
      BY <1>1, <3>1 DEF GotSoFar, Taken, Forwards
    <3>3. QED
      BY <1>1, <1>5, <1>9, <2>2, <2>3, <2>5, <3>1, <3>2
  <2>7. CASE j = i
    <3>1. Forwards(i) /\ Forwards(i)'
      BY <1>3 DEF Forwards
    <3>2. \A e \in Clients : \A pt : GotSoFar(i, e, pt) => GotSoFar(i, e, pt)'
      <4>1. SUFFICES ASSUME NEW e \in Clients, NEW pt, GotSoFar(i, e, pt)
                     PROVE  GotSoFar(i, e, pt)'
        OBVIOUS
      <4>2. PICK s \in Slots :
              /\ Taken(s) /\ tab[newsd[s]] = e /\ s # th[i].id
              /\ s < th[i].to \/ (th[i].pc = "write2" /\ s = th[i].to)
        BY <4>1 DEF GotSoFar
      <4>3. s < th'[i].to
        BY <1>1, <1>3, <4>2, Sizes
      <4>4. QED
        BY <1>1, <1>3, <3>1, <4>2, <4>3 DEF GotSoFar, Taken
    <3>3. GotSoFar(i, c, part)'
      <4>1. \/ th[i].to < th'[i].to
            \/ th'[i].pc = "write2" /\ th[i].to = th'[i].to /\ part = "head"
        BY <1>1, <1>3
      <4>2. QED
        BY <1>1, <1>3, <1>5, <1>6, <3>1, <4>1, Zenon DEF GotSoFar, Taken
    <3>4. \A e \in Clients : \A pt : \A k \in DOMAIN down'[e] :
            down'[e][k].msg = th[i].msg /\ pt = down'[e][k].part => GotSoFar(i, e, pt)'
      BY <1>1, <1>5, <1>9, <2>2, <2>7, <3>2, <3>3
    <3>5. ASSUME NEW s \in Slots, s < th'[i].to, s # th[i].id
          PROVE  HasMessage(s, th[i].msg)'
      <4>1. CASE s < th[i].to
        BY <2>2, <2>3, <2>5, <2>7, <3>1, <3>5, <4>1
      <4>2. CASE ~(s < th[i].to)
        <5>1. part = "body" /\ s = th[i].to
          BY <1>1, <1>3, <3>5, <4>2, Sizes
        <5>2. c = tab'[newsd'[s]] /\ th'[i].msg = m
          BY <1>1, <1>3, <1>4, <1>5, <5>1
        <5>3. \E k \in DOMAIN down'[c] : down'[c][k].msg = m /\ down'[c][k].part = "body"
          BY <1>5, <5>1 DEF Gets
        <5>4. QED
          BY <5>2, <5>3 DEF HasMessage
      <4>3. QED
        BY <4>1, <4>2
    <3>6. QED
      BY <2>7, <3>4, <3>5
  <2>8. QED
    BY <2>6, <2>7
<1>13. HalfWritten'
  <2>1. \A e \in Clients \ {c} : \A n :
          (Half(e)' <=> Half(e)) /\ (HalfOf(e, n)' <=> HalfOf(e, n))
    BY <1>5 DEF Gets, Half, HalfOf
  <2>2. \A j \in Slots \ {i} : th[j].pc = "write2" =>
          th'[j] = th[j] /\ tab'[newsd'[th'[j].to]] = tab[newsd[th[j].to]]
                         /\ tab[newsd[th[j].to]] # c
    BY <1>1, <1>3, <1>6, Zenon DEF Writing
  <2>3. part = "head" => HalfOf(c, m)'
    <3>1. SUFFICES ASSUME part = "head" PROVE HalfOf(c, m)'
      OBVIOUS
    <3>2. ~Half(c)
      BY <1>3, <1>6, <3>1, Zenon DEF TogetherInv, HalfWritten, Writing
    <3>3. QED
      BY <1>5, <3>2, Parity DEF Gets, Half, HalfOf
  <2>4. part = "body" => ~Half(c)'
    <3>1. SUFFICES ASSUME part = "body" PROVE ~Half(c)'
      OBVIOUS
    <3>2. Half(c)
      BY <1>3, <1>5, <1>6, <3>1, Zenon DEF TogetherInv, HalfWritten, HalfOf
    <3>3. QED
      BY <1>5, <3>2, Parity DEF Gets, Half
  <2>5. ASSUME NEW e \in Clients, Half(e)'
        PROVE  \E j \in Slots : th'[j].pc = "write2" /\ tab'[newsd'[th'[j].to]] = e
    <3>1. CASE e = c
      BY <1>1, <1>3, <1>5, <2>4, <2>5, <3>1
    <3>2. CASE e # c
      <4>1. PICK j \in Slots : th[j].pc = "write2" /\ tab[newsd[th[j].to]] = e
        BY <2>1, <2>5, <3>2 DEF TogetherInv, HalfWritten
      <4>2. QED
        BY <1>3, <2>2, <3>2, <4>1
    <3>3. QED
      BY <3>1, <3>2
  <2>6. ASSUME NEW j \in Slots, NEW e \in Clients,
               th'[j].pc = "write2", tab'[newsd'[th'[j].to]] = e
        PROVE  HalfOf(e, th[j].msg)'
    <3>1. CASE j = i
      <4>1. part = "head" /\ e = c /\ th'[j].msg = m
        BY <1>1, <1>3, <1>4, <1>5, <2>6, <3>1
      <4>2. QED
        BY <2>3, <4>1 DEF HalfOf
    <3>2. CASE j # i
      <4>1. th[j].pc = "write2" /\ th'[j] = th[j] /\ e # c /\ tab[newsd[th[j].to]] = e
        BY <1>3, <2>2, <2>6, <3>2
      <4>2. PICK n : n = th[j].msg
        OBVIOUS
      <4>3. HalfOf(e, n)'
        BY <2>1, <4>1, <4>2 DEF TogetherInv, HalfWritten
      <4>4. QED
        BY <4>1, <4>2, <4>3 DEF HalfOf
    <3>3. QED
      BY <3>1, <3>2
  <2>7. QED
    BY <2>5, <2>6 DEF HalfWritten
<1>14. WellFramed' /\ NoEchoNoDuplicate'
  <2>1. part = "head" => ~Half(c)
    BY <1>3, <1>6, Zenon DEF TogetherInv, HalfWritten, Writing
  <2>2. part = "body" => HalfOf(c, m)
    BY <1>3, <1>4, <1>5, <1>6, Zenon DEF TogetherInv, HalfWritten
  <2>3. QED
    BY <1>1, <1>3, <1>5, <1>6, <2>1, <2>2, GetsWhole, Zenon DEF TogetherInv
<1>15. NoGarbage'
  <2>1. \A e \in Clients : \A k \in DOMAIN down'[e] : down'[e][k].msg \in Messages
    BY <1>5, <1>6, <1>9, Zenon DEF TogetherInv, NoGarbage
  <2>2. \A j \in Slots : Carries(j)' => th'[j].msg \in Messages
    <3>1. \A j \in Slots : th'[j].msg = th[j].msg /\ (Carries(j)' => Carries(j))
      BY <1>3, <1>7, Zenon
    <3>2. QED
      BY <3>1, Zenon DEF TogetherInv, NoGarbage
  <2>3. QED
    BY <1>1, <2>1, <2>2 DEF TogetherInv, NoGarbage
<1>16. Layered'
  <2>1. \A e : \A x : HasDepth(e, x) => HasDepth(e, x)'
    BY <1>1, ZenonT(40) DEF HasDepth, Taken
  <2>2. Encrypted => HasDepth(c, p)
    <3>1. SUFFICES ASSUME Encrypted PROVE HasDepth(c, p)
      OBVIOUS
    <3>2. Running(i)
      BY <1>1 DEF Writing, Running
    <3>3. th[i].id \in Slots /\ Taken(th[i].id) /\ tab[newsd[th[i].id]] = m[1]
      BY <1>4, <1>7, <3>2, RunningSlots DEF TogetherInv, ReadsOwn
    <3>4. th[i].id \in Nat /\ th[i].depth = Copies(i) + 1
      BY <1>1, <3>1, <3>3, Sizes DEF ServerInv, ThreadsOK, ThreadOK
    <3>5. th[i].depth = Depth(th[i].id, th[i].to)
      BY <1>1, <1>6, <3>4 DEF Copies, Depth
    <3>6. QED
      BY <1>3, <1>5, <1>6, <3>3, <3>5 DEF HasDepth
  <2>3. QED
    BY <1>9, <2>1, <2>2, ZenonT(40) DEF TogetherInv, Layered
<1>17. QED
  BY <1>8, <1>11, <1>12, <1>13, <1>14, <1>15, <1>16 DEF TogetherInv

(* No other thread is in a read for the client of a thread.                *)
LEMMA OnlyReader ==
  ASSUME ServerInv, ~SharedId, NEW i \in Slots, NEW c \in Clients,
         th[i].pc \in {"head", "body"}, tab[th[i].sd] = c
  PROVE  \A j \in Slots \ {i} : th[j].pc \in {"head", "body"} => tab[th[j].sd] # c
<1>1. SUFFICES ASSUME NEW j \in Slots \ {i}, th[j].pc \in {"head", "body"}, tab[th[j].sd] = c
               PROVE  FALSE
  OBVIOUS
<1>2. Running(i) /\ Running(j)
  BY <1>1 DEF Running
<1>3. th[i].sd \in Fds /\ th[j].sd \in Fds
  BY DEF ServerInv, TypeOK, ThreadStates
<1>4. th[i].sd = th[j].sd
  BY <1>1, <1>3 DEF ServerInv, TableOK
<1>5. QED
  BY <1>1, <1>2, <1>4 DEF SharedId

(* The piece that a thread finds is the next one of its frame.             *)
LEMMA NoTorn ==
  ASSUME ServerInv, TogetherInv, InOrder, ~SharedId, NEW i \in Slots
  PROVE  ~ReadTorn(i)
<1>1. SUFFICES ASSUME ReadTorn(i) PROVE FALSE
  OBVIOUS
<1>2. PICK c : c = th[i].ref
  OBVIOUS
<1>3. c \in Clients /\ th[i].pc \in {"head", "body"} /\ up[c] # <<>> /\ tab[th[i].sd] = c
  BY <1>1, <1>2 DEF ReadTorn, ServerInv, TypeOK, ThreadStates, ThreadsOK, ThreadOK, TogetherInv,
     ReadsOwn
<1>4. \A j \in Slots \ {i} : th[j].pc \in {"head", "body"} => tab[th[j].sd] # c
  BY <1>3, OnlyReader
<1>5. ~Disturbed(i)
  BY <1>2, <1>3, <1>4, NamesAssumption DEF Disturbed, ServerInv, ThreadsOK, ThreadOK, TogetherInv,
     ReadsOwn
<1>6. PICK p : p = up[c][1]
  OBVIOUS
<1>7. Head(up[c]) = p /\ p.msg \in Messages /\ p.msg[1] = c
  <2>1. up[c] \in Seq(Pieces({"head", "body"}))
    BY <1>3 DEF ServerInv, TypeOK
  <2>2. Head(up[c]) = p /\ 1 \in DOMAIN up[c]
    BY <1>3, <1>6, <2>1, TailFacts
  <2>3. QED
    BY <1>3, <1>6, <2>2 DEF TogetherInv, NoGarbage, SentOnce
<1>8. <<p.msg, p.part>> \notin Expected(i)
  BY <1>1, <1>2, <1>5, <1>7 DEF ReadTorn
<1>9. CASE th[i].pc = "head"
  <2>1. \A j \in Slots : ~Reads(j, c)
    BY <1>4, <1>9 DEF Reads
  <2>2. p.part = "head"
    BY <1>3, <1>6, <2>1 DEF InOrder, Resumed
  <2>3. \E n \in 1 .. MaxSends : p.msg = <<c, n>>
    BY <1>7 DEF Messages
  <2>4. QED
    BY <1>2, <1>8, <1>9, <2>2, <2>3 DEF Expected
<1>10. CASE th[i].pc = "body"
  <2>1. Reads(i, c)
    BY <1>3, <1>10 DEF Reads
  <2>2. p.part = "body" /\ p.msg = th[i].msg
    BY <1>3, <1>6, <2>1 DEF InOrder, Resumed
  <2>3. QED
    BY <1>8, <1>10, <2>2 DEF Expected
<1>11. QED
  BY <1>3, <1>9, <1>10

(* Every step keeps the invariant until a client leaves or a number is shared. *)
LEMMA StepTogether ==
  ASSUME ServerInv, TogetherInv, InOrder, Next, ~Left', ~SharedId'
  PROVE  TogetherInv'
<1>1. ~Left /\ ~SharedId
  BY StayedTogether, StaysShared
<1>2. ASSUME NEW i \in Slots, Service(i)
      PROVE  TogetherInv'
  <2>1. th[i] \in ThreadStates
    BY DEF ServerInv, TypeOK
  <2>2. ~ReadEnd(i)
    BY <1>1, <2>1, NamesAssumption DEF ReadEnd, Left, ThreadStates
  <2>3. ~CloseNext(i)
    BY DEF CloseNext, TogetherInv, ReadsOwn
  <2>4. CASE ReadFails(i) \/ PrintFails(i) \/ WriteFails(i)
    BY <2>4, EndingDies, StillOnward, OnwardTogether DEF Dies, mainVars, clientVars, streamVars
  <2>5. ~ReadTorn(i)
    BY <1>1, NoTorn
  <2>6. QED
    BY <1>1, <1>2, <2>2, <2>3, <2>4, <2>5, ReadTogether, WriteTogether,
       MovesOnward, OnwardTogether DEF Service
<1>3. ASSUME NEW c \in Clients, Client(c)
      PROVE  TogetherInv'
  <2>1. CASE Connect(c) \/ Receive(c)
    BY <2>1, StillOnward, OnwardTogether DEF Connect, Receive, mainVars, clientVars
  <2>2. ~Leave(c)
    BY DEF Leave, Left, ServerInv, TypeOK
  <2>3. QED
    BY <1>3, <2>1, <2>2, SendTogether DEF Client
<1>4. CASE Fail
  BY <1>4, EndingDies, StillOnward, OnwardTogether DEF Dies, mainVars, clientVars, streamVars
<1>5. QED
  BY <1>2, <1>3, <1>4, MainOnward, OnwardTogether DEF Next

(* It holds when the server starts, and while nothing happens. *)
LEMMA InitTogether == Init => TogetherInv
<1>1. SUFFICES ASSUME Init PROVE TogetherInv
  OBVIOUS
<1>2. /\ \A s \in Slots : th[s].pc = "none" /\ th[s].ref = None /\ ~Taken(s)
      /\ \A c \in Clients : /\ up[c] = <<>> /\ down[c] = <<>> /\ DOMAIN up[c] = {}
                            /\ DOMAIN down[c] = {} /\ Len(down[c]) = 0
                            /\ sending[c] = NoMessage
      /\ tab[0] = "tty"
  BY <1>1, Sizes DEF Init, Thread, Taken, Slots
<1>3. SlotsConnected /\ ReadsOwn
  BY <1>2 DEF SlotsConnected, ReadsOwn, Carries
<1>4. SentOnce /\ CarriedOnce
  BY <1>2 DEF SentOnce, CarriedOnce, Carries
<1>5. Forwarded
  BY <1>2 DEF Forwarded, Carries
<1>6. HalfWritten
  BY <1>2, Parity DEF HalfWritten, Half
<1>7. NoGarbage /\ WellFramed /\ NoEchoNoDuplicate /\ Layered
  BY <1>2 DEF NoGarbage, Carries, WellFramed, NoEchoNoDuplicate, Layered
<1>8. QED
  BY <1>3, <1>4, <1>5, <1>6, <1>7 DEF TogetherInv

------------------------------------------------------------------------------
(* The order of the messages of one sender.                                *)

(* Threads go on, and nothing is sent or read.                             *)
LEMMA OnwardInOrder ==
  ASSUME ServerInv, TogetherInv, InOrder, ~SharedId, Onward
  PROVE  InOrder'
<1>1. UNCHANGED <<up, down, sending>>
  BY DEF Onward
<1>2. ASSUME NEW i \in Slots
      PROVE  /\ Carries(i)' => Carries(i) /\ th'[i].msg = th[i].msg
             /\ th'[i].pc = "body" <=> th[i].pc = "body"
             /\ th[i].pc = "body" => th'[i].msg = th[i].msg /\ tab'[th'[i].sd] = tab[th[i].sd]
  <2>1. th[i].pc = "body" => Running(i) /\ Carries(i)
    BY DEF Running, Carries
  <2>2. th'[i].pc = "body" => Carries(i)'
    BY DEF Carries
  <2>3. CASE th'[i] = th[i]
    BY <2>1, <2>3 DEF Carries, Onward, KeepsSlots
  <2>4. CASE GoesOn(i)
    BY <2>1, <2>2, <2>4 DEF GoesOn, Onward, KeepsSlots
  <2>5. QED
    BY <2>3, <2>4 DEF Onward
<1>3. \A i \in Slots, c \in Clients : Reads(i, c)' <=> Reads(i, c)
  BY <1>2 DEF Reads
<1>4. Framed'
  BY <1>1 DEF InOrder, Framed
<1>5. Resumed'
  <2>1. \A i \in Slots, c \in Clients : Reads(i, c) => th'[i].msg = th[i].msg
    BY <1>2 DEF Reads
  <2>2. QED
    BY <1>1, <1>3, <2>1 DEF InOrder, Resumed
<1>6. Ascending'
  BY <1>1, <1>2, SMTT(30) DEF InOrder, Ascending, Ahead
<1>7. SenderOrder'
  BY <1>1, <1>2 DEF InOrder, SenderOrder
<1>8. QED
  BY <1>4, <1>5, <1>6, <1>7 DEF InOrder

(* The numbers of messages, and the types the proofs about them need. *)
LEMMA StreamNumbers ==
  ASSUME ServerInv, TogetherInv
  PROVE  /\ sent \in Nat /\ NoMessage \notin Messages
         /\ \A c \in Clients : sending[c] \in Messages \cup {NoMessage}
         /\ \A c \in Clients : up[c] = <<>> <=> Len(up[c]) = 0
         /\ \A c \in Clients : \A k \in DOMAIN up[c] :
              up[c][k].msg \in Messages /\ up[c][k].msg[2] \in Nat /\ up[c][k].msg[2] <= sent
         /\ \A i \in Slots : Carries(i) =>
              th[i].msg \in Messages /\ th[i].msg[2] \in Nat /\ th[i].msg[2] <= sent
         /\ \A c \in Clients : \A k \in DOMAIN down[c] :
              down[c][k].msg \in Messages /\ down[c][k].msg[2] \in Nat /\ down[c][k].msg[2] <= sent
<1>1. sent \in Nat /\ \A c \in Clients : sending[c] \in Messages \cup {NoMessage}
  BY DEF ServerInv, TypeOK, Texts
<1>2. NoMessage \notin Messages
  <2>1. NoMessage[2] = 0
    BY DEF NoMessage
  <2>2. QED
    BY <2>1, MessageTypes
<1>3. \A c \in Clients : up[c] = <<>> <=> Len(up[c]) = 0
  BY EmptySeq DEF ServerInv, TypeOK
<1>4. \A c \in Clients : \A k \in DOMAIN up[c] :
        up[c][k].msg \in Messages /\ up[c][k].msg[2] \in Nat /\ up[c][k].msg[2] <= sent
  BY StreamTypes, MessageTypes DEF TogetherInv, SentOnce, Numbered
<1>5. \A i \in Slots : Carries(i) =>
        th[i].msg \in Messages /\ th[i].msg[2] \in Nat /\ th[i].msg[2] <= sent
  BY MessageTypes DEF TogetherInv, NoGarbage, CarriedOnce, Numbered
<1>6. \A c \in Clients : \A k \in DOMAIN down[c] :
        down[c][k].msg \in Messages /\ down[c][k].msg[2] \in Nat /\ down[c][k].msg[2] <= sent
  BY StreamTypes, MessageTypes DEF TogetherInv, CarriedOnce, Numbered
<1>7. QED
  BY <1>1, <1>2, <1>3, <1>4, <1>5, <1>6

(* A client sends the body after its head and numbers above those it has sent. *)
LEMMA SendInOrder ==
  ASSUME ServerInv, TogetherInv, InOrder, ~SharedId, NEW c \in Clients, SendHead(c) \/ SendBody(c)
  PROVE  InOrder'
<1>1. UNCHANGED <<tab, th, down>>
  BY SendDoes
<1>2. PICK p : SendsPiece(c, p)
  BY SendDoes
<1>3. PICK m \in Messages : m = p.msg
  BY <1>2 DEF SendsPiece
<1>4. PICK n \in Nat : n = Len(up[c])
  BY <1>2 DEF SendsPiece
<1>5. /\ p.part \in {"head", "body"} /\ m[2] \in Nat /\ m # NoMessage /\ sent \in Nat
      /\ \A e \in Clients \ {c} : up'[e] = up[e] /\ sending'[e] = sending[e]
      /\ DOMAIN up[c] = 1 .. n /\ DOMAIN up'[c] = 1 .. n + 1
      /\ \A k \in 1 .. n : up'[c][k] = up[c][k]
      /\ up'[c] # <<>> /\ up'[c][n + 1] = p
      /\ p.part = "head" => sending[c] = NoMessage /\ sending'[c] = m /\ sent < m[2]
      /\ p.part = "body" => sending[c] = m /\ sending'[c] = NoMessage
  BY <1>2, <1>3, <1>4, StreamNumbers, MessageTypes DEF SendsPiece
<1>6. n # 0 => /\ up[c][n].part = "head" => p.part = "body" /\ up[c][n].msg = m
               /\ up[c][n].part # "head" => p.part = "head"
  <2>1. SUFFICES ASSUME n # 0
                 PROVE  /\ up[c][n].part = "head" => p.part = "body" /\ up[c][n].msg = m
                        /\ up[c][n].part # "head" => p.part = "head"
    OBVIOUS
  <2>2. n \in DOMAIN up[c] /\ ~(n + 1 \in DOMAIN up[c]) /\ up[c][n].msg \in Messages
    BY <1>5, <2>1, StreamNumbers
  <2>3. IF up[c][n].part = "head" THEN sending[c] = up[c][n].msg ELSE sending[c] = NoMessage
    BY <2>2 DEF InOrder, Framed
  <2>4. QED
    BY <1>5, <2>2, <2>3, StreamNumbers
<1>7. Framed'
  <2>1. SUFFICES ASSUME NEW e \in Clients, NEW k \in DOMAIN up'[e]
                 PROVE  IF up'[e][k].part = "head"
                        THEN IF k + 1 \in DOMAIN up'[e]
                             THEN up'[e][k + 1].part = "body" /\ up'[e][k + 1].msg = up'[e][k].msg
                             ELSE sending'[e] = up'[e][k].msg
                        ELSE IF k + 1 \in DOMAIN up'[e]
                             THEN up'[e][k + 1].part = "head"
                             ELSE sending'[e] = NoMessage
    BY DEF Framed
  <2>2. CASE e # c
    BY <1>5, <2>1, <2>2 DEF InOrder, Framed
  <2>3. CASE e = c /\ k \in 1 .. n /\ k # n
    <3>1. k \in DOMAIN up[c] /\ k + 1 \in DOMAIN up[c] /\ k + 1 \in 1 .. n /\ k + 1 \in DOMAIN up'[c]
      BY <1>5, <2>3
    <3>2. /\ up[c][k].part = "head" => up[c][k + 1].part = "body" /\ up[c][k + 1].msg = up[c][k].msg
          /\ up[c][k].part # "head" => up[c][k + 1].part = "head"
      BY <3>1 DEF InOrder, Framed
    <3>3. up'[c][k] = up[c][k] /\ up'[c][k + 1] = up[c][k + 1]
      BY <1>5, <2>3, <3>1
    <3>4. QED
      BY <2>3, <3>1, <3>2, <3>3
  <2>4. CASE e = c /\ k = n /\ n # 0
    <3>1. k \in 1 .. n /\ k + 1 \in DOMAIN up'[c] /\ up'[c][k + 1] = p /\ up'[c][k] = up[c][n]
      BY <1>5, <2>4, SMTT(30)
    <3>2. QED
      BY <1>3, <1>5, <1>6, <2>4, <3>1
  <2>5. CASE e = c /\ k = n + 1
    <3>1. ~(k + 1 \in DOMAIN up'[c]) /\ up'[c][k] = p
      BY <1>5, <2>5
    <3>2. QED
      BY <1>3, <1>5, <2>5, <3>1
  <2>6. QED
    BY <1>5, <2>1, <2>2, <2>3, <2>4, <2>5
<1>8. Resumed'
  <2>1. \A i \in Slots : \A e : Reads(i, e)' <=> Reads(i, e)
    BY <1>1 DEF Reads
  <2>2. \A i \in Slots : \A e : Reads(i, e) => th[i].msg \in Messages
    BY StreamNumbers DEF Reads, Carries
  <2>3. ASSUME NEW i \in Slots, Reads(i, c)
        PROVE  up'[c][1].part = "body" /\ up'[c][1].msg = th[i].msg
    <3>1. CASE n = 0
      <4>1. up[c] = <<>> /\ up'[c][1] = p
        <5>1. up[c] = <<>>
          BY <1>4, <3>1, StreamNumbers
        <5>2. n + 1 = 1
          BY <3>1
        <5>3. QED
          BY <1>5, <5>1, <5>2
      <4>2. sending[c] = th[i].msg
        BY <2>3, <4>1 DEF InOrder, Resumed
      <4>3. QED
        BY <1>3, <1>5, <2>2, <2>3, <4>1, <4>2, StreamNumbers
    <3>2. CASE n # 0
      <4>1. up'[c][1] = up[c][1] /\ up[c] # <<>>
        BY <1>4, <1>5, <3>2, StreamNumbers
      <4>2. QED
        BY <2>3, <4>1 DEF InOrder, Resumed
    <3>3. QED
      BY <3>1, <3>2
  <2>4. (\A i \in Slots : ~Reads(i, c)) => up'[c][1].part = "head"
    <3>1. CASE n = 0
      <4>1. (\A i \in Slots : ~Reads(i, c)) => sending[c] = NoMessage
        BY <1>4, <3>1, StreamNumbers DEF InOrder, Resumed
      <4>2. up'[c][1] = p
        BY <1>5, <3>1
      <4>3. QED
        BY <1>5, <4>1, <4>2
    <3>2. CASE n # 0
      <4>1. up'[c][1] = up[c][1] /\ up[c] # <<>>
        BY <1>4, <1>5, <3>2, StreamNumbers
      <4>2. QED
        BY <4>1 DEF InOrder, Resumed
    <3>3. QED
      BY <3>1, <3>2
  <2>5. QED
    BY <1>1, <1>5, <2>1, <2>3, <2>4 DEF InOrder, Resumed
<1>9. ASSUME NEW e \in Clients, NEW x \in Nat, x <= sent, Ahead(e, x)
      PROVE  Ahead(e, x)' /\ (e = c => x <= m[2])
  <2>1. CASE e # c
    BY <1>5, <1>9, <2>1 DEF Ahead
  <2>2. CASE e = c
    <3>1. x <= m[2]
      BY <1>5, <1>9, <2>2 DEF Ahead
    <3>2. \A k \in DOMAIN up'[c] : x <= up'[c][k].msg[2]
      BY <1>3, <1>5, <1>9, <2>2, <3>1 DEF Ahead
    <3>3. sending'[c] # NoMessage => x <= sending'[c][2]
      BY <1>5, <3>1
    <3>4. QED
      BY <2>2, <3>1, <3>2, <3>3 DEF Ahead
  <2>3. QED
    BY <2>1, <2>2
<1>10. Ascending'
  <2>1. ASSUME NEW e \in Clients, NEW k \in DOMAIN up'[e]
        PROVE  /\ \A l \in DOMAIN up'[e] : k <= l => up'[e][k].msg[2] <= up'[e][l].msg[2]
               /\ sending'[e] # NoMessage => up'[e][k].msg[2] <= sending'[e][2]
    <3>1. CASE e # c
      BY <1>5, <2>1, <3>1 DEF InOrder, Ascending
    <3>2. CASE e = c /\ k \in 1 .. n
      <4>1. up'[c][k] = up[c][k] /\ k \in DOMAIN up[c]
        BY <1>5, <3>2
      <4>2. PICK x \in Nat : x = up[c][k].msg[2] /\ x <= sent
        BY <4>1, StreamNumbers
      <4>3. x <= m[2]
        BY <1>5, <4>1, <4>2 DEF InOrder, Ascending
      <4>4. \A l \in DOMAIN up'[c] : k <= l => x <= up'[c][l].msg[2]
        BY <1>3, <1>5, <4>1, <4>2, <4>3, SMTT(30) DEF InOrder, Ascending
      <4>5. QED
        BY <1>5, <3>2, <4>1, <4>2, <4>3, <4>4
    <3>3. CASE e = c /\ k = n + 1
      <4>1. \A l \in DOMAIN up'[c] : k <= l => l = k
        BY <1>5, <3>3
      <4>2. up'[c][k].msg[2] = m[2] /\ m[2] <= m[2]
        BY <1>3, <1>5, <3>3
      <4>3. QED
        BY <1>5, <3>3, <4>1, <4>2
    <3>4. QED
      BY <1>5, <2>1, <3>1, <3>2, <3>3
  <2>2. ASSUME NEW i \in Slots, Carries(i)'
        PROVE  Ahead(th[i].msg[1], th[i].msg[2])'
    <3>1. th'[i] = th[i] /\ Carries(i)
      BY <1>1, <2>2 DEF Carries
    <3>2. PICK e \in Clients, x \in Nat : e = th[i].msg[1] /\ x = th[i].msg[2] /\ x <= sent
      BY <3>1, StreamNumbers, MessageTypes
    <3>3. Ahead(e, x)
      BY <3>1, <3>2 DEF InOrder, Ascending
    <3>4. Ahead(e, x)'
      BY <1>9, <3>2, <3>3
    <3>5. QED
      BY <3>1, <3>2, <3>4 DEF Ahead
  <2>3. ASSUME NEW d \in Clients, NEW k \in DOMAIN down[d]
        PROVE  Ahead(down[d][k].msg[1], down[d][k].msg[2])'
    <3>1. PICK e \in Clients, x \in Nat :
            e = down[d][k].msg[1] /\ x = down[d][k].msg[2] /\ x <= sent
      BY StreamNumbers, MessageTypes
    <3>2. Ahead(e, x)
      BY <3>1 DEF InOrder, Ascending
    <3>3. Ahead(e, x)'
      BY <1>9, <3>1, <3>2
    <3>4. QED
      BY <1>1, <3>1, <3>3 DEF Ahead
  <2>4. \A d \in Clients : \A k \in DOMAIN down'[d] : Ahead(down[d][k].msg[1], down[d][k].msg[2])'
    BY <1>1, <2>3
  <2>5. \A d \in Clients : \A k \in DOMAIN down'[d] : \A i \in Slots :
          Carries(i)' /\ th'[i].msg[1] = down'[d][k].msg[1] =>
            down'[d][k].msg[2] <= th'[i].msg[2]
    BY <1>1 DEF InOrder, Ascending, Carries
  <2>6. QED
    BY <2>1, <2>2, <2>4, <2>5 DEF Ascending
<1>11. SenderOrder'
  BY <1>1 DEF InOrder, SenderOrder, Carries
<1>12. QED
  BY <1>7, <1>8, <1>10, <1>11 DEF InOrder

(* The only reader of a client finds the next piece of its frame. *)
LEMMA ReadInOrder ==
  ASSUME ServerInv, TogetherInv, InOrder, ~SharedId, NEW i \in Slots, ReadPiece(i)
  PROVE  InOrder'
<1>1. UNCHANGED <<tab, down, sending>>
  BY ReadDoes
<1>2. PICK c, m :
        /\ TakesFrom(i, c) /\ TakesMessage(c, m) /\ SentBy(c, m)
        /\ TakesFirst(c) /\ TakesOver(i, m) /\ TakesPart(i, c, m)
  BY ReadDoes DEF TakesPiece
<1>3. PICK n \in Nat : n = Len(up[c]) /\ n # 0
  BY <1>2 DEF TakesFirst
<1>4. /\ c \in Clients /\ c = tab[th[i].sd] /\ th[i].pc \in {"head", "body"}
      /\ m \in Messages /\ m = up[c][1].msg /\ m[1] = c
      /\ \A e \in Clients \ {c} : up'[e] = up[e]
      /\ DOMAIN up[c] = 1 .. n /\ DOMAIN up'[c] = 1 .. n - 1 /\ (up'[c] = <<>> <=> n = 1)
      /\ \A k \in 1 .. n - 1 : up'[c][k] = up[c][k + 1]
      /\ th'[i].sd = th[i].sd /\ th'[i].msg = m
      /\ \A j \in Slots \ {i} : th'[j] = th[j]
  <2>1. c \in Clients /\ c = tab[th[i].sd] /\ th[i].pc \in {"head", "body"}
    BY <1>2 DEF TakesFrom
  <2>2. /\ \A e \in Clients \ {c} : up'[e] = up[e]
        /\ DOMAIN up[c] = 1 .. n /\ DOMAIN up'[c] = 1 .. n - 1 /\ (up'[c] = <<>> <=> n = 1)
        /\ \A k \in 1 .. n - 1 : up'[c][k] = up[c][k + 1]
    BY <1>2, <1>3 DEF TakesFirst
  <2>3. /\ th'[i].sd = th[i].sd /\ th'[i].msg = m
        /\ \A j \in Slots \ {i} : th'[j] = th[j]
    BY <1>2 DEF TakesOver
  <2>4. m \in Messages /\ m = up[c][1].msg
    BY <1>2 DEF TakesMessage
  <2>5. m[1] = c
    BY <1>2 DEF SentBy
  <2>6. QED
    BY <2>1, <2>2, <2>3, <2>4, <2>5, Zenon
<1>5. up[c] # <<>> /\ 1 \in DOMAIN up[c]
  <2>1. \A x \in Nat : x # 0 => 1 \in 1 .. x
    OBVIOUS
  <2>2. 1 \in DOMAIN up[c]
    BY <1>3, <1>4, <2>1, Zenon
  <2>3. up[c] # <<>>
    BY <1>3, <1>4, StreamNumbers, Zenon
  <2>4. QED
    BY <2>2, <2>3
<1>6. \A j \in Slots \ {i} : ~Reads(j, c)
  BY <1>4, OnlyReader DEF Reads
<1>7. \/ th[i].pc = "head" /\ up[c][1].part = "head" /\ th'[i].pc = "body"
      \/ th[i].pc = "body" /\ up[c][1].part = "body" /\ th'[i].pc = "print"
  BY <1>2 DEF TakesPart
<1>8. /\ \A k \in DOMAIN up'[c] : k + 1 \in DOMAIN up[c] /\ k \in 1 .. n - 1 /\ up'[c][k] = up[c][k + 1]
      /\ \A k \in DOMAIN up'[c] : /\ k + 1 \in DOMAIN up'[c] <=> (k + 1) + 1 \in DOMAIN up[c]
                                  /\ k + 1 \in DOMAIN up'[c] => up'[c][k + 1] = up[c][(k + 1) + 1]
  <2>1. \A k \in 1 .. n - 1 : k + 1 \in 1 .. n /\ (k + 1 \in 1 .. n - 1 <=> (k + 1) + 1 \in 1 .. n)
    BY <1>3
  <2>2. DOMAIN up[c] = 1 .. n /\ DOMAIN up'[c] = 1 .. n - 1
    BY <1>4
  <2>3. \A k \in 1 .. n - 1 : up'[c][k] = up[c][k + 1]
    BY <1>4
  <2>4. QED
    BY <2>1, <2>2, <2>3
<1>9. Framed'
  <2>1. SUFFICES ASSUME NEW e \in Clients, NEW k \in DOMAIN up'[e]
                 PROVE  IF up'[e][k].part = "head"
                        THEN IF k + 1 \in DOMAIN up'[e]
                             THEN up'[e][k + 1].part = "body" /\ up'[e][k + 1].msg = up'[e][k].msg
                             ELSE sending[e] = up'[e][k].msg
                        ELSE IF k + 1 \in DOMAIN up'[e]
                             THEN up'[e][k + 1].part = "head"
                             ELSE sending[e] = NoMessage
    BY <1>1 DEF Framed
  <2>2. CASE e # c
    BY <1>4, <2>1, <2>2 DEF InOrder, Framed
  <2>3. CASE e = c
    <3>1. PICK l : l = k + 1
      OBVIOUS
    <3>2. /\ l \in DOMAIN up[c] /\ up'[c][k] = up[c][l] /\ (l \in DOMAIN up'[c] <=> l + 1 \in DOMAIN up[c])
          /\ l \in DOMAIN up'[c] => up'[c][l] = up[c][l + 1]
      BY <1>8, <2>1, <2>3, <3>1
    <3>3. IF up[c][l].part = "head"
          THEN IF l + 1 \in DOMAIN up[c]
               THEN up[c][l + 1].part = "body" /\ up[c][l + 1].msg = up[c][l].msg
               ELSE sending[c] = up[c][l].msg
          ELSE IF l + 1 \in DOMAIN up[c]
               THEN up[c][l + 1].part = "head"
               ELSE sending[c] = NoMessage
      <4>1. \A h \in DOMAIN up[c] : IF up[c][h].part = "head"
              THEN IF h + 1 \in DOMAIN up[c]
                   THEN up[c][h + 1].part = "body" /\ up[c][h + 1].msg = up[c][h].msg
                   ELSE sending[c] = up[c][h].msg
              ELSE IF h + 1 \in DOMAIN up[c]
                   THEN up[c][h + 1].part = "head"
                   ELSE sending[c] = NoMessage
        BY <1>4, Zenon DEF InOrder, Framed
      <4>2. QED
        BY <3>2, <4>1, Zenon
    <3>4. QED
      BY <2>3, <3>1, <3>2, <3>3
  <2>4. QED
    BY <2>2, <2>3
<1>10. \A j \in Slots, e \in Clients : Reads(j, e)' <=>
         IF e = c THEN j = i /\ th'[i].pc = "body" ELSE Reads(j, e)
  BY <1>1, <1>4, <1>6 DEF Reads
<1>11. Resumed'
  <2>1. SUFFICES ASSUME NEW e \in Clients
                 PROVE  /\ \A j \in Slots : Reads(j, e)' =>
                             IF up'[e] = <<>> THEN sending[e] = th'[j].msg
                             ELSE up'[e][1].part = "body" /\ up'[e][1].msg = th'[j].msg
                        /\ (\A j \in Slots : ~Reads(j, e)') =>
                             IF up'[e] = <<>> THEN sending[e] = NoMessage
                                              ELSE up'[e][1].part = "head"
    BY <1>1 DEF Resumed
  <2>2. CASE e # c
    <3>1. \A j \in Slots : Reads(j, e) => th'[j] = th[j]
      BY <1>4, <2>2 DEF Reads
    <3>2. QED
      BY <1>4, <1>10, <2>2, <3>1 DEF InOrder, Resumed
  <2>3. CASE e = c
    <3>1. IF up[c][1].part = "head"
          THEN IF n = 1 THEN sending[c] = m ELSE up[c][2].part = "body" /\ up[c][2].msg = m
          ELSE IF n = 1 THEN sending[c] = NoMessage ELSE up[c][2].part = "head"
      <4>1. \A k, l : k \in DOMAIN up[c] /\ l = k + 1 =>
              IF up[c][k].part = "head"
              THEN IF l \in DOMAIN up[c]
                   THEN up[c][l].part = "body" /\ up[c][l].msg = up[c][k].msg
                   ELSE sending[c] = up[c][k].msg
              ELSE IF l \in DOMAIN up[c]
                   THEN up[c][l].part = "head"
                   ELSE sending[c] = NoMessage
        <5>1. \A k \in DOMAIN up[c] :
                IF up[c][k].part = "head"
                THEN IF k + 1 \in DOMAIN up[c]
                     THEN up[c][k + 1].part = "body" /\ up[c][k + 1].msg = up[c][k].msg
                     ELSE sending[c] = up[c][k].msg
                ELSE IF k + 1 \in DOMAIN up[c]
                     THEN up[c][k + 1].part = "head"
                     ELSE sending[c] = NoMessage
          BY <1>4, Zenon DEF InOrder, Framed
        <5>2. QED
          BY <5>1, Zenon
      <4>2. 2 = 1 + 1 /\ (2 \in 1 .. n <=> n # 1)
        <5>1. \A x \in Nat : x # 0 => (2 \in 1 .. x <=> x # 1)
          OBVIOUS
        <5>2. 2 = 1 + 1
          OBVIOUS
        <5>3. QED
          BY <1>3, <5>1, <5>2
      <4>3. QED
        <5>1. 1 \in DOMAIN up[c] /\ (2 \in DOMAIN up[c] <=> n # 1)
          BY <1>4, <1>5, <4>2, Zenon
        <5>2. IF up[c][1].part = "head"
              THEN IF 2 \in DOMAIN up[c]
                   THEN up[c][2].part = "body" /\ up[c][2].msg = up[c][1].msg
                   ELSE sending[c] = up[c][1].msg
              ELSE IF 2 \in DOMAIN up[c]
                   THEN up[c][2].part = "head"
                   ELSE sending[c] = NoMessage
          BY <4>1, <4>2, <5>1, Zenon
        <5>3. m = up[c][1].msg
          BY <1>4, Zenon
        <5>4. QED
          BY <5>1, <5>2, <5>3, Zenon
    <3>2. n # 1 => up'[c][1] = up[c][2]
      <4>1. \A x \in Nat : x # 0 /\ x # 1 => 1 \in 1 .. x - 1
        OBVIOUS
      <4>2. n # 1 => 1 \in 1 .. n - 1
        BY <1>3, <4>1
      <4>3. 1 + 1 = 2
        OBVIOUS
      <4>4. QED
        BY <1>4, <4>2, <4>3
    <3>3. CASE th'[i].pc = "body" /\ up[c][1].part = "head"
      <4>1. \A j \in Slots : Reads(j, c)' <=> j = i
        BY <1>4, <1>10, <3>3
      <4>2. IF up'[c] = <<>> THEN sending[c] = m ELSE up'[c][1].part = "body" /\ up'[c][1].msg = m
        BY <1>4, <3>1, <3>2, <3>3, Zenon
      <4>3. QED
        BY <1>4, <2>3, <4>1, <4>2, Zenon
    <3>4. CASE th'[i].pc = "print" /\ up[c][1].part = "body"
      <4>1. \A j \in Slots : ~Reads(j, c)'
        BY <1>4, <1>10, <3>4
      <4>2. IF up'[c] = <<>> THEN sending[c] = NoMessage ELSE up'[c][1].part = "head"
        BY <1>4, <3>1, <3>2, <3>4
      <4>3. QED
        BY <2>3, <4>1, <4>2
    <3>5. QED
      BY <1>7, <3>3, <3>4
  <2>4. QED
    BY <2>2, <2>3
<1>12. \A e \in Clients : \A x : Ahead(e, x) => Ahead(e, x)'
  <2>1. SUFFICES ASSUME NEW e \in Clients, NEW x, Ahead(e, x)
                 PROVE  /\ \A k \in DOMAIN up'[e] : x <= up'[e][k].msg[2]
                        /\ sending[e] # NoMessage => x <= sending[e][2]
    BY <1>1 DEF Ahead
  <2>2. CASE e # c
    BY <1>4, <2>1, <2>2 DEF Ahead
  <2>3. CASE e = c
    BY <1>8, <2>1, <2>3 DEF Ahead
  <2>4. QED
    BY <2>2, <2>3
<1>13. Ahead(c, m[2])
  <2>1. \A k \in DOMAIN up[c] : 1 <= k
    <3>1. \A k \in 1 .. n : 1 <= k
      OBVIOUS
    <3>2. QED
      BY <1>4, <3>1
  <2>2. QED
    BY <1>4, <1>5, <2>1, ZenonT(40) DEF InOrder, Ascending, Ahead
<1>14. \A j \in Slots : Carries(j)' =>
         \/ j = i /\ th'[i].msg = m
         \/ j # i /\ th'[j] = th[j] /\ Carries(j)
  BY <1>4 DEF Carries
<1>15. Ascending'
  <2>1. ASSUME NEW e \in Clients, NEW k \in DOMAIN up'[e]
        PROVE  /\ \A l \in DOMAIN up'[e] : k <= l => up'[e][k].msg[2] <= up'[e][l].msg[2]
               /\ sending[e] # NoMessage => up'[e][k].msg[2] <= sending[e][2]
    <3>1. CASE e # c
      BY <1>4, <2>1, <3>1 DEF InOrder, Ascending
    <3>2. CASE e = c
      <4>1. PICK h \in DOMAIN up[c] : h = k + 1 /\ up'[c][k] = up[c][h]
        BY <1>8, <2>1, <3>2
      <4>2. \A l \in DOMAIN up'[c] : k <= l => up[c][h].msg[2] <= up'[c][l].msg[2]
        <5>1. SUFFICES ASSUME NEW l \in DOMAIN up'[c], k <= l
                       PROVE  up[c][h].msg[2] <= up'[c][l].msg[2]
          OBVIOUS
        <5>2. l + 1 \in DOMAIN up[c] /\ h <= l + 1 /\ up'[c][l] = up[c][l + 1]
          <6>1. k \in 1 .. n - 1 /\ l \in 1 .. n - 1
            BY <1>4, <2>1, <3>2, <5>1
          <6>2. h <= l + 1
            BY <1>3, <4>1, <5>1, <6>1
          <6>3. QED
            BY <1>8, <5>1, <6>2
        <5>3. QED
          BY <1>4, <5>2, ZenonT(40) DEF InOrder, Ascending
      <4>3. sending[c] # NoMessage => up[c][h].msg[2] <= sending[c][2]
        BY <1>4 DEF InOrder, Ascending
      <4>4. QED
        BY <3>2, <4>1, <4>2, <4>3
    <3>3. QED
      BY <3>1, <3>2
  <2>2. ASSUME NEW j \in Slots, Carries(j)'
        PROVE  Ahead(th[j].msg[1], th[j].msg[2])'
    <3>1. PICK e, x : e \in Clients /\ e = th'[j].msg[1] /\ x = th'[j].msg[2] /\ Ahead(e, x)
      <4>1. CASE j = i
        BY <1>4, <1>13, <4>1, ZenonT(40)
      <4>2. CASE j # i
        BY <1>14, <2>2, <4>2, StreamNumbers, MessageTypes DEF InOrder, Ascending
      <4>3. QED
        BY <4>1, <4>2
    <3>2. Ahead(e, x)'
      BY <1>12, <3>1
    <3>3. QED
      BY <3>1, <3>2 DEF Ahead
  <2>3. ASSUME NEW d \in Clients, NEW k \in DOMAIN down[d]
        PROVE  Ahead(down[d][k].msg[1], down[d][k].msg[2])'
    <3>1. PICK e, x : e \in Clients /\ e = down[d][k].msg[1] /\ x = down[d][k].msg[2]
      BY StreamNumbers, MessageTypes
    <3>2. Ahead(e, x)
      BY <3>1 DEF InOrder, Ascending
    <3>3. Ahead(e, x)'
      BY <1>12, <3>1, <3>2
    <3>4. QED
      BY <1>1, <3>1, <3>3 DEF Ahead
  <2>4. \A d \in Clients : \A k \in DOMAIN down'[d] : Ahead(down[d][k].msg[1], down[d][k].msg[2])'
    BY <1>1, <2>3
  <2>5. ASSUME NEW d \in Clients, NEW k \in DOMAIN down[d], NEW j \in Slots,
               Carries(j)', th'[j].msg[1] = down[d][k].msg[1]
        PROVE  down[d][k].msg[2] <= th'[j].msg[2]
    <3>1. CASE j = i
      <4>1. Ahead(c, down[d][k].msg[2])
        BY <1>4, <2>5, <3>1 DEF InOrder, Ascending
      <4>2. QED
        BY <1>4, <1>5, <3>1, <4>1, ZenonT(40) DEF Ahead
    <3>2. CASE j # i
      BY <1>14, <2>5, <3>2 DEF InOrder, Ascending
    <3>3. QED
      BY <3>1, <3>2
  <2>6. QED
    BY <1>1, <2>1, <2>2, <2>4, <2>5 DEF Ascending
<1>16. SenderOrder'
  <2>1. \A j \in Slots : Carries(j)' => th'[j].msg # NoMessage
    BY <1>4, <1>14, StreamNumbers DEF InOrder, SenderOrder
  <2>2. QED
    BY <1>1, <2>1 DEF InOrder, SenderOrder
<1>17. QED
  BY <1>9, <1>11, <1>15, <1>16 DEF InOrder

(* The only thread that carries messages of a sender has its latest one. *)
LEMMA WriteInOrder ==
  ASSUME ServerInv, TogetherInv, ~Left, InOrder, ~SharedId, NEW i \in Slots,
         WriteHead(i) \/ WriteBody(i)
  PROVE  InOrder'
<1>1. UNCHANGED <<tab, sending, up>> /\ Writing(i)
  BY WriteDoes
<1>2. PICK c, p : WritesPiece(i, c, p)
  BY WriteDoes
<1>3. PICK m : m = th[i].msg
  OBVIOUS
<1>4. Carries(i) /\ Running(i) /\ m \in Messages /\ m[2] \in Nat
  BY <1>1, <1>3, StreamNumbers DEF Carries, Running, Writing
<1>5. /\ c \in Clients /\ p.msg = m /\ Gets(c, p)
      /\ \A j \in Slots \ {i} : th'[j] = th[j]
      /\ th[i].pc \in {"write1", "write2"} /\ th'[i].pc \in {"write2", "dist"}
      /\ th'[i].msg = th[i].msg
  BY <1>2, <1>3 DEF WritesPiece
<1>6. \A e \in Clients : \A k \in DOMAIN down'[e] :
        \/ k \in DOMAIN down[e] /\ down'[e][k] = down[e][k]
        \/ e = c /\ k = Len(down[c]) + 1 /\ down'[e][k] = p
  BY <1>5 DEF Gets
<1>7. \A j \in Slots : /\ th'[j].msg = th[j].msg
                       /\ Carries(j)' <=> Carries(j)
                       /\ \A e \in Clients : Reads(j, e)' <=> Reads(j, e)
  BY <1>1, <1>5 DEF Carries, Reads
<1>8. Framed' /\ Resumed'
  <2>1. Framed'
    BY <1>1 DEF InOrder, Framed
  <2>2. Resumed'
    BY <1>1, <1>7 DEF InOrder, Resumed
  <2>3. QED
    BY <2>1, <2>2
<1>9. ASSUME NEW j \in Slots, Carries(j), th[j].msg[1] = m[1]
      PROVE  j = i
  <2>1. SUFFICES ASSUME j # i PROVE SharedId
    OBVIOUS
  <2>2. Running(j)
    BY <1>9 DEF Carries, Running
  <2>3. tab[th[j].sd] = m[1] /\ tab[th[i].sd] = m[1] /\ m[1] \in Clients
    BY <1>3, <1>4, <1>9, MessageTypes DEF TogetherInv, ReadsOwn
  <2>4. th[i].sd \in Fds /\ th[j].sd \in Fds
    BY DEF ServerInv, TypeOK, ThreadStates
  <2>5. th[i].sd = th[j].sd
    BY <2>3, <2>4 DEF ServerInv, TableOK
  <2>6. QED
    BY <1>4, <2>1, <2>2, <2>5 DEF SharedId
<1>10. \A e, x : Ahead(e, x) => Ahead(e, x)'
  BY <1>1 DEF Ahead
<1>11. Ascending'
  <2>1. \A e \in Clients : \A k \in DOMAIN up'[e] :
          /\ \A l \in DOMAIN up'[e] : k <= l => up'[e][k].msg[2] <= up'[e][l].msg[2]
          /\ sending'[e] # NoMessage => up'[e][k].msg[2] <= sending'[e][2]
    BY <1>1 DEF InOrder, Ascending
  <2>2. ASSUME NEW j \in Slots, Carries(j)'
        PROVE  Ahead(th[j].msg[1], th[j].msg[2])'
    <3>1. PICK e, x : e = th[j].msg[1] /\ x = th[j].msg[2]
      OBVIOUS
    <3>2. Ahead(e, x)
      BY <1>7, <2>2, <3>1 DEF InOrder, Ascending
    <3>3. QED
      BY <1>7, <1>10, <3>1, <3>2 DEF Ahead
  <2>3. ASSUME NEW e \in Clients, NEW k \in DOMAIN down'[e]
        PROVE  Ahead(down[e][k].msg[1], down[e][k].msg[2])'
    <3>1. PICK d, x : d = down'[e][k].msg[1] /\ x = down'[e][k].msg[2]
      OBVIOUS
    <3>2. Ahead(d, x)
      <4>1. CASE k \in DOMAIN down[e] /\ down'[e][k] = down[e][k]
        BY <3>1, <4>1 DEF InOrder, Ascending
      <4>2. CASE down'[e][k] = p
        BY <1>3, <1>4, <1>5, <3>1, <4>2 DEF InOrder, Ascending
      <4>3. QED
        BY <1>6, <2>3, <4>1, <4>2
    <3>3. QED
      BY <1>10, <3>1, <3>2 DEF Ahead
  <2>4. ASSUME NEW e \in Clients, NEW k \in DOMAIN down'[e], NEW j \in Slots,
               Carries(j), th[j].msg[1] = down'[e][k].msg[1]
        PROVE  down'[e][k].msg[2] <= th[j].msg[2]
    <3>1. CASE k \in DOMAIN down[e] /\ down'[e][k] = down[e][k]
      BY <2>4, <3>1 DEF InOrder, Ascending
    <3>2. CASE down'[e][k] = p
      <4>1. j = i
        BY <1>5, <1>9, <2>4, <3>2
      <4>2. QED
        BY <1>3, <1>4, <1>5, <3>2, <4>1
    <3>3. QED
      BY <1>6, <2>4, <3>1, <3>2
  <2>5. \A e \in Clients : \A k \in DOMAIN down'[e] : \A j \in Slots :
          Carries(j)' /\ th'[j].msg[1] = down'[e][k].msg[1] =>
            down'[e][k].msg[2] <= th'[j].msg[2]
    BY <1>7, <2>4
  <2>6. QED
    BY <2>1, <2>2, <2>3, <2>5 DEF Ascending
<1>12. SenderOrder'
  <2>1. \A j \in Slots : Carries(j)' => th'[j].msg # NoMessage
    BY <1>7 DEF InOrder, SenderOrder
  <2>2. ASSUME NEW e \in Clients, NEW k \in DOMAIN down'[e], NEW l \in DOMAIN down'[e],
               k < l, down'[e][k].msg[1] = down'[e][l].msg[1]
        PROVE  down'[e][k].msg[2] <= down'[e][l].msg[2]
    <3>1. k \in DOMAIN down[e] /\ down'[e][k] = down[e][k]
      <4>1. CASE e # c
        BY <1>6, <2>2, <4>1
      <4>2. CASE e = c
        <5>1. PICK n \in Nat : /\ n = Len(down[c]) /\ DOMAIN down'[c] = 1 .. n + 1
                               /\ DOMAIN down[c] = 1 .. n
                               /\ \A h \in 1 .. n : down'[c][h] = down[c][h]
          BY <1>5 DEF Gets
        <5>2. k \in 1 .. n + 1 /\ l \in 1 .. n + 1
          BY <2>2, <4>2, <5>1
        <5>3. k \in 1 .. n
          BY <2>2, <5>2
        <5>4. QED
          BY <4>2, <5>1, <5>3
      <4>3. QED
        BY <4>1, <4>2
    <3>2. CASE l \in DOMAIN down[e] /\ down'[e][l] = down[e][l]
      BY <2>2, <3>1, <3>2 DEF InOrder, SenderOrder
    <3>3. CASE down'[e][l] = p
      BY <1>3, <1>4, <1>5, <2>2, <3>1, <3>3 DEF InOrder, Ascending
    <3>4. QED
      BY <1>6, <2>2, <3>2, <3>3
  <2>3. QED
    BY <2>1, <2>2 DEF SenderOrder
<1>13. QED
  BY <1>8, <1>11, <1>12 DEF InOrder

(* Every step keeps the order until a client leaves or a number is shared. *)
LEMMA StepInOrder ==
  ASSUME ServerInv, TogetherInv, InOrder, Next, ~Left', ~SharedId'
  PROVE  InOrder'
<1>1. ~Left /\ ~SharedId
  BY StayedTogether, StaysShared
<1>2. ASSUME NEW i \in Slots, Service(i)
      PROVE  InOrder'
  <2>1. th[i] \in ThreadStates
    BY DEF ServerInv, TypeOK
  <2>2. ~ReadEnd(i)
    BY <1>1, <2>1, NamesAssumption DEF ReadEnd, Left, ThreadStates
  <2>3. ~CloseNext(i)
    BY DEF CloseNext, TogetherInv, ReadsOwn
  <2>4. CASE ReadFails(i) \/ PrintFails(i) \/ WriteFails(i)
    BY <1>1, <2>4, EndingDies, StillOnward, OnwardInOrder DEF Dies, mainVars, clientVars, streamVars
  <2>5. ~ReadTorn(i)
    BY <1>1, NoTorn
  <2>6. QED
    BY <1>1, <1>2, <2>2, <2>3, <2>4, <2>5, ReadInOrder, WriteInOrder,
       MovesOnward, OnwardInOrder DEF Service
<1>3. ASSUME NEW c \in Clients, Client(c)
      PROVE  InOrder'
  <2>1. CASE Connect(c) \/ Receive(c)
    BY <1>1, <2>1, StillOnward, OnwardInOrder DEF Connect, Receive, mainVars, clientVars
  <2>2. ~Leave(c)
    BY DEF Leave, Left, ServerInv, TypeOK
  <2>3. QED
    BY <1>1, <1>3, <2>1, <2>2, SendInOrder DEF Client
<1>4. CASE Fail
  BY <1>1, <1>4, EndingDies, StillOnward, OnwardInOrder DEF Dies, mainVars, clientVars, streamVars
<1>5. QED
  BY <1>1, <1>2, <1>3, <1>4, MainOnward, OnwardInOrder DEF Next

(* It holds when the server starts. *)
LEMMA InitInOrder == Init => InOrder
<1>1. SUFFICES ASSUME Init PROVE InOrder
  OBVIOUS
<1>2. /\ \A s \in Slots : th[s].pc = "none"
      /\ \A c \in Clients : /\ up[c] = <<>> /\ DOMAIN up[c] = {} /\ DOMAIN down[c] = {}
                            /\ sending[c] = NoMessage
  BY <1>1 DEF Init, Thread
<1>3. Framed /\ Resumed
  BY <1>2 DEF Framed, Resumed, Reads
<1>4. Ascending /\ SenderOrder
  BY <1>2 DEF Ascending, Carries, SenderOrder
<1>5. QED
  BY <1>3, <1>4 DEF InOrder

LEMMA StillChat ==
  ASSUME ChatInv, UNCHANGED vars
  PROVE  ChatInv'
<1>1. ServerInv'
  BY StepServerInv DEF ChatInv
<1>2. (Left' <=> Left) /\ (SharedId' <=> SharedId)
  BY DEF Left, SharedId, Running, vars, mainVars, clientVars, streamVars
<1>3. ASSUME ~Left, ~SharedId
      PROVE  TogetherInv' /\ InOrder'
  <2>1. ServerInv /\ TogetherInv /\ InOrder
    BY <1>3 DEF ChatInv
  <2>2. Onward
    BY <2>1, StillOnward DEF vars, mainVars, clientVars, streamVars
  <2>3. QED
    BY <1>3, <2>1, <2>2, OnwardTogether, OnwardInOrder
<1>4. QED
  BY <1>1, <1>2, <1>3 DEF ChatInv

------------------------------------------------------------------------------
(* While no client has left and no two threads read for one client, every  *)
(* slot has its client, every message is in one place and has reached the  *)
(* clients before "to", halves are being completed, each read resumes its  *)
(* frame, and the numbers of a sender only rise.                           *)
THEOREM ChatInvariance == Spec => []ChatInv
<1>1. Init => ChatInv
  BY InitServerInv, InitTogether, InitInOrder DEF ChatInv
<1>2. ASSUME ChatInv, Next
      PROVE  ChatInv'
  <2>1. ServerInv'
    BY <1>2, StepServerInv DEF ChatInv
  <2>2. ASSUME ~Left', ~SharedId'
        PROVE  TogetherInv' /\ InOrder'
    <3>1. ~Left /\ ~SharedId
      BY <1>2, <2>2, StayedTogether, StaysShared DEF ChatInv
    <3>2. QED
      BY <1>2, <2>2, <3>1, StepTogether, StepInOrder DEF ChatInv
  <2>3. QED
    BY <2>1, <2>2 DEF ChatInv
<1>3. QED
  BY <1>1, <1>2, StillChat, PTL DEF Spec

(* What the server writes to a client are whole messages of the others,    *)
(* each once, as long as no client has left: from then on a thread may     *)
(* close a descriptor that is not its own, and print to a client.          *)
THEOREM WholeUntilOneLeaves == Spec => [](~Left => WholeOnce)
<1>1. ChatInv => (~Left => WholeOnce)
  <2>1. SUFFICES ASSUME ChatInv, ~Left, ~SharedId
                 PROVE  /\ \A c \in Clients : \A k \in DOMAIN down[c] :
                             down[c][k].msg # NoMessage
                        /\ WellFramed
                        /\ NoEchoNoDuplicate
    BY DEF WholeOnce
  <2>2. ServerInv /\ TogetherInv
    BY <2>1 DEF ChatInv
  <2>3. \A c \in Clients : \A k \in DOMAIN down[c] : down[c][k].msg # NoMessage
    BY <2>2, StreamNumbers
  <2>4. QED
    BY <2>2, <2>3 DEF TogetherInv
<1>2. QED
  BY <1>1, ChatInvariance, PTL

(* Each client gets the messages of another one in the order in which they *)
(* were sent, and no frame is torn, as long as no client has left.         *)
THEOREM OrderUntilOneLeaves == Spec => [](~Left => SenderOrder)
<1>1. ChatInv => (~Left => SenderOrder)
  BY DEF ChatInv, InOrder, SenderOrder
<1>2. QED
  BY <1>1, ChatInvariance, PTL

(* With --encrypted, each client gets a message under as many encryptions  *)
(* as the loop has made for it and for the clients before it: all but the  *)
(* first of them under one too many for their one decrypt().               *)
THEOREM CopiesStayLayered == Spec => []CopiesLayered
<1>1. ASSUME ServerInv, NEW r \in Slots, NEW s \in Slots
      PROVE  Layers(r, s) = Depth(r, s)
  <2>1. r \in Nat /\ s \in Nat
    BY <1>1, Sizes
  <2>2. IsFiniteSet(0 .. s) /\ Cardinality(0 .. s) = s + 1
    <3>1. IsFiniteSet(0 .. s) /\ Cardinality(0 .. s) = IF 0 > s THEN 0 ELSE s - 0 + 1
      BY <2>1, FS_Interval
    <3>2. QED
      BY <2>1, <3>1
  <2>3. Cardinality((0 .. s) \ {r}) = IF r \in 0 .. s THEN (s + 1) - 1 ELSE s + 1
    BY <2>2, FS_RemoveElement
  <2>4. QED
    BY <2>1, <2>3 DEF Layers, Depth
<1>2. ASSUME ChatInv
      PROVE  CopiesLayered
  <2>1. SUFFICES ASSUME Encrypted, ~SharedId, ~Left,
                        NEW r \in 0 .. noClient - 1, NEW s \in 0 .. noClient - 1,
                        NEW k \in DOMAIN down[tab[newsd[s]]],
                        down[tab[newsd[s]]][k].msg[1] = tab[newsd[r]]
                 PROVE  down[tab[newsd[s]]][k].depth = Layers(r, s)
    BY DEF CopiesLayered
  <2>2. ServerInv /\ TogetherInv
    BY <1>2, <2>1 DEF ChatInv
  <2>3. r \in Slots /\ s \in Slots /\ Taken(r) /\ Taken(s)
    BY <2>2, Sizes DEF ServerInv, TypeOK, Taken, Slots
  <2>4. PICK c \in Clients : c = tab[newsd[s]]
    BY <2>2, <2>3 DEF TogetherInv, SlotsConnected
  <2>5. HasDepth(c, down[c][k])
    BY <2>1, <2>2, <2>4 DEF TogetherInv, Layered
  <2>6. PICK q, t \in Slots :
          /\ Taken(q) /\ Taken(t) /\ tab[newsd[t]] = c /\ tab[newsd[q]] = tab[newsd[r]]
          /\ down[c][k].depth = Depth(q, t)
    BY <2>1, <2>4, <2>5 DEF HasDepth
  <2>7. \A u, v \in Slots : Taken(u) /\ Taken(v) /\ tab[newsd[u]] = tab[newsd[v]] => u = v
    BY <2>2 DEF ServerInv, TypeOK, TableOK, TogetherInv, SlotsConnected
  <2>8. q = r /\ t = s
    BY <2>3, <2>4, <2>6, <2>7
  <2>9. QED
    BY <1>1, <2>2, <2>3, <2>4, <2>6, <2>8
<1>3. QED
  BY <1>2, ChatInvariance, PTL

(* A message that leaves forward() is complete at every client counted by  *)
(* then, whoever connects in the meantime.                                 *)
LEMMA EndsComplete ==
  ASSUME ServerInv, TogetherInv, [Next]_vars, NEW i \in Slots,
         th[i].pc = "dist", th'[i].pc = "head"
  PROVE  Complete(i)
<1>1. th \in [Slots -> ThreadStates] /\ th[i] \in ThreadStates
  BY DEF ServerInv, TypeOK
<1>2. \A j \in Slots : \A r : th' = [th EXCEPT ![j] = r] => j = i /\ r.pc = "head"
  BY <1>1
<1>3. th' # th
  OBVIOUS
<1>4. ~Main
  <2>1. noClient \in Slots
    BY DEF ServerInv, TypeOK
  <2>2. QED
    BY <1>2, <1>3, <2>1 DEF Main, Accept, Spawn, Count, Thread
<1>5. PICK j \in Slots : Service(j)
  BY <1>3, <1>4, EndingDies DEF Next, vars, Client, Connect, SendHead, SendBody, Send, Receive,
     Leave, Dies
<1>6. \E r : th' = [th EXCEPT ![j] = r]
  BY <1>3, <1>5, EndingDies DEF Service, Set, Start, EnterRead, ReadPiece, ReadAs, ReadTorn,
     ReadEnd, PrintMessage, SkipSelf, Acquire, StartWrite, EndDistribution, WriteHead, WriteBody,
     CloseNext, Dies
<1>7. EndDistribution(i)
  <2>1. j = i
    BY <1>2, <1>6
  <2>2. ~SkipSelf(i) /\ ~Acquire(i)
    <3>1. CASE SkipSelf(i)
      <4>1. th' = [th EXCEPT ![i] = [th[i] EXCEPT !.to = @ + 1]]
        BY <3>1 DEF SkipSelf, Set
      <4>2. th'[i].pc = "dist"
        BY <1>1, <4>1 DEF ThreadStates
      <4>3. QED
        BY <4>2
    <3>2. CASE Acquire(i)
      <4>1. \E d : th' = [th EXCEPT ![i] = [th[i] EXCEPT !.pc = "write1", !.depth = d]]
        BY <3>2, Zenon DEF Acquire, StartWrite, Set
      <4>2. th'[i].pc = "write1"
        BY <1>1, <4>1 DEF ThreadStates
      <4>3. QED
        BY <4>2
    <3>3. QED
      BY <3>1, <3>2
  <2>3. th[i].ref = None
    BY DEF ServerInv, ThreadsOK, ThreadOK
  <2>4. QED
    BY <1>3, <1>5, <2>1, <2>2, <2>3, EndingDies DEF Service, Start, EnterRead, ReadPiece, ReadAs,
       ReadTorn, ReadEnd, PrintMessage, EndDistribution, WriteHead, WriteBody, CloseNext, Dies
<1>8. th[i].to >= noClient /\ Carries(i) /\ Forwards(i)
  BY <1>7 DEF EndDistribution, Carries, Forwards
<1>9. QED
  <2>1. SUFFICES ASSUME NEW s \in 0 .. noClient - 1, s # th[i].id
                 PROVE  HasMessage(s, th[i].msg)
    BY DEF Complete
  <2>2. s \in Slots /\ s < th[i].to
    BY <1>1, <1>8, <2>1, Sizes DEF ServerInv, TypeOK, ThreadStates, Slots
  <2>3. QED
    BY <1>8, <2>1, <2>2 DEF TogetherInv, Forwarded

(* No other step than that of a client that leaves breaks a connection.    *)
LEMMA NobodyLeaves ==
  ASSUME Leavers = {}, ServerInv, ~Left, [Next]_vars
  PROVE  ~Left'
<1>1. \A c \in Clients : conn[c] \in {"none", "open"}
  BY DEF ServerInv, TypeOK, Left
<1>2. SUFFICES \A c \in Clients : conn'[c] \in {"none", "open"}
  BY DEF Left
<1>3. CASE UNCHANGED conn
  BY <1>1, <1>3
<1>4. ASSUME NEW c, NEW p, Put(c, p)
      PROVE  \A e \in Clients : conn'[e] \in {"none", "open"}
  BY <1>1, <1>4 DEF Put, ServerInv, TypeOK
<1>5. ASSUME NEW c \in Clients, Client(c)
      PROVE  \A e \in Clients : conn'[e] \in {"none", "open"}
  BY <1>1, <1>5 DEF Client, Connect, SendHead, SendBody, Send, Receive, Leave, ServerInv, TypeOK
<1>6. ASSUME NEW i \in Slots, Service(i), ~UNCHANGED conn
      PROVE  \E c, p : Put(c, p)
  BY <1>6, EndingDies DEF Service, Start, EnterRead, ReadPiece, ReadAs, ReadTorn, ReadEnd,
     PrintMessage, SkipSelf, Acquire, StartWrite, EndDistribution, WriteHead, WriteBody,
     WritePiece, CloseNext, Dies, streamVars
<1>7. Main \/ Fail => UNCHANGED conn
  BY EndingDies DEF Main, Accept, Spawn, Count, Dies, streamVars
<1>8. QED
  BY <1>3, <1>4, <1>5, <1>6, <1>7 DEF Next, vars, streamVars

(* Whole messages, once, for as long as the server runs, where clients do  *)
(* not leave and each thread has taken a number of its own.                *)
THEOREM WholeWhereNobodyLeaves ==
  ASSUME Leavers = {}
  PROVE  Spec => []WholeOnce
<1>1. Init => ServerInv /\ ~Left
  BY InitServerInv DEF Init, Left
<1>2. ServerInv /\ ~Left /\ [Next]_vars => (ServerInv /\ ~Left)'
  BY StepServerInv, NobodyLeaves
<1>3. QED
  BY <1>1, <1>2, WholeUntilOneLeaves, PTL DEF Spec

(* The same for the order of what one client has sent.                     *)
THEOREM OrderWhereNobodyLeaves ==
  ASSUME Leavers = {}
  PROVE  Spec => []SenderOrder
<1>1. Init => ServerInv /\ ~Left
  BY InitServerInv DEF Init, Left
<1>2. ServerInv /\ ~Left /\ [Next]_vars => (ServerInv /\ ~Left)'
  BY StepServerInv, NobodyLeaves
<1>3. QED
  BY <1>1, <1>2, OrderUntilOneLeaves, PTL DEF Spec

(* forward() has reached every client counted when its loop ends, where    *)
(* clients do not leave and each thread has taken a number of its own.     *)
THEOREM DistributionIsComplete ==
  ASSUME Leavers = {}
  PROVE  Spec => DistributionComplete
<1>1. Init => ServerInv /\ ~Left
  BY InitServerInv DEF Init, Left
<1>2. ServerInv /\ ~Left /\ [Next]_vars => (ServerInv /\ ~Left)'
  BY StepServerInv, NobodyLeaves
<1>3. ChatInv /\ ~Left /\ [Next]_vars =>
        [~SharedId =>
           \A i \in Slots : th[i].pc = "dist" /\ th'[i].pc = "head" => Complete(i)]_vars
  BY EndsComplete DEF ChatInv
<1>4. QED
  BY <1>1, <1>2, <1>3, ChatInvariance, PTL DEF Spec, DistributionComplete

(* The server ends by a read or a write that fails, or by a size that      *)
(* makes no sense, only after a client has left or two threads have taken  *)
(* one number.                                                             *)
THEOREM EndsOnlyForReason == Spec => []EndsForReason
<1>1. Init => EndsForReason
  BY DEF Init, EndsForReason
<1>2. ASSUME ChatInv, EndsForReason, Next
      PROVE  EndsForReason'
  <2>1. SUFFICES ASSUME ~Left', ~SharedId'
                 PROVE  ended' \notin {"reset", "closed", "garbage"}
    BY DEF EndsForReason
  <2>2. ServerInv /\ ~Left /\ ~SharedId
    BY <1>2, <2>1, StayedTogether, StaysShared DEF ChatInv
  <2>3. TogetherInv /\ InOrder
    BY <1>2, <2>2 DEF ChatInv
  <2>4. ended = "no"
    BY <1>2 DEF Next, Main, Service, Client, Fail
  <2>5. /\ \A c \in Clients : conn[c] # "rst"
        /\ \A s \in Slots : Taken(s) => tab[newsd[s]] \in Clients /\ tab[newsd[s]] # "free"
        /\ tab[0] = "tty"
    BY <2>2, <2>3, NamesAssumption DEF Left, TogetherInv, SlotsConnected
  <2>6. ASSUME NEW i \in Slots
        PROVE  ~ReadFails(i) /\ ~PrintFails(i) /\ ~WriteFails(i) /\ ~GarbageFails(i)
    <3>1. ~ReadFails(i)
      <4>1. th[i].pc \in {"head", "body"} => tab[th[i].sd] # "free"
        BY <2>2, <2>3, <2>5, RunningSlots DEF TogetherInv, Running
      <4>2. th[i].ref # None => th[i].ref \in Clients
        BY <2>2 DEF ServerInv, TypeOK, ThreadStates
      <4>3. QED
        BY <2>5, <4>1, <4>2 DEF ReadFails
    <3>2. ~PrintFails(i)
      BY <2>5, NamesAssumption DEF PrintFails, WriteBreaks
    <3>3. ~WriteFails(i)
      <4>1. th[i].pc \in {"write1", "write2"} => th[i].to \in Slots /\ Taken(th[i].to)
        BY <2>2, <2>3, Target DEF Writing
      <4>2. QED
        BY <2>5, <4>1 DEF WriteFails, WriteBreaks
    <3>4. ~GarbageFails(i)
      <4>1. Carries(i) => th[i].msg # NoMessage
        BY <2>2, <2>3 DEF InOrder, SenderOrder
      <4>2. QED
        BY <4>1 DEF GarbageFails, Carries
    <3>5. QED
      BY <3>1, <3>2, <3>3, <3>4
  <2>7. CASE Fail
    BY <2>6, <2>7 DEF Fail, AcceptFails, OutOfMemory, CryptoFails, Fails, Exit
  <2>8. CASE UNCHANGED ended
    BY <2>4, <2>8
  <2>9. QED
    BY <1>2, <2>6, <2>7, <2>8 DEF Next, Main, Service, Client
<1>3. EndsForReason /\ UNCHANGED vars => EndsForReason'
  BY DEF EndsForReason, Left, SharedId, Running, vars, mainVars, clientVars, streamVars
<1>4. QED
  BY <1>1, <1>2, <1>3, ChatInvariance, PTL DEF Spec
==============================================================================
