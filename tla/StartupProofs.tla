---------------------------- MODULE StartupProofs ----------------------------
(***************************************************************************)
(* Proofs about Startup, for every number of clients and servers, every    *)
(* order of addresses and whatever the socket tables hold at first: who is *)
(* connected to whom, what is thrown away by reading once, and what meets  *)
(* a strategy that is not there yet.                                       *)
(***************************************************************************)
EXTENDS Startup, TLAPS, FiniteSetTheorems, SequenceTheorems, WellFoundedInduction

-----------------------------------------------------------------------------
(***************************************************************************)
(* The inductive invariants.                                               *)
(***************************************************************************)

\* A message of type t is in the stream q, or t waits in the backlog q.
Has(q, t) == \E k \in 1 .. Len(q) : q[k] = t

\* Nobody is twice in q.
Once(q) == \A i, j \in 1 .. Len(q) : q[i] = q[j] => i = j

\* The types, and what they rest on: no client connects to itself.
TInv ==
  /\ TypeOK
  /\ \A c \in Clients : ~Has(backlog[c], c)

\* c has connected to s; s has greeted c.
Reached(c, s) ==
  \/ step[c] \in {"greetings", "enquire", "enquiring", "generate", "ready", "crashed"}
  \/ step[c] = "servers" /\ s < next[c]

Greeted(c, s) ==
  \/ step[c] \in {"enquire", "enquiring", "generate", "ready", "crashed"}
  \/ step[c] = "greetings" /\ s < next[c]

\* c says nothing to s before it connects, one thing while it waits to be
\* accepted, and goes on after s has made a thread for it and greeted it.
Visit(c, s) ==
  /\ ~Reached(c, s) =>
       /\ to_server[c][s] = <<>>
       /\ threads[s][c] = <<>>
       /\ ~Has(server_backlog[s], c)
  /\ Has(server_backlog[s], c) =>
       /\ to_server[c][s] = <<"echo">>
       /\ threads[s][c] = <<>>
  /\ threads[s][c] = <<>> =>
       /\ to_client[s][c] = <<>>
       /\ ~Greeted(c, s)
  /\ Len(threads[s][c]) <= 1

VInv ==
  /\ \A s \in Servers : Once(server_backlog[s])
  /\ \A c \in Clients, s \in Servers : Visit(c, s)

\* Whoever may meet a request for a lock has made the strategies.
Prepared(c) ==
  \/ enquiry_thread[c] # "reading"
  \/ server_done_enquiry_request[c]
  \/ step[c] \in {"generate", "ready"}
  \/ treated[c] # {}
  => critical_section_alg_init[c]

PInv == \A c \in Clients : Prepared(c)

\* c is through with the other clients; c has asked for the list of files.
Past(c) == step[c] \notin {"down", "listening", "waiting", "peers"}
Enquired(c) == step[c] \in {"enquiring", "generate", "ready", "crashed"}

\* What c and s say to each other.
Talk(c, s) ==
  /\ \A t \in MessageType : Has(to_server[c][s], t) =>
       t = "echo" \/ (t = "enquiry" /\ Enquired(c))
  /\ \A t \in MessageType : Has(to_client[s][c], t) =>
       t = "echo" \/ (t = "files" /\ Enquired(c))
  /\ server_client_sockfd[s][c] \in {None, Garbage} \/ Past(c)

SomePrepared == \E c \in Clients : critical_section_alg_init[c]

\* What clients say to each other.
Wires ==
  \A k \in Connections, d \in Clients : \A t \in MessageType :
    Has(wire[k][d], t) => t = "echo" \/ (t = "lock" /\ SomePrepared)

\* Somebody has the answer to ENQUIRY, or is about to get it.
Opened ==
  \/ \E c \in Clients, s \in Servers : Has(to_client[s][c], "files")
  \/ SomePrepared

\* By then everybody is through with the other clients.
Gate == answered_early \/ (Opened => \A c \in Clients : Past(c))

GInv ==
  /\ \A c \in Clients, s \in Servers : Talk(c, s)
  /\ Wires
  /\ Gate
  /\ ForgetsOnlyEchoes

\* c connects to d.
Lower(c, d) == address[c] < address[d]

\* c's loop has gone past d.
Passed(c, d) == Past(c) \/ (step[c] = "peers" /\ d < next[c])

\* c has a socket for d, or d waits in c's backlog, if the loop of the one that
\* connects has gone past the other.
Linked(c, d) ==
  /\ client_sockfd[c][d] \in {None, <<c, d>>, <<d, c>>}
  /\ client_sockfd[c][d] = <<c, d>> <=> Lower(c, d) /\ Passed(c, d)
  /\ client_sockfd[c][d] = <<d, c>> \/ Has(backlog[c], d) <=> Lower(d, c) /\ Passed(d, c)
  /\ client_sockfd[c][d] = <<d, c>> => ~Has(backlog[c], d)
  /\ Past(c) => client_sockfd[c][d] # None

\* The clients that c has accepted, and those for which it should have.
Accepted(c) == {d \in Clients \ {c} : client_sockfd[c][d] = <<d, c>>}
Awaited(c) == {d \in Clients \ {c} : Lower(d, c) /\ Passed(c, d)}

\* They are as many.
Counted(c) ==
  Past(c) \/ /\ IsFiniteSet(Accepted(c)) /\ IsFiniteSet(Awaited(c))
             /\ Cardinality(Accepted(c)) = Cardinality(Awaited(c))

\* Nobody goes through its peers before all nodes listen.
Early(c) == step[c] \in {"down", "listening", "waiting"}

Timely(c) == IF Early(c) THEN next[c] = 0 ELSE AllStarted

LInv ==
  /\ \A c \in Clients : Timely(c) /\ Counted(c) /\ Once(backlog[c])
  /\ \A c, d \in Clients : c # d => Linked(c, d)

-----------------------------------------------------------------------------
(***************************************************************************)
(* Streams, backlogs and the least of some ids.                            *)
(***************************************************************************)

\* Nothing is in an empty stream.
LEMMA HasNone == \A t : ~Has(<<>>, t)
BY EmptySeq DEF Has

\* What is in a stream after a send; nobody is in a backlog twice who was not.
LEMMA HasAppend ==
  ASSUME NEW S, NEW q \in Seq(S), NEW m \in S
  PROVE  /\ Append(q, m) \in Seq(S)
         /\ \A t : Has(Append(q, m), t) <=> Has(q, t) \/ t = m
         /\ Once(q) /\ ~Has(q, m) => Once(Append(q, m))
<1>1. /\ Append(q, m) \in Seq(S)
      /\ Len(Append(q, m)) = Len(q) + 1
      /\ \A i \in 1 .. Len(q) : Append(q, m)[i] = q[i]
      /\ Append(q, m)[Len(q) + 1] = m
  BY AppendProperties
<1>2. Len(q) \in Nat
  BY LenProperties
<1>3. \A i : i \in 1 .. Len(q) + 1 <=> i \in 1 .. Len(q) \/ i = Len(q) + 1
  BY <1>2
<1>4. \A t : Has(Append(q, m), t) <=> Has(q, t) \/ t = m
  BY <1>1, <1>3 DEF Has
<1>5. Once(q) /\ ~Has(q, m) => Once(Append(q, m))
  BY <1>1, <1>2, <1>3 DEF Once, Has
<1> QED
  BY <1>1, <1>4, <1>5

\* What is in a stream after the first is taken.
LEMMA HasTail ==
  ASSUME NEW S, NEW q \in Seq(S), q # <<>>
  PROVE  /\ Head(q) \in S /\ Tail(q) \in Seq(S)
         /\ Has(q, Head(q))
         /\ \A t : Has(q, t) <=> Has(Tail(q), t) \/ t = Head(q)
         /\ Once(q) => Once(Tail(q)) /\ ~Has(Tail(q), Head(q))
<1>1. /\ Head(q) \in S /\ Tail(q) \in Seq(S)
      /\ Len(Tail(q)) = Len(q) - 1
      /\ \A i \in 1 .. Len(Tail(q)) : Tail(q)[i] = q[i + 1]
  BY HeadTailProperties
<1>2. Len(q) \in Nat /\ Len(q) > 0 /\ Head(q) = q[1]
  BY LenProperties, EmptySeq
<1>3. \A i \in 1 .. Len(q) : i = 1 \/ i - 1 \in 1 .. Len(Tail(q))
  BY <1>1, <1>2
<1>4. \A i \in 1 .. Len(q) : i # 1 => Tail(q)[i - 1] = q[i]
  BY <1>1, <1>2, <1>3
<1>5. \A i \in 1 .. Len(Tail(q)) : i + 1 \in 1 .. Len(q) /\ i + 1 # 1
  BY <1>1, <1>2
<1>6. \A t : Has(q, t) <=> Has(Tail(q), t) \/ t = Head(q)
  <2>1. ASSUME NEW t, Has(q, t) PROVE Has(Tail(q), t) \/ t = Head(q)
    BY <1>2, <1>3, <1>4, <2>1 DEF Has
  <2>2. ASSUME NEW t, Has(Tail(q), t) PROVE Has(q, t)
    BY <1>1, <1>5, <2>2 DEF Has
  <2>3. Has(q, Head(q))
    BY <1>2 DEF Has
  <2> QED
    BY <2>1, <2>2, <2>3
<1>7. ASSUME Once(q) PROVE Once(Tail(q)) /\ ~Has(Tail(q), Head(q))
  <2>1. \A i, j \in 1 .. Len(Tail(q)) : Tail(q)[i] = Tail(q)[j] => i = j
    <3> SUFFICES ASSUME NEW i \in 1 .. Len(Tail(q)), NEW j \in 1 .. Len(Tail(q)),
                        Tail(q)[i] = Tail(q)[j]
                 PROVE  i = j
      OBVIOUS
    <3>1. q[i + 1] = q[j + 1] /\ i + 1 \in 1 .. Len(q) /\ j + 1 \in 1 .. Len(q)
      BY <1>1, <1>5
    <3>2. i + 1 = j + 1
      BY <1>7, <3>1 DEF Once
    <3> QED
      BY <1>1, <1>2, <3>2
  <2>2. ASSUME NEW i \in 1 .. Len(Tail(q)), Tail(q)[i] = Head(q) PROVE FALSE
    <3>1. q[i + 1] = q[1] /\ i + 1 \in 1 .. Len(q) /\ 1 \in 1 .. Len(q)
      BY <1>1, <1>2, <1>5, <2>2
    <3>2. i + 1 = 1
      BY <1>7, <3>1 DEF Once
    <3> QED
      BY <1>5, <3>2
  <2> QED
    BY <2>1, <2>2 DEF Once, Has
<1> QED
  BY <1>1, <1>6, <1>7

\* What is left of a stream when read() has returned n packets, and what is not
\* looked at, was in it.
LEMMA HasRest ==
  ASSUME NEW S, NEW q \in Seq(S), NEW n \in 1 .. Len(q)
  PROVE  /\ q # <<>> /\ Head(q) \in S /\ Has(q, Head(q))
         /\ SubSeq(q, n + 1, Len(q)) \in Seq(S)
         /\ \A t : Has(SubSeq(q, n + 1, Len(q)), t) => Has(q, t)
         /\ n = Len(q) => SubSeq(q, n + 1, Len(q)) = <<>>
         /\ \A t \in Unseen(q, n) : Has(q, t) /\ t \in S
<1> DEFINE r == SubSeq(q, n + 1, Len(q))
<1>1. Len(q) \in Nat /\ n \in Nat /\ n > 0 /\ n <= Len(q)
  BY LenProperties
<1>2. \A i \in 1 .. Len(q) : q[i] \in S
  BY ElementOfSeq
<1>3. \A i \in n + 1 .. Len(q) : q[i] \in S
  BY <1>1, <1>2
<1>4. /\ r \in Seq(S)
      /\ Len(r) = IF n + 1 <= Len(q) THEN Len(q) - (n + 1) + 1 ELSE 0
      /\ \A i \in 1 .. Len(q) - (n + 1) + 1 : r[i] = q[n + 1 + i - 1]
  <2>1. n + 1 \in Int /\ Len(q) \in Int
    BY <1>1
  <2> QED
    BY <1>3, <2>1, SubSeqProperties
<1>5. \A i \in 1 .. Len(r) : n + i \in 1 .. Len(q) /\ r[i] = q[n + i]
  <2> SUFFICES ASSUME NEW i \in 1 .. Len(r)
               PROVE  n + i \in 1 .. Len(q) /\ r[i] = q[n + i]
    OBVIOUS
  <2>1. i \in 1 .. Len(q) - (n + 1) + 1 /\ n + i \in 1 .. Len(q)
    BY <1>1, <1>4
  <2>2. n + 1 + i - 1 = n + i
    BY <1>1
  <2> QED
    BY <1>4, <2>1, <2>2
<1>6. \A t : Has(r, t) => Has(q, t)
  BY <1>5 DEF Has
<1>7. n = Len(q) => r = <<>>
  <2>1. n = Len(q) => Len(r) = 0
    BY <1>1, <1>4
  <2> HIDE DEF r
  <2> QED
    BY <1>4, <2>1, EmptySeq
<1>8. q # <<>> /\ Head(q) \in S /\ Has(q, Head(q))
  <2>1. q # <<>>
    BY <1>1, EmptySeq
  <2> QED
    BY <2>1, HasTail
<1>9. \A t \in Unseen(q, n) : Has(q, t) /\ t \in S
  <2>1. \A i \in 2 .. n : i \in 1 .. Len(q)
    BY <1>1
  <2> QED
    BY <1>2, <2>1 DEF Unseen, Has
<1> QED
  BY <1>4, <1>6, <1>7, <1>8, <1>9

\* A set of ids has a least one.
LEMMA LeastId ==
  ASSUME NEW S \in SUBSET Nat, S # {}
  PROVE  Min(S) \in S /\ \A x \in S : Min(S) <= x
<1> DEFINE R == {ss \in Nat \X Nat : ss[1] < ss[2]}
<1>1. R = OpToRel(<, Nat)
  BY DEF OpToRel
<1>2. IsWellFoundedOn(R, Nat)
  BY <1>1, NatLessThanWellFounded
<1>3. PICK x \in S : \A y \in S : <<y, x>> \notin R
  <2> HIDE DEF R
  <2> QED
    BY <1>2, WFMin
<1>4. ASSUME NEW y \in S PROVE x <= y
  <2>1. x \in Nat /\ y \in Nat
    OBVIOUS
  <2>2. <<y, x>> \notin R
    BY <1>3
  <2>3. ~(y < x)
    BY <2>1, <2>2
  <2> QED
    BY <2>1, <2>3
<1>5. \E z \in S : \A y \in S : z <= y
  BY <1>4
<1> QED
  BY <1>5 DEF Min

-----------------------------------------------------------------------------
(***************************************************************************)
(* The loops over the ids.                                                 *)
(***************************************************************************)

\* The next peer is another client, and the loop goes past nobody else.
LEMMA PeerLemma ==
  ASSUME TypeOK, NEW c \in Clients, PeersLeft(c) # {}
  PROVE  /\ Peer(c) \in Clients /\ Peer(c) # c
         /\ Peer(c) \in Nat /\ Peer(c) >= next[c]
         /\ \A e \in Clients \ {c} : e < Peer(c) + 1 <=> e < next[c] \/ e = Peer(c)
<1>1. next[c] \in Nat /\ Clients \subseteq Nat
  BY IdsAssumption DEF TypeOK
<1>2. PeersLeft(c) \in SUBSET Nat
  BY <1>1 DEF PeersLeft
<1>3. Peer(c) \in PeersLeft(c) /\ \A x \in PeersLeft(c) : Peer(c) <= x
  BY <1>2, LeastId DEF Peer
<1>4. Peer(c) \in Clients /\ Peer(c) # c /\ Peer(c) \in Nat /\ Peer(c) >= next[c]
  BY <1>1, <1>3 DEF PeersLeft
<1>5. ASSUME NEW e \in Clients \ {c}
      PROVE  e < Peer(c) + 1 <=> e < next[c] \/ e = Peer(c)
  <2>1. e \in Nat
    BY <1>1
  <2>2. e >= next[c] => Peer(c) <= e
    BY <1>3 DEF PeersLeft
  <2> QED
    BY <1>1, <1>4, <2>1, <2>2
<1> QED
  BY <1>4, <1>5

\* The loop over the servers is at a server, and goes past no other.
LEMMA ServerLemma ==
  ASSUME TypeOK, NEW c \in Clients, next[c] \in Servers, NEW after \in Steps,
         NextServer(c, after)
  PROVE  /\ step' \in [Clients -> Steps] /\ next' \in [Clients -> Nat]
         /\ next'[c] \in Servers
         /\ \A d \in Clients \ {c} : step'[d] = step[d] /\ next'[d] = next[d]
         /\ \/ step'[c] = after /\ \A s \in Servers : s <= next[c]
            \/ /\ step'[c] = step[c]
               /\ \A s \in Servers : s < next'[c] <=> s < next[c] \/ s = next[c]
         /\ \A s \in Servers : ~(s < Min(Servers))
         /\ step'[c] = after => next'[c] = Min(Servers) \/ step[c] = after
<1> DEFINE left == {s \in Servers : s > next[c]}
<1>1. /\ step' = [step EXCEPT ![c] = IF left = {} THEN after ELSE step[c]]
      /\ next' = [next EXCEPT ![c] = Min(IF left = {} THEN Servers ELSE left)]
  BY DEF NextServer
<1>2. Servers \in SUBSET Nat /\ Servers # {} /\ left \in SUBSET Nat
  BY IdsAssumption, SomeServer
<1>3. Min(Servers) \in Servers /\ \A s \in Servers : Min(Servers) <= s
  BY <1>2, LeastId
<1>4. left # {} => Min(left) \in left /\ \A s \in left : Min(left) <= s
  BY <1>2, LeastId
<1>5. step \in [Clients -> Steps] /\ next \in [Clients -> Nat]
  BY DEF TypeOK
<1>6. /\ step'[c] = IF left = {} THEN after ELSE step[c]
      /\ next'[c] = IF left = {} THEN Min(Servers) ELSE Min(left)
  BY <1>1, <1>5
<1>7. next'[c] \in Servers
  BY <1>3, <1>4, <1>6
<1>8. step' \in [Clients -> Steps]
  BY <1>1, <1>5
<1>9. next' \in [Clients -> Nat]
  <2>1. Min(IF left = {} THEN Servers ELSE left) \in Nat
    BY <1>2, <1>3, <1>4
  <2> QED
    BY <1>1, <1>5, <2>1
<1>10. \A d \in Clients \ {c} : step'[d] = step[d] /\ next'[d] = next[d]
  BY <1>1, <1>5
<1>11. \A s \in Servers : ~(s < Min(Servers))
  <2> SUFFICES ASSUME NEW s \in Servers PROVE ~(s < Min(Servers))
    OBVIOUS
  <2>1. s \in Nat /\ Min(Servers) \in Nat /\ Min(Servers) <= s
    BY <1>2, <1>3
  <2> QED
    BY <2>1
<1>12. CASE left = {}
  <2>1. \A s \in Servers : s <= next[c]
    BY <1>2, <1>5, <1>12
  <2> QED
    BY <1>6, <1>7, <1>8, <1>9, <1>10, <1>11, <1>12, <2>1
<1>13. CASE left # {}
  <2>1. ASSUME NEW s \in Servers
        PROVE  s < Min(left) <=> s < next[c] \/ s = next[c]
    <3>1. s \in Nat /\ Min(left) \in Nat /\ Min(left) > next[c] /\ next[c] \in Nat
      BY <1>2, <1>4, <1>5, <1>13
    <3>2. s > next[c] => Min(left) <= s
      BY <1>4, <1>13
    <3> QED
      BY <3>1, <3>2
  <2> QED
    BY <1>6, <1>7, <1>8, <1>9, <1>10, <1>11, <1>13, <2>1
<1> QED
  BY <1>12, <1>13

\* What is on the wires after a message to several clients.
LEMMA SendLemma ==
  ASSUME TypeOK, NEW sockfd, NEW dests, NEW t \in MessageType,
         NEW w, w = SendToClients(sockfd, dests, t)
  PROVE  /\ w \in [Connections -> [Clients -> Seq(MessageType)]]
         /\ \A k \in Connections, d \in Clients :
              w[k][d] = IF d \in dests /\ sockfd[d] = k
                        THEN Append(wire[k][d], t) ELSE wire[k][d]
         /\ \A k \in Connections, d \in Clients, u \in MessageType :
              Has(w[k][d], u) => Has(wire[k][d], u) \/ u = t
<1>1. \A k \in Connections, d \in Clients : wire[k][d] \in Seq(MessageType)
  BY DEF TypeOK
<1>2. \A k \in Connections, d \in Clients : Append(wire[k][d], t) \in Seq(MessageType)
  BY <1>1, HasAppend
<1>3. w \in [Connections -> [Clients -> Seq(MessageType)]]
  BY <1>1, <1>2 DEF SendToClients
<1>4. \A k \in Connections, d \in Clients :
        w[k][d] = IF d \in dests /\ sockfd[d] = k
                  THEN Append(wire[k][d], t) ELSE wire[k][d]
  BY DEF SendToClients
<1>5. \A k \in Connections, d \in Clients, u \in MessageType :
        Has(w[k][d], u) => Has(wire[k][d], u) \/ u = t
  BY <1>1, <1>4, HasAppend
<1> QED
  BY <1>3, <1>4, <1>5

-----------------------------------------------------------------------------
(***************************************************************************)
(* Type correctness.                                                       *)
(***************************************************************************)

\* The types hold at first.
LEMMA TypeInit == Init => TInv
<1> SUFFICES ASSUME Init PROVE TInv
  OBVIOUS
<1>1. \A s \in Servers : server_client_sockfd[s] \in [Clients -> {None, Garbage}]
  BY MemoryAssumption DEF Init
<1>2. server_client_sockfd \in [Servers -> [Clients -> {None, Garbage}]]
  BY <1>1 DEF Init
<1>3. server_client_sockfd \in
        [Servers -> [Clients -> {None, Garbage} \union {<<c>> : c \in Clients}]]
  BY <1>2
<1>4. /\ <<>> \in Seq(Clients) /\ <<>> \in Seq(MessageType)
      /\ <<>> \in Seq({"greeting", "serving"})
  BY EmptySeq
<1>5. \A c \in Clients : ~Has(backlog[c], c)
  BY HasNone DEF Init
<1> QED
  BY <1>3, <1>4, <1>5 DEF Init, TypeOK, TInv, Steps

\* A table keeps its type when one entry does.
LEMMA UpdateType ==
  ASSUME NEW A, NEW B, NEW S, NEW f \in [A -> [B -> S]],
         NEW a \in A, NEW b \in B, NEW v \in S
  PROVE  [f EXCEPT ![a][b] = v] \in [A -> [B -> S]]
OBVIOUS

\* A main thread that takes a step outside the loop over the servers.
LEMMA StepType ==
  ASSUME TypeOK, NEW c \in Clients, NEW to \in Steps \ {"servers", "greetings"},
         step' = [step EXCEPT ![c] = to], next' = next
  PROVE  /\ step' \in [Clients -> Steps]
         /\ next' \in [Clients -> Nat]
         /\ \A d \in Clients : step'[d] \in {"servers", "greetings"} => next'[d] \in Servers
BY DEF TypeOK

\* Reading list_files is such a step.
LEMMA ReadsType ==
  ASSUME TypeOK, NEW c \in Clients, NEW after \in {"generate", "ready"},
         Reads(c, after), next' = next
  PROVE  /\ step' \in [Clients -> Steps]
         /\ next' \in [Clients -> Nat]
         /\ \A d \in Clients : step'[d] \in {"servers", "greetings"} => next'[d] \in Servers
<1>1. PICK outcome \in {after, "crashed"} : step' = [step EXCEPT ![c] = outcome]
  BY DEF Reads
<1> QED
  BY <1>1, StepType DEF Steps

\* Every block of a main thread of a client keeps the types.
LEMMA TypeMain ==
  ASSUME TInv, NEW c \in Clients, MainThread(c)
  PROVE  TInv'
<1>1. TypeOK /\ \A d \in Clients : ~Has(backlog[d], d)
  BY DEF TInv
<1>2. CASE StartServerSocket(c)
  BY <1>1, <1>2, StepType
  DEF StartServerSocket, TInv, TypeOK, enquiry, peers, server, streams, history, Steps
<1>3. CASE WriteLine(c)
  BY <1>1, <1>3, StepType
  DEF WriteLine, TInv, TypeOK, enquiry, peers, server, streams, history, Steps
<1>4. CASE WaitForAllNodes(c)
  BY <1>1, <1>4, StepType
  DEF WaitForAllNodes, TInv, TypeOK, enquiry, peers, server, streams, history, Steps
<1>5. CASE ConnectToOtherClient(c)
  <2> DEFINE d == Peer(c)
  <2>1. d \in Clients /\ d # c /\ d \in Nat
    BY <1>1, <1>5, PeerLemma DEF ConnectToOtherClient
  <2> HIDE DEF d
  <2>2. /\ client_sockfd' = [client_sockfd EXCEPT
               ![c][d] = IF Listening(d) THEN <<c, d>> ELSE Failed]
        /\ backlog' = [backlog EXCEPT
               ![d] = IF Listening(d) THEN Append(backlog[d], c) ELSE backlog[d]]
        /\ wire' = SendToClients(client_sockfd'[c], {d}, "echo")
        /\ next' = [next EXCEPT ![c] = d + 1]
        /\ step[c] = "peers"
        /\ UNCHANGED <<address, step, enquiry, server, streams, history>>
    BY <1>5 DEF ConnectToOtherClient, d
  <2>3. <<c, d>> \in Connections
    BY <2>1 DEF Connections
  <2>4. client_sockfd' \in [Clients -> [Clients -> Connections \union {None, Failed}]]
    BY <1>1, <2>1, <2>2, <2>3 DEF TypeOK
  <2>5. backlog[d] \in Seq(Clients)
    BY <1>1, <2>1 DEF TypeOK
  <2>6. /\ Append(backlog[d], c) \in Seq(Clients)
        /\ ~Has(Append(backlog[d], c), d)
    BY <1>1, <2>1, <2>5, HasAppend
  <2>7. backlog' \in [Clients -> Seq(Clients)]
    BY <1>1, <2>1, <2>2, <2>5, <2>6 DEF TypeOK
  <2>8. \A e \in Clients : ~Has(backlog'[e], e)
    <3>1. \A e \in Clients : e # d => backlog'[e] = backlog[e]
      BY <1>1, <2>2 DEF TypeOK
    <3>2. backlog'[d] \in {Append(backlog[d], c), backlog[d]}
      BY <1>1, <2>1, <2>2 DEF TypeOK
    <3> QED
      BY <1>1, <2>6, <3>1, <3>2
  <2>9. wire' \in [Connections -> [Clients -> Seq(MessageType)]]
    BY <1>1, <2>2, SendLemma DEF MessageType
  <2>10. /\ next' \in [Clients -> Nat]
         /\ \A e \in Clients : step'[e] \in {"servers", "greetings"} => next'[e] \in Servers
    BY <1>1, <2>1, <2>2 DEF TypeOK
  <2> QED
    BY <1>1, <2>2, <2>4, <2>7, <2>8, <2>9, <2>10
    DEF TInv, TypeOK, enquiry, server, streams, history
<1>6. CASE AcceptOtherClient(c)
  <2> DEFINE e == Head(backlog[c])
             k == <<e, c>>
  <2>1. /\ Peer(c) \in Nat
        /\ backlog[c] \in Seq(Clients) /\ backlog[c] # <<>>
    BY <1>1, <1>6, PeerLemma DEF AcceptOtherClient, TypeOK
  <2>2. /\ e \in Clients /\ Has(backlog[c], e) /\ Tail(backlog[c]) \in Seq(Clients)
        /\ \A t : Has(Tail(backlog[c]), t) => Has(backlog[c], t)
    BY <2>1, HasTail
  <2>3. e # c
    BY <1>1, <2>2
  <2>4. k \in Connections
    BY <2>2, <2>3 DEF Connections
  <2>5. wire[k][c] \in Seq(MessageType)
    BY <1>1, <2>4 DEF TypeOK
  <2>6. PICK n \in 1 .. Len(wire[k][c]) :
          /\ wire' = [wire EXCEPT ![k][c] = SubSeq(@, n + 1, Len(@))]
          /\ forgotten' = [forgotten EXCEPT ![c] = @ \union Unseen(wire[k][c], n)]
          /\ client_sockfd' = [client_sockfd EXCEPT ![c][e] = k]
    BY <1>6 DEF AcceptOtherClient, RealClientId
  <2>7. /\ backlog' = [backlog EXCEPT ![c] = Tail(backlog[c])]
        /\ next' = [next EXCEPT ![c] = Peer(c) + 1]
        /\ step[c] = "peers"
        /\ UNCHANGED <<address, step, enquiry, server, streams, treated, answered_early>>
    BY <1>6 DEF AcceptOtherClient
  <2> HIDE DEF e, k
  <2>8. wire' \in [Connections -> [Clients -> Seq(MessageType)]]
    <3>1. SubSeq(wire[k][c], n + 1, Len(wire[k][c])) \in Seq(MessageType)
      BY <2>5, HasRest
    <3>2. wire' = [wire EXCEPT ![k][c] = SubSeq(wire[k][c], n + 1, Len(wire[k][c]))]
      BY <2>6
    <3> QED
      BY <1>1, <2>4, <3>1, <3>2 DEF TypeOK
  <2>9. forgotten' \in [Clients -> SUBSET MessageType]
    <3>1. Unseen(wire[k][c], n) \subseteq MessageType
      BY <2>5, HasRest
    <3> QED
      BY <1>1, <2>6, <3>1 DEF TypeOK
  <2>10. client_sockfd' \in [Clients -> [Clients -> Connections \union {None, Failed}]]
    BY <1>1, <2>2, <2>4, <2>6 DEF TypeOK
  <2>11. backlog' \in [Clients -> Seq(Clients)]
    BY <1>1, <2>2, <2>7 DEF TypeOK
  <2>12. \A x \in Clients : ~Has(backlog'[x], x)
    <3>1. \A x \in Clients : x # c => backlog'[x] = backlog[x]
      BY <1>1, <2>7 DEF TypeOK
    <3>2. backlog'[c] = Tail(backlog[c])
      BY <1>1, <2>7 DEF TypeOK
    <3> QED
      BY <1>1, <2>2, <3>1, <3>2
  <2>13. /\ next' \in [Clients -> Nat]
         /\ \A x \in Clients : step'[x] \in {"servers", "greetings"} => next'[x] \in Servers
    <3> DEFINE p == Peer(c)
    <3>1. p + 1 \in Nat /\ next' = [next EXCEPT ![c] = p + 1]
      BY <2>1, <2>7
    <3> HIDE DEF p
    <3> QED
      BY <1>1, <2>7, <3>1 DEF TypeOK
  <2> QED
    BY <1>1, <2>7, <2>8, <2>9, <2>10, <2>11, <2>12, <2>13
    DEF TInv, TypeOK, enquiry, server, streams
<1>7. CASE TestClientsCommunicate(c)
  <2>1. wire' \in [Connections -> [Clients -> Seq(MessageType)]]
    BY <1>1, <1>7, SendLemma DEF TestClientsCommunicate, MessageType
  <2>2. Min(Servers) \in Servers /\ Min(Servers) \in Nat
    BY IdsAssumption, SomeServer, LeastId
  <2>3. /\ step' \in [Clients -> Steps] /\ next' \in [Clients -> Nat]
        /\ \A d \in Clients : step'[d] \in {"servers", "greetings"} => next'[d] \in Servers
    BY <1>1, <1>7, <2>2 DEF TestClientsCommunicate, TypeOK, Steps
  <2> QED
    BY <1>1, <1>7, <2>1, <2>3
    DEF TestClientsCommunicate, TInv, TypeOK, enquiry, server, streams, history
<1>8. CASE ConnectToServer(c)
  <2> DEFINE s == next[c]
  <2>1. s \in Servers
    BY <1>1, <1>8 DEF ConnectToServer, TypeOK
  <2>2. NextServer(c, "greetings") /\ step[c] = "servers"
    BY <1>8 DEF ConnectToServer
  <2>3. /\ step' \in [Clients -> Steps] /\ next' \in [Clients -> Nat]
        /\ \A d \in Clients : step'[d] \in {"servers", "greetings"} => next'[d] \in Servers
    <3>1. /\ step' \in [Clients -> Steps] /\ next' \in [Clients -> Nat]
          /\ next'[c] \in Servers
          /\ \A d \in Clients \ {c} : step'[d] = step[d] /\ next'[d] = next[d]
      BY <1>1, <2>1, <2>2, ServerLemma DEF Steps
    <3> QED
      BY <1>1, <3>1 DEF TypeOK
  <2>4. /\ server_backlog[s] \in Seq(Clients) /\ to_server[c][s] \in Seq(MessageType)
        /\ Append(server_backlog[s], c) \in Seq(Clients)
        /\ Append(to_server[c][s], "echo") \in Seq(MessageType)
    BY <1>1, <2>1, HasAppend DEF TypeOK, MessageType
  <2>5. /\ \/ /\ server_backlog' = [server_backlog EXCEPT ![s] = Append(server_backlog[s], c)]
              /\ to_server' = [to_server EXCEPT ![c][s] = Append(to_server[c][s], "echo")]
           \/ UNCHANGED <<server_backlog, to_server>>
        /\ UNCHANGED <<address, enquiry, peers, serving, server_client_sockfd,
                       threads, to_client, history>>
    BY <1>8 DEF ConnectToServer
  <2> HIDE DEF s
  <2>6. server_backlog' \in [Servers -> Seq(Clients)]
    BY <1>1, <2>1, <2>4, <2>5 DEF TypeOK
  <2>7. to_server' \in [Clients -> [Servers -> Seq(MessageType)]]
    <3>1. to_server \in [Clients -> [Servers -> Seq(MessageType)]]
      BY <1>1 DEF TypeOK
    <3>2. [to_server EXCEPT ![c][s] = Append(to_server[c][s], "echo")]
            \in [Clients -> [Servers -> Seq(MessageType)]]
      BY <2>1, <2>4, <3>1, UpdateType
    <3> QED
      BY <2>5, <3>1, <3>2
  <2> QED
    BY <1>1, <2>3, <2>5, <2>6, <2>7 DEF TInv, TypeOK, enquiry, peers, history
<1>9. CASE TestServerCommunicate(c)
  <2> DEFINE s == next[c]
  <2>1. s \in Servers
    BY <1>1, <1>9 DEF TestServerCommunicate, TypeOK
  <2>2. NextServer(c, "enquire") /\ step[c] = "greetings"
    BY <1>9 DEF TestServerCommunicate
  <2>3. /\ step' \in [Clients -> Steps] /\ next' \in [Clients -> Nat]
        /\ \A d \in Clients : step'[d] \in {"servers", "greetings"} => next'[d] \in Servers
    <3>1. /\ step' \in [Clients -> Steps] /\ next' \in [Clients -> Nat]
          /\ next'[c] \in Servers
          /\ \A d \in Clients \ {c} : step'[d] = step[d] /\ next'[d] = next[d]
      BY <1>1, <2>1, <2>2, ServerLemma DEF Steps
    <3> QED
      BY <1>1, <3>1 DEF TypeOK
  <2>4. PICK n \in 1 .. Len(to_client[s][c]) :
          /\ to_client' = [to_client EXCEPT ![s][c] = SubSeq(@, n + 1, Len(@))]
          /\ forgotten' = [forgotten EXCEPT ![c] = @ \union Unseen(to_client[s][c], n)]
          /\ to_server' = [to_server EXCEPT
               ![c][s] = IF Head(to_client[s][c]) = "echo" THEN Append(@, "echo") ELSE @]
    BY <1>9 DEF TestServerCommunicate
  <2>5. UNCHANGED <<address, enquiry, peers, server, treated, answered_early>>
    BY <1>9 DEF TestServerCommunicate
  <2>6. /\ to_client[s][c] \in Seq(MessageType) /\ to_server[c][s] \in Seq(MessageType)
        /\ Append(to_server[c][s], "echo") \in Seq(MessageType)
    BY <1>1, <2>1, HasAppend DEF TypeOK, MessageType
  <2> HIDE DEF s
  <2>7. to_client' \in [Servers -> [Clients -> Seq(MessageType)]]
    <3>1. SubSeq(to_client[s][c], n + 1, Len(to_client[s][c])) \in Seq(MessageType)
      BY <2>6, HasRest
    <3>2. to_client' = [to_client EXCEPT
            ![s][c] = SubSeq(to_client[s][c], n + 1, Len(to_client[s][c]))]
      BY <2>4
    <3> QED
      BY <1>1, <2>1, <3>1, <3>2 DEF TypeOK
  <2>8. forgotten' \in [Clients -> SUBSET MessageType]
    <3>1. Unseen(to_client[s][c], n) \subseteq MessageType
      BY <2>6, HasRest
    <3> QED
      BY <1>1, <2>4, <3>1 DEF TypeOK
  <2>9. to_server' \in [Clients -> [Servers -> Seq(MessageType)]]
    <3>1. PICK q \in {Append(to_server[c][s], "echo"), to_server[c][s]} :
            to_server' = [to_server EXCEPT ![c][s] = q]
      BY <2>4
    <3>2. to_server \in [Clients -> [Servers -> Seq(MessageType)]]
      BY <1>1 DEF TypeOK
    <3>3. q \in Seq(MessageType)
      BY <2>6, <3>1
    <3>4. [to_server EXCEPT ![c][s] = q] \in [Clients -> [Servers -> Seq(MessageType)]]
      BY <2>1, <3>2, <3>3, UpdateType
    <3> QED
      BY <3>1, <3>4
  <2> QED
    BY <1>1, <2>3, <2>5, <2>7, <2>8, <2>9 DEF TInv, TypeOK, enquiry, peers, server
<1>10. CASE EnquireListOfHostedFiles(c)
  <2>1. PICK s \in Servers : to_server' = [to_server EXCEPT ![c][s] = Append(@, "enquiry")]
    BY <1>10 DEF EnquireListOfHostedFiles
  <2>2. /\ to_server[c][s] \in Seq(MessageType)
        /\ Append(to_server[c][s], "enquiry") \in Seq(MessageType)
    BY <1>1, HasAppend DEF TypeOK, MessageType
  <2>3. to_server' \in [Clients -> [Servers -> Seq(MessageType)]]
    BY <1>1, <2>1, <2>2 DEF TypeOK
  <2>4. /\ step' \in [Clients -> Steps] /\ next' \in [Clients -> Nat]
        /\ \A d \in Clients : step'[d] \in {"servers", "greetings"} => next'[d] \in Servers
    BY <1>1, <1>10, StepType DEF EnquireListOfHostedFiles, Steps
  <2> QED
    BY <1>1, <1>10, <2>3, <2>4
    DEF EnquireListOfHostedFiles, TInv, TypeOK, peers, server, history
<1>11. CASE SeeListFiles(c)
  <2>1. /\ step' \in [Clients -> Steps] /\ next' \in [Clients -> Nat]
        /\ \A d \in Clients : step'[d] \in {"servers", "greetings"} => next'[d] \in Servers
    BY <1>1, <1>11, ReadsType DEF SeeListFiles
  <2> QED
    BY <1>1, <1>11, <2>1
    DEF SeeListFiles, TInv, TypeOK, enquiry, peers, server, streams, history
<1>12. CASE RequestFirst(c)
  <2>1. /\ step' \in [Clients -> Steps] /\ next' \in [Clients -> Nat]
        /\ \A d \in Clients : step'[d] \in {"servers", "greetings"} => next'[d] \in Servers
    BY <1>1, <1>12, ReadsType DEF RequestFirst
  <2>2. wire' \in [Connections -> [Clients -> Seq(MessageType)]]
    <3>1. \/ wire' = SendToClients(client_sockfd[c], Clients \ {c}, "lock")
          \/ wire' = wire
      BY <1>12 DEF RequestFirst
    <3>2. "lock" \in MessageType
      BY DEF MessageType
    <3>3. SendToClients(client_sockfd[c], Clients \ {c}, "lock")
            \in [Connections -> [Clients -> Seq(MessageType)]]
      BY <1>1, <3>2, SendLemma
    <3> QED
      BY <1>1, <3>1, <3>3 DEF TypeOK
  <2> QED
    BY <1>1, <1>12, <2>1, <2>2
    DEF RequestFirst, TInv, TypeOK, enquiry, server, streams, history
<1> QED
  BY <1>2, <1>3, <1>4, <1>5, <1>6, <1>7, <1>8, <1>9, <1>10, <1>11, <1>12 DEF MainThread

\* So does the thread that receives the list of files.
LEMMA TypeEnquiry ==
  ASSUME TInv, NEW c \in Clients, EnquiryThread(c)
  PROVE  TInv'
<1>1. TypeOK /\ \A d \in Clients : ~Has(backlog[d], d)
  BY DEF TInv
<1>2. CASE ReceiveEnquireResult(c)
  <2>1. PICK s \in Servers :
          /\ to_client[s][c] # <<>>
          /\ to_client' = [to_client EXCEPT ![s][c] = Tail(to_client[s][c])]
    BY <1>2 DEF ReceiveEnquireResult
  <2>2. to_client[s][c] \in Seq(MessageType)
    BY <1>1 DEF TypeOK
  <2>3. Tail(to_client[s][c]) \in Seq(MessageType)
    BY <2>1, <2>2, HasTail
  <2>4. to_client' \in [Servers -> [Clients -> Seq(MessageType)]]
    BY <1>1, <2>1, <2>3 DEF TypeOK
  <2> QED
    BY <1>1, <1>2, <2>4 DEF ReceiveEnquireResult, TInv, TypeOK, main, peers, server, history
<1>3. CASE SetEnquiryDone(c)
  BY <1>1, <1>3 DEF SetEnquiryDone, TInv, TypeOK, main, peers, server, streams, history
<1>4. CASE AssignListFiles(c)
  BY <1>1, <1>4 DEF AssignListFiles, TInv, TypeOK, main, peers, server, streams, history
<1> QED
  BY <1>2, <1>3, <1>4 DEF EnquiryThread

\* And a thread for the messages of another client.
LEMMA TypeHandle ==
  ASSUME TInv, NEW c \in Clients, NEW d \in Clients, HandleClientMessages(c, d)
  PROVE  TInv'
<1>1. TypeOK /\ \A e \in Clients : ~Has(backlog[e], e)
  BY DEF TInv
<1> DEFINE k == client_sockfd[c][d]
<1>2. /\ k \in Connections
      /\ wire' = [wire EXCEPT ![k][c] = <<>>]
      /\ UNCHANGED <<address, main, enquiry, client_sockfd, backlog, server,
                     streams, forgotten, answered_early>>
  BY DEF HandleClientMessages
<1>3. PICK new \in {treated[c] \union {d}, treated[c]} :
        treated' = [treated EXCEPT ![c] = new]
  BY DEF HandleClientMessages
<1> HIDE DEF k
<1>4. <<>> \in Seq(MessageType)
  BY EmptySeq
<1>5. wire' \in [Connections -> [Clients -> Seq(MessageType)]]
  BY <1>1, <1>2, <1>4 DEF TypeOK
<1>6. treated' \in [Clients -> SUBSET Clients]
  <2>1. treated \in [Clients -> SUBSET Clients] /\ new \in SUBSET Clients
    BY <1>1, <1>3 DEF TypeOK
  <2> QED
    BY <1>3, <2>1
<1> QED
  BY <1>1, <1>2, <1>5, <1>6 DEF TInv, TypeOK, main, enquiry, server, streams

\* As many threads as read() returned packets.
LEMMA ThreadsType ==
  ASSUME NEW n \in Nat
  PROVE  /\ [i \in 1 .. n |-> "greeting"] \in Seq({"greeting", "serving"})
         /\ Len([i \in 1 .. n |-> "greeting"]) = n
<1>1. [i \in 1 .. n |-> "greeting"] \in [1 .. n -> {"greeting", "serving"}]
  OBVIOUS
<1>2. [i \in 1 .. n |-> "greeting"] \in Seq({"greeting", "serving"})
  BY <1>1, SeqDef
<1>3. Len([i \in 1 .. n |-> "greeting"]) = n
  BY <1>1, <1>2, LenProperties
<1> QED
  BY <1>2, <1>3

\* s takes the first n messages of c and makes n threads.
Served(s, c) ==
  \E n \in 1 .. Len(to_server[c][s]) : \E new \in Seq({"greeting", "serving"}) :
    /\ Len(new) = Len(threads[s][c]) + n
    /\ threads' = [threads EXCEPT ![s][c] = new]
    /\ to_server' = [to_server EXCEPT
         ![c][s] = SubSeq(to_server[c][s], n + 1, Len(to_server[c][s]))]

\* What serveClients() does with the client at the head of the backlog.
LEMMA ServeLemma ==
  ASSUME TypeOK, NEW s \in Servers, ServeClient(s),
         NEW c, c = Head(server_backlog[s])
  PROVE  /\ c \in Clients /\ Has(server_backlog[s], c)
         /\ server_backlog[s] \in Seq(Clients) /\ server_backlog[s] # <<>>
         /\ server_backlog' = [server_backlog EXCEPT ![s] = Tail(server_backlog[s])]
         /\ server_client_sockfd' = [server_client_sockfd EXCEPT ![s][c] = <<c>>]
         /\ Served(s, c)
         /\ UNCHANGED <<address, main, enquiry, peers, to_client, history>>
         /\ serving[s] = "accepting"
         /\ serving' \in {serving, [serving EXCEPT ![s] = "joining"]}
<1>1. /\ server_backlog[s] \in Seq(Clients) /\ server_backlog[s] # <<>>
      /\ serving[s] = "accepting"
  BY DEF TypeOK, ServeClient
<1>2. c \in Clients /\ Has(server_backlog[s], c)
  BY <1>1, HasTail
<1>3. PICK n \in 1 .. Len(to_server[c][s]) :
        /\ to_server' = [to_server EXCEPT ![c][s] = SubSeq(@, n + 1, Len(@))]
        /\ server_client_sockfd' = [server_client_sockfd EXCEPT ![s][c] = <<c>>]
        /\ threads' = [threads EXCEPT ![s][c] = @ \o [i \in 1 .. n |-> "greeting"]]
  BY DEF ServeClient
<1>4. /\ server_backlog' = [server_backlog EXCEPT ![s] = Tail(server_backlog[s])]
      /\ UNCHANGED <<address, main, enquiry, peers, to_client, history>>
  BY DEF ServeClient
<1>5. serving' \in {serving, [serving EXCEPT ![s] = "joining"]}
  <2>1. \/ serving' = [serving EXCEPT ![s] = "joining"]
        \/ serving' = [serving EXCEPT ![s] = serving[s]]
    BY DEF ServeClient
  <2>2. [serving EXCEPT ![s] = serving[s]] = serving
    BY DEF TypeOK
  <2> QED
    BY <2>1, <2>2
<1>6. threads[s][c] \in Seq({"greeting", "serving"}) /\ to_server[c][s] \in Seq(MessageType)
  BY <1>2 DEF TypeOK
<1>7. n \in Nat
  BY <1>6, LenProperties
<1> DEFINE more == [i \in 1 .. n |-> "greeting"]
           new == threads[s][c] \o more
<1>8. more \in Seq({"greeting", "serving"}) /\ Len(more) = n
  BY <1>7, ThreadsType
<1>9. threads' = [threads EXCEPT ![s][c] = new]
  BY <1>3
<1> HIDE DEF more
<1>10. new \in Seq({"greeting", "serving"}) /\ Len(new) = Len(threads[s][c]) + n
  BY <1>6, <1>8, ConcatProperties
<1>11. to_server' = [to_server EXCEPT
         ![c][s] = SubSeq(to_server[c][s], n + 1, Len(to_server[c][s]))]
  BY <1>3
<1> HIDE DEF new
<1>12. Served(s, c)
  BY <1>3, <1>9, <1>10, <1>11 DEF Served
<1> QED
  BY <1>1, <1>2, <1>3, <1>4, <1>5, <1>12

\* A server's main thread keeps the types.
LEMMA TypeServerMain ==
  ASSUME TInv, NEW s \in Servers, ServerMainThread(s)
  PROVE  TInv'
<1>1. TypeOK /\ \A d \in Clients : ~Has(backlog[d], d)
  BY DEF TInv
<1>2. CASE ServerStarts(s)
  <2>1. serving' \in [Servers -> {"down", "listening", "accepting", "joining"}]
    BY <1>1, <1>2 DEF ServerStarts, TypeOK
  <2> QED
    BY <1>1, <1>2, <2>1
    DEF ServerStarts, TInv, TypeOK, main, enquiry, peers, streams, history
<1>3. CASE ServeClient(s)
  <2> DEFINE c == Head(server_backlog[s])
  <2>1. /\ c \in Clients
        /\ server_backlog[s] \in Seq(Clients) /\ server_backlog[s] # <<>>
        /\ server_backlog' = [server_backlog EXCEPT ![s] = Tail(server_backlog[s])]
        /\ server_client_sockfd' = [server_client_sockfd EXCEPT ![s][c] = <<c>>]
        /\ UNCHANGED <<address, main, enquiry, peers, to_client, history>>
        /\ serving' \in {serving, [serving EXCEPT ![s] = "joining"]}
    BY <1>1, <1>3, ServeLemma
  <2>2. Served(s, c)
    BY <1>1, <1>3, ServeLemma
  <2> HIDE DEF c
  <2>3. PICK n \in 1 .. Len(to_server[c][s]), new \in Seq({"greeting", "serving"}) :
          /\ threads' = [threads EXCEPT ![s][c] = new]
          /\ to_server' = [to_server EXCEPT
               ![c][s] = SubSeq(to_server[c][s], n + 1, Len(to_server[c][s]))]
    BY <2>2 DEF Served
  <2>4. to_server[c][s] \in Seq(MessageType)
    BY <1>1, <2>1 DEF TypeOK
  <2>5. SubSeq(to_server[c][s], n + 1, Len(to_server[c][s])) \in Seq(MessageType)
    BY <2>4, HasRest
  <2>6. to_server' \in [Clients -> [Servers -> Seq(MessageType)]]
    BY <1>1, <2>1, <2>3, <2>5 DEF TypeOK
  <2>7. threads' \in [Servers -> [Clients -> Seq({"greeting", "serving"})]]
    BY <1>1, <2>1, <2>3 DEF TypeOK
  <2>8. server_backlog' \in [Servers -> Seq(Clients)]
    <3>1. Tail(server_backlog[s]) \in Seq(Clients)
      BY <2>1, HasTail
    <3> QED
      BY <1>1, <2>1, <3>1 DEF TypeOK
  <2>9. server_client_sockfd' \in
          [Servers -> [Clients -> {None, Garbage} \union {<<d>> : d \in Clients}]]
    BY <1>1, <2>1 DEF TypeOK
  <2>10. serving' \in [Servers -> {"down", "listening", "accepting", "joining"}]
    BY <1>1, <2>1 DEF TypeOK
  <2> QED
    BY <1>1, <2>1, <2>6, <2>7, <2>8, <2>9, <2>10
    DEF TInv, TypeOK, main, enquiry, peers, history
<1> QED
  BY <1>2, <1>3 DEF ServerMainThread

\* The number of the threads of s for c stays.
SameThreads(s, c) ==
  \E new \in Seq({"greeting", "serving"}) :
    threads' = [threads EXCEPT ![s][c] = new] /\ Len(new) = Len(threads[s][c])

\* What a thread of a server does with the streams of its client.
LEMMA ThreadLemma ==
  ASSUME TypeOK, NEW s \in Servers, NEW c \in Clients, ServerThread(s, c)
  PROVE  /\ threads[s][c] # <<>> /\ SameThreads(s, c)
         /\ UNCHANGED <<address, main, enquiry, peers, serving, server_backlog,
                        server_client_sockfd, treated, forgotten>>
         /\ \/ /\ to_client' = [to_client EXCEPT ![s][c] = Append(to_client[s][c], "echo")]
               /\ UNCHANGED <<to_server, answered_early>>
            \/ /\ AllClientsConnected(s) /\ to_server[c][s] # <<>>
               /\ to_server' = [to_server EXCEPT ![c][s] = Tail(to_server[c][s])]
               /\ \/ /\ Head(to_server[c][s]) = "enquiry"
                     /\ to_client' = [to_client EXCEPT
                          ![s][c] = Append(to_client[s][c], "files")]
                     /\ answered_early' = (answered_early \/ Garbage \in Range(server_client_sockfd[s]))
                  \/ UNCHANGED <<to_client, answered_early>>
<1>1. PICK t \in DOMAIN threads[s][c] : Greet(s, c, t) \/ HandleClientRequest(s, c, t)
  BY DEF ServerThread
<1> DEFINE old == threads[s][c]
<1>2. old \in Seq({"greeting", "serving"})
  BY DEF TypeOK
<1>3. Len(old) \in Nat /\ DOMAIN old = 1 .. Len(old)
  BY <1>2, LenProperties
<1>4. old # <<>>
  <2>1. Len(old) # 0
    BY <1>1, <1>3
  <2> QED
    BY <1>2, <2>1, EmptySeq
<1>5. CASE Greet(s, c, t)
  <2> DEFINE new == [old EXCEPT ![t] = "serving"]
  <2>1. /\ threads' = [threads EXCEPT ![s][c] = new]
        /\ to_client' = [to_client EXCEPT ![s][c] = Append(to_client[s][c], "echo")]
        /\ UNCHANGED <<address, main, enquiry, peers, serving, server_backlog,
                       server_client_sockfd, to_server, history>>
    BY <1>5 DEF Greet, TypeOK
  <2> HIDE DEF old
  <2>2. new \in Seq({"greeting", "serving"}) /\ Len(new) = Len(old)
    BY <1>1, <1>2, <1>3, ExceptSeq DEF old
  <2> HIDE DEF new
  <2>3. SameThreads(s, c)
    BY <2>1, <2>2 DEF SameThreads, old
  <2> QED
    BY <1>4, <2>1, <2>3 DEF old, history
<1>6. CASE HandleClientRequest(s, c, t)
  <2> HIDE DEF old
  <2>1. /\ AllClientsConnected(s) /\ to_server[c][s] # <<>>
        /\ to_server' = [to_server EXCEPT ![c][s] = Tail(to_server[c][s])]
        /\ UNCHANGED <<address, main, enquiry, peers, server, treated, forgotten>>
    BY <1>6 DEF HandleClientRequest
  <2>2. SameThreads(s, c)
    <3>1. threads' = threads
      BY <2>1 DEF server
    <3>2. threads = [threads EXCEPT ![s][c] = threads[s][c]]
      BY DEF TypeOK
    <3> QED
      BY <1>2, <3>1, <3>2 DEF SameThreads, old
  <2>3. CASE Head(to_server[c][s]) = "enquiry"
    <3>1. /\ to_client' = [to_client EXCEPT ![s][c] = Append(to_client[s][c], "files")]
          /\ answered_early' = (answered_early \/ Garbage \in Range(server_client_sockfd[s]))
      BY <1>6, <2>3 DEF HandleClientRequest
    <3> QED
      BY <1>4, <2>1, <2>3, <2>2, <3>1 DEF server, old
  <2>4. CASE Head(to_server[c][s]) # "enquiry"
    <3>1. /\ to_client' = [to_client EXCEPT ![s][c] = to_client[s][c]]
          /\ answered_early' = (answered_early \/ FALSE)
      BY <1>6, <2>4 DEF HandleClientRequest
    <3>2. to_client' = to_client /\ answered_early' = answered_early
      BY <3>1 DEF TypeOK
    <3> QED
      BY <1>4, <2>1, <2>2, <3>2 DEF server, old
  <2> QED
    BY <2>3, <2>4
<1> QED
  BY <1>1, <1>5, <1>6

\* A server's threads keep the types.
LEMMA TypeServerThread ==
  ASSUME TInv, NEW s \in Servers, NEW c \in Clients, ServerThread(s, c)
  PROVE  TInv'
<1>1. TypeOK /\ \A d \in Clients : ~Has(backlog[d], d)
  BY DEF TInv
<1>2. /\ UNCHANGED <<address, main, enquiry, peers, serving, server_backlog,
                     server_client_sockfd, treated, forgotten>>
      /\ to_server[c][s] \in Seq(MessageType) /\ to_client[s][c] \in Seq(MessageType)
  BY <1>1, ThreadLemma DEF TypeOK
<1>3. /\ Append(to_client[s][c], "echo") \in Seq(MessageType)
      /\ Append(to_client[s][c], "files") \in Seq(MessageType)
      /\ to_server[c][s] # <<>> => Tail(to_server[c][s]) \in Seq(MessageType)
  BY <1>2, HasAppend, HasTail DEF MessageType
<1>4. threads' \in [Servers -> [Clients -> Seq({"greeting", "serving"})]]
  <2>1. PICK new \in Seq({"greeting", "serving"}) :
          threads' = [threads EXCEPT ![s][c] = new]
    BY <1>1, ThreadLemma DEF SameThreads
  <2>2. threads \in [Servers -> [Clients -> Seq({"greeting", "serving"})]]
    BY <1>1 DEF TypeOK
  <2> QED
    BY <2>1, <2>2, UpdateType
<1>5. to_server' \in [Clients -> [Servers -> Seq(MessageType)]]
  <2>1. \/ to_server' = to_server
        \/ /\ to_server[c][s] # <<>>
           /\ to_server' = [to_server EXCEPT ![c][s] = Tail(to_server[c][s])]
    BY <1>1, ThreadLemma
  <2>2. to_server \in [Clients -> [Servers -> Seq(MessageType)]]
    BY <1>1 DEF TypeOK
  <2>3. to_server[c][s] # <<>>
        => [to_server EXCEPT ![c][s] = Tail(to_server[c][s])]
             \in [Clients -> [Servers -> Seq(MessageType)]]
    BY <1>3, <2>2, UpdateType
  <2> QED
    BY <2>1, <2>2, <2>3
<1>6. to_client' \in [Servers -> [Clients -> Seq(MessageType)]]
  <2>1. \/ to_client' = to_client
        \/ to_client' = [to_client EXCEPT ![s][c] = Append(to_client[s][c], "echo")]
        \/ to_client' = [to_client EXCEPT ![s][c] = Append(to_client[s][c], "files")]
    BY <1>1, ThreadLemma
  <2>2. to_client \in [Servers -> [Clients -> Seq(MessageType)]]
    BY <1>1 DEF TypeOK
  <2>3. [to_client EXCEPT ![s][c] = Append(to_client[s][c], "echo")]
          \in [Servers -> [Clients -> Seq(MessageType)]]
    BY <1>3, <2>2, UpdateType
  <2>4. [to_client EXCEPT ![s][c] = Append(to_client[s][c], "files")]
          \in [Servers -> [Clients -> Seq(MessageType)]]
    BY <1>3, <2>2, UpdateType
  <2> QED
    BY <2>1, <2>2, <2>3, <2>4
<1>7. answered_early' \in BOOLEAN
  <2>1. \/ answered_early' = answered_early
        \/ answered_early' = (answered_early \/ Garbage \in Range(server_client_sockfd[s]))
    BY <1>1, ThreadLemma
  <2> QED
    BY <1>1, <2>1 DEF TypeOK
<1> QED
  BY <1>1, <1>2, <1>4, <1>5, <1>6, <1>7 DEF TInv, TypeOK, main, enquiry, peers

\* Every step keeps the types.
LEMMA TypeNext == TInv /\ [Next]_vars => TInv'
<1>1. ASSUME TInv, UNCHANGED vars PROVE TInv'
  BY <1>1 DEF TInv, TypeOK, vars, main, enquiry, peers, server, streams, history
<1> QED
  BY <1>1, TypeMain, TypeEnquiry, TypeHandle, TypeServerMain, TypeServerThread DEF Next

\* The variables of Startup have their types, whatever the number of clients
\* and servers: no loop over the servers leaves the table, and no client takes
\* itself for a peer.  (client.cpp 72-121, 123-157; server.cpp 62-102)
THEOREM TypeCorrect == Spec => []TypeOK
<1>1. TInv => TypeOK
  BY DEF TInv
<1> QED
  BY <1>1, TypeInit, TypeNext, PTL DEF Spec

-----------------------------------------------------------------------------
(***************************************************************************)
(* What a main thread leaves alone.                                        *)
(***************************************************************************)

\* The table of one entry per client after an update of c's.
LEMMA OtherEntries ==
  ASSUME NEW S, NEW f \in [Clients -> S], NEW c \in Clients, NEW v
  PROVE  /\ [f EXCEPT ![c] = v][c] = v
         /\ \A d \in Clients \ {c} : [f EXCEPT ![c] = v][d] = f[d]
OBVIOUS

\* A main thread moves only itself, never back to an earlier phase, and goes
\* past the list of files only when the flag is set.
LEMMA MainFrame ==
  ASSUME TypeOK, NEW c \in Clients, MainThread(c)
  PROVE  /\ UNCHANGED <<address, list_files, critical_section_alg_init, enquiry_thread,
                        serving, server_client_sockfd, threads, treated, answered_early>>
         /\ \A d \in Clients \ {c} : step'[d] = step[d] /\ next'[d] = next[d]
         /\ \A d \in Clients : server_done_enquiry_request'[d] => server_done_enquiry_request[d]
         /\ Past(c) => Past(c)'
         /\ Enquired(c) => Enquired(c)'
         /\ HasLine(c) => HasLine(c)'
         /\ step'[c] \in {"generate", "ready"} =>
              step[c] \in {"generate", "ready"} \/ server_done_enquiry_request[c]
<1> DEFINE Rest == <<address, list_files, critical_section_alg_init, enquiry_thread,
                     serving, server_client_sockfd, threads, treated, answered_early>>
<1>1. /\ step \in [Clients -> Steps] /\ next \in [Clients -> Nat]
      /\ server_done_enquiry_request \in [Clients -> BOOLEAN]
      /\ step[c] \in {"servers", "greetings"} => next[c] \in Servers
  BY DEF TypeOK
<1>2. CASE StartServerSocket(c)
  <2>1. /\ step[c] = "down" /\ step' = [step EXCEPT ![c] = "listening"]
        /\ UNCHANGED Rest /\ UNCHANGED <<next, server_done_enquiry_request>>
    BY <1>2 DEF StartServerSocket, enquiry, server, history
  <2> QED
    BY <1>1, <2>1 DEF Past, Enquired, HasLine
<1>3. CASE WriteLine(c)
  <2>1. /\ step[c] = "listening" /\ step' = [step EXCEPT ![c] = "waiting"]
        /\ UNCHANGED Rest /\ UNCHANGED <<next, server_done_enquiry_request>>
    BY <1>3 DEF WriteLine, enquiry, server, history
  <2> QED
    BY <1>1, <2>1 DEF Past, Enquired, HasLine
<1>4. CASE WaitForAllNodes(c)
  <2>1. /\ step[c] = "waiting" /\ step' = [step EXCEPT ![c] = "peers"]
        /\ UNCHANGED Rest /\ UNCHANGED <<next, server_done_enquiry_request>>
    BY <1>4 DEF WaitForAllNodes, enquiry, server, history
  <2> QED
    BY <1>1, <2>1 DEF Past, Enquired, HasLine
<1>5. CASE ConnectToOtherClient(c) \/ AcceptOtherClient(c)
  <2>1. /\ step[c] = "peers" /\ UNCHANGED step
        /\ \E n : next' = [next EXCEPT ![c] = n]
        /\ UNCHANGED Rest /\ UNCHANGED server_done_enquiry_request
    BY <1>5 DEF ConnectToOtherClient, AcceptOtherClient, enquiry, server, history
  <2> QED
    BY <1>1, <2>1 DEF Past, Enquired, HasLine
<1>6. CASE TestClientsCommunicate(c)
  <2>1. /\ step[c] = "peers" /\ step' = [step EXCEPT ![c] = "servers"]
        /\ \E n : next' = [next EXCEPT ![c] = n]
        /\ UNCHANGED Rest /\ UNCHANGED server_done_enquiry_request
    BY <1>6 DEF TestClientsCommunicate, enquiry, server, history
  <2> QED
    BY <1>1, <2>1 DEF Past, Enquired, HasLine
<1>7. CASE ConnectToServer(c)
  <2>1. /\ step[c] = "servers" /\ NextServer(c, "greetings")
        /\ UNCHANGED Rest /\ UNCHANGED server_done_enquiry_request
    BY <1>7 DEF ConnectToServer, enquiry, server, history
  <2>2. /\ step'[c] \in {"servers", "greetings"}
        /\ \A d \in Clients \ {c} : step'[d] = step[d] /\ next'[d] = next[d]
    BY <1>1, <2>1, ServerLemma DEF Steps
  <2> QED
    BY <1>1, <2>1, <2>2 DEF Past, Enquired, HasLine
<1>8. CASE TestServerCommunicate(c)
  <2>1. /\ step[c] = "greetings" /\ NextServer(c, "enquire")
        /\ UNCHANGED Rest /\ UNCHANGED server_done_enquiry_request
    BY <1>8 DEF TestServerCommunicate, enquiry, server, history
  <2>2. /\ step'[c] \in {"enquire", "greetings"}
        /\ \A d \in Clients \ {c} : step'[d] = step[d] /\ next'[d] = next[d]
    BY <1>1, <2>1, ServerLemma DEF Steps
  <2> QED
    BY <1>1, <2>1, <2>2 DEF Past, Enquired, HasLine
<1>9. CASE EnquireListOfHostedFiles(c)
  <2>1. /\ step[c] = "enquire" /\ step' = [step EXCEPT ![c] = "enquiring"]
        /\ UNCHANGED Rest /\ UNCHANGED next
        /\ server_done_enquiry_request' =
             [server_done_enquiry_request EXCEPT ![c] = FALSE]
    BY <1>9 DEF EnquireListOfHostedFiles, server, history
  <2> QED
    BY <1>1, <2>1 DEF Past, Enquired, HasLine
<1>10. CASE SeeListFiles(c)
  <2>1. /\ step[c] = "enquiring" /\ server_done_enquiry_request[c]
        /\ Reads(c, "generate")
        /\ UNCHANGED Rest /\ UNCHANGED <<next, server_done_enquiry_request>>
    BY <1>10 DEF SeeListFiles, enquiry, server, history
  <2>2. PICK outcome \in {"generate", "crashed"} : step' = [step EXCEPT ![c] = outcome]
    BY <2>1 DEF Reads
  <2> QED
    BY <1>1, <2>1, <2>2 DEF Past, Enquired, HasLine
<1>11. CASE RequestFirst(c)
  <2>1. /\ step[c] = "generate" /\ Reads(c, "ready")
        /\ UNCHANGED Rest /\ UNCHANGED <<next, server_done_enquiry_request>>
    BY <1>11 DEF RequestFirst, enquiry, server, history
  <2>2. PICK outcome \in {"ready", "crashed"} : step' = [step EXCEPT ![c] = outcome]
    BY <2>1 DEF Reads
  <2> QED
    BY <1>1, <2>1, <2>2 DEF Past, Enquired, HasLine
<1> QED
  BY <1>2, <1>3, <1>4, <1>5, <1>6, <1>7, <1>8, <1>9, <1>10, <1>11 DEF MainThread

-----------------------------------------------------------------------------
(***************************************************************************)
(* A request meets a strategy.                                             *)
(***************************************************************************)

\* Nobody may meet a request at first.
LEMMA PreparedInit == Init => PInv
BY DEF Init, PInv, Prepared

\* Every step keeps it so.
LEMMA PreparedNext == TInv /\ PInv /\ [Next]_vars => PInv'
<1> SUFFICES ASSUME TInv, PInv, [Next]_vars, NEW d \in Clients
             PROVE  Prepared(d)'
  BY DEF PInv
<1>1. /\ TypeOK /\ Prepared(d)
      /\ step \in [Clients -> Steps] /\ treated \in [Clients -> SUBSET Clients]
      /\ enquiry_thread \in [Clients -> {"reading", "received", "assigning", "done"}]
      /\ server_done_enquiry_request \in [Clients -> BOOLEAN]
      /\ critical_section_alg_init \in [Clients -> BOOLEAN]
  BY DEF TInv, TypeOK, PInv
<1>2. ASSUME NEW c \in Clients, MainThread(c) PROVE Prepared(d)'
  <2>1. /\ UNCHANGED <<critical_section_alg_init, enquiry_thread, treated>>
        /\ server_done_enquiry_request'[d] => server_done_enquiry_request[d]
        /\ step'[d] \in {"generate", "ready"} =>
             step[d] \in {"generate", "ready"} \/ server_done_enquiry_request[d]
    BY <1>1, <1>2, MainFrame
  <2> QED
    BY <1>1, <2>1 DEF Prepared
<1>3. ASSUME NEW c \in Clients, EnquiryThread(c) PROVE Prepared(d)'
  <2>1. CASE ReceiveEnquireResult(c)
    BY <1>1, <2>1 DEF ReceiveEnquireResult, Prepared, main, history
  <2>2. CASE SetEnquiryDone(c)
    BY <1>1, <2>2 DEF SetEnquiryDone, Prepared, main, history
  <2>3. CASE AssignListFiles(c)
    BY <1>1, <2>3 DEF AssignListFiles, Prepared, main, history
  <2> QED
    BY <1>3, <2>1, <2>2, <2>3 DEF EnquiryThread
<1>4. ASSUME NEW c \in Clients, NEW e \in Clients, HandleClientMessages(c, e)
      PROVE  Prepared(d)'
  <2>1. /\ step[c] \in {"generate", "ready"} /\ UNCHANGED <<main, enquiry>>
        /\ \E new : treated' = [treated EXCEPT ![c] = new]
    BY <1>4 DEF HandleClientMessages, HasClientThreads
  <2>2. d # c => treated'[d] = treated[d]
    BY <1>1, <2>1
  <2> QED
    BY <1>1, <2>1, <2>2 DEF Prepared, main, enquiry
<1>5. ASSUME NEW s \in Servers, ServerMainThread(s) PROVE Prepared(d)'
  BY <1>1, <1>5 DEF ServerMainThread, ServerStarts, ServeClient, Prepared, main, enquiry, history
<1>6. ASSUME NEW s \in Servers, NEW c \in Clients, ServerThread(s, c) PROVE Prepared(d)'
  <2>1. UNCHANGED <<main, enquiry, treated>>
    BY <1>1, <1>6, ThreadLemma
  <2> QED
    BY <1>1, <2>1 DEF Prepared, main, enquiry
<1>7. CASE UNCHANGED vars
  BY <1>1, <1>7 DEF Prepared, vars, main, enquiry, history
<1> QED
  BY <1>2, <1>3, <1>4, <1>5, <1>6, <1>7 DEF Next

\* No thread gives a request for a lock to a strategy that has not been made:
\* the flag that starts the threads for the other clients is set after the
\* strategies are.  (client.cpp 423-452, 554-558, 750-759)
THEOREM Strategies == Spec => []StrategyBeforeRequest
<1>1. PInv => StrategyBeforeRequest
  BY DEF PInv, Prepared, StrategyBeforeRequest
<1> QED
  BY <1>1, TypeInit, TypeNext, PreparedInit, PreparedNext, PTL DEF Spec

-----------------------------------------------------------------------------
(***************************************************************************)
(* One thread per client.                                                  *)
(***************************************************************************)

\* What the streams, threads and backlogs of a client and a server are.
LEMMA StreamTypes ==
  ASSUME TypeOK, NEW c \in Clients, NEW s \in Servers
  PROVE  /\ to_server[c][s] \in Seq(MessageType) /\ to_client[s][c] \in Seq(MessageType)
         /\ threads[s][c] \in Seq({"greeting", "serving"})
         /\ server_backlog[s] \in Seq(Clients)
         /\ Len(threads[s][c]) \in Nat
         /\ Len(threads[s][c]) = 0 <=> threads[s][c] = <<>>
<1>1. /\ to_server[c][s] \in Seq(MessageType) /\ to_client[s][c] \in Seq(MessageType)
      /\ threads[s][c] \in Seq({"greeting", "serving"})
      /\ server_backlog[s] \in Seq(Clients)
  BY DEF TypeOK
<1> QED
  BY <1>1, LenProperties, EmptySeq

\* At first nobody has connected.
LEMMA VisitInit == Init => VInv
<1> SUFFICES ASSUME Init PROVE VInv
  OBVIOUS
<1>1. \A s \in Servers : Once(server_backlog[s])
  BY EmptySeq DEF Init, Once
<1>2. ASSUME NEW c \in Clients, NEW s \in Servers PROVE Visit(c, s)
  <2>1. /\ step[c] = "down" /\ to_server[c][s] = <<>> /\ to_client[s][c] = <<>>
        /\ threads[s][c] = <<>> /\ server_backlog[s] = <<>>
    BY <1>2 DEF Init
  <2>2. ~Has(server_backlog[s], c) /\ Len(threads[s][c]) = 0
    BY <2>1, HasNone, EmptySeq
  <2> QED
    BY <2>1, <2>2 DEF Visit, Greeted
<1> QED
  BY <1>1, <1>2 DEF VInv

\* A step that changes nothing between c and s.
LEMMA VisitKept ==
  ASSUME NEW c \in Clients, NEW s \in Servers, Visit(c, s),
         Reached(c, s)' <=> Reached(c, s), Greeted(c, s)' <=> Greeted(c, s),
         to_server'[c][s] = to_server[c][s], to_client'[s][c] = to_client[s][c],
         threads'[s][c] = threads[s][c],
         Has(server_backlog'[s], c) <=> Has(server_backlog[s], c)
  PROVE  Visit(c, s)'
BY DEF Visit

\* Nor does a step that leaves the places of the main threads alone.
LEMMA VisitPlace ==
  ASSUME NEW c \in Clients, NEW s \in Servers,
         step'[c] = step[c], next'[c] = next[c]
  PROVE  (Reached(c, s)' <=> Reached(c, s)) /\ (Greeted(c, s)' <=> Greeted(c, s))
BY DEF Reached, Greeted

\* A client and a server after a step of another client's main thread.
LEMMA VisitOther ==
  ASSUME TypeOK, NEW d \in Clients, NEW s \in Servers, Visit(d, s),
         NEW c \in Clients \ {d}, MainThread(c),
         to_server'[d][s] = to_server[d][s], to_client'[s][d] = to_client[s][d],
         Has(server_backlog'[s], d) <=> Has(server_backlog[s], d)
  PROVE  Visit(d, s)'
<1>1. threads' = threads /\ step'[d] = step[d] /\ next'[d] = next[d]
  BY MainFrame
<1> QED
  BY <1>1, VisitPlace, VisitKept

\* A client that is not at the servers yet, or through with greeting them.
LEMMA VisitQuiet ==
  ASSUME TypeOK, VInv, NEW c \in Clients, MainThread(c),
         UNCHANGED <<to_server, to_client, server_backlog>>,
         \A s \in Servers : (Reached(c, s)' <=> Reached(c, s))
                            /\ (Greeted(c, s)' <=> Greeted(c, s))
  PROVE  VInv'
<1>1. threads' = threads
  BY MainFrame
<1>2. ASSUME NEW d \in Clients, NEW s \in Servers PROVE Visit(d, s)'
  <2>1. Visit(d, s)
    BY DEF VInv
  <2>2. CASE d = c
    BY <1>1, <2>1, <2>2, VisitKept
  <2>3. CASE d # c
    BY <2>1, <2>3, VisitOther
  <2> QED
    BY <2>2, <2>3
<1>3. \A s \in Servers : Once(server_backlog'[s])
  BY DEF VInv
<1> QED
  BY <1>2, <1>3 DEF VInv

\* connectToServers(): the client gets into the backlog, with one message.
LEMMA VisitConnect ==
  ASSUME TInv, VInv, NEW c \in Clients, ConnectToServer(c)
  PROVE  VInv'
<1>0. PICK r \in Servers : r = next[c]
  BY DEF ConnectToServer, TInv, TypeOK
<1>1. /\ TypeOK /\ step[c] = "servers" /\ r \in Servers /\ MainThread(c)
      /\ NextServer(c, "greetings") /\ UNCHANGED <<to_client, threads>>
  BY DEF ConnectToServer, TInv, TypeOK, MainThread
<1>2. /\ \/ /\ server_backlog' = [server_backlog EXCEPT ![r] = Append(server_backlog[r], c)]
            /\ to_server' = [to_server EXCEPT ![c][r] = Append(to_server[c][r], "echo")]
         \/ UNCHANGED <<server_backlog, to_server>>
  BY <1>0 DEF ConnectToServer
<1>3. /\ next'[c] \in Servers
      /\ \/ step'[c] = "greetings" /\ \A s \in Servers : s <= r
         \/ /\ step'[c] = "servers"
            /\ \A s \in Servers : s < next'[c] <=> s < r \/ s = r
      /\ \A s \in Servers : ~(s < Min(Servers))
      /\ step'[c] = "greetings" => next'[c] = Min(Servers)
  BY <1>0, <1>1, ServerLemma DEF Steps
<1>4. \A s \in Servers : s \in Nat
  BY IdsAssumption
<1>5. ASSUME NEW s \in Servers
      PROVE  /\ Reached(c, s) <=> s < r
             /\ Reached(c, s)' <=> s < r \/ s = r
             /\ ~Greeted(c, s) /\ ~Greeted(c, s)'
  BY <1>0, <1>1, <1>3, <1>4, <1>5 DEF Reached, Greeted
<1>6. /\ \A s \in Servers : server_backlog[s] \in Seq(Clients)
      /\ server_backlog \in [Servers -> Seq(Clients)]
      /\ to_server \in [Clients -> [Servers -> Seq(MessageType)]]
  BY <1>1 DEF TypeOK
<1>7. ~Reached(c, r) /\ Visit(c, r)
  BY <1>1, <1>4, <1>5 DEF VInv
<1>8. to_server[c][r] = <<>> /\ threads[r][c] = <<>> /\ ~Has(server_backlog[r], c)
  BY <1>7 DEF Visit
<1>9. /\ Append(server_backlog[r], c) \in Seq(Clients)
      /\ \A d : Has(Append(server_backlog[r], c), d) <=> Has(server_backlog[r], d) \/ d = c
      /\ Once(server_backlog[r]) => Once(Append(server_backlog[r], c))
      /\ Append(to_server[c][r], "echo") = <<"echo">>
  BY <1>1, <1>6, <1>8, HasAppend
<1>10. \A s \in Servers : Once(server_backlog'[s])
  <2> SUFFICES ASSUME NEW s \in Servers PROVE Once(server_backlog'[s])
    OBVIOUS
  <2>1. Once(server_backlog[s])
    BY DEF VInv
  <2>2. \/ server_backlog'[s] = server_backlog[s]
        \/ s = r /\ server_backlog'[s] = Append(server_backlog[r], c)
    BY <1>1, <1>2, <1>6
  <2> QED
    BY <1>9, <2>1, <2>2
<1>11. ASSUME NEW d \in Clients, NEW s \in Servers, d # c \/ s # r PROVE Visit(d, s)'
  <2>1. /\ to_server'[d][s] = to_server[d][s]
        /\ \/ server_backlog'[s] = server_backlog[s]
           \/ s = r /\ server_backlog'[s] = Append(server_backlog[r], c)
    BY <1>1, <1>2, <1>6, <1>11
  <2>2. Has(server_backlog'[s], d) <=> Has(server_backlog[s], d)
    BY <1>9, <1>11, <2>1
  <2>3. Visit(d, s)
    BY DEF VInv
  <2>4. CASE d # c
    BY <1>1, <2>1, <2>2, <2>3, <2>4, VisitOther
  <2>5. CASE d = c
    <3>1. (Reached(c, s)' <=> Reached(c, s)) /\ (Greeted(c, s)' <=> Greeted(c, s))
      BY <1>5, <1>11, <2>5
    <3> QED
      BY <1>1, <2>1, <2>2, <2>3, <2>5, <3>1, VisitKept
  <2> QED
    BY <2>4, <2>5
<1>12. Visit(c, r)'
  <2>1. /\ to_client[r][c] = <<>> /\ Len(threads[r][c]) <= 1
    BY <1>7, <1>8 DEF Visit
  <2>2. /\ Reached(c, r)' /\ ~Greeted(c, r)'
        /\ to_client'[r][c] = <<>> /\ threads'[r][c] = <<>> /\ Len(threads'[r][c]) <= 1
    BY <1>1, <1>5, <1>8, <2>1
  <2>3. CASE UNCHANGED <<server_backlog, to_server>>
    BY <1>8, <2>2, <2>3 DEF Visit
  <2>4. CASE to_server' = [to_server EXCEPT ![c][r] = Append(to_server[c][r], "echo")]
    <3>1. to_server'[c][r] = <<"echo">>
      BY <1>1, <1>6, <1>9, <2>4
    <3> QED
      BY <2>2, <3>1 DEF Visit
  <2> QED
    BY <1>2, <2>3, <2>4
<1> QED
  BY <1>10, <1>11, <1>12 DEF VInv

\* testServerCommunicate(): s has greeted, so that it has made its thread.
LEMMA VisitGreeting ==
  ASSUME TInv, VInv, NEW c \in Clients, TestServerCommunicate(c)
  PROVE  VInv'
<1>0. PICK r \in Servers : r = next[c]
  BY DEF TestServerCommunicate, TInv, TypeOK
<1>1. /\ TypeOK /\ step[c] = "greetings" /\ r \in Servers /\ MainThread(c)
      /\ NextServer(c, "enquire") /\ UNCHANGED <<server_backlog, threads>>
  BY DEF TestServerCommunicate, TInv, TypeOK, MainThread, server
<1>2. /\ \E q : to_client' = [to_client EXCEPT ![r][c] = q]
      /\ \E q : to_server' = [to_server EXCEPT ![c][r] = q]
      /\ \E n \in 1 .. Len(to_client[r][c]) : TRUE
  BY <1>0 DEF TestServerCommunicate
<1>3. /\ next'[c] \in Servers
      /\ \/ step'[c] = "enquire" /\ \A s \in Servers : s <= r
         \/ /\ step'[c] = "greetings"
            /\ \A s \in Servers : s < next'[c] <=> s < r \/ s = r
  BY <1>0, <1>1, ServerLemma DEF Steps
<1>4. \A s \in Servers : s \in Nat
  BY IdsAssumption
<1>5. ASSUME NEW s \in Servers
      PROVE  /\ Reached(c, s) /\ Reached(c, s)'
             /\ Greeted(c, s) <=> s < r
             /\ Greeted(c, s)' <=> s < r \/ s = r
  BY <1>0, <1>1, <1>3, <1>4, <1>5 DEF Reached, Greeted
<1>6. /\ to_client \in [Servers -> [Clients -> Seq(MessageType)]]
      /\ to_server \in [Clients -> [Servers -> Seq(MessageType)]]
  BY <1>1 DEF TypeOK
<1>7. to_client[r][c] # <<>>
  <2>1. to_client[r][c] \in Seq(MessageType)
    BY <1>1, <1>6
  <2>2. PICK n \in 1 .. Len(to_client[r][c]) : TRUE
    BY <1>2
  <2> QED
    BY <2>1, <2>2, HasRest
<1>8. Visit(c, r) /\ threads[r][c] # <<>> /\ ~Has(server_backlog[r], c)
      /\ Len(threads[r][c]) <= 1
  <2>1. Visit(c, r)
    BY <1>1 DEF VInv
  <2> QED
    BY <1>7, <2>1 DEF Visit
<1>9. Visit(c, r)'
  BY <1>1, <1>5, <1>8 DEF Visit
<1>10. ASSUME NEW d \in Clients, NEW s \in Servers, d # c \/ s # r PROVE Visit(d, s)'
  <2>1. to_server'[d][s] = to_server[d][s] /\ to_client'[s][d] = to_client[s][d]
    BY <1>1, <1>2, <1>6, <1>10
  <2>2. Visit(d, s)
    BY DEF VInv
  <2>3. CASE d # c
    BY <1>1, <2>1, <2>2, <2>3, VisitOther
  <2>4. CASE d = c
    <3>1. (Reached(c, s)' <=> Reached(c, s)) /\ (Greeted(c, s)' <=> Greeted(c, s))
      BY <1>5, <1>10, <2>4
    <3> QED
      BY <1>1, <2>1, <2>2, <2>4, <3>1, VisitKept
  <2> QED
    BY <2>3, <2>4
<1>11. \A s \in Servers : Once(server_backlog'[s])
  BY <1>1 DEF VInv
<1> QED
  BY <1>9, <1>10, <1>11 DEF VInv

\* The other steps of a main thread.
LEMMA VisitMain ==
  ASSUME TInv, VInv, NEW c \in Clients, MainThread(c)
  PROVE  VInv'
<1>1. /\ TypeOK /\ step \in [Clients -> Steps]
      /\ to_server \in [Clients -> [Servers -> Seq(MessageType)]]
  BY DEF TInv, TypeOK
<1>2. CASE StartServerSocket(c) \/ WriteLine(c) \/ WaitForAllNodes(c)
           \/ ConnectToOtherClient(c) \/ AcceptOtherClient(c)
  <2>1. /\ UNCHANGED <<to_server, to_client, server_backlog>>
        /\ step[c] \in {"down", "listening", "waiting", "peers"}
        /\ step'[c] \in {"down", "listening", "waiting", "peers"}
    BY <1>1, <1>2
    DEF StartServerSocket, WriteLine, WaitForAllNodes, ConnectToOtherClient,
        AcceptOtherClient, streams, server
  <2>2. \A s \in Servers : (Reached(c, s)' <=> Reached(c, s))
                           /\ (Greeted(c, s)' <=> Greeted(c, s))
    BY <2>1 DEF Reached, Greeted
  <2> QED
    BY <1>1, <2>1, <2>2, VisitQuiet
<1>3. CASE TestClientsCommunicate(c)
  <2>1. /\ UNCHANGED <<to_server, to_client, server_backlog>>
        /\ step[c] = "peers" /\ step'[c] = "servers"
        /\ next'[c] = Min(Servers)
    BY <1>1, <1>3 DEF TestClientsCommunicate, streams, server, TInv, TypeOK
  <2>2. \A s \in Servers : ~(s < Min(Servers))
    <3> SUFFICES ASSUME NEW s \in Servers PROVE ~(s < Min(Servers))
      OBVIOUS
    <3>1. Servers \in SUBSET Nat /\ Servers # {}
      BY IdsAssumption, SomeServer
    <3>2. Min(Servers) \in Servers /\ \A x \in Servers : Min(Servers) <= x
      BY <3>1, LeastId
    <3>3. s \in Nat /\ Min(Servers) \in Nat /\ Min(Servers) <= s
      BY <3>1, <3>2
    <3> QED
      BY <3>3
  <2>3. \A s \in Servers : (Reached(c, s)' <=> Reached(c, s))
                           /\ (Greeted(c, s)' <=> Greeted(c, s))
    BY <2>1, <2>2 DEF Reached, Greeted
  <2> QED
    BY <1>1, <2>1, <2>3, VisitQuiet
<1>4. CASE SeeListFiles(c) \/ RequestFirst(c)
  <2>1. /\ UNCHANGED <<to_server, to_client, server_backlog>>
        /\ step[c] \in {"enquiring", "generate"}
        /\ Reads(c, "generate") \/ Reads(c, "ready")
    BY <1>4 DEF SeeListFiles, RequestFirst, streams, server
  <2>2. PICK outcome \in {"generate", "ready", "crashed"} :
          step' = [step EXCEPT ![c] = outcome]
    BY <2>1 DEF Reads
  <2>3. \A s \in Servers : (Reached(c, s)' <=> Reached(c, s))
                           /\ (Greeted(c, s)' <=> Greeted(c, s))
    BY <1>1, <2>1, <2>2 DEF Reached, Greeted
  <2> QED
    BY <1>1, <2>1, <2>3, VisitQuiet
<1>5. CASE EnquireListOfHostedFiles(c)
  <2>1. /\ step[c] = "enquire" /\ step'[c] = "enquiring"
        /\ UNCHANGED <<to_client, server_backlog, threads>>
    BY <1>1, <1>5 DEF EnquireListOfHostedFiles, server
  <2>2. PICK r \in Servers : \E q : to_server' = [to_server EXCEPT ![c][r] = q]
    BY <1>5 DEF EnquireListOfHostedFiles
  <2>3. ASSUME NEW d \in Clients, NEW s \in Servers PROVE Visit(d, s)'
    <3>1. Visit(d, s)
      BY DEF VInv
    <3>2. CASE d # c
      <4>1. to_server'[d][s] = to_server[d][s]
        BY <1>1, <2>2, <3>2
      <4> QED
        BY <1>1, <2>1, <3>1, <3>2, <4>1, VisitOther
    <3>3. CASE d = c
      <4>1. /\ Reached(c, s) /\ Reached(c, s)' /\ Greeted(c, s) /\ Greeted(c, s)'
        BY <2>1 DEF Reached, Greeted
      <4>2. /\ threads[s][c] # <<>> /\ ~Has(server_backlog[s], c)
            /\ Len(threads[s][c]) <= 1
        BY <3>1, <3>3, <4>1 DEF Visit
      <4> QED
        BY <2>1, <3>3, <4>1, <4>2 DEF Visit
    <3> QED
      BY <3>2, <3>3
  <2>4. \A s \in Servers : Once(server_backlog'[s])
    BY <2>1 DEF VInv
  <2> QED
    BY <2>3, <2>4 DEF VInv
<1> QED
  BY <1>2, <1>3, <1>4, <1>5, VisitConnect, VisitGreeting DEF MainThread

\* serveClients(): the first read() brings one message, so that there is one
\* thread.
LEMMA VisitServe ==
  ASSUME TInv, VInv, NEW s \in Servers, ServeClient(s)
  PROVE  VInv'
<1>0. PICK c : c = Head(server_backlog[s])
  OBVIOUS
<1>1. TypeOK
  BY DEF TInv
<1>2. /\ c \in Clients /\ Has(server_backlog[s], c)
      /\ server_backlog[s] \in Seq(Clients) /\ server_backlog[s] # <<>>
      /\ server_backlog' = [server_backlog EXCEPT ![s] = Tail(server_backlog[s])]
      /\ UNCHANGED <<step, next, to_client>>
  BY <1>0, <1>1, ServeLemma DEF main
<1>3. Served(s, c)
  BY <1>0, <1>1, ServeLemma
<1>4. PICK n \in 1 .. Len(to_server[c][s]), new \in Seq({"greeting", "serving"}) :
        /\ Len(new) = Len(threads[s][c]) + n
        /\ threads' = [threads EXCEPT ![s][c] = new]
        /\ to_server' = [to_server EXCEPT
             ![c][s] = SubSeq(to_server[c][s], n + 1, Len(to_server[c][s]))]
  BY <1>3 DEF Served
<1>5. Visit(c, s)
  BY <1>2 DEF VInv
<1>6. to_server[c][s] = <<"echo">> /\ threads[s][c] = <<>> /\ Reached(c, s)
  BY <1>2, <1>5 DEF Visit
<1>7. Len(to_server[c][s]) = 1 /\ n = 1
  BY <1>4, <1>6
<1>8. Len(new) = 1 /\ new # <<>>
  <2>1. Len(threads[s][c]) = 0
    BY <1>6, EmptySeq
  <2>2. Len(new) = 1
    BY <1>4, <1>7, <2>1
  <2> QED
    BY <2>2, EmptySeq
<1>9. /\ threads \in [Servers -> [Clients -> Seq({"greeting", "serving"})]]
      /\ to_server \in [Clients -> [Servers -> Seq(MessageType)]]
      /\ server_backlog \in [Servers -> Seq(Clients)]
  BY <1>1 DEF TypeOK
<1>10. /\ \A t : Has(server_backlog[s], t) <=> Has(Tail(server_backlog[s]), t) \/ t = c
       /\ Once(Tail(server_backlog[s])) /\ ~Has(Tail(server_backlog[s]), c)
  <2>1. Once(server_backlog[s])
    BY DEF VInv
  <2> QED
    BY <1>0, <1>2, <2>1, HasTail
<1>11. \A r \in Servers : Once(server_backlog'[r])
  <2> SUFFICES ASSUME NEW r \in Servers PROVE Once(server_backlog'[r])
    OBVIOUS
  <2>1. Once(server_backlog[r])
    BY DEF VInv
  <2>2. \/ server_backlog'[r] = server_backlog[r]
        \/ server_backlog'[r] = Tail(server_backlog[s])
    BY <1>2, <1>9
  <2> QED
    BY <1>10, <2>1, <2>2
<1>12. ASSUME NEW d \in Clients, NEW r \in Servers, d # c \/ r # s PROVE Visit(d, r)'
  <2>1. /\ threads'[r][d] = threads[r][d] /\ to_server'[d][r] = to_server[d][r]
        /\ to_client'[r][d] = to_client[r][d]
    BY <1>2, <1>4, <1>9, <1>12
  <2>2. \/ server_backlog'[r] = server_backlog[r]
        \/ r = s /\ server_backlog'[r] = Tail(server_backlog[s])
    BY <1>2, <1>9
  <2>3. Has(server_backlog'[r], d) <=> Has(server_backlog[r], d)
    BY <1>10, <1>12, <2>2
  <2>4. Visit(d, r) /\ step'[d] = step[d] /\ next'[d] = next[d]
    BY <1>2 DEF VInv
  <2> QED
    BY <2>1, <2>3, <2>4, VisitPlace, VisitKept
<1>13. Visit(c, s)'
  <2>0. threads'[s][c] = new
    BY <1>2, <1>4, <1>9
  <2>1. server_backlog'[s] = Tail(server_backlog[s])
    BY <1>2, <1>9
  <2>2. Reached(c, s)'
    BY <1>2, <1>6, VisitPlace
  <2>3. ~Has(server_backlog'[s], c)
    BY <1>10, <2>1
  <2>4. threads'[s][c] # <<>> /\ Len(threads'[s][c]) <= 1
    <3>1. threads'[s][c] # <<>> /\ Len(threads'[s][c]) = 1
      BY <1>8, <2>0, Zenon
    <3> QED
      BY <3>1
  <2> QED
    BY <2>2, <2>3, <2>4 DEF Visit
<1> QED
  BY <1>11, <1>12, <1>13 DEF VInv

\* A thread of s exists, so that its client has been accepted.
LEMMA VisitThread ==
  ASSUME TInv, VInv, NEW s \in Servers, NEW c \in Clients, ServerThread(s, c)
  PROVE  VInv'
<1>1. /\ TypeOK
      /\ to_server \in [Clients -> [Servers -> Seq(MessageType)]]
      /\ to_client \in [Servers -> [Clients -> Seq(MessageType)]]
      /\ threads \in [Servers -> [Clients -> Seq({"greeting", "serving"})]]
  BY DEF TInv, TypeOK
<1>2. threads[s][c] # <<>> /\ UNCHANGED <<step, next, server_backlog>>
  BY <1>1, ThreadLemma DEF main
<1>3. /\ \E q : to_client' = [to_client EXCEPT ![s][c] = q]
      /\ \E q : to_server' = [to_server EXCEPT ![c][s] = q]
      /\ \E q \in Seq({"greeting", "serving"}) :
           threads' = [threads EXCEPT ![s][c] = q] /\ Len(q) = Len(threads[s][c])
  <2>1. /\ to_client = [to_client EXCEPT ![s][c] = to_client[s][c]]
        /\ to_server = [to_server EXCEPT ![c][s] = to_server[c][s]]
    BY <1>1
  <2>2. \E q : to_client' = [to_client EXCEPT ![s][c] = q]
    <3>1. \/ to_client' = to_client
          \/ to_client' = [to_client EXCEPT ![s][c] = Append(to_client[s][c], "echo")]
          \/ to_client' = [to_client EXCEPT ![s][c] = Append(to_client[s][c], "files")]
      BY <1>1, ThreadLemma
    <3> QED
      BY <2>1, <3>1
  <2>3. \E q : to_server' = [to_server EXCEPT ![c][s] = q]
    <3>1. \/ to_server' = to_server
          \/ to_server' = [to_server EXCEPT ![c][s] = Tail(to_server[c][s])]
      BY <1>1, ThreadLemma
    <3> QED
      BY <2>1, <3>1
  <2>4. \E q \in Seq({"greeting", "serving"}) :
          threads' = [threads EXCEPT ![s][c] = q] /\ Len(q) = Len(threads[s][c])
    BY <1>1, ThreadLemma DEF SameThreads
  <2> QED
    BY <2>2, <2>3, <2>4
<1>4. ASSUME NEW d \in Clients, NEW r \in Servers, d # c \/ r # s PROVE Visit(d, r)'
  <2>1. /\ threads'[r][d] = threads[r][d] /\ to_server'[d][r] = to_server[d][r]
        /\ to_client'[r][d] = to_client[r][d]
    BY <1>1, <1>3, <1>4
  <2>2. /\ Visit(d, r) /\ step'[d] = step[d] /\ next'[d] = next[d]
        /\ server_backlog'[r] = server_backlog[r]
    BY <1>2 DEF VInv
  <2> QED
    BY <2>1, <2>2, VisitPlace, VisitKept
<1>5. Visit(c, s)'
  <2>1. Visit(c, s)
    BY DEF VInv
  <2>2. /\ Reached(c, s) /\ ~Has(server_backlog[s], c) /\ Len(threads[s][c]) <= 1
    BY <1>2, <2>1 DEF Visit
  <2>3. Reached(c, s)' /\ ~Has(server_backlog'[s], c)
    BY <1>2, <2>2, VisitPlace
  <2>4. Len(threads'[s][c]) = Len(threads[s][c])
    BY <1>1, <1>3
  <2>5. threads'[s][c] # <<>>
    <3>1. Len(threads[s][c]) # 0
      BY <1>1, <1>2, StreamTypes
    <3> QED
      BY <2>4, <3>1, EmptySeq
  <2> QED
    BY <2>2, <2>3, <2>4, <2>5 DEF Visit
<1>6. \A r \in Servers : Once(server_backlog'[r])
  BY <1>2 DEF VInv
<1> QED
  BY <1>4, <1>5, <1>6 DEF VInv

\* A step between clients only.
LEMMA VisitIdle ==
  ASSUME VInv, UNCHANGED <<step, next, to_server, to_client, threads, server_backlog>>
  PROVE  VInv'
BY DEF VInv, Visit, Reached, Greeted

\* Every step keeps what clients and servers know of each other.
LEMMA VisitNext == TInv /\ VInv /\ [Next]_vars => VInv'
<1> SUFFICES ASSUME TInv, VInv, [Next]_vars PROVE VInv'
  OBVIOUS
<1>1. ASSUME NEW c \in Clients, EnquiryThread(c) PROVE VInv'
  <2>1. CASE ReceiveEnquireResult(c)
    <3>1. /\ UNCHANGED <<step, next, to_server, threads, server_backlog>>
          /\ to_client \in [Servers -> [Clients -> Seq(MessageType)]]
      BY <2>1 DEF ReceiveEnquireResult, main, server, TInv, TypeOK
    <3>2. PICK s \in Servers : /\ to_client[s][c] # <<>>
                               /\ \E q : to_client' = [to_client EXCEPT ![s][c] = q]
      BY <2>1 DEF ReceiveEnquireResult
    <3>3. ASSUME NEW d \in Clients, NEW r \in Servers PROVE Visit(d, r)'
      <4>1. Visit(d, r) /\ (Reached(d, r)' <=> Reached(d, r)) /\ (Greeted(d, r)' <=> Greeted(d, r))
        BY <3>1, VisitPlace DEF VInv
      <4>2. CASE to_client'[r][d] = to_client[r][d]
        BY <3>1, <4>1, <4>2, VisitKept
      <4>3. CASE to_client'[r][d] # to_client[r][d]
        <5>1. d = c /\ r = s
          BY <3>1, <3>2, <4>3
        <5>2. threads[r][d] # <<>>
          BY <3>2, <4>1, <5>1 DEF Visit
        <5> QED
          BY <3>1, <4>1, <5>2 DEF Visit
      <4> QED
        BY <4>2, <4>3
    <3>4. \A r \in Servers : Once(server_backlog'[r])
      BY <3>1 DEF VInv
    <3> QED
      BY <3>3, <3>4 DEF VInv
  <2>2. CASE SetEnquiryDone(c) \/ AssignListFiles(c)
    BY <2>2, VisitIdle DEF SetEnquiryDone, AssignListFiles, main, server, streams
  <2> QED
    BY <1>1, <2>1, <2>2 DEF EnquiryThread
<1>2. ASSUME NEW c \in Clients, NEW d \in Clients, HandleClientMessages(c, d) PROVE VInv'
  BY <1>2, VisitIdle DEF HandleClientMessages, main, server, streams
<1>3. ASSUME NEW s \in Servers, ServerStarts(s) PROVE VInv'
  BY <1>3, VisitIdle DEF ServerStarts, main, streams
<1>4. CASE UNCHANGED vars
  BY <1>4, VisitIdle DEF vars, main, server, streams
<1> QED
  BY <1>1, <1>2, <1>3, <1>4, VisitMain, VisitServe, VisitThread DEF Next, ServerMainThread

\* A server has one thread per client: a client says nothing more to a server
\* before it has been greeted, so that the first read() brings one packet.
\* (server.cpp 62-85, client.cpp 123-157)
THEOREM OneThread == Spec => []OneThreadPerClient
<1>1. VInv => OneThreadPerClient
  BY DEF VInv, Visit, OneThreadPerClient
<1> QED
  BY <1>1, TypeInit, TypeNext, VisitInit, VisitNext, PTL DEF Spec

-----------------------------------------------------------------------------
(***************************************************************************)
(* What is forgotten.                                                      *)
(***************************************************************************)

\* Nothing is said at first.
LEMMA GateInit == Init => GInv
<1> SUFFICES ASSUME Init PROVE GInv
  OBVIOUS
<1>1. ASSUME NEW c \in Clients, NEW s \in Servers PROVE Talk(c, s)
  <2>1. to_server[c][s] = <<>> /\ to_client[s][c] = <<>>
    BY DEF Init
  <2>2. server_client_sockfd[s][c] \in {None, Garbage}
    <3>1. server_client_sockfd[s] \in [Clients -> {None, Garbage}]
      BY MemoryAssumption DEF Init
    <3> QED
      BY <3>1
  <2> QED
    BY <2>1, <2>2, HasNone DEF Talk
<1>2. \A k \in Connections, d \in Clients : wire[k][d] = <<>>
  BY DEF Init
<1>3. Wires
  BY <1>2, HasNone DEF Wires
<1>4. ~Opened
  <2>1. \A c \in Clients, s \in Servers : to_client[s][c] = <<>>
    BY DEF Init
  <2>2. ~SomePrepared
    BY DEF Init, SomePrepared
  <2> QED
    BY <2>1, <2>2, HasNone DEF Opened
<1>5. ForgetsOnlyEchoes
  BY DEF Init, ForgetsOnlyEchoes
<1> QED
  BY <1>1, <1>3, <1>4, <1>5 DEF GInv, Gate

\* What a main thread may add to the streams, and what it may forget.
AddsToServers ==
  \A d \in Clients, s \in Servers, t \in MessageType :
    Has(to_server'[d][s], t) =>
      Has(to_server[d][s], t) \/ t = "echo" \/ (t = "enquiry" /\ Enquired(d)')

TakesFromServers ==
  \A d \in Clients, s \in Servers, t \in MessageType :
    Has(to_client'[s][d], t) => Has(to_client[s][d], t)

AddsToWires ==
  \A k \in Connections, d \in Clients, t \in MessageType :
    Has(wire'[k][d], t) =>
      Has(wire[k][d], t) \/ t = "echo" \/ (t = "lock" /\ SomePrepared)

ForgetsEchoes ==
  answered_early \/ \A d \in Clients : forgotten'[d] \subseteq forgotten[d] \union {"echo"}

\* That is enough.
LEMMA GateMainKept ==
  ASSUME TypeOK, GInv, NEW c \in Clients, MainThread(c),
         AddsToServers, TakesFromServers, AddsToWires, ForgetsEchoes
  PROVE  GInv'
<1>1. /\ UNCHANGED <<critical_section_alg_init, server_client_sockfd, answered_early>>
      /\ \A d \in Clients \ {c} : step'[d] = step[d]
      /\ Past(c) => Past(c)'
      /\ Enquired(c) => Enquired(c)'
  BY MainFrame
<1>2. \A d \in Clients : (Past(d) => Past(d)') /\ (Enquired(d) => Enquired(d)')
  BY <1>1 DEF Past, Enquired
<1>3. ASSUME NEW d \in Clients, NEW s \in Servers PROVE Talk(d, s)'
  <2>1. Talk(d, s)
    BY DEF GInv
  <2>2. ASSUME NEW t \in MessageType, Has(to_server'[d][s], t)
        PROVE  t = "echo" \/ (t = "enquiry" /\ Enquired(d)')
    <3>1. Has(to_server[d][s], t) \/ t = "echo" \/ (t = "enquiry" /\ Enquired(d)')
      BY <2>2 DEF AddsToServers
    <3>2. Has(to_server[d][s], t) => t = "echo" \/ (t = "enquiry" /\ Enquired(d))
      BY <2>1 DEF Talk
    <3> QED
      BY <1>2, <3>1, <3>2
  <2>3. ASSUME NEW t \in MessageType, Has(to_client'[s][d], t)
        PROVE  t = "echo" \/ (t = "files" /\ Enquired(d)')
    <3>1. Has(to_client[s][d], t)
      BY <2>3 DEF TakesFromServers
    <3>2. Has(to_client[s][d], t) => t = "echo" \/ (t = "files" /\ Enquired(d))
      BY <2>1 DEF Talk
    <3> QED
      BY <1>2, <3>1, <3>2
  <2>4. server_client_sockfd'[s][d] \in {None, Garbage} \/ Past(d)'
    BY <1>1, <1>2, <2>1 DEF Talk
  <2> QED
    BY <2>2, <2>3, <2>4 DEF Talk
<1>4. SomePrepared' <=> SomePrepared
  BY <1>1 DEF SomePrepared
<1>5. Wires'
  BY <1>4 DEF AddsToWires, GInv, Wires
<1>6. Opened' => Opened
  BY <1>4 DEF Opened, TakesFromServers, MessageType
<1>7. Gate'
  BY <1>1, <1>2, <1>6 DEF GInv, Gate
<1>8. ForgetsOnlyEchoes'
  BY <1>1 DEF GInv, ForgetsOnlyEchoes, ForgetsEchoes
<1> QED
  BY <1>3, <1>5, <1>7, <1>8 DEF GInv

\* Before a client is through with the others, nobody asks for a lock.
LEMMA OnlyEchoes ==
  ASSUME GInv, NEW c \in Clients, ~Past(c)
  PROVE  answered_early \/ \A k \in Connections, d \in Clients, t \in MessageType :
                             Has(wire[k][d], t) => t = "echo"
<1>1. answered_early \/ ~Opened
  BY DEF GInv, Gate
<1>2. ~Opened => ~SomePrepared
  BY DEF Opened
<1> QED
  BY <1>1, <1>2 DEF GInv, Wires

\* Messages to other clients.
LEMMA SendAdds ==
  ASSUME TypeOK, NEW sockfd, NEW dests, NEW t \in {"echo", "lock"},
         t = "lock" => SomePrepared,
         wire' = SendToClients(sockfd, dests, t)
  PROVE  AddsToWires
<1>1. t \in MessageType
  BY DEF MessageType
<1>2. \A k \in Connections, d \in Clients, u \in MessageType :
        Has(wire'[k][d], u) => Has(wire[k][d], u) \/ u = t
  BY <1>1, SendLemma
<1> QED
  BY <1>2 DEF AddsToWires

\* What is on the way to a server after m.
LEMMA SentToServer ==
  ASSUME TypeOK, NEW d \in Clients, NEW s \in Servers, NEW m \in MessageType, NEW t,
         Has(Append(to_server[d][s], m), t)
  PROVE  Has(to_server[d][s], t) \/ t = m
<1>1. to_server[d][s] \in Seq(MessageType)
  BY DEF TypeOK
<1>2. \A u : Has(Append(to_server[d][s], m), u) <=> Has(to_server[d][s], u) \/ u = m
  BY <1>1, HasAppend
<1> QED
  BY <1>2

\* Every block of a main thread does no more than that.
LEMMA GateMain ==
  ASSUME TInv, PInv, GInv, NEW c \in Clients, MainThread(c)
  PROVE  GInv'
<1>1. /\ TypeOK /\ \A d \in Clients : ~Has(backlog[d], d)
      /\ to_client \in [Servers -> [Clients -> Seq(MessageType)]]
      /\ to_server \in [Clients -> [Servers -> Seq(MessageType)]]
      /\ wire \in [Connections -> [Clients -> Seq(MessageType)]]
      /\ forgotten \in [Clients -> SUBSET MessageType]
      /\ step \in [Clients -> Steps]
  BY DEF TInv, TypeOK
<1>2. /\ UNCHANGED to_server => AddsToServers
      /\ UNCHANGED to_client => TakesFromServers
      /\ UNCHANGED wire => AddsToWires
      /\ UNCHANGED forgotten => ForgetsEchoes
  BY DEF AddsToServers, TakesFromServers, AddsToWires, ForgetsEchoes
<1>3. CASE StartServerSocket(c) \/ WriteLine(c) \/ WaitForAllNodes(c) \/ SeeListFiles(c)
  <2>1. UNCHANGED <<to_server, to_client, wire, forgotten>>
    BY <1>3 DEF StartServerSocket, WriteLine, WaitForAllNodes, SeeListFiles,
                streams, peers, history
  <2> QED
    BY <1>1, <1>2, <2>1, GateMainKept
<1>4. CASE ConnectToOtherClient(c) \/ TestClientsCommunicate(c)
  <2>1. UNCHANGED <<to_server, to_client, forgotten>>
    BY <1>4 DEF ConnectToOtherClient, TestClientsCommunicate, streams, history
  <2>2. \E sockfd, dests : wire' = SendToClients(sockfd, dests, "echo")
    BY <1>4 DEF ConnectToOtherClient, TestClientsCommunicate
  <2>3. AddsToWires
    BY <1>1, <2>2, SendAdds
  <2> QED
    BY <1>1, <1>2, <2>1, <2>3, GateMainKept
<1>5. CASE AcceptOtherClient(c)
  <2>1. /\ step[c] = "peers" /\ backlog[c] \in Seq(Clients) /\ backlog[c] # <<>>
        /\ UNCHANGED <<to_server, to_client>>
    BY <1>1, <1>5 DEF AcceptOtherClient, TypeOK, streams
  <2>2. /\ Head(backlog[c]) \in Clients /\ Has(backlog[c], Head(backlog[c]))
    BY <2>1, HasTail
  <2>3. PICK k \in Connections : k = <<Head(backlog[c]), c>>
    BY <1>1, <2>2 DEF Connections
  <2>4. PICK n \in 1 .. Len(wire[k][c]) :
          /\ wire' = [wire EXCEPT ![k][c] = SubSeq(wire[k][c], n + 1, Len(wire[k][c]))]
          /\ forgotten' = [forgotten EXCEPT ![c] = forgotten[c] \union Unseen(wire[k][c], n)]
    BY <1>5, <2>3 DEF AcceptOtherClient
  <2>5. wire[k][c] \in Seq(MessageType)
    BY <1>1
  <2>6. /\ \A t : Has(SubSeq(wire[k][c], n + 1, Len(wire[k][c])), t) => Has(wire[k][c], t)
        /\ \A t \in Unseen(wire[k][c], n) : Has(wire[k][c], t) /\ t \in MessageType
    BY <2>5, HasRest
  <2>7. AddsToWires
    <3> SUFFICES ASSUME NEW l \in Connections, NEW d \in Clients, NEW t \in MessageType,
                        Has(wire'[l][d], t)
                 PROVE  Has(wire[l][d], t)
      BY DEF AddsToWires
    <3>1. \/ wire'[l][d] = wire[l][d]
          \/ /\ l = k /\ d = c
             /\ wire'[l][d] = SubSeq(wire[k][c], n + 1, Len(wire[k][c]))
      BY <1>1, <2>4
    <3> QED
      BY <2>6, <3>1
  <2>8. ForgetsEchoes
    <3>1. ~Past(c)
      BY <2>1 DEF Past
    <3>2. answered_early \/ \A t \in MessageType : Has(wire[k][c], t) => t = "echo"
      BY <3>1, OnlyEchoes
    <3>3. answered_early \/ Unseen(wire[k][c], n) \subseteq {"echo"}
      BY <2>6, <3>2
    <3>4. \A d \in Clients : forgotten'[d] \subseteq forgotten[d] \union Unseen(wire[k][c], n)
      BY <1>1, <2>4
    <3> QED
      BY <3>3, <3>4 DEF ForgetsEchoes
  <2> QED
    BY <1>1, <1>2, <2>1, <2>7, <2>8, GateMainKept
<1>6. CASE ConnectToServer(c)
  <2>1. /\ UNCHANGED <<to_client, wire, forgotten>>
        /\ next[c] \in Servers
    BY <1>1, <1>6 DEF ConnectToServer, peers, history, TypeOK
  <2>2. PICK r \in Servers :
          \/ to_server' = [to_server EXCEPT ![c][r] = Append(to_server[c][r], "echo")]
          \/ UNCHANGED to_server
    BY <1>6, <2>1 DEF ConnectToServer
  <2>3. AddsToServers
    <3> SUFFICES ASSUME NEW d \in Clients, NEW s \in Servers, NEW t \in MessageType,
                        Has(to_server'[d][s], t)
                 PROVE  Has(to_server[d][s], t) \/ t = "echo"
      BY DEF AddsToServers
    <3>1. \/ to_server'[d][s] = to_server[d][s]
          \/ to_server'[d][s] = Append(to_server[d][s], "echo")
      <4>1. CASE UNCHANGED to_server
        BY <4>1
      <4>2. CASE to_server' = [to_server EXCEPT ![c][r] = Append(to_server[c][r], "echo")]
        BY <1>1, <4>2
      <4> QED
        BY <2>2, <4>1, <4>2
    <3>2. "echo" \in MessageType
      BY DEF MessageType
    <3>3. CASE to_server'[d][s] = to_server[d][s]
      BY <3>3
    <3>4. CASE to_server'[d][s] = Append(to_server[d][s], "echo")
      BY <1>1, <3>2, <3>4, SentToServer
    <3> QED
      BY <3>1, <3>3, <3>4
  <2> QED
    BY <1>1, <1>2, <2>1, <2>3, GateMainKept
<1>7. CASE TestServerCommunicate(c)
  <2>1. /\ step[c] = "greetings" /\ next[c] \in Servers /\ UNCHANGED wire
    BY <1>1, <1>7 DEF TestServerCommunicate, peers, TypeOK
  <2>2. PICK r \in Servers : r = next[c]
    BY <2>1
  <2>3. PICK n \in 1 .. Len(to_client[r][c]) :
          /\ to_client' = [to_client EXCEPT
               ![r][c] = SubSeq(to_client[r][c], n + 1, Len(to_client[r][c]))]
          /\ forgotten' = [forgotten EXCEPT ![c] = forgotten[c] \union Unseen(to_client[r][c], n)]
          /\ \E q \in {Append(to_server[c][r], "echo"), to_server[c][r]} :
               to_server' = [to_server EXCEPT ![c][r] = q]
    BY <1>7, <2>2 DEF TestServerCommunicate
  <2>4. to_client[r][c] \in Seq(MessageType)
    BY <1>1
  <2>5. /\ \A t : Has(SubSeq(to_client[r][c], n + 1, Len(to_client[r][c])), t)
                    => Has(to_client[r][c], t)
        /\ \A t \in Unseen(to_client[r][c], n) : Has(to_client[r][c], t) /\ t \in MessageType
    BY <2>4, HasRest
  <2>6. TakesFromServers
    <3> SUFFICES ASSUME NEW d \in Clients, NEW s \in Servers, NEW t \in MessageType,
                        Has(to_client'[s][d], t)
                 PROVE  Has(to_client[s][d], t)
      BY DEF TakesFromServers
    <3>1. \/ to_client'[s][d] = to_client[s][d]
          \/ /\ s = r /\ d = c
             /\ to_client'[s][d] = SubSeq(to_client[r][c], n + 1, Len(to_client[r][c]))
      BY <1>1, <2>3
    <3> QED
      BY <2>5, <3>1
  <2>7. AddsToServers
    <3> SUFFICES ASSUME NEW d \in Clients, NEW s \in Servers, NEW t \in MessageType,
                        Has(to_server'[d][s], t)
                 PROVE  Has(to_server[d][s], t) \/ t = "echo"
      BY DEF AddsToServers
    <3>1. \/ to_server'[d][s] = to_server[d][s]
          \/ to_server'[d][s] = Append(to_server[d][s], "echo")
      BY <1>1, <2>3
    <3>2. "echo" \in MessageType
      BY DEF MessageType
    <3>3. CASE to_server'[d][s] = to_server[d][s]
      BY <3>3
    <3>4. CASE to_server'[d][s] = Append(to_server[d][s], "echo")
      BY <1>1, <3>2, <3>4, SentToServer
    <3> QED
      BY <3>1, <3>3, <3>4
  <2>8. ForgetsEchoes
    <3>1. Talk(c, r) /\ ~Enquired(c)
      BY <2>1 DEF GInv, Enquired
    <3>2. \A t \in MessageType : Has(to_client[r][c], t) => t = "echo"
      BY <3>1 DEF Talk
    <3>3. Unseen(to_client[r][c], n) \subseteq {"echo"}
      BY <2>5, <3>2
    <3>4. \A d \in Clients : forgotten'[d] \subseteq forgotten[d] \union Unseen(to_client[r][c], n)
      BY <1>1, <2>3
    <3> QED
      BY <3>3, <3>4 DEF ForgetsEchoes
  <2> QED
    BY <1>1, <1>2, <2>1, <2>6, <2>7, <2>8, GateMainKept
<1>8. CASE EnquireListOfHostedFiles(c)
  <2>1. /\ step'[c] = "enquiring" /\ UNCHANGED <<to_client, wire, forgotten>>
    BY <1>1, <1>8 DEF EnquireListOfHostedFiles, peers, history
  <2>2. PICK r \in Servers :
          to_server' = [to_server EXCEPT ![c][r] = Append(to_server[c][r], "enquiry")]
    BY <1>8 DEF EnquireListOfHostedFiles
  <2>3. AddsToServers
    <3> SUFFICES ASSUME NEW d \in Clients, NEW s \in Servers, NEW t \in MessageType,
                        Has(to_server'[d][s], t)
                 PROVE  Has(to_server[d][s], t) \/ (t = "enquiry" /\ Enquired(d)')
      BY DEF AddsToServers
    <3>1. \/ to_server'[d][s] = to_server[d][s]
          \/ d = c /\ to_server'[d][s] = Append(to_server[d][s], "enquiry")
      BY <1>1, <2>2
    <3>2. Enquired(c)'
      BY <2>1 DEF Enquired
    <3>3. "enquiry" \in MessageType
      BY DEF MessageType
    <3>4. CASE to_server'[d][s] = to_server[d][s]
      BY <3>4
    <3>5. CASE d = c /\ to_server'[d][s] = Append(to_server[d][s], "enquiry")
      <4>1. Has(to_server[d][s], t) \/ t = "enquiry"
        BY <1>1, <3>3, <3>5, SentToServer
      <4> QED
        BY <3>2, <3>5, <4>1
    <3> QED
      BY <3>1, <3>4, <3>5
  <2> QED
    BY <1>1, <1>2, <2>1, <2>3, GateMainKept
<1>9. CASE RequestFirst(c)
  <2>1. /\ step[c] = "generate" /\ UNCHANGED <<to_server, to_client, forgotten>>
        /\ \/ wire' = SendToClients(client_sockfd[c], Clients \ {c}, "lock")
           \/ UNCHANGED wire
    BY <1>9 DEF RequestFirst, streams, history
  <2>2. SomePrepared
    BY <2>1 DEF PInv, Prepared, SomePrepared
  <2>3. AddsToWires
    BY <1>1, <1>2, <2>1, <2>2, SendAdds
  <2> QED
    BY <1>1, <1>2, <2>1, <2>3, GateMainKept
<1> QED
  BY <1>3, <1>4, <1>5, <1>6, <1>7, <1>8, <1>9 DEF MainThread

\* A step that takes messages but adds none, and moves no main thread.
LEMMA GateIdle ==
  ASSUME GInv, UNCHANGED <<step, forgotten, answered_early>>,
         \A d \in Clients, s \in Servers, t \in MessageType :
           /\ Has(to_server'[d][s], t) => Has(to_server[d][s], t)
           /\ Has(to_client'[s][d], t) => Has(to_client[s][d], t),
         \A k \in Connections, d \in Clients, t \in MessageType :
           Has(wire'[k][d], t) => Has(wire[k][d], t),
         \A d \in Clients, s \in Servers :
           server_client_sockfd'[s][d] = server_client_sockfd[s][d] \/ Past(d),
         SomePrepared => SomePrepared',
         SomePrepared' => Opened
  PROVE  GInv'
<1>1. \A d \in Clients : (Past(d)' <=> Past(d)) /\ (Enquired(d)' <=> Enquired(d))
  BY DEF Past, Enquired
<1>2. ASSUME NEW d \in Clients, NEW s \in Servers PROVE Talk(d, s)'
  <2>1. Talk(d, s)
    BY DEF GInv
  <2> QED
    BY <1>1, <2>1 DEF Talk
<1>3. Wires'
  BY DEF GInv, Wires
<1>4. Opened' => Opened
  BY DEF Opened, MessageType
<1>5. Gate'
  BY <1>1, <1>4 DEF GInv, Gate
<1>6. ForgetsOnlyEchoes'
  BY DEF GInv, ForgetsOnlyEchoes
<1> QED
  BY <1>2, <1>3, <1>5, <1>6 DEF GInv

\* The list of files and the strategies.
LEMMA GateEnquiry ==
  ASSUME TInv, GInv, NEW c \in Clients, EnquiryThread(c)
  PROVE  GInv'
<1>1. /\ critical_section_alg_init \in [Clients -> BOOLEAN]
      /\ to_client \in [Servers -> [Clients -> Seq(MessageType)]]
  BY DEF TInv, TypeOK
<1>2. UNCHANGED <<step, forgotten, answered_early, to_server, wire, server_client_sockfd>>
  BY DEF EnquiryThread, ReceiveEnquireResult, SetEnquiryDone, AssignListFiles,
         main, peers, server, history, streams
<1>3. CASE ReceiveEnquireResult(c)
  <2>1. PICK s \in Servers : /\ to_client[s][c] # <<>> /\ Head(to_client[s][c]) = "files"
                             /\ to_client' = [to_client EXCEPT ![s][c] = Tail(to_client[s][c])]
    BY <1>3 DEF ReceiveEnquireResult
  <2>2. to_client[s][c] \in Seq(MessageType)
    BY <1>1
  <2>3. /\ Has(to_client[s][c], "files")
        /\ \A t : Has(Tail(to_client[s][c]), t) => Has(to_client[s][c], t)
    BY <2>1, <2>2, HasTail
  <2>4. Opened
    BY <2>3 DEF Opened
  <2>5. SomePrepared'
    BY <1>1, <1>3 DEF ReceiveEnquireResult, SomePrepared
  <2>6. ASSUME NEW d \in Clients, NEW r \in Servers, NEW t \in MessageType,
               Has(to_client'[r][d], t)
        PROVE  Has(to_client[r][d], t)
    <3>1. \/ to_client'[r][d] = to_client[r][d]
          \/ r = s /\ d = c /\ to_client'[r][d] = Tail(to_client[s][c])
      BY <1>1, <2>1
    <3> QED
      BY <2>3, <2>6, <3>1
  <2> QED
    BY <1>2, <2>4, <2>5, <2>6, GateIdle
<1>4. CASE SetEnquiryDone(c) \/ AssignListFiles(c)
  <2>1. UNCHANGED <<critical_section_alg_init, to_client>>
    BY <1>4 DEF SetEnquiryDone, AssignListFiles, streams
  <2>2. (SomePrepared' <=> SomePrepared) /\ (SomePrepared => Opened)
    BY <2>1 DEF SomePrepared, Opened
  <2> QED
    BY <1>2, <2>1, <2>2, GateIdle
<1> QED
  BY <1>3, <1>4 DEF EnquiryThread

\* A thread for another client's messages empties its wire.
LEMMA GateHandle ==
  ASSUME TInv, GInv, NEW c \in Clients, NEW d \in Clients, HandleClientMessages(c, d)
  PROVE  GInv'
<1>1. PICK k \in Connections : wire' = [wire EXCEPT ![k][c] = <<>>]
  BY DEF HandleClientMessages
<1>2. UNCHANGED <<step, critical_section_alg_init, forgotten, answered_early, to_server,
                  to_client, server_client_sockfd>>
  BY DEF HandleClientMessages, main, enquiry, server, streams
<1>3. wire \in [Connections -> [Clients -> Seq(MessageType)]]
  BY DEF TInv, TypeOK
<1>4. ASSUME NEW l \in Connections, NEW e \in Clients, NEW t \in MessageType,
             Has(wire'[l][e], t)
      PROVE  Has(wire[l][e], t)
  <2>1. wire'[l][e] = wire[l][e] \/ wire'[l][e] = <<>>
    BY <1>1, <1>3
  <2> QED
    BY <1>4, <2>1, HasNone
<1>5. (SomePrepared' <=> SomePrepared) /\ (SomePrepared => Opened)
  BY <1>2 DEF SomePrepared, Opened
<1> QED
  BY <1>2, <1>4, <1>5, GateIdle

\* Whom a server accepts is through with the other clients.
LEMMA GateServerMain ==
  ASSUME TInv, VInv, GInv, NEW s \in Servers, ServerMainThread(s)
  PROVE  GInv'
<1>1. /\ TypeOK
      /\ server_client_sockfd \in
           [Servers -> [Clients -> {None, Garbage} \union {<<c>> : c \in Clients}]]
      /\ to_server \in [Clients -> [Servers -> Seq(MessageType)]]
  BY DEF TInv, TypeOK
<1>2. UNCHANGED <<step, critical_section_alg_init, forgotten, answered_early, to_client, wire>>
  BY DEF ServerMainThread, ServerStarts, ServeClient, main, enquiry, peers, streams, history
<1>3. (SomePrepared' <=> SomePrepared) /\ (SomePrepared => Opened)
  BY <1>2 DEF SomePrepared, Opened
<1>4. CASE ServerStarts(s)
  <2>1. UNCHANGED <<server_client_sockfd, to_server>>
    BY <1>4 DEF ServerStarts, streams
  <2> QED
    BY <1>2, <1>3, <2>1, GateIdle
<1>5. CASE ServeClient(s)
  <2>0. PICK c : c = Head(server_backlog[s])
    OBVIOUS
  <2>1. /\ c \in Clients /\ Has(server_backlog[s], c)
        /\ server_client_sockfd' = [server_client_sockfd EXCEPT ![s][c] = <<c>>]
        /\ Served(s, c)
    BY <1>1, <1>5, <2>0, ServeLemma
  <2>2. PICK n \in 1 .. Len(to_server[c][s]) :
          to_server' = [to_server EXCEPT
            ![c][s] = SubSeq(to_server[c][s], n + 1, Len(to_server[c][s]))]
    BY <2>1 DEF Served
  <2>3. \A t : Has(SubSeq(to_server[c][s], n + 1, Len(to_server[c][s])), t)
                 => Has(to_server[c][s], t)
    <3>1. to_server[c][s] \in Seq(MessageType)
      BY <1>1, <2>1
    <3> QED
      BY <3>1, HasRest
  <2>4. Past(c)
    <3>1. Visit(c, s)
      BY <2>1 DEF VInv
    <3>2. Reached(c, s)
      BY <2>1, <3>1 DEF Visit
    <3> QED
      BY <3>2 DEF Reached, Past
  <2>5. ASSUME NEW d \in Clients, NEW r \in Servers, NEW t \in MessageType,
               Has(to_server'[d][r], t)
        PROVE  Has(to_server[d][r], t)
    <3>1. \/ to_server'[d][r] = to_server[d][r]
          \/ /\ r = s /\ d = c
             /\ to_server'[d][r] = SubSeq(to_server[c][s], n + 1, Len(to_server[c][s]))
      BY <1>1, <2>2
    <3> QED
      BY <2>3, <2>5, <3>1
  <2>6. \A d \in Clients, r \in Servers :
          server_client_sockfd'[r][d] = server_client_sockfd[r][d] \/ Past(d)
    BY <1>1, <2>1, <2>4
  <2> QED
    BY <1>2, <1>3, <2>5, <2>6, GateIdle
<1> QED
  BY <1>4, <1>5 DEF ServerMainThread

\* A server answers after the barrier: then every client has connected to it,
\* or the memory of its table was not clean.
LEMMA GateThread ==
  ASSUME TInv, GInv, NEW s \in Servers, NEW c \in Clients, ServerThread(s, c)
  PROVE  GInv'
<1>1. /\ TypeOK
      /\ server_client_sockfd \in
           [Servers -> [Clients -> {None, Garbage} \union {<<d>> : d \in Clients}]]
      /\ to_server \in [Clients -> [Servers -> Seq(MessageType)]]
      /\ to_client \in [Servers -> [Clients -> Seq(MessageType)]]
      /\ answered_early \in BOOLEAN
  BY DEF TInv, TypeOK
<1>2. UNCHANGED <<step, critical_section_alg_init, forgotten, wire, server_client_sockfd>>
  BY <1>1, ThreadLemma DEF main, enquiry, peers
<1>3. /\ \A d \in Clients : (Past(d)' <=> Past(d)) /\ (Enquired(d)' <=> Enquired(d))
      /\ SomePrepared' <=> SomePrepared
  BY <1>2 DEF Past, Enquired, SomePrepared
<1>4. \/ UNCHANGED to_server
      \/ /\ to_server[c][s] # <<>>
         /\ to_server' = [to_server EXCEPT ![c][s] = Tail(to_server[c][s])]
  BY <1>1, ThreadLemma
<1>5. ASSUME NEW d \in Clients, NEW r \in Servers, NEW t \in MessageType,
             Has(to_server'[d][r], t)
      PROVE  Has(to_server[d][r], t)
  <2>1. CASE UNCHANGED to_server
    BY <1>5, <2>1
  <2>2. CASE /\ to_server[c][s] # <<>>
             /\ to_server' = [to_server EXCEPT ![c][s] = Tail(to_server[c][s])]
    <3>1. \/ to_server'[d][r] = to_server[d][r]
          \/ r = s /\ d = c /\ to_server'[d][r] = Tail(to_server[c][s])
      BY <1>1, <2>2
    <3>2. to_server[c][s] \in Seq(MessageType)
      BY <1>1
    <3>3. \A u : Has(Tail(to_server[c][s]), u) => Has(to_server[c][s], u)
      BY <2>2, <3>2, HasTail
    <3> QED
      BY <1>5, <3>1, <3>3
  <2> QED
    BY <1>4, <2>1, <2>2
<1>6. ASSUME NEW m \in MessageType,
             to_client' = [to_client EXCEPT ![s][c] = Append(to_client[s][c], m)],
             NEW d \in Clients, NEW r \in Servers, NEW t \in MessageType,
             Has(to_client'[r][d], t)
      PROVE  Has(to_client[r][d], t) \/ (d = c /\ t = m)
  <2>1. \/ to_client'[r][d] = to_client[r][d]
        \/ r = s /\ d = c /\ to_client'[r][d] = Append(to_client[s][c], m)
    BY <1>1, <1>6
  <2>2. to_client[s][c] \in Seq(MessageType)
    BY <1>1
  <2>3. \A u : Has(Append(to_client[s][c], m), u) <=> Has(to_client[s][c], u) \/ u = m
    BY <2>2, HasAppend
  <2> QED
    BY <1>6, <2>1, <2>3
<1>7. ASSUME NEW d \in Clients, NEW r \in Servers,
             \A t \in MessageType : Has(to_client'[r][d], t) =>
               Has(to_client[r][d], t) \/ t = "echo" \/ (t = "files" /\ Enquired(d))
      PROVE  Talk(d, r)'
  <2>1. Talk(d, r)
    BY DEF GInv
  <2> QED
    BY <1>2, <1>3, <1>5, <1>7, <2>1 DEF Talk
<1>8. Wires'
  BY <1>2, <1>3 DEF GInv, Wires
<1>9. answered_early => answered_early'
  <2>1. \/ UNCHANGED answered_early
        \/ answered_early' = (answered_early \/ Garbage \in Range(server_client_sockfd[s]))
    BY <1>1, ThreadLemma
  <2> QED
    BY <2>1
<1>10. ForgetsOnlyEchoes'
  BY <1>2, <1>9 DEF GInv, ForgetsOnlyEchoes
<1>11. CASE to_client' = [to_client EXCEPT ![s][c] = Append(to_client[s][c], "echo")]
  <2>1. ASSUME NEW d \in Clients, NEW r \in Servers, NEW t \in MessageType,
               Has(to_client'[r][d], t)
        PROVE  Has(to_client[r][d], t) \/ t = "echo"
    BY <1>6, <1>11, <2>1 DEF MessageType
  <2>2. \A d \in Clients, r \in Servers : Talk(d, r)'
    BY <1>7, <2>1
  <2>3. Opened' => Opened
    BY <1>3, <2>1 DEF Opened, MessageType
  <2>4. Gate'
    BY <1>3, <1>9, <2>3 DEF GInv, Gate
  <2> QED
    BY <1>8, <1>10, <2>2, <2>4 DEF GInv
<1>12. CASE UNCHANGED to_client
  <2>1. \A d \in Clients, r \in Servers : Talk(d, r)'
    BY <1>7, <1>12
  <2>2. Opened' => Opened
    BY <1>3, <1>12 DEF Opened
  <2>3. Gate'
    BY <1>3, <1>9, <2>2 DEF GInv, Gate
  <2> QED
    BY <1>8, <1>10, <2>1, <2>3 DEF GInv
<1>13. CASE /\ AllClientsConnected(s) /\ to_server[c][s] # <<>>
            /\ Head(to_server[c][s]) = "enquiry"
            /\ to_client' = [to_client EXCEPT ![s][c] = Append(to_client[s][c], "files")]
            /\ answered_early' = (answered_early \/ Garbage \in Range(server_client_sockfd[s]))
  <2>1. to_server[c][s] \in Seq(MessageType)
    BY <1>1
  <2>2. Has(to_server[c][s], "enquiry")
    BY <1>13, <2>1, HasTail
  <2>3. Enquired(c)
    <3>1. Talk(c, s)
      BY DEF GInv
    <3> QED
      BY <2>2, <3>1 DEF Talk, MessageType
  <2>4. ASSUME NEW d \in Clients, NEW r \in Servers, NEW t \in MessageType,
               Has(to_client'[r][d], t)
        PROVE  Has(to_client[r][d], t) \/ (t = "files" /\ d = c)
    BY <1>6, <1>13, <2>4 DEF MessageType
  <2>5. \A d \in Clients, r \in Servers : Talk(d, r)'
    BY <1>7, <2>3, <2>4
  <2>6. ASSUME ~answered_early', NEW d \in Clients PROVE Past(d)
    <3>1. server_client_sockfd[s][d] # None
      BY <1>13 DEF AllClientsConnected
    <3>2. server_client_sockfd[s][d] # Garbage
      BY <1>1, <1>13, <2>6 DEF Range
    <3>3. Talk(d, s)
      BY DEF GInv
    <3> QED
      BY <3>1, <3>2, <3>3 DEF Talk
  <2>7. Gate'
    BY <1>3, <2>6 DEF Gate
  <2> QED
    BY <1>8, <1>10, <2>5, <2>7 DEF GInv
<1> QED
  BY <1>1, <1>11, <1>12, <1>13, ThreadLemma

\* Every step keeps the barrier.
LEMMA GateNext == TInv /\ PInv /\ VInv /\ GInv /\ [Next]_vars => GInv'
<1>1. ASSUME GInv, UNCHANGED vars PROVE GInv'
  <2>1. UNCHANGED <<step, critical_section_alg_init, forgotten, answered_early, to_server,
                    to_client, wire, server_client_sockfd>>
    BY <1>1 DEF vars, main, enquiry, peers, server, streams, history
  <2>2. (SomePrepared' <=> SomePrepared) /\ (SomePrepared => Opened)
    BY <2>1 DEF SomePrepared, Opened
  <2> QED
    BY <1>1, <2>1, <2>2, GateIdle
<1> QED
  BY <1>1, GateMain, GateEnquiry, GateHandle, GateServerMain, GateThread DEF Next

\* What is thrown away by reading once is an echo, as long as no server has
\* answered early: no request for a lock and no list of files is lost.
\* (client.cpp 86-91, 132; server.cpp 129-141)
THEOREM OnlyEchoesForgotten == Spec => []ForgetsOnlyEchoes
<1>1. GInv => ForgetsOnlyEchoes
  BY DEF GInv
<1> QED
  BY <1>1, TypeInit, TypeNext, PreparedInit, PreparedNext, VisitInit, VisitNext,
     GateInit, GateNext, PTL DEF Spec

-----------------------------------------------------------------------------
(***************************************************************************)
(* The clients pair up.                                                    *)
(***************************************************************************)

\* A connection is no empty place, and has two ends.
LEMMA Ends ==
  \A c, d : <<c, d>> # None /\ (c # d => <<c, d>> # <<d, c>>)
<1>1. \A c, d : Len(<<c, d>>) = 2
  OBVIOUS
<1>2. Len(None) = 0
  BY EmptySeq DEF None
<1> QED
  BY <1>1, <1>2

\* The addresses order the clients.
LEMMA LowerLemma ==
  ASSUME TypeOK, NEW c \in Clients, NEW d \in Clients, c # d
  PROVE  Lower(c, d) <=> ~Lower(d, c)
<1>1. /\ address \in [Clients -> Nat]
      /\ \A x, y \in Clients : address[x] = address[y] => x = y
  BY AddressesAssumption DEF TypeOK
<1>2. address[c] \in Nat /\ address[d] \in Nat /\ address[c] # address[d]
  BY <1>1
<1> QED
  BY <1>2 DEF Lower

\* At first nobody is connected.
LEMMA LinkInit == Init => LInv
<1> SUFFICES ASSUME Init PROVE LInv
  OBVIOUS
<1>1. ASSUME NEW c \in Clients PROVE Early(c) /\ next[c] = 0 /\ backlog[c] = <<>> /\ ~Past(c)
  BY DEF Init, Early, Past
<1>2. \A c, d \in Clients : ~Passed(c, d) /\ client_sockfd[c][d] = None
  BY DEF Init, Past, Passed
<1>3. ASSUME NEW c \in Clients PROVE Timely(c) /\ Counted(c) /\ Once(backlog[c])
  <2>1. Accepted(c) = {} /\ Awaited(c) = {}
    BY <1>2, Ends DEF Accepted, Awaited
  <2>2. Counted(c)
    BY <2>1, FS_EmptySet DEF Counted
  <2>3. Once(backlog[c])
    BY <1>1, EmptySeq DEF Once
  <2> QED
    BY <1>1, <2>2, <2>3 DEF Timely
<1>4. ASSUME NEW c \in Clients, NEW d \in Clients PROVE Linked(c, d)
  <2>1. ~Has(backlog[c], d)
    BY <1>1, HasNone
  <2> QED
    BY <1>1, <1>2, <2>1, Ends DEF Linked
<1> QED
  BY <1>3, <1>4 DEF LInv

\* Two clients between which nothing changes that matters.
LEMMA LinkedKept ==
  ASSUME NEW c \in Clients, NEW d \in Clients, Linked(c, d), address' = address,
         client_sockfd'[c][d] = client_sockfd[c][d],
         Has(backlog'[c], d) <=> Has(backlog[c], d),
         Lower(c, d) => (Passed(c, d)' <=> Passed(c, d)),
         Lower(d, c) => (Passed(d, c)' <=> Passed(d, c)),
         Past(c)' => Past(c)
  PROVE  Linked(c, d)'
<1>1. (Lower(c, d)' <=> Lower(c, d)) /\ (Lower(d, c)' <=> Lower(d, c))
  BY DEF Lower
<1> QED
  BY <1>1 DEF Linked

\* A client whose peers and whose place among them stay.
LEMMA CountedKept ==
  ASSUME NEW c \in Clients, Counted(c), Past(c) => Past(c)',
         Accepted(c)' = Accepted(c), Awaited(c)' = Awaited(c)
  PROVE  Counted(c)'
BY DEF Counted

\* A step outside the loops over the other clients.
LEMMA LinkQuiet ==
  ASSUME LInv, UNCHANGED <<address, client_sockfd, backlog>>,
         \A c \in Clients : Timely(c)' /\ (Past(c)' <=> Past(c)),
         \A c, d \in Clients : Passed(c, d)' <=> Passed(c, d)
  PROVE  LInv'
<1>1. ASSUME NEW c \in Clients PROVE Timely(c)' /\ Counted(c)' /\ Once(backlog[c])'
  <2>1. Accepted(c)' = Accepted(c)
    BY DEF Accepted
  <2>2. Awaited(c)' = Awaited(c)
    BY DEF Awaited, Lower
  <2>3. Counted(c) /\ Once(backlog[c])
    BY DEF LInv
  <2> QED
    BY <2>1, <2>2, <2>3, CountedKept
<1>2. ASSUME NEW c \in Clients, NEW d \in Clients, c # d PROVE Linked(c, d)'
  <2>1. Linked(c, d)
    BY <1>2 DEF LInv
  <2> QED
    BY <2>1, LinkedKept
<1> QED
  BY <1>1, <1>2 DEF LInv

\* Who has written its line has written it.
LEMMA StartedMain ==
  ASSUME TypeOK, LInv, NEW c \in Clients, MainThread(c)
  PROVE  /\ AllStarted => AllStarted'
         /\ \A d \in Clients : Timely(d)'
<1>1. /\ serving' = serving
      /\ \A d \in Clients \ {c} : step'[d] = step[d] /\ next'[d] = next[d]
      /\ HasLine(c) => HasLine(c)'
  BY MainFrame
<1>2. AllStarted => AllStarted'
  BY <1>1 DEF AllStarted, HasLine, ServerHasLine
<1>3. \A d \in Clients \ {c} : Timely(d)'
  BY <1>1, <1>2 DEF LInv, Timely, Early
<1>4. Timely(c)'
  <2>1. Timely(c)
    BY DEF LInv
  <2>2. CASE ~Early(c)
    <3>1. ~Early(c)'
      <4>1. step[c] = "peers" \/ Past(c)
        BY <2>2 DEF Early, Past
      <4>2. step[c] = "peers" => step'[c] \in {"peers", "servers"}
        BY DEF MainThread, StartServerSocket, WriteLine, WaitForAllNodes,
               ConnectToOtherClient, AcceptOtherClient, TestClientsCommunicate,
               ConnectToServer, TestServerCommunicate, EnquireListOfHostedFiles,
               SeeListFiles, RequestFirst, TypeOK
      <4>3. Past(c) => Past(c)'
        BY MainFrame
      <4> QED
        BY <4>1, <4>2, <4>3 DEF Early, Past
    <3> QED
      BY <1>2, <2>1, <2>2, <3>1 DEF Timely
  <2>3. CASE StartServerSocket(c) \/ WriteLine(c)
    BY <2>1, <2>3 DEF StartServerSocket, WriteLine, Timely, Early, TypeOK
  <2>4. CASE WaitForAllNodes(c)
    BY <1>2, <2>1, <2>4 DEF WaitForAllNodes, Timely, Early, TypeOK
  <2>5. CASE Early(c) /\ ~(StartServerSocket(c) \/ WriteLine(c) \/ WaitForAllNodes(c))
    BY <2>5 DEF MainThread, Early,
               ConnectToOtherClient, AcceptOtherClient, TestClientsCommunicate,
               ConnectToServer, TestServerCommunicate, EnquireListOfHostedFiles,
               SeeListFiles, RequestFirst
  <2> QED
    BY <2>2, <2>3, <2>4, <2>5
<1> QED
  BY <1>2, <1>3, <1>4

\* connectToOtherClients(), the client with the lower address: its peer listens
\* and finds it in the backlog.
LEMMA LinkConnect ==
  ASSUME TInv, LInv, NEW c \in Clients, ConnectToOtherClient(c)
  PROVE  LInv'
<1>1. /\ TypeOK /\ MainThread(c) /\ step[c] = "peers" /\ PeersLeft(c) # {}
      /\ UNCHANGED <<address, step>>
  BY DEF TInv, MainThread, ConnectToOtherClient
<1>2. PICK d \in Clients : d = Peer(c) /\ d # c
  BY <1>1, PeerLemma
<1>3. /\ d \in Nat /\ d >= next[c]
      /\ \A e \in Clients \ {c} : e < d + 1 <=> e < next[c] \/ e = d
  BY <1>1, <1>2, PeerLemma
<1>4. Listening(d)
  <2>1. Timely(c)
    BY DEF LInv
  <2> QED
    BY <1>1, <2>1 DEF Timely, Early, AllStarted, HasLine, Listening
<1>5. /\ Lower(c, d)
      /\ client_sockfd' = [client_sockfd EXCEPT ![c][d] = <<c, d>>]
      /\ backlog' = [backlog EXCEPT ![d] = Append(backlog[d], c)]
      /\ next' = [next EXCEPT ![c] = d + 1]
  BY <1>2, <1>4 DEF ConnectToOtherClient, Lower
<1>6. /\ client_sockfd \in [Clients -> [Clients -> Connections \union {None, Failed}]]
      /\ backlog \in [Clients -> Seq(Clients)] /\ next \in [Clients -> Nat]
  BY <1>1 DEF TypeOK
<1>7. /\ \A x \in Clients : Past(x)' <=> Past(x)
      /\ ~Past(c) /\ \A x \in Clients \ {c}, y \in Clients : Passed(x, y)' <=> Passed(x, y)
  BY <1>1, <1>5, <1>6 DEF Past, Passed
<1>8. /\ \A y \in Clients \ {c} : Passed(c, y)' <=> Passed(c, y) \/ y = d
      /\ ~Passed(c, d)
  <2>1. next'[c] = d + 1 /\ next[c] \in Nat
    BY <1>5, <1>6
  <2> QED
    BY <1>1, <1>3, <1>7, <2>1 DEF Passed
<1>9. ~Lower(d, c)
  BY <1>1, <1>2, <1>5, LowerLemma
<1>10. Linked(c, d) /\ Linked(d, c)
  BY <1>2 DEF LInv
<1>11. /\ ~Has(backlog[c], d) /\ client_sockfd[c][d] # <<d, c>>
       /\ ~Has(backlog[d], c) /\ client_sockfd[d][c] # <<c, d>>
  BY <1>8, <1>9, <1>10 DEF Linked
<1>12. /\ \A x : Has(Append(backlog[d], c), x) <=> Has(backlog[d], x) \/ x = c
       /\ Once(backlog[d]) => Once(Append(backlog[d], c))
  <2>1. backlog[d] \in Seq(Clients)
    BY <1>6
  <2> QED
    BY <1>11, <2>1, HasAppend
<1>13. /\ backlog'[d] = Append(backlog[d], c)
       /\ \A x \in Clients \ {d} : backlog'[x] = backlog[x]
       /\ client_sockfd'[c][d] = <<c, d>>
       /\ \A x, y \in Clients : x # c \/ y # d => client_sockfd'[x][y] = client_sockfd[x][y]
  BY <1>5, <1>6
<1>14. \A x \in Clients : Timely(x)'
  BY <1>1, StartedMain
<1>15. ASSUME NEW x \in Clients PROVE Once(backlog[x])'
  <2>1. Once(backlog[x])
    BY DEF LInv
  <2> QED
    BY <1>12, <1>13, <2>1
<1>16. ASSUME NEW x \in Clients PROVE Counted(x)'
  <2>1. Accepted(x)' = Accepted(x)
    <3>1. ASSUME NEW y \in Clients \ {x}
          PROVE  client_sockfd'[x][y] = <<y, x>> <=> client_sockfd[x][y] = <<y, x>>
      <4>1. CASE x = c /\ y = d
        BY <1>2, <1>11, <1>13, <4>1, Ends
      <4>2. CASE x # c \/ y # d
        BY <1>13, <4>2
      <4> QED
        BY <4>1, <4>2
    <3> QED
      BY <3>1 DEF Accepted
  <2>2. Awaited(x)' = Awaited(x)
    <3>1. ASSUME NEW y \in Clients \ {x}
          PROVE  Lower(y, x)' /\ Passed(x, y)' <=> Lower(y, x) /\ Passed(x, y)
      <4>1. Lower(y, x)' <=> Lower(y, x)
        BY <1>1 DEF Lower
      <4> QED
        BY <1>7, <1>8, <1>9, <4>1
    <3> QED
      BY <3>1 DEF Awaited
  <2>3. Counted(x)
    BY DEF LInv
  <2> QED
    BY <1>7, <2>1, <2>2, <2>3, CountedKept
<1>17. Linked(c, d)'
  <2>1. (Lower(c, d)' <=> Lower(c, d)) /\ (Lower(d, c)' <=> Lower(d, c))
    BY <1>1 DEF Lower
  <2>2. /\ client_sockfd'[c][d] = <<c, d>> /\ ~Has(backlog'[c], d)
        /\ Passed(c, d)' /\ ~Past(c)'
    BY <1>2, <1>7, <1>8, <1>11, <1>13
  <2> QED
    BY <1>2, <1>5, <1>9, <2>1, <2>2, Ends DEF Linked
<1>18. Linked(d, c)'
  <2>1. (Lower(c, d)' <=> Lower(c, d)) /\ (Lower(d, c)' <=> Lower(d, c))
    BY <1>1 DEF Lower
  <2>2. /\ client_sockfd'[d][c] = client_sockfd[d][c] /\ Has(backlog'[d], c)
        /\ Passed(c, d)' /\ (Past(d)' <=> Past(d))
    BY <1>2, <1>7, <1>8, <1>12, <1>13
  <2> QED
    BY <1>2, <1>5, <1>9, <1>10, <1>11, <2>1, <2>2, Ends DEF Linked
<1>19. ASSUME NEW x \in Clients, NEW y \in Clients, x # y, ~(x = c /\ y = d), ~(x = d /\ y = c)
       PROVE  Linked(x, y)'
  <2>1. Linked(x, y)
    BY <1>19 DEF LInv
  <2>2. Has(backlog'[x], y) <=> Has(backlog[x], y)
    BY <1>12, <1>13, <1>19
  <2>3. client_sockfd'[x][y] = client_sockfd[x][y]
    BY <1>13, <1>19
  <2>4. (Passed(x, y)' <=> Passed(x, y)) /\ (Passed(y, x)' <=> Passed(y, x))
    BY <1>7, <1>8, <1>19
  <2> QED
    BY <1>1, <1>7, <2>1, <2>2, <2>3, <2>4, LinkedKept
<1> QED
  BY <1>14, <1>15, <1>16, <1>17, <1>18, <1>19 DEF LInv

\* The client with the higher address: whoever is first in the backlog gets a
\* socket, and the count of the accepted keeps up with that of the loop.
LEMMA LinkAccept ==
  ASSUME TInv, LInv, NEW c \in Clients, AcceptOtherClient(c)
  PROVE  LInv'
<1>1. /\ TypeOK /\ MainThread(c) /\ step[c] = "peers" /\ PeersLeft(c) # {}
      /\ UNCHANGED <<address, step>>
      /\ backlog[c] # <<>> /\ ~Has(backlog[c], c)
  BY DEF TInv, MainThread, AcceptOtherClient
<1>2. PICK p \in Clients : p = Peer(c) /\ p # c
  BY <1>1, PeerLemma
<1>3. /\ p \in Nat /\ p >= next[c]
      /\ \A x \in Clients \ {c} : x < p + 1 <=> x < next[c] \/ x = p
  BY <1>1, <1>2, PeerLemma
<1>4. /\ client_sockfd \in [Clients -> [Clients -> Connections \union {None, Failed}]]
      /\ backlog \in [Clients -> Seq(Clients)] /\ next \in [Clients -> Nat]
  BY <1>1 DEF TypeOK
<1>5. PICK e \in Clients : e = Head(backlog[c])
  BY <1>1, <1>4, HasTail
<1>6. /\ Has(backlog[c], e) /\ e # c
      /\ \A x : Has(backlog[c], x) <=> Has(Tail(backlog[c]), x) \/ x = e
      /\ Once(Tail(backlog[c])) /\ ~Has(Tail(backlog[c]), e)
  <2>1. Once(backlog[c]) /\ backlog[c] \in Seq(Clients)
    BY <1>4 DEF LInv
  <2>2. /\ Has(backlog[c], e)
        /\ \A x : Has(backlog[c], x) <=> Has(Tail(backlog[c]), x) \/ x = e
        /\ Once(Tail(backlog[c])) /\ ~Has(Tail(backlog[c]), e)
    BY <1>1, <1>5, <2>1, HasTail
  <2> QED
    BY <1>1, <2>2
<1>7. /\ ~Lower(c, p)
      /\ client_sockfd' = [client_sockfd EXCEPT ![c][e] = <<e, c>>]
      /\ backlog' = [backlog EXCEPT ![c] = Tail(backlog[c])]
      /\ next' = [next EXCEPT ![c] = p + 1]
  BY <1>2, <1>5 DEF AcceptOtherClient, RealClientId, Lower
<1>8. /\ \A x \in Clients : Past(x)' <=> Past(x)
      /\ ~Past(c) /\ \A x \in Clients \ {c}, y \in Clients : Passed(x, y)' <=> Passed(x, y)
  BY <1>1, <1>4, <1>7 DEF Past, Passed
<1>9. /\ \A y \in Clients \ {c} : Passed(c, y)' <=> Passed(c, y) \/ y = p
      /\ ~Passed(c, p)
  <2>1. next'[c] = p + 1 /\ next[c] \in Nat
    BY <1>4, <1>7
  <2> QED
    BY <1>1, <1>2, <1>3, <1>8, <2>1 DEF Passed
<1>10. Lower(p, c)
  BY <1>1, <1>2, <1>7, LowerLemma
<1>11. Linked(c, e)
  BY <1>6 DEF LInv
<1>12. Lower(e, c) /\ Passed(e, c) /\ client_sockfd[c][e] # <<e, c>>
  BY <1>6, <1>11 DEF Linked
<1>13. ~Lower(c, e)
  BY <1>1, <1>6, <1>12, LowerLemma
<1>14. /\ backlog'[c] = Tail(backlog[c])
       /\ \A x \in Clients \ {c} : backlog'[x] = backlog[x]
       /\ client_sockfd'[c][e] = <<e, c>>
       /\ \A x, y \in Clients : x # c \/ y # e => client_sockfd'[x][y] = client_sockfd[x][y]
  BY <1>4, <1>7
<1>15. \A x \in Clients : Timely(x)'
  BY <1>1, StartedMain
<1>16. ASSUME NEW x \in Clients PROVE Once(backlog[x])'
  <2>1. Once(backlog[x])
    BY DEF LInv
  <2> QED
    BY <1>6, <1>14, <2>1
<1>17. \A x, y \in Clients : Lower(x, y)' <=> Lower(x, y)
  BY <1>1 DEF Lower
<1>18. Counted(c)'
  <2>1. Counted(c)
    BY DEF LInv
  <2>2. /\ IsFiniteSet(Accepted(c)) /\ IsFiniteSet(Awaited(c))
        /\ Cardinality(Accepted(c)) = Cardinality(Awaited(c))
    BY <1>8, <2>1 DEF Counted
  <2>3. e \notin Accepted(c) /\ p \notin Awaited(c)
    BY <1>9, <1>12 DEF Accepted, Awaited
  <2>4. Accepted(c)' = Accepted(c) \union {e}
    <3>1. \A y \in Clients \ {c} :
            client_sockfd'[c][y] = <<y, c>> <=> client_sockfd[c][y] = <<y, c>> \/ y = e
      BY <1>14
    <3> QED
      BY <1>6, <3>1 DEF Accepted
  <2>5. Awaited(c)' = Awaited(c) \union {p}
    <3>1. \A y \in Clients \ {c} :
            Lower(y, c)' /\ Passed(c, y)' <=> (Lower(y, c) /\ Passed(c, y)) \/ y = p
      BY <1>9, <1>10, <1>17
    <3> QED
      BY <1>2, <3>1 DEF Awaited
  <2>6. /\ IsFiniteSet(Accepted(c)')
        /\ Cardinality(Accepted(c)') = Cardinality(Accepted(c)) + 1
    BY <2>2, <2>3, <2>4, FS_AddElement
  <2>7. /\ IsFiniteSet(Awaited(c)')
        /\ Cardinality(Awaited(c)') = Cardinality(Awaited(c)) + 1
    BY <2>2, <2>3, <2>5, FS_AddElement
  <2> QED
    BY <2>2, <2>6, <2>7 DEF Counted
<1>19. ASSUME NEW x \in Clients, x # c PROVE Counted(x)'
  <2>1. Accepted(x)' = Accepted(x)
    BY <1>14, <1>19 DEF Accepted
  <2>2. Awaited(x)' = Awaited(x)
    BY <1>8, <1>17, <1>19 DEF Awaited
  <2>3. Counted(x)
    BY DEF LInv
  <2> QED
    BY <1>8, <2>1, <2>2, <2>3, CountedKept
<1>20. Linked(c, e)'
  <2>1. /\ client_sockfd'[c][e] = <<e, c>> /\ ~Has(backlog'[c], e)
        /\ Passed(e, c)' /\ ~Past(c)'
    BY <1>6, <1>8, <1>12, <1>14
  <2> QED
    BY <1>6, <1>12, <1>13, <1>17, <2>1, Ends DEF Linked
<1>21. ASSUME NEW x \in Clients, NEW y \in Clients, x # y, ~(x = c /\ y = e)
       PROVE  Linked(x, y)'
  <2>1. Linked(x, y)
    BY <1>21 DEF LInv
  <2>2. Has(backlog'[x], y) <=> Has(backlog[x], y)
    BY <1>6, <1>14, <1>21
  <2>3. client_sockfd'[x][y] = client_sockfd[x][y]
    BY <1>14, <1>21
  <2>4. /\ Lower(x, y) => (Passed(x, y)' <=> Passed(x, y))
        /\ Lower(y, x) => (Passed(y, x)' <=> Passed(y, x))
    BY <1>7, <1>8, <1>9, <1>21
  <2> QED
    BY <1>1, <1>8, <2>1, <2>2, <2>3, <2>4, LinkedKept
<1> QED
  BY <1>15, <1>16, <1>18, <1>19, <1>20, <1>21 DEF LInv

\* Once the loop is over, as many have been accepted as connect to c, so that c
\* has a socket for each of them.
LEMMA LinkTest ==
  ASSUME TInv, LInv, NEW c \in Clients, TestClientsCommunicate(c)
  PROVE  LInv'
<1>1. /\ TypeOK /\ MainThread(c) /\ step[c] = "peers" /\ PeersLeft(c) = {}
      /\ UNCHANGED <<address, client_sockfd, backlog>>
      /\ step' = [step EXCEPT ![c] = "servers"]
      /\ step \in [Clients -> Steps] /\ next \in [Clients -> Nat]
      /\ \A d \in Clients \ {c} : next'[d] = next[d]
  BY DEF TInv, MainThread, TestClientsCommunicate, TypeOK
<1>2. \A d \in Clients \ {c} : Passed(c, d)
  <2> SUFFICES ASSUME NEW d \in Clients \ {c} PROVE d < next[c]
    BY <1>1 DEF Passed
  <2>1. d \in Nat /\ next[c] \in Nat
    BY <1>1, IdsAssumption
  <2>2. ~(d >= next[c])
    BY <1>1 DEF PeersLeft
  <2> QED
    BY <2>1, <2>2
<1>3. /\ Past(c)' /\ ~Past(c)
      /\ \A d \in Clients \ {c} : Past(d)' <=> Past(d)
  BY <1>1 DEF Past
<1>4. /\ \A x, y \in Clients : x # y => (Passed(x, y)' <=> Passed(x, y))
      /\ \A x, y \in Clients : Lower(x, y)' <=> Lower(x, y)
  BY <1>1, <1>2, <1>3 DEF Passed, Lower
<1>5. ASSUME NEW d \in Clients, c # d PROVE client_sockfd[c][d] # None
  <2>1. Linked(c, d)
    BY <1>5 DEF LInv
  <2>2. CASE Lower(c, d)
    BY <1>2, <1>5, <2>1, <2>2, Ends DEF Linked
  <2>3. CASE Lower(d, c)
    <3>1. Counted(c)
      BY DEF LInv
    <3>2. /\ IsFiniteSet(Awaited(c))
          /\ Cardinality(Accepted(c)) = Cardinality(Awaited(c))
      BY <1>3, <3>1 DEF Counted
    <3>3. Accepted(c) \subseteq Awaited(c)
      <4> SUFFICES ASSUME NEW x \in Accepted(c) PROVE x \in Awaited(c)
        OBVIOUS
      <4>1. x \in Clients /\ x # c /\ client_sockfd[c][x] = <<x, c>>
        BY DEF Accepted
      <4>2. Linked(c, x)
        BY <4>1 DEF LInv
      <4>3. Lower(x, c)
        BY <4>1, <4>2 DEF Linked
      <4> QED
        BY <1>2, <4>1, <4>3 DEF Awaited
    <3>4. Accepted(c) = Awaited(c)
      BY <3>2, <3>3, FS_Subset
    <3>5. d \in Awaited(c)
      BY <1>2, <1>5, <2>3 DEF Awaited
    <3>6. client_sockfd[c][d] = <<d, c>>
      BY <3>4, <3>5 DEF Accepted
    <3> QED
      BY <3>6, Ends
  <2> QED
    BY <1>1, <1>5, <2>2, <2>3, LowerLemma
<1>6. \A x \in Clients : Timely(x)'
  BY <1>1, StartedMain
<1>7. ASSUME NEW x \in Clients PROVE Counted(x)' /\ Once(backlog[x])'
  <2>1. Counted(x) /\ Once(backlog[x])
    BY DEF LInv
  <2>2. CASE x = c
    BY <1>1, <1>3, <2>1, <2>2 DEF Counted
  <2>3. CASE x # c
    <3>1. Accepted(x)' = Accepted(x)
      BY <1>1 DEF Accepted
    <3>2. Awaited(x)' = Awaited(x)
      BY <1>4 DEF Awaited
    <3> QED
      BY <1>1, <1>3, <2>1, <2>3, <3>1, <3>2, CountedKept
  <2> QED
    BY <2>2, <2>3
<1>8. ASSUME NEW x \in Clients, NEW y \in Clients, x # y PROVE Linked(x, y)'
  <2>1. Linked(x, y)
    BY <1>8 DEF LInv
  <2>2. CASE x # c
    BY <1>1, <1>3, <1>4, <1>8, <2>1, <2>2, LinkedKept
  <2>3. CASE x = c
    <3>1. client_sockfd'[c][y] = client_sockfd[c][y] /\ client_sockfd[c][y] # None
      BY <1>1, <1>5, <1>8, <2>3
    <3> QED
      BY <1>1, <1>4, <1>8, <2>1, <2>3, <3>1 DEF Linked
  <2> QED
    BY <2>2, <2>3
<1> QED
  BY <1>6, <1>7, <1>8 DEF LInv

\* A main thread.
LEMMA LinkMain ==
  ASSUME TInv, LInv, NEW c \in Clients, MainThread(c)
  PROVE  LInv'
<1>1. /\ TypeOK /\ step \in [Clients -> Steps] /\ next \in [Clients -> Nat]
      /\ \A d \in Clients \ {c} : step'[d] = step[d] /\ next'[d] = next[d]
      /\ Past(c) => Past(c)'
      /\ address' = address
  BY MainFrame DEF TInv, TypeOK
<1>2. \A x \in Clients : Timely(x)'
  BY <1>1, StartedMain
<1>3. ASSUME UNCHANGED <<client_sockfd, backlog>>, Past(c)' <=> Past(c),
             \A d \in Clients : Passed(c, d)' <=> Passed(c, d)
      PROVE  LInv'
  <2>1. \A x \in Clients : Past(x)' <=> Past(x)
    BY <1>1, <1>3 DEF Past
  <2>2. \A x, y \in Clients : Passed(x, y)' <=> Passed(x, y)
    BY <1>1, <1>3 DEF Passed, Past
  <2> QED
    BY <1>1, <1>2, <1>3, <2>1, <2>2, LinkQuiet
<1>4. CASE StartServerSocket(c) \/ WriteLine(c) \/ WaitForAllNodes(c)
  <2>1. /\ UNCHANGED <<client_sockfd, backlog>> /\ Early(c) /\ next'[c] = next[c]
        /\ step'[c] \in {"listening", "waiting", "peers"}
    BY <1>1, <1>4 DEF StartServerSocket, WriteLine, WaitForAllNodes, peers, Early
  <2>2. next[c] = 0
    BY <2>1 DEF LInv, Timely
  <2>3. \A d \in Clients : ~(d < next'[c])
    BY <2>1, <2>2, IdsAssumption
  <2>4. ~Past(c) /\ ~Past(c)'
    BY <2>1 DEF Early, Past
  <2>5. \A d \in Clients : ~Passed(c, d) /\ ~Passed(c, d)'
    BY <2>1, <2>3, <2>4 DEF Passed, Early
  <2> QED
    BY <1>3, <2>1, <2>4, <2>5
<1>5. CASE \/ ConnectToServer(c) \/ TestServerCommunicate(c)
           \/ EnquireListOfHostedFiles(c) \/ SeeListFiles(c) \/ RequestFirst(c)
  <2>1. UNCHANGED <<client_sockfd, backlog>> /\ Past(c)
    BY <1>5 DEF ConnectToServer, TestServerCommunicate, EnquireListOfHostedFiles,
                SeeListFiles, RequestFirst, peers, Past
  <2>2. Past(c)'
    BY <1>1, <2>1
  <2>3. \A d \in Clients : Passed(c, d) /\ Passed(c, d)'
    BY <2>1, <2>2 DEF Passed
  <2> QED
    BY <1>3, <2>1, <2>2, <2>3
<1> QED
  BY <1>4, <1>5, LinkConnect, LinkAccept, LinkTest DEF MainThread

\* A step of another thread, or of a server.
LEMMA LinkIdle ==
  ASSUME LInv, UNCHANGED <<address, step, next, client_sockfd, backlog>>,
         \A s \in Servers : ServerHasLine(s) => ServerHasLine(s)'
  PROVE  LInv'
<1>1. AllStarted => AllStarted'
  BY DEF AllStarted, HasLine
<1>2. \A c \in Clients : Timely(c)'
  BY <1>1 DEF LInv, Timely, Early
<1>3. /\ \A c \in Clients : Past(c)' <=> Past(c)
      /\ \A c, d \in Clients : Passed(c, d)' <=> Passed(c, d)
  BY DEF Past, Passed
<1> QED
  BY <1>2, <1>3, LinkQuiet

\* Every step keeps the pairs.
LEMMA LinkNext == TInv /\ LInv /\ [Next]_vars => LInv'
<1> SUFFICES ASSUME TInv, LInv, [Next]_vars PROVE LInv'
  OBVIOUS
<1>1. TypeOK
  BY DEF TInv
<1>2. ASSUME NEW c \in Clients, EnquiryThread(c) PROVE LInv'
  BY <1>2, LinkIdle
  DEF EnquiryThread, ReceiveEnquireResult, SetEnquiryDone, AssignListFiles, main, peers,
      server, ServerHasLine
<1>3. ASSUME NEW c \in Clients, NEW d \in Clients, HandleClientMessages(c, d) PROVE LInv'
  BY <1>3, LinkIdle DEF HandleClientMessages, main, server, ServerHasLine
<1>4. ASSUME NEW s \in Servers, ServerStarts(s) PROVE LInv'
  <2>1. /\ UNCHANGED <<address, step, next, client_sockfd, backlog>>
        /\ serving[s] \in {"down", "listening"}
        /\ \E v : serving' = [serving EXCEPT ![s] = v]
    BY <1>4 DEF ServerStarts, main, peers
  <2>2. \A r \in Servers : ServerHasLine(r) => ServerHasLine(r)'
    BY <1>1, <2>1 DEF ServerHasLine, TypeOK
  <2> QED
    BY <2>1, <2>2, LinkIdle
<1>5. ASSUME NEW s \in Servers, ServeClient(s) PROVE LInv'
  <2>1. /\ UNCHANGED <<address, step, next, client_sockfd, backlog>>
        /\ serving' \in {serving, [serving EXCEPT ![s] = "joining"]}
    BY <1>1, <1>5, ServeLemma DEF main, peers
  <2>2. \A r \in Servers : ServerHasLine(r) => ServerHasLine(r)'
    BY <1>1, <2>1 DEF ServerHasLine, TypeOK
  <2> QED
    BY <2>1, <2>2, LinkIdle
<1>6. ASSUME NEW s \in Servers, NEW c \in Clients, ServerThread(s, c) PROVE LInv'
  <2>1. UNCHANGED <<address, step, next, client_sockfd, backlog, serving>>
    BY <1>1, <1>6, ThreadLemma DEF main, peers
  <2> QED
    BY <2>1, LinkIdle DEF ServerHasLine
<1>7. CASE UNCHANGED vars
  BY <1>7, LinkIdle DEF vars, main, peers, server, ServerHasLine
<1> QED
  BY <1>2, <1>3, <1>4, <1>5, <1>6, <1>7, LinkMain DEF Next, ServerMainThread

\* Two clients never use two different connections for each other.
LEMMA Paired == TInv /\ LInv => SocketsPairUp
<1> SUFFICES ASSUME TInv, LInv, NEW c \in Clients, NEW d \in Clients, c # d
             PROVE  /\ client_sockfd[c][d] \in {None, <<c, d>>, <<d, c>>}
                    /\ None \in {client_sockfd[c][d], client_sockfd[d][c]}
                         \/ client_sockfd[c][d] = client_sockfd[d][c]
                    /\ step[c] \notin {"down", "listening", "waiting", "peers"}
                         => client_sockfd[c][d] # None
  BY DEF SocketsPairUp
<1>1. Linked(c, d) /\ Linked(d, c)
  BY DEF LInv
<1>2. Lower(c, d) <=> ~Lower(d, c)
  BY LowerLemma DEF TInv
<1>3. client_sockfd[c][d] = <<d, c>> => Lower(d, c)
  BY <1>1 DEF Linked
<1>4. client_sockfd[d][c] = <<c, d>> => Lower(c, d)
  BY <1>1 DEF Linked
<1>5. client_sockfd[c][d] = <<c, d>> => Lower(c, d)
  BY <1>1 DEF Linked
<1>6. client_sockfd[d][c] = <<d, c>> => Lower(d, c)
  BY <1>1 DEF Linked
<1>7. /\ client_sockfd[c][d] \in {None, <<c, d>>, <<d, c>>}
      /\ client_sockfd[d][c] \in {None, <<d, c>>, <<c, d>>}
      /\ Past(c) => client_sockfd[c][d] # None
  BY <1>1 DEF Linked
<1> QED
  BY <1>2, <1>3, <1>4, <1>5, <1>6, <1>7 DEF Past

\* Every socket is under the id of the client at its other end, two clients use
\* the same connection for each other, and a client that is through with its
\* loop has a socket for every other one, whatever the order of the addresses
\* and of the arrivals.  (client.cpp 72-121, node.cpp 53-72)
THEOREM PairsUp == Spec => []SocketsPairUp
BY Paired, TypeInit, TypeNext, LinkInit, LinkNext, PTL DEF Spec

=============================================================================
