------------------------ MODULE RicartAgrawalaProofs ------------------------
(***************************************************************************)
(* Proofs about RicartAgrawala, for every number of clients and requests.  *)
(***************************************************************************)
EXTENDS RicartAgrawala, SequenceTheorems, TLAPS

USE DEF Location, Others

-----------------------------------------------------------------------------
(***************************************************************************)
(* What appending to a stream and taking from it do to Has and HasTwo.     *)
(***************************************************************************)

\* Sending m: a stream carries what it carried before, and m.
LEMMA SendLemma ==
  ASSUME NEW q \in Seq(Message), NEW m \in Message, NEW t, NEW s
  PROVE  /\ Append(q, m) \in Seq(Message)
         /\ Has(Append(q, m), t) <=> Has(q, t) \/ m.type = t
         /\ HasTwo(Append(q, m), t) <=> HasTwo(q, t) \/ (Has(q, t) /\ m.type = t)
         /\ Numbered(Append(q, m), s)
              <=> Numbered(q, s) /\ (m.type = "REQUEST" => m.seq = s)
<1> DEFINE r == Append(q, m)
<1>1. /\ r \in Seq(Message)
      /\ Len(r) = Len(q) + 1
      /\ r[Len(q) + 1] = m
      /\ Len(q) \in Nat
      /\ \A k \in 1 .. Len(q) : r[k] = q[k]
  OBVIOUS
<1> HIDE DEF r
<1>2. \A k : k \in 1 .. Len(r) <=> k \in 1 .. Len(q) \/ k = Len(q) + 1
  BY <1>1
<1>3. Len(q) + 1 \notin 1 .. Len(q)
  BY <1>1
<1>4. Has(r, t) <=> Has(q, t) \/ m.type = t
  BY <1>1, <1>2 DEF Has
<1>5. HasTwo(r, t) <=> HasTwo(q, t) \/ (Has(q, t) /\ m.type = t)
  <2>1. HasTwo(q, t) => HasTwo(r, t)
    BY <1>1, <1>2 DEF HasTwo
  <2>2. Has(q, t) /\ m.type = t => HasTwo(r, t)
    BY <1>1, <1>2, <1>3 DEF HasTwo, Has
  <2>3. HasTwo(r, t) => HasTwo(q, t) \/ (Has(q, t) /\ m.type = t)
    BY <1>1, <1>2, <1>3 DEF HasTwo, Has
  <2> QED
    BY <2>1, <2>2, <2>3
<1>6. Numbered(r, s) <=> Numbered(q, s) /\ (m.type = "REQUEST" => m.seq = s)
  BY <1>1, <1>2 DEF Numbered
<1> QED
  BY <1>1, <1>4, <1>5, <1>6 DEF r

\* A stream with two messages of a type has one.
LEMMA TwoLemma == ASSUME NEW q, NEW t, ~Has(q, t) PROVE ~HasTwo(q, t)
BY DEF Has, HasTwo

\* Sending a REQUEST numbered s.
LEMMA SendRequestLemma ==
  ASSUME NEW q \in Seq(Message), NEW s \in Nat, NEW r, r = Append(q, Request(s))
  PROVE  /\ Has(r, "REQUEST")
         /\ Has(r, "REPLY") <=> Has(q, "REPLY")
         /\ HasTwo(r, "REPLY") <=> HasTwo(q, "REPLY")
         /\ ~Has(q, "REQUEST") => ~HasTwo(r, "REQUEST")
         /\ ~Has(q, "REQUEST") => Numbered(r, s)
<1>1. Request(s) \in Message /\ Request(s).type = "REQUEST" /\ Request(s).seq = s
  BY DEF Request, Message
<1>2. ~Has(q, "REQUEST") => Numbered(q, s)
  BY DEF Has, Numbered
<1> HIDE DEF Request
<1>3. Has(r, "REQUEST") /\ (Has(r, "REPLY") <=> Has(q, "REPLY"))
  BY <1>1, SendLemma
<1>4. HasTwo(r, "REPLY") <=> HasTwo(q, "REPLY")
  BY <1>1, SendLemma
<1>5. ~Has(q, "REQUEST") => ~HasTwo(r, "REQUEST") /\ Numbered(r, s)
  BY <1>1, <1>2, SendLemma, TwoLemma
<1> QED
  BY <1>3, <1>4, <1>5

\* Sending a REPLY.
LEMMA SendReplyLemma ==
  ASSUME NEW q \in Seq(Message), NEW r, r = Append(q, Reply)
  PROVE  /\ Has(r, "REPLY")
         /\ Has(r, "REQUEST") <=> Has(q, "REQUEST")
         /\ HasTwo(r, "REQUEST") <=> HasTwo(q, "REQUEST")
         /\ ~Has(q, "REPLY") => ~HasTwo(r, "REPLY")
         /\ \A s : Numbered(q, s) => Numbered(r, s)
<1>1. Reply \in Message /\ Reply.type = "REPLY"
  BY DEF Reply, Message
<1>2. Has(r, "REPLY") /\ (Has(r, "REQUEST") <=> Has(q, "REQUEST"))
  BY <1>1, SendLemma
<1>3. HasTwo(r, "REQUEST") <=> HasTwo(q, "REQUEST")
  BY <1>1, SendLemma
<1>4. ~Has(q, "REPLY") => ~HasTwo(r, "REPLY")
  BY <1>1, SendLemma, TwoLemma
<1>5. ASSUME NEW s, Numbered(q, s) PROVE Numbered(r, s)
  BY <1>1, <1>5, SendLemma
<1> QED
  BY <1>2, <1>3, <1>4, <1>5

\* treat_request_message() sends a REPLY, then a REQUEST.
LEMMA SendTwo ==
  ASSUME NEW q \in Seq(Message), NEW x \in Message, NEW y \in Message
  PROVE  q \o <<x, y>> = Append(Append(q, x), y)
<1>1. <<x>> \in Seq(Message) /\ <<y>> \in Seq(Message) /\ <<x, y>> = <<x>> \o <<y>>
  <2>1. <<x>> \in Seq(Message) /\ <<y>> \in Seq(Message)
    OBVIOUS
  <2>2. <<x, y>> = Append(<<x>>, y)
    OBVIOUS
  <2>3. Append(<<x>>, y) = <<x>> \o <<y>>
    BY <2>1
  <2> QED
    BY <2>1, <2>2, <2>3
<1>2. q \o (<<x>> \o <<y>>) = (q \o <<x>>) \o <<y>>
  BY <1>1, ConcatAssociative
<1>3. q \o <<x>> = Append(q, x) /\ Append(q, x) \in Seq(Message)
  OBVIOUS
<1>4. Append(q, x) \o <<y>> = Append(Append(q, x), y)
  BY <1>3
<1> QED
  BY <1>1, <1>2, <1>3, <1>4

\* Taking the first message: the stream carries the others.
LEMMA TakeLemma ==
  ASSUME NEW q \in Seq(Message), q # <<>>, NEW t, NEW s
  PROVE  /\ Tail(q) \in Seq(Message)
         /\ Head(q) \in Message
         /\ Has(q, Head(q).type)
         /\ Has(Tail(q), t) => Has(q, t)
         /\ Head(q).type # t => (Has(Tail(q), t) <=> Has(q, t))
         /\ Head(q).type = t /\ ~HasTwo(q, t) => ~Has(Tail(q), t)
         /\ HasTwo(Tail(q), t) => HasTwo(q, t)
         /\ Numbered(q, s) => Numbered(Tail(q), s)
         /\ Numbered(q, s) /\ Head(q).type = "REQUEST" => Head(q).seq = s
<1> DEFINE r == Tail(q)
<1>1. /\ r \in Seq(Message)
      /\ Len(r) = Len(q) - 1
      /\ Len(q) \in Nat \ {0}
      /\ Head(q) = q[1]
      /\ Head(q) \in Message
      /\ \A k \in 1 .. Len(r) : r[k] = q[k + 1]
  BY HeadTailProperties, EmptySeq
<1> HIDE DEF r
<1>2. \A k \in 1 .. Len(r) : k + 1 \in 1 .. Len(q) /\ k + 1 # 1
  BY <1>1
<1>3. \A k \in 1 .. Len(q) : k = 1 \/ (k - 1 \in 1 .. Len(r) /\ r[k - 1] = q[k])
  BY <1>1
<1>4. 1 \in 1 .. Len(q)
  BY <1>1
<1>5. Has(q, Head(q).type)
  BY <1>1, <1>4 DEF Has
<1>6. Has(r, t) => Has(q, t)
  BY <1>1, <1>2 DEF Has
<1>7. Head(q).type # t /\ Has(q, t) => Has(r, t)
  BY <1>1, <1>3 DEF Has
<1>8. Head(q).type = t /\ Has(r, t) => HasTwo(q, t)
  BY <1>1, <1>2, <1>4 DEF Has, HasTwo
<1>9. HasTwo(r, t) => HasTwo(q, t)
  <2> SUFFICES ASSUME NEW k \in 1 .. Len(r), NEW l \in 1 .. Len(r), k # l,
                      r[k].type = t, r[l].type = t
               PROVE  HasTwo(q, t)
    BY DEF HasTwo
  <2>1. /\ k + 1 \in 1 .. Len(q) /\ l + 1 \in 1 .. Len(q)
        /\ k + 1 # l + 1
        /\ q[k + 1].type = t /\ q[l + 1].type = t
    BY <1>1, <1>2
  <2> QED
    BY <2>1 DEF HasTwo
<1>10. Numbered(q, s) => Numbered(r, s)
  BY <1>1, <1>2 DEF Numbered
<1>11. Numbered(q, s) /\ Head(q).type = "REQUEST" => Head(q).seq = s
  BY <1>1, <1>4 DEF Numbered
<1> QED
  BY <1>1, <1>5, <1>6, <1>7, <1>8, <1>9, <1>10, <1>11 DEF r

-----------------------------------------------------------------------------
(***************************************************************************)
(* Type correctness.                                                       *)
(***************************************************************************)

\* A stream of the network is a sequence of messages.
LEMMA StreamType ==
  ASSUME TypeOK, NEW i \in Clients, NEW j \in Clients
  PROVE  network[i][j] \in Seq(Message)
<1>1. network \in [Clients -> [Clients -> Seq(Message)]]
  BY DEF TypeOK
<1> QED
  BY <1>1

\* Sending one message to several clients keeps the type of the network.
LEMMA MulticastType ==
  ASSUME TypeOK, NEW i \in Clients, NEW dests, NEW m \in Message
  PROVE  [network EXCEPT ![i] = Multicast(i, dests, m)]
           \in [Clients -> [Clients -> Seq(Message)]]
<1>1. \A j \in Clients : Append(network[i][j], m) \in Seq(Message)
  BY StreamType
<1> QED
  BY <1>1 DEF TypeOK, Multicast

\* Taking a message from one client and answering it keeps the type of the network.
LEMMA ExchangeType ==
  ASSUME TypeOK, NEW i \in Clients, NEW j \in Others(i), network[j][i] # <<>>,
         NEW out \in Seq(Message)
  PROVE  [network EXCEPT ![j][i] = Tail(@), ![i][j] = @ \o out]
           \in [Clients -> [Clients -> Seq(Message)]]
<1>1. Tail(network[j][i]) \in Seq(Message)
  BY TakeLemma, StreamType
<1>2. network[i][j] \o out \in Seq(Message)
  <2>1. network[i][j] \in Seq(Message)
    BY StreamType
  <2> QED
    BY <2>1
<1> QED
  BY <1>1, <1>2 DEF TypeOK

\* What the strategies send are messages.
LEMMA MessageTypes ==
  /\ Reply \in Message
  /\ \A s \in Nat : Request(s) \in Message
  /\ <<>> \in Seq(Message)
  /\ <<Reply>> \in Seq(Message)
  /\ \A s \in Nat : <<Reply, Request(s)>> \in Seq(Message)
BY DEF Reply, Request, Message

\* The types hold at first.
LEMMA TypeInit == Init => TypeOK
<1> SUFFICES ASSUME Init PROVE TypeOK
  OBVIOUS
<1>1. network \in [Clients -> [Clients -> Seq(Message)]]
  BY MessageTypes DEF Init
<1>2. n_requested_requests \in [Clients -> 0 .. n_requests]
  BY RequestsAssumption DEF Init
<1> QED
  BY <1>1, <1>2 DEF Init, TypeOK

\* Every step keeps the types.
LEMMA TypeNext == TypeOK /\ [Next]_vars => TypeOK'
<1> SUFFICES ASSUME TypeOK, [Next]_vars PROVE TypeOK'
  OBVIOUS
<1> USE RequestsAssumption
<1>1. ASSUME NEW i \in Clients, RequestResource(i) PROVE TypeOK'
  <2>1. NextNumber(i) \in Nat /\ Request(NextNumber(i)) \in Message
    BY MessageTypes DEF TypeOK, NextNumber
  <2>2. network' \in [Clients -> [Clients -> Seq(Message)]]
    BY <1>1, <2>1, MulticastType DEF RequestResource
  <2> QED
    BY <1>1, <2>1, <2>2 DEF RequestResource, TypeOK
<1>2. ASSUME NEW i \in Clients, CanEnterCriticalSection(i) PROVE TypeOK'
  BY <1>2 DEF CanEnterCriticalSection, TypeOK, state
<1>3. ASSUME NEW i \in Clients, EnterCriticalSection(i) PROVE TypeOK'
  BY <1>3 DEF EnterCriticalSection, TypeOK
<1>4. ASSUME NEW i \in Clients, ReleaseResource(i) PROVE TypeOK'
  <2>1. network' \in [Clients -> [Clients -> Seq(Message)]]
    BY <1>4, MessageTypes, MulticastType DEF ReleaseResource
  <2> QED
    BY <1>4, <2>1 DEF ReleaseResource, TypeOK
<1>5. ASSUME NEW i \in Clients, NEW j \in Others(i), TreatReply(i, j)
      PROVE  TypeOK'
  <2>1. network' \in [Clients -> [Clients -> Seq(Message)]]
    BY <1>5, MessageTypes, ExchangeType DEF TreatReply, Arrives, Exchange
  <2> QED
    BY <1>5, <2>1 DEF TreatReply, TypeOK
<1>6. ASSUME NEW i \in Clients, NEW j \in Others(i), ReceiveRequest(i, j)
      PROVE  Theirs(i, j) \in Nat /\ hgst_sequence_number' \in [Clients -> Nat]
  <2>1. Head(network[j][i]) \in Message
    BY <1>6, TakeLemma, StreamType DEF ReceiveRequest, Arrives
  <2> QED
    BY <1>6, <2>1 DEF ReceiveRequest, TypeOK, Theirs, Message
<1>7. ASSUME NEW i \in Clients, NEW j \in Others(i), DeferReply(i, j)
      PROVE  TypeOK'
  <2>1. network' \in [Clients -> [Clients -> Seq(Message)]]
    BY <1>7, MessageTypes, ExchangeType
    DEF DeferReply, ReceiveRequest, Arrives, Exchange
  <2>2. hgst_sequence_number' \in [Clients -> Nat]
    BY <1>6, <1>7 DEF DeferReply
  <2> QED
    BY <1>7, <2>1, <2>2 DEF DeferReply, ReceiveRequest, TypeOK
<1>8. ASSUME NEW i \in Clients, NEW j \in Others(i), GrantReply(i, j)
      PROVE  TypeOK'
  <2>1. network' \in [Clients -> [Clients -> Seq(Message)]]
    BY <1>8, MessageTypes, ExchangeType
    DEF GrantReply, ReceiveRequest, Arrives, Exchange
  <2>2. hgst_sequence_number' \in [Clients -> Nat]
    BY <1>6, <1>8 DEF GrantReply
  <2> QED
    BY <1>8, <2>1, <2>2 DEF GrantReply, ReceiveRequest, TypeOK
<1>9. ASSUME NEW i \in Clients, NEW j \in Others(i), YieldPermission(i, j)
      PROVE  TypeOK'
  <2>1. <<Reply, Request(our_sequence_number[i])>> \in Seq(Message)
    BY MessageTypes DEF TypeOK
  <2>2. network' \in [Clients -> [Clients -> Seq(Message)]]
    BY <1>9, <2>1, ExchangeType
    DEF YieldPermission, ReceiveRequest, Arrives, Exchange
  <2>3. hgst_sequence_number' \in [Clients -> Nat]
    BY <1>6, <1>9 DEF YieldPermission
  <2> QED
    BY <1>9, <2>2, <2>3 DEF YieldPermission, ReceiveRequest, TypeOK
<1>10. CASE UNCHANGED vars
  BY <1>10 DEF vars, state, TypeOK
<1> QED
  BY <1>1, <1>2, <1>3, <1>4, <1>5, <1>7, <1>8, <1>9, <1>10
  DEF Next, MainThread, ReceiveThread, Terminated

\* The declarations of RACriticalSectionAlgStrategy.h are respected by every
\* block, and is_waiting and is_using follow the main thread through
\* request_resource(), enter_critical_section() and release_resource().
THEOREM TypeCorrect == Spec => []TypeOK
BY TypeInit, TypeNext, PTL DEF Spec

-----------------------------------------------------------------------------
(***************************************************************************)
(* The inductive invariant.                                                *)
(***************************************************************************)

\* A step that leaves alone what i and j share, lets i see more numbers and
\* does not bring i into the critical section.
LEMMA SafeUndisturbed ==
  ASSUME NEW i \in Clients, NEW j \in Others(i), Safe(i, j), TypeOK, TypeOK',
         network'[i][j] = network[i][j], network'[j][i] = network[j][i],
         A'[i][j] <=> A[i][j], A'[j][i] <=> A[j][i],
         reply_deferred'[i][j] <=> reply_deferred[i][j],
         reply_deferred'[j][i] <=> reply_deferred[j][i],
         is_waiting'[i] = is_waiting[i],
         pc'[i] \in {"entering", "critical"}
           => pc[i] \in {"entering", "critical"} \/ A[i][j],
         our_sequence_number'[i] = our_sequence_number[i],
         our_sequence_number'[j] = our_sequence_number[j],
         hgst_sequence_number[i] <= hgst_sequence_number'[i]
  PROVE  Safe(i, j)'
<1>1. /\ hgst_sequence_number[i] \in Nat /\ hgst_sequence_number'[i] \in Nat
      /\ our_sequence_number[j] \in Nat
  BY DEF TypeOK
<1>2. (OnePermission(i, j) /\ OneRequest(i, j))'
  BY DEF Safe, OnePermission, OneRequest, Asked, InFlight
<1>3. (pc[i] \in {"entering", "critical"} => A[i][j])'
  BY DEF Safe
<1>4. Before(j, i)' <=> Before(j, i)
  BY DEF Before
<1>5. (reply_deferred[i][j] \/ InFlight(i, j, "REPLY")
        => our_sequence_number[j] <= hgst_sequence_number[i])'
  BY <1>1 DEF Safe, InFlight
<1>6. (Numbered(network[i][j], our_sequence_number[i]))'
  BY DEF Safe
<1>7. (InFlight(i, j, "REPLY")
       /\ (InFlight(i, j, "REQUEST") \/ reply_deferred[j][i]) => Before(j, i))'
  BY <1>4 DEF Safe, InFlight
<1> QED
  BY <1>2, <1>3, <1>5, <1>6, <1>7 DEF Safe

\* What the other client of a pair knows: Before is a total order on clients.
LEMMA BeforeTotal ==
  ASSUME TypeOK, NEW i \in Clients, NEW j \in Others(i)
  PROVE  Before(i, j) <=> ~Before(j, i)
<1>1. our_sequence_number[i] \in Nat /\ our_sequence_number[j] \in Nat
  BY DEF TypeOK
<1>2. i \in Int /\ j \in Int /\ i # j
  BY NAssumption DEF Clients
<1> QED
  BY <1>1, <1>2 DEF Before

\* A request for the file keeps Safe of every pair.
LEMMA SafeRequest ==
  ASSUME TypeOK, TypeOK', NEW k \in Clients, RequestResource(k),
         NEW i \in Clients, NEW j \in Others(i), Safe(i, j), Safe(j, i)
  PROVE  Safe(i, j)'
<1> DEFINE s == NextNumber(k)
<1>1. s \in Nat /\ s = hgst_sequence_number[k] + 1 /\ Request(s) \in Message
  <2>1. hgst_sequence_number[k] \in Nat
    BY DEF TypeOK
  <2> QED
    BY <2>1, MessageTypes DEF NextNumber
<1>3. network[i][j] \in Seq(Message) /\ network[j][i] \in Seq(Message)
  BY StreamType
<1>4. \A a, b \in Clients :
        network'[a][b] = IF a = k /\ b \in Missing(k)
                           THEN Append(network[a][b], Request(s))
                           ELSE network[a][b]
  <2>1. network \in [Clients -> [Clients -> Seq(Message)]]
    BY DEF TypeOK
  <2>2. network' = [network EXCEPT ![k] = Multicast(k, Missing(k), Request(s))]
    BY DEF RequestResource
  <2>3. ASSUME NEW b \in Clients
        PROVE  Multicast(k, Missing(k), Request(s))[b] =
                 IF b \in Missing(k) THEN Append(network[k][b], Request(s))
                 ELSE network[k][b]
    BY DEF Multicast
  <2> HIDE DEF s
  <2> QED
    BY <2>1, <2>2, <2>3
<1>5. /\ \A a \in Clients : is_waiting'[a] = IF a = k THEN TRUE ELSE is_waiting[a]
      /\ \A a \in Clients : our_sequence_number'[a] =
           IF a = k THEN s ELSE our_sequence_number[a]
      /\ \A a \in Clients : pc'[a] = IF a = k THEN "polling" ELSE pc[a]
      /\ UNCHANGED <<A, reply_deferred, hgst_sequence_number>>
  BY DEF RequestResource, TypeOK
<1>6. ~is_waiting[k]
  BY DEF RequestResource, TypeOK
<1> HIDE DEF s
<1>7. CASE k = i
  <2>1. network'[j][i] = network[j][i]
    BY <1>4, <1>7
  <2>2. ~Asked(i, j)
    BY <1>6, <1>7 DEF Safe, OneRequest
  <2>3. InFlight(i, j, "REPLY") => our_sequence_number[j] < s
    <3>1. InFlight(i, j, "REPLY") => our_sequence_number[j] <= hgst_sequence_number[i]
      BY DEF Safe
    <3>2. our_sequence_number[j] \in Nat /\ hgst_sequence_number[i] \in Nat
      BY DEF TypeOK
    <3>3. s = hgst_sequence_number[i] + 1
      BY <1>1, <1>7
    <3> QED
      BY <3>1, <3>2, <3>3
  <2>4. our_sequence_number'[j] = our_sequence_number[j] /\ our_sequence_number'[i] = s
    BY <1>5, <1>7
  <2>5. InFlight(i, j, "REPLY") => Before(j, i)'
    BY <2>3, <2>4 DEF Before
  <2>6. CASE A[i][j]
    <3>1. network'[i][j] = network[i][j]
      BY <1>4, <1>7, <2>6 DEF Missing
    <3>2. Numbered(network[i][j], s)
      BY <2>2 DEF Numbered, Asked, InFlight, Has
    <3>3. (OnePermission(i, j) /\ OneRequest(i, j))'
      BY <1>5, <2>1, <2>2, <2>6, <3>1
      DEF Safe, OnePermission, OneRequest, Asked, InFlight
    <3> QED
      BY <1>5, <1>7, <2>1, <2>2, <2>4, <2>5, <3>1, <3>2, <3>3
      DEF Safe, Asked, InFlight
  <2>7. CASE ~A[i][j]
    <3>1. network'[i][j] = Append(network[i][j], Request(s))
      BY <1>4, <1>7, <2>7 DEF Missing
    <3>2. /\ InFlight(i, j, "REQUEST")'
          /\ InFlight(i, j, "REPLY")' <=> InFlight(i, j, "REPLY")
          /\ ~HasTwo(network'[i][j], "REQUEST")
          /\ HasTwo(network'[i][j], "REPLY") <=> HasTwo(network[i][j], "REPLY")
          /\ Numbered(network'[i][j], s)
      BY <1>1, <1>3, <2>2, <3>1, SendRequestLemma DEF InFlight, Asked
    <3>4. (OnePermission(i, j) /\ OneRequest(i, j))'
      BY <1>5, <1>7, <2>1, <2>2, <2>7, <3>2
      DEF Safe, OnePermission, OneRequest, Asked, InFlight
    <3> QED
      BY <1>5, <1>7, <2>1, <2>2, <2>4, <2>5, <3>2, <3>4
      DEF Safe, Asked, InFlight
  <2> QED
    BY <2>6, <2>7
<1>8. CASE k = j
  <2>1. network'[i][j] = network[i][j]
    BY <1>4, <1>8
  <2>2. ~Asked(j, i)
    BY <1>6, <1>8 DEF Safe, OneRequest
  <2>3. /\ InFlight(j, i, "REPLY")' <=> InFlight(j, i, "REPLY")
        /\ our_sequence_number'[i] = our_sequence_number[i]
        /\ is_waiting'[i] = is_waiting[i] /\ pc'[i] = pc[i]
    <3>1. network'[j][i] \in {network[j][i], Append(network[j][i], Request(s))}
      BY <1>4
    <3>2. Has(network'[j][i], "REPLY") <=> Has(network[j][i], "REPLY")
      BY <1>1, <1>3, <3>1, SendRequestLemma
    <3> QED
      BY <1>5, <1>8, <3>2 DEF InFlight
  <2>4. (OnePermission(i, j) /\ OneRequest(i, j))'
    BY <1>5, <2>1, <2>3 DEF Safe, OnePermission, OneRequest, Asked, InFlight
  <2>5. (~reply_deferred[i][j] /\ ~InFlight(i, j, "REPLY"))'
    BY <1>5, <2>1, <2>2 DEF Asked, InFlight
  <2>6. (Numbered(network[i][j], our_sequence_number[i]))'
    BY <2>1, <2>3 DEF Safe
  <2>7. (pc[i] \in {"entering", "critical"} => A[i][j])'
    BY <1>5, <2>3 DEF Safe
  <2> QED
    BY <2>4, <2>5, <2>6, <2>7 DEF Safe
<1>9. CASE k \notin {i, j}
  <2>1. hgst_sequence_number[i] <= hgst_sequence_number'[i]
    BY <1>5 DEF TypeOK
  <2>2. network'[i][j] = network[i][j] /\ network'[j][i] = network[j][i]
    BY <1>4, <1>9
  <2>3. /\ is_waiting'[i] = is_waiting[i] /\ pc'[i] = pc[i]
        /\ our_sequence_number'[i] = our_sequence_number[i]
        /\ our_sequence_number'[j] = our_sequence_number[j]
        /\ A'[i][j] = A[i][j] /\ A'[j][i] = A[j][i]
        /\ reply_deferred'[i][j] = reply_deferred[i][j]
        /\ reply_deferred'[j][i] = reply_deferred[j][i]
    BY <1>5, <1>9
  <2> QED
    BY <2>1, <2>2, <2>3, SafeUndisturbed
<1> QED
  BY <1>7, <1>8, <1>9

\* can_enter_critical_section() and the block of enter_critical_section() move
\* the main thread of k only.
LEMMA SafeCanEnter ==
  ASSUME TypeOK, TypeOK', NEW k \in Clients, CanEnterCriticalSection(k),
         NEW i \in Clients, NEW j \in Others(i), Safe(i, j)
  PROVE  Safe(i, j)'
<1>1. UNCHANGED <<our_sequence_number, hgst_sequence_number, A, is_using,
                  is_waiting, reply_deferred, network>>
  BY DEF CanEnterCriticalSection, state
<1>2. pc'[i] \in {"entering", "critical"}
        => pc[i] \in {"entering", "critical"} \/ A[i][j]
  BY DEF CanEnterCriticalSection, HoldsAll, TypeOK
<1>3. hgst_sequence_number[i] <= hgst_sequence_number'[i]
  BY <1>1 DEF TypeOK
<1> QED
  BY <1>1, <1>2, <1>3, SafeUndisturbed

\* Entering the critical section keeps Safe of every pair.
LEMMA SafeEnter ==
  ASSUME TypeOK, TypeOK', NEW k \in Clients, EnterCriticalSection(k),
         NEW i \in Clients, NEW j \in Others(i), Safe(i, j)
  PROVE  Safe(i, j)'
<1>1. UNCHANGED <<our_sequence_number, hgst_sequence_number, A, reply_deferred,
                  network>>
  BY DEF EnterCriticalSection
<1>2. /\ pc[k] = "entering"
      /\ pc'[i] = IF i = k THEN "critical" ELSE pc[i]
      /\ is_waiting'[i] = IF i = k THEN FALSE ELSE is_waiting[i]
  BY DEF EnterCriticalSection, TypeOK
<1>3. i = k => A[i][j]
  BY <1>2 DEF Safe
<1>4. OnePermission(i, j)'
  BY <1>1 DEF Safe, OnePermission, InFlight
<1>5. OneRequest(i, j)'
  BY <1>1, <1>2, <1>3 DEF Safe, OneRequest, Asked, InFlight
<1>6. (pc[i] \in {"entering", "critical"} => A[i][j])'
  BY <1>1, <1>2, <1>3 DEF Safe
<1>7. Before(j, i)' <=> Before(j, i)
  BY <1>1 DEF Before
<1> QED
  BY <1>1, <1>4, <1>5, <1>6, <1>7 DEF Safe, InFlight

\* Releasing the file, which answers all deferred requests, keeps Safe of every pair.
LEMMA SafeRelease ==
  ASSUME TypeOK, TypeOK', NEW k \in Clients, ReleaseResource(k),
         NEW i \in Clients, NEW j \in Others(i), Safe(i, j), Safe(j, i)
  PROVE  Safe(i, j)'
<1>1. \A a, b \in Clients :
        a # b => network'[a][b] = IF a = k /\ reply_deferred[a][b]
                                    THEN Append(network[a][b], Reply)
                                    ELSE network[a][b]
  <2>1. network \in [Clients -> [Clients -> Seq(Message)]]
    BY DEF TypeOK
  <2>2. network' = [network EXCEPT ![k] = Multicast(k, Owed(k), Reply)]
    BY DEF ReleaseResource
  <2>3. ASSUME NEW b \in Clients, b # k
        PROVE  Multicast(k, Owed(k), Reply)[b] =
                 IF reply_deferred[k][b] THEN Append(network[k][b], Reply)
                 ELSE network[k][b]
    BY <2>3 DEF Multicast, Owed
  <2> QED
    BY <2>1, <2>2, <2>3
<1>2. ASSUME NEW a \in Clients, NEW b \in Clients, a # b
      PROVE  /\ A'[a][b] <=> A[a][b] /\ ~(a = k /\ reply_deferred[a][b])
             /\ reply_deferred'[a][b] <=> reply_deferred[a][b] /\ a # k
  <2>1. CASE a # k
    BY <2>1 DEF ReleaseResource, TypeOK
  <2>2. CASE a = k
    <3>1. A'[k][b] <=> A[k][b] /\ b \notin Owed(k)
      <4>1. A \in [Clients -> [Clients -> BOOLEAN]]
        BY DEF TypeOK
      <4>2. A'[k] = [c \in Clients |-> A[k][c] /\ c \notin Owed(k)]
        BY <4>1 DEF ReleaseResource
      <4> QED
        BY <4>2
    <3>2. reply_deferred'[k][b] <=> reply_deferred[k][b] /\ b \notin Owed(k)
      <4>1. reply_deferred \in [Clients -> [Clients -> BOOLEAN]]
        BY DEF TypeOK
      <4>2. reply_deferred'[k] =
              [c \in Clients |-> reply_deferred[k][c] /\ c \notin Owed(k)]
        BY <4>1 DEF ReleaseResource
      <4> QED
        BY <4>2
    <3>3. b \in Owed(k) <=> reply_deferred[k][b]
      BY <1>2, <2>2 DEF Owed
    <3> QED
      BY <2>2, <3>1, <3>2, <3>3
  <2> QED
    BY <2>1, <2>2
<1>3. /\ \A a \in Clients : pc'[a] = IF a = k THEN "idle" ELSE pc[a]
      /\ UNCHANGED <<is_waiting, our_sequence_number, hgst_sequence_number>>
      /\ pc[k] = "critical" /\ ~is_waiting[k]
  BY DEF ReleaseResource, TypeOK
<1>4. network[i][j] \in Seq(Message) /\ network[j][i] \in Seq(Message)
  BY StreamType
<1>5. Before(j, i)' <=> Before(j, i)
  BY <1>3 DEF Before
<1>6. CASE k = i /\ reply_deferred[i][j]
  <2>1. /\ network'[i][j] = Append(network[i][j], Reply)
        /\ network'[j][i] = network[j][i]
        /\ ~A'[i][j] /\ (A'[j][i] <=> A[j][i])
        /\ ~reply_deferred'[i][j] /\ (reply_deferred'[j][i] <=> reply_deferred[j][i])
    <3>1. i # j /\ i = k /\ j # k
      BY <1>6 DEF Others
    <3>2. network'[i][j] = Append(network[i][j], Reply) /\ network'[j][i] = network[j][i]
      BY <1>1, <1>6, <3>1
    <3> QED
      BY <1>2, <1>6, <3>1, <3>2
  <2>2. A[i][j]
    BY <1>3, <1>6 DEF Safe
  <2>3. ~A[j][i] /\ ~InFlight(i, j, "REPLY") /\ ~InFlight(j, i, "REPLY") /\ ~Asked(i, j)
    BY <2>2 DEF Safe, OnePermission, OneRequest
  <2>4. /\ InFlight(i, j, "REPLY")'
        /\ ~HasTwo(network'[i][j], "REPLY")
        /\ InFlight(i, j, "REQUEST")' <=> InFlight(i, j, "REQUEST")
        /\ HasTwo(network'[i][j], "REQUEST") <=> HasTwo(network[i][j], "REQUEST")
        /\ Numbered(network'[i][j], our_sequence_number[i])
    BY <1>4, <2>1, <2>3, SendReplyLemma DEF InFlight, Safe
  <2>5. OnePermission(i, j)'
    BY <2>1, <2>3, <2>4 DEF OnePermission, InFlight
  <2>6. OneRequest(i, j)'
    BY <1>3, <1>6, <2>1, <2>3, <2>4 DEF Safe, OneRequest, Asked, InFlight
  <2>7. (~InFlight(i, j, "REQUEST") /\ ~reply_deferred[j][i])'
    BY <2>1, <2>3, <2>4 DEF Asked
  <2>8. our_sequence_number[j] <= hgst_sequence_number[i]
    BY <1>6 DEF Safe
  <2> QED
    BY <1>3, <1>6, <2>4, <2>5, <2>6, <2>7, <2>8 DEF Safe
<1>7. CASE k = j /\ reply_deferred[j][i]
  <2>1. /\ network'[j][i] = Append(network[j][i], Reply)
        /\ network'[i][j] = network[i][j]
        /\ ~A'[j][i] /\ (A'[i][j] <=> A[i][j])
        /\ ~reply_deferred'[j][i] /\ (reply_deferred'[i][j] <=> reply_deferred[i][j])
    <3>1. i # j /\ j = k /\ i # k
      BY <1>7 DEF Others
    <3>2. network'[j][i] = Append(network[j][i], Reply) /\ network'[i][j] = network[i][j]
      BY <1>1, <1>7, <3>1
    <3> QED
      BY <1>2, <1>7, <3>1, <3>2
  <2>2. A[j][i]
    BY <1>3, <1>7 DEF Safe
  <2>3. ~A[i][j] /\ ~InFlight(i, j, "REPLY")
    BY <2>2 DEF Safe, OnePermission
  <2>4. InFlight(j, i, "REPLY")'
    BY <1>4, <2>1, SendReplyLemma DEF InFlight
  <2>5. is_waiting[i] /\ ~InFlight(i, j, "REQUEST")
    BY <1>7 DEF Safe, OneRequest, Asked
  <2>6. OnePermission(i, j)'
    BY <2>1, <2>3 DEF Safe, OnePermission, InFlight
  <2>7. OneRequest(i, j)'
    BY <1>3, <2>1, <2>3, <2>4, <2>5 DEF Safe, OneRequest, Asked, InFlight
  <2>8. (pc[i] \in {"entering", "critical"} => A[i][j])'
    BY <1>3, <1>7, <2>1 DEF Safe
  <2>9. (Numbered(network[i][j], our_sequence_number[i]))'
    BY <1>3, <2>1 DEF Safe
  <2>10. (reply_deferred[i][j] \/ InFlight(i, j, "REPLY")
           => our_sequence_number[j] <= hgst_sequence_number[i])'
    BY <1>3, <2>1 DEF Safe, InFlight
  <2>11. ~InFlight(i, j, "REPLY")'
    BY <2>1, <2>3 DEF InFlight
  <2> QED
    BY <2>6, <2>7, <2>8, <2>9, <2>10, <2>11 DEF Safe
<1>8. CASE ~(k = i /\ reply_deferred[i][j]) /\ ~(k = j /\ reply_deferred[j][i])
  <2>1. /\ network'[i][j] = network[i][j] /\ network'[j][i] = network[j][i]
        /\ A'[i][j] <=> A[i][j]
        /\ A'[j][i] <=> A[j][i]
    BY <1>1, <1>2, <1>8
  <2>2. /\ reply_deferred'[i][j] <=> reply_deferred[i][j]
        /\ reply_deferred'[j][i] <=> reply_deferred[j][i]
    BY <1>2, <1>8
  <2>3. hgst_sequence_number[i] <= hgst_sequence_number'[i]
    BY <1>3 DEF TypeOK
  <2> QED
    BY <1>3, <2>1, <2>2, <2>3, SafeUndisturbed
<1> QED
  BY <1>6, <1>7, <1>8

\* Assigning one entry of A or reply_deferred.
LEMMA AssignLemma ==
  ASSUME NEW f \in [Clients -> [Clients -> BOOLEAN]], NEW k \in Clients,
         NEW l \in Clients, NEW v, NEW a \in Clients, NEW b \in Clients
  PROVE  [f EXCEPT ![k][l] = v][a][b] = IF a = k /\ b = l THEN v ELSE f[a][b]
OBVIOUS

\* What taking a message from l and answering it does to the streams.
LEMMA ExchangeEffect ==
  ASSUME TypeOK, NEW k \in Clients, NEW l \in Others(k), NEW t, NEW out,
         Arrives(k, l, t), Exchange(k, l, out)
  PROVE  /\ network'[l][k] = Tail(network[l][k])
         /\ network'[k][l] = network[k][l] \o out
         /\ \A a, b \in Clients :
              {a, b} # {k, l} => network'[a][b] = network[a][b]
<1>1. network \in [Clients -> [Clients -> Seq(Message)]]
  BY DEF TypeOK
<1>2. network' = [network EXCEPT ![l][k] = Tail(network[l][k]),
                                 ![k][l] = network[k][l] \o out]
  BY <1>1 DEF Exchange
<1> QED
  BY <1>1, <1>2

\* Taking a REPLY from l, the only one on its stream.
LEMMA TakeReplyLemma ==
  ASSUME NEW q \in Seq(Message), q # <<>>, Head(q).type = "REPLY", NEW s
  PROVE  /\ Has(q, "REPLY")
         /\ ~HasTwo(q, "REPLY") => ~Has(Tail(q), "REPLY")
         /\ Has(Tail(q), "REQUEST") <=> Has(q, "REQUEST")
         /\ ~HasTwo(q, "REQUEST") => ~HasTwo(Tail(q), "REQUEST")
         /\ Numbered(q, s) => Numbered(Tail(q), s)
<1>1. Has(q, "REPLY") /\ (~HasTwo(q, "REPLY") => ~Has(Tail(q), "REPLY"))
  BY TakeLemma
<1>2. /\ Has(Tail(q), "REQUEST") <=> Has(q, "REQUEST")
      /\ ~HasTwo(q, "REQUEST") => ~HasTwo(Tail(q), "REQUEST")
  BY TakeLemma
<1>3. Numbered(q, s) => Numbered(Tail(q), s)
  BY TakeLemma
<1> QED
  BY <1>1, <1>2, <1>3

\* Taking a REQUEST from l, the only one on its stream.
LEMMA TakeRequestLemma ==
  ASSUME NEW q \in Seq(Message), q # <<>>, Head(q).type = "REQUEST", NEW s
  PROVE  /\ Has(q, "REQUEST")
         /\ ~HasTwo(q, "REQUEST") => ~Has(Tail(q), "REQUEST")
         /\ ~HasTwo(q, "REQUEST") => ~HasTwo(Tail(q), "REQUEST")
         /\ Has(Tail(q), "REPLY") <=> Has(q, "REPLY")
         /\ ~HasTwo(q, "REPLY") => ~HasTwo(Tail(q), "REPLY")
         /\ Numbered(q, s) => Numbered(Tail(q), s) /\ Head(q).seq = s
<1>1. Has(q, "REQUEST") /\ (~HasTwo(q, "REQUEST") => ~Has(Tail(q), "REQUEST"))
  BY TakeLemma
<1>2. /\ Has(Tail(q), "REPLY") <=> Has(q, "REPLY")
      /\ ~HasTwo(q, "REPLY") => ~HasTwo(Tail(q), "REPLY")
  BY TakeLemma
<1>3. Numbered(q, s) => Numbered(Tail(q), s) /\ Head(q).seq = s
  BY TakeLemma
<1>4. ~HasTwo(q, "REQUEST") => ~HasTwo(Tail(q), "REQUEST")
  BY TakeLemma
<1> QED
  BY <1>1, <1>2, <1>3, <1>4

\* Receiving a permission keeps Safe of every pair.
LEMMA SafeTreatReply ==
  ASSUME TypeOK, TypeOK', NEW k \in Clients, NEW l \in Others(k), TreatReply(k, l),
         NEW i \in Clients, NEW j \in Others(i), Safe(i, j), Safe(j, i)
  PROVE  Safe(i, j)'
<1> DEFINE q == network[l][k]
<1>1. q \in Seq(Message) /\ q # <<>> /\ Head(q).type = "REPLY"
  BY StreamType DEF TreatReply, Arrives
<1>2. /\ network'[l][k] = Tail(q)
      /\ network'[k][l] = network[k][l]
      /\ \A a, b \in Clients : {a, b} # {k, l} => network'[a][b] = network[a][b]
  <2>1. /\ network'[l][k] = Tail(q)
        /\ network'[k][l] = network[k][l] \o <<>>
        /\ \A a, b \in Clients : {a, b} # {k, l} => network'[a][b] = network[a][b]
    BY ExchangeEffect DEF TreatReply
  <2>2. network[k][l] \in Seq(Message)
    BY StreamType
  <2>3. network[k][l] \o <<>> = network[k][l]
    BY <2>2
  <2> QED
    BY <2>1, <2>3
<1>3. ASSUME NEW a \in Clients, NEW b \in Clients
      PROVE  A'[a][b] <=> A[a][b] \/ (a = k /\ b = l)
  <2>1. A \in [Clients -> [Clients -> BOOLEAN]]
    BY DEF TypeOK
  <2>2. A' = [A EXCEPT ![k][l] = TRUE]
    BY DEF TreatReply
  <2>3. A'[a][b] = IF a = k /\ b = l THEN TRUE ELSE A[a][b]
    BY <2>1, <2>2, AssignLemma
  <2> QED
    BY <2>3
<1>4. UNCHANGED <<our_sequence_number, hgst_sequence_number, is_waiting,
                  reply_deferred, pc>>
  BY DEF TreatReply
<1>5. Before(j, i)' <=> Before(j, i)
  BY <1>4 DEF Before
<1>6. CASE i = k /\ j = l
  <2>1. /\ network'[j][i] = Tail(q) /\ network'[i][j] = network[i][j]
        /\ q = network[j][i]
        /\ A'[i][j] /\ (A'[j][i] <=> A[j][i])
    BY <1>2, <1>3, <1>6
  <2>2. /\ InFlight(j, i, "REPLY")
        /\ ~HasTwo(q, "REPLY")
    BY <1>1, <2>1, TakeReplyLemma DEF InFlight, Safe, OnePermission
  <2>3. /\ ~A[j][i] /\ ~InFlight(i, j, "REPLY")
        /\ ~reply_deferred[j][i] /\ ~InFlight(i, j, "REQUEST")
    BY <2>2 DEF Safe, OnePermission, OneRequest, Asked
  <2>4. ~InFlight(j, i, "REPLY")'
    BY <1>1, <2>1, <2>2, TakeReplyLemma DEF InFlight
  <2>5. OnePermission(i, j)'
    BY <2>1, <2>3, <2>4 DEF Safe, OnePermission, InFlight
  <2>6. OneRequest(i, j)'
    BY <1>4, <2>1, <2>3, <2>4 DEF Safe, OneRequest, Asked, InFlight
  <2>7. ~InFlight(i, j, "REPLY")'
    BY <2>1, <2>3 DEF InFlight
  <2> QED
    BY <1>4, <2>1, <2>5, <2>6, <2>7 DEF Safe
<1>7. CASE i = l /\ j = k
  <2>1. /\ network'[i][j] = Tail(q) /\ network'[j][i] = network[j][i]
        /\ q = network[i][j]
        /\ A'[i][j] <=> A[i][j]
    BY <1>2, <1>3, <1>7
  <2>2. InFlight(i, j, "REPLY") /\ ~HasTwo(q, "REPLY")
    BY <1>1, <2>1, TakeReplyLemma DEF InFlight, Safe, OnePermission
  <2>3. ~A[i][j] /\ ~InFlight(j, i, "REPLY")
    BY <2>2 DEF Safe, OnePermission
  <2>4. /\ ~InFlight(i, j, "REPLY")'
        /\ InFlight(i, j, "REQUEST")' <=> InFlight(i, j, "REQUEST")
        /\ ~HasTwo(network'[i][j], "REQUEST")
        /\ Numbered(network'[i][j], our_sequence_number[i])
    BY <1>1, <2>1, <2>2, TakeReplyLemma DEF InFlight, Safe, OneRequest
  <2>5. OnePermission(i, j)'
    BY <2>1, <2>3, <2>4, TwoLemma DEF OnePermission, InFlight
  <2>6. OneRequest(i, j)'
    BY <1>4, <2>1, <2>3, <2>4 DEF Safe, OneRequest, Asked, InFlight
  <2> QED
    BY <1>4, <2>1, <2>4, <2>5, <2>6 DEF Safe
<1>8. CASE {i, j} # {k, l}
  <2>1. network'[i][j] = network[i][j] /\ network'[j][i] = network[j][i]
    BY <1>2, <1>8
  <2>2. (A'[i][j] <=> A[i][j]) /\ (A'[j][i] <=> A[j][i])
    BY <1>3, <1>8
  <2>3. hgst_sequence_number[i] <= hgst_sequence_number'[i]
    BY <1>4 DEF TypeOK
  <2> QED
    BY <1>4, <2>1, <2>2, <2>3, SafeUndisturbed
<1> QED
  BY <1>6, <1>7, <1>8

\* The REQUEST of l that k treats is l's latest; it is the only one.
LEMMA RequestSeen ==
  ASSUME TypeOK, NEW k \in Clients, NEW l \in Others(k), ReceiveRequest(k, l),
         Safe(k, l), Safe(l, k)
  PROVE  /\ network[l][k] \in Seq(Message) /\ network[l][k] # <<>>
         /\ Head(network[l][k]).type = "REQUEST"
         /\ OurPriority(k, l, Theirs(k, l)) <=> Before(k, l)
         /\ our_sequence_number[l] <= hgst_sequence_number'[k]
         /\ \A a \in Clients : hgst_sequence_number[a] <= hgst_sequence_number'[a]
         /\ InFlight(l, k, "REQUEST") /\ is_waiting[l] /\ ~A[l][k]
         /\ ~reply_deferred[k][l] /\ ~InFlight(k, l, "REPLY")
<1> DEFINE q == network[l][k]
<1>1. q \in Seq(Message) /\ q # <<>> /\ Head(q).type = "REQUEST"
  BY StreamType DEF ReceiveRequest, Arrives
<1>2. Theirs(k, l) = our_sequence_number[l]
  BY <1>1, TakeRequestLemma DEF Safe, Theirs
<1>3. k \in Int /\ l \in Int /\ k # l
  BY NAssumption DEF Clients
<1>4. /\ \A a \in Clients : our_sequence_number[a] \in Nat
      /\ \A a \in Clients : hgst_sequence_number[a] \in Nat
      /\ hgst_sequence_number \in [Clients -> Nat]
  BY DEF TypeOK
<1>5. OurPriority(k, l, Theirs(k, l)) <=> Before(k, l)
  BY <1>2, <1>3, <1>4 DEF OurPriority, Before
<1>6. /\ our_sequence_number[l] <= hgst_sequence_number'[k]
      /\ \A a \in Clients : hgst_sequence_number[a] <= hgst_sequence_number'[a]
  BY <1>2, <1>4 DEF ReceiveRequest
<1>7. InFlight(l, k, "REQUEST")
  BY <1>1, TakeRequestLemma DEF InFlight
<1>8. /\ is_waiting[l] /\ ~A[l][k]
      /\ ~reply_deferred[k][l] /\ ~InFlight(k, l, "REPLY")
  BY <1>7 DEF Safe, OneRequest, Asked
<1> QED
  BY <1>1, <1>5, <1>6, <1>7, <1>8

\* Holding back a request keeps Safe of every pair.
LEMMA SafeDefer ==
  ASSUME TypeOK, TypeOK', NEW k \in Clients, NEW l \in Others(k), DeferReply(k, l),
         NEW i \in Clients, NEW j \in Others(i),
         Safe(i, j), Safe(j, i), Safe(k, l), Safe(l, k)
  PROVE  Safe(i, j)'
<1> DEFINE q == network[l][k]
<1>1. ReceiveRequest(k, l) /\ Arrives(k, l, "REQUEST") /\ Exchange(k, l, <<>>)
  BY DEF DeferReply, ReceiveRequest
<1>2. /\ network'[l][k] = Tail(q)
      /\ network'[k][l] = network[k][l]
      /\ \A a, b \in Clients : {a, b} # {k, l} => network'[a][b] = network[a][b]
  <2>1. /\ network'[l][k] = Tail(q)
        /\ network'[k][l] = network[k][l] \o <<>>
        /\ \A a, b \in Clients : {a, b} # {k, l} => network'[a][b] = network[a][b]
    BY <1>1, ExchangeEffect
  <2>2. network[k][l] \in Seq(Message)
    BY StreamType
  <2>3. network[k][l] \o <<>> = network[k][l]
    BY <2>2
  <2> QED
    BY <2>1, <2>3
<1>3. ASSUME NEW a \in Clients, NEW b \in Clients
      PROVE  reply_deferred'[a][b] <=> reply_deferred[a][b] \/ (a = k /\ b = l)
  <2>1. reply_deferred \in [Clients -> [Clients -> BOOLEAN]]
    BY DEF TypeOK
  <2>2. reply_deferred' = [reply_deferred EXCEPT ![k][l] = TRUE]
    BY DEF DeferReply
  <2>3. reply_deferred'[a][b] = IF a = k /\ b = l THEN TRUE ELSE reply_deferred[a][b]
    BY <2>1, <2>2, AssignLemma
  <2> QED
    BY <2>3
<1>4. UNCHANGED <<our_sequence_number, is_waiting, A, pc>>
  BY DEF DeferReply, ReceiveRequest
<1>5. Before(j, i)' <=> Before(j, i)
  BY <1>4 DEF Before
<1>6. /\ q \in Seq(Message) /\ q # <<>> /\ Head(q).type = "REQUEST"
      /\ our_sequence_number[l] <= hgst_sequence_number'[k]
      /\ \A a \in Clients : hgst_sequence_number[a] <= hgst_sequence_number'[a]
      /\ InFlight(l, k, "REQUEST") /\ is_waiting[l] /\ ~A[l][k]
      /\ ~reply_deferred[k][l] /\ ~InFlight(k, l, "REPLY")
  BY <1>1, RequestSeen
<1>7. CASE i = k /\ j = l
  <2>1. /\ network'[j][i] = Tail(q) /\ network'[i][j] = network[i][j]
        /\ q = network[j][i]
        /\ reply_deferred'[j][i] <=> reply_deferred[j][i]
    BY <1>2, <1>3, <1>7
  <2>2. InFlight(j, i, "REPLY")' <=> InFlight(j, i, "REPLY")
    BY <1>6, <2>1, TakeRequestLemma DEF InFlight
  <2>3. OnePermission(i, j)'
    BY <1>4, <2>1, <2>2 DEF Safe, OnePermission, InFlight
  <2>4. OneRequest(i, j)'
    BY <1>4, <2>1, <2>2 DEF Safe, OneRequest, Asked, InFlight
  <2>5. ~InFlight(i, j, "REPLY")'
    BY <1>6, <1>7, <2>1 DEF InFlight
  <2>6. (our_sequence_number[j] <= hgst_sequence_number[i])'
    BY <1>4, <1>6, <1>7
  <2> QED
    BY <1>4, <2>1, <2>3, <2>4, <2>5, <2>6 DEF Safe
<1>8. CASE i = l /\ j = k
  <2>1. /\ network'[i][j] = Tail(q) /\ network'[j][i] = network[j][i]
        /\ q = network[i][j]
        /\ reply_deferred'[j][i] /\ (reply_deferred'[i][j] <=> reply_deferred[i][j])
        /\ InFlight(i, j, "REQUEST") /\ is_waiting[i] /\ ~A[i][j]
        /\ ~InFlight(j, i, "REPLY")
    BY <1>2, <1>3, <1>6, <1>8
  <2>2. /\ InFlight(i, j, "REPLY")' <=> InFlight(i, j, "REPLY")
        /\ ~HasTwo(network'[i][j], "REPLY")
        /\ ~InFlight(i, j, "REQUEST")'
        /\ ~HasTwo(network'[i][j], "REQUEST")
        /\ Numbered(network'[i][j], our_sequence_number[i])
    BY <1>6, <2>1, TakeRequestLemma DEF InFlight, Safe, OnePermission, OneRequest
  <2>3. OnePermission(i, j)'
    BY <1>4, <2>1, <2>2 DEF Safe, OnePermission, InFlight
  <2>4. OneRequest(i, j)'
    BY <1>4, <2>1, <2>2 DEF OneRequest, Asked, InFlight
  <2>5. InFlight(i, j, "REPLY")' => Before(j, i)'
    BY <1>5, <2>1, <2>2 DEF Safe
  <2>6. hgst_sequence_number'[i] = hgst_sequence_number[i]
    BY <1>1, <1>8 DEF ReceiveRequest, TypeOK
  <2>7. (reply_deferred[i][j] \/ InFlight(i, j, "REPLY")
          => our_sequence_number[j] <= hgst_sequence_number[i])'
    BY <1>4, <2>1, <2>2, <2>6 DEF Safe
  <2> QED
    BY <1>4, <2>2, <2>3, <2>4, <2>5, <2>7 DEF Safe
<1>9. CASE {i, j} # {k, l}
  <2>1. network'[i][j] = network[i][j] /\ network'[j][i] = network[j][i]
    BY <1>2, <1>9
  <2>2. /\ reply_deferred'[i][j] <=> reply_deferred[i][j]
        /\ reply_deferred'[j][i] <=> reply_deferred[j][i]
    BY <1>3, <1>9
  <2> QED
    BY <1>4, <1>6, <2>1, <2>2, SafeUndisturbed
<1> QED
  BY <1>7, <1>8, <1>9

\* What both granting branches of treat_request_message() do to the pair as l
\* sees it: k's permission for l is on its way.
LEMMA SafeGranted ==
  ASSUME TypeOK, NEW k \in Clients, NEW l \in Others(k), ReceiveRequest(k, l),
         Safe(k, l), Safe(l, k), ~InFlight(l, k, "REPLY"),
         network'[l][k] = Tail(network[l][k]), InFlight(k, l, "REPLY")',
         ~A'[k][l], A'[l][k] <=> A[l][k],
         UNCHANGED <<our_sequence_number, is_waiting, reply_deferred, pc>>
  PROVE  Safe(l, k)'
<1> DEFINE q == network[l][k]
<1>1. /\ q \in Seq(Message) /\ q # <<>> /\ Head(q).type = "REQUEST"
      /\ InFlight(l, k, "REQUEST") /\ is_waiting[l] /\ ~A[l][k]
      /\ ~reply_deferred[k][l] /\ ~InFlight(k, l, "REPLY")
  BY RequestSeen
<1>2. ~HasTwo(q, "REQUEST") /\ Numbered(q, our_sequence_number[l])
  BY DEF Safe, OneRequest
<1>3. /\ ~InFlight(l, k, "REPLY")'
      /\ ~InFlight(l, k, "REQUEST")'
      /\ ~HasTwo(network'[l][k], "REQUEST")
      /\ Numbered(network'[l][k], our_sequence_number[l])
  BY <1>1, <1>2, TakeRequestLemma DEF InFlight
<1>4. OnePermission(l, k)'
  BY <1>1, <1>3, TwoLemma DEF OnePermission, InFlight
<1>5. OneRequest(l, k)'
  BY <1>1, <1>3 DEF OneRequest, Asked
<1>6. hgst_sequence_number'[l] = hgst_sequence_number[l]
  BY DEF ReceiveRequest, TypeOK
<1>7. (reply_deferred[l][k] \/ InFlight(l, k, "REPLY")
        => our_sequence_number[k] <= hgst_sequence_number[l])'
  BY <1>3, <1>6 DEF Safe
<1>8. (pc[l] \in {"entering", "critical"} => A[l][k])'
  BY DEF Safe
<1> QED
  BY <1>3, <1>4, <1>5, <1>7, <1>8 DEF Safe

\* Granting a request without competing for it keeps Safe of every pair.
LEMMA SafeGrant ==
  ASSUME TypeOK, TypeOK', NEW k \in Clients, NEW l \in Others(k), GrantReply(k, l),
         NEW i \in Clients, NEW j \in Others(i),
         Safe(i, j), Safe(j, i), Safe(k, l), Safe(l, k)
  PROVE  Safe(i, j)'
<1>1. ReceiveRequest(k, l) /\ Arrives(k, l, "REQUEST") /\ Exchange(k, l, <<Reply>>)
  BY DEF GrantReply, ReceiveRequest
<1>2. /\ network'[l][k] = Tail(network[l][k])
      /\ network'[k][l] = Append(network[k][l], Reply)
      /\ \A a, b \in Clients : {a, b} # {k, l} => network'[a][b] = network[a][b]
  <2>1. /\ network'[l][k] = Tail(network[l][k])
        /\ network'[k][l] = network[k][l] \o <<Reply>>
        /\ \A a, b \in Clients : {a, b} # {k, l} => network'[a][b] = network[a][b]
    BY <1>1, ExchangeEffect
  <2>2. network[k][l] \in Seq(Message) /\ Reply \in Message
    BY StreamType, MessageTypes
  <2>3. network[k][l] \o <<Reply>> = Append(network[k][l], Reply)
    BY <2>2
  <2> QED
    BY <2>1, <2>3
<1>3. ASSUME NEW a \in Clients, NEW b \in Clients
      PROVE  A'[a][b] = IF a = k /\ b = l THEN FALSE ELSE A[a][b]
  <2>1. A \in [Clients -> [Clients -> BOOLEAN]]
    BY DEF TypeOK
  <2>2. A' = [A EXCEPT ![k][l] = FALSE]
    BY DEF GrantReply
  <2> QED
    BY <2>1, <2>2, AssignLemma
<1>4. UNCHANGED <<our_sequence_number, is_waiting, reply_deferred, pc>>
  BY DEF GrantReply, ReceiveRequest
<1>5. /\ OurPriority(k, l, Theirs(k, l)) <=> Before(k, l)
      /\ our_sequence_number[l] <= hgst_sequence_number'[k]
      /\ \A a \in Clients : hgst_sequence_number[a] <= hgst_sequence_number'[a]
      /\ InFlight(l, k, "REQUEST") /\ is_waiting[l] /\ ~A[l][k]
      /\ ~reply_deferred[k][l] /\ ~InFlight(k, l, "REPLY")
  BY <1>1, RequestSeen
<1>6. \/ ~is_waiting[k] /\ pc[k] = "idle"
      \/ is_waiting[k] /\ ~A[k][l] /\ ~Before(k, l)
  BY <1>5 DEF GrantReply, TypeOK
<1>7. ~InFlight(l, k, "REPLY")
  <2>1. CASE ~is_waiting[k]
    BY <2>1 DEF Safe, OneRequest, Asked
  <2>2. CASE ~Before(k, l)
    BY <1>5, <2>2 DEF Safe
  <2> QED
    BY <1>6, <2>1, <2>2
<1>8. /\ InFlight(k, l, "REPLY")'
      /\ ~HasTwo(network'[k][l], "REPLY")
      /\ InFlight(k, l, "REQUEST")' <=> InFlight(k, l, "REQUEST")
      /\ HasTwo(network'[k][l], "REQUEST") <=> HasTwo(network[k][l], "REQUEST")
      /\ Numbered(network'[k][l], our_sequence_number[k])
  BY <1>2, <1>5, StreamType, SendReplyLemma DEF InFlight, Safe
<1>9. CASE i = k /\ j = l
  <2>1. ~InFlight(l, k, "REPLY")'
    <3>1. /\ network[l][k] \in Seq(Message) /\ network[l][k] # <<>>
          /\ Head(network[l][k]).type = "REQUEST"
      BY <1>1, RequestSeen
    <3> QED
      BY <1>2, <1>7, <3>1, TakeRequestLemma DEF InFlight
  <2>2. ~A'[k][l]
    BY <1>3
  <2>3. OnePermission(k, l)'
    BY <1>8, <2>1, <2>2 DEF OnePermission
  <2>4. OneRequest(k, l)'
    BY <1>4, <1>6, <1>7, <1>8, <2>1, <2>2 DEF Safe, OneRequest, Asked
  <2>5. (pc[k] \in {"entering", "critical"} => A[k][l])'
    BY <1>4, <1>6 DEF Safe
  <2>6. Before(l, k)' <=> Before(l, k)
    BY <1>4 DEF Before
  <2>7. (InFlight(k, l, "REQUEST") \/ reply_deferred[l][k] => Before(l, k))'
    <3>1. CASE ~is_waiting[k]
      BY <1>4, <1>8, <3>1 DEF Safe, OneRequest, Asked
    <3>2. CASE ~Before(k, l)
      BY <2>6, <3>2, BeforeTotal
    <3> QED
      BY <1>6, <3>1, <3>2
  <2>8. (our_sequence_number[l] <= hgst_sequence_number[k])'
    BY <1>4, <1>5
  <2>9. (Numbered(network[k][l], our_sequence_number[k]))'
    BY <1>4, <1>8
  <2>10. Safe(k, l)'
    BY <2>3, <2>4, <2>5, <2>7, <2>8, <2>9 DEF Safe
  <2> QED
    BY <1>9, <2>10
<1>10. CASE i = l /\ j = k
  <2>1. ~A'[k][l] /\ (A'[l][k] <=> A[l][k])
    BY <1>3
  <2>2. Safe(l, k)'
    BY <1>1, <1>2, <1>4, <1>7, <1>8, <2>1, SafeGranted
  <2> QED
    BY <1>10, <2>2
<1>11. CASE {i, j} # {k, l}
  <2>1. network'[i][j] = network[i][j] /\ network'[j][i] = network[j][i]
    BY <1>2, <1>11
  <2>2. (A'[i][j] <=> A[i][j]) /\ (A'[j][i] <=> A[j][i])
    BY <1>3, <1>11
  <2> QED
    BY <1>4, <1>5, <2>1, <2>2, SafeUndisturbed
<1> QED
  BY <1>9, <1>10, <1>11

\* Granting an earlier request and asking again keeps Safe of every pair, unless the
\* client has already decided to enter.
LEMMA SafeYield ==
  ASSUME TypeOK, TypeOK', NEW k \in Clients, NEW l \in Others(k),
         YieldPermission(k, l), ~overtaken',
         NEW i \in Clients, NEW j \in Others(i),
         Safe(i, j), Safe(j, i), Safe(k, l), Safe(l, k)
  PROVE  Safe(i, j)'
<1> DEFINE s == our_sequence_number[k]
           r == Append(network[k][l], Reply)
<1>1. /\ ReceiveRequest(k, l) /\ Arrives(k, l, "REQUEST")
      /\ Exchange(k, l, <<Reply, Request(s)>>)
      /\ is_waiting[k] /\ A[k][l] /\ ~OurPriority(k, l, Theirs(k, l))
  BY DEF YieldPermission, ReceiveRequest
<1>2. /\ network[k][l] \in Seq(Message) /\ s \in Nat
      /\ Reply \in Message /\ Request(s) \in Message
  BY StreamType, MessageTypes DEF TypeOK
<1>3. /\ network'[l][k] = Tail(network[l][k])
      /\ network'[k][l] = Append(r, Request(s))
      /\ \A a, b \in Clients : {a, b} # {k, l} => network'[a][b] = network[a][b]
      /\ r \in Seq(Message)
  <2>1. /\ network'[l][k] = Tail(network[l][k])
        /\ network'[k][l] = network[k][l] \o <<Reply, Request(s)>>
        /\ \A a, b \in Clients : {a, b} # {k, l} => network'[a][b] = network[a][b]
    <3>1. Arrives(k, l, "REQUEST") /\ Exchange(k, l, <<Reply, Request(s)>>)
      BY <1>1
    <3>2. QED
      BY ONLY TypeOK, k \in Clients, l \in Others(k), <3>1, ExchangeEffect, Zenon
  <2>2. network[k][l] \o <<Reply, Request(s)>> = Append(r, Request(s))
    BY <1>2, SendTwo
  <2>3. r \in Seq(Message)
    BY <1>2
  <2> QED
    BY <2>1, <2>2, <2>3
<1>4. ASSUME NEW a \in Clients, NEW b \in Clients
      PROVE  A'[a][b] = IF a = k /\ b = l THEN FALSE ELSE A[a][b]
  <2>1. A \in [Clients -> [Clients -> BOOLEAN]]
    BY DEF TypeOK
  <2>2. A' = [A EXCEPT ![k][l] = FALSE]
    BY DEF YieldPermission
  <2> QED
    BY <2>1, <2>2, AssignLemma
<1>5. /\ UNCHANGED <<our_sequence_number, is_waiting, reply_deferred, pc>>
      /\ pc[k] # "entering"
  BY DEF YieldPermission, ReceiveRequest
<1>6. /\ network[l][k] \in Seq(Message) /\ network[l][k] # <<>>
      /\ Head(network[l][k]).type = "REQUEST"
      /\ ~Before(k, l)
      /\ our_sequence_number[l] <= hgst_sequence_number'[k]
      /\ \A a \in Clients : hgst_sequence_number[a] <= hgst_sequence_number'[a]
  BY <1>1, RequestSeen
<1>7. /\ ~A[l][k] /\ ~InFlight(k, l, "REPLY") /\ ~InFlight(l, k, "REPLY")
      /\ ~Asked(k, l)
  BY <1>1 DEF Safe, OnePermission, OneRequest
<1>8. /\ Has(r, "REPLY") /\ ~HasTwo(r, "REPLY") /\ ~Has(r, "REQUEST")
  BY <1>2, <1>7, SendReplyLemma DEF InFlight, Asked
<1> HIDE DEF s, r
<1>9. /\ InFlight(k, l, "REPLY")'
      /\ ~HasTwo(network'[k][l], "REPLY")
      /\ InFlight(k, l, "REQUEST")'
      /\ ~HasTwo(network'[k][l], "REQUEST")
      /\ Numbered(network'[k][l], s)
  BY <1>2, <1>3, <1>8, SendRequestLemma DEF InFlight
<1>10. CASE i = k /\ j = l
  <2>1. ~InFlight(l, k, "REPLY")'
    BY <1>3, <1>6, <1>7, TakeRequestLemma DEF InFlight
  <2>2. ~A'[k][l]
    BY <1>4
  <2>3. OnePermission(k, l)'
    BY <1>9, <2>1, <2>2 DEF OnePermission
  <2>4. ~reply_deferred'[l][k]
    BY <1>5, <1>7 DEF Asked
  <2>5. OneRequest(k, l)'
    BY <1>1, <1>5, <1>9, <2>1, <2>2, <2>4 DEF OneRequest, Asked
  <2>6. (pc[k] \in {"entering", "critical"} => A[k][l])'
    BY <1>1, <1>5 DEF TypeOK
  <2>7. Before(l, k)'
    <3>1. Before(l, k)' <=> Before(l, k)
      BY <1>5 DEF Before
    <3> QED
      BY <1>6, <3>1, BeforeTotal
  <2>8. (our_sequence_number[l] <= hgst_sequence_number[k])'
    BY <1>5, <1>6
  <2>9. (Numbered(network[k][l], our_sequence_number[k]))'
    BY <1>5, <1>9 DEF s
  <2>10. Safe(k, l)'
    BY <2>3, <2>5, <2>6, <2>7, <2>8, <2>9 DEF Safe
  <2> QED
    BY <1>10, <2>10
<1>11. CASE i = l /\ j = k
  <2>1. ~A'[k][l] /\ (A'[l][k] <=> A[l][k])
    BY <1>4
  <2>2. Safe(l, k)'
    BY <1>1, <1>3, <1>5, <1>7, <1>9, <2>1, SafeGranted
  <2> QED
    BY <1>11, <2>2
<1>12. CASE {i, j} # {k, l}
  <2>1. network'[i][j] = network[i][j] /\ network'[j][i] = network[j][i]
    BY <1>3, <1>12
  <2>2. (A'[i][j] <=> A[i][j]) /\ (A'[j][i] <=> A[j][i])
    BY <1>4, <1>12
  <2> QED
    BY <1>5, <1>6, <2>1, <2>2, SafeUndisturbed
<1> QED
  BY <1>10, <1>11, <1>12

-----------------------------------------------------------------------------
(***************************************************************************)
(* The theorems.                                                           *)
(***************************************************************************)

\* The inductive invariant holds at first.
LEMMA SafeInit == Init => IInv
<1> SUFFICES ASSUME Init PROVE IInv
  OBVIOUS
<1>1. TypeOK
  BY TypeInit
<1>2. ASSUME NEW i \in Clients, NEW j \in Others(i) PROVE Safe(i, j)
  <2>1. /\ network[i][j] = <<>> /\ network[j][i] = <<>>
        /\ ~A[i][j] /\ ~A[j][i] /\ ~reply_deferred[i][j] /\ ~reply_deferred[j][i]
        /\ ~is_waiting[i] /\ pc[i] = "idle"
    BY DEF Init
  <2>2. ~Has(<<>>, "REQUEST") /\ ~Has(<<>>, "REPLY")
    BY DEF Has
  <2>3. /\ ~InFlight(i, j, "REQUEST") /\ ~InFlight(i, j, "REPLY")
        /\ ~InFlight(j, i, "REPLY")
    BY <2>1, <2>2 DEF InFlight
  <2>4. OnePermission(i, j)
    BY <2>1, <2>2, <2>3, TwoLemma DEF OnePermission
  <2>5. OneRequest(i, j)
    BY <2>1, <2>2, <2>3, TwoLemma DEF OneRequest, Asked
  <2>6. Numbered(network[i][j], our_sequence_number[i])
    BY <2>1 DEF Numbered
  <2> QED
    BY <2>1, <2>3, <2>4, <2>5, <2>6 DEF Safe
<1> QED
  BY <1>1, <1>2 DEF IInv

\* Every step keeps the inductive invariant.
LEMMA SafeNext == IInv /\ [Next]_vars => IInv'
<1> SUFFICES ASSUME IInv, [Next]_vars PROVE IInv'
  OBVIOUS
<1>1. TypeOK /\ TypeOK'
  BY TypeNext DEF IInv
<1>2. SUFFICES ASSUME ~overtaken', NEW i \in Clients, NEW j \in Others(i)
               PROVE  Safe(i, j)'
  BY <1>1 DEF IInv
<1>3. ~overtaken
  BY <1>1, <1>2 DEF Next, MainThread, ReceiveThread, RequestResource,
     CanEnterCriticalSection, EnterCriticalSection, ReleaseResource, TreatReply,
     DeferReply, GrantReply, YieldPermission, Terminated, vars, TypeOK
<1>4. \A a \in Clients : \A b \in Others(a) : Safe(a, b)
  BY <1>3 DEF IInv
<1>5. i \in Others(j) /\ Safe(i, j) /\ Safe(j, i)
  BY <1>4
<1>6. ASSUME NEW k \in Clients, MainThread(k) PROVE Safe(i, j)'
  <2>1. CASE RequestResource(k)
    BY <1>1, <1>5, <2>1, SafeRequest
  <2>2. CASE CanEnterCriticalSection(k)
    BY <1>1, <1>5, <2>2, SafeCanEnter
  <2>3. CASE EnterCriticalSection(k)
    BY <1>1, <1>5, <2>3, SafeEnter
  <2>4. CASE ReleaseResource(k)
    BY <1>1, <1>5, <2>4, SafeRelease
  <2> QED
    BY <1>6, <2>1, <2>2, <2>3, <2>4 DEF MainThread
<1>7. ASSUME NEW k \in Clients, NEW l \in Others(k), ReceiveThread(k, l)
      PROVE  Safe(i, j)'
  <2>1. Safe(k, l) /\ Safe(l, k)
    BY <1>4
  <2>2. CASE TreatReply(k, l)
    BY <1>1, <1>5, <2>2, SafeTreatReply
  <2>3. CASE DeferReply(k, l)
    BY <1>1, <1>5, <2>1, <2>3, SafeDefer
  <2>4. CASE GrantReply(k, l)
    BY <1>1, <1>5, <2>1, <2>4, SafeGrant
  <2>5. CASE YieldPermission(k, l)
    BY <1>1, <1>2, <1>5, <2>1, <2>5, SafeYield
  <2> QED
    BY <1>7, <2>2, <2>3, <2>4, <2>5 DEF ReceiveThread
<1>8. ASSUME UNCHANGED vars PROVE Safe(i, j)'
  <2>1. UNCHANGED <<our_sequence_number, hgst_sequence_number, A, is_waiting,
                    reply_deferred, pc, network>>
    BY <1>8 DEF vars, state
  <2>2. hgst_sequence_number[i] <= hgst_sequence_number'[i]
    BY <1>1, <2>1 DEF TypeOK
  <2> QED
    BY <1>1, <1>5, <2>1, <2>2, SafeUndisturbed
<1> QED
  BY <1>6, <1>7, <1>8 DEF Next, Terminated

\* The inductive invariant holds: until a permission leaves a client between
\* can_enter_critical_section() and enter_critical_section(), every block of the
\* strategy keeps the bookkeeping of every two clients consistent.
THEOREM Inductive == Spec => []IInv
BY SafeInit, SafeNext, PTL DEF Spec

\* A permission shared by two clients is never duplicated by
\* release_resource() or treat_request_message().
THEOREM PermissionIsUnique == Spec => []PermissionUnique
<1>1. IInv => PermissionUnique
  BY DEF IInv, Safe, PermissionUnique
<1> QED
  BY <1>1, Inductive, PTL

\* A request of request_resource() is with exactly the clients whose permission
\* is missing, once.
THEOREM RequestIsAccounted == Spec => []RequestAccounted
<1>1. IInv => RequestAccounted
  BY DEF IInv, Safe, RequestAccounted
<1> QED
  BY <1>1, Inductive, PTL

\* enter_critical_section() runs in one client at a time unless
\* treat_request_message() took a permission from a client that had already been
\* told to enter.
THEOREM Exclusion == Spec => []ExclusiveUnlessOvertaken
<1>1. IInv => ExclusiveUnlessOvertaken
  <2> SUFFICES ASSUME IInv, ~overtaken, NEW i \in Clients, NEW j \in Clients,
                      is_using[i], is_using[j], i # j
               PROVE  FALSE
    BY DEF ExclusiveUnlessOvertaken, MutualExclusion
  <2>1. pc[i] = "critical" /\ pc[j] = "critical"
    BY DEF IInv, TypeOK
  <2>2. Safe(i, j) /\ Safe(j, i)
    BY DEF IInv
  <2> QED
    BY <2>1, <2>2 DEF Safe, OnePermission
<1> QED
  BY <1>1, Inductive, PTL

-----------------------------------------------------------------------------
(***************************************************************************)
(* The strategy implements AbstractMutex.                                  *)
(***************************************************************************)

phases == [i \in Clients |-> Phase(i)]

\* A block that moves no client between idle, waiting and using leaves the
\* abstract phases alone.
LEMMA PhasesKept ==
  ASSUME UNCHANGED <<is_using, is_waiting>>
  PROVE  phases' = phases
BY DEF phases, Phase

\* The initial states are those of the abstract specification.
LEMMA PromiseInit == Init => Promise!Init
<1> SUFFICES ASSUME Init PROVE Promise!Init
  OBVIOUS
<1>1. \A i \in Clients : Phase(i) = "idle"
  BY DEF Init, Phase
<1> QED
  BY <1>1 DEF Init, Promise!Init

\* Every step is a step of the abstract specification or leaves its variables alone.
LEMMA PromiseNext == IInv /\ [Next]_vars => [Promise!Next]_(Promise!vars)
<1> SUFFICES ASSUME IInv, [Next]_vars PROVE [Promise!Next]_(Promise!vars)
  OBVIOUS
<1>0. TypeOK
  BY DEF IInv
<1>1. ASSUME NEW i \in Clients, RequestResource(i) PROVE Promise!Request(i)
  <2>1. Phase(i) = "idle" /\ Phase(i)' = "waiting"
    BY <1>0, <1>1 DEF RequestResource, TypeOK, Phase
  <2>2. ASSUME NEW j \in Clients, j # i PROVE Phase(j)' = Phase(j)
    BY <1>0, <1>1, <2>2 DEF RequestResource, TypeOK, Phase
  <2>3. UNCHANGED overtaken
    BY <1>1 DEF RequestResource
  <2> QED
    BY <2>1, <2>2, <2>3 DEF Promise!Request
<1>2. ASSUME NEW i \in Clients, EnterCriticalSection(i) PROVE Promise!Enter(i)
  <2>1. Phase(i) = "waiting" /\ Phase(i)' = "using"
    BY <1>0, <1>2 DEF EnterCriticalSection, TypeOK, Phase
  <2>2. ASSUME NEW j \in Clients, j # i PROVE Phase(j)' = Phase(j)
    BY <1>0, <1>2, <2>2 DEF EnterCriticalSection, TypeOK, Phase
  <2>3. UNCHANGED overtaken
    BY <1>2 DEF EnterCriticalSection
  <2>4. ASSUME ~overtaken, NEW j \in Clients PROVE Phase(j) # "using"
    <3>1. CASE j = i
      BY <2>1, <3>1
    <3>2. CASE j # i
      <4>1. Safe(i, j) /\ Safe(j, i) /\ pc[i] = "entering"
        BY <1>2, <2>4, <3>2 DEF IInv, EnterCriticalSection
      <4>2. pc[j] # "critical"
        BY <4>1 DEF Safe, OnePermission
      <4> QED
        BY <1>0, <4>2 DEF TypeOK, Phase
    <3> QED
      BY <3>1, <3>2
  <2> QED
    BY <2>1, <2>2, <2>3, <2>4 DEF Promise!Enter, Promise!Free
<1>3. ASSUME NEW i \in Clients, ReleaseResource(i) PROVE Promise!Release(i)
  <2>1. Phase(i) = "using" /\ Phase(i)' = "idle"
    BY <1>0, <1>3 DEF ReleaseResource, TypeOK, Phase
  <2>2. ASSUME NEW j \in Clients, j # i PROVE Phase(j)' = Phase(j)
    BY <1>0, <1>3, <2>2 DEF ReleaseResource, TypeOK, Phase
  <2>3. UNCHANGED overtaken
    BY <1>3 DEF ReleaseResource
  <2> QED
    BY <2>1, <2>2, <2>3 DEF Promise!Release
<1>4. ASSUME NEW i \in Clients, CanEnterCriticalSection(i)
      PROVE  UNCHANGED <<phases, overtaken>>
  BY <1>4, PhasesKept DEF CanEnterCriticalSection, state
<1>5. ASSUME NEW i \in Clients, NEW j \in Others(i), ReceiveThread(i, j)
      PROVE  phases' = phases /\ overtaken' \in {overtaken, TRUE}
  <2>1. UNCHANGED <<is_using, is_waiting>>
    BY <1>5 DEF ReceiveThread, TreatReply, DeferReply, GrantReply,
       YieldPermission, ReceiveRequest
  <2>2. overtaken' \in {overtaken, TRUE}
    BY <1>0, <1>5 DEF ReceiveThread, TreatReply, DeferReply, GrantReply,
       YieldPermission, TypeOK
  <2> QED
    BY <2>1, <2>2, PhasesKept
<1>6. ASSUME UNCHANGED vars PROVE UNCHANGED <<phases, overtaken>>
  BY <1>6, PhasesKept DEF vars, state
<1>7. ASSUME UNCHANGED <<phases, overtaken>> PROVE UNCHANGED Promise!vars
  BY <1>7 DEF phases, Promise!vars
<1>8. ASSUME phases' = phases, overtaken' = TRUE PROVE Promise!Taint
  BY <1>8 DEF phases, Promise!Taint
<1> QED
  BY <1>1, <1>2, <1>3, <1>4, <1>5, <1>6, <1>7, <1>8
  DEF Next, MainThread, Terminated, Promise!Next

\* request_resource(), enter_critical_section() and release_resource() are the
\* steps of AbstractMutex: a client is let into the critical section only when
\* no client is in it, unless the promise was withdrawn before.
THEOREM Implements == Spec => KeepsPromise
<1>1. Init => Promise!Init
  BY PromiseInit
<1>2. IInv /\ [Next]_vars => [Promise!Next]_(Promise!vars)
  BY PromiseNext
<1> QED
  BY <1>1, <1>2, Inductive, PTL DEF Spec, KeepsPromise, Promise!Spec

-----------------------------------------------------------------------------
(***************************************************************************)
(* Clients enter in the order of their requests.                           *)
(***************************************************************************)
\* A client owes replies only while it uses the file, or to later requests
\* while it waits.
DeferredLater(i, j) ==
  reply_deferred[i][j] => is_using[i] \/ (is_waiting[i] /\ Before(i, j))

OrderInv == overtaken \/ \A i \in Clients : \A j \in Others(i) : DeferredLater(i, j)

\* A step that leaves alone what DeferredLater speaks of.
LEMMA LaterUndisturbed ==
  ASSUME NEW i \in Clients, NEW j \in Others(i), DeferredLater(i, j),
         reply_deferred'[i][j] <=> reply_deferred[i][j],
         is_using'[i] <=> is_using[i], is_waiting'[i] <=> is_waiting[i],
         our_sequence_number'[i] = our_sequence_number[i],
         our_sequence_number'[j] = our_sequence_number[j]
  PROVE  DeferredLater(i, j)'
<1>1. Before(i, j)' <=> Before(i, j)
  BY DEF Before
<1> QED
  BY <1>1 DEF DeferredLater

\* request_resource() numbers a request anew only when nobody defers it.
LEMMA LaterRequest ==
  ASSUME TypeOK, NEW k \in Clients, RequestResource(k),
         NEW i \in Clients, NEW j \in Others(i), Safe(j, i), DeferredLater(i, j)
  PROVE  DeferredLater(i, j)'
<1>1. pc[k] = "idle" /\ ~is_waiting[k] /\ ~is_using[k]
  BY DEF RequestResource, TypeOK
<1>2. UNCHANGED <<reply_deferred, is_using>>
  BY DEF RequestResource
<1>3. CASE k = i
  <2>1. ~reply_deferred[i][j]
    BY <1>1, <1>3 DEF DeferredLater
  <2> QED
    BY <1>2, <2>1 DEF DeferredLater
<1>4. CASE k = j
  <2>1. ~Asked(j, i)
    BY <1>1, <1>4 DEF Safe, OneRequest
  <2>2. ~reply_deferred[i][j]
    BY <2>1 DEF Asked
  <2> QED
    BY <1>2, <2>2 DEF DeferredLater
<1>5. CASE k # i /\ k # j
  <2>1. our_sequence_number'[i] = our_sequence_number[i]
    BY <1>5 DEF RequestResource, TypeOK
  <2>2. our_sequence_number'[j] = our_sequence_number[j]
    BY <1>5 DEF RequestResource, TypeOK
  <2>3. is_waiting'[i] = is_waiting[i]
    BY <1>5 DEF RequestResource, TypeOK
  <2> QED
    BY <1>2, <2>1, <2>2, <2>3, LaterUndisturbed
<1> QED
  BY <1>3, <1>4, <1>5

\* enter_critical_section() turns waiting into using.
LEMMA LaterEnter ==
  ASSUME TypeOK, NEW k \in Clients, EnterCriticalSection(k),
         NEW i \in Clients, NEW j \in Others(i), DeferredLater(i, j)
  PROVE  DeferredLater(i, j)'
<1>1. UNCHANGED <<reply_deferred, our_sequence_number>>
  BY DEF EnterCriticalSection
<1>2. CASE k = i
  <2>1. is_using'[i]
    BY <1>2 DEF EnterCriticalSection, TypeOK
  <2> QED
    BY <2>1 DEF DeferredLater
<1>3. CASE k # i
  <2>1. is_using'[i] = is_using[i] /\ is_waiting'[i] = is_waiting[i]
    BY <1>3 DEF EnterCriticalSection, TypeOK
  <2> QED
    BY <1>1, <2>1, LaterUndisturbed
<1> QED
  BY <1>2, <1>3

\* release_resource() leaves no request deferred.
LEMMA LaterRelease ==
  ASSUME TypeOK, NEW k \in Clients, ReleaseResource(k),
         NEW i \in Clients, NEW j \in Others(i), DeferredLater(i, j)
  PROVE  DeferredLater(i, j)'
<1>1. UNCHANGED <<is_waiting, our_sequence_number>>
  BY DEF ReleaseResource
<1>2. reply_deferred \in [Clients -> [Clients -> BOOLEAN]]
  BY DEF TypeOK
<1>3. CASE k = i
  <2>1. reply_deferred'[i] =
          [c \in Clients |-> reply_deferred[i][c] /\ c \notin Owed(i)]
    BY <1>2, <1>3 DEF ReleaseResource
  <2>2. reply_deferred[i][j] \in BOOLEAN /\ (reply_deferred[i][j] => j \in Owed(i))
    BY <1>2 DEF Owed
  <2>3. reply_deferred'[i][j] = (reply_deferred[i][j] /\ j \notin Owed(i))
    BY <2>1
  <2>4. ~reply_deferred'[i][j]
    BY <2>2, <2>3
  <2> QED
    BY <2>4 DEF DeferredLater
<1>4. CASE k # i
  <2>1. reply_deferred'[i] = reply_deferred[i]
    BY <1>2, <1>4 DEF ReleaseResource
  <2>2. is_using'[i] = is_using[i]
    BY <1>4 DEF ReleaseResource, TypeOK
  <2> QED
    BY <1>1, <2>1, <2>2, LaterUndisturbed
<1> QED
  BY <1>3, <1>4

\* treat_request_message() defers the latest request of its sender.
LEMMA LaterDefer ==
  ASSUME TypeOK, NEW k \in Clients, NEW l \in Others(k), DeferReply(k, l),
         NEW i \in Clients, NEW j \in Others(i), Safe(k, l), Safe(l, k),
         DeferredLater(i, j)
  PROVE  DeferredLater(i, j)'
<1>1. UNCHANGED <<is_using, is_waiting, our_sequence_number>>
  BY DEF DeferReply, ReceiveRequest
<1>2. reply_deferred \in [Clients -> [Clients -> BOOLEAN]]
  BY DEF TypeOK
<1>3. reply_deferred' = [reply_deferred EXCEPT ![k][l] = TRUE]
  BY DEF DeferReply
<1>4. CASE i = k /\ j = l
  <2>1. OurPriority(k, l, Theirs(k, l)) <=> Before(k, l)
    BY RequestSeen DEF DeferReply
  <2>2. is_using[k] \/ (is_waiting[k] /\ Before(k, l))
    BY <2>1 DEF DeferReply
  <2>3. Before(k, l)' <=> Before(k, l)
    BY <1>1 DEF Before
  <2> QED
    BY <1>1, <1>4, <2>2, <2>3 DEF DeferredLater
<1>5. CASE ~(i = k /\ j = l)
  <2>1. reply_deferred'[i][j] = reply_deferred[i][j]
    BY <1>2, <1>3, <1>5, AssignLemma
  <2> QED
    BY <1>1, <2>1, LaterUndisturbed
<1> QED
  BY <1>4, <1>5

\* Every step leaves what a waiting client holds back later than its own request.
LEMMA OrderNext == IInv /\ OrderInv /\ [Next]_vars => OrderInv'
<1> SUFFICES ASSUME IInv, OrderInv, [Next]_vars, ~overtaken',
                    NEW i \in Clients, NEW j \in Others(i)
             PROVE  DeferredLater(i, j)'
  BY DEF OrderInv
<1>1. TypeOK
  BY DEF IInv
<1>2. ~overtaken
  <2>1. ASSUME NEW k \in Clients, MainThread(k) PROVE UNCHANGED overtaken
    BY <2>1 DEF MainThread, RequestResource, CanEnterCriticalSection,
       EnterCriticalSection, ReleaseResource
  <2>2. ASSUME NEW k \in Clients, NEW l \in Others(k), ReceiveThread(k, l)
        PROVE  overtaken => overtaken'
    BY <2>2 DEF ReceiveThread, TreatReply, DeferReply, GrantReply, YieldPermission
  <2>3. UNCHANGED vars => UNCHANGED overtaken
    BY DEF vars
  <2> QED
    BY <2>1, <2>2, <2>3 DEF Next, Terminated
<1>3. DeferredLater(i, j)
  BY <1>2 DEF OrderInv
<1>4. \A k \in Clients : \A l \in Others(k) : Safe(k, l)
  BY <1>2 DEF IInv
<1>5. Safe(j, i)
  BY <1>4
<1>6. ASSUME UNCHANGED <<reply_deferred, is_using, is_waiting, our_sequence_number>>
      PROVE  DeferredLater(i, j)'
  BY <1>3, <1>6, LaterUndisturbed
<1>7. ASSUME NEW k \in Clients, MainThread(k) PROVE DeferredLater(i, j)'
  <2>1. CASE RequestResource(k)
    BY <1>1, <1>3, <1>5, <2>1, LaterRequest
  <2>2. CASE CanEnterCriticalSection(k)
    <3>1. UNCHANGED <<reply_deferred, is_using, is_waiting, our_sequence_number>>
      BY <2>2 DEF CanEnterCriticalSection, state
    <3> QED
      BY <1>6, <3>1
  <2>3. CASE EnterCriticalSection(k)
    BY <1>1, <1>3, <2>3, LaterEnter
  <2>4. CASE ReleaseResource(k)
    BY <1>1, <1>3, <2>4, LaterRelease
  <2> QED
    BY <1>7, <2>1, <2>2, <2>3, <2>4 DEF MainThread
<1>8. ASSUME NEW k \in Clients, NEW l \in Others(k), ReceiveThread(k, l)
      PROVE  DeferredLater(i, j)'
  <2>1. CASE TreatReply(k, l)
    BY <1>6, <2>1 DEF TreatReply
  <2>2. CASE DeferReply(k, l)
    <3>1. Safe(k, l) /\ Safe(l, k)
      BY <1>4
    <3> QED
      BY <1>1, <1>3, <2>2, <3>1, LaterDefer
  <2>3. CASE GrantReply(k, l)
    BY <1>6, <2>3 DEF GrantReply, ReceiveRequest
  <2>4. CASE YieldPermission(k, l)
    BY <1>6, <2>4 DEF YieldPermission, ReceiveRequest
  <2> QED
    BY <1>8, <2>1, <2>2, <2>3, <2>4 DEF ReceiveThread
<1>9. CASE UNCHANGED vars
  <2>1. UNCHANGED <<reply_deferred, is_using, is_waiting, our_sequence_number>>
    BY <1>9 DEF vars, state
  <2> QED
    BY <1>6, <2>1
<1> QED
  BY <1>7, <1>8, <1>9 DEF Next, Terminated

\* A client enters before every client whose request it holds back: the
\* comparison of treat_request_message() is made once, when the request
\* arrives, and is still right when enter_critical_section() runs.
THEOREM EntersInOrder == Spec => EntryOrder
<1>1. Init => OrderInv
  BY DEF Init, OrderInv, DeferredLater
<1>2. IInv /\ OrderInv /\ [Next]_vars
        => [\A i \in Clients : \A j \in Others(i) :
              EnterCriticalSection(i) /\ reply_deferred[i][j] /\ ~overtaken
                => Before(i, j)]_vars
  <2> SUFFICES ASSUME IInv, OrderInv, NEW i \in Clients, NEW j \in Others(i),
                      EnterCriticalSection(i), reply_deferred[i][j], ~overtaken
               PROVE  Before(i, j)
    OBVIOUS
  <2>1. ~is_using[i]
    BY DEF EnterCriticalSection, IInv, TypeOK
  <2> QED
    BY <2>1 DEF OrderInv, DeferredLater
<1> QED
  BY <1>1, <1>2, OrderNext, Inductive, PTL DEF Spec, EntryOrder

=============================================================================
