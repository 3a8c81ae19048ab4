--------------------------- MODULE MaekawaTypes ----------------------------
(***************************************************************************)
(* What a step of Maekawa does to the messages under way, and the proof    *)
(* that every variable keeps its type, for every number of clients, every  *)
(* quorum system and every number of requests.                             *)
(***************************************************************************)
EXTENDS Maekawa, StreamLemmas

-----------------------------------------------------------------------------
(***************************************************************************)
(* The network after a step.                                               *)
(***************************************************************************)

\* Every REQUEST in the stream q has the number s.
Numbered(q, s) == \A k \in 1 .. Len(q) : q[k].type = "REQUEST" => q[k].seq = s

Network == [Clients -> [Clients -> Seq(Message)]]

\* What the program sends is a message.
LEMMA MessageTypes ==
  /\ \A t \in MessageType : Msg(t) \in Message /\ Msg(t).type = t
  /\ \A s \in Nat :
       /\ RequestMsg(s) \in Message
       /\ RequestMsg(s).type = "REQUEST" /\ RequestMsg(s).seq = s
BY DEF Msg, RequestMsg, Message, MessageType

\* The network to is net after i sent m to dests: the streams to them carry one
\* more message of its type.
Sent(net, to, i, dests, m) ==
  /\ to \in Network
  /\ \A x, y \in Clients :
       /\ x = i /\ y \in dests => to[x][y] = Append(net[x][y], m)
       /\ ~(x = i /\ y \in dests) => to[x][y] = net[x][y]
  /\ \A x, y \in Clients : \A t :
       IF x = i /\ y \in dests /\ m.type = t
         THEN Count(to[x][y], t) = Count(net[x][y], t) + 1
         ELSE Count(to[x][y], t) = Count(net[x][y], t)
  /\ \A x, y \in Clients : \A t, u :
       t # u => (Ahead(to[x][y], t, u)
         <=> /\ Ahead(net[x][y], t, u)
             /\ x = i /\ y \in dests /\ m.type = t => Count(net[x][y], u) = 0)

\* Send() does what Sent says.
LEMMA SendLemma ==
  ASSUME NEW net \in Network, NEW i \in Clients, NEW dests, NEW m \in Message,
         NEW to, to = Send(net, i, dests, m)
  PROVE  Sent(net, to, i, dests, m)
<1>1. \A x, y \in Clients : net[x][y] \in Seq(Message)
  BY DEF Network
<1>2. \A x, y \in Clients :
        to[x][y] = IF x = i /\ y \in dests THEN Append(net[x][y], m) ELSE net[x][y]
  BY DEF Send, Network
<1>3. to \in Network
  <2>1. \A y \in Clients : Append(net[i][y], m) \in Seq(Message)
    BY <1>1, AppendProperties
  <2> QED
    BY <2>1 DEF Send, Network
<1>4. ASSUME NEW x \in Clients, NEW y \in Clients, NEW t
      PROVE  IF x = i /\ y \in dests /\ m.type = t
               THEN Count(to[x][y], t) = Count(net[x][y], t) + 1
               ELSE Count(to[x][y], t) = Count(net[x][y], t)
  <2>1. Count(net[x][y], t) \in Nat
    BY <1>1, CountType
  <2>2. Count(Append(net[x][y], m), t)
          = Count(net[x][y], t) + IF m.type = t THEN 1 ELSE 0
    BY <1>1, CountSent
  <2> QED
    BY <1>2, <2>1, <2>2
<1>5. ASSUME NEW x \in Clients, NEW y \in Clients, NEW t, NEW u, t # u
      PROVE  Ahead(to[x][y], t, u)
               <=> /\ Ahead(net[x][y], t, u)
                   /\ x = i /\ y \in dests /\ m.type = t
                        => Count(net[x][y], u) = 0
  <2>1. Ahead(Append(net[x][y], m), t, u)
          <=> Ahead(net[x][y], t, u) /\ (m.type = t => Count(net[x][y], u) = 0)
    BY <1>1, <1>5, AheadSent
  <2> QED
    BY <1>2, <2>1
<1>6. \A x, y \in Clients :
        /\ x = i /\ y \in dests => to[x][y] = Append(net[x][y], m)
        /\ ~(x = i /\ y \in dests) => to[x][y] = net[x][y]
  BY <1>2
<1> QED
  BY <1>3, <1>4, <1>5, <1>6 DEF Sent

\* The network left is net after i took the next message from j, of type s: the
\* stream from j carries one message of that type less.
Left(net, left, i, j, s) ==
  /\ left \in Network
  /\ left[j][i] = Tail(net[j][i])
  /\ \A x, y \in Clients : ~(x = j /\ y = i) => left[x][y] = net[x][y]
  /\ \A x, y \in Clients : \A t :
       IF x = j /\ y = i /\ s = t
         THEN Count(left[x][y], t) = Count(net[x][y], t) - 1
         ELSE Count(left[x][y], t) = Count(net[x][y], t)
  /\ Count(net[j][i], s) > 0
  /\ \A x, y \in Clients : \A t, u :
       Ahead(net[x][y], t, u) => Ahead(left[x][y], t, u)
  /\ \A x, y \in Clients : \A t, u :
       ~(x = j /\ y = i /\ s = u) /\ Ahead(left[x][y], t, u)
         => Ahead(net[x][y], t, u)
  /\ \A t : Ahead(net[j][i], t, s) => Count(net[j][i], t) = 0

\* Take() does what Left says.
LEMMA TakeLemma ==
  ASSUME NEW net \in Network, NEW i \in Clients, NEW j \in Clients,
         net[j][i] # <<>>, NEW s, s = Head(net[j][i]).type,
         NEW left, left = Take(net, i, j)
  PROVE  Left(net, left, i, j, s) /\ Head(net[j][i]) \in Message
<1> DEFINE q == net[j][i]
<1>1. \A x, y \in Clients : net[x][y] \in Seq(Message)
  BY DEF Network
<1>2. \A x, y \in Clients :
        left[x][y] = IF x = j /\ y = i THEN Tail(net[x][y]) ELSE net[x][y]
  BY DEF Take, Network
<1>3. q \in Seq(Message) /\ q # <<>> /\ s = Head(q).type
  BY <1>1
<1> HIDE DEF q
<1>4. /\ Tail(q) \in Seq(Message)
      /\ Head(q) \in Message
      /\ Head(q) = q[1] /\ 1 \in 1 .. Len(q)
  BY <1>3, Taken
<1>5. left \in Network
  BY <1>4 DEF Take, Network, q
<1>6. ASSUME NEW x \in Clients, NEW y \in Clients, NEW t
      PROVE  IF x = j /\ y = i /\ s = t
               THEN Count(left[x][y], t) = Count(net[x][y], t) - 1
               ELSE Count(left[x][y], t) = Count(net[x][y], t)
  <2>1. Count(net[x][y], t) \in Nat
    BY <1>1, CountType
  <2>2. Count(Tail(q), t) = Count(q, t) - IF s = t THEN 1 ELSE 0
    BY <1>3, CountTaken
  <2> QED
    BY <1>2, <2>1, <2>2 DEF q
<1>7. Count(q, s) > 0
  BY <1>3, CountTaken
<1>8. ASSUME NEW x \in Clients, NEW y \in Clients, NEW t, NEW u
      PROVE  /\ Ahead(net[x][y], t, u) => Ahead(left[x][y], t, u)
             /\ ~(x = j /\ y = i /\ s = u) /\ Ahead(left[x][y], t, u)
                  => Ahead(net[x][y], t, u)
  <2>1. /\ Ahead(q, t, u) => Ahead(Tail(q), t, u)
        /\ s # u /\ Ahead(Tail(q), t, u) => Ahead(q, t, u)
    BY <1>3, AheadTaken
  <2> QED
    BY <1>2, <2>1 DEF q
<1>9. \A t : Ahead(q, t, s) => Count(q, t) = 0
  BY <1>3, AheadTaken
<1>10. /\ left[j][i] = Tail(q)
       /\ \A x, y \in Clients : ~(x = j /\ y = i) => left[x][y] = net[x][y]
  BY <1>2 DEF q
<1> QED
  BY <1>4, <1>5, <1>6, <1>7, <1>8, <1>9, <1>10 DEF Left, q

\* All counts are numbers.
LEMMA CountNat ==
  ASSUME NEW net \in Network
  PROVE  \A x, y \in Clients : \A t : Count(net[x][y], t) \in Nat
<1>1. \A x, y \in Clients : net[x][y] \in Seq(Message)
  BY DEF Network
<1> QED
  BY <1>1, CountType

\* Sending m and taking the first message keep the REQUESTs numbered.
LEMMA NumberedSent ==
  ASSUME NEW q \in Seq(Message), NEW m \in Message, NEW s,
         m.type = "REQUEST" => m.seq = s,
         Numbered(q, s) \/ Count(q, "REQUEST") = 0
  PROVE  Numbered(Append(q, m), s)
<1>1. Numbered(q, s)
  <2>1. CASE Count(q, "REQUEST") = 0
    BY <2>1, CountType DEF Numbered, Places
  <2> QED
    BY <2>1
<1> QED
  BY <1>1, AppendProperties, LenProperties DEF Numbered

\* The REQUEST that is taken has the number.
LEMMA NumberedTaken ==
  ASSUME NEW q \in Seq(Message), q # <<>>, NEW s, Numbered(q, s)
  PROVE  /\ Numbered(Tail(q), s)
         /\ Head(q).type = "REQUEST" => Head(q).seq = s
<1>1. /\ Head(q) = q[1] /\ 1 \in 1 .. Len(q)
      /\ \A k \in 1 .. Len(Tail(q)) : k + 1 \in 1 .. Len(q) /\ Tail(q)[k] = q[k + 1]
  BY Taken
<1> QED
  BY <1>1 DEF Numbered

-----------------------------------------------------------------------------
(***************************************************************************)
(* The first of the waiting requests.                                      *)
(***************************************************************************)

\* A non-empty set of numbers has a least one.
LEMMA LeastNumber ==
  ASSUME NEW T \in SUBSET Nat, T # {}
  PROVE  \E n \in T : \A m \in T : n <= m
<1> DEFINE less == OpToRel(<, Nat)
<1>1. IsWellFoundedOn(less, Nat)
  BY NatLessThanWellFounded
<1>2. \A m, n \in Nat : m < n => <<m, n>> \in less
  BY DEF OpToRel
<1> HIDE DEF less
<1>3. PICK n \in T : \A m \in T : ~(<<m, n>> \in less)
  BY <1>1, WFMin
<1>4. ASSUME NEW m \in T PROVE n <= m
  <2>1. m \in Nat /\ n \in Nat
    OBVIOUS
  <2>2. ~(m < n)
    BY <1>2, <1>3, <2>1
  <2> QED
    BY <2>1, <2>2
<1> QED
  BY <1>4

\* top() of a queue that is not empty returns a request of the queue, and no
\* request of the queue goes before it.
LEMMA TopLemma ==
  ASSUME NEW Q \in SUBSET [seq : Nat, sender : Clients], Q # {}
  PROVE  Top(Q) \in Q /\ \A q \in Q : ~After(Top(Q), q)
<1> DEFINE seqs == {r.seq : r \in Q}
<1>1. \A r \in Q : r.seq \in Nat /\ r.sender \in Clients
  OBVIOUS
<1>2. seqs \in SUBSET Nat /\ seqs # {}
  BY <1>1
<1>3. PICK s \in seqs : \A m \in seqs : s <= m
  BY <1>2, LeastNumber
<1> DEFINE senders == {r.sender : r \in {q \in Q : q.seq = s}}
<1>4. senders \in SUBSET Nat /\ senders # {}
  BY <1>1, <1>3, NAssumption DEF Clients
<1>5. PICK c \in senders : \A m \in senders : c <= m
  BY <1>4, LeastNumber
<1>6. PICK r \in Q : r.seq = s /\ r.sender = c
  BY <1>5
<1>7. \A q \in Q : ~After(r, q)
  <2> SUFFICES ASSUME NEW q \in Q PROVE ~After(r, q)
    OBVIOUS
  <2>1. q.seq \in seqs /\ (q.seq = s => q.sender \in senders)
    OBVIOUS
  <2>2. s <= q.seq /\ (q.seq = s => c <= q.sender)
    BY <1>3, <1>5, <2>1
  <2>3. s \in Nat /\ c \in Nat /\ q.seq \in Nat /\ q.sender \in Nat
    BY <1>1, <1>2, <1>4, NAssumption DEF Clients
  <2> HIDE DEF seqs, senders
  <2> QED
    BY <1>6, <2>2, <2>3 DEF After
<1> QED
  BY <1>6, <1>7 DEF Top

-----------------------------------------------------------------------------
(***************************************************************************)
(* Type correctness.                                                       *)
(***************************************************************************)

(***************************************************************************)
(* TypeOK is not inductive: treat_relinquish_message() queues the request  *)
(* that had the lock, and there is none if is_locked was never initialised *)
(* and reads true.  Such an arbiter refuses every request and asks nobody  *)
(* for the lock, so no RELINQUISH ever comes.                              *)
(***************************************************************************)
LockedByNobody(a) == is_locked[a] /\ locking_request[a].sender = NoClient

\* Every REQUEST in the stream q has a number above that of NoRequest.
Positive(q) == \A k \in 1 .. Len(q) : q[k].type = "REQUEST" => q[k].seq > 0

\* An arbiter that nobody has locked asks nobody.
AsksNobody(a) ==
  LockedByNobody(a) =>
    /\ locking_request[a].seq = 0
    /\ \A i \in Clients :
         /\ Count(network[a][i], "INQUIRE") = 0
         /\ inquiry[i][a] = "none"
         /\ Count(network[i][a], "RELINQUISH") = 0

TInv ==
  /\ TypeOK
  /\ \A a \in Clients : waiting_queue[a] # {} => is_locked[a]
  /\ \A a \in Clients : AsksNobody(a)
  /\ \A i, a \in Clients : Positive(network[i][a])

\* The first message from j.
LEMMA ArrivesLemma ==
  ASSUME TypeOK, NEW i \in Clients, NEW j \in Clients, NEW t, Arrives(i, j, t)
  PROVE  /\ network \in Network
         /\ network[j][i] \in Seq(Message) /\ network[j][i] # <<>>
         /\ Head(network[j][i]) \in Message /\ t = Head(network[j][i]).type
         /\ Take(network, i, j) \in Network
         /\ Incoming(i, j) \in [seq : Nat, sender : Clients]
         /\ Incoming(i, j).sender = j
<1>1. /\ network \in Network
      /\ network[j][i] \in Seq(Message)
      /\ network[j][i] # <<>> /\ t = Head(network[j][i]).type
  BY DEF TypeOK, Network, Arrives
<1>2. Head(network[j][i]) \in Message /\ Take(network, i, j) \in Network
  BY <1>1, TakeLemma DEF Left
<1>3. Incoming(i, j) \in [seq : Nat, sender : Clients] /\ Incoming(i, j).sender = j
  BY <1>2 DEF Incoming, ARequest, Message
<1> QED
  BY <1>1, <1>2, <1>3

\* Whatever a receive thread sends after it took a message, the network keeps
\* its type.
LEMMA AnswerType ==
  ASSUME TypeOK, NEW i \in Clients, NEW j \in Clients, NEW t, Arrives(i, j, t)
  PROVE  /\ Take(network, i, j) \in Network
         /\ \A dests : \A m \in MessageType :
              Send(Take(network, i, j), i, dests, Msg(m)) \in Network
BY ArrivesLemma, SendLemma, MessageTypes DEF Sent

\* The constructor gives every variable a value of its type, whatever is_locked
\* reads.
LEMMA TypeInit == Init => TypeOK
<1> SUFFICES ASSUME Init PROVE TypeOK
  OBVIOUS
<1>1. network \in [Clients -> [Clients -> Seq(Message)]]
  BY EmptySeq DEF Init
<1>2. is_locked \in [Clients -> BOOLEAN]
  BY MemoryAssumption DEF Init
<1>3. locking_request \in [Clients -> [seq : Nat, sender : Clients \union {NoClient}]]
  BY DEF Init, NoRequest, ARequest
<1>4. \A i \in Clients : n_requested_requests[i] <= n_requests[i]
  BY RequestsAssumption DEF Init
<1> QED
  BY <1>1, <1>2, <1>3, <1>4 DEF Init, TypeOK, ReplyType, Location, Inquiry

\* What treat_request_message() does in all its outcomes keeps the types.
LEMMA EnqueueType ==
  ASSUME TypeOK, NEW i \in Clients, NEW j \in Clients, EnqueueRequest(i, j),
         is_inquire_replied' \in [Clients -> [Clients -> BOOLEAN]],
         network' \in Network, crowded' \in BOOLEAN
  PROVE  TypeOK'
<1>1. Incoming(i, j) \in [seq : Nat, sender : Clients]
  BY ArrivesLemma DEF EnqueueRequest, ReceiveRequest
<1>2. hgst_sequence_number' \in [Clients -> Nat]
  BY <1>1 DEF TypeOK, EnqueueRequest, ReceiveRequest
<1>3. waiting_queue' \in [Clients -> SUBSET [seq : Nat, sender : Clients]]
  BY <1>1 DEF TypeOK, EnqueueRequest
<1> QED
  BY <1>2, <1>3
  DEF TypeOK, Network, EnqueueRequest, ReceiveRequest, requester

\* So does passing the lock on.
LEMMA PassLockType ==
  ASSUME TypeOK, NEW i \in Clients, NEW j \in Clients, NEW t, Arrives(i, j, t),
         waiting_queue[i] # {},
         NEW requeued \in SUBSET [seq : Nat, sender : Clients],
         PassLock(i, j, requeued)
  PROVE  TypeOK'
<1> DEFINE r == Top(waiting_queue[i])
<1>1. waiting_queue[i] \in SUBSET [seq : Nat, sender : Clients]
  BY DEF TypeOK
<1>2. r \in [seq : Nat, sender : Clients]
  BY <1>1, TopLemma
<1> HIDE DEF r
<1>3. waiting_queue' \in [Clients -> SUBSET [seq : Nat, sender : Clients]]
  BY <1>1 DEF TypeOK, PassLock
<1>4. locking_request' \in [Clients -> [seq : Nat, sender : Clients \union {NoClient}]]
  BY <1>2 DEF TypeOK, PassLock, r
<1>5. network' \in Network
  BY AnswerType DEF PassLock, Deliver, MessageType
<1>6. crowded' \in BOOLEAN
  BY DEF TypeOK, PassLock, Deliver
<1>7. is_inquire_replied' \in [Clients -> [Clients -> BOOLEAN]]
  BY DEF TypeOK, PassLock, InquiryAnswered
<1> QED
  BY <1>3, <1>4, <1>5, <1>6, <1>7 DEF TypeOK, Network, PassLock, requester

\* Every block of the strategy keeps the types.
LEMMA TypeNext == TInv /\ [Next]_vars => TypeOK'
<1> SUFFICES ASSUME TInv, [Next]_vars PROVE TypeOK'
  OBVIOUS
<1>T. TypeOK
  BY DEF TInv
<1> USE <1>T, RequestsAssumption
<1>N. network \in Network
  BY DEF TypeOK, Network
<1>1. ASSUME NEW i \in Clients, RequestResource(i) PROVE TypeOK'
  <2> DEFINE s == hgst_sequence_number[i] + 1
  <2>1. s \in Nat
    BY DEF TypeOK
  <2>2. network' \in Network /\ crowded' \in BOOLEAN
    BY <1>1, <1>N, <2>1, SendLemma, MessageTypes
    DEF Sent, RequestResource, Deliver, TypeOK
  <2>3. our_sequence_number' \in [Clients -> Nat]
    BY <1>1, <2>1 DEF RequestResource, TypeOK
  <2>4. request_reply' \in [Clients -> [Clients -> ReplyType]]
    BY <1>1 DEF RequestResource, TypeOK, ReplyType
  <2>5. /\ n_requested_requests' \in [Clients -> Nat]
        /\ \A k \in Clients : n_requested_requests'[k] <= n_requests[k]
    BY <1>1 DEF RequestResource, HasRequest, TypeOK
  <2> QED
    BY <1>1, <2>2, <2>3, <2>4, <2>5
    DEF RequestResource, TypeOK, Network, Location, arbiter
<1>2. ASSUME NEW i \in Clients, EnterCriticalSection(i) PROVE TypeOK'
  BY <1>2 DEF EnterCriticalSection, TypeOK, Location, arbiter
<1>3. ASSUME NEW i \in Clients, ReleaseResource(i) PROVE TypeOK'
  <2>1. network' \in Network /\ crowded' \in BOOLEAN
    BY <1>3, <1>N, SendLemma, MessageTypes
    DEF Sent, ReleaseResource, Deliver, TypeOK, MessageType
  <2>2. request_reply' \in [Clients -> [Clients -> ReplyType]]
    BY <1>3 DEF ReleaseResource, TypeOK, ReplyType
  <2> QED
    BY <1>3, <2>1, <2>2 DEF ReleaseResource, TypeOK, Network, Location, arbiter
<1>4. ASSUME NEW i \in Clients, NEW j \in Clients, GiveLock(i, j) PROVE TypeOK'
  <2>1. Incoming(i, j) \in [seq : Nat, sender : Clients]
    BY <1>4, ArrivesLemma DEF GiveLock, ReceiveRequest
  <2>2. network' \in Network /\ crowded' \in BOOLEAN
    BY <1>4, AnswerType DEF GiveLock, ReceiveRequest, Deliver, TypeOK, MessageType
  <2>3. hgst_sequence_number' \in [Clients -> Nat]
    BY <1>4, <2>1 DEF GiveLock, ReceiveRequest, TypeOK
  <2>4. locking_request' \in [Clients -> [seq : Nat, sender : Clients \union {NoClient}]]
    BY <1>4, <2>1 DEF GiveLock, TypeOK
  <2> QED
    BY <1>4, <2>2, <2>3, <2>4 DEF GiveLock, ReceiveRequest, TypeOK, Network, requester
<1>5. ASSUME NEW i \in Clients, NEW j \in Clients, RefuseLock(i, j) PROVE TypeOK'
  <2>1. network' \in Network /\ crowded' \in BOOLEAN
    BY <1>5, AnswerType
    DEF RefuseLock, EnqueueRequest, ReceiveRequest, Deliver, TypeOK, MessageType
  <2> QED
    BY <1>5, <2>1, EnqueueType DEF RefuseLock, TypeOK
<1>6. ASSUME NEW i \in Clients, NEW j \in Clients, InquireLocker(i, j) PROVE TypeOK'
  <2>1. network' \in Network /\ crowded' \in BOOLEAN
    BY <1>6, AnswerType
    DEF InquireLocker, EnqueueRequest, ReceiveRequest, Deliver, TypeOK, MessageType
  <2>2. is_inquire_replied' \in [Clients -> [Clients -> BOOLEAN]]
    BY <1>6 DEF InquireLocker, TypeOK
  <2> QED
    BY <1>6, <2>1, <2>2, EnqueueType DEF InquireLocker
<1>7. ASSUME NEW i \in Clients, NEW j \in Clients, AwaitInquiry(i, j) PROVE TypeOK'
  <2>1. network' \in Network /\ crowded' \in BOOLEAN
    BY <1>7, AnswerType
    DEF AwaitInquiry, EnqueueRequest, ReceiveRequest, Deliver, TypeOK, MessageType
  <2> QED
    BY <1>7, <2>1, EnqueueType DEF AwaitInquiry, TypeOK
<1>8. ASSUME NEW i \in Clients, NEW j \in Clients, TreatRelinquish(i, j)
      PROVE  TypeOK'
  <2>1. ~LockedByNobody(i)
    <3>1. Count(network[j][i], "RELINQUISH") > 0
      BY <1>8, <1>N, ArrivesLemma, TakeLemma DEF Left, TreatRelinquish, Arrives
    <3> QED
      BY <3>1 DEF TInv, AsksNobody
  <2>2. locking_request[i].sender \in Clients
    BY <1>8, <2>1 DEF TInv, TypeOK, TreatRelinquish, LockedByNobody
  <2>3. {locking_request[i]} \in SUBSET [seq : Nat, sender : Clients]
    BY <2>2 DEF TypeOK
  <2> QED
    BY <1>8, <2>3, PassLockType DEF TreatRelinquish
<1>9. ASSUME NEW i \in Clients, NEW j \in Clients, TreatRelinquishUnderflow(i, j)
      PROVE  TypeOK'
  <2>1. network' \in Network /\ crowded' \in BOOLEAN
    BY <1>9, AnswerType DEF TreatRelinquishUnderflow, Deliver, TypeOK
  <2> QED
    BY <1>9, <2>1 DEF TreatRelinquishUnderflow, TypeOK, Network, requester, arbiter
<1>10. ASSUME NEW i \in Clients, NEW j \in Clients, TreatRelease(i, j) PROVE TypeOK'
  BY <1>10, PassLockType DEF TreatRelease
<1>11. ASSUME NEW i \in Clients, NEW j \in Clients, TreatLastRelease(i, j)
       PROVE  TypeOK'
  <2>1. network' \in Network /\ crowded' \in BOOLEAN
    BY <1>11, AnswerType DEF TreatLastRelease, Deliver, TypeOK
  <2>2. locking_request' \in [Clients -> [seq : Nat, sender : Clients \union {NoClient}]]
    <3> DEFINE Locker == [seq : Nat, sender : Clients \union {NoClient}]
    <3>1. \A r \in Locker : [r EXCEPT !.sender = NoClient] \in Locker
      OBVIOUS
    <3>2. locking_request \in [Clients -> Locker]
      BY DEF TypeOK
    <3>3. locking_request' =
            [locking_request EXCEPT ![i] = [locking_request[i] EXCEPT !.sender = NoClient]]
      BY <1>11 DEF TreatLastRelease
    <3> HIDE DEF Locker
    <3>4. locking_request' \in [Clients -> Locker]
      BY <3>1, <3>2, <3>3
    <3> QED
      BY <3>4 DEF Locker
  <2> QED
    BY <1>11, <2>1, <2>2
    DEF TreatLastRelease, InquiryAnswered, TypeOK, Network, requester
<1>12. ASSUME NEW i \in Clients, NEW j \in Clients, NEW t \in ReplyType,
              TreatReply(i, j, t)
       PROVE  TypeOK'
  <2>1. network' \in Network /\ crowded' \in BOOLEAN
    BY <1>12, AnswerType DEF TreatReply, Deliver, TypeOK
  <2> QED
    BY <1>12, <2>1 DEF TreatReply, TypeOK, Network, arbiter
<1>13. ASSUME NEW i \in Clients, NEW j \in Clients, TreatInquire(i, j) PROVE TypeOK'
  <2>1. network' \in Network /\ crowded' \in BOOLEAN
    BY <1>13, AnswerType DEF TreatInquire, Deliver, TypeOK
  <2> QED
    BY <1>13, <2>1 DEF TreatInquire, TypeOK, Network, Inquiry, requester, arbiter
<1>14. ASSUME NEW i \in Clients, NEW j \in Clients,
              LeaveSpin(i, j) \/ SeeFailed(i, j) \/ SeeNoFailed(i, j)
       PROVE  TypeOK'
  <2>1. PICK h \in Inquiry : inquiry' = [inquiry EXCEPT ![i][j] = h]
    BY <1>14 DEF LeaveSpin, SeeFailed, SeeNoFailed, Continue, Inquiry
  <2>2. UNCHANGED <<requester, arbiter, killed, network, crowded, fouled>>
    BY <1>14 DEF LeaveSpin, SeeFailed, SeeNoFailed
  <2> QED
    BY <2>1, <2>2 DEF TypeOK, requester, arbiter
<1>15. ASSUME NEW i \in Clients, NEW j \in Clients, Relinquish(i, j) PROVE TypeOK'
  <2>1. network' \in Network /\ crowded' \in BOOLEAN
    BY <1>15, <1>N, SendLemma, MessageTypes
    DEF Sent, Relinquish, Deliver, TypeOK, MessageType
  <2>2. request_reply' \in [Clients -> [Clients -> ReplyType]]
    BY <1>15 DEF Relinquish, TypeOK, ReplyType
  <2>3. inquiry' \in [Clients -> [Clients -> Inquiry]]
    BY <1>15 DEF Relinquish, Continue, TypeOK, Inquiry
  <2>4. fouled' \in BOOLEAN
    BY <1>15 DEF Relinquish, TypeOK
  <2> QED
    BY <1>15, <2>1, <2>2, <2>3, <2>4 DEF Relinquish, TypeOK, Network, arbiter
<1>16. CASE UNCHANGED vars
  BY <1>16 DEF vars, requester, arbiter, TypeOK
<1> QED
  BY <1>1, <1>2, <1>3, <1>4, <1>5, <1>6, <1>7, <1>8, <1>9, <1>10, <1>11, <1>12,
     <1>13, <1>14, <1>15, <1>16
  DEF Next, MainThread, ReceiveThread, TreatFailed, TreatLocked, ReplyType

-----------------------------------------------------------------------------
(***************************************************************************)
(* The network after a step of the strategy: what i told dests, and what it*)
(* told them after it took a message of type s from j.  Nothing is sent in *)
(* answer if dests is empty.                                               *)
(***************************************************************************)
Told(i, dests, m) ==
  /\ \A x, y \in Clients : \A t :
       IF x = i /\ y \in dests /\ m = t
         THEN Count(network'[x][y], t) = Count(network[x][y], t) + 1
         ELSE Count(network'[x][y], t) = Count(network[x][y], t)
  /\ \A x, y \in Clients : \A t, u :
       t # u => (Ahead(network'[x][y], t, u)
         <=> /\ Ahead(network[x][y], t, u)
             /\ x = i /\ y \in dests /\ m = t => Count(network[x][y], u) = 0)
  /\ \A x, y \in Clients : \A n :
       /\ ~(x = i /\ y \in dests /\ m = "REQUEST")
       /\ Numbered(network[x][y], n)
       => Numbered(network'[x][y], n)
  /\ \A x, y \in Clients : Positive(network[x][y]) => Positive(network'[x][y])

Answered(i, j, s, dests, m) ==
  /\ \A x, y \in Clients : \A t :
       IF x = j /\ y = i /\ s = t
         THEN Count(network'[x][y], t) = Count(network[x][y], t) - 1
       ELSE IF x = i /\ y \in dests /\ m = t
         THEN Count(network'[x][y], t) = Count(network[x][y], t) + 1
         ELSE Count(network'[x][y], t) = Count(network[x][y], t)
  /\ Count(network[j][i], s) > 0
  /\ \A x, y \in Clients : \A t, u :
       /\ t # u
       /\ Ahead(network[x][y], t, u)
       /\ x = i /\ y \in dests /\ m = t => Count(network[x][y], u) = 0
       => Ahead(network'[x][y], t, u)
  /\ \A x, y \in Clients : \A t, u :
       /\ t # u
       /\ ~(x = j /\ y = i /\ s = u)
       /\ Ahead(network'[x][y], t, u)
       => Ahead(network[x][y], t, u)
  /\ \A t : Ahead(network[j][i], t, s) => Count(network[j][i], t) = 0
  /\ \A x, y \in Clients : \A n :
       Numbered(network[x][y], n) => Numbered(network'[x][y], n)
  /\ \A x, y \in Clients : Positive(network[x][y]) => Positive(network'[x][y])

\* Sending m and taking the first message keep the numbers of the REQUESTs
\* above zero.
LEMMA PositiveSent ==
  ASSUME NEW q \in Seq(Message), NEW m \in Message, Positive(q),
         m.type = "REQUEST" => m.seq > 0
  PROVE  Positive(Append(q, m))
BY AppendProperties, LenProperties DEF Positive

\* The REQUEST that is taken has a number above zero.
LEMMA PositiveTaken ==
  ASSUME NEW q \in Seq(Message), q # <<>>, Positive(q)
  PROVE  /\ Positive(Tail(q))
         /\ Head(q).type = "REQUEST" => Head(q).seq > 0
<1>1. /\ Head(q) = q[1] /\ 1 \in 1 .. Len(q)
      /\ \A k \in 1 .. Len(Tail(q)) : k + 1 \in 1 .. Len(q) /\ Tail(q)[k] = q[k + 1]
  BY Taken
<1> QED
  BY <1>1 DEF Positive

\* A step that only sends m does what Told says.
LEMMA ToldLemma ==
  ASSUME network \in Network, NEW i \in Clients, NEW dests, NEW m \in Message,
         network' = Send(network, i, dests, m), m.type = "REQUEST" => m.seq > 0
  PROVE  network' \in Network /\ Told(i, dests, m.type)
<1>1. \A x, y \in Clients : network[x][y] \in Seq(Message)
  BY DEF Network
<1>2. Sent(network, network', i, dests, m)
  BY SendLemma
<1>3. ASSUME NEW x \in Clients, NEW y \in Clients, NEW n,
             ~(x = i /\ y \in dests /\ m.type = "REQUEST"),
             Numbered(network[x][y], n)
      PROVE  Numbered(network'[x][y], n)
  <2>1. m.type # "REQUEST" => Numbered(Append(network[x][y], m), n)
    BY <1>1, <1>3, NumberedSent
  <2> QED
    BY <1>2, <1>3, <2>1 DEF Sent
<1>4. ASSUME NEW x \in Clients, NEW y \in Clients, Positive(network[x][y])
      PROVE  Positive(network'[x][y])
  <2>1. Positive(Append(network[x][y], m))
    BY <1>1, <1>4, PositiveSent
  <2> QED
    BY <1>2, <1>4, <2>1 DEF Sent
<1> QED
  BY <1>2, <1>3, <1>4 DEF Sent, Told

\* A step that takes a message of type s and sends one of another type, not a
\* REQUEST, does what Answered says.
LEMMA AnsweredLemma ==
  ASSUME TypeOK, NEW i \in Clients, NEW j \in Clients, NEW s, Arrives(i, j, s),
         NEW dests, NEW m \in MessageType \ {"REQUEST", s},
         network' = Send(Take(network, i, j), i, dests, Msg(m))
  PROVE  Answered(i, j, s, dests, m)
<1> DEFINE left == Take(network, i, j)
           msg == Msg(m)
<1>1. /\ network \in Network
      /\ network[j][i] # <<>>
      /\ s = Head(network[j][i]).type
      /\ left \in Network
      /\ msg \in Message /\ msg.type = m
  BY ArrivesLemma, MessageTypes
<1>2. \A x, y \in Clients :
        network[x][y] \in Seq(Message) /\ left[x][y] \in Seq(Message)
  BY <1>1 DEF Network
<1>3. Left(network, left, i, j, s)
  BY <1>1, TakeLemma
<1>4. Sent(left, network', i, dests, msg)
  BY <1>1, SendLemma
<1> HIDE DEF left, msg
<1>5. \A x, y \in Clients : \A t :
        Count(network[x][y], t) \in Nat /\ Count(left[x][y], t) \in Nat
  BY <1>1, CountNat
<1>6. ASSUME NEW x \in Clients, NEW y \in Clients, NEW t
      PROVE  IF x = j /\ y = i /\ s = t
               THEN Count(network'[x][y], t) = Count(network[x][y], t) - 1
             ELSE IF x = i /\ y \in dests /\ m = t
               THEN Count(network'[x][y], t) = Count(network[x][y], t) + 1
               ELSE Count(network'[x][y], t) = Count(network[x][y], t)
  <2>1. IF x = j /\ y = i /\ s = t
          THEN Count(left[x][y], t) = Count(network[x][y], t) - 1
          ELSE Count(left[x][y], t) = Count(network[x][y], t)
    BY <1>3 DEF Left
  <2>2. IF x = i /\ y \in dests /\ m = t
          THEN Count(network'[x][y], t) = Count(left[x][y], t) + 1
          ELSE Count(network'[x][y], t) = Count(left[x][y], t)
    <3>1. IF x = i /\ y \in dests /\ msg.type = t
            THEN Count(network'[x][y], t) = Count(left[x][y], t) + 1
            ELSE Count(network'[x][y], t) = Count(left[x][y], t)
      <4>1. \A a, b \in Clients : \A u :
              IF a = i /\ b \in dests /\ msg.type = u
                THEN Count(network'[a][b], u) = Count(left[a][b], u) + 1
                ELSE Count(network'[a][b], u) = Count(left[a][b], u)
        BY <1>4 DEF Sent
      <4> QED
        BY <4>1
    <3>2. msg.type = m
      BY <1>1
    <3> QED
      BY <3>1, <3>2
  <2> QED
    BY <2>1, <2>2
<1>7. ASSUME NEW x \in Clients, NEW y \in Clients, NEW t, NEW u, t # u,
             Ahead(network[x][y], t, u),
             x = i /\ y \in dests /\ m = t => Count(network[x][y], u) = 0
      PROVE  Ahead(network'[x][y], t, u)
  <2>1. Count(network[x][y], u) = 0 => Count(left[x][y], u) = 0
    <3>1. Count(network[x][y], u) \in Nat /\ Count(left[x][y], u) \in Nat
      BY <1>5
    <3>2. \/ Count(left[x][y], u) = Count(network[x][y], u) - 1
          \/ Count(left[x][y], u) = Count(network[x][y], u)
      BY <1>3 DEF Left
    <3> QED
      BY <3>1, <3>2
  <2> QED
    BY <1>1, <1>3, <1>4, <1>7, <2>1 DEF Left, Sent
<1>8. ASSUME NEW x \in Clients, NEW y \in Clients, NEW t, NEW u, t # u,
             ~(x = j /\ y = i /\ s = u), Ahead(network'[x][y], t, u)
      PROVE  Ahead(network[x][y], t, u)
  BY <1>3, <1>4, <1>8 DEF Left, Sent
<1>9. ASSUME NEW x \in Clients, NEW y \in Clients
      PROVE  /\ \A n : Numbered(network[x][y], n) => Numbered(network'[x][y], n)
             /\ Positive(network[x][y]) => Positive(network'[x][y])
  <2>1. /\ \A n : Numbered(network[x][y], n) => Numbered(left[x][y], n)
        /\ Positive(network[x][y]) => Positive(left[x][y])
    BY <1>1, <1>2, <1>3, NumberedTaken, PositiveTaken DEF Left
  <2>2. /\ \A n : Numbered(left[x][y], n) => Numbered(Append(left[x][y], msg), n)
        /\ Positive(left[x][y]) => Positive(Append(left[x][y], msg))
    BY <1>1, <1>2, NumberedSent, PositiveSent
  <2> QED
    BY <1>4, <2>1, <2>2 DEF Sent
<1> QED
  BY <1>3, <1>6, <1>7, <1>8, <1>9 DEF Left, Answered

\* A receive thread that sends nothing.
LEMMA UnansweredLemma ==
  ASSUME TypeOK, NEW i \in Clients, NEW j \in Clients, NEW s, Arrives(i, j, s),
         network' = Take(network, i, j), NEW m
  PROVE  Answered(i, j, s, {}, m)
<1>1. Take(network, i, j) \in Network
  BY ArrivesLemma
<1>2. PICK t \in {"LOCKED", "FAILED"} : t # s
  OBVIOUS
<1>3. Send(Take(network, i, j), i, {}, Msg(t)) = Take(network, i, j)
  <2> DEFINE left == Take(network, i, j)
  <2> HIDE DEF left
  <2>1. left \in Network => Send(left, i, {}, Msg(t)) = left
    BY DEF Send, Network
  <2> QED
    BY <1>1, <2>1 DEF left
<1>4. Answered(i, j, s, {}, t)
  BY <1>2, <1>3, AnsweredLemma DEF MessageType
<1> QED
  BY <1>4 DEF Answered

\* What the steps of the main thread and the answer to an INQUIRE send.
LEMMA ToldBy ==
  ASSUME TypeOK, NEW i \in Clients
  PROVE  /\ RequestResource(i) => Told(i, quorum[i], "REQUEST")
         /\ ReleaseResource(i) => Told(i, quorum[i], "RELEASE")
         /\ \A j \in Clients : Relinquish(i, j) => Told(i, {j}, "RELINQUISH")
<1>1. network \in Network
  BY DEF TypeOK, Network
<1>2. ASSUME RequestResource(i) PROVE Told(i, quorum[i], "REQUEST")
  <2> DEFINE s == hgst_sequence_number[i] + 1
  <2>1. s \in Nat /\ s > 0
    BY DEF TypeOK
  <2>2. network' = Send(network, i, quorum[i], RequestMsg(s))
    BY <1>2 DEF RequestResource, Deliver
  <2> HIDE DEF s
  <2>3. /\ RequestMsg(s) \in Message
        /\ RequestMsg(s).type = "REQUEST" /\ RequestMsg(s).seq > 0
    BY <2>1, MessageTypes
  <2>4. Told(i, quorum[i], RequestMsg(s).type)
    BY <1>1, <2>2, <2>3, ToldLemma
  <2> QED
    BY <2>3, <2>4
<1>3. ASSUME NEW t \in MessageType \ {"REQUEST"}, NEW dests,
             network' = Send(network, i, dests, Msg(t))
      PROVE  Told(i, dests, t)
  <2>1. Msg(t) \in Message /\ Msg(t).type = t
    BY MessageTypes
  <2>2. Told(i, dests, Msg(t).type)
    BY <1>1, <1>3, <2>1, ToldLemma
  <2> QED
    BY <2>1, <2>2
<1>4. ReleaseResource(i) => Told(i, quorum[i], "RELEASE")
  BY <1>3 DEF ReleaseResource, Deliver, MessageType
<1>5. \A j \in Clients : Relinquish(i, j) => Told(i, {j}, "RELINQUISH")
  BY <1>3 DEF Relinquish, Deliver, MessageType
<1> QED
  BY <1>2, <1>4, <1>5

\* What the receive threads take and send.
LEMMA AnsweredBy ==
  ASSUME TypeOK, NEW i \in Clients, NEW j \in Clients
  PROVE  /\ GiveLock(i, j) => Answered(i, j, "REQUEST", {j}, "LOCKED")
         /\ RefuseLock(i, j) => Answered(i, j, "REQUEST", {j}, "FAILED")
         /\ InquireLocker(i, j) =>
              Answered(i, j, "REQUEST", {locking_request[i].sender}, "INQUIRE")
         /\ AwaitInquiry(i, j) => Answered(i, j, "REQUEST", {}, "LOCKED")
         /\ TreatRelinquish(i, j) =>
              Answered(i, j, "RELINQUISH", {Top(waiting_queue[i]).sender}, "LOCKED")
         /\ TreatRelinquishUnderflow(i, j) =>
              Answered(i, j, "RELINQUISH", {}, "LOCKED")
         /\ TreatRelease(i, j) =>
              Answered(i, j, "RELEASE", {Top(waiting_queue[i]).sender}, "LOCKED")
         /\ TreatLastRelease(i, j) => Answered(i, j, "RELEASE", {}, "LOCKED")
         /\ \A t : TreatReply(i, j, t) => Answered(i, j, t, {}, "LOCKED")
         /\ TreatInquire(i, j) => Answered(i, j, "INQUIRE", {}, "LOCKED")
<1>1. GiveLock(i, j) => Answered(i, j, "REQUEST", {j}, "LOCKED")
  BY AnsweredLemma DEF GiveLock, ReceiveRequest, Deliver, MessageType
<1>2. RefuseLock(i, j) => Answered(i, j, "REQUEST", {j}, "FAILED")
  BY AnsweredLemma DEF RefuseLock, EnqueueRequest, ReceiveRequest, Deliver, MessageType
<1>3. InquireLocker(i, j) =>
        Answered(i, j, "REQUEST", {locking_request[i].sender}, "INQUIRE")
  BY AnsweredLemma DEF InquireLocker, EnqueueRequest, ReceiveRequest, Deliver, MessageType
<1>4. AwaitInquiry(i, j) => Answered(i, j, "REQUEST", {}, "LOCKED")
  BY UnansweredLemma DEF AwaitInquiry, EnqueueRequest, ReceiveRequest, Deliver
<1>5. TreatRelinquish(i, j) =>
        Answered(i, j, "RELINQUISH", {Top(waiting_queue[i]).sender}, "LOCKED")
  BY AnsweredLemma DEF TreatRelinquish, PassLock, Deliver, MessageType
<1>6. TreatRelinquishUnderflow(i, j) => Answered(i, j, "RELINQUISH", {}, "LOCKED")
  BY UnansweredLemma DEF TreatRelinquishUnderflow, Deliver
<1>7. TreatRelease(i, j) =>
        Answered(i, j, "RELEASE", {Top(waiting_queue[i]).sender}, "LOCKED")
  BY AnsweredLemma DEF TreatRelease, PassLock, Deliver, MessageType
<1>8. TreatLastRelease(i, j) => Answered(i, j, "RELEASE", {}, "LOCKED")
  BY UnansweredLemma DEF TreatLastRelease, Deliver
<1>9. \A t : TreatReply(i, j, t) => Answered(i, j, t, {}, "LOCKED")
  BY UnansweredLemma DEF TreatReply, Deliver
<1>10. TreatInquire(i, j) => Answered(i, j, "INQUIRE", {}, "LOCKED")
  BY UnansweredLemma DEF TreatInquire, Deliver
<1> QED
  BY <1>1, <1>2, <1>3, <1>4, <1>5, <1>6, <1>7, <1>8, <1>9, <1>10

-----------------------------------------------------------------------------
(***************************************************************************)
(* An arbiter that nobody has locked asks nobody.                          *)
(***************************************************************************)

\* Nobody has asked for a lock yet, nor been asked.
LEMMA NobodyInit == Init => TInv
<1> SUFFICES ASSUME Init PROVE TInv
  OBVIOUS
<1>1. \A i, j \in Clients : network[i][j] = <<>>
  BY DEF Init
<1>2. \A i, j \in Clients :
        Positive(network[i][j]) /\ \A t : Count(network[i][j], t) = 0
  BY <1>1, CountEmpty, EmptySeq DEF Positive
<1> QED
  BY <1>2, TypeInit DEF Init, TInv, AsksNobody, NoRequest, ARequest

\* A step that leaves a's lock alone, and sends and takes nothing that concerns
\* it, keeps AsksNobody(a).
LEMMA NobodyKept ==
  ASSUME NEW a \in Clients, AsksNobody(a),
         LockedByNobody(a)' => LockedByNobody(a),
         LockedByNobody(a) => locking_request'[a].seq = locking_request[a].seq,
         LockedByNobody(a) => \A i \in Clients :
           /\ Count(network'[a][i], "INQUIRE") = Count(network[a][i], "INQUIRE")
           /\ inquiry'[i][a] = inquiry[i][a]
           /\ Count(network'[i][a], "RELINQUISH") = Count(network[i][a], "RELINQUISH")
  PROVE  AsksNobody(a)'
BY DEF AsksNobody

\* Every block keeps the types and AsksNobody.
LEMMA NobodyNext == TInv /\ [Next]_vars => TInv'
<1> SUFFICES ASSUME TInv, [Next]_vars PROVE TInv'
  OBVIOUS
<1>T. TypeOK /\ TypeOK'
  BY TypeNext DEF TInv
<1> DEFINE Rest(a) ==
      /\ waiting_queue[a] # {} => is_locked[a]
      /\ AsksNobody(a)
      /\ \A i \in Clients : Positive(network[i][a])
<1>R. \A a \in Clients : Rest(a)
  BY DEF TInv
<1> SUFFICES ASSUME NEW a \in Clients PROVE Rest(a)'
  BY <1>T DEF TInv
<1> USE <1>T, <1>R
<1>1. ASSUME NEW i \in Clients, RequestResource(i) \/ ReleaseResource(i) PROVE Rest(a)'
  <2>1. \/ Told(i, quorum[i], "REQUEST")
        \/ Told(i, quorum[i], "RELEASE")
    BY <1>1, ToldBy
  <2>2. UNCHANGED <<arbiter, inquiry>>
    BY <1>1 DEF RequestResource, ReleaseResource
  <2>3. \A x \in Clients :
          /\ Count(network'[a][x], "INQUIRE") = Count(network[a][x], "INQUIRE")
          /\ Count(network'[x][a], "RELINQUISH") = Count(network[x][a], "RELINQUISH")
          /\ Positive(network'[x][a])
    <3> SUFFICES ASSUME NEW x \in Clients
                 PROVE  /\ Count(network'[a][x], "INQUIRE") = Count(network[a][x], "INQUIRE")
                        /\ Count(network'[x][a], "RELINQUISH") = Count(network[x][a], "RELINQUISH")
                        /\ Positive(network'[x][a])
      OBVIOUS
    <3>1. Count(network'[a][x], "INQUIRE") = Count(network[a][x], "INQUIRE")
      BY <2>1 DEF Told
    <3>2. Count(network'[x][a], "RELINQUISH") = Count(network[x][a], "RELINQUISH")
      BY <2>1 DEF Told
    <3>3. Positive(network'[x][a])
      BY <2>1 DEF Told
    <3> QED
      BY <3>1, <3>2, <3>3
  <2>4. AsksNobody(a)'
    BY <2>2, <2>3, NobodyKept DEF LockedByNobody, arbiter
  <2> QED
    BY <2>2, <2>3, <2>4 DEF arbiter
<1>2. ASSUME NEW i \in Clients, EnterCriticalSection(i) PROVE Rest(a)'
  BY <1>2 DEF EnterCriticalSection, arbiter, AsksNobody, LockedByNobody
<1>3. ASSUME NEW i \in Clients, NEW j \in Clients, GiveLock(i, j) PROVE Rest(a)'
  <2>1. Answered(i, j, "REQUEST", {j}, "LOCKED")
    BY <1>3, AnsweredBy
  <2>2. \A x \in Clients :
          /\ Count(network'[a][x], "INQUIRE") = Count(network[a][x], "INQUIRE")
          /\ Count(network'[x][a], "RELINQUISH") = Count(network[x][a], "RELINQUISH")
          /\ Positive(network'[x][a])
    <3> SUFFICES ASSUME NEW x \in Clients
                 PROVE  /\ Count(network'[a][x], "INQUIRE") = Count(network[a][x], "INQUIRE")
                        /\ Count(network'[x][a], "RELINQUISH") = Count(network[x][a], "RELINQUISH")
                        /\ Positive(network'[x][a])
      OBVIOUS
    <3>1. Count(network'[a][x], "INQUIRE") = Count(network[a][x], "INQUIRE")
      BY <2>1 DEF Answered
    <3>2. Count(network'[x][a], "RELINQUISH") = Count(network[x][a], "RELINQUISH")
      BY <2>1 DEF Answered
    <3>3. Positive(network'[x][a])
      BY <2>1 DEF Answered
    <3> QED
      BY <3>1, <3>2, <3>3
  <2>3. locking_request'[i].sender = j /\ j # NoClient
    BY <1>3 DEF GiveLock, Incoming, ARequest, TypeOK, NoClient, Clients
  <2>4. AsksNobody(a)'
    <3>1. CASE a = i
      BY <2>3, <3>1 DEF AsksNobody, LockedByNobody
    <3>2. CASE a # i
      BY <1>3, <2>2, <3>2, NobodyKept DEF GiveLock, ReceiveRequest, LockedByNobody, TypeOK
    <3> QED
      BY <3>1, <3>2
  <2> QED
    BY <1>3, <2>2, <2>4 DEF GiveLock, TypeOK
<1>4. ASSUME NEW i \in Clients, NEW j \in Clients,
             RefuseLock(i, j) \/ AwaitInquiry(i, j) \/ InquireLocker(i, j)
      PROVE  Rest(a)'
  <2>1. EnqueueRequest(i, j)
    BY <1>4 DEF RefuseLock, AwaitInquiry, InquireLocker
  <2>2. PICK dests, m : /\ Answered(i, j, "REQUEST", dests, m)
                        /\ m # "RELINQUISH"
                        /\ m = "INQUIRE" => InquireLocker(i, j)
    <3>1. RefuseLock(i, j) => Answered(i, j, "REQUEST", {j}, "FAILED")
      BY AnsweredBy
    <3>2. AwaitInquiry(i, j) => Answered(i, j, "REQUEST", {}, "LOCKED")
      BY AnsweredBy
    <3>3. InquireLocker(i, j) =>
            Answered(i, j, "REQUEST", {locking_request[i].sender}, "INQUIRE")
      BY AnsweredBy
    <3> QED
      BY <1>4, <3>1, <3>2, <3>3, Zenon
  <2>3. \A x \in Clients :
          /\ Count(network'[x][a], "RELINQUISH") = Count(network[x][a], "RELINQUISH")
          /\ Positive(network'[x][a])
    <3> SUFFICES ASSUME NEW x \in Clients
                 PROVE  /\ Count(network'[x][a], "RELINQUISH") = Count(network[x][a], "RELINQUISH")
                        /\ Positive(network'[x][a])
      OBVIOUS
    <3>1. Count(network'[x][a], "RELINQUISH") = Count(network[x][a], "RELINQUISH")
      BY <2>2 DEF Answered
    <3>2. Positive(network'[x][a])
      BY <2>2 DEF Answered
    <3> QED
      BY <3>1, <3>2
  <2>4. ASSUME LockedByNobody(a), NEW x \in Clients
        PROVE  Count(network'[a][x], "INQUIRE") = Count(network[a][x], "INQUIRE")
    <3>1. CASE a = i /\ InquireLocker(i, j)
      <4>1. Arrives(i, j, "REQUEST")
        BY <2>1 DEF EnqueueRequest, ReceiveRequest
      <4>2. Head(network[j][i]).seq > 0
        BY <4>1, ArrivesLemma, PositiveTaken DEF Arrives
      <4>3. LockedByNobody(i) => After(Incoming(i, j), locking_request[i])
        BY <4>2, <3>1 DEF AsksNobody, After, Incoming, ARequest
      <4> QED
        BY <2>4, <3>1, <4>3 DEF InquireLocker, ComesLater
    <3>2. CASE ~InquireLocker(i, j)
      BY <2>2, <3>2 DEF Answered
    <3>3. CASE a # i
      BY <2>2, <3>3 DEF Answered
    <3> QED
      BY <3>1, <3>2, <3>3
  <2>5. AsksNobody(a)'
    BY <2>1, <2>3, <2>4, NobodyKept
    DEF EnqueueRequest, ReceiveRequest, LockedByNobody
  <2>6. waiting_queue'[a] # {} => is_locked'[a]
    <3>1. waiting_queue'[a] = waiting_queue[a] \/ a = i
      BY <2>1 DEF EnqueueRequest, TypeOK
    <3>2. is_locked' = is_locked /\ is_locked[i] = TRUE
      BY <2>1 DEF EnqueueRequest, TypeOK
    <3> QED
      BY <3>1, <3>2
  <2> QED
    BY <2>3, <2>5, <2>6
<1>5. ASSUME NEW i \in Clients, NEW j \in Clients,
             TreatRelinquish(i, j) \/ TreatRelease(i, j)
      PROVE  Rest(a)'
  <2> DEFINE r == Top(waiting_queue[i])
  <2>1. PICK requeued : PassLock(i, j, requeued)
    BY <1>5 DEF TreatRelinquish, TreatRelease
  <2>2. waiting_queue[i] # {} /\ waiting_queue[i] \in SUBSET [seq : Nat, sender : Clients]
    BY <1>5 DEF TreatRelinquish, TreatRelease, TypeOK
  <2>3. r \in waiting_queue[i] /\ r.sender \in Clients /\ r.sender # NoClient
    BY <2>2, TopLemma, NAssumption DEF NoClient, Clients
  <2>4. PICK t \in {"RELINQUISH", "RELEASE"} : Answered(i, j, t, {r.sender}, "LOCKED")
    BY <1>5, AnsweredBy
  <2> HIDE DEF r
  <2>5. \A x \in Clients : Positive(network'[x][a])
    BY <2>4 DEF Answered
  <2>6. CASE a = i
    <3>1. locking_request'[i].sender # NoClient
      BY <2>1, <2>3 DEF PassLock, TypeOK, r
    <3>2. is_locked'[i]
      BY <2>1, <2>2 DEF PassLock
    <3> QED
      BY <2>5, <2>6, <3>1, <3>2 DEF AsksNobody, LockedByNobody
  <2>7. CASE a # i
    <3>1. \A x \in Clients : Count(network'[a][x], "INQUIRE") = Count(network[a][x], "INQUIRE")
      BY <2>4 DEF Answered
    <3>2. \A x \in Clients :
            Count(network'[x][a], "RELINQUISH") = Count(network[x][a], "RELINQUISH")
      BY <2>4, <2>7 DEF Answered
    <3>3. /\ UNCHANGED <<inquiry, is_locked>>
          /\ locking_request'[a] = locking_request[a]
          /\ waiting_queue'[a] = waiting_queue[a]
      BY <2>1, <2>7 DEF PassLock, TypeOK
    <3>4. AsksNobody(a)'
      BY <3>1, <3>2, <3>3, NobodyKept DEF LockedByNobody
    <3> QED
      BY <2>5, <3>3, <3>4
  <2> QED
    BY <2>6, <2>7
<1>6. ASSUME NEW i \in Clients, NEW j \in Clients, TreatLastRelease(i, j) PROVE Rest(a)'
  <2>1. Answered(i, j, "RELEASE", {}, "LOCKED")
    BY <1>6, AnsweredBy
  <2>2. \A x \in Clients : Positive(network'[x][a])
    BY <2>1 DEF Answered
  <2>3. CASE a = i
    <3>1. ~is_locked'[i] /\ waiting_queue'[i] = {}
      BY <1>6 DEF TreatLastRelease, TypeOK
    <3> QED
      BY <2>2, <2>3, <3>1 DEF AsksNobody, LockedByNobody
  <2>4. CASE a # i
    <3>1. \A x \in Clients : Count(network'[a][x], "INQUIRE") = Count(network[a][x], "INQUIRE")
      BY <2>1 DEF Answered
    <3>2. \A x \in Clients :
            Count(network'[x][a], "RELINQUISH") = Count(network[x][a], "RELINQUISH")
      BY <2>1 DEF Answered
    <3>3. /\ UNCHANGED <<inquiry, waiting_queue>>
          /\ is_locked'[a] = is_locked[a]
          /\ locking_request'[a] = locking_request[a]
      BY <1>6, <2>4 DEF TreatLastRelease, TypeOK
    <3>4. AsksNobody(a)'
      BY <3>1, <3>2, <3>3, NobodyKept DEF LockedByNobody
    <3> QED
      BY <2>2, <3>3, <3>4
  <2> QED
    BY <2>3, <2>4
<1>7. ASSUME NEW i \in Clients, NEW j \in Clients, NEW t \in {"FAILED", "LOCKED"},
             TreatReply(i, j, t)
      PROVE  Rest(a)'
  <2>1. Answered(i, j, t, {}, "LOCKED")
    BY <1>7, AnsweredBy
  <2>2. \A x \in Clients : Positive(network'[x][a])
    BY <2>1 DEF Answered
  <2>3. \A x \in Clients : Count(network'[a][x], "INQUIRE") = Count(network[a][x], "INQUIRE")
    BY <2>1 DEF Answered
  <2>4. \A x \in Clients :
          Count(network'[x][a], "RELINQUISH") = Count(network[x][a], "RELINQUISH")
    BY <2>1 DEF Answered
  <2>5. UNCHANGED <<arbiter, inquiry>>
    BY <1>7 DEF TreatReply
  <2>6. AsksNobody(a)'
    BY <2>3, <2>4, <2>5, NobodyKept DEF LockedByNobody, arbiter
  <2> QED
    BY <2>2, <2>5, <2>6 DEF arbiter
<1>8. ASSUME NEW i \in Clients, NEW j \in Clients, TreatInquire(i, j) PROVE Rest(a)'
  <2>1. Answered(i, j, "INQUIRE", {}, "LOCKED")
    BY <1>8, AnsweredBy
  <2>2. \A x \in Clients : Positive(network'[x][a])
    BY <2>1 DEF Answered
  <2>3. UNCHANGED arbiter
    BY <1>8 DEF TreatInquire
  <2>4. CASE a = j
    <3>1. ~LockedByNobody(j)
      <4>1. Count(network[j][i], "INQUIRE") > 0
        BY <2>1 DEF Answered
      <4> QED
        BY <4>1 DEF AsksNobody
    <3> QED
      BY <2>2, <2>3, <2>4, <3>1 DEF AsksNobody, LockedByNobody, arbiter
  <2>5. CASE a # j
    <3>1. \A x \in Clients : Count(network'[a][x], "INQUIRE") = Count(network[a][x], "INQUIRE")
      BY <2>1, <2>5 DEF Answered
    <3>2. \A x \in Clients :
            Count(network'[x][a], "RELINQUISH") = Count(network[x][a], "RELINQUISH")
      BY <2>1 DEF Answered
    <3>3. \A x \in Clients : inquiry'[x][a] = inquiry[x][a]
      BY <1>8, <2>5 DEF TreatInquire, TypeOK
    <3>4. AsksNobody(a)'
      BY <2>3, <3>1, <3>2, <3>3, NobodyKept DEF LockedByNobody, arbiter
    <3> QED
      BY <2>2, <2>3, <3>4 DEF arbiter
  <2> QED
    BY <2>4, <2>5
<1>9. ASSUME NEW i \in Clients, NEW j \in Clients,
             LeaveSpin(i, j) \/ SeeFailed(i, j) \/ SeeNoFailed(i, j)
      PROVE  Rest(a)'
  <2>1. UNCHANGED <<arbiter, network>> /\ inquiry[i][j] # "none"
    BY <1>9 DEF LeaveSpin, SeeFailed, SeeNoFailed, Continue
  <2>2. PICK h : inquiry' = [inquiry EXCEPT ![i][j] = h]
    BY <1>9 DEF LeaveSpin, SeeFailed, SeeNoFailed, Continue
  <2>3. a = j => ~LockedByNobody(a)
    BY <2>1 DEF AsksNobody
  <2>4. a # j => \A x \in Clients : inquiry'[x][a] = inquiry[x][a]
    BY <2>2 DEF TypeOK
  <2> QED
    BY <2>1, <2>3, <2>4 DEF AsksNobody, LockedByNobody, arbiter
<1>10. ASSUME NEW i \in Clients, NEW j \in Clients, Relinquish(i, j) PROVE Rest(a)'
  <2>1. Told(i, {j}, "RELINQUISH")
    BY <1>10, ToldBy
  <2>2. UNCHANGED arbiter /\ inquiry[i][j] # "none"
    BY <1>10 DEF Relinquish, Continue
  <2>3. \A x \in Clients : Positive(network'[x][a])
    BY <2>1 DEF Told
  <2>4. a = j => ~LockedByNobody(a)
    BY <2>2 DEF AsksNobody
  <2>5. CASE a # j
    <3>1. \A x \in Clients : Count(network'[a][x], "INQUIRE") = Count(network[a][x], "INQUIRE")
      BY <2>1 DEF Told
    <3>2. \A x \in Clients :
            Count(network'[x][a], "RELINQUISH") = Count(network[x][a], "RELINQUISH")
      BY <2>1, <2>5 DEF Told
    <3>3. \A x \in Clients : inquiry'[x][a] = inquiry[x][a]
      BY <1>10, <2>5 DEF Relinquish, Continue, TypeOK
    <3>4. AsksNobody(a)'
      BY <2>2, <3>1, <3>2, <3>3, NobodyKept DEF LockedByNobody, arbiter
    <3> QED
      BY <2>2, <2>3, <3>4 DEF arbiter
  <2> QED
    BY <2>2, <2>3, <2>4, <2>5 DEF AsksNobody, LockedByNobody, arbiter
<1>11. ASSUME NEW i \in Clients, NEW j \in Clients, TreatRelinquishUnderflow(i, j)
       PROVE  Rest(a)'
  <2>1. Answered(i, j, "RELINQUISH", {}, "LOCKED")
    BY <1>11, AnsweredBy
  <2>2. \A x \in Clients : Positive(network'[x][a])
    BY <2>1 DEF Answered
  <2>3. UNCHANGED <<arbiter, inquiry>>
    BY <1>11 DEF TreatRelinquishUnderflow
  <2>4. a = i => ~LockedByNobody(a)
    <3>1. Count(network[j][i], "RELINQUISH") > 0
      BY <2>1 DEF Answered
    <3> QED
      BY <3>1 DEF AsksNobody
  <2>5. CASE a # i
    <3>1. \A x \in Clients : Count(network'[a][x], "INQUIRE") = Count(network[a][x], "INQUIRE")
      BY <2>1 DEF Answered
    <3>2. \A x \in Clients :
            Count(network'[x][a], "RELINQUISH") = Count(network[x][a], "RELINQUISH")
      BY <2>1, <2>5 DEF Answered
    <3>3. AsksNobody(a)'
      BY <2>3, <3>1, <3>2, NobodyKept DEF LockedByNobody, arbiter
    <3> QED
      BY <2>2, <2>3, <3>3 DEF arbiter
  <2> QED
    BY <2>2, <2>3, <2>4, <2>5 DEF AsksNobody, LockedByNobody, arbiter
<1>12. CASE UNCHANGED vars
  BY <1>12 DEF vars, arbiter, AsksNobody, LockedByNobody
<1> QED
  BY <1>1, <1>2, <1>3, <1>4, <1>5, <1>6, <1>7, <1>8, <1>9, <1>10, <1>11, <1>12
  DEF Next, MainThread, ReceiveThread, TreatFailed, TreatLocked

-----------------------------------------------------------------------------
\* Whatever the uninitialised is_locked reads at first, every block of the
\* strategy leaves every variable a value of its type, and no client makes more
\* requests than its input file has commands for the file.
THEOREM TypeCorrect == Spec => []TypeOK
<1>1. Spec => []TInv
  BY NobodyInit, NobodyNext, PTL DEF Spec
<1>2. TInv => TypeOK
  BY DEF TInv
<1> QED
  BY <1>1, <1>2, PTL

=============================================================================
