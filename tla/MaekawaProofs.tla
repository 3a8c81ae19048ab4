---------------------------- MODULE MaekawaProofs ----------------------------
(***************************************************************************)
(* Proofs about Maekawa, for every number of clients, every quorum system  *)
(* and every number of requests: who has an arbiter's lock.                *)
(***************************************************************************)
EXTENDS MaekawaTypes

-----------------------------------------------------------------------------
(***************************************************************************)
(* The inductive invariant.                                                *)
(***************************************************************************)

\* i's request is in a's waiting_queue.
Waits(i, a) == \E r \in waiting_queue[a] : r.sender = i

\* i's request has a's lock, and i has not released it.
Keeps(i, a) == Holds(i, a) /\ Count(network[i][a], "RELEASE") = 0

\* A request waits at a that goes before the one that has a's lock.
EarlierWaits(a) == \E r \in waiting_queue[a] : After(locking_request[a], r)

\* There is one claim to a's lock: its holder's.
Accounted(i, a) ==
  Count(network[a][i], "LOCKED") + Count(network[i][a], "RELINQUISH")
    + Count(network[i][a], "RELEASE")
    + (IF request_reply[i][a] = "LOCKED" THEN 1 ELSE 0)
  = IF Holds(i, a) THEN 1 ELSE 0

\* i's request is at one place if i asked a and is not done.
AtOnePlace(i, a) ==
  Count(network[i][a], "REQUEST") + (IF Waits(i, a) THEN 1 ELSE 0)
    + (IF Keeps(i, a) THEN 1 ELSE 0)
  = IF a \in quorum[i] /\ pc[i] # "idle" THEN 1 ELSE 0

\* A RELEASE is treated before the next REQUEST.
ReleasedFirst(i, a) ==
  /\ Ahead(network[i][a], "RELEASE", "REQUEST")
  /\ Waits(i, a) => Count(network[i][a], "RELEASE") = 0

\* In the critical section i has every lock.
HasEveryLock(i, a) ==
  pc[i] = "critical" /\ a \in quorum[i] => request_reply[i][a] = "LOCKED"

\* No FAILED overtakes, or follows, the LOCKED of the same request.
RefusedFirst(i, a) ==
  /\ Ahead(network[a][i], "FAILED", "LOCKED")
  /\ request_reply[i][a] = "LOCKED" => Count(network[a][i], "FAILED") = 0

\* What a knows of i's request is i's latest.
Current(i, a) ==
  /\ Keeps(i, a) => locking_request[a] = OurRequest(i)
  /\ \A r \in waiting_queue[a] : r.sender = i => r = OurRequest(i)
  /\ Numbered(network[i][a], our_sequence_number[i])

\* If the lock that i has, or is about to learn that it has, was asked back, or
\* is on its way back, then for an earlier request.
AskedForEarlier(i, a) ==
  /\ Count(network[i][a], "RELINQUISH") > 0 => EarlierWaits(a)
  /\ /\ request_reply[i][a] = "LOCKED"
     /\ inquiry[i][a] # "none" \/ Count(network[a][i], "INQUIRE") > 0
     => EarlierWaits(a)
  /\ ~Ahead(network[a][i], "INQUIRE", "LOCKED") => EarlierWaits(a)

\* An INQUIRE that waits for its answer went to the client that has the lock.
AskedHolder(i, a) == ~is_inquire_replied[a][i] => Holds(i, a)

Pair(i, a) ==
  /\ Accounted(i, a)
  /\ AtOnePlace(i, a)
  /\ ReleasedFirst(i, a)
  /\ HasEveryLock(i, a)
  /\ RefusedFirst(i, a)
  /\ Current(i, a)
  /\ AskedForEarlier(i, a)
  /\ AskedHolder(i, a)

IInv == fouled \/ \A i, a \in Clients : Pair(i, a)

\* A refusal that is on its way is the only one, and its request waits or has
\* got the lock since.
RefusedOnce(i, a) ==
  /\ Count(network[a][i], "FAILED") <= 1
  /\ Count(network[a][i], "FAILED") > 0 =>
       /\ Count(network[i][a], "REQUEST") = 0
       /\ a \in quorum[i] /\ pc[i] # "idle"

\* An INQUIRE to i itself waits for its answer; i has taken one and not answered.
Asked(i) == IF is_inquire_replied[i][i] THEN 0 ELSE 1
Answering(i) == IF inquiry[i][i] # "none" THEN 1 ELSE 0

\* How often i was asked for its own lock and has not answered: once if the lock
\* was not passed on since, and at most once more, before it got the LOCKED.
AskedItself(i) ==
  LET q == network[i][i] IN
  /\ Holds(i, i) /\ Count(q, "LOCKED") = 0 =>
       Count(q, "INQUIRE") + Count(q, "RELINQUISH") + Answering(i) <= Asked(i)
  /\ ~Holds(i, i) => Count(q, "INQUIRE") <= 1
  /\ Count(q, "LOCKED") > 0 =>
       /\ Count(q, "INQUIRE") <= 1 + Asked(i)
       /\ Ahead(q, "INQUIRE", "LOCKED") \/ Asked(i) = 1
       /\ Count(q, "INQUIRE") <= 1 \/ ~Ahead(q, "LOCKED", "INQUIRE")

AllOwn == \A i \in Clients : AskedItself(i) /\ \A a \in Clients : RefusedOnce(i, a)

Own == fouled \/ AllOwn

-----------------------------------------------------------------------------
(***************************************************************************)
(* What concerns client x and arbiter y in the network: the REQUEST,       *)
(* RELEASE and RELINQUISH messages from x to y and the LOCKED, FAILED and  *)
(* INQUIRE messages from y to x.                                           *)
(***************************************************************************)
ToArbiter == {"REQUEST", "RELEASE", "RELINQUISH"}
FromArbiter == {"LOCKED", "FAILED", "INQUIRE"}

SameStreams(x, y) ==
  /\ \A t \in ToArbiter : Count(network'[x][y], t) = Count(network[x][y], t)
  /\ \A t \in FromArbiter : Count(network'[y][x], t) = Count(network[y][x], t)
  /\ Ahead(network[x][y], "RELEASE", "REQUEST")
       => Ahead(network'[x][y], "RELEASE", "REQUEST")
  /\ \A t \in {"FAILED", "INQUIRE"} :
       Ahead(network[y][x], t, "LOCKED") => Ahead(network'[y][x], t, "LOCKED")
  /\ \A n : Numbered(network[x][y], n) => Numbered(network'[x][y], n)

\* A message of i to its arbiters concerns no other pair.
LEMMA ToldOtherPair ==
  ASSUME NEW i \in Clients, NEW dests, NEW m \in ToArbiter, Told(i, dests, m),
         NEW x \in Clients, NEW y \in Clients, ~(x = i /\ y \in dests)
  PROVE  SameStreams(x, y)
<1>1. \A t \in ToArbiter : Count(network'[x][y], t) = Count(network[x][y], t)
  BY DEF Told
<1>2. \A t \in FromArbiter : Count(network'[y][x], t) = Count(network[y][x], t)
  BY DEF Told, ToArbiter, FromArbiter
<1>3. Ahead(network[x][y], "RELEASE", "REQUEST")
        => Ahead(network'[x][y], "RELEASE", "REQUEST")
  BY DEF Told
<1>4. \A t \in {"FAILED", "INQUIRE"} :
        Ahead(network[y][x], t, "LOCKED") => Ahead(network'[y][x], t, "LOCKED")
  BY DEF Told, ToArbiter
<1>5. \A n : Numbered(network[x][y], n) => Numbered(network'[x][y], n)
  BY DEF Told
<1> QED
  BY <1>1, <1>2, <1>3, <1>4, <1>5 DEF SameStreams

\* What arbiter i takes from j and tells dests concerns no other pair.
LEMMA AnsweredOtherPair ==
  ASSUME NEW i \in Clients, NEW j \in Clients, NEW s \in ToArbiter, NEW dests,
         NEW m \in FromArbiter, Answered(i, j, s, dests, m),
         NEW x \in Clients, NEW y \in Clients, ~(y = i /\ (x = j \/ x \in dests))
  PROVE  SameStreams(x, y)
<1>1. \A t \in ToArbiter : Count(network'[x][y], t) = Count(network[x][y], t)
  BY DEF Answered, ToArbiter, FromArbiter
<1>2. \A t \in FromArbiter : Count(network'[y][x], t) = Count(network[y][x], t)
  BY DEF Answered, ToArbiter, FromArbiter
<1>3. Ahead(network[x][y], "RELEASE", "REQUEST")
        => Ahead(network'[x][y], "RELEASE", "REQUEST")
  BY DEF Answered, FromArbiter
<1>4. \A t \in {"FAILED", "INQUIRE"} :
        Ahead(network[y][x], t, "LOCKED") => Ahead(network'[y][x], t, "LOCKED")
  BY DEF Answered
<1>5. \A n : Numbered(network[x][y], n) => Numbered(network'[x][y], n)
  BY DEF Answered
<1> QED
  BY <1>1, <1>2, <1>3, <1>4, <1>5 DEF SameStreams

\* What requester i takes from j concerns no other pair.
LEMMA TakenOtherPair ==
  ASSUME NEW i \in Clients, NEW j \in Clients, NEW s \in FromArbiter, NEW m,
         Answered(i, j, s, {}, m),
         NEW x \in Clients, NEW y \in Clients, ~(x = i /\ y = j)
  PROVE  SameStreams(x, y)
<1>1. \A t \in ToArbiter : Count(network'[x][y], t) = Count(network[x][y], t)
  BY DEF Answered, ToArbiter, FromArbiter
<1>2. \A t \in FromArbiter : Count(network'[y][x], t) = Count(network[y][x], t)
  BY DEF Answered, ToArbiter, FromArbiter
<1>3. Ahead(network[x][y], "RELEASE", "REQUEST")
        => Ahead(network'[x][y], "RELEASE", "REQUEST")
  BY DEF Answered, FromArbiter
<1>4. \A t \in {"FAILED", "INQUIRE"} :
        Ahead(network[y][x], t, "LOCKED") => Ahead(network'[y][x], t, "LOCKED")
  BY DEF Answered
<1>5. \A n : Numbered(network[x][y], n) => Numbered(network'[x][y], n)
  BY DEF Answered
<1> QED
  BY <1>1, <1>2, <1>3, <1>4, <1>5 DEF SameStreams

\* The counts that concern x and y, as numbers.
PairCounts(x, y) ==
  /\ \A t \in ToArbiter : Count(network[x][y], t) \in Nat
  /\ \A t \in FromArbiter : Count(network[y][x], t) \in Nat

\* The messages of one type between two clients are counted by natural numbers.
LEMMA PairCountsType ==
  ASSUME TypeOK, NEW x \in Clients, NEW y \in Clients
  PROVE  PairCounts(x, y)
<1>1. network \in Network
  BY DEF TypeOK, Network
<1> QED
  BY <1>1, CountNat DEF PairCounts

\* No LOCKED is on its way to a client that has not got the lock.
LEMMA NoClaim ==
  ASSUME TypeOK, NEW x \in Clients, NEW y \in Clients, Accounted(x, y), ~Holds(x, y)
  PROVE  /\ Count(network[y][x], "LOCKED") = 0
         /\ Count(network[x][y], "RELINQUISH") = 0
         /\ Count(network[x][y], "RELEASE") = 0
         /\ request_reply[x][y] # "LOCKED"
         /\ \A t : Ahead(network[y][x], t, "LOCKED")
<1>1. PairCounts(x, y) /\ network[y][x] \in Seq(Message)
  <2>1. network[y][x] \in Seq(Message)
    BY DEF TypeOK
  <2> QED
    BY <2>1, PairCountsType
<1>2. /\ Count(network[y][x], "LOCKED") = 0
      /\ Count(network[x][y], "RELINQUISH") = 0
      /\ Count(network[x][y], "RELEASE") = 0
      /\ request_reply[x][y] # "LOCKED"
  BY <1>1 DEF Accounted, PairCounts, ToArbiter, FromArbiter
<1> QED
  BY <1>1, <1>2, AheadOfNone

\* The claims of a client that has the lock.
LEMMA OneClaim ==
  ASSUME TypeOK, NEW x \in Clients, NEW y \in Clients, Accounted(x, y)
  PROVE  /\ Count(network[x][y], "RELEASE") > 0 \/ Count(network[x][y], "RELINQUISH") > 0
              \/ Count(network[y][x], "LOCKED") > 0 \/ request_reply[x][y] = "LOCKED"
            => Holds(x, y)
         /\ Count(network[x][y], "RELEASE") > 0 =>
              /\ Count(network[x][y], "RELEASE") = 1
              /\ Count(network[x][y], "RELINQUISH") = 0
              /\ Count(network[y][x], "LOCKED") = 0
              /\ request_reply[x][y] # "LOCKED"
         /\ Count(network[x][y], "RELINQUISH") > 0 =>
              /\ Count(network[x][y], "RELINQUISH") = 1
              /\ Count(network[x][y], "RELEASE") = 0
              /\ Count(network[y][x], "LOCKED") = 0
              /\ request_reply[x][y] # "LOCKED"
         /\ Count(network[y][x], "LOCKED") > 0 =>
              /\ Count(network[y][x], "LOCKED") = 1
              /\ Count(network[x][y], "RELEASE") = 0
              /\ Count(network[x][y], "RELINQUISH") = 0
              /\ request_reply[x][y] # "LOCKED"
         /\ request_reply[x][y] = "LOCKED" =>
              /\ Count(network[x][y], "RELEASE") = 0
              /\ Count(network[x][y], "RELINQUISH") = 0
              /\ Count(network[y][x], "LOCKED") = 0
<1>1. PairCounts(x, y)
  BY PairCountsType
<1> QED
  BY <1>1 DEF Accounted, PairCounts, ToArbiter, FromArbiter

\* A step that changes nothing between x and y but, perhaps, who else waits for
\* y's lock, and for x without the lock, who has it.
LEMMA PairKept ==
  ASSUME TypeOK, NEW x \in Clients, NEW y \in Clients, Pair(x, y),
         SameStreams(x, y),
         Holds(x, y)' <=> Holds(x, y),
         Holds(x, y) => /\ locking_request'[y] = locking_request[y]
                        /\ waiting_queue[y] \subseteq waiting_queue'[y],
         Waits(x, y)' <=> Waits(x, y),
         \A r \in waiting_queue'[y] : r.sender = x => r \in waiting_queue[y],
         is_inquire_replied[y][x] => is_inquire_replied'[y][x],
         request_reply'[x][y] = request_reply[x][y],
         inquiry'[x][y] = inquiry[x][y],
         y \in quorum[x] => pc'[x] = pc[x],
         our_sequence_number'[x] = our_sequence_number[x]
  PROVE  Pair(x, y)'
<1>1. /\ \A t \in ToArbiter : Count(network'[x][y], t) = Count(network[x][y], t)
      /\ \A t \in FromArbiter : Count(network'[y][x], t) = Count(network[y][x], t)
  BY DEF SameStreams
<1>2. Keeps(x, y)' <=> Keeps(x, y)
  BY <1>1 DEF Keeps, ToArbiter
<1>3. Accounted(x, y)'
  BY <1>1 DEF Pair, Accounted, ToArbiter, FromArbiter
<1>4. AtOnePlace(x, y)'
  BY <1>1, <1>2 DEF Pair, AtOnePlace, ToArbiter
<1>5. ReleasedFirst(x, y)'
  BY <1>1 DEF Pair, ReleasedFirst, SameStreams, ToArbiter
<1>6. HasEveryLock(x, y)'
  BY DEF Pair, HasEveryLock
<1>7. RefusedFirst(x, y)'
  BY <1>1 DEF Pair, RefusedFirst, SameStreams, FromArbiter
<1>8. Current(x, y)'
  BY <1>2 DEF Pair, Current, SameStreams, OurRequest, Keeps
<1>9. AskedForEarlier(x, y)'
  <2>1. CASE Holds(x, y)
    <3>1. EarlierWaits(y) => EarlierWaits(y)'
      BY <2>1 DEF EarlierWaits
    <3> QED
      BY <1>1, <3>1 DEF Pair, AskedForEarlier, SameStreams, ToArbiter, FromArbiter
  <2>2. CASE ~Holds(x, y)
    <3>1. /\ Count(network[x][y], "RELINQUISH") = 0
          /\ request_reply[x][y] # "LOCKED"
          /\ Ahead(network[y][x], "INQUIRE", "LOCKED")
      BY <2>2, NoClaim DEF Pair
    <3> QED
      BY <1>1, <3>1 DEF AskedForEarlier, SameStreams, ToArbiter
  <2> QED
    BY <2>1, <2>2
<1>10. AskedHolder(x, y)'
  BY DEF Pair, AskedHolder, TypeOK
<1> QED
  BY <1>3, <1>4, <1>5, <1>6, <1>7, <1>8, <1>9, <1>10 DEF Pair

\* No REQUEST under way: any number will do.
LEMMA NumberedNone ==
  ASSUME NEW q \in Seq(Message), Count(q, "REQUEST") = 0, NEW s
  PROVE  Numbered(q, s)
BY CountType DEF Numbered, Places

-----------------------------------------------------------------------------
(***************************************************************************)
(* The steps of the requester's main thread keep the invariant.            *)
(***************************************************************************)
AllPairs == \A i, a \in Clients : Pair(i, a)

\* An idle client has no request anywhere, and no lock but one it released.
LEMMA IdlePair ==
  ASSUME TypeOK, NEW i \in Clients, NEW a \in Clients, Pair(i, a), pc[i] = "idle"
  PROVE  /\ Count(network[i][a], "REQUEST") = 0
         /\ ~Waits(i, a)
         /\ ~Keeps(i, a)
         /\ request_reply[i][a] # "LOCKED"
<1>1. PairCounts(i, a)
  BY PairCountsType
<1>2. Count(network[i][a], "REQUEST") = 0 /\ ~Waits(i, a) /\ ~Keeps(i, a)
  BY <1>1 DEF Pair, AtOnePlace, PairCounts, ToArbiter
<1>3. request_reply[i][a] # "LOCKED"
  BY <1>2, OneClaim DEF Pair, Keeps
<1> QED
  BY <1>2, <1>3

\* request_resource(): nothing of i's last request is left but a RELEASE.
LEMMA PairRequestResource ==
  ASSUME TypeOK, AllPairs, NEW i \in Clients, RequestResource(i),
         NEW x \in Clients, NEW y \in Clients
  PROVE  Pair(x, y)'
<1> DEFINE s == hgst_sequence_number[i] + 1
<1>1. Told(i, quorum[i], "REQUEST")
  BY ToldBy
<1>2. Pair(x, y)
  BY DEF AllPairs
<1>3. UNCHANGED <<inquiry, arbiter>>
  BY DEF RequestResource
<1>4. CASE x # i
  <2>1. SameStreams(x, y)
    BY <1>1, <1>4, ToldOtherPair DEF ToArbiter
  <2>2. /\ request_reply'[x] = request_reply[x]
        /\ pc'[x] = pc[x]
        /\ our_sequence_number'[x] = our_sequence_number[x]
    BY <1>4 DEF RequestResource, TypeOK
  <2> QED
    BY <1>2, <1>3, <2>1, <2>2, PairKept DEF Holds, Waits, arbiter
<1>5. CASE x = i
  <2>1. /\ Count(network[i][y], "REQUEST") = 0
        /\ ~Waits(i, y)
        /\ ~Keeps(i, y)
        /\ request_reply[i][y] # "LOCKED"
    BY <1>2, <1>5, IdlePair DEF RequestResource
  <2>2. /\ pc'[i] = "polling"
        /\ request_reply'[i][y] # "LOCKED"
        /\ our_sequence_number'[i] = s
    BY <2>1 DEF RequestResource, TypeOK
  <2>3. /\ Count(network'[i][y], "REQUEST") = IF y \in quorum[i] THEN 1 ELSE 0
        /\ Count(network'[i][y], "RELEASE") = Count(network[i][y], "RELEASE")
        /\ Count(network'[i][y], "RELINQUISH") = Count(network[i][y], "RELINQUISH")
    BY <1>1, <2>1 DEF Told
  <2>4. /\ Count(network'[y][i], "LOCKED") = Count(network[y][i], "LOCKED")
        /\ Count(network'[y][i], "FAILED") = Count(network[y][i], "FAILED")
        /\ Count(network'[y][i], "INQUIRE") = Count(network[y][i], "INQUIRE")
    BY <1>1 DEF Told
  <2>5. /\ Ahead(network'[i][y], "RELEASE", "REQUEST")
        /\ Ahead(network'[y][i], "FAILED", "LOCKED")
        /\ Ahead(network'[y][i], "INQUIRE", "LOCKED") <=> Ahead(network[y][i], "INQUIRE", "LOCKED")
    BY <1>1, <1>2, <1>5 DEF Told, Pair, ReleasedFirst, RefusedFirst
  <2>6. Numbered(network'[i][y], s)
    <3>1. network[i][y] \in Seq(Message) /\ network \in Network
      BY DEF TypeOK, Network
    <3>2. Numbered(network[i][y], s)
      BY <2>1, <3>1, NumberedNone
    <3>3. RequestMsg(s) \in Message /\ RequestMsg(s).seq = s
      <4>1. s \in Nat
        <5>1. hgst_sequence_number[i] \in Nat
          BY DEF TypeOK
        <5> QED
          BY <5>1
      <4> HIDE DEF s
      <4> QED
        BY <4>1, MessageTypes
    <3>4. Sent(network, network', i, quorum[i], RequestMsg(s))
      BY <3>1, <3>3, SendLemma DEF RequestResource, Deliver
    <3> HIDE DEF s
    <3>5. Numbered(Append(network[i][y], RequestMsg(s)), s)
      BY <3>1, <3>2, <3>3, NumberedSent
    <3> QED
      BY <3>2, <3>4, <3>5 DEF Sent
  <2> HIDE DEF s
  <2>7. (Holds(i, y)' <=> Holds(i, y)) /\ ~Waits(i, y)' /\ ~Keeps(i, y)'
    BY <1>3, <2>1, <2>3 DEF Holds, Waits, Keeps, arbiter
  <2>8. Accounted(i, y)'
    BY <1>2, <1>5, <2>1, <2>2, <2>3, <2>4, <2>7 DEF Pair, Accounted
  <2>9. AtOnePlace(i, y)'
    BY <2>2, <2>3, <2>7 DEF AtOnePlace
  <2>10. ReleasedFirst(i, y)' /\ HasEveryLock(i, y)' /\ RefusedFirst(i, y)'
    BY <2>2, <2>5, <2>7 DEF ReleasedFirst, HasEveryLock, RefusedFirst
  <2>11. Current(i, y)'
    BY <1>3, <2>1, <2>2, <2>6, <2>7 DEF Current, Waits, arbiter
  <2>12. AskedForEarlier(i, y)'
    BY <1>2, <1>3, <1>5, <2>2, <2>3, <2>5
    DEF Pair, AskedForEarlier, EarlierWaits, arbiter
  <2>13. AskedHolder(i, y)'
    BY <1>2, <1>3, <1>5, <2>7 DEF Pair, AskedHolder, arbiter
  <2> QED
    BY <1>5, <2>8, <2>9, <2>10, <2>11, <2>12, <2>13 DEF Pair
<1> QED
  BY <1>4, <1>5

\* can_enter_critical_section(): every member of the quorum has sent its lock.
LEMMA PairEnter ==
  ASSUME TypeOK, AllPairs, NEW i \in Clients, EnterCriticalSection(i),
         NEW x \in Clients, NEW y \in Clients
  PROVE  Pair(x, y)'
<1>1. /\ Pair(x, y)
      /\ UNCHANGED <<inquiry, arbiter, network, request_reply, our_sequence_number>>
  BY DEF AllPairs, EnterCriticalSection
<1>2. /\ pc[x] = "idle" <=> pc'[x] = "idle"
      /\ pc'[x] = "critical" =>
           pc[x] = "critical" \/ \A j \in quorum[x] : request_reply[x][j] = "LOCKED"
  BY DEF EnterCriticalSection, received_all_locked, TypeOK
<1>3. Accounted(x, y)' /\ ReleasedFirst(x, y)' /\ RefusedFirst(x, y)'
  BY <1>1 DEF Pair, Accounted, ReleasedFirst, RefusedFirst, Holds, Waits, arbiter
<1>4. AtOnePlace(x, y)'
  BY <1>1, <1>2 DEF Pair, AtOnePlace, Keeps, Holds, Waits, arbiter
<1>5. HasEveryLock(x, y)'
  BY <1>1, <1>2 DEF Pair, HasEveryLock
<1>6. Current(x, y)' /\ AskedForEarlier(x, y)' /\ AskedHolder(x, y)'
  BY <1>1
  DEF Pair, Current, AskedForEarlier, AskedHolder, OurRequest, EarlierWaits, Keeps, Holds,
      arbiter
<1> QED
  BY <1>3, <1>4, <1>5, <1>6 DEF Pair

\* release_resource(): every lock that i has goes back.
LEMMA PairReleaseResource ==
  ASSUME TypeOK, AllPairs, NEW i \in Clients, ReleaseResource(i),
         NEW x \in Clients, NEW y \in Clients
  PROVE  Pair(x, y)'
<1>1. Told(i, quorum[i], "RELEASE")
  BY ToldBy
<1>2. Pair(x, y)
  BY DEF AllPairs
<1>3. UNCHANGED <<inquiry, arbiter, our_sequence_number>>
  BY DEF ReleaseResource
<1>4. CASE x # i
  <2>1. SameStreams(x, y)
    BY <1>1, <1>4, ToldOtherPair DEF ToArbiter
  <2>2. request_reply'[x] = request_reply[x] /\ pc'[x] = pc[x]
    BY <1>4 DEF ReleaseResource, TypeOK
  <2> QED
    BY <1>2, <1>3, <2>1, <2>2, PairKept DEF Holds, Waits, arbiter
<1>5. CASE x = i /\ y \in quorum[i]
  <2>1. pc[i] = "critical" /\ request_reply[i][y] = "LOCKED"
    BY <1>2, <1>5 DEF ReleaseResource, Pair, HasEveryLock
  <2>2. /\ Holds(i, y)
        /\ Count(network[i][y], "RELEASE") = 0
        /\ Count(network[i][y], "RELINQUISH") = 0
        /\ Count(network[y][i], "LOCKED") = 0
    BY <1>2, <1>5, <2>1, OneClaim DEF Pair
  <2>3. Count(network[i][y], "REQUEST") = 0 /\ ~Waits(i, y)
    <3>1. PairCounts(i, y)
      BY PairCountsType
    <3> QED
      BY <1>2, <1>5, <2>1, <2>2, <3>1 DEF Pair, AtOnePlace, Keeps, PairCounts, ToArbiter
  <2>4. pc'[i] = "idle" /\ request_reply'[i][y] = "NONE"
    BY <1>5 DEF ReleaseResource, TypeOK
  <2>5. /\ Count(network'[i][y], "REQUEST") = 0
        /\ Count(network'[i][y], "RELEASE") = 1
        /\ Count(network'[i][y], "RELINQUISH") = 0
        /\ Count(network'[y][i], "LOCKED") = 0
        /\ Numbered(network'[i][y], our_sequence_number[i])
    BY <1>1, <1>2, <1>5, <2>2, <2>3 DEF Told, Pair, Current
  <2>6. /\ Ahead(network'[i][y], "RELEASE", "REQUEST")
        /\ Ahead(network'[y][i], "FAILED", "LOCKED")
        /\ Ahead(network'[y][i], "INQUIRE", "LOCKED")
    <3>1. network' \in Network
      <4>1. network \in Network /\ Msg("RELEASE") \in Message
        BY MessageTypes DEF TypeOK, Network, MessageType
      <4> QED
        BY <4>1, SendLemma DEF ReleaseResource, Deliver, Sent
    <3>2. network'[i][y] \in Seq(Message) /\ network'[y][i] \in Seq(Message)
      BY <3>1 DEF Network
    <3> QED
      BY <2>5, <3>2, AheadOfNone
  <2>7. Holds(i, y)' /\ ~Waits(i, y)' /\ ~Keeps(i, y)'
    BY <1>3, <2>2, <2>3, <2>5 DEF Holds, Waits, Keeps, arbiter
  <2>8. Accounted(i, y)' /\ AtOnePlace(i, y)' /\ ReleasedFirst(i, y)'
    BY <2>4, <2>5, <2>6, <2>7 DEF Accounted, AtOnePlace, ReleasedFirst
  <2>9. HasEveryLock(i, y)' /\ RefusedFirst(i, y)' /\ AskedForEarlier(i, y)'
    BY <2>4, <2>5, <2>6 DEF HasEveryLock, RefusedFirst, AskedForEarlier
  <2>10. Current(i, y)' /\ AskedHolder(i, y)'
    BY <1>3, <2>5, <2>7 DEF Current, AskedHolder, Waits
  <2> QED
    BY <1>5, <2>8, <2>9, <2>10 DEF Pair
<1>6. CASE x = i /\ y \notin quorum[i]
  <2>1. SameStreams(i, y)
    BY <1>1, <1>6, ToldOtherPair DEF ToArbiter
  <2>2. request_reply'[i][y] = request_reply[i][y] /\ pc'[i] = "idle"
    BY <1>6 DEF ReleaseResource, TypeOK
  <2> QED
    BY <1>2, <1>3, <1>6, <2>1, <2>2, PairKept DEF Holds, Waits, arbiter
<1> QED
  BY <1>4, <1>5, <1>6

-----------------------------------------------------------------------------
(***************************************************************************)
(* The steps of the arbiter keep the invariant: treat_request_message().   *)
(***************************************************************************)

\* A REQUEST that arrives is the latest of a client that has not got the lock.
LEMMA RequestArrives ==
  ASSUME TypeOK, NEW i \in Clients, NEW j \in Clients, Pair(j, i),
         Arrives(i, j, "REQUEST")
  PROVE  /\ Count(network[j][i], "REQUEST") = 1
         /\ Count(network[j][i], "RELEASE") = 0
         /\ Count(network[j][i], "RELINQUISH") = 0
         /\ Count(network[i][j], "LOCKED") = 0
         /\ request_reply[j][i] # "LOCKED"
         /\ ~Holds(j, i) /\ ~Waits(j, i)
         /\ i \in quorum[j] /\ pc[j] # "idle"
         /\ Incoming(i, j) = OurRequest(j)
<1>1. PairCounts(j, i)
  BY PairCountsType
<1>2. /\ network \in Network /\ network[j][i] # <<>>
      /\ network[j][i] \in Seq(Message)
      /\ "REQUEST" = Head(network[j][i]).type
  BY ArrivesLemma
<1>3. Left(network, Take(network, i, j), i, j, "REQUEST")
  BY <1>2, TakeLemma
<1>4. Count(network[j][i], "REQUEST") > 0 /\ Count(network[j][i], "RELEASE") = 0
  BY <1>3 DEF Left, Pair, ReleasedFirst
<1>5. /\ Count(network[j][i], "REQUEST") = 1
      /\ ~Waits(j, i) /\ ~Keeps(j, i)
      /\ i \in quorum[j] /\ pc[j] # "idle"
  BY <1>1, <1>4 DEF Pair, AtOnePlace, PairCounts, ToArbiter
<1>6. ~Holds(j, i)
  BY <1>4, <1>5 DEF Keeps
<1>7. Incoming(i, j) = OurRequest(j)
  BY <1>2, NumberedTaken DEF Pair, Current, Incoming, OurRequest
<1>8. /\ Count(network[j][i], "RELINQUISH") = 0
      /\ Count(network[i][j], "LOCKED") = 0
      /\ request_reply[j][i] # "LOCKED"
  BY <1>6, NoClaim DEF Pair
<1> QED
  BY <1>4, <1>5, <1>6, <1>7, <1>8

\* A free lock: nobody has it, so nobody claims it.
LEMMA PairGiveLock ==
  ASSUME TypeOK, AllPairs, NEW i \in Clients, NEW j \in Clients, GiveLock(i, j),
         NEW x \in Clients, NEW y \in Clients
  PROVE  Pair(x, y)'
<1>1. Answered(i, j, "REQUEST", {j}, "LOCKED")
  BY AnsweredBy
<1>2. Pair(x, y)
  BY DEF AllPairs
<1>3. /\ UNCHANGED <<requester, inquiry, waiting_queue, is_inquire_replied>>
      /\ Arrives(i, j, "REQUEST")
      /\ ~is_locked[i] /\ is_locked'[i]
      /\ locking_request'[i] = Incoming(i, j)
      /\ Incoming(i, j).sender = j
      /\ \A a \in Clients : a # i =>
           is_locked'[a] = is_locked[a] /\ locking_request'[a] = locking_request[a]
  BY DEF GiveLock, ReceiveRequest, TypeOK, Incoming, ARequest
<1>4. CASE ~(y = i /\ x = j)
  <2>1. SameStreams(x, y)
    BY <1>1, <1>4, AnsweredOtherPair DEF ToArbiter, FromArbiter
  <2>2. /\ Holds(x, y)' <=> Holds(x, y)
        /\ Holds(x, y) => locking_request'[y] = locking_request[y]
    BY <1>3, <1>4 DEF Holds
  <2> QED
    BY <1>2, <1>3, <2>1, <2>2, PairKept DEF Waits, requester
<1>5. CASE y = i /\ x = j
  <2>1. /\ Count(network[j][i], "REQUEST") = 1
        /\ Count(network[j][i], "RELEASE") = 0
        /\ Count(network[j][i], "RELINQUISH") = 0
        /\ Count(network[i][j], "LOCKED") = 0
        /\ request_reply[j][i] # "LOCKED"
        /\ ~Waits(j, i)
        /\ i \in quorum[j] /\ pc[j] # "idle"
        /\ Incoming(i, j) = OurRequest(j)
    BY <1>2, <1>3, <1>5, RequestArrives
  <2>2. /\ Count(network'[j][i], "REQUEST") = 0
        /\ Count(network'[j][i], "RELEASE") = 0
        /\ Count(network'[j][i], "RELINQUISH") = 0
        /\ Count(network'[i][j], "LOCKED") = 1
    BY <1>1, <2>1 DEF Answered
  <2>3. Numbered(network'[j][i], our_sequence_number[j])
    BY <1>1, <1>2, <1>5 DEF Answered, Pair, Current
  <2>4. /\ Ahead(network'[j][i], "RELEASE", "REQUEST")
        /\ Ahead(network'[i][j], "FAILED", "LOCKED")
        /\ Ahead(network'[i][j], "INQUIRE", "LOCKED")
    <3>1. /\ Ahead(network[j][i], "RELEASE", "REQUEST")
          /\ Ahead(network[i][j], "FAILED", "LOCKED")
      BY <1>2, <1>5 DEF Pair, ReleasedFirst, RefusedFirst
    <3>2. Ahead(network[i][j], "INQUIRE", "LOCKED")
      BY <1>2, <1>3, <1>5, NoClaim DEF Pair, Holds
    <3> QED
      BY <1>1, <3>1, <3>2 DEF Answered
  <2>5. /\ Holds(j, i)' /\ ~Waits(j, i)' /\ Keeps(j, i)'
        /\ request_reply' = request_reply /\ pc' = pc
        /\ our_sequence_number' = our_sequence_number
    BY <1>3, <2>1, <2>2 DEF Holds, Waits, Keeps, requester
  <2>6. Accounted(j, i)' /\ AtOnePlace(j, i)' /\ ReleasedFirst(j, i)'
    BY <2>1, <2>2, <2>4, <2>5 DEF Accounted, AtOnePlace, ReleasedFirst
  <2>7. HasEveryLock(j, i)' /\ RefusedFirst(j, i)' /\ AskedForEarlier(j, i)'
    BY <1>2, <1>5, <2>1, <2>2, <2>4, <2>5
    DEF Pair, HasEveryLock, RefusedFirst, AskedForEarlier
  <2>8. Current(j, i)' /\ AskedHolder(j, i)'
    BY <1>3, <2>1, <2>3, <2>5 DEF Current, AskedHolder, Waits, OurRequest
  <2> QED
    BY <1>5, <2>6, <2>7, <2>8 DEF Pair
<1> QED
  BY <1>4, <1>5

\* What the outcomes for a taken lock have in common, for the clients that were
\* sent nothing.
LEMMA PairEnqueued ==
  ASSUME TypeOK, AllPairs, NEW i \in Clients, NEW j \in Clients, EnqueueRequest(i, j),
         NEW dests, NEW m \in FromArbiter, Answered(i, j, "REQUEST", dests, m),
         NEW x \in Clients, NEW y \in Clients, ~(y = i /\ (x = j \/ x \in dests)),
         is_inquire_replied[y][x] => is_inquire_replied'[y][x]
  PROVE  Pair(x, y)'
<1>1. Pair(x, y)
  BY DEF AllPairs
<1>2. UNCHANGED <<requester, inquiry, is_locked, locking_request>>
  BY DEF EnqueueRequest, ReceiveRequest
<1>3. /\ waiting_queue[y] \subseteq waiting_queue'[y]
      /\ \A r \in waiting_queue'[y] : r.sender = x => r \in waiting_queue[y]
  <2>1. waiting_queue'[y] =
          IF y = i THEN waiting_queue[y] \union {Incoming(i, j)} ELSE waiting_queue[y]
    BY DEF EnqueueRequest, TypeOK
  <2>2. Incoming(i, j).sender = j
    BY DEF Incoming, ARequest
  <2> QED
    BY <2>1, <2>2
<1>4. SameStreams(x, y)
  BY AnsweredOtherPair DEF ToArbiter
<1>5. Waits(x, y)' <=> Waits(x, y)
  BY <1>3 DEF Waits
<1> QED
  BY <1>1, <1>2, <1>3, <1>4, <1>5, PairKept DEF Holds, requester

\* For the client that is queued, and is told nothing or FAILED.
LEMMA PairQueued ==
  ASSUME TypeOK, AllPairs, NEW i \in Clients, NEW j \in Clients, EnqueueRequest(i, j),
         NEW dests, NEW m \in FromArbiter, Answered(i, j, "REQUEST", dests, m),
         j \notin dests \/ m = "FAILED",
         ~is_inquire_replied'[i][j] => ~is_inquire_replied[i][j]
  PROVE  Pair(j, i)'
<1>1. Pair(j, i)
  BY DEF AllPairs
<1>2. /\ UNCHANGED <<requester, inquiry, is_locked, locking_request>>
      /\ Arrives(i, j, "REQUEST")
      /\ waiting_queue'[i] = waiting_queue[i] \union {Incoming(i, j)}
  BY DEF EnqueueRequest, ReceiveRequest, TypeOK
<1>3. /\ Count(network[j][i], "REQUEST") = 1
      /\ Count(network[j][i], "RELEASE") = 0
      /\ Count(network[j][i], "RELINQUISH") = 0
      /\ Count(network[i][j], "LOCKED") = 0
      /\ request_reply[j][i] # "LOCKED"
      /\ ~Holds(j, i)
      /\ ~Waits(j, i)
      /\ i \in quorum[j] /\ pc[j] # "idle"
      /\ Incoming(i, j) = OurRequest(j)
  BY <1>1, <1>2, RequestArrives
<1>4. /\ Count(network'[j][i], "REQUEST") = 0
      /\ Count(network'[j][i], "RELEASE") = 0
      /\ Count(network'[j][i], "RELINQUISH") = 0
  BY <1>3 DEF Answered, FromArbiter
<1>5. Count(network'[i][j], "LOCKED") = 0
  BY <1>3 DEF Answered
<1>6. Numbered(network'[j][i], our_sequence_number[j])
  BY <1>1 DEF Answered, Pair, Current
<1>7. /\ Ahead(network'[j][i], "RELEASE", "REQUEST")
      /\ Ahead(network'[i][j], "FAILED", "LOCKED")
      /\ Ahead(network'[i][j], "INQUIRE", "LOCKED")
  <2>1. /\ Ahead(network[i][j], "FAILED", "LOCKED")
        /\ Ahead(network[i][j], "INQUIRE", "LOCKED")
    BY <1>1, <1>3, NoClaim DEF Pair
  <2>2. Ahead(network[j][i], "RELEASE", "REQUEST")
    BY <1>1 DEF Pair, ReleasedFirst
  <2>3. Ahead(network'[j][i], "RELEASE", "REQUEST")
    BY <2>2 DEF Answered, FromArbiter
  <2> QED
    BY <1>3, <2>1, <2>3 DEF Answered
<1>8. /\ ~Holds(j, i)' /\ ~Keeps(j, i)' /\ Waits(j, i)'
      /\ request_reply' = request_reply /\ pc' = pc
      /\ our_sequence_number' = our_sequence_number
  BY <1>2, <1>3 DEF Holds, Waits, Keeps, requester, OurRequest, ARequest
<1>9. Accounted(j, i)' /\ AtOnePlace(j, i)' /\ ReleasedFirst(j, i)'
  BY <1>3, <1>4, <1>5, <1>7, <1>8 DEF Accounted, AtOnePlace, ReleasedFirst
<1>10. HasEveryLock(j, i)' /\ RefusedFirst(j, i)' /\ AskedForEarlier(j, i)'
  BY <1>1, <1>3, <1>4, <1>7, <1>8
  DEF Pair, HasEveryLock, RefusedFirst, AskedForEarlier
<1>11. Current(j, i)'
  BY <1>1, <1>2, <1>3, <1>6, <1>8 DEF Pair, Current, OurRequest
<1>12. AskedHolder(j, i)'
  BY <1>1, <1>3 DEF Pair, AskedHolder
<1> QED
  BY <1>9, <1>10, <1>11, <1>12 DEF Pair

\* Queueing a request behind the lock (FAILED, or an INQUIRE awaited) keeps the
\* accounts of every pair.
LEMMA PairRefuse ==
  ASSUME TypeOK, AllPairs, NEW i \in Clients, NEW j \in Clients,
         RefuseLock(i, j) \/ AwaitInquiry(i, j),
         NEW x \in Clients, NEW y \in Clients
  PROVE  Pair(x, y)'
<1>1. EnqueueRequest(i, j) /\ is_inquire_replied' = is_inquire_replied
  BY DEF RefuseLock, AwaitInquiry
<1>2. \/ Answered(i, j, "REQUEST", {j}, "FAILED")
      \/ Answered(i, j, "REQUEST", {}, "LOCKED")
  BY AnsweredBy
<1>3. CASE y = i /\ x = j
  BY <1>1, <1>2, <1>3, PairQueued DEF FromArbiter
<1>4. CASE ~(y = i /\ x = j)
  <2>1. CASE Answered(i, j, "REQUEST", {j}, "FAILED")
    <3>1. ~(y = i /\ (x = j \/ x \in {j}))
      BY <1>4
    <3> QED
      BY <1>1, <2>1, <3>1, PairEnqueued DEF FromArbiter
  <2>2. CASE Answered(i, j, "REQUEST", {}, "LOCKED")
    <3>1. ~(y = i /\ (x = j \/ x \in {}))
      BY <1>4
    <3> QED
      BY <1>1, <2>2, <3>1, PairEnqueued DEF FromArbiter
  <2> QED
    BY <1>2, <2>1, <2>2
<1> QED
  BY <1>3, <1>4

\* The client that has the lock is asked for it: the new request goes before its
\* own.
LEMMA PairInquire ==
  ASSUME TypeOK, AllPairs, NEW i \in Clients, NEW j \in Clients, InquireLocker(i, j),
         NEW x \in Clients, NEW y \in Clients
  PROVE  Pair(x, y)'
<1> DEFINE k == locking_request[i].sender
<1>1. Answered(i, j, "REQUEST", {k}, "INQUIRE")
  BY AnsweredBy
<1>2. /\ EnqueueRequest(i, j)
      /\ is_inquire_replied' = [is_inquire_replied EXCEPT ![i][k] = FALSE]
      /\ ~After(Incoming(i, j), locking_request[i])
  BY DEF InquireLocker, ComesLater
<1>3. /\ UNCHANGED <<requester, inquiry, is_locked, locking_request>>
      /\ Arrives(i, j, "REQUEST")
      /\ is_locked[i]
      /\ waiting_queue'[i] = waiting_queue[i] \union {Incoming(i, j)}
      /\ Incoming(i, j) \in [seq : Nat, sender : Clients] /\ Incoming(i, j).sender = j
  BY <1>2, ArrivesLemma DEF EnqueueRequest, ReceiveRequest, TypeOK
<1>4. j # k
  BY <1>3, RequestArrives DEF AllPairs, Holds
<1>5. CASE y = i /\ x = j
  <2>1. is_inquire_replied'[i][j] = is_inquire_replied[i][j]
    BY <1>2, <1>4 DEF TypeOK
  <2> QED
    BY <1>1, <1>2, <1>4, <1>5, <2>1, PairQueued DEF FromArbiter
<1>6. CASE y = i /\ x = k
  <2>1. Pair(x, i) /\ Holds(x, i) /\ x # j
    BY <1>3, <1>4, <1>6 DEF AllPairs, Holds
  <2>2. EarlierWaits(i)'
    <3>1. After(locking_request[i], Incoming(i, j))
      <4>1. /\ locking_request[i].seq \in Nat /\ k \in Nat
            /\ Incoming(i, j).seq \in Nat /\ j \in Nat
        BY <1>3, <1>6, NAssumption DEF TypeOK, Clients
      <4> QED
        BY <1>2, <1>3, <1>4, <4>1 DEF After
    <3> QED
      BY <1>3, <3>1 DEF EarlierWaits
  <2>3. /\ Count(network'[x][i], "REQUEST") = Count(network[x][i], "REQUEST")
        /\ Count(network'[x][i], "RELEASE") = Count(network[x][i], "RELEASE")
        /\ Count(network'[x][i], "RELINQUISH") = Count(network[x][i], "RELINQUISH")
    BY <1>1, <2>1 DEF Answered
  <2>4. /\ Count(network'[i][x], "LOCKED") = Count(network[i][x], "LOCKED")
        /\ Count(network'[i][x], "FAILED") = Count(network[i][x], "FAILED")
    BY <1>1, <2>1 DEF Answered
  <2>5. /\ Ahead(network'[x][i], "RELEASE", "REQUEST")
        /\ Ahead(network'[i][x], "FAILED", "LOCKED")
        /\ Numbered(network'[x][i], our_sequence_number[x])
    <3>1. /\ Ahead(network[x][i], "RELEASE", "REQUEST")
          /\ Ahead(network[i][x], "FAILED", "LOCKED")
          /\ Numbered(network[x][i], our_sequence_number[x])
      BY <2>1 DEF Pair, ReleasedFirst, RefusedFirst, Current
    <3>2. Ahead(network'[x][i], "RELEASE", "REQUEST")
      BY <1>1, <3>1 DEF Answered
    <3>3. Ahead(network'[i][x], "FAILED", "LOCKED")
      BY <1>1, <3>1 DEF Answered
    <3>4. Numbered(network'[x][i], our_sequence_number[x])
      BY <1>1, <3>1 DEF Answered
    <3> QED
      BY <3>2, <3>3, <3>4
  <2>6. /\ Holds(x, i)' /\ (Waits(x, i)' <=> Waits(x, i)) /\ (Keeps(x, i)' <=> Keeps(x, i))
        /\ \A r \in waiting_queue'[i] : r.sender = x => r \in waiting_queue[i]
        /\ request_reply' = request_reply /\ pc' = pc
        /\ our_sequence_number' = our_sequence_number
    BY <1>3, <2>1, <2>3 DEF Holds, Waits, Keeps, requester
  <2>7. Accounted(x, i)' /\ AtOnePlace(x, i)' /\ ReleasedFirst(x, i)'
    BY <2>1, <2>3, <2>4, <2>5, <2>6 DEF Pair, Accounted, AtOnePlace, ReleasedFirst
  <2>8. HasEveryLock(x, i)' /\ RefusedFirst(x, i)' /\ AskedForEarlier(x, i)'
    BY <2>1, <2>2, <2>4, <2>5, <2>6
    DEF Pair, HasEveryLock, RefusedFirst, AskedForEarlier
  <2>9. Current(x, i)' /\ AskedHolder(x, i)'
    BY <1>3, <2>1, <2>5, <2>6 DEF Pair, Current, AskedHolder, OurRequest
  <2> QED
    BY <1>6, <2>7, <2>8, <2>9 DEF Pair
<1>7. CASE ~(y = i /\ (x = j \/ x \in {k}))
  <2>1. is_inquire_replied'[y][x] = is_inquire_replied[y][x]
    BY <1>2, <1>7 DEF TypeOK
  <2> QED
    BY <1>1, <1>2, <1>7, <2>1, PairEnqueued DEF FromArbiter
<1> QED
  BY <1>5, <1>6, <1>7

-----------------------------------------------------------------------------
(***************************************************************************)
(* The arbiter gets the lock back: treat_relinquish_message() and          *)
(* treat_release_message().                                                *)
(***************************************************************************)

\* A client that gives the lock back has it, claims it no more, and its request
\* does not wait.
LEMMA LockGivenBack ==
  ASSUME TypeOK, NEW i \in Clients, NEW j \in Clients, Pair(j, i),
         NEW s \in {"RELINQUISH", "RELEASE"}, Count(network[j][i], s) > 0
  PROVE  /\ Count(network[j][i], s) = 1
         /\ \A t \in {"RELINQUISH", "RELEASE"} : t # s => Count(network[j][i], t) = 0
         /\ Count(network[i][j], "LOCKED") = 0
         /\ \A t : Ahead(network[i][j], t, "LOCKED")
         /\ request_reply[j][i] # "LOCKED"
         /\ Holds(j, i) /\ ~Waits(j, i)
         /\ s = "RELINQUISH" => Keeps(j, i)
<1>1. PairCounts(j, i) /\ network[i][j] \in Seq(Message)
  <2>1. network[i][j] \in Seq(Message)
    BY DEF TypeOK
  <2> QED
    BY <2>1, PairCountsType
<1>2. /\ Count(network[j][i], s) = 1
      /\ \A t \in {"RELINQUISH", "RELEASE"} : t # s => Count(network[j][i], t) = 0
      /\ Count(network[i][j], "LOCKED") = 0
      /\ request_reply[j][i] # "LOCKED"
      /\ Holds(j, i)
  BY OneClaim DEF Pair
<1>3. \A t : Ahead(network[i][j], t, "LOCKED")
  BY <1>1, <1>2, AheadOfNone
<1>4. s = "RELINQUISH" => Keeps(j, i)
  BY <1>2 DEF Keeps
<1>5. ~Waits(j, i)
  <2>1. CASE s = "RELEASE"
    BY <2>1 DEF Pair, ReleasedFirst
  <2>2. CASE s = "RELINQUISH"
    BY <1>1, <1>4, <2>2 DEF Pair, AtOnePlace, PairCounts, ToArbiter
  <2> QED
    BY <2>1, <2>2
<1> QED
  BY <1>2, <1>3, <1>4, <1>5

\* The lock goes to the first waiting request, whose client claimed nothing; a
\* request that was relinquished waits instead.
LEMMA PairPassLock ==
  ASSUME TypeOK, AllPairs, NEW i \in Clients, NEW j \in Clients,
         NEW s \in {"RELINQUISH", "RELEASE"}, Arrives(i, j, s),
         waiting_queue[i] # {},
         NEW requeued, PassLock(i, j, requeued),
         requeued = IF s = "RELINQUISH" THEN {locking_request[i]} ELSE {},
         NEW x \in Clients, NEW y \in Clients
  PROVE  Pair(x, y)'
<1>1. PICK r \in waiting_queue[i], h \in Clients :
        r = Top(waiting_queue[i]) /\ h = r.sender
  <2>1. waiting_queue[i] \in SUBSET [seq : Nat, sender : Clients]
    BY DEF TypeOK
  <2> QED
    BY <2>1, TopLemma
<1>2. Answered(i, j, s, {h}, "LOCKED")
  BY <1>1, AnsweredLemma DEF PassLock, Deliver, MessageType
<1>3. /\ UNCHANGED <<requester, inquiry, is_locked>>
      /\ \A a \in Clients : a # i =>
           /\ locking_request'[a] = locking_request[a]
           /\ waiting_queue'[a] = waiting_queue[a]
           /\ is_inquire_replied'[a] = is_inquire_replied[a]
      /\ locking_request'[i] = r
      /\ waiting_queue'[i] = (waiting_queue[i] \ {r}) \union requeued
      /\ is_inquire_replied'[i][j]
      /\ \A k \in Clients : k # j => is_inquire_replied'[i][k] = is_inquire_replied[i][k]
  BY <1>1 DEF PassLock, InquiryAnswered, TypeOK
<1>4. /\ Count(network[j][i], s) = 1
      /\ \A t \in {"RELINQUISH", "RELEASE"} : t # s => Count(network[j][i], t) = 0
      /\ Count(network[i][j], "LOCKED") = 0
      /\ \A t : Ahead(network[i][j], t, "LOCKED")
      /\ request_reply[j][i] # "LOCKED"
      /\ Holds(j, i) /\ ~Waits(j, i)
      /\ s = "RELINQUISH" => Keeps(j, i)
  <2>1. Count(network[j][i], s) > 0 /\ Pair(j, i)
    BY <1>2 DEF Answered, AllPairs
  <2> QED
    BY <2>1, LockGivenBack
<1>5. \A c \in Clients : c # j => ~Holds(c, i)
  BY <1>4 DEF Holds
<1>6. h # j /\ Waits(h, i)
  BY <1>1, <1>4 DEF Waits
<1>7. \A q \in requeued : q.sender = j /\ q = OurRequest(j)
  BY <1>4 DEF AllPairs, Pair, Current, Keeps, Holds
<1>8. is_locked[i]
  BY <1>4 DEF Holds
<1>9. CASE ~(y = i /\ (x = j \/ x \in {h}))
  <2>1. Pair(x, y) /\ SameStreams(x, y)
    BY <1>2, <1>9, AnsweredOtherPair DEF AllPairs, ToArbiter, FromArbiter
  <2>2. /\ Holds(x, y)' <=> Holds(x, y)
        /\ Holds(x, y) => /\ locking_request'[y] = locking_request[y]
                          /\ waiting_queue'[y] = waiting_queue[y]
    BY <1>1, <1>3, <1>5, <1>9 DEF Holds
  <2>3. /\ Waits(x, y)' <=> Waits(x, y)
        /\ \A q \in waiting_queue'[y] : q.sender = x => q \in waiting_queue[y]
    BY <1>1, <1>3, <1>7, <1>9 DEF Waits
  <2>4. is_inquire_replied[y][x] => is_inquire_replied'[y][x]
    BY <1>3
  <2> QED
    BY <1>3, <2>1, <2>2, <2>3, <2>4, PairKept DEF requester
<1>10. CASE y = i /\ x = h
  <2>1. Pair(h, i) /\ ~Holds(h, i) /\ ~Keeps(h, i)
    BY <1>1, <1>5, <1>6 DEF AllPairs, Keeps
  <2>2. /\ Count(network[i][h], "LOCKED") = 0
        /\ Count(network[h][i], "RELINQUISH") = 0
        /\ Count(network[h][i], "RELEASE") = 0
        /\ request_reply[h][i] # "LOCKED"
        /\ Ahead(network[i][h], "FAILED", "LOCKED")
        /\ Ahead(network[i][h], "INQUIRE", "LOCKED")
    BY <1>1, <2>1, NoClaim DEF Pair
  <2>3. Count(network[h][i], "REQUEST") = 0 /\ i \in quorum[h] /\ pc[h] # "idle"
    <3>1. PairCounts(h, i)
      BY <1>1, PairCountsType
    <3> QED
      BY <1>6, <2>1, <3>1 DEF Pair, AtOnePlace, PairCounts, ToArbiter
  <2>4. \A q \in waiting_queue[i] : q.sender = h => q = OurRequest(h)
    BY <2>1 DEF Pair, Current
  <2>5. /\ Count(network'[h][i], "REQUEST") = 0
        /\ Count(network'[h][i], "RELEASE") = 0
        /\ Count(network'[h][i], "RELINQUISH") = 0
    <3>1. ASSUME NEW t \in {"REQUEST", "RELEASE", "RELINQUISH"}
          PROVE  Count(network'[h][i], t) = Count(network[h][i], t)
      <4>1. t # "LOCKED" /\ h # j
        BY <1>6
      <4> QED
        BY <1>2, <4>1 DEF Answered
    <3> QED
      BY <2>2, <2>3, <3>1
  <2>6. Count(network'[i][h], "LOCKED") = 1
    BY <1>2, <1>1, <2>2 DEF Answered
  <2>7. /\ Ahead(network'[i][h], "FAILED", "LOCKED")
        /\ Ahead(network'[i][h], "INQUIRE", "LOCKED")
    BY <1>2, <1>1, <2>2 DEF Answered
  <2>8. Ahead(network'[h][i], "RELEASE", "REQUEST")
    <3>1. Ahead(network[h][i], "RELEASE", "REQUEST")
      BY <2>1 DEF Pair, ReleasedFirst
    <3> QED
      BY <1>2, <1>1, <3>1 DEF Answered
  <2>9. Numbered(network'[h][i], our_sequence_number[h])
    <3>1. Numbered(network[h][i], our_sequence_number[h])
      BY <2>1 DEF Pair, Current
    <3> QED
      BY <1>2, <1>1, <3>1 DEF Answered
  <2>10. /\ Holds(h, i)' /\ Keeps(h, i)' /\ ~Waits(h, i)'
         /\ request_reply' = request_reply /\ pc' = pc
         /\ our_sequence_number' = our_sequence_number
    <3>1. Holds(h, i)' /\ Keeps(h, i)'
      BY <1>1, <1>3, <1>8, <2>5 DEF Holds, Keeps
    <3>2. ~Waits(h, i)'
      BY <1>3, <1>1, <1>6, <1>7, <2>4 DEF Waits
    <3> QED
      BY <1>3, <3>1, <3>2 DEF requester
  <2>11. Accounted(h, i)' /\ AtOnePlace(h, i)' /\ ReleasedFirst(h, i)'
    BY <2>2, <2>3, <2>5, <2>6, <2>8, <2>10 DEF Accounted, AtOnePlace, ReleasedFirst
  <2>12. HasEveryLock(h, i)' /\ RefusedFirst(h, i)' /\ AskedForEarlier(h, i)'
    BY <2>1, <2>2, <2>5, <2>7, <2>10
    DEF Pair, HasEveryLock, RefusedFirst, AskedForEarlier
  <2>13. Current(h, i)' /\ AskedHolder(h, i)'
    BY <1>3, <1>1, <2>4, <2>9, <2>10 DEF Current, AskedHolder, OurRequest, Waits
  <2> QED
    BY <1>10, <2>11, <2>12, <2>13 DEF Pair
<1>11. CASE y = i /\ x = j
  <2>1. Pair(j, i)
    BY DEF AllPairs
  <2>2. /\ Count(network'[j][i], "REQUEST") = Count(network[j][i], "REQUEST")
        /\ Count(network'[j][i], "RELEASE") = 0
        /\ Count(network'[j][i], "RELINQUISH") = 0
    BY <1>2, <1>4 DEF Answered
  <2>3. Count(network'[i][j], "LOCKED") = 0
    BY <1>2, <1>4, <1>6 DEF Answered
  <2>4. /\ Ahead(network'[i][j], "FAILED", "LOCKED")
        /\ Ahead(network'[i][j], "INQUIRE", "LOCKED")
    BY <1>2, <1>4 DEF Answered
  <2>5. Ahead(network'[j][i], "RELEASE", "REQUEST")
    <3>1. Ahead(network[j][i], "RELEASE", "REQUEST")
      BY <2>1 DEF Pair, ReleasedFirst
    <3> QED
      BY <1>2, <3>1 DEF Answered
  <2>6. Numbered(network'[j][i], our_sequence_number[j])
    <3>1. Numbered(network[j][i], our_sequence_number[j])
      BY <2>1 DEF Pair, Current
    <3> QED
      BY <1>2, <3>1 DEF Answered
  <2>7. /\ ~Holds(j, i)' /\ ~Keeps(j, i)' /\ (Waits(j, i)' <=> s = "RELINQUISH")
        /\ request_reply' = request_reply /\ pc' = pc
        /\ our_sequence_number' = our_sequence_number
    <3>1. ~Holds(j, i)' /\ ~Keeps(j, i)'
      BY <1>1, <1>3, <1>6 DEF Holds, Keeps
    <3>2. s = "RELINQUISH" => Waits(j, i)'
      BY <1>3, <1>7 DEF Waits
    <3>3. s = "RELEASE" => ~Waits(j, i)'
      BY <1>3, <1>4 DEF Waits
    <3> QED
      BY <1>3, <3>1, <3>2, <3>3 DEF requester
  <2>8. Keeps(j, i) <=> s = "RELINQUISH"
    BY <1>4 DEF Keeps
  <2>9. Accounted(j, i)' /\ AtOnePlace(j, i)' /\ ReleasedFirst(j, i)'
    <3>1. Accounted(j, i)'
      BY <1>4, <2>2, <2>3, <2>7 DEF Accounted
    <3>2. AtOnePlace(j, i)'
      <4>1. Count(network[j][i], "REQUEST") \in Nat
        BY PairCountsType DEF PairCounts, ToArbiter
      <4>2. Count(network[j][i], "REQUEST") + (IF s = "RELINQUISH" THEN 1 ELSE 0)
              = IF i \in quorum[j] /\ pc[j] # "idle" THEN 1 ELSE 0
        BY <1>4, <2>1, <2>8, <4>1 DEF Pair, AtOnePlace
      <4> QED
        BY <2>2, <2>7, <4>1, <4>2 DEF AtOnePlace
    <3> QED
      BY <2>2, <2>5, <3>1, <3>2 DEF ReleasedFirst
  <2>10. HasEveryLock(j, i)' /\ RefusedFirst(j, i)' /\ AskedForEarlier(j, i)'
    BY <1>4, <2>1, <2>2, <2>4, <2>7 DEF Pair, HasEveryLock, RefusedFirst, AskedForEarlier
  <2>11. Current(j, i)' /\ AskedHolder(j, i)'
    BY <1>3, <1>4, <1>7, <2>6, <2>7 DEF Current, AskedHolder, OurRequest, Waits
  <2> QED
    BY <1>11, <2>9, <2>10, <2>11 DEF Pair
<1> QED
  BY <1>9, <1>10, <1>11

\* The last RELEASE: nobody has the lock any more.
LEMMA PairLastRelease ==
  ASSUME TypeOK, AllPairs, NEW i \in Clients, NEW j \in Clients, TreatLastRelease(i, j),
         NEW x \in Clients, NEW y \in Clients
  PROVE  Pair(x, y)'
<1>1. Answered(i, j, "RELEASE", {}, "LOCKED")
  BY AnsweredBy
<1>2. /\ UNCHANGED <<requester, inquiry, waiting_queue>>
      /\ \A a \in Clients : a # i =>
           /\ is_locked'[a] = is_locked[a]
           /\ locking_request'[a] = locking_request[a]
      /\ ~is_locked'[i]
      /\ is_inquire_replied'[i][j]
      /\ \A a, k \in Clients : is_inquire_replied[a][k] => is_inquire_replied'[a][k]
  BY DEF TreatLastRelease, InquiryAnswered, TypeOK
<1>3. /\ Count(network[j][i], "RELEASE") = 1
      /\ Count(network[j][i], "RELINQUISH") = 0
      /\ Count(network[i][j], "LOCKED") = 0
      /\ \A t : Ahead(network[i][j], t, "LOCKED")
      /\ request_reply[j][i] # "LOCKED"
      /\ Holds(j, i) /\ ~Waits(j, i)
  <2>1. Count(network[j][i], "RELEASE") > 0 /\ Pair(j, i)
    BY <1>1 DEF Answered, AllPairs
  <2> QED
    BY <2>1, LockGivenBack
<1>4. \A c \in Clients : c # j => ~Holds(c, i)
  BY <1>3 DEF Holds
<1>5. CASE ~(y = i /\ x = j)
  <2>1. SameStreams(x, y)
    <3>1. ~(y = i /\ (x = j \/ x \in {}))
      BY <1>5
    <3> QED
      BY <1>1, <3>1, AnsweredOtherPair DEF ToArbiter, FromArbiter
  <2>2. /\ Holds(x, y)' <=> Holds(x, y)
        /\ Holds(x, y) => locking_request'[y] = locking_request[y]
    BY <1>2, <1>4, <1>5 DEF Holds
  <2>3. Pair(x, y)
    BY DEF AllPairs
  <2> QED
    BY <1>2, <2>1, <2>2, <2>3, PairKept DEF requester, Waits
<1>6. CASE y = i /\ x = j
  <2>1. Pair(j, i)
    BY DEF AllPairs
  <2>2. /\ Count(network'[j][i], "REQUEST") = Count(network[j][i], "REQUEST")
        /\ Count(network'[j][i], "RELEASE") = 0
        /\ Count(network'[j][i], "RELINQUISH") = 0
    BY <1>1, <1>3 DEF Answered
  <2>3. Count(network'[i][j], "LOCKED") = 0
    BY <1>1, <1>3 DEF Answered
  <2>4. /\ Ahead(network'[i][j], "FAILED", "LOCKED")
        /\ Ahead(network'[i][j], "INQUIRE", "LOCKED")
    BY <1>1, <1>3 DEF Answered
  <2>5. Ahead(network'[j][i], "RELEASE", "REQUEST")
    <3>1. Ahead(network[j][i], "RELEASE", "REQUEST")
      BY <2>1 DEF Pair, ReleasedFirst
    <3> QED
      BY <1>1, <3>1 DEF Answered
  <2>6. Numbered(network'[j][i], our_sequence_number[j])
    <3>1. Numbered(network[j][i], our_sequence_number[j])
      BY <2>1 DEF Pair, Current
    <3> QED
      BY <1>1, <3>1 DEF Answered
  <2>7. /\ ~Holds(j, i)' /\ ~Keeps(j, i)' /\ ~Waits(j, i)' /\ ~Keeps(j, i)
        /\ request_reply' = request_reply /\ pc' = pc
        /\ our_sequence_number' = our_sequence_number
    BY <1>2, <1>3 DEF Holds, Keeps, Waits, requester
  <2>8. Accounted(j, i)' /\ AtOnePlace(j, i)' /\ ReleasedFirst(j, i)'
    <3>1. Accounted(j, i)'
      BY <1>3, <2>2, <2>3, <2>7 DEF Accounted
    <3>2. AtOnePlace(j, i)'
      BY <1>3, <2>1, <2>2, <2>7 DEF Pair, AtOnePlace
    <3> QED
      BY <2>2, <2>5, <3>1, <3>2 DEF ReleasedFirst
  <2>9. HasEveryLock(j, i)' /\ RefusedFirst(j, i)' /\ AskedForEarlier(j, i)'
    BY <1>3, <2>1, <2>2, <2>4, <2>7 DEF Pair, HasEveryLock, RefusedFirst, AskedForEarlier
  <2>10. Current(j, i)' /\ AskedHolder(j, i)'
    BY <1>2, <1>3, <2>6, <2>7 DEF Current, AskedHolder, OurRequest, Waits
  <2> QED
    BY <1>6, <2>8, <2>9, <2>10 DEF Pair
<1> QED
  BY <1>5, <1>6

-----------------------------------------------------------------------------
(***************************************************************************)
(* The requester hears from an arbiter.                                    *)
(***************************************************************************)

\* A step of i's receive thread for j that leaves the arbiters alone, and
\* changes no more than what i knows of j's lock and a message from j, keeps the
\* invariant if what i claims stays one claim, FAILED is not taken for a lock, and
\* the lock is asked for on behalf of an earlier request.
LEMMA PairHeard ==
  ASSUME TypeOK, NEW i \in Clients, NEW j \in Clients, Pair(i, j),
         UNCHANGED <<arbiter, pc, our_sequence_number>>,
         \A t \in {"REQUEST", "RELEASE"} :
           Count(network'[i][j], t) = Count(network[i][j], t),
         Ahead(network[i][j], "RELEASE", "REQUEST")
           => Ahead(network'[i][j], "RELEASE", "REQUEST"),
         \A n : Numbered(network[i][j], n) => Numbered(network'[i][j], n),
         Accounted(i, j)', HasEveryLock(i, j)', RefusedFirst(i, j)',
         AskedForEarlier(i, j)'
  PROVE  Pair(i, j)'
<1>1. /\ Holds(i, j)' <=> Holds(i, j)
      /\ Keeps(i, j)' <=> Keeps(i, j)
      /\ Waits(i, j)' <=> Waits(i, j)
  BY DEF Holds, Keeps, Waits, arbiter
<1>2. AtOnePlace(i, j)' /\ ReleasedFirst(i, j)'
  BY <1>1 DEF Pair, AtOnePlace, ReleasedFirst
<1>3. Current(i, j)'
  BY <1>1 DEF Pair, Current, OurRequest, arbiter
<1>4. AskedHolder(i, j)'
  BY <1>1 DEF Pair, AskedHolder, arbiter
<1> QED
  BY <1>2, <1>3, <1>4 DEF Pair

\* treat_failed_message() and treat_locked_message().
LEMMA PairReply ==
  ASSUME TypeOK, AllPairs, NEW i \in Clients, NEW j \in Clients,
         NEW t \in {"FAILED", "LOCKED"}, TreatReply(i, j, t),
         NEW x \in Clients, NEW y \in Clients
  PROVE  Pair(x, y)'
<1>1. Answered(i, j, t, {}, "LOCKED")
  BY AnsweredBy
<1>2. /\ UNCHANGED <<our_sequence_number, pc, inquiry, arbiter>>
      /\ inquiry[i][j] = "none"
      /\ request_reply'[i][j] = t
      /\ \A a, k \in Clients : ~(a = i /\ k = j) => request_reply'[a][k] = request_reply[a][k]
  BY DEF TreatReply, Arrives, TypeOK
<1>3. CASE ~(x = i /\ y = j)
  <2>1. SameStreams(x, y) /\ Pair(x, y)
    BY <1>1, <1>3, TakenOtherPair DEF AllPairs, FromArbiter
  <2> QED
    BY <1>2, <1>3, <2>1, PairKept DEF Holds, Waits, arbiter
<1>4. CASE x = i /\ y = j
  <2>1. Pair(i, j) /\ PairCounts(i, j)
    BY PairCountsType DEF AllPairs
  <2>2. \A u \in {"REQUEST", "RELEASE", "RELINQUISH"} :
          Count(network'[i][j], u) = Count(network[i][j], u)
    BY <1>1 DEF Answered
  <2>3. Count(network'[j][i], "INQUIRE") = Count(network[j][i], "INQUIRE")
    BY <1>1 DEF Answered
  <2>4. /\ Count(network[j][i], t) > 0
        /\ Count(network'[j][i], t) = Count(network[j][i], t) - 1
        /\ \A u \in {"LOCKED", "FAILED"} :
             u # t => Count(network'[j][i], u) = Count(network[j][i], u)
    BY <1>1 DEF Answered
  <2>5. Ahead(network[i][j], "RELEASE", "REQUEST")
          => Ahead(network'[i][j], "RELEASE", "REQUEST")
    BY <1>1 DEF Answered
  <2>6. \A n : Numbered(network[i][j], n) => Numbered(network'[i][j], n)
    BY <1>1 DEF Answered
  <2>7. /\ Ahead(network'[j][i], "FAILED", "LOCKED")
        /\ Ahead(network[j][i], "INQUIRE", "LOCKED")
             => Ahead(network'[j][i], "INQUIRE", "LOCKED")
    BY <1>1, <2>1 DEF Answered, Pair, RefusedFirst
  <2>8. EarlierWaits(j)' <=> EarlierWaits(j)
    BY <1>2 DEF EarlierWaits, arbiter
  <2>9. CASE t = "FAILED"
    <3>1. request_reply[i][j] # "LOCKED"
      BY <2>1, <2>4, <2>9 DEF Pair, RefusedFirst
    <3>2. Accounted(i, j)'
      BY <1>2, <2>1, <2>2, <2>4, <2>9, <3>1 DEF Pair, Accounted, Holds, arbiter
    <3>3. HasEveryLock(i, j)' /\ RefusedFirst(i, j)'
      BY <1>2, <2>1, <2>7, <2>9, <3>1 DEF Pair, HasEveryLock, RefusedFirst
    <3>4. AskedForEarlier(i, j)'
      BY <1>2, <2>1, <2>2, <2>7, <2>8, <2>9 DEF Pair, AskedForEarlier
    <3> QED
      BY <1>2, <1>4, <2>1, <2>2, <2>5, <2>6, <3>2, <3>3, <3>4, PairHeard
  <2>10. CASE t = "LOCKED"
    <3>1. /\ Count(network[j][i], "LOCKED") = 1
          /\ Count(network[i][j], "RELINQUISH") = 0
          /\ Count(network[i][j], "RELEASE") = 0
          /\ Holds(i, j)
      BY <2>1, <2>4, <2>10, OneClaim DEF Pair
    <3>2. /\ Count(network[j][i], "FAILED") = 0
          /\ Count(network[j][i], "INQUIRE") > 0
               => ~Ahead(network[j][i], "INQUIRE", "LOCKED")
      <4>1. \A u : Ahead(network[j][i], u, "LOCKED") => Count(network[j][i], u) = 0
        BY <1>1, <2>10 DEF Answered
      <4> QED
        BY <2>1, <4>1 DEF Pair, RefusedFirst
    <3>3. Accounted(i, j)'
      BY <1>2, <2>2, <2>4, <2>10, <3>1 DEF Accounted, Holds, arbiter
    <3>4. HasEveryLock(i, j)' /\ RefusedFirst(i, j)'
      BY <1>2, <2>4, <2>7, <2>10, <3>2 DEF HasEveryLock, RefusedFirst
    <3>5. AskedForEarlier(i, j)'
      BY <1>2, <2>1, <2>2, <2>3, <2>7, <2>8, <3>1, <3>2 DEF Pair, AskedForEarlier
    <3> QED
      BY <1>2, <1>4, <2>1, <2>2, <2>5, <2>6, <3>3, <3>4, <3>5, PairHeard
  <2> QED
    BY <2>9, <2>10
<1> QED
  BY <1>3, <1>4

\* treat_inquire_message() takes the message.
LEMMA PairTakeInquiry ==
  ASSUME TypeOK, AllPairs, NEW i \in Clients, NEW j \in Clients, TreatInquire(i, j),
         NEW x \in Clients, NEW y \in Clients
  PROVE  Pair(x, y)'
<1>1. Answered(i, j, "INQUIRE", {}, "LOCKED")
  BY AnsweredBy
<1>2. /\ UNCHANGED <<requester, arbiter>>
      /\ \A a, k \in Clients : ~(a = i /\ k = j) => inquiry'[a][k] = inquiry[a][k]
  BY DEF TreatInquire, TypeOK
<1>3. CASE ~(x = i /\ y = j)
  <2>1. SameStreams(x, y) /\ Pair(x, y)
    BY <1>1, <1>3, TakenOtherPair DEF AllPairs, FromArbiter
  <2> QED
    BY <1>2, <1>3, <2>1, PairKept DEF Holds, Waits, arbiter, requester
<1>4. CASE x = i /\ y = j
  <2>1. Pair(i, j)
    BY DEF AllPairs
  <2>2. \A u \in {"REQUEST", "RELEASE", "RELINQUISH"} :
          Count(network'[i][j], u) = Count(network[i][j], u)
    BY <1>1 DEF Answered
  <2>3. /\ Count(network[j][i], "INQUIRE") > 0
        /\ Count(network'[j][i], "LOCKED") = Count(network[j][i], "LOCKED")
        /\ Count(network'[j][i], "FAILED") = Count(network[j][i], "FAILED")
    BY <1>1 DEF Answered
  <2>4. Ahead(network[i][j], "RELEASE", "REQUEST")
          => Ahead(network'[i][j], "RELEASE", "REQUEST")
    BY <1>1 DEF Answered
  <2>5. \A n : Numbered(network[i][j], n) => Numbered(network'[i][j], n)
    BY <1>1 DEF Answered
  <2>6. /\ Ahead(network'[j][i], "FAILED", "LOCKED")
        /\ Ahead(network[j][i], "INQUIRE", "LOCKED")
             => Ahead(network'[j][i], "INQUIRE", "LOCKED")
    BY <1>1, <2>1 DEF Answered, Pair, RefusedFirst
  <2>7. EarlierWaits(j)' <=> EarlierWaits(j)
    BY <1>2 DEF EarlierWaits, arbiter
  <2>8. Accounted(i, j)'
    BY <1>2, <2>1, <2>2, <2>3 DEF Pair, Accounted, Holds, arbiter, requester
  <2>9. HasEveryLock(i, j)' /\ RefusedFirst(i, j)'
    BY <1>2, <2>1, <2>3, <2>6 DEF Pair, HasEveryLock, RefusedFirst, requester
  <2>10. AskedForEarlier(i, j)'
    BY <1>2, <2>1, <2>2, <2>3, <2>6, <2>7 DEF Pair, AskedForEarlier, requester
  <2> QED
    BY <1>2, <1>4, <2>1, <2>2, <2>4, <2>5, <2>8, <2>9, <2>10, PairHeard DEF requester
<1> QED
  BY <1>3, <1>4

\* treat_inquire_message() goes on, and sends nothing.
LEMMA PairDetermine ==
  ASSUME TypeOK, AllPairs, NEW i \in Clients, NEW j \in Clients,
         LeaveSpin(i, j) \/ SeeFailed(i, j) \/ SeeNoFailed(i, j),
         NEW x \in Clients, NEW y \in Clients
  PROVE  Pair(x, y)'
<1>1. /\ UNCHANGED <<requester, arbiter, network>>
      /\ inquiry[i][j] # "none"
  BY DEF LeaveSpin, SeeFailed, SeeNoFailed, Continue
<1>2. PICK h : inquiry' = [inquiry EXCEPT ![i][j] = h]
  BY DEF LeaveSpin, SeeFailed, SeeNoFailed, Continue
<1>3. inquiry'[x][y] # "none" => inquiry[x][y] # "none"
  BY <1>1, <1>2 DEF TypeOK
<1>4. Pair(x, y)
  BY DEF AllPairs
<1>5. /\ Holds(x, y)' <=> Holds(x, y)
      /\ Keeps(x, y)' <=> Keeps(x, y)
      /\ Waits(x, y)' <=> Waits(x, y)
      /\ EarlierWaits(y)' <=> EarlierWaits(y)
  BY <1>1 DEF Holds, Keeps, Waits, EarlierWaits, arbiter
<1>6. Accounted(x, y)' /\ AtOnePlace(x, y)' /\ ReleasedFirst(x, y)'
  BY <1>1, <1>4, <1>5 DEF Pair, Accounted, AtOnePlace, ReleasedFirst, requester
<1>7. HasEveryLock(x, y)' /\ RefusedFirst(x, y)' /\ AskedForEarlier(x, y)'
  BY <1>1, <1>3, <1>4, <1>5
  DEF Pair, HasEveryLock, RefusedFirst, AskedForEarlier, requester
<1>8. Current(x, y)' /\ AskedHolder(x, y)'
  BY <1>1, <1>4, <1>5 DEF Pair, Current, AskedHolder, OurRequest, requester, arbiter
<1> QED
  BY <1>6, <1>7, <1>8 DEF Pair

\* The answer to an INQUIRE, given while i still waits and has the lock.
LEMMA PairRelinquish ==
  ASSUME TypeOK, AllPairs, NEW i \in Clients, NEW j \in Clients, Relinquish(i, j),
         ~fouled', NEW x \in Clients, NEW y \in Clients
  PROVE  Pair(x, y)'
<1>1. Told(i, {j}, "RELINQUISH")
  BY ToldBy
<1>2. /\ UNCHANGED <<our_sequence_number, pc, arbiter>>
      /\ inquiry[i][j] # "none"
      /\ pc[i] = "polling" /\ request_reply[i][j] = "LOCKED"
      /\ request_reply'[i][j] = "FAILED"
      /\ \A a, k \in Clients : ~(a = i /\ k = j) =>
           /\ request_reply'[a][k] = request_reply[a][k]
           /\ inquiry'[a][k] = inquiry[a][k]
  BY DEF Relinquish, Continue, TypeOK
<1>3. CASE ~(x = i /\ y = j)
  <2>1. SameStreams(x, y)
    <3>1. ~(x = i /\ y \in {j})
      BY <1>3
    <3> QED
      BY <1>1, <3>1, ToldOtherPair DEF ToArbiter
  <2>2. Pair(x, y)
    BY DEF AllPairs
  <2> QED
    BY <1>2, <1>3, <2>1, <2>2, PairKept DEF Holds, Waits, arbiter
<1>4. CASE x = i /\ y = j
  <2>1. Pair(i, j)
    BY DEF AllPairs
  <2>2. /\ Holds(i, j)
        /\ Count(network[i][j], "RELEASE") = 0
        /\ Count(network[i][j], "RELINQUISH") = 0
        /\ Count(network[j][i], "LOCKED") = 0
        /\ Count(network[j][i], "FAILED") = 0
    BY <1>2, <2>1, OneClaim DEF Pair, RefusedFirst
  <2>3. /\ Count(network'[i][j], "RELINQUISH") = 1
        /\ \A u \in {"REQUEST", "RELEASE"} :
             Count(network'[i][j], u) = Count(network[i][j], u)
    <3>1. Count(network'[i][j], "RELINQUISH") = 1
      BY <1>1, <2>2 DEF Told
    <3>2. \A u \in {"REQUEST", "RELEASE"} :
             Count(network'[i][j], u) = Count(network[i][j], u)
      BY <1>1 DEF Told
    <3> QED
      BY <3>1, <3>2
  <2>4. Count(network'[j][i], "LOCKED") = 0
    BY <1>1, <2>2 DEF Told
  <2>5. Ahead(network[i][j], "RELEASE", "REQUEST")
          => Ahead(network'[i][j], "RELEASE", "REQUEST")
    BY <1>1 DEF Told
  <2>6. \A n : Numbered(network[i][j], n) => Numbered(network'[i][j], n)
    BY <1>1 DEF Told
  <2>7. Ahead(network'[j][i], "FAILED", "LOCKED")
    BY <1>1, <2>1 DEF Told, Pair, RefusedFirst
  <2>8. EarlierWaits(j)'
    BY <1>2, <2>1 DEF Pair, AskedForEarlier, EarlierWaits, arbiter
  <2>9. Accounted(i, j)'
    BY <1>2, <2>2, <2>3, <2>4 DEF Accounted, Holds, arbiter
  <2>10. HasEveryLock(i, j)' /\ RefusedFirst(i, j)' /\ AskedForEarlier(i, j)'
    BY <1>2, <2>7, <2>8 DEF HasEveryLock, RefusedFirst, AskedForEarlier
  <2> QED
    BY <1>2, <1>4, <2>1, <2>3, <2>5, <2>6, <2>9, <2>10, PairHeard
<1> QED
  BY <1>3, <1>4

-----------------------------------------------------------------------------
(***************************************************************************)
(* The invariant is inductive.                                             *)
(***************************************************************************)

\* At first nobody has asked for anything.
LEMMA PairInit == Init => IInv
<1> SUFFICES ASSUME Init, NEW i \in Clients, NEW a \in Clients PROVE Pair(i, a)
  BY DEF IInv
<1>1. network[i][a] = <<>> /\ network[a][i] = <<>>
  BY DEF Init
<1>2. /\ \A t : Count(network[i][a], t) = 0 /\ Count(network[a][i], t) = 0
      /\ \A t, u : Ahead(network[i][a], t, u) /\ Ahead(network[a][i], t, u)
      /\ \A n : Numbered(network[i][a], n)
  BY <1>1, CountEmpty, EmptySeq DEF Numbered
<1>3. ~Holds(i, a) /\ ~Waits(i, a)
  BY NAssumption DEF Init, Holds, Waits, NoRequest, ARequest, NoClient, Clients
<1>4. pc[i] = "idle" /\ request_reply[i][a] = "NONE" /\ inquiry[i][a] = "none"
  BY DEF Init
<1>5. is_inquire_replied[a][i]
  BY DEF Init
<1>6. Accounted(i, a) /\ AtOnePlace(i, a) /\ ReleasedFirst(i, a) /\ HasEveryLock(i, a)
  BY <1>2, <1>3, <1>4 DEF Accounted, AtOnePlace, ReleasedFirst, HasEveryLock, Keeps
<1>7. RefusedFirst(i, a) /\ Current(i, a) /\ AskedForEarlier(i, a) /\ AskedHolder(i, a)
  BY <1>2, <1>3, <1>4, <1>5
  DEF RefusedFirst, Current, AskedForEarlier, AskedHolder, Keeps, Waits
<1> QED
  BY <1>6, <1>7 DEF Pair

\* treat_relinquish_message() never finds its waiting_queue empty.
LEMMA NoUnderflow ==
  ASSUME TypeOK, AllPairs, NEW i \in Clients, NEW j \in Clients
  PROVE  ~TreatRelinquishUnderflow(i, j)
<1> SUFFICES ASSUME TreatRelinquishUnderflow(i, j) PROVE FALSE
  OBVIOUS
<1>1. Answered(i, j, "RELINQUISH", {}, "LOCKED")
  BY AnsweredBy
<1>2. Count(network[j][i], "RELINQUISH") > 0 /\ Pair(j, i)
  BY <1>1 DEF Answered, AllPairs
<1>3. EarlierWaits(i)
  BY <1>2 DEF Pair, AskedForEarlier
<1> QED
  BY <1>3 DEF EarlierWaits, TreatRelinquishUnderflow

\* Nothing takes a wrong answer back.
LEMMA OnceFouled ==
  ASSUME [Next]_vars
  PROVE  fouled => fouled'
<1>1. \A i, j \in Clients : Relinquish(i, j) => (fouled => fouled')
  BY DEF Relinquish
<1>2. \A i \in Clients : MainThread(i) => fouled' = fouled
  BY DEF MainThread, RequestResource, EnterCriticalSection, ReleaseResource
<1>3. \A i, j \in Clients : ReceiveThread(i, j) => fouled' = fouled \/ Relinquish(i, j)
  BY DEF ReceiveThread, GiveLock, RefuseLock, InquireLocker, AwaitInquiry,
     EnqueueRequest, ReceiveRequest, TreatRelinquish, TreatRelease, PassLock,
     TreatRelinquishUnderflow, TreatLastRelease, TreatFailed, TreatLocked,
     TreatReply, TreatInquire, LeaveSpin, SeeFailed, SeeNoFailed
<1> QED
  BY <1>1, <1>2, <1>3 DEF Next, vars

\* Every block keeps the invariant, unless it gives a lock back that is not held
\* for a waiting request.
LEMMA PairNext == TypeOK /\ IInv /\ [Next]_vars => IInv'
<1> SUFFICES ASSUME TypeOK, IInv, [Next]_vars PROVE IInv'
  OBVIOUS
<1>1. fouled => fouled'
  BY OnceFouled
<1> SUFFICES ASSUME ~fouled', NEW x \in Clients, NEW y \in Clients PROVE Pair(x, y)'
  BY DEF IInv
<1>2. AllPairs
  BY <1>1 DEF IInv, AllPairs
<1>3. ASSUME NEW i \in Clients, MainThread(i) PROVE Pair(x, y)'
  BY <1>2, <1>3, PairRequestResource, PairEnter, PairReleaseResource DEF MainThread
<1>4. ASSUME NEW i \in Clients, NEW j \in Clients, ReceiveThread(i, j)
      PROVE  Pair(x, y)'
  <2>1. CASE GiveLock(i, j)
    BY <1>2, <2>1, PairGiveLock
  <2>2. CASE RefuseLock(i, j) \/ AwaitInquiry(i, j)
    BY <1>2, <2>2, PairRefuse
  <2>3. CASE InquireLocker(i, j)
    BY <1>2, <2>3, PairInquire
  <2>4. CASE TreatRelinquish(i, j)
    BY <1>2, <2>4, PairPassLock DEF TreatRelinquish
  <2>5. CASE TreatRelinquishUnderflow(i, j)
    BY <1>2, <2>5, NoUnderflow
  <2>6. CASE TreatRelease(i, j)
    BY <1>2, <2>6, PairPassLock DEF TreatRelease
  <2>7. CASE TreatLastRelease(i, j)
    BY <1>2, <2>7, PairLastRelease
  <2>8. CASE TreatFailed(i, j) \/ TreatLocked(i, j)
    BY <1>2, <2>8, PairReply DEF TreatFailed, TreatLocked
  <2>9. CASE TreatInquire(i, j)
    BY <1>2, <2>9, PairTakeInquiry
  <2>10. CASE LeaveSpin(i, j) \/ SeeFailed(i, j) \/ SeeNoFailed(i, j)
    BY <1>2, <2>10, PairDetermine
  <2>11. CASE Relinquish(i, j)
    BY <1>2, <2>11, PairRelinquish
  <2> QED
    BY <1>4, <2>1, <2>2, <2>3, <2>4, <2>5, <2>6, <2>7, <2>8, <2>9, <2>10, <2>11
    DEF ReceiveThread
<1>5. CASE UNCHANGED vars
  <2>1. Pair(x, y)
    BY <1>2 DEF AllPairs
  <2> QED
    BY <1>5, <2>1
    DEF vars, requester, arbiter, Pair, Accounted, AtOnePlace, ReleasedFirst,
        HasEveryLock, RefusedFirst, Current, AskedForEarlier, AskedHolder, OurRequest,
        EarlierWaits, Keeps, Holds, Waits
<1> QED
  BY <1>3, <1>4, <1>5 DEF Next

\* The invariants of every behaviour.
LEMMA Invariants == Spec => [](TInv /\ IInv)
<1>1. TInv /\ IInv /\ [Next]_vars => (TInv /\ IInv)'
  BY NobodyNext, PairNext DEF TInv
<1>2. Init => TInv /\ IInv
  BY NobodyInit, PairInit
<1> QED
  BY <1>1, <1>2, PTL DEF Spec

-----------------------------------------------------------------------------
(***************************************************************************)
(* What the invariant gives.                                               *)
(***************************************************************************)

\* InFlight, with which the properties are stated, is Count.
LEMMA InFlightIsCount ==
  ASSUME NEW i \in Clients, NEW j \in Clients, NEW t
  PROVE  InFlight(i, j, t) = Count(network[i][j], t)
BY DEF InFlight, Count, Places

\* The quorums of two clients share an arbiter; were both in the critical section,
\* both would have its one lock.
LEMMA ExclusiveNow == TypeOK /\ IInv => ExclusiveUnlessFouled
<1> SUFFICES ASSUME TypeOK, AllPairs, NEW i \in Clients, NEW j \in Clients,
                    pc[i] = "critical", pc[j] = "critical"
             PROVE  i = j
  BY DEF IInv, AllPairs, ExclusiveUnlessFouled, Unsound, MutualExclusion
<1>1. PICK a \in Clients : a \in quorum[i] /\ a \in quorum[j]
  BY QuorumAssumption
<1>2. request_reply[i][a] = "LOCKED" /\ request_reply[j][a] = "LOCKED"
  BY <1>1 DEF AllPairs, Pair, HasEveryLock
<1>3. Holds(i, a) /\ Holds(j, a)
  BY <1>2, OneClaim DEF AllPairs, Pair
<1> QED
  BY <1>3 DEF Holds

\* Two clients are never in enter_critical_section() together unless
\* treat_inquire_message() gave a lock back that it did not hold for a waiting
\* request, or own messages piled up.
THEOREM Exclusion == Spec => []ExclusiveUnlessFouled
<1>1. TInv /\ IInv => ExclusiveUnlessFouled
  BY ExclusiveNow DEF TInv
<1> QED
  BY <1>1, Invariants, PTL

\* A request is at one place of each arbiter of the quorum while its client waits,
\* has every lock while the client uses the file, and is nowhere afterwards.
THEOREM Kept == Spec => []RequestKept
<1>1. TInv /\ IInv => RequestKept
  <2> SUFFICES ASSUME TypeOK, AllPairs, NEW i \in Clients, NEW a \in Clients
               PROVE  IF a \in quorum[i] /\ pc[i] = "polling"
                        THEN \E p \in {"network", "queue", "lock"} : Whereabouts(i, a) = {p}
                      ELSE IF a \in quorum[i] /\ pc[i] = "critical"
                        THEN Whereabouts(i, a) = {"lock"}
                      ELSE Whereabouts(i, a) = {}
    BY DEF TInv, IInv, AllPairs, RequestKept, Unsound
  <2>1. Pair(i, a) /\ PairCounts(i, a)
    BY PairCountsType DEF AllPairs
  <2>2. /\ "network" \in Whereabouts(i, a) <=> Count(network[i][a], "REQUEST") > 0
        /\ "queue" \in Whereabouts(i, a) <=> Waits(i, a)
        /\ "lock" \in Whereabouts(i, a) <=> Keeps(i, a)
    <3>1. "network" \in Whereabouts(i, a) <=> Count(network[i][a], "REQUEST") > 0
      BY InFlightIsCount DEF Whereabouts
    <3>2. "queue" \in Whereabouts(i, a) <=> Waits(i, a)
      BY DEF Whereabouts, Waits
    <3>3. "lock" \in Whereabouts(i, a) <=> Keeps(i, a)
      BY <2>1, InFlightIsCount DEF Whereabouts, Keeps, Pair, Current
    <3> QED
      BY <3>1, <3>2, <3>3
  <2>3. Whereabouts(i, a) \subseteq {"network", "queue", "lock"}
    BY DEF Whereabouts
  <2>4. /\ Count(network[i][a], "REQUEST") \in Nat
        /\ Count(network[i][a], "REQUEST") + (IF Waits(i, a) THEN 1 ELSE 0)
             + (IF Keeps(i, a) THEN 1 ELSE 0)
           = IF a \in quorum[i] /\ pc[i] # "idle" THEN 1 ELSE 0
    BY <2>1 DEF Pair, AtOnePlace, PairCounts, ToArbiter
  <2>5. CASE a \in quorum[i] /\ pc[i] = "polling"
    <3>1. \/ Count(network[i][a], "REQUEST") > 0 /\ ~Waits(i, a) /\ ~Keeps(i, a)
          \/ Count(network[i][a], "REQUEST") = 0 /\ Waits(i, a) /\ ~Keeps(i, a)
          \/ Count(network[i][a], "REQUEST") = 0 /\ ~Waits(i, a) /\ Keeps(i, a)
      BY <2>4, <2>5
    <3>2. \/ Whereabouts(i, a) = {"network"}
          \/ Whereabouts(i, a) = {"queue"}
          \/ Whereabouts(i, a) = {"lock"}
      BY <2>2, <2>3, <3>1
    <3> QED
      BY <2>5, <3>2
  <2>6. CASE a \in quorum[i] /\ pc[i] = "critical"
    <3>1. request_reply[i][a] = "LOCKED"
      BY <2>1, <2>6 DEF Pair, HasEveryLock
    <3>2. Keeps(i, a)
      BY <2>1, <3>1, OneClaim DEF Pair, Keeps
    <3>3. Count(network[i][a], "REQUEST") = 0 /\ ~Waits(i, a)
      BY <2>4, <3>2
    <3>4. Whereabouts(i, a) = {"lock"}
      BY <2>2, <2>3, <3>2, <3>3
    <3> QED
      BY <2>6, <3>4
  <2>7. CASE ~(a \in quorum[i] /\ pc[i] \in {"polling", "critical"})
    <3>1. pc[i] \in {"idle", "polling", "critical"}
      BY DEF TypeOK, Location
    <3>2. Count(network[i][a], "REQUEST") = 0 /\ ~Waits(i, a) /\ ~Keeps(i, a)
      BY <2>4, <2>7, <3>1
    <3>3. Whereabouts(i, a) = {}
      BY <2>2, <2>3, <3>2
    <3> QED
      BY <2>7, <3>3
  <2> QED
    BY <2>5, <2>6, <2>7
<1> QED
  BY <1>1, Invariants, PTL

\* There is one claim to a lock that is taken, its holder's, and none to one that
\* is free: whoever gives a lock back has it.
THEOREM Account == Spec => []LockAccounted
<1>1. TInv /\ IInv => LockAccounted
  <2> SUFFICES ASSUME AllPairs, NEW i \in Clients, NEW a \in Clients
               PROVE  Claims(i, a) = IF Holds(i, a) THEN 1 ELSE 0
    BY DEF IInv, AllPairs, LockAccounted, Unsound
  <2>1. Accounted(i, a)
    BY DEF AllPairs, Pair
  <2> QED
    BY <2>1, InFlightIsCount DEF Claims, Accounted
<1> QED
  BY <1>1, Invariants, PTL

\* Whenever a RELINQUISH is on its way, a request waits at the arbiter that goes
\* before the one that gives the lock up.
THEOREM Earlier == Spec => []RelinquishedForEarlier
<1>1. TInv /\ IInv => RelinquishedForEarlier
  <2> SUFFICES ASSUME TypeOK, AllPairs, NEW i \in Clients, NEW a \in Clients,
                      InFlight(i, a, "RELINQUISH") > 0
               PROVE  \E r \in waiting_queue[a] : After(OurRequest(i), r)
    BY DEF TInv, IInv, AllPairs, RelinquishedForEarlier, Unsound
  <2>1. Pair(i, a) /\ Count(network[i][a], "RELINQUISH") > 0
    BY InFlightIsCount DEF AllPairs
  <2>2. locking_request[a] = OurRequest(i)
    BY <2>1, LockGivenBack DEF Pair, Current
  <2> QED
    BY <2>1, <2>2 DEF Pair, AskedForEarlier, EarlierWaits
<1> QED
  BY <1>1, Invariants, PTL

\* So top() and pop() in treat_relinquish_message() always find a request: no
\* process ends for want of one.
THEOREM NobodyKilled == Spec => [](fouled \/ \A i \in Clients : ~killed[i])
<1> DEFINE Alive == fouled \/ \A i \in Clients : ~killed[i]
<1>1. Init => Alive
  BY DEF Init
<1>2. TInv /\ IInv /\ Alive /\ [Next]_vars => Alive'
  <2> SUFFICES ASSUME TypeOK, IInv, Alive, [Next]_vars PROVE Alive'
    BY DEF TInv
  <2>1. fouled => fouled'
    BY OnceFouled
  <2>2. CASE fouled
    BY <2>1, <2>2
  <2>3. CASE ~fouled
    <3>1. AllPairs
      BY <2>3 DEF IInv, AllPairs
    <3>2. \A i, j \in Clients : ~TreatRelinquishUnderflow(i, j)
      BY <3>1, NoUnderflow
    <3>3. \A i \in Clients : MainThread(i) => killed' = killed
      BY DEF MainThread, RequestResource, EnterCriticalSection, ReleaseResource
    <3>4. \A i, j \in Clients : ReceiveThread(i, j) => killed' = killed
      BY <3>2
      DEF ReceiveThread, GiveLock, RefuseLock, InquireLocker, AwaitInquiry,
          EnqueueRequest, ReceiveRequest, TreatRelinquish, TreatRelease, PassLock,
          TreatLastRelease, TreatFailed, TreatLocked, TreatReply, TreatInquire,
          LeaveSpin, SeeFailed, SeeNoFailed, Relinquish
    <3>5. killed' = killed
      BY <3>3, <3>4 DEF Next, vars
    <3> QED
      BY <2>3, <3>5
  <2> QED
    BY <2>2, <2>3
<1> QED
  BY <1>1, <1>2, Invariants, PTL DEF Spec

\* An INQUIRE that waits for its answer went to the client that has the lock.
THEOREM InquiryAccount == Spec => []InquiryConcernsLocker
<1>1. TInv /\ IInv => InquiryConcernsLocker
  BY DEF IInv, Pair, AskedHolder, InquiryConcernsLocker, Unsound
<1> QED
  BY <1>1, Invariants, PTL

\* An arbiter whose lock is free remembers no client.
LEMMA FreeForgets ==
  Spec => [](\A a \in Clients : ~is_locked[a] => locking_request[a].sender = NoClient)
<1> DEFINE Forgets == \A a \in Clients :
      ~is_locked[a] => locking_request[a].sender = NoClient
<1>1. Init => Forgets
  BY DEF Init, NoRequest, ARequest
<1>2. TInv /\ Forgets /\ [Next]_vars => Forgets'
  <2> SUFFICES ASSUME TInv, Forgets, [Next]_vars, NEW a \in Clients, ~is_locked'[a]
               PROVE  locking_request'[a].sender = NoClient
    OBVIOUS
  <2>1. TypeOK /\ \A i \in Clients : waiting_queue[i] # {} => is_locked[i]
    BY DEF TInv
  <2>2. ASSUME UNCHANGED <<is_locked, locking_request>>
        PROVE  locking_request'[a].sender = NoClient
    BY <2>2
  <2>3. ASSUME NEW i \in Clients, MainThread(i) PROVE UNCHANGED <<is_locked, locking_request>>
    BY <2>3
    DEF MainThread, RequestResource, EnterCriticalSection, ReleaseResource, arbiter
  <2>4. ASSUME NEW i \in Clients, NEW j \in Clients,
               \/ RefuseLock(i, j) \/ InquireLocker(i, j) \/ AwaitInquiry(i, j)
               \/ TreatRelinquishUnderflow(i, j)
               \/ TreatFailed(i, j) \/ TreatLocked(i, j) \/ TreatInquire(i, j)
               \/ LeaveSpin(i, j) \/ SeeFailed(i, j) \/ SeeNoFailed(i, j)
               \/ Relinquish(i, j)
        PROVE  UNCHANGED <<is_locked, locking_request>>
    BY <2>4
    DEF RefuseLock, InquireLocker, AwaitInquiry, EnqueueRequest,
        TreatRelinquishUnderflow, TreatFailed, TreatLocked, TreatReply,
        TreatInquire, LeaveSpin, SeeFailed, SeeNoFailed, Relinquish, arbiter
  <2>5. ASSUME NEW i \in Clients, NEW j \in Clients, GiveLock(i, j)
        PROVE  locking_request'[a].sender = NoClient
    BY <2>1, <2>5 DEF GiveLock, TypeOK
  <2>6. ASSUME NEW i \in Clients, NEW j \in Clients,
               TreatRelinquish(i, j) \/ TreatRelease(i, j)
        PROVE  locking_request'[a].sender = NoClient
    <3>1. is_locked' = is_locked /\ is_locked[i]
      BY <2>1, <2>6 DEF TreatRelinquish, TreatRelease, PassLock
    <3>2. a # i => locking_request'[a] = locking_request[a]
      BY <2>1, <2>6 DEF TreatRelinquish, TreatRelease, PassLock, TypeOK
    <3> QED
      BY <3>1, <3>2
  <2>7. ASSUME NEW i \in Clients, NEW j \in Clients, TreatLastRelease(i, j)
        PROVE  locking_request'[a].sender = NoClient
    BY <2>1, <2>7 DEF TreatLastRelease, TypeOK
  <2> QED
    BY <2>2, <2>3, <2>4, <2>5, <2>6, <2>7 DEF Next, ReceiveThread, vars, arbiter
<1> QED
  BY <1>1, <1>2, Invariants, PTL DEF Spec

\* No request is queued that is queued already or that has the lock: one that
\* arrives is its client's only one, and none waits of the client that has the
\* lock.
THEOREM QueuedOnce == Spec => []QueueIsASet
<1> DEFINE Forgets == \A a \in Clients :
      ~is_locked[a] => locking_request[a].sender = NoClient
<1>1. TInv /\ IInv /\ Forgets => QueueIsASet
  <2> SUFFICES ASSUME TInv, AllPairs, Forgets, NEW i \in Clients, NEW j \in Clients
               PROVE  /\ locking_request[i] \notin waiting_queue[i]
                      /\ Arrives(i, j, "REQUEST") =>
                           Incoming(i, j) \notin waiting_queue[i] \union {locking_request[i]}
    BY DEF IInv, AllPairs, QueueIsASet, Unsound
  <2>1. TypeOK /\ (waiting_queue[i] # {} => is_locked[i])
    BY DEF TInv
  <2>2. ASSUME locking_request[i] \in waiting_queue[i] PROVE FALSE
    <3>1. PICK k \in Clients : locking_request[i].sender = k
      BY <2>1, <2>2 DEF TypeOK
    <3>2. Holds(k, i) /\ Waits(k, i)
      BY <2>1, <2>2, <3>1 DEF Holds, Waits
    <3>3. Pair(k, i) /\ PairCounts(k, i)
      BY <2>1, PairCountsType DEF AllPairs
    <3>4. Keeps(k, i)
      BY <3>2, <3>3 DEF Pair, ReleasedFirst, Keeps
    <3> QED
      BY <3>2, <3>3, <3>4 DEF Pair, AtOnePlace, PairCounts, ToArbiter
  <2>3. ASSUME Arrives(i, j, "REQUEST")
        PROVE  Incoming(i, j) \notin waiting_queue[i] \union {locking_request[i]}
    <3>1. Incoming(i, j).sender = j /\ ~Holds(j, i) /\ ~Waits(j, i)
      BY <2>1, <2>3, ArrivesLemma, RequestArrives DEF AllPairs
    <3>2. locking_request[i].sender # j
      BY <3>1, NAssumption DEF Holds, Clients, NoClient
    <3> QED
      BY <3>1, <3>2 DEF Waits
  <2> QED
    BY <2>2, <2>3
<1> QED
  BY <1>1, Invariants, FreeForgets, PTL

-----------------------------------------------------------------------------
(***************************************************************************)
(* A client's messages to itself.  Own is kept where IInv is: it bounds how*)
(* many there are when the client calls request_resource() and             *)
(* release_resource(), so that those two never crowd message_queue.        *)
(***************************************************************************)

\* A refusal that is on its way stays the only one where no other is sent, and no
\* REQUEST.
LEMMA RefusedKept ==
  ASSUME TypeOK, TypeOK', NEW x \in Clients, NEW y \in Clients, RefusedOnce(x, y),
         Count(network'[y][x], "FAILED") <= Count(network[y][x], "FAILED"),
         Count(network[x][y], "REQUEST") = 0 => Count(network'[x][y], "REQUEST") = 0,
         pc'[x] = "idle" /\ y \in quorum[x] => pc[x] = "idle"
  PROVE  RefusedOnce(x, y)'
<1>1. network \in Network /\ network' \in Network
  BY DEF TypeOK, Network
<1>2. /\ Count(network[y][x], "FAILED") \in Nat
      /\ Count(network'[y][x], "FAILED") \in Nat
  BY <1>1, CountNat
<1> QED
  BY <1>2 DEF RefusedOnce

\* What a receive thread does keeps it, where it sends no FAILED.
LEMMA RefusedAnswered ==
  ASSUME TypeOK, TypeOK', NEW x \in Clients, NEW y \in Clients, RefusedOnce(x, y),
         NEW i \in Clients, NEW j \in Clients, NEW s, NEW dests, NEW m,
         Answered(i, j, s, dests, m), m # "REQUEST",
         ~(y = i /\ x \in dests /\ m = "FAILED"), pc' = pc
  PROVE  RefusedOnce(x, y)'
<1>1. network \in Network /\ network' \in Network
  BY DEF TypeOK, Network
<1>2. /\ Count(network[y][x], "FAILED") \in Nat
      /\ Count(network[x][y], "REQUEST") \in Nat
      /\ Count(network'[x][y], "REQUEST") \in Nat
  BY <1>1, CountNat
<1>3. \/ Count(network'[y][x], "FAILED") = Count(network[y][x], "FAILED")
      \/ Count(network'[y][x], "FAILED") = Count(network[y][x], "FAILED") - 1
  BY DEF Answered
<1>4. \/ Count(network'[x][y], "REQUEST") = Count(network[x][y], "REQUEST")
      \/ Count(network'[x][y], "REQUEST") = Count(network[x][y], "REQUEST") - 1
  BY DEF Answered
<1> QED
  BY <1>2, <1>3, <1>4, RefusedKept

\* A client has no more than one refusal of an arbiter under way, and none once it
\* has given its request up or sent it again.
LEMMA RefusedNext ==
  ASSUME TypeOK, TypeOK', AllPairs, AllOwn, [Next]_vars,
         NEW x \in Clients, NEW y \in Clients
  PROVE  RefusedOnce(x, y)'
<1>0. RefusedOnce(x, y) /\ Pair(x, y)
  BY DEF AllOwn, AllPairs
<1>N. /\ Count(network[y][x], "FAILED") \in Nat
      /\ Count(network[x][y], "REQUEST") \in Nat
  <2>1. network \in Network
    BY DEF TypeOK, Network
  <2> QED
    BY <2>1, CountNat
<1>1. ASSUME NEW i \in Clients, RequestResource(i) PROVE RefusedOnce(x, y)'
  <2>1. Told(i, quorum[i], "REQUEST")
    BY <1>1, ToldBy
  <2>2. Count(network'[y][x], "FAILED") = Count(network[y][x], "FAILED")
    BY <2>1 DEF Told
  <2>3. CASE x = i
    <3>1. Count(network[y][x], "FAILED") = 0
      BY <1>0, <1>1, <1>N, <2>3 DEF RefusedOnce, RequestResource
    <3> QED
      BY <2>2, <3>1 DEF RefusedOnce
  <2>4. CASE x # i
    <3>1. Count(network'[x][y], "REQUEST") = Count(network[x][y], "REQUEST")
      BY <2>1, <2>4 DEF Told
    <3>2. pc'[x] = pc[x]
      BY <1>1, <2>4 DEF RequestResource, TypeOK
    <3> QED
      BY <1>0, <1>N, <2>2, <3>1, <3>2, RefusedKept
  <2> QED
    BY <2>3, <2>4
<1>2. ASSUME NEW i \in Clients, EnterCriticalSection(i) PROVE RefusedOnce(x, y)'
  <2>1. network' = network /\ (pc'[x] = "idle" => pc[x] = "idle")
    BY <1>2 DEF EnterCriticalSection, TypeOK
  <2> QED
    BY <1>0, <1>N, <2>1, RefusedKept
<1>3. ASSUME NEW i \in Clients, ReleaseResource(i) PROVE RefusedOnce(x, y)'
  <2>1. Told(i, quorum[i], "RELEASE")
    BY <1>3, ToldBy
  <2>2. Count(network'[y][x], "FAILED") = Count(network[y][x], "FAILED")
    BY <2>1 DEF Told
  <2>3. CASE x = i /\ y \in quorum[i]
    <3>1. Count(network[y][x], "FAILED") = 0
      BY <1>0, <1>3, <2>3 DEF Pair, HasEveryLock, RefusedFirst, ReleaseResource
    <3> QED
      BY <2>2, <3>1 DEF RefusedOnce
  <2>4. CASE ~(x = i /\ y \in quorum[i])
    <3>1. Count(network'[x][y], "REQUEST") = Count(network[x][y], "REQUEST")
      BY <2>1 DEF Told
    <3>2. y \in quorum[x] => pc'[x] = pc[x]
      BY <1>3, <2>4 DEF ReleaseResource, TypeOK
    <3> QED
      BY <1>0, <1>N, <2>2, <3>1, <3>2, RefusedKept
  <2> QED
    BY <2>3, <2>4
<1>4. ASSUME NEW i \in Clients, NEW j \in Clients, RefuseLock(i, j)
      PROVE  RefusedOnce(x, y)'
  <2>1. Answered(i, j, "REQUEST", {j}, "FAILED")
    BY <1>4, AnsweredBy
  <2>2. Arrives(i, j, "REQUEST") /\ pc' = pc
    BY <1>4 DEF RefuseLock, EnqueueRequest, ReceiveRequest, requester
  <2>3. CASE y = i /\ x = j
    <3>1. /\ Count(network[j][i], "REQUEST") = 1
          /\ i \in quorum[j] /\ pc[j] # "idle"
      BY <1>0, <2>2, <2>3, RequestArrives
    <3>2. Count(network[i][j], "FAILED") = 0
      BY <1>0, <1>N, <2>3, <3>1 DEF RefusedOnce
    <3>3. Count(network'[j][i], "REQUEST") = 0
      BY <2>1, <3>1 DEF Answered
    <3>4. Count(network'[i][j], "FAILED") = 1
      BY <2>1, <3>2 DEF Answered
    <3> QED
      BY <2>2, <2>3, <3>1, <3>3, <3>4 DEF RefusedOnce
  <2>4. CASE ~(y = i /\ x \in {j})
    BY <1>0, <2>1, <2>2, <2>4, RefusedAnswered
  <2> QED
    BY <2>3, <2>4
<1>5. ASSUME NEW i \in Clients, NEW j \in Clients,
             ReceiveThread(i, j), ~RefuseLock(i, j), ~Relinquish(i, j),
             network' # network
      PROVE  RefusedOnce(x, y)'
  <2>1. pc' = pc
    BY <1>5
    DEF ReceiveThread, GiveLock, InquireLocker, AwaitInquiry, EnqueueRequest,
        ReceiveRequest, TreatRelinquish, TreatRelease, PassLock,
        TreatRelinquishUnderflow, TreatLastRelease, TreatFailed, TreatLocked,
        TreatReply, TreatInquire, LeaveSpin, SeeFailed, SeeNoFailed, requester
  <2>2. \E s, dests : \E m \in {"LOCKED", "INQUIRE"} : Answered(i, j, s, dests, m)
    <3>1. CASE GiveLock(i, j) \/ AwaitInquiry(i, j) \/ InquireLocker(i, j)
      BY <3>1, AnsweredBy, Zenon
    <3>2. CASE TreatRelinquish(i, j) \/ TreatRelinquishUnderflow(i, j)
      BY <3>2, AnsweredBy, Zenon
    <3>3. CASE TreatRelease(i, j) \/ TreatLastRelease(i, j) \/ TreatInquire(i, j)
      BY <3>3, AnsweredBy, Zenon
    <3>4. CASE TreatFailed(i, j) \/ TreatLocked(i, j)
      BY <3>4, AnsweredBy, Zenon DEF TreatFailed, TreatLocked
    <3> QED
      BY <1>5, <3>1, <3>2, <3>3, <3>4
      DEF ReceiveThread, LeaveSpin, SeeFailed, SeeNoFailed
  <2> QED
    BY <1>0, <2>1, <2>2, RefusedAnswered
<1>6. ASSUME NEW i \in Clients, NEW j \in Clients, Relinquish(i, j)
      PROVE  RefusedOnce(x, y)'
  <2>1. Told(i, {j}, "RELINQUISH") /\ pc' = pc
    BY <1>6, ToldBy DEF Relinquish
  <2>2. Count(network'[y][x], "FAILED") = Count(network[y][x], "FAILED")
    BY <2>1 DEF Told
  <2>3. Count(network'[x][y], "REQUEST") = Count(network[x][y], "REQUEST")
    BY <2>1 DEF Told
  <2> QED
    BY <1>0, <1>N, <2>1, <2>2, <2>3, RefusedKept
<1>7. ASSUME NEW i \in Clients, NEW j \in Clients, ReceiveThread(i, j),
             network' = network
      PROVE  RefusedOnce(x, y)'
  <2>1. pc' = pc
    BY <1>7
    DEF ReceiveThread, GiveLock, RefuseLock, InquireLocker, AwaitInquiry, EnqueueRequest,
        ReceiveRequest, TreatRelinquish, TreatRelease, PassLock,
        TreatRelinquishUnderflow, TreatLastRelease, TreatFailed, TreatLocked,
        TreatReply, TreatInquire, LeaveSpin, SeeFailed, SeeNoFailed, Relinquish,
        requester
  <2> QED
    BY <1>0, <1>7, <2>1 DEF RefusedOnce
<1>8. CASE UNCHANGED vars
  BY <1>0, <1>8 DEF vars, requester, RefusedOnce
<1> QED
  BY <1>1, <1>2, <1>3, <1>4, <1>5, <1>6, <1>7, <1>8 DEF Next, MainThread

\* What of x's messages to itself concerns its own lock.
SameOwn(x) ==
  /\ \A t \in {"LOCKED", "INQUIRE", "RELINQUISH"} :
       Count(network'[x][x], t) = Count(network[x][x], t)
  /\ Ahead(network[x][x], "INQUIRE", "LOCKED") => Ahead(network'[x][x], "INQUIRE", "LOCKED")
  /\ Ahead(network'[x][x], "LOCKED", "INQUIRE") => Ahead(network[x][x], "LOCKED", "INQUIRE")

\* Nothing of it changes where no such message of x to itself is taken or sent.
LEMMA AnsweredOwn ==
  ASSUME NEW i \in Clients, NEW j \in Clients, NEW s, NEW dests, NEW m,
         Answered(i, j, s, dests, m), NEW x \in Clients,
         ~(x = i /\ x = j /\ s \in {"LOCKED", "INQUIRE", "RELINQUISH"}),
         ~(x = i /\ x \in dests /\ m \in {"LOCKED", "INQUIRE", "RELINQUISH"})
  PROVE  SameOwn(x)
<1>1. \A t \in {"LOCKED", "INQUIRE", "RELINQUISH"} :
        Count(network'[x][x], t) = Count(network[x][x], t)
  BY DEF Answered
<1>2. Ahead(network[x][x], "INQUIRE", "LOCKED") => Ahead(network'[x][x], "INQUIRE", "LOCKED")
  BY DEF Answered
<1>3. Ahead(network'[x][x], "LOCKED", "INQUIRE") => Ahead(network[x][x], "LOCKED", "INQUIRE")
  BY DEF Answered
<1> QED
  BY <1>1, <1>2, <1>3 DEF SameOwn

\* A message to others, or of a type that Own does not speak of, leaves a client's
\* account with itself as it was.
LEMMA ToldOwn ==
  ASSUME NEW i \in Clients, NEW dests, NEW m, Told(i, dests, m), NEW x \in Clients,
         ~(x = i /\ x \in dests /\ m \in {"LOCKED", "INQUIRE", "RELINQUISH"})
  PROVE  SameOwn(x)
<1>1. \A t \in {"LOCKED", "INQUIRE", "RELINQUISH"} :
        Count(network'[x][x], t) = Count(network[x][x], t)
  BY DEF Told
<1>2. Ahead(network[x][x], "INQUIRE", "LOCKED") => Ahead(network'[x][x], "INQUIRE", "LOCKED")
  BY DEF Told
<1>3. Ahead(network'[x][x], "LOCKED", "INQUIRE") => Ahead(network[x][x], "LOCKED", "INQUIRE")
  BY DEF Told
<1> QED
  BY <1>1, <1>2, <1>3 DEF SameOwn

\* A step that leaves x's own lock alone keeps AskedItself(x).
LEMMA AskedKept ==
  ASSUME NEW x \in Clients, AskedItself(x), SameOwn(x),
         Holds(x, x)' <=> Holds(x, x),
         is_inquire_replied'[x][x] = is_inquire_replied[x][x],
         inquiry'[x][x] = inquiry[x][x]
  PROVE  AskedItself(x)'
<1>1. Asked(x)' = Asked(x) /\ Answering(x)' = Answering(x)
  BY DEF Asked, Answering
<1> QED
  BY <1>1 DEF AskedItself, SameOwn

\* The numbers AskedItself is about.
LEMMA OwnCounts ==
  ASSUME TypeOK, NEW x \in Clients
  PROVE  /\ \A t : Count(network[x][x], t) \in Nat
         /\ Asked(x) \in {0, 1} /\ Answering(x) \in {0, 1}
         /\ network[x][x] \in Seq(Message)
<1>1. network \in Network
  BY DEF TypeOK, Network
<1> QED
  BY <1>1, CountNat DEF Asked, Answering, Network

\* When x has not got its own lock, it has been asked for it no more than once.
LEMMA AskedUnheld ==
  ASSUME TypeOK, NEW x \in Clients, Pair(x, x), AskedItself(x), ~Holds(x, x)
  PROVE  /\ Count(network[x][x], "INQUIRE") <= 1
         /\ Count(network[x][x], "LOCKED") = 0
         /\ Ahead(network[x][x], "INQUIRE", "LOCKED")
         /\ Asked(x) = 0
BY NoClaim DEF AskedItself, Pair, AskedHolder, Asked

\* When x gives its own lock back, no more than one INQUIRE is left.
LEMMA AskedGivenBack ==
  ASSUME TypeOK, NEW x \in Clients, Pair(x, x), AskedItself(x),
         NEW s \in {"RELINQUISH", "RELEASE"}, Count(network[x][x], s) > 0
  PROVE  Count(network[x][x], "INQUIRE") <= 1 /\ Count(network[x][x], "LOCKED") = 0
<1>1. Holds(x, x) /\ Count(network[x][x], "LOCKED") = 0
  BY LockGivenBack
<1>2. /\ Count(network[x][x], "INQUIRE") \in Nat
      /\ Count(network[x][x], "RELINQUISH") \in Nat
      /\ Asked(x) \in {0, 1} /\ Answering(x) \in {0, 1}
  BY OwnCounts
<1> QED
  BY <1>1, <1>2 DEF AskedItself

\* A client that gets its own lock.
LEMMA AskedGotLock ==
  ASSUME TypeOK, NEW x \in Clients, Pair(x, x), AskedItself(x), ~Holds(x, x),
         NEW j \in Clients, NEW s \in {"REQUEST", "RELEASE", "RELINQUISH"}, NEW dests,
         Answered(x, j, s, dests, "LOCKED"), x \in dests, s = "REQUEST" \/ j # x,
         Holds(x, x)', is_inquire_replied'[x][x] = is_inquire_replied[x][x]
  PROVE  AskedItself(x)'
<1>1. /\ Count(network[x][x], "INQUIRE") <= 1
      /\ Count(network[x][x], "LOCKED") = 0
      /\ Ahead(network[x][x], "INQUIRE", "LOCKED")
      /\ Asked(x) = 0
  BY AskedUnheld
<1>2. Count(network'[x][x], "INQUIRE") = Count(network[x][x], "INQUIRE")
  BY DEF Answered
<1>3. Count(network'[x][x], "LOCKED") = 1
  BY <1>1 DEF Answered
<1>4. Ahead(network'[x][x], "INQUIRE", "LOCKED")
  BY <1>1 DEF Answered
<1>5. Asked(x)' = 0
  BY <1>1 DEF Asked
<1>6. Count(network[x][x], "INQUIRE") \in Nat
  BY OwnCounts
<1> QED
  BY <1>1, <1>2, <1>3, <1>4, <1>5, <1>6 DEF AskedItself

\* A client that is asked for its own lock.
LEMMA AskedOnceMore ==
  ASSUME TypeOK, NEW x \in Clients, Pair(x, x), AskedItself(x), Holds(x, x), Holds(x, x)',
         NEW j \in Clients, Answered(x, j, "REQUEST", {x}, "INQUIRE"),
         is_inquire_replied[x][x], ~is_inquire_replied'[x][x], inquiry' = inquiry
  PROVE  AskedItself(x)'
<1>1. Asked(x) = 0 /\ Asked(x)' = 1 /\ Answering(x)' = Answering(x)
  BY DEF Asked, Answering
<1>2. /\ \A t : Count(network[x][x], t) \in Nat
      /\ Answering(x) \in {0, 1}
      /\ network[x][x] \in Seq(Message)
  BY OwnCounts
<1>3. Count(network'[x][x], "INQUIRE") = Count(network[x][x], "INQUIRE") + 1
  BY DEF Answered
<1>4. /\ Count(network'[x][x], "LOCKED") = Count(network[x][x], "LOCKED")
      /\ Count(network'[x][x], "RELINQUISH") = Count(network[x][x], "RELINQUISH")
  BY DEF Answered
<1>5. Ahead(network'[x][x], "LOCKED", "INQUIRE") => Ahead(network[x][x], "LOCKED", "INQUIRE")
  BY DEF Answered
<1>6. CASE Count(network[x][x], "LOCKED") = 0
  BY <1>1, <1>2, <1>3, <1>4, <1>6 DEF AskedItself
<1>7. CASE Count(network[x][x], "LOCKED") > 0
  <2>1. /\ Count(network[x][x], "INQUIRE") <= 1
        /\ Ahead(network[x][x], "INQUIRE", "LOCKED")
    BY <1>1, <1>7 DEF AskedItself
  <2>2. Count(network[x][x], "INQUIRE") > 0 => ~Ahead(network[x][x], "LOCKED", "INQUIRE")
    BY <1>2, <1>7, <2>1, AheadOneWay
  <2> QED
    BY <1>1, <1>2, <1>3, <1>4, <1>5, <1>7, <2>1, <2>2 DEF AskedItself
<1> QED
  BY <1>2, <1>6, <1>7

\* A client that learns that it has its own lock.
LEMMA AskedLearns ==
  ASSUME TypeOK, TypeOK', NEW x \in Clients, Pair(x, x), AskedItself(x),
         TreatReply(x, x, "LOCKED")
  PROVE  AskedItself(x)'
<1>1. Answered(x, x, "LOCKED", {}, "LOCKED")
  BY AnsweredBy
<1>2. UNCHANGED <<arbiter, inquiry>> /\ inquiry[x][x] = "none"
  BY DEF TreatReply, Arrives
<1>3. /\ \A t : Count(network[x][x], t) \in Nat
      /\ network[x][x] \in Seq(Message) /\ network'[x][x] \in Seq(Message)
      /\ Asked(x) \in {0, 1}
  <2>1. network'[x][x] \in Seq(Message)
    BY DEF TypeOK
  <2> QED
    BY <2>1, OwnCounts
<1>4. /\ Holds(x, x) /\ Count(network[x][x], "LOCKED") = 1
      /\ Count(network[x][x], "RELINQUISH") = 0
  <2>1. Count(network[x][x], "LOCKED") > 0
    BY <1>1 DEF Answered
  <2> QED
    BY <2>1, OneClaim DEF Pair
<1>5. /\ Count(network'[x][x], "LOCKED") = 0
      /\ Count(network'[x][x], "INQUIRE") = Count(network[x][x], "INQUIRE")
      /\ Count(network'[x][x], "RELINQUISH") = 0
  BY <1>1, <1>4 DEF Answered
<1>6. Ahead(network[x][x], "LOCKED", "INQUIRE")
  <2>1. Ahead(network'[x][x], "LOCKED", "INQUIRE")
    BY <1>3, <1>5, AheadOfNone
  <2> QED
    BY <1>1, <2>1 DEF Answered
<1>7. Ahead(network[x][x], "INQUIRE", "LOCKED") => Count(network[x][x], "INQUIRE") = 0
  BY <1>1 DEF Answered
<1>8. Count(network[x][x], "INQUIRE") <= Asked(x)
  BY <1>3, <1>4, <1>6, <1>7 DEF AskedItself
<1>9. (Holds(x, x)' <=> Holds(x, x)) /\ Asked(x)' = Asked(x) /\ Answering(x)' = 0
  BY <1>2 DEF Holds, Asked, Answering, arbiter
<1> QED
  BY <1>3, <1>4, <1>5, <1>8, <1>9 DEF AskedItself

\* A client that takes its own INQUIRE.
LEMMA AskedTakes ==
  ASSUME TypeOK, NEW x \in Clients, Pair(x, x), AskedItself(x), TreatInquire(x, x)
  PROVE  AskedItself(x)'
<1>1. Answered(x, x, "INQUIRE", {}, "LOCKED")
  BY AnsweredBy
<1>2. UNCHANGED arbiter /\ inquiry[x][x] = "none" /\ inquiry'[x][x] = "spinning"
  BY DEF TreatInquire, Arrives, TypeOK
<1>3. (\A t : Count(network[x][x], t) \in Nat) /\ Asked(x) \in {0, 1}
  BY OwnCounts
<1>4. /\ Count(network'[x][x], "INQUIRE") = Count(network[x][x], "INQUIRE") - 1
      /\ Count(network'[x][x], "LOCKED") = Count(network[x][x], "LOCKED")
      /\ Count(network'[x][x], "RELINQUISH") = Count(network[x][x], "RELINQUISH")
  BY <1>1 DEF Answered
<1>5. Ahead(network[x][x], "INQUIRE", "LOCKED") => Ahead(network'[x][x], "INQUIRE", "LOCKED")
  BY <1>1 DEF Answered
<1>6. /\ Holds(x, x)' <=> Holds(x, x)
      /\ Asked(x)' = Asked(x) /\ Answering(x) = 0 /\ Answering(x)' = 1
  BY <1>2 DEF Holds, Asked, Answering, arbiter
<1> QED
  BY <1>3, <1>4, <1>5, <1>6 DEF AskedItself

\* A client that gives its own lock back.
LEMMA AskedGives ==
  ASSUME TypeOK, NEW x \in Clients, Pair(x, x), AskedItself(x), Relinquish(x, x), ~fouled'
  PROVE  AskedItself(x)'
<1>1. Told(x, {x}, "RELINQUISH")
  BY ToldBy
<1>2. /\ UNCHANGED arbiter /\ request_reply[x][x] = "LOCKED"
      /\ inquiry[x][x] # "none" /\ inquiry'[x][x] = "none"
  BY DEF Relinquish, Continue, TypeOK
<1>3. (\A t : Count(network[x][x], t) \in Nat) /\ Asked(x) \in {0, 1}
  BY OwnCounts
<1>4. Holds(x, x) /\ Count(network[x][x], "LOCKED") = 0
  BY <1>2, OneClaim DEF Pair
<1>5. /\ Count(network'[x][x], "INQUIRE") = Count(network[x][x], "INQUIRE")
      /\ Count(network'[x][x], "LOCKED") = 0
      /\ Count(network'[x][x], "RELINQUISH") = Count(network[x][x], "RELINQUISH") + 1
  BY <1>1, <1>4 DEF Told
<1>6. /\ Holds(x, x)' <=> Holds(x, x)
      /\ Asked(x)' = Asked(x) /\ Answering(x) = 1 /\ Answering(x)' = 0
  BY <1>2 DEF Holds, Asked, Answering, arbiter
<1> QED
  BY <1>3, <1>4, <1>5, <1>6 DEF AskedItself

\* The answers to the messages of others, and to its own REQUEST and RELEASE, keep
\* what a client was asked for.
LEMMA AskedNext ==
  ASSUME TypeOK, TypeOK', AllPairs, AllOwn, ~fouled', [Next]_vars, NEW x \in Clients
  PROVE  AskedItself(x)'
<1>0. AskedItself(x) /\ Pair(x, x)
  BY DEF AllOwn, AllPairs
<1>1. ASSUME NEW i \in Clients, MainThread(i) PROVE AskedItself(x)'
  <2>1. UNCHANGED <<inquiry, arbiter>>
    BY <1>1 DEF MainThread, RequestResource, EnterCriticalSection, ReleaseResource
  <2>2. SameOwn(x)
    <3>1. CASE RequestResource(i) \/ ReleaseResource(i)
      BY <3>1, ToldBy, ToldOwn
    <3>2. CASE EnterCriticalSection(i)
      BY <3>2 DEF EnterCriticalSection, SameOwn
    <3> QED
      BY <1>1, <3>1, <3>2 DEF MainThread
  <2> QED
    BY <1>0, <2>1, <2>2, AskedKept DEF Holds, arbiter
<1>2. ASSUME NEW i \in Clients, NEW j \in Clients, GiveLock(i, j) PROVE AskedItself(x)'
  <2>1. Answered(i, j, "REQUEST", {j}, "LOCKED")
    BY <1>2, AnsweredBy
  <2>2. /\ UNCHANGED <<inquiry, is_inquire_replied>>
        /\ ~is_locked[i] /\ is_locked'[i]
        /\ locking_request'[i].sender = j
        /\ \A a \in Clients : a # i =>
             is_locked'[a] = is_locked[a] /\ locking_request'[a] = locking_request[a]
    BY <1>2 DEF GiveLock, ReceiveRequest, TypeOK, Incoming, ARequest
  <2>3. CASE x = i /\ x = j
    <3>1. ~Holds(x, x) /\ Holds(x, x)'
      BY <2>2, <2>3 DEF Holds
    <3>2. Answered(x, x, "REQUEST", {x}, "LOCKED")
      BY <2>1, <2>3
    <3> QED
      BY <1>0, <2>2, <3>1, <3>2, AskedGotLock
  <2>4. CASE ~(x = i /\ x = j)
    <3>1. SameOwn(x)
      BY <2>1, <2>4, AnsweredOwn
    <3>2. Holds(x, x)' <=> Holds(x, x)
      BY <2>2, <2>4 DEF Holds
    <3> QED
      BY <1>0, <2>2, <3>1, <3>2, AskedKept
  <2> QED
    BY <2>3, <2>4
<1>3. ASSUME NEW i \in Clients, NEW j \in Clients, RefuseLock(i, j) \/ AwaitInquiry(i, j)
      PROVE  AskedItself(x)'
  <2>1. \/ Answered(i, j, "REQUEST", {j}, "FAILED")
        \/ Answered(i, j, "REQUEST", {}, "LOCKED")
    BY <1>3, AnsweredBy
  <2>2. SameOwn(x)
    BY <2>1, AnsweredOwn
  <2>3. UNCHANGED <<inquiry, is_locked, locking_request, is_inquire_replied>>
    BY <1>3 DEF RefuseLock, AwaitInquiry, EnqueueRequest, ReceiveRequest
  <2> QED
    BY <1>0, <2>2, <2>3, AskedKept DEF Holds
<1>4. ASSUME NEW i \in Clients, NEW j \in Clients, InquireLocker(i, j)
      PROVE  AskedItself(x)'
  <2>1. PICK k : /\ k = locking_request[i].sender
                 /\ Answered(i, j, "REQUEST", {k}, "INQUIRE")
    BY <1>4, AnsweredBy
  <2>2. /\ UNCHANGED <<inquiry, is_locked, locking_request>>
        /\ is_locked[i]
        /\ is_inquire_replied[i][k]
        /\ is_inquire_replied' = [is_inquire_replied EXCEPT ![i][k] = FALSE]
    BY <1>4, <2>1 DEF InquireLocker, EnqueueRequest, ReceiveRequest
  <2>3. CASE x = i /\ x = k
    <3>1. Holds(x, x) /\ Holds(x, x)'
      BY <2>1, <2>2, <2>3 DEF Holds
    <3>2. is_inquire_replied[x][x] /\ ~is_inquire_replied'[x][x]
      BY <2>2, <2>3 DEF TypeOK
    <3>3. Answered(x, j, "REQUEST", {x}, "INQUIRE") /\ inquiry' = inquiry
      BY <2>1, <2>2, <2>3
    <3> QED
      BY <1>0, <3>1, <3>2, <3>3, AskedOnceMore
  <2>4. CASE ~(x = i /\ x = k)
    <3>1. SameOwn(x)
      BY <2>1, <2>4, AnsweredOwn
    <3>2. is_inquire_replied'[x][x] = is_inquire_replied[x][x]
      BY <2>2, <2>4 DEF TypeOK
    <3> QED
      BY <1>0, <2>2, <3>1, <3>2, AskedKept DEF Holds
  <2> QED
    BY <2>3, <2>4
<1>5. ASSUME NEW i \in Clients, NEW j \in Clients,
             TreatRelinquish(i, j) \/ TreatRelease(i, j)
      PROVE  AskedItself(x)'
  <2>1. PICK h : h = Top(waiting_queue[i]).sender
    OBVIOUS
  <2>2. PICK s \in {"RELINQUISH", "RELEASE"} : Answered(i, j, s, {h}, "LOCKED")
    BY <1>5, <2>1, AnsweredBy
  <2>3. PICK requeued : PassLock(i, j, requeued)
    BY <1>5 DEF TreatRelinquish, TreatRelease
  <2>4. /\ UNCHANGED <<inquiry, is_locked>>
        /\ locking_request'[i].sender = h
        /\ is_inquire_replied'[i][j]
        /\ \A k \in Clients : k # j => is_inquire_replied'[i][k] = is_inquire_replied[i][k]
        /\ \A a \in Clients : a # i =>
             /\ locking_request'[a] = locking_request[a]
             /\ is_inquire_replied'[a] = is_inquire_replied[a]
    BY <2>1, <2>3 DEF PassLock, InquiryAnswered, TypeOK
  <2>5. Count(network[j][i], s) > 0
    BY <2>2 DEF Answered
  <2>6. Holds(j, i) /\ ~Waits(j, i)
    BY <2>5, LockGivenBack DEF AllPairs
  <2>7. h # j
    <3>1. waiting_queue[i] # {} /\ waiting_queue[i] \in SUBSET [seq : Nat, sender : Clients]
      BY <1>5 DEF TreatRelinquish, TreatRelease, TypeOK
    <3>2. Top(waiting_queue[i]) \in waiting_queue[i]
      BY <3>1, TopLemma
    <3> QED
      BY <2>1, <2>6, <3>2 DEF Waits
  <2>8. CASE x = i /\ x = j
    <3>1. Count(network[x][x], "INQUIRE") <= 1 /\ Count(network[x][x], "LOCKED") = 0
      BY <1>0, <2>5, <2>8, AskedGivenBack
    <3>2. ~Holds(x, x)'
      BY <2>4, <2>7, <2>8 DEF Holds
    <3>3. Count(network'[x][x], "INQUIRE") = Count(network[x][x], "INQUIRE")
      BY <2>2 DEF Answered
    <3>4. Count(network'[x][x], "LOCKED") = Count(network[x][x], "LOCKED")
      BY <2>2, <2>7, <2>8 DEF Answered
    <3> QED
      BY <3>1, <3>2, <3>3, <3>4 DEF AskedItself
  <2>9. CASE x = i /\ x # j /\ x = h
    <3>1. ~Holds(x, x) /\ Holds(x, x)'
      BY <2>4, <2>6, <2>9 DEF Holds
    <3>2. is_inquire_replied'[x][x] = is_inquire_replied[x][x]
      BY <2>4, <2>9
    <3>3. Answered(x, j, s, {h}, "LOCKED") /\ x \in {h} /\ j # x
      BY <2>2, <2>9
    <3> QED
      BY <1>0, <3>1, <3>2, <3>3, AskedGotLock
  <2>10. CASE ~(x = i /\ (x = j \/ x = h))
    <3>1. SameOwn(x)
      BY <2>2, <2>10, AnsweredOwn
    <3>2. Holds(x, x)' <=> Holds(x, x)
      BY <2>4, <2>6, <2>10 DEF Holds
    <3>3. is_inquire_replied'[x][x] = is_inquire_replied[x][x]
      BY <2>4, <2>10
    <3> QED
      BY <1>0, <2>4, <3>1, <3>2, <3>3, AskedKept
  <2> QED
    BY <2>8, <2>9, <2>10
<1>6. ASSUME NEW i \in Clients, NEW j \in Clients, TreatLastRelease(i, j)
      PROVE  AskedItself(x)'
  <2>1. Answered(i, j, "RELEASE", {}, "LOCKED")
    BY <1>6, AnsweredBy
  <2>2. /\ inquiry' = inquiry
        /\ ~is_locked'[i]
        /\ \A k \in Clients : k # j => is_inquire_replied'[i][k] = is_inquire_replied[i][k]
        /\ \A a \in Clients : a # i =>
             /\ is_locked'[a] = is_locked[a]
             /\ locking_request'[a] = locking_request[a]
             /\ is_inquire_replied'[a] = is_inquire_replied[a]
    BY <1>6 DEF TreatLastRelease, InquiryAnswered, TypeOK
  <2>3. Count(network[j][i], "RELEASE") > 0
    BY <2>1 DEF Answered
  <2>4. Holds(j, i)
    BY <2>3, LockGivenBack DEF AllPairs
  <2>5. SameOwn(x)
    BY <2>1, AnsweredOwn
  <2>6. CASE x = i /\ x = j
    <3>1. Count(network[x][x], "INQUIRE") <= 1 /\ Count(network[x][x], "LOCKED") = 0
      BY <1>0, <2>3, <2>6, AskedGivenBack
    <3>2. ~Holds(x, x)'
      BY <2>2, <2>6 DEF Holds
    <3> QED
      BY <2>5, <3>1, <3>2 DEF AskedItself, SameOwn
  <2>7. CASE ~(x = i /\ x = j)
    <3>1. Holds(x, x)' <=> Holds(x, x)
      BY <2>2, <2>4, <2>7 DEF Holds
    <3>2. is_inquire_replied'[x][x] = is_inquire_replied[x][x]
      BY <2>2, <2>7
    <3> QED
      BY <1>0, <2>2, <2>5, <3>1, <3>2, AskedKept
  <2> QED
    BY <2>6, <2>7
<1>7. ASSUME NEW i \in Clients, NEW j \in Clients, NEW t \in {"FAILED", "LOCKED"},
             TreatReply(i, j, t)
      PROVE  AskedItself(x)'
  <2>1. CASE x = i /\ x = j /\ t = "LOCKED"
    BY <1>0, <1>7, <2>1, AskedLearns
  <2>2. CASE ~(x = i /\ x = j /\ t = "LOCKED")
    <3>1. Answered(i, j, t, {}, "LOCKED")
      BY <1>7, AnsweredBy
    <3>2. SameOwn(x)
      BY <2>2, <3>1, AnsweredOwn
    <3>3. UNCHANGED <<inquiry, arbiter>>
      BY <1>7 DEF TreatReply
    <3> QED
      BY <1>0, <3>2, <3>3, AskedKept DEF Holds, arbiter
  <2> QED
    BY <2>1, <2>2
<1>8. ASSUME NEW i \in Clients, NEW j \in Clients, TreatInquire(i, j)
      PROVE  AskedItself(x)'
  <2>1. CASE x = i /\ x = j
    BY <1>0, <1>8, <2>1, AskedTakes
  <2>2. CASE ~(x = i /\ x = j)
    <3>1. Answered(i, j, "INQUIRE", {}, "LOCKED")
      BY <1>8, AnsweredBy
    <3>2. SameOwn(x)
      BY <2>2, <3>1, AnsweredOwn
    <3>3. UNCHANGED arbiter /\ inquiry'[x][x] = inquiry[x][x]
      BY <1>8, <2>2 DEF TreatInquire, TypeOK
    <3> QED
      BY <1>0, <3>2, <3>3, AskedKept DEF Holds, arbiter
  <2> QED
    BY <2>1, <2>2
<1>9. ASSUME NEW i \in Clients, NEW j \in Clients,
             LeaveSpin(i, j) \/ SeeFailed(i, j) \/ SeeNoFailed(i, j)
      PROVE  AskedItself(x)'
  <2>1. UNCHANGED <<network, arbiter>> /\ inquiry[i][j] # "none"
    BY <1>9 DEF LeaveSpin, SeeFailed, SeeNoFailed, Continue
  <2>2. PICK h : inquiry' = [inquiry EXCEPT ![i][j] = h]
    BY <1>9 DEF LeaveSpin, SeeFailed, SeeNoFailed, Continue
  <2>3. inquiry'[x][x] # "none" => inquiry[x][x] # "none"
    BY <2>1, <2>2 DEF TypeOK
  <2>4. /\ Asked(x)' = Asked(x) /\ Answering(x)' <= Answering(x)
        /\ Answering(x) \in {0, 1} /\ Answering(x)' \in {0, 1} /\ Asked(x) \in {0, 1}
        /\ Holds(x, x)' <=> Holds(x, x)
    BY <2>1, <2>3 DEF Asked, Answering, Holds, arbiter
  <2>5. \A t : Count(network[x][x], t) \in Nat
    BY OwnCounts
  <2> QED
    BY <1>0, <2>1, <2>4, <2>5 DEF AskedItself
<1>10. ASSUME NEW i \in Clients, NEW j \in Clients, Relinquish(i, j)
       PROVE  AskedItself(x)'
  <2>1. CASE x = i /\ x = j
    BY <1>0, <1>10, <2>1, AskedGives
  <2>2. CASE ~(x = i /\ x = j)
    <3>1. Told(i, {j}, "RELINQUISH")
      BY <1>10, ToldBy
    <3>2. SameOwn(x)
      BY <2>2, <3>1, ToldOwn
    <3>3. UNCHANGED arbiter /\ inquiry'[x][x] = inquiry[x][x]
      BY <1>10, <2>2 DEF Relinquish, Continue, TypeOK
    <3> QED
      BY <1>0, <3>2, <3>3, AskedKept DEF Holds, arbiter
  <2> QED
    BY <2>1, <2>2
<1>11. CASE UNCHANGED vars
  BY <1>0, <1>11 DEF vars, arbiter, AskedItself, Asked, Answering, Holds
<1> QED
  BY <1>1, <1>2, <1>3, <1>4, <1>5, <1>6, <1>7, <1>8, <1>9, <1>10, <1>11, NoUnderflow
  DEF Next, ReceiveThread, TreatFailed, TreatLocked

\* Own and what bounds the heap of own messages hold in every behaviour.
Uncrowded == crowded \/ \A c \in Clients : Len(network[c][c]) <= 3

\* No client owes itself anything at first.
LEMMA OwnInit == Init => Own /\ Uncrowded
<1> SUFFICES ASSUME Init PROVE Own /\ Uncrowded
  OBVIOUS
<1>1. \A i, j \in Clients : network[i][j] = <<>>
  BY DEF Init
<1>2. \A i, j \in Clients : \A t : Count(network[i][j], t) = 0
  BY <1>1, CountEmpty
<1>3. \A i \in Clients : Answering(i) = 0 /\ Asked(i) = 0
  BY DEF Init, Answering, Asked
<1>4. Own
  BY <1>2, <1>3 DEF Own, AllOwn, AskedItself, RefusedOnce
<1>5. Uncrowded
  BY <1>1, EmptySeq DEF Uncrowded
<1> QED
  BY <1>4, <1>5

\* Every step tells the truth about crowded.
LEMMA Delivered ==
  ASSUME TypeOK, [Next]_vars
  PROVE  \/ Deliver(network')
         \/ network' = network /\ crowded' = crowded
<1>1. \A i \in Clients : MainThread(i) =>
        Deliver(network') \/ (network' = network /\ crowded' = crowded)
  BY DEF MainThread, RequestResource, EnterCriticalSection, ReleaseResource, Deliver
<1>2. ASSUME NEW i \in Clients, NEW j \in Clients, ReceiveThread(i, j)
      PROVE  Deliver(network') \/ (network' = network /\ crowded' = crowded)
  <2>1. CASE GiveLock(i, j) \/ RefuseLock(i, j) \/ InquireLocker(i, j) \/ AwaitInquiry(i, j)
    BY <2>1 DEF GiveLock, RefuseLock, InquireLocker, AwaitInquiry, Deliver
  <2>2. CASE TreatRelinquish(i, j) \/ TreatRelease(i, j)
    BY <2>2 DEF TreatRelinquish, TreatRelease, PassLock, Deliver
  <2>3. CASE TreatRelinquishUnderflow(i, j) \/ TreatLastRelease(i, j)
    BY <2>3 DEF TreatRelinquishUnderflow, TreatLastRelease, Deliver
  <2>4. CASE TreatFailed(i, j) \/ TreatLocked(i, j) \/ TreatInquire(i, j) \/ Relinquish(i, j)
    BY <2>4 DEF TreatFailed, TreatLocked, TreatReply, TreatInquire, Relinquish, Deliver
  <2>5. CASE LeaveSpin(i, j) \/ SeeFailed(i, j) \/ SeeNoFailed(i, j)
    BY <2>5 DEF LeaveSpin, SeeFailed, SeeNoFailed
  <2> QED
    BY <1>2, <2>1, <2>2, <2>3, <2>4, <2>5 DEF ReceiveThread
<1> QED
  BY <1>1, <1>2 DEF Next, vars

\* Every step keeps the accounts of a client with itself, until they are given up.
LEMMA OwnNext ==
  TypeOK /\ TypeOK' /\ IInv /\ Own /\ Uncrowded /\ [Next]_vars => Own' /\ Uncrowded'
<1> SUFFICES ASSUME TypeOK, TypeOK', IInv, Own, Uncrowded, [Next]_vars
             PROVE  Own' /\ Uncrowded'
  OBVIOUS
<1>1. Own'
  <2>1. fouled => fouled'
    BY OnceFouled
  <2>2. CASE fouled'
    BY <2>2 DEF Own
  <2>3. CASE ~fouled'
    <3>1. AllPairs /\ AllOwn
      BY <2>1, <2>3 DEF IInv, AllPairs, Own
    <3>2. AllOwn'
      BY <2>3, <3>1, AskedNext, RefusedNext DEF AllOwn
    <3> QED
      BY <3>2 DEF Own
  <2> QED
    BY <2>2, <2>3
<1>2. Uncrowded'
  <2>1. CASE network' = network /\ crowded' = crowded
    BY <2>1 DEF Uncrowded
  <2>2. CASE Deliver(network')
    <3>1. ASSUME ~crowded', NEW c \in Clients PROVE Len(network'[c][c]) <= 3
      <4>1. network'[c][c] \in Seq(Message)
        BY DEF TypeOK
      <4>2. Len(network'[c][c]) \in Nat
        BY <4>1, LenProperties
      <4>3. ~(Len(network'[c][c]) > 3)
        BY <2>2, <3>1 DEF Deliver, Crowd
      <4> QED
        BY <4>2, <4>3
    <3> QED
      BY <3>1 DEF Uncrowded
  <2> QED
    BY <2>1, <2>2, Delivered
<1> QED
  BY <1>1, <1>2

-----------------------------------------------------------------------------
(***************************************************************************)
(* The strategy implements AbstractMutex.                                  *)
(***************************************************************************)
phases == [i \in Clients |-> Phase(i)]

\* request_resource() and release_resource() put no fourth message into the
\* client's own message_queue.
LEMMA NeverCrowds ==
  ASSUME TypeOK, TypeOK', AllPairs, AllOwn, Uncrowded, NEW i \in Clients,
         RequestResource(i) \/ ReleaseResource(i)
  PROVE  crowded' = crowded
<1>1. PICK m \in {RequestMsg(hgst_sequence_number[i] + 1), Msg("RELEASE")} :
        network' = Send(network, i, quorum[i], m)
  BY DEF RequestResource, ReleaseResource, Deliver
<1>2. crowded' = (crowded \/ \E c \in Clients : Crowd(network'[c][c]))
  BY DEF RequestResource, ReleaseResource, Deliver
<1>3. /\ network \in Network /\ m \in Message
      /\ \A c \in Clients : network[c][c] \in Seq(Message) /\ Len(network[c][c]) \in Nat
  <2>1. m \in Message
    BY MessageTypes DEF TypeOK, MessageType
  <2>2. \A c \in Clients : network[c][c] \in Seq(Message)
    BY DEF TypeOK
  <2> QED
    BY <2>1, <2>2, LenProperties DEF TypeOK, Network
<1>4. Sent(network, network', i, quorum[i], m)
  BY <1>1, <1>3, SendLemma
<1>5. i \in quorum[i] => Len(network[i][i]) <= 2
  <2> SUFFICES ASSUME i \in quorum[i] PROVE Len(network[i][i]) <= 2
    OBVIOUS
  <2> DEFINE q == network[i][i]
  <2>1. Pair(i, i) /\ AskedItself(i) /\ RefusedOnce(i, i)
    BY DEF AllPairs, AllOwn
  <2>2. /\ \A t : Count(q, t) \in Nat
        /\ Asked(i) \in {0, 1} /\ Answering(i) \in {0, 1}
    BY OwnCounts
  <2>3. /\ Count(q, "REQUEST") = 0 /\ Count(q, "LOCKED") = 0
        /\ Count(q, "FAILED") = 0 /\ Count(q, "RELINQUISH") = 0
        /\ Count(q, "INQUIRE") <= 1 /\ Count(q, "RELEASE") <= 1
    <3>1. CASE RequestResource(i)
      <4>1. pc[i] = "idle"
        BY <3>1 DEF RequestResource
      <4>2. /\ Count(q, "REQUEST") = 0 /\ Count(q, "FAILED") = 0
            /\ ~Keeps(i, i) /\ request_reply[i][i] # "LOCKED"
        <5>1. Count(q, "FAILED") = 0
          BY <2>1, <2>2, <4>1 DEF RefusedOnce
        <5> QED
          BY <2>1, <4>1, <5>1, IdlePair
      <4>3. CASE Holds(i, i)
        <5>1. Count(q, "RELEASE") > 0
          BY <2>2, <4>2, <4>3 DEF Keeps
        <5>2. /\ Count(q, "RELEASE") = 1 /\ Count(q, "RELINQUISH") = 0
              /\ Count(q, "LOCKED") = 0
          BY <2>1, <5>1, OneClaim DEF Pair
        <5>3. Count(q, "INQUIRE") <= 1
          BY <2>1, <2>2, <5>1, AskedGivenBack
        <5> QED
          BY <4>2, <5>2, <5>3
      <4>4. CASE ~Holds(i, i)
        <5>1. /\ Count(q, "RELEASE") = 0 /\ Count(q, "RELINQUISH") = 0
              /\ Count(q, "LOCKED") = 0
          BY <2>1, <4>4, NoClaim DEF Pair
        <5>2. Count(q, "INQUIRE") <= 1
          BY <2>1, <4>4, AskedUnheld
        <5> QED
          BY <4>2, <5>1, <5>2
      <4> QED
        BY <4>3, <4>4
    <3>2. CASE ReleaseResource(i)
      <4>1. pc[i] = "critical" /\ request_reply[i][i] = "LOCKED"
        BY <2>1, <3>2 DEF ReleaseResource, Pair, HasEveryLock
      <4>2. /\ Holds(i, i) /\ Count(q, "LOCKED") = 0
            /\ Count(q, "RELINQUISH") = 0 /\ Count(q, "RELEASE") = 0
        BY <2>1, <4>1, OneClaim DEF Pair
      <4>3. Count(q, "FAILED") = 0
        BY <2>1, <4>1 DEF Pair, RefusedFirst
      <4>4. Count(q, "REQUEST") = 0
        BY <2>1, <2>2, <4>1, <4>2 DEF Pair, AtOnePlace, Keeps
      <4>5. Count(q, "INQUIRE") <= 1
        BY <2>1, <2>2, <4>2 DEF AskedItself
      <4> QED
        BY <4>2, <4>3, <4>4, <4>5
    <3> QED
      BY <3>1, <3>2
  <2>4. \A n \in Message : n.type \notin {"INQUIRE", "RELEASE"} => Count(q, n.type) = 0
    BY <2>3 DEF Message, MessageType
  <2>5. Len(q) <= Count(q, "INQUIRE") + Count(q, "RELEASE")
    BY <1>3, <2>4, LengthOfTwo
  <2>6. Len(q) \in Nat
    BY <1>3
  <2> HIDE DEF q
  <2>7. Len(q) <= 2
    BY <2>2, <2>3, <2>5, <2>6
  <2> QED
    BY <2>7 DEF q
<1>6. ASSUME ~crowded, NEW c \in Clients PROVE ~Crowd(network'[c][c])
  <2>1. CASE c = i /\ i \in quorum[i]
    <3>1. network'[i][i] = Append(network[i][i], m)
      BY <1>4, <2>1 DEF Sent
    <3>2. Len(network'[i][i]) = Len(network[i][i]) + 1
      BY <1>3, <3>1, AppendProperties
    <3>3. Len(network'[i][i]) <= 3
      BY <1>3, <1>5, <2>1, <3>2
    <3> QED
      BY <1>3, <2>1, <3>2, <3>3 DEF Crowd
  <2>2. CASE ~(c = i /\ i \in quorum[i])
    <3>1. network'[c][c] = network[c][c]
      BY <1>4, <2>2 DEF Sent
    <3> QED
      BY <1>3, <1>6, <3>1 DEF Uncrowded, Crowd
  <2> QED
    BY <2>1, <2>2
<1> QED
  BY <1>2, <1>6 DEF TypeOK

\* No client is doing anything with the file at first.
LEMMA PromiseInit == Init => Promise!Init
<1> SUFFICES ASSUME Init PROVE Promise!Init
  OBVIOUS
<1>1. \A i \in Clients : Phase(i) = "idle"
  BY DEF Init, Phase
<1> QED
  BY <1>1 DEF Init, Unsound, Promise!Init

\* Every step of the strategy is a step of AbstractMutex, withdraws the promise or
\* changes nothing of it.
LEMMA PromiseNext ==
  TypeOK /\ IInv /\ Own /\ Uncrowded /\ TypeOK' /\ ExclusiveUnlessFouled' /\ [Next]_vars
    => [Promise!Next]_(Promise!vars)
<1> SUFFICES ASSUME TypeOK, IInv, Own, Uncrowded, TypeOK', ExclusiveUnlessFouled',
                    [Next]_vars
             PROVE  [Promise!Next]_(Promise!vars)
  OBVIOUS
<1>1. Unsound \in BOOLEAN /\ Unsound' \in BOOLEAN
  BY DEF TypeOK, Unsound
<1>2. Unsound => Unsound'
  <2>1. fouled => fouled'
    BY OnceFouled
  <2>2. crowded => crowded'
    BY Delivered DEF Deliver
  <2> QED
    BY <2>1, <2>2 DEF Unsound
<1>3. ASSUME NEW i \in Clients, RequestResource(i) \/ ReleaseResource(i)
      PROVE  Unsound' = Unsound
  <2>1. fouled' = fouled
    BY <1>3 DEF RequestResource, ReleaseResource
  <2>2. CASE fouled
    BY <2>1, <2>2 DEF Unsound
  <2>3. CASE ~fouled
    <3>1. AllPairs /\ AllOwn
      BY <2>3 DEF IInv, AllPairs, Own
    <3>2. crowded' = crowded
      BY <1>3, <3>1, NeverCrowds
    <3> QED
      BY <2>1, <3>2 DEF Unsound
  <2> QED
    BY <2>2, <2>3
<1>4. ASSUME NEW i \in Clients, RequestResource(i) PROVE Promise!Request(i)
  <2>1. Phase(i) = "idle" /\ Phase(i)' = "waiting"
    BY <1>4 DEF RequestResource, TypeOK, Phase
  <2>2. ASSUME NEW j \in Clients, j # i PROVE Phase(j)' = Phase(j)
    BY <1>4, <2>2 DEF RequestResource, TypeOK, Phase
  <2> QED
    BY <1>3, <1>4, <2>1, <2>2 DEF Promise!Request
<1>5. ASSUME NEW i \in Clients, EnterCriticalSection(i) PROVE Promise!Enter(i)
  <2>1. Phase(i) = "waiting" /\ Phase(i)' = "using"
    BY <1>5 DEF EnterCriticalSection, TypeOK, Phase
  <2>2. ASSUME NEW j \in Clients, j # i PROVE Phase(j)' = Phase(j)
    BY <1>5, <2>2 DEF EnterCriticalSection, TypeOK, Phase
  <2>3. Unsound' = Unsound
    BY <1>5 DEF EnterCriticalSection, Unsound
  <2>4. ASSUME ~Unsound, NEW j \in Clients PROVE Phase(j) # "using"
    <3>1. \A c, d \in Clients : pc'[c] = "critical" /\ pc'[d] = "critical" => c = d
      BY <2>3, <2>4 DEF Unsound, ExclusiveUnlessFouled, MutualExclusion
    <3>2. /\ pc[i] = "polling" /\ pc'[i] = "critical"
          /\ j # i => pc'[j] = pc[j]
      BY <1>5 DEF EnterCriticalSection, TypeOK
    <3> QED
      BY <3>1, <3>2 DEF Phase
  <2> QED
    BY <2>1, <2>2, <2>3, <2>4 DEF Promise!Enter, Promise!Free
<1>6. ASSUME NEW i \in Clients, ReleaseResource(i) PROVE Promise!Release(i)
  <2>1. Phase(i) = "using" /\ Phase(i)' = "idle"
    BY <1>6 DEF ReleaseResource, TypeOK, Phase
  <2>2. ASSUME NEW j \in Clients, j # i PROVE Phase(j)' = Phase(j)
    BY <1>6, <2>2 DEF ReleaseResource, TypeOK, Phase
  <2> QED
    BY <1>3, <1>6, <2>1, <2>2 DEF Promise!Release
<1>7. ASSUME NEW i \in Clients, NEW j \in Clients, ReceiveThread(i, j)
      PROVE  phases' = phases
  <2>1. pc' = pc
    BY <1>7
    DEF ReceiveThread, GiveLock, RefuseLock, InquireLocker, AwaitInquiry, EnqueueRequest,
        ReceiveRequest, TreatRelinquish, TreatRelease, PassLock,
        TreatRelinquishUnderflow, TreatLastRelease, TreatFailed, TreatLocked,
        TreatReply, TreatInquire, LeaveSpin, SeeFailed, SeeNoFailed, Relinquish,
        requester
  <2> QED
    BY <2>1 DEF phases, Phase
<1>8. ASSUME UNCHANGED vars PROVE UNCHANGED <<phases, Unsound>>
  BY <1>8 DEF vars, requester, phases, Phase, Unsound
<1>9. ASSUME phases' = phases PROVE UNCHANGED Promise!vars \/ Promise!Taint
  <2>1. CASE Unsound' = Unsound
    BY <1>9, <2>1 DEF phases, Promise!vars
  <2>2. CASE Unsound' = TRUE
    BY <1>9, <2>2 DEF phases, Promise!Taint
  <2> QED
    BY <1>1, <1>2, <2>1, <2>2
<1> QED
  BY <1>4, <1>5, <1>6, <1>7, <1>8, <1>9 DEF Next, MainThread, Promise!Next

\* request_resource(), enter_critical_section() and release_resource() are the
\* steps of AbstractMutex: a client is let into the critical section only when
\* no client is in it, unless the promise was withdrawn before.
THEOREM Implements == Spec => KeepsPromise
<1> DEFINE All == TypeOK /\ TInv /\ IInv /\ Own /\ Uncrowded
<1>1. Init => All /\ Promise!Init
  BY NobodyInit, PairInit, OwnInit, PromiseInit DEF TInv
<1>2. All /\ [Next]_vars => All'
  BY TypeNext, NobodyNext, PairNext, OwnNext
<1>3. All => ExclusiveUnlessFouled
  BY ExclusiveNow
<1>4. All /\ All' /\ ExclusiveUnlessFouled' /\ [Next]_vars => [Promise!Next]_(Promise!vars)
  BY PromiseNext
<1> QED
  BY <1>1, <1>2, <1>3, <1>4, PTL DEF Spec, KeepsPromise, Promise!Spec

=============================================================================
