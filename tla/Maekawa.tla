------------------------------ MODULE Maekawa ------------------------------
(***************************************************************************)
(* MKWCriticalSectionAlgStrategy: Maekawa's quorum algorithm, for one file.*)
(*                                                                         *)
(* Every client plays two parts.  As a requester its main thread asks the  *)
(* members of its quorum for their locks (request_resource, the polling    *)
(* loop, the critical section, release_resource).  As an arbiter it has one*)
(* lock, which its receive threads give to one requester at a time         *)
(* (treat_message).  A block between g_mutex.lock() and g_mutex.unlock() is*)
(* one action.  treat_inquire_message() is four of them: it takes the      *)
(* message, spins until the outcome of its own request is known, looks at  *)
(* the outcome again, and answers; meanwhile its receive thread takes no   *)
(* other message of the same sender.                                       *)
(*                                                                         *)
(* A client's messages to itself go through message_queue, a heap, instead *)
(* of a socket.  Those of one file are handed out in the order of sending  *)
(* as long as no more than three are in the heap (module OwnQueue): here   *)
(* they are a stream, and nothing is claimed once there were more.         *)
(***************************************************************************)
EXTENDS Integers, Sequences, FiniteSets

CONSTANTS
  N,             \* number of clients, getNClients()
  n_requests,    \* [i]: commands for the file in i's input file
  quorum,        \* [i]: the clients on line i of the quorum configuration
  fresh_memory   \* what the uninitialised is_locked may hold at first

Clients == 0 .. N - 1

ASSUME NAssumption == N \in Nat
ASSUME RequestsAssumption == n_requests \in [Clients -> Nat]
ASSUME QuorumAssumption ==
  /\ quorum \in [Clients -> SUBSET Clients]
  /\ \A i, j \in Clients : quorum[i] \cap quorum[j] # {}
ASSUME MemoryAssumption == fresh_memory \subseteq BOOLEAN

VARIABLES
  \* The requester.
  our_sequence_number,   \* [i]: number of i's latest request
  request_reply,         \* [i][j]: what j last told i about its lock
  pc,                    \* [i]: where i's main thread is
  n_requested_requests,  \* [i]: requests i has made so far
  inquiry,               \* [i][j]: how far i's receive thread for j is in
                         \*   treat_inquire_message()
  \* The arbiter.
  hgst_sequence_number,  \* [i]: highest number seen in a REQUEST
  is_locked,             \* [i]
  locking_request,       \* [i]: the request that has i's lock
  waiting_queue,         \* [i]: the requests that wait for i's lock
  is_inquire_replied,    \* [i][j]: no INQUIRE to j is pending
  \* The environment.
  killed,                \* [i]: i's process has ended before its time
  network,               \* [i][j]: messages from i to j, in order
  fouled,                \* history: a lock was given back that was not held
                         \*   for a waiting request
  crowded                \* history: a client had four messages to itself

requester == <<our_sequence_number, request_reply, pc, n_requested_requests>>
arbiter == <<hgst_sequence_number, is_locked, locking_request, waiting_queue,
             is_inquire_replied>>
vars == <<requester, inquiry, arbiter, killed, network, fouled, crowded>>

-----------------------------------------------------------------------------
\* Only the number of a REQUEST is ever read.
Msg(t) == [type |-> t, seq |-> 0]
RequestMsg(s) == [type |-> "REQUEST", seq |-> s]

MessageType ==
  {"REQUEST", "LOCKED", "FAILED", "INQUIRE", "RELINQUISH", "RELEASE"}
Message == [type : MessageType, seq : Nat]

ReplyType == {"NONE", "WAITING", "FAILED", "LOCKED"}

\* Idle, in the polling loop, or in the critical section.
Location == {"idle", "polling", "critical"}

\* In treat_inquire_message(): not in it, in the loop on
\* can_determine_inquire_result(), past the loop, and past received_failed().
Inquiry == {"none", "spinning", "determined", "relinquishing"}

NoClient == -1
ARequest(s, j) == [seq |-> s, sender |-> j]
NoRequest == ARequest(0, NoClient)

\* PacketComparator: request r comes after request q.
After(r, q) ==
  \/ r.seq > q.seq
  \/ r.seq = q.seq /\ r.sender > q.sender

\* waiting_queue.top() of a non-empty queue.
Top(Q) == CHOOSE r \in Q : \A q \in Q : ~After(r, q)

Init ==
  /\ our_sequence_number = [i \in Clients |-> 0]
  /\ request_reply = [i \in Clients |-> [j \in Clients |-> "NONE"]]
  /\ pc = [i \in Clients |-> "idle"]
  /\ n_requested_requests = [i \in Clients |-> 0]
  /\ inquiry = [i \in Clients |-> [j \in Clients |-> "none"]]
  /\ hgst_sequence_number = [i \in Clients |-> 0]
  /\ is_locked \in [Clients -> fresh_memory]
  /\ locking_request = [i \in Clients |-> NoRequest]
  /\ waiting_queue = [i \in Clients |-> {}]
  /\ is_inquire_replied = [i \in Clients |-> [j \in Clients |-> TRUE]]
  /\ killed = [i \in Clients |-> FALSE]
  /\ network = [i \in Clients |-> [j \in Clients |-> <<>>]]
  /\ fouled = FALSE
  /\ crowded = FALSE

-----------------------------------------------------------------------------
(***************************************************************************)
(* The network net after i sent m to the clients of dests, and after i took*)
(* the next message from j.                                                *)
(***************************************************************************)
Send(net, i, dests, m) ==
  [net EXCEPT ![i] =
    [j \in Clients |-> IF j \in dests THEN Append(net[i][j], m) ELSE net[i][j]]]

Take(net, i, j) == [net EXCEPT ![j][i] = Tail(@)]

\* message_queue may not hand the messages q out in the order of sending.
Crowd(q) == Len(q) > 3

\* The messages under way become net.
Deliver(net) ==
  /\ network' = net
  /\ crowded' = (crowded \/ \E i \in Clients : Crowd(net[i][i]))

-----------------------------------------------------------------------------
(***************************************************************************)
(* The requester's main thread.                                            *)
(***************************************************************************)

\* A variant that is off by one.
HasRequestOrLast(i) == n_requested_requests[i] <= n_requests[i]

\* There is one more command for the file in i's input file.
HasRequest(i) == n_requested_requests[i] < n_requests[i]

RequestResource(i) ==
  LET s == hgst_sequence_number[i] + 1 IN
  /\ pc[i] = "idle"
  /\ HasRequest(i)
  /\ n_requested_requests' = [n_requested_requests EXCEPT ![i] = @ + 1]
  /\ our_sequence_number' = [our_sequence_number EXCEPT ![i] = s]
  /\ request_reply' = [request_reply EXCEPT ![i] =
       [j \in Clients |-> IF j \in quorum[i] THEN "WAITING" ELSE @[j]]]
  /\ Deliver(Send(network, i, quorum[i], RequestMsg(s)))
  /\ pc' = [pc EXCEPT ![i] = "polling"]
  /\ UNCHANGED <<inquiry, arbiter, killed, fouled>>

\* A variant that looks for a refusal only.
received_no_failed(i) == \A j \in quorum[i] : request_reply[i][j] # "FAILED"

received_all_locked(i) == \A j \in quorum[i] : request_reply[i][j] = "LOCKED"

received_failed(i) == \E j \in quorum[i] : request_reply[i][j] = "FAILED"

\* can_enter_critical_section() answers yes.  Nothing the strategy keeps says
\* that the client is in its critical section from now on.
EnterCriticalSection(i) ==
  /\ pc[i] = "polling"
  /\ received_all_locked(i)
  /\ pc' = [pc EXCEPT ![i] = "critical"]
  /\ UNCHANGED <<our_sequence_number, request_reply, n_requested_requests,
                 inquiry, arbiter, killed, network, crowded, fouled>>

\* A variant that leaves the client's own lock taken.
ReleaseToOthers(i) ==
  /\ pc[i] = "critical"
  /\ request_reply' = [request_reply EXCEPT ![i] =
       [j \in Clients |-> IF j \in quorum[i] THEN "NONE" ELSE @[j]]]
  /\ Deliver(Send(network, i, quorum[i] \ {i}, Msg("RELEASE")))
  /\ pc' = [pc EXCEPT ![i] = "idle"]
  /\ UNCHANGED <<our_sequence_number, n_requested_requests, inquiry, arbiter,
                 killed, fouled>>

ReleaseResource(i) ==
  /\ pc[i] = "critical"
  /\ request_reply' = [request_reply EXCEPT ![i] =
       [j \in Clients |-> IF j \in quorum[i] THEN "NONE" ELSE @[j]]]
  /\ Deliver(Send(network, i, quorum[i], Msg("RELEASE")))
  /\ pc' = [pc EXCEPT ![i] = "idle"]
  /\ UNCHANGED <<our_sequence_number, n_requested_requests, inquiry, arbiter,
                 killed, fouled>>

-----------------------------------------------------------------------------
(***************************************************************************)
(* i's receive thread for j, as an arbiter.                                *)
(***************************************************************************)

\* The thread is free and message type t is next from j.
Arrives(i, j, t) ==
  /\ ~killed[i]
  /\ inquiry[i][j] = "none"
  /\ network[j][i] # <<>>
  /\ Head(network[j][i]).type = t

Incoming(i, j) == ARequest(Head(network[j][i]).seq, j)

\* Common to the outcomes of treat_request_message().
ReceiveRequest(i, j) ==
  /\ Arrives(i, j, "REQUEST")
  /\ hgst_sequence_number' = [hgst_sequence_number EXCEPT
       ![i] = IF Incoming(i, j).seq > @ THEN Incoming(i, j).seq ELSE @]
  /\ UNCHANGED <<requester, inquiry, killed, fouled>>

\* A variant that does not test is_locked.
GiveLockAlways(i, j) ==
  /\ ReceiveRequest(i, j)
  /\ is_locked' = [is_locked EXCEPT ![i] = TRUE]
  /\ locking_request' = [locking_request EXCEPT ![i] = Incoming(i, j)]
  /\ Deliver(Send(Take(network, i, j), i, {j}, Msg("LOCKED")))
  /\ UNCHANGED <<waiting_queue, is_inquire_replied>>

GiveLock(i, j) ==
  /\ ReceiveRequest(i, j)
  /\ ~is_locked[i]
  /\ is_locked' = [is_locked EXCEPT ![i] = TRUE]
  /\ locking_request' = [locking_request EXCEPT ![i] = Incoming(i, j)]
  /\ Deliver(Send(Take(network, i, j), i, {j}, Msg("LOCKED")))
  /\ UNCHANGED <<waiting_queue, is_inquire_replied>>

\* A variant that forgets to push the request.
EnqueueNothing(i, j) ==
  /\ ReceiveRequest(i, j)
  /\ is_locked[i]
  /\ UNCHANGED <<waiting_queue, is_locked, locking_request>>

EnqueueRequest(i, j) ==
  /\ ReceiveRequest(i, j)
  /\ is_locked[i]
  /\ waiting_queue' = [waiting_queue EXCEPT ![i] = @ \union {Incoming(i, j)}]
  /\ UNCHANGED <<is_locked, locking_request>>

\* The request comes after the one that has the lock or one that waits for it.
ComesLater(i, r) ==
  \/ After(r, locking_request[i])
  \/ \E q \in waiting_queue[i] : After(r, q)

RefuseLock(i, j) ==
  /\ EnqueueRequest(i, j)
  /\ ComesLater(i, Incoming(i, j))
  /\ Deliver(Send(Take(network, i, j), i, {j}, Msg("FAILED")))
  /\ UNCHANGED is_inquire_replied

\* The request goes before all others: ask the client that has the lock for it,
\* unless it was asked already.
InquireLocker(i, j) ==
  LET k == locking_request[i].sender IN
  /\ EnqueueRequest(i, j)
  /\ ~ComesLater(i, Incoming(i, j))
  /\ is_inquire_replied[i][k]
  /\ is_inquire_replied' = [is_inquire_replied EXCEPT ![i][k] = FALSE]
  /\ Deliver(Send(Take(network, i, j), i, {k}, Msg("INQUIRE")))

AwaitInquiry(i, j) ==
  /\ EnqueueRequest(i, j)
  /\ ~ComesLater(i, Incoming(i, j))
  /\ ~is_inquire_replied[i][locking_request[i].sender]
  /\ Deliver(Take(network, i, j))
  /\ UNCHANGED is_inquire_replied

\* A variant that takes no note of the answer.
InquiryUnanswered(i, j) == UNCHANGED is_inquire_replied

InquiryAnswered(i, j) ==
  is_inquire_replied' = [is_inquire_replied EXCEPT ![i][j] = TRUE]

\* The lock goes to the first waiting request; neither handler looks at who
\* had it.
PassLock(i, j, requeued) ==
  LET r == Top(waiting_queue[i]) IN
  /\ waiting_queue' = [waiting_queue EXCEPT ![i] = (@ \ {r}) \union requeued]
  /\ locking_request' = [locking_request EXCEPT ![i] = r]
  /\ InquiryAnswered(i, j)
  /\ Deliver(Send(Take(network, i, j), i, {r.sender}, Msg("LOCKED")))
  /\ UNCHANGED <<requester, inquiry, hgst_sequence_number, is_locked, killed,
                 fouled>>

\* A variant that does not queue the request that had the lock.
TreatRelinquishForgetting(i, j) ==
  /\ Arrives(i, j, "RELINQUISH")
  /\ waiting_queue[i] # {}
  /\ PassLock(i, j, {})

\* A variant that queues locking_request after it has changed.
TreatRelinquishSwapped(i, j) ==
  /\ Arrives(i, j, "RELINQUISH")
  /\ waiting_queue[i] # {}
  /\ PassLock(i, j, {Top(waiting_queue[i])})

TreatRelinquish(i, j) ==
  /\ Arrives(i, j, "RELINQUISH")
  /\ waiting_queue[i] # {}
  /\ PassLock(i, j, {locking_request[i]})

\* top() and pop() of an empty priority queue have no defined behaviour: the
\* process does not go on.
TreatRelinquishUnderflow(i, j) ==
  /\ Arrives(i, j, "RELINQUISH")
  /\ waiting_queue[i] = {}
  /\ killed' = [killed EXCEPT ![i] = TRUE]
  /\ Deliver(Take(network, i, j))
  /\ UNCHANGED <<requester, inquiry, arbiter, fouled>>

TreatRelease(i, j) ==
  /\ Arrives(i, j, "RELEASE")
  /\ waiting_queue[i] # {}
  /\ PassLock(i, j, {})

TreatLastRelease(i, j) ==
  /\ Arrives(i, j, "RELEASE")
  /\ waiting_queue[i] = {}
  /\ is_locked' = [is_locked EXCEPT ![i] = FALSE]
  /\ locking_request' = [locking_request EXCEPT ![i].sender = NoClient]
  /\ InquiryAnswered(i, j)
  /\ Deliver(Take(network, i, j))
  /\ UNCHANGED <<requester, inquiry, hgst_sequence_number, waiting_queue,
                 killed, fouled>>

-----------------------------------------------------------------------------
(***************************************************************************)
(* i's receive thread for j, as a requester.                               *)
(***************************************************************************)
TreatReply(i, j, t) ==
  /\ Arrives(i, j, t)
  /\ request_reply' = [request_reply EXCEPT ![i][j] = t]
  /\ Deliver(Take(network, i, j))
  /\ UNCHANGED <<our_sequence_number, pc, n_requested_requests, inquiry,
                 arbiter, killed, fouled>>

TreatFailed(i, j) == TreatReply(i, j, "FAILED")
TreatLocked(i, j) == TreatReply(i, j, "LOCKED")

TreatInquire(i, j) ==
  /\ Arrives(i, j, "INQUIRE")
  /\ inquiry' = [inquiry EXCEPT ![i][j] = "spinning"]
  /\ Deliver(Take(network, i, j))
  /\ UNCHANGED <<requester, arbiter, killed, fouled>>

\* The thread goes on in treat_inquire_message().
Continue(i, j, here, there) ==
  /\ ~killed[i]
  /\ inquiry[i][j] = here
  /\ inquiry' = [inquiry EXCEPT ![i][j] = there]

can_determine_inquire_result(i) == received_failed(i) \/ received_all_locked(i)

LeaveSpin(i, j) ==
  /\ Continue(i, j, "spinning", "determined")
  /\ can_determine_inquire_result(i)
  /\ UNCHANGED <<requester, arbiter, killed, network, crowded, fouled>>

\* A FAILED that ended the loop may have become LOCKED since.
SeeFailed(i, j) ==
  /\ Continue(i, j, "determined", "relinquishing")
  /\ received_failed(i)
  /\ UNCHANGED <<requester, arbiter, killed, network, crowded, fouled>>

SeeNoFailed(i, j) ==
  /\ Continue(i, j, "determined", "none")
  /\ ~received_failed(i)
  /\ UNCHANGED <<requester, arbiter, killed, network, crowded, fouled>>

\* A variant that keeps the lock it gives back.
RelinquishAndKeep(i, j) ==
  /\ Continue(i, j, "relinquishing", "none")
  /\ Deliver(Send(network, i, {j}, Msg("RELINQUISH")))
  /\ fouled' = (fouled \/ pc[i] # "polling" \/ request_reply[i][j] # "LOCKED")
  /\ UNCHANGED <<requester, arbiter, killed>>

\* The lock of j goes back, whatever has happened since j asked for it: the
\* answer is right only if i holds the lock and still waits for others.
Relinquish(i, j) ==
  /\ Continue(i, j, "relinquishing", "none")
  /\ request_reply' = [request_reply EXCEPT ![i][j] = "FAILED"]
  /\ Deliver(Send(network, i, {j}, Msg("RELINQUISH")))
  /\ fouled' = (fouled \/ pc[i] # "polling" \/ request_reply[i][j] # "LOCKED")
  /\ UNCHANGED <<our_sequence_number, pc, n_requested_requests, arbiter,
                 killed>>

-----------------------------------------------------------------------------
MainThread(i) ==
  /\ ~killed[i]
  /\ \/ RequestResource(i)
     \/ EnterCriticalSection(i)
     \/ ReleaseResource(i)

ReceiveThread(i, j) ==
  \/ GiveLock(i, j)
  \/ RefuseLock(i, j)
  \/ InquireLocker(i, j)
  \/ AwaitInquiry(i, j)
  \/ TreatRelinquish(i, j)
  \/ TreatRelinquishUnderflow(i, j)
  \/ TreatRelease(i, j)
  \/ TreatLastRelease(i, j)
  \/ TreatFailed(i, j)
  \/ TreatLocked(i, j)
  \/ TreatInquire(i, j)
  \/ LeaveSpin(i, j)
  \/ SeeFailed(i, j)
  \/ SeeNoFailed(i, j)
  \/ Relinquish(i, j)

Next ==
  \E i \in Clients :
    \/ MainThread(i)
    \/ \E j \in Clients : ReceiveThread(i, j)

\* Every thread keeps running.
Fairness ==
  \A i \in Clients :
    /\ WF_vars(MainThread(i))
    /\ \A j \in Clients : WF_vars(ReceiveThread(i, j))

Spec == Init /\ [][Next]_vars

FairSpec == Spec /\ Fairness

-----------------------------------------------------------------------------
(***************************************************************************)
(* Properties.                                                             *)
(***************************************************************************)

\* Every variable has the type its declaration in
\* MKWCriticalSectionAlgStrategy.h gives it, and a client makes no more
\* requests than its input file has commands for the file.
TypeOK ==
  /\ our_sequence_number \in [Clients -> Nat]
  /\ request_reply \in [Clients -> [Clients -> ReplyType]]
  /\ pc \in [Clients -> Location]
  /\ n_requested_requests \in [Clients -> Nat]
  /\ inquiry \in [Clients -> [Clients -> Inquiry]]
  /\ hgst_sequence_number \in [Clients -> Nat]
  /\ is_locked \in [Clients -> BOOLEAN]
  /\ locking_request \in
       [Clients -> [seq : Nat, sender : Clients \union {NoClient}]]
  /\ waiting_queue \in [Clients -> SUBSET [seq : Nat, sender : Clients]]
  /\ is_inquire_replied \in [Clients -> [Clients -> BOOLEAN]]
  /\ killed \in [Clients -> BOOLEAN]
  /\ network \in [Clients -> [Clients -> Seq(Message)]]
  /\ fouled \in BOOLEAN
  /\ crowded \in BOOLEAN
  /\ \A i \in Clients : n_requested_requests[i] <= n_requests[i]

\* The promise of README.md: one client at a time reads or writes the file.
MutualExclusion ==
  \A i, j \in Clients : pc[i] = "critical" /\ pc[j] = "critical" => i = j

\* What follows holds as long as no lock was given back that was not held for a
\* waiting request, and messages are treated in the order of sending.
Unsound == fouled \/ crowded

\* The promise as the code keeps it: two clients are never in
\* enter_critical_section() together unless treat_inquire_message() gave a lock
\* back that it did not hold for a waiting request, or own messages piled up.
ExclusiveUnlessFouled == Unsound \/ MutualExclusion

\* How many messages of type t are on their way from i to j.
InFlight(i, j, t) ==
  Cardinality({k \in 1 .. Len(network[i][j]) : network[i][j][k].type = t})

OurRequest(i) == ARequest(our_sequence_number[i], i)

Holds(i, a) == is_locked[a] /\ locking_request[a].sender = i

\* Where i's request to arbiter a is: on its way, in waiting_queue, or with the
\* lock, unless a RELEASE is on its way that gives the lock up.
Whereabouts(i, a) == {p \in {"network", "queue", "lock"} :
  \/ p = "network" /\ InFlight(i, a, "REQUEST") > 0
  \/ p = "queue" /\ \E r \in waiting_queue[a] : r.sender = i
  \/ p = "lock" /\ Holds(i, a) /\ locking_request[a] = OurRequest(i)
                 /\ InFlight(i, a, "RELEASE") = 0}

\* A request is never lost and never left over: while its client waits it is at
\* one place of each arbiter of the quorum, while the client uses the file it
\* has every lock, and afterwards it is nowhere: a lock that is still taken is
\* about to be released.
RequestKept ==
  Unsound \/ \A i, a \in Clients :
    IF a \in quorum[i] /\ pc[i] = "polling"
      THEN \E p \in {"network", "queue", "lock"} : Whereabouts(i, a) = {p}
    ELSE IF a \in quorum[i] /\ pc[i] = "critical"
      THEN Whereabouts(i, a) = {"lock"}
    ELSE Whereabouts(i, a) = {}

\* The tokens for a's lock that i has or that travel between the two: a LOCKED
\* that was sent, one that was treated, and a RELINQUISH or RELEASE.
Claims(i, a) ==
  InFlight(a, i, "LOCKED") + InFlight(i, a, "RELINQUISH")
    + InFlight(i, a, "RELEASE") + IF request_reply[i][a] = "LOCKED" THEN 1 ELSE 0

\* The arbiter and the requesters agree on who has the lock: there is one claim
\* to it, of the sender of locking_request, and none to a lock that is free.
\* treat_release_message() and treat_relinquish_message() pass the lock on
\* without a look at who gives it back, so nothing else keeps the two in step.
LockAccounted ==
  Unsound \/ \A i, a \in Clients : Claims(i, a) = IF Holds(i, a) THEN 1 ELSE 0

\* treat_relinquish_message() calls top() and pop() without a test: whenever a
\* RELINQUISH is on its way there is a request to pass the lock to, and it goes
\* before the one that gives the lock up.
RelinquishedForEarlier ==
  Unsound \/ \A i, a \in Clients :
    InFlight(i, a, "RELINQUISH") > 0
      => \E r \in waiting_queue[a] : After(OurRequest(i), r)

\* An arbiter that waits for the answer to an INQUIRE waits for the client that
\* has its lock: no entry of is_inquire_replied stays false for a client that
\* gave the lock back and answers no more.
InquiryConcernsLocker ==
  Unsound \/ \A a, i \in Clients : ~is_inquire_replied[a][i] => Holds(i, a)

\* waiting_queue.push() never pushes a request that is there already or that has
\* the lock.  The numbers alone do not see to that: a client that is not in its
\* own quorum may use a number twice, and so may any client after a stale
\* RELINQUISH, when the same request can indeed be queued twice.
QueueIsASet ==
  Unsound \/ \A i, j \in Clients :
    /\ locking_request[i] \notin waiting_queue[i]
    /\ Arrives(i, j, "REQUEST") =>
         Incoming(i, j) \notin waiting_queue[i] \union {locking_request[i]}

\* What the strategy promises to the client, AbstractMutex, is what it does.
Phase(i) ==
  CASE pc[i] = "critical" -> "using"
    [] pc[i] = "polling" -> "waiting"
    [] OTHER -> "idle"

Promise == INSTANCE AbstractMutex WITH
  phase <- [i \in Clients |-> Phase(i)],
  tainted <- Unsound

\* request_resource(), enter_critical_section() and release_resource()
\* implement the steps of AbstractMutex; every other block is a stutter or
\* withdraws the promise.
KeepsPromise == Promise!Spec

\* Every request gets all locks of its quorum in the end: the loop on
\* can_enter_critical_section() ends, and so does the client process.
RequestServed ==
  \A i \in Clients : pc[i] = "polling" ~> pc[i] = "critical"

\* i's receive thread for j is in the loop of treat_inquire_message(), and another
\* message of j waits behind it.  The outcome of i's request may depend on that
\* message, or i has given the lock back already and has no request at all.
Blocked(i, j) == inquiry[i][j] = "spinning" /\ network[j][i] # <<>>

\* i's request waits at a behind an earlier one that came after it: i was not
\* refused then, and nobody tells it now.
Displaced(i, a) ==
  /\ pc[i] = "polling"
  /\ a \in quorum[i]
  /\ request_reply[i][a] = "WAITING"
  /\ InFlight(a, i, "FAILED") = 0
  /\ OurRequest(i) \in waiting_queue[a]
  /\ \E r \in waiting_queue[a] \union {locking_request[a]} : After(OurRequest(i), r)

\* j has asked i for its lock back, and i does not answer for want of a refusal.
Unrefused(i, j) ==
  /\ inquiry[i][j] = "spinning"
  /\ request_reply[i][j] = "LOCKED"
  /\ \E a \in quorum[i] : Displaced(i, a)

\* j waits for an answer to an INQUIRE that i has forgotten: the FAILED that ended
\* the loop had become LOCKED at the second look, although i still lacks a lock.
Dropped(i, j) ==
  /\ ~is_inquire_replied[j][i]
  /\ InFlight(j, i, "INQUIRE") = 0
  /\ inquiry[i][j] = "none"
  /\ pc[i] = "polling"
  /\ request_reply[i][j] = "LOCKED"

\* In a behaviour that never becomes Unsound (no lock is given back that is not
\* held, and nobody has four own messages), three things can keep a request from
\* being served, each of them in the handling of INQUIRE: a loop that holds up the
\* messages behind it (line 174), a loop that waits for a FAILED that was never
\* sent (line 145), and an INQUIRE that is dropped (line 193).  If each of them
\* always comes to an end, every request is served; each alone can last for ever.
\* (MKWCriticalSectionAlgStrategy.cpp 122-197)
ServedUnlessInquiryFails ==
  /\ \A i, j \in Clients : /\ []<>~Blocked(i, j)
                           /\ []<>~Unrefused(i, j)
                           /\ []<>~Dropped(i, j)
  /\ []~Unsound
  => RequestServed

=============================================================================
