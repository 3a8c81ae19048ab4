--------------------------- MODULE RicartAgrawala ---------------------------
(***************************************************************************)
(* RACriticalSectionAlgStrategy: the Ricart-Agrawala algorithm with the    *)
(* optimisation of Roucairol and Carvalho, for one file.                   *)
(*                                                                         *)
(* Every client runs one strategy object per file, shared by its main      *)
(* thread (request_resource, the polling loop, the critical section,       *)
(* release_resource) and by one receive thread per other client            *)
(* (treat_message).  A block between g_mutex.lock() and g_mutex.unlock() is*)
(* one action.  What happens between two such blocks is visible: the answer*)
(* of can_enter_critical_section() is used after the mutex was dropped.    *)
(*                                                                         *)
(* Clients are numbered because the numbers break ties between requests.   *)
(***************************************************************************)
EXTENDS Integers, Sequences

CONSTANTS
  N,           \* number of clients, getNClients()
  n_requests   \* read and write commands in each client's input file

ASSUME NAssumption == N \in Nat
ASSUME RequestsAssumption == n_requests \in Nat

Clients == 0 .. N - 1

Others(i) == Clients \ {i}

VARIABLES
  our_sequence_number,   \* [i]: number of i's latest request
  hgst_sequence_number,  \* [i]: highest number seen in a REQUEST
  A,                     \* [i][j]: i holds j's permission
  is_using,              \* [i]
  is_waiting,            \* [i]
  reply_deferred,        \* [i][j]: i owes j a REPLY
  pc,                    \* [i]: where i's main thread is
  n_requested_requests,  \* [i]: requests i has made so far
  network,               \* [i][j]: TCP stream from i to j
  overtaken              \* history: a permission left between check and entry

state == <<our_sequence_number, hgst_sequence_number, A, is_using, is_waiting,
           reply_deferred>>
vars == <<state, pc, n_requested_requests, network, overtaken>>

(***************************************************************************)
(* Messages.  A REPLY also carries the sender's sequence number; the       *)
(* receiver never reads it.                                                *)
(***************************************************************************)
Request(s) == [type |-> "REQUEST", seq |-> s]
Reply == [type |-> "REPLY", seq |-> 0]

Message == [type : {"REQUEST", "REPLY"}, seq : Nat]

\* The main thread: between requests, in the loop on
\* can_enter_critical_section(), between that loop and
\* enter_critical_section(), and in client->enterCriticalSection().
Location == {"idle", "polling", "entering", "critical"}

Init ==
  /\ our_sequence_number = [i \in Clients |-> 0]
  /\ hgst_sequence_number = [i \in Clients |-> 0]
  /\ A = [i \in Clients |-> [j \in Clients |-> FALSE]]
  /\ is_using = [i \in Clients |-> FALSE]
  /\ is_waiting = [i \in Clients |-> FALSE]
  /\ reply_deferred = [i \in Clients |-> [j \in Clients |-> FALSE]]
  /\ pc = [i \in Clients |-> "idle"]
  /\ n_requested_requests = [i \in Clients |-> 0]
  /\ network = [i \in Clients |-> [j \in Clients |-> <<>>]]
  /\ overtaken = FALSE

-----------------------------------------------------------------------------
(***************************************************************************)
(* The main thread.                                                        *)
(***************************************************************************)

\* The streams of client i after it sent m to every client of dests.
Multicast(i, dests, m) ==
  [j \in Clients |->
     IF j \in dests THEN Append(network[i][j], m) ELSE network[i][j]]

\* A variant that counts its own requests only.
NextOwnNumber(i) == our_sequence_number[i] + 1

NextNumber(i) == hgst_sequence_number[i] + 1

\* A variant that forgets which permissions are held already.
MissingAll(i) == Others(i)

\* A REQUEST goes to the clients whose permission i lacks.
Missing(i) == {j \in Others(i) : ~A[i][j]}

RequestResource(i) ==
  /\ pc[i] = "idle"
  /\ n_requested_requests[i] < n_requests
  /\ n_requested_requests' = [n_requested_requests EXCEPT ![i] = @ + 1]
  /\ is_waiting' = [is_waiting EXCEPT ![i] = TRUE]
  /\ our_sequence_number' = [our_sequence_number EXCEPT ![i] = NextNumber(i)]
  /\ network' = [network EXCEPT
                   ![i] = Multicast(i, Missing(i), Request(NextNumber(i)))]
  /\ pc' = [pc EXCEPT ![i] = "polling"]
  /\ UNCHANGED <<hgst_sequence_number, A, is_using, reply_deferred, overtaken>>

\* A variant whose loop starts at 1.
HoldsAllButFirst(i) == \A j \in Others(i) : j > 0 => A[i][j]

HoldsAll(i) == \A j \in Others(i) : A[i][j]

\* can_enter_critical_section() answers yes and drops the mutex; an answer
\* no changes nothing and the loop asks again.
CanEnterCriticalSection(i) ==
  /\ pc[i] = "polling"
  /\ HoldsAll(i)
  /\ pc' = [pc EXCEPT ![i] = "entering"]
  /\ UNCHANGED <<state, n_requested_requests, network, overtaken>>

\* A variant that leaves is_waiting set.
EnterStillWaiting(i) ==
  /\ pc[i] = "entering"
  /\ is_using' = [is_using EXCEPT ![i] = TRUE]
  /\ pc' = [pc EXCEPT ![i] = "critical"]
  /\ UNCHANGED <<our_sequence_number, hgst_sequence_number, A, is_waiting,
                 reply_deferred, n_requested_requests, network, overtaken>>

EnterCriticalSection(i) ==
  /\ pc[i] = "entering"
  /\ is_waiting' = [is_waiting EXCEPT ![i] = FALSE]
  /\ is_using' = [is_using EXCEPT ![i] = TRUE]
  /\ pc' = [pc EXCEPT ![i] = "critical"]
  /\ UNCHANGED <<our_sequence_number, hgst_sequence_number, A, reply_deferred,
                 n_requested_requests, network, overtaken>>

\* A variant whose loop starts after ME.
OwedAfterMe(i) == {j \in Others(i) : j > i /\ reply_deferred[i][j]}

Owed(i) == {j \in Others(i) : reply_deferred[i][j]}

\* A variant that answers the deferred requests and keeps the permissions.
ReleaseKeepingPermissions(i) ==
  /\ pc[i] = "critical"
  /\ is_using' = [is_using EXCEPT ![i] = FALSE]
  /\ reply_deferred' = [reply_deferred EXCEPT
       ![i] = [j \in Clients |-> reply_deferred[i][j] /\ j \notin Owed(i)]]
  /\ network' = [network EXCEPT ![i] = Multicast(i, Owed(i), Reply)]
  /\ pc' = [pc EXCEPT ![i] = "idle"]
  /\ UNCHANGED <<our_sequence_number, hgst_sequence_number, A, is_waiting,
                 n_requested_requests, overtaken>>

ReleaseResource(i) ==
  /\ pc[i] = "critical"
  /\ is_using' = [is_using EXCEPT ![i] = FALSE]
  /\ A' = [A EXCEPT ![i] = [j \in Clients |-> A[i][j] /\ j \notin Owed(i)]]
  /\ reply_deferred' = [reply_deferred EXCEPT
       ![i] = [j \in Clients |-> reply_deferred[i][j] /\ j \notin Owed(i)]]
  /\ network' = [network EXCEPT ![i] = Multicast(i, Owed(i), Reply)]
  /\ pc' = [pc EXCEPT ![i] = "idle"]
  /\ UNCHANGED <<our_sequence_number, hgst_sequence_number, is_waiting,
                 n_requested_requests, overtaken>>

-----------------------------------------------------------------------------
(***************************************************************************)
(* Client i's receive thread for client j.                                 *)
(***************************************************************************)

\* Message type t is next on the stream from j to i.
Arrives(i, j, t) ==
  /\ network[j][i] # <<>>
  /\ Head(network[j][i]).type = t

\* i takes the next message of j and answers with the messages of out.
Exchange(i, j, out) ==
  network' = [network EXCEPT ![j][i] = Tail(@), ![i][j] = @ \o out]

TreatReply(i, j) ==
  /\ Arrives(i, j, "REPLY")
  /\ A' = [A EXCEPT ![i][j] = TRUE]
  /\ Exchange(i, j, <<>>)
  /\ UNCHANGED <<our_sequence_number, hgst_sequence_number, is_using,
                 is_waiting, reply_deferred, pc, n_requested_requests,
                 overtaken>>

\* A variant without the tie-break by client number.
OurPriorityByNumber(i, j, s) == s > our_sequence_number[i]

\* i's latest request goes before a request numbered s from j.
OurPriority(i, j, s) ==
  \/ s > our_sequence_number[i]
  \/ s = our_sequence_number[i] /\ j > i

Theirs(i, j) == Head(network[j][i]).seq

\* Common to the three outcomes of treat_request_message.
ReceiveRequest(i, j) ==
  /\ Arrives(i, j, "REQUEST")
  /\ hgst_sequence_number' = [hgst_sequence_number EXCEPT
       ![i] = IF Theirs(i, j) > @ THEN Theirs(i, j) ELSE @]
  /\ UNCHANGED <<our_sequence_number, is_using, is_waiting, pc,
                 n_requested_requests>>

\* A variant that defers while waiting, whatever the priority.
DeferAlways(i, j) ==
  /\ ReceiveRequest(i, j)
  /\ is_using[i] \/ is_waiting[i]
  /\ reply_deferred' = [reply_deferred EXCEPT ![i][j] = TRUE]
  /\ Exchange(i, j, <<>>)
  /\ UNCHANGED <<A, overtaken>>

\* The request waits until i has used the file.
DeferReply(i, j) ==
  /\ ReceiveRequest(i, j)
  /\ is_using[i] \/ (is_waiting[i] /\ OurPriority(i, j, Theirs(i, j)))
  /\ reply_deferred' = [reply_deferred EXCEPT ![i][j] = TRUE]
  /\ Exchange(i, j, <<>>)
  /\ UNCHANGED <<A, overtaken>>

\* i does not compete, or it has asked j already and its request is later.
GrantReply(i, j) ==
  /\ ReceiveRequest(i, j)
  /\ \/ ~(is_using[i] \/ is_waiting[i])
     \/ is_waiting[i] /\ ~A[i][j] /\ ~OurPriority(i, j, Theirs(i, j))
  /\ A' = [A EXCEPT ![i][j] = FALSE]
  /\ Exchange(i, j, <<Reply>>)
  /\ UNCHANGED <<reply_deferred, overtaken>>

\* i holds j's permission for its own later request: it gives the
\* permission back and asks for it again.
YieldPermission(i, j) ==
  /\ ReceiveRequest(i, j)
  /\ is_waiting[i] /\ A[i][j] /\ ~OurPriority(i, j, Theirs(i, j))
  /\ A' = [A EXCEPT ![i][j] = FALSE]
  /\ Exchange(i, j, <<Reply, Request(our_sequence_number[i])>>)
  /\ overtaken' = (overtaken \/ pc[i] = "entering")
  /\ UNCHANGED reply_deferred

-----------------------------------------------------------------------------
MainThread(i) ==
  \/ RequestResource(i)
  \/ CanEnterCriticalSection(i)
  \/ EnterCriticalSection(i)
  \/ ReleaseResource(i)

ReceiveThread(i, j) ==
  \/ TreatReply(i, j)
  \/ DeferReply(i, j)
  \/ GrantReply(i, j)
  \/ YieldPermission(i, j)

\* Every request was served and every message treated.
Finished ==
  \A i \in Clients :
    /\ pc[i] = "idle" /\ n_requested_requests[i] = n_requests
    /\ \A j \in Clients : network[i][j] = <<>>

Terminated == Finished /\ UNCHANGED vars

Next ==
  \/ \E i \in Clients :
       \/ MainThread(i)
       \/ \E j \in Others(i) : ReceiveThread(i, j)
  \/ Terminated

\* Every thread keeps running: the main thread never stops polling and a
\* receive thread returns to its socket after each message.
Fairness ==
  \A i \in Clients :
    /\ WF_vars(MainThread(i))
    /\ \A j \in Clients : WF_vars(j # i /\ ReceiveThread(i, j))

Spec == Init /\ [][Next]_vars

FairSpec == Spec /\ Fairness

-----------------------------------------------------------------------------
(***************************************************************************)
(* Properties.                                                             *)
(***************************************************************************)

\* Every variable has the type its declaration in
\* RACriticalSectionAlgStrategy.h gives it, and the two flags follow the main
\* thread: is_waiting from request_resource() to enter_critical_section(),
\* is_using from there to release_resource().
TypeOK ==
  /\ our_sequence_number \in [Clients -> Nat]
  /\ hgst_sequence_number \in [Clients -> Nat]
  /\ A \in [Clients -> [Clients -> BOOLEAN]]
  /\ is_using \in [Clients -> BOOLEAN]
  /\ is_waiting \in [Clients -> BOOLEAN]
  /\ reply_deferred \in [Clients -> [Clients -> BOOLEAN]]
  /\ pc \in [Clients -> Location]
  /\ n_requested_requests \in [Clients -> 0 .. n_requests]
  /\ network \in [Clients -> [Clients -> Seq(Message)]]
  /\ overtaken \in BOOLEAN
  /\ \A i \in Clients :
       /\ is_waiting[i] <=> pc[i] \in {"polling", "entering"}
       /\ is_using[i] <=> pc[i] = "critical"

\* The promise of README.md: one client at a time reads or writes the file.
MutualExclusion ==
  \A i, j \in Clients : is_using[i] /\ is_using[j] => i = j

\* The promise as the code keeps it: two clients are never in
\* enter_critical_section() together unless treat_request_message() took a
\* permission from a client between can_enter_critical_section() and
\* enter_critical_section().
ExclusiveUnlessOvertaken == overtaken \/ MutualExclusion

\* Stream q carries a message of type t; it carries two of them.
Has(q, t) == \E k \in 1 .. Len(q) : q[k].type = t

HasTwo(q, t) ==
  \E k, l \in 1 .. Len(q) : k # l /\ q[k].type = t /\ q[l].type = t

\* A message of type t is on its way from i to j.
InFlight(i, j, t) == Has(network[i][j], t)

\* The permission that i and j share is in one place: one of them holds it (A)
\* or it travels in one REPLY.
OnePermission(i, j) ==
  /\ A[i][j] => ~A[j][i] /\ ~InFlight(i, j, "REPLY") /\ ~InFlight(j, i, "REPLY")
  /\ ~(InFlight(i, j, "REPLY") /\ InFlight(j, i, "REPLY"))
  /\ ~HasTwo(network[i][j], "REPLY")

\* A permission is never duplicated, although a client gives it away at three
\* places (release_resource() and two branches of treat_request_message()) and
\* keeps it from one critical section to the next.
PermissionUnique ==
  overtaken \/ \A i \in Clients : \A j \in Others(i) : OnePermission(i, j)

\* i's request is with j: on its way, deferred by j, or answered and the answer
\* on its way back.
Asked(i, j) ==
  InFlight(i, j, "REQUEST") \/ reply_deferred[j][i] \/ InFlight(j, i, "REPLY")

OneRequest(i, j) ==
  /\ Asked(i, j) <=> is_waiting[i] /\ ~A[i][j]
  /\ ~HasTwo(network[i][j], "REQUEST")
  /\ InFlight(i, j, "REQUEST") => ~reply_deferred[j][i] /\ ~InFlight(j, i, "REPLY")
  /\ reply_deferred[j][i] => ~InFlight(j, i, "REPLY")

\* A waiting client has exactly one request with every client whose permission
\* it lacks, and none with any other: request_resource() and the yielding branch
\* of treat_request_message() never lose a request, have one answered twice, or
\* leave one over for a later critical section.
RequestAccounted ==
  overtaken \/ \A i \in Clients : \A j \in Others(i) : OneRequest(i, j)

\* i's latest request goes before j's: the order in which requests are served.
Before(i, j) ==
  \/ our_sequence_number[i] < our_sequence_number[j]
  \/ our_sequence_number[i] = our_sequence_number[j] /\ i < j

\* Every REQUEST on stream q carries number s.
Numbered(q, s) == \A k \in 1 .. Len(q) : q[k].type = "REQUEST" => q[k].seq = s

(***************************************************************************)
(* Why the permissions are unique.  They do not exist at first: i grants a *)
(* permission that it may never have held, which is safe only if j does not*)
(* hold it and it is not on its way to i.  While i waits for a permission  *)
(* already on its way, j must have yielded it to i's earlier request, and  *)
(* so i's numbers and j's agree on who goes first.                         *)
(***************************************************************************)
Safe(i, j) ==
  /\ OnePermission(i, j)
  /\ OneRequest(i, j)
  \* From the answer of can_enter_critical_section() to release_resource().
  /\ pc[i] \in {"entering", "critical"} => A[i][j]
  \* A REQUEST carries the number of the latest request.
  /\ Numbered(network[i][j], our_sequence_number[i])
  \* i asks j again after a REPLY only if j goes first.
  /\ InFlight(i, j, "REPLY")
       /\ (InFlight(i, j, "REQUEST") \/ reply_deferred[j][i])
     => Before(j, i)
  \* i has seen the request it answers or defers.
  /\ reply_deferred[i][j] \/ InFlight(i, j, "REPLY")
     => our_sequence_number[j] <= hgst_sequence_number[i]

\* The inductive invariant behind ExclusiveUnlessOvertaken: what each block of
\* request_resource(), release_resource() and treat_message() relies on and
\* leaves behind.
IInv ==
  /\ TypeOK
  /\ overtaken \/ \A i \in Clients : \A j \in Others(i) : Safe(i, j)

\* A client that enters the critical section while it owes another one a reply
\* does so because its own request has the smaller (number, id): a later
\* request never passes an earlier one that has arrived.
EntryOrder ==
  [][\A i \in Clients : \A j \in Others(i) :
       EnterCriticalSection(i) /\ reply_deferred[i][j] /\ ~overtaken
         => Before(i, j)]_vars

\* A request is served: the loop on can_enter_critical_section() ends.
RequestServed ==
  \A i \in Clients : is_waiting[i] ~> is_using[i]

\* What the strategy promises to the client, AbstractMutex, is what it does.
Phase(i) ==
  CASE is_using[i] -> "using"
    [] is_waiting[i] -> "waiting"
    [] OTHER -> "idle"

Promise == INSTANCE AbstractMutex WITH
  phase <- [i \in Clients |-> Phase(i)],
  tainted <- overtaken

\* request_resource(), enter_critical_section() and release_resource()
\* implement the steps of AbstractMutex; every other block is a stutter or
\* withdraws the promise.
KeepsPromise == Promise!Spec

=============================================================================
