------------------------------- MODULE OwnQueue -------------------------------
(***************************************************************************)
(* The messages a client of Maekawa's algorithm sends to itself.           *)
(*                                                                         *)
(* A client is in its own quorum for every file.  What its requester and   *)
(* its arbiter send to each other goes through one MessageQueue for all    *)
(* files, a binary heap ordered by timestamp, which is the sequence number *)
(* that the sender has for the file.  The main thread and all receive      *)
(* threads push; one thread, that of handleSelfMessages(), takes messages  *)
(* out, in two calls: top() copies the first message, pop() removes the    *)
(* first message.                                                          *)
(*                                                                         *)
(* The other clients are not modelled: their requests and releases reach   *)
(* the arbiter at any time and other arbiters answer in any way.  Module   *)
(* Maekawa has the algorithm for one file and takes the queue for a FIFO   *)
(* stream; here is when it is one.                                         *)
(*                                                                         *)
(* Left out is CLIENT_DONE_ALL_REQUEST, which a client sends to itself     *)
(* too, once per server, at shutdown (client.cpp 286): the flag is set     *)
(* before, so the thread of handleSelfMessages() takes at most one more    *)
(* message, treats it and ends, whatever else the queue holds.             *)
(***************************************************************************)
EXTENDS Integers, Sequences, FiniteSets, SequencesExt

CONSTANTS
  Files,
  max_size,    \* messages the queue has room for
  MaxNumber    \* bound on sequence numbers

ASSUME SizeAssumption == max_size \in Nat
ASSUME NumberAssumption == MaxNumber \in Nat

VARIABLES
  pq,                    \* the heap, as the vector it lies in
  \* The thread that handles own messages.
  self,                  \* where it is
  packet,                \* the message that top() has returned
  \* The main thread.
  main,                  \* idle, waiting or critical
  current,               \* the file it requests or uses
  \* The requester of each file.
  our_sequence_number,   \* [f]
  request_reply,         \* [f]: what our own arbiter has answered
  \* The arbiter of each file.
  hgst_sequence_number,  \* [f]
  holder,                \* [f]: who has the lock: "nobody", "me", "other"
  waits,                 \* [f]: of these, who is in waiting_queue
  inquired,              \* [f]: an INQUIRE to ourselves is not answered yet
  \* What happened; no action reads these.
  sent,                  \* [f]: messages sent and not treated, oldest first
  strained,              \* the queue has held messages of two files, or four
  faults                 \* what has gone wrong

requester == <<main, current, our_sequence_number, request_reply>>
arbiter == <<hgst_sequence_number, holder, waits, inquired>>
vars == <<pq, self, packet, requester, arbiter, sent, strained, faults>>

MessageType ==
  {"REQUEST", "LOCKED", "FAILED", "INQUIRE", "RELINQUISH", "RELEASE"}
Message == [type : MessageType, file : Files, timestamp : 0 .. MaxNumber]

\* pop() removed another message than top() returned, of the same or another
\* file; a message was not treated in its turn; a lock was given back that was
\* not held.
Fault == {"displaced", "displaced by other file", "misordered", "fouled"}

Init ==
  /\ pq = <<>>
  /\ self = "looking"
  /\ current \in Files
  /\ packet = [type |-> "RELEASE", file |-> current, timestamp |-> 0]
  /\ main = "idle"
  /\ our_sequence_number = [f \in Files |-> 0]
  /\ request_reply = [f \in Files |-> "NONE"]
  /\ hgst_sequence_number = [f \in Files |-> 0]
  /\ holder = [f \in Files |-> "nobody"]
  /\ waits = [f \in Files |-> {}]
  /\ inquired = [f \in Files |-> FALSE]
  /\ sent = [f \in Files |-> <<>>]
  /\ strained = FALSE
  /\ faults = {}

-----------------------------------------------------------------------------
(***************************************************************************)
(* std::priority_queue on a vector, as libstdc++ has it: the order of equal*)
(* elements follows from how they move.                                    *)
(***************************************************************************)

\* A variant that puts the later of two equal messages first.
NotBefore(m, q) == m.timestamp >= q.timestamp

\* PacketComparator: the sender is the same for all.
After(m, q) == m.timestamp > q.timestamp

\* The places an empty place i goes through while its parent comes after v.
PathUp(q, i, v) ==
  LET path[h \in 1 .. Len(q)] ==
        IF h > 1 /\ After(q[h \div 2], v) THEN <<h>> \o path[h \div 2]
        ELSE <<h>>
  IN path[i]

\* v put into q, whose place i is empty.
SiftUp(q, i, v) ==
  LET path == PathUp(q, i, v)
  IN [h \in 1 .. Len(q) |-> CASE h = Last(path) -> v
                              [] Contains(Front(path), h) -> q[h \div 2]
                              [] OTHER -> q[h]]

\* The child that comes first; of two equal ones the right one.
FirstChild(q, h) ==
  IF 2 * h = Len(q) \/ After(q[2 * h + 1], q[2 * h]) THEN 2 * h ELSE 2 * h + 1

\* The places a hole at the top goes through on its way to a leaf.
PathDown(q) ==
  LET path[h \in 1 .. Len(q)] ==
        IF 2 * h > Len(q) THEN <<h>> ELSE <<h>> \o path[FirstChild(q, h)]
  IN path[1]

PushHeap(q, m) == SiftUp(Append(q, m), Len(q) + 1, m)

PopHeap(q) ==
  LET v == Last(q)
      r == Front(q)
      path == PathDown(r)
      moved == [h \in DOMAIN r |-> IF Contains(Front(path), h)
                                   THEN r[FirstChild(r, h)] ELSE r[h]]
  IN IF r = <<>> THEN r ELSE SiftUp(moved, Last(path), v)

-----------------------------------------------------------------------------
\* Bound: behaviours are followed up to the first fault.
NoFault == faults = {}

\* A variant that leaves the timestamp unset.
Unstamped(f, t) == [type |-> t, file |-> f, timestamp |-> 0]

\* A message of type t about file f, stamped with our number for f.
OwnMessage(f, t) ==
  [type |-> t, file |-> f, timestamp |-> our_sequence_number[f]]

\* With m the queue may not be a FIFO any more.
Strains(m) ==
  \/ \E q \in Range(pq) : q.file # m.file
  \/ Len(pq) > 2

\* sendCriticalSectionMessageToClient() to ourselves puts m in the queue, which
\* refuses it when it is full; nobody looks.  unsent is sent without the message
\* that made us send m.
Push(m, unsent) ==
  /\ sent' = [unsent EXCEPT ![m.file] = Append(@, m)]
  /\ strained' = (strained \/ Strains(m))
  /\ pq' = IF Len(pq) < max_size THEN PushHeap(pq, m) ELSE pq

NoPush(unsent) == sent' = unsent /\ UNCHANGED <<pq, strained>>

-----------------------------------------------------------------------------
(***************************************************************************)
(* The main thread: one file at a time.                                    *)
(***************************************************************************)
\* A variant that counts twice.
RequestBeyond(f) ==
  /\ NoFault
  /\ main = "idle"
  /\ hgst_sequence_number[f] < MaxNumber
  /\ main' = "waiting"
  /\ current' = f
  /\ LET n == hgst_sequence_number[f] + 2 IN
       /\ our_sequence_number' = [our_sequence_number EXCEPT ![f] = n]
       /\ Push([OwnMessage(f, "REQUEST") EXCEPT !.timestamp = n], sent)
  /\ request_reply' = [request_reply EXCEPT ![f] = "WAITING"]
  /\ UNCHANGED <<self, packet, arbiter, faults>>

RequestResource(f) ==
  /\ NoFault
  /\ main = "idle"
  /\ hgst_sequence_number[f] < MaxNumber
  /\ main' = "waiting"
  /\ current' = f
  /\ LET n == hgst_sequence_number[f] + 1 IN
       /\ our_sequence_number' = [our_sequence_number EXCEPT ![f] = n]
       /\ Push([OwnMessage(f, "REQUEST") EXCEPT !.timestamp = n], sent)
  /\ request_reply' = [request_reply EXCEPT ![f] = "WAITING"]
  /\ UNCHANGED <<self, packet, arbiter, faults>>

\* The other arbiters of the quorum have answered LOCKED, too.
EnterCriticalSection ==
  /\ NoFault
  /\ main = "waiting"
  /\ request_reply[current] = "LOCKED"
  /\ main' = "critical"
  /\ UNCHANGED <<pq, self, packet, current, our_sequence_number, request_reply,
                 arbiter, sent, strained, faults>>

ReleaseResource ==
  /\ NoFault
  /\ main = "critical"
  /\ main' = "idle"
  /\ request_reply' = [request_reply EXCEPT ![current] = "NONE"]
  /\ UNCHANGED our_sequence_number
  /\ Push(OwnMessage(current, "RELEASE"), sent)
  /\ UNCHANGED <<self, packet, current, arbiter, faults>>

-----------------------------------------------------------------------------
(***************************************************************************)
(* The receive threads for the other clients, as arbiters of f.            *)
(***************************************************************************)

\* The lock of f goes to one of those that wait, or to nobody, and requeued
\* waits again.  We are told if the lock is ours.  Of others more may wait.
PassLock(f, requeued, unsent) ==
  \/ /\ waits[f] = {}
     /\ holder' = [holder EXCEPT ![f] = "nobody"]
     /\ UNCHANGED waits
     /\ NoPush(unsent)
  \/ \E h \in waits[f], more \in SUBSET (waits[f] \ {"me"}) :
       /\ holder' = [holder EXCEPT ![f] = h]
       /\ waits' = [waits EXCEPT ![f] = (@ \ {h}) \union more \union requeued]
       /\ IF h = "me" THEN Push(OwnMessage(f, "LOCKED"), unsent)
                      ELSE NoPush(unsent)

\* A variant that does not look at is_inquire_replied.
MayInquireAgain(f) == holder[f] = "me"

\* We may be asked for the lock: we have it and were not asked before.
MayInquire(f) == holder[f] = "me" /\ ~inquired[f]

\* REQUEST of another client, with any number.
OtherRequests(f) ==
  /\ NoFault
  /\ \E s \in hgst_sequence_number[f] .. MaxNumber :
       hgst_sequence_number' = [hgst_sequence_number EXCEPT ![f] = s]
  /\ IF holder[f] = "nobody"
     THEN /\ holder' = [holder EXCEPT ![f] = "other"]
          /\ UNCHANGED <<waits, inquired>>
          /\ NoPush(sent)
     ELSE /\ waits' = [waits EXCEPT ![f] = @ \union {"other"}]
          /\ UNCHANGED holder
          /\ \E inquire \in {FALSE, MayInquire(f)} :
               /\ inquired' = [inquired EXCEPT ![f] = @ \/ inquire]
               /\ IF inquire THEN Push(OwnMessage(f, "INQUIRE"), sent)
                             ELSE NoPush(sent)
  /\ UNCHANGED <<self, packet, requester, faults>>

\* RELEASE of the client that has the lock, or its RELINQUISH.
OtherReleases(f) ==
  /\ NoFault
  /\ holder[f] = "other"
  /\ \/ PassLock(f, {}, sent)
     \/ waits[f] # {} /\ PassLock(f, {"other"}, sent)
  /\ UNCHANGED <<self, packet, requester, hgst_sequence_number, inquired,
                 faults>>

-----------------------------------------------------------------------------
(***************************************************************************)
(* handleSelfMessages().                                                   *)
(***************************************************************************)
Top ==
  /\ NoFault
  /\ self = "looking"
  /\ pq # <<>>
  /\ packet' = Head(pq)
  /\ self' = "popping"
  /\ UNCHANGED <<pq, requester, arbiter, sent, strained, faults>>

Pop ==
  /\ NoFault
  /\ self = "popping"
  /\ pq' = PopHeap(pq)
  /\ faults' = faults \union
       IF Head(pq) = packet THEN {}
       ELSE IF Head(pq).file = packet.file THEN {"displaced"}
       ELSE {"displaced by other file"}
  /\ self' = "treating"
  /\ UNCHANGED <<packet, requester, arbiter, sent, strained>>

\* A message of type t has been taken; unsent is what remains of sent, and
\* goes to the push that the handler makes.
Unsent ==
  IF packet \in Range(sent[packet.file])
  THEN [sent EXCEPT ![packet.file] = RemoveFirst(@, packet)]
  ELSE sent

Treat(t) ==
  /\ NoFault
  /\ self = "treating"
  /\ packet.type = t
  /\ faults' = faults \union
       IF sent[packet.file] # <<>> /\ Head(sent[packet.file]) = packet
       THEN {} ELSE {"misordered"}
  /\ UNCHANGED packet

TreatRequest ==
  LET f == packet.file IN
  /\ Treat("REQUEST")
  /\ hgst_sequence_number' = [hgst_sequence_number EXCEPT
       ![f] = IF packet.timestamp > @ THEN packet.timestamp ELSE @]
  /\ IF holder[f] = "nobody"
     THEN /\ holder' = [holder EXCEPT ![f] = "me"]
          /\ Push(OwnMessage(f, "LOCKED"), Unsent)
          /\ UNCHANGED waits
     ELSE /\ waits' = [waits EXCEPT ![f] = @ \union {"me"}]
          /\ Push(OwnMessage(f, "FAILED"), Unsent) \/ NoPush(Unsent)
          /\ UNCHANGED holder
  /\ self' = "looking"
  /\ UNCHANGED <<requester, inquired>>

TreatReply(t) ==
  /\ Treat(t)
  /\ request_reply' = [request_reply EXCEPT ![packet.file] = t]
  /\ NoPush(Unsent)
  /\ self' = "looking"
  /\ UNCHANGED <<main, current, our_sequence_number, arbiter>>

TreatInquire ==
  /\ Treat("INQUIRE")
  /\ NoPush(Unsent)
  /\ self' = "spinning"
  /\ UNCHANGED <<requester, arbiter>>

\* The loop of treat_inquire_message() ends when all have answered LOCKED or one
\* FAILED.  What others answer is not known: unless our own arbiter has refused,
\* the outcome may be either when it is looked at again.
LeaveInquire ==
  /\ NoFault
  /\ self = "spinning"
  /\ packet.file = current
  /\ main # "idle"
  /\ request_reply[current] # "FAILED"
  /\ self' = "looking"
  /\ NoPush(sent)
  /\ UNCHANGED <<packet, requester, arbiter, faults>>

Relinquish ==
  /\ NoFault
  /\ self = "spinning"
  /\ packet.file = current
  /\ main # "idle"
  /\ faults' = faults \union
       IF main = "waiting" /\ request_reply[current] = "LOCKED" THEN {}
       ELSE {"fouled"}
  /\ request_reply' = [request_reply EXCEPT ![current] = "FAILED"]
  /\ self' = "looking"
  /\ Push(OwnMessage(current, "RELINQUISH"), sent)
  /\ UNCHANGED <<packet, main, current, our_sequence_number, arbiter>>

TreatRelinquish ==
  LET f == packet.file IN
  /\ Treat("RELINQUISH")
  /\ waits[f] # {}
  /\ PassLock(f, {holder[f]}, Unsent)
  /\ inquired' = [inquired EXCEPT ![f] = FALSE]
  /\ self' = "looking"
  /\ UNCHANGED <<requester, hgst_sequence_number>>

TreatRelease ==
  LET f == packet.file IN
  /\ Treat("RELEASE")
  /\ PassLock(f, {}, Unsent)
  /\ inquired' = [inquired EXCEPT ![f] = FALSE]
  /\ self' = "looking"
  /\ UNCHANGED <<requester, hgst_sequence_number>>

-----------------------------------------------------------------------------
MainThread ==
  \/ \E f \in Files : RequestResource(f)
  \/ EnterCriticalSection
  \/ ReleaseResource

OtherThreads == \E f \in Files : OtherRequests(f) \/ OtherReleases(f)

SelfThread ==
  \/ Top \/ Pop
  \/ TreatRequest \/ TreatReply("LOCKED") \/ TreatReply("FAILED")
  \/ TreatInquire \/ LeaveInquire \/ Relinquish
  \/ TreatRelinquish \/ TreatRelease

Next == MainThread \/ OtherThreads \/ SelfThread

Spec == Init /\ [][Next]_vars

-----------------------------------------------------------------------------
\* Types of the variables.
TypeOK ==
  /\ pq \in Seq(Message)
  /\ self \in {"looking", "popping", "treating", "spinning"}
  /\ packet \in Message
  /\ main \in {"idle", "waiting", "critical"}
  /\ current \in Files
  /\ our_sequence_number \in [Files -> 0 .. MaxNumber]
  /\ request_reply \in [Files -> {"NONE", "WAITING", "FAILED", "LOCKED"}]
  /\ hgst_sequence_number \in [Files -> 0 .. MaxNumber]
  /\ holder \in [Files -> {"nobody", "me", "other"}]
  /\ waits \in [Files -> SUBSET {"me", "other"}]
  /\ inquired \in [Files -> BOOLEAN]
  /\ sent \in [Files -> Seq(Message)]
  /\ strained \in BOOLEAN
  /\ faults \subseteq Fault

\* The heap does not keep the order of equal timestamps, but a queue that never
\* held messages of two files, nor four messages, was a FIFO: each was treated
\* once, in the order of sending.  Module Maekawa relies on it.  Both conditions
\* are needed.  (client.cpp 405-421, messagequeue.h 11-17)
TreatedInOrder == ~strained => "misordered" \notin faults

\* Within one file pop() removes what top() returned: nothing that is pushed
\* in between goes first, since numbers do not decrease.  The gap between the
\* two calls bites only between files.  (client.cpp 410-411)
DisplacedByOtherFile == "displaced" \notin faults

\* push() never refuses a message before shutdown, and nobody looks at what it
\* returns: before the first fault a few messages for each file are the most there
\* are, far from the hundred there is room for.  (messagequeue.cpp 11-21, node.cpp 164-166)
NothingRefused == faults = {} => Len(pq) < max_size

\* What pop() removes is what top() returned, and is treated: no message is
\* lost.  test/src/test_message_queue.cpp:62-66 takes the two calls for one.
PopsWhatItRead == faults \cap {"displaced", "displaced by other file"} = {}

=============================================================================
