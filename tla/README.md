# A TLA+ development of Distributed-Mutual-Exclusion

The program is a replicated file service.  Clients take commands from an input
file; a READ asks one server for the last line of a file, a WRITE appends a line
to the file's replica at every server.  Each access is a critical section of
that file, and the clients agree among themselves on whose turn it is with one
of two algorithms: Ricart-Agrawala with the optimisation of Roucairol and
Carvalho, or Maekawa's.  When every client has made its last request, everybody
stops.  This directory models the start of the processes, the two algorithms, the
file service on top of them and its shutdown, and the two channels below them (the
queue of a client's messages to itself and the stream of packets), checks all
of it with TLC, and proves with TLAPS the safety of both algorithms, that both implement
the promise the file service relies on, the safety of the file service and of
the start, when a client's queue of own messages keeps their order, and when packets
arrive whole and a READ finds the line that was written.

    Startup          brings every client to its first command
    FileService      accesses and shutdown; relies on AbstractMutex
    RicartAgrawala   implements AbstractMutex
    Maekawa          implements AbstractMutex, with a client's own messages as
                     a stream
    OwnQueue         when a client's own messages are a stream
    RequestStream    when whole packets arrive in order, as the others take for
                     granted, and what a replica's last line is

## 1. Inventory

Line numbers are of `src/src/...`; `RA` is `RACriticalSectionAlgStrategy.cpp`,
`MKW` is `MKWCriticalSectionAlgStrategy.cpp`.

| Component | State | Operations | Correct when |
|---|---|---|---|
| Ricart-Agrawala strategy, one object per client and file | `our_sequence_number`, `hgst_sequence_number`, `A[]`, `is_using`, `is_waiting`, `reply_deferred[]` under `g_mutex` | `request_resource`, `can_enter_critical_section`, `enter_critical_section`, `release_resource`, `treat_message` (REQUEST, REPLY) | one client at a time; the permission shared by two clients is in one place; a waiting client's requests are neither lost nor doubled; earlier requests go first; every request is served |
| Maekawa strategy, one object per client and file | requester: `request_reply`, `our_sequence_number`; arbiter: `is_locked`, `locking_request`, `waiting_queue`, `is_inquire_replied[]`, `hgst_sequence_number` | `request_resource`, `release_resource`, `treat_message` (REQUEST, LOCKED, FAILED, INQUIRE, RELINQUISH, RELEASE) | one client at a time; arbiter and requesters agree on who has the lock; no request is lost or queued twice; every request is served |
| Client: commands and accesses | `current_request`, `n_requested_requests`, flags `server_done_read_request`, `server_done_write_request[]` | `requestServersFromInputFile`, `requestRead`, `requestWrite`, `enterCriticalSection` | an access ends only with its own answers |
| Client and server: shutdown | `all_clients_done_all_request`, `client_done_all_request[]`, the sockets | CLIENT_DONE_ALL_REQUEST, SERVER_RECEIVED_ALL_DONE_REQUESTS, closing, joining | nobody stops while it is needed; all processes end |
| Server | the replicas, one thread per client, `g_mutex` | ENQUIRY, READ, WRITE, reports | replicas stay equal |
| Node | sockets, `message_queue`, Lamport clock | sending to a peer or to oneself | messages from one sender arrive in order |
| Message queue | a bounded binary heap, `max_size` | `push`, `top`, `pop` | what is popped is what was read; no message refused; order of sending |
| Packets | the bytes between `send()` and `read()` | `toMessage`, `splitReadDataFromSocket` | a read ends where a packet ends; every packet is handled, once |
| Start-up | the lines of `client.txt` and `server.txt`, `client_sockfd[]`, `server_sockfd[]`, the backlogs, `list_files`, `server_done_enquiry_request`, `critical_section_alg_init` | listen, wait for all lines, connect or accept, echo, greet, ENQUIRY, create the strategies and the threads | every pair is connected once, under the right id; nothing but echoes is thrown away; no lock request meets a strategy that is not there; everybody gets to its first command |
| Files, configuration, random input | the replicas on disk | `_readLastLineOfFile`, `_writeToFile`, `countLine`, `getQuorumsFromConfig`, `_generateRandomInputFile` | a READ returns what was written last |
| Logger, programs, scripts | log files | | |

Components interact through TCP streams (client-client for the locks,
client-server for the files), through a client's queue of messages to itself,
and, inside a client, through shared variables: the main thread polls flags that
the receive threads set.

What is hard about the program:

- *Check, unlock, act.*  `can_enter_critical_section()` followed by
  `enter_critical_section()` (RA 68-71), `received_failed()` followed by the
  answer to an INQUIRE (MKW 184-192), `top()` followed by `pop()` (client.cpp
  410-411).
- *A receive thread that waits.*  `treat_inquire_message()` (MKW 174) spins until
  the client's own request has an outcome and meanwhile treats nothing else that
  the same sender has sent.  The outcome may never come: the client has released
  the file already, or it hangs on what waits behind the INQUIRE, or on a FAILED
  that a displaced request is never sent (MKW 145).  And the loop may end for
  nothing, when the FAILED it saw is gone at the second look (MKW 184-193).
- *Messages that cross.*  A REQUEST may arrive while its receiver waits, uses or
  releases the file, and a permission and a new request may cross on the way.
- *Flags without an identity.*  Replies to READ and WRITE set a flag; nothing says
  which request they belong to.
- *One read for one packet.*  Start-up reads once where it expects one packet and
  ignores or multiplies what else the read brings (client.cpp 88, 131; server.cpp
  63-85); `splitReadDataFromSocket()` expects the buffer to end where a packet
  ends (packet.cpp 132-142).
- *Two orders.*  Clients go through their peers by id, but who connects and who
  accepts depends on the addresses (client.cpp 76).
- *Shutdown.*  The report of the last request is sent from inside the critical
  section; each thread ends by a message, a flag or a closed socket, whichever
  comes first, and answers may be lost in closed sockets.

`PROJECT.json` lists these and the smaller ones as hazards, each at its line and
with the properties that cover it or the reason why none does yet.

## 2. The modules

### AbstractMutex
What `CriticalSectionAlgStrategy` promises to the client: idle, waiting, using,
and at most one client using the file.  `tainted` records that the strategy has
acted on a stale reading; from then on nothing is promised.  The promise could
not be stated without it, because both algorithms break it in the code (see
*Findings*).

### RicartAgrawala
One file, clients `0 .. N-1` (the numbers break ties).  A block between
`g_mutex.lock()` and `unlock()` is one action:

| Action | Code |
|---|---|
| `RequestResource` | RA 43-66 |
| `CanEnterCriticalSection` | RA 68-70 and 177-193: the answer yes; an answer no changes nothing |
| `EnterCriticalSection` | RA 195-201 |
| `ReleaseResource` | RA 75-98 |
| `TreatReply` | RA 115-121 |
| `DeferReply`, `GrantReply`, `YieldPermission` | the three outcomes of `treat_request_message`, RA 123-168 |

`pc` is the main thread's place, `network[i][j]` the stream from `i` to `j`.
Sending under the mutex is an append in the same action.  `overtaken` is a
history variable: `YieldPermission` sets it when it takes a permission from a
client that is between `CanEnterCriticalSection` and `EnterCriticalSection`.  No
action reads it.  The access to the file is the time between
`EnterCriticalSection` and `ReleaseResource`.

### Maekawa
One file; every client is a requester (main thread) and an arbiter (receive
threads).  `quorum` is the configuration's; the assumption is only that any two
quorums meet.  `treat_inquire_message()` is four actions, since it drops the
mutex three times: `TreatInquire` takes the message, `LeaveSpin` ends the loop,
`SeeFailed`/`SeeNoFailed` is the second look, `Relinquish` the answer.
`inquiry[i][j]` is how far the receive thread for `j` has come, and that thread
takes no other message of `j` before it is through.

- *Own messages.*  A client in its own quorum sends to itself through
  `message_queue`, a binary heap ordered by number.  Here it is a stream.
  `OwnQueue` shows when that is right: as long as the heap has held messages of
  one file only and never four at once.  The history variable `crowded` records
  that a client has had four messages to itself; the invariants of this module
  claim nothing from then on (`Unsound`).  In the instances `crowded` is reached
  in `mkw_hub`, never in `mkw_progress`.
- *waiting_queue* is a set with `Top`: the comparator is a total order on
  requests, provided none is in twice, which is the invariant `QueueIsASet`.  After
  a stale RELINQUISH a number may be used again while the old request still waits,
  and the code's queue would hold it twice; nothing is claimed of the set then
  (`Unsound`).
- *is_locked* is not initialised by the constructor: `fresh_memory` is the set of
  values it may start with.
- *Empty queue.*  `top()`/`pop()` of an empty queue has no defined behaviour.
  `TreatRelinquishUnderflow` ends the process; `RelinquishedForEarlier` shows it
  needs a stale RELINQUISH first.
- `fouled` is a history variable: a RELINQUISH was sent by a client that did not
  hold that lock for a waiting request.  `Unsound` is `fouled` or `crowded`.

### OwnQueue
The messages of one client of Maekawa's algorithm to itself, for several files.
The heap is modelled as libstdc++ moves its elements (`PushHeap`, `PopHeap`),
because `PacketComparator` leaves messages with equal numbers equal, and what the
heap does with equal elements is the question.

| Action | Code |
|---|---|
| `RequestResource`, `EnterCriticalSection`, `ReleaseResource` | the main thread, MKW 50-64, 298-322, 73-86 |
| `OtherRequests`, `OtherReleases` | receive threads for other clients, as arbiters that may tell ourselves LOCKED or INQUIRE, MKW 122-161, 199-264 |
| `Top`, `Pop` | client.cpp 409-411, messagequeue.cpp 23-47 |
| `TreatRequest`, `TreatReply`, `TreatInquire`, `LeaveInquire`, `Relinquish`, `TreatRelinquish`, `TreatRelease` | `handleClientPacket` and the handlers of MKW |

Other clients and their numbers are not modelled: they may request and release at
any time, their messages carry any number not below the highest seen, and their
arbiters answer in any way.  That allows more than `Maekawa` does.  `sent` keeps the
order of sending for each file.  `faults` names what went wrong first; behaviours
are followed up to there (the bound `NoFault`), since a message that is lost or
treated twice makes the algorithm itself go wrong.

### Startup
Every client from its start to its first command, every server until it has all
clients.  A client's main thread is a sequence of steps, `step[c]`, with the index of
the loop it is in, `next[c]`; the thread that receives the answer to ENQUIRY
(`enquiry_thread`) and the threads for the other clients run beside it.

| Action | Code |
|---|---|
| `StartServerSocket`, `WriteLine`, `ServerStarts`, `WaitForAllNodes` | node.cpp 48-72; client.cpp 739-744, utils.cpp 85-100 |
| `ConnectToOtherClient`, `AcceptOtherClient`, `TestClientsCommunicate` | client.cpp 72-108, 166-179 |
| `ConnectToServer`, `TestServerCommunicate` | client.cpp 48-70, 123-164 |
| `EnquireListOfHostedFiles`, `ReceiveEnquireResult`, `SetEnquiryDone`, `AssignListFiles`, `SeeListFiles` | client.cpp 518-528, 534-557, 290, 758-764 |
| `RequestFirst`, `HandleClientMessages` | the input file and its first command as a lock request to all; client.cpp 356-403, 766-771 |
| `ServeClient`, `Greet`, `HandleClientRequest` | server.cpp 59-93, 152-164, 169-198 |

A `read()` takes any number of the whole packets that have arrived.  Sleeps take
any time, so nothing relies on them: `sleep(id + 1)` before the servers and
`usleep(100)` between connections are not what keeps the start in order.
`fresh_memory` is what `client_sockfd` of a server may hold after `memset()` has
cleared `n_clients` bytes of it.  `list_files` is assigned by one thread while
another looks at it: `Reads` lets the reader see the list before or after, or end
the process.

### RequestStream
One client and one server's thread for it: packets with a length, a network that
delivers segments, a `read()` into a bounded buffer, the split, and the file.
Bytes of the stream are counted; those of the file are modelled, since blank
lines, long lines and missing newlines are what `_readLastLineOfFile()` is
about.

| Action | Code |
|---|---|
| `SendMessageToServer` | node.cpp 137-155, packet.cpp 78-94 |
| `Deliver` | the network (external) |
| `Read` | server.cpp 172-184, packet.cpp 115-142 |
| `HandleReadRequest`, `HandleWriteRequest` | server.cpp 252-294, utils.cpp 66-83, 102-112 |
| `ReceiveReply` | client.cpp 293-300 |

`Window` is how many packets a client has under way; a client of this program
waits for the answer to each, except that its second echo and the report of its
last request have none; no more than two are under way.  A torn packet ends the behaviour (`torn`): what the program
makes of it is not defined.  A WRITE's content has no `#` (it is a client id and a
number), so that `splitString()` finds it whole.

### FileService
Clients, at least one server and the messages between them, on top of `AbstractMutex`
(`Mutex == INSTANCE AbstractMutex`, sharing `phase` and `tainted`): every
acquisition is `Mutex!Enter`, so what is shown here holds with either algorithm.
`LockFails` lets the promise be withdrawn at any time.

| Action | Code |
|---|---|
| `RequestCriticalSection` | client.cpp 474-499, 603-606 |
| `RequestRead`, `RequestWrite` | client.cpp 633-638, 682-689 |
| `FinishAccess` | the end of the waiting loop and client.cpp 624-629 |
| `ReleaseResource` | `release_resource()` of the strategy |
| `HandleReadRequest`, `HandleWriteRequest`, `HandleDoneAllRequest`, `CheckAllClientsDone`, `ServerThreadEnds` | server.cpp 172-226, 252-294 |
| `ReceiveReadResult`, `ReceiveWriteResult`, `ReceiveAllDone` | client.cpp 256-317, 645-719 |
| `ReceiveDone`, `LoseConnection`, `NoticeDone` | client.cpp 356-421, 437-438 |

Abstractions: a line is the client and the number of the request, where the
program has the client and its clock; both are new for every WRITE of a client.  The
file has one line at first.  The report of the last request is an action of its
own, before the release.  What a socket holds when it is closed is dropped, and
what is sent to a closed socket is lost.  `NoticeDone` lets a receive thread see
`all_clients_done_all_request` at any time; in the code it looks after each
message, and messages of the strategy, which this module does not have, may come
at any time.

## 3. The runs

| Run | Instance | Distinct states | Shows |
|---|---|---|---|
| `ra_one_file` | 3 clients, 2 requests each | 46,922 | `TypeOK`, `ExclusiveUnlessOvertaken`, `PermissionUnique`, `RequestAccounted`, `IInv`, `EntryOrder`, `KeepsPromise`, `RequestServed` |
| `ra_mutual_exclusion` | 2 clients, 2 requests each | violation | `MutualExclusion` fails |
| `mkw_hub` | 3 clients whose quorums meet in the last one, which has 2 requests; `is_locked` arbitrary at first | 760,852 | `TypeOK`, `ExclusiveUnlessFouled`, `RequestKept`, `LockAccounted`, `RelinquishedForEarlier`, `InquiryConcernsLocker`, `QueueIsASet`, `KeepsPromise` |
| `mkw_progress` | the quorums of `mkw_hub`, 1 request each; `is_locked` false at first | 60,240 | `ServedUnlessInquiryFails` |
| `mkw_mutual_exclusion` | the ring, 1 request each | violation | `MutualExclusion` fails |
| `mkw_request_served` | the ring, 1 request each | violation | `RequestServed` fails |
| `fs_access` | 2 clients, 2 servers, all pairs of commands | 181,378 | `TypeOK`, `ReplicasAgree`, `ReadsLastLine`, `WrittenOnce` |
| `fs_shutdown` | 2 clients, 2 servers, one WRITE each | 497,749 | `RepliesAreCurrent`, `StopsAfterAll`, `Termination` |
| `startup` | 3 clients, 1 server, 2 orders of addresses, clean and garbage socket tables | 1,006,458 | `TypeOK`, `SocketsPairUp`, `ForgetsOnlyEchoes`, `OneThreadPerClient`, `StrategyBeforeRequest`, `AllGetStarted` |
| `own_queue` | 2 files, numbers up to 4, room for 7 messages | 398,875 | `TypeOK`, `TreatedInOrder`, `DisplacedByOtherFile`, `NothingRefused` |
| `own_queue_pop` | 2 files, numbers up to 2 | violation | `PopsWhatItRead` fails |
| `request_stream` | 3 packets, 2 under way, lines of 1, 3 and 4 bytes for a line buffer of 4, every file of up to 5 bytes | 133,623 | `TypeOK`, `CutOnlyWhenCrowded`, `ReadsLastLine`, `AllAnswered` |

What the new ones say in words:

- *Start.*  Whatever the order of the addresses (by id, or the last client first)
  and however fast anybody is, no two clients wait for one another in `accept()`,
  each socket is under the id of its peer, and everybody's first request is
  treated by everybody else.  What is thrown away by reading once and keeping
  one packet is echoes only; the reason is the servers' barrier
  (`waitForAllClientsConnected`): no client has the answer to ENQUIRY, and so none
  sends a request, before all are past their `accept()`s.  With garbage in the
  socket table the barrier may open early, and nothing is claimed after that
  (`answered_early`).
- *Own messages.*  One file with at most three messages: a FIFO.  One file with four, or
  two files: not.  `top()` followed by `pop()` is harmless within a file.  Before the
  first fault at most six messages are in the queue with two files.
- *Packets.*  A packet is cut only when more is under way than a segment or the
  buffer holds: a client that waits for its answers never gets there with 8192
  bytes.  A READ returns the last line that is not blank provided it is shorter than
  the buffer of `fgets()`; the shipped files end with a newline, so what is written
  comes back as it was.

### Bounds
- *Ricart-Agrawala.*  Three clients are the fewest with a third party to a
  pairwise permission; two requests the fewest for which a permission is kept
  from one to the next and a request can meet one of an earlier round.  TLC
  checks the inductive invariant that the proof uses; the proof has no bound.
- *Maekawa.*  `Hub` makes one arbiter choose among three requests, so that it
  refuses, inquires and awaits an answer; that client needs all three locks and so
  competes as a requester too, and having the highest id it goes last among equal
  numbers, which lets the others displace it.  In `mkw_hub` it has two requests,
  which lets messages of one round meet the next.  `mkw_progress` has one request
  each, since the graph of the other is too large for liveness; that is enough for
  each of the three ways in which a request is never served.  With `is_locked` true
  at first an arbiter serves nobody, so progress is asked with false only.  `Ring` is
  the shape of `config/config_clients.txt` (quorums of consecutive clients), in
  which no client is in every quorum; among three clients an arbiter then has only
  two to choose from, and the violations need no more.  The invariants hold for
  every quorum system by the theorems of section 4.
- *File service.*  Two clients and two commands each: a reply of one access can
  meet the next access of the same client, and the other client's WRITE comes in
  between.  Two servers: replicas that can differ.  `fs_access` sets
  `n_requests` above the length of the input files so that nobody reports, which
  keeps shutdown out of its state space; that state really occurs (an input file
  with fewer commands than `n_requests`), and the clients then wait for ever, hence
  `CHECK_DEADLOCK FALSE`.  Symmetry of clients and servers is used there, with
  invariants only.

- *Start.*  Three clients: one can be late for two others, and a client may have two
  in its backlog in either order.  The second order of addresses makes the client
  that goes through its peers last connect to the others.  One server: with two
  the state space is out of reach; the servers do not interact, and a client goes
  through them one after another.
- *Own messages.*  Two files are the fewest that can displace each other.  A client
  works on one file at a time, and its arbiter for a file has one lock, so a file
  adds a bounded number of messages: numbers up to 3, 4 and 5 need the same room,
  6, and 7 is what the run gives the queue, where the code has 100.
- *Packets.*  Lengths are chosen so that two packets may or may not fit a segment
  (12) and the buffer (14), with a header of 5, so that a packet cut in the middle
  is reached.  Files of up to 5 bytes over a letter and a newline include
  the empty one, blank lines before and after, no final newline, and a line
  longer than the line buffer.

`CHECK_DEADLOCK FALSE` in `startup` and `request_stream`: their end is the end of the
model, when everybody has begun, or all packets are answered or one is torn.  In
`own_queue`: a fault ends a behaviour.  In the Maekawa configurations: clients that have no further
request are done, and `Maekawa` has no end of its own (threads end by the
shutdown of `FileService`).

### Fairness
All fairness is weak and per thread: threads are scheduled by the operating
system and none is suspended for ever; a blocked `read()` returns once there is
data or the peer closed; the loops poll.  In `RicartAgrawala` and `Maekawa` the
critical section is assumed to end (that `FileService` justifies: `Served`
becomes true).  In `FileService` the strategy is assumed to let a waiting client in
(that `RequestServed` of `RicartAgrawala` justifies; Maekawa's does not always).
`NoticeDone` is fair only for the thread of a client's own messages, which polls
the flag; the others may sit in `read()`.  In `Startup` it is enough that some thread
that can take a step does: every step brings its thread forward and none polls.
In `RequestStream` the network delivers and both processes keep running; nothing is
assumed of what the client sends.  `OwnQueue` states no liveness.

### Findings
Each is a run that TLC must find violated.

1. *Ricart-Agrawala does not exclude* (`ra_mutual_exclusion`; RA 68-71).  A
   client finds that it has all permissions and drops the mutex.  A request
   that goes first (a smaller number or, as in the trace, the same and a smaller id)
   arrives; `is_waiting` is set, so the permission is given away.
   The client enters all the same, and so does the other.
2. *Maekawa does not exclude* (`mkw_mutual_exclusion`; MKW 184).  A client finds
   a FAILED among its answers, drops the mutex, and before it locks again the
   FAILED becomes LOCKED and the client enters.  It then answers RELINQUISH and
   the arbiter gives the lock to another.
3. *Maekawa does not always serve* (`mkw_request_served`; MKW 174).  An INQUIRE
   is treated after the client has released the file.  Its loop waits for a FAILED
   or for all LOCKED, which a client without a further request never has; the
   receive thread never treats what that sender sends next.  With three requesters
   at one arbiter there are more ways, named in `ServedUnlessInquiryFails`.
4. *A client may lose a message to itself* (`own_queue_pop`; client.cpp 410-411).
   `top()` has returned a message about one file.  The main thread or a receive
   thread pushes a message about another file with a smaller number.  `pop()`
   removes that one: it is never treated, and the first is treated twice.

What remains true is stated by the properties of the passing runs: without the
stale answer both algorithms keep mutual exclusion (`ExclusiveUnlessOvertaken`,
`ExclusiveUnlessFouled`).  What keeps Maekawa from serving a request is named by
`ServedUnlessInquiryFails`, for behaviours that are never `Unsound`:

- `Blocked`: the loop of `treat_inquire_message()` holds up a message of the same
  sender for ever (MKW 174).  The INQUIRE came after the release; or a
  RELINQUISH waits behind it that this client's own request is waiting for.
- `Unrefused`: a request that waited alone behind a lock got no FAILED (MKW 145), and
  gets none when an earlier one displaces it.  Its client, asked for another
  lock, has neither FAILED nor all LOCKED, and keeps the lock for ever.  For example
  client 1 has the lock of arbiter 2, where client 2 waits alone and client 0 then
  goes first; client 2 has the lock of arbiter 0, which client 0 asks it to give
  back.
- `Dropped`: a FAILED ends the loop, has become LOCKED at the second look, and some
  other lock is still missing: neither branch is taken (MKW 184-193), and the arbiter
  does not ask again, since its `is_inquire_replied` is false.

If each of them always comes to an end, every request is served.  None of the
three can be left out, nor the hypothesis that the behaviour is never `Unsound`:
without any one of them TLC finds the property violated on the same instance.

## 4. The proofs

All theorems are about `Spec` and hold for every value of the constants that the
modules' assumptions allow.

### Ricart-Agrawala
`RicartAgrawalaProofs`:

| Theorem | Statement |
|---|---|
| `TypeCorrect` | `Spec => []TypeOK` |
| `Inductive` | `Spec => []IInv` |
| `PermissionIsUnique`, `RequestIsAccounted` | `Spec => []PermissionUnique`, `Spec => []RequestAccounted` |
| `Exclusion` | `Spec => []ExclusiveUnlessOvertaken` |
| `Implements` | `Spec => KeepsPromise` |
| `EntersInOrder` | `Spec => EntryOrder` |

The assumptions are those of the module: `N` and `n_requests` are natural numbers.

*Why mutual exclusion is not inductive.*  Two clients are excluded because the
permission they share is in one place.  That is not inductive either: in the
beginning there is no permission, and a client that does not compete grants a
request whether it ever held the permission or not.  Nothing is wrong with
granting as long as the other client lacks it and no REPLY from that client is
on its way, so one has to account for requests (`OneRequest`: a client asks `j`
exactly when it waits and lacks `j`'s permission).  A waiting client grants to an
earlier request, and here a permission of `j` may be on its way to it already:
then `j` has yielded it to this client's request, which therefore goes first,
and the earlier request cannot be earlier.  For that argument `Safe` says that a
REQUEST carries its sender's latest number, that a client which asks again after a
REPLY is behind, and that a client has seen the number of any request that it has
answered or deferred.  `Safe(i, j)` is all of this for a pair, and `IInv` is `TypeOK`
with `Safe` of every pair, or `overtaken`.

*Layout.*  The proof fixes a pair and shows that each action preserves its `Safe`:
actions of one of the two, once for each order, and actions of a third client,
which leave the pair alone.  The facts about streams (what `Append` and `Tail` do
to `Has`, `HasTwo` and `Numbered`) are lemmas at the beginning.  `Implements`
maps each action to `Request`, `Enter`, `Release`, `Taint` or a stutter; the step
`Enter` needs `IInv` for `Free`.

`EntersInOrder` adds `OrderInv` to `IInv`: what a client owes while it waits, it
owes to later requests.  A deferred request cannot change its number, since its
client waits until it is answered, and `release_resource()` leaves nothing
deferred that an old comparison could have put there.

### Streams
`StreamLemmas` counts the messages of a type in a stream (`Count`) and says which
of two types comes first (`Ahead`), with what sending to the end and taking from
the front do to both.  The proofs about `Maekawa` and `FileService` use a network
through these lemmas only.

The module also has induction up to a number as a first-order fact (`Climb`: a set
with 0, and with each number below `n` the next, has `n`), which follows from the
pigeonhole principle for finite sets.  With it the recursive functions of `OwnQueue`
and `RequestStream` are shown to have a value everywhere and their properties are
proved by induction.

### Maekawa
`MaekawaTypes` and `MaekawaProofs`:

| Theorem | Statement |
|---|---|
| `TypeCorrect` | `Spec => []TypeOK` |
| `Account` | `Spec => []LockAccounted` |
| `Exclusion` | `Spec => []ExclusiveUnlessFouled` |
| `Kept` | `Spec => []RequestKept` |
| `Earlier` | `Spec => []RelinquishedForEarlier` |
| `QueuedOnce` | `Spec => []QueueIsASet` |
| `NobodyKilled` | no process pops an empty `waiting_queue` unless `fouled` |
| `InquiryAccount` | `Spec => []InquiryConcernsLocker` |
| `Implements` | `Spec => KeepsPromise` |

The assumption that matters is that any two quorums have a client in common.  A
client need not be in its own quorum, and `is_locked` may hold anything at first.

*Types are not inductive.*  `treat_relinquish_message()` queues
`locking_request`, whose sender is nobody at first.  With `is_locked` read as
true from uninitialised memory, the arbiter believes that nobody's request has
the lock, and one has to know that no RELINQUISH and no INQUIRE concerns such a
lock (`AsksNobody` in `TInv`): nobody is behind a request that goes before
all others, so nobody is asked to give the lock back.

*Mutual exclusion.*  In the critical section a client has every lock of its
quorum (`HasEveryLock`), two quorums share an arbiter, and there is one claim to
its lock (`Accounted`).  That a claim is not doubled rests on who gives a lock
back.  `treat_release_message()` and `treat_relinquish_message()` pass the lock on
without looking at the sender, so `Pair(i, a)`, the invariant of a requester and
an arbiter, follows a request from place to place:

- `AtOnePlace` and `ReleasedFirst`: it is on its way, in the queue or with the
  lock, and a RELEASE is treated before the next REQUEST;
- `Current`: what the arbiter knows of it is its latest number;
- `RefusedFirst`: no FAILED comes after the LOCKED of the same request, or it
  would make `treat_inquire_message()` give back a lock the client counts on;
- `AskedForEarlier`: a client that is asked for its lock is asked for an earlier
  request, which is still waiting when the RELINQUISH arrives; this is where
  `RelinquishedForEarlier` and `NobodyKilled` come from;
- `AskedHolder`: `is_inquire_replied` is false for nobody but the holder.

*The queue as a set* (`QueuedOnce`).  A REQUEST that arrives is not in the queue and
has not the lock by `AtOnePlace`; its number need not be new (`FreeForgets`).

`IInv` is `Pair` of every pair, or `fouled`.

*The promise.*  A step that changes a client's phase must not also withdraw the
promise, that is, put a fourth message into a client's own queue.
`request_resource()` and `release_resource()` send to themselves, so `Implements`
needs a bound on what is in the queue at that moment: `Own` counts the
questions a client has asked itself and not answered, and the refusals it has
told itself.  All other steps are stutters or `Taint`; `Enter` needs
`ExclusiveUnlessFouled` of the next state for `Free`.

### FileService
`FileServiceProofs`:

| Theorem | Statement |
|---|---|
| `TypeCorrect` | `Spec => []TypeOK` |
| `Written` | `Spec => []WrittenOnce` |
| `Current` | `Spec => []RepliesAreCurrent` |
| `Replicated` | `Spec => []ReplicasAgree` |
| `LastLineRead` | `Spec => []ReadsLastLine` |
| `Stops` | `NoneLonger` implies `Spec => []StopsAfterAll` |

The assumptions are that there is a server, that the input files are sequences of
commands, and for `Stops` that none is longer than `n_requests`
(`NoneLonger`): a longer one makes client.cpp 624 report too early.  The
generated files have that length.

- *Flags without an identity* (`Exchange`).  Per client and server there is at most
  one trace of the access the client is in: a request, a reply, or the flag
  the reply has set.  Nothing carries a name, but a client leaves the access only
  when all flags are set, and then every trace is a flag.  So a reply belongs to
  the current access, whether the lock excludes or not.
- *Lines* (`Kept`).  The copies of a line in a replica are one when the server has
  treated the WRITE (`Stored`) and none otherwise.
- *Replicas* (`AInv`, until `tainted`).  While somebody writes, there is a file
  to which the servers that have treated the WRITE have added the line
  (`WritesApart`); otherwise the replicas are equal.  The reply to a READ on its
  way, and the result once it is there, is the last line of the file as it is now
  (`Truthful`).  Both need `Exclusive`, which is what `Mutex!Enter` gives.
- *The end* (`SInv`).  A report, a set flag of a server, the news of the end and a
  closed socket each imply that the clients concerned have finished, in this
  order.

### Startup
`StartupProofs`:

| Theorem | Statement |
|---|---|
| `TypeCorrect` | `Spec => []TypeOK` |
| `Strategies` | `Spec => []StrategyBeforeRequest` |
| `OneThread` | `Spec => []OneThreadPerClient` |
| `OnlyEchoesForgotten` | `Spec => []ForgetsOnlyEchoes` |
| `PairsUp` | `Spec => []SocketsPairUp` |

The assumptions are that there is a server, that ids are numbers and addresses
differ.  The table of a server may hold anything at first.

- *Types.*  A client that accepts takes the wire of whoever is first in its
  backlog; that is a connection because nobody is in its own backlog (`TInv`).
- *One thread* (`VInv`).  While a client is in the backlog of a server, there is one
  greeting from it and nothing else (`Visit`): it says more only after it has been
  greeted, and a thread greets it.  So the first `read()` brings one message,
  however long it waits.
- *What is forgotten* (`GInv`).  A lost request for a lock would need a client that
  still accepts while another has its strategies.  `Gate` excludes it across all
  processes: to have the list of files is to have an answer, no server answers
  before it has a socket of every client, and a client connects to the servers
  after it is through with the others (`Talk`).  It ends where a server takes what
  the memory held for a socket (`answered_early`).
- *Pairs* (`LInv`).  `Linked` follows a connection from `connect()` through the
  backlog into the table of the client that accepts.  That alone does not show
  that a client has a socket for everybody at the end of its loop, since a
  connection is accepted in another's turn: `Counted` says that as many have
  been accepted as the loop has passed with lower addresses.  At the end the first
  are among the second and as many, hence the same.  A `connect()` finds its peer
  listening because nobody begins before all have written their lines (`Timely`).

### OwnQueue
`OwnQueueProofs`:

| Theorem | Statement |
|---|---|
| `OwnTypeCorrect` | `Spec => []TypeOK` |
| `NoneDisplaced` | `Spec => []DisplacedByOtherFile` |
| `FifoUnlessStrained` | `max_size >= 3` implies `Spec => []TreatedInOrder` |
| `RoomForAll` | finite `Files` with `2 * Cardinality(Files) + 2 < max_size` implies `Spec => []NothingRefused` |

The assumptions are those of the module, and that the queue has room: for three
messages in the third, since one that is full refuses messages, and those are never
treated; for two messages per file and three more in the last.  The code has room
for 100 (config.h 9), so the last is about clients with up to 48 files, up to
shutdown.  Then one CLIENT_DONE_ALL_REQUEST per server is added (client.cpp 286),
which is not modelled: the thread that would treat them ends after at most one more
message.
`own_queue` has two files and room for 7, the least the theorem allows.

- *Numbers.*  A message carries the highest number its sender knows for the file, and
  no action lowers one, so a new message is not before any of its file (`Stamps`).
  `push()` moves a message up only past later ones: the top stays where it is
  unless another file has it (`DInv`).
- *A FIFO* (`FInv`).  A heap of at most three messages whose vector is in order
  takes a new one at its end (`PushLast`) and gives up its first (`PopFirst`),
  equal numbers included.  With four it does not, which is why `strained`
  counts to four.
- *The heap.*  `PathUp` and `PathDown`, along which `push()` and `pop()` move
  elements, are recursive functions; that they are paths is an induction over
  places with `Climb`.  `push()` and `pop()` only change the order of what is there
  (`PushShuffles`, `PopShuffles`).
- *The dialogue* (`PInv`).  `Dialogue` is about one file: the messages under way between
  our requester and our arbiter, oldest first, and what each of the two believes.  A
  request is in one place (`OnePlace`), a lock has one claim (`OneClaim`), a lock is
  given back before the next REQUEST is treated (`ReleasedFirst`), a FAILED comes before
  the LOCKED of the same request (`RefusedFirst`), and a lock is asked for once, apart
  from one INQUIRE left over from an earlier lock (`AskedOnce`).  It is inductive until
  the first fault, since each message is then treated in the order of sending.
- *Types.*  A RELINQUISH that is treated finds the lock with ourselves
  (`GivenBackMine`), so that nobody is never put into `waiting_queue`.  That the one in
  the heap is the one under way is `RInv`: each RELINQUISH in the heap is alone for
  its file and counted in the dialogue.  It rests on the heap being shuffled only.
- *Room.*  By `Dialogue` at most four messages are under way about the main
  thread's file and two about another (`Few`), and what is in the queue or in hand is
  under way (`HInv`); together this bounds the queue (`UnderWayBound`).

### RequestStream
`RequestStreamProofs`:

| Theorem | Statement |
|---|---|
| `TypeCorrect` | `Spec => []TypeOK` |
| `NoneCut` | `Spec => []CutOnlyWhenCrowded` |
| `NeverCut` | `Spec => [](~torn)` if a segment and the buffer hold `Window` packets of the greatest length |
| `LastLineRead` | `Spec => []ReadsLastLine` |

The assumptions are that a segment and the buffer hold each single packet, that
`fgets()` has room for a byte and its zero, and that what is written has no newline.

- *Bytes.*  `Bytes` is a sum over a prefix of the stream; it grows with every packet
  (`BytesRise`), so bytes and packets can be compared (`BytesOrder`).
- *Whole packets* (`SInv`).  `taken` is the bytes of the packets that were split off
  (`Aligned`).  Until `crowded`, everything that is under way fits one
  segment and one `read()`, so the network delivers up to the end of a packet and
  `read()` takes all of it (`Whole`); of what begins there the last packet ends
  there (`SplitLast`).  When `crowded`, `Aligned` is what keeps the types.
- *Never crowded* (`NeverCut`).  What is under way when a client sends is packets
  that are not answered, so `Window` packets at most.  A client of the program has two,
  of some tens of bytes where the buffer has 8192; whether the network carries them
  together is an assumption about TCP.
- *The last line.*  `Loop` is the loop of `_readLastLineOfFile()`, from the end of the
  file backwards.  `fgets()` stops at each newline, so it comes to the beginning of each
  line (`LineReached`); after the last line that is not blank there are newlines only
  (`BlankAfter`), which leave `prev_buffer` as it is (`BlankTail`); a short line is
  taken as a whole, with its newline or, if it just fills the buffer, without
  (`ShortLine`).  `TextInv` adds that an answer is still the last line, and that a
  file which once ended with a newline ends with what was written.

### Only model-checked
- All liveness (`RequestServed`, `ServedUnlessInquiryFails`, `Termination`,
  `AllGetStarted`, `AllAnswered`): fairness and enabledness are out of the
  prover's reach.
- What the code does after `fouled`, `crowded` or a fault of `OwnQueue`: the theorems
  claim nothing of it, and the runs that expect a violation show no more than how it
  comes about.

Every safety invariant of a passing run is stated by a theorem.

## 5. Not modelled, and why

- *Several files in one client* only in `OwnQueue`, which has the queue they share.
  The algorithms are otherwise per file: each file has its own strategy objects,
  and a client works on one file at a time but answers for all.  What a lost or
  doubled own message does to Maekawa's algorithm is not followed.
- *A client's CLIENT_DONE_ALL_REQUEST to itself* (client.cpp 283-288, once per
  server).  The flag is set before it is sent, so `handleSelfMessages()` ends after at
  most one more message; `FileService` has that end, and `OwnQueue` ends before.
- *SIGPIPE.*  No handler is installed; a second `send()` on a reset connection ends
  the process.  `FileService` takes the message to be lost.
- *Input files of another length than `n_requests`*, other than that nobody
  reports (client.cpp 624).  ENQUIRY commands in an input file.
- *After undefined behaviour*: a process that pops an empty queue, or reads a list
  that is being moved, is taken to end; a torn packet ends the model.
- *Configuration files and the random generator of input files*: they run once in
  one thread before anything else, and the models take any quorums that meet and
  any commands.  A file name with `#`, `;` or a blank in it would be cut by
  `splitString()`; names are atoms here.
- *Log files of an earlier run*: the wait of `run()` counts lines of files that are
  opened for appending.  The scripts delete them first; `Startup` begins without.
- *A server that fails or is not there*: `check()` ends a process whose socket calls
  fail, and nobody restarts one.  `ConnectToServer` and `ConnectToOtherClient` have
  the branch of a peer that does not listen; the wait for all lines makes it
  unreachable, which `SocketsPairUp` shows for clients.
- *Lamport clock*: its order is used by nothing but the content of the lines;
  `updateTimestamp()` has no caller outside the tests.
- *Logger, programs, scripts*: input and output only.

## 6. Plan

Done: `AbstractMutex`, `RicartAgrawala` with its proofs, `Maekawa`, `FileService`,
`Startup`, `OwnQueue`, `RequestStream`.  Left to model: shutdown with SIGPIPE and
unequal lengths of input files, as an extension of `FileService`.

The safety invariants of the passing runs are proved.  What remains to state: the
invariants of `Maekawa` with `OwnQueue`'s heap in the place of its streams, for a
client whose queue is `strained`, and with it the effect of a message treated out of
turn on the lock.
