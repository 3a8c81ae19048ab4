----------------------------- MODULE FileService -----------------------------
(***************************************************************************)
(* Clients read and write a file that every server hosts, and everybody    *)
(* stops when all clients are done.                                        *)
(*                                                                         *)
(* A client's main thread works through the commands of its input file.  It*)
(* performs each one in a critical section, which the strategy grants as   *)
(* AbstractMutex says: RicartAgrawala and Maekawa implement that module.  A*)
(* READ goes to one server, a WRITE to all.  The replies come in on the    *)
(* client's receive threads, one per server, and a server has one thread   *)
(* per client; the handlers of one server run one at a time (g_mutex).     *)
(*                                                                         *)
(* After its last access, still in the critical section, a client reports  *)
(* to all servers.  A server that has every report answers each client, and*)
(* a client that has an answer tells all clients.  The messages end the    *)
(* receive threads, which close their sockets, which ends the threads at   *)
(* the other ends.                                                         *)
(***************************************************************************)
EXTENDS Integers, Sequences, FiniteSets

CONSTANTS
  Clients,
  Servers,
  inputs,      \* possible input files: sequences of commands
  n_requests   \* requests per client, from the command line

Read(s) == [type |-> "read", server |-> s]
Write == [type |-> "write"]
Commands == {Read(s) : s \in Servers} \union {Write}

ASSUME InputsAssumption == inputs \subseteq Seq(Commands)
ASSUME RequestsAssumption == n_requests \in Nat
ASSUME ServersAssumption == Servers # {}

VARIABLES
  \* The strategy's promise, AbstractMutex.
  phase,
  tainted,
  \* A client's main thread.
  input,                      \* [c]: the commands of its input file
  n_requested_requests,       \* [c]: how many of them it has begun
  reported,                   \* [c]: the access is over, and reported if it
                              \*   was the last
  \* Flags the receive threads set for the main thread.
  server_done_read_request,   \* [c]
  server_done_write_request,  \* [c][s]
  read_result,                \* [c]: the line c read last
  \* A client's receive threads.
  server_link,                \* [c][s]: the thread for s runs
  client_link,                \* [c][d]: the thread for d runs
  all_clients_done_all_request,  \* [c]
  \* A server.
  file,                       \* [s]: the lines of the file
  server_thread,              \* [s][c]: where the thread for c is
  client_done_all_request,    \* [s][c]
  \* Messages on their way.
  to_server,                  \* [c][s]
  to_client,                  \* [s][c]
  told                        \* [c][d]: a CLIENT_DONE_ALL_REQUEST from c to d

mutex == <<phase, tainted>>
main == <<input, n_requested_requests, reported>>
flags == <<server_done_read_request, server_done_write_request, read_result>>
links == <<server_link, client_link, all_clients_done_all_request, told>>
server == <<file, server_thread, client_done_all_request>>
streams == <<to_server, to_client>>
vars == <<mutex, main, flags, links, server, streams>>

Mutex == INSTANCE AbstractMutex

-----------------------------------------------------------------------------
\* What c appends to the file in its n-th request: its id and its clock, which
\* differs from one request to the next.
Line(c, n) == [client |-> c, number |-> n]

\* The file is not empty at first.
FirstLine == [client |-> "nobody", number |-> 0]

Lines == [client : Clients, number : Nat] \union {FirstLine}

Message == [type : {"READ", "WRITE", "DONE", "ALL_DONE"}, line : Lines]
Msg(t, l) == [type |-> t, line |-> l]

LastLine(f) == f[Len(f)]

Command(c) == input[c][n_requested_requests[c]]

Init ==
  /\ Mutex!Init
  /\ input \in [Clients -> inputs]
  /\ n_requested_requests = [c \in Clients |-> 0]
  /\ reported = [c \in Clients |-> FALSE]
  /\ server_done_read_request = [c \in Clients |-> FALSE]
  /\ server_done_write_request = [c \in Clients |-> [s \in Servers |-> FALSE]]
  /\ read_result = [c \in Clients |-> FirstLine]
  /\ server_link = [c \in Clients |-> [s \in Servers |-> TRUE]]
  /\ client_link = [c \in Clients |-> [d \in Clients |-> TRUE]]
  /\ all_clients_done_all_request = [c \in Clients |-> FALSE]
  /\ file = [s \in Servers |-> <<FirstLine>>]
  /\ server_thread = [s \in Servers |-> [c \in Clients |-> "reading"]]
  /\ client_done_all_request = [s \in Servers |-> [c \in Clients |-> FALSE]]
  /\ to_server = [c \in Clients |-> [s \in Servers |-> <<>>]]
  /\ to_client = [s \in Servers |-> [c \in Clients |-> <<>>]]
  /\ told = [c \in Clients |-> [d \in Clients |-> FALSE]]

-----------------------------------------------------------------------------
(***************************************************************************)
(* The client's main thread.                                               *)
(***************************************************************************)

\* c sends m to the servers of dests.
SendToServers(c, dests, m) ==
  to_server' = [to_server EXCEPT ![c] =
    [s \in Servers |-> IF s \in dests THEN Append(@[s], m) ELSE @[s]]]

RequestCriticalSection(c) ==
  /\ n_requested_requests[c] < Len(input[c])
  /\ Mutex!Request(c)
  /\ n_requested_requests' = [n_requested_requests EXCEPT ![c] = @ + 1]
  /\ UNCHANGED <<input, reported, flags, links, server, streams>>

\* A variant that does not reset the flag.
RequestReadAgain(c) ==
  /\ Mutex!Enter(c)
  /\ Command(c) # Write
  /\ SendToServers(c, {Command(c).server}, Msg("READ", FirstLine))
  /\ UNCHANGED <<main, flags, links, server, to_client>>

RequestRead(c) ==
  /\ Mutex!Enter(c)
  /\ Command(c) # Write
  /\ server_done_read_request' = [server_done_read_request EXCEPT ![c] = FALSE]
  /\ SendToServers(c, {Command(c).server}, Msg("READ", FirstLine))
  /\ UNCHANGED <<main, server_done_write_request, read_result, links, server,
                 to_client>>

\* A variant that does not reset the flags.
RequestWriteAgain(c) ==
  /\ Mutex!Enter(c)
  /\ Command(c) = Write
  /\ SendToServers(c, Servers, Msg("WRITE", Line(c, n_requested_requests[c])))
  /\ UNCHANGED <<main, flags, links, server, to_client>>

RequestWrite(c) ==
  /\ Mutex!Enter(c)
  /\ Command(c) = Write
  /\ server_done_write_request' = [server_done_write_request EXCEPT
       ![c] = [s \in Servers |-> FALSE]]
  /\ SendToServers(c, Servers, Msg("WRITE", Line(c, n_requested_requests[c])))
  /\ UNCHANGED <<main, server_done_read_request, read_result, links, server,
                 to_client>>

\* A variant that waits for one reply to a WRITE.
ServedByOne(c) ==
  IF Command(c) = Write THEN \E s \in Servers : server_done_write_request[c][s]
                        ELSE server_done_read_request[c]

\* The loop at the end of requestRead() or requestWrite() ends.
Served(c) ==
  IF Command(c) = Write THEN \A s \in Servers : server_done_write_request[c][s]
                        ELSE server_done_read_request[c]

IsLastRequest(c) == n_requested_requests[c] = n_requests

FinishAccess(c) ==
  /\ phase[c] = "using"
  /\ ~reported[c]
  /\ Served(c)
  /\ reported' = [reported EXCEPT ![c] = TRUE]
  /\ IF IsLastRequest(c) THEN SendToServers(c, Servers, Msg("DONE", FirstLine))
                         ELSE UNCHANGED to_server
  /\ UNCHANGED <<mutex, input, n_requested_requests, flags, links, server,
                 to_client>>

\* A variant that forgets to start afresh.
ReleaseReported(c) ==
  /\ reported[c]
  /\ Mutex!Release(c)
  /\ UNCHANGED <<main, flags, links, server, streams>>

ReleaseResource(c) ==
  /\ reported[c]
  /\ Mutex!Release(c)
  /\ reported' = [reported EXCEPT ![c] = FALSE]
  /\ UNCHANGED <<input, n_requested_requests, flags, links, server, streams>>

-----------------------------------------------------------------------------
(***************************************************************************)
(* Server s's thread for client c.  A client has at most one message on its*)
(* way to a server, so each read() returns one packet.                     *)
(***************************************************************************)
Receive(s, c, t) ==
  /\ server_thread[s][c] = "reading"
  /\ to_server[c][s] # <<>>
  /\ Head(to_server[c][s]).type = t
  /\ to_server' = [to_server EXCEPT ![c][s] = Tail(@)]
  /\ server_thread' = [server_thread EXCEPT ![s][c] = "checking"]
  /\ UNCHANGED <<mutex, main, flags, links>>

Reply(s, c, m) == to_client' = [to_client EXCEPT ![s][c] = Append(@, m)]

HandleReadRequest(s, c) ==
  /\ Receive(s, c, "READ")
  /\ Reply(s, c, Msg("READ", LastLine(file[s])))
  /\ UNCHANGED <<file, client_done_all_request>>

HandleWriteRequest(s, c) ==
  LET line == Head(to_server[c][s]).line IN
  /\ Receive(s, c, "WRITE")
  /\ file' = [file EXCEPT ![s] = Append(@, line)]
  /\ Reply(s, c, Msg("WRITE", line))
  /\ UNCHANGED client_done_all_request

\* A variant that keeps the last report only.
HandleLastReport(s, c) ==
  /\ Receive(s, c, "DONE")
  /\ client_done_all_request' = [client_done_all_request EXCEPT
       ![s] = [d \in Clients |-> d = c]]
  /\ UNCHANGED <<file, to_client>>

HandleDoneAllRequest(s, c) ==
  /\ Receive(s, c, "DONE")
  /\ client_done_all_request' = [client_done_all_request EXCEPT ![s][c] = TRUE]
  /\ UNCHANGED <<file, to_client>>

\* A variant that is content with one report.
AnyClientDone(s) == \E d \in Clients : client_done_all_request[s][d]

AllClientsDone(s) == \A d \in Clients : client_done_all_request[s][d]

\* The thread looks at all flags after each read().  Two threads may both find
\* the last one set: a client is answered more than once.  What is sent to a
\* closed socket is lost.
CheckAllClientsDone(s, c) ==
  /\ server_thread[s][c] = "checking"
  /\ server_thread' = [server_thread EXCEPT ![s][c] = "reading"]
  /\ to_client' = [to_client EXCEPT ![s] =
       [d \in Clients |-> IF AllClientsDone(s) /\ server_link[d][s]
                            THEN Append(@[d], Msg("ALL_DONE", FirstLine))
                            ELSE @[d]]]
  /\ UNCHANGED <<mutex, main, flags, links, file, client_done_all_request,
                 to_server>>

\* read() returns 0.
ServerThreadEnds(s, c) ==
  /\ server_thread[s][c] = "reading"
  /\ to_server[c][s] = <<>> /\ ~server_link[c][s]
  /\ server_thread' = [server_thread EXCEPT ![s][c] = "ended"]
  /\ UNCHANGED <<mutex, main, flags, links, file, client_done_all_request,
                 streams>>

-----------------------------------------------------------------------------
(***************************************************************************)
(* Client c's receive thread for server s.                                 *)
(***************************************************************************)
TakeReply(c, s, t) ==
  /\ server_link[c][s]
  /\ to_client[s][c] # <<>>
  /\ Head(to_client[s][c]).type = t
  /\ UNCHANGED <<mutex, main, server, to_server>>

\* Once all clients are done the loop of the thread ends and the socket is
\* closed, with what was not read.
TakeNext(c, s, done) ==
  /\ to_client' = [to_client EXCEPT ![s][c] = IF done THEN <<>> ELSE Tail(@)]
  /\ server_link' = [server_link EXCEPT ![c][s] = ~done]

ReceiveReadResult(c, s) ==
  /\ TakeReply(c, s, "READ")
  /\ server_done_read_request' = [server_done_read_request EXCEPT ![c] = TRUE]
  /\ read_result' = [read_result EXCEPT ![c] = Head(to_client[s][c]).line]
  /\ TakeNext(c, s, all_clients_done_all_request[c])
  /\ UNCHANGED <<server_done_write_request, client_link,
                 all_clients_done_all_request, told>>

ReceiveWriteResult(c, s) ==
  /\ TakeReply(c, s, "WRITE")
  /\ server_done_write_request' = [server_done_write_request EXCEPT
       ![c][s] = TRUE]
  /\ TakeNext(c, s, all_clients_done_all_request[c])
  /\ UNCHANGED <<server_done_read_request, read_result, client_link,
                 all_clients_done_all_request, told>>

\* A client's messages to itself stay in its own process.
Connected(c, d) == client_link[c][d] /\ client_link[d][c]

ReceiveAllDone(c, s) ==
  /\ TakeReply(c, s, "ALL_DONE")
  /\ all_clients_done_all_request' =
       [all_clients_done_all_request EXCEPT ![c] = TRUE]
  /\ told' = [told EXCEPT
       ![c] = [d \in Clients |-> @[d] \/ Connected(c, d)]]
  /\ TakeNext(c, s, TRUE)
  /\ UNCHANGED <<client_link, flags>>

-----------------------------------------------------------------------------
(***************************************************************************)
(* Client c's receive thread for client d, as far as it does not concern   *)
(* the strategy.                                                           *)
(***************************************************************************)

\* The socket is closed, with what was not read.
ClientThreadEnds(c, d) ==
  /\ client_link[c][d]
  /\ client_link' = [client_link EXCEPT ![c][d] = FALSE]
  /\ told' = [told EXCEPT ![d][c] = FALSE]
  /\ UNCHANGED <<mutex, main, flags, server_link, server, streams>>

ReceiveDone(c, d) ==
  /\ told[d][c]
  /\ all_clients_done_all_request' =
       [all_clients_done_all_request EXCEPT ![c] = TRUE]
  /\ ClientThreadEnds(c, d)

\* read() returns 0.
LoseConnection(c, d) ==
  /\ ~told[d][c] /\ ~client_link[d][c] /\ c # d
  /\ ClientThreadEnds(c, d)
  /\ UNCHANGED all_clients_done_all_request

\* The thread for c itself polls the flag; the others look at it after the next
\* message, and a last one of the strategy may come.
NoticeDone(c, d) ==
  /\ all_clients_done_all_request[c]
  /\ ClientThreadEnds(c, d)
  /\ UNCHANGED all_clients_done_all_request

-----------------------------------------------------------------------------
MainThread(c) ==
  \/ RequestCriticalSection(c)
  \/ RequestRead(c)
  \/ RequestWrite(c)
  \/ FinishAccess(c)
  \/ ReleaseResource(c)

ServerThread(s, c) ==
  \/ HandleReadRequest(s, c)
  \/ HandleWriteRequest(s, c)
  \/ HandleDoneAllRequest(s, c)
  \/ CheckAllClientsDone(s, c)
  \/ ServerThreadEnds(s, c)

ThreadForServer(c, s) ==
  \/ ReceiveReadResult(c, s)
  \/ ReceiveWriteResult(c, s)
  \/ ReceiveAllDone(c, s)

ThreadForClient(c, d) ==
  \/ ReceiveDone(c, d)
  \/ LoseConnection(c, d)

\* The strategy withdraws its promise.
LockFails ==
  /\ Mutex!Taint
  /\ UNCHANGED <<main, flags, links, server, streams>>

\* Every process joins all of its threads before it ends.
ClientEnded(c) ==
  /\ n_requested_requests[c] = Len(input[c]) /\ phase[c] = "idle"
  /\ \A s \in Servers : ~server_link[c][s]
  /\ \A d \in Clients : ~client_link[c][d]

ServerEnded(s) == \A c \in Clients : server_thread[s][c] = "ended"

Ended ==
  /\ \A c \in Clients : ClientEnded(c)
  /\ \A s \in Servers : ServerEnded(s)

Terminated == Ended /\ UNCHANGED vars

Next ==
  \/ \E c \in Clients :
       \/ MainThread(c)
       \/ \E s \in Servers : ServerThread(s, c) \/ ThreadForServer(c, s)
       \/ \E d \in Clients : ThreadForClient(c, d) \/ NoticeDone(c, d)
  \/ LockFails
  \/ Terminated

\* Every thread keeps running; of the threads that may notice the flag only the
\* one for the client itself must.  That main threads enter their critical
\* sections is what the strategy owes them.
Fairness ==
  \A c \in Clients :
    /\ WF_vars(MainThread(c))
    /\ \A s \in Servers : WF_vars(ServerThread(s, c))
    /\ \A s \in Servers : WF_vars(ThreadForServer(c, s))
    /\ \A d \in Clients : WF_vars(ThreadForClient(c, d))
    /\ WF_vars(NoticeDone(c, c))

Spec == Init /\ [][Next]_vars

FairSpec == Spec /\ Fairness

-----------------------------------------------------------------------------
(***************************************************************************)
(* Properties.                                                             *)
(***************************************************************************)

\* Every variable has the type its declaration in client.h or server.h gives it;
\* no client makes more requests than its input file has commands, and a client
\* reports only from its critical section.
TypeOK ==
  /\ phase \in [Clients -> Mutex!Phases] /\ tainted \in BOOLEAN
  /\ input \in [Clients -> inputs]
  /\ n_requested_requests \in [Clients -> Nat]
  /\ reported \in [Clients -> BOOLEAN]
  /\ server_done_read_request \in [Clients -> BOOLEAN]
  /\ server_done_write_request \in [Clients -> [Servers -> BOOLEAN]]
  /\ read_result \in [Clients -> Lines]
  /\ server_link \in [Clients -> [Servers -> BOOLEAN]]
  /\ client_link \in [Clients -> [Clients -> BOOLEAN]]
  /\ all_clients_done_all_request \in [Clients -> BOOLEAN]
  /\ file \in [Servers -> Seq(Lines)]
  /\ server_thread \in
       [Servers -> [Clients -> {"reading", "checking", "ended"}]]
  /\ client_done_all_request \in [Servers -> [Clients -> BOOLEAN]]
  /\ to_server \in [Clients -> [Servers -> Seq(Message)]]
  /\ to_client \in [Servers -> [Clients -> Seq(Message)]]
  /\ told \in [Clients -> [Clients -> BOOLEAN]]
  /\ \A c \in Clients :
       /\ n_requested_requests[c] <= Len(input[c])
       /\ reported[c] => phase[c] = "using"

\* c has begun to write and has not seen all replies.
Writing(c) == phase[c] = "using" /\ Command(c) = Write /\ ~Served(c)

CurrentLine(c) == Line(c, n_requested_requests[c])

\* The replicas are equal, save for the line that is being written: the promise
\* of README.md that a WRITE keeps them consistent, which the handlers of the
\* servers keep because the clients write one at a time.
ReplicasAgree ==
  tainted \/ \E s \in Servers : \A t \in Servers :
    \/ file[t] = file[s]
    \/ \E c \in Clients : Writing(c) /\ file[t] = Append(file[s], CurrentLine(c))

\* What a READ returns from one server is the last line of the file at every
\* server, and still is when the client goes on: a flag left over from an
\* earlier READ never ends requestRead() early.
ReadsLastLine ==
  tainted \/ \A c \in Clients :
    phase[c] = "using" /\ Command(c) # Write /\ Served(c)
      => \A s \in Servers : read_result[c] = LastLine(file[s])

\* How many of the lines of f are l.
Copies(f, l) == Cardinality({k \in 1 .. Len(f) : f[k] = l})

\* c's n-th request is a WRITE; all of its replies have come.
Wrote(c, n) ==
  /\ n <= n_requested_requests[c] /\ input[c][n] = Write
  /\ n = n_requested_requests[c]
       => phase[c] # "waiting" /\ (phase[c] = "using" => Served(c))

\* A WRITE that is over is in every replica once, one that is not is there at
\* most once, and nothing else is written: true even of clients that write at
\* the same time.
WrittenOnce ==
  \A c \in Clients, s \in Servers : \A n \in 1 .. Len(input[c]) :
    /\ Copies(file[s], Line(c, n)) <= 1
    /\ Wrote(c, n) => Copies(file[s], Line(c, n)) = 1
    /\ n > n_requested_requests[c] \/ input[c][n] # Write
         => Copies(file[s], Line(c, n)) = 0

\* A request or reply on its way belongs to the access that its client is
\* waiting for: no reply is left over that could end a later requestRead() or
\* requestWrite().
RepliesAreCurrent ==
  \A c \in Clients, s \in Servers :
    \/ phase[c] = "using" /\ ~Served(c)
    \/ /\ \A k \in 1 .. Len(to_server[c][s]) : to_server[c][s][k].type = "DONE"
       /\ \A k \in 1 .. Len(to_client[s][c]) :
            to_client[s][c][k].type = "ALL_DONE"

\* A client learns that all are done only when they are: every request of every
\* client has been served, so no thread stops that another client needs.
StopsAfterAll ==
  \A c, d \in Clients :
    all_clients_done_all_request[c] \/ ~client_link[c][d] =>
      \A e \in Clients :
        /\ n_requested_requests[e] = Len(input[e])
        /\ phase[e] = "idle" \/ (phase[e] = "using" /\ Served(e))

\* The program ends: every client gets the answer of every server, although
\* sockets are closed while answers are still on their way.
Termination == <>Ended

=============================================================================
