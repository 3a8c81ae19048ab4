------------------------------- MODULE Startup -------------------------------
(***************************************************************************)
(* From the start of the processes to a client's first request for a lock. *)
(*                                                                         *)
(* Every node listens and then writes a line to a log file that all share; *)
(* a client waits until it finds a line of every node.  Of two clients the *)
(* one with the lower address connects and the other accepts.  A client    *)
(* that accepts takes whichever connection is first in its backlog and     *)
(* learns from the first packet whose it is; what else that one read()     *)
(* brought is forgotten.  Then the client connects to the servers, exchan- *)
(* ges greetings with each and asks one of them for the list of files.  The*)
(* answer lets it create the strategies and the threads for the other      *)
(* clients' messages, write its input file and begin.                      *)
(*                                                                         *)
(* A server answers nothing before all clients are connected to it.  That  *)
(* barrier keeps the first requests out of the read() in accepting clients.*)
(***************************************************************************)
EXTENDS Integers, Sequences, FiniteSets, FiniteSetsExt, Functions

CONSTANTS
  Clients,       \* client ids, 0 .. n_clients - 1
  Servers,       \* server ids, 0 .. n_servers - 1
  addresses,     \* orders the clients' addresses may have
  fresh_memory   \* what a server's client_sockfd may hold at first

\* Places of client_sockfd: no socket, what the memory held, connect() failed.
None == <<>>
Garbage == <<-1>>
Failed == <<-2>>

\* A connection is the pair of the client that connects and the one that
\* accepts.
Connections == {k \in Clients \X Clients : k[1] # k[2]}

ASSUME IdsAssumption == Clients \subseteq Nat /\ Servers \subseteq Nat
ASSUME SomeServer == Servers # {} /\ IsFiniteSet(Servers)
ASSUME AddressesAssumption ==
  \A a \in addresses :
    /\ a \in [Clients -> Nat]
    /\ \A c, d \in Clients : a[c] = a[d] => c = d
ASSUME MemoryAssumption == fresh_memory \subseteq [Clients -> {None, Garbage}]

VARIABLES
  address,          \* [c]: rank of c's address; never changes
  \* A client's main thread.
  step,             \* [c]: where run() is
  next,             \* [c]: the index of the loop it is in
  client_sockfd,    \* [c][d]: None, Failed or a connection
  backlog,          \* [c]: clients whose connection c has not accepted yet
  \* The answer to ENQUIRY.
  list_files,                   \* [c]: "empty", "files", or "moving"
  critical_section_alg_init,    \* [c]: the strategies exist
  server_done_enquiry_request,  \* [c]
  enquiry_thread,   \* [c]: where the thread that receives the answer is
  \* A server.
  serving,          \* [s]: where the main thread is
  server_backlog,   \* [s]: clients it has not accepted yet
  server_client_sockfd,   \* [s][c]: None, Garbage or <<c>>
  threads,          \* [s][c]: the places of the threads created for c
  \* Messages on their way.
  wire,             \* [k][c]: to client c over connection k
  to_server,        \* [c][s]
  to_client,        \* [s][c]
  \* What happened; no action reads these.
  treated,          \* [c]: clients whose request has been treated
  forgotten,        \* [c]: types of packets c read and never looked at
  answered_early    \* a server answered before all clients were connected

main == <<step, next>>
enquiry == <<list_files, critical_section_alg_init,
             server_done_enquiry_request, enquiry_thread>>
peers == <<client_sockfd, backlog, wire>>
server == <<serving, server_backlog, server_client_sockfd, threads>>
streams == <<to_server, to_client>>
history == <<treated, forgotten, answered_early>>
vars == <<address, main, enquiry, peers, server, streams, history>>

Steps == {"down", "listening", "waiting", "peers", "servers", "greetings",
          "enquire", "enquiring", "generate", "ready", "crashed"}

\* An echo, a request for a lock, a CLIENT_ENQUIRY and its answer.
MessageType == {"echo", "lock", "enquiry", "files"}

Init ==
  /\ address \in addresses
  /\ step = [c \in Clients |-> "down"]
  /\ next = [c \in Clients |-> 0]
  /\ client_sockfd = [c \in Clients |-> [d \in Clients |-> None]]
  /\ backlog = [c \in Clients |-> <<>>]
  /\ list_files = [c \in Clients |-> "empty"]
  /\ critical_section_alg_init = [c \in Clients |-> FALSE]
  /\ server_done_enquiry_request = [c \in Clients |-> FALSE]
  /\ enquiry_thread = [c \in Clients |-> "reading"]
  /\ serving = [s \in Servers |-> "down"]
  /\ server_backlog = [s \in Servers |-> <<>>]
  /\ server_client_sockfd \in [Servers -> fresh_memory]
  /\ threads = [s \in Servers |-> [c \in Clients |-> <<>>]]
  /\ wire = [k \in Connections |-> [c \in Clients |-> <<>>]]
  /\ to_server = [c \in Clients |-> [s \in Servers |-> <<>>]]
  /\ to_client = [s \in Servers |-> [c \in Clients |-> <<>>]]
  /\ treated = [c \in Clients |-> {}]
  /\ forgotten = [c \in Clients |-> {}]
  /\ answered_early = FALSE

-----------------------------------------------------------------------------
(***************************************************************************)
(* A node listens, then writes its line.                                   *)
(***************************************************************************)
StartServerSocket(c) ==
  /\ step[c] = "down"
  /\ step' = [step EXCEPT ![c] = "listening"]
  /\ UNCHANGED <<address, next, enquiry, peers, server, streams, history>>

WriteLine(c) ==
  /\ step[c] = "listening"
  /\ step' = [step EXCEPT ![c] = "waiting"]
  /\ UNCHANGED <<address, next, enquiry, peers, server, streams, history>>

Listening(c) == step[c] # "down"
HasLine(c) == step[c] \notin {"down", "listening"}

ServerListening(s) == serving[s] # "down"
ServerHasLine(s) == serving[s] \notin {"down", "listening"}

ServerStarts(s) ==
  /\ serving[s] \in {"down", "listening"}
  /\ serving' = [serving EXCEPT
       ![s] = IF @ = "down" THEN "listening" ELSE "accepting"]
  /\ UNCHANGED <<address, main, enquiry, peers, server_backlog,
                 server_client_sockfd, threads, streams, history>>

\* As many lines as nodes.
AllStarted == /\ \A c \in Clients : HasLine(c)
              /\ \A s \in Servers : ServerHasLine(s)

WaitForAllNodes(c) ==
  /\ step[c] = "waiting"
  /\ AllStarted
  /\ step' = [step EXCEPT ![c] = "peers"]
  /\ UNCHANGED <<address, next, enquiry, peers, server, streams, history>>

-----------------------------------------------------------------------------
(***************************************************************************)
(* Connections between clients.                                            *)
(***************************************************************************)
\* A variant without "if (i == id) continue".
PeersAndSelf(c) == {d \in Clients : d >= next[c]}

PeersLeft(c) == {d \in Clients \ {c} : d >= next[c]}

Peer(c) == Min(PeersLeft(c))

\* wire after a client with the sockets of sockfd has sent a message of type t
\* to every client of dests.  What is written to a socket of none is lost.
SendToClients(sockfd, dests, t) ==
  [k \in Connections |-> [d \in Clients |->
     IF d \in dests /\ sockfd[d] = k
     THEN Append(wire[k][d], t)
     ELSE wire[k][d]]]

\* read() returns the first n packets of the stream s; what follows the first
\* one is not looked at.
Unseen(s, n) == {s[i] : i \in 2 .. n}

ConnectToOtherClient(c) ==
  /\ step[c] = "peers"
  /\ PeersLeft(c) # {}
  /\ LET d == Peer(c) IN
       /\ address[c] < address[d]
       /\ client_sockfd' = [client_sockfd EXCEPT
            ![c][d] = IF Listening(d) THEN <<c, d>> ELSE Failed]
       /\ backlog' = [backlog EXCEPT
            ![d] = IF Listening(d) THEN Append(@, c) ELSE @]
       /\ wire' = SendToClients(client_sockfd'[c], {d}, "echo")
       /\ next' = [next EXCEPT ![c] = d + 1]
  /\ UNCHANGED <<address, step, enquiry, server, streams, history>>

\* A variant that stores the connection under the index of the loop.
ExpectedClientId(c) == Peer(c)

\* The sender of the first packet is the client that has connected.
RealClientId(c) == Head(backlog[c])

AcceptOtherClient(c) ==
  /\ step[c] = "peers"
  /\ PeersLeft(c) # {}
  /\ ~(address[c] < address[Peer(c)])
  /\ backlog[c] # <<>>
  /\ LET k == <<Head(backlog[c]), c>> IN
       \E n \in 1 .. Len(wire[k][c]) :
         /\ wire' = [wire EXCEPT ![k][c] = SubSeq(@, n + 1, Len(@))]
         /\ forgotten' = [forgotten EXCEPT
              ![c] = @ \union Unseen(wire[k][c], n)]
         /\ client_sockfd' = [client_sockfd EXCEPT ![c][RealClientId(c)] = k]
  /\ backlog' = [backlog EXCEPT ![c] = Tail(@)]
  /\ next' = [next EXCEPT ![c] = Peer(c) + 1]
  /\ UNCHANGED <<address, step, enquiry, server, streams, treated,
                 answered_early>>

TestClientsCommunicate(c) ==
  /\ step[c] = "peers"
  /\ PeersLeft(c) = {}
  /\ wire' = SendToClients(client_sockfd[c], Clients \ {c}, "echo")
  /\ step' = [step EXCEPT ![c] = "servers"]
  /\ next' = [next EXCEPT ![c] = Min(Servers)]
  /\ UNCHANGED <<address, enquiry, client_sockfd, backlog, server, streams,
                 history>>

-----------------------------------------------------------------------------
(***************************************************************************)
(* Connections to the servers.                                             *)
(***************************************************************************)
\* A variant whose loop runs one index too far.
OneServerMore(c, after) ==
  LET last == next[c] > Max(Servers) IN
  /\ step' = [step EXCEPT ![c] = IF last THEN after ELSE @]
  /\ next' = [next EXCEPT ![c] = IF last THEN 0 ELSE @ + 1]

\* The loop over the servers goes on, or ends at the step after.
NextServer(c, after) ==
  LET left == {s \in Servers : s > next[c]} IN
  /\ step' = [step EXCEPT ![c] = IF left = {} THEN after ELSE @]
  /\ next' = [next EXCEPT ![c] = Min(IF left = {} THEN Servers ELSE left)]

ConnectToServer(c) ==
  /\ step[c] = "servers"
  /\ IF ServerListening(next[c])
     THEN /\ server_backlog' = [server_backlog EXCEPT ![next[c]] = Append(@, c)]
          /\ to_server' = [to_server EXCEPT ![c][next[c]] = Append(@, "echo")]
     ELSE UNCHANGED <<server_backlog, to_server>>
  /\ NextServer(c, "greetings")
  /\ UNCHANGED <<address, enquiry, peers, serving, server_client_sockfd,
                 threads, to_client, history>>

\* A variant that greets without being greeted.
GreetServer(c) ==
  /\ step[c] = "greetings"
  /\ to_server' = [to_server EXCEPT ![c][next[c]] = Append(@, "echo")]
  /\ NextServer(c, "enquire")
  /\ UNCHANGED <<address, enquiry, peers, server, to_client, history>>

TestServerCommunicate(c) ==
  /\ step[c] = "greetings"
  /\ LET s == next[c]
         in == to_client[s][c]
     IN \E n \in 1 .. Len(in) :
          /\ to_client' = [to_client EXCEPT ![s][c] = SubSeq(@, n + 1, Len(@))]
          /\ forgotten' = [forgotten EXCEPT ![c] = @ \union Unseen(in, n)]
          /\ to_server' = [to_server EXCEPT
               ![c][s] = IF Head(in) = "echo" THEN Append(@, "echo") ELSE @]
  /\ NextServer(c, "enquire")
  /\ UNCHANGED <<address, enquiry, peers, server, treated, answered_early>>

-----------------------------------------------------------------------------
(***************************************************************************)
(* The list of files.                                                      *)
(***************************************************************************)

\* createThreadToHandleServersMessages(), and the question to some server.
EnquireListOfHostedFiles(c) ==
  /\ step[c] = "enquire"
  /\ server_done_enquiry_request' =
       [server_done_enquiry_request EXCEPT ![c] = FALSE]
  /\ \E s \in Servers :
       to_server' = [to_server EXCEPT ![c][s] = Append(@, "enquiry")]
  /\ step' = [step EXCEPT ![c] = "enquiring"]
  /\ UNCHANGED <<address, next, list_files, critical_section_alg_init,
                 enquiry_thread, peers, server, to_client, history>>

\* The receive thread: list_files and the strategies ...
ReceiveEnquireResult(c) ==
  /\ step[c] \in {"enquiring", "generate", "ready"}
  /\ enquiry_thread[c] = "reading"
  /\ \E s \in Servers :
       /\ to_client[s][c] # <<>>
       /\ Head(to_client[s][c]) = "files"
       /\ to_client' = [to_client EXCEPT ![s][c] = Tail(@)]
  /\ list_files' = [list_files EXCEPT ![c] = "files"]
  /\ critical_section_alg_init' =
       [critical_section_alg_init EXCEPT ![c] = TRUE]
  /\ enquiry_thread' = [enquiry_thread EXCEPT ![c] = "received"]
  /\ UNCHANGED <<address, main, server_done_enquiry_request, peers, server,
                 to_server, history>>

\* ... then the flag, and list_files once more: the result is moved into it and
\* the old vector is freed ...
SetEnquiryDone(c) ==
  /\ step[c] # "crashed"
  /\ enquiry_thread[c] = "received"
  /\ server_done_enquiry_request' =
       [server_done_enquiry_request EXCEPT ![c] = TRUE]
  /\ list_files' = [list_files EXCEPT ![c] = "moving"]
  /\ enquiry_thread' = [enquiry_thread EXCEPT ![c] = "assigning"]
  /\ UNCHANGED <<address, main, critical_section_alg_init, peers, server,
                 streams, history>>

\* ... until that is done.
AssignListFiles(c) ==
  /\ step[c] # "crashed"
  /\ enquiry_thread[c] = "assigning"
  /\ list_files' = [list_files EXCEPT ![c] = "files"]
  /\ enquiry_thread' = [enquiry_thread EXCEPT ![c] = "done"]
  /\ UNCHANGED <<address, main, critical_section_alg_init,
                 server_done_enquiry_request, peers, server, streams, history>>

\* Reading list_files while it is moved has no defined outcome: as before, as
\* after, or the end of the process (the freed vector, rand() % 0).
Reads(c, after) ==
  \E outcome \in {after} \union IF list_files[c] = "moving"
                                THEN {"crashed"} ELSE {} :
    step' = [step EXCEPT ![c] = outcome]

\* A variant that starts the threads for the other clients without the answer.
StartThreadsAtOnce(c) ==
  /\ step[c] = "enquiring"
  /\ step' = [step EXCEPT ![c] = "generate"]
  /\ UNCHANGED <<address, next, enquiry, peers, server, streams, history>>

\* The flag is set and the list is there; the threads for the other clients
\* start.
SeeListFiles(c) ==
  /\ step[c] = "enquiring"
  /\ server_done_enquiry_request[c]
  /\ list_files[c] # "empty"
  /\ Reads(c, "generate")
  /\ UNCHANGED <<address, next, enquiry, peers, server, streams, history>>

\* generateRandomInputFile(), and the first command: a request for a lock to
\* every other client.
RequestFirst(c) ==
  /\ step[c] = "generate"
  /\ Reads(c, "ready")
  /\ wire' = IF step'[c] = "ready"
             THEN SendToClients(client_sockfd[c], Clients \ {c}, "lock")
             ELSE wire
  /\ UNCHANGED <<address, next, enquiry, client_sockfd, backlog, server,
                 streams, history>>

HasClientThreads(c) == step[c] \in {"generate", "ready"}

\* The thread for d's messages reads and handles what is there.
HandleClientMessages(c, d) ==
  /\ HasClientThreads(c)
  /\ client_sockfd[c][d] \in Connections
  /\ LET in == wire[client_sockfd[c][d]][c] IN
       /\ in # <<>>
       /\ treated' = [treated EXCEPT
            ![c] = IF "lock" \in Range(in) THEN @ \union {d} ELSE @]
  /\ wire' = [wire EXCEPT ![client_sockfd[c][d]][c] = <<>>]
  /\ UNCHANGED <<address, main, enquiry, client_sockfd, backlog, server,
                 streams, forgotten, answered_early>>

-----------------------------------------------------------------------------
(***************************************************************************)
(* A server.                                                               *)
(***************************************************************************)

\* accept() and the first read(): one thread for every packet it brings.
ServeClient(s) ==
  /\ serving[s] = "accepting"
  /\ server_backlog[s] # <<>>
  /\ LET c == Head(server_backlog[s]) IN
       \E n \in 1 .. Len(to_server[c][s]) :
         /\ to_server' = [to_server EXCEPT ![c][s] = SubSeq(@, n + 1, Len(@))]
         /\ server_client_sockfd' =
              [server_client_sockfd EXCEPT ![s][c] = <<c>>]
         /\ threads' = [threads EXCEPT
              ![s][c] = @ \o [i \in 1 .. n |-> "greeting"]]
  /\ server_backlog' = [server_backlog EXCEPT ![s] = Tail(@)]
  /\ serving' = [serving EXCEPT
       ![s] = IF \A c \in Clients : threads'[s][c] # <<>>
              THEN "joining" ELSE @]
  /\ UNCHANGED <<address, main, enquiry, peers, to_client, history>>

\* Thread t of those created for c sends SERVER_ECHO.
Greet(s, c, t) ==
  /\ threads[s][c][t] = "greeting"
  /\ to_client' = [to_client EXCEPT ![s][c] = Append(@, "echo")]
  /\ threads' = [threads EXCEPT ![s][c][t] = "serving"]
  /\ UNCHANGED <<address, main, enquiry, peers, serving, server_backlog,
                 server_client_sockfd, to_server, history>>

\* A variant without the barrier.
SomeClientConnected(s) == \E c \in Clients : server_client_sockfd[s][c] # None

AllClientsConnected(s) == \A c \in Clients : server_client_sockfd[s][c] # None

\* After the barrier, whose condition stays true: a CLIENT_ECHO is printed, a
\* CLIENT_ENQUIRY answered.
HandleClientRequest(s, c, t) ==
  /\ threads[s][c][t] = "serving"
  /\ AllClientsConnected(s)
  /\ to_server[c][s] # <<>>
  /\ LET request == Head(to_server[c][s]) IN
       /\ to_client' = [to_client EXCEPT
            ![s][c] = IF request = "enquiry" THEN Append(@, "files") ELSE @]
       /\ answered_early' = \/ answered_early
                            \/ /\ request = "enquiry"
                               /\ Garbage \in Range(server_client_sockfd[s])
  /\ to_server' = [to_server EXCEPT ![c][s] = Tail(@)]
  /\ UNCHANGED <<address, main, enquiry, peers, server, treated, forgotten>>

-----------------------------------------------------------------------------
MainThread(c) ==
  \/ StartServerSocket(c) \/ WriteLine(c) \/ WaitForAllNodes(c)
  \/ ConnectToOtherClient(c) \/ AcceptOtherClient(c)
  \/ TestClientsCommunicate(c)
  \/ ConnectToServer(c) \/ TestServerCommunicate(c)
  \/ EnquireListOfHostedFiles(c) \/ SeeListFiles(c) \/ RequestFirst(c)

EnquiryThread(c) ==
  ReceiveEnquireResult(c) \/ SetEnquiryDone(c) \/ AssignListFiles(c)

ServerMainThread(s) == ServerStarts(s) \/ ServeClient(s)

ServerThread(s, c) ==
  \E t \in DOMAIN threads[s][c] :
    Greet(s, c, t) \/ HandleClientRequest(s, c, t)

Next ==
  \/ \E c \in Clients : MainThread(c) \/ EnquiryThread(c)
  \/ \E c, d \in Clients : HandleClientMessages(c, d)
  \/ \E s \in Servers : ServerMainThread(s)
  \/ \E s \in Servers, c \in Clients : ServerThread(s, c)

\* Some thread that can go on does.  Every step brings its thread forward and
\* none polls, so that more is not needed.
Fairness == WF_vars(Next)

Spec == Init /\ [][Next]_vars /\ Fairness

-----------------------------------------------------------------------------
\* Types of the variables; no loop over the servers leaves the table.
TypeOK ==
  /\ address \in addresses
  /\ step \in [Clients -> Steps]
  /\ next \in [Clients -> Nat]
  /\ \A c \in Clients :
       step[c] \in {"servers", "greetings"} => next[c] \in Servers
  /\ client_sockfd \in
       [Clients -> [Clients -> Connections \union {None, Failed}]]
  /\ backlog \in [Clients -> Seq(Clients)]
  /\ list_files \in [Clients -> {"empty", "files", "moving"}]
  /\ critical_section_alg_init \in [Clients -> BOOLEAN]
  /\ server_done_enquiry_request \in [Clients -> BOOLEAN]
  /\ enquiry_thread \in [Clients -> {"reading", "received",
                                     "assigning", "done"}]
  /\ serving \in [Servers -> {"down", "listening", "accepting", "joining"}]
  /\ server_backlog \in [Servers -> Seq(Clients)]
  /\ server_client_sockfd \in
       [Servers -> [Clients -> {None, Garbage} \union {<<c>> : c \in Clients}]]
  /\ threads \in
       [Servers -> [Clients -> Seq({"greeting", "serving"})]]
  /\ wire \in [Connections -> [Clients -> Seq(MessageType)]]
  /\ to_server \in [Clients -> [Servers -> Seq(MessageType)]]
  /\ to_client \in [Servers -> [Clients -> Seq(MessageType)]]
  /\ treated \in [Clients -> SUBSET Clients]
  /\ forgotten \in [Clients -> SUBSET MessageType]
  /\ answered_early \in BOOLEAN

\* connectToOtherClients() pairs the clients up: every socket of c's table is
\* under the id of the client at its other end, two clients use the same
\* connection for each other, and nobody has given up on a peer that does not
\* listen.  A client that is through has a socket for every other one.
\* (client.cpp 72-121, node.cpp 53-72)
SocketsPairUp ==
  \A c, d \in Clients : c # d =>
    /\ client_sockfd[c][d] \in {None, <<c, d>>, <<d, c>>}
    /\ None \in {client_sockfd[c][d], client_sockfd[d][c]}
         \/ client_sockfd[c][d] = client_sockfd[d][c]
    /\ step[c] \notin {"down", "listening", "waiting", "peers"}
         => client_sockfd[c][d] # None

\* The read() of an accepting client, and that for the greeting of a server,
\* throw away what follows the first packet.  Only echoes are lost that way,
\* never a request for a lock or a list of files, as long as the barrier of the
\* servers holds: a server answers nobody before every client is through with
\* accepting.  (client.cpp 86-91, 132; server.cpp 129-141)
ForgetsOnlyEchoes ==
  answered_early \/ \A c \in Clients : forgotten[c] \subseteq {"echo"}

\* serveClients() makes a thread for every packet of the first read(); two
\* threads would share one socket and take each other's messages.  A client
\* says nothing more to a server before it has been greeted, so that there is
\* one packet.  (server.cpp 62-85, client.cpp 123-157)
OneThreadPerClient ==
  \A s \in Servers, c \in Clients : Len(threads[s][c]) <= 1

\* A request for a lock is given to a strategy that exists: the threads for the
\* other clients start after the flag, and the flag is set after the
\* strategies are made.  (client.cpp 423-452, 554-558, 750-759)
StrategyBeforeRequest ==
  \A c \in Clients : treated[c] # {} => critical_section_alg_init[c]

\* Everybody gets to its first command and everybody's first request reaches
\* all other clients, whatever the order of addresses, unless a process ends in
\* the race for list_files or the barrier was passed early.
AllGetStarted ==
  <>(\/ \A c \in Clients : step[c] = "ready" /\ treated[c] = Clients \ {c}
     \/ \E c \in Clients : step[c] = "crashed"
     \/ answered_early)

=============================================================================
