-------------------------- MODULE FileServiceProofs --------------------------
(***************************************************************************)
(* Proofs about FileService, for every number of clients and servers and   *)
(* all input files: what a WRITE leaves in the replicas, what a READ       *)
(* returns, and when everybody stops.                                      *)
(***************************************************************************)
EXTENDS FileService, StreamLemmas

-----------------------------------------------------------------------------
(***************************************************************************)
(* The inductive invariants.                                               *)
(***************************************************************************)

\* The types, and what they rest on: a file has a last line, and a client that
\* has begun has a command.
TInv ==
  /\ TypeOK
  /\ \A s \in Servers : file[s] # <<>>
  /\ \A c \in Clients : phase[c] # "idle" => n_requested_requests[c] > 0

\* c is in the critical section to write, or to read from s.
Writes(c) == phase[c] = "using" /\ Command(c) = Write
Reads(c, s) == phase[c] = "using" /\ Command(c) = Read(s)

\* Of a WRITE there is at s one trace at most: the request, the reply or the
\* flag.
OneWrite(c, s) ==
  Count(to_server[c][s], "WRITE") + Count(to_client[s][c], "WRITE")
    + (IF Writes(c) /\ server_done_write_request[c][s] THEN 1 ELSE 0)
  <= IF Writes(c) THEN 1 ELSE 0

\* So it is with a READ.
OneRead(c, s) ==
  Count(to_server[c][s], "READ") + Count(to_client[s][c], "READ")
    + (IF Reads(c, s) /\ server_done_read_request[c] THEN 1 ELSE 0)
  <= IF Reads(c, s) THEN 1 ELSE 0

\* Nobody is sent what only the other side sends.
OneWay(c, s) ==
  Count(to_server[c][s], "ALL_DONE") = 0 /\ Count(to_client[s][c], "DONE") = 0

\* The messages of type t in the stream q carry the line l.
Carries(q, t, l) == \A k \in 1 .. Len(q) : q[k].type = t => q[k].line = l

\* A WRITE on its way is the current one.
ItsLine(c, s) == Carries(to_server[c][s], "WRITE", CurrentLine(c))

Exchange(c, s) == OneWrite(c, s) /\ OneRead(c, s) /\ OneWay(c, s) /\ ItsLine(c, s)

\* s has treated c's n-th request, a WRITE.
Stored(c, n, s) ==
  /\ input[c][n] = Write
  /\ \/ n < n_requested_requests[c]
     \/ /\ n = n_requested_requests[c]
        /\ \/ phase[c] = "idle"
           \/ phase[c] = "using" /\ Count(to_server[c][s], "WRITE") = 0

\* Then its line is there once, else not at all.
Kept(c, s) ==
  \A n \in 1 .. Len(input[c]) :
    Copies(file[s], Line(c, n)) = IF Stored(c, n, s) THEN 1 ELSE 0

IInv ==
  /\ \A c \in Clients, s \in Servers : Exchange(c, s) /\ Kept(c, s)
  /\ \A c \in Clients : reported[c] => Served(c)

-----------------------------------------------------------------------------
\* One client at a time is in the critical section.
Exclusive ==
  \A c, d \in Clients : phase[c] = "using" /\ phase[d] = "using" => c = d

\* While c writes, the line is at the servers that have treated the WRITE.
WritesApart(c) ==
  \E f \in Seq(Lines) : \A s \in Servers :
    file[s] = IF Count(to_server[c][s], "WRITE") = 0
                THEN Append(f, CurrentLine(c)) ELSE f

\* What c is about to learn, or has learnt, of the file at s is so.
ReadsNow(c, s) ==
  /\ Carries(to_client[s][c], "READ", LastLine(file[s]))
  /\ server_done_read_request[c] => read_result[c] = LastLine(file[s])

\* Nobody writes and the replicas are equal, or somebody does.
Agree ==
  /\ (\A c \in Clients : ~Writes(c)) => \A s, t \in Servers : file[s] = file[t]
  /\ \A c \in Clients : Writes(c) => WritesApart(c)

Truthful == \A c \in Clients, s \in Servers : Reads(c, s) => ReadsNow(c, s)

\* As long as the strategy keeps its promise.
AInv == tainted \/ (Exclusive /\ Agree /\ Truthful)

-----------------------------------------------------------------------------
\* c has no request left and has seen all replies.
Finished(c) ==
  /\ n_requested_requests[c] = Len(input[c])
  /\ phase[c] = "idle" \/ (phase[c] = "using" /\ reported[c])

AllFinished == \A c \in Clients : Finished(c)

\* Who reports has finished, and who hears of the end hears the truth.
SInv ==
  /\ \A c \in Clients, s \in Servers :
       /\ Count(to_server[c][s], "DONE") > 0 \/ client_done_all_request[s][c]
            => Finished(c)
       /\ Count(to_client[s][c], "ALL_DONE") > 0 => AllFinished
  /\ \A c, d \in Clients :
       all_clients_done_all_request[c] \/ told[c][d] \/ ~client_link[c][d]
         => AllFinished

-----------------------------------------------------------------------------
(***************************************************************************)
(* Type correctness.                                                       *)
(***************************************************************************)

\* The command of a client that has begun is one.
LEMMA CommandType ==
  ASSUME TInv, NEW c \in Clients, phase[c] # "idle"
  PROVE  /\ n_requested_requests[c] \in 1 .. Len(input[c])
         /\ Command(c) \in Commands
<1>1. /\ input[c] \in Seq(Commands)
      /\ n_requested_requests[c] \in Nat \ {0}
      /\ n_requested_requests[c] <= Len(input[c])
  BY InputsAssumption DEF TInv, TypeOK
<1>2. Len(input[c]) \in Nat
  BY <1>1
<1>3. n_requested_requests[c] \in 1 .. Len(input[c])
  BY <1>1, <1>2
<1> QED
  BY <1>1, <1>3, ElementOfSeq DEF Command

\* A message of one of the types with a line is a message.
LEMMA MsgType ==
  ASSUME NEW t \in {"READ", "WRITE", "DONE", "ALL_DONE"}, NEW l \in Lines
  PROVE  Msg(t, l) \in Message /\ Msg(t, l).type = t /\ Msg(t, l).line = l
BY DEF Msg, Message

\* What is written is a line.
LEMMA LineType ==
  FirstLine \in Lines /\ (TypeOK => \A c \in Clients : CurrentLine(c) \in Lines)
BY DEF Lines, FirstLine, Line, CurrentLine, TypeOK

\* So is the last line of a file.
LEMMA LastLineType ==
  ASSUME TInv, NEW s \in Servers
  PROVE  LastLine(file[s]) \in Lines
<1>1. file[s] \in Seq(Lines) /\ file[s] # <<>>
  BY DEF TInv, TypeOK
<1>2. Len(file[s]) \in 1 .. Len(file[s])
  BY <1>1, EmptySeq, LenProperties
<1> QED
  BY <1>1, <1>2, ElementOfSeq DEF LastLine

\* What SendToServers() does to each stream.
LEMMA SendLemma ==
  ASSUME TypeOK, NEW c \in Clients, NEW dests, NEW m \in Message,
         SendToServers(c, dests, m)
  PROVE  /\ to_server' \in [Clients -> [Servers -> Seq(Message)]]
         /\ \A d \in Clients, s \in Servers :
              to_server'[d][s] = IF d = c /\ s \in dests
                                   THEN Append(to_server[d][s], m)
                                   ELSE to_server[d][s]
BY DEF TypeOK, SendToServers

\* At first no variable has a value of another type.
LEMMA TypeInit == Init => TInv
<1> SUFFICES ASSUME Init PROVE TInv
  OBVIOUS
<1>1. FirstLine \in Lines
  BY LineType
<1>2. \A s \in Servers : file[s] = <<FirstLine>>
  BY DEF Init
<1>3. file \in [Servers -> Seq(Lines)]
  <2>1. <<FirstLine>> \in Seq(Lines)
    BY <1>1
  <2> QED
    BY <2>1 DEF Init
<1>4. \A s \in Servers : file[s] # <<>>
  BY <1>2
<1>5. \A c \in Clients : phase[c] = "idle"
  BY DEF Init, Mutex!Init
<1>6. \A c \in Clients : n_requested_requests[c] <= Len(input[c])
  <2> TAKE c \in Clients
  <2>1. input[c] \in Seq(Commands) /\ n_requested_requests[c] = 0
    BY InputsAssumption DEF Init
  <2>2. Len(input[c]) \in Nat
    BY <2>1
  <2> QED
    BY <2>1, <2>2
<1>7. /\ to_server \in [Clients -> [Servers -> Seq(Message)]]
      /\ to_client \in [Servers -> [Clients -> Seq(Message)]]
  <2>1. <<>> \in Seq(Message)
    OBVIOUS
  <2> QED
    BY <2>1 DEF Init
<1>8. /\ phase \in [Clients -> Mutex!Phases] /\ tainted \in BOOLEAN
      /\ input \in [Clients -> inputs]
      /\ n_requested_requests \in [Clients -> Nat]
      /\ reported \in [Clients -> BOOLEAN]
      /\ \A c \in Clients : ~reported[c]
  BY DEF Init, Mutex!Init, Mutex!Phases
<1>9. /\ server_done_read_request \in [Clients -> BOOLEAN]
      /\ server_done_write_request \in [Clients -> [Servers -> BOOLEAN]]
      /\ read_result \in [Clients -> Lines]
      /\ server_link \in [Clients -> [Servers -> BOOLEAN]]
      /\ client_link \in [Clients -> [Clients -> BOOLEAN]]
      /\ all_clients_done_all_request \in [Clients -> BOOLEAN]
  BY <1>1 DEF Init
<1>10. /\ server_thread \in
            [Servers -> [Clients -> {"reading", "checking", "ended"}]]
       /\ client_done_all_request \in [Servers -> [Clients -> BOOLEAN]]
       /\ told \in [Clients -> [Clients -> BOOLEAN]]
  BY DEF Init
<1>11. TypeOK
  BY <1>3, <1>6, <1>7, <1>8, <1>9, <1>10 DEF TypeOK
<1> QED
  BY <1>4, <1>5, <1>11 DEF TInv

\* No step gives a variable a value of another type.
LEMMA TypeNext == TInv /\ [Next]_vars => TInv'
<1> SUFFICES ASSUME TInv, [Next]_vars PROVE TInv'
  OBVIOUS
<1>1. TypeOK /\ FirstLine \in Lines /\ \A c \in Clients : CurrentLine(c) \in Lines
  BY LineType DEF TInv
<1>2. \A t \in {"READ", "WRITE", "DONE", "ALL_DONE"} : Msg(t, FirstLine) \in Message
  BY <1>1, MsgType
<1>3. \A s \in Servers : file[s] # <<>> /\ LastLine(file[s]) \in Lines
  BY LastLineType DEF TInv
<1>4. ASSUME NEW c \in Clients, RequestCriticalSection(c) PROVE TInv'
  <2>1. /\ phase[c] = "idle"
        /\ phase' = [phase EXCEPT ![c] = "waiting"]
        /\ n_requested_requests' = [n_requested_requests EXCEPT ![c] = @ + 1]
        /\ n_requested_requests[c] < Len(input[c])
        /\ UNCHANGED <<tainted, input, reported, flags, links, server, streams>>
    BY <1>4 DEF RequestCriticalSection, Mutex!Request
  <2>2. Len(input[c]) \in Nat
    BY <1>1, InputsAssumption, LenProperties DEF TypeOK
  <2>3. \A d \in Clients : n_requested_requests'[d] <= Len(input'[d])
    BY <1>1, <2>1, <2>2 DEF TypeOK
  <2>4. \A d \in Clients : /\ reported'[d] => phase'[d] = "using"
                           /\ phase'[d] # "idle" => n_requested_requests'[d] > 0
    BY <1>1, <2>1 DEF TypeOK, TInv
  <2>5. phase' \in [Clients -> Mutex!Phases] /\ n_requested_requests' \in [Clients -> Nat]
    BY <1>1, <2>1 DEF TypeOK, Mutex!Phases
  <2> QED
    BY <1>1, <2>1, <2>3, <2>4, <2>5 DEF TypeOK, TInv, flags, links, server, streams
<1>5. ASSUME NEW c \in Clients, RequestRead(c) PROVE TInv'
  <2>1. to_server' \in [Clients -> [Servers -> Seq(Message)]]
    BY <1>1, <1>2, <1>5, SendLemma DEF RequestRead
  <2>2. /\ phase' = [phase EXCEPT ![c] = "using"]
        /\ phase[c] = "waiting"
        /\ server_done_read_request' = [server_done_read_request EXCEPT ![c] = FALSE]
        /\ UNCHANGED <<tainted, main, server_done_write_request, read_result, links,
                       server, to_client>>
    BY <1>5 DEF RequestRead, Mutex!Enter
  <2>3. \A d \in Clients : /\ reported'[d] => phase'[d] = "using"
                           /\ phase'[d] # "idle" => n_requested_requests'[d] > 0
    BY <1>1, <2>2 DEF TypeOK, TInv, main
  <2>4. /\ phase' \in [Clients -> Mutex!Phases]
        /\ server_done_read_request' \in [Clients -> BOOLEAN]
    BY <1>1, <2>2 DEF TypeOK, Mutex!Phases
  <2> QED
    BY <1>1, <2>1, <2>2, <2>3, <2>4 DEF TypeOK, TInv, main, links, server
<1>6. ASSUME NEW c \in Clients, RequestWrite(c) PROVE TInv'
  <2>1. to_server' \in [Clients -> [Servers -> Seq(Message)]]
    <3>1. Msg("WRITE", CurrentLine(c)) \in Message
      BY <1>1, MsgType
    <3> QED
      BY <1>1, <1>6, <3>1, SendLemma DEF RequestWrite, CurrentLine
  <2>2. /\ phase' = [phase EXCEPT ![c] = "using"]
        /\ phase[c] = "waiting"
        /\ server_done_write_request' = [server_done_write_request EXCEPT
             ![c] = [s \in Servers |-> FALSE]]
        /\ UNCHANGED <<tainted, main, server_done_read_request, read_result, links,
                       server, to_client>>
    BY <1>6 DEF RequestWrite, Mutex!Enter
  <2>3. \A d \in Clients : /\ reported'[d] => phase'[d] = "using"
                           /\ phase'[d] # "idle" => n_requested_requests'[d] > 0
    BY <1>1, <2>2 DEF TypeOK, TInv, main
  <2>4. /\ phase' \in [Clients -> Mutex!Phases]
        /\ server_done_write_request' \in [Clients -> [Servers -> BOOLEAN]]
    BY <1>1, <2>2 DEF TypeOK, Mutex!Phases
  <2> QED
    BY <1>1, <2>1, <2>2, <2>3, <2>4 DEF TypeOK, TInv, main, links, server
<1>7. ASSUME NEW c \in Clients, FinishAccess(c) PROVE TInv'
  <2>1. to_server' \in [Clients -> [Servers -> Seq(Message)]]
    BY <1>1, <1>2, <1>7, SendLemma DEF FinishAccess, TypeOK
  <2>2. /\ reported' = [reported EXCEPT ![c] = TRUE]
        /\ phase[c] = "using"
        /\ UNCHANGED <<mutex, input, n_requested_requests, flags, links, server, to_client>>
    BY <1>7 DEF FinishAccess
  <2>3. \A d \in Clients : reported'[d] => phase'[d] = "using"
    BY <1>1, <2>2 DEF TypeOK, mutex
  <2> QED
    BY <1>1, <2>1, <2>2, <2>3 DEF TypeOK, TInv, mutex, flags, links, server
<1>8. ASSUME NEW c \in Clients, ReleaseResource(c) PROVE TInv'
  <2>1. /\ phase' = [phase EXCEPT ![c] = "idle"]
        /\ phase[c] = "using"
        /\ reported' = [reported EXCEPT ![c] = FALSE]
        /\ UNCHANGED <<tainted, input, n_requested_requests, flags, links, server, streams>>
    BY <1>8 DEF ReleaseResource, Mutex!Release
  <2>2. \A d \in Clients : /\ reported'[d] => phase'[d] = "using"
                           /\ phase'[d] # "idle" => n_requested_requests'[d] > 0
    BY <1>1, <2>1 DEF TypeOK, TInv
  <2>3. phase' \in [Clients -> Mutex!Phases] /\ reported' \in [Clients -> BOOLEAN]
    BY <1>1, <2>1 DEF TypeOK, Mutex!Phases
  <2> QED
    BY <1>1, <2>1, <2>2, <2>3 DEF TypeOK, TInv, flags, links, server, streams
<1>9. ASSUME NEW s \in Servers, NEW c \in Clients, NEW t, Receive(s, c, t)
      PROVE  /\ to_server' \in [Clients -> [Servers -> Seq(Message)]]
             /\ server_thread' \in
                  [Servers -> [Clients -> {"reading", "checking", "ended"}]]
             /\ Head(to_server[c][s]).line \in Lines
  <2>1. to_server[c][s] \in Seq(Message) /\ to_server[c][s] # <<>>
    BY <1>1, <1>9 DEF TypeOK, Receive
  <2>2. Tail(to_server[c][s]) \in Seq(Message) /\ Head(to_server[c][s]) \in Message
    BY <2>1, Taken
  <2> QED
    BY <1>1, <1>9, <2>2 DEF TypeOK, Receive, Message
<1>10. ASSUME NEW s \in Servers, NEW c \in Clients, NEW m \in Message, Reply(s, c, m)
       PROVE  to_client' \in [Servers -> [Clients -> Seq(Message)]]
  BY <1>1, <1>10 DEF TypeOK, Reply
<1>11. ASSUME NEW s \in Servers, NEW c \in Clients, HandleReadRequest(s, c)
       PROVE  TInv'
  <2>1. Msg("READ", LastLine(file[s])) \in Message
    BY <1>3, MsgType
  <2>2. /\ to_server' \in [Clients -> [Servers -> Seq(Message)]]
        /\ server_thread' \in
             [Servers -> [Clients -> {"reading", "checking", "ended"}]]
    BY <1>9, <1>11 DEF HandleReadRequest
  <2>3. to_client' \in [Servers -> [Clients -> Seq(Message)]]
    BY <1>10, <1>11, <2>1 DEF HandleReadRequest
  <2>4. UNCHANGED <<mutex, main, flags, links, file, client_done_all_request>>
    BY <1>11 DEF HandleReadRequest, Receive
  <2> QED
    BY <1>1, <2>2, <2>3, <2>4 DEF TypeOK, TInv, mutex, main, flags, links
<1>12. ASSUME NEW s \in Servers, NEW c \in Clients, HandleWriteRequest(s, c)
       PROVE  TInv'
  <2> DEFINE line == Head(to_server[c][s]).line
  <2>1. /\ to_server' \in [Clients -> [Servers -> Seq(Message)]]
        /\ server_thread' \in
             [Servers -> [Clients -> {"reading", "checking", "ended"}]]
        /\ line \in Lines
    BY <1>9, <1>12 DEF HandleWriteRequest
  <2>2. Msg("WRITE", line) \in Message
    BY <2>1, MsgType
  <2>3. to_client' \in [Servers -> [Clients -> Seq(Message)]]
    BY <1>10, <1>12, <2>2 DEF HandleWriteRequest
  <2>4. /\ file' = [file EXCEPT ![s] = Append(@, line)]
        /\ UNCHANGED <<mutex, main, flags, links, client_done_all_request>>
    BY <1>12 DEF HandleWriteRequest, Receive
  <2> HIDE DEF line
  <2>5. file' \in [Servers -> Seq(Lines)]
    BY <1>1, <2>1, <2>4 DEF TypeOK
  <2>6. \A u \in Servers : file'[u] # <<>>
    <3> TAKE u \in Servers
    <3>1. file'[s] = Append(file[s], line) /\ file[s] \in Seq(Lines)
      BY <1>1, <2>4 DEF TypeOK
    <3>2. Len(file'[s]) = Len(file[s]) + 1 /\ Len(file[s]) \in Nat
      BY <2>1, <3>1, AppendProperties, LenProperties
    <3>3. file'[s] # <<>>
      BY <3>2
    <3> QED
      BY <1>1, <1>3, <2>4, <3>3 DEF TypeOK
  <2> QED
    BY <1>1, <2>1, <2>3, <2>4, <2>5, <2>6 DEF TypeOK, TInv, mutex, main, flags, links
<1>13. ASSUME NEW s \in Servers, NEW c \in Clients, HandleDoneAllRequest(s, c)
       PROVE  TInv'
  <2>1. /\ to_server' \in [Clients -> [Servers -> Seq(Message)]]
        /\ server_thread' \in
             [Servers -> [Clients -> {"reading", "checking", "ended"}]]
    BY <1>9, <1>13 DEF HandleDoneAllRequest
  <2>2. /\ client_done_all_request' \in [Servers -> [Clients -> BOOLEAN]]
        /\ UNCHANGED <<mutex, main, flags, links, file, to_client>>
    BY <1>1, <1>13 DEF HandleDoneAllRequest, Receive, TypeOK
  <2> QED
    BY <1>1, <2>1, <2>2 DEF TypeOK, TInv, mutex, main, flags, links
<1>14. ASSUME NEW s \in Servers, NEW c \in Clients, CheckAllClientsDone(s, c)
       PROVE  TInv'
  <2>1. to_client' \in [Servers -> [Clients -> Seq(Message)]]
    <3>1. \A d \in Clients : Append(to_client[s][d], Msg("ALL_DONE", FirstLine)) \in Seq(Message)
      BY <1>1, <1>2 DEF TypeOK
    <3> QED
      BY <1>1, <1>14, <3>1 DEF CheckAllClientsDone, TypeOK
  <2>2. /\ server_thread' \in
             [Servers -> [Clients -> {"reading", "checking", "ended"}]]
        /\ UNCHANGED <<mutex, main, flags, links, file, client_done_all_request, to_server>>
    BY <1>1, <1>14 DEF CheckAllClientsDone, TypeOK
  <2> QED
    BY <1>1, <2>1, <2>2 DEF TypeOK, TInv, mutex, main, flags, links
<1>15. ASSUME NEW s \in Servers, NEW c \in Clients, ServerThreadEnds(s, c)
       PROVE  TInv'
  BY <1>1, <1>15
  DEF ServerThreadEnds, TypeOK, TInv, mutex, main, flags, links, streams
<1>16. ASSUME NEW c \in Clients, NEW s \in Servers, NEW t, NEW done \in BOOLEAN,
              TakeReply(c, s, t), TakeNext(c, s, done)
       PROVE  /\ to_client' \in [Servers -> [Clients -> Seq(Message)]]
              /\ server_link' \in [Clients -> [Servers -> BOOLEAN]]
              /\ Head(to_client[s][c]).line \in Lines
  <2>1. to_client[s][c] \in Seq(Message) /\ to_client[s][c] # <<>>
    BY <1>1, <1>16 DEF TypeOK, TakeReply
  <2>2. Tail(to_client[s][c]) \in Seq(Message) /\ Head(to_client[s][c]) \in Message
    BY <2>1, Taken
  <2>3. <<>> \in Seq(Message)
    OBVIOUS
  <2> QED
    BY <1>1, <1>16, <2>2, <2>3 DEF TypeOK, TakeNext, Message
<1>17. ASSUME NEW c \in Clients, NEW s \in Servers, ReceiveReadResult(c, s)
       PROVE  TInv'
  <2>1. all_clients_done_all_request[c] \in BOOLEAN
    BY <1>1 DEF TypeOK
  <2>2. /\ to_client' \in [Servers -> [Clients -> Seq(Message)]]
        /\ server_link' \in [Clients -> [Servers -> BOOLEAN]]
        /\ Head(to_client[s][c]).line \in Lines
    BY <1>16, <1>17, <2>1 DEF ReceiveReadResult
  <2>3. /\ server_done_read_request' = [server_done_read_request EXCEPT ![c] = TRUE]
        /\ read_result' = [read_result EXCEPT ![c] = Head(to_client[s][c]).line]
        /\ UNCHANGED <<mutex, main, server_done_write_request, client_link,
                       all_clients_done_all_request, told, server, to_server>>
    BY <1>17 DEF ReceiveReadResult, TakeReply
  <2>4. /\ server_done_read_request' \in [Clients -> BOOLEAN]
        /\ read_result' \in [Clients -> Lines]
    BY <1>1, <2>2, <2>3 DEF TypeOK
  <2> QED
    BY <1>1, <2>2, <2>3, <2>4 DEF TypeOK, TInv, mutex, main, server
<1>18. ASSUME NEW c \in Clients, NEW s \in Servers, ReceiveWriteResult(c, s)
       PROVE  TInv'
  <2>1. all_clients_done_all_request[c] \in BOOLEAN
    BY <1>1 DEF TypeOK
  <2>2. /\ to_client' \in [Servers -> [Clients -> Seq(Message)]]
        /\ server_link' \in [Clients -> [Servers -> BOOLEAN]]
    BY <1>16, <1>18, <2>1 DEF ReceiveWriteResult
  <2>3. /\ server_done_write_request' \in [Clients -> [Servers -> BOOLEAN]]
        /\ UNCHANGED <<mutex, main, server_done_read_request, read_result, client_link,
                       all_clients_done_all_request, told, server, to_server>>
    BY <1>1, <1>18 DEF ReceiveWriteResult, TakeReply, TypeOK
  <2> QED
    BY <1>1, <2>2, <2>3 DEF TypeOK, TInv, mutex, main, server
<1>19. ASSUME NEW c \in Clients, NEW s \in Servers, ReceiveAllDone(c, s)
       PROVE  TInv'
  <2>1. /\ to_client' \in [Servers -> [Clients -> Seq(Message)]]
        /\ server_link' \in [Clients -> [Servers -> BOOLEAN]]
    BY <1>16, <1>19 DEF ReceiveAllDone
  <2>2. told' \in [Clients -> [Clients -> BOOLEAN]]
    BY <1>1, <1>19 DEF ReceiveAllDone, TypeOK, Connected
  <2>3. /\ all_clients_done_all_request' \in [Clients -> BOOLEAN]
        /\ UNCHANGED <<mutex, main, client_link, flags, server, to_server>>
    BY <1>1, <1>19 DEF ReceiveAllDone, TakeReply, TypeOK
  <2> QED
    BY <1>1, <2>1, <2>2, <2>3 DEF TypeOK, TInv, mutex, main, flags, server
<1>20. ASSUME NEW c \in Clients, NEW d \in Clients,
              ReceiveDone(c, d) \/ LoseConnection(c, d) \/ NoticeDone(c, d)
       PROVE  TInv'
  <2>1. /\ client_link' \in [Clients -> [Clients -> BOOLEAN]]
        /\ told' \in [Clients -> [Clients -> BOOLEAN]]
        /\ UNCHANGED <<mutex, main, flags, server_link, server, streams>>
    <3>1. ClientThreadEnds(c, d)
      BY <1>20 DEF ReceiveDone, LoseConnection, NoticeDone
    <3> QED
      BY <1>1, <3>1 DEF ClientThreadEnds, TypeOK
  <2>2. all_clients_done_all_request' \in [Clients -> BOOLEAN]
    BY <1>1, <1>20 DEF ReceiveDone, LoseConnection, NoticeDone, TypeOK
  <2> QED
    BY <1>1, <2>1, <2>2 DEF TypeOK, TInv, mutex, main, flags, server, streams
<1>21. CASE LockFails
  BY <1>1, <1>21
  DEF LockFails, Mutex!Taint, TypeOK, TInv, main, flags, links, server, streams
<1>22. CASE UNCHANGED vars
  BY <1>1, <1>22
  DEF vars, TypeOK, TInv, mutex, main, flags, links, server, streams
<1> QED
  BY <1>4, <1>5, <1>6, <1>7, <1>8, <1>11, <1>12, <1>13, <1>14, <1>15, <1>17, <1>18,
     <1>19, <1>20, <1>21, <1>22
  DEF Next, MainThread, ServerThread, ThreadForServer, ThreadForClient, Terminated

\* Every variable keeps the type of its declaration in client.h or server.h; a
\* client makes no more requests than its input file has commands.
THEOREM TypeCorrect == Spec => []TypeOK
<1>1. TInv => TypeOK
  BY DEF TInv
<1> QED
  BY TypeInit, TypeNext, <1>1, PTL DEF Spec

-----------------------------------------------------------------------------
(***************************************************************************)
(* Streams and files.                                                      *)
(***************************************************************************)

\* A line more in the stream of messages.
LEMMA CarriesSent ==
  ASSUME NEW q \in Seq(Message), NEW m \in Message, NEW t, NEW l
  PROVE  Carries(Append(q, m), t, l) <=> Carries(q, t, l) /\ (m.type = t => m.line = l)
<1> DEFINE r == Append(q, m)
           new == Len(q) + 1
<1>1. /\ Len(r) = new
      /\ r[new] = m
      /\ Len(q) \in Nat
      /\ \A k \in 1 .. Len(q) : r[k] = q[k]
  BY AppendProperties, LenProperties
<1> HIDE DEF r
<1>2. 1 .. Len(r) = (1 .. Len(q)) \union {new}
  BY <1>1
<1>3. Carries(r, t, l) <=> Carries(q, t, l) /\ (m.type = t => m.line = l)
  BY <1>1, <1>2 DEF Carries
<1> QED
  BY <1>3 DEF r

\* One less.
LEMMA CarriesTaken ==
  ASSUME NEW q \in Seq(Message), q # <<>>, NEW t, NEW l, Carries(q, t, l)
  PROVE  Carries(Tail(q), t, l) /\ (Head(q).type = t => Head(q).line = l)
<1>1. /\ Head(q) = q[1]
      /\ Len(q) \in Nat \ {0}
      /\ \A k \in 1 .. Len(Tail(q)) : k + 1 \in 1 .. Len(q) /\ Tail(q)[k] = q[k + 1]
  BY Taken
<1>2. 1 \in 1 .. Len(q)
  BY <1>1
<1> QED
  BY <1>1, <1>2 DEF Carries

\* None at all.
LEMMA CarriesNone ==
  ASSUME NEW q \in Seq(Message), NEW t, NEW l, Count(q, t) = 0
  PROVE  Carries(q, t, l)
BY CountType DEF Places, Carries

\* The number of copies of a line is one.
LEMMA CopiesType ==
  ASSUME NEW f \in Seq(Lines), NEW l
  PROVE  /\ IsFiniteSet({k \in 1 .. Len(f) : f[k] = l})
         /\ Copies(f, l) \in Nat
<1>1. IsFiniteSet(1 .. Len(f))
  BY FS_Interval, LenProperties
<1>2. IsFiniteSet({k \in 1 .. Len(f) : f[k] = l})
  BY <1>1, FS_Subset
<1> QED
  BY <1>2, FS_CardinalityType DEF Copies

\* Appending a line adds a copy of it, and none of another one.
LEMMA CopiesAppend ==
  ASSUME NEW f \in Seq(Lines), NEW l \in Lines, NEW k
  PROVE  Copies(Append(f, l), k) = Copies(f, k) + IF l = k THEN 1 ELSE 0
<1> DEFINE g == Append(f, l)
           new == Len(f) + 1
           old == {i \in 1 .. Len(f) : f[i] = k}
<1>1. /\ Len(g) = new
      /\ g[new] = l
      /\ Len(f) \in Nat
      /\ \A i \in 1 .. Len(f) : g[i] = f[i]
  BY AppendProperties, LenProperties
<1>2. IsFiniteSet(old) /\ Cardinality(old) \in Nat
  BY CopiesType DEF Copies
<1> HIDE DEF g
<1>3. new \notin old
  BY <1>1
<1>4. {i \in 1 .. Len(g) : g[i] = k} = IF l = k THEN old \union {new} ELSE old
  <2>1. 1 .. Len(g) = (1 .. Len(f)) \union {new}
    BY <1>1
  <2>2. \A i \in 1 .. Len(f) : i # new
    BY <1>1
  <2> QED
    BY <1>1, <2>1, <2>2
<1>5. Cardinality(old \union {new}) = Cardinality(old) + 1
  BY <1>2, <1>3, FS_AddElement
<1>6. Copies(g, k) = Cardinality(IF l = k THEN old \union {new} ELSE old)
  BY <1>4 DEF Copies
<1>7. Copies(f, k) = Cardinality(old)
  BY DEF Copies
<1> HIDE DEF old, new
<1> QED
  BY <1>2, <1>5, <1>6, <1>7 DEF g

\* The first line is nobody's.
LEMMA CopiesOfFirst ==
  ASSUME NEW c \in Clients, NEW n \in Nat \ {0}
  PROVE  Copies(<<FirstLine>>, Line(c, n)) = 0
<1>1. FirstLine # Line(c, n)
  BY DEF FirstLine, Line
<1>2. {k \in 1 .. Len(<<FirstLine>>) : <<FirstLine>>[k] = Line(c, n)} = {}
  BY <1>1
<1> QED
  BY <1>2, FS_EmptySet DEF Copies

\* What a step leaves alone keeps what is said about it.
LEMMA Untouched ==
  ASSUME NEW d \in Clients, NEW r \in Servers,
         UNCHANGED <<input[d], n_requested_requests[d], phase[d],
                     server_done_read_request[d], server_done_write_request[d][r],
                     to_server[d][r], to_client[r][d], file[r]>>
  PROVE  /\ Exchange(d, r) => Exchange(d, r)'
         /\ Kept(d, r) => Kept(d, r)'
<1>1. /\ Writes(d)' = Writes(d) /\ Reads(d, r)' = Reads(d, r)
      /\ CurrentLine(d)' = CurrentLine(d)
  BY DEF Writes, Reads, Command, CurrentLine, Line
<1>2. Exchange(d, r) => Exchange(d, r)'
  <2>1. OneWrite(d, r) => OneWrite(d, r)'
    BY <1>1 DEF OneWrite
  <2>2. OneRead(d, r) => OneRead(d, r)'
    BY <1>1 DEF OneRead
  <2>3. OneWay(d, r) => OneWay(d, r)'
    BY DEF OneWay
  <2>4. ItsLine(d, r) => ItsLine(d, r)'
    BY <1>1 DEF ItsLine
  <2> QED
    BY <2>1, <2>2, <2>3, <2>4 DEF Exchange
<1>3. Kept(d, r) => Kept(d, r)'
  BY DEF Kept, Stored, Line
<1> QED
  BY <1>2, <1>3

-----------------------------------------------------------------------------
(***************************************************************************)
(* Every WRITE is stored once: the steps of a client's main thread.        *)
(***************************************************************************)

\* The counts of messages are numbers.
LEMMA CountNat ==
  ASSUME TInv, NEW c \in Clients, NEW s \in Servers, NEW t
  PROVE  /\ to_server[c][s] \in Seq(Message) /\ to_client[s][c] \in Seq(Message)
         /\ Count(to_server[c][s], t) \in Nat
         /\ Count(to_client[s][c], t) \in Nat
<1>1. to_server[c][s] \in Seq(Message) /\ to_client[s][c] \in Seq(Message)
  BY DEF TInv, TypeOK
<1> QED
  BY <1>1, CountType

\* A client that is not in the critical section has no access on its way.
LEMMA NothingSent ==
  ASSUME TInv, IInv, NEW c \in Clients, NEW s \in Servers, phase[c] # "using"
  PROVE  /\ Count(to_server[c][s], "WRITE") = 0 /\ Count(to_client[s][c], "WRITE") = 0
         /\ Count(to_server[c][s], "READ") = 0 /\ Count(to_client[s][c], "READ") = 0
<1>1. ~Writes(c) /\ ~Reads(c, s)
  BY DEF Writes, Reads
<1>2. OneWrite(c, s) /\ OneRead(c, s)
  BY DEF IInv, Exchange
<1>3. /\ Count(to_server[c][s], "WRITE") + Count(to_client[s][c], "WRITE") <= 0
      /\ Count(to_server[c][s], "READ") + Count(to_client[s][c], "READ") <= 0
  <2>1. /\ Count(to_server[c][s], "WRITE") \in Nat
        /\ Count(to_client[s][c], "WRITE") \in Nat
        /\ Count(to_server[c][s], "READ") \in Nat
        /\ Count(to_client[s][c], "READ") \in Nat
    BY CountNat
  <2> QED
    BY <1>1, <1>2, <2>1 DEF OneWrite, OneRead
<1> QED
  BY <1>3, CountNat

\* requestCriticalSection(): the next command is nobody's access yet.
LEMMA KeptRequest ==
  ASSUME TInv, IInv, NEW c \in Clients, RequestCriticalSection(c),
         NEW d \in Clients, NEW r \in Servers
  PROVE  Exchange(d, r)' /\ Kept(d, r)'
<1>1. /\ phase[c] = "idle"
      /\ phase' = [phase EXCEPT ![c] = "waiting"]
      /\ n_requested_requests' = [n_requested_requests EXCEPT ![c] = @ + 1]
      /\ UNCHANGED <<input, flags, server, streams>>
  BY DEF RequestCriticalSection, Mutex!Request
<1>2. CASE d # c
  <2>1. phase'[d] = phase[d] /\ n_requested_requests'[d] = n_requested_requests[d]
    BY <1>1, <1>2 DEF TInv, TypeOK
  <2> QED
    BY <1>1, <2>1, Untouched DEF IInv, flags, server, streams
<1>3. CASE d = c
  <2>1. /\ phase'[c] = "waiting" /\ n_requested_requests[c] \in Nat
        /\ n_requested_requests'[c] = n_requested_requests[c] + 1
    BY <1>1 DEF TInv, TypeOK
  <2>2. /\ Count(to_server[c][r], "WRITE") = 0 /\ Count(to_client[r][c], "WRITE") = 0
        /\ Count(to_server[c][r], "READ") = 0 /\ Count(to_client[r][c], "READ") = 0
    BY <1>1, NothingSent
  <2>3. ~Writes(c)' /\ ~Reads(c, r)'
    BY <2>1 DEF Writes, Reads
  <2>4. OneWrite(c, r)' /\ OneRead(c, r)'
    BY <1>1, <2>2, <2>3 DEF OneWrite, OneRead, streams
  <2>5. OneWay(c, r)'
    BY <1>1 DEF IInv, Exchange, OneWay, streams
  <2>6. ItsLine(c, r)'
    BY <1>1, <2>2, CarriesNone, CountNat DEF ItsLine, streams
  <2>7. Kept(c, r)'
    <3>1. \A n \in Nat : Stored(c, n, r)' <=> Stored(c, n, r)
      BY <1>1, <2>1 DEF Stored, streams
    <3> QED
      BY <1>1, <3>1 DEF IInv, Kept, Line, server
  <2> QED
    BY <1>3, <2>4, <2>5, <2>6, <2>7 DEF Exchange
<1> QED
  BY <1>2, <1>3

\* requestRead(): one READ is sent, to the server of the command, and the flag is
\* reset.
LEMMA KeptRead ==
  ASSUME TInv, IInv, NEW c \in Clients, RequestRead(c),
         NEW d \in Clients, NEW r \in Servers
  PROVE  Exchange(d, r)' /\ Kept(d, r)'
<1> DEFINE m == Msg("READ", FirstLine)
<1>1. /\ phase[c] = "waiting"
      /\ phase' = [phase EXCEPT ![c] = "using"]
      /\ Command(c) # Write
      /\ server_done_read_request' = [server_done_read_request EXCEPT ![c] = FALSE]
      /\ SendToServers(c, {Command(c).server}, m)
      /\ UNCHANGED <<main, server_done_write_request, server, to_client>>
  BY DEF RequestRead, Mutex!Enter
<1>2. m \in Message /\ m.type = "READ"
  BY LineType, MsgType
<1> HIDE DEF m
<1>3. to_server'[d][r] = IF d = c /\ r = Command(c).server
                           THEN Append(to_server[d][r], m) ELSE to_server[d][r]
  BY <1>1, <1>2, SendLemma DEF TInv
<1>4. CASE d # c
  <2>1. /\ phase'[d] = phase[d] /\ to_server'[d][r] = to_server[d][r]
        /\ server_done_read_request'[d] = server_done_read_request[d]
    BY <1>1, <1>3, <1>4 DEF TInv, TypeOK
  <2> QED
    BY <1>1, <2>1, Untouched DEF IInv, main, server
<1>5. CASE d = c
  <2> DEFINE mine == r = Command(c).server
  <2>1. /\ phase'[c] = "using" /\ Command(c)' = Command(c)
        /\ server_done_read_request'[c] = FALSE
    BY <1>1 DEF TInv, TypeOK, main, Command
  <2>2. /\ Count(to_server[c][r], "WRITE") = 0 /\ Count(to_client[r][c], "WRITE") = 0
        /\ Count(to_server[c][r], "READ") = 0 /\ Count(to_client[r][c], "READ") = 0
    BY <1>1, NothingSent
  <2>3. \A t : Count(to_server'[c][r], t)
                 = Count(to_server[c][r], t) + IF mine /\ t = "READ" THEN 1 ELSE 0
    <3> TAKE t
    <3>1. to_server[c][r] \in Seq(Message) /\ Count(to_server[c][r], t) \in Nat
      BY CountNat
    <3>2. Count(Append(to_server[c][r], m), t)
            = Count(to_server[c][r], t) + IF t = "READ" THEN 1 ELSE 0
      BY <1>2, <3>1, CountSent
    <3> QED
      BY <1>3, <1>5, <3>1, <3>2
  <2>4. ~Writes(c)' /\ (Reads(c, r)' <=> mine)
    <3>1. Command(c) \in {Read(s) : s \in Servers}
      BY <1>1, CommandType DEF Commands
    <3>2. mine <=> Command(c) = Read(r)
      BY <3>1 DEF Read
    <3> QED
      BY <1>1, <2>1, <3>2 DEF Writes, Reads
  <2> HIDE DEF mine
  <2>5. OneWrite(c, r)' /\ OneRead(c, r)'
    <3>1. /\ Count(to_server'[c][r], "WRITE") = 0 /\ Count(to_client'[r][c], "WRITE") = 0
          /\ Count(to_server'[c][r], "READ") = IF mine THEN 1 ELSE 0
          /\ Count(to_client'[r][c], "READ") = 0
      BY <1>1, <2>2, <2>3
    <3> QED
      BY <2>1, <2>4, <3>1 DEF OneWrite, OneRead
  <2>6. OneWay(c, r)'
    <3>1. OneWay(c, r)
      BY DEF IInv, Exchange
    <3> QED
      BY <1>1, <2>3, <3>1 DEF OneWay
  <2>7. ItsLine(c, r)'
    <3>1. Carries(to_server[c][r], "WRITE", CurrentLine(c)')
      BY <2>2, CarriesNone, CountNat
    <3>2. Carries(to_server'[c][r], "WRITE", CurrentLine(c)')
      BY <1>2, <1>3, <1>5, <3>1, CarriesSent, CountNat
    <3> QED
      BY <3>2 DEF ItsLine
  <2>8. Kept(c, r)'
    <3>1. \A n \in Nat : Stored(c, n, r)' <=> Stored(c, n, r)
      BY <1>1, <2>1 DEF Stored, main, Command
    <3> QED
      BY <1>1, <3>1 DEF IInv, Kept, Line, server, main
  <2> QED
    BY <1>5, <2>5, <2>6, <2>7, <2>8 DEF Exchange
<1> QED
  BY <1>4, <1>5

\* requestWrite(): one WRITE is sent to every server, and all flags are reset.
LEMMA KeptWrite ==
  ASSUME TInv, IInv, NEW c \in Clients, RequestWrite(c),
         NEW d \in Clients, NEW r \in Servers
  PROVE  Exchange(d, r)' /\ Kept(d, r)'
<1> DEFINE m == Msg("WRITE", CurrentLine(c))
<1>1. /\ phase[c] = "waiting"
      /\ phase' = [phase EXCEPT ![c] = "using"]
      /\ Command(c) = Write
      /\ server_done_write_request' = [server_done_write_request EXCEPT
           ![c] = [s \in Servers |-> FALSE]]
      /\ SendToServers(c, Servers, m)
      /\ UNCHANGED <<main, server_done_read_request, server, to_client>>
  BY DEF RequestWrite, Mutex!Enter, CurrentLine
<1>2. m \in Message /\ m.type = "WRITE" /\ m.line = CurrentLine(c)
  BY LineType, MsgType DEF TInv
<1> HIDE DEF m
<1>3. to_server'[d][r] = IF d = c THEN Append(to_server[d][r], m) ELSE to_server[d][r]
  BY <1>1, <1>2, SendLemma DEF TInv
<1>4. CASE d # c
  <2>1. /\ phase'[d] = phase[d] /\ to_server'[d][r] = to_server[d][r]
        /\ server_done_write_request'[d] = server_done_write_request[d]
    BY <1>1, <1>3, <1>4 DEF TInv, TypeOK
  <2> QED
    BY <1>1, <2>1, Untouched DEF IInv, main, server
<1>5. CASE d = c
  <2>1. /\ phase'[c] = "using" /\ Command(c)' = Command(c)
        /\ CurrentLine(c)' = CurrentLine(c)
        /\ server_done_write_request'[c][r] = FALSE
    BY <1>1 DEF TInv, TypeOK, main, Command, CurrentLine, Line
  <2>2. /\ Count(to_server[c][r], "WRITE") = 0 /\ Count(to_client[r][c], "WRITE") = 0
        /\ Count(to_server[c][r], "READ") = 0 /\ Count(to_client[r][c], "READ") = 0
    BY <1>1, NothingSent
  <2> DEFINE q == to_server[c][r]
  <2>9. to_server'[c][r] = Append(q, m) /\ q \in Seq(Message)
    BY <1>3, <1>5, CountNat
  <2>3. \A t : Count(to_server'[c][r], t) = Count(q, t) + IF t = "WRITE" THEN 1 ELSE 0
    <3> HIDE DEF q
    <3> QED
      BY <1>2, <2>9, CountSent
  <2>4. Writes(c)' /\ ~Reads(c, r)'
    BY <1>1, <2>1 DEF Writes, Reads, Read, Write
  <2>5. OneWrite(c, r)' /\ OneRead(c, r)'
    <3>1. /\ Count(to_server'[c][r], "WRITE") = 1 /\ Count(to_client'[r][c], "WRITE") = 0
          /\ Count(to_server'[c][r], "READ") = 0
          /\ Count(to_client'[r][c], "READ") = 0
      BY <1>1, <2>2, <2>3
    <3> QED
      BY <2>1, <2>4, <3>1 DEF OneWrite, OneRead
  <2>6. OneWay(c, r)'
    <3>1. OneWay(c, r)
      BY DEF IInv, Exchange
    <3> QED
      BY <1>1, <2>3, <3>1 DEF OneWay
  <2>7. ItsLine(c, r)'
    <3>1. Carries(to_server[c][r], "WRITE", CurrentLine(c))
      BY <2>2, CarriesNone, CountNat
    <3> HIDE DEF q
    <3>2. Carries(to_server'[c][r], "WRITE", CurrentLine(c))
      <4>1. Carries(q, "WRITE", CurrentLine(c))
        BY <3>1 DEF q
      <4> QED
        BY <1>2, <2>9, <4>1, CarriesSent
    <3> QED
      BY <2>1, <3>2 DEF ItsLine
  <2>8. Kept(c, r)'
    <3>1. Count(to_server'[c][r], "WRITE") = 1
      BY <2>2, <2>3
    <3>2. \A n \in Nat : Stored(c, n, r)' <=> Stored(c, n, r)
      BY <1>1, <2>1, <3>1 DEF Stored, main
    <3> QED
      BY <1>1, <3>2 DEF IInv, Kept, Line, server, main
  <2> QED
    BY <1>5, <2>5, <2>6, <2>7, <2>8 DEF Exchange
<1> QED
  BY <1>4, <1>5

\* A report is none of the messages counted.
LEMMA KeptFinish ==
  ASSUME TInv, IInv, NEW c \in Clients, FinishAccess(c),
         NEW d \in Clients, NEW r \in Servers
  PROVE  Exchange(d, r)' /\ Kept(d, r)'
<1> DEFINE m == Msg("DONE", FirstLine)
<1>1. UNCHANGED <<mutex, input, n_requested_requests, flags, server, to_client>>
  BY DEF FinishAccess
<1>2. m \in Message /\ m.type = "DONE"
  BY LineType, MsgType
<1>3. to_server'[d][r] = Append(to_server[d][r], m) \/ to_server'[d][r] = to_server[d][r]
  <2> HIDE DEF m
  <2>1. SendToServers(c, Servers, m) \/ to_server' = to_server
    BY DEF FinishAccess, m
  <2>2. ASSUME SendToServers(c, Servers, m)
        PROVE  to_server'[d][r] = IF d = c /\ r \in Servers
                                    THEN Append(to_server[d][r], m) ELSE to_server[d][r]
    BY <1>2, <2>2, SendLemma DEF TInv
  <2> QED
    BY <2>1, <2>2
<1> HIDE DEF m
<1>4. CASE to_server'[d][r] = to_server[d][r]
  BY <1>1, <1>4, Untouched DEF IInv, mutex, flags, server
<1>5. CASE to_server'[d][r] = Append(to_server[d][r], m)
  <2>1. \A t : t # "DONE" => Count(to_server'[d][r], t) = Count(to_server[d][r], t)
    <3> TAKE t
    <3> HAVE t # "DONE"
    <3>1. /\ Count(to_server[d][r], t) \in Nat
          /\ Count(to_server'[d][r], t) = Count(to_server[d][r], t) + 0
      BY <1>2, <1>5, CountSent, CountNat
    <3> QED
      BY <3>1
  <2>2. /\ Writes(d)' = Writes(d) /\ Reads(d, r)' = Reads(d, r)
        /\ CurrentLine(d)' = CurrentLine(d)
    BY <1>1 DEF mutex, Writes, Reads, Command, CurrentLine, Line
  <2>3. Exchange(d, r)
    BY DEF IInv
  <2>4. OneWrite(d, r)'
    BY <1>1, <2>1, <2>2, <2>3 DEF Exchange, OneWrite, flags
  <2>5. OneRead(d, r)'
    BY <1>1, <2>1, <2>2, <2>3 DEF Exchange, OneRead, flags
  <2>6. OneWay(d, r)'
    BY <1>1, <2>1, <2>3 DEF Exchange, OneWay
  <2>7. ItsLine(d, r)'
    <3>1. Carries(to_server[d][r], "WRITE", CurrentLine(d))
      BY <2>3 DEF Exchange, ItsLine
    <3>2. Carries(to_server'[d][r], "WRITE", CurrentLine(d))
      BY <1>2, <1>5, <3>1, CarriesSent, CountNat
    <3> QED
      BY <2>2, <3>2 DEF ItsLine
  <2>8. Kept(d, r)'
    BY <1>1, <2>1 DEF IInv, Kept, Stored, Line, server, mutex
  <2> QED
    BY <2>4, <2>5, <2>6, <2>7, <2>8 DEF Exchange
<1> QED
  BY <1>3, <1>4, <1>5

\* Of an access that is over nothing is left on its way.
LEMMA ServedLemma ==
  ASSUME TInv, IInv, NEW c \in Clients, NEW s \in Servers, Served(c)
  PROVE  /\ Count(to_server[c][s], "WRITE") = 0 /\ Count(to_client[s][c], "WRITE") = 0
         /\ Count(to_server[c][s], "READ") = 0 /\ Count(to_client[s][c], "READ") = 0
<1>1. CASE phase[c] # "using"
  BY <1>1, NothingSent
<1>2. CASE phase[c] = "using"
  <2>1. OneWrite(c, s) /\ OneRead(c, s)
    BY DEF IInv, Exchange
  <2>2. /\ Count(to_server[c][s], "WRITE") \in Nat
        /\ Count(to_client[s][c], "WRITE") \in Nat
        /\ Count(to_server[c][s], "READ") \in Nat
        /\ Count(to_client[s][c], "READ") \in Nat
    BY CountNat
  <2>3. CASE Command(c) = Write
    <3>1. Writes(c) /\ ~Reads(c, s) /\ server_done_write_request[c][s]
      BY <1>2, <2>3 DEF Writes, Reads, Served, Read, Write
    <3> QED
      BY <2>1, <2>2, <3>1 DEF OneWrite, OneRead
  <2>4. CASE Command(c) # Write
    <3>1. ~Writes(c) /\ server_done_read_request[c]
      BY <2>4 DEF Writes, Served
    <3> QED
      BY <2>1, <2>2, <3>1 DEF OneWrite, OneRead
  <2> QED
    BY <2>3, <2>4
<1> QED
  BY <1>1, <1>2

\* release_resource(): the access is over, and all servers have treated it.
LEMMA KeptRelease ==
  ASSUME TInv, IInv, NEW c \in Clients, ReleaseResource(c),
         NEW d \in Clients, NEW r \in Servers
  PROVE  Exchange(d, r)' /\ Kept(d, r)'
<1>1. /\ phase[c] = "using" /\ reported[c]
      /\ phase' = [phase EXCEPT ![c] = "idle"]
      /\ UNCHANGED <<input, n_requested_requests, flags, server, streams>>
  BY DEF ReleaseResource, Mutex!Release
<1>2. CASE d # c
  <2>1. phase'[d] = phase[d]
    BY <1>1, <1>2 DEF TInv, TypeOK
  <2> QED
    BY <1>1, <2>1, Untouched DEF IInv, flags, server, streams
<1>3. CASE d = c
  <2>1. phase'[c] = "idle"
    BY <1>1 DEF TInv, TypeOK
  <2>2. Served(c)
    BY <1>1 DEF IInv
  <2>3. /\ Count(to_server[c][r], "WRITE") = 0 /\ Count(to_client[r][c], "WRITE") = 0
        /\ Count(to_server[c][r], "READ") = 0 /\ Count(to_client[r][c], "READ") = 0
    BY <2>2, ServedLemma
  <2>4. ~Writes(c)' /\ ~Reads(c, r)'
    BY <2>1 DEF Writes, Reads
  <2>5. OneWrite(c, r)' /\ OneRead(c, r)'
    BY <1>1, <2>3, <2>4 DEF OneWrite, OneRead, streams
  <2>6. OneWay(c, r)' /\ ItsLine(c, r)'
    BY <1>1 DEF IInv, Exchange, OneWay, ItsLine, CurrentLine, Line, streams
  <2>7. Kept(c, r)'
    <3>1. \A n \in Nat : Stored(c, n, r)' <=> Stored(c, n, r)
      BY <1>1, <2>1, <2>3 DEF Stored, streams
    <3> QED
      BY <1>1, <3>1 DEF IInv, Kept, Line, server
  <2> QED
    BY <1>3, <2>5, <2>6, <2>7 DEF Exchange
<1> QED
  BY <1>2, <1>3

-----------------------------------------------------------------------------
(***************************************************************************)
(* The steps of the servers.                                               *)
(***************************************************************************)

\* A message of type t is taken from the stream q.
TakenFrom(q, t) ==
  /\ q # <<>> /\ Head(q).type = t /\ Count(q, t) > 0
  /\ \A u : Count(Tail(q), u) = Count(q, u) - IF u = t THEN 1 ELSE 0

\* Taking the first message lowers the count of its type by one and of no other.
LEMMA TakenLemma ==
  ASSUME NEW q \in Seq(Message), q # <<>>, NEW t, Head(q).type = t
  PROVE  TakenFrom(q, t)
<1>1. \A u : Count(Tail(q), u) = Count(q, u) - IF Head(q).type = u THEN 1 ELSE 0
  BY CountTaken
<1>2. Count(q, t) > 0
  BY CountTaken
<1>3. \A u : (Head(q).type = u) <=> (u = t)
  OBVIOUS
<1> QED
  BY <1>1, <1>2, <1>3 DEF TakenFrom

\* m is sent to the stream q.
SentTo(q, m) ==
  \A u : Count(Append(q, m), u) = Count(q, u) + IF u = m.type THEN 1 ELSE 0

\* Appending a message raises the count of its type by one and of no other.
LEMMA SentLemma ==
  ASSUME NEW q \in Seq(Message), NEW m \in Message
  PROVE  SentTo(q, m)
<1>1. \A u : Count(Append(q, m), u) = Count(q, u) + IF m.type = u THEN 1 ELSE 0
  BY CountSent
<1> QED
  BY <1>1 DEF SentTo

\* What a server's thread does when read() has returned.
LEMMA ReceiveLemma ==
  ASSUME TInv, NEW s \in Servers, NEW c \in Clients, NEW t, Receive(s, c, t)
  PROVE  /\ to_server'[c][s] = Tail(to_server[c][s])
         /\ TakenFrom(to_server[c][s], t)
         /\ Head(to_server[c][s]) \in Message
         /\ \A d \in Clients, r \in Servers :
              d # c \/ r # s => to_server'[d][r] = to_server[d][r]
         /\ UNCHANGED <<mutex, main, flags, links>>
<1>1. to_server[c][s] \in Seq(Message) /\ to_server[c][s] # <<>>
  BY DEF TInv, TypeOK, Receive
<1>2. TakenFrom(to_server[c][s], t)
  BY <1>1, TakenLemma DEF Receive
<1>3. Head(to_server[c][s]) \in Message
  BY <1>1, Taken
<1>4. /\ to_server'[c][s] = Tail(to_server[c][s])
      /\ \A d \in Clients, r \in Servers :
           d # c \/ r # s => to_server'[d][r] = to_server[d][r]
  BY DEF TInv, TypeOK, Receive
<1> QED
  BY <1>2, <1>3, <1>4 DEF Receive

\* So it is with the reply.
LEMMA ReplyLemma ==
  ASSUME TInv, NEW s \in Servers, NEW c \in Clients, NEW m \in Message, Reply(s, c, m)
  PROVE  /\ to_client'[s][c] = Append(to_client[s][c], m)
         /\ SentTo(to_client[s][c], m)
         /\ \A d \in Clients, r \in Servers :
              d # c \/ r # s => to_client'[r][d] = to_client[r][d]
<1>1. to_client[s][c] \in Seq(Message)
  BY CountNat
<1>2. SentTo(to_client[s][c], m)
  BY <1>1, SentLemma
<1> QED
  BY <1>2 DEF TInv, TypeOK, Reply

\* The main threads do not move when another thread does.
LEMMA SameAccess ==
  ASSUME UNCHANGED mutex, UNCHANGED main, NEW c \in Clients, NEW s \in Servers
  PROVE  /\ Writes(c)' = Writes(c) /\ Reads(c, s)' = Reads(c, s)
         /\ CurrentLine(c)' = CurrentLine(c)
         /\ n_requested_requests'[c] = n_requested_requests[c]
         /\ input'[c] = input[c] /\ phase'[c] = phase[c]
         /\ reported'[c] = reported[c]
BY DEF mutex, main, Writes, Reads, Command, CurrentLine, Line

\* handleReadRequest(): the READ becomes a reply.
LEMMA KeptHandleRead ==
  ASSUME TInv, IInv, NEW s \in Servers, NEW c \in Clients, HandleReadRequest(s, c),
         NEW d \in Clients, NEW r \in Servers
  PROVE  Exchange(d, r)' /\ Kept(d, r)'
<1> DEFINE m == Msg("READ", LastLine(file[s]))
           q == to_server[c][s]
           p == to_client[s][c]
<1>1. m \in Message /\ m.type = "READ"
  BY LastLineType, MsgType
<1>2. Receive(s, c, "READ") /\ Reply(s, c, m) /\ file' = file
  BY DEF HandleReadRequest
<1> HIDE DEF m
<1>3. /\ to_server'[c][s] = Tail(q) /\ TakenFrom(q, "READ")
      /\ \A e \in Clients, u \in Servers :
           e # c \/ u # s => to_server'[e][u] = to_server[e][u]
      /\ UNCHANGED <<mutex, main, flags, links>>
  BY <1>2, ReceiveLemma
<1>4. /\ to_client'[s][c] = Append(p, m) /\ SentTo(p, m)
      /\ \A e \in Clients, u \in Servers :
           e # c \/ u # s => to_client'[u][e] = to_client[u][e]
  BY <1>1, <1>2, ReplyLemma
<1>5. /\ Writes(d)' = Writes(d) /\ Reads(d, r)' = Reads(d, r)
      /\ CurrentLine(d)' = CurrentLine(d)
      /\ UNCHANGED <<n_requested_requests[d], input[d], phase[d]>>
  BY <1>3, SameAccess
<1>6. CASE d # c \/ r # s
  BY <1>2, <1>3, <1>4, <1>5, <1>6, Untouched DEF IInv, flags
<1>7. CASE d = c /\ r = s
  <2>1. Exchange(c, s) /\ Kept(c, s)
    BY DEF IInv
  <2>2. /\ Count(q, "WRITE") \in Nat /\ Count(p, "WRITE") \in Nat
        /\ Count(q, "READ") \in Nat /\ Count(p, "READ") \in Nat
        /\ Count(q, "ALL_DONE") \in Nat /\ Count(p, "DONE") \in Nat
        /\ q \in Seq(Message)
    BY CountNat
  <2> HIDE DEF q, p
  <2>3. /\ Count(Tail(q), "WRITE") = Count(q, "WRITE")
        /\ Count(Append(p, m), "WRITE") = Count(p, "WRITE")
        /\ Count(Tail(q), "READ") = Count(q, "READ") - 1
        /\ Count(Append(p, m), "READ") = Count(p, "READ") + 1
        /\ Count(Tail(q), "ALL_DONE") = Count(q, "ALL_DONE")
        /\ Count(Append(p, m), "DONE") = Count(p, "DONE")
    <3>1. \A u : Count(Tail(q), u) = Count(q, u) - IF u = "READ" THEN 1 ELSE 0
      BY <1>3 DEF TakenFrom
    <3>2. \A u : Count(Append(p, m), u) = Count(p, u) + IF u = m.type THEN 1 ELSE 0
      BY <1>4 DEF SentTo
    <3>3. m.type = "READ"
      BY <1>1
    <3> QED
      BY <2>2, <3>1, <3>2, <3>3
  <2>4. OneWrite(c, s)'
    BY <1>3, <1>4, <1>5, <1>7, <2>1, <2>3 DEF Exchange, OneWrite, flags, q, p
  <2>5. OneRead(c, s)'
    BY <1>3, <1>4, <1>5, <1>7, <2>1, <2>2, <2>3 DEF Exchange, OneRead, flags, q, p
  <2>6. OneWay(c, s)'
    BY <1>3, <1>4, <2>1, <2>3 DEF Exchange, OneWay, q, p
  <2>7. ItsLine(c, s)'
    <3>1. Carries(q, "WRITE", CurrentLine(c))
      BY <2>1 DEF Exchange, ItsLine, q
    <3>2. Carries(Tail(q), "WRITE", CurrentLine(c))
      BY <1>3, <2>2, <3>1, CarriesTaken DEF TakenFrom
    <3> QED
      BY <1>3, <1>5, <1>7, <3>2 DEF ItsLine
  <2>8. Kept(c, s)'
    BY <1>2, <1>3, <1>5, <1>7, <2>1, <2>3 DEF Kept, Stored, Line, q
  <2> QED
    BY <1>7, <2>4, <2>5, <2>6, <2>7, <2>8 DEF Exchange
<1> QED
  BY <1>6, <1>7

\* What is said of the lines of d in the file of s, when c's line is appended.
LEMMA KeptByOthers ==
  ASSUME TInv, NEW s \in Servers, NEW c \in Clients, NEW n \in Nat,
         file'[s] = Append(file[s], Line(c, n))
  PROVE  \A d \in Clients : \A k : Copies(file'[s], Line(d, k))
           = Copies(file[s], Line(d, k)) + IF d = c /\ k = n THEN 1 ELSE 0
<1> SUFFICES ASSUME NEW d \in Clients, NEW k
             PROVE  Copies(file'[s], Line(d, k))
                      = Copies(file[s], Line(d, k)) + IF d = c /\ k = n THEN 1 ELSE 0
  OBVIOUS
<1>1. file[s] \in Seq(Lines) /\ file'[s] = Append(file[s], Line(c, n))
  BY DEF TInv, TypeOK
<1>2. Line(c, n) \in Lines
  BY DEF Line, Lines
<1>3. Line(c, n) = Line(d, k) <=> d = c /\ k = n
  BY DEF Line
<1>4. Copies(Append(file[s], Line(c, n)), Line(d, k))
        = Copies(file[s], Line(d, k)) + IF Line(c, n) = Line(d, k) THEN 1 ELSE 0
  BY <1>1, <1>2, CopiesAppend
<1> QED
  BY <1>1, <1>3, <1>4

\* handleWriteRequest(): the WRITE becomes a line and a reply.
LEMMA KeptHandleWrite ==
  ASSUME TInv, IInv, NEW s \in Servers, NEW c \in Clients, HandleWriteRequest(s, c),
         NEW d \in Clients, NEW r \in Servers
  PROVE  Exchange(d, r)' /\ Kept(d, r)'
<1> DEFINE q == to_server[c][s]
           p == to_client[s][c]
           m == Msg("WRITE", Head(q).line)
           n == n_requested_requests[c]
<1>1. m \in Message /\ m.type = "WRITE"
  <2>1. Receive(s, c, "WRITE")
    BY DEF HandleWriteRequest
  <2>2. Head(q) \in Message
    BY <2>1, ReceiveLemma
  <2>3. Head(q).line \in Lines
    BY <2>2 DEF Message
  <2> HIDE DEF q
  <2> QED
    BY <2>3, MsgType
<1>2. /\ Receive(s, c, "WRITE") /\ Reply(s, c, m)
      /\ file' = [file EXCEPT ![s] = Append(@, Head(q).line)]
  BY DEF HandleWriteRequest
<1> HIDE DEF m
<1>3. /\ to_server'[c][s] = Tail(q) /\ TakenFrom(q, "WRITE")
      /\ \A e \in Clients, u \in Servers :
           e # c \/ u # s => to_server'[e][u] = to_server[e][u]
      /\ UNCHANGED <<mutex, main, flags, links>>
  BY <1>2, ReceiveLemma
<1>4. /\ to_client'[s][c] = Append(p, m) /\ SentTo(p, m)
      /\ \A e \in Clients, u \in Servers :
           e # c \/ u # s => to_client'[u][e] = to_client[u][e]
  BY <1>1, <1>2, ReplyLemma
<1>5. /\ Writes(d)' = Writes(d) /\ Reads(d, r)' = Reads(d, r)
      /\ CurrentLine(d)' = CurrentLine(d)
      /\ UNCHANGED <<n_requested_requests[d], input[d], phase[d]>>
  BY <1>3, SameAccess
<1>6. Exchange(c, s) /\ Kept(c, s)
  BY DEF IInv
<1>7. /\ Count(q, "WRITE") \in Nat /\ Count(p, "WRITE") \in Nat
      /\ Count(q, "READ") \in Nat /\ Count(p, "READ") \in Nat
      /\ Count(q, "ALL_DONE") \in Nat /\ Count(p, "DONE") \in Nat
      /\ q \in Seq(Message)
  BY CountNat
<1>8. q # <<>> /\ Head(q).line = CurrentLine(c)
  BY <1>3, <1>6, <1>7, CarriesTaken DEF Exchange, ItsLine, TakenFrom
<1> HIDE DEF q, p
<1>9. /\ file' = [file EXCEPT ![s] = Append(@, Line(c, n))] /\ n \in Nat
      /\ file \in [Servers -> Seq(Lines)]
  BY <1>2, <1>8 DEF CurrentLine, TInv, TypeOK
<1>10. \A e \in Clients : \A k : Copies(file'[s], Line(e, k))
          = Copies(file[s], Line(e, k)) + IF e = c /\ k = n THEN 1 ELSE 0
  <2> HIDE DEF n
  <2>1. file'[s] = Append(file[s], Line(c, n)) /\ n \in Nat
    BY <1>9
  <2> QED
    BY <2>1, KeptByOthers, ZenonT(30)
<1>11. CASE d # c /\ r = s
  <2>1. to_server'[d][r] = to_server[d][r] /\ to_client'[r][d] = to_client[r][d]
    BY <1>3, <1>4, <1>11
  <2>2. Exchange(d, r)'
    <3>1. Exchange(d, r)
      BY DEF IInv
    <3>2. OneWrite(d, r)' /\ OneRead(d, r)'
      BY <1>3, <1>5, <2>1, <3>1 DEF Exchange, OneWrite, OneRead, flags
    <3>3. OneWay(d, r)' /\ ItsLine(d, r)'
      BY <1>5, <2>1, <3>1 DEF Exchange, OneWay, ItsLine
    <3> QED
      BY <3>2, <3>3 DEF Exchange
  <2>3. Kept(d, r)'
    <3>1. \A k : Copies(file'[r], Line(d, k)) = Copies(file[r], Line(d, k))
      <4> TAKE k
      <4>1. Copies(file[s], Line(d, k)) \in Nat
        BY <1>9, CopiesType
      <4> QED
        BY <1>10, <1>11, <4>1
    <3>2. \A k : Stored(d, k, r)' = Stored(d, k, r)
      BY <1>5, <2>1 DEF Stored
    <3>3. Kept(d, r)
      BY DEF IInv
    <3>4. \A k : Line(d, k)' = Line(d, k)
      BY DEF Line
    <3> QED
      BY <1>5, <3>1, <3>2, <3>3, <3>4 DEF Kept
  <2> QED
    BY <2>2, <2>3
<1>12. CASE r # s
  <2>1. file'[r] = file[r]
    BY <1>9, <1>12
  <2> QED
    BY <1>3, <1>4, <1>5, <1>12, <2>1, Untouched DEF IInv, flags
<1>13. CASE d = c /\ r = s
  <2>3. /\ Count(Tail(q), "WRITE") = Count(q, "WRITE") - 1
        /\ Count(Append(p, m), "WRITE") = Count(p, "WRITE") + 1
        /\ Count(Tail(q), "READ") = Count(q, "READ")
        /\ Count(Append(p, m), "READ") = Count(p, "READ")
        /\ Count(Tail(q), "ALL_DONE") = Count(q, "ALL_DONE")
        /\ Count(Append(p, m), "DONE") = Count(p, "DONE")
        /\ Count(q, "WRITE") > 0
    <3>1. \A u : Count(Tail(q), u) = Count(q, u) - IF u = "WRITE" THEN 1 ELSE 0
      BY <1>3 DEF TakenFrom
    <3>2. \A u : Count(Append(p, m), u) = Count(p, u) + IF u = m.type THEN 1 ELSE 0
      BY <1>4 DEF SentTo
    <3>3. m.type = "WRITE" /\ Count(q, "WRITE") > 0
      BY <1>1, <1>3 DEF TakenFrom
    <3> QED
      BY <1>7, <3>1, <3>2, <3>3
  <2>4. OneWrite(c, s)'
    BY <1>3, <1>4, <1>5, <1>6, <1>7, <1>13, <2>3 DEF Exchange, OneWrite, flags, q, p
  <2>5. OneRead(c, s)'
    BY <1>3, <1>4, <1>5, <1>6, <1>7, <1>13, <2>3 DEF Exchange, OneRead, flags, q, p
  <2>6. OneWay(c, s)'
    BY <1>3, <1>4, <1>6, <2>3 DEF Exchange, OneWay, q, p
  <2>7. ItsLine(c, s)'
    <3>1. Carries(q, "WRITE", CurrentLine(c))
      BY <1>6 DEF Exchange, ItsLine, q
    <3>2. Carries(Tail(q), "WRITE", CurrentLine(c))
      BY <1>7, <1>8, <3>1, CarriesTaken
    <3> QED
      BY <1>3, <1>5, <1>13, <3>2 DEF ItsLine
  <2>8. Kept(c, s)'
    <3>1. Writes(c) /\ Count(q, "WRITE") = 1
      BY <1>6, <1>7, <2>3 DEF Exchange, OneWrite, q, p
    <3>2. /\ input[c][n] = Write /\ phase[c] = "using"
          /\ Count(to_server'[c][s], "WRITE") = 0
      BY <1>3, <2>3, <3>1 DEF Writes, Command
    <3>3. ASSUME NEW k \in 1 .. Len(input[c])
          PROVE  Copies(file'[s], Line(c, k)) = IF Stored(c, k, s)' THEN 1 ELSE 0
      <4>1. Copies(file[s], Line(c, k)) = IF Stored(c, k, s) THEN 1 ELSE 0
        BY <1>6 DEF Kept
      <4>2. CASE k = n
        <5>1. ~Stored(c, k, s) /\ Stored(c, k, s)'
          BY <1>5, <1>9, <1>13, <3>1, <3>2, <4>2 DEF Stored, q
        <5> QED
          BY <1>10, <4>1, <4>2, <5>1
      <4>3. CASE k # n
        <5>1. Stored(c, k, s)' <=> Stored(c, k, s)
          BY <1>5, <1>13, <4>3 DEF Stored
        <5> QED
          BY <1>10, <4>1, <4>3, <5>1
      <4> QED
        BY <4>2, <4>3
    <3>4. \A k : Line(c, k)' = Line(c, k)
      BY DEF Line
    <3> QED
      BY <1>5, <1>13, <3>3, <3>4 DEF Kept
  <2> QED
    BY <1>13, <2>4, <2>5, <2>6, <2>7, <2>8 DEF Exchange
<1> QED
  BY <1>11, <1>12, <1>13

\* A report becomes a flag.
LEMMA KeptHandleDone ==
  ASSUME TInv, IInv, NEW s \in Servers, NEW c \in Clients, HandleDoneAllRequest(s, c),
         NEW d \in Clients, NEW r \in Servers
  PROVE  Exchange(d, r)' /\ Kept(d, r)'
<1> DEFINE q == to_server[c][s]
<1>1. Receive(s, c, "DONE") /\ file' = file /\ to_client' = to_client
  BY DEF HandleDoneAllRequest
<1>2. /\ to_server'[c][s] = Tail(q) /\ TakenFrom(q, "DONE")
      /\ \A e \in Clients, u \in Servers :
           e # c \/ u # s => to_server'[e][u] = to_server[e][u]
      /\ UNCHANGED <<mutex, main, flags, links>>
  BY <1>1, ReceiveLemma
<1>3. /\ Writes(d)' = Writes(d) /\ Reads(d, r)' = Reads(d, r)
      /\ CurrentLine(d)' = CurrentLine(d)
      /\ UNCHANGED <<n_requested_requests[d], input[d], phase[d]>>
  BY <1>2, SameAccess
<1>4. CASE d # c \/ r # s
  BY <1>1, <1>2, <1>3, <1>4, Untouched DEF IInv, flags
<1>5. CASE d = c /\ r = s
  <2>1. Exchange(c, s) /\ Kept(c, s)
    BY DEF IInv
  <2>2. /\ Count(q, "WRITE") \in Nat /\ Count(q, "READ") \in Nat
        /\ Count(q, "ALL_DONE") \in Nat /\ q \in Seq(Message)
    BY CountNat
  <2> HIDE DEF q
  <2>3. /\ Count(Tail(q), "WRITE") = Count(q, "WRITE")
        /\ Count(Tail(q), "READ") = Count(q, "READ")
        /\ Count(Tail(q), "ALL_DONE") = Count(q, "ALL_DONE")
    BY <1>2, <2>2 DEF TakenFrom
  <2>4. OneWrite(c, s)'
    BY <1>1, <1>2, <1>3, <1>5, <2>1, <2>3 DEF Exchange, OneWrite, flags, q
  <2>5. OneRead(c, s)'
    BY <1>1, <1>2, <1>3, <1>5, <2>1, <2>3 DEF Exchange, OneRead, flags, q
  <2>6. OneWay(c, s)'
    BY <1>1, <1>2, <2>1, <2>3 DEF Exchange, OneWay, q
  <2>7. ItsLine(c, s)'
    <3>1. Carries(q, "WRITE", CurrentLine(c))
      BY <2>1 DEF Exchange, ItsLine, q
    <3>2. Carries(Tail(q), "WRITE", CurrentLine(c))
      BY <1>2, <2>2, <3>1, CarriesTaken DEF TakenFrom
    <3> QED
      BY <1>2, <1>3, <1>5, <3>2 DEF ItsLine
  <2>8. Kept(c, s)'
    BY <1>1, <1>2, <1>3, <1>5, <2>1, <2>3 DEF Kept, Stored, Line, q
  <2> QED
    BY <1>5, <2>4, <2>5, <2>6, <2>7, <2>8 DEF Exchange
<1> QED
  BY <1>4, <1>5

\* What the look at the flags of all clients sends.
LEMMA CheckLemma ==
  ASSUME TInv, NEW s \in Servers, NEW c \in Clients, CheckAllClientsDone(s, c),
         NEW d \in Clients, NEW r \in Servers, NEW t
  PROVE  Count(to_client'[r][d], t)
           = Count(to_client[r][d], t)
             + IF r = s /\ AllClientsDone(s) /\ server_link[d][s] /\ t = "ALL_DONE"
                 THEN 1 ELSE 0
<1> DEFINE m == Msg("ALL_DONE", FirstLine)
           p == to_client[r][d]
<1>1. m \in Message /\ m.type = "ALL_DONE"
  BY LineType, MsgType
<1>2. p \in Seq(Message) /\ \A u : Count(p, u) \in Nat
  BY CountNat
<1>3. to_client'[r][d] = IF r = s /\ AllClientsDone(s) /\ server_link[d][s]
                           THEN Append(p, m) ELSE p
  BY DEF TInv, TypeOK, CheckAllClientsDone
<1> HIDE DEF m, p
<1>4. SentTo(p, m)
  BY <1>1, <1>2, SentLemma
<1>5. Count(Append(p, m), t) = Count(p, t) + IF t = "ALL_DONE" THEN 1 ELSE 0
  BY <1>1, <1>4 DEF SentTo
<1> QED
  BY <1>2, <1>3, <1>5 DEF p

\* An answer to all clients is none of the messages counted.
LEMMA KeptCheck ==
  ASSUME TInv, IInv, NEW s \in Servers, NEW c \in Clients, CheckAllClientsDone(s, c),
         NEW d \in Clients, NEW r \in Servers
  PROVE  Exchange(d, r)' /\ Kept(d, r)'
<1>1. UNCHANGED <<mutex, main, flags, file, to_server>>
  BY DEF CheckAllClientsDone
<1>2. /\ Writes(d)' = Writes(d) /\ Reads(d, r)' = Reads(d, r)
      /\ CurrentLine(d)' = CurrentLine(d)
      /\ UNCHANGED <<n_requested_requests[d], input[d], phase[d]>>
  BY <1>1, SameAccess
<1>3. /\ Count(to_client'[r][d], "WRITE") = Count(to_client[r][d], "WRITE")
      /\ Count(to_client'[r][d], "READ") = Count(to_client[r][d], "READ")
      /\ Count(to_client'[r][d], "DONE") = Count(to_client[r][d], "DONE")
  <2>1. ASSUME NEW t, t # "ALL_DONE"
        PROVE  Count(to_client'[r][d], t) = Count(to_client[r][d], t)
    <3>1. Count(to_client'[r][d], t)
            = Count(to_client[r][d], t)
              + IF r = s /\ AllClientsDone(s) /\ server_link[d][s] /\ t = "ALL_DONE"
                  THEN 1 ELSE 0
      BY CheckLemma
    <3>2. Count(to_client[r][d], t) \in Nat
      BY CountNat
    <3> QED
      BY <2>1, <3>1, <3>2
  <2> QED
    BY <2>1
<1>4. Exchange(d, r) /\ Kept(d, r)
  BY DEF IInv
<1>5. OneWrite(d, r)' /\ OneRead(d, r)'
  BY <1>1, <1>2, <1>3, <1>4 DEF Exchange, OneWrite, OneRead, flags
<1>6. OneWay(d, r)' /\ ItsLine(d, r)'
  BY <1>1, <1>2, <1>3, <1>4 DEF Exchange, OneWay, ItsLine
<1>7. Kept(d, r)'
  BY <1>1, <1>2, <1>4 DEF Kept, Stored, Line
<1> QED
  BY <1>5, <1>6, <1>7 DEF Exchange

-----------------------------------------------------------------------------
(***************************************************************************)
(* The steps of a client's receive threads.                                *)
(***************************************************************************)

\* A message of type t is gone from the stream of s to c, and perhaps all are.
LEMMA TakeLemma ==
  ASSUME TInv, NEW c \in Clients, NEW s \in Servers, NEW t, NEW done \in BOOLEAN,
         TakeReply(c, s, t), TakeNext(c, s, done)
  PROVE  /\ \A u : /\ Count(to_client'[s][c], u) \in Nat
                   /\ Count(to_client'[s][c], u)
                        <= Count(to_client[s][c], u) - IF u = t THEN 1 ELSE 0
         /\ Count(to_client[s][c], t) > 0
         /\ Head(to_client[s][c]) \in Message
         /\ \A l : Carries(to_client[s][c], "READ", l)
                     => /\ Carries(to_client'[s][c], "READ", l)
                        /\ t = "READ" => Head(to_client[s][c]).line = l
         /\ \A d \in Clients, r \in Servers :
              d # c \/ r # s => to_client'[r][d] = to_client[r][d]
         /\ UNCHANGED <<mutex, main, server, to_server>>
<1> DEFINE p == to_client[s][c]
<1>1. p \in Seq(Message) /\ p # <<>> /\ Head(p).type = t
  BY DEF TInv, TypeOK, TakeReply
<1>2. /\ to_client'[s][c] = IF done THEN <<>> ELSE Tail(p)
      /\ \A d \in Clients, r \in Servers :
           d # c \/ r # s => to_client'[r][d] = to_client[r][d]
  BY DEF TInv, TypeOK, TakeNext
<1>3. UNCHANGED <<mutex, main, server, to_server>>
  BY DEF TakeReply
<1> HIDE DEF p
<1>4. TakenFrom(p, t) /\ Head(p) \in Message /\ Tail(p) \in Seq(Message)
  BY <1>1, TakenLemma, Taken
<1>5. ASSUME NEW u
      PROVE  /\ Count(to_client'[s][c], u) \in Nat
             /\ Count(to_client'[s][c], u) <= Count(p, u) - IF u = t THEN 1 ELSE 0
  <2>1. /\ Count(p, u) \in Nat /\ Count(Tail(p), u) \in Nat
        /\ Count(<<>>, u) = 0
    BY <1>1, <1>4, CountType, CountEmpty
  <2>2. Count(Tail(p), u) = Count(p, u) - IF u = t THEN 1 ELSE 0
    BY <1>4 DEF TakenFrom
  <2>3. u = t => Count(p, u) > 0
    BY <1>4 DEF TakenFrom
  <2>4. Count(to_client'[s][c], u) = IF done THEN 0 ELSE Count(Tail(p), u)
    BY <1>2, <2>1
  <2> QED
    BY <2>1, <2>2, <2>3, <2>4
<1>6. ASSUME NEW l, Carries(p, "READ", l)
      PROVE  Carries(to_client'[s][c], "READ", l) /\ (t = "READ" => Head(p).line = l)
  <2>1. Carries(Tail(p), "READ", l) /\ (Head(p).type = "READ" => Head(p).line = l)
    BY <1>1, <1>6, CarriesTaken
  <2>2. Carries(<<>>, "READ", l)
    <3>1. <<>> \in Seq(Message) /\ Count(<<>>, "READ") = 0
      BY CountEmpty
    <3> QED
      BY <3>1, CarriesNone
  <2> QED
    BY <1>1, <1>2, <2>1, <2>2
<1>7. Count(p, t) > 0
  BY <1>4 DEF TakenFrom
<1> QED
  BY <1>2, <1>3, <1>4, <1>5, <1>6, <1>7 DEF p

\* receiveReadResult(): the reply becomes a flag.
LEMMA KeptReceiveRead ==
  ASSUME TInv, IInv, NEW c \in Clients, NEW s \in Servers, ReceiveReadResult(c, s),
         NEW d \in Clients, NEW r \in Servers
  PROVE  Exchange(d, r)' /\ Kept(d, r)'
<1>1. /\ TakeReply(c, s, "READ") /\ TakeNext(c, s, all_clients_done_all_request[c])
      /\ all_clients_done_all_request[c] \in BOOLEAN
      /\ server_done_read_request' = [server_done_read_request EXCEPT ![c] = TRUE]
      /\ server_done_write_request' = server_done_write_request
  BY DEF ReceiveReadResult, TInv, TypeOK
<1>2. /\ \A u : /\ Count(to_client'[s][c], u) \in Nat
                /\ Count(to_client'[s][c], u)
                     <= Count(to_client[s][c], u) - IF u = "READ" THEN 1 ELSE 0
      /\ Count(to_client[s][c], "READ") > 0
      /\ \A e \in Clients, u \in Servers :
           e # c \/ u # s => to_client'[u][e] = to_client[u][e]
      /\ UNCHANGED <<mutex, main, server, to_server>>
  BY <1>1, TakeLemma
<1>3. /\ Writes(d)' = Writes(d) /\ Reads(d, r)' = Reads(d, r)
      /\ CurrentLine(d)' = CurrentLine(d)
      /\ UNCHANGED <<n_requested_requests[d], input[d], phase[d]>>
  BY <1>2, SameAccess
<1>4. /\ Count(to_server[c][s], "READ") \in Nat /\ Count(to_client[s][c], "READ") \in Nat
      /\ Count(to_server[c][s], "WRITE") \in Nat /\ Count(to_client[s][c], "WRITE") \in Nat
      /\ Count(to_client[s][c], "DONE") \in Nat
  BY CountNat
<1>5. Exchange(c, s)
  BY DEF IInv
<1>6. Reads(c, s)
  BY <1>2, <1>4, <1>5 DEF Exchange, OneRead
<1>7. CASE d # c
  <2>1. server_done_read_request'[d] = server_done_read_request[d]
    BY <1>1, <1>7 DEF TInv, TypeOK
  <2> QED
    BY <1>1, <1>2, <1>3, <1>7, <2>1, Untouched DEF IInv, server
<1>8. Exchange(d, r) /\ Kept(d, r)
  BY DEF IInv
<1>9. Kept(d, r)'
  BY <1>2, <1>3, <1>8 DEF Kept, Stored, Line, server
<1>10. ItsLine(d, r)'
  BY <1>2, <1>3, <1>8 DEF Exchange, ItsLine
<1>11. CASE d = c /\ r # s
  <2>1. ~Reads(c, r)
    BY <1>6, <1>11 DEF Reads, Read
  <2>2. OneWrite(d, r)'
    BY <1>1, <1>2, <1>3, <1>8, <1>11 DEF Exchange, OneWrite
  <2>3. OneRead(d, r)'
    BY <1>2, <1>3, <1>8, <1>11, <2>1 DEF Exchange, OneRead
  <2>4. OneWay(d, r)'
    BY <1>2, <1>8, <1>11 DEF Exchange, OneWay
  <2> QED
    BY <1>9, <1>10, <2>2, <2>3, <2>4 DEF Exchange
<1>12. CASE d = c /\ r = s
  <2>1. Count(to_client'[s][c], "WRITE") <= Count(to_client[s][c], "WRITE")
    <3>1. Count(to_client'[s][c], "WRITE") <= Count(to_client[s][c], "WRITE") - 0
      BY <1>2
    <3> QED
      BY <1>2, <1>4, <3>1
  <2>2. OneWrite(c, s)'
    BY <1>1, <1>2, <1>3, <1>4, <1>5, <1>12, <2>1 DEF Exchange, OneWrite
  <2>3. Count(to_client'[s][c], "READ") <= Count(to_client[s][c], "READ") - 1
    BY <1>2
  <2>4. OneRead(c, s)'
    <3>1. Count(to_server[c][s], "READ") + Count(to_client[s][c], "READ") <= 1
      BY <1>4, <1>5, <1>6 DEF Exchange, OneRead
    <3>2. Count(to_client'[s][c], "READ") \in Nat /\ to_server' = to_server
      BY <1>2
    <3>3. Count(to_server'[c][s], "READ") + Count(to_client'[s][c], "READ") + 1 <= 1
      BY <1>2, <1>4, <2>3, <3>1, <3>2
    <3>4. server_done_read_request'[c] /\ Reads(c, s)'
      BY <1>1, <1>3, <1>6, <1>12 DEF TInv, TypeOK
    <3> QED
      BY <3>3, <3>4 DEF OneRead
  <2>5. OneWay(c, s)'
    <3>1. Count(to_client'[s][c], "DONE") <= Count(to_client[s][c], "DONE") - 0
      BY <1>2
    <3>2. Count(to_client'[s][c], "DONE") \in Nat /\ to_server' = to_server
      BY <1>2
    <3> QED
      BY <1>4, <1>5, <3>1, <3>2 DEF Exchange, OneWay
  <2> QED
    BY <1>9, <1>10, <1>12, <2>2, <2>4, <2>5 DEF Exchange
<1> QED
  BY <1>7, <1>11, <1>12

\* receiveWriteResult(): so it is with the reply to a WRITE.
LEMMA KeptReceiveWrite ==
  ASSUME TInv, IInv, NEW c \in Clients, NEW s \in Servers, ReceiveWriteResult(c, s),
         NEW d \in Clients, NEW r \in Servers
  PROVE  Exchange(d, r)' /\ Kept(d, r)'
<1>1. /\ TakeReply(c, s, "WRITE") /\ TakeNext(c, s, all_clients_done_all_request[c])
      /\ all_clients_done_all_request[c] \in BOOLEAN
      /\ server_done_write_request' =
           [server_done_write_request EXCEPT ![c][s] = TRUE]
      /\ server_done_read_request' = server_done_read_request
  BY DEF ReceiveWriteResult, TInv, TypeOK
<1>2. /\ \A u : /\ Count(to_client'[s][c], u) \in Nat
                /\ Count(to_client'[s][c], u)
                     <= Count(to_client[s][c], u) - IF u = "WRITE" THEN 1 ELSE 0
      /\ Count(to_client[s][c], "WRITE") > 0
      /\ \A e \in Clients, u \in Servers :
           e # c \/ u # s => to_client'[u][e] = to_client[u][e]
      /\ UNCHANGED <<mutex, main, server, to_server>>
  BY <1>1, TakeLemma
<1>3. /\ Writes(d)' = Writes(d) /\ Reads(d, r)' = Reads(d, r)
      /\ CurrentLine(d)' = CurrentLine(d)
      /\ UNCHANGED <<n_requested_requests[d], input[d], phase[d]>>
  BY <1>2, SameAccess
<1>4. /\ Count(to_server[c][s], "READ") \in Nat /\ Count(to_client[s][c], "READ") \in Nat
      /\ Count(to_server[c][s], "WRITE") \in Nat /\ Count(to_client[s][c], "WRITE") \in Nat
      /\ Count(to_client[s][c], "DONE") \in Nat
  BY CountNat
<1>5. Exchange(c, s)
  BY DEF IInv
<1>6. Writes(c)
  BY <1>2, <1>4, <1>5 DEF Exchange, OneWrite
<1>7. CASE d # c \/ r # s
  <2>1. server_done_write_request'[d][r] = server_done_write_request[d][r]
    BY <1>1, <1>7 DEF TInv, TypeOK
  <2> QED
    BY <1>1, <1>2, <1>3, <1>7, <2>1, Untouched DEF IInv, server
<1>8. CASE d = c /\ r = s
  <2>1. Kept(c, s)'
    BY <1>2, <1>3, <1>8 DEF IInv, Kept, Stored, Line, server
  <2>2. ItsLine(c, s)'
    BY <1>2, <1>3, <1>5, <1>8 DEF Exchange, ItsLine
  <2>3. Count(to_client'[s][c], "READ") <= Count(to_client[s][c], "READ")
    <3>1. Count(to_client'[s][c], "READ") <= Count(to_client[s][c], "READ") - 0
      BY <1>2
    <3> QED
      BY <1>2, <1>4, <3>1
  <2>4. OneRead(c, s)'
    BY <1>1, <1>2, <1>3, <1>4, <1>5, <1>8, <2>3 DEF Exchange, OneRead
  <2>5. Count(to_client'[s][c], "WRITE") <= Count(to_client[s][c], "WRITE") - 1
    BY <1>2
  <2>6. OneWrite(c, s)'
    <3>1. Count(to_server[c][s], "WRITE") + Count(to_client[s][c], "WRITE") <= 1
      BY <1>4, <1>5, <1>6 DEF Exchange, OneWrite
    <3>2. Count(to_client'[s][c], "WRITE") \in Nat /\ to_server' = to_server
      BY <1>2
    <3>3. Count(to_server'[c][s], "WRITE") + Count(to_client'[s][c], "WRITE") + 1 <= 1
      BY <1>4, <2>5, <3>1, <3>2
    <3>4. server_done_write_request'[c][s] /\ Writes(c)'
      BY <1>1, <1>3, <1>6, <1>8 DEF TInv, TypeOK
    <3> QED
      BY <3>3, <3>4 DEF OneWrite
  <2>7. OneWay(c, s)'
    <3>1. Count(to_client'[s][c], "DONE") <= Count(to_client[s][c], "DONE") - 0
      BY <1>2
    <3>2. Count(to_client'[s][c], "DONE") \in Nat /\ to_server' = to_server
      BY <1>2
    <3> QED
      BY <1>4, <1>5, <3>1, <3>2 DEF Exchange, OneWay
  <2> QED
    BY <1>8, <2>1, <2>2, <2>4, <2>6, <2>7 DEF Exchange
<1> QED
  BY <1>7, <1>8

\* The end of the thread for s drops what was not read.
LEMMA KeptReceiveAllDone ==
  ASSUME TInv, IInv, NEW c \in Clients, NEW s \in Servers, ReceiveAllDone(c, s),
         NEW d \in Clients, NEW r \in Servers
  PROVE  Exchange(d, r)' /\ Kept(d, r)'
<1>1. PICK done \in BOOLEAN :
        /\ TakeReply(c, s, "ALL_DONE") /\ TakeNext(c, s, done) /\ UNCHANGED flags
        /\ done = TRUE
  BY DEF ReceiveAllDone
<1>2. /\ \A u : /\ Count(to_client'[s][c], u) \in Nat
                /\ Count(to_client'[s][c], u)
                     <= Count(to_client[s][c], u) - IF u = "ALL_DONE" THEN 1 ELSE 0
      /\ \A e \in Clients, u \in Servers :
           e # c \/ u # s => to_client'[u][e] = to_client[u][e]
      /\ UNCHANGED <<mutex, main, server, to_server>>
  <2>1. TakeReply(c, s, "ALL_DONE") /\ TakeNext(c, s, done)
    BY <1>1
  <2> QED
    BY <2>1, TakeLemma
<1>3. /\ Writes(d)' = Writes(d) /\ Reads(d, r)' = Reads(d, r)
      /\ CurrentLine(d)' = CurrentLine(d)
      /\ UNCHANGED <<n_requested_requests[d], input[d], phase[d]>>
  BY <1>2, SameAccess
<1>4. CASE d # c \/ r # s
  BY <1>1, <1>2, <1>3, <1>4, Untouched DEF IInv, flags, server
<1>5. CASE d = c /\ r = s
  <2>1. Exchange(c, s) /\ Kept(c, s)
    BY DEF IInv
  <2>2. /\ Count(to_server[c][s], "READ") \in Nat /\ Count(to_client[s][c], "READ") \in Nat
        /\ Count(to_server[c][s], "WRITE") \in Nat /\ Count(to_client[s][c], "WRITE") \in Nat
        /\ Count(to_client[s][c], "DONE") \in Nat
    BY CountNat
  <2>3. \A u \in {"READ", "WRITE", "DONE"} :
          /\ Count(to_client'[s][c], u) \in Nat
          /\ Count(to_client'[s][c], u) <= Count(to_client[s][c], u)
    <3> TAKE u \in {"READ", "WRITE", "DONE"}
    <3>1. u # "ALL_DONE"
      OBVIOUS
    <3>2. /\ Count(to_client'[s][c], u) \in Nat
          /\ Count(to_client'[s][c], u) <= Count(to_client[s][c], u) - 0
      BY <1>2, <3>1
    <3>3. Count(to_client[s][c], u) \in Nat
      BY CountNat
    <3> QED
      BY <3>2, <3>3
  <2>4. OneWrite(c, s)'
    BY <1>1, <1>2, <1>3, <1>5, <2>1, <2>2, <2>3 DEF Exchange, OneWrite, flags
  <2>5. OneRead(c, s)'
    BY <1>1, <1>2, <1>3, <1>5, <2>1, <2>2, <2>3 DEF Exchange, OneRead, flags
  <2>6. OneWay(c, s)' /\ ItsLine(c, s)'
    BY <1>2, <1>3, <1>5, <2>1, <2>2, <2>3 DEF Exchange, OneWay, ItsLine
  <2>7. Kept(c, s)'
    BY <1>2, <1>3, <1>5, <2>1 DEF Kept, Stored, Line, server
  <2> QED
    BY <1>5, <2>4, <2>5, <2>6, <2>7 DEF Exchange
<1> QED
  BY <1>4, <1>5

-----------------------------------------------------------------------------
(***************************************************************************)
(* What is stored, and what is on its way.                                 *)
(***************************************************************************)

\* At first nothing is on its way or stored.
LEMMA KeptInit == Init => IInv
<1> SUFFICES ASSUME Init PROVE IInv
  OBVIOUS
<1>1. \A c \in Clients : phase[c] = "idle" /\ ~reported[c] /\ n_requested_requests[c] = 0
  BY DEF Init, Mutex!Init
<1>2. \A c \in Clients, s \in Servers :
        /\ to_server[c][s] = <<>> /\ to_client[s][c] = <<>>
        /\ file[s] = <<FirstLine>>
  BY DEF Init
<1>3. \A t : Count(<<>>, t) = 0
  BY CountEmpty
<1>4. ASSUME NEW c \in Clients, NEW s \in Servers PROVE Exchange(c, s) /\ Kept(c, s)
  <2>1. ~Writes(c) /\ ~Reads(c, s)
    BY <1>1 DEF Writes, Reads
  <2>2. OneWrite(c, s) /\ OneRead(c, s) /\ OneWay(c, s)
    BY <1>2, <1>3, <2>1 DEF OneWrite, OneRead, OneWay
  <2>3. ItsLine(c, s)
    <3>1. <<>> \in Seq(Message)
      OBVIOUS
    <3> QED
      BY <1>2, <1>3, <3>1, CarriesNone DEF ItsLine
  <2>4. Kept(c, s)
    <3>1. ASSUME NEW n \in 1 .. Len(input[c])
          PROVE  Copies(file[s], Line(c, n)) = IF Stored(c, n, s) THEN 1 ELSE 0
      <4>1. n \in Nat \ {0}
        OBVIOUS
      <4>2. ~Stored(c, n, s)
        BY <1>1, <4>1 DEF Stored
      <4> QED
        BY <1>2, <4>1, <4>2, CopiesOfFirst
    <3> QED
      BY <3>1 DEF Kept
  <2> QED
    BY <2>2, <2>3, <2>4 DEF Exchange
<1> QED
  BY <1>1, <1>4 DEF IInv

\* Who has reported has been served, and the flags stay until the next access.
LEMMA ReportedNext ==
  ASSUME TInv, IInv, [Next]_vars, NEW d \in Clients, reported'[d]
  PROVE  Served(d)'
<1>1. ASSUME reported[d], UNCHANGED <<input, n_requested_requests>>,
             server_done_read_request[d] => server_done_read_request'[d],
             \A s \in Servers : server_done_write_request[d][s]
                                  => server_done_write_request'[d][s]
      PROVE  Served(d)'
  <2>1. Served(d)
    BY <1>1 DEF IInv
  <2>2. Command(d)' = Command(d)
    BY <1>1 DEF Command
  <2> QED
    BY <1>1, <2>1, <2>2 DEF Served
<1>2. reported[d] => phase[d] = "using"
  BY DEF TInv, TypeOK
<1>3. ASSUME NEW c \in Clients, RequestCriticalSection(c) PROVE Served(d)'
  <2>1. /\ reported' = reported /\ phase[c] = "idle"
        /\ n_requested_requests' = [n_requested_requests EXCEPT ![c] = @ + 1]
        /\ UNCHANGED <<input, flags>>
    BY <1>3 DEF RequestCriticalSection, Mutex!Request
  <2>2. reported[d] /\ d # c
    BY <1>2, <2>1
  <2>3. Served(d) /\ Command(d)' = Command(d)
    BY <2>1, <2>2 DEF IInv, Command, TInv, TypeOK
  <2> QED
    BY <2>1, <2>3 DEF Served, flags
<1>4. ASSUME NEW c \in Clients, RequestRead(c) PROVE Served(d)'
  <2>1. /\ phase[c] = "waiting" /\ UNCHANGED <<main, server_done_write_request>>
        /\ server_done_read_request' = [server_done_read_request EXCEPT ![c] = FALSE]
    BY <1>4 DEF RequestRead, Mutex!Enter
  <2>2. reported[d] /\ d # c
    BY <1>2, <2>1 DEF main
  <2> QED
    BY <1>1, <2>1, <2>2 DEF main, TInv, TypeOK
<1>5. ASSUME NEW c \in Clients, RequestWrite(c) PROVE Served(d)'
  <2>1. /\ phase[c] = "waiting" /\ UNCHANGED <<main, server_done_read_request>>
        /\ server_done_write_request' = [server_done_write_request EXCEPT
             ![c] = [s \in Servers |-> FALSE]]
    BY <1>5 DEF RequestWrite, Mutex!Enter
  <2>2. reported[d] /\ d # c
    BY <1>2, <2>1 DEF main
  <2> QED
    BY <1>1, <2>1, <2>2 DEF main, TInv, TypeOK
<1>6. ASSUME NEW c \in Clients, FinishAccess(c) PROVE Served(d)'
  <2>1. Served(c) /\ reported' = [reported EXCEPT ![c] = TRUE]
        /\ UNCHANGED <<input, n_requested_requests, flags>>
    BY <1>6 DEF FinishAccess
  <2>2. Served(d)
    BY <2>1 DEF IInv, TInv, TypeOK
  <2> QED
    BY <2>1, <2>2 DEF Served, Command, flags
<1>7. ASSUME NEW c \in Clients, ReleaseResource(c) PROVE Served(d)'
  <2>1. /\ reported' = [reported EXCEPT ![c] = FALSE]
        /\ UNCHANGED <<input, n_requested_requests, flags>>
    BY <1>7 DEF ReleaseResource
  <2>2. reported[d]
    BY <2>1 DEF TInv, TypeOK
  <2> QED
    BY <1>1, <2>1, <2>2 DEF flags
<1>8. ASSUME NEW s \in Servers, NEW c \in Clients, ServerThread(s, c) PROVE Served(d)'
  <2>1. UNCHANGED <<main, flags>>
    BY <1>8
    DEF ServerThread, HandleReadRequest, HandleWriteRequest, HandleDoneAllRequest,
        CheckAllClientsDone, ServerThreadEnds, Receive
  <2> QED
    BY <1>1, <2>1 DEF main, flags
<1>9. ASSUME NEW c \in Clients, NEW s \in Servers, ThreadForServer(c, s)
      PROVE  Served(d)'
  <2>1. UNCHANGED main
    BY <1>9
    DEF ThreadForServer, ReceiveReadResult, ReceiveWriteResult, ReceiveAllDone, TakeReply
  <2>2. server_done_read_request[d] => server_done_read_request'[d]
    BY <1>9
    DEF ThreadForServer, ReceiveReadResult, ReceiveWriteResult, ReceiveAllDone, flags,
        TInv, TypeOK
  <2>3. \A r \in Servers : server_done_write_request[d][r]
                             => server_done_write_request'[d][r]
    <3>1. \/ server_done_write_request' = server_done_write_request
          \/ server_done_write_request' = [server_done_write_request EXCEPT
               ![c][s] = TRUE]
      BY <1>9
      DEF ThreadForServer, ReceiveReadResult, ReceiveWriteResult, ReceiveAllDone, flags
    <3>2. server_done_write_request \in [Clients -> [Servers -> BOOLEAN]]
      BY DEF TInv, TypeOK
    <3> QED
      BY <3>1, <3>2
  <2> QED
    BY <1>1, <2>1, <2>2, <2>3 DEF main
<1>10. ASSUME NEW c \in Clients, NEW e \in Clients,
              ThreadForClient(c, e) \/ NoticeDone(c, e)
       PROVE  Served(d)'
  <2>1. UNCHANGED <<main, flags>>
    BY <1>10
    DEF ThreadForClient, ReceiveDone, LoseConnection, NoticeDone, ClientThreadEnds
  <2> QED
    BY <1>1, <2>1 DEF main, flags
<1>11. CASE LockFails
  BY <1>1, <1>11 DEF LockFails, main, flags
<1>12. CASE UNCHANGED vars
  BY <1>1, <1>12 DEF vars, main, flags
<1> QED
  BY <1>3, <1>4, <1>5, <1>6, <1>7, <1>8, <1>9, <1>10, <1>11, <1>12
  DEF Next, MainThread, Terminated

\* Every step keeps the account of requests, replies and lines.
LEMMA KeptNext == TInv /\ IInv /\ [Next]_vars => IInv'
<1> SUFFICES ASSUME TInv, IInv, [Next]_vars PROVE IInv'
  OBVIOUS
<1>1. ASSUME NEW d \in Clients, NEW r \in Servers PROVE Exchange(d, r)' /\ Kept(d, r)'
  <2>1. ASSUME UNCHANGED <<main, flags, file, streams, phase>>
        PROVE  Exchange(d, r)' /\ Kept(d, r)'
    BY <2>1, Untouched DEF IInv, main, flags, streams
  <2>2. ASSUME NEW c \in Clients, MainThread(c) PROVE Exchange(d, r)' /\ Kept(d, r)'
    BY <2>2, KeptRequest, KeptRead, KeptWrite, KeptFinish, KeptRelease DEF MainThread
  <2>3. ASSUME NEW s \in Servers, NEW c \in Clients, ServerThread(s, c)
        PROVE  Exchange(d, r)' /\ Kept(d, r)'
    <3>1. ASSUME ServerThreadEnds(s, c) PROVE UNCHANGED <<main, flags, file, streams, phase>>
      BY <3>1 DEF ServerThreadEnds, mutex
    <3> QED
      BY <2>1, <2>3, <3>1, KeptHandleRead, KeptHandleWrite, KeptHandleDone, KeptCheck
      DEF ServerThread
  <2>4. ASSUME NEW c \in Clients, NEW s \in Servers, ThreadForServer(c, s)
        PROVE  Exchange(d, r)' /\ Kept(d, r)'
    BY <2>4, KeptReceiveRead, KeptReceiveWrite, KeptReceiveAllDone DEF ThreadForServer
  <2>5. ASSUME NEW c \in Clients, NEW e \in Clients,
               ThreadForClient(c, e) \/ NoticeDone(c, e)
        PROVE  Exchange(d, r)' /\ Kept(d, r)'
    <3>1. UNCHANGED <<main, flags, file, streams, phase>>
      BY <2>5
      DEF ThreadForClient, ReceiveDone, LoseConnection, NoticeDone, ClientThreadEnds,
          mutex, server
    <3> QED
      BY <2>1, <3>1
  <2>6. CASE LockFails
    BY <2>1, <2>6 DEF LockFails, Mutex!Taint, server
  <2>7. CASE UNCHANGED vars
    BY <2>1, <2>7 DEF vars, mutex, server
  <2> QED
    BY <2>2, <2>3, <2>4, <2>5, <2>6, <2>7 DEF Next, Terminated
<1>2. ASSUME NEW d \in Clients, reported'[d] PROVE Served(d)'
  BY <1>2, ReportedNext
<1> QED
  BY <1>1, <1>2 DEF IInv

\* All states are as TInv and IInv say.
LEMMA Invariants == Spec => [](TInv /\ IInv)
BY TypeInit, TypeNext, KeptInit, KeptNext, PTL DEF Spec

\* handleWriteRequest() appends a line once for every WRITE: the line of a WRITE
\* that is over is in every replica once, that of one that is not at most once,
\* and nothing else is there, whether the lock excludes or not.
THEOREM Written == Spec => []WrittenOnce
<1>1. ASSUME TInv, IInv PROVE WrittenOnce
  <2> SUFFICES ASSUME NEW c \in Clients, NEW s \in Servers, NEW n \in 1 .. Len(input[c])
               PROVE  /\ Copies(file[s], Line(c, n)) <= 1
                      /\ Wrote(c, n) => Copies(file[s], Line(c, n)) = 1
                      /\ n > n_requested_requests[c] \/ input[c][n] # Write
                           => Copies(file[s], Line(c, n)) = 0
    BY DEF WrittenOnce
  <2>1. Copies(file[s], Line(c, n)) = IF Stored(c, n, s) THEN 1 ELSE 0
    BY <1>1 DEF IInv, Kept
  <2>2. /\ n_requested_requests[c] \in Nat /\ n \in Nat
        /\ phase[c] \in {"idle", "waiting", "using"}
    BY <1>1 DEF TInv, TypeOK, Mutex!Phases
  <2>3. Wrote(c, n) => Stored(c, n, s)
    <3> SUFFICES ASSUME Wrote(c, n) PROVE Stored(c, n, s)
      OBVIOUS
    <3>1. CASE n # n_requested_requests[c]
      BY <2>2, <3>1 DEF Wrote, Stored
    <3>2. CASE n = n_requested_requests[c] /\ phase[c] = "idle"
      BY <3>2 DEF Wrote, Stored
    <3>3. CASE n = n_requested_requests[c] /\ phase[c] = "using"
      BY <1>1, <3>3, ServedLemma DEF Wrote, Stored
    <3> QED
      BY <2>2, <3>1, <3>2, <3>3 DEF Wrote
  <2>4. n > n_requested_requests[c] \/ input[c][n] # Write => ~Stored(c, n, s)
    BY <2>2 DEF Stored
  <2> QED
    BY <2>1, <2>3, <2>4
<1>2. TInv /\ IInv => WrittenOnce
  BY <1>1
<1> QED
  BY Invariants, <1>2, PTL

\* Once requestRead() or requestWrite() returns, nothing of the access is on its
\* way any more.
THEOREM Current == Spec => []RepliesAreCurrent
<1>1. ASSUME TInv, IInv PROVE RepliesAreCurrent
  <2> SUFFICES ASSUME NEW c \in Clients, NEW s \in Servers,
                      ~(phase[c] = "using" /\ ~Served(c))
               PROVE  /\ \A k \in 1 .. Len(to_server[c][s]) :
                           to_server[c][s][k].type = "DONE"
                      /\ \A k \in 1 .. Len(to_client[s][c]) :
                           to_client[s][c][k].type = "ALL_DONE"
    BY DEF RepliesAreCurrent
  <2> DEFINE q == to_server[c][s]
             p == to_client[s][c]
  <2>1. /\ Count(q, "WRITE") = 0 /\ Count(p, "WRITE") = 0
        /\ Count(q, "READ") = 0 /\ Count(p, "READ") = 0
    BY <1>1, NothingSent, ServedLemma
  <2>2. Count(q, "ALL_DONE") = 0 /\ Count(p, "DONE") = 0
    BY <1>1 DEF IInv, Exchange, OneWay
  <2>3. q \in Seq(Message) /\ p \in Seq(Message)
    BY <1>1, CountNat
  <2> HIDE DEF q, p
  <2>4. ASSUME NEW k \in 1 .. Len(q) PROVE q[k].type = "DONE"
    <3>1. q[k].type \in {"READ", "WRITE", "DONE", "ALL_DONE"}
      <4>1. q[k] \in Message
        BY <2>3, ElementOfSeq
      <4> QED
        BY <4>1 DEF Message
    <3>2. \A t : Count(q, t) = 0 => q[k].type # t
      BY <2>3, CountType DEF Places
    <3> QED
      BY <2>1, <2>2, <3>1, <3>2
  <2>5. ASSUME NEW k \in 1 .. Len(p) PROVE p[k].type = "ALL_DONE"
    <3>1. p[k].type \in {"READ", "WRITE", "DONE", "ALL_DONE"}
      <4>1. p[k] \in Message
        BY <2>3, ElementOfSeq
      <4> QED
        BY <4>1 DEF Message
    <3>2. \A t : Count(p, t) = 0 => p[k].type # t
      BY <2>3, CountType DEF Places
    <3> QED
      BY <2>1, <2>2, <3>1, <3>2
  <2> QED
    BY <2>4, <2>5 DEF q, p
<1>2. TInv /\ IInv => RepliesAreCurrent
  BY <1>1
<1> QED
  BY Invariants, <1>2, PTL

-----------------------------------------------------------------------------
(***************************************************************************)
(* Who hears of the end.                                                   *)
(***************************************************************************)

\* What is sent does not count for another type.
LEMMA OtherType ==
  ASSUME TInv, NEW c \in Clients, NEW dests, NEW m \in Message, NEW t, m.type # t,
         SendToServers(c, dests, m), NEW d \in Clients, NEW r \in Servers
  PROVE  Count(to_server'[d][r], t) = Count(to_server[d][r], t)
<1> DEFINE q == to_server[d][r]
<1>1. to_server'[d][r] = IF d = c /\ r \in dests THEN Append(q, m) ELSE q
  BY SendLemma DEF TInv
<1>2. q \in Seq(Message) /\ Count(q, t) \in Nat
  BY CountNat
<1> HIDE DEF q
<1>3. Count(Append(q, m), t) = Count(q, t) + IF t = m.type THEN 1 ELSE 0
  BY <1>2, SentLemma DEF SentTo
<1> QED
  BY <1>1, <1>2, <1>3 DEF q

\* d's report is on its way to r, or r has it.
Reported(d, r) == Count(to_server[d][r], "DONE") > 0 \/ client_done_all_request[r][d]

\* A client reports in its last access only.
LEMMA ReportsNext ==
  ASSUME TInv, [Next]_vars, NEW d \in Clients, NEW r \in Servers, Reported(d, r)'
  PROVE  Reported(d, r) \/ (FinishAccess(d) /\ IsLastRequest(d))
<1>1. ASSUME NEW c \in Clients, RequestRead(c) PROVE Reported(d, r)
  <2>1. Msg("READ", FirstLine) \in Message /\ Msg("READ", FirstLine).type # "DONE"
    BY LineType, MsgType
  <2>2. Count(to_server'[d][r], "DONE") = Count(to_server[d][r], "DONE")
    BY <1>1, <2>1, OtherType DEF RequestRead
  <2> QED
    BY <1>1, <2>2 DEF Reported, RequestRead, server
<1>2. ASSUME NEW c \in Clients, RequestWrite(c) PROVE Reported(d, r)
  <2>1. /\ Msg("WRITE", CurrentLine(c)) \in Message
        /\ Msg("WRITE", CurrentLine(c)).type # "DONE"
    BY LineType, MsgType DEF TInv
  <2>2. Count(to_server'[d][r], "DONE") = Count(to_server[d][r], "DONE")
    BY <1>2, <2>1, OtherType DEF RequestWrite, CurrentLine
  <2> QED
    BY <1>2, <2>2 DEF Reported, RequestWrite, server
<1>3. ASSUME NEW c \in Clients, FinishAccess(c), ~(c = d /\ IsLastRequest(c))
      PROVE  Reported(d, r)
  <2>1. to_server'[d][r] = to_server[d][r]
    <3>1. CASE IsLastRequest(c)
      <4>1. Msg("DONE", FirstLine) \in Message
        BY LineType, MsgType
      <4>2. SendToServers(c, Servers, Msg("DONE", FirstLine))
        BY <1>3, <3>1 DEF FinishAccess
      <4>3. c # d
        BY <1>3, <3>1
      <4> QED
        BY <4>1, <4>2, <4>3, SendLemma DEF TInv
    <3>2. CASE ~IsLastRequest(c)
      BY <1>3, <3>2 DEF FinishAccess
    <3> QED
      BY <3>1, <3>2
  <2>2. client_done_all_request' = client_done_all_request
    BY <1>3 DEF FinishAccess, server
  <2> QED
    BY <2>1, <2>2 DEF Reported
<1>4. ASSUME NEW s \in Servers, NEW c \in Clients, NEW t, Receive(s, c, t)
      PROVE  /\ Count(to_server'[d][r], "DONE") > 0 => Count(to_server[d][r], "DONE") > 0
             /\ t = "DONE" => Count(to_server[c][s], "DONE") > 0
  <2> DEFINE q == to_server[c][s]
  <2>1. /\ to_server'[c][s] = Tail(q) /\ TakenFrom(q, t)
        /\ d # c \/ r # s => to_server'[d][r] = to_server[d][r]
    BY <1>4, ReceiveLemma
  <2>2. Count(q, "DONE") \in Nat
    BY CountNat
  <2> HIDE DEF q
  <2>3. /\ Count(Tail(q), "DONE") = Count(q, "DONE") - IF "DONE" = t THEN 1 ELSE 0
        /\ Count(q, t) > 0
    BY <2>1 DEF TakenFrom
  <2>4. Count(Tail(q), "DONE") > 0 => Count(q, "DONE") > 0
    BY <2>2, <2>3
  <2>5. t = "DONE" => Count(q, "DONE") > 0
    BY <2>3
  <2> QED
    BY <2>1, <2>4, <2>5 DEF q
<1>5. ASSUME NEW s \in Servers, NEW c \in Clients, ServerThread(s, c)
      PROVE  Reported(d, r)
  <2>1. CASE HandleReadRequest(s, c)
    BY <1>4, <2>1 DEF HandleReadRequest, Reported
  <2>2. CASE HandleWriteRequest(s, c)
    <3>1. Receive(s, c, "WRITE") /\ client_done_all_request' = client_done_all_request
      BY <2>2 DEF HandleWriteRequest
    <3> QED
      BY <1>4, <3>1 DEF Reported
  <2>3. CASE HandleDoneAllRequest(s, c)
    <3>1. /\ Receive(s, c, "DONE")
          /\ client_done_all_request' = [client_done_all_request EXCEPT ![s][c] = TRUE]
      BY <2>3 DEF HandleDoneAllRequest
    <3>2. /\ Count(to_server'[d][r], "DONE") > 0 => Count(to_server[d][r], "DONE") > 0
          /\ Count(to_server[c][s], "DONE") > 0
      BY <1>4, <3>1
    <3>3. d # c \/ r # s
            => client_done_all_request'[r][d] = client_done_all_request[r][d]
      BY <3>1 DEF TInv, TypeOK
    <3> QED
      BY <3>2, <3>3 DEF Reported
  <2>4. CASE CheckAllClientsDone(s, c)
    BY <2>4 DEF CheckAllClientsDone, Reported
  <2>5. CASE ServerThreadEnds(s, c)
    BY <2>5 DEF ServerThreadEnds, Reported, streams
  <2> QED
    BY <1>5, <2>1, <2>2, <2>3, <2>4, <2>5 DEF ServerThread
<1>6. ASSUME UNCHANGED <<to_server, client_done_all_request>> PROVE Reported(d, r)
  BY <1>6 DEF Reported
<1>7. ASSUME NEW c \in Clients, RequestCriticalSection(c) \/ ReleaseResource(c)
      PROVE  Reported(d, r)
  BY <1>6, <1>7 DEF RequestCriticalSection, ReleaseResource, server, streams
<1>8. ASSUME NEW c \in Clients, NEW s \in Servers, ThreadForServer(c, s)
      PROVE  Reported(d, r)
  BY <1>6, <1>8
  DEF ThreadForServer, ReceiveReadResult, ReceiveWriteResult, ReceiveAllDone, TakeReply,
      server
<1>9. ASSUME NEW c \in Clients, NEW e \in Clients, ThreadForClient(c, e) \/ NoticeDone(c, e)
      PROVE  Reported(d, r)
  BY <1>6, <1>9
  DEF ThreadForClient, ReceiveDone, LoseConnection, NoticeDone, ClientThreadEnds, server,
      streams
<1>10. CASE LockFails
  BY <1>6, <1>10 DEF LockFails, server, streams
<1>11. CASE UNCHANGED vars
  BY <1>6, <1>11 DEF vars, server, streams
<1> QED
  BY <1>1, <1>2, <1>3, <1>5, <1>7, <1>8, <1>9, <1>10, <1>11
  DEF Next, MainThread, Terminated

\* ALL_DONE is sent by the server that has just seen the last report.
LEMMA AnswersCheck ==
  ASSUME TInv, NEW d \in Clients, NEW r \in Servers,
         Count(to_client'[r][d], "ALL_DONE") > 0,
         NEW s \in Servers, NEW c \in Clients, CheckAllClientsDone(s, c)
  PROVE  Count(to_client[r][d], "ALL_DONE") > 0 \/ AllClientsDone(r)
<1>1. SUFFICES ASSUME ~(r = s /\ AllClientsDone(s))
               PROVE  Count(to_client[r][d], "ALL_DONE") > 0
  OBVIOUS
<1>2. to_client'[r][d] = to_client[r][d]
  BY <1>1 DEF TInv, TypeOK, CheckAllClientsDone
<1> QED
  BY <1>2

\* A server answers when it has all reports.
LEMMA AnswersNext ==
  ASSUME TInv, [Next]_vars, NEW d \in Clients, NEW r \in Servers,
         Count(to_client'[r][d], "ALL_DONE") > 0
  PROVE  Count(to_client[r][d], "ALL_DONE") > 0 \/ AllClientsDone(r)
<1> DEFINE Answered == Count(to_client[r][d], "ALL_DONE") > 0
<1>1. Count(to_client[r][d], "ALL_DONE") \in Nat
  BY CountNat
<1>2. ASSUME NEW s \in Servers, NEW c \in Clients, NEW m \in Message, m.type # "ALL_DONE",
             Reply(s, c, m)
      PROVE  Answered
  <2> DEFINE p == to_client[s][c]
  <2>1. /\ to_client'[s][c] = Append(p, m) /\ SentTo(p, m)
        /\ d # c \/ r # s => to_client'[r][d] = to_client[r][d]
    BY <1>2, ReplyLemma
  <2>2. Count(p, "ALL_DONE") \in Nat
    BY CountNat
  <2> HIDE DEF p
  <2>3. Count(Append(p, m), "ALL_DONE")
          = Count(p, "ALL_DONE") + IF "ALL_DONE" = m.type THEN 1 ELSE 0
    BY <2>1 DEF SentTo
  <2>4. Count(Append(p, m), "ALL_DONE") = Count(p, "ALL_DONE")
    BY <1>2, <2>2, <2>3
  <2> QED
    BY <2>1, <2>4 DEF p
<1>3. ASSUME NEW s \in Servers, NEW c \in Clients, HandleReadRequest(s, c)
      PROVE  Answered
  <2>1. /\ Msg("READ", LastLine(file[s])) \in Message
        /\ Msg("READ", LastLine(file[s])).type # "ALL_DONE"
    BY LastLineType, MsgType
  <2> QED
    BY <1>2, <1>3, <2>1 DEF HandleReadRequest
<1>4. ASSUME NEW s \in Servers, NEW c \in Clients, HandleWriteRequest(s, c)
      PROVE  Answered
  <2> DEFINE l == Head(to_server[c][s]).line
  <2>1. Receive(s, c, "WRITE") /\ Reply(s, c, Msg("WRITE", l))
    BY <1>4 DEF HandleWriteRequest
  <2>2. Head(to_server[c][s]) \in Message
    BY <2>1, ReceiveLemma
  <2>3. l \in Lines
    BY <2>2 DEF Message
  <2> HIDE DEF l
  <2>4. Msg("WRITE", l) \in Message /\ Msg("WRITE", l).type # "ALL_DONE"
    BY <2>3, MsgType
  <2> QED
    BY <1>2, <2>1, <2>4
<1>5. ASSUME NEW s \in Servers, NEW c \in Clients, CheckAllClientsDone(s, c)
      PROVE  Answered \/ AllClientsDone(r)
  BY <1>5, AnswersCheck
<1>6. ASSUME NEW c \in Clients, NEW s \in Servers, NEW t, NEW done \in BOOLEAN,
             TakeReply(c, s, t), TakeNext(c, s, done)
      PROVE  Answered
  <2>1. /\ d # c \/ r # s => to_client'[r][d] = to_client[r][d]
        /\ Count(to_client'[s][c], "ALL_DONE") \in Nat
        /\ Count(to_client'[s][c], "ALL_DONE")
             <= Count(to_client[s][c], "ALL_DONE") - IF "ALL_DONE" = t THEN 1 ELSE 0
    BY <1>6, TakeLemma
  <2>2. Count(to_client[s][c], "ALL_DONE") \in Nat
    BY CountNat
  <2>3. Count(to_client'[s][c], "ALL_DONE") > 0 => Count(to_client[s][c], "ALL_DONE") > 0
    BY <2>1, <2>2
  <2> QED
    BY <2>1, <2>3
<1>7. ASSUME NEW c \in Clients, NEW s \in Servers, ThreadForServer(c, s)
      PROVE  Answered
  <2>1. PICK t \in {"READ", "WRITE", "ALL_DONE"}, done \in BOOLEAN :
          TakeReply(c, s, t) /\ TakeNext(c, s, done)
    <3>1. all_clients_done_all_request[c] \in BOOLEAN /\ TRUE \in BOOLEAN
      BY DEF TInv, TypeOK
    <3>2. CASE ReceiveReadResult(c, s)
      BY <3>1, <3>2 DEF ReceiveReadResult
    <3>3. CASE ReceiveWriteResult(c, s)
      BY <3>1, <3>3 DEF ReceiveWriteResult
    <3>4. CASE ReceiveAllDone(c, s)
      BY <3>1, <3>4 DEF ReceiveAllDone
    <3> QED
      BY <1>7, <3>2, <3>3, <3>4 DEF ThreadForServer
  <2> QED
    BY <1>6, <2>1
<1>8. ASSUME to_client' = to_client PROVE Answered
  BY <1>8
<1>9. ASSUME NEW c \in Clients, MainThread(c) PROVE Answered
  BY <1>8, <1>9
  DEF MainThread, RequestCriticalSection, RequestRead, RequestWrite, FinishAccess,
      ReleaseResource, streams
<1>10. ASSUME NEW s \in Servers, NEW c \in Clients,
              HandleDoneAllRequest(s, c) \/ ServerThreadEnds(s, c)
       PROVE  Answered
  BY <1>8, <1>10 DEF HandleDoneAllRequest, ServerThreadEnds, streams
<1>11. ASSUME NEW c \in Clients, NEW e \in Clients, ThreadForClient(c, e) \/ NoticeDone(c, e)
       PROVE  Answered
  BY <1>8, <1>11
  DEF ThreadForClient, ReceiveDone, LoseConnection, NoticeDone, ClientThreadEnds, streams
<1>12. CASE LockFails
  BY <1>8, <1>12 DEF LockFails, streams
<1>13. CASE UNCHANGED vars
  BY <1>8, <1>13 DEF vars, streams
<1> QED
  BY <1>3, <1>4, <1>5, <1>7, <1>9, <1>10, <1>11, <1>12, <1>13
  DEF Next, ServerThread, Terminated

\* A client hears of the end from a server, or from a client that has.
LEMMA HearsNext ==
  ASSUME TInv, [Next]_vars, NEW c \in Clients, NEW d \in Clients,
         (all_clients_done_all_request[c] \/ told[c][d] \/ ~client_link[c][d])'
  PROVE  \/ \E e \in Clients, s \in Servers : Count(to_client[s][e], "ALL_DONE") > 0
         \/ \E e, f \in Clients :
              all_clients_done_all_request[e] \/ told[e][f] \/ ~client_link[e][f]
<1> DEFINE Heard == \E e, f \in Clients :
              all_clients_done_all_request[e] \/ told[e][f] \/ ~client_link[e][f]
<1>1. ASSUME NEW e \in Clients, NEW s \in Servers, ReceiveAllDone(e, s)
      PROVE  Count(to_client[s][e], "ALL_DONE") > 0
  <2>1. to_client[s][e] \in Seq(Message) /\ to_client[s][e] # <<>>
        /\ Head(to_client[s][e]).type = "ALL_DONE"
    BY <1>1, CountNat DEF ReceiveAllDone, TakeReply
  <2> QED
    BY <2>1, CountTaken
<1>2. ASSUME NEW e \in Clients, NEW f \in Clients, ThreadForClient(e, f) \/ NoticeDone(e, f)
      PROVE  Heard
  BY <1>2 DEF ThreadForClient, ReceiveDone, LoseConnection, NoticeDone
<1>3. ASSUME UNCHANGED <<all_clients_done_all_request, told, client_link>>
      PROVE  Heard
  BY <1>3
<1>4. ASSUME NEW e \in Clients, MainThread(e) PROVE Heard
  BY <1>3, <1>4
  DEF MainThread, RequestCriticalSection, RequestRead, RequestWrite, FinishAccess,
      ReleaseResource, links
<1>5. ASSUME NEW s \in Servers, NEW e \in Clients, ServerThread(s, e) PROVE Heard
  BY <1>3, <1>5
  DEF ServerThread, HandleReadRequest, HandleWriteRequest, HandleDoneAllRequest,
      CheckAllClientsDone, ServerThreadEnds, Receive, links
<1>6. ASSUME NEW e \in Clients, NEW s \in Servers,
             ReceiveReadResult(e, s) \/ ReceiveWriteResult(e, s)
      PROVE  Heard
  BY <1>3, <1>6 DEF ReceiveReadResult, ReceiveWriteResult
<1>7. CASE LockFails
  BY <1>3, <1>7 DEF LockFails, links
<1>8. CASE UNCHANGED vars
  BY <1>3, <1>8 DEF vars, links
<1> QED
  BY <1>1, <1>2, <1>4, <1>5, <1>6, <1>7, <1>8 DEF Next, ThreadForServer, Terminated

\* Who has finished asks for nothing more.
LEMMA FinishedNext ==
  ASSUME TInv, [Next]_vars, NEW e \in Clients, Finished(e)
  PROVE  Finished(e)'
<1>1. ASSUME UNCHANGED <<input, n_requested_requests, reported, phase>>
      PROVE  Finished(e)'
  BY <1>1 DEF Finished
<1>2. /\ n_requested_requests[e] = Len(input[e]) /\ n_requested_requests[e] \in Nat
      /\ phase[e] \in {"idle", "using"} /\ (phase[e] = "using" => reported[e])
  BY DEF Finished, TInv, TypeOK
<1>3. ASSUME NEW c \in Clients, MainThread(c) PROVE Finished(e)'
  <2>1. CASE c # e
    <3>1. /\ input' = input /\ phase'[e] = phase[e]
          /\ n_requested_requests'[e] = n_requested_requests[e]
          /\ reported'[e] = reported[e]
      BY <1>3, <2>1
      DEF MainThread, RequestCriticalSection, RequestRead, RequestWrite, FinishAccess,
          ReleaseResource, Mutex!Request, Mutex!Enter, Mutex!Release, main, mutex, TInv,
          TypeOK
    <3> QED
      BY <3>1 DEF Finished
  <2>2. CASE c = e
    <3>1. ReleaseResource(e)
      BY <1>2, <1>3, <2>2
      DEF MainThread, RequestCriticalSection, RequestRead, RequestWrite, FinishAccess,
          Mutex!Enter
    <3>2. /\ phase'[e] = "idle" /\ input' = input
          /\ n_requested_requests' = n_requested_requests
      BY <3>1 DEF ReleaseResource, Mutex!Release, TInv, TypeOK
    <3> QED
      BY <1>2, <3>2 DEF Finished
  <2> QED
    BY <2>1, <2>2
<1>4. ASSUME NEW s \in Servers, NEW c \in Clients, ServerThread(s, c) PROVE Finished(e)'
  BY <1>1, <1>4
  DEF ServerThread, HandleReadRequest, HandleWriteRequest, HandleDoneAllRequest,
      CheckAllClientsDone, ServerThreadEnds, Receive, mutex, main
<1>5. ASSUME NEW c \in Clients, NEW s \in Servers, ThreadForServer(c, s)
      PROVE  Finished(e)'
  BY <1>1, <1>5
  DEF ThreadForServer, ReceiveReadResult, ReceiveWriteResult, ReceiveAllDone, TakeReply,
      mutex, main
<1>6. ASSUME NEW c \in Clients, NEW d \in Clients, ThreadForClient(c, d) \/ NoticeDone(c, d)
      PROVE  Finished(e)'
  BY <1>1, <1>6
  DEF ThreadForClient, ReceiveDone, LoseConnection, NoticeDone, ClientThreadEnds, mutex,
      main
<1>7. CASE LockFails
  BY <1>1, <1>7 DEF LockFails, Mutex!Taint, main
<1>8. CASE UNCHANGED vars
  BY <1>1, <1>8 DEF vars, mutex, main
<1> QED
  BY <1>3, <1>4, <1>5, <1>6, <1>7, <1>8 DEF Next, Terminated

\* No input file has more commands than the requests of the command line.
NoneLonger == \A f \in inputs : Len(f) <= n_requests

\* Reports, answers and the news of the end come in this order.
LEMMA StopsNext ==
  ASSUME NoneLonger, TInv, IInv, SInv, [Next]_vars
  PROVE  SInv'
<1>1. AllFinished => AllFinished'
  BY FinishedNext DEF AllFinished
<1>2. ASSUME NEW c \in Clients, NEW s \in Servers,
             (Count(to_server[c][s], "DONE") > 0 \/ client_done_all_request[s][c])'
      PROVE  Finished(c)'
  <2>1. CASE Reported(c, s)
    BY <2>1, FinishedNext DEF SInv, Reported
  <2>2. CASE FinishAccess(c) /\ IsLastRequest(c)
    <3>1. /\ phase[c] = "using" /\ UNCHANGED <<mutex, input, n_requested_requests>>
          /\ reported' = [reported EXCEPT ![c] = TRUE]
          /\ n_requested_requests[c] = n_requests
      BY <2>2 DEF FinishAccess, IsLastRequest
    <3>2. /\ input[c] \in Seq(Commands) /\ Len(input[c]) <= n_requests
          /\ n_requested_requests[c] <= Len(input[c])
          /\ n_requested_requests[c] \in Nat
      BY InputsAssumption DEF NoneLonger, TInv, TypeOK
    <3>3. Len(input[c]) \in Nat
      BY <3>2, LenProperties
    <3>4. n_requested_requests[c] = Len(input[c])
      BY <3>1, <3>2, <3>3
    <3>5. phase'[c] = "using" /\ reported'[c]
      BY <3>1 DEF mutex, TInv, TypeOK
    <3> QED
      BY <3>1, <3>4, <3>5 DEF Finished
  <2> QED
    BY <1>2, <2>1, <2>2, ReportsNext DEF Reported
<1>3. ASSUME NEW c \in Clients, NEW s \in Servers,
             (Count(to_client[s][c], "ALL_DONE") > 0)'
      PROVE  AllFinished'
  <2>1. CASE Count(to_client[s][c], "ALL_DONE") > 0
    BY <1>1, <2>1 DEF SInv
  <2>2. CASE AllClientsDone(s)
    BY <1>1, <2>2 DEF SInv, AllClientsDone, AllFinished
  <2> QED
    BY <1>3, <2>1, <2>2, AnswersNext
<1>4. ASSUME NEW c \in Clients, NEW d \in Clients,
             (all_clients_done_all_request[c] \/ told[c][d] \/ ~client_link[c][d])'
      PROVE  AllFinished'
  <2>1. \/ \E e \in Clients, s \in Servers : Count(to_client[s][e], "ALL_DONE") > 0
        \/ \E e, f \in Clients :
             all_clients_done_all_request[e] \/ told[e][f] \/ ~client_link[e][f]
    BY <1>4, HearsNext
  <2>2. AllFinished
    BY <2>1 DEF SInv
  <2> QED
    BY <1>1, <2>2
<1> QED
  BY <1>2, <1>3, <1>4 DEF SInv

\* checkAllClientsDoneAllRequest() and the messages that follow it: nobody is
\* told of the end before every request of every client has been served.  A file
\* that is longer than the command line says would be cut short.
THEOREM Stops ==
  ASSUME NoneLonger
  PROVE  Spec => []StopsAfterAll
<1>1. Init => SInv
  <2> SUFFICES ASSUME Init PROVE SInv
    OBVIOUS
  <2>1. \A c \in Clients, s \in Servers :
          /\ to_server[c][s] = <<>> /\ to_client[s][c] = <<>>
          /\ ~client_done_all_request[s][c]
    BY DEF Init
  <2>2. \A c, d \in Clients :
          ~all_clients_done_all_request[c] /\ ~told[c][d] /\ client_link[c][d]
    BY DEF Init
  <2>3. \A t : ~(Count(<<>>, t) > 0)
    BY CountEmpty
  <2> QED
    BY <2>1, <2>2, <2>3 DEF SInv
<1>2. TInv /\ IInv /\ SInv /\ [Next]_vars => SInv'
  BY StopsNext
<1>3. TInv /\ IInv /\ SInv => StopsAfterAll
  BY DEF TInv, TypeOK, IInv, SInv, StopsAfterAll, AllFinished, Finished
<1> QED
  BY Invariants, <1>1, <1>2, <1>3, PTL DEF Spec

-----------------------------------------------------------------------------
(***************************************************************************)
(* The replicas agree while the strategy excludes.                         *)
(***************************************************************************)

\* While a client is in the critical section no other one writes or reads.
LEMMA WriterAlone ==
  ASSUME AInv, ~tainted, NEW c \in Clients, phase[c] = "using"
  PROVE  \A d \in Clients : d # c => ~Writes(d) /\ \A s \in Servers : ~Reads(d, s)
BY DEF AInv, Exclusive, Writes, Reads

\* Entering: every other client is out, so all replicas are equal.
LEMMA EqualFiles ==
  ASSUME AInv, ~tainted, \A c \in Clients : phase[c] # "using"
  PROVE  \A s, t \in Servers : file[s] = file[t]
BY DEF AInv, Agree, Writes

\* An access ends: if it was a WRITE, it is at all servers.
LEMMA AllWritten ==
  ASSUME TInv, IInv, AInv, ~tainted, NEW c \in Clients, phase[c] = "using", Served(c)
  PROVE  \A s, t \in Servers : file[s] = file[t]
<1>1. CASE Writes(c)
  <2>1. PICK f \in Seq(Lines) : \A s \in Servers :
          file[s] = IF Count(to_server[c][s], "WRITE") = 0
                      THEN Append(f, CurrentLine(c)) ELSE f
    BY <1>1 DEF AInv, Agree, WritesApart
  <2>2. \A s \in Servers : Count(to_server[c][s], "WRITE") = 0
    BY ServedLemma
  <2> QED
    BY <2>1, <2>2
<1>2. CASE ~Writes(c)
  BY <1>2, WriterAlone DEF AInv, Agree
<1> QED
  BY <1>1, <1>2

\* A step that appends to no file and takes no WRITE keeps the replicas as they
\* are.
LEMMA AgreeSame ==
  ASSUME Agree, UNCHANGED <<mutex, main, file>>,
         \A c \in Clients, s \in Servers :
           Count(to_server'[c][s], "WRITE") = Count(to_server[c][s], "WRITE")
  PROVE  Agree'
<1>1. \A c \in Clients : Writes(c)' = Writes(c) /\ CurrentLine(c)' = CurrentLine(c)
  BY DEF mutex, main, Writes, Command, CurrentLine, Line
<1>2. ASSUME NEW c \in Clients, Writes(c)' PROVE WritesApart(c)'
  <2>1. PICK f \in Seq(Lines) : \A s \in Servers :
          file[s] = IF Count(to_server[c][s], "WRITE") = 0
                      THEN Append(f, CurrentLine(c)) ELSE f
    BY <1>1, <1>2 DEF Agree, WritesApart
  <2>2. \A s \in Servers :
          file'[s] = IF Count(to_server'[c][s], "WRITE") = 0
                       THEN Append(f, CurrentLine(c)') ELSE f
    BY <1>1, <2>1
  <2> QED
    BY <2>2 DEF WritesApart
<1>3. (\A c \in Clients : ~Writes(c)') => \A s, t \in Servers : file'[s] = file'[t]
  BY <1>1 DEF Agree
<1> QED
  BY <1>2, <1>3 DEF Agree

\* A step that appends to no file and sends or learns no line keeps what is
\* learnt as it is.
LEMMA TruthSame ==
  ASSUME Truthful, UNCHANGED <<mutex, main, file, server_done_read_request, read_result>>,
         \A c \in Clients, s \in Servers : \A l :
           Carries(to_client[s][c], "READ", l) => Carries(to_client'[s][c], "READ", l)
  PROVE  Truthful'
<1> SUFFICES ASSUME NEW c \in Clients, NEW s \in Servers, Reads(c, s)'
             PROVE  ReadsNow(c, s)'
  BY DEF Truthful
<1>1. Reads(c, s)
  BY DEF mutex, main, Reads, Command
<1>2. ReadsNow(c, s)
  BY <1>1 DEF Truthful
<1>3. LastLine(file[s])' = LastLine(file[s])
  BY DEF LastLine
<1> QED
  BY <1>2, <1>3 DEF ReadsNow

\* A step outside of the main threads lets nobody in.
LEMMA ExclusiveSame == Exclusive /\ UNCHANGED mutex => Exclusive'
BY DEF Exclusive, mutex

\* Main threads: nobody enters but when all others are out, and what a client
\* has written is everywhere when it leaves.
LEMMA AgreeMain ==
  ASSUME TInv, IInv, AInv, ~tainted, NEW c \in Clients, MainThread(c)
  PROVE  Exclusive' /\ Agree' /\ Truthful'
<1>1. Exclusive /\ Agree /\ Truthful
  BY DEF AInv
<1>2. phase \in [Clients -> Mutex!Phases] /\ n_requested_requests \in [Clients -> Nat]
  BY DEF TInv, TypeOK
<1>3. CASE RequestCriticalSection(c)
  <2>1. /\ phase[c] = "idle" /\ phase' = [phase EXCEPT ![c] = "waiting"]
        /\ n_requested_requests' = [n_requested_requests EXCEPT ![c] = @ + 1]
        /\ UNCHANGED <<input, flags, server, streams>>
    BY <1>3 DEF RequestCriticalSection, Mutex!Request
  <2>2. ASSUME NEW d \in Clients
        PROVE  /\ phase'[d] = "using" <=> phase[d] = "using"
               /\ phase[d] = "using"
                    => Command(d)' = Command(d) /\ CurrentLine(d)' = CurrentLine(d)
    BY <1>2, <2>1 DEF Command, CurrentLine, Line
  <2>3. Exclusive'
    BY <1>1, <2>2 DEF Exclusive
  <2>4. \A d \in Clients : Writes(d)' <=> Writes(d)
    BY <2>2 DEF Writes
  <2>5. ASSUME NEW d \in Clients, Writes(d)' PROVE WritesApart(d)'
    <3>1. Writes(d) /\ CurrentLine(d)' = CurrentLine(d)
      BY <2>2, <2>4, <2>5 DEF Writes
    <3>2. WritesApart(d)
      BY <1>1, <3>1 DEF Agree
    <3> QED
      BY <2>1, <3>1, <3>2 DEF WritesApart, server, streams
  <2>6. Agree'
    BY <1>1, <2>1, <2>4, <2>5 DEF Agree, server
  <2>7. ASSUME NEW d \in Clients, NEW s \in Servers, Reads(d, s)' PROVE ReadsNow(d, s)'
    <3>1. Reads(d, s)
      BY <2>2, <2>7 DEF Reads
    <3>2. ReadsNow(d, s)
      BY <1>1, <3>1 DEF Truthful
    <3> QED
      BY <2>1, <3>2 DEF ReadsNow, LastLine, flags, server, streams
  <2> QED
    BY <2>3, <2>6, <2>7 DEF Truthful
<1>4. ASSUME Mutex!Enter(c), main' = main, file' = file
      PROVE  /\ Exclusive'
             /\ \A s, t \in Servers : file'[s] = file'[t]
             /\ phase'[c] = "using" /\ Command(c)' = Command(c)
             /\ CurrentLine(c)' = CurrentLine(c)
             /\ \A d \in Clients : d # c => phase'[d] # "using"
             /\ \A d \in Clients : phase[d] # "using"
  <2>1. /\ \A d \in Clients : phase[d] # "using"
        /\ phase' = [phase EXCEPT ![c] = "using"]
    BY <1>4 DEF Mutex!Enter, Mutex!Free
  <2>2. phase'[c] = "using" /\ \A d \in Clients : d # c => phase'[d] # "using"
    BY <1>2, <2>1
  <2>3. \A s, t \in Servers : file[s] = file[t]
    BY <2>1, EqualFiles
  <2>4. Exclusive'
    BY <2>2 DEF Exclusive
  <2> QED
    BY <1>4, <2>1, <2>2, <2>3, <2>4 DEF main, Command, CurrentLine, Line
<1>5. CASE RequestRead(c)
  <2>1. /\ Mutex!Enter(c) /\ main' = main /\ file' = file /\ to_client' = to_client
        /\ Command(c) # Write
        /\ server_done_read_request' = [server_done_read_request EXCEPT ![c] = FALSE]
    BY <1>5 DEF RequestRead, server
  <2>2. \A d \in Clients : ~Writes(d)'
    BY <1>4, <2>1 DEF Writes
  <2>3. Agree'
    BY <1>4, <2>1, <2>2 DEF Agree
  <2>4. ASSUME NEW d \in Clients, NEW s \in Servers, Reads(d, s)' PROVE ReadsNow(d, s)'
    <3>1. d = c
      BY <1>4, <2>1, <2>4 DEF Reads
    <3>2. ~server_done_read_request'[c]
      BY <2>1 DEF TInv, TypeOK
    <3>3. phase[c] # "using"
      BY <1>4, <2>1
    <3>4. Carries(to_client[s][c], "READ", LastLine(file[s]))
      BY <3>3, NothingSent, CountNat, CarriesNone
    <3> QED
      BY <2>1, <3>1, <3>2, <3>4 DEF ReadsNow, LastLine
  <2> QED
    BY <1>4, <2>1, <2>3, <2>4 DEF Truthful
<1>6. CASE RequestWrite(c)
  <2> DEFINE m == Msg("WRITE", CurrentLine(c))
  <2>1. /\ Mutex!Enter(c) /\ main' = main /\ file' = file
        /\ Command(c) = Write /\ SendToServers(c, Servers, m)
    BY <1>6 DEF RequestWrite, server, CurrentLine
  <2>2. Writes(c)' /\ \A d \in Clients : d # c => ~Writes(d)'
    BY <1>4, <2>1 DEF Writes
  <2>3. \A s \in Servers : Count(to_server'[c][s], "WRITE") # 0
    <3> TAKE s \in Servers
    <3>1. m \in Message /\ m.type = "WRITE"
      BY LineType, MsgType DEF TInv
    <3> HIDE DEF m
    <3>2. to_server'[c][s] = Append(to_server[c][s], m)
      <4>1. TypeOK /\ SendToServers(c, Servers, m)
        BY <2>1 DEF TInv
      <4>2. \A d \in Clients, r \in Servers :
              to_server'[d][r] = IF d = c /\ r \in Servers
                                   THEN Append(to_server[d][r], m)
                                   ELSE to_server[d][r]
        BY <3>1, <4>1, SendLemma
      <4> QED
        BY <4>2
    <3>3. to_server[c][s] \in Seq(Message) /\ Count(to_server[c][s], "WRITE") \in Nat
      BY CountNat
    <3>4. Count(Append(to_server[c][s], m), "WRITE")
            = Count(to_server[c][s], "WRITE") + IF "WRITE" = m.type THEN 1 ELSE 0
      BY <3>1, <3>3, SentLemma DEF SentTo
    <3> QED
      BY <3>1, <3>2, <3>3, <3>4
  <2>4. PICK f \in Seq(Lines) : \A s \in Servers : file'[s] = f
    <3>1. PICK s \in Servers : TRUE
      BY ServersAssumption
    <3>2. file'[s] \in Seq(Lines) /\ \A t \in Servers : file'[t] = file'[s]
      BY <1>4, <2>1 DEF TInv, TypeOK
    <3> QED
      BY <3>2
  <2>5. WritesApart(c)'
    <3>1. \A s \in Servers :
            file'[s] = IF Count(to_server'[c][s], "WRITE") = 0
                         THEN Append(f, CurrentLine(c)') ELSE f
      BY <2>3, <2>4
    <3> QED
      BY <3>1 DEF WritesApart
  <2>6. Agree'
    BY <2>2, <2>5 DEF Agree
  <2>7. Truthful'
    <3>1. \A d \in Clients, s \in Servers : ~Reads(d, s)'
      BY <1>4, <2>1 DEF Reads, Read, Write
    <3> QED
      BY <3>1 DEF Truthful
  <2> QED
    BY <1>4, <2>1, <2>6, <2>7
<1>7. CASE FinishAccess(c)
  <2>1. /\ UNCHANGED <<mutex, input, n_requested_requests, flags, server, to_client>>
        /\ SendToServers(c, Servers, Msg("DONE", FirstLine)) \/ to_server' = to_server
    BY <1>7 DEF FinishAccess
  <2>2. Msg("DONE", FirstLine) \in Message /\ Msg("DONE", FirstLine).type # "WRITE"
    BY LineType, MsgType
  <2>3. \A d \in Clients, s \in Servers :
          Count(to_server'[d][s], "WRITE") = Count(to_server[d][s], "WRITE")
    BY <2>1, <2>2, OtherType
  <2>4. ASSUME NEW d \in Clients
        PROVE  Writes(d)' = Writes(d) /\ CurrentLine(d)' = CurrentLine(d)
    BY <2>1 DEF mutex, Writes, Command, CurrentLine, Line
  <2>5. ASSUME NEW d \in Clients, Writes(d)' PROVE WritesApart(d)'
    <3>1. PICK f \in Seq(Lines) : \A s \in Servers :
            file[s] = IF Count(to_server[d][s], "WRITE") = 0
                        THEN Append(f, CurrentLine(d)) ELSE f
      BY <1>1, <2>4, <2>5 DEF Agree, WritesApart
    <3>2. \A s \in Servers :
            file'[s] = IF Count(to_server'[d][s], "WRITE") = 0
                         THEN Append(f, CurrentLine(d)') ELSE f
      BY <2>1, <2>3, <2>4, <3>1 DEF server
    <3> QED
      BY <3>2 DEF WritesApart
  <2>6. Agree'
    BY <1>1, <2>1, <2>4, <2>5 DEF Agree, server
  <2>7. ASSUME NEW d \in Clients, NEW s \in Servers, Reads(d, s)' PROVE ReadsNow(d, s)'
    <3>1. Reads(d, s)
      BY <2>1, <2>7 DEF mutex, Reads, Command
    <3>2. ReadsNow(d, s)
      BY <1>1, <3>1 DEF Truthful
    <3> QED
      BY <2>1, <3>2 DEF ReadsNow, LastLine, flags, server
  <2> QED
    BY <1>1, <2>1, <2>6, <2>7, ExclusiveSame DEF Truthful
<1>8. CASE ReleaseResource(c)
  <2>1. /\ phase[c] = "using" /\ reported[c] /\ file' = file
        /\ phase' = [phase EXCEPT ![c] = "idle"]
    BY <1>8 DEF ReleaseResource, Mutex!Release, server
  <2>2. Served(c)
    BY <2>1 DEF IInv
  <2>3. \A s, t \in Servers : file[s] = file[t]
    BY <2>1, <2>2, AllWritten
  <2>4. \A d \in Clients : phase'[d] # "using"
    BY <1>1, <1>2, <2>1 DEF Exclusive
  <2>5. Exclusive' /\ Truthful'
    BY <2>4 DEF Exclusive, Truthful, Reads
  <2>6. Agree'
    BY <2>1, <2>3, <2>4 DEF Agree, Writes
  <2> QED
    BY <2>5, <2>6
<1> QED
  BY <1>3, <1>5, <1>6, <1>7, <1>8 DEF MainThread

\* The replies to a READ say what the file says, and a WRITE appends what the
\* others have or will have appended.
LEMMA AgreeServer ==
  ASSUME TInv, IInv, AInv, ~tainted, NEW s \in Servers, NEW c \in Clients,
         ServerThread(s, c)
  PROVE  Exclusive' /\ Agree' /\ Truthful'
<1>1. Exclusive /\ Agree /\ Truthful
  BY DEF AInv
<1>2. ASSUME NEW t, t # "WRITE", Receive(s, c, t), file' = file
      PROVE  Exclusive' /\ Agree'
  <2>1. /\ to_server'[c][s] = Tail(to_server[c][s])
        /\ TakenFrom(to_server[c][s], t)
        /\ \A d \in Clients, r \in Servers :
             d # c \/ r # s => to_server'[d][r] = to_server[d][r]
        /\ UNCHANGED <<mutex, main, flags, links>>
    BY <1>2, ReceiveLemma
  <2>2. Count(Tail(to_server[c][s]), "WRITE") = Count(to_server[c][s], "WRITE")
    <3>1. Count(Tail(to_server[c][s]), "WRITE")
            = Count(to_server[c][s], "WRITE") - IF "WRITE" = t THEN 1 ELSE 0
      BY <2>1 DEF TakenFrom
    <3>2. Count(to_server[c][s], "WRITE") \in Nat
      BY CountNat
    <3> QED
      BY <1>2, <3>1, <3>2
  <2>3. \A d \in Clients, r \in Servers :
          Count(to_server'[d][r], "WRITE") = Count(to_server[d][r], "WRITE")
    BY <2>1, <2>2
  <2> QED
    BY <1>1, <1>2, <2>1, <2>3, AgreeSame, ExclusiveSame
<1>3. CASE HandleReadRequest(s, c)
  <2> DEFINE l == LastLine(file[s])
             m == Msg("READ", l)
             p == to_client[s][c]
  <2>1. Receive(s, c, "READ") /\ Reply(s, c, m) /\ file' = file
    BY <1>3 DEF HandleReadRequest
  <2>2. m \in Message /\ m.line = l
    BY LastLineType, MsgType
  <2>3. UNCHANGED <<mutex, main, flags>>
    BY <2>1, ReceiveLemma
  <2>4. ASSUME NEW d \in Clients, NEW r \in Servers, Reads(d, r)' PROVE ReadsNow(d, r)'
    <3>1. Reads(d, r)
      BY <2>3, <2>4 DEF mutex, main, Reads, Command
    <3>2. Carries(to_client[r][d], "READ", LastLine(file[r]))
          /\ (server_done_read_request[d] => read_result[d] = LastLine(file[r]))
      BY <1>1, <3>1 DEF Truthful, ReadsNow
    <3>3. Carries(to_client'[r][d], "READ", LastLine(file[r]))
      <4>1. CASE d # c \/ r # s
        <5>1. to_client'[r][d] = to_client[r][d]
          BY <2>1, <2>2, <4>1, ReplyLemma
        <5> QED
          BY <3>2, <5>1
      <4>2. CASE d = c /\ r = s
        <5> HIDE DEF m, p
        <5>1. to_client'[s][c] = Append(p, m) /\ p \in Seq(Message)
          BY <2>1, <2>2, ReplyLemma, CountNat DEF p
        <5>2. Carries(p, "READ", l)
          BY <3>2, <4>2 DEF p
        <5> HIDE DEF l
        <5>3. Carries(Append(p, m), "READ", l)
          BY <2>2, <5>1, <5>2, CarriesSent
        <5> QED
          BY <4>2, <5>1, <5>3 DEF l
      <4> QED
        BY <4>1, <4>2
    <3> QED
      BY <2>1, <2>3, <3>2, <3>3 DEF ReadsNow, LastLine, flags
  <2> QED
    BY <1>2, <2>1, <2>4 DEF Truthful
<1>4. CASE HandleWriteRequest(s, c)
  <2> DEFINE q == to_server[c][s]
  <2>1. Receive(s, c, "WRITE") /\ file' = [file EXCEPT ![s] = Append(@, Head(q).line)]
    BY <1>4 DEF HandleWriteRequest
  <2>2. /\ to_server'[c][s] = Tail(q) /\ TakenFrom(q, "WRITE")
        /\ \A d \in Clients, r \in Servers :
             d # c \/ r # s => to_server'[d][r] = to_server[d][r]
        /\ UNCHANGED <<mutex, main, flags, links>>
    BY <2>1, ReceiveLemma
  <2>3. OneWrite(c, s) /\ ItsLine(c, s)
    BY DEF IInv, Exchange
  <2>4. /\ Count(q, "WRITE") \in Nat /\ Count(to_client[s][c], "WRITE") \in Nat
        /\ q \in Seq(Message) /\ q # <<>>
    BY <2>2, CountNat DEF TakenFrom
  <2>5. Writes(c) /\ Count(q, "WRITE") = 1
    BY <2>2, <2>3, <2>4 DEF OneWrite, TakenFrom
  <2>6. Head(q).line = CurrentLine(c)
    BY <2>2, <2>3, <2>4, CarriesTaken DEF ItsLine, TakenFrom
  <2> HIDE DEF q
  <2>7. Count(Tail(q), "WRITE") = 0
    <3>1. Count(Tail(q), "WRITE")
            = Count(q, "WRITE") - IF "WRITE" = "WRITE" THEN 1 ELSE 0
      BY <2>2 DEF TakenFrom
    <3> QED
      BY <2>5, <3>1
  <2>8. /\ Writes(c)' /\ CurrentLine(c)' = CurrentLine(c)
        /\ \A d \in Clients : d # c => ~Writes(d)' /\ \A r \in Servers : ~Reads(d, r)'
        /\ \A r \in Servers : ~Reads(c, r)'
    <3>1. \A d \in Clients : d # c => ~Writes(d) /\ \A r \in Servers : ~Reads(d, r)
      BY <2>5, WriterAlone DEF Writes
    <3>2. \A r \in Servers : ~Reads(c, r)
      BY <2>5 DEF Writes, Reads, Read, Write
    <3>3. ASSUME NEW d \in Clients, NEW r \in Servers
          PROVE  /\ Writes(d)' = Writes(d) /\ Reads(d, r)' = Reads(d, r)
                 /\ CurrentLine(d)' = CurrentLine(d)
      BY <2>2, SameAccess
    <3> QED
      BY <2>5, <3>1, <3>2, <3>3
  <2>9. WritesApart(c)'
    <3>1. PICK f \in Seq(Lines) : \A r \in Servers :
            file[r] = IF Count(to_server[c][r], "WRITE") = 0
                        THEN Append(f, CurrentLine(c)) ELSE f
      BY <1>1, <2>5 DEF Agree, WritesApart
    <3>2. file[s] = f
      BY <2>5, <3>1 DEF q
    <3>3. ASSUME NEW r \in Servers
          PROVE  file'[r] = IF Count(to_server'[c][r], "WRITE") = 0
                              THEN Append(f, CurrentLine(c)') ELSE f
      <4>1. CASE r = s
        BY <2>1, <2>2, <2>6, <2>7, <2>8, <3>2, <4>1 DEF TInv, TypeOK
      <4>2. CASE r # s
        BY <2>1, <2>2, <2>8, <3>1, <4>2 DEF TInv, TypeOK
      <4> QED
        BY <4>1, <4>2
    <3> QED
      BY <3>3 DEF WritesApart
  <2>10. Agree'
    BY <2>8, <2>9 DEF Agree
  <2>11. Truthful'
    BY <2>8 DEF Truthful
  <2> QED
    BY <1>1, <2>2, <2>10, <2>11, ExclusiveSame
<1>5. CASE HandleDoneAllRequest(s, c)
  <2>1. Receive(s, c, "DONE") /\ file' = file /\ to_client' = to_client
    BY <1>5 DEF HandleDoneAllRequest
  <2>2. UNCHANGED <<mutex, main, flags>>
    BY <2>1, ReceiveLemma
  <2> QED
    BY <1>1, <1>2, <2>1, <2>2, TruthSame DEF flags
<1>6. CASE CheckAllClientsDone(s, c)
  <2>1. UNCHANGED <<mutex, main, flags, file, to_server>>
    BY <1>6 DEF CheckAllClientsDone
  <2>2. ASSUME NEW d \in Clients, NEW r \in Servers, NEW l,
               Carries(to_client[r][d], "READ", l)
        PROVE  Carries(to_client'[r][d], "READ", l)
    <3> DEFINE m == Msg("ALL_DONE", FirstLine)
               p == to_client[r][d]
    <3>1. m \in Message /\ m.type # "READ" /\ p \in Seq(Message)
      BY LineType, MsgType, CountNat
    <3>2. to_client'[r][d] = Append(p, m) \/ to_client'[r][d] = p
      BY <1>6 DEF TInv, TypeOK, CheckAllClientsDone
    <3> HIDE DEF m, p
    <3>3. Carries(p, "READ", l) => Carries(Append(p, m), "READ", l)
      BY <3>1, CarriesSent
    <3> QED
      BY <2>2, <3>2, <3>3 DEF p
  <2>3. Agree' /\ Exclusive'
    BY <1>1, <2>1, AgreeSame, ExclusiveSame
  <2>4. Truthful'
    BY <1>1, <2>1, <2>2, TruthSame DEF flags
  <2> QED
    BY <2>3, <2>4
<1>7. CASE ServerThreadEnds(s, c)
  BY <1>1, <1>7, AgreeSame, TruthSame, ExclusiveSame DEF ServerThreadEnds, streams, flags
<1> QED
  BY <1>3, <1>4, <1>5, <1>6, <1>7 DEF ServerThread

\* What a client learns is what its reply says.
LEMMA AgreeReceive ==
  ASSUME TInv, IInv, AInv, ~tainted, NEW c \in Clients, NEW s \in Servers,
         ThreadForServer(c, s)
  PROVE  Exclusive' /\ Agree' /\ Truthful'
<1>1. Exclusive /\ Agree /\ Truthful
  BY DEF AInv
<1>2. PICK t \in {"READ", "WRITE", "ALL_DONE"}, done \in BOOLEAN :
        /\ TakeReply(c, s, t) /\ TakeNext(c, s, done)
        /\ IF t = "READ"
           THEN /\ server_done_read_request' = [server_done_read_request EXCEPT ![c] = TRUE]
                /\ read_result' = [read_result EXCEPT ![c] = Head(to_client[s][c]).line]
           ELSE UNCHANGED <<server_done_read_request, read_result>>
  <2>1. all_clients_done_all_request[c] \in BOOLEAN /\ TRUE \in BOOLEAN
    BY DEF TInv, TypeOK
  <2>2. CASE ReceiveReadResult(c, s)
    BY <2>1, <2>2 DEF ReceiveReadResult
  <2>3. CASE ReceiveWriteResult(c, s)
    BY <2>1, <2>3 DEF ReceiveWriteResult
  <2>4. CASE ReceiveAllDone(c, s)
    BY <2>1, <2>4 DEF ReceiveAllDone, flags
  <2> QED
    BY <2>2, <2>3, <2>4 DEF ThreadForServer
<1>3. /\ \A d \in Clients, r \in Servers :
           d # c \/ r # s => to_client'[r][d] = to_client[r][d]
      /\ \A l : Carries(to_client[s][c], "READ", l)
                  => /\ Carries(to_client'[s][c], "READ", l)
                     /\ t = "READ" => Head(to_client[s][c]).line = l
      /\ Count(to_client[s][c], t) > 0
      /\ UNCHANGED <<mutex, main, server, to_server>>
  <2>1. TakeReply(c, s, t) /\ TakeNext(c, s, done)
    BY <1>2
  <2> QED
    BY <2>1, TakeLemma
<1>4. Exclusive' /\ Agree'
  BY <1>1, <1>3, AgreeSame, ExclusiveSame DEF server
<1>5. ASSUME NEW d \in Clients, NEW r \in Servers, NEW l,
             Carries(to_client[r][d], "READ", l)
      PROVE  Carries(to_client'[r][d], "READ", l)
  BY <1>3, <1>5
<1>6. CASE t # "READ"
  <2>1. Truthful'
    BY <1>1, <1>2, <1>3, <1>5, <1>6, TruthSame DEF server
  <2> QED
    BY <1>4, <2>1
<1>7. CASE t = "READ"
  <2>1. Reads(c, s)
    <3>1. OneRead(c, s)
      BY DEF IInv, Exchange
    <3>2. /\ Count(to_server[c][s], "READ") \in Nat
          /\ Count(to_client[s][c], "READ") \in Nat /\ Count(to_client[s][c], "READ") > 0
      BY <1>3, <1>7, CountNat
    <3> QED
      BY <3>1, <3>2 DEF OneRead
  <2>2. ASSUME NEW d \in Clients, NEW r \in Servers, Reads(d, r)' PROVE ReadsNow(d, r)'
    <3>1. Reads(d, r)
      BY <1>3, <2>2 DEF mutex, main, Reads, Command
    <3>2. d = c /\ r = s
      <4>1. d = c
        BY <2>1, <3>1, WriterAlone DEF Reads
      <4> QED
        BY <2>1, <3>1, <4>1 DEF Reads, Read
    <3>3. Carries(to_client[s][c], "READ", LastLine(file[s]))
      BY <1>1, <2>1 DEF Truthful, ReadsNow
    <3>4. /\ Carries(to_client'[s][c], "READ", LastLine(file[s]))
          /\ Head(to_client[s][c]).line = LastLine(file[s])
      BY <1>3, <1>7, <3>3
    <3>5. read_result'[c] = Head(to_client[s][c]).line
      BY <1>2, <1>7 DEF TInv, TypeOK
    <3>6. LastLine(file[s])' = LastLine(file[s])
      BY <1>3 DEF server, LastLine
    <3> QED
      BY <3>2, <3>4, <3>5, <3>6 DEF ReadsNow
  <2> QED
    BY <1>4, <2>2 DEF Truthful
<1> QED
  BY <1>6, <1>7

\* Until the promise is withdrawn, every step keeps the replicas as they should
\* be.
LEMMA AgreeNext == TInv /\ IInv /\ AInv /\ [Next]_vars => AInv'
<1> SUFFICES ASSUME TInv, IInv, AInv, [Next]_vars, ~tainted'
             PROVE  Exclusive' /\ Agree' /\ Truthful'
  BY DEF AInv
<1>1. ASSUME UNCHANGED <<mutex, main, flags, file, streams>>
      PROVE  Exclusive' /\ Agree' /\ Truthful'
  <2>1. ~tainted
    BY <1>1 DEF mutex
  <2>2. Exclusive /\ Agree /\ Truthful
    BY <2>1 DEF AInv
  <2> QED
    BY <1>1, <2>2, AgreeSame, TruthSame, ExclusiveSame DEF flags, streams
<1>2. ASSUME NEW c \in Clients, MainThread(c)
      PROVE  Exclusive' /\ Agree' /\ Truthful'
  <2>1. tainted' = tainted
    BY <1>2
    DEF MainThread, RequestCriticalSection, RequestRead, RequestWrite, FinishAccess,
        ReleaseResource, Mutex!Request, Mutex!Enter, Mutex!Release, mutex
  <2> QED
    BY <1>2, <2>1, AgreeMain
<1>3. ASSUME NEW s \in Servers, NEW c \in Clients, ServerThread(s, c)
      PROVE  Exclusive' /\ Agree' /\ Truthful'
  <2>1. tainted' = tainted
    BY <1>3
    DEF ServerThread, HandleReadRequest, HandleWriteRequest, HandleDoneAllRequest,
        CheckAllClientsDone, ServerThreadEnds, Receive, mutex
  <2> QED
    BY <1>3, <2>1, AgreeServer
<1>4. ASSUME NEW c \in Clients, NEW s \in Servers, ThreadForServer(c, s)
      PROVE  Exclusive' /\ Agree' /\ Truthful'
  <2>1. tainted' = tainted
    BY <1>4
    DEF ThreadForServer, ReceiveReadResult, ReceiveWriteResult, ReceiveAllDone, TakeReply,
        mutex
  <2> QED
    BY <1>4, <2>1, AgreeReceive
<1>5. ASSUME NEW c \in Clients, NEW d \in Clients, ThreadForClient(c, d) \/ NoticeDone(c, d)
      PROVE  Exclusive' /\ Agree' /\ Truthful'
  <2>1. UNCHANGED <<mutex, main, flags, file, streams>>
    BY <1>5
    DEF ThreadForClient, ReceiveDone, LoseConnection, NoticeDone, ClientThreadEnds, server
  <2> QED
    BY <1>1, <2>1
<1>6. CASE LockFails
  BY <1>6 DEF LockFails, Mutex!Taint
<1>7. CASE UNCHANGED vars
  BY <1>1, <1>7 DEF vars, server
<1> QED
  BY <1>2, <1>3, <1>4, <1>5, <1>6, <1>7 DEF Next, Terminated

\* At first all files are equal and nothing is read.
LEMMA AgreeInit == Init => AInv
<1> SUFFICES ASSUME Init PROVE Exclusive /\ Agree /\ Truthful
  BY DEF AInv
<1>1. \A c \in Clients : phase[c] = "idle"
  BY DEF Init, Mutex!Init
<1>2. \A s, t \in Servers : file[s] = file[t]
  BY DEF Init
<1> QED
  BY <1>1, <1>2 DEF Exclusive, Agree, Truthful, Writes, Reads

\* All states are as TInv, IInv and AInv say.
LEMMA Agreement == Spec => [](TInv /\ IInv /\ AInv)
BY TypeInit, TypeNext, KeptInit, KeptNext, AgreeInit, AgreeNext, PTL DEF Spec

\* README.md: a WRITE keeps the replicas consistent.  They are equal but for the
\* line that is being written, as long as the strategy keeps its promise.
THEOREM Replicated == Spec => []ReplicasAgree
<1>1. ASSUME TInv, IInv, AInv PROVE ReplicasAgree
  <2> SUFFICES ASSUME ~tainted
               PROVE  \E s \in Servers : \A t \in Servers :
                        \/ file[t] = file[s]
                        \/ \E c \in Clients :
                             Writing(c) /\ file[t] = Append(file[s], CurrentLine(c))
    BY DEF ReplicasAgree
  <2>1. Agree
    BY <1>1 DEF AInv
  <2>2. PICK u \in Servers : TRUE
    BY ServersAssumption
  <2>3. ASSUME \A s, t \in Servers : file[s] = file[t]
        PROVE  \E s \in Servers : \A t \in Servers : file[t] = file[s]
    BY <2>2, <2>3
  <2>4. CASE \A c \in Clients : ~Writes(c)
    BY <2>1, <2>3, <2>4 DEF Agree
  <2>5. ASSUME NEW c \in Clients, Writes(c)
        PROVE  \E s \in Servers : \A t \in Servers :
                 \/ file[t] = file[s]
                 \/ Writing(c) /\ file[t] = Append(file[s], CurrentLine(c))
    <3>1. PICK f \in Seq(Lines) : \A s \in Servers :
            file[s] = IF Count(to_server[c][s], "WRITE") = 0
                        THEN Append(f, CurrentLine(c)) ELSE f
      BY <2>1, <2>5 DEF Agree, WritesApart
    <3>2. CASE \A s \in Servers : Count(to_server[c][s], "WRITE") = 0
      BY <2>3, <3>1, <3>2
    <3>3. ASSUME NEW s \in Servers, Count(to_server[c][s], "WRITE") # 0
          PROVE  \A t \in Servers :
                   \/ file[t] = file[s]
                   \/ Writing(c) /\ file[t] = Append(file[s], CurrentLine(c))
      <4>1. OneWrite(c, s)
        BY <1>1 DEF IInv, Exchange
      <4>2. /\ Count(to_server[c][s], "WRITE") \in Nat
            /\ Count(to_client[s][c], "WRITE") \in Nat
        BY <1>1, CountNat
      <4>3. ~server_done_write_request[c][s]
        BY <2>5, <3>3, <4>1, <4>2 DEF OneWrite
      <4>4. Writing(c)
        BY <2>5, <4>3 DEF Writes, Writing, Served
      <4>5. file[s] = f
        BY <3>1, <3>3
      <4> QED
        BY <3>1, <4>4, <4>5
    <3> QED
      BY <3>2, <3>3
  <2> QED
    BY <2>4, <2>5
<1>2. TInv /\ IInv /\ AInv => ReplicasAgree
  BY <1>1
<1> QED
  BY Agreement, <1>2, PTL

\* requestRead(): what one server has answered is the last line of the file at
\* every server, from the answer to the end of the critical section, as long as
\* the strategy keeps its promise.
THEOREM LastLineRead == Spec => []ReadsLastLine
<1>1. ASSUME TInv, IInv, AInv PROVE ReadsLastLine
  <2> SUFFICES ASSUME ~tainted, NEW c \in Clients, phase[c] = "using",
                      Command(c) # Write, Served(c), NEW s \in Servers
               PROVE  read_result[c] = LastLine(file[s])
    BY DEF ReadsLastLine
  <2>1. PICK r \in Servers : Reads(c, r)
    BY <1>1, CommandType DEF Commands, Reads
  <2>2. read_result[c] = LastLine(file[r])
    BY <1>1, <2>1 DEF AInv, Truthful, ReadsNow, Served
  <2>3. file[s] = file[r]
    BY <1>1, AllWritten
  <2> QED
    BY <2>2, <2>3
<1>2. TInv /\ IInv /\ AInv => ReadsLastLine
  BY <1>1
<1> QED
  BY Agreement, <1>2, PTL

=============================================================================
