---------------------------- MODULE RequestStream ----------------------------
(***************************************************************************)
(* A stream of packets from a client to a server, and what the server does *)
(* with them to a file.                                                    *)
(*                                                                         *)
(* A packet begins with its length; send() hands it to the network whole,  *)
(* which delivers what waits in segments.  The server's thread takes what  *)
(* has arrived, as far as its buffer holds it, and splits it into packets, *)
(* on the assumption that it ends where a packet ends.  A WRITE appends a  *)
(* line to the file, a READ returns the last line that is not blank, found *)
(* with fgets() and a line buffer.                                         *)
(*                                                                         *)
(* Bytes are counted, not modelled, save for those of the file.            *)
(***************************************************************************)
EXTENDS Integers, Sequences, FiniteSetsExt

CONSTANTS
  MAX_BUFFER_SIZE,   \* bytes that one read() returns at most
  MaxSegment,        \* bytes that the network carries together
  HeaderLength,      \* MESSAGE_MSG_OFFSET and what a message begins with
  LineBuffer,        \* size of the buffer for fgets()
  Characters,        \* what the bytes of a file may be
  Contents,          \* what a WRITE may append
  Texts,             \* what may be in the file at first
  Window,            \* packets a client sends before it waits for an answer
  MaxRequests        \* bound on the packets that are sent

NL == "newline"

\* What answer and written may be besides a sequence of bytes.
NoLine == <<"none">>
Uninitialised == <<"any bytes">>

Length(p) == HeaderLength + Len(p.content)

Packets == [type : {"READ"}, content : {<<>>}] \union
           [type : {"WRITE"}, content : Contents]

ASSUME SizesAssumption ==
  /\ HeaderLength \in Nat \ {0} /\ LineBuffer \in Nat \ {0, 1}
  /\ MAX_BUFFER_SIZE \in Nat /\ MaxSegment \in Nat \ {0}
  /\ \A p \in Packets : Length(p) <= Min({MAX_BUFFER_SIZE, MaxSegment})
ASSUME ContentsAssumption ==
  /\ NL \in Characters /\ Characters \intersect {"none", "any bytes"} = {}
  /\ Contents \subseteq Seq(Characters \ {NL}) /\ Texts \subseteq Seq(Characters)
ASSUME WindowAssumption == Window \in Nat \ {0} /\ MaxRequests \in Nat

VARIABLES
  sent,       \* all packets so far
  arrived,    \* bytes that have reached the server
  taken,      \* bytes that read() has returned
  parsed,     \* packets that have been split off
  handled,    \* of these, packets that have been handled
  answered,   \* packets whose answer the client has
  torn,       \* the last packet split off was not there as a whole
  file,       \* the bytes of the file
  answer,     \* the line of the last READ, until something is written
  \* What happened; no action reads these.
  crowded,    \* more bytes were under way than a segment or a buffer holds
  written     \* what the last WRITE was told to append, if the file ended with
              \*   a newline before the first

stream == <<sent, arrived, taken, parsed, handled, answered, torn, crowded>>
text == <<file, answer, written>>
vars == <<stream, text>>

Init ==
  /\ sent = <<>>
  /\ arrived = 0 /\ taken = 0 /\ parsed = 0 /\ handled = 0 /\ answered = 0
  /\ torn = FALSE
  /\ file \in Texts
  /\ answer = NoLine
  /\ crowded = FALSE
  /\ written = NoLine

-----------------------------------------------------------------------------
(***************************************************************************)
(* The stream.                                                             *)
(***************************************************************************)

\* How many bytes the first n packets of s are.
Bytes(s, n) ==
  LET bytes[k \in 0 .. n] ==
        IF k = 0 THEN 0 ELSE bytes[k - 1] + Length(s[k])
  IN bytes[n]

\* Bytes of the packets before the k-th, and of all of them.
Start(k) == Bytes(sent, k - 1)
Total == Bytes(sent, Len(sent))

\* A variant that waits too late.
MaySendOneMore == Len(sent) - answered <= Window

\* The client has room for another packet on its way.
MaySend == Len(sent) - answered < Window

\* The client sends a request.
SendMessageToServer(p) ==
  /\ ~torn
  /\ MaySend
  /\ Len(sent) < MaxRequests
  /\ sent' = Append(sent, p)
  /\ crowded' = (crowded \/ Total + Length(p) - taken >
                            Min({MAX_BUFFER_SIZE, MaxSegment}))
  /\ UNCHANGED <<arrived, taken, parsed, handled, answered, torn, text>>

\* The network delivers a segment.
Deliver ==
  /\ ~torn
  /\ arrived < Total
  /\ arrived' = Min({arrived + MaxSegment, Total})
  /\ UNCHANGED <<sent, taken, parsed, handled, answered, torn, crowded, text>>

\* A variant that keeps the first packet only.
SplitFirst(valread) == {parsed + 1}

\* A variant that looks one byte too far.
SplitBeyond(valread) ==
  {k \in DOMAIN sent : taken <= Start(k) /\ Start(k) <= taken + valread}

\* splitReadDataFromSocket() of valread bytes: the packets that begin in them.
Split(valread) ==
  {k \in DOMAIN sent : taken <= Start(k) /\ Start(k) < taken + valread}

\* The server's thread takes what is there, up to a buffer full.
Read ==
  /\ ~torn
  /\ handled = parsed
  /\ arrived > taken
  /\ LET valread == Min({arrived - taken, MAX_BUFFER_SIZE}) IN
       /\ taken' = taken + valread
       /\ parsed' = Max(Split(valread))
       /\ torn' = (Start(parsed' + 1) > taken')
  /\ UNCHANGED <<sent, arrived, handled, answered, crowded, text>>

\* The client has the answer to one more packet.
ReceiveReply ==
  /\ answered < handled
  /\ answered' = answered + 1
  /\ UNCHANGED <<sent, arrived, taken, parsed, handled, torn, crowded, text>>

-----------------------------------------------------------------------------
(***************************************************************************)
(* The file.                                                               *)
(***************************************************************************)

\* Where a line that begins at i ends for fgets(): at a newline, at the end of
\* the file t, or when the buffer is full.
LineEnd(t, i) ==
  Min({Len(t), i + LineBuffer - 2} \union {j \in i .. Len(t) : t[j] = NL})

Blank(t, i) == t[i] = NL

\* What is in prev_buffer after the lines from i on have been read.
LastRead(t) ==
  LET last[i \in 1 .. Len(t) + 1] ==
        IF i > Len(t) THEN Uninitialised
        ELSE LET later == last[LineEnd(t, i) + 1] IN
             IF later # Uninitialised \/ Blank(t, i) THEN later
             ELSE SubSeq(t, i, LineEnd(t, i))
  IN last[1]

\* _readLastLineOfFile(), which strips a newline.
ReadLastLineOfFile(t) ==
  LET line == LastRead(t) IN
  IF line # Uninitialised /\ line[Len(line)] = NL
  THEN SubSeq(line, 1, Len(line) - 1)
  ELSE line

\* A variant that forgets the newline.
WriteToFileBare(t, c) == t \o c

WriteToFile(t, c) == t \o c \o <<NL>>

\* The next packet of those that were split off.
Handle(type) ==
  /\ ~torn
  /\ handled < parsed
  /\ sent[handled + 1].type = type
  /\ handled' = handled + 1
  /\ UNCHANGED <<sent, arrived, taken, parsed, answered, torn, crowded>>

HandleReadRequest ==
  /\ Handle("READ")
  /\ answer' = ReadLastLineOfFile(file)
  /\ UNCHANGED <<file, written>>

HandleWriteRequest ==
  LET content == sent[handled + 1].content IN
  /\ Handle("WRITE")
  /\ file' = WriteToFile(file, content)
  /\ answer' = NoLine
  /\ written' = IF written # NoLine \/ file = <<>> \/ file[Len(file)] = NL
                THEN content ELSE NoLine

-----------------------------------------------------------------------------
Client == (\E p \in Packets : SendMessageToServer(p)) \/ ReceiveReply

ServerThread == Read \/ HandleReadRequest \/ HandleWriteRequest

Next == Client \/ Deliver \/ ServerThread

\* The network delivers, and the threads of both processes keep running; what a
\* client sends is up to its input file.
Fairness ==
  WF_vars(Deliver) /\ WF_vars(ServerThread) /\ WF_vars(ReceiveReply)

Spec == Init /\ [][Next]_vars /\ Fairness

-----------------------------------------------------------------------------
\* Types of the variables; a packet is split off before it is handled, and
\* handled before it is answered, and a client waits for its answers.
TypeOK ==
  /\ sent \in Seq(Packets)
  /\ arrived \in 0 .. Total /\ taken \in 0 .. arrived
  /\ parsed \in 0 .. Len(sent)
  /\ handled \in 0 .. parsed /\ answered \in 0 .. handled
  /\ Len(sent) - answered <= Window
  /\ torn \in BOOLEAN /\ crowded \in BOOLEAN
  /\ file \in Seq(Characters)
  /\ answer \in {NoLine, Uninitialised} \union Seq(Characters)
  /\ written \in {NoLine} \union Contents

\* read() ends where a packet ends, as splitReadDataFromSocket() takes for
\* granted, unless more bytes were under way than a segment or the buffer holds:
\* a client that waits for its answers never makes it cut a packet.
\* (packet.cpp 132-142, server.cpp 173-182)
CutOnlyWhenCrowded == torn => crowded

\* The lines of t that are not blank, as first and last byte.
TextLines(t) ==
  {l \in (DOMAIN t) \X (DOMAIN t) :
     /\ l[1] <= l[2] /\ \A k \in l[1] .. l[2] : t[k] # NL
     /\ l[1] = 1 \/ t[l[1] - 1] = NL
     /\ l[2] = Len(t) \/ t[l[2] + 1] = NL}

IsLast(l, t) == \A m \in TextLines(t) : m[1] <= l[1]

\* A READ returns the last line that is not blank, if it is shorter than the
\* line buffer; what is written comes back as it was, provided the file ended
\* with a newline at first.  Of an empty file it may return anything, and of a
\* longer line it returns the rest.  (utils.cpp 66-83 and 102-112)
ReadsLastLine ==
  answer # NoLine =>
    /\ \A l \in TextLines(file) :
         IsLast(l, file) /\ l[2] - l[1] + 1 < LineBuffer
           => answer = SubSeq(file, l[1], l[2])
    /\ written # NoLine /\ Len(written) \in 1 .. LineBuffer - 1
         => answer = written

\* Every packet is answered in the end, as long as none is cut: several packets
\* that one read() returns are all handled.  (server.cpp 182-212)
AllAnswered ==
  \A n \in 1 .. MaxRequests : Len(sent) >= n ~> answered >= n \/ torn

=============================================================================
