------------------------- MODULE RequestStreamProofs -------------------------
(***************************************************************************)
(* Proofs about RequestStream, for packets, segments, buffers and files of *)
(* any size: when a read() ends where a packet ends, and what a READ finds *)
(* in the file.                                                            *)
(***************************************************************************)
EXTENDS RequestStream, StreamLemmas

-----------------------------------------------------------------------------
(***************************************************************************)
(* How many bytes packets are.                                             *)
(***************************************************************************)

\* What bytes of Bytes is.
IsBytes(g, s, n) ==
  g = [k \in 0 .. n |-> IF k = 0 THEN 0 ELSE g[k - 1] + Length(s[k])]

\* The recursive function of Bytes is there for every length.
LEMMA BytesExist ==
  ASSUME NEW s, NEW n \in Nat
  PROVE  \E g : IsBytes(g, s, n)
<1> DEFINE S == {k \in 0 .. n : \E g : IsBytes(g, s, k)}
<1>1. 0 \in S
  <2> DEFINE g == [k \in 0 .. 0 |-> 0]
  <2>1. g = [k \in 0 .. 0 |-> IF k = 0 THEN 0 ELSE g[k - 1] + Length(s[k])]
    OBVIOUS
  <2>2. \E x : IsBytes(x, s, 0)
    <3> HIDE DEF g
    <3> QED
      BY <2>1 DEF IsBytes
  <2> QED
    BY <2>2
<1>2. ASSUME NEW k \in 0 .. n, k < n, k \in S
      PROVE  k + 1 \in S
  <2>1. PICK g : IsBytes(g, s, k)
    BY <1>2
  <2> DEFINE step(h) == IF h = 0 THEN 0 ELSE g[h - 1] + Length(s[h])
             e == [h \in 0 .. k + 1 |-> step(h)]
  <2>2. ASSUME NEW h \in 0 .. k PROVE e[h] = g[h]
    <3>1. h \in 0 .. k + 1
      BY <2>2
    <3>2. g[h] = step(h)
      BY <2>1 DEF IsBytes
    <3> QED
      BY <3>1, <3>2
  <2>3. ASSUME NEW h \in 0 .. k + 1
        PROVE  step(h) = IF h = 0 THEN 0 ELSE e[h - 1] + Length(s[h])
    <3>1. h # 0 => h - 1 \in 0 .. k
      BY <2>3
    <3> HIDE DEF e
    <3> QED
      BY <2>2, <3>1
  <2>4. IsBytes(e, s, k + 1)
    BY <2>3 DEF IsBytes
  <2>5. \E x : IsBytes(x, s, k + 1)
    <3> HIDE DEF e
    <3> QED
      BY <2>4
  <2> QED
    BY <1>2, <2>5
<1>3. n \in S
  <2> HIDE DEF S
  <2> QED
    BY <1>1, <1>2, Climb
<1> QED
  BY <1>3

\* It has one value for each prefix, however far it is defined.
LEMMA BytesUnique ==
  ASSUME NEW s, NEW n \in Nat, NEW m \in Nat, n <= m,
         NEW g, IsBytes(g, s, n), NEW h, IsBytes(h, s, m)
  PROVE  g[n] = h[n]
<1> DEFINE S == {k \in 0 .. n : g[k] = h[k]}
<1>0. /\ \A k \in 0 .. n :
            g[k] = IF k = 0 THEN 0 ELSE g[k - 1] + Length(s[k])
      /\ \A k \in 0 .. m :
            h[k] = IF k = 0 THEN 0 ELSE h[k - 1] + Length(s[k])
  BY DEF IsBytes
<1>1. 0 \in S
  BY <1>0
<1>2. ASSUME NEW k \in 0 .. n, k < n, k \in S
      PROVE  k + 1 \in S
  <2>1. k + 1 \in 0 .. n /\ k + 1 \in 0 .. m /\ k + 1 # 0 /\ k + 1 - 1 = k
    BY <1>2
  <2>2. g[k + 1] = g[k] + Length(s[k + 1]) /\ h[k + 1] = h[k] + Length(s[k + 1])
    BY <1>0, <2>1
  <2> QED
    BY <1>2, <2>1, <2>2
<1>3. n \in S
  <2> HIDE DEF S
  <2> QED
    BY <1>1, <1>2, Climb
<1> QED
  BY <1>3

\* Bytes is that function at the end of the prefix.
LEMMA BytesValue ==
  ASSUME NEW s, NEW n \in Nat
  PROVE  \E g : IsBytes(g, s, n) /\ Bytes(s, n) = g[n]
<1> DEFINE g == CHOOSE x : IsBytes(x, s, n)
<1>1. IsBytes(g, s, n)
  BY BytesExist
<1>2. Bytes(s, n) = g[n]
  BY DEF Bytes, IsBytes
<1> QED
  BY <1>1, <1>2

\* The packets up to the next one are longer by that one.
LEMMA BytesNext ==
  ASSUME NEW s, NEW n \in Nat
  PROVE  /\ Bytes(s, 0) = 0
         /\ Bytes(s, n + 1) = Bytes(s, n) + Length(s[n + 1])
<1>1. PICK g : IsBytes(g, s, 0) /\ Bytes(s, 0) = g[0]
  BY BytesValue
<1>2. g[0] = 0
  BY <1>1 DEF IsBytes
<1>3. PICK f : IsBytes(f, s, n) /\ Bytes(s, n) = f[n]
  BY BytesValue
<1>4. n + 1 \in Nat /\ n <= n + 1 /\ n + 1 \in 0 .. n + 1 /\ n + 1 # 0 /\ n + 1 - 1 = n
  OBVIOUS
<1>5. PICK h : IsBytes(h, s, n + 1) /\ Bytes(s, n + 1) = h[n + 1]
  BY <1>4, BytesValue
<1>6. f[n] = h[n]
  BY <1>3, <1>4, <1>5, BytesUnique
<1>7. h[n + 1] = h[n] + Length(s[n + 1])
  BY <1>4, <1>5 DEF IsBytes
<1> QED
  BY <1>1, <1>2, <1>3, <1>5, <1>6, <1>7

\* Only the first n count.
LEMMA BytesSame ==
  ASSUME NEW s, NEW r, NEW n \in Nat, \A k \in 1 .. n : s[k] = r[k]
  PROVE  Bytes(s, n) = Bytes(r, n)
<1> DEFINE S == {k \in 0 .. n : Bytes(s, k) = Bytes(r, k)}
<1>1. 0 \in S
  BY BytesNext
<1>2. ASSUME NEW k \in 0 .. n, k < n, k \in S
      PROVE  k + 1 \in S
  <2>1. k \in Nat /\ k + 1 \in 1 .. n /\ k + 1 \in 0 .. n
    BY <1>2
  <2>2. /\ Bytes(s, k + 1) = Bytes(s, k) + Length(s[k + 1])
        /\ Bytes(r, k + 1) = Bytes(r, k) + Length(r[k + 1])
    BY <2>1, BytesNext
  <2> QED
    BY <1>2, <2>1, <2>2
<1>3. n \in S
  <2> HIDE DEF S
  <2> QED
    BY <1>1, <1>2, Climb
<1> QED
  BY <1>3

\* Less of two numbers.
LEMMA MinOfTwo ==
  ASSUME NEW a \in Int, NEW b \in Int
  PROVE  Min({a, b}) \in {a, b} /\ Min({a, b}) <= a /\ Min({a, b}) <= b
<1>1. \E x \in {a, b} : \A y \in {a, b} : x =< y
  <2>1. a <= b \/ b <= a
    OBVIOUS
  <2> QED
    BY <2>1
<1> QED
  BY <1>1 DEF Min

\* A packet has a length, and fits a segment and the buffer.
LEMMA PacketLength ==
  ASSUME NEW p \in Packets
  PROVE  /\ p.content \in Seq(Characters)
         /\ Length(p) \in Nat \ {0}
         /\ Length(p) <= MAX_BUFFER_SIZE /\ Length(p) <= MaxSegment
<1>1. p.content = <<>> \/ p.content \in Contents
  BY DEF Packets
<1>2. Contents \subseteq Seq(Characters)
  <2>1. Seq(Characters \ {NL}) \subseteq Seq(Characters)
    BY SeqMonotonic
  <2> QED
    BY <2>1, ContentsAssumption DEF ContentsAssumption
<1>3. p.content \in Seq(Characters)
  BY <1>1, <1>2, EmptySeq
<1>4. Len(p.content) \in Nat
  BY <1>3, LenProperties
<1>5. Min({MAX_BUFFER_SIZE, MaxSegment}) <= MAX_BUFFER_SIZE
      /\ Min({MAX_BUFFER_SIZE, MaxSegment}) <= MaxSegment
      /\ Min({MAX_BUFFER_SIZE, MaxSegment}) \in Int
  BY SizesAssumption, MinOfTwo DEF SizesAssumption
<1>6. Length(p) \in Nat \ {0}
  BY <1>4, SizesAssumption DEF SizesAssumption, Length
<1>7. Length(p) <= Min({MAX_BUFFER_SIZE, MaxSegment})
  BY SizesAssumption DEF SizesAssumption
<1>8. MAX_BUFFER_SIZE \in Nat /\ MaxSegment \in Nat
  BY SizesAssumption DEF SizesAssumption
<1> QED
  BY <1>3, <1>5, <1>6, <1>7, <1>8

\* There is something to read into and to deliver with.
LEMMA SomeRoom ==
  MAX_BUFFER_SIZE \in Nat \ {0} /\ MaxSegment \in Nat \ {0}
<1> DEFINE p == [type |-> "READ", content |-> <<>>]
<1>1. p \in Packets
  BY DEF Packets
<1>2. Length(p) \in Nat \ {0} /\ Length(p) <= MAX_BUFFER_SIZE
  <2> HIDE DEF p
  <2> QED
    BY <1>1, PacketLength
<1> QED
  BY <1>2, SizesAssumption DEF SizesAssumption

\* More packets are more bytes.
LEMMA BytesRise ==
  ASSUME NEW s \in Seq(Packets), NEW n \in 0 .. Len(s)
  PROVE  /\ Bytes(s, n) \in Nat
         /\ \A m \in 0 .. n : m < n => Bytes(s, m) < Bytes(s, n)
<1> DEFINE S == {k \in 0 .. n :
                   /\ \A m \in 0 .. k : Bytes(s, m) \in Nat
                   /\ \A m \in 0 .. k : m < k => Bytes(s, m) < Bytes(s, k)}
<1>0. Len(s) \in Nat /\ n \in Nat
  BY LenProperties
<1>1. 0 \in S
  <2>1. Bytes(s, 0) = 0
    BY BytesNext
  <2>2. \A m \in 0 .. 0 : m = 0
    OBVIOUS
  <2> QED
    BY <1>0, <2>1, <2>2
<1>2. ASSUME NEW k \in 0 .. n, k < n, k \in S
      PROVE  k + 1 \in S
  <2>1. k \in Nat /\ k + 1 \in 1 .. Len(s) /\ k + 1 \in 0 .. n
    BY <1>0, <1>2
  <2>2. Bytes(s, k + 1) = Bytes(s, k) + Length(s[k + 1])
    BY <2>1, BytesNext
  <2>3. s[k + 1] \in Packets
    BY <2>1, ElementOfSeq
  <2>4. Length(s[k + 1]) \in Nat \ {0}
    BY <2>3, PacketLength
  <2>5. /\ \A m \in 0 .. k : Bytes(s, m) \in Nat
        /\ Bytes(s, k) \in Nat
        /\ \A m \in 0 .. k : m < k => Bytes(s, m) < Bytes(s, k)
    BY <1>2
  <2>6. Bytes(s, k + 1) \in Nat /\ Bytes(s, k) < Bytes(s, k + 1)
    BY <2>2, <2>4, <2>5
  <2>7. ASSUME NEW m \in 0 .. k + 1, m < k + 1
        PROVE  Bytes(s, m) < Bytes(s, k + 1)
    <3>1. CASE m = k
      BY <2>6, <3>1
    <3>2. CASE m # k
      <4>1. m \in 0 .. k /\ m < k /\ m \in 0 .. n
        BY <2>7, <3>2, <2>1
      <4>2. Bytes(s, m) < Bytes(s, k) /\ Bytes(s, m) \in Nat
        BY <2>5, <4>1
      <4> QED
        BY <2>5, <2>6, <4>2
    <3> QED
      BY <3>1, <3>2
  <2>8. \A m \in 0 .. k + 1 : m \in 0 .. k \/ m = k + 1
    OBVIOUS
  <2>9. \A m \in 0 .. k + 1 : Bytes(s, m) \in Nat
    BY <2>5, <2>6, <2>8
  <2> QED
    BY <2>1, <2>7, <2>9
<1>3. n \in S
  <2> HIDE DEF S
  <2> QED
    BY <1>0, <1>1, <1>2, Climb
<1> QED
  BY <1>3

\* Of two places the one with fewer bytes before it is first.
LEMMA BytesOrder ==
  ASSUME NEW s \in Seq(Packets), NEW m \in 0 .. Len(s), NEW n \in 0 .. Len(s)
  PROVE  /\ Bytes(s, m) \in Nat /\ Bytes(s, n) \in Nat
         /\ m < n <=> Bytes(s, m) < Bytes(s, n)
<1>1. m \in Nat /\ n \in Nat
  BY LenProperties
<1>2. /\ Bytes(s, m) \in Nat
      /\ \A k \in 0 .. m : k < m => Bytes(s, k) < Bytes(s, m)
  BY BytesRise
<1>3. /\ Bytes(s, n) \in Nat
      /\ \A k \in 0 .. n : k < n => Bytes(s, k) < Bytes(s, n)
  BY BytesRise
<1>4. CASE m < n
  BY <1>1, <1>2, <1>3, <1>4
<1>5. CASE n < m
  <2>1. Bytes(s, n) < Bytes(s, m)
    BY <1>1, <1>2, <1>5
  <2> QED
    BY <1>1, <1>2, <1>3, <1>5, <2>1
<1>6. CASE m = n
  BY <1>1, <1>2, <1>6
<1> QED
  BY <1>1, <1>4, <1>5, <1>6

\* One more packet has been sent.
LEMMA SentMore ==
  ASSUME NEW s \in Seq(Packets), NEW p \in Packets
  PROVE  /\ Append(s, p) \in Seq(Packets)
         /\ Len(Append(s, p)) = Len(s) + 1
         /\ \A k \in 0 .. Len(s) : Bytes(Append(s, p), k) = Bytes(s, k)
         /\ Bytes(Append(s, p), Len(s) + 1) = Bytes(s, Len(s)) + Length(p)
<1> DEFINE r == Append(s, p)
<1>1. /\ r \in Seq(Packets) /\ Len(r) = Len(s) + 1 /\ Len(s) \in Nat
      /\ r[Len(s) + 1] = p
      /\ \A k \in 1 .. Len(s) : r[k] = s[k]
  BY AppendProperties, LenProperties
<1> HIDE DEF r
<1>2. ASSUME NEW k \in 0 .. Len(s) PROVE Bytes(r, k) = Bytes(s, k)
  <2>1. k \in Nat /\ \A i \in 1 .. k : r[i] = s[i]
    BY <1>1
  <2> QED
    BY <2>1, BytesSame
<1>3. Bytes(r, Len(s) + 1) = Bytes(r, Len(s)) + Length(p)
  BY <1>1, BytesNext
<1>4. Len(s) \in 0 .. Len(s)
  BY <1>1
<1>5. Bytes(r, Len(s) + 1) = Bytes(s, Len(s)) + Length(p)
  BY <1>2, <1>3, <1>4
<1> QED
  BY <1>1, <1>2, <1>5 DEF r

\* The packets that begin after the first n and before the byte v.
Begin(s, n, v) ==
  {k \in DOMAIN s : Bytes(s, n) <= Bytes(s, k - 1) /\ Bytes(s, k - 1) < v}

\* splitReadDataFromSocket() of the bytes from t, where a packet begins, up to v:
\* the last packet that begins there ends at v or after it.
LEMMA SplitLast ==
  ASSUME NEW s \in Seq(Packets), NEW n \in 0 .. Len(s), NEW v \in Nat,
         Bytes(s, n) < v, v <= Bytes(s, Len(s)),
         NEW K, K = Begin(s, n, v)
  PROVE  /\ Max(K) \in n + 1 .. Len(s)
         /\ v <= Bytes(s, Max(K))
         /\ \A a \in 0 .. Len(s) : v = Bytes(s, a) => Max(K) = a
<1>1. Len(s) \in Nat /\ DOMAIN s = 1 .. Len(s) /\ n \in Nat /\ Len(s) \in 0 .. Len(s)
  BY LenProperties
<1>2. Bytes(s, n) \in Nat /\ Bytes(s, Len(s)) \in Nat
  BY <1>1, BytesOrder
<1>3. n < Len(s)
  <2>1. Bytes(s, n) < Bytes(s, Len(s))
    BY <1>2
  <2> QED
    BY <1>1, <2>1, BytesOrder
<1>4. n + 1 \in K
  <2>1. n + 1 \in 1 .. Len(s) /\ n + 1 - 1 = n /\ Bytes(s, n) <= Bytes(s, n)
    BY <1>1, <1>2, <1>3
  <2>2. n + 1 \in DOMAIN s
    BY <1>1, <2>1
  <2> QED
    BY <2>1, <2>2 DEF Begin
<1>5. PICK m \in K : \A k \in K : m >= k
  <2>1. K \in SUBSET (0 .. Len(s))
    BY <1>1 DEF Begin
  <2> QED
    BY <1>1, <1>4, <2>1, Greatest
<1>6. Max(K) \in K /\ \A k \in K : Max(K) >= k
  BY <1>5 DEF Max
<1>0. PICK x : x = Max(K)
  OBVIOUS
<1>7. /\ x \in DOMAIN s /\ \A k \in K : x >= k
      /\ Bytes(s, n) <= Bytes(s, x - 1) /\ Bytes(s, x - 1) < v
  BY <1>0, <1>6 DEF Begin
<1>8. x \in n + 1 .. Len(s) /\ x - 1 \in 0 .. Len(s) /\ x \in 0 .. Len(s)
  <2>1. x >= n + 1
    BY <1>4, <1>7
  <2> QED
    BY <1>1, <1>7, <2>1
<1>9. Bytes(s, x) \in Nat /\ Bytes(s, x - 1) \in Nat
  BY <1>8, BytesOrder
<1>10. v <= Bytes(s, x)
  <2>1. CASE x = Len(s)
    BY <2>1
  <2>2. CASE x # Len(s)
    <3>1. x + 1 \in 1 .. Len(s) /\ x + 1 - 1 = x /\ n < x
      <4>1. x \in Int /\ n + 1 <= x /\ x <= Len(s)
        BY <1>1, <1>8
      <4>2. \A i, k, l \in Int : i + 1 <= k /\ k <= l /\ k # l /\ 0 <= i
              => k + 1 \in 1 .. l /\ k + 1 - 1 = k /\ i < k
        OBVIOUS
      <4>3. n \in Int /\ Len(s) \in Int /\ 0 <= n
        BY <1>1
      <4> QED
        BY <2>2, <4>1, <4>2, <4>3
    <3>2. PICK y \in 1 .. Len(s) : y = x + 1 /\ y - 1 = x
      <4>1. \E y \in 1 .. Len(s) : y = x + 1
        BY <3>1
      <4>2. PICK y \in 1 .. Len(s) : y = x + 1
        BY <4>1
      <4>3. y - 1 = x
        <5>1. x \in Int
          BY <1>8
        <5>2. \A k, l \in Int : l = k + 1 => l - 1 = k
          OBVIOUS
        <5> QED
          BY <4>2, <5>1, <5>2
      <4> QED
        BY <4>2, <4>3
    <3>3. Bytes(s, n) < Bytes(s, x)
      BY <1>8, <3>1, BytesOrder
    <3>4. y \in DOMAIN s /\ y \notin K
      <4>1. ~(x >= y)
        BY <1>8, <3>2
      <4> QED
        BY <1>1, <1>7, <3>2, <4>1
    <3>5. ~(Bytes(s, n) <= Bytes(s, x) /\ Bytes(s, x) < v)
      <4>1. ~(Bytes(s, n) <= Bytes(s, y - 1) /\ Bytes(s, y - 1) < v)
        BY <3>4 DEF Begin
      <4> QED
        BY <3>2, <4>1
    <3>6. ~(Bytes(s, x) < v)
      BY <1>2, <1>9, <3>1, <3>3, <3>5
    <3> QED
      BY <1>9, <3>6
  <2> QED
    BY <2>1, <2>2
<1>11. ASSUME NEW a \in 0 .. Len(s), v = Bytes(s, a) PROVE x = a
  <2>1. x - 1 < a
    <3>1. Bytes(s, x - 1) < Bytes(s, a)
      BY <1>7, <1>11
    <3> QED
      BY <1>8, <3>1, BytesOrder
  <2>2. ~(x < a)
    <3>1. ~(Bytes(s, x) < Bytes(s, a))
      BY <1>9, <1>10, <1>11
    <3> QED
      BY <1>8, <3>1, BytesOrder
  <2> QED
    BY <1>8, <2>1, <2>2
<1> QED
  BY <1>0, <1>8, <1>10, <1>11

-----------------------------------------------------------------------------
(***************************************************************************)
(* The stream: every read() ends where a packet ends, until more was under *)
(* way than a segment or the buffer holds.                                 *)
(***************************************************************************)

StreamTypes ==
  /\ sent \in Seq(Packets)
  /\ arrived \in 0 .. Total /\ taken \in 0 .. arrived
  /\ parsed \in 0 .. Len(sent)
  /\ handled \in 0 .. parsed /\ answered \in 0 .. handled
  /\ Len(sent) - answered <= Window
  /\ torn \in BOOLEAN /\ crowded \in BOOLEAN

\* What read() has returned is the packets that were split off.
Aligned == ~torn => taken = Bytes(sent, parsed)

\* What is under way, and what has arrived of it: whole packets.
Whole ==
  ~crowded =>
    /\ ~torn
    /\ Total - taken <= MAX_BUFFER_SIZE /\ Total - taken <= MaxSegment
    /\ \E a \in 0 .. Len(sent) : arrived = Bytes(sent, a)

SInv == StreamTypes /\ Aligned /\ Whole

\* Lengths and positions are numbers.
LEMMA TotalType ==
  ASSUME StreamTypes
  PROVE  /\ Len(sent) \in Nat /\ Total \in Nat
         /\ arrived \in Nat /\ taken \in Nat /\ taken <= arrived
         /\ arrived <= Total
         /\ parsed \in Nat /\ handled \in Nat /\ answered \in Nat
         /\ \A k \in 0 .. Len(sent) : Bytes(sent, k) \in Nat
<1>1. Len(sent) \in Nat /\ Len(sent) \in 0 .. Len(sent)
  BY LenProperties DEF StreamTypes
<1>2. Total \in Nat
  BY <1>1, BytesRise DEF StreamTypes, Total
<1>3. \A k \in 0 .. Len(sent) : Bytes(sent, k) \in Nat
  BY BytesRise DEF StreamTypes
<1> QED
  BY <1>1, <1>2, <1>3 DEF StreamTypes

\* Nothing is under way at first.
LEMMA StreamInit == Init => SInv
<1> SUFFICES ASSUME Init PROVE SInv
  OBVIOUS
<1>1. sent = <<>> /\ Len(sent) = 0 /\ sent \in Seq(Packets)
  BY EmptySeq DEF Init
<1>2. Bytes(sent, 0) = 0
  BY BytesNext
<1>3. Total = 0
  BY <1>1, <1>2 DEF Total
<1>4. StreamTypes
  <2>1. arrived \in 0 .. Total /\ taken \in 0 .. arrived
    BY <1>3 DEF Init
  <2>2. parsed \in 0 .. Len(sent) /\ handled \in 0 .. parsed /\ answered \in 0 .. handled
    BY <1>1 DEF Init
  <2>3. Len(sent) - answered <= Window
    BY <1>1, WindowAssumption DEF Init, WindowAssumption
  <2> QED
    BY <1>1, <2>1, <2>2, <2>3 DEF Init, StreamTypes
<1>5. Whole
  BY <1>1, <1>2, <1>3, SomeRoom DEF Init, Whole
<1> QED
  BY <1>2, <1>4, <1>5 DEF Init, SInv, Aligned

\* sendMessageToServer() adds a whole packet to the stream.
LEMMA SendKeeps ==
  ASSUME SInv, NEW p \in Packets, SendMessageToServer(p)
  PROVE  SInv'
<1>1. /\ sent' = Append(sent, p) /\ ~torn /\ MaySend
      /\ crowded' = (crowded \/ Total + Length(p) - taken >
                                  Min({MAX_BUFFER_SIZE, MaxSegment}))
      /\ UNCHANGED <<arrived, taken, parsed, handled, answered, torn>>
  BY DEF SendMessageToServer
<1>2. StreamTypes /\ sent \in Seq(Packets)
  BY DEF SInv, StreamTypes
<1>3. /\ Len(sent) \in Nat /\ Total \in Nat
      /\ arrived \in Nat /\ taken \in Nat /\ taken <= arrived
      /\ arrived <= Total
      /\ parsed \in Nat /\ handled \in Nat /\ answered \in Nat
  BY <1>2, TotalType
<1>4. /\ sent' \in Seq(Packets) /\ Len(sent') = Len(sent) + 1
      /\ \A k \in 0 .. Len(sent) : Bytes(sent', k) = Bytes(sent, k)
      /\ Bytes(sent', Len(sent) + 1) = Bytes(sent, Len(sent)) + Length(p)
  BY <1>1, <1>2, SentMore
<1>5. Total' = Total + Length(p) /\ Length(p) \in Nat
  BY <1>4, PacketLength DEF Total
<1>6. StreamTypes'
  <2>1. Len(sent') - answered <= Window
    BY <1>1, <1>3, <1>4, WindowAssumption DEF MaySend, WindowAssumption
  <2>2. crowded' \in BOOLEAN
    BY <1>1, <1>2 DEF StreamTypes
  <2>3. arrived \in 0 .. Total' /\ parsed \in 0 .. Len(sent')
    BY <1>2, <1>3, <1>4, <1>5 DEF StreamTypes
  <2> QED
    BY <1>1, <1>2, <1>4, <2>1, <2>2, <2>3 DEF StreamTypes
<1>7. Aligned'
  <2>1. Bytes(sent', parsed) = Bytes(sent, parsed)
    BY <1>2, <1>4 DEF StreamTypes
  <2> QED
    BY <1>1, <2>1 DEF SInv, Aligned
<1>8. Whole'
  <2> SUFFICES ASSUME ~crowded' PROVE /\ ~torn'
                                      /\ Total' - taken' <= MAX_BUFFER_SIZE
                                      /\ Total' - taken' <= MaxSegment
                                      /\ \E a \in 0 .. Len(sent') :
                                           arrived' = Bytes(sent', a)
    BY DEF Whole
  <2>1. ~crowded /\ ~(Total + Length(p) - taken > Min({MAX_BUFFER_SIZE, MaxSegment}))
    BY <1>1
  <2>2. /\ Min({MAX_BUFFER_SIZE, MaxSegment}) <= MAX_BUFFER_SIZE
        /\ Min({MAX_BUFFER_SIZE, MaxSegment}) <= MaxSegment
        /\ Min({MAX_BUFFER_SIZE, MaxSegment}) \in {MAX_BUFFER_SIZE, MaxSegment}
    BY SomeRoom, MinOfTwo
  <2>3. Total' - taken <= MAX_BUFFER_SIZE /\ Total' - taken <= MaxSegment
    BY <1>3, <1>5, <2>1, <2>2, SomeRoom
  <2>4. PICK a \in 0 .. Len(sent) : arrived = Bytes(sent, a)
    BY <2>1 DEF SInv, Whole
  <2>5. a \in 0 .. Len(sent') /\ arrived = Bytes(sent', a)
    BY <1>3, <1>4, <2>4
  <2> QED
    BY <1>1, <2>3, <2>5
<1> QED
  BY <1>6, <1>7, <1>8 DEF SInv

\* The network delivers whole packets until it is crowded.
LEMMA DeliverKeeps ==
  ASSUME SInv, Deliver
  PROVE  SInv'
<1>1. /\ arrived < Total /\ arrived' = Min({arrived + MaxSegment, Total})
      /\ UNCHANGED <<sent, taken, parsed, handled, answered, torn, crowded>>
  BY DEF Deliver
<1>2. StreamTypes /\ sent \in Seq(Packets)
  BY DEF SInv, StreamTypes
<1>3. /\ Len(sent) \in Nat /\ Total \in Nat
      /\ arrived \in Nat /\ taken \in Nat /\ taken <= arrived
  BY <1>2, TotalType
<1>4. /\ arrived' \in {arrived + MaxSegment, Total}
      /\ arrived' <= arrived + MaxSegment /\ arrived' <= Total
  <2>1. arrived + MaxSegment \in Int /\ Total \in Int
    BY <1>3, SomeRoom
  <2> QED
    BY <1>1, <2>1, MinOfTwo
<1>5. arrived' \in Nat /\ arrived' >= arrived /\ Total' = Total
  BY <1>1, <1>3, <1>4, SomeRoom DEF Total
<1>6. StreamTypes'
  <2>1. arrived' \in 0 .. Total' /\ taken \in 0 .. arrived'
    BY <1>3, <1>4, <1>5
  <2> QED
    BY <1>1, <1>2, <2>1 DEF StreamTypes
<1>7. Aligned'
  BY <1>1 DEF SInv, Aligned
<1>8. Whole'
  <2> SUFFICES ASSUME ~crowded PROVE Whole'
    BY <1>1 DEF Whole
  <2>1. ~torn /\ Total - taken <= MAX_BUFFER_SIZE /\ Total - taken <= MaxSegment
    BY DEF SInv, Whole
  <2>2. arrived' = Total
    BY <1>3, <1>4, <2>1, SomeRoom
  <2>3. Len(sent') \in 0 .. Len(sent') /\ arrived' = Bytes(sent', Len(sent'))
    BY <1>1, <1>3, <2>2 DEF Total
  <2> QED
    BY <1>1, <1>5, <2>1, <2>3 DEF Whole
<1> QED
  BY <1>6, <1>7, <1>8 DEF SInv

\* One read() takes whole packets until it is crowded.
LEMMA ReadKeeps ==
  ASSUME SInv, Read
  PROVE  SInv'
<1> DEFINE valread == Min({arrived - taken, MAX_BUFFER_SIZE})
<1>1. /\ ~torn /\ handled = parsed /\ arrived > taken
      /\ taken' = taken + valread
      /\ parsed' = Max(Split(valread))
      /\ torn' = (Start(parsed' + 1) > taken')
      /\ UNCHANGED <<sent, arrived, handled, answered, crowded>>
  BY DEF Read
<1>2. StreamTypes /\ sent \in Seq(Packets) /\ taken = Bytes(sent, parsed)
  BY <1>1 DEF SInv, StreamTypes, Aligned
<1>3. /\ Len(sent) \in Nat /\ Total \in Nat
      /\ arrived \in Nat /\ taken \in Nat /\ arrived <= Total
      /\ parsed \in Nat
      /\ parsed \in 0 .. Len(sent)
  BY <1>2, TotalType DEF StreamTypes
<1>4. /\ valread \in {arrived - taken, MAX_BUFFER_SIZE}
      /\ valread <= arrived - taken /\ valread <= MAX_BUFFER_SIZE
  <2>1. arrived - taken \in Int /\ MAX_BUFFER_SIZE \in Int
    BY <1>3, SomeRoom
  <2> QED
    BY <2>1, MinOfTwo
<1> HIDE DEF valread
<1>5. valread \in Nat \ {0}
  BY <1>1, <1>3, <1>4, SomeRoom
<1>6. /\ taken' \in Nat /\ Bytes(sent, parsed) < taken'
      /\ taken' <= Bytes(sent, Len(sent)) /\ taken' <= arrived
  BY <1>1, <1>2, <1>3, <1>4, <1>5 DEF Total
<1>7. Split(valread) = Begin(sent, parsed, taken')
  BY <1>1, <1>2 DEF Split, Start, Begin
<1>8. /\ parsed' \in parsed + 1 .. Len(sent)
      /\ taken' <= Bytes(sent, parsed')
      /\ \A a \in 0 .. Len(sent) : taken' = Bytes(sent, a) => parsed' = a
  <2> DEFINE v == taken'
             K == Split(valread)
  <2>1. /\ v \in Nat /\ Bytes(sent, parsed) < v /\ v <= Bytes(sent, Len(sent))
        /\ K = Begin(sent, parsed, v)
    BY <1>6, <1>7
  <2> HIDE DEF v, K
  <2>2. /\ Max(K) \in parsed + 1 .. Len(sent)
        /\ v <= Bytes(sent, Max(K))
        /\ \A a \in 0 .. Len(sent) : v = Bytes(sent, a) => Max(K) = a
    BY <1>2, <1>3, <2>1, SplitLast
  <2> QED
    BY <1>1, <2>2 DEF v, K
<1>9. parsed' \in Nat /\ parsed' + 1 - 1 = parsed' /\ Total' = Total
      /\ parsed' \in 0 .. Len(sent)
  BY <1>1, <1>3, <1>8 DEF Total
<1>10. Bytes(sent, parsed') \in Nat /\ torn' = (Bytes(sent, parsed') > taken')
  <2>1. Bytes(sent, parsed') \in Nat
    BY <1>2, <1>9, TotalType
  <2>2. Start(parsed' + 1) = Bytes(sent, parsed')
    BY <1>9 DEF Start
  <2> QED
    BY <1>1, <2>1, <2>2
<1>11. StreamTypes'
  <2>1. taken' \in 0 .. arrived' /\ arrived' \in 0 .. Total'
    BY <1>1, <1>3, <1>6, <1>9
  <2>2. parsed' \in 0 .. Len(sent') /\ handled' \in 0 .. parsed'
    BY <1>1, <1>3, <1>8, <1>9
  <2> QED
    BY <1>1, <1>2, <2>1, <2>2 DEF StreamTypes
<1>12. Aligned'
  <2> SUFFICES ASSUME ~torn' PROVE taken' = Bytes(sent', parsed')
    BY DEF Aligned
  <2>1. ~(Bytes(sent, parsed') > taken')
    BY <1>10
  <2> QED
    BY <1>1, <1>6, <1>8, <1>10, <2>1
<1>13. Whole'
  <2> SUFFICES ASSUME ~crowded PROVE Whole'
    BY <1>1 DEF Whole
  <2>1. Total - taken <= MAX_BUFFER_SIZE /\ Total - taken <= MaxSegment
    BY DEF SInv, Whole
  <2>2. PICK a \in 0 .. Len(sent) : arrived = Bytes(sent, a)
    BY DEF SInv, Whole
  <2>3. taken' = arrived
    BY <1>1, <1>3, <1>4, <2>1, SomeRoom
  <2>4. ~torn'
    <3>1. parsed' = a
      BY <1>8, <2>2, <2>3
    <3>2. ~(Bytes(sent, parsed') > taken')
      BY <1>6, <2>2, <2>3, <3>1
    <3> QED
      BY <1>10, <3>2
  <2>5. Total - taken' <= MAX_BUFFER_SIZE /\ Total - taken' <= MaxSegment
    BY <1>1, <1>3, <1>5, <1>6, <2>1, SomeRoom
  <2>6. a \in 0 .. Len(sent') /\ arrived' = Bytes(sent', a)
    BY <1>1, <2>2
  <2> QED
    BY <1>9, <2>4, <2>5, <2>6 DEF Whole
<1> QED
  BY <1>11, <1>12, <1>13 DEF SInv

\* Every step keeps the positions in the stream consistent.
LEMMA StreamNext ==
  ASSUME SInv, [Next]_vars
  PROVE  SInv'
<1>1. ASSUME NEW p \in Packets, SendMessageToServer(p) PROVE SInv'
  BY <1>1, SendKeeps
<1>2. CASE Deliver
  BY <1>2, DeliverKeeps
<1>3. CASE Read
  BY <1>3, ReadKeeps
<1>4. StreamTypes /\ parsed \in Nat /\ handled \in Nat /\ answered \in Nat
  <2>1. StreamTypes
    BY DEF SInv
  <2> QED
    BY <2>1, TotalType
<1>5. ASSUME NEW type, Handle(type) PROVE SInv'
  <2>1. /\ handled < parsed /\ handled' = handled + 1
        /\ UNCHANGED <<sent, arrived, taken, parsed, answered, torn, crowded>>
    BY <1>5 DEF Handle
  <2>2. handled' \in 0 .. parsed' /\ answered' \in 0 .. handled'
    BY <1>4, <2>1 DEF StreamTypes
  <2> QED
    BY <1>4, <2>1, <2>2 DEF SInv, StreamTypes, Aligned, Whole, Total
<1>6. CASE ReceiveReply
  <2>1. /\ answered < handled /\ answered' = answered + 1
        /\ UNCHANGED <<sent, arrived, taken, parsed, handled, torn, crowded>>
    BY <1>6 DEF ReceiveReply
  <2>2. answered' \in 0 .. handled'
    BY <1>4, <2>1
  <2>3. Len(sent') - answered' <= Window
    <3>1. Len(sent) \in Nat /\ Len(sent) - answered <= Window
      BY <1>4, TotalType DEF StreamTypes
    <3> QED
      BY <1>4, <2>1, <3>1, WindowAssumption DEF WindowAssumption
  <2> QED
    BY <1>4, <2>1, <2>2, <2>3 DEF SInv, StreamTypes, Aligned, Whole, Total
<1>7. CASE UNCHANGED vars
  BY <1>4, <1>7 DEF vars, stream, SInv, StreamTypes, Aligned, Whole, Total
<1> QED
  BY <1>1, <1>2, <1>3, <1>5, <1>6, <1>7
     DEF Next, Client, ServerThread, HandleReadRequest, HandleWriteRequest

\* splitReadDataFromSocket() may take for granted that the buffer ends where a
\* packet ends, while a segment and the buffer hold what is under way: then the
\* network carries whole packets, and read() takes all of them.
\* (packet.cpp 115-142, server.cpp 172-184)
THEOREM NoneCut == Spec => []CutOnlyWhenCrowded
<1>1. SInv => CutOnlyWhenCrowded
  BY DEF SInv, Whole, CutOnlyWhenCrowded
<1>2. SInv /\ [Next]_vars => SInv'
  BY StreamNext
<1> QED
  BY <1>1, <1>2, StreamInit, PTL DEF Spec

\* Packets of at most M bytes.
LEMMA BytesBound ==
  ASSUME NEW s \in Seq(Packets), NEW M \in Nat, \A p \in Packets : Length(p) <= M,
         NEW n \in 0 .. Len(s), NEW m \in 0 .. n
  PROVE  Bytes(s, n) <= Bytes(s, m) + (n - m) * M
<1>1. Len(s) \in Nat /\ n \in Nat /\ m \in Nat /\ m <= n /\ n <= Len(s)
  BY LenProperties
<1>2. PICK l \in Nat : l = n - m
  BY <1>1
<1> DEFINE S == {k \in 0 .. l : Bytes(s, m + k) <= Bytes(s, m) + k * M}
<1>3. \A k \in 0 .. Len(s) : Bytes(s, k) \in Nat
  BY BytesRise
<1>4. 0 \in S
  <2>1. m + 0 = m /\ 0 * M = 0 /\ Bytes(s, m) \in Nat
    BY <1>1, <1>3
  <2> QED
    BY <2>1
<1>5. ASSUME NEW k \in 0 .. l, k < l, k \in S
      PROVE  k + 1 \in S
  <2>1. PICK h : h = m + k
    OBVIOUS
  <2>2. /\ h \in Nat /\ h \in 0 .. Len(s) /\ h + 1 \in 1 .. Len(s) /\ h + 1 \in 0 .. Len(s)
        /\ m + (k + 1) = h + 1 /\ k + 1 \in 0 .. l /\ k \in Nat
    <3>1. k \in Nat /\ k < l
      BY <1>5
    <3> HIDE DEF S
    <3> QED
      BY <1>1, <1>2, <2>1, <3>1
  <2>3. Bytes(s, h + 1) = Bytes(s, h) + Length(s[h + 1])
    BY <2>2, BytesNext
  <2>4. Length(s[h + 1]) \in Nat /\ Length(s[h + 1]) <= M
    <3>1. s[h + 1] \in Packets
      BY <2>2, ElementOfSeq
    <3> QED
      BY <3>1, PacketLength
  <2>5. Bytes(s, h) <= Bytes(s, m) + k * M
    BY <1>5, <2>1
  <2>6. (k + 1) * M = k * M + M /\ k * M \in Nat
    BY <2>2
  <2>7. Bytes(s, h) \in Nat /\ Bytes(s, m) \in Nat
    BY <1>1, <1>3, <2>2
  <2>8. Bytes(s, h + 1) <= Bytes(s, m) + (k + 1) * M
    <3>1. \A x, y, z, w, u \in Nat : x <= y + z /\ w <= u => x + w <= y + (z + u)
      OBVIOUS
    <3> QED
      BY <2>3, <2>4, <2>5, <2>6, <2>7, <3>1
  <2> QED
    BY <2>2, <2>8
<1>6. l \in S
  <2> HIDE DEF S
  <2> QED
    BY <1>4, <1>5, Climb
<1>7. m + l = n
  BY <1>1, <1>2
<1> QED
  BY <1>2, <1>6, <1>7

\* A client that has Window packets under way at most, and a segment and a buffer
\* that hold as many of the longest: no packet is ever cut.  A client of this
\* program has two.  (client.cpp 603-719, config.h 6)
THEOREM NeverCut ==
  ASSUME NEW M \in Nat, \A p \in Packets : Length(p) <= M,
         Window * M <= MAX_BUFFER_SIZE, Window * M <= MaxSegment
  PROVE  Spec => [](~torn)
<1> DEFINE Inv == SInv /\ ~crowded
<1>1. Init => Inv
  BY StreamInit DEF Init
<1>2. ASSUME Inv, [Next]_vars PROVE Inv'
  <2>1. SInv'
    BY <1>2, StreamNext
  <2>2. ASSUME NEW p \in Packets, SendMessageToServer(p) PROVE ~crowded'
    <3>1. /\ sent' = Append(sent, p) /\ ~torn /\ MaySend
          /\ crowded' = (crowded \/ Total + Length(p) - taken >
                                      Min({MAX_BUFFER_SIZE, MaxSegment}))
      BY <2>2 DEF SendMessageToServer
    <3>2. StreamTypes /\ sent \in Seq(Packets) /\ taken = Bytes(sent, parsed)
      BY <1>2, <3>1 DEF SInv, StreamTypes, Aligned
    <3>3. /\ Len(sent) \in Nat /\ Total \in Nat /\ taken \in Nat
          /\ answered \in Nat /\ parsed \in Nat
          /\ answered <= parsed /\ parsed <= Len(sent)
      BY <3>2, TotalType DEF StreamTypes
    <3>4. PICK s : s = sent'
      OBVIOUS
    <3>5. PICK n : n = Len(sent) + 1
      OBVIOUS
    <3>6. /\ s \in Seq(Packets) /\ Len(s) = n
          /\ \A k \in 0 .. Len(sent) : Bytes(s, k) = Bytes(sent, k)
          /\ Bytes(s, n) = Total + Length(p)
      BY <3>1, <3>2, <3>4, <3>5, SentMore DEF Total
    <3>7. /\ n \in 0 .. Len(s) /\ parsed \in 0 .. n /\ parsed \in 0 .. Len(sent)
          /\ n \in Nat
      BY <3>3, <3>5, <3>6
    <3>8. Bytes(s, n) <= Bytes(s, parsed) + (n - parsed) * M
      BY <3>6, <3>7, BytesBound
    <3>9. Bytes(s, parsed) = taken
      BY <3>2, <3>6, <3>7
    <3>10. n - parsed <= Window /\ n - parsed \in Nat /\ Window \in Nat
      BY <3>1, <3>3, <3>5, WindowAssumption DEF MaySend, WindowAssumption
    <3>11. (n - parsed) * M <= Window * M
      <4>1. \A x, y, z \in Nat : x <= y => x * z <= y * z
        OBVIOUS
      <4> QED
        BY <3>10, <4>1
    <3>12. Total + Length(p) - taken <= Window * M
      <4>1. (n - parsed) * M \in Nat /\ Window * M \in Nat
        BY <3>10
      <4>2. Length(p) \in Nat
        BY PacketLength
      <4> QED
        BY <3>3, <3>6, <3>8, <3>9, <3>11, <4>1, <4>2
    <3>13. ~(Total + Length(p) - taken > Min({MAX_BUFFER_SIZE, MaxSegment}))
      <4>1. Min({MAX_BUFFER_SIZE, MaxSegment}) \in {MAX_BUFFER_SIZE, MaxSegment}
        BY SomeRoom, MinOfTwo
      <4>2. Length(p) \in Nat /\ Window * M \in Nat
        BY <3>10, PacketLength
      <4> QED
        BY <3>3, <3>12, <4>1, <4>2, SomeRoom
    <3> QED
      BY <1>2, <3>1, <3>13
  <2>3. ~crowded'
    BY <1>2, <2>2 DEF Next, Client, ServerThread, ReceiveReply, Deliver, Read, Handle,
                      HandleReadRequest, HandleWriteRequest, vars, stream
  <2> QED
    BY <2>1, <2>3
<1>3. Inv => ~torn
  BY DEF SInv, Whole
<1> QED
  BY <1>1, <1>2, <1>3, PTL DEF Spec

-----------------------------------------------------------------------------
(***************************************************************************)
(* What fgets() reads, line by line.                                       *)
(***************************************************************************)

\* fgets() from i on ends at e: at the first newline, at the end of the file t or
\* with a full buffer.
EndsAt(t, i, e) ==
  /\ e \in i .. Len(t) /\ e <= i + LineBuffer - 2
  /\ \A j \in i .. Len(t) : t[j] = NL => e <= j
  /\ e = Len(t) \/ e = i + LineBuffer - 2 \/ t[e] = NL

\* LineEnd is where fgets() stops for a newline, or the end of the file.
LEMMA LineEnds ==
  ASSUME NEW t, Len(t) \in Nat, NEW i \in 1 .. Len(t)
  PROVE  EndsAt(t, i, LineEnd(t, i))
<1> DEFINE N == {j \in i .. Len(t) : t[j] = NL}
           I == {Len(t), i + LineBuffer - 2} \union N
           n == Len(t) + i + LineBuffer
<1>1. LineBuffer \in Nat /\ LineBuffer >= 2 /\ i \in Nat
  BY SizesAssumption DEF SizesAssumption
<1>2. /\ n \in Nat /\ Len(t) \in i .. n /\ i + LineBuffer - 2 \in i .. n
      /\ \A j \in i .. Len(t) : j \in i .. n
  BY <1>1
<1>3. I \in SUBSET (0 .. n) /\ Len(t) \in I /\ I \in SUBSET (i .. n)
  <2>1. \A j \in i .. n : j \in 0 .. n
    BY <1>1
  <2> QED
    BY <1>2, <2>1
<1>4. PICK x \in I : \A y \in I : x <= y
  <2> HIDE DEF I, n
  <2> QED
    BY <1>2, <1>3, Least
<1>5. PICK e : e = LineEnd(t, i)
  OBVIOUS
<1>6. e \in I /\ \A y \in I : e <= y
  <2>1. e = Min(I)
    BY <1>5 DEF LineEnd
  <2> HIDE DEF I
  <2> QED
    BY <1>4, <2>1 DEF Min
<1>7. e \in i .. Len(t) /\ e <= i + LineBuffer - 2
  <2>1. e <= Len(t) /\ e <= i + LineBuffer - 2
    BY <1>6
  <2>2. e \in i .. n
    BY <1>3, <1>6
  <2> QED
    BY <1>1, <2>1, <2>2
<1>8. \A j \in i .. Len(t) : t[j] = NL => e <= j
  BY <1>6
<1>9. e = Len(t) \/ e = i + LineBuffer - 2 \/ t[e] = NL
  BY <1>6
<1> QED
  BY <1>5, <1>7, <1>8, <1>9 DEF EndsAt

\* What is in prev_buffer after the line from i on and those after it, of which
\* the latter have left later.
AfterLine(t, i, later) ==
  IF later # Uninitialised \/ Blank(t, i) THEN later
  ELSE SubSeq(t, i, LineEnd(t, i))

\* What last of LastRead is, from l on.
Reads(g, t, l) ==
  g = [i \in l .. Len(t) + 1 |->
         IF i > Len(t) THEN Uninitialised
         ELSE AfterLine(t, i, g[LineEnd(t, i) + 1])]

\* The recursive function of the reads of fgets() is there for every file.
LEMMA ReadsExists ==
  ASSUME NEW t, Len(t) \in Nat
  PROVE  \E g : Reads(g, t, 1)
<1> DEFINE n == Len(t)
           S == {k \in 0 .. n : \E g : Reads(g, t, n - k + 1)}
<1>1. 0 \in S
  <2> DEFINE g == [i \in n + 1 .. n + 1 |-> Uninitialised]
  <2>1. Reads(g, t, n + 1)
    BY DEF Reads
  <2>2. n - 0 + 1 = n + 1
    OBVIOUS
  <2>3. \E x : Reads(x, t, n - 0 + 1)
    <3> HIDE DEF g
    <3> QED
      BY <2>1, <2>2
  <2> QED
    BY <2>3
<1>2. ASSUME NEW k \in 0 .. n, k < n, k \in S
      PROVE  k + 1 \in S
  <2> DEFINE l == n - k
  <2>1. PICK g : Reads(g, t, l + 1)
    BY <1>2
  <2>2. l \in 1 .. n /\ n - (k + 1) + 1 = l /\ k + 1 \in 0 .. n /\ l \in Nat
    BY <1>2
  <2> HIDE DEF l
  <2> DEFINE step(i) == IF i > n THEN Uninitialised
                        ELSE AfterLine(t, i, g[LineEnd(t, i) + 1])
             e == [i \in l .. n + 1 |-> step(i)]
  <2>3. ASSUME NEW i \in l + 1 .. n + 1 PROVE e[i] = g[i]
    <3>1. i \in l .. n + 1
      BY <2>2, <2>3
    <3>2. g[i] = step(i)
      BY <2>1, <2>3 DEF Reads
    <3> QED
      BY <3>1, <3>2
  <2>4. ASSUME NEW i \in l .. n + 1, ~(i > n) PROVE LineEnd(t, i) + 1 \in l + 1 .. n + 1
    <3>1. i \in 1 .. n /\ l <= i
      BY <2>2, <2>4
    <3>2. LineEnd(t, i) \in i .. n
      BY <3>1, LineEnds DEF EndsAt
    <3> QED
      BY <2>2, <3>1, <3>2
  <2>5. Reads(e, t, l)
    <3>1. ASSUME NEW i \in l .. n + 1
          PROVE  step(i) = IF i > n THEN Uninitialised
                           ELSE AfterLine(t, i, e[LineEnd(t, i) + 1])
      <4> HIDE DEF e
      <4> QED
        BY <2>3, <2>4
    <3> QED
      BY <3>1 DEF Reads
  <2> HIDE DEF e
  <2>6. \E x : Reads(x, t, n - (k + 1) + 1)
    BY <2>2, <2>5
  <2> QED
    BY <2>2, <2>6
<1>3. n \in S
  <2> HIDE DEF S
  <2> QED
    BY <1>1, <1>2, Climb
<1>4. n - n + 1 = 1
  OBVIOUS
<1> QED
  BY <1>3, <1>4

\* The loop over the lines of t: nothing is left at the end, and g[i] is left by
\* the lines from i on.
Loop(g, t) ==
  /\ g[Len(t) + 1] = Uninitialised
  /\ \A i \in 1 .. Len(t) :
       /\ LineEnd(t, i) + 1 \in i + 1 .. Len(t) + 1
       /\ g[i] = AfterLine(t, i, g[LineEnd(t, i) + 1])

\* LastRead is the loop of _readLastLineOfFile(), from the beginning of the file.
LEMMA LastReadLoop ==
  ASSUME NEW t, Len(t) \in Nat
  PROVE  \E g : Loop(g, t) /\ LastRead(t) = g[1]
<1> DEFINE g == CHOOSE x : Reads(x, t, 1)
<1>1. Reads(g, t, 1)
  BY ReadsExists
<1>2. LastRead(t) = g[1]
  BY DEF LastRead, Reads, AfterLine
<1> HIDE DEF g
<1>3. g[Len(t) + 1] = Uninitialised
  <2>1. Len(t) + 1 \in 1 .. Len(t) + 1 /\ Len(t) + 1 > Len(t)
    OBVIOUS
  <2> QED
    BY <1>1, <2>1 DEF Reads
<1>4. ASSUME NEW i \in 1 .. Len(t)
      PROVE  /\ LineEnd(t, i) + 1 \in i + 1 .. Len(t) + 1
             /\ g[i] = AfterLine(t, i, g[LineEnd(t, i) + 1])
  <2>1. i \in 1 .. Len(t) + 1 /\ ~(i > Len(t))
    OBVIOUS
  <2>2. LineEnd(t, i) \in i .. Len(t)
    BY LineEnds DEF EndsAt
  <2>3. LineEnd(t, i) + 1 \in i + 1 .. Len(t) + 1
    BY <2>2
  <2>4. g[i] = IF i > Len(t) THEN Uninitialised
               ELSE AfterLine(t, i, g[LineEnd(t, i) + 1])
    BY <1>1, <2>1 DEF Reads
  <2> QED
    BY <2>1, <2>3, <2>4
<1> QED
  BY <1>2, <1>3, <1>4 DEF Loop

\* A line or part of a line is a sequence of the bytes of the file.
LEMMA LineType ==
  ASSUME NEW t \in Seq(Characters), NEW a \in 1 .. Len(t), NEW e \in a .. Len(t)
  PROVE  /\ SubSeq(t, a, e) \in Seq(Characters)
         /\ Len(SubSeq(t, a, e)) = e - a + 1
         /\ \A i \in 1 .. e - a + 1 : SubSeq(t, a, e)[i] = t[a + i - 1]
<1>1. Len(t) \in Nat /\ a \in Int /\ e \in Int /\ a <= e
  BY LenProperties
<1>2. \A i \in a .. e : t[i] \in Characters
  <2> TAKE i \in a .. e
  <2>1. i \in 1 .. Len(t)
    BY <1>1
  <2> QED
    BY <2>1, ElementOfSeq
<1> QED
  BY <1>1, <1>2, SubSeqProperties

\* prev_buffer holds a line that is not empty, unless it holds what it held.
LEMMA LastReadType ==
  ASSUME NEW t \in Seq(Characters)
  PROVE  LastRead(t) \in {Uninitialised} \union (Seq(Characters) \ {<<>>})
<1>1. Len(t) \in Nat
  BY LenProperties
<1>2. PICK g : Loop(g, t) /\ LastRead(t) = g[1]
  BY <1>1, LastReadLoop
<1> DEFINE L == {Uninitialised} \union (Seq(Characters) \ {<<>>})
           n == Len(t)
           S == {k \in 0 .. n : \A i \in n + 1 - k .. n + 1 : g[i] \in L}
<1>3. 0 \in S
  <2>1. \A i \in n + 1 - 0 .. n + 1 : i = n + 1
    BY <1>1
  <2>2. g[n + 1] \in L
    BY <1>2 DEF Loop
  <2> QED
    BY <1>1, <2>1, <2>2
<1>4. ASSUME NEW k \in 0 .. n, k < n, k \in S
      PROVE  k + 1 \in S
  <2>1. PICK h : h = n - k
    OBVIOUS
  <2>2. /\ h \in 1 .. n /\ n + 1 - (k + 1) = h /\ n + 1 - k = h + 1 /\ k + 1 \in 0 .. n
        /\ \A i \in h .. n + 1 : i = h \/ i \in h + 1 .. n + 1
    <3>1. n \in Nat /\ k \in Nat /\ k < n
      BY <1>1, <1>4
    <3> HIDE DEF n, S
    <3> QED
      BY <2>1, <3>1
  <2>3. \A i \in h + 1 .. n + 1 : g[i] \in L
    BY <1>4, <2>2
  <2>4. LineEnd(t, h) \in h .. n
    BY <1>1, <2>2, LineEnds DEF EndsAt
  <2>5. SubSeq(t, h, LineEnd(t, h)) \in L
    <3>1. /\ SubSeq(t, h, LineEnd(t, h)) \in Seq(Characters)
          /\ Len(SubSeq(t, h, LineEnd(t, h))) = LineEnd(t, h) - h + 1
      BY <2>2, <2>4, LineType
    <3>2. LineEnd(t, h) - h + 1 # 0
      BY <2>2, <2>4
    <3>3. Len(<<>>) = 0
      BY EmptySeq
    <3> QED
      BY <3>1, <3>2, <3>3
  <2>6. /\ LineEnd(t, h) + 1 \in h + 1 .. n + 1
        /\ g[h] = AfterLine(t, h, g[LineEnd(t, h) + 1])
    BY <1>2, <2>2 DEF Loop
  <2> HIDE DEF L
  <2>7. g[h] \in L
    BY <2>3, <2>5, <2>6 DEF AfterLine
  <2> QED
    BY <2>2, <2>3, <2>7
<1>5. n \in S
  <2> HIDE DEF S
  <2> QED
    BY <1>1, <1>3, <1>4, Climb
<1>6. 1 \in n + 1 - n .. n + 1
  BY <1>1
<1> QED
  BY <1>2, <1>5, <1>6

\* So _readLastLineOfFile() returns a line.
LEMMA LastLineType ==
  ASSUME NEW t \in Seq(Characters)
  PROVE  ReadLastLineOfFile(t) \in {Uninitialised} \union Seq(Characters)
<1>1. PICK line : line = LastRead(t)
  OBVIOUS
<1>2. CASE line = Uninitialised
  BY <1>1, <1>2 DEF ReadLastLineOfFile
<1>3. CASE line # Uninitialised
  <2>1. line \in Seq(Characters) /\ line # <<>>
    BY <1>1, <1>3, LastReadType
  <2>2. SubSeq(line, 1, Len(line) - 1) \in Seq(Characters)
    <3>1. Len(line) \in Nat
      BY <2>1, LenProperties
    <3>2. \A i \in 1 .. Len(line) - 1 : line[i] \in Characters
      <4> TAKE i \in 1 .. Len(line) - 1
      <4>1. i \in 1 .. Len(line)
        BY <3>1
      <4> QED
        BY <2>1, <4>1, ElementOfSeq
    <3>3. 1 \in Int /\ Len(line) - 1 \in Int
      BY <3>1
    <3> QED
      BY <3>2, <3>3, SubSeqProperties
  <2> QED
    BY <1>1, <2>1, <2>2 DEF ReadLastLineOfFile
<1> QED
  BY <1>2, <1>3

-----------------------------------------------------------------------------
(***************************************************************************)
(* The last line that is not blank is what the loop leaves.                *)
(***************************************************************************)

\* The bytes from a to b are a line that is not blank.
IsTextLine(t, a, b) ==
  /\ a \in 1 .. Len(t) /\ b \in a .. Len(t)
  /\ \A k \in a .. b : t[k] # NL
  /\ a = 1 \/ t[a - 1] = NL
  /\ b = Len(t) \/ t[b + 1] = NL

\* The members of TextLines, spelled out.
LEMMA TextLine ==
  ASSUME NEW t \in Seq(Characters), NEW a, NEW b
  PROVE  <<a, b>> \in TextLines(t) <=> IsTextLine(t, a, b)
<1>1. DOMAIN t = 1 .. Len(t) /\ Len(t) \in Nat
  BY LenProperties
<1>2. a \in 1 .. Len(t) => (b \in 1 .. Len(t) /\ a <= b <=> b \in a .. Len(t))
  BY <1>1
<1> QED
  BY <1>1, <1>2 DEF TextLines, IsTextLine

\* After the last of these lines there are newlines only.
LEMMA BlankAfter ==
  ASSUME NEW t, Len(t) \in Nat, NEW a, NEW b, IsTextLine(t, a, b),
         \A c, d : IsTextLine(t, c, d) => c <= a,
         NEW k \in b + 1 .. Len(t)
  PROVE  t[k] = NL
<1> SUFFICES ASSUME t[k] # NL PROVE FALSE
  OBVIOUS
<1>1. a \in Nat /\ b \in Nat /\ 1 <= a /\ a <= b /\ b < k /\ k <= Len(t) /\ k \in Nat
  BY DEF IsTextLine
<1>2. t[b + 1] = NL
  BY <1>1 DEF IsTextLine
<1> DEFINE C == {j \in 0 .. k : b + 1 < j /\ \A i \in j .. k : t[i] # NL}
           D == {j \in 0 .. Len(t) : k <= j /\ \A i \in k .. j : t[i] # NL}
<1>3. k \in C /\ k \in D
  <2>1. \A i \in k .. k : i = k
    BY <1>1
  <2>2. b + 1 # k
    BY <1>2
  <2>3. b + 1 < k
    BY <1>1, <2>2
  <2> QED
    BY <1>1, <2>1, <2>3
<1>4. PICK c \in C : \A y \in C : c <= y
  <2>1. C \in SUBSET (0 .. k)
    OBVIOUS
  <2> HIDE DEF C
  <2> QED
    BY <1>1, <1>3, <2>1, Least
<1>5. PICK d \in D : \A y \in D : d >= y
  <2>1. D \in SUBSET (0 .. Len(t))
    OBVIOUS
  <2> HIDE DEF D
  <2> QED
    BY <1>3, <2>1, Greatest
<1>6. /\ c \in Nat /\ c <= k /\ b + 1 < c
      /\ \A i \in c .. k : t[i] # NL
  BY <1>4
<1>7. /\ d \in Nat /\ k <= d /\ d <= Len(t)
      /\ \A i \in k .. d : t[i] # NL
  BY <1>5
<1>8. t[c - 1] = NL
  <2>1. CASE c - 1 = b + 1
    BY <1>2, <2>1
  <2>2. CASE c - 1 # b + 1
    <3>1. c - 1 \in 0 .. k /\ b + 1 < c - 1
      BY <1>1, <1>6, <2>2
    <3>2. ~(c <= c - 1)
      BY <1>6
    <3>3. c - 1 \notin C
      BY <1>4, <3>2
    <3>4. PICK i \in c - 1 .. k : t[i] = NL
      BY <3>1, <3>3
    <3>5. i \in c .. k \/ i = c - 1
      BY <1>1, <1>6
    <3> QED
      BY <1>6, <3>4, <3>5
  <2> QED
    BY <2>1, <2>2
<1>9. d = Len(t) \/ t[d + 1] = NL
  <2> SUFFICES ASSUME d # Len(t) PROVE t[d + 1] = NL
    OBVIOUS
  <2>1. d + 1 \in 0 .. Len(t) /\ k <= d + 1
    BY <1>1, <1>7
  <2>2. ~(d >= d + 1)
    BY <1>7
  <2>3. d + 1 \notin D
    BY <1>5, <2>2
  <2>4. PICK i \in k .. d + 1 : t[i] = NL
    BY <2>1, <2>3
  <2>5. i \in k .. d \/ i = d + 1
    BY <1>1, <1>7
  <2> QED
    BY <1>7, <2>4, <2>5
<1>10. \A i \in c .. d : t[i] # NL
  <2> TAKE i \in c .. d
  <2>1. i \in c .. k \/ i \in k .. d
    BY <1>1, <1>6, <1>7
  <2> QED
    BY <1>6, <1>7, <2>1
<1>11. c \in 1 .. Len(t) /\ d \in c .. Len(t)
  BY <1>1, <1>6, <1>7
<1>12. IsTextLine(t, c, d)
  BY <1>8, <1>9, <1>10, <1>11 DEF IsTextLine
<1>13. c <= a
  BY <1>12
<1> QED
  BY <1>1, <1>6, <1>13

\* Lines that are blank leave nothing.
LEMMA BlankTail ==
  ASSUME NEW t, Len(t) \in Nat, NEW g, Loop(g, t), NEW e \in 1 .. Len(t) + 1,
         \A k \in e .. Len(t) : t[k] = NL
  PROVE  g[e] = Uninitialised
<1>1. PICK n \in Nat : n = Len(t) + 1 - e
  OBVIOUS
<1> DEFINE S == {k \in 0 .. n : g[Len(t) + 1 - k] = Uninitialised}
<1>2. 0 \in S
  <2>1. Len(t) + 1 - 0 = Len(t) + 1
    OBVIOUS
  <2> QED
    BY <2>1 DEF Loop
<1>3. ASSUME NEW k \in 0 .. n, k < n, k \in S
      PROVE  k + 1 \in S
  <2>1. PICK i : i = Len(t) - k
    OBVIOUS
  <2>2. /\ i \in 1 .. Len(t) /\ i \in e .. Len(t) /\ k + 1 \in 0 .. n
        /\ Len(t) + 1 - (k + 1) = i /\ Len(t) + 1 - k = i + 1
    <3>1. k \in Nat /\ k < n /\ e \in Nat /\ e >= 1
      BY <1>3
    <3> HIDE DEF S
    <3> QED
      BY <1>1, <2>1, <3>1
  <2>3. t[i] = NL
    BY <2>2
  <2>4. LineEnd(t, i) = i
    <3>1. EndsAt(t, i, LineEnd(t, i))
      BY <2>2, LineEnds
    <3>2. i \in i .. Len(t)
      BY <2>2
    <3>3. LineEnd(t, i) \in i .. Len(t) /\ LineEnd(t, i) <= i
      BY <2>3, <3>1, <3>2 DEF EndsAt
    <3> QED
      BY <2>2, <3>3
  <2>5. g[i] = AfterLine(t, i, g[i + 1])
    BY <2>2, <2>4 DEF Loop
  <2>6. g[i] = g[i + 1]
    BY <2>3, <2>5 DEF AfterLine, Blank
  <2> QED
    BY <1>3, <2>2, <2>6
<1>4. n \in S
  <2> HIDE DEF S
  <2> QED
    BY <1>2, <1>3, Climb
<1>5. Len(t) + 1 - n = e
  BY <1>1
<1> QED
  BY <1>4, <1>5

\* fgets() takes a short line as a whole, with its newline if there is room.
LEMMA ShortLine ==
  ASSUME NEW t, Len(t) \in Nat, NEW a, NEW b, IsTextLine(t, a, b),
         b - a + 1 < LineBuffer
  PROVE  /\ LineEnd(t, a) \in a .. Len(t)
         /\ \/ LineEnd(t, a) = b
            \/ LineEnd(t, a) = b + 1 /\ t[b + 1] = NL
<1>1. PICK e : e = LineEnd(t, a)
  OBVIOUS
<1>2. a \in 1 .. Len(t)
  BY DEF IsTextLine
<1>3. EndsAt(t, a, e)
  BY <1>1, <1>2, LineEnds
<1>4. LineBuffer \in Nat
  BY SizesAssumption DEF SizesAssumption
<1>5. a \in Nat /\ b \in Nat /\ 1 <= a /\ a <= b /\ b <= Len(t)
  BY DEF IsTextLine
<1>6. e \in Nat /\ a <= e /\ e <= Len(t)
  BY <1>3, <1>5 DEF EndsAt
<1>7. e >= b
  <2> SUFFICES ASSUME e < b PROVE FALSE
    BY <1>5, <1>6
  <2>1. e # Len(t) /\ e # a + LineBuffer - 2
    BY <1>4, <1>5, <1>6
  <2>2. t[e] = NL
    BY <1>3, <2>1 DEF EndsAt
  <2>3. e \in a .. b
    BY <1>5, <1>6
  <2> QED
    BY <2>2, <2>3 DEF IsTextLine
<1>8. CASE b = Len(t)
  BY <1>1, <1>5, <1>6, <1>7, <1>8
<1>9. CASE b # Len(t)
  <2>1. t[b + 1] = NL /\ b + 1 \in a .. Len(t)
    BY <1>5, <1>9 DEF IsTextLine
  <2>2. e <= b + 1
    BY <1>3, <2>1 DEF EndsAt
  <2>3. e = b \/ e = b + 1
    BY <1>5, <1>6, <1>7, <2>2
  <2> QED
    BY <1>1, <1>5, <1>6, <2>1, <2>3
<1> QED
  BY <1>8, <1>9

\* A line is reached by fgets() where it begins, and what it leaves stays.
LEMMA LineReached ==
  ASSUME NEW t, Len(t) \in Nat, NEW g, Loop(g, t),
         NEW a, NEW b, IsTextLine(t, a, b), g[a] # Uninitialised
  PROVE  g[1] = g[a]
<1>0. a \in 1 .. Len(t)
  BY DEF IsTextLine
<1>1. PICK n \in Nat : n = a - 1
  BY <1>0
<1> DEFINE S == {k \in 0 .. n : \A i \in a - k .. a : g[i] = g[a]}
<1>2. 0 \in S
  <2>1. \A i \in a - 0 .. a : i = a
    BY <1>0
  <2> QED
    BY <2>1
<1>3. ASSUME NEW k \in 0 .. n, k < n, k \in S
      PROVE  k + 1 \in S
  <2>1. PICK h : h = a - k - 1
    OBVIOUS
  <2>2. /\ h \in 1 .. Len(t) /\ h <= a - 1 /\ a - k = h + 1 /\ a - (k + 1) = h
        /\ k + 1 \in 0 .. n /\ a # 1
        /\ a - 1 \in h .. Len(t)
    <3>1. k \in Nat /\ k < n /\ a \in Nat /\ a <= Len(t)
      BY <1>0, <1>3
    <3> HIDE DEF S
    <3> QED
      BY <1>1, <2>1, <3>1
  <2>3. \A i \in h + 1 .. a : g[i] = g[a]
    BY <1>3, <2>2
  <2>4. t[a - 1] = NL
    BY <2>2 DEF IsTextLine
  <2>5. LineEnd(t, h) + 1 \in h + 1 .. a
    <3>1. EndsAt(t, h, LineEnd(t, h))
      BY <2>2, LineEnds
    <3>2. LineEnd(t, h) \in h .. Len(t) /\ LineEnd(t, h) <= a - 1
      BY <2>2, <2>4, <3>1 DEF EndsAt
    <3> QED
      BY <1>0, <2>2, <3>2
  <2>6. g[h] = AfterLine(t, h, g[LineEnd(t, h) + 1])
    BY <2>2 DEF Loop
  <2>7. g[h] = g[a]
    BY <2>3, <2>5, <2>6 DEF AfterLine
  <2>8. \A i \in h .. a : i = h \/ i \in h + 1 .. a
    BY <1>0, <2>2
  <2>9. \A i \in a - (k + 1) .. a : g[i] = g[a]
    BY <2>2, <2>3, <2>7, <2>8
  <2> QED
    BY <2>2, <2>9
<1>4. n \in S
  <2> HIDE DEF S
  <2> QED
    BY <1>2, <1>3, Climb
<1>5. 1 \in a - n .. a
  BY <1>0, <1>1
<1> QED
  BY <1>4, <1>5

\* _readLastLineOfFile() returns the last line that is not blank, without its
\* newline, if it is shorter than the line buffer.
LEMMA LastLine ==
  ASSUME NEW t \in Seq(Characters), NEW a, NEW b, IsTextLine(t, a, b),
         \A c, d : IsTextLine(t, c, d) => c <= a,
         b - a + 1 < LineBuffer
  PROVE  ReadLastLineOfFile(t) = SubSeq(t, a, b)
<1>1. Len(t) \in Nat
  BY LenProperties
<1>2. PICK g : Loop(g, t) /\ LastRead(t) = g[1]
  BY <1>1, LastReadLoop
<1>3. PICK e : e = LineEnd(t, a)
  OBVIOUS
<1>4. e \in a .. Len(t) /\ (e = b \/ (e = b + 1 /\ t[b + 1] = NL))
  BY <1>1, <1>3, ShortLine
<1>5. /\ a \in 1 .. Len(t) /\ b \in a .. Len(t) /\ a \in Nat /\ b \in Nat
      /\ t[a] # NL /\ t[b] # NL
  <2>1. a \in 1 .. Len(t) /\ b \in a .. Len(t)
    BY DEF IsTextLine
  <2>2. a \in a .. b /\ b \in a .. b
    BY <1>1, <2>1
  <2> QED
    BY <1>1, <2>1, <2>2 DEF IsTextLine
<1>6. g[e + 1] = Uninitialised
  <2>1. e + 1 \in 1 .. Len(t) + 1
    BY <1>1, <1>4, <1>5
  <2>2. ASSUME NEW k \in e + 1 .. Len(t) PROVE t[k] = NL
    <3>1. k \in b + 1 .. Len(t)
      BY <1>1, <1>4, <1>5
    <3> QED
      BY <1>1, <3>1, BlankAfter
  <2> QED
    BY <1>1, <1>2, <2>1, <2>2, BlankTail
<1>7. PICK line : line = SubSeq(t, a, e)
  OBVIOUS
<1>8. g[a] = line
  <2>1. g[a] = AfterLine(t, a, g[e + 1])
    BY <1>2, <1>3, <1>5 DEF Loop
  <2> QED
    BY <1>3, <1>5, <1>6, <1>7, <2>1 DEF AfterLine, Blank
<1>9. /\ line \in Seq(Characters) /\ Len(line) = e - a + 1
      /\ \A i \in 1 .. e - a + 1 : line[i] = t[a + i - 1]
  BY <1>4, <1>5, <1>7, LineType
<1>10. line # Uninitialised
  <2>1. 1 \in 1 .. e - a + 1 /\ a + 1 - 1 = a
    BY <1>1, <1>4, <1>5
  <2>2. line[1] = t[a]
    BY <1>9, <2>1
  <2>3. t[a] \in Characters
    BY <1>5, ElementOfSeq
  <2>4. line[1] # "any bytes"
    BY <2>2, <2>3, ContentsAssumption DEF ContentsAssumption
  <2>5. Uninitialised[1] = "any bytes"
    BY DEF Uninitialised
  <2> QED
    BY <2>4, <2>5
<1>11. LastRead(t) = line
  BY <1>1, <1>2, <1>8, <1>10, LineReached
<1>12. line[Len(line)] = t[e]
  <2>1. e - a + 1 \in 1 .. e - a + 1 /\ a + (e - a + 1) - 1 = e
    BY <1>1, <1>4, <1>5
  <2> QED
    BY <1>9, <2>1
<1>13. CASE e = b
  <2>1. ReadLastLineOfFile(t) = line
    BY <1>5, <1>11, <1>12, <1>13 DEF ReadLastLineOfFile
  <2> QED
    BY <1>7, <1>13, <2>1
<1>14. CASE e = b + 1 /\ t[b + 1] = NL
  <2>1. ReadLastLineOfFile(t) = SubSeq(line, 1, Len(line) - 1)
    BY <1>10, <1>11, <1>12, <1>14 DEF ReadLastLineOfFile
  <2>2. PICK l : l = b - a + 1
    OBVIOUS
  <2>3. /\ l \in Nat /\ l >= 1 /\ Len(line) = l + 1 /\ Len(line) - 1 = l
        /\ 1 \in 1 .. Len(line) /\ l \in 1 .. Len(line)
        /\ e - a + 1 = l + 1
    BY <1>1, <1>4, <1>5, <1>9, <1>14, <2>2
  <2>4. /\ SubSeq(line, 1, l) \in Seq(Characters)
        /\ Len(SubSeq(line, 1, l)) = l - 1 + 1
        /\ \A i \in 1 .. l - 1 + 1 : SubSeq(line, 1, l)[i] = line[1 + i - 1]
    BY <1>9, <2>3, LineType
  <2>5. /\ SubSeq(t, a, b) \in Seq(Characters)
        /\ Len(SubSeq(t, a, b)) = b - a + 1
        /\ \A i \in 1 .. b - a + 1 : SubSeq(t, a, b)[i] = t[a + i - 1]
    BY <1>5, LineType
  <2>6. ASSUME NEW i \in 1 .. l PROVE SubSeq(line, 1, l)[i] = SubSeq(t, a, b)[i]
    <3>1. i \in 1 .. l - 1 + 1 /\ 1 + i - 1 = i /\ i \in 1 .. b - a + 1
          /\ i \in 1 .. e - a + 1
      BY <2>2, <2>3
    <3> QED
      BY <1>9, <2>4, <2>5, <3>1
  <2>7. Len(SubSeq(line, 1, l)) = l /\ Len(SubSeq(t, a, b)) = l
    BY <2>2, <2>3, <2>4, <2>5
  <2>8. SubSeq(line, 1, l) = SubSeq(t, a, b)
    BY <2>4, <2>5, <2>6, <2>7, SeqEqual
  <2> QED
    BY <2>1, <2>3, <2>8
<1> QED
  BY <1>4, <1>13, <1>14

-----------------------------------------------------------------------------
(***************************************************************************)
(* What was written last is the last line.                                 *)
(***************************************************************************)

\* r ends with a newline or is empty.
Ended(r) == r = <<>> \/ r[Len(r)] = NL

\* t is the bytes of a file r after c has been written to it.
IsWritten(t, r, c) ==
  /\ t \in Seq(Characters)
  /\ Len(r) \in Nat /\ Len(c) \in Nat /\ Len(t) = Len(r) + Len(c) + 1
  /\ \A i \in 1 .. Len(r) : t[i] = r[i]
  /\ \A i \in 1 .. Len(c) : t[Len(r) + i] = c[i]
  /\ t[Len(t)] = NL

\* WriteToFile() leaves the text as it is and adds a line.
LEMMA WrittenBytes ==
  ASSUME NEW r \in Seq(Characters), NEW c \in Seq(Characters \ {NL}),
         NEW t, t = WriteToFile(r, c)
  PROVE  IsWritten(t, r, c)
<1>1. NL \in Characters
  BY ContentsAssumption DEF ContentsAssumption
<1>2. c \in Seq(Characters)
  BY SeqMonotonic
<1>3. Len(r) \in Nat /\ Len(c) \in Nat
  BY LenProperties
<1>4. PICK u : u = r \o c
  OBVIOUS
<1>5. PICK n : n = <<NL>>
  OBVIOUS
<1>6. n \in Seq(Characters) /\ Len(n) = 1 /\ n[1] = NL
  BY <1>1, <1>5
<1>7. /\ u \in Seq(Characters) /\ Len(u) = Len(r) + Len(c)
      /\ \A i \in 1 .. Len(r) + Len(c) :
           u[i] = IF i <= Len(r) THEN r[i] ELSE c[i - Len(r)]
  BY <1>2, <1>4, ConcatProperties
<1>8. t = u \o n
  BY <1>4, <1>5 DEF WriteToFile
<1>9. /\ t \in Seq(Characters) /\ Len(t) = Len(u) + Len(n)
      /\ \A i \in 1 .. Len(u) + Len(n) :
           t[i] = IF i <= Len(u) THEN u[i] ELSE n[i - Len(u)]
  <2>1. u \in Seq(Characters) /\ n \in Seq(Characters)
    BY <1>6, <1>7
  <2>2. /\ u \o n \in Seq(Characters) /\ Len(u \o n) = Len(u) + Len(n)
        /\ \A i \in 1 .. Len(u) + Len(n) :
             (u \o n)[i] = IF i <= Len(u) THEN u[i] ELSE n[i - Len(u)]
    BY <2>1, ConcatProperties
  <2> QED
    BY <1>8, <2>2
<1>10. Len(t) = Len(r) + Len(c) + 1
  BY <1>6, <1>7, <1>9
<1>11. ASSUME NEW i \in 1 .. Len(r) PROVE t[i] = r[i]
  <2>1. i \in 1 .. Len(u) + Len(n) /\ i <= Len(u) /\ i \in 1 .. Len(r) + Len(c) /\ i <= Len(r)
    BY <1>3, <1>6, <1>7
  <2> QED
    BY <1>7, <1>9, <2>1
<1>12. ASSUME NEW i \in 1 .. Len(c) PROVE t[Len(r) + i] = c[i]
  <2>1. PICK k : k = Len(r) + i
    OBVIOUS
  <2>2. /\ k \in 1 .. Len(u) + Len(n) /\ k <= Len(u)
        /\ k \in 1 .. Len(r) + Len(c) /\ ~(k <= Len(r)) /\ k - Len(r) = i
    BY <1>3, <1>6, <1>7, <2>1
  <2> QED
    BY <1>7, <1>9, <2>1, <2>2
<1>13. t[Len(t)] = NL
  <2>1. PICK k : k = Len(t)
    OBVIOUS
  <2>2. k \in 1 .. Len(u) + Len(n) /\ ~(k <= Len(u)) /\ k - Len(u) = 1
    BY <1>3, <1>6, <1>7, <1>9, <2>1
  <2> QED
    BY <1>6, <1>9, <2>1, <2>2
<1> QED
  BY <1>3, <1>9, <1>10, <1>11, <1>12, <1>13 DEF IsWritten

\* What _writeToFile() has appended to a file that ended with a newline, and is not
\* blank and shorter than the line buffer, _readLastLineOfFile() returns.
LEMMA WrittenIsRead ==
  ASSUME NEW r \in Seq(Characters), NEW c \in Seq(Characters \ {NL}), Ended(r),
         Len(c) \in 1 .. LineBuffer - 1
  PROVE  ReadLastLineOfFile(WriteToFile(r, c)) = c
<1>1. PICK t : t = WriteToFile(r, c)
  OBVIOUS
<1>2. /\ t \in Seq(Characters)
      /\ Len(r) \in Nat /\ Len(c) \in Nat /\ Len(t) = Len(r) + Len(c) + 1
      /\ \A i \in 1 .. Len(r) : t[i] = r[i]
      /\ \A i \in 1 .. Len(c) : t[Len(r) + i] = c[i]
      /\ t[Len(t)] = NL
  <2>1. IsWritten(t, r, c)
    BY <1>1, WrittenBytes
  <2> QED
    BY <2>1 DEF IsWritten
<1>3. PICK a : a = Len(r) + 1
  OBVIOUS
<1>4. PICK b : b = Len(r) + Len(c)
  OBVIOUS
<1>5. LineBuffer \in Nat /\ Len(c) >= 1 /\ Len(c) < LineBuffer
  <2>1. LineBuffer \in Nat
    BY SizesAssumption DEF SizesAssumption
  <2> QED
    BY <1>2, <2>1
<1>6. /\ a \in 1 .. Len(t) /\ b \in a .. Len(t) /\ b + 1 = Len(t)
      /\ b - a + 1 = Len(c) /\ a - 1 = Len(r) /\ a \in Nat /\ b \in Nat
  BY <1>2, <1>3, <1>4, <1>5
<1>7. ASSUME NEW k \in a .. b PROVE t[k] # NL /\ t[k] = c[k - Len(r)]
  <2>1. PICK i : i = k - Len(r)
    OBVIOUS
  <2>2. i \in 1 .. Len(c) /\ Len(r) + i = k
    BY <1>2, <1>3, <1>4, <2>1
  <2>3. t[k] = c[i]
    BY <1>2, <2>2
  <2>4. c[i] \in Characters \ {NL}
    BY <2>2, ElementOfSeq
  <2> QED
    BY <2>1, <2>3, <2>4
<1>8. a = 1 \/ t[a - 1] = NL
  <2>1. CASE r = <<>>
    BY <1>3, <2>1, EmptySeq
  <2>2. CASE r # <<>>
    <3>1. Len(r) \in 1 .. Len(r)
      BY <1>2, <2>2, EmptySeq
    <3>2. t[Len(r)] = r[Len(r)]
      BY <1>2, <3>1
    <3> QED
      BY <1>6, <2>2, <3>2 DEF Ended
  <2> QED
    BY <2>1, <2>2
<1>9. IsTextLine(t, a, b)
  BY <1>2, <1>6, <1>7, <1>8 DEF IsTextLine
<1>10. ASSUME NEW e, NEW d, IsTextLine(t, e, d) PROVE e <= a
  <2> SUFFICES ASSUME ~(e <= a) PROVE FALSE
    OBVIOUS
  <2>1. e \in 1 .. Len(t) /\ t[e] # NL /\ t[e - 1] = NL
    <3>1. e \in 1 .. Len(t) /\ d \in e .. Len(t)
      BY <1>10 DEF IsTextLine
    <3>2. e \in e .. d /\ e # 1
      BY <1>2, <1>6, <3>1
    <3> QED
      BY <1>10, <3>1, <3>2 DEF IsTextLine
  <2>2. e # Len(t)
    BY <1>2, <2>1
  <2>3. e - 1 \in a .. b
    BY <1>2, <1>6, <2>1, <2>2
  <2> QED
    BY <1>7, <2>1, <2>3
<1>11. b - a + 1 < LineBuffer
  BY <1>5, <1>6
<1>12. ReadLastLineOfFile(t) = SubSeq(t, a, b)
  BY <1>2, <1>9, <1>10, <1>11, LastLine
<1>13. SubSeq(t, a, b) = c
  <2>1. /\ SubSeq(t, a, b) \in Seq(Characters)
        /\ Len(SubSeq(t, a, b)) = b - a + 1
        /\ \A i \in 1 .. b - a + 1 : SubSeq(t, a, b)[i] = t[a + i - 1]
    BY <1>2, <1>6, LineType
  <2>2. ASSUME NEW i \in 1 .. Len(c) PROVE SubSeq(t, a, b)[i] = c[i]
    <3>1. i \in 1 .. b - a + 1 /\ a + i - 1 = Len(r) + i
      BY <1>2, <1>3, <1>6
    <3> QED
      BY <1>2, <2>1, <3>1
  <2>3. c \in Seq(Characters)
    BY SeqMonotonic
  <2>4. Len(SubSeq(t, a, b)) = Len(c)
    BY <1>6, <2>1
  <2> QED
    BY <2>1, <2>2, <2>3, <2>4, SeqEqual
<1> QED
  BY <1>1, <1>12, <1>13

-----------------------------------------------------------------------------
(***************************************************************************)
(* The file.                                                               *)
(***************************************************************************)

\* An answer is the last line of the file as it is, and once the file ends with
\* a newline, it ends with what was written.
TextInv ==
  /\ file \in Seq(Characters)
  /\ answer \in {NoLine, Uninitialised} \union Seq(Characters)
  /\ written \in {NoLine} \union Contents
  /\ answer # NoLine => answer = ReadLastLineOfFile(file)
  /\ written # NoLine =>
       \E r \in Seq(Characters) : Ended(r) /\ file = WriteToFile(r, written)

\* What is written has no newline and is not the answer for no line.
LEMMA ContentsType ==
  ASSUME NEW c \in Contents
  PROVE  c \in Seq(Characters \ {NL}) /\ c # NoLine
<1>1. c \in Seq(Characters \ {NL})
  BY ContentsAssumption DEF ContentsAssumption
<1>2. ASSUME c = NoLine PROVE FALSE
  <2>1. Len(c) = 1 /\ c[1] = "none"
    BY <1>2 DEF NoLine
  <2>2. 1 \in 1 .. Len(c)
    BY <2>1
  <2>3. c[1] \in Characters \ {NL}
    BY <1>1, <2>2, ElementOfSeq
  <2> QED
    BY <2>1, <2>3, ContentsAssumption DEF ContentsAssumption
<1> QED
  BY <1>1, <1>2

\* At first the answers are there to no READ.
LEMMA TextInit == Init => TextInv
BY ContentsAssumption DEF Init, TextInv, ContentsAssumption

\* Every step keeps answers the last line of the file.
LEMMA TextNext ==
  ASSUME SInv, TextInv, [Next]_vars
  PROVE  TextInv'
<1>1. CASE UNCHANGED text
  BY <1>1 DEF text, TextInv
<1>2. CASE HandleReadRequest
  <2>1. UNCHANGED <<file, written>> /\ answer' = ReadLastLineOfFile(file)
    BY <1>2 DEF HandleReadRequest
  <2>2. answer' \in {Uninitialised} \union Seq(Characters)
    BY <2>1, LastLineType DEF TextInv
  <2> QED
    BY <2>1, <2>2 DEF TextInv
<1>3. CASE HandleWriteRequest
  <2>1. PICK c : c = sent[handled + 1].content
    OBVIOUS
  <2>2. /\ handled < parsed /\ sent[handled + 1].type = "WRITE"
        /\ file' = WriteToFile(file, c)
        /\ answer' = NoLine
        /\ written' = IF written # NoLine \/ file = <<>> \/ file[Len(file)] = NL
                      THEN c ELSE NoLine
    BY <1>3, <2>1 DEF HandleWriteRequest, Handle
  <2>3. c \in Contents
    <3>1. StreamTypes
      BY DEF SInv
    <3>2. Len(sent) \in Nat /\ handled \in Nat /\ parsed \in Nat /\ parsed <= Len(sent)
      BY <3>1, TotalType DEF StreamTypes
    <3>3. handled + 1 \in 1 .. Len(sent)
      BY <2>2, <3>2
    <3>4. sent[handled + 1] \in Packets
      BY <3>1, <3>3, ElementOfSeq DEF StreamTypes
    <3> QED
      BY <2>1, <2>2, <3>4 DEF Packets
  <2>4. c \in Seq(Characters \ {NL}) /\ c # NoLine
    BY <2>3, ContentsType
  <2>5. file \in Seq(Characters)
    BY DEF TextInv
  <2>6. file' \in Seq(Characters)
    BY <2>2, <2>4, <2>5, WrittenBytes DEF IsWritten
  <2>7. written # NoLine => Ended(file)
    <3> SUFFICES ASSUME written # NoLine PROVE Ended(file)
      OBVIOUS
    <3>1. PICK r \in Seq(Characters) : file = WriteToFile(r, written)
      BY DEF TextInv
    <3>2. written \in Seq(Characters \ {NL})
      BY ContentsType DEF TextInv
    <3> QED
      BY <3>1, <3>2, WrittenBytes DEF Ended, IsWritten
  <2>8. written' # NoLine => Ended(file) /\ written' = c
    BY <2>2, <2>7 DEF Ended
  <2>9. written' \in {NoLine} \union Contents
    BY <2>2, <2>3
  <2> QED
    BY <2>2, <2>5, <2>6, <2>8, <2>9 DEF TextInv
<1> QED
  BY <1>1, <1>2, <1>3
     DEF Next, Client, ServerThread, SendMessageToServer, ReceiveReply, Deliver,
         Read, vars

\* For packets, buffers and files of any size every variable keeps its type:
\* in particular a packet is split off from what has been read, once
\* (server.cpp 172-198), and _readLastLineOfFile() stays in the file.
THEOREM TypeCorrect == Spec => []TypeOK
<1>1. SInv /\ TextInv => TypeOK
  BY DEF SInv, StreamTypes, TextInv, TypeOK
<1>2. SInv /\ TextInv /\ [Next]_vars => SInv' /\ TextInv'
  BY StreamNext, TextNext
<1> QED
  BY <1>1, <1>2, StreamInit, TextInit, PTL DEF Spec

\* _readLastLineOfFile() finds the last line that is not blank, and what
\* _writeToFile() has written comes back as it was, for any file and any
\* lines that the line buffer holds.  (utils.cpp 66-83 and 102-112)
THEOREM LastLineRead == Spec => []ReadsLastLine
<1>1. TextInv => ReadsLastLine
  <2> SUFFICES ASSUME TextInv, answer # NoLine
               PROVE  /\ \A l \in TextLines(file) :
                           IsLast(l, file) /\ l[2] - l[1] + 1 < LineBuffer
                             => answer = SubSeq(file, l[1], l[2])
                      /\ written # NoLine /\ Len(written) \in 1 .. LineBuffer - 1
                           => answer = written
    BY DEF ReadsLastLine
  <2>1. answer = ReadLastLineOfFile(file) /\ file \in Seq(Characters)
    BY DEF TextInv
  <2>2. ASSUME NEW l \in TextLines(file), IsLast(l, file),
               l[2] - l[1] + 1 < LineBuffer
        PROVE  answer = SubSeq(file, l[1], l[2])
    <3>1. l = <<l[1], l[2]>>
      BY <2>2 DEF TextLines
    <3>2. IsTextLine(file, l[1], l[2])
      BY <2>1, <2>2, <3>1, TextLine
    <3>3. ASSUME NEW c, NEW d, IsTextLine(file, c, d) PROVE c <= l[1]
      <4>1. <<c, d>> \in TextLines(file)
        BY <2>1, <3>3, TextLine
      <4>2. <<c, d>>[1] <= l[1]
        BY <2>2, <4>1 DEF IsLast
      <4> QED
        BY <4>2
    <3> QED
      BY <2>1, <2>2, <3>2, <3>3, LastLine
  <2>3. ASSUME written # NoLine, Len(written) \in 1 .. LineBuffer - 1
        PROVE  answer = written
    <3>1. PICK r \in Seq(Characters) : Ended(r) /\ file = WriteToFile(r, written)
      BY <2>3 DEF TextInv
    <3>2. written \in Seq(Characters \ {NL})
      BY <2>3, ContentsType DEF TextInv
    <3> QED
      BY <2>1, <2>3, <3>1, <3>2, WrittenIsRead
  <2> QED
    BY <2>2, <2>3
<1>2. SInv /\ TextInv /\ [Next]_vars => SInv' /\ TextInv'
  BY StreamNext, TextNext
<1> QED
  BY <1>1, <1>2, StreamInit, TextInit, PTL DEF Spec

=============================================================================
