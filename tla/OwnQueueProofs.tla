--------------------------- MODULE OwnQueueProofs ---------------------------
(***************************************************************************)
(* Proofs about OwnQueue, for any number of files and any size of the      *)
(* queue: what the heap of a client's own messages does to their order;    *)
(* what the requester and the arbiter of one client can have under way     *)
(* between them; and, from that, the types and the room the queue needs.   *)
(***************************************************************************)
EXTENDS OwnQueue, StreamLemmas

-----------------------------------------------------------------------------
(***************************************************************************)
(* The paths in the heap.                                                  *)
(***************************************************************************)

\* What path of PathUp is, up to the place n: g goes from each place to its
\* parent as long as that comes after v.
Rises(g, q, v, n) ==
  g = [h \in 1 .. n |->
         IF h > 1 /\ After(q[h \div 2], v) THEN <<h>> \o g[h \div 2]
         ELSE <<h>>]

\* The recursive function that goes up from each place is there for every n.
LEMMA RisesExists ==
  ASSUME NEW q, NEW v, NEW n \in Nat
  PROVE  \E g : Rises(g, q, v, n)
<1> DEFINE S == {k \in 0 .. n : \E g : Rises(g, q, v, k)}
<1>1. 0 \in S
  <2> DEFINE g == [h \in 1 .. 0 |-> <<h>>]
  <2>1. Rises(g, q, v, 0)
    BY DEF Rises
  <2> QED
    BY <2>1
<1>2. ASSUME NEW k \in 0 .. n, k < n, k \in S
      PROVE  k + 1 \in S
  <2>1. PICK g : Rises(g, q, v, k)
    BY <1>2
  <2> DEFINE step(h) == IF h > 1 /\ After(q[h \div 2], v)
                        THEN <<h>> \o g[h \div 2] ELSE <<h>>
             e == [h \in 1 .. k + 1 |-> step(h)]
  <2>2. ASSUME NEW h \in 1 .. k PROVE e[h] = g[h]
    <3>1. h \in 1 .. k + 1
      BY <2>2
    <3>2. g[h] = step(h)
      BY <2>1, <2>2 DEF Rises
    <3> QED
      BY <3>1, <3>2
  <2>3. ASSUME NEW h \in 1 .. k + 1, h > 1 PROVE h \div 2 \in 1 .. k
    BY <2>3
  <2>4. Rises(e, q, v, k + 1)
    <3>1. ASSUME NEW h \in 1 .. k + 1
          PROVE  step(h) = IF h > 1 /\ After(q[h \div 2], v)
                           THEN <<h>> \o e[h \div 2] ELSE <<h>>
      <4> HIDE DEF e
      <4> QED
        BY <2>2, <2>3
    <3> QED
      BY <3>1 DEF Rises
  <2>5. k + 1 \in 0 .. n
    BY <1>2
  <2> QED
    BY <2>4, <2>5
<1>3. n \in S
  <2> HIDE DEF S
  <2> QED
    BY <1>1, <1>2, Climb
<1> QED
  BY <1>3

\* PathUp goes to the parent as long as that comes after v.
LEMMA PathUpStep ==
  ASSUME NEW q, Len(q) \in Nat, NEW v, NEW i \in 1 .. Len(q)
  PROVE  \E g : /\ Rises(g, q, v, Len(q))
                /\ \A h \in 1 .. Len(q) : PathUp(q, h, v) = g[h]
<1> DEFINE g == CHOOSE x : Rises(x, q, v, Len(q))
<1>1. Rises(g, q, v, Len(q))
  BY RisesExists
<1>2. \A h \in 1 .. Len(q) : PathUp(q, h, v) = g[h]
  BY DEF PathUp, Rises
<1> QED
  BY <1>1, <1>2

\* A path up from h: the others are below the last place, which is h, or what is
\* there comes after v.
IsPathUp(p, q, v, h) ==
  /\ p \in Seq(1 .. h)
  /\ Len(p) >= 1
  /\ \A k \in 1 .. Len(p) - 1 : p[k] > Last(p)
  /\ Last(p) = h \/ After(q[Last(p)], v)

\* A path of one place.
LEMMA OneStep ==
  ASSUME NEW n \in Nat, NEW h \in 1 .. n
  PROVE  /\ <<h>> \in Seq(1 .. n) /\ Len(<<h>>) = 1 /\ Last(<<h>>) = h
         /\ <<h>>[1] = h
BY DEF Last

\* All but the last, and the last.
LEMMA FrontLast ==
  ASSUME NEW M, NEW p \in Seq(M), Len(p) >= 1
  PROVE  /\ Front(p) \in Seq(M)
         /\ Len(Front(p)) = Len(p) - 1
         /\ \A k \in 1 .. Len(p) - 1 : Front(p)[k] = p[k]
         /\ Last(p) \in M
<1>1. Len(p) \in Nat
  BY LenProperties
<1>2. \A k \in 1 .. Len(p) : p[k] \in M
  BY ElementOfSeq
<1> DEFINE m == Len(p) - 1
<1>3. m \in Nat /\ 1 \in Int /\ m \in Int /\ \A k \in 1 .. m : p[k] \in M
  BY <1>1, <1>2
<1> HIDE DEF m
<1>4. /\ SubSeq(p, 1, m) \in Seq(M)
      /\ Len(SubSeq(p, 1, m)) = IF 1 <= m THEN m - 1 + 1 ELSE 0
      /\ \A k \in 1 .. m - 1 + 1 : SubSeq(p, 1, m)[k] = p[1 + k - 1]
  BY <1>3, SubSeqProperties
<1>5. m - 1 + 1 = m /\ \A k \in 1 .. m : 1 + k - 1 = k
  BY <1>3
<1>6. Len(SubSeq(p, 1, m)) = m
  BY <1>3, <1>4
<1>7. Last(p) \in M
  BY <1>1, <1>2 DEF Last
<1> QED
  BY <1>4, <1>5, <1>6, <1>7 DEF Front, m

\* A path with one more place before it.
LEMMA StepBefore ==
  ASSUME NEW n \in Nat, NEW h \in 1 .. n, NEW p \in Seq(1 .. n), Len(p) >= 1
  PROVE  /\ <<h>> \o p \in Seq(1 .. n)
         /\ Len(<<h>> \o p) = Len(p) + 1
         /\ Last(<<h>> \o p) = Last(p)
         /\ \A k \in 1 .. Len(p) : (<<h>> \o p)[k] = IF k = 1 THEN h ELSE p[k - 1]
<1>1. <<h>> \in Seq(1 .. n) /\ Len(<<h>>) = 1 /\ <<h>>[1] = h
  OBVIOUS
<1>2. /\ <<h>> \o p \in Seq(1 .. n)
      /\ Len(<<h>> \o p) = Len(p) + 1
      /\ \A k \in 1 .. Len(p) + 1 :
           (<<h>> \o p)[k] = IF k <= 1 THEN <<h>>[k] ELSE p[k - 1]
  BY <1>1, ConcatProperties, LenProperties
<1>3. Len(p) \in Nat
  BY LenProperties
<1> QED
  BY <1>1, <1>2, <1>3 DEF Last

\* PathUp is such a path, from the empty place i.
LEMMA PathUpType ==
  ASSUME NEW q, Len(q) \in Nat, NEW v, NEW i \in 1 .. Len(q)
  PROVE  IsPathUp(PathUp(q, i, v), q, v, i)
<1> DEFINE n == Len(q)
           S == {k \in 0 .. n : \A h \in 1 .. k : IsPathUp(PathUp(q, h, v), q, v, h)}
<1>1. PICK g : /\ Rises(g, q, v, n)
               /\ \A h \in 1 .. n : PathUp(q, h, v) = g[h]
  BY PathUpStep
<1>2. 0 \in S
  OBVIOUS
<1>3. ASSUME NEW k \in 0 .. n, k < n, k \in S
      PROVE  k + 1 \in S
  <2> DEFINE h == k + 1
             u == h \div 2
  <2>1. k \in Nat /\ h \in 1 .. h /\ h \in 1 .. n /\ 1 .. k + 1 = 1 .. k \union {h}
    BY <1>3
  <2>2. \A j \in 1 .. k : IsPathUp(PathUp(q, j, v), q, v, j)
    BY <1>3
  <2>3. IsPathUp(g[h], q, v, h)
    <3>1. CASE h > 1 /\ After(q[u], v)
      <4>1. u \in 1 .. k /\ u \in 1 .. n /\ u <= h /\ 1 .. u \subseteq 1 .. h
        BY <2>1, <3>1
      <4>2. g[h] = <<h>> \o g[u]
        BY <1>1, <2>1, <3>1 DEF Rises
      <4>3. IsPathUp(g[u], q, v, u)
        BY <1>1, <2>2, <4>1
      <4> HIDE DEF h, u
      <4>4. g[u] \in Seq(1 .. h) /\ Len(g[u]) >= 1
        <5>1. g[u] \in Seq(1 .. u) /\ Len(g[u]) >= 1
          BY <4>3 DEF IsPathUp
        <5> QED
          BY <4>1, <5>1, SeqMonotonic
      <4>5. Len(g[u]) \in Nat
        BY <4>4, LenProperties
      <4>6. /\ g[h] \in Seq(1 .. h)
            /\ Len(g[h]) = Len(g[u]) + 1
            /\ Last(g[h]) = Last(g[u])
            /\ \A j \in 1 .. Len(g[u]) : g[h][j] = IF j = 1 THEN h ELSE g[u][j - 1]
        <5>1. h \in Nat
          BY <2>1
        <5> QED
          BY <2>1, <4>2, <4>4, <5>1, StepBefore
      <4>7. ASSUME NEW j \in 1 .. Len(g[h]) - 1 PROVE g[h][j] > Last(g[h])
        <5>1. j \in 1 .. Len(g[u])
          BY <4>5, <4>6
        <5>2. CASE j = 1
          <6>1. g[u] \in Seq(1 .. u) /\ Len(g[u]) \in 1 .. Len(g[u])
            BY <4>3, <4>4, <4>5 DEF IsPathUp
          <6>2. Last(g[u]) \in 1 .. u
            BY <6>1, ElementOfSeq DEF Last
          <6>3. u < h
            BY <2>1, <3>1 DEF u
          <6>4. g[h][j] = h /\ u \in Nat /\ h \in Nat
            BY <2>1, <4>1, <4>6, <5>1, <5>2
          <6> QED
            BY <4>6, <6>2, <6>3, <6>4
        <5>3. CASE j # 1
          <6>1. j - 1 \in 1 .. Len(g[u]) - 1
            BY <4>5, <5>1, <5>3
          <6> QED
            BY <4>3, <4>6, <5>1, <5>3, <6>1 DEF IsPathUp
        <5> QED
          BY <5>2, <5>3
      <4>8. Last(g[u]) = u \/ After(q[Last(g[u])], v)
        BY <4>3 DEF IsPathUp
      <4>9. After(q[Last(g[h])], v)
        BY <3>1, <4>6, <4>8
      <4>10. Len(g[h]) >= 1
        BY <4>5, <4>6
      <4> QED
        BY <4>6, <4>7, <4>9, <4>10 DEF IsPathUp
    <3>2. CASE ~(h > 1 /\ After(q[u], v))
      <4>1. g[h] = <<h>>
        BY <1>1, <2>1, <3>2 DEF Rises
      <4> HIDE DEF h
      <4>2. h \in Nat
        BY <2>1
      <4>3. g[h] \in Seq(1 .. h) /\ Len(g[h]) = 1 /\ Last(g[h]) = h
        BY <2>1, <4>1, <4>2, OneStep
      <4>4. Len(g[h]) >= 1 /\ 1 .. Len(g[h]) - 1 = {}
        BY <4>3
      <4> QED
        BY <4>3, <4>4 DEF IsPathUp
    <3> QED
      BY <3>1, <3>2
  <2>4. k + 1 \in 0 .. n
    BY <1>3
  <2> HIDE DEF h
  <2>5. \A j \in 1 .. k + 1 : IsPathUp(PathUp(q, j, v), q, v, j)
    BY <1>1, <2>1, <2>2, <2>3
  <2> QED
    BY <2>4, <2>5
<1>4. n \in S
  <2> HIDE DEF S
  <2> QED
    BY <1>2, <1>3, Climb
<1> QED
  BY <1>4

\* Putting v in place i of q leaves every message in q, but for the one that
\* was in that place; at the top is what was there, or v if that is smaller.
LEMMA SiftUpType ==
  ASSUME NEW M, NEW q \in Seq(M), NEW v \in M, NEW i \in 1 .. Len(q)
  PROVE  LET s == SiftUp(q, i, v) IN
         /\ s \in Seq(M)
         /\ Len(s) = Len(q)
         /\ \A h \in 1 .. Len(q) : s[h] = v \/ \E k \in 1 .. Len(q) : s[h] = q[k]
         /\ i > 1 => s[1] = q[1] \/ (s[1] = v /\ After(q[1], v))
<1> DEFINE p == PathUp(q, i, v)
           s == SiftUp(q, i, v)
           n == Len(q)
<1>1. n \in Nat /\ \A h \in 1 .. n : q[h] \in M
  BY LenProperties, ElementOfSeq
<1>2. /\ p \in Seq(1 .. i)
      /\ Len(p) >= 1
      /\ \A k \in 1 .. Len(p) - 1 : p[k] > Last(p)
      /\ Last(p) = i \/ After(q[Last(p)], v)
  BY <1>1, PathUpType DEF IsPathUp
<1>3. Len(p) \in Nat
  BY <1>2, LenProperties
<1> HIDE DEF p
<1>4. Len(Front(p)) = Len(p) - 1 /\ \A k \in 1 .. Len(p) - 1 : Front(p)[k] = p[k]
  BY <1>2, FrontLast
<1>5. ASSUME NEW h \in 1 .. n, Contains(Front(p), h)
      PROVE  h # Last(p) /\ h > 1 /\ h \div 2 \in 1 .. n
  <2>1. h > Last(p) /\ Last(p) \in 1 .. i
    BY <1>2, <1>4, <1>5, FrontLast DEF Contains
  <2> QED
    BY <1>1, <2>1
<1>6. s = [h \in 1 .. n |-> CASE h = Last(p) -> v
                              [] Contains(Front(p), h) -> q[h \div 2]
                              [] OTHER -> q[h]]
  BY DEF SiftUp, p
<1>7. ASSUME NEW h \in 1 .. n
      PROVE  s[h] = v \/ \E k \in 1 .. n : s[h] = q[k]
  <2> HIDE DEF s
  <2>1. CASE h = Last(p)
    BY <1>5, <1>6, <2>1
  <2>2. CASE h # Last(p) /\ Contains(Front(p), h)
    <3>1. s[h] = q[h \div 2]
      BY <1>6, <2>2
    <3> QED
      BY <1>5, <2>2, <3>1
  <2>3. CASE h # Last(p) /\ ~Contains(Front(p), h)
    <3>1. s[h] = q[h]
      BY <1>6, <2>3
    <3> QED
      BY <3>1
  <2> QED
    BY <2>1, <2>2, <2>3
<1>8. s \in Seq(M) /\ Len(s) = n
  <2>1. \A h \in 1 .. n : s[h] \in M
    BY <1>1, <1>7
  <2>2. DOMAIN s = 1 .. n /\ s = [h \in 1 .. n |-> s[h]]
    BY <1>6
  <2> HIDE DEF s, n
  <2> QED
    BY <1>1, <2>1, <2>2
<1>9. ASSUME i > 1
      PROVE  s[1] = q[1] \/ (s[1] = v /\ After(q[1], v))
  <2>1. 1 \in 1 .. n
    BY <1>1
  <2>2. ~Contains(Front(p), 1)
    BY <1>5, <2>1
  <2>3. CASE Last(p) = 1
    BY <1>2, <1>6, <1>9, <2>1, <2>2, <2>3
  <2>4. CASE Last(p) # 1
    BY <1>6, <2>1, <2>2, <2>4
  <2> QED
    BY <2>3, <2>4
<1> QED
  BY <1>7, <1>8, <1>9

\* What path of PathDown is, from the place l on: g goes from each place to
\* its first child, down to a leaf.
Falls(g, q, l) ==
  g = [h \in l .. Len(q) |->
         IF 2 * h > Len(q) THEN <<h>> ELSE <<h>> \o g[FirstChild(q, h)]]

\* A child is further down.
LEMMA ChildType ==
  ASSUME NEW q, Len(q) \in Nat, NEW h \in 1 .. Len(q), ~(2 * h > Len(q))
  PROVE  FirstChild(q, h) \in h + 1 .. Len(q)
BY DEF FirstChild

\* The recursive function that goes down from each place is there.
LEMMA FallsExists ==
  ASSUME NEW q, Len(q) \in Nat
  PROVE  \E g : Falls(g, q, 1)
<1> DEFINE n == Len(q)
           S == {k \in 0 .. n : \E g : Falls(g, q, n - k + 1)}
<1>1. 0 \in S
  <2> DEFINE g == [h \in n + 1 .. n |-> <<h>>]
  <2>1. Falls(g, q, n + 1)
    BY DEF Falls
  <2>2. n - 0 + 1 = n + 1
    OBVIOUS
  <2>3. \E x : Falls(x, q, n - 0 + 1)
    <3> HIDE DEF g
    <3> QED
      BY <2>1, <2>2
  <2> QED
    BY <2>3
<1>2. ASSUME NEW k \in 0 .. n, k < n, k \in S
      PROVE  k + 1 \in S
  <2> DEFINE l == n - k
  <2>1. PICK g : Falls(g, q, l + 1)
    BY <1>2
  <2>2. l \in 1 .. n /\ n - (k + 1) + 1 = l /\ k + 1 \in 0 .. n /\ l \in Nat
    BY <1>2
  <2> HIDE DEF l
  <2> DEFINE step(h) == IF 2 * h > n THEN <<h>>
                        ELSE <<h>> \o g[FirstChild(q, h)]
             e == [h \in l .. n |-> step(h)]
  <2>3. ASSUME NEW h \in l + 1 .. n PROVE e[h] = g[h]
    <3>1. h \in l .. n
      BY <2>2, <2>3
    <3>2. g[h] = step(h)
      BY <2>1, <2>3 DEF Falls
    <3> QED
      BY <3>1, <3>2
  <2>4. ASSUME NEW h \in l .. n, ~(2 * h > n) PROVE FirstChild(q, h) \in l + 1 .. n
    <3>1. h \in 1 .. n
      BY <2>2
    <3>2. FirstChild(q, h) \in h + 1 .. n
      BY <2>4, <3>1, ChildType
    <3> QED
      BY <2>2, <3>2
  <2>5. Falls(e, q, l)
    <3>1. ASSUME NEW h \in l .. n
          PROVE  step(h) = IF 2 * h > n THEN <<h>>
                           ELSE <<h>> \o e[FirstChild(q, h)]
      <4> HIDE DEF e
      <4> QED
        BY <2>3, <2>4
    <3> QED
      BY <3>1 DEF Falls
  <2> HIDE DEF e
  <2>6. \E x : Falls(x, q, n - (k + 1) + 1)
    BY <2>2, <2>5
  <2> QED
    BY <2>2, <2>6
<1>3. n \in S
  <2> HIDE DEF S
  <2> QED
    BY <1>1, <1>2, Climb
<1>4. n - n + 1 = 1
  OBVIOUS
<1> QED
  BY <1>3, <1>4

\* PathDown is that function at the top of the heap.
LEMMA PathDownStep ==
  ASSUME NEW q, Len(q) \in Nat, 1 <= Len(q)
  PROVE  \E g : Falls(g, q, 1) /\ PathDown(q) = g[1]
<1> DEFINE g == CHOOSE x : Falls(x, q, 1)
<1>1. Falls(g, q, 1)
  BY FallsExists
<1>2. PathDown(q) = g[1]
  BY DEF PathDown, Falls
<1> QED
  BY <1>1, <1>2

\* A path down: all but the last of its places have a child.
IsPathDown(p, q) ==
  /\ p \in Seq(1 .. Len(q))
  /\ Len(p) >= 1
  /\ \A k \in 1 .. Len(p) - 1 : 2 * p[k] <= Len(q)

\* PathDown is such a path.
LEMMA PathDownType ==
  ASSUME NEW q, Len(q) \in Nat, 1 <= Len(q)
  PROVE  IsPathDown(PathDown(q), q)
<1> DEFINE n == Len(q)
<1>1. PICK g : Falls(g, q, 1) /\ PathDown(q) = g[1]
  BY PathDownStep
<1> DEFINE S == {k \in 0 .. n : \A h \in n - k + 1 .. n : IsPathDown(g[h], q)}
<1>2. 0 \in S
  <2>1. n - 0 + 1 .. n = {}
    OBVIOUS
  <2> QED
    BY <2>1
<1>3. ASSUME NEW k \in 0 .. n, k < n, k \in S
      PROVE  k + 1 \in S
  <2> DEFINE l == n - k
  <2>1. /\ l \in 1 .. n /\ l \in Nat /\ n - (k + 1) + 1 = l /\ k + 1 \in 0 .. n
        /\ n - k + 1 = l + 1
        /\ l .. n = {l} \union (l + 1 .. n)
    BY <1>3
  <2>2. \A h \in l + 1 .. n : IsPathDown(g[h], q)
    BY <1>3, <2>1
  <2> HIDE DEF l
  <2>3. IsPathDown(g[l], q)
    <3>1. CASE 2 * l > n
      <4>1. g[l] = <<l>>
        BY <1>1, <2>1, <3>1 DEF Falls
      <4>2. g[l] \in Seq(1 .. n) /\ Len(g[l]) = 1
        BY <2>1, <4>1, OneStep
      <4>3. 1 .. Len(g[l]) - 1 = {} /\ Len(g[l]) >= 1
        BY <4>2
      <4> QED
        BY <4>2, <4>3 DEF IsPathDown
    <3>2. CASE ~(2 * l > n)
      <4> DEFINE c == FirstChild(q, l)
      <4>1. g[l] = <<l>> \o g[c]
        BY <1>1, <2>1, <3>2 DEF Falls
      <4>2. c \in l + 1 .. n
        BY <2>1, <3>2, ChildType
      <4> HIDE DEF c
      <4>3. /\ g[c] \in Seq(1 .. n)
            /\ Len(g[c]) >= 1
            /\ \A j \in 1 .. Len(g[c]) - 1 : 2 * g[c][j] <= n
        BY <2>2, <4>2 DEF IsPathDown
      <4>4. Len(g[c]) \in Nat
        BY <4>3, LenProperties
      <4>5. /\ g[l] \in Seq(1 .. n)
            /\ Len(g[l]) = Len(g[c]) + 1
            /\ \A j \in 1 .. Len(g[c]) : g[l][j] = IF j = 1 THEN l ELSE g[c][j - 1]
        <5>1. n \in Nat /\ l \in 1 .. n
          BY <2>1
        <5>2. g[c] \in Seq(1 .. n) /\ Len(g[c]) >= 1
          BY <4>3
        <5> HIDE DEF n
        <5> QED
          BY <4>1, <5>1, <5>2, StepBefore
      <4>6. ASSUME NEW j \in 1 .. Len(g[l]) - 1 PROVE 2 * g[l][j] <= n
        <5>1. j \in 1 .. Len(g[c])
          BY <4>4, <4>5
        <5>2. CASE j = 1
          <6>1. g[l][j] = l
            BY <4>5, <5>1, <5>2
          <6>2. 2 * l <= n
            BY <2>1, <3>2
          <6> QED
            BY <6>1, <6>2
        <5>3. CASE j # 1
          <6>1. j - 1 \in 1 .. Len(g[c]) - 1
            BY <4>4, <5>1, <5>3
          <6> QED
            BY <4>3, <4>5, <5>1, <5>3, <6>1
        <5> QED
          BY <5>2, <5>3
      <4>7. Len(g[l]) >= 1
        BY <4>4, <4>5
      <4> QED
        BY <4>5, <4>6, <4>7 DEF IsPathDown
    <3> QED
      BY <3>1, <3>2
  <2>4. \A h \in l .. n : IsPathDown(g[h], q)
    BY <2>1, <2>2, <2>3
  <2> QED
    BY <2>1, <2>4
<1>4. n \in S
  <2> HIDE DEF S
  <2> QED
    BY <1>2, <1>3, Climb
<1>5. 1 \in n - n + 1 .. n
  OBVIOUS
<1> QED
  BY <1>1, <1>4, <1>5

\* Pushing m adds it, and no message else changes; the first message stays,
\* unless it comes after m.
LEMMA PushHeapType ==
  ASSUME NEW M, NEW q \in Seq(M), NEW m \in M
  PROVE  LET s == PushHeap(q, m) IN
         /\ s \in Seq(M)
         /\ Len(s) = Len(q) + 1
         /\ \A h \in 1 .. Len(s) : s[h] = m \/ \E k \in 1 .. Len(q) : s[h] = q[k]
         /\ q # <<>> => s[1] = q[1] \/ (s[1] = m /\ After(q[1], m))
<1> DEFINE r == Append(q, m)
           n == Len(q) + 1
<1>1. /\ Len(q) \in Nat
      /\ r \in Seq(M)
      /\ Len(r) = n
      /\ \A k \in 1 .. Len(q) : r[k] = q[k]
      /\ r[n] = m
  BY AppendProperties, LenProperties
<1>2. PushHeap(q, m) = SiftUp(r, n, m)
  BY DEF PushHeap
<1> HIDE DEF r
<1>3. n \in 1 .. Len(r)
  BY <1>1
<1>4. /\ SiftUp(r, n, m) \in Seq(M)
      /\ Len(SiftUp(r, n, m)) = n
      /\ \A h \in 1 .. n : SiftUp(r, n, m)[h] = m
                           \/ \E k \in 1 .. n : SiftUp(r, n, m)[h] = r[k]
      /\ n > 1 => \/ SiftUp(r, n, m)[1] = r[1]
                  \/ SiftUp(r, n, m)[1] = m /\ After(r[1], m)
  BY <1>1, <1>3, SiftUpType
<1>5. ASSUME NEW h \in 1 .. n
      PROVE  \/ SiftUp(r, n, m)[h] = m
             \/ \E k \in 1 .. Len(q) : SiftUp(r, n, m)[h] = q[k]
  <2>1. CASE SiftUp(r, n, m)[h] = m
    BY <2>1
  <2>2. ASSUME NEW k \in 1 .. n, SiftUp(r, n, m)[h] = r[k]
        PROVE  \/ SiftUp(r, n, m)[h] = m
               \/ \E j \in 1 .. Len(q) : SiftUp(r, n, m)[h] = q[j]
    <3>1. k = n \/ k \in 1 .. Len(q)
      BY <1>1
    <3> QED
      BY <1>1, <2>2, <3>1
  <2> QED
    BY <1>4, <2>1, <2>2
<1>6. ASSUME q # <<>>
      PROVE  \/ SiftUp(r, n, m)[1] = q[1]
             \/ SiftUp(r, n, m)[1] = m /\ After(q[1], m)
  <2>1. Len(q) # 0
    BY <1>6, EmptySeq
  <2>2. n > 1 /\ r[1] = q[1]
    BY <1>1, <2>1
  <2> QED
    BY <1>4, <2>2
<1> QED
  BY <1>2, <1>4, <1>5, <1>6

\* Popping removes one message; what remains was there.
LEMMA PopHeapType ==
  ASSUME NEW M, NEW q \in Seq(M), q # <<>>
  PROVE  LET s == PopHeap(q) IN
         /\ s \in Seq(M)
         /\ Len(s) = Len(q) - 1
         /\ \A h \in 1 .. Len(s) : \E k \in 1 .. Len(q) : s[h] = q[k]
<1> DEFINE r == Front(q)
           v == Last(q)
           n == Len(q) - 1
<1>1. Len(q) \in Nat /\ Len(q) >= 1 /\ n \in Nat /\ n + 1 = Len(q)
  BY EmptySeq, LenProperties
<1>2. /\ r \in Seq(M) /\ Len(r) = n /\ v \in M
      /\ \A k \in 1 .. n : r[k] = q[k]
      /\ v = q[Len(q)]
  BY <1>1, FrontLast DEF Last
<1> DEFINE p == PathDown(r)
           moved == [h \in DOMAIN r |-> IF Contains(Front(p), h)
                                        THEN r[FirstChild(r, h)] ELSE r[h]]
<1>3. PopHeap(q) = IF r = <<>> THEN r ELSE SiftUp(moved, Last(p), v)
  BY DEF PopHeap
<1> HIDE DEF r, v
<1>4. CASE r = <<>>
  <2>1. n = 0
    BY <1>2, <1>4, EmptySeq
  <2> QED
    BY <1>2, <1>3, <1>4, <2>1
<1>5. CASE r # <<>>
  <2>1. n >= 1 /\ DOMAIN r = 1 .. n
    BY <1>1, <1>2, <1>5, EmptySeq, LenProperties
  <2>2. /\ p \in Seq(1 .. n)
        /\ Len(p) >= 1
        /\ \A k \in 1 .. Len(p) - 1 : 2 * p[k] <= n
    BY <1>1, <1>2, <2>1, PathDownType DEF IsPathDown
  <2> HIDE DEF p
  <2>3. /\ Len(Front(p)) = Len(p) - 1
        /\ \A k \in 1 .. Len(p) - 1 : Front(p)[k] = p[k]
        /\ Last(p) \in 1 .. n
    BY <2>2, FrontLast
  <2>4. ASSUME NEW h \in 1 .. n
        PROVE  \E k \in 1 .. n : moved[h] = r[k]
    <3>1. CASE Contains(Front(p), h)
      <4>1. 2 * h <= n
        BY <2>2, <2>3, <3>1 DEF Contains
      <4>2. FirstChild(r, h) \in h + 1 .. n
        <5>1. /\ Len(r) = n /\ n \in Nat
              /\ h \in 1 .. Len(r) /\ ~(2 * h > Len(r))
          BY <1>1, <1>2, <4>1
        <5> HIDE DEF n
        <5> QED
          BY <5>1, ChildType
      <4>3. FirstChild(r, h) \in 1 .. n
        BY <1>1, <4>2
      <4>4. moved[h] = r[FirstChild(r, h)]
        BY <2>1, <3>1
      <4> QED
        BY <4>3, <4>4
    <3>2. CASE ~Contains(Front(p), h)
      BY <2>1, <3>2
    <3> QED
      BY <3>1, <3>2
  <2>5. moved \in Seq(M) /\ Len(moved) = n
    <3>1. \A h \in 1 .. n : moved[h] \in M
      <4> HIDE DEF moved
      <4> QED
        BY <1>2, <2>4, ElementOfSeq
    <3>2. DOMAIN moved = 1 .. n /\ moved = [h \in 1 .. n |-> moved[h]]
      BY <2>1
    <3> HIDE DEF moved, n
    <3> QED
      BY <1>1, <3>1, <3>2
  <2> HIDE DEF moved
  <2>6. /\ SiftUp(moved, Last(p), v) \in Seq(M)
        /\ Len(SiftUp(moved, Last(p), v)) = n
        /\ \A h \in 1 .. n : \/ SiftUp(moved, Last(p), v)[h] = v
                             \/ \E k \in 1 .. n :
                                  SiftUp(moved, Last(p), v)[h] = moved[k]
    BY <1>2, <2>3, <2>5, SiftUpType
  <2>7. ASSUME NEW h \in 1 .. n
        PROVE  \E k \in 1 .. Len(q) : SiftUp(moved, Last(p), v)[h] = q[k]
    <3>1. CASE SiftUp(moved, Last(p), v)[h] = v
      BY <1>1, <1>2, <3>1
    <3>2. ASSUME NEW k \in 1 .. n, SiftUp(moved, Last(p), v)[h] = moved[k]
          PROVE  \E j \in 1 .. Len(q) : SiftUp(moved, Last(p), v)[h] = q[j]
      <4>1. PICK j \in 1 .. n : moved[k] = r[j]
        BY <2>4
      <4>2. j \in 1 .. Len(q) /\ r[j] = q[j]
        BY <1>1, <1>2
      <4> QED
        BY <3>2, <4>1, <4>2
    <3> QED
      BY <2>6, <3>1, <3>2
  <2> QED
    BY <1>3, <1>5, <2>6, <2>7
<1> QED
  BY <1>4, <1>5

\* Where v need not go up, it replaces what was in its place.
LEMMA SiftStays ==
  ASSUME NEW M, NEW q \in Seq(M), NEW v \in M, NEW i \in 1 .. Len(q),
         ~(i > 1 /\ After(q[i \div 2], v))
  PROVE  SiftUp(q, i, v) = [q EXCEPT ![i] = v]
<1> DEFINE n == Len(q)
           p == PathUp(q, i, v)
<1>1. n \in Nat /\ q = [h \in 1 .. n |-> q[h]]
  BY LenProperties
<1>2. PICK g : /\ Rises(g, q, v, n)
               /\ \A h \in 1 .. n : PathUp(q, h, v) = g[h]
  <2>1. n \in Nat
    BY <1>1
  <2> QED
    BY <2>1, PathUpStep
<1>3. p = <<i>>
  BY <1>2 DEF Rises
<1> HIDE DEF p
<1>4. Len(p) = 1 /\ Len(p) >= 1 /\ Last(p) = i /\ p \in Seq({i})
  BY <1>3 DEF Last
<1>5. Len(Front(p)) = 0
  <2>1. Len(Front(p)) = Len(p) - 1
    BY <1>4, FrontLast
  <2> QED
    BY <1>4, <2>1
<1>6. \A h : ~Contains(Front(p), h)
  BY <1>5 DEF Contains
<1>7. SiftUp(q, i, v) = [h \in 1 .. n |-> CASE h = Last(p) -> v
                                            [] Contains(Front(p), h) -> q[h \div 2]
                                            [] OTHER -> q[h]]
  BY DEF SiftUp, p
<1>8. ASSUME NEW h \in 1 .. n
      PROVE  SiftUp(q, i, v)[h] = IF h = i THEN v ELSE q[h]
  <2>1. CASE h = i
    BY <1>4, <1>6, <1>7, <2>1
  <2>2. CASE h # i
    BY <1>4, <1>6, <1>7, <2>2
  <2> QED
    BY <2>1, <2>2
<1>9. SiftUp(q, i, v) = [h \in 1 .. n |-> IF h = i THEN v ELSE q[h]]
  <2>1. SiftUp(q, i, v) = [h \in 1 .. n |-> SiftUp(q, i, v)[h]]
    BY <1>7
  <2> HIDE DEF n
  <2> QED
    BY <1>8, <2>1
<1> QED
  BY <1>1, <1>9

\* The messages of q are in the order of their timestamps, as they lie.
InOrder(q) ==
  \A k, l \in 1 .. Len(q) : k < l => q[k].timestamp <= q[l].timestamp

\* A message that comes after none is put at the end.
LEMMA PushLast ==
  ASSUME NEW M, NEW q \in Seq(M), NEW m \in M,
         \A k \in 1 .. Len(q) :
           ~(q[k].timestamp > m.timestamp)
  PROVE  PushHeap(q, m) = Append(q, m)
<1> DEFINE r == Append(q, m)
           n == Len(q) + 1
<1>1. /\ Len(q) \in Nat
      /\ r \in Seq(M)
      /\ Len(r) = n
      /\ \A k \in 1 .. Len(q) : r[k] = q[k]
      /\ r[n] = m
  BY AppendProperties, LenProperties
<1>2. PushHeap(q, m) = SiftUp(r, n, m)
  BY DEF PushHeap
<1> HIDE DEF r
<1>3. n \in 1 .. Len(r)
  BY <1>1
<1>4. ~(n > 1 /\ After(r[n \div 2], m))
  <2>1. CASE n > 1
    <3>1. n \div 2 \in 1 .. Len(q)
      BY <1>1, <2>1
    <3> QED
      BY <1>1, <3>1 DEF After
  <2> QED
    BY <2>1
<1>5. SiftUp(r, n, m) = [r EXCEPT ![n] = m]
  <2>1. r \in Seq(M)
    BY <1>1
  <2> HIDE DEF n
  <2> QED
    BY <1>3, <1>4, <2>1, SiftStays
<1>6. [r EXCEPT ![n] = m] = r
  BY <1>1, <1>3, LenProperties
<1> QED
  BY <1>2, <1>5, <1>6 DEF r

\* From a heap of at most three messages that lie in their order, the first is
\* taken and the others move up.
LEMMA PopFirst ==
  ASSUME NEW M, NEW q \in Seq(M), Len(q) \in 1 .. 3, InOrder(q),
         \A k \in 1 .. Len(q) : q[k].timestamp \in Int
  PROVE  PopHeap(q) = Tail(q)
<1> DEFINE r == Front(q)
           v == Last(q)
           n == Len(q) - 1
           p == PathDown(r)
           moved == [h \in DOMAIN r |-> IF Contains(Front(p), h)
                                        THEN r[FirstChild(r, h)] ELSE r[h]]
<1>1. /\ q # <<>>
      /\ Len(q) >= 1 /\ n \in 0 .. 2
      /\ Tail(q) \in Seq(M) /\ Len(Tail(q)) = n
      /\ \A k \in 1 .. n : Tail(q)[k] = q[k + 1]
  BY EmptySeq, HeadTailProperties
<1>2. /\ r \in Seq(M) /\ Len(r) = n /\ v \in M
      /\ \A k \in 1 .. n : r[k] = q[k]
      /\ v = q[Len(q)]
  BY <1>1, FrontLast DEF Last
<1>3. PopHeap(q) = IF r = <<>> THEN r ELSE SiftUp(moved, Last(p), v)
  BY DEF PopHeap
<1>4. DOMAIN r = 1 .. n
  BY <1>2, LenProperties
<1> HIDE DEF r, v, p
<1>5. CASE n = 0
  <2>1. r = <<>>
    BY <1>2, <1>5, EmptySeq
  <2>2. r = Tail(q)
    BY <1>1, <1>2, <1>5, SeqEqual
  <2> QED
    BY <1>3, <2>1, <2>2
<1>6. CASE n \in 1 .. 2
  <2>1. PICK g : Falls(g, r, 1) /\ p = g[1]
    BY <1>2, <1>6, PathDownStep DEF p
  <2>2. r # <<>>
    BY <1>2, <1>6, EmptySeq
  <2>3. CASE n = 1
    <3> HIDE DEF n
    <3>0. Len(r) = 1 /\ 1 \in 1 .. 1
      BY <1>2, <2>3
    <3>1. p = <<1>>
      BY <2>1, <3>0 DEF Falls
    <3>2. p \in Seq({1}) /\ Len(p) = 1 /\ Len(p) >= 1 /\ Last(p) = 1
      BY <3>1 DEF Last
    <3>3. Len(Front(p)) = 0
      <4>1. Len(Front(p)) = Len(p) - 1
        BY <3>2, FrontLast
      <4> QED
        BY <3>2, <4>1
    <3>4. \A h : ~Contains(Front(p), h)
      BY <3>3 DEF Contains
    <3>5. moved = r
      <4>1. r = [h \in 1 .. n |-> r[h]]
        BY <1>2, LenProperties
      <4>2. moved = [h \in 1 .. n |-> r[h]]
        BY <1>4, <3>4
      <4> QED
        BY <4>1, <4>2
    <3>6. SiftUp(r, 1, v) = [r EXCEPT ![1] = v]
      <4>1. ASSUME NEW j \in 1 .. Len(r), ~(j > 1)
            PROVE  SiftUp(r, j, v) = [r EXCEPT ![j] = v]
        <5>1. r \in Seq(M) /\ v \in M
          BY <1>2
        <5>2. ~(j > 1 /\ After(r[j \div 2], v))
          BY <4>1
        <5> QED
          BY <5>1, <5>2, SiftStays
      <4> QED
        BY <3>0, <4>1
    <3>7. [r EXCEPT ![1] = v] = Tail(q)
      <4>1. /\ [r EXCEPT ![1] = v] \in Seq(M)
            /\ Len([r EXCEPT ![1] = v]) = 1
            /\ [r EXCEPT ![1] = v][1] = v
        <5>1. ASSUME NEW j \in 1 .. Len(r)
              PROVE  /\ [r EXCEPT ![j] = v] \in Seq(M)
                     /\ Len([r EXCEPT ![j] = v]) = Len(r)
                     /\ [r EXCEPT ![j] = v][j] = v
          BY <1>2, ExceptSeq
        <5> QED
          BY <3>0, <5>1
      <4>2. Tail(q)[1] = v /\ Len(Tail(q)) = 1
        <5>1. Len(q) = 2 /\ 1 \in 1 .. n /\ 1 + 1 = 2
          <6>1. Len(q) \in Nat /\ n = Len(q) - 1
            BY LenProperties DEF n
          <6> QED
            BY <2>3, <6>1
        <5> QED
          BY <1>1, <1>2, <2>3, <5>1
      <4>3. \A k \in 1 .. 1 : k = 1
        OBVIOUS
      <4> QED
        BY <1>1, <4>1, <4>2, <4>3, SeqEqual
    <3> QED
      BY <1>3, <2>2, <3>2, <3>5, <3>6, <3>7
  <2>4. CASE n = 2
    <3> HIDE DEF n
    <3>0. Len(r) = 2 /\ 1 \in 1 .. 2 /\ 2 \in 1 .. 2
      BY <1>2, <2>4
    <3>1. FirstChild(r, 1) = 2
      BY <3>0 DEF FirstChild
    <3>2. g[1] = <<1>> \o g[2] /\ g[2] = <<2>>
      BY <2>1, <3>0, <3>1 DEF Falls
    <3>3. p = <<1>> \o <<2>>
      BY <2>1, <3>2
    <3>4. /\ p \in Seq(1 .. 2) /\ Len(p) = 2 /\ Last(p) = 2 /\ p[1] = 1
          /\ Len(p) >= 1 /\ 1 \in 1 .. Len(p) - 1
      <4>1. <<2>> \in Seq(1 .. 2) /\ Len(<<2>>) = 1 /\ Last(<<2>>) = 2
        BY <3>0, OneStep
      <4>2. /\ p \in Seq(1 .. 2) /\ Len(p) = 1 + 1 /\ Last(p) = 2
            /\ p[1] = 1
        <5>1. ASSUME NEW m \in Nat, NEW h \in 1 .. m, NEW x \in Seq(1 .. m), Len(x) = 1
              PROVE  /\ <<h>> \o x \in Seq(1 .. m)
                     /\ Len(<<h>> \o x) = 1 + 1
                     /\ Last(<<h>> \o x) = Last(x)
                     /\ (<<h>> \o x)[1] = h
          <6>1. Len(x) >= 1 /\ 1 \in 1 .. Len(x)
            BY <5>1
          <6>2. /\ <<h>> \o x \in Seq(1 .. m)
                /\ Len(<<h>> \o x) = Len(x) + 1
                /\ Last(<<h>> \o x) = Last(x)
                /\ \A k \in 1 .. Len(x) : (<<h>> \o x)[k] = IF k = 1 THEN h ELSE x[k - 1]
            BY <6>1, StepBefore
          <6> QED
            BY <5>1, <6>1, <6>2
        <5>2. 2 \in Nat /\ 1 + 1 = 2
          OBVIOUS
        <5>3. /\ <<1>> \o <<2>> \in Seq(1 .. 2)
              /\ Len(<<1>> \o <<2>>) = 1 + 1
              /\ Last(<<1>> \o <<2>>) = Last(<<2>>)
              /\ (<<1>> \o <<2>>)[1] = 1
          BY <3>0, <4>1, <5>1, <5>2
        <5> QED
          BY <3>3, <4>1, <5>3
      <4> QED
        BY <4>2
    <3>5. Len(Front(p)) = 1 /\ Front(p)[1] = 1
      <4>1. /\ Len(Front(p)) = Len(p) - 1
            /\ \A k \in 1 .. Len(p) - 1 : Front(p)[k] = p[k]
        BY <3>4, FrontLast
      <4> QED
        BY <3>4, <4>1
    <3>6. Contains(Front(p), 1) /\ ~Contains(Front(p), 2)
      BY <3>5 DEF Contains
    <3>7. /\ DOMAIN moved = 1 .. 2
          /\ moved[1] = r[2] /\ moved[2] = r[2]
          /\ moved = [h \in 1 .. 2 |-> moved[h]]
      BY <1>4, <2>4, <3>1, <3>6
    <3>8. r[2] = q[2] /\ v = q[3] /\ q[2] \in M /\ ~After(q[2], v)
      <4>1. /\ 2 \in 1 .. Len(q) /\ 3 \in 1 .. Len(q) /\ Len(q) = 3
            /\ 2 < 3 /\ 2 \in 1 .. n
        BY <2>4 DEF n
      <4>2. q[2].timestamp <= q[3].timestamp
        BY <4>1 DEF InOrder
      <4>3. q[2].timestamp \in Int /\ q[3].timestamp \in Int
        BY <4>1
      <4>4. r[2] = q[2] /\ v = q[3] /\ q[2] \in M
        BY <1>2, <4>1, ElementOfSeq
      <4>5. ~(q[2].timestamp > q[3].timestamp)
        BY <4>2, <4>3
      <4> QED
        BY <4>4, <4>5 DEF After
    <3> HIDE DEF moved
    <3>9. moved \in Seq(M) /\ Len(moved) = 2
      <4>1. \A h \in 1 .. 2 : moved[h] \in M
        BY <3>7, <3>8
      <4> QED
        BY <3>7, <4>1
    <3>10. SiftUp(moved, 2, v) = [moved EXCEPT ![2] = v]
      <4>1. 2 \in 1 .. Len(moved)
        BY <3>9
      <4>2. 2 \div 2 = 1
        OBVIOUS
      <4>3. ~(2 > 1 /\ After(moved[2 \div 2], v))
        BY <3>7, <3>8, <4>2
      <4>4. ASSUME NEW j \in 1 .. Len(moved), ~(j > 1 /\ After(moved[j \div 2], v))
            PROVE  SiftUp(moved, j, v) = [moved EXCEPT ![j] = v]
        <5>1. moved \in Seq(M) /\ v \in M
          BY <1>2, <3>9
        <5> QED
          BY <4>4, <5>1, SiftStays
      <4> QED
        BY <4>1, <4>3, <4>4
    <3>11. [moved EXCEPT ![2] = v] = Tail(q)
      <4>1. 2 \in 1 .. Len(moved) /\ 1 \in 1 .. Len(moved)
        BY <3>9
      <4>2. /\ [moved EXCEPT ![2] = v] \in Seq(M)
            /\ Len([moved EXCEPT ![2] = v]) = 2
            /\ [moved EXCEPT ![2] = v][1] = q[2]
            /\ [moved EXCEPT ![2] = v][2] = v
        BY <1>2, <3>7, <3>8, <3>9, <4>1, ExceptSeq
      <4>3. Tail(q)[1] = q[2] /\ Tail(q)[2] = v /\ Len(Tail(q)) = 2
        <5>1. 1 \in 1 .. n /\ 2 \in 1 .. n /\ 1 + 1 = 2 /\ 2 + 1 = 3
          BY <2>4
        <5> QED
          BY <1>1, <2>4, <3>8, <5>1
      <4>4. \A k \in 1 .. 2 : k = 1 \/ k = 2
        OBVIOUS
      <4> QED
        BY <1>1, <4>2, <4>3, <4>4, SeqEqual
    <3> QED
      BY <1>3, <2>2, <3>4, <3>10, <3>11
  <2> QED
    BY <1>6, <2>3, <2>4
<1> QED
  BY <1>1, <1>5, <1>6

-----------------------------------------------------------------------------
\* A message of type t about file f with the number we have after the step.
Stamped(f, t) ==
  [type |-> t, file |-> f, timestamp |-> our_sequence_number'[f]]

\* All that a step does to the queue is to push one own message, at most.
Sends(unsent) ==
  \/ NoPush(unsent)
  \/ \E f \in Files, t \in MessageType : Push(Stamped(f, t), unsent)

\* A step that leaves the message in hand where it is.
Sending ==
  /\ self' = self \/ (self = "spinning" /\ self' = "looking")
  /\ packet' = packet
  /\ Sends(sent)
  /\ faults' \subseteq faults \union {"fouled"}

\* A step that treats it.
Treating ==
  /\ self = "treating" /\ self' \in {"looking", "spinning"}
  /\ packet' = packet
  /\ Sends(Unsent)
  /\ faults' = faults \union
       IF sent[packet.file] # <<>> /\ Head(sent[packet.file]) = packet
       THEN {} ELSE {"misordered"}

\* Types of what Push does not change.  A number is at most one ahead of the
\* highest that was seen, so the next one is not less.  Whether somebody holds
\* the lock that is given back does not matter here.
RestOK ==
  /\ main \in {"idle", "waiting", "critical"}
  /\ current \in Files
  /\ our_sequence_number \in [Files -> 0 .. MaxNumber]
  /\ request_reply \in [Files -> {"NONE", "WAITING", "FAILED", "LOCKED"}]
  /\ hgst_sequence_number \in [Files -> 0 .. MaxNumber]
  /\ holder \in [Files -> {"nobody", "me", "other"}]
  /\ waits \in [Files -> SUBSET {"nobody", "me", "other"}]
  /\ inquired \in [Files -> BOOLEAN]
  /\ \A f \in Files : our_sequence_number[f] <= hgst_sequence_number[f] + 1

\* Types of the others; what is popped is there.
OInv ==
  /\ pq \in Seq(Message)
  /\ self \in {"looking", "popping", "treating", "spinning"}
  /\ packet \in Message
  /\ sent \in [Files -> Seq(Message)]
  /\ strained \in BOOLEAN
  /\ faults \subseteq Fault
  /\ self = "popping" => pq # <<>>
  /\ RestOK

\* Our numbers do not decrease.
Grows == \A f \in Files : our_sequence_number[f] <= our_sequence_number'[f]

\* What the queue promises when it was not strained: it holds messages of one
\* file in their order, and for each file, sent is what is in hand and then
\* what is in the queue.
InHand(f) == IF self = "treating" /\ packet.file = f THEN <<packet>> ELSE <<>>
InQueue(f) == IF pq # <<>> /\ pq[1].file = f THEN pq ELSE <<>>

Queued ==
  /\ \A k \in 1 .. Len(pq) : pq[k].file = pq[1].file
  /\ Len(pq) <= 3
  /\ InOrder(pq)

Fifo ==
  /\ Queued
  /\ self = "popping" => pq[1] = packet
  /\ \A f \in Files : sent[f] = InHand(f) \o InQueue(f)

FInv ==
  /\ ~strained /\ faults = {} => Fifo
  /\ "misordered" \in faults => strained

\* No message is stamped with a number that its file has not had; if the
\* message that is first is not the one that top() returned, it came before it
\* and is about another file.
Stamps ==
  \A k \in 1 .. Len(pq) : pq[k].timestamp <= our_sequence_number[pq[k].file]

DInv ==
  /\ Stamps
  /\ self = "popping" =>
       /\ packet.timestamp <= our_sequence_number[packet.file]
       /\ pq[1].timestamp <= packet.timestamp
       /\ pq[1] = packet \/ pq[1].file # packet.file
  /\ "displaced" \notin faults

-----------------------------------------------------------------------------
\* A set of places has a least one.
LEMMA MinType ==
  ASSUME NEW n \in Nat, NEW I \in SUBSET (1 .. n), I # {}
  PROVE  Min(I) \in I
<1>1. I \in SUBSET (0 .. n)
  OBVIOUS
<1>2. \E x \in I : \A y \in I : x <= y
  BY <1>1, Least
<1> QED
  BY <1>2 DEF Min

\* Without the first message that equals m, the others are left.
LEMMA RemoveFirstType ==
  ASSUME NEW M, NEW q \in Seq(M), NEW m
  PROVE  RemoveFirst(q, m) \in Seq(M)
<1>1. CASE \E i \in 1 .. Len(q) : q[i] = m
  <2> DEFINE I == {i \in 1 .. Len(q) : q[i] = m}
             a == Min(I)
  <2>1. Len(q) \in Nat /\ \A k \in 1 .. Len(q) : q[k] \in M
    BY LenProperties, ElementOfSeq
  <2>2. a \in 1 .. Len(q)
    BY <1>1, <2>1, MinType
  <2>3. RemoveFirst(q, m) = SubSeq(q, 1, a - 1) \o SubSeq(q, a + 1, Len(q))
    BY <1>1 DEF RemoveFirst, RemoveAt, SelectInSeq
  <2> HIDE DEF a
  <2>4. SubSeq(q, 1, a - 1) \in Seq(M)
    <3>1. 1 \in Int /\ a - 1 \in Int /\ \A k \in 1 .. a - 1 : q[k] \in M
      BY <2>1, <2>2
    <3> QED
      BY <3>1, SubSeqProperties
  <2>5. SubSeq(q, a + 1, Len(q)) \in Seq(M)
    <3>1. a + 1 \in Int /\ Len(q) \in Int /\ \A k \in a + 1 .. Len(q) : q[k] \in M
      BY <2>1, <2>2
    <3> QED
      BY <3>1, SubSeqProperties
  <2> QED
    BY <2>3, <2>4, <2>5, ConcatProperties
<1>2. CASE ~ \E i \in 1 .. Len(q) : q[i] = m
  BY <1>2 DEF RemoveFirst
<1> QED
  BY <1>1, <1>2

\* If the message in hand is the oldest of its file, treating it leaves the rest.
LEMMA RemoveHead ==
  ASSUME NEW M, NEW q \in Seq(M), NEW m \in M
  PROVE  RemoveFirst(<<m>> \o q, m) = q
<1> DEFINE s == <<m>> \o q
<1>1. <<m>> \in Seq(M) /\ Len(<<m>>) = 1 /\ <<m>>[1] = m
  OBVIOUS
<1>2. /\ s \in Seq(M) /\ Len(s) = Len(q) + 1 /\ Len(q) \in Nat
      /\ \A k \in 1 .. Len(q) + 1 : s[k] = IF k <= 1 THEN <<m>>[k] ELSE q[k - 1]
  <2>1. /\ s \in Seq(M) /\ Len(s) = 1 + Len(q)
        /\ \A k \in 1 .. 1 + Len(q) : s[k] = IF k <= 1 THEN <<m>>[k] ELSE q[k - 1]
    BY <1>1, ConcatProperties
  <2> QED
    BY <2>1, LenProperties
<1> HIDE DEF s
<1>3. s[1] = m /\ 1 \in 1 .. Len(s)
  BY <1>1, <1>2
<1> DEFINE I == {i \in 1 .. Len(s) : s[i] = m}
<1>4. Min(I) = 1
  <2>1. 1 \in I /\ \A y \in I : 1 =< y /\ y \in Nat
    BY <1>2, <1>3
  <2>2. \A x \in I : (\A y \in I : x =< y) => x = 1
    BY <2>1
  <2> HIDE DEF I
  <2> QED
    BY <2>1, <2>2 DEF Min
<1>5. RemoveFirst(s, m) = SubSeq(s, 1, 0) \o SubSeq(s, 2, Len(s))
  <2>1. RemoveFirst(s, m) = SubSeq(s, 1, Min(I) - 1) \o SubSeq(s, Min(I) + 1, Len(s))
    BY <1>3 DEF RemoveFirst, RemoveAt, SelectInSeq
  <2> HIDE DEF I
  <2> QED
    BY <1>4, <2>1
<1>6. SubSeq(s, 1, 0) = <<>>
  BY SubSeqEmpty
<1>7. s # <<>>
  BY <1>2, EmptySeq
<1>8. SubSeq(s, 2, Len(s)) = Tail(s)
  BY <1>2, <1>7, TailIsSubSeq
<1>9. Tail(s) = q
  <2>1. /\ Tail(s) \in Seq(M) /\ Len(Tail(s)) = Len(s) - 1
        /\ \A k \in 1 .. Len(Tail(s)) : Tail(s)[k] = s[k + 1]
    BY <1>2, <1>7, HeadTailProperties
  <2>2. Len(Tail(s)) = Len(q)
    BY <1>2, <2>1
  <2>3. ASSUME NEW k \in 1 .. Len(q) PROVE Tail(s)[k] = q[k]
    <3>1. k + 1 \in 1 .. Len(q) + 1 /\ ~(k + 1 <= 1) /\ (k + 1) - 1 = k
      BY <1>2
    <3> QED
      BY <1>2, <2>1, <2>2, <3>1
  <2> QED
    BY <2>1, <2>2, <2>3, SeqEqual
<1>10. <<>> \o q = q
  BY ConcatEmptySeq
<1> QED
  BY <1>5, <1>6, <1>8, <1>9, <1>10 DEF s

\* To take a message out of what is under way leaves streams of messages.
LEMMA UnsentType ==
  ASSUME packet \in Message, sent \in [Files -> Seq(Message)]
  PROVE  Unsent \in [Files -> Seq(Message)]
<1>1. packet.file \in Files
  BY DEF Message
<1>2. RemoveFirst(sent[packet.file], packet) \in Seq(Message)
  BY <1>1, RemoveFirstType
<1> QED
  BY <1>1, <1>2 DEF Unsent

-----------------------------------------------------------------------------
\* An own message that is pushed is stamped with the number after the step.
LEMMA SendsOwn ==
  ASSUME NEW f \in Files, NEW t \in MessageType, NEW unsent,
         our_sequence_number' = our_sequence_number,
         Push(OwnMessage(f, t), unsent)
  PROVE  Sends(unsent)
<1>1. OwnMessage(f, t) = Stamped(f, t)
  BY DEF OwnMessage, Stamped
<1> QED
  BY <1>1 DEF Sends

\* The six types of messages.
LEMMA Types ==
  /\ "REQUEST" \in MessageType /\ "LOCKED" \in MessageType
  /\ "FAILED" \in MessageType /\ "INQUIRE" \in MessageType
  /\ "RELINQUISH" \in MessageType /\ "RELEASE" \in MessageType
BY DEF MessageType

\* Passing the lock on is a matter of holder and waits, and tells us at most.
LEMMA PassLockKeeps ==
  ASSUME RestOK, NEW f \in Files, NEW requeued \in SUBSET {"nobody", "me", "other"},
         NEW unsent, our_sequence_number' = our_sequence_number,
         PassLock(f, requeued, unsent)
  PROVE  /\ holder' \in [Files -> {"nobody", "me", "other"}]
         /\ waits' \in [Files -> SUBSET {"nobody", "me", "other"}]
         /\ Sends(unsent)
<1>1. /\ holder \in [Files -> {"nobody", "me", "other"}]
      /\ waits \in [Files -> SUBSET {"nobody", "me", "other"}]
  BY DEF RestOK
<1>2. CASE /\ waits[f] = {}
           /\ holder' = [holder EXCEPT ![f] = "nobody"]
           /\ UNCHANGED waits
           /\ NoPush(unsent)
  BY <1>1, <1>2 DEF Sends
<1>3. ASSUME NEW h \in waits[f], NEW more \in SUBSET (waits[f] \ {"me"}),
             holder' = [holder EXCEPT ![f] = h],
             waits' = [waits EXCEPT ![f] = (@ \ {h}) \union more \union requeued],
             IF h = "me" THEN Push(OwnMessage(f, "LOCKED"), unsent)
                         ELSE NoPush(unsent)
      PROVE  /\ holder' \in [Files -> {"nobody", "me", "other"}]
             /\ waits' \in [Files -> SUBSET {"nobody", "me", "other"}]
             /\ Sends(unsent)
  <2>1. h \in {"nobody", "me", "other"}
    BY <1>1
  <2>2. (waits[f] \ {h}) \union more \union requeued \in SUBSET {"nobody", "me", "other"}
    BY <1>1
  <2>3. Sends(unsent)
    <3>1. CASE h = "me"
      BY <1>3, <3>1, SendsOwn, Types
    <3>2. CASE h # "me"
      BY <1>3, <3>2 DEF Sends
    <3> QED
      BY <3>1, <3>2
  <2> QED
    BY <1>1, <1>3, <2>1, <2>2, <2>3
<1> QED
  BY <1>2, <1>3 DEF PassLock

-----------------------------------------------------------------------------
(***************************************************************************)
(* What each action but Top and Pop does to the queue.                     *)
(***************************************************************************)
LEMMA RequestKind ==
  ASSUME OInv, NumberAssumption, NEW f \in Files, RequestResource(f)
  PROVE  Sending /\ RestOK' /\ Grows
<1> DEFINE n == hgst_sequence_number[f] + 1
<1> USE DEF NumberAssumption, OInv
<1>1. n \in 0 .. MaxNumber /\ our_sequence_number[f] <= n
  BY DEF RequestResource, RestOK
<1>2. our_sequence_number' = [our_sequence_number EXCEPT ![f] = n]
  BY DEF RequestResource
<1>3. Push([OwnMessage(f, "REQUEST") EXCEPT !.timestamp = n], sent)
  BY DEF RequestResource
<1>4. our_sequence_number'[f] = n
  BY <1>2 DEF RestOK
<1>5. [OwnMessage(f, "REQUEST") EXCEPT !.timestamp = n] = Stamped(f, "REQUEST")
  BY <1>4 DEF OwnMessage, Stamped
<1>6. Sends(sent)
  BY <1>3, <1>5, Types DEF Sends
<1>7. Sending
  BY <1>6 DEF RequestResource, Sending
<1>8. Grows
  <2>1. ASSUME NEW g \in Files
        PROVE  our_sequence_number[g] <= our_sequence_number'[g]
    <3>1. CASE g = f
      BY <1>1, <1>4, <3>1
    <3>2. CASE g # f
      <4>1. our_sequence_number'[g] = our_sequence_number[g]
        BY <1>2, <3>2 DEF RestOK
      <4>2. our_sequence_number[g] \in 0 .. MaxNumber
        BY DEF RestOK
      <4> QED
        BY <4>1, <4>2
    <3> QED
      BY <3>1, <3>2
  <2> QED
    BY <2>1 DEF Grows
<1>9. RestOK'
  <2>1. our_sequence_number' \in [Files -> 0 .. MaxNumber]
    BY <1>1, <1>2 DEF RestOK
  <2>2. request_reply' \in [Files -> {"NONE", "WAITING", "FAILED", "LOCKED"}]
    BY DEF RequestResource, RestOK
  <2>3. ASSUME NEW g \in Files
        PROVE  our_sequence_number'[g] <= hgst_sequence_number'[g] + 1
    <3>1. hgst_sequence_number'[g] = hgst_sequence_number[g]
      BY DEF RequestResource, arbiter
    <3>2. CASE g = f
      <4>1. hgst_sequence_number[f] \in 0 .. MaxNumber
        BY DEF RestOK
      <4> QED
        BY <1>4, <3>1, <3>2, <4>1
    <3>3. CASE g # f
      <4>1. our_sequence_number'[g] = our_sequence_number[g]
        BY <1>2, <3>3 DEF RestOK
      <4> QED
        BY <3>1, <4>1 DEF RestOK
    <3> QED
      BY <3>2, <3>3
  <2>4. /\ main' = "waiting" /\ current' = f
        /\ UNCHANGED <<hgst_sequence_number, holder, waits, inquired>>
    BY DEF RequestResource, arbiter
  <2> QED
    BY <2>1, <2>2, <2>3, <2>4 DEF RestOK
<1> QED
  BY <1>7, <1>8, <1>9

\* Where neither number changes.
LEMMA SameNumbers ==
  ASSUME RestOK, NumberAssumption,
         UNCHANGED <<our_sequence_number, hgst_sequence_number>>
  PROVE  /\ Grows
         /\ our_sequence_number' \in [Files -> 0 .. MaxNumber]
         /\ hgst_sequence_number' \in [Files -> 0 .. MaxNumber]
         /\ \A f \in Files : our_sequence_number'[f] <= hgst_sequence_number'[f] + 1
BY DEF RestOK, Grows, NumberAssumption

\* Entering the critical section sends nothing and lowers no number.
LEMMA EnterKind ==
  ASSUME OInv, NumberAssumption, EnterCriticalSection
  PROVE  Sending /\ RestOK' /\ Grows
<1>1. RestOK
  BY DEF OInv
<1>2. /\ main' = "critical"
      /\ UNCHANGED <<pq, self, packet, current, our_sequence_number, request_reply,
                     hgst_sequence_number, holder, waits, inquired, sent,
                     strained, faults>>
  BY DEF EnterCriticalSection, arbiter
<1>3. Sending
  BY <1>2 DEF Sending, Sends, NoPush
<1> QED
  BY <1>1, <1>2, <1>3, SameNumbers DEF RestOK

\* release_resource() sends RELEASE and lowers no number.
LEMMA ReleaseKind ==
  ASSUME OInv, NumberAssumption, ReleaseResource
  PROVE  Sending /\ RestOK' /\ Grows
<1>1. RestOK /\ current \in Files
  BY DEF OInv, RestOK
<1>2. /\ main' = "idle"
      /\ request_reply' = [request_reply EXCEPT ![current] = "NONE"]
      /\ UNCHANGED <<self, packet, current, our_sequence_number,
                     hgst_sequence_number, holder, waits, inquired, faults>>
      /\ Push(OwnMessage(current, "RELEASE"), sent)
  BY DEF ReleaseResource, arbiter
<1>3. Sending
  <2>1. Sends(sent)
    BY <1>1, <1>2, SendsOwn, Types
  <2> QED
    BY <1>2, <2>1 DEF Sending
<1>4. request_reply' \in [Files -> {"NONE", "WAITING", "FAILED", "LOCKED"}]
  BY <1>1, <1>2 DEF RestOK
<1> QED
  BY <1>1, <1>2, <1>3, <1>4, SameNumbers DEF RestOK

\* Where our numbers stay and a highest number may grow.
LEMMA HighestGrows ==
  ASSUME RestOK, NumberAssumption, NEW f \in Files, NEW s \in 0 .. MaxNumber,
         hgst_sequence_number[f] <= s,
         hgst_sequence_number' = [hgst_sequence_number EXCEPT ![f] = s],
         our_sequence_number' = our_sequence_number
  PROVE  /\ Grows
         /\ our_sequence_number' \in [Files -> 0 .. MaxNumber]
         /\ hgst_sequence_number' \in [Files -> 0 .. MaxNumber]
         /\ \A g \in Files : our_sequence_number'[g] <= hgst_sequence_number'[g] + 1
<1>1. /\ our_sequence_number \in [Files -> 0 .. MaxNumber]
      /\ hgst_sequence_number \in [Files -> 0 .. MaxNumber]
      /\ \A g \in Files : our_sequence_number[g] <= hgst_sequence_number[g] + 1
  BY DEF RestOK
<1>2. hgst_sequence_number' \in [Files -> 0 .. MaxNumber]
  BY <1>1
<1>3. Grows
  BY <1>1 DEF Grows, NumberAssumption
<1>4. ASSUME NEW g \in Files
      PROVE  our_sequence_number'[g] <= hgst_sequence_number'[g] + 1
  <2>1. /\ our_sequence_number[g] \in 0 .. MaxNumber
        /\ hgst_sequence_number[g] \in 0 .. MaxNumber
        /\ our_sequence_number[g] <= hgst_sequence_number[g] + 1
    BY <1>1
  <2>2. CASE g = f
    <3>1. hgst_sequence_number'[g] = s
      BY <1>1, <2>2
    <3> QED
      BY <2>1, <2>2, <3>1 DEF NumberAssumption
  <2>3. CASE g # f
    <3>1. hgst_sequence_number'[g] = hgst_sequence_number[g]
      BY <1>1, <2>3
    <3> QED
      BY <2>1, <3>1
  <2> QED
    BY <2>2, <2>3
<1> QED
  BY <1>1, <1>2, <1>3, <1>4

\* A request of another client, treated by our arbiter, lowers no number.
LEMMA OtherRequestsKind ==
  ASSUME OInv, NumberAssumption, NEW f \in Files, OtherRequests(f)
  PROVE  Sending /\ RestOK' /\ Grows
<1>1. RestOK
  BY DEF OInv
<1>2. /\ holder \in [Files -> {"nobody", "me", "other"}]
      /\ waits \in [Files -> SUBSET {"nobody", "me", "other"}]
      /\ inquired \in [Files -> BOOLEAN]
      /\ hgst_sequence_number[f] \in 0 .. MaxNumber
  BY <1>1 DEF RestOK
<1>3. PICK s \in hgst_sequence_number[f] .. MaxNumber :
        hgst_sequence_number' = [hgst_sequence_number EXCEPT ![f] = s]
  BY DEF OtherRequests
<1>4. s \in 0 .. MaxNumber /\ hgst_sequence_number[f] <= s
  BY <1>2 DEF NumberAssumption
<1>5. UNCHANGED <<self, packet, main, current, our_sequence_number, request_reply,
                  faults>>
  BY DEF OtherRequests, requester
<1>6. /\ holder' \in [Files -> {"nobody", "me", "other"}]
      /\ waits' \in [Files -> SUBSET {"nobody", "me", "other"}]
      /\ inquired' \in [Files -> BOOLEAN]
      /\ Sends(sent)
  <2>1. CASE holder[f] = "nobody"
    <3>1. /\ holder' = [holder EXCEPT ![f] = "other"]
          /\ UNCHANGED <<waits, inquired>>
          /\ NoPush(sent)
      BY <2>1 DEF OtherRequests
    <3> QED
      BY <1>2, <3>1 DEF Sends
  <2>2. CASE holder[f] # "nobody"
    <3>1. /\ waits' = [waits EXCEPT ![f] = @ \union {"other"}]
          /\ UNCHANGED holder
          /\ \E inquire \in {FALSE, MayInquire(f)} :
               /\ inquired' = [inquired EXCEPT ![f] = @ \/ inquire]
               /\ IF inquire THEN Push(OwnMessage(f, "INQUIRE"), sent)
                             ELSE NoPush(sent)
      BY <2>2 DEF OtherRequests
    <3>2. PICK inquire \in {FALSE, MayInquire(f)} :
               /\ inquired' = [inquired EXCEPT ![f] = @ \/ inquire]
               /\ IF inquire THEN Push(OwnMessage(f, "INQUIRE"), sent)
                             ELSE NoPush(sent)
      BY <3>1
    <3>3. Sends(sent)
      <4>1. Push(OwnMessage(f, "INQUIRE"), sent) \/ NoPush(sent)
        BY <3>2, Zenon
      <4> QED
        BY <1>5, <4>1, SendsOwn, Types DEF Sends
    <3>4. inquired' \in [Files -> BOOLEAN]
      <4>1. (inquired[f] \/ inquire) \in BOOLEAN
        OBVIOUS
      <4> QED
        BY <1>2, <3>2, <4>1
    <3>5. waits' \in [Files -> SUBSET {"nobody", "me", "other"}]
      BY <1>2, <3>1
    <3> QED
      BY <1>2, <3>1, <3>3, <3>4, <3>5
  <2> QED
    BY <2>1, <2>2
<1>7. Sending
  BY <1>5, <1>6 DEF Sending
<1>8. /\ Grows
      /\ our_sequence_number' \in [Files -> 0 .. MaxNumber]
      /\ hgst_sequence_number' \in [Files -> 0 .. MaxNumber]
      /\ \A g \in Files : our_sequence_number'[g] <= hgst_sequence_number'[g] + 1
  BY <1>1, <1>3, <1>4, <1>5, HighestGrows
<1> QED
  BY <1>1, <1>5, <1>6, <1>7, <1>8 DEF RestOK

\* Nor does a release of another client.
LEMMA OtherReleasesKind ==
  ASSUME OInv, NumberAssumption, NEW f \in Files, OtherReleases(f)
  PROVE  Sending /\ RestOK' /\ Grows
<1>1. RestOK
  BY DEF OInv
<1>2. UNCHANGED <<self, packet, main, current, our_sequence_number, request_reply,
                  hgst_sequence_number, inquired, faults>>
  BY DEF OtherReleases, requester
<1>3. PassLock(f, {}, sent) \/ PassLock(f, {"other"}, sent)
  BY DEF OtherReleases
<1>4. {} \in SUBSET {"nobody", "me", "other"} /\ {"other"} \in SUBSET {"nobody", "me", "other"}
  OBVIOUS
<1>5. /\ holder' \in [Files -> {"nobody", "me", "other"}]
      /\ waits' \in [Files -> SUBSET {"nobody", "me", "other"}]
      /\ Sends(sent)
  BY <1>1, <1>2, <1>3, <1>4, PassLockKeeps
<1>6. Sending
  BY <1>2, <1>5 DEF Sending
<1> QED
  BY <1>1, <1>2, <1>5, <1>6, SameNumbers DEF RestOK

\* treat_request_message() of our own REQUEST lowers no number.
LEMMA TreatRequestKind ==
  ASSUME OInv, NumberAssumption, TreatRequest
  PROVE  Treating /\ RestOK' /\ Grows
<1> DEFINE f == packet.file
           s == IF packet.timestamp > hgst_sequence_number[f]
                THEN packet.timestamp ELSE hgst_sequence_number[f]
<1>1. RestOK /\ f \in Files /\ packet.timestamp \in 0 .. MaxNumber
  BY DEF OInv, Message
<1>2. /\ holder \in [Files -> {"nobody", "me", "other"}]
      /\ waits \in [Files -> SUBSET {"nobody", "me", "other"}]
      /\ hgst_sequence_number \in [Files -> 0 .. MaxNumber]
  BY <1>1 DEF RestOK
<1>3. /\ Treat("REQUEST")
      /\ hgst_sequence_number' = [hgst_sequence_number EXCEPT ![f] = s]
      /\ UNCHANGED <<main, current, our_sequence_number, request_reply, inquired>>
      /\ self' = "looking"
  BY DEF TreatRequest, requester
<1>4. s \in 0 .. MaxNumber /\ hgst_sequence_number[f] <= s
  BY <1>1, <1>2 DEF NumberAssumption
<1>5. /\ holder' \in [Files -> {"nobody", "me", "other"}]
      /\ waits' \in [Files -> SUBSET {"nobody", "me", "other"}]
      /\ Sends(Unsent)
  <2>1. CASE holder[f] = "nobody"
    <3>1. /\ holder' = [holder EXCEPT ![f] = "me"]
          /\ Push(OwnMessage(f, "LOCKED"), Unsent)
          /\ UNCHANGED waits
      BY <2>1 DEF TreatRequest
    <3>2. Sends(Unsent)
      BY <1>1, <1>3, <3>1, SendsOwn, Types
    <3> QED
      BY <1>2, <3>1, <3>2
  <2>2. CASE holder[f] # "nobody"
    <3>1. /\ waits' = [waits EXCEPT ![f] = @ \union {"me"}]
          /\ Push(OwnMessage(f, "FAILED"), Unsent) \/ NoPush(Unsent)
          /\ UNCHANGED holder
      BY <2>2 DEF TreatRequest
    <3>2. Sends(Unsent)
      BY <1>1, <1>3, <3>1, SendsOwn, Types DEF Sends
    <3>3. waits' \in [Files -> SUBSET {"nobody", "me", "other"}]
      BY <1>2, <3>1
    <3> QED
      BY <1>2, <3>1, <3>2, <3>3
  <2> QED
    BY <2>1, <2>2
<1> HIDE DEF s
<1>6. Treating
  BY <1>3, <1>5 DEF Treating, Treat
<1>7. /\ Grows
      /\ our_sequence_number' \in [Files -> 0 .. MaxNumber]
      /\ hgst_sequence_number' \in [Files -> 0 .. MaxNumber]
      /\ \A g \in Files : our_sequence_number'[g] <= hgst_sequence_number'[g] + 1
  BY <1>1, <1>3, <1>4, HighestGrows
<1> QED
  BY <1>1, <1>3, <1>5, <1>6, <1>7 DEF RestOK

\* Nor do treat_locked_message() and treat_failed_message().
LEMMA TreatReplyKind ==
  ASSUME OInv, NumberAssumption, NEW t \in {"LOCKED", "FAILED"}, TreatReply(t)
  PROVE  Treating /\ RestOK' /\ Grows
<1>1. RestOK /\ packet.file \in Files
  BY DEF OInv, Message
<1>2. /\ Treat(t)
      /\ request_reply' = [request_reply EXCEPT ![packet.file] = t]
      /\ NoPush(Unsent)
      /\ self' = "looking"
      /\ UNCHANGED <<main, current, our_sequence_number, hgst_sequence_number,
                     holder, waits, inquired>>
  BY DEF TreatReply, arbiter
<1>3. Treating
  BY <1>2 DEF Treating, Treat, Sends
<1>4. request_reply' \in [Files -> {"NONE", "WAITING", "FAILED", "LOCKED"}]
  BY <1>1, <1>2 DEF RestOK
<1> QED
  BY <1>1, <1>2, <1>3, <1>4, SameNumbers DEF RestOK

\* Nor does treat_inquire_message() before its loop.
LEMMA TreatInquireKind ==
  ASSUME OInv, NumberAssumption, TreatInquire
  PROVE  Treating /\ RestOK' /\ Grows
<1>1. RestOK
  BY DEF OInv
<1>2. /\ Treat("INQUIRE")
      /\ NoPush(Unsent)
      /\ self' = "spinning"
      /\ UNCHANGED <<main, current, our_sequence_number, request_reply,
                     hgst_sequence_number, holder, waits, inquired>>
  BY DEF TreatInquire, requester, arbiter
<1>3. Treating
  BY <1>2 DEF Treating, Treat, Sends
<1> QED
  BY <1>1, <1>2, <1>3, SameNumbers DEF RestOK

\* treat_inquire_message() without a FAILED sends nothing.
LEMMA LeaveInquireKind ==
  ASSUME OInv, NumberAssumption, LeaveInquire
  PROVE  Sending /\ RestOK' /\ Grows
<1>1. RestOK
  BY DEF OInv
<1>2. /\ self = "spinning" /\ self' = "looking"
      /\ NoPush(sent)
      /\ UNCHANGED <<packet, main, current, our_sequence_number, request_reply,
                     hgst_sequence_number, holder, waits, inquired, faults>>
  BY DEF LeaveInquire, requester, arbiter
<1>3. Sending
  BY <1>2 DEF Sending, Sends
<1> QED
  BY <1>1, <1>2, <1>3, SameNumbers DEF RestOK

\* treat_inquire_message() with a FAILED sends RELINQUISH.
LEMMA RelinquishKind ==
  ASSUME OInv, NumberAssumption, Relinquish
  PROVE  Sending /\ RestOK' /\ Grows
<1>1. RestOK /\ current \in Files
  BY DEF OInv, RestOK
<1>2. /\ self = "spinning" /\ self' = "looking"
      /\ faults' \subseteq faults \union {"fouled"}
      /\ request_reply' = [request_reply EXCEPT ![current] = "FAILED"]
      /\ Push(OwnMessage(current, "RELINQUISH"), sent)
      /\ UNCHANGED <<packet, main, current, our_sequence_number,
                     hgst_sequence_number, holder, waits, inquired>>
  BY DEF Relinquish, arbiter
<1>3. Sending
  <2>1. Sends(sent)
    BY <1>1, <1>2, SendsOwn, Types
  <2> QED
    BY <1>2, <2>1 DEF Sending
<1>4. request_reply' \in [Files -> {"NONE", "WAITING", "FAILED", "LOCKED"}]
  BY <1>1, <1>2 DEF RestOK
<1> QED
  BY <1>1, <1>2, <1>3, <1>4, SameNumbers DEF RestOK

\* RELINQUISH and RELEASE.
LEMMA GivenBackKind ==
  ASSUME OInv, NumberAssumption, TreatRelinquish \/ TreatRelease
  PROVE  Treating /\ RestOK' /\ Grows
<1> DEFINE f == packet.file
<1>1. RestOK /\ f \in Files
  BY DEF OInv, Message
<1>2. /\ Treat("RELINQUISH") \/ Treat("RELEASE")
      /\ PassLock(f, {holder[f]}, Unsent) \/ PassLock(f, {}, Unsent)
      /\ inquired' = [inquired EXCEPT ![f] = FALSE]
      /\ self' = "looking"
      /\ UNCHANGED <<main, current, our_sequence_number, request_reply,
                     hgst_sequence_number>>
  BY DEF TreatRelinquish, TreatRelease, requester
<1>3. /\ {holder[f]} \in SUBSET {"nobody", "me", "other"}
      /\ {} \in SUBSET {"nobody", "me", "other"}
  BY <1>1 DEF RestOK
<1>4. /\ holder' \in [Files -> {"nobody", "me", "other"}]
      /\ waits' \in [Files -> SUBSET {"nobody", "me", "other"}]
      /\ Sends(Unsent)
  BY <1>1, <1>2, <1>3, PassLockKeeps
<1>5. inquired' \in [Files -> BOOLEAN]
  BY <1>1, <1>2 DEF RestOK
<1>6. Treating
  BY <1>2, <1>4 DEF Treating, Treat
<1> QED
  BY <1>1, <1>2, <1>4, <1>5, <1>6, SameNumbers DEF RestOK

\* Each step is of one of four kinds.
LEMMA Kinds ==
  ASSUME OInv, NumberAssumption, Next
  PROVE  \/ Sending /\ RestOK' /\ Grows
         \/ Treating /\ RestOK' /\ Grows
         \/ Top
         \/ Pop
<1>1. ASSUME NEW f \in Files, RequestResource(f) PROVE Sending /\ RestOK' /\ Grows
  BY <1>1, RequestKind
<1>2. ASSUME EnterCriticalSection PROVE Sending /\ RestOK' /\ Grows
  BY <1>2, EnterKind
<1>3. ASSUME ReleaseResource PROVE Sending /\ RestOK' /\ Grows
  BY <1>3, ReleaseKind
<1>4. ASSUME NEW f \in Files, OtherRequests(f) PROVE Sending /\ RestOK' /\ Grows
  BY <1>4, OtherRequestsKind
<1>5. ASSUME NEW f \in Files, OtherReleases(f) PROVE Sending /\ RestOK' /\ Grows
  BY <1>5, OtherReleasesKind
<1>6. ASSUME TreatRequest PROVE Treating /\ RestOK' /\ Grows
  BY <1>6, TreatRequestKind
<1>7. ASSUME TreatReply("LOCKED") \/ TreatReply("FAILED")
      PROVE  Treating /\ RestOK' /\ Grows
  BY <1>7, TreatReplyKind
<1>8. ASSUME TreatInquire PROVE Treating /\ RestOK' /\ Grows
  BY <1>8, TreatInquireKind
<1>9. ASSUME LeaveInquire PROVE Sending /\ RestOK' /\ Grows
  BY <1>9, LeaveInquireKind
<1>10. ASSUME Relinquish PROVE Sending /\ RestOK' /\ Grows
  BY <1>10, RelinquishKind
<1>11. ASSUME TreatRelinquish \/ TreatRelease PROVE Treating /\ RestOK' /\ Grows
  BY <1>11, GivenBackKind
<1>12. /\ MainThread => \/ \E f \in Files : RequestResource(f)
                        \/ EnterCriticalSection
                        \/ ReleaseResource
       /\ OtherThreads => \E f \in Files : OtherRequests(f) \/ OtherReleases(f)
       /\ SelfThread => \/ Top \/ Pop
                        \/ TreatRequest
                        \/ TreatReply("LOCKED") \/ TreatReply("FAILED")
                        \/ TreatInquire \/ LeaveInquire \/ Relinquish
                        \/ TreatRelinquish \/ TreatRelease
  BY DEF MainThread, OtherThreads, SelfThread
<1>13. CASE MainThread
  BY <1>1, <1>2, <1>3, <1>12, <1>13
<1>14. CASE OtherThreads
  BY <1>4, <1>5, <1>12, <1>14
<1>15. CASE SelfThread
  BY <1>6, <1>7, <1>8, <1>9, <1>10, <1>11, <1>12, <1>15
<1> QED
  BY <1>13, <1>14, <1>15 DEF Next

-----------------------------------------------------------------------------
\* A message with our number is one.
LEMMA StampedType ==
  ASSUME RestOK', NEW f \in Files, NEW t \in MessageType
  PROVE  /\ Stamped(f, t) \in Message
         /\ Stamped(f, t).file = f
         /\ Stamped(f, t).timestamp = our_sequence_number'[f]
<1>1. our_sequence_number'[f] \in 0 .. MaxNumber
  BY DEF RestOK
<1> QED
  BY <1>1 DEF Stamped, Message

\* What sending does to the types.
LEMMA SendsTypes ==
  ASSUME OInv, RestOK', NEW unsent \in [Files -> Seq(Message)], Sends(unsent)
  PROVE  /\ pq' \in Seq(Message)
         /\ sent' \in [Files -> Seq(Message)]
         /\ strained' \in BOOLEAN
         /\ pq # <<>> => pq' # <<>>
<1>1. pq \in Seq(Message) /\ strained \in BOOLEAN
  BY DEF OInv
<1>2. CASE NoPush(unsent)
  BY <1>1, <1>2 DEF NoPush
<1>3. ASSUME NEW f \in Files, NEW t \in MessageType, Push(Stamped(f, t), unsent)
      PROVE  /\ pq' \in Seq(Message)
             /\ sent' \in [Files -> Seq(Message)]
             /\ strained' \in BOOLEAN
             /\ pq # <<>> => pq' # <<>>
  <2> DEFINE m == Stamped(f, t)
  <2>1. m \in Message /\ m.file = f
    BY StampedType
  <2> HIDE DEF m
  <2>2. /\ sent' = [unsent EXCEPT ![m.file] = Append(@, m)]
        /\ strained' = (strained \/ Strains(m))
        /\ pq' = IF Len(pq) < max_size THEN PushHeap(pq, m) ELSE pq
    BY <1>3 DEF Push, m
  <2>3. Append(unsent[f], m) \in Seq(Message)
    BY <2>1, AppendProperties
  <2>4. sent' \in [Files -> Seq(Message)]
    BY <2>1, <2>2, <2>3
  <2>5. /\ PushHeap(pq, m) \in Seq(Message)
        /\ Len(PushHeap(pq, m)) = Len(pq) + 1
        /\ Len(pq) \in Nat
    BY <1>1, <2>1, PushHeapType, LenProperties
  <2>6. PushHeap(pq, m) # <<>>
    BY <2>5, EmptySeq
  <2>7. strained' \in BOOLEAN
    BY <2>2 DEF Strains
  <2> QED
    BY <1>1, <2>2, <2>4, <2>5, <2>6, <2>7
<1> QED
  BY <1>2, <1>3 DEF Sends

\* Local types hold at first.
LEMMA OInvInit ==
  ASSUME Init, NumberAssumption
  PROVE  OInv
<1>1. current \in Files /\ packet \in Message /\ 0 \in 0 .. MaxNumber
  BY DEF Init, Message, MessageType, NumberAssumption
<1>2. pq \in Seq(Message) /\ sent \in [Files -> Seq(Message)]
  BY EmptySeq DEF Init
<1>3. RestOK
  BY <1>1 DEF Init, RestOK
<1> QED
  BY <1>1, <1>2, <1>3 DEF Init, OInv, Fault

\* Every step keeps the local types.
LEMMA OInvNext ==
  ASSUME OInv, NumberAssumption, [Next]_vars
  PROVE  OInv'
<1>1. /\ pq \in Seq(Message)
      /\ self \in {"looking", "popping", "treating", "spinning"}
      /\ packet \in Message
      /\ sent \in [Files -> Seq(Message)]
      /\ strained \in BOOLEAN
      /\ faults \subseteq Fault
      /\ self = "popping" => pq # <<>>
      /\ RestOK
  BY DEF OInv
<1>2. CASE Sending /\ RestOK' /\ Grows
  <2>1. /\ pq' \in Seq(Message)
        /\ sent' \in [Files -> Seq(Message)]
        /\ strained' \in BOOLEAN
        /\ pq # <<>> => pq' # <<>>
    BY <1>1, <1>2, SendsTypes DEF Sending
  <2>2. /\ self' \in {"looking", "popping", "treating", "spinning"}
        /\ self' = "popping" => self = "popping"
        /\ packet' \in Message
        /\ faults' \subseteq Fault
    BY <1>1, <1>2 DEF Sending, Fault
  <2> QED
    BY <1>1, <1>2, <2>1, <2>2 DEF OInv
<1>3. CASE Treating /\ RestOK' /\ Grows
  <2>1. Unsent \in [Files -> Seq(Message)]
    BY <1>1, UnsentType
  <2>2. /\ pq' \in Seq(Message)
        /\ sent' \in [Files -> Seq(Message)]
        /\ strained' \in BOOLEAN
    BY <1>3, <2>1, SendsTypes DEF Treating
  <2>3. /\ self' \in {"looking", "spinning"}
        /\ packet' \in Message
        /\ faults' \subseteq Fault
    BY <1>1, <1>3 DEF Treating, Fault
  <2> QED
    BY <1>3, <2>2, <2>3 DEF OInv
<1>4. CASE Top
  <2>1. /\ pq # <<>> /\ packet' = Head(pq) /\ self' = "popping"
        /\ UNCHANGED <<pq, sent, strained, faults, main, current,
                       our_sequence_number, request_reply, hgst_sequence_number,
                       holder, waits, inquired>>
    BY <1>4 DEF Top, requester, arbiter
  <2>2. packet' \in Message
    BY <1>1, <2>1, HeadTailProperties
  <2> QED
    BY <1>1, <2>1, <2>2 DEF OInv, RestOK
<1>5. CASE Pop
  <2>1. /\ self = "popping" /\ self' = "treating"
        /\ pq' = PopHeap(pq)
        /\ UNCHANGED <<packet, sent, strained, main, current,
                       our_sequence_number, request_reply, hgst_sequence_number,
                       holder, waits, inquired>>
    BY <1>5 DEF Pop, requester, arbiter
  <2>2. pq' \in Seq(Message)
    BY <1>1, <2>1, PopHeapType
  <2>3. faults' \subseteq Fault
    <3>1. CASE Head(pq) = packet
      BY <1>1, <1>5, <3>1 DEF Pop, Fault
    <3>2. CASE Head(pq) # packet /\ Head(pq).file = packet.file
      BY <1>1, <1>5, <3>2 DEF Pop, Fault
    <3>3. CASE Head(pq) # packet /\ Head(pq).file # packet.file
      BY <1>1, <1>5, <3>3 DEF Pop, Fault
    <3> QED
      BY <3>1, <3>2, <3>3
  <2> QED
    BY <1>1, <2>1, <2>2, <2>3 DEF OInv, RestOK
<1>6. CASE UNCHANGED vars
  BY <1>1, <1>6 DEF vars, requester, arbiter, OInv, RestOK
<1> QED
  BY <1>2, <1>3, <1>4, <1>5, <1>6, Kinds

-----------------------------------------------------------------------------
(***************************************************************************)
(* Between top() and pop() nothing about the same file goes first.         *)
(***************************************************************************)

\* What a step that pushes m, or none, does to the vector of the heap.
LEMMA SendsHeap ==
  ASSUME OInv, RestOK', NEW unsent \in [Files -> Seq(Message)], Sends(unsent)
  PROVE  \/ pq' = pq
         \/ \E m \in Message :
              /\ m.timestamp = our_sequence_number'[m.file]
              /\ pq' = PushHeap(pq, m)
<1>1. CASE NoPush(unsent)
  BY <1>1 DEF NoPush
<1>2. ASSUME NEW f \in Files, NEW t \in MessageType, Push(Stamped(f, t), unsent)
      PROVE  \/ pq' = pq
             \/ \E m \in Message :
                  /\ m.timestamp = our_sequence_number'[m.file]
                  /\ pq' = PushHeap(pq, m)
  <2>1. /\ Stamped(f, t) \in Message
        /\ Stamped(f, t).timestamp = our_sequence_number'[Stamped(f, t).file]
    BY StampedType
  <2>2. pq' = pq \/ pq' = PushHeap(pq, Stamped(f, t))
    BY <1>2 DEF Push
  <2> QED
    BY <2>1, <2>2
<1> QED
  BY <1>1, <1>2 DEF Sends

\* Pushing keeps the stamps in bounds, and puts nothing first that comes after
\* what is first or has the same file and a number that is not less.
LEMMA SendsFirst ==
  ASSUME OInv, OInv', Grows, Stamps,
         NEW unsent \in [Files -> Seq(Message)], Sends(unsent)
  PROVE  /\ Stamps'
         /\ pq # <<>> =>
              \/ pq'[1] = pq[1]
              \/ /\ pq'[1].timestamp < pq[1].timestamp
                 /\ pq'[1].timestamp = our_sequence_number'[pq'[1].file]
<1>1. /\ pq \in Seq(Message) /\ pq' \in Seq(Message) /\ RestOK /\ RestOK'
      /\ our_sequence_number \in [Files -> 0 .. MaxNumber]
      /\ our_sequence_number' \in [Files -> 0 .. MaxNumber]
  BY DEF OInv, RestOK
<1>2. \A k \in 1 .. Len(pq) : /\ pq[k] \in Message
                              /\ pq[k].file \in Files
                              /\ pq[k].timestamp \in 0 .. MaxNumber
  <2>1. \A k \in 1 .. Len(pq) : pq[k] \in Message
    BY <1>1, ElementOfSeq
  <2> QED
    BY <2>1 DEF Message
<1>3. \A k \in 1 .. Len(pq) : pq[k].timestamp <= our_sequence_number'[pq[k].file]
  <2> TAKE k \in 1 .. Len(pq)
  <2> DEFINE f == pq[k].file
  <2>1. /\ f \in Files /\ pq[k].timestamp \in 0 .. MaxNumber
        /\ our_sequence_number[f] \in 0 .. MaxNumber
        /\ our_sequence_number'[f] \in 0 .. MaxNumber
    BY <1>1, <1>2
  <2>2. pq[k].timestamp <= our_sequence_number[f]
    BY DEF Stamps
  <2>3. our_sequence_number[f] <= our_sequence_number'[f]
    BY <2>1 DEF Grows
  <2> QED
    BY <2>1, <2>2, <2>3
<1>4. CASE pq' = pq
  BY <1>3, <1>4 DEF Stamps
<1>5. ASSUME NEW m \in Message,
             m.timestamp = our_sequence_number'[m.file],
             pq' = PushHeap(pq, m)
      PROVE  /\ Stamps'
             /\ pq # <<>> =>
                  \/ pq'[1] = pq[1]
                  \/ /\ pq'[1].timestamp < pq[1].timestamp
                     /\ pq'[1].timestamp = our_sequence_number'[pq'[1].file]
  <2>1. /\ \A h \in 1 .. Len(pq') : pq'[h] = m \/ \E k \in 1 .. Len(pq) : pq'[h] = pq[k]
        /\ pq # <<>> => pq'[1] = pq[1] \/ (pq'[1] = m /\ After(pq[1], m))
    <3> DEFINE s == PushHeap(pq, m)
    <3>1. /\ Len(s) = Len(pq) + 1
          /\ \A h \in 1 .. Len(s) : s[h] = m \/ \E k \in 1 .. Len(pq) : s[h] = pq[k]
          /\ pq # <<>> => s[1] = pq[1] \/ (s[1] = m /\ After(pq[1], m))
      BY <1>1, PushHeapType
    <3> QED
      BY <1>5, <3>1
  <2>2. m.file \in Files /\ m.timestamp \in 0 .. MaxNumber
    BY DEF Message
  <2>3. Stamps'
    <3>1. ASSUME NEW h \in 1 .. Len(pq')
          PROVE  pq'[h].timestamp <= our_sequence_number'[pq'[h].file]
      <4>1. CASE pq'[h] = m
        BY <1>5, <2>2, <4>1
      <4>2. CASE \E k \in 1 .. Len(pq) : pq'[h] = pq[k]
        BY <1>3, <4>2
      <4> QED
        BY <2>1, <4>1, <4>2
    <3> QED
      BY <3>1 DEF Stamps
  <2>4. ASSUME pq # <<>>, pq'[1] = m, After(pq[1], m)
        PROVE  /\ pq'[1].timestamp < pq[1].timestamp
               /\ pq'[1].timestamp = our_sequence_number'[pq'[1].file]
    <3>1. Len(pq) # 0 /\ Len(pq) \in Nat
      BY <1>1, <2>4, EmptySeq
    <3>2. 1 \in 1 .. Len(pq)
      BY <3>1
    <3>3. pq[1].timestamp \in 0 .. MaxNumber
      BY <1>2, <3>2
    <3>4. pq[1].timestamp > m.timestamp
      BY <2>4 DEF After
    <3>5. m.timestamp < pq[1].timestamp
      BY <2>2, <3>3, <3>4
    <3> QED
      BY <1>5, <2>4, <3>5
  <2> QED
    BY <2>1, <2>3, <2>4
<1> QED
  BY <1>1, <1>4, <1>5, SendsHeap

\* Every step keeps what makes pop() remove what top() returned.
LEMMA DInvNext ==
  ASSUME OInv, OInv', NumberAssumption, DInv, [Next]_vars
  PROVE  DInv'
<1>1. /\ pq \in Seq(Message) /\ packet \in Message
      /\ sent \in [Files -> Seq(Message)]
      /\ self = "popping" => pq # <<>>
      /\ our_sequence_number \in [Files -> 0 .. MaxNumber]
      /\ our_sequence_number' \in [Files -> 0 .. MaxNumber]
      /\ packet.file \in Files /\ packet.timestamp \in 0 .. MaxNumber
  BY DEF OInv, RestOK, Message
<1>2. /\ Stamps
      /\ self = "popping" =>
           /\ packet.timestamp <= our_sequence_number[packet.file]
           /\ pq[1].timestamp <= packet.timestamp
           /\ pq[1] = packet \/ pq[1].file # packet.file
      /\ "displaced" \notin faults
  BY DEF DInv
<1>3. \A k \in 1 .. Len(pq) : /\ pq[k].file \in Files
                              /\ pq[k].timestamp \in 0 .. MaxNumber
                              /\ pq[k].timestamp <= our_sequence_number[pq[k].file]
  <2>1. \A k \in 1 .. Len(pq) : pq[k] \in Message
    BY <1>1, ElementOfSeq
  <2> QED
    BY <1>2, <2>1 DEF Message, Stamps
<1>4. pq # <<>> => 1 \in 1 .. Len(pq)
  <2>1. pq # <<>> => Len(pq) # 0 /\ Len(pq) \in Nat
    BY <1>1, EmptySeq
  <2> QED
    BY <2>1
<1>5. CASE Sending /\ Grows
  <2>1. /\ self' = "popping" => self = "popping"
        /\ packet' = packet
        /\ "displaced" \notin faults'
    BY <1>2, <1>5 DEF Sending
  <2>2. /\ Stamps'
        /\ pq # <<>> =>
             \/ pq'[1] = pq[1]
             \/ /\ pq'[1].timestamp < pq[1].timestamp
                /\ pq'[1].timestamp = our_sequence_number'[pq'[1].file]
    BY <1>1, <1>2, <1>5, SendsFirst DEF Sending
  <2>3. ASSUME self' = "popping"
        PROVE  /\ packet.timestamp <= our_sequence_number'[packet.file]
               /\ pq'[1].timestamp <= packet.timestamp
               /\ pq'[1] = packet \/ pq'[1].file # packet.file
    <3>1. /\ pq # <<>>
          /\ packet.timestamp <= our_sequence_number[packet.file]
          /\ pq[1].timestamp <= packet.timestamp
          /\ pq[1] = packet \/ pq[1].file # packet.file
          /\ pq[1].timestamp \in 0 .. MaxNumber
      BY <1>1, <1>2, <1>3, <1>4, <2>1, <2>3
    <3>2. packet.timestamp <= our_sequence_number'[packet.file]
      <4>1. our_sequence_number[packet.file] <= our_sequence_number'[packet.file]
        BY <1>1, <1>5 DEF Grows
      <4>2. /\ our_sequence_number[packet.file] \in 0 .. MaxNumber
            /\ our_sequence_number'[packet.file] \in 0 .. MaxNumber
        BY <1>1
      <4> QED
        BY <1>1, <3>1, <4>1, <4>2
    <3>3. CASE pq'[1] = pq[1]
      BY <3>1, <3>2, <3>3
    <3>4. CASE /\ pq'[1].timestamp < pq[1].timestamp
               /\ pq'[1].timestamp = our_sequence_number'[pq'[1].file]
      <4>1. /\ pq' \in Seq(Message) /\ pq' # <<>>
        BY <2>3 DEF OInv
      <4>2. Len(pq') # 0 /\ Len(pq') \in Nat
        BY <4>1, EmptySeq
      <4>3. pq'[1].timestamp \in 0 .. MaxNumber
        <5>1. 1 \in 1 .. Len(pq')
          BY <4>2
        <5>2. pq'[1] \in Message
          BY <4>1, <5>1, ElementOfSeq
        <5> QED
          BY <5>2 DEF Message
      <4>4. pq'[1].timestamp < packet.timestamp
        BY <1>1, <3>1, <3>4, <4>3
      <4>5. pq'[1].file # packet.file
        <5>1. our_sequence_number'[packet.file] \in 0 .. MaxNumber
          BY <1>1
        <5>2. pq'[1].timestamp < our_sequence_number'[packet.file]
          BY <1>1, <3>2, <4>3, <4>4, <5>1
        <5> QED
          BY <3>4, <4>3, <5>1, <5>2
      <4>6. pq'[1].timestamp <= packet.timestamp
        BY <1>1, <4>3, <4>4
      <4> QED
        BY <3>2, <4>5, <4>6
    <3> QED
      BY <2>2, <3>1, <3>3, <3>4
  <2> QED
    BY <2>1, <2>2, <2>3 DEF DInv
<1>6. CASE Treating /\ Grows
  <2>1. Unsent \in [Files -> Seq(Message)]
    BY <1>1, UnsentType
  <2>2. Stamps'
    BY <1>2, <1>6, <2>1, SendsFirst DEF Treating
  <2>3. self' # "popping" /\ "displaced" \notin faults'
    BY <1>2, <1>6 DEF Treating
  <2> QED
    BY <2>2, <2>3 DEF DInv
<1>7. CASE Top
  <2>1. /\ pq # <<>> /\ packet' = Head(pq)
        /\ UNCHANGED <<pq, our_sequence_number, faults>>
    BY <1>7 DEF Top, requester
  <2>2. packet' = pq[1]
    BY <1>1, <2>1
  <2>3. pq[1].timestamp <= pq[1].timestamp
    BY <1>3, <1>4, <2>1
  <2>4. pq[1].timestamp <= our_sequence_number[pq[1].file]
    BY <1>3, <1>4, <2>1
  <2> QED
    BY <1>2, <2>1, <2>2, <2>3, <2>4 DEF DInv, Stamps
<1>8. CASE Pop
  <2>1. /\ self = "popping" /\ pq # <<>> /\ self' = "treating"
        /\ pq' = PopHeap(pq)
        /\ our_sequence_number' = our_sequence_number
    BY <1>1, <1>8 DEF Pop, requester
  <2>2. \A h \in 1 .. Len(pq') : \E k \in 1 .. Len(pq) : pq'[h] = pq[k]
    BY <1>1, <2>1, PopHeapType
  <2>3. Stamps'
    BY <1>3, <2>1, <2>2 DEF Stamps
  <2>4. Head(pq) = pq[1]
    BY <1>1, <2>1
  <2>5. "displaced" \notin faults'
    <3>1. CASE Head(pq) = packet
      <4>1. faults' = faults \union {}
        BY <1>2, <1>8, <2>1, <2>4, <3>1 DEF Pop
      <4> QED
        BY <1>2, <4>1
    <3>2. CASE Head(pq) # packet
      <4>1. Head(pq).file # packet.file
        BY <1>2, <2>1, <2>4, <3>2
      <4>2. faults' = faults \union {"displaced by other file"}
        BY <1>8, <3>2, <4>1 DEF Pop
      <4> QED
        BY <1>2, <4>2
    <3> QED
      BY <3>1, <3>2
  <2> QED
    BY <2>1, <2>3, <2>5 DEF DInv
<1>9. CASE UNCHANGED vars
  BY <1>2, <1>9 DEF vars, requester, DInv, Stamps
<1> QED
  BY <1>5, <1>6, <1>7, <1>8, <1>9, Kinds

\* Within one file pop() removes what top() returned.  A message that is pushed
\* in between has the number of its file, which is not less than that of any
\* message of the file, so it goes first only where another file is first.
\* (client.cpp 410-411, packet.cpp PacketComparator)
THEOREM NoneDisplaced == Spec => []DisplacedByOtherFile
<1> USE NumberAssumption
<1>1. Init => OInv /\ DInv
  <2>1. Init => DInv
    BY EmptySeq DEF Init, DInv, Stamps
  <2> QED
    BY <2>1, OInvInit
<1>2. OInv /\ DInv /\ [Next]_vars => (OInv /\ DInv)'
  BY OInvNext, DInvNext
<1>3. OInv /\ DInv => DisplacedByOtherFile
  BY DEF DInv, DisplacedByOtherFile
<1> QED
  BY <1>1, <1>2, <1>3, PTL DEF Spec

-----------------------------------------------------------------------------
(***************************************************************************)
(* The queue is a FIFO until it is strained.                               *)
(***************************************************************************)
LEMMA AppendBehind ==
  ASSUME NEW M, NEW s \in Seq(M), NEW q \in Seq(M), NEW m \in M
  PROVE  s \o Append(q, m) = Append(s \o q, m)
<1> DEFINE u == s \o q
           r == Append(q, m)
<1>1. /\ Len(s) \in Nat /\ Len(q) \in Nat
      /\ u \in Seq(M) /\ Len(u) = Len(s) + Len(q)
      /\ \A k \in 1 .. Len(s) + Len(q) :
           u[k] = IF k <= Len(s) THEN s[k] ELSE q[k - Len(s)]
  BY ConcatProperties, LenProperties
<1>2. /\ r \in Seq(M) /\ Len(r) = Len(q) + 1
      /\ \A k \in 1 .. Len(q) : r[k] = q[k]
      /\ r[Len(q) + 1] = m
  BY <1>1, AppendProperties
<1> HIDE DEF u, r
<1>3. /\ Append(u, m) \in Seq(M) /\ Len(Append(u, m)) = Len(u) + 1
      /\ \A k \in 1 .. Len(u) : Append(u, m)[k] = u[k]
      /\ Append(u, m)[Len(u) + 1] = m
  <2>1. u \in Seq(M)
    BY <1>1
  <2> QED
    BY <2>1, AppendProperties
<1>4. /\ s \o r \in Seq(M) /\ Len(s \o r) = Len(s) + Len(r)
      /\ \A k \in 1 .. Len(s) + Len(r) :
           (s \o r)[k] = IF k <= Len(s) THEN s[k] ELSE r[k - Len(s)]
  BY <1>2, ConcatProperties
<1>5. Len(Append(u, m)) = Len(s \o r)
  BY <1>1, <1>2, <1>3, <1>4
<1>6. ASSUME NEW k \in 1 .. Len(Append(u, m))
      PROVE  Append(u, m)[k] = (s \o r)[k]
  <2>1. k \in 1 .. Len(s) + Len(q) + 1 /\ k \in 1 .. Len(s) + Len(r)
    BY <1>1, <1>2, <1>3
  <2>2. CASE k <= Len(s)
    BY <1>1, <1>3, <1>4, <2>1, <2>2
  <2>3. CASE k > Len(s) /\ k <= Len(s) + Len(q)
    <3>1. k - Len(s) \in 1 .. Len(q) /\ k \in 1 .. Len(s) + Len(q) /\ ~(k <= Len(s))
      BY <1>1, <2>1, <2>3
    <3>2. Append(u, m)[k] = q[k - Len(s)]
      BY <1>1, <1>3, <3>1
    <3>3. (s \o r)[k] = r[k - Len(s)]
      BY <1>4, <2>1, <3>1
    <3> QED
      BY <1>2, <3>1, <3>2, <3>3
  <2>4. CASE k = Len(s) + Len(q) + 1
    <3>1. k = Len(u) + 1 /\ k - Len(s) = Len(q) + 1 /\ ~(k <= Len(s))
      BY <1>1, <2>4
    <3>2. (s \o r)[k] = r[k - Len(s)]
      BY <1>4, <2>1, <3>1
    <3> QED
      BY <1>2, <1>3, <3>1, <3>2
  <2> QED
    BY <1>1, <2>1, <2>2, <2>3, <2>4
<1> QED
  BY <1>3, <1>4, <1>5, <1>6, SeqEqual DEF u, r

\* A step that sends, and does not strain the queue, puts the message behind the
\* others: if unsent is what hand holds and then what the queue holds, so is sent
\* after the step.
LEMMA SendsLast ==
  ASSUME OInv, OInv', Grows, Stamps, Queued, max_size \in Nat, max_size >= 3,
         NEW hand \in [Files -> Seq(Message)],
         NEW unsent \in [Files -> Seq(Message)],
         \A f \in Files : unsent[f] = hand[f] \o InQueue(f),
         Sends(unsent), ~strained'
  PROVE  /\ Queued'
         /\ pq # <<>> => pq'[1] = pq[1]
         /\ \A f \in Files : sent'[f] = hand[f] \o InQueue(f)'
         /\ ~strained
<1>1. /\ pq \in Seq(Message) /\ Len(pq) \in Nat /\ DOMAIN pq = 1 .. Len(pq)
      /\ our_sequence_number \in [Files -> 0 .. MaxNumber]
      /\ our_sequence_number' \in [Files -> 0 .. MaxNumber]
      /\ RestOK'
  BY LenProperties DEF OInv, RestOK
<1>2. \A k \in 1 .. Len(pq) : /\ pq[k].file \in Files
                              /\ pq[k].timestamp \in 0 .. MaxNumber
                              /\ pq[k].timestamp <= our_sequence_number[pq[k].file]
  <2>1. \A k \in 1 .. Len(pq) : pq[k] \in Message
    BY <1>1, ElementOfSeq
  <2> QED
    BY <2>1 DEF Message, Stamps
<1>3. pq # <<>> => 1 \in 1 .. Len(pq)
  <2>1. pq # <<>> => Len(pq) # 0
    BY <1>1, EmptySeq
  <2> QED
    BY <1>1, <2>1
<1>4. CASE NoPush(unsent)
  <2>1. pq' = pq /\ sent' = unsent /\ strained' = strained
    BY <1>4 DEF NoPush
  <2> QED
    BY <2>1 DEF Queued, InQueue, InOrder
<1>5. ASSUME NEW f \in Files, NEW t \in MessageType, Push(Stamped(f, t), unsent)
      PROVE  /\ Queued'
             /\ pq # <<>> => pq'[1] = pq[1]
             /\ \A g \in Files : sent'[g] = hand[g] \o InQueue(g)'
             /\ ~strained
  <2> DEFINE m == Stamped(f, t)
             n == Len(pq) + 1
  <2>1. /\ m \in Message /\ m.file = f
        /\ m.timestamp = our_sequence_number'[f]
        /\ m.timestamp \in 0 .. MaxNumber
    BY <1>1, StampedType
  <2>2. /\ sent' = [unsent EXCEPT ![m.file] = Append(@, m)]
        /\ ~strained /\ ~Strains(m)
        /\ pq' = IF Len(pq) < max_size THEN PushHeap(pq, m) ELSE pq
    BY <1>5 DEF Push
  <2> HIDE DEF m
  <2>3. /\ \A k \in 1 .. Len(pq) : pq[k].file = f
        /\ Len(pq) <= 2
    <3>1. ~(Len(pq) > 2)
      BY <2>2 DEF Strains
    <3>2. \A k \in 1 .. Len(pq) : pq[k].file = f
      BY <1>1, <2>1, <2>2 DEF Strains, Range
    <3> QED
      BY <1>1, <3>1, <3>2
  <2>4. \A k \in 1 .. Len(pq) : pq[k].timestamp <= m.timestamp
    <3> TAKE k \in 1 .. Len(pq)
    <3>1. /\ pq[k].timestamp \in 0 .. MaxNumber
          /\ pq[k].timestamp <= our_sequence_number[f]
      BY <1>2, <2>3
    <3>2. our_sequence_number[f] <= our_sequence_number'[f]
      BY DEF Grows
    <3>3. /\ our_sequence_number[f] \in 0 .. MaxNumber
          /\ our_sequence_number'[f] \in 0 .. MaxNumber
      BY <1>1
    <3> QED
      BY <2>1, <3>1, <3>2, <3>3
  <2>5. pq' = Append(pq, m)
    <3>1. Len(pq) < max_size
      BY <1>1, <2>3
    <3>2. \A k \in 1 .. Len(pq) : ~(pq[k].timestamp > m.timestamp)
      BY <1>2, <2>1, <2>4
    <3>3. PushHeap(pq, m) = Append(pq, m)
      BY <1>1, <2>1, <3>2, PushLast
    <3> QED
      BY <2>2, <3>1, <3>3
  <2>6. /\ pq' \in Seq(Message) /\ Len(pq') = n
        /\ \A k \in 1 .. Len(pq) : pq'[k] = pq[k]
        /\ pq'[n] = m
    BY <1>1, <2>1, <2>5, AppendProperties
  <2>7. \A k \in 1 .. n : k \in 1 .. Len(pq) \/ k = n
    BY <1>1
  <2>8. n \in 1 .. 3 /\ 1 \in 1 .. n /\ pq' # <<>>
    <3>1. n \in 1 .. 3 /\ 1 \in 1 .. n
      BY <1>1, <2>3
    <3> QED
      BY <2>6, <3>1, EmptySeq
  <2> HIDE DEF n
  <2>9. \A k \in 1 .. n : pq'[k].file = f
    BY <2>1, <2>3, <2>6, <2>7
  <2>10. Queued'
    <3>1. InOrder(pq')
      <4>1. ASSUME NEW k \in 1 .. n, NEW l \in 1 .. n, k < l
            PROVE  pq'[k].timestamp <= pq'[l].timestamp
        <5>1. k \in 1 .. Len(pq)
          BY <1>1, <2>7, <4>1 DEF n
        <5>2. CASE l \in 1 .. Len(pq)
          BY <2>6, <4>1, <5>1, <5>2 DEF Queued, InOrder
        <5>3. CASE l = n
          BY <2>4, <2>6, <5>1, <5>3
        <5> QED
          BY <2>7, <5>2, <5>3
      <4> QED
        BY <2>6, <4>1 DEF InOrder
    <3>2. Len(pq') <= 3
      BY <2>6, <2>8
    <3>3. \A k \in 1 .. Len(pq') : pq'[k].file = pq'[1].file
      BY <2>6, <2>8, <2>9
    <3> QED
      BY <3>1, <3>2, <3>3 DEF Queued
  <2>11. pq # <<>> => pq'[1] = pq[1]
    BY <1>3, <2>6
  <2>12. ASSUME NEW g \in Files
         PROVE  sent'[g] = hand[g] \o InQueue(g)'
    <3>1. CASE g = f
      <4>1. InQueue(g) = pq
        BY <1>3, <2>3, <3>1 DEF InQueue
      <4>2. InQueue(g)' = Append(pq, m)
        BY <2>5, <2>8, <2>9, <3>1 DEF InQueue
      <4>3. unsent[g] = hand[g] \o pq
        BY <4>1
      <4>4. sent'[g] = Append(hand[g] \o pq, m)
        BY <2>1, <2>2, <3>1, <4>3
      <4>5. hand[g] \o Append(pq, m) = Append(hand[g] \o pq, m)
        <5>1. hand[g] \in Seq(Message) /\ pq \in Seq(Message) /\ m \in Message
          BY <1>1, <2>1
        <5> QED
          BY <5>1, AppendBehind
      <4> QED
        BY <4>2, <4>4, <4>5
    <3>2. CASE g # f
      <4>1. InQueue(g) = <<>>
        BY <1>3, <2>3, <3>2 DEF InQueue
      <4>2. InQueue(g)' = <<>>
        BY <2>8, <2>9, <3>2 DEF InQueue
      <4>3. sent'[g] = unsent[g]
        BY <2>1, <2>2, <3>2
      <4>4. unsent[g] = hand[g] \o <<>>
        BY <4>1
      <4>5. hand[g] \o InQueue(g)' = hand[g] \o <<>>
        BY <4>2
      <4> QED
        BY <4>3, <4>4, <4>5
    <3> QED
      BY <3>1, <3>2
  <2> QED
    BY <2>2, <2>10, <2>11, <2>12
<1> QED
  BY <1>4, <1>5 DEF Sends

\* A sequence is its first element and the rest.
LEMMA HeadFirst ==
  ASSUME NEW M, NEW q \in Seq(M), q # <<>>
  PROVE  q = <<q[1]>> \o Tail(q)
<1>1. Len(q) # 0 /\ Len(q) \in Nat
  BY EmptySeq
<1>2. /\ <<q[1]>> \in Seq(M) /\ Len(<<q[1]>>) = 1 /\ <<q[1]>>[1] = q[1]
  <2>1. q[1] \in M
    BY <1>1, ElementOfSeq
  <2> QED
    BY <2>1
<1>3. /\ Tail(q) \in Seq(M) /\ Len(Tail(q)) = Len(q) - 1
      /\ \A k \in 1 .. Len(Tail(q)) : Tail(q)[k] = q[k + 1]
  BY HeadTailProperties
<1> DEFINE s == <<q[1]>> \o Tail(q)
<1>4. /\ s \in Seq(M) /\ Len(s) = 1 + Len(Tail(q))
      /\ \A k \in 1 .. 1 + Len(Tail(q)) :
           s[k] = IF k <= 1 THEN <<q[1]>>[k] ELSE Tail(q)[k - 1]
  BY <1>2, <1>3, ConcatProperties
<1> HIDE DEF s
<1>5. Len(s) = Len(q)
  BY <1>1, <1>3, <1>4
<1>6. ASSUME NEW k \in 1 .. Len(q) PROVE q[k] = s[k]
  <2>1. CASE k = 1
    BY <1>1, <1>2, <1>3, <1>4, <2>1
  <2>2. CASE k # 1
    <3>1. k - 1 \in 1 .. Len(Tail(q)) /\ k - 1 + 1 = k /\ ~(k <= 1)
      BY <1>1, <1>3, <2>2
    <3> QED
      BY <1>3, <1>4, <1>5, <3>1
  <2> QED
    BY <2>1, <2>2
<1> QED
  BY <1>4, <1>5, <1>6, SeqEqual DEF s

\* What has been popped and not treated is a sequence of messages.
LEMMA HandType ==
  ASSUME packet \in Message
  PROVE  \A f : InHand(f) \in Seq(Message)
BY EmptySeq DEF InHand

\* Every step keeps the queue a FIFO until it is strained.
LEMMA FInvNext ==
  ASSUME OInv, OInv', NumberAssumption, max_size \in Nat, max_size >= 3,
         DInv, FInv, [Next]_vars
  PROVE  FInv'
<1>1. /\ pq \in Seq(Message) /\ packet \in Message /\ packet.file \in Files
      /\ sent \in [Files -> Seq(Message)]
      /\ strained \in BOOLEAN /\ faults \subseteq Fault
      /\ self = "popping" => pq # <<>>
      /\ Stamps
  BY DEF OInv, Message, DInv
<1>2. /\ ~strained /\ faults = {} => Fifo
      /\ "misordered" \in faults => strained
  BY DEF FInv
<1>3. Next => faults = {}
  BY DEF Next, MainThread, OtherThreads, SelfThread, NoFault, RequestResource,
     EnterCriticalSection, ReleaseResource, OtherRequests, OtherReleases, Top, Pop,
     TreatRequest, TreatReply, TreatInquire, LeaveInquire, Relinquish,
     TreatRelinquish, TreatRelease, Treat
<1>4. CASE faults = {} /\ Sending /\ Grows
  <2>1. /\ self' = self \/ (self = "spinning" /\ self' = "looking")
        /\ packet' = packet
        /\ Sends(sent)
        /\ "misordered" \notin faults'
    BY <1>4 DEF Sending
  <2>2. ASSUME ~strained'
        PROVE  Fifo'
    <3> DEFINE hand == [f \in Files |-> InHand(f)]
    <3>1. ~strained
      <4>1. Sends(sent) => (strained => strained')
        BY DEF Sends, Push, NoPush
      <4> QED
        BY <2>1, <2>2, <4>1
    <3>2. /\ Queued
          /\ self = "popping" => pq[1] = packet
          /\ \A f \in Files : sent[f] = InHand(f) \o InQueue(f)
      BY <1>2, <1>4, <3>1 DEF Fifo
    <3>3. /\ hand \in [Files -> Seq(Message)]
          /\ \A f \in Files : hand[f] = InHand(f)
      BY <1>1, HandType
    <3>4. \A f \in Files : sent[f] = hand[f] \o InQueue(f)
      <4> HIDE DEF hand
      <4> QED
        BY <3>2, <3>3
    <3>5. \A f \in Files : InHand(f)' = InHand(f)
      BY <2>1 DEF InHand
    <3> HIDE DEF hand
    <3>6. /\ Queued'
          /\ pq # <<>> => pq'[1] = pq[1]
          /\ \A f \in Files : sent'[f] = hand[f] \o InQueue(f)'
      BY <1>1, <1>4, <2>1, <2>2, <3>2, <3>3, <3>4, SendsLast
    <3>7. \A f \in Files : sent'[f] = InHand(f)' \o InQueue(f)'
      BY <3>3, <3>5, <3>6
    <3>8. self' = "popping" => pq'[1] = packet'
      BY <1>1, <2>1, <3>2, <3>6
    <3> QED
      BY <3>6, <3>7, <3>8 DEF Fifo
  <2> QED
    BY <2>1, <2>2 DEF FInv
<1>5. CASE faults = {} /\ Treating /\ Grows
  <2> DEFINE f0 == packet.file
             hand == [f \in Files |-> <<>>]
  <2>1. /\ self = "treating" /\ self' # "treating" /\ self' # "popping"
        /\ Sends(Unsent)
        /\ faults' = faults \union
             IF sent[f0] # <<>> /\ Head(sent[f0]) = packet THEN {} ELSE {"misordered"}
    BY <1>5 DEF Treating
  <2>2. Unsent \in [Files -> Seq(Message)]
    BY <1>1, UnsentType
  <2>3. ASSUME ~strained'
        PROVE  Fifo' /\ "misordered" \notin faults'
    <3>1. ~strained
      <4>1. Sends(Unsent) => (strained => strained')
        BY DEF Sends, Push, NoPush
      <4> QED
        BY <2>1, <2>3, <4>1
    <3>2. Queued /\ \A f \in Files : sent[f] = InHand(f) \o InQueue(f)
      BY <1>2, <1>5, <3>1 DEF Fifo
    <3>3. \A f \in Files : InQueue(f) \in Seq(Message)
      BY <1>1, EmptySeq DEF InQueue
    <3>4. sent[f0] = <<packet>> \o InQueue(f0)
      <4>1. InHand(f0) = <<packet>>
        BY <2>1 DEF InHand
      <4> QED
        BY <1>1, <3>2, <4>1
    <3>5. /\ sent[f0] \in Seq(Message) /\ Len(sent[f0]) >= 1
          /\ sent[f0][1] = packet
      <4>1. /\ <<packet>> \in Seq(Message) /\ Len(<<packet>>) = 1
            /\ <<packet>>[1] = packet
        BY <1>1
      <4>2. /\ <<packet>> \o InQueue(f0) \in Seq(Message)
            /\ Len(<<packet>> \o InQueue(f0)) = 1 + Len(InQueue(f0))
            /\ \A k \in 1 .. 1 + Len(InQueue(f0)) :
                 (<<packet>> \o InQueue(f0))[k] =
                   IF k <= 1 THEN <<packet>>[k] ELSE InQueue(f0)[k - 1]
        BY <1>1, <3>3, <4>1, ConcatProperties
      <4>3. Len(InQueue(f0)) \in Nat
        BY <1>1, <3>3, LenProperties
      <4>4. 1 \in 1 .. 1 + Len(InQueue(f0)) /\ 1 + Len(InQueue(f0)) >= 1
        BY <4>3
      <4> QED
        BY <3>4, <4>1, <4>2, <4>4
    <3>6. sent[f0] # <<>> /\ Head(sent[f0]) = packet
      BY <3>5, EmptySeq
    <3>7. "misordered" \notin faults'
      BY <1>5, <2>1, <3>6
    <3>8. ASSUME NEW f \in Files
          PROVE  Unsent[f] = InQueue(f)
      <4>1. packet \in Range(sent[f0])
        <5>1. 1 \in DOMAIN sent[f0]
          BY <3>5, LenProperties
        <5> QED
          BY <3>5, <5>1 DEF Range
      <4>2. Unsent = [sent EXCEPT ![f0] = RemoveFirst(@, packet)]
        BY <4>1 DEF Unsent
      <4>3. CASE f = f0
        <5>1. Unsent[f] = RemoveFirst(sent[f0], packet)
          BY <1>1, <4>2, <4>3
        <5>2. RemoveFirst(<<packet>> \o InQueue(f0), packet) = InQueue(f0)
          BY <1>1, <3>3, RemoveHead
        <5>3. InQueue(f) = InQueue(f0)
          BY <4>3 DEF InQueue
        <5> QED
          BY <3>4, <5>1, <5>2, <5>3
      <4>4. CASE f # f0
        <5>1. InHand(f) = <<>>
          BY <4>4 DEF InHand
        <5>2. Unsent[f] = sent[f]
          BY <1>1, <4>2, <4>4
        <5>3. sent[f] = <<>> \o InQueue(f)
          BY <3>2, <5>1
        <5>4. <<>> \o InQueue(f) = InQueue(f)
          BY <3>3, ConcatEmptySeq
        <5> QED
          BY <5>2, <5>3, <5>4
      <4> QED
        BY <4>3, <4>4
    <3>9. /\ hand \in [Files -> Seq(Message)]
          /\ \A f \in Files : hand[f] = <<>>
      BY EmptySeq
    <3> HIDE DEF hand
    <3>10. \A f \in Files : Unsent[f] = hand[f] \o InQueue(f)
      <4> TAKE f \in Files
      <4>1. <<>> \o InQueue(f) = InQueue(f)
        BY <3>3, ConcatEmptySeq
      <4>2. hand[f] \o InQueue(f) = InQueue(f)
        BY <3>9, <4>1
      <4> QED
        BY <3>8, <4>2
    <3>11. /\ Queued'
           /\ \A f \in Files : sent'[f] = hand[f] \o InQueue(f)'
      BY <1>1, <1>5, <2>1, <2>2, <2>3, <3>2, <3>9, <3>10, SendsLast
    <3>12. \A f \in Files : InHand(f)' = <<>>
      BY <2>1 DEF InHand
    <3>13. \A f \in Files : sent'[f] = InHand(f)' \o InQueue(f)'
      BY <3>9, <3>11, <3>12
    <3> QED
      BY <2>1, <3>7, <3>11, <3>13 DEF Fifo
  <2>4. strained' \in BOOLEAN
    BY DEF OInv
  <2> QED
    BY <2>3, <2>4 DEF FInv
<1>6. CASE faults = {} /\ Top
  <2>1. /\ self = "looking" /\ self' = "popping"
        /\ pq # <<>> /\ packet' = Head(pq)
        /\ UNCHANGED <<pq, sent, strained, faults>>
    BY <1>6 DEF Top
  <2>2. packet' = pq[1]
    BY <1>1, <2>1
  <2>3. ASSUME ~strained' PROVE Fifo'
    <3>1. Queued /\ \A f \in Files : sent[f] = InHand(f) \o InQueue(f)
      BY <1>2, <1>6, <2>1, <2>3 DEF Fifo
    <3>2. \A f \in Files : InHand(f)' = InHand(f) /\ InQueue(f)' = InQueue(f)
      BY <2>1 DEF InHand, InQueue
    <3>3. Queued'
      BY <2>1, <3>1 DEF Queued, InOrder
    <3> QED
      BY <2>1, <2>2, <3>1, <3>2, <3>3 DEF Fifo
  <2> QED
    BY <1>2, <2>1, <2>3 DEF FInv
<1>7. CASE faults = {} /\ Pop
  <2>1. /\ self = "popping" /\ pq # <<>> /\ self' = "treating"
        /\ pq' = PopHeap(pq)
        /\ UNCHANGED <<packet, sent, strained>>
        /\ "misordered" \notin faults'
    BY <1>1, <1>7 DEF Pop
  <2>2. ASSUME ~strained' PROVE Fifo'
    <3>1. /\ Queued
          /\ pq[1] = packet
          /\ \A f \in Files : sent[f] = InHand(f) \o InQueue(f)
      BY <1>2, <1>7, <2>1, <2>2 DEF Fifo
    <3>2. Len(pq) \in 1 .. 3
      <4>1. Len(pq) # 0 /\ Len(pq) \in Nat
        BY <1>1, <2>1, EmptySeq
      <4>2. Len(pq) <= 3
        BY <3>1 DEF Queued
      <4>3. \A n \in Nat : n # 0 /\ n <= 3 => n \in 1 .. 3
        OBVIOUS
      <4> QED
        BY <4>1, <4>2, <4>3
    <3>3. \A k \in 1 .. Len(pq) : pq[k].timestamp \in Int
      <4>1. \A k \in 1 .. Len(pq) : pq[k] \in Message
        BY <1>1, ElementOfSeq
      <4> QED
        BY <4>1 DEF Message
    <3>4. InOrder(pq)
      BY <3>1 DEF Queued
    <3>5. pq' = Tail(pq)
      <4>1. PopHeap(pq) = Tail(pq)
        BY <1>1, <3>2, <3>3, <3>4, PopFirst
      <4> QED
        BY <2>1, <4>1
    <3>6. /\ pq' \in Seq(Message)
          /\ Len(pq') = Len(pq) - 1
          /\ \A k \in 1 .. Len(pq') : pq'[k] = pq[k + 1]
      BY <1>1, <2>1, <3>5, HeadTailProperties
    <3>7. \A k \in 1 .. Len(pq') : pq'[k].file = packet.file
      <4> TAKE k \in 1 .. Len(pq')
      <4>1. k + 1 \in 1 .. Len(pq)
        BY <3>2, <3>6
      <4> QED
        BY <3>1, <3>6, <4>1 DEF Queued
    <3>8. Queued'
      <4>1. InOrder(pq')
        <5>1. ASSUME NEW k \in 1 .. Len(pq'), NEW l \in 1 .. Len(pq'), k < l
              PROVE  pq'[k].timestamp <= pq'[l].timestamp
          <6>1. k + 1 \in 1 .. Len(pq) /\ l + 1 \in 1 .. Len(pq) /\ k + 1 < l + 1
            BY <3>2, <3>6, <5>1
          <6> QED
            BY <3>4, <3>6, <6>1 DEF InOrder
        <5> QED
          BY <5>1 DEF InOrder
      <4>2. Len(pq') <= 3
        BY <3>2, <3>6
      <4>3. \A k \in 1 .. Len(pq') : pq'[k].file = pq'[1].file
        <5> TAKE k \in 1 .. Len(pq')
        <5>1. 1 \in 1 .. Len(pq')
          BY <3>2, <3>6
        <5> QED
          BY <3>7, <5>1
      <4> QED
        BY <4>1, <4>2, <4>3 DEF Queued
    <3>9. ASSUME NEW f \in Files
          PROVE  sent'[f] = InHand(f)' \o InQueue(f)'
      <4>1. InHand(f) = <<>>
        BY <2>1 DEF InHand
      <4>2. InQueue(f) \in Seq(Message)
        BY <1>1, EmptySeq DEF InQueue
      <4>3. sent'[f] = InQueue(f)
        <5>1. <<>> \o InQueue(f) = InQueue(f)
          BY <4>2, ConcatEmptySeq
        <5> QED
          BY <2>1, <3>1, <4>1, <5>1
      <4>4. CASE f = packet.file
        <5>1. InQueue(f) = pq
          BY <2>1, <3>1, <4>4 DEF InQueue
        <5>2. InHand(f)' = <<packet>>
          BY <2>1, <4>4 DEF InHand
        <5>3. InQueue(f)' = pq'
          <6>1. CASE pq' = <<>>
            BY <6>1 DEF InQueue
          <6>2. CASE pq' # <<>>
            <7>1. Len(pq') # 0 /\ Len(pq') \in Nat
              BY <3>6, <6>2, EmptySeq
            <7>2. 1 \in 1 .. Len(pq')
              BY <7>1
            <7> QED
              BY <3>7, <4>4, <6>2, <7>2 DEF InQueue
          <6> QED
            BY <6>1, <6>2
        <5>4. pq = <<packet>> \o Tail(pq)
          <6>1. pq = <<pq[1]>> \o Tail(pq)
            BY <1>1, <2>1, HeadFirst
          <6> QED
            BY <3>1, <6>1
        <5> QED
          BY <3>5, <4>3, <5>1, <5>2, <5>3, <5>4
      <4>5. CASE f # packet.file
        <5>1. InQueue(f) = <<>>
          BY <3>1, <4>5 DEF InQueue
        <5>2. InHand(f)' = <<>>
          BY <2>1, <4>5 DEF InHand
        <5>3. InQueue(f)' = <<>>
          <6>1. CASE pq' = <<>>
            BY <6>1 DEF InQueue
          <6>2. CASE pq' # <<>>
            <7>1. Len(pq') # 0 /\ Len(pq') \in Nat
              BY <3>6, <6>2, EmptySeq
            <7>2. 1 \in 1 .. Len(pq')
              BY <7>1
            <7> QED
              BY <3>7, <4>5, <7>2 DEF InQueue
          <6> QED
            BY <6>1, <6>2
        <5>4. <<>> \o <<>> = <<>>
          BY EmptySeq, ConcatEmptySeq
        <5> QED
          BY <4>3, <5>1, <5>2, <5>3, <5>4
      <4> QED
        BY <4>4, <4>5
    <3> QED
      BY <2>1, <3>8, <3>9 DEF Fifo
  <2> QED
    BY <2>1, <2>2 DEF FInv
<1>8. CASE UNCHANGED vars
  <2>1. UNCHANGED <<pq, self, packet, sent, strained, faults>>
    BY <1>8 DEF vars
  <2> QED
    BY <1>2, <2>1 DEF FInv, Fifo, Queued, InOrder, InHand, InQueue
<1> QED
  BY <1>3, <1>4, <1>5, <1>6, <1>7, <1>8, Kinds

\* A queue that never held messages of two files, nor four messages, is a FIFO,
\* if it has room for three: each message is treated once, in the order of
\* sending.  Module Maekawa takes it for one.
\* (client.cpp 405-421, messagequeue.h 11-17, config.h 9)
THEOREM FifoUnlessStrained ==
  ASSUME max_size >= 3
  PROVE  Spec => []TreatedInOrder
<1> USE NumberAssumption, SizeAssumption
<1>1. Init => OInv /\ DInv /\ FInv
  <2>1. Init => DInv
    BY EmptySeq DEF Init, DInv, Stamps
  <2>2. ASSUME Init PROVE Fifo
    <3>1. /\ pq = <<>> /\ self = "looking" /\ Len(pq) = 0
          /\ \A f \in Files : sent[f] = <<>>
      BY <2>2, EmptySeq DEF Init
    <3>2. \A f \in Files : InHand(f) = <<>> /\ InQueue(f) = <<>>
      BY <3>1 DEF InHand, InQueue
    <3>3. <<>> \o <<>> = <<>>
      BY EmptySeq, ConcatEmptySeq
    <3>4. Queued
      BY <3>1 DEF Queued, InOrder
    <3> QED
      BY <3>1, <3>2, <3>3, <3>4 DEF Fifo
  <2>3. Init => FInv
    BY <2>2 DEF Init, FInv
  <2> QED
    BY <2>1, <2>3, OInvInit
<1>2. OInv /\ DInv /\ FInv /\ [Next]_vars => (OInv /\ DInv /\ FInv)'
  BY OInvNext, DInvNext, FInvNext DEF SizeAssumption
<1>3. FInv => TreatedInOrder
  BY DEF FInv, TreatedInOrder
<1> QED
  BY <1>1, <1>2, <1>3, PTL DEF Spec

-----------------------------------------------------------------------------
(***************************************************************************)
(* The heap only changes the order: no message is lost or doubled.         *)
(***************************************************************************)

\* The places of the path p are different.
Distinct(p) == \A k, l \in 1 .. Len(p) : p[k] = p[l] => k = l

\* h is on the path p.
On(p, h) == \E k \in 1 .. Len(p) : p[k] = h

\* The message that is at the place h after the shift was at g[h]: what is on p
\* comes from the next place of p, what is at the last place from c.
Shifts(g, n, p, c) ==
  \A h \in 1 .. n :
    /\ h = p[Len(p)] => g[h] = c
    /\ \A k \in 1 .. Len(p) - 1 : h = p[k] => g[h] = p[k + 1]
    /\ ~On(p, h) => g[h] = h

\* Two places get their messages from different places, and if c is no place,
\* none gets it from the first place of p.
LEMMA ShiftApart ==
  ASSUME NEW n \in Nat, NEW p \in Seq(1 .. n), Len(p) >= 1, Distinct(p),
         NEW c, c = p[1] \/ c \notin 1 .. n,
         NEW g, Shifts(g, n, p, c)
  PROVE  /\ \A h, l \in 1 .. n : g[h] = g[l] => h = l
         /\ \A h \in 1 .. n : g[h] = c \/ (g[h] \in 1 .. n /\ g[h] # p[1])
<1>1. Len(p) \in Nat /\ \A k \in 1 .. Len(p) : p[k] \in 1 .. n
  BY LenProperties, ElementOfSeq
<1>2. ASSUME NEW h \in 1 .. n
      PROVE  \/ h = p[Len(p)] /\ g[h] = c
             \/ \E k \in 1 .. Len(p) - 1 : h = p[k] /\ g[h] = p[k + 1]
             \/ ~On(p, h) /\ g[h] = h
  <2>1. CASE On(p, h)
    <3>1. PICK k \in 1 .. Len(p) : p[k] = h
      BY <2>1 DEF On
    <3>2. k = Len(p) \/ k \in 1 .. Len(p) - 1
      BY <1>1
    <3> QED
      BY <3>1, <3>2 DEF Shifts
  <2>2. CASE ~On(p, h)
    BY <2>2 DEF Shifts
  <2> QED
    BY <2>1, <2>2
<1>3. /\ 1 \in 1 .. Len(p)
      /\ \A k \in 1 .. Len(p) - 1 : /\ k \in 1 .. Len(p) /\ k + 1 \in 1 .. Len(p)
                                    /\ k + 1 # 1 /\ k # Len(p)
      /\ \A k, l \in 1 .. Len(p) - 1 : k + 1 = l + 1 => k = l
  BY <1>1
<1>4. \A k \in 1 .. Len(p) : p[k] \in 1 .. n /\ On(p, p[k])
  BY <1>1 DEF On
<1>5. ASSUME NEW h \in 1 .. n
      PROVE  g[h] = c \/ (g[h] \in 1 .. n /\ g[h] # p[1])
  <2>1. ASSUME NEW k \in 1 .. Len(p) - 1, g[h] = p[k + 1]
        PROVE  g[h] \in 1 .. n /\ g[h] # p[1]
    BY <1>1, <1>3, <2>1 DEF Distinct
  <2>2. ASSUME ~On(p, h), g[h] = h
        PROVE  g[h] \in 1 .. n /\ g[h] # p[1]
    BY <1>3, <1>4, <2>2
  <2> QED
    BY <1>2, <2>1, <2>2
<1>6. ASSUME NEW h \in 1 .. n, NEW l \in 1 .. n, g[h] = g[l]
      PROVE  h = l
  <2>1. ASSUME h = p[Len(p)], g[h] = c
        PROVE  h = l
    <3>1. ASSUME NEW k \in 1 .. Len(p) - 1, g[l] = p[k + 1]
          PROVE  FALSE
      <4>1. p[k + 1] \in 1 .. n /\ p[k + 1] # p[1]
        BY <1>3, <1>4 DEF Distinct
      <4> QED
        BY <1>6, <2>1, <3>1, <4>1
    <3>2. ASSUME ~On(p, l), g[l] = l
          PROVE  FALSE
      <4>1. l # p[1]
        BY <1>3, <1>4, <3>2
      <4> QED
        BY <1>6, <2>1, <3>2, <4>1
    <3> QED
      BY <1>2, <2>1, <3>1, <3>2
  <2>2. ASSUME NEW k \in 1 .. Len(p) - 1, h = p[k], g[h] = p[k + 1]
        PROVE  h = l
    <3>1. g[l] \in 1 .. n /\ g[l] # p[1] /\ On(p, g[l])
      BY <1>3, <1>4, <1>6, <2>2 DEF Distinct
    <3>2. g[l] # c
      BY <3>1
    <3>3. ASSUME NEW j \in 1 .. Len(p) - 1, l = p[j], g[l] = p[j + 1]
          PROVE  h = l
      <4>1. k + 1 = j + 1
        BY <1>3, <1>6, <2>2, <3>3 DEF Distinct
      <4> QED
        BY <1>3, <2>2, <3>3, <4>1
    <3> QED
      BY <1>2, <3>1, <3>2, <3>3
  <2>3. ASSUME ~On(p, h), g[h] = h
        PROVE  h = l
    <3>1. g[l] \in 1 .. n /\ ~On(p, g[l]) /\ g[l] # p[1]
      BY <1>3, <1>4, <1>6, <2>3
    <3>2. ASSUME NEW j \in 1 .. Len(p) - 1, g[l] = p[j + 1]
          PROVE  FALSE
      BY <1>3, <1>4, <3>1, <3>2
    <3> QED
      BY <1>2, <1>6, <2>3, <3>1, <3>2
  <2> QED
    BY <1>2, <2>1, <2>2, <2>3
<1> QED
  BY <1>5, <1>6

\* The path up from h: each place is followed by its parent.
IsRise(p, h) ==
  /\ p \in Seq(1 .. h)
  /\ Len(p) >= 1
  /\ p[1] = h
  /\ \A k \in 1 .. Len(p) - 1 : p[k + 1] = p[k] \div 2
  /\ Distinct(p)

\* The path r is h and then the path p.
IsLonger(r, n, h, p) ==
  /\ r \in Seq(1 .. n) /\ Len(r) = Len(p) + 1 /\ Len(r) >= 1 /\ r[1] = h
  /\ \A k \in 1 .. Len(p) : r[k + 1] = p[k]
  /\ Distinct(r)

\* A path with one more place before it, which is on no place of it.
LEMMA LongerPath ==
  ASSUME NEW n \in Nat, NEW h \in 1 .. n, NEW p \in Seq(1 .. n), Len(p) >= 1,
         Distinct(p), ~On(p, h)
  PROVE  IsLonger(<<h>> \o p, n, h, p)
<1> DEFINE r == <<h>> \o p
<1>1. /\ r \in Seq(1 .. n)
      /\ Len(r) = Len(p) + 1
      /\ Len(p) \in Nat
  BY StepBefore, LenProperties
<1>2. \A k \in 1 .. Len(p) + 1 : r[k] = IF k <= 1 THEN <<h>>[k] ELSE p[k - 1]
  <2>1. <<h>> \in Seq(1 .. n) /\ Len(<<h>>) = 1
    OBVIOUS
  <2>2. \A k \in 1 .. 1 + Len(p) : r[k] = IF k <= 1 THEN <<h>>[k] ELSE p[k - 1]
    BY <2>1, ConcatProperties
  <2> QED
    BY <1>1, <2>2
<1>3. <<h>>[1] = h
  OBVIOUS
<1> HIDE DEF r
<1>4. r[1] = h
  BY <1>1, <1>2, <1>3
<1>5. \A k \in 1 .. Len(p) : r[k + 1] = p[k]
  <2> SUFFICES ASSUME NEW k \in 1 .. Len(p) PROVE r[k + 1] = p[k]
    OBVIOUS
  <2>1. k + 1 \in 1 .. Len(p) + 1 /\ ~(k + 1 <= 1) /\ (k + 1) - 1 = k
    BY <1>1
  <2> QED
    BY <1>2, <2>1
<1>6. \A k \in 1 .. Len(r) : k = 1 \/ (k - 1 \in 1 .. Len(p) /\ r[k] = p[k - 1])
  <2> SUFFICES ASSUME NEW k \in 1 .. Len(r), k # 1
               PROVE  k - 1 \in 1 .. Len(p) /\ r[k] = p[k - 1]
    OBVIOUS
  <2>1. k - 1 \in 1 .. Len(p) /\ k \in 1 .. Len(p) + 1 /\ ~(k <= 1)
    BY <1>1
  <2> QED
    BY <1>2, <2>1
<1>7. \A k, l \in 1 .. Len(r) : k - 1 = l - 1 => k = l
  BY <1>1
<1>8. Distinct(r)
  <2> SUFFICES ASSUME NEW k \in 1 .. Len(r), NEW l \in 1 .. Len(r), r[k] = r[l]
               PROVE  k = l
    BY DEF Distinct
  <2>1. CASE k = 1
    BY <1>4, <1>6, <2>1 DEF On
  <2>2. CASE l = 1
    BY <1>4, <1>6, <2>2 DEF On
  <2>3. CASE k # 1 /\ l # 1
    <3>1. k - 1 = l - 1
      BY <1>6, <2>3 DEF Distinct
    <3> QED
      BY <1>7, <3>1
  <2> QED
    BY <2>1, <2>2, <2>3
<1>9. Len(r) >= 1
  BY <1>1
<1> QED
  BY <1>1, <1>4, <1>5, <1>8, <1>9 DEF IsLonger, r

\* A path of one place.
LEMMA ShortPath ==
  ASSUME NEW n \in Nat, NEW h \in 1 .. n
  PROVE  /\ <<h>> \in Seq(1 .. n) /\ Len(<<h>>) = 1 /\ <<h>>[1] = h
         /\ Distinct(<<h>>)
<1>1. <<h>> \in Seq(1 .. n) /\ Len(<<h>>) = 1 /\ <<h>>[1] = h
  BY OneStep
<1>2. \A k \in 1 .. 1 : k = 1
  OBVIOUS
<1> QED
  BY <1>1, <1>2 DEF Distinct

\* PathUp goes from parent to parent and meets no place twice.
LEMMA PathUpRises ==
  ASSUME NEW q, Len(q) \in Nat, NEW v, NEW i \in 1 .. Len(q)
  PROVE  IsRise(PathUp(q, i, v), i)
<1> DEFINE n == Len(q)
           S == {k \in 0 .. n : \A h \in 1 .. k : IsRise(PathUp(q, h, v), h)}
<1>1. PICK g : /\ Rises(g, q, v, n)
               /\ \A h \in 1 .. n : PathUp(q, h, v) = g[h]
  BY PathUpStep
<1>2. 0 \in S
  OBVIOUS
<1>3. ASSUME NEW k \in 0 .. n, k < n, k \in S
      PROVE  k + 1 \in S
  <2> DEFINE h == k + 1
             u == h \div 2
  <2>1. k \in Nat /\ h \in Nat /\ h \in 1 .. h /\ h \in 1 .. n /\ 1 .. k + 1 = 1 .. k \union {h}
    BY <1>3
  <2>2. \A j \in 1 .. k : IsRise(PathUp(q, j, v), j)
    BY <1>3
  <2>3. IsRise(g[h], h)
    <3>1. CASE h > 1 /\ After(q[u], v)
      <4>1. u \in 1 .. k /\ u \in 1 .. n /\ u < h /\ u \in Nat /\ 1 .. u \subseteq 1 .. h
        BY <2>1, <3>1
      <4>2. g[h] = <<h>> \o g[u]
        BY <1>1, <2>1, <3>1 DEF Rises
      <4>3. IsRise(g[u], u)
        BY <1>1, <2>2, <4>1
      <4>4. u = h \div 2
        OBVIOUS
      <4> HIDE DEF h, u
      <4>5. /\ g[u] \in Seq(1 .. u) /\ Len(g[u]) >= 1 /\ g[u][1] = u
            /\ \A j \in 1 .. Len(g[u]) - 1 : g[u][j + 1] = g[u][j] \div 2
            /\ Distinct(g[u])
        BY <4>3 DEF IsRise
      <4>6. g[u] \in Seq(1 .. h) /\ Len(g[u]) \in Nat
        BY <4>1, <4>5, SeqMonotonic, LenProperties
      <4>7. ~On(g[u], h)
        <5>1. \A j \in 1 .. Len(g[u]) : g[u][j] \in 1 .. u
          BY <4>5, ElementOfSeq
        <5> QED
          BY <2>1, <4>1, <5>1 DEF On
      <4>8. /\ g[h] \in Seq(1 .. h) /\ Len(g[h]) = Len(g[u]) + 1 /\ Len(g[h]) >= 1
            /\ g[h][1] = h
            /\ \A j \in 1 .. Len(g[u]) : g[h][j + 1] = g[u][j]
            /\ Distinct(g[h])
        <5>1. h \in Nat /\ h \in 1 .. h
          BY <2>1
        <5>2. IsLonger(g[h], h, h, g[u])
          BY <4>2, <4>5, <4>6, <4>7, <5>1, LongerPath
        <5> QED
          BY <5>2 DEF IsLonger
      <4>9. ASSUME NEW j \in 1 .. Len(g[h]) - 1 PROVE g[h][j + 1] = g[h][j] \div 2
        <5>1. j \in 1 .. Len(g[u]) /\ g[h][j + 1] = g[u][j]
          BY <4>6, <4>8
        <5>2. CASE j = 1
          BY <4>4, <4>5, <4>8, <5>1, <5>2
        <5>3. CASE j # 1
          <6>1. PICK l \in 1 .. Len(g[u]) - 1 : j = l + 1
            <7>1. j - 1 \in 1 .. Len(g[u]) - 1 /\ j = (j - 1) + 1
              BY <4>6, <5>1, <5>3
            <7> QED
              BY <7>1
          <6>2. l \in 1 .. Len(g[u])
            BY <4>6
          <6> QED
            BY <4>5, <4>8, <5>1, <6>1, <6>2
        <5> QED
          BY <5>2, <5>3
      <4> QED
        BY <4>8, <4>9 DEF IsRise
    <3>2. CASE ~(h > 1 /\ After(q[u], v))
      <4>1. g[h] = <<h>>
        BY <1>1, <2>1, <3>2 DEF Rises
      <4> HIDE DEF h
      <4>2. /\ g[h] \in Seq(1 .. h) /\ Len(g[h]) = 1 /\ g[h][1] = h
            /\ Distinct(g[h])
        BY <2>1, <4>1, ShortPath
      <4>3. Len(g[h]) >= 1 /\ 1 .. Len(g[h]) - 1 = {}
        BY <4>2
      <4> QED
        BY <4>2, <4>3 DEF IsRise
    <3> QED
      BY <3>1, <3>2
  <2>4. k + 1 \in 0 .. n
    BY <1>3
  <2> HIDE DEF h
  <2>5. \A j \in 1 .. k + 1 : IsRise(PathUp(q, j, v), j)
    BY <1>1, <2>1, <2>2, <2>3
  <2> QED
    BY <2>4, <2>5
<1>4. n \in S
  <2> HIDE DEF S
  <2> QED
    BY <1>2, <1>3, Climb
<1> QED
  BY <1>4

\* The n messages of s are messages of e, from different places of T.
IsShuffle(s, n, e, T) ==
  \E g \in [1 .. n -> T] :
    /\ \A h, l \in 1 .. n : g[h] = g[l] => h = l
    /\ \A h \in 1 .. n : s[h] = e[g[h]]

\* v put into place i of q.
LEMMA SiftUpShuffles ==
  ASSUME NEW M, NEW q \in Seq(M), NEW v \in M, NEW i \in 1 .. Len(q),
         NEW e, e = [q EXCEPT ![i] = v]
  PROVE  IsShuffle(SiftUp(q, i, v), Len(q), e, 1 .. Len(q))
<1> DEFINE n == Len(q)
           p == PathUp(q, i, v)
<1>1. n \in Nat /\ i \in 1 .. n /\ i \in Nat /\ 1 .. i \subseteq 1 .. n
  BY LenProperties
<1>2. /\ p \in Seq(1 .. i) /\ Len(p) >= 1 /\ p[1] = i
      /\ \A k \in 1 .. Len(p) - 1 : p[k + 1] = p[k] \div 2
      /\ Distinct(p)
  BY <1>1, PathUpRises DEF IsRise
<1>3. /\ SiftUp(q, i, v) = [h \in 1 .. n |-> CASE h = Last(p) -> v
                              [] Contains(Front(p), h) -> q[h \div 2]
                              [] OTHER -> q[h]]
  BY DEF SiftUp
<1> HIDE DEF p
<1>4. p \in Seq(1 .. n) /\ Len(p) \in Nat /\ \A k \in 1 .. Len(p) : p[k] \in 1 .. n
  BY <1>1, <1>2, SeqMonotonic, LenProperties, ElementOfSeq
<1>5. /\ Len(Front(p)) = Len(p) - 1
      /\ \A k \in 1 .. Len(p) - 1 : Front(p)[k] = p[k]
      /\ Last(p) = p[Len(p)]
  BY <1>2, FrontLast DEF Last
<1>6. \A h \in 1 .. n : Contains(Front(p), h) <=> \E k \in 1 .. Len(p) - 1 : h = p[k]
  BY <1>5 DEF Contains
<1> DEFINE shift(h) == IF h = p[Len(p)] THEN i
                       ELSE IF On(p, h) THEN h \div 2 ELSE h
           g == [h \in 1 .. n |-> shift(h)]
<1>7. \A k \in 1 .. Len(p) - 1 : /\ k \in 1 .. Len(p) /\ k + 1 \in 1 .. Len(p)
                                 /\ k # Len(p) /\ k + 1 # 1
  BY <1>4
<1>8. 1 \in 1 .. Len(p) /\ Len(p) \in 1 .. Len(p)
  BY <1>2, <1>4
<1>9. Shifts(g, n, p, i)
  <2> SUFFICES ASSUME NEW h \in 1 .. n
               PROVE  /\ h = p[Len(p)] => g[h] = i
                      /\ \A k \in 1 .. Len(p) - 1 : h = p[k] => g[h] = p[k + 1]
                      /\ ~On(p, h) => g[h] = h
    BY DEF Shifts
  <2>1. ASSUME NEW k \in 1 .. Len(p) - 1, h = p[k] PROVE g[h] = p[k + 1]
    <3>1. h # p[Len(p)] /\ On(p, h)
      BY <1>7, <1>8, <1>2, <2>1 DEF Distinct, On
    <3>2. g[h] = h \div 2
      BY <3>1
    <3> QED
      BY <1>2, <2>1, <3>2
  <2>2. On(p, p[Len(p)])
    BY <1>8 DEF On
  <2> QED
    BY <2>1, <2>2
<1> HIDE DEF g, n
<1>10. /\ \A h, l \in 1 .. n : g[h] = g[l] => h = l
       /\ \A h \in 1 .. n : g[h] = i \/ (g[h] \in 1 .. n /\ g[h] # p[1])
  BY <1>1, <1>2, <1>4, <1>9, ShiftApart
<1>11. g \in [1 .. n -> 1 .. n]
  <2>1. DOMAIN g = 1 .. n /\ g = [h \in 1 .. n |-> g[h]]
    BY DEF g
  <2>2. \A h \in 1 .. n : g[h] \in 1 .. n
    BY <1>1, <1>10
  <2> QED
    BY <2>1, <2>2
<1>12. e[i] = v /\ \A h \in 1 .. n : h # i => e[h] = q[h]
  <2>1. DOMAIN q = 1 .. n
    BY DEF n
  <2> QED
    BY <1>1, <2>1
<1>13. ASSUME NEW h \in 1 .. n PROVE SiftUp(q, i, v)[h] = e[g[h]]
  <2>1. CASE h = p[Len(p)]
    <3>1. SiftUp(q, i, v)[h] = v
      <4>1. ~Contains(Front(p), h)
        BY <1>2, <1>6, <1>7, <1>8, <2>1 DEF Distinct
      <4> QED
        BY <1>3, <1>5, <2>1, <4>1
    <3> QED
      BY <1>9, <1>12, <2>1, <3>1 DEF Shifts
  <2>2. ASSUME h # p[Len(p)], NEW k \in 1 .. Len(p) - 1, h = p[k]
        PROVE  SiftUp(q, i, v)[h] = e[g[h]]
    <3>1. SiftUp(q, i, v)[h] = q[h \div 2]
      BY <1>3, <1>5, <1>6, <2>2
    <3>2. g[h] = p[k + 1] /\ p[k + 1] = h \div 2
      BY <1>2, <1>9, <2>2 DEF Shifts
    <3>3. p[k + 1] # i /\ p[k + 1] \in 1 .. n
      BY <1>2, <1>4, <1>7, <1>8 DEF Distinct
    <3> QED
      BY <1>12, <3>1, <3>2, <3>3
  <2>3. CASE ~On(p, h)
    <3>1. h # p[Len(p)] /\ ~Contains(Front(p), h) /\ h # i
      BY <1>2, <1>6, <1>7, <1>8, <2>3 DEF On
    <3>2. SiftUp(q, i, v)[h] = q[h]
      BY <1>3, <1>5, <3>1
    <3> QED
      BY <1>9, <1>12, <2>3, <3>1, <3>2 DEF Shifts
  <2>4. \/ h = p[Len(p)] \/ ~On(p, h)
        \/ h # p[Len(p)] /\ \E k \in 1 .. Len(p) - 1 : h = p[k]
    <3>1. \A k \in 1 .. Len(p) : k = Len(p) \/ k \in 1 .. Len(p) - 1
      BY <1>4
    <3> QED
      BY <3>1 DEF On
  <2> QED
    BY <2>1, <2>2, <2>3, <2>4
<1> QED
  BY <1>10, <1>11, <1>13 DEF n, IsShuffle

\* The path down from l: each place is followed by its first child.
IsFall(p, q, l) ==
  /\ p \in Seq(1 .. Len(q))
  /\ Len(p) >= 1
  /\ p[1] = l
  /\ \A k \in 1 .. Len(p) : p[k] >= l
  /\ \A k \in 1 .. Len(p) - 1 : p[k + 1] = FirstChild(q, p[k])
  /\ Distinct(p)

\* PathDown goes from child to child and meets no place twice.
LEMMA PathDownFalls ==
  ASSUME NEW q, Len(q) \in Nat, 1 <= Len(q)
  PROVE  IsFall(PathDown(q), q, 1)
<1> DEFINE n == Len(q)
<1>1. PICK g : Falls(g, q, 1) /\ PathDown(q) = g[1]
  BY PathDownStep
<1> DEFINE S == {k \in 0 .. n : \A h \in n - k + 1 .. n : IsFall(g[h], q, h)}
<1>2. 0 \in S
  <2>1. n - 0 + 1 .. n = {}
    OBVIOUS
  <2> QED
    BY <2>1
<1>3. ASSUME NEW k \in 0 .. n, k < n, k \in S
      PROVE  k + 1 \in S
  <2> DEFINE l == n - k
  <2>1. /\ l \in 1 .. n /\ l \in Nat /\ n - (k + 1) + 1 = l /\ k + 1 \in 0 .. n
        /\ n - k + 1 = l + 1
        /\ l .. n = {l} \union (l + 1 .. n)
    BY <1>3
  <2>2. \A h \in l + 1 .. n : IsFall(g[h], q, h)
    BY <1>3, <2>1
  <2> HIDE DEF l
  <2>3. IsFall(g[l], q, l)
    <3>1. CASE 2 * l > n
      <4>1. g[l] = <<l>>
        BY <1>1, <2>1, <3>1 DEF Falls
      <4>2. n \in Nat
        OBVIOUS
      <4>3. g[l] \in Seq(1 .. n) /\ Len(g[l]) = 1 /\ g[l][1] = l /\ Distinct(g[l])
        BY <2>1, <4>1, <4>2, ShortPath
      <4>4. 1 .. Len(g[l]) - 1 = {} /\ Len(g[l]) >= 1
            /\ \A k_1 \in 1 .. Len(g[l]) : k_1 = 1
        BY <4>3
      <4>5. \A j \in 1 .. Len(g[l]) : g[l][j] >= l
        BY <2>1, <4>3, <4>4
      <4> QED
        BY <4>3, <4>4, <4>5 DEF IsFall
    <3>2. CASE ~(2 * l > n)
      <4> DEFINE c == FirstChild(q, l)
      <4>1. g[l] = <<l>> \o g[c]
        BY <1>1, <2>1, <3>2 DEF Falls
      <4>2. c \in l + 1 .. n
        BY <2>1, <3>2, ChildType
      <4>3. c = FirstChild(q, l)
        OBVIOUS
      <4> HIDE DEF c
      <4>4. /\ g[c] \in Seq(1 .. n) /\ Len(g[c]) >= 1 /\ g[c][1] = c
            /\ \A j \in 1 .. Len(g[c]) : g[c][j] >= c
            /\ \A j \in 1 .. Len(g[c]) - 1 : g[c][j + 1] = FirstChild(q, g[c][j])
            /\ Distinct(g[c])
        BY <2>2, <4>2 DEF IsFall
      <4>5. Len(g[c]) \in Nat /\ \A j \in 1 .. Len(g[c]) : g[c][j] \in 1 .. n
        BY <4>4, LenProperties, ElementOfSeq
      <4>6. ~On(g[c], l)
        <5>1. l \in Nat /\ c \in Nat /\ c > l
          BY <2>1, <4>2
        <5>2. ASSUME NEW j \in 1 .. Len(g[c]) PROVE g[c][j] > l
          <6>1. g[c][j] >= c /\ g[c][j] \in Nat
            BY <4>4, <4>5, <5>2
          <6> QED
            BY <5>1, <6>1
        <5> QED
          BY <5>1, <5>2 DEF On
      <4>7. /\ g[l] \in Seq(1 .. n) /\ Len(g[l]) = Len(g[c]) + 1 /\ Len(g[l]) >= 1
            /\ g[l][1] = l
            /\ \A j \in 1 .. Len(g[c]) : g[l][j + 1] = g[c][j]
            /\ Distinct(g[l])
        <5>1. n \in Nat /\ l \in 1 .. n
          BY <2>1
        <5> HIDE DEF n
        <5>2. IsLonger(g[l], n, l, g[c])
          BY <4>1, <4>4, <4>6, <5>1, LongerPath
        <5> QED
          BY <5>2 DEF IsLonger
      <4>8. ASSUME NEW j \in 1 .. Len(g[l])
            PROVE  j = 1 \/ \E i \in 1 .. Len(g[c]) : j = i + 1
        <5>1. CASE j # 1
          <6>1. j - 1 \in 1 .. Len(g[c]) /\ j = (j - 1) + 1
            BY <4>5, <4>7, <5>1
          <6> QED
            BY <6>1
        <5> QED
          BY <5>1
      <4>9. ASSUME NEW j \in 1 .. Len(g[l]) PROVE g[l][j] >= l
        <5>1. CASE j = 1
          BY <2>1, <4>7, <5>1
        <5>2. ASSUME NEW i \in 1 .. Len(g[c]), j = i + 1 PROVE g[l][j] >= l
          <6>1. g[l][j] = g[c][i] /\ g[c][i] >= c /\ g[c][i] \in 1 .. n
            BY <4>4, <4>5, <4>7, <5>2
          <6> QED
            BY <2>1, <4>2, <6>1
        <5> QED
          BY <4>8, <5>1, <5>2
      <4>10. ASSUME NEW j \in 1 .. Len(g[l]) - 1
             PROVE  g[l][j + 1] = FirstChild(q, g[l][j])
        <5>1. j \in 1 .. Len(g[c]) /\ j \in 1 .. Len(g[l])
          BY <4>5, <4>7
        <5>2. g[l][j + 1] = g[c][j]
          BY <4>7, <5>1
        <5>3. CASE j = 1
          BY <4>3, <4>4, <4>7, <5>2, <5>3
        <5>4. ASSUME NEW i \in 1 .. Len(g[c]), j = i + 1
              PROVE  g[l][j + 1] = FirstChild(q, g[l][j])
          <6>1. i \in 1 .. Len(g[c]) - 1
            BY <4>5, <5>1, <5>4
          <6> QED
            BY <4>4, <4>7, <5>2, <5>4, <6>1
        <5> QED
          BY <4>8, <5>1, <5>3, <5>4
      <4> QED
        BY <4>7, <4>9, <4>10 DEF IsFall
    <3> QED
      BY <3>1, <3>2
  <2>4. \A h \in l .. n : IsFall(g[h], q, h)
    BY <2>1, <2>2, <2>3
  <2> QED
    BY <2>1, <2>4
<1>4. n \in S
  <2> HIDE DEF S
  <2> QED
    BY <1>2, <1>3, Climb
<1>5. 1 \in n - n + 1 .. n
  OBVIOUS
<1> QED
  BY <1>1, <1>4, <1>5

\* push_heap(): the messages are those of q and m.
LEMMA PushShuffles ==
  ASSUME NEW M, NEW q \in Seq(M), NEW m \in M
  PROVE  IsShuffle(PushHeap(q, m), Len(q) + 1, Append(q, m), 1 .. Len(q) + 1)
<1> DEFINE r == Append(q, m)
           n == Len(q) + 1
<1>1. /\ Len(q) \in Nat
      /\ r \in Seq(M)
      /\ Len(r) = n
      /\ r[n] = m
  BY AppendProperties, LenProperties
<1>2. PushHeap(q, m) = SiftUp(r, n, m)
  BY DEF PushHeap
<1> HIDE DEF r
<1>3. n \in 1 .. Len(r) /\ n \in Nat
  BY <1>1
<1>4. r = [r EXCEPT ![n] = m]
  BY <1>1, <1>3, LenProperties
<1> HIDE DEF n
<1>5. IsShuffle(SiftUp(r, n, m), Len(r), r, 1 .. Len(r))
  BY <1>1, <1>3, <1>4, SiftUpShuffles
<1> QED
  BY <1>1, <1>2, <1>5 DEF r, n

\* pop_heap(): the messages are those of q but the first.
LEMMA PopShuffles ==
  ASSUME NEW M, NEW q \in Seq(M), q # <<>>
  PROVE  IsShuffle(PopHeap(q), Len(q) - 1, q, 2 .. Len(q))
<1> DEFINE r == Front(q)
           v == Last(q)
           n == Len(q) - 1
<1>1. Len(q) \in Nat /\ Len(q) >= 1 /\ n \in Nat /\ n + 1 = Len(q) /\ 1 .. n \subseteq 1 .. Len(q)
  BY EmptySeq, LenProperties
<1>2. /\ r \in Seq(M) /\ Len(r) = n /\ v \in M
      /\ \A k \in 1 .. n : r[k] = q[k]
      /\ v = q[Len(q)]
  BY <1>1, FrontLast DEF Last
<1> DEFINE p == PathDown(r)
           moved == [h \in DOMAIN r |-> IF Contains(Front(p), h)
                                        THEN r[FirstChild(r, h)] ELSE r[h]]
<1>3. PopHeap(q) = IF r = <<>> THEN r ELSE SiftUp(moved, Last(p), v)
  BY DEF PopHeap
<1> HIDE DEF r, v
<1>4. CASE r = <<>>
  <2>1. n = 0 /\ 1 .. n = {}
    <3>1. Len(r) = 0
      BY <1>4
    <3>2. PICK k : k = n
      OBVIOUS
    <3>3. k = 0
      BY <1>2, <3>1, <3>2
    <3>4. 1 .. k = {}
      BY <3>3
    <3> QED
      BY <3>2, <3>3, <3>4
  <2>2. [h \in 1 .. n |-> 2] \in [1 .. n -> 2 .. Len(q)]
    BY <2>1
  <2> QED
    BY <2>1, <2>2 DEF IsShuffle
<1>5. CASE r # <<>>
  <2>1. n >= 1 /\ DOMAIN r = 1 .. n
    BY <1>1, <1>2, <1>5, EmptySeq, LenProperties
  <2>2. /\ p \in Seq(1 .. n) /\ Len(p) >= 1 /\ p[1] = 1
        /\ \A k \in 1 .. Len(p) - 1 : p[k + 1] = FirstChild(r, p[k])
        /\ Distinct(p)
    <3>1. IsFall(p, r, 1)
      BY <1>1, <1>2, <2>1, PathDownFalls
    <3> HIDE DEF p
    <3> QED
      BY <1>2, <3>1 DEF IsFall
  <2> HIDE DEF p
  <2>3. /\ Len(Front(p)) = Len(p) - 1
        /\ \A k \in 1 .. Len(p) - 1 : Front(p)[k] = p[k]
        /\ Last(p) = p[Len(p)] /\ Last(p) \in 1 .. n
    BY <2>2, FrontLast DEF Last
  <2>4. Len(p) \in Nat /\ \A k \in 1 .. Len(p) : p[k] \in 1 .. n
    BY <2>2, LenProperties, ElementOfSeq
  <2>5. /\ 1 \in 1 .. Len(p) /\ Len(p) \in 1 .. Len(p)
        /\ \A k \in 1 .. Len(p) - 1 : /\ k \in 1 .. Len(p) /\ k + 1 \in 1 .. Len(p)
                                      /\ k # Len(p)
    BY <2>2, <2>4
  <2>6. \A h \in 1 .. n : Contains(Front(p), h) <=> \E k \in 1 .. Len(p) - 1 : h = p[k]
    BY <2>3 DEF Contains
  <2> DEFINE down(h) == IF h = p[Len(p)] THEN Len(q)
                        ELSE IF On(p, h) THEN FirstChild(r, h) ELSE h
             d == [h \in 1 .. n |-> down(h)]
  <2>7. Shifts(d, n, p, Len(q))
    <3> SUFFICES ASSUME NEW h \in 1 .. n
                 PROVE  /\ h = p[Len(p)] => d[h] = Len(q)
                        /\ \A k \in 1 .. Len(p) - 1 : h = p[k] => d[h] = p[k + 1]
                        /\ ~On(p, h) => d[h] = h
      BY DEF Shifts
    <3>1. ASSUME NEW k \in 1 .. Len(p) - 1, h = p[k] PROVE d[h] = p[k + 1]
      <4>1. h # p[Len(p)] /\ On(p, h)
        BY <2>2, <2>5, <3>1 DEF Distinct, On
      <4>2. d[h] = FirstChild(r, h)
        BY <4>1
      <4> QED
        BY <2>2, <3>1, <4>2
    <3>2. On(p, p[Len(p)])
      BY <2>5 DEF On
    <3> QED
      BY <3>1, <3>2
  <2> HIDE DEF d
  <2>8. Len(q) \notin 1 .. n
    BY <1>1
  <2>9. /\ \A h, l \in 1 .. n : d[h] = d[l] => h = l
        /\ \A h \in 1 .. n : d[h] = Len(q) \/ (d[h] \in 1 .. n /\ d[h] # 1)
    <3>1. PICK c : c = Len(q)
      OBVIOUS
    <3>2. c \notin 1 .. n /\ Shifts(d, n, p, c) /\ n \in Nat
      BY <1>1, <2>7, <2>8, <3>1
    <3> HIDE DEF n
    <3>3. /\ \A h, l \in 1 .. n : d[h] = d[l] => h = l
          /\ \A h \in 1 .. n : d[h] = c \/ (d[h] \in 1 .. n /\ d[h] # p[1])
      BY <2>2, <3>2, ShiftApart
    <3> QED
      BY <2>2, <3>1, <3>3
  <2>10. \A h \in 1 .. n : d[h] \in 2 .. Len(q)
    BY <1>1, <2>1, <2>9
  <2> DEFINE e == [moved EXCEPT ![Last(p)] = v]
  <2>11. DOMAIN moved = 1 .. n
    BY <2>1
  <2>12. ASSUME NEW h \in 1 .. n PROVE e[h] = q[d[h]]
    <3>1. CASE h = p[Len(p)]
      <4>1. e[h] = v
        BY <2>3, <2>11, <3>1
      <4> QED
        BY <1>2, <2>7, <3>1, <4>1 DEF Shifts
    <3>2. ASSUME h # p[Len(p)], NEW k \in 1 .. Len(p) - 1, h = p[k]
          PROVE  e[h] = q[d[h]]
      <4>1. e[h] = r[FirstChild(r, h)]
        BY <2>1, <2>3, <2>6, <3>2
      <4>2. d[h] = p[k + 1] /\ p[k + 1] = FirstChild(r, h) /\ p[k + 1] \in 1 .. n
        BY <2>2, <2>4, <2>5, <2>7, <3>2 DEF Shifts
      <4> QED
        BY <1>2, <4>1, <4>2
    <3>3. CASE ~On(p, h)
      <4>1. h # Last(p) /\ ~Contains(Front(p), h)
        BY <2>3, <2>5, <2>6, <3>3 DEF On
      <4>2. e[h] = r[h]
        BY <2>1, <4>1
      <4> QED
        BY <1>2, <2>7, <3>3, <4>2 DEF Shifts
    <3>4. \/ h = p[Len(p)] \/ ~On(p, h)
          \/ h # p[Len(p)] /\ \E k \in 1 .. Len(p) - 1 : h = p[k]
      <4>1. \A k \in 1 .. Len(p) : k = Len(p) \/ k \in 1 .. Len(p) - 1
        BY <2>4
      <4> QED
        BY <4>1 DEF On
    <3> QED
      BY <3>1, <3>2, <3>3, <3>4
  <2>13. moved \in Seq(M) /\ Len(moved) = n
    <3>1. \A h \in 1 .. n : h # Last(p) => moved[h] = e[h]
      BY <2>11
    <3>2. moved[Last(p)] = r[Last(p)]
      <4>1. \A k \in 1 .. Len(p) - 1 : p[Len(p)] # p[k]
        BY <2>2, <2>5 DEF Distinct
      <4>2. ~Contains(Front(p), Last(p))
        BY <2>3, <2>6, <4>1
      <4> QED
        BY <2>1, <2>3, <4>2
    <3>3. \A h \in 1 .. n : moved[h] \in M
      <4> HIDE DEF moved, e
      <4>1. \A k \in 2 .. Len(q) : q[k] \in M
        BY <1>1, ElementOfSeq
      <4>2. r[Last(p)] \in M
        BY <1>2, <2>3, ElementOfSeq
      <4> QED
        BY <2>10, <2>12, <3>1, <3>2, <4>1, <4>2
    <3>4. moved = [h \in 1 .. n |-> moved[h]]
      BY <2>1
    <3> HIDE DEF moved, n
    <3> QED
      BY <1>1, <3>3, <3>4
  <2>14. IsShuffle(SiftUp(moved, Last(p), v), n, e, 1 .. n)
    <3>1. PICK x : x = Last(p)
      OBVIOUS
    <3>2. x \in 1 .. Len(moved) /\ e = [moved EXCEPT ![x] = v]
      BY <2>3, <2>13, <3>1
    <3> HIDE DEF moved, e
    <3>3. IsShuffle(SiftUp(moved, x, v), Len(moved), e, 1 .. Len(moved))
      BY <1>2, <2>13, <3>2, SiftUpShuffles
    <3> QED
      BY <2>13, <3>1, <3>3
  <2> HIDE DEF moved, e, n
  <2>15. PICK g \in [1 .. n -> 1 .. n] :
           /\ \A h, l \in 1 .. n : g[h] = g[l] => h = l
           /\ \A h \in 1 .. n : PopHeap(q)[h] = e[g[h]]
    <3>1. PopHeap(q) = SiftUp(moved, Last(p), v)
      BY <1>3, <1>5
    <3>2. IsShuffle(PopHeap(q), n, e, 1 .. n)
      BY <2>14, <3>1
    <3> QED
      BY <3>2 DEF IsShuffle
  <2> DEFINE f == [h \in 1 .. n |-> d[g[h]]]
  <2>16. f \in [1 .. n -> 2 .. Len(q)]
    BY <2>10, <2>15
  <2>17. \A h, l \in 1 .. n : f[h] = f[l] => h = l
    BY <2>9, <2>15
  <2>18. \A h \in 1 .. n : PopHeap(q)[h] = q[f[h]]
    BY <2>12, <2>15
  <2> QED
    BY <2>16, <2>17, <2>18 DEF IsShuffle, n
<1> QED
  BY <1>4, <1>5

-----------------------------------------------------------------------------
(***************************************************************************)
(* What is under way between our requester and our arbiter of one file.    *)
(***************************************************************************)
One(b) == IF b THEN 1 ELSE 0

\* The stream q is under way; mine: our arbiter has locked for us; granted: our
\* requester has its LOCKED; waiting: our request is in waiting_queue; asked:
\* our arbiter waits for the answer to an INQUIRE; turn: the main thread is
\* about this file; inside: it is in the critical section; spin: the thread for
\* own messages is in the loop of treat_inquire_message().

\* A request of the main thread is in one place: under way, in waiting_queue, or
\* it has the lock and has not sent RELEASE.
OnePlace(q, mine, waiting, turn) ==
  /\ Count(q, "RELEASE") = 0 => Count(q, "REQUEST") + waiting + mine = turn
  /\ Count(q, "RELEASE") > 0 => Count(q, "REQUEST") + waiting = turn

\* A lock that our arbiter has given us is in one place: LOCKED is under way or
\* has come, or it is given back.
OneClaim(q, mine, granted) ==
  Count(q, "LOCKED") + Count(q, "RELINQUISH") + Count(q, "RELEASE") + granted = mine

\* The lock is given back before the next request reaches the arbiter.
ReleasedFirst(q, waiting) ==
  /\ Ahead(q, "RELEASE", "REQUEST")
  /\ waiting = 1 => Count(q, "RELEASE") = 0

\* FAILED answers the request there is, and comes before LOCKED.
RefusedFirst(q, granted, turn) ==
  /\ Count(q, "FAILED") <= 1
  /\ Count(q, "FAILED") > 0 => Count(q, "REQUEST") = 0 /\ turn = 1
  /\ Ahead(q, "FAILED", "LOCKED")
  /\ granted = 1 => Count(q, "FAILED") = 0

\* Each LOCKED is asked for once; an INQUIRE of an earlier one may be left.
AskedOnce(q, mine, asked, spin) ==
  /\ asked = 1 => mine = 1
  /\ mine = 1 /\ Count(q, "LOCKED") = 0 =>
       Count(q, "INQUIRE") + spin + Count(q, "RELINQUISH") <= asked
  /\ mine = 0 => Count(q, "INQUIRE") + spin <= 1
  /\ Count(q, "LOCKED") > 0 =>
       /\ Count(q, "INQUIRE") + spin <= 1 + asked
       /\ Ahead(q, "INQUIRE", "LOCKED") \/ asked = 1
       /\ Count(q, "INQUIRE") <= 1 \/ ~Ahead(q, "LOCKED", "INQUIRE")

Dialogue(q, mine, granted, waiting, asked, turn, inside, spin) ==
  /\ OnePlace(q, mine, waiting, turn)
  /\ OneClaim(q, mine, granted)
  /\ ReleasedFirst(q, waiting)
  /\ inside = 1 => granted = 1
  /\ RefusedFirst(q, granted, turn)
  /\ AskedOnce(q, mine, asked, spin)

Counted(q) ==
  /\ Count(q, "REQUEST") \in Nat /\ Count(q, "LOCKED") \in Nat
  /\ Count(q, "FAILED") \in Nat /\ Count(q, "INQUIRE") \in Nat
  /\ Count(q, "RELINQUISH") \in Nat /\ Count(q, "RELEASE") \in Nat
  /\ Count(q, "FAILED") = 0 => Ahead(q, "FAILED", "LOCKED")
  /\ Count(q, "LOCKED") = 0 \/ Count(q, "INQUIRE") = 0 =>
       Ahead(q, "INQUIRE", "LOCKED") /\ Ahead(q, "LOCKED", "INQUIRE")
  /\ Count(q, "LOCKED") > 0 /\ Count(q, "INQUIRE") > 0 /\ Ahead(q, "INQUIRE", "LOCKED") =>
       ~Ahead(q, "LOCKED", "INQUIRE")

\* What the places exclude.
Exclusive(q, mine, granted, waiting, turn) ==
  /\ mine = 0 => /\ Count(q, "LOCKED") = 0 /\ Count(q, "RELINQUISH") = 0
                 /\ Count(q, "RELEASE") = 0 /\ granted = 0
  /\ Count(q, "LOCKED") > 0 =>
       /\ Count(q, "LOCKED") = 1 /\ Count(q, "RELINQUISH") = 0
       /\ Count(q, "RELEASE") = 0 /\ granted = 0 /\ mine = 1
  /\ Count(q, "RELINQUISH") > 0 =>
       /\ Count(q, "RELINQUISH") = 1 /\ Count(q, "LOCKED") = 0
       /\ Count(q, "RELEASE") = 0 /\ granted = 0 /\ mine = 1
  /\ Count(q, "RELEASE") > 0 =>
       /\ Count(q, "RELEASE") = 1 /\ Count(q, "LOCKED") = 0
       /\ Count(q, "RELINQUISH") = 0 /\ granted = 0 /\ mine = 1 /\ waiting = 0
  /\ granted = 1 =>
       /\ Count(q, "RELEASE") = 0 /\ Count(q, "LOCKED") = 0
       /\ Count(q, "RELINQUISH") = 0 /\ mine = 1
  /\ Count(q, "REQUEST") > 0 => Count(q, "REQUEST") = 1 /\ waiting = 0 /\ turn = 1
  /\ waiting = 1 => Count(q, "REQUEST") = 0 /\ turn = 1 /\ mine = 0
  /\ mine = 1 /\ Count(q, "RELEASE") = 0 =>
       Count(q, "REQUEST") = 0 /\ waiting = 0 /\ turn = 1
  /\ turn = 0 => Count(q, "REQUEST") = 0 /\ waiting = 0 /\ granted = 0

\* r is q with a message of type t sent.
Sent(q, r, t) ==
  /\ Counted(q) /\ Counted(r)
  /\ Count(r, "REQUEST") = Count(q, "REQUEST") + One(t = "REQUEST")
  /\ Count(r, "LOCKED") = Count(q, "LOCKED") + One(t = "LOCKED")
  /\ Count(r, "FAILED") = Count(q, "FAILED") + One(t = "FAILED")
  /\ Count(r, "INQUIRE") = Count(q, "INQUIRE") + One(t = "INQUIRE")
  /\ Count(r, "RELINQUISH") = Count(q, "RELINQUISH") + One(t = "RELINQUISH")
  /\ Count(r, "RELEASE") = Count(q, "RELEASE") + One(t = "RELEASE")
  /\ Ahead(r, "RELEASE", "REQUEST") <=>
       Ahead(q, "RELEASE", "REQUEST") /\ (t = "RELEASE" => Count(q, "REQUEST") = 0)
  /\ Ahead(r, "FAILED", "LOCKED") <=>
       Ahead(q, "FAILED", "LOCKED") /\ (t = "FAILED" => Count(q, "LOCKED") = 0)
  /\ Ahead(r, "INQUIRE", "LOCKED") <=>
       Ahead(q, "INQUIRE", "LOCKED") /\ (t = "INQUIRE" => Count(q, "LOCKED") = 0)
  /\ Ahead(r, "LOCKED", "INQUIRE") <=>
       Ahead(q, "LOCKED", "INQUIRE") /\ (t = "LOCKED" => Count(q, "INQUIRE") = 0)

\* What the order of t and u is when a message of type h is taken.
TookOrder(q, r, h, t, u) ==
  /\ Ahead(q, t, u) => Ahead(r, t, u)
  /\ h # u => (Ahead(r, t, u) <=> Ahead(q, t, u))
  /\ h = u /\ Ahead(q, t, u) => Count(q, t) = 0

\* r is q without its first message, of type t.
Took(q, r, t) ==
  /\ Counted(q) /\ Counted(r)
  /\ Count(r, "REQUEST") = Count(q, "REQUEST") - One(t = "REQUEST")
  /\ Count(r, "LOCKED") = Count(q, "LOCKED") - One(t = "LOCKED")
  /\ Count(r, "FAILED") = Count(q, "FAILED") - One(t = "FAILED")
  /\ Count(r, "INQUIRE") = Count(q, "INQUIRE") - One(t = "INQUIRE")
  /\ Count(r, "RELINQUISH") = Count(q, "RELINQUISH") - One(t = "RELINQUISH")
  /\ Count(r, "RELEASE") = Count(q, "RELEASE") - One(t = "RELEASE")
  /\ TookOrder(q, r, t, "RELEASE", "REQUEST")
  /\ TookOrder(q, r, t, "FAILED", "LOCKED")
  /\ TookOrder(q, r, t, "INQUIRE", "LOCKED")
  /\ TookOrder(q, r, t, "LOCKED", "INQUIRE")

\* Counts are numbers; an order of two types is one way only, if both are there.
LEMMA Counts ==
  ASSUME NEW q \in Seq(Message)
  PROVE  Counted(q)
<1>1. \A t : Count(q, t) \in Nat
  BY CountType
<1>2. Count(q, "FAILED") = 0 => Ahead(q, "FAILED", "LOCKED")
  BY AheadOfNone
<1>3. Count(q, "LOCKED") = 0 \/ Count(q, "INQUIRE") = 0 =>
        Ahead(q, "INQUIRE", "LOCKED") /\ Ahead(q, "LOCKED", "INQUIRE")
  BY AheadOfNone
<1>4. Count(q, "LOCKED") > 0 /\ Count(q, "INQUIRE") > 0 /\ Ahead(q, "INQUIRE", "LOCKED") =>
        ~Ahead(q, "LOCKED", "INQUIRE")
  BY AheadOneWay
<1> QED
  BY <1>1, <1>2, <1>3, <1>4 DEF Counted

\* Sending adds one message of its type, behind all others.
LEMMA SentOne ==
  ASSUME NEW q \in Seq(Message), NEW m \in Message
  PROVE  Sent(q, Append(q, m), m.type)
<1> DEFINE r == Append(q, m)
<1>1. r \in Seq(Message)
  BY AppendProperties
<1>2. Counted(q) /\ Counted(r)
  <2> HIDE DEF r
  <2> QED
    BY <1>1, Counts
<1>3. \A t : Count(r, t) = Count(q, t) + One(m.type = t)
  BY CountSent DEF One
<1>4. \A t, u : t # u => (Ahead(r, t, u) <=> Ahead(q, t, u) /\ (m.type = t => Count(q, u) = 0))
  BY AheadSent
<1> HIDE DEF r
<1> QED
  BY <1>2, <1>3, <1>4 DEF Sent, r

\* Taking the first message removes one of its type, and no order of others.
LEMMA TookOne ==
  ASSUME NEW q \in Seq(Message), q # <<>>
  PROVE  Took(q, Tail(q), Head(q).type)
<1> DEFINE r == Tail(q)
           h == Head(q).type
<1>1. r \in Seq(Message)
  BY Taken
<1>2. Counted(q) /\ Counted(r)
  <2> HIDE DEF r
  <2> QED
    BY <1>1, Counts
<1>3. \A t : Count(r, t) = Count(q, t) - One(h = t)
  BY CountTaken DEF One
<1>4. \A t, u : TookOrder(q, r, h, t, u)
  BY AheadTaken DEF TookOrder
<1> HIDE DEF r, h
<1> QED
  BY <1>2, <1>3, <1>4 DEF Took, r, h

-----------------------------------------------------------------------------
(***************************************************************************)
(* How the dialogue goes on.                                               *)
(***************************************************************************)
LEMMA Excludes ==
  ASSUME NEW q, Counted(q), NEW mine \in 0 .. 1, NEW granted \in 0 .. 1,
         NEW waiting \in 0 .. 1, NEW asked \in 0 .. 1, NEW turn \in 0 .. 1,
         NEW inside \in 0 .. 1, NEW spin \in 0 .. 1,
         Dialogue(q, mine, granted, waiting, asked, turn, inside, spin)
  PROVE  Exclusive(q, mine, granted, waiting, turn)
<1>1. OnePlace(q, mine, waiting, turn)
  BY DEF Dialogue
<1>2. OneClaim(q, mine, granted)
  BY DEF Dialogue
<1>3. ReleasedFirst(q, waiting)
  BY DEF Dialogue
<1>4. PICK req \in Nat, loc \in Nat, rlq \in Nat, rel \in Nat :
        /\ req = Count(q, "REQUEST") /\ loc = Count(q, "LOCKED")
        /\ rlq = Count(q, "RELINQUISH") /\ rel = Count(q, "RELEASE")
  BY DEF Counted
<1>5. loc + rlq + rel + granted = mine
  BY <1>2, <1>4 DEF OneClaim
<1>6. /\ rel = 0 => req + waiting + mine = turn
      /\ rel > 0 => req + waiting = turn
  BY <1>1, <1>4 DEF OnePlace
<1>7. waiting = 1 => rel = 0
  BY <1>3, <1>4 DEF ReleasedFirst
<1>8. /\ mine = 0 => loc = 0 /\ rlq = 0 /\ rel = 0 /\ granted = 0
      /\ loc > 0 => loc = 1 /\ rlq = 0 /\ rel = 0 /\ granted = 0 /\ mine = 1
      /\ rlq > 0 => rlq = 1 /\ loc = 0 /\ rel = 0 /\ granted = 0 /\ mine = 1
      /\ rel > 0 => rel = 1 /\ loc = 0 /\ rlq = 0 /\ granted = 0 /\ mine = 1
      /\ granted = 1 => rel = 0 /\ loc = 0 /\ rlq = 0 /\ mine = 1
  BY <1>5
<1>9. /\ rel > 0 => waiting = 0
      /\ req > 0 => req = 1 /\ waiting = 0 /\ turn = 1
      /\ waiting = 1 => req = 0 /\ turn = 1 /\ mine = 0
      /\ mine = 1 /\ rel = 0 => req = 0 /\ waiting = 0 /\ turn = 1
      /\ turn = 0 => req = 0 /\ waiting = 0 /\ (rel = 0 => mine = 0)
  BY <1>6, <1>7
<1>10. turn = 0 => granted = 0
  BY <1>8, <1>9
<1> QED
  BY <1>4, <1>8, <1>9, <1>10 DEF Exclusive
\* RequestResource().
LEMMA DialogueAsks ==
  ASSUME NEW q, NEW r, Sent(q, r, "REQUEST"),
         NEW mine \in 0 .. 1, NEW granted \in 0 .. 1, NEW waiting \in 0 .. 1, NEW asked \in 0 .. 1, NEW spin \in 0 .. 1,
         Dialogue(q, mine, granted, waiting, asked, 0, 0, spin)
  PROVE  Dialogue(r, mine, 0, waiting, asked, 1, 0, spin)
<1>1. OnePlace(q, mine, waiting, 0)
  BY DEF Dialogue
<1>2. OneClaim(q, mine, granted)
  BY DEF Dialogue
<1>3. ReleasedFirst(q, waiting)
  BY DEF Dialogue
<1>4. RefusedFirst(q, granted, 0)
  BY DEF Dialogue
<1>5. AskedOnce(q, mine, asked, spin)
  BY DEF Dialogue
<1>6. 0 = 1 => granted = 1
  BY DEF Dialogue
<1>7. Exclusive(q, mine, granted, waiting, 0)
  BY Excludes DEF Took, Sent
<1>8. OnePlace(r, mine, waiting, 1)
  BY <1>1, <1>7 DEF OnePlace, Exclusive, Took, TookOrder, Sent, Counted, One
<1>9. OneClaim(r, mine, 0)
  BY <1>2, <1>7 DEF OneClaim, Exclusive, Took, TookOrder, Sent, Counted, One
<1>10. ReleasedFirst(r, waiting)
  BY <1>3, <1>7 DEF ReleasedFirst, Exclusive, Took, TookOrder, Sent, Counted, One
<1>11. RefusedFirst(r, 0, 1)
  BY <1>4, <1>7 DEF RefusedFirst, Exclusive, Took, TookOrder, Sent, Counted, One
<1>12. AskedOnce(r, mine, asked, spin)
  BY <1>5, <1>7 DEF AskedOnce, Exclusive, Took, TookOrder, Sent, Counted, One
<1>13. 0 = 1 => 0 = 1
  BY <1>6, <1>7 DEF Exclusive
<1> QED
  BY <1>8, <1>9, <1>10, <1>11, <1>12, <1>13 DEF Dialogue

\* ReleaseResource().
LEMMA DialogueGivesBack ==
  ASSUME NEW q, NEW r, Sent(q, r, "RELEASE"),
         NEW mine \in 0 .. 1, NEW granted \in 0 .. 1, NEW waiting \in 0 .. 1, NEW asked \in 0 .. 1, NEW spin \in 0 .. 1,
         Dialogue(q, mine, granted, waiting, asked, 1, 1, spin)
  PROVE  Dialogue(r, mine, 0, waiting, asked, 0, 0, spin)
<1>1. OnePlace(q, mine, waiting, 1)
  BY DEF Dialogue
<1>2. OneClaim(q, mine, granted)
  BY DEF Dialogue
<1>3. ReleasedFirst(q, waiting)
  BY DEF Dialogue
<1>4. RefusedFirst(q, granted, 1)
  BY DEF Dialogue
<1>5. AskedOnce(q, mine, asked, spin)
  BY DEF Dialogue
<1>6. 1 = 1 => granted = 1
  BY DEF Dialogue
<1>7. Exclusive(q, mine, granted, waiting, 1)
  BY Excludes DEF Took, Sent
<1>14. granted = 1
  BY <1>6
<1>8. OnePlace(r, mine, waiting, 0)
  BY <1>14, <1>1, <1>7 DEF OnePlace, Exclusive, Took, TookOrder, Sent, Counted, One
<1>9. OneClaim(r, mine, 0)
  BY <1>14, <1>2, <1>7 DEF OneClaim, Exclusive, Took, TookOrder, Sent, Counted, One
<1>10. ReleasedFirst(r, waiting)
  BY <1>14, <1>3, <1>7 DEF ReleasedFirst, Exclusive, Took, TookOrder, Sent, Counted, One
<1>11. RefusedFirst(r, 0, 0)
  BY <1>14, <1>4, <1>7 DEF RefusedFirst, Exclusive, Took, TookOrder, Sent, Counted, One
<1>12. AskedOnce(r, mine, asked, spin)
  BY <1>5, <1>7 DEF AskedOnce, Exclusive, Took, TookOrder, Sent, Counted, One
<1>13. 0 = 1 => 0 = 1
  BY <1>6, <1>7 DEF Exclusive
<1> QED
  BY <1>8, <1>9, <1>10, <1>11, <1>12, <1>13 DEF Dialogue

\* INQUIRE to ourselves.
LEMMA DialogueInquires ==
  ASSUME NEW q, NEW r, Sent(q, r, "INQUIRE"),
         NEW granted \in 0 .. 1, NEW waiting \in 0 .. 1, NEW turn \in 0 .. 1, NEW inside \in 0 .. 1, NEW spin \in 0 .. 1,
         Dialogue(q, 1, granted, waiting, 0, turn, inside, spin)
  PROVE  Dialogue(r, 1, granted, waiting, 1, turn, inside, spin)
<1>1. OnePlace(q, 1, waiting, turn)
  BY DEF Dialogue
<1>2. OneClaim(q, 1, granted)
  BY DEF Dialogue
<1>3. ReleasedFirst(q, waiting)
  BY DEF Dialogue
<1>4. RefusedFirst(q, granted, turn)
  BY DEF Dialogue
<1>5. AskedOnce(q, 1, 0, spin)
  BY DEF Dialogue
<1>6. inside = 1 => granted = 1
  BY DEF Dialogue
<1>7. Exclusive(q, 1, granted, waiting, turn)
  BY Excludes DEF Took, Sent
<1>8. OnePlace(r, 1, waiting, turn)
  BY <1>1, <1>7 DEF OnePlace, Exclusive, Took, TookOrder, Sent, Counted, One
<1>9. OneClaim(r, 1, granted)
  BY <1>2, <1>7 DEF OneClaim, Exclusive, Took, TookOrder, Sent, Counted, One
<1>10. ReleasedFirst(r, waiting)
  BY <1>3, <1>7 DEF ReleasedFirst, Exclusive, Took, TookOrder, Sent, Counted, One
<1>11. RefusedFirst(r, granted, turn)
  BY <1>4, <1>7 DEF RefusedFirst, Exclusive, Took, TookOrder, Sent, Counted, One
<1>12. AskedOnce(r, 1, 1, spin)
  <2>1. CASE Count(q, "LOCKED") = 0
    BY <1>5, <1>7, <2>1 DEF AskedOnce, Exclusive, Sent, Counted, One
  <2>2. CASE Count(q, "LOCKED") > 0
    <3>1. Count(q, "INQUIRE") + spin <= 1 /\ Ahead(q, "INQUIRE", "LOCKED")
      BY <1>5, <2>2 DEF AskedOnce
    <3>2. Count(q, "INQUIRE") = 0 \/ ~Ahead(q, "LOCKED", "INQUIRE")
      BY <2>2, <3>1 DEF Sent, Counted
    <3>3. Count(r, "INQUIRE") <= 1 \/ ~Ahead(r, "LOCKED", "INQUIRE")
      BY <3>1, <3>2 DEF Sent, Counted, One
    <3>4. Count(r, "INQUIRE") + spin <= 2 /\ Count(r, "LOCKED") > 0
      BY <2>2, <3>1 DEF Sent, Counted, One
    <3> QED
      BY <3>3, <3>4 DEF AskedOnce
  <2> QED
    BY <2>1, <2>2 DEF Sent, Counted
<1>13. inside = 1 => granted = 1
  BY <1>6, <1>7 DEF Exclusive
<1> QED
  BY <1>8, <1>9, <1>10, <1>11, <1>12, <1>13 DEF Dialogue

\* The lock is passed on to us.
LEMMA DialogueGrants ==
  ASSUME NEW q, NEW r, Sent(q, r, "LOCKED"),
         NEW granted \in 0 .. 1, NEW asked \in 0 .. 1, NEW turn \in 0 .. 1, NEW inside \in 0 .. 1, NEW spin \in 0 .. 1,
         Dialogue(q, 0, granted, 1, asked, turn, inside, spin)
  PROVE  Dialogue(r, 1, granted, 0, asked, turn, inside, spin)
<1>1. OnePlace(q, 0, 1, turn)
  BY DEF Dialogue
<1>2. OneClaim(q, 0, granted)
  BY DEF Dialogue
<1>3. ReleasedFirst(q, 1)
  BY DEF Dialogue
<1>4. RefusedFirst(q, granted, turn)
  BY DEF Dialogue
<1>5. AskedOnce(q, 0, asked, spin)
  BY DEF Dialogue
<1>6. inside = 1 => granted = 1
  BY DEF Dialogue
<1>7. Exclusive(q, 0, granted, 1, turn)
  BY Excludes DEF Took, Sent
<1>8. OnePlace(r, 1, 0, turn)
  BY <1>1, <1>7 DEF OnePlace, Exclusive, Took, TookOrder, Sent, Counted, One
<1>9. OneClaim(r, 1, granted)
  BY <1>2, <1>7 DEF OneClaim, Exclusive, Took, TookOrder, Sent, Counted, One
<1>10. ReleasedFirst(r, 0)
  BY <1>3, <1>7 DEF ReleasedFirst, Exclusive, Took, TookOrder, Sent, Counted, One
<1>11. RefusedFirst(r, granted, turn)
  BY <1>4, <1>7 DEF RefusedFirst, Exclusive, Took, TookOrder, Sent, Counted, One
<1>12. AskedOnce(r, 1, asked, spin)
  BY <1>5, <1>7 DEF AskedOnce, Exclusive, Took, TookOrder, Sent, Counted, One
<1>13. inside = 1 => granted = 1
  BY <1>6, <1>7 DEF Exclusive
<1> QED
  BY <1>8, <1>9, <1>10, <1>11, <1>12, <1>13 DEF Dialogue

\* Our REQUEST finds nobody that holds the lock.
LEMMA DialogueLocks ==
  ASSUME NEW q, NEW r, NEW p, Took(q, p, "REQUEST"), Sent(p, r, "LOCKED"),
         NEW granted \in 0 .. 1, NEW waiting \in 0 .. 1, NEW asked \in 0 .. 1, NEW turn \in 0 .. 1, NEW inside \in 0 .. 1, NEW spin \in 0 .. 1,
         Dialogue(q, 0, granted, waiting, asked, turn, inside, spin)
  PROVE  Dialogue(r, 1, granted, waiting, asked, turn, inside, spin)
<1>1. OnePlace(q, 0, waiting, turn)
  BY DEF Dialogue
<1>2. OneClaim(q, 0, granted)
  BY DEF Dialogue
<1>3. ReleasedFirst(q, waiting)
  BY DEF Dialogue
<1>4. RefusedFirst(q, granted, turn)
  BY DEF Dialogue
<1>5. AskedOnce(q, 0, asked, spin)
  BY DEF Dialogue
<1>6. inside = 1 => granted = 1
  BY DEF Dialogue
<1>7. Exclusive(q, 0, granted, waiting, turn)
  BY Excludes DEF Took, Sent
<1>8. OnePlace(r, 1, waiting, turn)
  BY <1>1, <1>7 DEF OnePlace, Exclusive, Took, TookOrder, Sent, Counted, One
<1>9. OneClaim(r, 1, granted)
  BY <1>2, <1>7 DEF OneClaim, Exclusive, Took, TookOrder, Sent, Counted, One
<1>10. ReleasedFirst(r, waiting)
  BY <1>3, <1>7 DEF ReleasedFirst, Exclusive, Took, TookOrder, Sent, Counted, One
<1>11. RefusedFirst(r, granted, turn)
  BY <1>4, <1>7 DEF RefusedFirst, Exclusive, Took, TookOrder, Sent, Counted, One
<1>12. AskedOnce(r, 1, asked, spin)
  <2>1. Count(q, "LOCKED") = 0 /\ Count(q, "INQUIRE") + spin <= 1 /\ asked = 0
    BY <1>5, <1>7 DEF AskedOnce, Exclusive, Took
  <2>2. Count(p, "LOCKED") = 0 /\ Count(p, "INQUIRE") = Count(q, "INQUIRE")
    BY <2>1 DEF Took, Counted, One
  <2>3. Ahead(p, "INQUIRE", "LOCKED")
    BY <2>2 DEF Took, Counted
  <2>4. /\ Count(r, "LOCKED") = 1 /\ Count(r, "INQUIRE") = Count(p, "INQUIRE")
        /\ Ahead(r, "INQUIRE", "LOCKED")
    BY <2>2, <2>3 DEF Sent, Counted, One
  <2>5. Count(r, "INQUIRE") \in Nat
    BY DEF Sent, Counted
  <2> QED
    BY <2>1, <2>2, <2>4, <2>5 DEF AskedOnce
<1>13. inside = 1 => granted = 1
  BY <1>6, <1>7 DEF Exclusive
<1> QED
  BY <1>8, <1>9, <1>10, <1>11, <1>12, <1>13 DEF Dialogue

\* Our REQUEST waits and is not answered ...
LEMMA DialogueWaits ==
  ASSUME NEW q, NEW r, Took(q, r, "REQUEST"),
         NEW mine \in 0 .. 1, NEW granted \in 0 .. 1, NEW waiting \in 0 .. 1, NEW asked \in 0 .. 1, NEW turn \in 0 .. 1, NEW inside \in 0 .. 1, NEW spin \in 0 .. 1,
         Dialogue(q, mine, granted, waiting, asked, turn, inside, spin)
  PROVE  Dialogue(r, mine, granted, 1, asked, turn, inside, spin)
<1>1. OnePlace(q, mine, waiting, turn)
  BY DEF Dialogue
<1>2. OneClaim(q, mine, granted)
  BY DEF Dialogue
<1>3. ReleasedFirst(q, waiting)
  BY DEF Dialogue
<1>4. RefusedFirst(q, granted, turn)
  BY DEF Dialogue
<1>5. AskedOnce(q, mine, asked, spin)
  BY DEF Dialogue
<1>6. inside = 1 => granted = 1
  BY DEF Dialogue
<1>7. Exclusive(q, mine, granted, waiting, turn)
  BY Excludes DEF Took, Sent
<1>8. OnePlace(r, mine, 1, turn)
  BY <1>1, <1>7 DEF OnePlace, Exclusive, Took, TookOrder, Sent, Counted, One
<1>9. OneClaim(r, mine, granted)
  BY <1>2, <1>7 DEF OneClaim, Exclusive, Took, TookOrder, Sent, Counted, One
<1>10. ReleasedFirst(r, 1)
  BY <1>3, <1>7 DEF ReleasedFirst, Exclusive, Took, TookOrder, Sent, Counted, One
<1>11. RefusedFirst(r, granted, turn)
  BY <1>4, <1>7 DEF RefusedFirst, Exclusive, Took, TookOrder, Sent, Counted, One
<1>12. AskedOnce(r, mine, asked, spin)
  BY <1>5, <1>7 DEF AskedOnce, Exclusive, Took, TookOrder, Sent, Counted, One
<1>13. inside = 1 => granted = 1
  BY <1>6, <1>7 DEF Exclusive
<1> QED
  BY <1>8, <1>9, <1>10, <1>11, <1>12, <1>13 DEF Dialogue

\* ... or answered with FAILED.
LEMMA DialogueRefuses ==
  ASSUME NEW q, NEW r, NEW p, Took(q, p, "REQUEST"), Sent(p, r, "FAILED"),
         NEW mine \in 0 .. 1, NEW granted \in 0 .. 1, NEW waiting \in 0 .. 1, NEW asked \in 0 .. 1, NEW turn \in 0 .. 1, NEW inside \in 0 .. 1, NEW spin \in 0 .. 1,
         Dialogue(q, mine, granted, waiting, asked, turn, inside, spin)
  PROVE  Dialogue(r, mine, granted, 1, asked, turn, inside, spin)
<1>1. OnePlace(q, mine, waiting, turn)
  BY DEF Dialogue
<1>2. OneClaim(q, mine, granted)
  BY DEF Dialogue
<1>3. ReleasedFirst(q, waiting)
  BY DEF Dialogue
<1>4. RefusedFirst(q, granted, turn)
  BY DEF Dialogue
<1>5. AskedOnce(q, mine, asked, spin)
  BY DEF Dialogue
<1>6. inside = 1 => granted = 1
  BY DEF Dialogue
<1>7. Exclusive(q, mine, granted, waiting, turn)
  BY Excludes DEF Took, Sent
<1>14. /\ Count(q, "REQUEST") = 1 /\ waiting = 0 /\ turn = 1 /\ mine = 0
       /\ Count(q, "FAILED") = 0 /\ Count(q, "RELEASE") = 0 /\ Count(q, "LOCKED") = 0
       /\ granted = 0
  <2>1. Count(q, "REQUEST") > 0 /\ Count(q, "RELEASE") = 0
    BY <1>3 DEF ReleasedFirst, Took, TookOrder, Counted, One
  <2> QED
    BY <1>4, <1>7, <2>1 DEF RefusedFirst, Exclusive, Took, Counted
<1>8. OnePlace(r, mine, 1, turn)
  BY <1>14, <1>1, <1>7 DEF OnePlace, Exclusive, Took, TookOrder, Sent, Counted, One
<1>9. OneClaim(r, mine, granted)
  BY <1>2, <1>7 DEF OneClaim, Exclusive, Took, TookOrder, Sent, Counted, One
<1>10. ReleasedFirst(r, 1)
  BY <1>3, <1>7 DEF ReleasedFirst, Exclusive, Took, TookOrder, Sent, Counted, One
<1>11. RefusedFirst(r, granted, turn)
  BY <1>14, <1>4, <1>7 DEF RefusedFirst, Exclusive, Took, TookOrder, Sent, Counted, One
<1>12. AskedOnce(r, mine, asked, spin)
  BY <1>5, <1>7 DEF AskedOnce, Exclusive, Took, TookOrder, Sent, Counted, One
<1>13. inside = 1 => granted = 1
  BY <1>6, <1>7 DEF Exclusive
<1> QED
  BY <1>8, <1>9, <1>10, <1>11, <1>12, <1>13 DEF Dialogue

\* LOCKED comes.
LEMMA DialogueGranted ==
  ASSUME NEW q, NEW r, Took(q, r, "LOCKED"),
         NEW mine \in 0 .. 1, NEW granted \in 0 .. 1, NEW waiting \in 0 .. 1, NEW asked \in 0 .. 1, NEW turn \in 0 .. 1, NEW inside \in 0 .. 1,
         Dialogue(q, mine, granted, waiting, asked, turn, inside, 0)
  PROVE  Dialogue(r, mine, 1, waiting, asked, turn, inside, 0)
<1>1. OnePlace(q, mine, waiting, turn)
  BY DEF Dialogue
<1>2. OneClaim(q, mine, granted)
  BY DEF Dialogue
<1>3. ReleasedFirst(q, waiting)
  BY DEF Dialogue
<1>4. RefusedFirst(q, granted, turn)
  BY DEF Dialogue
<1>5. AskedOnce(q, mine, asked, 0)
  BY DEF Dialogue
<1>6. inside = 1 => granted = 1
  BY DEF Dialogue
<1>7. Exclusive(q, mine, granted, waiting, turn)
  BY Excludes DEF Took, Sent
<1>8. OnePlace(r, mine, waiting, turn)
  BY <1>1, <1>7 DEF OnePlace, Exclusive, Took, TookOrder, Sent, Counted, One
<1>9. OneClaim(r, mine, 1)
  BY <1>2, <1>7 DEF OneClaim, Exclusive, Took, TookOrder, Sent, Counted, One
<1>10. ReleasedFirst(r, waiting)
  BY <1>3, <1>7 DEF ReleasedFirst, Exclusive, Took, TookOrder, Sent, Counted, One
<1>11. RefusedFirst(r, 1, turn)
  BY <1>4, <1>7 DEF RefusedFirst, Exclusive, Took, TookOrder, Sent, Counted, One
<1>12. AskedOnce(r, mine, asked, 0)
  BY <1>5, <1>7 DEF AskedOnce, Exclusive, Took, TookOrder, Sent, Counted, One
<1>13. inside = 1 => 1 = 1
  BY <1>6, <1>7 DEF Exclusive
<1> QED
  BY <1>8, <1>9, <1>10, <1>11, <1>12, <1>13 DEF Dialogue

\* FAILED comes.
LEMMA DialogueRefused ==
  ASSUME NEW q, NEW r, Took(q, r, "FAILED"),
         NEW mine \in 0 .. 1, NEW granted \in 0 .. 1, NEW waiting \in 0 .. 1, NEW asked \in 0 .. 1, NEW turn \in 0 .. 1, NEW inside \in 0 .. 1, NEW spin \in 0 .. 1,
         Dialogue(q, mine, granted, waiting, asked, turn, inside, spin)
  PROVE  Dialogue(r, mine, 0, waiting, asked, turn, inside, spin)
<1>1. OnePlace(q, mine, waiting, turn)
  BY DEF Dialogue
<1>2. OneClaim(q, mine, granted)
  BY DEF Dialogue
<1>3. ReleasedFirst(q, waiting)
  BY DEF Dialogue
<1>4. RefusedFirst(q, granted, turn)
  BY DEF Dialogue
<1>5. AskedOnce(q, mine, asked, spin)
  BY DEF Dialogue
<1>6. inside = 1 => granted = 1
  BY DEF Dialogue
<1>7. Exclusive(q, mine, granted, waiting, turn)
  BY Excludes DEF Took, Sent
<1>14. granted = 0
  BY <1>4 DEF RefusedFirst, Took, Counted, One
<1>8. OnePlace(r, mine, waiting, turn)
  BY <1>1, <1>7 DEF OnePlace, Exclusive, Took, TookOrder, Sent, Counted, One
<1>9. OneClaim(r, mine, 0)
  BY <1>14, <1>2, <1>7 DEF OneClaim, Exclusive, Took, TookOrder, Sent, Counted, One
<1>10. ReleasedFirst(r, waiting)
  BY <1>3, <1>7 DEF ReleasedFirst, Exclusive, Took, TookOrder, Sent, Counted, One
<1>11. RefusedFirst(r, 0, turn)
  BY <1>4, <1>7 DEF RefusedFirst, Exclusive, Took, TookOrder, Sent, Counted, One
<1>12. AskedOnce(r, mine, asked, spin)
  BY <1>5, <1>7 DEF AskedOnce, Exclusive, Took, TookOrder, Sent, Counted, One
<1>13. inside = 1 => 0 = 1
  BY <1>14, <1>6, <1>7 DEF Exclusive
<1> QED
  BY <1>8, <1>9, <1>10, <1>11, <1>12, <1>13 DEF Dialogue

\* INQUIRE comes.
LEMMA DialogueAsked ==
  ASSUME NEW q, NEW r, Took(q, r, "INQUIRE"),
         NEW mine \in 0 .. 1, NEW granted \in 0 .. 1, NEW waiting \in 0 .. 1, NEW asked \in 0 .. 1, NEW turn \in 0 .. 1, NEW inside \in 0 .. 1,
         Dialogue(q, mine, granted, waiting, asked, turn, inside, 0)
  PROVE  Dialogue(r, mine, granted, waiting, asked, turn, inside, 1)
<1>1. OnePlace(q, mine, waiting, turn)
  BY DEF Dialogue
<1>2. OneClaim(q, mine, granted)
  BY DEF Dialogue
<1>3. ReleasedFirst(q, waiting)
  BY DEF Dialogue
<1>4. RefusedFirst(q, granted, turn)
  BY DEF Dialogue
<1>5. AskedOnce(q, mine, asked, 0)
  BY DEF Dialogue
<1>6. inside = 1 => granted = 1
  BY DEF Dialogue
<1>7. Exclusive(q, mine, granted, waiting, turn)
  BY Excludes DEF Took, Sent
<1>8. OnePlace(r, mine, waiting, turn)
  BY <1>1, <1>7 DEF OnePlace, Exclusive, Took, TookOrder, Sent, Counted, One
<1>9. OneClaim(r, mine, granted)
  BY <1>2, <1>7 DEF OneClaim, Exclusive, Took, TookOrder, Sent, Counted, One
<1>10. ReleasedFirst(r, waiting)
  BY <1>3, <1>7 DEF ReleasedFirst, Exclusive, Took, TookOrder, Sent, Counted, One
<1>11. RefusedFirst(r, granted, turn)
  BY <1>4, <1>7 DEF RefusedFirst, Exclusive, Took, TookOrder, Sent, Counted, One
<1>12. AskedOnce(r, mine, asked, 1)
  BY <1>5, <1>7 DEF AskedOnce, Exclusive, Took, TookOrder, Sent, Counted, One
<1>13. inside = 1 => granted = 1
  BY <1>6, <1>7 DEF Exclusive
<1> QED
  BY <1>8, <1>9, <1>10, <1>11, <1>12, <1>13 DEF Dialogue

\* We give the lock back that we have.
LEMMA DialogueRelinquishes ==
  ASSUME NEW q, NEW r, Sent(q, r, "RELINQUISH"),
         NEW mine \in 0 .. 1, NEW waiting \in 0 .. 1, NEW asked \in 0 .. 1,
         Dialogue(q, mine, 1, waiting, asked, 1, 0, 1)
  PROVE  Dialogue(r, mine, 0, waiting, asked, 1, 0, 0)
<1>1. OnePlace(q, mine, waiting, 1)
  BY DEF Dialogue
<1>2. OneClaim(q, mine, 1)
  BY DEF Dialogue
<1>3. ReleasedFirst(q, waiting)
  BY DEF Dialogue
<1>4. RefusedFirst(q, 1, 1)
  BY DEF Dialogue
<1>5. AskedOnce(q, mine, asked, 1)
  BY DEF Dialogue
<1>6. 0 = 1 => 1 = 1
  BY DEF Dialogue
<1>7. Exclusive(q, mine, 1, waiting, 1)
  BY Excludes DEF Took, Sent
<1>8. OnePlace(r, mine, waiting, 1)
  BY <1>1, <1>7 DEF OnePlace, Exclusive, Took, TookOrder, Sent, Counted, One
<1>9. OneClaim(r, mine, 0)
  BY <1>2, <1>7 DEF OneClaim, Exclusive, Took, TookOrder, Sent, Counted, One
<1>10. ReleasedFirst(r, waiting)
  BY <1>3, <1>7 DEF ReleasedFirst, Exclusive, Took, TookOrder, Sent, Counted, One
<1>11. RefusedFirst(r, 0, 1)
  BY <1>4, <1>7 DEF RefusedFirst, Exclusive, Took, TookOrder, Sent, Counted, One
<1>12. AskedOnce(r, mine, asked, 0)
  BY <1>5, <1>7 DEF AskedOnce, Exclusive, Took, TookOrder, Sent, Counted, One
<1>13. 0 = 1 => 0 = 1
  BY <1>6, <1>7 DEF Exclusive
<1> QED
  BY <1>8, <1>9, <1>10, <1>11, <1>12, <1>13 DEF Dialogue

\* RELINQUISH comes.
LEMMA DialogueRequeues ==
  ASSUME NEW q, NEW r, Took(q, r, "RELINQUISH"),
         NEW mine \in 0 .. 1, NEW granted \in 0 .. 1, NEW waiting \in 0 .. 1, NEW asked \in 0 .. 1, NEW turn \in 0 .. 1, NEW inside \in 0 .. 1,
         Dialogue(q, mine, granted, waiting, asked, turn, inside, 0)
  PROVE  Dialogue(r, 0, granted, 1, 0, turn, inside, 0)
<1>1. OnePlace(q, mine, waiting, turn)
  BY DEF Dialogue
<1>2. OneClaim(q, mine, granted)
  BY DEF Dialogue
<1>3. ReleasedFirst(q, waiting)
  BY DEF Dialogue
<1>4. RefusedFirst(q, granted, turn)
  BY DEF Dialogue
<1>5. AskedOnce(q, mine, asked, 0)
  BY DEF Dialogue
<1>6. inside = 1 => granted = 1
  BY DEF Dialogue
<1>7. Exclusive(q, mine, granted, waiting, turn)
  BY Excludes DEF Took, Sent
<1>8. OnePlace(r, 0, 1, turn)
  BY <1>1, <1>7 DEF OnePlace, Exclusive, Took, TookOrder, Sent, Counted, One
<1>9. OneClaim(r, 0, granted)
  BY <1>2, <1>7 DEF OneClaim, Exclusive, Took, TookOrder, Sent, Counted, One
<1>10. ReleasedFirst(r, 1)
  BY <1>3, <1>7 DEF ReleasedFirst, Exclusive, Took, TookOrder, Sent, Counted, One
<1>11. RefusedFirst(r, granted, turn)
  BY <1>4, <1>7 DEF RefusedFirst, Exclusive, Took, TookOrder, Sent, Counted, One
<1>12. AskedOnce(r, 0, 0, 0)
  BY <1>5, <1>7 DEF AskedOnce, Exclusive, Took, TookOrder, Sent, Counted, One
<1>13. inside = 1 => granted = 1
  BY <1>6, <1>7 DEF Exclusive
<1> QED
  BY <1>8, <1>9, <1>10, <1>11, <1>12, <1>13 DEF Dialogue

\* RELEASE comes.
LEMMA DialogueEnds ==
  ASSUME NEW q, NEW r, Took(q, r, "RELEASE"),
         NEW mine \in 0 .. 1, NEW granted \in 0 .. 1, NEW waiting \in 0 .. 1, NEW asked \in 0 .. 1, NEW turn \in 0 .. 1, NEW inside \in 0 .. 1, NEW spin \in 0 .. 1,
         Dialogue(q, mine, granted, waiting, asked, turn, inside, spin)
  PROVE  Dialogue(r, 0, granted, waiting, 0, turn, inside, spin)
<1>1. OnePlace(q, mine, waiting, turn)
  BY DEF Dialogue
<1>2. OneClaim(q, mine, granted)
  BY DEF Dialogue
<1>3. ReleasedFirst(q, waiting)
  BY DEF Dialogue
<1>4. RefusedFirst(q, granted, turn)
  BY DEF Dialogue
<1>5. AskedOnce(q, mine, asked, spin)
  BY DEF Dialogue
<1>6. inside = 1 => granted = 1
  BY DEF Dialogue
<1>7. Exclusive(q, mine, granted, waiting, turn)
  BY Excludes DEF Took, Sent
<1>8. OnePlace(r, 0, waiting, turn)
  BY <1>1, <1>7 DEF OnePlace, Exclusive, Took, TookOrder, Sent, Counted, One
<1>9. OneClaim(r, 0, granted)
  BY <1>2, <1>7 DEF OneClaim, Exclusive, Took, TookOrder, Sent, Counted, One
<1>10. ReleasedFirst(r, waiting)
  BY <1>3, <1>7 DEF ReleasedFirst, Exclusive, Took, TookOrder, Sent, Counted, One
<1>11. RefusedFirst(r, granted, turn)
  BY <1>4, <1>7 DEF RefusedFirst, Exclusive, Took, TookOrder, Sent, Counted, One
<1>12. AskedOnce(r, 0, 0, spin)
  BY <1>5, <1>7 DEF AskedOnce, Exclusive, Took, TookOrder, Sent, Counted, One
<1>13. inside = 1 => granted = 1
  BY <1>6, <1>7 DEF Exclusive
<1> QED
  BY <1>8, <1>9, <1>10, <1>11, <1>12, <1>13 DEF Dialogue

-----------------------------------------------------------------------------
(***************************************************************************)
(* The dialogue about each file, in the variables.                         *)
(***************************************************************************)
OurTurn(f) == current = f /\ main # "idle"

Mine(f) == One(holder[f] = "me")
Granted(f) == One(request_reply[f] = "LOCKED")
Waiting(f) == One("me" \in waits[f])
Asked(f) == One(inquired[f])
Turn(f) == One(OurTurn(f))
Inside(f) == One(OurTurn(f) /\ main = "critical")
Spin(f) == One(self = "spinning" /\ packet.file = f)

Kept(f) == Dialogue(sent[f], Mine(f), Granted(f), Waiting(f), Asked(f),
                    Turn(f), Inside(f), Spin(f))

PInv == faults = {} => \A f \in Files : Kept(f)

\* A step that is not about the file g.
Apart(g) ==
  /\ sent'[g] = sent[g]
  /\ Mine(g)' = Mine(g) /\ Granted(g)' = Granted(g)
  /\ Waiting(g)' = Waiting(g) /\ Asked(g)' = Asked(g)
  /\ Turn(g)' = Turn(g) /\ Inside(g)' = Inside(g) /\ Spin(g)' = Spin(g)

\* A step that touches nothing of a file keeps its dialogue.
LEMMA KeptApart ==
  ASSUME NEW g, Kept(g), Apart(g)
  PROVE  Kept(g)'
BY DEF Kept, Apart

\* A truth value as a number.
LEMMA OneType ==
  ASSUME NEW b
  PROVE  One(b) \in 0 .. 1
BY DEF One

\* A message to ourselves is a message, of the file and the type asked for.
LEMMA OwnType ==
  ASSUME RestOK, NEW f \in Files, NEW t \in MessageType
  PROVE  /\ OwnMessage(f, t) \in Message
         /\ OwnMessage(f, t).file = f
         /\ OwnMessage(f, t).type = t
BY DEF RestOK, OwnMessage, Message

\* What a push does to what is under way.
LEMMA PushStream ==
  ASSUME NEW unsent \in [Files -> Seq(Message)], NEW f \in Files,
         NEW m \in Message, m.file = f, Push(m, unsent)
  PROVE  /\ Sent(unsent[f], sent'[f], m.type)
         /\ \A g \in Files : g # f => sent'[g] = unsent[g]
<1>1. sent' = [unsent EXCEPT ![f] = Append(@, m)]
  BY DEF Push
<1>2. sent'[f] = Append(unsent[f], m) /\ unsent[f] \in Seq(Message)
  BY <1>1
<1> QED
  BY <1>1, <1>2, SentOne

\* A push of a message of type t puts it at the end of the stream of its file.
LEMMA OwnStream ==
  ASSUME RestOK, NEW unsent \in [Files -> Seq(Message)], NEW f \in Files,
         NEW t \in MessageType, Push(OwnMessage(f, t), unsent)
  PROVE  /\ Sent(unsent[f], sent'[f], t)
         /\ \A g \in Files : g # f => sent'[g] = unsent[g]
<1> DEFINE m == OwnMessage(f, t)
<1>1. m \in Message /\ m.file = f /\ m.type = t
  BY OwnType
<1>2. Push(m, unsent)
  OBVIOUS
<1> HIDE DEF m
<1> QED
  BY <1>1, <1>2, PushStream

\* Taking a message in its turn leaves the rest.
LEMMA TakeStream ==
  ASSUME OInv, NEW t, Treat(t), faults' = {}
  PROVE  /\ packet.file \in Files
         /\ Unsent \in [Files -> Seq(Message)]
         /\ Took(sent[packet.file], Unsent[packet.file], t)
         /\ \A g \in Files : g # packet.file => Unsent[g] = sent[g]
<1> DEFINE f == packet.file
           q == sent[f]
<1>1. packet \in Message /\ f \in Files /\ sent \in [Files -> Seq(Message)] /\ q \in Seq(Message)
  BY DEF OInv, Message
<1>2. q # <<>> /\ Head(q) = packet /\ packet.type = t
  BY DEF Treat
<1>3. Len(q) \in Nat \ {0} /\ Head(q) = q[1] /\ Tail(q) \in Seq(Message)
  BY <1>1, <1>2, Taken
<1>4. q = <<packet>> \o Tail(q)
  <2> HIDE DEF q
  <2> QED
    BY <1>1, <1>2, <1>3, HeadFirst
<1>5. RemoveFirst(q, packet) = Tail(q)
  <2> HIDE DEF q
  <2>1. RemoveFirst(<<packet>> \o Tail(q), packet) = Tail(q)
    BY <1>1, <1>3, RemoveHead
  <2> QED
    BY <1>4, <2>1
<1>6. packet \in Range(q)
  <2> HIDE DEF q
  <2> QED
    BY <1>1, <1>2, <1>3, LenProperties DEF Range
<1>7. Unsent = [sent EXCEPT ![f] = Tail(q)]
  BY <1>5, <1>6 DEF Unsent
<1>8. Unsent[f] = Tail(q)
  BY <1>1, <1>7
<1>9. Took(q, Tail(q), t)
  <2> HIDE DEF q
  <2>1. Took(q, Tail(q), Head(q).type)
    BY <1>1, <1>2, TookOne
  <2> QED
    BY <1>2, <2>1
<1>10. Unsent \in [Files -> Seq(Message)]
  <2> HIDE DEF q
  <2> QED
    BY <1>1, <1>3, <1>7
<1> QED
  BY <1>1, <1>7, <1>8, <1>9, <1>10

\* Where the lock goes: to somebody else or nobody, or to us, who waited.
Elsewhere(f, requeued, unsent) ==
  /\ holder'[f] # "me"
  /\ "me" \in waits'[f] <=> "me" \in waits[f] \/ (waits[f] # {} /\ "me" \in requeued)
  /\ NoPush(unsent)

ToUs(f, requeued, unsent) ==
  /\ "me" \in waits[f]
  /\ holder'[f] = "me"
  /\ "me" \in waits'[f] <=> "me" \in requeued
  /\ Push(OwnMessage(f, "LOCKED"), unsent)

\* The lock that is passed on goes to us or to somebody else, with what our
\* requester is then told; other files have no part in it.
LEMMA PassLockGoes ==
  ASSUME RestOK, NEW f \in Files, NEW requeued, NEW unsent,
         PassLock(f, requeued, unsent)
  PROVE  /\ Elsewhere(f, requeued, unsent) \/ ToUs(f, requeued, unsent)
         /\ \A g \in Files : g # f => holder'[g] = holder[g] /\ waits'[g] = waits[g]
<1>1. /\ holder \in [Files -> {"nobody", "me", "other"}]
      /\ waits \in [Files -> SUBSET {"nobody", "me", "other"}]
  BY DEF RestOK
<1>2. CASE /\ waits[f] = {}
           /\ holder' = [holder EXCEPT ![f] = "nobody"]
           /\ UNCHANGED waits
           /\ NoPush(unsent)
  BY <1>1, <1>2 DEF Elsewhere
<1>3. ASSUME NEW h \in waits[f], NEW more \in SUBSET (waits[f] \ {"me"}),
             holder' = [holder EXCEPT ![f] = h],
             waits' = [waits EXCEPT ![f] = (@ \ {h}) \union more \union requeued],
             IF h = "me" THEN Push(OwnMessage(f, "LOCKED"), unsent)
                         ELSE NoPush(unsent)
      PROVE  /\ Elsewhere(f, requeued, unsent) \/ ToUs(f, requeued, unsent)
             /\ \A g \in Files : g # f => holder'[g] = holder[g] /\ waits'[g] = waits[g]
  <2>1. /\ holder'[f] = h
        /\ waits'[f] = (waits[f] \ {h}) \union more \union requeued
        /\ \A g \in Files : g # f => holder'[g] = holder[g] /\ waits'[g] = waits[g]
    BY <1>1, <1>3
  <2>2. CASE h = "me"
    BY <1>3, <2>1, <2>2 DEF ToUs
  <2>3. CASE h # "me"
    BY <1>3, <2>1, <2>3 DEF Elsewhere
  <2> QED
    BY <2>1, <2>2, <2>3
<1> QED
  BY <1>2, <1>3 DEF PassLock

-----------------------------------------------------------------------------
\* What all the lemmas about a step assume.
Going == OInv /\ faults = {} /\ \A f \in Files : Kept(f)

\* The values of Kept are zero or one.
LEMMA ValuesType ==
  ASSUME NEW f
  PROVE  /\ Mine(f) \in 0 .. 1 /\ Granted(f) \in 0 .. 1 /\ Waiting(f) \in 0 .. 1
         /\ Asked(f) \in 0 .. 1 /\ Turn(f) \in 0 .. 1 /\ Inside(f) \in 0 .. 1
         /\ Spin(f) \in 0 .. 1
BY OneType DEF Mine, Granted, Waiting, Asked, Turn, Inside, Spin

\* request_resource(): nothing of an earlier request is left, so one place is free.
LEMMA RequestKept ==
  ASSUME Going, NumberAssumption, NEW f \in Files, RequestResource(f)
  PROVE  \A g \in Files : Kept(g)'
<1>1. /\ RestOK /\ sent \in [Files -> Seq(Message)] /\ Kept(f)
      /\ request_reply \in [Files -> {"NONE", "WAITING", "FAILED", "LOCKED"}]
      /\ hgst_sequence_number[f] + 1 \in 0 .. MaxNumber
  BY DEF Going, OInv, RestOK, RequestResource, NumberAssumption
<1>2. /\ main = "idle" /\ main' = "waiting" /\ current' = f
      /\ request_reply' = [request_reply EXCEPT ![f] = "WAITING"]
      /\ UNCHANGED <<self, packet, holder, waits, inquired>>
  BY DEF RequestResource, arbiter
<1> DEFINE m == [OwnMessage(f, "REQUEST") EXCEPT !.timestamp = hgst_sequence_number[f] + 1]
<1>3. m \in Message /\ m.file = f /\ m.type = "REQUEST"
  BY <1>1, Types DEF OwnMessage, Message
<1>4. Push(m, sent)
  BY DEF RequestResource
<1> HIDE DEF m
<1>5. /\ Sent(sent[f], sent'[f], "REQUEST")
      /\ \A g \in Files : g # f => sent'[g] = sent[g]
  BY <1>1, <1>3, <1>4, PushStream
<1>6. \A g \in Files : Turn(g) = 0 /\ Inside(g) = 0
  BY <1>2 DEF Turn, Inside, OurTurn, One
<1>7. \A g \in Files : g # f => Turn(g)' = 0 /\ Inside(g)' = 0
  BY <1>2 DEF Turn, Inside, OurTurn, One
<1>8. \A g \in Files : Mine(g)' = Mine(g) /\ Waiting(g)' = Waiting(g)
                       /\ Asked(g)' = Asked(g) /\ Spin(g)' = Spin(g)
  BY <1>2 DEF Mine, Waiting, Asked, Spin
<1>9. \A g \in Files : g # f => Granted(g)' = Granted(g)
  BY <1>1, <1>2 DEF Granted
<1>10. Granted(f)' = 0 /\ Turn(f)' = 1 /\ Inside(f)' = 0
  BY <1>1, <1>2 DEF Granted, Turn, Inside, OurTurn, One
<1>11. Dialogue(sent[f], Mine(f), Granted(f), Waiting(f), Asked(f), 0, 0, Spin(f))
  BY <1>1, <1>6 DEF Kept
<1>12. Dialogue(sent'[f], Mine(f), 0, Waiting(f), Asked(f), 1, 0, Spin(f))
  BY <1>5, <1>11, ValuesType, DialogueAsks
<1>13. Kept(f)'
  BY <1>8, <1>10, <1>12 DEF Kept
<1>14. ASSUME NEW g \in Files, g # f PROVE Kept(g)'
  <2>1. Apart(g)
    BY <1>5, <1>6, <1>7, <1>8, <1>9, <1>14 DEF Apart
  <2> QED
    BY <2>1, KeptApart DEF Going
<1> QED
  BY <1>13, <1>14

\* Entering: all have answered LOCKED, our own arbiter among them.
LEMMA EnterKept ==
  ASSUME Going, EnterCriticalSection
  PROVE  \A g \in Files : Kept(g)'
<1>1. /\ main = "waiting" /\ main' = "critical"
      /\ request_reply[current] = "LOCKED"
      /\ UNCHANGED <<self, packet, current, request_reply, holder, waits, inquired, sent>>
  BY DEF EnterCriticalSection, arbiter
<1>2. ASSUME NEW g \in Files PROVE Kept(g)'
  <2>1. /\ sent'[g] = sent[g] /\ Mine(g)' = Mine(g) /\ Granted(g)' = Granted(g)
        /\ Waiting(g)' = Waiting(g) /\ Asked(g)' = Asked(g) /\ Spin(g)' = Spin(g)
    BY <1>1 DEF Mine, Granted, Waiting, Asked, Spin
  <2>2. Turn(g)' = Turn(g)
    BY <1>1 DEF Turn, OurTurn
  <2>3. Inside(g)' = 1 => Granted(g) = 1
    BY <1>1 DEF Inside, OurTurn, Granted, One
  <2>4. Kept(g)
    BY DEF Going
  <2> QED
    BY <2>1, <2>2, <2>3, <2>4 DEF Kept, Dialogue
<1> QED
  BY <1>2

\* release_resource(): the LOCKED becomes the RELEASE under way.
LEMMA ReleaseKept ==
  ASSUME Going, ReleaseResource
  PROVE  \A g \in Files : Kept(g)'
<1>0. PICK f \in Files : f = current
  BY DEF Going, OInv, RestOK
<1>1. /\ RestOK /\ sent \in [Files -> Seq(Message)]
      /\ request_reply \in [Files -> {"NONE", "WAITING", "FAILED", "LOCKED"}]
  BY DEF Going, OInv, RestOK
<1>2. /\ main = "critical" /\ main' = "idle" /\ current' = current
      /\ request_reply' = [request_reply EXCEPT ![f] = "NONE"]
      /\ Push(OwnMessage(f, "RELEASE"), sent)
      /\ UNCHANGED <<self, packet, holder, waits, inquired>>
  BY <1>0 DEF ReleaseResource, arbiter
<1>3. /\ Sent(sent[f], sent'[f], "RELEASE")
      /\ \A g \in Files : g # f => sent'[g] = sent[g]
  BY <1>1, <1>2, Types, OwnStream
<1>4. Turn(f) = 1 /\ Inside(f) = 1
  BY <1>0, <1>2 DEF Turn, Inside, OurTurn, One
<1>5. Turn(f)' = 0 /\ Inside(f)' = 0 /\ Granted(f)' = 0
  BY <1>0, <1>1, <1>2 DEF Turn, Inside, OurTurn, One, Granted
<1>6. \A g \in Files : g # f =>
        /\ Turn(g) = 0 /\ Inside(g) = 0 /\ Turn(g)' = 0 /\ Inside(g)' = 0
        /\ Granted(g)' = Granted(g)
  BY <1>0, <1>1, <1>2 DEF Turn, Inside, OurTurn, One, Granted
<1>7. \A g \in Files : Mine(g)' = Mine(g) /\ Waiting(g)' = Waiting(g)
                       /\ Asked(g)' = Asked(g) /\ Spin(g)' = Spin(g)
  BY <1>2 DEF Mine, Waiting, Asked, Spin
<1>8. Dialogue(sent[f], Mine(f), Granted(f), Waiting(f), Asked(f), 1, 1, Spin(f))
  BY <1>1, <1>4 DEF Kept, Going
<1>9. Dialogue(sent'[f], Mine(f), 0, Waiting(f), Asked(f), 0, 0, Spin(f))
  BY <1>3, <1>8, ValuesType, DialogueGivesBack
<1>10. Kept(f)'
  BY <1>5, <1>7, <1>9 DEF Kept
<1>11. ASSUME NEW g \in Files, g # f PROVE Kept(g)'
  <2>1. Apart(g)
    BY <1>3, <1>6, <1>7, <1>11 DEF Apart
  <2> QED
    BY <2>1, KeptApart DEF Going
<1> QED
  BY <1>10, <1>11

-----------------------------------------------------------------------------
\* A request of another client may make our arbiter send us INQUIRE.
LEMMA OtherRequestsKept ==
  ASSUME Going, NEW f \in Files, OtherRequests(f)
  PROVE  \A g \in Files : Kept(g)'
<1>1. /\ RestOK /\ sent \in [Files -> Seq(Message)] /\ Kept(f)
      /\ holder \in [Files -> {"nobody", "me", "other"}]
      /\ waits \in [Files -> SUBSET {"nobody", "me", "other"}]
      /\ inquired \in [Files -> BOOLEAN]
  BY DEF Going, OInv, RestOK
<1>2. UNCHANGED <<self, packet, main, current, request_reply>>
  BY DEF OtherRequests, requester
<1>3. \A g \in Files : Granted(g)' = Granted(g) /\ Turn(g)' = Turn(g)
                       /\ Inside(g)' = Inside(g) /\ Spin(g)' = Spin(g)
  BY <1>2 DEF Granted, Turn, Inside, OurTurn, Spin
<1>4. CASE holder[f] = "nobody"
  <2>1. /\ holder' = [holder EXCEPT ![f] = "other"]
        /\ UNCHANGED <<waits, inquired, sent>>
    BY <1>4 DEF OtherRequests, NoPush
  <2>2. ASSUME NEW g \in Files PROVE Apart(g)
    <3>1. Mine(g)' = Mine(g) /\ Waiting(g)' = Waiting(g) /\ Asked(g)' = Asked(g)
      BY <1>1, <1>4, <2>1 DEF Mine, Waiting, Asked, One
    <3> QED
      BY <1>3, <2>1, <3>1 DEF Apart
  <2> QED
    BY <2>2, KeptApart DEF Going
<1>5. CASE holder[f] # "nobody"
  <2>1. /\ waits' = [waits EXCEPT ![f] = @ \union {"other"}]
        /\ UNCHANGED holder
        /\ \E inquire \in {FALSE, MayInquire(f)} :
             /\ inquired' = [inquired EXCEPT ![f] = @ \/ inquire]
             /\ IF inquire THEN Push(OwnMessage(f, "INQUIRE"), sent)
                           ELSE NoPush(sent)
    BY <1>5 DEF OtherRequests
  <2>2. PICK inquire \in {FALSE, MayInquire(f)} :
             /\ inquired' = [inquired EXCEPT ![f] = @ \/ inquire]
             /\ IF inquire THEN Push(OwnMessage(f, "INQUIRE"), sent)
                           ELSE NoPush(sent)
    BY <2>1
  <2>3. \A g \in Files : Mine(g)' = Mine(g) /\ Waiting(g)' = Waiting(g)
    <3>1. \A g \in Files : "me" \in waits'[g] <=> "me" \in waits[g]
      BY <1>1, <2>1
    <3> QED
      BY <2>1, <3>1 DEF Mine, Waiting, One
  <2>4. \A g \in Files : g # f => Asked(g)' = Asked(g)
    BY <1>1, <2>2 DEF Asked
  <2>5. CASE inquire
    <3>1. holder[f] = "me" /\ ~inquired[f]
      BY <2>5 DEF MayInquire
    <3>2. inquired'[f]
      BY <1>1, <2>2, <2>5
    <3>3. Mine(f) = 1 /\ Asked(f) = 0 /\ Asked(f)' = 1
      BY <3>1, <3>2 DEF Mine, Asked, One
    <3>4. Push(OwnMessage(f, "INQUIRE"), sent)
      BY <2>2, <2>5
    <3>5. /\ Sent(sent[f], sent'[f], "INQUIRE")
          /\ \A g \in Files : g # f => sent'[g] = sent[g]
      BY <1>1, <3>4, Types, OwnStream
    <3>6. Dialogue(sent[f], 1, Granted(f), Waiting(f), 0, Turn(f), Inside(f), Spin(f))
      BY <1>1, <3>3 DEF Kept
    <3>7. Dialogue(sent'[f], 1, Granted(f), Waiting(f), 1, Turn(f), Inside(f), Spin(f))
      BY <3>5, <3>6, ValuesType, DialogueInquires
    <3>8. Kept(f)'
      BY <1>3, <2>3, <3>3, <3>7 DEF Kept
    <3>9. ASSUME NEW g \in Files, g # f PROVE Kept(g)'
      <4>1. Apart(g)
        BY <1>3, <2>3, <2>4, <3>5, <3>9 DEF Apart
      <4> QED
        BY <4>1, KeptApart DEF Going
    <3> QED
      BY <3>8, <3>9
  <2>6. CASE ~inquire
    <3>1. sent' = sent
      BY <2>2, <2>6 DEF NoPush
    <3>2. inquired'[f] = (inquired[f] \/ inquire)
      BY <1>1, <2>2
    <3>3. inquired'[f] <=> inquired[f]
      BY <2>6, <3>2
    <3>4. Asked(f)' = Asked(f)
      BY <3>3 DEF Asked, One
    <3>5. \A g \in Files : Apart(g)
      BY <1>3, <2>3, <2>4, <3>1, <3>4 DEF Apart
    <3> QED
      BY <3>5, KeptApart DEF Going
  <2> QED
    BY <2>5, <2>6
<1> QED
  BY <1>4, <1>5

\* A release of another client may give us the lock.
LEMMA OtherReleasesKept ==
  ASSUME Going, NEW f \in Files, OtherReleases(f)
  PROVE  \A g \in Files : Kept(g)'
<1>1. RestOK /\ sent \in [Files -> Seq(Message)] /\ Kept(f)
  BY DEF Going, OInv, RestOK
<1>2. UNCHANGED <<self, packet, main, current, request_reply, inquired>>
  BY DEF OtherReleases, requester
<1>3. \A g \in Files : Granted(g)' = Granted(g) /\ Turn(g)' = Turn(g)
                       /\ Inside(g)' = Inside(g) /\ Spin(g)' = Spin(g)
                       /\ Asked(g)' = Asked(g)
  BY <1>2 DEF Granted, Turn, Inside, OurTurn, Spin, Asked
<1>4. PICK requeued \in {{}, {"other"}} : PassLock(f, requeued, sent)
  BY DEF OtherReleases
<1>5. /\ Elsewhere(f, requeued, sent) \/ ToUs(f, requeued, sent)
      /\ \A g \in Files : g # f => holder'[g] = holder[g] /\ waits'[g] = waits[g]
  BY <1>1, <1>4, PassLockGoes
<1>6. "me" \notin requeued /\ holder[f] = "other"
  BY DEF OtherReleases
<1>7. \A g \in Files : g # f => Mine(g)' = Mine(g) /\ Waiting(g)' = Waiting(g)
  BY <1>5 DEF Mine, Waiting
<1>8. CASE Elsewhere(f, requeued, sent)
  <2>1. sent' = sent
    BY <1>8 DEF Elsewhere, NoPush
  <2>2. Mine(f)' = Mine(f) /\ Waiting(f)' = Waiting(f)
    BY <1>6, <1>8 DEF Elsewhere, Mine, Waiting, One
  <2>3. \A g \in Files : Apart(g)
    BY <1>3, <1>7, <2>1, <2>2 DEF Apart
  <2> QED
    BY <2>3, KeptApart DEF Going
<1>9. CASE ToUs(f, requeued, sent)
  <2>1. Mine(f) = 0 /\ Waiting(f) = 1 /\ Mine(f)' = 1 /\ Waiting(f)' = 0
    BY <1>6, <1>9 DEF ToUs, Mine, Waiting, One
  <2>2. /\ Sent(sent[f], sent'[f], "LOCKED")
        /\ \A g \in Files : g # f => sent'[g] = sent[g]
    <3>1. Push(OwnMessage(f, "LOCKED"), sent)
      BY <1>9 DEF ToUs
    <3> QED
      BY <1>1, <3>1, Types, OwnStream
  <2>3. Dialogue(sent[f], 0, Granted(f), 1, Asked(f), Turn(f), Inside(f), Spin(f))
    BY <1>1, <2>1 DEF Kept
  <2>4. Dialogue(sent'[f], 1, Granted(f), 0, Asked(f), Turn(f), Inside(f), Spin(f))
    BY <2>2, <2>3, ValuesType, DialogueGrants
  <2>5. Kept(f)'
    BY <1>3, <2>1, <2>4 DEF Kept
  <2>6. ASSUME NEW g \in Files, g # f PROVE Kept(g)'
    <3>1. Apart(g)
      BY <1>3, <1>7, <2>2, <2>6 DEF Apart
    <3> QED
      BY <3>1, KeptApart DEF Going
  <2> QED
    BY <2>5, <2>6
<1> QED
  BY <1>5, <1>8, <1>9

\* The end of the loop of treat_inquire_message() without a FAILED.
LEMMA LeaveKept ==
  ASSUME Going, LeaveInquire
  PROVE  \A g \in Files : Kept(g)'
<1>1. /\ self = "spinning" /\ self' = "looking"
      /\ UNCHANGED <<packet, main, current, request_reply, holder, waits, inquired, sent>>
  BY DEF LeaveInquire, requester, arbiter, NoPush
<1>2. ASSUME NEW g \in Files PROVE Kept(g)'
  <2>1. /\ sent'[g] = sent[g] /\ Mine(g)' = Mine(g) /\ Granted(g)' = Granted(g)
        /\ Waiting(g)' = Waiting(g) /\ Asked(g)' = Asked(g)
        /\ Turn(g)' = Turn(g) /\ Inside(g)' = Inside(g)
    BY <1>1 DEF Mine, Granted, Waiting, Asked, Turn, Inside, OurTurn
  <2>2. Spin(g)' = 0 /\ Spin(g) \in 0 .. 1
    BY <1>1, OneType DEF Spin, One
  <2>3. Dialogue(sent[g], Mine(g), Granted(g), Waiting(g), Asked(g), Turn(g),
                 Inside(g), Spin(g))
    BY DEF Going, Kept
  <2>4. AskedOnce(sent[g], Mine(g), Asked(g), 0)
    <3>1. Counted(sent[g])
      BY Counts DEF Going, OInv
    <3>2. AskedOnce(sent[g], Mine(g), Asked(g), Spin(g))
      BY <2>3 DEF Dialogue
    <3>3. Mine(g) \in 0 .. 1 /\ Asked(g) \in 0 .. 1
      BY ValuesType
    <3> HIDE DEF Mine, Asked, Spin
    <3> QED
      BY <2>2, <3>1, <3>2, <3>3 DEF AskedOnce, Counted
  <2>5. Dialogue(sent[g], Mine(g), Granted(g), Waiting(g), Asked(g), Turn(g),
                 Inside(g), 0)
    BY <2>3, <2>4 DEF Dialogue
  <2> QED
    BY <2>1, <2>2, <2>5 DEF Kept
<1> QED
  BY <1>2

\* Giving back what we have goes on; anything else is a fault.
LEMMA RelinquishKept ==
  ASSUME Going, Relinquish, faults' = {}
  PROVE  \A g \in Files : Kept(g)'
<1>1. PICK f \in Files : f = current
  BY DEF Going, OInv, RestOK
<1>2. /\ RestOK /\ sent \in [Files -> Seq(Message)] /\ Kept(f)
      /\ request_reply \in [Files -> {"NONE", "WAITING", "FAILED", "LOCKED"}]
  BY DEF Going, OInv, RestOK
<1>3. main = "waiting" /\ request_reply[f] = "LOCKED"
  BY <1>1 DEF Relinquish
<1>4. /\ self = "spinning" /\ self' = "looking" /\ packet.file = f
      /\ request_reply' = [request_reply EXCEPT ![f] = "FAILED"]
      /\ Push(OwnMessage(f, "RELINQUISH"), sent)
      /\ UNCHANGED <<packet, main, current, holder, waits, inquired>>
  BY <1>1 DEF Relinquish, arbiter
<1>5. /\ Sent(sent[f], sent'[f], "RELINQUISH")
      /\ \A g \in Files : g # f => sent'[g] = sent[g]
  BY <1>2, <1>4, Types, OwnStream
<1>6. \A g \in Files : Mine(g)' = Mine(g) /\ Waiting(g)' = Waiting(g)
                       /\ Asked(g)' = Asked(g) /\ Turn(g)' = Turn(g)
                       /\ Inside(g)' = Inside(g)
  BY <1>4 DEF Mine, Waiting, Asked, Turn, Inside, OurTurn
<1>7. Granted(f) = 1 /\ Spin(f) = 1 /\ Turn(f) = 1 /\ Inside(f) = 0
  BY <1>1, <1>3, <1>4 DEF Granted, Spin, Turn, Inside, OurTurn, One
<1>8. Granted(f)' = 0 /\ Spin(f)' = 0
  BY <1>2, <1>4 DEF Granted, Spin, One
<1>9. \A g \in Files : g # f => Granted(g)' = Granted(g) /\ Spin(g)' = Spin(g)
  BY <1>2, <1>4 DEF Granted, Spin, One
<1>10. Dialogue(sent[f], Mine(f), 1, Waiting(f), Asked(f), 1, 0, 1)
  BY <1>2, <1>7 DEF Kept
<1>11. Dialogue(sent'[f], Mine(f), 0, Waiting(f), Asked(f), 1, 0, 0)
  BY <1>5, <1>10, ValuesType, DialogueRelinquishes
<1>12. Kept(f)'
  BY <1>6, <1>7, <1>8, <1>11 DEF Kept
<1>13. ASSUME NEW g \in Files, g # f PROVE Kept(g)'
  <2>1. Apart(g)
    BY <1>5, <1>6, <1>9, <1>13 DEF Apart
  <2> QED
    BY <2>1, KeptApart DEF Going
<1> QED
  BY <1>12, <1>13

\* Taking messages out of the queue is not part of the dialogue.
LEMMA TakingKept ==
  ASSUME Going, Top \/ Pop
  PROVE  \A g \in Files : Kept(g)'
<1>1. /\ self \in {"looking", "popping"} /\ self' \in {"popping", "treating"}
      /\ UNCHANGED <<main, current, request_reply, holder, waits, inquired, sent>>
  BY DEF Top, Pop, requester, arbiter
<1>2. ASSUME NEW g \in Files PROVE Apart(g)
  <2>1. Spin(g) = 0 /\ Spin(g)' = 0
    BY <1>1 DEF Spin, One
  <2> QED
    BY <1>1, <2>1 DEF Apart, Mine, Granted, Waiting, Asked, Turn, Inside, OurTurn
<1> QED
  BY <1>2, KeptApart DEF Going

-----------------------------------------------------------------------------
\* treat_request_message(): a REQUEST finds no earlier one of ours in the queue.
LEMMA TreatRequestKept ==
  ASSUME Going, TreatRequest, faults' = {}
  PROVE  \A g \in Files : Kept(g)'
<1>1. PICK f \in Files : f = packet.file
  BY DEF Going, OInv, Message
<1>2. /\ RestOK /\ Kept(f)
      /\ holder \in [Files -> {"nobody", "me", "other"}]
      /\ waits \in [Files -> SUBSET {"nobody", "me", "other"}]
  BY DEF Going, OInv, RestOK
<1>3. /\ Treat("REQUEST") /\ self = "treating" /\ self' = "looking"
      /\ UNCHANGED <<main, current, our_sequence_number, request_reply, inquired>>
  BY DEF TreatRequest, Treat, requester
<1>4. /\ Unsent \in [Files -> Seq(Message)]
      /\ Took(sent[f], Unsent[f], "REQUEST")
      /\ \A g \in Files : g # f => Unsent[g] = sent[g]
  BY <1>1, <1>3, TakeStream DEF Going
<1>5. \A g \in Files : Granted(g)' = Granted(g) /\ Turn(g)' = Turn(g)
                       /\ Inside(g)' = Inside(g) /\ Asked(g)' = Asked(g)
                       /\ Spin(g) = 0 /\ Spin(g)' = 0
  BY <1>3 DEF Granted, Turn, Inside, OurTurn, Asked, Spin, One
<1>6. Dialogue(sent[f], Mine(f), Granted(f), Waiting(f), Asked(f), Turn(f), Inside(f), 0)
  BY <1>2, <1>5 DEF Kept
<1>7. ASSUME NEW t \in {"LOCKED", "FAILED"}, Push(OwnMessage(f, t), Unsent)
      PROVE  /\ Sent(Unsent[f], sent'[f], t)
             /\ \A g \in Files : g # f => sent'[g] = sent[g]
  BY <1>2, <1>4, <1>7, Types, OwnStream
<1>8. CASE holder[f] = "nobody"
  <2>1. /\ holder' = [holder EXCEPT ![f] = "me"]
        /\ Push(OwnMessage(f, "LOCKED"), Unsent)
        /\ UNCHANGED waits
    BY <1>1, <1>8 DEF TreatRequest
  <2>2. /\ Sent(Unsent[f], sent'[f], "LOCKED")
        /\ \A g \in Files : g # f => sent'[g] = sent[g]
    BY <1>7, <2>1
  <2>3. Mine(f) = 0 /\ Mine(f)' = 1
    BY <1>2, <1>8, <2>1 DEF Mine, One
  <2>4. \A g \in Files : Waiting(g)' = Waiting(g) /\ (g # f => Mine(g)' = Mine(g))
    BY <1>2, <2>1 DEF Mine, Waiting
  <2>5. Dialogue(sent'[f], 1, Granted(f), Waiting(f), Asked(f), Turn(f), Inside(f), 0)
    <3>1. Dialogue(sent[f], 0, Granted(f), Waiting(f), Asked(f), Turn(f), Inside(f), 0)
      BY <1>6, <2>3
    <3>2. 0 \in 0 .. 1
      OBVIOUS
    <3> QED
      BY <1>4, <2>2, <3>1, <3>2, ValuesType, DialogueLocks
  <2>6. Kept(f)'
    BY <1>5, <2>3, <2>4, <2>5 DEF Kept
  <2>7. ASSUME NEW g \in Files, g # f PROVE Kept(g)'
    <3>1. Apart(g)
      BY <1>5, <2>2, <2>4, <2>7 DEF Apart
    <3> QED
      BY <3>1, KeptApart DEF Going
  <2> QED
    BY <2>6, <2>7
<1>9. CASE holder[f] # "nobody"
  <2>1. /\ waits' = [waits EXCEPT ![f] = @ \union {"me"}]
        /\ Push(OwnMessage(f, "FAILED"), Unsent) \/ NoPush(Unsent)
        /\ UNCHANGED holder
    BY <1>1, <1>9 DEF TreatRequest
  <2>2. Waiting(f)' = 1
    BY <1>2, <2>1 DEF Waiting, One
  <2>3. \A g \in Files : Mine(g)' = Mine(g) /\ (g # f => Waiting(g)' = Waiting(g))
    BY <1>2, <2>1 DEF Mine, Waiting
  <2>4. /\ Sent(Unsent[f], sent'[f], "FAILED") \/ sent'[f] = Unsent[f]
        /\ \A g \in Files : g # f => sent'[g] = sent[g]
    <3>1. CASE Push(OwnMessage(f, "FAILED"), Unsent)
      BY <1>7, <3>1
    <3>2. CASE NoPush(Unsent)
      BY <1>4, <3>2 DEF NoPush
    <3> QED
      BY <2>1, <3>1, <3>2
  <2>5. Dialogue(sent'[f], Mine(f), Granted(f), 1, Asked(f), Turn(f), Inside(f), 0)
    <3>1. 0 \in 0 .. 1
      OBVIOUS
    <3>2. CASE Sent(Unsent[f], sent'[f], "FAILED")
      BY <1>4, <1>6, <3>1, <3>2, ValuesType, DialogueRefuses
    <3>3. CASE sent'[f] = Unsent[f]
      BY <1>4, <1>6, <3>1, <3>3, ValuesType, DialogueWaits
    <3> QED
      BY <2>4, <3>2, <3>3
  <2>6. Kept(f)'
    BY <1>5, <2>2, <2>3, <2>5 DEF Kept
  <2>7. ASSUME NEW g \in Files, g # f PROVE Kept(g)'
    <3>1. Apart(g)
      BY <1>5, <2>3, <2>4, <2>7 DEF Apart
    <3> QED
      BY <3>1, KeptApart DEF Going
  <2> QED
    BY <2>6, <2>7
<1> QED
  BY <1>8, <1>9

\* LOCKED and FAILED: the answer is to the request there is.
LEMMA TreatReplyKept ==
  ASSUME Going, NEW t \in {"LOCKED", "FAILED"}, TreatReply(t), faults' = {}
  PROVE  \A g \in Files : Kept(g)'
<1>1. PICK f \in Files : f = packet.file
  BY DEF Going, OInv, Message
<1>2. /\ Kept(f)
      /\ request_reply \in [Files -> {"NONE", "WAITING", "FAILED", "LOCKED"}]
  BY DEF Going, OInv, RestOK
<1>3. /\ Treat(t) /\ self = "treating" /\ self' = "looking"
      /\ request_reply' = [request_reply EXCEPT ![f] = t]
      /\ sent' = Unsent
      /\ UNCHANGED <<main, current, holder, waits, inquired>>
  BY <1>1 DEF TreatReply, Treat, arbiter, NoPush
<1>4. /\ Took(sent[f], sent'[f], t)
      /\ \A g \in Files : g # f => sent'[g] = sent[g]
  BY <1>1, <1>3, TakeStream DEF Going
<1>5. \A g \in Files : Mine(g)' = Mine(g) /\ Waiting(g)' = Waiting(g)
                       /\ Asked(g)' = Asked(g) /\ Turn(g)' = Turn(g)
                       /\ Inside(g)' = Inside(g)
                       /\ Spin(g) = 0 /\ Spin(g)' = 0
  BY <1>3 DEF Mine, Waiting, Asked, Turn, Inside, OurTurn, Spin, One
<1>6. \A g \in Files : g # f => Granted(g)' = Granted(g)
  BY <1>2, <1>3 DEF Granted
<1>7. Granted(f)' = IF t = "LOCKED" THEN 1 ELSE 0
  BY <1>2, <1>3 DEF Granted, One
<1>8. Dialogue(sent[f], Mine(f), Granted(f), Waiting(f), Asked(f), Turn(f), Inside(f), 0)
  BY <1>2, <1>5 DEF Kept
<1>9. Dialogue(sent'[f], Mine(f), Granted(f)', Waiting(f), Asked(f), Turn(f), Inside(f), 0)
  <2>1. 0 \in 0 .. 1
    OBVIOUS
  <2>2. CASE t = "LOCKED"
    BY <1>4, <1>7, <1>8, <2>2, ValuesType, DialogueGranted
  <2>3. CASE t = "FAILED"
    BY <1>4, <1>7, <1>8, <2>1, <2>3, ValuesType, DialogueRefused
  <2> QED
    BY <2>2, <2>3
<1>10. Kept(f)'
  BY <1>5, <1>9 DEF Kept
<1>11. ASSUME NEW g \in Files, g # f PROVE Kept(g)'
  <2>1. Apart(g)
    BY <1>4, <1>5, <1>6, <1>11 DEF Apart
  <2> QED
    BY <2>1, KeptApart DEF Going
<1> QED
  BY <1>10, <1>11

\* treat_inquire_message() begins its loop with the INQUIRE it was sent.
LEMMA TreatInquireKept ==
  ASSUME Going, TreatInquire, faults' = {}
  PROVE  \A g \in Files : Kept(g)'
<1>1. PICK f \in Files : f = packet.file
  BY DEF Going, OInv, Message
<1>2. Kept(f)
  BY DEF Going
<1>3. /\ Treat("INQUIRE") /\ self = "treating" /\ self' = "spinning"
      /\ sent' = Unsent
      /\ UNCHANGED <<packet, main, current, request_reply, holder, waits, inquired>>
  BY DEF TreatInquire, Treat, requester, arbiter, NoPush
<1>4. /\ Took(sent[f], sent'[f], "INQUIRE")
      /\ \A g \in Files : g # f => sent'[g] = sent[g]
  BY <1>1, <1>3, TakeStream DEF Going
<1>5. \A g \in Files : Mine(g)' = Mine(g) /\ Waiting(g)' = Waiting(g)
                       /\ Asked(g)' = Asked(g) /\ Turn(g)' = Turn(g)
                       /\ Inside(g)' = Inside(g) /\ Granted(g)' = Granted(g)
  BY <1>3 DEF Mine, Waiting, Asked, Turn, Inside, OurTurn, Granted
<1>6. /\ Spin(f) = 0 /\ Spin(f)' = 1
      /\ \A g \in Files : g # f => Spin(g)' = Spin(g)
  BY <1>1, <1>3 DEF Spin, One
<1>7. Dialogue(sent[f], Mine(f), Granted(f), Waiting(f), Asked(f), Turn(f), Inside(f), 0)
  BY <1>2, <1>6 DEF Kept
<1>8. Dialogue(sent'[f], Mine(f), Granted(f), Waiting(f), Asked(f), Turn(f), Inside(f), 1)
  BY <1>4, <1>7, ValuesType, DialogueAsked
<1>9. Kept(f)'
  BY <1>5, <1>6, <1>8 DEF Kept
<1>10. ASSUME NEW g \in Files, g # f PROVE Kept(g)'
  <2>1. Apart(g)
    BY <1>4, <1>5, <1>6, <1>10 DEF Apart
  <2> QED
    BY <2>1, KeptApart DEF Going
<1> QED
  BY <1>9, <1>10

\* A RELINQUISH or RELEASE that is under way is about our lock.
LEMMA GivenBackMine ==
  ASSUME Going, NEW f \in Files,
         Count(sent[f], "RELINQUISH") > 0 \/ Count(sent[f], "RELEASE") > 0
  PROVE  holder[f] = "me" /\ "me" \notin waits[f]
<1>1. Kept(f) /\ Counted(sent[f])
  BY Counts DEF Going, OInv
<1>2. Exclusive(sent[f], Mine(f), Granted(f), Waiting(f), Turn(f))
  BY <1>1, ValuesType, Excludes DEF Kept
<1>3. Mine(f) = 1 /\ Waiting(f) = 0
  <2>1. CASE Count(sent[f], "RELEASE") > 0
    BY <1>2, <2>1 DEF Exclusive
  <2>2. CASE Count(sent[f], "RELINQUISH") > 0
    <3>1. Mine(f) = 1 /\ Count(sent[f], "RELEASE") = 0
      BY <1>2, <2>2 DEF Exclusive
    <3> QED
      BY <1>2, <3>1 DEF Exclusive
  <2> QED
    BY <2>1, <2>2
<1> QED
  BY <1>3 DEF Mine, Waiting, One

\* treat_relinquish_message() and treat_release_message(): the lock is ours when
\* they pass it on.
LEMMA GivenBackKept ==
  ASSUME Going, TreatRelinquish \/ TreatRelease, faults' = {}
  PROVE  \A g \in Files : Kept(g)'
<1>1. PICK f \in Files : f = packet.file
  BY DEF Going, OInv, Message
<1>2. /\ RestOK /\ Kept(f)
      /\ inquired \in [Files -> BOOLEAN]
  BY DEF Going, OInv, RestOK
<1>3. PICK t \in {"RELINQUISH", "RELEASE"}, requeued \in {{}, {holder[f]}} :
        /\ Treat(t) /\ PassLock(f, requeued, Unsent)
        /\ t = "RELINQUISH" => requeued = {holder[f]} /\ waits[f] # {}
        /\ t = "RELEASE" => requeued = {}
  BY <1>1 DEF TreatRelinquish, TreatRelease
<1>4. /\ self = "treating" /\ self' = "looking"
      /\ inquired' = [inquired EXCEPT ![f] = FALSE]
      /\ UNCHANGED <<main, current, request_reply>>
  BY <1>1 DEF TreatRelinquish, TreatRelease, Treat, requester
<1>5. /\ Took(sent[f], Unsent[f], t)
      /\ \A g \in Files : g # f => Unsent[g] = sent[g]
  BY <1>1, <1>3, TakeStream DEF Going
<1>6. holder[f] = "me" /\ "me" \notin waits[f]
  <2>1. Count(sent[f], t) > 0
    BY <1>5 DEF Took, Counted, One
  <2> QED
    BY <2>1, GivenBackMine
<1>7. /\ Elsewhere(f, requeued, Unsent)
      /\ \A g \in Files : g # f => holder'[g] = holder[g] /\ waits'[g] = waits[g]
  BY <1>2, <1>3, <1>6, PassLockGoes DEF ToUs
<1>8. sent' = Unsent
  BY <1>7 DEF Elsewhere, NoPush
<1>9. /\ Mine(f) = 1 /\ Waiting(f) = 0 /\ Mine(f)' = 0
      /\ Waiting(f)' = IF t = "RELINQUISH" THEN 1 ELSE 0
  BY <1>3, <1>6, <1>7 DEF Elsewhere, Mine, Waiting, One
<1>10. \A g \in Files : Granted(g)' = Granted(g) /\ Turn(g)' = Turn(g)
                        /\ Inside(g)' = Inside(g)
                        /\ Spin(g) = 0 /\ Spin(g)' = 0
  BY <1>4 DEF Granted, Turn, Inside, OurTurn, Spin, One
<1>11. /\ Asked(f)' = 0
       /\ \A g \in Files : g # f => Asked(g)' = Asked(g)
  BY <1>2, <1>4 DEF Asked, One
<1>12. \A g \in Files : g # f => Mine(g)' = Mine(g) /\ Waiting(g)' = Waiting(g)
  BY <1>7 DEF Mine, Waiting
<1>13. Dialogue(sent[f], Mine(f), Granted(f), Waiting(f), Asked(f), Turn(f), Inside(f), 0)
  BY <1>2, <1>10 DEF Kept
<1>14. Dialogue(sent'[f], 0, Granted(f), Waiting(f)', 0, Turn(f), Inside(f), 0)
  <2>1. 0 \in 0 .. 1
    OBVIOUS
  <2>2. CASE t = "RELINQUISH"
    BY <1>5, <1>8, <1>9, <1>13, <2>2, ValuesType, DialogueRequeues
  <2>3. CASE t = "RELEASE"
    BY <1>5, <1>8, <1>9, <1>13, <2>1, <2>3, ValuesType, DialogueEnds
  <2> QED
    BY <2>2, <2>3
<1>15. Kept(f)'
  BY <1>9, <1>10, <1>11, <1>14 DEF Kept
<1>16. ASSUME NEW g \in Files, g # f PROVE Kept(g)'
  <2>1. Apart(g)
    BY <1>5, <1>8, <1>10, <1>11, <1>12, <1>16 DEF Apart
  <2> QED
    BY <2>1, KeptApart DEF Going
<1> QED
  BY <1>15, <1>16

-----------------------------------------------------------------------------
\* Every step keeps the dialogue of every file.
LEMMA PInvNext ==
  ASSUME OInv, NumberAssumption, PInv, [Next]_vars
  PROVE  PInv'
<1> SUFFICES ASSUME faults' = {}
             PROVE  \A g \in Files : Kept(g)'
  BY DEF PInv
<1>1. CASE UNCHANGED vars
  <2>1. UNCHANGED <<self, packet, main, current, request_reply, holder, waits,
                    inquired, sent, faults>>
    BY <1>1 DEF vars, requester, arbiter
  <2>2. \A g \in Files : Kept(g)
    BY <2>1 DEF PInv
  <2>3. \A g \in Files : Apart(g)
    BY <2>1 DEF Apart, Mine, Granted, Waiting, Asked, Turn, Inside, Spin, OurTurn
  <2> QED
    BY <2>2, <2>3, KeptApart
<1>2. CASE Next
  <2>1. faults = {}
    BY <1>2 DEF Next, MainThread, OtherThreads, SelfThread, NoFault, RequestResource,
       EnterCriticalSection, ReleaseResource, OtherRequests, OtherReleases, Top, Pop,
       TreatRequest, TreatReply, TreatInquire, LeaveInquire, Relinquish,
       TreatRelinquish, TreatRelease, Treat
  <2>2. Going
    BY <2>1 DEF Going, PInv
  <2>3. CASE MainThread
    BY <2>2, <2>3, RequestKept, EnterKept, ReleaseKept DEF MainThread
  <2>4. CASE OtherThreads
    BY <2>2, <2>4, OtherRequestsKept, OtherReleasesKept DEF OtherThreads
  <2>5. CASE SelfThread
    BY <2>2, <2>5, TakingKept, TreatRequestKept, TreatReplyKept, TreatInquireKept,
       LeaveKept, RelinquishKept, GivenBackKept DEF SelfThread
  <2> QED
    BY <1>2, <2>3, <2>4, <2>5 DEF Next
<1> QED
  BY <1>1, <1>2

\* At first nobody has said anything.
LEMMA PInvInit ==
  ASSUME Init
  PROVE  PInv
<1>1. ASSUME NEW f \in Files PROVE Kept(f)
  <2>1. /\ sent[f] = <<>> /\ holder[f] = "nobody" /\ waits[f] = {} /\ ~inquired[f]
        /\ request_reply[f] = "NONE" /\ main = "idle" /\ self = "looking"
    BY DEF Init
  <2>2. /\ Mine(f) = 0 /\ Granted(f) = 0 /\ Waiting(f) = 0 /\ Asked(f) = 0
        /\ Turn(f) = 0 /\ Inside(f) = 0 /\ Spin(f) = 0
    BY <2>1 DEF Mine, Granted, Waiting, Asked, Turn, Inside, Spin, OurTurn, One
  <2>3. \A t, u : Count(<<>>, t) = 0 /\ Ahead(<<>>, t, u)
    BY CountEmpty
  <2>4. Dialogue(<<>>, 0, 0, 0, 0, 0, 0, 0)
    BY <2>3 DEF Dialogue, OnePlace, OneClaim, ReleasedFirst, RefusedFirst, AskedOnce
  <2> QED
    BY <2>1, <2>2, <2>4 DEF Kept
<1> QED
  BY <1>1 DEF PInv

-----------------------------------------------------------------------------
(***************************************************************************)
(* A RELINQUISH in the queue or in hand is one that is under way.          *)
(***************************************************************************)

\* The place k of q is a RELINQUISH about f.
GivesUp(q, k, f) == q[k].type = "RELINQUISH" /\ q[k].file = f
SomeGivesUp(q, f) == \E k \in 1 .. Len(q) : GivesUp(q, k, f)
OnceEach(q) ==
  \A f \in Files : \A k, l \in 1 .. Len(q) :
    GivesUp(q, k, f) /\ GivesUp(q, l, f) => k = l

RInv ==
  faults = {} =>
    /\ OnceEach(pq)
    /\ \A f \in Files : SomeGivesUp(pq, f) => Count(sent[f], "RELINQUISH") > 0
    /\ self = "treating" /\ packet.type = "RELINQUISH" =>
         /\ Count(sent[packet.file], "RELINQUISH") > 0
         /\ ~SomeGivesUp(pq, packet.file)

\* Pushing one keeps them apart if there was none about its file.
LEMMA PushGivesUp ==
  ASSUME NEW q \in Seq(Message), NEW m \in Message
  PROVE  LET s == PushHeap(q, m)
             again == m.type = "RELINQUISH" /\ SomeGivesUp(q, m.file)
         IN /\ OnceEach(q) /\ ~again => OnceEach(s)
            /\ \A f : SomeGivesUp(s, f) =>
                 SomeGivesUp(q, f) \/ (m.type = "RELINQUISH" /\ m.file = f)
<1> DEFINE s == PushHeap(q, m)
           n == Len(q) + 1
           r == Append(q, m)
<1>1. /\ Len(s) = n /\ Len(q) \in Nat
      /\ r[n] = m /\ \A k \in 1 .. Len(q) : r[k] = q[k]
  BY PushHeapType, AppendProperties, LenProperties
<1>2. IsShuffle(s, n, r, 1 .. n)
  BY PushShuffles
<1> HIDE DEF s, r
<1>3. PICK g \in [1 .. n -> 1 .. n] :
        /\ \A h, l \in 1 .. n : g[h] = g[l] => h = l
        /\ \A h \in 1 .. n : s[h] = r[g[h]]
  BY <1>2 DEF IsShuffle
<1>4. ASSUME NEW h \in 1 .. n
      PROVE  \/ g[h] = n /\ s[h] = m
             \/ g[h] # n /\ g[h] \in 1 .. Len(q) /\ s[h] = q[g[h]]
  <2>1. g[h] \in 1 .. n
    OBVIOUS
  <2>2. g[h] = n \/ (g[h] # n /\ g[h] \in 1 .. Len(q))
    BY <1>1, <2>1
  <2> QED
    BY <1>1, <1>3, <2>2
<1> HIDE DEF n
<1>5. \A f : SomeGivesUp(s, f) =>
        SomeGivesUp(q, f) \/ (m.type = "RELINQUISH" /\ m.file = f)
  BY <1>1, <1>4 DEF SomeGivesUp, GivesUp
<1>6. ASSUME OnceEach(q), ~(m.type = "RELINQUISH" /\ SomeGivesUp(q, m.file)),
             NEW f \in Files, NEW h \in 1 .. n, NEW l \in 1 .. n,
             GivesUp(s, h, f), GivesUp(s, l, f)
      PROVE  h = l
  <2>1. g[h] = g[l]
    <3>1. CASE g[h] = n
      <4>1. m.type = "RELINQUISH" /\ m.file = f
        BY <1>4, <1>6, <3>1 DEF GivesUp
      <4>2. g[l] # n => SomeGivesUp(q, f)
        BY <1>4, <1>6 DEF SomeGivesUp, GivesUp
      <4>3. g[l] = n
        BY <1>6, <4>1, <4>2
      <4> QED
        BY <3>1, <4>3
    <3>2. CASE g[h] # n
      <4>1. g[h] \in 1 .. Len(q) /\ GivesUp(q, g[h], f)
        BY <1>4, <1>6, <3>2 DEF GivesUp
      <4>2. g[l] \in 1 .. Len(q) /\ GivesUp(q, g[l], f)
        BY <1>4, <1>6, <4>1 DEF SomeGivesUp, GivesUp
      <4> QED
        BY <1>6, <4>1, <4>2 DEF OnceEach
    <3> QED
      BY <3>1, <3>2
  <2> QED
    BY <1>3, <2>1
<1>7. OnceEach(q) /\ ~(m.type = "RELINQUISH" /\ SomeGivesUp(q, m.file)) => OnceEach(s)
  BY <1>1, <1>6 DEF OnceEach
<1> QED
  BY <1>5, <1>7 DEF s

\* pop() leaves no other about the file of the first.
LEMMA PopGivesUp ==
  ASSUME NEW q \in Seq(Message), q # <<>>, OnceEach(q)
  PROVE  LET s == PopHeap(q)
         IN /\ OnceEach(s)
            /\ \A f \in Files : SomeGivesUp(s, f) =>
                 SomeGivesUp(q, f) /\ ~GivesUp(q, 1, f)
<1> DEFINE s == PopHeap(q)
           n == Len(q) - 1
<1>1. Len(s) = n /\ Len(q) \in Nat /\ Len(q) # 0
  BY PopHeapType, LenProperties, EmptySeq
<1>2. IsShuffle(s, n, q, 2 .. Len(q))
  BY PopShuffles
<1> HIDE DEF s
<1>3. PICK g \in [1 .. n -> 2 .. Len(q)] :
        /\ \A h, l \in 1 .. n : g[h] = g[l] => h = l
        /\ \A h \in 1 .. n : s[h] = q[g[h]]
  BY <1>2 DEF IsShuffle
<1>4. \A h \in 1 .. n : g[h] \in 1 .. Len(q) /\ g[h] # 1
  BY <1>1
<1>5. 1 \in 1 .. Len(q)
  BY <1>1
<1> HIDE DEF n
<1>6. ASSUME NEW f \in Files, NEW h \in 1 .. n, GivesUp(s, h, f)
      PROVE  GivesUp(q, g[h], f)
  BY <1>3, <1>6 DEF GivesUp
<1>7. OnceEach(s)
  BY <1>1, <1>3, <1>4, <1>6 DEF OnceEach
<1>8. ASSUME NEW f \in Files, SomeGivesUp(s, f)
      PROVE  SomeGivesUp(q, f) /\ ~GivesUp(q, 1, f)
  <2>1. PICK h \in 1 .. n : GivesUp(s, h, f)
    BY <1>1, <1>8 DEF SomeGivesUp
  <2>2. GivesUp(q, g[h], f) /\ g[h] \in 1 .. Len(q) /\ g[h] # 1
    BY <1>4, <1>6, <2>1
  <2> QED
    BY <1>5, <2>2 DEF SomeGivesUp, OnceEach
<1> QED
  BY <1>7, <1>8 DEF s

-----------------------------------------------------------------------------
\* What is pushed is no RELINQUISH.
PushesOther(unsent) ==
  \/ NoPush(unsent)
  \/ \E f \in Files, m \in Message :
       m.file = f /\ m.type # "RELINQUISH" /\ Push(m, unsent)

\* All messages but RELINQUISH are pushed as other messages.
LEMMA OtherOwn ==
  ASSUME RestOK, NEW f \in Files, NEW t \in MessageType, t # "RELINQUISH",
         NEW unsent, Push(OwnMessage(f, t), unsent)
  PROVE  PushesOther(unsent)
BY OwnType DEF PushesOther

\* Only the end of the loop in treat_inquire_message() sends RELINQUISH.
LEMMA PushesOthers ==
  ASSUME Going, NumberAssumption, Next, ~Relinquish, ~Top, ~Pop
  PROVE  \/ self' = "treating" /\ self = "treating" /\ packet' = packet /\ PushesOther(sent)
         \/ self' # "treating" /\ self # "treating" /\ PushesOther(sent)
         \/ self' # "treating" /\ PushesOther(Unsent) /\ Treat(packet.type)
<1>1. RestOK /\ current \in Files /\ packet.file \in Files
  BY DEF Going, OInv, RestOK, Message
<1> DEFINE Still == self' = self /\ packet' = packet /\ PushesOther(sent)
<1>2. ASSUME NEW f \in Files, RequestResource(f) PROVE Still
  <2> DEFINE m == [OwnMessage(f, "REQUEST") EXCEPT !.timestamp = hgst_sequence_number[f] + 1]
  <2>1. m \in Message /\ m.file = f /\ m.type = "REQUEST"
    <3>1. hgst_sequence_number[f] + 1 \in 0 .. MaxNumber
      BY <1>1, <1>2 DEF RestOK, RequestResource, NumberAssumption
    <3> QED
      BY <3>1, Types DEF OwnMessage, Message
  <2>2. Push(m, sent) /\ self' = self /\ packet' = packet
    BY <1>2 DEF RequestResource
  <2> HIDE DEF m
  <2> QED
    BY <2>1, <2>2 DEF PushesOther
<1>3. ASSUME EnterCriticalSection PROVE Still
  BY <1>3 DEF EnterCriticalSection, PushesOther, NoPush
<1>4. ASSUME ReleaseResource PROVE Still
  <2>1. Push(OwnMessage(current, "RELEASE"), sent) /\ self' = self /\ packet' = packet
    BY <1>4 DEF ReleaseResource
  <2> QED
    BY <1>1, <2>1, OtherOwn, Types
<1>5. ASSUME NEW f \in Files, OtherRequests(f) PROVE Still
  <2>1. self' = self /\ packet' = packet
    BY <1>5 DEF OtherRequests
  <2>2. Push(OwnMessage(f, "INQUIRE"), sent) \/ NoPush(sent)
    <3>1. CASE holder[f] = "nobody"
      BY <1>5, <3>1 DEF OtherRequests
    <3>2. CASE holder[f] # "nobody"
      <4>1. \E inquire \in {FALSE, MayInquire(f)} :
              /\ inquired' = [inquired EXCEPT ![f] = @ \/ inquire]
              /\ IF inquire THEN Push(OwnMessage(f, "INQUIRE"), sent)
                            ELSE NoPush(sent)
        BY <1>5, <3>2 DEF OtherRequests
      <4> QED
        BY <4>1, Zenon
    <3> QED
      BY <3>1, <3>2
  <2> QED
    BY <1>1, <2>1, <2>2, OtherOwn, Types DEF PushesOther
<1>6. ASSUME NEW f \in Files, NEW requeued, NEW unsent, PassLock(f, requeued, unsent)
      PROVE  PushesOther(unsent)
  <2>1. Elsewhere(f, requeued, unsent) \/ ToUs(f, requeued, unsent)
    BY <1>1, <1>6, PassLockGoes
  <2>2. NoPush(unsent) \/ Push(OwnMessage(f, "LOCKED"), unsent)
    BY <2>1 DEF Elsewhere, ToUs
  <2> QED
    BY <1>1, <2>2, OtherOwn, Types DEF PushesOther
<1>7. ASSUME NEW f \in Files, OtherReleases(f) PROVE Still
  <2>1. /\ self' = self /\ packet' = packet
        /\ PassLock(f, {}, sent) \/ PassLock(f, {"other"}, sent)
    BY <1>7 DEF OtherReleases
  <2> QED
    BY <1>6, <2>1
<1>8. ASSUME LeaveInquire PROVE self = "spinning" /\ self' = "looking" /\ PushesOther(sent)
  BY <1>8 DEF LeaveInquire, PushesOther
<1> DEFINE Treated == self' # "treating" /\ PushesOther(Unsent) /\ Treat(packet.type)
<1>9. ASSUME TreatRequest PROVE Treated
  <2>1. Push(OwnMessage(packet.file, "LOCKED"), Unsent)
        \/ Push(OwnMessage(packet.file, "FAILED"), Unsent) \/ NoPush(Unsent)
    <3>1. CASE holder[packet.file] = "nobody"
      BY <1>9, <3>1 DEF TreatRequest
    <3>2. CASE holder[packet.file] # "nobody"
      BY <1>9, <3>2 DEF TreatRequest
    <3> QED
      BY <3>1, <3>2
  <2>2. PushesOther(Unsent)
    BY <1>1, <2>1, OtherOwn, Types DEF PushesOther
  <2>3. self' = "looking" /\ Treat(packet.type)
    BY <1>9 DEF TreatRequest, Treat
  <2> QED
    BY <2>2, <2>3
<1>10. ASSUME NEW t, TreatReply(t) PROVE Treated
  <2>1. self' = "looking" /\ Treat(packet.type) /\ NoPush(Unsent)
    BY <1>10 DEF TreatReply, Treat
  <2> QED
    BY <2>1 DEF PushesOther
<1>11. ASSUME TreatInquire PROVE Treated
  <2>1. self' = "spinning" /\ Treat(packet.type) /\ NoPush(Unsent)
    BY <1>11 DEF TreatInquire, Treat
  <2> QED
    BY <2>1 DEF PushesOther
<1>12. ASSUME TreatRelinquish \/ TreatRelease PROVE Treated
  <2>1. /\ self' = "looking" /\ Treat(packet.type)
        /\ \E requeued : PassLock(packet.file, requeued, Unsent)
    BY <1>12 DEF TreatRelinquish, TreatRelease, Treat
  <2> QED
    BY <1>1, <1>6, <2>1
<1> HIDE DEF Treated, Still
<1>13. Still \/ Treated \/ (self = "spinning" /\ self' = "looking" /\ PushesOther(sent))
  <2>1. CASE MainThread
    BY <1>2, <1>3, <1>4, <2>1 DEF MainThread
  <2>2. CASE OtherThreads
    BY <1>5, <1>7, <2>2 DEF OtherThreads
  <2>3. CASE SelfThread
    BY <1>8, <1>9, <1>10, <1>11, <1>12, <2>3 DEF SelfThread
  <2> QED
    BY <2>1, <2>2, <2>3 DEF Next
<1> QED
  BY <1>13 DEF Still, Treated

-----------------------------------------------------------------------------
\* Such a push leaves every RELINQUISH where it is, in the heap and under way.
LEMMA OtherPushed ==
  ASSUME pq \in Seq(Message), OnceEach(pq),
         NEW unsent \in [Files -> Seq(Message)], PushesOther(unsent)
  PROVE  /\ OnceEach(pq')
         /\ \A f : SomeGivesUp(pq', f) => SomeGivesUp(pq, f)
         /\ \A f \in Files : Count(sent'[f], "RELINQUISH") = Count(unsent[f], "RELINQUISH")
<1>1. CASE NoPush(unsent)
  BY <1>1 DEF NoPush
<1>2. ASSUME NEW f \in Files, NEW m \in Message,
             m.file = f, m.type # "RELINQUISH", Push(m, unsent)
      PROVE  /\ OnceEach(pq')
             /\ \A g : SomeGivesUp(pq', g) => SomeGivesUp(pq, g)
             /\ \A g \in Files : Count(sent'[g], "RELINQUISH") = Count(unsent[g], "RELINQUISH")
  <2>1. /\ Sent(unsent[f], sent'[f], m.type)
        /\ \A g \in Files : g # f => sent'[g] = unsent[g]
    BY <1>2, PushStream
  <2>2. Count(sent'[f], "RELINQUISH") = Count(unsent[f], "RELINQUISH")
    BY <1>2, <2>1 DEF Sent, Counted, One
  <2>3. pq' = PushHeap(pq, m) \/ pq' = pq
    BY <1>2 DEF Push
  <2>4. /\ OnceEach(PushHeap(pq, m))
        /\ \A g : SomeGivesUp(PushHeap(pq, m), g) => SomeGivesUp(pq, g)
    BY <1>2, PushGivesUp
  <2> QED
    BY <2>1, <2>2, <2>3, <2>4
<1> QED
  BY <1>1, <1>2 DEF PushesOther

\* Every step keeps each RELINQUISH in the heap backed by one under way.
LEMMA RInvNext ==
  ASSUME OInv, NumberAssumption, PInv, RInv, [Next]_vars
  PROVE  RInv'
<1> SUFFICES ASSUME faults' = {}
             PROVE  /\ OnceEach(pq)'
                    /\ \A f \in Files : SomeGivesUp(pq, f)' =>
                         Count(sent[f], "RELINQUISH")' > 0
                    /\ self' = "treating" /\ packet'.type = "RELINQUISH" =>
                         /\ Count(sent[packet.file], "RELINQUISH")' > 0
                         /\ ~SomeGivesUp(pq, packet.file)'
  BY DEF RInv
<1>1. CASE UNCHANGED vars
  <2>1. UNCHANGED <<self, packet, pq, sent, faults>>
    BY <1>1 DEF vars
  <2> QED
    BY <2>1 DEF RInv, OnceEach, SomeGivesUp, GivesUp, Count, Places
<1>2. CASE Next
  <2>1. faults = {}
    BY <1>2 DEF Next, MainThread, OtherThreads, SelfThread, NoFault, RequestResource,
       EnterCriticalSection, ReleaseResource, OtherRequests, OtherReleases, Top, Pop,
       TreatRequest, TreatReply, TreatInquire, LeaveInquire, Relinquish,
       TreatRelinquish, TreatRelease, Treat
  <2>2. Going
    BY <2>1 DEF Going, PInv
  <2>3. /\ OnceEach(pq)
        /\ \A f \in Files : SomeGivesUp(pq, f) => Count(sent[f], "RELINQUISH") > 0
        /\ self = "treating" /\ packet.type = "RELINQUISH" =>
             /\ Count(sent[packet.file], "RELINQUISH") > 0
             /\ ~SomeGivesUp(pq, packet.file)
    BY <2>1 DEF RInv
  <2>4. /\ pq \in Seq(Message) /\ sent \in [Files -> Seq(Message)]
        /\ packet \in Message /\ packet.file \in Files
        /\ self = "popping" => pq # <<>>
    BY DEF OInv, Message
  <2>5. CASE Top
    <3>1. self' = "popping" /\ UNCHANGED <<pq, sent>>
      BY <2>5 DEF Top
    <3> QED
      BY <2>3, <3>1 DEF OnceEach, SomeGivesUp, GivesUp, Count, Places
  <2>6. CASE Pop
    <3>1. /\ self = "popping" /\ pq # <<>> /\ pq' = PopHeap(pq)
          /\ UNCHANGED <<packet, sent>>
      BY <2>4, <2>6 DEF Pop
    <3>2. Head(pq) = packet
      <4>1. faults' = faults \union
              IF Head(pq) = packet THEN {}
              ELSE IF Head(pq).file = packet.file THEN {"displaced"}
              ELSE {"displaced by other file"}
        BY <2>6 DEF Pop
      <4> QED
        BY <4>1
    <3>3. pq[1] = packet /\ 1 \in 1 .. Len(pq)
      BY <2>4, <3>1, <3>2, Taken
    <3>4. /\ OnceEach(pq')
          /\ \A f \in Files : SomeGivesUp(pq', f) => SomeGivesUp(pq, f) /\ ~GivesUp(pq, 1, f)
      BY <2>3, <2>4, <3>1, PopGivesUp
    <3>5. \A f \in Files : SomeGivesUp(pq', f) => Count(sent'[f], "RELINQUISH") > 0
      BY <2>3, <3>1, <3>4
    <3>6. packet.type = "RELINQUISH" =>
            /\ Count(sent[packet.file], "RELINQUISH") > 0
            /\ ~SomeGivesUp(pq', packet.file)
      BY <2>3, <2>4, <3>3, <3>4 DEF SomeGivesUp, GivesUp
    <3> QED
      BY <3>1, <3>4, <3>5, <3>6
  <2>7. CASE Relinquish
    <3>1. PICK f \in Files : f = current
      BY DEF OInv, RestOK
    <3>2. /\ request_reply[f] = "LOCKED" /\ self' = "looking"
          /\ Push(OwnMessage(f, "RELINQUISH"), sent)
      BY <2>7, <3>1 DEF Relinquish
    <3> DEFINE m == OwnMessage(f, "RELINQUISH")
    <3>3. m \in Message /\ m.file = f /\ m.type = "RELINQUISH"
      BY Types, OwnType DEF OInv
    <3>4. Push(m, sent)
      BY <3>2
    <3> HIDE DEF m
    <3>5. Count(sent[f], "RELINQUISH") = 0
      <4>1. Granted(f) = 1
        BY <3>2 DEF Granted, One
      <4>2. Exclusive(sent[f], Mine(f), Granted(f), Waiting(f), Turn(f))
        <5>1. Counted(sent[f]) /\ Kept(f)
          BY <2>2, <2>4, Counts DEF Going
        <5> QED
          BY <5>1, ValuesType, Excludes DEF Kept
      <4> QED
        BY <4>1, <4>2 DEF Exclusive
    <3>6. ~SomeGivesUp(pq, f)
      BY <2>3, <3>5
    <3>7. /\ Sent(sent[f], sent'[f], "RELINQUISH")
          /\ \A g \in Files : g # f => sent'[g] = sent[g]
      BY <2>4, <3>3, <3>4, PushStream
    <3>8. Count(sent'[f], "RELINQUISH") > 0
      BY <3>7 DEF Sent, Counted, One
    <3>9. pq' = PushHeap(pq, m) \/ pq' = pq
      BY <3>4 DEF Push
    <3>10. /\ OnceEach(PushHeap(pq, m))
           /\ \A g : SomeGivesUp(PushHeap(pq, m), g) => SomeGivesUp(pq, g) \/ g = f
      BY <2>3, <2>4, <3>3, <3>6, PushGivesUp
    <3>11. OnceEach(pq') /\ \A g : SomeGivesUp(pq', g) => SomeGivesUp(pq, g) \/ g = f
      BY <2>3, <3>9, <3>10
    <3>12. \A g \in Files : SomeGivesUp(pq', g) => Count(sent'[g], "RELINQUISH") > 0
      BY <2>3, <3>7, <3>8, <3>11
    <3> QED
      BY <3>2, <3>11, <3>12
  <2>8. CASE ~Relinquish /\ ~Top /\ ~Pop
    <3>1. \/ self' = "treating" /\ self = "treating" /\ packet' = packet /\ PushesOther(sent)
          \/ self' # "treating" /\ self # "treating" /\ PushesOther(sent)
          \/ self' # "treating" /\ PushesOther(Unsent) /\ Treat(packet.type)
      BY <1>2, <2>2, <2>8, PushesOthers
    <3>2. CASE PushesOther(sent)
      <4>1. /\ OnceEach(pq')
            /\ \A f : SomeGivesUp(pq', f) => SomeGivesUp(pq, f)
            /\ \A f \in Files : Count(sent'[f], "RELINQUISH") = Count(sent[f], "RELINQUISH")
        BY <2>3, <2>4, <3>2, OtherPushed
      <4>2. \A f \in Files : SomeGivesUp(pq', f) => Count(sent'[f], "RELINQUISH") > 0
        BY <2>3, <4>1
      <4>3. CASE self' = "treating" /\ self = "treating" /\ packet' = packet
        BY <2>3, <2>4, <4>1, <4>2, <4>3
      <4>4. CASE self' # "treating"
        BY <4>1, <4>2, <4>4
      <4> QED
        BY <3>1, <4>3, <4>4
    <3>3. CASE self' # "treating" /\ PushesOther(Unsent) /\ Treat(packet.type)
      <4>1. /\ Unsent \in [Files -> Seq(Message)]
            /\ Took(sent[packet.file], Unsent[packet.file], packet.type)
            /\ \A g \in Files : g # packet.file => Unsent[g] = sent[g]
        BY <3>3, TakeStream
      <4>2. /\ OnceEach(pq')
            /\ \A f : SomeGivesUp(pq', f) => SomeGivesUp(pq, f)
            /\ \A f \in Files : Count(sent'[f], "RELINQUISH") = Count(Unsent[f], "RELINQUISH")
        BY <2>3, <2>4, <3>3, <4>1, OtherPushed
      <4>3. ASSUME NEW f \in Files, SomeGivesUp(pq', f)
            PROVE  Count(sent'[f], "RELINQUISH") > 0
        <5>1. SomeGivesUp(pq, f) /\ Count(sent[f], "RELINQUISH") > 0
          BY <2>3, <4>2, <4>3
        <5>2. CASE f # packet.file
          BY <4>1, <4>2, <5>1, <5>2
        <5>3. CASE f = packet.file
          <6>1. packet.type # "RELINQUISH"
            BY <2>3, <3>3, <5>1, <5>3 DEF Treat
          <6>2. Count(Unsent[f], "RELINQUISH") = Count(sent[f], "RELINQUISH")
            BY <4>1, <5>3, <6>1 DEF Took, Counted, One
          <6> QED
            BY <4>2, <5>1, <6>2
        <5> QED
          BY <5>2, <5>3
      <4> QED
        BY <3>3, <4>2, <4>3
    <3> QED
      BY <3>1, <3>2, <3>3
  <2> QED
    BY <2>5, <2>6, <2>7, <2>8
<1> QED
  BY <1>1, <1>2

-----------------------------------------------------------------------------
(***************************************************************************)
(* Nobody waits but clients.                                               *)
(***************************************************************************)
WaitsOK == waits \in [Files -> SUBSET {"me", "other"}]

\* Passing on the lock lets only clients wait, if those requeued are clients.
LEMMA PassLockWaits ==
  ASSUME WaitsOK, NEW f \in Files, NEW requeued \in SUBSET {"me", "other"},
         NEW unsent, PassLock(f, requeued, unsent)
  PROVE  WaitsOK'
<1>1. CASE UNCHANGED waits
  BY <1>1 DEF WaitsOK
<1>2. ASSUME NEW h \in waits[f], NEW more \in SUBSET (waits[f] \ {"me"}),
             waits' = [waits EXCEPT ![f] = (@ \ {h}) \union more \union requeued]
      PROVE  WaitsOK'
  <2>1. (waits[f] \ {h}) \union more \union requeued \in SUBSET {"me", "other"}
    BY DEF WaitsOK
  <2> QED
    BY <1>2, <2>1 DEF WaitsOK
<1> QED
  BY <1>1, <1>2 DEF PassLock

\* Every step lets only clients wait.
LEMMA WaitsNext ==
  ASSUME OInv, NumberAssumption, PInv, RInv, WaitsOK, [Next]_vars
  PROVE  WaitsOK'
<1>1. CASE UNCHANGED waits
  BY <1>1 DEF WaitsOK
<1>2. ASSUME NEW f \in Files, OtherRequests(f) PROVE WaitsOK'
  <2>1. CASE holder[f] = "nobody"
    BY <1>1, <1>2, <2>1 DEF OtherRequests
  <2>2. CASE holder[f] # "nobody"
    <3>1. waits' = [waits EXCEPT ![f] = @ \union {"other"}]
      BY <1>2, <2>2 DEF OtherRequests
    <3> QED
      BY <3>1 DEF WaitsOK
  <2> QED
    BY <2>1, <2>2
<1>3. ASSUME NEW f \in Files, OtherReleases(f) PROVE WaitsOK'
  BY <1>3, PassLockWaits DEF OtherReleases
<1>4. ASSUME TreatRequest PROVE WaitsOK'
  <2>1. CASE holder[packet.file] = "nobody"
    BY <1>1, <1>4, <2>1 DEF TreatRequest
  <2>2. CASE holder[packet.file] # "nobody"
    <3>1. waits' = [waits EXCEPT ![packet.file] = @ \union {"me"}]
      BY <1>4, <2>2 DEF TreatRequest
    <3> QED
      BY <3>1 DEF WaitsOK
  <2> QED
    BY <2>1, <2>2
<1>5. ASSUME TreatRelinquish PROVE WaitsOK'
  <2>1. /\ faults = {} /\ self = "treating" /\ packet.type = "RELINQUISH"
        /\ packet.file \in Files
        /\ PassLock(packet.file, {holder[packet.file]}, Unsent)
    BY <1>5 DEF TreatRelinquish, Treat, NoFault, OInv, Message
  <2>2. holder[packet.file] = "me"
    <3>1. Count(sent[packet.file], "RELINQUISH") > 0
      BY <2>1 DEF RInv
    <3>2. Going
      BY <2>1 DEF Going, PInv
    <3> QED
      BY <2>1, <3>1, <3>2, GivenBackMine
  <2> QED
    BY <2>1, <2>2, PassLockWaits
<1>6. ASSUME TreatRelease PROVE WaitsOK'
  <2>1. packet.file \in Files /\ PassLock(packet.file, {}, Unsent)
    BY <1>6 DEF TreatRelease, OInv, Message
  <2> QED
    BY <2>1, PassLockWaits
<1>7. CASE MainThread
  BY <1>1, <1>7 DEF MainThread, RequestResource, EnterCriticalSection,
     ReleaseResource, arbiter
<1>8. CASE OtherThreads
  BY <1>2, <1>3, <1>8 DEF OtherThreads
<1>9. CASE SelfThread
  <2>1. Top \/ Pop \/ TreatReply("LOCKED") \/ TreatReply("FAILED") \/ TreatInquire
          \/ LeaveInquire \/ Relinquish
        => UNCHANGED waits
    BY DEF Top, Pop, TreatReply, TreatInquire, LeaveInquire, Relinquish, arbiter
  <2> QED
    BY <1>1, <1>4, <1>5, <1>6, <1>9, <2>1 DEF SelfThread
<1>10. CASE UNCHANGED vars
  BY <1>1, <1>10 DEF vars, arbiter
<1> QED
  BY <1>7, <1>8, <1>9, <1>10 DEF Next

\* The state keeps its types.  Only what treat_relinquish_message() does could
\* break them: it puts who holds the lock back into waiting_queue, and the
\* RELINQUISH does not say of which LOCKED it is.  Until the first fault that is
\* ourselves, never nobody: a RELINQUISH under way is of the lock that our arbiter
\* has given us and that has not been given back.
\* (MKWCriticalSectionAlgStrategy.cpp 199-218)
THEOREM OwnTypeCorrect == Spec => []TypeOK
<1> USE NumberAssumption
<1>1. Init => OInv /\ PInv /\ RInv /\ WaitsOK
  <2>1. Init => RInv
    BY EmptySeq DEF Init, RInv, OnceEach, SomeGivesUp
  <2>2. Init => WaitsOK
    BY DEF Init, WaitsOK
  <2> QED
    BY <2>1, <2>2, OInvInit, PInvInit
<1>2. OInv /\ PInv /\ RInv /\ WaitsOK /\ [Next]_vars => (OInv /\ PInv /\ RInv /\ WaitsOK)'
  BY OInvNext, PInvNext, RInvNext, WaitsNext
<1>3. OInv /\ WaitsOK => TypeOK
  BY DEF OInv, RestOK, WaitsOK, TypeOK
<1> QED
  BY <1>1, <1>2, <1>3, PTL DEF Spec

-----------------------------------------------------------------------------
(***************************************************************************)
(* How many messages there are.                                            *)
(***************************************************************************)
LEMMA UnionAtMost ==
  ASSUME NEW S, IsFiniteSet(S), NEW T, IsFiniteSet(T)
  PROVE  /\ IsFiniteSet(S \union T)
         /\ Cardinality(S \union T) <= Cardinality(S) + Cardinality(T)
<1>1. /\ IsFiniteSet(S \union T)
      /\ Cardinality(S \union T) = Cardinality(S) + Cardinality(T) - Cardinality(S \cap T)
  BY FS_Union
<1>2. /\ Cardinality(S) \in Nat /\ Cardinality(T) \in Nat
      /\ Cardinality(S \cap T) \in Nat
  BY FS_CardinalityType, FS_Intersection
<1> QED
  BY <1>1, <1>2

\* A stream is no longer than the counts of the six types.
LEMMA LengthOfSix ==
  ASSUME NEW q \in Seq(Message)
  PROVE  Len(q) <= Count(q, "REQUEST") + Count(q, "LOCKED") + Count(q, "FAILED")
                   + Count(q, "INQUIRE") + Count(q, "RELINQUISH") + Count(q, "RELEASE")
<1>1. Len(q) \in Nat /\ \A k \in 1 .. Len(q) : q[k].type \in MessageType
  <2>1. Len(q) \in Nat /\ \A k \in 1 .. Len(q) : q[k] \in Message
    BY LenProperties, ElementOfSeq
  <2> QED
    BY <2>1 DEF Message
<1> DEFINE a == Places(q, "REQUEST") \union Places(q, "LOCKED")
           b == a \union Places(q, "FAILED")
           c == b \union Places(q, "INQUIRE")
           d == c \union Places(q, "RELINQUISH")
           e == d \union Places(q, "RELEASE")
<1>2. 1 .. Len(q) = e
  BY <1>1 DEF Places, MessageType
<1>3. \A t : IsFiniteSet(Places(q, t)) /\ Count(q, t) = Cardinality(Places(q, t))
             /\ Count(q, t) \in Nat
  BY CountType DEF Count
<1>4. IsFiniteSet(a) /\ Cardinality(a) <= Count(q, "REQUEST") + Count(q, "LOCKED")
  BY <1>3, UnionAtMost
<1> HIDE DEF a
<1>5. IsFiniteSet(b) /\ Cardinality(b) <= Cardinality(a) + Count(q, "FAILED")
  BY <1>3, <1>4, UnionAtMost
<1> HIDE DEF b
<1>6. IsFiniteSet(c) /\ Cardinality(c) <= Cardinality(b) + Count(q, "INQUIRE")
  BY <1>3, <1>5, UnionAtMost
<1> HIDE DEF c
<1>7. IsFiniteSet(d) /\ Cardinality(d) <= Cardinality(c) + Count(q, "RELINQUISH")
  BY <1>3, <1>6, UnionAtMost
<1> HIDE DEF d
<1>8. IsFiniteSet(e) /\ Cardinality(e) <= Cardinality(d) + Count(q, "RELEASE")
  BY <1>3, <1>7, UnionAtMost
<1> HIDE DEF e
<1>9. Cardinality(e) = Len(q)
  <2>1. Cardinality(1 .. Len(q)) = IF 1 > Len(q) THEN 0 ELSE Len(q) - 1 + 1
    <3>1. 1 \in Int /\ Len(q) \in Int
      BY <1>1
    <3> QED
      BY <3>1, FS_Interval
  <2>2. Cardinality(1 .. Len(q)) = Len(q)
    BY <1>1, <2>1
  <2> QED
    BY <1>2, <2>2
<1>10. /\ Cardinality(a) \in Nat /\ Cardinality(b) \in Nat /\ Cardinality(c) \in Nat
       /\ Cardinality(d) \in Nat /\ Cardinality(e) \in Nat
  BY <1>4, <1>5, <1>6, <1>7, <1>8, FS_CardinalityType
<1>11. /\ Count(q, "REQUEST") \in Nat /\ Count(q, "LOCKED") \in Nat
       /\ Count(q, "FAILED") \in Nat /\ Count(q, "INQUIRE") \in Nat
       /\ Count(q, "RELINQUISH") \in Nat /\ Count(q, "RELEASE") \in Nat
  BY <1>3
<1> QED
  <2>1. PICK ca \in Nat, cb \in Nat, cc \in Nat, cd \in Nat, ce \in Nat :
          /\ ca = Cardinality(a) /\ cb = Cardinality(b) /\ cc = Cardinality(c)
          /\ cd = Cardinality(d) /\ ce = Cardinality(e)
    BY <1>10
  <2>2. PICK req \in Nat, loc \in Nat, fld \in Nat, inq \in Nat, rlq \in Nat, rel \in Nat :
          /\ req = Count(q, "REQUEST") /\ loc = Count(q, "LOCKED")
          /\ fld = Count(q, "FAILED") /\ inq = Count(q, "INQUIRE")
          /\ rlq = Count(q, "RELINQUISH") /\ rel = Count(q, "RELEASE")
    BY <1>11
  <2>3. /\ ca <= req + loc /\ cb <= ca + fld /\ cc <= cb + inq
        /\ cd <= cc + rlq /\ ce <= cd + rel
    BY <1>4, <1>5, <1>6, <1>7, <1>8, <2>1, <2>2
  <2>4. ce <= req + loc + fld + inq + rlq + rel
    BY <2>3
  <2> QED
    BY <1>9, <2>1, <2>2, <2>4

\* Four messages are the most there are about the file of the main thread, two
\* about another.
LEMMA Few ==
  ASSUME NEW q \in Seq(Message), NEW mine \in 0 .. 1, NEW granted \in 0 .. 1,
         NEW waiting \in 0 .. 1, NEW asked \in 0 .. 1, NEW turn \in 0 .. 1,
         NEW inside \in 0 .. 1, NEW spin \in 0 .. 1,
         Dialogue(q, mine, granted, waiting, asked, turn, inside, spin)
  PROVE  /\ Len(q) <= 4
         /\ turn = 0 => Len(q) <= 2
<1>1. Counted(q) /\ Exclusive(q, mine, granted, waiting, turn)
  <2>1. Counted(q)
    BY Counts
  <2> QED
    BY <2>1, Excludes
<1>2. PICK req \in Nat, loc \in Nat, fai \in Nat, inq \in Nat, rlq \in Nat, rel \in Nat :
        /\ req = Count(q, "REQUEST") /\ loc = Count(q, "LOCKED")
        /\ fai = Count(q, "FAILED") /\ inq = Count(q, "INQUIRE")
        /\ rlq = Count(q, "RELINQUISH") /\ rel = Count(q, "RELEASE")
  BY <1>1 DEF Counted
<1>3. Len(q) <= req + loc + fai + inq + rlq + rel /\ Len(q) \in Nat
  BY <1>2, LengthOfSix, LenProperties
<1>4. /\ loc > 0 => loc = 1 /\ rlq = 0 /\ rel = 0 /\ mine = 1
      /\ rlq > 0 => rlq = 1 /\ rel = 0 /\ mine = 1
      /\ rel > 0 => rel = 1 /\ rlq = 0 /\ loc = 0 /\ mine = 1
      /\ req > 0 => req = 1 /\ turn = 1
      /\ mine = 1 /\ rel = 0 => req = 0 /\ turn = 1
      /\ mine = 0 => loc = 0 /\ rlq = 0 /\ rel = 0
  BY <1>1, <1>2 DEF Exclusive
<1>5. fai <= 1 /\ (fai > 0 => req = 0 /\ turn = 1)
  BY <1>2 DEF Dialogue, RefusedFirst
<1>6. /\ mine = 1 /\ loc = 0 => inq + spin + rlq <= asked
      /\ mine = 0 => inq + spin <= 1
      /\ loc > 0 => inq + spin <= 1 + asked
  BY <1>2 DEF Dialogue, AskedOnce
<1>7. CASE loc > 0
  <2>1. loc = 1 /\ rlq = 0 /\ rel = 0 /\ req = 0 /\ turn = 1 /\ inq <= 2
    BY <1>4, <1>6, <1>7
  <2> QED
    BY <1>3, <1>5, <2>1
<1>8. CASE loc = 0 /\ mine = 1
  <2>1. inq + rlq <= 1 /\ rel <= 1 /\ req + fai <= 1 /\ (turn = 0 => req = 0 /\ fai = 0)
    BY <1>4, <1>5, <1>6, <1>8
  <2> QED
    BY <1>3, <1>8, <2>1
<1>9. CASE mine = 0
  <2>1. loc = 0 /\ rlq = 0 /\ rel = 0 /\ inq <= 1
        /\ req + fai <= 1 /\ (turn = 0 => req = 0 /\ fai = 0)
    BY <1>4, <1>5, <1>6, <1>9
  <2> QED
    BY <1>3, <2>1
<1> QED
  BY <1>7, <1>8, <1>9

-----------------------------------------------------------------------------
\* The places of the streams s.
UnderWay(s) == {p \in Files \X Nat : p[2] \in 1 .. Len(s[p[1]])}

\* One more message in one stream is one more under way.
LEMMA UnderWaySent ==
  ASSUME NEW s, NEW r, NEW f \in Files, Len(s[f]) \in Nat,
         Len(r[f]) = Len(s[f]) + 1, \A g \in Files : g # f => r[g] = s[g],
         IsFiniteSet(UnderWay(s))
  PROVE  /\ IsFiniteSet(UnderWay(r))
         /\ Cardinality(UnderWay(r)) = Cardinality(UnderWay(s)) + 1
<1> DEFINE x == <<f, Len(s[f]) + 1>>
<1>1. /\ Len(s[f]) \in Nat
      /\ Len(r[f]) = Len(s[f]) + 1
      /\ \A g \in Files : g # f => r[g] = s[g]
  OBVIOUS
<1>2. UnderWay(r) = UnderWay(s) \union {x}
  <2>1. ASSUME NEW g \in Files, NEW k \in Nat
        PROVE  <<g, k>> \in UnderWay(r) <=> <<g, k>> \in UnderWay(s) \/ <<g, k>> = x
    <3>1. <<g, k>> \in UnderWay(r) <=> k \in 1 .. Len(r[g])
      BY DEF UnderWay
    <3>2. <<g, k>> \in UnderWay(s) <=> k \in 1 .. Len(s[g])
      BY DEF UnderWay
    <3>3. <<g, k>> = x <=> g = f /\ k = Len(s[f]) + 1
      OBVIOUS
    <3> HIDE DEF x
    <3>4. CASE g = f
      <4>1. k \in 1 .. Len(s[f]) + 1 <=> k \in 1 .. Len(s[f]) \/ k = Len(s[f]) + 1
        BY <1>1
      <4> QED
        BY <1>1, <3>1, <3>2, <3>3, <3>4, <4>1
    <3>5. CASE g # f
      BY <1>1, <3>1, <3>2, <3>3, <3>5
    <3> QED
      BY <3>4, <3>5
  <2>2. x \in Files \X Nat
    BY <1>1
  <2>3. UnderWay(r) \subseteq Files \X Nat /\ UnderWay(s) \subseteq Files \X Nat
    BY DEF UnderWay
  <2> HIDE DEF x
  <2>4. ASSUME NEW p \in Files \X Nat
        PROVE  p \in UnderWay(r) <=> p \in UnderWay(s) \/ p = x
    <3>1. p = <<p[1], p[2]>> /\ p[1] \in Files /\ p[2] \in Nat
      OBVIOUS
    <3>2. PICK g \in Files, k \in Nat : p = <<g, k>>
      BY <3>1
    <3> QED
      BY <2>1, <3>2
  <2> QED
    BY <2>2, <2>3, <2>4
<1>3. x \notin UnderWay(s)
  BY <1>1 DEF UnderWay
<1> HIDE DEF x
<1> QED
  BY <1>2, <1>3, FS_AddElement

\* One message less in one stream is one less under way.
LEMMA UnderWayTaken ==
  ASSUME NEW s, NEW r, NEW f \in Files, Len(s[f]) \in Nat \ {0},
         Len(r[f]) = Len(s[f]) - 1, \A g \in Files : g # f => r[g] = s[g],
         IsFiniteSet(UnderWay(s))
  PROVE  /\ IsFiniteSet(UnderWay(r))
         /\ Cardinality(UnderWay(r)) = Cardinality(UnderWay(s)) - 1
<1> DEFINE x == <<f, Len(s[f])>>
<1>1. /\ Len(s[f]) \in Nat \ {0}
      /\ Len(r[f]) = Len(s[f]) - 1
      /\ \A g \in Files : g # f => r[g] = s[g]
  OBVIOUS
<1>2. UnderWay(r) = UnderWay(s) \ {x}
  <2>1. ASSUME NEW g \in Files, NEW k \in Nat
        PROVE  <<g, k>> \in UnderWay(r) <=> <<g, k>> \in UnderWay(s) /\ <<g, k>> # x
    <3>1. <<g, k>> \in UnderWay(r) <=> k \in 1 .. Len(r[g])
      BY DEF UnderWay
    <3>2. <<g, k>> \in UnderWay(s) <=> k \in 1 .. Len(s[g])
      BY DEF UnderWay
    <3>3. <<g, k>> = x <=> g = f /\ k = Len(s[f])
      OBVIOUS
    <3> HIDE DEF x
    <3>4. CASE g = f
      <4>1. k \in 1 .. Len(s[f]) - 1 <=> k \in 1 .. Len(s[f]) /\ k # Len(s[f])
        <5>1. PICK n \in Nat : n = Len(s[f])
          BY <1>1
        <5>2. k \in 1 .. n - 1 <=> k \in 1 .. n /\ k # n
          OBVIOUS
        <5> QED
          BY <5>1, <5>2
      <4> QED
        BY <1>1, <3>1, <3>2, <3>3, <3>4, <4>1
    <3>5. CASE g # f
      BY <1>1, <3>1, <3>2, <3>3, <3>5
    <3> QED
      BY <3>4, <3>5
  <2>2. UnderWay(r) \subseteq Files \X Nat /\ UnderWay(s) \subseteq Files \X Nat
    BY DEF UnderWay
  <2> HIDE DEF x
  <2>3. ASSUME NEW p \in Files \X Nat
        PROVE  p \in UnderWay(r) <=> p \in UnderWay(s) /\ p # x
    <3>1. p = <<p[1], p[2]>> /\ p[1] \in Files /\ p[2] \in Nat
      OBVIOUS
    <3>2. PICK g \in Files, k \in Nat : p = <<g, k>>
      BY <3>1
    <3> QED
      BY <2>1, <3>2
  <2> QED
    BY <2>2, <2>3
<1>3. x \in UnderWay(s)
  BY <1>1 DEF UnderWay
<1> HIDE DEF x
<1> QED
  BY <1>2, <1>3, FS_RemoveElement

-----------------------------------------------------------------------------
\* What is in the queue or in hand is under way.
HInv ==
  faults = {} =>
    /\ IsFiniteSet(UnderWay(sent))
    /\ Len(pq) + One(self = "treating") <= Cardinality(UnderWay(sent))

\* Sending adds to the heap no more than to what is under way.
LEMMA SendsHeld ==
  ASSUME OInv, RestOK', NEW unsent \in [Files -> Seq(Message)], Sends(unsent),
         IsFiniteSet(UnderWay(unsent))
  PROVE  /\ IsFiniteSet(UnderWay(sent'))
         /\ \/ /\ Len(pq') = Len(pq)
               /\ Cardinality(UnderWay(sent')) = Cardinality(UnderWay(unsent))
            \/ /\ Len(pq') <= Len(pq) + 1
               /\ Cardinality(UnderWay(sent')) = Cardinality(UnderWay(unsent)) + 1
<1>1. CASE NoPush(unsent)
  BY <1>1 DEF NoPush
<1>2. ASSUME NEW f \in Files, NEW t \in MessageType, Push(Stamped(f, t), unsent)
      PROVE  /\ IsFiniteSet(UnderWay(sent'))
             /\ Len(pq') <= Len(pq) + 1
             /\ Cardinality(UnderWay(sent')) = Cardinality(UnderWay(unsent)) + 1
  <2> DEFINE m == Stamped(f, t)
  <2>1. m \in Message /\ m.file = f
    BY StampedType
  <2>2. /\ sent' = [unsent EXCEPT ![m.file] = Append(@, m)]
        /\ pq' = IF Len(pq) < max_size THEN PushHeap(pq, m) ELSE pq
    BY <1>2 DEF Push
  <2> HIDE DEF m
  <2>3. /\ IsFiniteSet(UnderWay(sent'))
        /\ Cardinality(UnderWay(sent')) = Cardinality(UnderWay(unsent)) + 1
    <3>1. PICK r : r = sent'
      OBVIOUS
    <3>2. r = [unsent EXCEPT ![f] = Append(unsent[f], m)]
      BY <2>1, <2>2, <3>1
    <3>3. r[f] = Append(unsent[f], m) /\ \A g \in Files : g # f => r[g] = unsent[g]
      BY <3>2
    <3>4. Len(unsent[f]) \in Nat /\ Len(r[f]) = Len(unsent[f]) + 1
      BY <2>1, <3>3, AppendProperties, LenProperties
    <3>5. /\ IsFiniteSet(UnderWay(r))
          /\ Cardinality(UnderWay(r)) = Cardinality(UnderWay(unsent)) + 1
      BY <3>3, <3>4, UnderWaySent
    <3> QED
      BY <3>1, <3>5
  <2>4. Len(PushHeap(pq, m)) = Len(pq) + 1 /\ Len(pq) \in Nat
    BY <2>1, PushHeapType, LenProperties DEF OInv
  <2> QED
    BY <2>2, <2>3, <2>4
<1> QED
  BY <1>1, <1>2 DEF Sends

\* Every step keeps what is held within what is under way.
LEMMA HInvNext ==
  ASSUME OInv, OInv', NumberAssumption, HInv, [Next]_vars
  PROVE  HInv'
<1> SUFFICES ASSUME faults' = {}
             PROVE  /\ IsFiniteSet(UnderWay(sent'))
                    /\ Len(pq') + One(self' = "treating") <= Cardinality(UnderWay(sent'))
  BY DEF HInv, UnderWay
<1>1. CASE UNCHANGED vars
  <2>1. UNCHANGED <<self, pq, sent, faults>>
    BY <1>1 DEF vars
  <2> QED
    BY <2>1 DEF HInv
<1>2. CASE Next
  <2>1. faults = {}
    BY <1>2 DEF Next, MainThread, OtherThreads, SelfThread, NoFault, RequestResource,
       EnterCriticalSection, ReleaseResource, OtherRequests, OtherReleases, Top, Pop,
       TreatRequest, TreatReply, TreatInquire, LeaveInquire, Relinquish,
       TreatRelinquish, TreatRelease, Treat
  <2>2. /\ IsFiniteSet(UnderWay(sent))
        /\ Len(pq) + One(self = "treating") <= Cardinality(UnderWay(sent))
        /\ Len(pq) \in Nat /\ Len(pq') \in Nat
        /\ pq \in Seq(Message) /\ sent \in [Files -> Seq(Message)] /\ RestOK'
        /\ self = "popping" => pq # <<>>
    BY <2>1, LenProperties DEF HInv, OInv
  <2>3. Cardinality(UnderWay(sent)) \in Nat
    BY <2>2, FS_CardinalityType
  <2>4. CASE Sending
    <3>1. /\ IsFiniteSet(UnderWay(sent'))
          /\ \/ /\ Len(pq') = Len(pq)
                /\ Cardinality(UnderWay(sent')) = Cardinality(UnderWay(sent))
             \/ /\ Len(pq') <= Len(pq) + 1
                /\ Cardinality(UnderWay(sent')) = Cardinality(UnderWay(sent)) + 1
      BY <2>2, <2>4, SendsHeld DEF Sending
    <3>2. self' = "treating" <=> self = "treating"
      BY <2>4 DEF Sending
    <3>3. One(self' = "treating") = One(self = "treating")
          /\ One(self = "treating") \in 0 .. 1
      BY <3>2 DEF One
    <3> QED
      BY <2>2, <2>3, <3>1, <3>3
  <2>5. CASE Treating
    <3>1. /\ self = "treating" /\ self' # "treating" /\ Sends(Unsent)
          /\ sent[packet.file] # <<>> /\ Head(sent[packet.file]) = packet
          /\ packet.file \in Files
      BY <2>5 DEF Treating, OInv, Message
    <3>2. One(self = "treating") = 1 /\ One(self' = "treating") = 0
      BY <3>1 DEF One
    <3> DEFINE f == packet.file
    <3>3. Unsent = [sent EXCEPT ![f] = Tail(@)]
      <4>1. PICK q : q = sent[f]
        OBVIOUS
      <4>2. q \in Seq(Message) /\ q # <<>> /\ Head(q) = packet
        BY <2>2, <3>1, <4>1
      <4>3. Len(q) \in Nat \ {0} /\ Head(q) = q[1] /\ Tail(q) \in Seq(Message)
            /\ Head(q) \in Message
        BY <4>2, Taken
      <4>4. q = <<packet>> \o Tail(q)
        BY <4>2, <4>3, HeadFirst
      <4>5. RemoveFirst(<<packet>> \o Tail(q), packet) = Tail(q)
        BY <4>2, <4>3, RemoveHead
      <4>6. packet \in Range(q)
        BY <4>2, <4>3, LenProperties DEF Range
      <4>7. RemoveFirst(q, packet) = Tail(q)
        BY <4>4, <4>5
      <4> QED
        BY <4>1, <4>6, <4>7 DEF Unsent
    <3>4. Unsent \in [Files -> Seq(Message)]
      BY <2>2, UnsentType DEF OInv
    <3>5. /\ IsFiniteSet(UnderWay(Unsent))
          /\ Cardinality(UnderWay(Unsent)) = Cardinality(UnderWay(sent)) - 1
      <4>1. PICK g \in Files, r \in {Unsent} : g = f /\ r = Unsent
        BY <3>1
      <4>2. r[g] = Tail(sent[g]) /\ \A h \in Files : h # g => r[h] = sent[h]
        BY <2>2, <3>1, <3>3, <4>1
      <4>3. Len(sent[g]) \in Nat \ {0} /\ Len(r[g]) = Len(sent[g]) - 1
        BY <2>2, <3>1, <4>1, <4>2, Taken
      <4>4. /\ IsFiniteSet(UnderWay(r))
            /\ Cardinality(UnderWay(r)) = Cardinality(UnderWay(sent)) - 1
        BY <2>2, <4>2, <4>3, UnderWayTaken
      <4> QED
        BY <4>1, <4>4
    <3>6. /\ IsFiniteSet(UnderWay(sent'))
          /\ \/ /\ Len(pq') = Len(pq)
                /\ Cardinality(UnderWay(sent')) = Cardinality(UnderWay(Unsent))
             \/ /\ Len(pq') <= Len(pq) + 1
                /\ Cardinality(UnderWay(sent')) = Cardinality(UnderWay(Unsent)) + 1
      BY <2>2, <3>1, <3>4, <3>5, SendsHeld
    <3> QED
      BY <2>2, <2>3, <3>2, <3>5, <3>6
  <2>6. CASE Top
    <3>1. /\ self = "looking" /\ self' = "popping" /\ UNCHANGED <<pq, sent>>
      BY <2>6 DEF Top
    <3>2. One(self = "treating") = 0 /\ One(self' = "treating") = 0
      BY <3>1 DEF One
    <3> QED
      BY <2>2, <3>1, <3>2
  <2>7. CASE Pop
    <3>1. /\ self = "popping" /\ self' = "treating" /\ pq' = PopHeap(pq)
          /\ pq # <<>> /\ sent' = sent
      BY <2>2, <2>7 DEF Pop
    <3>2. One(self = "treating") = 0 /\ One(self' = "treating") = 1
      BY <3>1 DEF One
    <3>3. Len(pq') = Len(pq) - 1
      BY <2>2, <3>1, PopHeapType
    <3> QED
      BY <2>2, <2>3, <3>1, <3>2, <3>3
  <2> QED
    BY <1>2, <2>4, <2>5, <2>6, <2>7, Kinds
<1> QED
  BY <1>1, <1>2

\* Two numbers in a row.
LEMMA TwoNumbers ==
  ASSUME NEW k \in Int, NEW l \in Int, l = k + 1
  PROVE  IsFiniteSet(k .. l) /\ Cardinality(k .. l) = 2
<1>1. IsFiniteSet(k .. l) /\ Cardinality(k .. l) = IF k > l THEN 0 ELSE l - k + 1
  BY FS_Interval
<1>2. ~(k > l) /\ l - k + 1 = 2
  OBVIOUS
<1> QED
  BY <1>1, <1>2

\* Four messages about one file, two about each of the others.
LEMMA UnderWayBound ==
  ASSUME OInv, PInv, faults = {}, IsFiniteSet(Files)
  PROVE  Cardinality(UnderWay(sent)) <= 2 * Cardinality(Files) + 2
<1>1. /\ sent \in [Files -> Seq(Message)] /\ current \in Files
      /\ \A f \in Files : Kept(f)
  BY DEF OInv, RestOK, PInv
<1>2. ASSUME NEW f \in Files
      PROVE  /\ Len(sent[f]) \in Nat /\ Len(sent[f]) <= 4
             /\ f # current => Len(sent[f]) <= 2
  <2>1. sent[f] \in Seq(Message)
    BY <1>1
  <2>2. Dialogue(sent[f], Mine(f), Granted(f), Waiting(f), Asked(f), Turn(f),
                 Inside(f), Spin(f))
    BY <1>1 DEF Kept
  <2>3. Len(sent[f]) <= 4 /\ (Turn(f) = 0 => Len(sent[f]) <= 2)
    BY <2>1, <2>2, ValuesType, Few
  <2>4. f # current => Turn(f) = 0
    BY DEF Turn, OurTurn, One
  <2> QED
    BY <2>1, <2>3, <2>4, LenProperties
<1> DEFINE a == Files \X (1 .. 2)
           b == {current} \X (3 .. 4)
<1>3. UnderWay(sent) \subseteq a \union b
  <2> SUFFICES ASSUME NEW p \in UnderWay(sent)
               PROVE  p \in a \union b
    OBVIOUS
  <2>1. PICK f \in Files, k \in Nat : p = <<f, k>> /\ k \in 1 .. Len(sent[f])
    BY DEF UnderWay
  <2>2. k \in 1 .. 2 \/ (k \in 3 .. 4 /\ f = current)
    BY <1>2, <2>1
  <2> QED
    BY <2>1, <2>2
<1>4. /\ IsFiniteSet(1 .. 2) /\ Cardinality(1 .. 2) = 2
      /\ IsFiniteSet(3 .. 4) /\ Cardinality(3 .. 4) = 2
      /\ IsFiniteSet({current}) /\ Cardinality({current}) = 1
  <2>1. PICK k \in Int, l \in Int, m \in Int, n \in Int : k = 1 /\ l = 2 /\ m = 3 /\ n = 4
    OBVIOUS
  <2>2. l = k + 1 /\ n = m + 1
    BY <2>1
  <2>3. IsFiniteSet({current}) /\ Cardinality({current}) = 1
    BY FS_Singleton
  <2>4. IsFiniteSet(k .. l) /\ Cardinality(k .. l) = 2
    BY <2>2, TwoNumbers
  <2>5. IsFiniteSet(m .. n) /\ Cardinality(m .. n) = 2
    BY <2>2, TwoNumbers
  <2> QED
    BY <2>1, <2>3, <2>4, <2>5
<1>5. /\ IsFiniteSet(a) /\ Cardinality(a) = Cardinality(Files) * 2
      /\ IsFiniteSet(b) /\ Cardinality(b) = 2
  BY <1>4, FS_Product
<1> HIDE DEF a, b
<1>6. IsFiniteSet(a \union b) /\ Cardinality(a \union b) <= Cardinality(a) + Cardinality(b)
  BY <1>5, UnionAtMost
<1>7. IsFiniteSet(UnderWay(sent)) /\ Cardinality(UnderWay(sent)) <= Cardinality(a \union b)
  BY <1>3, <1>6, FS_Subset
<1>8. /\ Cardinality(Files) \in Nat /\ Cardinality(UnderWay(sent)) \in Nat
      /\ Cardinality(a \union b) \in Nat
  BY <1>6, <1>7, FS_CardinalityType
<1> QED
  BY <1>5, <1>6, <1>7, <1>8

\* push() is never called on a full queue, where it would drop a message that
\* sendMessageToSelf() takes for sent.  Until the first fault, the messages not
\* yet treated are at most four about the file of the main thread and two about
\* each other file, so that a queue with more room than that never fills.  The
\* code has room for a hundred, which are 48 files.  At shutdown it also holds one
\* CLIENT_DONE_ALL_REQUEST per server, when at most one more message is taken from it.
\* (messagequeue.cpp 11-21, node.cpp 164-166, config.h 9)
THEOREM RoomForAll ==
  ASSUME IsFiniteSet(Files), 2 * Cardinality(Files) + 2 < max_size
  PROVE  Spec => []NothingRefused
<1> USE NumberAssumption, SizeAssumption
<1>1. Init => OInv /\ PInv /\ HInv
  <2>1. ASSUME Init PROVE HInv
    <3>1. /\ Len(pq) = 0 /\ self = "looking" /\ \A f \in Files : Len(sent[f]) = 0
      BY <2>1, EmptySeq DEF Init
    <3>2. UnderWay(sent) = {}
      BY <3>1 DEF UnderWay
    <3>3. IsFiniteSet({}) /\ Cardinality({}) = 0
      BY FS_EmptySet
    <3>4. One(self = "treating") = 0
      BY <3>1 DEF One
    <3> QED
      BY <3>1, <3>2, <3>3, <3>4 DEF HInv
  <2> QED
    BY <2>1, OInvInit, PInvInit
<1>2. OInv /\ PInv /\ HInv /\ [Next]_vars => (OInv /\ PInv /\ HInv)'
  BY OInvNext, PInvNext, HInvNext
<1>3. OInv /\ PInv /\ HInv => NothingRefused
  <2> SUFFICES ASSUME OInv, PInv, HInv, faults = {}
               PROVE  Len(pq) < max_size
    BY DEF NothingRefused
  <2>1. Cardinality(UnderWay(sent)) <= 2 * Cardinality(Files) + 2
    BY UnderWayBound
  <2>2. /\ IsFiniteSet(UnderWay(sent))
        /\ Len(pq) + One(self = "treating") <= Cardinality(UnderWay(sent))
    BY DEF HInv
  <2>3. One(self = "treating") \in 0 .. 1
    BY OneType
  <2>4. /\ Cardinality(UnderWay(sent)) \in Nat /\ Cardinality(Files) \in Nat
        /\ Len(pq) \in Nat /\ max_size \in Nat
    BY <2>2, FS_CardinalityType, LenProperties DEF OInv, SizeAssumption
  <2> QED
    BY <2>1, <2>2, <2>3, <2>4
<1> QED
  BY <1>1, <1>2, <1>3, PTL DEF Spec
=============================================================================
