---------------------------- MODULE StreamLemmas ----------------------------
(***************************************************************************)
(* The messages under way from one process to another are a sequence of    *)
(* records with a field type: Append sends one, Tail takes one.  What the  *)
(* two do to the number and the order of the messages of a type, for       *)
(* messages of any set.                                                    *)
(***************************************************************************)
EXTENDS Integers, FiniteSetTheorems, SequenceTheorems, TLAPS

\* The places of the stream q with a message of type t, and how many there are.
Places(q, t) == {k \in 1 .. Len(q) : q[k].type = t}
Count(q, t) == Cardinality(Places(q, t))

\* In the stream q every message of type t is ahead of every one of type u.
Ahead(q, t, u) ==
  \A k, l \in 1 .. Len(q) : q[k].type = t /\ q[l].type = u => k < l

-----------------------------------------------------------------------------
\* The count of a type is a number, and zero if there is none of the type.
LEMMA CountType ==
  ASSUME NEW S, NEW q \in Seq(S), NEW t
  PROVE  /\ IsFiniteSet(Places(q, t))
         /\ Count(q, t) \in Nat
         /\ Count(q, t) = 0 <=> Places(q, t) = {}
<1>1. IsFiniteSet(1 .. Len(q))
  BY FS_Interval, LenProperties
<1>2. IsFiniteSet(Places(q, t))
  BY <1>1, FS_Subset DEF Places
<1> QED
  BY <1>2, FS_CardinalityType, FS_EmptySet DEF Count

\* Nothing is under way in an empty stream.
LEMMA CountEmpty ==
  ASSUME NEW t, NEW u
  PROVE  Count(<<>>, t) = 0 /\ Ahead(<<>>, t, u)
<1>1. Len(<<>>) = 0
  BY EmptySeq
<1>2. Places(<<>>, t) = {}
  BY <1>1 DEF Places
<1>3. Ahead(<<>>, t, u)
  BY <1>1 DEF Ahead
<1> QED
  BY <1>2, <1>3, FS_EmptySet DEF Count

\* The order of t and u is kept where there is none of one of them.
LEMMA AheadOfNone ==
  ASSUME NEW S, NEW q \in Seq(S), NEW t, NEW u, Count(q, t) = 0 \/ Count(q, u) = 0
  PROVE  Ahead(q, t, u)
BY CountType DEF Places, Ahead

\* Sending m adds one to the count of its type.
LEMMA CountSent ==
  ASSUME NEW S, NEW q \in Seq(S), NEW m \in S, NEW t
  PROVE  Count(Append(q, m), t) = Count(q, t) + IF m.type = t THEN 1 ELSE 0
<1> DEFINE r == Append(q, m)
           new == Len(q) + 1
<1>1. /\ Len(r) = new
      /\ r[new] = m
      /\ Len(q) \in Nat
      /\ \A k \in 1 .. Len(q) : r[k] = q[k]
  BY AppendProperties, LenProperties
<1> HIDE DEF r
<1>2. new \notin Places(q, t)
  BY <1>1 DEF Places
<1>3. CASE m.type = t
  <2>1. Places(r, t) = Places(q, t) \union {new}
    BY <1>1, <1>3 DEF Places
  <2> HIDE DEF new
  <2>2. Count(r, t) = Count(q, t) + 1
    BY <1>2, <2>1, CountType, FS_AddElement DEF Count
  <2> QED
    BY <1>3, <2>2 DEF r
<1>4. CASE m.type # t
  <2>1. Places(r, t) = Places(q, t)
    BY <1>1, <1>4 DEF Places
  <2>2. Count(r, t) = Count(q, t) + 0
    BY <2>1, CountType DEF Count
  <2> QED
    BY <1>4, <2>2 DEF r
<1> QED
  BY <1>3, <1>4

\* Sending m keeps the order of t and u unless m is of type t and a message of
\* type u is on its way already.
LEMMA AheadSent ==
  ASSUME NEW S, NEW q \in Seq(S), NEW m \in S, NEW t, NEW u, t # u
  PROVE  Ahead(Append(q, m), t, u)
           <=> Ahead(q, t, u) /\ (m.type = t => Count(q, u) = 0)
<1> DEFINE r == Append(q, m)
           new == Len(q) + 1
<1>1. /\ Len(r) = new
      /\ r[new] = m
      /\ Len(q) \in Nat
      /\ \A k \in 1 .. Len(q) : r[k] = q[k]
  BY AppendProperties, LenProperties
<1> HIDE DEF r
<1>2. Count(q, u) = 0 <=> \A k \in 1 .. Len(q) : q[k].type # u
  BY CountType DEF Places
<1>3. \A k : k \in 1 .. Len(r) <=> k \in 1 .. Len(q) \/ k = new
  BY <1>1
<1>4. ASSUME Ahead(r, t, u) PROVE Ahead(q, t, u)
  BY <1>1, <1>3, <1>4 DEF Ahead
<1>5. ASSUME Ahead(r, t, u), m.type = t, NEW k \in 1 .. Len(q), q[k].type = u
      PROVE  FALSE
  <2>1. new \in 1 .. Len(r) /\ k \in 1 .. Len(r) /\ r[new].type = t /\ r[k].type = u
    BY <1>1, <1>3, <1>5
  <2>2. new < k
    BY <1>5, <2>1 DEF Ahead
  <2> QED
    BY <1>1, <2>2
<1>6. ASSUME Ahead(q, t, u), m.type = t => \A k \in 1 .. Len(q) : q[k].type # u
      PROVE  Ahead(r, t, u)
  <2> SUFFICES ASSUME NEW k \in 1 .. Len(r), NEW l \in 1 .. Len(r),
                      r[k].type = t, r[l].type = u
               PROVE  k < l
    BY DEF Ahead
  <2>1. CASE k = new
    <3>1. m.type = t
      BY <1>1, <2>1
    <3>2. l = new \/ (l \in 1 .. Len(q) /\ q[l].type = u)
      BY <1>1, <1>3
    <3>3. l # new
      BY <1>1, <3>1
    <3> QED
      BY <1>6, <3>1, <3>2, <3>3
  <2>2. CASE k # new
    <3>1. k \in 1 .. Len(q) /\ q[k].type = t
      BY <1>1, <1>3, <2>2
    <3>2. CASE l = new
      BY <1>1, <3>1, <3>2
    <3>3. CASE l # new
      <4>1. l \in 1 .. Len(q) /\ q[l].type = u
        BY <1>1, <1>3, <3>3
      <4> QED
        BY <1>6, <3>1, <4>1 DEF Ahead
    <3> QED
      BY <3>2, <3>3
  <2> QED
    BY <2>1, <2>2
<1> QED
  BY <1>2, <1>4, <1>5, <1>6 DEF r

-----------------------------------------------------------------------------
\* Taking the first message leaves those behind it, one place further on.
LEMMA Taken ==
  ASSUME NEW S, NEW q \in Seq(S), q # <<>>
  PROVE  /\ Tail(q) \in Seq(S)
         /\ Head(q) \in S
         /\ Head(q) = q[1]
         /\ Len(q) \in Nat \ {0}
         /\ Len(Tail(q)) = Len(q) - 1
         /\ \A k \in 1 .. Len(Tail(q)) :
              k + 1 \in 1 .. Len(q) /\ k + 1 # 1 /\ Tail(q)[k] = q[k + 1]
         /\ \A k \in 1 .. Len(q) :
              k = 1 \/ (k - 1 \in 1 .. Len(Tail(q)) /\ Tail(q)[k - 1] = q[k])
<1>1. /\ Tail(q) \in Seq(S)
      /\ Head(q) \in S
      /\ Len(q) \in Nat \ {0}
      /\ Len(Tail(q)) = Len(q) - 1
      /\ \A k \in 1 .. Len(Tail(q)) : Tail(q)[k] = q[k + 1]
  BY HeadTailProperties, EmptySeq
<1>2. Head(q) = q[1]
  OBVIOUS
<1>3. \A k \in 1 .. Len(Tail(q)) : k + 1 \in 1 .. Len(q) /\ k + 1 # 1
  BY <1>1
<1>4. ASSUME NEW k \in 1 .. Len(q), k # 1
      PROVE  k - 1 \in 1 .. Len(Tail(q)) /\ Tail(q)[k - 1] = q[k]
  <2>1. k - 1 \in 1 .. Len(Tail(q))
    BY <1>1, <1>4
  <2>2. Tail(q)[k - 1] = q[(k - 1) + 1]
    BY <1>1, <2>1
  <2>3. (k - 1) + 1 = k
    BY <1>1
  <2> QED
    BY <2>1, <2>2, <2>3
<1> QED
  BY <1>1, <1>2, <1>3, <1>4

\* Taking a message takes one from the count of its type.
LEMMA CountTaken ==
  ASSUME NEW S, NEW q \in Seq(S), q # <<>>, NEW t
  PROVE  /\ Count(Tail(q), t) = Count(q, t) - IF Head(q).type = t THEN 1 ELSE 0
         /\ Head(q).type = t => Count(q, t) > 0
<1> DEFINE r == Tail(q)
           old == Places(q, t) \ {1}
           f == [k \in Places(r, t) |-> k + 1]
<1>1. /\ r \in Seq(S)
      /\ Head(q) = q[1]
      /\ Len(q) \in Nat \ {0}
      /\ Len(r) = Len(q) - 1
      /\ \A k \in 1 .. Len(r) : k + 1 \in 1 .. Len(q) /\ k + 1 # 1 /\ r[k] = q[k + 1]
      /\ \A k \in 1 .. Len(q) : k = 1 \/ (k - 1 \in 1 .. Len(r) /\ r[k - 1] = q[k])
  BY Taken
<1> HIDE DEF r
<1>2. IsFiniteSet(Places(r, t)) /\ IsFiniteSet(Places(q, t)) /\ Count(q, t) \in Nat
  BY <1>1, CountType
<1>3. f \in Bijection(Places(r, t), old)
  <2>1. \A k \in Places(r, t) : k \in Nat /\ k + 1 \in old
    BY <1>1 DEF Places
  <2>2. f \in [Places(r, t) -> old]
    BY <2>1
  <2>3. \A k, l \in Places(r, t) : f[k] = f[l] => k = l
    BY <2>1
  <2>4. ASSUME NEW l \in old PROVE \E k \in Places(r, t) : f[k] = l
    <3>1. l \in 1 .. Len(q) /\ l # 1 /\ q[l].type = t
      BY DEF Places
    <3>2. l - 1 \in 1 .. Len(r) /\ r[l - 1] = q[l]
      BY <1>1, <3>1
    <3>3. l - 1 \in Places(r, t)
      BY <3>1, <3>2 DEF Places
    <3>4. f[l - 1] = (l - 1) + 1 /\ (l - 1) + 1 = l
      BY <3>1, <3>3
    <3> QED
      BY <3>3, <3>4
  <2> HIDE DEF f, old
  <2>5. f \in Injection(Places(r, t), old)
    BY <2>2, <2>3 DEF Injection, IsInjective
  <2>6. f \in Surjection(Places(r, t), old)
    BY <2>2, <2>4 DEF Surjection
  <2> QED
    BY <2>5, <2>6 DEF Bijection
<1> HIDE DEF f
<1>4. Count(r, t) = Cardinality(old)
  <2>1. ExistsBijection(Places(r, t), old)
    BY <1>3 DEF ExistsBijection
  <2> HIDE DEF old
  <2>2. Cardinality(old) = Cardinality(Places(r, t))
    BY <1>2, <2>1, FS_Bijection
  <2> QED
    BY <2>2 DEF Count
<1>5. 1 \in Places(q, t) <=> Head(q).type = t
  BY <1>1 DEF Places
<1>6. Cardinality(old) = IF 1 \in Places(q, t) THEN Count(q, t) - 1 ELSE Count(q, t)
  BY <1>2, FS_RemoveElement DEF Count
<1>7. 1 \in Places(q, t) => Count(q, t) > 0
  <2>1. Count(q, t) = 0 <=> Places(q, t) = {}
    BY CountType
  <2> QED
    BY <1>2, <2>1
<1> HIDE DEF old
<1>8. CASE Head(q).type = t
  BY <1>2, <1>4, <1>5, <1>6, <1>7, <1>8 DEF r
<1>9. CASE Head(q).type # t
  BY <1>2, <1>4, <1>5, <1>6, <1>9 DEF r
<1> QED
  BY <1>8, <1>9

\* Taking a message keeps the order; a message of type u is taken only when those
\* of type t ahead of it are gone.
LEMMA AheadTaken ==
  ASSUME NEW S, NEW q \in Seq(S), q # <<>>, NEW t, NEW u
  PROVE  /\ Ahead(q, t, u) => Ahead(Tail(q), t, u)
         /\ Head(q).type # u => (Ahead(Tail(q), t, u) <=> Ahead(q, t, u))
         /\ Head(q).type = u /\ Ahead(q, t, u) => Count(q, t) = 0
<1> DEFINE r == Tail(q)
<1>1. /\ Head(q) = q[1]
      /\ Len(q) \in Nat \ {0}
      /\ Len(r) = Len(q) - 1
      /\ \A k \in 1 .. Len(r) : k + 1 \in 1 .. Len(q) /\ k + 1 # 1 /\ r[k] = q[k + 1]
      /\ \A k \in 1 .. Len(q) : k = 1 \/ (k - 1 \in 1 .. Len(r) /\ r[k - 1] = q[k])
  BY Taken
<1> HIDE DEF r
<1>2. ASSUME Ahead(q, t, u) PROVE Ahead(r, t, u)
  <2> SUFFICES ASSUME NEW k \in 1 .. Len(r), NEW l \in 1 .. Len(r),
                      r[k].type = t, r[l].type = u
               PROVE  k < l
    BY DEF Ahead
  <2>1. /\ k + 1 \in 1 .. Len(q) /\ l + 1 \in 1 .. Len(q)
        /\ q[k + 1].type = t /\ q[l + 1].type = u
    BY <1>1
  <2>2. k + 1 < l + 1
    BY <1>2, <2>1 DEF Ahead
  <2> QED
    BY <2>2
<1>3. ASSUME Ahead(r, t, u), Head(q).type # u PROVE Ahead(q, t, u)
  <2> SUFFICES ASSUME NEW k \in 1 .. Len(q), NEW l \in 1 .. Len(q),
                      q[k].type = t, q[l].type = u
               PROVE  k < l
    BY DEF Ahead
  <2>1. l # 1 /\ l - 1 \in 1 .. Len(r) /\ r[l - 1].type = u
    BY <1>1, <1>3
  <2>2. CASE k = 1
    BY <1>1, <2>1, <2>2
  <2>3. CASE k # 1
    <3>1. k - 1 \in 1 .. Len(r) /\ r[k - 1].type = t
      BY <1>1, <2>3
    <3>2. k - 1 < l - 1
      BY <1>3, <2>1, <3>1 DEF Ahead
    <3> QED
      BY <3>2
  <2> QED
    BY <2>2, <2>3
<1>4. ASSUME Ahead(q, t, u), Head(q).type = u PROVE Count(q, t) = 0
  <2>1. \A k \in 1 .. Len(q) : q[k].type # t
    <3> SUFFICES ASSUME NEW k \in 1 .. Len(q), q[k].type = t PROVE FALSE
      OBVIOUS
    <3>1. 1 \in 1 .. Len(q) /\ q[1].type = u
      BY <1>1, <1>4
    <3>2. k < 1
      BY <1>4, <3>1 DEF Ahead
    <3> QED
      BY <3>2
  <2> QED
    BY <2>1, CountType DEF Places
<1> QED
  BY <1>2, <1>3, <1>4 DEF r

-----------------------------------------------------------------------------
\* Two types cannot both be ahead of the other.
LEMMA AheadOneWay ==
  ASSUME NEW S, NEW q \in Seq(S), NEW t, NEW u, Count(q, t) > 0, Count(q, u) > 0,
         Ahead(q, t, u)
  PROVE  ~Ahead(q, u, t)
<1>1. PICK k \in 1 .. Len(q) : q[k].type = t
  <2>1. Places(q, t) # {}
    <3>1. Count(q, t) = 0 <=> Places(q, t) = {}
      BY CountType
    <3> QED
      BY <3>1
  <2> QED
    BY <2>1 DEF Places
<1>2. PICK l \in 1 .. Len(q) : q[l].type = u
  <2>1. Places(q, u) # {}
    <3>1. Count(q, u) = 0 <=> Places(q, u) = {}
      BY CountType
    <3> QED
      BY <3>1
  <2> QED
    BY <2>1 DEF Places
<1>3. k < l
  BY <1>1, <1>2 DEF Ahead
<1>4. Ahead(q, u, t) => l < k
  BY <1>1, <1>2 DEF Ahead
<1>5. k \in Int /\ l \in Int
  OBVIOUS
<1> QED
  BY <1>3, <1>4, <1>5

\* A stream of messages of two types is no longer than their counts.
LEMMA LengthOfTwo ==
  ASSUME NEW S, NEW q \in Seq(S), NEW t, NEW u,
         \A m \in S : m.type \notin {t, u} => Count(q, m.type) = 0
  PROVE  Len(q) <= Count(q, t) + Count(q, u)
<1>1. /\ IsFiniteSet(Places(q, t)) /\ Count(q, t) \in Nat
      /\ IsFiniteSet(Places(q, u)) /\ Count(q, u) \in Nat
      /\ \A v : Count(q, v) = 0 <=> Places(q, v) = {}
  BY CountType
<1>2. Len(q) \in Nat /\ \A k \in 1 .. Len(q) : q[k] \in S
  BY LenProperties, ElementOfSeq
<1>3. 1 .. Len(q) = Places(q, t) \union Places(q, u)
  BY <1>1, <1>2 DEF Places
<1>4. Cardinality(1 .. Len(q)) = Len(q)
  <2>1. Cardinality(1 .. Len(q)) = IF 1 > Len(q) THEN 0 ELSE Len(q) - 1 + 1
    <3>1. 1 \in Int /\ Len(q) \in Int
      BY <1>2
    <3> QED
      BY <3>1, FS_Interval
  <2> QED
    BY <1>2, <2>1
<1>5. /\ Cardinality(Places(q, t) \union Places(q, u))
           = Count(q, t) + Count(q, u) - Cardinality(Places(q, t) \cap Places(q, u))
      /\ Cardinality(Places(q, t) \cap Places(q, u)) \in Nat
  BY <1>1, FS_Union, FS_Intersection, FS_CardinalityType DEF Count
<1>6. Len(q) = Count(q, t) + Count(q, u) - Cardinality(Places(q, t) \cap Places(q, u))
  BY <1>3, <1>4, <1>5
<1> QED
  BY <1>1, <1>5, <1>6

-----------------------------------------------------------------------------
(***************************************************************************)
(* Induction up to a number.                                               *)
(***************************************************************************)

\* Induction up to n: a set that has zero, and with each number below n the
\* next one, has n.  Else what it lacks could be moved down by one, and would
\* leave n free.
LEMMA Climb ==
  ASSUME NEW n \in Nat, NEW S, 0 \in S,
         \A k \in 0 .. n : k < n /\ k \in S => k + 1 \in S
  PROVE  n \in S
<1>1. SUFFICES ASSUME n \notin S PROVE FALSE
  OBVIOUS
<1> DEFINE T == {k \in 0 .. n : k \notin S}
           U == T \ {n}
           f == [k \in T |-> k - 1]
<1>2. IsFiniteSet(0 .. n)
  BY FS_Interval
<1>3. IsFiniteSet(T) /\ n \in T
  BY <1>1, <1>2, FS_Subset
<1>4. IsFiniteSet(U) /\ Cardinality(U) < Cardinality(T)
  <2> HIDE DEF T
  <2>1. /\ IsFiniteSet(U)
        /\ Cardinality(U) = Cardinality(T) - 1
    BY <1>3, FS_RemoveElement
  <2>2. Cardinality(T) \in Nat
    BY <1>3, FS_CardinalityType
  <2> HIDE DEF U
  <2> QED
    BY <2>1, <2>2
<1>5. f \in [T -> U]
  <2>1. \A k \in T : k - 1 \in U
    <3> TAKE k \in T
    <3>1. k \in 0 .. n /\ k # 0
      OBVIOUS
    <3>2. k - 1 \in 0 .. n /\ k - 1 < n /\ k - 1 + 1 = k
      BY <3>1
    <3> QED
      BY <3>2
  <2> QED
    BY <2>1
<1> QED
  <2>1. PICK k, l \in T : k # l /\ f[k] = f[l]
    <3> HIDE DEF T, U, f
    <3> QED
      BY <1>3, <1>4, <1>5, FS_PigeonHole
  <2> QED
    BY <2>1

\* Some number of a set is the least.
LEMMA Least ==
  ASSUME NEW n \in Nat, NEW I \in SUBSET (0 .. n), I # {}
  PROVE  \E x \in I : \A y \in I : x <= y
<1>1. SUFFICES ASSUME ~ \E x \in I : \A y \in I : x <= y PROVE FALSE
  OBVIOUS
<1> DEFINE S == {k \in 0 .. n : \A j \in 0 .. k : j \notin I}
<1>2. 0 \in S
  <2>1. \A y \in I : 0 <= y
    OBVIOUS
  <2>2. 0 \notin I
    BY <1>1, <2>1
  <2>3. \A j \in 0 .. 0 : j = 0
    OBVIOUS
  <2> QED
    BY <2>2, <2>3
<1>3. ASSUME NEW k \in 0 .. n, k < n, k \in S PROVE k + 1 \in S
  <2>1. \A j \in 0 .. k : j \notin I
    BY <1>3
  <2>2. ASSUME k + 1 \in I PROVE FALSE
    <3>1. \A y \in I : k + 1 <= y
      <4>1. ASSUME NEW y \in I, ~(k + 1 <= y) PROVE FALSE
        <5>1. y \in 0 .. k
          BY <4>1
        <5> QED
          BY <2>1, <5>1
      <4> QED
        BY <4>1
    <3> QED
      BY <1>1, <2>2, <3>1
  <2>3. \A j \in 0 .. k + 1 : j \in 0 .. k \/ j = k + 1
    OBVIOUS
  <2>4. \A j \in 0 .. k + 1 : j \notin I
    BY <2>1, <2>2, <2>3
  <2> QED
    BY <1>3, <2>4
<1>4. n \in S
  <2> HIDE DEF S
  <2> QED
    BY <1>2, <1>3, Climb
<1>5. PICK y \in I : TRUE
  OBVIOUS
<1>6. y \in 0 .. n
  BY <1>5
<1> QED
  BY <1>4, <1>5, <1>6

\* And some number the greatest.
LEMMA Greatest ==
  ASSUME NEW n \in Nat, NEW I \in SUBSET (0 .. n), I # {}
  PROVE  \E x \in I : \A y \in I : x >= y
<1> DEFINE J == {k \in 0 .. n : n - k \in I}
<1>1. J # {}
  <2>1. PICK y \in I : TRUE
    OBVIOUS
  <2>2. n - y \in 0 .. n /\ n - (n - y) = y
    BY <2>1
  <2> QED
    BY <2>1, <2>2
<1>2. PICK x \in J : \A y \in J : x <= y
  <2>1. J \in SUBSET (0 .. n)
    OBVIOUS
  <2> HIDE DEF J
  <2> QED
    BY <1>1, <2>1, Least
<1>3. n - x \in I /\ x \in 0 .. n
  BY <1>2
<1>4. ASSUME NEW y \in I PROVE n - x >= y
  <2>1. y \in 0 .. n
    OBVIOUS
  <2>2. n - y \in J
    <3>1. n - y \in 0 .. n /\ n - (n - y) = y
      BY <2>1
    <3> QED
      BY <3>1
  <2>3. x <= n - y
    BY <1>2, <2>2
  <2> QED
    BY <1>3, <2>1, <2>3
<1> QED
  BY <1>3, <1>4

=============================================================================
