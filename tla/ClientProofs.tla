----------------------------- MODULE ClientProofs -----------------------------
(* Theorems about three modules of a browser's side: ContentProvider, for   *)
(* any documents, files and paths, Provider, and ConflictDiff, for any      *)
(* notebooks.                                                               *)
EXTENDS ContentProvider, Provider, ConflictDiff, SequenceTheorems, FiniteSetTheorems,
        WellFoundedInduction, TLAPS

\* A set of natural numbers that is not empty has a least one.
LEMMA Least ==
  ASSUME NEW T, T \subseteq Nat, T # {}
  PROVE  \E x \in T : \A y \in T : x <= y
<1> DEFINE Less == {ss \in Nat \X Nat : ss[1] < ss[2]}
<1>1. IsWellFoundedOn(Less, Nat)
  BY NatLessThanWellFounded DEF OpToRel
<1>2. \A x, y \in Nat : <<y, x>> \notin Less => x <= y
  OBVIOUS
<1> HIDE DEF Less
<1>3. PICK x \in T : \A y \in T : <<y, x>> \notin Less
  BY <1>1, WFMin
<1>4. ASSUME NEW y \in T PROVE x <= y
  BY <1>2, <1>3
<1> QED
  BY <1>4

-----------------------------------------------------------------------------
(* The longest common subsequence (_lcs), for lists of any length          *)

Squares(a, b) == (0 .. Len(a)) \X (0 .. Len(b))

\* The neighbours of a square are on earlier diagonals.
LEMMA Neighbours ==
  ASSUME NEW a, NEW b, Len(a) \in Nat, Len(b) \in Nat, NEW p \in Squares(a, b)
  PROVE  /\ p[1] \in Nat /\ p[2] \in Nat /\ p[1] <= Len(a) /\ p[2] <= Len(b)
         /\ p[1] # 0 => <<p[1] - 1, p[2]>> \in Squares(a, b)
         /\ p[2] # 0 => <<p[1], p[2] - 1>> \in Squares(a, b)
         /\ p[1] # 0 /\ p[2] # 0 => <<p[1] - 1, p[2] - 1>> \in Squares(a, b)
<1>2. p[1] \in 0 .. Len(a) /\ p[2] \in 0 .. Len(b) /\ p = <<p[1], p[2]>>
  BY DEF Squares
<1>3. \A i \in 0 .. Len(a), j \in 0 .. Len(b) : <<i, j>> \in Squares(a, b)
  BY DEF Squares
<1>4. /\ p[1] # 0 => p[1] - 1 \in 0 .. Len(a)
      /\ p[2] # 0 => p[2] - 1 \in 0 .. Len(b)
  BY <1>2
<1> QED
  BY <1>2, <1>3, <1>4

\* What either table has at a square, from its neighbours.
LengthAt(a, b, f, p) ==
  LET i == p[1]  j == p[2]
  IN IF i = 0 \/ j = 0 THEN 0
     ELSE IF a[i] = b[j] THEN f[<<i - 1, j - 1>>] + 1
     ELSE IF f[<<i - 1, j>>] > f[<<i, j - 1>>] THEN f[<<i - 1, j>>] ELSE f[<<i, j - 1>>]
PairsAt(a, b, dp, f, p) ==
  LET i == p[1]  j == p[2]
  IN IF i = 0 \/ j = 0 THEN <<>>
     ELSE IF a[i] = b[j] THEN Append(f[<<i - 1, j - 1>>], <<i, j>>)
     ELSE IF Leaves(dp, i, j) THEN f[<<i - 1, j>>] ELSE f[<<i, j - 1>>]

\* The table of lengths is one that its rule defines: a table that follows the
\* rule up to a diagonal can be continued to the next.
LEMMA LengthsRule ==
  ASSUME NEW a, NEW b, Len(a) \in Nat, Len(b) \in Nat
  PROVE  \A p \in Squares(a, b) : Lengths(a, b)[p] = LengthAt(a, b, Lengths(a, b), p)
<1> DEFINE Rule(f) == [p \in Squares(a, b) |-> LengthAt(a, b, f, p)]
           Good(f, k) == \A p \in Squares(a, b) : p[1] + p[2] <= k => f[p] = LengthAt(a, b, f, p)
           T == {k \in Nat : ~\E f : Good(f, k)}
<1>0. /\ Len(a) \in Nat /\ Len(b) \in Nat
      /\ \A p \in Squares(a, b) : p[1] \in Nat /\ p[2] \in Nat /\ p[1] <= Len(a) /\ p[2] <= Len(b)
  <2>1. ASSUME NEW p \in Squares(a, b)
        PROVE  p[1] \in Nat /\ p[2] \in Nat /\ p[1] <= Len(a) /\ p[2] <= Len(b)
    BY Neighbours
  <2> QED
    BY <2>1
<1>1. T = {}
  <2> SUFFICES ASSUME T # {} PROVE FALSE
    OBVIOUS
  <2>1. PICK k \in T : \A l \in T : k <= l
    BY Least
  <2>2. CASE k = 0
    <3> DEFINE g == [p \in Squares(a, b) |-> 0]
    <3>1. Good(g, 0)
      <4>1. ASSUME NEW p \in Squares(a, b), p[1] + p[2] <= 0 PROVE LengthAt(a, b, g, p) = 0
        <5>1. p[1] = 0
          <6>1. p[1] \in Nat /\ p[2] \in Nat
            BY <1>0
          <6>2. \A x, y \in Nat : x + y <= 0 => x = 0
            OBVIOUS
          <6> QED
            BY <4>1, <6>1, <6>2
        <5> QED
          BY <5>1 DEF LengthAt
      <4> QED
        BY <4>1
    <3> QED
      BY <2>2, <3>1
  <2>3. CASE k # 0
    <3>1. k - 1 \in Nat /\ k - 1 \notin T
      BY <2>1, <2>3
    <3>2. PICK f : Good(f, k - 1)
      BY <3>1
    <3> DEFINE g == [p \in Squares(a, b) |-> LengthAt(a, b, f, p)]
    <3>3. \A q \in Squares(a, b) : q[1] + q[2] <= k - 1 => g[q] = f[q]
      BY <3>2
    <3>4. ASSUME NEW p \in Squares(a, b), p[1] + p[2] <= k
          PROVE  LengthAt(a, b, g, p) = LengthAt(a, b, f, p)
      <4>1. CASE p[1] = 0 \/ p[2] = 0
        BY <4>1 DEF LengthAt
      <4>2. CASE p[1] # 0 /\ p[2] # 0
        <5>1. /\ <<p[1] - 1, p[2]>> \in Squares(a, b)
              /\ <<p[1], p[2] - 1>> \in Squares(a, b)
              /\ <<p[1] - 1, p[2] - 1>> \in Squares(a, b)
          BY <4>2, Neighbours
        <5>2. /\ p[1] \in Nat /\ p[2] \in Nat
          BY <1>0
        <5>3. /\ g[<<p[1] - 1, p[2]>>] = f[<<p[1] - 1, p[2]>>]
              /\ g[<<p[1], p[2] - 1>>] = f[<<p[1], p[2] - 1>>]
              /\ g[<<p[1] - 1, p[2] - 1>>] = f[<<p[1] - 1, p[2] - 1>>]
          <6> HIDE DEF g
          <6>1. k \in Nat /\ p[1] - 1 + p[2] <= k - 1 /\ p[1] + (p[2] - 1) <= k - 1
                /\ p[1] - 1 + (p[2] - 1) <= k - 1
            <7>1. k \in Nat /\ p[1] + p[2] <= k
              BY <2>1, <3>4
            <7> HIDE DEF T
            <7> QED
              BY <5>2, <7>1
          <6> QED
            BY <3>3, <5>1, <6>1
        <5> HIDE DEF g
        <5> QED
          BY <4>2, <5>3 DEF LengthAt
      <4> QED
        BY <4>1, <4>2
    <3>5. Good(g, k)
      BY <3>4
    <3> QED
      BY <2>1, <3>5
  <2> QED
    BY <2>2, <2>3
<1>2. PICK f : Good(f, Len(a) + Len(b))
  <2>1. Len(a) + Len(b) \in Nat
    BY <1>0
  <2> QED
    BY <1>1, <2>1
<1> DEFINE g == [p \in Squares(a, b) |-> f[p]]
<1>3. g = Rule(g)
  <2>1. ASSUME NEW p \in Squares(a, b) PROVE f[p] = LengthAt(a, b, g, p)
    <3>1. f[p] = LengthAt(a, b, f, p)
      BY <1>0, <1>2
    <3>2. CASE p[1] = 0 \/ p[2] = 0
      BY <3>1, <3>2 DEF LengthAt
    <3>3. CASE p[1] # 0 /\ p[2] # 0
      <4>1. /\ <<p[1] - 1, p[2]>> \in Squares(a, b)
            /\ <<p[1], p[2] - 1>> \in Squares(a, b)
            /\ <<p[1] - 1, p[2] - 1>> \in Squares(a, b)
        BY <3>3, Neighbours
      <4> QED
        BY <3>1, <3>3, <4>1 DEF LengthAt
    <3> QED
      BY <3>2, <3>3
  <2> QED
    BY <2>1
<1>4. Lengths(a, b) = CHOOSE h : h = Rule(h)
  BY DEF Lengths, LengthAt, Squares
<1> HIDE DEF g
<1>5. Lengths(a, b) = Rule(Lengths(a, b))
  BY <1>3, <1>4
<1> QED
  BY <1>5
\* So is that of the ways back.
LEMMA WayBackRule ==
  ASSUME NEW a, NEW b, Len(a) \in Nat, Len(b) \in Nat
  PROVE  \A p \in Squares(a, b) : WayBack(a, b)[p] = PairsAt(a, b, Lengths(a, b), WayBack(a, b), p)
<1> DEFINE Rule(f) == [p \in Squares(a, b) |-> PairsAt(a, b, Lengths(a, b), f, p)]
           Good(f, k) == \A p \in Squares(a, b) : p[1] + p[2] <= k => f[p] = PairsAt(a, b, Lengths(a, b), f, p)
           T == {k \in Nat : ~\E f : Good(f, k)}
<1>0. /\ Len(a) \in Nat /\ Len(b) \in Nat
      /\ \A p \in Squares(a, b) : p[1] \in Nat /\ p[2] \in Nat /\ p[1] <= Len(a) /\ p[2] <= Len(b)
  <2>1. ASSUME NEW p \in Squares(a, b)
        PROVE  p[1] \in Nat /\ p[2] \in Nat /\ p[1] <= Len(a) /\ p[2] <= Len(b)
    BY Neighbours
  <2> QED
    BY <2>1
<1>1. T = {}
  <2> SUFFICES ASSUME T # {} PROVE FALSE
    OBVIOUS
  <2>1. PICK k \in T : \A l \in T : k <= l
    BY Least
  <2>2. CASE k = 0
    <3> DEFINE g == [p \in Squares(a, b) |-> <<>>]
    <3>1. Good(g, 0)
      <4>1. ASSUME NEW p \in Squares(a, b), p[1] + p[2] <= 0 PROVE PairsAt(a, b, Lengths(a, b), g, p) = <<>>
        <5>1. p[1] = 0
          <6>1. p[1] \in Nat /\ p[2] \in Nat
            BY <1>0
          <6>2. \A x, y \in Nat : x + y <= 0 => x = 0
            OBVIOUS
          <6> QED
            BY <4>1, <6>1, <6>2
        <5> QED
          BY <5>1 DEF PairsAt
      <4> QED
        BY <4>1
    <3> QED
      BY <2>2, <3>1
  <2>3. CASE k # 0
    <3>1. k - 1 \in Nat /\ k - 1 \notin T
      BY <2>1, <2>3
    <3>2. PICK f : Good(f, k - 1)
      BY <3>1
    <3> DEFINE g == [p \in Squares(a, b) |-> PairsAt(a, b, Lengths(a, b), f, p)]
    <3>3. \A q \in Squares(a, b) : q[1] + q[2] <= k - 1 => g[q] = f[q]
      BY <3>2
    <3>4. ASSUME NEW p \in Squares(a, b), p[1] + p[2] <= k
          PROVE  PairsAt(a, b, Lengths(a, b), g, p) = PairsAt(a, b, Lengths(a, b), f, p)
      <4>1. CASE p[1] = 0 \/ p[2] = 0
        BY <4>1 DEF PairsAt
      <4>2. CASE p[1] # 0 /\ p[2] # 0
        <5>1. /\ <<p[1] - 1, p[2]>> \in Squares(a, b)
              /\ <<p[1], p[2] - 1>> \in Squares(a, b)
              /\ <<p[1] - 1, p[2] - 1>> \in Squares(a, b)
          BY <4>2, Neighbours
        <5>2. /\ p[1] \in Nat /\ p[2] \in Nat
          BY <1>0
        <5>3. /\ g[<<p[1] - 1, p[2]>>] = f[<<p[1] - 1, p[2]>>]
              /\ g[<<p[1], p[2] - 1>>] = f[<<p[1], p[2] - 1>>]
              /\ g[<<p[1] - 1, p[2] - 1>>] = f[<<p[1] - 1, p[2] - 1>>]
          <6> HIDE DEF g
          <6>1. k \in Nat /\ p[1] - 1 + p[2] <= k - 1 /\ p[1] + (p[2] - 1) <= k - 1
                /\ p[1] - 1 + (p[2] - 1) <= k - 1
            <7>1. k \in Nat /\ p[1] + p[2] <= k
              BY <2>1, <3>4
            <7> HIDE DEF T
            <7> QED
              BY <5>2, <7>1
          <6> QED
            BY <3>3, <5>1, <6>1
        <5> HIDE DEF g
        <5> QED
          BY <4>2, <5>3 DEF PairsAt
      <4> QED
        BY <4>1, <4>2
    <3>5. Good(g, k)
      BY <3>4
    <3> QED
      BY <2>1, <3>5
  <2> QED
    BY <2>2, <2>3
<1>2. PICK f : Good(f, Len(a) + Len(b))
  <2>1. Len(a) + Len(b) \in Nat
    BY <1>0
  <2> QED
    BY <1>1, <2>1
<1> DEFINE g == [p \in Squares(a, b) |-> f[p]]
<1>3. g = Rule(g)
  <2>1. ASSUME NEW p \in Squares(a, b) PROVE f[p] = PairsAt(a, b, Lengths(a, b), g, p)
    <3>1. f[p] = PairsAt(a, b, Lengths(a, b), f, p)
      BY <1>0, <1>2
    <3>2. CASE p[1] = 0 \/ p[2] = 0
      BY <3>1, <3>2 DEF PairsAt
    <3>3. CASE p[1] # 0 /\ p[2] # 0
      <4>1. /\ <<p[1] - 1, p[2]>> \in Squares(a, b)
            /\ <<p[1], p[2] - 1>> \in Squares(a, b)
            /\ <<p[1] - 1, p[2] - 1>> \in Squares(a, b)
        BY <3>3, Neighbours
      <4> QED
        BY <3>1, <3>3, <4>1 DEF PairsAt
    <3> QED
      BY <3>2, <3>3
  <2> QED
    BY <2>1
<1>4. WayBack(a, b) = CHOOSE h : h = Rule(h)
  BY DEF WayBack, PairsAt, Squares
<1> HIDE DEF g
<1>5. WayBack(a, b) = Rule(WayBack(a, b))
  BY <1>3, <1>4
<1> QED
  BY <1>5

\* A sequence of pairs of the same elements within i and j, both increasing.
Chain(a, b, q, i, j) ==
  /\ q \in Seq(Nat \X Nat)
  /\ \A k \in 1 .. Len(q) : /\ q[k][1] \in 1 .. i /\ q[k][2] \in 1 .. j
                            /\ a[q[k][1]] = b[q[k][2]]
  /\ \A k, l \in 1 .. Len(q) : k < l => q[k][1] < q[l][1] /\ q[k][2] < q[l][2]
\* No more than n pairs within i and j are the same cells in the order of both.
AtMost(a, b, i, j, n) ==
  \A pairs \in SUBSET ((1 .. i) \X (1 .. j)) : Common(pairs, a, b) => Cardinality(pairs) <= n

LEMMA ChainWider ==
  ASSUME NEW a, NEW b, NEW q, NEW i \in Nat, NEW j \in Nat, NEW x \in Nat, NEW y \in Nat,
         Chain(a, b, q, x, y), x <= i, y <= j
  PROVE  Chain(a, b, q, i, j)
<1>1. ASSUME NEW k \in 1 .. Len(q)
      PROVE  q[k][1] \in 1 .. i /\ q[k][2] \in 1 .. j /\ a[q[k][1]] = b[q[k][2]]
  BY DEF Chain
<1> QED
  BY <1>1 DEF Chain

LEMMA ChainAppend ==
  ASSUME NEW a, NEW b, NEW q, NEW i \in Nat \ {0}, NEW j \in Nat \ {0},
         Chain(a, b, q, i - 1, j - 1), a[i] = b[j]
  PROVE  Chain(a, b, Append(q, <<i, j>>), i, j)
<1> DEFINE r == Append(q, <<i, j>>)
<1>1. /\ r \in Seq(Nat \X Nat) /\ Len(r) = Len(q) + 1 /\ Len(q) \in Nat
      /\ \A k \in 1 .. Len(q) : r[k] = q[k]
      /\ r[Len(r)] = <<i, j>>
  BY DEF Chain
<1>2. \A k \in 1 .. Len(r) : k \in 1 .. Len(q) \/ k = Len(r)
  BY <1>1
<1>3. \A k \in 1 .. Len(q) : /\ q[k][1] \in Nat /\ q[k][1] >= 1 /\ q[k][1] < i
                             /\ q[k][2] \in Nat /\ q[k][2] >= 1 /\ q[k][2] < j
                             /\ a[q[k][1]] = b[q[k][2]]
  BY DEF Chain
<1>4. \A k, l \in 1 .. Len(q) : k < l => q[k][1] < q[l][1] /\ q[k][2] < q[l][2]
  BY DEF Chain
<1>8. r[Len(r)][1] = i /\ r[Len(r)][2] = j
  <2>1. <<i, j>>[1] = i /\ <<i, j>>[2] = j
    OBVIOUS
  <2> QED
    BY <1>1, <2>1
<1> HIDE DEF r
<1>5. \A k \in 1 .. Len(r) : r[k][1] \in 1 .. i /\ r[k][2] \in 1 .. j /\ a[r[k][1]] = b[r[k][2]]
  <2>1. ASSUME NEW k \in 1 .. Len(q)
        PROVE  r[k][1] \in 1 .. i /\ r[k][2] \in 1 .. j /\ a[r[k][1]] = b[r[k][2]]
    <3>1. r[k] = q[k]
      BY <1>1
    <3>2. q[k][1] \in 1 .. i /\ q[k][2] \in 1 .. j /\ a[q[k][1]] = b[q[k][2]]
      BY <1>3
    <3> QED
      BY <3>1, <3>2
  <2>2. r[Len(r)][1] \in 1 .. i /\ r[Len(r)][2] \in 1 .. j /\ a[r[Len(r)][1]] = b[r[Len(r)][2]]
    <3>1. i \in 1 .. i /\ j \in 1 .. j
      OBVIOUS
    <3> QED
      BY <1>8, <3>1
  <2> QED
    BY <1>2, <2>1, <2>2
<1>6. ASSUME NEW k \in 1 .. Len(r), NEW l \in 1 .. Len(r), k < l
      PROVE  r[k][1] < r[l][1] /\ r[k][2] < r[l][2]
  <2>1. k \in 1 .. Len(q)
    BY <1>1, <1>6
  <2>2. CASE l \in 1 .. Len(q)
    BY <1>1, <1>4, <1>6, <2>1, <2>2
  <2>3. CASE l = Len(r)
    BY <1>1, <1>3, <1>8, <2>1, <2>3
  <2> QED
    BY <1>2, <2>2, <2>3
<1>7. Chain(a, b, r, i, j)
  BY <1>1, <1>5, <1>6 DEF Chain
<1> QED
  BY <1>7 DEF r

LEMMA AtMostNone ==
  ASSUME NEW a, NEW b, NEW i \in Nat, NEW j \in Nat, i = 0 \/ j = 0
  PROVE  AtMost(a, b, i, j, 0)
<1>1. (1 .. i) \X (1 .. j) = {}
  <2>1. 1 .. i = {} \/ 1 .. j = {}
    OBVIOUS
  <2> QED
    BY <2>1
<1> QED
  BY <1>1, FS_EmptySet DEF AtMost

LEMMA PairsFinite ==
  ASSUME NEW i \in Nat, NEW j \in Nat, NEW P \in SUBSET ((1 .. i) \X (1 .. j))
  PROVE  IsFiniteSet(P) /\ Cardinality(P) \in Nat
<1>1. IsFiniteSet(1 .. i) /\ IsFiniteSet(1 .. j)
  BY FS_Interval
<1>2. IsFiniteSet((1 .. i) \X (1 .. j))
  BY <1>1, FS_Product
<1>3. IsFiniteSet(P)
  BY <1>2, FS_Subset
<1> QED
  BY <1>3, FS_CardinalityType

\* A part of what is common is.
LEMMA CommonPart ==
  ASSUME NEW a, NEW b, NEW P, NEW Q \in SUBSET P, Common(P, a, b)
  PROVE  Common(Q, a, b)
BY DEF Common

\* If the last elements are the same no choice has more than one more with them.
LEMMA AtMostNext ==
  ASSUME NEW a, NEW b, NEW i \in Nat \ {0}, NEW j \in Nat \ {0}, NEW n \in Nat,
         AtMost(a, b, i - 1, j - 1, n)
  PROVE  AtMost(a, b, i, j, n + 1)
<1> SUFFICES ASSUME NEW P \in SUBSET ((1 .. i) \X (1 .. j)), Common(P, a, b)
             PROVE  Cardinality(P) <= n + 1
  BY DEF AtMost
<1> DEFINE LastPair == {p \in P : p[1] = i \/ p[2] = j}
           Small == (1 .. i - 1) \X (1 .. j - 1)
<1>0. \A p \in P : /\ p[1] \in Nat /\ p[1] >= 1 /\ p[1] <= i
                   /\ p[2] \in Nat /\ p[2] >= 1 /\ p[2] <= j
                   /\ p = <<p[1], p[2]>>
  OBVIOUS
<1>1. \A p \in P \ LastPair : p \in Small
  <2>1. ASSUME NEW p \in P \ LastPair PROVE p[1] \in 1 .. i - 1 /\ p[2] \in 1 .. j - 1 /\ p = <<p[1], p[2]>>
    BY <1>0
  <2> QED
    BY <2>1
<1>2. ASSUME NEW p \in LastPair, NEW q \in LastPair PROVE p = q
  <2>1. /\ p[1] < q[1] <=> p[2] < q[2]
        /\ q[1] < p[1] <=> q[2] < p[2]
        /\ p[1] = q[1] <=> p[2] = q[2]
    BY DEF Common
  <2>2. p[1] = q[1] /\ p[2] = q[2]
    BY <1>0, <2>1
  <2> QED
    BY <1>0, <2>2
<1>3. ASSUME NEW Q \in SUBSET P, Q \subseteq Small PROVE Cardinality(Q) \in Nat /\ Cardinality(Q) <= n
  <2>1. Common(Q, a, b)
    BY CommonPart
  <2>2. i - 1 \in Nat /\ j - 1 \in Nat
    OBVIOUS
  <2> QED
    BY <1>3, <2>1, <2>2, PairsFinite DEF AtMost
<1>4. CASE LastPair = {}
  BY <1>1, <1>3, <1>4
<1>5. CASE LastPair # {}
  <2>1. PICK p \in LastPair : TRUE
    BY <1>5
  <2>2. P \ {p} \subseteq Small /\ P \ {p} \in SUBSET P
    BY <1>1, <1>2
  <2>3. IsFiniteSet(P)
    BY PairsFinite
  <2>4. Cardinality(P \ {p}) = Cardinality(P) - 1 /\ Cardinality(P) \in Nat
    BY <2>3, FS_RemoveElement, FS_CardinalityType
  <2>5. Cardinality(P \ {p}) \in Nat /\ Cardinality(P \ {p}) <= n
    BY <1>3, <2>2
  <2> QED
    BY <2>4, <2>5
<1> QED
  BY <1>4, <1>5

\* If they are not, one of them is left out.
LEMMA AtMostOne ==
  ASSUME NEW a, NEW b, NEW i \in Nat \ {0}, NEW j \in Nat \ {0}, NEW n \in Nat, NEW m \in Nat,
         NEW k \in Nat, AtMost(a, b, i - 1, j, n), AtMost(a, b, i, j - 1, m), a[i] # b[j],
         n <= k, m <= k
  PROVE  AtMost(a, b, i, j, k)
<1> SUFFICES ASSUME NEW P \in SUBSET ((1 .. i) \X (1 .. j)), Common(P, a, b)
             PROVE  Cardinality(P) <= k
  BY DEF AtMost
<1>0. \A p \in P : /\ p[1] \in Nat /\ p[1] >= 1 /\ p[1] <= i
                   /\ p[2] \in Nat /\ p[2] >= 1 /\ p[2] <= j
                   /\ p = <<p[1], p[2]>>
  OBVIOUS
<1>1. CASE \A p \in P : p[1] # i
  <2>1. ASSUME NEW p \in P PROVE p \in (1 .. i - 1) \X (1 .. j)
    <3>1. p[1] \in 1 .. i - 1 /\ p[2] \in 1 .. j /\ p = <<p[1], p[2]>>
      BY <1>0, <1>1
    <3> QED
      BY <3>1
  <2>2. Cardinality(P) <= n
    BY <2>1 DEF AtMost
  <2>3. Cardinality(P) \in Nat
    BY PairsFinite
  <2> QED
    BY <2>2, <2>3
<1>2. CASE \E p \in P : p[1] = i
  <2>1. PICK p \in P : p[1] = i
    BY <1>2
  <2>2. p[2] # j
    BY <2>1 DEF Common
  <2>3. ASSUME NEW q \in P PROVE q \in (1 .. i) \X (1 .. j - 1)
    <3>1. /\ p[1] < q[1] <=> p[2] < q[2]
          /\ q[1] < p[1] <=> q[2] < p[2]
          /\ p[1] = q[1] <=> p[2] = q[2]
      BY DEF Common
    <3>2. q[2] # j
      BY <1>0, <2>1, <2>2, <3>1
    <3>3. q[1] \in 1 .. i /\ q[2] \in 1 .. j - 1 /\ q = <<q[1], q[2]>>
      BY <1>0, <3>2
    <3> QED
      BY <3>3
  <2>4. Cardinality(P) <= m
    BY <2>3 DEF AtMost
  <2>5. Cardinality(P) \in Nat
    BY PairsFinite
  <2> QED
    BY <2>4, <2>5
<1> QED
  BY <1>1, <1>2

\* At every square of the tables: the way back from it is a chain as long as
\* the table of lengths says, and no choice has more.
LEMMA Tables ==
  ASSUME NEW a, NEW b, Len(a) \in Nat, Len(b) \in Nat, NEW p \in Squares(a, b)
  PROVE  /\ Chain(a, b, WayBack(a, b)[p], p[1], p[2])
         /\ Len(WayBack(a, b)[p]) = Lengths(a, b)[p]
         /\ AtMost(a, b, p[1], p[2], Lengths(a, b)[p])
<1> DEFINE L == Lengths(a, b)
           W == WayBack(a, b)
           OK(s) == /\ L[s] \in Nat
                    /\ Chain(a, b, W[s], s[1], s[2])
                    /\ Len(W[s]) = L[s]
                    /\ AtMost(a, b, s[1], s[2], L[s])
           T == {k \in Nat : \E s \in Squares(a, b) : s[1] + s[2] = k /\ ~OK(s)}
<1>1. ASSUME NEW s \in Squares(a, b)
      PROVE  /\ s[1] \in Nat /\ s[2] \in Nat
             /\ s[1] # 0 => <<s[1] - 1, s[2]>> \in Squares(a, b)
             /\ s[2] # 0 => <<s[1], s[2] - 1>> \in Squares(a, b)
             /\ s[1] # 0 /\ s[2] # 0 => <<s[1] - 1, s[2] - 1>> \in Squares(a, b)
             /\ L[s] = LengthAt(a, b, L, s)
             /\ W[s] = PairsAt(a, b, L, W, s)
  BY Neighbours, LengthsRule, WayBackRule
<1> HIDE DEF L, W
<1>2. ASSUME NEW s \in Squares(a, b),
             \A r \in Squares(a, b) : r[1] + r[2] < s[1] + s[2] => OK(r)
      PROVE  OK(s)
  <2> DEFINE i == s[1]  j == s[2]
             up == <<i - 1, j>>  left == <<i, j - 1>>  corner == <<i - 1, j - 1>>
  <2>1. i \in Nat /\ j \in Nat
    BY <1>1
  <2>2. CASE i = 0 \/ j = 0
    <3>1. L[s] = 0 /\ W[s] = <<>>
      BY <1>1, <2>2 DEF LengthAt, PairsAt
    <3>2. Chain(a, b, <<>>, i, j)
      BY DEF Chain
    <3> QED
      BY <2>1, <2>2, <3>1, <3>2, AtMostNone
  <2>3. CASE i # 0 /\ j # 0
    <3>1. /\ i \in Nat \ {0} /\ j \in Nat \ {0}
          /\ i - 1 \in Nat /\ j - 1 \in Nat
      BY <2>1, <2>3
    <3>2. /\ up[1] = i - 1 /\ up[2] = j /\ left[1] = i /\ left[2] = j - 1
          /\ corner[1] = i - 1 /\ corner[2] = j - 1
      OBVIOUS
    <3>3. up \in Squares(a, b) /\ left \in Squares(a, b) /\ corner \in Squares(a, b)
      BY <1>1, <2>3
    <3>4. OK(up) /\ OK(left) /\ OK(corner)
      <4>1. i - 1 + j < i + j /\ i + (j - 1) < i + j /\ i - 1 + (j - 1) < i + j
        BY <3>1
      <4> HIDE DEF OK, up, left, corner, i, j
      <4>2. /\ up[1] + up[2] < i + j /\ left[1] + left[2] < i + j /\ corner[1] + corner[2] < i + j
        BY <3>2, <4>1
      <4> QED
        BY <1>2, <3>3, <4>2 DEF i, j
    <3>5. CASE a[i] = b[j]
      <4>1. L[s] = L[corner] + 1 /\ W[s] = Append(W[corner], <<i, j>>)
        BY <1>1, <2>3, <3>5 DEF LengthAt, PairsAt
      <4>2. /\ L[corner] \in Nat /\ Chain(a, b, W[corner], i - 1, j - 1)
            /\ Len(W[corner]) = L[corner] /\ AtMost(a, b, i - 1, j - 1, L[corner])
        BY <3>2, <3>4
      <4> HIDE DEF corner
      <4>3. Chain(a, b, W[s], i, j)
        BY <3>1, <3>5, <4>1, <4>2, ChainAppend
      <4>4. Len(W[s]) = L[corner] + 1
        BY <4>1, <4>2 DEF Chain
      <4>5. AtMost(a, b, i, j, L[corner] + 1)
        BY <3>1, <4>2, AtMostNext
      <4> QED
        BY <4>1, <4>2, <4>3, <4>4, <4>5
    <3>6. CASE a[i] # b[j]
      <4>1. /\ L[s] = IF L[up] > L[left] THEN L[up] ELSE L[left]
            /\ W[s] = IF L[up] > L[left] THEN W[up] ELSE W[left]
        BY <1>1, <2>3, <3>6 DEF LengthAt, PairsAt, Leaves
      <4>2. /\ L[up] \in Nat /\ Chain(a, b, W[up], i - 1, j)
            /\ Len(W[up]) = L[up] /\ AtMost(a, b, i - 1, j, L[up])
            /\ L[left] \in Nat /\ Chain(a, b, W[left], i, j - 1)
            /\ Len(W[left]) = L[left] /\ AtMost(a, b, i, j - 1, L[left])
        BY <3>2, <3>4
      <4> HIDE DEF up, left
      <4>3. L[s] \in Nat /\ Len(W[s]) = L[s] /\ L[up] <= L[s] /\ L[left] <= L[s]
        BY <4>1, <4>2
      <4>4. i - 1 <= i /\ j <= j /\ i <= i /\ j - 1 <= j
        BY <3>1
      <4>5. Chain(a, b, W[up], i, j) /\ Chain(a, b, W[left], i, j)
        <5> HIDE DEF i, j
        <5> QED
          BY <3>1, <4>2, <4>4, ChainWider
      <4>6. AtMost(a, b, i, j, L[s])
        <5> HIDE DEF i, j
        <5> QED
          BY <3>1, <3>6, <4>2, <4>3, AtMostOne
      <4> QED
        BY <4>1, <4>3, <4>5, <4>6
    <3> QED
      BY <3>5, <3>6
  <2> QED
    BY <2>2, <2>3
<1> HIDE DEF OK
<1>5. ASSUME NEW s \in Squares(a, b) PROVE s[1] + s[2] \in Nat
  <2>1. s[1] \in Nat /\ s[2] \in Nat
    BY <1>1
  <2> QED
    BY <2>1
<1>3. T = {}
  <2> SUFFICES ASSUME T # {} PROVE FALSE
    OBVIOUS
  <2>1. PICK k \in T : \A l \in T : k <= l
    BY Least
  <2>2. PICK s \in Squares(a, b) : s[1] + s[2] = k /\ ~OK(s)
    BY <2>1
  <2>3. ASSUME NEW r \in Squares(a, b), r[1] + r[2] < s[1] + s[2] PROVE OK(r)
    <3>1. r[1] + r[2] \in Nat /\ s[1] + s[2] \in Nat
      BY <1>5
    <3>2. r[1] + r[2] \notin T
      BY <2>1, <2>2, <2>3, <3>1
    <3> QED
      BY <3>1, <3>2
  <2> QED
    BY <1>2, <2>2, <2>3
<1>4. OK(p)
  <2>1. p[1] + p[2] \in Nat
    BY <1>5
  <2> QED
    BY <1>3, <2>1
<1> QED
  BY <1>4 DEF OK, L, W

\* What _lcs returns is a chain, and no choice has more.
LEMMA LcsRight ==
  ASSUME NEW a, NEW b, Len(a) \in Nat, Len(b) \in Nat
  PROVE  /\ Chain(a, b, Lcs(a, b), Len(a), Len(b))
         /\ AtMost(a, b, Len(a), Len(b), Len(Lcs(a, b)))
<1> DEFINE p == <<Len(a), Len(b)>>
<1>1. p \in Squares(a, b) /\ p[1] = Len(a) /\ p[2] = Len(b)
  BY DEF Squares
<1>2. Lcs(a, b) = WayBack(a, b)[p]
  BY DEF Lcs
<1> HIDE DEF p
<1> QED
  BY <1>1, <1>2, Tables

\* A list is matched with itself element by element, also if some are the same.
LEMMA LcsSame ==
  ASSUME NEW a, Len(a) \in Nat
  PROVE  Lcs(a, a) = [k \in 1 .. Len(a) |-> <<k, k>>]
<1> DEFINE W == WayBack(a, a)
           Diagonal(n) == [k \in 1 .. n |-> <<k, k>>]
           T == {n \in Nat : n <= Len(a) /\ W[<<n, n>>] # Diagonal(n)}
<1>1. ASSUME NEW n \in 0 .. Len(a)
      PROVE  /\ n = 0 => W[<<n, n>>] = <<>>
             /\ n # 0 => W[<<n, n>>] = Append(W[<<n - 1, n - 1>>], <<n, n>>)
  <2>1. <<n, n>> \in Squares(a, a)
    BY DEF Squares
  <2> HIDE DEF W
  <2>2. W[<<n, n>>] = PairsAt(a, a, Lengths(a, a), W, <<n, n>>)
    BY <2>1, WayBackRule DEF W
  <2> QED
    BY <2>2 DEF PairsAt
<1> HIDE DEF W
<1>2. ASSUME NEW n \in Nat
      PROVE  /\ n = 0 => Diagonal(n) = <<>>
             /\ n # 0 => Diagonal(n) = Append(Diagonal(n - 1), <<n, n>>)
  <2>1. CASE n = 0
    <3>1. Diagonal(0) = <<>>
      OBVIOUS
    <3> QED
      BY <2>1, <3>1
  <2>2. CASE n # 0
    <3> DEFINE d == Diagonal(n - 1)
    <3>1. d \in Seq(Nat \X Nat) /\ Len(d) = n - 1
      BY <2>2
    <3>2. Append(d, <<n, n>>) = [k \in 1 .. n |-> IF k = n THEN <<n, n>> ELSE d[k]]
      BY <2>2, <3>1
    <3>3. \A k \in 1 .. n : k # n => d[k] = <<k, k>>
      BY <2>2
    <3> QED
      BY <2>2, <3>2, <3>3
  <2> QED
    BY <2>1, <2>2
<1>3. T = {}
  <2> SUFFICES ASSUME T # {} PROVE FALSE
    OBVIOUS
  <2>1. PICK n \in T : \A m \in T : n <= m
    BY Least
  <2>0. n \in Nat /\ n \in 0 .. Len(a) /\ W[<<n, n>>] # Diagonal(n)
    BY <2>1
  <2>2. CASE n = 0
    <3> HIDE DEF Diagonal
    <3> QED
      BY <1>1, <1>2, <2>0, <2>2
  <2>3. CASE n # 0
    <3>1. n - 1 \in Nat /\ n - 1 \notin T /\ n \in 0 .. Len(a) /\ n - 1 <= Len(a)
      BY <2>1, <2>3
    <3>2. W[<<n - 1, n - 1>>] = Diagonal(n - 1)
      BY <3>1
    <3> HIDE DEF Diagonal
    <3> QED
      BY <1>1, <1>2, <2>0, <2>3, <3>2
  <2> QED
    BY <2>2, <2>3
<1>4. W[<<Len(a), Len(a)>>] = Diagonal(Len(a))
  BY <1>3
<1> QED
  BY <1>4 DEF W, Lcs

-----------------------------------------------------------------------------
(* Patching (nbdime)                                                       *)

Steps(cells, diff) ==
  LET after[k \in 0 .. Len(diff)] ==
        IF k = 0 THEN [cells |-> <<>>, used |-> 0] ELSE ApplyEntry(cells, after[k - 1], diff[k])
  IN after
StepAt(cells, diff, f, k) ==
  IF k = 0 THEN [cells |-> <<>>, used |-> 0] ELSE ApplyEntry(cells, f[k - 1], diff[k])

LEMMA StepsRule ==
  ASSUME NEW cells, NEW diff, Len(diff) \in Nat, NEW k \in 0 .. Len(diff)
  PROVE  Steps(cells, diff)[k] = StepAt(cells, diff, Steps(cells, diff), k)
<1> DEFINE n == Len(diff)
           Good(f, m) == \A l \in 0 .. n : l <= m => f[l] = StepAt(cells, diff, f, l)
           T == {m \in Nat : ~\E f : Good(f, m)}
           Rule(f) == [l \in 0 .. n |-> StepAt(cells, diff, f, l)]
<1>1. T = {}
  <2> SUFFICES ASSUME T # {} PROVE FALSE
    OBVIOUS
  <2>1. PICK m \in T : \A l \in T : m <= l
    BY Least
  <2>2. CASE m = 0
    <3> DEFINE g == [l \in 0 .. n |-> [cells |-> <<>>, used |-> 0]]
    <3>1. Good(g, 0)
      BY DEF StepAt
    <3> QED
      BY <2>2, <3>1
  <2>3. CASE m # 0
    <3>1. m - 1 \in Nat /\ m - 1 \notin T
      <4>1. m \in Nat
        BY <2>1
      <4> HIDE DEF T
      <4> QED
        BY <2>1, <2>3, <4>1
    <3>2. PICK f : Good(f, m - 1)
      BY <3>1
    <3> DEFINE g == [l \in 0 .. n |-> StepAt(cells, diff, f, l)]
    <3>3. \A l \in 0 .. n : l <= m - 1 => g[l] = f[l]
      BY <3>2
    <3>4. ASSUME NEW l \in 0 .. n, l <= m PROVE StepAt(cells, diff, g, l) = g[l]
      <4>1. g[l] = StepAt(cells, diff, f, l)
        OBVIOUS
      <4>2. l # 0 => g[l - 1] = f[l - 1]
        <5>1. m \in Nat
          BY <2>1
        <5>2. l # 0 => l - 1 \in 0 .. n /\ l - 1 <= m - 1
          BY <3>4, <5>1
        <5> HIDE DEF g
        <5> QED
          BY <3>3, <5>2
      <4> HIDE DEF g
      <4> QED
        BY <4>1, <4>2 DEF StepAt
    <3>5. Good(g, m)
      BY <3>4
    <3> QED
      BY <2>1, <3>5
  <2> QED
    BY <2>2, <2>3
<1>2. PICK f : Good(f, n)
  BY <1>1
<1> DEFINE g == [l \in 0 .. n |-> f[l]]
<1>3. g = Rule(g)
  <2>1. ASSUME NEW l \in 0 .. n PROVE f[l] = StepAt(cells, diff, g, l)
    <3>1. f[l] = StepAt(cells, diff, f, l)
      BY <1>2
    <3>2. l # 0 => g[l - 1] = f[l - 1]
      OBVIOUS
    <3> HIDE DEF g
    <3> QED
      BY <3>1, <3>2 DEF StepAt
  <2> QED
    BY <2>1
<1>4. Steps(cells, diff) = CHOOSE h : h = Rule(h)
  BY DEF Steps, StepAt
<1> HIDE DEF g
<1>5. Steps(cells, diff) = Rule(Steps(cells, diff))
  BY <1>3, <1>4
<1> QED
  BY <1>5

LEMMA AppliedNone ==
  ASSUME NEW cells
  PROVE  Applied(cells, <<>>) = [cells |-> <<>>, used |-> 0]
<1>1. Len(<<>>) = 0
  OBVIOUS
<1>2. Applied(cells, <<>>) = Steps(cells, <<>>)[0]
  BY <1>1 DEF Applied, Steps
<1>3. Steps(cells, <<>>)[0] = StepAt(cells, <<>>, Steps(cells, <<>>), 0)
  BY <1>1, StepsRule
<1> QED
  BY <1>2, <1>3 DEF StepAt

\* One more entry is applied to what those before it make.
LEMMA AppliedOne ==
  ASSUME NEW cells, NEW S, NEW diff \in Seq(S), NEW e
  PROVE  Applied(cells, diff \o <<e>>) = ApplyEntry(cells, Applied(cells, diff), e)
<1> DEFINE d == diff \o <<e>>
           n == Len(diff)
           T == {k \in Nat : k <= n /\ Steps(cells, d)[k] # Steps(cells, diff)[k]}
<1>1. /\ n \in Nat /\ Len(d) = n + 1 /\ d[n + 1] = e
      /\ \A k \in 1 .. n : d[k] = diff[k]
  OBVIOUS
<1> HIDE DEF d, n
<1>2. \A k \in 0 .. n + 1 : Steps(cells, d)[k] = StepAt(cells, d, Steps(cells, d), k)
  BY <1>1, StepsRule
<1>3. \A k \in 0 .. n : Steps(cells, diff)[k] = StepAt(cells, diff, Steps(cells, diff), k)
  BY <1>1, StepsRule DEF n
<1>4. T = {}
  <2> SUFFICES ASSUME T # {} PROVE FALSE
    OBVIOUS
  <2>1. PICK k \in T : \A l \in T : k <= l
    BY Least
  <2>2. k \in 0 .. n /\ k \in 0 .. n + 1
    BY <1>1, <2>1
  <2>3. CASE k = 0
    BY <1>2, <1>3, <2>1, <2>2, <2>3 DEF StepAt
  <2>4. CASE k # 0
    <3>1. k - 1 \in Nat /\ k - 1 \notin T /\ k - 1 <= n /\ k \in 1 .. n
      BY <1>1, <2>1, <2>2, <2>4
    <3>2. Steps(cells, d)[k - 1] = Steps(cells, diff)[k - 1]
      BY <3>1
    <3> QED
      BY <1>1, <1>2, <1>3, <2>1, <2>2, <2>4, <3>1, <3>2 DEF StepAt
  <2> QED
    BY <2>3, <2>4
<1>5. Steps(cells, d)[n] = Steps(cells, diff)[n]
  BY <1>1, <1>4
<1>6. Steps(cells, d)[n + 1] = ApplyEntry(cells, Steps(cells, d)[n], e)
  <2>1. n + 1 \in 0 .. n + 1 /\ n + 1 # 0 /\ (n + 1) - 1 = n
    BY <1>1
  <2> QED
    BY <1>1, <1>2, <2>1 DEF StepAt
<1>7. /\ Applied(cells, d) = Steps(cells, d)[n + 1]
      /\ Applied(cells, diff) = Steps(cells, diff)[n]
  BY <1>1 DEF Applied, Steps, n
<1> QED
  BY <1>5, <1>6, <1>7 DEF d

\* Cells a diff may make, its entries, and what has been made.
AnyMetadata == {c.metadata : c \in Cells}
AnyCell == Cells \cup UNION {{[c EXCEPT !.metadata = m] : c \in Cells} : m \in AnyMetadata}
Entry ==
  [op : {"removerange"}, key : Nat, length : Nat]
    \cup [op : {"addrange"}, key : Nat, valuelist : Seq(Cells)]
    \cup [op : {"patch"}, key : Nat, metadata : AnyMetadata]
Patch == [cells : Seq(AnyCell), used : Nat]
\* What the first n cells are after it.
Made(cells, patch, n) == patch.cells \o SubSeq(cells, patch.used + 1, n)
\* The comparison sees no difference.
Like(s, t) ==
  /\ Len(s) = Len(t)
  /\ \A i \in 1 .. Len(s) : s[i].id = t[i].id /\ s[i].source = t[i].source /\ s[i].metadata = t[i].metadata

LEMMA Slice ==
  ASSUME NEW B \in Seq(Cells), NEW m \in Nat, NEW n \in 0 .. Len(B)
  PROVE  /\ SubSeq(B, m + 1, n) \in Seq(Cells)
         /\ SubSeq(B, m + 1, n) \in Seq(AnyCell)
<1>1. \A i \in m + 1 .. n : B[i] \in Cells
  OBVIOUS
<1>2. SubSeq(B, m + 1, n) \in Seq(Cells)
  BY <1>1, SubSeqProperties
<1>3. Cells \subseteq AnyCell
  BY DEF AnyCell
<1> QED
  BY <1>2, <1>3, SeqMonotonic

LEMMA MadeType ==
  ASSUME NEW B \in Seq(Cells), NEW F \in Patch, NEW n \in 0 .. Len(B)
  PROVE  Made(B, F, n) \in Seq(AnyCell)
<1>1. F.cells \in Seq(AnyCell) /\ F.used \in Nat
  BY DEF Patch
<1>2. SubSeq(B, F.used + 1, n) \in Seq(AnyCell)
  BY <1>1, Slice
<1> QED
  BY <1>1, <1>2, ConcatProperties DEF Made

\* Nothing is added when all has been used.
LEMMA MadeUsed ==
  ASSUME NEW B, NEW F \in Patch, NEW n \in Nat, n <= F.used
  PROVE  Made(B, F, n) = F.cells
<1>1. F.cells \in Seq(AnyCell) /\ F.used \in Nat
  BY DEF Patch
<1>2. SubSeq(B, F.used + 1, n) = <<>>
  BY <1>1, SubSeqEmpty
<1> QED
  BY <1>1, <1>2, ConcatEmptySeq DEF Made

LEMMA LikeConcat ==
  ASSUME NEW S, NEW s \in Seq(S), NEW t \in Seq(S), NEW u \in Seq(S), NEW v \in Seq(S),
         Like(s, t), Like(u, v)
  PROVE  Like(s \o u, t \o v)
<1>1. /\ Len(s) \in Nat /\ Len(u) \in Nat /\ Len(t) = Len(s) /\ Len(v) = Len(u)
      /\ Len(s \o u) = Len(s) + Len(u) /\ Len(t \o v) = Len(s) + Len(u)
      /\ \A i \in 1 .. Len(s) + Len(u) : (s \o u)[i] = IF i <= Len(s) THEN s[i] ELSE u[i - Len(s)]
      /\ \A i \in 1 .. Len(s) + Len(u) : (t \o v)[i] = IF i <= Len(s) THEN t[i] ELSE v[i - Len(s)]
  <2>1. Len(s) \in Nat /\ Len(u) \in Nat /\ Len(t) = Len(s) /\ Len(v) = Len(u)
    BY LenProperties DEF Like
  <2>2. /\ Len(s \o u) = Len(s) + Len(u)
        /\ \A i \in 1 .. Len(s) + Len(u) : (s \o u)[i] = IF i <= Len(s) THEN s[i] ELSE u[i - Len(s)]
    BY ConcatProperties
  <2>3. /\ Len(t \o v) = Len(t) + Len(v)
        /\ \A i \in 1 .. Len(t) + Len(v) : (t \o v)[i] = IF i <= Len(t) THEN t[i] ELSE v[i - Len(t)]
    BY ConcatProperties
  <2> QED
    BY <2>1, <2>2, <2>3
<1>2. ASSUME NEW i \in 1 .. Len(s) + Len(u)
      PROVE  /\ (s \o u)[i].id = (t \o v)[i].id
             /\ (s \o u)[i].source = (t \o v)[i].source
             /\ (s \o u)[i].metadata = (t \o v)[i].metadata
  <2>1. CASE i <= Len(s)
    <3>1. i \in 1 .. Len(s) /\ (s \o u)[i] = s[i] /\ (t \o v)[i] = t[i]
      BY <1>1, <2>1
    <3> QED
      BY <3>1 DEF Like
  <2>2. CASE ~(i <= Len(s))
    <3>1. i - Len(s) \in 1 .. Len(u) /\ (s \o u)[i] = u[i - Len(s)] /\ (t \o v)[i] = v[i - Len(s)]
      BY <1>1, <2>2
    <3> QED
      BY <3>1 DEF Like
  <2> QED
    BY <2>1, <2>2
<1> QED
  BY <1>1, <1>2 DEF Like

\* Shown tells cells apart as the comparison does.
LEMMA ShownLike ==
  ASSUME NEW S, NEW s \in Seq(S), NEW t \in Seq(S)
  PROVE  Shown(s) = Shown(t) <=> Like(s, t)
<1> DEFINE Fields(c) == [id |-> c.id, source |-> c.source, metadata |-> c.metadata]
<1>1. /\ Len(s) \in Nat /\ DOMAIN s = 1 .. Len(s)
      /\ Len(t) \in Nat /\ DOMAIN t = 1 .. Len(t)
  BY LenProperties
<1>2. /\ Shown(s) = [i \in 1 .. Len(s) |-> Fields(s[i])]
      /\ Shown(t) = [i \in 1 .. Len(t) |-> Fields(t[i])]
  BY <1>1 DEF Shown
<1>3. \A c, d : Fields(c) = Fields(d) <=> c.id = d.id /\ c.source = d.source /\ c.metadata = d.metadata
  OBVIOUS
<1> HIDE DEF Fields
<1>4. ASSUME Shown(s) = Shown(t) PROVE Like(s, t)
  <2>1. DOMAIN Shown(s) = 1 .. Len(s) /\ DOMAIN Shown(t) = 1 .. Len(t)
    BY <1>2
  <2>2. Len(s) = Len(t)
    <3>1. 1 .. Len(s) = 1 .. Len(t)
      BY <1>4, <2>1
    <3>2. \A m, n \in Nat : 1 .. m = 1 .. n => m = n
      <4>1. ASSUME NEW m \in Nat, NEW n \in Nat, 1 .. m = 1 .. n, m < n PROVE FALSE
        <5>1. n \in 1 .. n /\ n \notin 1 .. m
          BY <4>1
        <5> QED
          BY <4>1, <5>1
      <4>2. \A m, n \in Nat : m < n \/ n < m \/ m = n
        OBVIOUS
      <4> QED
        BY <4>1, <4>2
    <3> QED
      BY <1>1, <3>1, <3>2
  <2>3. ASSUME NEW i \in 1 .. Len(s) PROVE Fields(s[i]) = Fields(t[i])
    <3>1. Shown(s)[i] = Fields(s[i]) /\ Shown(t)[i] = Fields(t[i])
      BY <1>2, <2>2
    <3> QED
      BY <1>4, <3>1
  <2> QED
    BY <1>3, <2>2, <2>3 DEF Like
<1>5. ASSUME Like(s, t) PROVE Shown(s) = Shown(t)
  <2>1. Len(s) = Len(t) /\ \A i \in 1 .. Len(s) : Fields(s[i]) = Fields(t[i])
    BY <1>3, <1>5 DEF Like
  <2> QED
    BY <1>2, <2>1
<1> QED
  BY <1>4, <1>5

LEMMA ApplyRemove ==
  ASSUME NEW B, NEW F \in Patch, NEW k \in Nat, NEW n \in Nat \ {0}, F.used <= k + n
  PROVE  ApplyEntry(B, F, [op |-> "removerange", key |-> k, length |-> n])
           = [cells |-> Made(B, F, k), used |-> k + n]
<1>1. F.used \in Nat
  BY DEF Patch
<1>2. (IF k + n > F.used THEN k + n ELSE F.used) = k + n
  BY <1>1
<1> QED
  BY <1>2 DEF ApplyEntry, Made

\* The entries between two matches, after those that have made F of the cells
\* before: the cells of the server's notebook go, those of the local one come.
LEMMA RemoveMakes ==
  ASSUME NEW B \in Seq(Cells), NEW d \in Seq(Entry), NEW k \in Nat, NEW i \in k .. Len(B),
         Applied(B, d) \in Patch, Applied(B, d).used <= k
  PROVE  /\ RemoveRange(k, i - k) \in Seq(Entry)
         /\ LET F == Applied(B, d)  G == Applied(B, d \o RemoveRange(k, i - k))
            IN /\ G \in Patch /\ G.used <= i
               /\ G.used = i \/ k = i
               /\ Made(B, G, k) = Made(B, F, k)
<1> DEFINE F == Applied(B, d)
           G == Applied(B, d \o RemoveRange(k, i - k))
           e == [op |-> "removerange", key |-> k, length |-> i - k]
<1>0. i \in Nat /\ i - k \in Nat /\ k \in 0 .. Len(B) /\ Len(B) \in Nat
  OBVIOUS
<1>1. CASE i = k
  <2>1. RemoveRange(k, i - k) = <<>>
    BY <1>1 DEF RemoveRange
  <2>2. d \o <<>> = d
    BY ConcatEmptySeq
  <2>3. G = F
    BY <2>1, <2>2
  <2>4. RemoveRange(k, i - k) \in Seq(Entry)
    BY <2>1, EmptySeq
  <2> QED
    BY <1>1, <2>3, <2>4
<1>2. CASE i # k
  <2>1. RemoveRange(k, i - k) = <<e>>
    BY <1>0, <1>2 DEF RemoveRange
  <2>2. i - k \in Nat \ {0} /\ k + (i - k) = i
    BY <1>0, <1>2
  <2>3. e \in Entry
    BY <2>2 DEF Entry
  <2>4. F \in Patch /\ F.used \in Nat /\ F.used <= k
    BY DEF Patch
  <2> HIDE DEF F
  <2>5. G = ApplyEntry(B, F, e)
    BY <2>1, AppliedOne DEF F
  <2>6. G = [cells |-> Made(B, F, k), used |-> i]
    <3>1. F.used <= k + (i - k)
      BY <1>0, <2>2, <2>4
    <3> DEFINE n == i - k
    <3>2. n \in Nat \ {0} /\ k + n = i /\ e = [op |-> "removerange", key |-> k, length |-> n]
      BY <2>2
    <3> HIDE DEF n, e
    <3>3. F.used <= k + n
      BY <3>1 DEF n
    <3>4. ApplyEntry(B, F, [op |-> "removerange", key |-> k, length |-> n])
            = [cells |-> Made(B, F, k), used |-> k + n]
      BY <2>4, <3>2, <3>3, ApplyRemove
    <3> QED
      BY <2>5, <3>2, <3>4
  <2> HIDE DEF G, e
  <2>7. Made(B, F, k) \in Seq(AnyCell)
    BY <1>0, <2>4, MadeType
  <2>8. G \in Patch /\ G.used = i
    BY <1>0, <2>6, <2>7 DEF Patch
  <2>9. Made(B, G, k) = Made(B, F, k)
    BY <1>0, <2>6, <2>8, MadeUsed
  <2>10. RemoveRange(k, i - k) \in Seq(Entry)
    <3>1. <<e>> \in Seq(Entry)
      BY <2>3
    <3> QED
      BY <2>1, <3>1
  <2> QED
    BY <1>0, <2>8, <2>9, <2>10 DEF F, G
<1> QED
  BY <1>1, <1>2

LEMMA AddMakes ==
  ASSUME NEW B \in Seq(Cells), NEW d \in Seq(Entry), NEW k \in Nat, NEW i \in k .. Len(B),
         NEW V \in Seq(Cells), Applied(B, d) \in Patch, Applied(B, d).used <= i,
         Applied(B, d).used = i \/ k = i
  PROVE  /\ AddRange(k, V) \in Seq(Entry)
         /\ LET F == Applied(B, d)  G == Applied(B, d \o AddRange(k, V))
            IN G \in Patch /\ G.used <= i /\ Made(B, G, i) = Made(B, F, k) \o V
<1> DEFINE F == Applied(B, d)
           G == Applied(B, d \o AddRange(k, V))
           e == [op |-> "addrange", key |-> k, valuelist |-> V]
<1>0. i \in Nat /\ k \in 0 .. Len(B) /\ i \in 0 .. Len(B) /\ Len(B) \in Nat
  OBVIOUS
<1>1. F \in Patch /\ F.used \in Nat /\ F.used <= i /\ (F.used = i \/ k = i) /\ F.cells \in Seq(AnyCell)
  BY DEF Patch
<1>2. V \in Seq(AnyCell)
  <2>1. Cells \subseteq AnyCell
    BY DEF AnyCell
  <2> QED
    BY <2>1, SeqMonotonic
<1>3. Made(B, F, k) \in Seq(AnyCell) /\ Made(B, F, i) = Made(B, F, k)
  <2> HIDE DEF F
  <2>1. Made(B, F, k) \in Seq(AnyCell)
    BY <1>0, <1>1, MadeType
  <2>2. CASE k = i
    BY <2>1, <2>2
  <2>3. CASE k # i
    <3>1. F.used = i /\ k <= F.used /\ i <= F.used
      BY <1>0, <1>1, <2>3
    <3>2. Made(B, F, k) = F.cells /\ Made(B, F, i) = F.cells
      BY <1>0, <1>1, <3>1, MadeUsed
    <3> QED
      BY <2>1, <3>2
  <2> QED
    BY <2>2, <2>3
<1>4. CASE V = <<>>
  <2>1. AddRange(k, V) = <<>>
    BY <1>4 DEF AddRange
  <2>2. d \o <<>> = d
    BY ConcatEmptySeq
  <2>3. G = F
    BY <2>1, <2>2
  <2>4. AddRange(k, V) \in Seq(Entry)
    BY <2>1
  <2> HIDE DEF F, G
  <2>5. Made(B, F, k) \o V = Made(B, F, k)
    BY <1>3, <1>4, ConcatEmptySeq
  <2>6. G \in Patch /\ G.used <= i /\ Made(B, G, i) = Made(B, F, k) \o V
    BY <1>1, <1>3, <2>3, <2>5
  <2> QED
    BY <2>4, <2>6 DEF F, G
<1>5. CASE V # <<>>
  <2>1. AddRange(k, V) = <<e>> /\ e \in Entry
    BY <1>5 DEF AddRange, Entry
  <2>2. G = ApplyEntry(B, F, e)
    BY <2>1, AppliedOne
  <2> HIDE DEF F
  <2>3. G = [cells |-> Made(B, F, k) \o V, used |-> IF k > F.used THEN k ELSE F.used]
    <3>1. ApplyEntry(B, F, [op |-> "addrange", key |-> k, valuelist |-> V])
            = [cells |-> Made(B, F, k) \o V, used |-> IF k > F.used THEN k ELSE F.used]
      BY DEF ApplyEntry, Made
    <3> HIDE DEF G
    <3> QED
      BY <2>2, <3>1
  <2>4. (IF k > F.used THEN k ELSE F.used) = i
    BY <1>0, <1>1
  <2> HIDE DEF G, e
  <2>5. Made(B, F, k) \o V \in Seq(AnyCell)
    BY <1>2, <1>3, ConcatProperties
  <2>6. G \in Patch /\ G.used = i /\ G.cells = Made(B, F, k) \o V
    BY <1>0, <2>3, <2>4, <2>5 DEF Patch
  <2>7. Made(B, G, i) = G.cells
    BY <1>0, <2>6, MadeUsed
  <2>8. AddRange(k, V) \in Seq(Entry)
    BY <2>1
  <2> QED
    BY <1>0, <2>6, <2>7, <2>8 DEF F, G
<1> QED
  BY <1>4, <1>5

LEMMA BetweenMakes ==
  ASSUME NEW B \in Seq(Cells), NEW d \in Seq(Entry), NEW k \in Nat, NEW i \in k .. Len(B),
         NEW V \in Seq(Cells), Applied(B, d) \in Patch, Applied(B, d).used <= k
  PROVE  LET entries == RemoveRange(k, i - k) \o AddRange(k, V)
             F == Applied(B, d)
             G == Applied(B, d \o entries)
         IN /\ d \o entries \in Seq(Entry)
            /\ G \in Patch /\ G.used <= i
            /\ Made(B, G, i) = Made(B, F, k) \o V
<1> DEFINE Out == RemoveRange(k, i - k)
           In == AddRange(k, V)
           dd == d \o Out
<1>1. /\ Out \in Seq(Entry) /\ Applied(B, dd) \in Patch /\ Applied(B, dd).used <= i
      /\ Applied(B, dd).used = i \/ k = i
      /\ Made(B, Applied(B, dd), k) = Made(B, Applied(B, d), k)
  BY RemoveMakes
<1> HIDE DEF Out
<1>2. dd \in Seq(Entry)
  BY <1>1, ConcatProperties
<1> HIDE DEF dd
<1>3. /\ In \in Seq(Entry) /\ Applied(B, dd \o In) \in Patch /\ Applied(B, dd \o In).used <= i
      /\ Made(B, Applied(B, dd \o In), i) = Made(B, Applied(B, dd), k) \o V
  BY <1>1, <1>2, AddMakes
<1> HIDE DEF In
<1>4. /\ dd \o In \in Seq(Entry)
      /\ dd \o In = d \o (Out \o In)
  BY <1>1, <1>2, <1>3, ConcatProperties, ConcatAssociative DEF dd
<1> QED
  BY <1>1, <1>3, <1>4 DEF Out, In

\* The entries for a cell that both have, with one id, make the local one of it.
LEMMA ChangedMakes ==
  ASSUME NEW B \in Seq(Cells), NEW d \in Seq(Entry), NEW i \in 0 .. Len(B) - 1,
         NEW new \in Cells, B[i + 1].id = new.id,
         Applied(B, d) \in Patch, Applied(B, d).used <= i
  PROVE  LET F == Applied(B, d)
             G == Applied(B, d \o Changed(i, B[i + 1], new))
         IN /\ d \o Changed(i, B[i + 1], new) \in Seq(Entry)
            /\ G \in Patch /\ G.used <= i + 1
            /\ \E c \in AnyCell :
                 /\ Made(B, G, i + 1) = Made(B, F, i) \o <<c>>
                 /\ c.id = new.id /\ c.source = new.source /\ c.metadata = new.metadata
<1> DEFINE old == B[i + 1]
           F == Applied(B, d)
           G == Applied(B, d \o Changed(i, old, new))
<1>0. /\ i \in Nat /\ i + 1 \in Nat /\ i + 1 \in 1 .. Len(B) /\ Len(B) \in Nat
      /\ i \in 0 .. Len(B) /\ i + 1 \in 0 .. Len(B) /\ i + 1 \in i .. Len(B)
  OBVIOUS
<1>1. old \in Cells /\ new \in AnyCell /\ old \in AnyCell
  BY <1>0 DEF AnyCell
<1>2. F \in Patch /\ F.used \in Nat /\ F.used <= i /\ F.cells \in Seq(AnyCell)
  BY DEF Patch
<1>3. CASE old.source # new.source
  <2> DEFINE V == <<new>>
  <2>1. V \in Seq(Cells) /\ V # <<>>
    OBVIOUS
  <2> HIDE DEF V
  <2>2. LET entries == RemoveRange(i, (i + 1) - i) \o AddRange(i, V)
            H == Applied(B, d \o entries)
        IN /\ d \o entries \in Seq(Entry)
           /\ H \in Patch /\ H.used <= i + 1
           /\ Made(B, H, i + 1) = Made(B, F, i) \o V
    BY <1>0, <1>2, <2>1, BetweenMakes
  <2>3. (i + 1) - i = 1
    BY <1>0
  <2>4. Changed(i, old, new) = RemoveRange(i, (i + 1) - i) \o AddRange(i, V)
    BY <1>3, <2>3 DEF Changed, V
  <2> HIDE DEF old, F
  <2>5. /\ d \o Changed(i, old, new) \in Seq(Entry)
        /\ G \in Patch /\ G.used <= i + 1
        /\ Made(B, G, i + 1) = Made(B, F, i) \o <<new>>
    BY <2>2, <2>4 DEF V
  <2> HIDE DEF G
  <2> QED
    BY <1>1, <2>5 DEF old, F, G
<1>4. CASE old.source = new.source /\ old.metadata # new.metadata
  <2> DEFINE c == [old EXCEPT !.metadata = new.metadata]
             e == [op |-> "patch", key |-> i, metadata |-> new.metadata]
  <2>1. Changed(i, old, new) = <<e>>
    BY <1>4 DEF Changed, PatchMetadata
  <2>2. e \in Entry
    BY <1>0 DEF Entry, AnyMetadata
  <2>3. /\ c \in AnyCell
        /\ c.id = new.id /\ c.source = new.source /\ c.metadata = new.metadata
    <3>1. DOMAIN old = {"id", "source", "metadata", "rest"} /\ old.id = new.id
      BY <1>1, CellAssumption
    <3> HIDE DEF old
    <3>2. c \in AnyCell
      <4> DEFINE m == new.metadata
      <4>1. old \in Cells /\ m \in AnyMetadata
        BY <1>1 DEF AnyMetadata
      <4> HIDE DEF m
      <4>2. [old EXCEPT !.metadata = m] \in {[x EXCEPT !.metadata = m] : x \in Cells}
        BY <4>1
      <4>3. [old EXCEPT !.metadata = m] \in AnyCell
        <5> DEFINE C(y) == {[x EXCEPT !.metadata = y] : x \in Cells}
                   z == [old EXCEPT !.metadata = m]
        <5>1. z \in C(m)
          BY <4>2
        <5>2. AnyCell = Cells \cup UNION {C(y) : y \in AnyMetadata}
          BY DEF AnyCell
        <5> HIDE DEF C, z
        <5>3. z \in UNION {C(y) : y \in AnyMetadata}
          BY <4>1, <5>1
        <5>4. z \in AnyCell
          BY <5>2, <5>3
        <5> QED
          BY <5>4 DEF z
      <4> QED
        BY <4>3 DEF m
    <3>3. c.id = old.id /\ c.source = old.source /\ c.metadata = new.metadata
      BY <3>1
    <3> QED
      BY <1>4, <3>1, <3>2, <3>3
  <2>4. G = ApplyEntry(B, F, e)
    BY <2>1, AppliedOne
  <2> HIDE DEF F
  <2>5. G = [cells |-> Append(Made(B, F, i), c), used |-> i + 1]
    <3>1. (IF i + 1 > F.used THEN i + 1 ELSE F.used) = i + 1
      BY <1>0, <1>2
    <3>2. ApplyEntry(B, F, e) = [cells |-> Append(Made(B, F, i), c),
                                 used |-> IF i + 1 > F.used THEN i + 1 ELSE F.used]
      BY DEF ApplyEntry, Made
    <3> HIDE DEF G, e, c
    <3> QED
      BY <2>4, <3>1, <3>2
  <2>6. d \o Changed(i, old, new) \in Seq(Entry)
    <3> HIDE DEF e, old
    <3>1. <<e>> \in Seq(Entry)
      BY <2>2
    <3> QED
      BY <2>1, <3>1, ConcatProperties
  <2> HIDE DEF G, c, e, old
  <2>7. Made(B, F, i) \in Seq(AnyCell)
    BY <1>0, <1>2, MadeType
  <2>8. Append(Made(B, F, i), c) \in Seq(AnyCell) /\ Append(Made(B, F, i), c) = Made(B, F, i) \o <<c>>
    BY <2>3, <2>7, AppendProperties, AppendIsConcat
  <2>9. G \in Patch /\ G.used = i + 1 /\ G.cells = Made(B, F, i) \o <<c>>
    BY <1>0, <2>5, <2>8 DEF Patch
  <2>10. Made(B, G, i + 1) = G.cells /\ G.used <= i + 1
    BY <1>0, <2>9, MadeUsed
  <2>11. \E x \in AnyCell :
           /\ Made(B, G, i + 1) = Made(B, F, i) \o <<x>>
           /\ x.id = new.id /\ x.source = new.source /\ x.metadata = new.metadata
    BY <2>3, <2>9, <2>10
  <2> QED
    BY <2>6, <2>9, <2>10, <2>11 DEF old, F, G
<1>5. CASE old.source = new.source /\ old.metadata = new.metadata
  <2>1. Changed(i, old, new) = <<>>
    BY <1>5 DEF Changed
  <2>2. d \o <<>> = d
    BY ConcatEmptySeq
  <2>3. G = F /\ d \o Changed(i, old, new) \in Seq(Entry)
    BY <2>1, <2>2
  <2> HIDE DEF F, G
  <2>4. F.used + 1 \in 1 .. Len(B) /\ i + 1 \in F.used + 1 .. Len(B) /\ (i + 1) - 1 = i
    BY <1>0, <1>2
  <2>5. SubSeq(B, F.used + 1, i + 1) = SubSeq(B, F.used + 1, (i + 1) - 1) \o <<old>>
    BY <2>4, SubSeqRecursiveSecond
  <2>6. SubSeq(B, F.used + 1, i) \in Seq(AnyCell)
    BY <1>0, <1>2, Slice
  <2>7. Made(B, F, i + 1) = Made(B, F, i) \o <<old>>
    <3> HIDE DEF old
    <3>1. <<old>> \in Seq(AnyCell)
      BY <1>1
    <3>2. SubSeq(B, F.used + 1, i + 1) = SubSeq(B, F.used + 1, i) \o <<old>>
      BY <2>4, <2>5
    <3>3. F.cells \o (SubSeq(B, F.used + 1, i) \o <<old>>) = (F.cells \o SubSeq(B, F.used + 1, i)) \o <<old>>
      <4> DEFINE s == F.cells
                 t == SubSeq(B, F.used + 1, i)
                 u == <<old>>
      <4>1. s \in Seq(AnyCell) /\ t \in Seq(AnyCell) /\ u \in Seq(AnyCell)
        BY <1>2, <2>6, <3>1
      <4> HIDE DEF s, t, u
      <4>2. (s \o t) \o u = s \o (t \o u)
        BY <4>1, ConcatAssociative
      <4> QED
        BY <4>2 DEF s, t, u
    <3> QED
      BY <3>2, <3>3 DEF Made
  <2>8. old.id = new.id
    OBVIOUS
  <2> HIDE DEF old
  <2>9. \E x \in AnyCell :
           /\ Made(B, G, i + 1) = Made(B, F, i) \o <<x>>
           /\ x.id = new.id /\ x.source = new.source /\ x.metadata = new.metadata
    BY <1>1, <1>5, <2>3, <2>7, <2>8
  <2>10. G \in Patch /\ G.used <= i + 1
    BY <1>0, <1>2, <2>3
  <2> QED
    BY <2>3, <2>9, <2>10 DEF old, F, G
<1> QED
  BY <1>3, <1>4, <1>5

-----------------------------------------------------------------------------
(* The loop that writes the diff                                           *)

Stages == {"document", "dialog", "fetch", "diffing", "diff", "end"}
Writing == stage \in {"diffing", "diff"}

DiffTypes ==
  /\ base \in Notebook /\ local \in Notebook /\ stage \in Stages
  /\ Writing \/ stage = "fetch" => remote \in Notebook
  /\ next \in Nat \ {0} /\ bi \in Nat /\ ri \in Nat
  /\ cellsDiff \in Seq(Entry)

\* Before the loop nothing is written; the result is there when it has ended.
Started ==
  /\ ~Writing => next = 1 /\ bi = 0 /\ ri = 0 /\ cellsDiff = <<>>
  /\ topDiff = IF stage = "diff" THEN Top(cellsDiff) ELSE Nothing

\* The cells dealt with are those up to the last match.
AtMatch ==
  Writing =>
    /\ next <= Len(Matches) + 1
    /\ bi = IF next = 1 THEN 0 ELSE Matches[next - 1][1]
    /\ ri = IF next = 1 THEN 0 ELSE Matches[next - 1][2]

\* The entries make of them what the local notebook has.
Reached == IF stage = "diff" THEN Len(base.cells) ELSE bi
ReachedThere == IF stage = "diff" THEN Len(remote.cells) ELSE ri
MadeSoFar ==
  Writing =>
    LET F == Applied(base.cells, cellsDiff)
    IN /\ F \in Patch /\ F.used <= Reached
       /\ Like(Made(base.cells, F, Reached), SubSeq(remote.cells, 1, ReachedThere))

\* Cells that do not differ are not written.
NoneWritten == Writing /\ Like(base.cells, remote.cells) => cellsDiff = <<>>

DiffInv == DiffTypes /\ Started /\ AtMatch /\ MadeSoFar /\ NoneWritten

LEMMA NotebookCells ==
  ASSUME NEW n \in Notebook
  PROVE  /\ n.cells \in Seq(Cells) /\ Len(n.cells) \in Nat /\ DOMAIN n.cells = 1 .. Len(n.cells)
         /\ Len(CellIds(n)) = Len(n.cells) /\ DOMAIN CellIds(n) = 1 .. Len(n.cells)
         /\ \A i \in 1 .. Len(n.cells) : CellIds(n)[i] = n.cells[i].id
<1>1. PICK k \in 0 .. MaxCells : n.cells \in [1 .. k -> Cells]
  BY DEF Notebook
<1>2. k \in Nat
  BY CellsBounded
<1>3. n.cells \in Seq(Cells)
  BY <1>1, <1>2, SeqDef
<1>4. Len(n.cells) \in Nat /\ DOMAIN n.cells = 1 .. Len(n.cells)
  BY <1>3, LenProperties
<1>5. CellIds(n) = [i \in 1 .. Len(n.cells) |-> n.cells[i].id]
  BY <1>4 DEF CellIds
<1> QED
  BY <1>3, <1>4, <1>5

\* The matches are between the cells of both, with one id, and go on in both.
LEMMA MatchesRight ==
  ASSUME base \in Notebook, remote \in Notebook
  PROVE  /\ Matches \in Seq(Nat \X Nat) /\ Len(Matches) \in Nat
         /\ \A k \in 1 .. Len(Matches) :
              /\ Matches[k][1] \in 1 .. Len(base.cells) /\ Matches[k][2] \in 1 .. Len(remote.cells)
              /\ base.cells[Matches[k][1]].id = remote.cells[Matches[k][2]].id
         /\ \A k, l \in 1 .. Len(Matches) :
              k < l => Matches[k][1] < Matches[l][1] /\ Matches[k][2] < Matches[l][2]
<1> DEFINE a == CellIds(base)  b == CellIds(remote)
<1>1. /\ Len(a) = Len(base.cells) /\ Len(base.cells) \in Nat
      /\ \A i \in 1 .. Len(base.cells) : a[i] = base.cells[i].id
  BY NotebookCells
<1>2. /\ Len(b) = Len(remote.cells) /\ Len(remote.cells) \in Nat
      /\ \A i \in 1 .. Len(remote.cells) : b[i] = remote.cells[i].id
  BY NotebookCells
<1> HIDE DEF a, b
<1>3. Chain(a, b, Lcs(a, b), Len(a), Len(b))
  BY <1>1, <1>2, LcsRight
<1>4. Matches = Lcs(a, b)
  BY DEF Matches, a, b
<1>5. Chain(a, b, Matches, Len(base.cells), Len(remote.cells))
  BY <1>1, <1>2, <1>3, <1>4
<1>6. Matches \in Seq(Nat \X Nat) /\ Len(Matches) \in Nat
  BY <1>5 DEF Chain
<1>7. ASSUME NEW k \in 1 .. Len(Matches)
      PROVE  /\ Matches[k][1] \in 1 .. Len(base.cells) /\ Matches[k][2] \in 1 .. Len(remote.cells)
             /\ base.cells[Matches[k][1]].id = remote.cells[Matches[k][2]].id
  <2>1. /\ Matches[k][1] \in 1 .. Len(base.cells) /\ Matches[k][2] \in 1 .. Len(remote.cells)
        /\ a[Matches[k][1]] = b[Matches[k][2]]
    BY <1>5 DEF Chain
  <2> QED
    BY <1>1, <1>2, <2>1
<1>8. \A k, l \in 1 .. Len(Matches) :
        k < l => Matches[k][1] < Matches[l][1] /\ Matches[k][2] < Matches[l][2]
  BY <1>5 DEF Chain
<1> QED
  BY <1>6, <1>7, <1>8

\* Of cells that do not differ every one is matched with its like.
LEMMA MatchesSame ==
  ASSUME base \in Notebook, remote \in Notebook, Like(base.cells, remote.cells)
  PROVE  /\ Len(Matches) = Len(base.cells)
         /\ \A k \in 1 .. Len(Matches) : Matches[k] = <<k, k>>
<1>1. /\ Len(base.cells) \in Nat /\ DOMAIN base.cells = 1 .. Len(base.cells)
      /\ Len(CellIds(base)) = Len(base.cells)
  BY NotebookCells
<1>2. DOMAIN remote.cells = 1 .. Len(base.cells)
  BY NotebookCells DEF Like
<1>3. CellIds(base) = CellIds(remote)
  BY <1>1, <1>2 DEF CellIds, Like
<1>4. Matches = [k \in 1 .. Len(base.cells) |-> <<k, k>>]
  BY <1>1, <1>3, LcsSame DEF Matches
<1> QED
  BY <1>1, <1>4

LEMMA Ahead ==
  ASSUME DiffInv, Writing
  PROVE  /\ bi \in 0 .. Len(base.cells) /\ ri \in 0 .. Len(remote.cells)
         /\ next <= Len(Matches) => Matches[next][1] - 1 \in bi .. Len(base.cells) - 1
                                    /\ Matches[next][2] - 1 \in ri .. Len(remote.cells) - 1
<1>1. base \in Notebook /\ remote \in Notebook /\ next \in Nat \ {0} /\ bi \in Nat /\ ri \in Nat
  BY DEF DiffInv, DiffTypes
<1>2. /\ Len(base.cells) \in Nat /\ Len(remote.cells) \in Nat
  BY <1>1, NotebookCells
<1>3. /\ Len(Matches) \in Nat /\ next <= Len(Matches) + 1
      /\ bi = IF next = 1 THEN 0 ELSE Matches[next - 1][1]
      /\ ri = IF next = 1 THEN 0 ELSE Matches[next - 1][2]
  BY <1>1, MatchesRight DEF DiffInv, AtMatch
<1>4. \A k \in 1 .. Len(Matches) :
        Matches[k][1] \in 1 .. Len(base.cells) /\ Matches[k][2] \in 1 .. Len(remote.cells)
  BY <1>1, MatchesRight
<1>5. \A k, l \in 1 .. Len(Matches) :
        k < l => Matches[k][1] < Matches[l][1] /\ Matches[k][2] < Matches[l][2]
  BY <1>1, MatchesRight
<1>6. CASE next = 1
  <2>1. bi = 0 /\ ri = 0
    BY <1>3, <1>6
  <2>2. next <= Len(Matches) => next \in 1 .. Len(Matches)
    BY <1>3, <1>6
  <2>3. bi \in 0 .. Len(base.cells) /\ ri \in 0 .. Len(remote.cells)
    BY <1>2, <2>1
  <2>4. next <= Len(Matches) => Matches[next][1] \in 1 .. Len(base.cells) /\ Matches[next][2] \in 1 .. Len(remote.cells)
    BY <1>4, <2>2
  <2> QED
    BY <1>2, <2>1, <2>3, <2>4
<1>7. CASE next # 1
  <2>1. next - 1 \in 1 .. Len(Matches) /\ (next <= Len(Matches) => next \in 1 .. Len(Matches))
        /\ next - 1 < next
    BY <1>1, <1>3, <1>7
  <2>2. bi = Matches[next - 1][1] /\ ri = Matches[next - 1][2]
    BY <1>3, <1>7
  <2>3. bi \in 1 .. Len(base.cells) /\ ri \in 1 .. Len(remote.cells)
    BY <1>4, <2>1, <2>2
  <2>4. next <= Len(Matches) => /\ Matches[next][1] \in 1 .. Len(base.cells) /\ bi < Matches[next][1]
                                /\ Matches[next][2] \in 1 .. Len(remote.cells) /\ ri < Matches[next][2]
    BY <1>4, <1>5, <2>1, <2>2
  <2> DEFINE x == Matches[next][1]  y == Matches[next][2]
             m == Len(base.cells)  n == Len(remote.cells)
  <2>5. bi \in 0 .. m /\ ri \in 0 .. n
    BY <1>2, <2>3
  <2>6. ASSUME next <= Len(Matches) PROVE x - 1 \in bi .. m - 1 /\ y - 1 \in ri .. n - 1
    <3>1. x \in 1 .. m /\ bi < x /\ y \in 1 .. n /\ ri < y /\ m \in Nat /\ n \in Nat
          /\ bi \in Nat /\ ri \in Nat
      BY <1>1, <1>2, <2>4, <2>6
    <3> HIDE DEF x, y, m, n
    <3> QED
      BY <3>1
  <2> QED
    BY <2>5, <2>6
<1> QED
  BY <1>6, <1>7

\* Between two matches: the cells of the local notebook up to the next are made.
LEMMA BetweenStep ==
  ASSUME DiffInv, stage = "diffing", NEW i \in bi .. Len(base.cells), NEW j \in ri .. Len(remote.cells)
  PROVE  LET G == Applied(base.cells, cellsDiff \o Between(i, j))
         IN /\ cellsDiff \o Between(i, j) \in Seq(Entry)
            /\ G \in Patch /\ G.used <= i
            /\ Like(Made(base.cells, G, i), SubSeq(remote.cells, 1, j))
            /\ Made(base.cells, G, i) \in Seq(AnyCell)
            /\ SubSeq(remote.cells, 1, j) \in Seq(AnyCell)
<1>1. /\ base.cells \in Seq(Cells) /\ remote.cells \in Seq(Cells)
      /\ Len(base.cells) \in Nat /\ Len(remote.cells) \in Nat
  BY NotebookCells DEF DiffInv, DiffTypes, Writing
<1>2. bi \in 0 .. Len(base.cells) /\ ri \in 0 .. Len(remote.cells)
  BY Ahead DEF Writing
<1>3. /\ Applied(base.cells, cellsDiff) \in Patch /\ Applied(base.cells, cellsDiff).used <= bi
      /\ Like(Made(base.cells, Applied(base.cells, cellsDiff), bi), SubSeq(remote.cells, 1, ri))
      /\ cellsDiff \in Seq(Entry)
  BY DEF DiffInv, DiffTypes, MadeSoFar, Reached, ReachedThere, Writing
<1> DEFINE B == base.cells  R == remote.cells  k == bi  r == ri  d == cellsDiff
           V == SubSeq(R, r + 1, j)
           entries == RemoveRange(k, i - k) \o AddRange(k, V)
           F == Applied(B, d)
           G == Applied(B, d \o entries)
<1>4. Between(i, j) = entries
  BY DEF Between
<1>5. /\ B \in Seq(Cells) /\ R \in Seq(Cells) /\ k \in Nat /\ r \in Nat /\ k \in 0 .. Len(B)
      /\ r \in 0 .. Len(R) /\ d \in Seq(Entry) /\ i \in k .. Len(B) /\ i \in 0 .. Len(B)
      /\ j \in r .. Len(R) /\ j \in 0 .. Len(R) /\ F \in Patch /\ F.used <= k
      /\ Like(Made(B, F, k), SubSeq(R, 1, r))
  BY <1>1, <1>2, <1>3
<1> HIDE DEF B, R, k, r, d
<1>6. V \in Seq(Cells) /\ V \in Seq(AnyCell)
  BY <1>5, Slice
<1> HIDE DEF V
<1>7. /\ d \o entries \in Seq(Entry)
      /\ G \in Patch /\ G.used <= i
      /\ Made(B, G, i) = Made(B, F, k) \o V
  BY <1>5, <1>6, BetweenMakes
<1> HIDE DEF entries, G, F
<1>8. Made(B, F, k) \in Seq(AnyCell) /\ Made(B, G, i) \in Seq(AnyCell)
  BY <1>5, <1>7, MadeType
<1>9. SubSeq(R, 0 + 1, r) \in Seq(AnyCell) /\ SubSeq(R, 0 + 1, j) \in Seq(AnyCell)
  BY <1>5, Slice
<1>10. SubSeq(R, 1, r) \o V = SubSeq(R, 1, j)
  <2>1. 1 \in 1 .. Len(R) + 1 /\ r \in 1 - 1 .. Len(R) /\ j \in r .. Len(R)
    BY <1>5
  <2> QED
    BY <1>5, <2>1, ConcatAdjacentSubSeq DEF V
<1>11. Like(V, V)
  BY DEF Like
<1>12. Like(Made(B, F, k) \o V, SubSeq(R, 1, r) \o V)
  <2>1. SubSeq(R, 1, r) \in Seq(AnyCell)
    BY <1>9
  <2> QED
    BY <1>5, <1>6, <1>8, <1>11, <2>1, LikeConcat
<1>13. SubSeq(R, 1, j) \in Seq(AnyCell)
  BY <1>9
<1> QED
  BY <1>4, <1>7, <1>8, <1>10, <1>12, <1>13 DEF B, R, d, G

LEMMA NothingBetween ==
  ASSUME bi \in Nat, ri \in Nat
  PROVE  Between(bi, ri) = <<>>
<1>1. bi - bi = 0 /\ ri + 1 \in Int /\ ri \in Int /\ ri < ri + 1
  OBVIOUS
<1>2. SubSeq(remote.cells, ri + 1, ri) = <<>>
  BY <1>1, SubSeqEmpty
<1>3. RemoveRange(bi, bi - bi) = <<>> /\ AddRange(bi, SubSeq(remote.cells, ri + 1, ri)) = <<>>
  BY <1>1, <1>2 DEF RemoveRange, AddRange
<1> QED
  BY <1>3 DEF Between

\* Of cells that do not differ those dealt with are as many in both.
LEMMA SamePlace ==
  ASSUME DiffInv, Writing, Like(base.cells, remote.cells)
  PROVE  /\ bi = next - 1 /\ ri = next - 1 /\ Len(Matches) = Len(base.cells)
         /\ next <= Len(Matches) => Matches[next][1] = next /\ Matches[next][2] = next
<1>1. base \in Notebook /\ remote \in Notebook /\ next \in Nat \ {0}
  BY DEF DiffInv, DiffTypes
<1>2. /\ Len(Matches) = Len(base.cells) /\ \A k \in 1 .. Len(Matches) : Matches[k] = <<k, k>>
      /\ Len(Matches) \in Nat
  BY <1>1, MatchesSame, NotebookCells
<1>3. \A k \in 1 .. Len(Matches) : Matches[k][1] = k /\ Matches[k][2] = k
  BY <1>2
<1>4. /\ next <= Len(Matches) + 1
      /\ bi = IF next = 1 THEN 0 ELSE Matches[next - 1][1]
      /\ ri = IF next = 1 THEN 0 ELSE Matches[next - 1][2]
  BY DEF DiffInv, AtMatch
<1>5. next # 1 => next - 1 \in 1 .. Len(Matches)
  BY <1>1, <1>2, <1>4
<1> QED
  BY <1>1, <1>2, <1>3, <1>4, <1>5

LEMMA MatchStep ==
  ASSUME DiffInv, Match
  PROVE  DiffInv'
<1> DEFINE i == Matches[next][1] - 1
           j == Matches[next][2] - 1
           B == base.cells
           R == remote.cells
           d == cellsDiff \o Between(i, j)
           F == Applied(B, d)
           e == Changed(i, B[i + 1], R[j + 1])
           G == Applied(B, d \o e)
<1>1. /\ stage = "diffing" /\ next <= Len(Matches) /\ next' = next + 1
      /\ bi' = i + 1 /\ ri' = j + 1 /\ cellsDiff' = d \o e
      /\ base' = base /\ local' = local /\ remote' = remote /\ stage' = stage
      /\ topDiff' = topDiff /\ contentType' = contentType
  BY DEF Match, notebooks
<1>2. Writing /\ base \in Notebook /\ local \in Notebook /\ remote \in Notebook /\ next \in Nat \ {0}
      /\ bi \in Nat /\ ri \in Nat
  BY <1>1 DEF Writing, DiffInv, DiffTypes
<1>3. /\ B \in Seq(Cells) /\ R \in Seq(Cells) /\ Len(B) \in Nat /\ Len(R) \in Nat
  BY <1>2, NotebookCells
<1>4. i \in bi .. Len(B) - 1 /\ j \in ri .. Len(R) - 1
  BY <1>1, <1>2, Ahead
<1>5. /\ next \in 1 .. Len(Matches) /\ Len(Matches) \in Nat
      /\ Matches[next][1] \in Nat /\ Matches[next][2] \in Nat
      /\ B[Matches[next][1]].id = R[Matches[next][2]].id
  BY <1>1, <1>2, MatchesRight
<1>6. /\ i + 1 = Matches[next][1] /\ j + 1 = Matches[next][2]
      /\ i \in Nat /\ j \in Nat /\ i + 1 \in 1 .. Len(B) /\ j + 1 \in 1 .. Len(R)
      /\ i \in bi .. Len(B) /\ j \in ri .. Len(R) /\ i \in 0 .. Len(B) - 1
  <2> DEFINE x == Matches[next][1]  y == Matches[next][2]  m == Len(B)  n == Len(R)
  <2>1. /\ x \in Nat /\ y \in Nat /\ m \in Nat /\ n \in Nat /\ bi \in Nat /\ ri \in Nat
        /\ x - 1 \in bi .. m - 1 /\ y - 1 \in ri .. n - 1
    BY <1>2, <1>3, <1>4, <1>5
  <2> HIDE DEF x, y, m, n
  <2>2. /\ (x - 1) + 1 = x /\ (y - 1) + 1 = y /\ x - 1 \in Nat /\ y - 1 \in Nat
        /\ (x - 1) + 1 \in 1 .. m /\ (y - 1) + 1 \in 1 .. n
        /\ x - 1 \in bi .. m /\ y - 1 \in ri .. n /\ x - 1 \in 0 .. m - 1
    BY <2>1
  <2> QED
    BY <2>2 DEF x, y, m, n
<1>7. B[i + 1].id = R[j + 1].id /\ R[j + 1] \in Cells
  <2> HIDE DEF i, j
  <2>1. j + 1 \in 1 .. Len(R)
    BY <1>6
  <2> QED
    BY <1>3, <1>5, <1>6, <2>1
<1>8. /\ d \in Seq(Entry) /\ F \in Patch /\ F.used <= i
      /\ Like(Made(B, F, i), SubSeq(R, 1, j))
      /\ Made(B, F, i) \in Seq(AnyCell) /\ SubSeq(R, 1, j) \in Seq(AnyCell)
  BY <1>1, <1>6, BetweenStep
<1> DEFINE new == R[j + 1]
<1>9. /\ d \o e \in Seq(Entry) /\ G \in Patch /\ G.used <= i + 1
      /\ \E c \in AnyCell :
           /\ Made(B, G, i + 1) = Made(B, F, i) \o <<c>>
           /\ c.id = new.id /\ c.source = new.source /\ c.metadata = new.metadata
  <2> HIDE DEF i, j, d
  <2>1. new \in Cells /\ B[i + 1].id = new.id
    BY <1>7
  <2> HIDE DEF new, B, R
  <2>2. LET FF == Applied(B, d)
            GG == Applied(B, d \o Changed(i, B[i + 1], new))
        IN /\ d \o Changed(i, B[i + 1], new) \in Seq(Entry)
           /\ GG \in Patch /\ GG.used <= i + 1
           /\ \E c \in AnyCell :
                /\ Made(B, GG, i + 1) = Made(B, FF, i) \o <<c>>
                /\ c.id = new.id /\ c.source = new.source /\ c.metadata = new.metadata
    BY <1>3, <1>6, <1>8, <2>1, ChangedMakes
  <2>3. e = Changed(i, B[i + 1], new)
    BY DEF new
  <2> HIDE DEF e
  <2> QED
    BY <2>2, <2>3
<1>10. Like(Made(B, G, i + 1), SubSeq(R, 1, j + 1))
  <2> HIDE DEF F, G, i, j, d, e
  <2>1. PICK c \in AnyCell :
          /\ Made(B, G, i + 1) = Made(B, F, i) \o <<c>>
          /\ c.id = new.id /\ c.source = new.source /\ c.metadata = new.metadata
    BY <1>9
  <2>2. SubSeq(R, 1, j + 1) = SubSeq(R, 1, j) \o <<new>>
    <3>1. 1 \in 1 .. Len(R) /\ j + 1 \in 1 .. Len(R) /\ (j + 1) - 1 = j
      BY <1>3, <1>6
    <3>2. SubSeq(R, 1, j + 1) = SubSeq(R, 1, (j + 1) - 1) \o <<R[j + 1]>>
      BY <1>3, <3>1, SubSeqRecursiveSecond
    <3> QED
      BY <3>1, <3>2
  <2>3. new \in AnyCell
    BY <1>7 DEF AnyCell
  <2> HIDE DEF new
  <2>4. <<c>> \in Seq(AnyCell) /\ <<new>> \in Seq(AnyCell) /\ Like(<<c>>, <<new>>)
    BY <2>1, <2>3 DEF Like
  <2>5. Like(Made(B, F, i) \o <<c>>, SubSeq(R, 1, j) \o <<new>>)
    <3> DEFINE s == Made(B, F, i)  t == SubSeq(R, 1, j)  u == <<c>>  v == <<new>>
    <3>1. /\ s \in Seq(AnyCell) /\ t \in Seq(AnyCell) /\ u \in Seq(AnyCell) /\ v \in Seq(AnyCell)
          /\ Like(s, t) /\ Like(u, v)
      BY <1>8, <2>4
    <3> HIDE DEF s, t, u, v
    <3>2. Like(s \o u, t \o v)
      BY <3>1, LikeConcat
    <3> QED
      BY <3>2 DEF s, t, u, v
  <2> QED
    BY <2>1, <2>2, <2>5
<1>11. Matches' = Matches
  BY <1>1 DEF Matches
<1> HIDE DEF i, j, d, e, new
<1>12. DiffTypes' /\ Started'
  BY <1>1, <1>2, <1>6, <1>9 DEF DiffTypes, Started, Writing, DiffInv, Top
<1>13. AtMatch'
  <2>1. (next + 1) - 1 = next /\ next + 1 # 1 /\ next + 1 <= Len(Matches) + 1
    BY <1>2, <1>5
  <2> QED
    BY <1>1, <1>6, <1>11, <2>1 DEF AtMatch
<1>14. MadeSoFar'
  <2>1. Applied(base.cells, cellsDiff)' = G /\ Reached' = i + 1 /\ ReachedThere' = j + 1
    BY <1>1 DEF Reached, ReachedThere, G
  <2> HIDE DEF G
  <2> QED
    BY <1>1, <1>9, <1>10, <2>1 DEF MadeSoFar
<1>15. NoneWritten'
  <2> SUFFICES ASSUME Like(B, R) PROVE cellsDiff' = <<>>
    BY <1>1 DEF NoneWritten
  <2>1. cellsDiff = <<>>
    BY <1>2 DEF DiffInv, NoneWritten
  <2>2. i = bi /\ j = ri /\ i = j
    <3>1. bi = next - 1 /\ ri = next - 1 /\ Matches[next][1] = next /\ Matches[next][2] = next
      BY <1>1, <1>2, SamePlace
    <3> QED
      BY <3>1 DEF i, j
  <2>3. Between(i, j) = <<>>
    BY <1>2, <2>2, NothingBetween
  <2>4. e = <<>>
    <3>1. B[i + 1].source = R[i + 1].source /\ B[i + 1].metadata = R[i + 1].metadata
      BY <1>6 DEF Like
    <3> QED
      BY <2>2, <3>1 DEF e, Changed
  <2>5. d = <<>>
    BY <2>1, <2>3 DEF d
  <2> QED
    BY <1>1, <2>4, <2>5
<1> QED
  BY <1>12, <1>13, <1>14, <1>15 DEF DiffInv

LEMMA FinishStep ==
  ASSUME DiffInv, Finish
  PROVE  DiffInv'
<1> DEFINE B == base.cells
           R == remote.cells
           m == Len(B)
           n == Len(R)
           d == cellsDiff \o Between(m, n)
           G == Applied(B, d)
<1>1. /\ stage = "diffing" /\ next > Len(Matches) /\ next' = next /\ bi' = bi /\ ri' = ri
      /\ cellsDiff' = d /\ topDiff' = Top(cellsDiff') /\ stage' = "diff"
      /\ base' = base /\ local' = local /\ remote' = remote
  BY DEF Finish, notebooks
<1>2. Writing /\ base \in Notebook /\ local \in Notebook /\ remote \in Notebook /\ next \in Nat \ {0}
      /\ bi \in Nat /\ ri \in Nat
  BY <1>1 DEF Writing, DiffInv, DiffTypes
<1>3. /\ B \in Seq(Cells) /\ R \in Seq(Cells) /\ m \in Nat /\ n \in Nat
  BY <1>2, NotebookCells
<1>4. m \in bi .. m /\ n \in ri .. n
  <2>1. bi \in 0 .. m /\ ri \in 0 .. n
    BY <1>2, Ahead
  <2> HIDE DEF m, n
  <2> QED
    BY <1>3, <2>1
<1>5. /\ d \in Seq(Entry) /\ G \in Patch /\ G.used <= m /\ Like(Made(B, G, m), SubSeq(R, 1, n))
  BY <1>1, <1>4, BetweenStep
<1>6. Matches' = Matches
  BY <1>1 DEF Matches
<1> HIDE DEF d
<1>7. DiffTypes' /\ Started'
  <2>1. DiffTypes'
    BY <1>1, <1>2, <1>5 DEF DiffTypes, Writing, Stages
  <2>2. topDiff' = Top(cellsDiff)'
    BY <1>1 DEF Top
  <2>3. Started'
    BY <1>1, <2>2 DEF Started, Writing
  <2> QED
    BY <2>1, <2>3
<1>8. AtMatch'
  BY <1>1, <1>2, <1>6 DEF DiffInv, AtMatch
<1>9. MadeSoFar'
  <2>1. Applied(base.cells, cellsDiff)' = G /\ Reached' = m /\ ReachedThere' = n
    BY <1>1 DEF Reached, ReachedThere
  <2> HIDE DEF G
  <2> QED
    BY <1>1, <1>5, <2>1 DEF MadeSoFar
<1>10. NoneWritten'
  <2> SUFFICES ASSUME Like(B, R) PROVE cellsDiff' = <<>>
    BY <1>1 DEF NoneWritten
  <2>1. cellsDiff = <<>>
    BY <1>2 DEF DiffInv, NoneWritten
  <2>2. m = bi /\ n = ri
    <3>1. bi = next - 1 /\ ri = next - 1 /\ Len(Matches) = m /\ m = n
      BY <1>2, SamePlace DEF Like
    <3>2. next <= Len(Matches) + 1
      BY <1>2 DEF DiffInv, AtMatch
    <3> HIDE DEF m, n
    <3> QED
      BY <1>1, <1>2, <1>3, <3>1, <3>2
  <2> HIDE DEF m, n
  <2>3. Between(m, n) = <<>>
    BY <1>2, <2>2, NothingBetween
  <2> QED
    BY <1>1, <2>1, <2>3 DEF d
<1> QED
  BY <1>7, <1>8, <1>9, <1>10 DEF DiffInv

\* Where nothing has been written yet.
NotBegun ==
  /\ DiffTypes /\ Started /\ stage # "diff"
  /\ next = 1 /\ bi = 0 /\ ri = 0 /\ cellsDiff = <<>>

LEMMA MadeNone ==
  ASSUME NEW B, NEW R
  PROVE  /\ Applied(B, <<>>) \in Patch /\ Applied(B, <<>>).used = 0
         /\ Like(Made(B, Applied(B, <<>>), 0), SubSeq(R, 1, 0))
<1> DEFINE F == Applied(B, <<>>)
<1>1. F = [cells |-> <<>>, used |-> 0]
  BY AppliedNone
<1>2. <<>> \in Seq(AnyCell)
  BY EmptySeq
<1> HIDE DEF F
<1>3. F \in Patch /\ F.used = 0 /\ F.cells = <<>>
  BY <1>1, <1>2 DEF Patch
<1>4. Made(B, F, 0) = <<>>
  BY <1>3, MadeUsed
<1>5. SubSeq(R, 1, 0) = <<>>
  BY SubSeqEmpty
<1>6. Like(<<>>, <<>>)
  BY DEF Like
<1> QED
  BY <1>3, <1>4, <1>5, <1>6 DEF F

LEMMA NotBegunRight == NotBegun => DiffInv
<1> SUFFICES ASSUME NotBegun PROVE DiffInv
  OBVIOUS
<1>1. AtMatch
  <2> SUFFICES ASSUME Writing PROVE next <= Len(Matches) + 1
    BY DEF AtMatch, NotBegun
  <2>1. Len(Matches) \in Nat
    BY MatchesRight DEF DiffTypes, NotBegun
  <2> QED
    BY <2>1 DEF NotBegun
<1>2. MadeSoFar
  <2>1. Reached = 0 /\ ReachedThere = 0
    BY DEF Reached, ReachedThere, NotBegun
  <2> QED
    BY <2>1, MadeNone DEF MadeSoFar, NotBegun
<1> QED
  BY <1>1, <1>2 DEF DiffInv, NoneWritten, NotBegun

LEMMA NotBegunNext == NotBegun' => DiffInv'
  BY NotBegunRight, PTL

\* Steps of the dialog and the buttons write nothing.
LEMMA ButtonStep ==
  ASSUME DiffInv, UNCHANGED <<base, remote, loop, stage>>, local' \in Notebook
  PROVE  DiffInv'
<1>1. /\ base' = base /\ remote' = remote /\ stage' = stage /\ next' = next /\ bi' = bi /\ ri' = ri
      /\ cellsDiff' = cellsDiff /\ topDiff' = topDiff
  BY DEF loop
<1>2. Matches' = Matches /\ Writing' = Writing /\ Reached' = Reached /\ ReachedThere' = ReachedThere
  BY <1>1 DEF Matches, Writing, Reached, ReachedThere
<1>3. DiffTypes' /\ Started' /\ AtMatch' /\ NoneWritten'
  BY <1>1, <1>2 DEF DiffInv, DiffTypes, Started, AtMatch, NoneWritten, Top
<1>4. MadeSoFar'
  BY <1>1, <1>2 DEF DiffInv, MadeSoFar
<1> QED
  BY <1>3, <1>4 DEF DiffInv

LEMMA DialogStep ==
  ASSUME DiffInv, Conflict \/ Dismiss \/ ShowDiff \/ Fetched \/ Revert \/ SaveAs
  PROVE  DiffInv'
<1>1. base \in Notebook /\ local \in Notebook
  BY DEF DiffInv, DiffTypes
<1>2. CASE stage = "diff"
  <2>1. UNCHANGED <<base, remote, loop, stage>> /\ local' \in Notebook
    BY <1>1, <1>2 DEF Conflict, Dismiss, ShowDiff, Fetched, Revert, SaveAs, Goto, notebooks
  <2> QED
    BY <2>1, ButtonStep
<1>3. CASE stage # "diff"
  <2>1. /\ base' = base /\ local' \in Notebook /\ loop' = loop
        /\ stage \in {"document", "dialog", "fetch"} /\ stage' \in {"dialog", "fetch", "diffing", "end"}
        /\ (Writing' \/ stage' = "fetch") => remote' \in Notebook
    BY <1>1, <1>3 DEF DiffInv, DiffTypes, Conflict, Dismiss, ShowDiff, Fetched, Revert, SaveAs, Goto,
                      Writing, notebooks
  <2>2. next = 1 /\ bi = 0 /\ ri = 0 /\ cellsDiff = <<>> /\ topDiff = Nothing
    BY <2>1 DEF DiffInv, Started, Writing
  <2>3. next' = 1 /\ bi' = 0 /\ ri' = 0 /\ cellsDiff' = <<>> /\ topDiff' = Nothing /\ stage' # "diff"
    BY <2>1, <2>2 DEF loop
  <2>4. DiffTypes' /\ Started'
    BY <1>1, <2>1, <2>3 DEF DiffTypes, Started, Stages
  <2> QED
    BY <2>3, <2>4, NotBegunNext DEF NotBegun
<1> QED
  BY <1>2, <1>3
\* No step of the conflict takes it out of the invariant.
LEMMA DiffInvRight == DiffSpec => []DiffInv
<1>1. DiffInit => DiffInv
  <2> SUFFICES ASSUME DiffInit PROVE DiffInv
    OBVIOUS
  <2>1. <<>> \in Seq(Entry)
    BY EmptySeq
  <2>2. NotBegun
    BY <2>1 DEF DiffInit, NotBegun, DiffTypes, Started, Writing, Stages
  <2> QED
    BY <2>2, NotBegunRight
<1>2. DiffInv /\ [DiffNext]_diffVars => DiffInv'
  <2> SUFFICES ASSUME DiffInv, [DiffNext]_diffVars PROVE DiffInv'
    OBVIOUS
  <2>1. CASE Match
    BY <2>1, MatchStep
  <2>2. CASE Finish
    BY <2>2, FinishStep
  <2>3. CASE Conflict \/ Dismiss \/ ShowDiff \/ Fetched \/ Revert \/ SaveAs
    BY <2>3, DialogStep
  <2>4. CASE UNCHANGED diffVars
    <3>1. UNCHANGED <<base, remote, loop, stage>> /\ local' \in Notebook
      BY <2>4 DEF diffVars, notebooks, DiffInv, DiffTypes
    <3> QED
      BY <3>1, ButtonStep
  <2> QED
    BY <2>1, <2>2, <2>3, <2>4 DEF DiffNext
<1> QED
  BY <1>1, <1>2, PTL DEF DiffSpec

\* conflictDiffWidget.ts, _diffNotebooks: after every match, and at the end, the entries written
\* turn the cells of the server's notebook that have been dealt with into the local ones.
THEOREM WrittenSoFar == DiffSpec => []DiffSoFar
<1>1. DiffInv => DiffSoFar
  <2> SUFFICES ASSUME DiffInv, Writing PROVE Shown(Patched(base.cells, cellsDiff, Reached))
                                             = Shown(SubSeq(remote.cells, 1, ReachedThere))
    <3>1. Top(cellsDiff) # Nothing
      <4>1. "cells" \in DOMAIN Top(cellsDiff) /\ "cells" \notin DOMAIN Nothing
        BY DEF Top, Nothing
      <4> QED
        BY <4>1
    <3>2. DiffInv => (topDiff # Nothing <=> stage = "diff")
      BY <3>1 DEF DiffInv, Started
    <3> QED
      BY <3>2 DEF DiffSoFar, Writing, Reached, ReachedThere
  <2>1. base \in Notebook /\ remote \in Notebook
    BY DEF DiffInv, DiffTypes
  <2>2. base.cells \in Seq(Cells) /\ remote.cells \in Seq(Cells)
    BY <2>1, NotebookCells
  <2>3. Reached \in 0 .. Len(base.cells) /\ ReachedThere \in 0 .. Len(remote.cells)
    BY <2>2, Ahead, LenProperties DEF Reached, ReachedThere
  <2> DEFINE F == Applied(base.cells, cellsDiff)
             s == Made(base.cells, F, Reached)
             t == SubSeq(remote.cells, 1, ReachedThere)
  <2>4. F \in Patch /\ Like(s, t)
    BY DEF DiffInv, MadeSoFar
  <2>5. Patched(base.cells, cellsDiff, Reached) = s
    BY DEF Patched, Made
  <2> HIDE DEF F
  <2>6. s \in Seq(AnyCell)
    BY <2>2, <2>3, <2>4, MadeType
  <2>7. t \in Seq(AnyCell)
    <3>1. SubSeq(remote.cells, 0 + 1, ReachedThere) \in Seq(AnyCell)
      BY <2>2, <2>3, Slice
    <3> QED
      BY <3>1
  <2> HIDE DEF s, t
  <2>8. Shown(s) = Shown(t)
    BY <2>4, <2>6, <2>7, ShownLike
  <2> QED
    BY <2>5, <2>8 DEF t
<1> QED
  BY <1>1, DiffInvRight, PTL

\* conflictDiffWidget.ts, _lcs: the cells matched are a longest common subsequence of their ids,
\* for notebooks of any length and ids that occur more than once.
THEOREM MatchedLongest == DiffSpec => []LongestMatched
<1>1. DiffInv => LongestMatched
  <2> SUFFICES ASSUME DiffInv, stage = "diffing" PROVE LongestMatched
    BY DEF LongestMatched
  <2> DEFINE a == CellIds(base)
             b == CellIds(remote)
             chosen == {Matches[k] : k \in DOMAIN Matches}
  <2>1. base \in Notebook /\ remote \in Notebook
    BY DEF DiffInv, DiffTypes, Writing
  <2>2. /\ Len(a) = Len(base.cells) /\ Len(base.cells) \in Nat /\ DOMAIN a = 1 .. Len(a)
        /\ Len(b) = Len(remote.cells) /\ Len(remote.cells) \in Nat /\ DOMAIN b = 1 .. Len(b)
    BY <2>1, NotebookCells
  <2>3. Matches = Lcs(a, b)
    BY DEF Matches
  <2> HIDE DEF a, b
  <2>4. Chain(a, b, Matches, Len(a), Len(b)) /\ AtMost(a, b, Len(a), Len(b), Len(Matches))
    BY <2>2, <2>3, LcsRight
  <2>5. DOMAIN Matches = 1 .. Len(Matches) /\ Len(Matches) \in Nat
    BY <2>4, LenProperties DEF Chain
  <2>6. Common(chosen, a, b)
    <3>1. \A p \in chosen : a[p[1]] = b[p[2]]
      BY <2>4, <2>5 DEF Chain
    <3>2. ASSUME NEW k \in 1 .. Len(Matches), NEW l \in 1 .. Len(Matches)
          PROVE  /\ Matches[k][1] < Matches[l][1] <=> Matches[k][2] < Matches[l][2]
                 /\ Matches[k][1] = Matches[l][1] <=> Matches[k][2] = Matches[l][2]
      <4>1. /\ Matches[k][1] \in Nat /\ Matches[k][2] \in Nat
            /\ Matches[l][1] \in Nat /\ Matches[l][2] \in Nat
        BY <2>2, <2>4 DEF Chain
      <4>2. /\ k < l => Matches[k][1] < Matches[l][1] /\ Matches[k][2] < Matches[l][2]
            /\ l < k => Matches[l][1] < Matches[k][1] /\ Matches[l][2] < Matches[k][2]
        BY <2>4 DEF Chain
      <4>3. k < l \/ l < k \/ k = l
        BY <2>5
      <4> QED
        BY <4>1, <4>2, <4>3
    <3> QED
      BY <2>5, <3>1, <3>2 DEF Common
  <2>7. ASSUME NEW k \in 2 .. Len(Matches) PROVE Matches[k - 1][1] < Matches[k][1]
    <3>1. k \in 1 .. Len(Matches) /\ k - 1 \in 1 .. Len(Matches) /\ k - 1 < k
      BY <2>5
    <3> QED
      BY <2>4, <3>1 DEF Chain
  <2>8. \A pairs \in SUBSET ((DOMAIN a) \X (DOMAIN b)) :
          Common(pairs, a, b) => Cardinality(pairs) <= Len(Matches)
    BY <2>2, <2>4 DEF AtMost
  <2> HIDE DEF chosen
  <2> QED
    BY <2>6, <2>7, <2>8 DEF LongestMatched, chosen, a, b
<1> QED
  BY <1>1, DiffInvRight, PTL

\* conflictDiffWidget.ts, _diffNotebooks: the diff is empty exactly if the notebooks are alike in
\* all that is compared.
THEOREM EmptyIfAlike == DiffSpec => []EmptyIfSame
<1>1. DiffInv => EmptyIfSame
  <2> SUFFICES ASSUME DiffInv, topDiff # Nothing PROVE EmptyIfSame
    BY DEF EmptyIfSame
  <2> DEFINE B == base.cells  R == remote.cells
  <2>1. stage = "diff" /\ topDiff = Top(cellsDiff)
    BY DEF DiffInv, Started
  <2>2. base \in Notebook /\ remote \in Notebook
    BY <2>1 DEF DiffInv, DiffTypes, Writing
  <2>3. B \in Seq(Cells) /\ R \in Seq(Cells) /\ Len(B) \in Nat /\ Len(R) \in Nat
    BY <2>2, NotebookCells
  <2>4. topDiff.cells = cellsDiff /\ topDiff.metadata = remote.metadata
    BY <2>1 DEF Top
  <2> HIDE DEF B, R
  <2>5. Like(B, R) => cellsDiff = <<>>
    BY <2>1 DEF DiffInv, NoneWritten, Writing, B, R
  <2>6. ASSUME cellsDiff = <<>> PROVE Like(B, R)
    <3> DEFINE F == Applied(B, cellsDiff)
    <3>1. F \in Patch /\ Like(Made(B, F, Len(B)), SubSeq(R, 1, Len(R)))
      BY <2>1 DEF DiffInv, MadeSoFar, Writing, Reached, ReachedThere, B, R
    <3>2. F = [cells |-> <<>>, used |-> 0]
      BY <2>6, AppliedNone
    <3> HIDE DEF F
    <3>3. F.cells = <<>> /\ F.used = 0
      BY <3>2
    <3>4. SubSeq(B, 1, Len(B)) = B /\ SubSeq(R, 1, Len(R)) = R
      BY <2>3, SubSeqFull
    <3>5. Made(B, F, Len(B)) = B
      <4>1. Made(B, F, Len(B)) = <<>> \o SubSeq(B, 0 + 1, Len(B))
        BY <3>3 DEF Made
      <4>2. 0 + 1 = 1
        OBVIOUS
      <4>3. Made(B, F, Len(B)) = <<>> \o B
        BY <3>4, <4>1, <4>2
      <4> QED
        BY <2>3, <4>3, ConcatEmptySeq
    <3> QED
      BY <3>1, <3>4, <3>5
  <2>7. Shown(B) = Shown(R) <=> Like(B, R)
    BY <2>3, ShownLike
  <2> QED
    BY <2>4, <2>5, <2>6, <2>7 DEF EmptyIfSame, B, R
<1> QED
  BY <1>1, DiffInvRight, PTL

USE NameAssumption, BoundAssumption

-----------------------------------------------------------------------------
(* The handlers of a signal, one after the other                           *)

\* The registry when the documents of M have been moved from a path to another.
MovedPath(M, new) == [d \in Doc |-> IF d \in M THEN new ELSE path[d]]
MovedProviders(M, old, new) ==
  [key \in Kind \X Path |->
     IF \E d \in M : key = <<kind[d], new>> THEN providers[<<key[1], old>>]
     ELSE IF \E d \in M : key = <<kind[d], old>> THEN None ELSE providers[key]]
MovedList(M, old, new) == IF M = {} THEN documents ELSE Listed(documents, old, new)
MovedAll(M, old, new) ==
  [path |-> MovedPath(M, new), providers |-> MovedProviders(M, old, new),
   documents |-> MovedList(M, old, new)]

\* What the handlers rely on: a document of this path is registered under its key.
Registered(old) ==
  \A d \in Open : path[d] = old => kind[d] \in Kind /\ providers[<<kind[d], old>>] = d
RegistryTyped ==
  /\ path \in [Doc -> Path \cup {None}]
  /\ providers \in [Kind \X Path -> Doc \cup {None}]

\* None moved is the registry as it is.
LEMMA NoneMoved ==
  ASSUME RegistryTyped, NEW old, NEW new
  PROVE  MovedAll({}, old, new) = Registry
<1>1. MovedPath({}, new) = path
  BY DEF MovedPath, RegistryTyped
<1>2. MovedProviders({}, old, new) = providers
  BY DEF MovedProviders, RegistryTyped
<1> QED
  BY <1>1, <1>2 DEF MovedAll, MovedList, Registry

\* The handler of a document whose path is not the old one, or not any more, does nothing.
LEMMA UnmovedTurn ==
  ASSUME RegistryTyped, NEW M \in SUBSET Open, NEW d \in Open,
         NEW old \in Path, NEW new \in Path, old # new, path[d] # old \/ d \in M
  PROVE  Moved(MovedAll(M, old, new), d, old, new) = MovedAll(M, old, new)
<1>1. MovedAll(M, old, new).path[d] # old
  BY DEF MovedAll, MovedPath, Open
<1> QED
  BY <1>1 DEF Moved, Concerns

\* The handler of another adds it to those that have moved.
LEMMA MovedTurn ==
  ASSUME RegistryTyped, NEW M \in SUBSET Open, NEW d \in Open, d \notin M,
         NEW old \in Path, NEW new \in Path, old # new, path[d] = old,
         Registered(old), \A e \in M : path[e] = old
  PROVE  Moved(MovedAll(M, old, new), d, old, new) = MovedAll(M \cup {d}, old, new)
<1> DEFINE N == M \cup {d}
           P == MovedProviders(M, old, new)
           from == <<kind[d], old>>
           to == <<kind[d], new>>
<1>1. from \in Kind \X Path /\ to \in Kind \X Path /\ from # to /\ providers[from] = d
  BY DEF Registered
<1>2. \A e \in M : kind[e] # kind[d]
  BY <1>1 DEF Registered
<1>3. P[from] = d
  BY <1>1, <1>2 DEF MovedProviders
<1>4. d # None /\ old # None
  BY DEF Open
<1>5. [MovedPath(M, new) EXCEPT ![d] = new] = MovedPath(N, new)
  BY DEF MovedPath
<1>6. Reregistered(P, from, to) = MovedProviders(N, old, new)
  <2> DEFINE Q == MovedProviders(N, old, new)
             R == Reregistered(P, from, to)
  <2>1. R = [key \in Kind \X Path |-> IF key = from THEN None ELSE IF key = to THEN d ELSE P[key]]
    BY <1>1, <1>3 DEF Reregistered, MovedProviders
  <2>2. ASSUME NEW key \in Kind \X Path PROVE Q[key] = R[key]
    <3>1. CASE key = from
      <4>1. ~\E e \in N : key = <<kind[e], new>>
        BY <1>1, <3>1
      <4>2. \E e \in N : key = <<kind[e], old>>
        BY <3>1
      <4> QED
        BY <2>1, <3>1, <4>1, <4>2 DEF MovedProviders
    <3>2. CASE key = to
      <4>1. \E e \in N : key = <<kind[e], new>>
        BY <3>2
      <4>2. <<key[1], old>> = from
        BY <3>2
      <4> QED
        BY <1>1, <2>1, <3>2, <4>1, <4>2 DEF MovedProviders
    <3>3. CASE key # from /\ key # to
      <4>1. (\E e \in N : key = <<kind[e], new>>) <=> \E e \in M : key = <<kind[e], new>>
        BY <3>3
      <4>2. (\E e \in N : key = <<kind[e], old>>) <=> \E e \in M : key = <<kind[e], old>>
        BY <3>3
      <4> QED
        BY <2>1, <3>3, <4>1, <4>2 DEF MovedProviders
    <3> QED
      BY <3>1, <3>2, <3>3
  <2> QED
    BY <2>1, <2>2 DEF MovedProviders
<1>7. Listed(MovedList(M, old, new), old, new) = MovedList(N, old, new)
  BY DEF Listed, MovedList
<1>8. Concerns(MovedAll(M, old, new), d, old)
  BY <1>3, <1>4 DEF Concerns, MovedAll, MovedPath, Open
<1> QED
  BY <1>5, <1>6, <1>7, <1>8 DEF Moved, MovedAll

\* So the signal moves all that listen and have the old path.
LEMMA SignalMoves ==
  ASSUME RegistryTyped, listening \in Seq(Doc), Open = {listening[i] : i \in DOMAIN listening},
         NEW old \in Path, NEW new \in Path, old # new, Registered(old)
  PROVE  Signal(old, new) = MovedAll({d \in Open : path[d] = old}, old, new)
<1> DEFINE Upto(n) == {d \in Open : path[d] = old /\ \E i \in 1 .. n : listening[i] = d}
           C(n) == MovedAll(Upto(n), old, new)
           Turn(t, n) == IF n = 0 THEN Registry ELSE Moved(t[n - 1], listening[n], old, new)
           Turns(t) == t = [n \in 0 .. Len(listening) |-> Turn(t, n)]
           after == CHOOSE t : Turns(t)
<1>1. Len(listening) \in Nat /\ DOMAIN listening = 1 .. Len(listening)
  OBVIOUS
<1>2. C(0) = Registry
  <2>1. Upto(0) = {}
    OBVIOUS
  <2> QED
    BY <2>1, NoneMoved
<1>3. ASSUME NEW n \in 1 .. Len(listening)
      PROVE  C(n) = Moved(C(n - 1), listening[n], old, new)
  <2> DEFINE d == listening[n]
  <2>1. d \in Open /\ n - 1 \in Nat
    BY <1>1
  <2>2. Upto(n) = Upto(n - 1) \cup (IF path[d] = old THEN {d} ELSE {})
    <3>1. \A i : i \in 1 .. n <=> i \in 1 .. (n - 1) \/ i = n
      BY <1>1
    <3> QED
      BY <2>1, <3>1
  <2>3. Upto(n - 1) \subseteq Open /\ \A e \in Upto(n - 1) : path[e] = old
    OBVIOUS
  <2> HIDE DEF Upto, d
  <2>4. CASE path[d] = old /\ d \notin Upto(n - 1)
    BY <2>1, <2>2, <2>3, <2>4, MovedTurn DEF d
  <2>5. CASE path[d] # old \/ d \in Upto(n - 1)
    <3>1. Upto(n) = Upto(n - 1)
      BY <2>2, <2>5
    <3> QED
      BY <2>1, <2>3, <2>5, <3>1, UnmovedTurn DEF d
  <2> QED
    BY <2>4, <2>5
<1> HIDE DEF C
<1>4. \E t : Turns(t)
  <2> DEFINE t == [n \in 0 .. Len(listening) |-> C(n)]
  <2>1. ASSUME NEW n \in 0 .. Len(listening) PROVE C(n) = Turn(t, n)
    <3>1. CASE n = 0
      BY <1>2, <3>1
    <3>2. CASE n # 0
      <4>1. n \in 1 .. Len(listening) /\ n - 1 \in 0 .. Len(listening)
        BY <1>1, <3>2
      <4>2. t[n - 1] = C(n - 1)
        BY <4>1
      <4> QED
        BY <1>3, <3>2, <4>1, <4>2
    <3> QED
      BY <3>1, <3>2
  <2> HIDE DEF Turn
  <2>2. Turns(t)
    BY <2>1
  <2> QED
    BY <2>2
<1>5. Turns(after)
  <2> HIDE DEF Turns
  <2> QED
    BY <1>4
<1>6. Signal(old, new) = after[Len(listening)]
  BY DEF Signal
<1> HIDE DEF after
<1>7. \A n \in 0 .. Len(listening) : after[n] = C(n)
  <2> DEFINE bad == {n \in 0 .. Len(listening) : after[n] # C(n)}
  <2> SUFFICES ASSUME bad # {} PROVE FALSE
    OBVIOUS
  <2>1. bad \subseteq Nat
    BY <1>1
  <2>2. PICK n \in bad : \A m \in bad : n <= m
    BY <2>1, Least
  <2>3. after[n] = Turn(after, n)
    BY <1>5, <2>2
  <2>4. n # 0
    BY <1>2, <2>2, <2>3
  <2>5. n \in 1 .. Len(listening) /\ n - 1 \in 0 .. Len(listening) /\ ~(n <= n - 1)
    BY <1>1, <2>2, <2>4
  <2>6. after[n - 1] = C(n - 1)
    BY <2>2, <2>5
  <2> QED
    BY <1>3, <2>2, <2>3, <2>4, <2>5, <2>6
<1>8. Upto(Len(listening)) = {d \in Open : path[d] = old}
  BY <1>1
<1>9. Signal(old, new) = C(Len(listening))
  BY <1>1, <1>6, <1>7
<1> QED
  BY <1>8, <1>9 DEF C

-----------------------------------------------------------------------------
(* The places of documents                                                 *)

USE DEF IInv, Inv

\* A file's walk is a sequence of paths.
LEMMA Walk ==
  ASSUME TypeOK, NEW f \in File
  PROVE  /\ walk[f] \in Seq(Path) /\ Len(walk[f]) \in Nat /\ DOMAIN walk[f] = 1 .. Len(walk[f])
         /\ \A n \in DOMAIN walk[f] : walk[f][n] \in Path
BY DEF TypeOK

\* An open document has a file, a kind and a path, and only one place in a walk.
LEMMA Place ==
  ASSUME IInv, NEW d \in Open
  PROVE  /\ d \in Doc /\ d # None /\ file[d] \in File /\ kind[d] \in Kind /\ path[d] \in Path
         /\ \E n \in DOMAIN walk[file[d]] : path[d] = walk[file[d]][n]
         /\ \A f \in File : \A n \in DOMAIN walk[f] : path[d] = walk[f][n] => file[d] = f
<1>1. d \in Doc /\ state[d] = "open" /\ d # None
  BY DEF Open
<1>2. file[d] \in File /\ kind[d] \in Kind /\ path[d] # None
  BY <1>1 DEF DocumentsApart
<1>3. path[d] \in Path
  BY <1>1, <1>2 DEF TypeOK
<1>4. PICK n \in DOMAIN walk[file[d]] : path[d] = walk[file[d]][n]
  BY DEF NotBehind, IsAt
<1> QED
  BY <1>1, <1>2, <1>3, <1>4 DEF WalksApart

\* So it is registered under the path that it has.
LEMMA IsRegistered ==
  ASSUME IInv, NEW old
  PROVE  RegistryTyped /\ Registered(old)
BY Place DEF Registered, RegistryTyped, OwnProvider, TypeOK

\* What the drive has still to signal is well formed.
LEMMA Entries ==
  ASSUME TypeOK, NEW i \in DOMAIN drive
  PROVE  drive[i] \in [file : File, at : Nat] /\ drive[i].file \in File /\ drive[i].at \in Nat
<1> DEFINE Renames == [file : File, at : Nat]
<1>1. drive \in Seq(Renames)
  BY DEF TypeOK
<1> HIDE DEF Renames
<1>2. drive[i] \in Renames
  BY <1>1
<1> QED
  BY <1>2 DEF Renames

\* A rename is pending if an entry says so.
LEMMA PendingEntry ==
  ASSUME TypeOK, NEW f, NEW n
  PROVE  Pending(f, n) <=> \E i \in DOMAIN drive : drive[i].file = f /\ drive[i].at = n
<1>1. \A i \in DOMAIN drive : drive[i] \in [file : File, at : Nat]
  BY Entries
<1>2. \A r \in [file : File, at : Nat] : r = [file |-> f, at |-> n] <=> r.file = f /\ r.at = n
  OBVIOUS
<1> QED
  BY <1>1, <1>2 DEF Pending

\* Documents of one file that are moved along its walk keep their own providers, take over
\* no other's, and leave the list with their new path if they are all that the file has.
LEMMA Moves ==
  ASSUME IInv, NEW f \in File, NEW m \in DOMAIN walk[f], NEW n \in DOMAIN walk[f], m # n,
         NEW M \in SUBSET Open, \A d \in M : path[d] = walk[f][m],
         Becomes(MovedAll(M, walk[f][m], walk[f][n])),
         UNCHANGED <<walk, state, file, kind, disposed, twice>>
  PROVE  /\ path' = MovedPath(M, walk[f][n])
         /\ path' \in [Doc -> Path \cup {None}] /\ providers' \in [Kind \X Path -> Doc \cup {None}]
         /\ documents' \subseteq Path /\ ListKnown'
         /\ \A d \in Doc : path'[d] = None <=> path[d] = None
         /\ OwnProvider' /\ ListedRight'
<1> DEFINE old == walk[f][m]
           new == walk[f][n]
<1>1. old \in Path /\ new \in Path /\ old # new
  BY Walk DEF WalksApart
<1>2. \A d \in M : /\ d \in Open /\ d \in Doc /\ d # None /\ path[d] = old /\ file[d] = f
                   /\ kind[d] \in Kind /\ providers[<<kind[d], old>>] = d
  BY Place, IsRegistered DEF Registered
<1>3. /\ path' = MovedPath(M, new) /\ providers' = MovedProviders(M, old, new)
      /\ documents' = MovedList(M, old, new)
  BY DEF Becomes, MovedAll
<1>4. \A d \in Open : path[d] \in {old, new} => file[d] = f
  BY Place
<1>5. \A d, e \in Open : file[d] = f /\ file[e] = f /\ kind[d] = kind[e] => d = e
  BY DEF DocumentsApart, Open, Shows
<1> HIDE DEF old, new
<1>6. path' \in [Doc -> Path \cup {None}] /\ \A d \in Doc : path'[d] = None <=> path[d] = None
  BY <1>1, <1>2, <1>3 DEF MovedPath, TypeOK
<1>7. providers' \in [Kind \X Path -> Doc \cup {None}]
  <2>1. \A key \in Kind \X Path : <<key[1], old>> \in Kind \X Path
    BY <1>1
  <2> QED
    BY <1>3, <2>1 DEF MovedProviders, TypeOK
<1>8. documents' \subseteq Path /\ ListKnown'
  <2>1. documents' \subseteq documents \cup {new}
    BY <1>3 DEF MovedList, Listed
  <2>2. documents' \subseteq Path
    BY <1>1, <2>1 DEF TypeOK
  <2>3. ListKnown'
    BY <2>1 DEF ListKnown, new
  <2> QED
    BY <2>2, <2>3
<1>9. Open' = Open
  BY DEF Open
<1>10. OwnProvider'
  <2>1. ASSUME NEW e \in Open PROVE providers'[<<kind[e], path'[e]>>] = e
    <3>1. CASE e \in M
      <4>1. path'[e] = new /\ <<kind[e], new>> \in Kind \X Path /\ <<kind[e], new>>[1] = kind[e]
        BY <1>1, <1>2, <1>3, <3>1 DEF MovedPath
      <4>2. providers'[<<kind[e], new>>] = providers[<<kind[e], old>>]
        BY <1>3, <3>1, <4>1 DEF MovedProviders
      <4> QED
        BY <1>2, <3>1, <4>1, <4>2
    <3>2. CASE e \notin M
      <4>1. path'[e] = path[e] /\ <<kind[e], path[e]>> \in Kind \X Path
        BY <1>3, <3>2, Place DEF MovedPath
      <4>2. ASSUME NEW d \in M, NEW p \in {old, new} PROVE <<kind[e], path[e]>> # <<kind[d], p>>
        BY <1>2, <1>4, <1>5, <3>2
      <4>3. providers'[<<kind[e], path[e]>>] = providers[<<kind[e], path[e]>>]
        BY <1>3, <4>1, <4>2 DEF MovedProviders
      <4> QED
        BY <4>1, <4>3 DEF OwnProvider
    <3> QED
      BY <3>1, <3>2
  <2>2. ASSUME NEW key \in Kind \X Path, providers'[key] # None
        PROVE  providers'[key] \in Open /\ key = <<kind[providers'[key]], path'[providers'[key]]>>
    <3>1. CASE \E d \in M : key = <<kind[d], new>>
      <4>1. PICK d \in M : key = <<kind[d], new>>
        BY <3>1
      <4>2. providers'[key] = providers[<<kind[d], old>>]
        BY <1>3, <4>1 DEF MovedProviders
      <4>3. path'[d] = new
        BY <1>2, <1>3 DEF MovedPath
      <4> QED
        BY <1>2, <4>1, <4>2, <4>3
    <3>2. CASE ~\E d \in M : key = <<kind[d], new>>
      <4>1. providers'[key] = providers[key] /\ ~\E d \in M : key = <<kind[d], old>>
        BY <1>3, <2>2, <3>2 DEF MovedProviders
      <4> DEFINE e == providers[key]
      <4>2. e \in Open /\ key = <<kind[e], path[e]>>
        BY <2>2, <4>1 DEF OwnProvider
      <4>3. e \notin M
        BY <1>2, <4>1, <4>2
      <4>4. path'[e] = path[e]
        BY <1>3, <4>2, <4>3, Place DEF MovedPath
      <4> QED
        BY <4>1, <4>2, <4>4
    <3> QED
      BY <3>1, <3>2
  <2>3. disposed' = {d \in Doc : state'[d] = "closed" /\ path'[d] # None}
    BY <1>6 DEF OwnProvider
  <2> QED
    BY <1>9, <2>1, <2>2, <2>3 DEF OwnProvider
<1>11. ListedRight'
  <2> DEFINE On(list, g) == {p \in list : \E k \in DOMAIN walk[g] : p = walk[g][k]}
             Has(g) == {path[d] : d \in {e \in Open : file[e] = g}}
             WillHave(g) == {path'[d] : d \in {e \in Open : file[e] = g}}
  <2>1. SUFFICES ASSUME NEW g \in File \ twice PROVE On(documents', g) = WillHave(g)
    BY <1>9 DEF ListedRight
  <2>2. On(documents, g) = Has(g)
    BY DEF ListedRight
  <2>3. CASE M = {}
    <3>1. documents' = documents /\ WillHave(g) = Has(g)
      BY <1>3, <2>3, Place DEF MovedPath, MovedList
    <3> QED
      BY <2>2, <3>1
  <2>4. CASE M # {} /\ g # f
    <3>1. old \notin On(Path, g) /\ new \notin On(Path, g)
      BY <2>4 DEF WalksApart, old, new
    <3>2. On(documents', g) = On(documents, g)
      BY <1>1, <1>3, <3>1 DEF MovedList, Listed
    <3>3. WillHave(g) = Has(g)
      BY <1>2, <1>3, <2>4, Place DEF MovedPath
    <3> QED
      BY <2>2, <3>2, <3>3
  <2>5. CASE M # {} /\ g = f
    <3>1. PICK d \in M : TRUE
      BY <2>5
    <3>2. {e \in Open : file[e] = g} = {d}
      <4>1. d \in Open /\ file[d] = g
        BY <1>2, <2>5, <3>1
      <4>2. \A e \in Open : file[e] = g => e = d
        BY <4>1 DEF DocumentsApart
      <4> QED
        BY <4>1, <4>2
    <3>3. Has(g) = {old} /\ WillHave(g) = {new}
      <4>1. path[d] = old /\ path'[d] = new
        BY <1>2, <1>3, <3>1 DEF MovedPath
      <4>2. Has(g) = {path[d]} /\ WillHave(g) = {path'[d]}
        BY <3>2
      <4> QED
        BY <4>1, <4>2
    <3>4. old \in documents /\ new \notin documents
      <4>1. new \in On({new}, g)
        BY <2>5 DEF new
      <4> QED
        BY <1>1, <2>2, <3>3, <4>1
    <3>5. documents' = (documents \ {old}) \cup {new}
      BY <1>3, <2>5, <3>4 DEF MovedList, Listed
    <3>6. On(documents', g) = {new}
      <4>1. new \in On({new}, g)
        BY <2>5 DEF new
      <4> QED
        BY <2>2, <3>3, <3>5, <4>1
    <3> QED
      BY <3>3, <3>6
  <2> QED
    BY <2>3, <2>4, <2>5
<1> QED
  BY <1>3, <1>6, <1>7, <1>8, <1>10, <1>11 DEF new

-----------------------------------------------------------------------------
(* The steps of the files                                                  *)

\* At first every file has its own path, and no document is open.
LEMMA InitInv == Init => IInv
<1> SUFFICES ASSUME Init PROVE IInv
  OBVIOUS
<1>1. PICK home \in [File -> Path] : IsInjective(home) /\ walk = [f \in File |-> <<home[f]>>]
  BY DEF Init
<1>2. \A f \in File : walk[f] = <<home[f]>> /\ DOMAIN walk[f] = {1} /\ walk[f][1] = home[f]
  BY <1>1
<1>3. WalksApart
  BY <1>1, <1>2 DEF WalksApart, IsInjective
<1>4. Open = {}
  BY DEF Init, Open
<1>5. TypeOK
  <2>1. walk \in [File -> Seq(Path)]
    BY <1>1
  <2> QED
    BY <2>1 DEF Init, TypeOK
<1>6. NotBehind /\ OwnProvider
  BY <1>4 DEF Init, NotBehind, OwnProvider
<1>7. DriveInOrder /\ ToldInWalk /\ ListKnown
  BY <1>2 DEF Init, DriveInOrder, ToldInWalk, ListKnown, Pending
<1>8. DocumentsApart
  BY <1>4 DEF Init, DocumentsApart, Shows, IsInjective, Open
<1>9. ListedRight
  BY <1>4 DEF Init, ListedRight
<1>10. Fetching
  BY <1>4 DEF Init, Fetching
<1> QED
  BY <1>3, <1>5, <1>6, <1>7, <1>8, <1>9, <1>10

\* A file that is renamed has one path more, that no file has had, and the drive one
\* rename more to signal.
LEMMA RenameStep ==
  ASSUME IInv, ~Reuse, NEW f \in File, NEW p \in Path, Rename(f, p)
  PROVE  IInv'
<1> DEFINE L == Len(walk[f])
           r == [file |-> f, at |-> L + 1]
<1>1. L \in Nat /\ DOMAIN walk[f] = 1 .. L /\ walk[f] \in Seq(Path)
  BY Walk
<1>2. walk' = [walk EXCEPT ![f] = Append(walk[f], p)]
  BY DEF Rename
<1>3. /\ walk'[f] = Append(walk[f], p) /\ walk'[f] \in Seq(Path)
      /\ DOMAIN walk'[f] = 1 .. L + 1 /\ Len(walk'[f]) = L + 1 /\ walk'[f][L + 1] = p
      /\ \A n \in DOMAIN walk[f] : walk'[f][n] = walk[f][n]
      /\ \A g \in File : g # f => walk'[g] = walk[g]
  BY <1>1, <1>2 DEF TypeOK
<1>4. \A g \in File : \A n \in DOMAIN walk[g] : walk[g][n] # p
  BY DEF Rename, ToSet
<1>5. drive' = Append(drive, r)
  BY <1>3 DEF Rename
<1>6. r \in [file : File, at : Nat]
  BY <1>1
<1> HIDE DEF L, r
<1>7. UNCHANGED <<told, hash, path, providers, documents, shared, seen, gets, emitted, overtaken,
                  state, file, kind, listening, disposed, twice>>
  BY DEF Rename, registry, model
<1>8. \A g \in File : \A n \in DOMAIN walk[g] : n \in DOMAIN walk'[g] /\ walk'[g][n] = walk[g][n]
  BY <1>1, <1>3
<1>9. \A g \in File : \A n \in DOMAIN walk'[g] : n \in DOMAIN walk[g] \/ (g = f /\ n = L + 1)
  BY <1>1, <1>3
<1>10. TypeOK'
  <2>1. walk' \in [File -> Seq(Path)]
    BY <1>2, <1>3 DEF TypeOK
  <2>2. drive' \in Seq([file : File, at : Nat])
    <3> DEFINE Renames == [file : File, at : Nat]
    <3>1. drive \in Seq(Renames)
      BY DEF TypeOK
    <3> HIDE DEF Renames
    <3>2. Append(drive, r) \in Seq(Renames)
      BY <1>6, <3>1 DEF Renames
    <3> QED
      BY <1>5, <3>2 DEF Renames
  <2> QED
    BY <1>7, <2>1, <2>2 DEF TypeOK
<1>11. WalksApart'
  <2> SUFFICES ASSUME NEW g \in File, NEW h \in File, NEW m \in DOMAIN walk'[g], NEW n \in DOMAIN walk'[h],
                      walk'[g][m] = walk'[h][n]
               PROVE  g = h /\ m = n
    BY DEF WalksApart
  <2>1. CASE m \in DOMAIN walk[g] /\ n \in DOMAIN walk[h]
    BY <1>8, <2>1 DEF WalksApart
  <2>2. CASE m \in DOMAIN walk[g] /\ n \notin DOMAIN walk[h]
    BY <1>3, <1>4, <1>8, <1>9, <2>2
  <2>3. CASE m \notin DOMAIN walk[g] /\ n \in DOMAIN walk[h]
    BY <1>3, <1>4, <1>8, <1>9, <2>3
  <2>4. CASE m \notin DOMAIN walk[g] /\ n \notin DOMAIN walk[h]
    BY <1>9, <2>4
  <2> QED
    BY <2>1, <2>2, <2>3, <2>4
<1>12. /\ \A i \in DOMAIN drive : i \in DOMAIN drive' /\ drive'[i] = drive[i]
       /\ \A i \in DOMAIN drive' : i \notin DOMAIN drive =>
            drive'[i] = r /\ \A j \in DOMAIN drive : j < i
       /\ \E i \in DOMAIN drive' : drive'[i] = r
       /\ DOMAIN drive' \subseteq Nat
       /\ \A i, j \in DOMAIN drive' : i \notin DOMAIN drive /\ j \notin DOMAIN drive => i = j
  <2> DEFINE Renames == [file : File, at : Nat]
  <2>1. drive \in Seq(Renames)
    BY DEF TypeOK
  <2> HIDE DEF Renames
  <2> QED
    BY <1>5, <1>6, <2>1 DEF Renames
<1>13. r.file = f /\ r.at = L + 1
  BY DEF r
<1>14. \A g, n : Pending(g, n)' <=> Pending(g, n) \/ (g = f /\ n = L + 1)
  <2>1. ASSUME NEW g, NEW n PROVE [file |-> g, at |-> n] = r <=> g = f /\ n = L + 1
    BY DEF r
  <2>2. ASSUME NEW x PROVE (\E i \in DOMAIN drive' : drive'[i] = x)
                           <=> (\E i \in DOMAIN drive : drive[i] = x) \/ x = r
    BY <1>12
  <2> QED
    BY <2>1, <2>2 DEF Pending
<1>15. Open' = Open
  BY <1>7 DEF Open
<1>16. NotBehind'
  <2> SUFFICES ASSUME NEW d \in Open
               PROVE  \E n \in DOMAIN walk'[file[d]] :
                        /\ path[d] = walk'[file[d]][n]
                        /\ \A m \in DOMAIN walk'[file[d]] : m > n => Pending(file[d], m)'
    BY <1>7, <1>15 DEF NotBehind, IsAt
  <2>1. file[d] \in File
    BY Place
  <2>2. PICK n \in DOMAIN walk[file[d]] :
          IsAt(d, n) /\ \A m \in DOMAIN walk[file[d]] : m > n => Pending(file[d], m)
    BY DEF NotBehind
  <2>3. n \in DOMAIN walk'[file[d]] /\ path[d] = walk'[file[d]][n]
    BY <1>8, <2>1, <2>2 DEF IsAt
  <2>4. ASSUME NEW m \in DOMAIN walk'[file[d]], m > n PROVE Pending(file[d], m)'
    <3>1. file'[d] = file[d]
      BY <1>7
    <3>2. m \in DOMAIN walk[file[d]] => Pending(file[d], m)
      BY <2>2, <2>4
    <3> QED
      BY <1>9, <1>14, <2>1, <2>4, <3>1, <3>2
  <2> QED
    BY <2>3, <2>4
<1>17. OwnProvider' /\ DocumentsApart' /\ Fetching'
  BY <1>7, <1>15 DEF OwnProvider, DocumentsApart, Fetching, Shows
<1>18. DriveInOrder'
  <2>1. ASSUME NEW i \in DOMAIN drive' PROVE drive'[i].at \in 2 .. Len(walk'[drive'[i].file])
    <3>1. CASE i \in DOMAIN drive
      <4>1. drive[i].file \in File /\ drive[i].at \in 2 .. Len(walk[drive[i].file])
        BY <3>1, Entries DEF DriveInOrder
      <4>2. Len(walk[drive[i].file]) \in Nat
        BY <4>1, Walk
      <4>3. Len(walk'[drive[i].file]) \in {Len(walk[drive[i].file]), Len(walk[drive[i].file]) + 1}
        BY <1>3, <4>1 DEF L
      <4> QED
        BY <1>12, <3>1, <4>1, <4>2, <4>3
    <3>2. CASE i \notin DOMAIN drive
      <4>1. drive'[i] = r /\ L + 1 >= 2
        <5>1. L # 0
          BY <1>1 DEF ToldInWalk
        <5> QED
          BY <1>1, <1>12, <3>2, <5>1
      <4> QED
        BY <1>1, <1>3, <1>13, <4>1
    <3> QED
      BY <3>1, <3>2
  <2>2. ASSUME NEW i \in DOMAIN drive', NEW j \in DOMAIN drive', i < j, drive'[i].file = drive'[j].file
        PROVE  drive'[i].at < drive'[j].at
    <3>1. i \in DOMAIN drive
      <4>1. i \in Nat /\ j \in Nat
        BY <1>12
      <4> QED
        BY <1>12, <2>2, <4>1
    <3>2. CASE j \in DOMAIN drive
      BY <1>12, <2>2, <3>1, <3>2 DEF DriveInOrder
    <3>3. CASE j \notin DOMAIN drive
      <4>1. drive'[j] = r /\ drive[i].file = f /\ drive[i].at \in 2 .. Len(walk[f])
        BY <1>12, <1>13, <2>2, <3>1, <3>3 DEF DriveInOrder
      <4> QED
        BY <1>1, <1>12, <1>13, <3>1, <4>1 DEF L
    <3> QED
      BY <3>2, <3>3
  <2>3. ASSUME NEW g \in File, NEW m \in DOMAIN walk'[g], NEW n \in DOMAIN walk'[g], Pending(g, m)', m < n
        PROVE  Pending(g, n)'
    <3>1. m \in DOMAIN walk[g] /\ Pending(g, m)
      BY <1>1, <1>3, <1>9, <1>14, <2>3
    <3> QED
      BY <1>9, <1>14, <2>3, <3>1 DEF DriveInOrder
  <2> QED
    BY <2>1, <2>2, <2>3 DEF DriveInOrder
<1>19. ToldInWalk' /\ ListKnown'
  BY <1>7, <1>8 DEF ToldInWalk, ListKnown
<1>20. ListedRight'
  <2>1. ASSUME NEW g \in File
        PROVE  {q \in documents : \E n \in DOMAIN walk'[g] : q = walk'[g][n]}
                 = {q \in documents : \E n \in DOMAIN walk[g] : q = walk[g][n]}
    <3>1. p \notin documents
      BY <1>4 DEF ListKnown
    <3>2. \A q \in documents : (\E n \in DOMAIN walk'[g] : q = walk'[g][n])
                               <=> \E n \in DOMAIN walk[g] : q = walk[g][n]
      BY <1>3, <1>8, <1>9, <3>1
    <3> QED
      BY <3>2
  <2> QED
    BY <1>7, <1>15, <2>1 DEF ListedRight
<1> QED
  BY <1>10, <1>11, <1>16, <1>17, <1>18, <1>19, <1>20

\* The server's rooms are told where the file is, or save it: of the documents'
\* part nothing changes.
LEMMA ServerStep ==
  ASSUME IInv, NEW f \in File, Poll(f) \/ ServerSave(f)
  PROVE  IInv'
<1> USE DEF registry, model
<1>1. UNCHANGED <<walk, drive, path, providers, documents, shared, seen, gets, emitted, overtaken,
                  state, file, kind, listening, disposed, twice>>
  BY DEF Poll, ServerSave
<1>2. /\ told' \in [File -> Nat] /\ hash' \in [File -> Nat]
      /\ \A g \in File : told'[g] \in DOMAIN walk[g] /\ told[g] <= told'[g] /\ hash[g] <= hash'[g]
  <2>1. \A g \in File : told[g] \in DOMAIN walk[g] /\ DOMAIN walk[g] = 1 .. Len(walk[g])
                        /\ Len(walk[g]) \in Nat
    BY Walk DEF ToldInWalk
  <2>2. told \in [File -> Nat] /\ hash \in [File -> Nat]
    BY DEF TypeOK
  <2>3. CASE Poll(f)
    BY <2>1, <2>2, <2>3 DEF Poll
  <2>4. CASE ServerSave(f)
    BY <2>1, <2>2, <2>4 DEF ServerSave
  <2> QED
    BY <2>3, <2>4
<1>3. Open' = Open
  BY <1>1 DEF Open
<1>4. TypeOK'
  BY <1>1, <1>2 DEF TypeOK
<1>5. NotBehind' /\ OwnProvider' /\ WalksApart' /\ DriveInOrder' /\ ListKnown' /\ ListedRight'
  BY <1>1, <1>3 DEF NotBehind, IsAt, Pending, OwnProvider, WalksApart, DriveInOrder, ListKnown, ListedRight
<1>6. ToldInWalk'
  BY <1>1, <1>2 DEF ToldInWalk
<1>7. DocumentsApart'
  <2>1. \A d \in Open : shared[d] <= told'[file[d]]
    <3> TAKE d \in Open
    <3>1. shared[d] \in Nat /\ shared[d] <= told[file[d]] /\ file[d] \in File
      BY Place DEF DocumentsApart, TypeOK
    <3>2. told[file[d]] \in Nat /\ told'[file[d]] \in Nat
      BY <1>2, <3>1 DEF TypeOK
    <3> QED
      BY <1>2, <3>1, <3>2
  <2> QED
    BY <1>1, <1>3, <2>1 DEF DocumentsApart, Shows
<1>8. Fetching'
  <2>1. \A d \in Open : seen[d] <= hash'[file[d]]
    <3> TAKE d \in Open
    <3>1. seen[d] \in Nat /\ seen[d] <= hash[file[d]] /\ file[d] \in File
      BY Place DEF Fetching, TypeOK
    <3>2. hash[file[d]] \in Nat /\ hash'[file[d]] \in Nat
      BY <1>2, <3>1 DEF TypeOK
    <3> QED
      BY <1>2, <3>1, <3>2
  <2> QED
    BY <1>1, <1>3, <2>1 DEF Fetching
<1> QED
  BY <1>4, <1>5, <1>6, <1>7, <1>8

-----------------------------------------------------------------------------
(* The steps that move documents                                           *)

\* The drive signals the first rename of a file that is pending; the documents of its old
\* path go along, and a document that is further in the walk already stays there.
LEMMA DriveStep ==
  ASSUME IInv, DriveSignal
  PROVE  IInv'
<1> DEFINE f == Head(drive).file
           n == Head(drive).at
           M == {d \in Open : path[d] = walk[f][n - 1]}
           Renames == [file : File, at : Nat]
           Still(g, m) == \E i \in DOMAIN drive' : drive'[i] = [file |-> g, at |-> m]
<1>1. drive \in Seq(Renames) /\ drive # <<>>
  BY DEF DriveSignal, TypeOK
<1> HIDE DEF Renames
<1>2. /\ DOMAIN drive = 1 .. Len(drive) /\ Len(drive) \in Nat /\ 1 \in DOMAIN drive /\ Head(drive) = drive[1]
      /\ DOMAIN Tail(drive) = 1 .. Len(drive) - 1
      /\ \A i \in DOMAIN Tail(drive) : i + 1 \in DOMAIN drive /\ Tail(drive)[i] = drive[i + 1]
      /\ \A i \in DOMAIN drive : i # 1 => i - 1 \in DOMAIN Tail(drive) /\ drive[i] = Tail(drive)[i - 1]
      /\ Tail(drive) \in Seq(Renames)
  BY <1>1
<1>3. f \in File /\ drive[1].file = f /\ drive[1].at = n /\ Len(walk[f]) \in Nat /\ n \in 2 .. Len(walk[f])
  BY <1>2, Entries, Walk DEF DriveInOrder
<1>4. n \in DOMAIN walk[f] /\ n - 1 \in DOMAIN walk[f] /\ n - 1 # n /\ n - 1 < n /\ n \in Nat
  BY <1>3, Walk
<1>5. /\ Becomes(Signal(walk[f][n - 1], walk[f][n])) /\ drive' = Tail(drive)
      /\ UNCHANGED <<walk, told, hash, shared, seen, gets, emitted, overtaken,
                     state, file, kind, listening, disposed, twice>>
  BY DEF DriveSignal, model
<1> HIDE DEF f, n
<1>6. Signal(walk[f][n - 1], walk[f][n]) = MovedAll(M, walk[f][n - 1], walk[f][n])
  <2>1. walk[f][n - 1] \in Path /\ walk[f][n] \in Path /\ walk[f][n - 1] # walk[f][n]
    BY <1>3, <1>4, Walk DEF WalksApart
  <2>2. listening \in Seq(Doc) /\ Open = {listening[i] : i \in DOMAIN listening}
    BY DEF TypeOK, DocumentsApart
  <2> QED
    BY <2>1, <2>2, IsRegistered, SignalMoves
<1>7. M \in SUBSET Open /\ \A d \in M : path[d] = walk[f][n - 1]
  OBVIOUS
<1> HIDE DEF M
<1>8. /\ path' = MovedPath(M, walk[f][n])
      /\ path' \in [Doc -> Path \cup {None}] /\ providers' \in [Kind \X Path -> Doc \cup {None}]
      /\ documents' \subseteq Path /\ ListKnown'
      /\ \A d \in Doc : path'[d] = None <=> path[d] = None
      /\ OwnProvider' /\ ListedRight'
  <2>1. Becomes(MovedAll(M, walk[f][n - 1], walk[f][n]))
    BY <1>5, <1>6
  <2>2. UNCHANGED <<walk, state, file, kind, disposed, twice>>
    BY <1>5
  <2>3. PICK m : m = n - 1
    OBVIOUS
  <2>4. /\ f \in File /\ m \in DOMAIN walk[f] /\ n \in DOMAIN walk[f] /\ m # n /\ M \in SUBSET Open
        /\ \A d \in M : path[d] = walk[f][m]
        /\ Becomes(MovedAll(M, walk[f][m], walk[f][n]))
    BY <1>3, <1>4, <1>7, <2>1, <2>3
  <2> QED
    BY <2>2, <2>4, Moves
<1>9. Open' = Open
  BY <1>5 DEF Open
<1>10. \A m : Pending(f, m) => m >= n
  <2>1. ASSUME NEW m, NEW i \in DOMAIN drive, drive[i].file = f, drive[i].at = m PROVE m >= n
    <3>1. CASE i = 1
      BY <1>3, <1>4, <2>1, <3>1
    <3>2. CASE i # 1
      <4>1. 1 < i
        BY <1>2, <3>2
      <4>2. drive[1].at < drive[i].at /\ drive[i].at \in Nat
        BY <1>2, <1>3, <2>1, <4>1, Entries DEF DriveInOrder
      <4> QED
        BY <1>3, <1>4, <2>1, <4>2
    <3> QED
      BY <3>1, <3>2
  <2> QED
    BY <2>1, PendingEntry
<1>11. \A g, m : (\E i \in DOMAIN drive' : drive'[i].file = g /\ drive'[i].at = m)
                   <=> Pending(g, m) /\ ~(g = f /\ m = n)
  <2> SUFFICES ASSUME NEW g, NEW m
               PROVE  (\E i \in DOMAIN drive' : drive'[i].file = g /\ drive'[i].at = m)
                        <=> Pending(g, m) /\ ~(g = f /\ m = n)
    OBVIOUS
  <2>1. ASSUME NEW i \in DOMAIN drive', drive'[i].file = g, drive'[i].at = m
        PROVE  Pending(g, m) /\ ~(g = f /\ m = n)
    <3>1. i + 1 \in DOMAIN drive /\ drive[i + 1].file = g /\ drive[i + 1].at = m /\ 1 < i + 1
      BY <1>2, <1>5, <2>1
    <3>2. Pending(g, m)
      BY <3>1, PendingEntry
    <3>3. g = f => n < m
      BY <1>2, <1>3, <3>1 DEF DriveInOrder
    <3> QED
      BY <1>4, <3>2, <3>3
  <2>2. ASSUME Pending(g, m), ~(g = f /\ m = n)
        PROVE  \E i \in DOMAIN drive' : drive'[i].file = g /\ drive'[i].at = m
    <3>1. PICK i \in DOMAIN drive : drive[i].file = g /\ drive[i].at = m
      BY <2>2, PendingEntry
    <3>2. i # 1
      BY <1>3, <2>2, <3>1
    <3> QED
      BY <1>2, <1>5, <3>1, <3>2
  <2> QED
    BY <2>1, <2>2
<1>12. TypeOK'
  <2>1. drive' \in Seq([file : File, at : Nat])
    BY <1>2, <1>5 DEF Renames
  <2> QED
    BY <1>5, <1>8, <2>1 DEF TypeOK
<1>13. \A g, m : Still(g, m) <=> Pending(g, m) /\ ~(g = f /\ m = n)
  <2>1. \A g, m : Still(g, m) <=> \E i \in DOMAIN drive' : drive'[i].file = g /\ drive'[i].at = m
    <3>1. \A r \in [file : File, at : Nat] : \A g, m : r = [file |-> g, at |-> m] <=> r.file = g /\ r.at = m
      OBVIOUS
    <3>2. \A i \in DOMAIN drive' : drive'[i] \in [file : File, at : Nat]
      <4>1. \A i \in DOMAIN drive' : drive'[i] \in Renames
        BY <1>2, <1>5
      <4> QED
        BY <4>1 DEF Renames
    <3> QED
      BY <3>1, <3>2
  <2> QED
    BY <1>11, <2>1
<1> HIDE DEF Still
<1>14. NotBehind'
  <2> SUFFICES ASSUME NEW d \in Open
               PROVE  \E k \in DOMAIN walk[file[d]] :
                        /\ path'[d] = walk[file[d]][k]
                        /\ \A m \in DOMAIN walk[file[d]] : m > k => Still(file'[d], m)
    BY <1>5, <1>9 DEF NotBehind, IsAt, Pending, Still
  <2>1. file[d] \in File /\ d \in Doc /\ file'[d] = file[d]
    BY <1>5, Place
  <2>2. PICK k \in DOMAIN walk[file[d]] :
          IsAt(d, k) /\ \A m \in DOMAIN walk[file[d]] : m > k => Pending(file[d], m)
    BY DEF NotBehind
  <2>3. CASE d \in M
    <3>1. file[d] = f /\ path'[d] = walk[f][n]
      BY <1>3, <1>4, <1>7, <1>8, <2>1, <2>3, Place DEF MovedPath
    <3>2. Pending(f, n)
      BY <1>2, <1>3, PendingEntry
    <3>3. \A m \in DOMAIN walk[f] : m > n => Pending(f, m) /\ m # n
      BY <1>3, <1>4, <3>2, Walk DEF DriveInOrder
    <3>4. \A m \in DOMAIN walk[f] : m > n => Still(file'[d], m)
      BY <1>13, <2>1, <3>1, <3>3
    <3> QED
      BY <1>4, <3>1, <3>4
  <2>4. CASE d \notin M
    <3>1. path'[d] = path[d] /\ path[d] = walk[file[d]][k]
      BY <1>8, <2>1, <2>2, <2>4 DEF MovedPath, IsAt
    <3>2. ~(file[d] = f /\ n > k)
      <4> SUFFICES ASSUME file[d] = f, n > k PROVE FALSE
        OBVIOUS
      <4>1. k # n - 1
        BY <2>4, <3>1 DEF M
      <4>2. k \in Nat /\ n - 1 > k
        BY <1>3, <1>4, <4>1, Walk
      <4>3. Pending(f, n - 1)
        BY <1>4, <2>2, <4>2
      <4> QED
        BY <1>4, <1>10, <4>3
    <3>3. \A m \in DOMAIN walk[file[d]] : m > k => Still(file'[d], m)
      BY <1>13, <2>1, <2>2, <3>2
    <3> QED
      BY <3>1, <3>3
  <2> QED
    BY <2>3, <2>4
<1>15. DriveInOrder'
  <2>1. \A i \in DOMAIN drive' : drive'[i].at \in 2 .. Len(walk'[drive'[i].file])
    BY <1>2, <1>5 DEF DriveInOrder
  <2>2. \A i, j \in DOMAIN drive' : i < j /\ drive'[i].file = drive'[j].file => drive'[i].at < drive'[j].at
    <3> TAKE i, j \in DOMAIN drive'
    <3> HAVE i < j /\ drive'[i].file = drive'[j].file
    <3>1. i + 1 \in DOMAIN drive /\ j + 1 \in DOMAIN drive /\ i + 1 < j + 1
      BY <1>2, <1>5
    <3>2. drive'[i] = drive[i + 1] /\ drive'[j] = drive[j + 1]
      BY <1>2, <1>5
    <3> QED
      BY <3>1, <3>2 DEF DriveInOrder
  <2>3. ASSUME NEW g \in File, NEW m \in DOMAIN walk[g], NEW k \in DOMAIN walk[g], Still(g, m), m < k
        PROVE  Still(g, k)
    <3>1. Pending(g, m) /\ ~(g = f /\ m = n) /\ Pending(g, k)
      BY <1>13, <2>3 DEF DriveInOrder
    <3>2. ~(g = f /\ k = n)
      BY <1>4, <1>10, <2>3, <3>1, Walk
    <3> QED
      BY <1>13, <3>1, <3>2
  <2> QED
    BY <1>5, <2>1, <2>2, <2>3 DEF DriveInOrder, Pending, Still
<1>16. WalksApart' /\ ToldInWalk'
  BY <1>5 DEF WalksApart, ToldInWalk
<1>17. DocumentsApart'
  <2>1. Open \subseteq Doc
    BY DEF Open
  <2> QED
    BY <1>5, <1>8, <1>9, <2>1 DEF DocumentsApart, Shows
<1>18. Fetching'
  BY <1>5, <1>9 DEF Fetching
<1> QED
  BY <1>8, <1>12, <1>14, <1>15, <1>16, <1>17, <1>18

\* What leaves registry, walks and documents alone keeps what is said of them.
LEMMA Unmoved ==
  ASSUME IInv, UNCHANGED <<walk, drive, registry, state, file, kind, disposed, twice>>
  PROVE  /\ NotBehind' /\ OwnProvider' /\ WalksApart' /\ DriveInOrder' /\ ListKnown' /\ ListedRight'
         /\ Open' = Open
BY DEF registry, Open, NotBehind, IsAt, Pending, OwnProvider, WalksApart, DriveInOrder, ListKnown, ListedRight

\* A change of the shared model moves its document, if it moves it, along the walk.
LEMMA ChangeMoves ==
  ASSUME IInv, NEW d \in Open, NEW f, f = file[d], NEW m, m = shared[d], m # 0, m < told[f],
         Becomes(Moved(Registry, d, walk[f][m], walk[f][told[f]]))
  PROVE  \E M \in SUBSET {d} :
           /\ \A e \in M : path[e] = walk[f][m]
           /\ Becomes(MovedAll(M, walk[f][m], walk[f][told[f]]))
<1> DEFINE old == walk[f][m]
           new == walk[f][told[f]]
<1>1. /\ d \in Doc /\ f \in File /\ m \in Nat /\ told[f] \in DOMAIN walk[f]
      /\ DOMAIN walk[f] = 1 .. Len(walk[f]) /\ Len(walk[f]) \in Nat
  BY Place, Walk DEF ToldInWalk, TypeOK
<1>2. m \in DOMAIN walk[f] /\ m # told[f]
  BY <1>1
<1>3. old \in Path /\ new \in Path /\ old # new
  BY <1>1, <1>2, Walk DEF WalksApart
<1> HIDE DEF old, new
<1>4. RegistryTyped /\ Registered(old)
  BY IsRegistered
<1>5. MovedAll({}, old, new) = Registry
  BY <1>4, NoneMoved
<1>6. CASE path[d] = old
  <2>1. Moved(MovedAll({}, old, new), d, old, new) = MovedAll({} \cup {d}, old, new)
    BY <1>3, <1>4, <1>6, MovedTurn
  <2>2. {} \cup {d} = {d}
    OBVIOUS
  <2>3. Becomes(MovedAll({d}, old, new))
    BY <1>5, <2>1, <2>2 DEF old, new
  <2> QED
    BY <1>6, <2>3 DEF old, new
<1>7. CASE path[d] # old
  <2>1. Moved(MovedAll({}, old, new), d, old, new) = MovedAll({}, old, new)
    BY <1>3, <1>4, <1>7, UnmovedTurn
  <2>2. Becomes(MovedAll({}, old, new))
    BY <1>5, <2>1 DEF old, new
  <2> QED
    BY <2>2 DEF old, new
<1> QED
  BY <1>6, <1>7

\* The shared model tells a document where its file was when the server looked, which is
\* no place before its own, and which save of the server is the last.
LEMMA ChangeStep ==
  ASSUME IInv, NEW d \in Doc, SharedChange(d)
  PROVE  IInv'
<1> DEFINE f == file[d]
<1>1. /\ d \in Open /\ (shared[d] < told[f] \/ seen[d] < hash[f])
      /\ shared' = [shared EXCEPT ![d] = told[f]] /\ seen' = [seen EXCEPT ![d] = hash[f]]
      /\ UNCHANGED <<walk, told, hash, drive, emitted, state, file, kind, listening, disposed, twice>>
  BY DEF SharedChange, Open, world
<1>2. f \in File /\ told[f] \in Nat /\ hash[f] \in Nat /\ shared[d] \in Nat /\ seen[d] \in Nat
  BY <1>1, Place DEF TypeOK
<1>3. Open' = Open
  BY <1>1 DEF Open
<1>4. /\ NotBehind' /\ OwnProvider' /\ ListKnown' /\ ListedRight'
      /\ path' \in [Doc -> Path \cup {None}] /\ providers' \in [Kind \X Path -> Doc \cup {None}]
      /\ documents' \subseteq Path
      /\ \A e \in Doc : path'[e] = None <=> path[e] = None
  <2>1. CASE UNCHANGED registry
    <3>1. NotBehind' /\ OwnProvider' /\ ListKnown' /\ ListedRight'
      BY <1>1, <2>1, Unmoved
    <3> QED
      BY <2>1, <3>1 DEF registry, TypeOK
  <2>2. CASE shared[d] # 0 /\ shared[d] < told[f]
    <3> DEFINE m == shared[d]
               n == told[f]
    <3>1. Becomes(Moved(Registry, d, walk[f][m], walk[f][n]))
      BY <2>2 DEF SharedChange
    <3>2. PICK M \in SUBSET {d} : /\ \A e \in M : path[e] = walk[f][m]
                                  /\ Becomes(MovedAll(M, walk[f][m], walk[f][n]))
      BY <1>1, <2>2, <3>1, ChangeMoves
    <3>3. m \in DOMAIN walk[f] /\ n \in DOMAIN walk[f] /\ m # n /\ m < n /\ M \in SUBSET Open
      BY <1>1, <1>2, <2>2, Walk DEF ToldInWalk
    <3>4. UNCHANGED <<walk, state, file, kind, disposed, twice>>
      BY <1>1
    <3> HIDE DEF f, m, n
    <3>5. /\ path' = MovedPath(M, walk[f][n])
          /\ path' \in [Doc -> Path \cup {None}] /\ providers' \in [Kind \X Path -> Doc \cup {None}]
          /\ documents' \subseteq Path /\ ListKnown'
          /\ \A e \in Doc : path'[e] = None <=> path[e] = None
          /\ OwnProvider' /\ ListedRight'
      BY <1>2, <3>2, <3>3, <3>4, Moves
    <3>6. NotBehind'
      <4> SUFFICES ASSUME NEW e \in Open
                   PROVE  \E k \in DOMAIN walk[file[e]] :
                            /\ path'[e] = walk[file[e]][k]
                            /\ \A j \in DOMAIN walk[file[e]] : j > k => Pending(file[e], j)
        BY <1>1, <1>3 DEF NotBehind, IsAt, Pending
      <4>1. PICK k \in DOMAIN walk[file[e]] :
              IsAt(e, k) /\ \A j \in DOMAIN walk[file[e]] : j > k => Pending(file[e], j)
        BY DEF NotBehind
      <4>2. CASE e \notin M
        BY <3>5, <4>1, <4>2, Place DEF MovedPath, IsAt
      <4>3. CASE e \in M
        <5>1. e = d /\ file[e] = f /\ path'[e] = walk[f][n] /\ path[e] = walk[f][m] /\ e \in Doc
          BY <3>2, <3>5, <4>3, Place DEF MovedPath, f
        <5>2. k = m
          BY <1>2, <3>3, <4>1, <5>1 DEF IsAt, WalksApart
        <5>3. \A j \in DOMAIN walk[f] : j > n => Pending(f, j)
          <6> TAKE j \in DOMAIN walk[f]
          <6> HAVE j > n
          <6>1. j > m
            BY <1>2, <3>3, Walk
          <6> QED
            BY <4>1, <5>1, <5>2, <6>1
        <5> QED
          BY <3>3, <5>1, <5>3
      <4> QED
        BY <4>2, <4>3
    <3> QED
      BY <3>5, <3>6
  <2>3. CASE shared[d] = 0 /\ shared[d] < told[f]
    <3>1. Becomes(Registry)
      BY <2>3 DEF SharedChange, Moved, Concerns
    <3>2. UNCHANGED registry
      BY <3>1 DEF Becomes, Registry, registry
    <3> QED
      BY <2>1, <3>2
  <2>4. CASE ~(shared[d] < told[f])
    BY <2>1, <2>4 DEF SharedChange
  <2> QED
    BY <2>2, <2>3, <2>4
<1>5. /\ gets' \in [Doc -> SUBSET Nat] /\ overtaken' \in [Doc -> BOOLEAN]
      /\ \A e \in Doc : ~overtaken'[e] =>
           gets'[e] = {seen'[e]} \/ (gets'[e] = {} /\ emitted[e] = seen'[e])
  <2>1. seen[d] <= hash[f]
    BY <1>1 DEF Fetching
  <2>2. CASE seen[d] < hash[f]
    <3>1. /\ gets' = [gets EXCEPT ![d] = gets[d] \cup {hash[f]}]
          /\ overtaken' = [overtaken EXCEPT ![d] = gets[d] # {}]
      BY <2>2 DEF SharedChange, NewHash, FetchModel
    <3>2. gets' \in [Doc -> SUBSET Nat] /\ overtaken' \in [Doc -> BOOLEAN]
      BY <1>2, <3>1 DEF TypeOK
    <3>3. ASSUME NEW e \in Doc, ~overtaken'[e]
          PROVE  gets'[e] = {seen'[e]} \/ (gets'[e] = {} /\ emitted[e] = seen'[e])
      <4>1. CASE e = d
        <5>1. gets[d] = {}
          BY <3>1, <3>3, <4>1 DEF TypeOK
        <5>2. gets'[d] = {hash[f]} /\ seen'[d] = hash[f]
          BY <1>1, <3>1, <5>1 DEF TypeOK
        <5> QED
          BY <4>1, <5>2
      <4>2. CASE e # d
        BY <1>1, <3>1, <3>3, <4>2 DEF TypeOK, Fetching
      <4> QED
        BY <4>1, <4>2
    <3> QED
      BY <3>2, <3>3
  <2>3. CASE ~(seen[d] < hash[f])
    <3>1. UNCHANGED <<gets, overtaken>>
      BY <2>3 DEF SharedChange, NewHash
    <3>2. seen' = seen
      BY <1>1, <1>2, <2>1, <2>3 DEF TypeOK
    <3> QED
      BY <3>1, <3>2 DEF Fetching, TypeOK
  <2> QED
    BY <2>2, <2>3
<1>6. TypeOK'
  <2>1. shared' \in [Doc -> Nat] /\ seen' \in [Doc -> Nat]
    BY <1>1, <1>2 DEF TypeOK
  <2> QED
    BY <1>1, <1>4, <1>5, <2>1 DEF TypeOK
<1>7. WalksApart' /\ DriveInOrder' /\ ToldInWalk'
  BY <1>1 DEF WalksApart, DriveInOrder, ToldInWalk, Pending
<1>8. DocumentsApart'
  <2>1. \A e \in Doc : state[e] = "new" => shared'[e] = shared[e] /\ seen'[e] = seen[e]
    BY <1>1 DEF Open, TypeOK
  <2>2. \A e \in Open : shared'[e] <= told[file[e]]
    <3> TAKE e \in Open
    <3>1. shared'[e] = (IF e = d THEN told[f] ELSE shared[e]) /\ e \in Doc
      BY <1>1, Place DEF TypeOK
    <3> QED
      BY <1>2, <3>1 DEF DocumentsApart
  <2>3. Open \subseteq Doc
    BY DEF Open
  <2> QED
    BY <1>1, <1>3, <1>4, <2>1, <2>2, <2>3 DEF DocumentsApart, Shows
<1>9. Fetching'
  <2>1. \A e \in Open : seen'[e] <= hash[file[e]]
    <3> TAKE e \in Open
    <3>1. seen'[e] = (IF e = d THEN hash[f] ELSE seen[e]) /\ e \in Doc
      BY <1>1, Place DEF TypeOK
    <3> QED
      BY <1>2, <3>1 DEF Fetching
  <2> QED
    BY <1>1, <1>3, <1>5, <2>1 DEF Fetching
<1> QED
  BY <1>4, <1>6, <1>7, <1>8, <1>9

\* The model arrives for one of the saves, or does not.
LEMMA FetchStep ==
  ASSUME IInv, NEW d \in Doc, NEW h \in gets[d], Emit(d, h) \/ FetchFails(d, h)
  PROVE  IInv'
<1>1. /\ gets' = [gets EXCEPT ![d] = gets[d] \ {h}]
      /\ UNCHANGED <<walk, told, hash, drive, registry, shared, seen, state, file, kind, listening,
                     disposed, twice>>
  BY DEF Emit, FetchFails, world
<1>2. UNCHANGED <<path, providers, documents>>
  BY <1>1 DEF registry
<1>3. \/ emitted' = [emitted EXCEPT ![d] = h] /\ UNCHANGED overtaken
      \/ overtaken' = [overtaken EXCEPT ![d] = TRUE] /\ UNCHANGED emitted
  BY DEF Emit, FetchFails
<1>4. /\ NotBehind' /\ OwnProvider' /\ WalksApart' /\ DriveInOrder' /\ ListKnown' /\ ListedRight'
      /\ Open' = Open
  BY <1>1, Unmoved
<1>5. TypeOK'
  <2>1. h \in Nat /\ gets' \in [Doc -> SUBSET Nat]
    BY <1>1 DEF TypeOK
  <2>2. emitted' \in [Doc -> Nat] /\ overtaken' \in [Doc -> BOOLEAN]
    <3>1. emitted \in [Doc -> Nat] /\ overtaken \in [Doc -> BOOLEAN]
      BY DEF TypeOK
    <3>2. [emitted EXCEPT ![d] = h] \in [Doc -> Nat]
      BY <2>1, <3>1
    <3>3. [overtaken EXCEPT ![d] = TRUE] \in [Doc -> BOOLEAN]
      BY <3>1
    <3> QED
      BY <1>3, <3>1, <3>2, <3>3
  <2> QED
    BY <1>1, <1>2, <2>1, <2>2 DEF TypeOK
<1>6. ToldInWalk' /\ DocumentsApart'
  BY <1>1, <1>2, <1>4 DEF ToldInWalk, DocumentsApart, Shows
<1>7. Fetching'
  <2>1. ASSUME NEW e \in Doc, ~overtaken'[e]
        PROVE  gets'[e] = {seen[e]} \/ (gets'[e] = {} /\ emitted'[e] = seen[e])
    <3>1. CASE e # d
      BY <1>1, <1>3, <2>1, <3>1 DEF Fetching, TypeOK
    <3>2. CASE e = d
      <4>1. emitted' = [emitted EXCEPT ![d] = h] /\ ~overtaken[d]
        BY <1>3, <2>1, <3>2 DEF TypeOK
      <4>2. gets[d] = {seen[d]} /\ h = seen[d]
        BY <4>1 DEF Fetching
      <4> QED
        BY <1>1, <3>2, <4>1, <4>2 DEF TypeOK
    <3> QED
      BY <3>1, <3>2
  <2> QED
    BY <1>1, <1>4, <2>1 DEF Fetching
<1> QED
  BY <1>4, <1>5, <1>6, <1>7

-----------------------------------------------------------------------------
(* The steps that open and close documents                                 *)

\* A document is opened for a file and a kind that no other shows, at the file's path,
\* so that its key is nobody's.
LEMMA OpenStep ==
  ASSUME IInv, NEW d \in Doc, NEW f \in File, NEW k \in Kind, OpenDocument(d, f, k)
  PROVE  IInv'
<1> DEFINE L == Len(walk[f])
           p == Where(f)
<1>1. /\ L \in DOMAIN walk[f] /\ p = walk[f][L] /\ p \in Path /\ p # None
      /\ DOMAIN walk[f] = 1 .. L /\ L \in Nat
  <2>1. DOMAIN walk[f] = 1 .. L /\ L \in Nat /\ L # 0
    BY Walk DEF ToldInWalk
  <2> QED
    BY <2>1, Walk DEF Where, Last
<1>2. /\ state[d] = "new" /\ path[d] = None /\ shared[d] = 0 /\ seen[d] = 0
      /\ \A e \in Doc : Shows(e) => ~(file[e] = f /\ kind[e] = k)
      /\ twice' = IF \E e \in Open : file[e] = f THEN twice \cup {f} ELSE twice
      /\ file' = [file EXCEPT ![d] = f] /\ kind' = [kind EXCEPT ![d] = k]
      /\ state' = [state EXCEPT ![d] = "open"]
      /\ path' = [path EXCEPT ![d] = p]
      /\ providers' = [providers EXCEPT ![<<k, p>>] = d]
      /\ documents' = documents \cup {p}
      /\ listening' = Append(listening, d)
  BY DEF OpenDocument, Create, Shows, DocumentsApart
<1>3. UNCHANGED <<walk, told, hash, drive, shared, seen, gets, emitted, overtaken, disposed>>
  BY DEF OpenDocument, world, model
<1> HIDE DEF L, p
<1>4. /\ d # None /\ d \notin Open /\ Open' = Open \cup {d}
      /\ \A e \in Open : e \in Doc /\ e # d /\ file'[e] = file[e] /\ kind'[e] = kind[e] /\ path'[e] = path[e]
      /\ file'[d] = f /\ kind'[d] = k /\ path'[d] = p
  BY <1>2 DEF Open, TypeOK
<1>5. TypeOK'
  <2>1. listening' \in Seq(Doc)
    BY <1>2 DEF TypeOK
  <2>2. twice' \subseteq File /\ documents' \subseteq Path
    BY <1>1, <1>2 DEF TypeOK
  <2>3. /\ path' \in [Doc -> Path \cup {None}] /\ file' \in [Doc -> File \cup {None}]
        /\ kind' \in [Doc -> Kind \cup {None}] /\ state' \in [Doc -> {"new", "open", "plain", "closed"}]
    BY <1>1, <1>2 DEF TypeOK
  <2>4. providers' \in [Kind \X Path -> Doc \cup {None}]
    BY <1>1, <1>2 DEF TypeOK
  <2> QED
    BY <1>3, <2>1, <2>2, <2>3, <2>4 DEF TypeOK
<1>6. NotBehind'
  <2> SUFFICES ASSUME NEW e \in Open \cup {d}
               PROVE  \E n \in DOMAIN walk[file'[e]] :
                        /\ path'[e] = walk[file'[e]][n]
                        /\ \A m \in DOMAIN walk[file'[e]] :
                             m > n => \E i \in DOMAIN drive : drive[i] = [file |-> file'[e], at |-> m]
    BY <1>3, <1>4 DEF NotBehind, IsAt, Pending
  <2>1. CASE e \in Open
    BY <1>4, <2>1 DEF NotBehind, IsAt, Pending
  <2>2. CASE e = d
    <3>1. \A m \in DOMAIN walk[f] : ~(m > L)
      BY <1>1
    <3> QED
      BY <1>1, <1>4, <2>2, <3>1
  <2> QED
    BY <2>1, <2>2
<1>7. OwnProvider'
  <2>1. \A key \in Kind \X Path : providers'[key] = IF key = <<k, p>> THEN d ELSE providers[key]
    BY <1>2 DEF TypeOK
  <2>2. \A e \in Open : <<kind[e], path[e]>> # <<k, p>> /\ <<kind[e], path[e]>> \in Kind \X Path
    <3> TAKE e \in Open
    <3>1. Shows(e) /\ kind[e] \in Kind /\ path[e] \in Path /\ e \in Doc
      BY Place DEF Open, Shows
    <3>2. path[e] = p => file[e] = f
      BY <1>1, Place
    <3> QED
      BY <1>2, <3>1, <3>2
  <2>3. \A e \in Open \cup {d} : providers'[<<kind'[e], path'[e]>>] = e
    BY <1>1, <1>4, <2>1, <2>2 DEF OwnProvider
  <2>4. ASSUME NEW key \in Kind \X Path, providers'[key] # None
        PROVE  /\ providers'[key] \in Open \cup {d}
               /\ key = <<kind'[providers'[key]], path'[providers'[key]]>>
    <3>1. CASE key = <<k, p>>
      BY <1>4, <2>1, <3>1
    <3>2. CASE key # <<k, p>>
      <4> DEFINE e == providers[key]
      <4>1. providers'[key] = e /\ e \in Open /\ key = <<kind[e], path[e]>>
        BY <2>1, <2>4, <3>2 DEF OwnProvider
      <4> QED
        BY <1>4, <4>1
    <3> QED
      BY <3>1, <3>2
  <2>5. disposed' = {e \in Doc : state'[e] = "closed" /\ path'[e] # None}
    BY <1>2, <1>3 DEF OwnProvider, TypeOK
  <2> QED
    BY <1>4, <2>3, <2>4, <2>5 DEF OwnProvider
<1>8. WalksApart' /\ DriveInOrder' /\ ToldInWalk'
  BY <1>3 DEF WalksApart, DriveInOrder, ToldInWalk, Pending
<1>9. ListKnown'
  BY <1>1, <1>2, <1>3 DEF ListKnown
<1>10. DocumentsApart'
  <2>1. \A e \in Doc : /\ e # d => state'[e] = state[e] /\ file'[e] = file[e] /\ kind'[e] = kind[e]
                                   /\ path'[e] = path[e]
                       /\ e = d => state'[e] = "open"
    BY <1>2 DEF TypeOK
  <2>2. \A e \in Doc : IF state'[e] = "new" THEN path'[e] = None /\ shared[e] = 0 /\ seen[e] = 0
                       ELSE file'[e] \in File /\ kind'[e] \in Kind
    BY <1>4, <2>1 DEF DocumentsApart
  <2>3. \A e \in Doc : state'[e] = "plain" => path'[e] = None
    BY <2>1 DEF DocumentsApart
  <2>4. \A e, g \in Doc : Shows(e)' /\ Shows(g)' /\ file'[e] = file'[g] /\ kind'[e] = kind'[g] => e = g
    BY <1>2, <1>4, <2>1 DEF DocumentsApart, Shows
  <2>5. \A e, g \in Open \cup {d} : file'[e] = file'[g] /\ e # g => file'[e] \in twice'
    BY <1>2, <1>4 DEF DocumentsApart
  <2>6. Open' = {listening'[i] : i \in DOMAIN listening'} /\ IsInjective(listening')
    <3>1. listening \in Seq(Doc) /\ Open = {listening[i] : i \in DOMAIN listening} /\ IsInjective(listening)
      BY DEF TypeOK, DocumentsApart
    <3>2. /\ DOMAIN listening' = DOMAIN listening \cup {Len(listening) + 1}
          /\ listening'[Len(listening) + 1] = d
          /\ \A i \in DOMAIN listening : listening'[i] = listening[i]
      BY <1>2, <3>1
    <3>3. \A i \in DOMAIN listening : listening[i] # d
      BY <1>4, <3>1
    <3> QED
      BY <1>4, <3>1, <3>2, <3>3 DEF IsInjective
  <2>7. \A e \in Open \cup {d} : path'[e] # None /\ shared[e] <= told[file'[e]]
    <3>1. told[f] \in Nat
      BY DEF TypeOK
    <3> QED
      BY <1>1, <1>2, <1>4, <3>1 DEF DocumentsApart
  <2> QED
    BY <1>3, <1>4, <2>2, <2>3, <2>4, <2>5, <2>6, <2>7 DEF DocumentsApart
<1>11. ListedRight'
  <2> DEFINE On(list, g) == {q \in list : \E n \in DOMAIN walk[g] : q = walk[g][n]}
             Has(g) == {path[e] : e \in {e \in Open : file[e] = g}}
             WillHave(g) == {path'[e] : e \in {e \in Open \cup {d} : file'[e] = g}}
  <2>1. SUFFICES ASSUME NEW g \in File, g \notin twice' PROVE On(documents', g) = WillHave(g)
    BY <1>3, <1>4 DEF ListedRight
  <2>2. On(documents, g) = Has(g)
    BY <1>2, <2>1 DEF ListedRight
  <2>3. CASE g # f
    <3>1. p \notin On({p}, g)
      BY <1>1, <2>3 DEF WalksApart
    <3>2. On(documents', g) = On(documents, g)
      BY <1>2, <3>1
    <3>3. WillHave(g) = Has(g)
      BY <1>4, <2>3
    <3> QED
      BY <2>2, <3>2, <3>3
  <2>4. CASE g = f
    <3>1. Has(g) = {}
      BY <1>2, <2>1, <2>4
    <3>2. WillHave(g) = {p}
      BY <1>2, <1>4, <2>1, <2>4
    <3>3. On(documents', g) = {p}
      BY <1>1, <1>2, <2>2, <2>4, <3>1
    <3> QED
      BY <3>2, <3>3
  <2> QED
    BY <2>3, <2>4
<1>12. Fetching'
  <2>1. hash[f] \in Nat
    BY DEF TypeOK
  <2> QED
    BY <1>2, <1>3, <1>4, <2>1 DEF Fetching
<1> QED
  BY <1>5, <1>6, <1>7, <1>8, <1>9, <1>10, <1>11, <1>12

\* A document that cannot be shared takes no part.
LEMMA PlainStep ==
  ASSUME IInv, NEW d \in Doc, NEW f \in File, NEW k \in Kind, OpenPlain(d, f, k)
  PROVE  IInv'
<1>1. /\ state[d] = "new" /\ path[d] = None
      /\ \A e \in Doc : Shows(e) => ~(file[e] = f /\ kind[e] = k)
      /\ twice' \in {twice, twice \cup {f}}
      /\ file' = [file EXCEPT ![d] = f] /\ kind' = [kind EXCEPT ![d] = k]
      /\ state' = [state EXCEPT ![d] = "plain"]
  BY DEF OpenPlain, Create, Shows, DocumentsApart
<1>2. UNCHANGED <<walk, told, hash, drive, path, providers, documents, shared, seen, gets, emitted,
                  overtaken, listening, disposed>>
  BY DEF OpenPlain, world, registry, model
<1>3. /\ \A e \in Doc : e # d => state'[e] = state[e] /\ file'[e] = file[e] /\ kind'[e] = kind[e]
      /\ state'[d] = "plain" /\ file'[d] = f /\ kind'[d] = k
  BY <1>1 DEF TypeOK
<1>4. Open' = Open /\ \A e \in Open : e \in Doc /\ file'[e] = file[e] /\ kind'[e] = kind[e]
  BY <1>1, <1>3 DEF Open
<1>5. TypeOK'
  BY <1>1, <1>2 DEF TypeOK
<1>6. NotBehind' /\ OwnProvider'
  <2>1. disposed = {e \in Doc : state'[e] = "closed" /\ path[e] # None}
    BY <1>1, <1>3 DEF OwnProvider
  <2> QED
    BY <1>2, <1>4, <2>1 DEF NotBehind, IsAt, Pending, OwnProvider
<1>7. WalksApart' /\ DriveInOrder' /\ ToldInWalk' /\ ListKnown'
  BY <1>2 DEF WalksApart, DriveInOrder, ToldInWalk, Pending, ListKnown
<1>8. DocumentsApart'
  <2>1. \A e \in Doc : IF state'[e] = "new" THEN path[e] = None /\ shared[e] = 0 /\ seen[e] = 0
                       ELSE file'[e] \in File /\ kind'[e] \in Kind
    BY <1>3 DEF DocumentsApart
  <2>2. \A e, g \in Doc : Shows(e)' /\ Shows(g)' /\ file'[e] = file'[g] /\ kind'[e] = kind'[g] => e = g
    BY <1>1, <1>3 DEF DocumentsApart, Shows
  <2>3. \A e \in Doc : state'[e] = "plain" => path[e] = None
    BY <1>1, <1>3 DEF DocumentsApart
  <2>4. \A e, g \in Open : file'[e] = file'[g] /\ e # g => file'[e] \in twice'
    BY <1>1, <1>4 DEF DocumentsApart
  <2> QED
    BY <1>2, <1>4, <2>1, <2>2, <2>3, <2>4 DEF DocumentsApart
<1>9. ListedRight'
  <2>1. \A g : {e \in Open : file'[e] = g} = {e \in Open : file[e] = g}
    BY <1>4
  <2> QED
    BY <1>1, <1>2, <1>4, <2>1 DEF ListedRight
<1>10. Fetching'
  BY <1>2, <1>4 DEF Fetching
<1> QED
  BY <1>5, <1>6, <1>7, <1>8, <1>9, <1>10

\* A sequence without its i-th element has the others.
LEMMA Removed ==
  ASSUME NEW S, NEW s \in Seq(S), NEW i \in DOMAIN s, IsInjective(s)
  PROVE  /\ RemoveAt(s, i) \in Seq(S) /\ IsInjective(RemoveAt(s, i))
         /\ {RemoveAt(s, i)[j] : j \in DOMAIN RemoveAt(s, i)} = {s[j] : j \in DOMAIN s} \ {s[i]}
<1> DEFINE L == Len(s)
           r == RemoveAt(s, i)
           From(j) == IF j < i THEN j ELSE j + 1
<1>1. L \in Nat /\ DOMAIN s = 1 .. L /\ i \in 1 .. L
  OBVIOUS
<1>2. r \in Seq(S) /\ DOMAIN r = 1 .. L - 1 /\ \A j \in DOMAIN r : r[j] = s[From(j)]
  <2> DEFINE a == SubSeq(s, 1, i - 1)
             b == SubSeq(s, i + 1, L)
  <2>1. a \in Seq(S) /\ Len(a) = i - 1 /\ \A j \in 1 .. i - 1 : a[j] = s[j]
    BY <1>1
  <2>2. b \in Seq(S) /\ Len(b) = L - i /\ \A j \in 1 .. L - i : b[j] = s[i + j]
    BY <1>1
  <2>3. r = a \o b
    BY DEF RemoveAt
  <2> HIDE DEF a, b, r, L
  <2>4. r \in Seq(S) /\ Len(r) = L - 1 /\ DOMAIN r = 1 .. L - 1
    <3>1. r \in Seq(S)
      BY <2>1, <2>2, <2>3
    <3>2. Len(r) = Len(a) + Len(b)
      BY <2>1, <2>2, <2>3, ConcatProperties
    <3>3. Len(r) = L - 1
      BY <1>1, <2>1, <2>2, <3>2
    <3> QED
      BY <3>1, <3>3
  <2>5. ASSUME NEW j \in DOMAIN r PROVE r[j] = s[From(j)]
    <3>1. CASE j < i
      <4>1. j \in 1 .. i - 1 /\ r[j] = a[j]
        BY <1>1, <2>1, <2>2, <2>3, <2>4, <3>1
      <4> QED
        BY <2>1, <3>1, <4>1
    <3>2. CASE ~(j < i)
      <4>1. j - (i - 1) \in 1 .. L - i /\ r[j] = b[j - (i - 1)]
        BY <1>1, <2>1, <2>2, <2>3, <2>4, <3>2
      <4>2. i + (j - (i - 1)) = j + 1
        BY <1>1, <2>4
      <4> QED
        BY <2>2, <3>2, <4>1, <4>2
    <3> QED
      BY <3>1, <3>2
  <2> QED
    BY <2>4, <2>5
<1> HIDE DEF r, L
<1>3. \A j \in DOMAIN r : From(j) \in DOMAIN s /\ From(j) # i
  BY <1>1, <1>2
<1>4. \A j \in DOMAIN s : j # i => \E n \in DOMAIN r : From(n) = j
  <2> TAKE j \in DOMAIN s
  <2> HAVE j # i
  <2>1. CASE j < i
    BY <1>1, <1>2, <2>1
  <2>2. CASE j > i
    <3>1. j - 1 \in DOMAIN r /\ From(j - 1) = j
      BY <1>1, <1>2, <2>2
    <3> QED
      BY <3>1
  <2> QED
    BY <1>1, <2>1, <2>2
<1>5. \A j, n \in DOMAIN r : From(j) = From(n) => j = n
  BY <1>1, <1>2
<1> HIDE DEF From
<1>6. IsInjective(r)
  BY <1>2, <1>3, <1>5 DEF IsInjective
<1>7. {r[j] : j \in DOMAIN r} = {s[j] : j \in DOMAIN s} \ {s[i]}
  BY <1>2, <1>3, <1>4 DEF IsInjective
<1> QED
  BY <1>2, <1>6, <1>7 DEF r

\* A document that is closed takes its provider and its path with it, which are its own.
LEMMA CloseStep ==
  ASSUME IInv, NEW d \in Doc, Close(d)
  PROVE  IInv'
<1>1. /\ state[d] \in {"open", "plain"} /\ state' = [state EXCEPT ![d] = "closed"]
      /\ UNCHANGED <<walk, told, hash, drive, path, shared, seen, gets, emitted, overtaken,
                     file, kind, twice>>
  BY DEF Close, world, model
<1>2. /\ Open' = Open \ {d} /\ d \notin Open'
      /\ \A e \in Doc : e # d => state'[e] = state[e]
      /\ state'[d] = "closed" /\ \A e \in Doc : state'[e] = "new" <=> state[e] = "new"
  BY <1>1 DEF Open, TypeOK
<1>3. CASE state[d] = "open"
  <2> DEFINE key == <<kind[d], path[d]>>
  <2>1. d \in Open /\ d # None /\ kind[d] \in Kind /\ path[d] \in Path /\ file[d] \in File
    BY <1>3, Place DEF Open
  <2>2. key \in Kind \X Path /\ providers[key] = d
    BY <2>1 DEF OwnProvider
  <2>3. /\ disposed' = disposed \cup {d} /\ providers' = [providers EXCEPT ![key] = None]
        /\ documents' = documents \ {path[d]}
    BY <1>3, <2>1, <2>2 DEF Close, Released
  <2>4. /\ listening' \in Seq(Doc) /\ IsInjective(listening')
        /\ Open' = {listening'[i] : i \in DOMAIN listening'}
    <3>1. listening \in Seq(Doc) /\ IsInjective(listening) /\ Open = {listening[i] : i \in DOMAIN listening}
      BY DEF TypeOK, DocumentsApart
    <3>2. PICK i \in DOMAIN listening : listening[i] = d /\ listening' = RemoveAt(listening, i)
      BY <1>3 DEF Close
    <3>3. /\ listening' \in Seq(Doc) /\ IsInjective(listening')
          /\ {listening'[j] : j \in DOMAIN listening'} = {listening[j] : j \in DOMAIN listening} \ {d}
      BY <3>1, <3>2, Removed
    <3> QED
      BY <1>2, <3>1, <3>3
  <2> HIDE DEF key
  <2>5. TypeOK'
    BY <1>1, <2>1, <2>2, <2>3, <2>4 DEF TypeOK
  <2>6. NotBehind'
    BY <1>1, <1>2 DEF NotBehind, IsAt, Pending
  <2>7. OwnProvider'
    <3>1. \A k \in Kind \X Path : providers'[k] = IF k = key THEN None ELSE providers[k]
      BY <2>3 DEF TypeOK
    <3>2. \A e \in Open : e # d => <<kind[e], path[e]>> # key /\ <<kind[e], path[e]>> \in Kind \X Path
      BY <2>2, Place DEF OwnProvider
    <3>3. \A e \in Open : e # d => providers'[<<kind[e], path[e]>>] = e
      BY <3>1, <3>2 DEF OwnProvider
    <3>4. ASSUME NEW k \in Kind \X Path, providers'[k] # None
          PROVE  /\ providers'[k] \in Open \ {d}
                 /\ k = <<kind[providers'[k]], path[providers'[k]]>>
      <4> DEFINE e == providers[k]
      <4>1. k # key /\ providers'[k] = e /\ e # None
        BY <3>1, <3>4
      <4>2. e \in Open /\ k = <<kind[e], path[e]>>
        BY <4>1 DEF OwnProvider
      <4>3. e # d
        BY <4>1, <4>2 DEF key
      <4> QED
        BY <4>1, <4>2, <4>3
    <3>5. disposed' = {e \in Doc : state'[e] = "closed" /\ path[e] # None}
      BY <1>2, <2>1, <2>3 DEF OwnProvider
    <3> QED
      BY <1>1, <1>2, <3>3, <3>4, <3>5 DEF OwnProvider
  <2>8. WalksApart' /\ DriveInOrder' /\ ToldInWalk' /\ ListKnown'
    BY <1>1, <2>3 DEF WalksApart, DriveInOrder, ToldInWalk, Pending, ListKnown
  <2>9. DocumentsApart'
    BY <1>1, <1>2, <2>1, <2>4 DEF DocumentsApart, Shows
  <2>10. ListedRight'
    <3> DEFINE On(list, g) == {q \in list : \E n \in DOMAIN walk[g] : q = walk[g][n]}
               Has(g) == {path[e] : e \in {e \in Open : file[e] = g}}
               WillHave(g) == {path[e] : e \in {e \in Open \ {d} : file[e] = g}}
    <3>1. SUFFICES ASSUME NEW g \in File, g \notin twice PROVE On(documents', g) = WillHave(g)
      BY <1>1, <1>2 DEF ListedRight
    <3>2. On(documents, g) = Has(g)
      BY <3>1 DEF ListedRight
    <3>3. CASE file[d] = g
      <4>1. {e \in Open : file[e] = g} = {d}
        BY <2>1, <3>1, <3>3 DEF DocumentsApart
      <4>2. Has(g) = {path[d]}
        BY <4>1
      <4>3. WillHave(g) = {}
        BY <4>1
      <4>4. On(documents', g) = {}
        BY <2>3, <3>2, <4>2
      <4> QED
        BY <4>3, <4>4
    <3>4. CASE file[d] # g
      <4>1. path[d] \notin On({path[d]}, g)
        BY <2>1, <3>4, Place
      <4>2. On(documents', g) = On(documents, g)
        BY <2>3, <4>1
      <4>3. WillHave(g) = Has(g)
        BY <3>4
      <4> QED
        BY <3>2, <4>2, <4>3
    <3> QED
      BY <3>3, <3>4
  <2>11. Fetching'
    BY <1>1, <1>2 DEF Fetching
  <2> QED
    BY <2>5, <2>6, <2>7, <2>8, <2>9, <2>10, <2>11
<1>4. CASE state[d] = "plain"
  <2>1. UNCHANGED <<disposed, providers, documents, listening>>
    BY <1>4 DEF Close
  <2>2. path[d] = None /\ Open' = Open
    BY <1>2, <1>4 DEF DocumentsApart, Open
  <2>3. TypeOK'
    BY <1>1, <2>1 DEF TypeOK
  <2>4. NotBehind' /\ WalksApart' /\ DriveInOrder' /\ ToldInWalk' /\ ListKnown' /\ ListedRight' /\ Fetching'
    BY <1>1, <2>1, <2>2
       DEF NotBehind, IsAt, Pending, WalksApart, DriveInOrder, ToldInWalk, ListKnown, ListedRight, Fetching
  <2>5. OwnProvider'
    <3>1. disposed = {e \in Doc : state'[e] = "closed" /\ path[e] # None}
      BY <1>2, <1>4, <2>2 DEF OwnProvider
    <3> QED
      BY <1>1, <2>1, <2>2, <3>1 DEF OwnProvider
  <2>6. DocumentsApart'
    <3>1. \A e \in Doc : Shows(e)' => Shows(e)
      BY <1>2 DEF Shows
    <3>2. \A e \in Doc : state'[e] = "plain" => path[e] = None
      BY <1>2, <2>2 DEF DocumentsApart
    <3> QED
      BY <1>1, <1>2, <2>1, <2>2, <3>1, <3>2 DEF DocumentsApart
  <2> QED
    BY <2>3, <2>4, <2>5, <2>6
<1> QED
  BY <1>1, <1>3, <1>4

-----------------------------------------------------------------------------
(* The theorems about ContentProvider                                      *)

\* Every step keeps the invariant, if no path is taken again.
LEMMA Inductive == ~Reuse /\ IInv /\ [Next]_vars => IInv'
<1> SUFFICES ASSUME ~Reuse, IInv, [Next]_vars PROVE IInv'
  OBVIOUS
<1>1. CASE UNCHANGED vars
  <2>1. UNCHANGED <<walk, told, hash, drive, path, providers, documents, shared, seen, gets, emitted,
                    overtaken, state, file, kind, listening, disposed, twice>>
    BY <1>1 DEF vars, world, registry, model
  <2>2. /\ NotBehind' /\ OwnProvider' /\ WalksApart' /\ DriveInOrder' /\ ListKnown' /\ ListedRight'
        /\ Open' = Open
    BY <2>1, Unmoved DEF registry
  <2>3. TypeOK' /\ ToldInWalk' /\ DocumentsApart' /\ Fetching'
    BY <2>1, <2>2 DEF TypeOK, ToldInWalk, DocumentsApart, Fetching, Shows
  <2> QED
    BY <2>2, <2>3
<1>2. ASSUME NEW f \in File, Poll(f) \/ ServerSave(f) \/ \E p \in Path : Rename(f, p)
      PROVE  IInv'
  BY <1>2, ServerStep, RenameStep
<1>3. CASE DriveSignal
  BY <1>3, DriveStep
<1>4. ASSUME NEW d \in Doc,
             \/ SharedChange(d) \/ Close(d)
             \/ \E f \in File, k \in Kind : OpenDocument(d, f, k) \/ OpenPlain(d, f, k)
             \/ \E h \in gets[d] : Emit(d, h) \/ FetchFails(d, h)
      PROVE  IInv'
  BY <1>4, ChangeStep, CloseStep, OpenStep, PlainStep, FetchStep
<1> QED
  BY <1>1, <1>2, <1>3, <1>4 DEF Next

\* Through any renames to new names, heard in whatever order and grouping from the drive
\* and from the shared documents, every open document is registered under its key with its
\* own provider and nothing else is, and its key is never behind the drive (handlePathChange).
THEOREM Invariant ==
  ASSUME ~Reuse
  PROVE  Spec => []IInv
<1>1. Init => IInv
  BY InitInv
<1>2. IInv /\ [Next]_vars => IInv'
  BY Inductive
<1> QED
  BY <1>1, <1>2, PTL DEF Spec

\* A save of a collaborative document goes past the room only while a rename of its file
\* is still to be signalled, and never under the document's own key (save).
THEOREM SavedInRoom ==
  ASSUME ~Reuse
  PROVE  Spec => []SavesInRoom
<1>1. IInv => SavesInRoom
  <2> SUFFICES ASSUME IInv, NEW d \in Open, NEW p \in {path[d], Where(file[d])},
                      Channel(kind[d], p) = "rest"
               PROVE  p # path[d] /\ ~Signalled(file[d])
    BY DEF SavesInRoom
  <2> DEFINE f == file[d]
  <2>1. d # None /\ f \in File
    BY Place
  <2>2. p # path[d]
    BY <2>1 DEF Channel, OwnProvider
  <2>3. Where(f) = walk[f][Len(walk[f])] /\ Len(walk[f]) \in DOMAIN walk[f]
    BY <2>1, Walk DEF Where, Last, ToldInWalk
  <2>4. PICK n \in DOMAIN walk[f] : IsAt(d, n) /\ \A m \in DOMAIN walk[f] : m > n => Pending(f, m)
    BY DEF NotBehind
  <2>5. n # Len(walk[f])
    BY <2>2, <2>3, <2>4 DEF IsAt
  <2>6. Len(walk[f]) > n
    BY <2>1, <2>4, <2>5, Walk
  <2>7. Pending(f, Len(walk[f]))
    BY <2>3, <2>4, <2>6
  <2>8. ~Signalled(f)
    BY <2>7, PendingEntry DEF Signalled
  <2> QED
    BY <2>2, <2>8
<1> QED
  BY <1>1, Invariant, PTL

\* The list of a user's open documents has of each file the path under which its document
\* is known, and nothing else that it is or was (documents of the global awareness).
THEOREM Listing ==
  ASSUME ~Reuse
  PROVE  Spec => []ListedRight
<1>1. IInv => ListedRight
  OBVIOUS
<1> QED
  BY <1>1, Invariant, PTL

\* Observers are told the hash of the server's last save, once the document has it and no
\* request for the model is pending, unless requests overtook one another or failed.
THEOREM HashesTold ==
  ASSUME ~Reuse
  PROVE  Spec => []HashTold
<1>1. IInv => HashTold
  <2> SUFFICES ASSUME IInv, NEW d \in Open, seen[d] = hash[file[d]], gets[d] = {}, ~overtaken[d]
               PROVE  emitted[d] = hash[file[d]]
    BY DEF HashTold
  <2>1. d \in Doc /\ gets[d] # {seen[d]}
    BY DEF Open
  <2> QED
    BY <2>1 DEF Fetching
<1> QED
  BY <1>1, Invariant, PTL

HIDE DEF IInv, Inv
USE NullAssumption, ConnectionAssumption DEF Connection, SaveId, Socket, Event

-----------------------------------------------------------------------------
(* The invariant of Provider                                               *)

LinkState == {"none", "request", "failed", "closed", "destroyed"} \cup Socket

\* The part of TypeOK that disposing is about
LinksTyped ==
  /\ link \in [Connection -> LinkState]
  /\ heard \subseteq Connection
  /\ current \in Connection \cup {Null} /\ listened \in Connection \cup {Null}
  /\ current # Null => link[current] \in Socket \cup {"closed"}
  /\ {isDisposed, timer} \subseteq BOOLEAN
  /\ via \in [SaveId -> Connection \cup {Null}]

\* To dispose, of the provider or of nothing any more, leaves every connection, timer and
\* save a value of its kind.
LEMMA DisposeTyped ==
  ASSUME LinksTyped, NEW gone,
         NEW made \in [Connection -> LinkState],
         current # Null => made[current] \in Socket \cup {"closed"},
         Dispose(made, gone)
  PROVE  LinksTyped'
<1>1. CASE isDisposed
  BY <1>1 DEF LinksTyped, Dispose, Cut, LinkState
<1>2. CASE ~isDisposed
  <2>1. Dropped(made) \in [Connection -> LinkState]
    BY DEF Dropped, LinksTyped, LinkState
  <2> QED
    BY <1>2, <2>1 DEF LinksTyped, Dispose, Cut
<1> QED
  BY <1>1, <1>2 DEF LinksTyped

\* So does the closing of a socket.
LEMMA ClosesTyped ==
  ASSUME LinksTyped, NEW k \in Connection, Closes(k)
  PROVE  LinksTyped'
<1>1. link' = [link EXCEPT ![k] = "closed"] /\ UNCHANGED <<heard, current, isDisposed, timer>>
  BY DEF Closes, Unlinked
<1>2. /\ listened' = IF listened \in {k} THEN Null ELSE listened
      /\ via' = [s \in SaveId |-> IF via[s] \in {k} THEN Null ELSE via[s]]
  BY DEF Closes, Cut
<1>3. link' \in [Connection -> LinkState] /\ (current # Null => link'[current] \in Socket \cup {"closed"})
  BY <1>1 DEF LinksTyped, LinkState
<1>4. listened' \in Connection \cup {Null} /\ via' \in [SaveId -> Connection \cup {Null}]
  BY <1>2 DEF LinksTyped
<1> QED
  BY <1>1, <1>3, <1>4 DEF LinksTyped

RestTyped ==
  /\ begun \in 1 .. MaxConnections
  /\ forks \subseteq Connection
  /\ hasSynced \in BOOLEAN
  /\ ready \in {"pending", "resolved", "rejected"}
  /\ {dialog, expired} \subseteq BOOLEAN
  /\ calls \in 0 .. MaxSaves
  /\ save \in [SaveId -> {"none", "waiting", "resolved", "rejected"}]
  /\ replies \subseteq SaveId
  /\ budget \in [Event -> Nat]

LEMMA TypesSplit ==
  /\ ProviderTypeOK <=> LinksTyped /\ RestTyped
  /\ ProviderTypeOK' <=> LinksTyped' /\ RestTyped'
BY DEF ProviderTypeOK, LinksTyped, RestTyped, LinkState

\* An event less of its kind is left.
LEMMA SpendTyped ==
  ASSUME budget \in [Event -> Nat], NEW e \in Event, Spend(e)
  PROVE  budget' \in [Event -> Nat]
<1>1. budget[e] - 1 \in Nat
  BY DEF Spend
<1> QED
  BY <1>1 DEF Spend

LEMMA InitProvider == ProviderInit => ProviderInv
<1> SUFFICES ASSUME ProviderInit PROVE ProviderInv
  OBVIOUS
<1>1. ProviderTypeOK
  <2>1. LinksTyped
    BY DEF ProviderInit, LinksTyped, LinkState
  <2>2. begun \in 1 .. MaxConnections /\ calls \in 0 .. MaxSaves /\ budget \in [Event -> Nat]
    BY DEF ProviderInit
  <2>3. RestTyped
    BY <2>2 DEF ProviderInit, RestTyped
  <2> QED
    BY <2>1, <2>3, TypesSplit
<1>2. ConflictHeard /\ DisposedQuiet /\ CallsCounted /\ LoadWatched /\ ForksSynced
  BY DEF ProviderInit, ConflictHeard, DisposedQuiet, CallsCounted, LoadWatched, ForksSynced
<1> QED
  BY <1>1, <1>2 DEF ProviderInv

Base == ProviderTypeOK /\ ConflictHeard /\ DisposedQuiet /\ CallsCounted

\* A step of any kind keeps the types, the listener, the timer and the count of saves.
LEMMA StepBase == ProviderInv /\ [ProviderNext]_providerVars => Base'
<1> SUFFICES ASSUME ProviderInv, [ProviderNext]_providerVars PROVE Base'
  OBVIOUS
<1> USE DEF ProviderInv, Base
<1>1. ASSUME NEW k \in Connection, SessionReply(k) PROVE Base'
  <2>1. ProviderTypeOK'
    BY <1>1 DEF SessionReply, StartLoadTimeout, saves, ProviderTypeOK
  <2>2. (ConflictHeard /\ DisposedQuiet /\ CallsCounted)'
    BY <1>1 DEF SessionReply, StartLoadTimeout, saves, ProviderTypeOK, ConflictHeard, DisposedQuiet, CallsCounted
  <2> QED
    BY <2>1, <2>2
<1>2. ASSUME NEW k \in Connection, SessionFails(k) PROVE Base'
  <2>1. ProviderTypeOK'
    BY <1>2 DEF SessionFails, loading, saves, ProviderTypeOK
  <2>2. (ConflictHeard /\ DisposedQuiet /\ CallsCounted)'
    BY <1>2 DEF SessionFails, loading, saves, ProviderTypeOK, ConflictHeard, DisposedQuiet, CallsCounted
  <2> QED
    BY <2>1, <2>2
<1>3. ASSUME NEW k \in Connection, Opened(k) PROVE Base'
  <2>1. ProviderTypeOK'
    BY <1>3 DEF Opened, Attach, loading, saves, ProviderTypeOK
  <2>2. (ConflictHeard /\ DisposedQuiet /\ CallsCounted)'
    BY <1>3 DEF Opened, Attach, loading, saves, ProviderTypeOK, ConflictHeard, DisposedQuiet, CallsCounted
  <2> QED
    BY <2>1, <2>2
<1>4. ASSUME NEW k \in Connection, Synced(k) PROVE Base'
  <2>1. ProviderTypeOK'
    BY <1>4 DEF Synced, OnSync, saves, ProviderTypeOK
  <2>2. (ConflictHeard /\ DisposedQuiet /\ CallsCounted)'
    BY <1>4 DEF Synced, OnSync, saves, ProviderTypeOK, ConflictHeard, DisposedQuiet, CallsCounted
  <2> QED
    BY <2>1, <2>2
<1>5. ASSUME NEW k \in Connection, Reopen(k) PROVE Base'
  <2>1. ProviderTypeOK'
    BY <1>5 DEF Reopen, loading, saves, ProviderTypeOK
  <2>2. (ConflictHeard /\ DisposedQuiet /\ CallsCounted)'
    BY <1>5 DEF Reopen, loading, saves, ProviderTypeOK, ConflictHeard, DisposedQuiet, CallsCounted
  <2> QED
    BY <2>1, <2>2
<1>6. ASSUME NEW k \in Connection, Lost(k) PROVE Base'
  <2>1. ProviderTypeOK'
    <3>1. LinksTyped'
      BY <1>6, TypesSplit, ClosesTyped DEF Lost
    <3>2. RestTyped /\ "lost" \in Event
      BY TypesSplit DEF Event
    <3>3. budget' \in [Event -> Nat]
      BY <1>6, <3>2, SpendTyped DEF Lost, RestTyped
    <3>4. RestTyped'
      BY <1>6, <3>2, <3>3 DEF Lost, Closes, RestTyped
    <3> QED
      BY <3>1, <3>4, TypesSplit
  <2>2. (ConflictHeard /\ DisposedQuiet /\ CallsCounted)'
    BY <1>6 DEF Lost, Closes, Unlinked, Cut, Spend, ProviderTypeOK, ConflictHeard, DisposedQuiet, CallsCounted
  <2> QED
    BY <2>1, <2>2
<1>7. ASSUME NEW k \in Connection, Refused(k) PROVE Base'
  <2>1. CASE hasSynced
    <3>1. ProviderTypeOK'
      <4>1. LinksTyped'
        BY <1>7, <2>1, TypesSplit, ClosesTyped DEF Refused
      <4>2. RestTyped'
        BY <1>7, <2>1, TypesSplit DEF Refused, Closes, Spend, RestTyped
      <4> QED
        BY <4>1, <4>2, TypesSplit
    <3>2. (ConflictHeard /\ DisposedQuiet /\ CallsCounted)'
      BY <1>7, <2>1 DEF Refused, Closes, Unlinked, Cut, Spend, ProviderTypeOK, ConflictHeard, DisposedQuiet, CallsCounted
    <3> QED
      BY <3>1, <3>2
  <2>2. CASE ~hasSynced
    <3>1. Dispose(Unlinked(k), {k}) /\ Unlinked(k) \in [Connection -> LinkState]
      BY <1>7, <2>2 DEF Refused, Unlinked, ProviderTypeOK, LinkState
    <3>2. ProviderTypeOK'
      <4>1. LinksTyped /\ (current # Null => Unlinked(k)[current] \in Socket \cup {"closed"})
        BY TypesSplit DEF LinksTyped, Unlinked, LinkState
      <4>2. LinksTyped'
        BY <3>1, <4>1, DisposeTyped
      <4> QED
        BY <1>7, <2>2, <4>2, TypesSplit DEF RestTyped, Refused, Spend
    <3>3. (ConflictHeard /\ DisposedQuiet /\ CallsCounted)'
      <4>1. ConflictHeard'
        <5>1. CASE isDisposed
          <6>1. link' = Unlinked(k) /\ Cut({k}) /\ current' = current
            BY <3>1, <5>1 DEF Dispose
          <6>2. forks' = forks
            BY <1>7, <2>2 DEF Refused
          <6> QED
            BY <6>1, <6>2 DEF Unlinked, Cut, ProviderTypeOK, ConflictHeard
        <5>2. CASE ~isDisposed
          BY <3>1, <5>2 DEF Dispose, ConflictHeard
        <5> QED
          BY <5>1, <5>2
      <4>2. DisposedQuiet'
        BY <3>1 DEF Dispose, DisposedQuiet
      <4>3. CallsCounted'
        BY <1>7, <2>2 DEF Refused, CallsCounted
      <4> QED
        BY <4>1, <4>2, <4>3
    <3> QED
      BY <3>2, <3>3
  <2> QED
    BY <2>1, <2>2 DEF ProviderTypeOK
<1>8. ASSUME NEW k \in Connection, Expired(k) PROVE Base'
  <2>1. ProviderTypeOK'
    <3>1. LinksTyped'
      BY <1>8, TypesSplit, ClosesTyped DEF Expired
    <3>2. RestTyped'
      BY <1>8, TypesSplit DEF Expired, Closes, Spend, RestTyped
    <3> QED
      BY <3>1, <3>2, TypesSplit
  <2>2. (ConflictHeard /\ DisposedQuiet /\ CallsCounted)'
    BY <1>8 DEF Expired, Closes, Unlinked, Cut, Spend, ProviderTypeOK, ConflictHeard, DisposedQuiet, CallsCounted
  <2> QED
    BY <2>1, <2>2
<1>9. CASE LoadTimeout
  <2>1. ProviderTypeOK'
    BY <1>9 DEF LoadTimeout, links, saves, ProviderTypeOK
  <2>2. (ConflictHeard /\ DisposedQuiet /\ CallsCounted)'
    BY <1>9 DEF LoadTimeout, links, saves, ProviderTypeOK, ConflictHeard, DisposedQuiet, CallsCounted
  <2> QED
    BY <2>1, <2>2
<1>10. CASE Ignored
  <2>1. ProviderTypeOK'
    BY <1>10 DEF Ignored, Answered, links, saves, ProviderTypeOK
  <2>2. (ConflictHeard /\ DisposedQuiet /\ CallsCounted)'
    BY <1>10 DEF Ignored, Answered, links, saves, ProviderTypeOK, ConflictHeard, DisposedQuiet, CallsCounted
  <2> QED
    BY <2>1, <2>2
<1>11. CASE ContinueWaiting
  <2>1. ProviderTypeOK'
    BY <1>11 DEF ContinueWaiting, Answered, StillLoading, StartLoadTimeout, links, saves, ProviderTypeOK
  <2>2. (ConflictHeard /\ DisposedQuiet /\ CallsCounted)'
    BY <1>11 DEF ContinueWaiting, Answered, StillLoading, StartLoadTimeout, links, saves, ProviderTypeOK, ConflictHeard, DisposedQuiet, CallsCounted
  <2> QED
    BY <2>1, <2>2
<1>12. CASE Retry
  <2>1. ProviderTypeOK'
    <3>1. LinksTyped'
      BY <1>12, TypesSplit DEF Retry, Answered, StillLoading, Reconnect, Replace, Dropped, Cut, LinksTyped, RestTyped, LinkState
    <3>2. RestTyped /\ link \in [Connection -> LinkState]
      BY TypesSplit DEF LinksTyped
    <3>3. begun' \in 1 .. MaxConnections /\ calls' \in 0 .. MaxSaves
      BY <1>12, <3>2 DEF Retry, Answered, StillLoading, Reconnect, Replace, Dropped, Cut, RestTyped
    <3>4. save' \in [SaveId -> {"none", "waiting", "resolved", "rejected"}]
      BY <1>12, <3>2, <3>3 DEF Retry, Answered, StillLoading, Reconnect, Replace, Dropped, Cut, RestTyped
    <3>5. RestTyped'
      BY <1>12, <3>2, <3>3, <3>4 DEF Retry, Answered, StillLoading, Reconnect, Replace, Dropped, Cut, RestTyped
    <3> QED
      BY <3>1, <3>5, TypesSplit
  <2>2. (ConflictHeard /\ DisposedQuiet /\ CallsCounted)'
    BY <1>12 DEF Retry, Answered, StillLoading, Reconnect, Replace, Dropped, Cut, ProviderTypeOK, ConflictHeard, DisposedQuiet, CallsCounted
  <2> QED
    BY <2>1, <2>2
<1>13. CASE CancelLoad
  <2>1. Dispose(link, {})
    BY <1>13 DEF CancelLoad
  <2>2. ProviderTypeOK'
    <3>1. LinksTyped /\ (current # Null => link[current] \in Socket \cup {"closed"})
      BY TypesSplit DEF LinksTyped
    <3>2. LinksTyped'
      BY <2>1, <3>1, DisposeTyped DEF LinksTyped
    <3> QED
      BY <1>13, <3>2, TypesSplit DEF RestTyped, CancelLoad, Answered, StillLoading
  <2>3. (ConflictHeard /\ DisposedQuiet /\ CallsCounted)'
    BY <1>13 DEF CancelLoad, Answered, StillLoading, Dispose, Dropped, Cut, ProviderTypeOK, ConflictHeard, DisposedQuiet, CallsCounted
  <2> QED
    BY <2>2, <2>3
<1>14. CASE ConnectToForkDoc
  <2>1. ProviderTypeOK'
    <3>1. begun \in Nat /\ begun' = begun + 1 /\ begun' \in Connection
      BY <1>14, TypesSplit DEF ConnectToForkDoc, Replace, RestTyped
    <3>2. LinksTyped'
      BY <1>14, <3>1, TypesSplit DEF ConnectToForkDoc, Replace, Dropped, Cut, loading, LinksTyped, LinkState
    <3>3. RestTyped'
      BY <1>14, <3>1, TypesSplit DEF ConnectToForkDoc, Replace, Spend, loading, RestTyped
    <3> QED
      BY <3>2, <3>3, TypesSplit
  <2>2. (ConflictHeard /\ DisposedQuiet /\ CallsCounted)'
    BY <1>14 DEF ConnectToForkDoc, Replace, Dropped, Cut, Spend, loading, ProviderTypeOK, ConflictHeard, DisposedQuiet, CallsCounted
  <2> QED
    BY <2>1, <2>2
<1>15. CASE Restored
  <2>1. ProviderTypeOK'
    <3>1. LinksTyped'
      BY <1>15, TypesSplit DEF Restored, Reconnect, Replace, Dropped, Cut, LinksTyped, RestTyped, LinkState
    <3>2. RestTyped /\ link \in [Connection -> LinkState]
      BY TypesSplit DEF LinksTyped
    <3>3. begun' \in 1 .. MaxConnections /\ calls' \in 0 .. MaxSaves
      BY <1>15, <3>2 DEF Restored, Reconnect, Replace, Dropped, Cut, RestTyped
    <3>4. save' \in [SaveId -> {"none", "waiting", "resolved", "rejected"}]
      BY <1>15, <3>2, <3>3 DEF Restored, Reconnect, Replace, Dropped, Cut, RestTyped
    <3>6. budget' \in [Event -> Nat]
      BY <1>15, <3>2, SpendTyped DEF Restored, RestTyped, Event
    <3>5. RestTyped'
      BY <1>15, <3>2, <3>3, <3>4, <3>6 DEF Restored, Reconnect, Replace, RestTyped
    <3> QED
      BY <3>1, <3>5, TypesSplit
  <2>2. (ConflictHeard /\ DisposedQuiet /\ CallsCounted)'
    BY <1>15 DEF Restored, Reconnect, Replace, Dropped, Cut, ProviderTypeOK, ConflictHeard, DisposedQuiet, CallsCounted
  <2> QED
    BY <2>1, <2>2
<1>16. CASE SessionDialogAnswered
  <2>1. Dispose(link, {})
    BY <1>16 DEF SessionDialogAnswered
  <2>2. ProviderTypeOK'
    <3>1. LinksTyped /\ (current # Null => link[current] \in Socket \cup {"closed"})
      BY TypesSplit DEF LinksTyped
    <3>2. LinksTyped'
      BY <2>1, <3>1, DisposeTyped DEF LinksTyped
    <3> QED
      BY <1>16, <3>2, TypesSplit DEF RestTyped, SessionDialogAnswered
  <2>3. (ConflictHeard /\ DisposedQuiet /\ CallsCounted)'
    BY <1>16 DEF SessionDialogAnswered, Dispose, Dropped, Cut, ProviderTypeOK, ConflictHeard, DisposedQuiet, CallsCounted
  <2> QED
    BY <2>2, <2>3
<1>17. CASE CloseDocument
  <2>1. Dispose(link, {})
    BY <1>17 DEF CloseDocument
  <2>2. ProviderTypeOK'
    <3>1. LinksTyped /\ (current # Null => link[current] \in Socket \cup {"closed"})
      BY TypesSplit DEF LinksTyped
    <3>2. LinksTyped'
      BY <2>1, <3>1, DisposeTyped DEF LinksTyped
    <3> QED
      BY <1>17, <3>2, TypesSplit DEF RestTyped, CloseDocument
  <2>3. (ConflictHeard /\ DisposedQuiet /\ CallsCounted)'
    BY <1>17 DEF CloseDocument, Dispose, Dropped, Cut, ProviderTypeOK, ConflictHeard, DisposedQuiet, CallsCounted
  <2> QED
    BY <2>2, <2>3
<1>18. CASE Save
  <2>1. ProviderTypeOK'
    <3>1. LinksTyped'
      BY <1>18, TypesSplit DEF Save, links, loading, LinksTyped, RestTyped, LinkState
    <3>2. RestTyped /\ link \in [Connection -> LinkState]
      BY TypesSplit DEF LinksTyped
    <3>3. begun' \in 1 .. MaxConnections /\ calls' \in 0 .. MaxSaves
      BY <1>18, <3>2 DEF Save, links, loading, RestTyped
    <3>4. save' \in [SaveId -> {"none", "waiting", "resolved", "rejected"}]
      BY <1>18, <3>2, <3>3 DEF Save, links, loading, RestTyped
    <3>5. RestTyped'
      BY <1>18, <3>2, <3>3, <3>4 DEF Save, links, loading, RestTyped
    <3> QED
      BY <3>1, <3>5, TypesSplit
  <2>a. (ConflictHeard /\ DisposedQuiet)'
    BY <1>18 DEF Save, links, loading, ConflictHeard, DisposedQuiet
  <2>b. CallsCounted'
    <3>1. /\ calls' = calls + 1 /\ calls \in Nat /\ calls' \in SaveId
          /\ save \in [SaveId -> {"none", "waiting", "resolved", "rejected"}]
      BY <1>18 DEF Save, ProviderTypeOK
    <3>2. PICK outcome \in {"waiting", "resolved", "rejected"} : save' = [save EXCEPT ![calls'] = outcome]
      BY <1>18 DEF Save
    <3>3. \A s \in SaveId : save'[s] = IF s = calls' THEN outcome ELSE save[s]
      BY <3>1, <3>2
    <3>4. \A s \in SaveId : s > calls' <=> s > calls /\ s # calls'
      BY <3>1
    <3> QED
      BY <3>2, <3>3, <3>4, <3>1 DEF CallsCounted
  <2>2. (ConflictHeard /\ DisposedQuiet /\ CallsCounted)'
    BY <2>a, <2>b
  <2> QED
    BY <2>1, <2>2
<1>19. ASSUME NEW s \in SaveId, SaveReply(s) PROVE Base'
  <2>1. ProviderTypeOK'
    BY <1>19 DEF SaveReply, Settles, links, loading, ProviderTypeOK
  <2>2. (ConflictHeard /\ DisposedQuiet /\ CallsCounted)'
    BY <1>19 DEF SaveReply, Settles, links, loading, ProviderTypeOK, ConflictHeard, DisposedQuiet, CallsCounted
  <2> QED
    BY <2>1, <2>2
<1>20. CASE UNCHANGED providerVars
  BY <1>20 DEF providerVars, links, loading, saves, ProviderTypeOK, ConflictHeard, DisposedQuiet, CallsCounted
<1> QED
  BY <1>1, <1>2, <1>3, <1>4, <1>5, <1>6, <1>7, <1>8, <1>9, <1>10, <1>11, <1>12, <1>13, <1>14, <1>15, <1>16, <1>17, <1>18, <1>19, <1>20 DEF ProviderNext, Connect, Fails, LoadDialog, User

\* While the document loads, a step leaves the timer running, or the dialog there, or a
\* retry's request on its way or failed.
LEMMA StepWatch == ProviderInv /\ [ProviderNext]_providerVars => LoadWatched' /\ ForksSynced'
<1> SUFFICES ASSUME ProviderInv, [ProviderNext]_providerVars PROVE LoadWatched' /\ ForksSynced'
  OBVIOUS
<1>0. /\ link \in [Connection -> LinkState] /\ begun \in Connection /\ begun \in Nat
      /\ LoadWatched /\ ForksSynced
  BY DEF ProviderInv, ProviderTypeOK, LinkState
\* What keeps them: neither the timer nor the dialog is touched, nor a request
<1>a. ASSUME UNCHANGED <<begun, forks, hasSynced, isDisposed, timer, dialog>>,
             link[begun] \in {"request", "failed"} => link'[begun] = link[begun]
      PROVE  LoadWatched' /\ ForksSynced'
  BY <1>0, <1>a DEF LoadWatched, ForksSynced, Loading, RetryFailed
<1>b. ASSUME isDisposed', UNCHANGED <<forks, hasSynced>>
      PROVE  LoadWatched' /\ ForksSynced'
  BY <1>0, <1>b DEF LoadWatched, ForksSynced, Loading
<1>c. ASSUME NEW k \in Connection, Closes(k)
      PROVE  /\ UNCHANGED <<begun, forks, hasSynced, isDisposed, timer, dialog>>
             /\ link[begun] \in {"request", "failed"} => link'[begun] = link[begun]
  BY <1>0, <1>c DEF Closes, Unlinked, Socket, LinkState
<1>1. ASSUME NEW k \in Connection, SessionReply(k) PROVE LoadWatched' /\ ForksSynced'
  BY <1>0, <1>1 DEF SessionReply, StartLoadTimeout, LoadWatched, ForksSynced, Loading
<1>2. ASSUME NEW k \in Connection, SessionFails(k) PROVE LoadWatched' /\ ForksSynced'
  <2>1. /\ link' = [link EXCEPT ![k] = "failed"] /\ link[k] = "request"
        /\ UNCHANGED <<begun, forks, hasSynced, isDisposed, timer, dialog>>
    BY <1>2 DEF SessionFails, loading
  <2>2. CASE k = begun
    BY <1>0, <2>1, <2>2 DEF LoadWatched, ForksSynced, Loading, RetryFailed
  <2>3. CASE k # begun
    BY <1>0, <1>a, <2>1, <2>3
  <2> QED
    BY <2>2, <2>3
<1>3. ASSUME NEW k \in Connection, Opened(k) \/ Reopen(k) PROVE LoadWatched' /\ ForksSynced'
  <2>1. /\ link[k] \in {"opening", "closed"}
        /\ \A c \in Connection : c # k => link'[c] = link[c]
        /\ UNCHANGED <<begun, forks, hasSynced, isDisposed, timer, dialog>>
    BY <1>0, <1>3 DEF Opened, Reopen, loading
  <2> QED
    BY <1>0, <1>a, <2>1
<1>4. ASSUME NEW k \in Connection, Synced(k) PROVE LoadWatched' /\ ForksSynced'
  <2>1. /\ link[k] = "open" /\ link' = [link EXCEPT ![k] = "synced"]
        /\ UNCHANGED <<begun, forks, isDisposed, dialog>>
        /\ hasSynced' \/ UNCHANGED <<hasSynced, timer>>
    BY <1>4 DEF Synced, OnSync
  <2>2. CASE hasSynced'
    BY <2>2 DEF LoadWatched, ForksSynced, Loading
  <2>3. CASE UNCHANGED <<hasSynced, timer>>
    BY <1>0, <1>a, <2>1, <2>3
  <2> QED
    BY <2>1, <2>2, <2>3
<1>5. ASSUME NEW k \in Connection, Lost(k) \/ Expired(k) PROVE LoadWatched' /\ ForksSynced'
  BY <1>5, <1>a, <1>c DEF Lost, Expired
<1>6. ASSUME NEW k \in Connection, Refused(k) PROVE LoadWatched' /\ ForksSynced'
  <2>1. CASE hasSynced
    BY <1>6, <1>a, <1>c, <2>1 DEF Refused
  <2>2. CASE ~hasSynced
    BY <1>6, <1>b, <2>2 DEF Refused, Dispose
  <2> QED
    BY <2>1, <2>2
<1>7. CASE LoadTimeout
  BY <1>0, <1>7 DEF LoadTimeout, links, LoadWatched, ForksSynced, Loading
<1>8. CASE Ignored
  BY <1>0, <1>8 DEF Ignored, StillLoading, links, LoadWatched, ForksSynced, Loading
<1>9. CASE ContinueWaiting
  BY <1>0, <1>9 DEF ContinueWaiting, StillLoading, StartLoadTimeout, links, LoadWatched, ForksSynced, Loading
<1>10. CASE Retry
  <2>1. /\ begun' = begun + 1 /\ begun < MaxConnections /\ UNCHANGED <<forks, hasSynced>>
        /\ link' = [Dropped(link) EXCEPT ![begun'] = "request"]
    BY <1>10 DEF Retry, Reconnect, Replace
  <2>2. begun' \in Connection /\ begun' > 1
    BY <1>0, <2>1 DEF Connection
  <2>3. DOMAIN Dropped(link) = Connection
    BY <1>0 DEF Dropped
  <2>4. link'[begun'] = "request"
    BY <2>1, <2>2, <2>3
  <2> QED
    BY <1>0, <2>1, <2>2, <2>4 DEF LoadWatched, ForksSynced
<1>11. CASE CancelLoad \/ SessionDialogAnswered \/ CloseDocument
  BY <1>11, <1>b DEF CancelLoad, SessionDialogAnswered, CloseDocument, Dispose
<1>12. CASE ConnectToForkDoc
  BY <1>12 DEF ConnectToForkDoc, loading, LoadWatched, ForksSynced, Loading
<1>13. CASE Restored
  BY <1>0, <1>13 DEF Restored, Reconnect, LoadWatched, ForksSynced, Loading
<1>14. CASE Save \/ (\E s \in SaveId : SaveReply(s)) \/ UNCHANGED providerVars
  BY <1>14, <1>a DEF Save, SaveReply, providerVars, links, loading
<1> QED
  BY <1>1, <1>2, <1>3, <1>4, <1>5, <1>6, <1>7, <1>8, <1>9, <1>10, <1>11, <1>12, <1>13, <1>14
  DEF ProviderNext, Connect, Fails, LoadDialog, User

LEMMA StepInv == ProviderInv /\ [ProviderNext]_providerVars => ProviderInv'
BY StepBase, StepWatch DEF ProviderInv, Base

\* yprovider.ts and ydrive.ts, of every history with any number of connections and
\* saves: the types; the conflict listener is on the open socket; no timer is left
\* when the document is closed; while it loads the timer runs or the dialog is shown, but
\* for a retry's session request and its failure; a save is counted when it has a promise.
THEOREM ProviderInvariant == ProviderSpec => []ProviderInv
BY InitProvider, StepInv, PTL DEF ProviderSpec

-----------------------------------------------------------------------------
(* The provider keeps the promises of its saves                            *)

\* Every step is one of SavePromises, or none of its business.
LEMMA StepPromised == ProviderInv /\ [ProviderNext]_providerVars => [Promised!Next]_(Promised!vars)
<1> SUFFICES ASSUME ProviderInv, [ProviderNext]_providerVars, ~ UNCHANGED <<save, replies>>
             PROVE  Promised!Next
  BY DEF Promised!vars
<1> USE DEF ProviderInv
<1>1. CASE Save
  <2>1. calls' \in SaveId /\ save[calls'] = "none" /\ UNCHANGED replies
    BY <1>1 DEF Save, ProviderTypeOK, CallsCounted
  <2>2. Promised!Sent(calls') \/ Promised!Unsent(calls')
    BY <1>1, <2>1 DEF Save, Promised!Sent, Promised!Unsent
  <2> QED
    BY <2>1, <2>2 DEF Promised!Next
<1>2. ASSUME NEW s \in SaveId, SaveReply(s) PROVE Promised!Next
  <2>1. PICK status \in {"success", "skipped", "failed"} :
          /\ save' = [t \in SaveId |-> IF t \notin {s} THEN save[t]
                                       ELSE IF status = "success" THEN "resolved" ELSE "rejected"]
          /\ replies' = IF status = "success" THEN replies \cup {s} ELSE replies
    BY <1>2 DEF SaveReply, Settles
  <2>2. save[s] = "waiting" /\ save \in [SaveId -> {"none", "waiting", "resolved", "rejected"}]
    BY <1>2 DEF SaveReply, ProviderTypeOK
  <2>3. Promised!Succeeds(s) \/ Promised!Fails(s)
    BY <2>1, <2>2 DEF Promised!Succeeds, Promised!Fails
  <2> QED
    BY <2>3 DEF Promised!Next
<1>3. ASSUME NEW k \in Connection, Connect(k) \/ Fails(k) PROVE UNCHANGED <<save, replies>>
  BY <1>3 DEF Connect, Fails, SessionReply, Opened, Synced, Reopen, SessionFails, Lost, Refused,
              Expired, Closes, saves
<1>4. CASE LoadTimeout \/ LoadDialog
  BY <1>4 DEF LoadTimeout, LoadDialog, Ignored, ContinueWaiting, Retry, CancelLoad, Reconnect, saves
<1>5. CASE ConnectToForkDoc \/ Restored \/ SessionDialogAnswered \/ CloseDocument
  BY <1>5 DEF ConnectToForkDoc, Restored, Reconnect, SessionDialogAnswered, CloseDocument
<1>6. CASE UNCHANGED providerVars
  BY <1>6 DEF providerVars, saves
<1> QED
  BY <1>1, <1>2, <1>3, <1>4, <1>5, <1>6 DEF ProviderNext, User

\* ydrive.ts, save: in every history a save whose message went out is settled once, and
\* succeeds only by the server's own answer to it.  Provider implements SavePromises.
THEOREM SavesKept == ProviderSpec => SavesMatched
<1>1. ProviderInit => Promised!Init
  BY DEF ProviderInit, Promised!Init
<1>2. ProviderSpec => []ProviderInv
  BY ProviderInvariant
<1>3. ProviderInv /\ [ProviderNext]_providerVars => [Promised!Next]_(Promised!vars)
  BY StepPromised
<1> QED
  BY <1>1, <1>2, <1>3, PTL DEF ProviderSpec, SavesMatched, Promised!Spec

-----------------------------------------------------------------------------
(* A synchronized document stays                                           *)

\* Who disposes of a synchronized document is the user, by closing it or by answering the
\* dialog of an expired session, not the load dialog or a refusal.
LEMMA StepStays ==
  [ProviderNext]_providerVars =>
    [hasSynced /\ ~isDisposed /\ isDisposed' => dialog' = dialog /\ budget' = budget]_providerVars
<1> SUFFICES ASSUME [ProviderNext]_providerVars, hasSynced, ~isDisposed, isDisposed'
             PROVE  dialog' = dialog /\ budget' = budget
  OBVIOUS
<1>1. ASSUME NEW k \in Connection, Connect(k) \/ Fails(k) PROVE FALSE
  BY <1>1 DEF Connect, Fails, SessionReply, Opened, Synced, Reopen, SessionFails, Lost, Refused,
              Expired, Closes, loading
<1>2. CASE LoadTimeout \/ LoadDialog
  BY <1>2 DEF LoadTimeout, LoadDialog, Ignored, ContinueWaiting, Retry, CancelLoad, Reconnect,
              StillLoading
<1>3. CASE ConnectToForkDoc \/ Restored \/ Save
  BY <1>3 DEF ConnectToForkDoc, Restored, Reconnect, Save, loading
<1>4. CASE SessionDialogAnswered \/ CloseDocument
  BY <1>4 DEF SessionDialogAnswered, CloseDocument
<1>5. ASSUME NEW s \in SaveId, SaveReply(s) PROVE FALSE
  BY <1>5 DEF SaveReply, loading
<1>6. CASE UNCHANGED providerVars
  BY <1>6 DEF providerVars, loading
<1> QED
  BY <1>1, <1>2, <1>3, <1>4, <1>5, <1>6 DEF ProviderNext, User

\* yprovider.ts, StillLoading and _onConnectionClosed: no answer to the load dialog, however
\* late, and no refusal of the server disposes of a document that was synchronized once.
THEOREM SyncedKept == ProviderSpec => SyncedStays
BY StepStays, PTL DEF ProviderSpec, SyncedStays
=============================================================================
