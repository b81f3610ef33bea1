---------------------------- MODULE RebuildProofs -----------------------------
(* Theorems about Rebuild for any clients, units, rooms and writes.        *)
EXTENDS Rebuild, FiniteSetTheorems, TLAPS

USE BoundAssumption

-----------------------------------------------------------------------------
(* Replicas                                                                *)

\* Sets of units are finite.
LEMMA FiniteUnits ==
  ASSUME NEW S \in SUBSET Unit
  PROVE  IsFiniteSet(S) /\ Cardinality(S) \in Nat
<1>1. IsFiniteSet(Unit)
  BY FS_Interval DEF Unit
<1>2. IsFiniteSet(S)
  BY <1>1, FS_Subset
<1> QED
  BY <1>2, FS_CardinalityType

\* The rank of a unit in a set is its place in their order.
LEMMA Ranks ==
  ASSUME NEW S \in SUBSET Unit, NEW u \in S
  PROVE  /\ Rank(u, S) \in 1 .. Cardinality(S)
         /\ \A v \in S : Rank(v, S) = Rank(u, S) => v = u
<1>0. Unit \subseteq Nat
  BY DEF Unit
<1>1. ASSUME NEW v \in S
      PROVE  /\ IsFiniteSet({w \in S : w <= v}) /\ Rank(v, S) \in Nat
             /\ Rank(v, S) <= Cardinality(S)
  <2>1. {w \in S : w <= v} \in SUBSET S
    OBVIOUS
  <2>2. IsFiniteSet({w \in S : w <= v}) /\ Cardinality({w \in S : w <= v}) <= Cardinality(S)
    BY <2>1, FiniteUnits, FS_Subset
  <2> QED
    BY <2>2, FS_CardinalityType DEF Rank
<1>2. Rank(u, S) # 0
  <2>1. u \in {w \in S : w <= u}
    BY <1>0
  <2> QED
    BY <1>1, <2>1, FS_EmptySet DEF Rank
<1>3. ASSUME NEW v \in S, NEW w \in S, v < w PROVE Rank(v, S) # Rank(w, S)
  <2> DEFINE A == {x \in S : x <= v}
             B == {x \in S : x <= w}
  <2>0. \A x \in S : x \in Nat
    BY <1>0
  <2>1. A \in SUBSET B /\ w \in B /\ w \notin A
    <3>1. A \subseteq B
      BY <1>3, <2>0
    <3> QED
      BY <1>3, <2>0, <3>1
  <2>2. IsFiniteSet(B)
    BY <1>1
  <2>3. Cardinality(A) # Cardinality(B)
    <3> HIDE DEF A, B
    <3> QED
      BY <2>1, <2>2, FS_Subset
  <2> QED
    BY <2>3 DEF Rank
<1>4. ASSUME NEW v \in S, Rank(v, S) = Rank(u, S) PROVE v = u
  BY <1>0, <1>3, <1>4
<1>5. Rank(u, S) \in 1 .. Cardinality(S)
  <2>1. /\ Rank(u, S) \in Nat /\ Rank(u, S) <= Cardinality(S) /\ Rank(u, S) # 0
        /\ Cardinality(S) \in Nat
    BY <1>1, <1>2, FiniteUnits
  <2> HIDE DEF Rank
  <2> QED
    BY <2>1
<1> QED
  BY <1>4, <1>5

\* An author's items for some units: one of each, numbered on.
LEMMA Items ==
  ASSUME NEW a \in Author, NEW from \in Nat, NEW S \in SUBSET Unit
  PROVE  /\ ItemsOf(a, from, S) \subseteq Item
         /\ IsFiniteSet(ItemsOf(a, from, S))
         /\ Cardinality(ItemsOf(a, from, S)) = Cardinality(S)
         /\ \A i \in ItemsOf(a, from, S) :
              /\ i.author = a /\ i.unit \in S /\ i.clock \in Nat
              /\ from < i.clock /\ i.clock <= from + Cardinality(S)
         /\ \A u \in S : \E i \in ItemsOf(a, from, S) : i.unit = u
         /\ \A i, j \in ItemsOf(a, from, S) : i.unit = j.unit \/ i.clock = j.clock => i = j
<1> DEFINE T == ItemsOf(a, from, S)
           item(u) == [author |-> a, clock |-> from + Rank(u, S), unit |-> u]
           f == [u \in S |-> item(u)]
<1>1. ASSUME NEW u \in S
      PROVE  /\ item(u) \in Item /\ item(u) \in T
             /\ item(u).author = a /\ item(u).unit = u /\ item(u).clock = from + Rank(u, S)
             /\ Rank(u, S) \in Nat /\ 1 <= Rank(u, S) /\ Rank(u, S) <= Cardinality(S)
  BY <1>1, Ranks, FiniteUnits DEF Item, ItemsOf, Author
<1>2. \A i \in T : \E u \in S : i = item(u)
  BY DEF ItemsOf
<1>3. f \in Surjection(S, T) /\ f \in Injection(S, T)
  <2>1. f \in [S -> T]
    BY <1>1
  <2>2. \A i \in T : \E u \in S : f[u] = i
    BY <1>2
  <2>3. \A u, v \in S : f[u] = f[v] => u = v
    BY <1>1
  <2> QED
    BY <2>1, <2>2, <2>3 DEF Surjection, Injection, IsInjective
<1>4. IsFiniteSet(T) /\ Cardinality(T) = Cardinality(S)
  BY <1>3, FiniteUnits, FS_Surjection
<1>5. ASSUME NEW i \in T
      PROVE  /\ i \in Item /\ i.author = a /\ i.unit \in S /\ i.clock \in Nat
             /\ from < i.clock /\ i.clock <= from + Cardinality(S)
  <2>1. PICK u \in S : i = item(u)
    BY <1>2
  <2> QED
    BY <1>1, <2>1, FiniteUnits
<1>6. ASSUME NEW i \in T, NEW j \in T, i.unit = j.unit \/ i.clock = j.clock PROVE i = j
  <2>1. PICK u \in S, v \in S : i = item(u) /\ j = item(v)
    BY <1>2
  <2>2. u = v \/ Rank(u, S) = Rank(v, S)
    BY <1>1, <1>6, <2>1
  <2>3. u = v
    BY <2>2, Ranks
  <2> QED
    BY <2>1, <2>3
<1>7. \A u \in S : \E i \in T : i.unit = u
  BY <1>1
<1> QED
  BY <1>4, <1>5, <1>6, <1>7

\* A document made from a file shows it, and has nothing deleted.
LEMMA Histories ==
  ASSUME NEW S \in SUBSET Unit
  PROVE  /\ SourceOf(S) \in Replica /\ Sound(SourceOf(S)) /\ SourceOf(S).dead = {}
         /\ Shown(SourceOf(S)) = S
         /\ \A i \in SourceOf(S).has : i.author = Source /\ i.unit \in S
         /\ \A i, j \in SourceOf(S).has : i.unit = j.unit => i = j
         /\ \A u \in S : \E i \in SourceOf(S).has : i.unit = u
<1> DEFINE r == SourceOf(S)
<1>1. r.has = ItemsOf(Source, 0, S) /\ r.dead = {} /\ r = [has |-> r.has, dead |-> r.dead]
  BY DEF SourceOf
<1>2. /\ r.has \subseteq Item /\ IsFiniteSet(r.has)
      /\ \A i \in r.has : i.author = Source /\ i.unit \in S
      /\ \A u \in S : \E i \in r.has : i.unit = u
      /\ \A i, j \in r.has : i.unit = j.unit \/ i.clock = j.clock => i = j
  <2> DEFINE T == ItemsOf(Source, 0, S)
  <2>1. Source \in Author /\ 0 \in Nat
    BY DEF Source, Author
  <2>2. /\ T \subseteq Item /\ IsFiniteSet(T)
        /\ \A i \in T : i.author = Source /\ i.unit \in S
        /\ \A u \in S : \E i \in T : i.unit = u
        /\ \A i, j \in T : i.unit = j.unit \/ i.clock = j.clock => i = j
    <3>1. ItemsOf(Source, 0, S) \subseteq Item
      BY <2>1, Items
    <3>2. IsFiniteSet(T)
      BY <2>1, Items
    <3>3. \A i \in T : i.author = Source /\ i.unit \in S
      BY <2>1, Items
    <3>4. \A u \in S : \E i \in T : i.unit = u
      BY <2>1, Items
    <3> QED
      BY <2>1, Items, <3>1, <3>2, <3>3, <3>4
  <2>3. r.has = T
    BY <1>1
  <2> HIDE DEF r, T
  <2> QED
    BY <2>2, <2>3
<1> HIDE DEF r
<1>3. r \in Replica /\ Sound(r)
  BY <1>1, <1>2 DEF Replica, Sound, Id
<1>4. Shown(r) = S
  BY <1>1, <1>2 DEF Shown, Alive
<1> QED
  BY <1>1, <1>2, <1>3, <1>4 DEF r

\* What a merge has is of one or the other, with the deletions of both.
LEMMA Merged ==
  ASSUME NEW a \in Replica, NEW b \in Replica, Sound(a), Sound(b)
  PROVE  /\ Merge(a, b) \in Replica /\ Sound(Merge(a, b))
         /\ a.has \subseteq Merge(a, b).has /\ Merge(a, b).has \subseteq a.has \cup b.has
         /\ Merge(a, b).dead = a.dead \cup b.dead
<1> DEFINE n == Merge(a, b)
           more == {i \in b.has : Id(i) \notin Ids(a)}
<1>1. n.has = a.has \cup more /\ n.dead = a.dead \cup b.dead
  BY DEF Merge
<1>2. n \in Replica
  BY DEF Replica, Merge
<1>3. IsFiniteSet(n.has)
  <2>1. more \in SUBSET b.has
    OBVIOUS
  <2>2. IsFiniteSet(more)
    BY <2>1, FS_Subset DEF Sound
  <2>3. IsFiniteSet(a.has)
    BY DEF Sound
  <2> HIDE DEF more
  <2>4. IsFiniteSet(a.has \cup more)
    BY <2>2, <2>3, FS_Union
  <2> QED
    BY <1>1, <2>4
<1>4. ASSUME NEW d \in n.dead PROVE d \in Ids(n)
  BY <1>1 DEF Sound, Ids
<1>5. ASSUME NEW i \in n.has, NEW j \in n.has, Id(i) = Id(j) PROVE i = j
  BY <1>1, <1>5 DEF Sound, Ids
<1>6. Sound(n)
  <2> HIDE DEF n, more
  <2> QED
    BY <1>3, <1>4, <1>5 DEF Sound
<1> QED
  BY <1>1, <1>2, <1>6

\* An id stands for the same item in both.
Agreeing(a, b) == \A i \in a.has, j \in b.has : Id(i) = Id(j) => i = j
\* Then a merge has all of both.
LEMMA MergedAgreed ==
  ASSUME NEW a \in Replica, NEW b \in Replica, Agreeing(a, b)
  PROVE  Merge(a, b).has = a.has \cup b.has
<1>1. \A i \in b.has : Id(i) \in Ids(a) => i \in a.has
  BY DEF Agreeing, Ids
<1>2. Merge(a, b).has = a.has \cup {i \in b.has : Id(i) \notin Ids(a)}
  BY DEF Merge
<1> QED
  BY <1>1, <1>2

\* A merge into nothing is what was merged.
LEMMA MergedEmpty ==
  ASSUME NEW b \in Replica
  PROVE  Merge(Empty, b) = b
<1>1. Ids(Empty) = {} /\ Empty.has = {} /\ Empty.dead = {}
  BY DEF Ids, Empty
<1>2. b = [has |-> b.has, dead |-> b.dead]
  BY DEF Replica
<1> QED
  BY <1>1, <1>2 DEF Merge

\* A replica that shows each unit by one item shows as many units as it has items alive.
LEMMA NoneTwice ==
  ASSUME NEW r, IsFiniteSet(r.has), \A i, j \in Alive(r) : i.unit = j.unit => i = j
  PROVE  Cardinality(Shown(r)) = Cardinality(Alive(r))
<1> DEFINE f == [i \in Alive(r) |-> i.unit]
<1>1. IsFiniteSet(Alive(r))
  <2>1. Alive(r) \in SUBSET r.has
    BY DEF Alive
  <2> QED
    BY <2>1, FS_Subset
<1>2. f \in Surjection(Alive(r), Shown(r)) /\ f \in Injection(Alive(r), Shown(r))
  BY DEF Surjection, Injection, IsInjective, Shown
<1> QED
  BY <1>1, <1>2, FS_Surjection

\* How many items a room has made itself is a number.
LEMMA OwnNumber ==
  ASSUME NEW r, IsFiniteSet(r.has)
  PROVE  Own(r) \in Nat
<1>1. {i \in r.has : i.author = Room} \in SUBSET r.has
  OBVIOUS
<1> QED
  BY <1>1, FS_Subset, FS_CardinalityType DEF Own

\* What aset keeps: one item that shows it, for each unit that is to be shown.
LEMMA KeptOnce ==
  ASSUME NEW r, NEW S
  PROVE  /\ Kept(r, S) \subseteq Alive(r)
         /\ \A k \in Kept(r, S) : k.unit \in S
         /\ \A u \in S \cap Shown(r) : \E k \in Kept(r, S) : k.unit = u
         /\ \A k, l \in Kept(r, S) : k.unit = l.unit => k = l
<1> DEFINE one(u) == CHOOSE i \in Alive(r) : i.unit = u
<1>1. \A u \in S \cap Shown(r) : one(u) \in Alive(r) /\ one(u).unit = u
  BY DEF Shown
<1>2. Kept(r, S) = {one(u) : u \in S \cap Shown(r)}
  BY DEF Kept
<1> HIDE DEF one
<1> QED
  BY <1>1, <1>2

\* aset makes the replica show exactly S, each unit once, with new items where it has to.
LEMMA AsetShape ==
  ASSUME rooms \in Nat, NEW r \in Replica, Sound(r), NEW S \in SUBSET Unit,
         \A i \in r.has : i.author = Room => i.clock <= Own(r)
  PROVE  /\ Aset(r, S) \in Replica /\ Sound(Aset(r, S))
         /\ r.has \subseteq Aset(r, S).has /\ r.dead \subseteq Aset(r, S).dead
         /\ \A i \in Aset(r, S).has \ r.has :
              i.author = Room /\ Own(r) < i.clock /\ i.unit \in S \ Shown(r)
         /\ \A i \in Aset(r, S).has \ r.has : Id(i) \notin Aset(r, S).dead
         /\ \A i, j \in Aset(r, S).has \ r.has : i.unit = j.unit => i = j
         /\ \A i \in Aset(r, S).has : i.author = Room => i.clock <= Own(Aset(r, S))
         /\ Shown(Aset(r, S)) = S
         /\ \A i, j \in Alive(Aset(r, S)) : i.unit = j.unit => i = j
         /\ \A i \in Alive(r) : Id(i) \in Aset(r, S).dead =>
              i.unit \notin S \/ \E k \in Alive(r) : k # i /\ k.unit = i.unit
<1> DEFINE n == Aset(r, S)
           D == S \ Shown(r)
           N == ItemsOf(Room, Own(r), D)
           A == Alive(r)
           K == Kept(r, S)
<1>1. /\ n.has = r.has \cup N /\ n.dead = r.dead \cup {Id(i) : i \in A \ K}
      /\ n = [has |-> n.has, dead |-> n.dead]
  BY DEF Aset
<1>2. /\ r.has \subseteq Item /\ r.dead \subseteq Author \X Nat /\ IsFiniteSet(r.has)
      /\ r.dead \subseteq Ids(r) /\ \A i, j \in r.has : Id(i) = Id(j) => i = j
  BY DEF Replica, Sound
<1>3. Own(r) \in Nat /\ Room \in Author /\ D \in SUBSET Unit /\ Cardinality(D) \in Nat
  <2>1. Own(r) \in Nat
    BY <1>2, OwnNumber
  <2>2. Room \in Author
    BY DEF Room, Author
  <2> QED
    BY <2>1, <2>2, FiniteUnits
<1>4. /\ N \subseteq Item /\ IsFiniteSet(N) /\ Cardinality(N) = Cardinality(D)
      /\ \A i \in N : /\ i.author = Room /\ i.unit \in D /\ i.clock \in Nat
                      /\ Own(r) < i.clock /\ i.clock <= Own(r) + Cardinality(D)
      /\ \A u \in D : \E i \in N : i.unit = u
      /\ \A i, j \in N : i.unit = j.unit \/ i.clock = j.clock => i = j
  <2>1. N \subseteq Item /\ IsFiniteSet(N) /\ Cardinality(N) = Cardinality(D)
    BY <1>3, Items
  <2>2. \A i \in N : /\ i.author = Room /\ i.unit \in D /\ i.clock \in Nat
                    /\ Own(r) < i.clock /\ i.clock <= Own(r) + Cardinality(D)
    BY <1>3, Items
  <2>3. \A u \in D : \E i \in N : i.unit = u
    BY <1>3, Items
  <2>4. \A i, j \in N : i.unit = j.unit \/ i.clock = j.clock => i = j
    BY <1>3, Items
  <2> QED
    BY <2>1, <2>2, <2>3, <2>4
<1>5. /\ K \subseteq A /\ \A k \in K : k.unit \in S
      /\ \A u \in S \cap Shown(r) : \E k \in K : k.unit = u
      /\ \A k, l \in K : k.unit = l.unit => k = l
  BY KeptOnce
<1>6. A \subseteq r.has /\ \A i \in r.has : i \in A <=> Id(i) \notin r.dead
  BY DEF Alive
<1> HIDE DEF n, N, A, K
<1>7. \A i \in N, j \in r.has : Id(i) # Id(j)
  <2> SUFFICES ASSUME NEW i \in N, NEW j \in r.has, Id(i) = Id(j) PROVE FALSE
    OBVIOUS
  <2>1. i.author = j.author /\ i.clock = j.clock
    BY DEF Id
  <2>2. i.author = Room /\ i.clock \in Nat /\ Own(r) < i.clock
    BY <1>4
  <2>3. i.clock <= Own(r)
    BY <2>1, <2>2
  <2> QED
    BY <1>3, <2>2, <2>3
<1>8. \A i \in N : Id(i) \notin n.dead /\ i \notin r.has
  <2>1. ASSUME NEW i \in N PROVE Id(i) \notin r.dead
    BY <1>2, <1>7 DEF Ids
  <2>2. ASSUME NEW i \in N, NEW j \in A PROVE Id(i) # Id(j)
    BY <1>6, <1>7
  <2>3. ASSUME NEW i \in N PROVE i \notin r.has
    BY <1>7
  <2> QED
    BY <1>1, <2>1, <2>2, <2>3
<1>9. Alive(n) = K \cup N
  <2>1. \A i \in r.has : Id(i) \notin n.dead <=> i \in K
    <3>1. ASSUME NEW i \in K PROVE Id(i) \notin n.dead
      <4>1. ASSUME NEW j \in A \ K PROVE Id(i) # Id(j)
        BY <1>2, <1>5, <1>6
      <4>2. i \in r.has /\ Id(i) \notin r.dead
        BY <1>5, <1>6
      <4> QED
        BY <1>1, <4>1, <4>2
    <3>2. ASSUME NEW i \in r.has, Id(i) \notin n.dead PROVE i \in K
      BY <1>1, <1>6, <3>2
    <3> QED
      BY <3>1, <3>2
  <2>2. \A i : i \in Alive(n) <=> i \in n.has /\ Id(i) \notin n.dead
    BY DEF Alive
  <2> QED
    BY <1>1, <1>5, <1>6, <1>8, <2>1, <2>2
<1>10. n \in Replica
  <2>1. n.dead \subseteq Author \X Nat
    BY <1>1, <1>2, <1>6 DEF Item, Id
  <2>2. n.has \subseteq Item
    BY <1>1, <1>2, <1>4
  <2> QED
    BY <1>1, <2>1, <2>2 DEF Replica
<1>11. Sound(n)
  <2>1. IsFiniteSet(n.has)
    <3>1. IsFiniteSet(r.has \cup N)
      BY <1>2, <1>4, FS_Union
    <3> QED
      BY <1>1, <3>1
  <2>2. n.dead \subseteq Ids(n)
    BY <1>1, <1>2, <1>6 DEF Ids
  <2>3. ASSUME NEW i \in n.has, NEW j \in n.has, Id(i) = Id(j) PROVE i = j
    <3>1. CASE i \in N /\ j \in N
      <4>1. i.clock = j.clock
        BY <2>3 DEF Id
      <4> QED
        BY <1>4, <3>1, <4>1
    <3> QED
      BY <1>1, <1>2, <1>7, <2>3, <3>1
  <2> QED
    BY <2>1, <2>2, <2>3 DEF Sound
<1>12. \A i \in n.has \ r.has : i \in N
  BY <1>1
<1>13. Own(n) = Own(r) + Cardinality(D)
  <2> DEFINE O == {i \in r.has : i.author = Room}
             P == {i \in n.has : i.author = Room}
  <2>1. P = O \cup N /\ O \cap N = {}
    BY <1>1, <1>4, <1>8
  <2>2. IsFiniteSet(O) /\ IsFiniteSet(N)
    <3>1. O \in SUBSET r.has
      OBVIOUS
    <3> QED
      BY <1>2, <1>4, <3>1, FS_Subset
  <2>3. Own(r) = Cardinality(O) /\ Own(n) = Cardinality(P)
    BY DEF Own
  <2> HIDE DEF O, P
  <2>4. Cardinality(O \cup N) = Cardinality(O) + Cardinality(N) - Cardinality(O \cap N)
    BY <2>2, FS_Union
  <2>5. Cardinality(O \cap N) = 0
    BY <2>1, FS_EmptySet
  <2>6. Cardinality(P) = Cardinality(O) + Cardinality(N) - 0
    BY <2>1, <2>4, <2>5
  <2> QED
    BY <1>3, <1>4, <2>3, <2>6
<1>14. ASSUME NEW i \in n.has, i.author = Room PROVE i.clock <= Own(n)
  <2>1. CASE i \in N
    BY <1>4, <1>13, <2>1
  <2>2. CASE i \in r.has
    <3>1. i.clock <= Own(r) /\ i.clock \in Nat
      BY <1>2, <1>14, <2>2 DEF Item
    <3> QED
      BY <1>3, <1>13, <3>1
  <2> QED
    BY <1>1, <2>1, <2>2
<1>15. Shown(n) = S
  BY <1>4, <1>5, <1>9 DEF Shown
<1>16. ASSUME NEW i \in Alive(n), NEW j \in Alive(n), i.unit = j.unit PROVE i = j
  <2>1. \A k \in K : k.unit \in Shown(r)
    BY <1>5 DEF Shown, A
  <2> QED
    BY <1>4, <1>5, <1>9, <1>16, <2>1
<1>17. ASSUME NEW i \in A, Id(i) \in n.dead
       PROVE  i.unit \notin S \/ \E k \in A : k # i /\ k.unit = i.unit
  <2>1. i \notin K
    BY <1>6, <1>9, <1>17 DEF Alive
  <2>2. i.unit \in Shown(r)
    BY DEF Shown, A
  <2> QED
    BY <1>5, <2>1, <2>2
<1>18. \A i \in n.has \ r.has :
         i.author = Room /\ Own(r) < i.clock /\ i.unit \in S \ Shown(r)
  BY <1>4, <1>12
<1>19. \A i, j \in n.has \ r.has : i.unit = j.unit => i = j
  BY <1>4, <1>12
<1>20. r.has \subseteq n.has /\ r.dead \subseteq n.dead
  BY <1>1
<1>21. \A i \in n.has \ r.has : Id(i) \notin n.dead
  BY <1>8, <1>12
<1> QED
  BY <1>10, <1>11, <1>14, <1>15, <1>16, <1>17, <1>18, <1>19, <1>20, <1>21
     DEF n, A

-----------------------------------------------------------------------------
(* The copies                                                              *)

\* Who holds a copy
LEMMA Holders ==
  /\ room \in Copies /\ \A c \in Client : replica[c] \in Copies
  /\ store # None => store \in Copies
  /\ \A r \in Copies : r = room \/ (\E c \in Client : r = replica[c]) \/ (r = store /\ store # None)
BY DEF Copies, Replicas

\* Who holds a copy after a step
LEMMA HoldersNext ==
  \A r \in Copies' : \/ r = room' \/ (\E c \in Client : r = replica'[c])
                     \/ r = store' /\ store' # None
BY DEF Copies, Replicas

\* The copies are replicas, and sound.
LEMMA CopyTypes ==
  ASSUME TypeOK, CopiesInv
  PROVE  /\ \A r \in Copies : r \in Replica /\ Sound(r)
         /\ rooms \in Nat /\ Room \in Nat /\ born \in Nat
<1>1. \A r \in Copies : r \in Replica
  BY Holders DEF TypeOK
<1> QED
  BY <1>1 DEF CopiesInv, TypeOK, Room

\* The empty replica
LEMMA Empties ==
  /\ Empty \in Replica /\ Sound(Empty) /\ Empty.has = {} /\ Empty.dead = {}
  /\ Shown(Empty) = {} /\ Alive(Empty) = {}
BY FS_EmptySet DEF Empty, Replica, Sound, Shown, Alive

\* A merge brings the room no item that it made itself.
LEMMA OwnMerged ==
  ASSUME TypeOK, CopiesInv, stage # "none", NEW q \in Copies
  PROVE  /\ Own(Merge(room, q)) = Own(room)
         /\ \A i \in Merge(room, q).has : i.author = Room => i \in room.has /\ i.clock <= Own(room)
<1>1. /\ room.has \subseteq Merge(room, q).has
      /\ Merge(room, q).has \subseteq room.has \cup q.has
  BY Holders, CopyTypes, Merged
<1>2. \A i \in q.has : i.author = Room => i \in room.has
  BY DEF CopiesInv
<1>3. {i \in Merge(room, q).has : i.author = Room} = {i \in room.has : i.author = Room}
  BY <1>1, <1>2
<1>4. \A i \in room.has : i.author = Room => i.clock <= Own(room)
  BY DEF CopiesInv
<1> QED
  BY <1>1, <1>2, <1>3, <1>4 DEF Own

\* What initialize makes of the store's content
LEMMA Stored ==
  ASSUME TypeOK, CopiesInv, stage = "loaded", store # None
  PROVE  /\ FromStore \in Replica /\ Sound(FromStore)
         /\ room.has \subseteq FromStore.has /\ FromStore.has \subseteq room.has \cup store.has
         /\ FromStore.dead = room.dead \cup store.dead
         /\ \A i \in FromStore.has : i.author = Room => i \in room.has /\ i.clock <= Own(FromStore)
<1>1. room \in Copies /\ store \in Copies
  BY Holders
<1>2. /\ FromStore \in Replica /\ Sound(FromStore)
      /\ room.has \subseteq FromStore.has /\ FromStore.has \subseteq room.has \cup store.has
      /\ FromStore.dead = room.dead \cup store.dead
  BY <1>1, CopyTypes, Merged DEF FromStore
<1>3. /\ Own(FromStore) = Own(room)
      /\ \A i \in FromStore.has : i.author = Room => i \in room.has /\ i.clock <= Own(room)
  BY <1>1, OwnMerged DEF FromStore
<1> QED
  BY <1>2, <1>3

\* A room that was initialized is sound, its own items are numbered, and it has all it had.
\* From a store, it shows what was read from the file.
LEMMA InitializedShape ==
  ASSUME TypeOK, CopiesInv, stage = "loaded"
  PROVE  /\ Initialized \in Replica /\ Sound(Initialized)
         /\ room.has \subseteq Initialized.has /\ room.dead \subseteq Initialized.dead
         /\ \A i \in Initialized.has : i.author = Room => i.clock <= Own(Initialized)
         /\ store # None =>
              /\ FromStore.has \subseteq Initialized.has /\ FromStore.dead \subseteq Initialized.dead
              /\ Shown(Initialized) = read
              /\ \A i \in Initialized.has \ FromStore.has :
                   i.author = Room /\ Own(FromStore) < i.clock /\ i.unit \in read \ Shown(FromStore)
              /\ \A i, j \in Initialized.has \ FromStore.has : i.unit = j.unit => i = j
         /\ store = None =>
              /\ Initialized.has = room.has \cup SourceOf(read).has
              /\ Initialized.dead = room.dead
<1>1. room \in Replica /\ Sound(room) /\ rooms \in Nat /\ read \in SUBSET Unit
  BY Holders, CopyTypes DEF TypeOK
<1>2. CASE store = None
  <2> DEFINE s == SourceOf(read)
  <2>1. /\ s \in Replica /\ Sound(s) /\ s.dead = {}
        /\ \A i \in s.has : i.author = Source /\ i.unit \in read
    BY <1>1, Histories
  <2>2. Initialized = Merge(room, s)
    BY <1>2 DEF Initialized
  <2> HIDE DEF s
  <2>3. \A i \in room.has : i.author = Room /\ i.clock <= Own(room)
    BY DEF CopiesInv
  <2>4. Source # Room
    BY <1>1 DEF Source, Room
  <2>5. Agreeing(room, s)
    BY <2>1, <2>3, <2>4 DEF Agreeing, Id
  <2>6. Initialized.has = room.has \cup s.has
    BY <1>1, <2>1, <2>2, <2>5, MergedAgreed
  <2>7. /\ Initialized \in Replica /\ Sound(Initialized) /\ Initialized.dead = room.dead
    <3>1. /\ Merge(room, s) \in Replica /\ Sound(Merge(room, s))
          /\ Merge(room, s).dead = room.dead \cup s.dead
      BY <1>1, <2>1, Merged
    <3> QED
      BY <2>1, <2>2, <3>1
  <2>8. {i \in Initialized.has : i.author = Room} = {i \in room.has : i.author = Room}
    BY <2>1, <2>4, <2>6
  <2>9. \A i \in Initialized.has : i.author = Room => i.clock <= Own(Initialized)
    BY <2>1, <2>3, <2>4, <2>6, <2>8 DEF Own
  <2>10. /\ room.has \subseteq Initialized.has /\ room.dead \subseteq Initialized.dead
         /\ Initialized.has = room.has \cup SourceOf(read).has
    BY <2>6, <2>7 DEF s
  <2> QED
    BY <1>2, <2>7, <2>9, <2>10
<1>3. CASE store # None
  <2>1. /\ FromStore \in Replica /\ Sound(FromStore)
        /\ room.has \subseteq FromStore.has /\ room.dead \subseteq FromStore.dead
        /\ \A i \in FromStore.has : i.author = Room => i.clock <= Own(FromStore)
    BY <1>3, Stored
  <2>2. CASE InSync(FromStore)
    <3>1. Initialized = FromStore /\ Shown(FromStore) = read
      BY <1>3, <2>2 DEF Initialized, InSync, Holds
    <3> HIDE DEF FromStore
    <3> QED
      BY <1>3, <2>1, <3>1
  <2>3. CASE ~InSync(FromStore)
    <3>1. Initialized = Aset(FromStore, read)
      BY <1>3, <2>3 DEF Initialized
    <3>2. /\ Initialized \in Replica /\ Sound(Initialized)
          /\ FromStore.has \subseteq Initialized.has /\ FromStore.dead \subseteq Initialized.dead
      BY <1>1, <2>1, <3>1, AsetShape
    <3>3. \A i \in Initialized.has : i.author = Room => i.clock <= Own(Initialized)
      BY <1>1, <2>1, <3>1, AsetShape
    <3>4. Shown(Initialized) = read
      BY <1>1, <2>1, <3>1, AsetShape
    <3>5. \A i \in Initialized.has \ FromStore.has :
            i.author = Room /\ Own(FromStore) < i.clock /\ i.unit \in read \ Shown(FromStore)
      BY <1>1, <2>1, <3>1, AsetShape
    <3>6. \A i, j \in Initialized.has \ FromStore.has : i.unit = j.unit => i = j
      BY <1>1, <2>1, <3>1, AsetShape
    <3> QED
      BY <1>3, <2>1, <3>2, <3>3, <3>4, <3>5, <3>6
  <2> QED
    BY <2>2, <2>3
<1> QED
  BY <1>2, <1>3

-----------------------------------------------------------------------------
(* Types, and the copies' shape                                            *)

\* A room that gets the file's content
LEMMA OverwriteShape ==
  ASSUME TypeOK, CopiesInv, Overwrite
  PROVE  /\ room' \in Replica /\ Sound(room')
         /\ room.has \subseteq room'.has /\ room.dead \subseteq room'.dead
         /\ \A i \in room'.has \ room.has :
              i.author = Room /\ Own(room) < i.clock /\ i.unit \in file \ Shown(room)
         /\ \A i, j \in room'.has \ room.has : i.unit = j.unit => i = j
         /\ \A i \in room'.has \ room.has : Id(i) \notin room'.dead
         /\ \A i \in room'.has : i.author = Room => i.clock <= Own(room')
         /\ Shown(room') = file
         /\ room' = room \/ \A i, j \in Alive(room') : i.unit = j.unit => i = j
         /\ \A i \in Alive(room) : Id(i) \in room'.dead =>
              i.unit \notin file \/ \E k \in Alive(room) : k # i /\ k.unit = i.unit
<1>1. /\ room \in Replica /\ Sound(room) /\ rooms \in Nat /\ file \in SUBSET Unit
      /\ \A i \in room.has : i.author = Room => i.clock <= Own(room)
  BY Holders, CopyTypes DEF TypeOK, CopiesInv
<1>2. CASE Holds(room, file)
  <2>1. room' = room /\ Shown(room) = file
    BY <1>2 DEF Overwrite, Holds
  <2> QED
    BY <1>1, <2>1 DEF Alive
<1>3. CASE ~Holds(room, file)
  <2> DEFINE n == Aset(room, file)
  <2>1. room' = n
    BY <1>3 DEF Overwrite
  <2>2. n \in Replica /\ Sound(n) /\ room.has \subseteq n.has /\ room.dead \subseteq n.dead
    BY <1>1, AsetShape
  <2>3. \A i \in n.has \ room.has :
          i.author = Room /\ Own(room) < i.clock /\ i.unit \in file \ Shown(room)
    BY <1>1, AsetShape
  <2>4. \A i, j \in n.has \ room.has : i.unit = j.unit => i = j
    BY <1>1, AsetShape
  <2>5. \A i \in n.has : i.author = Room => i.clock <= Own(n)
    BY <1>1, AsetShape
  <2>6. Shown(n) = file
    BY <1>1, AsetShape
  <2>7. \A i \in n.has \ room.has : Id(i) \notin n.dead
    BY <1>1, AsetShape
  <2>8. \A i, j \in Alive(n) : i.unit = j.unit => i = j
    BY <1>1, AsetShape
  <2>9. \A i \in Alive(room) : Id(i) \in n.dead =>
          i.unit \notin file \/ \E k \in Alive(room) : k # i /\ k.unit = i.unit
    BY <1>1, AsetShape
  <2> HIDE DEF n
  <2> QED
    BY <2>1, <2>2, <2>3, <2>4, <2>5, <2>6, <2>7, <2>8, <2>9
<1> QED
  BY <1>2, <1>3

\* Every step keeps the types.
LEMMA TypeStep ==
  ASSUME TypeOK, CopiesInv, Next
  PROVE  TypeOK'
<1> USE DEF onDisc, onServer, onClients, history, configuration
<1>0. room \in Replica /\ \A c \in Client : replica[c] \in Replica /\ Sound(replica[c])
  BY Holders, CopyTypes
<1>1. CASE Make
  <2>1. rooms' \in 0 .. MaxRooms /\ room' \in Replica /\ stage' = "made"
    BY <1>1, Empties DEF TypeOK, Make
  <2>2. online' = online /\ online = {}
    BY <1>1 DEF TypeOK, Make
  <2> QED
    BY <1>1, <2>1, <2>2 DEF TypeOK, Make
<1>2. CASE Load
  BY <1>2 DEF TypeOK, Load
<1>3. CASE Initialize
  <2>1. Initialized \in Replica
    BY <1>3, InitializedShape DEF Initialize
  <2> QED
    BY <1>3, <2>1 DEF TypeOK, Initialize
<1>4. CASE Store
  BY <1>4 DEF TypeOK, Store
<1>5. CASE Reload \/ SaveRefused
  <2>1. room' \in Replica
    BY <1>5, OverwriteShape DEF Reload, SaveRefused
  <2>2. Unsaved \subseteq Unit
    BY DEF Unsaved, Shown, Alive, TypeOK, Replica, Item
  <2> QED
    BY <1>5, <2>1, <2>2 DEF TypeOK, Reload, SaveRefused, Overwrite
<1>6. CASE Notice
  BY <1>6 DEF TypeOK, Notice
<1>7. CASE SaveFile
  <2>1. Shown(room) \subseteq Unit
    BY DEF Shown, Alive, TypeOK, Replica, Item
  <2>2. file' \subseteq Unit /\ mtime' \in Nat /\ known' \in Nat
    BY <1>7, <2>1 DEF TypeOK, SaveFile
  <2> QED
    BY <1>7, <2>2 DEF TypeOK, SaveFile
<1>8. CASE Evict \/ Crash
  <2>1. Unsaved \subseteq Unit
    BY DEF Unsaved, Shown, Alive, TypeOK, Replica, Item
  <2>2. /\ room' \in Replica /\ lost' \in BOOLEAN /\ online' = {}
        /\ known' \in Nat \cup {None}
    <3>1. lost' \in BOOLEAN
      BY <1>8 DEF Evict, Crash, Ends, TypeOK
    <3> QED
      BY <1>8, <3>1, Empties DEF Evict, Crash, Ends, TypeOK
  <2> QED
    BY <1>8, <2>1, <2>2 DEF TypeOK, Evict, Crash, Ends
<1>9. CASE External
  <2>1. born' \in 1 .. MaxUnits \/ born' = born
    BY <1>9 DEF External, TypeOK
  <2>2. file' \subseteq Unit /\ born' \in 0 .. MaxUnits /\ budget' \in 0 .. MaxWrites
    <3>1. budget' \in 0 .. MaxWrites
      BY <1>9 DEF External, TypeOK
    <3>2. born' \in 0 .. MaxUnits
      BY <2>1 DEF TypeOK
    <3>3. file' \subseteq file \/ (file' = file \cup {born'} /\ born' \in 1 .. MaxUnits)
      BY <1>9 DEF External, TypeOK
    <3> QED
      BY <3>1, <3>2, <3>3 DEF TypeOK, Unit
  <2>3. lost' \in BOOLEAN
    BY <1>9 DEF External, TypeOK
  <2> QED
    BY <1>9, <2>2, <2>3 DEF TypeOK, External
<1>10. ASSUME NEW c \in Client, Join(c) \/ Disconnect(c) PROVE TypeOK'
  BY <1>10 DEF TypeOK, Join, Disconnect
<1>11. ASSUME NEW c \in Client, Close(c) PROVE TypeOK'
  BY <1>11, Empties DEF TypeOK, Close
<1>12. ASSUME NEW c \in Client, Type(c) PROVE TypeOK'
  <2> DEFINE i == [author |-> User, clock |-> born', unit |-> born']
  <2>1. born' = born + 1 /\ born' \in Unit /\ born' \in 0 .. MaxUnits
    BY <1>12 DEF Type, TypeOK, Unit
  <2>2. i \in Item
    BY <2>1 DEF Item, Author, User, Unit
  <2>3. replica' = [replica EXCEPT ![c].has = @ \cup {i}]
    BY <1>12 DEF Type
  <2>4. replica' \in [Client -> Replica]
    BY <2>2, <2>3 DEF TypeOK, Replica
  <2> QED
    BY <1>12, <2>1, <2>4 DEF TypeOK, Type
<1>13. ASSUME NEW c \in Client, Erase(c) PROVE TypeOK'
  <2>1. PICK i \in Alive(replica[c]) :
          /\ replica' = [replica EXCEPT ![c].dead = @ \cup {Id(i)}]
          /\ forfeit' = forfeit \cup {i.unit}
    BY <1>13 DEF Erase
  <2>2. i \in Item
    BY <1>0 DEF Alive, Replica
  <2>3. i.unit \in Unit /\ Id(i) \in Author \X Nat
    BY <2>2 DEF Item, Id
  <2>4. replica' \in [Client -> Replica]
    BY <2>1, <2>3 DEF TypeOK, Replica
  <2> QED
    BY <1>13, <2>1, <2>3, <2>4 DEF TypeOK, Erase
<1>14. ASSUME NEW c \in Client, Push(c) PROVE TypeOK'
  <2>1. room' \in Replica
    BY <1>0, <1>14, Holders, CopyTypes, Merged DEF Push
  <2> QED
    BY <1>14, <2>1 DEF TypeOK, Push
<1>15. ASSUME NEW c \in Client, Pull(c) PROVE TypeOK'
  <2>1. Merge(replica[c], room) \in Replica
    BY <1>0, Holders, CopyTypes, Merged
  <2> QED
    BY <1>15, <2>1 DEF TypeOK, Pull
<1> QED
  BY <1>1, <1>2, <1>3, <1>4, <1>5, <1>6, <1>7, <1>8, <1>9, <1>10, <1>11, <1>12, <1>13, <1>14,
     <1>15 DEF Next

\* What becomes of a copy: its items were in some copy whose deletions it also has, but for
\* those of N.
Drawn(r, N) == \A i \in r.has : i \in N \/ \E q \in Copies : i \in q.has /\ q.dead \subseteq r.dead

\* A copy that is left as it is draws on itself.
LEMMA DrawnCopy == \A r \in Copies : \A N : Drawn(r, N)
BY DEF Drawn

\* A merge draws on what was merged.
LEMMA DrawnMerge ==
  ASSUME TypeOK, CopiesInv, NEW a \in Copies, NEW b \in Copies, NEW N
  PROVE  Sound(Merge(a, b)) /\ Drawn(Merge(a, b), N)
<1>1. /\ Sound(Merge(a, b)) /\ Merge(a, b).has \subseteq a.has \cup b.has
      /\ Merge(a, b).dead = a.dead \cup b.dead
  BY CopyTypes, Merged
<1> QED
  BY <1>1 DEF Drawn

\* The steps that make items
Makes == Initialize \/ Reload \/ SaveRefused \/ \E c \in Client : Type(c)

\* The other steps make no items.
LEMMA DrawnQuiet ==
  ASSUME TypeOK, CopiesInv, Next, ~Makes
  PROVE  \A r \in Copies' : Sound(r) /\ Drawn(r, {})
<1> USE DEF onDisc, onServer, onClients, history, configuration
<1>0. /\ \A r \in Copies : Sound(r) /\ Drawn(r, {})
      /\ Sound(Empty) /\ Drawn(Empty, {})
  BY CopyTypes, DrawnCopy, Empties DEF Drawn
<1>1. ASSUME \A r \in Copies' : r \in Copies \/ r = Empty PROVE \A r \in Copies' : Sound(r) /\ Drawn(r, {})
  BY <1>0, <1>1
<1>2. CASE UNCHANGED <<room, replica, store>>
  BY <1>1, <1>2, Holders, HoldersNext
<1>3. CASE Make \/ Load \/ Notice \/ SaveFile \/ External \/ \E c \in Client : Join(c) \/ Disconnect(c)
  <2>1. room' = room
    BY <1>3 DEF Make, Load, Notice, SaveFile, External, Join, Disconnect, CopiesInv
  <2> QED
    BY <1>2, <1>3, <2>1 DEF Make, Load, Notice, SaveFile, External, Join, Disconnect
<1>4. CASE Store \/ Evict \/ Crash \/ \E c \in Client : Close(c)
  <2>1. /\ room' \in {room, Empty} /\ store' \in {store, room}
        /\ \A c \in Client : replica'[c] \in {replica[c], Empty}
    BY <1>4 DEF Store, Evict, Crash, Ends, Close, TypeOK
  <2>2. \A r \in Copies' : r \in Copies \/ r = Empty
    BY <2>1, Holders, HoldersNext
  <2> QED
    BY <1>1, <2>2
<1>5. ASSUME NEW c \in Client, Erase(c) PROVE \A r \in Copies' : Sound(r) /\ Drawn(r, {})
  <2>1. PICK i \in Alive(replica[c]) : replica' = [replica EXCEPT ![c].dead = @ \cup {Id(i)}]
    BY <1>5 DEF Erase
  <2>2. /\ replica'[c].has = replica[c].has /\ replica'[c].dead = replica[c].dead \cup {Id(i)}
        /\ \A b \in Client : b # c => replica'[b] = replica[b]
    BY <2>1 DEF TypeOK, Replica
  <2>3. Sound(replica'[c])
    <3>1. Sound(replica[c]) /\ Id(i) \in Ids(replica[c])
      BY <1>0, Holders DEF Alive, Ids
    <3> QED
      BY <2>2, <3>1 DEF Sound, Ids
  <2>4. Drawn(replica'[c], {})
    BY <2>2, Holders DEF Drawn
  <2>5. room' = room /\ store' = store
    BY <1>5 DEF Erase
  <2>6. \A r \in Copies' : r \in Copies \/ r = replica'[c]
    BY <2>2, <2>5, Holders, HoldersNext
  <2> QED
    BY <1>0, <2>3, <2>4, <2>6
<1>6. ASSUME NEW c \in Client, Push(c) PROVE \A r \in Copies' : Sound(r) /\ Drawn(r, {})
  <2>1. room' = Merge(room, replica[c]) /\ replica' = replica /\ store' = store
    BY <1>6 DEF Push
  <2>2. Sound(room') /\ Drawn(room', {})
    BY <2>1, Holders, DrawnMerge
  <2>3. \A r \in Copies' : r \in Copies \/ r = room'
    BY <2>1, Holders, HoldersNext
  <2> QED
    BY <1>0, <2>2, <2>3
<1>7. ASSUME NEW c \in Client, Pull(c) PROVE \A r \in Copies' : Sound(r) /\ Drawn(r, {})
  <2>1. /\ replica'[c] = Merge(replica[c], room) /\ room' = room /\ store' = store
        /\ \A b \in Client : b # c => replica'[b] = replica[b]
    BY <1>7 DEF Pull, TypeOK
  <2>2. Sound(replica'[c]) /\ Drawn(replica'[c], {})
    BY <2>1, Holders, DrawnMerge
  <2>3. \A r \in Copies' : r \in Copies \/ r = replica'[c]
    BY <2>1, Holders, HoldersNext
  <2> QED
    BY <1>0, <2>2, <2>3
<1> QED
  BY <1>3, <1>4, <1>5, <1>6, <1>7 DEF Next, Makes

\* An overwrite makes the items that the room gets for the file's content.
LEMMA DrawnOverwrite ==
  ASSUME TypeOK, CopiesInv, Overwrite
  PROVE  \A r \in Copies' : Sound(r) /\ Drawn(r, room'.has \ room.has)
<1>1. Sound(room') /\ room.dead \subseteq room'.dead
  BY OverwriteShape
<1>2. Drawn(room', room'.has \ room.has)
  BY <1>1, Holders DEF Drawn
<1>3. \A r \in Copies' : r \in Copies \/ r = room'
  BY Holders, HoldersNext DEF Overwrite, onDisc, onClients
<1> QED
  BY <1>1, <1>2, <1>3, CopyTypes, DrawnCopy

\* The items that initialize makes
Made == IF store = None THEN SourceOf(read).has ELSE room'.has \ FromStore.has

\* initialize makes those of the history of the file, or what the store lacked.
LEMMA DrawnInitialize ==
  ASSUME TypeOK, CopiesInv, Initialize
  PROVE  \A r \in Copies' : Sound(r) /\ Drawn(r, Made)
<1>1. /\ stage = "loaded" /\ room' = Initialized /\ replica' = replica
      /\ store' = room' \/ store' = store
  BY DEF Initialize, onClients
<1>2. Sound(room')
  BY <1>1, InitializedShape
<1>3. CASE store = None
  <2>1. room'.has = room.has \cup Made /\ room'.dead = room.dead
    BY <1>1, <1>3, InitializedShape DEF Made
  <2> QED
    BY <1>1, <1>2, <2>1, CopyTypes, DrawnCopy, Holders, HoldersNext DEF Drawn
<1>4. CASE store # None
  <2>1. /\ FromStore.dead \subseteq room'.dead /\ Made = room'.has \ FromStore.has
    BY <1>1, <1>4, InitializedShape DEF Made
  <2>2. FromStore.has \subseteq room.has \cup store.has /\ FromStore.dead = room.dead \cup store.dead
    BY <1>1, <1>4, Stored
  <2>3. Drawn(room', Made)
    BY <1>4, <2>1, <2>2, Holders DEF Drawn
  <2> QED
    BY <1>1, <1>2, <2>3, CopyTypes, DrawnCopy, Holders, HoldersNext
<1> QED
  BY <1>3, <1>4

\* The item that a user writes
Written == [author |-> User, clock |-> born', unit |-> born']

\* A user writes one item, whose id and unit are new.
LEMMA DrawnType ==
  ASSUME TypeOK, CopiesInv, NEW c \in Client, Type(c)
  PROVE  /\ \A r \in Copies' : Sound(r) /\ Drawn(r, {Written})
         /\ replica'[c].has = replica[c].has \cup {Written} /\ replica'[c].dead = replica[c].dead
         /\ \A b \in Client : b # c => replica'[b] = replica[b]
         /\ \A r \in Copies : \A i \in r.has : Id(i) # Id(Written) /\ i.unit # Written.unit
<1>1. /\ replica' = [replica EXCEPT ![c].has = @ \cup {Written}] /\ born' = born + 1
      /\ room' = room /\ store' = store
  BY DEF Type, Written, onDisc, onServer
<1>2. /\ replica'[c].has = replica[c].has \cup {Written} /\ replica'[c].dead = replica[c].dead
      /\ \A b \in Client : b # c => replica'[b] = replica[b]
  BY <1>1 DEF TypeOK, Replica
<1>3. ASSUME NEW r \in Copies, NEW i \in r.has PROVE Id(i) # Id(Written) /\ i.unit # Written.unit
  <2>1. i.unit <= born /\ (i.author = User => i.clock = i.unit) /\ i \in Item /\ born \in Nat
    BY CopyTypes DEF CopiesInv, Replica
  <2>2. i.unit # born + 1
    BY <2>1 DEF Item, Unit
  <2>3. Written.author = User /\ Written.clock = born + 1 /\ Written.unit = born + 1
    BY <1>1 DEF Written
  <2> QED
    BY <2>1, <2>2, <2>3 DEF Id
<1>4. Sound(replica'[c])
  <2>1. Sound(replica[c]) /\ replica[c] \in Copies
    BY Holders, CopyTypes
  <2>2. IsFiniteSet(replica[c].has \cup {Written})
    BY <2>1, FS_AddElement DEF Sound
  <2>3. IsFiniteSet(replica'[c].has)
    BY <1>2, <2>2
  <2>4. \A i, j \in replica'[c].has : Id(i) = Id(j) => i = j
    BY <1>2, <1>3, <2>1 DEF Sound
  <2>5. replica'[c].dead \subseteq Ids(replica'[c])
    BY <1>2, <2>1 DEF Sound, Ids
  <2> QED
    BY <2>3, <2>4, <2>5 DEF Sound
<1>5. Drawn(replica'[c], {Written})
  BY <1>2, Holders DEF Drawn
<1>6. \A r \in Copies' : r \in Copies \/ r = replica'[c]
  BY <1>1, <1>2, Holders, HoldersNext
<1> QED
  BY <1>2, <1>3, <1>4, <1>5, <1>6, CopyTypes, DrawnCopy

\* What is lost, too early or forfeited stays so, and rooms and units are numbered upwards.
Onward ==
  /\ lost => lost'
  /\ early => early'
  /\ forfeit \subseteq forfeit'
  /\ rooms' \in Nat /\ rooms <= rooms' /\ Room' = rooms' + 1
  /\ born' \in Nat /\ born <= born'

\* Every step goes onward.
LEMMA OnwardStep ==
  ASSUME TypeOK, CopiesInv, Next
  PROVE  Onward
<1> USE DEF onDisc, onServer, onClients, history, configuration, TypeOK, Room, Onward
<1>1. CASE Make \/ Load \/ Initialize \/ Store \/ Notice \/ SaveFile
  BY <1>1 DEF Make, Load, Initialize, Store, Notice, SaveFile
<1>2. CASE Reload \/ SaveRefused
  BY <1>2 DEF Reload, SaveRefused, Overwrite
<1>3. CASE Evict \/ Crash
  BY <1>3 DEF Evict, Crash, Ends
<1>4. CASE External
  BY <1>4 DEF External
<1>5. ASSUME NEW c \in Client, Join(c) \/ Disconnect(c) \/ Close(c) \/ Push(c) \/ Pull(c)
      PROVE  Onward
  BY <1>5 DEF Join, Disconnect, Close, Push, Pull
<1>6. ASSUME NEW c \in Client, Type(c) \/ Erase(c) PROVE Onward
  BY <1>6 DEF Type, Erase
<1> QED
  BY <1>1, <1>2, <1>3, <1>4, <1>5, <1>6 DEF Next

\* The bounds of items, for copies that have old items and well-numbered new ones
LEMMA BoundsKept ==
  ASSUME TypeOK, CopiesInv, Onward, NEW N,
         \A r \in Copies' : Drawn(r, N),
         \A i \in N : /\ i.author <= Room' /\ i.unit <= born'
                      /\ i.author = User => i.clock = i.unit
  PROVE  \A r \in Copies' : \A i \in r.has : /\ i.author <= Room' /\ i.unit <= born'
                                             /\ i.author = User => i.clock = i.unit
<1> SUFFICES ASSUME NEW r \in Copies', NEW i \in r.has, i \notin N
             PROVE  /\ i.author <= Room' /\ i.unit <= born'
                    /\ i.author = User => i.clock = i.unit
  OBVIOUS
<1>1. PICK q \in Copies : i \in q.has
  BY DEF Drawn
<1>2. i \in Item /\ i.author <= Room /\ i.unit <= born /\ (i.author = User => i.clock = i.unit)
  BY <1>1, CopyTypes DEF CopiesInv, Replica
<1>3. i.author \in Nat /\ i.unit \in Nat /\ rooms \in Nat /\ born \in Nat
  BY <1>2, CopyTypes DEF Item, Author, Unit
<1> QED
  BY <1>2, <1>3 DEF Onward, Room

\* What new items are
LEMMA MadeItems ==
  ASSUME TypeOK, CopiesInv, Initialize
  PROVE  \A i \in Made : i.author \in {Source, Room} /\ i.unit \in read
<1>1. stage = "loaded" /\ room' = Initialized /\ read \in SUBSET Unit
  BY DEF Initialize, TypeOK
<1>2. CASE store = None
  BY <1>1, <1>2, Histories DEF Made
<1>3. CASE store # None
  BY <1>1, <1>3, InitializedShape DEF Made
<1> QED
  BY <1>2, <1>3

\* No item has an author or a unit that is not born yet.
LEMMA CopiesBounded ==
  ASSUME TypeOK, CopiesInv, Next
  PROVE  \A r \in Copies' : /\ Sound(r)
                            /\ \A i \in r.has : /\ i.author <= Room' /\ i.unit <= born'
                                                /\ i.author = User => i.clock = i.unit
<1>0. Onward /\ rooms \in Nat /\ born \in Nat /\ file \cup read \subseteq 1 .. born
  BY OnwardStep, CopyTypes DEF CopiesInv
<1>1. CASE ~Makes
  BY <1>0, <1>1, DrawnQuiet, BoundsKept
<1>2. CASE Reload \/ SaveRefused
  <2>1. Overwrite /\ rooms' = rooms /\ born' = born
    BY <1>2 DEF Reload, SaveRefused, Overwrite
  <2>2. \A i \in room'.has \ room.has : i.author = Room /\ i.unit \in file
    BY <2>1, OverwriteShape
  <2>3. \A i \in room'.has \ room.has : /\ i.author <= Room' /\ i.unit <= born'
                                        /\ i.author = User => i.clock = i.unit
    <3>1. Room' = Room /\ Room <= Room /\ Room # User /\ \A u \in file : u <= born
      <4>1. rooms # 0
        BY <1>2 DEF Reload, SaveRefused, CopiesInv
      <4> QED
        BY <1>0, <2>1, <4>1 DEF Room, User
    <3> QED
      BY <2>1, <2>2, <3>1
  <2> QED
    BY <1>0, <2>1, <2>3, DrawnOverwrite, BoundsKept
<1>3. CASE Initialize
  <2>1. \A i \in Made : /\ i.author <= Room' /\ i.unit <= born'
                        /\ i.author = User => i.clock = i.unit
    <3>1. Room' = Room /\ Room <= Room /\ Source <= Room /\ Room # User /\ Source # User
      <4>1. rooms # 0 /\ rooms' = rooms
        BY <1>3 DEF Initialize, CopiesInv
      <4> QED
        BY <1>0, <4>1 DEF Room, User, Source
    <3>2. \A u \in read : u <= born'
      BY <1>0, <1>3 DEF Initialize
    <3> QED
      BY <1>3, <3>1, <3>2, MadeItems
  <2> QED
    BY <1>0, <1>3, <2>1, DrawnInitialize, BoundsKept
<1>4. ASSUME NEW c \in Client, Type(c)
      PROVE  \A r \in Copies' : /\ Sound(r)
                                /\ \A i \in r.has : /\ i.author <= Room' /\ i.unit <= born'
                                                    /\ i.author = User => i.clock = i.unit
  <2>2. \A i \in {Written} : /\ i.author <= Room' /\ i.unit <= born'
                             /\ i.author = User => i.clock = i.unit
    BY <1>0 DEF Written, User, Room, Onward
  <2> QED
    BY <1>0, <1>4, <2>2, DrawnType, BoundsKept
<1> QED
  BY <1>1, <1>2, <1>3, <1>4 DEF Makes

\* A room's own items are numbered.
LEMMA NumbersStep ==
  ASSUME TypeOK, CopiesInv, Next
  PROVE  \A i \in room'.has : i.author = Room' => i.clock <= Own(room)'
<1> USE DEF onDisc, onServer, onClients, history, configuration
<1>1. CASE room' = room /\ rooms' = rooms
  BY <1>1 DEF CopiesInv, Own, Room
<1>2. CASE room' = Empty
  BY <1>2, Empties
<1>3. CASE Make \/ Evict \/ Crash
  BY <1>2, <1>3 DEF Make, Evict, Crash, Ends
<1>4. CASE Reload \/ SaveRefused
  <2>1. Overwrite /\ rooms' = rooms
    BY <1>4 DEF Reload, SaveRefused, Overwrite
  <2>2. \A i \in room'.has : i.author = Room => i.clock <= Own(room')
    BY <2>1, OverwriteShape
  <2> QED
    BY <2>1, <2>2 DEF Own, Room
<1>5. CASE Initialize
  <2>1. stage = "loaded" /\ room' = Initialized /\ rooms' = rooms
    BY <1>5 DEF Initialize
  <2>2. \A i \in room'.has : i.author = Room => i.clock <= Own(room')
    BY <2>1, InitializedShape
  <2> QED
    BY <2>1, <2>2 DEF Own, Room
<1>6. ASSUME NEW c \in Client, Push(c)
      PROVE  \A i \in room'.has : i.author = Room' => i.clock <= Own(room)'
  <2>1. room' = Merge(room, replica[c]) /\ rooms' = rooms /\ stage # "none"
    BY <1>6 DEF Push, TypeOK
  <2>2. \A i \in room'.has : i.author = Room => i.clock <= Own(room')
    BY <2>1, Holders, OwnMerged
  <2> QED
    BY <2>1, <2>2 DEF Own, Room
<1>7. CASE Load \/ Store \/ Notice \/ SaveFile \/ External
  BY <1>1, <1>7 DEF Load, Store, Notice, SaveFile, External
<1>8. ASSUME NEW c \in Client,
             Join(c) \/ Disconnect(c) \/ Close(c) \/ Pull(c) \/ Type(c) \/ Erase(c)
      PROVE  room' = room /\ rooms' = rooms
  BY <1>8 DEF Join, Disconnect, Close, Pull, Type, Erase
<1> QED
  BY <1>1, <1>3, <1>4, <1>5, <1>6, <1>7, <1>8 DEF Next

\* A room that was made has all the items it made itself, and nothing else until it is
\* initialized.
LEMMA OwnStep ==
  ASSUME TypeOK, CopiesInv, Next
  PROVE  /\ stage' = "none" => room' = Empty
         /\ stage' # "none" =>
              /\ rooms' > 0
              /\ \A r \in Copies' : \A i \in r.has : i.author = Room' => i \in room'.has
         /\ stage' \in {"made", "loaded"} => \A i \in room'.has : i.author = Room'
<1> USE DEF onDisc, onServer, onClients, history, configuration
<1> DEFINE Goal == /\ stage' = "none" => room' = Empty
                   /\ stage' # "none" =>
                        /\ rooms' > 0
                        /\ \A r \in Copies' : \A i \in r.has : i.author = Room' => i \in room'.has
                   /\ stage' \in {"made", "loaded"} => \A i \in room'.has : i.author = Room'
<1>0. rooms \in Nat /\ stage \in {"none", "made", "loaded", "ready"}
  BY DEF TypeOK
<1>1. ASSUME stage # "none", rooms' = rooms, room.has \subseteq room'.has, NEW N,
             \A i \in N : i.author = Room => i \in room'.has,
             \A r \in Copies' : Drawn(r, N)
      PROVE  rooms' > 0 /\ \A r \in Copies' : \A i \in r.has : i.author = Room' => i \in room'.has
  BY <1>1 DEF CopiesInv, Drawn, Room
<1>2. CASE Make
  <2>1. room' = Empty /\ rooms' = rooms + 1 /\ stage' = "made"
    BY <1>2 DEF Make
  <2>2. \A r \in Copies' : \A i \in r.has : i.author # Room'
    <3> SUFFICES ASSUME NEW r \in Copies', NEW i \in r.has PROVE i.author # Room'
      OBVIOUS
    <3>1. Drawn(r, {})
      BY <1>2, DrawnQuiet DEF Makes, Make, Initialize, Reload, SaveRefused, Type
    <3>2. PICK q \in Copies : i \in q.has
      BY <3>1 DEF Drawn
    <3>3. i.author \in Nat /\ i.author <= rooms + 1
      BY <3>2, CopyTypes DEF CopiesInv, Room, Replica, Item, Author
    <3> QED
      BY <1>0, <2>1, <3>3 DEF Room
  <2> QED
    BY <1>0, <2>1, <2>2, Empties
<1>3. CASE Evict \/ Crash
  BY <1>3 DEF Evict, Crash, Ends
<1>4. CASE Reload \/ SaveRefused
  <2>1. Overwrite /\ rooms' = rooms /\ stage' = stage /\ stage \in {"made", "ready"}
    BY <1>4 DEF Reload, SaveRefused, Overwrite
  <2>2. room.has \subseteq room'.has /\ \A i \in room'.has \ room.has : i.author = Room
    BY <2>1, OverwriteShape
  <2>3. \A r \in Copies' : Drawn(r, room'.has \ room.has)
    BY <2>1, DrawnOverwrite
  <2>4. rooms' > 0 /\ \A r \in Copies' : \A i \in r.has : i.author = Room' => i \in room'.has
    BY <1>1, <2>1, <2>2, <2>3
  <2> QED
    BY <2>1, <2>2, <2>4 DEF CopiesInv, Room
<1>5. CASE Initialize
  <2>1. stage = "loaded" /\ stage' = "ready" /\ room' = Initialized /\ rooms' = rooms
    BY <1>5 DEF Initialize
  <2>2. room.has \subseteq room'.has
    BY <2>1, InitializedShape
  <2>3. \A i \in Made : i \in room'.has
    BY <2>1, InitializedShape DEF Made
  <2> QED
    BY <1>1, <1>5, <2>1, <2>2, <2>3, DrawnInitialize
<1>6. ASSUME NEW c \in Client, Type(c) PROVE Goal
  <2>1. stage' = stage /\ rooms' = rooms /\ room' = room
    BY <1>6 DEF Type
  <2>2. stage # "none" => Written.author # Room
    BY <1>0 DEF CopiesInv, Written, User, Room
  <2> QED
    BY <1>1, <1>6, <2>1, <2>2, DrawnType DEF CopiesInv, Room
<1>7. CASE ~Makes /\ ~Make /\ ~Evict /\ ~Crash
  <2>1. \/ stage' = stage /\ room' = room
        \/ stage = "made" /\ stage' = "loaded" /\ room' = room
        \/ stage = "ready" /\ stage' = "ready"
    BY <1>7 DEF Next, Makes, Load, Store, Notice, SaveFile, External, Join, Disconnect, Close,
       Erase, Push, Pull, TypeOK
  <2>2. rooms' = rooms
    BY <1>7 DEF Next, Makes, Load, Store, Notice, SaveFile, External, Join, Disconnect, Close,
       Erase, Push, Pull
  <2>3. room.has \subseteq room'.has
    <3>1. room' = room \/ \E c \in Client : room' = Merge(room, replica[c])
      BY <1>7 DEF Next, Makes, Load, Store, Notice, SaveFile, External, Join, Disconnect, Close,
         Erase, Push, Pull
    <3> QED
      BY <3>1, Holders, CopyTypes, Merged
  <2>4. \A r \in Copies' : Drawn(r, {})
    BY <1>7, DrawnQuiet
  <2>5. stage # "none" =>
          rooms' > 0 /\ \A r \in Copies' : \A i \in r.has : i.author = Room' => i \in room'.has
    BY <1>1, <2>2, <2>3, <2>4
  <2> QED
    BY <2>1, <2>2, <2>5 DEF CopiesInv, Room
<1> QED
  BY <1>2, <1>3, <1>4, <1>5, <1>6, <1>7 DEF Makes

\* Every step keeps the shape of the copies.
LEMMA CopiesStep ==
  ASSUME TypeOK, CopiesInv, Next
  PROVE  CopiesInv'
<1> USE DEF onDisc, onServer, onClients, history, configuration
<1>1. file' \cup read' \subseteq 1 .. born'
  <2>0. born \in Nat /\ Onward /\ file \cup read \subseteq 1 .. born
    BY OnwardStep, CopyTypes DEF CopiesInv
  <2>1. CASE SaveFile
    <3>1. \A u \in Shown(room) : u \in Unit /\ u <= born
      BY Holders, CopyTypes DEF Shown, Alive, Replica, Item, CopiesInv
    <3>2. \A u \in Shown(room) : u \in 1 .. born
      BY <2>0, <3>1 DEF Unit
    <3> QED
      BY <2>0, <2>1, <3>2 DEF SaveFile
  <2>2. CASE External
    BY <2>0, <2>2 DEF External
  <2>3. CASE Load
    BY <2>0, <2>3 DEF Load
  <2>4. CASE ~SaveFile /\ ~External /\ ~Load
    <3>1. file' = file /\ read' = read
      BY <2>4 DEF Next, Make, Initialize, Store, Reload, Notice, SaveRefused, Overwrite, Evict,
         Crash, Ends, Join, Disconnect, Close, Type, Erase, Push, Pull
    <3> QED
      BY <2>0, <3>1 DEF Onward
  <2> QED
    BY <2>1, <2>2, <2>3, <2>4
<1>2. known' # None => known' <= mtime'
  BY DEF CopiesInv, TypeOK, Next, Make, Load, Initialize, Store, Reload, Notice, SaveFile,
     SaveRefused, Overwrite, External, Evict, Crash, Ends, Join, Disconnect, Close, Type, Erase,
     Push, Pull
<1>3. unsaved' => stage' = "ready" /\ touched'
  BY DEF CopiesInv, TypeOK, Next, Make, Load, Initialize, Store, Reload, Notice, SaveFile,
     SaveRefused, Overwrite, External, Evict, Crash, Ends, Join, Disconnect, Close, Type, Erase,
     Push, Pull
<1> QED
  BY <1>1, <1>2, <1>3, CopiesBounded, NumbersStep, OwnStep DEF CopiesInv

-----------------------------------------------------------------------------
(* Agreement on ids                                                        *)

\* Copies go on to agree when the new items agree with each other and with the old ones.
LEMMA AgreeKept ==
  ASSUME AgreeInv, Onward, NEW N, \A r \in Copies' : Drawn(r, N),
         ~lost' => /\ \A i, j \in N : Id(i) = Id(j) => i = j
                   /\ \A i \in N : \A q \in Copies : \A j \in q.has : Id(i) = Id(j) => i = j
  PROVE  AgreeInv'
<1> SUFFICES ASSUME ~lost', NEW r \in Copies', NEW q \in Copies', NEW i \in r.has, NEW j \in q.has,
                    Id(i) = Id(j)
             PROVE  i = j
  BY DEF AgreeInv, Id
<1>1. ~lost
  BY DEF Onward
<1>2. i \in N \/ \E p \in Copies : i \in p.has
  BY DEF Drawn
<1>3. j \in N \/ \E p \in Copies : j \in p.has
  BY DEF Drawn
<1>4. CASE i \in N
  BY <1>3, <1>4
<1>5. CASE j \in N
  <2>1. Id(j) = Id(i)
    OBVIOUS
  <2> QED
    BY <1>2, <1>5, <2>1
<1>6. CASE i \notin N /\ j \notin N
  BY <1>1, <1>2, <1>3, <1>6 DEF AgreeInv
<1> QED
  BY <1>4, <1>5, <1>6

\* Every step keeps the agreement: a room's items are its own, and a history that is made
\* from the file again is that of the same content.
LEMMA AgreeStep ==
  ASSUME TypeOK, CopiesInv, AgreeInv, SourceInv, Next
  PROVE  AgreeInv'
<1>0. Onward
  BY OnwardStep
<1>1. CASE ~Makes
  BY <1>0, <1>1, DrawnQuiet, AgreeKept
<1>2. CASE Reload \/ SaveRefused
  <2> DEFINE N == room'.has \ room.has
  <2>1. Overwrite /\ stage # "none"
    BY <1>2 DEF Reload, SaveRefused
  <2>2. /\ Sound(room') /\ room.has \subseteq room'.has /\ \A i \in N : i.author = Room
    BY <2>1, OverwriteShape
  <2>3. \A i, j \in N : Id(i) = Id(j) => i = j
    BY <2>2 DEF Sound
  <2>4. ASSUME NEW i \in N, NEW q \in Copies, NEW j \in q.has, Id(i) = Id(j) PROVE i = j
    <3>1. j.author = Room
      BY <2>2, <2>4 DEF Id
    <3>2. j \in room.has
      BY <2>1, <3>1 DEF CopiesInv
    <3> QED
      BY <2>2, <2>4, <3>2 DEF Sound
  <2>5. \A r \in Copies' : Drawn(r, N)
    BY <2>1, DrawnOverwrite
  <2> HIDE DEF N
  <2> QED
    BY <1>0, <2>3, <2>4, <2>5, AgreeKept
<1>3. CASE Initialize
  <2>1. /\ stage = "loaded" /\ room' = Initialized /\ read \in SUBSET Unit /\ lost' = lost
    BY <1>3 DEF Initialize, TypeOK
  <2>2. \A r \in Copies' : Drawn(r, Made)
    BY <1>3, DrawnInitialize
  <2>3. \A i, j \in Made : Id(i) = Id(j) => i = j
    <3>1. Sound(SourceOf(read)) /\ Sound(Initialized)
      BY <2>1, Histories, InitializedShape
    <3> QED
      BY <2>1, <3>1 DEF Sound, Made
  <2>4. CASE store = None
    <3> SUFFICES ASSUME ~lost, NEW i \in Made, NEW q \in Copies, NEW j \in q.has, Id(i) = Id(j)
                 PROVE  i = j
      BY <1>0, <2>1, <2>2, <2>3, AgreeKept
    <3>1. i.author = Source
      BY <2>1, <2>4, Histories DEF Made
    <3>2. j.author = Source
      BY <3>1 DEF Id
    <3>3. q \in Replicas
      BY <2>4 DEF Copies
    <3>4. j \in SourceOf(read).has
      BY <2>4, <3>2, <3>3 DEF SourceInv
    <3>5. j \in Made
      BY <2>4, <3>4 DEF Made
    <3> QED
      BY <2>3, <3>5
  <2>5. CASE store # None
    <3> SUFFICES ASSUME NEW i \in Made, NEW q \in Copies, NEW j \in q.has, Id(i) = Id(j)
                 PROVE  i = j
      BY <1>0, <2>2, <2>3, AgreeKept
    <3>1. i \in room'.has /\ i.author = Room /\ room.has \subseteq room'.has /\ Sound(room')
      BY <2>1, <2>5, InitializedShape DEF Made
    <3>2. j.author = Room
      BY <3>1 DEF Id
    <3>3. j \in room.has
      BY <2>1, <3>2 DEF CopiesInv
    <3> QED
      BY <3>1, <3>3 DEF Sound
  <2> QED
    BY <2>4, <2>5
<1>4. ASSUME NEW c \in Client, Type(c) PROVE AgreeInv'
  <2>1. \A r \in Copies' : Drawn(r, {Written})
    BY <1>4, DrawnType
  <2>2. \A q \in Copies : \A j \in q.has : Id(j) # Id(Written)
    BY <1>4, DrawnType
  <2> QED
    BY <1>0, <2>1, <2>2, AgreeKept
<1> QED
  BY <1>1, <1>2, <1>3, <1>4 DEF Makes

\* While no step is lost, client and room show the same once each has what the other had.
LEMMA Agreed ==
  ASSUME TypeOK, CopiesInv, AgreeInv, ~lost, NEW a \in Copies, NEW b \in Copies
  PROVE  /\ Merge(a, b).has = a.has \cup b.has /\ Merge(a, b).dead = a.dead \cup b.dead
         /\ Merge(b, a).has = a.has \cup b.has /\ Merge(b, a).dead = a.dead \cup b.dead
<1>1. Agreeing(a, b) /\ Agreeing(b, a)
  BY DEF AgreeInv, Agreeing
<1>2. /\ Merge(a, b).has = a.has \cup b.has
      /\ Merge(b, a).has = b.has \cup a.has
  BY <1>1, CopyTypes, MergedAgreed
<1> QED
  BY <1>2, CopyTypes, Merged

\* Copies that agree converge.
LEMMA Converge ==
  ASSUME TypeOK, CopiesInv, AgreeInv
  PROVE  Converging
<1> SUFFICES ASSUME ~lost, NEW c \in online
             PROVE  Shown(Merge(replica[c], room)) = Shown(Merge(room, replica[c]))
  BY DEF Converging
<1>1. c \in Client
  BY DEF TypeOK
<1>2. /\ Merge(replica[c], room).has = Merge(room, replica[c]).has
      /\ Merge(replica[c], room).dead = Merge(room, replica[c]).dead
  <2> DEFINE q == replica[c]
  <2>1. q \in Copies /\ room \in Copies
    BY <1>1, Holders
  <2> HIDE DEF q
  <2>2. /\ Merge(q, room).has = q.has \cup room.has /\ Merge(q, room).dead = q.dead \cup room.dead
        /\ Merge(room, q).has = q.has \cup room.has /\ Merge(room, q).dead = q.dead \cup room.dead
    BY <2>1, Agreed
  <2> QED
    BY <2>2 DEF q
<1> QED
  BY <1>2 DEF Shown, Alive

-----------------------------------------------------------------------------
(* The history made from the file                                          *)

\* Once there is a store, there is one.
LEMMA StoreStays ==
  ASSUME TypeOK, CopiesInv, Next, store # None
  PROVE  store' # None
<1> USE DEF onDisc, onServer, onClients, history, configuration
<1>1. CASE Initialize
  <2>1. Initialized \in Replica
    BY <1>1, InitializedShape DEF Initialize
  <2> QED
    BY <1>1, <2>1, NoneAssumption DEF Initialize
<1>2. CASE Store
  BY <1>2, NoneAssumption DEF Store, TypeOK
<1>3. CASE ~Initialize /\ ~Store
  BY <1>3 DEF Next, Make, Load, Reload, Notice, SaveFile, SaveRefused, Overwrite, External,
     Evict, Crash, Ends, Join, Disconnect, Close, Type, Erase, Push, Pull
<1> QED
  BY <1>1, <1>2, <1>3

\* A room that was just made from the file shows what was read, beside what it had.
LEMMA MadeFrom ==
  ASSUME TypeOK, CopiesInv, Initialize, store = None
  PROVE  /\ room'.has = room.has \cup SourceOf(read).has /\ room'.dead = room.dead
         /\ \A i \in SourceOf(read).has : i \in Alive(room')
         /\ Shown(room') = Shown(room) \cup read
<1>1. /\ stage = "loaded" /\ room' = Initialized /\ read \in SUBSET Unit /\ rooms \in Nat
  BY DEF Initialize, TypeOK
<1>2. room'.has = room.has \cup SourceOf(read).has /\ room'.dead = room.dead
  BY <1>1, InitializedShape
<1>3. \A d \in room.dead : d[1] = Room
  BY <1>1, Holders DEF CopiesInv, Sound, Ids, Id
<1>4. \A i \in SourceOf(read).has : i.author = Source /\ i.unit \in read
  BY <1>1, Histories
<1>5. \A u \in read : \E i \in SourceOf(read).has : i.unit = u
  BY <1>1, Histories
<1>6. Source # Room
  BY <1>1 DEF Source, Room
<1>7. \A i \in SourceOf(read).has : Id(i) \notin room'.dead
  BY <1>2, <1>3, <1>4, <1>6 DEF Id
<1>8. \A i \in SourceOf(read).has : i \in Alive(room')
  BY <1>2, <1>7 DEF Alive
<1>9. \A i : i \in Alive(room') <=> i \in Alive(room) \/ i \in SourceOf(read).has
  BY <1>2, <1>8 DEF Alive
<1>10. Shown(room') = Shown(room) \cup read
  BY <1>4, <1>5, <1>9 DEF Shown
<1> QED
  BY <1>2, <1>8, <1>10

\* Without a store, the file is read again as it was, or else what clients have is lost.
LEMMA SourceStep ==
  ASSUME TypeOK, CopiesInv, SourceInv, Next
  PROVE  SourceInv'
<1> USE DEF onDisc, onServer, onClients, history, configuration
<1> SUFFICES ASSUME ~lost', store' = None PROVE SourceInv'
  BY DEF SourceInv
<1> DEFINE Held(q) == \A i \in q.has : i.author = Source => i \in SourceOf(read).has
           Nonempty == \E c \in Client : replica[c] # Empty
<1>0. ~lost /\ store = None /\ Onward
  BY OnwardStep, StoreStays DEF Onward
<1>1. /\ Held(room) /\ \A c \in Client : Held(replica[c])
      /\ stage \in {"none", "made"} /\ Nonempty => read = file
      /\ stage = "loaded" \/ (stage = "ready" /\ ~touched) => file \cap Shown(room) \subseteq read
      /\ stage = "ready" /\ ~touched => read \subseteq Shown(room)
  BY <1>0 DEF SourceInv, Replicas
<1>2. ASSUME read' = read, Held(room'), \A c \in Client : Held(replica'[c]),
             stage' \in {"none", "made"} /\ Nonempty' => read' = file',
             stage' = "loaded" \/ (stage' = "ready" /\ ~touched') =>
               file' \cap Shown(room') \subseteq read',
             stage' = "ready" /\ ~touched' => read' \subseteq Shown(room')
      PROVE  SourceInv'
  BY <1>2 DEF SourceInv, Replicas, SourceOf
<1>3. rooms \in Nat /\ Source # Room /\ Source # User /\ Held(Empty)
  BY CopyTypes, Empties DEF Source, User, Room
<1>4. CASE Make
  BY <1>1, <1>2, <1>3, <1>4 DEF Make
<1>5. CASE Load
  <2>1. /\ stage = "made" /\ stage' = "loaded" /\ read' = file
        /\ room' = room /\ replica' = replica /\ file' = file
    BY <1>5 DEF Load
  <2>2. CASE Nonempty
    BY <1>1, <1>2, <2>1, <2>2
  <2>3. CASE ~Nonempty
    <3>1. \A i \in room.has : i.author # Source
      BY <1>3, <2>1 DEF CopiesInv
    <3>2. \A c \in Client : replica'[c].has = {}
      BY <2>1, <2>3, Empties
    <3> QED
      BY <2>1, <3>1, <3>2 DEF SourceInv, Replicas
  <2> QED
    BY <2>2, <2>3
<1>6. CASE Initialize
  <2>1. /\ stage = "loaded" /\ stage' = "ready" /\ replica' = replica /\ read' = read /\ file' = file
    BY <1>6 DEF Initialize
  <2>2. /\ room'.has = room.has \cup SourceOf(read).has
        /\ Shown(room') = Shown(room) \cup read
    BY <1>0, <1>6, MadeFrom
  <2>3. Held(room')
    BY <1>1, <2>2
  <2> QED
    BY <1>1, <1>2, <2>1, <2>2, <2>3
<1>7. CASE Store
  BY <1>7, NoneAssumption DEF Store, TypeOK
<1>8. CASE Reload \/ SaveRefused
  <2>1. /\ Overwrite /\ stage \in {"made", "ready"} /\ stage' = stage /\ replica' = replica
        /\ read' = read /\ file' = file /\ touched' = (touched \/ room' # room)
    BY <1>8 DEF Reload, SaveRefused, Overwrite
  <2>2. \A i \in room'.has \ room.has : i.author = Room
    BY <2>1, OverwriteShape
  <2>3. Held(room')
    BY <1>1, <1>3, <2>2
  <2>4. stage' = "ready" /\ ~touched' => room' = room /\ ~touched
    BY <2>1
  <2> QED
    BY <1>1, <1>2, <2>1, <2>3, <2>4
<1>9. CASE Notice
  BY <1>1, <1>2, <1>9 DEF Notice
<1>10. CASE SaveFile
  <2>1. stage = "ready" /\ stage' = "ready" /\ touched' /\ UNCHANGED <<room, replica, read>>
    BY <1>10 DEF SaveFile, CopiesInv
  <2> QED
    BY <1>1, <1>2, <2>1
<1>11. CASE Evict \/ Crash
  <2>1. /\ room' = Empty /\ stage' = "none" /\ stage # "none" /\ UNCHANGED <<replica, read, file>>
        /\ Nonempty => Remakable
    <3>1. lost' = (lost \/ (~Remakable /\ Nonempty))
      BY <1>11 DEF Evict, Crash, Ends
    <3> QED
      BY <1>11, <3>1 DEF Evict, Crash, Ends
  <2>2. Nonempty => read = file
    <3> SUFFICES ASSUME Nonempty PROVE read = file
      OBVIOUS
    <3>1. /\ stage = "ready" => ~touched /\ Shown(room) = file
          /\ stage = "loaded" => read = file
      BY <1>0, <2>1 DEF Remakable
    <3>2. stage \in {"made", "loaded", "ready"}
      BY <2>1 DEF TypeOK
    <3> QED
      BY <1>1, <3>1, <3>2
  <2> QED
    BY <1>1, <1>2, <1>3, <2>1, <2>2
<1>12. CASE External
  <2>1. /\ UNCHANGED <<room, replica, read, stage, touched>>
        /\ file' \subseteq file \cup {born + 1}
        /\ stage \in {"none", "made"} => ~Nonempty
    <3>1. lost' = (lost \/ (stage \in {"none", "made"} /\ store = None /\ Nonempty))
      BY <1>12 DEF External
    <3>2. file' \subseteq file \cup {born + 1}
      BY <1>12 DEF External
    <3> QED
      BY <1>0, <1>12, <3>1, <3>2 DEF External
  <2>2. born + 1 \notin Shown(room)
    BY Holders, CopyTypes DEF CopiesInv, Shown, Alive, Replica, Item, Unit
  <2> QED
    BY <1>1, <1>2, <2>1, <2>2
<1>13. ASSUME NEW c \in Client, Join(c) \/ Disconnect(c) PROVE SourceInv'
  BY <1>1, <1>2, <1>13 DEF Join, Disconnect
<1>14. ASSUME NEW c \in Client, Close(c) PROVE SourceInv'
  <2>1. /\ UNCHANGED <<room, read, stage, touched, file>>
        /\ replica'[c] = Empty /\ \A b \in Client : b # c => replica'[b] = replica[b]
    BY <1>14 DEF Close, TypeOK
  <2> QED
    BY <1>1, <1>2, <1>3, <2>1
<1>15. ASSUME NEW c \in Client, Type(c) PROVE SourceInv'
  <2>1. UNCHANGED <<room, read, stage, touched, file>> /\ Nonempty
    BY <1>15 DEF Type
  <2>2. /\ replica'[c].has = replica[c].has \cup {Written} /\ Written.author = User
        /\ \A b \in Client : b # c => replica'[b] = replica[b]
    BY <1>15, DrawnType DEF Written
  <2> QED
    BY <1>1, <1>2, <1>3, <2>1, <2>2
<1>16. ASSUME NEW c \in Client, Erase(c) PROVE SourceInv'
  <2>1. /\ UNCHANGED <<room, read, stage, touched, file>>
        /\ \A b \in Client : replica'[b].has = replica[b].has
    BY <1>16 DEF Erase, TypeOK, Replica
  <2>2. Nonempty
    BY <1>16, Empties DEF Erase
  <2> QED
    BY <1>1, <1>2, <2>1, <2>2
<1>17. ASSUME NEW c \in Client, Push(c) PROVE SourceInv'
  <2>1. /\ UNCHANGED <<replica, read, stage, file>> /\ touched' /\ stage = "ready"
        /\ room' = Merge(room, replica[c])
    BY <1>17 DEF Push, TypeOK
  <2>2. Held(room')
    <3>1. room'.has \subseteq room.has \cup replica[c].has
      BY <2>1, Holders, CopyTypes, Merged
    <3> QED
      BY <1>1, <3>1
  <2> QED
    BY <1>1, <1>2, <2>1, <2>2
<1>18. ASSUME NEW c \in Client, Pull(c) PROVE SourceInv'
  <2>1. /\ UNCHANGED <<room, read, stage, touched, file>> /\ stage = "ready"
        /\ replica'[c] = Merge(replica[c], room)
        /\ \A b \in Client : b # c => replica'[b] = replica[b]
    BY <1>18 DEF Pull, TypeOK
  <2>2. Held(replica'[c])
    <3>1. replica'[c].has \subseteq room.has \cup replica[c].has
      BY <2>1, Holders, CopyTypes, Merged
    <3> QED
      BY <1>1, <3>1
  <2> QED
    BY <1>1, <1>2, <2>1, <2>2
<1> QED
  BY <1>4, <1>5, <1>6, <1>7, <1>8, <1>9, <1>10, <1>11, <1>12, <1>13, <1>14, <1>15, <1>16,
     <1>17, <1>18 DEF Next

-----------------------------------------------------------------------------
(* What is kept                                                            *)

\* Of client and room, what either has is shown by what they have together.
LEMMA MergedShown ==
  ASSUME TypeOK, CopiesInv, AgreeInv, ~lost, Forfeited, Deletions, stage = "ready",
         NEW c \in Client, NEW n, n.has = room.has \cup replica[c].has,
         n.dead = room.dead \cup replica[c].dead
  PROVE  Units(n) \subseteq Shown(n) \cup forfeit
<1> DEFINE q == replica[c]
<1>1. /\ room \in Copies /\ q \in Copies
      /\ Units(room) \subseteq Shown(room) \cup forfeit /\ Units(q) \subseteq Shown(q) \cup forfeit
  BY Holders DEF Forfeited
<1>2. /\ room.dead \subseteq Ids(room) /\ q.dead \subseteq Ids(q)
      /\ \A i \in room.has, j \in q.has : Id(i) = Id(j) => i = j
      /\ \A i \in q.has, j \in room.has : Id(i) = Id(j) => i = j
  BY <1>1 DEF CopiesInv, Sound, AgreeInv
<1>3. \A i \in q.has : Id(i) \in q.dead => i.unit \in forfeit \/ Id(i) \in room.dead
  BY DEF Deletions, Base
<1> SUFFICES ASSUME NEW u \in Units(n), u \notin forfeit PROVE u \in Shown(n)
  OBVIOUS
<1> HIDE DEF q
<1>4. CASE u \in Units(room)
  <2>1. PICK k \in room.has : Id(k) \notin room.dead /\ k.unit = u
    BY <1>1, <1>4 DEF Shown, Alive
  <2>2. Id(k) \notin q.dead
    <3> SUFFICES ASSUME Id(k) \in q.dead PROVE FALSE
      OBVIOUS
    <3>1. k \in q.has
      BY <1>2 DEF Ids
    <3> QED
      BY <1>3, <2>1, <3>1
  <2> QED
    BY <2>1, <2>2 DEF Shown, Alive, q
<1>5. CASE u \notin Units(room)
  <2>1. u \in Units(q)
    BY <1>5 DEF Units, q
  <2>2. PICK k \in q.has : Id(k) \notin q.dead /\ k.unit = u
    BY <1>1, <2>1 DEF Shown, Alive
  <2>3. Id(k) \notin room.dead
    <3> SUFFICES ASSUME Id(k) \in room.dead PROVE FALSE
      OBVIOUS
    <3>1. k \in room.has
      BY <1>2 DEF Ids
    <3> QED
      BY <1>5, <2>2, <3>1 DEF Units
  <2> QED
    BY <2>2, <2>3 DEF Shown, Alive, q
<1> QED
  BY <1>4, <1>5

\* What a copy shows is what it has and did not forfeit, in each step.
LEMMA ForfeitedStep ==
  ASSUME TypeOK, CopiesInv, AgreeInv, KeptInv, Next, ~lost'
  PROVE  Forfeited'
<1> USE DEF onDisc, onServer, onClients, history, configuration
<1> DEFINE Fine(r) == Units(r) \subseteq Shown(r) \cup forfeit'
<1>0. /\ ~lost /\ Forfeited /\ Deletions /\ Current /\ forfeit \subseteq forfeit'
      /\ \A r \in Copies : Fine(r)
      /\ Fine(Empty)
  <2>1. ~lost /\ forfeit \subseteq forfeit'
    BY OnwardStep DEF Onward
  <2>2. Fine(Empty)
    BY Empties DEF Units
  <2> QED
    BY <2>1, <2>2 DEF KeptInv, Forfeited
<1>1. ASSUME Fine(room'), \A c \in Client : Fine(replica'[c]), store' # None => Fine(store')
      PROVE  Forfeited'
  <2>1. \A r \in Copies' : Fine(r)
    BY <1>1, HoldersNext
  <2> QED
    BY <2>1 DEF Forfeited, Units, Shown, Alive, Id
<1>2. Fine(room) /\ (\A c \in Client : Fine(replica[c])) /\ (store # None => Fine(store))
  BY <1>0, Holders
<1> HIDE DEF Fine
<1>3. CASE Make \/ Load \/ Store \/ Notice \/ SaveFile \/ Evict \/ Crash \/ External
  <2>1. room' \in {room, Empty} /\ replica' = replica /\ store' \in {store, room}
    BY <1>3 DEF Make, Load, Store, Notice, SaveFile, Evict, Crash, Ends, External
  <2> QED
    BY <1>0, <1>1, <1>2, <2>1
<1>4. CASE Initialize
  <2>1. /\ stage = "loaded" /\ room' = Initialized /\ replica' = replica
        /\ store' \in {store, room'}
    BY <1>4 DEF Initialize
  <2>2. Fine(room')
    <3>1. CASE store = None
      <4>1. /\ room'.has = room.has \cup SourceOf(read).has /\ Shown(room') = Shown(room) \cup read
            /\ \A i \in SourceOf(read).has : i.unit \in read
        BY <1>4, <3>1, MadeFrom, Histories DEF TypeOK
      <4> QED
        BY <1>2, <4>1 DEF Fine, Units
    <3>2. CASE store # None
      <4>1. Shown(room') = read
        BY <2>1, <3>2, InitializedShape
      <4>2. \A i \in room'.has : i \in room.has \/ i \in store.has \/ i.unit \in read
        BY <2>1, <3>2, InitializedShape, Stored
      <4>3. Shown(room) \subseteq read \cup forfeit /\ Shown(store) \subseteq read \cup forfeit
        BY <1>0, <2>1, <3>2 DEF Current, Loaded, CopiesInv
      <4> QED
        BY <1>0, <1>2, <3>2, <4>1, <4>2, <4>3 DEF Fine, Units
    <3> QED
      BY <3>1, <3>2
  <2> QED
    BY <1>1, <1>2, <2>1, <2>2
<1>5. CASE Reload \/ SaveRefused
  <2>1. /\ Overwrite /\ stage \in {"made", "ready"} /\ replica' = replica /\ store' = store
        /\ forfeit' = forfeit \cup Unsaved
    BY <1>5 DEF Reload, SaveRefused, Overwrite
  <2>2. Shown(room') = file /\ \A i \in room'.has \ room.has : i.unit \in file
    BY <2>1, OverwriteShape
  <2>3. Shown(room) \subseteq file \cup forfeit'
    BY <1>0, <2>1 DEF Unsaved, Current, Loaded
  <2>4. Fine(room')
    BY <1>2, <2>2, <2>3 DEF Fine, Units
  <2> QED
    BY <1>1, <1>2, <2>1, <2>4
<1>6. ASSUME NEW c \in Client, Join(c) \/ Disconnect(c) \/ Close(c) PROVE Forfeited'
  <2>1. /\ room' = room /\ store' = store
        /\ \A b \in Client : replica'[b] \in {replica[b], Empty}
    BY <1>6 DEF Join, Disconnect, Close, TypeOK
  <2> QED
    BY <1>0, <1>1, <1>2, <2>1
<1>7. ASSUME NEW c \in Client, Type(c) PROVE Forfeited'
  <2>1. room' = room /\ store' = store
    BY <1>7 DEF Type
  <2>2. /\ replica'[c].has = replica[c].has \cup {Written} /\ replica'[c].dead = replica[c].dead
        /\ \A b \in Client : b # c => replica'[b] = replica[b]
        /\ \A i \in replica[c].has : Id(i) # Id(Written)
    BY <1>7, DrawnType, Holders
  <2>3. Id(Written) \notin replica[c].dead
    BY <2>2, Holders, CopyTypes DEF Sound, Ids
  <2>4. Fine(replica'[c])
    BY <1>2, <2>2, <2>3 DEF Fine, Units, Shown, Alive
  <2> QED
    BY <1>1, <1>2, <2>1, <2>2, <2>4
<1>8. ASSUME NEW c \in Client, Erase(c) PROVE Forfeited'
  <2>1. PICK i \in Alive(replica[c]) :
          /\ replica' = [replica EXCEPT ![c].dead = @ \cup {Id(i)}]
          /\ forfeit' = forfeit \cup {i.unit}
    BY <1>8 DEF Erase
  <2>2. /\ replica'[c].has = replica[c].has /\ replica'[c].dead = replica[c].dead \cup {Id(i)}
        /\ \A b \in Client : b # c => replica'[b] = replica[b]
        /\ room' = room /\ store' = store
    BY <1>8, <2>1 DEF TypeOK, Replica, Erase
  <2>3. ASSUME NEW k \in Alive(replica[c]), k.unit \notin forfeit' PROVE k \in Alive(replica'[c])
    <3>1. Id(k) # Id(i)
      BY <2>1, <2>3, Holders, CopyTypes DEF Sound, Alive
    <3> QED
      BY <2>2, <3>1 DEF Alive
  <2>4. Fine(replica'[c])
    BY <1>2, <2>2, <2>3 DEF Fine, Units, Shown
  <2> QED
    BY <1>1, <1>2, <2>2, <2>4
<1>9. ASSUME NEW c \in Client, Push(c) PROVE Forfeited'
  <2>1. /\ room' = Merge(room, replica[c]) /\ replica' = replica /\ store' = store
        /\ stage = "ready" /\ forfeit' = forfeit
    BY <1>9 DEF Push, TypeOK
  <2>2. room'.has = room.has \cup replica[c].has /\ room'.dead = room.dead \cup replica[c].dead
    BY <1>0, <2>1, Holders, Agreed
  <2>3. Fine(room')
    BY <1>0, <2>1, <2>2, MergedShown DEF Fine
  <2> QED
    BY <1>1, <1>2, <2>1, <2>3
<1>10. ASSUME NEW c \in Client, Pull(c) PROVE Forfeited'
  <2>1. /\ replica'[c] = Merge(replica[c], room) /\ room' = room /\ store' = store
        /\ stage = "ready" /\ forfeit' = forfeit
        /\ \A b \in Client : b # c => replica'[b] = replica[b]
    BY <1>10 DEF Pull, TypeOK
  <2>2. /\ replica'[c].has = room.has \cup replica[c].has
        /\ replica'[c].dead = room.dead \cup replica[c].dead
    BY <1>0, <2>1, Holders, Agreed
  <2>3. Fine(replica'[c])
    BY <1>0, <2>1, <2>2, MergedShown DEF Fine
  <2> QED
    BY <1>1, <1>2, <2>1, <2>3
<1> QED
  BY <1>3, <1>4, <1>5, <1>6, <1>7, <1>8, <1>9, <1>10 DEF Next

\* A ready room has what the store has.
LEMMA StoreBehindStep ==
  ASSUME TypeOK, CopiesInv, AgreeInv, KeptInv, Next, ~lost'
  PROVE  StoreBehind'
<1> USE DEF onDisc, onServer, onClients, history, configuration
<1>0. ~lost /\ StoreBehind
  BY OnwardStep DEF Onward, KeptInv
<1>1. CASE Initialize
  <2>1. stage = "loaded" /\ room' = Initialized /\ store' \in {store, room'}
    BY <1>1 DEF Initialize
  <2>2. CASE store' = room'
    BY <2>2 DEF StoreBehind
  <2>3. CASE store' = store /\ store # None
    <3>1. FromStore.has = room.has \cup store.has /\ FromStore.dead = room.dead \cup store.dead
      BY <1>0, <2>3, Holders, Agreed DEF FromStore
    <3>2. FromStore.has \subseteq room'.has /\ FromStore.dead \subseteq room'.dead
      BY <2>1, <2>3, InitializedShape
    <3> QED
      BY <2>3, <3>1, <3>2 DEF StoreBehind
  <2> QED
    BY <2>1, <2>2, <2>3 DEF StoreBehind
<1>2. CASE Store
  BY <1>2 DEF Store, StoreBehind
<1>3. CASE Reload \/ SaveRefused
  <2>1. Overwrite /\ stage' = stage /\ store' = store
    BY <1>3 DEF Reload, SaveRefused, Overwrite
  <2>2. room.has \subseteq room'.has /\ room.dead \subseteq room'.dead
    BY <2>1, OverwriteShape
  <2> QED
    BY <1>0, <2>1, <2>2 DEF StoreBehind
<1>4. ASSUME NEW c \in Client, Push(c) PROVE StoreBehind'
  <2>1. room' = Merge(room, replica[c]) /\ stage' = stage /\ store' = store
    BY <1>4 DEF Push
  <2>2. room.has \subseteq room'.has /\ room.dead \subseteq room'.dead
    BY <2>1, Holders, CopyTypes, Merged
  <2> QED
    BY <1>0, <2>1, <2>2 DEF StoreBehind
<1>5. CASE Make \/ Load \/ Evict \/ Crash
  <2>1. stage' # "ready"
    BY <1>5 DEF Make, Load, Evict, Crash, Ends
  <2> QED
    BY <2>1 DEF StoreBehind
<1>6. CASE Notice \/ SaveFile \/ External
  BY <1>0, <1>6 DEF StoreBehind, Notice, SaveFile, External
<1>7. ASSUME NEW c \in Client,
             Join(c) \/ Disconnect(c) \/ Close(c) \/ Type(c) \/ Erase(c) \/ Pull(c)
      PROVE  StoreBehind'
  BY <1>0, <1>7 DEF StoreBehind, Join, Disconnect, Close, Type, Erase, Pull
<1> QED
  BY <1>1, <1>2, <1>3, <1>4, <1>5, <1>6, <1>7 DEF Next

\* A room begins with no deletion that was not forfeited, and shows no unit twice.
LEMMA BegunStep ==
  ASSUME TypeOK, CopiesInv, KeptInv, Next, ~lost'
  PROVE  Begun'
<1> USE DEF onDisc, onServer, onClients, history, configuration
<1> DEFINE Whole(r) == \A i \in r.has : Id(i) \in r.dead => i.unit \in forfeit'
           Once(r) == \A i, j \in Alive(r) : i.unit = j.unit => i = j
<1>0. ~lost /\ Begun /\ Current /\ forfeit \subseteq forfeit'
  BY OnwardStep DEF Onward, KeptInv
<1>1. /\ stage \in {"made", "loaded"} \/ (stage = "ready" /\ store = None /\ ~touched) => Whole(room)
      /\ stage \in {"made", "loaded"} => Once(room)
  BY <1>0 DEF Begun
<1>2. ASSUME stage' \in {"made", "loaded"} \/ (stage' = "ready" /\ store' = None /\ ~touched') =>
               Whole(room'),
             stage' \in {"made", "loaded"} => Once(room')
      PROVE  Begun'
  BY <1>2 DEF Begun, Id, Alive
<1>3. CASE Make
  BY <1>2, <1>3, Empties DEF Make
<1>4. CASE Initialize
  <2>1. stage = "loaded" /\ stage' = "ready" /\ room' = Initialized
    BY <1>4 DEF Initialize
  <2>2. CASE store = None
    <3>1. /\ room'.has = room.has \cup SourceOf(read).has /\ room'.dead = room.dead
          /\ \A i \in SourceOf(read).has : i \in Alive(room')
      BY <1>4, <2>2, MadeFrom
    <3>2. \A i \in SourceOf(read).has : Id(i) \notin room'.dead
      BY <3>1 DEF Alive
    <3>3. Whole(room')
      BY <1>1, <2>1, <3>1, <3>2
    <3> QED
      BY <1>2, <2>1, <3>3
  <2>3. CASE store # None
    BY <1>2, <2>1, <2>3, StoreStays
  <2> QED
    BY <2>2, <2>3
<1>5. CASE Reload \/ SaveRefused
  <2>1. /\ Overwrite /\ stage' = stage /\ store' = store /\ stage \in {"made", "ready"}
        /\ touched' = (touched \/ room' # room)
    BY <1>5 DEF Reload, SaveRefused, Overwrite
  <2>2. CASE stage = "made"
    <3>1. Shown(room) \subseteq file \cup forfeit
      BY <1>0, <2>2 DEF Current, Loaded, CopiesInv
    <3>2. /\ \A i \in room'.has \ room.has : Id(i) \notin room'.dead
          /\ room' = room \/ Once(room')
          /\ \A i \in Alive(room) : Id(i) \in room'.dead =>
               i.unit \notin file \/ \E k \in Alive(room) : k # i /\ k.unit = i.unit
      BY <2>1, OverwriteShape
    <3>3. ASSUME NEW i \in room'.has, Id(i) \in room'.dead PROVE i.unit \in forfeit'
      <4>1. i \in room.has
        BY <3>2, <3>3
      <4>2. CASE Id(i) \in room.dead
        BY <1>1, <2>2, <4>1, <4>2
      <4>3. CASE Id(i) \notin room.dead
        <5>1. i \in Alive(room)
          BY <4>1, <4>3 DEF Alive
        <5>2. i.unit \notin file /\ i.unit \in Shown(room)
          BY <1>1, <2>2, <3>2, <3>3, <5>1 DEF Shown
        <5> QED
          BY <1>0, <3>1, <5>2
      <4> QED
        BY <4>2, <4>3
    <3> QED
      BY <1>1, <1>2, <2>1, <2>2, <3>2, <3>3
  <2>3. CASE stage = "ready"
    BY <1>0, <1>1, <1>2, <2>1, <2>3
  <2> QED
    BY <2>1, <2>2, <2>3
<1>6. CASE Store
  BY <1>2, <1>6, NoneAssumption DEF Store, TypeOK
<1>7. CASE SaveFile
  BY <1>0, <1>1, <1>2, <1>7 DEF SaveFile, CopiesInv
<1>8. CASE Evict \/ Crash
  BY <1>2, <1>8 DEF Evict, Crash, Ends
<1>9. CASE Load \/ Notice \/ External
  BY <1>0, <1>1, <1>2, <1>9 DEF Load, Notice, External
<1>10. ASSUME NEW c \in Client, Push(c) PROVE Begun'
  BY <1>2, <1>10 DEF Push, TypeOK
<1>11. ASSUME NEW c \in Client,
              Join(c) \/ Disconnect(c) \/ Close(c) \/ Type(c) \/ Erase(c) \/ Pull(c)
       PROVE  Begun'
  <2>1. UNCHANGED <<room, stage, store, touched>>
    BY <1>11 DEF Join, Disconnect, Close, Type, Erase, Pull
  <2> QED
    BY <1>0, <1>1, <1>2, <2>1
<1> QED
  BY <1>3, <1>4, <1>5, <1>6, <1>7, <1>8, <1>9, <1>10, <1>11 DEF Next

\* What the room shows, or the store, is in the file, or will be, or was forfeited.
LEMMA CurrentStep ==
  ASSUME TypeOK, CopiesInv, KeptInv, Next, ~lost'
  PROVE  Current'
<1> USE DEF onDisc, onServer, onClients, history, configuration
<1>0. ~lost /\ Current /\ Forfeited /\ StoreBehind /\ forfeit \subseteq forfeit'
  BY OnwardStep DEF Onward, KeptInv
<1>1. CASE Make
  BY <1>0, <1>1, Empties DEF Make, Current, Loaded
<1>2. CASE Load
  BY <1>0, <1>2 DEF Load, Current, Loaded
<1>3. CASE Initialize
  <2>1. /\ stage = "loaded" /\ stage' = "ready" /\ room' = Initialized /\ file' = file
        /\ ~unsaved
    BY <1>3 DEF Initialize, CopiesInv
  <2>2. Shown(room') \subseteq Shown(room) \cup read
    BY <1>3, <2>1, MadeFrom, InitializedShape
  <2>3. Shown(room) \subseteq read \cup forfeit /\ read \subseteq file \cup forfeit
    BY <1>0, <2>1 DEF Current, Loaded
  <2> QED
    BY <1>0, <2>1, <2>2, <2>3 DEF Current, Loaded
<1>4. CASE Store
  <2>1. UNCHANGED <<room, stage, unsaved, file, read>> /\ stage = "ready"
    BY <1>4 DEF Store
  <2> QED
    BY <1>0, <2>1 DEF Current, Loaded
<1>5. CASE Reload \/ SaveRefused
  <2>1. Overwrite /\ stage \in {"made", "ready"} /\ UNCHANGED <<stage, store, file, read>>
    BY <1>5 DEF Reload, SaveRefused, Overwrite
  <2>2. Shown(room') = file
    BY <2>1, OverwriteShape
  <2> QED
    BY <1>0, <2>1, <2>2 DEF Current, Loaded
<1>6. CASE SaveFile
  BY <1>0, <1>6 DEF SaveFile, Current, Loaded
<1>7. CASE Evict \/ Crash
  <2>1. /\ room' = Empty /\ stage' = "none" /\ UNCHANGED <<file, store, read>>
        /\ forfeit' = forfeit \cup Unsaved
    BY <1>7 DEF Evict, Crash, Ends
  <2>2. CASE stage # "ready"
    BY <1>0, <2>1, <2>2, Empties DEF Current, Loaded
  <2>3. CASE stage = "ready" /\ store # None
    <3>1. Shown(room) \subseteq file \cup forfeit'
      BY <1>0, <2>1, <2>3 DEF Current, Loaded, Unsaved
    <3>2. Shown(store) \subseteq Units(room)
      BY <1>0, <2>3 DEF StoreBehind, Shown, Alive, Units
    <3>3. Units(room) \subseteq Shown(room) \cup forfeit
      BY <1>0, Holders DEF Forfeited
    <3> QED
      BY <1>0, <2>1, <3>1, <3>2, <3>3, Empties DEF Current, Loaded
  <2>4. CASE stage = "ready" /\ store = None
    BY <2>1, <2>4, Empties DEF Current, Loaded
  <2> QED
    BY <2>2, <2>3, <2>4
<1>8. CASE External
  <2>1. /\ file \subseteq file' \cup forfeit' /\ UNCHANGED <<room, stage, store, read, unsaved>>
    BY <1>8 DEF External
  <2>2. Loaded \subseteq Loaded' \cup forfeit'
    BY <2>1 DEF Loaded
  <2>3. Loaded' \subseteq file' \cup forfeit'
    BY <1>0, <2>1 DEF Loaded, Current
  <2> QED
    BY <1>0, <2>1, <2>2, <2>3 DEF Current
<1>9. CASE Notice
  BY <1>0, <1>9 DEF Notice, Current, Loaded
<1>10. ASSUME NEW c \in Client, Push(c) PROVE Current'
  BY <1>0, <1>10 DEF Push, Current, Loaded, TypeOK
<1>11. ASSUME NEW c \in Client,
              Join(c) \/ Disconnect(c) \/ Close(c) \/ Type(c) \/ Erase(c) \/ Pull(c)
       PROVE  Current'
  <2>1. UNCHANGED <<room, stage, store, unsaved, file, read>>
    BY <1>11 DEF Join, Disconnect, Close, Type, Erase, Pull
  <2> QED
    BY <1>0, <2>1 DEF Current, Loaded
<1> QED
  BY <1>1, <1>2, <1>3, <1>4, <1>5, <1>6, <1>7, <1>8, <1>9, <1>10, <1>11 DEF Next

\* What a client has deleted was forfeited, or is deleted in the room, or in the next one.
LEMMA DeletionsStep ==
  ASSUME TypeOK, CopiesInv, AgreeInv, KeptInv, Next, ~lost'
  PROVE  Deletions'
<1> USE DEF onDisc, onServer, onClients, history, configuration
<1> DEFINE Held(q) == \A i \in q.has : Id(i) \in q.dead => i.unit \in forfeit' \/ Id(i) \in Base'.dead
<1>0. ~lost /\ Deletions /\ Begun /\ forfeit \subseteq forfeit'
  BY OnwardStep DEF Onward, KeptInv
<1>1. ASSUME \A c \in Client : Held(replica'[c]) PROVE Deletions'
  BY <1>1 DEF Deletions, Id
<1>2. ASSUME Base.dead \subseteq Base'.dead, NEW c \in Client PROVE Held(replica[c])
  BY <1>0, <1>2 DEF Deletions
<1>3. Held(Empty)
  BY Empties
<1> HIDE DEF Held
<1>4. ASSUME UNCHANGED replica, Base.dead \subseteq Base'.dead PROVE Deletions'
  BY <1>1, <1>2, <1>4
<1>5. SourceOf(read).dead = {} /\ SourceOf(read').dead = {}
  BY DEF SourceOf
<1>6. CASE Make \/ Load
  <2>1. stage # "ready" /\ stage' # "ready" /\ UNCHANGED <<store, replica>>
    BY <1>6 DEF Make, Load
  <2>2. Base.dead \subseteq Base'.dead
    BY <1>5, <2>1 DEF Base
  <2> QED
    BY <1>4, <2>1, <2>2
<1>7. CASE Initialize
  <2>1. stage = "loaded" /\ stage' = "ready" /\ room' = Initialized /\ UNCHANGED replica
    BY <1>7 DEF Initialize
  <2>2. store # None => store.dead \subseteq room'.dead
    <3> SUFFICES ASSUME store # None PROVE store.dead \subseteq room'.dead
      OBVIOUS
    <3>1. FromStore.dead \subseteq room'.dead
      BY <2>1, InitializedShape
    <3>2. FromStore.dead = room.dead \cup store.dead
      BY <2>1, Stored
    <3> QED
      BY <3>1, <3>2
  <2>3. Base'.dead = room'.dead /\ Base.dead = IF store # None THEN store.dead ELSE {}
    BY <1>5, <2>1 DEF Base
  <2> QED
    BY <1>4, <2>1, <2>2, <2>3
<1>8. CASE Store \/ Notice \/ SaveFile \/ External \/ \E c \in Client : Join(c) \/ Disconnect(c)
  <2>1. UNCHANGED <<stage, room, read, replica>> /\ (store' = store \/ stage = "ready")
    BY <1>8 DEF Store, Notice, SaveFile, External, Join, Disconnect
  <2>2. Base' = Base
    BY <2>1 DEF Base, SourceOf
  <2> QED
    BY <1>4, <2>1, <2>2
<1>9. CASE Reload \/ SaveRefused
  <2>1. Overwrite /\ UNCHANGED <<stage, store, read, replica>>
    BY <1>9 DEF Reload, SaveRefused, Overwrite
  <2>2. room.dead \subseteq room'.dead
    BY <2>1, OverwriteShape
  <2>3. Base.dead \subseteq Base'.dead
    BY <2>1, <2>2 DEF Base, SourceOf
  <2> QED
    BY <1>4, <2>1, <2>3
<1>10. CASE Evict \/ Crash
  <2>1. /\ stage' = "none" /\ UNCHANGED <<store, read, replica>>
        /\ (\E c \in Client : replica[c] # Empty) => Remakable
    <3>1. lost' = (lost \/ (~Remakable /\ \E c \in Client : replica[c] # Empty))
      BY <1>10 DEF Evict, Crash, Ends
    <3> QED
      BY <1>10, <3>1 DEF Evict, Crash, Ends
  <2>2. CASE stage # "ready" \/ store # None
    <3> SUFFICES ASSUME NEW c \in Client, replica[c] # Empty PROVE Held(replica'[c])
      BY <1>1, <1>3, <2>1
    <3>1. stage = "ready" => store = room
      BY <2>1, <2>2 DEF Remakable
    <3>2. Base' = Base
      BY <2>1, <2>2, <3>1 DEF Base, SourceOf
    <3> QED
      BY <1>2, <2>1, <3>2
  <2>3. CASE stage = "ready" /\ store = None
    <3> SUFFICES ASSUME NEW c \in Client, replica[c] # Empty PROVE Held(replica[c])
      BY <1>1, <1>3, <2>1
    <3>1. ~touched
      BY <2>1, <2>3 DEF Remakable
    <3>2. ASSUME NEW i \in replica[c].has, Id(i) \in replica[c].dead PROVE i.unit \in forfeit
      <4>1. i.unit \in forfeit \/ Id(i) \in room.dead
        BY <1>0, <2>3, <3>2 DEF Deletions, Base
      <4>2. ASSUME Id(i) \in room.dead PROVE i.unit \in forfeit
        <5>1. PICK k \in room.has : Id(k) = Id(i)
          BY <4>2, Holders, CopyTypes DEF Sound, Ids
        <5>2. k = i
          BY <1>0, <5>1, Holders DEF AgreeInv
        <5> QED
          BY <1>0, <2>3, <3>1, <4>2, <5>2 DEF Begun
      <4> QED
        BY <4>1, <4>2
    <3> QED
      BY <1>0, <3>2 DEF Held
  <2> QED
    BY <2>2, <2>3
<1>11. ASSUME NEW c \in Client, Close(c) PROVE Deletions'
  <2>1. /\ UNCHANGED <<stage, room, store, read>>
        /\ \A b \in Client : replica'[b] \in {replica[b], Empty}
    BY <1>11 DEF Close, TypeOK
  <2>2. Base' = Base
    BY <2>1 DEF Base, SourceOf
  <2> QED
    BY <1>1, <1>2, <1>3, <2>1, <2>2
<1>12. ASSUME NEW c \in Client, Type(c) PROVE Deletions'
  <2>1. UNCHANGED <<stage, room, store, read>>
    BY <1>12 DEF Type
  <2>2. /\ replica'[c].has = replica[c].has \cup {Written} /\ replica'[c].dead = replica[c].dead
        /\ \A b \in Client : b # c => replica'[b] = replica[b]
        /\ \A i \in replica[c].has : Id(i) # Id(Written)
    BY <1>12, DrawnType, Holders
  <2>3. Id(Written) \notin replica[c].dead
    BY <2>2, Holders, CopyTypes DEF Sound, Ids
  <2>4. Base' = Base
    BY <2>1 DEF Base, SourceOf
  <2>5. Held(replica'[c])
    BY <1>2, <2>2, <2>3, <2>4 DEF Held
  <2> QED
    BY <1>1, <1>2, <2>2, <2>4, <2>5
<1>13. ASSUME NEW c \in Client, Erase(c) PROVE Deletions'
  <2>1. PICK i \in Alive(replica[c]) :
          /\ replica' = [replica EXCEPT ![c].dead = @ \cup {Id(i)}]
          /\ forfeit' = forfeit \cup {i.unit}
    BY <1>13 DEF Erase
  <2>2. /\ replica'[c].has = replica[c].has /\ replica'[c].dead = replica[c].dead \cup {Id(i)}
        /\ \A b \in Client : b # c => replica'[b] = replica[b]
        /\ UNCHANGED <<stage, room, store, read>>
    BY <1>13, <2>1 DEF TypeOK, Replica, Erase
  <2>3. Base' = Base
    BY <2>2 DEF Base, SourceOf
  <2>4. ASSUME NEW k \in replica[c].has, Id(k) = Id(i) PROVE k = i
    BY <2>1, <2>4, Holders, CopyTypes DEF Sound, Alive
  <2>5. Held(replica'[c])
    BY <1>2, <2>1, <2>2, <2>3, <2>4 DEF Held
  <2> QED
    BY <1>1, <1>2, <2>2, <2>3, <2>5
<1>14. ASSUME NEW c \in Client, Push(c) PROVE Deletions'
  <2>1. room' = Merge(room, replica[c]) /\ stage = "ready" /\ UNCHANGED <<replica, stage>>
    BY <1>14 DEF Push, TypeOK
  <2>2. room.dead \subseteq room'.dead
    BY <2>1, Holders, CopyTypes, Merged
  <2>3. Base.dead \subseteq Base'.dead
    BY <2>1, <2>2 DEF Base
  <2> QED
    BY <1>4, <2>1, <2>3
<1>15. ASSUME NEW c \in Client, Pull(c) PROVE Deletions'
  <2>1. /\ replica'[c] = Merge(replica[c], room) /\ stage = "ready" /\ UNCHANGED <<stage, room>>
        /\ \A b \in Client : b # c => replica'[b] = replica[b]
    BY <1>15 DEF Pull, TypeOK
  <2>2. /\ replica'[c].has = replica[c].has \cup room.has
        /\ replica'[c].dead = replica[c].dead \cup room.dead
    BY <1>0, <2>1, Holders, Agreed
  <2>3. Base = room /\ Base' = room
    BY <2>1 DEF Base
  <2>4. ASSUME NEW i \in replica'[c].has, Id(i) \in replica[c].dead PROVE i \in replica[c].has
    <3>1. PICK k \in replica[c].has : Id(k) = Id(i)
      BY <2>4, Holders, CopyTypes DEF Sound, Ids
    <3>2. k = i
      BY <1>0, <2>2, <3>1, Holders DEF AgreeInv
    <3> QED
      BY <3>2
  <2>5. Held(replica[c])
    BY <1>2, <2>3
  <2>6. Held(replica'[c])
    BY <2>2, <2>3, <2>4, <2>5 DEF Held
  <2> QED
    BY <1>1, <1>2, <2>1, <2>3, <2>6
<1> QED
  BY <1>6, <1>7, <1>8, <1>9, <1>10, <1>11, <1>12, <1>13, <1>14, <1>15 DEF Next

\* Every step keeps what is kept.
LEMMA KeptStep ==
  ASSUME TypeOK, CopiesInv, AgreeInv, KeptInv, Next
  PROVE  KeptInv'
BY ForfeitedStep, DeletionsStep, StoreBehindStep, BegunStep, CurrentStep DEF KeptInv

-----------------------------------------------------------------------------
(* What clients and the room have in common                                *)

\* A room is empty until it is initialized, and at rest shows the file.
LEMMA RestStep ==
  ASSUME TypeOK, CopiesInv, RestInv, Next
  PROVE  RestInv'
<1> USE DEF onDisc, onServer, onClients, history, configuration
<1> SUFFICES ASSUME ~early' PROVE RestInv'
  BY DEF RestInv
<1>0. ~early
  BY OnwardStep DEF Onward
<1>1. CASE Make
  BY <1>1 DEF Make, RestInv
<1>2. CASE Load
  BY <1>0, <1>2 DEF Load, RestInv
<1>3. CASE Initialize
  <2>1. /\ stage = "loaded" /\ stage' = "ready" /\ room' = Initialized /\ room = Empty
        /\ UNCHANGED <<known, mtime, file>> /\ (known = mtime => read = file)
    BY <1>0, <1>3 DEF Initialize, RestInv
  <2>2. Shown(room') = read
    BY <1>3, <2>1, MadeFrom, InitializedShape, Empties
  <2> QED
    BY <2>1, <2>2 DEF RestInv
<1>4. CASE Reload \/ SaveRefused
  <2>1. /\ Overwrite /\ UNCHANGED <<stage, file>> /\ stage = "ready"
    BY <1>4 DEF Reload, SaveRefused, Overwrite
  <2>2. Shown(room') = file
    BY <2>1, OverwriteShape
  <2> QED
    BY <2>1, <2>2 DEF RestInv
<1>5. CASE SaveFile
  BY <1>5 DEF SaveFile, RestInv
<1>6. CASE Evict \/ Crash
  BY <1>6 DEF Evict, Crash, Ends, RestInv
<1>7. CASE External
  <2>1. mtime' = mtime + 1 /\ UNCHANGED <<stage, room, known>>
    BY <1>7 DEF External
  <2>2. known' # mtime'
    BY <2>1, NoneAssumption DEF CopiesInv, TypeOK
  <2> QED
    BY <1>0, <2>1, <2>2 DEF RestInv
<1>8. CASE Store \/ Notice
  BY <1>0, <1>8 DEF Store, Notice, RestInv
<1>9. ASSUME NEW c \in Client, Push(c) PROVE RestInv'
  BY <1>9 DEF Push, RestInv, TypeOK
<1>10. ASSUME NEW c \in Client,
              Join(c) \/ Disconnect(c) \/ Close(c) \/ Type(c) \/ Erase(c) \/ Pull(c)
       PROVE  RestInv'
  BY <1>0, <1>10 DEF Join, Disconnect, Close, Type, Erase, Pull, RestInv
<1> QED
  BY <1>1, <1>2, <1>3, <1>4, <1>5, <1>6, <1>7, <1>8, <1>9, <1>10 DEF Next

\* What has come to a client from a room, or to the file from a client, a room that is ready
\* has, or the next one will.
LEMMA OnceStep ==
  ASSUME TypeOK, CopiesInv, AgreeInv, SourceInv, KeptInv, OnceInv, NewerInv, RestInv, Next
  PROVE  OnceInv'
<1> USE DEF onDisc, onServer, onClients, history, configuration
<1> SUFFICES ASSUME ~lost', ~early' PROVE OnceInv'
  BY DEF OnceInv
<1> DEFINE Matter == file \cup Loaded
           Held(q) == \A i \in q.has : i.author # User \/ i.unit \in Matter' => i \in Base'.has
           Made1 == stage = "ready" /\ store = None /\ ~touched => room.has = SourceOf(read).has
           Nonempty == \E c \in Client : replica[c] # Empty
<1>0. /\ ~lost /\ ~early /\ Made1
      /\ \A c \in Client : \A i \in replica[c].has :
           i.author # User \/ i.unit \in Matter => i \in Base.has
  BY OnwardStep DEF Onward, OnceInv
<1>1. ASSUME Made1', \A c \in Client : Held(replica'[c]) PROVE OnceInv'
  BY <1>1 DEF OnceInv
<1>2. ASSUME Matter' \subseteq Matter, Base.has \subseteq Base'.has, NEW c \in Client
      PROVE  Held(replica[c])
  BY <1>0, <1>2
<1>3. Held(Empty)
  BY Empties
<1>4. SourceOf(read)' = SourceOf(read')
  BY DEF SourceOf
<1> HIDE DEF Held
<1>5. CASE Make
  <2>1. stage = "none" /\ stage' = "made" /\ UNCHANGED <<store, read, replica, file>>
    BY <1>5 DEF Make
  <2>2. Matter' = Matter /\ Base' = Base
    BY <2>1 DEF Loaded, Base, SourceOf
  <2> QED
    BY <1>1, <1>2, <2>1, <2>2
<1>6. CASE Load
  <2>1. /\ stage = "made" /\ stage' = "loaded" /\ UNCHANGED <<store, replica, file>>
        /\ read' = file
    BY <1>6 DEF Load
  <2>2. Matter' = Matter
    BY <2>1 DEF Loaded
  <2>3. store # None \/ Nonempty => Base' = Base
    <3>1. store = None /\ Nonempty => read = file
      BY <1>0, <2>1 DEF SourceInv
    <3> QED
      BY <1>4, <2>1, <3>1 DEF Base
  <2>4. \A c \in Client : Held(replica[c])
    BY <1>2, <1>3, <2>2, <2>3
  <2> QED
    BY <1>1, <2>1, <2>4
<1>7. CASE Initialize
  <2>1. /\ stage = "loaded" /\ stage' = "ready" /\ room' = Initialized /\ room = Empty
        /\ UNCHANGED <<replica, file, read>>
    BY <1>0, <1>7 DEF Initialize, RestInv
  <2>2. CASE store = None
    <3>1. room'.has = room.has \cup SourceOf(read).has
      BY <1>7, <2>2, MadeFrom
    <3>2. room'.has = SourceOf(read).has
      BY <2>1, <3>1, Empties
    <3>3. Matter' \subseteq Matter /\ Base.has \subseteq Base'.has /\ Made1'
      BY <1>4, <2>1, <2>2, <3>2 DEF Loaded, Base
    <3> QED
      BY <1>1, <1>2, <2>1, <3>3
  <2>3. CASE store # None
    <3>1. FromStore = store
      BY <2>1, <2>3, MergedEmpty DEF FromStore, TypeOK
    <3>2. FromStore.has \subseteq room'.has
      BY <2>1, <2>3, InitializedShape
    <3>3. Matter' \subseteq Matter /\ Base.has \subseteq Base'.has
      BY <2>1, <2>3, <3>1, <3>2 DEF Loaded, Base
    <3>4. store' # None
      BY <2>3, StoreStays
    <3> QED
      BY <1>1, <1>2, <2>1, <3>3, <3>4
  <2> QED
    BY <2>2, <2>3
<1>8. CASE Store
  <2>1. /\ stage = "ready" /\ store' # None
        /\ UNCHANGED <<stage, replica, file, read, room>>
    BY <1>8, NoneAssumption DEF Store, TypeOK
  <2>2. Matter' = Matter /\ Base' = Base
    BY <2>1 DEF Loaded, Base
  <2> QED
    BY <1>1, <1>2, <2>1, <2>2
<1>9. CASE Reload \/ SaveRefused
  <2>1. /\ Overwrite /\ stage = "ready" /\ UNCHANGED <<stage, replica, store, file, read>>
        /\ touched' = (touched \/ room' # room)
    BY <1>9 DEF Reload, SaveRefused, Overwrite
  <2>2. room.has \subseteq room'.has
    BY <2>1, OverwriteShape
  <2>3. Matter' = Matter /\ Base.has \subseteq Base'.has
    BY <2>1, <2>2 DEF Loaded, Base
  <2>4. Made1'
    BY <1>0, <1>4, <2>1
  <2> QED
    BY <1>1, <1>2, <2>1, <2>3, <2>4
<1>10. CASE Notice
  <2>1. UNCHANGED <<stage, replica, store, file, read, room, touched>>
    BY <1>10 DEF Notice
  <2>2. Matter' = Matter /\ Base' = Base
    BY <1>4, <2>1 DEF Loaded, Base
  <2> QED
    BY <1>0, <1>1, <1>2, <1>4, <2>1, <2>2
<1>11. CASE SaveFile
  <2>1. /\ stage = "ready" /\ touched /\ file' = Shown(room)
        /\ UNCHANGED <<stage, replica, store, read, room, touched>>
    BY <1>11 DEF SaveFile, CopiesInv
  <2>2. Matter' = Shown(room) /\ Base = room /\ Base' = room
    BY <2>1 DEF Loaded, Base
  <2>3. ASSUME NEW c \in Client, NEW i \in replica[c].has, i.author # User \/ i.unit \in Shown(room)
        PROVE  i \in room.has
    <3>1. CASE i.author # User
      BY <1>0, <2>2, <3>1
    <3>2. CASE i.author = User
      <4>1. PICK k \in Alive(room) : k.unit = i.unit
        BY <2>3, <3>2 DEF Shown
      <4>2. k \in room.has /\ room \in Copies /\ replica[c] \in Copies
        BY <4>1, Holders DEF Alive
      <4>3. CASE k # i
        <5>1. Id(i) \in room.dead
          BY <1>0, <3>2, <4>1, <4>2, <4>3 DEF NewerInv, Newer, Over
        <5>2. PICK j \in room.has : Id(j) = Id(i)
          BY <4>2, <5>1, CopyTypes DEF Sound, Ids
        <5>3. j = i
          BY <1>0, <4>2, <5>2 DEF AgreeInv
        <5> QED
          BY <5>3
      <4> QED
        BY <4>2, <4>3
    <3> QED
      BY <3>1, <3>2
  <2>4. \A c \in Client : Held(replica[c])
    BY <2>2, <2>3 DEF Held
  <2> QED
    BY <1>1, <2>1, <2>4
<1>12. CASE Evict \/ Crash
  <2>1. /\ stage' = "none" /\ UNCHANGED <<replica, store, file, read>>
        /\ Nonempty => Remakable
    <3>1. lost' = (lost \/ (~Remakable /\ Nonempty))
      BY <1>12 DEF Evict, Crash, Ends
    <3> QED
      BY <1>12, <3>1 DEF Evict, Crash, Ends
  <2>2. Matter' \subseteq Matter
    BY <2>1 DEF Loaded
  <2>3. Nonempty => Base.has \subseteq Base'.has
    <3> SUFFICES ASSUME Remakable PROVE Base.has \subseteq Base'.has
      BY <2>1
    <3>1. CASE stage # "ready" \/ store # None
      BY <1>4, <2>1, <3>1 DEF Base, Remakable
    <3>2. CASE stage = "ready" /\ store = None
      BY <1>0, <1>4, <2>1, <3>2 DEF Base, Remakable
    <3> QED
      BY <3>1, <3>2
  <2>4. \A c \in Client : Held(replica[c])
    BY <1>2, <1>3, <2>2, <2>3
  <2> QED
    BY <1>1, <2>1, <2>4
<1>13. CASE External
  <2>1. /\ UNCHANGED <<room, store, replica, read, stage, touched>>
        /\ file' \subseteq file \cup {born + 1}
    <3>1. file' \subseteq file \cup {born + 1}
      BY <1>13 DEF External
    <3> QED
      BY <1>13, <3>1 DEF External
  <2>2. Matter' \subseteq Matter \cup {born + 1} /\ Base' = Base
    BY <1>4, <2>1 DEF Loaded, Base
  <2>3. ASSUME NEW c \in Client, NEW i \in replica[c].has PROVE i.unit # born + 1
    BY Holders, CopyTypes DEF CopiesInv, Replica, Item, Unit
  <2>4. \A c \in Client : Held(replica[c])
    BY <1>0, <2>2, <2>3 DEF Held
  <2> QED
    BY <1>0, <1>1, <1>4, <2>1, <2>4
<1>14. ASSUME NEW c \in Client, Join(c) \/ Disconnect(c) \/ Close(c) PROVE OnceInv'
  <2>1. /\ UNCHANGED <<stage, room, store, read, file, touched>>
        /\ \A b \in Client : replica'[b] \in {replica[b], Empty}
    BY <1>14 DEF Join, Disconnect, Close, TypeOK
  <2>2. Matter' = Matter /\ Base' = Base
    BY <1>4, <2>1 DEF Loaded, Base
  <2>3. \A b \in Client : Held(replica'[b])
    BY <1>2, <1>3, <2>1, <2>2
  <2> QED
    BY <1>0, <1>1, <1>4, <2>1, <2>3
<1>15. ASSUME NEW c \in Client, Type(c) PROVE OnceInv'
  <2>1. UNCHANGED <<stage, room, store, read, file, touched>> /\ born' = born + 1
    BY <1>15 DEF Type
  <2>2. /\ replica'[c].has = replica[c].has \cup {Written}
        /\ \A b \in Client : b # c => replica'[b] = replica[b]
        /\ Written.author = User /\ Written.unit = born + 1
    BY <1>15, <2>1, DrawnType DEF Written
  <2>3. Matter' = Matter /\ Base' = Base
    BY <1>4, <2>1 DEF Loaded, Base
  <2>4. Written.unit \notin Matter
    BY <2>2, CopyTypes DEF CopiesInv, Loaded
  <2>5. Held(replica'[c])
    BY <1>2, <2>2, <2>3, <2>4 DEF Held
  <2>6. \A b \in Client : Held(replica'[b])
    BY <1>2, <2>2, <2>3, <2>5
  <2> QED
    BY <1>0, <1>1, <1>4, <2>1, <2>6
<1>16. ASSUME NEW c \in Client, Erase(c) PROVE OnceInv'
  <2>1. /\ UNCHANGED <<stage, room, store, read, file, touched>>
        /\ \A b \in Client : replica'[b].has = replica[b].has
    BY <1>16 DEF Erase, TypeOK, Replica
  <2>2. Matter' = Matter /\ Base' = Base
    BY <1>4, <2>1 DEF Loaded, Base
  <2>3. \A b \in Client : Held(replica'[b])
    BY <1>2, <2>1, <2>2 DEF Held
  <2> QED
    BY <1>0, <1>1, <1>4, <2>1, <2>3
<1>17. ASSUME NEW c \in Client, Push(c) PROVE OnceInv'
  <2>1. /\ room' = Merge(room, replica[c]) /\ stage = "ready" /\ touched'
        /\ UNCHANGED <<stage, replica, store, read, file>>
    BY <1>17 DEF Push, TypeOK
  <2>2. room.has \subseteq room'.has
    BY <2>1, Holders, CopyTypes, Merged
  <2>3. Matter' = Matter /\ Base.has \subseteq Base'.has
    BY <2>1, <2>2 DEF Loaded, Base
  <2> QED
    BY <1>1, <1>2, <2>1, <2>3
<1>18. ASSUME NEW c \in Client, Pull(c) PROVE OnceInv'
  <2>1. /\ replica'[c] = Merge(replica[c], room) /\ stage = "ready"
        /\ \A b \in Client : b # c => replica'[b] = replica[b]
        /\ UNCHANGED <<stage, room, store, read, file, touched>>
    BY <1>18 DEF Pull, TypeOK
  <2>2. replica'[c].has \subseteq replica[c].has \cup room.has
    BY <2>1, Holders, CopyTypes, Merged
  <2>3. Matter' = Matter /\ Base' = Base /\ Base = room
    BY <2>1 DEF Loaded, Base
  <2>4. Held(replica'[c])
    BY <1>2, <2>2, <2>3 DEF Held
  <2>5. \A b \in Client : Held(replica'[b])
    BY <1>2, <2>1, <2>3, <2>4
  <2> QED
    BY <1>0, <1>1, <1>4, <2>1, <2>5
<1> QED
  BY <1>5, <1>6, <1>7, <1>8, <1>9, <1>10, <1>11, <1>12, <1>13, <1>14, <1>15, <1>16, <1>17,
     <1>18 DEF Next

\* Of two different items of one unit, one is newer.
LEMMA OneNewer ==
  ASSUME NEW i \in Item, NEW j \in Item, Id(i) # Id(j)
  PROVE  Newer(i, j) \/ Newer(j, i)
<1>1. i.author \in Nat /\ j.author \in Nat /\ i.clock \in Nat /\ j.clock \in Nat
  BY DEF Item, Author
<1>2. i.author # j.author \/ i.clock # j.clock
  BY DEF Id
<1> QED
  BY <1>1, <1>2 DEF Newer

\* Items that are newer stay over the others when the new items are the newest of their units
\* and whoever has them has deleted the others.
LEMMA NewerKept ==
  ASSUME NewerInv, ~lost, ~early, NEW N, \A r \in Copies' : Drawn(r, N),
         \A i, j \in N : i.unit = j.unit => i = j,
         \A q \in Copies : \A i \in N, j \in q.has :
           i.unit = j.unit /\ i # j => ~Newer(j, i),
         \A q \in Copies : \A i \in q.has, j \in N :
           i.unit = j.unit /\ i # j => \A r \in Copies' : j \in r.has => Id(i) \in r.dead
  PROVE  NewerInv'
<1> SUFFICES ASSUME NEW r \in Copies', NEW q \in Copies', NEW i \in r.has, NEW j \in q.has,
                    i.unit = j.unit, i # j, Newer(j, i), NEW p \in Copies', j \in p.has
             PROVE  Id(i) \in p.dead
  BY DEF NewerInv, Over, Newer, Id
<1>1. i \in N \/ \E s \in Copies : i \in s.has
  BY DEF Drawn
<1>2. j \in N \/ \E s \in Copies : j \in s.has /\ s.dead \subseteq p.dead
  BY DEF Drawn
<1>3. CASE i \in N
  BY <1>2, <1>3
<1>4. CASE i \notin N /\ j \in N
  BY <1>1, <1>4
<1>5. CASE i \notin N /\ j \notin N
  <2>1. PICK s \in Copies : i \in s.has
    BY <1>1, <1>5
  <2>2. PICK t \in Copies : j \in t.has /\ t.dead \subseteq p.dead
    BY <1>2, <1>5
  <2>3. Over(j, i)
    BY <2>1, <2>2 DEF NewerInv
  <2> QED
    BY <2>2, <2>3 DEF Over
<1> QED
  BY <1>3, <1>4, <1>5

\* Where a room that lacks a unit makes an item for it, it has all older ones, and has them deleted.
LEMMA NewerStep ==
  ASSUME TypeOK, CopiesInv, AgreeInv, KeptInv, OnceInv, NewerInv, RestInv, Next
  PROVE  NewerInv'
<1> USE DEF onDisc, onServer, onClients, history, configuration
<1> SUFFICES ASSUME ~lost', ~early' PROVE NewerInv'
  BY DEF NewerInv
<1>0. /\ ~lost /\ ~early /\ StoreBehind /\ rooms \in Nat
      /\ \A c \in Client : \A i \in replica[c].has : i.unit \in file \cup Loaded => i \in Base.has
  BY OnwardStep, CopyTypes DEF Onward, OnceInv, KeptInv
<1>1. CASE ~Makes
  BY <1>0, <1>1, DrawnQuiet, NewerKept
<1>2. CASE Reload \/ SaveRefused
  <2> DEFINE N == room'.has \ room.has
  <2>1. /\ Overwrite /\ stage = "ready" /\ UNCHANGED <<store, replica>>
    BY <1>2 DEF Reload, SaveRefused, Overwrite
  <2>2. /\ \A i \in N : i.author = Room /\ Own(room) < i.clock /\ i.unit \in file \ Shown(room)
        /\ \A i, j \in N : i.unit = j.unit => i = j
        /\ room.has \subseteq room'.has /\ room.dead \subseteq room'.dead
    BY <2>1, OverwriteShape
  <2>3. \A r \in Copies' : Drawn(r, N)
    BY <2>1, DrawnOverwrite
  <2>4. ASSUME NEW r \in Copies, NEW i \in r.has, i.author = Room
        PROVE  i \in room.has /\ i.clock <= Own(room)
    BY <2>1, <2>4 DEF CopiesInv
  <2>5. ASSUME NEW q \in Copies, NEW i \in N, NEW j \in q.has PROVE ~Newer(j, i)
    <3>1. j.author \in Nat /\ j.clock \in Nat /\ j.author <= Room
      BY CopyTypes DEF CopiesInv, Replica, Item, Author
    <3>2. i.author = Room /\ Room # User /\ rooms > 0
      BY <1>0, <2>1, <2>2 DEF CopiesInv, Room, User
    <3>3. Own(room) \in Nat /\ Own(room) < i.clock /\ i.clock \in Nat
      <4>1. Own(room) \in Nat
        BY Holders, CopyTypes, OwnNumber DEF Sound
      <4>2. i \in Item
        BY <2>1, OverwriteShape DEF Replica
      <4> QED
        BY <2>2, <4>1, <4>2 DEF Item
    <3>4. j.author = Room => j.clock <= Own(room)
      BY <2>4
    <3> QED
      BY <1>0, <3>1, <3>2, <3>3, <3>4 DEF Newer, Room
  <2>6. ASSUME NEW q \in Copies, NEW i \in q.has, NEW j \in N, i.unit = j.unit,
               NEW r \in Copies', j \in r.has
        PROVE  Id(i) \in r.dead
    <3>1. r = room'
      <4>1. r \in Copies \/ r = room'
        BY <2>1, Holders, HoldersNext
      <4> QED
        BY <2>2, <2>4, <2>6, <4>1
    <3>2. i \in room.has
      <4>1. i.unit \in file
        BY <2>2, <2>6
      <4>2. q = room \/ (\E c \in Client : q = replica[c]) \/ (q = store /\ store # None)
        BY Holders
      <4> QED
        BY <1>0, <2>1, <4>1, <4>2 DEF StoreBehind, Base
    <3>3. i.unit \notin Shown(room)
      BY <2>2, <2>6
    <3> QED
      BY <2>2, <3>1, <3>2, <3>3 DEF Shown, Alive
  <2> HIDE DEF N
  <2> QED
    BY <1>0, <2>2, <2>3, <2>5, <2>6, NewerKept
<1>3. CASE Initialize
  <2>1. /\ stage = "loaded" /\ room' = Initialized /\ room = Empty /\ room.has = {}
        /\ UNCHANGED replica /\ store' \in {store, room'} /\ Loaded = read /\ read \in SUBSET Unit
    BY <1>0, <1>3, Empties DEF Initialize, RestInv, Loaded, TypeOK
  <2>2. \A r \in Copies' : Drawn(r, Made)
    BY <1>3, DrawnInitialize
  <2>3. \A i \in Made : i.unit \in read
    BY <1>3, MadeItems
  <2>4. CASE store = None
    <3>1. Base = SourceOf(read) /\ Made = Base.has
      BY <2>1, <2>4 DEF Base, Made
    <3>2. \A i, j \in Made : i.unit = j.unit => i = j
      BY <2>1, <3>1, Histories
    <3>3. ASSUME NEW q \in Copies, NEW i \in q.has, i.unit \in read PROVE i \in Made
      BY <1>0, <2>1, <2>4, <3>1, <3>3, Holders
    <3>4. \A q \in Copies : \A i \in q.has, j \in Made : i.unit = j.unit => i = j
      BY <2>3, <3>2, <3>3
    <3>5. \A q \in Copies : \A i \in Made, j \in q.has : i.unit = j.unit => i = j
      BY <3>4
    <3> QED
      BY <1>0, <2>2, <3>2, <3>4, <3>5, NewerKept
  <2>5. CASE store # None
    <3>1. FromStore = store /\ Base = store
      BY <2>1, <2>5, MergedEmpty DEF FromStore, Base, TypeOK
    <3>2. /\ Made = room'.has \ store.has /\ store.dead \subseteq room'.dead
          /\ \A i \in Made : i.author = Room /\ i.unit \in read \ Shown(store)
          /\ \A i, j \in Made : i.unit = j.unit => i = j
      BY <2>1, <2>5, <3>1, InitializedShape DEF Made
    <3>3. \A q \in Copies : \A i \in q.has : i.author # Room
      BY <2>1 DEF CopiesInv
    <3>4. ASSUME NEW q \in Copies, NEW i \in Made, NEW j \in q.has PROVE ~Newer(j, i)
      <4>1. j.author \in Nat /\ j.author <= Room /\ j.author # Room
        BY <3>3, CopyTypes DEF CopiesInv, Replica, Item, Author
      <4>2. i.author = Room /\ Room # User
        BY <1>0, <2>1, <3>2 DEF CopiesInv, Room, User
      <4> QED
        BY <1>0, <4>1, <4>2 DEF Newer, Room
    <3>5. ASSUME NEW q \in Copies, NEW i \in q.has, NEW j \in Made, i.unit = j.unit,
                 NEW r \in Copies', j \in r.has
          PROVE  Id(i) \in r.dead
      <4>1. r = room'
        <5>1. r \in Copies \/ r = room'
          BY <2>1, <2>5, Holders, HoldersNext
        <5> QED
          BY <3>2, <3>3, <3>5, <5>1
      <4>2. i \in store.has
        <5>1. i.unit \in Loaded
          BY <2>1, <3>2, <3>5
        <5>2. q = room \/ (\E c \in Client : q = replica[c]) \/ q = store
          BY Holders
        <5> QED
          BY <1>0, <2>1, <3>1, <5>1, <5>2
      <4>3. i.unit \notin Shown(store)
        BY <3>2, <3>5
      <4> QED
        BY <3>2, <4>1, <4>2, <4>3 DEF Shown, Alive
    <3> QED
      BY <1>0, <2>2, <3>2, <3>4, <3>5, NewerKept
  <2> QED
    BY <2>4, <2>5
<1>4. ASSUME NEW c \in Client, Type(c) PROVE NewerInv'
  <2>1. \A r \in Copies' : Drawn(r, {Written})
    BY <1>4, DrawnType
  <2>2. \A r \in Copies : \A i \in r.has : i.unit # Written.unit
    BY <1>4, DrawnType
  <2> QED
    BY <1>0, <2>1, <2>2, NewerKept
<1> QED
  BY <1>1, <1>2, <1>3, <1>4 DEF Makes

\* While each newer item stands over the older ones, none is shown with another of its unit.
LEMMA Single ==
  ASSUME TypeOK, CopiesInv, NewerInv
  PROVE  NoDuplicates
<1> SUFFICES ASSUME ~lost, ~early, NEW r \in Replicas
             PROVE  Cardinality(Shown(r)) = Cardinality(Alive(r))
  BY DEF NoDuplicates
<1>1. r \in Copies /\ r \in Replica /\ Sound(r)
  BY CopyTypes DEF Copies
<1>2. ASSUME NEW i \in Alive(r), NEW j \in Alive(r), i.unit = j.unit, i # j PROVE FALSE
  <2>1. i \in r.has /\ j \in r.has /\ Id(i) \notin r.dead /\ Id(j) \notin r.dead
    BY DEF Alive
  <2>2. i \in Item /\ j \in Item /\ Id(i) # Id(j)
    BY <1>1, <1>2, <2>1 DEF Sound, Replica
  <2>3. Newer(i, j) \/ Newer(j, i)
    BY <2>2, OneNewer
  <2>4. Over(i, j) \/ Over(j, i)
    BY <1>1, <1>2, <2>1, <2>3 DEF NewerInv
  <2> QED
    BY <1>1, <2>1, <2>4 DEF Over
<1> QED
  BY <1>1, <1>2, NoneTwice DEF Sound

-----------------------------------------------------------------------------
(* The theorems                                                            *)

\* The beginning
LEMMA Begins ==
  ASSUME Init
  PROVE  IInv
<1> USE DEF Init
<1>1. TypeOK
  <2>1. /\ file \subseteq Unit /\ born \in 0 .. MaxUnits /\ budget \in 0 .. MaxWrites
        /\ rooms \in 0 .. MaxRooms /\ mtime \in Nat /\ known \in Nat \cup {None}
    BY DEF Unit
  <2>2. room \in Replica /\ replica \in [Client -> Replica] /\ store \in Replica \cup {None}
    BY Empties
  <2>3. /\ hasStore \in BOOLEAN /\ other \in BOOLEAN /\ stage = "none" /\ read = {}
        /\ unsaved = FALSE /\ online = {} /\ touched = FALSE /\ early = FALSE /\ lost = FALSE
        /\ forfeit = {}
    OBVIOUS
  <2> QED
    BY <2>1, <2>2, <2>3 DEF TypeOK
<1>2. \A r \in Copies : r = Empty
  BY Holders
<1>3. 1 \in 1 .. born
  OBVIOUS
<1>4. CopiesInv
  BY <1>2, <1>3, Empties, NoneAssumption DEF CopiesInv
<1>5. AgreeInv /\ NewerInv
  BY <1>2, Empties DEF AgreeInv, NewerInv
<1>6. SourceInv
  BY Empties DEF SourceInv, Replicas
<1>7. KeptInv
  <2>1. Forfeited
    BY <1>2, Empties DEF Forfeited, Units
  <2>2. Deletions /\ StoreBehind /\ Begun
    BY Empties DEF Deletions, StoreBehind, Begun
  <2>3. Current
    BY Empties DEF Current, Loaded
  <2> QED
    BY <2>1, <2>2, <2>3 DEF KeptInv
<1>8. OnceInv /\ RestInv
  BY Empties DEF OnceInv, RestInv
<1>9. NoDuplicates
  BY <1>1, <1>4, <1>5, Single
<1> QED
  BY <1>1, <1>4, <1>5, <1>6, <1>7, <1>8, <1>9 DEF IInv

\* A step that changes nothing
LEMMA Stutters ==
  ASSUME IInv, UNCHANGED vars
  PROVE  IInv'
<1> USE DEF vars, onDisc, onServer, onClients, history, configuration
<1>1. Copies' = Copies /\ Replicas' = Replicas /\ Base' = Base /\ Loaded' = Loaded /\ Own(room)' = Own(room)
  BY DEF Copies, Replicas, Base, Loaded, SourceOf, Own, Room
<1>2. TypeOK'
  BY DEF IInv, TypeOK
<1>3. CopiesInv'
  BY <1>1 DEF IInv, CopiesInv, Room
<1>4. AgreeInv' /\ SourceInv' /\ OnceInv' /\ RestInv'
  BY <1>1 DEF IInv, AgreeInv, SourceInv, OnceInv, RestInv
<1>5. KeptInv'
  BY <1>1 DEF IInv, KeptInv, Forfeited, Deletions, StoreBehind, Begun, Current
<1>6. NewerInv' /\ NoDuplicates'
  BY <1>1 DEF IInv, NewerInv, Over, NoDuplicates
<1> QED
  BY <1>2, <1>3, <1>4, <1>5, <1>6 DEF IInv

\* The same after a step
LEMMA SingleNext ==
  ASSUME TypeOK', CopiesInv', NewerInv'
  PROVE  NoDuplicates'
BY Single, PTL

\* The inductive step
LEMMA Steps ==
  ASSUME IInv, [Next]_vars
  PROVE  IInv'
<1>1. CASE UNCHANGED vars
  BY <1>1, Stutters
<1>2. CASE Next
  <2>0. /\ TypeOK /\ CopiesInv /\ AgreeInv /\ SourceInv /\ KeptInv /\ OnceInv /\ NewerInv
        /\ RestInv
    BY DEF IInv
  <2>1. TypeOK' /\ CopiesInv'
    BY <1>2, <2>0, TypeStep, CopiesStep
  <2>2. AgreeInv' /\ SourceInv' /\ KeptInv'
    BY <1>2, <2>0, AgreeStep, SourceStep, KeptStep
  <2>3. OnceInv' /\ RestInv'
    BY <1>2, <2>0, OnceStep, RestStep
  <2>4. NewerInv'
    BY <1>2, <2>0, NewerStep
  <2>5. NoDuplicates'
    BY <2>1, <2>4, SingleNext
  <2> QED
    BY <2>1, <2>2, <2>3, <2>4, <2>5 DEF IInv
<1> QED
  BY <1>1, <1>2

\* What is inductive, of the copies a rebuilt room, its store and its clients have; it has that
\* rebuilding a room shows no unit twice (_apply_deterministic_source_content).
THEOREM Invariant == Spec => []IInv
<1>1. Init => IInv
  BY Begins
<1>2. IInv /\ [Next]_vars => IInv'
  BY Steps
<1> QED
  BY <1>1, <1>2, PTL DEF Spec

\* In particular, a room that is made again from its store or its file shows nothing twice,
\* whatever replica a client returns with.
THEOREM Unduplicated == Spec => []NoDuplicates
<1>1. IInv => NoDuplicates
  BY DEF IInv
<1> QED
  BY <1>1, Invariant, PTL

\* A client and the room show the same once each has what the other had: no id that a
\* rebuilt room gives out stands for another item with a client.
THEOREM Convergence == Spec => []Converging
<1>1. IInv => Converging
  BY Converge DEF IInv
<1> QED
  BY <1>1, Invariant, PTL

\* Making a room again takes nothing from a client that kept its replica, but for what was
\* removed, or no save had reached.
THEOREM Preserved == Spec => []EditsKept
<1>1. IInv => EditsKept
  BY Holders DEF IInv, KeptInv, Forfeited, EditsKept, Units
<1> QED
  BY <1>1, Invariant, PTL

\* A client that has what the room has, while no save is due, shows the file.
LEMMA Rests ==
  ASSUME IInv
  PROVE  SameDocument
<1> SUFFICES ASSUME ~lost, ~early, AtRest, NEW c \in online
             PROVE  Shown(replica[c]) = file
  BY DEF SameDocument
<1>1. TypeOK /\ CopiesInv /\ AgreeInv /\ c \in Client
  BY DEF IInv, TypeOK
<1>2. Shown(room) = file
  BY DEF IInv, RestInv, AtRest
<1> DEFINE q == replica[c]
<1>3. Merge(room, q) = room /\ Merge(q, room) = q /\ q \in Copies /\ room \in Copies
  BY <1>1, Holders DEF AtRest
<1> HIDE DEF q
<1>4. q.has = room.has /\ q.dead = room.dead
  <2>1. /\ Merge(room, q).has = room.has \cup q.has /\ Merge(room, q).dead = room.dead \cup q.dead
        /\ Merge(q, room).has = room.has \cup q.has /\ Merge(q, room).dead = room.dead \cup q.dead
    BY <1>1, <1>3, Agreed
  <2> QED
    BY <1>3, <2>1
<1> QED
  BY <1>2, <1>4 DEF q, Shown, Alive

\* Documents that are in step with the room are in step with the file.
THEOREM Together == Spec => []SameDocument
BY Rests, Invariant, PTL

=============================================================================
