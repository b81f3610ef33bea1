----------------------- MODULE CollaborationProofs -----------------------
(* Theorems about Cursors, for any users, editors, texts and selections,   *)
(* and about SharedLink, for any users, groups, pages and chains of        *)
(* requests.                                                               *)
EXTENDS Cursors, SharedLink, SequenceTheorems, FiniteSetTheorems, WellFoundedInduction, TLAPS

-----------------------------------------------------------------------------
(* The order of a text                                                     *)

Ordered(o) == o \in Seq(Nat) /\ \A i, j \in DOMAIN o : o[i] = o[j] => i = j

\* A set of natural numbers that is not empty has a least one.
LEMMA Least ==
  ASSUME NEW T, T \subseteq Nat, T # {}
  PROVE  \E x \in T : \A y \in T : x <= y
<1> DEFINE Less == {ss \in Nat \X Nat : ss[1] < ss[2]}
<1>1. IsWellFoundedOn(Less, Nat)
  BY NatLessThanWellFounded DEF OpToRel
<1>2. \A x, y \in Nat : <<y, x>> \notin Less => x <= y
  OBVIOUS
<1> HIDE DEF Less
<1>3. PICK x \in T : \A y \in T : <<y, x>> \notin Less
  BY <1>1, WFMin
<1>4. ASSUME NEW y \in T PROVE x <= y
  BY <1>2, <1>3
<1> QED
  BY <1>4

LEMMA PlaceRight ==
  ASSUME NEW o, Ordered(o), NEW x \in ToSet(o)
  PROVE  /\ Len(o) \in Nat /\ DOMAIN o = 1 .. Len(o) /\ x \in Nat
         /\ Place(o, x) \in 1 .. Len(o) /\ o[Place(o, x)] = x
<1>1. Len(o) \in Nat /\ DOMAIN o = 1 .. Len(o)
  BY LenProperties DEF Ordered
<1>2. \E k \in DOMAIN o : o[k] = x
  BY DEF ToSet
<1>3. Place(o, x) \in DOMAIN o /\ o[Place(o, x)] = x
  BY <1>2 DEF Place
<1>4. x \in Nat
  BY <1>1, <1>3 DEF Ordered
<1> QED
  BY <1>1, <1>3, <1>4

\* A place is told by its character.
LEMMA PlaceOf ==
  ASSUME NEW o, Ordered(o), NEW k \in DOMAIN o
  PROVE  o[k] \in ToSet(o) /\ Place(o, o[k]) = k
<1>1. o[k] \in ToSet(o)
  BY DEF ToSet
<1>2. Place(o, o[k]) \in DOMAIN o /\ o[Place(o, o[k])] = o[k]
  BY <1>1, PlaceRight
<1> QED
  BY <1>1, <1>2 DEF Ordered

LEMMA TextFinite ==
  ASSUME NEW o, Ordered(o), NEW S \in SUBSET ToSet(o)
  PROVE  IsFiniteSet(S) /\ Cardinality(S) \in Nat
<1>1. /\ Len(o) \in Nat /\ DOMAIN o = 1 .. Len(o)
  BY LenProperties DEF Ordered
<1>2. IsFiniteSet(1 .. Len(o))
  BY <1>1, FS_Interval
<1> DEFINE at == [x \in ToSet(o) |-> Place(o, x)]
<1>3. at \in Injection(ToSet(o), 1 .. Len(o))
  <2>1. at \in [ToSet(o) -> 1 .. Len(o)]
    BY PlaceRight
  <2>2. \A x, y \in ToSet(o) : at[x] = at[y] => x = y
    BY PlaceRight
  <2> QED
    BY <2>1, <2>2 DEF Injection, IsInjective
<1>4. IsFiniteSet(ToSet(o))
  BY <1>2, <1>3, FS_Injection
<1>5. IsFiniteSet(S)
  BY <1>4, FS_Subset
<1> QED
  BY <1>5, FS_CardinalityType

LEMMA BeforeRight ==
  ASSUME NEW o, Ordered(o), NEW S \in SUBSET ToSet(o), NEW x
  PROVE  /\ Before(o, S, x) \in 0 .. Cardinality(S) /\ Cardinality(S) \in Nat
         /\ x \in S => Before(o, S, x) < Cardinality(S)
<1>1. IsFiniteSet(S) /\ Cardinality(S) \in Nat
  BY TextFinite
<1>2. Earlier(o, S, x) \in SUBSET S
  BY DEF Earlier
<1>3. /\ Before(o, S, x) \in Nat /\ Before(o, S, x) <= Cardinality(S)
      /\ Cardinality(S) = Before(o, S, x) => S = Earlier(o, S, x)
  BY <1>1, <1>2, FS_Subset, FS_CardinalityType DEF Before
<1>4. x \in S => x \notin Earlier(o, S, x)
  <2> SUFFICES ASSUME x \in S PROVE ~(Place(o, x) < Place(o, x))
    BY DEF Earlier
  <2>1. Place(o, x) \in Nat
    BY PlaceRight
  <2> QED
    BY <2>1
<1> QED
  BY <1>1, <1>3, <1>4

\* No two visible characters have one index, and every index has a character.
LEMMA NthUnique ==
  ASSUME NEW o, Ordered(o), NEW S \in SUBSET ToSet(o), NEW x \in S, NEW y \in S,
         Before(o, S, x) = Before(o, S, y)
  PROVE  x = y
<1>1. ASSUME NEW a \in S, NEW b \in S, Place(o, a) < Place(o, b) PROVE Before(o, S, a) # Before(o, S, b)
  <2>1. Place(o, a) \in Nat /\ Place(o, b) \in Nat /\ \A c \in S : Place(o, c) \in Nat
    BY PlaceRight
  <2>2. Earlier(o, S, a) \in SUBSET Earlier(o, S, b) /\ a \in Earlier(o, S, b) /\ a \notin Earlier(o, S, a)
    BY <1>1, <2>1 DEF Earlier
  <2>3. IsFiniteSet(Earlier(o, S, b))
    BY TextFinite DEF Earlier
  <2> QED
    BY <2>2, <2>3, FS_Subset DEF Before
<1>2. Place(o, x) \in Nat /\ Place(o, y) \in Nat /\ (Place(o, x) = Place(o, y) => x = y)
  BY PlaceRight
<1>3. Place(o, x) < Place(o, y) \/ Place(o, y) < Place(o, x) \/ Place(o, x) = Place(o, y)
  BY <1>2
<1> QED
  BY <1>1, <1>2, <1>3

LEMMA FirstOf ==
  ASSUME NEW o, Ordered(o), NEW S \in SUBSET ToSet(o), S # {}
  PROVE  \E x \in S : \A y \in S : Place(o, x) <= Place(o, y)
<1> DEFINE T == {Place(o, x) : x \in S}
<1>1. T \subseteq Nat /\ T # {}
  BY PlaceRight
<1>2. PICK k \in T : \A l \in T : k <= l
  BY <1>1, Least
<1> QED
  BY <1>2

LEMMA NthExists ==
  ASSUME NEW o, Ordered(o), NEW S \in SUBSET ToSet(o), NEW i \in Nat, i < Cardinality(S)
  PROVE  \E x \in S : Before(o, S, x) = i
<1> DEFINE T == {n \in Nat : n < Cardinality(S) /\ ~\E x \in S : Before(o, S, x) = n}
<1> SUFFICES ASSUME T # {} PROVE FALSE
  OBVIOUS
<1>1. PICK n \in T : \A m \in T : n <= m
  BY Least
<1>2. IsFiniteSet(S) /\ Cardinality(S) \in Nat /\ n \in Nat /\ n < Cardinality(S)
  BY <1>1, TextFinite
<1>3. \A x \in S : Place(o, x) \in Nat
  BY PlaceRight
<1>4. CASE n = 0
  <2>1. S # {}
    BY <1>2, <1>4, FS_EmptySet
  <2>2. PICK x \in S : \A y \in S : Place(o, x) <= Place(o, y)
    BY <2>1, FirstOf
  <2>3. Earlier(o, S, x) = {}
    BY <1>3, <2>2 DEF Earlier
  <2>4. Before(o, S, x) = 0
    BY <2>3, FS_EmptySet DEF Before
  <2> QED
    BY <1>1, <1>4, <2>4
<1>5. CASE n # 0
  <2>1. n - 1 \in Nat /\ n - 1 \notin T /\ n - 1 < Cardinality(S)
    BY <1>1, <1>2, <1>5
  <2>2. PICK x \in S : Before(o, S, x) = n - 1
    BY <2>1
  <2> DEFINE E == Earlier(o, S, x)
             R == {y \in S : Place(o, x) < Place(o, y)}
  <2>3. IsFiniteSet(E) /\ Cardinality(E) = n - 1 /\ x \notin E
    <3>1. IsFiniteSet(E)
      BY <1>2, FS_Subset DEF Earlier
    <3> QED
      BY <1>3, <2>2, <3>1 DEF Before, Earlier
  <2>4. Cardinality(E \cup {x}) = n
    <3>1. Cardinality(E \cup {x}) = Cardinality(E) + 1
      BY <2>3, FS_AddElement
    <3> QED
      BY <1>2, <2>3, <3>1
  <2>5. R # {}
    <3> SUFFICES ASSUME R = {} PROVE S = E \cup {x}
      BY <1>2, <2>4
    <3>1. ASSUME NEW y \in S PROVE y \in E \cup {x}
      <4>1. ~(Place(o, x) < Place(o, y)) /\ Place(o, x) \in Nat /\ Place(o, y) \in Nat
        BY <1>3
      <4>2. Place(o, y) < Place(o, x) \/ Place(o, y) = Place(o, x)
        BY <4>1
      <4>3. Place(o, y) = Place(o, x) => y = x
        BY PlaceRight
      <4> QED
        BY <4>2, <4>3 DEF Earlier
    <3> QED
      BY <3>1 DEF Earlier
  <2>6. PICK y \in R : \A z \in R : Place(o, y) <= Place(o, z)
    BY <2>5, FirstOf
  <2>7. Earlier(o, S, y) = E \cup {x}
    <3>1. ASSUME NEW z \in S PROVE Place(o, z) < Place(o, y) <=> z \in E \cup {x}
      <4>1. Place(o, x) \in Nat /\ Place(o, y) \in Nat /\ Place(o, z) \in Nat /\ Place(o, x) < Place(o, y)
        BY <1>3, <2>6
      <4>2. Place(o, x) < Place(o, z) => Place(o, y) <= Place(o, z)
        BY <2>6
      <4>3. Place(o, z) = Place(o, x) => z = x
        BY PlaceRight
      <4>4. z \in E <=> Place(o, z) < Place(o, x)
        BY DEF Earlier
      <4> QED
        BY <4>1, <4>2, <4>3, <4>4
    <3> QED
      BY <3>1 DEF Earlier
  <2>8. Before(o, S, y) = n
    BY <2>4, <2>7 DEF Before
  <2> QED
    BY <1>1, <2>8
<1> QED
  BY <1>4, <1>5

LEMMA NthRight ==
  ASSUME NEW o, Ordered(o), NEW S \in SUBSET ToSet(o), NEW i \in Nat, i < Cardinality(S)
  PROVE  Nth(o, S, i) \in S /\ Before(o, S, Nth(o, S, i)) = i
BY NthExists DEF Nth

\* Two orders of a text in which its visible characters follow one another alike.
Alike(o, q) ==
  /\ Ordered(o) /\ Ordered(q) /\ ToSet(o) \subseteq ToSet(q)
  /\ \A y, z \in ToSet(o) : Place(q, y) < Place(q, z) <=> Place(o, y) < Place(o, z)

LEMMA AlikeSame ==
  ASSUME NEW o, NEW q, Alike(o, q), NEW S \in SUBSET ToSet(o)
  PROVE  /\ \A x \in ToSet(o) : Before(q, S, x) = Before(o, S, x)
         /\ \A i \in Nat : i < Cardinality(S) => Nth(q, S, i) = Nth(o, S, i)
<1>1. \A x \in ToSet(o) : Before(q, S, x) = Before(o, S, x)
  <2>1. ASSUME NEW x \in ToSet(o) PROVE Earlier(q, S, x) = Earlier(o, S, x)
    BY DEF Alike, Earlier
  <2> QED
    BY <2>1 DEF Before
<1>2. ASSUME NEW i \in Nat, i < Cardinality(S) PROVE Nth(q, S, i) = Nth(o, S, i)
  <2>1. /\ Nth(o, S, i) \in S /\ Before(o, S, Nth(o, S, i)) = i
        /\ Nth(q, S, i) \in S /\ Before(q, S, Nth(q, S, i)) = i
    BY <1>2, NthRight DEF Alike
  <2>2. Before(o, S, Nth(q, S, i)) = i
    BY <1>1, <2>1
  <2> QED
    BY <2>1, <2>2, NthUnique DEF Alike
<1> QED
  BY <1>1, <1>2

LEMMA AlikeItself ==
  ASSUME NEW o, Ordered(o)
  PROVE  Alike(o, o)
BY DEF Alike

\* A new character leaves those before it and after it in their order.
LEMMA InsertedAlike ==
  ASSUME NEW o, Ordered(o), NEW x \in Nat \ ToSet(o), NEW k \in 1 .. Len(o) + 1
  PROVE  /\ Alike(o, InsertAt(o, k, x)) /\ ToSet(InsertAt(o, k, x)) = ToSet(o) \cup {x}
<1> DEFINE q == InsertAt(o, k, x)
           n == Len(o)
<1>0. o \in Seq(Nat) /\ n \in Nat /\ DOMAIN o = 1 .. n /\ k \in Nat /\ k >= 1 /\ k <= n + 1
  BY LenProperties DEF Ordered
<1>1. /\ q \in Seq(Nat) /\ Len(q) = n + 1
      /\ \A i \in 1 .. n + 1 : q[i] = IF i < k THEN o[i] ELSE IF i = k THEN x ELSE o[i - 1]
  <2> DEFINE l == SubSeq(o, 1, k - 1)
             r == SubSeq(o, k, n)
  <2>1. l \in Seq(Nat) /\ Len(l) = k - 1 /\ \A i \in 1 .. k - 1 : l[i] = o[i]
    BY <1>0, SubSeqProperties
  <2>2. r \in Seq(Nat) /\ Len(r) = n - k + 1 /\ \A i \in 1 .. n - k + 1 : r[i] = o[k + i - 1]
    BY <1>0, SubSeqProperties
  <2>3. q = (l \o <<x>>) \o r
    BY DEF InsertAt
  <2> HIDE DEF l, r, q, n
  <2>4. /\ l \o <<x>> \in Seq(Nat) /\ Len(l \o <<x>>) = k
        /\ \A i \in 1 .. k : (l \o <<x>>)[i] = IF i < k THEN l[i] ELSE x
    BY <1>0, <2>1
  <2>5. /\ (l \o <<x>>) \o r \in Seq(Nat) /\ Len((l \o <<x>>) \o r) = n + 1
        /\ \A i \in 1 .. n + 1 : ((l \o <<x>>) \o r)[i] = IF i <= k THEN (l \o <<x>>)[i] ELSE r[i - k]
    <3> DEFINE w == l \o <<x>>
    <3> HIDE DEF w
    <3>1. w \in Seq(Nat) /\ Len(w) = k
      BY <2>4 DEF w
    <3>4. /\ w \o r \in Seq(Nat) /\ Len(w \o r) = Len(w) + Len(r)
          /\ \A i \in 1 .. Len(w) + Len(r) : (w \o r)[i] = IF i <= Len(w) THEN w[i] ELSE r[i - Len(w)]
      BY <2>2, <3>1, ConcatProperties
    <3>5. Len(w) + Len(r) = n + 1
      BY <1>0, <2>2, <3>1
    <3>2. w \o r \in Seq(Nat) /\ Len(w \o r) = n + 1
      BY <3>4, <3>5
    <3>3. \A i \in 1 .. n + 1 : (w \o r)[i] = IF i <= k THEN w[i] ELSE r[i - k]
      BY <3>4, <3>5, <3>1
    <3> QED
      BY <3>2, <3>3 DEF w
  <2>6. ASSUME NEW i \in 1 .. n + 1 PROVE q[i] = IF i < k THEN o[i] ELSE IF i = k THEN x ELSE o[i - 1]
    <3>1. CASE i <= k
      <4>1. q[i] = (l \o <<x>>)[i]
        BY <2>3, <2>5, <3>1
      <4>3. i \in 1 .. k /\ (i < k => i \in 1 .. k - 1)
        BY <1>0, <3>1
      <4>2. q[i] = IF i < k THEN l[i] ELSE x
        BY <2>4, <4>1, <4>3
      <4> QED
        BY <1>0, <2>1, <3>1, <4>3, <4>2
    <3>2. CASE i > k
      <4>1. i - k \in 1 .. n - k + 1 /\ k + (i - k) - 1 = i - 1 /\ ~(i <= k) /\ ~(i < k) /\ i # k
        BY <1>0, <3>2
      <4>2. q[i] = r[i - k]
        BY <2>3, <2>5, <4>1
      <4>3. r[i - k] = o[k + (i - k) - 1]
        BY <2>2, <4>1
      <4> QED
        BY <4>1, <4>2, <4>3
    <3> QED
      BY <1>0, <3>1, <3>2
  <2> QED
    BY <2>3, <2>5, <2>6
<1> HIDE DEF q, n
<1>2. DOMAIN q = 1 .. n + 1
  BY <1>0, <1>1
<1>3. \A i \in 1 .. n : o[i] # x
  BY <1>0 DEF ToSet
<1>4. Ordered(q)
  <2>1. ASSUME NEW i \in 1 .. n + 1, NEW j \in 1 .. n + 1, q[i] = q[j] PROVE i = j
    <3> DEFINE Old(a) == IF a < k THEN a ELSE a - 1
    <3>1. \A a \in 1 .. n + 1 : a # k => Old(a) \in 1 .. n /\ q[a] = o[Old(a)]
      BY <1>0, <1>1
    <3>2. \A a \in 1 .. n + 1 : a # k => q[a] # x
      BY <1>3, <3>1
    <3>3. q[k] = x /\ k \in 1 .. n + 1
      BY <1>0, <1>1
    <3>4. CASE i # k /\ j # k
      <4>1. Old(i) = Old(j)
        BY <1>0, <2>1, <3>1, <3>4 DEF Ordered
      <4> QED
        BY <1>0, <3>4, <4>1
    <3>5. CASE i = k \/ j = k
      BY <2>1, <3>2, <3>3, <3>5
    <3> QED
      BY <3>4, <3>5
  <2> QED
    BY <1>1, <1>2, <2>1 DEF Ordered
<1>5. ASSUME NEW y \in ToSet(o)
      PROVE  y \in ToSet(q) /\ Place(q, y) = IF Place(o, y) < k THEN Place(o, y) ELSE Place(o, y) + 1
  <2> DEFINE p == Place(o, y)
             s == IF p < k THEN p ELSE p + 1
  <2>1. p \in 1 .. n /\ o[p] = y
    BY PlaceRight DEF n
  <2> HIDE DEF p
  <2>2. s \in 1 .. n + 1 /\ q[s] = y
    BY <1>0, <1>1, <2>1
  <2> HIDE DEF s
  <2>3. y \in ToSet(q) /\ Place(q, y) = s
    BY <1>2, <1>4, <2>2, PlaceOf
  <2> QED
    BY <2>3 DEF s, p
<1>6. \A y, z \in ToSet(o) : Place(q, y) < Place(q, z) <=> Place(o, y) < Place(o, z)
  <2>1. \A y \in ToSet(o) : Place(o, y) \in Nat
    BY PlaceRight
  <2>2. \A a, b \in Nat : (IF a < k THEN a ELSE a + 1) < (IF b < k THEN b ELSE b + 1) <=> a < b
    BY <1>0
  <2> QED
    BY <1>5, <2>1, <2>2
<1>7. ToSet(q) = ToSet(o) \cup {x}
  <2>1. x \in ToSet(q)
    <3>1. k \in DOMAIN q /\ q[k] = x
      BY <1>0, <1>1, <1>2
    <3> QED
      BY <3>1 DEF ToSet
  <2>2. ASSUME NEW i \in 1 .. n + 1 PROVE q[i] \in ToSet(o) \cup {x}
    <3>1. i < k => i \in DOMAIN o
      BY <1>0
    <3>2. i > k => i - 1 \in DOMAIN o
      BY <1>0
    <3>3. i < k \/ i > k \/ i = k
      BY <1>0
    <3> QED
      BY <1>1, <3>1, <3>2, <3>3 DEF ToSet
  <2>3. ToSet(q) \subseteq ToSet(o) \cup {x}
    BY <1>2, <2>2 DEF ToSet
  <2> QED
    BY <1>5, <2>1, <2>3
<1> QED
  BY <1>4, <1>5, <1>6, <1>7 DEF Alike, q
-----------------------------------------------------------------------------
(* The invariant of Cursors                                                *)

\* What a client may know of a text, a user's cursors, and what is on its way.
Chars(t) == ToSet(order[t])
TextChange == [kind : {"insert", "delete"}, text : Editor, item : Nat]
CursorList == Seq(Cursor) \cup {Nil}
State == [from : Client, cursors : CursorList]
OneRange == [anchor : Nat, head : Nat]

TextTypes ==
  /\ order \in [Editor -> Seq(Nat)]
  /\ has \in [Client -> SUBSET Nat] /\ gone \in [Client -> SUBSET Nat]
  /\ selection \in [Client -> [Editor -> Seq(OneRange)]]
  /\ used \in [{"type", "select", "focus"} -> Nat]
SentTypes ==
  /\ focus \in [Client -> Editor \cup {Nil}] /\ kept \in [Client -> Editor \cup {Nil}]
  /\ cursors \in [Client -> [Client -> CursorList]]
  /\ texts \in [Client -> Seq(TextChange)] /\ states \in [Client -> Seq(State)]

\* A character is in one place, and was counted; who has deleted it knew it.
TextInv ==
  /\ \A t, u \in Editor : \A i \in DOMAIN order[t], j \in DOMAIN order[u] :
       order[t][i] = order[u][j] => t = u /\ i = j
  /\ \A t \in Editor : \A x \in Chars(t) : x < FirstTyped + used["type"]
  /\ \A c \in Client : gone[c] \subseteq has[c] /\ \A x \in has[c] : x < FirstTyped + used["type"]

\* Every character and every deletion a client does not know is on its way,
\* a character once and before its deletion, which somebody has made.
On(q, i, kind, x) == i \in DOMAIN q /\ q[i].kind = kind /\ q[i].item = x
Owed(q, chars, known, erased, dead) ==
  /\ \A i \in DOMAIN q : q[i].item \in chars[q[i].text]
  /\ \A i, j, x : On(q, i, "insert", x) => x \notin known /\ (On(q, j, "insert", x) => j = i)
  /\ \A i, x : On(q, i, "delete", x) =>
       x \in dead /\ (x \in known \/ \E j : j < i /\ On(q, j, "insert", x))
  /\ \A t \in Editor : \A x \in chars[t] : x \in known \/ \E i : On(q, i, "insert", x)
  /\ \A x \in dead : x \in erased \/ \E i : On(q, i, "delete", x)
Dead == UNION {gone[c] : c \in Client}
PendingInv ==
  \A v \in Client : Owed(texts[v], [t \in Editor |-> Chars(t)], has[v], gone[v], Dead)

\* Selections are within their texts.
SelectionInv ==
  \A c \in Client, t \in Editor : \A k \in DOMAIN selection[c][t] :
    selection[c][t][k].anchor <= Length(c, t) /\ selection[c][t][k].head <= Length(c, t)

\* All cursors a user has published at a time are of one text, with characters
\* of it, and are sent to others only.
OfText(p) == p.item \in Chars(p.text) \cup {AtEnd}
ListRight(s) ==
  s # Nil =>
    \A k \in DOMAIN s :
      /\ OfText(s[k].anchor) /\ OfText(s[k].head) /\ s[k].anchor.text = s[k].head.text
      /\ \A l \in DOMAIN s : s[k].head.text = s[l].head.text
CursorListInv ==
  \A v \in Client :
    /\ \A c \in Client : ListRight(cursors[v][c])
    /\ \A i \in DOMAIN states[v] : states[v][i].from # v /\ ListRight(states[v][i].cursors)

\* Who has stayed in an editor has published what he selects there.
KeptInv ==
  \A c \in Client : kept[c] # Nil => kept[c] = focus[c] /\ cursors[c][c] = Published(c, kept[c])

\* The last a client hears of a user, or has heard, is what that has published.
From(v, c) == {i \in DOMAIN states[v] : states[v][i].from = c}
LastInv ==
  \A c, v \in Client : c # v =>
    /\ From(v, c) = {} => cursors[v][c] = cursors[c][c]
    /\ \A i \in From(v, c) : (\A j \in From(v, c) : j <= i) => states[v][i].cursors = cursors[c][c]

\* What is drawn is up to date with what the client knows.
DrawnInv == shown = [c \in Client |-> [t \in Editor |-> Markers(c, t)]]

CursorsInv ==
  /\ TextTypes /\ SentTypes /\ TextInv /\ PendingInv /\ SelectionInv /\ CursorListInv /\ KeptInv /\ LastInv /\ DrawnInv

LEMMA TextsOrdered ==
  ASSUME TextTypes, TextInv, NEW c, NEW t \in Editor
  PROVE  /\ Ordered(order[t]) /\ Visible(c, t) \in SUBSET Chars(t) /\ Length(c, t) \in Nat
         /\ \A x : Index(c, t, x) \in 0 .. Length(c, t)
         /\ \A x \in Visible(c, t) : Index(c, t, x) < Length(c, t)
         /\ \A i \in Nat : i < Length(c, t) => Char(c, t, i) \in Visible(c, t)
<1>1. Ordered(order[t])
  BY DEF Ordered, TextTypes, TextInv
<1>2. Visible(c, t) \in SUBSET ToSet(order[t])
  BY DEF Visible
<1>3. /\ Cardinality(Visible(c, t)) \in Nat
      /\ \A x : Before(order[t], Visible(c, t), x) \in 0 .. Cardinality(Visible(c, t))
      /\ \A x \in Visible(c, t) : Before(order[t], Visible(c, t), x) < Cardinality(Visible(c, t))
  BY <1>1, <1>2, BeforeRight, TextFinite
<1>4. \A i \in Nat : i < Cardinality(Visible(c, t)) => Nth(order[t], Visible(c, t), i) \in Visible(c, t)
  BY <1>1, <1>2, NthRight
<1> QED
  BY <1>1, <1>2, <1>3, <1>4 DEF Length, Index, Char, Chars

\* A client sees a text after a step as before.
SameView(v, t) ==
  /\ Alike(order[t], order'[t]) /\ Visible(v, t)' = Visible(v, t)
  /\ \A x \in Chars(t) : x \in has'[v] <=> x \in has[v]

LEMMA SameViewRight ==
  ASSUME NEW v, NEW t \in Editor, SameView(v, t)
  PROVE  /\ Length(v, t)' = Length(v, t)
         /\ \A x \in Chars(t) : Index(v, t, x)' = Index(v, t, x)
         /\ \A i \in Nat : i < Length(v, t) => Char(v, t, i)' = Char(v, t, i)
<1>1. Visible(v, t) \in SUBSET ToSet(order[t])
  BY DEF Visible
<1>2. /\ \A x \in ToSet(order[t]) :
           Before(order'[t], Visible(v, t), x) = Before(order[t], Visible(v, t), x)
      /\ \A i \in Nat : i < Cardinality(Visible(v, t)) =>
           Nth(order'[t], Visible(v, t), i) = Nth(order[t], Visible(v, t), i)
  BY <1>1, AlikeSame DEF SameView
<1>3. Visible(v, t)' = Visible(v, t)
  BY DEF SameView
<1> QED
  BY <1>2, <1>3 DEF Length, Index, Char, Chars

\* A position is where it was.
LEMMA PositionSame ==
  ASSUME NEW v, NEW t \in Editor, SameView(v, t), NEW p, p.text = t, OfText(p)
  PROVE  (Known(v, p)' <=> Known(v, p)) /\ Absolute(v, p)' = Absolute(v, p)
<1>1. CASE p.item = AtEnd
  BY <1>1, SameViewRight DEF Known, Absolute
<1>2. CASE p.item # AtEnd
  <2>1. p.item \in Chars(t)
    BY <1>2 DEF OfText
  <2>2. p.item \in has'[v] <=> p.item \in has[v]
    BY <2>1 DEF SameView
  <2>3. Index(v, t, p.item)' = Index(v, t, p.item)
    BY <2>1, SameViewRight
  <2> QED
    BY <1>2, <2>2, <2>3 DEF Known, Absolute
<1> QED
  BY <1>1, <1>2

LEMMA PublishedSame ==
  ASSUME TextTypes, TextInv, SelectionInv, NEW c \in Client, NEW t \in Editor, SameView(c, t),
         selection'[c][t] = selection[c][t]
  PROVE  Published(c, t)' = Published(c, t)
<1> DEFINE s == selection[c][t]
<1>1. s \in Seq(OneRange) /\ DOMAIN s = 1 .. Len(s)
  BY LenProperties DEF TextTypes
<1>2. ASSUME NEW i \in Nat, i <= Length(c, t) PROVE Relative(c, t, i)' = Relative(c, t, i)
  <2>1. Length(c, t)' = Length(c, t) /\ Length(c, t) \in Nat
    BY SameViewRight, TextsOrdered
  <2>2. i # Length(c, t) => Char(c, t, i)' = Char(c, t, i)
    BY <1>2, <2>1, SameViewRight
  <2> QED
    BY <2>1, <2>2 DEF Relative
<1>3. ASSUME NEW k \in DOMAIN s
      PROVE  /\ Relative(c, t, s[k].anchor)' = Relative(c, t, s[k].anchor)
             /\ Relative(c, t, s[k].head)' = Relative(c, t, s[k].head)
  <2>1. s[k] \in OneRange
    BY <1>1
  <2>2. /\ s[k].anchor \in Nat /\ s[k].anchor <= Length(c, t)
        /\ s[k].head \in Nat /\ s[k].head <= Length(c, t)
    BY <2>1 DEF SelectionInv, OneRange
  <2>3. selection'[c][t] = s
    OBVIOUS
  <2> QED
    BY <1>2, <2>2, <2>3
<1> QED
  BY <1>3 DEF Published

LEMMA DrawnSame ==
  ASSUME NEW v, NEW t \in Editor, SameView(v, t), NEW c, NEW s \in Seq(Cursor), Nil \notin Seq(Cursor),
         ListRight(s)
  PROVE  CaretsOf(v, t, c, s)' = CaretsOf(v, t, c, s) /\ SelectionsOf(v, t, c, s)' = SelectionsOf(v, t, c, s)
<1>1. ASSUME NEW k \in DOMAIN s
      PROVE  /\ Here(v, t, s[k])' <=> Here(v, t, s[k])
             /\ Here(v, t, s[k]) => /\ Absolute(v, s[k].head)' = Absolute(v, s[k].head)
                                    /\ Absolute(v, s[k].anchor)' = Absolute(v, s[k].anchor)
  <2> DEFINE a == s[k].anchor
             h == s[k].head
  <2>1. OfText(a) /\ OfText(h) /\ a.text = h.text
    BY DEF ListRight
  <2>2. CASE h.text = t
    <3>1. /\ (Known(v, a)' <=> Known(v, a)) /\ Absolute(v, a)' = Absolute(v, a)
          /\ (Known(v, h)' <=> Known(v, h)) /\ Absolute(v, h)' = Absolute(v, h)
      BY <2>1, <2>2, PositionSame
    <3> QED
      BY <3>1 DEF Here, Resolved
  <2>3. CASE h.text # t
    BY <2>3 DEF Here, Resolved
  <2> QED
    BY <2>2, <2>3
<1>2. DOMAIN s = 1 .. Len(s) /\ Len(s) \in Nat
  BY LenProperties
<1>3. ASSUME NEW i \in DOMAIN s
      PROVE  /\ (\A j \in 1 .. i : Here(v, t, s[j]))' <=> \A j \in 1 .. i : Here(v, t, s[j])
             /\ (\A j \in 1 .. i : WideHere(v, t, s[j]))' <=> \A j \in 1 .. i : WideHere(v, t, s[j])
             /\ (\A j \in 1 .. i : Here(v, t, s[j])) => Here(v, t, s[i])
             /\ (\A j \in 1 .. i : WideHere(v, t, s[j])) => Here(v, t, s[i])
  <2>1. 1 .. i \subseteq DOMAIN s /\ i \in 1 .. i
    BY <1>2
  <2> QED
    BY <1>1, <2>1 DEF WideHere
<1>4. CaretsOf(v, t, c, s)' = CaretsOf(v, t, c, s)
  <2> DEFINE I == {i \in DOMAIN s : \A j \in 1 .. i : Here(v, t, s[j])}
  <2>1. I' = I
    BY <1>3
  <2>2. \A i \in I : Absolute(v, s[i].head)' = Absolute(v, s[i].head)
    BY <1>1, <1>3
  <2>3. CaretsOf(v, t, c, s)' = {[client |-> c, head |-> Absolute(v, s[i].head)'] : i \in I'}
    BY DEF CaretsOf
  <2>4. CaretsOf(v, t, c, s) = {[client |-> c, head |-> Absolute(v, s[i].head)] : i \in I}
    BY DEF CaretsOf
  <2> HIDE DEF I
  <2> QED
    BY <2>1, <2>2, <2>3, <2>4
<1>5. SelectionsOf(v, t, c, s)' = SelectionsOf(v, t, c, s)
  <2> DEFINE I == {i \in DOMAIN s : \A j \in 1 .. i : WideHere(v, t, s[j])}
  <2>1. I' = I
    BY <1>3
  <2>2. \A i \in I : /\ Absolute(v, s[i].head)' = Absolute(v, s[i].head)
                     /\ Absolute(v, s[i].anchor)' = Absolute(v, s[i].anchor)
    BY <1>1, <1>3
  <2>3. SelectionsOf(v, t, c, s)' =
          {[client |-> c, anchor |-> Absolute(v, s[i].anchor)', head |-> Absolute(v, s[i].head)'] : i \in I'}
    BY DEF SelectionsOf
  <2>4. SelectionsOf(v, t, c, s) =
          {[client |-> c, anchor |-> Absolute(v, s[i].anchor), head |-> Absolute(v, s[i].head)] : i \in I}
    BY DEF SelectionsOf
  <2> HIDE DEF I
  <2> QED
    BY <2>1, <2>2, <2>3, <2>4
<1> QED
  BY <1>4, <1>5

LEMMA MarkersSame ==
  ASSUME SentTypes, CursorListInv, NEW v \in Client, NEW t \in Editor, SameView(v, t),
         \A d \in Client \ {v} : cursors'[v][d] = cursors[v][d]
  PROVE  Markers(v, t)' = Markers(v, t)
<1>1. Others(v)' = Others(v)
  BY DEF Others
<1>2. ASSUME NEW c \in Others(v)
      PROVE  /\ CaretsOf(v, t, c, cursors[v][c])' = CaretsOf(v, t, c, cursors[v][c])
             /\ SelectionsOf(v, t, c, cursors[v][c])' = SelectionsOf(v, t, c, cursors[v][c])
  <2>1. /\ cursors'[v][c] = cursors[v][c] /\ cursors[v][c] \in Seq(Cursor) /\ ListRight(cursors[v][c])
    BY DEF Others, CursorListInv, SentTypes, CursorList
  <2>2. \A s \in Seq(Cursor) : ListRight(s) =>
          CaretsOf(v, t, c, s)' = CaretsOf(v, t, c, s) /\ SelectionsOf(v, t, c, s)' = SelectionsOf(v, t, c, s)
    BY NilAssumption, DrawnSame
  <2> QED
    BY <2>1, <2>2
<1>3. Carets(v, t)' = Carets(v, t)
  BY <1>1, <1>2 DEF Carets
<1>4. Selections(v, t)' = Selections(v, t)
  BY <1>1, <1>2 DEF Selections
<1> QED
  BY <1>3, <1>4 DEF Markers

\* What an editor publishes is a list of cursors of its text.
LEMMA PublishedRight ==
  TextTypes /\ TextInv /\ SelectionInv =>
    \A c \in Client, t \in Editor : \A l : l = Published(c, t) => l \in Seq(Cursor) /\ ListRight(l)
<1> SUFFICES ASSUME TextTypes, TextInv, SelectionInv, NEW c \in Client, NEW t \in Editor
             PROVE  Published(c, t) \in Seq(Cursor) /\ ListRight(Published(c, t))
  OBVIOUS
<1> DEFINE s == selection[c][t]
           p == Published(c, t)
<1>1. s \in Seq(OneRange) /\ DOMAIN s = 1 .. Len(s) /\ Len(s) \in Nat
  BY LenProperties DEF TextTypes
<1>2. ASSUME NEW i \in Nat, i <= Length(c, t)
      PROVE  Relative(c, t, i) \in Position /\ Relative(c, t, i).text = t /\ OfText(Relative(c, t, i))
  <2>1. /\ Length(c, t) \in Nat /\ Chars(t) \subseteq Nat
        /\ i < Length(c, t) => Char(c, t, i) \in Chars(t)
    <3>1. Ordered(order[t]) /\ Visible(c, t) \in SUBSET Chars(t) /\ Length(c, t) \in Nat
      BY TextsOrdered
    <3>2. i < Length(c, t) => Char(c, t, i) \in Visible(c, t)
      BY TextsOrdered
    <3>3. Chars(t) \subseteq Nat
      BY <3>1, PlaceRight DEF Chars
    <3> QED
      BY <3>1, <3>2, <3>3
  <2>2. i = Length(c, t) \/ i < Length(c, t)
    BY <1>2, <2>1
  <2> QED
    BY <2>1, <2>2 DEF Relative, Position, OfText
<1>3. ASSUME NEW k \in DOMAIN s
      PROVE  /\ p[k] \in Cursor /\ OfText(p[k].anchor) /\ OfText(p[k].head)
             /\ p[k].anchor.text = t /\ p[k].head.text = t
  <2>1. s[k] \in OneRange
    BY <1>1
  <2>2. /\ s[k].anchor \in Nat /\ s[k].anchor <= Length(c, t)
        /\ s[k].head \in Nat /\ s[k].head <= Length(c, t)
    BY <2>1 DEF SelectionInv, OneRange
  <2>3. p[k] = [anchor |-> Relative(c, t, s[k].anchor), head |-> Relative(c, t, s[k].head),
                empty |-> s[k].anchor = s[k].head]
    BY DEF Published
  <2>4. /\ Relative(c, t, s[k].anchor) \in Position /\ Relative(c, t, s[k].anchor).text = t
        /\ OfText(Relative(c, t, s[k].anchor))
        /\ Relative(c, t, s[k].head) \in Position /\ Relative(c, t, s[k].head).text = t
        /\ OfText(Relative(c, t, s[k].head))
    BY <1>2, <2>2
  <2>5. (s[k].anchor = s[k].head) \in BOOLEAN
    OBVIOUS
  <2> HIDE DEF p
  <2>6. p[k] \in Cursor
    BY <2>3, <2>4, <2>5 DEF Cursor
  <2> QED
    BY <2>3, <2>4, <2>6
<1>4. DOMAIN p = 1 .. Len(s) /\ p = [k \in 1 .. Len(s) |-> p[k]]
  BY <1>1 DEF Published
<1> HIDE DEF p
<1>5. p \in Seq(Cursor)
  <2>1. \A k \in 1 .. Len(s) : p[k] \in Cursor
    BY <1>1, <1>3
  <2>2. p \in [1 .. Len(s) -> Cursor]
    BY <1>4, <2>1
  <2> QED
    BY <1>1, <2>2, IsASeq
<1>6. ListRight(p)
  BY <1>1, <1>3, <1>4 DEF ListRight
<1> QED
  BY <1>5, <1>6 DEF p

LEMMA PublishedRightNext ==
  TextTypes' /\ TextInv' /\ SelectionInv' =>
    (\A c \in Client, t \in Editor : \A l : l = Published(c, t) => l \in Seq(Cursor) /\ ListRight(l))'
BY PublishedRight, PTL

\* A list stays right while characters are added.
LEMMA ListRightKept ==
  ASSUME \A t \in Editor : Chars(t) \subseteq Chars(t)', NEW s \in CursorList, ListRight(s)
  PROVE  ListRight(s)'
<1> SUFFICES ASSUME s # Nil PROVE ListRight(s)'
  BY DEF ListRight
<1>1. s \in Seq(Cursor) /\ DOMAIN s = 1 .. Len(s)
  BY LenProperties DEF CursorList
<1>2. \A p \in Position : OfText(p) => OfText(p)'
  BY DEF OfText, Position
<1>3. \A k \in DOMAIN s : s[k].anchor \in Position /\ s[k].head \in Position
  <2>1. \A k \in DOMAIN s : s[k] \in Cursor
    BY <1>1
  <2> QED
    BY <2>1 DEF Cursor
<1> QED
  BY <1>2, <1>3 DEF ListRight

\* One more list of cursors is the last that all others get of its user.
LEMMA SentLast ==
  ASSUME NEW c \in Client, NEW d \in Client, NEW v \in Client, d # v, SentTypes, LastInv, NEW l,
         states' = Sent(states, c, [from |-> c, cursors |-> l]),
         cursors' = [cursors EXCEPT ![c][c] = l]
  PROVE  /\ From(v, d)' = {} => cursors'[v][d] = cursors'[d][d]
         /\ \A i \in From(v, d)' : (\A j \in From(v, d)' : j <= i) => states'[v][i].cursors = cursors'[d][d]
<1> DEFINE q == states[v]
           m == [from |-> c, cursors |-> l]
<1>1. /\ q \in Seq(State) /\ DOMAIN q = 1 .. Len(q) /\ Len(q) \in Nat
      /\ states'[v] = IF v = c THEN q ELSE Append(q, m)
  BY LenProperties DEF SentTypes, Sent
<1>2. /\ \A a, b \in Client : cursors'[a][b] = IF a = c /\ b = c THEN l ELSE cursors[a][b]
  BY DEF SentTypes
<1>3. /\ From(v, d) = {} => cursors[v][d] = cursors[d][d]
      /\ \A i \in From(v, d) : (\A j \in From(v, d) : j <= i) => q[i].cursors = cursors[d][d]
  BY DEF LastInv
<1>4. CASE v = c
  <2>1. states'[v] = q /\ From(v, d)' = From(v, d)
    BY <1>1, <1>4 DEF From
  <2> QED
    BY <1>2, <1>3, <1>4, <2>1
<1>5. CASE v # c
  <2> DEFINE n == Len(q)
  <2>1. /\ states'[v] = Append(q, m) /\ Len(Append(q, m)) = n + 1
        /\ DOMAIN Append(q, m) = 1 .. n + 1
        /\ Append(q, m)[n + 1] = m /\ \A i \in 1 .. n : Append(q, m)[i] = q[i]
    BY <1>1, <1>5
  <2>2. CASE d = c
    <3>1. n + 1 \in From(v, d)' /\ \A i \in From(v, d)' : i \in 1 .. n + 1
      BY <1>1, <2>1, <2>2 DEF From
    <3>2. ASSUME NEW i \in From(v, d)', \A j \in From(v, d)' : j <= i PROVE i = n + 1
      BY <1>1, <3>1, <3>2
    <3> QED
      BY <1>2, <2>1, <2>2, <3>1, <3>2
  <2>3. CASE d # c
    <3>1. From(v, d)' = From(v, d)
      BY <1>1, <2>1, <2>3 DEF From
    <3>2. \A i \in From(v, d) : states'[v][i] = q[i]
      BY <1>1, <2>1 DEF From
    <3> QED
      BY <1>2, <1>3, <1>5, <2>3, <3>1, <3>2
  <2> QED
    BY <2>2, <2>3
<1> QED
  BY <1>4, <1>5

LEMMA SentType ==
  ASSUME NEW c \in Client, NEW S, NEW q \in [Client -> Seq(S)], NEW m \in S
  PROVE  /\ Sent(q, c, m) \in [Client -> Seq(S)]
         /\ \A v \in Client : Sent(q, c, m)[v] = IF v = c THEN q[v] ELSE Append(q[v], m)
         /\ \A v \in Client \ {c} :
              /\ DOMAIN q[v] = 1 .. Len(q[v]) /\ Len(q[v]) \in Nat
              /\ DOMAIN Sent(q, c, m)[v] = 1 .. Len(q[v]) + 1
              /\ Sent(q, c, m)[v][Len(q[v]) + 1] = m
              /\ \A i \in 1 .. Len(q[v]) : Sent(q, c, m)[v][i] = q[v][i]
<1>1. \A v \in Client : Sent(q, c, m)[v] = IF v = c THEN q[v] ELSE Append(q[v], m)
  BY DEF Sent
<1>2. ASSUME NEW v \in Client \ {c}
      PROVE  /\ DOMAIN q[v] = 1 .. Len(q[v]) /\ Len(q[v]) \in Nat
             /\ DOMAIN Append(q[v], m) = 1 .. Len(q[v]) + 1
             /\ Append(q[v], m)[Len(q[v]) + 1] = m
             /\ \A i \in 1 .. Len(q[v]) : Append(q[v], m)[i] = q[v][i]
             /\ Append(q[v], m) \in Seq(S)
  <2>1. q[v] \in Seq(S) /\ DOMAIN q[v] = 1 .. Len(q[v]) /\ Len(q[v]) \in Nat
    BY LenProperties
  <2> QED
    BY <2>1, AppendProperties
<1>3. Sent(q, c, m) \in [Client -> Seq(S)]
  BY <1>1, <1>2 DEF Sent
<1> QED
  BY <1>1, <1>2, <1>3

\* A list of cursors that is right, told to all others.
LEMMA TellStep ==
  ASSUME SentTypes, CursorListInv, LastInv, NEW c \in Client, NEW p \in CursorList, ListRight(p)',
         \A u \in Editor : Chars(u) \subseteq Chars(u)',
         states' = Sent(states, c, [from |-> c, cursors |-> p]), cursors' = [cursors EXCEPT ![c][c] = p]
  PROVE  /\ CursorListInv' /\ LastInv'
         /\ states' \in [Client -> Seq(State)] /\ cursors' \in [Client -> [Client -> CursorList]]
         /\ \A v, d \in Client : cursors'[v][d] = IF v = c /\ d = c THEN p ELSE cursors[v][d]
<1> DEFINE m == [from |-> c, cursors |-> p]
<1>1. states \in [Client -> Seq(State)] /\ cursors \in [Client -> [Client -> CursorList]]
  BY DEF SentTypes
<1>2. m \in State
  BY DEF State
<1> HIDE DEF m
<1>3. /\ states' \in [Client -> Seq(State)]
      /\ \A v \in Client : states'[v] = IF v = c THEN states[v] ELSE Append(states[v], m)
      /\ \A v \in Client \ {c} :
           /\ DOMAIN states[v] = 1 .. Len(states[v]) /\ Len(states[v]) \in Nat
           /\ DOMAIN states'[v] = 1 .. Len(states[v]) + 1
           /\ states'[v][Len(states[v]) + 1] = m
           /\ \A i \in 1 .. Len(states[v]) : states'[v][i] = states[v][i]
  <2> DEFINE q == Sent(states, c, m)
  <2>1. /\ q \in [Client -> Seq(State)]
        /\ \A v \in Client : q[v] = IF v = c THEN states[v] ELSE Append(states[v], m)
        /\ \A v \in Client \ {c} :
             /\ DOMAIN states[v] = 1 .. Len(states[v]) /\ Len(states[v]) \in Nat
             /\ DOMAIN q[v] = 1 .. Len(states[v]) + 1
             /\ q[v][Len(states[v]) + 1] = m
             /\ \A i \in 1 .. Len(states[v]) : q[v][i] = states[v][i]
    <3>1. states \in [Client -> Seq(State)]
      BY <1>1
    <3>2. q \in [Client -> Seq(State)]
      BY <1>2, <3>1, SentType
    <3>3. \A v \in Client : q[v] = IF v = c THEN states[v] ELSE Append(states[v], m)
      BY DEF Sent
    <3>4. ASSUME NEW v \in Client \ {c}
          PROVE  /\ DOMAIN states[v] = 1 .. Len(states[v]) /\ Len(states[v]) \in Nat
                 /\ DOMAIN q[v] = 1 .. Len(states[v]) + 1
                 /\ q[v][Len(states[v]) + 1] = m
                 /\ \A i \in 1 .. Len(states[v]) : q[v][i] = states[v][i]
      BY <1>2, <3>1, SentType
    <3> QED
      BY <3>2, <3>3, <3>4
  <2>2. states' = q
    BY DEF m
  <2> HIDE DEF q
  <2> QED
    BY <2>1, <2>2
<1>4. /\ cursors' \in [Client -> [Client -> CursorList]]
      /\ \A v, d \in Client : cursors'[v][d] = IF v = c /\ d = c THEN p ELSE cursors[v][d]
  BY <1>1
<1>5. CursorListInv'
  <2>1. ASSUME NEW s \in CursorList, ListRight(s) PROVE ListRight(s)'
    BY <2>1, ListRightKept
  <2>2. ASSUME NEW v \in Client, NEW d \in Client PROVE ListRight(cursors[v][d])'
    <3>1. ListRight(cursors[v][d]) /\ cursors[v][d] \in CursorList
      BY <1>1 DEF CursorListInv
    <3>2. \A s \in CursorList : ListRight(s) => ListRight(s)'
      BY <2>1
    <3>3. CASE v = c /\ d = c
      BY <1>4, <3>3
    <3>4. CASE ~(v = c /\ d = c)
      <4>1. cursors'[v][d] = cursors[v][d]
        BY <1>4, <3>4
      <4> QED
        BY <3>1, <3>2, <4>1
    <3> QED
      BY <3>3, <3>4
  <2>3. ASSUME NEW v \in Client, NEW i \in DOMAIN states'[v]
        PROVE  states'[v][i].from # v /\ ListRight(states[v][i].cursors)'
    <3>1. CASE v = c \/ i # Len(states[v]) + 1
      <4>1. states'[v][i] = states[v][i] /\ i \in DOMAIN states[v]
        <5>1. CASE v = c
          BY <1>3, <5>1
        <5>2. CASE v # c
          <6>1. i \in 1 .. Len(states[v])
            BY <1>3, <3>1, <5>2
          <6> QED
            BY <1>3, <5>2, <6>1
        <5> QED
          BY <5>1, <5>2
      <4>2. states[v][i] \in State
        BY <1>1, <4>1
      <4>3. states[v][i].cursors \in CursorList /\ ListRight(states[v][i].cursors) /\ states[v][i].from # v
        BY <4>1, <4>2 DEF State, CursorListInv
      <4> QED
        BY <2>1, <4>1, <4>3
    <3>2. CASE v # c /\ i = Len(states[v]) + 1
      <4>1. states'[v][i].cursors = p /\ states'[v][i].from = c
        BY <1>3, <3>2 DEF m
      <4> QED
        BY <3>2, <4>1
    <3> QED
      BY <3>1, <3>2
  <2> QED
    BY <2>2, <2>3 DEF CursorListInv
<1>6. LastInv'
  <2>1. ASSUME NEW d \in Client, NEW v \in Client, d # v
        PROVE  /\ From(v, d)' = {} => cursors'[v][d] = cursors'[d][d]
               /\ \A i \in From(v, d)' : (\A j \in From(v, d)' : j <= i) =>
                    states'[v][i].cursors = cursors'[d][d]
    BY <2>1, SentLast
  <2> QED
    BY <2>1 DEF LastInv
<1> QED
  BY <1>3, <1>4, <1>5, <1>6

\* What an update of an editor publishes is what the invariant asks for.
LEMMA UpdateStep ==
  ASSUME SentTypes, CursorListInv, KeptInv, LastInv, TextTypes', TextInv', SelectionInv',
         NEW c \in Client, NEW t \in Editor, NEW own, Update(c, t, own), focus' = focus,
         texts' \in [Client -> Seq(TextChange)],
         \A u \in Editor : Chars(u) \subseteq Chars(u)',
         \A d \in Client, u \in Editor : d # c \/ u # t => Published(d, u)' = Published(d, u)
  PROVE  /\ SentTypes' /\ CursorListInv' /\ KeptInv' /\ LastInv'
         /\ \A v \in Client : \A d \in Client \ {v} : cursors'[v][d] = cursors[v][d]
<1> DEFINE p == Published(c, t)'
<1>1. p \in Seq(Cursor) /\ \A s : s = p => ListRight(s)'
  BY PublishedRightNext
<1>2. /\ states \in [Client -> Seq(State)] /\ cursors \in [Client -> [Client -> CursorList]]
      /\ focus \in [Client -> Editor \cup {Nil}] /\ kept \in [Client -> Editor \cup {Nil}]
      /\ Nil \notin Editor
  BY NilAssumption DEF SentTypes
<1>3. kept' = IF focus[c] = t THEN [kept EXCEPT ![c] = t] ELSE kept
  BY DEF Update, DocChanged
<1>4. CASE focus[c] = t /\ cursors[c][c] # p
  <2>1. states' = Sent(states, c, [from |-> c, cursors |-> p]) /\ cursors' = [cursors EXCEPT ![c][c] = p]
    BY <1>4 DEF Update, DocChanged
  <2>2. \A l \in CursorList :
          /\ ListRight(l)' /\ states' = Sent(states, c, [from |-> c, cursors |-> l])
          /\ cursors' = [cursors EXCEPT ![c][c] = l]
          => /\ CursorListInv' /\ LastInv'
             /\ states' \in [Client -> Seq(State)] /\ cursors' \in [Client -> [Client -> CursorList]]
             /\ \A v, d \in Client : cursors'[v][d] = IF v = c /\ d = c THEN l ELSE cursors[v][d]
    BY TellStep
  <2> HIDE DEF p
  <2>3. p \in CursorList /\ \A l : l = p => ListRight(l)'
    BY <1>1 DEF CursorList
  <2>4. /\ CursorListInv' /\ LastInv'
        /\ states' \in [Client -> Seq(State)] /\ cursors' \in [Client -> [Client -> CursorList]]
        /\ \A v, d \in Client : cursors'[v][d] = IF v = c /\ d = c THEN p ELSE cursors[v][d]
    BY <2>1, <2>2, <2>3
  <2>5. SentTypes'
    BY <1>2, <1>3, <2>4 DEF SentTypes
  <2>6. KeptInv'
    <3> SUFFICES ASSUME NEW d \in Client, kept'[d] # Nil
                 PROVE  kept'[d] = focus'[d] /\ cursors'[d][d] = Published(d, kept[d])'
      BY DEF KeptInv
    <3>1. CASE d = c
      <4>1. kept'[d] = t
        BY <1>2, <1>3, <1>4, <3>1
      <4> QED
        BY <1>4, <2>4, <3>1, <4>1 DEF p
    <3>2. CASE d # c
      <4>1. kept'[d] = kept[d] /\ kept[d] \in Editor
        BY <1>2, <1>3, <3>2
      <4>2. Published(d, kept[d])' = Published(d, kept[d])
        BY <3>2, <4>1
      <4> QED
        BY <2>4, <3>2, <4>1, <4>2 DEF KeptInv
    <3> QED
      BY <3>1, <3>2
  <2> QED
    BY <2>4, <2>5, <2>6
<1>5. CASE ~(focus[c] = t /\ cursors[c][c] # p)
  <2>1. states' = states /\ cursors' = cursors
    BY <1>5 DEF Update, DocChanged
  <2>2. SentTypes'
    BY <1>2, <1>3, <2>1 DEF SentTypes
  <2>3. CursorListInv'
    <3>1. ASSUME NEW s \in CursorList, ListRight(s) PROVE ListRight(s)'
      BY <3>1, ListRightKept
    <3>2. ASSUME NEW v \in Client, NEW d \in Client PROVE ListRight(cursors[v][d])'
      <4>1. ListRight(cursors[v][d]) /\ cursors[v][d] \in CursorList
        BY <1>2 DEF CursorListInv
      <4> QED
        BY <2>1, <3>1, <4>1
    <3>3. ASSUME NEW v \in Client, NEW i \in DOMAIN states[v]
          PROVE  states[v][i].from # v /\ ListRight(states[v][i].cursors)'
      <4>1. states[v][i] \in State
        BY <1>2
      <4>2. states[v][i].cursors \in CursorList /\ ListRight(states[v][i].cursors) /\ states[v][i].from # v
        BY <4>1 DEF State, CursorListInv
      <4> QED
        BY <2>1, <3>1, <4>2
    <3> QED
      BY <2>1, <3>2, <3>3 DEF CursorListInv
  <2>4. KeptInv'
    <3> SUFFICES ASSUME NEW d \in Client, kept'[d] # Nil
                 PROVE  kept'[d] = focus'[d] /\ cursors'[d][d] = Published(d, kept[d])'
      BY DEF KeptInv
    <3>1. CASE d = c /\ focus[c] = t
      <4>1. kept'[d] = t
        BY <1>2, <1>3, <3>1
      <4> QED
        BY <1>5, <2>1, <3>1, <4>1
    <3>2. CASE ~(d = c /\ focus[c] = t)
      <4>1. kept'[d] = kept[d] /\ kept[d] \in Editor
        BY <1>2, <1>3, <3>2
      <4>2. kept[d] = focus[d] /\ cursors[d][d] = Published(d, kept[d])
        BY <3>2, <4>1 DEF KeptInv
      <4>3. Published(d, kept[d])' = Published(d, kept[d])
        BY <3>2, <4>1, <4>2
      <4> QED
        BY <2>1, <4>1, <4>2, <4>3
    <3> QED
      BY <3>1, <3>2
  <2>5. LastInv'
    <3>1. \A v, d \in Client : From(v, d)' = From(v, d)
      BY <2>1 DEF From
    <3> QED
      BY <2>1, <3>1 DEF LastInv
  <2> QED
    BY <2>1, <2>2, <2>3, <2>4, <2>5
<1> QED
  BY <1>4, <1>5

\* A character x of a text has come or gone at a client; all others, and its
\* other editors, see what they saw.
Changed(c, t, x) ==
  /\ \A u \in Editor : Alike(order[u], order'[u]) /\ (u # t => order'[u] = order[u])
  /\ x \in Chars(t)'
  /\ \A y \in Chars(t)' : y \in Chars(t) \/ (y = x /\ \A v \in Client \ {c} : x \notin has[v])
  /\ \A v \in Client \ {c} : has'[v] = has[v] /\ gone'[v] = gone[v]
  /\ \A y : y # x => (y \in has'[c] <=> y \in has[c]) /\ (y \in gone'[c] <=> y \in gone[c])

LEMMA ChangedViews ==
  ASSUME NEW c \in Client, NEW t \in Editor, NEW x, Changed(c, t, x), TextInv', NEW v \in Client, NEW u \in Editor,
         v # c \/ u # t
  PROVE  SameView(v, u)
<1>1. Alike(order[u], order'[u]) /\ ToSet(order[u]) \subseteq ToSet(order'[u])
  BY DEF Changed, Alike
<1>2. CASE v # c
  <2>1. has'[v] = has[v] /\ gone'[v] = gone[v]
    BY <1>2 DEF Changed
  <2>2. \A y \in ToSet(order'[u]) : y \in ToSet(order[u]) \/ y \notin has[v]
    BY <1>2 DEF Changed, Chars
  <2>3. Visible(v, u)' = Visible(v, u)
    BY <1>1, <2>1, <2>2 DEF Visible
  <2> QED
    BY <1>1, <2>1, <2>3 DEF SameView
<1>3. CASE v = c /\ u # t
  <2>1. order'[u] = order[u]
    BY <1>3 DEF Changed
  <2>2. x \notin ToSet(order[u])
    <3> SUFFICES ASSUME x \in ToSet(order[u]) PROVE FALSE
      OBVIOUS
    <3>1. x \in ToSet(order'[u]) /\ x \in ToSet(order'[t])
      BY <2>1 DEF Changed, Chars
    <3>2. PICK i \in DOMAIN order'[u] : order'[u][i] = x
      BY <3>1 DEF ToSet
    <3>3. PICK j \in DOMAIN order'[t] : order'[t][j] = x
      BY <3>1 DEF ToSet
    <3> QED
      BY <1>3, <3>2, <3>3 DEF TextInv
  <2>3. \A y \in ToSet(order[u]) : (y \in has'[c] <=> y \in has[c]) /\ (y \in gone'[c] <=> y \in gone[c])
    BY <2>2 DEF Changed
  <2>4. Visible(c, u)' = Visible(c, u)
    BY <2>1, <2>3 DEF Visible
  <2> QED
    BY <1>1, <1>3, <2>3, <2>4 DEF SameView, Chars
<1> QED
  BY <1>2, <1>3

LEMMA DrawStep ==
  ASSUME DrawnInv, SentTypes, CursorListInv, NEW c \in Client, NEW t \in Editor, Draw(c, {t}),
         \A v \in Client, u \in Editor : v # c \/ u # t => SameView(v, u),
         \A v \in Client : \A d \in Client \ {v} : cursors'[v][d] = cursors[v][d]
  PROVE  DrawnInv'
<1> DEFINE N(v) == [u \in Editor |-> Markers(v, u)']
<1>1. ASSUME NEW v \in Client, NEW u \in Editor, v # c \/ u # t PROVE Markers(v, u)' = Markers(v, u)
  BY <1>1, MarkersSame
<1>2. shown' = [shown EXCEPT ![c] = [u \in Editor |-> IF u \in {t} THEN Markers(c, u)' ELSE shown[c][u]]]
  BY DEF Draw
<1>3. shown = [v \in Client |-> [u \in Editor |-> Markers(v, u)]]
  BY DEF DrawnInv
<1>4. ASSUME NEW v \in Client PROVE shown'[v] = N(v)
  <2>1. CASE v = c
    <3>1. shown'[v] = [u \in Editor |-> IF u \in {t} THEN Markers(c, u)' ELSE shown[c][u]]
      BY <1>2, <1>3, <2>1
    <3>2. \A u \in Editor : u # t => shown[c][u] = Markers(c, u)'
      BY <1>1, <1>3
    <3> QED
      BY <2>1, <3>1, <3>2
  <2>2. CASE v # c
    <3>1. shown'[v] = shown[v]
      BY <1>2, <1>3, <2>2
    <3>2. \A u \in Editor : Markers(v, u) = Markers(v, u)'
      BY <1>1, <2>2
    <3> QED
      BY <1>3, <3>1, <3>2
  <2> QED
    BY <2>1, <2>2
<1>5. shown' = [v \in Client |-> shown'[v]]
  BY <1>2, <1>3
<1>6. shown' = [v \in Client |-> N(v)]
  BY <1>4, <1>5
<1> QED
  BY <1>6 DEF DrawnInv

LEMMA ChangeStep ==
  ASSUME CursorsInv, NEW c \in Client, NEW t \in Editor, NEW x, NEW own,
         Changed(c, t, x), Update(c, t, own), Draw(c, {t}), focus' = focus,
         TextTypes', TextInv', PendingInv', texts' \in [Client -> Seq(TextChange)],
         \A d \in Client, u \in Editor : d # c \/ u # t => selection'[d][u] = selection[d][u],
         \A k \in DOMAIN selection'[c][t] :
           selection'[c][t][k].anchor <= Length(c, t)' /\ selection'[c][t][k].head <= Length(c, t)'
  PROVE  CursorsInv'
<1>0. TextTypes /\ SentTypes /\ TextInv /\ SelectionInv /\ CursorListInv /\ KeptInv /\ LastInv /\ DrawnInv
  BY DEF CursorsInv
<1>1. \A v \in Client, u \in Editor : v # c \/ u # t => SameView(v, u)
  BY ChangedViews
<1>2. ASSUME NEW v \in Client, NEW u \in Editor, v # c \/ u # t PROVE Length(v, u)' = Length(v, u)
  BY <1>1, <1>2, SameViewRight
<1>3. SelectionInv'
  <2> SUFFICES ASSUME NEW d \in Client, NEW u \in Editor, NEW k \in DOMAIN selection'[d][u]
               PROVE  selection'[d][u][k].anchor <= Length(d, u)' /\ selection'[d][u][k].head <= Length(d, u)'
    BY DEF SelectionInv
  <2>1. CASE d = c /\ u = t
    BY <2>1
  <2>2. CASE d # c \/ u # t
    BY <1>0, <1>2, <2>2 DEF SelectionInv
  <2> QED
    BY <2>1, <2>2
<1>4. ASSUME NEW d \in Client, NEW u \in Editor, d # c \/ u # t PROVE Published(d, u)' = Published(d, u)
  BY <1>0, <1>1, <1>4, PublishedSame
<1>5. \A u \in Editor : Chars(u) \subseteq Chars(u)'
  BY DEF Changed, Alike, Chars
<1>6. /\ SentTypes' /\ CursorListInv' /\ KeptInv' /\ LastInv'
      /\ \A v \in Client : \A d \in Client \ {v} : cursors'[v][d] = cursors[v][d]
  BY <1>0, <1>3, <1>4, <1>5, UpdateStep
<1>7. DrawnInv'
  BY <1>0, <1>1, <1>6, DrawStep
<1> QED
  BY <1>3, <1>6, <1>7 DEF CursorsInv

-----------------------------------------------------------------------------
(* Steps that leave the texts alone                                        *)

\* No text has changed, at any client.
TextsStill == UNCHANGED <<order, has, gone>> /\ used'["type"] = used["type"]

LEMMA StillViews ==
  ASSUME CursorsInv, TextsStill
  PROVE  /\ \A v, u : Length(v, u)' = Length(v, u)
         /\ \A u : Chars(u)' = Chars(u)
         /\ \A v \in Client, u \in Editor : SameView(v, u)
         /\ TextInv' /\ (texts' = texts => PendingInv')
<1>0. TextTypes /\ TextInv /\ PendingInv
  BY DEF CursorsInv
<1>1. order' = order /\ has' = has /\ gone' = gone /\ used'["type"] = used["type"]
  BY DEF TextsStill
<1>2. \A v, u : Visible(v, u)' = Visible(v, u) /\ Length(v, u)' = Length(v, u) /\ Chars(u)' = Chars(u)
  BY <1>1 DEF Visible, Length, Chars
<1>3. \A u \in Editor : Alike(order[u], order[u])
  BY <1>0, TextsOrdered, AlikeItself
<1>4. \A v \in Client, u \in Editor : SameView(v, u)
  BY <1>1, <1>2, <1>3 DEF SameView
<1>5. TextInv'
  BY <1>0, <1>1 DEF TextInv, Chars
<1>6. texts' = texts => PendingInv'
  BY <1>0, <1>1 DEF PendingInv, Dead, Chars
<1> QED
  BY <1>2, <1>4, <1>5, <1>6

LEMMA StillShown ==
  ASSUME CursorsInv, TextsStill, shown' = shown,
         \A v \in Client : \A d \in Client \ {v} : cursors'[v][d] = cursors[v][d]
  PROVE  DrawnInv'
<1>1. ASSUME NEW v \in Client, NEW u \in Editor PROVE Markers(v, u)' = Markers(v, u)
  BY StillViews, MarkersSame DEF CursorsInv
<1> QED
  BY <1>1 DEF DrawnInv, CursorsInv

LEMMA FocusStep ==
  ASSUME CursorsInv, NEW c \in Client, NEW t \in Editor \cup {Nil}, Focus(c, t)
  PROVE  CursorsInv'
<1>0. TextTypes /\ SentTypes /\ SelectionInv /\ CursorListInv /\ KeptInv /\ LastInv /\ TextInv
  BY DEF CursorsInv
<1>1. /\ focus' = [focus EXCEPT ![c] = t] /\ kept' = [kept EXCEPT ![c] = Nil]
      /\ used' = [used EXCEPT !["focus"] = @ + 1]
      /\ order' = order /\ has' = has /\ gone' = gone /\ selection' = selection /\ cursors' = cursors
      /\ texts' = texts /\ states' = states /\ shown' = shown
  BY DEF Focus, Spend
<1>2. TextsStill
  BY <1>0, <1>1 DEF TextsStill, TextTypes
<1>3. TextTypes' /\ SentTypes'
  BY <1>0, <1>1 DEF TextTypes, SentTypes
<1>4. TextInv' /\ PendingInv'
  BY <1>1, <1>2, StillViews
<1>5. SelectionInv'
  BY <1>0, <1>1, <1>2, StillViews DEF SelectionInv
<1>6. CursorListInv' /\ LastInv'
  <2>1. \A s : ListRight(s)' <=> ListRight(s)
    BY <1>1 DEF ListRight, OfText, Chars
  <2>2. \A v, d : From(v, d)' = From(v, d)
    BY <1>1 DEF From
  <2>3. CursorListInv'
    BY <1>0, <1>1, <2>1 DEF CursorListInv
  <2>4. LastInv'
    BY <1>0, <1>1, <2>2 DEF LastInv
  <2> QED
    BY <2>3, <2>4
<1>7. KeptInv'
  <2> SUFFICES ASSUME NEW d \in Client, kept'[d] # Nil
               PROVE  kept'[d] = focus'[d] /\ cursors'[d][d] = Published(d, kept[d])'
    BY DEF KeptInv
  <2>1. d # c /\ kept'[d] = kept[d] /\ focus'[d] = focus[d] /\ kept[d] \in Editor
    BY <1>0, <1>1 DEF SentTypes
  <2>2. Published(d, kept[d])' = Published(d, kept[d])
    <3>1. \A u \in Editor : Published(d, u)' = Published(d, u)
      BY <1>0, <1>1, <1>2, StillViews, PublishedSame
    <3> QED
      BY <2>1, <3>1
  <2> QED
    BY <1>0, <1>1, <2>1, <2>2 DEF KeptInv
<1>8. DrawnInv'
  BY <1>1, <1>2, StillShown
<1> QED
  BY <1>3, <1>4, <1>5, <1>6, <1>7, <1>8 DEF CursorsInv

LEMMA LeaveStep ==
  ASSUME CursorsInv, NEW c \in Client, Leave(c)
  PROVE  CursorsInv'
<1>0. TextTypes /\ SentTypes /\ SelectionInv /\ CursorListInv /\ KeptInv /\ LastInv /\ TextInv
  BY DEF CursorsInv
<1>1. /\ focus' = [focus EXCEPT ![c] = Nil] /\ kept' = [kept EXCEPT ![c] = Nil]
      /\ cursors' = [cursors EXCEPT ![c][c] = Nil]
      /\ states' = Sent(states, c, [from |-> c, cursors |-> Nil])
      /\ order' = order /\ has' = has /\ gone' = gone /\ selection' = selection
      /\ texts' = texts /\ shown' = shown /\ used' = used
  BY DEF Leave
<1>2. TextsStill
  BY <1>0, <1>1 DEF TextsStill, TextTypes
<1>3. /\ CursorListInv' /\ LastInv'
      /\ states' \in [Client -> Seq(State)] /\ cursors' \in [Client -> [Client -> CursorList]]
      /\ \A v, d \in Client : cursors'[v][d] = IF v = c /\ d = c THEN Nil ELSE cursors[v][d]
  <2>1. Nil \in CursorList /\ ListRight(Nil)'
    BY DEF CursorList, ListRight
  <2>2. \A u \in Editor : Chars(u) \subseteq Chars(u)'
    BY <1>1 DEF Chars
  <2>3. \A l \in CursorList :
          /\ ListRight(l)' /\ states' = Sent(states, c, [from |-> c, cursors |-> l])
          /\ cursors' = [cursors EXCEPT ![c][c] = l]
          => /\ CursorListInv' /\ LastInv'
             /\ states' \in [Client -> Seq(State)] /\ cursors' \in [Client -> [Client -> CursorList]]
             /\ \A v, d \in Client : cursors'[v][d] = IF v = c /\ d = c THEN l ELSE cursors[v][d]
    BY <1>0, <2>2, TellStep
  <2> QED
    BY <1>1, <2>1, <2>3
<1>4. TextTypes' /\ SentTypes'
  BY <1>0, <1>1, <1>3 DEF TextTypes, SentTypes
<1>5. TextInv' /\ PendingInv'
  BY <1>1, <1>2, StillViews
<1>6. SelectionInv'
  BY <1>0, <1>1, <1>2, StillViews DEF SelectionInv
<1>7. KeptInv'
  <2> SUFFICES ASSUME NEW d \in Client, kept'[d] # Nil
               PROVE  kept'[d] = focus'[d] /\ cursors'[d][d] = Published(d, kept[d])'
    BY DEF KeptInv
  <2>1. d # c /\ kept'[d] = kept[d] /\ focus'[d] = focus[d] /\ kept[d] \in Editor
    BY <1>0, <1>1 DEF SentTypes
  <2>2. Published(d, kept[d])' = Published(d, kept[d])
    <3>1. \A u \in Editor : Published(d, u)' = Published(d, u)
      BY <1>0, <1>1, <1>2, StillViews, PublishedSame
    <3> QED
      BY <2>1, <3>1
  <2> QED
    BY <1>0, <1>3, <2>1, <2>2 DEF KeptInv
<1>8. DrawnInv'
  BY <1>1, <1>2, <1>3, StillShown
<1> QED
  BY <1>3, <1>4, <1>5, <1>6, <1>7, <1>8 DEF CursorsInv

LEMMA SelectStep ==
  ASSUME CursorsInv, NEW c \in Client, NEW ranges \in Ranges, Select(c, ranges)
  PROVE  CursorsInv'
<1>0. TextTypes /\ SentTypes /\ SelectionInv /\ CursorListInv /\ KeptInv /\ LastInv /\ TextInv
  BY DEF CursorsInv
<1>1. PICK t \in {focus[c]} \ {Nil} :
        /\ \A k \in DOMAIN ranges : High(ranges[k]) <= Length(c, t)
        /\ used' = [used EXCEPT !["select"] = @ + 1]
        /\ selection' = [selection EXCEPT ![c][t] = ranges]
        /\ order' = order /\ has' = has /\ gone' = gone /\ focus' = focus /\ texts' = texts /\ shown' = shown
        /\ Update(c, t, TRUE)
  BY DEF Select, Spend
<1>2. t \in Editor
  BY <1>0, <1>1 DEF SentTypes
<1>3. TextsStill
  BY <1>0, <1>1 DEF TextsStill, TextTypes
<1>4. ranges \in Seq(OneRange)
  BY RangesAssumption DEF OneRange
<1>5. TextTypes' /\ texts' \in [Client -> Seq(TextChange)]
  BY <1>0, <1>1, <1>2, <1>4 DEF TextTypes, SentTypes
<1>6. TextInv' /\ PendingInv' /\ (\A v, u : Length(v, u)' = Length(v, u)) /\ (\A u : Chars(u)' = Chars(u))
      /\ \A v \in Client, u \in Editor : SameView(v, u)
  BY <1>1, <1>3, StillViews
<1>7. \A d \in Client, u \in Editor :
        selection'[d][u] = IF d = c /\ u = t THEN ranges ELSE selection[d][u]
  BY <1>0, <1>1, <1>2 DEF TextTypes
<1>8. SelectionInv'
  <2>1. ASSUME NEW k \in DOMAIN ranges PROVE ranges[k].anchor <= Length(c, t) /\ ranges[k].head <= Length(c, t)
    <3>1. ranges[k] \in OneRange
      BY <1>4
    <3>2. ranges[k].anchor \in Nat /\ ranges[k].head \in Nat /\ Length(c, t) \in Nat
      BY <1>0, <1>2, <3>1, TextsOrdered DEF OneRange
    <3>3. High(ranges[k]) <= Length(c, t)
      BY <1>1
    <3> QED
      BY <3>2, <3>3 DEF High
  <2>2. ASSUME NEW d \in Client, NEW u \in Editor, NEW k \in DOMAIN selection'[d][u]
        PROVE  selection'[d][u][k].anchor <= Length(d, u) /\ selection'[d][u][k].head <= Length(d, u)
    <3>1. CASE d = c /\ u = t
      BY <1>7, <2>1, <3>1
    <3>2. CASE ~(d = c /\ u = t)
      BY <1>0, <1>7, <3>2 DEF SelectionInv
    <3> QED
      BY <3>1, <3>2
  <2> QED
    BY <1>6, <2>2 DEF SelectionInv
<1>9. ASSUME NEW d \in Client, NEW u \in Editor, d # c \/ u # t PROVE Published(d, u)' = Published(d, u)
  BY <1>0, <1>6, <1>7, <1>9, PublishedSame
<1>10. /\ SentTypes' /\ CursorListInv' /\ KeptInv' /\ LastInv'
       /\ \A v \in Client : \A d \in Client \ {v} : cursors'[v][d] = cursors[v][d]
  BY <1>0, <1>1, <1>2, <1>5, <1>6, <1>8, <1>9, UpdateStep
<1>11. DrawnInv'
  BY <1>1, <1>3, <1>10, StillShown
<1> QED
  BY <1>5, <1>6, <1>8, <1>10, <1>11 DEF CursorsInv

LEMMA CursorsArriveStep ==
  ASSUME CursorsInv, NEW v \in Client, CursorsArrive(v)
  PROVE  CursorsInv'
<1>0. TextTypes /\ SentTypes /\ SelectionInv /\ CursorListInv /\ KeptInv /\ LastInv /\ TextInv /\ DrawnInv
  BY DEF CursorsInv
<1> DEFINE q == states[v]
           f == Head(q).from
           l == Head(q).cursors
<1>1. /\ q # <<>> /\ cursors' = [cursors EXCEPT ![v][f] = l] /\ states' = [states EXCEPT ![v] = Tail(q)]
      /\ order' = order /\ has' = has /\ gone' = gone /\ texts' = texts
      /\ focus' = focus /\ selection' = selection /\ kept' = kept /\ used' = used
  BY DEF CursorsArrive, Received
<1>2. /\ q \in Seq(State) /\ DOMAIN q = 1 .. Len(q) /\ Len(q) \in Nat /\ Len(q) >= 1
      /\ Tail(q) \in Seq(State) /\ Len(Tail(q)) = Len(q) - 1 /\ DOMAIN Tail(q) = 1 .. Len(q) - 1
      /\ \A i \in 1 .. Len(q) - 1 : Tail(q)[i] = q[i + 1]
      /\ 1 \in DOMAIN q /\ q[1] = Head(q) /\ q[1] \in State
  <2>1. q \in Seq(State) /\ q # <<>>
    BY <1>0, <1>1 DEF SentTypes
  <2> HIDE DEF q
  <2>2. /\ Len(q) \in Nat /\ DOMAIN q = 1 .. Len(q) /\ Len(q) >= 1
        /\ Tail(q) \in Seq(State) /\ Len(Tail(q)) = Len(q) - 1
        /\ \A i \in 1 .. Len(Tail(q)) : Tail(q)[i] = q[i + 1]
    BY <2>1, HeadTailProperties, LenProperties
  <2>3. DOMAIN Tail(q) = 1 .. Len(q) - 1
    BY <2>2, LenProperties
  <2>4. 1 \in DOMAIN q /\ q[1] = Head(q) /\ q[1] \in State
    BY <2>1, <2>2
  <2> QED
    BY <2>1, <2>2, <2>3, <2>4
<1>3. f \in Client /\ l \in CursorList /\ f = q[1].from /\ l = q[1].cursors
  BY <1>2 DEF State
<1>4. ListRight(l)
  BY <1>0, <1>2, <1>3 DEF CursorListInv
<1>5. /\ \A a, b \in Client : cursors'[a][b] = IF a = v /\ b = f THEN l ELSE cursors[a][b]
      /\ cursors' \in [Client -> [Client -> CursorList]]
      /\ \A a \in Client : states'[a] = IF a = v THEN Tail(q) ELSE states[a]
      /\ states' \in [Client -> Seq(State)]
  <2> HIDE DEF f, l, q
  <2> QED
    BY <1>0, <1>1, <1>2, <1>3 DEF SentTypes
<1>6. TextsStill
  BY <1>1 DEF TextsStill
<1>7. TextTypes' /\ SentTypes'
  BY <1>0, <1>1, <1>5 DEF TextTypes, SentTypes
<1>8. TextInv' /\ PendingInv' /\ SelectionInv'
  BY <1>0, <1>1, <1>6, StillViews DEF SelectionInv
<1> HIDE DEF f, l
<1>9. CursorListInv'
  <2>1. \A s : ListRight(s)' <=> ListRight(s)
    BY <1>1 DEF ListRight, OfText, Chars
  <2>2. \A a, b \in Client : ListRight(cursors'[a][b])
    BY <1>0, <1>4, <1>5 DEF CursorListInv
  <2>3. ASSUME NEW a \in Client, NEW i \in DOMAIN states'[a]
        PROVE  states'[a][i].from # a /\ ListRight(states'[a][i].cursors)
    <3>1. CASE a = v
      <4>1. states'[a] = Tail(q) /\ i \in DOMAIN Tail(q)
        BY <1>5, <3>1
      <4>2. i \in 1 .. Len(q) - 1 /\ states'[a][i] = q[i + 1] /\ i + 1 \in DOMAIN q
        BY <1>2, <4>1
      <4>3. q[i + 1].from # v /\ ListRight(q[i + 1].cursors)
        BY <1>0, <4>2 DEF CursorListInv
      <4> QED
        BY <3>1, <4>2, <4>3
    <3>2. CASE a # v
      BY <1>0, <1>5, <3>2 DEF CursorListInv
    <3> QED
      BY <3>1, <3>2
  <2> QED
    BY <2>1, <2>2, <2>3 DEF CursorListInv
<1>10. /\ f # v
       /\ \A d \in Client : cursors'[d][d] = cursors[d][d]
  <2>1. q[1].from # v
    BY <1>0, <1>2 DEF CursorListInv
  <2>2. f # v
    BY <1>3, <2>1
  <2> HIDE DEF q
  <2>3. ASSUME NEW d \in Client PROVE cursors'[d][d] = cursors[d][d]
    BY <1>3, <1>5, <2>2
  <2> QED
    BY <2>2, <2>3
<1>11. KeptInv'
  <2> SUFFICES ASSUME NEW d \in Client, kept'[d] # Nil
               PROVE  kept'[d] = focus'[d] /\ cursors'[d][d] = Published(d, kept[d])'
    BY DEF KeptInv
  <2>1. kept'[d] = kept[d] /\ focus'[d] = focus[d] /\ kept[d] \in Editor
    BY <1>0, <1>1 DEF SentTypes
  <2>2. Published(d, kept[d])' = Published(d, kept[d])
    <3>1. \A u \in Editor : Published(d, u)' = Published(d, u)
      BY <1>0, <1>1, <1>6, StillViews, PublishedSame
    <3> QED
      BY <2>1, <3>1
  <2> QED
    BY <1>0, <1>10, <2>1, <2>2 DEF KeptInv
<1>12. LastInv'
  <2> SUFFICES ASSUME NEW d \in Client, NEW a \in Client, d # a
               PROVE  /\ From(a, d)' = {} => cursors'[a][d] = cursors'[d][d]
                      /\ \A i \in From(a, d)' : (\A j \in From(a, d)' : j <= i) =>
                           states'[a][i].cursors = cursors'[d][d]
    BY DEF LastInv
  <2>1. /\ From(a, d) = {} => cursors[a][d] = cursors[d][d]
        /\ \A i \in From(a, d) : (\A j \in From(a, d) : j <= i) => states[a][i].cursors = cursors[d][d]
    BY <1>0 DEF LastInv
  <2>2. cursors'[d][d] = cursors[d][d]
    BY <1>10
  <2>3. CASE a # v
    <3>1. states'[a] = states[a] /\ cursors'[a][d] = cursors[a][d] /\ From(a, d)' = From(a, d)
      BY <1>5, <2>3 DEF From
    <3> QED
      BY <2>1, <2>2, <3>1
  <2>4. CASE a = v
    <3>1. states'[a] = Tail(q)
      BY <1>5, <2>4
    <3>2. ASSUME NEW i \in 1 .. Len(q) - 1
          PROVE  /\ i + 1 \in DOMAIN q /\ states'[a][i] = q[i + 1]
                 /\ i \in From(a, d)' <=> i + 1 \in From(a, d)
      <4>1. i + 1 \in DOMAIN q /\ Tail(q)[i] = q[i + 1] /\ i \in DOMAIN Tail(q)
        BY <1>2
      <4> QED
        BY <2>4, <3>1, <4>1 DEF From
    <3>3. \A i \in From(a, d)' : i \in 1 .. Len(q) - 1
      BY <1>2, <3>1 DEF From
    <3>4. \A j \in From(a, d) : j = 1 \/ (j - 1 \in 1 .. Len(q) - 1 /\ (j - 1) + 1 = j)
      BY <1>2, <2>4 DEF From
    <3>5. \A j \in From(a, d) : j = 1 \/ (j - 1 \in From(a, d)' /\ (j - 1) + 1 = j)
      BY <3>2, <3>4
    <3>6. 1 \in From(a, d) <=> d = f
      BY <1>2, <1>3, <2>4 DEF From
    <3>7. ASSUME From(a, d)' = {} PROVE cursors'[a][d] = cursors[d][d]
      <4>1. \A j \in From(a, d) : j = 1
        BY <3>5, <3>7
      <4>2. CASE d = f
        <5>1. q[1].cursors = cursors[d][d]
          BY <2>1, <2>4, <3>6, <4>1, <4>2
        <5> QED
          BY <1>3, <1>5, <2>4, <4>2, <5>1
      <4>3. CASE d # f
        <5>1. From(a, d) = {}
          BY <3>6, <4>1, <4>3
        <5> QED
          BY <1>5, <2>1, <4>3, <5>1
      <4> QED
        BY <4>2, <4>3
    <3>8. ASSUME NEW i \in From(a, d)', \A j \in From(a, d)' : j <= i
          PROVE  states'[a][i].cursors = cursors[d][d]
      <4>1. i \in 1 .. Len(q) - 1 /\ i + 1 \in From(a, d) /\ states'[a][i] = q[i + 1]
        BY <3>2, <3>3
      <4>2. \A j \in From(a, d) : j <= i + 1
        BY <1>2, <3>4, <3>5, <3>8, <4>1
      <4> QED
        BY <2>1, <2>4, <4>1, <4>2
    <3> QED
      BY <2>2, <3>7, <3>8
  <2> QED
    BY <2>3, <2>4
<1>13. DrawnInv'
  <2>1. shown' = [shown EXCEPT ![v] = [u \in Editor |-> IF u \in Editor THEN Markers(v, u)' ELSE shown[v][u]]]
    BY DEF CursorsArrive, Draw
  <2>2. shown = [a \in Client |-> [u \in Editor |-> Markers(a, u)]]
    BY <1>0 DEF DrawnInv
  <2>3. ASSUME NEW a \in Client, NEW u \in Editor, a # v PROVE Markers(a, u)' = Markers(a, u)
    <3>1. \A d \in Client \ {a} : cursors'[a][d] = cursors[a][d]
      BY <1>5, <2>3
    <3> QED
      BY <1>0, <1>6, <3>1, StillViews, MarkersSame
  <2>4. ASSUME NEW a \in Client PROVE shown'[a] = [u \in Editor |-> Markers(a, u)']
    <3>1. CASE a = v
      BY <2>1, <2>2, <3>1
    <3>2. CASE a # v
      <4>1. shown'[a] = shown[a]
        BY <2>1, <2>2, <3>2
      <4>2. \A u \in Editor : Markers(a, u) = Markers(a, u)'
        BY <2>3, <3>2
      <4> QED
        BY <2>2, <4>1, <4>2
    <3> QED
      BY <3>1, <3>2
  <2>5. shown' = [a \in Client |-> shown'[a]]
    BY <2>1, <2>2
  <2>6. shown' = [a \in Client |-> [u \in Editor |-> Markers(a, u)']]
    BY <2>4, <2>5
  <2> QED
    BY <2>6 DEF DrawnInv
<1> QED
  BY <1>7, <1>8, <1>9, <1>11, <1>12, <1>13 DEF CursorsInv

-----------------------------------------------------------------------------
(* Typing and deleting                                                     *)

\* A queue that has got one message more, or lost its first.
LEMMA ReceivedType ==
  ASSUME NEW S, NEW q \in Seq(S), q # <<>>
  PROVE  /\ DOMAIN q = 1 .. Len(q) /\ Len(q) \in Nat /\ Len(q) >= 1
         /\ Tail(q) \in Seq(S) /\ DOMAIN Tail(q) = 1 .. Len(q) - 1
         /\ \A i \in 1 .. Len(q) - 1 : Tail(q)[i] = q[i + 1]
         /\ 1 \in DOMAIN q /\ q[1] = Head(q) /\ Head(q) \in S
<1>1. /\ Len(q) \in Nat /\ DOMAIN q = 1 .. Len(q) /\ Len(q) >= 1
      /\ Tail(q) \in Seq(S) /\ Len(Tail(q)) = Len(q) - 1
      /\ \A i \in 1 .. Len(Tail(q)) : Tail(q)[i] = q[i + 1]
  BY HeadTailProperties, LenProperties
<1>2. DOMAIN Tail(q) = 1 .. Len(q) - 1
  BY <1>1, LenProperties
<1>3. 1 \in DOMAIN q /\ q[1] = Head(q) /\ q[1] \in S
  BY <1>1
<1> QED
  BY <1>1, <1>2, <1>3

\* The characters of the texts are counted, and have come before the next.
LEMMA NewCharacter ==
  ASSUME TextTypes, TextInv, NEW x, x = FirstTyped + used["type"]
  PROVE  /\ x \in Nat
         /\ \A t \in Editor : Chars(t) \subseteq Nat /\ x \notin Chars(t)
         /\ \A c \in Client : x \notin has[c] /\ x \notin gone[c]
<1>1. used["type"] \in Nat /\ x \in Nat
  BY DEF TextTypes, FirstTyped
<1>2. \A t \in Editor : Chars(t) \subseteq Nat
  <2> SUFFICES ASSUME NEW t \in Editor PROVE Chars(t) \subseteq Nat
    OBVIOUS
  <2>1. Ordered(order[t])
    BY TextsOrdered
  <2> QED
    BY <2>1, PlaceRight DEF Chars
<1>3. \A t \in Editor : \A y \in Chars(t) : y < x
  BY DEF TextInv
<1>4. \A c \in Client : has[c] \subseteq Nat /\ gone[c] \subseteq has[c] /\ \A y \in has[c] : y < x
  BY DEF TextInv, TextTypes
<1> QED
  BY <1>1, <1>2, <1>3, <1>4

LEMMA TypeChanged ==
  ASSUME TextTypes, TextInv, NEW c \in Client, NEW t \in Editor, NEW x, x = FirstTyped + used["type"],
         NEW k \in 1 .. Len(order[t]) + 1, order' = [order EXCEPT ![t] = InsertAt(@, k, x)],
         has' = [has EXCEPT ![c] = @ \cup {x}], gone' = gone
  PROVE  /\ Changed(c, t, x) /\ order' \in [Editor -> Seq(Nat)] /\ Chars(t)' = Chars(t) \cup {x}
         /\ \A u \in Editor : Ordered(order'[u]) /\ (u # t => Chars(u)' = Chars(u))
<1>1. x \in Nat \ ToSet(order[t]) /\ \A v \in Client : x \notin has[v]
  BY NewCharacter DEF Chars
<1>2. \A u \in Editor : Ordered(order[u]) /\ Alike(order[u], order[u])
  BY TextsOrdered, AlikeItself
<1>3. Alike(order[t], InsertAt(order[t], k, x)) /\ ToSet(InsertAt(order[t], k, x)) = ToSet(order[t]) \cup {x}
  BY <1>1, <1>2, InsertedAlike
<1>4. \A u \in Editor : order'[u] = IF u = t THEN InsertAt(order[t], k, x) ELSE order[u]
  BY DEF TextTypes
<1>5. \A u \in Editor : Alike(order[u], order'[u]) /\ (u # t => order'[u] = order[u])
  BY <1>2, <1>3, <1>4
<1>6. Chars(t)' = Chars(t) \cup {x} /\ \A u \in Editor : u # t => Chars(u)' = Chars(u)
  BY <1>3, <1>4 DEF Chars
<1>7. \A u \in Editor : Ordered(order'[u]) /\ order'[u] \in Seq(Nat)
  BY <1>5 DEF Alike, Ordered
<1>8. order' \in [Editor -> Seq(Nat)]
  <2>1. order' = [u \in Editor |-> order'[u]]
    BY DEF TextTypes
  <2> QED
    BY <1>7, <2>1
<1>9. /\ \A v \in Client \ {c} : has'[v] = has[v] /\ gone'[v] = gone[v]
      /\ has'[c] = has[c] \cup {x} /\ gone'[c] = gone[c]
  BY DEF TextTypes
<1>10. Changed(c, t, x)
  BY <1>1, <1>5, <1>6, <1>9 DEF Changed
<1> QED
  BY <1>6, <1>7, <1>8, <1>10


\* The queue q has got one message more; the texts have got a character more.
Sends(p, q, m) ==
  DOMAIN p = 1 .. Len(q) + 1 /\ p[Len(q) + 1] = m /\ \A i \in 1 .. Len(q) : p[i] = q[i]
Gains(more, chars, t, x) ==
  /\ more[t] = chars[t] \cup {x} /\ \A u \in Editor : u # t => more[u] = chars[u]
  /\ \A u \in Editor : x \notin chars[u]

\* What is owed to a client when another has typed a character, or itself.
LEMMA OwedInsert ==
  ASSUME NEW chars, NEW known, NEW erased, NEW dead, NEW q \in Seq(TextChange), Owed(q, chars, known, erased, dead),
         NEW t \in Editor, NEW x, x \notin known, NEW more, Gains(more, chars, t, x),
         NEW p, Sends(p, q, [kind |-> "insert", text |-> t, item |-> x])
  PROVE  Owed(p, more, known, erased, dead) /\ Owed(q, more, known \cup {x}, erased, dead)
<1> DEFINE n == Len(q)
<1>1. n \in Nat /\ DOMAIN q = 1 .. n
  BY LenProperties
<1>0. /\ DOMAIN p = 1 .. Len(q) + 1 /\ (\A i \in 1 .. Len(q) : p[i] = q[i])
      /\ p[Len(q) + 1] = [kind |-> "insert", text |-> t, item |-> x]
      /\ more[t] = chars[t] \cup {x} /\ (\A u \in Editor : u # t => more[u] = chars[u])
      /\ \A u \in Editor : x \notin chars[u]
  BY DEF Sends, Gains
<1>2. \A i \in DOMAIN q : q[i].text \in Editor /\ q[i].item \in chars[q[i].text] /\ q[i].item # x
  <2> SUFFICES ASSUME NEW i \in DOMAIN q
               PROVE  q[i].text \in Editor /\ q[i].item \in chars[q[i].text] /\ q[i].item # x
    OBVIOUS
  <2>1. q[i] \in TextChange
    BY <1>1
  <2>2. q[i].text \in Editor /\ q[i].item \in chars[q[i].text]
    BY <2>1 DEF TextChange, Owed
  <2> QED
    BY <1>0, <2>2
<1>3. \A u \in Editor : chars[u] \subseteq more[u]
  BY <1>0
<1> HIDE DEF n
<1>4. ASSUME NEW i, NEW kind, NEW y
      PROVE  On(p, i, kind, y) <=> On(q, i, kind, y) \/ (i = n + 1 /\ kind = "insert" /\ y = x)
  <2>1. i \in DOMAIN p <=> i \in 1 .. n \/ i = n + 1
    BY <1>0, <1>1 DEF n
  <2>2. i \in 1 .. n => p[i] = q[i] /\ i # n + 1
    BY <1>0, <1>1 DEF n
  <2>3. i = n + 1 => p[i].kind = "insert" /\ p[i].item = x /\ i \notin 1 .. n
    BY <1>0, <1>1 DEF n
  <2> QED
    BY <1>1, <2>1, <2>2, <2>3 DEF On
<1>5. \A i, kind, y : On(q, i, kind, y) => y # x /\ i # n + 1
  BY <1>1, <1>2 DEF On
<1>6. Owed(p, more, known, erased, dead)
  <2>1. \A i \in DOMAIN p : p[i].item \in more[p[i].text]
    <3>1. \A i \in 1 .. n : p[i].item \in more[p[i].text]
      BY <1>0, <1>1, <1>2, <1>3 DEF n
    <3>2. p[n + 1].item \in more[p[n + 1].text]
      BY <1>0 DEF n
    <3>3. \A i \in DOMAIN p : i \in 1 .. n \/ i = n + 1
      BY <1>0, <1>1 DEF n
    <3> QED
      BY <3>1, <3>2, <3>3
  <2>2. \A i, j, y : On(p, i, "insert", y) => y \notin known /\ (On(p, j, "insert", y) => j = i)
    BY <1>4, <1>5 DEF Owed
  <2>3. \A i, y : On(p, i, "delete", y) =>
          y \in dead /\ (y \in known \/ \E j : j < i /\ On(p, j, "insert", y))
    BY <1>4 DEF Owed
  <2>4. \A u \in Editor : \A y \in more[u] : y \in known \/ \E i : On(p, i, "insert", y)
    BY <1>0, <1>4 DEF Owed
  <2>5. \A y \in dead : y \in erased \/ \E i : On(p, i, "delete", y)
    BY <1>4 DEF Owed
  <2> QED
    BY <2>1, <2>2, <2>3, <2>4, <2>5 DEF Owed
<1>7. Owed(q, more, known \cup {x}, erased, dead)
  <2>1. \A i \in DOMAIN q : q[i].item \in more[q[i].text]
    BY <1>2, <1>3
  <2>2. \A i, j, y : On(q, i, "insert", y) => y \notin known \cup {x} /\ (On(q, j, "insert", y) => j = i)
    BY <1>5 DEF Owed
  <2>3. \A u \in Editor : \A y \in more[u] : y \in known \cup {x} \/ \E i : On(q, i, "insert", y)
    BY <1>0 DEF Owed
  <2> QED
    BY <2>1, <2>2, <2>3 DEF Owed
<1> QED
  BY <1>6, <1>7

\* What is owed to a client when another has deleted a character, or itself.
LEMMA OwedDelete ==
  ASSUME NEW chars, NEW known, NEW erased, NEW dead, NEW q \in Seq(TextChange), Owed(q, chars, known, erased, dead),
         NEW t \in Editor, NEW x \in chars[t],
         NEW p, Sends(p, q, [kind |-> "delete", text |-> t, item |-> x])
  PROVE  /\ Owed(p, chars, known, erased, dead \cup {x})
         /\ Owed(q, chars, known, erased \cup {x}, dead \cup {x})
<1> DEFINE n == Len(q)
<1>1. n \in Nat /\ DOMAIN q = 1 .. n
  BY LenProperties
<1>0. /\ DOMAIN p = 1 .. Len(q) + 1 /\ (\A i \in 1 .. Len(q) : p[i] = q[i])
      /\ p[Len(q) + 1] = [kind |-> "delete", text |-> t, item |-> x]
  BY DEF Sends
<1> HIDE DEF n
<1>4. ASSUME NEW i, NEW kind, NEW y
      PROVE  On(p, i, kind, y) <=> On(q, i, kind, y) \/ (i = n + 1 /\ kind = "delete" /\ y = x)
  <2>1. i \in DOMAIN p <=> i \in 1 .. n \/ i = n + 1
    BY <1>0, <1>1 DEF n
  <2>2. i \in 1 .. n => p[i] = q[i] /\ i # n + 1
    BY <1>0, <1>1 DEF n
  <2>3. i = n + 1 => p[i].kind = "delete" /\ p[i].item = x /\ i \notin 1 .. n
    BY <1>0, <1>1 DEF n
  <2> QED
    BY <1>1, <2>1, <2>2, <2>3 DEF On
<1>6. Owed(p, chars, known, erased, dead \cup {x})
  <2>1. \A i \in DOMAIN p : p[i].item \in chars[p[i].text]
    <3>1. \A i \in 1 .. n : p[i].item \in chars[p[i].text]
      BY <1>0, <1>1 DEF n, Owed
    <3>2. p[n + 1].item \in chars[p[n + 1].text]
      BY <1>0 DEF n
    <3>3. \A i \in DOMAIN p : i \in 1 .. n \/ i = n + 1
      BY <1>0, <1>1 DEF n
    <3> QED
      BY <3>1, <3>2, <3>3
  <2>2. \A i, j, y : On(p, i, "insert", y) => y \notin known /\ (On(p, j, "insert", y) => j = i)
    BY <1>4 DEF Owed
  <2>3. ASSUME NEW i, NEW y, On(p, i, "delete", y)
        PROVE  y \in dead \cup {x} /\ (y \in known \/ \E j : j < i /\ On(p, j, "insert", y))
    <3>1. CASE On(q, i, "delete", y)
      BY <1>4, <3>1 DEF Owed
    <3>2. CASE i = n + 1 /\ y = x
      <4>1. y \in known \/ \E j : On(q, j, "insert", y)
        BY <3>2 DEF Owed
      <4>2. \A j : On(q, j, "insert", y) => j < i
        BY <1>1, <3>2 DEF On
      <4> QED
        BY <1>4, <3>2, <4>1, <4>2
    <3> QED
      BY <1>4, <2>3, <3>1, <3>2
  <2>4. \A u \in Editor : \A y \in chars[u] : y \in known \/ \E i : On(p, i, "insert", y)
    BY <1>0, <1>4 DEF Owed
  <2>5. \A y \in dead \cup {x} : y \in erased \/ \E i : On(p, i, "delete", y)
    BY <1>4 DEF Owed
  <2> QED
    BY <2>1, <2>2, <2>3, <2>4, <2>5 DEF Owed
<1>7. Owed(q, chars, known, erased \cup {x}, dead \cup {x})
  BY DEF Owed
<1> QED
  BY <1>6, <1>7

\* What is owed to a client that has got the first of it.
LEMMA OwedHead ==
  ASSUME NEW chars, NEW known, NEW erased, NEW dead, NEW q \in Seq(TextChange), Owed(q, chars, known, erased, dead),
         q # <<>>
  PROVE  /\ Head(q).item \in chars[Head(q).text] /\ Head(q) \in TextChange
         /\ Head(q).kind = "insert" =>
              Head(q).item \notin known /\ Owed(Tail(q), chars, known \cup {Head(q).item}, erased, dead)
         /\ Head(q).kind = "delete" =>
              /\ Head(q).item \in known /\ Head(q).item \in dead
              /\ Owed(Tail(q), chars, known, erased \cup {Head(q).item}, dead)
<1> DEFINE x == Head(q).item
           n == Len(q)
           p == Tail(q)
           h == q[1].kind
<1>1. /\ DOMAIN q = 1 .. n /\ n \in Nat /\ n >= 1 /\ p \in Seq(TextChange) /\ DOMAIN p = 1 .. n - 1
      /\ (\A i \in 1 .. n - 1 : p[i] = q[i + 1]) /\ 1 \in DOMAIN q /\ q[1] = Head(q) /\ Head(q) \in TextChange
  BY ReceivedType
<1>2. x = q[1].item /\ h = Head(q).kind /\ On(q, 1, h, x)
  BY <1>1 DEF On
<1> HIDE DEF n, p, h, x
<1>3. ASSUME NEW i, NEW kind, NEW y, On(q, i, kind, y)
      PROVE  (i = 1 /\ kind = h /\ y = x) \/ (i - 1 \in 1 .. n - 1 /\ On(p, i - 1, kind, y))
  <2>1. i \in 1 .. n /\ q[i].kind = kind /\ q[i].item = y
    BY <1>1, <1>3 DEF On
  <2>2. CASE i = 1
    BY <1>2, <2>1, <2>2 DEF h
  <2>3. CASE i # 1
    <3>1. i - 1 \in 1 .. n - 1 /\ (i - 1) + 1 = i
      BY <1>1, <2>1, <2>3
    <3>2. p[i - 1] = q[i]
      BY <1>1, <3>1
    <3> QED
      BY <1>1, <2>1, <3>1, <3>2 DEF On
  <2> QED
    BY <2>2, <2>3
<1>4. ASSUME NEW i, NEW kind, NEW y, On(p, i, kind, y)
      PROVE  i \in 1 .. n - 1 /\ On(q, i + 1, kind, y) /\ i + 1 # 1
  <2>1. i \in 1 .. n - 1 /\ p[i].kind = kind /\ p[i].item = y
    BY <1>1, <1>4 DEF On
  <2>2. p[i] = q[i + 1] /\ i + 1 \in DOMAIN q /\ i + 1 # 1
    BY <1>1, <2>1
  <2> QED
    BY <2>1, <2>2 DEF On
<1>5. \A i \in DOMAIN p : p[i].item \in chars[p[i].text]
  <2>1. \A i \in DOMAIN p : p[i] = q[i + 1] /\ i + 1 \in DOMAIN q
    BY <1>1
  <2> QED
    BY <2>1 DEF Owed
<1>6. x \in chars[Head(q).text] /\ Head(q) \in TextChange
  BY <1>1, <1>2 DEF Owed
<1>7. ASSUME NEW i, NEW j, NEW y, On(p, i, "insert", y)
      PROVE  y \notin known /\ (On(p, j, "insert", y) => j = i) /\ (h = "insert" => y # x)
  <2>1. i \in 1 .. n - 1 /\ On(q, i + 1, "insert", y) /\ i + 1 # 1
    BY <1>4, <1>7
  <2>2. y \notin known
    BY <2>1 DEF Owed
  <2>3. On(p, j, "insert", y) => j = i
    <3> SUFFICES ASSUME On(p, j, "insert", y) PROVE j = i
      OBVIOUS
    <3>1. j \in 1 .. n - 1 /\ On(q, j + 1, "insert", y)
      BY <1>4
    <3>2. j + 1 = i + 1
      BY <2>1, <3>1 DEF Owed
    <3> QED
      BY <2>1, <3>1, <3>2
  <2>4. h = "insert" => y # x
    BY <1>2, <2>1 DEF Owed
  <2> QED
    BY <2>2, <2>3, <2>4
<1>8. ASSUME NEW i, NEW y, On(p, i, "delete", y)
      PROVE  /\ y \in dead
             /\ y \in known \/ (h = "insert" /\ y = x) \/ \E j : j < i /\ On(p, j, "insert", y)
  <2>1. i \in 1 .. n - 1 /\ On(q, i + 1, "delete", y)
    BY <1>4, <1>8
  <2>2. y \in dead /\ (y \in known \/ \E j : j < i + 1 /\ On(q, j, "insert", y))
    BY <2>1 DEF Owed
  <2>3. ASSUME NEW j, j < i + 1, On(q, j, "insert", y)
        PROVE  (h = "insert" /\ y = x) \/ \E k : k < i /\ On(p, k, "insert", y)
    <3>1. CASE j = 1 /\ h = "insert" /\ y = x
      BY <3>1
    <3>2. CASE j - 1 \in 1 .. n - 1 /\ On(p, j - 1, "insert", y)
      <4>1. j \in Int
        BY <1>1, <2>3 DEF On
      <4>2. j - 1 < i
        BY <2>1, <2>3, <4>1
      <4> QED
        BY <3>2, <4>2
    <3> QED
      BY <1>3, <2>3, <3>1, <3>2
  <2> QED
    BY <2>2, <2>3
<1>9. /\ \A t \in Editor : \A y \in chars[t] :
           y \in known \/ (h = "insert" /\ y = x) \/ \E i : On(p, i, "insert", y)
      /\ \A y \in dead : y \in erased \/ (h = "delete" /\ y = x) \/ \E i : On(p, i, "delete", y)
  <2>1. \A y, kind : (\E i : On(q, i, kind, y)) => (h = kind /\ y = x) \/ \E i : On(p, i, kind, y)
    BY <1>3
  <2> QED
    BY <2>1 DEF Owed
<1>10. ASSUME h = "insert" PROVE x \notin known /\ Owed(p, chars, known \cup {x}, erased, dead)
  <2>1. x \notin known
    BY <1>2, <1>10 DEF Owed
  <2>2. Owed(p, chars, known \cup {x}, erased, dead)
    <3>1. h # "delete"
      BY <1>10
    <3>2. \A i, j, y : On(p, i, "insert", y) => y \notin known \cup {x} /\ (On(p, j, "insert", y) => j = i)
      BY <1>7, <1>10
    <3>3. \A i, y : On(p, i, "delete", y) =>
            y \in dead /\ (y \in known \cup {x} \/ \E j : j < i /\ On(p, j, "insert", y))
      BY <1>8
    <3> QED
      BY <1>5, <1>9, <3>1, <3>2, <3>3 DEF Owed
  <2> QED
    BY <2>1, <2>2
<1>11. ASSUME h = "delete" PROVE x \in known /\ x \in dead /\ Owed(p, chars, known, erased \cup {x}, dead)
  <2>1. h # "insert"
    BY <1>11
  <2>2. x \in dead /\ (x \in known \/ \E j : j < 1 /\ On(q, j, "insert", x))
    BY <1>2, <1>11 DEF Owed
  <2>3. \A j, y : On(q, j, "insert", y) => ~(j < 1)
    BY <1>1 DEF On
  <2>4. Owed(p, chars, known, erased \cup {x}, dead)
    <3>2. \A i, j, y : On(p, i, "insert", y) => y \notin known /\ (On(p, j, "insert", y) => j = i)
      BY <1>7
    <3>3. \A i, y : On(p, i, "delete", y) =>
            y \in dead /\ (y \in known \/ \E j : j < i /\ On(p, j, "insert", y))
      BY <1>8, <2>1
    <3> QED
      BY <1>5, <1>9, <2>1, <3>2, <3>3 DEF Owed
  <2> QED
    BY <2>2, <2>3, <2>4
<1> QED
  BY <1>2, <1>6, <1>10, <1>11 DEF p, x

LEMMA PendingOf ==
  ASSUME SentTypes, PendingInv, NEW v \in Client
  PROVE  /\ texts[v] \in Seq(TextChange)
         /\ \A f : f = [t \in Editor |-> Chars(t)] => Owed(texts[v], f, has[v], gone[v], Dead)
BY DEF SentTypes, PendingInv

LEMMA SentSends ==
  ASSUME NEW c \in Client, NEW S, NEW q \in [Client -> Seq(S)], NEW m \in S, NEW p, p = Sent(q, c, m)
  PROVE  /\ p \in [Client -> Seq(S)] /\ p[c] = q[c]
         /\ \A v \in Client \ {c} : Sends(p[v], q[v], m)
<1>1. /\ Sent(q, c, m) \in [Client -> Seq(S)] /\ Sent(q, c, m)[c] = q[c]
      /\ \A v \in Client \ {c} :
           /\ DOMAIN Sent(q, c, m)[v] = 1 .. Len(q[v]) + 1
           /\ Sent(q, c, m)[v][Len(q[v]) + 1] = m
           /\ \A i \in 1 .. Len(q[v]) : Sent(q, c, m)[v][i] = q[v][i]
  BY SentType
<1> HIDE DEF Sent
<1> QED
  BY <1>1 DEF Sends

LEMMA TypeTexts ==
  ASSUME TextTypes, SentTypes, TextInv, PendingInv,
         NEW c \in Client, NEW t \in Editor, NEW x, x = FirstTyped + used["type"],
         Chars(t)' = Chars(t) \cup {x}, \A u \in Editor : u # t => Chars(u)' = Chars(u),
         has' = [has EXCEPT ![c] = @ \cup {x}], gone' = gone,
         texts' = Sent(texts, c, [kind |-> "insert", text |-> t, item |-> x])
  PROVE  PendingInv' /\ texts' \in [Client -> Seq(TextChange)]
<1> DEFINE m == [kind |-> "insert", text |-> t, item |-> x]
           f == [u \in Editor |-> Chars(u)]
           g == [u \in Editor |-> Chars(u)']
<1>1. x \in Nat /\ (\A u \in Editor : x \notin Chars(u)) /\ \A v \in Client : x \notin has[v]
  BY NewCharacter
<1>2. texts \in [Client -> Seq(TextChange)] /\ m \in TextChange
  BY <1>1 DEF SentTypes, TextChange
<1>3. /\ texts' \in [Client -> Seq(TextChange)] /\ texts'[c] = texts[c]
      /\ \A v \in Client \ {c} : Sends(texts'[v], texts[v], m)
  BY <1>2, SentSends
<1>4. /\ \A v \in Client : has'[v] = IF v = c THEN has[v] \cup {x} ELSE has[v]
      /\ Dead' = Dead
  BY DEF TextTypes, Dead
<1>5. Gains(g, f, t, x)
  BY <1>1 DEF Gains
<1>6. \A v \in Client : texts[v] \in Seq(TextChange) /\ Owed(texts[v], f, has[v], gone[v], Dead)
  BY PendingOf
<1> HIDE DEF f, g, m
<1>7. ASSUME NEW v \in Client PROVE Owed(texts'[v], g, has'[v], gone'[v], Dead')
  <2> DEFINE q == texts[v]
             K == has[v]
             E == gone[v]
             D == Dead
  <2>1. q \in Seq(TextChange) /\ Owed(q, f, K, E, D) /\ x \notin K
    BY <1>1, <1>6
  <2> HIDE DEF q, K, E, D
  <2>2. ASSUME NEW p, Sends(p, q, m) PROVE Owed(p, g, K, E, D) /\ Owed(q, g, K \cup {x}, E, D)
    <3>1. Sends(p, q, [kind |-> "insert", text |-> t, item |-> x])
      BY <2>2 DEF m
    <3> QED
      BY <1>5, <2>1, <3>1, OwedInsert
  <2>3. CASE v = c
    <3>1. Sends(Append(q, m), q, m)
      BY <1>2, <2>1, AppendProperties DEF Sends
    <3>2. Owed(q, g, K \cup {x}, E, D)
      BY <2>2, <3>1
    <3> QED
      BY <1>3, <1>4, <2>3, <3>2 DEF q, K, E, D
  <2>4. CASE v # c
    <3>1. Sends(texts'[v], q, m)
      BY <1>3, <2>4 DEF q
    <3>2. Owed(texts'[v], g, K, E, D)
      BY <2>2, <3>1
    <3> QED
      BY <1>4, <2>4, <3>2 DEF K, E, D
  <2> QED
    BY <2>3, <2>4
<1> QED
  BY <1>3, <1>7 DEF PendingInv, g

LEMMA TypingStep ==
  ASSUME CursorsInv, NEW c \in Client, Type(c)
  PROVE  CursorsInv'
<1>0. TextTypes /\ SentTypes /\ TextInv /\ PendingInv /\ SelectionInv
  BY DEF CursorsInv
<1> DEFINE x == FirstTyped + used["type"]
           left(t, i) == IF i = 0 THEN 0 ELSE Place(order[t], Char(c, t, i - 1))
           right(t, i) == IF i = Length(c, t) THEN Len(order[t]) + 1 ELSE Place(order[t], Char(c, t, i))
<1>2. PICK t \in Editor : t \in {focus[c]} \ {Nil} /\ \E i \in 0 .. Len(order[t]) :
        /\ selection[c][t] = Caret(i) /\ used' = [used EXCEPT !["type"] = @ + 1]
        /\ \E k \in left(t, i) + 1 .. right(t, i) : order' = [order EXCEPT ![t] = InsertAt(@, k, x)]
        /\ has' = [has EXCEPT ![c] = @ \cup {x}]
        /\ selection' = [selection EXCEPT ![c][t] = Caret(i + 1)]
        /\ texts' = Sent(texts, c, [kind |-> "insert", text |-> t, item |-> x])
        /\ gone' = gone /\ focus' = focus /\ Update(c, t, TRUE) /\ Draw(c, {t})
  <2>1. {focus[c]} \ {Nil} \subseteq Editor
    BY <1>0 DEF SentTypes
  <2> QED
    BY <2>1 DEF Type, At, Spend
<1>1. PICK i \in 0 .. Len(order[t]) :
        /\ selection[c][t] = Caret(i) /\ used' = [used EXCEPT !["type"] = @ + 1]
        /\ \E k \in left(t, i) + 1 .. right(t, i) : order' = [order EXCEPT ![t] = InsertAt(@, k, x)]
        /\ has' = [has EXCEPT ![c] = @ \cup {x}]
        /\ selection' = [selection EXCEPT ![c][t] = Caret(i + 1)]
        /\ texts' = Sent(texts, c, [kind |-> "insert", text |-> t, item |-> x])
        /\ gone' = gone /\ focus' = focus /\ Update(c, t, TRUE) /\ Draw(c, {t})
  BY <1>2
<1>3. /\ Ordered(order[t]) /\ Length(c, t) \in Nat /\ Len(order[t]) \in Nat
      /\ i \in Nat /\ i <= Length(c, t)
  <2>1. Ordered(order[t]) /\ Length(c, t) \in Nat
    BY <1>0, <1>2, TextsOrdered
  <2>2. Len(order[t]) \in Nat
    BY <2>1, LenProperties DEF Ordered
  <2>3. i \in Nat /\ 1 \in DOMAIN selection[c][t] /\ selection[c][t][1].head = i
    BY <1>1, <2>2 DEF Caret
  <2>4. i <= Length(c, t)
    BY <1>0, <1>2, <2>3 DEF SelectionInv
  <2> QED
    BY <2>1, <2>2, <2>3, <2>4
<1>4. PICK k \in 1 .. Len(order[t]) + 1 : order' = [order EXCEPT ![t] = InsertAt(@, k, x)]
  <2>1. ASSUME NEW j \in Nat, j < Length(c, t) PROVE Place(order[t], Char(c, t, j)) \in 1 .. Len(order[t])
    <3>1. Char(c, t, j) \in ToSet(order[t])
      BY <1>0, <1>2, <2>1, TextsOrdered DEF Chars
    <3> QED
      BY <1>3, <3>1, PlaceRight
  <2>2. left(t, i) \in 0 .. Len(order[t])
    BY <1>3, <2>1
  <2>3. right(t, i) \in 1 .. Len(order[t]) + 1
    BY <1>3, <2>1
  <2>4. PICK k \in left(t, i) + 1 .. right(t, i) : order' = [order EXCEPT ![t] = InsertAt(@, k, x)]
    BY <1>1
  <2> HIDE DEF left, right
  <2>5. k \in 1 .. Len(order[t]) + 1
    BY <1>3, <2>2, <2>3
  <2> QED
    BY <2>4, <2>5
<1> HIDE DEF x, left, right
<1>5. x = FirstTyped + used["type"] /\ x \in Nat /\ \A d \in Client : x \notin has[d] /\ x \notin gone[d]
  BY <1>0, NewCharacter DEF x
<1>6. /\ Changed(c, t, x) /\ order' \in [Editor -> Seq(Nat)] /\ Chars(t)' = Chars(t) \cup {x}
      /\ \A u \in Editor : Ordered(order'[u]) /\ (u # t => Chars(u)' = Chars(u))
  BY <1>0, <1>1, <1>2, <1>4, <1>5, TypeChanged
<1>7. PendingInv' /\ texts' \in [Client -> Seq(TextChange)]
  <2>1. Chars(t)' = Chars(t) \cup {x} /\ \A u \in Editor : u # t => Chars(u)' = Chars(u)
    BY <1>6
  <2>2. /\ has' = [has EXCEPT ![c] = @ \cup {x}] /\ gone' = gone
        /\ texts' = Sent(texts, c, [kind |-> "insert", text |-> t, item |-> x])
    BY <1>1
  <2> QED
    BY <1>0, <1>5, <2>1, <2>2, TypeTexts
<1>8. /\ used' \in [{"type", "select", "focus"} -> Nat] /\ used'["type"] = used["type"] + 1
      /\ used["type"] \in Nat
  BY <1>0, <1>1 DEF TextTypes
<1>9. /\ has' \in [Client -> SUBSET Nat] /\ gone' \in [Client -> SUBSET Nat]
      /\ \A d \in Client : has'[d] = IF d = c THEN has[d] \cup {x} ELSE has[d]
  BY <1>0, <1>1, <1>5 DEF TextTypes
<1>10. /\ selection' \in [Client -> [Editor -> Seq(OneRange)]]
       /\ \A d \in Client, u \in Editor :
            selection'[d][u] = IF d = c /\ u = t THEN Caret(i + 1) ELSE selection[d][u]
  <2>1. Caret(i + 1) \in Seq(OneRange)
    BY <1>3 DEF Caret, OneRange
  <2> QED
    BY <1>0, <1>1, <1>2, <2>1 DEF TextTypes
<1>11. TextTypes'
  BY <1>6, <1>8, <1>9, <1>10 DEF TextTypes
<1>12. TextInv'
  <2>1. \A u \in Editor : \A y \in Chars(u)' : y \in Chars(u) \/ (u = t /\ y = x)
    BY <1>6
  <2>2. \A u, w \in Editor : \A y : y \in Chars(u) /\ y \in Chars(w) => u = w
    BY <1>0 DEF TextInv, Chars, ToSet
  <2>3. \A u \in Editor : x \notin Chars(u)
    BY <1>0, <1>5, NewCharacter
  <2>4. \A u, w \in Editor : \A y : y \in Chars(u)' /\ y \in Chars(w)' => u = w
    BY <2>1, <2>2, <2>3
  <2>5. ASSUME NEW u \in Editor, NEW w \in Editor, NEW j \in DOMAIN order'[u], NEW l \in DOMAIN order'[w],
               order'[u][j] = order'[w][l]
        PROVE  u = w /\ j = l
    <3>1. order'[u][j] \in Chars(u)' /\ order'[w][l] \in Chars(w)'
      BY DEF Chars, ToSet
    <3>2. u = w
      BY <2>4, <2>5, <3>1
    <3> QED
      BY <1>6, <2>5, <3>2 DEF Ordered
  <2>6. \A u \in Editor : \A y \in Chars(u)' : y < FirstTyped + used'["type"]
    <3>1. \A u \in Editor : \A y \in Chars(u) : y \in Nat /\ y < FirstTyped + used["type"]
      BY <1>0, <1>5, NewCharacter DEF TextInv
    <3>2. \A y \in Nat : y < FirstTyped + used["type"] => y < FirstTyped + used'["type"]
      BY <1>8 DEF FirstTyped
    <3>3. x < FirstTyped + used'["type"]
      BY <1>5, <1>8 DEF FirstTyped
    <3> QED
      BY <2>1, <3>1, <3>2, <3>3
  <2>7. \A d \in Client : gone'[d] \subseteq has'[d] /\ \A y \in has'[d] : y < FirstTyped + used'["type"]
    <3>1. \A d \in Client : gone[d] \subseteq has[d] /\ \A y \in has[d] : y \in Nat /\ y < FirstTyped + used["type"]
      BY <1>0 DEF TextInv, TextTypes
    <3>2. \A y \in Nat : y < FirstTyped + used["type"] => y < FirstTyped + used'["type"]
      BY <1>8 DEF FirstTyped
    <3>3. x < FirstTyped + used'["type"]
      BY <1>5, <1>8 DEF FirstTyped
    <3> QED
      BY <1>1, <1>9, <3>1, <3>2, <3>3
  <2> QED
    BY <2>5, <2>6, <2>7 DEF TextInv
<1>13. \A j \in DOMAIN selection'[c][t] :
         selection'[c][t][j].anchor <= Length(c, t)' /\ selection'[c][t][j].head <= Length(c, t)'
  <2>1. Visible(c, t)' = Visible(c, t) \cup {x} /\ x \notin Visible(c, t)
    <3>1. \A y \in Chars(t) : y # x
      BY <1>0, <1>2, <1>5, NewCharacter
    <3> QED
      BY <1>1, <1>5, <1>6, <1>9, <3>1 DEF Visible, Chars
  <2>2. IsFiniteSet(Visible(c, t))
    BY <1>3, TextFinite DEF Visible
  <2>3. Length(c, t)' = Length(c, t) + 1
    BY <2>1, <2>2, FS_AddElement DEF Length
  <2>4. \A j \in DOMAIN Caret(i + 1) : Caret(i + 1)[j].anchor = i + 1 /\ Caret(i + 1)[j].head = i + 1
    BY DEF Caret
  <2>5. i + 1 <= Length(c, t)'
    BY <1>3, <2>3
  <2> QED
    BY <1>2, <1>10, <2>4, <2>5
<1>14. \A d \in Client, u \in Editor : d # c \/ u # t => selection'[d][u] = selection[d][u]
  BY <1>10
<1> QED
  BY <1>1, <1>2, <1>6, <1>7, <1>11, <1>12, <1>13, <1>14, ChangeStep

\* A client deletes a character, or hears of it.
LEMMA Deletes ==
  ASSUME TextTypes, TextInv, NEW c \in Client, NEW t \in Editor, NEW x \in Visible(c, t),
         order' = order, has' = has, gone' = [gone EXCEPT ![c] = @ \cup {x}],
         used'["type"] \in Nat, used["type"] <= used'["type"]
  PROVE  /\ Changed(c, t, x) /\ TextInv' /\ gone' \in [Client -> SUBSET Nat]
         /\ Length(c, t) \in Nat /\ Length(c, t)' = Length(c, t) - 1
         /\ \A u : Chars(u)' = Chars(u)
<1>1. x \in Chars(t) /\ x \in has[c] /\ x \in Nat
  BY DEF Visible, Chars, TextTypes
<1>2. /\ \A d \in Client : gone'[d] = IF d = c THEN gone[d] \cup {x} ELSE gone[d]
      /\ gone' \in [Client -> SUBSET Nat]
  BY <1>1 DEF TextTypes
<1>3. \A u : Chars(u)' = Chars(u)
  BY DEF Chars
<1>4. Changed(c, t, x)
  <2>1. \A u \in Editor : Alike(order[u], order'[u])
    BY TextsOrdered, AlikeItself
  <2> QED
    BY <1>1, <1>2, <1>3, <2>1 DEF Changed
<1>5. TextInv'
  <2>0. \A y \in Nat : y < FirstTyped + used["type"] => y < FirstTyped + used'["type"]
    BY DEF TextTypes, FirstTyped
  <2>1. \A d \in Client : gone'[d] \subseteq has'[d] /\ \A y \in has'[d] : y < FirstTyped + used'["type"]
    BY <1>1, <1>2, <2>0 DEF TextInv, TextTypes
  <2>2. \A u \in Editor : \A y \in Chars(u)' : y < FirstTyped + used'["type"]
    <3>1. \A u \in Editor : Chars(u) \subseteq Nat
      BY NewCharacter
    <3> QED
      BY <1>3, <2>0, <3>1 DEF TextInv
  <2>3. \A u, w \in Editor : \A i \in DOMAIN order'[u], j \in DOMAIN order'[w] :
          order'[u][i] = order'[w][j] => u = w /\ i = j
    BY DEF TextInv
  <2> QED
    BY <2>1, <2>2, <2>3 DEF TextInv
<1>6. Visible(c, t)' = Visible(c, t) \ {x}
  BY <1>2 DEF Visible
<1>7. IsFiniteSet(Visible(c, t)) /\ Length(c, t) \in Nat
  BY TextsOrdered, TextFinite DEF Chars
<1>8. Length(c, t)' = Length(c, t) - 1
  BY <1>6, <1>7, FS_RemoveElement DEF Length
<1> QED
  BY <1>2, <1>3, <1>4, <1>5, <1>7, <1>8

LEMMA EraseTexts ==
  ASSUME TextTypes, SentTypes, TextInv, PendingInv, NEW c \in Client, NEW t \in Editor, NEW x \in Visible(c, t),
         order' = order, has' = has, gone' = [gone EXCEPT ![c] = @ \cup {x}],
         texts' = Sent(texts, c, [kind |-> "delete", text |-> t, item |-> x])
  PROVE  PendingInv' /\ texts' \in [Client -> Seq(TextChange)]
<1> DEFINE m == [kind |-> "delete", text |-> t, item |-> x]
           f == [u \in Editor |-> Chars(u)]
<1>1. x \in Chars(t) /\ x \in Nat
  BY DEF Visible, Chars, TextTypes
<1>2. texts \in [Client -> Seq(TextChange)] /\ m \in TextChange
  BY <1>1 DEF SentTypes, TextChange
<1>3. /\ texts' \in [Client -> Seq(TextChange)] /\ texts'[c] = texts[c]
      /\ \A v \in Client \ {c} : Sends(texts'[v], texts[v], m)
  BY <1>2, SentSends
<1>4. /\ \A v \in Client : gone'[v] = IF v = c THEN gone[v] \cup {x} ELSE gone[v]
      /\ Dead' = Dead \cup {x}
  <2>1. \A v \in Client : gone'[v] = IF v = c THEN gone[v] \cup {x} ELSE gone[v]
    BY DEF TextTypes
  <2> QED
    BY <2>1 DEF Dead
<1>5. x \in f[t] /\ f' = f
  BY <1>1 DEF Chars
<1>6. \A v \in Client : texts[v] \in Seq(TextChange) /\ Owed(texts[v], f, has[v], gone[v], Dead)
  BY PendingOf
<1> HIDE DEF f, m
<1>7. ASSUME NEW v \in Client PROVE Owed(texts'[v], f, has'[v], gone'[v], Dead')
  <2> DEFINE q == texts[v]
             K == has[v]
             E == gone[v]
             D == Dead
  <2>1. q \in Seq(TextChange) /\ Owed(q, f, K, E, D)
    BY <1>6
  <2> HIDE DEF q, K, E, D
  <2>2. ASSUME NEW p, Sends(p, q, m) PROVE Owed(p, f, K, E, D \cup {x}) /\ Owed(q, f, K, E \cup {x}, D \cup {x})
    <3>1. Sends(p, q, [kind |-> "delete", text |-> t, item |-> x])
      BY <2>2 DEF m
    <3> QED
      BY <1>5, <2>1, <3>1, OwedDelete
  <2>3. CASE v = c
    <3>1. Sends(Append(q, m), q, m)
      BY <1>2, <2>1, AppendProperties DEF Sends
    <3>2. Owed(q, f, K, E \cup {x}, D \cup {x})
      BY <2>2, <3>1
    <3> QED
      BY <1>3, <1>4, <2>3, <3>2 DEF q, K, E, D
  <2>4. CASE v # c
    <3>1. Sends(texts'[v], q, m)
      BY <1>3, <2>4 DEF q
    <3>2. Owed(texts'[v], f, K, E, D \cup {x})
      BY <2>2, <3>1
    <3> QED
      BY <1>4, <2>4, <3>2 DEF K, E, D
  <2> QED
    BY <2>3, <2>4
<1>8. \A v \in Client : Owed(texts'[v], f', has'[v], gone'[v], Dead')
  BY <1>5, <1>7
<1> QED
  BY <1>3, <1>8 DEF PendingInv, f

LEMMA EraseStep ==
  ASSUME CursorsInv, NEW c \in Client, Erase(c)
  PROVE  CursorsInv'
<1>0. TextTypes /\ SentTypes /\ TextInv /\ PendingInv /\ SelectionInv
  BY DEF CursorsInv
<1>1. PICK t \in Editor : t \in {focus[c]} \ {Nil} /\ \E i \in 1 .. Length(c, t) : \E x \in {Char(c, t, i - 1)} :
        /\ At(c, t, i) /\ gone' = [gone EXCEPT ![c] = @ \cup {x}]
        /\ selection' = [selection EXCEPT ![c][t] = Caret(i - 1)]
        /\ texts' = Sent(texts, c, [kind |-> "delete", text |-> t, item |-> x])
        /\ order' = order /\ has' = has /\ focus' = focus /\ Update(c, t, TRUE) /\ Draw(c, {t})
  <2>1. {focus[c]} \ {Nil} \subseteq Editor
    BY <1>0 DEF SentTypes
  <2> QED
    BY <2>1 DEF Erase
<1>2. PICK i \in 1 .. Length(c, t) : \E x \in {Char(c, t, i - 1)} :
        /\ At(c, t, i) /\ gone' = [gone EXCEPT ![c] = @ \cup {x}]
        /\ selection' = [selection EXCEPT ![c][t] = Caret(i - 1)]
        /\ texts' = Sent(texts, c, [kind |-> "delete", text |-> t, item |-> x])
        /\ order' = order /\ has' = has /\ focus' = focus /\ Update(c, t, TRUE) /\ Draw(c, {t})
  BY <1>1
<1> DEFINE x == Char(c, t, i - 1)
<1>3. /\ used' = [used EXCEPT !["type"] = @ + 1] /\ gone' = [gone EXCEPT ![c] = @ \cup {x}]
      /\ selection' = [selection EXCEPT ![c][t] = Caret(i - 1)]
      /\ texts' = Sent(texts, c, [kind |-> "delete", text |-> t, item |-> x])
      /\ order' = order /\ has' = has /\ focus' = focus /\ Update(c, t, TRUE) /\ Draw(c, {t})
  BY <1>2 DEF At, Spend
<1>4. Length(c, t) \in Nat /\ i \in Nat /\ i - 1 \in Nat /\ i - 1 < Length(c, t) /\ x \in Visible(c, t)
  <2>1. Length(c, t) \in Nat
    BY <1>0, TextsOrdered
  <2>2. i \in Nat /\ i - 1 \in Nat /\ i - 1 < Length(c, t)
    BY <2>1
  <2> QED
    BY <1>0, <2>1, <2>2, TextsOrdered
<1> HIDE DEF x
<1>5. PendingInv' /\ texts' \in [Client -> Seq(TextChange)]
  BY <1>0, <1>3, <1>4, EraseTexts
<1>6. used' \in [{"type", "select", "focus"} -> Nat] /\ used'["type"] \in Nat /\ used["type"] <= used'["type"]
  BY <1>0, <1>3 DEF TextTypes
<1>7. /\ Changed(c, t, x) /\ TextInv' /\ gone' \in [Client -> SUBSET Nat]
      /\ Length(c, t)' = Length(c, t) - 1
  BY <1>0, <1>3, <1>4, <1>6, Deletes
<1>8. /\ selection' \in [Client -> [Editor -> Seq(OneRange)]]
      /\ \A d \in Client, u \in Editor :
           selection'[d][u] = IF d = c /\ u = t THEN Caret(i - 1) ELSE selection[d][u]
  <2>1. Caret(i - 1) \in Seq(OneRange)
    BY <1>4 DEF Caret, OneRange
  <2> QED
    BY <1>0, <1>3, <2>1 DEF TextTypes
<1>9. TextTypes'
  BY <1>0, <1>3, <1>6, <1>7, <1>8 DEF TextTypes
<1>10. \A j \in DOMAIN selection'[c][t] :
         selection'[c][t][j].anchor <= Length(c, t)' /\ selection'[c][t][j].head <= Length(c, t)'
  <2>1. \A j \in DOMAIN Caret(i - 1) : Caret(i - 1)[j].anchor = i - 1 /\ Caret(i - 1)[j].head = i - 1
    BY DEF Caret
  <2>2. i - 1 <= Length(c, t)'
    BY <1>4, <1>7
  <2> QED
    BY <1>8, <2>1, <2>2
<1>11. \A d \in Client, u \in Editor : d # c \/ u # t => selection'[d][u] = selection[d][u]
  BY <1>8
<1> QED
  BY <1>3, <1>5, <1>7, <1>9, <1>10, <1>11, ChangeStep

\* Ranges within a text are so still when they are joined.
LEMMA NormalRight ==
  ASSUME NEW s \in Seq(OneRange), NEW n \in Nat, \A k \in DOMAIN s : s[k].anchor <= n /\ s[k].head <= n
  PROVE  /\ Normal(s) \in Seq(OneRange)
         /\ \A k \in DOMAIN Normal(s) : Normal(s)[k].anchor <= n /\ Normal(s)[k].head <= n
<1>1. CASE Len(s) = 2 /\ Overlap(s[1], s[2])
  <2> DEFINE r == s[1]
             q == s[2]
             j == Joined(r, q)
  <2>1. r \in OneRange /\ q \in OneRange /\ 1 \in DOMAIN s /\ 2 \in DOMAIN s
    <3>1. DOMAIN s = 1 .. 2
      BY <1>1, LenProperties
    <3>2. \A k \in 1 .. 2 : s[k] \in OneRange
      BY <3>1, ElementOfSeq, <1>1
    <3> QED
      BY <3>1, <3>2
  <2>2. /\ r.anchor \in Nat /\ r.head \in Nat /\ q.anchor \in Nat /\ q.head \in Nat
        /\ r.anchor <= n /\ r.head <= n /\ q.anchor <= n /\ q.head <= n
    BY <2>1 DEF OneRange
  <2> HIDE DEF r, q
  <2>3. /\ Low(r) \in Nat /\ Low(r) <= n /\ High(r) \in Nat /\ High(r) <= n
        /\ High(q) \in Nat /\ High(q) <= n
    BY <2>2 DEF Low, High
  <2>4. j \in OneRange /\ j.anchor <= n /\ j.head <= n
    BY <2>3 DEF Joined, OneRange
  <2>5. Normal(s) = <<j>>
    BY <1>1 DEF Normal, r, q
  <2> HIDE DEF j
  <2> QED
    BY <2>4, <2>5
<1>2. CASE ~(Len(s) = 2 /\ Overlap(s[1], s[2]))
  BY <1>2 DEF Normal
<1> QED
  BY <1>1, <1>2

\* What has arrived at v is the first that was owed to it.
LEMMA ArrivedTexts ==
  ASSUME TextTypes, SentTypes, TextInv, PendingInv, NEW v \in Client, NEW kind, Arrives(v, kind),
         texts' = Received(texts, v), NEW t, t = Head(texts[v]).text, NEW x, x = Head(texts[v]).item
  PROVE  /\ texts' \in [Client -> Seq(TextChange)] /\ t \in Editor /\ x \in Chars(t) /\ x \in Nat
         /\ kind = "insert" =>
              /\ x \notin has[v]
              /\ order' = order /\ has' = [has EXCEPT ![v] = @ \cup {x}] /\ gone' = gone => PendingInv'
         /\ kind = "delete" =>
              /\ x \in has[v]
              /\ order' = order /\ has' = has /\ gone' = [gone EXCEPT ![v] = @ \cup {x}] => PendingInv'
<1> DEFINE f == [u \in Editor |-> Chars(u)]
           q == texts[v]
           K == has[v]
           E == gone[v]
           D == Dead
<1>1. q \in Seq(TextChange) /\ Owed(q, f, K, E, D) /\ q # <<>> /\ Head(q).kind = kind
  BY PendingOf DEF Arrives
<1>2. \A w \in Client : Owed(texts[w], f, has[w], gone[w], Dead)
  BY PendingOf
<1> HIDE DEF f, q, K, E, D
<1>3. /\ x \in f[Head(q).text] /\ Head(q) \in TextChange
      /\ kind = "insert" => x \notin K /\ Owed(Tail(q), f, K \cup {x}, E, D)
      /\ kind = "delete" => x \in K /\ x \in D /\ Owed(Tail(q), f, K, E \cup {x}, D)
  <2>1. x = Head(q).item
    BY DEF q
  <2>2. /\ x \in f[Head(q).text] /\ Head(q) \in TextChange
        /\ Head(q).kind = "insert" => x \notin K /\ Owed(Tail(q), f, K \cup {x}, E, D)
        /\ Head(q).kind = "delete" => x \in K /\ x \in D /\ Owed(Tail(q), f, K, E \cup {x}, D)
    <3>1. /\ Head(q).item \in f[Head(q).text] /\ Head(q) \in TextChange
          /\ Head(q).kind = "insert" => Head(q).item \notin K /\ Owed(Tail(q), f, K \cup {Head(q).item}, E, D)
          /\ Head(q).kind = "delete" =>
               Head(q).item \in K /\ Head(q).item \in D /\ Owed(Tail(q), f, K, E \cup {Head(q).item}, D)
      BY <1>1, OwedHead
    <3> QED
      BY <2>1, <3>1
  <2> QED
    BY <1>1, <2>2
<1>4. t \in Editor /\ x \in Nat /\ x \in Chars(t)
  <2>1. t \in Editor /\ x \in Nat
    BY <1>3 DEF TextChange, q
  <2> QED
    BY <1>3, <2>1 DEF f, q
<1>5. Tail(q) \in Seq(TextChange)
  BY <1>1, ReceivedType
<1>6. /\ texts' \in [Client -> Seq(TextChange)]
      /\ \A w \in Client : texts'[w] = IF w = v THEN Tail(q) ELSE texts[w]
  BY <1>5 DEF Received, SentTypes, q
<1>7. ASSUME kind = "insert", order' = order, has' = [has EXCEPT ![v] = @ \cup {x}], gone' = gone
      PROVE  PendingInv'
  <2>1. /\ \A w \in Client : has'[w] = IF w = v THEN K \cup {x} ELSE has[w]
        /\ Dead' = Dead /\ f' = f
    BY <1>7 DEF TextTypes, Dead, K, f, Chars
  <2>2. \A w \in Client : Owed(texts'[w], f', has'[w], gone'[w], Dead')
    BY <1>2, <1>3, <1>6, <1>7, <2>1 DEF E, D
  <2> QED
    BY <2>2 DEF PendingInv, f
<1>8. ASSUME kind = "delete", order' = order, has' = has, gone' = [gone EXCEPT ![v] = @ \cup {x}]
      PROVE  PendingInv'
  <2>1. /\ \A w \in Client : gone'[w] = IF w = v THEN E \cup {x} ELSE gone[w]
        /\ f' = f
    BY <1>8 DEF TextTypes, E, f, Chars
  <2>2. Dead' = Dead
    BY <1>3, <1>8, <2>1 DEF Dead, D, E
  <2>3. \A w \in Client : Owed(texts'[w], f', has'[w], gone'[w], Dead')
    BY <1>2, <1>3, <1>6, <1>8, <2>1, <2>2 DEF K, D
  <2> QED
    BY <2>3 DEF PendingInv, f
<1> QED
  BY <1>3, <1>4, <1>6, <1>7, <1>8 DEF K

LEMMA InsertArrivesStep ==
  ASSUME CursorsInv, NEW v \in Client, InsertArrives(v)
  PROVE  CursorsInv'
<1>0. TextTypes /\ SentTypes /\ TextInv /\ PendingInv /\ SelectionInv
  BY DEF CursorsInv
<1>a. PICK m \in {Head(texts[v])} :
        /\ Arrives(v, "insert") /\ texts' = Received(texts, v)
        /\ has' = [has EXCEPT ![v] = @ \cup {m.item}]
        /\ Mapped(v, m.text, LAMBDA r : MapInsert(r, Index(v, m.text, m.item)))
        /\ order' = order /\ gone' = gone /\ focus' = focus /\ used' = used
        /\ Update(v, m.text, FALSE) /\ Draw(v, {m.text})
  BY DEF InsertArrives
<1>b. PICK t, x : t = m.text /\ x = m.item
  OBVIOUS
<1> DEFINE s == selection[v][t]
           n == Length(v, t)
           i == Index(v, t, x)
           p == [k \in DOMAIN s |-> MapInsert(s[k], i)]
<1>1. /\ Arrives(v, "insert") /\ texts' = Received(texts, v)
      /\ has' = [has EXCEPT ![v] = @ \cup {x}]
      /\ selection' = [selection EXCEPT ![v][t] = Normal(p)]
      /\ order' = order /\ gone' = gone /\ focus' = focus /\ used' = used
      /\ Update(v, t, FALSE) /\ Draw(v, {t})
  BY <1>a, <1>b DEF Mapped
<1>2. /\ texts' \in [Client -> Seq(TextChange)] /\ t \in Editor /\ x \in Chars(t) /\ x \in Nat
      /\ x \notin has[v] /\ PendingInv'
  <2>1. t = Head(texts[v]).text /\ x = Head(texts[v]).item
    BY <1>a, <1>b
  <2> QED
    BY <1>0, <1>1, <2>1, ArrivedTexts
<1>3. \A d \in Client : has'[d] = IF d = v THEN has[d] \cup {x} ELSE has[d]
  BY <1>0, <1>1 DEF TextTypes
<1>4. Changed(v, t, x) /\ \A u : Chars(u)' = Chars(u)
  <2>1. \A u \in Editor : Alike(order[u], order[u])
    BY <1>0, TextsOrdered, AlikeItself
  <2>2. \A u : Chars(u)' = Chars(u)
    BY <1>1 DEF Chars
  <2> QED
    BY <1>1, <1>2, <1>3, <2>1, <2>2 DEF Changed
<1>5. TextInv'
  <2>1. x < FirstTyped + used["type"]
    BY <1>0, <1>2 DEF TextInv
  <2> QED
    BY <1>0, <1>1, <1>3, <1>4, <2>1 DEF TextInv
<1>6. n \in Nat /\ i \in 0 .. n /\ Length(v, t)' = n + 1
  <2>1. n \in Nat /\ i \in 0 .. n
    BY <1>0, <1>2, TextsOrdered
  <2>2. x \notin gone[v]
    BY <1>0, <1>2 DEF TextInv
  <2>3. Visible(v, t)' = Visible(v, t) \cup {x} /\ x \notin Visible(v, t)
    <3>1. /\ order'[t] = order[t] /\ gone'[v] = gone[v] /\ has'[v] = has[v] \cup {x}
          /\ x \in ToSet(order[t])
      BY <1>1, <1>2, <1>3 DEF Chars
    <3> QED
      BY <1>2, <2>2, <3>1 DEF Visible
  <2>4. IsFiniteSet(Visible(v, t))
    BY <1>0, <1>2, TextsOrdered, TextFinite DEF Chars
  <2>5. Length(v, t)' = Length(v, t) + 1
    BY <2>3, <2>4, FS_AddElement DEF Length
  <2> QED
    BY <2>1, <2>5
<1>7. /\ Normal(p) \in Seq(OneRange)
      /\ \A k \in DOMAIN Normal(p) : Normal(p)[k].anchor <= n + 1 /\ Normal(p)[k].head <= n + 1
  <2>1. s \in Seq(OneRange) /\ DOMAIN s = 1 .. Len(s) /\ Len(s) \in Nat
    BY <1>0, <1>2, LenProperties DEF TextTypes
  <2> HIDE DEF n, i
  <2>2. ASSUME NEW k \in DOMAIN s PROVE p[k] \in OneRange /\ p[k].anchor <= n + 1 /\ p[k].head <= n + 1
    <3>1. s[k] \in OneRange
      BY <2>1
    <3>2. /\ s[k].anchor \in Nat /\ s[k].anchor <= n
          /\ s[k].head \in Nat /\ s[k].head <= n
      BY <1>0, <1>2, <3>1 DEF SelectionInv, OneRange, n
    <3>3. \A a \in Nat : \A b \in BOOLEAN : a <= n => Inserted(a, i, b) \in Nat /\ Inserted(a, i, b) <= n + 1
      BY <1>6 DEF Inserted
    <3>4. /\ (s[k].anchor < s[k].head) \in BOOLEAN /\ (s[k].head < s[k].anchor) \in BOOLEAN
          /\ p[k] = MapInsert(s[k], i)
      OBVIOUS
    <3> HIDE DEF p
    <3>5. /\ p[k].anchor = Inserted(s[k].anchor, i, s[k].anchor < s[k].head)
          /\ p[k].head = Inserted(s[k].head, i, s[k].head < s[k].anchor)
          /\ p[k] = [anchor |-> p[k].anchor, head |-> p[k].head]
      BY <3>4 DEF MapInsert
    <3> HIDE DEF s
    <3>6. /\ p[k].anchor \in Nat /\ p[k].anchor <= n + 1
          /\ p[k].head \in Nat /\ p[k].head <= n + 1
      BY <3>2, <3>3, <3>4, <3>5
    <3> QED
      BY <3>5, <3>6 DEF OneRange
  <2> HIDE DEF s
  <2>3. p \in Seq(OneRange) /\ DOMAIN p = DOMAIN s
    BY <2>1, <2>2, IsASeq
  <2> HIDE DEF p
  <2>4. \A k \in DOMAIN p : p[k].anchor <= n + 1 /\ p[k].head <= n + 1
    BY <2>2, <2>3
  <2>5. n + 1 \in Nat
    BY <1>6
  <2> QED
    BY <2>3, <2>4, <2>5, NormalRight
<1> HIDE DEF p, n, i
<1>8. /\ selection' \in [Client -> [Editor -> Seq(OneRange)]]
      /\ \A d \in Client, u \in Editor :
           selection'[d][u] = IF d = v /\ u = t THEN Normal(p) ELSE selection[d][u]
  BY <1>0, <1>1, <1>2, <1>7 DEF TextTypes
<1>9. TextTypes'
  BY <1>0, <1>1, <1>2, <1>8 DEF TextTypes
<1>10. \A k \in DOMAIN selection'[v][t] :
         selection'[v][t][k].anchor <= Length(v, t)' /\ selection'[v][t][k].head <= Length(v, t)'
  BY <1>2, <1>6, <1>7, <1>8
<1>11. \A d \in Client, u \in Editor : d # v \/ u # t => selection'[d][u] = selection[d][u]
  BY <1>8
<1> QED
  BY <1>1, <1>2, <1>4, <1>5, <1>9, <1>10, <1>11, ChangeStep

\* A deletion of which v knew, or none.
LEMMA StaleDeleteStep ==
  ASSUME CursorsInv, texts' \in [Client -> Seq(TextChange)], PendingInv',
         UNCHANGED <<order, has, gone, focus, selection, cursors, states, kept, shown, used>>
  PROVE  CursorsInv'
<1>0. TextTypes /\ SentTypes /\ TextInv /\ SelectionInv /\ CursorListInv /\ KeptInv /\ LastInv /\ DrawnInv
  BY DEF CursorsInv
<1>1. TextTypes' /\ SentTypes'
  BY <1>0 DEF TextTypes, SentTypes
<1>2. TextsStill
  BY DEF TextsStill
<1>3. TextInv' /\ SelectionInv'
  BY <1>0, <1>2, StillViews DEF SelectionInv
<1>4. CursorListInv' /\ LastInv'
  <2>1. \A s : ListRight(s)' <=> ListRight(s)
    BY DEF ListRight, OfText, Chars
  <2>2. \A a, d : From(a, d)' = From(a, d)
    BY DEF From
  <2> QED
    BY <1>0, <2>1, <2>2 DEF CursorListInv, LastInv
<1>5. KeptInv'
  <2>1. \A d \in Client, u \in Editor : Published(d, u)' = Published(d, u)
    BY <1>0, <1>2, StillViews, PublishedSame
  <2>2. \A d \in Client : kept[d] \in Editor \cup {Nil}
    BY <1>0 DEF SentTypes
  <2> QED
    BY <1>0, <2>1, <2>2 DEF KeptInv
<1>6. DrawnInv'
  BY <1>2, StillShown
<1> QED
  BY <1>1, <1>3, <1>4, <1>5, <1>6 DEF CursorsInv

LEMMA DeleteArrivesStep ==
  ASSUME CursorsInv, NEW v \in Client, DeleteArrives(v)
  PROVE  CursorsInv'
<1>0. TextTypes /\ SentTypes /\ TextInv /\ PendingInv /\ SelectionInv
  BY DEF CursorsInv
<1>a. PICK t, x : t = Head(texts[v]).text /\ x = Head(texts[v]).item
  OBVIOUS
<1>1. /\ Arrives(v, "delete") /\ texts' = Received(texts, v)
      /\ order' = order /\ has' = has /\ focus' = focus /\ used' = used
  BY DEF DeleteArrives
<1>2. /\ texts' \in [Client -> Seq(TextChange)] /\ t \in Editor /\ x \in Chars(t) /\ x \in Nat /\ x \in has[v]
      /\ gone' = [gone EXCEPT ![v] = @ \cup {x}] => PendingInv'
  BY <1>0, <1>1, <1>a, ArrivedTexts
<1>3. CASE x \in gone[v]
  <2>1. UNCHANGED <<gone, selection, cursors, states, kept, shown>>
    BY <1>3, <1>a DEF DeleteArrives
  <2>2. gone' = [gone EXCEPT ![v] = @ \cup {x}]
    BY <1>0, <1>3, <2>1 DEF TextTypes
  <2> QED
    BY <1>1, <1>2, <2>1, <2>2, StaleDeleteStep
<1>4. CASE x \notin gone[v]
  <2> DEFINE s == selection[v][t]
             n == Length(v, t)
             i == Index(v, t, x)
             p == [k \in DOMAIN s |-> MapDelete(s[k], i)]
  <2>1. /\ gone' = [gone EXCEPT ![v] = @ \cup {x}]
        /\ selection' = [selection EXCEPT ![v][t] = Normal(p)]
        /\ Update(v, t, FALSE) /\ Draw(v, {t})
    <3>1. PICK m \in {Head(texts[v])} :
            /\ gone' = [gone EXCEPT ![v] = @ \cup {m.item}]
            /\ Mapped(v, m.text, LAMBDA r : MapDelete(r, Index(v, m.text, m.item)))
            /\ Update(v, m.text, FALSE) /\ Draw(v, {m.text})
      BY <1>4, <1>a DEF DeleteArrives
    <3> QED
      BY <1>a, <3>1 DEF Mapped
  <2>2. PendingInv'
    BY <1>2, <2>1
  <2>3. x \in Visible(v, t)
    BY <1>2, <1>4 DEF Visible, Chars
  <2>4. used' \in [{"type", "select", "focus"} -> Nat] /\ used'["type"] \in Nat /\ used["type"] <= used'["type"]
    BY <1>0, <1>1 DEF TextTypes
  <2>5. /\ Changed(v, t, x) /\ TextInv' /\ gone' \in [Client -> SUBSET Nat]
        /\ Length(v, t)' = n - 1 /\ n \in Nat
    BY <1>0, <1>1, <1>2, <2>1, <2>3, <2>4, Deletes
  <2>6. i \in 0 .. n /\ i < n /\ n - 1 \in Nat
    <3>1. i \in 0 .. n /\ i < n
      BY <1>0, <1>2, <2>3, TextsOrdered
    <3> QED
      BY <2>5, <3>1
  <2>7. /\ Normal(p) \in Seq(OneRange)
        /\ \A k \in DOMAIN Normal(p) : Normal(p)[k].anchor <= n - 1 /\ Normal(p)[k].head <= n - 1
    <3>1. s \in Seq(OneRange) /\ DOMAIN s = 1 .. Len(s) /\ Len(s) \in Nat
      BY <1>0, <1>2, LenProperties DEF TextTypes
    <3>2. \A k \in DOMAIN s : s[k].anchor <= n /\ s[k].head <= n
      BY <1>0, <1>2 DEF SelectionInv
    <3> HIDE DEF n, i, s
    <3>3. ASSUME NEW k \in DOMAIN s PROVE p[k] \in OneRange /\ p[k].anchor <= n - 1 /\ p[k].head <= n - 1
      <4>1. s[k] \in OneRange
        BY <3>1
      <4>2. /\ s[k].anchor \in Nat /\ s[k].anchor <= n
            /\ s[k].head \in Nat /\ s[k].head <= n
        BY <3>2, <4>1 DEF OneRange
      <4>3. \A a \in Nat : a <= n => Deleted(a, i) \in Nat /\ Deleted(a, i) <= n - 1
        BY <2>5, <2>6 DEF Deleted
      <4>4. p[k] = MapDelete(s[k], i)
        OBVIOUS
      <4> HIDE DEF p
      <4>5. /\ p[k].anchor = Deleted(s[k].anchor, i) /\ p[k].head = Deleted(s[k].head, i)
            /\ p[k] = [anchor |-> p[k].anchor, head |-> p[k].head]
        BY <4>4 DEF MapDelete
      <4>6. /\ p[k].anchor \in Nat /\ p[k].anchor <= n - 1
            /\ p[k].head \in Nat /\ p[k].head <= n - 1
        BY <4>2, <4>3, <4>5
      <4> QED
        BY <4>5, <4>6 DEF OneRange
    <3>4. p \in Seq(OneRange) /\ DOMAIN p = DOMAIN s
      BY <3>1, <3>3, IsASeq
    <3> HIDE DEF p
    <3>5. \A k \in DOMAIN p : p[k].anchor <= n - 1 /\ p[k].head <= n - 1
      BY <3>3, <3>4
    <3> QED
      BY <2>6, <3>4, <3>5, NormalRight
  <2> HIDE DEF p, n, i
  <2>8. /\ selection' \in [Client -> [Editor -> Seq(OneRange)]]
        /\ \A d \in Client, u \in Editor :
             selection'[d][u] = IF d = v /\ u = t THEN Normal(p) ELSE selection[d][u]
    BY <1>0, <1>2, <2>1, <2>7 DEF TextTypes
  <2>9. TextTypes'
    BY <1>0, <1>1, <2>4, <2>5, <2>8 DEF TextTypes
  <2>10. \A k \in DOMAIN selection'[v][t] :
           selection'[v][t][k].anchor <= Length(v, t)' /\ selection'[v][t][k].head <= Length(v, t)'
    BY <1>2, <2>5, <2>7, <2>8
  <2>11. \A d \in Client, u \in Editor : d # v \/ u # t => selection'[d][u] = selection[d][u]
    BY <2>8
  <2> QED
    BY <1>1, <1>2, <2>1, <2>2, <2>5, <2>9, <2>10, <2>11, ChangeStep
<1> QED
  BY <1>3, <1>4

LEMMA CursorsInitInv ==
  ASSUME CursorsInit
  PROVE  CursorsInv
<1> DEFINE all == UNION {ToSet(Initial[t]) : t \in Editor}
<1>1. \A t \in Editor : Initial[t] \in Seq(0 .. FirstTyped - 1) /\ order[t] = Initial[t]
  BY TextsAssumption DEF CursorsInit
<1>2. \A t \in Editor : \A k \in DOMAIN Initial[t] : Initial[t][k] \in 0 .. FirstTyped - 1
  BY <1>1, ElementOfSeq, LenProperties
<1>3. \A t \in Editor : ToSet(Initial[t]) \subseteq 0 .. FirstTyped - 1
  BY <1>2 DEF ToSet
<1>4. all \subseteq 0 .. FirstTyped - 1 /\ \A t \in Editor : ToSet(Initial[t]) \subseteq all
  BY <1>3
<1>5. 0 .. FirstTyped - 1 \subseteq Nat /\ \A y \in 0 .. FirstTyped - 1 : y < FirstTyped + 0
  BY DEF FirstTyped
<1>6. /\ has = [c \in Client |-> all] /\ gone = [c \in Client |-> {}] /\ used["type"] = 0
      /\ \A t \in Editor : Chars(t) = ToSet(Initial[t])
  BY <1>1 DEF CursorsInit, Chars
<1> HIDE DEF all
<1>7. TextTypes
  <2>1. \A t \in Editor : Initial[t] \in Seq(Nat)
    <3> SUFFICES ASSUME NEW t \in Editor PROVE Initial[t] \in Seq(Nat)
      OBVIOUS
    <3> DEFINE o == Initial[t]
    <3>1. o \in Seq(0 .. FirstTyped - 1)
      BY <1>1
    <3> HIDE DEF o
    <3>2. Len(o) \in Nat /\ o \in [1 .. Len(o) -> 0 .. FirstTyped - 1]
      BY <3>1, LenProperties
    <3>3. o \in [1 .. Len(o) -> Nat]
      BY <1>5, <3>2
    <3>4. o \in Seq(Nat)
      BY <3>2, <3>3, SeqDef
    <3> QED
      BY <3>4 DEF o
  <2>2. order \in [Editor -> Seq(Nat)]
    BY <2>1, TextsAssumption DEF CursorsInit
  <2>3. has \in [Client -> SUBSET Nat] /\ gone \in [Client -> SUBSET Nat]
    BY <1>4, <1>5, <1>6
  <2>4. << [anchor |-> 0, head |-> 0] >> \in Seq(OneRange)
    BY DEF OneRange
  <2> QED
    BY <2>2, <2>3, <2>4 DEF TextTypes, CursorsInit
<1>8. SentTypes
  BY DEF SentTypes, CursorsInit, CursorList
<1>9. TextInv
  BY <1>1, <1>3, <1>4, <1>5, <1>6, TextsAssumption DEF TextInv, CursorsInit
<1>10. PendingInv
  BY <1>4, <1>6 DEF PendingInv, Owed, On, Dead, CursorsInit
<1>11. SelectionInv
  <2>1. \A c \in Client, t \in Editor : Length(c, t) \in Nat
    BY <1>7, <1>9, TextsOrdered
  <2> QED
    BY <2>1 DEF SelectionInv, CursorsInit
<1>12. CursorListInv
  BY DEF CursorListInv, ListRight, CursorsInit
<1>13. KeptInv /\ LastInv
  BY DEF KeptInv, LastInv, From, CursorsInit
<1>14. DrawnInv
  <2>1. \A c \in Client, t \in Editor : Markers(c, t) = [carets |-> {}, selections |-> {}]
    <3>1. \A c, d \in Client : \A t : CaretsOf(c, t, d, <<>>) = {} /\ SelectionsOf(c, t, d, <<>>) = {}
      BY DEF CaretsOf, SelectionsOf
    <3>2. \A c \in Client : \A d \in Others(c) : d \in Client /\ cursors[c][d] = <<>>
      BY DEF Others, CursorsInit
    <3> QED
      BY <3>1, <3>2 DEF Markers, Carets, Selections
  <2> QED
    BY <2>1 DEF DrawnInv, CursorsInit
<1> QED
  BY <1>7, <1>8, <1>9, <1>10, <1>11, <1>12, <1>13, <1>14 DEF CursorsInv

LEMMA CursorsUnchanged ==
  ASSUME CursorsInv, UNCHANGED cursorsVars
  PROVE  CursorsInv'
<1>1. texts' = texts /\ UNCHANGED <<order, has, gone, focus, selection, cursors, states, kept, shown, used>>
  BY DEF cursorsVars
<1>2. texts' \in [Client -> Seq(TextChange)]
  BY <1>1 DEF CursorsInv, SentTypes
<1>3. TextsStill
  BY <1>1 DEF TextsStill
<1>4. PendingInv'
  BY <1>1, <1>3, StillViews
<1> QED
  BY <1>1, <1>2, <1>4, StaleDeleteStep

LEMMA CursorsInvRight == CursorsSpec => []CursorsInv
<1>1. CursorsInit => CursorsInv
  BY CursorsInitInv
<1>2. CursorsInv /\ [CursorsNext]_cursorsVars => CursorsInv'
  <2> SUFFICES ASSUME CursorsInv, [CursorsNext]_cursorsVars PROVE CursorsInv'
    OBVIOUS
  <2>1. CASE UNCHANGED cursorsVars
    BY <2>1, CursorsUnchanged
  <2>2. CASE CursorsNext
    <3>1. PICK c \in Client : UserActs(c) \/ Arrival(c)
      BY <2>2 DEF CursorsNext
    <3>2. CASE UserActs(c)
      <4>1. ASSUME NEW t \in Editor \cup {Nil}, Focus(c, t) PROVE CursorsInv'
        BY <4>1, FocusStep
      <4>2. ASSUME NEW ranges \in Ranges, Select(c, ranges) PROVE CursorsInv'
        BY <4>2, SelectStep
      <4>3. ASSUME Type(c) PROVE CursorsInv'
        BY <4>3, TypingStep
      <4>4. ASSUME Erase(c) PROVE CursorsInv'
        BY <4>4, EraseStep
      <4>5. ASSUME Leave(c) PROVE CursorsInv'
        BY <4>5, LeaveStep
      <4> QED
        BY <3>2, <4>1, <4>2, <4>3, <4>4, <4>5 DEF UserActs
    <3>3. CASE Arrival(c)
      <4>1. ASSUME InsertArrives(c) PROVE CursorsInv'
        BY <4>1, InsertArrivesStep
      <4>2. ASSUME DeleteArrives(c) PROVE CursorsInv'
        BY <4>2, DeleteArrivesStep
      <4>3. ASSUME CursorsArrive(c) PROVE CursorsInv'
        BY <4>3, CursorsArriveStep
      <4> QED
        BY <3>3, <4>1, <4>2, <4>3 DEF Arrival
    <3> QED
      BY <3>1, <3>2, <3>3
  <2> QED
    BY <2>1, <2>2
<1> QED
  BY <1>1, <1>2, PTL DEF CursorsSpec

-----------------------------------------------------------------------------
(* What the users see                                                      *)

\* A position stands for the index it was made from.
LEMMA AbsoluteRelative ==
  ASSUME TextTypes, TextInv, NEW c, NEW t \in Editor, NEW i \in Nat, i <= Length(c, t)
  PROVE  /\ Relative(c, t, i).text = t /\ Absolute(c, Relative(c, t, i)) = i
         /\ Relative(c, t, i).item \in Visible(c, t) \cup {AtEnd}
<1>1. /\ Ordered(order[t]) /\ Visible(c, t) \in SUBSET ToSet(order[t]) /\ Length(c, t) \in Nat
  BY TextsOrdered DEF Chars
<1>2. CASE i = Length(c, t)
  BY <1>2 DEF Relative, Absolute
<1>3. CASE i # Length(c, t)
  <2>1. i < Length(c, t)
    BY <1>1, <1>3
  <2>2. Char(c, t, i) \in Visible(c, t) /\ Index(c, t, Char(c, t, i)) = i
    BY <1>1, <2>1, NthRight DEF Length, Index, Char
  <2>3. Char(c, t, i) \in Nat
    BY <1>1, <2>2, PlaceRight
  <2>4. Char(c, t, i) # AtEnd
    BY <2>3, NilAssumption
  <2> QED
    BY <1>3, <2>2, <2>4 DEF Relative, Absolute
<1> QED
  BY <1>2, <1>3

\* Who has got all texts knows every character and every deletion.
LEMMA AllKnown ==
  ASSUME PendingInv, NEW v \in Client, texts[v] = <<>>
  PROVE  (\A t \in Editor : Chars(t) \subseteq has[v]) /\ Dead \subseteq gone[v]
<1> DEFINE f == [t \in Editor |-> Chars(t)]
<1>1. Owed(<<>>, f, has[v], gone[v], Dead)
  BY DEF PendingInv
<1>2. \A i, kind, x : ~On(<<>>, i, kind, x)
  BY DEF On
<1>3. /\ \A t \in Editor : \A x \in f[t] : x \in has[v]
      /\ \A x \in Dead : x \in gone[v]
  BY <1>1, <1>2 DEF Owed
<1> QED
  BY <1>3

LEMMA OneText ==
  ASSUME TextTypes, TextInv, PendingInv, NEW c \in Client, NEW v \in Client, texts[c] = <<>>, texts[v] = <<>>,
         NEW t \in Editor
  PROVE  /\ Visible(v, t) = Visible(c, t)
         /\ \A p : p.text = t => Absolute(v, p) = Absolute(c, p)
<1>1. \A x \in Chars(t) : x \in has[c] /\ x \in has[v]
  BY AllKnown
<1>2. gone[c] \subseteq Dead /\ gone[v] \subseteq Dead
  BY DEF Dead
<1>3. gone[c] = gone[v]
  BY <1>2, AllKnown
<1>4. Visible(v, t) = Visible(c, t)
  BY <1>1, <1>3 DEF Visible, Chars
<1> QED
  BY <1>4 DEF Absolute, Length, Index

\* What is drawn of a user is of his cursors.
LEMMA DrawnOf ==
  ASSUME DrawnInv, NEW v \in Client, NEW t \in Editor, NEW c
  PROVE  /\ \A m : m \in shown[v][t].carets /\ m.client = c <=> c \in Others(v) /\ m \in CaretsOf(v, t, c, cursors[v][c])
         /\ \A m : m \in shown[v][t].selections /\ m.client = c <=>
                     c \in Others(v) /\ m \in SelectionsOf(v, t, c, cursors[v][c])
<1>1. shown[v][t].carets = Carets(v, t) /\ shown[v][t].selections = Selections(v, t)
  BY DEF DrawnInv, Markers
<1>2. \A d, l : \A m \in CaretsOf(v, t, d, l) : m.client = d
  BY DEF CaretsOf
<1>3. \A d, l : \A m \in SelectionsOf(v, t, d, l) : m.client = d
  BY DEF SelectionsOf
<1>4. \A m : m \in Carets(v, t) <=> \E d \in Others(v) : m \in CaretsOf(v, t, d, cursors[v][d])
  BY DEF Carets
<1>5. \A m : m \in Selections(v, t) <=> \E d \in Others(v) : m \in SelectionsOf(v, t, d, cursors[v][d])
  BY DEF Selections
<1> QED
  BY <1>1, <1>2, <1>3, <1>4, <1>5

LEMMA DrawnTrueInv == CursorsInv => DrawnTrue
<1> SUFFICES ASSUME CursorsInv, NEW c \in Client, NEW v \in Client, c # v, AllArrived(c), AllArrived(v), kept[c] # Nil
             PROVE
    LET t == kept[c]
        ranges == ToSet(selection[c][t])
        wide == {r \in ranges : r.anchor # r.head}
        drawn == {[anchor |-> m.anchor, head |-> m.head] :
                    m \in {m \in shown[v][t].selections : m.client = c}}
    IN /\ {m.head : m \in {m \in shown[v][t].carets : m.client = c}} = {r.head : r \in ranges}
       /\ drawn \subseteq wide
       /\ wide = ranges => drawn = wide
  BY DEF DrawnTrue
<1>0. TextTypes /\ SentTypes /\ TextInv /\ PendingInv /\ SelectionInv /\ KeptInv /\ LastInv /\ DrawnInv
  BY DEF CursorsInv
<1> DEFINE t == kept[c]
           s == selection[c][t]
           l == cursors[v][c]
           C == {m \in shown[v][t].carets : m.client = c}
           S == {m \in shown[v][t].selections : m.client = c}
           At1(i) == [client |-> c, head |-> s[i].head]
           At2(i) == [client |-> c, anchor |-> s[i].anchor, head |-> s[i].head]
           Wide(i) == \A j \in 1 .. i : s[j].anchor # s[j].head
<1>1. t \in Editor
  BY <1>0 DEF SentTypes
<1>2. /\ texts[c] = <<>> /\ texts[v] = <<>> /\ states[v] = <<>>
  BY DEF AllArrived
<1>3. l = Published(c, t)
  <2>1. From(v, c) = {}
    BY <1>2 DEF From
  <2> QED
    BY <1>0, <2>1 DEF LastInv, KeptInv
<1>4. c \in Others(v)
  <2>1. l \in Seq(Cursor)
    BY <1>0, <1>1, <1>3, PublishedRight
  <2> QED
    BY <2>1, NilAssumption DEF Others
<1>5. s \in Seq(OneRange) /\ DOMAIN s = 1 .. Len(s) /\ Len(s) \in Nat
  BY <1>0, <1>1, LenProperties DEF TextTypes
<1>6. C = CaretsOf(v, t, c, l) /\ S = SelectionsOf(v, t, c, l)
  BY <1>0, <1>1, <1>4, DrawnOf
<1>7. \A i \in DOMAIN s :
        l[i] = [anchor |-> Relative(c, t, s[i].anchor), head |-> Relative(c, t, s[i].head),
                empty |-> s[i].anchor = s[i].head]
  BY <1>3 DEF Published
<1>8. DOMAIN l = DOMAIN s
  BY <1>3 DEF Published
<1>9. ASSUME NEW i \in DOMAIN s
      PROVE  /\ Here(v, t, l[i]) /\ Absolute(v, l[i].head) = s[i].head /\ Absolute(v, l[i].anchor) = s[i].anchor
             /\ l[i].empty <=> s[i].anchor = s[i].head
             /\ s[i] = [anchor |-> s[i].anchor, head |-> s[i].head]
  <2>1. s[i] \in OneRange
    BY <1>5
  <2>2. /\ s[i].anchor \in Nat /\ s[i].anchor <= Length(c, t)
        /\ s[i].head \in Nat /\ s[i].head <= Length(c, t)
    BY <1>0, <1>1, <2>1 DEF SelectionInv, OneRange
  <2>3. ASSUME NEW k \in Nat, k <= Length(c, t)
        PROVE  Resolved(v, t, Relative(c, t, k)) /\ Absolute(v, Relative(c, t, k)) = k
    <3>1. /\ Relative(c, t, k).text = t /\ Absolute(c, Relative(c, t, k)) = k
          /\ Relative(c, t, k).item \in Visible(c, t) \cup {AtEnd}
      BY <1>0, <1>1, <2>3, AbsoluteRelative
    <3>2. Visible(c, t) = Visible(v, t) /\ Absolute(v, Relative(c, t, k)) = Absolute(c, Relative(c, t, k))
      BY <1>0, <1>1, <1>2, <3>1, OneText
    <3>3. Known(v, Relative(c, t, k))
      BY <3>1, <3>2 DEF Known, Visible
    <3> QED
      BY <3>1, <3>2, <3>3 DEF Resolved
  <2>4. s[i] = [anchor |-> s[i].anchor, head |-> s[i].head]
    BY <2>1 DEF OneRange
  <2>5. /\ l[i].anchor = Relative(c, t, s[i].anchor) /\ l[i].head = Relative(c, t, s[i].head)
        /\ l[i].empty <=> s[i].anchor = s[i].head
    <3>1. l[i] = [anchor |-> Relative(c, t, s[i].anchor), head |-> Relative(c, t, s[i].head),
                  empty |-> s[i].anchor = s[i].head]
      BY <1>7
    <3> HIDE DEF s, l, t
    <3>2. l[i].anchor = Relative(c, t, s[i].anchor) /\ l[i].head = Relative(c, t, s[i].head)
      BY <3>1
    <3>3. l[i].empty <=> s[i].anchor = s[i].head
      <4>1. CASE s[i].anchor = s[i].head
        <5>1. l[i] = [anchor |-> Relative(c, t, s[i].anchor), head |-> Relative(c, t, s[i].head), empty |-> TRUE]
          BY <3>1, <4>1, Zenon
        <5> QED
          BY <4>1, <5>1
      <4>2. CASE s[i].anchor # s[i].head
        <5>1. l[i] = [anchor |-> Relative(c, t, s[i].anchor), head |-> Relative(c, t, s[i].head), empty |-> FALSE]
          BY <3>1, <4>2, Zenon
        <5> QED
          BY <4>2, <5>1
      <4> QED
        BY <4>1, <4>2
    <3> QED
      BY <3>2, <3>3
  <2> HIDE DEF s, l, t
  <2>6. /\ Resolved(v, t, l[i].anchor) /\ Absolute(v, l[i].anchor) = s[i].anchor
        /\ Resolved(v, t, l[i].head) /\ Absolute(v, l[i].head) = s[i].head
    BY <2>2, <2>3, <2>5
  <2> QED
    BY <2>4, <2>5, <2>6 DEF Here
<1> HIDE DEF s, l, t
<1>10. C = {At1(i) : i \in DOMAIN s}
  <2>1. \A i \in DOMAIN s : \A j \in 1 .. i : Here(v, t, l[j])
    BY <1>5, <1>9
  <2>2. {i \in DOMAIN l : \A j \in 1 .. i : Here(v, t, l[j])} = DOMAIN s
    BY <1>8, <2>1
  <2>3. CaretsOf(v, t, c, l) = {[client |-> c, head |-> Absolute(v, l[i].head)] : i \in DOMAIN s}
    BY <2>2 DEF CaretsOf
  <2> QED
    BY <1>6, <1>9, <2>3
<1>11. S = {At2(i) : i \in {i \in DOMAIN s : Wide(i)}}
  <2>1. ASSUME NEW i \in DOMAIN s PROVE (\A j \in 1 .. i : WideHere(v, t, l[j])) <=> Wide(i)
    <3>1. 1 .. i \subseteq DOMAIN s
      BY <1>5
    <3> QED
      BY <1>9, <3>1 DEF WideHere
  <2>2. {i \in DOMAIN l : \A j \in 1 .. i : WideHere(v, t, l[j])} = {i \in DOMAIN s : Wide(i)}
    BY <1>8, <2>1
  <2>3. SelectionsOf(v, t, c, l) =
          {[client |-> c, anchor |-> Absolute(v, l[i].anchor), head |-> Absolute(v, l[i].head)] :
             i \in {i \in DOMAIN s : Wide(i)}}
    BY <2>2 DEF SelectionsOf
  <2> QED
    BY <1>6, <1>9, <2>3
<1> HIDE DEF C, S
<1> DEFINE ranges == ToSet(s)
           wide == {r \in ranges : r.anchor # r.head}
           drawn == {[anchor |-> m.anchor, head |-> m.head] : m \in S}
<1>12. {m.head : m \in C} = {r.head : r \in ranges}
  <2>1. \A i \in DOMAIN s : At1(i) \in C /\ At1(i).head = s[i].head /\ s[i] \in ranges
    BY <1>10 DEF ToSet
  <2>2. \A m \in C : \E i \in DOMAIN s : m = At1(i)
    BY <1>10
  <2>3. \A r \in ranges : \E i \in DOMAIN s : r = s[i]
    BY DEF ToSet
  <2> HIDE DEF At1, ranges
  <2>4. ASSUME NEW h PROVE h \in {m.head : m \in C} <=> h \in {r.head : r \in ranges}
    BY <2>1, <2>2, <2>3
  <2> QED
    BY <2>4
<1>13. ASSUME NEW d \in drawn PROVE d \in wide
  <2>1. PICK i \in DOMAIN s : Wide(i) /\ d = [anchor |-> At2(i).anchor, head |-> At2(i).head]
    BY <1>11
  <2>2. d = s[i] /\ i \in 1 .. i
    BY <1>5, <1>9, <2>1
  <2> QED
    BY <2>1, <2>2 DEF ToSet
<1>14. ASSUME wide = ranges, NEW r \in wide PROVE r \in drawn
  <2>1. PICK i \in DOMAIN s : r = s[i]
    BY DEF ToSet
  <2>2. \A j \in DOMAIN s : s[j].anchor # s[j].head
    BY <1>14 DEF ToSet
  <2>3. Wide(i)
    BY <1>5, <2>2
  <2>4. At2(i) \in S /\ r = [anchor |-> At2(i).anchor, head |-> At2(i).head]
    BY <1>9, <1>11, <2>1, <2>3
  <2> QED
    BY <2>4
<1>15. /\ {m.head : m \in C} = {r.head : r \in ranges} /\ drawn \subseteq wide
       /\ wide = ranges => drawn = wide
  BY <1>12, <1>13, <1>14
<1> QED
  BY <1>15 DEF C, S, s, t

LEMMA OneEditorInv == CursorsInv => OneEditor
<1> SUFFICES ASSUME CursorsInv, NEW c \in Client, NEW v \in Client, c # v
             PROVE  LET In(t) == \E m \in shown[v][t].carets \cup shown[v][t].selections : m.client = c
                    IN /\ \A t, u \in Editor : In(t) /\ In(u) => t = u
                       /\ cursors[v][c] = Nil => \A t \in Editor : ~In(t)
  BY DEF OneEditor
<1>0. SentTypes /\ CursorListInv /\ DrawnInv
  BY DEF CursorsInv
<1> DEFINE l == cursors[v][c]
           Seen(t) == \E m \in shown[v][t].carets \cup shown[v][t].selections : m.client = c
<1>1. ASSUME NEW t \in Editor, Seen(t) PROVE l # Nil /\ \E i \in DOMAIN l : l[i].head.text = t
  <2>1. PICK m \in shown[v][t].carets \cup shown[v][t].selections : m.client = c
    BY <1>1
  <2>2. c \in Others(v) /\ (m \in CaretsOf(v, t, c, l) \/ m \in SelectionsOf(v, t, c, l))
    BY <1>0, <2>1, DrawnOf
  <2>3. l # Nil /\ l \in Seq(Cursor)
    BY <1>0, <2>2 DEF Others, SentTypes, CursorList
  <2>4. DOMAIN l = 1 .. Len(l) /\ Len(l) \in Nat
    BY <2>3, LenProperties
  <2> HIDE DEF l
  <2>5. \E i \in DOMAIN l : \A j \in 1 .. i : Here(v, t, l[j])
    BY <2>2 DEF CaretsOf, SelectionsOf, WideHere
  <2>6. PICK i \in DOMAIN l : \A j \in 1 .. i : Here(v, t, l[j])
    BY <2>5
  <2>7. Here(v, t, l[i])
    BY <2>4, <2>6
  <2> QED
    BY <2>3, <2>7 DEF Here, Resolved
<1>2. ListRight(l)
  BY <1>0 DEF CursorListInv
<1>3. ASSUME NEW t \in Editor, NEW u \in Editor, Seen(t), Seen(u) PROVE t = u
  <2>1. l # Nil /\ (\E i \in DOMAIN l : l[i].head.text = t) /\ \E i \in DOMAIN l : l[i].head.text = u
    BY <1>1, <1>3
  <2> HIDE DEF l
  <2> QED
    BY <1>2, <2>1 DEF ListRight
<1>4. l = Nil => \A t \in Editor : ~Seen(t)
  BY <1>1
<1> QED
  BY <1>3, <1>4

LEMMA HoverTrueInv == CursorsInv => HoverTrue
<1> SUFFICES ASSUME CursorsInv, NEW v \in Client, NEW t \in Editor, NEW m \in shown[v][t].carets
             PROVE  /\ m.client \in Hover(v, t, m.head)
                    /\ texts[v] = <<>> =>
                         \A c \in Hover(v, t, m.head) :
                           \E n \in shown[v][t].carets :
                             n.client = c /\ n.head \in m.head - Margin .. m.head + Margin
  BY DEF HoverTrue
<1>0. TextTypes /\ SentTypes /\ TextInv /\ PendingInv /\ CursorListInv /\ DrawnInv /\ Margin \in Nat
  BY RangesAssumption DEF CursorsInv
<1>1. \A p : p.text = t => Absolute(v, p) \in Nat
  <2>1. Length(v, t) \in Nat /\ \A x : Index(v, t, x) \in 0 .. Length(v, t)
    BY <1>0, TextsOrdered
  <2> QED
    BY <2>1 DEF Absolute
<1>2. ASSUME NEW c \in Others(v)
      PROVE  /\ cursors[v][c] \in Seq(Cursor) /\ cursors[v][c] # Nil /\ ListRight(cursors[v][c])
             /\ DOMAIN cursors[v][c] = 1 .. Len(cursors[v][c]) /\ Len(cursors[v][c]) \in Nat
  <2>1. cursors[v][c] \in Seq(Cursor) /\ cursors[v][c] # Nil /\ ListRight(cursors[v][c])
    BY <1>0 DEF Others, SentTypes, CursorList, CursorListInv
  <2> QED
    BY <2>1, LenProperties
<1>3. m.client \in Hover(v, t, m.head) /\ m.head \in Nat
  <2> DEFINE c == m.client
             l == cursors[v][c]
  <2>1. c \in Others(v) /\ m \in CaretsOf(v, t, c, l)
    BY <1>0, DrawnOf
  <2>2. DOMAIN l = 1 .. Len(l) /\ Len(l) \in Nat
    BY <1>2, <2>1
  <2> HIDE DEF l
  <2>3. PICK i \in DOMAIN l : (\A j \in 1 .. i : Here(v, t, l[j])) /\ m = [client |-> c, head |-> Absolute(v, l[i].head)]
    BY <2>1 DEF CaretsOf
  <2>4. Here(v, t, l[i])
    BY <2>2, <2>3
  <2>5. m.head = Absolute(v, l[i].head) /\ Resolved(v, t, l[i].head) /\ l[i] \in ToSet(l)
    <3>1. m.head = Absolute(v, l[i].head)
      BY <2>3
    <3> QED
      BY <2>4, <3>1 DEF Here, ToSet
  <2>6. m.head \in Nat
    BY <1>1, <2>5 DEF Resolved
  <2>7. m.head \in Absolute(v, l[i].head) - Margin .. Absolute(v, l[i].head) + Margin
    BY <1>0, <2>5, <2>6
  <2> QED
    BY <2>1, <2>5, <2>6, <2>7 DEF Hover, Named, l
<1>4. ASSUME texts[v] = <<>>, NEW c \in Hover(v, t, m.head)
      PROVE  \E n \in shown[v][t].carets : n.client = c /\ n.head \in m.head - Margin .. m.head + Margin
  <2> DEFINE l == cursors[v][c]
  <2>1. c \in Others(v)
    BY DEF Hover, Named
  <2>2. /\ l # Nil /\ ListRight(l) /\ DOMAIN l = 1 .. Len(l) /\ Len(l) \in Nat
    BY <1>2, <2>1
  <2>3. PICK k \in ToSet(l) :
          Resolved(v, t, k.head) /\ m.head \in Absolute(v, k.head) - Margin .. Absolute(v, k.head) + Margin
    BY DEF Hover
  <2>4. \A d : \A n : n \in CaretsOf(v, t, c, l) => n \in shown[v][t].carets
    BY <1>0, <2>1, DrawnOf
  <2> HIDE DEF l
  <2>5. PICK i \in DOMAIN l : k = l[i]
    BY DEF ToSet
  <2>6. ASSUME NEW j \in DOMAIN l PROVE Here(v, t, l[j])
    <3>1. /\ OfText(l[j].anchor) /\ OfText(l[j].head) /\ l[j].anchor.text = l[j].head.text
          /\ l[j].head.text = l[i].head.text
      BY <2>2, <2>5 DEF ListRight
    <3>2. l[j].anchor.text = t /\ l[j].head.text = t
      BY <2>3, <2>5, <3>1 DEF Resolved
    <3>3. Chars(t) \subseteq has[v]
      BY <1>0, <1>4, AllKnown
    <3> QED
      BY <3>1, <3>2, <3>3 DEF OfText, Here, Resolved, Known
  <2>7. \A j \in 1 .. i : Here(v, t, l[j])
    BY <2>2, <2>5, <2>6
  <2> DEFINE n == [client |-> c, head |-> Absolute(v, l[i].head)]
  <2>8. n \in CaretsOf(v, t, c, l)
    BY <2>5, <2>7 DEF CaretsOf
  <2>9. Absolute(v, l[i].head) \in Nat
    BY <1>1, <2>3, <2>5 DEF Resolved
  <2>10. n.client = c /\ n.head \in m.head - Margin .. m.head + Margin
    BY <1>0, <1>3, <2>3, <2>5, <2>9
  <2> QED
    BY <2>4, <2>8, <2>10
<1> QED
  BY <1>3, <1>4

\* When all has arrived, the others see of a user who has stayed in an editor
\* each cursor where it is, and of his selections no other than he has made
\* (remoteCursorsLayer and remoteSelectionLayer, cursors.ts).
THEOREM DrawnTruly == CursorsSpec => []DrawnTrue
BY CursorsInvRight, DrawnTrueInv, PTL

\* A user is drawn in one editor at most, and in none once he has left
\* (the text of a cursor is compared, and null states passed over, cursors.ts).
THEOREM DrawnOnce == CursorsSpec => []OneEditor
BY CursorsInvRight, OneEditorInv, PTL

\* The tooltip on a cursor names its user, and when the texts have arrived
\* nobody without a cursor near it (userHover, cursors.ts).
THEOREM HoverNamesRight == CursorsSpec => []HoverTrue
BY CursorsInvRight, HoverTrueInv, PTL

-----------------------------------------------------------------------------
(* The dialog that shares a link                                           *)

USE BoundAssumption

-----------------------------------------------------------------------------
(* Recipients                                                              *)

\* The users of the hub and its groups are recipients, told apart from none.
LEMMA Recipients ==
  /\ \A names \in SUBSET Range(Users) : Unshared("user", names) \subseteq Recipient
  /\ \A names \in SUBSET Groups : Unshared("group", names) \subseteq Recipient
BY DEF Unshared, Recipient, User, Group

\* A page of users is of users.
LEMMA Page ==
  ASSUME NEW offset \in Nat
  PROVE  Range(SubSeq(Users, offset + 1, Min({offset + Limit, Len(Users)}))) \subseteq Range(Users)
<1> DEFINE n == Min({offset + Limit, Len(Users)})
<1>1. Users \in Seq(Range(Users)) /\ Len(Users) \in Nat
  BY UserAssumption
<1>2. n \in Int /\ n <= Len(Users)
  <2>1. \E x \in {offset + Limit, Len(Users)} : \A y \in {offset + Limit, Len(Users)} : x <= y
    BY <1>1
  <2> QED
    BY <1>1, <2>1 DEF Min
<1>3. \A i \in (offset + 1) .. n : Users[i] \in Range(Users)
  <2>1. \A i \in 1 .. Len(Users) : Users[i] \in Range(Users)
    BY <1>1
  <2> QED
    BY <1>1, <1>2, <2>1
<1> HIDE DEF n
<1>4. SubSeq(Users, offset + 1, n) \in Seq(Range(Users))
  BY <1>1, <1>2, <1>3, SubSeqProperties
<1>5. \A S : \A s \in Seq(S) : Range(s) \subseteq S
  BY DEF Range
<1> QED
  BY <1>4, <1>5 DEF n

-----------------------------------------------------------------------------
(* Chains                                                                  *)

OtherChains(c) == {e \in chains : e.id # c.id}

\* The answer to a request for shares, users or groups takes the chain to the next
\* request, or to its end.
Onward(c) ==
  \/ chains' = OtherChains(c)
  \/ \E d \in Chain : /\ d.id = c.id /\ d.kind = c.kind /\ d.who = c.who
                      /\ d.stage \in {"users", "groups"} /\ d.before \subseteq c.before
                      /\ chains' = OtherChains(c) \cup {d}

LEMMA Proceeds ==
  ASSUME TypeOK, NEW c \in Chain, NEW stage \in {"users", "groups", "end"},
         NEW loaded \in SUBSET Recipient, Proceed(c, stage, loaded)
  PROVE  recipients' \subseteq Recipient /\ listed' \subseteq Recipient /\ Onward(c)
<1>1. CASE stage # "end"
  <2> DEFINE d == [c EXCEPT !.stage = stage, !.got = {}, !.offset = 0]
  <2>1. /\ d \in Chain /\ d.id = c.id /\ d.stage \in {"users", "groups"} /\ d.before = c.before
        /\ d.kind = c.kind /\ d.who = c.who
    BY <1>1 DEF Chain
  <2>2. chains' = OtherChains(c) \cup {d} /\ recipients' = loaded /\ listed' = listed
    BY <1>1 DEF Proceed, Move, OtherChains
  <2> HIDE DEF d
  <2> QED
    BY <2>1, <2>2 DEF Onward, TypeOK
<1>2. CASE stage = "end"
  <2>1. chains' = OtherChains(c)
    BY <1>2 DEF Proceed, End, OtherChains
  <2>2. recipients' = (IF c.kind = "open" THEN loaded ELSE Kept(loaded, shares')) /\ listed' = recipients'
    BY <1>2 DEF Proceed
  <2> QED
    BY <2>1, <2>2 DEF Kept, Onward
<1> QED
  BY <1>1, <1>2

LEMMA Answers ==
  ASSUME TypeOK, NEW c \in chains, SharesArrive(c) \/ UsersArrive(c) \/ GroupsArrive(c)
  PROVE  recipients' \subseteq Recipient /\ listed' \subseteq Recipient /\ Onward(c)
<1>1. c \in Chain
  BY DEF TypeOK
<1>2. CASE SharesArrive(c)
  <2> DEFINE e == [c EXCEPT !.read = {}, !.before = {}]
  <2>1. e \in Chain /\ e.id = c.id /\ e.kind = c.kind /\ e.who = c.who /\ e.before \subseteq c.before
    BY <1>1 DEF Chain
  <2>3. Proceed(e, AfterShares(c), recipients) /\ AfterShares(c) \in {"users", "groups", "end"}
    BY <1>2 DEF SharesArrive, AfterShares, AfterUsers
  <2> HIDE DEF e
  <2>4. recipients' \subseteq Recipient /\ listed' \subseteq Recipient /\ Onward(e)
    BY <2>1, <2>3, Proceeds DEF TypeOK
  <2>5. OtherChains(e) = OtherChains(c)
    BY <2>1 DEF OtherChains
  <2> QED
    BY <2>1, <2>4, <2>5 DEF Onward
<1>3. CASE UsersArrive(c)
  <2> DEFINE data == SubSeq(Users, c.offset + 1, Min({c.offset + Limit, Len(Users)}))
  <2> DEFINE got == c.got \cup Range(data)
  <2>1. c.offset \in Nat /\ got \subseteq Range(Users)
    BY <1>1, Page DEF Chain
  <2>2. CASE HasMore(data)
    <3> DEFINE d == [c EXCEPT !.got = got, !.offset = @ + Limit]
    <3>1. /\ c.stage = "users" /\ chains' = OtherChains(c) \cup {d} /\ UNCHANGED <<recipients, listed>>
      BY <1>3, <2>2 DEF UsersArrive, Move, OtherChains
    <3> HIDE DEF got
    <3>2. /\ d \in Chain /\ d.id = c.id /\ d.kind = c.kind /\ d.who = c.who
          /\ d.stage = c.stage /\ d.before = c.before
      <4>1. c.offset + Limit \in Nat
        BY <2>1
      <4> DEFINE offset == c.offset + Limit
      <4> HIDE DEF offset
      <4>2. [c EXCEPT !.got = got, !.offset = offset] \in Chain
        BY <1>1, <2>1, <4>1 DEF Chain, offset
      <4> QED
        BY <1>1, <4>2 DEF Chain, offset
    <3> HIDE DEF d
    <3> QED
      BY <3>1, <3>2 DEF Onward, TypeOK
  <2>3. CASE ~HasMore(data)
    <3>1. Proceed(c, AfterUsers(c), Unshared("user", got \ {Owner}))
      BY <1>3, <2>3 DEF UsersArrive
    <3>2. Unshared("user", got \ {Owner}) \subseteq Recipient
      BY <2>1, Recipients
    <3>3. AfterUsers(c) \in {"users", "groups", "end"}
      BY DEF AfterUsers
    <3> QED
      BY <1>1, <3>1, <3>2, <3>3, Proceeds
  <2> QED
    BY <2>2, <2>3
<1>4. CASE GroupsArrive(c)
  <2>1. Proceed(c, "end", recipients \cup Unshared("group", Groups))
    BY <1>4 DEF GroupsArrive
  <2>2. recipients \cup Unshared("group", Groups) \subseteq Recipient
    BY Recipients DEF TypeOK
  <2> QED
    BY <1>1, <2>1, <2>2, Proceeds
<1> QED
  BY <1>2, <1>3, <1>4

LEMMA TypeStep ==
  ASSUME IInv, Next
  PROVE  TypeOK'
<1>0. TypeOK
  BY DEF IInv
<1>1. ASSUME NEW p \in Recipient, Share(p) \/ Revoke(p) PROVE TypeOK'
  <2>1. PICK kind \in {"create", "revoke"} : chains' = chains \cup {NewChain(begun', kind, p, "change")}
    BY <1>1 DEF Share, Revoke
  <2>2. /\ begun' = begun + 1 /\ begun < MaxChains
        /\ UNCHANGED <<dialog, rights, hub, lists, history, page>>
    BY <1>1 DEF Share, Revoke
  <2>3. begun' \in 1 .. MaxChains
    <3>1. begun' = begun + 1 /\ begun < MaxChains /\ begun \in 0 .. MaxChains
      BY <1>0, <2>2 DEF TypeOK
    <3> QED
      BY <3>1
  <2>4. NewChain(begun', kind, p, "change") \in Chain
    BY <2>3 DEF NewChain, Chain
  <2>5. chains' \subseteq Chain
    BY <1>0, <2>1, <2>4 DEF TypeOK
  <2>6. begun' \in 0 .. MaxChains
    BY <2>3
  <2>7. UNCHANGED <<dialog, rights, hub, shares, recipients, listed, passed, stale, failed,
                    box, input, warning, copied>>
    BY <2>2 DEF lists, history, page
  <2> QED
    BY <1>0, <2>5, <2>6, <2>7 DEF TypeOK
<1>2. CASE Search
  BY <1>0, <1>2 DEF Search, TypeOK, history, page
<1>3. ASSUME NEW c \in chains, Change(c) PROVE TypeOK'
  <2>1. [c EXCEPT !.stage = "shares"] \in Chain /\ c.who \in Recipient \cup {None}
    BY <1>0 DEF TypeOK, Chain
  <2>2. chains' \subseteq Chain
    BY <1>0, <1>3, <2>1 DEF Change, Move, TypeOK
  <2>3. hub' \subseteq Recipient
    <3>1. c.kind = "create" => c.who \in Recipient
      BY DEF IInv, ChainInv
    <3> QED
      BY <1>0, <1>3, <3>1 DEF Change, TypeOK
  <2> QED
    BY <1>0, <1>3, <2>2, <2>3 DEF Change, TypeOK, lists, history, page
<1>4. ASSUME NEW c \in chains, ReadShares(c) PROVE TypeOK'
  <2>1. [c EXCEPT !.stage = "answer", !.read = hub, !.before = {e.id : e \in OnItsWay}] \in Chain
    <3>1. {e.id : e \in OnItsWay} \subseteq 1 .. MaxChains
      BY <1>0 DEF TypeOK, Chain, OnItsWay
    <3> QED
      BY <1>0, <3>1 DEF TypeOK, Chain
  <2>2. chains' \subseteq Chain
    BY <1>0, <1>4, <2>1 DEF ReadShares, Move, TypeOK
  <2> QED
    BY <1>0, <1>4, <2>2 DEF ReadShares, TypeOK, lists, history, page
<1>5. ASSUME NEW c \in chains, SharesArrive(c) \/ UsersArrive(c) \/ GroupsArrive(c) PROVE TypeOK'
  <2>1. recipients' \subseteq Recipient /\ listed' \subseteq Recipient /\ chains' \subseteq Chain
    BY <1>0, <1>5, Answers DEF Onward, OtherChains, TypeOK
  <2>2. shares' \subseteq Recipient
    BY <1>0, <1>5 DEF SharesArrive, UsersArrive, GroupsArrive, Told, TypeOK, Chain
  <2>3. passed' \subseteq 1 .. MaxChains /\ stale' \in BOOLEAN /\ failed' \in BOOLEAN
    BY <1>0, <1>5 DEF SharesArrive, UsersArrive, GroupsArrive, Arrived, OnItsWay, history, TypeOK, Chain
  <2> QED
    BY <1>0, <1>5, <2>1, <2>2, <2>3 DEF SharesArrive, UsersArrive, GroupsArrive, TypeOK, page
<1>6. ASSUME NEW c \in chains, Fails(c) PROVE TypeOK'
  BY <1>0, <1>6 DEF Fails, End, TypeOK, lists, page
<1>7. CASE ToggleToken
  BY <1>0, <1>7 DEF ToggleToken, Warn, TypeOK, lists, history
<1>8. CASE CopyLink
  BY <1>0, <1>8 DEF CopyLink, Value, TypeOK, lists, history
<1> QED
  BY <1>1, <1>2, <1>3, <1>4, <1>5, <1>6, <1>7, <1>8 DEF Next, Clicked, Answered

\* A chain is the same as before, or has gone on.
Follows(d, c) ==
  /\ d.id = c.id /\ d.kind = c.kind /\ d.who = c.who /\ d.before \subseteq c.before
  /\ d.stage \in {"change", "shares"} => c.stage \in {"change", "shares"}

LEMMA ChainsFollow ==
  ASSUME TypeOK, ChainInv, TypeOK', begun' = begun,
         \A d \in chains' : \E c \in chains : Follows(d, c),
         \A d, e \in chains' : e.id = d.id => e = d,
         passed' \subseteq 1 .. begun,
         \A c \in chains : c.stage \in {"change", "shares"} => c.id \notin passed'
  PROVE  ChainInv'
<1>1. ASSUME NEW d \in chains'
      PROVE  /\ d.id <= begun' /\ (d.kind = "create" => d.who \in Recipient)
             /\ d.stage \in {"change", "shares"} => d.id \notin passed'
             /\ \A i \in d.before : i <= begun'
  BY DEF ChainInv, Follows
<1>2. ASSUME NEW d \in chains', NEW e \in chains', d.id \in e.before
      PROVE  d.stage \notin {"change", "shares"} /\ e.id \notin d.before
  <2>1. PICK c \in chains : Follows(d, c)
    OBVIOUS
  <2>2. PICK b \in chains : Follows(e, b)
    OBVIOUS
  <2>3. c.id \in b.before
    BY <1>2, <2>1, <2>2 DEF Follows
  <2>4. c.stage \notin {"change", "shares"} /\ b.id \notin c.before
    BY <2>3 DEF ChainInv
  <2> QED
    BY <2>1, <2>2, <2>4 DEF Follows
<1> QED
  BY <1>1, <1>2 DEF ChainInv

\* Numbers are numbers.
LEMMA ChainTypes ==
  ASSUME TypeOK
  PROVE  /\ begun \in Nat
         /\ \A c \in chains : c \in Chain /\ c.id \in 1 .. MaxChains /\ c.before \subseteq 1 .. MaxChains
<1>1. begun \in 0 .. MaxChains /\ chains \subseteq Chain
  BY DEF TypeOK
<1>2. begun \in Nat
  BY <1>1
<1> QED
  BY <1>1, <1>2 DEF Chain

LEMMA ChainStep ==
  ASSUME IInv, Next
  PROVE  ChainInv'
<1>0. TypeOK /\ ChainInv /\ TypeOK'
  BY TypeStep DEF IInv
<1>1. ASSUME NEW p \in Recipient, Share(p) \/ Revoke(p) PROVE ChainInv'
  <2>1. PICK kind \in {"create", "revoke"} : chains' = chains \cup {NewChain(begun', kind, p, "change")}
    BY <1>1 DEF Share, Revoke
  <2> DEFINE d == NewChain(begun', kind, p, "change")
  <2>2. begun' = begun + 1 /\ begun \in Nat /\ passed' = passed
    <3>1. begun' = begun + 1 /\ UNCHANGED history
      BY <1>1 DEF Share, Revoke
    <3> QED
      BY <1>0, <3>1, ChainTypes DEF history
  <2>3. d.id = begun + 1 /\ d.who = p /\ d.before = {}
    BY <2>2 DEF NewChain
  <2>4. passed' \subseteq 1 .. begun' /\ begun + 1 \notin passed
    BY <1>0, <2>2 DEF ChainInv
  <2>5. \A c \in chains : /\ c.id \in Nat /\ c.id <= begun /\ c.id # begun + 1 /\ c.id <= begun + 1
                          /\ \A i \in c.before : i \in Nat /\ i <= begun /\ i # begun + 1 /\ i <= begun + 1
    <3>1. \A c \in chains : c.id \in Nat /\ c.id <= begun
                            /\ \A i \in c.before : i \in Nat /\ i <= begun
      BY <1>0, ChainTypes DEF ChainInv
    <3> QED
      BY <2>2, <3>1
  <2> HIDE DEF d
  <2> QED
    BY <1>0, <2>1, <2>2, <2>3, <2>4, <2>5 DEF ChainInv, d
<1>2. ASSUME UNCHANGED <<begun, chains, passed>> PROVE ChainInv'
  BY <1>0, <1>2 DEF ChainInv
<1>3. ASSUME NEW c \in chains, begun' = begun, passed' \subseteq 1 .. begun,
             \A d \in chains' : d \in OtherChains(c) \/ Follows(d, c),
             \A d, e \in chains' \ OtherChains(c) : d = e,
             \A e \in chains : e.stage \in {"change", "shares"} => e.id \notin passed'
      PROVE  ChainInv'
  <2>1. \A d \in chains' : \E e \in chains : Follows(d, e)
    <3>1. \A d \in OtherChains(c) : d \in chains /\ Follows(d, d)
      BY DEF OtherChains, Follows
    <3> QED
      BY <1>3, <3>1
  <2>2. \A d, e \in chains' : e.id = d.id => e = d
    BY <1>0, <1>3 DEF OtherChains, Follows, ChainInv
  <2> QED
    BY <1>0, <1>3, <2>1, <2>2, ChainsFollow
<1>4. ASSUME NEW c \in chains, Change(c) PROVE ChainInv'
  <2> DEFINE d == [c EXCEPT !.stage = "shares"]
  <2>1. Follows(d, c)
    BY <1>0, <1>4 DEF Change, Follows, TypeOK, Chain
  <2>2. chains' = OtherChains(c) \cup {d} /\ begun' = begun /\ passed' = passed
    BY <1>4 DEF Change, Move, OtherChains, history
  <2> HIDE DEF d
  <2>3. passed \subseteq 1 .. begun /\ \A e \in chains : e.stage \in {"change", "shares"} => e.id \notin passed
    BY <1>0 DEF ChainInv
  <2> QED
    BY <1>3, <2>1, <2>2, <2>3
<1>5. ASSUME NEW c \in chains, ReadShares(c) PROVE ChainInv'
  <2> DEFINE d == [c EXCEPT !.stage = "answer", !.read = hub, !.before = {e.id : e \in OnItsWay}]
  <2>1. /\ d.id = c.id /\ d.kind = c.kind /\ d.who = c.who /\ d.stage = "answer"
        /\ d.before = {e.id : e \in OnItsWay}
    BY <1>0 DEF TypeOK, Chain
  <2>2. chains' = OtherChains(c) \cup {d} /\ begun' = begun /\ passed' = passed /\ c.stage = "shares"
    BY <1>5 DEF ReadShares, Move, OtherChains, history
  <2> HIDE DEF d
  <2>3. c.id \notin d.before /\ \A e \in OnItsWay : e \in chains /\ e.stage = "answer"
    BY <1>0, <2>1, <2>2 DEF ChainInv, OnItsWay
  <2>4. \A e \in chains : c.id \notin e.before
    BY <1>0, <2>2 DEF ChainInv
  <2>5. \A i \in d.before : i <= begun
    BY <1>0, <2>1, <2>3 DEF ChainInv
  <2>6. ASSUME NEW x \in chains', NEW y \in chains'
        PROVE  /\ y.id = x.id => y = x
               /\ x.id \in y.before => x.stage \notin {"change", "shares"} /\ y.id \notin x.before
    <3>1. CASE x # d /\ y # d
      BY <1>0, <2>2, <3>1 DEF ChainInv, OtherChains
    <3>2. CASE x = d
      BY <1>0, <2>1, <2>2, <2>3, <2>4, <3>2 DEF OtherChains
    <3>3. CASE x # d /\ y = d
      <4>1. x \in chains /\ x.id # c.id
        BY <2>2, <3>3 DEF OtherChains
      <4>2. x.id \in d.before => x.stage = "answer"
        <5>1. ASSUME NEW e \in OnItsWay, x.id = e.id PROVE x.stage = "answer"
          BY <1>0, <2>3, <4>1, <5>1 DEF ChainInv
        <5> QED
          BY <2>1, <5>1
      <4> QED
        BY <2>1, <2>4, <3>3, <4>1, <4>2
    <3> QED
      BY <3>1, <3>2, <3>3
  <2>7. ASSUME NEW x \in chains'
        PROVE  /\ x.id <= begun /\ (x.kind = "create" => x.who \in Recipient)
               /\ x.stage \in {"change", "shares"} => x.id \notin passed
               /\ \A i \in x.before : i <= begun
    BY <1>0, <2>1, <2>2, <2>5 DEF ChainInv, OtherChains
  <2> QED
    BY <1>0, <2>2, <2>6, <2>7 DEF ChainInv
<1>6. ASSUME NEW c \in chains, SharesArrive(c) \/ UsersArrive(c) \/ GroupsArrive(c) PROVE ChainInv'
  <2>1. begun' = begun /\ Onward(c)
    BY <1>0, <1>6, Answers DEF SharesArrive, UsersArrive, GroupsArrive
  <2>2. /\ \A d \in chains' : d \in OtherChains(c) \/ Follows(d, c)
        /\ \A d, e \in chains' \ OtherChains(c) : d = e
    BY <2>1 DEF Onward, Follows
  <2>3. passed' \subseteq passed \cup {e.id : e \in OnItsWay}
    BY <1>6 DEF SharesArrive, UsersArrive, GroupsArrive, Arrived, history
  <2>4. \A e \in OnItsWay : e \in chains /\ e.stage = "answer" /\ e.id \in 1 .. begun
    <3>1. \A e \in OnItsWay : e \in chains /\ e.stage = "answer"
      BY DEF OnItsWay
    <3>2. \A e \in chains : e.id \in 1 .. begun
      BY <1>0, ChainTypes DEF ChainInv
    <3> QED
      BY <3>1, <3>2
  <2>5. passed' \subseteq 1 .. begun
    BY <1>0, <2>3, <2>4 DEF ChainInv
  <2>6. ASSUME NEW e \in chains, e.stage \in {"change", "shares"} PROVE e.id \notin passed'
    <3>1. e.id \notin passed
      BY <1>0, <2>6 DEF ChainInv
    <3>2. \A d \in OnItsWay : d.id # e.id
      BY <1>0, <2>4, <2>6 DEF ChainInv
    <3> QED
      BY <2>3, <3>1, <3>2
  <2> QED
    BY <1>3, <2>1, <2>2, <2>5, <2>6
<1>7. ASSUME NEW c \in chains, Fails(c) PROVE ChainInv'
  <2>1. chains' = OtherChains(c) /\ begun' = begun /\ passed' = passed
    BY <1>7 DEF Fails, End, OtherChains
  <2>2. passed \subseteq 1 .. begun /\ \A e \in chains : e.stage \in {"change", "shares"} => e.id \notin passed
    BY <1>0 DEF ChainInv
  <2> QED
    BY <1>3, <2>1, <2>2
<1>8. CASE CopyLink
  BY <1>0, <1>8 DEF CopyLink, ChainInv, history
<1> QED
  BY <1>1, <1>2, <1>4, <1>5, <1>6, <1>7, <1>8 DEF Next, Clicked, Answered, Search, ToggleToken, history

-----------------------------------------------------------------------------
(* The table of shares                                                     *)

\* A step that leaves the lists on their way alone, and who is still to read
LEMMA FreshKept ==
  ASSUME FreshInv, OnItsWay' = OnItsWay, UNCHANGED <<hub, shares, passed>>, Watched' => Watched,
         \A c \in chains : c.stage = "shares" => c \in chains'
  PROVE  FreshInv'
BY DEF FreshInv, Watched, LastReads

LEMMA FreshStep ==
  ASSUME IInv, Next
  PROVE  FreshInv'
<1>0. TypeOK /\ ChainInv /\ FreshInv
  BY DEF IInv
<1>1. ASSUME NEW p \in Recipient, Share(p) \/ Revoke(p) PROVE FreshInv'
  <2>1. PICK kind \in {"create", "revoke"} : chains' = chains \cup {NewChain(begun', kind, p, "change")}
    BY <1>1 DEF Share, Revoke
  <2>2. UNCHANGED <<dialog, hub, shares, passed, stale, failed, copied>>
    BY <1>1 DEF Share, Revoke, lists, history, page
  <2>3. NewChain(begun', kind, p, "change").stage = "change"
    BY DEF NewChain
  <2>4. OnItsWay' = OnItsWay
    BY <2>1, <2>3 DEF OnItsWay
  <2> QED
    BY <1>0, <2>1, <2>2, <2>4, FreshKept DEF Watched
<1>2. ASSUME UNCHANGED <<dialog, hub, chains, shares, passed, stale, failed>>, copied' = None => copied = None
      PROVE  FreshInv'
  BY <1>0, <1>2, FreshKept DEF Watched, OnItsWay
<1>3. ASSUME NEW c \in chains, Change(c) PROVE FreshInv'
  <2> DEFINE d == [c EXCEPT !.stage = "shares"]
  <2>1. d.stage = "shares"
    BY <1>0, ChainTypes DEF Chain
  <2>2. d \in chains'
    BY <1>3 DEF Change, Move
  <2> HIDE DEF d
  <2> QED
    BY <2>1, <2>2 DEF FreshInv
<1>4. ASSUME NEW c \in chains, ReadShares(c) PROVE FreshInv'
  <2>0. PICK d : d = [c EXCEPT !.stage = "answer", !.read = hub, !.before = {e.id : e \in OnItsWay}]
    OBVIOUS
  <2>1. /\ d.id = c.id /\ d.stage = "answer" /\ d.read = hub
        /\ d.before = {e.id : e \in OnItsWay}
    BY <1>0, <2>0, ChainTypes DEF Chain
  <2>2. chains' = OtherChains(c) \cup {d} /\ hub' = hub /\ passed' = passed /\ c.stage = "shares"
    BY <1>4, <2>0 DEF ReadShares, Move, OtherChains, history
  <2>3. d \in OnItsWay' /\ \A e \in OnItsWay' \ {d} : e \in OnItsWay
    BY <2>1, <2>2 DEF OnItsWay, OtherChains
  <2>4. LastReads(d)'
    <3>1. d.id \notin passed' /\ d.read = hub'
      BY <1>0, <2>1, <2>2 DEF ChainInv
    <3>2. \A e \in OnItsWay' \ {d} : e.id \in d.before
      BY <2>1, <2>3
    <3> QED
      BY <3>1, <3>2 DEF LastReads
  <2>5. \E e \in OnItsWay' : LastReads(e)'
    BY <2>3, <2>4
  <2> QED
    BY <2>5 DEF FreshInv
<1>5. ASSUME NEW c \in chains, SharesArrive(c) PROVE FreshInv'
  <2>1. /\ c.stage = "answer" /\ shares' = c.read /\ hub' = hub /\ failed' = failed
        /\ passed' = (passed \cup {e.id : e \in {d \in OnItsWay : d.id \in c.before}}) \ {c.id}
        /\ stale' = (stale \/ c.id \in passed) /\ dialog' = dialog /\ copied' = copied
    BY <1>5 DEF SharesArrive, Told, Arrived, page
  <2>2. Onward(c)
    BY <1>0, <1>5, Answers
  <2>3. /\ \A e \in chains' : (e \in chains /\ e.id # c.id) \/ e.stage \in {"users", "groups"}
        /\ \A e \in chains : e.id # c.id => e \in chains'
    BY <2>2 DEF Onward, OtherChains
  <2>4. c \in OnItsWay /\ \A e \in OnItsWay : e # c => e.id # c.id /\ e \in OnItsWay'
    BY <1>0, <2>1, <2>3 DEF OnItsWay, ChainInv
  <2>5. \A e \in OnItsWay' : e \in OnItsWay /\ e # c /\ e.id # c.id
    BY <2>3 DEF OnItsWay
  <2>6. SUFFICES ASSUME Watched' PROVE FreshInv'
    BY DEF Watched, FreshInv
  <2>7. Watched /\ c.id \notin passed
    BY <2>1, <2>6 DEF Watched
  <2>8. CASE \E e \in chains : e.stage = "shares"
    <3>1. PICK e \in chains : e.stage = "shares"
      BY <2>8
    <3>2. e.id # c.id
      BY <1>0, <2>1, <3>1 DEF ChainInv
    <3> QED
      BY <2>3, <3>1, <3>2 DEF FreshInv
  <2>9. CASE \E e \in OnItsWay : LastReads(e)
    <3>1. PICK e \in OnItsWay : LastReads(e)
      BY <2>9
    <3>2. CASE e = c
      <4>1. \A d \in OnItsWay' : d.id \in passed'
        BY <2>1, <2>5, <3>1, <3>2 DEF LastReads
      <4>2. shares' = hub'
        BY <2>1, <3>1, <3>2 DEF LastReads
      <4> QED
        BY <4>1, <4>2 DEF FreshInv
    <3>3. CASE e # c
      <4>1. e \in OnItsWay' /\ c.id \in e.before
        BY <2>4, <3>1, <3>3 DEF LastReads
      <4>2. e \in chains /\ e.id \notin c.before
        BY <1>0, <3>1, <4>1 DEF ChainInv, OnItsWay
      <4>3. e.id \notin passed'
        BY <2>1, <3>1, <4>2 DEF LastReads
      <4>4. LastReads(e)'
        BY <2>1, <2>5, <3>1, <4>3 DEF LastReads
      <4> QED
        BY <4>1, <4>4 DEF FreshInv
    <3> QED
      BY <3>2, <3>3
  <2> QED
    BY <1>0, <2>4, <2>7, <2>8, <2>9 DEF FreshInv, Watched
<1>6. ASSUME NEW c \in chains, UsersArrive(c) \/ GroupsArrive(c) PROVE FreshInv'
  <2>1. /\ c.stage \in {"users", "groups"}
        /\ UNCHANGED <<dialog, hub, shares, passed, stale, failed, copied>>
    BY <1>6 DEF UsersArrive, GroupsArrive, history, page
  <2>2. Onward(c)
    BY <1>0, <1>6, Answers
  <2>3. /\ \A e \in chains' : e \in chains \/ e.stage \in {"users", "groups"}
        /\ \A e \in chains : e.id # c.id => e \in chains'
    BY <2>2 DEF Onward, OtherChains
  <2>4. \A e \in chains : e.stage \in {"shares", "answer"} => e \in chains'
    BY <1>0, <2>1, <2>3 DEF ChainInv
  <2>5. OnItsWay' = OnItsWay
    BY <2>3, <2>4 DEF OnItsWay
  <2> QED
    BY <1>0, <2>1, <2>4, <2>5, FreshKept DEF Watched
<1>7. ASSUME NEW c \in chains, Fails(c) PROVE FreshInv'
  BY <1>7 DEF Fails, FreshInv, Watched
<1>8. CASE CopyLink
  <2>1. copied' # None
    BY <1>8, NoneAssumption DEF CopyLink, Value
  <2> QED
    BY <2>1 DEF FreshInv, Watched
<1>9. CASE Search \/ ToggleToken
  BY <1>2, <1>9 DEF Search, ToggleToken, history, page, lists
<1> QED
  BY <1>1, <1>3, <1>4, <1>5, <1>6, <1>7, <1>8, <1>9 DEF Next, Clicked, Answered

-----------------------------------------------------------------------------
(* What an answer does                                                     *)

\* The chain goes on to the next request with the recipients loaded, or ends.
Goes(c, stage, loaded) ==
  \/ /\ stage = "end" /\ chains' = OtherChains(c)
     /\ recipients' = IF c.kind = "open" THEN loaded ELSE Kept(loaded, shares')
     /\ listed' = recipients'
  \/ /\ stage # "end" /\ recipients' = loaded /\ listed' = listed
     /\ \E d \in Chain : /\ d.id = c.id /\ d.kind = c.kind /\ d.stage = stage
                         /\ d.got = {} /\ d.offset = 0
                         /\ chains' = OtherChains(c) \cup {d}

LEMMA Going ==
  ASSUME NEW c \in Chain, NEW stage \in {"users", "groups", "end"}, NEW loaded,
         Proceed(c, stage, loaded)
  PROVE  Goes(c, stage, loaded)
<1>1. CASE stage # "end"
  <2> DEFINE d == [c EXCEPT !.stage = stage, !.got = {}, !.offset = 0]
  <2>1. d \in Chain /\ d.id = c.id /\ d.stage = stage /\ d.kind = c.kind /\ d.got = {} /\ d.offset = 0
    BY <1>1 DEF Chain
  <2>2. chains' = OtherChains(c) \cup {d} /\ recipients' = loaded /\ listed' = listed
    BY <1>1 DEF Proceed, Move, OtherChains
  <2> HIDE DEF d
  <2> QED
    BY <1>1, <2>1, <2>2 DEF Goes
<1>2. CASE stage = "end"
  BY <1>2 DEF Proceed, End, OtherChains, Goes
<1> QED
  BY <1>1, <1>2

\* The shares have come: who only shared is done.
LEMMA SharesGo ==
  ASSUME TypeOK, NEW c \in chains, SharesArrive(c)
  PROVE  /\ c.stage = "answer" /\ shares' = c.read
         /\ UNCHANGED <<dialog, rights, hub, begun, failed, page>>
         /\ passed' = (passed \cup {e.id : e \in {d \in OnItsWay : d.id \in c.before}}) \ {c.id}
         /\ stale' = (stale \/ c.id \in passed)
         /\ Goes(c, AfterShares(c), recipients)
<1>1. c \in Chain
  BY DEF TypeOK
<1> DEFINE e == [c EXCEPT !.read = {}, !.before = {}]
<1>2. e \in Chain /\ e.id = c.id /\ e.kind = c.kind
  BY <1>1 DEF Chain
<1>3. Proceed(e, AfterShares(c), recipients) /\ AfterShares(c) \in {"users", "groups", "end"}
  BY DEF SharesArrive, AfterShares, AfterUsers
<1> HIDE DEF e
<1>4. Goes(e, AfterShares(c), recipients)
  BY <1>2, <1>3, Going
<1>5. Goes(c, AfterShares(c), recipients)
  BY <1>2, <1>4 DEF Goes, OtherChains
<1> QED
  BY <1>5 DEF SharesArrive, Told, Arrived

\* A page has come: there are more, or all the users are known.
LEMMA UsersGo ==
  ASSUME TypeOK, ListInv, NEW c \in chains, UsersArrive(c)
  PROVE  /\ c.stage = "users" /\ "user" \in rights
         /\ UNCHANGED <<dialog, rights, hub, begun, shares, history, page>>
         /\ \/ Goes(c, AfterUsers(c), Unshared("user", Range(Users) \ {Owner}))
            \/ /\ UNCHANGED <<recipients, listed>>
               /\ \E d \in Chain : /\ d.id = c.id /\ d.kind = c.kind /\ d.stage = "users"
                                   /\ d.offset <= Len(Users) /\ d.got = {Users[i] : i \in 1 .. d.offset}
                                   /\ chains' = OtherChains(c) \cup {d}
<1> DEFINE last == Min({c.offset + Limit, Len(Users)})
           data == SubSeq(Users, c.offset + 1, last)
           got == c.got \cup Range(data)
<1>1. /\ c \in Chain /\ c.stage = "users" /\ "user" \in rights /\ c.offset \in Nat
      /\ c.offset <= Len(Users) /\ c.got = {Users[i] : i \in 1 .. c.offset}
      /\ UNCHANGED <<dialog, rights, hub, begun, shares, history, page>>
  BY DEF TypeOK, UsersArrive, ListInv, Chain
<1>2. Users \in Seq(Range(Users)) /\ Len(Users) \in Nat /\ Limit \in Nat /\ Limit > 0
  BY UserAssumption
<1>3. last \in Nat /\ last <= Len(Users) /\ last <= c.offset + Limit /\ c.offset <= last
      /\ last \in {c.offset + Limit, Len(Users)}
  <2>1. \E x \in {c.offset + Limit, Len(Users)} : \A y \in {c.offset + Limit, Len(Users)} : x <= y
    BY <1>1, <1>2
  <2>2. last \in {c.offset + Limit, Len(Users)} /\ \A y \in {c.offset + Limit, Len(Users)} : last <= y
    BY <2>1 DEF Min
  <2> QED
    BY <1>1, <1>2, <2>2
<1> HIDE DEF last
<1>4. Len(data) = last - c.offset /\ Range(data) = {Users[i] : i \in (c.offset + 1) .. last}
  <2>1. \A i \in (c.offset + 1) .. last : Users[i] \in Range(Users)
    <3>1. \A i \in 1 .. Len(Users) : Users[i] \in Range(Users)
      BY <1>2
    <3> QED
      BY <1>1, <1>2, <1>3, <3>1
  <2>2. /\ data \in Seq(Range(Users)) /\ Len(data) = last - c.offset
        /\ \A i \in 1 .. last - c.offset : data[i] = Users[c.offset + i]
    BY <1>1, <1>3, <2>1, SubSeqProperties
  <2> HIDE DEF data
  <2>3. DOMAIN data = 1 .. (last - c.offset)
    BY <2>2, LenProperties
  <2>4. Range(data) = {data[i] : i \in 1 .. (last - c.offset)}
    BY <2>3 DEF Range
  <2>5. \A i \in 1 .. (last - c.offset) : c.offset + i \in (c.offset + 1) .. last
    BY <1>1, <1>3
  <2>6. \A i \in (c.offset + 1) .. last : i - c.offset \in 1 .. (last - c.offset) /\ c.offset + (i - c.offset) = i
    BY <1>1, <1>3
  <2>7. ASSUME NEW i \in (c.offset + 1) .. last PROVE Users[i] \in Range(data)
    BY <2>2, <2>4, <2>6
  <2> QED
    BY <2>2, <2>4, <2>5, <2>7
<1> HIDE DEF data
<1>5. got = {Users[i] : i \in 1 .. last}
  <2>1. 1 .. last = (1 .. c.offset) \cup ((c.offset + 1) .. last)
    BY <1>1, <1>3
  <2> QED
    BY <1>1, <1>4, <2>1
<1> HIDE DEF got
<1>6. CASE HasMore(data)
  <2>1. last = c.offset + Limit
    BY <1>1, <1>2, <1>3, <1>4, <1>6 DEF HasMore
  <2> DEFINE d == [c EXCEPT !.got = got, !.offset = last]
  <2>2. UNCHANGED <<recipients, listed>> /\ chains' = OtherChains(c) \cup {d}
    BY <1>6, <2>1 DEF UsersArrive, Move, OtherChains, got, data, last
  <2>3. got \subseteq Range(Users)
    <3>1. \A i \in 1 .. last : i \in 1 .. Len(Users)
      BY <1>2, <1>3
    <3>2. \A i \in 1 .. Len(Users) : Users[i] \in Range(Users)
      BY <1>2
    <3> QED
      BY <1>5, <3>1, <3>2
  <2>4. /\ d \in Chain /\ d.id = c.id /\ d.kind = c.kind /\ d.stage = "users"
        /\ d.offset = last /\ d.got = got
    BY <1>1, <1>3, <2>3 DEF Chain
  <2> HIDE DEF d
  <2> QED
    BY <1>1, <1>3, <1>5, <2>2, <2>4
<1>7. CASE ~HasMore(data)
  <2>1. last = Len(Users)
    BY <1>1, <1>2, <1>3, <1>4, <1>7 DEF HasMore
  <2>2. got = Range(Users)
    <3>1. DOMAIN Users = 1 .. Len(Users)
      BY <1>2, LenProperties
    <3> QED
      BY <1>5, <2>1, <3>1 DEF Range
  <2>3. Proceed(c, AfterUsers(c), Unshared("user", Range(Users) \ {Owner}))
    BY <1>7, <2>2 DEF UsersArrive, got, data, last
  <2>4. AfterUsers(c) \in {"users", "groups", "end"}
    BY DEF AfterUsers
  <2> QED
    BY <1>1, <2>3, <2>4, Going
<1> QED
  BY <1>6, <1>7

LEMMA GroupsGo ==
  ASSUME TypeOK, ListInv, NEW c \in chains, GroupsArrive(c)
  PROVE  /\ c.stage = "groups" /\ "group" \in rights
         /\ UNCHANGED <<dialog, rights, hub, begun, shares, history, page>>
         /\ Goes(c, "end", recipients \cup Unshared("group", Groups))
BY Going DEF TypeOK, GroupsArrive, ListInv

-----------------------------------------------------------------------------
(* Whom the user may list                                                  *)

LEMMA ListableWho ==
  /\ Listable \subseteq Recipient
  /\ \A p \in Listable : p.type \in rights
  /\ "user" \in rights => Unshared("user", Range(Users) \ {Owner}) \subseteq Listable
  /\ "group" \in rights => Unshared("group", Groups) \subseteq Listable
  /\ \A p \in Listable : p.name \notin Names(shares) =>
       \/ p.type = "user" /\ p \in Unshared("user", Range(Users) \ {Owner})
       \/ p.type = "group" /\ p \in Unshared("group", Groups)
<1>1. Listable \subseteq Recipient
  BY UserAssumption DEF Listable, Recipient, User, Group
<1>2. ASSUME NEW p \in Listable
      PROVE  \/ p.type = "user" /\ "user" \in rights /\ p.name \in Range(Users) \ {Owner}
                /\ p = [name |-> p.name, type |-> "user"]
             \/ p.type = "group" /\ "group" \in rights /\ p.name \in Groups
                /\ p = [name |-> p.name, type |-> "group"]
  BY DEF Listable, User, Group
<1>3. ASSUME "user" \in rights PROVE Unshared("user", Range(Users) \ {Owner}) \subseteq Listable
  BY <1>3 DEF Unshared, Listable, User
<1>4. ASSUME "group" \in rights PROVE Unshared("group", Groups) \subseteq Listable
  BY <1>4 DEF Unshared, Listable, Group
<1>5. ASSUME NEW p \in Listable, p.name \notin Names(shares)
      PROVE  \/ p.type = "user" /\ p \in Unshared("user", Range(Users) \ {Owner})
             \/ p.type = "group" /\ p \in Unshared("group", Groups)
  <2>1. \A type : p.name \notin Names({q \in shares : q.type = type})
    BY <1>5 DEF Names
  <2> QED
    BY <1>2, <2>1 DEF Unshared
<1> QED
  BY <1>1, <1>2, <1>3, <1>4, <1>5

\* Nobody with a share of that kind is among them; and those kept have none of any kind.
LEMMA Disjoint ==
  /\ \A type, names : Unshared(type, names) \cap shares = {}
  /\ \A list, known : Kept(list, known) \subseteq list /\ Kept(list, known) \cap known = {}
  /\ \A list, known : \A p \in list : p.name \notin Names(known) \cup {Owner} => p \in Kept(list, known)
BY DEF Unshared, Kept, Names

LEMMA ListStep ==
  ASSUME IInv, Next
  PROVE  ListInv'
<1>0. TypeOK /\ ChainInv /\ ListInv
  BY DEF IInv
<1> DEFINE Early(c) == c.kind = "open" /\ c.stage \in {"shares", "answer"}
           Fit(c) == /\ c.stage = "users" => "user" \in rights /\ c.offset <= Len(Users)
                                           /\ c.got = {Users[i] : i \in 1 .. c.offset}
                     /\ c.stage = "groups" => "group" \in rights
                     /\ c.kind = "create" => c.stage \in {"change", "shares", "answer"}
                     /\ c.kind = "open" => c.stage # "change"
<1>1. /\ recipients \subseteq Listable /\ \A c \in chains : Fit(c)
      /\ \A c \in chains : Early(c) => chains = {c} /\ shares = {} /\ recipients = {} /\ listed = {}
  BY <1>0 DEF ListInv
<1>2. ASSUME rights' = rights, recipients' \subseteq Listable, \A c \in chains' : Fit(c),
             \A c \in chains' : Early(c) =>
               chains' = {c} /\ shares' = {} /\ recipients' = {} /\ listed' = {}
      PROVE  ListInv'
  <2>1. Listable' = Listable
    BY <1>2 DEF Listable
  <2> QED
    BY <1>2, <2>1 DEF ListInv
<1>3. ASSUME NEW p \in Recipient, Share(p) \/ Revoke(p) PROVE ListInv'
  <2>1. PICK kind \in {"create", "revoke"} : chains' = chains \cup {NewChain(begun', kind, p, "change")}
    BY <1>3 DEF Share, Revoke
  <2> DEFINE d == NewChain(begun', kind, p, "change")
  <2>2. rights' = rights /\ recipients' = recipients /\ (listed # {} \/ shares # {})
    BY <1>3 DEF Share, Revoke, Rows, lists
  <2>3. d.kind = kind /\ d.stage = "change"
    BY DEF NewChain
  <2> HIDE DEF d
  <2>4. Fit(d) /\ ~Early(d) /\ \A c \in chains : ~Early(c)
    BY <1>1, <2>2, <2>3
  <2> HIDE DEF Fit, Early
  <2> QED
    BY <1>1, <1>2, <2>1, <2>2, <2>4 DEF d
<1>4. ASSUME NEW c \in chains, Change(c) \/ ReadShares(c) PROVE ListInv'
  <2>1. PICK d : /\ d.kind = c.kind /\ d.stage \in {"shares", "answer"}
                 /\ chains' = OtherChains(c) \cup {d}
    <3>1. CASE Change(c)
      <4>1. [c EXCEPT !.stage = "shares"].stage = "shares" /\ [c EXCEPT !.stage = "shares"].kind = c.kind
        BY <1>0, ChainTypes DEF Chain
      <4> QED
        BY <3>1, <4>1 DEF Change, Move, OtherChains
    <3>2. CASE ReadShares(c)
      <4> DEFINE d == [c EXCEPT !.stage = "answer", !.read = hub, !.before = {e.id : e \in OnItsWay}]
      <4>1. d.stage = "answer" /\ d.kind = c.kind
        BY <1>0, ChainTypes DEF Chain
      <4>2. chains' = OtherChains(c) \cup {d}
        BY <3>2 DEF ReadShares, Move, OtherChains
      <4> HIDE DEF d
      <4> QED
        BY <4>1, <4>2
    <3> QED
      BY <1>4, <3>1, <3>2
  <2>2. /\ rights' = rights /\ UNCHANGED <<shares, recipients, listed>>
        /\ c.stage \in {"change", "shares"}
    BY <1>4 DEF Change, ReadShares, lists
  <2>3. Fit(d) /\ (Early(d) => Early(c)) /\ \A e \in OtherChains(c) : e \in chains /\ e # c
    BY <1>1, <2>1, <2>2 DEF OtherChains
  <2>4. ASSUME Early(d) PROVE chains = {c} /\ shares = {} /\ recipients = {} /\ listed = {}
    BY <1>1, <2>3, <2>4
  <2>5. ASSUME NEW e \in OtherChains(c) PROVE ~Early(e)
    <3>1. e \in chains /\ c \in chains /\ e # c
      BY <2>3, <2>5
    <3> HIDE DEF Early
    <3> QED
      BY <1>1, <3>1
  <2> HIDE DEF Fit, Early
  <2> QED
    BY <1>1, <1>2, <2>1, <2>2, <2>3, <2>4, <2>5
<1>5. ASSUME NEW c \in chains, rights' = rights, recipients' \subseteq Listable,
             \A d \in chains' : d \in OtherChains(c) \/ (Fit(d) /\ ~Early(d))
      PROVE  ListInv'
  <2>1. \A e \in OtherChains(c) : e \in chains /\ e # c /\ Fit(e)
    BY <1>1 DEF OtherChains
  <2> HIDE DEF Fit, Early
  <2>2. \A e \in OtherChains(c) : ~Early(e)
    BY <1>1, <2>1
  <2> QED
    BY <1>2, <1>5, <2>1, <2>2
<1>6. ASSUME NEW c \in chains, rights' = rights,
             NEW stage \in {"users", "groups", "end"}, NEW loaded \in SUBSET Listable, Goes(c, stage, loaded),
             stage = "users" => "user" \in rights /\ c.kind # "create",
             stage = "groups" => "group" \in rights /\ c.kind # "create"
      PROVE  ListInv'
  <2>1. recipients' \subseteq Listable
    BY <1>6, Disjoint DEF Goes
  <2>2. ASSUME NEW d \in chains', d \notin OtherChains(c) PROVE Fit(d) /\ ~Early(d)
    <3>1. d.stage = stage /\ stage # "end" /\ d.kind = c.kind /\ d.offset = 0 /\ d.got = {}
      BY <1>6, <2>2 DEF Goes
    <3>2. 0 <= Len(Users) /\ {Users[i] : i \in 1 .. 0} = {}
      BY UserAssumption, LenProperties
    <3> QED
      BY <1>6, <3>1, <3>2
  <2> HIDE DEF Fit, Early
  <2> QED
    BY <1>5, <1>6, <2>1, <2>2
<1>7. ASSUME NEW c \in chains, SharesArrive(c) PROVE ListInv'
  <2>1. rights' = rights /\ Goes(c, AfterShares(c), recipients)
    BY <1>0, <1>7, SharesGo
  <2>2. /\ AfterShares(c) \in {"users", "groups", "end"}
        /\ AfterShares(c) = "users" => "user" \in rights /\ c.kind # "create"
        /\ AfterShares(c) = "groups" => "group" \in rights /\ c.kind # "create"
    BY DEF AfterShares, AfterUsers
  <2> QED
    BY <1>1, <1>6, <2>1, <2>2
<1>8. ASSUME NEW c \in chains, UsersArrive(c) PROVE ListInv'
  <2>1. c.stage = "users" /\ rights' = rights /\ c.kind # "create" /\ "user" \in rights
    BY <1>0, <1>1, <1>8, UsersGo
  <2>2. CASE Goes(c, AfterUsers(c), Unshared("user", Range(Users) \ {Owner}))
    <3>1. /\ AfterUsers(c) \in {"groups", "end"}
          /\ AfterUsers(c) = "groups" => "group" \in rights
      BY DEF AfterUsers
    <3>2. Unshared("user", Range(Users) \ {Owner}) \subseteq Listable
      BY <2>1, ListableWho
    <3> QED
      BY <1>6, <2>1, <2>2, <3>1, <3>2
  <2>3. CASE ~Goes(c, AfterUsers(c), Unshared("user", Range(Users) \ {Owner}))
    <3>1. /\ UNCHANGED <<recipients, listed>>
          /\ \E d \in Chain : /\ d.id = c.id /\ d.kind = c.kind /\ d.stage = "users"
                              /\ d.offset <= Len(Users) /\ d.got = {Users[i] : i \in 1 .. d.offset}
                              /\ chains' = OtherChains(c) \cup {d}
      BY <1>0, <1>8, <2>3, UsersGo
    <3>2. ASSUME NEW d \in chains', d \notin OtherChains(c) PROVE Fit(d) /\ ~Early(d)
      BY <2>1, <3>1, <3>2
    <3> HIDE DEF Fit, Early
    <3> QED
      BY <1>1, <1>5, <2>1, <3>1, <3>2
  <2> QED
    BY <2>2, <2>3
<1>9. ASSUME NEW c \in chains, GroupsArrive(c) PROVE ListInv'
  <2>1. /\ rights' = rights /\ "group" \in rights
        /\ Goes(c, "end", recipients \cup Unshared("group", Groups))
    BY <1>0, <1>9, GroupsGo
  <2>2. recipients \cup Unshared("group", Groups) \subseteq Listable
    BY <1>1, <2>1, ListableWho
  <2> QED
    BY <1>6, <2>1, <2>2
<1>10. ASSUME NEW c \in chains, Fails(c) PROVE ListInv'
  BY <1>1, <1>5, <1>10 DEF Fails, End, OtherChains, lists
<1>11. CASE Search
  <2>1. rights' = rights /\ chains' = chains /\ shares' = shares /\ recipients' = recipients /\ listed' = recipients
    BY <1>11 DEF Search
  <2> HIDE DEF Fit, Early
  <2> QED
    BY <1>1, <1>2, <2>1
<1>12. CASE ToggleToken
  <2>1. rights' = rights /\ chains' = chains /\ UNCHANGED <<shares, recipients, listed>>
    BY <1>12 DEF ToggleToken, lists
  <2> HIDE DEF Fit, Early
  <2> QED
    BY <1>1, <1>2, <2>1
<1>13. CASE CopyLink
  <2>1. rights' = rights /\ chains' = {} /\ recipients' = recipients
    BY <1>13 DEF CopyLink, lists
  <2> HIDE DEF Fit, Early
  <2> QED
    BY <1>1, <1>2, <2>1
<1> QED
  BY <1>3, <1>4, <1>7, <1>8, <1>9, <1>10, <1>11, <1>12, <1>13 DEF Next, Clicked, Answered

-----------------------------------------------------------------------------
(* What a later list lacks                                                 *)

\* What a dialog sees stays seen.
LEMMA StillWatched ==
  ASSUME TypeOK, Next, Watched'
  PROVE  Watched
<1>1. /\ dialog' = "share" /\ copied' = None /\ ~stale' /\ ~failed'
  BY DEF Watched
<1>2. SUFFICES dialog = "share" /\ copied = None /\ ~stale /\ ~failed
  BY DEF Watched
<1>3. CASE Search \/ ToggleToken
  <2>1. UNCHANGED <<dialog, stale, failed>> /\ copied = None
    BY <1>3 DEF Search, ToggleToken, history
  <2> QED
    BY <1>1, <2>1
<1>4. CASE CopyLink
  <2>1. UNCHANGED <<dialog, stale, failed>> /\ copied = None
    BY <1>4 DEF CopyLink, history
  <2> QED
    BY <1>1, <2>1
<1>5. ASSUME NEW p \in Recipient, Share(p) \/ Revoke(p) PROVE Watched
  <2>1. UNCHANGED <<dialog, stale, failed, copied>>
    BY <1>5 DEF Share, Revoke, history, page
  <2> QED
    BY <1>1, <2>1 DEF Watched
<1>6. ASSUME NEW c \in chains, Change(c) \/ ReadShares(c) \/ UsersArrive(c) \/ GroupsArrive(c) PROVE Watched
  <2>1. UNCHANGED <<dialog, stale, failed, copied>>
    BY <1>6 DEF Change, ReadShares, UsersArrive, GroupsArrive, history, page
  <2> QED
    BY <1>1, <2>1 DEF Watched
<1>7. ASSUME NEW c \in chains, SharesArrive(c) PROVE Watched
  <2>1. UNCHANGED <<dialog, failed, copied>> /\ stale' = (stale \/ c.id \in passed)
    BY <1>7 DEF SharesArrive, page
  <2> QED
    BY <1>1, <2>1 DEF Watched
<1>8. ASSUME NEW c \in chains, Fails(c) PROVE Watched
  BY <1>1, <1>8 DEF Fails
<1> QED
  BY <1>3, <1>4, <1>5, <1>6, <1>7, <1>8 DEF Next, Clicked, Answered, Watched

\* A read comes after all those on their way.
LEMMA ReadsLast ==
  ASSUME TypeOK, ChainInv, NEW c \in chains, ReadShares(c)
  PROVE  /\ c.stage = "shares"
         /\ UNCHANGED <<dialog, rights, hub, shares, recipients, listed, passed, stale, failed, copied>>
         /\ \E d : /\ d.id = c.id /\ d.kind = c.kind /\ d.stage = "answer" /\ d.read = hub
                  /\ d.before = {e.id : e \in OnItsWay}
                  /\ chains' = OtherChains(c) \cup {d} /\ OnItsWay' = OnItsWay \cup {d}
                  /\ \A e \in OnItsWay : e.id # c.id
<1> DEFINE d == [c EXCEPT !.stage = "answer", !.read = hub, !.before = {e.id : e \in OnItsWay}]
<1>1. /\ d.id = c.id /\ d.kind = c.kind /\ d.stage = "answer" /\ d.read = hub
      /\ d.before = {e.id : e \in OnItsWay}
  BY ChainTypes DEF Chain
<1>2. chains' = OtherChains(c) \cup {d} /\ c.stage = "shares"
  BY DEF ReadShares, Move, OtherChains
<1> HIDE DEF d
<1>3. \A e \in OnItsWay : e.id # c.id
  BY <1>2 DEF OnItsWay, ChainInv
<1>4. OnItsWay' = OnItsWay \cup {d}
  BY <1>1, <1>2, <1>3 DEF OnItsWay, OtherChains
<1> QED
  BY <1>1, <1>2, <1>3, <1>4 DEF ReadShares, lists, history, page

LEMMA OrderStep ==
  ASSUME IInv, Next
  PROVE  OrderInv'
<1>0. TypeOK /\ ChainInv /\ OrderInv
  BY DEF IInv
<1>1. ASSUME OnItsWay' \subseteq OnItsWay PROVE OrderInv'
  BY <1>0, <1>1 DEF OrderInv
<1>2. ASSUME NEW p \in Recipient, Share(p) \/ Revoke(p) PROVE OrderInv'
  <2>1. PICK kind \in {"create", "revoke"} : chains' = chains \cup {NewChain(begun', kind, p, "change")}
    BY <1>2 DEF Share, Revoke
  <2>2. NewChain(begun', kind, p, "change").stage = "change"
    BY DEF NewChain
  <2> QED
    BY <1>1, <2>1, <2>2 DEF OnItsWay
<1>3. ASSUME NEW c \in chains, Change(c) PROVE OrderInv'
  <2>1. [c EXCEPT !.stage = "shares"].stage = "shares"
    BY <1>0, ChainTypes DEF Chain
  <2> QED
    BY <1>1, <1>3, <2>1 DEF Change, Move, OnItsWay
<1>4. ASSUME NEW c \in chains, ReadShares(c) PROVE OrderInv'
  BY <1>0, <1>4, ReadsLast DEF OrderInv
<1>5. ASSUME NEW c \in chains, SharesArrive(c) \/ UsersArrive(c) \/ GroupsArrive(c) PROVE OrderInv'
  <2>1. Onward(c)
    BY <1>0, <1>5, Answers
  <2> QED
    BY <1>1, <2>1 DEF Onward, OtherChains, OnItsWay
<1>6. ASSUME NEW c \in chains, Fails(c) PROVE OrderInv'
  BY <1>1, <1>6 DEF Fails, End, OnItsWay
<1>7. CASE Search \/ ToggleToken \/ CopyLink
  BY <1>1, <1>7 DEF Search, ToggleToken, CopyLink, OnItsWay
<1> QED
  BY <1>2, <1>3, <1>4, <1>5, <1>6, <1>7 DEF Next, Clicked, Answered

\* A step that adds no list and ends no chain that has yet to show what a revoke leaves
LEMMA GoneKept ==
  ASSUME GoneInv, Watched' => Watched, InTime' \subseteq InTime, shares' = shares, hub \subseteq hub',
         \A r \in chains : r.kind = "revoke" /\ r.stage \in {"shares", "answer"} => r \in chains'
  PROVE  GoneInv'
<1>1. Revoking({"shares", "answer"}) => Revoking({"shares", "answer"})'
  BY DEF Revoking
<1>2. \A c : RevokedSince(c) => RevokedSince(c)'
  BY DEF RevokedSince
<1> QED
  BY <1>1, <1>2 DEF GoneInv

LEMMA GoneStep ==
  ASSUME IInv, Next
  PROVE  GoneInv'
<1>0. TypeOK /\ ChainInv /\ OrderInv /\ GoneInv /\ (Watched' => Watched)
  BY StillWatched DEF IInv
<1>1. ASSUME NEW p \in Recipient, Share(p) \/ Revoke(p) PROVE GoneInv'
  <2>1. PICK kind \in {"create", "revoke"} : chains' = chains \cup {NewChain(begun', kind, p, "change")}
    BY <1>1 DEF Share, Revoke
  <2>2. UNCHANGED <<hub, shares, passed>>
    BY <1>1 DEF Share, Revoke, lists, history
  <2>3. NewChain(begun', kind, p, "change").stage = "change"
    BY DEF NewChain
  <2>4. InTime' \subseteq InTime
    BY <2>1, <2>2, <2>3 DEF InTime, OnItsWay
  <2> QED
    BY <1>0, <2>1, <2>2, <2>4, GoneKept
<1>2. ASSUME NEW c \in chains, Change(c) PROVE GoneInv'
  <2>1. PICK d : d.kind = c.kind /\ d.stage = "shares" /\ chains' = OtherChains(c) \cup {d}
    <3>1. [c EXCEPT !.stage = "shares"].stage = "shares" /\ [c EXCEPT !.stage = "shares"].kind = c.kind
      BY <1>0, ChainTypes DEF Chain
    <3> QED
      BY <1>2, <3>1 DEF Change, Move, OtherChains
  <2>2. c.stage = "change" /\ shares' = shares /\ passed' = passed
    BY <1>2 DEF Change, lists, history
  <2>3. CASE c.kind = "revoke"
    <3>1. Revoking({"shares", "answer"})' /\ \A e : RevokedSince(e)'
      BY <2>1, <2>3 DEF Revoking, RevokedSince
    <3> QED
      BY <3>1 DEF GoneInv
  <2>4. CASE c.kind # "revoke"
    <3>1. hub \subseteq hub'
      <4>1. c.kind \in {"create", "open", "revoke"}
        BY <1>0, ChainTypes DEF Chain
      <4>2. c.kind # "open"
        BY <2>2 DEF IInv, ListInv
      <4> QED
        BY <1>2, <2>4, <4>1, <4>2 DEF Change
    <3>2. InTime' \subseteq InTime
      BY <2>1, <2>2 DEF InTime, OnItsWay, OtherChains
    <3>3. \A r \in chains : r.kind = "revoke" => r \in chains'
      BY <1>0, <2>1, <2>4 DEF OtherChains, ChainInv
    <3> QED
      BY <1>0, <2>2, <3>1, <3>2, <3>3, GoneKept
  <2> QED
    BY <2>3, <2>4
<1>3. ASSUME NEW c \in chains, ReadShares(c) PROVE GoneInv'
  <2>1. c.stage = "shares" /\ UNCHANGED <<hub, shares, passed>>
    BY <1>0, <1>3, ReadsLast
  <2>2. PICK d : /\ d.id = c.id /\ d.kind = c.kind /\ d.stage = "answer" /\ d.read = hub
                 /\ d.before = {e.id : e \in OnItsWay}
                 /\ chains' = OtherChains(c) \cup {d} /\ OnItsWay' = OnItsWay \cup {d}
                 /\ \A e \in OnItsWay : e.id # c.id
    BY <1>0, <1>3, ReadsLast
  <2>3. InTime' \subseteq InTime \cup {d} /\ InTime \subseteq OnItsWay
    BY <2>1, <2>2 DEF InTime
  <2>4. \A r \in chains : r = c \/ r \in chains'
    BY <1>0, <2>2 DEF OtherChains, ChainInv
  <2>5. Revoking({"shares", "answer"}) => Revoking({"shares", "answer"})'
    BY <2>2, <2>4 DEF Revoking
  <2>6. ASSUME NEW e \in InTime, RevokedSince(e) PROVE RevokedSince(e)'
    <3>1. PICK r \in chains : r.kind = "revoke" /\ (r.stage = "shares" \/ (r.stage = "answer" /\ e.id \in r.before))
      BY <2>6 DEF RevokedSince
    <3>2. CASE r = c
      <4>1. e.id \in d.before
        BY <2>2, <2>3
      <4> QED
        BY <2>2, <3>1, <3>2, <4>1 DEF RevokedSince
    <3>3. CASE r # c
      BY <2>4, <3>1, <3>3 DEF RevokedSince
    <3> QED
      BY <3>2, <3>3
  <2>7. \A e \in InTime \cup {d} : d.id \notin e.before
    <3>1. \A e \in InTime : c.id \notin e.before
      BY <1>0, <2>1 DEF ChainInv, InTime, OnItsWay
    <3> QED
      BY <2>2, <3>1
  <2> QED
    BY <1>0, <2>1, <2>2, <2>3, <2>5, <2>6, <2>7 DEF GoneInv
<1>4. ASSUME NEW c \in chains, SharesArrive(c) PROVE GoneInv'
  <2>1. SUFFICES ASSUME Watched' PROVE GoneInv'
    BY DEF GoneInv
  <2>2. /\ c.stage = "answer" /\ shares' = c.read /\ hub' = hub
        /\ passed' = (passed \cup {e.id : e \in {d \in OnItsWay : d.id \in c.before}}) \ {c.id}
        /\ stale' = (stale \/ c.id \in passed)
    BY <1>0, <1>4, SharesGo
  <2>3. Watched /\ c \in InTime
    BY <1>0, <2>1, <2>2 DEF Watched, InTime, OnItsWay
  <2>4. Onward(c)
    BY <1>0, <1>4, Answers
  <2>5. /\ \A r \in chains : r # c => r \in chains'
        /\ OnItsWay' \subseteq OnItsWay \ {c}
    BY <1>0, <2>4 DEF Onward, OtherChains, OnItsWay, ChainInv
  <2>6. \A e \in InTime' : e \in InTime /\ e # c /\ e.id \notin c.before /\ c.id \in e.before
    <3>1. ASSUME NEW e \in InTime' PROVE e \in InTime /\ e # c /\ e.id \notin c.before
      <4>1. e \in OnItsWay /\ e # c /\ e.id \notin passed'
        BY <2>5 DEF InTime
      <4>2. e.id # c.id
        BY <1>0, <4>1 DEF ChainInv, OnItsWay
      <4> QED
        BY <2>2, <4>1, <4>2 DEF InTime
    <3> QED
      BY <1>0, <2>3, <3>1 DEF OrderInv, InTime
  <2>7. ASSUME NEW e \in InTime' \cup {c}, RevokedSince(e)
        PROVE  RevokedSince(e)' /\ Revoking({"shares", "answer"})'
    <3>1. PICK r \in chains : r.kind = "revoke" /\ (r.stage = "shares" \/ (r.stage = "answer" /\ e.id \in r.before))
      BY <2>7 DEF RevokedSince
    <3>2. e.id \notin c.before
      BY <1>0, <2>6 DEF ChainInv
    <3>3. r # c
      BY <2>2, <3>1, <3>2
    <3> QED
      BY <2>5, <3>1, <3>3 DEF RevokedSince, Revoking
  <2>8. shares' \subseteq hub' \/ Revoking({"shares", "answer"})'
    BY <1>0, <2>2, <2>3, <2>7 DEF GoneInv
  <2>9. ASSUME NEW e \in InTime'
        PROVE  /\ shares' \subseteq e.read \/ Revoking({"shares", "answer"})'
               /\ e.read \subseteq hub' \/ RevokedSince(e)'
    BY <1>0, <2>2, <2>3, <2>6, <2>7 DEF GoneInv
  <2>10. ASSUME NEW e \in InTime', NEW b \in InTime', e.id \in b.before
         PROVE  e.read \subseteq b.read \/ RevokedSince(e)'
    BY <1>0, <2>3, <2>6, <2>7, <2>10 DEF GoneInv
  <2> QED
    BY <2>8, <2>9, <2>10 DEF GoneInv
<1>5. ASSUME NEW c \in chains, UsersArrive(c) \/ GroupsArrive(c) PROVE GoneInv'
  <2>1. c.stage \in {"users", "groups"} /\ UNCHANGED <<hub, shares, passed>>
    BY <1>5 DEF UsersArrive, GroupsArrive, history
  <2>2. Onward(c)
    BY <1>0, <1>5, Answers
  <2>3. /\ InTime' \subseteq InTime
        /\ \A r \in chains : r.stage \in {"shares", "answer"} => r \in chains'
    BY <1>0, <2>1, <2>2 DEF Onward, OtherChains, InTime, OnItsWay, ChainInv
  <2> QED
    BY <1>0, <2>1, <2>3, GoneKept
<1>6. ASSUME NEW c \in chains, Fails(c) PROVE GoneInv'
  BY <1>6 DEF Fails, GoneInv, Watched
<1>7. CASE CopyLink
  <2>1. copied' # None
    BY <1>7, NoneAssumption DEF CopyLink, Value
  <2> QED
    BY <2>1 DEF GoneInv, Watched
<1>8. CASE Search \/ ToggleToken
  <2>1. UNCHANGED <<hub, shares, passed, chains>>
    BY <1>8 DEF Search, ToggleToken, history, lists
  <2> QED
    BY <1>0, <2>1, GoneKept DEF InTime, OnItsWay
<1> QED
  BY <1>1, <1>2, <1>3, <1>4, <1>5, <1>6, <1>7, <1>8 DEF Next, Clicked, Answered

-----------------------------------------------------------------------------
(* The results                                                             *)

\* The chain is as far with the recipients as before.
Carries(d, c) ==
  /\ d.kind = c.kind
  /\ c.stage \in {"users", "groups"} => d.stage = c.stage
  /\ d.stage = "groups" => c.stage = "groups"

LEMMA ShownKept ==
  ASSUME ShownInv, Watched' => Watched, UNCHANGED <<rights, shares, recipients>>, listed' \in {listed, recipients},
         \A c \in chains : \E d \in chains' : Carries(d, c)
  PROVE  ShownInv'
<1>1. SUFFICES ASSUME Watched' PROVE ShownInv'
  BY DEF ShownInv
<1>2. Revoking({"users", "groups"}) => Revoking({"users", "groups"})'
  BY DEF Revoking, Carries
<1>3. (\E c \in chains : c.stage = "groups") => \E d \in chains' : d.stage = "groups"
  BY DEF Carries
<1>4. \A p : (\E c \in chains : Brings(c, p)) => \E d \in chains' : Brings(d, p)
  BY DEF Carries, Brings
<1>5. Listable' = Listable /\ Names(shares)' = Names(shares) /\ \A c, p : Brings(c, p)' <=> Brings(c, p)
  BY DEF Listable, Names, Brings
<1> QED
  BY <1>1, <1>2, <1>3, <1>4, <1>5 DEF ShownInv

\* The shares have come: who only shared filters the recipients, any other is to load them.
LEMMA ShownShares ==
  ASSUME IInv, NEW c \in chains, SharesArrive(c), Watched', Watched
  PROVE  ShownInv'
<1>1. TypeOK /\ ChainInv /\ ListInv /\ GoneInv /\ ShownInv
  BY DEF IInv
<1>2. /\ c.stage = "answer" /\ shares' = c.read /\ rights' = rights
      /\ stale' = (stale \/ c.id \in passed)
      /\ Goes(c, AfterShares(c), recipients)
  BY <1>1, SharesGo
<1>3. Listable' = Listable /\ Names(shares)' = Names(c.read) /\ \A d, p : Brings(d, p)' <=> Brings(d, p)
  BY <1>2 DEF Listable, Names, Brings
<1>4. \A e \in chains : e # c => e \in OtherChains(c)
  BY <1>1 DEF ChainInv, OtherChains
<1>5. \A p \in Listable : p.type \in rights /\ p.type \in {"user", "group"}
  BY ListableWho DEF Recipient, User, Group
<1>6. CASE c.kind = "create"
  <2>1. chains' = OtherChains(c) /\ recipients' = Kept(recipients, c.read) /\ listed' = recipients'
    BY <1>2, <1>6 DEF Goes, AfterShares
  <2>2. recipients' \cap shares' = {}
    BY <1>2, <2>1, Disjoint
  <2>3. ASSUME NEW p \in Listable, p.name \notin Names(c.read) \cup {Owner}
        PROVE  p \in recipients' \/ \E d \in chains' : Brings(d, p)
    <3>1. CASE p.name \notin Names(shares)
      <4>1. p \in recipients \/ \E d \in chains : Brings(d, p)
        BY <1>1, <2>3, <3>1 DEF ShownInv
      <4>2. \A d \in chains : Brings(d, p) => d \in chains'
        BY <1>4, <1>6, <2>1 DEF Brings
      <4>3. p \in recipients => p \in recipients'
        BY <2>1, <2>3, Disjoint
      <4> QED
        BY <4>1, <4>2, <4>3
    <3>2. CASE p.name \in Names(shares)
      <4>1. PICK q \in shares : q.name = p.name /\ q \notin c.read
        BY <2>3, <3>2 DEF Names
      <4>2. c \in InTime
        BY <1>2 DEF InTime, OnItsWay, Watched
      <4>3. PICK r \in chains : r.kind = "revoke" /\ r.stage \in {"shares", "answer"}
        BY <1>1, <4>1, <4>2 DEF GoneInv, Revoking
      <4>4. r \in chains' /\ Brings(r, p)
        BY <1>4, <1>6, <2>1, <4>3 DEF Brings
      <4> QED
        BY <4>4
    <3> QED
      BY <3>1, <3>2
  <2> QED
    BY <1>3, <2>1, <2>2, <2>3 DEF ShownInv
<1>7. CASE c.kind # "create" /\ AfterShares(c) = "end"
  <2>1. Listable = {} /\ recipients = {}
    <3>1. "user" \notin rights /\ "group" \notin rights
      BY <1>7 DEF AfterShares, AfterUsers
    <3> QED
      BY <1>1, <1>5, <3>1 DEF ListInv
  <2>2. recipients' = {} /\ listed' = recipients'
    BY <1>2, <1>7, <2>1, Disjoint DEF Goes
  <2> QED
    BY <1>3, <2>1, <2>2 DEF ShownInv
<1>8. CASE c.kind # "create" /\ AfterShares(c) # "end"
  <2>1. PICK d : d.kind = c.kind /\ d.stage = AfterShares(c) /\ chains' = OtherChains(c) \cup {d}
    BY <1>2, <1>8 DEF Goes
  <2>2. recipients' = recipients /\ listed' = listed
    BY <1>2, <1>8 DEF Goes
  <2>3. AfterShares(c) \in {"users", "groups"} /\ (AfterShares(c) = "groups" => "user" \notin rights)
    BY <1>8 DEF AfterShares, AfterUsers
  <2>4. recipients' \cap shares' = {} \/ Revoking({"users", "groups"})'
    <3>1. CASE c.kind = "revoke"
      BY <2>1, <2>3, <3>1 DEF Revoking
    <3>2. CASE c.kind # "revoke"
      <4>1. c.kind = "open"
        BY <1>1, <1>8, <3>2, ChainTypes DEF Chain
      <4> QED
        BY <1>1, <1>2, <2>2, <4>1 DEF ListInv
    <3> QED
      BY <3>1, <3>2
  <2>5. listed' = recipients' \/ \E e \in chains' : e.stage = "groups"
    <3>1. \A e \in chains : e.stage = "groups" => e \in chains'
      BY <1>2, <1>4, <2>1
    <3> QED
      BY <1>1, <2>2, <3>1 DEF ShownInv
  <2>6. \A p \in Listable : Brings(d, p)
    BY <1>5, <1>8, <2>1, <2>3 DEF Brings
  <2> QED
    BY <1>3, <2>1, <2>4, <2>5, <2>6 DEF ShownInv
<1> QED
  BY <1>6, <1>7, <1>8

\* The users have come.
LEMMA ShownUsers ==
  ASSUME IInv, NEW c \in chains, UsersArrive(c), Watched', Watched
  PROVE  ShownInv'
<1>1. TypeOK /\ ChainInv /\ ListInv /\ ShownInv
  BY DEF IInv
<1>2. /\ c.stage = "users" /\ c.kind # "create" /\ UNCHANGED <<rights, shares>>
  BY <1>1, UsersGo DEF ListInv
<1>3. Listable' = Listable /\ Names(shares)' = Names(shares) /\ \A d, p : Brings(d, p)' <=> Brings(d, p)
  BY <1>2 DEF Listable, Names, Brings
<1>4. \A e \in chains : e # c => e \in OtherChains(c)
  BY <1>1 DEF ChainInv, OtherChains
<1> DEFINE loaded == Unshared("user", Range(Users) \ {Owner})
<1>5. loaded \cap shares = {}
  BY Disjoint
<1>6. \A p \in Listable : p.name \notin Names(shares) =>
        p \in loaded \/ (p.type = "group" /\ "group" \in rights)
  BY ListableWho
<1> HIDE DEF loaded
<1>7. CASE Goes(c, AfterUsers(c), loaded) /\ "group" \in rights
  <2>1. PICK d : d.kind = c.kind /\ d.stage = "groups" /\ chains' = OtherChains(c) \cup {d}
    BY <1>7 DEF Goes, AfterUsers
  <2>2. recipients' = loaded
    BY <1>7 DEF Goes, AfterUsers
  <2>3. \A p : p.type = "group" => Brings(d, p)
    BY <1>2, <2>1 DEF Brings
  <2>4. d \in chains'
    BY <2>1
  <2> QED
    BY <1>2, <1>3, <1>5, <1>6, <2>1, <2>2, <2>3, <2>4 DEF ShownInv
<1>8. CASE Goes(c, AfterUsers(c), loaded) /\ "group" \notin rights
  <2>1. recipients' \in {loaded, Kept(loaded, shares)} /\ listed' = recipients'
    BY <1>2, <1>8 DEF Goes, AfterUsers
  <2>2. recipients' \cap shares' = {}
    BY <1>2, <1>5, <2>1, Disjoint
  <2>3. \A p \in Listable : p.name \notin Names(shares) \cup {Owner} => p \in recipients'
    BY <1>6, <1>8, <2>1, Disjoint
  <2> QED
    BY <1>3, <2>1, <2>2, <2>3 DEF ShownInv
<1>9. CASE ~Goes(c, AfterUsers(c), loaded)
  <2>1. UNCHANGED <<recipients, listed>>
    BY <1>1, <1>9, UsersGo DEF loaded
  <2>2. PICK d : d.kind = c.kind /\ d.stage = "users" /\ chains' = OtherChains(c) \cup {d}
    BY <1>1, <1>9, UsersGo DEF loaded
  <2>3. \A e \in chains : \E b \in chains' : Carries(b, e)
    <3>1. Carries(d, c) /\ \A e : Carries(e, e)
      BY <1>2, <2>2 DEF Carries
    <3> QED
      BY <1>4, <2>2, <3>1
  <2> QED
    BY <1>1, <1>2, <2>1, <2>3, ShownKept
<1> QED
  BY <1>7, <1>8, <1>9

\* The groups have come.
LEMMA ShownGroups ==
  ASSUME IInv, NEW c \in chains, GroupsArrive(c), Watched', Watched
  PROVE  ShownInv'
<1>1. TypeOK /\ ChainInv /\ ListInv /\ ShownInv
  BY DEF IInv
<1> DEFINE loaded == recipients \cup Unshared("group", Groups)
<1>2. /\ c.stage = "groups" /\ c.kind # "create" /\ UNCHANGED <<rights, shares>>
      /\ Goes(c, "end", loaded)
  BY <1>1, GroupsGo DEF ListInv
<1>3. Listable' = Listable /\ Names(shares)' = Names(shares) /\ \A d, p : Brings(d, p)' <=> Brings(d, p)
  BY <1>2 DEF Listable, Names, Brings
<1>4. \A e \in chains : e # c => e \in OtherChains(c)
  BY <1>1 DEF ChainInv, OtherChains
<1>5. /\ chains' = OtherChains(c) /\ listed' = recipients'
      /\ recipients' = IF c.kind = "open" THEN loaded ELSE Kept(loaded, shares)
  BY <1>2 DEF Goes
<1>6. recipients' \cap shares' = {} \/ Revoking({"users", "groups"})'
  <2>1. CASE c.kind = "open"
    <3>1. recipients \cap shares = {} => loaded \cap shares = {}
      BY Disjoint
    <3>2. Revoking({"users", "groups"}) => Revoking({"users", "groups"})'
      BY <1>4, <1>5, <2>1 DEF Revoking
    <3> QED
      BY <1>1, <1>2, <1>5, <2>1, <3>1, <3>2 DEF ShownInv
  <2>2. CASE c.kind # "open"
    BY <1>2, <1>5, <2>2, Disjoint
  <2> QED
    BY <2>1, <2>2
<1>7. ASSUME NEW p \in Listable, p.name \notin Names(shares) \cup {Owner}
      PROVE  p \in recipients' \/ \E d \in chains' : Brings(d, p)
  <2>1. p \in loaded => p \in recipients'
    BY <1>5, <1>7, Disjoint
  <2>2. CASE p \in Unshared("group", Groups)
    BY <2>1, <2>2
  <2>3. CASE p \notin Unshared("group", Groups)
    <3>1. p.type = "user"
      BY <1>7, <2>3, ListableWho
    <3>2. p \in recipients \/ \E d \in chains : Brings(d, p)
      BY <1>1, <1>7 DEF ShownInv
    <3>3. \A d \in chains : Brings(d, p) => d \in chains'
      BY <1>2, <1>4, <1>5, <3>1 DEF Brings
    <3> QED
      BY <2>1, <3>2, <3>3
  <2> QED
    BY <2>2, <2>3
<1> QED
  BY <1>3, <1>5, <1>6, <1>7 DEF ShownInv

LEMMA ShownStep ==
  ASSUME IInv, Next
  PROVE  ShownInv'
<1>0. TypeOK /\ ChainInv /\ ListInv /\ ShownInv /\ (Watched' => Watched)
  BY StillWatched DEF IInv
<1>1. \A e : Carries(e, e)
  BY DEF Carries
<1>2. ASSUME NEW p \in Recipient, Share(p) \/ Revoke(p) PROVE ShownInv'
  <2>1. UNCHANGED <<rights, shares, recipients, listed>> /\ chains \subseteq chains'
    BY <1>2 DEF Share, Revoke, lists
  <2> QED
    BY <1>0, <1>1, <2>1, ShownKept
<1>3. ASSUME NEW c \in chains, Change(c) PROVE ShownInv'
  <2>1. PICK d : d.kind = c.kind /\ d.stage = "shares" /\ chains' = OtherChains(c) \cup {d}
    <3>1. [c EXCEPT !.stage = "shares"].stage = "shares" /\ [c EXCEPT !.stage = "shares"].kind = c.kind
      BY <1>0, ChainTypes DEF Chain
    <3> QED
      BY <1>3, <3>1 DEF Change, Move, OtherChains
  <2>2. c.stage = "change" /\ UNCHANGED <<rights, shares, recipients, listed>>
    BY <1>3 DEF Change, lists
  <2>3. Carries(d, c) /\ \A e \in chains : e = c \/ e \in chains'
    BY <1>0, <2>1, <2>2 DEF Carries, ChainInv, OtherChains
  <2> QED
    BY <1>0, <1>1, <2>1, <2>2, <2>3, ShownKept
<1>4. ASSUME NEW c \in chains, ReadShares(c) PROVE ShownInv'
  <2>1. c.stage = "shares" /\ UNCHANGED <<rights, shares, recipients, listed>>
    BY <1>0, <1>4, ReadsLast
  <2>2. PICK d : d.kind = c.kind /\ d.stage = "answer" /\ chains' = OtherChains(c) \cup {d}
    BY <1>0, <1>4, ReadsLast
  <2>3. Carries(d, c) /\ \A e \in chains : e = c \/ e \in chains'
    BY <1>0, <2>1, <2>2 DEF Carries, ChainInv, OtherChains
  <2> QED
    BY <1>0, <1>1, <2>1, <2>2, <2>3, ShownKept
<1>5. ASSUME NEW c \in chains, SharesArrive(c) \/ UsersArrive(c) \/ GroupsArrive(c) PROVE ShownInv'
  <2>1. CASE Watched'
    BY <1>0, <1>5, <2>1, ShownShares, ShownUsers, ShownGroups
  <2>2. CASE ~Watched'
    BY <2>2 DEF ShownInv
  <2> QED
    BY <2>1, <2>2
<1>6. ASSUME NEW c \in chains, Fails(c) PROVE ShownInv'
  BY <1>6 DEF Fails, ShownInv, Watched
<1>7. CASE CopyLink
  <2>1. copied' # None
    BY <1>7, NoneAssumption DEF CopyLink, Value
  <2> QED
    BY <2>1 DEF ShownInv, Watched
<1>8. CASE Search \/ ToggleToken
  <2>1. UNCHANGED <<rights, shares, recipients, chains>> /\ listed' \in {listed, recipients}
    BY <1>8 DEF Search, ToggleToken, lists
  <2> QED
    BY <1>0, <1>1, <2>1, ShownKept
<1> QED
  BY <1>2, <1>3, <1>4, <1>5, <1>6, <1>7, <1>8 DEF Next, Clicked, Answered

-----------------------------------------------------------------------------
(* The link                                                                *)

LEMMA PageStep ==
  ASSUME IInv, Next
  PROVE  PageInv' /\ LinkAsShown'
<1>0. PageInv /\ LinkAsShown /\ TypeOK
  BY DEF IInv
<1>1. ASSUME UNCHANGED page PROVE PageInv' /\ LinkAsShown'
  BY <1>0, <1>1 DEF PageInv, LinkAsShown, Value, page
<1>2. CASE ToggleToken
  BY <1>0, <1>2 DEF ToggleToken, Warn, PageInv, LinkAsShown, Value
<1>3. CASE CopyLink
  BY <1>0, <1>3 DEF CopyLink, PageInv, LinkAsShown, Value
<1> QED
  BY <1>1, <1>2, <1>3
  DEF Next, Clicked, Answered, Share, Revoke, Search, Change, ReadShares, SharesArrive,
      UsersArrive, GroupsArrive, Fails

-----------------------------------------------------------------------------
(* The theorems                                                            *)

LEMMA Initially ==
  ASSUME Init
  PROVE  IInv
<1>1. /\ dialog \in {"share", "link"} /\ rights \subseteq {"user", "group"}
      /\ hub \subseteq Recipient
      /\ begun = (IF dialog = "share" THEN 1 ELSE 0)
      /\ chains = (IF dialog = "share" THEN {Opening} ELSE {})
      /\ shares = {} /\ recipients = {} /\ listed = {}
      /\ passed = {} /\ stale = FALSE /\ failed = FALSE
  BY DEF Init, Allowed
<1>2. /\ box \in {"absent", "off"} /\ input = "url" /\ copied = None
      /\ warning \in {"files", "users", None}
  BY DEF Init
<1>3. Opening \in Chain /\ Opening.id = 1 /\ Opening.stage = "shares" /\ Opening.before = {}
      /\ Opening.kind = "open"
  BY DEF Opening, NewChain, Chain
<1>4. TypeOK
  <2>1. begun \in 0 .. MaxChains /\ chains \subseteq Chain
    BY <1>1, <1>3
  <2> QED
    BY <1>1, <1>2, <2>1 DEF TypeOK
<1>5. ChainInv
  BY <1>1, <1>3 DEF ChainInv
<1>6. FreshInv /\ OrderInv /\ ListInv
  <2>1. dialog = "share" => Opening \in chains /\ Opening.stage = "shares"
    BY <1>1, <1>3
  <2>2. dialog = "share" => FreshInv
    BY <2>1 DEF FreshInv
  <2>3. dialog # "share" => FreshInv
    BY DEF FreshInv, Watched
  <2>4. OnItsWay = {}
    BY <1>1, <1>3 DEF OnItsWay
  <2> QED
    BY <1>1, <1>3, <2>2, <2>3, <2>4 DEF OrderInv, ListInv
<1>7. GoneInv /\ ShownInv
  <2>1. OnItsWay = {}
    BY <1>1, <1>3 DEF OnItsWay
  <2>2. Watched => Opening \in chains
    BY <1>1 DEF Watched
  <2>3. \A p : Brings(Opening, p)
    BY <1>3 DEF Brings
  <2> QED
    BY <1>1, <2>1, <2>2, <2>3 DEF GoneInv, ShownInv, InTime
<1>8. PageInv /\ LinkAsShown
  BY <1>2, NoneAssumption DEF PageInv, LinkAsShown, Value
<1> QED
  BY <1>4, <1>5, <1>6, <1>7, <1>8 DEF IInv

LEMMA Unchanged ==
  ASSUME IInv, UNCHANGED vars
  PROVE  IInv'
<1>1. UNCHANGED <<dialog, rights, hub, begun, chains, shares, recipients, listed, passed, stale,
                  failed, box, input, warning, copied>>
  BY DEF vars, lists, history, page
<1>2. TypeOK' /\ ChainInv' /\ PageInv' /\ LinkAsShown'
  BY <1>1 DEF IInv, TypeOK, ChainInv, PageInv, LinkAsShown, Value
<1>3. FreshInv' /\ OrderInv' /\ GoneInv'
  BY <1>1, FreshKept, GoneKept DEF IInv, OnItsWay, InTime, Watched, OrderInv
<1>4. ListInv'
  BY <1>1 DEF IInv, ListInv, Listable
<1>5. ShownInv'
  <2>1. \A c \in chains : \E d \in chains' : Carries(d, c)
    BY <1>1 DEF Carries
  <2> QED
    BY <1>1, <2>1, ShownKept DEF IInv, Watched
<1> QED
  BY <1>2, <1>3, <1>4, <1>5 DEF IInv

\* However the chains of requests overlap, whoever last read the list of shares brings what
\* the hub has, if it comes in time; whom the results show against that, or do not show, some
\* chain has yet to take away or to bring; and a link is never copied with the token but
\* below the warning of that, and as the field says.
THEOREM Invariant == Spec => []IInv
<1>1. IInv /\ [Next]_vars => IInv'
  BY TypeStep, ChainStep, OrderStep, FreshStep, ListStep, GoneStep, ShownStep, PageStep, Unchanged DEF IInv
<1> QED
  BY Initially, <1>1, PTL DEF Spec

\* However sharing and revoking overlapped, and whatever the hub refused, the table ends
\* with the shares that the hub has, if no older list came after a later one.
THEOREM Fresh == Spec => []SharesFresh
<1>1. IInv => SharesFresh
  BY DEF IInv, FreshInv, SharesFresh, Quiet, Watched, OnItsWay
<1> QED
  BY Invariant, <1>1, PTL

\* So the search results end with those, and with all others that the user may list but
\* who has a name of the owner or of one of those.
THEOREM Results == Spec => []OthersListed
<1>1. ASSUME IInv, Quiet
      PROVE  /\ listed \cap shares = {} /\ listed \subseteq Listable
             /\ \A p \in Listable : p.name \notin Names(shares) \cup {Owner} => p \in listed
  <2>1. ShownInv /\ Watched /\ chains = {} /\ recipients \subseteq Listable
    BY <1>1 DEF IInv, ListInv, Quiet, Watched
  <2> QED
    BY <2>1 DEF ShownInv, Revoking
<1>2. IInv => OthersListed
  BY <1>1 DEF OthersListed
<1> QED
  BY Invariant, <1>2, PTL
=============================================================================
