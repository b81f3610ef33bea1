----------------------------- MODULE ForksProofs -----------------------------
(* Theorems about Forks for any forks, edits and instances.                *)
EXTENDS Forks, TLAPS

USE RoomAssumption, BoundAssumption

-----------------------------------------------------------------------------
(* Documents                                                               *)

\* The first document of an id is one, and the ids and instances make a document.
LEMMA Documents ==
  /\ \A r \in Room : <<r, 1>> \in Document
  /\ \A f \in Fork : f \in Room /\ f # Root
  /\ \A d \in Document : d[1] \in Room /\ d[2] \in Nat \ {0} /\ d = <<d[1], d[2]>>
  /\ \A r, q \in Room : <<r, 1>> = <<q, 1>> => r = q
BY DEF Document, Room

\* The room that is served has a document.
LEMMA ServedDocument ==
  ASSUME TypeOK, NEW r \in Room, serves[r] # 0
  PROVE  Served(r) \in Document /\ serves[r] = made[r] /\ made[r] \in 1 .. MaxInstances
BY DEF TypeOK, Served, Document

\* An update reaches the document to which it is applied and all that are told of it.
LEMMA Applied ==
  ASSUME TypeOK, NEW d \in Document, NEW edits \in SUBSET Edit, Apply(d, edits)
  PROVE  /\ text' \in [Document -> SUBSET Edit]
         /\ \A e \in Document : text[e] \subseteq text'[e] /\ text'[e] \subseteq text[e] \cup edits
         /\ edits \subseteq text'[d]
         /\ \A f \in Fork : d \in above[f] => edits \subseteq text'[<<f, 1>>]
         /\ \A e \in Document : text'[e] # text[e] =>
              e = d \/ \E f \in Fork : e = <<f, 1>> /\ d \in above[f]
BY Documents DEF Apply, TypeOK

\* So what was above a fork stays above it.
LEMMA AppliedAbove ==
  ASSUME TypeOK, AboveInv, NEW d \in Document, NEW edits \in SUBSET Edit, Apply(d, edits),
         UNCHANGED above
  PROVE  AboveInv'
<1>1. ASSUME NEW f \in Fork, NEW e \in above[f] PROVE text'[e] \subseteq text'[<<f, 1>>]
  <2>1. e \in Document /\ text[e] \subseteq text[<<f, 1>>]
    BY DEF TypeOK, AboveInv
  <2>2. <<f, 1>> \in Document
    BY Documents
  <2>3. CASE text'[e] = text[e]
    BY <2>1, <2>2, <2>3, Applied
  <2>4. CASE text'[e] # text[e]
    <3>1. e = d \/ \E g \in Fork : e = <<g, 1>> /\ d \in above[g]
      BY <2>1, <2>4, Applied
    <3>2. d \in above[f]
      BY <3>1 DEF AboveInv
    <3> QED
      BY <2>1, <2>2, <3>2, Applied
  <2> QED
    BY <2>3, <2>4
<1> QED
  BY <1>1 DEF AboveInv

\* The operators on sequences that the events need
LEMMA Sequence ==
  ASSUME NEW S, NEW s \in Seq(S)
  PROVE  /\ \A x \in S : Append(s, x) \in Seq(S)
         /\ s # <<>> => Head(s) \in S /\ Tail(s) \in Seq(S)
OBVIOUS

-----------------------------------------------------------------------------
(* The steps                                                               *)

LEMMA TypeStep ==
  ASSUME IInv, Next
  PROVE  TypeOK'
<1>0. TypeOK
  BY DEF IInv, Inv
<1> DEFINE Event == [action : {"create", "delete"}, fork : Fork]
<1>1. ASSUME NEW r \in Room, NEW e \in Edit, Type(r, e) PROVE TypeOK'
  BY <1>0, <1>1, ServedDocument, Applied DEF TypeOK, Type, forks, browser
<1>2. CASE Cleaned
  <2>1. Root \in Room /\ made' = made /\ serves' = [serves EXCEPT ![Root] = 0]
    BY <1>2 DEF Cleaned, Room
  <2>2. /\ serves' \in [Room -> 0 .. MaxInstances]
        /\ \A q \in Room : serves'[q] = serves[q] \/ serves'[q] = 0
    BY <1>0, <2>1 DEF TypeOK
  <2>3. \A q \in Room : serves'[q] \in {0, made'[q]}
    BY <1>0, <2>1, <2>2 DEF TypeOK
  <2> QED
    BY <1>0, <1>2, <2>2, <2>3 DEF TypeOK, Cleaned, forks, browser
<1>3. ASSUME NEW r \in Room, MadeAgain(r) PROVE TypeOK'
  <2>1. /\ made' = [made EXCEPT ![r] = made[r] + 1] /\ made[r] + 1 \in 1 .. MaxInstances
        /\ serves' = [serves EXCEPT ![r] = made[r] + 1] /\ made[r] \in 1 .. MaxInstances
    BY <1>0, <1>3 DEF MadeAgain, TypeOK
  <2>2. made' \in [Room -> 0 .. MaxInstances] /\ serves' \in [Room -> 0 .. MaxInstances]
    BY <1>0, <2>1 DEF TypeOK
  <2>4. ASSUME NEW q \in Room PROVE serves'[q] \in {0, made'[q]}
    <3>1. CASE q = r
      <4>1. serves'[r] = made[r] + 1 /\ made'[r] = made[r] + 1
        BY <1>0, <2>1 DEF TypeOK
      <4> QED
        BY <3>1, <4>1
    <3>2. CASE q # r
      <4>1. serves'[q] = serves[q] /\ made'[q] = made[q] /\ serves[q] \in {0, made[q]}
        BY <1>0, <2>1, <3>2 DEF TypeOK
      <4> QED
        BY <4>1
    <3> QED
      BY <3>1, <3>2
  <2>3. text' \in [Document -> SUBSET Edit]
    <3>1. <<r, made[r]>> \in Document /\ <<r, made'[r]>> \in Document
      BY <1>0, <2>1 DEF TypeOK, Document
    <3>2. text[<<r, made[r]>>] \in SUBSET Edit
      BY <1>0, <3>1 DEF TypeOK
    <3>3. PICK edits \in SUBSET Edit : text' = [text EXCEPT ![<<r, made'[r]>>] = edits]
      BY <1>3, <3>2 DEF MadeAgain
    <3> QED
      BY <1>0, <3>1, <3>3 DEF TypeOK
  <2> QED
    BY <1>0, <1>3, <2>2, <2>3, <2>4 DEF TypeOK, MadeAgain, forks, browser
<1>4. ASSUME NEW f \in Fork, NEW r \in Room, NEW synchronize \in BOOLEAN, Create(f, r, synchronize)
      PROVE  TypeOK'
  <2>1. /\ f \in Room /\ <<f, 1>> \in Document /\ Served(r) \in Document
        /\ text[Served(r)] \in SUBSET Edit /\ Observes(r, synchronize) \in SUBSET Document
    BY <1>0, <1>4, Documents, ServedDocument DEF Create, Observes, Told, TypeOK
  <2>2. /\ made' \in [Room -> 0 .. MaxInstances] /\ serves' \in [Room -> 0 .. MaxInstances]
        /\ \A q \in Room : serves'[q] \in {0, made'[q]}
    BY <1>0, <1>4, <2>1 DEF TypeOK, Create
  <2>3. text' \in [Document -> SUBSET Edit] /\ above' \in [Fork -> SUBSET Document]
    BY <1>0, <1>4, <2>1 DEF TypeOK, Create
  <2>4. /\ table' \in [Fork -> [root : Room, synchronize : BOOLEAN] \cup {None}]
        /\ origin' \in [Fork -> Document \cup {None}]
    BY <1>0, <1>4, <2>1 DEF TypeOK, Create
  <2> QED
    BY <1>0, <1>4, <2>2, <2>3, <2>4 DEF TypeOK, Create, browser
<1>5. ASSUME NEW f \in Fork, Started(f) PROVE TypeOK'
  BY <1>0, <1>5 DEF TypeOK, Started, Emit, Answer, server
<1>6. ASSUME NEW r \in Room, List(r) PROVE TypeOK'
  BY <1>0, <1>6 DEF TypeOK, List, AllForks, Listed, server, forks
<1>7. CASE Hear
  <2>1. stream \in Seq(Event) /\ stream # <<>>
    BY <1>0, <1>7 DEF TypeOK, Hear
  <2>2. Tail(stream) \in Seq(Event) /\ Head(stream) \in Event
    <3> HIDE DEF Event
    <3> QED
      BY <2>1, Sequence
  <2> QED
    BY <1>0, <1>7, <2>2 DEF TypeOK, Hear, server, forks
<1>8. ASSUME NEW f \in Fork, NEW merge \in BOOLEAN, Delete(f, merge) PROVE TypeOK'
  <2> DEFINE done == f \notin starting /\ (merge => serves[table[f].root] # 0)
  <2>1. /\ f \in Room /\ <<f, 1>> \in Document /\ text[<<f, 1>>] \in SUBSET Edit
        /\ table[f].root \in Room
    BY <1>0, <1>8, Documents DEF Delete, Listed, TypeOK
  <2>2. \/ UNCHANGED text
        \/ /\ serves[table[f].root] # 0
           /\ Apply(Served(table[f].root), text[<<f, 1>>])
    BY <1>8 DEF Delete, MergeInto
  <2>3. text' \in [Document -> SUBSET Edit]
    BY <1>0, <2>1, <2>2, ServedDocument, Applied DEF TypeOK
  <2>4. serves' = serves \/ serves' = [serves EXCEPT ![f] = 0]
    BY <1>8 DEF Delete
  <2>5. /\ made' = made /\ serves' \in [Room -> 0 .. MaxInstances]
        /\ \A q \in Room : serves'[q] \in {0, made'[q]}
    BY <1>0, <1>8, <2>1, <2>4 DEF Delete, TypeOK
  <2>6. stream' \in Seq(Event)
    <3>1. stream \in Seq(Event) /\ [action |-> "delete", fork |-> f] \in Event
      BY <1>0 DEF TypeOK
    <3>2. stream' = stream \/ stream' = Append(stream, [action |-> "delete", fork |-> f])
      BY <1>8 DEF Delete, Emit
    <3> HIDE DEF Event
    <3> QED
      BY <3>1, <3>2, Sequence
  <2>7. table' \in [Fork -> [root : Room, synchronize : BOOLEAN] \cup {None}]
    BY <1>0, <1>8 DEF Delete, TypeOK
  <2> QED
    BY <1>0, <1>8, <2>3, <2>5, <2>6, <2>7 DEF Delete, TypeOK
<1> QED
  BY <1>1, <1>2, <1>3, <1>4, <1>5, <1>6, <1>7, <1>8 DEF Next
\* The first event, and those after it
LEMMA First ==
  ASSUME NEW S, NEW s \in Seq(S), s # <<>>
  PROVE  /\ 1 \in 1 .. Len(s) /\ s[1] = Head(s) /\ Len(s) \in Nat
         /\ Len(Tail(s)) = Len(s) - 1
         /\ \A i \in 1 .. Len(s) - 1 : Tail(s)[i] = s[i + 1]
OBVIOUS

LEMMA Later ==
  ASSUME NEW n \in Nat, NEW action
  PROVE  Events(action, n + 1) \subseteq Events(action, n)
BY DEF Events

LEMMA MadeStep ==
  ASSUME IInv, Next
  PROVE  ListedServed' /\ MadeInv'
<1>0. TypeOK /\ ListedServed /\ MadeInv
  BY DEF IInv, Inv
<1>1. ASSUME NEW r \in Room, NEW e \in Edit, Type(r, e) PROVE ListedServed' /\ MadeInv'
  BY <1>0, <1>1 DEF ListedServed, MadeInv, Listed, Type, forks, browser
<1>2. CASE Cleaned
  BY <1>0, <1>2, Documents DEF ListedServed, MadeInv, Listed, Cleaned, forks, browser, TypeOK
<1>3. ASSUME NEW r \in Room, MadeAgain(r) PROVE ListedServed' /\ MadeInv'
  <2>1. /\ made' = [made EXCEPT ![r] = made[r] + 1] /\ made[r] \in Nat \ {0} /\ serves[r] = 0
        /\ serves' = [serves EXCEPT ![r] = made[r] + 1]
        /\ UNCHANGED <<table, origin, above, starting, known>>
    BY <1>0, <1>3 DEF MadeAgain, TypeOK, forks, browser
  <2>2. \A q \in Room : made'[q] \in Nat /\ made[q] \in Nat /\ made[q] <= made'[q]
    BY <1>0, <2>1 DEF TypeOK
  <2>3. \A q \in Room : q # r => serves'[q] = serves[q] /\ made'[q] = made[q]
    BY <1>0, <2>1 DEF TypeOK
  <2>4. ListedServed'
    BY <1>0, <2>1, <2>3, Documents DEF ListedServed, Listed
  <2>5. ASSUME NEW f \in Fork, NEW d \in above[f] PROVE d[2] <= made'[d[1]]
    <3>1. d[1] \in Room /\ d[2] \in Nat /\ d[2] <= made[d[1]]
      BY <1>0, Documents DEF TypeOK, MadeInv
    <3> QED
      BY <2>2, <3>1
  <2> QED
    BY <1>0, <2>1, <2>2, <2>3, <2>4, <2>5, Documents DEF MadeInv, Listed
<1>4. ASSUME NEW f \in Fork, NEW r \in Room, NEW synchronize \in BOOLEAN, Create(f, r, synchronize)
      PROVE  ListedServed' /\ MadeInv'
  <2>1. /\ f \in Room /\ Served(r) \in Document /\ serves[r] = made[r] /\ made[r] \in Nat \ {0}
        /\ made[f] = 0 /\ r # f
        /\ made' = [made EXCEPT ![f] = 1] /\ serves' = [serves EXCEPT ![f] = 1]
        /\ table' = [table EXCEPT ![f] = [root |-> r, synchronize |-> synchronize]]
        /\ origin' = [origin EXCEPT ![f] = Served(r)]
        /\ above' = [above EXCEPT ![f] = Observes(r, synchronize)]
        /\ starting' = starting \cup {f} /\ known' = known
    BY <1>0, <1>4, ServedDocument, Documents DEF Create, browser
  <2>2. Observes(r, synchronize) \in SUBSET Document /\ (synchronize => Served(r) \in Observes(r, synchronize))
    BY <2>1 DEF Observes, Told
  <2>3. \A q \in Room : made'[q] \in Nat /\ made[q] \in Nat /\ made[q] <= made'[q]
    BY <1>0, <2>1 DEF TypeOK
  <2>4. ASSUME NEW d \in Observes(r, synchronize) PROVE d[2] <= made[d[1]]
    <3>1. d = Served(r) \/ \E g \in Fork : d \in above[g]
      BY DEF Observes, Told
    <3>2. CASE d = Served(r)
      BY <2>1, <3>2 DEF Served
    <3> QED
      BY <1>0, <3>1, <3>2 DEF MadeInv
  <2>a. /\ made'[f] = 1 /\ serves'[f] = 1 /\ above'[f] = Observes(r, synchronize)
        /\ table'[f] = [root |-> r, synchronize |-> synchronize] /\ origin'[f] = Served(r)
    BY <1>0, <2>1 DEF TypeOK
  <2>b. \A g \in Fork : g # f =>
          /\ made'[g] = made[g] /\ serves'[g] = serves[g] /\ table'[g] = table[g]
          /\ origin'[g] = origin[g] /\ above'[g] = above[g]
          /\ g \in starting' <=> g \in starting
    BY <1>0, <2>1, Documents DEF TypeOK
  <2>5. ListedServed'
    BY <1>0, <2>a, <2>b DEF ListedServed, Listed
  <2>6. ASSUME NEW g \in Fork
        PROVE  /\ made'[g] = 0 => table'[g] = None /\ above'[g] = {}
                                  /\ g \notin starting' /\ g \notin known'
               /\ \A d \in above'[g] : d[2] <= made'[d[1]]
               /\ g \in starting' => serves'[g] = 1
               /\ g \in Listed' => /\ table'[g].root # g
                                   /\ table'[g].synchronize => origin'[g] \in above'[g]
    <3>1. \A d \in above'[g] : d[1] \in Room /\ d[2] \in Nat /\ d[2] <= made[d[1]]
      BY <1>0, <2>1, <2>2, <2>4, Documents DEF TypeOK, MadeInv
    <3>2. \A d \in above'[g] : d[2] <= made'[d[1]]
      BY <2>3, <3>1
    <3>3. CASE g = f
      BY <2>1, <2>2, <2>a, <3>2, <3>3
    <3>4. CASE g # f
      BY <1>0, <2>1, <2>b, <3>2, <3>4 DEF MadeInv, Listed
    <3> QED
      BY <3>3, <3>4
  <2> QED
    BY <2>5, <2>6 DEF MadeInv
<1>5. ASSUME NEW f \in Fork, Started(f) PROVE ListedServed' /\ MadeInv'
  BY <1>0, <1>5 DEF ListedServed, MadeInv, Listed, Started, Answer, server
<1>6. ASSUME NEW r \in Room, List(r) PROVE ListedServed' /\ MadeInv'
  BY <1>0, <1>6 DEF ListedServed, MadeInv, Listed, List, AllForks, server, forks
<1>7. CASE Hear
  <2>1. /\ UNCHANGED <<made, serves, table, origin, above, starting>> /\ stream # <<>>
        /\ \/ known' \subseteq known
           \/ Head(stream).action = "create" /\ known' = known \cup {Head(stream).fork}
    BY <1>7 DEF Hear, server, forks
  <2>2. ASSUME NEW f \in Fork, stream # <<>>, Head(stream).action = "create", f = Head(stream).fork
        PROVE  made[f] # 0
    <3>1. 1 \in 1 .. Len(stream) /\ stream[1] = Head(stream)
      <4> DEFINE Event == [action : {"create", "delete"}, fork : Fork]
      <4>1. stream \in Seq(Event)
        BY <1>0 DEF TypeOK
      <4> HIDE DEF Event
      <4> QED
        BY <2>2, <4>1, First
    <3>2. f \in Listed \cup Orphan \cup Events("delete", 1 + 1)
      BY <2>2, <3>1 DEF IInv, HearInv
    <3>3. f \in Events("delete", 1 + 1) => f \in Events("delete", 1)
      BY Later
    <3>4. f \in Listed => made[f] # 0
      BY <1>0 DEF MadeInv, Listed
    <3>5. f \in Orphan => made[f] # 0
      <4>1. f \in Room /\ serves[f] \in {0, made[f]} /\ (f \in Orphan => serves[f] = 1)
        BY <1>0, Documents DEF TypeOK, Orphan
      <4> QED
        BY <4>1
    <3>6. f \in Events("delete", 1) => made[f] # 0
      BY DEF IInv, HearInv
    <3> QED
      BY <3>2, <3>3, <3>4, <3>5, <3>6
  <2> QED
    BY <1>0, <2>1, <2>2 DEF ListedServed, MadeInv, Listed
<1>8. ASSUME NEW f \in Fork, NEW merge \in BOOLEAN, Delete(f, merge) PROVE ListedServed' /\ MadeInv'
  BY <1>0, <1>8, Documents DEF ListedServed, MadeInv, Listed, Delete, TypeOK
<1> QED
  BY <1>1, <1>2, <1>3, <1>4, <1>5, <1>6, <1>7, <1>8 DEF Next

\* Above a fork are only documents that were made.
LEMMA AboveMade ==
  ASSUME TypeOK, MadeInv, NEW f \in Fork, NEW d \in above[f]
  PROVE  d \in Document /\ \A q \in Room, n \in Nat : d = <<q, n>> => n <= made[q]
BY DEF TypeOK, MadeInv

LEMMA AboveStep ==
  ASSUME IInv, Next
  PROVE  AboveInv'
<1>0. TypeOK /\ MadeInv /\ AboveInv
  BY DEF IInv, Inv
<1>1. ASSUME NEW r \in Room, NEW e \in Edit, Type(r, e) PROVE AboveInv'
  BY <1>0, <1>1, ServedDocument, AppliedAbove DEF Type, forks
<1>2. ASSUME UNCHANGED <<text, above>> PROVE AboveInv'
  BY <1>0, <1>2 DEF AboveInv
<1>3. ASSUME NEW r \in Room, MadeAgain(r) PROVE AboveInv'
  <2>1. /\ made[r] \in Nat \ {0} /\ made'[r] = made[r] + 1 /\ above' = above
        /\ \A d \in Document : d # <<r, made'[r]>> => text'[d] = text[d]
    BY <1>0, <1>3 DEF MadeAgain, TypeOK, forks
  <2>2. ASSUME NEW f \in Fork PROVE text'[<<f, 1>>] = text[<<f, 1>>]
    BY <2>1, Documents
  <2>3. ASSUME NEW f \in Fork, NEW d \in above[f] PROVE text'[d] = text[d]
    BY <1>0, <2>1, AboveMade
  <2> QED
    BY <1>0, <2>1, <2>2, <2>3 DEF AboveInv
<1>4. ASSUME NEW f \in Fork, NEW r \in Room, NEW synchronize \in BOOLEAN, Create(f, r, synchronize)
      PROVE  AboveInv'
  <2>1. f \in Room /\ <<f, 1>> \in Document /\ Served(r) \in Document /\ made[f] = 0 /\ r # f
    BY <1>0, <1>4, ServedDocument, Documents DEF Create
  <2>2. /\ text'[<<f, 1>>] = text[Served(r)]
        /\ \A d \in Document : d # <<f, 1>> => text'[d] = text[d]
        /\ above'[f] = Observes(r, synchronize)
        /\ \A g \in Fork : g # f => above'[g] = above[g]
    BY <1>0, <1>4, <2>1 DEF Create, TypeOK
  <2>3. \A g \in Fork : <<f, 1>> \notin above[g]
    BY <1>0, <2>1, AboveMade
  <2>4. Served(r) # <<f, 1>>
    BY <2>1 DEF Served
  <2>5. \A d \in Observes(r, synchronize) :
          d = Served(r) \/ \E h \in Fork : Served(r) = <<h, 1>> /\ d \in above[h]
    BY DEF Observes, Told
  <2>6. \A h \in Fork : synchronize /\ Served(r) = <<h, 1>> => above[h] \subseteq Observes(r, synchronize)
    BY <1>0, AboveMade DEF Observes, Told
  <2>7. <<f, 1>> \notin Observes(r, synchronize)
    BY <2>3, <2>4, <2>5
  <2>8. ASSUME NEW d \in above'[f] PROVE text'[d] \subseteq text'[<<f, 1>>]
    <3>1. d \in Document /\ d # <<f, 1>> /\ text[d] \subseteq text[Served(r)]
      BY <1>0, <2>1, <2>2, <2>5, <2>7, <2>8, AboveMade DEF AboveInv
    <3> QED
      BY <2>2, <3>1
  <2>9. ASSUME NEW g \in Fork, <<g, 1>> \in above'[f] PROVE above'[g] \subseteq above'[f]
    <3>1. g # f /\ synchronize /\ <<g, 1>> \in Observes(r, synchronize)
      BY <2>2, <2>7, <2>9 DEF Observes
    <3>2. above[g] \subseteq Observes(r, synchronize)
      BY <1>0, <2>5, <2>6, <3>1 DEF AboveInv
    <3> QED
      BY <2>2, <3>1, <3>2
  <2>10. ASSUME NEW g \in Fork, g # f
         PROVE  /\ \A d \in above'[g] : text'[d] \subseteq text'[<<g, 1>>]
                /\ \A h \in Fork : <<h, 1>> \in above'[g] => above'[h] \subseteq above'[g]
    <3>1. <<g, 1>> \in Document /\ <<g, 1>> # <<f, 1>>
      BY <2>10, Documents
    <3>2. \A d \in above[g] : d \in Document /\ d # <<f, 1>>
      BY <1>0, <2>3, AboveMade
    <3>3. \A h \in Fork : <<h, 1>> \in above[g] => h # f
      BY <2>3
    <3> QED
      BY <1>0, <2>2, <2>10, <3>1, <3>2, <3>3 DEF AboveInv
  <2> QED
    BY <2>8, <2>9, <2>10 DEF AboveInv
<1>5. ASSUME NEW f \in Fork, NEW merge \in BOOLEAN, Delete(f, merge) PROVE AboveInv'
  <2>1. /\ f \in Room /\ <<f, 1>> \in Document /\ text[<<f, 1>>] \in SUBSET Edit
        /\ table[f].root \in Room /\ above' = above
    BY <1>0, <1>5, Documents DEF Delete, Listed, TypeOK
  <2>2. \/ UNCHANGED text
        \/ /\ serves[table[f].root] # 0
           /\ Apply(Served(table[f].root), text[<<f, 1>>])
    BY <1>5 DEF Delete, MergeInto
  <2> QED
    BY <1>0, <1>2, <2>1, <2>2, ServedDocument, AppliedAbove
<1> QED
  BY <1>1, <1>2, <1>3, <1>4, <1>5 DEF Next, Cleaned, Started, List, Hear, server, forks

-----------------------------------------------------------------------------
(* The events                                                              *)

LEMMA Longer ==
  ASSUME NEW S, NEW s \in Seq(S), NEW x \in S
  PROVE  /\ Len(s) \in Nat /\ Len(Append(s, x)) = Len(s) + 1
         /\ \A i \in 1 .. Len(s) : Append(s, x)[i] = s[i]
         /\ Append(s, x)[Len(s) + 1] = x
OBVIOUS

\* The events on their way are finitely many.
LEMMA StreamLength ==
  ASSUME TypeOK
  PROVE  Len(stream) \in Nat
<1> DEFINE Event == [action : {"create", "delete"}, fork : Fork]
<1>1. stream \in Seq(Event)
  BY DEF TypeOK
<1> HIDE DEF Event
<1> QED
  BY <1>1

\* What is told of a fork when an event follows the others
LEMMA Emitted ==
  ASSUME TypeOK, NEW f \in Fork, NEW action \in {"create", "delete"}, Emit(action, f)
  PROVE  /\ Len(stream') = Len(stream) + 1
         /\ \A i \in 1 .. Len(stream) : stream'[i] = stream[i]
         /\ stream'[Len(stream) + 1] = [action |-> action, fork |-> f]
         /\ \A n \in 1 .. Len(stream) + 1 :
              /\ Events("delete", n) \subseteq Events("delete", n)'
              /\ Events("delete", n)' \subseteq
                   Events("delete", n) \cup (IF action = "delete" THEN {f} ELSE {})
              /\ action = "delete" => f \in Events("delete", n)'
<1> DEFINE Event == [action : {"create", "delete"}, fork : Fork]
<1>1. /\ stream \in Seq(Event) /\ [action |-> action, fork |-> f] \in Event
      /\ stream' = Append(stream, [action |-> action, fork |-> f])
  BY DEF TypeOK, Emit
<1>2. /\ Len(stream) \in Nat /\ Len(stream') = Len(stream) + 1
      /\ \A i \in 1 .. Len(stream) : stream'[i] = stream[i]
      /\ stream'[Len(stream) + 1] = [action |-> action, fork |-> f]
  <2> HIDE DEF Event
  <2> QED
    BY <1>1, Longer
<1>3. ASSUME NEW n \in 1 .. Len(stream) + 1
      PROVE  /\ Events("delete", n) \subseteq Events("delete", n)'
             /\ Events("delete", n)' \subseteq
                  Events("delete", n) \cup (IF action = "delete" THEN {f} ELSE {})
             /\ action = "delete" => f \in Events("delete", n)'
  <2>1. ASSUME NEW g \in Events("delete", n) PROVE g \in Events("delete", n)'
    <3>1. PICK i \in n .. Len(stream) : stream[i] = [action |-> "delete", fork |-> g]
      BY DEF Events
    <3>2. i \in n .. Len(stream') /\ stream'[i] = [action |-> "delete", fork |-> g]
      BY <1>2, <3>1
    <3> QED
      BY <3>2 DEF Events
  <2>2. ASSUME NEW g \in Events("delete", n)'
        PROVE  g \in Events("delete", n) \/ (action = "delete" /\ g = f)
    <3>1. PICK i \in n .. Len(stream') : stream'[i] = [action |-> "delete", fork |-> g]
      BY DEF Events
    <3>2. CASE i \in 1 .. Len(stream)
      BY <1>2, <3>1, <3>2 DEF Events
    <3>3. CASE i = Len(stream) + 1
      <4>1. [action |-> action, fork |-> f] = [action |-> "delete", fork |-> g]
        BY <1>2, <3>1, <3>3
      <4> QED
        BY <4>1
    <3> QED
      BY <1>2, <3>1, <3>2, <3>3
  <2>3. ASSUME action = "delete" PROVE f \in Events("delete", n)'
    <3>1. Len(stream) + 1 \in n .. Len(stream')
      BY <1>2
    <3> QED
      BY <1>2, <2>3, <3>1 DEF Events
  <2> QED
    BY <2>1, <2>2, <2>3
<1> QED
  BY <1>2, <1>3

\* What is told of it when the first event was heard
LEMMA Heard ==
  ASSUME TypeOK, stream # <<>>, stream' = Tail(stream)
  PROVE  /\ Head(stream) = stream[1] /\ 1 \in 1 .. Len(stream)
         /\ Len(stream') = Len(stream) - 1
         /\ \A i \in 1 .. Len(stream') : stream'[i] = stream[i + 1]
         /\ \A n \in Nat \ {0} : Events("delete", n)' = Events("delete", n + 1)
         /\ \A f \in Events("delete", 1) : f \in Events("delete", 1 + 1)
              \/ (Head(stream).action = "delete" /\ Head(stream).fork = f)
         /\ Head(stream).action = "delete" => Head(stream).fork \in Events("delete", 1)
<1> DEFINE Event == [action : {"create", "delete"}, fork : Fork]
<1>1. stream \in Seq(Event)
  BY DEF TypeOK
<1>2. /\ 1 \in 1 .. Len(stream) /\ stream[1] = Head(stream) /\ Len(stream) \in Nat
      /\ Len(stream') = Len(stream) - 1
      /\ \A i \in 1 .. Len(stream) - 1 : stream'[i] = stream[i + 1]
  <2> HIDE DEF Event
  <2> QED
    BY <1>1, First
<1>3. Head(stream) \in Event
  <2> HIDE DEF Event
  <2> QED
    BY <1>1, Sequence
<1>4. ASSUME NEW n \in Nat \ {0} PROVE Events("delete", n)' = Events("delete", n + 1)
  <2>1. ASSUME NEW f \in Events("delete", n)' PROVE f \in Events("delete", n + 1)
    <3>1. PICK i \in n .. Len(stream') : stream'[i] = [action |-> "delete", fork |-> f]
      BY DEF Events
    <3>2. i + 1 \in n + 1 .. Len(stream) /\ stream[i + 1] = [action |-> "delete", fork |-> f]
      BY <1>2, <3>1
    <3> QED
      BY <3>2 DEF Events
  <2>2. ASSUME NEW f \in Events("delete", n + 1) PROVE f \in Events("delete", n)'
    <3>1. PICK i \in n + 1 .. Len(stream) : stream[i] = [action |-> "delete", fork |-> f]
      BY DEF Events
    <3>2. i - 1 \in n .. Len(stream') /\ stream'[i - 1] = [action |-> "delete", fork |-> f]
      BY <1>2, <3>1
    <3> QED
      BY <3>2 DEF Events
  <2> QED
    BY <2>1, <2>2
<1>5. ASSUME NEW f \in Events("delete", 1)
      PROVE  f \in Events("delete", 1 + 1) \/ (Head(stream).action = "delete" /\ Head(stream).fork = f)
  <2>1. PICK i \in 1 .. Len(stream) : stream[i] = [action |-> "delete", fork |-> f]
    BY DEF Events
  <2>2. CASE i = 1
    BY <1>2, <2>1, <2>2
  <2>3. CASE i # 1
    <3>1. i \in 1 + 1 .. Len(stream)
      BY <1>2, <2>3
    <3> QED
      BY <2>1, <3>1 DEF Events
  <2> QED
    BY <2>2, <2>3
<1>6. ASSUME Head(stream).action = "delete" PROVE Head(stream).fork \in Events("delete", 1)
  <2>1. /\ Head(stream).fork \in Fork
        /\ stream[1] = [action |-> "delete", fork |-> Head(stream).fork]
    BY <1>2, <1>3, <1>6
  <2> QED
    BY <1>2, <2>1 DEF Events
<1> QED
  BY <1>2, <1>4, <1>5, <1>6

LEMMA HearStep ==
  ASSUME IInv, Next
  PROVE  HearInv'
<1>0. TypeOK /\ ListedServed /\ MadeInv /\ HearInv
  BY DEF IInv, Inv
<1>1. ASSUME UNCHANGED <<stream, known, table, starting>>, Orphan' = Orphan,
             \A f \in Fork : made[f] # 0 => made'[f] # 0
      PROVE  HearInv'
  <2>1. \A n \in Nat : Events("delete", n)' = Events("delete", n)
    BY <1>1 DEF Events
  <2>2. Events("delete", 1)' = Events("delete", 1) /\ Listed' = Listed
    BY <1>1, <2>1 DEF Listed
  <2>3. \A i \in 1 .. Len(stream) : Events("delete", i + 1)' = Events("delete", i + 1)
    BY <1>0, <2>1, StreamLength
  <2>4. Events("delete", 1) \subseteq Fork
    BY DEF Events
  <2> QED
    BY <1>0, <1>1, <2>2, <2>3, <2>4 DEF HearInv
<1>2. ASSUME NEW r \in Room, NEW e \in Edit, Type(r, e) PROVE HearInv'
  BY <1>1, <1>2 DEF Type, forks, browser, Orphan, Listed
<1>3. CASE Cleaned
  BY <1>0, <1>1, <1>3, Documents DEF Cleaned, forks, browser, Orphan, Listed, TypeOK
<1>4. ASSUME NEW r \in Room, MadeAgain(r) PROVE HearInv'
  <2>1. /\ made[r] \in Nat \ {0} /\ made'[r] = made[r] + 1 /\ serves[r] = 0 /\ serves'[r] = made'[r]
        /\ \A q \in Room : q # r => made'[q] = made[q] /\ serves'[q] = serves[q]
        /\ UNCHANGED <<stream, known, table, starting>>
    BY <1>0, <1>4 DEF MadeAgain, TypeOK, forks, browser
  <2>2. \A f \in Fork : serves'[f] = 1 <=> serves[f] = 1
    BY <2>1, Documents
  <2>3. Orphan' = Orphan
    BY <2>1, <2>2 DEF Orphan, Listed
  <2> QED
    BY <1>1, <2>1, <2>3, Documents
<1>5. ASSUME NEW f \in Fork, NEW r \in Room, NEW synchronize \in BOOLEAN, Create(f, r, synchronize)
      PROVE  HearInv'
  <2>1. /\ made[f] = 0 /\ made'[f] = 1 /\ serves[f] = 0 /\ table'[f] # None
        /\ \A g \in Fork : g # f =>
             made'[g] = made[g] /\ serves'[g] = serves[g] /\ table'[g] = table[g]
        /\ starting' = starting \cup {f} /\ stream' = stream /\ known' = known
    <3>1. made[f] = 0 /\ f \in Room /\ serves[f] \in {0, made[f]}
      BY <1>0, <1>5, Documents DEF Create, TypeOK
    <3>2. None # [root |-> r, synchronize |-> synchronize]
      BY <3>1
    <3> QED
      BY <1>0, <1>5, <3>1, <3>2, Documents DEF Create, TypeOK, browser
  <2>2. f \notin Listed /\ f \notin Orphan /\ f \notin Events("delete", 1) /\ f \notin known
    BY <1>0, <2>1 DEF Listed, Orphan, HearInv, MadeInv
  <2>3. Listed' = Listed \cup {f} /\ Orphan' = Orphan
    BY <2>1, <2>2 DEF Listed, Orphan
  <2>4. \A n \in Nat : Events("delete", n)' = Events("delete", n)
    BY <2>1 DEF Events
  <2>5. Events("delete", 1)' = Events("delete", 1)
    BY <2>4
  <2>6. \A i \in 1 .. Len(stream) : Events("delete", i + 1)' = Events("delete", i + 1)
    BY <1>0, <2>4, StreamLength
  <2>7. Events("delete", 1) \subseteq Fork
    BY DEF Events
  <2> QED
    BY <1>0, <2>1, <2>2, <2>3, <2>5, <2>6, <2>7 DEF HearInv
<1>6. ASSUME NEW f \in Fork, Started(f) PROVE HearInv'
  <2>1. /\ f \in starting /\ starting' = starting \ {f} /\ Emit("create", f)
        /\ known' = known \cup {f} /\ Listed' = Listed /\ Orphan' = Orphan /\ made' = made
    BY <1>6 DEF Started, Answer, server, Listed, Orphan
  <2>2. f \in Listed \cup Orphan
    BY <1>0, <2>1 DEF MadeInv, Listed, Orphan
  <2>3. Len(stream) \in Nat /\ Len(stream') = Len(stream) + 1
    BY <1>0, <2>1, StreamLength, Emitted
  <2>4. /\ \A i \in 1 .. Len(stream) : stream'[i] = stream[i]
        /\ stream'[Len(stream) + 1] = [action |-> "create", fork |-> f]
    BY <1>0, <2>1, Emitted
  <2>a. ASSUME NEW n \in 1 .. Len(stream) + 1 PROVE Events("delete", n)' = Events("delete", n)
    <3>1. /\ Events("delete", n) \subseteq Events("delete", n)'
          /\ Events("delete", n)' \subseteq
               Events("delete", n) \cup (IF "create" = "delete" THEN {f} ELSE {})
      BY <1>0, <2>1, Emitted
    <3> QED
      BY <3>1
  <2>5. Events("delete", 1)' = Events("delete", 1)
    BY <2>3, <2>a
  <2>6. ASSUME NEW i \in 1 .. Len(stream'), stream'[i].action = "create"
        PROVE  stream'[i].fork \in Listed \cup Orphan \cup Events("delete", i + 1)'
    <3>1. CASE i \in 1 .. Len(stream)
      <4>1. Events("delete", i + 1)' = Events("delete", i + 1)
        BY <2>3, <2>a, <3>1
      <4> QED
        BY <1>0, <2>4, <2>6, <3>1, <4>1 DEF HearInv
    <3>2. CASE i = Len(stream) + 1
      BY <2>2, <2>4, <3>2
    <3> QED
      BY <2>3, <3>1, <3>2
  <2> QED
    BY <1>0, <2>1, <2>2, <2>5, <2>6 DEF HearInv
<1>7. ASSUME NEW r \in Room, List(r) PROVE HearInv'
  <2>1. /\ UNCHANGED <<stream, starting, made>> /\ Listed' = Listed /\ Orphan' = Orphan
        /\ known \subseteq known' /\ known' \subseteq known \cup Listed
    BY <1>7 DEF List, AllForks, server, forks, Listed, Orphan
  <2>2. \A n \in Nat : Events("delete", n)' = Events("delete", n)
    BY <2>1 DEF Events
  <2>3. Events("delete", 1)' = Events("delete", 1)
    BY <2>2
  <2>4. \A i \in 1 .. Len(stream) : Events("delete", i + 1)' = Events("delete", i + 1)
    BY <1>0, <2>2, StreamLength
  <2> QED
    BY <1>0, <2>1, <2>3, <2>4 DEF HearInv
<1>8. CASE Hear
  <2> DEFINE event == Head(stream)
  <2>1. /\ stream # <<>> /\ stream' = Tail(stream) /\ UNCHANGED <<starting, made>>
        /\ Listed' = Listed /\ Orphan' = Orphan
        /\ known' = IF event.action = "create" THEN known \cup {event.fork} ELSE known \ {event.fork}
    BY <1>8 DEF Hear, server, forks, Listed, Orphan
  <2>2. /\ event = stream[1] /\ 1 \in 1 .. Len(stream) /\ Len(stream') = Len(stream) - 1
        /\ \A i \in 1 .. Len(stream') : stream'[i] = stream[i + 1]
        /\ \A n \in Nat \ {0} : Events("delete", n)' = Events("delete", n + 1)
        /\ \A f \in Events("delete", 1) : f \in Events("delete", 1 + 1)
             \/ (event.action = "delete" /\ event.fork = f)
        /\ event.action = "delete" => event.fork \in Events("delete", 1)
    BY <1>0, <2>1, Heard
  <2>3. Len(stream) \in Nat
    BY <1>0, StreamLength
  <2>4. Events("delete", 1)' = Events("delete", 1 + 1)
    BY <2>2
  <2>5. Events("delete", 1 + 1) \subseteq Events("delete", 1)
    BY Later
  <2>6. event.action = "create" => event.fork \in Listed \cup Orphan \cup Events("delete", 1 + 1)
    BY <1>0, <2>2 DEF HearInv
  <2>7. ASSUME NEW i \in 1 .. Len(stream'), stream'[i].action = "create"
        PROVE  stream'[i].fork \in Listed \cup Orphan \cup Events("delete", i + 1)'
    <3>1. i + 1 \in 1 .. Len(stream) /\ stream'[i] = stream[i + 1]
      BY <2>2, <2>3
    <3>2. Events("delete", i + 1)' = Events("delete", i + 1 + 1)
      BY <2>2
    <3> QED
      BY <1>0, <2>7, <3>1, <3>2 DEF HearInv
  <2>8. Listed \ starting \subseteq known'
    <3>1. event.action # "create" => event.fork \notin Listed
      <4>1. event.action \in {"create", "delete"}
        <5> DEFINE Event == [action : {"create", "delete"}, fork : Fork]
        <5>1. stream \in Seq(Event)
          BY <1>0 DEF TypeOK
        <5>2. event \in Event
          <6> HIDE DEF Event
          <6> QED
            BY <2>1, <5>1, Sequence
        <5> QED
          BY <5>2
      <4> QED
        BY <1>0, <2>2, <4>1 DEF HearInv
    <3> QED
      BY <1>0, <2>1, <3>1 DEF HearInv
  <2>9. known' \subseteq Listed \cup Orphan \cup Events("delete", 1 + 1)
    BY <1>0, <2>1, <2>2, <2>6 DEF HearInv
  <2> QED
    BY <1>0, <2>1, <2>4, <2>5, <2>7, <2>8, <2>9 DEF HearInv
<1>9. ASSUME NEW f \in Fork, NEW merge \in BOOLEAN, Delete(f, merge) PROVE HearInv'
  <2> DEFINE done == f \notin starting /\ (merge => serves[table[f].root] # 0)
  <2>1. /\ f \in known /\ f \in Listed /\ UNCHANGED <<made, starting, known>>
        /\ table' = [table EXCEPT ![f] = None]
        /\ serves' = IF done THEN [serves EXCEPT ![f] = 0] ELSE serves
    BY <1>9 DEF Delete, Deletable
  <2>2. Listed' = Listed \ {f} /\ made[f] # 0 /\ f \in Room /\ serves[f] = 1
    BY <1>0, <2>1, Documents DEF Listed, TypeOK, MadeInv, ListedServed
  <2>3. CASE ~ done
    <3>1. serves' = serves /\ stream' = stream
      BY <1>9, <2>3 DEF Delete
    <3>2. Listed' \cup Orphan' = Listed \cup Orphan
      BY <2>2, <3>1 DEF Orphan
    <3>3. \A n \in Nat : Events("delete", n)' = Events("delete", n)
      BY <3>1 DEF Events
    <3>4. Events("delete", 1)' = Events("delete", 1)
      BY <3>3
    <3>5. \A i \in 1 .. Len(stream) : Events("delete", i + 1)' = Events("delete", i + 1)
      BY <1>0, <3>3, StreamLength
    <3> QED
      BY <1>0, <2>1, <2>2, <3>1, <3>2, <3>4, <3>5 DEF HearInv
  <2>4. CASE done
    <3>1. serves' = [serves EXCEPT ![f] = 0] /\ Emit("delete", f)
      BY <1>9, <2>4 DEF Delete
    <3>2. Orphan' = Orphan
      <4>1. serves'[f] = 0 /\ \A g \in Fork : g # f => serves'[g] = serves[g]
        BY <1>0, <2>2, <3>1, Documents DEF TypeOK
      <4> QED
        BY <2>1, <2>2, <4>1 DEF Orphan
    <3>3. Len(stream) \in Nat /\ Len(stream') = Len(stream) + 1
      BY <1>0, <3>1, StreamLength, Emitted
    <3>4. /\ \A i \in 1 .. Len(stream) : stream'[i] = stream[i]
          /\ stream'[Len(stream) + 1] = [action |-> "delete", fork |-> f]
      BY <1>0, <3>1, Emitted
    <3>a. ASSUME NEW n \in 1 .. Len(stream) + 1 PROVE Events("delete", n)' = Events("delete", n) \cup {f}
      <4>1. /\ Events("delete", n) \subseteq Events("delete", n)'
            /\ Events("delete", n)' \subseteq
                 Events("delete", n) \cup (IF "delete" = "delete" THEN {f} ELSE {})
            /\ f \in Events("delete", n)'
        BY <1>0, <3>1, Emitted
      <4> QED
        BY <4>1
    <3>5. Events("delete", 1)' = Events("delete", 1) \cup {f}
      BY <3>3, <3>a
    <3>6. ASSUME NEW i \in 1 .. Len(stream'), stream'[i].action = "create"
          PROVE  stream'[i].fork \in Listed' \cup Orphan' \cup Events("delete", i + 1)'
      <4>1. i \in 1 .. Len(stream) /\ stream'[i] = stream[i]
        BY <3>3, <3>4, <3>6
      <4>2. Events("delete", i + 1)' = Events("delete", i + 1) \cup {f}
        BY <3>3, <3>a, <4>1
      <4>3. stream[i].fork \in Listed \cup Orphan \cup Events("delete", i + 1)
        BY <1>0, <3>6, <4>1 DEF HearInv
      <4> QED
        BY <2>2, <3>2, <4>1, <4>2, <4>3
    <3> QED
      BY <1>0, <2>1, <2>2, <3>2, <3>5, <3>6 DEF HearInv
  <2> QED
    BY <2>3, <2>4
<1> QED
  BY <1>2, <1>3, <1>4, <1>5, <1>6, <1>7, <1>8, <1>9 DEF Next

-----------------------------------------------------------------------------
(* The theorems                                                            *)

\* InSync: origin is above a fork that is kept in sync.  EventsTell: with no event on its
\* way there is nobody who has yet to hear.
LEMMA Consequences ==
  ASSUME TypeOK, MadeInv, AboveInv, HearInv
  PROVE  InSync /\ EventsTell
<1>1. InSync
  BY DEF InSync, MadeInv, AboveInv, Listed
<1>2. ASSUME stream = <<>> PROVE Events("delete", 1) = {}
  BY <1>2 DEF Events
<1> QED
  BY <1>1, <1>2 DEF EventsTell, HearInv

LEMMA Initially ==
  ASSUME Init
  PROVE  IInv
<1>1. /\ made \in [Room -> 0 .. MaxInstances] /\ serves = made
      /\ \A f \in Fork : f \in Room /\ made[f] = 0
  BY Documents DEF Init
<1>2. /\ text = [d \in Document |-> {}] /\ table = [f \in Fork |-> None]
      /\ origin = [f \in Fork |-> None] /\ above = [f \in Fork |-> {}]
      /\ starting = {} /\ stream = <<>> /\ known = {} /\ merged = {}
  BY DEF Init
<1>3. TypeOK
  BY <1>1, <1>2 DEF TypeOK
<1>4. Listed = {} /\ \A n \in Nat \ {0} : Events("delete", n) = {}
  <2>1. \A f \in Fork : table[f] = None
    BY <1>2
  <2>2. Listed = {}
    BY <2>1 DEF Listed
  <2>3. \A n \in Nat \ {0} : n .. Len(stream) = {}
    BY <1>2
  <2>4. \A n \in Nat \ {0} : Events("delete", n) = {}
    BY <2>3 DEF Events
  <2> QED
    BY <2>2, <2>4
<1>5. ListedServed /\ MadeInv /\ AboveInv
  BY <1>1, <1>2, <1>4 DEF ListedServed, MadeInv, AboveInv
<1>6. HearInv
  BY <1>2, <1>4 DEF HearInv
<1> QED
  BY <1>3, <1>5, <1>6, Consequences DEF IInv, Inv

LEMMA Unchanged ==
  ASSUME IInv, UNCHANGED vars
  PROVE  IInv'
<1>1. UNCHANGED <<made, serves, text, table, origin, above, starting, stream, known, merged>>
  BY DEF vars, server, forks, browser
<1>2. Listed' = Listed /\ Orphan' = Orphan /\ \A n \in Nat : Events("delete", n)' = Events("delete", n)
  BY <1>1 DEF Listed, Orphan, Events
<1>3. TypeOK' /\ ListedServed' /\ MadeInv' /\ AboveInv'
  BY <1>1, <1>2 DEF IInv, Inv, TypeOK, ListedServed, MadeInv, AboveInv
<1>4. HearInv'
  <2>1. Events("delete", 1)' = Events("delete", 1)
    BY <1>2
  <2>2. \A i \in 1 .. Len(stream) : Events("delete", i + 1)' = Events("delete", i + 1)
    BY <1>2, StreamLength DEF IInv, Inv
  <2> QED
    BY <1>1, <1>2, <2>1, <2>2 DEF IInv, HearInv
<1>5. InSync' /\ EventsTell'
  BY <1>1, <1>2 DEF IInv, Inv, InSync, EventsTell
<1> QED
  BY <1>3, <1>4, <1>5 DEF IInv, Inv

LEMMA Step ==
  ASSUME IInv, Next
  PROVE  IInv'
<1>1. TypeOK' /\ ListedServed' /\ MadeInv' /\ AboveInv' /\ HearInv'
  BY TypeStep, MadeStep, AboveStep, HearStep
<1>2. InSync' /\ EventsTell'
  <2>1. MadeInv' /\ AboveInv' /\ HearInv' /\ TypeOK' => InSync' /\ EventsTell'
    BY Consequences, PTL
  <2> QED
    BY <1>1, <2>1
<1> QED
  BY <1>1, <1>2 DEF IInv, Inv

\* A fork that is listed can be deleted and merged; one that is kept in sync has all that
\* was typed in what it was made of, or merged into that, a fork of a fork too; and who
\* lists the forks and follows the events knows in the end which there are: however many
\* forks there are, of each other, and however often their rooms are made again.
THEOREM Invariant == Spec => []IInv
<1>1. IInv /\ [Next]_vars => IInv'
  BY Step, Unchanged
<1> QED
  BY Initially, <1>1, PTL DEF Spec

\* What a merge promises, of the step that reports it
LEMMA MergedStep ==
  ASSUME IInv, Next, NEW f \in merged' \ merged
  PROVE  Merge(f)
<1>0. TypeOK /\ MadeInv
  BY DEF IInv, Inv
<1>1. PICK g \in Fork, merge \in BOOLEAN : Delete(g, merge)
  BY DEF Next, Type, Cleaned, MadeAgain, Create, Started, List, Hear
<1> DEFINE root == table[f].root
<1>2. /\ f = g /\ f \in Listed /\ serves[root] # 0
      /\ Apply(Served(root), text[<<f, 1>>])
      /\ serves' = [serves EXCEPT ![f] = 0]
      /\ table' = [table EXCEPT ![f] = None] /\ UNCHANGED <<above, origin>>
  BY <1>1 DEF Delete, MergeInto, Deletable
<1>3. f \in Fork /\ root \in Room /\ root # f /\ <<f, 1>> \in Document
  BY <1>0, <1>1, <1>2, Documents DEF TypeOK, MadeInv, Listed
<1>4. text[<<f, 1>>] \in SUBSET Edit /\ Served(root) \in Document
  BY <1>0, <1>2, <1>3, ServedDocument DEF TypeOK
<1>5. Served(root) = <<root, serves'[root]>>
  BY <1>0, <1>2, <1>3 DEF TypeOK, Served
<1>6. text[<<f, 1>>] \subseteq text'[<<root, serves'[root]>>]
  BY <1>0, <1>2, <1>4, <1>5, Applied
<1>7. ASSUME NEW h \in Listed', table'[h].synchronize, origin[h] = Served(root)
      PROVE  text[<<f, 1>>] \subseteq text'[<<h, 1>>]
  <2>1. h \in Fork /\ h # f /\ table'[h] = table[h] /\ h \in Listed
    BY <1>0, <1>2, <1>3 DEF TypeOK, Listed
  <2>2. Served(root) \in above[h]
    BY <1>0, <1>7, <2>1 DEF MadeInv
  <2> QED
    BY <1>0, <1>2, <1>4, <2>1, <2>2, Applied
<1> QED
  BY <1>6, <1>7 DEF Merge

\* A merge that is reported is whole: all that the fork had is in the root as its clients
\* see it, and in the forks kept in sync with that.
THEOREM Merged == Spec => MergedWhole
<1>1. IInv /\ [Next]_vars => [\A f \in merged' \ merged : Merge(f)]_vars
  BY MergedStep
<1> QED
  BY Invariant, <1>1, PTL DEF Spec, MergedWhole
=============================================================================
