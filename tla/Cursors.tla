------------------------------- MODULE Cursors -------------------------------
(***************************************************************************)
(* The cursors of collaborators in the editors of a document (cursors.ts). *)
(* An editor that has the focus publishes its selection in the awareness   *)
(* of the document, as positions relative to the characters of its text,   *)
(* and every client draws what the others have published.                  *)
(*                                                                         *)
(* A replica of a text (Yjs) is the part of one order of all its           *)
(* characters that has arrived and has not been deleted.  The server sends *)
(* on to all others what it gets, changes of texts in its order and        *)
(* cursors in its order, but cursors may overtake a text.  An update of an *)
(* editor (CodeMirror) maps its selection through the change, then tells   *)
(* the plugin, in one step.                                                *)
(***************************************************************************)
EXTENDS Integers, Sequences, SequencesExt, FiniteSetsExt

CONSTANTS
  Client,
  Editor,         \* the editors of the document, each with its own text
  Initial,        \* the characters of each text at the start, numbers
  Ranges,         \* the selections users make: sequences of one or two ranges, in order
  MaxTyped,       \* bound on the characters typed or deleted
  MaxSelected,    \* bound on the selections made
  MaxFocused,     \* bound on the moves of the focus
  Margin,         \* how near to a cursor its user's name is shown (3 in the code)
  Nil, AtEnd      \* null; the position at the end of a text

\* Typed characters get the numbers from here.
FirstTyped == 100
Position == [text : Editor, item : Nat \cup {AtEnd}]
Cursor == [anchor : Position, head : Position, empty : BOOLEAN]

ASSUME TextsAssumption ==
  /\ Initial \in [Editor -> Seq(0 .. FirstTyped - 1)]
  /\ \A t, u \in Editor : \A i \in DOMAIN Initial[t], j \in DOMAIN Initial[u] :
       Initial[t][i] = Initial[u][j] => t = u /\ i = j
ASSUME RangesAssumption == Ranges \subseteq Seq([anchor : Nat, head : Nat]) /\ Margin \in Nat
ASSUME NilAssumption == Nil \notin Editor /\ Nil \notin Seq(Cursor) /\ AtEnd \notin Nat

VARIABLES
  order,     \* all characters of each text ever typed, in their order
  has,       \* the characters of which each client knows
  gone,      \* those it knows to be deleted
  focus,     \* the editor with the focus, or Nil
  selection, \* of each client's editors, as indices
  cursors,   \* cursors[v][c]: the cursors in the state of c, as v knows it
  texts,     \* the changes of texts on their way to each client
  states,    \* the cursors on their way to each client
  shown,     \* the markers drawn in each client's editors
  kept,      \* history: the editor that had the focus at the last update and since
  used       \* history: what is used up of the bounds

cursorsVars == <<order, has, gone, focus, selection, cursors, texts, states, shown, kept, used>>

-----------------------------------------------------------------------------
(* Texts and positions (Yjs, CodeMirror)                                   *)

\* In the order o of a text of which S is visible: the index of a character,
\* or of the one that follows it, and the character at an index.
Place(o, x) == CHOOSE k \in DOMAIN o : o[k] = x
Earlier(o, S, x) == {y \in S : Place(o, y) < Place(o, x)}
Before(o, S, x) == Cardinality(Earlier(o, S, x))
Nth(o, S, i) == CHOOSE x \in S : Before(o, S, x) = i

Visible(c, t) == {x \in ToSet(order[t]) : x \in has[c] /\ x \notin gone[c]}
Length(c, t) == Cardinality(Visible(c, t))
Index(c, t, x) == Before(order[t], Visible(c, t), x)
Char(c, t, i) == Nth(order[t], Visible(c, t), i)

\* createRelativePositionFromTypeIndex: the character after the position
Relative(c, t, i) == [text |-> t, item |-> IF i = Length(c, t) THEN AtEnd ELSE Char(c, t, i)]

\* createAbsolutePositionFromRelativePosition: null if the character has not arrived
Known(c, p) == p.item = AtEnd \/ p.item \in has[c]
Absolute(c, p) == IF p.item = AtEnd THEN Length(c, p.text) ELSE Index(c, p.text, p.item)

\* A position after a character is inserted at index i, or deleted there: a
\* cursor stays before what is inserted at it, a selection does not grow.
Inserted(p, i, after) == IF p > i \/ (p = i /\ after) THEN p + 1 ELSE p
Deleted(p, i) == IF p > i THEN p - 1 ELSE p
MapInsert(r, i) ==
  [anchor |-> Inserted(r.anchor, i, r.anchor < r.head), head |-> Inserted(r.head, i, r.head < r.anchor)]
MapDelete(r, i) == [anchor |-> Deleted(r.anchor, i), head |-> Deleted(r.head, i)]

-----------------------------------------------------------------------------
(* Drawing                                                                 *)

\* (a slip: the text is not compared)
AnyText(v, t, p) == Known(v, p)
Resolved(v, t, p) == Known(v, p) /\ p.text = t

Others(v) == {c \in Client \ {v} : cursors[v][c] # Nil}

\* remoteCursorsLayer: of a list of cursors, those up to the first not of this text
Here(v, t, k) == Resolved(v, t, k.anchor) /\ Resolved(v, t, k.head)
CaretsOf(v, t, c, list) ==
  {[client |-> c, head |-> Absolute(v, list[i].head)] :
     i \in {i \in DOMAIN list : \A j \in 1 .. i : Here(v, t, list[j])}}
Carets(v, t) == UNION {CaretsOf(v, t, c, cursors[v][c]) : c \in Others(v)}

\* remoteSelectionLayer: and up to the first that is empty
WideHere(v, t, k) == ~k.empty /\ Here(v, t, k)
SelectionsOf(v, t, c, list) ==
  {[client |-> c, anchor |-> Absolute(v, list[i].anchor), head |-> Absolute(v, list[i].head)] :
     i \in {i \in DOMAIN list : \A j \in 1 .. i : WideHere(v, t, list[j])}}
Selections(v, t) == UNION {SelectionsOf(v, t, c, cursors[v][c]) : c \in Others(v)}

Markers(v, t) == [carets |-> Carets(v, t), selections |-> Selections(v, t)]

\* userHover: whom the tooltip at an index may name, any cursor of this text
\* (a slip: the user himself)
Anyone(v) == {c \in Client : cursors[v][c] # Nil}
Named(v) == Others(v)
Hover(v, t, i) ==
  {c \in Named(v) : \E k \in ToSet(cursors[v][c]) :
     Resolved(v, t, k.head) /\ i \in Absolute(v, k.head) - Margin .. Absolute(v, k.head) + Margin}

-----------------------------------------------------------------------------
(* Updates of an editor                                                    *)

\* Two ranges that have come to overlap are one.
Low(r) == IF r.anchor < r.head THEN r.anchor ELSE r.head
High(r) == IF r.anchor < r.head THEN r.head ELSE r.anchor
Overlap(r, q) == Low(q) < High(r) \/ (Low(q) = High(r) /\ q.anchor = q.head)
Joined(r, q) ==
  LET low == Low(r)
      high == IF High(r) > High(q) THEN High(r) ELSE High(q)
  IN IF q.anchor > q.head THEN [anchor |-> high, head |-> low] ELSE [anchor |-> low, head |-> high]
Normal(s) == IF Len(s) = 2 /\ Overlap(s[1], s[2]) THEN << Joined(s[1], s[2]) >> ELSE s

Published(c, t) ==
  [k \in DOMAIN selection[c][t] |->
     LET r == selection[c][t][k]
     IN [anchor |-> Relative(c, t, r.anchor), head |-> Relative(c, t, r.head), empty |-> r.anchor = r.head]]

\* What a client sends goes to all others.
Sent(queues, c, message) == [v \in Client |-> IF v = c THEN queues[v] ELSE Append(queues[v], message)]

\* Is a change of the document, made by a user or not, a reason to publish?
\* (a slip: only a change the user makes)
OwnChange(own) == own
DocChanged(own) == TRUE

\* showCollaborators.update, after the texts and the selection have changed:
\* what the editor with the focus has published is what it selects now.
Update(c, t, own) ==
  IF focus[c] = t /\ DocChanged(own)
  THEN /\ kept' = [kept EXCEPT ![c] = t]
       /\ IF cursors[c][c] = Published(c, t)'
          THEN UNCHANGED <<cursors, states>>
          ELSE /\ cursors' = [cursors EXCEPT ![c][c] = Published(c, t)']
               /\ states' = Sent(states, c, [from |-> c, cursors |-> Published(c, t)'])
  ELSE UNCHANGED <<cursors, states, kept>>

\* The layers of these editors are drawn again.
Draw(c, editors) ==
  shown' = [shown EXCEPT ![c] = [t \in Editor |-> IF t \in editors THEN Markers(c, t)' ELSE @[t]]]

Spend(what, bound) == used[what] < bound /\ used' = [used EXCEPT ![what] = @ + 1]

-----------------------------------------------------------------------------
(* Actions                                                                 *)

CursorsInit ==
  /\ order = Initial
  /\ has = [c \in Client |-> UNION {ToSet(Initial[t]) : t \in Editor}]
  /\ gone = [c \in Client |-> {}]
  /\ focus = [c \in Client |-> Nil]
  /\ selection = [c \in Client |-> [t \in Editor |-> << [anchor |-> 0, head |-> 0] >>]]
  /\ cursors = [v \in Client |-> [c \in Client |-> <<>>]]
  /\ texts = [v \in Client |-> <<>>] /\ states = [v \in Client |-> <<>>]
  /\ shown = [c \in Client |-> [t \in Editor |-> [carets |-> {}, selections |-> {}]]]
  /\ kept = [c \in Client |-> Nil]
  /\ used = [what \in {"type", "select", "focus"} |-> 0]

\* The client has not closed the document.
Open(c) == cursors[c][c] # Nil

\* An editor gets or loses the focus, which is no update of its own.
Focus(c, t) ==
  /\ t # focus[c] /\ Open(c) /\ Spend("focus", MaxFocused)
  /\ focus' = [focus EXCEPT ![c] = t]
  /\ kept' = [kept EXCEPT ![c] = Nil]
  /\ UNCHANGED <<order, has, gone, selection, cursors, texts, states, shown>>

\* The document is closed: the others are told, and nothing is heard any more.
Leave(c) ==
  /\ Open(c)
  /\ cursors' = [cursors EXCEPT ![c][c] = Nil]
  /\ states' = Sent(states, c, [from |-> c, cursors |-> Nil])
  /\ focus' = [focus EXCEPT ![c] = Nil] /\ kept' = [kept EXCEPT ![c] = Nil]
  /\ UNCHANGED <<order, has, gone, selection, texts, shown, used>>

Select(c, ranges) ==
  \E t \in {focus[c]} \ {Nil} :
    /\ Spend("select", MaxSelected)
    /\ \A k \in DOMAIN ranges : High(ranges[k]) <= Length(c, t)
    /\ selection' = [selection EXCEPT ![c][t] = ranges]
    /\ UNCHANGED <<order, has, gone, focus, texts, shown>>
    /\ Update(c, t, TRUE)

\* The user types or deletes at his caret, before index i.
Caret(i) == << [anchor |-> i, head |-> i] >>
At(c, t, i) == selection[c][t] = Caret(i) /\ Spend("type", MaxTyped)

\* Between the two characters that the user sees there may be others, deleted
\* or not yet arrived.
Type(c) ==
  \E t \in {focus[c]} \ {Nil} : \E i \in 0 .. Len(order[t]) :
    LET left == IF i = 0 THEN 0 ELSE Place(order[t], Char(c, t, i - 1))
        right == IF i = Length(c, t) THEN Len(order[t]) + 1 ELSE Place(order[t], Char(c, t, i))
        x == FirstTyped + used["type"]
    IN /\ At(c, t, i)
       /\ \E k \in left + 1 .. right : order' = [order EXCEPT ![t] = InsertAt(@, k, x)]
       /\ has' = [has EXCEPT ![c] = @ \cup {x}]
       /\ selection' = [selection EXCEPT ![c][t] = Caret(i + 1)]
       /\ texts' = Sent(texts, c, [kind |-> "insert", text |-> t, item |-> x])
       /\ UNCHANGED <<gone, focus>>
       /\ Update(c, t, TRUE)
       /\ Draw(c, {t})

Erase(c) ==
  \E t \in {focus[c]} \ {Nil} : \E i \in 1 .. Length(c, t) : \E x \in {Char(c, t, i - 1)} :
    /\ At(c, t, i)
    /\ gone' = [gone EXCEPT ![c] = @ \cup {x}]
    /\ selection' = [selection EXCEPT ![c][t] = Caret(i - 1)]
    /\ texts' = Sent(texts, c, [kind |-> "delete", text |-> t, item |-> x])
    /\ UNCHANGED <<order, has, focus>>
    /\ Update(c, t, TRUE)
    /\ Draw(c, {t})

-----------------------------------------------------------------------------
(* What arrives at v                                                       *)

Arrives(v, kind) == Open(v) /\ texts[v] # <<>> /\ Head(texts[v]).kind = kind
Received(queues, v) == [queues EXCEPT ![v] = Tail(@)]
Mapped(v, t, Map(_)) ==
  selection' = [selection EXCEPT ![v][t] = Normal([k \in DOMAIN @ |-> Map(@[k])])]

InsertArrives(v) ==
  /\ Arrives(v, "insert")
  /\ \E m \in {Head(texts[v])} :
       /\ has' = [has EXCEPT ![v] = @ \cup {m.item}]
       /\ Mapped(v, m.text, LAMBDA r : MapInsert(r, Index(v, m.text, m.item)))
       /\ texts' = Received(texts, v)
       /\ UNCHANGED <<order, gone, focus, used>>
       /\ Update(v, m.text, FALSE)
       /\ Draw(v, {m.text})

DeleteArrives(v) ==
  /\ Arrives(v, "delete")
  /\ texts' = Received(texts, v)
  /\ UNCHANGED <<order, has, focus, used>>
  /\ \E m \in {Head(texts[v])} :
       IF m.item \in gone[v]
       THEN UNCHANGED <<gone, selection, cursors, states, kept, shown>>
       ELSE /\ gone' = [gone EXCEPT ![v] = @ \cup {m.item}]
            /\ Mapped(v, m.text, LAMBDA r : MapDelete(r, Index(v, m.text, m.item)))
            /\ Update(v, m.text, FALSE)
            /\ Draw(v, {m.text})

\* The awareness changes, and every editor of the document is told.
CursorsArrive(v) ==
  /\ Open(v) /\ states[v] # <<>>
  /\ cursors' = [cursors EXCEPT ![v][Head(states[v]).from] = Head(states[v]).cursors]
  /\ states' = Received(states, v)
  /\ UNCHANGED <<order, has, gone, texts>>
  /\ Draw(v, Editor)
  /\ UNCHANGED <<focus, selection, kept, used>>

-----------------------------------------------------------------------------
UserActs(c) ==
  \/ \E t \in Editor \cup {Nil} : Focus(c, t)
  \/ \E ranges \in Ranges : Select(c, ranges)
  \/ Type(c) \/ Erase(c) \/ Leave(c)
Arrival(v) == InsertArrives(v) \/ DeleteArrives(v) \/ CursorsArrive(v)

CursorsNext == \E c \in Client : UserActs(c) \/ Arrival(c)

CursorsSpec == CursorsInit /\ [][CursorsNext]_cursorsVars

-----------------------------------------------------------------------------
(* Properties                                                              *)

\* Nothing is on its way to the client.
AllArrived(c) == texts[c] = <<>> /\ states[c] = <<>>

\* Of a user who has stayed in an editor the others see, when all has arrived,
\* each cursor where it is and no selection he has not made (all of them if
\* none of his ranges is empty), through whatever they have typed meanwhile.
DrawnTrue ==
  \A c, v \in Client : c # v /\ AllArrived(c) /\ AllArrived(v) /\ kept[c] # Nil =>
    LET t == kept[c]
        ranges == ToSet(selection[c][t])
        wide == {r \in ranges : r.anchor # r.head}
        drawn == {[anchor |-> m.anchor, head |-> m.head] :
                    m \in {m \in shown[v][t].selections : m.client = c}}
    IN /\ {m.head : m \in {m \in shown[v][t].carets : m.client = c}} = {r.head : r \in ranges}
       /\ drawn \subseteq wide
       /\ wide = ranges => drawn = wide

\* A user is never drawn in two editors, nor after he was known to have left,
\* even while changes and cursors are still on their way.
OneEditor ==
  \A c, v \in Client : c # v =>
    LET In(t) == \E m \in shown[v][t].carets \cup shown[v][t].selections : m.client = c
    IN /\ \A t, u \in Editor : In(t) /\ In(u) => t = u
       /\ cursors[v][c] = Nil => \A t \in Editor : ~In(t)

\* The pointer on a drawn cursor names a collaborator, and only such as have a
\* cursor drawn near it when all texts have arrived.
HoverTrue ==
  \A v \in Client, t \in Editor : \A m \in shown[v][t].carets :
    /\ m.client \in Hover(v, t, m.head)
    /\ texts[v] = <<>> =>
         \A c \in Hover(v, t, m.head) :
           \E n \in shown[v][t].carets : n.client = c /\ n.head \in m.head - Margin .. m.head + Margin
=============================================================================
