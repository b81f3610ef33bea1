-------------------------------- MODULE Forks --------------------------------
(***************************************************************************)
(* Forks of a document (handlers.py, DocForkHandler; forkManager.ts): a    *)
(* room of its own with a copy of the document, which may go on following  *)
(* it, and which is deleted with or without merging it back.  A fork may   *)
(* be made of a fork.                                                      *)
(*                                                                         *)
(* A document is the set of edits that have reached it.  A document that   *)
(* is observed is observed for good: the handler's closure keeps it when   *)
(* its room is gone.  A room may be made again under the same id: the root *)
(* room by its next client, from the store; a fork's by a client that      *)
(* comes back, as a transient room.  An action is what runs between two    *)
(* awaits that suspend; of the handlers' only start_room of a new room     *)
(* does.                                                                   *)
(***************************************************************************)
EXTENDS Naturals, Sequences

CONSTANTS
  None,
  Root,          \* the room of a document
  Fork,          \* the ids of forks, each made once
  Edit,
  MaxInstances   \* bound on how often a room is made under one id

Room == {Root} \cup Fork
Document == Room \X (1 .. MaxInstances)

ASSUME RoomAssumption ==
  Root \notin Fork /\ None \notin Room \cup [root : Room, synchronize : BOOLEAN]
ASSUME BoundAssumption == MaxInstances \in Nat \ {0}

VARIABLES
  made,      \* how often a room was made under each id
  serves,    \* rooms: which of these the server has, 0 if none
  text,      \* the edits in each document
  table,     \* FORK_ROOMS
  origin,    \* the document of which a fork was made
  above,     \* the documents whose edits a fork is told of
  starting,  \* the forks whose handler awaits start_room
  stream,    \* the events on their way to the browser
  known,     \* the forks that a browser knows of by its ForkManager
  merged     \* history: the forks that were merged when they were deleted

server == <<made, serves, text>>
forks == <<table, origin, above, starting>>
browser == <<stream, known>>
vars == <<server, forks, browser, merged>>

Served(r) == <<r, serves[r]>>
Listed == {f \in Fork : table[f] # None}
\* The forks that are not listed any more and still have their room
Orphan == {f \in Fork \ Listed : serves[f] = 1}

TypeOK ==
  /\ made \in [Room -> 0 .. MaxInstances] /\ serves \in [Room -> 0 .. MaxInstances]
  /\ \A r \in Room : serves[r] \in {0, made[r]}
  /\ text \in [Document -> SUBSET Edit]
  /\ table \in [Fork -> [root : Room, synchronize : BOOLEAN] \cup {None}]
  /\ origin \in [Fork -> Document \cup {None}]
  /\ above \in [Fork -> SUBSET Document]
  /\ starting \subseteq Fork
  /\ stream \in Seq([action : {"create", "delete"}, fork : Fork])
  /\ known \subseteq Fork /\ merged \subseteq Fork

Init ==
  /\ made = [r \in Room |-> IF r = Root THEN 1 ELSE 0]
  /\ serves = made
  /\ text = [d \in Document |-> {}]
  /\ table = [f \in Fork |-> None] /\ origin = table
  /\ above = [f \in Fork |-> {}] /\ starting = {}
  /\ stream = <<>> /\ known = {} /\ merged = {}

-----------------------------------------------------------------------------
(* Documents and rooms                                                     *)

\* An update is applied to a document, and so to those that observe it.
Apply(d, edits) ==
  text' = [e \in Document |->
             IF e = d \/ \E f \in Fork : e = <<f, 1>> /\ d \in above[f]
             THEN text[e] \cup edits ELSE text[e]]

Type(r, e) ==
  /\ serves[r] # 0
  /\ \A d \in Document : e \notin text[d]
  /\ Apply(Served(r), {e})
  /\ UNCHANGED <<made, serves, forks, browser, merged>>

\* The room of the document is cleaned, whoever made forks of it.
Cleaned ==
  /\ serves[Root] # 0
  /\ serves' = [serves EXCEPT ![Root] = 0]
  /\ UNCHANGED <<made, text, forks, browser, merged>>

\* A room is made for a client that comes back: with the edits that are in the store, or
\* those that the client of a fork has.
MadeAgain(r) ==
  /\ serves[r] = 0 /\ made[r] \in 1 .. MaxInstances - 1
  /\ made' = [made EXCEPT ![r] = @ + 1]
  /\ serves' = [serves EXCEPT ![r] = made'[r]]
  /\ LET before == text[<<r, made[r]>>] IN
     \E edits \in IF r = Root THEN {before} ELSE SUBSET before :
       text' = [text EXCEPT ![<<r, made'[r]>>] = edits]
  /\ UNCHANGED <<forks, browser, merged>>

-----------------------------------------------------------------------------
(* put: createFork                                                         *)

\* A fork that observes a document is told also of what that observes, if it is a fork's.
Told(d) == {e \in Document : e = d \/ \E g \in Fork : d = <<g, 1>> /\ e \in above[g]}
\* (a slip: a fork of a fork does not observe it)
ObservesRoot(r, synchronize) == IF synchronize /\ r = Root THEN Told(Served(r)) ELSE {}
Observes(r, synchronize) == IF synchronize THEN Told(Served(r)) ELSE {}

\* The root may be a fork itself; without a room of it the answer is 404.
Create(f, r, synchronize) ==
  /\ serves[r] # 0 /\ made[f] = 0
  /\ made' = [made EXCEPT ![f] = 1] /\ serves' = [serves EXCEPT ![f] = 1]
  /\ text' = [text EXCEPT ![<<f, 1>>] = text[Served(r)]]
  /\ table' = [table EXCEPT ![f] = [root |-> r, synchronize |-> synchronize]]
  /\ origin' = [origin EXCEPT ![f] = Served(r)]
  /\ above' = [above EXCEPT ![f] = Observes(r, synchronize)]
  /\ starting' = starting \cup {f}
  /\ UNCHANGED <<browser, merged>>

Emit(action, f) == stream' = Append(stream, [action |-> action, fork |-> f])

\* What createFork returns
Answer(f) == known' = known \cup {f}

\* The room has started: the event and the answer go out.
Started(f) ==
  /\ f \in starting
  /\ starting' = starting \ {f}
  /\ Emit("create", f)
  /\ Answer(f)
  /\ UNCHANGED <<server, table, origin, above, merged>>

-----------------------------------------------------------------------------
(* get: getAllForks; the events                                            *)

AllForks(r) == {f \in Listed : table[f].root = r}
List(r) ==
  /\ known' = known \cup AllForks(r)
  /\ UNCHANGED <<server, forks, stream, merged>>

\* _handleEvent: the signals forkAdded and forkDeleted
Hear ==
  /\ stream # <<>>
  /\ LET event == Head(stream) IN
       known' = IF event.action = "create" THEN known \cup {event.fork} ELSE known \ {event.fork}
  /\ stream' = Tail(stream)
  /\ UNCHANGED <<server, forks, merged>>

-----------------------------------------------------------------------------
(* delete: deleteFork                                                      *)

\* (a slip: what was the root room when the fork was made)
FirstRoot(f) == origin[f]
MergeInto(f) == Served(table[f].root)

\* The forks that a browser may ask to delete
Deletable == known

\* A fork that is not listed is not found (404).
Delete(f, merge) ==
  LET done == f \notin starting /\ (merge => serves[table[f].root] # 0) IN
  /\ f \in Deletable \cap Listed
  /\ table' = [table EXCEPT ![f] = None]
  /\ IF merge /\ done THEN Apply(MergeInto(f), text[<<f, 1>>]) ELSE UNCHANGED text
  \* The root room is not found, or that of the fork has not started: an error.
  /\ serves' = IF done THEN [serves EXCEPT ![f] = 0] ELSE serves
  /\ merged' = IF merge /\ done THEN merged \cup {f} ELSE merged
  /\ IF done THEN Emit("delete", f) ELSE UNCHANGED stream
  /\ UNCHANGED <<made, origin, above, starting, known>>

-----------------------------------------------------------------------------
Next ==
  \/ \E r \in Room : MadeAgain(r) \/ List(r) \/ \E e \in Edit : Type(r, e)
  \/ Cleaned \/ Hear
  \/ \E f \in Fork :
       \/ Started(f)
       \/ \E r \in Room, synchronize \in BOOLEAN : Create(f, r, synchronize)
       \/ \E merge \in BOOLEAN : Delete(f, merge)

Spec == Init /\ [][Next]_vars

-----------------------------------------------------------------------------
(* Properties                                                              *)

\* A fork that is listed has its room, so that it can be deleted and merged.
ListedServed == \A f \in Listed : serves[f] = 1

\* put, "Optionally keeps the fork in sync with the root": whatever is typed in the root,
\* or merged into it, or into what the root follows, is in the fork, from the time at
\* which it is listed.
InSync ==
  \A f \in Listed : table[f].synchronize => text[origin[f]] \subseteq text[<<f, 1>>]

\* Who lists the forks and follows the signals knows in the end those that are listed,
\* and no others but orphans.
EventsTell ==
  stream = <<>> => Listed \ starting \subseteq known /\ known \subseteq Listed \cup Orphan

Inv == TypeOK /\ ListedServed /\ InSync /\ EventsTell

\* What the proofs need besides.  A fork has its ids from when it is made, ...
MadeInv ==
  \A f \in Fork :
    /\ made[f] = 0 => table[f] = None /\ above[f] = {} /\ f \notin starting /\ f \notin known
    /\ \A d \in above[f] : d[2] <= made[d[1]]
    /\ f \in starting => serves[f] = 1
    /\ f \in Listed => table[f].root # f /\ (table[f].synchronize => origin[f] \in above[f])

\* ... and all that the documents above it have, which are closed under observation.
AboveInv ==
  \A f \in Fork :
    /\ \A d \in above[f] : text[d] \subseteq text[<<f, 1>>]
    /\ \A g \in Fork : <<g, 1>> \in above[f] => above[g] \subseteq above[f]

\* The forks of which an event tells that they were made, or deleted, from the n-th on
Events(action, n) ==
  {f \in Fork : \E i \in n .. Len(stream) : stream[i] = [action |-> action, fork |-> f]}

\* Who knows of a fork that was deleted will hear of that, last of all.
HearInv ==
  /\ Listed \ starting \subseteq known
  /\ known \subseteq Listed \cup Orphan \cup Events("delete", 1)
  /\ \A f \in Events("delete", 1) : f \notin Listed /\ made[f] # 0
  /\ \A i \in 1 .. Len(stream) : stream[i].action = "create" =>
       stream[i].fork \in Listed \cup Orphan \cup Events("delete", i + 1)

IInv == Inv /\ MadeInv /\ AboveInv /\ HearInv

\* delete, "optionally merging back in the root document": what a fork had when it was
\* merged is then in the root, as its clients see it, and in the forks that follow that.
Merge(f) ==
  LET root == table[f].root IN
  /\ text[<<f, 1>>] \subseteq text'[<<root, serves'[root]>>]
  /\ \A g \in Listed' : table'[g].synchronize /\ origin[g] = Served(root) =>
       text[<<f, 1>>] \subseteq text'[<<g, 1>>]
MergedWhole == [][\A f \in merged' \ merged : Merge(f)]_vars
=============================================================================
