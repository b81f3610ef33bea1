------------------------------- MODULE Rebuild --------------------------------
(***************************************************************************)
(* A document room is made, initialized from the update store and the file *)
(* (rooms.py, initialize), evicted when its clients are gone, and made     *)
(* again, while a client that lost its connection keeps its own replica    *)
(* and merges it when it returns.                                          *)
(*                                                                         *)
(* A shared document is a set of items, each with an id, and the ids of    *)
(* the deleted ones; replicas merge by ids.  An item holds one unit of     *)
(* content (a cell, a line): what is written by a user or by another       *)
(* program is a unit of its own, so that two shown items of one unit are   *)
(* content that was duplicated.  The saves and reloads, whose              *)
(* interleavings are the subject of RoomFileSync, are single steps here.   *)
(***************************************************************************)
EXTENDS Naturals, FiniteSets

CONSTANTS
  Client,
  MaxUnits,     \* bound on the units ever written, by users or other programs
  MaxRooms,     \* bound on the rooms ever made
  MaxWrites,    \* bound on the writes of other programs, and of deleted units
  None

Unit == 1 .. MaxUnits

ASSUME BoundAssumption == {MaxUnits, MaxRooms, MaxWrites} \subseteq Nat \ {0}

VARIABLES
  file, mtime,  \* the units in the file, and its last modification
  known,        \* the loader's last_modified, None while there is no loader
  other,        \* is the file open as another kind of document all the time?
  hasStore,     \* is there an update store?
  store,        \* what it makes, None if it has nothing of this document
  rooms,        \* how many rooms were made
  stage,        \* "none", or how far the room is: "made", "loaded", "ready"
  room,         \* its replica
  read,         \* what initialize loaded from the file
  unsaved,      \* is a save scheduled?
  online,       \* the clients that are served
  replica,      \* each client's replica
  born,         \* how many units were written
  budget,       \* writes that are left to other programs, and deletions
  touched,      \* history: the room has changed since it was initialized
  early,        \* history: the watcher reached a room before it was initialized
  lost,         \* history: a room ended that cannot be made again as it was
  forfeit       \* history: units that a user or another program removed, or
                \* that no save had reached when the room ended or was overwritten

configuration == <<other, hasStore>>
onDisc == <<file, mtime, store, configuration>>
onServer == <<known, rooms, stage, room, read, unsaved>>
onClients == <<online, replica>>
history == <<touched, early, lost, forfeit>>
vars == <<onDisc, onServer, onClients, born, budget, history>>

-----------------------------------------------------------------------------
(* Replicas                                                                *)

Source == 0   \* the author of the deterministic history of a file's content
User == 1     \* the author of what users write, whose units are their clocks
Author == Nat
Item == [author : Author, clock : Nat, unit : Unit]
Id(i) == <<i.author, i.clock>>
Ids(r) == {Id(i) : i \in r.has}
Replica == [has : SUBSET Item, dead : SUBSET (Author \X Nat)]
Empty == [has |-> {}, dead |-> {}]
ASSUME NoneAssumption == None \notin Nat /\ None \notin Replica

Alive(r) == {i \in r.has : Id(i) \notin r.dead}
Shown(r) == {i.unit : i \in Alive(r)}

\* Items that r knows by their ids are not taken again, whatever they hold.
Merge(r, s) == [has |-> r.has \cup {i \in s.has : Id(i) \notin Ids(r)}, dead |-> r.dead \cup s.dead]

\* The items an author makes for the units of S
Rank(u, S) == Cardinality({v \in S : v <= u})
ItemsOf(author, from, S) ==
  {[author |-> author, clock |-> from + Rank(u, S), unit |-> u] : u \in S}

Room == rooms + 1   \* the author of what the room writes itself

\* A shared document shows S, each unit once.
Holds(r, S) == Shown(r) = S /\ Cardinality(Alive(r)) = Cardinality(S)

\* aset: it is made to.
Kept(r, S) == {CHOOSE i \in Alive(r) : i.unit = u : u \in S \cap Shown(r)}
Own(r) == Cardinality({i \in r.has : i.author = Room})
Aset(r, S) ==
  [has |-> r.has \cup ItemsOf(Room, Own(r), S \ Shown(r)),
   dead |-> r.dead \cup {Id(i) : i \in Alive(r) \ Kept(r, S)}]

\* (a slip: the history differs from room to room)
OwnHistory(S) == [has |-> ItemsOf(Room, 0, S), dead |-> {}]
\* The history of a document made from a file with the units S
SourceOf(S) == [has |-> ItemsOf(Source, 0, S), dead |-> {}]

-----------------------------------------------------------------------------
\* every variable holds a value of its kind
TypeOK ==
  /\ file \subseteq Unit /\ mtime \in Nat /\ known \in Nat \cup {None}
  /\ hasStore \in BOOLEAN /\ other \in BOOLEAN
  /\ room \in Replica /\ replica \in [Client -> Replica] /\ store \in Replica \cup {None}
  /\ rooms \in 0 .. MaxRooms
  /\ stage \in {"none", "made", "loaded", "ready"}
  /\ read \subseteq Unit /\ unsaved \in BOOLEAN
  /\ online \subseteq Client
  /\ online # {} => stage = "ready"
  /\ born \in 0 .. MaxUnits /\ budget \in 0 .. MaxWrites
  /\ touched \in BOOLEAN /\ early \in BOOLEAN /\ lost \in BOOLEAN /\ forfeit \subseteq Unit

Init ==
  /\ file = {1} /\ mtime = 1 /\ born = 1
  /\ other \in BOOLEAN /\ known = IF other THEN 1 ELSE None
  /\ hasStore \in BOOLEAN /\ store = None
  /\ rooms = 0 /\ stage = "none" /\ room = Empty /\ read = {} /\ unsaved = FALSE
  /\ online = {} /\ replica = [c \in Client |-> Empty]
  /\ budget = MaxWrites
  /\ touched = FALSE /\ early = FALSE /\ lost = FALSE /\ forfeit = {}

-----------------------------------------------------------------------------
(* The room                                                                *)

\* prepare makes a room for the first client that comes.
Make ==
  /\ stage = "none" /\ rooms < MaxRooms
  /\ rooms' = rooms + 1 /\ stage' = "made"
  /\ room' = Empty /\ unsaved' = FALSE
  /\ UNCHANGED <<onDisc, known, read, onClients, born, budget, history>>

\* initialize loads the file and takes the update lock ...
Load ==
  /\ stage = "made"
  /\ stage' = "loaded" /\ read' = file /\ known' = mtime
  /\ UNCHANGED <<onDisc, rooms, room, unsaved, onClients, born, budget, history>>

\* ... applies what the store has, and the file's content if that differs,
\* or else makes the document from the file.
FromStore == Merge(room, store)
\* (a slip: what the store has is not compared with the file)
StoreWins(r) == TRUE
InSync(r) == Holds(r, read)
\* (a slip: a store that differs from the file is forgotten)
MadeFromFile ==
  IF store # None /\ InSync(FromStore) THEN FromStore ELSE Merge(room, SourceOf(read))
Initialized ==
  IF store = None THEN Merge(room, SourceOf(read))
  ELSE IF InSync(FromStore) THEN FromStore ELSE Aset(FromStore, read)
Initialize ==
  /\ stage = "loaded"
  /\ stage' = "ready" /\ room' = Initialized /\ touched' = FALSE
  /\ store' = IF hasStore /\ (store = None \/ ~InSync(FromStore)) THEN Initialized ELSE store
  /\ UNCHANGED <<file, mtime, configuration, known, rooms, read, unsaved, onClients, born, budget, early, lost, forfeit>>

\* The updates of a room that is ready reach the store some time later.
Store ==
  /\ hasStore /\ stage = "ready" /\ store # room
  /\ store' = room
  /\ UNCHANGED <<file, mtime, configuration, onServer, onClients, born, budget, history>>

\* What no save has reached
Unsaved == IF unsaved THEN Shown(room) \ file ELSE {}

\* Where the file has changed, the room gets its content.
Overwrite ==
  /\ known' = mtime /\ unsaved' = FALSE
  /\ room' = IF Holds(room, file) THEN room ELSE Aset(room, file)
  /\ touched' = (touched \/ room' # room)
  /\ forfeit' = forfeit \cup Unsaved
  /\ early' = (early \/ stage = "made")
  /\ UNCHANGED <<onDisc, rooms, stage, read, onClients, born, budget, lost>>

\* The watcher finds the file changed and tells the room, ready or not; initialize
\* holds the update lock from its load on.
Reload == known # None /\ known < mtime /\ stage \in {"made", "ready"} /\ Overwrite

\* It has no room of this kind to tell.
Notice ==
  /\ known # None /\ known < mtime /\ stage = "none"
  /\ known' = mtime
  /\ UNCHANGED <<onDisc, rooms, stage, room, read, unsaved, onClients, born, budget, history>>

\* A save that finds the file as the loader knows it writes it.
SaveFile ==
  /\ stage = "ready" /\ unsaved /\ known = mtime
  /\ file' = Shown(room) /\ mtime' = mtime + 1 /\ known' = mtime + 1
  /\ unsaved' = FALSE
  /\ UNCHANGED <<configuration, store, rooms, stage, room, read, onClients, born, budget, history>>

\* Otherwise it gets the file's content.
SaveRefused == stage = "ready" /\ unsaved /\ known # mtime /\ Overwrite

\* The next room will have the items of this one, or of the one before, if this is not
\* initialized yet.
Remakable ==
  IF store # None THEN stage = "ready" => store = room
  ELSE /\ stage = "ready" => ~touched /\ Shown(room) = file
       /\ stage = "loaded" => read = file
Ends ==
  /\ stage' = "none" /\ room' = Empty /\ unsaved' = FALSE
  /\ lost' = (lost \/ (~Remakable /\ \E c \in Client : replica[c] # Empty))
  /\ forfeit' = forfeit \cup Unsaved
  /\ UNCHANGED <<onDisc, rooms, read, replica, born, budget, touched, early>>

\* The clean-up deletes a room without clients, and its loader if no other uses it.
Evict ==
  /\ stage = "ready" /\ online = {}
  /\ Ends
  /\ known' = IF other THEN known ELSE None
  /\ UNCHANGED online

\* The server stops and is started again.
Crash ==
  /\ stage # "none"
  /\ Ends
  /\ online' = {}
  /\ known' = IF other THEN mtime ELSE None

-----------------------------------------------------------------------------
(* Clients and other programs                                              *)

\* A client is served by a room that is ready; its replica may be an old one.
Join(c) ==
  /\ stage = "ready" /\ c \notin online
  /\ online' = online \cup {c}
  /\ UNCHANGED <<onDisc, onServer, replica, born, budget, history>>

Disconnect(c) ==
  /\ c \in online
  /\ online' = online \ {c}
  /\ UNCHANGED <<onDisc, onServer, replica, born, budget, history>>

\* A document that is closed is forgotten.
Close(c) ==
  /\ replica[c] # Empty
  /\ online' = online \ {c}
  /\ replica' = [replica EXCEPT ![c] = Empty]
  /\ UNCHANGED <<onDisc, onServer, born, budget, history>>

\* A user writes or deletes, whether the connection is up or not.
Type(c) ==
  /\ replica[c] # Empty /\ born < MaxUnits
  /\ born' = born + 1
  /\ replica' = [replica EXCEPT ![c].has =
                   @ \cup {[author |-> User, clock |-> born', unit |-> born']}]
  /\ UNCHANGED <<onDisc, onServer, online, budget, history>>

Erase(c) ==
  /\ budget > 0 /\ budget' = budget - 1
  /\ \E i \in Alive(replica[c]) :
       /\ replica' = [replica EXCEPT ![c].dead = @ \cup {Id(i)}]
       /\ forfeit' = forfeit \cup {i.unit}
  /\ UNCHANGED <<onDisc, onServer, online, born, touched, early, lost>>

\* (a slip: what reaches the room schedules no save)
PushQuiet(c) ==
  /\ c \in online /\ Merge(room, replica[c]) # room
  /\ room' = Merge(room, replica[c]) /\ touched' = TRUE
  /\ UNCHANGED <<onDisc, known, rooms, stage, read, unsaved, onClients, born, budget, early, lost, forfeit>>
\* What a client has reaches the room, and with that schedules a save ...
Push(c) ==
  /\ c \in online /\ Merge(room, replica[c]) # room
  /\ room' = Merge(room, replica[c]) /\ unsaved' = TRUE /\ touched' = TRUE
  /\ UNCHANGED <<onDisc, known, rooms, stage, read, onClients, born, budget, early, lost, forfeit>>

\* ... and what the room has, the client.
Pull(c) ==
  /\ c \in online /\ Merge(replica[c], room) # replica[c]
  /\ replica' = [replica EXCEPT ![c] = Merge(replica[c], room)]
  /\ UNCHANGED <<onDisc, onServer, online, born, budget, history>>

\* Another program adds to the file or removes from it.
External ==
  /\ budget > 0 /\ budget' = budget - 1
  /\ mtime' = mtime + 1
  /\ \/ /\ born < MaxUnits /\ born' = born + 1
        /\ file' = file \cup {born'}
     \/ /\ \E u \in file : file' = file \ {u}
        /\ UNCHANGED born
  /\ forfeit' = forfeit \cup (file \ file')
  /\ lost' = (lost \/ (stage \in {"none", "made"} /\ store = None /\ \E c \in Client : replica[c] # Empty))
  /\ UNCHANGED <<configuration, store, onServer, onClients, touched, early>>

Next ==
  \/ Make \/ Load \/ Initialize \/ Store \/ Reload \/ Notice \/ SaveFile \/ SaveRefused
  \/ Evict \/ Crash \/ External
  \/ \E c \in Client :
       Join(c) \/ Disconnect(c) \/ Close(c) \/ Type(c) \/ Erase(c) \/ Push(c) \/ Pull(c)

Spec == Init /\ [][Next]_vars

-----------------------------------------------------------------------------
(* Properties                                                              *)

Replicas == {room} \cup {replica[c] : c \in Client}
Copies == Replicas \cup ({store} \ {None})
Units(r) == {i.unit : i \in r.has}

\* Copies are sound: an id stands for one item, and what is deleted is known.  Each author
\* numbers its items, and those that a room has made itself are in that room.
Sound(r) ==
  /\ IsFiniteSet(r.has) /\ r.dead \subseteq Ids(r)
  /\ \A i, j \in r.has : Id(i) = Id(j) => i = j
CopiesInv ==
  /\ \A r \in Copies : /\ Sound(r)
                       /\ \A i \in r.has : /\ i.author <= Room /\ i.unit <= born
                                           /\ i.author = User => i.clock = i.unit
  /\ file \cup read \subseteq 1 .. born
  /\ known # None => known <= mtime
  /\ stage = "none" => room = Empty
  /\ stage # "none" => /\ rooms > 0
                       /\ \A r \in Copies : \A i \in r.has : i.author = Room => i \in room.has
  /\ stage \in {"made", "loaded"} => \A i \in room.has : i.author = Room
  /\ \A i \in room.has : i.author = Room => i.clock <= Own(room)
  /\ unsaved => stage = "ready" /\ touched

\* An id stands for the same item in all of them.
AgreeInv ==
  ~lost => \A r, q \in Copies : \A i \in r.has, j \in q.has : Id(i) = Id(j) => i = j

\* Without a store, every history that was made from the file is that of one content, which the
\* next room will read again.
SourceInv ==
  ~lost /\ store = None =>
    /\ \A r \in Replicas : \A i \in r.has : i.author = Source => i \in SourceOf(read).has
    /\ stage \in {"none", "made"} /\ (\E c \in Client : replica[c] # Empty) => read = file
    /\ stage = "loaded" \/ (stage = "ready" /\ ~touched) => file \cap Shown(room) \subseteq read
    /\ stage = "ready" /\ ~touched => read \subseteq Shown(room)

\* What the room has, or what the next one will have
Base == IF stage = "ready" THEN room ELSE IF store # None THEN store ELSE SourceOf(read)

\* What initialize makes the room of
Loaded == IF stage = "loaded" THEN read ELSE file

\* A unit that a copy does not show any more was forfeited; clients have no other deletion
\* than the room, the room begins with none, and what it shows is to be saved or was.
Forfeited == \A r \in Copies : Units(r) \subseteq Shown(r) \cup forfeit
Deletions ==
  \A c \in Client : \A i \in replica[c].has :
    Id(i) \in replica[c].dead => i.unit \in forfeit \/ Id(i) \in Base.dead
StoreBehind ==
  stage = "ready" /\ store # None => store.has \subseteq room.has /\ store.dead \subseteq room.dead
Begun ==
  /\ stage \in {"made", "loaded"} \/ (stage = "ready" /\ store = None /\ ~touched) =>
       \A i \in room.has : Id(i) \in room.dead => i.unit \in forfeit
  /\ stage \in {"made", "loaded"} => \A i, j \in Alive(room) : i.unit = j.unit => i = j
Current ==
  /\ ~unsaved => Shown(room) \subseteq Loaded \cup forfeit
  /\ Loaded \subseteq file \cup forfeit
  /\ stage # "ready" /\ store # None => Shown(store) \subseteq Loaded \cup forfeit
KeptInv == ~lost => Forfeited /\ Deletions /\ StoreBehind /\ Begun /\ Current

\* A client has nothing of what is in the file, or was made by a room, that the room lacks.
OnceInv ==
  ~lost /\ ~early =>
    /\ stage = "ready" /\ store = None /\ ~touched => room.has = SourceOf(read).has
    /\ \A c \in Client : \A i \in replica[c].has :
         i.author # User \/ i.unit \in file \cup Loaded => i \in Base.has

\* Of two items of one unit, whoever has the newer one has deleted the older.
Newer(j, i) ==
  \/ i.author = User
  \/ j.author # User /\ (j.author > i.author \/ (j.author = i.author /\ j.clock > i.clock))
Over(j, i) == \A r \in Copies : j \in r.has => Id(i) \in r.dead
NewerInv ==
  ~lost /\ ~early =>
    \A r, q \in Copies : \A i \in r.has, j \in q.has :
      i.unit = j.unit /\ i # j /\ Newer(j, i) => Over(j, i)

\* A room has nothing before it is initialized, and then shows what the loader knows of the
\* file, unless a save is to change that.
RestInv ==
  ~early =>
    /\ stage \in {"made", "loaded"} => room = Empty
    /\ known = mtime /\ stage = "ready" /\ ~unsaved => Shown(room) = file
    /\ known = mtime /\ stage = "loaded" => read = file

\* rooms.py (_apply_deterministic_source_content): a rebuilt room does not make
\* reconnecting clients "merge duplicate content", as long as the room they knew could
\* be made again from its store or its file, and no reload came before the making.
NoDuplicates ==
  ~lost /\ ~early => \A r \in Replicas : Cardinality(Shown(r)) = Cardinality(Alive(r))

\* The inductive invariant, and with it that no unit is shown twice
IInv == /\ TypeOK /\ CopiesInv /\ AgreeInv /\ SourceInv /\ KeptInv /\ OnceInv /\ NewerInv
        /\ RestInv /\ NoDuplicates

\* What a client and the room show is the same once each has what the other had: no id
\* stands for two different items.
Converging ==
  ~lost => \A c \in online : Shown(Merge(replica[c], room)) = Shown(Merge(room, replica[c]))

\* No making of a room takes from a client that kept its replica what was saved.
EditsKept ==
  ~lost => \A c \in Client : {i.unit : i \in replica[c].has} \subseteq Shown(replica[c]) \cup forfeit

\* docs/source/index.md: "everyone works in sync on the same document".  When every
\* change has been passed on, saved or noticed, each client shows the file.
AtRest ==
  /\ stage = "ready" /\ known = mtime /\ ~unsaved
  /\ \A c \in online : Merge(room, replica[c]) = room /\ Merge(replica[c], room) = replica[c]
SameDocument == ~lost /\ ~early /\ AtRest => \A c \in online : Shown(replica[c]) = file
=============================================================================
