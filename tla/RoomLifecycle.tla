---------------------------- MODULE RoomLifecycle ---------------------------
(***************************************************************************)
(* One document's room on the server, from its creation to its deletion.   *)
(* Each client connection has a YDocWebSocketHandler (handlers.py): prepare*)
(* finds or creates the room, open initializes it and has the websocket    *)
(* server serve the client, on_close schedules the deletion of the room    *)
(* when the last client leaves.  prepare, open and _clean_room take the    *)
(* lock that _room_locks holds for the room, and _clean_room deletes it    *)
(* from there.                                                             *)
(*                                                                         *)
(* Several instances of the room may exist in time, named by the client    *)
(* whose prepare created them; the server registers at most one.  A client *)
(* connects once: a reconnection is another client.  As everywhere on the  *)
(* server an action is what runs between two awaits that suspend.          *)
(***************************************************************************)
EXTENDS Naturals, FiniteSets

CONSTANTS
  Client,           \* connections
  None,
  CleanupDelaySet,  \* is document_cleanup_delay a number (TRUE) or None (FALSE)?
  Budget            \* bound on the failures of start_room and of initialize

Part == {"open", "clean"}        \* a handler's prepare and open; its _clean_room
Actor == Client \X Part

ASSUME NameAssumption == None \notin Client /\ None \notin Nat
ASSUME ConfigAssumption ==
  /\ CleanupDelaySet \in BOOLEAN
  /\ Budget \in [{"start", "init"} -> Nat]

VARIABLES
  pc,        \* where each handler is: in prepare, in open, served, ...
  cleaning,  \* where its _clean_room is
  myRoom,    \* its self.room
  closed,    \* on_close has been called
  servedBy,  \* the instance whose clients it belongs to
  room,      \* the instance registered with the websocket server
  ready,     \* the initialized instances
  stopped,   \* the stopped instances
  cleaner,   \* the handler whose _clean_room is the instance's cleaner task
  lock,      \* the number of the lock _room_locks holds, or would create, for the room
  lockOf,    \* the lock each actor holds or waits for
  ahead,     \* the actors before it in that lock's queue
  loader,    \* the file loader of the document
  loaders,   \* how many were created
  fileOf,    \* each instance's loader
  subs,      \* loaders to which (an instance of) the room is subscribed
  budget,
  split,     \* history: one took the room's lock while another had an older one
  doomed,    \* history: instances that will be deleted though a client is being opened
  late       \* history: those whose room was deleted before they could cancel that

handlers == <<pc, cleaning, myRoom, closed, servedBy>>
instances == <<room, ready, stopped, cleaner>>
locks == <<lock, lockOf, ahead>>
files == <<loader, loaders, fileOf, subs>>
history == <<split, doomed, late>>
vars == <<handlers, instances, locks, files, budget, history>>

Pc == {"away", "plock", "pstart", "pfail", "prepared", "session", "olock", "init",
       "cleaning", "toserve", "served", "unserved", "done"}

\* every variable holds a value of its kind
TypeOK ==
  /\ pc \in [Client -> Pc]
  /\ cleaning \in [Client -> {"none", "sleep", "lock", "unload", "done"}]
  /\ myRoom \in [Client -> Client \cup {None}]
  /\ closed \subseteq Client
  /\ servedBy \in [Client -> Client \cup {None}]
  /\ room \in Client \cup {None}
  /\ ready \subseteq Client /\ stopped \subseteq Client
  /\ cleaner \in [Client -> Client \cup {None}]
  /\ lock \in Nat
  /\ lockOf \in [Actor -> Nat \cup {None}]
  /\ ahead \in [Actor -> SUBSET Actor]
  /\ loader \in Nat \cup {None} /\ loaders \in Nat
  /\ fileOf \in [Client -> Nat \cup {None}]
  /\ subs \subseteq Nat
  /\ budget \in [{"start", "init"} -> Nat]
  /\ split \in BOOLEAN /\ doomed \subseteq Client /\ late \subseteq Client

Init ==
  /\ pc = [c \in Client |-> "away"]
  /\ cleaning = [c \in Client |-> "none"]
  /\ myRoom = [c \in Client |-> None]
  /\ closed = {}
  /\ servedBy = [c \in Client |-> None]
  /\ room = None /\ ready = {} /\ stopped = {}
  /\ cleaner = [r \in Client |-> None]
  /\ lock = 0
  /\ lockOf = [a \in Actor |-> None]
  /\ ahead = [a \in Actor |-> {}]
  /\ loader = None /\ loaders = 0
  /\ fileOf = [r \in Client |-> None]
  /\ subs = {}
  /\ budget = Budget
  /\ split = FALSE /\ doomed = {} /\ late = {}

Spend(e) == budget[e] > 0 /\ budget' = [budget EXCEPT ![e] = @ - 1]
Goto(c, p) == pc' = [pc EXCEPT ![c] = p]
Clients(r) == {c \in Client : servedBy[c] = r}

-----------------------------------------------------------------------------
(* The locks of _room_locks: FIFO, looked up again at every async-with     *)

Queue(l) == {a \in Actor : lockOf[a] = l}
Holds(a) == lockOf[a] # None /\ ahead[a] = {}

\* The actors of gone are dropped from their queue, which makes room for others.
Idle(gone) == Queue(lock) \subseteq gone
Enqueue(a, gone) ==
  /\ lockOf' = [b \in Actor |-> IF b = a THEN lock ELSE IF b \in gone THEN None ELSE lockOf[b]]
  /\ ahead' = [b \in Actor |-> CASE b = a -> Queue(lock) \ gone
                                 [] b \in gone -> {}
                                 [] OTHER -> ahead[b] \ gone]
  /\ UNCHANGED lock
\* Inside the block, having got the lock at once or after a wait.
Hold(a, gone) == IF Holds(a) THEN UNCHANGED locks ELSE Enqueue(a, gone)
\* A lock that was deleted still has those that hold it or wait for it.
Enters(a, gone) ==
  split' = (split \/ (lockOf[a] = None /\ \E b \in Actor \ gone : lockOf[b] \notin {None, lock}))
Leave(gone) ==
  /\ lockOf' = [b \in Actor |-> IF b \in gone THEN None ELSE lockOf[b]]
  /\ ahead' = [b \in Actor |-> IF b \in gone THEN {} ELSE ahead[b] \ gone]
Release(a) == Leave({a}) /\ UNCHANGED lock

-----------------------------------------------------------------------------
(* FileLoaderMapping                                                       *)

GetLoader ==
  IF loader # None THEN UNCHANGED <<loader, loaders>>
                   ELSE loader' = loaders + 1 /\ loaders' = loaders + 1

\* number_of_subscriptions of the loader of the file is zero
Unused(s) == loader = None \/ loader \notin s

-----------------------------------------------------------------------------
(* prepare                                                                 *)

Opening(c) == <<c, "open">>

PrepareWait(c) ==
  /\ pc[c] = "away"
  /\ ~Idle({}) /\ Enqueue(Opening(c), {}) /\ Enters(Opening(c), {})
  /\ Goto(c, "plock")
  /\ UNCHANGED <<cleaning, myRoom, closed, servedBy, instances, files, budget, doomed, late>>

GetRoom(c) ==
  /\ myRoom' = [myRoom EXCEPT ![c] = room]
  /\ Goto(c, "prepared")
  /\ Release(Opening(c))
  /\ UNCHANGED files

CreateRoom(c) ==
  /\ myRoom' = [myRoom EXCEPT ![c] = c]
  /\ GetLoader
  /\ fileOf' = [fileOf EXCEPT ![c] = loader']
  /\ subs' = subs \cup {loader'}
  /\ Goto(c, "pstart")
  /\ Hold(Opening(c), {})

\* (a slip: prepare does not wait for the lock)
PrepareUnlocked(c) ==
  /\ pc[c] = "away" /\ UNCHANGED split
  /\ IF room # None THEN GetRoom(c) ELSE CreateRoom(c)
  /\ UNCHANGED <<cleaning, closed, servedBy, instances, budget, doomed, late>>
Prepare(c) ==
  /\ (pc[c] = "away" /\ Idle({})) \/ (pc[c] = "plock" /\ Holds(Opening(c)))
  /\ Enters(Opening(c), {})
  /\ IF room # None THEN GetRoom(c) ELSE CreateRoom(c)
  /\ UNCHANGED <<cleaning, closed, servedBy, instances, budget, doomed, late>>

Started(c) ==
  /\ pc[c] = "pstart"
  /\ room' = c
  /\ Goto(c, "prepared")
  /\ Release(Opening(c))
  /\ UNCHANGED <<cleaning, myRoom, closed, servedBy, ready, stopped, cleaner, files, budget>>
  /\ UNCHANGED history

\* start_room raised: stop the room, which itself raises when the subscription is gone
\* already, and remove the loader, which no room has or one of this id: another instance.
StartFails(c) ==
  /\ pc[c] = "pstart" /\ Spend("start")
  /\ stopped' = stopped \cup {c}
  /\ IF fileOf[c] \in subs
     THEN /\ subs' = subs \ {fileOf[c]}
          /\ loader' = None
          /\ Goto(c, "pfail")
          /\ UNCHANGED <<loaders, fileOf, locks>>
     ELSE Goto(c, "done") /\ Release(Opening(c)) /\ UNCHANGED files
  /\ UNCHANGED <<cleaning, myRoom, closed, servedBy, room, ready, cleaner, history>>

StartFailed(c) ==
  /\ pc[c] = "pfail"
  /\ Goto(c, "done")
  /\ Release(Opening(c))
  /\ UNCHANGED <<cleaning, myRoom, closed, servedBy, instances, files, budget, history>>

-----------------------------------------------------------------------------
(* open                                                                    *)

Open(c) ==
  /\ pc[c] = "prepared"
  /\ Goto(c, "session")
  /\ UNCHANGED <<cleaning, myRoom, closed, servedBy, instances, locks, files, budget, history>>

\* The handlers whose _clean_room is the cleaner to cancel, once the session is
\* saved; a deletion under way swallows the cancellation.  If the session has
\* expired close() is called first, and open goes on all the same.
\* (a slip: a reconnection leaves the cleaner alone)
CancelNone(c) == {}
Cancelled(c) == {d \in {cleaner[myRoom[c]]} \ {None} : cleaning[d] \in {"sleep", "lock"}}
Cleaning(d) == <<d, "clean">>

InitializeWait(c) ==
  LET gone == {Cleaning(d) : d \in Cancelled(c)} IN
  /\ pc[c] = "session"
  /\ ~Idle(gone) /\ Enqueue(Opening(c), gone) /\ Enters(Opening(c), gone)
  /\ Goto(c, "olock")
  /\ cleaning' = [d \in Client |-> IF d \in Cancelled(c) THEN "done" ELSE cleaning[d]]
  /\ UNCHANGED <<myRoom, closed, servedBy, instances, files, budget, doomed, late>>

Initialize(c) ==
  LET cancels == IF pc[c] = "session" THEN Cancelled(c) ELSE {}
      gone == {Cleaning(d) : d \in cancels}
  IN
  /\ (pc[c] = "session" /\ Idle(gone)) \/ (pc[c] = "olock" /\ Holds(Opening(c)))
  /\ Enters(Opening(c), gone)
  /\ cleaning' = [d \in Client |-> IF d \in cancels THEN "done" ELSE cleaning[d]]
  /\ IF myRoom[c] \in ready
     THEN Goto(c, "toserve") /\ Leave(gone \cup {Opening(c)}) /\ UNCHANGED lock
     ELSE Goto(c, "init") /\ Hold(Opening(c), gone)
  /\ UNCHANGED <<myRoom, closed, servedBy, instances, files, budget, doomed, late>>

Initialized(c) ==
  /\ pc[c] = "init"
  /\ ready' = ready \cup {myRoom[c]}
  /\ Goto(c, "toserve")
  /\ Release(Opening(c))
  /\ UNCHANGED <<cleaning, myRoom, closed, servedBy, room, stopped, cleaner, files, budget>>
  /\ UNCHANGED history

\* The handler asks for the loader, to name the file, and cleans an empty room.
\* (a slip: it does so inside the lock)
InitializeFailsLocked(c) ==
  /\ pc[c] = "init" /\ Spend("init")
  /\ GetLoader
  /\ IF Clients(myRoom[c]) \subseteq {c}
     THEN Goto(c, "cleaning") /\ cleaning' = [cleaning EXCEPT ![c] = "sleep"]
          /\ doomed' = doomed \cup {myRoom[c]} /\ UNCHANGED locks
     ELSE Goto(c, "done") /\ UNCHANGED <<cleaning, doomed>> /\ Release(Opening(c))
  /\ UNCHANGED <<myRoom, closed, servedBy, instances, fileOf, subs, split, late>>
InitializeFails(c) ==
  /\ pc[c] = "init" /\ Spend("init")
  /\ Release(Opening(c))
  /\ GetLoader
  /\ IF Clients(myRoom[c]) \subseteq {c}
     THEN Goto(c, "cleaning") /\ cleaning' = [cleaning EXCEPT ![c] = "sleep"]
          /\ doomed' = doomed \cup {myRoom[c]}
     ELSE Goto(c, "done") /\ UNCHANGED <<cleaning, doomed>>
  /\ UNCHANGED <<myRoom, closed, servedBy, instances, fileOf, subs, split, late>>

\* The task of WebsocketServer.serve looks the room up again.
Serve(c) ==
  /\ pc[c] = "toserve"
  /\ IF room # None
     THEN Goto(c, "served") /\ servedBy' = [servedBy EXCEPT ![c] = room]
     ELSE Goto(c, "unserved") /\ UNCHANGED servedBy
  /\ UNCHANGED <<cleaning, myRoom, closed, instances, locks, files, budget, history>>

-----------------------------------------------------------------------------
(* on_close and _clean_room                                                *)

Connected == {"session", "olock", "init", "toserve", "served", "unserved"}

\* The connection is lost, before the upgrade ...
Drop(c) ==
  /\ pc[c] = "prepared"
  /\ Goto(c, "done")
  /\ UNCHANGED <<cleaning, myRoom, closed, servedBy, instances, locks, files, budget, history>>

\* Those that open the same room are no clients of it yet, and may have been too early
\* to cancel its deletion.
Missed(c) ==
  {d \in Client \ closed : myRoom[d] = myRoom[c] /\ pc[d] \in {"olock", "init", "toserve"}}

\* ... or after it.
OnClose(c) ==
  /\ pc[c] \in Connected /\ c \notin closed
  /\ closed' = closed \cup {c}
  /\ IF Clients(myRoom[c]) = {c}
     THEN /\ cleaner' = [cleaner EXCEPT ![myRoom[c]] = c]
          /\ cleaning' = [cleaning EXCEPT ![c] = IF CleanupDelaySet THEN "sleep" ELSE "done"]
          /\ doomed' = IF Missed(c) = {} THEN doomed ELSE doomed \cup {myRoom[c]}
     ELSE UNCHANGED <<cleaner, cleaning, doomed>>
  /\ UNCHANGED <<pc, myRoom, servedBy, room, ready, stopped, locks, files, budget, split, late>>

\* The serving task reads the empty message and removes the client.
Unserve(c) ==
  /\ pc[c] = "served" /\ c \in closed
  /\ servedBy' = [servedBy EXCEPT ![c] = None]
  /\ Goto(c, "done")
  /\ UNCHANGED <<cleaning, myRoom, closed, instances, locks, files, budget, history>>

CleanWait(c) ==
  /\ cleaning[c] = "sleep"
  /\ ~Idle({}) /\ Enqueue(Cleaning(c), {}) /\ Enters(Cleaning(c), {})
  /\ cleaning' = [cleaning EXCEPT ![c] = "lock"]
  /\ UNCHANGED <<pc, myRoom, closed, servedBy, instances, files, budget, doomed, late>>

CleanDone(c) ==
  /\ cleaning' = [cleaning EXCEPT ![c] = "done"]
  /\ IF pc[c] = "cleaning" THEN Goto(c, "done") ELSE UNCHANGED pc
  /\ Leave({Cleaning(c)})

Registered(c) == room = myRoom[c]
Deregister == room' = None

\* delete_room raises if the server has not the room, or stop has not the
\* subscription to the file to end: then the lock stays in _room_locks.
Clean(c) ==
  /\ (cleaning[c] = "sleep" /\ Idle({})) \/ (cleaning[c] = "lock" /\ Holds(Cleaning(c)))
  /\ Enters(Cleaning(c), {})
  /\ IF Registered(c) THEN stopped' = stopped \cup {myRoom[c]} ELSE UNCHANGED stopped
  /\ IF Registered(c) /\ fileOf[myRoom[c]] \in subs
     THEN /\ Deregister
          /\ late' = late \cup
               {d \in Client : pc[d] \in {"prepared", "session"} /\ myRoom[d] = room}
          /\ subs' = subs \ {fileOf[myRoom[c]]}
          /\ myRoom' = [myRoom EXCEPT ![c] = None]
          /\ IF Unused(subs')
             THEN /\ loader' = None
                  /\ cleaning' = [cleaning EXCEPT ![c] = "unload"]
                  /\ Hold(Cleaning(c), {})
                  /\ UNCHANGED <<pc, loaders, fileOf>>
             ELSE /\ CleanDone(c)
                  /\ lock' = lock + 1
                  /\ UNCHANGED <<loader, loaders, fileOf>>
     ELSE CleanDone(c) /\ UNCHANGED <<lock, room, myRoom, files, late>>
  /\ UNCHANGED <<closed, servedBy, ready, cleaner, budget, doomed>>

Unloaded(c) ==
  /\ cleaning[c] = "unload"
  /\ CleanDone(c)
  /\ lock' = lock + 1
  /\ UNCHANGED <<myRoom, closed, servedBy, instances, files, budget, history>>

-----------------------------------------------------------------------------
Handle(c) == \/ PrepareWait(c) \/ Prepare(c) \/ Started(c) \/ StartFails(c) \/ StartFailed(c)
             \/ Open(c) \/ InitializeWait(c) \/ Initialize(c) \/ Initialized(c)
             \/ InitializeFails(c) \/ Serve(c) \/ Unserve(c)
CleanRoom(c) == CleanWait(c) \/ Clean(c) \/ Unloaded(c)
Next == \E c \in Client : Handle(c) \/ CleanRoom(c) \/ Drop(c) \/ OnClose(c)

Spec == Init /\ [][Next]_vars

\* The event loop runs every task that can run; clients come and go as they like.
Fairness == \A c \in Client : WF_vars(pc[c] # "away" /\ Handle(c)) /\ WF_vars(CleanRoom(c))
FairSpec == Spec /\ Fairness

-----------------------------------------------------------------------------
(* Properties                                                              *)

\* A client that has cancelled the room's deletion and has not closed
Engaged(c) == pc[c] \in {"olock", "init", "toserve", "served"} /\ c \notin closed

\* A client edits the document that the server's saves write: it is served by the room it
\* found, which is registered and initialized; unless that was deleted before the client
\* could cancel the deletion, or is deleted although it could not, or the lock was split.
Relies(c) == c \notin late \cup closed /\ myRoom[c] \notin doomed /\ ~split
ServedTogether ==
  \A c \in Client : Relies(c) /\ pc[c] = "served" =>
    servedBy[c] = myRoom[c] /\ myRoom[c] = room /\ room \in ready

\* What prepare finds in the server's rooms is never a stopped room, and its
\* loader is the one the mapping has: the file of the room is watched.
RegisteredAlive == room # None => room \notin stopped
RegisteredWatched == room # None => loader = fileOf[room] /\ loader \in subs

\* rooms.py, initialize: "only one client can initialize the room".
OneInitializes == Cardinality({c \in Client : pc[c] \in {"pstart", "init"}}) <= 1

\* As long as the lock is not split, the room that prepare finds is one that works, and
\* is made by one handler.
Inv == TypeOK /\ (~split => RegisteredAlive /\ RegisteredWatched /\ OneInitializes)

\* What the proofs need besides.  Whoever has a lock waits for it or is in its block, ...
LockInv ==
  \A c \in Client :
    /\ lockOf[Opening(c)] # None <=> pc[c] \in {"plock", "pstart", "pfail", "olock", "init"}
    /\ pc[c] \in {"pstart", "pfail", "init"} => ahead[Opening(c)] = {}
    /\ lockOf[Cleaning(c)] # None <=> cleaning[c] \in {"lock", "unload"}
    /\ cleaning[c] = "unload" => ahead[Cleaning(c)] = {}

\* ... and those that have the same lock queue for it.
QueueInv ==
  \A a, b \in Actor :
    /\ b \in ahead[a] => a # b /\ lockOf[a] # None /\ lockOf[b] = lockOf[a]
    /\ a # b /\ lockOf[a] # None /\ lockOf[a] = lockOf[b] => a \in ahead[b] \/ b \in ahead[a]

\* A client is served before it closes, and closes before its handler cleans, unless its
\* initialization has failed; then nobody can cancel it.
PhaseInv ==
  \A c \in Client :
    /\ cleaner[c] # None => cleaner[c] \in closed /\ pc[cleaner[c]] \in {"served", "done"}
    /\ servedBy[c] # None <=> pc[c] = "served"
    /\ c \in closed => pc[c] \notin {"away", "plock", "pstart", "pfail", "prepared"}
    /\ cleaning[c] # "none" => pc[c] = "cleaning" \/ (c \in closed /\ pc[c] \in {"served", "done"})
                                              \/ (cleaning[c] = "done" /\ pc[c] = "done")
    /\ pc[c] = "cleaning" => cleaning[c] \in {"sleep", "lock", "unload"}
    /\ cleaning[c] \in {"sleep", "lock", "unload"} => pc[c] = "cleaning" \/ CleanupDelaySet
    /\ pc[c] \notin {"away", "plock"} /\ cleaning[c] \notin {"unload", "done"} => myRoom[c] # None

\* All who have the lock have the same one.
OneLock == \A a, b \in Actor : lockOf[a] # None /\ lockOf[b] # None => lockOf[a] = lockOf[b]

\* An instance is registered once it has started, unless another is; the one that starts
\* has the loader, and the one that is initialized has not been before.  Who came late to
\* cancel has one that was stopped.
Unstarted == {"away", "plock", "pstart", "pfail"}
RoomInv ==
  /\ room # None => pc[room] \notin Unstarted
  /\ \A r \in ready : pc[r] \notin Unstarted
  /\ \A r \in stopped : pc[r] \notin Unstarted \ {"pfail"}
  /\ \A c \in late : pc[c] \notin Unstarted /\ myRoom[c] \in stopped \cup {None}
  /\ \A c \in Client :
       /\ myRoom[c] \notin {None, c} => pc[myRoom[c]] \notin Unstarted
       /\ pc[c] \in {"pstart", "pfail"} => myRoom[c] = c
       /\ pc[c] = "pstart" => room = None /\ loader = fileOf[c] /\ loader \in subs
       /\ pc[c] = "init" => myRoom[c] \notin ready
       /\ pc[c] = "toserve" => myRoom[c] \in ready

\* Who is about to delete an instance and may be cancelled is its cleaner, the last that
\* closed, unless the deletion cannot be cancelled at all.
Sleeping(d, r) == cleaning[d] \in {"sleep", "lock"} /\ myRoom[d] = r
CleanerInv ==
  room # None /\ room \notin doomed => \A d \in Client : Sleeping(d, room) => d = cleaner[room]

\* Whoever found the registered room still has it, and once it has cancelled the deletion
\* nobody is about to delete it; whom that room serves is one of its clients.
Found == {"prepared", "session", "olock", "init", "toserve", "served"}
UsersInv ==
  \A c \in Client :
    /\ Relies(c) /\ pc[c] \in Found => room = myRoom[c]
    /\ Relies(c) /\ Engaged(c) => \A d \in Client : ~Sleeping(d, room)
    /\ Relies(c) /\ pc[c] = "served" => servedBy[c] = room /\ room \in ready

IInv == /\ Inv /\ LockInv /\ QueueInv /\ PhaseInv
        /\ ~split => OneLock /\ RoomInv /\ CleanerInv /\ UsersInv

\* Whoever waits for the lock of the room gets it, in prepare, open and
\* _clean_room, which open also awaits when the initialization fails.
LockWaitsEnd == \A a \in Actor : lockOf[a] # None ~> lockOf[a] = None

\* handlers.py, open: "cancel the deletion of the room if it was scheduled".  As long as
\* the lock is not split one room at a time is registered, each once, and is not deleted
\* while a client that has cancelled its deletion is using it, unless it is doomed.
Rooms == INSTANCE RoomService WITH
  Instance <- Client, ended <- stopped,
  users <- {c \in Client : Engaged(c) /\ myRoom[c] = room /\ room \notin doomed}
Service == Rooms!Init /\ [][Rooms!Next \/ split']_Rooms!vars
=============================================================================
