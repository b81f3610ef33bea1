----------------------------- MODULE RoomService -----------------------------
(***************************************************************************)
(* What the server promises of the rooms of one document, whatever its     *)
(* handlers, their locks and the cleaners do: clients meet in one room at  *)
(* a time, which is not one that has ended, is initialized once, and is    *)
(* not taken from those who rely on it.  RoomLifecycle implements it.      *)
(***************************************************************************)
CONSTANTS
  Instance,   \* the rooms there may be, one after the other
  Client,
  None

VARIABLES
  room,       \* the room of the document
  ready,      \* the instances that were initialized
  ended,      \* those that were stopped
  users       \* the clients that rely on the room

vars == <<room, ready, ended, users>>

Init == room = None /\ ready = {} /\ ended = {} /\ users = {}

Create(r) ==
  /\ room = None /\ r \notin ready \cup ended
  /\ room' = r
  /\ UNCHANGED <<ready, ended, users>>

Initialize(r) ==
  /\ r \notin ready
  /\ ready' = ready \cup {r}
  /\ UNCHANGED <<room, ended, users>>

\* A client begins to rely on the room, or others no longer do.
Use ==
  /\ room # None
  /\ \E c \in Client : users' = users \cup {c} \/ users' \subseteq users
  /\ UNCHANGED <<room, ready, ended>>

Delete ==
  /\ room # None /\ users = {}
  /\ room' = None /\ ended' = ended \cup {room}
  /\ UNCHANGED <<ready, users>>

\* A room that could not be started
Discard(r) ==
  /\ r # room
  /\ ended' = ended \cup {r}
  /\ UNCHANGED <<room, ready, users>>

Next ==
  \/ Use \/ Delete
  \/ \E r \in Instance : Create(r) \/ Initialize(r) \/ Discard(r)

Spec == Init /\ [][Next]_vars
=============================================================================
