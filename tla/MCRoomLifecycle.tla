-------------------------- MODULE MCRoomLifecycle -------------------------
(* A small instance of RoomLifecycle for TLC.                              *)
EXTENDS RoomLifecycle

AFailure == [start |-> 1, init |-> 1]
=============================================================================
