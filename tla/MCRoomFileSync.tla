-------------------------- MODULE MCRoomFileSync --------------------------
(* Small instances of RoomFileSync for TLC.                                *)
EXTENDS RoomFileSync

Events(e, m, x, n, f) ==
  [edit |-> e, manual |-> m, external |-> x, rename |-> n, failure |-> f]

BudgetEdits == Events(2, 2, 0, 0, 0)
BudgetFaults == Events(1, 0, 1, 1, 1)
=============================================================================
