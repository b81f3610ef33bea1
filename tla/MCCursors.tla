------------------------------- MODULE MCCursors -------------------------------
(* Small instances of Cursors for TLC.                                     *)
EXTENDS Cursors, TLC

CONSTANTS e1, e2

Range1(a, h) == [anchor |-> a, head |-> h]
TwoTexts == e1 :> <<1, 2>> @@ e2 :> <<3>>
\* a caret, a selection to the left, and a caret before a selection
SomeRanges == { <<Range1(1, 1)>>, <<Range1(2, 1)>>, <<Range1(0, 0), Range1(1, 2)>> }
Clients == Permutations(Client)
=============================================================================
