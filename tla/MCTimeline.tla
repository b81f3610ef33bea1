------------------------------ MODULE MCTimeline ------------------------------
(* Two collaborative documents and one that is not; three versions.            *)
EXTENDS Timeline, TLC

CONSTANTS d1, d2, p1
Documents == {d1, d2, p1}
PlainOnes == {p1}
Twins == Permutations({d1, d2})
=============================================================================
