------------------------------- MODULE MCForks -------------------------------
(* Small instances of Forks for TLC.                                       *)
EXTENDS Forks, TLC

Alike == Permutations(Fork) \cup Permutations(Edit)
=============================================================================
