------------------------------ MODULE MCRebuild -------------------------------
(* Small instances of Rebuild for TLC.                                     *)
EXTENDS Rebuild, TLC

Clients == Permutations(Client)
=============================================================================
