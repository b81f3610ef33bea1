------------------------------ MODULE MCSessions ------------------------------
(* A small instance of Sessions for TLC.                                    *)
EXTENDS Sessions, TLC

Installation(p, n, t) == [package |-> p, document |-> [k \in Kind |-> IF k = "notebook" THEN n ELSE t]]

Kinds == {"notebook", "file"}

\* an upgrade that gives the notebooks the version that files have had all along
Upgrades == {Installation(1, 1, 2), Installation(1, 2, 2)}
Servers == Permutations(Server)
=============================================================================
