----------------------------- MODULE MCProvider -----------------------------
(* Small instances of Provider for TLC.                                    *)
EXTENDS Provider

Events(r, e, l, f, b) == [refused |-> r, expired |-> e, lost |-> l, fork |-> f, restore |-> b]

BudgetAll == Events(1, 1, 1, 1, 1)
=============================================================================
