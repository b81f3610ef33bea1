---------------------------- MODULE MCConflictDiff ----------------------------
(* Two cells of one id, with different sources or metadata, and one without id. *)
EXTENDS ConflictDiff
Cell(id, source, metadata, rest) ==
  [id |-> id, source |-> source, metadata |-> metadata, rest |-> rest]
MCCells == {Cell("a", 1, 1, 1), Cell("a", 2, 1, 1), Cell("a", 1, 2, 2),
            Cell("b", 1, 1, 1), Cell("", 1, 1, 1)}
MCMetadata == {1, 2}
===============================================================================
