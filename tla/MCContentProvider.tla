-------------------------- MODULE MCContentProvider --------------------------
(* Small instances of ContentProvider for TLC.                             *)
EXTENDS ContentProvider, TLC

Alike == Permutations(Doc) \cup Permutations(Kind) \cup Permutations(File) \cup Permutations(Path)
=============================================================================
