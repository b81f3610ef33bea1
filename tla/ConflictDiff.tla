----------------------------- MODULE ConflictDiff -----------------------------
(***************************************************************************)
(* What a user is offered when his document is in conflict with the        *)
(* server's: a dialog (yprovider.ts, _handleConflictMessage), commands of  *)
(* JupyterLab that it calls, and a diff with two buttons of its own        *)
(* (docprovider-extension/yprovider.ts, conflictDiffWidget.ts), in which   *)
(* base is the server's notebook and remote the local one.                 *)
(*                                                                         *)
(* For the diff cells are matched by their ids with a longest common       *)
(* subsequence; _diffNotebooks then goes once through the matches and      *)
(* writes the entries, of which one step is one turn of its loop.  Keys    *)
(* are numbers of cells before, as in the code.  There is one conflict at  *)
(* a time, and the server's notebook is that of the time it is fetched.    *)
(***************************************************************************)
EXTENDS Naturals, Sequences, FiniteSets

CONSTANTS
  Cells,       \* cells: records with an id, a source, metadata and the rest
  Metadata,    \* the metadata of a notebook
  MaxCells     \* bound on the cells of a notebook

ASSUME CellAssumption == \A c \in Cells : DOMAIN c = {"id", "source", "metadata", "rest"}
ASSUME CellsBounded == MaxCells \in Nat

VARIABLES
  contentType,     \* "notebook" or "file"; a file's content is not looked at
  base,            \* the server's notebook
  local,           \* that of the user
  stage,           \* what the user sees, or waits for
  saved,           \* the notebooks that have been saved with another name
  remote,          \* the local notebook of which the diff is made
  next,            \* the match to be looked at next
  bi, ri,          \* the cells of either that have been dealt with
  cellsDiff,
  topDiff          \* the result, Nothing while the loop runs

loop == <<next, bi, ri, cellsDiff, topDiff>>
notebooks == <<contentType, base, local>>
diffVars == <<notebooks, stage, saved, remote, loop>>

Nothing == [none |-> TRUE]
Notebook == [cells : UNION {[1 .. n -> Cells] : n \in 0 .. MaxCells}, metadata : Metadata]
CellIds(notebook) == [i \in DOMAIN notebook.cells |-> notebook.cells[i].id]

-----------------------------------------------------------------------------
(* _lcs                                                                    *)

\* dp[<<i, j>>] is the length for the first i elements of a and j of b.
Lengths(a, b) ==
  LET dp[p \in (0 .. Len(a)) \X (0 .. Len(b))] ==
        LET i == p[1]  j == p[2]
        IN IF i = 0 \/ j = 0 THEN 0
           ELSE IF a[i] = b[j] THEN dp[<<i - 1, j - 1>>] + 1
           ELSE IF dp[<<i - 1, j>>] > dp[<<i, j - 1>>] THEN dp[<<i - 1, j>>] ELSE dp[<<i, j - 1>>]
  IN dp

\* On the way back through dp the last element of a is left out, else that of b.
\* (a slip: the one that is needed)
LeavesNeeded(dp, i, j) == dp[<<i - 1, j>>] < dp[<<i, j - 1>>]
Leaves(dp, i, j) == dp[<<i - 1, j>>] > dp[<<i, j - 1>>]

\* The way back from i and j, the pairs it meets in their order.
WayBack(a, b) ==
  LET dp == Lengths(a, b)
      pairs[p \in (0 .. Len(a)) \X (0 .. Len(b))] ==
        LET i == p[1]  j == p[2]
        IN IF i = 0 \/ j = 0 THEN <<>>
           ELSE IF a[i] = b[j] THEN Append(pairs[<<i - 1, j - 1>>], <<i, j>>)
           ELSE IF Leaves(dp, i, j) THEN pairs[<<i - 1, j>>] ELSE pairs[<<i, j - 1>>]
  IN pairs

Lcs(a, b) == WayBack(a, b)[<<Len(a), Len(b)>>]
Matches == Lcs(CellIds(base), CellIds(remote))

-----------------------------------------------------------------------------
(* _diffNotebooks                                                          *)

RemoveRange(key, n) ==
  IF n = 0 THEN <<>> ELSE << [op |-> "removerange", key |-> key, length |-> n] >>
AddRange(key, cells) ==
  IF cells = <<>> THEN <<>> ELSE << [op |-> "addrange", key |-> key, valuelist |-> cells] >>
PatchMetadata(key, value) == << [op |-> "patch", key |-> key, metadata |-> value] >>

\* A cell with another source is taken out and put in again.
Changed(key, old, new) ==
  IF old.source # new.source THEN RemoveRange(key, 1) \o AddRange(key, <<new>>)
  ELSE IF old.metadata # new.metadata THEN PatchMetadata(key, new.metadata)
  ELSE <<>>

\* The cells between the last match and the one before i and j.
\* (a slip: either removed or added ones)
BetweenEither(i, j) ==
  IF bi < i THEN RemoveRange(bi, i - bi) ELSE AddRange(bi, SubSeq(remote.cells, ri + 1, j))
Between(i, j) ==
  RemoveRange(bi, i - bi) \o AddRange(bi, SubSeq(remote.cells, ri + 1, j))

DiffInit ==
  /\ base \in Notebook /\ local \in Notebook
  /\ contentType \in {"notebook", "file"}
  /\ contentType = "file" => base.cells = <<>> /\ local.cells = <<>>
  /\ stage = "document" /\ saved = {} /\ remote = Nothing
  /\ next = 1 /\ bi = 0 /\ ri = 0
  /\ cellsDiff = <<>> /\ topDiff = Nothing

Match ==
  /\ stage = "diffing" /\ next <= Len(Matches)
  /\ LET i == Matches[next][1] - 1
         j == Matches[next][2] - 1
     IN /\ cellsDiff' = cellsDiff \o Between(i, j) \o Changed(i, base.cells[i + 1], remote.cells[j + 1])
        /\ bi' = i + 1 /\ ri' = j + 1
  /\ next' = next + 1
  /\ UNCHANGED <<notebooks, stage, saved, remote, topDiff>>

\* What is left after the last match, and the metadata of the notebook.
\* (a slip: they count only if a cell has changed)
TopLate(cells) ==
  IF cells = <<>> THEN [cells |-> <<>>, metadata |-> base.metadata]
                  ELSE [cells |-> cells, metadata |-> remote.metadata]
Top(cells) == [cells |-> cells, metadata |-> remote.metadata]
Finish ==
  /\ stage = "diffing" /\ next > Len(Matches)
  /\ stage' = "diff"
  /\ cellsDiff' = cellsDiff \o Between(Len(base.cells), Len(remote.cells))
  /\ topDiff' = Top(cellsDiff')
  /\ UNCHANGED <<notebooks, saved, remote, next, bi, ri>>

-----------------------------------------------------------------------------
(* The dialog, its commands and the buttons of the diff                    *)

Goto(to) == stage' = to

\* The diff is offered for a notebook only.
ShowsDiff == contentType = "notebook"
Answers == {"dismiss", "revert", "save as"} \cup (IF ShowsDiff THEN {"show diff"} ELSE {})

\* The server has told of the conflict; what the user answers.
Conflict ==
  /\ stage = "document" /\ Goto("dialog")
  /\ UNCHANGED <<notebooks, saved, remote, loop>>
Dismiss ==
  /\ stage = "dialog" /\ "dismiss" \in Answers /\ Goto("end")
  /\ UNCHANGED <<notebooks, saved, remote, loop>>

\* The local notebook is taken before the server's is asked for.
ShowDiff ==
  /\ stage = "dialog" /\ "show diff" \in Answers /\ Goto("fetch")
  /\ remote' = local
  /\ UNCHANGED <<notebooks, saved, loop>>
Fetched ==
  /\ stage = "fetch" /\ (Goto("diffing") \/ Goto("end"))  \* or the request fails
  /\ UNCHANGED <<notebooks, saved, remote, loop>>

\* context.revert and context.saveAs, by the command or by the button; the tab
\* of the diff stays.
Revert ==
  /\ \/ stage = "dialog" /\ "revert" \in Answers /\ Goto("end")
     \/ stage = "diff" /\ Goto("diff")
  /\ local' = base
  /\ UNCHANGED <<contentType, base, saved, remote, loop>>
SaveAs ==
  /\ \/ stage = "dialog" /\ "save as" \in Answers /\ Goto("end")
     \/ stage = "diff" /\ Goto("diff")
  /\ saved' = saved \cup {local}
  /\ UNCHANGED <<notebooks, remote, loop>>

DiffNext == Match \/ Finish \/ Conflict \/ Dismiss \/ ShowDiff \/ Fetched \/ Revert \/ SaveAs

DiffSpec == DiffInit /\ [][DiffNext]_diffVars

-----------------------------------------------------------------------------
(* What nbdime makes of the diff                                           *)

\* An entry applied: cells before its key that no entry has used are kept.
ApplyEntry(cells, patched, e) ==
  LET kept == patched.cells \o SubSeq(cells, patched.used + 1, e.key)
      Used(n) == IF n > patched.used THEN n ELSE patched.used
  IN IF e.op = "addrange" THEN [cells |-> kept \o e.valuelist, used |-> Used(e.key)]
     ELSE IF e.op = "removerange" THEN [cells |-> kept, used |-> Used(e.key + e.length)]
     ELSE [cells |-> Append(kept, [cells[e.key + 1] EXCEPT !.metadata = e.metadata]),
           used |-> Used(e.key + 1)]
Applied(cells, diff) ==
  LET after[k \in 0 .. Len(diff)] ==
        IF k = 0 THEN [cells |-> <<>>, used |-> 0] ELSE ApplyEntry(cells, after[k - 1], diff[k])
  IN after[Len(diff)]

\* What the first n of the cells become by the diff.
Patched(cells, diff, n) ==
  Applied(cells, diff).cells \o SubSeq(cells, Applied(cells, diff).used + 1, n)

\* What the comparison of two cells looks at.
Shown(cells) == [i \in DOMAIN cells |-> [id |-> cells[i].id, source |-> cells[i].source,
                                         metadata |-> cells[i].metadata]]

-----------------------------------------------------------------------------
(* Properties                                                              *)

\* The diff written so far turns the cells of base that have been dealt with
\* into those of remote, whatever was added, removed, moved or has no id of its
\* own: at the end the user sees the whole of the local notebook.
DiffSoFar ==
  stage \in {"diffing", "diff"} =>
  LET done == topDiff # Nothing
      of == IF done THEN Len(base.cells) ELSE bi
      to == IF done THEN Len(remote.cells) ELSE ri
  IN Shown(Patched(base.cells, cellsDiff, of)) = Shown(SubSeq(remote.cells, 1, to))

\* The same cells of both, in the order of both, some of the time.
Common(pairs, a, b) ==
  /\ \A p \in pairs : a[p[1]] = b[p[2]]
  /\ \A p, q \in pairs : (p[1] < q[1] <=> p[2] < q[2]) /\ (p[1] = q[1] <=> p[2] = q[2])

\* "the longest common subsequence of cell IDs between two lists" (_lcs): no
\* other choice keeps more cells out of the diff.
LongestMatched ==
  LET a == CellIds(base)  b == CellIds(remote)
      Pairs == (DOMAIN a) \X (DOMAIN b)
      chosen == {Matches[k] : k \in DOMAIN Matches}
  IN stage = "diffing" /\ next = 1 =>
       /\ Common(chosen, a, b)
       /\ \A k \in 2 .. Len(Matches) : Matches[k - 1][1] < Matches[k][1]
       /\ \A pairs \in SUBSET Pairs : Common(pairs, a, b) => Cardinality(pairs) <= Len(Matches)

\* Nothing is shown exactly if nothing that is compared differs.
EmptyIfSame ==
  topDiff # Nothing =>
    (topDiff.cells = <<>> /\ topDiff.metadata = base.metadata
       <=> Shown(base.cells) = Shown(remote.cells) /\ base.metadata = remote.metadata)
=============================================================================
