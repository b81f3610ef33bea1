---------------------------- MODULE ContentProvider ----------------------------
(***************************************************************************)
(* The content provider of the browser (ydrive.ts): which document's       *)
(* websocket provider a path stands for, while files are renamed.          *)
(*                                                                         *)
(* A rename is heard from two sources.  The drive signals it, in order but *)
(* for a collaborator's rename late.  The server tells it in the shared    *)
(* document, when its watcher polls, and several renames may arrive as     *)
(* one.  A save on the server arrives by the shared document too, as a new *)
(* hash, which is passed on when a request for the model is answered.      *)
(***************************************************************************)
EXTENDS Naturals, FiniteSets, Sequences, SequencesExt, Functions

CONSTANTS
  Doc,         \* shared models that may be opened, each once
  File, Path,
  Kind,        \* format and content type
  Reuse,       \* whether a path that a file had may be taken again
  MaxRenames,  \* bound on the renames
  MaxHashes,   \* bound on the saves by the server
  None

ASSUME NameAssumption == None \notin Doc \cup File \cup Kind \cup Path
ASSUME BoundAssumption == Reuse \in BOOLEAN /\ {MaxRenames, MaxHashes} \subseteq Nat

VARIABLES
  walk,       \* the paths each file has had, the last is its path
  told,       \* how far in it the server's rooms are
  hash,       \* how often the server saved it
  drive,      \* the renames the drive has still to signal: to which place of a walk
  state,      \* of each document: "new", "open", "plain" (not collaborative), "closed"
  file, kind, \* what it shows
  path,       \* the path in its key
  shared,     \* how far in the walk its shared model is, 0 before it is synchronized
  seen,       \* the hash in its shared model, 0 if none
  providers,  \* the map: whose provider is registered for a kind and a path
  listening,  \* the documents connected to the drive's signal, in order
  disposed,   \* the documents whose provider is disposed of
  documents,  \* the user's list of open documents in the global awareness
  gets,       \* of each document: the hashes whose model is being fetched
  emitted,    \* the hash its observers were told last
  overtaken,  \* history: one of two such requests at a time, or one that failed
  twice       \* history: the files that were open in two documents at a time

world == <<walk, told, hash, drive>>
registry == <<path, providers, documents>>
model == <<shared, seen, gets, emitted, overtaken>>
vars == <<world, registry, model, state, file, kind, listening, disposed, twice>>

Where(f) == Last(walk[f])
Total(count) == FoldFunction(+, 0, count)
Open == {d \in Doc : state[d] = "open"}

TypeOK ==
  /\ walk \in [File -> Seq(Path)] /\ told \in [File -> Nat] /\ hash \in [File -> Nat]
  /\ drive \in Seq([file : File, at : Nat])
  /\ state \in [Doc -> {"new", "open", "plain", "closed"}]
  /\ file \in [Doc -> File \cup {None}] /\ kind \in [Doc -> Kind \cup {None}]
  /\ path \in [Doc -> Path \cup {None}]
  /\ shared \in [Doc -> Nat] /\ seen \in [Doc -> Nat]
  /\ providers \in [Kind \X Path -> Doc \cup {None}]
  /\ listening \in Seq(Doc)
  /\ disposed \subseteq Doc /\ documents \subseteq Path
  /\ gets \in [Doc -> SUBSET Nat] /\ emitted \in [Doc -> Nat]
  /\ overtaken \in [Doc -> BOOLEAN]
  /\ twice \subseteq File

Init ==
  /\ \E home \in [File -> Path] : IsInjective(home) /\ walk = [f \in File |-> <<home[f]>>]
  /\ told = [f \in File |-> 1]
  /\ hash = [f \in File |-> 0]
  /\ drive = <<>>
  /\ state = [d \in Doc |-> "new"]
  /\ file = [d \in Doc |-> None] /\ kind = [d \in Doc |-> None]
  /\ path = [d \in Doc |-> None]
  /\ shared = [d \in Doc |-> 0] /\ seen = [d \in Doc |-> 0]
  /\ providers = [key \in Kind \X Path |-> None]
  /\ listening = <<>>
  /\ disposed = {} /\ documents = {}
  /\ gets = [d \in Doc |-> {}] /\ emitted = [d \in Doc |-> 0]
  /\ overtaken = [d \in Doc |-> FALSE]
  /\ twice = {}

-----------------------------------------------------------------------------
(* The files                                                               *)

Rename(f, p) ==
  /\ Total([g \in File |-> Len(walk[g]) - 1]) < MaxRenames
  /\ \A g \in File : p # Where(g) /\ (Reuse \/ p \notin ToSet(walk[g]))
  /\ walk' = [walk EXCEPT ![f] = Append(@, p)]
  /\ drive' = Append(drive, [file |-> f, at |-> Len(walk'[f])])
  /\ UNCHANGED <<told, hash, registry, model, state, file, kind, listening, disposed, twice>>

\* The watcher of the file finds another path, and sets it in the shared documents.
Poll(f) ==
  /\ told[f] < Len(walk[f])
  /\ told' = [told EXCEPT ![f] = Len(walk[f])]
  /\ UNCHANGED <<walk, hash, drive, registry, model, state, file, kind, listening, disposed, twice>>

ServerSave(f) ==
  /\ Total(hash) < MaxHashes
  /\ hash' = [hash EXCEPT ![f] = @ + 1]
  /\ UNCHANGED <<walk, told, drive, registry, model, state, file, kind, listening, disposed, twice>>

-----------------------------------------------------------------------------
(* handlePathChange                                                        *)

\* (a slip: the old path stays in the list)
Pushed(list, old, new) == IF old \in list THEN list \cup {new} ELSE list
Listed(list, old, new) == IF old \in list /\ new \notin list THEN (list \ {old}) \cup {new} ELSE list

\* (a slip: the provider stays under the old key)
Kept(map, from, to) == map
Reregistered(map, from, to) == [[map EXCEPT ![to] = map[from]] EXCEPT ![from] = None]

\* One call for document d: what becomes of the registry r.  A first path has no old
\* one; another's change is none of ours; a provider that is gone cannot move.
Concerns(r, d, old) == old # None /\ old = r.path[d] /\ r.providers[<<kind[d], old>>] # None
Moved(r, d, old, new) ==
  IF ~Concerns(r, d, old) THEN r
  ELSE [path |-> [r.path EXCEPT ![d] = new],
        providers |-> Reregistered(r.providers, <<kind[d], old>>, <<kind[d], new>>),
        documents |-> Listed(r.documents, old, new)]

Registry == [path |-> path, providers |-> providers, documents |-> documents]
Becomes(r) == path' = r.path /\ providers' = r.providers /\ documents' = r.documents

\* handleFileChangedSignal of all that listen, one after the other
Signal(old, new) ==
  LET after[n \in 0 .. Len(listening)] ==
        IF n = 0 THEN Registry ELSE Moved(after[n - 1], listening[n], old, new)
  IN after[Len(listening)]

DriveSignal ==
  /\ drive # <<>>
  /\ LET f == Head(drive).file  n == Head(drive).at
     IN Becomes(Signal(walk[f][n - 1], walk[f][n]))
  /\ drive' = Tail(drive)
  /\ UNCHANGED <<walk, told, hash, model, state, file, kind, listening, disposed, twice>>

-----------------------------------------------------------------------------
(* Documents                                                               *)

\* _onCreate, for a file at its path
Create(d, f, k) ==
  /\ state[d] = "new" /\ \A e \in Doc : state[e] \in {"open", "plain"} => <<file[e], kind[e]>> # <<f, k>>
  /\ twice' = IF \E e \in Open : file[e] = f THEN twice \cup {f} ELSE twice
  /\ file' = [file EXCEPT ![d] = f] /\ kind' = [kind EXCEPT ![d] = k]

OpenDocument(d, f, k) ==
  /\ Create(d, f, k)
  /\ state' = [state EXCEPT ![d] = "open"]
  /\ path' = [path EXCEPT ![d] = Where(f)]
  /\ providers' = [providers EXCEPT ![<<k, Where(f)>>] = d]
  /\ documents' = documents \cup {Where(f)}
  /\ listening' = Append(listening, d)
  /\ UNCHANGED <<world, model, disposed>>

\* The shared model is none of Yjs: no provider can be made.
OpenPlain(d, f, k) ==
  /\ Create(d, f, k)
  /\ state' = [state EXCEPT ![d] = "plain"]
  /\ UNCHANGED <<world, registry, model, listening, disposed>>

\* sharedModel.changed, when the first or a later state arrives, of one or several
\* changes on the server: first the path, then the hash.
FetchModel(d, h) ==
  /\ gets' = [gets EXCEPT ![d] = @ \cup {h}]
  /\ overtaken' = [overtaken EXCEPT ![d] = gets[d] # {}]

\* (a slip: a change of the path is all a change tells)
HashOnly(d) == seen[d] < hash[file[d]] /\ shared[d] = told[file[d]]
NewHash(d) == seen[d] < hash[file[d]]

SharedChange(d) ==
  LET f == file[d]
      old == IF shared[d] = 0 THEN None ELSE walk[f][shared[d]]
  IN
  /\ state[d] = "open" /\ (shared[d] < told[f] \/ seen[d] < hash[f])
  /\ shared' = [shared EXCEPT ![d] = told[f]] /\ seen' = [seen EXCEPT ![d] = hash[f]]
  /\ IF shared[d] < told[f]
     THEN Becomes(Moved(Registry, d, old, walk[f][told[f]])) ELSE UNCHANGED registry
  /\ IF NewHash(d)
     THEN FetchModel(d, hash[f]) ELSE UNCHANGED <<gets, overtaken>>
  /\ UNCHANGED <<world, emitted, state, file, kind, listening, disposed, twice>>

\* The model is there: observers are told the hash it was fetched for.
Emit(d, h) ==
  /\ h \in gets[d]
  /\ gets' = [gets EXCEPT ![d] = @ \ {h}]
  /\ emitted' = [emitted EXCEPT ![d] = h]
  /\ UNCHANGED <<world, registry, shared, seen, overtaken, state, file, kind, listening, disposed, twice>>

\* Or not, since the path is the file's no more, or the connection fails.
FetchFails(d, h) ==
  /\ h \in gets[d]
  /\ gets' = [gets EXCEPT ![d] = @ \ {h}]
  /\ overtaken' = [overtaken EXCEPT ![d] = TRUE]
  /\ UNCHANGED <<world, registry, shared, seen, emitted, state, file, kind, listening, disposed, twice>>

\* sharedModel.disposed
\* (a slip: it stays in the map)
StaysInMap(d) ==
  /\ disposed' = disposed \cup ({providers[<<kind[d], path[d]>>]} \ {None})
  /\ UNCHANGED providers
Released(d) ==
  LET key == <<kind[d], path[d]>> IN
  /\ disposed' = disposed \cup ({providers[key]} \ {None})
  /\ providers' = [providers EXCEPT ![key] = None]
Close(d) ==
  /\ state[d] \in {"open", "plain"}
  /\ state' = [state EXCEPT ![d] = "closed"]
  /\ IF state[d] = "open"
     THEN /\ Released(d)
          /\ documents' = documents \ {path[d]}
          /\ \E i \in DOMAIN listening : listening[i] = d /\ listening' = RemoveAt(listening, i)
     ELSE UNCHANGED <<disposed, providers, documents, listening>>
  /\ UNCHANGED <<world, path, model, file, kind, twice>>

\* save and get go through the provider of the path they are called with, if there is
\* one, and through the REST API else.
\* (a slip: the key of another kind)
OtherChannel(k, p) == IF \E j \in Kind \ {k} : providers[<<j, p>>] # None THEN "room" ELSE "rest"
Channel(k, p) == IF providers[<<k, p>>] # None THEN "room" ELSE "rest"

Next ==
  \/ \E f \in File : Poll(f) \/ ServerSave(f) \/ \E p \in Path : Rename(f, p)
  \/ DriveSignal
  \/ \E d \in Doc :
       \/ SharedChange(d) \/ Close(d)
       \/ \E f \in File, k \in Kind : OpenDocument(d, f, k) \/ OpenPlain(d, f, k)
       \/ \E h \in gets[d] : Emit(d, h) \/ FetchFails(d, h)

Spec == Init /\ [][Next]_vars

-----------------------------------------------------------------------------
(* Properties                                                              *)

\* The drive has still to signal the rename to the n-th path of f, or some of f.
Pending(f, n) == \E i \in DOMAIN drive : drive[i] = [file |-> f, at |-> n]
Signalled(f) == \A i \in DOMAIN drive : drive[i].file # f

\* A document's key is never behind the drive, whatever the shared model told
\* before or tells late: when all is signalled it is that of the file's path.
IsAt(d, n) == n \in DOMAIN walk[file[d]] /\ path[d] = walk[file[d]][n]
NotBehind == \A d \in Open : \E n \in DOMAIN walk[file[d]] :
  IsAt(d, n) /\ \A m \in DOMAIN walk[file[d]] : m > n => Pending(file[d], m)

\* Every open document's own provider is registered under its key, and nothing else is,
\* so that it "can be disposed correctly": a provider is disposed of exactly when its
\* document is closed.
OwnProvider ==
  /\ \A d \in Open : providers[<<kind[d], path[d]>>] = d
  /\ \A key \in Kind \X Path : LET d == providers[key] IN
       d # None => d \in Open /\ key = <<kind[d], path[d]>>
  /\ disposed = {d \in Doc : state[d] = "closed" /\ path[d] # None}

\* What the registry always is
Inv == TypeOK /\ NotBehind /\ OwnProvider

\* Without reuse a path is one place of one file's walk; the server tells no more of it
\* than there is, and the drive signals the last renames of each file, in order.
WalksApart == \A f, g \in File : \A m \in DOMAIN walk[f], n \in DOMAIN walk[g] :
  walk[f][m] = walk[g][n] => f = g /\ m = n
DriveInOrder ==
  /\ \A i \in DOMAIN drive : drive[i].at \in 2 .. Len(walk[drive[i].file])
  /\ \A i, j \in DOMAIN drive : i < j /\ drive[i].file = drive[j].file => drive[i].at < drive[j].at
  /\ \A f \in File : \A m, n \in DOMAIN walk[f] : Pending(f, m) /\ m < n => Pending(f, n)
ToldInWalk == \A f \in File : told[f] \in DOMAIN walk[f]
ListKnown == \A p \in documents : \E f \in File : \E n \in DOMAIN walk[f] : p = walk[f][n]

\* Who is open listens and shows a file as a kind that no other does; who is not has no
\* part in it, and a second document of a file is noted.
Shows(d) == state[d] \in {"open", "plain"}
DocumentsApart ==
  /\ \A d \in Doc : IF state[d] = "new" THEN path[d] = None /\ shared[d] = 0 /\ seen[d] = 0
                   ELSE file[d] \in File /\ kind[d] \in Kind
  /\ \A d \in Doc : state[d] = "plain" => path[d] = None
  /\ \A d, e \in Doc : Shows(d) /\ Shows(e) /\ file[d] = file[e] /\ kind[d] = kind[e] => d = e
  /\ \A d, e \in Open : file[d] = file[e] /\ d # e => file[d] \in twice
  /\ Open = {listening[i] : i \in DOMAIN listening} /\ IsInjective(listening)
  /\ \A d \in Open : path[d] # None /\ shared[d] <= told[file[d]]

\* The last save that a document saw is being fetched for, or was told.
Fetching ==
  /\ \A d \in Open : seen[d] <= hash[file[d]]
  /\ \A d \in Doc : ~overtaken[d] => gets[d] = {seen[d]} \/ (gets[d] = {} /\ emitted[d] = seen[d])

\* save: there is a provider unless, "e.g.", "the document model is not collaborative".
\* The path of a collaborative document finds it, whether it is known by its key or from
\* the file, and its save does not go past the room, except while a rename is on its way.
SavesInRoom == \A d \in Open :
  LET f == file[d] IN
  \A p \in {path[d], Where(f)} :
    Channel(kind[d], p) = "rest" => p # path[d] /\ ~Signalled(f)

\* The list has of each file the path under which its document is known if it is open,
\* and no other that it has or had, unless two documents had the file open at a time.
ListedRight ==
  \A f \in File \ twice :
    {p \in documents : \E n \in DOMAIN walk[f] : p = walk[f][n]}
      = {path[d] : d \in {e \in Open : file[e] = f}}

\* The observers learn of each save of the server, unless a request for the model
\* overtook another or failed.
HashTold == \A d \in Open :
  seen[d] = hash[file[d]] /\ gets[d] = {} /\ ~overtaken[d] => emitted[d] = hash[file[d]]

\* The inductive invariant of the proofs
IInv ==
  /\ Inv /\ WalksApart /\ DriveInOrder /\ ToldInWalk /\ ListKnown
  /\ DocumentsApart /\ ListedRight /\ Fetching
=============================================================================
