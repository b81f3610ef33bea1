------------------------------- MODULE Sessions -------------------------------
(***************************************************************************)
(* The session store (utils.py): a file in the root directory in which a   *)
(* server records its session whenever a document is opened, so that after *)
(* a restart the clients of the session before can be let in again, if     *)
(* neither the package nor their kind of document has another version.     *)
(* A session has one record, of one kind of document: the one opened last. *)
(*                                                                         *)
(* A server is a process that is started again and again, each time with a *)
(* new session and maybe after an upgrade.  Several may share the root     *)
(* directory.  Each does an open (handlers.py) without suspending, but the *)
(* processes interleave, and any may stop at any point: the steps below    *)
(* are the accesses to the file.                                           *)
(***************************************************************************)
EXTENDS Naturals, FiniteSets

CONSTANTS
  Server,
  Client,       \* documents in browsers that were told the same session
  Kind,         \* kinds of documents
  Install,      \* what may be installed: [package, document: version of each kind]
  Cap,          \* sessions kept, 10 in the code
  MaxSessions,  \* bound on the sessions ever started
  MaxSaves,     \* bound on the records made
  None, Broken

Session == 1 .. MaxSessions

ASSUME NameAssumption ==
  None \notin Client /\ None \notin Kind /\ None \notin Session /\ None \notin Install /\ None # Broken
ASSUME InstallAssumption ==
  \A i \in Install : i.package \in Nat /\ i.document \in [Kind -> Nat]
ASSUME BoundAssumption == {Cap, MaxSessions, MaxSaves} \subseteq Nat \ {0}

Record == [version : Nat, document_version : Nat, created_at : Nat]

\* A text that is no JSON is no table of records.
ASSUME BrokenAssumption == \A S \in SUBSET Session : Broken \notin [S -> Record]

VARIABLES
  store,      \* the file: the record of each session in it, or a truncated text
  started,    \* how many sessions were started
  session,    \* each server's SERVER_SESSION, None when it is down
  pc,         \* how far it is with opening a document
  records,    \* what it is going to write
  opening,    \* the client of that document
  kind,       \* and the document's kind
  ticket,     \* each client's session id
  verdict,    \* what became of the opening that was judged last
  saves,      \* how many records were made: the time of each
  origin,     \* history: what was installed when a session started
  lastSave,   \* history: when it was last recorded
  lastKind,   \* history: and for which kind of document
  kinds,      \* history: the kinds a record was ever made for
  disturbed   \* history: a process could not read the file, or saw it, or left it,
              \* in the middle of a write

servers == <<started, session, pc, records, opening, kind, origin>>
history == <<lastSave, lastKind, kinds, disturbed>>
vars == <<store, servers, ticket, verdict, saves, history>>

NoSessions == [p \in {} |-> None]
IsTable(sessions) ==
  /\ DOMAIN sessions \subseteq Session /\ Cardinality(DOMAIN sessions) <= Cap
  /\ sessions \in [DOMAIN sessions -> Record]

\* every variable holds a value of its kind, and the file at most Cap sessions
TypeOK ==
  /\ store # Broken => IsTable(store)
  /\ started \in 0 .. MaxSessions
  /\ session \in [Server -> Session \cup {None}]
  /\ pc \in [Server -> {"idle", "load", "truncate", "write", "check"}]
  /\ DOMAIN records = Server /\ \A s \in Server : IsTable(records[s])
  /\ opening \in [Server -> Client \cup {None}]
  /\ kind \in [Server -> Kind \cup {None}]
  /\ ticket \in [Client -> Session \cup {None}]
  /\ verdict \in {"none", "accepted", "unknown_session", "version_mismatch"}
  /\ saves \in 0 .. MaxSaves
  /\ origin \in [Session -> Install \cup {None}]
  /\ lastSave \in [Session -> Nat]
  /\ lastKind \in [Session -> Kind \cup {None}]
  /\ kinds \in [Session -> SUBSET Kind]
  /\ disturbed \in BOOLEAN

Init ==
  /\ store = NoSessions
  /\ started = 0
  /\ session = [s \in Server |-> None]
  /\ pc = [s \in Server |-> "idle"]
  /\ records = [s \in Server |-> NoSessions]
  /\ opening = [s \in Server |-> None]
  /\ kind = [s \in Server |-> None]
  /\ ticket = [c \in Client |-> None]
  /\ verdict = "none"
  /\ saves = 0
  /\ origin = [p \in Session |-> None]
  /\ lastSave = [p \in Session |-> 0]
  /\ lastKind = [p \in Session |-> None]
  /\ kinds = [p \in Session |-> {}]
  /\ disturbed = FALSE

-----------------------------------------------------------------------------
Goto(s, p) == pc' = [pc EXCEPT ![s] = p]
Installed(s) == origin[session[s]]

\* A server comes up with a new SERVER_SESSION.
Start(s) ==
  /\ session[s] = None /\ started < MaxSessions
  /\ started' = started + 1
  /\ session' = [session EXCEPT ![s] = started']
  /\ \E i \in Install : origin' = [origin EXCEPT ![started'] = i]
  /\ UNCHANGED <<store, pc, records, opening, kind, ticket, verdict, saves, history>>

\* It stops, maybe in the middle of something.
Stop(s) ==
  /\ session[s] # None
  /\ session' = [session EXCEPT ![s] = None]
  /\ Goto(s, "idle")
  /\ records' = [records EXCEPT ![s] = NoSessions]
  /\ opening' = [opening EXCEPT ![s] = None]
  /\ kind' = [kind EXCEPT ![s] = None]
  /\ disturbed' = (disturbed \/ pc[s] = "write")
  /\ UNCHANGED <<store, started, origin, ticket, verdict, saves, lastSave, lastKind, kinds>>

\* DocSessionHandler tells a client that opens a document the session.
Put(c, s) ==
  /\ session[s] # None /\ pc[s] = "idle"
  /\ ticket' = [ticket EXCEPT ![c] = session[s]]
  /\ UNCHANGED <<store, servers, verdict, saves, history>>

\* A document's websocket is opened, the first time or once more, with that session.
Open(c, s, k) ==
  /\ session[s] # None /\ pc[s] = "idle" /\ ticket[c] # None
  /\ saves < MaxSaves
  /\ opening' = [opening EXCEPT ![s] = c]
  /\ kind' = [kind EXCEPT ![s] = k]
  /\ Goto(s, "load")
  /\ UNCHANGED <<store, started, session, records, origin, ticket, verdict, saves, history>>

-----------------------------------------------------------------------------
(* save_current_session                                                    *)

\* _load_previous_sessions takes a text that is no JSON, and a file that it cannot read,
\* for no sessions.
Previous == IF store = Broken THEN NoSessions ELSE store
Loaded == {Previous, NoSessions}
Capped(sessions) ==
  IF Cardinality(DOMAIN sessions) <= Cap THEN sessions
  ELSE LET oldest == CHOOSE p \in DOMAIN sessions :
                       \A q \in DOMAIN sessions : sessions[p].created_at <= sessions[q].created_at
       IN [p \in DOMAIN sessions \ {oldest} |-> sessions[p]]

\* The record has the version of the kind of document being opened.
Entry(s) == [version |-> Installed(s).package,
             document_version |-> Installed(s).document[kind[s]],
             created_at |-> saves']
\* (a slip: the records of the sessions before are not kept)
OwnEntry(s, previous) == [p \in {session[s]} |-> Entry(s)]
\* (a slip: it is made for the session of the client)
TicketEntry(s, previous) == LET q == ticket[opening[s]] IN
  [p \in DOMAIN previous \cup {q} |-> IF p = q THEN Entry(s) ELSE previous[p]]
WithEntry(s, previous) ==
  [p \in DOMAIN previous \cup {session[s]} |-> IF p = session[s] THEN Entry(s) ELSE previous[p]]

Overlapped(s) == \E t \in Server \ {s} : pc[t] \in {"truncate", "write"}

Load(s) ==
  /\ pc[s] = "load"
  /\ saves < MaxSaves /\ saves' = saves + 1
  /\ \E previous \in Loaded :
       /\ records' = [records EXCEPT ![s] = Capped(WithEntry(s, previous))]
       /\ disturbed' = (disturbed \/ Overlapped(s) \/ previous # Previous)
  /\ kinds' = [kinds EXCEPT ![session[s]] = @ \cup {kind[s]}]
  /\ Goto(s, "truncate")
  /\ UNCHANGED <<store, started, session, opening, kind, origin, ticket, verdict, lastSave, lastKind>>

\* The file is opened for writing ...
Truncate(s) ==
  /\ pc[s] = "truncate"
  /\ store' = Broken
  /\ Goto(s, "write")
  /\ UNCHANGED <<started, session, records, opening, kind, origin, ticket, verdict, saves, history>>

\* ... or cannot be, or not be filled: the error is ignored.
NotWritable(s) ==
  /\ pc[s] \in {"truncate", "write"}
  /\ disturbed' = (disturbed \/ pc[s] = "write")
  /\ Goto(s, "check")
  /\ UNCHANGED <<store, started, session, records, opening, kind, origin, ticket, verdict, saves,
                 lastSave, lastKind, kinds>>

Write(s) ==
  /\ pc[s] = "write"
  /\ store' = records[s]
  /\ lastSave' = [lastSave EXCEPT ![session[s]] = saves]
  /\ lastKind' = [lastKind EXCEPT ![session[s]] = kind[s]]
  /\ Goto(s, "check")
  /\ UNCHANGED <<started, session, records, opening, kind, origin, ticket, verdict, saves, kinds, disturbed>>

-----------------------------------------------------------------------------
(* check_session_compatibility                                             *)

\* (a slip: the version of the package alone decides)
SamePackage(p, s, previous) == previous[p].version = Installed(s).package
SameVersions(p, s, previous) ==
  /\ previous[p].version = Installed(s).package
  /\ previous[p].document_version = Installed(s).document[kind[s]]

Compatibility(p, s, previous) ==
  IF p = session[s] THEN "accepted"
  ELSE IF p \notin DOMAIN previous THEN "unknown_session"
  ELSE IF SameVersions(p, s, previous) THEN "accepted" ELSE "version_mismatch"

Check(s) ==
  /\ pc[s] = "check"
  /\ \E previous \in Loaded :
       /\ verdict' = Compatibility(ticket[opening[s]], s, previous)
       /\ disturbed' = (disturbed \/ Overlapped(s) \/ previous # Previous)
  /\ opening' = [opening EXCEPT ![s] = None]
  /\ kind' = [kind EXCEPT ![s] = None]
  /\ records' = [records EXCEPT ![s] = NoSessions]
  /\ Goto(s, "idle")
  /\ UNCHANGED <<store, started, session, origin, ticket, saves, lastSave, lastKind, kinds>>

Next == \E s \in Server :
  \/ Start(s) \/ Stop(s) \/ Load(s) \/ Truncate(s) \/ NotWritable(s) \/ Write(s) \/ Check(s)
  \/ \E c \in Client : Put(c, s) \/ \E k \in Kind : Open(c, s, k)

Spec == Init /\ [][Next]_vars

-----------------------------------------------------------------------------
(* Properties                                                              *)

\* A record has the package's version of its session, and its version of a kind of
\* document that was opened in it, one of K.
Honest(sessions, K) == \A p \in DOMAIN sessions :
  /\ origin[p] # None
  /\ sessions[p].version = origin[p].package
  /\ \E k \in K[p] : sessions[p].document_version = origin[p].document[k]

\* What a server is going to write is honest as well as the file, although it writes the
\* records of others from memory, long after it has read them.
HonestRecords ==
  /\ store # Broken => Honest(store, kinds)
  /\ \A s \in Server : Honest(records[s], kinds)

Saving(s) == pc[s] \in {"truncate", "write"}

\* Only a server that runs opens documents, for clients that were told a session, and
\* a session that has started has its installation for good.
RunningInv == \A s \in Server :
  /\ session[s] # None => session[s] <= started
  /\ pc[s] # "idle" =>
       /\ session[s] # None /\ kind[s] # None
       /\ opening[s] # None /\ ticket[opening[s]] # None
  /\ Saving(s) => kind[s] \in kinds[session[s]]
OriginInv == \A p \in Session : origin[p] # None <=> p <= started
TicketInv == \A c \in Client : ticket[c] # None => ticket[c] <= started

\* The file is never wrong about a session, whoever reads, writes or truncates it
\* (save_current_session).
TrueInv == TypeOK /\ RunningInv /\ OriginInv /\ TicketInv /\ HonestRecords

\* As long as no process got in the way of another, the last records of the sessions
\* were made at the times L for documents of the kinds K, and a table has them all but
\* those with Cap after them.
Later(L, p) == {q \in Session : L[q] > L[p]}
Recalled(sessions, L, K) ==
  /\ \A p \in DOMAIN sessions :
       /\ sessions[p].created_at = L[p] /\ L[p] > 0
       /\ sessions[p].document_version = origin[p].document[K[p]]
  /\ \A p \in Session \ DOMAIN sessions : L[p] > 0 => Cardinality(Later(L, p)) >= Cap

\* One server at a time is between its reading and its writing, the file is truncated
\* only by that one, and what it is going to write has its own session as the latest.
Times == \A p \in Session : /\ lastSave[p] <= saves
                           /\ \A q \in Session : lastSave[p] = lastSave[q] /\ p # q => lastSave[p] = 0
OneSaves == \A s, t \in Server : Saving(s) /\ Saving(t) => s = t
FileRecalled == IF store = Broken THEN \E s \in Server : pc[s] = "write"
                                  ELSE Recalled(store, lastSave, lastKind)
WillRecall == \A s \in Server : Saving(s) =>
  /\ \A p \in Session : lastSave[p] < saves
  /\ Recalled(records[s], [lastSave EXCEPT ![session[s]] = saves],
                          [lastKind EXCEPT ![session[s]] = kind[s]])
Undisturbed == Times /\ OneSaves /\ FileRecalled /\ WillRecall

\* The inductive invariant of the proofs
IInv == TrueInv /\ (~disturbed => Undisturbed)

Judged(c, s) == pc[s] = "check" /\ pc'[s] = "idle" /\ session'[s] # None /\ opening[s] = c

\* The session of client c and server s have the same package, and the kind k had then
\* the version that the kind of the document being opened has now.
Same(c, s, k) == LET i == origin[ticket[c]] IN
  i.package = Installed(s).package /\ i.document[k] = Installed(s).document[kind[s]]

\* No client is let in whose session had another version of the package, or none of whose
\* documents had the version that its own has now, whoever shares, truncates or loses
\* the file (check_session_compatibility).
AcceptedCurrent ==
  [][\A s \in Server, c \in Client :
       Judged(c, s) /\ verdict' = "accepted" =>
         ticket[c] = session[s] \/ \E k \in kinds[ticket[c]] : Same(c, s, k)]_vars

\* utils.py: "Same directory + same versions -> safe to reconnect".  A client is refused
\* only if the package of its session, or the document that was opened last in it, had
\* another version, if it was never recorded, or if Cap sessions were after it; unless
\* two processes got in each other's way, one stopped while it wrote or could not read.
Forgotten(p) == lastSave[p] = 0 \/ Cardinality(Later(lastSave, p)) >= Cap
RefusedForCause ==
  [][\A s \in Server, c \in Client :
       Judged(c, s) /\ verdict' # "accepted" =>
         \/ Forgotten(ticket[c]) \/ ~Same(c, s, lastKind[ticket[c]])
         \/ disturbed']_vars
=============================================================================
