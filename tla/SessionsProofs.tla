---------------------------- MODULE SessionsProofs ----------------------------
(* Theorems about Sessions for any servers, clients, installations and     *)
(* bounds.                                                                 *)
EXTENDS Sessions, FiniteSetTheorems, WellFoundedInduction, TLAPS

USE NameAssumption, InstallAssumption, BoundAssumption

-----------------------------------------------------------------------------
(* The oldest record goes: there is one, and without it Cap are left       *)

\* A set of natural numbers that is not empty has a least one.
LEMMA Least ==
  ASSUME NEW T, T \subseteq Nat, T # {}
  PROVE  \E x \in T : \A y \in T : x <= y
<1> DEFINE Less == {ss \in Nat \X Nat : ss[1] < ss[2]}
<1>1. IsWellFoundedOn(Less, Nat)
  BY NatLessThanWellFounded DEF OpToRel
<1>2. \A x, y \in Nat : <<y, x>> \notin Less => x <= y
  OBVIOUS
<1> HIDE DEF Less
<1>3. PICK x \in T : \A y \in T : <<y, x>> \notin Less
  BY <1>1, WFMin
<1>4. ASSUME NEW y \in T PROVE x <= y
  BY <1>2, <1>3
<1> QED
  BY <1>4

\* The sessions that may be recorded are finitely many.
LEMMA SessionsFinite ==
  ASSUME NEW S, S \subseteq Session
  PROVE  IsFiniteSet(S) /\ Cardinality(S) \in Nat
<1>1. IsFiniteSet(Session)
  BY FS_Interval DEF Session
<1> QED
  BY <1>1, FS_Subset, FS_CardinalityType

\* One more record than Cap is dropped again, and the others stay as they are.
LEMMA CappedTable ==
  ASSUME NEW f, DOMAIN f \subseteq Session, f \in [DOMAIN f -> Record],
         Cardinality(DOMAIN f) <= Cap + 1
  PROVE  /\ IsTable(Capped(f))
         /\ DOMAIN Capped(f) \subseteq DOMAIN f
         /\ \A p \in DOMAIN Capped(f) : Capped(f)[p] = f[p]
<1>1. CASE Cardinality(DOMAIN f) <= Cap
  BY <1>1 DEF Capped, IsTable
<1>2. CASE ~(Cardinality(DOMAIN f) <= Cap)
  <2> DEFINE Oldest(p) == \A q \in DOMAIN f : f[p].created_at <= f[q].created_at
             oldest == CHOOSE p \in DOMAIN f : Oldest(p)
             times == {f[p].created_at : p \in DOMAIN f}
  <2>1. IsFiniteSet(DOMAIN f) /\ Cardinality(DOMAIN f) \in Nat
    BY SessionsFinite
  <2>2. DOMAIN f # {}
    BY <1>2, <2>1, FS_EmptySet
  <2>3. \A p \in DOMAIN f : f[p].created_at \in Nat
    BY DEF Record
  <2>4. times \subseteq Nat /\ times # {}
    BY <2>2, <2>3
  <2>5. PICK x \in times : \A y \in times : x <= y
    BY <2>4, Least
  <2>6. \E p \in DOMAIN f : Oldest(p)
    BY <2>5
  <2>7. oldest \in DOMAIN f
    BY <2>6
  <2>8. Cardinality(DOMAIN f \ {oldest}) = Cardinality(DOMAIN f) - 1
    BY <2>1, <2>7, FS_RemoveElement
  <2>9. Capped(f) = [p \in DOMAIN f \ {oldest} |-> f[p]]
    BY <1>2 DEF Capped
  <2> HIDE DEF oldest
  <2> QED
    BY <2>1, <2>8, <2>9 DEF IsTable
<1> QED
  BY <1>1, <1>2

-----------------------------------------------------------------------------
(* The tables that are read and made                                       *)

\* An empty table is a true one.
LEMMA NoSessionsTable == IsTable(NoSessions) /\ \A K : Honest(NoSessions, K)
BY FS_EmptySet DEF IsTable, NoSessions, Honest

\* A file that is truncated or cannot be read counts as an empty one.
LEMMA PreviousTable ==
  ASSUME TypeOK, HonestRecords, NEW previous \in Loaded
  PROVE  IsTable(previous) /\ Honest(previous, kinds)
BY NoSessionsTable DEF TypeOK, HonestRecords, Previous, Loaded

\* What a server of session p has installed is well formed.
LEMMA InstalledType ==
  ASSUME TypeOK, RunningInv, OriginInv, NEW s \in Server, session[s] # None
  PROVE  /\ session[s] \in Session /\ origin[session[s]] # None
         /\ Installed(s) \in Install
         /\ Installed(s).package \in Nat /\ Installed(s).document \in [Kind -> Nat]
<1>1. session[s] \in Session /\ session[s] <= started
  BY DEF TypeOK, RunningInv
<1>2. origin[session[s]] # None
  BY <1>1 DEF OriginInv
<1>3. Installed(s) \in Install
  BY <1>1, <1>2 DEF TypeOK, Installed
<1> QED
  BY <1>1, <1>2, <1>3

\* The record a server makes is well formed and true.
LEMMA EntryHonest ==
  ASSUME TypeOK, RunningInv, OriginInv, NEW s \in Server, pc[s] # "idle", saves' \in Nat
  PROVE  /\ Entry(s) \in Record
         /\ Entry(s).version = Installed(s).package
         /\ Entry(s).document_version = Installed(s).document[kind[s]]
<1>1. session[s] # None /\ kind[s] \in Kind
  BY DEF TypeOK, RunningInv
<1>2. Installed(s).package \in Nat /\ Installed(s).document \in [Kind -> Nat]
  BY <1>1, InstalledType
<1> QED
  BY <1>1, <1>2 DEF Entry, Record

MoreKinds(s) == [kinds EXCEPT ![session[s]] = @ \cup {kind[s]}]

\* With it the table has at most one record more than the file, and every other as it was.
LEMMA ExtendedTable ==
  ASSUME TypeOK, RunningInv, OriginInv, HonestRecords, NEW previous \in Loaded,
         NEW s \in Server, pc[s] # "idle", saves' \in Nat
  PROVE  /\ session[s] \in Session
         /\ DOMAIN WithEntry(s, previous) = DOMAIN previous \cup {session[s]}
         /\ DOMAIN WithEntry(s, previous) \subseteq Session
         /\ WithEntry(s, previous) \in [DOMAIN WithEntry(s, previous) -> Record]
         /\ Cardinality(DOMAIN WithEntry(s, previous)) <= Cap + 1
         /\ Honest(WithEntry(s, previous), MoreKinds(s))
<1> DEFINE f == WithEntry(s, previous)
<1>1. IsTable(previous) /\ Honest(previous, kinds)
  BY PreviousTable
<1>2. session[s] # None /\ session[s] \in Session /\ origin[session[s]] # None
  BY InstalledType DEF RunningInv
<1>3. /\ Entry(s) \in Record
      /\ Entry(s).version = Installed(s).package
      /\ Entry(s).document_version = Installed(s).document[kind[s]]
  BY EntryHonest
<1>4. DOMAIN f = DOMAIN previous \cup {session[s]} /\ DOMAIN f \subseteq Session
  BY <1>1, <1>2 DEF WithEntry, IsTable
<1>5. f \in [DOMAIN f -> Record]
  BY <1>1, <1>3, <1>4 DEF WithEntry, IsTable
<1>6. Cardinality(DOMAIN f) <= Cap + 1
  <2>1. IsFiniteSet(DOMAIN previous) /\ Cardinality(DOMAIN previous) \in Nat
    BY <1>1, SessionsFinite DEF IsTable
  <2>2. Cardinality(DOMAIN f) <= Cardinality(DOMAIN previous) + 1
    <3>1. CASE session[s] \in DOMAIN previous
      <4>1. DOMAIN f = DOMAIN previous
        BY <1>4, <3>1
      <4> QED
        BY <2>1, <4>1
    <3>2. CASE session[s] \notin DOMAIN previous
      <4>1. Cardinality(DOMAIN previous \cup {session[s]}) = Cardinality(DOMAIN previous) + 1
        BY <2>1, <3>2, FS_AddElement
      <4> QED
        BY <1>4, <2>1, <4>1
    <3> QED
      BY <3>1, <3>2
  <2>3. Cardinality(DOMAIN f) \in Nat
    BY <1>4, SessionsFinite
  <2> HIDE DEF f
  <2> QED
    BY <1>1, <2>1, <2>2, <2>3 DEF IsTable
<1>7. Honest(f, MoreKinds(s))
  <2>1. /\ MoreKinds(s)[session[s]] = kinds[session[s]] \cup {kind[s]}
        /\ \A p \in Session : kinds[p] \subseteq MoreKinds(s)[p]
    BY <1>2 DEF MoreKinds, TypeOK
  <2> QED
    BY <1>1, <1>2, <1>3, <1>4, <2>1 DEF Honest, WithEntry, Installed
<1> QED
  BY <1>2, <1>4, <1>5, <1>6, <1>7

\* So is the table it is going to write.
LEMMA LoadedTable ==
  ASSUME TypeOK, RunningInv, OriginInv, HonestRecords, NEW previous \in Loaded,
         NEW s \in Server, pc[s] # "idle", saves' \in Nat
  PROVE  /\ IsTable(Capped(WithEntry(s, previous)))
         /\ Honest(Capped(WithEntry(s, previous)), MoreKinds(s))
<1> DEFINE f == WithEntry(s, previous)
<1>1. /\ DOMAIN f \subseteq Session /\ f \in [DOMAIN f -> Record]
      /\ Cardinality(DOMAIN f) <= Cap + 1 /\ Honest(f, MoreKinds(s))
  BY ExtendedTable
<1> HIDE DEF f
<1>2. /\ IsTable(Capped(f)) /\ DOMAIN Capped(f) \subseteq DOMAIN f
      /\ \A p \in DOMAIN Capped(f) : Capped(f)[p] = f[p]
  BY <1>1, CappedTable
<1>3. Honest(Capped(f), MoreKinds(s))
  BY <1>1, <1>2 DEF Honest
<1> QED
  BY <1>2, <1>3 DEF f

-----------------------------------------------------------------------------
(* The tables stay true                                                    *)

\* The file is empty when the first server starts.
LEMMA InitTrue == Init => TrueInv
<1> SUFFICES ASSUME Init PROVE TrueInv
  OBVIOUS
<1>1. TypeOK
  <2>1. IsTable(store) /\ DOMAIN records = Server /\ \A s \in Server : IsTable(records[s])
    BY NoSessionsTable DEF Init
  <2>2. MaxSessions \in Nat /\ MaxSaves \in Nat
    OBVIOUS
  <2>3. started \in 0 .. MaxSessions /\ saves \in 0 .. MaxSaves /\ disturbed \in BOOLEAN
    <3>1. 0 \in 0 .. MaxSessions /\ 0 \in 0 .. MaxSaves
      BY <2>2
    <3> QED
      BY <3>1 DEF Init
  <2>4. /\ session \in [Server -> Session \cup {None}]
        /\ pc \in [Server -> {"idle", "load", "truncate", "write", "check"}]
        /\ opening \in [Server -> Client \cup {None}] /\ kind \in [Server -> Kind \cup {None}]
    BY DEF Init
  <2>5. /\ ticket \in [Client -> Session \cup {None}]
        /\ verdict \in {"none", "accepted", "unknown_session", "version_mismatch"}
    BY DEF Init
  <2>6. /\ origin \in [Session -> Install \cup {None}] /\ lastSave \in [Session -> Nat]
        /\ lastKind \in [Session -> Kind \cup {None}] /\ kinds \in [Session -> SUBSET Kind]
    BY DEF Init
  <2> QED
    BY <2>1, <2>3, <2>4, <2>5, <2>6 DEF TypeOK
<1> QED
  BY <1>1, NoSessionsTable
     DEF Init, TrueInv, RunningInv, OriginInv, TicketInv, HonestRecords, Session, Saving

\* A new session gets its installation, and keeps those of the ones before.
LEMMA StartStep ==
  ASSUME TrueInv, NEW s \in Server, Start(s)
  PROVE  TrueInv'
<1> USE DEF TrueInv
<1>1. started' = started + 1 /\ started' \in Session /\ started \in Nat
  BY DEF Start, TypeOK, Session
<1>2. PICK i \in Install : origin' = [origin EXCEPT ![started'] = i]
  BY DEF Start
<1>3. origin'[started'] # None /\ \A p \in Session : p # started' => origin'[p] = origin[p]
  BY <1>1, <1>2 DEF TypeOK
<1>4. UNCHANGED <<store, pc, records, opening, ticket, kind, verdict, saves, lastSave, lastKind,
                  kinds, disturbed>>
  BY DEF Start, history
<1>5. session' = [session EXCEPT ![s] = started']
  BY DEF Start
<1>6. TypeOK'
  <2>1. origin' \in [Session -> Install \cup {None}]
    BY <1>1, <1>2 DEF TypeOK
  <2>2. session' \in [Server -> Session \cup {None}] /\ started' \in 0 .. MaxSessions
    BY <1>1, <1>5 DEF TypeOK, Session
  <2> QED
    BY <1>4, <2>1, <2>2 DEF TypeOK, IsTable
<1>7. RunningInv'
  <2>1. session[s] = None /\ started' # None
    BY <1>1 DEF Start
  <2> QED
    BY <1>1, <1>4, <1>5, <2>1 DEF TypeOK, RunningInv, Session, Saving
<1>8. OriginInv'
  BY <1>1, <1>3 DEF OriginInv, Session
<1>9. TicketInv'
  BY <1>1, <1>4 DEF TicketInv, TypeOK, Session
<1>10. HonestRecords'
  <2>1. \A f : IsTable(f) /\ Honest(f, kinds) => Honest(f, kinds)'
    <3> SUFFICES ASSUME NEW f, IsTable(f), Honest(f, kinds), NEW p \in DOMAIN f
                 PROVE  /\ origin'[p] # None /\ f[p].version = origin'[p].package
                        /\ \E k \in kinds[p] : f[p].document_version = origin'[p].document[k]
      BY <1>4 DEF Honest
    <3>1. p \in Session /\ origin[p] # None
      BY DEF Honest, IsTable
    <3>2. p # started'
      BY <1>1, <3>1 DEF OriginInv, Session
    <3> QED
      BY <1>3, <3>1, <3>2 DEF Honest
  <2> QED
    BY <1>4, <2>1 DEF HonestRecords, TypeOK
<1> QED
  BY <1>6, <1>7, <1>8, <1>9, <1>10

\* A step of opening a document that leaves the store and its versions as they are.
LEMMA KeepsTables ==
  ASSUME HonestRecords, UNCHANGED <<store, origin, kinds>>,
         \A s \in Server : records'[s] \in {records[s], NoSessions}
  PROVE  HonestRecords'
<1>1. \A f : Honest(f, kinds) => Honest(f, kinds)'
  BY DEF Honest
<1>2. \A s \in Server : Honest(records'[s], kinds)
  BY NoSessionsTable DEF HonestRecords
<1> QED
  BY <1>1, <1>2 DEF HonestRecords

\* A server that stops forgets what it was going to write.
LEMMA StopStep ==
  ASSUME TrueInv, NEW s \in Server, Stop(s)
  PROVE  TrueInv'
<1> USE DEF TrueInv, Stop, Goto
<1>1. \A t \in Server : records'[t] = (IF t = s THEN NoSessions ELSE records[t])
  BY DEF TypeOK
<1>2. TypeOK'
  BY <1>1, NoSessionsTable DEF TypeOK, IsTable
<1>3. RunningInv'
  BY DEF RunningInv, TypeOK, Saving
<1>4. OriginInv' /\ TicketInv'
  BY DEF OriginInv, TicketInv
<1>5. HonestRecords'
  BY <1>1, KeepsTables
<1> QED
  BY <1>2, <1>3, <1>4, <1>5

\* The session a client is told is one that has started.
LEMMA PutStep ==
  ASSUME TrueInv, NEW s \in Server, NEW c \in Client, Put(c, s)
  PROVE  TrueInv'
<1> USE DEF TrueInv, Put, servers, history
<1>1. TypeOK'
  BY DEF TypeOK, IsTable
<1>2. RunningInv'
  BY DEF RunningInv, TypeOK, Saving
<1>3. OriginInv' /\ TicketInv'
  BY DEF OriginInv, TicketInv, TypeOK, RunningInv
<1>4. HonestRecords'
  BY KeepsTables
<1> QED
  BY <1>1, <1>2, <1>3, <1>4

\* Only a client that has been told one opens a document.
LEMMA OpenStep ==
  ASSUME TrueInv, NEW s \in Server, NEW c \in Client, NEW k \in Kind, Open(c, s, k)
  PROVE  TrueInv'
<1> USE DEF TrueInv, Open, Goto, history
<1>1. TypeOK'
  BY DEF TypeOK, IsTable
<1>2. RunningInv'
  BY DEF RunningInv, TypeOK, Saving
<1>3. OriginInv' /\ TicketInv'
  BY DEF OriginInv, TicketInv
<1>4. HonestRecords'
  BY KeepsTables
<1> QED
  BY <1>1, <1>2, <1>3, <1>4

\* The table that is loaded and extended is true.
LEMMA LoadStep ==
  ASSUME TrueInv, NEW s \in Server, Load(s)
  PROVE  TrueInv'
<1> USE DEF TrueInv, Load, Goto
<1>1. saves' \in 0 .. MaxSaves
  BY DEF TypeOK
<1>2. PICK previous \in Loaded :
        /\ records' = [records EXCEPT ![s] = Capped(WithEntry(s, previous))]
        /\ disturbed' = (disturbed \/ Overlapped(s) \/ previous # Previous)
  OBVIOUS
<1>3. PICK table : table = Capped(WithEntry(s, previous))
  OBVIOUS
<1>4. IsTable(table) /\ Honest(table, kinds')
  <2>1. kinds' = MoreKinds(s)
    BY DEF MoreKinds
  <2>2. pc[s] # "idle" /\ saves' \in Nat
    BY <1>1
  <2> HIDE DEF Load
  <2> QED
    BY <1>3, <2>1, <2>2, LoadedTable
<1>5. \A t \in Server : records'[t] = (IF t = s THEN table ELSE records[t])
  BY <1>2, <1>3 DEF TypeOK
<1>6. session[s] \in Session /\ kind[s] \in Kind
  BY DEF RunningInv, TypeOK
<1>7. kinds' \in [Session -> SUBSET Kind] /\ kind[s] \in kinds'[session[s]]
      /\ \A p \in Session : kinds[p] \subseteq kinds'[p]
  BY <1>6 DEF TypeOK
<1>8. TypeOK'
  BY <1>1, <1>2, <1>4, <1>5, <1>7 DEF TypeOK, IsTable
<1>9. RunningInv'
  BY <1>6, <1>7 DEF RunningInv, TypeOK, Saving
<1>10. OriginInv' /\ TicketInv'
  BY DEF OriginInv, TicketInv
<1>11. HonestRecords'
  <2>1. UNCHANGED <<store, origin>>
    OBVIOUS
  <2> HIDE DEF Load
  <2>2. \A f : IsTable(f) /\ Honest(f, kinds) => Honest(f, kinds')
    BY <1>7 DEF Honest, IsTable
  <2>3. \A f : Honest(f, kinds') => Honest(f, kinds)'
    BY <2>1 DEF Honest
  <2>4. store # Broken => Honest(store, kinds)'
    BY <2>1, <2>2, <2>3 DEF HonestRecords, TypeOK
  <2>5. \A t \in Server : Honest(records'[t], kinds')
    BY <1>4, <1>5, <2>2 DEF HonestRecords, TypeOK
  <2> QED
    BY <2>1, <2>3, <2>4, <2>5 DEF HonestRecords
<1> QED
  BY <1>8, <1>9, <1>10, <1>11

\* The file changes: it is emptied, or gets the table the server made.
LEMMA FileStep ==
  ASSUME TrueInv, NEW s \in Server, Truncate(s) \/ NotWritable(s) \/ Write(s)
  PROVE  TrueInv'
<1> USE DEF TrueInv, Truncate, NotWritable, Write, Goto, history
<1>1. UNCHANGED <<started, session, records, opening, origin, ticket, kind, kinds, verdict, saves>>
  OBVIOUS
<1>2. store' \in {store, Broken, records[s]}
  OBVIOUS
<1>3. pc' \in [Server -> {"idle", "load", "truncate", "write", "check"}]
      /\ pc[s] # "idle" /\ \A t \in Server : t # s => pc'[t] = pc[t]
  BY DEF TypeOK
<1>4. /\ lastSave' \in [Session -> Nat] /\ lastKind' \in [Session -> Kind \cup {None}]
      /\ disturbed' \in BOOLEAN
  <2>1. session[s] \in Session /\ kind[s] \in Kind
    BY <1>3 DEF RunningInv, TypeOK
  <2>2. saves \in Nat
    BY DEF TypeOK
  <2>3. /\ lastSave' \in {lastSave, [lastSave EXCEPT ![session[s]] = saves]}
        /\ lastKind' \in {lastKind, [lastKind EXCEPT ![session[s]] = kind[s]]}
    OBVIOUS
  <2>4. disturbed' \in {disturbed, TRUE}
    <3>1. CASE NotWritable(s)
      BY <3>1 DEF TypeOK
    <3>2. CASE ~NotWritable(s)
      BY <3>2
    <3> QED
      BY <3>1, <3>2
  <2> HIDE DEF Truncate, NotWritable, Write
  <2>5. lastSave' \in [Session -> Nat]
    BY <2>1, <2>2, <2>3 DEF TypeOK
  <2>6. lastKind' \in [Session -> Kind \cup {None}]
    BY <2>1, <2>3 DEF TypeOK
  <2>7. disturbed' \in BOOLEAN
    BY <2>4 DEF TypeOK
  <2> QED
    BY <2>5, <2>6, <2>7
<1>5. TypeOK'
  <2>1. store' # Broken => IsTable(store')
    BY <1>2 DEF TypeOK
  <2> QED
    BY <1>1, <1>3, <1>4, <2>1 DEF TypeOK, IsTable
<1>6. RunningInv'
  <2>1. \A t \in Server : Saving(t)' => Saving(t)
    BY <1>3 DEF Saving
  <2> QED
    BY <1>1, <1>3, <2>1 DEF RunningInv
<1>7. OriginInv' /\ TicketInv'
  BY <1>1 DEF OriginInv, TicketInv
<1>8. HonestRecords'
  <2>1. \A f : Honest(f, kinds) => Honest(f, kinds)'
    BY <1>1 DEF Honest
  <2> QED
    BY <1>1, <1>2, <2>1 DEF HonestRecords
<1> QED
  BY <1>5, <1>6, <1>7, <1>8

\* The check leaves the file alone.
LEMMA CheckStep ==
  ASSUME TrueInv, NEW s \in Server, Check(s)
  PROVE  TrueInv'
<1> USE DEF TrueInv, Check, Goto
<1>1. \A t \in Server : records'[t] = (IF t = s THEN NoSessions ELSE records[t])
  BY DEF TypeOK
<1>2. TypeOK'
  <2>1. PICK previous \in Loaded :
          /\ verdict' = Compatibility(ticket[opening[s]], s, previous)
          /\ disturbed' = (disturbed \/ Overlapped(s) \/ previous # Previous)
    OBVIOUS
  <2> HIDE DEF Check
  <2>2. /\ verdict' \in {"none", "accepted", "unknown_session", "version_mismatch"}
        /\ disturbed' \in BOOLEAN
    BY <2>1 DEF Compatibility
  <2> QED
    BY <1>1, <2>2, NoSessionsTable DEF TypeOK, IsTable, Check
<1>3. RunningInv'
  BY DEF RunningInv, TypeOK, Saving
<1>4. OriginInv' /\ TicketInv'
  BY DEF OriginInv, TicketInv
<1>5. HonestRecords'
  BY <1>1, KeepsTables
<1> QED
  BY <1>2, <1>3, <1>4, <1>5

\* Every step keeps the tables true.
LEMMA StaysTrue == TrueInv /\ [Next]_vars => TrueInv'
<1> SUFFICES ASSUME TrueInv, [Next]_vars PROVE TrueInv'
  OBVIOUS
<1>1. CASE UNCHANGED vars
  <2>1. \A f : Honest(f, kinds) => Honest(f, kinds)'
    BY <1>1 DEF vars, servers, history, Honest
  <2>2. TypeOK'
    BY <1>1 DEF TrueInv, TypeOK, IsTable, vars, servers, history
  <2>3. RunningInv' /\ OriginInv' /\ TicketInv'
    BY <1>1 DEF TrueInv, RunningInv, OriginInv, TicketInv, vars, servers, history, Saving
  <2>4. HonestRecords'
    BY <1>1, <2>1 DEF TrueInv, HonestRecords, vars, servers
  <2> QED
    BY <2>2, <2>3, <2>4 DEF TrueInv
<1>2. ASSUME NEW s \in Server,
             \/ Start(s) \/ Stop(s) \/ Load(s) \/ Truncate(s) \/ NotWritable(s) \/ Write(s) \/ Check(s)
             \/ \E c \in Client : Put(c, s) \/ \E k \in Kind : Open(c, s, k)
      PROVE  TrueInv'
  BY <1>2, StartStep, StopStep, PutStep, OpenStep, LoadStep, FileStep, CheckStep
<1> QED
  BY <1>1, <1>2 DEF Next

-----------------------------------------------------------------------------
(* Undisturbed servers forget nothing                                      *)

\* More sessions are later than fewer.
LEMMA MoreSessions ==
  ASSUME NEW S, NEW T, S \subseteq T, T \subseteq Session
  PROVE  Cardinality(S) <= Cardinality(T)
BY SessionsFinite, FS_Subset

\* The record that is dropped has Cap later ones.
LEMMA CappedRecalls ==
  ASSUME NEW f, DOMAIN f \subseteq Session, f \in [DOMAIN f -> Record],
         Cardinality(DOMAIN f) <= Cap + 1,
         NEW L \in [Session -> Nat], NEW K, Recalled(f, L, K),
         \A p, q \in Session : L[p] = L[q] /\ p # q => L[p] = 0
  PROVE  Recalled(Capped(f), L, K)
<1>1. CASE Cardinality(DOMAIN f) <= Cap
  BY <1>1 DEF Capped
<1>2. CASE ~(Cardinality(DOMAIN f) <= Cap)
  <2> DEFINE Oldest(p) == \A q \in DOMAIN f : f[p].created_at <= f[q].created_at
             oldest == CHOOSE p \in DOMAIN f : Oldest(p)
             times == {f[p].created_at : p \in DOMAIN f}
  <2>1. IsFiniteSet(DOMAIN f) /\ Cardinality(DOMAIN f) \in Nat
    BY SessionsFinite
  <2>2. times \subseteq Nat /\ times # {}
    BY <1>2, <2>1, FS_EmptySet DEF Record
  <2>3. PICK x \in times : \A y \in times : x <= y
    BY <2>2, Least
  <2>4. \E p \in DOMAIN f : Oldest(p)
    BY <2>3
  <2>5. oldest \in DOMAIN f /\ Oldest(oldest)
    BY <2>4
  <2>6. Capped(f) = [p \in DOMAIN f \ {oldest} |-> f[p]]
    BY <1>2 DEF Capped
  <2> HIDE DEF oldest
  <2>7. Cardinality(DOMAIN f \ {oldest}) = Cap
    <3>1. Cardinality(DOMAIN f \ {oldest}) = Cardinality(DOMAIN f) - 1
      BY <2>1, <2>5, FS_RemoveElement
    <3>2. Cardinality(DOMAIN f) = Cap + 1
      BY <1>2, <2>1
    <3> QED
      BY <3>1, <3>2
  <2>8. DOMAIN f \ {oldest} \subseteq Later(L, oldest)
    <3>1. \A q \in DOMAIN f : q \in Session /\ f[q].created_at = L[q] /\ L[q] > 0
      BY DEF Recalled
    <3>2. \A q \in DOMAIN f \ {oldest} : L[q] # L[oldest] /\ L[q] \in Nat /\ L[oldest] \in Nat
      BY <2>5, <3>1
    <3> QED
      BY <2>5, <3>1, <3>2 DEF Later
  <2>9. Cardinality(Later(L, oldest)) >= Cap
    <3>1. Later(L, oldest) \subseteq Session
      BY DEF Later
    <3> QED
      BY <2>7, <2>8, <3>1, MoreSessions
  <2> QED
    BY <2>6, <2>9 DEF Recalled
<1> QED
  BY <1>1, <1>2

\* A table that recalls every session still does with a new record for one.
LEMMA ExtendedRecalls ==
  ASSUME NEW f, NEW g, NEW L \in [Session -> Nat], NEW K \in [Session -> Kind \cup {None}],
         NEW p \in Session, NEW n \in Nat, NEW k,
         \A q \in Session : L[q] < n,
         DOMAIN f \subseteq Session, DOMAIN g = DOMAIN f \cup {p},
         g[p].created_at = n, g[p].document_version = origin[p].document[k], \A q \in DOMAIN f : q # p => g[q] = f[q],
         Recalled(f, L, K)
  PROVE  Recalled(g, [L EXCEPT ![p] = n], [K EXCEPT ![p] = k])
<1> DEFINE M == [L EXCEPT ![p] = n]
<1>1. M[p] = n /\ n > 0 /\ \A q \in Session : q # p => M[q] = L[q]
  BY DEF Later
<1>2. \A q \in Session : M[q] \in Nat /\ M[q] >= L[q]
  BY <1>1
<1> HIDE DEF M
<1>3. \A q \in DOMAIN g :
        /\ g[q].created_at = M[q] /\ M[q] > 0
        /\ g[q].document_version = origin[q].document[[K EXCEPT ![p] = k][q]]
  BY <1>1 DEF Recalled
<1>4. ASSUME NEW q \in Session \ DOMAIN g, M[q] > 0
      PROVE  Cardinality(Later(M, q)) >= Cap
  <2>1. q # p /\ M[q] = L[q] /\ Cardinality(Later(L, q)) >= Cap
    BY <1>1, <1>4 DEF Recalled
  <2>2. Later(L, q) \subseteq Later(M, q)
    BY <1>2, <2>1 DEF Later
  <2>3. Later(M, q) \subseteq Session
    BY DEF Later
  <2>4. Cardinality(Later(L, q)) \in Nat /\ Cardinality(Later(M, q)) \in Nat
    BY <2>2, <2>3, SessionsFinite
  <2> QED
    BY <2>1, <2>2, <2>3, <2>4, MoreSessions
<1> QED
  BY <1>3, <1>4 DEF Recalled, M

\* At first no session is recorded, and none is forgotten.
LEMMA InitUndisturbed == Init => Undisturbed
<1> SUFFICES ASSUME Init PROVE Undisturbed
  OBVIOUS
<1>1. store # Broken
  <2>1. store \in [{} -> Record] /\ {} \in SUBSET Session
    BY DEF Init, NoSessions
  <2> QED
    BY <2>1, BrokenAssumption
<1> QED
  BY <1>1 DEF Init, Undisturbed, Times, OneSaves, FileRecalled, WillRecall, Saving, Recalled, NoSessions

\* What does not touch the file, its times, the servers that save and the installations
\* of the sessions keeps it all.
LEMMA Elsewhere ==
  ASSUME TrueInv, Undisturbed, UNCHANGED <<store, saves, lastSave, lastKind>>,
         \A p \in Session : origin[p] # None => origin'[p] = origin[p],
         \A s \in Server : Saving(s)' => Saving(s) /\ UNCHANGED <<records[s], session[s], kind[s]>>,
         \A s \in Server : pc[s] = "write" => pc'[s] = "write"
  PROVE  Undisturbed'
<1>1. \A f, L, K : IsTable(f) /\ Honest(f, kinds) /\ Recalled(f, L, K) => Recalled(f, L, K)'
  BY DEF Recalled, Later, IsTable, Honest
<1>2. FileRecalled'
  BY <1>1 DEF Undisturbed, FileRecalled, TrueInv, TypeOK, HonestRecords
<1>3. WillRecall'
  BY <1>1 DEF Undisturbed, WillRecall, TrueInv, TypeOK, HonestRecords
<1> QED
  BY <1>2, <1>3 DEF Undisturbed, Times, OneSaves

\* A server that starts, stops while it does not write, or takes up an opening is
\* not saving.
LEMMA QuietStep ==
  ASSUME TrueInv, Undisturbed, NEW s \in Server, ~disturbed',
         Start(s) \/ Stop(s) \/ \E c \in Client : Put(c, s) \/ \E k \in Kind : Open(c, s, k)
  PROVE  Undisturbed'
<1>1. pc \in [Server -> {"idle", "load", "truncate", "write", "check"}]
      /\ session \in [Server -> Session \cup {None}] /\ DOMAIN records = Server
      /\ kind \in [Server -> Kind \cup {None}]
  BY DEF TrueInv, TypeOK
<1>2. CASE Start(s)
  <2>1. pc[s] = "idle"
    BY <1>2 DEF Start, TrueInv, RunningInv
  <2>2. \A p \in Session : origin[p] # None => origin'[p] = origin[p]
    BY <1>2 DEF Start, TrueInv, TypeOK, OriginInv, Session
  <2> QED
    BY <1>1, <1>2, <2>1, <2>2, Elsewhere DEF Start, history, Saving
<1>3. CASE Stop(s)
  BY <1>1, <1>3, Elsewhere DEF Stop, Goto, Saving
<1>4. ASSUME NEW c \in Client, Put(c, s) \/ \E k \in Kind : Open(c, s, k) PROVE Undisturbed'
  BY <1>1, <1>4, Elsewhere DEF Put, Open, Goto, servers, history, Saving
<1> QED
  BY <1>2, <1>3, <1>4

\* The file is read while no other server saves: it is whole, and the table to write
\* has what it has, and the session of the server as the latest.
LEMMA LoadRecalls ==
  ASSUME TrueInv, Undisturbed, NEW s \in Server, ~disturbed', Load(s)
  PROVE  Undisturbed'
<1>1. /\ pc[s] = "load" /\ \A t \in Server : ~Saving(t)
      /\ pc' = [pc EXCEPT ![s] = "truncate"]
      /\ UNCHANGED <<store, session, kind, origin, lastSave, lastKind>>
  BY DEF Load, Goto, Overlapped, Saving
<1>2. pc \in [Server -> {"idle", "load", "truncate", "write", "check"}]
      /\ lastSave \in [Session -> Nat] /\ lastKind \in [Session -> Kind \cup {None}]
      /\ saves \in Nat /\ saves' = saves + 1
  BY DEF TrueInv, TypeOK, Load
<1>3. \A t \in Server : Saving(t)' <=> t = s
  BY <1>1, <1>2 DEF Saving
<1>4. store # Broken /\ Recalled(store, lastSave, lastKind) /\ Previous = store
  BY <1>1 DEF Undisturbed, FileRecalled, Saving, Previous
<1>5. \A p \in Session : lastSave[p] < saves'
  BY <1>2 DEF Undisturbed, Times
<1> PICK previous \in Loaded :
      /\ records' = [records EXCEPT ![s] = Capped(WithEntry(s, previous))]
      /\ previous = store
  BY <1>4 DEF Load
<1> DEFINE f == WithEntry(s, previous)
           M == [lastSave EXCEPT ![session[s]] = saves']
           N == [lastKind EXCEPT ![session[s]] = kind[s]]
<1>6. /\ session[s] \in Session
      /\ DOMAIN f = DOMAIN store \cup {session[s]}
      /\ DOMAIN f \subseteq Session /\ f \in [DOMAIN f -> Record]
      /\ Cardinality(DOMAIN f) <= Cap + 1
  <2>1. pc[s] # "idle" /\ saves' \in Nat
    BY <1>1, <1>2
  <2>2. /\ session[s] \in Session
        /\ DOMAIN f = DOMAIN previous \cup {session[s]}
        /\ DOMAIN f \subseteq Session /\ f \in [DOMAIN f -> Record]
        /\ Cardinality(DOMAIN f) <= Cap + 1
    BY <2>1, ExtendedTable DEF TrueInv
  <2> QED
    BY <2>2
<1>7. /\ f[session[s]].created_at = saves'
      /\ f[session[s]].document_version = origin[session[s]].document[kind[s]]
      /\ \A q \in DOMAIN store : q # session[s] => f[q] = store[q]
  BY DEF WithEntry, Entry, Installed
<1>8. records'[s] = Capped(f)
  BY DEF TrueInv, TypeOK
<1> HIDE DEF f
<1>9. Recalled(f, M, N)
  <2>1. DOMAIN store \subseteq Session /\ saves' \in Nat
    BY <1>2, <1>6
  <2> QED
    BY <1>2, <1>4, <1>5, <1>6, <1>7, <2>1, ExtendedRecalls
<1>10. Recalled(Capped(f), M, N)
  <2>1. M \in [Session -> Nat]
    <3>1. saves' \in Nat
      BY <1>2
    <3> QED
      BY <1>2, <3>1
  <2>2. \A p, q \in Session : M[p] = M[q] /\ p # q => M[p] = 0
    BY <1>2, <1>5, <1>6 DEF Undisturbed, Times
  <2> HIDE DEF M
  <2> QED
    BY <1>6, <1>9, <2>1, <2>2, CappedRecalls
<1>11. WillRecall'
  BY <1>1, <1>3, <1>5, <1>8, <1>10 DEF WillRecall, Recalled, Later
<1>12. OneSaves' /\ FileRecalled'
  BY <1>1, <1>3, <1>4 DEF OneSaves, FileRecalled, Recalled, Later
<1>13. Times'
  BY <1>1, <1>2, <1>5 DEF Undisturbed, Times
<1> QED
  BY <1>11, <1>12, <1>13 DEF Undisturbed

\* The one server that saves truncates the file, or leaves it, and then writes it.
LEMMA FileRecalls ==
  ASSUME TrueInv, Undisturbed, ~disturbed', NEW s \in Server,
         Truncate(s) \/ NotWritable(s) \/ Write(s)
  PROVE  Undisturbed'
<1>1. pc \in [Server -> {"idle", "load", "truncate", "write", "check"}]
      /\ lastSave \in [Session -> Nat] /\ saves \in Nat
      /\ lastKind \in [Session -> Kind \cup {None}]
  BY DEF TrueInv, TypeOK
<1>2. Saving(s) /\ \A t \in Server : Saving(t) => t = s
  BY DEF Truncate, NotWritable, Write, Saving, Undisturbed, OneSaves
<1>3. UNCHANGED <<saves, session, records, kind, origin>>
  BY DEF Truncate, NotWritable, Write, history
<1>4. CASE Truncate(s)
  <2>1. UNCHANGED <<lastSave, lastKind>> /\ store' = Broken /\ pc' = [pc EXCEPT ![s] = "write"]
    BY <1>4 DEF Truncate, Goto, history
  <2>2. pc'[s] = "write" /\ \A t \in Server : Saving(t)' => t = s
    BY <1>1, <1>2, <2>1 DEF Saving
  <2> QED
    BY <1>2, <1>3, <2>1, <2>2
       DEF Undisturbed, Times, OneSaves, FileRecalled, WillRecall, Recalled, Later
<1>5. CASE NotWritable(s)
  <2>1. /\ UNCHANGED <<lastSave, lastKind, store>> /\ pc' = [pc EXCEPT ![s] = "check"]
        /\ pc[s] = "truncate"
    BY <1>5 DEF NotWritable, Goto, history
  <2>2. \A t \in Server : ~Saving(t)'
    BY <1>1, <1>2, <2>1 DEF Saving
  <2>3. store # Broken
    BY <1>2, <2>1 DEF Undisturbed, FileRecalled, Saving
  <2> QED
    BY <1>3, <2>1, <2>2, <2>3
       DEF Undisturbed, Times, OneSaves, FileRecalled, WillRecall, Recalled, Later
<1>6. CASE Write(s)
  <2>1. /\ store' = records[s] /\ pc' = [pc EXCEPT ![s] = "check"]
        /\ lastSave' = [lastSave EXCEPT ![session[s]] = saves]
        /\ lastKind' = [lastKind EXCEPT ![session[s]] = kind[s]]
    BY <1>6 DEF Write, Goto
  <2>2. \A t \in Server : ~Saving(t)'
    BY <1>1, <1>2, <2>1 DEF Saving
  <2>3. Recalled(records[s], lastSave', lastKind') /\ \A p \in Session : lastSave[p] < saves
    BY <1>2, <2>1 DEF Undisturbed, WillRecall
  <2>4. store' # Broken
    <3>1. IsTable(records[s])
      BY DEF TrueInv, TypeOK
    <3> QED
      BY <2>1, <3>1, BrokenAssumption DEF IsTable
  <2>5. FileRecalled'
    BY <1>3, <2>1, <2>3, <2>4 DEF FileRecalled, Recalled, Later
  <2>6. Times'
    <3>1. session[s] \in Session
      BY <1>2 DEF TrueInv, RunningInv, TypeOK, Saving
    <3> QED
      BY <1>1, <1>3, <2>1, <2>3, <3>1 DEF Undisturbed, Times
  <2> QED
    BY <2>2, <2>5, <2>6 DEF Undisturbed, OneSaves, WillRecall
<1> QED
  BY <1>4, <1>5, <1>6

\* The check reads the file only.
LEMMA CheckRecalls ==
  ASSUME TrueInv, Undisturbed, NEW s \in Server, Check(s)
  PROVE  Undisturbed'
<1>1. pc \in [Server -> {"idle", "load", "truncate", "write", "check"}] /\ DOMAIN records = Server
      /\ kind \in [Server -> Kind \cup {None}]
  BY DEF TrueInv, TypeOK
<1> QED
  BY <1>1, Elsewhere DEF Check, Goto, Saving

\* Every step of undisturbed servers keeps what they recall.
LEMMA StaysUndisturbed == IInv /\ [Next]_vars => (~disturbed => Undisturbed)'
<1> SUFFICES ASSUME IInv, [Next]_vars, ~disturbed' PROVE Undisturbed'
  OBVIOUS
<1>1. CASE UNCHANGED vars
  <2>1. TrueInv /\ ~disturbed /\ Undisturbed
    BY <1>1 DEF IInv, vars, history
  <2> QED
    BY <1>1, <2>1, Elsewhere DEF vars, servers, history, Saving
<1>2. ASSUME NEW s \in Server,
             \/ Start(s) \/ Stop(s) \/ Load(s) \/ Truncate(s) \/ NotWritable(s) \/ Write(s) \/ Check(s)
             \/ \E c \in Client : Put(c, s) \/ \E k \in Kind : Open(c, s, k)
      PROVE  Undisturbed'
  <2>1. disturbed => disturbed'
    BY <1>2 DEF Start, Stop, Load, Truncate, NotWritable, Write, Check, Put, Open, history
  <2>2. TrueInv /\ Undisturbed
    BY <2>1 DEF IInv
  <2> QED
    BY <1>2, <2>2, QuietStep, LoadRecalls, FileRecalls, CheckRecalls
<1> QED
  BY <1>1, <1>2 DEF Next

\* In every reachable state the tables in the file and on their way to it are well formed
\* and say of each session what was installed when it ran, and while no two servers were
\* in each other's way they have all sessions but those with Cap after them
\* (save_current_session).
THEOREM Invariant == Spec => []IInv
<1>1. Init => IInv
  BY InitTrue, InitUndisturbed DEF IInv
<1>2. IInv /\ [Next]_vars => IInv'
  BY StaysTrue, StaysUndisturbed DEF IInv
<1> QED
  BY <1>1, <1>2, PTL DEF Spec

\* The file never holds more than Cap sessions, whatever the servers do to it
\* (_MAX_SESSIONS).
THEOREM TypeCorrect == Spec => []TypeOK
<1>1. IInv => TypeOK
  BY DEF IInv, TrueInv
<1> QED
  BY <1>1, Invariant, PTL

-----------------------------------------------------------------------------
(* Who is let in                                                           *)

\* Only the check ends an opening on a server that stays up.
LEMMA JudgedByCheck ==
  ASSUME TrueInv, [Next]_vars, NEW s \in Server, NEW c \in Client, Judged(c, s)
  PROVE  Check(s)
<1> USE DEF Judged
<1>1. ~UNCHANGED vars
  BY DEF vars, servers
<1>2. PICK t \in Server :
        \/ Start(t) \/ Stop(t) \/ Load(t) \/ Truncate(t) \/ NotWritable(t) \/ Write(t) \/ Check(t)
        \/ \E d \in Client : Put(d, t) \/ \E k \in Kind : Open(d, t, k)
  BY <1>1 DEF Next
<1>3. pc \in [Server -> {"idle", "load", "truncate", "write", "check"}]
      /\ session \in [Server -> Session \cup {None}]
  BY DEF TrueInv, TypeOK
<1>4. ~Start(t) /\ \A d \in Client : ~Put(d, t)
  BY DEF Start, Put, servers
<1>5. \A d \in Client, k \in Kind : ~Open(d, t, k)
  BY <1>3 DEF Open, Goto
<1>6. ~Load(t) /\ ~Truncate(t) /\ ~NotWritable(t) /\ ~Write(t)
  BY <1>3 DEF Load, Truncate, NotWritable, Write, Goto
<1>7. ~Stop(t)
  BY <1>3 DEF Stop, Goto
<1>8. Check(t)
  BY <1>2, <1>4, <1>5, <1>6, <1>7
<1>9. t = s
  BY <1>3, <1>8 DEF Check, Goto
<1> QED
  BY <1>8, <1>9

\* A client that is let in had the session of this server, or one with the same package
\* and, as its record is of a kind of document opened in it, the version of that kind.
LEMMA AcceptedStep ==
  ASSUME TrueInv, [Next]_vars,
         NEW s \in Server, NEW c \in Client, Judged(c, s), verdict' = "accepted"
  PROVE  ticket[c] = session[s] \/ \E k \in kinds[ticket[c]] : Same(c, s, k)
<1>1. Check(s) /\ opening[s] = c /\ pc[s] = "check"
  BY JudgedByCheck DEF Judged
<1>2. PICK previous \in Loaded : Compatibility(ticket[c], s, previous) = "accepted"
  BY <1>1 DEF Check
<1>3. CASE ticket[c] # session[s]
  <2>1. ticket[c] \in DOMAIN previous /\ SameVersions(ticket[c], s, previous)
    BY <1>2, <1>3 DEF Compatibility
  <2>2. Honest(previous, kinds)
    BY PreviousTable DEF TrueInv
  <2> QED
    BY <2>1, <2>2 DEF Honest, Same, SameVersions
<1> QED
  BY <1>3

\* No client is let in whose session had another package, or none of whose documents had
\* the version that its own has now: however servers share, empty and lose the file, and
\* whenever they stop (check_session_compatibility).
THEOREM AcceptedSafely == Spec => AcceptedCurrent
<1> DEFINE Right == \A s \in Server, c \in Client :
                      Judged(c, s) /\ verdict' = "accepted" =>
                        ticket[c] = session[s] \/ \E k \in kinds[ticket[c]] : Same(c, s, k)
<1>1. IInv /\ [Next]_vars => [Right]_vars
  BY AcceptedStep DEF IInv
<1> QED
  BY <1>1, Invariant, PTL DEF Spec, AcceptedCurrent

\* A client that is refused had a session of another package, or whose last document had
\* another version, or one that was not recorded or had Cap recorded after it, or servers
\* were disturbed.
LEMMA RefusedStep ==
  ASSUME IInv, [Next]_vars,
         NEW s \in Server, NEW c \in Client, Judged(c, s), verdict' # "accepted", ~disturbed'
  PROVE  Forgotten(ticket[c]) \/ ~Same(c, s, lastKind[ticket[c]])
<1>1. Check(s) /\ opening[s] = c /\ pc[s] = "check"
  BY JudgedByCheck DEF Judged, IInv
<1>2. TrueInv /\ Undisturbed /\ \A t \in Server : t # s => ~Saving(t)
  BY <1>1 DEF Check, Overlapped, IInv, Saving
<1>3. store # Broken /\ Recalled(store, lastSave, lastKind) /\ Previous = store
  BY <1>1, <1>2 DEF Undisturbed, FileRecalled, Saving, Previous
<1>4. Compatibility(ticket[c], s, store) # "accepted" /\ ticket[c] \in Session
  BY <1>1, <1>2, <1>3 DEF Check, TrueInv, TypeOK, RunningInv
<1>5. CASE ticket[c] \notin DOMAIN store
  <2>1. lastSave[ticket[c]] \in Nat
    BY <1>2, <1>4 DEF TrueInv, TypeOK
  <2> QED
    BY <1>3, <1>4, <1>5, <2>1 DEF Recalled, Forgotten
<1>6. CASE ticket[c] \in DOMAIN store
  <2>1. ~SameVersions(ticket[c], s, store)
    BY <1>4, <1>6 DEF Compatibility
  <2>2. store[ticket[c]].version = origin[ticket[c]].package
    BY <1>2, <1>3, <1>6 DEF TrueInv, HonestRecords, Honest
  <2>3. store[ticket[c]].document_version = origin[ticket[c]].document[lastKind[ticket[c]]]
    BY <1>3, <1>6 DEF Recalled
  <2> QED
    BY <2>1, <2>2, <2>3 DEF Same, SameVersions
<1> QED
  BY <1>5, <1>6

\* While servers are not in each other's way, none stops while it writes and the file can
\* be read, every client is let in whose session is among the last Cap recorded and had
\* the same package, and its document recorded last the same version.
THEOREM RefusedRightly == Spec => RefusedForCause
<1> DEFINE Right == \A s \in Server, c \in Client :
                      Judged(c, s) /\ verdict' # "accepted" =>
                        \/ Forgotten(ticket[c]) \/ ~Same(c, s, lastKind[ticket[c]])
                        \/ disturbed'
<1>1. IInv /\ [Next]_vars => [Right]_vars
  BY RefusedStep
<1> QED
  BY <1>1, Invariant, PTL DEF Spec, RefusedForCause
=============================================================================
