------------------------- MODULE RoomLifecycleProofs -------------------------
(* Theorems about RoomLifecycle for any clients and failures.              *)
EXTENDS RoomLifecycle, FiniteSetTheorems, TLAPS

USE NameAssumption

-----------------------------------------------------------------------------
(* Actors, their locks and what a change of the locks does                 *)

\* An actor is one of the two parts of one client.
LEMMA Actors ==
  /\ \A c \in Client : Opening(c) \in Actor /\ Cleaning(c) \in Actor
  /\ \A c, d \in Client : Opening(c) # Cleaning(d)
  /\ \A c, d \in Client : Opening(c) = Opening(d) => c = d
  /\ \A c, d \in Client : Cleaning(c) = Cleaning(d) => c = d
  /\ \A c \in Client : Opening(c)[1] = c /\ Cleaning(c)[1] = c
  /\ \A a \in Actor : a[1] \in Client /\ a \in {Opening(a[1]), Cleaning(a[1])}
BY DEF Opening, Cleaning, Actor, Part

\* Operations on the locks keep them well formed.
LEMMA LocksType ==
  ASSUME TypeOK, NEW a \in Actor, NEW gone \in SUBSET Actor,
         Enqueue(a, gone) \/ Hold(a, gone) \/ (Leave(gone) /\ lock' \in Nat)
  PROVE  /\ lock' \in Nat
         /\ lockOf' \in [Actor -> Nat \cup {None}]
         /\ ahead' \in [Actor -> SUBSET Actor]
BY DEF TypeOK, Enqueue, Hold, Leave, Queue, locks

\* So does every step, with everything else.
LEMMA TypeStep ==
  ASSUME IInv, NEW c \in Client,
         Handle(c) \/ CleanRoom(c) \/ Drop(c) \/ OnClose(c)
  PROVE  TypeOK'
<1> USE DEF Handle, CleanRoom, Goto, Spend, instances, files,
            PrepareWait, Prepare, GetRoom, CreateRoom, GetLoader, Started, StartFails, StartFailed,
            Open, InitializeWait, Initialize, Initialized, InitializeFails, Serve, Drop, OnClose,
            Unserve, CleanWait, Clean, CleanDone, Unloaded
<1>0. TypeOK /\ PhaseInv
  BY DEF IInv, Inv
<1>1. pc' \in [Client -> Pc]
  BY <1>0 DEF TypeOK, Pc
<1>2. cleaning' \in [Client -> {"none", "sleep", "lock", "unload", "done"}]
  BY <1>0 DEF TypeOK
<1>3. myRoom' \in [Client -> Client \cup {None}]
  BY <1>0 DEF TypeOK
<1>4. closed' \subseteq Client
  BY <1>0 DEF TypeOK
<1>5. split' \in BOOLEAN /\ doomed' \subseteq Client /\ late' \subseteq Client
  <2>1. split' \in BOOLEAN
    BY <1>0 DEF TypeOK, history, Enters
  <2>2. doomed' \subseteq Client
    BY <1>0 DEF TypeOK, history, PhaseInv, Clients, Connected
  <2>3. late' \subseteq Client
    BY <1>0 DEF TypeOK, history
  <2> QED
    BY <2>1, <2>2, <2>3
<1>6. servedBy' \in [Client -> Client \cup {None}]
  BY <1>0 DEF TypeOK
<1>7. room' \in Client \cup {None}
  BY <1>0 DEF TypeOK, Deregister
<1>8. ready' \subseteq Client /\ stopped' \subseteq Client
  BY <1>0 DEF TypeOK, PhaseInv, Registered
<1>9. cleaner' \in [Client -> Client \cup {None}]
  BY <1>0 DEF TypeOK
<1>10. loader' \in Nat \cup {None} /\ loaders' \in Nat
  BY <1>0 DEF TypeOK
<1>11. fileOf' \in [Client -> Nat \cup {None}]
  BY <1>0, <1>10 DEF TypeOK
<1>12. subs' \subseteq Nat
  <2>1. CreateRoom(c) => loader' \in Nat
    BY <1>0 DEF TypeOK
  <2>2. CASE Prepare(c)
    BY <1>0, <2>1, <2>2 DEF TypeOK
  <2>3. CASE ~Prepare(c)
    BY <1>0, <2>3 DEF TypeOK
  <2> QED
    BY <2>2, <2>3
<1>13. budget' \in [{"start", "init"} -> Nat]
  BY <1>0 DEF TypeOK
<1>14. /\ lock' \in Nat
       /\ lockOf' \in [Actor -> Nat \cup {None}]
       /\ ahead' \in [Actor -> SUBSET Actor]
  <2>1. /\ Opening(c) \in Actor /\ {Opening(c)} \in SUBSET Actor
        /\ Cleaning(c) \in Actor /\ {Cleaning(c)} \in SUBSET Actor /\ {} \in SUBSET Actor
    BY Actors
  <2>2. ASSUME NEW S \in SUBSET Client
        PROVE  /\ {Cleaning(d) : d \in S} \in SUBSET Actor
               /\ {Cleaning(d) : d \in S} \cup {Opening(c)} \in SUBSET Actor
    BY Actors
  <2>3. pc[c] = "session" => Cancelled(c) \in SUBSET Client
    BY <1>0 DEF Cancelled, TypeOK, PhaseInv
  <2>4. CASE InitializeWait(c) \/ Initialize(c)
    BY <1>0, <2>1, <2>2, <2>3, <2>4, LocksType DEF TypeOK
  <2>5. CASE CleanRoom(c)
    BY <1>0, <2>1, <2>5, LocksType DEF TypeOK
  <2>6. CASE ~InitializeWait(c) /\ ~Initialize(c) /\ ~CleanRoom(c)
    BY <1>0, <2>1, <2>6, LocksType DEF TypeOK, Release, locks
  <2> QED
    BY <2>4, <2>5, <2>6
<1> QED
  BY <1>1, <1>2, <1>3, <1>4, <1>5, <1>6, <1>7, <1>8, <1>9, <1>10, <1>11, <1>12, <1>13, <1>14
     DEF TypeOK

\* The actors that a step of c drops from the queue: the cleaner it cancels.
Gone(c) == IF pc[c] = "session" /\ (InitializeWait(c) \/ Initialize(c))
           THEN {Cleaning(d) : d \in Cancelled(c)} ELSE {}

\* What a step of c does to the locks: it takes, waits for or leaves its own, and may end
\* the wait of a cleaner.
Moved(c) ==
  /\ lock' \in {lock, lock + 1}
  /\ \A b \in Gone(c) : lockOf'[b] = None /\ ahead'[b] = {}
  /\ \A b \in Actor : b \notin Gone(c) \cup {Opening(c), Cleaning(c)} =>
       lockOf'[b] = lockOf[b] /\ ahead'[b] \subseteq ahead[b]
OwnLocks(c) ==
  /\ lockOf'[Opening(c)] # None <=> pc'[c] \in {"plock", "pstart", "pfail", "olock", "init"}
  /\ pc'[c] \in {"pstart", "pfail", "init"} => ahead'[Opening(c)] = {}
  /\ lockOf'[Cleaning(c)] # None <=> cleaning'[c] \in {"lock", "unload"}
  /\ cleaning'[c] = "unload" => ahead'[Cleaning(c)] = {}

LEMMA LockEffect ==
  ASSUME IInv, NEW c \in Client,
         Handle(c) \/ CleanRoom(c) \/ Drop(c) \/ OnClose(c)
  PROVE  Moved(c) /\ OwnLocks(c)
<1> DEFINE o == Opening(c)
           k == Cleaning(c)
<1>0. /\ TypeOK /\ LockInv /\ PhaseInv
      /\ o \in Actor /\ k \in Actor /\ o # k
      /\ {} \in SUBSET Actor /\ {o} \in SUBSET Actor /\ {k} \in SUBSET Actor
      /\ lock \in Nat /\ lock # None
      /\ pc \in [Client -> Pc] /\ DOMAIN pc = Client /\ DOMAIN cleaning = Client
  BY Actors DEF IInv, Inv, TypeOK
<1>1. /\ lockOf[o] # None <=> pc[c] \in {"plock", "pstart", "pfail", "olock", "init"}
      /\ pc[c] \in {"pstart", "pfail", "init"} => ahead[o] = {}
      /\ lockOf[k] # None <=> cleaning[c] \in {"lock", "unload"}
      /\ cleaning[c] = "unload" => ahead[k] = {}
      /\ pc[c] \notin {"cleaning", "served", "done"} => cleaning[c] = "none"
  BY <1>0 DEF LockInv, PhaseInv, TypeOK
<1>2. ~InitializeWait(c) /\ ~Initialize(c) => Gone(c) = {}
  BY DEF Gone
<1> HIDE DEF o, k
<1>3. CASE PrepareWait(c)
  <2>1. pc[c] = "away" /\ cleaning[c] = "none" /\ Enqueue(o, {}) /\ Gone(c) = {}
    BY <1>1, <1>3 DEF PrepareWait, Gone, InitializeWait, Initialize, o
  <2>2. /\ lock' = lock /\ lockOf'[o] = lock
        /\ \A b \in Actor : b # o => lockOf'[b] = lockOf[b] /\ ahead'[b] = ahead[b] \ {}
    BY <1>0, <2>1 DEF Enqueue
  <2>3. pc'[c] = "plock" /\ cleaning'[c] = cleaning[c]
    BY <1>0, <1>3 DEF PrepareWait, Goto
  <2> QED
    BY <1>0, <1>1, <2>1, <2>2, <2>3 DEF Moved, OwnLocks, o, k
<1>4. CASE Prepare(c) /\ room # None
  <2>1. Leave({o}) /\ lock' = lock /\ cleaning[c] = "none" /\ Gone(c) = {}
    BY <1>1, <1>4 DEF Prepare, GetRoom, Release, Gone, InitializeWait, Initialize, o
  <2>2. /\ lockOf'[o] = None /\ ahead'[o] = {}
        /\ \A b \in Actor : b # o => lockOf'[b] = lockOf[b] /\ ahead'[b] = ahead[b] \ {o}
    BY <1>0, <2>1 DEF Leave
  <2>3. pc'[c] = "prepared" /\ cleaning'[c] = cleaning[c]
    BY <1>0, <1>4 DEF Prepare, GetRoom, Goto
  <2> QED
    BY <1>0, <1>1, <2>1, <2>2, <2>3 DEF Moved, OwnLocks, o, k
<1>5. CASE Prepare(c) /\ room = None
  <2>1. /\ Hold(o, {}) /\ (Holds(o) \/ Idle({})) /\ lock' = lock
        /\ cleaning[c] = "none" /\ Gone(c) = {}
    BY <1>1, <1>5
       DEF Prepare, CreateRoom, Gone, InitializeWait, Initialize, Hold, Enqueue, locks, o
  <2>2. CASE Holds(o)
    <3>1. UNCHANGED <<lockOf, ahead>> /\ lockOf[o] # None /\ ahead[o] = {}
      BY <2>1, <2>2 DEF Hold, Holds, locks
    <3>2. pc'[c] = "pstart" /\ cleaning'[c] = cleaning[c]
      BY <1>0, <1>5 DEF Prepare, CreateRoom, Goto
    <3> QED
      BY <1>0, <1>1, <2>1, <3>1, <3>2 DEF Moved, OwnLocks, o, k
  <2>3. CASE ~Holds(o)
    <3>1. Enqueue(o, {}) /\ Queue(lock) = {}
      BY <2>1, <2>3 DEF Hold, Idle
    <3>2. /\ lockOf'[o] = lock /\ ahead'[o] = {}
          /\ \A b \in Actor : b # o => lockOf'[b] = lockOf[b] /\ ahead'[b] = ahead[b] \ {}
      BY <1>0, <3>1 DEF Enqueue
    <3>3. pc'[c] = "pstart" /\ cleaning'[c] = cleaning[c]
      BY <1>0, <1>5 DEF Prepare, CreateRoom, Goto
    <3> QED
      BY <1>0, <1>1, <2>1, <3>2, <3>3 DEF Moved, OwnLocks, o, k
  <2> QED
    BY <2>2, <2>3
<1>6. CASE Started(c) \/ StartFailed(c) \/ Initialized(c) \/ InitializeFails(c)
            \/ (StartFails(c) /\ fileOf[c] \notin subs)
  <2>1. /\ pc[c] \in {"pstart", "pfail", "init"} /\ Gone(c) = {}
        /\ Leave({o}) /\ lock' = lock /\ cleaning[c] = "none"
    BY <1>1, <1>6 DEF Started, StartFailed, Initialized, InitializeFails, StartFails,
                      Release, Gone, o
  <2>2. /\ lockOf'[o] = None /\ ahead'[o] = {}
        /\ \A b \in Actor : b # o => lockOf'[b] = lockOf[b] /\ ahead'[b] = ahead[b] \ {o}
    BY <1>0, <2>1 DEF Leave
  <2>3. pc'[c] \in {"prepared", "done", "toserve", "cleaning"} /\ cleaning'[c] \in {"none", "sleep"}
    BY <1>0, <1>6, <2>1 DEF Started, StartFailed, Initialized, InitializeFails, StartFails, Goto
  <2> QED
    BY <1>0, <1>1, <2>1, <2>2, <2>3 DEF Moved, OwnLocks, o, k
<1>7. CASE \/ StartFails(c) /\ fileOf[c] \in subs
           \/ Open(c) \/ Drop(c) \/ Serve(c) \/ Unserve(c) \/ OnClose(c)
  <2>1. UNCHANGED <<lock, lockOf, ahead>> /\ Gone(c) = {}
    BY <1>7 DEF StartFails, Open, Drop, Serve, Unserve, OnClose, locks, Gone, InitializeWait,
                Initialize
  <2>2. /\ pc'[c] \in {"plock", "pstart", "pfail", "olock", "init"}
             <=> pc[c] \in {"plock", "pstart", "pfail", "olock", "init"}
        /\ pc'[c] \in {"pstart", "pfail", "init"} => pc[c] \in {"pstart", "pfail", "init"}
        /\ cleaning'[c] \in {"lock", "unload"} <=> cleaning[c] \in {"lock", "unload"}
        /\ cleaning'[c] = "unload" => cleaning[c] = "unload"
    BY <1>0, <1>7 DEF StartFails, Open, Drop, Serve, Unserve, OnClose, Goto, PhaseInv, Connected
  <2> QED
    BY <1>0, <1>1, <2>1, <2>2 DEF Moved, OwnLocks, o, k
<1>8. CASE InitializeWait(c) \/ (Initialize(c) /\ pc[c] = "session")
  <2> DEFINE g == Gone(c)
  <2>1. pc[c] = "session" /\ cleaning[c] = "none" /\ g = {Cleaning(d) : d \in Cancelled(c)}
    BY <1>1, <1>8 DEF InitializeWait, Gone
  <2>2. g \subseteq Actor /\ o \notin g /\ k \notin g
    <3>1. myRoom[c] \in Client /\ Cancelled(c) \subseteq Client \ {c}
      BY <1>0, <2>1 DEF Cancelled, PhaseInv, TypeOK
    <3> QED
      BY <2>1, <3>1, Actors DEF o, k
  <2> HIDE DEF g
  <2>3. cleaning'[c] = "none"
    BY <1>0, <1>8, <2>1 DEF InitializeWait, Initialize, Cancelled
  <2>4. CASE InitializeWait(c)
    <3>1. Enqueue(o, g) /\ lock' = lock
      BY <2>1, <2>4 DEF InitializeWait, Enqueue, o
    <3>2. /\ lockOf'[o] = lock
          /\ \A b \in g : lockOf'[b] = None /\ ahead'[b] = {}
          /\ \A b \in Actor : b \notin g /\ b # o => lockOf'[b] = lockOf[b] /\ ahead'[b] = ahead[b] \ g
      BY <1>0, <2>2, <3>1 DEF Enqueue
    <3>3. pc'[c] = "olock"
      BY <1>0, <2>4 DEF InitializeWait, Goto
    <3> QED
      BY <1>0, <1>1, <2>1, <2>2, <2>3, <3>1, <3>2, <3>3 DEF Moved, OwnLocks, o, k, g
  <2>5. CASE Initialize(c) /\ myRoom[c] \in ready
    <3>1. Leave(g \cup {o}) /\ lock' = lock
      BY <2>1, <2>5 DEF Initialize, o
    <3>2. /\ lockOf'[o] = None
          /\ \A b \in g : lockOf'[b] = None /\ ahead'[b] = {}
          /\ \A b \in Actor : b \notin g /\ b # o =>
               lockOf'[b] = lockOf[b] /\ ahead'[b] = ahead[b] \ (g \cup {o})
      BY <1>0, <2>2, <3>1 DEF Leave
    <3>3. pc'[c] = "toserve"
      BY <1>0, <2>5 DEF Initialize, Goto
    <3> QED
      BY <1>0, <1>1, <2>1, <2>2, <2>3, <3>1, <3>2, <3>3 DEF Moved, OwnLocks, o, k, g
  <2>6. CASE Initialize(c) /\ myRoom[c] \notin ready
    <3>1. Enqueue(o, g) /\ Queue(lock) \ g = {} /\ lock' = lock
      BY <1>1, <2>1, <2>6 DEF Initialize, Hold, Holds, Idle, Enqueue, o
    <3>2. /\ lockOf'[o] = lock /\ ahead'[o] = {}
          /\ \A b \in g : lockOf'[b] = None /\ ahead'[b] = {}
          /\ \A b \in Actor : b \notin g /\ b # o => lockOf'[b] = lockOf[b] /\ ahead'[b] = ahead[b] \ g
      BY <1>0, <2>2, <3>1 DEF Enqueue
    <3>3. pc'[c] = "init"
      BY <1>0, <2>6 DEF Initialize, Goto
    <3> QED
      BY <1>0, <1>1, <2>1, <2>2, <2>3, <3>1, <3>2, <3>3 DEF Moved, OwnLocks, o, k, g
  <2> QED
    BY <1>8, <2>4, <2>5, <2>6
<1>9. CASE Initialize(c) /\ pc[c] # "session"
  <2>1. /\ pc[c] = "olock" /\ cleaning[c] = "none" /\ cleaning'[c] = "none"
        /\ Gone(c) = {} /\ Holds(o)
    BY <1>0, <1>1, <1>9 DEF Initialize, Gone, o
  <2>2. CASE myRoom[c] \in ready
    <3>1. Leave({} \cup {o}) /\ lock' = lock /\ {} \cup {o} = {o}
      BY <1>9, <2>1, <2>2 DEF Initialize, o
    <3>2. /\ lockOf'[o] = None
          /\ \A b \in Actor : b # o => lockOf'[b] = lockOf[b] /\ ahead'[b] = ahead[b] \ {o}
      BY <1>0, <3>1 DEF Leave
    <3>3. pc'[c] = "toserve"
      BY <1>0, <1>9, <2>2 DEF Initialize, Goto
    <3> QED
      BY <1>0, <1>1, <2>1, <3>1, <3>2, <3>3 DEF Moved, OwnLocks, o, k
  <2>3. CASE myRoom[c] \notin ready
    <3>1. UNCHANGED <<lock, lockOf, ahead>> /\ lockOf[o] # None /\ ahead[o] = {}
      BY <1>9, <2>1, <2>3 DEF Initialize, Hold, Holds, locks, o
    <3>2. pc'[c] = "init"
      BY <1>0, <1>9, <2>3 DEF Initialize, Goto
    <3> QED
      BY <1>0, <1>1, <2>1, <3>1, <3>2 DEF Moved, OwnLocks, o, k
  <2> QED
    BY <2>2, <2>3
<1>10. CASE CleanWait(c)
  <2>1. cleaning[c] = "sleep" /\ Enqueue(k, {}) /\ Gone(c) = {} /\ lock' = lock
    BY <1>1, <1>10 DEF CleanWait, Enqueue, Gone, InitializeWait, Initialize, k
  <2>2. /\ lockOf'[k] = lock
        /\ \A b \in Actor : b # k => lockOf'[b] = lockOf[b] /\ ahead'[b] = ahead[b] \ {}
    BY <1>0, <2>1 DEF Enqueue
  <2>3. cleaning'[c] = "lock" /\ pc'[c] = pc[c]
    BY <1>0, <1>10 DEF CleanWait
  <2> QED
    BY <1>0, <1>1, <2>1, <2>2, <2>3 DEF Moved, OwnLocks, o, k
<1>11. CASE (Clean(c) \/ Unloaded(c)) /\ CleanDone(c)
  <2>1. /\ cleaning[c] \in {"sleep", "lock", "unload"} /\ Leave({k}) /\ Gone(c) = {}
        /\ lock' \in {lock, lock + 1}
    BY <1>0, <1>1, <1>11
       DEF Clean, Unloaded, CleanDone, Gone, InitializeWait, Initialize, Hold, Enqueue, locks, k
  <2>2. /\ lockOf'[k] = None /\ ahead'[k] = {}
        /\ \A b \in Actor : b # k => lockOf'[b] = lockOf[b] /\ ahead'[b] = ahead[b] \ {k}
    BY <1>0, <2>1 DEF Leave
  <2>3. cleaning'[c] = "done" /\ pc'[c] \in {"done", "served"} /\ pc[c] \in {"cleaning", "done", "served"}
    BY <1>0, <1>11, <2>1 DEF CleanDone, Goto, PhaseInv
  <2> QED
    BY <1>0, <1>1, <2>1, <2>2, <2>3 DEF Moved, OwnLocks, o, k
<1>12. CASE Clean(c) /\ ~CleanDone(c)
  <2>1. /\ cleaning[c] \in {"sleep", "lock"} /\ Hold(k, {}) /\ Gone(c) = {}
        /\ Holds(k) \/ Idle({})
        /\ lock' = lock
        /\ cleaning'[c] = "unload" /\ pc'[c] = pc[c]
    BY <1>0, <1>1, <1>12
       DEF Clean, Gone, InitializeWait, Initialize, Hold, Enqueue, locks, k
  <2>2. CASE Holds(k)
    <3>1. UNCHANGED <<lock, lockOf, ahead>> /\ lockOf[k] # None /\ ahead[k] = {}
      BY <2>1, <2>2 DEF Hold, Holds, locks
    <3> QED
      BY <1>0, <1>1, <2>1, <3>1 DEF Moved, OwnLocks, o, k
  <2>3. CASE ~Holds(k)
    <3>1. Enqueue(k, {}) /\ Queue(lock) = {} /\ lock' = lock
      BY <2>1, <2>3 DEF Hold, Idle, Enqueue
    <3>2. /\ lockOf'[k] = lock /\ ahead'[k] = {}
          /\ \A b \in Actor : b # k => lockOf'[b] = lockOf[b] /\ ahead'[b] = ahead[b] \ {}
      BY <1>0, <3>1 DEF Enqueue
    <3> QED
      BY <1>0, <1>1, <2>1, <3>1, <3>2 DEF Moved, OwnLocks, o, k
  <2> QED
    BY <2>2, <2>3
<1> QED
  BY <1>3, <1>4, <1>5, <1>6, <1>7, <1>8, <1>9, <1>10, <1>11, <1>12 DEF Handle, CleanRoom, Unloaded

\* A step of c leaves the other handlers where they are, except that it may cancel the
\* cleaner of its room.
Apart(c) ==
  /\ \A d \in Client \ {c} :
       /\ pc'[d] = pc[d] /\ myRoom'[d] = myRoom[d] /\ servedBy'[d] = servedBy[d]
       /\ d \in closed' <=> d \in closed
       /\ cleaning'[d] = IF Cleaning(d) \in Gone(c) THEN "done" ELSE cleaning[d]
  /\ \A d \in Client : Cleaning(d) \in Gone(c) =>
       /\ d # c /\ cleaning[d] \in {"sleep", "lock"} /\ pc[d] \in {"served", "done"}
       /\ pc[c] = "session" /\ d = cleaner[myRoom[c]] /\ myRoom[c] \in Client
  /\ \A b \in Gone(c) : \E d \in Client : b = Cleaning(d)

LEMMA OthersApart ==
  ASSUME IInv, NEW c \in Client,
         Handle(c) \/ CleanRoom(c) \/ Drop(c) \/ OnClose(c)
  PROVE  Apart(c)
<1> USE DEF Goto
<1>0. TypeOK /\ PhaseInv
  BY DEF IInv, Inv
<1>1. ASSUME NEW d \in Client, Cleaning(d) \in Gone(c)
      PROVE  /\ d # c /\ cleaning[d] \in {"sleep", "lock"} /\ pc[d] \in {"served", "done"}
             /\ pc[c] = "session" /\ d = cleaner[myRoom[c]] /\ myRoom[c] \in Client
  <2>1. pc[c] = "session" /\ d \in Cancelled(c)
    BY <1>0, <1>1, Actors DEF Gone, Cancelled, TypeOK, PhaseInv
  <2>2. myRoom[c] \in Client
    BY <1>0, <2>1 DEF PhaseInv, TypeOK
  <2> QED
    BY <1>0, <2>1, <2>2 DEF Cancelled, PhaseInv
<1>2. \A b \in Gone(c) : \E d \in Client : b = Cleaning(d)
  BY <1>0 DEF Gone, Cancelled, PhaseInv, TypeOK
<1>3. ASSUME NEW d \in Client \ {c}
      PROVE  /\ pc'[d] = pc[d] /\ myRoom'[d] = myRoom[d] /\ servedBy'[d] = servedBy[d]
             /\ d \in closed' <=> d \in closed
             /\ cleaning'[d] = IF Cleaning(d) \in Gone(c) THEN "done" ELSE cleaning[d]
  <2>1. CASE InitializeWait(c) \/ Initialize(c)
    <3>1. pc[c] = "session" => (Cleaning(d) \in Gone(c) <=> d \in Cancelled(c))
      BY <1>0, <2>1, Actors DEF Gone, Cancelled, TypeOK, PhaseInv
    <3>2. pc[c] # "session" => Gone(c) = {}
      BY DEF Gone
    <3> QED
      BY <1>0, <2>1, <3>1, <3>2 DEF InitializeWait, Initialize, TypeOK
  <2>2. CASE ~InitializeWait(c) /\ ~Initialize(c)
    <3>1. Gone(c) = {}
      BY <2>2 DEF Gone
    <3> QED
      BY <1>0, <2>2, <3>1
         DEF TypeOK, Handle, CleanRoom, PrepareWait, Prepare, GetRoom, CreateRoom, Started,
             StartFails, StartFailed, Open, Initialized, InitializeFails, Serve, Drop, OnClose,
             Unserve, CleanWait, Clean, CleanDone, Unloaded
  <2> QED
    BY <2>1, <2>2
<1> QED
  BY <1>1, <1>2, <1>3 DEF Apart

\* Whoever is in a block of the lock has it, and nobody else does.
LEMMA LockStep ==
  ASSUME IInv, NEW c \in Client,
         Handle(c) \/ CleanRoom(c) \/ Drop(c) \/ OnClose(c)
  PROVE  LockInv'
<1>0. TypeOK /\ LockInv /\ Moved(c) /\ OwnLocks(c) /\ Apart(c)
  BY LockEffect, OthersApart DEF IInv, Inv
<1> SUFFICES ASSUME NEW d \in Client
    PROVE /\ lockOf'[Opening(d)] # None <=> pc'[d] \in {"plock", "pstart", "pfail", "olock", "init"}
          /\ pc'[d] \in {"pstart", "pfail", "init"} => ahead'[Opening(d)] = {}
          /\ lockOf'[Cleaning(d)] # None <=> cleaning'[d] \in {"lock", "unload"}
          /\ cleaning'[d] = "unload" => ahead'[Cleaning(d)] = {}
  BY DEF LockInv
<1>1. CASE d = c
  BY <1>0, <1>1 DEF OwnLocks
<1>2. CASE d # c
  <2>1. /\ lockOf[Opening(d)] # None <=> pc[d] \in {"plock", "pstart", "pfail", "olock", "init"}
        /\ pc[d] \in {"pstart", "pfail", "init"} => ahead[Opening(d)] = {}
        /\ lockOf[Cleaning(d)] # None <=> cleaning[d] \in {"lock", "unload"}
        /\ cleaning[d] = "unload" => ahead[Cleaning(d)] = {}
    BY <1>0 DEF LockInv
  <2>2. /\ Opening(d) \in Actor /\ Cleaning(d) \in Actor
        /\ {Opening(d), Cleaning(d)} \cap {Opening(c), Cleaning(c)} = {}
        /\ Opening(d) \notin Gone(c)
    BY <1>0, <1>2, Actors DEF Apart
  <2>3. lockOf'[Opening(d)] = lockOf[Opening(d)] /\ ahead'[Opening(d)] \subseteq ahead[Opening(d)]
    BY <1>0, <2>2 DEF Moved
  <2>4. pc'[d] = pc[d]
    BY <1>0, <1>2 DEF Apart
  <2>5. CASE Cleaning(d) \in Gone(c)
    BY <1>0, <1>2, <2>1, <2>2, <2>3, <2>4, <2>5 DEF Apart, Moved
  <2>6. CASE Cleaning(d) \notin Gone(c)
    <3>1. /\ lockOf'[Cleaning(d)] = lockOf[Cleaning(d)]
          /\ ahead'[Cleaning(d)] \subseteq ahead[Cleaning(d)]
          /\ cleaning'[d] = cleaning[d]
      BY <1>0, <1>2, <2>2, <2>6 DEF Apart, Moved
    <3> QED
      BY <2>1, <2>3, <2>4, <3>1
  <2> QED
    BY <2>5, <2>6
<1> QED
  BY <1>1, <1>2

\* One actor at most enters the queue, and some leave it.
Entered(a, gone) ==
  a \notin gone /\ lockOf[a] = None /\ Enqueue(a, gone) /\ Enters(a, gone)

LEMMA LockMove ==
  ASSUME IInv, NEW c \in Client,
         Handle(c) \/ CleanRoom(c) \/ Drop(c) \/ OnClose(c)
  PROVE  \/ UNCHANGED <<lockOf, ahead>>
         \/ \E gone \in SUBSET Actor : Leave(gone) \/ \E a \in Actor : Entered(a, gone)
<1>0. /\ TypeOK /\ LockInv /\ PhaseInv
      /\ Opening(c) \in Actor /\ Cleaning(c) \in Actor
      /\ {} \in SUBSET Actor /\ {Opening(c)} \in SUBSET Actor /\ {Cleaning(c)} \in SUBSET Actor
  BY Actors DEF IInv, Inv
<1>1. /\ pc[c] \in {"away", "session"} => lockOf[Opening(c)] = None
      /\ cleaning[c] = "sleep" => lockOf[Cleaning(c)] = None
  BY <1>0 DEF LockInv
<1>2. CASE PrepareWait(c) \/ Prepare(c)
  BY <1>0, <1>1, <1>2
     DEF PrepareWait, Prepare, GetRoom, CreateRoom, Release, Hold, Entered, locks
<1>3. CASE InitializeWait(c) \/ Initialize(c)
  <2> DEFINE g == {Cleaning(d) : d \in IF pc[c] = "session" THEN Cancelled(c) ELSE {}}
  <2>1. g \subseteq Actor /\ g \cup {Opening(c)} \subseteq Actor /\ Opening(c) \notin g
    <3>1. pc[c] = "session" => Cancelled(c) \subseteq Client
      BY <1>0 DEF PhaseInv, TypeOK, Cancelled
    <3> QED
      BY <3>1, Actors
  <2> HIDE DEF g
  <2>2. \/ UNCHANGED <<lockOf, ahead>> \/ Leave(g \cup {Opening(c)})
        \/ /\ pc[c] \in {"session", "olock"} /\ ~Holds(Opening(c))
           /\ Enqueue(Opening(c), g) /\ Enters(Opening(c), g)
    <3>1. CASE Initialize(c)
      BY <3>1 DEF Initialize, Hold, Holds, locks, g
    <3>2. CASE InitializeWait(c)
      <4>1. /\ pc[c] = "session" /\ Enqueue(Opening(c), {Cleaning(d) : d \in Cancelled(c)})
            /\ Enters(Opening(c), {Cleaning(d) : d \in Cancelled(c)})
        BY <3>2 DEF InitializeWait
      <4>2. g = {Cleaning(d) : d \in Cancelled(c)} /\ ~Holds(Opening(c))
        BY <1>0, <1>1, <4>1 DEF g, Holds
      <4> QED
        BY <4>1, <4>2
    <3> QED
      BY <1>3, <3>1, <3>2
  <2>3. ASSUME pc[c] = "olock", ~Holds(Opening(c)) PROVE FALSE
    BY <1>3, <2>3 DEF InitializeWait, Initialize
  <2> QED
    BY <1>0, <1>1, <2>1, <2>2, <2>3 DEF Entered
<1>4. CASE Started(c) \/ StartFails(c) \/ StartFailed(c) \/ Initialized(c) \/ InitializeFails(c)
            \/ Open(c) \/ Drop(c) \/ Serve(c) \/ Unserve(c) \/ OnClose(c)
  BY <1>0, <1>4 DEF Started, StartFails, StartFailed, Initialized, InitializeFails, Open, Drop,
                    Serve, Unserve, OnClose, Release, locks
<1>5. CASE CleanRoom(c)
  BY <1>0, <1>1, <1>5
     DEF CleanRoom, CleanWait, Clean, CleanDone, Unloaded, Hold, Entered, locks
<1> QED
  BY <1>2, <1>3, <1>4, <1>5 DEF Handle

\* Those that have the same lock stay in the order in which they came.
LEMMA QueueStep ==
  ASSUME IInv, NEW c \in Client,
         Handle(c) \/ CleanRoom(c) \/ Drop(c) \/ OnClose(c)
  PROVE  QueueInv'
<1>0. TypeOK /\ QueueInv
  BY DEF IInv, Inv
<1>1. CASE UNCHANGED <<lockOf, ahead>>
  BY <1>0, <1>1 DEF QueueInv
<1>2. ASSUME NEW gone \in SUBSET Actor, Leave(gone)
      PROVE  QueueInv'
  BY <1>0, <1>2 DEF QueueInv, Leave
<1>3. ASSUME NEW gone \in SUBSET Actor, NEW a \in Actor, Entered(a, gone)
      PROVE  QueueInv'
  <2>1. /\ lockOf'[a] = lock /\ ahead'[a] = Queue(lock) \ gone /\ lock # None /\ a \notin gone
        /\ \A b \in gone : lockOf'[b] = None /\ ahead'[b] = {}
        /\ \A b \in Actor : b \notin gone /\ b # a =>
             lockOf'[b] = lockOf[b] /\ ahead'[b] = ahead[b] \ gone
    BY <1>0, <1>3 DEF Entered, Enqueue, TypeOK
  <2>2. lockOf[a] = None /\ Queue(lock) = {b \in Actor : lockOf[b] = lock}
    BY <1>3 DEF Entered, Queue
  <2>3. ASSUME NEW b \in Actor, NEW e \in Actor, e \in ahead'[b]
        PROVE  b # e /\ lockOf'[b] # None /\ lockOf'[e] = lockOf'[b]
    BY <1>0, <2>1, <2>2, <2>3 DEF QueueInv
  <2>4. ASSUME NEW b \in Actor, NEW e \in Actor, b # e, lockOf'[b] # None, lockOf'[b] = lockOf'[e]
        PROVE  b \in ahead'[e] \/ e \in ahead'[b]
    BY <1>0, <2>1, <2>2, <2>4 DEF QueueInv
  <2> QED
    BY <2>3, <2>4 DEF QueueInv
<1> QED
  BY <1>1, <1>2, <1>3, LockMove

\* A handler goes through its phases in order, whoever cancels its cleaner.
LEMMA PhaseStep ==
  ASSUME IInv, NEW c \in Client,
         Handle(c) \/ CleanRoom(c) \/ Drop(c) \/ OnClose(c)
  PROVE  PhaseInv'
<1> DEFINE Ok(d) ==
      /\ servedBy'[d] # None <=> pc'[d] = "served"
      /\ d \in closed' => pc'[d] \notin {"away", "plock", "pstart", "pfail", "prepared"}
      /\ cleaning'[d] # "none" => \/ pc'[d] = "cleaning"
                                  \/ d \in closed' /\ pc'[d] \in {"served", "done"}
                                  \/ cleaning'[d] = "done" /\ pc'[d] = "done"
      /\ pc'[d] = "cleaning" => cleaning'[d] \in {"sleep", "lock", "unload"}
      /\ cleaning'[d] \in {"sleep", "lock", "unload"} => pc'[d] = "cleaning" \/ CleanupDelaySet
      /\ pc'[d] \notin {"away", "plock"} /\ cleaning'[d] \notin {"unload", "done"} => myRoom'[d] # None
<1>0. TypeOK /\ PhaseInv /\ Apart(c)
  BY OthersApart DEF IInv, Inv
<1>1. ASSUME NEW d \in Client, d # c PROVE Ok(d)
  BY <1>0, <1>1 DEF Apart, PhaseInv
<1>2. Ok(c)
  <2> USE DEF Goto
  <2>1. CASE InitializeWait(c) \/ Initialize(c)
    <3>1. cleaning'[c] = "none" /\ cleaning[c] = "none"
      BY <1>0, <2>1 DEF InitializeWait, Initialize, PhaseInv, TypeOK, Cancelled
    <3> QED
      BY <1>0, <2>1, <3>1 DEF InitializeWait, Initialize, PhaseInv, TypeOK
  <2>2. CASE PrepareWait(c) \/ Prepare(c)
    BY <1>0, <2>2 DEF PrepareWait, Prepare, GetRoom, CreateRoom, PhaseInv, TypeOK
  <2>3. CASE Started(c) \/ StartFails(c) \/ StartFailed(c) \/ Initialized(c) \/ InitializeFails(c)
    BY <1>0, <2>3 DEF Started, StartFails, StartFailed, Initialized, InitializeFails, PhaseInv, TypeOK
  <2>4. CASE Open(c) \/ Drop(c) \/ Serve(c) \/ Unserve(c) \/ CleanWait(c)
    BY <1>0, <2>4 DEF Open, Drop, Serve, Unserve, CleanWait, PhaseInv, TypeOK
  <2>5. CASE OnClose(c)
    BY <1>0, <2>5 DEF OnClose, Clients, Connected, PhaseInv, TypeOK
  <2>6. CASE Clean(c) \/ Unloaded(c)
    BY <1>0, <2>6 DEF Clean, Unloaded, CleanDone, PhaseInv, TypeOK
  <2> QED
    BY <2>1, <2>2, <2>3, <2>4, <2>5, <2>6 DEF Handle, CleanRoom
<1>3. ASSUME NEW r \in Client, cleaner'[r] # None
      PROVE  cleaner'[r] \in closed' /\ pc'[cleaner'[r]] \in {"served", "done"}
  <2>1. CASE OnClose(c) /\ Clients(myRoom[c]) = {c}
    <3>1. /\ c \notin closed /\ closed' = closed \cup {c} /\ pc' = pc
          /\ cleaner' = [cleaner EXCEPT ![myRoom[c]] = c]
      BY <2>1 DEF OnClose
    <3>2. servedBy[c] # None
      BY <1>0, <2>1 DEF OnClose, Clients, Connected, PhaseInv
    <3> QED
      BY <1>0, <1>3, <3>1, <3>2 DEF PhaseInv, TypeOK
  <2>2. CASE ~(OnClose(c) /\ Clients(myRoom[c]) = {c})
    <3>1. cleaner' = cleaner
      BY <2>2 DEF Handle, CleanRoom, PrepareWait, Prepare, Started, StartFails, StartFailed, Open,
                  InitializeWait, Initialize, Initialized, InitializeFails, Serve, Drop, OnClose,
                  Unserve, CleanWait, Clean, Unloaded, instances
    <3>2. cleaner[r] \in Client /\ cleaner[r] \in closed /\ pc[cleaner[r]] \in {"served", "done"}
      BY <1>0, <1>3, <3>1 DEF PhaseInv, TypeOK
    <3>3. CASE cleaner[r] # c
      BY <1>0, <3>1, <3>2, <3>3 DEF Apart
    <3>4. CASE cleaner[r] = c
      BY <1>0, <3>1, <3>2, <3>4
         DEF Handle, CleanRoom, PrepareWait, Prepare, Started, StartFails, StartFailed, Open,
             InitializeWait, Initialize, Initialized, InitializeFails, Serve, Drop, OnClose,
             Unserve, CleanWait, Clean, CleanDone, Unloaded, Goto, TypeOK
    <3> QED
      BY <3>3, <3>4
  <2> QED
    BY <2>1, <2>2
<1> QED
  BY <1>1, <1>2, <1>3 DEF PhaseInv

-----------------------------------------------------------------------------
(* While the lock is not split, one is in a block of it                    *)

\* What holds as long as all who have the lock have the same one.
Sound == /\ RegisteredAlive /\ RegisteredWatched /\ OneInitializes
         /\ OneLock /\ RoomInv /\ CleanerInv /\ UsersInv

\* The histories only grow.
LEMMA HistoryGrows ==
  ASSUME IInv, NEW c \in Client,
         Handle(c) \/ CleanRoom(c) \/ Drop(c) \/ OnClose(c)
  PROVE  /\ split => split'
         /\ doomed \subseteq doomed' /\ late \subseteq late' /\ closed \subseteq closed'
         /\ ~split' => ~split /\ Sound
<1>1. split => split'
  BY DEF IInv, Inv, TypeOK, Handle, CleanRoom, PrepareWait, Prepare, Started, StartFails, StartFailed,
         Open, InitializeWait, Initialize, Initialized, InitializeFails, Serve, Drop, OnClose,
         Unserve, CleanWait, Clean, Unloaded, history, Enters
<1>2. doomed \subseteq doomed' /\ late \subseteq late' /\ closed \subseteq closed'
  BY DEF Handle, CleanRoom, PrepareWait, Prepare, Started, StartFails, StartFailed,
         Open, InitializeWait, Initialize, Initialized, InitializeFails, Serve, Drop, OnClose,
         Unserve, CleanWait, Clean, Unloaded, history
<1> QED
  BY <1>1, <1>2 DEF IInv, Inv, Sound

\* One actor has the lock of the room, whichever of its locks that is.
LEMMA Exclusive ==
  ASSUME IInv, ~split, NEW a \in Actor, NEW b \in Actor, Holds(a), Holds(b)
  PROVE  a = b
BY DEF IInv, OneLock, QueueInv, Holds

\* Who takes the lock takes the one the others have, or splits it.
LEMMA OneLockStep ==
  ASSUME IInv, ~split', NEW c \in Client,
         Handle(c) \/ CleanRoom(c) \/ Drop(c) \/ OnClose(c)
  PROVE  OneLock'
<1>0. TypeOK /\ OneLock /\ ~split
  BY HistoryGrows DEF IInv, Inv, Sound
<1>1. CASE UNCHANGED <<lockOf, ahead>>
  BY <1>0, <1>1 DEF OneLock
<1>2. ASSUME NEW gone \in SUBSET Actor, Leave(gone)
      PROVE  OneLock'
  BY <1>0, <1>2 DEF OneLock, Leave
<1>3. ASSUME NEW gone \in SUBSET Actor, NEW a \in Actor, Entered(a, gone)
      PROVE  OneLock'
  <2>1. \A b \in Actor \ gone : lockOf[b] \in {None, lock}
    BY <1>0, <1>3 DEF Entered, Enters
  <2>2. \A b \in Actor : lockOf'[b] \in {None, lock}
    BY <1>0, <1>3, <2>1 DEF Entered, Enqueue, TypeOK
  <2> QED
    BY <2>2 DEF OneLock
<1> QED
  BY <1>1, <1>2, <1>3, LockMove

\* Nobody else is in a block of the lock when one enters its block.
LEMMA BlockIsFree ==
  ASSUME IInv, ~split', NEW c \in Client, Prepare(c) \/ Initialize(c), NEW d \in Client \ {c}
  PROVE  pc[d] \notin {"pstart", "pfail", "init"}
<1> SUFFICES ASSUME pc[d] \in {"pstart", "pfail", "init"} PROVE FALSE
  OBVIOUS
<1>0. /\ TypeOK /\ LockInv /\ PhaseInv /\ ~split
      /\ Opening(c) \in Actor /\ Opening(d) \in Actor /\ Opening(c) # Opening(d)
  BY Actors, HistoryGrows DEF IInv, Inv, Handle
<1>1. Holds(Opening(d)) /\ lockOf[Opening(d)] # None
  BY <1>0 DEF LockInv, Holds
<1>2. ~Holds(Opening(c))
  BY <1>0, <1>1, Exclusive
<1>3. PICK gone \in SUBSET Actor :
        Idle(gone) /\ Enters(Opening(c), gone) /\ lockOf[Opening(c)] = None /\ Opening(d) \notin gone
  <2>1. CASE Prepare(c)
    BY <1>0, <1>2, <2>1 DEF Prepare, LockInv
  <2>2. CASE Initialize(c)
    <3> DEFINE g == {Cleaning(e) : e \in Cancelled(c)}
    <3>1. pc[c] = "session" /\ Idle(g) /\ Enters(Opening(c), g)
      BY <1>2, <2>2 DEF Initialize
    <3>2. Cancelled(c) \subseteq Client
      BY <1>0, <3>1 DEF PhaseInv, TypeOK, Cancelled
    <3>3. g \subseteq Actor /\ Opening(d) \notin g
      BY <3>2, Actors
    <3>4. lockOf[Opening(c)] = None
      BY <1>0, <3>1 DEF LockInv
    <3> QED
      BY <3>1, <3>3, <3>4
  <2> QED
    BY <2>1, <2>2
<1>4. lockOf[Opening(d)] = lock
  BY <1>0, <1>1, <1>3 DEF Enters
<1> QED
  BY <1>0, <1>3, <1>4 DEF Idle, Queue

\* One handler at a time makes or initializes a room.
LEMMA OneStep ==
  ASSUME IInv, ~split', NEW c \in Client,
         Handle(c) \/ CleanRoom(c) \/ Drop(c) \/ OnClose(c)
  PROVE  OneInitializes'
<1> DEFINE S == {d \in Client : pc'[d] \in {"pstart", "init"}}
<1>0. TypeOK /\ LockInv /\ Apart(c) /\ ~split
  BY OthersApart, HistoryGrows DEF IInv, Inv
<1>1. pc'[c] \in {"pstart", "init"} => pc'[c] = pc[c] \/ Prepare(c) \/ Initialize(c)
  BY <1>0
     DEF Handle, CleanRoom, PrepareWait, Started, StartFails, StartFailed, Open, InitializeWait,
         Initialized, InitializeFails, Serve, Drop, OnClose, Unserve, CleanWait, Clean, CleanDone,
         Unloaded, Goto, TypeOK
<1>2. \A d, e \in Client : pc[d] \in {"pstart", "init"} /\ pc[e] \in {"pstart", "init"} => d = e
  BY <1>0, Exclusive, Actors DEF LockInv, Holds
<1>3. ASSUME NEW d \in S, NEW e \in S PROVE d = e
  BY <1>0, <1>1, <1>2, BlockIsFree DEF Apart
<1>4. CASE S = {}
  BY <1>4, FS_EmptySet DEF OneInitializes
<1>5. CASE S # {}
  <2>1. PICK d \in S : TRUE
    BY <1>5
  <2>2. S = {d}
    BY <1>3, <2>1
  <2>3. Cardinality(S) = 1
    BY <2>2, FS_Singleton
  <2> QED
    BY <2>3 DEF OneInitializes
<1> QED
  BY <1>4, <1>5

-----------------------------------------------------------------------------
(* The instances, and the file of the one that is registered               *)

\* What a step of c does to the instances.
Changed(c) ==
  /\ \/ room' = room
     \/ pc[c] = "pstart" /\ pc'[c] = "prepared" /\ room' = c /\ stopped' = stopped
     \/ Clean(c) /\ room # None /\ room = myRoom[c] /\ room' = None /\ stopped' = stopped \cup {room}
  /\ ready' = ready \/ (Initialized(c) /\ ready' = ready \cup {myRoom[c]})
  /\ \/ stopped' = stopped
     \/ StartFails(c) /\ stopped' = stopped \cup {c} /\ pc'[c] \in {"pfail", "done"}
     \/ Clean(c) /\ room # None /\ room = myRoom[c] /\ room' = None
  /\ \/ myRoom'[c] = myRoom[c]
     \/ Prepare(c) /\ room # None /\ myRoom'[c] = room
     \/ Prepare(c) /\ room = None /\ myRoom'[c] = c
     \/ Clean(c) /\ myRoom'[c] = None
  /\ pc'[c] \in Unstarted => pc[c] \in Unstarted
  /\ pc'[c] \in Unstarted \ {"pfail"} => pc[c] \in Unstarted \ {"pfail"}

LEMMA InstancesChange ==
  ASSUME IInv, ~split', NEW c \in Client,
         Handle(c) \/ CleanRoom(c) \/ Drop(c) \/ OnClose(c)
  PROVE  Changed(c)
<1> USE DEF Goto
<1>0. /\ TypeOK /\ PhaseInv /\ RoomInv
      /\ room # None => fileOf[room] \in subs /\ loader # None
      /\ Clean(c) /\ Registered(c) => room # None /\ fileOf[myRoom[c]] \in subs
  <2>1. TypeOK /\ PhaseInv /\ RoomInv /\ RegisteredWatched
    BY HistoryGrows DEF IInv, Inv, Sound
  <2>2. Clean(c) /\ Registered(c) => room # None
    BY <2>1 DEF Clean, Registered, PhaseInv
  <2> QED
    BY <2>1, <2>2 DEF RegisteredWatched, Registered, TypeOK
<1>1. CASE Clean(c)
  BY <1>0, <1>1 DEF Clean, CleanDone, Registered, Deregister, TypeOK, Changed, PhaseInv, Unstarted
<1>2. CASE Prepare(c)
  BY <1>0, <1>2 DEF Prepare, GetRoom, CreateRoom, instances, TypeOK, Changed, Unstarted
<1>3. CASE Started(c) \/ StartFails(c) \/ StartFailed(c) \/ Initialized(c) \/ InitializeFails(c)
  BY <1>0, <1>3 DEF Started, StartFails, StartFailed, Initialized, InitializeFails, instances,
                    TypeOK, Changed, Unstarted
<1>4. CASE InitializeWait(c) \/ Initialize(c)
  BY <1>0, <1>4 DEF InitializeWait, Initialize, instances, TypeOK, Changed, Unstarted
<1>5. CASE PrepareWait(c) \/ Open(c) \/ Drop(c) \/ Serve(c) \/ Unserve(c) \/ OnClose(c)
            \/ CleanWait(c) \/ Unloaded(c)
  BY <1>0, <1>5 DEF PrepareWait, Open, Drop, Serve, Unserve, OnClose, CleanWait, Unloaded,
                    CleanDone, instances, TypeOK, Changed, PhaseInv, Unstarted
<1> QED
  BY <1>1, <1>2, <1>3, <1>4, <1>5 DEF Handle, CleanRoom

\* The loader of the registered room, or of the one that starts, stays while that does.
LEMMA FilesStay ==
  ASSUME IInv, ~split', NEW c \in Client,
         Handle(c) \/ CleanRoom(c) \/ Drop(c) \/ OnClose(c),
         NEW r \in Client, loader = fileOf[r], loader \in subs,
         \/ room = r /\ room' = r
         \/ r # c /\ pc[r] = "pstart"
  PROVE  loader' = fileOf'[r] /\ loader' \in subs'
<1> USE DEF Goto
<1>0. TypeOK /\ PhaseInv /\ RoomInv /\ loader # None /\ ~split
  BY HistoryGrows DEF IInv, Inv, Sound, TypeOK
<1>1. room = None \/ room = r
  BY <1>0 DEF RoomInv
<1>2. CASE Prepare(c)
  <2>1. room = r
    BY <1>2, BlockIsFree
  <2> QED
    BY <1>0, <1>2, <2>1 DEF Prepare, GetRoom, files
<1>3. CASE StartFails(c)
  <2>1. pc[c] = "pstart" /\ room = None
    BY <1>0, <1>3 DEF StartFails, RoomInv
  <2>2. r # c /\ pc[r] = "pstart"
    BY <2>1
  <2> QED
    BY <1>0, <2>1, <2>2, Exclusive, Actors DEF IInv, LockInv, Holds
<1>4. CASE Clean(c)
  <2>1. ~Registered(c)
    <3>1. SUFFICES ASSUME Registered(c) PROVE FALSE
      OBVIOUS
    <3>2. room # None /\ room = myRoom[c]
      BY <1>0, <1>4, <3>1 DEF Clean, Registered, PhaseInv, TypeOK
    <3>3. room = r /\ fileOf[myRoom[c]] \in subs
      BY <1>0, <1>1, <3>2
    <3>4. room' = None
      BY <1>4, <3>1, <3>3 DEF Clean, Deregister
    <3> QED
      BY <1>0, <3>2, <3>3, <3>4 DEF RoomInv
  <2> QED
    BY <1>4, <2>1 DEF Clean, files
<1>5. CASE InitializeFails(c)
  BY <1>0, <1>5 DEF InitializeFails, GetLoader
<1>6. CASE ~Prepare(c) /\ ~StartFails(c) /\ ~Clean(c) /\ ~InitializeFails(c)
  BY <1>6 DEF Handle, CleanRoom, PrepareWait, Started, StartFailed, Open, InitializeWait,
              Initialize, Initialized, Serve, Drop, OnClose, Unserve, CleanWait, Unloaded, files
<1> QED
  BY <1>2, <1>3, <1>4, <1>5, <1>6

\* The room that prepare finds works, and an instance is registered once.
LEMMA RoomStep ==
  ASSUME IInv, ~split', NEW c \in Client,
         Handle(c) \/ CleanRoom(c) \/ Drop(c) \/ OnClose(c)
  PROVE  RegisteredAlive' /\ RegisteredWatched' /\ RoomInv'
<1> USE DEF Goto
<1>0. /\ TypeOK /\ TypeOK' /\ PhaseInv /\ RoomInv /\ RegisteredAlive /\ RegisteredWatched
      /\ Changed(c) /\ Apart(c) /\ ~split
  BY TypeStep, InstancesChange, OthersApart, HistoryGrows DEF IInv, Inv, Sound
<1>1. \A d \in Client : /\ pc'[d] \in Unstarted => pc[d] \in Unstarted
                        /\ pc'[d] \in Unstarted \ {"pfail"} => pc[d] \in Unstarted \ {"pfail"}
  BY <1>0 DEF Apart, Changed
<1>2. RegisteredAlive'
  BY <1>0 DEF RegisteredAlive, RoomInv, Changed, StartFails, Unstarted, TypeOK
<1>3. RegisteredWatched'
  <2>1. CASE room' = None
    BY <2>1 DEF RegisteredWatched
  <2>2. CASE room' # None /\ room' = room
    BY <1>0, <2>2, FilesStay DEF RegisteredWatched, TypeOK
  <2>3. CASE room' # None /\ room' # room
    <3>1. pc[c] = "pstart" /\ room' = c /\ Started(c)
      BY <1>0, <2>3
         DEF Changed, Handle, CleanRoom, PrepareWait, Prepare, StartFails, StartFailed, Open,
             InitializeWait, Initialize, Initialized, InitializeFails, Serve, Drop, OnClose, Unserve,
             CleanWait, Clean, CleanDone, Unloaded, PhaseInv, Connected, TypeOK
    <3> QED
      BY <1>0, <3>1 DEF RoomInv, Started, files, RegisteredWatched
  <2> QED
    BY <2>1, <2>2, <2>3
<1>4. room' # None => pc'[room'] \notin Unstarted
  BY <1>0, <1>1 DEF Changed, RoomInv, TypeOK, Unstarted
<1>5. \A r \in ready' : pc'[r] \notin Unstarted
  <2>1. CASE ready' = ready
    BY <1>0, <1>1, <2>1 DEF RoomInv, TypeOK
  <2>2. CASE Initialized(c) /\ ready' = ready \cup {myRoom[c]}
    BY <1>0, <1>1, <2>2 DEF RoomInv, TypeOK, Initialized, PhaseInv, Unstarted
  <2> QED
    BY <1>0, <2>1, <2>2 DEF Changed
<1>6. \A r \in stopped' : pc'[r] \notin Unstarted \ {"pfail"}
  BY <1>0, <1>1 DEF RoomInv, TypeOK, Changed, Unstarted
<1>7. ASSUME NEW d \in Client
      PROVE  /\ myRoom'[d] \notin {None, d} => pc'[myRoom'[d]] \notin Unstarted
             /\ pc'[d] \in {"pstart", "pfail"} => myRoom'[d] = d
             /\ pc'[d] = "pstart" => room' = None /\ loader' = fileOf'[d] /\ loader' \in subs'
             /\ pc'[d] = "init" => myRoom'[d] \notin ready'
             /\ pc'[d] = "toserve" => myRoom'[d] \in ready'
  <2>0. ready \subseteq ready'
    BY <1>0 DEF Changed
  <2>1. CASE d # c
    <3>1. pc'[d] = pc[d] /\ myRoom'[d] = myRoom[d]
      BY <1>0, <2>1 DEF Apart
    <3>2. /\ myRoom[d] \notin {None, d} => pc[myRoom[d]] \notin Unstarted
          /\ pc[d] \in {"pstart", "pfail"} => myRoom[d] = d
          /\ pc[d] = "pstart" => room = None /\ loader = fileOf[d] /\ loader \in subs
          /\ pc[d] = "init" => myRoom[d] \notin ready
          /\ pc[d] = "toserve" => myRoom[d] \in ready
      BY <1>0 DEF RoomInv
    <3>3. pc[d] = "pstart" => loader' = fileOf'[d] /\ loader' \in subs'
      BY <2>1, <3>2, FilesStay
    <3>4. pc[d] \in {"pstart", "init"} => pc[c] \notin {"pstart", "pfail", "init"}
      BY <1>0, <2>1, Exclusive, Actors DEF IInv, LockInv, Holds
    <3>5. pc[d] = "pstart" => room' = None
      BY <1>0, <3>2, <3>4 DEF Changed
    <3>6. pc[d] = "init" => ready' = ready
      BY <1>0, <3>4 DEF Changed, Initialized
    <3>7. myRoom[d] \notin {None, d} => myRoom[d] \in Client
      BY <1>0 DEF TypeOK
    <3> QED
      BY <1>1, <2>0, <3>1, <3>2, <3>3, <3>5, <3>6, <3>7
  <2>2. CASE d = c
    <3>1. myRoom'[c] \notin {None, c} => pc'[myRoom'[c]] \notin Unstarted
      BY <1>0, <1>1 DEF Changed, RoomInv, TypeOK
    <3>2. CASE Prepare(c)
      <4>1. /\ pc'[c] = "pstart" => room = None /\ myRoom'[c] = c
            /\ pc'[c] \in {"pstart", "prepared"}
        BY <1>0, <3>2 DEF Prepare, GetRoom, CreateRoom, TypeOK
      <4>2. pc'[c] = "pstart" => loader' = fileOf'[c] /\ loader' \in subs' /\ room' = room
        BY <1>0, <3>2, <4>1 DEF Prepare, GetRoom, CreateRoom, TypeOK, instances
      <4> QED
        BY <2>2, <3>1, <4>1, <4>2
    <3>3. CASE Initialize(c)
      <4>1. /\ pc'[c] = "init" => myRoom'[c] \notin ready'
            /\ pc'[c] = "toserve" => myRoom'[c] \in ready'
            /\ pc'[c] \in {"init", "toserve"}
        BY <1>0, <3>3 DEF Initialize, TypeOK, instances
      <4> QED
        BY <2>2, <3>1, <4>1
    <3>4. CASE StartFails(c) \/ Initialized(c)
      <4>1. /\ pc'[c] = "pfail" => myRoom'[c] = c
            /\ pc'[c] = "toserve" => myRoom'[c] \in ready'
            /\ pc'[c] \in {"pfail", "done", "toserve"}
        BY <1>0, <3>4 DEF StartFails, Initialized, RoomInv, TypeOK
      <4> QED
        BY <2>2, <3>1, <4>1
    <3>5. CASE OnClose(c)
      <4>1. pc'[c] = pc[c] /\ myRoom'[c] = myRoom[c] /\ ready' = ready
            /\ pc[c] \notin {"pstart", "pfail"}
        BY <3>5 DEF OnClose, Connected
      <4> QED
        BY <1>0, <2>2, <3>1, <4>1 DEF RoomInv
    <3>6. CASE ~Prepare(c) /\ ~Initialize(c) /\ ~StartFails(c) /\ ~Initialized(c) /\ ~OnClose(c)
      <4>1. pc'[c] \notin {"pstart", "pfail", "init", "toserve"}
        BY <1>0, <3>6
           DEF Handle, CleanRoom, PrepareWait, Started, StartFailed, Open, InitializeWait,
               InitializeFails, Serve, Drop, Unserve, CleanWait, Clean, CleanDone, Unloaded,
               PhaseInv, TypeOK
      <4> QED
        BY <2>2, <3>1, <4>1
    <3> QED
      BY <3>2, <3>3, <3>4, <3>5, <3>6
  <2> QED
    BY <2>1, <2>2
<1>8. ASSUME NEW d \in late'
      PROVE  pc'[d] \notin Unstarted /\ myRoom'[d] \in stopped' \cup {None}
  <2>1. \/ d \in late
        \/ /\ Clean(c) /\ room = myRoom[c] /\ room' = None /\ stopped' = stopped \cup {room}
           /\ pc[d] \in {"prepared", "session"} /\ myRoom[d] = room
    BY <1>0, <1>8
       DEF Handle, CleanRoom, PrepareWait, Prepare, Started, StartFails, StartFailed, Open,
           InitializeWait, Initialize, Initialized, InitializeFails, Serve, Drop, OnClose, Unserve,
           CleanWait, Clean, Deregister, Registered, Unloaded, history
  <2>2. d \in Client /\ pc[d] \notin Unstarted /\ (myRoom[d] \in stopped' \cup {None})
    BY <1>0, <1>8, <2>1 DEF RoomInv, Changed, TypeOK, Unstarted
  <2>3. myRoom'[d] \in {myRoom[d], None}
    BY <1>0, <2>2 DEF Changed, Apart, Prepare, Unstarted
  <2> QED
    BY <1>1, <2>2, <2>3
<1> QED
  BY <1>2, <1>3, <1>4, <1>5, <1>6, <1>7, <1>8 DEF RoomInv

-----------------------------------------------------------------------------
(* The cleaners, and the clients of the registered room                    *)

\* A step of c moves its own cleaner on; the others', only to cancel them.
SleepsOn(c) ==
  /\ \A d \in Client : cleaning'[d] \in {"sleep", "lock"} =>
       \/ cleaning[d] \in {"sleep", "lock"} /\ myRoom'[d] = myRoom[d]
          /\ (pc'[d] = "cleaning" <=> pc[d] = "cleaning")
       \/ d = c /\ InitializeFails(c) /\ pc'[d] = "cleaning"
       \/ d = c /\ OnClose(c) /\ cleaner'[myRoom[c]] = c /\ CleanupDelaySet
  /\ cleaner' = cleaner \/ (OnClose(c) /\ cleaner' = [cleaner EXCEPT ![myRoom[c]] = c]
                            /\ pc[c] = "served" /\ c \notin closed /\ c \in closed'
                            /\ pc'[c] = pc[c] /\ myRoom'[c] = myRoom[c] /\ myRoom[c] \in Client
                            /\ cleaning'[c] = IF CleanupDelaySet THEN "sleep" ELSE "done")

LEMMA CleanersChange ==
  ASSUME IInv, NEW c \in Client,
         Handle(c) \/ CleanRoom(c) \/ Drop(c) \/ OnClose(c)
  PROVE  SleepsOn(c)
<1> USE DEF Goto
<1>0. TypeOK /\ PhaseInv /\ Apart(c)
  BY OthersApart DEF IInv, Inv
<1>1. ASSUME NEW d \in Client \ {c}, cleaning'[d] \in {"sleep", "lock"}
      PROVE  cleaning[d] \in {"sleep", "lock"} /\ myRoom'[d] = myRoom[d] /\ pc'[d] = pc[d]
  BY <1>0, <1>1 DEF Apart
<1>2. CASE OnClose(c)
  <2>1. pc'[c] = pc[c] /\ myRoom'[c] = myRoom[c] /\ c \notin closed /\ c \in closed'
    BY <1>0, <1>2 DEF OnClose
  <2>2. CASE Clients(myRoom[c]) = {c}
    <3>1. servedBy[c] = myRoom[c] /\ pc[c] # "cleaning" /\ pc[c] # "away"
      BY <1>2, <2>2 DEF OnClose, Clients, Connected
    <3>2. cleaning[c] \notin {"unload", "done"} /\ pc[c] # "plock"
      BY <1>0, <1>2, <3>1 DEF OnClose, PhaseInv, Connected
    <3>3. myRoom[c] \in Client
      BY <1>0, <3>1, <3>2 DEF PhaseInv, TypeOK
    <3>4. pc[c] = "served"
      BY <1>0, <3>1, <3>3 DEF PhaseInv
    <3>5. /\ cleaner' = [cleaner EXCEPT ![myRoom[c]] = c] /\ cleaner'[myRoom[c]] = c
          /\ cleaning'[c] = IF CleanupDelaySet THEN "sleep" ELSE "done"
      BY <1>0, <1>2, <2>2, <3>3 DEF OnClose, TypeOK
    <3> QED
      BY <1>1, <1>2, <2>1, <3>3, <3>4, <3>5 DEF SleepsOn
  <2>3. CASE Clients(myRoom[c]) # {c}
    <3>1. cleaner' = cleaner /\ cleaning'[c] = cleaning[c]
      BY <1>2, <2>3 DEF OnClose
    <3> QED
      BY <1>1, <2>1, <3>1 DEF SleepsOn
  <2> QED
    BY <2>2, <2>3
<1>3. CASE InitializeFails(c)
  <2>1. cleaner' = cleaner /\ (cleaning'[c] \in {"sleep", "lock"} => pc'[c] = "cleaning")
    BY <1>0, <1>3 DEF InitializeFails, instances, PhaseInv, TypeOK
  <2> QED
    BY <1>1, <1>3, <2>1 DEF SleepsOn
<1>4. CASE CleanRoom(c)
  <2>1. cleaner' = cleaner
    BY <1>4 DEF CleanRoom, CleanWait, Clean, Unloaded, instances
  <2>2. cleaning'[c] \in {"sleep", "lock"} =>
          cleaning[c] \in {"sleep", "lock"} /\ myRoom'[c] = myRoom[c] /\ pc'[c] = pc[c]
    BY <1>0, <1>4 DEF CleanRoom, CleanWait, Clean, CleanDone, Unloaded, TypeOK
  <2> QED
    BY <1>1, <2>1, <2>2 DEF SleepsOn
<1>5. CASE ~OnClose(c) /\ ~InitializeFails(c) /\ ~CleanRoom(c)
  <2>1. cleaner' = cleaner
    BY <1>5 DEF Handle, PrepareWait, Prepare, Started, StartFails, StartFailed, Open,
                InitializeWait, Initialize, Initialized, Serve, Drop, Unserve, instances
  <2>2. cleaning'[c] \in {"sleep", "lock"} =>
          cleaning[c] \in {"sleep", "lock"} /\ myRoom'[c] = myRoom[c]
          /\ (pc'[c] = "cleaning" <=> pc[c] = "cleaning")
    BY <1>0, <1>5
       DEF Handle, PrepareWait, Prepare, Started, StartFails, StartFailed, Open,
           InitializeWait, Initialize, Initialized, Serve, Drop, Unserve, TypeOK, PhaseInv
  <2> QED
    BY <1>1, <2>1, <2>2 DEF SleepsOn
<1> QED
  BY <1>2, <1>3, <1>4, <1>5

\* An instance that starts has no cleaner at work.
LEMMA StartsClean ==
  ASSUME IInv, ~split, NEW c \in Client, pc[c] = "pstart", NEW d \in Client
  PROVE  ~Sleeping(d, c)
BY DEF IInv, RoomInv, PhaseInv, Sleeping, Unstarted

\* The registered room is not that of one who came late.
LEMMA NotLate ==
  ASSUME IInv, ~split, NEW c \in Client, room # None, myRoom[c] = room
  PROVE  c \notin late
BY DEF IInv, Inv, RegisteredAlive, RoomInv

\* Who has not closed has a room from its prepare on, and nothing to clean.
LEMMA HasRoom ==
  ASSUME IInv, NEW c \in Client, c \notin closed, pc[c] \in Found
  PROVE  myRoom[c] \in Client /\ cleaning[c] = "none"
BY DEF IInv, Inv, TypeOK, PhaseInv, Found

\* Who is about to delete the registered room and may be cancelled is its cleaner.
LEMMA CleanerStep ==
  ASSUME IInv, ~split', NEW c \in Client,
         Handle(c) \/ CleanRoom(c) \/ Drop(c) \/ OnClose(c)
  PROVE  CleanerInv'
<1>0. /\ TypeOK /\ TypeOK' /\ PhaseInv /\ Sound /\ ~split /\ doomed \subseteq doomed'
      /\ Apart(c) /\ Changed(c) /\ SleepsOn(c)
  BY TypeStep, OthersApart, InstancesChange, CleanersChange, HistoryGrows DEF IInv, Inv
<1> SUFFICES ASSUME room' # None, room' \notin doomed', NEW d \in Client, Sleeping(d, room)'
             PROVE  d = cleaner'[room']
  BY DEF CleanerInv
<1>1. cleaning'[d] \in {"sleep", "lock"} /\ myRoom'[d] = room' /\ room' \in Client
  BY <1>0 DEF Sleeping, TypeOK
<1>2. CASE d = c /\ InitializeFails(c) /\ pc'[c] = "cleaning"
  <2>1. myRoom'[c] = myRoom[c] /\ myRoom[c] \in doomed'
    BY <1>0, <1>2 DEF InitializeFails, Goto, TypeOK
  <2> QED
    BY <1>1, <1>2, <2>1
<1>3. CASE d = c /\ OnClose(c) /\ cleaner'[myRoom[c]] = c
  BY <1>1, <1>3 DEF OnClose
<1>4. CASE cleaning[d] \in {"sleep", "lock"} /\ myRoom'[d] = myRoom[d]
  <2>1. room' = room
    BY <1>0, <1>1, <1>4, StartsClean DEF Changed, Sleeping
  <2>2. Sleeping(d, room) /\ d = cleaner[room]
    BY <1>0, <1>1, <1>4, <2>1 DEF Sleeping, Sound, CleanerInv
  <2>3. CASE cleaner' = cleaner
    BY <2>1, <2>2, <2>3
  <2>4. CASE /\ OnClose(c) /\ cleaner' = [cleaner EXCEPT ![myRoom[c]] = c]
             /\ pc[c] = "served" /\ c \notin closed
    <3>1. myRoom[c] # room
      <4>1. SUFFICES ASSUME myRoom[c] = room PROVE FALSE
        OBVIOUS
      <4>2. Relies(c) /\ Engaged(c)
        BY <1>0, <2>1, <2>4, <4>1, NotLate DEF Relies, Engaged
      <4> QED
        BY <1>0, <2>2, <4>2 DEF Sound, UsersInv
    <3> QED
      BY <1>0, <2>1, <2>2, <2>4, <3>1 DEF TypeOK
  <2> QED
    BY <1>0, <2>3, <2>4 DEF SleepsOn
<1> QED
  BY <1>0, <1>1, <1>2, <1>3, <1>4 DEF SleepsOn

\* A step of c takes a client to where it has found its room only as prepare does, and to
\* where it has cancelled the deletion only as open does.
LEMMA FoundStep ==
  ASSUME IInv, NEW c \in Client,
         Handle(c) \/ CleanRoom(c) \/ Drop(c) \/ OnClose(c),
         NEW d \in Client, d \notin closed', pc'[d] \in Found
  PROVE  /\ \/ d = c /\ (Prepare(c) \/ Started(c)) /\ pc'[d] = "prepared"
            \/ pc[d] \in Found /\ myRoom'[d] = myRoom[d]
         /\ pc'[d] \notin {"prepared", "session"} =>
              \/ d = c /\ pc[c] = "session" /\ (InitializeWait(c) \/ Initialize(c))
              \/ pc[d] \notin {"prepared", "session"}
         /\ pc'[d] = "served" => (d = c /\ Serve(c)) \/ (pc[d] = "served" /\ servedBy'[d] = servedBy[d])
<1>0. TypeOK /\ PhaseInv /\ Apart(c) /\ d \notin closed
  BY OthersApart, HistoryGrows DEF IInv, Inv
<1>1. CASE d # c
  BY <1>0, <1>1 DEF Apart
<1>2. CASE d = c
  BY <1>0, <1>2
     DEF Handle, CleanRoom, PrepareWait, Prepare, GetRoom, CreateRoom, Started, StartFails,
         StartFailed, Open, InitializeWait, Initialize, Initialized, InitializeFails, Serve, Drop,
         OnClose, Unserve, CleanWait, Clean, CleanDone, Unloaded, PhaseInv, TypeOK, Goto, Found
<1> QED
  BY <1>1, <1>2

\* Who found the registered room has it until it closes, unless it was too early or too late.
LEMMA FoundStays ==
  ASSUME IInv, ~split', NEW c \in Client,
         Handle(c) \/ CleanRoom(c) \/ Drop(c) \/ OnClose(c),
         NEW d \in Client, Relies(d)', pc'[d] \in Found
  PROVE  room' = myRoom'[d]
<1>0. /\ TypeOK /\ PhaseInv /\ Sound /\ ~split /\ Apart(c) /\ Changed(c)
      /\ d \notin late \cup closed \cup late' \cup closed'
      /\ myRoom'[d] \notin doomed' /\ doomed \subseteq doomed'
  BY OthersApart, InstancesChange, HistoryGrows DEF IInv, Inv, Relies
<1>1. CASE d = c /\ (Prepare(c) \/ Started(c)) /\ pc'[d] = "prepared"
  BY <1>0, <1>1 DEF Prepare, GetRoom, CreateRoom, Started, Goto, instances, Sound, RoomInv, TypeOK
<1>2. CASE pc[d] \in Found /\ myRoom'[d] = myRoom[d]
  <2>1. room = myRoom[d] /\ myRoom[d] \in Client /\ Relies(d) /\ cleaning[d] = "none"
    BY <1>0, <1>2, HasRoom DEF Sound, UsersInv, Relies
  <2>2. ~(Clean(c) /\ room = myRoom[c] /\ room' = None)
    <3>1. SUFFICES ASSUME Clean(c), room = myRoom[c], room' = None PROVE FALSE
      OBVIOUS
    <3>2. Sleeping(c, room)
      BY <3>1 DEF Clean, Sleeping
    <3>3. CASE pc[d] \in {"prepared", "session"}
      <4>1. late' = late \cup {e \in Client : pc[e] \in {"prepared", "session"} /\ myRoom[e] = room}
        BY <2>1, <3>1 DEF Clean
      <4> QED
        BY <1>0, <2>1, <3>3, <4>1
    <3>4. CASE pc[d] \notin {"prepared", "session"}
      <4>1. Engaged(d)
        BY <1>0, <1>2, <3>4 DEF Engaged, Found
      <4> QED
        BY <1>0, <2>1, <3>2, <4>1 DEF Sound, UsersInv
    <3> QED
      BY <3>3, <3>4
  <2>3. pc[c] # "pstart"
    BY <1>0, <2>1, NameAssumption DEF Sound, RoomInv
  <2> QED
    BY <1>0, <1>2, <2>1, <2>2, <2>3 DEF Changed
<1> QED
  BY <1>0, <1>1, <1>2, FoundStep

\* Nobody is about to delete the registered room once one of its clients has cancelled that.
LEMMA EngagedStays ==
  ASSUME IInv, ~split', NEW c \in Client,
         Handle(c) \/ CleanRoom(c) \/ Drop(c) \/ OnClose(c),
         NEW d \in Client, Relies(d)', Engaged(d)', NEW e \in Client, Sleeping(e, room)'
  PROVE  FALSE
<1>0. /\ TypeOK /\ TypeOK' /\ PhaseInv /\ Sound /\ ~split /\ Apart(c) /\ Changed(c) /\ SleepsOn(c)
      /\ d \notin late \cup closed \cup late' \cup closed'
      /\ myRoom'[d] \notin doomed' /\ doomed \subseteq doomed'
      /\ pc'[d] \in Found \ {"prepared", "session"}
  BY TypeStep, OthersApart, InstancesChange, CleanersChange, HistoryGrows
     DEF IInv, Inv, Relies, Engaged, Found
<1>1. /\ pc[d] \in Found /\ myRoom'[d] = myRoom[d] /\ room' = myRoom[d] /\ myRoom[d] \in Client
      /\ Relies(d) /\ room = myRoom[d]
  <2>1. room' = myRoom'[d]
    BY <1>0, FoundStays
  <2>2. pc[d] \in Found /\ myRoom'[d] = myRoom[d]
    BY <1>0, FoundStep
  <2> QED
    BY <1>0, <2>1, <2>2, HasRoom DEF Relies, Sound, UsersInv
<1>2. \/ d = c /\ pc[c] = "session" /\ (InitializeWait(c) \/ Initialize(c))
      \/ Engaged(d)
  BY <1>0, <1>1, FoundStep DEF Engaged, Found
<1>3. cleaning'[e] \in {"sleep", "lock"} /\ myRoom'[e] = room /\ room \notin doomed'
  BY <1>0, <1>1 DEF Sleeping
<1>4. CASE cleaning[e] \in {"sleep", "lock"} /\ myRoom'[e] = myRoom[e]
  <2>1. Sleeping(e, room)
    BY <1>3, <1>4 DEF Sleeping
  <2>2. CASE Engaged(d)
    BY <1>0, <1>1, <2>1, <2>2 DEF Sound, UsersInv
  <2>3. CASE d = c /\ pc[c] = "session" /\ (InitializeWait(c) \/ Initialize(c))
    <3>1. e = cleaner[room]
      BY <1>0, <1>1, <1>3, <2>1 DEF Sound, CleanerInv
    <3>2. Cleaning(e) \in Gone(c)
      BY <1>1, <1>4, <2>3, <3>1 DEF Gone, Cancelled
    <3>3. e # c
      BY <1>0, <2>3, <1>4 DEF PhaseInv
    <3> QED
      BY <1>0, <1>3, <3>2, <3>3 DEF Apart
  <2> QED
    BY <1>2, <2>2, <2>3
<1>5. CASE e = c /\ InitializeFails(c) /\ pc'[c] = "cleaning"
  <2>1. myRoom'[c] = myRoom[c] /\ myRoom[c] \in doomed'
    BY <1>0, <1>5 DEF InitializeFails, Goto, TypeOK
  <2> QED
    BY <1>3, <1>5, <2>1
<1>6. CASE e = c /\ OnClose(c)
  <2>1. Clients(myRoom[c]) = {c} /\ myRoom[c] = room /\ closed' = closed \cup {c}
    BY <1>0, <1>3, <1>6 DEF OnClose, PhaseInv, Connected
  <2>2. Engaged(d) /\ d # c
    BY <1>0, <1>2, <1>6, <2>1 DEF OnClose, Connected, InitializeWait, Initialize
  <2>3. CASE pc[d] = "served"
    <3>1. servedBy[d] = room
      BY <1>0, <1>1, <2>3 DEF Sound, UsersInv
    <3> QED
      BY <2>1, <2>2, <3>1 DEF Clients
  <2>4. CASE pc[d] # "served"
    <3>1. d \in Missed(c)
      BY <1>0, <1>1, <2>1, <2>2, <2>4 DEF Missed, Engaged
    <3>2. room \in doomed'
      BY <1>6, <2>1, <3>1 DEF OnClose
    <3> QED
      BY <1>3, <3>2
  <2> QED
    BY <2>3, <2>4
<1> QED
  BY <1>0, <1>3, <1>4, <1>5, <1>6 DEF SleepsOn

\* The clients of the registered room are served by it.
LEMMA UsersStep ==
  ASSUME IInv, ~split', NEW c \in Client,
         Handle(c) \/ CleanRoom(c) \/ Drop(c) \/ OnClose(c)
  PROVE  UsersInv'
<1>0. TypeOK /\ PhaseInv /\ Sound /\ ~split /\ Changed(c)
  BY InstancesChange, HistoryGrows DEF IInv, Inv
<1>1. ASSUME NEW d \in Client, Relies(d)', pc'[d] = "served"
      PROVE  servedBy'[d] = room' /\ room' \in ready'
  <2>1. d \notin closed' /\ d \notin late \cup closed /\ pc'[d] \in Found /\ ready \subseteq ready'
        /\ myRoom'[d] \notin doomed
    BY <1>0, <1>1, HistoryGrows DEF Relies, Found, Changed
  <2>2. room' = myRoom'[d] /\ pc[d] \in Found /\ myRoom'[d] = myRoom[d]
    BY <1>1, <2>1, FoundStays, FoundStep
  <2>3. room = myRoom[d] /\ Relies(d) /\ myRoom[d] \in Client
    BY <1>0, <2>1, <2>2, HasRoom DEF Relies, Sound, UsersInv
  <2>4. CASE d = c /\ Serve(c)
    <3>1. room \in ready
      BY <1>0, <2>3, <2>4 DEF Serve, Sound, RoomInv
    <3>2. servedBy'[d] = room
      BY <1>0, <2>3, <2>4, NameAssumption DEF Serve, TypeOK
    <3> QED
      BY <2>1, <2>2, <2>3, <3>1, <3>2
  <2>5. CASE pc[d] = "served" /\ servedBy'[d] = servedBy[d]
    BY <1>0, <2>1, <2>2, <2>3, <2>5 DEF Sound, UsersInv
  <2> QED
    BY <1>1, <2>1, <2>4, <2>5, FoundStep
<1> QED
  BY <1>1, FoundStays, EngagedStays DEF UsersInv

-----------------------------------------------------------------------------
(* The theorems                                                            *)

LEMMA InitInvariant == Init => IInv
<1> SUFFICES ASSUME Init PROVE IInv
  OBVIOUS
<1>1. TypeOK
  BY ConfigAssumption DEF Init, TypeOK, Pc
<1>2. OneInitializes
  <2>1. {c \in Client : pc[c] \in {"pstart", "init"}} = {}
    BY DEF Init
  <2> QED
    BY <2>1, FS_EmptySet DEF OneInitializes
<1>3. RegisteredAlive /\ RegisteredWatched /\ OneLock
  BY DEF Init, RegisteredAlive, RegisteredWatched, OneLock
<1>4. LockInv /\ QueueInv
  BY Actors DEF Init, LockInv, QueueInv
<1>5. PhaseInv /\ CleanerInv /\ RoomInv
  BY DEF Init, PhaseInv, CleanerInv, RoomInv
<1>6. UsersInv
  BY DEF Init, UsersInv, Found, Engaged
<1> QED
  BY <1>1, <1>2, <1>3, <1>4, <1>5, <1>6 DEF IInv, Inv

LEMMA NextInvariant == IInv /\ [Next]_vars => IInv'
<1> SUFFICES ASSUME IInv, [Next]_vars PROVE IInv'
  OBVIOUS
<1>1. ASSUME NEW c \in Client, Handle(c) \/ CleanRoom(c) \/ Drop(c) \/ OnClose(c)
      PROVE  IInv'
  <2>1. TypeOK' /\ LockInv' /\ QueueInv' /\ PhaseInv'
    BY <1>1, TypeStep, LockStep, QueueStep, PhaseStep
  <2>2. ~split' => /\ RegisteredAlive' /\ RegisteredWatched' /\ OneInitializes'
                   /\ OneLock' /\ RoomInv' /\ CleanerInv' /\ UsersInv'
    BY <1>1, OneStep, OneLockStep, RoomStep, CleanerStep, UsersStep
  <2> QED
    BY <2>1, <2>2 DEF IInv, Inv
<1>2. CASE UNCHANGED vars
  BY <1>2 DEF vars, handlers, instances, locks, files, history, IInv, Inv, TypeOK, RegisteredAlive,
              RegisteredWatched, OneInitializes, LockInv, QueueInv, PhaseInv, OneLock, RoomInv,
              CleanerInv, UsersInv, Relies, Sleeping, Engaged
<1> QED
  BY <1>1, <1>2 DEF Next

\* prepare, open, on_close and _clean_room, in whatever order the handlers of any number of
\* clients run, keep one room at a time in the server, which has not been stopped, whose file
\* is watched and which one handler makes and initializes, until one takes a new lock for the
\* room while another has one that was deleted from _room_locks.
THEOREM Invariant == Spec => []IInv
<1>1. IInv /\ [Next]_vars => IInv'
  BY NextInvariant
<1> QED
  BY InitInvariant, <1>1, PTL DEF Spec

\* Clients that overlap as they like are served by the room they found, which is registered
\* and initialized, whatever the cleaners do, except where the room was deleted before the
\* client could cancel that, the deletion could not be cancelled, or the lock was split.
THEOREM Together == Spec => []ServedTogether
<1>1. IInv => ServedTogether
  BY DEF IInv, UsersInv, Relies, Found, ServedTogether
<1> QED
  BY <1>1, Invariant, PTL

-----------------------------------------------------------------------------
(* The handlers implement RoomService                                      *)

users == {c \in Client : Engaged(c) /\ myRoom[c] = room /\ room \notin doomed}

\* Nobody relies on a room that is not there.
LEMMA NoUsers ==
  ASSUME IInv, room = None
  PROVE  users = {}
BY DEF IInv, Inv, TypeOK, PhaseInv, Engaged, users

LEMMA ServiceStep ==
  ASSUME IInv, ~split', NEW c \in Client,
         Handle(c) \/ CleanRoom(c) \/ Drop(c) \/ OnClose(c)
  PROVE  [Rooms!Next]_(Rooms!vars)
<1> USE DEF Goto
<1>0. /\ TypeOK /\ PhaseInv /\ RoomInv /\ UsersInv /\ RegisteredAlive /\ ~split
      /\ Changed(c) /\ Apart(c) /\ IInv' /\ doomed \subseteq doomed'
  BY InstancesChange, OthersApart, NextInvariant, HistoryGrows DEF IInv, Inv, Next, Sound
<1>1. /\ room = None => users = {}
      /\ room' = None => users' = {}
  <2>1. room' = None => users' = {}
    BY <1>0 DEF IInv, Inv, TypeOK, PhaseInv, Engaged, users
  <2> QED
    BY <2>1, NoUsers
<1>2. CASE Started(c)
  <2>1. pc[c] = "pstart" /\ room' = c /\ UNCHANGED <<ready, stopped>>
    BY <1>2 DEF Started
  <2>2. room = None /\ c \notin ready \cup stopped
    BY <1>0, <2>1 DEF RoomInv, Unstarted
  <2>3. users' = {}
    <3>1. SUFFICES ASSUME NEW d \in Client, Engaged(d)', myRoom'[d] = c PROVE FALSE
      BY <1>0, <1>2, <2>1 DEF users, Started
    <3>2. d # c
      BY <1>0, <1>2, <3>1 DEF Engaged, Started, TypeOK
    <3>3. myRoom[d] = c
      BY <1>0, <3>1, <3>2 DEF Apart
    <3> QED
      BY <1>0, <2>1, <3>2, <3>3 DEF RoomInv, Unstarted
  <2> QED
    BY <1>1, <2>1, <2>2, <2>3 DEF Rooms!Next, Rooms!Create, users
<1>3. CASE StartFails(c)
  <2>1. pc[c] = "pstart" /\ stopped' = stopped \cup {c} /\ UNCHANGED <<room, ready>>
    BY <1>3 DEF StartFails
  <2>2. room = None
    BY <1>0, <2>1 DEF RoomInv
  <2> QED
    BY <1>1, <2>1, <2>2 DEF Rooms!Next, Rooms!Discard, users
<1>4. CASE Initialized(c)
  <2>1. /\ pc[c] = "init" /\ pc' = [pc EXCEPT ![c] = "toserve"]
        /\ ready' = ready \cup {myRoom[c]} /\ UNCHANGED <<room, stopped, doomed, closed, myRoom>>
    BY <1>4 DEF Initialized, history
  <2>2. myRoom[c] \in Client /\ myRoom[c] \notin ready
    BY <1>0, <2>1 DEF RoomInv, PhaseInv, TypeOK
  <2>3. users' = users
    BY <1>0, <2>1 DEF Engaged, users, TypeOK
  <2> QED
    BY <2>1, <2>2, <2>3 DEF Rooms!Next, Rooms!Initialize, users
<1>5. CASE Clean(c) /\ room' # room
  <2>1. /\ room # None /\ room' = None /\ room = myRoom[c] /\ stopped' = stopped \cup {room}
        /\ ready' = ready
    BY <1>0, <1>5 DEF Changed, Clean, PhaseInv
  <2>2. Sleeping(c, room)
    BY <1>5, <2>1 DEF Clean, Sleeping
  <2>3. users = {}
    <3>1. SUFFICES ASSUME NEW d \in Client, Engaged(d), myRoom[d] = room, room \notin doomed
                   PROVE  FALSE
      BY DEF users
    <3>2. Relies(d)
      BY <1>0, <2>1, <3>1, NotLate DEF Engaged, Relies
    <3> QED
      BY <1>0, <2>2, <3>1, <3>2 DEF UsersInv
  <2> QED
    BY <1>1, <2>1, <2>3 DEF Rooms!Next, Rooms!Delete, users
<1>6. CASE ~Started(c) /\ ~StartFails(c) /\ ~Initialized(c) /\ (~Clean(c) \/ room' = room)
  <2>1. UNCHANGED <<room, ready, stopped>>
    <3>1. ~(pc[c] = "pstart" /\ pc'[c] = "prepared")
      BY <1>0, <1>6
         DEF Handle, CleanRoom, PrepareWait, Prepare, StartFailed, Open, InitializeWait,
             Initialize, InitializeFails, Serve, Drop, OnClose, Unserve, CleanWait, Clean,
             CleanDone, Unloaded, Connected, PhaseInv, TypeOK
    <3> QED
      BY <1>0, <1>6, <3>1 DEF Changed
  <2>2. \A d \in Client \ {c} : Engaged(d)' /\ myRoom'[d] = room' => Engaged(d) /\ myRoom[d] = room
    BY <1>0, <2>1 DEF Apart, Engaged, TypeOK
  <2>3. CASE doomed' = doomed
    <3>1. \A d \in Client \ {c} : d \in users' <=> d \in users
      <4>1. \A d \in Client \ {c} : (d \in closed' <=> d \in closed) /\ pc'[d] = pc[d] /\ myRoom'[d] = myRoom[d]
        BY <1>0 DEF Apart
      <4> QED
        BY <2>1, <2>3, <4>1 DEF users, Engaged
    <3>2. users' = users \cup {c} \/ users' \subseteq users
      BY <3>1 DEF users
    <3> QED
      BY <1>1, <2>1, <3>2 DEF Rooms!Next, Rooms!Use, Rooms!vars, users
  <2>4. CASE doomed' # doomed
    <3>1. OnClose(c) \/ InitializeFails(c)
      BY <2>4 DEF Handle, CleanRoom, PrepareWait, Prepare, Started, StartFails, StartFailed, Open,
                  InitializeWait, Initialize, Initialized, Serve, Drop, Unserve, CleanWait, Clean,
                  Unloaded, history
    <3>2. ~Engaged(c)' \/ (doomed' = doomed)
      BY <1>0, <3>1 DEF OnClose, InitializeFails, Engaged, TypeOK
    <3>3. users' \subseteq users
      BY <1>0, <2>1, <2>2, <2>4, <3>2 DEF users
    <3> QED
      BY <1>1, <2>1, <3>3 DEF Rooms!Next, Rooms!Use, Rooms!vars, users
  <2> QED
    BY <2>3, <2>4
<1> QED
  BY <1>2, <1>3, <1>4, <1>5, <1>6

\* The rooms of the handlers are those of RoomService until the lock is split: one at a time
\* is registered, each once, and none is deleted while a client that has cancelled its deletion
\* is using it, except one whose deletion was scheduled past the client or cannot be cancelled.
THEOREM Implements == Spec => Service
<1>1. Init => Rooms!Init
  BY DEF Init, Rooms!Init, Engaged
<1>2. IInv /\ [Next]_vars => [Rooms!Next \/ split']_(Rooms!vars)
  <2> SUFFICES ASSUME IInv, [Next]_vars, ~split' PROVE [Rooms!Next]_(Rooms!vars)
    OBVIOUS
  <2>1. CASE UNCHANGED vars
    BY <2>1 DEF vars, handlers, instances, history, Rooms!vars, Engaged
  <2>2. ASSUME NEW c \in Client, Handle(c) \/ CleanRoom(c) \/ Drop(c) \/ OnClose(c)
        PROVE  [Rooms!Next]_(Rooms!vars)
    BY <2>2, ServiceStep
  <2> QED
    BY <2>1, <2>2 DEF Next
<1> QED
  BY Invariant, <1>1, <1>2, PTL DEF Spec, Service
=============================================================================
