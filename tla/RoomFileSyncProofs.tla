------------------------- MODULE RoomFileSyncProofs -------------------------
(* Theorems about RoomFileSync for any rooms, bounds and configuration.    *)
EXTENDS RoomFileSync, TLAPS

USE NameAssumption, ConfigAssumption, BudgetAssumption

-----------------------------------------------------------------------------
(* Type correctness                                                        *)

\* Asking for a lock keeps the locks well typed.
LEMMA RequestType ==
  ASSUME TypeOK, NEW t \in Task, NEW l \in Lock \cup {None}, NEW h \in Pc, NEW w \in Pc,
         Request(t, l, h, w)
  PROVE  LocksTypeOK'
BY DEF TypeOK, LocksTypeOK, Request, Free, Released, Waiting

\* So does getting it after a wait,
LEMMA TakeType ==
  ASSUME TypeOK, NEW t \in Task, NEW l \in Lock \cup {None}, NEW h \in Pc, Take(t, l, h)
  PROVE  LocksTypeOK'
BY DEF TypeOK, LocksTypeOK, Take, Left

\* moving on to another await,
LEMMA GotoType ==
  ASSUME TypeOK, NEW t \in Task, NEW p \in Pc, Goto(t, p)
  PROVE  LocksTypeOK'
BY DEF TypeOK, LocksTypeOK, Goto

\* ending a task,
LEMMA ReturnType ==
  ASSUME TypeOK, NEW t \in Task, Return(t) \/ Abort(t)
  PROVE  /\ LocksTypeOK' /\ JobsTypeOK'
         /\ cancelled' \subseteq Saver /\ UNCHANGED <<model, inner, todo>>
         /\ serving' \in Room \cup {None}
         /\ answer' \in [Saver -> {"none", "success", "lost"}]
<1>1. LocksTypeOK'
  <2>1. Left(t) \in [Task -> SUBSET Task] /\ Released(t) \in [Lock -> Task \cup {None}]
    BY DEF TypeOK, LocksTypeOK, Left, Released
  <2> QED
    BY <2>1 DEF TypeOK, LocksTypeOK, Return, Abort, Finish, Pc
<1>2. answer' \in [Saver -> {"none", "success", "lost"}]
  BY DEF TypeOK, Return, Abort, Answer
<1>3. UNCHANGED jobs => JobsTypeOK'
  BY DEF TypeOK, JobsTypeOK, jobs
<1> QED
  BY <1>1, <1>2, <1>3 DEF TypeOK, Return, Abort, Finish

\* having the watcher call a room,
LEMMA NotifyType ==
  ASSUME TypeOK, NEW rooms \in SUBSET Room, NotifyNext(rooms)
  PROVE  /\ LocksTypeOK' /\ JobsTypeOK'
         /\ UNCHANGED <<cancelled, model, inner, answer>>
         /\ serving' \in Room /\ todo' \subseteq Room
<1>1. LocksTypeOK'
  BY RequestType DEF NotifyNext, Task, Lock, Pc, FileHold, FileWait
<1> QED
  BY <1>1 DEF TypeOK, JobsTypeOK, NotifyNext, jobs

\* and ending a reload, for whichever task ran it.
LEMMA DoneType ==
  ASSUME TypeOK, NEW t \in Task, Done(t)
  PROVE  /\ LocksTypeOK' /\ JobsTypeOK'
         /\ cancelled' \subseteq Saver /\ UNCHANGED <<model, inner>>
         /\ serving' \in Room \cup {None} /\ todo' \subseteq Room
         /\ answer' \in [Saver -> {"none", "success", "lost"}]
BY ReturnType, NotifyType DEF Done, TypeOK

\* A new task is a save task of a room.
LEMMA CreateType ==
  ASSUME TypeOK, NEW r \in Room, NEW n \in BOOLEAN, CreateTask(r, n)
  PROVE  LocksTypeOK' /\ JobsTypeOK'
<1>1. created' \in Saver
  BY DEF CreateTask, TypeOK, JobsTypeOK, Saver
<1>2. LocksTypeOK'
  BY <1>1, GotoType DEF CreateTask, Task, Pc
<1> QED
  BY <1>1, <1>2 DEF CreateTask, TypeOK, JobsTypeOK, Saver

\* A task works for a room, or for none.
LEMMA RoomForType ==
  ASSUME TypeOK, NEW t \in Task
  PROVE  RoomFor(t) \in Room \cup {None}
BY DEF RoomFor, TypeOK, JobsTypeOK, Task

\* The initial state is well typed.
LEMMA InitType == Init => TypeOK
BY DEF Init, TypeOK, JobsTypeOK, LocksTypeOK, Task, Event, Pc, Version, Settled

-----------------------------------------------------------------------------
\* Every step keeps the types.
LEMMA TypeStep == TypeOK /\ CreatedInv /\ [Next]_vars => TypeOK'
<1> SUFFICES ASSUME TypeOK, CreatedInv, [Next]_vars PROVE TypeOK'
  OBVIOUS
<1> USE DEF files, loader, room, watch, history, Spare, Spend, Event
<1>j. UNCHANGED jobs => JobsTypeOK'
  BY DEF TypeOK, JobsTypeOK, jobs
<1>l. UNCHANGED locks => LocksTypeOK'
  BY DEF TypeOK, LocksTypeOK, locks
<1>w. Watcher \in Task /\ \A s \in Saver : s \in Task /\ s # Watcher
  BY DEF Task, Saver
<1>p. {"new", "sleep", "aget", "lock", "stat", "shield", "drain", "ulock", "rlock", "rget",
       "culock", "cmp", "set", "wlock", "wstat", "wmoved", "wpath", "wpathn"} \subseteq Pc
  BY DEF Pc, PathPc, ContentPc, FileWait, FileHold, UpdateWait, UpdateHold
<1>n. \A r \in Room : r \in Lock \cup {None}
  BY DEF Lock
<1>c. ASSUME NEW r \in Room, OnDocumentChange(r) PROVE JobsTypeOK' /\ LocksTypeOK'
  BY <1>c, <1>j, <1>l, CreateType DEF OnDocumentChange, jobs, locks
<1>s. ASSUME NEW s \in Saver, pc[s] # "none", Snapshot(s) PROVE model' \in [Task -> Version]
  <2>1. roomOf[s] \in Room
    BY <1>s DEF CreatedInv
  <2> QED
    BY <1>s, <2>1, <1>w DEF TypeOK, Snapshot
<1>1. ASSUME NEW r \in Room, Edit(r) PROVE TypeOK'
  BY <1>1, <1>c DEF TypeOK, Edit, Version
<1>2. ASSUME NEW r \in Room, SaveToDisc(r) PROVE TypeOK'
  <2>1. JobsTypeOK' /\ LocksTypeOK'
    BY <1>2, <1>j, <1>l, CreateType DEF SaveToDisc
  <2> QED
    BY <1>2, <2>1 DEF TypeOK, SaveToDisc
<1>3. CASE ExternalWrite
  BY <1>3, <1>j, <1>l DEF TypeOK, ExternalWrite, tasks
<1>4. CASE Rename
  BY <1>4, <1>j, <1>l DEF TypeOK, Rename, tasks
<1>5. ASSUME NEW s \in Saver, Start(s) PROVE TypeOK'
  <2>1. CASE Return(s)
    BY <1>5, <2>1, <1>w, ReturnType DEF TypeOK, Start
  <2>2. CASE ~Return(s)
    <3>1. LocksTypeOK'
      BY <1>5, <2>2, <1>w, <1>p, GotoType DEF Start
    <3>2. cancelled' \subseteq Saver /\ model' \in [Task -> Version]
      <4>1. Superseded(s) \subseteq Saver
        BY DEF TypeOK, JobsTypeOK, Superseded
      <4> QED
        BY <1>5, <2>2, <4>1, <1>s DEF TypeOK, Start
    <3> QED
      BY <1>5, <2>2, <3>1, <3>2, <1>j DEF TypeOK, Start
  <2> QED
    BY <2>1, <2>2
<1>6. ASSUME NEW s \in Saver, Wake(s) PROVE TypeOK'
  <2>1. LocksTypeOK'
    BY <1>6, <1>w, <1>p, GotoType DEF Wake
  <2>2. model' \in [Task -> Version]
    BY <1>6, <1>w, <1>s DEF Wake
  <2> QED
    BY <1>6, <2>1, <2>2, <1>j DEF TypeOK, Wake
<1>7. ASSUME NEW s \in Saver, LockFile(s) PROVE TypeOK'
  <2>1. LocksTypeOK'
    BY <1>7, <1>w, <1>p, RequestType, TakeType DEF LockFile, Lock
  <2> QED
    BY <1>7, <2>1, <1>j DEF TypeOK, LockFile
<1>8. ASSUME NEW s \in Saver, CheckedSave(s) PROVE TypeOK'
  BY <1>8, <1>w, <1>p, <1>j, GotoType DEF TypeOK, CheckedSave, Settled
<1>9. ASSUME NEW s \in Saver, OutOfBand(s) PROVE TypeOK'
  BY <1>9, <1>w, <1>p, <1>j, RequestType DEF TypeOK, OutOfBand, Lock
<1>10. ASSUME NEW s \in Saver, NotSaved(s) PROVE TypeOK'
  BY <1>10, <1>w, ReturnType DEF TypeOK, NotSaved
<1>11. ASSUME NEW s \in Saver, InnerSave(s) PROVE TypeOK'
  <2>1. LocksTypeOK'
    BY <1>11, <1>l DEF InnerSave
  <2>2. JobsTypeOK'
    BY <1>11, <1>j DEF InnerSave
  <2>3. /\ disk' \in [content: Nat, mtime: Nat] /\ clock' \in Nat /\ lastModified' \in Nat
        /\ known' \in [Room -> Nat] /\ savedRev' \in [Room -> Nat]
    BY <1>11, <1>w DEF TypeOK, InnerSave, Version
  <2> QED
    BY <1>11, <2>1, <2>2, <2>3 DEF TypeOK, InnerSave, Settled
<1>12. ASSUME NEW s \in Saver, InnerHash(s) PROVE TypeOK'
  BY <1>12, <1>j, <1>l DEF TypeOK, InnerHash, Settled
<1>m. ASSUME NEW t \in Task, MarkClean(t) PROVE dirty' \in [Room -> BOOLEAN] /\ Done(t)
  BY <1>m DEF TypeOK, MarkClean
<1>13. ASSUME NEW s \in Saver, Saved(s) PROVE TypeOK'
  <2>1. CASE MarkClean(s)
    BY <1>13, <2>1, <1>m, <1>w, DoneType DEF TypeOK, Saved
  <2>2. CASE ~MarkClean(s)
    <3>1. LocksTypeOK'
      BY <1>13, <2>2, <1>w, <1>p, RequestType, RoomForType DEF Saved, RoomFor, Lock
    <3> QED
      BY <1>13, <2>2, <3>1, <1>j DEF TypeOK, Saved
  <2> QED
    BY <2>1, <2>2
<1>14. ASSUME NEW s \in Saver, SaveFailed(s) \/ Drained(s) PROVE TypeOK'
  BY <1>14, <1>w, ReturnType DEF TypeOK, SaveFailed, Drained
<1>15. ASSUME NEW t \in Task, Reload(t) PROVE TypeOK'
  <2>1. CASE LockForLoad(t)
    BY <2>1, <1>p, <1>j, TakeType DEF TypeOK, LockForLoad, Lock
  <2>2. CASE Load(t)
    <3>1. LocksTypeOK'
      BY <2>2, <1>p, RequestType, RoomForType DEF Load, Lock
    <3> QED
      BY <2>2, <3>1, <1>j DEF TypeOK, Load, Version
  <2>3. CASE LoadFails(t)
    BY <2>3, DoneType DEF TypeOK, LoadFails
  <2>4. CASE LockForSet(t)
    <3>1. LocksTypeOK'
      BY <2>4, <1>p, TakeType, RoomForType DEF LockForSet, Lock
    <3> QED
      BY <2>4, <3>1, <1>j DEF TypeOK, LockForSet
  <2>5. ASSUME Adopt(t) PROVE known' \in [Room -> Nat] /\ savedRev' = savedRev /\ MarkClean(t)
    BY <2>5 DEF TypeOK, Adopt, Version
  <2>6. CASE Compare(t)
    <3>1. CASE Adopt(t)
      BY <2>6, <3>1, <2>5, <1>m, DoneType DEF TypeOK, Compare
    <3>2. CASE ~Adopt(t)
      <4>1. LocksTypeOK'
        BY <2>6, <3>2, <1>p, GotoType DEF Compare
      <4> QED
        BY <2>6, <3>2, <4>1, <1>j DEF TypeOK, Compare
    <3> QED
      BY <3>1, <3>2
  <2>7. CASE Set(t)
    <3>1. doc' \in [Room -> Version]
      <4>1. CASE RoomFor(t) \in Room
        BY <2>7, <4>1 DEF TypeOK, Set, Version
      <4>2. CASE RoomFor(t) \notin Room
        BY <2>7, <4>2 DEF TypeOK, Set
      <4> QED
        BY <4>1, <4>2
    <3> QED
      BY <2>7, <3>1, <2>5, <1>m, DoneType DEF TypeOK, Set
  <2> QED
    BY <1>15, <2>1, <2>2, <2>3, <2>4, <2>6, <2>7 DEF Reload
<1>16. ASSUME NEW s \in Saver, Cancel(s) PROVE TypeOK'
  <2>1. CASE StopWaiting(s) /\ ~Return(s)
    <3>1. LocksTypeOK'
      BY <2>1, <1>w, <1>p, GotoType DEF StopWaiting
    <3> QED
      BY <1>16, <2>1, <3>1, <1>j DEF TypeOK, Cancel, StopWaiting
  <2>2. CASE Return(s) \/ Abort(s)
    BY <1>16, <2>2, <1>w, ReturnType DEF TypeOK, Cancel
  <2> QED
    BY <1>16, <2>1, <2>2 DEF Cancel, StopWaiting
<1>17. CASE WatchLock
  <2>1. LocksTypeOK' /\ seenPath' \in Nat
    BY <1>17, <1>w, <1>p, RequestType, TakeType DEF TypeOK, WatchLock, StatPc, Lock
  <2> QED
    BY <1>17, <2>1, <1>j DEF TypeOK, WatchLock
<1>18. CASE WatchStat
  <2>1. CASE pc[Watcher] = "wstat"
    BY <1>18, <2>1, <1>w, ReturnType, NotifyType DEF TypeOK, WatchStat
  <2>2. CASE pc[Watcher] = "wmoved"
    <3>1. LocksTypeOK'
      BY <1>18, <2>2, <1>w, <1>p DEF TypeOK, LocksTypeOK, WatchStat, Released
    <3> QED
      BY <1>18, <2>2, <3>1, <1>j DEF TypeOK, WatchStat
  <2> QED
    BY <1>18, <2>1, <2>2 DEF WatchStat
<1>19. CASE WatchPath
  BY <1>19, <1>c DEF TypeOK, WatchPath
<1>20. CASE WatchPathDone
  BY <1>20, <1>w, ReturnType, NotifyType DEF TypeOK, WatchPathDone
<1>21. CASE WatchFails
  BY <1>21, <1>w, ReturnType DEF TypeOK, WatchFails
<1>22. CASE UNCHANGED vars
  BY <1>22, <1>j, <1>l DEF TypeOK, vars, tasks
<1> QED
  BY <1>1, <1>2, <1>3, <1>4, <1>5, <1>6, <1>7, <1>8, <1>9, <1>10, <1>11, <1>12, <1>13, <1>14,
     <1>15, <1>16, <1>17, <1>18, <1>19, <1>20, <1>21, <1>22, <1>w
  DEF Next, Environment, Watch, SaveStep, Save, Inner

-----------------------------------------------------------------------------
(* What a step does to the save tasks; a task moves only once it exists    *)

\* What a step does to the save tasks and their cancellations: an await of one
\* task, the creation of a task, or the first step of one, which cancels the
\* task it replaces.
Await(t, p) ==
  /\ UNCHANGED jobs /\ cancelled' \in {cancelled, cancelled \ {t}}
  /\ pc[t] \notin {"none", "done"} /\ p \notin {"none", "new"}
  /\ SaveDelaySet => pc[t] # "new"
  /\ pc' = [pc EXCEPT ![t] = p]
  /\ p = "drain" => t \in cancelled \ cancelled'
  /\ pc[t] = "drain" \/ cancelled' # cancelled => p \in {"done", "drain"}
First(s) ==
  /\ UNCHANGED jobs /\ cancelled' = cancelled \cup Superseded(s)
  /\ \A u \in Saver : u < s => pc[u] # "new"
  /\ pc[s] = "new" /\ \E p \in {"aget", "sleep"} : pc' = [pc EXCEPT ![s] = p]
Shape == \/ UNCHANGED <<jobs, cancelled, pc>>
         \/ \E t \in Task, p \in Pc : Await(t, p)
         \/ \E r \in Room, n \in BOOLEAN : CreateTask(r, n) /\ UNCHANGED cancelled
         \/ \E s \in Saver : First(s)

\* Every step has that shape.
LEMMA StepShape == TypeOK /\ [Next]_vars => Shape
<1> SUFFICES ASSUME TypeOK, [Next]_vars PROVE Shape
  OBVIOUS
<1> USE DEF jobs, locks
<1>w. Watcher \in Task /\ Saver \subseteq Task /\ Watcher \notin Saver
  BY DEF Task, Saver
<1>a. ASSUME NEW t \in Task, NEW p \in Pc, Await(t, p) PROVE Shape
  BY <1>a DEF Shape
<1>g. ASSUME NEW t \in Task, pc[t] \notin {"none", "new", "done", "drain"},
             UNCHANGED <<jobs, cancelled>>,
             NEW h \in Pc \ {"none", "new", "drain"}, NEW v \in Pc \ {"none", "new", "drain"},
             \/ Goto(t, h)
             \/ \E l : Request(t, l, h, v)
             \/ \E l : Take(t, l, h)
      PROVE  Shape
  <2>1. Await(t, h) \/ Await(t, v)
    BY <1>g DEF Await, Goto, Request, Take
  <2> QED
    BY <2>1, <1>a
<1>e. ASSUME NEW t \in Task, pc[t] \notin {"none", "done"}, Finish(t),
             pc[t] = "new" => ~SaveDelaySet, t = Watcher => pc[t] # "drain"
      PROVE  Shape
  <2>0. Watcher \notin cancelled
    BY <1>w DEF TypeOK
  <2>1. Await(t, IF t = Watcher THEN "sleep" ELSE "done")
    BY <1>e, <2>0 DEF Await, Finish
  <2>2. "sleep" \in Pc /\ "done" \in Pc
    BY DEF Pc
  <2> QED
    BY <2>1, <2>2, <1>a
<1> USE DEF Pc, FileWait, FileHold, UpdateWait, UpdateHold, PathPc, ContentPc
<1>n. ASSUME pc[Watcher] \notin {"none", "new", "done", "drain"}, NEW rooms, NotifyNext(rooms) PROVE Shape
  BY <1>n, <1>g, <1>w DEF NotifyNext
<1>d. ASSUME NEW t \in Task, pc[t] \notin {"none", "done"}, Done(t) \/ Return(t) \/ Abort(t),
             pc[t] = "new" => ~SaveDelaySet, t = Watcher => pc[t] \notin {"new", "drain"}
      PROVE  Shape
  BY <1>d, <1>e, <1>n DEF Done, Return, Abort
<1>c. ASSUME NEW r \in Room, NEW n \in BOOLEAN, CreateTask(r, n), UNCHANGED cancelled PROVE Shape
  BY <1>c DEF Shape
<1>u. ASSUME UNCHANGED <<jobs, cancelled, pc>> PROVE Shape
  BY <1>u DEF Shape
<1>o. ASSUME NEW r \in Room, OnDocumentChange(r), UNCHANGED cancelled PROVE Shape
  BY <1>o, <1>c, <1>u DEF OnDocumentChange
<1>1. CASE Environment
  BY <1>1, <1>c, <1>o, <1>u DEF Environment, Edit, SaveToDisc, ExternalWrite, Rename, tasks
<1>r. ASSUME NEW t \in Task, Reload(t) PROVE Shape
  <2>1. CASE LockForLoad(t)
    BY <2>1, <1>g DEF LockForLoad
  <2>2. CASE Load(t)
    BY <2>2, <1>g DEF Load
  <2>3. CASE LoadFails(t)
    BY <2>3, <1>d DEF LoadFails
  <2>4. CASE LockForSet(t)
    BY <2>4, <1>g DEF LockForSet
  <2>5. CASE Compare(t) \/ Set(t)
    BY <2>5, <1>g, <1>d DEF Compare, Set, Adopt, MarkClean
  <2> QED
    BY <1>r, <2>1, <2>2, <2>3, <2>4, <2>5 DEF Reload
<1>2. ASSUME NEW s \in Saver, Save(s) PROVE Shape
  <2>1. CASE Reload(s)
    BY <2>1, <1>r, <1>w
  <2>2. CASE Start(s)
    <3>1. CASE ~SaveDelaySet /\ Return(s)
      BY <2>2, <3>1, <1>w, <1>d DEF Start
    <3>2. CASE SaveDelaySet \/ now[s]
      <4>1. First(s)
        BY <2>2, <3>2 DEF Start, First, Goto
      <4> QED
        BY <4>1 DEF Shape
    <3> QED
      BY <2>2, <3>1, <3>2 DEF Start
  <2>3. CASE Wake(s) \/ LockFile(s) \/ CheckedSave(s) \/ OutOfBand(s)
    BY <2>3, <1>w, <1>g DEF Wake, LockFile, CheckedSave, OutOfBand
  <2>4. CASE NotSaved(s) \/ SaveFailed(s) \/ Drained(s)
    BY <2>4, <1>w, <1>d DEF NotSaved, SaveFailed, Drained
  <2>5. CASE Saved(s)
    <3>1. pc[s] \in {"shield", "ulock"} /\ s # Watcher
      BY <2>5, <1>w DEF Saved
    <3>2. CASE MarkClean(s)
      BY <3>1, <3>2, <1>w, <1>d DEF MarkClean
    <3> QED
      BY <2>5, <3>1, <3>2, <1>w, <1>g DEF Saved
  <2> QED
    BY <1>2, <2>1, <2>2, <2>3, <2>4, <2>5 DEF Save
<1>3. ASSUME NEW s \in Saver, Cancel(s) PROVE Shape
  <2>1. CASE Return(s) \/ Abort(s)
    BY <1>3, <2>1, <1>w, <1>d DEF Cancel
  <2>2. CASE pc[s] = "shield" /\ cancelled' = cancelled \ {s} /\ Goto(s, "drain") /\ UNCHANGED jobs
    <3>1. Await(s, "drain")
      BY <1>3, <2>2 DEF Await, Goto, Cancel
    <3> QED
      BY <3>1, <1>a, <1>w
  <2> QED
    BY <1>3, <2>1, <2>2 DEF Cancel, StopWaiting
<1>4. ASSUME NEW s \in Saver, Inner(s) PROVE Shape
  BY <1>4, <1>u DEF Inner, InnerSave, InnerHash
<1>5. CASE Watch
  <2>1. CASE WatchLock
    BY <2>1, <1>w, <1>g DEF WatchLock, StatPc
  <2>2. CASE WatchStat
    <3>1. CASE pc[Watcher] = "wstat"
      BY <2>2, <3>1, <1>w, <1>d, <1>n DEF WatchStat
    <3>2. CASE pc[Watcher] = "wmoved"
      <4>1. Await(Watcher, "wpath") \/ Await(Watcher, "wpathn")
        BY <2>2, <3>2 DEF WatchStat, Await
      <4> QED
        BY <4>1, <1>a, <1>w
    <3> QED
      BY <2>2, <3>1, <3>2 DEF WatchStat
  <2>3. CASE WatchPath
    BY <2>3, <1>o DEF WatchPath, TypeOK
  <2>4. CASE WatchPathDone \/ WatchFails
    BY <2>4, <1>w, <1>d, <1>n DEF WatchPathDone, WatchFails
  <2> QED
    BY <1>5, <2>1, <2>2, <2>3, <2>4, <1>r, <1>w DEF Watch
<1>6. CASE UNCHANGED vars
  BY <1>6, <1>u DEF vars, tasks
<1> QED
  BY <1>1, <1>2, <1>3, <1>4, <1>5, <1>6 DEF Next, SaveStep

\* No task moves before it is created, and a created one has a room.
LEMMA CreatedStep == TypeOK /\ CreatedInv /\ [Next]_vars => CreatedInv'
<1> SUFFICES ASSUME TypeOK, CreatedInv, [Next]_vars PROVE CreatedInv'
  OBVIOUS
<1>w. Saver \subseteq Task /\ pc \in [Task -> Pc]
  BY DEF Task, TypeOK, LocksTypeOK
<1>1. CASE UNCHANGED <<jobs, cancelled, pc>>
  BY <1>1 DEF CreatedInv, jobs
<1>2. ASSUME NEW t \in Task, NEW p \in Pc, Await(t, p) PROVE CreatedInv'
  BY <1>2, <1>w DEF CreatedInv, Await, jobs
<1>3. ASSUME NEW s \in Saver, First(s) PROVE CreatedInv'
  BY <1>3, <1>w DEF CreatedInv, First, jobs
<1>c. ASSUME NEW r \in Room, NEW n, CreateTask(r, n) PROVE CreatedInv'
  <2>1. created' \in Saver /\ created' = created + 1 /\ created \in Nat
    BY <1>c DEF CreateTask, TypeOK, JobsTypeOK, Saver
  <2>2. /\ roomOf' = [roomOf EXCEPT ![created'] = r] /\ pc' = [pc EXCEPT ![created'] = "new"]
    BY <1>c DEF CreateTask, Goto
  <2>3. SUFFICES ASSUME NEW s \in Saver
                 PROVE  IF s <= created' THEN roomOf'[s] \in Room /\ pc'[s] # "none"
                        ELSE pc'[s] = "none"
    BY DEF CreatedInv
  <2>4. CASE s = created'
    <3>1. roomOf'[s] = r /\ pc'[s] = "new" /\ s <= created'
      BY <2>1, <2>2, <2>4, <1>w DEF TypeOK, JobsTypeOK, Saver
    <3> QED
      BY <3>1
  <2>5. CASE s # created'
    <3>1. roomOf'[s] = roomOf[s] /\ pc'[s] = pc[s] /\ (s <= created' <=> s <= created)
      BY <2>1, <2>2, <2>5 DEF TypeOK, JobsTypeOK, LocksTypeOK, Saver, Task
    <3> QED
      BY <3>1 DEF CreatedInv
  <2> QED
    BY <2>4, <2>5
<1> QED
  BY <1>1, <1>2, <1>3, <1>c, StepShape DEF Shape

-----------------------------------------------------------------------------
(* Mutual exclusion: what each kind of step does to the locks              *)

SameRooms == \A u \in Task : RoomFor(u)' = RoomFor(u)

\* No await is both inside and outside a lock.
LEMMA HoldsDisjoint ==
  /\ FileHold \cap UpdateHold = {}
  /\ (FileHold \cup UpdateHold) \cap
       (FileWait \cup UpdateWait \cup PathPc \cup {"none", "new", "sleep", "done", "aget"}) = {}
BY DEF FileHold, UpdateHold, FileWait, UpdateWait, PathPc

\* A task that ends holds no lock any more.
LEMMA FinishLock ==
  ASSUME TypeOK, LockInv, NEW t \in Task, Finish(t)
  PROVE  LockInv'
<1>1. SUFFICES ASSUME NEW l \in Lock, NEW u \in Task
               PROVE  owner'[l] = u <=> Holds(u, l)'
  BY DEF LockInv
<1>2. CASE u = t
  <2>1. pc'[t] \in {"sleep", "done"}
    BY DEF TypeOK, LocksTypeOK, Finish
  <2>2. ~Holds(t, l)'
    BY <2>1, HoldsDisjoint DEF Holds
  <2>3. owner'[l] # t
    BY DEF Finish, Released, Task, Saver
  <2> QED
    BY <1>2, <2>2, <2>3
<1>3. CASE u # t
  <2>1. (pc'[u] = pc[u] /\ RoomFor(u)' = RoomFor(u)) \/ u = Watcher
    BY <1>3 DEF TypeOK, LocksTypeOK, Finish, RoomFor, jobs
  <2>2. pc'[u] = pc[u] /\ RoomFor(u)' = RoomFor(u)
    BY <1>3, <2>1 DEF TypeOK, LocksTypeOK, Finish, RoomFor, jobs
  <2>3. owner'[l] = u <=> owner[l] = u
    BY <1>1, <1>3 DEF TypeOK, Finish, Released, Task, Saver
  <2> QED
    BY <2>2, <2>3 DEF LockInv, Holds
<1> QED
  BY <1>2, <1>3

\* Asking for a lock leaves the old one, and holds the new one or waits.
LEMMA RequestLock ==
  ASSUME TypeOK, LockInv, NEW t \in Task, NEW l, NEW h, NEW w, Request(t, l, h, w),
         \A u \in Task \ {t} : RoomFor(u)' = RoomFor(u),
         Free(t, l) => \/ l = "file" /\ h \in FileHold
                       \/ l = RoomFor(t)' /\ h \in UpdateHold /\ l # "file",
         w \in FileWait \cup UpdateWait
  PROVE  LockInv'
<1>1. SUFFICES ASSUME NEW k \in Lock, NEW u \in Task
               PROVE  owner'[k] = u <=> Holds(u, k)'
  BY DEF LockInv
<1>2. Released(t) \in [Lock -> Task \cup {None}] /\ Released(t)[k] # t
  BY DEF TypeOK, LocksTypeOK, Released, Task, Saver
<1>3. CASE u = t
  <2>1. CASE Free(t, l)
    BY <1>1, <1>2, <1>3, <2>1, HoldsDisjoint DEF TypeOK, LocksTypeOK, Request, Holds
  <2>2. CASE ~Free(t, l)
    BY <1>1, <1>2, <1>3, <2>2, HoldsDisjoint DEF TypeOK, LocksTypeOK, Request, Holds
  <2> QED
    BY <2>1, <2>2
<1>4. CASE u # t
  <2>1. pc'[u] = pc[u] /\ RoomFor(u)' = RoomFor(u)
    BY <1>4 DEF TypeOK, LocksTypeOK, Request
  <2>2. owner'[k] = u <=> owner[k] = u
    <3>1. Released(t)[k] = u <=> owner[k] = u
      BY <1>4 DEF Released, Task, Saver
    <3>2. CASE Free(t, l) /\ k = l
      BY <1>2, <1>4, <3>1, <3>2 DEF Request, Free, Task, Saver
    <3>3. CASE ~(Free(t, l) /\ k = l)
      BY <1>2, <3>1, <3>3 DEF Request
    <3> QED
      BY <3>2, <3>3
  <2> QED
    BY <2>1, <2>2 DEF LockInv, Holds
<1> QED
  BY <1>3, <1>4

\* A granted lock is held by the task that waited for it.
LEMMA TakeLock ==
  ASSUME TypeOK, LockInv, NEW t \in Task, NEW l, NEW h, Take(t, l, h), SameRooms,
         pc[t] \in FileWait \cup UpdateWait,
         \/ l = "file" /\ h \in FileHold
         \/ l = RoomFor(t) /\ h \in UpdateHold /\ l # "file"
  PROVE  LockInv'
<1>1. SUFFICES ASSUME NEW k \in Lock, NEW u \in Task
               PROVE  owner'[k] = u <=> Holds(u, k)'
  BY DEF LockInv
<1>2. RoomFor(u)' = RoomFor(u) /\ (owner[k] = u <=> Holds(u, k))
  BY DEF SameRooms, LockInv
<1>3. CASE u = t
  <2>1. owner[k] # t
    BY <1>2, <1>3, HoldsDisjoint DEF Holds
  <2> QED
    BY <1>2, <1>3, <2>1, HoldsDisjoint DEF TypeOK, LocksTypeOK, Take, Holds
<1>4. CASE u # t
  <2>1. Holds(u, k)' <=> Holds(u, k)
    BY <1>2, <1>4 DEF TypeOK, LocksTypeOK, Take, Holds
  <2>2. owner'[k] = u <=> owner[k] = u
    BY <1>4 DEF TypeOK, LocksTypeOK, Take, Granted, Task, Saver
  <2> QED
    BY <1>2, <2>1, <2>2
<1> QED
  BY <1>3, <1>4

\* A step from one await to another that keeps what the task holds.
LEMMA GotoLock ==
  ASSUME TypeOK, LockInv, NEW t \in Task, NEW p, Goto(t, p), SameRooms,
         pc[t] \in FileHold <=> p \in FileHold,
         pc[t] \in UpdateHold <=> p \in UpdateHold
  PROVE  LockInv'
<1>1. SUFFICES ASSUME NEW k \in Lock, NEW u \in Task
               PROVE  owner'[k] = u <=> Holds(u, k)'
  BY DEF LockInv
<1>2. Holds(u, k)' <=> Holds(u, k)
  BY DEF TypeOK, LocksTypeOK, Goto, Holds, SameRooms
<1> QED
  BY <1>2 DEF LockInv, Goto

\* A new task holds nothing.
LEMMA CreateLock ==
  ASSUME TypeOK, CreatedInv, LockInv, NEW r \in Room, NEW n, CreateTask(r, n), UNCHANGED serving
  PROVE  LockInv'
<1>1. created' \in Saver /\ created' \in Task /\ created' # Watcher /\ pc[created'] = "none"
  BY DEF CreateTask, TypeOK, JobsTypeOK, CreatedInv, Saver, Task
<1>2. SUFFICES ASSUME NEW k \in Lock, NEW u \in Task
               PROVE  owner'[k] = u <=> Holds(u, k)'
  BY DEF LockInv
<1>3. CASE u = created'
  <2>1. pc'[u] = "new" /\ pc[u] = "none"
    BY <1>1, <1>3 DEF CreateTask, Goto, TypeOK, LocksTypeOK
  <2> QED
    BY <2>1, HoldsDisjoint DEF LockInv, Holds, CreateTask, Goto
<1>4. CASE u # created'
  <2>1. pc'[u] = pc[u] /\ RoomFor(u)' = RoomFor(u)
    BY <1>1, <1>4 DEF CreateTask, Goto, RoomFor, TypeOK, JobsTypeOK, LocksTypeOK, Task
  <2> QED
    BY <2>1 DEF LockInv, Holds, CreateTask, Goto
<1> QED
  BY <1>3, <1>4

\* The watcher enters a room's callback holding at most the file lock.
LEMMA NotifyLock ==
  ASSUME TypeOK, LockInv, NEW rooms, NotifyNext(rooms)
  PROVE  LockInv'
<1>1. \A u \in Task \ {Watcher} : RoomFor(u)' = RoomFor(u)
  BY DEF NotifyNext, RoomFor, jobs
<1>2. Watcher \in Task /\ "rget" \in FileHold /\ "rlock" \in FileWait
  BY DEF Task, FileHold, FileWait
<1> QED
  BY <1>1, <1>2, RequestLock DEF NotifyNext

\* However a task ends, its locks are free.
LEMMA EndLock ==
  ASSUME TypeOK, LockInv, NEW t \in Task, Done(t) \/ Return(t) \/ Abort(t)
  PROVE  LockInv'
BY FinishLock, NotifyLock DEF Done, Return, Abort

\* Every step keeps ownership and position together.
LEMMA LockStep == TypeOK /\ CreatedInv /\ LockInv /\ [Next]_vars => LockInv'
<1> SUFFICES ASSUME TypeOK, CreatedInv, LockInv, [Next]_vars PROVE LockInv'
  OBVIOUS
<1> USE DEF jobs, watch
<1>w. Watcher \in Task /\ Saver \subseteq Task
  BY DEF Task
<1>r. roomOf' = roomOf /\ serving' = serving => SameRooms
  BY DEF SameRooms, RoomFor
<1>u. UNCHANGED <<jobs, watch, locks>> => LockInv'
  BY DEF LockInv, Holds, RoomFor, locks
<1>h. /\ {"stat", "shield", "drain", "rget", "wstat", "wmoved"} \subseteq FileHold
      /\ {"cmp", "set"} \subseteq UpdateHold
      /\ {"lock", "rlock", "wlock"} \subseteq FileWait
      /\ {"ulock", "culock"} \subseteq UpdateWait
  BY DEF FileHold, UpdateHold, FileWait, UpdateWait
<1>e. ASSUME NEW t \in Task PROVE RoomFor(t) # "file"
  BY RoomForType DEF Lock
<1>c. ASSUME NEW r \in Room, OnDocumentChange(r), serving' = serving PROVE LockInv'
  <2>1. CASE \E n \in BOOLEAN : CreateTask(r, n)
    BY <1>c, <2>1, CreateLock
  <2>2. CASE UNCHANGED <<jobs, locks>>
    BY <1>c, <2>2 DEF LockInv, Holds, RoomFor, locks
  <2> QED
    BY <1>c, <2>1, <2>2 DEF OnDocumentChange
<1>1. CASE Environment
  <2>1. ASSUME NEW r \in Room, Edit(r) PROVE LockInv'
    BY <2>1, <1>c DEF Edit
  <2>2. ASSUME NEW r \in Room, SaveToDisc(r) PROVE LockInv'
    BY <2>2, CreateLock, <1>u DEF SaveToDisc
  <2>3. CASE ExternalWrite \/ Rename
    BY <2>3, <1>u DEF ExternalWrite, Rename, tasks
  <2> QED
    BY <1>1, <2>1, <2>2, <2>3 DEF Environment
<1>2. ASSUME NEW t \in Task, Reload(t) PROVE LockInv'
  <2>1. CASE LockForLoad(t)
    BY <2>1, <1>r, <1>h, TakeLock DEF LockForLoad
  <2>2. CASE Load(t)
    <3>1. SameRooms
      BY <2>2, <1>r DEF Load
    <3>2. Request(t, RoomFor(t), "cmp", "culock")
      BY <2>2 DEF Load
    <3>3. RoomFor(t)' = RoomFor(t) /\ \A u \in Task \ {t} : RoomFor(u)' = RoomFor(u)
      BY <3>1 DEF SameRooms
    <3> QED
      BY <3>2, <3>3, <1>h, <1>e, RequestLock
  <2>3. CASE LoadFails(t)
    BY <2>3, EndLock DEF LoadFails
  <2>4. CASE LockForSet(t)
    BY <2>4, <1>r, <1>h, <1>e, TakeLock DEF LockForSet
  <2>5. CASE Compare(t) \/ Set(t)
    <3>1. CASE Done(t)
      BY <3>1, EndLock
    <3>2. CASE Compare(t) /\ Goto(t, "set") /\ UNCHANGED <<jobs, watch>>
      BY <3>2, <1>r, <1>h, HoldsDisjoint, GotoLock DEF Compare
    <3> QED
      BY <2>5, <3>1, <3>2 DEF Compare, Set, Adopt, MarkClean
  <2> QED
    BY <1>2, <2>1, <2>2, <2>3, <2>4, <2>5 DEF Reload
<1>3. ASSUME NEW s \in Saver, Save(s) PROVE LockInv'
  <2>1. CASE Reload(s)
    BY <2>1, <1>2, <1>w
  <2>2. CASE Start(s)
    <3>1. CASE Return(s)
      BY <3>1, <1>w, EndLock
    <3>2. CASE (Goto(s, "aget") \/ Goto(s, "sleep")) /\ UNCHANGED <<jobs, watch>>
      BY <2>2, <3>2, <1>w, <1>r, HoldsDisjoint, GotoLock DEF Start
    <3> QED
      BY <2>2, <3>1, <3>2 DEF Start
  <2>3. CASE Wake(s)
    BY <2>3, <1>w, <1>r, HoldsDisjoint, GotoLock DEF Wake
  <2>4. CASE LockFile(s)
    <3>1. SameRooms
      BY <2>4, <1>r DEF LockFile
    <3>2. CASE Request(s, "file", "stat", "lock")
      BY <3>1, <3>2, <1>w, <1>h, RequestLock DEF SameRooms
    <3>3. CASE pc[s] = "lock" /\ Take(s, "file", "stat")
      BY <3>1, <3>3, <1>w, <1>h, TakeLock
    <3> QED
      BY <2>4, <3>2, <3>3 DEF LockFile
  <2>5. CASE CheckedSave(s)
    BY <2>5, <1>w, <1>r, <1>h, HoldsDisjoint, GotoLock DEF CheckedSave
  <2>6. CASE OutOfBand(s)
    <3>1. SameRooms /\ Request(s, "file", "rget", "rlock")
      BY <2>6, <1>r DEF OutOfBand
    <3> QED
      BY <3>1, <1>w, <1>h, RequestLock DEF SameRooms
  <2>7. CASE NotSaved(s) \/ SaveFailed(s) \/ Drained(s)
    BY <2>7, <1>w, EndLock DEF NotSaved, SaveFailed, Drained
  <2>8. CASE Saved(s)
    <3>1. CASE MarkClean(s)
      BY <3>1, <1>w, EndLock DEF MarkClean
    <3>2. CASE ~MarkClean(s)
      <4>1. /\ ~Free(s, roomOf[s])
            /\ Request(s, roomOf[s], "ulock", "ulock")
            /\ SameRooms
        BY <2>8, <3>2, <1>r DEF Saved
      <4> QED
        BY <4>1, <1>w, <1>h, RequestLock DEF SameRooms
    <3> QED
      BY <3>1, <3>2
  <2> QED
    BY <1>3, <2>1, <2>2, <2>3, <2>4, <2>5, <2>6, <2>7, <2>8 DEF Save
<1>4. ASSUME NEW s \in Saver, Cancel(s) PROVE LockInv'
  <2>1. CASE pc[s] = "shield" /\ StopWaiting(s) /\ ~Return(s)
    BY <2>1, <1>w, <1>r, <1>h, HoldsDisjoint, GotoLock DEF StopWaiting
  <2>2. CASE Return(s) \/ Abort(s)
    BY <2>2, <1>w, EndLock
  <2> QED
    BY <1>4, <2>1, <2>2 DEF Cancel, StopWaiting
<1>5. ASSUME NEW s \in Saver, Inner(s) PROVE LockInv'
  BY <1>5, <1>u DEF Inner, InnerSave, InnerHash
<1>6. CASE Watch
  <2>1. CASE WatchLock
    <3>1. SameRooms /\ StatPc \in FileHold
      BY <2>1, <1>r, <1>h DEF WatchLock, StatPc
    <3>2. CASE Request(Watcher, "file", StatPc, "wlock")
      BY <3>1, <3>2, <1>w, <1>h, RequestLock DEF SameRooms
    <3>3. CASE pc[Watcher] = "wlock" /\ Take(Watcher, "file", StatPc)
      BY <3>1, <3>3, <1>w, <1>h, TakeLock
    <3> QED
      BY <2>1, <3>2, <3>3 DEF WatchLock
  <2>2. CASE WatchStat
    <3>1. CASE NotifyNext(Room) \/ Return(Watcher)
      BY <3>1, <1>w, NotifyLock, EndLock
    <3>2. ASSUME NEW p \in PathPc,
                 pc' = [pc EXCEPT ![Watcher] = p], owner' = Released(Watcher),
                 UNCHANGED <<serving, jobs>>
          PROVE  LockInv'
      <4>1. SUFFICES ASSUME NEW k \in Lock, NEW u \in Task
                     PROVE  owner'[k] = u <=> Holds(u, k)'
        BY DEF LockInv
      <4>2. CASE u = Watcher
        <5>1. pc'[u] = p /\ owner'[k] # u
          BY <3>2, <4>2, <1>w DEF TypeOK, LocksTypeOK, Released
        <5> QED
          BY <5>1, HoldsDisjoint DEF Holds
      <4>3. CASE u # Watcher
        BY <3>2, <4>3 DEF TypeOK, LocksTypeOK, Released, Holds, LockInv, RoomFor, Task, Saver
      <4> QED
        BY <4>2, <4>3
    <3> QED
      BY <2>2, <3>1, <3>2 DEF WatchStat, PathPc
  <2>3. CASE WatchPath
    BY <2>3, <1>c DEF WatchPath, TypeOK
  <2>4. CASE WatchPathDone \/ WatchFails
    BY <2>4, <1>w, NotifyLock, EndLock DEF WatchPathDone, WatchFails
  <2> QED
    BY <1>6, <2>1, <2>2, <2>3, <2>4, <1>2, <1>w DEF Watch
<1>7. CASE UNCHANGED vars
  BY <1>7, <1>u DEF vars, tasks
<1> QED
  BY <1>1, <1>3, <1>4, <1>5, <1>6, <1>7 DEF Next, SaveStep

-----------------------------------------------------------------------------
(* A save is cancelled at most once, by its successor                      *)

\* A task is the predecessor of at most one other, the latest task of none.
LEMMA PrevStep == TypeOK /\ CreatedInv /\ PrevInv /\ [Next]_vars => PrevInv'
<1> SUFFICES ASSUME TypeOK, CreatedInv, PrevInv, [Next]_vars PROVE PrevInv'
  OBVIOUS
<1>1. CASE UNCHANGED jobs
  BY <1>1 DEF PrevInv, jobs
<1>2. ASSUME NEW r \in Room, NEW n \in BOOLEAN, CreateTask(r, n) PROVE PrevInv'
  <2> DEFINE c == created + 1
  <2>1. /\ created \in Nat /\ created' = c /\ c \in Saver
        /\ roomOf' = [roomOf EXCEPT ![c] = r]
        /\ prev' = [prev EXCEPT ![c] = saving[r]]
        /\ saving' = [saving EXCEPT ![r] = c]
    BY <1>2 DEF CreateTask, TypeOK, JobsTypeOK, Saver
  <2>2. /\ roomOf \in [Saver -> Room \cup {None}] /\ prev \in [Saver -> Saver \cup {None}]
        /\ saving \in [Room -> Saver \cup {None}] /\ Saver \subseteq Nat
    BY DEF TypeOK, JobsTypeOK, Saver
  <2>3. \A s \in Saver : prev[s] # c
    BY <2>1, <2>2 DEF PrevInv
  <2>7. ASSUME NEW q \in Room, saving[q] # None
        PROVE  /\ saving[q] \in Saver /\ saving[q] <= created /\ saving[q] < c
               /\ roomOf[saving[q]] = q /\ \A s \in Saver : prev[s] # saving[q]
    <3>1. saving[q] \in Saver /\ saving[q] \in Nat
      BY <2>7, <2>2
    <3>2. saving[q] <= created /\ roomOf[saving[q]] = q /\ \A s \in Saver : prev[s] # saving[q]
      BY <2>7 DEF PrevInv
    <3>3. saving[q] < c
      BY <3>1, <3>2, <2>1
    <3> QED
      BY <3>1, <3>2, <3>3
  <2>8. \A i \in Nat : i <= created => i <= c /\ i < c
    BY <2>1
  <2>9. c # None /\ c <= c /\ ~(c < c) /\ c \in Nat
    BY <2>1 DEF Saver
  <2> HIDE DEF c
  <2>4. \A s \in Saver : prev'[s] # None => s <= created' /\ prev'[s] < s
    <3> SUFFICES ASSUME NEW s \in Saver, prev'[s] # None PROVE s <= created' /\ prev'[s] < s
      OBVIOUS
    <3>1. CASE s = c
      BY <3>1, <2>1, <2>2, <2>7, <2>9
    <3>2. CASE s # c
      BY <3>2, <2>1, <2>2, <2>8 DEF PrevInv
    <3> QED
      BY <3>1, <3>2
  <2>5. \A s, u \in Saver : prev'[s] = prev'[u] /\ prev'[s] # None => s = u
    BY <2>1, <2>2 DEF PrevInv
  <2>6. ASSUME NEW q \in Room, saving'[q] # None
        PROVE  /\ saving'[q] <= created' /\ roomOf'[saving'[q]] = q
               /\ \A s \in Saver : prev'[s] # saving'[q]
    <3>1. CASE q = r
      <4>1. saving'[q] = c /\ roomOf'[c] = r
        BY <3>1, <2>1, <2>2
      <4>2. saving[r] # c
        BY <2>7, <2>9, <2>2
      <4> QED
        BY <3>1, <4>1, <4>2, <2>1, <2>2, <2>3
    <3>2. CASE q # r
      <4>0. saving'[q] = saving[q] /\ saving[q] # None
        BY <3>2, <2>6, <2>1, <2>2
      <4>1. saving[q] \in Saver /\ saving[q] <= created /\ saving[q] # c
        BY <4>0, <2>7, <2>9, <2>2
      <4>2. roomOf[saving[q]] = q
        BY <4>0, <2>7
      <4>3. saving[r] # saving[q]
        BY <3>2, <4>0, <4>2, <2>7
      <4>4. saving'[q] <= created'
        BY <4>0, <4>1, <2>1, <2>2, <2>8
      <4>5. \A s \in Saver : prev'[s] # saving'[q]
        BY <4>0, <4>3, <2>1, <2>2, <2>7
      <4> QED
        BY <4>0, <4>1, <4>2, <4>4, <4>5, <2>1, <2>2
    <3> QED
      BY <3>1, <3>2
  <2> QED
    BY <2>4, <2>5, <2>6 DEF PrevInv
<1> QED
  BY <1>1, <1>2, StepShape DEF Shape, Await, First

\* Only the successor of a save cancels it, in its first step.
LEMMA CancelStep == TypeOK /\ CreatedInv /\ PrevInv /\ CancelInv /\ [Next]_vars => CancelInv'
<1> SUFFICES ASSUME TypeOK, CreatedInv, PrevInv, CancelInv, [Next]_vars PROVE CancelInv'
  OBVIOUS
<1>w. Saver \subseteq Task /\ cancelled \subseteq Saver /\ pc \in [Task -> Pc]
  BY DEF Task, TypeOK, LocksTypeOK
<1>1. CASE UNCHANGED <<jobs, cancelled, pc>>
  BY <1>1 DEF CancelInv, Replaced, jobs
<1>2. ASSUME NEW t \in Task, NEW p \in Pc, Await(t, p) PROVE CancelInv'
  <2>1. \A s : Replaced(s) => Replaced(s)'
    BY <1>2, <1>w DEF Await, Replaced, jobs
  <2>2. ASSUME NEW s \in cancelled' PROVE Replaced(s)' /\ pc'[s] # "drain"
    BY <1>2, <2>1, <1>w DEF Await, CancelInv
  <2>3. ASSUME NEW s \in Saver, pc'[s] = "drain" PROVE Replaced(s)'
    BY <1>2, <2>1, <2>3, <1>w DEF Await, CancelInv
  <2> QED
    BY <2>2, <2>3 DEF CancelInv
<1>3. ASSUME NEW r \in Room, NEW n \in BOOLEAN, CreateTask(r, n), UNCHANGED cancelled
      PROVE  CancelInv'
  <2>1. created' \in Saver /\ pc[created'] = "none"
    BY <1>3 DEF CreateTask, TypeOK, JobsTypeOK, CreatedInv, Saver
  <2>2. /\ pc' = [pc EXCEPT ![created'] = "new"]
        /\ prev' = [prev EXCEPT ![created'] = saving[r]]
    BY <1>3 DEF CreateTask, Goto
  <2>3. \A s : Replaced(s) => Replaced(s)'
    <3> SUFFICES ASSUME NEW s, NEW u \in Saver, prev[u] = s, pc[u] \notin {"none", "new"}
                 PROVE  Replaced(s)'
      BY DEF Replaced
    <3>1. u # created'
      BY <2>1
    <3>2. prev'[u] = s /\ pc'[u] = pc[u]
      BY <3>1, <2>1, <2>2, <1>w DEF TypeOK, JobsTypeOK
    <3> QED
      BY <3>2 DEF Replaced
  <2>4. \A s \in Saver : pc'[s] = "drain" <=> pc[s] = "drain"
    BY <2>1, <2>2, <1>w
  <2> QED
    BY <1>3, <2>3, <2>4, <1>w DEF CancelInv
<1>4. ASSUME NEW s \in Saver, First(s) PROVE CancelInv'
  <2>1. PICK p \in {"aget", "sleep"} : pc' = [pc EXCEPT ![s] = p]
    BY <1>4 DEF First
  <2>2. UNCHANGED prev /\ pc[s] = "new" /\ cancelled' = cancelled \cup Superseded(s)
    BY <1>4 DEF First, jobs
  <2>3. \A u : Replaced(u) => Replaced(u)'
    BY <2>1, <2>2, <1>w DEF Replaced
  <2>4. \A u \in Saver : pc'[u] = "drain" => pc[u] = "drain"
    BY <2>1, <2>2, <1>w
  <2>5. ASSUME NEW u \in Superseded(s) PROVE Replaced(u)' /\ pc'[u] # "drain"
    <3>1. u = prev[s] /\ prev[s] # None /\ u \in Saver
      BY <2>5 DEF Superseded, TypeOK, JobsTypeOK
    <3>2. Replaced(u)'
      BY <3>1, <2>1, <2>2, <1>w DEF Replaced
    <3>3. ~Replaced(u)
      BY <3>1, <2>2 DEF Replaced, PrevInv
    <3> QED
      BY <3>1, <3>2, <3>3, <2>4 DEF CancelInv
  <2>6. ASSUME NEW u \in cancelled PROVE Replaced(u)' /\ pc'[u] # "drain"
    BY <2>3, <2>4, <1>w DEF CancelInv
  <2> QED
    BY <2>2, <2>3, <2>4, <2>5, <2>6 DEF CancelInv
<1> QED
  BY <1>1, <1>2, <1>3, <1>4, StepShape DEF Shape

-----------------------------------------------------------------------------
(* A write that has begun is waited for                                    *)

\* A begun write has its task at the shield or draining.
LEMMA InnerStep == TypeOK /\ CreatedInv /\ InnerInv /\ CancelInv /\ [Next]_vars => InnerInv'
<1> SUFFICES ASSUME TypeOK, CreatedInv, InnerInv, CancelInv, [Next]_vars PROVE InnerInv'
  OBVIOUS
<1> DEFINE Begun(s) == inner[s] \in {"writing", "hashing"}
<1>w. Watcher \in Task /\ Saver \subseteq Task /\ Watcher \notin Saver
  BY DEF Task, Saver
<1>u. UNCHANGED <<pc, inner>> => InnerInv'
  BY DEF InnerInv
<1>t. ASSUME NEW t \in Task, NEW p, pc' = [pc EXCEPT ![t] = p], inner' = inner,
             t \in Saver => ~Begun(t) \/ p \in {"shield", "drain"}
      PROVE  InnerInv'
  BY <1>t DEF InnerInv, TypeOK, LocksTypeOK
<1>g. ASSUME NEW t \in Task, inner' = inner, t \in Saver => ~Begun(t),
             \/ Finish(t)
             \/ \E p : Goto(t, p)
             \/ \E l, h, w : Request(t, l, h, w)
             \/ \E l, h : Take(t, l, h)
      PROVE  InnerInv'
  BY <1>g, <1>t DEF Finish, Goto, Request, Take
<1>n. ASSUME NEW rooms, NotifyNext(rooms) PROVE InnerInv'
  BY <1>n, <1>g, <1>w DEF NotifyNext
<1>d. ASSUME NEW t \in Task, t \in Saver => ~Begun(t), Done(t) \/ Return(t) \/ Abort(t)
      PROVE  InnerInv'
  <2>1. CASE Finish(t)
    BY <1>d, <2>1, <1>g DEF Finish
  <2>2. CASE NotifyNext(todo)
    BY <2>2, <1>n
  <2> QED
    BY <1>d, <2>1, <2>2 DEF Done, Return, Abort
<1>s. ASSUME NEW s \in Saver, pc[s] \notin {"shield", "drain"} PROVE ~Begun(s)
  BY <1>s DEF InnerInv
<1>c. ASSUME NEW r \in Room, NEW n, CreateTask(r, n), inner' = inner PROVE InnerInv'
  <2>1. created' \in Saver /\ pc[created'] = "none"
    BY <1>c DEF CreateTask, TypeOK, JobsTypeOK, CreatedInv, Saver
  <2> QED
    BY <1>c, <2>1, <1>s, <1>g, <1>w DEF CreateTask
<1>o. ASSUME NEW r \in Room, OnDocumentChange(r), inner' = inner PROVE InnerInv'
  BY <1>o, <1>c, <1>u DEF OnDocumentChange, locks
<1>1. CASE Environment
  <2>1. ASSUME NEW r \in Room, Edit(r) PROVE InnerInv'
    BY <2>1, <1>o DEF Edit
  <2>2. ASSUME NEW r \in Room, SaveToDisc(r) PROVE InnerInv'
    BY <2>2, <1>c, <1>u DEF SaveToDisc, locks
  <2>3. CASE ExternalWrite \/ Rename
    BY <2>3, <1>u DEF ExternalWrite, Rename, tasks, locks
  <2> QED
    BY <1>1, <2>1, <2>2, <2>3 DEF Environment
<1>2. ASSUME NEW t \in Task, Reload(t) PROVE InnerInv'
  <2>1. pc[t] \notin {"shield", "drain"}
    BY <1>2 DEF Reload, LockForLoad, Load, LoadFails, LockForSet, Compare, Set
  <2>2. t \in Saver => ~Begun(t)
    BY <2>1, <1>s
  <2>3. CASE LockForLoad(t) \/ Load(t) \/ LockForSet(t)
    BY <2>2, <2>3, <1>g DEF LockForLoad, Load, LockForSet
  <2>4. CASE LoadFails(t)
    BY <2>2, <2>4, <1>d DEF LoadFails
  <2>5. CASE Compare(t) \/ Set(t)
    BY <2>2, <2>5, <1>g, <1>d DEF Compare, Set, Adopt, MarkClean
  <2> QED
    BY <1>2, <2>3, <2>4, <2>5 DEF Reload
<1>3. ASSUME NEW s \in Saver, Save(s) PROVE InnerInv'
  <2>1. CASE Reload(s)
    BY <2>1, <1>2, <1>w
  <2>2. CASE Start(s)
    <3>1. CASE Return(s)
      BY <2>2, <3>1, <1>d, <1>s, <1>w DEF Start
    <3>2. CASE (Goto(s, "aget") \/ Goto(s, "sleep")) /\ inner' = inner
      BY <2>2, <3>2, <1>g, <1>s, <1>w DEF Start
    <3> QED
      BY <2>2, <3>1, <3>2 DEF Start
  <2>3. CASE Wake(s) \/ LockFile(s) \/ OutOfBand(s)
    BY <2>3, <1>g, <1>s, <1>w DEF Wake, LockFile, OutOfBand
  <2>4. CASE CheckedSave(s)
    <3>1. /\ pc' = [pc EXCEPT ![s] = "shield"] /\ inner' = [inner EXCEPT ![s] = "writing"]
      BY <2>4 DEF CheckedSave, Goto
    <3> QED
      BY <3>1, <1>w DEF InnerInv, TypeOK, LocksTypeOK
  <2>5. CASE NotSaved(s)
    BY <2>5, <1>d, <1>s, <1>w DEF NotSaved
  <2>6. CASE SaveFailed(s) \/ Drained(s)
    BY <2>6, <1>d, <1>w DEF SaveFailed, Drained, Settled
  <2>7. CASE Saved(s)
    <3>1. ~Begun(s)
      BY <2>7, <1>s DEF Saved
    <3> QED
      BY <2>7, <3>1, <1>d, <1>g, <1>w DEF Saved, MarkClean
  <2> QED
    BY <1>3, <2>1, <2>2, <2>3, <2>4, <2>5, <2>6, <2>7 DEF Save
<1>4. ASSUME NEW s \in Saver, Cancel(s) PROVE InnerInv'
  <2>1. CASE StopWaiting(s)
    <3>1. CASE inner[s] \in Settled
      BY <2>1, <3>1, <1>d, <1>w DEF StopWaiting, Settled
    <3>2. CASE inner[s] \notin Settled
      BY <2>1, <3>2, <1>t, <1>w DEF StopWaiting, Goto
    <3> QED
      BY <3>1, <3>2
  <2>2. CASE pc[s] \notin {"shield", "drain"} /\ (Return(s) \/ Abort(s))
    BY <2>2, <1>d, <1>s, <1>w
  <2>3. pc[s] # "drain"
    BY <1>4 DEF Cancel, CancelInv
  <2> QED
    BY <1>4, <2>1, <2>2, <2>3 DEF Cancel
<1>5. ASSUME NEW s \in Saver, Inner(s) PROVE InnerInv'
  BY <1>5 DEF Inner, InnerSave, InnerHash, InnerInv, TypeOK, locks
<1>6. CASE Watch
  <2>1. CASE WatchLock
    BY <2>1, <1>g, <1>w DEF WatchLock
  <2>2. CASE WatchStat
    <3>1. CASE pc[Watcher] = "wstat"
      BY <2>2, <3>1, <1>n, <1>d, <1>w DEF WatchStat
    <3>2. CASE pc[Watcher] = "wmoved"
      BY <2>2, <3>2, <1>t, <1>w DEF WatchStat
    <3> QED
      BY <2>2, <3>1, <3>2 DEF WatchStat
  <2>3. CASE WatchPath
    BY <2>3, <1>o DEF WatchPath, TypeOK
  <2>4. CASE WatchPathDone \/ WatchFails
    BY <2>4, <1>n, <1>d, <1>w DEF WatchPathDone, WatchFails
  <2> QED
    BY <1>6, <2>1, <2>2, <2>3, <2>4, <1>2, <1>w DEF Watch
<1>7. CASE UNCHANGED vars
  BY <1>7, <1>u DEF vars, tasks, locks
<1> QED
  BY <1>1, <1>3, <1>4, <1>5, <1>6, <1>7 DEF Next, SaveStep

-----------------------------------------------------------------------------
(* Saves are written in order                                              *)

\* A new save is given the last one of its room, and is the last then.
LEMMA ChainStep == TypeOK /\ CreatedInv /\ PrevInv /\ ChainInv /\ [Next]_vars => ChainInv'
<1> SUFFICES ASSUME TypeOK, CreatedInv, PrevInv, ChainInv, [Next]_vars PROVE ChainInv'
  OBVIOUS
<1>1. CASE UNCHANGED jobs
  BY <1>1 DEF ChainInv, jobs
<1>2. ASSUME NEW r \in Room, NEW n \in BOOLEAN, CreateTask(r, n) PROVE ChainInv'
  <2> DEFINE c == created + 1
  <2>1. /\ created \in Nat /\ created' = c /\ c \in Saver
        /\ roomOf' = [roomOf EXCEPT ![c] = r]
        /\ prev' = [prev EXCEPT ![c] = saving[r]]
        /\ saving' = [saving EXCEPT ![r] = c]
    BY <1>2 DEF CreateTask, TypeOK, JobsTypeOK, Saver
  <2>2. /\ roomOf \in [Saver -> Room \cup {None}] /\ prev \in [Saver -> Saver \cup {None}]
        /\ saving \in [Room -> Saver \cup {None}] /\ Saver \subseteq Nat
    BY DEF TypeOK, JobsTypeOK, Saver
  <2>3. \A s \in Saver : (s <= created' /\ s # c => s <= created) /\ (s < c <=> s <= created)
    BY <2>1, <2>2
  <2>4. c \in Nat /\ c # None
    BY <2>1 DEF Saver
  <2> HIDE DEF c
  <2>5. \A s \in Saver : s <= created => roomOf[s] \in Room /\ s <= c /\ s # c
    BY <2>1, <2>2, <2>3, <2>4 DEF CreatedInv
  <2>6. ASSUME NEW s \in Saver, s <= created'
        PROVE  saving'[roomOf'[s]] # None /\ s <= saving'[roomOf'[s]]
    <3>1. CASE s = c
      BY <3>1, <2>1, <2>2, <2>4
    <3>2. CASE s # c
      <4>1. s <= created /\ roomOf'[s] = roomOf[s] /\ roomOf[s] \in Room
        BY <3>2, <2>1, <2>2, <2>3, <2>5, <2>6
      <4>2. saving[roomOf[s]] # None /\ s <= saving[roomOf[s]] /\ s <= c
        BY <4>1, <2>5 DEF ChainInv
      <4> QED
        BY <4>1, <4>2, <2>1, <2>2, <2>4
    <3> QED
      BY <3>1, <3>2
  <2>7. ASSUME NEW s \in Saver, s <= created', NEW u \in Saver, u < s, roomOf'[u] = roomOf'[s]
        PROVE  prev'[s] # None /\ u <= prev'[s] /\ roomOf'[prev'[s]] = roomOf'[s]
    <3>1. CASE s = c
      <4>1. u <= created /\ roomOf[u] = r
        BY <3>1, <2>1, <2>2, <2>3, <2>4, <2>5, <2>7
      <4>2. saving[r] # None /\ u <= saving[r]
        BY <4>1 DEF ChainInv
      <4>3. saving[r] \in Saver /\ saving[r] <= created /\ roomOf[saving[r]] = r
        BY <4>2, <2>2 DEF PrevInv
      <4>4. saving[r] # c
        BY <4>3, <2>5
      <4> QED
        BY <3>1, <4>2, <4>3, <4>4, <2>1, <2>2
    <3>2. CASE s # c
      <4>1. s <= created /\ u <= created /\ roomOf'[s] = roomOf[s] /\ roomOf[u] = roomOf[s]
        <5>1. s <= created
          BY <3>2, <2>3, <2>7
        <5>2. u <= created
          BY <5>1, <2>1, <2>2, <2>7
        <5> QED
          BY <5>1, <5>2, <2>1, <2>2, <2>5, <2>7
      <4>2. prev[s] # None /\ u <= prev[s] /\ roomOf[prev[s]] = roomOf[s]
        BY <4>1, <2>7 DEF ChainInv
      <4>3. prev[s] \in Saver /\ prev[s] < s
        BY <4>2, <2>2 DEF PrevInv
      <4>4. prev[s] # c
        BY <4>1, <4>3, <2>1, <2>2, <2>3, <2>4, <2>5
      <4> QED
        BY <3>2, <4>1, <4>2, <4>3, <4>4, <2>1, <2>2
    <3> QED
      BY <3>1, <3>2
  <2> QED
    BY <2>6, <2>7 DEF ChainInv
<1> QED
  BY <1>1, <1>2, StepShape DEF Shape, Await, First

\* Where there is a delay, a save that starts cancels the one before it, which had cancelled
\* those before.
LEMMA OvertakenStep ==
  ASSUME SaveDelaySet, TypeOK, CreatedInv, PrevInv, ChainInv, OvertakenInv, [Next]_vars
  PROVE  OvertakenInv'
<1>w. /\ Saver \subseteq Task /\ Saver \subseteq Nat /\ pc \in [Task -> Pc]
      /\ prev \in [Saver -> Saver \cup {None}] /\ Watcher \notin Saver
  BY DEF Task, TypeOK, LocksTypeOK, JobsTypeOK, Saver
<1>1. CASE UNCHANGED <<jobs, cancelled, pc>>
  BY <1>1 DEF OvertakenInv, jobs
<1>2. ASSUME NEW t \in Task, NEW p \in Pc, Await(t, p) PROVE OvertakenInv'
  <2> SUFFICES ASSUME NEW s \in Saver, NEW u \in Saver, s < u, roomOf'[s] = roomOf'[u],
                      pc'[u] \notin {"none", "new"}
               PROVE  pc'[s] \in {"done", "drain"} \/ s \in cancelled'
    BY DEF OvertakenInv
  <2>1. pc[u] \notin {"none", "new"} /\ roomOf[s] = roomOf[u]
    BY <1>2, <1>w DEF Await, jobs
  <2>2. pc[s] \in {"done", "drain"} \/ s \in cancelled
    BY <2>1 DEF OvertakenInv
  <2> QED
    BY <1>2, <2>2, <1>w DEF Await
<1>3. ASSUME NEW r \in Room, NEW n \in BOOLEAN, CreateTask(r, n), UNCHANGED cancelled
      PROVE  OvertakenInv'
  <2>1. /\ created' = created + 1 /\ created' \in Saver /\ created \in Nat
        /\ pc[created'] = "none"
        /\ roomOf' = [roomOf EXCEPT ![created'] = r] /\ pc' = [pc EXCEPT ![created'] = "new"]
    BY <1>3 DEF CreateTask, Goto, TypeOK, JobsTypeOK, CreatedInv, Saver
  <2> SUFFICES ASSUME NEW s \in Saver, NEW u \in Saver, s < u, roomOf'[s] = roomOf'[u],
                      pc'[u] \notin {"none", "new"}
               PROVE  pc'[s] \in {"done", "drain"} \/ s \in cancelled'
    BY DEF OvertakenInv
  <2>2. u # created' /\ pc[u] = pc'[u]
    BY <2>1, <1>w
  <2>3. s # created'
    <3>1. u <= created
      BY <2>2 DEF CreatedInv
    <3> QED
      BY <3>1, <2>1, <1>w
  <2>4. roomOf[s] = roomOf[u] /\ pc'[s] = pc[s]
    BY <2>1, <2>2, <2>3, <1>w DEF TypeOK, JobsTypeOK
  <2> QED
    BY <1>3, <2>2, <2>4 DEF OvertakenInv
<1>4. ASSUME NEW x \in Saver, First(x) PROVE OvertakenInv'
  <2>1. PICK p \in {"aget", "sleep"} : pc' = [pc EXCEPT ![x] = p]
    BY <1>4 DEF First
  <2>2. /\ UNCHANGED jobs /\ pc[x] = "new" /\ cancelled' = cancelled \cup Superseded(x)
        /\ \A u \in Saver : u < x => pc[u] # "new"
    BY <1>4 DEF First
  <2> SUFFICES ASSUME NEW s \in Saver, NEW u \in Saver, s < u, roomOf[s] = roomOf[u],
                      pc'[u] \notin {"none", "new"}
               PROVE  pc'[s] \in {"done", "drain"} \/ s \in cancelled'
    BY <2>2 DEF OvertakenInv, jobs
  <2>3. ASSUME NEW v \in Saver, s < v, roomOf[s] = roomOf[v], pc[v] \notin {"none", "new"}
        PROVE  pc'[s] \in {"done", "drain"} \/ s \in cancelled'
    BY <2>1, <2>2, <2>3, <1>w DEF OvertakenInv
  <2>4. CASE u # x
    BY <2>1, <2>3, <2>4, <1>w
  <2>5. CASE u = x
    <3>1. x <= created
      BY <2>2 DEF CreatedInv
    <3>2. prev[x] # None /\ s <= prev[x] /\ roomOf[prev[x]] = roomOf[x]
      BY <2>5, <3>1 DEF ChainInv
    <3>3. prev[x] \in Saver /\ prev[x] < x
      BY <3>2, <1>w DEF PrevInv
    <3>4. CASE s = prev[x]
      BY <3>2, <3>3, <3>4, <2>1, <2>2, <1>w DEF Superseded
    <3>5. CASE s # prev[x]
      <4>1. s < prev[x] /\ prev[x] <= created
        BY <3>1, <3>2, <3>3, <3>5, <1>w DEF TypeOK, JobsTypeOK
      <4>2. pc[prev[x]] \notin {"none", "new"}
        BY <4>1, <3>3, <2>2 DEF CreatedInv
      <4> QED
        BY <4>1, <4>2, <3>2, <3>3, <2>3, <2>5
    <3> QED
      BY <3>4, <3>5
  <2> QED
    BY <2>4, <2>5
<1> QED
  BY <1>1, <1>2, <1>3, <1>4, StepShape DEF Shape

\* What a step does to the snapshots that may still be written: it leaves them, or some of
\* them; takes one; or writes one.
Kept(S) == \A s \in Saver \ S : Pending(s)' =>
             Pending(s) /\ model'[s] = model[s] /\ roomOf'[s] = roomOf[s]
Leaves == UNCHANGED savedRev /\ Kept({}) /\ \A r \in Room : doc[r].rev <= doc'[r].rev
Takes(s) ==
  /\ UNCHANGED <<savedRev, doc, roomOf>> /\ Kept({s})
  /\ pc[s] \in {"new", "sleep"} /\ s \notin cancelled
  /\ model'[s] = doc[roomOf[s]]
Writes(s) ==
  /\ inner[s] = "writing" /\ savedRev' = [savedRev EXCEPT ![roomOf[s]] = model[s].rev]
  /\ UNCHANGED <<doc, roomOf>> /\ Kept({}) /\ ~Pending(s)'
OrderShape == Leaves \/ \E s \in Saver : Takes(s) \/ Writes(s)

\* Every step has that shape.
LEMMA OrderShapes ==
  ASSUME TypeOK, CreatedInv, InnerInv, [Next]_vars
  PROVE  OrderShape
<1>w. /\ Watcher \in Task /\ Saver \subseteq Task /\ Watcher \notin Saver
      /\ pc \in [Task -> Pc] /\ cancelled \subseteq Saver
      /\ model \in [Task -> Version] /\ doc \in [Room -> Version]
      /\ inner = [u \in Saver |-> inner[u]]
  BY DEF Task, Saver, TypeOK, LocksTypeOK
<1>v. \A v \in Version : v.rev \in Nat
  BY DEF Version
<1>f. UNCHANGED doc => \A r \in Room : doc[r].rev <= doc'[r].rev
  BY <1>w, <1>v
<1>s. ASSUME NEW s \in Saver, pc[s] \notin {"shield", "drain"} PROVE inner[s] # "writing"
  BY <1>s DEF InnerInv
<1>u. ASSUME UNCHANGED <<pc, cancelled, inner, model, roomOf>> PROVE Kept({})
  BY <1>u DEF Kept, Pending
<1>m. ASSUME NEW t \in Task, NEW p, pc' = [pc EXCEPT ![t] = p], cancelled \ {t} \subseteq cancelled',
             UNCHANGED <<inner, roomOf>>,
             \A u \in Task \ {t} : model'[u] = model[u],
             t \in Saver => \/ p \notin {"aget", "lock", "stat"} /\ (inner[t] = "writing" => model' = model)
                            \/ Pending(t) /\ model' = model
      PROVE  Kept({})
  <2> SUFFICES ASSUME NEW s \in Saver, Pending(s)' PROVE Pending(s) /\ model'[s] = model[s]
    BY <1>m DEF Kept
  <2>1. CASE s # t
    BY <1>m, <2>1, <1>w DEF Pending
  <2>2. CASE s = t
    BY <1>m, <2>2, <1>w DEF Pending
  <2> QED
    BY <2>1, <2>2
<1>g. ASSUME NEW t \in Task, UNCHANGED <<inner, jobs, model>>,
             cancelled \ {t} \subseteq cancelled',
             NEW h \in Pc \ {"aget", "lock", "stat"}, NEW v \in Pc \ {"aget", "lock", "stat"},
             \/ Goto(t, h)
             \/ \E l : Request(t, l, h, v)
             \/ \E l : Take(t, l, h)
      PROVE  Kept({})
  <2>1. PICK p \in {h, v} : pc' = [pc EXCEPT ![t] = p]
    BY <1>g DEF Goto, Request, Take
  <2> QED
    BY <1>g, <2>1, <1>m DEF jobs
<1>e. ASSUME NEW t \in Task, Finish(t) PROVE Kept({})
  <2>1. PICK p \in {"sleep", "done"} : pc' = [pc EXCEPT ![t] = p]
    BY <1>e DEF Finish
  <2>2. UNCHANGED <<inner, roomOf, model>> /\ cancelled' = cancelled \ {t}
    BY <1>e DEF Finish, jobs
  <2> QED
    BY <2>1, <2>2, <1>m
<1>c. ASSUME NEW r \in Room, NEW n \in BOOLEAN, CreateTask(r, n), UNCHANGED <<cancelled, inner, model>>
      PROVE  Kept({})
  <2>0. created' \in Saver /\ ~(created' <= created)
    BY <1>c DEF CreateTask, TypeOK, JobsTypeOK, Saver
  <2>1. created' \in Saver /\ pc[created'] = "none"
    BY <2>0 DEF CreatedInv
  <2>2. pc' = [pc EXCEPT ![created'] = "new"] /\ roomOf' = [roomOf EXCEPT ![created'] = r]
    BY <1>c DEF CreateTask, Goto
  <2>3. inner[created'] # "writing"
    BY <2>1, <1>s
  <2> SUFFICES ASSUME NEW s \in Saver, Pending(s)'
               PROVE  Pending(s) /\ model'[s] = model[s] /\ roomOf'[s] = roomOf[s]
    BY DEF Kept
  <2>4. s # created'
    BY <1>c, <2>1, <2>2, <2>3, <1>w DEF Pending
  <2> QED
    BY <1>c, <2>1, <2>2, <2>4, <1>w DEF Pending, TypeOK, JobsTypeOK
<1>o. ASSUME NEW r \in Room, OnDocumentChange(r), UNCHANGED <<cancelled, inner, model>> PROVE Kept({})
  BY <1>o, <1>c, <1>u DEF OnDocumentChange, jobs, locks
<1> USE DEF Pc, FileWait, FileHold, UpdateWait, UpdateHold, PathPc, ContentPc
<1>n. ASSUME NEW rooms, NotifyNext(rooms) PROVE Kept({})
  BY <1>n, <1>g, <1>w DEF NotifyNext
<1>d. ASSUME NEW t \in Task, Done(t) \/ Return(t) \/ Abort(t) PROVE Kept({})
  BY <1>d, <1>e, <1>n DEF Done, Return, Abort
<1>q. ASSUME Kept({}), UNCHANGED <<savedRev, doc>> PROVE OrderShape
  BY <1>q, <1>f DEF OrderShape, Leaves
<1> USE DEF history, room
<1>1. CASE Environment
  <2>1. ASSUME NEW r \in Room, Edit(r) PROVE OrderShape
    <3>1. Kept({}) /\ UNCHANGED savedRev
      BY <2>1, <1>o DEF Edit
    <3>2. \A q \in Room : doc[q].rev <= doc'[q].rev
      <4> SUFFICES ASSUME NEW q \in Room PROVE doc[q].rev <= doc'[q].rev
        OBVIOUS
      <4>1. doc[q].rev \in Nat
        BY <1>w, <1>v
      <4> QED
        BY <2>1, <4>1, <1>w DEF Edit
    <3> QED
      BY <3>1, <3>2 DEF OrderShape, Leaves
  <2>2. ASSUME NEW r \in Room, SaveToDisc(r) PROVE OrderShape
    BY <2>2, <1>c, <1>u, <1>q DEF SaveToDisc, jobs, locks
  <2>3. CASE ExternalWrite \/ Rename
    BY <2>3, <1>u, <1>q DEF ExternalWrite, Rename, tasks, jobs, locks
  <2> QED
    BY <1>1, <2>1, <2>2, <2>3 DEF Environment
<1>2. ASSUME NEW t \in Task, Reload(t) PROVE OrderShape
  <2>1. CASE LockForLoad(t) \/ LockForSet(t)
    BY <2>1, <1>g, <1>q DEF LockForLoad, LockForSet
  <2>2. CASE Load(t)
    <3>1. PICK p \in {"cmp", "culock"} : pc' = [pc EXCEPT ![t] = p]
      BY <2>2 DEF Load, Request
    <3>2. t \in Saver => inner[t] # "writing"
      BY <2>2, <1>s DEF Load
    <3> QED
      BY <2>2, <3>1, <3>2, <1>m, <1>q, <1>w DEF Load, jobs
  <2>3. CASE LoadFails(t)
    BY <2>3, <1>d, <1>q DEF LoadFails
  <2>4. CASE Compare(t)
    BY <2>4, <1>g, <1>d, <1>q DEF Compare, Adopt, MarkClean
  <2>5. CASE Set(t)
    <3>1. Kept({}) /\ UNCHANGED savedRev
      BY <2>5, <1>d DEF Set, Adopt, MarkClean
    <3>2. \A q \in Room : doc[q].rev <= doc'[q].rev
      <4> SUFFICES ASSUME NEW q \in Room PROVE doc[q].rev <= doc'[q].rev
        OBVIOUS
      <4>1. doc[q].rev \in Nat
        BY <1>w, <1>v
      <4> QED
        BY <2>5, <4>1, <1>w DEF Set
    <3> QED
      BY <3>1, <3>2 DEF OrderShape, Leaves
  <2> QED
    BY <1>2, <2>1, <2>2, <2>3, <2>4, <2>5 DEF Reload
<1>3. ASSUME NEW s \in Saver, s \notin cancelled, Save(s) PROVE OrderShape
  <2>1. CASE Reload(s)
    BY <2>1, <1>2, <1>w
  <2>k. ASSUME Goto(s, "aget"), Snapshot(s), cancelled \subseteq cancelled', UNCHANGED <<jobs, inner, history, doc>>,
               pc[s] \in {"new", "sleep"}
        PROVE  OrderShape
    <3>1. pc' = [pc EXCEPT ![s] = "aget"] /\ model' = [model EXCEPT ![s] = doc[roomOf[s]]]
      BY <2>k DEF Goto, Snapshot
    <3>2. Kept({s})
      BY <2>k, <3>1, <1>w DEF Kept, Pending, jobs
    <3>3. Takes(s)
      BY <2>k, <3>1, <3>2, <1>3, <1>w DEF Takes, jobs
    <3> QED
      BY <3>3 DEF OrderShape
  <2>2. CASE Start(s)
    <3>1. CASE Return(s)
      BY <2>2, <3>1, <1>d, <1>w, <1>q DEF Start
    <3>2. CASE Goto(s, "aget") /\ Snapshot(s) /\ cancelled \subseteq cancelled' /\ UNCHANGED <<jobs, inner>>
      BY <2>2, <3>2, <2>k DEF Start
    <3>3. CASE Goto(s, "sleep") /\ cancelled \subseteq cancelled' /\ UNCHANGED <<model, jobs, inner>>
      <4>1. Kept({})
        BY <3>3, <1>g, <1>w
      <4> QED
        BY <2>2, <4>1, <1>q DEF Start
    <3> QED
      BY <2>2, <3>1, <3>2, <3>3 DEF Start
  <2>3. CASE Wake(s)
    BY <2>3, <2>k DEF Wake
  <2>4. CASE LockFile(s) \/ CheckedSave(s)
    <3>1. PICK p : pc' = [pc EXCEPT ![s] = p]
      BY <2>4 DEF LockFile, CheckedSave, Request, Take, Goto
    <3>2. Pending(s) /\ UNCHANGED <<cancelled, model, roomOf>> /\ \A u \in Saver \ {s} : inner'[u] = inner[u]
      BY <2>4, <1>3, <1>w DEF LockFile, CheckedSave, Pending, jobs
    <3>3. Kept({})
      BY <3>1, <3>2, <1>w DEF Kept, Pending
    <3> QED
      BY <2>4, <3>3, <1>q DEF LockFile, CheckedSave
  <2>5. CASE OutOfBand(s)
    BY <2>5, <1>g, <1>q, <1>w DEF OutOfBand
  <2>6. CASE NotSaved(s) \/ SaveFailed(s) \/ Drained(s)
    BY <2>6, <1>d, <1>q, <1>w DEF NotSaved, SaveFailed, Drained
  <2>7. CASE Saved(s)
    BY <2>7, <1>d, <1>g, <1>q, <1>w DEF Saved, MarkClean
  <2> QED
    BY <1>3, <2>1, <2>2, <2>3, <2>4, <2>5, <2>6, <2>7 DEF Save
<1>4. ASSUME NEW s \in Saver, Cancel(s) PROVE OrderShape
  <2>1. CASE Goto(s, "drain") /\ cancelled' = cancelled \ {s} /\ UNCHANGED <<jobs, model, inner>>
    <3>1. Kept({})
      BY <2>1, <1>g, <1>w
    <3> QED
      BY <1>4, <3>1, <1>q DEF Cancel
  <2>2. CASE Return(s) \/ Abort(s)
    BY <1>4, <2>2, <1>d, <1>q, <1>w DEF Cancel
  <2> QED
    BY <1>4, <2>1, <2>2 DEF Cancel, StopWaiting
<1>5. ASSUME NEW s \in Saver, Inner(s) PROVE OrderShape
  <2>1. inner[s] \in {"writing", "hashing"} /\ pc[s] \in {"shield", "drain"}
    BY <1>5 DEF Inner, InnerSave, InnerHash, InnerInv
  <2>2. PICK i \in {"hashing", "failed", "done"} : inner' = [inner EXCEPT ![s] = i]
    BY <1>5 DEF Inner, InnerSave, InnerHash
  <2>3. UNCHANGED <<pc, cancelled, model, roomOf, doc>>
    BY <1>5 DEF Inner, InnerSave, InnerHash, locks, jobs
  <2>4. Kept({}) /\ ~Pending(s)'
    BY <2>1, <2>2, <2>3 DEF Kept, Pending, TypeOK
  <2>5. CASE UNCHANGED savedRev
    BY <2>3, <2>4, <2>5, <1>q
  <2>6. CASE inner[s] = "writing" /\ savedRev' = [savedRev EXCEPT ![roomOf[s]] = model[s].rev]
    BY <2>3, <2>4, <2>6 DEF OrderShape, Writes
  <2> QED
    BY <1>5, <2>5, <2>6 DEF Inner, InnerSave, InnerHash
<1>6. CASE Watch
  <2>1. CASE WatchLock
    BY <2>1, <1>g, <1>q, <1>w DEF WatchLock, StatPc
  <2>2. CASE WatchStat
    <3>1. CASE pc[Watcher] = "wstat"
      BY <2>2, <3>1, <1>d, <1>n, <1>q, <1>w DEF WatchStat
    <3>2. CASE pc[Watcher] = "wmoved"
      <4>1. PICK p \in {"wpath", "wpathn"} : pc' = [pc EXCEPT ![Watcher] = p]
        BY <2>2, <3>2 DEF WatchStat
      <4>2. Kept({})
        BY <2>2, <3>2, <4>1, <1>m, <1>w DEF WatchStat, jobs
      <4> QED
        BY <2>2, <4>2, <1>q DEF WatchStat
    <3> QED
      BY <2>2, <3>1, <3>2 DEF WatchStat
  <2>3. CASE WatchPath
    BY <2>3, <1>o, <1>q DEF WatchPath, TypeOK
  <2>4. CASE WatchPathDone \/ WatchFails
    BY <2>4, <1>d, <1>n, <1>q, <1>w DEF WatchPathDone, WatchFails
  <2> QED
    BY <1>6, <2>1, <2>2, <2>3, <2>4, <1>2, <1>w DEF Watch
<1>7. CASE UNCHANGED vars
  BY <1>7, <1>u, <1>q DEF vars, tasks, jobs, locks
<1> QED
  BY <1>1, <1>3, <1>4, <1>5, <1>6, <1>7 DEF Next, SaveStep

\* A write has the file lock.
LEMMA WriterLocks ==
  ASSUME InnerInv, LockInv, NEW s \in Saver, inner[s] \in {"writing", "hashing"}
  PROVE  owner["file"] = s
<1>1. pc[s] \in FileHold
  BY DEF InnerInv, FileHold
<1> QED
  BY <1>1 DEF LockInv, Holds, Task, Lock

\* A save takes its snapshot when those before it of its room are done or cancelled, and those
\* after it have not started; it writes when none after it does.
LEMMA OrderStep ==
  ASSUME SaveDelaySet, TypeOK, CreatedInv, LockInv, InnerInv, OvertakenInv, OrderInv, [Next]_vars
  PROVE  OrderInv' /\ \A r \in Room : savedRev'[r] >= savedRev[r]
<1>w. /\ Saver \subseteq Task /\ Saver \subseteq Nat
      /\ model \in [Task -> Version] /\ doc \in [Room -> Version]
      /\ savedRev \in [Room -> Nat] /\ roomOf \in [Saver -> Room \cup {None}]
  BY DEF Task, Saver, TypeOK, JobsTypeOK
<1>v. /\ \A r \in Room : doc[r].rev \in Nat /\ savedRev[r] \in Nat
      /\ \A s \in Saver : model[s].rev \in Nat
  BY <1>w DEF Version
<1>p. ASSUME NEW s \in Saver, Pending(s) PROVE pc[s] \notin {"none", "new", "done"} /\ roomOf[s] \in Room
  <2>1. pc[s] \notin {"none", "new", "done"}
    BY <1>p DEF Pending, InnerInv
  <2> QED
    BY <2>1 DEF CreatedInv
<1>o. ASSUME NEW s \in Saver, NEW u \in Saver, s < u, roomOf[s] = roomOf[u], Pending(u)
      PROVE  pc[s] \in {"done", "drain"} \/ s \in cancelled
  BY <1>o, <1>p DEF OvertakenInv
<1>t. TypeOK'
  BY TypeStep
<1>r. \A r \in Room : doc'[r].rev \in Nat /\ savedRev'[r] \in Nat
  BY <1>t DEF TypeOK, Version
<1>1. CASE Leaves
  <2>1. \A r \in Room : savedRev'[r] <= doc'[r].rev
    BY <1>1, <1>v, <1>r DEF Leaves, OrderInv
  <2>2. ASSUME NEW s \in Saver, Pending(s)'
        PROVE  savedRev'[roomOf'[s]] <= model'[s].rev /\ model'[s].rev <= doc'[roomOf'[s]].rev
    <3>1. Pending(s) /\ model'[s] = model[s] /\ roomOf'[s] = roomOf[s] /\ roomOf[s] \in Room
      BY <1>1, <2>2, <1>p DEF Leaves, Kept
    <3>2. /\ savedRev[roomOf[s]] <= model[s].rev /\ model[s].rev <= doc[roomOf[s]].rev
          /\ doc[roomOf[s]].rev <= doc'[roomOf[s]].rev
      BY <1>1, <3>1 DEF Leaves, OrderInv
    <3> QED
      BY <1>1, <3>1, <3>2, <1>v, <1>r DEF Leaves
  <2>3. ASSUME NEW s \in Saver, NEW u \in Saver, s < u, roomOf'[s] = roomOf'[u],
               Pending(s)', Pending(u)'
        PROVE  model'[s].rev <= model'[u].rev
    BY <1>1, <2>3 DEF Leaves, Kept, OrderInv
  <2> QED
    BY <1>1, <2>1, <2>2, <2>3, <1>v DEF OrderInv, Leaves
<1>2. ASSUME NEW x \in Saver, Takes(x) PROVE OrderInv' /\ savedRev' = savedRev
  <2>1. ASSUME NEW s \in Saver, Pending(s)', s # x
        PROVE  Pending(s) /\ model'[s] = model[s] /\ roomOf[s] \in Room
    BY <1>2, <2>1, <1>p DEF Takes, Kept
  <2>2. roomOf[x] \in Room
    BY <1>2 DEF Takes, CreatedInv
  <2>3. ASSUME NEW s \in Saver, Pending(s)'
        PROVE  savedRev[roomOf[s]] <= model'[s].rev /\ model'[s].rev <= doc[roomOf[s]].rev
    <3>1. CASE s = x
      BY <1>2, <3>1, <2>2, <1>v DEF Takes, OrderInv
    <3>2. CASE s # x
      BY <3>2, <2>1, <2>3 DEF OrderInv
    <3> QED
      BY <3>1, <3>2
  <2>4. ASSUME NEW s \in Saver, NEW u \in Saver, s < u, roomOf[s] = roomOf[u], Pending(s)', Pending(u)'
        PROVE  model'[s].rev <= model'[u].rev
    <3>1. s # u
      BY <2>4, <1>w
    <3>2. CASE s = x
      <4>1. Pending(u)
        BY <3>1, <3>2, <2>1, <2>4
      <4> QED
        BY <1>2, <3>2, <4>1, <2>4, <1>o DEF Takes
    <3>3. CASE u = x
      <4>1. Pending(s) /\ model'[s] = model[s]
        BY <3>1, <3>3, <2>1, <2>4
      <4>2. model[s].rev <= doc[roomOf[s]].rev
        BY <4>1 DEF OrderInv
      <4> QED
        BY <1>2, <3>3, <4>1, <4>2, <2>4 DEF Takes
    <3>4. CASE s # x /\ u # x
      BY <3>4, <2>1, <2>4 DEF OrderInv
    <3> QED
      BY <3>2, <3>3, <3>4
  <2> QED
    BY <1>2, <2>3, <2>4 DEF OrderInv, Takes
<1>3. ASSUME NEW x \in Saver, Writes(x) PROVE OrderInv' /\ \A r \in Room : savedRev'[r] >= savedRev[r]
  <2>1. /\ Pending(x) /\ roomOf[x] \in Room /\ pc[x] \in {"shield", "drain"}
        /\ savedRev' = [savedRev EXCEPT ![roomOf[x]] = model[x].rev]
    BY <1>3, <1>p DEF Writes, Pending, InnerInv
  <2>2. savedRev[roomOf[x]] <= model[x].rev /\ model[x].rev <= doc[roomOf[x]].rev
    BY <2>1 DEF OrderInv
  <2>3. \A r \in Room : savedRev'[r] >= savedRev[r] /\ savedRev'[r] <= doc[r].rev
    BY <2>1, <2>2, <1>w, <1>v DEF OrderInv
  <2>4. ASSUME NEW s \in Saver, Pending(s)'
        PROVE  /\ Pending(s) /\ model'[s] = model[s] /\ roomOf[s] \in Room /\ s # x
               /\ savedRev'[roomOf[s]] <= model[s].rev
    <3>1. Pending(s) /\ model'[s] = model[s] /\ roomOf[s] \in Room /\ s # x
      BY <1>3, <2>4, <1>p DEF Writes, Kept
    <3>2. savedRev[roomOf[s]] <= model[s].rev
      BY <3>1 DEF OrderInv
    <3>3. CASE roomOf[s] # roomOf[x]
      BY <3>1, <3>2, <3>3, <2>1, <1>w
    <3>4. CASE roomOf[s] = roomOf[x] /\ x < s
      BY <3>1, <3>4, <2>1, <1>w DEF OrderInv
    <3>5. CASE roomOf[s] = roomOf[x] /\ s < x
      <4>1. inner[s] = "writing"
        BY <3>1, <3>5, <2>1, <1>o DEF Pending
      <4>2. owner["file"] = s /\ owner["file"] = x
        BY <1>3, <4>1, WriterLocks DEF Writes
      <4> QED
        BY <4>2, <3>1
    <3> QED
      BY <3>1, <3>3, <3>4, <3>5, <1>w
  <2>5. ASSUME NEW s \in Saver, Pending(s)'
        PROVE  savedRev'[roomOf'[s]] <= model'[s].rev /\ model'[s].rev <= doc'[roomOf'[s]].rev
    BY <1>3, <2>4, <2>5 DEF Writes, OrderInv
  <2>6. ASSUME NEW s \in Saver, NEW u \in Saver, s < u, roomOf'[s] = roomOf'[u],
               Pending(s)', Pending(u)'
        PROVE  model'[s].rev <= model'[u].rev
    BY <1>3, <2>4, <2>6 DEF Writes, OrderInv
  <2> QED
    BY <1>3, <2>3, <2>5, <2>6 DEF OrderInv, Writes
<1> QED
  BY <1>1, <1>2, <1>3, <1>v, OrderShapes DEF OrderShape, Leaves

-----------------------------------------------------------------------------
(* A renamed file is followed                                              *)

\* The watcher tells every room of each new path, unless it fails.
LEMMA PathStep ==
  ASSUME TypeOK, CreatedInv, PathInv, [Next]_vars
  PROVE  PathInv'
<1>w. /\ Watcher \in Task /\ Saver \subseteq Task /\ Watcher \notin Saver
      /\ pc \in [Task -> Pc] /\ docPath \in [Room -> Nat] /\ path \in Nat /\ seenPath \in Nat
      /\ budget \in [Event -> Nat] /\ todo \subseteq Room /\ Budget["failure"] \in Nat
      /\ "failure" \in Event
  BY BudgetAssumption DEF Task, Saver, TypeOK, LocksTypeOK, Event
<1>b. budget["failure"] \in Nat
  BY <1>w
<1> DEFINE Telling == {"wmoved"} \cup PathPc
           Spent == budget'["failure"] <= budget["failure"]
           Failed == budget'["failure"] < budget["failure"]
<1>t. budget'["failure"] \in Nat
  BY <1>w, TypeStep DEF TypeOK
<1>s. Spare \/ Spend("edit") \/ Spend("manual") \/ Spend("external") \/ Spend("rename") => Spent
  <2>1. Event = {"edit", "manual", "external", "rename", "failure"}
    BY DEF Event
  <2> QED
    BY <1>w, <1>b, <2>1 DEF Spare, Spend
<1>f. Spend("failure") => Failed
  BY <1>w, <1>b DEF Spend
<1>k. ASSUME UNCHANGED <<docPath, seenPath>>, path <= path', path' \in Nat,
             Failed \/ (Spent /\ (pc[Watcher] \in Telling => pc'[Watcher] = pc[Watcher] /\ todo' = todo))
      PROVE  PathInv'
  <2>1. budget'["failure"] <= Budget["failure"] /\ (Unfailed' => Unfailed /\ ~Failed)
    <3>1. budget["failure"] <= Budget["failure"]
      BY DEF PathInv
    <3> QED
      BY <1>k, <1>w, <1>b, <1>t, <3>1 DEF Unfailed
  <2>2. seenPath' <= path' /\ \A r \in Room : docPath'[r] <= path'
    BY <1>k, <1>w DEF PathInv
  <2>3. ASSUME Unfailed', NEW r \in Room
        PROVE  \/ seenPath <= docPath[r]
               \/ pc'[Watcher] = "wmoved" \/ (pc'[Watcher] \in PathPc /\ r \in todo')
    BY <1>k, <2>1, <2>3 DEF PathInv
  <2> QED
    BY <1>k, <2>1, <2>2, <2>3 DEF PathInv
<1>m. ASSUME NEW t \in Task, \E p : pc' = [pc EXCEPT ![t] = p], t # Watcher
      PROVE  pc'[Watcher] = pc[Watcher]
  BY <1>m, <1>w
<1>g. ASSUME NEW s \in Saver, \/ Return(s) \/ Abort(s) \/ Done(s)
                              \/ \E p : Goto(s, p)
                              \/ \E l, h, v : Request(s, l, h, v)
                              \/ \E l, h : Take(s, l, h)
      PROVE  pc'[Watcher] = pc[Watcher]
  <2>1. s \in Task /\ s # Watcher
    BY <1>w
  <2>2. \E p : pc' = [pc EXCEPT ![s] = p]
    BY <1>g, <2>1 DEF Return, Abort, Done, Finish, Goto, Request, Take
  <2> QED
    BY <2>1, <2>2, <1>m
<1>d. ASSUME NEW s \in Saver, Return(s) \/ Abort(s) \/ Done(s) PROVE todo' = todo
  BY <1>d, <1>w DEF Return, Abort, Done, Finish
<1>c. ASSUME NEW r \in Room, NEW n, CreateTask(r, n) PROVE pc'[Watcher] = pc[Watcher]
  <2>1. created' \in Saver
    BY <1>c DEF CreateTask, TypeOK, JobsTypeOK, Saver
  <2> QED
    BY <1>c, <2>1, <1>g DEF CreateTask
<1>o. ASSUME NEW r \in Room, OnDocumentChange(r) PROVE pc'[Watcher] = pc[Watcher]
  BY <1>o, <1>c DEF OnDocumentChange, locks
<1>l. path <= path
  BY <1>w
<1> USE DEF files, loader, room, watch, locks
<1>1. CASE Environment
  <2>1. ASSUME NEW r \in Room, Edit(r) PROVE PathInv'
    BY <2>1, <1>o, <1>s, <1>k, <1>l, <1>w DEF Edit
  <2>2. ASSUME NEW r \in Room, SaveToDisc(r) PROVE PathInv'
    BY <2>2, <1>c, <1>s, <1>k, <1>l, <1>w DEF SaveToDisc
  <2>3. CASE ExternalWrite
    BY <2>3, <1>s, <1>k, <1>l, <1>w DEF ExternalWrite, tasks
  <2>4. CASE Rename
    BY <2>4, <1>s, <1>k, <1>w DEF Rename, tasks
  <2> QED
    BY <1>1, <2>1, <2>2, <2>3, <2>4 DEF Environment
<1>2. ASSUME NEW s \in Saver, Reload(s) PROVE PathInv'
  <2>1. UNCHANGED <<docPath, seenPath, path>> /\ (Spare \/ Spend("failure"))
    BY <1>2 DEF Reload, LockForLoad, Load, LoadFails, LockForSet, Compare, Set
  <2>2. pc'[Watcher] = pc[Watcher] /\ todo' = todo
    <3>1. CASE Done(s)
      BY <3>1, <1>g, <1>d
    <3>2. CASE ~Done(s)
      BY <1>2, <3>2, <1>g
         DEF Reload, LockForLoad, Load, LoadFails, LockForSet, Compare, Set, Adopt, MarkClean
    <3> QED
      BY <3>1, <3>2
  <2> QED
    BY <2>1, <2>2, <1>s, <1>f, <1>k, <1>l, <1>w
<1>3. ASSUME NEW s \in Saver, Save(s) PROVE PathInv'
  <2>1. CASE Reload(s)
    BY <2>1, <1>2
  <2>2. CASE ~Reload(s)
    <3>1. UNCHANGED <<docPath, seenPath, path>> /\ (Spare \/ Spend("failure"))
      BY <1>3, <2>2 DEF Save, Start, Wake, LockFile, CheckedSave, OutOfBand, NotSaved, Saved,
                        SaveFailed, Drained
    <3>2. pc'[Watcher] = pc[Watcher] /\ todo' = todo
      <4>1. CASE Return(s) \/ Done(s)
        BY <4>1, <1>g, <1>d
      <4>2. CASE ~Return(s) /\ ~Done(s)
        BY <1>3, <2>2, <4>2, <1>g
           DEF Save, Start, Wake, LockFile, CheckedSave, OutOfBand, NotSaved, Saved,
               SaveFailed, Drained, MarkClean
      <4> QED
        BY <4>1, <4>2
    <3> QED
      BY <3>1, <3>2, <1>s, <1>f, <1>k, <1>l, <1>w
  <2> QED
    BY <2>1, <2>2
<1>4. ASSUME NEW s \in Saver, Cancel(s) PROVE PathInv'
  <2>1. pc'[Watcher] = pc[Watcher] /\ todo' = todo
    <3>1. CASE Return(s) \/ Abort(s)
      BY <3>1, <1>g, <1>d
    <3>2. CASE ~Return(s) /\ ~Abort(s)
      BY <1>4, <3>2, <1>g DEF Cancel, StopWaiting
    <3> QED
      BY <3>1, <3>2
  <2> QED
    BY <1>4, <2>1, <1>s, <1>k, <1>l, <1>w DEF Cancel
<1>5. ASSUME NEW s \in Saver, Inner(s) PROVE PathInv'
  BY <1>5, <1>s, <1>f, <1>k, <1>l, <1>w DEF Inner, InnerSave, InnerHash
<1>6. CASE Watch
  <2> DEFINE Told(r) == seenPath' <= docPath'[r] \/ pc'[Watcher] = "wmoved"
                        \/ (pc'[Watcher] \in PathPc /\ r \in todo')
  <2>0. ASSUME Spare, path' = path, seenPath' <= path, \A r \in Room : docPath'[r] <= path,
               Unfailed => \A r \in Room : Told(r)
        PROVE  PathInv'
    BY <2>0, <1>w DEF PathInv, Unfailed, Spare
  <2>1. CASE WatchLock
    <3>1. CASE UNCHANGED seenPath
      BY <2>1, <3>1, <1>s, <1>k, <1>l, <1>w DEF WatchLock, PathPc
    <3>2. CASE seenPath' = path /\ seenPath # path
      <4>1. pc'[Watcher] = "wmoved"
        BY <2>1, <3>2, <1>w DEF WatchLock, StatPc, Request, Take
      <4> QED
        BY <2>1, <3>2, <4>1, <2>0, <1>l, <1>w DEF WatchLock, PathInv
    <3> QED
      BY <2>1, <3>1, <3>2 DEF WatchLock
  <2>2. CASE WatchStat
    <3>1. CASE pc[Watcher] = "wstat"
      BY <2>2, <3>1, <1>s, <1>k, <1>l, <1>w DEF WatchStat, PathPc
    <3>2. CASE pc[Watcher] = "wmoved"
      <4>1. pc'[Watcher] \in PathPc /\ todo' = Room
        BY <2>2, <3>2, <1>w DEF WatchStat, PathPc
      <4> QED
        BY <2>2, <4>1, <2>0, <1>w DEF WatchStat, PathInv
    <3> QED
      BY <2>2, <3>1, <3>2 DEF WatchStat
  <2>3. CASE WatchPath
    <3>1. PICK r \in todo : /\ docPath' = [docPath EXCEPT ![r] = path] /\ OnDocumentChange(r)
                            /\ todo' = todo \ {r}
      BY <2>3 DEF WatchPath
    <3>2. r \in Room /\ pc'[Watcher] = pc[Watcher] /\ pc[Watcher] \in PathPc /\ seenPath' = seenPath
      BY <2>3, <3>1, <1>o, <1>w DEF WatchPath
    <3>3. "wmoved" \notin PathPc
      BY DEF PathPc
    <3>4. ASSUME Unfailed, NEW q \in Room PROVE Told(q)
      BY <3>1, <3>2, <3>3, <3>4, <1>w DEF PathInv
    <3>5. \A q \in Room : docPath'[q] <= path
      BY <3>1, <3>2, <1>w, <1>l DEF PathInv
    <3> QED
      BY <2>3, <3>2, <3>4, <3>5, <2>0 DEF WatchPath, PathInv
  <2>4. CASE WatchPathDone
    <3>1. pc[Watcher] \in PathPc /\ todo = {} /\ "wmoved" \notin PathPc
      BY <2>4 DEF WatchPathDone, PathPc
    <3>2. Unfailed => \A r \in Room : Told(r)
      BY <2>4, <3>1 DEF WatchPathDone, PathInv
    <3> QED
      BY <2>4, <3>2, <2>0 DEF WatchPathDone, PathInv
  <2>5. CASE WatchFails
    BY <2>5, <1>f, <1>k, <1>l, <1>w DEF WatchFails
  <2>6. CASE Reload(Watcher)
    <3>1. pc[Watcher] \notin Telling
      BY <2>6 DEF Reload, LockForLoad, Load, LoadFails, LockForSet, Compare, Set, PathPc
    <3>2. UNCHANGED <<docPath, seenPath, path>> /\ (Spare \/ Spend("failure"))
      BY <2>6 DEF Reload, LockForLoad, Load, LoadFails, LockForSet, Compare, Set
    <3> QED
      BY <3>1, <3>2, <1>s, <1>f, <1>k, <1>l, <1>w
  <2> QED
    BY <1>6, <2>1, <2>2, <2>3, <2>4, <2>5, <2>6 DEF Watch
<1>7. CASE UNCHANGED vars
  BY <1>7, <1>s, <1>k, <1>l, <1>w DEF vars, tasks, Spare
<1> QED
  BY <1>1, <1>3, <1>4, <1>5, <1>6, <1>7 DEF Next, SaveStep

-----------------------------------------------------------------------------
(* What has not been saved is about to be                                  *)

Unwanted == {"rlock", "rget", "culock", "cmp", "set", "ulock", "wpathn"}
Contents == <<disk, lastModified, doc, known, savedRev>>

\* Where nothing is reloaded the rooms' locks are free, ...
LEMMA RoomsFree ==
  ASSUME IInv, SavedInv, NEW r \in Room
  PROVE  owner[r] = None /\ \A t \in Task : Free(t, r)
<1>1. r \in Lock /\ r # "file"
  BY NameAssumption DEF Lock
<1>2. \A t \in Task : pc[t] \notin UpdateHold \cup UpdateWait
  BY DEF SavedInv, UpdateHold, UpdateWait
<1>3. owner[r] = None
  BY <1>1, <1>2 DEF IInv, LockInv, Holds, TypeOK, LocksTypeOK
<1> QED
  BY <1>1, <1>2, <1>3 DEF Free, Released, Waiting

\* ... and a step that leaves the contents keeps SavedInv if some save still has the change.
LEMMA SavedKept ==
  ASSUME IInv, SavedInv, [Next]_vars, UNCHANGED Contents,
         budget'["external"] = 0,
         \A t \in Task : pc'[t] \notin Unwanted,
         \A s \in Saver \ cancelled : Carries(s) =>
           \E u \in Saver \ cancelled' : roomOf'[u] = roomOf[s] /\ Carries(u)'
  PROVE  SavedInv'
<1>1. /\ budget'["external"] = 0 /\ lastModified' = disk'.mtime
      /\ \A t \in Task : pc'[t] \notin Unwanted
      /\ \A r \in Room : known'[r] = disk'.content
      /\ \A r \in Room : savedRev'[r] = doc'[r].rev => known'[r] = doc'[r].content
  BY DEF SavedInv, Contents
<1>2. ASSUME NEW r \in Room
      PROVE  \/ savedRev'[r] = doc'[r].rev
             \/ \E s \in Saver \ cancelled' : roomOf'[s] = r /\ Carries(s)'
  BY DEF SavedInv, Contents
<1>3. ASSUME NEW s \in Saver, Pending(s)', model'[s].rev = doc'[roomOf'[s]].rev
      PROVE  model'[s].content = doc'[roomOf'[s]].content
  <2>1. CASE Kept({})
    BY <1>3, <2>1 DEF Kept, SavedInv, Contents
  <2>2. ASSUME NEW x \in Saver, Takes(x) PROVE model'[s].content = doc'[roomOf'[s]].content
    <3>1. CASE s = x
      BY <2>2, <3>1 DEF Takes
    <3>2. CASE s # x
      BY <1>3, <2>2, <3>2 DEF Takes, Kept, SavedInv
    <3> QED
      BY <3>1, <3>2
  <2> QED
    BY <2>1, <2>2, OrderShapes DEF IInv, OrderShape, Leaves, Writes
<1> QED
  BY <1>1, <1>2, <1>3 DEF SavedInv, Unwanted

\* So does the await of one task, if it is no save that has the change, or still has it.
LEMMA SavedMove ==
  ASSUME IInv, SavedInv, [Next]_vars, UNCHANGED <<Contents, roomOf>>, budget'["external"] = 0,
         NEW t \in Task, NEW p, p \notin Unwanted, pc' = [pc EXCEPT ![t] = p],
         \A u \in Saver \ {t} : inner'[u] = inner[u] /\ model'[u] = model[u],
         cancelled' \subseteq cancelled,
         t \in Saver \ cancelled /\ Carries(t) => Carries(t)'
  PROVE  SavedInv'
<1>1. pc \in [Task -> Pc] /\ Saver \subseteq Task
  BY DEF IInv, TypeOK, LocksTypeOK, Task
<1>2. \A u \in Task : pc'[u] \notin Unwanted
  BY <1>1 DEF SavedInv, Unwanted
<1>3. ASSUME NEW s \in Saver \ cancelled, Carries(s) PROVE s \in Saver \ cancelled' /\ Carries(s)'
  <2>1. CASE s = t
    BY <1>3, <2>1
  <2>2. CASE s # t
    <3>1. pc'[s] = pc[s] /\ inner'[s] = inner[s] /\ model'[s] = model[s]
      BY <1>1, <1>3, <2>2
    <3>2. doc' = doc /\ roomOf' = roomOf
      BY DEF Contents
    <3> QED
      BY <1>3, <3>1, <3>2 DEF Carries
  <2> QED
    BY <2>1, <2>2
<1> QED
  BY <1>2, <1>3, SavedKept

\* A new save will take what the document has.
LEMMA SavedCreate ==
  ASSUME IInv, SavedInv, [Next]_vars, UNCHANGED Contents, budget'["external"] = 0,
         UNCHANGED <<cancelled, inner, model>>, NEW r \in Room, NEW n \in BOOLEAN, CreateTask(r, n)
  PROVE  SavedInv'
<1>1. pc \in [Task -> Pc] /\ Saver \subseteq Task
  BY DEF IInv, TypeOK, LocksTypeOK, Task
<1>2. created' \in Saver /\ ~(created' <= created)
  BY DEF IInv, CreateTask, TypeOK, JobsTypeOK, Saver
<1>3. pc[created'] = "none"
  BY <1>2 DEF IInv, CreatedInv
<1>4. pc' = [pc EXCEPT ![created'] = "new"] /\ roomOf' = [roomOf EXCEPT ![created'] = r]
  BY DEF CreateTask, Goto
<1>5. \A u \in Task : pc'[u] \notin Unwanted
  BY <1>1, <1>4 DEF SavedInv, Unwanted
<1>6. ASSUME NEW s \in Saver \ cancelled, Carries(s)
      PROVE  s \in Saver \ cancelled' /\ roomOf'[s] = roomOf[s] /\ Carries(s)'
  <2>1. s # created'
    BY <1>3, <1>6 DEF Carries
  <2>2. pc'[s] = pc[s] /\ roomOf'[s] = roomOf[s]
    BY <1>1, <1>4, <1>6, <2>1 DEF IInv, TypeOK, JobsTypeOK
  <2> QED
    BY <1>6, <2>2 DEF Carries, Contents
<1> QED
  BY <1>5, <1>6, SavedKept

\* Every step keeps it.
LEMMA SavedStep ==
  ASSUME Undisturbed, IInv, SavedInv, [Next]_vars
  PROVE  SavedInv'
<1>w. /\ Watcher \in Task /\ Saver \subseteq Task /\ Watcher \notin Saver
      /\ pc \in [Task -> Pc] /\ cancelled \subseteq Saver /\ TypeOK
      /\ model \in [Task -> Version] /\ doc \in [Room -> Version]
      /\ disk.mtime \in Nat /\ lastModified = disk.mtime /\ budget["external"] = 0
      /\ inner = [u \in Saver |-> inner[u]]
  BY DEF Task, Saver, IInv, SavedInv, TypeOK, LocksTypeOK
<1>b. budget["failure"] = 0 /\ Event = {"edit", "manual", "external", "rename", "failure"}
  BY DEF IInv, PathInv, TypeOK, Undisturbed, Event
<1>f. ~Spend("failure") /\ ~Spend("external")
  BY <1>w, <1>b DEF Spend
<1>s. Spare \/ Spend("edit") \/ Spend("manual") \/ Spend("rename") => budget'["external"] = 0
  BY <1>w, <1>b DEF Spare, Spend, TypeOK
<1>p. \A t \in Task : pc[t] \notin Unwanted
  BY DEF SavedInv, Unwanted
<1>e. ASSUME NEW t \in Task, Finish(t), UNCHANGED <<Contents>>, budget'["external"] = 0,
             t \in Saver \ cancelled => ~Carries(t)
      PROVE  SavedInv'
  <2>1. PICK q \in {"sleep", "done"} : pc' = [pc EXCEPT ![t] = q]
    BY <1>e DEF Finish
  <2>2. UNCHANGED <<inner, roomOf, model>> /\ cancelled' \subseteq cancelled
    BY <1>e DEF Finish, jobs
  <2>3. q \notin Unwanted
    BY <2>1 DEF Unwanted
  <2> QED
    BY <1>e, <2>1, <2>2, <2>3, SavedMove
<1>u. ASSUME UNCHANGED <<Contents, pc, roomOf, inner, model, cancelled>>, budget'["external"] = 0
      PROVE  SavedInv'
  BY <1>u, <1>p, SavedKept DEF Carries, Contents
<1> USE DEF files, loader, room, history
<1>1. ASSUME NEW r \in Room, Edit(r) PROVE SavedInv'
  <2>1. CreateTask(r, FALSE) /\ UNCHANGED <<disk, lastModified, known, savedRev, cancelled, inner, model>>
    BY <1>1, RoomsFree DEF Edit, OnDocumentChange, Undisturbed
  <2>2. created' \in Saver /\ created \in Nat /\ created' = created + 1 /\ created' # None
    BY <2>1, NameAssumption DEF CreateTask, IInv, TypeOK, JobsTypeOK, Saver
  <2>3. created' \notin cancelled
    <3> SUFFICES ASSUME created' \in cancelled PROVE FALSE
      OBVIOUS
    <3>1. PICK u \in Saver : prev[u] = created'
      BY <2>2 DEF IInv, CancelInv, Replaced
    <3>2. u <= created /\ prev[u] < u
      BY <2>2, <3>1 DEF IInv, PrevInv
    <3> QED
      BY <2>2, <3>1, <3>2 DEF Saver
  <2>4. /\ pc' = [pc EXCEPT ![created'] = "new"] /\ roomOf' = [roomOf EXCEPT ![created'] = r]
    BY <2>1 DEF CreateTask, Goto
  <2>5. \A t \in Task : pc'[t] \notin Unwanted
    BY <2>4, <1>w, <1>p DEF Unwanted
  <2>6. ASSUME NEW q \in Room PROVE q = r /\ doc'[q].rev = doc[q].rev + 1 /\ doc[q].rev \in Nat
    BY <1>1, <1>w DEF Edit, Undisturbed, Version
  <2>7. ASSUME NEW q \in Room
        PROVE  \E s \in Saver \ cancelled' : roomOf'[s] = q /\ Carries(s)'
    <3>1. roomOf'[created'] = q /\ pc'[created'] = "new"
      BY <2>2, <2>4, <2>6, <1>w DEF IInv, TypeOK, JobsTypeOK
    <3> QED
      BY <2>1, <2>2, <2>3, <3>1 DEF Carries
  <2>8. \A q \in Room : savedRev'[q] # doc'[q].rev
    <3> SUFFICES ASSUME NEW q \in Room PROVE savedRev[q] # doc'[q].rev
      BY <2>1
    <3>1. savedRev[q] <= doc[q].rev /\ savedRev[q] \in Nat
      BY DEF IInv, OrderInv, Undisturbed, TypeOK
    <3> QED
      BY <2>6, <3>1
  <2>9. ASSUME NEW s \in Saver, Pending(s)' PROVE model'[s].rev # doc'[roomOf'[s]].rev
    <3>1. OrderShape
      BY OrderShapes DEF IInv
    <3>2. Kept({})
      <4>1. doc' # doc
        BY <1>w, <2>6
      <4> QED
        BY <3>1, <4>1 DEF OrderShape, Leaves, Takes, Writes
    <3>3. Pending(s) /\ model'[s] = model[s] /\ roomOf'[s] = roomOf[s]
      BY <3>2, <2>9 DEF Kept
    <3>4. roomOf[s] \in Room
      BY <3>3 DEF Pending, IInv, InnerInv, CreatedInv
    <3>5. model[s].rev <= doc[roomOf[s]].rev /\ model[s].rev \in Nat
      BY <3>3, <1>w DEF IInv, OrderInv, Undisturbed, Version
    <3> QED
      BY <3>3, <3>4, <3>5, <2>6
  <2> QED
    BY <1>1, <2>1, <2>5, <2>7, <2>8, <2>9, <1>s, <1>w DEF SavedInv, Edit, Unwanted
<1>2. ASSUME NEW r \in Room, SaveToDisc(r) PROVE SavedInv'
  <2>1. CreateTask(r, TRUE)
    BY <1>2, RoomsFree DEF SaveToDisc
  <2> QED
    BY <1>2, <2>1, <1>s, SavedCreate DEF SaveToDisc, Contents
<1>3. CASE Rename
  BY <1>3, <1>u, <1>s DEF Rename, Contents, tasks, jobs, locks
<1>4. ASSUME NEW s \in Saver, s \notin cancelled, Save(s) PROVE SavedInv'
  <2>0. s \in Task /\ s # Watcher
    BY <1>w
  <2>1. CASE Start(s)
    <3>1. /\ cancelled' = cancelled \cup Superseded(s) /\ UNCHANGED <<Contents, inner, jobs>>
          /\ budget'["external"] = 0
      BY <2>1, <1>s DEF Start, Undisturbed, Contents
    <3>2. PICK q \in {"aget", "sleep"} : pc' = [pc EXCEPT ![s] = q]
      BY <2>1 DEF Start, Undisturbed, Goto
    <3>3. q = "aget" => model' = [model EXCEPT ![s] = doc[roomOf[s]]]
      BY <2>1, <3>2, <1>w DEF Start, Undisturbed, Goto, Snapshot
    <3>4. \A t \in Task : pc'[t] \notin Unwanted
      BY <3>2, <1>w, <1>p DEF Unwanted
    <3>5. s \notin cancelled'
      <4>1. prev[s] # s
        BY DEF IInv, PrevInv, Saver
      <4> QED
        BY <1>4, <3>1, <4>1 DEF Superseded
    <3>6. Carries(s)'
      BY <3>1, <3>2, <3>3, <1>w DEF Carries, Contents, jobs
    <3>7. ASSUME NEW v \in Saver \ cancelled, Carries(v) PROVE roomOf'[s] = roomOf[v]
      <4>1. roomOf[s] \in Room /\ roomOf[v] \in Room
        BY <2>1, <3>7 DEF Start, Carries, IInv, CreatedInv
      <4> QED
        BY <3>1, <4>1 DEF Undisturbed, jobs
    <3> QED
      BY <3>1, <3>4, <3>5, <3>6, <3>7, SavedKept
  <2>2. CASE Wake(s)
    <3>1. /\ pc' = [pc EXCEPT ![s] = "aget"] /\ model' = [model EXCEPT ![s] = doc[roomOf[s]]]
          /\ UNCHANGED <<Contents, roomOf, inner, cancelled>> /\ budget'["external"] = 0
      BY <2>2, <1>s DEF Wake, Goto, Snapshot, Contents, jobs
    <3>2. Carries(s)' /\ "aget" \notin Unwanted
      BY <3>1, <1>w DEF Carries, Unwanted, Contents
    <3> QED
      BY <3>1, <3>2, <2>0, <1>w, SavedMove
  <2>3. CASE LockFile(s)
    <3>1. PICK q \in {"lock", "stat"} : pc' = [pc EXCEPT ![s] = q]
      BY <2>3 DEF LockFile, Request, Take
    <3>2. UNCHANGED <<Contents, roomOf, inner, model, cancelled>> /\ budget'["external"] = 0
      BY <2>3, <1>s DEF LockFile, Contents, jobs
    <3>3. (Carries(s) => Carries(s)') /\ q \notin Unwanted
      BY <2>3, <3>1, <3>2, <1>w DEF LockFile, Carries, Unwanted, Contents
    <3> QED
      BY <3>1, <3>2, <3>3, <2>0, SavedMove
  <2>4. CASE CheckedSave(s)
    <3>1. /\ pc[s] = "stat" /\ pc' = [pc EXCEPT ![s] = "shield"]
          /\ inner' = [inner EXCEPT ![s] = "writing"]
          /\ UNCHANGED <<Contents, roomOf, model, cancelled>> /\ budget'["external"] = 0
      BY <2>4, <1>s DEF CheckedSave, Goto, Contents, jobs
    <3>2. (Carries(s) => Carries(s)') /\ "shield" \notin Unwanted
      BY <3>1, <1>w DEF Carries, Unwanted, Contents
    <3> QED
      BY <3>1, <3>2, <2>0, <1>w, SavedMove
  <2>5. CASE Saved(s)
    <3>1. pc[s] = "shield" /\ inner[s] = "done" /\ Return(s)
      <4>1. pc[s] = "shield" /\ inner[s] = "done"
        BY <2>5, <1>p, <2>0 DEF Saved, Unwanted
      <4>2. roomOf[s] \in Room
        BY <4>1 DEF IInv, CreatedInv
      <4> QED
        BY <2>5, <4>1, <4>2, <2>0, RoomsFree DEF Saved, MarkClean, Done
    <3> QED
      BY <2>5, <3>1, <2>0, <1>e, <1>s DEF Saved, Return, Carries, Contents
  <2>6. CASE SaveFailed(s) \/ Drained(s)
    <3>1. Return(s) /\ ~Carries(s) /\ UNCHANGED Contents /\ budget'["external"] = 0
      BY <2>6, <1>s DEF SaveFailed, Drained, Carries, Contents
    <3> QED
      BY <3>1, <2>0, <1>e DEF Return
  <2>7. ~OutOfBand(s) /\ ~Reload(s)
    BY <1>w, <1>p, <1>f, <2>0
       DEF OutOfBand, Reload, LockForLoad, Load, LoadFails, LockForSet, Compare, Set, Unwanted
  <2>8. ~NotSaved(s)
    BY <1>f DEF NotSaved, Undisturbed
  <2> QED
    BY <1>4, <2>1, <2>2, <2>3, <2>4, <2>5, <2>6, <2>7, <2>8 DEF Save
<1>5. ASSUME NEW s \in Saver, Cancel(s) PROVE SavedInv'
  <2>1. /\ s \in cancelled /\ s \in Task /\ UNCHANGED Contents /\ budget'["external"] = 0
    BY <1>5, <1>s, <1>w DEF Cancel, Contents
  <2>2. CASE Return(s) \/ Abort(s)
    BY <2>1, <2>2, <1>e DEF Return, Abort
  <2>3. CASE Goto(s, "drain") /\ cancelled' = cancelled \ {s} /\ UNCHANGED <<jobs, model, inner>>
    <3>1. "drain" \notin Unwanted /\ pc' = [pc EXCEPT ![s] = "drain"] /\ roomOf' = roomOf
      BY <2>3 DEF Goto, Unwanted, jobs
    <3> QED
      BY <2>1, <2>3, <3>1, SavedMove
  <2> QED
    BY <1>5, <2>2, <2>3 DEF Cancel, StopWaiting
<1>6. ASSUME NEW s \in Saver, Inner(s) PROVE SavedInv'
  <2>1. UNCHANGED <<pc, cancelled, model, roomOf, doc>> /\ s \in Task
    BY <1>6, <1>w DEF Inner, InnerSave, InnerHash, locks, jobs
  <2>2. CASE InnerHash(s)
    <3>1. UNCHANGED Contents /\ budget'["external"] = 0 /\ inner[s] = "hashing"
      BY <2>2, <1>s, <1>f DEF InnerHash, Contents
    <3>2. pc[s] \notin {"new", "sleep", "aget", "lock", "stat"}
      BY <3>1 DEF IInv, InnerInv
    <3>3. ~Carries(s)
      BY <3>1, <3>2 DEF Carries
    <3>4. pc' = [pc EXCEPT ![s] = pc[s]] /\ pc[s] \notin Unwanted
      BY <2>1, <1>w, <1>p
    <3>5. \A u \in Saver \ {s} : inner'[u] = inner[u]
      BY <2>2, <1>w DEF InnerHash
    <3> QED
      BY <2>1, <3>1, <3>3, <3>4, <3>5, SavedMove
  <2>3. CASE InnerSave(s)
    <3>1. /\ inner[s] = "writing" /\ inner' = [inner EXCEPT ![s] = "hashing"]
          /\ disk' = [content |-> model[s].content, mtime |-> clock'] /\ lastModified' = clock'
          /\ known' = [known EXCEPT ![roomOf[s]] = model[s].content]
          /\ savedRev' = [savedRev EXCEPT ![roomOf[s]] = model[s].rev]
          /\ budget'["external"] = 0
      BY <2>3, <1>s, <1>f DEF InnerSave
    <3>2. Pending(s) /\ pc[s] \in {"shield", "drain"} /\ roomOf[s] \in Room
      BY <3>1 DEF Pending, IInv, InnerInv, CreatedInv
    <3>3. ASSUME NEW r \in Room
          PROVE  r = roomOf[s] /\ known'[r] = model[s].content /\ savedRev'[r] = model[s].rev
      BY <3>1, <3>2 DEF Undisturbed, IInv, TypeOK
    <3>4. model[s].rev = doc[roomOf[s]].rev => model[s].content = doc[roomOf[s]].content
      BY <3>2 DEF SavedInv
    <3>5. /\ savedRev[roomOf[s]] <= model[s].rev /\ model[s].rev <= doc[roomOf[s]].rev
          /\ savedRev[roomOf[s]] \in Nat /\ model[s].rev \in Nat /\ doc[roomOf[s]].rev \in Nat
      BY <3>2, <1>w DEF IInv, OrderInv, Undisturbed, TypeOK, Version
    <3>6. ASSUME NEW r \in Room, savedRev'[r] # doc'[r].rev
          PROVE  \E u \in Saver \ cancelled' : roomOf'[u] = r /\ Carries(u)'
      <4>1. r = roomOf[s] /\ model[s].rev # doc[r].rev
        BY <3>3, <3>6, <2>1
      <4>2. savedRev[r] # doc[r].rev
        BY <4>1, <3>5
      <4>3. PICK u \in Saver \ cancelled : roomOf[u] = r /\ Carries(u)
        BY <4>2 DEF SavedInv
      <4>4. u # s
        BY <3>2, <4>1, <4>3 DEF Carries
      <4> QED
        BY <2>1, <3>1, <4>3, <4>4, <1>w DEF Carries
    <3>7. ASSUME NEW u \in Saver, Pending(u)', model'[u].rev = doc'[roomOf'[u]].rev
          PROVE  model'[u].content = doc'[roomOf'[u]].content
      <4>1. Pending(u)
        BY <3>1, <3>7, <2>1, <1>w DEF Pending
      <4> QED
        BY <4>1, <3>7, <2>1 DEF SavedInv
    <3> QED
      BY <2>1, <3>1, <3>3, <3>4, <3>6, <3>7, <1>p DEF SavedInv, Unwanted
  <2> QED
    BY <1>6, <2>2, <2>3 DEF Inner
<1>7. CASE Watch
  <2>m. ASSUME NEW q, q \notin Unwanted, pc' = [pc EXCEPT ![Watcher] = q], UNCHANGED <<Contents, roomOf, inner, model, cancelled>>,
               budget'["external"] = 0
        PROVE  SavedInv'
    BY <2>m, <1>w, SavedMove
  <2>r. ASSUME Return(Watcher), UNCHANGED Contents, budget'["external"] = 0 PROVE SavedInv'
    BY <2>r, <1>w, <1>e DEF Return
  <2>1. CASE WatchLock
    <3>1. PICK q \in {"wmoved", "wstat", "wlock"} : pc' = [pc EXCEPT ![Watcher] = q]
      BY <2>1 DEF WatchLock, StatPc, Request, Take
    <3>2. q \notin Unwanted
      BY <3>1 DEF Unwanted
    <3> QED
      BY <2>1, <3>1, <3>2, <2>m, <1>s DEF WatchLock, Contents, jobs
  <2>2. CASE WatchStat
    <3>1. ~Newer(disk.mtime) /\ UNCHANGED Contents /\ budget'["external"] = 0
      BY <2>2, <1>s, <1>w DEF WatchStat, Newer, Contents
    <3>2. CASE pc[Watcher] = "wstat"
      BY <2>2, <3>1, <3>2, <2>r DEF WatchStat
    <3>3. CASE pc[Watcher] = "wmoved"
      <4>1. pc' = [pc EXCEPT ![Watcher] = "wpath"] /\ "wpath" \notin Unwanted
        BY <2>2, <3>1, <3>3 DEF WatchStat, Unwanted
      <4> QED
        BY <2>2, <3>1, <3>3, <4>1, <2>m DEF WatchStat, jobs
    <3> QED
      BY <2>2, <3>2, <3>3 DEF WatchStat
  <2>3. CASE WatchPath
    <3>1. PICK r \in Room : OnDocumentChange(r)
      BY <2>3, <1>w DEF WatchPath, TypeOK
    <3>2. CreateTask(r, FALSE)
      BY <3>1, RoomsFree DEF OnDocumentChange, Undisturbed
    <3> QED
      BY <2>3, <3>2, <1>s, SavedCreate DEF WatchPath, Contents
  <2>4. CASE WatchPathDone
    <3>1. pc[Watcher] # "wpathn"
      BY <1>p, <1>w DEF Unwanted
    <3> QED
      BY <2>4, <3>1, <2>r, <1>s DEF WatchPathDone, Contents
  <2>5. ~WatchFails /\ ~Reload(Watcher)
    BY <1>w, <1>p, <1>f
       DEF WatchFails, Reload, LockForLoad, Load, LoadFails, LockForSet, Compare, Set, Unwanted
  <2> QED
    BY <1>7, <2>1, <2>2, <2>3, <2>4, <2>5 DEF Watch
<1>8. CASE UNCHANGED vars
  BY <1>8, <1>u, <1>w DEF vars, tasks, jobs, locks, Contents
<1>9. ~ExternalWrite
  BY <1>f DEF ExternalWrite
<1> QED
  BY <1>1, <1>2, <1>3, <1>4, <1>5, <1>6, <1>7, <1>8, <1>9 DEF Next, Environment, SaveStep

-----------------------------------------------------------------------------
(* The theorems                                                            *)

\* The inductive invariant: types, lock ownership, begun writes and cancellations
\* are as IInv says in every reachable state, for any rooms and bounds.
THEOREM Inductive == Spec => []IInv
<1>1. Init => IInv
  <2>1. Init => CreatedInv /\ InnerInv
    BY BudgetAssumption DEF Init, CreatedInv, InnerInv, Saver, Task
  <2>2. Init => LockInv
    BY HoldsDisjoint DEF Init, LockInv, Holds, Task, Saver
  <2>3. Init => PrevInv /\ CancelInv /\ ChainInv /\ OvertakenInv
    BY BudgetAssumption DEF Init, PrevInv, CancelInv, ChainInv, OvertakenInv, Saver, Task
  <2>4. Init => OrderInv
    BY DEF Init, OrderInv, Pending, Saver, Task
  <2>5. Init => PathInv
    BY BudgetAssumption DEF Init, PathInv, Event
  <2> QED
    BY <2>1, <2>2, <2>3, <2>4, <2>5, InitType DEF IInv
<1>2. IInv /\ [Next]_vars => IInv'
  <2> SUFFICES ASSUME IInv, [Next]_vars PROVE IInv'
    OBVIOUS
  <2>1. TypeOK' /\ CreatedInv' /\ LockInv' /\ InnerInv' /\ PrevInv' /\ CancelInv' /\ ChainInv'
    BY TypeStep, CreatedStep, LockStep, InnerStep, PrevStep, CancelStep, ChainStep DEF IInv
  <2>2. SaveDelaySet => OvertakenInv' /\ OrderInv'
    BY OvertakenStep, OrderStep DEF IInv
  <2>3. PathInv'
    BY PathStep DEF IInv
  <2> QED
    BY <2>1, <2>2, <2>3 DEF IInv
<1> QED
  BY <1>1, <1>2, PTL DEF Spec

\* Every variable keeps its kind: no task is ever parked at an unknown await,
\* every lock is free or held by a task, only save tasks are cancelled.
THEOREM TypeCorrect == Spec => []TypeOK
<1>1. IInv => TypeOK
  BY DEF IInv
<1> QED
  BY <1>1, Inductive, PTL

\* The locks of the loader and the rooms are held exactly by the tasks inside
\* their async-with blocks, however saves, reloads and cancellations interleave.
THEOREM MutualExclusion == Spec => []LockInv
<1>1. IInv => LockInv
  BY DEF IInv
<1> QED
  BY <1>1, Inductive, PTL

\* A write of the file runs under the file lock from its first to its last step,
\* whether or not the task that began it is cancelled: no stat, load or other
\* write of the loader overlaps it.
THEOREM WritesCovered == Spec => []WriteUnderLock
<1>1. IInv => WriteUnderLock
  BY WriterLocks DEF IInv, WriteUnderLock
<1> QED
  BY <1>1, Inductive, PTL

\* Where saves are delayed, an older snapshot of a document never replaces a newer one in
\* the file, however its saves are debounced, cancelled, or held up by a lock.
THEOREM Ordered == SaveDelaySet => (Spec => SavesInOrder)
<1> SUFFICES ASSUME SaveDelaySet PROVE Spec => SavesInOrder
  OBVIOUS
<1>1. IInv /\ [Next]_vars => [\A r \in Room : savedRev'[r] >= savedRev[r]]_vars
  BY OrderStep DEF IInv
<1> QED
  BY <1>1, Inductive, PTL DEF Spec, SavesInOrder

\* Where nothing failed, a renamed file is followed by all its documents.
THEOREM Followed == Spec => []PathFollows
<1>1. IInv => PathFollows
  <2> SUFFICES ASSUME IInv, AtRest, seenPath = path, Unfailed, NEW r \in Room
               PROVE  docPath[r] = path
    BY DEF PathFollows
  <2>1. seenPath <= docPath[r] /\ docPath[r] <= path
    BY DEF IInv, PathInv, AtRest, PathPc
  <2> QED
    BY <2>1 DEF IInv, TypeOK
<1> QED
  BY <1>1, Inductive, PTL

\* Where one room has the file for itself, saves are automatic, nothing fails and no other
\* program writes: however edits, save messages and renames interleave, when no task is at
\* work the file has what the document has.
THEOREM NothingForgotten == Undisturbed => (Spec => []NoSilentDivergence)
<1> SUFFICES ASSUME Undisturbed PROVE Spec => []NoSilentDivergence
  OBVIOUS
<1>1. Init => SavedInv
  BY BudgetAssumption DEF Init, SavedInv, Pending, Undisturbed, Event, Task, Saver
<1>2. SavedInv /\ IInv /\ [Next]_vars => SavedInv'
  BY SavedStep
<1>3. SavedInv => NoSilentDivergence
  <2> SUFFICES ASSUME SavedInv, AtRest, NEW r \in Room
               PROVE  doc[r].content = known[r] /\ doc[r].content = disk.content
    BY DEF NoSilentDivergence
  <2>1. \A s \in Saver : ~Carries(s)
    BY DEF AtRest, Carries
  <2> QED
    BY <2>1 DEF SavedInv
<1> QED
  BY <1>1, <1>2, <1>3, Inductive, PTL DEF Spec
=============================================================================
