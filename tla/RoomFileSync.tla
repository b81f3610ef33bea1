---------------------------- MODULE RoomFileSync ----------------------------
(***************************************************************************)
(* The DocumentRooms (rooms.py) that show one file, the FileLoader they    *)
(* share and its watcher (loaders.py), and the file on disk, which other   *)
(* programs also write.  A file has several rooms when it is opened in     *)
(* editors of different kinds, say a notebook as a notebook and as text.   *)
(*                                                                         *)
(* Everything of the server runs in one asyncio event loop: a task runs    *)
(* from one await that suspends it to the next, and each action below is   *)
(* one such stretch.  pc names the await a task is suspended at.  Writes   *)
(* and renames by other programs are not in the loop and happen anytime.   *)
(*                                                                         *)
(* Contents and modification times are stamps drawn from one clock: what   *)
(* matters of a content is only which version it is.                       *)
(***************************************************************************)
EXTENDS Naturals, FiniteSets

CONSTANTS
  Room,            \* the rooms observing the file
  Watcher,         \* the loader's _watch_file task
  None,
  AutosaveStates,  \* values any(autosave_states) may have when a document changes
  SaveDelaySet,    \* is save_delay a number (TRUE) or None (FALSE)?
  AsyncContent,    \* do the document's aget() and aset() suspend the caller?
  Polling,         \* is there a poll_interval, hence a watcher?
  Backdating,      \* may another program write the file with an older mtime?
  ReadOnly,        \* may the contents manager answer that the file is not writable?
  MaxSaves,        \* bound on the _maybe_save_document tasks ever created
  Budget           \* bound on the number of events of each kind

Event == {"edit", "manual", "external", "rename", "failure"}
Saver == 1 .. MaxSaves          \* those tasks, in the order of their creation
Task == Saver \cup {Watcher}
Lock == {"file"} \cup Room      \* FileLoader._lock, and each room's _update_lock

ASSUME NameAssumption ==
  /\ Watcher \notin Nat /\ None \notin Nat /\ None # Watcher
  /\ "file" \notin Room /\ None \notin Lock
ASSUME ConfigAssumption ==
  /\ AutosaveStates \subseteq BOOLEAN
  /\ {SaveDelaySet, AsyncContent, Polling, Backdating, ReadOnly} \subseteq BOOLEAN
ASSUME BudgetAssumption == MaxSaves \in Nat /\ Budget \in [Event -> Nat]

VARIABLES
  disk,          \* the file: its content and its mtime
  path,          \* where the file-id manager says the file is
  clock,         \* source of fresh stamps
  lastModified,  \* FileLoader.last_modified
  seenPath,      \* FileLoader._current_path
  doc,           \* each room's document: content, and a count of its changes
  dirty,         \* document.dirty
  docPath,       \* document.path
  saving,        \* DocumentRoom._saving_document
  created,       \* how many save tasks have been created
  roomOf,        \* the room each of them saves
  now,           \* its save_now: a client waits for its result
  prev,          \* its saving_document argument
  pc,            \* where each task is suspended
  cancelled,     \* tasks with a cancellation to be delivered
  owner,         \* the task holding each lock
  ahead,         \* tasks queued before a waiting task for the same lock
  model,         \* the content a task read from the document or from the disk
  inner,         \* the shielded _save_content of a save task
  serving,       \* the room whose callback the watcher runs
  todo,          \* the rooms it has yet to call
  answer,        \* what the client of a manual save has been told
  known,         \* history: the last disk content a room wrote or loaded
  savedRev,      \* history: the revision a room last wrote to disk
  budget

files == <<disk, path, clock>>
loader == <<lastModified, seenPath>>
room == <<doc, dirty, docPath>>
jobs == <<created, roomOf, now, prev, saving>>
locks == <<pc, owner, ahead>>
watch == <<serving, todo>>
tasks == <<jobs, locks, watch, cancelled, model, inner, answer>>
history == <<known, savedRev>>
vars == <<files, loader, room, tasks, history, budget>>

FileWait == {"lock", "rlock", "wlock"}
FileHold == {"stat", "shield", "drain", "rget", "wstat", "wmoved"}
UpdateWait == {"ulock", "culock"}
UpdateHold == {"cmp", "set"}
PathPc == {"wpath", "wpathn"}         \* calling the filepath callbacks
ContentPc == {"aget", "cmp", "set"}   \* awaiting document.aget() or document.aset()
Pc == {"none", "new", "sleep", "done"} \cup PathPc \cup ContentPc
        \cup FileWait \cup FileHold \cup UpdateWait \cup UpdateHold
Version == [content: Nat, rev: Nat]
Settled == {"done", "failed"}         \* done_saving is set

\* every variable holds a value of its kind
JobsTypeOK ==
  /\ created \in 0 .. MaxSaves
  /\ roomOf \in [Saver -> Room \cup {None}]
  /\ now \in [Saver -> BOOLEAN]
  /\ prev \in [Saver -> Saver \cup {None}]
  /\ saving \in [Room -> Saver \cup {None}]
LocksTypeOK ==
  /\ pc \in [Task -> Pc]
  /\ owner \in [Lock -> Task \cup {None}]
  /\ ahead \in [Task -> SUBSET Task]
TypeOK ==
  /\ disk \in [content: Nat, mtime: Nat]
  /\ path \in Nat /\ clock \in Nat /\ lastModified \in Nat /\ seenPath \in Nat
  /\ doc \in [Room -> Version]
  /\ dirty \in [Room -> BOOLEAN]
  /\ docPath \in [Room -> Nat]
  /\ JobsTypeOK /\ LocksTypeOK
  /\ cancelled \subseteq Saver
  /\ model \in [Task -> Version]
  /\ inner \in [Saver -> {"none", "writing", "hashing"} \cup Settled]
  /\ serving \in Room \cup {None} /\ todo \subseteq Room
  /\ answer \in [Saver -> {"none", "success", "lost"}]
  /\ known \in [Room -> Nat] /\ savedRev \in [Room -> Nat]
  /\ budget \in [Event -> Nat]

-----------------------------------------------------------------------------
(* Every room has been initialized from the file, no change is pending.    *)
Init ==
  /\ disk = [content |-> 1, mtime |-> 1]
  /\ clock = 1 /\ path = 0
  /\ lastModified = 1 /\ seenPath = 0
  /\ doc = [r \in Room |-> [content |-> 1, rev |-> 0]]
  /\ dirty = [r \in Room |-> FALSE]
  /\ docPath = [r \in Room |-> 0]
  /\ saving = [r \in Room |-> None]
  /\ created = 0
  /\ roomOf = [s \in Saver |-> None]
  /\ now = [s \in Saver |-> FALSE]
  /\ prev = [s \in Saver |-> None]
  /\ pc = [t \in Task |-> IF t = Watcher THEN "sleep" ELSE "none"]
  /\ cancelled = {}
  /\ owner = [l \in Lock |-> None]
  /\ ahead = [t \in Task |-> {}]
  /\ model = [t \in Task |-> [content |-> 0, rev |-> 0]]
  /\ inner = [s \in Saver |-> "none"]
  /\ serving = None /\ todo = {}
  /\ answer = [s \in Saver |-> "none"]
  /\ known = [r \in Room |-> 1] /\ savedRev = [r \in Room |-> 0]
  /\ budget = Budget

Spend(e) == budget[e] > 0 /\ budget' = [budget EXCEPT ![e] = @ - 1]
Spare == UNCHANGED budget

-----------------------------------------------------------------------------
(* asyncio: run-to-completion, FIFO locks, the end of a task               *)

\* The watcher calls the filepath callbacks without suspending, and when
\* aget() and aset() do not suspend a task runs on through them.
Running(t) == pc[t] \in PathPc \/ (~AsyncContent /\ pc[t] \in ContentPc)
Turn(t) == \A u \in Task \ {t} : ~Running(u)
LoopIdle == \A u \in Task : ~Running(u)

\* the room a task works for
RoomFor(t) == IF t = Watcher THEN serving ELSE roomOf[t]

Waiting(l) == {t \in Task : \/ l = "file" /\ pc[t] \in FileWait
                            \/ l = RoomFor(t) /\ pc[t] \in UpdateWait}
Released(t) == [l \in Lock |-> IF owner[l] = t THEN None ELSE owner[l]]
Left(t) == [u \in Task |-> ahead[u] \ {t}]
Goto(t, p) == pc' = [pc EXCEPT ![t] = p] /\ UNCHANGED <<owner, ahead>>

\* t drops the lock it may hold and asks for l: it gets l at once if nobody
\* holds it and no live task waits for it, and queues otherwise.
Barging(t, l) == Released(t)[l] = None
Free(t, l) == Released(t)[l] = None /\ Waiting(l) \subseteq cancelled
Request(t, l, held, waiting) ==
  IF Free(t, l)
  THEN /\ owner' = [Released(t) EXCEPT ![l] = t]
       /\ pc' = [pc EXCEPT ![t] = held]
       /\ UNCHANGED ahead
  ELSE /\ owner' = Released(t)
       /\ pc' = [pc EXCEPT ![t] = waiting]
       /\ ahead' = [ahead EXCEPT ![t] = Waiting(l)]

Granted(t, l) == owner[l] = None /\ ahead[t] = {}
Take(t, l, held) ==
  /\ Granted(t, l)
  /\ owner' = [owner EXCEPT ![l] = t]
  /\ pc' = [pc EXCEPT ![t] = held]
  /\ ahead' = Left(t)

\* The task ends, leaving locks and queues; the watcher goes back to sleep.
Finish(t) ==
  /\ pc' = [pc EXCEPT ![t] = IF t = Watcher THEN "sleep" ELSE "done"]
  /\ owner' = Released(t)
  /\ ahead' = [Left(t) EXCEPT ![t] = {}]
  /\ cancelled' = cancelled \ {t}
  /\ serving' = IF t = Watcher THEN None ELSE serving
  /\ UNCHANGED <<jobs, model, inner, todo>>

\* on_message awaits a manual save: any return is "success", the CancelledError
\* of a cancelled task is caught by nobody and no answer is sent.
Answer(t, how) == answer' = IF t \in Saver /\ now[t] THEN [answer EXCEPT ![t] = how]
                                                     ELSE answer
Return(t) == Finish(t) /\ Answer(t, "success")
Abort(t) == Finish(t) /\ Answer(t, "lost")

\* The watcher runs the callbacks of the rooms one after the other.
NotifyNext(rooms) ==
  /\ \E r \in rooms : serving' = r /\ todo' = rooms \ {r}
  /\ Request(Watcher, "file", "rget", "rlock")
  /\ UNCHANGED <<jobs, cancelled, model, inner, answer>>
Done(t) == IF t = Watcher /\ todo # {} THEN NotifyNext(todo) ELSE Return(t)

-----------------------------------------------------------------------------
(* Events: clients' edits and save messages, other programs                *)

CreateTask(r, n) ==
  /\ created < MaxSaves
  /\ created' = created + 1
  /\ roomOf' = [roomOf EXCEPT ![created'] = r]
  /\ now' = [now EXCEPT ![created'] = n]
  /\ prev' = [prev EXCEPT ![created'] = saving[r]]
  /\ saving' = [saving EXCEPT ![r] = created']
  /\ Goto(created', "new")

\* (a slip: trust the save that is under way to pick up the change)
OnDocumentChangeUnlessSaving(r) ==
  IF owner[r] = None /\ (saving[r] # None => pc[saving[r]] = "done")
  THEN CreateTask(r, FALSE) ELSE UNCHANGED <<jobs, locks>>

OnDocumentChange(r) ==
  \E autosave \in AutosaveStates :
    IF autosave /\ owner[r] = None THEN CreateTask(r, FALSE) ELSE UNCHANGED <<jobs, locks>>

Edit(r) ==
  /\ LoopIdle /\ Spend("edit")
  /\ clock' = clock + 1
  /\ doc' = [doc EXCEPT ![r] = [content |-> clock', rev |-> @.rev + 1]]
  /\ dirty' = [dirty EXCEPT ![r] = TRUE]
  /\ OnDocumentChange(r)
  /\ UNCHANGED <<disk, path, loader, docPath, watch, cancelled, model, inner, answer, history>>

\* A save message that finds the update lock held is answered "skipped".
SaveToDisc(r) ==
  /\ LoopIdle /\ Spend("manual")
  /\ IF owner[r] = None THEN CreateTask(r, TRUE) ELSE UNCHANGED <<jobs, locks>>
  /\ UNCHANGED <<files, loader, room, watch, cancelled, model, inner, answer, history>>

ExternalWrite ==
  /\ Spend("external")
  /\ clock' = clock + 1
  /\ \E m \in {clock'} \cup (IF Backdating THEN 0 .. disk.mtime - 1 ELSE {}) :
        disk' = [content |-> clock', mtime |-> m]
  /\ UNCHANGED <<path, loader, room, tasks, history>>

Rename ==
  /\ Spend("rename")
  /\ path' = path + 1
  /\ UNCHANGED <<disk, clock, loader, room, tasks, history>>

-----------------------------------------------------------------------------
(* DocumentRoom._maybe_save_document and FileLoader.maybe_save_content     *)

SupersededAll(s) ==
  {u \in Saver : u < s /\ roomOf[u] = roomOf[s] /\ pc[u] # "done"}
Superseded(s) == {u \in {prev[s]} \ {None} : pc[u] # "done"}
Snapshot(s) == model' = [model EXCEPT ![s] = doc[roomOf[s]]]

\* Tasks first run in the order they were created.
Start(s) ==
  /\ pc[s] = "new" /\ \A u \in Saver : u < s => pc[u] # "new"
  /\ IF SaveDelaySet \/ now[s]
     THEN /\ cancelled' = cancelled \cup Superseded(s)
          /\ IF now[s] THEN Goto(s, "aget") /\ Snapshot(s)
                       ELSE Goto(s, "sleep") /\ UNCHANGED model
          /\ UNCHANGED <<jobs, watch, inner, answer>>
     ELSE Return(s)
  /\ UNCHANGED <<files, loader, room, history>> /\ Spare

Wake(s) ==
  /\ pc[s] = "sleep"
  /\ Goto(s, "aget") /\ Snapshot(s)
  /\ UNCHANGED <<files, loader, room, jobs, watch, cancelled, inner, answer, history>> /\ Spare

LockFile(s) ==
  /\ \/ pc[s] = "aget" /\ Request(s, "file", "stat", "lock")
     \/ pc[s] = "lock" /\ Take(s, "file", "stat")
  /\ UNCHANGED <<files, loader, room, jobs, watch, cancelled, model, inner, answer, history>>
  /\ Spare

\* The metadata has arrived: the file is as the loader left it, so write it ...
CheckedSave(s) ==
  /\ pc[s] = "stat"
  /\ lastModified = disk.mtime
  /\ Goto(s, "shield")
  /\ inner' = [inner EXCEPT ![s] = "writing"]
  /\ UNCHANGED <<files, loader, room, jobs, watch, cancelled, model, answer, history>> /\ Spare

\* ... or it is not: note its mtime, raise OutOfBandChanges, reload.
OutOfBand(s) ==
  /\ pc[s] = "stat"
  /\ lastModified # disk.mtime
  /\ lastModified' = disk.mtime
  /\ Request(s, "file", "rget", "rlock")
  /\ UNCHANGED <<files, seenPath, room, jobs, watch, cancelled, model, inner, answer, history>>
  /\ Spare

\* The file is not writable, or the contents manager fails: nothing is saved.
NotSaved(s) ==
  /\ pc[s] = "stat"
  /\ (ReadOnly /\ Spare) \/ Spend("failure")
  /\ Return(s)
  /\ UNCHANGED <<files, loader, room, history>>

\* FileLoader._save_content, a task of its own
InnerSave(s) ==
  /\ inner[s] = "writing"
  /\ \/ /\ clock' = clock + 1
        /\ disk' = [content |-> model[s].content, mtime |-> clock']
        /\ lastModified' = clock'
        /\ known' = [known EXCEPT ![roomOf[s]] = model[s].content]
        /\ savedRev' = [savedRev EXCEPT ![roomOf[s]] = model[s].rev]
        /\ inner' = [inner EXCEPT ![s] = "hashing"]
        /\ Spare
     \/ /\ Spend("failure")
        /\ inner' = [inner EXCEPT ![s] = "failed"]
        /\ UNCHANGED <<disk, clock, lastModified, history>>
  /\ UNCHANGED <<path, seenPath, room, jobs, locks, watch, cancelled, model, answer>>

InnerHash(s) ==
  /\ inner[s] = "hashing"
  /\ \/ inner' = [inner EXCEPT ![s] = "done"] /\ Spare
     \/ inner' = [inner EXCEPT ![s] = "failed"] /\ Spend("failure")
  /\ UNCHANGED <<files, loader, room, jobs, locks, watch, cancelled, model, answer, history>>

MarkClean(t) == dirty' = [dirty EXCEPT ![RoomFor(t)] = FALSE] /\ Done(t)

\* The shielded write returned: clear dirty under the update lock.
Saved(s) ==
  /\ \/ /\ pc[s] = "shield" /\ inner[s] = "done"
        /\ IF Free(s, roomOf[s])
           THEN MarkClean(s)
           ELSE /\ Request(s, roomOf[s], "ulock", "ulock")
                /\ UNCHANGED <<dirty, jobs, watch, cancelled, model, inner, answer>>
     \/ pc[s] = "ulock" /\ Granted(s, roomOf[s]) /\ MarkClean(s)
  /\ UNCHANGED <<files, loader, doc, docPath, history>> /\ Spare

SaveFailed(s) ==
  /\ pc[s] = "shield" /\ inner[s] = "failed"
  /\ Return(s)
  /\ UNCHANGED <<files, loader, room, history>> /\ Spare

\* A cancelled save keeps the file lock until its write has ended.
Drained(s) ==
  /\ pc[s] = "drain" /\ inner[s] \in Settled
  /\ Return(s)
  /\ UNCHANGED <<files, loader, room, history>> /\ Spare

-----------------------------------------------------------------------------
(* Reloading a document from the file: the OutOfBandChanges handler of     *)
(* _maybe_save_document, and _on_outofband_change run by the watcher       *)

LockForLoad(t) ==
  /\ pc[t] = "rlock" /\ Take(t, "file", "rget")
  /\ UNCHANGED <<files, loader, room, jobs, watch, cancelled, model, inner, answer, history>>
  /\ Spare

Load(t) ==
  /\ pc[t] = "rget"
  /\ lastModified' = disk.mtime
  /\ model' = [model EXCEPT ![t] = [content |-> disk.content, rev |-> 0]]
  /\ Request(t, RoomFor(t), "cmp", "culock")
  /\ UNCHANGED <<files, seenPath, room, jobs, watch, cancelled, inner, answer, history>>
  /\ Spare

LoadFails(t) ==
  /\ pc[t] = "rget" /\ Spend("failure")
  /\ Done(t)
  /\ UNCHANGED <<files, loader, room, history>>

LockForSet(t) ==
  /\ pc[t] = "culock" /\ Take(t, RoomFor(t), "cmp")
  /\ UNCHANGED <<files, loader, room, jobs, watch, cancelled, model, inner, answer, history>>
  /\ Spare

Adopt(t) ==
  /\ known' = [known EXCEPT ![RoomFor(t)] = model[t].content]
  /\ MarkClean(t)
  /\ UNCHANGED savedRev

Compare(t) ==
  /\ pc[t] = "cmp"
  /\ IF doc[RoomFor(t)].content = model[t].content
     THEN Adopt(t)
     ELSE Goto(t, "set")
          /\ UNCHANGED <<dirty, jobs, watch, cancelled, model, inner, answer, history>>
  /\ UNCHANGED <<files, loader, doc, docPath>> /\ Spare

Set(t) ==
  /\ pc[t] = "set"
  /\ doc' = [doc EXCEPT ![RoomFor(t)] = [content |-> model[t].content, rev |-> @.rev + 1]]
  /\ Adopt(t)
  /\ UNCHANGED <<files, loader, docPath>> /\ Spare

\* CancelledError reaches a save task: past a started write it only stops
\* waiting for the result (a second one would end the wait for the write to
\* end as well); while reloading, the handler does not catch it.
LeaveWriting(s) == Return(s)
StopWaiting(s) ==
  IF inner[s] \in Settled
  THEN Return(s)
  ELSE /\ cancelled' = cancelled \ {s}
       /\ Goto(s, "drain")
       /\ UNCHANGED <<jobs, watch, model, inner, answer>>

Cancel(s) ==
  /\ s \in cancelled
  /\ \/ pc[s] = "shield" /\ StopWaiting(s)
     \/ pc[s] \in {"sleep", "aget", "lock", "stat", "ulock", "drain"} /\ Return(s)
     \/ pc[s] \in {"rlock", "rget", "culock", "cmp", "set"} /\ Abort(s)
  /\ UNCHANGED <<files, loader, room, history>> /\ Spare

-----------------------------------------------------------------------------
(* FileLoader._watch_file and maybe_notify                                 *)

\* With the lock held: the stat starts, on the path the file has now.
StatPc == IF seenPath # path THEN "wmoved" ELSE "wstat"

WatchLock ==
  /\ Polling
  /\ \/ /\ pc[Watcher] = "sleep"
        /\ Request(Watcher, "file", StatPc, "wlock")
        /\ seenPath' = IF Free(Watcher, "file") THEN path ELSE seenPath
     \/ pc[Watcher] = "wlock" /\ Take(Watcher, "file", StatPc) /\ seenPath' = path
  /\ UNCHANGED <<files, lastModified, room, jobs, watch, cancelled, model, inner, answer, history>>
  /\ Spare

Newer(m) == lastModified < m

WatchStat ==
  /\ lastModified' = disk.mtime
  /\ \/ /\ pc[Watcher] = "wstat"
        /\ IF Newer(disk.mtime) THEN NotifyNext(Room) ELSE Return(Watcher)
     \/ /\ pc[Watcher] = "wmoved"
        /\ pc' = [pc EXCEPT ![Watcher] = IF Newer(disk.mtime) THEN "wpathn" ELSE "wpath"]
        /\ owner' = Released(Watcher)
        /\ todo' = Room
        /\ UNCHANGED <<serving, ahead, jobs, cancelled, model, inner, answer>>
  /\ UNCHANGED <<files, seenPath, room, history>> /\ Spare

\* The callbacks of a rename: setting document.path is a document change.
WatchPathOne ==
  /\ pc[Watcher] \in PathPc
  /\ \E r \in todo : docPath' = [docPath EXCEPT ![r] = path] /\ OnDocumentChange(r)
  /\ todo' = {}
  /\ UNCHANGED <<files, loader, doc, dirty, serving, cancelled, model, inner, answer, history>>
  /\ Spare
WatchPath ==
  /\ pc[Watcher] \in PathPc
  /\ \E r \in todo : /\ docPath' = [docPath EXCEPT ![r] = path]
                     /\ OnDocumentChange(r)
                     /\ todo' = todo \ {r}
  /\ UNCHANGED <<files, loader, doc, dirty, serving, cancelled, model, inner, answer, history>>
  /\ Spare

WatchPathDone ==
  /\ todo = {}
  /\ \/ pc[Watcher] = "wpath" /\ Return(Watcher)
     \/ pc[Watcher] = "wpathn" /\ NotifyNext(Room)
  /\ UNCHANGED <<files, loader, room, history>> /\ Spare

WatchFails ==
  /\ pc[Watcher] \in {"wstat", "wmoved"} /\ Spend("failure")
  /\ Return(Watcher)
  /\ UNCHANGED <<files, loader, room, history>>

-----------------------------------------------------------------------------
Reload(t) == LockForLoad(t) \/ Load(t) \/ LoadFails(t) \/ LockForSet(t) \/ Compare(t) \/ Set(t)
Save(s) == \/ Start(s) \/ Wake(s) \/ LockFile(s)
           \/ CheckedSave(s) \/ OutOfBand(s) \/ NotSaved(s)
           \/ Saved(s) \/ SaveFailed(s) \/ Drained(s) \/ Reload(s)
SaveStep(s) == Turn(s) /\ ((s \notin cancelled /\ Save(s)) \/ Cancel(s))
Inner(s) == LoopIdle /\ (InnerSave(s) \/ InnerHash(s))
Watch == /\ Turn(Watcher)
         /\ \/ WatchLock \/ WatchStat \/ WatchPath \/ WatchPathDone \/ WatchFails
            \/ Reload(Watcher)
Environment == (\E r \in Room : Edit(r) \/ SaveToDisc(r)) \/ ExternalWrite \/ Rename

Next == Environment \/ Watch \/ \E s \in Saver : SaveStep(s) \/ Inner(s)

Spec == Init /\ [][Next]_vars

\* asyncio runs every ready task, and the contents manager answers.
Fairness == WF_vars(Watch) /\ \A s \in Saver : WF_vars(SaveStep(s)) /\ WF_vars(Inner(s))
FairSpec == Spec /\ Fairness
-----------------------------------------------------------------------------
(* Properties                                                              *)

Holds(t, l) == \/ l = "file" /\ pc[t] \in FileHold
               \/ l = RoomFor(t) /\ pc[t] \in UpdateHold

\* A lock is held exactly by the task whose code is inside its async-with
\* block: every return, exception and cancellation releases it, and no two
\* tasks are inside at once.
LockInv == \A l \in Lock, t \in Task : owner[l] = t <=> Holds(t, l)

\* A write of the file that has begun is covered by the file lock to its end,
\* though the task that began it may be cancelled while it runs.
WriteUnderLock ==
  \A s \in Saver : inner[s] \in {"writing", "hashing"} => owner["file"] = s

\* The inductive invariant of the proofs: who works for which room; where the
\* task of an unfinished write is; a save is cancelled only by the one save
\* created right after it for its room, hence at most once, so a task that
\* drains its write is never cancelled again.
CreatedInv ==
  \A s \in Saver : IF s <= created THEN roomOf[s] \in Room /\ pc[s] # "none" ELSE pc[s] = "none"
InnerInv ==
  \A s \in Saver : inner[s] \in {"writing", "hashing"} => pc[s] \in {"shield", "drain"}
PrevInv ==
  /\ \A s \in Saver : prev[s] # None => s <= created /\ prev[s] < s
  /\ \A s, u \in Saver : prev[s] = prev[u] /\ prev[s] # None => s = u
  /\ \A r \in Room : saving[r] # None =>
        /\ saving[r] <= created /\ roomOf[saving[r]] = r
        /\ \A s \in Saver : prev[s] # saving[r]
Replaced(s) == \E u \in Saver : prev[u] = s /\ pc[u] \notin {"none", "new"}
CancelInv ==
  /\ \A s \in cancelled : Replaced(s) /\ pc[s] # "drain"
  /\ \A s \in Saver : pc[s] = "drain" => Replaced(s)

\* The saves of a room are a chain: each is given the one before it, the room the last.
ChainInv ==
  \A s \in Saver : s <= created =>
    /\ saving[roomOf[s]] # None /\ s <= saving[roomOf[s]]
    /\ \A u \in Saver : u < s /\ roomOf[u] = roomOf[s] =>
         prev[s] # None /\ u <= prev[s] /\ roomOf[prev[s]] = roomOf[s]

\* So none gets far once a later one of its room has started, unless it writes already;
\* and those that may still write have later snapshots the later they were created.
OvertakenInv ==
  \A s, u \in Saver : s < u /\ roomOf[s] = roomOf[u] /\ pc[u] \notin {"none", "new"} =>
    pc[s] \in {"done", "drain"} \/ s \in cancelled
Pending(s) == inner[s] = "writing" \/ (s \notin cancelled /\ pc[s] \in {"aget", "lock", "stat"})
OrderInv ==
  /\ \A r \in Room : savedRev[r] <= doc[r].rev
  /\ \A s \in Saver : Pending(s) =>
       savedRev[roomOf[s]] <= model[s].rev /\ model[s].rev <= doc[roomOf[s]].rev
  /\ \A s, u \in Saver : s < u /\ roomOf[s] = roomOf[u] /\ Pending(s) /\ Pending(u) =>
       model[s].rev <= model[u].rev

\* Unless something failed, each document has the path that the loader has noted, or a
\* later one, or the watcher is about to tell it.
Unfailed == budget["failure"] = Budget["failure"]
PathInv ==
  /\ budget["failure"] <= Budget["failure"]
  /\ seenPath <= path /\ \A r \in Room : docPath[r] <= path
  /\ Unfailed => \A r \in Room :
       \/ seenPath <= docPath[r]
       \/ pc[Watcher] = "wmoved" \/ (pc[Watcher] \in PathPc /\ r \in todo)

IInv == /\ TypeOK /\ CreatedInv /\ LockInv /\ InnerInv /\ PrevInv /\ CancelInv /\ ChainInv
        /\ SaveDelaySet => OvertakenInv /\ OrderInv
        /\ PathInv

\* Where one room has the file for itself and saves every change, and nothing fails, the file
\* is what was last saved, and that is the document, or a save has what the document has
\* now, or will take it.  Nothing is ever reloaded.
Undisturbed ==
  /\ \A r, q \in Room : r = q
  /\ AutosaveStates = {TRUE} /\ SaveDelaySet /\ ~ReadOnly
  /\ Budget["failure"] = 0 /\ Budget["external"] = 0
Carries(s) == \/ pc[s] \in {"new", "sleep"}
              \/ /\ pc[s] \in {"aget", "lock", "stat"} \/ (pc[s] = "shield" /\ inner[s] = "writing")
                 /\ model[s].rev = doc[roomOf[s]].rev
SavedInv ==
  /\ budget["external"] = 0 /\ lastModified = disk.mtime
  /\ \A t \in Task : pc[t] \notin {"rlock", "rget", "culock", "cmp", "set", "ulock", "wpathn"}
  /\ \A r \in Room : /\ known[r] = disk.content
                     /\ savedRev[r] = doc[r].rev => known[r] = doc[r].content
                     /\ \/ savedRev[r] = doc[r].rev
                        \/ \E s \in Saver \ cancelled : roomOf[s] = r /\ Carries(s)
  /\ \A s \in Saver : Pending(s) /\ model[s].rev = doc[roomOf[s]].rev =>
       model[s].content = doc[roomOf[s]].content

\* Saves reach the disk in the order of the document's revisions: an older
\* snapshot never replaces a newer one, whatever is debounced or cancelled.
SavesInOrder == [][\A r \in Room : savedRev'[r] >= savedRev[r]]_vars

AtRest == pc[Watcher] = "sleep" /\ \A s \in Saver : pc[s] \in {"none", "done"}

\* docs/source/index.md: the dirty indicator is set after a change and cleared
\* after saving.  With no task at work, a document that is not dirty is what was
\* last saved or loaded, and what the file holds unless the loader can still
\* tell that the file has changed.
NoSilentDivergence ==
  AtRest => \A r \in Room :
    \/ dirty[r]
    \/ /\ doc[r].content = known[r]
       /\ lastModified = disk.mtime => doc[r].content = disk.content

\* ydrive.ts, save: a client is told that its save succeeded only when the write
\* was done.  It does not hold: a save that was cancelled, or failed, is a success.
SuccessMeansSaved == \A s \in Saver : answer[s] = "success" => inner[s] = "done"

\* Once changes stop, every room shows what is on disk and is clean.
Converges == <>[](\A r \in Room : doc[r].content = disk.content /\ ~dirty[r])

\* A renamed file is followed by all its documents: unless something failed, when
\* the loader has taken note of the new path and no task is at work, they have it.
PathFollows ==
  AtRest /\ seenPath = path /\ Unfailed =>
    \A r \in Room : docPath[r] = path

\* Every save task ends: no lock is waited for forever, no write waits forever
\* for done_saving.
SavesEnd == \A s \in Saver : pc[s] = "new" ~> pc[s] = "done"
=============================================================================
