# Verification of jupyter-collaboration

TLA+ models of the server and client of jupyter-collaboration, the TLC
configurations that check them on small instances, and proofs that TLAPS checks
for instances of every size.

Paths below are relative to the repository. `ydoc/` abbreviates
`projects/jupyter-server-ydoc/jupyter_server_ydoc/`, `dp/` abbreviates
`packages/docprovider/src/` and `dpe/` `packages/docprovider-extension/src/`.

1. [The system](#1-the-system)
2. [Modules](#2-modules)
3. [What the runs show](#3-what-the-runs-show)
4. [Bounds](#4-bounds)
5. [Fairness](#5-fairness)
6. [What is proved](#6-what-is-proved)
7. [What is only model-checked, and what is known not to hold](#7-what-is-only-model-checked-and-what-is-known-not-to-hold)
8. [Simplifications and what is not modelled](#8-simplifications-and-what-is-not-modelled)
9. [Plan](#9-plan)

## 1. The system

A JupyterLab document that several users edit is a CRDT (a Y document).  The
Jupyter server holds one copy of it in a *room*; each browser holds another; they
exchange updates over a websocket.  The server alone reads and writes the file.

```
 browser                                     Jupyter server (one asyncio loop)
 ---------------------------------           ------------------------------------------
 RtcContentProvider   dp/ydrive.ts           YDocWebSocketHandler   ydoc/handlers.py
   | creates, disposes                         | prepare, open, on_close, on_message
 WebSocketProvider    dp/yprovider.ts        JupyterWebsocketServer ydoc/websocketserver.py
   | y-websocket  <== sync, save, conflict ==> | serves clients of a
 shared model                                DocumentRoom           ydoc/rooms.py
   |                                           | loads, saves, is called back by
 ForkManager          dp/forkManager.ts      FileLoader + _watch_file task  ydoc/loaders.py
 TimelineSlider       dp/TimelineSlider.tsx    | contents manager, file-id manager
                                             the file  <-- other programs
```

Other HTTP handlers of the server (session, timeline, undo/redo, forks) are
called by the browser and act on the same rooms.

### Components

| component | state | operations | talks to |
|---|---|---|---|
| **Room and file synchronization** (`ydoc/rooms.py`, `ydoc/loaders.py`, the save messages of `ydoc/handlers.py`) | document, `dirty`, `document.path`, `_saving_document` and the chain of save tasks, `_update_lock`; the loader's `_lock`, `last_modified`, `_current_path` | document change, save message, debounced and immediate save with cancellation, shielded write, out-of-band detection, reload, watcher poll, rename | the file through the contents manager; other rooms of the file through the loader's callbacks |
| **Room lifecycle** (`YDocWebSocketHandler`, `websocketserver.py`, `FileLoaderMapping`) | registered rooms, `room.ready`, `room.cleaner`, `room.clients`, `_room_locks`, loaders and their subscriptions | `prepare`, `open`, `on_close`, `_clean_room`, `serve` | rooms, loaders, session store |
| **Room initialization and the update store** (`rooms.py` `initialize`, `stores.py`) | store of updates, the room's replica | load from store or file, store updates, report conflicts | file, update store |
| **Session store** (`ydoc/utils.py`, `DocSessionHandler`) | JSON file of the last ten server sessions | record the session, look up a client's session, evict, compare versions | handlers' `open` |
| **Programmatic documents** (`ydoc/app.py` `get_document`) | the server's rooms | find or create a room without a client | lifecycle |
| **Forks** (`DocForkHandler`, `dp/forkManager.ts`) | `FORK_ROOMS`, fork rooms, the observers of root documents | create, list, delete with or without merge, events | rooms |
| **Timeline, undo/redo** (`TimelineHandler`, `UndoRedoHandler`, `dp/TimelineSlider.tsx`, `dp/component.tsx`, `dpe/filebrowser.ts`) | undo manager of a fork, `FORK_DOCUMENTS`, the slider in the status bar and its position | timeline, undo, redo, restore, change of the current tab | server, provider |
| **Client provider** (`dp/yprovider.ts`, `dp/requests.ts`) | the y-websocket provider, `_hasSynced`, load timeout, dialogs, conflict listener, save counter | connect, reconnect, connect to fork, save, dispose, close codes | server websocket, user |
| **Content provider** (`dp/ydrive.ts`) | providers by path, file-change subscriptions | get, save, create, rename | provider, Contents API |
| **Conflict dialog and diff** (`dp/yprovider.ts`, `dpe/yprovider.ts`, `dpe/conflictDiffWidget.ts`) | dialog, diff of two notebooks | show diff, revert, save as | provider, Contents API, nbdime |
| **Remote cursors** (`packages/collaboration/src/cursors.ts`) | cursors in the awareness, decorations and hover boxes | publish, draw, hover | awareness, shared text, CodeMirror |
| **Sharing of links** (`packages/collaboration/src/sharedlink.ts`) | shares, recipients, the link | share, revoke, search, copy | JupyterHub's API |
| **Cell execution** (`dp/notebookCellExecutor.ts`) | one request | execute with retries | server |
| **Global awareness** (`dp/awareness.ts`), **extensions**, the rest of the **collaboration UI**, **tokens**, **test support** | none that a protocol depends on | rendering, wiring | |

### Where it is hard

* **Asyncio interleavings.** The server's code has no threads, but every `await`
  that suspends lets another task run.  Rooms read state, await a lock or the
  contents manager, and use what they read: the document's content (`rooms.py:455`),
  the mtime (`loaders.py:168-192`), the registered room (`handlers.py:155-165`), the
  clients of a room (`handlers.py:410`).
* **Cancellation.** A new save cancels the one before it wherever that one is,
  including in the middle of a write, which is shielded and drained.
* **Other programs** write and rename the file at any time.
* **Partial failure.** Any call of the contents manager may fail; the start or
  initialization of a room may fail with the room already subscribed to the file.
* **Connections** are lost, refused, reopened and replaced; replies to requests
  arrive late; the user answers dialogs after the state they speak of has changed.
* **Restarts.** The file, the update store and the replicas of clients that were offline
  are each in a state of their own when a room is made again; several servers may share
  the session store, and any may stop while it writes it.
* **Locks that are deleted** (`del self._room_locks[...]`) while tasks wait for them.

`PROJECT.json` lists every such place with its line ("hazards") and the
properties that cover it.

### What makes it correct

* *Synchronization*: a change is saved or the document is marked dirty; a change
  of the file is loaded or can still be noticed; saves do not overtake each other;
  one task at a time touches the file, even when it has been cancelled; every save
  ends; a success that is reported is true; a renamed file is followed.
* *Lifecycle*: all clients of a document meet in one initialized room; one client
  at a time creates or initializes it; a room in use is not deleted; a room
  nobody uses is; the registered room is alive and its file is watched; nobody
  waits for the room's lock forever.
* *Provider*: a user whose document does not load is asked; a document that was
  loaded is not closed for another reason; a save's promise is settled by the
  server's answer to that save; conflicts are heard; a disposed provider is quiet
  and holds no connection.
* *Initialization*: a room that is made again has the file's content once, takes
  nothing from a returning client that was saved, and agrees with it in the end.
* *Session store*: no client is let in whose session had other versions; none of the
  same versions is refused without a cause.
* *Content provider*: one provider for a path, and none for a closed document; what is
  told of a document is right in the end.
* *Forks*: a fork that is listed can be merged; a synchronized one has what its origin
  has; a merge loses no edit, whatever became of the origin's room.
* *Timeline*: one slider, of the document that is current; it names the version its fork
  is at, and moves the fork that is shown.
* *Conflict diff*: the diff turns the server's notebook into the local one.
* *Cursors*: a user sees the others' cursors where they are, and no others.
* *Sharing*: the lists end as the hub's; a link is what was shown.

## 2. Modules

| module | what it is |
|---|---|
| `RoomFileSync` | the rooms of one file, the shared loader and its watcher, the file |
| `MCRoomFileSync` | the event budgets of its instances |
| `RoomFileSyncProofs` | TLAPS proofs about it |
| `RoomLifecycle` | handlers, room instances, cleaners, room locks, file loader of one document |
| `MCRoomLifecycle` | its failure budgets |
| `RoomLifecycleProofs` | TLAPS proofs about it, among them that it implements `RoomService` |
| `Provider` | the browser's `WebSocketProvider` of one document |
| `MCProvider` | its event budgets |
| `Sessions` | the session store, the servers that share it, the check of returning clients |
| `SessionsProofs` | TLAPS proofs about it |
| `MCSessions` | installed versions of its instances |
| `ContentProvider` | the browser's content provider: providers by path, renames from two sources |
| `MCContentProvider` | its symmetry |
| `Rebuild` | the making of a room from store and file, eviction, crashes, returning clients |
| `MCRebuild` | its symmetry |
| `RebuildProofs` | TLAPS proofs about it |
| `RoomService` | abstract: the rooms of one document; `RoomLifecycle` implements it |
| `SavePromises` | abstract: the promises of saves; `Provider` implements it |
| `ClientProofs` | TLAPS proofs about `ContentProvider`, `Provider` and `ConflictDiff`, which share no name |
| `Forks`, `MCForks` | forks of a document, the merge, what a browser knows of them |
| `ForksProofs` | TLAPS proofs about it |
| `Timeline`, `MCTimeline` | the slider in the status bar, the forks it moves |
| `TimelineProofs` | TLAPS proofs about it |
| `ConflictDiff`, `MCConflictDiff` | the conflict dialog and the diff of two notebooks |
| `Cursors`, `MCCursors` | cursors of two users in several editors |
| `SharedLink`, `MCSharedLink` | the dialogs that share the server or a link to it |
| `CollaborationProofs` | TLAPS proofs about `Cursors` and `SharedLink`, which share no name |

In all of them an action is what runs between two awaits that suspend, or one
callback of the browser.  Operators commented as *(a slip ...)* are not
used by the specification: each is a plausible mistake in the operator that
follows it, substituted to show that a property notices.

### RoomFileSync

`pc[t]` names the await at which a task is suspended: the tasks are the
`_maybe_save_document` tasks `1..MaxSaves` in order of creation, and the watcher.

| code | model |
|---|---|
| `DocumentRoom._document`, `dirty`, `document.path` | `doc`, `dirty`, `docPath` |
| `_saving_document`, argument `saving_document` | `saving`, `prev` |
| `FileLoader._lock`, `DocumentRoom._update_lock` | `owner`, with the FIFO queue in `ahead` |
| `last_modified`, `_current_path` | `lastModified`, `seenPath` |
| `_on_document_change`, reached by a client's edit | `Edit` |
| `on_message` of a save, `_save_to_disc` | `SaveToDisc`, `Answer` |
| `_maybe_save_document` up to the file lock | `Start`, `Wake`, `LockFile` |
| `maybe_save_content` | `CheckedSave`, `OutOfBand`, `NotSaved`, `Saved`, `SaveFailed`, `Drained`, `Cancel` |
| `_save_content`, shielded | `InnerSave`, `InnerHash` |
| the reload after `OutOfBandChanges`, `_on_outofband_change` | `LockForLoad`, `Load`, `LoadFails`, `LockForSet`, `Compare`, `Set` |
| `_watch_file`, `maybe_notify` | `WatchLock`, `WatchStat`, `WatchPath`, `WatchPathDone`, `WatchFails` |
| other programs | `ExternalWrite`, `Rename` |

Two facts of asyncio are modelled explicitly.  A task that does not suspend is not
interleaved: `Running` and `Turn` let such a task go on alone (the filepath
callbacks; `aget` and `aset` unless `AsyncContent`).  And `asyncio.Lock` is FIFO with
one exception, which `Free` states: it is taken at once when it is not held and
all who wait have been cancelled.

`AsyncContent` is there because whether `document.aget()` and `document.aset()`
suspend is decided by the document class, in another package.

### RoomLifecycle

`pc[c]` follows the handler of one connection, `cleaning[c]` its `_clean_room`.
A room instance is named by the client whose `prepare` created it.

| code | model |
|---|---|
| `prepare` | `PrepareWait`, `Prepare` (`GetRoom` or `CreateRoom`), `Started`, `StartFails`, `StartFailed` |
| `open` | `Open`, `InitializeWait`, `Initialize`, `Initialized`, `InitializeFails` |
| `WebsocketServer.serve` and its end | `Serve`, `Unserve` |
| `on_close`, a connection lost before the upgrade | `OnClose`, `Drop` |
| `_clean_room`, `delete_room` | `CleanWait`, `Clean`, `Unloaded` |
| `_room_locks` | `lock`: the number of the lock that is in the dictionary or would be created; deletion adds one |
| `FileLoaderMapping`, subscriptions | `loader`, `loaders`, `fileOf`, `subs` |

Connections overlap as they like, and what the code does not keep is told by three
history variables.  `split`: somebody took the room's lock while another held, or waited
for, one that `_clean_room` had deleted from `_room_locks` (`Enters`).  `doomed`: the
instances that will be deleted though a client is being opened, because `on_close` did not
count it among the clients (`Missed`), or because the deletion follows a failed
initialization and is no task that `open` could cancel.  `late`: the clients whose room was
deleted between their `prepare` and the point of `open` where they cancel its deletion.

### Provider

| code | model |
|---|---|
| `_connect` after `await requestDocSession` | `SessionReply`, `SessionFails` |
| `reconnect`, `_disconnect` | `Reconnect`, `Replace` |
| `connectToForkDoc` and the way back, also of a provider disposed of meanwhile | `ConnectToForkDoc`, `Restored` |
| y-websocket: socket opened, synchronized, closed, reopened | `Opened`, `Synced`, `Closes`, `Lost`, `Reopen` |
| `_onSync`, `_attachConflictListener` | `OnSync`, `Attach` |
| `_onConnectionClosed` by close code | `Refused` (4400, 4404, 4500), `Expired` (1003) |
| load timeout and its dialog | `LoadTimeout`, `Ignored`, `ContinueWaiting`, `Retry`, `CancelLoad` |
| session dialog, closing of the document, `dispose` | `SessionDialogAnswered`, `CloseDocument`, `Dispose` |
| `save`, whether the document is synchronized or not, and the listener for its reply | `Save`, `SaveReply` |

Every session request may fail, those of retries included.

y-websocket is a library: what the model says of it is how `yprovider.ts` uses it.

### Sessions

An open of a document does not suspend between its accesses to the store (it awaits only
a lock that no other task holds then), but servers are processes: each access to the
file is a step, and a server may stop after any.

| code | model |
|---|---|
| `SERVER_SESSION` of a process, what is installed | `session`, `origin` |
| the JSON file, or a text that is none | `store` (`Broken`) |
| `DocSessionHandler.put`, the beginning of `open` with a document of some kind | `Put`, `Open` |
| reading the file, which may fail: then there is no table | `Loaded` (`Previous`, `NoSessions`) |
| `save_current_session` | `Load` (`WithEntry`, `Capped`), `Truncate`, `Write`, `NotWritable` |
| `check_session_compatibility` | `Check` (`Compatibility`) |

A client here is what a browser was told of one session; it opens documents of any kind.
`lastSave`, `lastKind` and `kinds` are history: when a session was last recorded, and with
which kind of document, and the kinds it was recorded with at all; so is `disturbed`:
whether processes got in each other's way, one stopped within a write, or an access to
the file failed.

### ContentProvider

A file has a walk of paths.  The drive signals each rename, in order; the server's
watcher tells the room its path when it polls, and the shared model learns it
when it is synchronized, several steps of the walk at once.

| code | model |
|---|---|
| `_providers` by format, type and path | `providers`, on `Kind \X Path` |
| `path` and `key` in the closure of `_onCreate` | `path` |
| the user's `documents` in the global awareness | `documents` |
| `_onCreate`, its failure, `sharedModel.disposed` | `OpenDocument`, `OpenPlain`, `Close` |
| `handlePathChange` | `Moved` |
| `handleFileChangedSignal` of each document, in order | `DriveSignal` |
| `sharedModel.changed`: path, then hash | `SharedChange`, `Emit`, `FetchFails` |
| `get` and `save`: by a provider or not | `Channel` |

JupyterLab, the drive and the shared model are external.  The model assumes that a
document is open once per file and kind, that the drive keeps the order of renames, and
that a first state has no old path.

### Rebuild

A replica is a set of items with ids and the ids of the deleted ones; merging is by
ids, as in the CRDT.  An item carries one *unit* of content.  The order of the content
is left out: no property is about it.

| code | model |
|---|---|
| `prepare` making the room, `initialize` | `Make`, `Load`, `Initialize` |
| `_apply_deterministic_source_content` | `SourceOf`: author 0, one clock per unit in order |
| `aget() != content`, `aset` | `InSync`, `Aset` |
| `YRoom._broadcast_updates` to the store | `Store` |
| watcher, `_on_outofband_change` | `Reload`, `Notice`, `Overwrite` |
| a save as a whole | `SaveFile`, `SaveRefused` |
| `_clean_room`, the end of the process | `Evict`, `Crash` |
| clients, other programs | `Join` ... `Pull`, `External` |

History (`Rebuild`): `forfeit` has the units that were erased, removed by another program, or
unsaved when a room ended or was overwritten; `lost`, `early` and `touched` are the
exceptions explained in section 7.

### Forks

A document is the set of edits that have reached it; a room is an instance of a document
under an id.  A synchronized fork observes the *document* that its origin's room had, for
good; the table of forks names the origin's *id*.  The two come apart when the room is
cleaned and made again.

| code | model |
|---|---|
| `FORK_ROOMS`, the server's rooms | `table`, `made`, `serves` |
| `root_room.ydoc.observe` | `origin`; `above`, `Told`, `Apply` |
| `put` around `start_room` | `Create` (`Observes`), `Started` |
| `delete` | `Delete` (`MergeInto`) |
| `get`, fork events, `ForkManager` | `List`, `Emit`, `Hear`, `Answer` |
| rooms cleaned, and made for clients that return | `Cleaned`, `MadeAgain` |

An observer applies the update to its fork, whose own observers do the same, all within the
one call: `above[f]` has the documents whose updates reach fork `f` so, directly or through
others.  It never changes, since a fork observes one document, from its creation.

### Timeline

| code | model |
|---|---|
| `updateTimelineForDocument`, `currentChanged` of the shell | `Show`, `Hide`, `Activate`, `Ready` |
| React state of `TimelineSliderComponent` | `comp` |
| `fetchTimeline`: two requests, with `connectToForkDoc` between | `Click`, `TimelineReply`, `SessionReply`, `FetchFails` |
| `handleSliderChange`, `handleRestore` | `Slide`, `Restore`, `RestoreReply` |
| `reconnect`, which `handleRestore` does not await: it disconnects, and connects when its session request is answered | `RestoreReply`, `Returned`, `ReturnFails` |
| `UndoRedoHandler.put` | `Handle`, `HandleRestore` |

HTTP requests are a set: the server takes any of them next.  The browser's editor is seen
as the room its provider is connected to, or none while a reconnection awaits its session.
`rushed` (history) has the documents whose icon was clicked while an answer was awaited,
that to the session request of a reconnection included.

### ConflictDiff

`_diffNotebooks` is a loop over the matches of the longest common subsequence of cell ids;
one iteration is the action `Match`, what follows the loop is `Finish`.  `Patched` is what
nbdime makes of a diff and serves as the reference definition.

| code | model |
|---|---|
| `_lcs` | `Lengths`, `Leaves`, `WayBack`, `Lcs` |
| the loop, its end | `Match` (`Between`, `Changed`), `Finish` (`Top`) |
| `_handleConflictMessage` | `Conflict`, `Answers`, `Dismiss`, `ShowDiff` |
| `onConflictShowNotebookDiff`, its buttons | `ShowsDiff`, `Fetched`, `Revert`, `SaveAs` |

### Cursors

A replica of a text is a part of one order of all characters ever typed there (`order`): those
that have arrived (`has`) and are not known to be deleted (`gone`).  Who types between two
characters he sees may type before or after others that he does not see (`Type`).  A cursor in
the awareness is a position relative to a character.  The server relays changes of texts in
one order and cursors in one order, and a cursor may overtake a text.  CodeMirror
draws the layers anew when a text or a geometry has changed, and on the annotation that the
listener dispatches; what it measures later is part of the step.

| code | model |
|---|---|
| `showCollaborators.update` | `Update` (`DocChanged`, `Published`) |
| the listener to the awareness | `CursorsArrive` |
| `remoteCursorsLayer`, `remoteSelectionLayer` | `CaretsOf`, `Carets`; `SelectionsOf`, `Selections`; `Markers`, `Draw` |
| Yjs: texts and relative positions | `Visible`, `Index`, `Char`; `Relative`, `Absolute` |
| CodeMirror: selections through a change | `Mapped`, `Normal` |
| `userHover` | `Hover`, `Named` |
| users and the network | `Select`, `Type`, `Erase`, `Focus`, `Leave` (`Open`); `InsertArrives`, `DeleteArrives` |

### SharedLink

A click runs a *chain* of requests; the chains that have begun overlap.  `before` has, of a
chain whose list of shares is on its way, those whose lists were then on theirs: if it
arrives first it overtakes them (`passed`, history), and when they arrive all the same the
table is not the last word (`stale`).

| code | model |
|---|---|
| `showSharedLinkDialog` | `Allowed`, `Init` |
| `_createShare`, `_deleteShare` | `Share`, `Revoke`, `Change` |
| `_loadShares`, `_loadUsers` with its pages and groups | `ReadShares`, `SharesArrive`, `UsersArrive`, `GroupsArrive` |
| the handlers after them, the search | `Proceed` (`Kept`), `Search` |
| `SharedLinkBody` | `ToggleToken`, `CopyLink` |

### The abstract specifications

`RoomService` is what the server promises of the rooms of a document: one room at a time, each
made once, none deleted while somebody relies on it.  `RoomLifecycle`'s `Service` is its
specification under the mapping: the registered instance is the room, the stopped ones have
ended, and the users are the clients of a room that is not `doomed` that have cancelled the
cleaner and have not closed; it ends where the lock is split.  `SavePromises` says of a save
that it is settled once, and as a success only by the server's answer to it; `Provider`'s
`SavesMatched` is its specification, with `replies` for the saves answered with success.

## 3. What the runs show

| run | shows |
|---|---|
| `SyncFaults` | Two rooms, every switch of the configuration on, an edit, a save message, an external write (maybe back-dated) and one failure anywhere. `IInv`, the inductive invariant that the proofs use: types, locks owned exactly by the tasks inside their blocks through return, error and cancellation, cancelled writes, the order of saves, paths that are noted; `PathFollows`: where nothing fails, all documents have the file's path when the watcher has seen it. |
| `SyncEdits` | Two edits and two save messages in any order, debounced, with the watcher. `NoSilentDivergence`: nothing unsaved is marked clean or forgotten. `WriteUnderLock`, `SavesInOrder`: cancellation neither uncovers a write nor lets an older snapshot replace a newer one. `SavesEnd`, `Converges`: all saves end, and document and file agree. |
| `Lifecycle` | Three connections that overlap as they like, their cleaners, a failing start and a failing initialization. `IInv`, which the proofs use; its part `Inv`: until the lock is split the registered room is alive and its file is watched, and one handler at a time makes it. `LockWaitsEnd`: whoever waits for the lock gets it. `ServedTogether`: a client is served by the room it found, registered and initialized, unless the lock is split, the room is doomed or the client late. The refinement `Service`: until the lock is split a room is not deleted under a client that has cancelled its deletion, unless doomed. |
| `ProviderUse` | Three connections by retry, timeline or restoration, any of whose session requests may fail; lost, refused and expired sockets; two saves: `ProviderInv` (conflicts are heard, a disposed provider has no timer); `LoadAsked`, which excepts a retry whose request fails; `SyncedStays`, and the refinement `SavesMatched`. |
| `Sessions` | Two servers, three starts, an upgrade, two kinds of documents, two sessions kept, a file that cannot be read or written at times: `AcceptedCurrent`: who is accepted runs what the session ran, but for the version of another kind of document; `RefusedForCause`: who is refused was told of a session whose package, or whose kind of document last recorded, had another version, or that the file may have lost; `IInv`, which the proofs use. |
| `ContentProvider` | Two documents of one file or two, of two kinds, two renames to new names, two saves of the server: `IInv`, which the proofs use and of which `Inv` says that no document's key is behind the drive and that each document's own provider is registered under its key; `SavesInRoom`, `ListedRight`, `HashTold`. |
| `Rebuild` | A room made twice, with or without a store, alone or beside a room of another kind; two clients that write online and offline; a crash or an eviction; a write of another program or a deletion: `IInv`, which the proofs use and of which `NoDuplicates` says that nothing is shown twice, `Converging`, `EditsKept`, `SameDocument`. |
| `Forks` | Two forks, of the document or one of the other, two edits, every room made up to twice: `IInv`, which the proofs use and of which `Inv` says what a user sees (`ListedServed`, `InSync`, `EventsTell`), and `MergedWhole`: what a fork had is in the root as its clients see it, and in the forks that follow that. |
| `Timeline` | Three tabs that load at their own pace, two clicks on the icon, three requests that fail or overtake one another: `IInv` (with `OneSlider`), which the proofs use, `InStep`, `ShownLinked`. |
| `ConflictDiff` | All pairs of notebooks of up to three cells out of five, with equal, changed and missing ids, and all orders of the buttons: `DiffSoFar`, a loop invariant against `Patched`; `LongestMatched` against the definition of a longest common subsequence; `EmptyIfSame`. |
| `Cursors` | Two users, two texts, two characters typed or erased, two selections, three changes of focus: `DrawnTrue`, `OneEditor`, `HoverTrue`. |
| `SharedLink` | Four overlapping chains, every combination of scopes that differs, one failure: `SharesFresh`, `OthersListed`, and `IInv` (with `LinkAsShown`), which the proofs use. |

Between them the runs fire every action.  Each property has a mutant in
`PROJECT.json`: a slip in a definition that makes the run fail.

## 4. Bounds

*RoomFileSync.*  `Budget` bounds the events of each kind, `MaxSaves` the save tasks;
once they are spent the system runs to rest.  Clock and path are bounded by the
budgets.  Two edits, two save messages and four save tasks (`SyncEdits`)
allow every case of the cancellation chain: a save cancelled before it runs, in
its delay, waiting for the lock, in its write, draining, waiting for the update
lock, and a third that finds both of its predecessors still at work.  `SyncFaults`
has two rooms because the rooms share the loader and its lock; one failure
reaches every place one can occur at, since errors are handled
at the place and leave no counter.  (The watcher's error streak is not modelled.)

*RoomLifecycle.*  Connections connect once, so `Client` bounds them.  Three, with their
cleaners, are six users of the room's lock: it takes a cleaner that deletes the lock, one
that waits for it and one that comes next to split it, and two clients and a third that
reconnects to meet in a room that is to be deleted.  The instance reaches every one of
`split`, `doomed` and `late`.  The proofs of section 6 have any number.

*Provider.*  Three connections: the first, one that replaces it while it is pending or
open, and one that replaces the replacement.  One event of each
kind in any order; two saves, which is what a mix-up of replies takes.

*Sessions.*  `Cap` is 2 instead of ten so that three sessions evict one; three records let each
of them be recorded, or two servers get in each other's way and one record again.  Two kinds of
documents, and an upgrade that gives notebooks the version that files have: that is what it
takes for a record to match by accident.  (The package's version does not change in the
instance; that it is compared is one conjunct, which the proofs use.)  One client: what is said
of a client depends on no other.  The proofs of section 6 have any number of each.

*ContentProvider.*  Two renames of a file are what it takes for the sources to disagree: the
document tells them as one while the drive has signalled the first.  Two hashes, for
requests that overtake each other.

*Rebuild.*  Two rooms are one rebuild; three units are the file's first and two more, from
users or another program.  A third room and a second write matter for
what counts as `lost`: a room that ends after it loaded a file that had changed is one whose
items the next one does not have.  With one client, three units, three rooms and two writes
the properties hold as well.

*Forks.*  Two forks make a chain and siblings; two instances of each room are a room made
again; two edits tell a lost one from one that was there before.

*Timeline.*  Three versions and three requests are what it takes for two requests of one
direction to be passed by one of the other.  Two forks: a second click, of the same slider
or another.

*ConflictDiff.*  Three cells out of five: a cell moved past another, two of one id, an
empty id, a change of source and one of metadata.  The loop carries no state from one match
to the next but the positions, so that longer notebooks repeat these cases.

*Cursors.*  Two users, since a client draws each other user's cursors apart; the proof of
section 6 has any number.  Two editors for the position
that is in the other; a selection, one to the left, and one with two ranges.  `MaxTyped` and
`MaxFocused` let a cursor's text change while it travels and after.

*SharedLink.*  `Limit` 2 with two users is a full page, followed by an empty one.  The group
has a user's name, which the filter by names can confuse.  Four chains are the opening and three clicks.

`CHECK_DEADLOCK FALSE` is set where the system may stop, because its events are used up:
all runs but the two of `RoomFileSync`, whose watcher always polls again.

## 5. Fairness

* `RoomFileSync`: weak fairness of the watcher, of each save task and of each
  shielded write. asyncio runs every ready task, its locks are FIFO, sleeps end, and the
  contents manager answers or raises.  No fairness of edits, external
  writes, renames or failures.
* `RoomLifecycle`: weak fairness of each handler that has arrived and each
  `_clean_room`, for the same reason.  None of arrivals, losses and closings.
* `Provider`: the load timer runs out, and a session request is answered or
  fails.  None of the socket, the user or the save replies: `LoadAsked`
  holds though the socket never opens.
* The others state no liveness: what must hold in the end is said of states at rest
  (`AtRest`, `Quiet`, empty channels), for which no fairness is needed.

## 6. What is proved

`RoomFileSyncProofs` proves of `Spec`, for all sets of rooms, all budgets, any number of
saves and every setting of the switches, assuming only the module's three named
assumptions (the special names are distinct, the switches are Boolean, the bounds
are numbers):

| theorem of `RoomFileSyncProofs` | states |
|---|---|
| `Inductive` | `Spec => []IInv` |
| `TypeCorrect` | `Spec => []TypeOK` |
| `MutualExclusion` | `Spec => []LockInv` |
| `WritesCovered` | `Spec => []WriteUnderLock` |
| `Ordered` | `SaveDelaySet => (Spec => SavesInOrder)` |
| `Followed` | `Spec => []PathFollows` |
| `NothingForgotten` | `Undisturbed => (Spec => []NoSilentDivergence)` |

The hypotheses of two of them are configurations of the code, and without them the
properties fail (section 7): a save delay (`document_save_delay` other than `None`, the
default is one second); and, `Undisturbed`, one room of a file that all clients autosave,
with a save delay, a file that can be written, no failure and no other program that writes it.
Edits, save messages, renames, polls and the suspensions of `AsyncContent` are not restricted.

`WriteUnderLock` needs to know whose lock covers a write.  A write in progress has the
file lock if the task that began it is in its `shield` or `drain` await (`InnerInv`),
because those are inside the lock's block (`LockInv`).  A cancelled writer goes to
`drain`; a *second* cancellation there would make it leave the block with
the write still running.  So one must know that a task is cancelled at most once:

* each save is the `prev` of at most one other, and the last one of a room of none
  (`PrevInv`);
* a task that is cancelled, or drains because it was, has its successor beyond its
  start, which is where it cancels (`CancelInv`, through `Replaced`);
* only created tasks do anything (`CreatedInv`).

`SavesInOrder` needs more of the chain.  A save cancels one predecessor; that it thereby
stops *all* earlier ones is `OvertakenInv`: once a save of the room has started, every
earlier one is cancelled, done or draining.  The predecessor was the one that overtook
the others, since the chain passes through all saves of the room (`ChainInv`).  A save
that the cancellation does not stop has its write begun.  `OrderInv` then
orders the snapshots of those that may still write by their creation, above what is in the
file: one that begins a write has the loader's lock, and so has any that writes
(`WriterLocks`), so that at most one write is pending at a time.

`PathInv` says of each document that it has the path the loader has noted, or is still to be
told by the watcher.  `SavedInv`, for `NothingForgotten`, says that what the document has and
the file does not is carried by a save that is not cancelled: one that has yet to read it,
or has read the present revision (`Carries`).  It is proved beside `IInv` (`SavedStep`),
under `Undisturbed`, where a save is superseded only by one that carries the same or more.

`IInv` is the conjunction, with `TypeOK`.  The proof has a lemma for each of
the operators through which actions change locks and jobs (`Request`, `Take`,
`Goto`, `Return`, `NotifyNext`, `Done`, `CreateTask`), and for each conjunct a
lemma that a step preserves it.  `StepShape` sums up what a step can do to `pc`,
`prev` and `cancelled`, so that the conjuncts about the chain of
saves need a few cases instead of one per action.

The converse is instructive: give a save a second canceller (the slip
`SupersededAll`: cancel every unfinished save of the room, not only the previous one)
and `SyncEdits` finds `WriteUnderLock` violated.  The guarantee rests on
`_saving_document` being a single reference.

`SessionsProofs` proves of `Sessions`, for any servers, clients, installations, number of
starts and records, and any `Cap` above zero:

| theorem of `SessionsProofs` | states |
|---|---|
| `Invariant` | `Spec => []IInv` |
| `TypeCorrect` | `Spec => []TypeOK`: among others, the file has at most `Cap` sessions |
| `AcceptedSafely` | `Spec => AcceptedCurrent` |
| `RefusedRightly` | `Spec => RefusedForCause` |

A client is judged by what the file says of its session, and the file is written by
processes that read it long before, from memory, after others have emptied or replaced
it.  That they cannot make it lie is `TrueInv`, with `HonestRecords`: every record, in the file or in a
server's memory, has the package's version of its session and the version of a kind
of document that was opened in it.  It is preserved because a server adds a record only for the session it
runs (`EntryHonest`), whose installation is fixed when it starts (`OriginInv`; a new
session's number is not yet in any table), and keeps or drops those of others as
they are (`CappedTable`, which needs that a set of records has an oldest: `Least`, by
the well-foundedness of the natural numbers).  More cannot be said than `AcceptedCurrent`
says: the version of one kind may be by accident that which another has after an upgrade,
and then clients of the other are let in (section 7, failure 4).

From `TypeCorrect`'s bound one learns why `Cap` is safe against any interleaving: each
process caps what it writes, not what it finds.

That the file tells the truth does not say that it tells enough.  `RefusedRightly` needs the
other half of `IInv`, `Undisturbed`, for as long as no process was in another's way: of any
table, in the file or on its way to it, each record was made at the last save of its session,
for the kind of document that was opened then, and every recorded session that it lacks has
`Cap` later ones (`Recalled`).  For the table a server is going to write that is said of the
times as they will be when it has written (`WillRecall`), so that `Write` has nothing left to
show.  It takes an argument about one file and several processes: only one is between reading
and writing (`OneSaves`), the file is truncated only by that one, which will write it
(`FileRecalled`), so whoever reads it undisturbed reads a whole file, and its new record is
later than all others (`Times`). `CappedRecalls` then counts: the record that is dropped is the
earliest of `Cap + 1` with different times, so it has `Cap` later ones; and those that were
dropped before do not have fewer later ones when another session is recorded
(`ExtendedRecalls`).  The proof uses that a truncated text is no table (`BrokenAssumption`).  A
file that could not be read counts as a disturbance: the server that has read nothing writes its
own record over all.

`ClientProofs` proves of `ContentProvider`, for any documents, files, paths and kinds and any
number of renames and saves, if no path is taken again (`~Reuse`):

| theorem of `ClientProofs` | states |
|---|---|
| `Invariant` | `~Reuse => (Spec => []IInv)`, with `NotBehind` and `OwnProvider` |
| `SavedInRoom` | `~Reuse => (Spec => []SavesInRoom)` |
| `Listing` | `~Reuse => (Spec => []ListedRight)` |
| `HashesTold` | `~Reuse => (Spec => []HashTold)` |

With reuse the properties fail (section 7): the hypothesis makes a path one place in one walk
(`WalksApart`), so that a document whose path is a signal's old one shows that file, and two
documents that a signal moves differ in kind.  `NotBehind` is what survives the two sources: a
document's path may be ahead of the drive, or behind by exactly what the drive has still to
signal, since the drive signals the last places of each walk, in order (`DriveInOrder`), and
the shared model only tells later ones than it told.  A drive's signal runs through the handlers of all that
listen, each on the registry that the one before has left; `SignalMoves` shows that this comes
to moving them all at once (`MovedAll`), whatever their number and order.  `Moves` then gives, for
the drive and for the shared model alike, that documents keep their own providers.

It proves of `Provider`, for any number of connections and saves and any budget, whichever
session requests fail:

| theorem of `ClientProofs` | states |
|---|---|
| `ProviderInvariant` | `ProviderSpec => []ProviderInv` |
| `SavesKept` | `ProviderSpec => SavesMatched`: `Provider` implements `SavePromises` |
| `SyncedKept` | `ProviderSpec => SyncedStays` |

`ProviderInv` is inductive as it stands.  Its parts are about connections, the timer and the
saves, and each action disturbs one or two of them; the proof of `StepInv` has one step per
action.  `ConflictHeard` is the one that is easily lost: it needs that whatever changes
`current` or opens its socket moves the listener, and that a fork's connection, on which nobody
listens, is never taken for the document's.  For the refinement one needs of the invariant that
a save not yet called has no promise (`CallsCounted`), and that a reply goes to a save that
waits; every other action leaves `save` and `replies` alone.  `SyncedKept` needs no invariant:
whether the document is still loading is looked at again when the dialog is answered
(`StillLoading`).

And of `ConflictDiff`, for any cells and notebooks of any length:

| theorem of `ClientProofs` | states |
|---|---|
| `WrittenSoFar` | `DiffSpec => []DiffSoFar` |
| `MatchedLongest` | `DiffSpec => []LongestMatched` |
| `EmptyIfAlike` | `DiffSpec => []EmptyIfSame` |

The tables of `_lcs` are functions on squares, each computed from squares of an earlier
diagonal.  That they satisfy their equations (`LengthsRule`, `WayBackRule`) is shown by continuing a
table that does up to a diagonal to the next one.  What they contain is shown without an
induction rule: a square where `Tables` fails, on the least such diagonal (`Least`), has neighbours
where it holds, and each of the code's three cases gives it for the square (`ChainAppend`,
`AtMostNext`, `AtMostOne`).  For `AtMostNext`: at most one pair of a choice uses a last
element, since two that do would cross; for `AtMostOne`: where the last elements differ, one of
them is in no pair.  The loop's invariant `DiffInv` says that `bi` and `ri` are those of the last
match (`AtMatch`), that the entries patch what is before them into its like and use no cell
after it (`MadeSoFar`), and that notebooks that are alike got no entry (`NoneWritten`).  The
last needs that a list of ids is matched with itself element by element, repeated ids or not
(`LcsSame`): the way back begins at the end and takes equal ids first.

`RoomLifecycleProofs` proves of `RoomLifecycle`, for any set of connections, overlapping as
they like, any number of failures and both settings of the cleanup delay:

| theorem of `RoomLifecycleProofs` | states |
|---|---|
| `Invariant` | `Spec => []IInv`, of which `Inv` is a part |
| `Together` | `Spec => []ServedTogether` |
| `Implements` | `Spec => Service`: the refinement of `RoomService` |

Where the code does not keep a promise, a history variable says when: the lock is `split`, a
room `doomed`, a client `late` (section 7).  All three are set by steps of the code, and
nothing keeps those steps from happening.

Who has the same lock queues for it (`LockInv`, `QueueInv`).  As long as the lock is not split
all who have one have the same (`OneLock`), although `_clean_room` deletes it while others
wait: who comes next would take a new one, and that step is the one that sets `split`
(`OneLockStep`).  So there is one user in the block (`Exclusive`, `BlockIsFree`), which gives
`OneInitializes`, and that a room which starts or is initialized stays registered and watched
meanwhile (`RoomInv`).

`ServedTogether` and the refinement need what becomes of a room's deletion.  `CleanerInv`: if
the registered room is not doomed, whoever is about to delete it is `room.cleaner`, so that the
cancellation in `open` finds it.  `UsersInv`: who has found the registered room still has it,
unless it came too late, and once it has cancelled the deletion nobody is about to delete the
room; a later `on_close` that schedules one while it is being opened dooms the room
(`Missed`).  In the refinement a step of the model is a creation,
initialization, deletion or a change of users of the abstract room, or a stutter
(`ServiceStep`), or it splits the lock.

`ForksProofs` proves of `Forks`, for any forks, edits and number of instances:

| theorem of `ForksProofs` | states |
|---|---|
| `Invariant` | `Spec => []IInv`, of which `Inv` is a part |
| `Merged` | `Spec => MergedWhole` |

`InSync`, that a synchronized fork has all its origin has, is not inductive: an update that
reaches the origin must reach the fork too, whichever document it was first applied to.
`AboveInv` closes it: what is above a fork includes what is above the forks it observes, so that
`Apply`, which writes to a document and to those it is above, keeps every pair in step
(`Applied`, `AppliedAbove`).  `MadeInv` gives that a fork has its ids from its creation, and
that nobody observes a document that was not made.  `EventsTell` speaks of an empty stream;
`HearInv` of any: whoever is known and no longer listed has its deletion in the stream, *after*
its creation if that is there as well.  `Merged` follows from `AboveInv`: the merge is an
`Apply` to the document that the root's room serves.

`RebuildProofs` proves of `Rebuild`, for any clients and any number of units, rooms, writes and
deletions, assuming that the bounds are positive and that `None` is no number and no replica:

| theorem of `RebuildProofs` | states |
|---|---|
| `Invariant` | `Spec => []IInv` |
| `Unduplicated` | `Spec => []NoDuplicates` |
| `Convergence` | `Spec => []Converging` |
| `Preserved` | `Spec => []EditsKept` |
| `Together` | `Spec => []SameDocument` |

All but `Convergence` and `Preserved` except what `early` and `lost` stand for, and those two what
`lost` does (section 7).  The argument has four parts.

* *Ids.*  Items are only made by `Type`, `Aset` and the history of the file (`Makes`);
  everything else a copy has it draws from another (`Drawn`).  A room numbers its own items and
  has all of them (`CopiesInv`); a history that is made from the file again is that of the
  content it was made from before, or no client has anything (`SourceInv`).  So an id stands for
  one item (`AgreeInv`), a merge is a union (`Agreed`), and replicas converge.
* *Deletions* (`KeptInv`).  A client has deleted only what was forfeited or what the room has
  deleted too, or the one to come has (`Deletions`, with `Base` for what that will have).
  A room begins without deletions but for those (`Begun`), and what it shows is in the file,
  will be, or was forfeited (`Current`).  From these, no merge hides a unit on both sides
  (`MergedShown`): `EditsKept`.
* *One item of a unit.*  Two items of one unit cannot be kept apart, as a room makes a
  new one where it lacks a unit that another program put back.  But then it has the older
  ones and has deleted them: all that clients got from a room, or that the file got from
  clients, is in `Base` (`OnceInv`).  Hence of two items of a unit, whoever has the
  newer has deleted the older (`NewerInv`), and none shows both.
* *Rest* (`RestInv`).  A room is empty until it is initialized, and shows the file that
  the loader knows unless a save is due.

The model had to be corrected for this: `lost` missed a room that crashes between the
load of a file that has changed and its initialization, after which the next one makes another
history of the same ids (three rooms and two writes; now part of `Remakable`).

`TimelineProofs` proves of `Timeline`, for any documents and any bounds:

| theorem of `TimelineProofs` | states |
|---|---|
| `Invariant` | `Spec => []IInv`, with `OneSlider` |
| `Follows` | `Spec => []ShownLinked` |
| `Named` | `Spec => []InStep` |

`LinkInv` is what makes `ShownLinked` inductive: of a document whose icon was not clicked too
early, at most one fetch is under way, and none beside a slider in use or a Restore, so
that the answer to a request finds the slider that asked for it where it left it; and the
Restores on their way are those of the slider that is shown.  A Restore is on its way until
the session request of its reconnection is answered, since that moves the document: a click
before then makes the document `rushed`.  `InStep` is inductive beside
`ForkInv`: a fork is moved by one slider, and no request was sent to it before its timeline
came.  It is a path of versions from where the fork is to where its slider is, a step for each
request on its way.  A request that is handled before others, all of its direction, moves the
part of the path before it, and that stays within the versions since the path goes one way
there (`Monotone`, by the least place that would not); so it is never cut short.

`CollaborationProofs` proves of `Cursors`, for any users and editors, any texts at the start, any
selections, any margin and any number of changes:

| theorem of `CollaborationProofs` | states |
|---|---|
| `DrawnTruly` | `CursorsSpec => []DrawnTrue` |
| `DrawnOnce` | `CursorsSpec => []OneEditor` |
| `HoverNamesRight` | `CursorsSpec => []HoverTrue` |

`DrawnTrue` compares what one client has drawn with what another selects, when all has arrived.
The invariant, `CursorsInv`, says what is true before that, in four parts.

* *Texts.*  A character is in one place of one order (`TextInv`).  Every character and every
  deletion that a client does not know is on its way to it, a character once and before its
  deletion (`Owed`, `PendingInv`).  So two clients to whom no text is on its way
  see the same characters.  It is inductive only with the last of its clauses: a deletion on its
  way was made by somebody, and what it deletes has arrived or is on its way before it.
* *Cursors.*  The last that a client has heard of a user, or is going to hear, is what that
  user has published (`LastInv`).  All cursors published at a time are of one text, with
  characters of it (`CursorListInv`); that is what `DrawnOnce` rests on.
* *The user.*  Who has stayed in an editor has published what he selects there (`KeptInv`).
  This needs that a selection is mapped through others' changes, within its text
  (`SelectionInv`), and that an arriving change publishes too (`DocChanged`).
* *Drawing.*  What is drawn is up to date with what the client knows (`DrawnInv`), since a
  text's change draws its editor and can alter what is seen in no other (`Changed`, `SameView`).

The positions are numbers of elements of finite sets (`Before`).  The lemmas about them say that
the character at an index is the one with this many before it, so that `Char` and `Index` are
inverse, and that a character inserted into the order leaves the order of the others
(`InsertedAlike`).  That there is a character at each index is shown by the
well-foundedness of the natural numbers (`Least`), without induction.

It proves of `SharedLink`, for any users, pages, groups, scopes and number of
chains:

| theorem of `CollaborationProofs` | states |
|---|---|
| `Invariant` | `Spec => []IInv`, with `LinkAsShown` |
| `Fresh` | `Spec => []SharesFresh` |
| `Results` | `Spec => []OthersListed` |

`SharesFresh` speaks of a dialog at rest, and `FreshInv` of one in motion: some
chain has still to read the list of shares, or one on its way brings the hub's and no
list that was read before it and can still arrive after it will be taken for newer, or the table
has the hub's and all that is on its way was overtaken, so that its arrival counts as stale.
A change at the hub re-establishes the first, since the chain that made it reads next.

`OthersListed` needs to know who has yet to bring whom (`ShownInv`).  The difficulty is
a share revoked by one chain whose list arrives with another's, of a user shared with: that
one filters the results but does not load the users again, so that who is no longer in the
table is missing from them.  `GoneInv` says why he comes back: what a list has that the hub, or a list
read later, has not was revoked by a chain that reads, or has read, after that list; it
comes later, and loads the users.  `OrderInv` makes of `before` an order of the lists on their way,
and `ListInv` says that a page of users continues the ones before it.  `OthersListed` excepts
the owner's name: the instance has no group of that name, and the proof needs it (section 7).

## 7. What is only model-checked, and what is known not to hold

All liveness (`Converges`, `SavesEnd`, `LockWaitsEnd`, `LoadAsked`), which is out of the
prover's reach.  Every other property of the runs is stated by a theorem of section 6,
some under hypotheses that are named there.

Stronger properties than those of the runs fail.  Five failures contradict what the repository
says; TLC shows them on the modules as named here:

1. **A save can overwrite an external change and leave the document different from
   the file for good** (`Converges` of `RoomFileSync`, with one edit and one external
   write).  The save reads the document's content
   (`rooms.py:455`), then waits for the loader's lock, which the watcher holds to load
   an external change.  The document is reloaded and marked clean, `last_modified` is
   the new mtime, so that the save's own check passes, and it writes its old
   snapshot over the external change.  Neither the watcher nor another save sees a
   difference again, and the document is not dirty.  `docs/source/index.md:44`:
   "the file is watched and any change will trigger the document update within the
   next second".
2. **A manual save is answered with success though nothing was written**
   (`SuccessMeansSaved` of `RoomFileSync`).  `_maybe_save_document` returns normally
   (`handlers.py:382`) when it is cancelled
   by an edit's autosave and on every error; `on_message` takes any return for
   success, and the promise of `save` "resolves ... when the file is saved"
   (`dp/ydrive.ts:145`).
3. **A room is deleted under a client that is being opened** (`Service` of `RoomLifecycle`
   without `room \notin doomed`).  `on_close` (`handlers.py:410`) looks at `room.clients`,
   which does not have a client yet that has just cancelled the room's deletion
   (`handlers.py:286`: "cancel the deletion of the room if it was scheduled") and waits for
   the room's lock.
4. **After a restart a client may be refused though nothing changed, and let in though its
   document's version changed** (`RefusedForCause` and `AcceptedCurrent` of `Sessions`, if they
   compare the versions of the client's own kind of document).
   A session has one record, with one `document_version` (`utils.py:151`): that of the
   document opened last.  Notebooks and files have different ones, so the clients of the
   other kind are told `version_mismatch`, or are let in if the version of theirs is now that
   which the record has of the other.  `utils.py:206`: "Same directory + same
   versions → safe to reconnect".
5. **After a retry whose session request fails nobody asks the user any more** (`LoadAsked` of
   `Provider` without `RetryFailed`).  `reconnect` clears the load timeout, which `_connect`
   starts only when the request was answered; the failure is a warning on the console
   (`dp/yprovider.ts:127-131`).  `dp/yprovider.ts:31`: "Timeout in milliseconds after which a
   loading dialog is shown if the shared document has not yet been synchronized".

No document, comment or test promises otherwise of the rest, or they follow from one of
these:

* **Without a save delay**, and with documents that suspend when they are read,
  `SavesInOrder` fails.  An autosave task that returns at once (`rooms.py:435`) has become
  `_saving_document` without cancelling the save before it; the next manual save then
  cancels nothing, and of two saves that run the older snapshot may be written last.
* **An edit during a write** is marked clean by that write's end (`rooms.py:457-459` compares
  nothing) if no save of its own follows: without autosave or a save delay.
  `NoSilentDivergence` then fails, as it does for a file that cannot be written.
* With **two rooms**, `NoSilentDivergence` fails on edits alone: the save of one room is no
  change of the file to the loader that the other shares.
* With **a watcher and external writes**, `NoSilentDivergence` fails as `Converges` does
  (failure 1).
* With **two rooms**, `Converges` and `NoSilentDivergence` fail on external writes:
  the rooms share `last_modified`, and one room's load hides the change from the other
  until the watcher's callback, which an error skips.
* **An edit while a reload is taken in** (`AsyncContent`, between the reading of the
  document and its overwriting) meets the held update lock: it schedules no save, and the
  reload overwrites it.  Document and file agree, so no property fails, but the edit is lost.
* With **a failure**, `NoSilentDivergence` and `PathFollows` fail: `last_modified` and
  `_current_path` advance before what depends on them is done.
* With **three clients at a time and failures**, `OneInitializes`, `RegisteredAlive` and
  `RegisteredWatched` fail once the lock is `split`.  `_clean_room` deletes the lock from
  `_room_locks` while others wait for it; who comes next takes a new lock and runs beside them.
* **A disposed provider can open a connection**: `_connect` (`dp/yprovider.ts:211`) does not
  look whether it was disposed while it awaited the session, and nothing closes what it
  then opens.  Nor do `connectToForkDoc` and `reconnect` when the timeline calls them after an
  await (`dp/component.tsx:82`, `dp/component.tsx:116`).
* If **a path is taken again** (`Reuse` of `ContentProvider`), `OwnProvider`, `SavesInRoom`
  and `ListedRight` fail.  The drive's signals name paths, not files: one that comes late
  moves the document opened meanwhile at its old path, whose saves then go past the room
  for good, through the REST API; and a document opened at a path whose former owner has
  still its key there takes over the entry.  A document that learns of `p -> q -> p` as one
  change gets a change from `p` to `p`, and `set` followed by `delete` of the same key
  (`dp/ydrive.ts:288-289`) unregisters it.  A room that is made again sets its path once more
  (`rooms.py:54`), which a client that kept the document may also see as such a change.
* **A file open as two kinds** has one entry in the list of open documents, which the
  first that closes removes, or which stays for good if the second was opened at the
  new path before the first heard of the rename (`ListedRight` excepts it, by `twice`).
* The **hash that observers are told** can be an old one, as the requests for the model
  are not ordered (`HashTold` excepts it, by `overtaken`).
* A room can **stay in memory with no client**: one that closes before it is served
  does not equal the set of clients, and of two that close together neither does.
* A client whose room is deleted between its `prepare` and its `open` (`late`) is initialized on a
  stopped room and then not served (`pc = "unserved"`), with its socket open, or is served by a
  room made meanwhile.
* A client whose initialization fails is cleaned up by a `_clean_room` that is
  not `room.cleaner`: a client that comes meanwhile does not cancel it, and loses its room
  (`doomed`).
* `InitializeFails` leaves a loader and its watcher behind that no room will remove.
* A retry while the first request is slow leaves two live connections, and the
  request that is answered last decides which is the provider's.
* **A reload before the initialization** (`early` in `Rebuild`): a room is subscribed to the
  file from its construction.  If the file is open as another kind of document too, the
  watcher may call it back before `initialize` has the update lock; the reload fills
  the document, and without a store `initialize` then adds the file's history: the
  content is there twice.
* **Without a store** (`lost` in `Rebuild`; the store may also lag behind a crash): edits that
  were saved have other ids in a room that is made from the file, and a client that
  returns brings them again; and if the file changed meanwhile, the same ids stand for
  other content, so that client and room differ and no update tells them.
* **An unsaved edit** of a client that stays open is taken from it when its room was
  evicted or lost, if the store has it and the file does not (`forfeit`): the file wins.
* A `save` without a socket resolves at once; a save whose socket closes is never
  settled.
* **Forks.**  `delete` unlists the fork before it looks for the root's room
  (`handlers.py:788`): if that is gone, or the fork has not started, the answer is an error
  and the fork's room stays, and can be neither merged nor deleted (`Orphan`).  A
  synchronized fork follows the document its origin had, not the one in a room made again.
  A client of a deleted fork that reconnects gets a transient room, whose edits reach nobody and
  which nothing removes.  A list that is late may name a fork that is gone
  (here a list is read at once).
* **Timeline.**  Requests that fail, or overtake one for another direction, leave slider and
  fork at different versions (`InStep` excepts them, by `orderly`).  A click while an answer is
  awaited leaves the slider with one fork and the editor with another (`rushed`). Contexts that
  become ready out of order show the slider of a document that is not current (`intruded`).  A
  change of tabs leaves the provider on the fork; an answer after Restore moves it to a fork
  again; if the session request fails after the fork was made it stays on the fork without a
  slider.  The reconnection after a Restore is not awaited (`dp/component.tsx:116`): its late
  answer takes the document out of a fork that was opened meanwhile, and if it fails the
  document is connected to nothing.  A second Restore gets 404.  The fork can be edited, though
  a notification calls it read-only, and its room is never removed.
* **Conflict diff.**  A cell's type and outputs are not compared (`Shown`).  The buttons find
  the document by the path it had when its provider was made, and the dialog's commands act on
  whatever tab is current: after a rename or a change of tabs they act on none or on another.
  Save Local As after Revert saves what was reverted to.  Several
  conflict messages open several dialogs; one is modelled.
* **Cursors.**  An empty range ends the drawing of a user's further selections
  (`remoteSelectionLayer` returns where it could go on; `Selections` has it so).  Moving the
  focus without a change of selection publishes nothing.
* **Sharing.**  A list of shares that comes after a later one, or a failed request, leaves
  the table as it is not (`stale`, `failed`).  Recipients are filtered by name, whatever the
  type: a group with the owner's name is listed when the dialog opens, and no more after a click
  on a name or on Revoke.  Groups may be listed twice; here lists are sets.

## 8. Simplifications and what is not modelled

* `RoomFileSync` starts with initialized rooms and does not stop them;
  contents are stamps, so only equality matters; formats, chunking and hashes are left
  out (`InnerHash` keeps the await, since a failure there comes after the write).
  A timestamp comparison is exact, as that of the datetime objects is.
* `RoomLifecycle` has one document room for its file and no transient rooms (those of
  forks are in `Forks`), nor `get_document`.  The session check is only the await it takes: a
  client whose session has expired is closed, and `open` goes on, as the code does.
* `Provider` leaves out the answer to the conflict dialog, which is in `ConflictDiff`,
  and the awareness of users.
* `Sessions` does not model a record without a `document_version`, which no document
  room makes, nor store files edited by hand.
* `ContentProvider` leaves out the autosave setting that is copied to the document's
  awareness, and the models that `get` and `save` return.
* `Rebuild` takes saves and reloads as single steps, and stores a room's updates in their
  order; progressive loading and the conflict message are left out: what a client
  learns when its update refers to an item that the room has as another.
* `Forks` takes `get_room` of a running room and `delete_room` not to suspend, as
  `RoomLifecycle` does, and leaves out the fork's provider (`getProvider`), which is a lookup.
* `Timeline` leaves out the replay of the store into the fork and the texts of the
  slider; nobody edits a fork, and a Restore's undo is complete when it is answered.  The
  provider has one room here: that a late answer may leave two sockets on one document is in
  `Provider`.
* `ConflictDiff` has the fields of a cell that the code compares, and one for the rest.
* `Cursors` leaves out pixels, themes and the fading of the hover box (`Margin` stands for the
  distance at which it opens).
* `SharedLink` takes the filtering by what is typed in the search as the identity, and
  nobody else as changing the shares.  The scope `servers!server=owner/name/` that the code
  asks for ends in a slash that the shares it posts do not have; the model has one name.
* Not modelled, with no protocol state: global awareness (`dp/awareness.ts`), the panels
  and menus of users (`collaboratorspanel.tsx`, `users-item.tsx`, `collaboration.ts`), the
  cell executor (one request, repeated while an input is awaited), plugin wiring,
  tokens, fixtures and packaging.
* Not modelled, with state: `get_document`, progressive loading, the watcher's error streak.

## 9. Plan

Modelled and checked: all modules of section 2.  Proved: `RoomFileSync` (`NothingForgotten`
without other programs), `RoomLifecycle`, `Sessions`, `Provider`, `ContentProvider`, `Forks`,
`Rebuild`, `Timeline`, `ConflictDiff`, `Cursors`, `SharedLink`.  Next, in this order:

1. Progressive loading (`rooms.py:203-243`) and the conflict message (`rooms.py:316-340`) in
   `Rebuild`; the stop of a room during its saves.
