------------------------------ MODULE Provider ------------------------------
(***************************************************************************)
(* The WebSocketProvider of a document in the browser (yprovider.ts): it   *)
(* asks the server for a session, then connects the shared model with a    *)
(* y-websocket provider, which opens its socket again whenever it closes.  *)
(* A load timeout, the timeline's switch to a fork and back, and the       *)
(* closing of the document replace or end the connection while requests,   *)
(* dialogs and saves are pending.                                          *)
(*                                                                         *)
(* The browser runs one callback at a time: each action is a callback or   *)
(* the code between two awaits.  The content provider (ydrive.ts) disposes *)
(* of the provider when the shared model is disposed, so that the two are  *)
(* one step here.                                                          *)
(***************************************************************************)
EXTENDS Naturals

CONSTANTS
  Null,
  MaxConnections,  \* bound on the connections ever begun
  MaxSaves,        \* bound on the calls of save
  Budget           \* bound on the number of events of each kind

Event == {"refused", "expired", "lost", "fork", "restore"}
Connection == 1 .. MaxConnections
SaveId == 1 .. MaxSaves

ASSUME NullAssumption == Null \notin Nat
ASSUME ConnectionAssumption ==
  /\ MaxConnections \in Nat \ {0} /\ MaxSaves \in Nat
  /\ Budget \in [Event -> Nat]

VARIABLES
  begun,      \* how many connections have been begun
  link,       \* the state of each
  forks,      \* those made by connectToForkDoc
  heard,      \* those whose sync event calls _onSync
  current,    \* _yWebsocketProvider
  listened,   \* the connection whose socket has the conflict listener, _conflictWs
  hasSynced,  \* _hasSynced
  ready,      \* the promise
  isDisposed, \* the provider and the shared model
  timer,      \* the load timeout is running
  dialog,     \* the load dialog is shown
  expired,    \* a session dialog is shown
  calls,      \* _saveCounter
  save,       \* the promise of each save
  via,        \* the connection on whose socket its reply can still come
  replies,    \* history: the saves the server has answered with success
  budget

links == <<begun, link, forks, heard, current, listened>>
loading == <<hasSynced, ready, isDisposed, timer, dialog, expired>>
saves == <<calls, save, via, replies>>
providerVars == <<links, loading, saves, budget>>

Socket == {"opening", "open", "synced"}  \* the y-websocket provider has a socket

\* every variable holds a value of its kind, and the current connection is one
\* that was made and not destroyed
ProviderTypeOK ==
  /\ begun \in 1 .. MaxConnections
  /\ link \in [Connection -> {"none", "request", "failed", "closed", "destroyed"} \cup Socket]
  /\ forks \subseteq Connection /\ heard \subseteq Connection
  /\ current \in Connection \cup {Null} /\ listened \in Connection \cup {Null}
  /\ current # Null => link[current] \in Socket \cup {"closed"}
  /\ hasSynced \in BOOLEAN
  /\ ready \in {"pending", "resolved", "rejected"}
  /\ {isDisposed, timer, dialog, expired} \subseteq BOOLEAN
  /\ calls \in 0 .. MaxSaves
  /\ save \in [SaveId -> {"none", "waiting", "resolved", "rejected"}]
  /\ via \in [SaveId -> Connection \cup {Null}]
  /\ replies \subseteq SaveId
  /\ budget \in [Event -> Nat]

\* The constructor has called _connect and started the load timeout.
ProviderInit ==
  /\ begun = 1
  /\ link = [k \in Connection |-> IF k = 1 THEN "request" ELSE "none"]
  /\ forks = {} /\ heard = {}
  /\ current = Null /\ listened = Null
  /\ hasSynced = FALSE /\ ready = "pending" /\ isDisposed = FALSE
  /\ timer = TRUE /\ dialog = FALSE /\ expired = FALSE
  /\ calls = 0
  /\ save = [s \in SaveId |-> "none"]
  /\ via = [s \in SaveId |-> Null]
  /\ replies = {}
  /\ budget = Budget

Spend(e) == budget[e] > 0 /\ budget' = [budget EXCEPT ![e] = @ - 1]

\* Of the connections in gone the sockets are closed: no reply to a save comes.
Cut(gone) ==
  /\ listened' = IF listened \in gone THEN Null ELSE listened
  /\ via' = [s \in SaveId |-> IF via[s] \in gone THEN Null ELSE via[s]]

\* _disconnect and dispose destroy the current y-websocket provider.
Dropped(state) ==
  IF current = Null THEN state ELSE [state EXCEPT ![current] = "destroyed"]

\* The shared model and its provider are disposed of, if they are not yet,
\* when the links are in that state and those of gone have just closed.
Dispose(state, gone) ==
  /\ isDisposed' = TRUE
  /\ IF isDisposed
     THEN link' = state /\ Cut(gone) /\ UNCHANGED <<heard, current, timer>>
     ELSE /\ timer' = FALSE
          /\ link' = Dropped(state)
          /\ heard' = heard \ {current}
          /\ current' = Null
          /\ Cut(gone \cup {current})

\* A new connection takes the place of the current one.
\* (a slip: the destroyed one is not forgotten)
ReplaceKept(next, state) ==
  /\ begun < MaxConnections
  /\ begun' = begun + 1
  /\ link' = [Dropped(link) EXCEPT ![begun'] = state]
  /\ heard' = heard \ {current}
  /\ current' = IF next = Null THEN current ELSE next
  /\ Cut({current})
Replace(next, state) ==
  /\ begun < MaxConnections
  /\ begun' = begun + 1
  /\ link' = [Dropped(link) EXCEPT ![begun'] = state]
  /\ heard' = heard \ {current}
  /\ current' = next
  /\ Cut({current})

-----------------------------------------------------------------------------
(* Connecting                                                              *)

\* (a slip: a connection does not start it)
KeepTimer == UNCHANGED timer
StartLoadTimeout == timer' = ~isDisposed

\* _connect goes on when the server has answered with a session, whatever has
\* happened in the meantime.
SessionReply(k) ==
  /\ link[k] = "request"
  /\ link' = [link EXCEPT ![k] = "opening"]
  /\ heard' = heard \cup {k}
  /\ current' = k
  /\ StartLoadTimeout
  /\ UNCHANGED <<begun, forks, listened, hasSynced, ready, isDisposed, dialog, expired, saves, budget>>

SessionFails(k) ==
  /\ link[k] = "request"
  /\ link' = [link EXCEPT ![k] = "failed"]
  /\ UNCHANGED <<begun, forks, heard, current, listened, loading, saves, budget>>

Reconnect ==
  /\ Replace(Null, "request")
  /\ timer' = FALSE
  /\ UNCHANGED <<forks, hasSynced, ready, isDisposed, expired, calls, save, replies>>

\* The timeline, which a document has once it is ready, shows a fork when that has
\* been made, be the document closed by then or not ...
ConnectToForkDoc ==
  /\ hasSynced /\ Spend("fork")
  /\ Replace(begun', "opening")
  /\ forks' = forks \cup {begun'}
  /\ UNCHANGED <<loading, calls, save, replies>>

\* ... and goes back to the document when a version has been restored, wherever the
\* provider is by then.
Restored ==
  /\ forks # {} /\ Spend("restore")
  /\ Reconnect
  /\ UNCHANGED dialog

-----------------------------------------------------------------------------
(* The y-websocket provider's socket                                       *)

\* _attachConflictListener: the listener moves to the current socket, if any.
Attach(state) == IF current # Null /\ state[current] \in Socket THEN current ELSE Null

Opened(k) ==
  /\ link[k] = "opening"
  /\ link' = [link EXCEPT ![k] = "open"]
  /\ listened' = IF k \in forks THEN listened ELSE Attach(link)
  /\ UNCHANGED <<begun, forks, heard, current, loading, saves, budget>>

\* The first sync of a connection to the document; _onSync then stops hearing
\* the connection that is the current one.
OnSync(k) ==
  IF k \in heard
  THEN /\ hasSynced' = TRUE
       /\ timer' = FALSE
       /\ heard' = heard \ {current}
       /\ ready' = IF ready = "pending" THEN "resolved" ELSE ready
  ELSE UNCHANGED <<hasSynced, timer, heard, ready>>

Synced(k) ==
  /\ link[k] = "open"
  /\ link' = [link EXCEPT ![k] = "synced"]
  /\ OnSync(k)
  /\ UNCHANGED <<begun, forks, current, listened, isDisposed, dialog, expired, saves, budget>>

\* The socket closes, and will be opened again.
Unlinked(k) == [link EXCEPT ![k] = "closed"]
Closes(k) ==
  /\ link[k] \in Socket
  /\ link' = Unlinked(k) /\ Cut({k})
  /\ UNCHANGED <<begun, forks, heard, current, hasSynced, ready, isDisposed, timer, dialog,
                 calls, save, replies>>

Lost(k) == Spend("lost") /\ Closes(k) /\ UNCHANGED expired

\* The server refuses the document, 4400, 4404 or 4500: one that was synchronized
\* before stays, another is disposed of.
Refused(k) ==
  /\ link[k] = "open" /\ k \notin forks /\ Spend("refused")
  /\ \/ hasSynced /\ Closes(k)
     \/ /\ ~hasSynced
        /\ ready' = IF ready = "pending" THEN "rejected" ELSE ready
        /\ Dispose(Unlinked(k), {k})
        /\ UNCHANGED <<begun, forks, hasSynced, dialog, calls, save, replies>>
  /\ UNCHANGED expired

\* The session has expired, 1003: the user is asked.
Expired(k) ==
  /\ link[k] \in {"open", "synced"} /\ k \notin forks /\ Spend("expired")
  /\ Closes(k)
  /\ expired' = TRUE

Reopen(k) ==
  /\ link[k] = "closed"
  /\ link' = [link EXCEPT ![k] = "opening"]
  /\ UNCHANGED <<begun, forks, heard, current, listened, loading, saves, budget>>

-----------------------------------------------------------------------------
(* Timeout and dialogs; the user closes the document                       *)

LoadTimeout ==
  /\ timer
  /\ timer' = FALSE
  /\ dialog' = (dialog \/ (~isDisposed /\ ~hasSynced))
  /\ UNCHANGED <<links, hasSynced, ready, isDisposed, expired, saves, budget>>

\* What the user chooses counts if nothing has happened while the dialog was
\* shown.  (a slip: it counts as long as the document is there)
StillThere == ~isDisposed
StillLoading == ~isDisposed /\ ~hasSynced
Answered == dialog /\ dialog' = FALSE

Ignored ==
  /\ Answered /\ ~StillLoading
  /\ UNCHANGED <<links, hasSynced, ready, isDisposed, timer, expired, saves, budget>>

ContinueWaiting ==
  /\ Answered /\ StillLoading
  /\ StartLoadTimeout
  /\ UNCHANGED <<links, hasSynced, ready, isDisposed, expired, saves, budget>>

Retry == Answered /\ StillLoading /\ Reconnect /\ UNCHANGED budget

CancelLoad ==
  /\ Answered /\ StillLoading
  /\ ready' = IF ready = "pending" THEN "rejected" ELSE ready
  /\ Dispose(link, {})
  /\ UNCHANGED <<begun, forks, hasSynced, expired, calls, save, replies, budget>>

SessionDialogAnswered ==
  /\ expired /\ expired' = FALSE
  /\ Dispose(link, {})
  /\ UNCHANGED <<begun, forks, hasSynced, ready, dialog, calls, save, replies, budget>>

CloseDocument ==
  /\ ~isDisposed
  /\ Dispose(link, {})
  /\ UNCHANGED <<begun, forks, hasSynced, ready, dialog, expired, calls, save, replies, budget>>

-----------------------------------------------------------------------------
(* Saving                                                                  *)

\* Without a socket save returns at once; a socket still opening throws.  A document
\* that is disposed of has no provider in the drive's map.
Save ==
  /\ calls < MaxSaves /\ ~isDisposed
  /\ calls' = calls + 1
  /\ LET state == IF current = Null THEN "none" ELSE link[current] IN
     IF state \in {"open", "synced"}
     THEN /\ save' = [save EXCEPT ![calls'] = "waiting"]
          /\ via' = [via EXCEPT ![calls'] = current]
     ELSE /\ save' = [save EXCEPT ![calls'] = IF state = "opening" THEN "rejected" ELSE "resolved"]
          /\ UNCHANGED via
  /\ UNCHANGED <<links, loading, replies, budget>>

\* The saves that the reply to s settles.
\* (a slip: any save that waits on the socket)
AnyWaiting(s) == {t \in SaveId : via[t] = via[s] /\ save[t] = "waiting"}
Settles(s) == {s}

\* The server answers the saves of a socket one after the other; a fork's room
\* cannot be saved.
SaveReply(s) ==
  /\ via[s] # Null /\ save[s] = "waiting"
  /\ \A t \in SaveId : t < s => via[t] # via[s]
  /\ \E status \in {"success", "skipped", "failed"} :
       /\ via[s] \in forks => status = "failed"
       /\ save' = [t \in SaveId |-> IF t \notin Settles(s) THEN save[t]
                                    ELSE IF status = "success" THEN "resolved" ELSE "rejected"]
       /\ replies' = IF status = "success" THEN replies \cup {s} ELSE replies
  /\ via' = [via EXCEPT ![s] = Null]
  /\ UNCHANGED <<links, loading, calls, budget>>

-----------------------------------------------------------------------------
Connect(k) == SessionReply(k) \/ Opened(k) \/ Synced(k) \/ Reopen(k)
Fails(k) == SessionFails(k) \/ Lost(k) \/ Refused(k) \/ Expired(k)
LoadDialog == Ignored \/ ContinueWaiting \/ Retry \/ CancelLoad
User == ConnectToForkDoc \/ Restored \/ SessionDialogAnswered \/ CloseDocument \/ Save

ProviderNext == \/ \E k \in Connection : Connect(k) \/ Fails(k)
        \/ LoadTimeout \/ LoadDialog \/ User
        \/ \E s \in SaveId : SaveReply(s)

ProviderSpec == ProviderInit /\ [][ProviderNext]_providerVars

\* The timer runs out, and every request ends: with an answer, or with an error.
Fairness ==
  /\ WF_providerVars(LoadTimeout)
  /\ \A k \in Connection : WF_providerVars(SessionReply(k) \/ SessionFails(k))
FairSpec == ProviderSpec /\ Fairness

-----------------------------------------------------------------------------
(* Properties                                                              *)

\* The user has tried again and the session request failed, which nobody tells him.
RetryFailed == begun > 1 /\ link[begun] = "failed" /\ ~timer /\ ~dialog

\* yprovider.ts, LOAD_TIMEOUT: the user of a document that does not load is
\* asked what to do, as often as he waits or tries again, unless a retry fails.
Loading == ~hasSynced /\ ~isDisposed
LoadAsked == Loading ~> ~Loading \/ dialog \/ RetryFailed

\* A document that was synchronized once, maybe while a dialog said it is still
\* loading, is disposed of neither by the answer to that dialog nor by a refusal.
SyncedStays ==
  [][hasSynced /\ ~isDisposed /\ isDisposed' => dialog' = dialog /\ budget' = budget]_providerVars

\* A save whose message went out is settled once, and succeeds only by the server's
\* own answer to it (ydrive.ts, save), whatever other saves are on the socket and
\* whatever happens to that.
Promised == INSTANCE SavePromises WITH succeeded <- replies
SavesMatched == Promised!Spec

\* The conflict that a returning client causes is told on its open socket:
\* there the provider listens, whatever was closed and opened before.
ConflictHeard ==
  current # Null /\ current \notin forks /\ link[current] \in {"open", "synced"}
    => listened = current

\* No timer of a disposed provider is left running, to show a dialog for it.
DisposedQuiet == isDisposed => ~timer

\* While a document loads the timer runs or the dialog is shown, but for the time of a
\* retry's session request, and after its failure.
LoadWatched ==
  Loading => timer \/ dialog \/ (begun > 1 /\ link[begun] = "request") \/ RetryFailed

\* A fork is shown only of a document that has loaded.
ForksSynced == forks # {} => hasSynced

\* The saves that were called are those that have a promise.
CallsCounted == \A s \in SaveId : save[s] = "none" <=> s > calls

\* The invariants of the current connection, the timer and the saves, which
\* together are inductive (ClientProofs)
ProviderInv ==
  /\ ProviderTypeOK /\ ConflictHeard /\ DisposedQuiet
  /\ LoadWatched /\ ForksSynced /\ CallsCounted
=============================================================================
