------------------------------ MODULE Timeline ------------------------------
(***************************************************************************)
(* The timeline in the status bar (filebrowser.ts, TimelineSlider.tsx,     *)
(* component.tsx, requests.ts): a slider for the document that is current. *)
(* A click on its icon has the server replay the document's updates into a *)
(* fork and shows the fork in the editor; the slider moves the fork with   *)
(* undo and redo requests; Restore brings the document to what is shown.   *)
(*                                                                         *)
(* Requests travel on their own: the server may take and answer them in    *)
(* another order than they were sent, and any may fail.  The provider of a *)
(* document is seen here as the room it is connected to; its sockets are   *)
(* modelled in Provider.  Nobody edits a fork.                             *)
(***************************************************************************)
EXTENDS Naturals

CONSTANTS
  None,
  Doc,           \* the documents with a tab
  Plain,         \* those that are not collaborative
  Versions,      \* how many versions the store of a document holds
  MaxWidgets,    \* bound on the sliders ever shown
  MaxForks,      \* bound on the clicks on the icon, each of which makes a fork
  MaxRequests    \* bound on the requests to move or restore a fork

Widget == 1 .. MaxWidgets
Fork == 1 .. MaxForks
Version == 0 .. Versions - 1

ASSUME DocAssumption == Plain \subseteq Doc /\ None \notin Doc \cup Widget \cup Fork
ASSUME BoundAssumption ==
  /\ Versions \in Nat \ {0}
  /\ MaxWidgets \in Nat \ {0} /\ MaxForks \in Nat \ {0} /\ MaxRequests \in Nat

VARIABLES
  current,    \* the document whose tab is current
  ready,      \* the documents whose context is ready
  waiting,    \* those whose activation waits for that
  intruded,   \* history: one of them was shown while another was current
  shown,      \* how many sliders have been made
  slider,     \* timelineWidget
  attached,   \* the sliders in the status bar
  of,         \* the document of a slider
  comp,       \* the state of its component
  clicks,     \* how many times an icon was clicked
  fetches,    \* fetchTimeline calls that await an answer
  rushed,     \* history: the documents clicked on while an answer was awaited
  room,       \* the room to which the provider of a document connected last, None
              \* while it has left that and waits for the document's session
  sent,       \* how many requests have been sent to forks
  requests,   \* those not yet answered
  forks,      \* FORK_DOCUMENTS
  pos,        \* the version that a fork is at
  orderly     \* history: the forks whose requests arrived, all in order

tabs == <<current, ready, waiting, intruded>>
bar == <<shown, slider, attached, of>>
server == <<sent, requests, forks, pos, orderly>>
vars == <<tabs, bar, comp, clicks, fetches, rushed, room, server>>

Component == [toggle : BOOLEAN, button : BOOLEAN, first : BOOLEAN,
              fork : Fork \cup {None}, index : Version]
Fetch == [by : Widget, fork : Fork, stage : {"timeline", "session"}]
Request == [id : 1 .. MaxRequests, by : Widget, fork : Fork \cup {None},
            action : {"undo", "redo", "restore", "restored", "returning"}, steps : Version]

TypeOK ==
  /\ current \in Doc \cup {None} /\ ready \subseteq Doc /\ waiting \subseteq Doc /\ intruded \in BOOLEAN
  /\ shown \in 0 .. MaxWidgets /\ slider \in Widget \cup {None} /\ attached \subseteq Widget
  /\ of \in [Widget -> Doc \cup {None}]
  /\ comp \in [Widget -> Component]
  /\ clicks \in 0 .. MaxForks /\ fetches \subseteq Fetch /\ rushed \subseteq Doc
  /\ room \in [Doc -> Doc \cup Fork \cup {None}]
  /\ sent \in 0 .. MaxRequests /\ requests \subseteq Request
  /\ forks \subseteq Fork /\ pos \in [Fork -> Version] /\ orderly \subseteq Fork

NewComponent == [toggle |-> FALSE, button |-> FALSE, first |-> TRUE, fork |-> None, index |-> 0]

Init ==
  /\ current = None /\ ready = Plain
  /\ waiting = {} /\ intruded = FALSE
  /\ shown = 0 /\ slider = None /\ attached = {}
  /\ of = [w \in Widget |-> None]
  /\ comp = [w \in Widget |-> NewComponent]
  /\ clicks = 0 /\ fetches = {} /\ rushed = {}
  /\ room = [d \in Doc |-> d]
  /\ sent = 0 /\ requests = {} /\ forks = {}
  /\ pos = [f \in Fork |-> Versions - 1]
  /\ orderly = Fork

-----------------------------------------------------------------------------
(* The status bar                                                          *)

\* TimelineWidget: slider w is made for document d.
Made(w, d) == of' = [of EXCEPT ![w] = d]

\* timelineWidget is disposed of, and one for document d takes its place.
\* (slips: the one that is there is forgotten; it is left as it is)
ShowBeside(d) ==
  /\ shown < MaxWidgets
  /\ shown' = shown + 1
  /\ slider' = shown'
  /\ attached' = attached \cup {shown'}
  /\ Made(shown', d)
Show(d) ==
  /\ shown < MaxWidgets
  /\ shown' = shown + 1
  /\ slider' = shown'
  /\ attached' = (attached \ {slider}) \cup {shown'}
  /\ Made(shown', d)

Hide == slider' = None /\ attached' = attached \ {slider} /\ UNCHANGED <<shown, of>>

\* currentChanged: the slider of the tab that was current goes; that of the new
\* one comes when its context is ready, which a document without a
\* document_id has none of.
Activate(d) ==
  /\ d # current
  /\ current' = d /\ intruded' = FALSE
  /\ IF d \in ready \ Plain THEN Show(d) ELSE Hide
  /\ waiting' = IF d \in Doc \ ready THEN waiting \cup {d} ELSE waiting
  /\ UNCHANGED <<ready, comp, clicks, fetches, rushed, room, server>>

\* The context of d is ready: the activations that wait for it go on, one after
\* the other, whatever tab is current now.
Ready(d) ==
  /\ d \in Doc \ ready
  /\ ready' = ready \cup {d}
  /\ waiting' = waiting \ {d}
  /\ IF d \in waiting
     THEN Show(d) /\ intruded' = (d # current)
     ELSE UNCHANGED <<bar, intruded>>
  /\ UNCHANGED <<current, comp, clicks, fetches, rushed, room, server>>

-----------------------------------------------------------------------------
(* The component: fetchTimeline                                            *)

\* What brings document d back: Restore, and the session that reconnect awaits after it
Returning == {"restore", "restored", "returning"}
Restores(d) == {r \in requests : of[r.by] = d /\ r.action \in Returning}
Fetches(d) == {f \in fetches : of[f.by] = d}

\* requestDocumentTimeline for slider w, and requestDocSession after its answer
Asked(w, n) == [by |-> w, fork |-> n, stage |-> "timeline"]
SessionAsked(f) == [f EXCEPT !.stage = "session"]

\* A click on the icon of the slider, which asks for the timeline if none is shown.
Click ==
  /\ slider # None /\ comp[slider].first /\ clicks < MaxForks
  /\ clicks' = clicks + 1
  /\ fetches' = fetches \cup {Asked(slider, clicks')}
  /\ rushed' = IF Fetches(of[slider]) \cup Restores(of[slider]) = {} THEN rushed
               ELSE rushed \cup {of[slider]}
  /\ UNCHANGED <<tabs, bar, comp, room, server>>

\* The server has made the fork, at the last version: the provider connects to
\* it, be the slider still there or not, and the session is asked for.
Shows(w, f) == [comp EXCEPT ![w].fork = f, ![w].index = Versions - 1]
TimelineReply(f) ==
  /\ f.stage = "timeline"
  /\ forks' = forks \cup {f.fork}
  /\ comp' = Shows(f.by, f.fork)
  /\ room' = [room EXCEPT ![of[f.by]] = f.fork]
  /\ fetches' = (fetches \ {f}) \cup {SessionAsked(f)}
  /\ UNCHANGED <<tabs, bar, clicks, rushed, sent, requests, pos, orderly>>

\* The slider is usable once the session is known.
SessionReply(f) ==
  /\ f.stage = "session"
  /\ comp' = [comp EXCEPT ![f.by].toggle = TRUE, ![f.by].first = FALSE]
  /\ fetches' = fetches \ {f}
  /\ UNCHANGED <<tabs, bar, clicks, rushed, room, server>>

FetchFails(f) ==
  /\ fetches' = fetches \ {f}
  /\ UNCHANGED <<tabs, bar, comp, clicks, rushed, room, server>>

-----------------------------------------------------------------------------
(* The component: slider and Restore                                       *)

\* requestUndoRedo, by the component of the slider.
Send(action, steps) ==
  /\ sent < MaxRequests
  /\ sent' = sent + 1
  /\ requests' = requests \cup
       {[id |-> sent', by |-> slider, fork |-> comp[slider].fork, action |-> action, steps |-> steps]}
  /\ UNCHANGED <<forks, pos, orderly>>

\* (a slip: any move is counted from the last version)
FromLast(v, index) == (Versions - 1) - v
Steps(v, index) == IF v < index THEN index - v ELSE v - index
Action(v, index) == IF v < index THEN "undo" ELSE "redo"

\* The slider, and the button once the slider was moved, are there to be used.
Usable == slider # None /\ comp[slider].toggle
Restorable == Usable /\ comp[slider].button

Slide(v) ==
  /\ Usable /\ v # comp[slider].index
  /\ Send(Action(v, comp[slider].index), Steps(v, comp[slider].index))
  /\ comp' = [comp EXCEPT ![slider].index = v, ![slider].button = TRUE]
  /\ UNCHANGED <<tabs, bar, clicks, fetches, rushed, room>>

Restore ==
  /\ Restorable
  /\ Send("restore", 0)
  /\ UNCHANGED <<tabs, bar, comp, clicks, fetches, rushed, room>>

\* The first version is never undone.
Undone(p, steps) == IF steps > p THEN 0 ELSE p - steps
Redone(p, steps) == IF p + steps > Versions - 1 THEN Versions - 1 ELSE p + steps

\* Where a request takes a fork that is at version p.
Moved(p, r) ==
  CASE r.action = "undo" -> Undone(p, r.steps)
    [] r.action = "redo" -> Redone(p, r.steps)
    [] OTHER -> p

\* A request passes an earlier one that asks for something else.
Passes(r) ==
  \E q \in requests :
    q.fork = r.fork /\ q.id < r.id /\ q.action \notin {r.action, "restored", "returning"}

\* UndoRedoHandler: the fork is moved, or it is gone.
Handle(r) ==
  /\ r.action \in {"undo", "redo"}
  /\ requests' = requests \ {r}
  /\ pos' = IF r.fork \in forks THEN [pos EXCEPT ![r.fork] = Moved(@, r)] ELSE pos
  /\ orderly' = IF r.fork \in forks /\ ~Passes(r) THEN orderly ELSE orderly \ {r.fork}
  /\ UNCHANGED <<tabs, bar, comp, clicks, fetches, rushed, room, sent, forks>>

\* The fork is forgotten.
HandleRestore(r) ==
  /\ r.action = "restore" /\ r.fork \in forks
  /\ forks' = forks \ {r.fork}
  /\ requests' = (requests \ {r}) \cup {[r EXCEPT !.action = "restored"]}
  /\ orderly' = IF Passes(r) THEN orderly \ {r.fork} ELSE orderly
  /\ UNCHANGED <<tabs, bar, comp, clicks, fetches, rushed, room, sent, pos>>

\* (a slip: the slider stays)
Reusable(w) == [comp EXCEPT ![w].first = TRUE]
Closes(w) == [comp EXCEPT ![w].toggle = FALSE, ![w].first = TRUE]
\* That is answered: provider.reconnect(), which nobody awaits, leaves the room and
\* asks for the session of the document; the slider closes.
RestoreReply(r) ==
  /\ r.action = "restored"
  /\ requests' = (requests \ {r}) \cup {[r EXCEPT !.action = "returning"]}
  /\ room' = [room EXCEPT ![of[r.by]] = None]
  /\ comp' = Closes(r.by)
  /\ UNCHANGED <<tabs, bar, clicks, fetches, rushed, sent, forks, pos, orderly>>

\* The session is known: the provider connects to the document, whatever room it
\* is connected to by now.
Returned(r) ==
  /\ r.action = "returning"
  /\ requests' = requests \ {r}
  /\ room' = [room EXCEPT ![of[r.by]] = of[r.by]]
  /\ UNCHANGED <<tabs, bar, comp, clicks, fetches, rushed, sent, forks, pos, orderly>>

\* ... or it is refused, and the provider goes nowhere.
ReturnFails(r) ==
  /\ r.action = "returning"
  /\ requests' = requests \ {r}
  /\ UNCHANGED <<tabs, bar, comp, clicks, fetches, rushed, room, sent, forks, pos, orderly>>

\* A request or an answer is lost, or a fork to restore is gone: nothing changes.
RequestFails(r) ==
  /\ r.action # "returning"
  /\ requests' = requests \ {r}
  /\ orderly' = orderly \ {r.fork}
  /\ UNCHANGED <<tabs, bar, comp, clicks, fetches, rushed, room, sent, forks, pos>>

-----------------------------------------------------------------------------
Tabs == (\E d \in Doc \cup {None} : Activate(d)) \/ (\E d \in Doc : Ready(d))
Answered == \E f \in fetches : TimelineReply(f) \/ SessionReply(f) \/ FetchFails(f)
Use == Click \/ (\E v \in Version : Slide(v)) \/ Restore
Handled ==
  \E r \in requests : \/ Handle(r) \/ HandleRestore(r) \/ RestoreReply(r)
                      \/ Returned(r) \/ ReturnFails(r) \/ RequestFails(r)

Next == Tabs \/ Answered \/ Use \/ Handled

Spec == Init /\ [][Next]_vars

-----------------------------------------------------------------------------
(* Properties                                                              *)

\* filebrowser.ts, "Dispose of the previous timelineWidget if it exists": however
\* the activations of tabs overlap, the status bar holds no slider but the last,
\* and that is the current document's unless another became ready since.
OneSlider ==
  /\ attached = {slider} \ {None}
  /\ slider # None /\ ~intruded => of[slider] = current

\* Handled when its fork is at version p a request takes it to q, and is not cut short.
Takes(r, p, q) ==
  CASE r.action = "undo" -> p = q + r.steps
    [] r.action = "redo" -> q = p + r.steps
    [] OTHER -> q = p

\* The requests on their way take fork f, one after the other, from where it is to v.
Leads(at, f, v) ==
  /\ at[0] = pos[f] /\ at[sent] = v
  /\ \A n \in 1 .. sent :
       IF \E r \in requests : r.fork = f /\ r.id = n
       THEN \A r \in requests : r.fork = f /\ r.id = n => Takes(r, at[n - 1], at[n])
       ELSE at[n] = at[n - 1]

\* component.tsx, handleSliderChange: the version that the slider names, and that
\* Restore offers, is the one to which the requests on their way take its fork, none of them
\* beyond the first or the last, if none failed and none overtook one for the other direction.
InStep ==
  \A w \in Widget :
    comp[w].fork \in orderly =>
      \E at \in [0 .. sent -> Version] : Leads(at, comp[w].fork, comp[w].index)

\* component.tsx, fetchTimeline and handleRestore: a slider in use moves the fork
\* that the editor shows, unless the icon was clicked while an answer was awaited, that
\* to the session request of the provider's reconnection included.
ShownLinked ==
  Usable /\ of[slider] \notin rushed
    => room[of[slider]] = comp[slider].fork

\* What the proofs need besides: a slider was made for a document, and what awaits an
\* answer was asked by one; one not made yet is as the next will be; ...
MadeInv ==
  /\ slider # None => slider <= shown
  /\ \A w \in Widget :
       /\ w <= shown => of[w] \in Doc
       /\ w > shown => comp[w] = NewComponent
       /\ comp[w].first <=> ~comp[w].toggle
  /\ \A f \in fetches : f.by <= shown
  /\ \A r \in requests : r.by <= shown

\* ... and nothing else moves a document, not clicked on too early, while its timeline
\* is fetched, nor but its own Restore while its slider is in use.
Linked(d) ==
  /\ \A f \in Fetches(d) :
       /\ Fetches(d) = {f} /\ Restores(d) = {}
       /\ f.stage = "session" => room[d] = f.fork /\ comp[f.by].fork = f.fork
       /\ ~(Usable /\ of[slider] = d)
  /\ Usable /\ of[slider] = d =>
       /\ room[d] = comp[slider].fork
       /\ \A r \in Restores(d) : r.by = slider /\ r.action # "returning"
LinkInv == \A d \in Doc \ rushed : Linked(d)

\* ... and a fork is moved by one slider, not before its timeline has come.
Unused(g) ==
  /\ pos[g] = Versions - 1
  /\ \A w \in Widget : comp[w].fork # g
  /\ \A r \in requests : r.fork # g
ForkInv ==
  /\ \A r \in requests : r.id <= sent /\ \A q \in requests : q.id = r.id => q = r
  /\ \A w, x \in Widget : comp[w].fork = comp[x].fork => w = x \/ comp[w].fork = None
  /\ \A g \in Fork : g > clicks => Unused(g)
  /\ \A f \in fetches :
       /\ f.fork <= clicks
       /\ f.stage = "timeline" =>
            Unused(f.fork) /\ \A e \in fetches : e.stage = "timeline" /\ e.fork = f.fork => e = f

IInv == TypeOK /\ OneSlider /\ MadeInv /\ LinkInv /\ ForkInv /\ InStep
=============================================================================
