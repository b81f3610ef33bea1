--------------------------- MODULE TimelineProofs ---------------------------
(* Theorems about Timeline for any documents, sliders, forks and versions. *)
EXTENDS Timeline, WellFoundedInduction, TLAPS

USE DocAssumption, BoundAssumption

-----------------------------------------------------------------------------
(* The slider                                                              *)

\* The one that is shown next takes the place of the one that is there.
LEMMA Shown ==
  ASSUME TypeOK, OneSlider, MadeInv, NEW d \in Doc, Show(d)
  PROVE  /\ shown' = shown + 1 /\ shown' \in Widget /\ shown \in 0 .. MaxWidgets
         /\ slider' = shown' /\ attached' = {shown'}
         /\ of' = [of EXCEPT ![shown'] = d] /\ of' \in [Widget -> Doc \cup {None}]
         /\ of'[shown'] = d /\ \A w \in Widget : w <= shown => of'[w] = of[w]
BY DEF TypeOK, OneSlider, MadeInv, Show, Made, Widget

\* Without a document there is none.
LEMMA Hidden ==
  ASSUME OneSlider, Hide
  PROVE  slider' = None /\ attached' = {} /\ UNCHANGED <<shown, of>>
BY DEF OneSlider, Hide

\* What a document's activations, and the contexts that become ready, do
LEMMA TabsStep ==
  ASSUME TypeOK, OneSlider, MadeInv, Tabs
  PROVE  /\ current' \in Doc \cup {None} /\ ready' \subseteq Doc /\ waiting' \subseteq Doc
         /\ intruded' \in BOOLEAN
         /\ UNCHANGED <<comp, clicks, fetches, rushed, room, server>>
         /\ \/ slider' = None /\ attached' = {} /\ UNCHANGED <<shown, of>>
            \/ \E d \in Doc : Show(d) /\ intruded' = (d # current')
            \/ UNCHANGED <<bar, intruded, current>>
<1>1. ASSUME NEW d \in Doc \cup {None}, Activate(d)
      PROVE  /\ current' = d /\ ready' = ready /\ waiting' \subseteq Doc /\ intruded' = FALSE
             /\ UNCHANGED <<comp, clicks, fetches, rushed, room, server>>
             /\ Hide \/ (d \in Doc /\ Show(d))
  BY <1>1 DEF Activate, TypeOK
<1>2. ASSUME NEW d \in Doc, Ready(d)
      PROVE  /\ current' = current /\ ready' \subseteq Doc /\ waiting' \subseteq Doc
             /\ UNCHANGED <<comp, clicks, fetches, rushed, room, server>>
             /\ \/ Show(d) /\ intruded' = (d # current)
                \/ UNCHANGED <<bar, intruded>>
  BY <1>2 DEF Ready, TypeOK
<1>3. CASE \E d \in Doc \cup {None} : Activate(d)
  BY <1>1, <1>3, Hidden DEF TypeOK
<1>4. CASE \E d \in Doc : Ready(d)
  BY <1>2, <1>4 DEF TypeOK
<1> QED
  BY <1>3, <1>4 DEF Tabs

-----------------------------------------------------------------------------
(* Types                                                                   *)

\* The versions to which a fork is moved
LEMMA MovedVersion ==
  ASSUME NEW p \in Version, NEW r \in Request
  PROVE  Moved(p, r) \in Version
BY DEF Moved, Undone, Redone, Version, Request

\* The steps of a move
LEMMA StepsVersion ==
  ASSUME NEW v \in Version, NEW index \in Version
  PROVE  Steps(v, index) \in Version
BY DEF Steps, Version

LEMMA TypeStep ==
  ASSUME IInv, Next
  PROVE  TypeOK'
<1>0. TypeOK /\ OneSlider /\ MadeInv
  BY DEF IInv
<1>1. CASE Tabs
  <2>1. /\ UNCHANGED <<comp, clicks, fetches, rushed, room, sent, requests, forks, pos, orderly>>
        /\ current' \in Doc \cup {None} /\ ready' \subseteq Doc /\ waiting' \subseteq Doc
        /\ intruded' \in BOOLEAN
    BY <1>0, <1>1, TabsStep DEF server
  <2>2. /\ shown' \in 0 .. MaxWidgets /\ slider' \in Widget \cup {None} /\ attached' \subseteq Widget
        /\ of' \in [Widget -> Doc \cup {None}]
    <3>1. \/ slider' = None /\ attached' = {} /\ UNCHANGED <<shown, of>>
          \/ \E d \in Doc : Show(d)
          \/ UNCHANGED <<shown, slider, attached, of>>
      BY <1>0, <1>1, TabsStep DEF bar
    <3>2. ASSUME NEW d \in Doc, Show(d)
          PROVE  /\ shown' \in 0 .. MaxWidgets /\ slider' \in Widget /\ attached' \subseteq Widget
                 /\ of' \in [Widget -> Doc \cup {None}]
      BY <1>0, <3>2, Shown DEF Widget
    <3> QED
      BY <1>0, <3>1, <3>2 DEF TypeOK
  <2> QED
    BY <1>0, <2>1, <2>2 DEF TypeOK
<1>2. CASE Click
  <2>1. /\ clicks' = clicks + 1 /\ clicks' \in Fork /\ slider \in Widget /\ of[slider] \in Doc
    BY <1>0, <1>2 DEF Click, TypeOK, MadeInv, Fork
  <2>2. fetches' \subseteq Fetch /\ rushed' \subseteq Doc
    BY <1>0, <1>2, <2>1 DEF Click, TypeOK, Asked, Fetch
  <2> QED
    BY <1>0, <1>2, <2>1, <2>2 DEF Click, TypeOK, Fork, tabs, bar, server
<1>3. ASSUME NEW f \in fetches, TimelineReply(f) PROVE TypeOK'
  <2>1. f \in Fetch /\ f.by \in Widget /\ f.fork \in Fork /\ of[f.by] \in Doc
    BY <1>0 DEF TypeOK, MadeInv, Fetch
  <2>2. SessionAsked(f) \in Fetch
    BY <2>1 DEF SessionAsked, Fetch
  <2>3. Versions - 1 \in Version
    BY DEF Version
  <2>4. comp' \in [Widget -> Component]
    <3>1. comp \in [Widget -> Component]
      BY <1>0 DEF TypeOK
    <3>2. comp' = [comp EXCEPT ![f.by].fork = f.fork, ![f.by].index = Versions - 1]
      BY <1>3 DEF TimelineReply, Shows
    <3> QED
      BY <2>1, <2>3, <3>1, <3>2 DEF Component
  <2>5. room' \in [Doc -> Doc \cup Fork \cup {None}]
    BY <1>0, <1>3, <2>1 DEF TimelineReply, TypeOK
  <2> QED
    BY <1>0, <1>3, <2>1, <2>2, <2>4, <2>5 DEF TimelineReply, TypeOK, tabs, bar
<1>4. ASSUME NEW f \in fetches, SessionReply(f) PROVE TypeOK'
  <2>1. comp' \in [Widget -> Component]
    <3>1. comp \in [Widget -> Component] /\ f.by \in Widget
      BY <1>0 DEF TypeOK, Fetch
    <3>2. comp' = [comp EXCEPT ![f.by].toggle = TRUE, ![f.by].first = FALSE]
      BY <1>4 DEF SessionReply
    <3> QED
      BY <3>1, <3>2 DEF Component
  <2> QED
    BY <1>0, <1>4, <2>1 DEF SessionReply, TypeOK, tabs, bar, server
<1>5. ASSUME NEW f \in fetches, FetchFails(f) PROVE TypeOK'
  BY <1>0, <1>5 DEF FetchFails, TypeOK, tabs, bar, server
<1>6. ASSUME NEW action \in {"undo", "redo", "restore"}, NEW steps \in Version, Usable, Send(action, steps)
      PROVE  /\ sent' \in 0 .. MaxRequests /\ requests' \subseteq Request
             /\ UNCHANGED <<forks, pos, orderly>>
  <2>1. sent' = sent + 1 /\ sent' \in 1 .. MaxRequests /\ slider \in Widget
    BY <1>0, <1>6 DEF Send, Usable, TypeOK
  <2>2. comp[slider] \in Component
    BY <1>0, <2>1 DEF TypeOK
  <2>3. [id |-> sent', by |-> slider, fork |-> comp[slider].fork, action |-> action, steps |-> steps]
          \in Request
    BY <2>1, <2>2 DEF Request, Component
  <2> QED
    BY <1>0, <1>6, <2>1, <2>3 DEF Send, TypeOK
<1>7. ASSUME NEW v \in Version, Slide(v) PROVE TypeOK'
  <2>1. /\ slider \in Widget /\ Usable /\ comp[slider] \in Component /\ comp[slider].index \in Version
    BY <1>0, <1>7 DEF Slide, Usable, TypeOK, Component
  <2>2. /\ Steps(v, comp[slider].index) \in Version
        /\ Action(v, comp[slider].index) \in {"undo", "redo", "restore"}
    BY <2>1, StepsVersion DEF Action
  <2>3. /\ sent' \in 0 .. MaxRequests /\ requests' \subseteq Request /\ UNCHANGED <<forks, pos, orderly>>
    BY <1>6, <1>7, <2>1, <2>2 DEF Slide
  <2>4. comp' \in [Widget -> Component]
    BY <1>0, <1>7, <2>1 DEF Slide, TypeOK, Component
  <2> QED
    BY <1>0, <1>7, <2>3, <2>4 DEF Slide, TypeOK, tabs, bar
<1>8. CASE Restore
  <2>1. /\ sent' \in 0 .. MaxRequests /\ requests' \subseteq Request /\ UNCHANGED <<forks, pos, orderly>>
    <3>1. 0 \in Version
      BY DEF Version
    <3> QED
      BY <1>6, <1>8, <3>1 DEF Restore, Restorable
  <2> QED
    BY <1>0, <1>8, <2>1 DEF Restore, TypeOK, tabs, bar
<1>9. ASSUME NEW r \in requests, Handle(r) PROVE TypeOK'
  <2>1. pos' \in [Fork -> Version]
    <3>1. CASE r.fork \in forks
      <4>1. r \in Request /\ r.fork \in Fork /\ pos[r.fork] \in Version
        BY <1>0, <3>1 DEF TypeOK
      <4>2. Moved(pos[r.fork], r) \in Version
        BY <4>1, MovedVersion
      <4>3. pos' = [pos EXCEPT ![r.fork] = Moved(pos[r.fork], r)]
        BY <1>9, <3>1 DEF Handle
      <4> QED
        BY <1>0, <4>1, <4>2, <4>3 DEF TypeOK
    <3> QED
      BY <1>0, <1>9, <3>1 DEF Handle, TypeOK
  <2> QED
    BY <1>0, <1>9, <2>1 DEF Handle, TypeOK, tabs, bar
<1>10. ASSUME NEW r \in requests, HandleRestore(r) PROVE TypeOK'
  <2>1. [r EXCEPT !.action = "restored"] \in Request
    BY <1>0 DEF TypeOK, Request
  <2> QED
    BY <1>0, <1>10, <2>1 DEF HandleRestore, TypeOK, tabs, bar
<1>11. ASSUME NEW r \in requests, RestoreReply(r) PROVE TypeOK'
  <2>1. r.by \in Widget /\ of[r.by] \in Doc
    BY <1>0 DEF TypeOK, MadeInv, Request
  <2>2. comp' \in [Widget -> Component]
    <3>1. comp \in [Widget -> Component]
      BY <1>0 DEF TypeOK
    <3>2. comp' = [comp EXCEPT ![r.by].toggle = FALSE, ![r.by].first = TRUE]
      BY <1>11 DEF RestoreReply, Closes
    <3> QED
      BY <2>1, <3>1, <3>2 DEF Component
  <2>3. room' \in [Doc -> Doc \cup Fork \cup {None}]
    BY <1>0, <1>11, <2>1 DEF RestoreReply, TypeOK
  <2>4. [r EXCEPT !.action = "returning"] \in Request
    BY <1>0 DEF TypeOK, Request
  <2> QED
    BY <1>0, <1>11, <2>2, <2>3, <2>4 DEF RestoreReply, TypeOK, tabs, bar
<1>12. ASSUME NEW r \in requests, RequestFails(r) \/ ReturnFails(r) PROVE TypeOK'
  BY <1>0, <1>12 DEF RequestFails, ReturnFails, TypeOK, tabs, bar
<1>13. ASSUME NEW r \in requests, Returned(r) PROVE TypeOK'
  <2>1. of[r.by] \in Doc
    BY <1>0 DEF TypeOK, MadeInv, Request
  <2>2. room' \in [Doc -> Doc \cup Fork \cup {None}]
    BY <1>0, <1>13, <2>1 DEF Returned, TypeOK
  <2> QED
    BY <1>0, <1>13, <2>2 DEF Returned, TypeOK, tabs, bar
<1> QED
  BY <1>1, <1>2, <1>3, <1>4, <1>5, <1>7, <1>8, <1>9, <1>10, <1>11, <1>12, <1>13
  DEF Next, Answered, Use, Handled

-----------------------------------------------------------------------------
(* The status bar                                                          *)

LEMMA BarStep ==
  ASSUME IInv, Next
  PROVE  OneSlider' /\ MadeInv'
<1>0. TypeOK /\ OneSlider /\ MadeInv
  BY DEF IInv
<1>1. CASE Tabs
  <2>1. /\ UNCHANGED <<comp, fetches, requests>>
        /\ \/ slider' = None /\ attached' = {} /\ UNCHANGED <<shown, of>>
           \/ \E d \in Doc : Show(d) /\ intruded' = (d # current')
           \/ UNCHANGED <<shown, slider, attached, of, intruded, current>>
    BY <1>0, <1>1, TabsStep DEF server, bar
  <2>2. CASE slider' = None /\ attached' = {} /\ UNCHANGED <<shown, of>>
    BY <1>0, <2>1, <2>2 DEF OneSlider, MadeInv
  <2>3. CASE \E d \in Doc : Show(d) /\ intruded' = (d # current')
    <3>1. PICK d \in Doc : Show(d) /\ intruded' = (d # current')
      BY <2>3
    <3>2. /\ shown' = shown + 1 /\ shown' \in Widget /\ shown \in 0 .. MaxWidgets
          /\ slider' = shown' /\ attached' = {shown'}
          /\ of'[shown'] = d /\ \A w \in Widget : w <= shown => of'[w] = of[w]
      BY <1>0, <3>1, Shown
    <3>3. OneSlider'
      BY <3>1, <3>2 DEF OneSlider, Widget
    <3>4. ASSUME NEW w \in Widget
          PROVE  /\ w <= shown' => of'[w] \in Doc
                 /\ w > shown' => comp'[w] = NewComponent
                 /\ comp'[w].first <=> ~comp'[w].toggle
      <4>1. w <= shown' => w = shown' \/ w <= shown
        BY <3>2 DEF Widget
      <4>2. w > shown' => w > shown
        BY <3>2 DEF Widget
      <4> QED
        BY <1>0, <2>1, <3>2, <4>1, <4>2 DEF MadeInv
    <3>5. ASSUME NEW w \in Widget, w <= shown PROVE w <= shown'
      BY <3>2, <3>5 DEF Widget
    <3>6. (\A f \in fetches' : f.by <= shown') /\ (\A r \in requests' : r.by <= shown')
      BY <1>0, <2>1, <3>5 DEF MadeInv, TypeOK, Fetch, Request
    <3>7. slider' <= shown'
      BY <3>2 DEF Widget
    <3> QED
      BY <3>3, <3>4, <3>6, <3>7 DEF MadeInv
  <2>4. CASE UNCHANGED <<shown, slider, attached, of, intruded, current>>
    BY <1>0, <2>1, <2>4 DEF OneSlider, MadeInv
  <2> QED
    BY <2>1, <2>2, <2>3, <2>4
<1>2. ASSUME UNCHANGED <<tabs, bar>>,
             \A w \in Widget : /\ w > shown => comp'[w] = comp[w]
                               /\ comp'[w].first <=> ~comp'[w].toggle,
             \A f \in fetches' : f.by <= shown, \A r \in requests' : r.by <= shown
      PROVE  OneSlider' /\ MadeInv'
  BY <1>0, <1>2 DEF OneSlider, MadeInv, tabs, bar
<1>3. CASE Click
  <2>1. \A f \in fetches' : f.by <= shown
    BY <1>0, <1>3 DEF Click, Asked, MadeInv
  <2> QED
    BY <1>0, <1>2, <1>3, <2>1 DEF Click, server, MadeInv
<1>4. ASSUME NEW f \in fetches, TimelineReply(f) PROVE OneSlider' /\ MadeInv'
  <2>1. f.by \in Widget /\ f.by <= shown /\ f.by \in Int /\ shown \in Int
    BY <1>0 DEF TypeOK, MadeInv, Fetch, Widget
  <2>2. comp \in [Widget -> Component]
    BY <1>0 DEF TypeOK
  <2>3. comp' = [comp EXCEPT ![f.by].fork = f.fork, ![f.by].index = Versions - 1]
    BY <1>4 DEF TimelineReply, Shows
  <2>4. \A w \in Widget : /\ w # f.by => comp'[w] = comp[w]
                          /\ comp'[w].toggle = comp[w].toggle /\ comp'[w].first = comp[w].first
    BY <2>1, <2>2, <2>3 DEF Component
  <2>5. \A e \in fetches' : e.by <= shown
    BY <1>0, <1>4 DEF TimelineReply, SessionAsked, MadeInv, TypeOK, Fetch
  <2>6. \A w \in Widget : w > shown => w # f.by
    BY <2>1 DEF Widget
  <2> QED
    BY <1>0, <1>2, <1>4, <2>4, <2>5, <2>6 DEF TimelineReply, MadeInv
<1>5. ASSUME NEW w \in Widget, w <= shown, NEW toggle \in BOOLEAN,
             comp' = [comp EXCEPT ![w].toggle = toggle, ![w].first = ~toggle]
      PROVE  \A v \in Widget : /\ v > shown => comp'[v] = comp[v]
                               /\ comp'[v].first <=> ~comp'[v].toggle
  <2>1. comp \in [Widget -> Component]
    BY <1>0 DEF TypeOK
  <2>2. \A v \in Widget : v # w => comp'[v] = comp[v]
    BY <1>5, <2>1
  <2>3. comp'[w].toggle = toggle /\ comp'[w].first = ~toggle
    BY <1>5, <2>1 DEF Component
  <2>4. \A v \in Widget : v > shown => v # w
    BY <1>0, <1>5 DEF Widget, TypeOK
  <2> QED
    BY <1>0, <2>2, <2>3, <2>4 DEF MadeInv
<1>6. ASSUME NEW f \in fetches, SessionReply(f) PROVE OneSlider' /\ MadeInv'
  <2>1. f.by \in Widget /\ f.by <= shown
    BY <1>0 DEF TypeOK, MadeInv, Fetch
  <2>2. comp' = [comp EXCEPT ![f.by].toggle = TRUE, ![f.by].first = ~TRUE]
    BY <1>6 DEF SessionReply
  <2> QED
    BY <1>0, <1>2, <1>5, <1>6, <2>1, <2>2 DEF SessionReply, MadeInv, server
<1>7. ASSUME NEW f \in fetches, FetchFails(f) PROVE OneSlider' /\ MadeInv'
  BY <1>0, <1>2, <1>7 DEF FetchFails, MadeInv, server
<1>8. ASSUME NEW action, NEW steps, Usable, Send(action, steps)
      PROVE  \A r \in requests' : r.by <= shown
  BY <1>0, <1>8 DEF Send, Usable, MadeInv
<1>9. ASSUME NEW v \in Version, Slide(v) PROVE OneSlider' /\ MadeInv'
  <2>1. slider \in Widget /\ slider <= shown /\ slider \in Int /\ shown \in Int
    BY <1>0, <1>9 DEF TypeOK, MadeInv, Slide, Usable, Widget
  <2>2. comp \in [Widget -> Component]
    BY <1>0 DEF TypeOK
  <2>3. comp' = [comp EXCEPT ![slider].index = v, ![slider].button = TRUE]
    BY <1>9 DEF Slide
  <2>4. \A w \in Widget : /\ w # slider => comp'[w] = comp[w]
                          /\ comp'[w].toggle = comp[w].toggle /\ comp'[w].first = comp[w].first
    BY <2>1, <2>2, <2>3 DEF Component
  <2>5. \A r \in requests' : r.by <= shown
    BY <1>8, <1>9 DEF Slide
  <2>6. \A w \in Widget : w > shown => w # slider
    BY <2>1 DEF Widget
  <2> QED
    BY <1>0, <1>2, <1>9, <2>4, <2>5, <2>6 DEF Slide, MadeInv
<1>10. CASE Restore
  <2>1. \A r \in requests' : r.by <= shown
    BY <1>8, <1>10 DEF Restore, Restorable
  <2> QED
    BY <1>0, <1>2, <1>10, <2>1 DEF Restore, MadeInv
<1>11. ASSUME NEW r \in requests,
             Handle(r) \/ HandleRestore(r) \/ Returned(r) \/ ReturnFails(r) \/ RequestFails(r)
       PROVE  OneSlider' /\ MadeInv'
  <2>1. \A q \in requests' : q.by <= shown
    BY <1>0, <1>11
    DEF Handle, HandleRestore, Returned, ReturnFails, RequestFails, MadeInv, TypeOK, Request
  <2> QED
    BY <1>0, <1>2, <1>11, <2>1
    DEF Handle, HandleRestore, Returned, ReturnFails, RequestFails, MadeInv
<1>12. ASSUME NEW r \in requests, RestoreReply(r) PROVE OneSlider' /\ MadeInv'
  <2>1. r.by \in Widget /\ r.by <= shown
    BY <1>0 DEF TypeOK, MadeInv, Request
  <2>2. comp' = [comp EXCEPT ![r.by].toggle = FALSE, ![r.by].first = ~FALSE]
    BY <1>12 DEF RestoreReply, Closes
  <2>3. \A q \in requests' : q.by <= shown
    BY <1>0, <1>12 DEF RestoreReply, MadeInv, TypeOK, Request
  <2> QED
    BY <1>0, <1>2, <1>5, <1>12, <2>1, <2>2, <2>3 DEF RestoreReply, MadeInv
<1> QED
  BY <1>1, <1>3, <1>4, <1>6, <1>7, <1>9, <1>10, <1>11, <1>12 DEF Next, Answered, Use, Handled

-----------------------------------------------------------------------------
(* The document that is shown                                              *)

LEMMA LinkStep ==
  ASSUME IInv, Next
  PROVE  LinkInv'
<1>0. TypeOK /\ OneSlider /\ MadeInv /\ LinkInv
  BY DEF IInv
<1> DEFINE InUse(d) == Usable /\ of[slider] = d
\* What keeps a document linked
<1>a. ASSUME NEW d \in Doc \ rushed, Fetches(d)' \subseteq Fetches(d),
             Restores(d)' \subseteq Restores(d), room'[d] = room[d],
             \A f \in Fetches(d)' : comp'[f.by].fork = comp[f.by].fork,
             InUse(d)' => InUse(d) /\ slider' = slider /\ comp'[slider].fork = comp[slider].fork
      PROVE  Linked(d)'
  <2>1. Linked(d)
    BY <1>0 DEF LinkInv
  <2> QED
    BY <1>a, <2>1 DEF Linked
<1>1. CASE Tabs
  <2>1. /\ UNCHANGED <<comp, fetches, requests, rushed, room>>
        /\ \/ slider' = None /\ attached' = {} /\ UNCHANGED <<shown, of>>
           \/ \E d \in Doc : Show(d)
           \/ UNCHANGED <<slider, of>>
    BY <1>0, <1>1, TabsStep DEF server, bar
  <2>2. /\ \A w \in Widget : w <= shown => of'[w] = of[w]
        /\ \/ slider' = None
           \/ slider' \in Widget /\ slider' > shown
           \/ UNCHANGED <<slider, of>>
    <3>1. ASSUME NEW d \in Doc, Show(d)
          PROVE  /\ \A w \in Widget : w <= shown => of'[w] = of[w]
                 /\ slider' \in Widget /\ slider' > shown
      BY <1>0, <3>1, Shown DEF Widget
    <3> QED
      BY <2>1, <3>1
  <2>3. ASSUME NEW d \in Doc \ rushed PROVE Linked(d)'
    <3>1. Fetches(d)' = Fetches(d)
      BY <1>0, <2>1, <2>2 DEF Fetches, MadeInv, TypeOK, Fetch
    <3>2. Restores(d)' = Restores(d)
      BY <1>0, <2>1, <2>2 DEF Restores, MadeInv, TypeOK, Request
    <3>3. InUse(d)' => InUse(d) /\ slider' = slider
      BY <1>0, <2>1, <2>2 DEF Usable, MadeInv, NewComponent
    <3> QED
      BY <1>a, <2>1, <3>1, <3>2, <3>3
  <2> QED
    BY <2>1, <2>3 DEF LinkInv
<1>2. CASE Click
  <2>1. /\ slider # None /\ comp[slider].first /\ slider \in Widget
        /\ fetches' = fetches \cup {Asked(slider, clicks')}
        /\ rushed' = IF Fetches(of[slider]) \cup Restores(of[slider]) = {} THEN rushed
                     ELSE rushed \cup {of[slider]}
        /\ UNCHANGED <<slider, of, comp, room, requests>>
    BY <1>0, <1>2 DEF Click, TypeOK, bar, server
  <2>2. ~comp[slider].toggle
    BY <1>0, <2>1 DEF MadeInv
  <2>3. \A d \in Doc : Restores(d)' = Restores(d)
    BY <2>1 DEF Restores
  <2>4. ASSUME NEW d \in Doc \ rushed' PROVE Linked(d)'
    <3>1. d \in Doc \ rushed
      BY <2>1
    <3>2. CASE d # of[slider]
      <4>1. Fetches(d)' = Fetches(d)
        BY <2>1, <3>2 DEF Fetches, Asked
      <4> QED
        BY <1>a, <2>1, <2>3, <3>1, <4>1 DEF Usable
    <3>3. CASE d = of[slider]
      <4>1. Fetches(d) = {} /\ Restores(d) = {}
        BY <2>1, <3>3
      <4>2. Fetches(d)' = {Asked(slider, clicks')}
        BY <2>1, <3>3, <4>1 DEF Fetches, Asked
      <4>3. Asked(slider, clicks').stage = "timeline"
        BY DEF Asked
      <4>4. ~Usable'
        BY <2>1, <2>2 DEF Usable
      <4> QED
        BY <2>3, <4>1, <4>2, <4>3, <4>4 DEF Linked
    <3> QED
      BY <3>2, <3>3
  <2> QED
    BY <2>4 DEF LinkInv
<1>3. ASSUME NEW f \in fetches, TimelineReply(f) PROVE LinkInv'
  <2> DEFINE g == SessionAsked(f)
  <2>1. /\ f \in Fetch /\ f.by \in Widget /\ of[f.by] \in Doc
        /\ comp \in [Widget -> Component] /\ room \in [Doc -> Doc \cup Fork \cup {None}]
    BY <1>0 DEF TypeOK, MadeInv, Fetch
  <2>2. g.by = f.by /\ g.fork = f.fork
    BY <2>1 DEF SessionAsked, Fetch
  <2>3. /\ fetches' = (fetches \ {f}) \cup {g}
        /\ room' = [room EXCEPT ![of[f.by]] = f.fork]
        /\ comp' = [comp EXCEPT ![f.by].fork = f.fork, ![f.by].index = Versions - 1]
        /\ UNCHANGED <<slider, of, requests, rushed>>
    BY <1>3 DEF TimelineReply, Shows, bar
  <2>4. /\ \A w \in Widget : w # f.by => comp'[w] = comp[w]
        /\ \A w \in Widget : comp'[w].toggle = comp[w].toggle
        /\ comp'[f.by].fork = f.fork
    BY <2>1, <2>3 DEF Component
  <2>5. \A d \in Doc : Restores(d)' = Restores(d)
    BY <2>3 DEF Restores
  <2>6. \A d \in Doc : InUse(d)' <=> InUse(d)
    BY <1>0, <2>3, <2>4 DEF Usable, TypeOK
  <2>7. ASSUME NEW d \in Doc \ rushed PROVE Linked(d)'
    <3>1. CASE d # of[f.by]
      <4>1. Fetches(d)' = Fetches(d)
        BY <2>2, <2>3, <3>1 DEF Fetches
      <4>2. \A e \in Fetches(d) : e.by \in Widget /\ e.by # f.by
        BY <1>0, <3>1 DEF Fetches, TypeOK, Fetch
      <4>3. InUse(d) => slider \in Widget /\ slider # f.by
        BY <1>0, <3>1 DEF Usable, TypeOK
      <4> QED
        BY <1>a, <2>1, <2>3, <2>4, <2>5, <2>6, <3>1, <4>1, <4>2, <4>3
    <3>2. CASE d = of[f.by]
      <4>1. f \in Fetches(d)
        BY <3>2 DEF Fetches
      <4>2. Fetches(d) = {f} /\ Restores(d) = {} /\ ~InUse(d)
        BY <1>0, <4>1 DEF LinkInv, Linked
      <4>3. Fetches(d)' = {g}
        BY <2>2, <2>3, <3>2, <4>2 DEF Fetches
      <4>4. room'[d] = f.fork
        BY <2>1, <2>3, <3>2
      <4> QED
        BY <2>2, <2>4, <2>5, <2>6, <4>2, <4>3, <4>4 DEF Linked
    <3> QED
      BY <3>1, <3>2
  <2> QED
    BY <2>3, <2>7 DEF LinkInv
<1>4. ASSUME NEW f \in fetches, SessionReply(f) PROVE LinkInv'
  <2>1. f.by \in Widget /\ comp \in [Widget -> Component]
    BY <1>0 DEF TypeOK, Fetch
  <2>2. /\ f.stage = "session" /\ fetches' = fetches \ {f}
        /\ comp' = [comp EXCEPT ![f.by].toggle = TRUE, ![f.by].first = FALSE]
        /\ UNCHANGED <<slider, of, requests, rushed, room>>
    BY <1>4 DEF SessionReply, bar, server
  <2>3. /\ \A w \in Widget : w # f.by => comp'[w] = comp[w]
        /\ \A w \in Widget : comp'[w].fork = comp[w].fork
    BY <2>1, <2>2 DEF Component
  <2>4. \A d \in Doc : Restores(d)' = Restores(d) /\ Fetches(d)' = Fetches(d) \ {f}
    BY <2>2 DEF Restores, Fetches
  <2>5. ASSUME NEW d \in Doc \ rushed PROVE Linked(d)'
    <3>1. \A e \in Fetches(d) : e.by \in Widget
      BY <1>0 DEF Fetches, TypeOK, Fetch
    <3>2. CASE d # of[f.by]
      <4>1. InUse(d)' => InUse(d)
        BY <1>0, <2>2, <2>3, <3>2 DEF Usable, TypeOK
      <4>2. InUse(d) => slider \in Widget
        BY <1>0 DEF Usable, TypeOK
      <4> QED
        BY <1>a, <2>2, <2>3, <2>4, <3>1, <4>1, <4>2
    <3>3. CASE d = of[f.by]
      <4>1. f \in Fetches(d)
        BY <3>3 DEF Fetches
      <4>2. Fetches(d) = {f} /\ Restores(d) = {} /\ room[d] = f.fork /\ comp[f.by].fork = f.fork
            /\ ~InUse(d)
        BY <1>0, <2>2, <4>1 DEF LinkInv, Linked
      <4>3. Fetches(d)' = {} /\ Restores(d)' = {}
        BY <2>4, <4>2
      <4>4. InUse(d)' => slider' = f.by
        BY <1>0, <2>2, <2>3, <4>2 DEF Usable, TypeOK
      <4>5. InUse(d)' => room'[d] = comp'[slider'].fork
        BY <2>1, <2>2, <2>3, <4>2, <4>4
      <4> QED
        BY <4>3, <4>5 DEF Linked
    <3> QED
      BY <3>2, <3>3
  <2> QED
    BY <2>2, <2>5 DEF LinkInv
<1>5. ASSUME NEW f \in fetches, FetchFails(f) PROVE LinkInv'
  <2>1. /\ fetches' = fetches \ {f} /\ UNCHANGED <<slider, of, comp, requests, rushed, room>>
    BY <1>5 DEF FetchFails, bar, server
  <2>2. \A d \in Doc : Restores(d)' = Restores(d) /\ Fetches(d)' \subseteq Fetches(d)
    BY <2>1 DEF Restores, Fetches
  <2> QED
    BY <1>a, <2>1, <2>2 DEF LinkInv, Usable
<1>6. ASSUME NEW v \in Version, Slide(v) PROVE LinkInv'
  <2>1. slider \in Widget /\ comp \in [Widget -> Component]
    BY <1>0, <1>6 DEF TypeOK, Slide, Usable
  <2> DEFINE action == Action(v, comp[slider].index)
  <2> DEFINE steps == Steps(v, comp[slider].index)
  <2> DEFINE r == [id |-> sent', by |-> slider, fork |-> comp[slider].fork,
                   action |-> action, steps |-> steps]
  <2>2. /\ comp' = [comp EXCEPT ![slider].index = v, ![slider].button = TRUE]
        /\ UNCHANGED <<slider, of, fetches, rushed, room>>
        /\ requests' = requests \cup {r} /\ r.action \notin Returning
    <3>1. Action(v, comp[slider].index) \notin Returning
      BY DEF Action, Returning
    <3> QED
      BY <1>6, <3>1 DEF Slide, Send, bar
  <2> HIDE DEF r
  <2>3. \A w \in Widget : comp'[w].toggle = comp[w].toggle /\ comp'[w].fork = comp[w].fork
    BY <2>1, <2>2 DEF Component
  <2>4. \A d \in Doc : Restores(d)' = Restores(d) /\ Fetches(d)' = Fetches(d)
    BY <2>2 DEF Restores, Fetches
  <2>5. ASSUME NEW d \in Doc \ rushed PROVE Linked(d)'
    <3>1. \A e \in Fetches(d) : e.by \in Widget
      BY <1>0 DEF Fetches, TypeOK, Fetch
    <3>2. InUse(d)' => InUse(d)
      BY <2>1, <2>2, <2>3 DEF Usable
    <3> QED
      BY <1>a, <2>1, <2>2, <2>3, <2>4, <3>1, <3>2
  <2> QED
    BY <2>2, <2>5 DEF LinkInv
<1>7. CASE Restore
  <2> DEFINE new == [id |-> sent', by |-> slider, fork |-> comp[slider].fork,
                     action |-> "restore", steps |-> 0]
  <2>1. /\ Usable /\ UNCHANGED <<slider, of, comp, fetches, rushed, room>>
        /\ requests' = requests \cup {new} /\ new.by = slider /\ new.action = "restore"
    BY <1>7 DEF Restore, Restorable, Send, bar
  <2> HIDE DEF new
  <2>2. \A d \in Doc : Fetches(d)' = Fetches(d)
    BY <2>1 DEF Fetches
  <2>3. ASSUME NEW d \in Doc \ rushed PROVE Linked(d)'
    <3>1. CASE d # of[slider]
      <4>1. Restores(d)' = Restores(d)
        BY <2>1, <3>1 DEF Restores
      <4> QED
        BY <1>a, <2>1, <2>2, <4>1 DEF Usable
    <3>2. CASE d = of[slider]
      <4>1. Linked(d)
        BY <1>0 DEF LinkInv
      <4>2. \A r \in Restores(d)' : r \in Restores(d) \/ (r.by = slider /\ r.action = "restore")
        BY <2>1, <3>2 DEF Restores
      <4>3. Fetches(d) = {}
        BY <2>1, <3>2, <4>1 DEF Linked
      <4> QED
        BY <2>1, <2>2, <3>2, <4>1, <4>2, <4>3 DEF Linked, Usable
    <3> QED
      BY <3>1, <3>2
  <2> QED
    BY <2>1, <2>3 DEF LinkInv
<1>8. ASSUME NEW r \in requests, Handle(r) \/ ReturnFails(r) \/ RequestFails(r) PROVE LinkInv'
  <2>1. /\ requests' \subseteq requests /\ UNCHANGED <<slider, of, comp, fetches, rushed, room>>
    BY <1>8 DEF Handle, ReturnFails, RequestFails, bar
  <2>2. \A d \in Doc : Restores(d)' \subseteq Restores(d) /\ Fetches(d)' = Fetches(d)
    BY <2>1 DEF Restores, Fetches
  <2> QED
    BY <1>a, <2>1, <2>2 DEF LinkInv, Usable
<1>9. ASSUME NEW r \in requests, HandleRestore(r) PROVE LinkInv'
  <2> DEFINE q == [r EXCEPT !.action = "restored"]
  <2>1. /\ requests' = (requests \ {r}) \cup {q} /\ r.action = "restore"
        /\ UNCHANGED <<slider, of, comp, fetches, rushed, room>>
    BY <1>9 DEF HandleRestore, bar
  <2>2. q.by = r.by /\ q.action = "restored"
    BY <1>0 DEF TypeOK, Request
  <2>3. \A d \in Doc : Fetches(d)' = Fetches(d)
    BY <2>1 DEF Fetches
  <2>4. ASSUME NEW d \in Doc \ rushed PROVE Linked(d)'
    <3>1. Linked(d)
      BY <1>0 DEF LinkInv
    <3> HIDE DEF q
    <3>2. \A p \in Restores(d)' :
            p \in Restores(d) \/ (p.action = "restored" /\ \E o \in Restores(d) : o.by = p.by)
      BY <2>1, <2>2 DEF Restores, Returning
    <3> QED
      BY <2>1, <2>3, <3>1, <3>2 DEF Linked, Usable
  <2> QED
    BY <2>1, <2>4 DEF LinkInv
<1>10. ASSUME NEW r \in requests, RestoreReply(r) PROVE LinkInv'
  <2>1. /\ r.by \in Widget /\ of[r.by] \in Doc
        /\ comp \in [Widget -> Component] /\ room \in [Doc -> Doc \cup Fork \cup {None}]
    BY <1>0 DEF TypeOK, MadeInv, Request
  <2> DEFINE q == [r EXCEPT !.action = "returning"]
  <2>2. /\ r.action = "restored" /\ requests' = (requests \ {r}) \cup {q}
        /\ room' = [room EXCEPT ![of[r.by]] = None]
        /\ comp' = [comp EXCEPT ![r.by].toggle = FALSE, ![r.by].first = TRUE]
        /\ UNCHANGED <<slider, of, fetches, rushed>>
    BY <1>10 DEF RestoreReply, Closes, bar
  <2>3. /\ \A w \in Widget : w # r.by => comp'[w] = comp[w]
        /\ \A w \in Widget : comp'[w].fork = comp[w].fork
        /\ ~comp'[r.by].toggle
    BY <2>1, <2>2 DEF Component
  <2>a. q.by = r.by
    BY <1>0 DEF TypeOK, Request
  <2> HIDE DEF q
  <2>4. \A d \in Doc : /\ d # of[r.by] => Restores(d)' \subseteq Restores(d)
                      /\ Fetches(d)' = Fetches(d)
    BY <2>2, <2>a DEF Restores, Fetches
  <2>5. ASSUME NEW d \in Doc \ rushed PROVE Linked(d)'
    <3>1. \A e \in Fetches(d) : e.by \in Widget
      BY <1>0 DEF Fetches, TypeOK, Fetch
    <3>2. InUse(d)' => InUse(d) /\ slider \in Widget /\ slider # r.by
      BY <1>0, <2>2, <2>3 DEF Usable, TypeOK
    <3>3. CASE d # of[r.by]
      BY <1>a, <2>1, <2>2, <2>3, <2>4, <3>1, <3>2, <3>3
    <3>4. CASE d = of[r.by]
      <4>1. r \in Restores(d)
        BY <2>2, <3>4 DEF Restores, Returning
      <4>2. Fetches(d) = {} /\ (InUse(d) => r.by = slider)
        BY <1>0, <4>1 DEF LinkInv, Linked
      <4> QED
        BY <2>4, <3>2, <4>2 DEF Linked
    <3> QED
      BY <3>3, <3>4
  <2> QED
    BY <2>2, <2>5 DEF LinkInv
<1>11. ASSUME NEW r \in requests, Returned(r) PROVE LinkInv'
  <2>1. /\ of[r.by] \in Doc /\ room \in [Doc -> Doc \cup Fork \cup {None}]
    BY <1>0 DEF TypeOK, MadeInv, Request
  <2>2. /\ r.action = "returning" /\ requests' = requests \ {r}
        /\ room' = [room EXCEPT ![of[r.by]] = of[r.by]]
        /\ UNCHANGED <<slider, of, comp, fetches, rushed>>
    BY <1>11 DEF Returned, bar
  <2>3. \A d \in Doc : Restores(d)' \subseteq Restores(d) /\ Fetches(d)' = Fetches(d)
    BY <2>2 DEF Restores, Fetches
  <2>4. ASSUME NEW d \in Doc \ rushed PROVE Linked(d)'
    <3>1. CASE d # of[r.by]
      BY <1>a, <2>1, <2>2, <2>3, <3>1 DEF Usable
    <3>2. CASE d = of[r.by]
      <4>1. r \in Restores(d)
        BY <2>2, <3>2 DEF Restores, Returning
      <4>2. Fetches(d) = {} /\ ~InUse(d)
        BY <1>0, <2>2, <4>1 DEF LinkInv, Linked
      <4> QED
        BY <2>2, <2>3, <4>2 DEF Linked, Usable
    <3> QED
      BY <3>1, <3>2
  <2> QED
    BY <2>2, <2>4 DEF LinkInv
<1> QED
  BY <1>1, <1>2, <1>3, <1>4, <1>5, <1>6, <1>7, <1>8, <1>9, <1>10, <1>11
  DEF Next, Answered, Use, Handled

-----------------------------------------------------------------------------
(* The forks of the sliders                                                *)

\* What a step may do to the sliders and leave a fork's as it is
SameForks == \A w \in Widget : comp'[w].fork = comp[w].fork
SamePlaces == \A w \in Widget : comp'[w].fork = comp[w].fork /\ comp'[w].index = comp[w].index

\* What is known of numbers, here and after
LEMMA ForkTypes ==
  ASSUME TypeOK
  PROVE  /\ sent \in Nat /\ clicks \in Nat /\ None \notin Fork
         /\ \A g \in Fork : g \in Nat
         /\ \A f \in fetches : f \in Fetch /\ f.by \in Widget /\ f.fork \in Fork /\ f.fork \in Nat
         /\ \A r \in requests : r \in Request /\ r.id \in Nat /\ r.id > 0 /\ r.steps \in Version
         /\ \A w \in Widget : comp[w] \in Component
BY DEF TypeOK, Fork, Fetch, Request

\* A step that takes no new fork, and sends nothing, keeps what is known of the forks.
LEMMA ForksKept ==
  ASSUME TypeOK, ForkInv, UNCHANGED <<sent, clicks>>, SameForks, fetches' \subseteq fetches,
         \A r \in requests' : \E q \in requests : q.id = r.id /\ q.fork = r.fork,
         \A q, r \in requests' : q.id = r.id => q = r,
         \A g \in Fork : Unused(g) => pos'[g] = pos[g]
  PROVE  ForkInv'
<1>1. \A g \in Fork : Unused(g) => Unused(g)'
  BY DEF Unused, SameForks
<1>2. \A r \in requests' : r.id <= sent'
  BY DEF ForkInv
<1>3. \A w, x \in Widget : comp'[w].fork = comp'[x].fork => w = x \/ comp'[w].fork = None
  BY DEF ForkInv, SameForks
<1>4. \A f \in fetches : f.fork \in Fork
  BY ForkTypes
<1> QED
  BY <1>1, <1>2, <1>3, <1>4 DEF ForkInv

LEMMA ForkSent ==
  ASSUME TypeOK, ForkInv, NEW action, NEW steps, Usable, Send(action, steps), SameForks,
         UNCHANGED <<clicks, fetches>>
  PROVE  ForkInv'
<1> DEFINE new == [id |-> sent', by |-> slider, fork |-> comp[slider].fork, action |-> action, steps |-> steps]
<1>1. /\ sent' = sent + 1 /\ requests' = requests \cup {new} /\ pos' = pos /\ slider \in Widget
      /\ new.id = sent + 1 /\ new.fork = comp[slider].fork
  BY DEF Send, Usable, TypeOK
<1> HIDE DEF new
<1>2. \A r \in requests : r.id <= sent /\ r.id <= sent + 1 /\ r.id # sent + 1
  BY ForkTypes DEF ForkInv
<1>3. \A g \in Fork : Unused(g) => Unused(g)'
  BY <1>1 DEF Unused, SameForks
<1>4. \A r \in requests' : r.id <= sent' /\ \A q \in requests' : q.id = r.id => q = r
  <2>1. sent + 1 <= sent'
    BY <1>1, ForkTypes
  <2> QED
    BY <1>1, <1>2, <2>1 DEF ForkInv
<1>5. \A w, x \in Widget : comp'[w].fork = comp'[x].fork => w = x \/ comp'[w].fork = None
  BY DEF ForkInv, SameForks
<1>6. \A f \in fetches : f.fork \in Fork
  BY ForkTypes
<1> QED
  BY <1>3, <1>4, <1>5, <1>6 DEF ForkInv

\* A slider that is moved keeps its fork.
LEMMA SlideEffect ==
  ASSUME TypeOK, NEW v \in Version, Slide(v)
  PROVE  /\ slider \in Widget /\ comp'[slider].fork = comp[slider].fork /\ comp'[slider].index = v
         /\ \A w \in Widget : w # slider => comp'[w] = comp[w]
<1>1. slider \in Widget /\ comp \in [Widget -> Component]
  BY DEF TypeOK, Slide, Usable
<1>2. comp' = [comp EXCEPT ![slider].index = v, ![slider].button = TRUE]
  BY DEF Slide
<1> QED
  BY <1>1, <1>2 DEF Component

\* So does one that becomes usable, or closes.
LEMMA ToggleEffect ==
  ASSUME TypeOK, NEW w \in Widget, NEW toggle \in BOOLEAN,
         comp' = [comp EXCEPT ![w].toggle = toggle, ![w].first = ~toggle]
  PROVE  SamePlaces
<1>1. comp \in [Widget -> Component]
  BY DEF TypeOK
<1> QED
  BY <1>1 DEF Component, SamePlaces

LEMMA ReplyEffect ==
  ASSUME TypeOK, NEW f \in fetches, TimelineReply(f)
  PROVE  /\ f.by \in Widget /\ comp'[f.by].fork = f.fork /\ comp'[f.by].index = Versions - 1
         /\ \A w \in Widget : w # f.by => comp'[w] = comp[w]
<1>1. f.by \in Widget /\ comp \in [Widget -> Component]
  BY DEF TypeOK, Fetch
<1>2. comp' = [comp EXCEPT ![f.by].fork = f.fork, ![f.by].index = Versions - 1]
  BY DEF TimelineReply, Shows
<1> QED
  BY <1>1, <1>2 DEF Component

LEMMA ForkStep ==
  ASSUME IInv, Next
  PROVE  ForkInv'
<1>0. TypeOK /\ OneSlider /\ MadeInv /\ ForkInv
  BY DEF IInv
<1>a. \A q, r \in requests : q.id = r.id => q = r
  BY <1>0 DEF ForkInv
<1>1. CASE Tabs
  <2>1. UNCHANGED <<comp, clicks, fetches, sent, requests, pos>>
    BY <1>0, <1>1, TabsStep DEF server
  <2> QED
    BY <1>0, <1>a, <2>1, ForksKept DEF SameForks
<1>2. CASE Click
  <2> DEFINE new == Asked(slider, clicks + 1)
  <2>1. /\ clicks' = clicks + 1 /\ fetches' = fetches \cup {new} /\ clicks + 1 \in Fork
        /\ UNCHANGED <<comp, sent, requests, pos>>
    BY <1>0, <1>2 DEF Click, TypeOK, Fork, server
  <2>2. new.fork = clicks + 1
    BY DEF Asked
  <2> HIDE DEF new
  <2>3. \A g : Unused(g)' <=> Unused(g)
    BY <2>1 DEF Unused
  <2>4. Unused(clicks + 1) /\ \A g \in Fork : g > clicks + 1 => Unused(g)
    <3>1. clicks + 1 > clicks /\ \A g \in Fork : g > clicks + 1 => g > clicks
      BY <1>0, ForkTypes
    <3> QED
      BY <1>0, <2>1, <3>1 DEF ForkInv
  <2>5. clicks + 1 <= clicks' /\ \A f \in fetches : f.fork # clicks + 1 /\ f.fork <= clicks'
    <3>1. \A f \in fetches : f.fork <= clicks /\ f.fork \in Nat
      BY <1>0, ForkTypes DEF ForkInv
    <3> QED
      BY <1>0, <2>1, <3>1, ForkTypes
  <2>6. ASSUME NEW f \in fetches'
        PROVE  /\ f.fork <= clicks'
               /\ f.stage = "timeline" =>
                    Unused(f.fork) /\ \A e \in fetches' : e.stage = "timeline" /\ e.fork = f.fork => e = f
    BY <1>0, <2>1, <2>2, <2>4, <2>5 DEF ForkInv
  <2>7. /\ \A r \in requests' : r.id <= sent' /\ \A q \in requests' : q.id = r.id => q = r
        /\ \A w, x \in Widget : comp'[w].fork = comp'[x].fork => w = x \/ comp'[w].fork = None
    BY <1>0, <2>1 DEF ForkInv
  <2> QED
    BY <2>1, <2>3, <2>4, <2>6, <2>7 DEF ForkInv
<1>3. ASSUME NEW f \in fetches, TimelineReply(f) PROVE ForkInv'
  <2>1. /\ f.by \in Widget /\ comp'[f.by].fork = f.fork
        /\ \A w \in Widget : w # f.by => comp'[w] = comp[w]
    BY <1>0, <1>3, ReplyEffect
  <2>2. /\ f.stage = "timeline" /\ fetches' = (fetches \ {f}) \cup {SessionAsked(f)}
        /\ UNCHANGED <<clicks, sent, requests, pos>>
    BY <1>3 DEF TimelineReply
  <2>3. SessionAsked(f).stage = "session" /\ SessionAsked(f).fork = f.fork
    BY <1>0, ForkTypes DEF SessionAsked, Fetch
  <2>4. Unused(f.fork) /\ f.fork <= clicks /\ f.fork \in Fork
    BY <1>0, <2>2, ForkTypes DEF ForkInv
  <2>5. \A g \in Fork : Unused(g) /\ g # f.fork => Unused(g)'
    BY <2>1, <2>2 DEF Unused
  <2>6. \A w, x \in Widget : comp'[w].fork = comp'[x].fork => w = x \/ comp'[w].fork = None
    BY <1>0, <2>1, <2>4 DEF ForkInv, Unused
  <2>7. \A g \in Fork : g > clicks' => Unused(g)'
    <3>1. \A g \in Fork : g > clicks => g # f.fork
      BY <1>0, <2>4, ForkTypes
    <3> QED
      BY <1>0, <2>2, <2>5, <3>1 DEF ForkInv
  <2>8. \A e \in fetches : e.stage = "timeline" /\ e # f => e.fork \in Fork /\ e.fork # f.fork /\ Unused(e.fork)
    BY <1>0, <2>2, ForkTypes DEF ForkInv
  <2>9. ASSUME NEW e \in fetches'
        PROVE  /\ e.fork <= clicks'
               /\ e.stage = "timeline" =>
                    Unused(e.fork)' /\ \A b \in fetches' : b.stage = "timeline" /\ b.fork = e.fork => b = e
    <3>1. CASE e = SessionAsked(f)
      BY <2>2, <2>3, <2>4, <3>1
    <3>2. CASE e # SessionAsked(f)
      <4>1. e \in fetches /\ e # f
        BY <2>2, <3>2
      <4>2. e.fork <= clicks
        BY <1>0, <4>1 DEF ForkInv
      <4>3. ASSUME e.stage = "timeline", NEW b \in fetches', b.stage = "timeline", b.fork = e.fork PROVE b = e
        <5>1. b \in fetches
          BY <2>2, <2>3, <4>3
        <5> QED
          BY <1>0, <4>1, <4>3, <5>1 DEF ForkInv
      <4> QED
        BY <2>2, <2>5, <2>8, <4>1, <4>2, <4>3
    <3> QED
      BY <3>1, <3>2
  <2>10. \A r \in requests' : r.id <= sent' /\ \A q \in requests' : q.id = r.id => q = r
    BY <1>0, <2>2 DEF ForkInv
  <2> QED
    BY <2>6, <2>7, <2>9, <2>10 DEF ForkInv
<1>4. ASSUME NEW f \in fetches, SessionReply(f) PROVE ForkInv'
  <2>1. f.by \in Widget /\ comp' = [comp EXCEPT ![f.by].toggle = TRUE, ![f.by].first = ~TRUE]
    BY <1>0, <1>4, ForkTypes DEF SessionReply
  <2>2. SameForks
    BY <1>0, <2>1, ToggleEffect DEF SameForks, SamePlaces
  <2> QED
    BY <1>0, <1>4, <1>a, <2>2, ForksKept DEF SessionReply, server
<1>5. ASSUME NEW f \in fetches, FetchFails(f) PROVE ForkInv'
  BY <1>0, <1>5, <1>a, ForksKept DEF FetchFails, server, SameForks
<1>6. ASSUME NEW v \in Version, Slide(v) PROVE ForkInv'
  <2>1. SameForks
    BY <1>0, <1>6, SlideEffect DEF SameForks
  <2> QED
    BY <1>0, <1>6, <2>1, ForkSent DEF Slide
<1>7. CASE Restore
  BY <1>0, <1>7, ForkSent DEF Restore, Restorable, SameForks
<1>8. ASSUME NEW r \in requests, Handle(r) PROVE ForkInv'
  <2>1. /\ requests' = requests \ {r} /\ UNCHANGED <<comp, clicks, fetches, sent>>
        /\ pos' = IF r.fork \in forks THEN [pos EXCEPT ![r.fork] = Moved(@, r)] ELSE pos
    BY <1>8 DEF Handle
  <2>2. \A g \in Fork : Unused(g) => g # r.fork
    BY DEF Unused
  <2>3. \A g \in Fork : Unused(g) => pos'[g] = pos[g]
    BY <1>0, <2>1, <2>2 DEF TypeOK
  <2> QED
    BY <1>0, <1>a, <2>1, <2>3, ForksKept DEF SameForks
<1>9. ASSUME NEW r \in requests, HandleRestore(r) PROVE ForkInv'
  <2>0. PICK b : b = [r EXCEPT !.action = "restored"]
    OBVIOUS
  <2>1. requests' = (requests \ {r}) \cup {b} /\ UNCHANGED <<comp, clicks, fetches, sent, pos>>
    BY <1>9, <2>0 DEF HandleRestore
  <2>2. b.id = r.id /\ b.fork = r.fork
    BY <1>0, <2>0, ForkTypes DEF Request
  <2> QED
    BY <1>0, <1>a, <2>1, <2>2, ForksKept DEF SameForks
<1>10. ASSUME NEW r \in requests, RestoreReply(r) PROVE ForkInv'
  <2>1. r.by \in Widget /\ comp' = [comp EXCEPT ![r.by].toggle = FALSE, ![r.by].first = ~FALSE]
    BY <1>0, <1>10, ForkTypes DEF RestoreReply, Closes, Request
  <2>2. SameForks
    BY <1>0, <2>1, ToggleEffect DEF SameForks, SamePlaces
  <2>3. PICK b : b = [r EXCEPT !.action = "returning"]
    OBVIOUS
  <2>4. requests' = (requests \ {r}) \cup {b} /\ UNCHANGED <<clicks, fetches, sent, pos>>
    BY <1>10, <2>3 DEF RestoreReply
  <2>5. b.id = r.id /\ b.fork = r.fork
    BY <1>0, <2>3, ForkTypes DEF Request
  <2> QED
    BY <1>0, <1>a, <2>2, <2>4, <2>5, ForksKept
<1>11. ASSUME NEW r \in requests, Returned(r) \/ ReturnFails(r) \/ RequestFails(r) PROVE ForkInv'
  BY <1>0, <1>11, <1>a, ForksKept DEF Returned, ReturnFails, RequestFails, SameForks
<1> QED
  BY <1>1, <1>2, <1>3, <1>4, <1>5, <1>6, <1>7, <1>8, <1>9, <1>10, <1>11
  DEF Next, Answered, Use, Handled

-----------------------------------------------------------------------------
(* The place of a slider and that of its fork                              *)

Moves(r) == r.action \in {"undo", "redo"}

\* Leads, after a step
ThenLeads(at, f, v) ==
  /\ at[0] = pos'[f] /\ at[sent'] = v
  /\ \A n \in 1 .. sent' :
       IF \E r \in requests' : r.fork = f /\ r.id = n
       THEN \A r \in requests' : r.fork = f /\ r.id = n => Takes(r, at[n - 1], at[n])
       ELSE at[n] = at[n - 1]

LEMMA InStepThen ==
  ASSUME \A w \in Widget :
           comp'[w].fork \in orderly' =>
             \E at \in [0 .. sent' -> Version] : ThenLeads(at, comp'[w].fork, comp'[w].index)
  PROVE  InStep'
BY DEF InStep, Leads, ThenLeads

\* A request that moves nothing may come, go or be answered, and one for a fork that is out
\* of step too.
LEMMA StepKept ==
  ASSUME InStep, UNCHANGED <<sent, pos>>, SamePlaces, orderly' \subseteq orderly,
         \A r \in requests : r \in requests' \/ r.fork \notin orderly' \/ ~Moves(r),
         \A r \in requests' : r \in requests \/
           (~Moves(r) /\ \E q \in requests : q.id = r.id /\ q.fork = r.fork /\ ~Moves(q))
  PROVE  InStep'
<1>1. ASSUME NEW w \in Widget, comp'[w].fork \in orderly'
      PROVE  \E at \in [0 .. sent' -> Version] : ThenLeads(at, comp'[w].fork, comp'[w].index)
  <2> DEFINE f == comp[w].fork
  <2>1. f = comp'[w].fork /\ comp'[w].index = comp[w].index /\ f \in orderly
    BY <1>1 DEF SamePlaces
  <2>2. PICK at \in [0 .. sent -> Version] : Leads(at, f, comp[w].index)
    BY <2>1 DEF InStep
  <2> HIDE DEF f
  <2>3. at[0] = pos'[f] /\ at[sent'] = comp'[w].index
    BY <2>1, <2>2 DEF Leads
  <2>4. ASSUME NEW n \in 1 .. sent, NEW r \in requests', r.fork = f, r.id = n
        PROVE  Takes(r, at[n - 1], at[n])
    <3>1. CASE r \in requests
      BY <2>2, <2>4, <3>1 DEF Leads
    <3>2. CASE r \notin requests
      <4>1. PICK q \in requests : q.id = n /\ q.fork = f /\ ~Moves(q)
        BY <2>4, <3>2
      <4>2. Takes(q, at[n - 1], at[n]) /\ ~Moves(r)
        BY <2>2, <2>4, <3>2, <4>1 DEF Leads
      <4> QED
        BY <4>1, <4>2 DEF Takes, Moves
    <3> QED
      BY <3>1, <3>2
  <2>5. ASSUME NEW n \in 1 .. sent, ~\E r \in requests' : r.fork = f /\ r.id = n
        PROVE  at[n] = at[n - 1]
    <3>1. CASE \E q \in requests : q.fork = f /\ q.id = n
      <4>1. PICK q \in requests : q.fork = f /\ q.id = n
        BY <3>1
      <4>2. ~Moves(q)
        BY <1>1, <2>1, <2>5, <4>1
      <4>3. Takes(q, at[n - 1], at[n])
        BY <2>2, <4>1 DEF Leads
      <4> QED
        BY <4>2, <4>3 DEF Takes, Moves
    <3>2. CASE ~\E q \in requests : q.fork = f /\ q.id = n
      BY <2>2, <3>2 DEF Leads
    <3> QED
      BY <3>1, <3>2
  <2>6. ThenLeads(at, f, comp'[w].index)
    BY <2>3, <2>4, <2>5 DEF ThenLeads
  <2> QED
    BY <2>1, <2>2, <2>6
<1> QED
  BY <1>1, InStepThen

\* The steps of a move take the slider's version to the one chosen.
LEMMA SlideTakes ==
  ASSUME NEW v \in Version, NEW index \in Version, NEW r,
         r.action = Action(v, index), r.steps = Steps(v, index)
  PROVE  Takes(r, index, v)
<1>1. v \in Int /\ index \in Int
  BY DEF Version
<1> QED
  BY <1>1 DEF Takes, Action, Steps

\* A request is sent that takes the slider's fork where the slider is now.
LEMMA StepSent ==
  ASSUME TypeOK, TypeOK', ForkInv, InStep, Usable, SameForks, NEW action, NEW steps, Send(action, steps),
         \A w \in Widget : w # slider => comp'[w] = comp[w],
         \A r : r.action = action /\ r.steps = steps => Takes(r, comp[slider].index, comp'[slider].index)
  PROVE  InStep'
<1> DEFINE new == [id |-> sent', by |-> slider, fork |-> comp[slider].fork, action |-> action, steps |-> steps]
<1>1. /\ sent' = sent + 1 /\ requests' = requests \cup {new} /\ UNCHANGED <<pos, orderly>>
      /\ slider \in Widget /\ sent \in Nat
      /\ new.id = sent + 1 /\ new.fork = comp[slider].fork
      /\ Takes(new, comp[slider].index, comp'[slider].index)
  BY ForkTypes DEF Send, Usable, TypeOK
<1> HIDE DEF new
<1>2. \A r \in requests : r.id # sent + 1
  BY ForkTypes DEF ForkInv
<1>3. ASSUME NEW w \in Widget, comp'[w].fork \in orderly'
      PROVE  \E at \in [0 .. sent' -> Version] : ThenLeads(at, comp'[w].fork, comp'[w].index)
  <2>0. PICK f : f = comp[w].fork
    OBVIOUS
  <2>1. f = comp'[w].fork /\ f \in orderly /\ f # None
    BY <1>1, <1>3, <2>0, ForkTypes DEF SameForks, TypeOK
  <2>2. PICK at \in [0 .. sent -> Version] : Leads(at, f, comp[w].index)
    BY <2>0, <2>1 DEF InStep
  <2>3. PICK v : v = comp'[w].index
    OBVIOUS
  <2>4. v \in Version
    BY <2>3 DEF TypeOK, Component
  <2> DEFINE then == [n \in 0 .. sent + 1 |-> IF n <= sent THEN at[n] ELSE v]
  <2>5. then \in [0 .. sent' -> Version]
    BY <1>1, <2>2, <2>4
  <2>6. /\ \A n \in 0 .. sent : then[n] = at[n]
        /\ then[sent + 1] = v /\ then[0] = at[0]
    BY <1>1
  <2> HIDE DEF then
  <2>7. at[0] = pos[f] /\ at[sent] = comp[w].index
    BY <2>2 DEF Leads
  <2>8. ASSUME NEW n \in 1 .. sent
        PROVE  IF \E r \in requests' : r.fork = f /\ r.id = n
               THEN \A r \in requests' : r.fork = f /\ r.id = n => Takes(r, then[n - 1], then[n])
               ELSE then[n] = then[n - 1]
    <3>1. n - 1 \in 0 .. sent /\ n \in 0 .. sent /\ n # sent + 1
      BY <1>1
    <3>2. \A r \in requests' : r.id = n => r \in requests
      BY <1>1, <3>1
    <3>3. requests \subseteq requests' /\ then[n] = at[n] /\ then[n - 1] = at[n - 1]
      BY <1>1, <2>6, <3>1
    <3> QED
      BY <2>2, <3>2, <3>3 DEF Leads
  <2>9. IF \E r \in requests' : r.fork = f /\ r.id = sent + 1
        THEN \A r \in requests' : r.fork = f /\ r.id = sent + 1 => Takes(r, at[sent], v)
        ELSE v = at[sent]
    <3>1. CASE w = slider
      BY <1>1, <1>2, <2>0, <2>3, <2>7, <3>1
    <3>2. CASE w # slider
      <4>1. new.fork # f
        BY <1>1, <2>0, <2>1, <3>2 DEF ForkInv
      <4>2. v = comp[w].index
        BY <2>3, <3>2
      <4> QED
        BY <1>1, <1>2, <2>7, <4>1, <4>2
    <3> QED
      BY <3>1, <3>2
  <2>10. /\ then[0] = pos'[f] /\ then[sent'] = v
    BY <1>1, <2>6, <2>7
  <2>11. ASSUME NEW n \in 1 .. sent'
         PROVE  IF \E r \in requests' : r.fork = f /\ r.id = n
                THEN \A r \in requests' : r.fork = f /\ r.id = n => Takes(r, then[n - 1], then[n])
                ELSE then[n] = then[n - 1]
    <3>1. CASE n \in 1 .. sent
      BY <2>8, <3>1
    <3>2. CASE n = sent + 1
      <4>1. n - 1 = sent /\ then[n - 1] = at[sent] /\ then[n] = v
        BY <1>1, <2>6, <3>2
      <4> QED
        BY <2>9, <3>2, <4>1
    <3> QED
      BY <1>1, <3>1, <3>2
  <2>12. ThenLeads(then, f, v)
    BY <2>10, <2>11 DEF ThenLeads
  <2> QED
    BY <2>1, <2>3, <2>5, <2>12
<1> QED
  BY <1>3, InStepThen

\* A timeline has come: its fork is at the last version, and nothing is on its way to it.
LEMMA StepReply ==
  ASSUME TypeOK, ForkInv, InStep, NEW f \in fetches, TimelineReply(f)
  PROVE  InStep'
<1>1. /\ f.by \in Widget /\ comp'[f.by].fork = f.fork /\ comp'[f.by].index = Versions - 1
      /\ \A w \in Widget : w # f.by => comp'[w] = comp[w]
  BY ReplyEffect
<1>2. UNCHANGED <<sent, requests, pos, orderly>> /\ Unused(f.fork)
  BY DEF TimelineReply, ForkInv
<1>3. ASSUME NEW w \in Widget, comp'[w].fork \in orderly'
      PROVE  \E at \in [0 .. sent' -> Version] : ThenLeads(at, comp'[w].fork, comp'[w].index)
  <2>1. CASE w = f.by
    <3> DEFINE at == [n \in 0 .. sent |-> Versions - 1]
    <3>1. sent \in Nat /\ Versions - 1 \in Version
      BY ForkTypes DEF Version
    <3>2. at \in [0 .. sent' -> Version] /\ \A n \in 0 .. sent : at[n] = Versions - 1
      BY <1>2, <3>1
    <3> HIDE DEF at
    <3>3. 0 \in 0 .. sent /\ sent \in 0 .. sent /\ \A n \in 1 .. sent : n - 1 \in 0 .. sent /\ n \in 0 .. sent
      BY <3>1
    <3>4. \A n \in 1 .. sent : at[n] = at[n - 1]
      BY <3>2, <3>3
    <3>5. pos'[f.fork] = Versions - 1 /\ ~\E r \in requests' : r.fork = f.fork
      BY <1>2 DEF Unused
    <3>6. ThenLeads(at, f.fork, Versions - 1)
      BY <1>2, <3>2, <3>3, <3>4, <3>5 DEF ThenLeads
    <3> QED
      BY <1>1, <2>1, <3>2, <3>6
  <2>2. CASE w # f.by
    BY <1>1, <1>2, <1>3, <2>2 DEF InStep, Leads, ThenLeads
  <2> QED
    BY <2>1, <2>2
<1> QED
  BY <1>3, InStepThen

\* A set of natural numbers that is not empty has a least one.
LEMMA Least ==
  ASSUME NEW T, T \subseteq Nat, T # {}
  PROVE  \E x \in T : \A y \in T : x <= y
<1> DEFINE Less == {ss \in Nat \X Nat : ss[1] < ss[2]}
<1>1. IsWellFoundedOn(Less, Nat)
  BY NatLessThanWellFounded DEF OpToRel
<1>2. \A x, y \in Nat : <<y, x>> \notin Less => x <= y
  OBVIOUS
<1> HIDE DEF Less
<1>3. PICK x \in T : \A y \in T : <<y, x>> \notin Less
  BY <1>1, WFMin
<1>4. ASSUME NEW y \in T PROVE x <= y
  BY <1>2, <1>3
<1> QED
  BY <1>4

\* Along a way of which no step is up, or none is down, every place is on that side of the last.
LEMMA Monotone ==
  ASSUME NEW k \in Nat, NEW at, \A n \in 0 .. k : at[n] \in Int
  PROVE  /\ (\A n \in 1 .. k : at[n] <= at[n - 1]) => \A n \in 0 .. k : at[k] <= at[n]
         /\ (\A n \in 1 .. k : at[n - 1] <= at[n]) => \A n \in 0 .. k : at[n] <= at[k]
<1> DEFINE Lower(n) == at[k] <= at[n]
           Upper(n) == at[n] <= at[k]
<1>1. ASSUME \A n \in 1 .. k : at[n] <= at[n - 1], NEW n \in 0 .. k, ~Lower(n) PROVE FALSE
  <2> DEFINE T == {j \in 0 .. k : ~Lower(k - j)}
  <2>1. k - n \in 0 .. k /\ k - (k - n) = n
    OBVIOUS
  <2>2. k - n \in T
    BY <1>1, <2>1
  <2>3. PICK j \in T : \A i \in T : j <= i
    <3>1. T \subseteq Nat
      OBVIOUS
    <3> QED
      BY <2>2, <3>1, Least
  <2>4. j # 0
    <3>1. k - 0 = k /\ at[k] <= at[k]
      OBVIOUS
    <3> QED
      BY <2>3, <3>1
  <2>5. j - 1 \in 0 .. k /\ k - (j - 1) \in 1 .. k /\ (k - (j - 1)) - 1 = k - j /\ ~(j <= j - 1)
        /\ k - (j - 1) \in 0 .. k /\ k - j \in 0 .. k
    BY <2>3, <2>4
  <2>6. Lower(k - (j - 1))
    BY <2>3, <2>5
  <2>7. at[k - (j - 1)] <= at[k - j]
    BY <1>1, <2>5
  <2>8. at[k] \in Int /\ at[k - (j - 1)] \in Int /\ at[k - j] \in Int
    BY <2>5
  <2>9. ~Lower(k - j)
    BY <2>3
  <2> QED
    BY <2>6, <2>7, <2>8, <2>9
<1>2. ASSUME \A n \in 1 .. k : at[n - 1] <= at[n], NEW n \in 0 .. k, ~Upper(n) PROVE FALSE
  <2> DEFINE T == {j \in 0 .. k : ~Upper(k - j)}
  <2>1. k - n \in 0 .. k /\ k - (k - n) = n
    OBVIOUS
  <2>2. k - n \in T
    BY <1>2, <2>1
  <2>3. PICK j \in T : \A i \in T : j <= i
    <3>1. T \subseteq Nat
      OBVIOUS
    <3> QED
      BY <2>2, <3>1, Least
  <2>4. j # 0
    <3>1. k - 0 = k /\ at[k] <= at[k]
      OBVIOUS
    <3> QED
      BY <2>3, <3>1
  <2>5. j - 1 \in 0 .. k /\ k - (j - 1) \in 1 .. k /\ (k - (j - 1)) - 1 = k - j /\ ~(j <= j - 1)
        /\ k - (j - 1) \in 0 .. k /\ k - j \in 0 .. k
    BY <2>3, <2>4
  <2>6. Upper(k - (j - 1))
    BY <2>3, <2>5
  <2>7. at[k - j] <= at[k - (j - 1)]
    BY <1>2, <2>5
  <2>8. at[k] \in Int /\ at[k - (j - 1)] \in Int /\ at[k - j] \in Int
    BY <2>5
  <2>9. ~Upper(k - j)
    BY <2>3
  <2> QED
    BY <2>6, <2>7, <2>8, <2>9
<1> QED
  BY <1>1, <1>2

\* A fork is moved by a request that passes none for the other direction: all places before it
\* on the way are moved as far, and none of them beyond the first or the last version.
LEMMA StepHandled ==
  ASSUME TypeOK, ForkInv, InStep, NEW r \in requests, Handle(r), r.fork \in forks, ~Passes(r)
  PROVE  InStep'
<1>1. /\ requests' = requests \ {r} /\ UNCHANGED <<comp, sent, orderly>> /\ Moves(r)
      /\ pos' = [pos EXCEPT ![r.fork] = Moved(pos[r.fork], r)]
  BY DEF Handle, Moves
<1>2. r.fork \in Fork /\ pos \in [Fork -> Version] /\ orderly \subseteq Fork
  BY DEF TypeOK
<1>3. /\ r.id \in 1 .. sent /\ sent \in Nat /\ r.steps \in Version
      /\ \A q \in requests : q.id = r.id => q = r
  BY ForkTypes DEF ForkInv
<1>4. ASSUME NEW w \in Widget, comp'[w].fork \in orderly'
      PROVE  \E at \in [0 .. sent' -> Version] : ThenLeads(at, comp'[w].fork, comp'[w].index)
  <2>0. PICK f, v : f = comp[w].fork /\ v = comp[w].index
    OBVIOUS
  <2>1. PICK at \in [0 .. sent -> Version] : Leads(at, f, v)
    BY <1>1, <1>4, <2>0 DEF InStep
  <2>2. CASE f # r.fork
    <3>1. pos'[f] = pos[f]
      BY <1>1, <1>2, <1>4, <2>0, <2>2
    <3>2. ThenLeads(at, f, v)
      BY <1>1, <2>1, <2>2, <3>1 DEF Leads, ThenLeads
    <3> QED
      BY <1>1, <2>0, <2>1, <3>2
  <2>3. CASE f = r.fork
    <3> DEFINE k == r.id - 1
               by == IF r.action = "undo" THEN 0 - r.steps ELSE r.steps
               then == [n \in 0 .. sent |-> IF n <= k THEN at[n] + by ELSE at[n]]
    <3>1. /\ k \in Nat /\ k + 1 = r.id /\ k \in 0 .. sent /\ r.id \in 0 .. sent
          /\ \A n \in 0 .. k : n \in 0 .. sent
          /\ \A n \in 1 .. sent : n \in 0 .. sent /\ n - 1 \in 0 .. sent
          /\ \A n \in 1 .. k : n \in 1 .. sent
      BY <1>3
    <3>2. \A n \in 0 .. sent : at[n] \in Int /\ 0 <= at[n] /\ at[n] <= Versions - 1
      BY <2>1 DEF Version
    <3>3. r.steps \in Int /\ 0 <= r.steps /\ by \in Int
      BY <1>3 DEF Version
    <3>4. at[r.id] = at[k] + by
      <4>1. Takes(r, at[r.id - 1], at[r.id])
        BY <1>3, <2>1, <2>3 DEF Leads
      <4>2. at[r.id - 1] \in Int /\ at[r.id] \in Int
        BY <3>1, <3>2
      <4> HIDE DEF k
      <4>3. r.action = "undo" => at[r.id - 1] = at[r.id] + r.steps
        BY <4>1 DEF Takes
      <4>4. r.action = "redo" => at[r.id] = at[r.id - 1] + r.steps
        BY <4>1 DEF Takes
      <4>5. at[r.id] = at[r.id - 1] + by
        BY <1>1, <3>3, <4>2, <4>3, <4>4 DEF Moves
      <4> QED
        BY <4>5 DEF k
    <3>5. ASSUME NEW n \in 1 .. k
          PROVE  /\ r.action = "undo" => at[n] <= at[n - 1]
                 /\ r.action = "redo" => at[n - 1] <= at[n]
      <4>1. n < r.id /\ n \in 1 .. sent /\ at[n] \in Int /\ at[n - 1] \in Int
        BY <3>1, <3>2
      <4>2. CASE \E q \in requests : q.fork = f /\ q.id = n
        <5>1. PICK q \in requests : q.fork = f /\ q.id = n
          BY <4>2
        <5>2. Takes(q, at[n - 1], at[n])
          BY <2>1, <4>1, <5>1 DEF Leads
        <5>3. q.action \in {r.action, "restored", "returning"}
          BY <2>3, <4>1, <5>1 DEF Passes
        <5>4. q.steps \in Int /\ 0 <= q.steps
          BY <5>1, ForkTypes DEF Version
        <5> QED
          BY <4>1, <5>2, <5>3, <5>4 DEF Takes
      <4>3. CASE ~\E q \in requests : q.fork = f /\ q.id = n
        <5>1. at[n] = at[n - 1]
          BY <2>1, <4>1, <4>3 DEF Leads
        <5> QED
          BY <4>1, <5>1
      <4> QED
        BY <4>2, <4>3
    <3>6. \A n \in 0 .. k : at[n] + by \in Version
      <4>0. \A n \in 0 .. k : at[n] \in Int
        BY <3>1, <3>2
      <4> HIDE DEF by, then, k
      <4>1. CASE r.action = "undo"
        <5>1. \A n \in 0 .. k : at[k] <= at[n]
          BY <3>1, <3>5, <4>0, <4>1, Monotone
        <5>2. by <= 0
          BY <3>3, <4>1 DEF by
        <5>3. ASSUME NEW n \in 0 .. k PROVE at[n] + by \in Version
          <6>1. /\ at[n] \in Int /\ at[n] <= Versions - 1 /\ at[k] <= at[n] /\ at[k] \in Int
                /\ 0 <= at[k] + by
            BY <3>1, <3>2, <3>4, <5>1
          <6> QED
            BY <3>3, <5>2, <6>1 DEF Version
        <5> QED
          BY <5>3
      <4>2. CASE r.action # "undo"
        <5>1. \A n \in 0 .. k : at[n] <= at[k]
          BY <1>1, <3>1, <3>5, <4>0, <4>2, Monotone DEF Moves
        <5>2. 0 <= by
          BY <3>3, <4>2 DEF by
        <5>3. ASSUME NEW n \in 0 .. k PROVE at[n] + by \in Version
          <6>1. /\ at[n] \in Int /\ 0 <= at[n] /\ at[n] <= at[k] /\ at[k] \in Int
                /\ at[k] + by <= Versions - 1
            BY <3>1, <3>2, <3>4, <5>1
          <6> QED
            BY <3>3, <5>2, <6>1 DEF Version
        <5> QED
          BY <5>3
      <4> QED
        BY <4>1, <4>2
    <3> HIDE DEF k
    <3>7. then \in [0 .. sent -> Version]
      <4>1. \A n \in 0 .. sent : (IF n <= k THEN at[n] + by ELSE at[n]) \in Version
        <5>1. \A n \in 0 .. sent : n <= k => n \in 0 .. k
          BY <3>1
        <5> QED
          BY <2>1, <3>6, <5>1
      <4> QED
        BY <4>1
    <3>8. /\ \A n \in 0 .. sent : n <= k => then[n] = at[n] + by
          /\ \A n \in 0 .. sent : ~(n <= k) => then[n] = at[n]
      OBVIOUS
    <3>9. then[0] = pos'[f]
      <4>1. then[0] = pos[f] + by /\ pos[f] = at[0] /\ 0 \in 0 .. k
        BY <2>1, <3>1, <3>8 DEF Leads
      <4>2. pos[f] + by \in Version /\ pos[f] \in Int
        BY <3>1, <3>2, <3>6, <4>1
      <4> HIDE DEF then
      <4>3. Moved(pos[f], r) = pos[f] + by
        <5>1. CASE r.action = "undo"
          <6>1. 0 <= pos[f] - r.steps /\ by = 0 - r.steps
            BY <3>3, <4>2, <5>1 DEF Version
          <6>2. Moved(pos[f], r) = Undone(pos[f], r.steps)
            BY <5>1 DEF Moved
          <6> HIDE DEF by
          <6> QED
            BY <3>3, <4>2, <6>1, <6>2 DEF Undone
        <5>2. CASE r.action = "redo"
          <6>1. pos[f] + r.steps <= Versions - 1 /\ by = r.steps
            BY <3>3, <4>2, <5>2 DEF Version
          <6>2. Moved(pos[f], r) = Redone(pos[f], r.steps)
            BY <5>2 DEF Moved
          <6> HIDE DEF by
          <6> QED
            BY <3>3, <4>2, <6>1, <6>2 DEF Redone
        <5> QED
          BY <1>1, <5>1, <5>2 DEF Moves
      <4> QED
        BY <1>1, <1>2, <2>3, <4>1, <4>3
    <3>10. then[sent] = v
      <4>1. sent \in 0 .. sent /\ ~(sent <= k)
        BY <1>3, <3>1
      <4> QED
        BY <2>1, <3>8, <4>1 DEF Leads
    <3> HIDE DEF then, by
    <3>11. ASSUME NEW n \in 1 .. sent
           PROVE  IF \E q \in requests' : q.fork = f /\ q.id = n
                  THEN \A q \in requests' : q.fork = f /\ q.id = n => Takes(q, then[n - 1], then[n])
                  ELSE then[n] = then[n - 1]
      <4>0. n \in 0 .. sent /\ n - 1 \in 0 .. sent /\ at[n] \in Int /\ at[n - 1] \in Int
        BY <3>1, <3>2
      <4>1. CASE n = r.id
        <5>1. ~\E q \in requests' : q.id = n
          BY <1>1, <1>3, <4>1
        <5>2. ~(n <= k) /\ n - 1 <= k /\ n - 1 = k
          BY <1>3, <3>1, <4>1
        <5>3. then[n] = at[n] /\ then[n - 1] = at[k] + by
          BY <3>8, <4>0, <5>2
        <5> QED
          BY <3>4, <4>1, <5>1, <5>3
      <4>2. CASE n # r.id
        <5>1. \A q : q \in requests' /\ q.id = n <=> q \in requests /\ q.id = n
          BY <1>1, <4>2
        <5>2. \/ then[n] = at[n] + by /\ then[n - 1] = at[n - 1] + by
              \/ then[n] = at[n] /\ then[n - 1] = at[n - 1]
          <6>1. (n <= k /\ n - 1 <= k) \/ (~(n <= k) /\ ~(n - 1 <= k))
            BY <1>3, <3>1, <4>2
          <6> QED
            BY <3>8, <4>0, <6>1
        <5>3. ASSUME NEW q \in requests, Takes(q, at[n - 1], at[n])
              PROVE  Takes(q, then[n - 1], then[n])
          <6>1. q.steps \in Int
            BY <5>3, ForkTypes DEF Version
          <6> QED
            BY <3>3, <4>0, <5>2, <5>3, <6>1 DEF Takes
        <5>4. at[n] = at[n - 1] => then[n] = then[n - 1]
          BY <5>2
        <5> QED
          BY <2>1, <5>1, <5>3, <5>4 DEF Leads
      <4> QED
        BY <4>1, <4>2
    <3>12. ThenLeads(then, f, v)
      BY <1>1, <3>9, <3>10, <3>11 DEF ThenLeads
    <3> QED
      BY <1>1, <2>0, <3>7, <3>12
  <2> QED
    BY <2>2, <2>3
<1> QED
  BY <1>4, InStepThen

LEMMA InStepStep ==
  ASSUME IInv, Next
  PROVE  InStep'
<1>0. TypeOK /\ OneSlider /\ MadeInv /\ ForkInv /\ InStep /\ TypeOK'
  BY TypeStep DEF IInv
<1>1. ASSUME UNCHANGED <<sent, pos, requests, orderly>>, SamePlaces PROVE InStep'
  BY <1>0, <1>1, StepKept
<1>2. CASE Tabs
  BY <1>0, <1>1, <1>2, TabsStep DEF server, SamePlaces
<1>3. CASE Click
  BY <1>1, <1>3 DEF Click, server, SamePlaces
<1>4. ASSUME NEW f \in fetches, TimelineReply(f) PROVE InStep'
  BY <1>0, <1>4, StepReply
<1>5. ASSUME NEW f \in fetches, SessionReply(f) PROVE InStep'
  <2>1. f.by \in Widget /\ comp' = [comp EXCEPT ![f.by].toggle = TRUE, ![f.by].first = ~TRUE]
    BY <1>0, <1>5, ForkTypes DEF SessionReply
  <2>2. SamePlaces
    BY <1>0, <2>1, ToggleEffect
  <2> QED
    BY <1>1, <1>5, <2>2 DEF SessionReply, server
<1>6. ASSUME NEW f \in fetches, FetchFails(f) PROVE InStep'
  BY <1>1, <1>6 DEF FetchFails, server, SamePlaces
<1>7. ASSUME NEW v \in Version, Slide(v) PROVE InStep'
  <2>1. /\ slider \in Widget /\ comp'[slider].fork = comp[slider].fork /\ comp'[slider].index = v
        /\ \A w \in Widget : w # slider => comp'[w] = comp[w]
    BY <1>0, <1>7, SlideEffect
  <2>2. SameForks /\ comp[slider].index \in Version
    BY <1>0, <2>1, ForkTypes DEF SameForks, Component
  <2>3. Usable /\ Send(Action(v, comp[slider].index), Steps(v, comp[slider].index))
    BY <1>7 DEF Slide
  <2>4. \A r : r.action = Action(v, comp[slider].index) /\ r.steps = Steps(v, comp[slider].index)
                => Takes(r, comp[slider].index, comp'[slider].index)
    BY <2>1, <2>2, SlideTakes
  <2> QED
    BY <1>0, <2>1, <2>2, <2>3, <2>4, StepSent
<1>8. CASE Restore
  <2>1. Usable /\ Send("restore", 0) /\ comp' = comp
    BY <1>8 DEF Restore, Restorable
  <2>2. \A r : r.action = "restore" => Takes(r, comp[slider].index, comp'[slider].index)
    BY <2>1 DEF Takes
  <2> QED
    BY <1>0, <2>1, <2>2, StepSent DEF SameForks
<1>9. ASSUME NEW r \in requests, Handle(r) PROVE InStep'
  <2>1. CASE r.fork \in forks /\ ~Passes(r)
    BY <1>0, <1>9, <2>1, StepHandled
  <2>2. CASE r.fork \in forks /\ Passes(r)
    <3> DEFINE f == r.fork
    <3>1. /\ requests' = requests \ {r} /\ UNCHANGED <<comp, sent>> /\ orderly' = orderly \ {f}
          /\ pos' = [pos EXCEPT ![f] = Moved(pos[f], r)]
      BY <1>9, <2>2 DEF Handle
    <3> HIDE DEF f
    <3>2. f \in Fork /\ pos \in [Fork -> Version] /\ orderly \subseteq Fork /\ f = r.fork
      BY <1>0, <2>2 DEF TypeOK, f
    <3>3. ASSUME NEW w \in Widget, comp'[w].fork \in orderly'
          PROVE  \E at \in [0 .. sent' -> Version] : ThenLeads(at, comp'[w].fork, comp'[w].index)
      <4>1. comp'[w] = comp[w] /\ comp[w].fork \in orderly /\ comp[w].fork # f
        BY <3>1, <3>3
      <4>2. PICK at \in [0 .. sent -> Version] : Leads(at, comp[w].fork, comp[w].index)
        BY <1>0, <4>1 DEF InStep
      <4>3. pos'[comp[w].fork] = pos[comp[w].fork]
        BY <3>1, <3>2, <4>1
      <4>4. ThenLeads(at, comp[w].fork, comp[w].index)
        BY <3>1, <3>2, <4>1, <4>2, <4>3 DEF Leads, ThenLeads
      <4> QED
        BY <3>1, <4>1, <4>2, <4>4
    <3> QED
      BY <3>3, InStepThen
  <2>3. CASE r.fork \notin forks
    BY <1>0, <1>9, <2>3, StepKept DEF Handle, SamePlaces
  <2> QED
    BY <2>1, <2>2, <2>3
<1>10. ASSUME NEW r \in requests, HandleRestore(r) PROVE InStep'
  <2>0. PICK b : b = [r EXCEPT !.action = "restored"]
    OBVIOUS
  <2>1. requests' = (requests \ {r}) \cup {b} /\ UNCHANGED <<comp, sent, pos>> /\ orderly' \subseteq orderly
        /\ ~Moves(r)
    BY <1>10, <2>0 DEF HandleRestore, Moves
  <2>2. b.id = r.id /\ b.fork = r.fork /\ ~Moves(b)
    BY <1>0, <2>0, ForkTypes DEF Request, Moves
  <2> QED
    BY <1>0, <2>1, <2>2, StepKept DEF SamePlaces
<1>11. ASSUME NEW r \in requests, RestoreReply(r) PROVE InStep'
  <2>1. r.by \in Widget /\ comp' = [comp EXCEPT ![r.by].toggle = FALSE, ![r.by].first = ~FALSE]
    BY <1>0, <1>11, ForkTypes DEF RestoreReply, Closes, Request
  <2>2. SamePlaces
    BY <1>0, <2>1, ToggleEffect
  <2>3. PICK b : b = [r EXCEPT !.action = "returning"]
    OBVIOUS
  <2>4. requests' = (requests \ {r}) \cup {b} /\ UNCHANGED <<sent, pos, orderly>> /\ ~Moves(r)
    BY <1>11, <2>3 DEF RestoreReply, Moves
  <2>5. b.id = r.id /\ b.fork = r.fork /\ ~Moves(b)
    BY <1>0, <2>3, ForkTypes DEF Request, Moves
  <2> QED
    BY <1>0, <2>2, <2>4, <2>5, StepKept
<1>12. ASSUME NEW r \in requests, RequestFails(r) PROVE InStep'
  BY <1>0, <1>12, StepKept DEF RequestFails, SamePlaces
<1>13. ASSUME NEW r \in requests, Returned(r) \/ ReturnFails(r) PROVE InStep'
  <2>1. ~Moves(r)
    BY <1>13 DEF Returned, ReturnFails, Moves
  <2> QED
    BY <1>0, <1>13, <2>1, StepKept DEF Returned, ReturnFails, SamePlaces
<1> QED
  BY <1>2, <1>3, <1>4, <1>5, <1>6, <1>7, <1>8, <1>9, <1>10, <1>11, <1>12, <1>13
  DEF Next, Answered, Use, Handled

-----------------------------------------------------------------------------
(* The theorems                                                            *)

LEMMA Initially ==
  ASSUME Init
  PROVE  IInv
<1>1. Versions - 1 \in Version /\ 0 \in Version
  BY DEF Version
<1>2. NewComponent \in Component
  BY <1>1 DEF NewComponent, Component
<1>3. TypeOK
  <2>1. /\ of \in [Widget -> Doc \cup {None}] /\ comp \in [Widget -> Component]
        /\ room \in [Doc -> Doc \cup Fork \cup {None}] /\ pos \in [Fork -> Version]
    BY <1>1, <1>2 DEF Init
  <2>2. /\ current = None /\ ready = Plain /\ waiting = {} /\ intruded = FALSE
        /\ shown = 0 /\ slider = None /\ attached = {} /\ clicks = 0 /\ fetches = {}
        /\ rushed = {} /\ sent = 0 /\ requests = {} /\ forks = {} /\ orderly = Fork
    BY DEF Init
  <2>3. shown \in 0 .. MaxWidgets /\ clicks \in 0 .. MaxForks /\ sent \in 0 .. MaxRequests
    BY <2>2
  <2>4. ready \subseteq Doc /\ waiting \subseteq Doc /\ attached \subseteq Widget
    BY <2>2
  <2>5. /\ fetches \subseteq Fetch /\ rushed \subseteq Doc /\ requests \subseteq Request
        /\ forks \subseteq Fork /\ orderly \subseteq Fork
    BY <2>2
  <2>6. current \in Doc \cup {None} /\ slider \in Widget \cup {None} /\ intruded \in BOOLEAN
    BY <2>2
  <2> QED
    BY <2>1, <2>3, <2>4, <2>5, <2>6 DEF TypeOK
<1>4. OneSlider
  BY DEF Init, OneSlider
<1>5. MadeInv
  BY DEF Init, MadeInv, NewComponent, Widget
<1>6. LinkInv
  BY DEF Init, LinkInv, Linked, Fetches, Usable
<1>7. ForkInv /\ InStep
  <2>1. /\ requests = {} /\ fetches = {} /\ sent = 0 /\ pos = [f \in Fork |-> Versions - 1]
        /\ \A w \in Widget : comp[w].fork = None
    BY DEF Init, NewComponent
  <2>2. None \notin Fork
    OBVIOUS
  <2>3. ForkInv
    BY <2>1, <2>2 DEF ForkInv, Unused
  <2>4. orderly \subseteq Fork
    BY DEF Init
  <2> QED
    BY <2>1, <2>2, <2>3, <2>4 DEF InStep
<1> QED
  BY <1>3, <1>4, <1>5, <1>6, <1>7 DEF IInv

LEMMA Unchanged ==
  ASSUME IInv, UNCHANGED vars
  PROVE  IInv'
<1>1. UNCHANGED <<current, ready, waiting, intruded, shown, slider, attached, of, comp, clicks,
                  fetches, rushed, room, sent, requests, forks, pos, orderly>>
  BY DEF vars, tabs, bar, server
<1>2. TypeOK' /\ OneSlider' /\ MadeInv'
  BY <1>1 DEF IInv, TypeOK, OneSlider, MadeInv
<1>3. LinkInv'
  BY <1>1 DEF IInv, LinkInv, Linked, Fetches, Restores, Usable
<1>4. ForkInv' /\ InStep'
  BY <1>1 DEF IInv, ForkInv, Unused, InStep, Leads
<1> QED
  BY <1>2, <1>3, <1>4 DEF IInv

\* However the activations of tabs overlap there is one slider in the status bar at most,
\* the current document's unless another became ready since; and nothing but its own
\* Restore takes the document of a slider in use to another room, unless the icon was
\* clicked while an answer was awaited.
THEOREM Invariant == Spec => []IInv
<1>1. IInv /\ [Next]_vars => IInv'
  BY TypeStep, BarStep, LinkStep, ForkStep, InStepStep, Unchanged DEF IInv
<1> QED
  BY Initially, <1>1, PTL DEF Spec

\* A slider in use moves the fork that the editor shows, whichever requests are answered
\* first and which fail, unless the icon was clicked while an answer was awaited: that of
\* the timeline, of Restore, or of the session request by which the provider reconnects.
THEOREM Follows == Spec => []ShownLinked
<1>1. IInv => ShownLinked
  <2>1. ASSUME IInv, Usable, of[slider] \notin rushed PROVE room[of[slider]] = comp[slider].fork
    <3>1. of[slider] \in Doc
      BY <2>1 DEF IInv, TypeOK, MadeInv, Usable
    <3> QED
      BY <2>1, <3>1 DEF IInv, LinkInv, Linked
  <2> QED
    BY <2>1 DEF ShownLinked
<1> QED
  BY Invariant, <1>1, PTL

\* The slider names the version to which the requests on their way take its fork, however
\* many, and none of them is cut short, if none failed and none overtook one for the other
\* direction.
THEOREM Named == Spec => []InStep
<1>1. IInv => InStep
  BY DEF IInv
<1> QED
  BY Invariant, <1>1, PTL
=============================================================================
