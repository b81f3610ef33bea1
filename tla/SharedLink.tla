----------------------------- MODULE SharedLink -----------------------------
(***************************************************************************)
(* The dialog that shares a link to the server (collaboration/sharedlink.ts *)
(* and its command).  Behind a JupyterHub that lets the user share, it     *)
(* lists the shares of the server, which can be revoked, and the users and *)
(* groups to share it with; elsewhere it shows a URL, with or without the  *)
(* token.                                                                  *)
(*                                                                         *)
(* Opening the dialog, sharing and revoking each run a chain of requests;  *)
(* chains overlap, the hub answers them in any order, and one may fail.    *)
(* Only this dialog changes the shares meanwhile.  A list is the set of    *)
(* those in it.                                                            *)
(***************************************************************************)
EXTENDS Naturals, Sequences, FiniteSets, FiniteSetsExt, Functions, SequencesExt

CONSTANTS
  None,
  Owner,      \* the user whose server it is
  Users,      \* the hub's users, in the order in which it lists them
  Groups,     \* the names of its groups
  Limit,      \* how many users a page holds
  MaxChains   \* bound on the chains of requests ever begun

User(name) == [name |-> name, type |-> "user"]
Group(name) == [name |-> name, type |-> "group"]
Recipient == {User(u) : u \in Range(Users)} \cup {Group(g) : g \in Groups}

ASSUME UserAssumption ==
  Users \in Seq(Range(Users)) /\ IsInjective(Users) /\ Owner \in Range(Users)
ASSUME NoneAssumption ==
  None \notin Recipient /\ None \notin {"url", "url with token", "everything"}
ASSUME BoundAssumption == Limit \in Nat \ {0} /\ MaxChains \in Nat \ {0}

VARIABLES
  dialog,      \* "share" or "link"
  rights,      \* canListUsers and canListGroups, the lists that the hub gives
  hub,         \* the shares that the hub knows
  begun,       \* how many chains have begun
  chains,      \* those that await an answer
  shares,      \* _shares, as the table shows them
  recipients,  \* _recipients
  listed,      \* those of them that the search results show
  passed,      \* history: the chains whose list of shares a later one has passed
  stale,       \* history: one of those lists has arrived
  failed,      \* history: a chain ended early
  box,         \* the checkbox "Include token in URL"
  input,       \* the URL in the field
  warning,     \* the text below it
  copied       \* the value of the dialog, copied when it is accepted

lists == <<shares, recipients, listed>>
history == <<passed, stale, failed>>
page == <<box, input, warning, copied>>
vars == <<dialog, rights, hub, begun, chains, lists, history, page>>

Chain == [id : 1 .. MaxChains, kind : {"open", "create", "revoke"}, who : Recipient \cup {None},
          stage : {"change", "shares", "answer", "users", "groups"},
          got : SUBSET Range(Users), offset : Nat,
          read : SUBSET Recipient, before : SUBSET (1 .. MaxChains)]

TypeOK ==
  /\ dialog \in {"share", "link"} /\ rights \subseteq {"user", "group"}
  /\ hub \subseteq Recipient /\ begun \in 0 .. MaxChains /\ chains \subseteq Chain
  /\ shares \subseteq Recipient /\ recipients \subseteq Recipient /\ listed \subseteq Recipient
  /\ passed \subseteq 1 .. MaxChains /\ stale \in BOOLEAN /\ failed \in BOOLEAN
  /\ box \in {"absent", "off", "on"} /\ input \in {"url", "url with token"}
  /\ warning \in {"files", "users", "everything", None}
  /\ copied \in {"url", "url with token", None}

-----------------------------------------------------------------------------
(* showSharedLinkDialog: what the scopes of the user's token allow         *)

Scope == {"read:users:name", "shares!user", "shares!user=owner", "shares!server=owner/server",
          "list:users", "read:users", "admin:users", "list:groups", "read:groups", "admin:groups"}

CanCreateShare(version, own, scopes) ==
  /\ version >= 5
  /\ "read:users:name" \in scopes
  /\ \/ own /\ "shares!user" \in scopes
     \/ scopes \cap {"shares!user=owner", "shares!server=owner/server"} # {}

CanList(kind, scopes) ==
  scopes \cap (IF kind = "user" THEN {"list:users", "read:users", "admin:users"}
               ELSE {"list:groups", "read:groups", "admin:groups"}) # {}

\* A user's hub is of some version, or there is none.
Allowed ==
  \E version \in {0, 4, 5}, own \in BOOLEAN, scopes \in SUBSET Scope :
    IF CanCreateShare(version, own, scopes)
    THEN dialog = "share" /\ rights = {kind \in {"user", "group"} : CanList(kind, scopes)}
    ELSE dialog = "link" /\ rights = {}

-----------------------------------------------------------------------------
(* The chains of requests                                                  *)

NewChain(id, kind, who, stage) ==
  [id |-> id, kind |-> kind, who |-> who, stage |-> stage, got |-> {}, offset |-> 0,
   read |-> {}, before |-> {}]

\* The dialog to share asks for the shares at once.
Opening == NewChain(1, "open", None, "shares")

Init ==
  /\ Allowed
  /\ hub \in SUBSET (Recipient \ {User(Owner)})
  /\ begun = IF dialog = "share" THEN 1 ELSE 0
  /\ chains = IF dialog = "share" THEN {Opening} ELSE {}
  /\ shares = {} /\ recipients = {} /\ listed = {}
  /\ passed = {} /\ stale = FALSE /\ failed = FALSE
  /\ box \in (IF dialog = "link" THEN {"absent", "off"} ELSE {"absent"})
  /\ input = "url"
  /\ warning = IF dialog = "share" THEN "files" ELSE IF box = "off" THEN "users" ELSE None
  /\ copied = None

End(c) == chains' = {e \in chains : e.id # c.id}
Move(c, d) == chains' = {e \in chains : e.id # c.id} \cup {d}

\* The rows of the table, each with a button to revoke
Rows == shares

\* A click on a name in the results, and on Revoke in the table.
Share(p) ==
  /\ p \in listed /\ copied = None /\ begun < MaxChains
  /\ begun' = begun + 1
  /\ chains' = chains \cup {NewChain(begun', "create", p, "change")}
  /\ UNCHANGED <<dialog, rights, hub, lists, history, page>>
Revoke(p) ==
  /\ p \in Rows /\ copied = None /\ begun < MaxChains
  /\ begun' = begun + 1
  /\ chains' = chains \cup {NewChain(begun', "revoke", p, "change")}
  /\ UNCHANGED <<dialog, rights, hub, lists, history, page>>

\* _createShare and _deleteShare; the hub may refuse, which nothing looks at.
Change(c) ==
  /\ c.stage = "change"
  /\ hub' \in {hub, IF c.kind = "create" THEN hub \cup {c.who} ELSE hub \ {c.who}}
  /\ Move(c, [c EXCEPT !.stage = "shares"])
  /\ UNCHANGED <<dialog, rights, begun, lists, history, page>>

\* The chains whose list of shares is on its way
OnItsWay == {e \in chains : e.stage = "answer"}

\* _loadShares: the hub reads the list (history: after which others) ...
ReadShares(c) ==
  /\ c.stage = "shares"
  /\ Move(c, [c EXCEPT !.stage = "answer", !.read = hub, !.before = {e.id : e \in OnItsWay}])
  /\ UNCHANGED <<dialog, rights, hub, begun, lists, history, page>>

Names(list) == {p.name : p \in list}
\* Of a list, those with whom the server is not shared, by name whatever the type.
Kept(list, known) == {p \in list : p.name # Owner /\ p.name \notin Names(known)}

\* The chain goes on, or it ends: the click on a name and the one on Revoke
\* then filter the recipients.  (a slip: only the second)
ProceedRevoked(c, stage, loaded) ==
  IF stage # "end"
  THEN Move(c, [c EXCEPT !.stage = stage, !.got = {}, !.offset = 0]) /\ recipients' = loaded /\ UNCHANGED listed
  ELSE /\ End(c)
       /\ recipients' = IF c.kind = "revoke" THEN Kept(loaded, shares') ELSE loaded
       /\ listed' = recipients'
Proceed(c, stage, loaded) ==
  IF stage # "end"
  THEN Move(c, [c EXCEPT !.stage = stage, !.got = {}, !.offset = 0]) /\ recipients' = loaded /\ UNCHANGED listed
  ELSE /\ End(c)
       /\ recipients' = IF c.kind = "open" THEN loaded ELSE Kept(loaded, shares')
       /\ listed' = recipients'

AfterUsers(c) == IF "group" \in rights THEN "groups" ELSE "end"
AfterShares(c) == IF c.kind = "create" THEN "end"
                  ELSE IF "user" \in rights THEN "users" ELSE AfterUsers(c)

Arrived(c) == passed' = (passed \cup {e.id : e \in {d \in OnItsWay : d.id \in c.before}}) \ {c.id}

\* ... and it arrives and is shown.  (a slip: with who was to be added)
Expected(c) == IF c.kind = "create" THEN c.read \cup {c.who} ELSE c.read
Told(c) == c.read
SharesArrive(c) ==
  /\ c.stage = "answer"
  /\ shares' = Told(c)
  /\ Arrived(c) /\ stale' = (stale \/ c.id \in passed)
  /\ Proceed([c EXCEPT !.read = {}, !.before = {}], AfterShares(c), recipients)
  /\ UNCHANGED <<dialog, rights, hub, begun, failed, page>>

HasMore(data) == Len(data) = Limit

\* _loadUsers: a page of users, the last of which replaces the recipients.
Unshared(type, names) ==
  {[name |-> n, type |-> type] : n \in names \ Names({p \in shares : p.type = type})}
UsersArrive(c) ==
  /\ c.stage = "users"
  /\ UNCHANGED <<dialog, rights, hub, begun, shares, history, page>>
  /\ LET data == SubSeq(Users, c.offset + 1, Min({c.offset + Limit, Len(Users)}))
         got == c.got \cup Range(data)
     IN IF HasMore(data)
        THEN Move(c, [c EXCEPT !.got = got, !.offset = @ + Limit]) /\ UNCHANGED <<recipients, listed>>
        ELSE Proceed(c, AfterUsers(c), Unshared("user", got \ {Owner}))

\* The groups are added to them.
GroupsArrive(c) ==
  /\ c.stage = "groups"
  /\ UNCHANGED <<dialog, rights, hub, begun, shares, history, page>>
  /\ Proceed(c, "end", recipients \cup Unshared("group", Groups))

\* A request fails, and with it the rest of its chain.
Fails(c) ==
  /\ ~failed /\ failed' = TRUE
  /\ End(c)
  /\ UNCHANGED <<dialog, rights, hub, begun, lists, passed, stale, page>>

\* Typing in the search field lists the recipients anew.
Search ==
  /\ listed # recipients /\ copied = None
  /\ listed' = recipients
  /\ UNCHANGED <<dialog, rights, hub, begun, chains, shares, recipients, history, page>>

-----------------------------------------------------------------------------
(* SharedLinkBody, and the end of either dialog                            *)

\* _onTokenChange and _updateContent.  (a slip: the text stays)
WarnOnce(with) == IF warning = "users" THEN "everything" ELSE warning
Warn(with) == IF with THEN "everything" ELSE "users"
ToggleToken ==
  /\ box # "absent" /\ copied = None
  /\ box' = IF box = "on" THEN "off" ELSE "on"
  /\ input' = IF box' = "on" THEN "url with token" ELSE "url"
  /\ warning' = Warn(box' = "on")
  /\ UNCHANGED <<dialog, rights, hub, begun, chains, lists, history, copied>>

\* getValue of the body, which Copy Link copies; answers that come then are not seen.
Value == IF box = "on" THEN "url with token" ELSE "url"
CopyLink ==
  /\ copied = None
  /\ copied' = Value
  /\ chains' = {}
  /\ UNCHANGED <<dialog, rights, hub, begun, lists, history, box, input, warning>>

-----------------------------------------------------------------------------
Clicked == (\E p \in Recipient : Share(p) \/ Revoke(p)) \/ Search
Answered == \E c \in chains : \/ Change(c) \/ ReadShares(c) \/ SharesArrive(c)
                              \/ UsersArrive(c) \/ GroupsArrive(c) \/ Fails(c)

Next == Clicked \/ Answered \/ ToggleToken \/ CopyLink

Spec == Init /\ [][Next]_vars

-----------------------------------------------------------------------------
(* Properties                                                              *)

\* The dialog is at rest, and what it saw was in order and complete.
Quiet == dialog = "share" /\ copied = None /\ chains = {} /\ ~stale /\ ~failed

\* _createShare and _deleteShare: however sharing and revoking overlapped, the
\* table ends with the shares that the hub has, if no older list came after a later one.
SharesFresh == Quiet => shares = hub

\* "We remove from the list the current user and the users that already have a share",
\* by name: the results end without those, and with all others that the user may list.
Listable ==
  (IF "user" \in rights THEN {User(u) : u \in Range(Users) \ {Owner}} ELSE {})
    \cup (IF "group" \in rights THEN {Group(g) : g \in Groups} ELSE {})
OthersListed ==
  Quiet =>
    /\ listed \cap shares = {} /\ listed \subseteq Listable
    /\ \A p \in Listable : p.name \notin Names(shares) \cup {Owner} => p \in listed

\* SharedLinkBody: a link with the token is never copied but below its warning,
\* and what is copied is what the field said.
LinkAsShown ==
  copied # None => copied = input /\ (copied = "url with token" <=> warning = "everything")

\* What the proofs need besides: a chain is told by its number, and nothing has passed a
\* list that is not read yet; ...
ChainInv ==
  /\ passed \subseteq 1 .. begun
  /\ \A c \in chains :
       /\ c.id <= begun /\ (c.kind = "create" => c.who \in Recipient)
       /\ c.stage \in {"change", "shares"} => c.id \notin passed
       /\ \A e \in chains :
            /\ e.id = c.id => e = c
            /\ c.id \in e.before => c.stage \notin {"change", "shares"} /\ e.id \notin c.before
       /\ \A i \in c.before : i <= begun

\* ... whoever last read a list brings what the hub has, when it comes in time; ...
Watched == dialog = "share" /\ copied = None /\ ~stale /\ ~failed
LastReads(c) == c.id \notin passed /\ c.read = hub /\ \A e \in OnItsWay \ {c} : e.id \in c.before
FreshInv ==
  Watched =>
    \/ \E c \in chains : c.stage = "shares"
    \/ \E c \in OnItsWay : LastReads(c)
    \/ shares = hub /\ \A c \in OnItsWay : c.id \in passed

\* ... the chains ask for what the user may list, all of it, and the first one is alone
\* until it knows the shares; ...
ListInv ==
  /\ recipients \subseteq Listable
  /\ \A c \in chains :
       /\ c.stage = "users" => "user" \in rights /\ c.offset <= Len(Users)
                              /\ c.got = {Users[i] : i \in 1 .. c.offset}
       /\ c.stage = "groups" => "group" \in rights
       /\ c.kind = "create" => c.stage \in {"change", "shares", "answer"}
       /\ c.kind = "open" => c.stage # "change"
       /\ c.kind = "open" /\ c.stage \in {"shares", "answer"} =>
            chains = {c} /\ shares = {} /\ recipients = {} /\ listed = {}

\* ... a share that is missing in a later list was revoked by a chain that has yet to
\* show what it leaves; ...
OrderInv == \A c, e \in OnItsWay : c = e \/ c.id \in e.before \/ e.id \in c.before
InTime == {c \in OnItsWay : c.id \notin passed}
Revoking(stages) == \E r \in chains : r.kind = "revoke" /\ r.stage \in stages
RevokedSince(c) ==
  \E r \in chains : r.kind = "revoke" /\ (r.stage = "shares" \/ (r.stage = "answer" /\ c.id \in r.before))
GoneInv ==
  Watched =>
    /\ shares \subseteq hub \/ Revoking({"shares", "answer"})
    /\ \A c \in InTime :
         /\ shares \subseteq c.read \/ Revoking({"shares", "answer"})
         /\ c.read \subseteq hub \/ RevokedSince(c)
         /\ \A e \in InTime : c.id \in e.before => c.read \subseteq e.read \/ RevokedSince(c)

\* ... whom the results do not show although they should, or show although they should
\* not, some chain has yet to bring or to take away; ...
Brings(c, p) == c.kind # "create" /\ (c.stage = "groups" => p.type = "group")
ShownInv ==
  Watched =>
    /\ recipients \cap shares = {} \/ Revoking({"users", "groups"})
    /\ listed = recipients \/ \E c \in chains : c.stage = "groups"
    /\ \A p \in Listable : p.name \notin Names(shares) \cup {Owner} =>
         p \in recipients \/ \E c \in chains : Brings(c, p)

\* ... and the field and the warning go with the checkbox.
PageInv == input = Value /\ (box = "on" <=> warning = "everything")

IInv ==
  /\ TypeOK /\ LinkAsShown /\ PageInv
  /\ ChainInv /\ OrderInv /\ FreshInv
  /\ ListInv /\ GoneInv /\ ShownInv
=============================================================================
