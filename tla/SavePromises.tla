---------------------------- MODULE SavePromises ----------------------------
(***************************************************************************)
(* What a document provider promises of a save on a socket (ydrive.ts: "A  *)
(* promise which resolves with the file content model when the file is     *)
(* saved"): it is settled once, and as a success only when the server has  *)
(* said so of this save.  Provider implements it.                          *)
(***************************************************************************)
CONSTANT SaveId

VARIABLES
  save,      \* the promise of each save
  succeeded  \* the saves that the server has answered with success

vars == <<save, succeeded>>

Init == save = [s \in SaveId |-> "none"] /\ succeeded = {}

Sent(s) ==
  /\ save[s] = "none"
  /\ save' = [save EXCEPT ![s] = "waiting"]
  /\ UNCHANGED succeeded

\* Nothing is sent: there is no socket, or it is not open yet.
Unsent(s) ==
  /\ save[s] = "none"
  /\ \E outcome \in {"resolved", "rejected"} : save' = [save EXCEPT ![s] = outcome]
  /\ UNCHANGED succeeded

Succeeds(s) ==
  /\ save[s] = "waiting"
  /\ save' = [save EXCEPT ![s] = "resolved"]
  /\ succeeded' = succeeded \cup {s}

Fails(s) ==
  /\ save[s] = "waiting"
  /\ save' = [save EXCEPT ![s] = "rejected"]
  /\ UNCHANGED succeeded

Next == \E s \in SaveId : Sent(s) \/ Unsent(s) \/ Succeeds(s) \/ Fails(s)

Spec == Init /\ [][Next]_vars
=============================================================================
