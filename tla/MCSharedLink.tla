----------------------------- MODULE MCSharedLink -----------------------------
(* Another user besides the owner, a full page, and a group with his name.      *)
EXTENDS SharedLink

SomeUsers == <<"ana", "bob">>
SomeGroups == {"bob"}
=============================================================================
