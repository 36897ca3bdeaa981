--------------------------- MODULE MCMessageLabels --------------------------
(***************************************************************************)
(* Instances of MessageLabels for TLC.                                     *)
(***************************************************************************)
EXTENDS MessageLabels

CONSTANT u    \* one user label

\* A message the user has sent to himself.
MCInitial == {{"INBOX", "SENT"}}

\* Two bodies with two fields: archive unread, trash as read.
MCBodies ==
  {[on |-> {"archived"}, off |-> {"read"}], [on |-> {"read", "trashed"}, off |-> {}]}

\* A message sent, a draft created, a starred draft updated, a draft sent.
MCMakings ==
  {[route |-> "post", labels |-> {"SENT"}], [route |-> "draft", labels |-> {"DRAFT"}],
   [route |-> "update", labels |-> {"DRAFT", "STARRED"}],
   [route |-> "send", labels |-> {"SENT"}]}

=============================================================================
