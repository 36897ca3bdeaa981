---------------------------- MODULE MCMailActions ---------------------------
(***************************************************************************)
(* Instances of MailActions for TLC.                                       *)
(***************************************************************************)
EXTENDS MailActions

\* An unread message sent to oneself (archiving it on the server removes SENT), and
\* one from somebody else.
MCInitial == {{"INBOX", "SENT", "UNREAD"}, {"INBOX", "UNREAD"}}
=============================================================================
