---------------------------- MODULE MCGmailStart ---------------------------
(***************************************************************************)
(* One run of GmailSync for both kinds of user: a first login, with a      *)
(* webhook and up to FreshHist - 1 changes of the mailbox beside it, and a *)
(* user who is behind, with a backfill and one more change.                *)
(***************************************************************************)
EXTENDS MCGmailSync

CONSTANT FreshHist    \* MaxHist of the first login; at most Cardinality(Msgs)

MCInit == Init \/ BehindInit

MCSpec == MCInit /\ [][Next]_vars

(***************************************************************************)
(* An action constraint. The history id tells the two starts apart: the    *)
(* user who is behind starts above FreshHist. At most two of the           *)
(* invocations run at the same time, of any kinds. A lapsed watch          *)
(* publishes as little as one whose notifications are lost, and expired    *)
(* history ends a delivery like any call that throws: the run leaves both  *)
(* out.                                                                    *)
(***************************************************************************)
StartBounds ==
  /\ IF hid <= FreshHist
     THEN hid' <= FreshHist /\ \A b \in Backfills : imp'[b] = imp[b]
     ELSE \A l \in Logins : imp'[l] = imp[l]
  /\ Cardinality({h \in Handlers : hook'[h].pc # "idle"})
       + Cardinality({p \in Importers : imp'[p].pc # "idle"})
       + (IF cron'.pc # "idle" THEN 1 ELSE 0) <= 2
  /\ (watched => watched') /\ forgotten' = forgotten
=============================================================================
