------------------------------ MODULE Catalogue ------------------------------
(***************************************************************************)
(* What ingestion promises, whatever the queue, the workers and the        *)
(* uploads do: each report enters the catalogue once, together with all    *)
(* the other new reports of its document; a document is shown as parsed,   *)
(* and its message is taken off the queue, only when every report in it is *)
(* in the catalogue; and nothing ever leaves the catalogue.                *)
(*                                                                         *)
(* The specification has no queue, no worker and no crash.  Ingest         *)
(* implements it, and JsonStore does until processes disturb each other.   *)
(***************************************************************************)
CONSTANTS Docs, Reports, Contents, NoDoc

VARIABLES
  catalogue,   \* the document that brought in each report, or NoDoc
  confirmed,   \* the documents shown as parsed
  acked        \* the documents of which a message was taken off the queue

vars == <<catalogue, confirmed, acked>>

Missing(d)  == {r \in Contents[d] : catalogue[r] = NoDoc}
Complete(d) == Missing(d) = {}

Init ==
  /\ catalogue = [r \in Reports |-> NoDoc]
  /\ confirmed = {}
  /\ acked = {}

(* All the reports of d that are new come in at once.                      *)
Take(d) ==
  /\ Missing(d) # {}
  /\ catalogue' = [r \in Reports |-> IF r \in Missing(d) THEN d ELSE catalogue[r]]
  /\ UNCHANGED <<confirmed, acked>>

Confirm(d) ==
  /\ Complete(d)
  /\ confirmed' = confirmed \cup {d}
  /\ UNCHANGED <<catalogue, acked>>

(* A second worker that fails late takes the confirmation back.  The       *)
(* reports stay.                                                           *)
Retract(d) ==
  /\ confirmed' = confirmed \ {d}
  /\ UNCHANGED <<catalogue, acked>>

Ack(d) ==
  /\ Complete(d)
  /\ acked' = acked \cup {d}
  /\ UNCHANGED <<catalogue, confirmed>>

Next == \E d \in Docs : Take(d) \/ Confirm(d) \/ Retract(d) \/ Ack(d)

Spec == Init /\ [][Next]_vars
=============================================================================
