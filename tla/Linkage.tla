------------------------------ MODULE Linkage -------------------------------
(***************************************************************************)
(* db/linkage.py: the flights that a report may be about are scored, and   *)
(* the best one is kept in report_flight_links.  Which flight is the best  *)
(* is left open: any flight within a day of the report may be, or none.    *)
(*                                                                         *)
(* link_best_candidate runs in a session of its caller: it reads, deletes  *)
(* the report's links, adds one, and commits.  Under READ COMMITTED each   *)
(* statement sees what is committed when it begins, and a DELETE waits for *)
(* the rows that another session has deleted.                              *)
(*                                                                         *)
(* The query casts comparisons to NUMERIC, a cast that PostgreSQL does not *)
(* have and no migration adds: it raises for every report with a date.  A  *)
(* database where somebody has added the cast is modelled too, for what    *)
(* the sessions do with an answer.                                         *)
(***************************************************************************)
EXTENDS BtsLoader, Integers, FiniteSets

CONSTANTS
  Linkers,        \* sessions that link a report
  Dated,          \* report -> its date, Blank when it has none
  FlightDate      \* key of a flight -> its date

VARIABLES
  numericBooleans, \* whether the database casts a boolean to NUMERIC
  links,          \* report_flight_links: pairs <<report, flight key>>
  stage,          \* what a linker does
  linked,         \* its report, Blank when it has none
  best,           \* the candidates: a set of one flight key or of none
  snapshot,       \* the links its DELETE has seen
  deleted,        \* those it has deleted and not committed
  shared,         \* whether another session was linking the same report
  overlapping     \* reports whose links such a session has written

linkVars == <<numericBooleans, links, stage, linked, best, snapshot, deleted, shared, overlapping>>
dataVars == <<loaderVars, linkVars>>

Reports == DOMAIN Dated

LinkInit ==
  /\ numericBooleans \in BOOLEAN
  /\ links = {}
  /\ stage = [s \in Linkers |-> "idle"]
  /\ linked = [s \in Linkers |-> Blank]
  /\ best = [s \in Linkers |-> {}]
  /\ snapshot = [s \in Linkers |-> {}]
  /\ deleted = [s \in Linkers |-> {}]
  /\ shared = [s \in Linkers |-> FALSE]
  /\ overlapping = {}

-----------------------------------------------------------------------------
(* The flights that candidate_flights ranges over, and with limit 1 its    *)
(* possible answers: one with a confidence above zero, or none.            *)
Apart(r, key) == IF Dated[r] > FlightDate[key] THEN Dated[r] - FlightDate[key]
                 ELSE FlightDate[key] - Dated[r]
Nearby(r) == {key \in Keys(flights) : Apart(r, key) <= 1}
Candidates(r) ==
  {{}} \cup (IF Dated[r] # Blank /\ numericBooleans THEN {{key} : key \in Nearby(r)} ELSE {})

LinksOf(r) == {l \in links : l[1] = r}

-----------------------------------------------------------------------------
(* The candidates are read, or the query raises.                           *)
Answers(r) == Dated[r] = Blank \/ numericBooleans
ReadCandidates(s, r) ==
  LET others == {t \in Linkers \ {s} : stage[t] # "idle" /\ linked[t] = r}
  IN  /\ stage[s] = "idle"
      /\ stage' = [stage EXCEPT ![s] = IF Answers(r) THEN "delete" ELSE "raised"]
      /\ linked' = [linked EXCEPT ![s] = r]
      /\ \E candidates \in Candidates(r) : best' = [best EXCEPT ![s] = candidates]
      /\ shared' = [t \in Linkers |-> shared[t] \/ t \in others \/ (t = s /\ others # {})]
      /\ UNCHANGED <<loaderVars, links, snapshot, deleted, overlapping>>

(* The DELETE begins, and ends when no other session holds one of the rows *)
(* that it has seen.                                                       *)
BeginDelete(s) ==
  /\ stage[s] = "delete"
  /\ stage' = [stage EXCEPT ![s] = "deleting"]
  /\ snapshot' = [snapshot EXCEPT ![s] = LinksOf(linked[s])]
  /\ UNCHANGED <<loaderVars, links, linked, best, deleted, shared, overlapping>>

(* Variant: nothing is deleted.                                            *)
DeletedNone(s) == {}
Deleted(s) == snapshot[s] \cap links
DeleteLinks(s) ==
  /\ stage[s] = "deleting"
  /\ \A t \in Linkers \ {s} : deleted[t] \cap snapshot[s] = {}
  /\ stage' = [stage EXCEPT ![s] = "add"]
  /\ deleted' = [deleted EXCEPT ![s] = Deleted(s)]
  /\ UNCHANGED <<loaderVars, links, linked, best, snapshot, shared, overlapping>>

Finish(s) ==
  /\ stage' = [stage EXCEPT ![s] = "idle"]
  /\ linked' = [linked EXCEPT ![s] = Blank]
  /\ best' = [best EXCEPT ![s] = {}]
  /\ snapshot' = [snapshot EXCEPT ![s] = {}]
  /\ deleted' = [deleted EXCEPT ![s] = {}]
  /\ shared' = [shared EXCEPT ![s] = FALSE]
  /\ UNCHANGED loaderVars

(* The new link, if there is a candidate, is flushed and committed.  The   *)
(* primary key (report_id, flight_id) refuses a link that another session  *)
(* has added in the meantime.                                              *)
Added(s) == {<<linked[s], key>> : key \in best[s]}
CommitLink(s) ==
  /\ stage[s] = "add"
  /\ Added(s) \cap (links \ deleted[s]) = {}
  /\ links' = (links \ deleted[s]) \cup Added(s)
  /\ overlapping' = IF shared[s] THEN overlapping \cup {linked[s]} ELSE overlapping \ {linked[s]}
  /\ Finish(s)

(* A session whose query has raised, or that fails or dies at any other    *)
(* point, is rolled back.                                                  *)
AbortLink(s) ==
  /\ stage[s] # "idle"
  /\ UNCHANGED <<links, overlapping>>
  /\ Finish(s)

(* The loader takes a step.  If the tables are erased, which waits for the *)
(* sessions that read them, the links are gone too.                        *)
LoaderStep ==
  /\ \/ LoadsNext /\ links' = links
     \/ EraseTables /\ links' = {} /\ \A s \in Linkers : stage[s] = "idle"
  /\ UNCHANGED <<stage, linked, best, snapshot, deleted, shared, overlapping>>

DataInit == LoaderInit /\ LinkInit

DataNext ==
  /\ UNCHANGED numericBooleans
  /\ \/ LoaderStep
     \/ \E s \in Linkers :
          \/ \E r \in Reports : ReadCandidates(s, r)
          \/ BeginDelete(s) \/ DeleteLinks(s) \/ CommitLink(s) \/ AbortLink(s)

DataSpec == DataInit /\ [][DataNext]_dataVars

-----------------------------------------------------------------------------
(* Linking a report again replaces its link and never adds to it, as the   *)
(* docstring says - for sessions that do not overlap on the report: of two *)
(* that do, neither deletes what the other adds, and they may choose       *)
(* different flights.  A link made alone afterwards puts it right.         *)
OneLinkUnlessOverlap ==
  \A r \in Reports \ overlapping : Cardinality(LinksOf(r)) <= 1
=============================================================================
