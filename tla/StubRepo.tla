------------------------------ MODULE StubRepo ------------------------------
(***************************************************************************)
(* The API without a database: services/api/repo.py keeps the documents    *)
(* and the reports in the process, for all threads that serve requests,    *)
(* without a lock.                                                         *)
(*                                                                         *)
(* A thread serves one request at a time: an upload, a complete, a page of *)
(* the worklist, or an assignment.  What another thread can do between two *)
(* steps of it - a check and the assignment it guards, the sorting of a    *)
(* page and the cursor made of its last row - are actions of their own.    *)
(***************************************************************************)
EXTENDS Integers, Sequences, FiniteSets

CONSTANTS
  Clerks,         \* threads
  Pdfs,           \* what is uploaded
  Rows,           \* the ids of the seeded reports
  Base,           \* their score without a flag, by day and report
  FlagBonus,      \* what manager_flagged adds
  Dates,          \* their report_date, 0 for None
  PageSize,
  MaxDocuments, MaxFailures   \* bounds: document rows, sends that raise per row

ASSUME StubAssumption ==
  /\ Rows \subseteq Nat
  /\ Base \in [0 .. 1 -> [Rows -> 0 .. 100]]
  /\ FlagBonus \in 0 .. 100
  /\ Dates \in [Rows -> Nat]
  /\ PageSize \in Nat \ {0}

VARIABLES
  documents,      \* id -> [pdf, status]: self.documents, ids from 1
  queueUrl,       \* whether settings.sqs_queue_url is set
  accepted,       \* how many answers have said of a document that it is enqueued
  sent,           \* how many messages the queue has taken for it
  failures,       \* how many sends for it have raised
  cpc, target,    \* what a clerk does, and with which PDF or document
  raced,          \* whether two checks of a document overlapped
  today, flags,   \* the day, and the reports that are flagged
  step,           \* what the request for a page does
  ranked, asOf,   \* the rows a page request has kept, with what they were sorted by; its day
  touched,        \* the rows whose score has changed since
  cursor,         \* where the walk stands
  listed,         \* how often it has listed a report; 2 stands for more
  steady,         \* the reports whose score has not changed during the walk
  slipped         \* whether a page's last row has changed before its cursor was made

countVars == <<accepted, sent, failures>>
uploadVars == <<documents, queueUrl, countVars, cpc, target, raced>>
walkVars == <<today, flags, step, ranked, asOf, touched, cursor, listed, steady, slipped>>
stubVars == <<uploadVars, walkVars>>

Top == [score |-> 1000, date |-> 0, id |-> 0]
End == [score |-> -1, date |-> 0, id |-> 0]
NoRows == [r \in {} |-> Top]

(* _seed: the three console users are left out, no row is flagged.  The    *)
(* API can run with a queue and, as its tests and a laptop do, without.    *)
StubInit ==
  /\ documents = <<>>
  /\ queueUrl \in BOOLEAN
  /\ accepted = <<>> /\ sent = <<>> /\ failures = <<>>
  /\ cpc = [c \in Clerks |-> "idle"]
  /\ target = [c \in Clerks |-> 0]
  /\ raced = FALSE
  /\ today = 0
  /\ flags = {}
  /\ step = "rank"
  /\ ranked = NoRows
  /\ asOf = 0
  /\ touched = {}
  /\ cursor = Top
  /\ listed = [r \in Rows |-> 0]
  /\ steady = Rows
  /\ slipped = FALSE

Becomes(c, next) == cpc' = [cpc EXCEPT ![c] = next]
Others(c, steps) == \E o \in Clerks \ {c} : cpc[o] \in steps /\ target[o] = target[c]

-----------------------------------------------------------------------------
(* upload_url: document_by_sha, the check of create_document and its       *)
(* insert.                                                                 *)
Holds(pdf) == \E i \in DOMAIN documents : documents[i].pdf = pdf

UploadUrl(c, pdf) ==
  /\ cpc[c] = "idle"
  /\ ~Holds(pdf)
  /\ Len(documents) < MaxDocuments
  /\ Becomes(c, "create")
  /\ target' = [target EXCEPT ![c] = pdf]
  /\ UNCHANGED <<documents, countVars, raced>>

CheckSha(c) ==
  /\ cpc[c] = "create"
  /\ Becomes(c, IF Holds(target[c]) THEN "idle" ELSE "insert")
  /\ raced' = (raced \/ (~Holds(target[c]) /\ Others(c, {"insert"})))
  /\ UNCHANGED <<documents, countVars, target>>

CreateDocument(c) ==
  /\ cpc[c] = "insert"
  /\ documents' = Append(documents, [pdf |-> target[c], status |-> "received"])
  /\ accepted' = Append(accepted, 0) /\ sent' = Append(sent, 0) /\ failures' = Append(failures, 0)
  /\ Becomes(c, "idle")
  /\ UNCHANGED <<target, raced>>

-----------------------------------------------------------------------------
(* complete: mark_queued in two steps, the send, and its failure.          *)
(* Variant: the status is not looked at.                                   *)
MayQueueAlways(d) == TRUE
MayQueue(d) == documents[d].status = "received"
CheckStatus(c, d) ==
  /\ cpc[c] = "idle"
  /\ MayQueue(d)
  /\ Becomes(c, "mark")
  /\ target' = [target EXCEPT ![c] = d]
  /\ raced' = (raced \/ \E o \in Clerks : cpc[o] = "mark" /\ target[o] = d)
  /\ UNCHANGED <<documents, countVars>>

SetStatus(d, status) == documents' = [documents EXCEPT ![d].status = status]
MarkQueued(c) ==
  /\ cpc[c] = "mark"
  /\ SetStatus(target[c], "queued")
  /\ Becomes(c, "send")
  /\ UNCHANGED <<countVars, target, raced>>

(* 202 with enqueued = true; without a queue URL nothing is sent.          *)
OneMore(count, d) == [count EXCEPT ![d] = @ + 1]
SendMessage(c) ==
  /\ cpc[c] = "send"
  /\ accepted' = OneMore(accepted, target[c])
  /\ IF queueUrl THEN sent' = OneMore(sent, target[c]) ELSE UNCHANGED sent
  /\ Becomes(c, "idle")
  /\ UNCHANGED <<documents, failures, target, raced>>

(* The send raises: the queue has not taken the message, or it has and     *)
(* only its answer was lost.                                               *)
SendRaises(c) ==
  /\ cpc[c] = "send"
  /\ queueUrl
  /\ failures[target[c]] < MaxFailures
  /\ failures' = OneMore(failures, target[c])
  /\ sent' = OneMore(sent, target[c]) \/ UNCHANGED sent
  /\ Becomes(c, "unmark")
  /\ UNCHANGED <<documents, accepted, target, raced>>

UnmarkQueued(c) ==
  /\ cpc[c] = "unmark"
  /\ IF documents[target[c]].status = "queued"
     THEN SetStatus(target[c], "received") ELSE UNCHANGED documents
  /\ Becomes(c, "idle")
  /\ UNCHANGED <<countVars, target, raced>>

Clerk(c) ==
  \/ \E pdf \in Pdfs : UploadUrl(c, pdf)
  \/ \E d \in DOMAIN documents : CheckStatus(c, d)
  \/ CheckSha(c) \/ CreateDocument(c)
  \/ MarkQueued(c) \/ SendMessage(c) \/ SendRaises(c) \/ UnmarkQueued(c)

UploadNext == (\E c \in Clerks : Clerk(c)) /\ UNCHANGED queueUrl

-----------------------------------------------------------------------------
(* priority, and the position of a report with a given score.              *)
Score(day, flagged, r) == Base[day][r] + IF r \in flagged THEN FlagBonus ELSE 0
SortKey(score, r) == [score |-> score, date |-> Dates[r], id |-> r]

(* sort_key: a is listed before b - score, date and id descending.         *)
(* Variant: without the id.                                                *)
ListedBeforeNoId(a, b) ==
  \/ a.score > b.score
  \/ a.score = b.score /\ a.date > b.date
ListedBefore(a, b) ==
  \/ a.score > b.score
  \/ a.score = b.score /\ a.date > b.date
  \/ a.score = b.score /\ a.date = b.date /\ a.id > b.id

Key(day, r) == SortKey(Score(day, flags, r), r)

(* list_reports: the day is read, and all rows are sorted by the scores    *)
(* that they have now.  No two rows tie, so the list is what each row was  *)
(* sorted by.                                                              *)
Rank ==
  /\ step = "rank"
  /\ cursor # End
  /\ step' = "cut"
  /\ asOf' = today
  /\ ranked' = [r \in Rows |-> Key(today, r)]
  /\ touched' = {}
  /\ UNCHANGED <<today, flags, cursor, listed, steady, slipped>>

(* rows[:n]: the part of a list that comes first in the sorted order.      *)
FirstRows(n, list, part) ==
  /\ IF Cardinality(list) > n THEN part \subseteq list /\ Cardinality(part) = n ELSE part = list
  /\ \A r \in part, s \in list \ part : ~ListedBefore(ranked[s], ranked[r])

(* The rows after the cursor are kept, one more than a page of them.       *)
Cut ==
  /\ step = "cut"
  /\ step' = "show"
  /\ LET later == {r \in DOMAIN ranked : ListedBefore(cursor, Key(asOf, r))} IN
     \E kept \in SUBSET later :
       /\ FirstRows(PageSize + 1, later, kept)
       /\ ranked' = [r \in kept |-> ranked[r]]
  /\ UNCHANGED <<today, flags, asOf, touched, cursor, listed, steady, slipped>>

(* worklist_fragment shows a page; if there is more, the next cursor has   *)
(* the score that the last row has by then.                                *)
More == Cardinality(DOMAIN ranked) > PageSize
IsLast(last, page) == last \in page /\ \A r \in page : ~ListedBefore(ranked[last], ranked[r])
Show ==
  /\ step = "show"
  /\ step' = "rank"
  /\ \E page \in SUBSET DOMAIN ranked :
       /\ FirstRows(PageSize, DOMAIN ranked, page)
       /\ listed' = [r \in Rows |->
                        IF r \in page /\ listed[r] < 2 THEN listed[r] + 1 ELSE listed[r]]
       /\ IF More
          THEN \E last \in page : /\ IsLast(last, page)
                                 /\ cursor' = Key(today, last)
                                 /\ slipped' = (slipped \/ last \in touched)
          ELSE cursor' = End /\ UNCHANGED slipped
  /\ ranked' = NoRows /\ touched' = {}
  /\ UNCHANGED <<today, flags, asOf, steady>>

(* The scores of some rows change.                                         *)
Rescored(rows) ==
  /\ steady' = steady \ rows
  /\ touched' = IF step = "rank" THEN {} ELSE touched \cup rows

(* assign sets the flag of a row, as asked.                                *)
Assign(r, flagged) ==
  /\ flagged # (r \in flags)
  /\ flags' = IF flagged THEN flags \cup {r} ELSE flags \ {r}
  /\ Rescored({r})
  /\ UNCHANGED <<today, step, asOf, ranked, cursor, listed, slipped>>

(* Midnight: reports age, and their recency is scored anew.                *)
Midnight ==
  /\ today = 0
  /\ today' = 1
  /\ Rescored({r \in Rows : Base[0][r] # Base[1][r]})
  /\ UNCHANGED <<flags, step, asOf, ranked, cursor, listed, slipped>>

WalkNext ==
  \/ Rank \/ Cut \/ Show \/ Midnight
  \/ \E r \in Rows, flagged \in BOOLEAN : Assign(r, flagged)

StubNext == (UploadNext /\ UNCHANGED walkVars) \/ (WalkNext /\ UNCHANGED uploadVars)

StubSpec == StubInit /\ [][StubNext]_stubVars

-----------------------------------------------------------------------------
(* A PDF has one row, and a row that says queued has one request that was  *)
(* told so, or that is about to send or to take the status back - the      *)
(* promise of the unique constraint and of the UPDATE that the stub        *)
(* mirrors.  Two threads whose checks overlap can break it.  With a queue, *)
(* every answer that a document is enqueued stands for a message, and a    *)
(* message beyond those for a send that raised after the queue took it;    *)
(* without one, there is no message at all.                                *)
OneRowOneMessage ==
  /\ \/ raced
     \/ /\ \A i, j \in DOMAIN documents : documents[i].pdf = documents[j].pdf => i = j
        /\ \A i \in DOMAIN documents :
             LET sending == {c \in Clerks : target[c] = i /\ cpc[c] \in {"send", "unmark"}}
             IN  accepted[i] + Cardinality(sending) = IF documents[i].status = "queued" THEN 1 ELSE 0
  /\ \A i \in DOMAIN documents :
       IF queueUrl THEN accepted[i] <= sent[i] /\ sent[i] <= accepted[i] + failures[i]
       ELSE sent[i] = 0

(* A walk over the pages lists every report whose score stays what it is   *)
(* exactly once, whatever is assigned and even over midnight - unless the  *)
(* last row of a page changes between the sorting and the making of the    *)
(* cursor, which reads its score again.                                    *)
SteadyListedOnce ==
  slipped \/ \A r \in steady :
    listed[r] =
      IF \/ cursor = Top
         \/ cursor # End /\ ~ListedBefore(Key(today, r), cursor) /\ Key(today, r) # cursor
      THEN 0 ELSE 1
=============================================================================
