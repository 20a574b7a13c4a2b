# Occurrence Desk in TLA+

Occurrence Desk takes PDF files of aviation safety reports, extracts the
reports, ranks them and shows them to analysts. This directory holds TLA+
modules of its core and of what stands around it (the backends without a
database, the parser, the schema and its migrations, the local stack, the flight
data), the TLC configurations that check them on small instances, and proofs for
TLAPS. `PROJECT.json` maps every definition to the source lines
it stands for and lists the runs, the hazards and the theorems.

## 1. Inventory

| Component | Source | State it keeps | Operations | Talks to |
|---|---|---|---|---|
| Upload page | `web/templates/upload.html` | the step it is at | reserve, upload, complete | API (HTTP), object store (presigned POST) |
| Documents router | `services/api/routers/documents.py` | none | `upload_url`, `complete` | repository, queue |
| Repository | `db/repo.py` (PostgreSQL), `services/api/repo.py` (in-memory stub) | `documents`, `reports`, `dispositions`, ... | `create_document`, `mark_queued`, `unmark_queued`, `list_reports`, `add_disposition`, `assign`, `priority` | database |
| Parse queue | SQS or ElasticMQ, set up by `infra/local/bootstrap.py` | messages, receive counts, dead-letter queue | send, receive, extend, delete, redrive | API, worker |
| Worker | `services/worker/worker.py` | the message it handles | `run`, `handle_message`, `VisibilityHeartbeat` | queue, object store, worker store |
| Worker store | `services/worker/sql_store.py` (PostgreSQL), `json_store.py` (file) | the same tables | `claim_for_parsing`, `save_reports`, `mark_parsed`, `mark_failed` | database, alerts |
| Parser and classifier | `services/worker/parser.py`, `hazards.py`, `classifier.py` | none | `parse_pdf`, `predict_hazards` | called by the worker |
| Ranking | `services/api/ranking.py`, `db/priority.py` | `reports.priority`, a stored copy of the score | `priority`, `refresh_priorities` | worker store, repository |
| Worklist | `services/api/pagination.py`, `list_reports`, `routers/reports.py` | none (the cursor is the client's) | list, export, why | repository |
| Alerts | `services/api/alerts.py` | the ACNs alerted by this process | `maybe_alert` | called by `save_reports`, webhook |
| Triage | `routers/reports.py`, `security.py`, `deps.py` | `dispositions`, `reports.state`, `assigned_to`, `manager_flagged` | disposition, assign | repository |
| Queue statistics | `services/api/queue_stats.py`, `routers/queue.py` | one cached snapshot | `get`, `fetch_from_sqs`, `drain_eta_seconds` | queue, `ingest_events` |
| Flight linkage | `db/linkage.py` | `report_flight_links` | `candidate_flights`, `link_best_candidate` | database |
| Loaders | `db/seed/*.py` | reference tables, `flights` | `load_reference_data`, `load_flights` | database |
| Schema | `db/models.py`, `db/alembic/` | tables, foreign keys, indexes, the revision | upgrade, downgrade | run by `infra/local/migrate.py` |
| Local stack | `infra/local/manage.py`, `docker-compose.yml` | containers, volumes | infra-up, up, down, destroy, db-reset | migrations, seeds, services |
| Latency, metrics | `services/api/latency.py`, `metrics.py` | a histogram | observe, quantile | middleware |
| Console, chat, auth, deployment | `services/api/main.py`, `charts.py`, `routers/chat.py`, `routers/auth.py`, `infra/`, `ops/` | none of their own | read-only pages, infrastructure | - |

What is hard here is the path from the upload to the reports table. Four kinds
of actor work on one `documents` row - upload pages, API threads, the queue and
the workers - without a common lock. Each of them can stop between two commits,
the queue delivers at least once, and a message can reappear while its worker
still parses. What makes the components correct:

* **Ingestion**: a document that says *parsed* has all its reports in the table;
  a message is deleted only when they are; every ACN enters once; an accepted
  document is not lost; a PDF that cannot be parsed ends in the dead-letter
  queue and says *failed*; a report is alerted about at most once.
* **Ranking and worklist**: the stored priority that orders the worklist agrees
  with the score that is shown; walking the pages yields each report once.
* **Triage**: a disposition and an assignment do not undo one another.
* **Queue statistics**: answers are recent and the queue is asked once per TTL.
* **JSON file and in-memory repository**: they keep the promises of the
  PostgreSQL code that they stand in for, as far as one process at a time goes.
* **Parser**: what a report set prints is what comes out, record by record.
* **Schema**: migrations fit the models in both directions; no service runs on
  anything but the head schema with its seeds.
* **Flight data**: a load goes through and can be repeated; a report has one
  link at most.
* **Alerts**: a report whose score reaches the threshold is alerted about, once.

## 2. Modules

| Module | What it is |
|---|---|
| `Catalogue` | what ingestion promises, in three variables: no queue, no worker, no crash |
| `Ingest` | the core: upload page, documents router, `documents` row, queue, workers and their store |
| `MCIngest` | instances of `Ingest` for TLC |
| `IngestProofs` | theorems about `Ingest` with their TLAPS proofs |
| `Worklist` | the ranked worklist: stored priority, keyset paging, export, under inserts, scoring and assignments |
| `MCWorklist` | instances of `Worklist` for TLC |
| `WorklistProofs` | theorems about `Worklist` with their TLAPS proofs |
| `Triage` | dispositions and assignments of a report by concurrent requests |
| `TriageProofs` | theorems about `Triage` with their TLAPS proofs |
| `JsonStore` | the worker's JSON file, shared by processes that do not share its lock |
| `QueueStats` | the cache of the queue's statistics, read and refilled by threads |
| `StubRepo` | the in-memory repository: uploads, and the worklist over reports whose score moves |
| `Parser` | the PDF parser, against the layout of a report set |
| `MCOffline` | the four of them, one at a time, for TLC |
| `Schema` | both migrations, statement by statement, and the tables of the models |
| `LocalStack` | extends `Schema`: the commands of `manage.py`, the services, what outlives a reset |
| `BtsLoader` | the two passes of a load of flights |
| `Linkage` | extends `BtsLoader`: `link_best_candidate` in overlapping sessions, the best flight left open |
| `MCStack` | the stack and the flight data, one at a time, for TLC |
| `OfflineProofs` | theorems about `JsonStore` and `QueueStats` |
| `StubRepoProofs`, `ParserProofs`, `LocalStackProofs`, `LinkageProofs` | theorems about the module of that name |

Four compositions follow the code: `Linkage` reads the flights that `BtsLoader`
writes, `LocalStack` starts services on what `Schema` has made of the database,
and `Ingest` and `JsonStore`, the two stores of the worker, implement `Catalogue`. `MCOffline` and `MCStack` only put modules
without common state into one run.

### 2.1 Ingest

One action is one committed transaction, one call to the queue or the object
store, or one local step that another actor can overtake.

| State | Code |
|---|---|
| `status[d]` | `documents.status`; `"absent"` while there is no row |
| `owner[r]` | `reports.document_id` of the ACN `r`; `NoDoc` while there is no row |
| `scored` | the ACNs whose `reports.priority` is not NULL |
| `parsedEvents[d]` | the `document.parsed` rows of `ingest_events` |
| `objects` | the PDFs in the bucket |
| `mstate[m]`, `receives[m]` | the queue; `m` is a document and the rank of its send |
| `cpc[c]`, `cdoc[c]` | an upload page and the request it has in flight |
| `wpc[w]`, `wmsg[w]`, `wreceipt[w]` | a worker in `handle_message`, its message and its receipt handle |
| `pending[w]` | `inserted` in `save_reports`: the rows still to be scored |
| `sendFaults`, `apiCrashes`, `dbFaults`, `workerFaults` | fault budgets, model only |
| `abandoned` | the messages whose worker died in their latest attempt, history, model only |

| Actions | Code |
|---|---|
| `ReserveKnown`, `ReserveNew`, `CreateDocument` | `upload_url`: the look-up and the insert are two transactions |
| `Upload`, `UploadRejected` | the page's POST to the presigned URL |
| `MarkQueued`, `NotEnqueued`, `Send`, `SendFails`, `UnmarkQueued` | `complete` |
| `RequestRaises` | a database call of a request raises, also `unmark_queued` inside the `except` of the send |
| `ApiCrash` | every request in flight ends where it is |
| `Receive`, `Expire`, `Redrive` | the queue (external) |
| `Claim`, `DropDuplicate` | `claim_for_parsing` and the early return of `handle_message` |
| `Parse`, `ParseRaises`, `StepRaises`, `MarkFailed` | the `try` and its `except` |
| `SaveReports`, `Score` | `save_reports`: one transaction for the insert, then one per inserted report |
| `MarkParsed`, `Delete` | the end of `handle_message` |
| `WorkerCrash` | the process dies, or an exception leaves `handle_message` |

What is abstracted: a PDF is its sha256 and the set of ACNs in it
(`Contents[d]`; the documents in `Unreadable` always raise); the text, the
fields and the hazards of a report, `attempts` and `error_text` (written and
displayed, never read by a decision) are left out; the order of the scoring loop
is free. A call that fails after its effect is modelled for `send_message`
(`SendFails`), `mark_queued` (`RequestRaises`: committed, and the answer lost) and
`delete_message` (`WorkerCrash` after a reappearance covers the retry).
`create_document` and `unmark_queued` that raise are rolled back: with a commit
whose answer is lost their rows are as after the call, and the request ends there
anyway. For the worker's transactions `WorkerCrash` and `StepRaises` come right
after a commit as well as before it.

`QueueUrlSet` is `settings.sqs_queue_url` (`documents.py:109`). Where it is empty
`complete` marks the row, sends nothing and answers `enqueued=true`. The runs have
a queue; the theorems are about both, and what needs a queue says so (`ApiSound`).

The worker part is written from `sql_store.py`, the API part from `db/repo.py`:
the PostgreSQL backends, the ones `infra/local/worker_entry.py` insists on.

### 2.2 Catalogue

`Take` brings in all new reports of a document at once, `Confirm` and `Ack` are
allowed for complete documents only, `Retract` takes a confirmation back (a
second worker that fails late does that). `Ingest` implements it under the
mapping `catalogue <- owner`, `confirmed <-` the documents that say *parsed*,
`acked <-` the documents with a deleted message.

`JsonStore` implements it too, until two processes overlap or one dies in the
middle of a write: `catalogue` and `confirmed` are then read off the file, or off
the copy that is being written (`Current`), and `acked <- settled`. So the two
backends promise the same, and what the file does not promise is named.

### 2.3 Worklist

`Ingest` and `Worklist` meet in `save_reports`: what is `SaveReports` and `Score`
there is `Insert` and `Score` here, with the documents and the queue left out and
the severity of a report kept.

| State | Code |
|---|---|
| `rows`, `severity[i]`, `flagged[i]` | `reports`, the largest `severity_weight` of its hazards in hundredths, `manager_flagged` |
| `scored`, `stored[i]` | `reports.priority` that is not NULL, and its value |
| `pending` | the reports a worker still has in its scoring loop |
| `minimum`, `started`, `cursor` | a walk's `priority_min`, and its cursor once it has one |
| `wpc`, `listed` | whether a walk is under way, the reports on its pages so far |
| `repeated`, `steady`, `changed`, `unsound` | what the properties remember of the walk, model only |

| Actions | Code |
|---|---|
| `Insert`, `Score`, `Strand` | the two halves of `save_reports`, and a worker that dies between them |
| `Assign` | `SqlRepo.assign`: flag and refreshed priority in one transaction |
| `StartWalk`, `NextPage`, `LastPage` | `list_reports` of the repository and the router, asked again with `next_cursor` until there is none; the loop of `_export_rows` is the same walk |

A walk's page is one action: rows, scores and cursor are read in one session. The
refresh is one UPDATE of one row, so it sees the flag that it stores the score
for, whatever commits before it. Dates and flight links stay out because nothing
in `services/` writes them: the parser leaves `report_date` empty and
`link_best_candidate` has no caller there. Undated reports are 3650 days old, so
their recency term is 0.0009 points; it only turns a tie of the rounding upwards.
It also follows that a new report scores at most 43 of the 70 an alert needs:
`maybe_alert` cannot fire at its only call site as the code stands. That is why
alerts are not a property of this module.

### 2.4 Triage

A request is a thread of the API with a database session. A session sees what is
committed and holds the lock of the report's row from its first UPDATE on.

| State | Code |
|---|---|
| `state`, `assignee`, `flagged` | the columns of the row |
| `scoredFlag` | the flag that `reports.priority` was computed with |
| `dispositions`, `nextId` | the table and the sequence behind its ids |
| `lock` | the row's lock |
| `pc`, `by`, `asked`, `seen`, `ticket` | the requests: principal, body, the row as `assign` read it, the id of the new disposition |
| `overtaken`, `usurped`, `lastAsked` | what the properties remember, model only |

| Actions | Code |
|---|---|
| `CheckDisposition` | `disposition`: the read and the check; a refused request changes nothing and is no step |
| `UpdateState`, `CommitDisposition` | `add_disposition`: the sessions do not autoflush, so the UPDATE of the report comes before the INSERT, which takes its id under the row's lock |
| `ReadForAssign`, `CommitAssign` | `SqlRepo.assign`: `session.get`, then flush, refresh and commit |
| `Fail` | the session ends without a commit |

`CommitAssign` writes the columns that differ from what the session had read, as
the ORM does: of two assignments that overlap, one may set the assignee and the
other the flag. `AssignedAsAsked` says that this needs an overlap, and
`PriorityFollowsFlag` that the stored priority follows the row even then.

### 2.5 JsonStore

A call of the store is three steps: `Load` reads the file and edits the copy
(`Edited`), `Truncate` and `Write` are the two halves of `write_text`. A report
is stored with the document that brought it in. A call takes effect, for
`FileImplementsCatalogue`, where it truncates the file: from then on its copy is
what the file will say. `Refuse`,
`MarkNothing` and `LoadRaises` are the early returns and the exception of a
torn file; `Start`, `ParsePdf`, `DeleteMessage` and `Crash` are the part of
`handle_message` around the calls. The lock is a `threading.Lock`, so it is
not there between processes. `overlapped` and `cut` remember the two accidents
that the file does not survive.

### 2.6 QueueStats

`Get` reads the clock and the cache; `Measure` is the moment the queue answers,
`Fill` stores the snapshot stamped with the beginning of the call, and `Answer`
reads the cache once more, which is what `get` returns. `Tick` is the clock; a
request takes at most `Slowest`. A failing fetch (`FetchRaises`) is not cached.

### 2.7 StubRepo

A thread's check and the assignment it guards are two actions each (`CheckSha`
and `CreateDocument`, `CheckStatus` and `MarkQueued`), because the stub has no
lock. `queueUrl` is chosen at the start: the API runs with a queue, or without one,
as its tests do, and then `SendMessage` accepts the document and sends nothing.
`accepted`, `sent` and `failures` count, for each row, the answers that said
`enqueued=true`, the messages the queue took, and the sends that raised;
`SendRaises` leaves open whether the queue has taken the message. So
`OneRowOneMessage` counts messages between the number of accepted answers and that
number plus the failures. A page of the worklist is three: `Rank` sorts by the scores of the moment,
`Cut` keeps one row more than a page after the cursor, `Show` makes the next
cursor from a score that is read again. `Assign` and `Midnight` move scores in
between. The sorted list is `ranked`, the rows with the keys that they were sorted
by: the id is part of the key, so no two rows tie and the keys are the order.
`FirstRows` is a slice of such a list.

### 2.8 Parser

`RecordStarts`, `TakeLine`, `ParseOneRecord` and `ParsedRecords` are
`_find_full_record_starts`, the loop body and the whole of `_parse_one_record`,
and `parse_pdf`. `ReadLines` is the loop, a recursive function from the state
`Opened`; `LastLine` is `end_idx`. A line is what the regular expressions make of
it: a kind and what they capture.

The layout of a report set is outside the code: `LayFront` and `LayRecord`.
`PrintFront` and `PrintRecord` print it entry by entry: `lines` is the text so far,
`front` the synopses of the front matter, `records` the full records, each with
the line it begins on. `ExtractedAsPrinted` compares what the parser reads out of
`lines` with `records`, after every entry, so a report set of every length is
compared. A record whose prose has lines that read like headers is mangled, which
`PlainRecord` admits; its neighbours must not be. `NoFalseStart` is the one case
in which they are: an ACN right above the next record, or a line "Time / Day" in
the prose, opens a record that was never printed.

### 2.9 Schema and LocalStack

`Upgrades` and `Downgrades` are the statements of both revisions in their order,
with the extensions of 0001 (`users.email` needs `citext`, the query of the linkage
`pg_trgm`) and the rows that 0002 inserts;
`Migrate`, `Execute`, `Commit` and `Rollback` are alembic's transaction. `Fits`
and `Applied` are PostgreSQL's side: names and references. `Path` is the
statements between two revisions, the scripts that the way `Passed`.

In `LocalStack` a command is the sequence of docker commands that `manage.py`
issues; `terminal` holds the next one. `Interrupt` is Ctrl-C or a failing
command between any two, inside a migration, and between two volumes. Of `Ingest`
the steps are here between which a stopped service leaves something half done:
`Register`, `MarkQueued`, `Send` for the API (`sending` holds the ids between the
last two), `Claim`, `Store`, `MarkParsed`, `ParseFails`, `Delete` for the one
worker (`job`). `Stop`, which `Down`, `Destroy`, `DbReset` and `Exit` share, ends both
where they are: an id that was in `sending` is remembered in `stranded` (the run
`api_crash` in detail), a job's message comes back.

The volumes of the database and the queue are separate: `Destroy` stops the
services and `RemoveVolume` removes one volume after the other, in any order
(`doomed`); `DbReset` erases the rows only, and keeps queue and bucket, as
`infra/local/README.md` says. That rows and messages were erased one without the
other - a reset or a downgrade to the base under a queue that has messages, a
destroy interrupted between its volumes - is remembered in `leftover`.
`Alembic` by hand (the commands of `db/README.md`) is allowed only
while no service runs. That is an assumption about the operator; nothing in the
code enforces it, and `AppRunsOnSchema` depends on it.

### 2.10 BtsLoader and Linkage

`LoadReferenceData` and `LoadFlights` are the two transactions of a load, with
`FirstMentions` for the `setdefault` loop and `NewFlights` for the staging table
and `ON CONFLICT DO NOTHING`. The two passes read a cell in different ways. The
first takes `int(float(cell))` (`Number`), passes over an empty cell and raises for
a text that is no number (`Readable`, `ReferenceDataRaises`). The second casts the
text of every row with `::int`, which takes neither an empty cell nor `10397.0`
(`Plain`, `Castable`). The other cells of a row, whose values no decision reads, are in
`refusedBy`: the pass that refuses one of them, as an empty date or flight number is
refused by the second. `loaded` are the files of which both passes have gone
through since the tables were last erased. `KillLoad` ends a load in either pass,
by a signal or as the victim of a deadlock with another load, and `EraseTables` is
a `db-reset` at another terminal.

In `Linkage`, `ReadCandidates`, `BeginDelete`, `DeleteLinks`, `CommitLink` and
`AbortLink` are the statements of a session under READ COMMITTED: a DELETE waits
for rows that another session has deleted, and does not see what another has added
since. Which flight is best is left open (`Candidates`: one within a day of the
report, or none), so `OneLinkUnlessOverlap` rests on no score. `numericBooleans`
says whether the database casts a boolean to NUMERIC. PostgreSQL does not, and
then the query raises for every report with a date (section 5); with the cast, the
sessions do what the code is written to do. No caller of `link_best_candidate`
exists in the repository.

## 3. Runs

| Run | Instance | What it shows |
|---|---|---|
| `delivery` | 1 document, 2 pages, 2 workers, 2 sends, 3 receives, one fault of each kind, a database call of a request among them; about 3.2 million states | all safety properties of the core and the refinement |
| `sharing` | 2 documents that share an ACN, 1 page, 2 workers, 2 receives, 1 worker fault; about 265 000 states | one owner per ACN, complete documents, one scoring per report |
| `liveness` | a good and a broken PDF, 2 workers, 3 receives, 2 worker faults, reliable heartbeat; about 64 000 states | what must happen in the end, and that no message leaves the queue for the wrong reason |
| `api_crash` | as `delivery` | expected violation: a queued row without a message |
| `stranding` | as `delivery` | expected violation: reports that nobody will score |
| `resubmit` | as `delivery`, reliable heartbeat, no API crash | expected violation: a dead document reported as under way |
| `worklist` | 3 reports, pages of 1, severities 0.30 and 0.95, filters none and 20, 1 worker fault; about 239 000 states | stored and shown scores agree, no steady report is skipped, pages are disjoint above the unscored reports, filters hold, exports end |
| `worklist_unscored` | as `worklist` | expected violation: a report listed twice in a table that does not change |
| `triage` | 2 requests at a time, 2 analysts, 1 manager, 2 states, 2 disposition ids; about 61 000 states | latest disposition and state agree, assignments take effect, no request waits for ever |
| `offline` | 2 documents with a common ACN, 2 processes, 4 calls, 1 death; 2 threads, TTL 2, fetches of up to 3, clock to 5; 2 clerks, 2 PDFs, 2 rows, 1 failed send each, with and without a queue; 3 reports, pages of 1, one midnight; up to 1 front entry and 2 records of 6 proses, 3 tales, 3 bodies; about 3.1 million states | the file and its refinement of `Catalogue`, the cache, the stub and the parser |
| `stack` | 5 commands, 2 uploads; 2 loads at a time of 6 files, 3 in all, 2 linking sessions, with and without the cast; about 1.5 million states | migrations, the order of the stack, loads and links |
| `triage_reassigned` | as `triage` | expected violation: a disposition of a report that is another analyst's by then |

**Bounds.** Two pages and two workers are the smallest numbers with a race, and
every property relates at most two of each. `MaxSends = 2` is one retry after an
ambiguous failure, the only way to two messages. `MaxReceive = 3` is the code's
own value; `sharing` uses 2, enough for a redelivery, to stay small. One fault of
each kind is enough for each expected violation; `MaxDbFaults` is zero in the expected
violations, which do not need it, and in `sharing` and `liveness`, whose properties
do not depend on the API's requests. `liveness` allows two worker faults, the most
that three receives can absorb. Pages and workers are symmetric, as are the loads
and the sessions of `stack`; symmetry is not used where a liveness property is
checked. In
`worklist`, three reports and pages of one give walks of three pages with a
cursor in the middle, and equal scores that only the id tells apart; the two
severities are the ends of the taxonomy (scores 14 and 43, 24 and 53 with the
flag), and an assignment moves a 0.30 report across the filter of 20. Ids are
handed out in any order, as a sequence is when transactions commit out of order,
so no symmetry. In `triage` every race is between two requests; a second
analyst is needed for a report to be somebody else's, and two ids for an order
between dispositions. Assignments name analysts.

In `offline`, four calls are a register, a claim and what a second process needs
to overlap them; a fetch may outlast the TTL, which is what makes snapshots
cross. Two of the three reports tie but for their id and the third ages at
midnight, so that a cursor lands on a tie and on a score that moved. The prose of
the parser's vocabulary has lines that look like a section, like an ACN and like
the "Time / Day" that marks a full record. In
`stack`, five commands are an `up`, a reset or a downgrade, another `up`, and two
more to get in the way; the migrations themselves have no parameters, so for
them the run is exhaustive. The files have a duplicate flight, an airport named
first as a destination, one flight with two descriptions, one without a carrier,
an id with a decimal point, a cell that is no number, and a flight that the second
pass refuses. The theorems of section 4 do not depend on any of these numbers.

**Fairness** (`FairSpec`, used by `liveness` alone). API threads finish a request
they have begun; workers poll and go on, because the deployed containers are
restarted (`restart: unless-stopped` in `ops/vm/docker-compose.m6.yml`) and
`handle_message` has no unbounded wait; visibility timeouts pass and redrives
happen. Users owe nothing: `Upload`, `MarkQueued` and the start of a request are
not fair. Weak fairness is enough, nothing that is owed is disabled again by
another actor for ever. Faults are never owed. `HeartbeatReliable = TRUE` in this
run: without it a worker may lose its message again and again and nothing bounded
by receives can be promised.

In `worklist`, the export's loop asks for the next page until there is none, and a
worker in its scoring loop goes on; inserts, assignments and the start of a walk
are not fair. `WalkEnds` promises nothing once a worker has died with reports
unscored: that is the case `worklist_unscored` shows.

In `triage`, a request that has begun goes on. What waits for the row's lock has
strong fairness, because PostgreSQL grants a row's lock in the order of the
waiters; the commit needs weak fairness only. Failures are never owed.

`offline` and `stack` have safety properties only, and no fairness.

**Deadlock** is checked in the runs of `Ingest`, `Worklist` and `Triage`, where
somebody can always begin another request. `offline` and `stack` come to rest at
their bounds (calls, clock, commands), so it is not checked there.

## 4. Proofs

`IngestProofs` proves, for every value of the constants that satisfies
`IngestAssumption`:

| Theorem | Statement | Argument |
|---|---|---|
| `TypeCorrect` | `Spec => []TypeOK` | `TypeInv`: types, and a busy client or worker has a document or a message |
| `NothingLostOnceParsed` | `Spec => [](ParsedMeansStored /\ DeletedMeansStored)` | `StoreInv`, see below |
| `ScoredOnce` | `Spec => [](AlertedAtMostOnce /\ StrandingNeedsFault)` | `ScoreInv`: scored and pending reports are in the table, so the insert can make no other worker's report pending |
| `NoLossWithoutApiFault` | `Spec => [](OneSender /\ LossNeedsApiFault)` | `SendInv`: a row gets past *queued* only through a message, and a row that a request sends or undoes is past *received* |
| `Refinement` | `Spec => ImplementsCatalogue` | every step is a step of `Catalogue` or a stutter, from `StoreInv` |
| `ParsedOnceIfReliable` | `Spec => []ParsedOnce` | `SingleInv`, see below |
| `MessagesSettle` | `Spec => MessagesSettleRightly` | `SettleInv`, see below |
| `ParsedIsFinalIfReliable` | `Spec => ParsedIsFinal` | `SingleInv`: only a worker in the middle of a document changes its row, and then the row says *parsing* |

`ParsedMeansStored` is not inductive: what lets `MarkParsed` keep it is that a
worker at *mark* has stored the reports of its document, and what lets `Delete`
keep `DeletedMeansStored` is that a worker at *delete* has, or found the document
parsed. `StoreInv` adds both facts about program counters, and that a worker past
the parse holds a readable PDF. The lemma `StoredIsFinal` says that stored reports
stay stored in every step; it rests on `OwnerIsFinal`: no step changes the owner of
a report that has one. `StepRefines` maps `SaveReports` to `Take`, `MarkParsed` to
`Confirm`, `MarkFailed` to `Retract` or a stutter, `Delete` to `Ack`; the actions
that touch none of the three mapped variables are one lemma, `UnseenStutters`.

`ParsedOnce` and `ParsedIsFinal` have a premise: the heartbeat keeps a message
invisible as long as its worker handles it, and no send fails ambiguously. What
follows from it is a chain. A document has one message at most (`OneMessage`),
because only a row that never had one is sent for; a message is invisible while a
worker handles it, so a document is in the hands of one worker (`OneHolder`); and so
the row says *parsing* until that worker is through, and counts one event once it
says *parsed* (`RowFollowsWorker`). Each part is a lemma of its own
(`NextOneMessage`, `NextOneHolder`, `NextRowFollowsWorker`). API crashes, requests
that raise and worker crashes are not excluded.

`LossNeedsApiFault` has the premise `ApiSound`: a queue is configured, and no API
process has died and no database call of a request has raised. Each of the three
loses a document by itself; the run `api_crash` shows it for the crash.

`MessagesSettleRightly` is the part of the liveness properties that needs no
fairness: not that a message leaves the queue, but that it leaves it for the right
reason. `SettleInv` counts. A worker's receipt is the message's latest
(`Receipts`), so its delete is never without effect; a worker that goes to delete
has a readable PDF (`PoisonKept`); and every receive of a readable PDF is the one
under way, or has met a fault (`AttemptsCounted`), because without a fault it ends in
the deletion. Hence a message that has used up its receives has met as many faults,
and with fewer faults than `MaxReceive` no readable PDF is dead-lettered. For a
broken PDF, `FailureShown` says that an attempt that is over, and did not end with
the death of its worker (`abandoned`), has left the row *failed*, whatever earlier
attempts met. The premise `[]UploadedFirst` is one the API does not check:
`complete` takes a document whose PDF was never posted, and the worker then finds
no object.

`WorklistProofs` proves, under `WorklistAssumption`:

| Theorem | Statement | Argument |
|---|---|---|
| `PrioritiesAgree` | `Spec => [](WorklistTypeOK /\ ScoresAgree)` | inductive: whoever changes a term of the score stores the new score in the same step |
| `NothingIsSkipped` | `Spec => NothingSkipped` | `WalkInv`: an unlisted steady report lies ahead of the cursor |
| `PagesAreDisjoint` | `Spec => []RepeatNeedsUnscored` | `WalkInv`: in a sound walk the listed reports lie behind the cursor |
| `FilterIsKept` | `Spec => PageMeetsFilter` | `KeyBelowShown`: what a report sorts by is never above what it shows |

The key lemma is `PageStep`. A page ends on `last`; everything it leaves out comes
after `last` in the order of the *stored* keys, and the cursor is made of the
*shown* score. Since a key is never above the score, the cursor is never below
`last`, so nothing falls between two pages. They are equal only when `last` is
scored, which is why repetition needs an unscored report.

`TriageProofs` proves, under `TriageAssumption`:

| Theorem | Statement | Argument |
|---|---|---|
| `TriageTypes` | `Spec => []TriageTypeOK` | inductive, proved and not in a run; includes that only a session about to commit holds the lock |
| `StateFollowsDispositions` | `Spec => []StateIsLastDisposition` | `TriageInv`: the holder of the lock has the latest id |
| `OnlyOvertakenUsurp` | `Spec => []UsurpingNeedsOvertaking` | `TriageInv`: until an assignment overtakes it, what a disposition checked is still true |
| `AssignmentsTakeEffect` | `Spec => [](AssignedAsAsked /\ PriorityFollowsFlag)` | `FlushWritesAll`: the columns an assignment leaves out are as it wants them, unless it was overtaken |

The smaller modules, each under its own assumptions:

| Module | Theorem | Statement | Argument |
|---|---|---|---|
| `OfflineProofs` | `JsonStoreKeeps` | `JsonSpec => []StoredUnlessOverlap` | `Handover`: without an overlap at most one process is between load and write, its copy is complete and loses no report of the file, and a process about to confirm or delete has its reports wherever they will be read |
| | `FileRefinement` | `JsonSpec => FileImplementsCatalogue` | `FileSteps`: `Truncate` is a step of `Catalogue` or a stutter by what the call has edited (`EditsRefine`), `DeleteMessage` is `Ack`, the rest is unseen; `Handover` says that the copy is still what the call makes of the file |
| | `AnswersAreRecent` | `StatsSpec => []AnswerIsRecent` | `RecentInv`: whatever is stored while a thread is about to answer is recent for it, and no snapshot is measured before its stamp |
| | `FetchesAreRare` | `StatsSpec => []OneFetchPerTtl` | `FetchInv`: without a crossing one thread at a time fetches, and without a failure the cache is stamped with the beginning of the last fetch, or a thread is at it |
| `StubRepoProofs` | `RowsAndMessagesMatch` | `StubSpec => []OneRowOneMessage` | `Orderly`: until the assignment that it guards, what a check found still holds; a queued row has been accepted, or exactly one thread is about to send for it or take it back; and the messages are the accepted ones, and at most one more for each send that raised |
| | `SteadyRowsListedOnce` | `StubSpec => []SteadyListedOnce` | `WalkInv`: until the cursor is made, the list at hand holds exactly the rows to come, or the first of them, sorted as the steady ones still are |
| `ParserProofs` | `RecordsExtracted` | `ParserSpec => []ExtractedAsPrinted` | `ParserInv`, see below |
| `LocalStackProofs` | `RowsKeepTheirReports` | `StackSpec => []OwnReportsUnlessErased` | `Together`: a message names an existing row with its own PDF (`QueueFits`), every row is served (`RowServed`), and a message is about to be deleted only when its row says *parsed* (`JobDone`); `WorkInv` holds even when rows are erased: the ids being sent and the job belong to running services |
| | `MigrationsAlwaysFit` | `StackSpec => []MigrationsFit` | `SchemaInv`: what is left of a script only adds or only removes, in an order the references allow, and leads from the draft to the database of the aim |
| | `AppAlwaysRunsOnSchema` | `StackSpec => []AppRunsOnSchema` | `StackInv`: each step of a command implies that the one before is done, and what takes something away has stopped the services first |
| `LinkageProofs` | `LinksAreReplaced` | `DataSpec => []OneLinkUnlessOverlap` | `Undivided`: a session that is alone on a report has seen all links of it |
| | `LoadsFail` | `DataSpec => []LoadsGoThrough` | `LoadInv`: what a file's cells mean to pass 1 is in the tables between its passes, unless they were erased; a cell that pass 2 takes means the same to both; and the tail numbers are its own insert |
| | `ReloadsChangeNothing` | `DataSpec => ReloadChangesNothing` | `LoadInv`: what a loaded file would add is there already, under the key that the conflict is decided by |

The exceptions in these statements (`overlapped`, `cut`, `crossed`, `raced`,
`overlapping`, `abandoned`, `stranded`, `leftover`) are the hazards themselves. The theorems say that nothing else breaks the
promise; mutating the code breaks it without them.

`RecordsExtracted` is about report sets of any length, with any prose, sections and
narratives, and about a loop over their lines. `ParserInv` says that each record
lies in the lines from its first one to the one before the next (`InPlace`), and
that, as long as no prose reads like a start, the starts that the look-ahead finds
are the first lines of the records and the text does not end on an ACN
(`StartsFound`). `InPlace` alone does not fix where the parser cuts, and
`StartsFound` is not inductive without the end of the text: a look-ahead may reach
across the end of an entry into the next one. A step that prints an entry keeps
`StartsFound` because an entry of the front matter has no start (`NoStart`) and a
record has one (`OneStart`). The property follows in two halves: `RecordCut` says
that the lines from a start to the next are those of the record, and `ReadRecord`
what the loop makes of them. `ReadConcat` lets the loop be read one section and one
narrative at a time; it, and what `FlattenSeq` of the community modules returns,
are inductions over the length of a sequence. The library states induction for an
operator, which the provers cannot instantiate, so `Induction` states it for a set of
numbers, from the well-foundedness of `<` on them; `SeqInduction` carries it over to
sequences.

`MigrationsAlwaysFit` rests on lemmas about lists of statements that a reader of
other migrations can use: `AddsInOrder` and `RemovesInOrder` reduce a list to its
statements, `SplitAdds` and `SplitRemoves` a list that is read half way. The rest
(`WeightsUp`, `HeadDown`, ...) are the two revisions of this repository.

Three things come from outside the code: the premises `ApiSound` and
`UploadedFirst` of `Ingest`; that `BtsLoader` takes a file for a sequence of rows
and every cell that `::int` takes for one that `int(float())` takes, with the same
number; and that `LocalStack` has alembic called by hand only while no service runs
(2.9).

`TypeInv`, `StoreInv`, `ScoreInv`, `SendInv`, `SingleInv`, `SettleInv`, `TriageInv`, both
`WalkInv`, `SchemaInv`, `StackInv`, `LoadInv` and `ParserInv` were checked by TLC before they
were proved; of the other invariants TLC checks the property that they imply.

Model-checked only are the liveness properties (`GoodDocumentParsed`,
`EveryMessageSettles`, `PoisonIsDeadLettered`, `WalkEnds`, `RequestsEnd`): fairness
is out of the prover's reach. The safety half of the first three is the theorem
`MessagesSettle`. Every invariant and every action property of a
passing run is stated by a theorem.

## 5. Findings

Five claims of the repository that the code does not keep; each has a run
whose counterexample shows how. See `findings` in `PROJECT.json`.

| Run | What it shows |
|---|---|
| `api_crash` | an API process that dies between `mark_queued` and the send leaves a queued row that no message serves |
| `stranding` | a worker that dies between the commit of the reports and their scoring leaves them without a priority: nothing that is scheduled scores them (an `assign` of such a report would, or a refresh of the whole table) |
| `resubmit` | a document that failed for good is reported as under way when it is submitted again |
| `worklist_unscored` | the cursor of a page that ends on an unscored report goes back up |
| `triage_reassigned` | a disposition is recorded after the report was assigned to somebody else |

Noticed on the way, without a run of their own:

* `claim_for_parsing` lets a second worker in while the first one still parses
  (`OneWorkerPerDocument` of `Ingest` does not hold without a reliable
  heartbeat); what follows from it is bounded by the invariants of `delivery`.
* `handle_message` says "Never raises", but the claim and `mark_failed` stand
  outside its `try`: `LoadRaises` of `JsonStore` and `WorkerCrash` of `Ingest`
  have those exceptions leave it.
* `load_bts.py` turns a departure delay of 0 into NULL (`Staged`).
* A failed fetch of the queue's statistics is not cached: while the queue is
  away, every page asks it again (`failed` in `OneFetchPerTtl`).
* `db-reset` keeps the queue. An old message can store its PDF's reports under a
  new document of the same id (`leftover` in `OwnReportsUnlessErased`).
* `unmark_queued` runs inside the `except` of the send (`documents.py:120`). When it
  raises too, the row stays *queued* without a message (`RequestRaises`). With an
  empty `sqs_queue_url` the row says *queued*, the answer `enqueued=true`, and
  nothing is sent (`documents.py:109`).
* The query of `db/linkage.py:92-95` casts comparisons to NUMERIC. PostgreSQL has
  no such cast and no migration adds one, so the query raises for every report with
  a date; `docs/measurements.md:38` calls it valid SQL, but it was only compiled.
  With the cast, `LEAST(1.0, NULL)` is 1.0 in PostgreSQL, so a flight of a carrier
  without a name (`load_bts.py:124` inserts such carriers) would be as likely as can
  be. The module leaves the choice of a flight open, and nothing calls the code yet.
* An id such as `10397.0` passes the first pass of a load and fails the second,
  which leaves the carriers and airports of the file committed without its flights
  (`Castable`).

## 6. Not modelled

* **Alerts**: a comparison with a threshold and an HTTP request in a daemon
  thread. That a report is alerted about once is `AlertedAtMostOnce`.
* **Classifier, latency, metrics**: numeric data without state that a step could
  get wrong.
* **Console pages, charts, schemas, chat and authentication routers**: one
  request, one answer, nothing stored.
* **Deployment, CI, copy scripts**: infrastructure; only the queue's visibility
  timeout and `maxReceiveCount` enter.
* Of modelled components: in the stub, the filters, users and dispositions (the
  latter as in `Triage`); in the parser, the grouping of words into lines and page
  numbers; in the JSON store, `reset` and the texts; in the schema, columns and
  checks; in the loader, the header check (a wrong header ends the first pass as an
  unreadable cell does) and the conversion of times; in the linkage, the
  confidence of a flight; in the statistics, `drain_eta_seconds`; in the worklist, dates, flight links and the
  scheduled refresh of all priorities; in the documents router, the date in the
  object key; the lock order inside one insert of reports.

## 7. What could follow

1. The in-memory repository as a reference for `Worklist`: the two order a report
   differently exactly while it is unscored.
2. The object key with its date, for an upload that crosses midnight.
