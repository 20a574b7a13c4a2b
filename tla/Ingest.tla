------------------------------- MODULE Ingest -------------------------------
(***************************************************************************)
(* The path of a PDF from the upload page to the reports table.            *)
(*                                                                         *)
(*   upload page --> API (documents router) --> documents row, queue       *)
(*   queue --> worker: claim, download, parse, save, score, mark, delete   *)
(*                                                                         *)
(* Every committed database transaction, every call to the queue or to the *)
(* object store and every local step that another actor can overtake is    *)
(* one action.  The PostgreSQL backends (db/repo.py, sql_store.py) are     *)
(* modelled; the queue and the object store are external and modelled from *)
(* how the code uses them.                                                 *)
(***************************************************************************)
EXTENDS Naturals

CONSTANTS
  Docs,              \* distinct PDFs: one sha256, hence one documents row, each
  Reports,           \* ACNs
  Contents,          \* Contents[d]: the ACNs parse_pdf finds in d
  Unreadable,        \* the documents on which parse_pdf always raises
  Clients,           \* upload pages, each with at most one request in flight
  Workers,           \* worker processes
  NoDoc, NoMsg,      \* "none"
  MaxSends,          \* bound: send_message calls the queue accepts per document
  MaxReceive,        \* the queue's maxReceiveCount
  MaxSendFaults,     \* bound: send_message calls that raise
  MaxApiCrashes,     \* bound: crashes of the API process
  MaxDbFaults,       \* bound: database calls that raise in an API request
  MaxWorkerFaults,   \* bound: transient errors in, and crashes of, workers
  QueueUrlSet,       \* FALSE: settings.sqs_queue_url is empty, the API runs alone
  HeartbeatReliable  \* TRUE: no message reappears while a worker holds it

(* A message is named by its document and by the rank of its send.         *)
Messages == Docs \X (1 .. MaxSends)
DocOf(m) == m[1]

ASSUME IngestAssumption ==
  /\ Contents \in [Docs -> SUBSET Reports]
  /\ Unreadable \subseteq Docs
  /\ NoDoc \notin Docs
  /\ NoMsg \notin Messages
  /\ MaxSends \in Nat
  /\ MaxReceive \in Nat \ {0}
  /\ MaxSendFaults \in Nat
  /\ MaxSends > MaxSendFaults    \* so that a send is never held up by the bound
  /\ MaxApiCrashes \in Nat
  /\ MaxDbFaults \in Nat
  /\ MaxWorkerFaults \in Nat
  /\ QueueUrlSet \in BOOLEAN
  /\ HeartbeatReliable \in BOOLEAN

VARIABLES
  \* PostgreSQL
  status,        \* documents.status, or "absent" while there is no row
  owner,         \* reports.document_id of each ACN, or NoDoc while not inserted
  scored,        \* the ACNs whose reports.priority is not NULL
  parsedEvents,  \* the document.parsed rows of ingest_events, per document
  \* object store
  objects,       \* the documents whose PDF has been uploaded
  \* queue
  mstate,        \* where each message is
  receives,      \* ApproximateReceiveCount of each message
  \* upload pages and the API requests they have in flight
  cpc, cdoc,
  \* workers
  wpc, wmsg,
  wreceipt,      \* receive count that came with the receipt handle held
  pending,       \* reports inserted by this save_reports call and not yet scored
  \* fault budgets used
  sendFaults, apiCrashes, dbFaults, workerFaults,
  \* history: the messages whose latest delivery ended with the worker's death
  abandoned

dbVars     == <<status, owner, scored, parsedEvents>>
queueVars  == <<mstate, receives>>
clientVars == <<cpc, cdoc>>
workerVars == <<wpc, wmsg, wreceipt, pending>>
budgetVars == <<sendFaults, apiCrashes, dbFaults, workerFaults>>
faultVars  == <<budgetVars, abandoned>>
vars == <<dbVars, objects, queueVars, clientVars, workerVars, faultVars>>

Statuses == {"absent", "received", "queued", "parsing", "parsed", "failed"}
MessageStates == {"unsent", "visible", "inflight", "deleted", "dead"}
ClientPC == {"idle", "create", "upload", "submit", "send", "undo"}
WorkerPC == {"idle", "claim", "parse", "save", "score", "mark", "delete", "fail"}

(* The type invariant of every table, queue and program counter.           *)
TypeOK ==
  /\ status \in [Docs -> Statuses]
  /\ owner \in [Reports -> Docs \cup {NoDoc}]
  /\ scored \subseteq Reports
  /\ parsedEvents \in [Docs -> Nat]
  /\ objects \subseteq Docs
  /\ mstate \in [Messages -> MessageStates]
  /\ receives \in [Messages -> 0 .. MaxReceive]
  /\ cpc \in [Clients -> ClientPC]
  /\ cdoc \in [Clients -> Docs \cup {NoDoc}]
  /\ wpc \in [Workers -> WorkerPC]
  /\ wmsg \in [Workers -> Messages \cup {NoMsg}]
  /\ wreceipt \in [Workers -> 0 .. MaxReceive]
  /\ pending \in [Workers -> SUBSET Reports]
  /\ sendFaults \in 0 .. MaxSendFaults
  /\ apiCrashes \in 0 .. MaxApiCrashes
  /\ dbFaults \in 0 .. MaxDbFaults
  /\ workerFaults \in 0 .. MaxWorkerFaults
  /\ abandoned \subseteq Messages

Init ==
  /\ status = [d \in Docs |-> "absent"]
  /\ owner = [r \in Reports |-> NoDoc]
  /\ scored = {}
  /\ parsedEvents = [d \in Docs |-> 0]
  /\ objects = {}
  /\ mstate = [m \in Messages |-> "unsent"]
  /\ receives = [m \in Messages |-> 0]
  /\ cpc = [c \in Clients |-> "idle"]
  /\ cdoc = [c \in Clients |-> NoDoc]
  /\ wpc = [w \in Workers |-> "idle"]
  /\ wmsg = [w \in Workers |-> NoMsg]
  /\ wreceipt = [w \in Workers |-> 0]
  /\ pending = [w \in Workers |-> {}]
  /\ sendFaults = 0
  /\ apiCrashes = 0
  /\ dbFaults = 0
  /\ workerFaults = 0
  /\ abandoned = {}

-----------------------------------------------------------------------------
(***************************************************************************)
(* The upload page and the API.                                            *)
(***************************************************************************)

(* Client c's request for document d goes on at step pc.                   *)
ClientAt(c, pc, d) ==
  /\ cpc' = [cpc EXCEPT ![c] = pc]
  /\ cdoc' = [cdoc EXCEPT ![c] = d]

ClientDone(c) == ClientAt(c, "idle", NoDoc)

(* upload_url for a sha256 that has a row: duplicate = true, and the page  *)
(* goes to complete without uploading anything.                            *)
ReserveKnown(c, d) ==
  /\ cpc[c] = "idle"
  /\ status[d] # "absent"
  /\ ClientAt(c, "submit", d)
  /\ UNCHANGED <<dbVars, objects, queueVars, workerVars, faultVars>>

(* upload_url for a sha256 that had no row when it was looked up.          *)
ReserveNew(c, d) ==
  /\ cpc[c] = "idle"
  /\ status[d] = "absent"
  /\ ClientAt(c, "create", d)
  /\ UNCHANGED <<dbVars, objects, queueVars, workerVars, faultVars>>

(* create_document: insert the row, or keep the one a concurrent request   *)
(* has inserted since the look-up.  The page then uploads either way.      *)
CreateDocument(c) ==
  /\ cpc[c] = "create"
  /\ status' = [status EXCEPT ![cdoc[c]] = IF @ = "absent" THEN "received" ELSE @]
  /\ ClientAt(c, "upload", cdoc[c])
  /\ UNCHANGED <<owner, scored, parsedEvents, objects, queueVars, workerVars, faultVars>>

(* The page posts the PDF to the presigned URL.                            *)
Upload(c) ==
  /\ cpc[c] = "upload"
  /\ objects' = objects \cup {cdoc[c]}
  /\ ClientAt(c, "submit", cdoc[c])
  /\ UNCHANGED <<dbVars, queueVars, workerVars, faultVars>>

(* The object store rejects the upload: the page gives up.  (A user who    *)
(* leaves the page is a client that takes no further step.)                *)
UploadRejected(c) ==
  /\ cpc[c] = "upload"
  /\ ClientDone(c)
  /\ UNCHANGED <<dbVars, objects, queueVars, workerVars, faultVars>>

(* What mark_queued's WHERE asks of the row; and the same forgotten.       *)
QueueableAlways(s) == s # "absent"
Queueable(s) == s = "received"

(* complete, first half: mark_queued wins the row.                         *)
MarkQueued(c) ==
  /\ cpc[c] = "submit"
  /\ Queueable(status[cdoc[c]])
  /\ status' = [status EXCEPT ![cdoc[c]] = "queued"]
  /\ ClientAt(c, "send", cdoc[c])
  /\ UNCHANGED <<owner, scored, parsedEvents, objects, queueVars, workerVars, faultVars>>

(* complete when mark_queued changes no row: 202 with enqueued = false.    *)
NotEnqueued(c) ==
  /\ cpc[c] = "submit"
  /\ ~ Queueable(status[cdoc[c]])
  /\ ClientDone(c)
  /\ UNCHANGED <<dbVars, objects, queueVars, workerVars, faultVars>>

(* m is the message the next send_message for document d creates.          *)
NextMessage(m, d) ==
  /\ DocOf(m) = d
  /\ mstate[m] = "unsent"
  /\ \A k \in 1 .. (m[2] - 1) : mstate[<<d, k>>] # "unsent"

Enqueue(d) ==
  \E m \in Messages :
    /\ NextMessage(m, d)
    /\ mstate' = [mstate EXCEPT ![m] = "visible"]
    /\ UNCHANGED receives

(* complete, second half: send_message returns, 202 with enqueued = true.  *)
(* Where no queue URL is set nothing is sent, and the answer is the same.  *)
Send(c) ==
  /\ cpc[c] = "send"
  /\ IF QueueUrlSet THEN Enqueue(cdoc[c]) ELSE UNCHANGED queueVars
  /\ ClientDone(c)
  /\ UNCHANGED <<dbVars, objects, workerVars, faultVars>>

(* send_message raises.  Either the queue has not taken the message, or it *)
(* has and only its answer was lost.                                       *)
SendFails(c) ==
  /\ cpc[c] = "send"
  /\ QueueUrlSet
  /\ sendFaults < MaxSendFaults
  /\ sendFaults' = sendFaults + 1
  /\ Enqueue(cdoc[c]) \/ UNCHANGED queueVars
  /\ ClientAt(c, "undo", cdoc[c])
  /\ UNCHANGED <<dbVars, objects, workerVars, apiCrashes, dbFaults, workerFaults, abandoned>>

(* unmark_queued, then the 503; the undo forgotten.                        *)
UnmarkNothing(c) ==
  /\ cpc[c] = "undo"
  /\ ClientDone(c)
  /\ UNCHANGED <<dbVars, objects, queueVars, workerVars, faultVars>>

UnmarkQueued(c) ==
  /\ cpc[c] = "undo"
  /\ status' = [status EXCEPT ![cdoc[c]] = IF @ = "queued" THEN "received" ELSE @]
  /\ ClientDone(c)
  /\ UNCHANGED <<owner, scored, parsedEvents, objects, queueVars, workerVars, faultVars>>

(* The steps at which a request of the API is between two calls.           *)
InRequest(c) == cpc[c] \in {"create", "send", "undo"}

(* A database call of the request raises, and the request ends with a 500: *)
(* create_document is rolled back; mark_queued has committed, but its      *)
(* answer was lost; unmark_queued, which runs inside the except branch of  *)
(* the send, is rolled back.  In the last two the row says 'queued'.       *)
RequestRaises(c) ==
  /\ InRequest(c)
  /\ dbFaults < MaxDbFaults
  /\ dbFaults' = dbFaults + 1
  /\ ClientDone(c)
  /\ UNCHANGED <<dbVars, objects, queueVars, workerVars, sendFaults, apiCrashes, workerFaults,
                 abandoned>>

(* The API process dies: the requests in its threads end where they are.   *)
(* What was committed stays, and the pages at rest are not concerned.      *)
ApiCrash ==
  LET hit == {c \in Clients : InRequest(c)} IN
  /\ hit # {}
  /\ apiCrashes < MaxApiCrashes
  /\ apiCrashes' = apiCrashes + 1
  /\ cpc' = [c \in Clients |-> IF c \in hit THEN "idle" ELSE cpc[c]]
  /\ cdoc' = [c \in Clients |-> IF c \in hit THEN NoDoc ELSE cdoc[c]]
  /\ UNCHANGED <<dbVars, objects, queueVars, workerVars, sendFaults, dbFaults, workerFaults,
                 abandoned>>

-----------------------------------------------------------------------------
(***************************************************************************)
(* The queue.  External: SQS, or ElasticMQ on a laptop.                    *)
(***************************************************************************)

(* receive_message: one message, invisible to the others from now on.      *)
(* Variant: a queue that delivers beyond its maxReceiveCount.              *)
ReceiveForever(w) ==
  /\ wpc[w] = "idle"
  /\ \E m \in Messages :
       /\ mstate[m] = "visible"
       /\ mstate' = [mstate EXCEPT ![m] = "inflight"]
       /\ receives' = [receives EXCEPT ![m] = @ + 1]
       /\ wmsg' = [wmsg EXCEPT ![w] = m]
       /\ wreceipt' = [wreceipt EXCEPT ![w] = receives[m] + 1]
       /\ abandoned' = abandoned \ {m}
  /\ wpc' = [wpc EXCEPT ![w] = "claim"]
  /\ UNCHANGED <<dbVars, objects, clientVars, pending, budgetVars>>

Receive(w) ==
  /\ wpc[w] = "idle"
  /\ \E m \in Messages :
       /\ mstate[m] = "visible"
       /\ receives[m] < MaxReceive
       /\ mstate' = [mstate EXCEPT ![m] = "inflight"]
       /\ receives' = [receives EXCEPT ![m] = @ + 1]
       /\ wmsg' = [wmsg EXCEPT ![w] = m]
       /\ wreceipt' = [wreceipt EXCEPT ![w] = receives[m] + 1]
       /\ abandoned' = abandoned \ {m}
  /\ wpc' = [wpc EXCEPT ![w] = "claim"]
  /\ UNCHANGED <<dbVars, objects, clientVars, pending, budgetVars>>

(* The visibility timeout passes.  The heartbeat thread of the worker that *)
(* holds the message should prevent it, but logs and ignores every error,  *)
(* is late if the process stalls, and first beats after half of 300 s even *)
(* on a queue that was created with the default 30 s.                      *)
Expire(m) ==
  /\ mstate[m] = "inflight"
  /\ HeartbeatReliable => \A w \in Workers : wmsg[w] # m
  /\ mstate' = [mstate EXCEPT ![m] = "visible"]
  /\ UNCHANGED <<dbVars, objects, receives, clientVars, workerVars, faultVars>>

(* A message that has used up its receives moves to the dead-letter queue. *)
(* Variants: a queue created without the redrive policy, and one with a    *)
(* maxReceiveCount that is one too small.                                  *)
NoRedrive(m) == FALSE /\ m = NoMsg /\ UNCHANGED vars

RedriveEarly(m) ==
  /\ mstate[m] = "visible"
  /\ receives[m] + 1 >= MaxReceive
  /\ mstate' = [mstate EXCEPT ![m] = "dead"]
  /\ UNCHANGED <<dbVars, objects, receives, clientVars, workerVars, faultVars>>

Redrive(m) ==
  /\ mstate[m] = "visible"
  /\ receives[m] = MaxReceive
  /\ mstate' = [mstate EXCEPT ![m] = "dead"]
  /\ UNCHANGED <<dbVars, objects, receives, clientVars, workerVars, faultVars>>

-----------------------------------------------------------------------------
(***************************************************************************)
(* The worker: handle_message.                                             *)
(***************************************************************************)

WDoc(w) == DocOf(wmsg[w])

WorkerAt(w, pc) ==
  /\ wpc' = [wpc EXCEPT ![w] = pc]
  /\ UNCHANGED <<wmsg, wreceipt>>

(* Back to polling, with nothing held.                                     *)
WorkerIdle(w) ==
  /\ wpc' = [wpc EXCEPT ![w] = "idle"]
  /\ wmsg' = [wmsg EXCEPT ![w] = NoMsg]
  /\ wreceipt' = [wreceipt EXCEPT ![w] = 0]
  /\ pending' = [pending EXCEPT ![w] = {}]

(* What claim_for_parsing's WHERE asks of the row.  Variants: the          *)
(* predicate of the work pack that the comment there rejects, and none.    *)
ClaimableWorkPack(s) == s \in {"queued", "parsing"}
ClaimableAlways(s) == s # "absent"
Claimable(s) == s # "parsed"

(* claim_for_parsing returns True; the heartbeat thread starts.            *)
Claim(w) ==
  /\ wpc[w] = "claim"
  /\ Claimable(status[WDoc(w)])
  /\ status' = [status EXCEPT ![WDoc(w)] = "parsing"]
  /\ WorkerAt(w, "parse")
  /\ UNCHANGED <<owner, scored, parsedEvents, objects, queueVars, clientVars, pending, faultVars>>

(* claim_for_parsing returns False: the message is a duplicate.            *)
DropDuplicate(w) ==
  /\ wpc[w] = "claim"
  /\ ~ Claimable(status[WDoc(w)])
  /\ WorkerAt(w, "delete")
  /\ UNCHANGED <<dbVars, objects, queueVars, clientVars, pending, faultVars>>

(* download, parse_pdf and predict_hazards: the records are in memory.     *)
Parse(w) ==
  /\ wpc[w] = "parse"
  /\ WDoc(w) \in objects \ Unreadable
  /\ WorkerAt(w, "save")
  /\ UNCHANGED <<dbVars, objects, queueVars, clientVars, pending, faultVars>>

(* The object is not there, or the PDF cannot be parsed: an exception.     *)
(* Variant: the exception is swallowed and there are no records.           *)
ParseSwallowed(w) ==
  /\ wpc[w] = "parse"
  /\ WDoc(w) \notin objects \ Unreadable
  /\ WorkerAt(w, "mark")
  /\ UNCHANGED <<dbVars, objects, queueVars, clientVars, pending, faultVars>>

ParseRaises(w) ==
  /\ wpc[w] = "parse"
  /\ WDoc(w) \notin objects \ Unreadable
  /\ WorkerAt(w, "fail")
  /\ UNCHANGED <<dbVars, objects, queueVars, clientVars, pending, faultVars>>

(* ON CONFLICT (acn) DO NOTHING: the ACNs of d that get a row.  Variant:   *)
(* every record is taken as new.                                           *)
InsertedAlways(d) == Contents[d]
Inserted(d) == {r \in Contents[d] : owner[r] = NoDoc}

(* save_reports, the first transaction: every new ACN with its fields,     *)
(* hazards and report.extracted event, or nothing.  Variants: one commit   *)
(* per record; no scoring after the insert.                                *)
SaveOneByOne(w) ==
  /\ wpc[w] = "save"
  /\ IF Inserted(WDoc(w)) = {}
       THEN WorkerAt(w, "mark") /\ UNCHANGED <<owner, pending>>
       ELSE \E r \in Inserted(WDoc(w)) :
              /\ owner' = [owner EXCEPT ![r] = WDoc(w)]
              /\ pending' = [pending EXCEPT ![w] = @ \cup {r}]
              /\ WorkerAt(w, "save")
  /\ UNCHANGED <<status, scored, parsedEvents, objects, queueVars, clientVars, faultVars>>

SaveUnscored(w) ==
  LET d == WDoc(w) IN
  /\ wpc[w] = "save"
  /\ owner' = [r \in Reports |-> IF r \in Inserted(d) THEN d ELSE owner[r]]
  /\ WorkerAt(w, "mark")
  /\ UNCHANGED <<status, scored, parsedEvents, objects, queueVars, clientVars, pending, faultVars>>

SaveReports(w) ==
  LET d == WDoc(w) IN
  /\ wpc[w] = "save"
  /\ owner' = [r \in Reports |-> IF r \in Inserted(d) THEN d ELSE owner[r]]
  /\ pending' = [pending EXCEPT ![w] = Inserted(d)]
  /\ WorkerAt(w, IF Inserted(d) = {} THEN "mark" ELSE "score")
  /\ UNCHANGED <<status, scored, parsedEvents, objects, queueVars, clientVars, faultVars>>

(* save_reports, one transaction per inserted report: refresh_priorities.  *)
(* maybe_alert follows; it changes no table.                               *)
Score(w) ==
  /\ wpc[w] = "score"
  /\ \E r \in pending[w] :
       /\ scored' = scored \cup {r}
       /\ pending' = [pending EXCEPT ![w] = @ \ {r}]
       /\ WorkerAt(w, IF pending[w] = {r} THEN "mark" ELSE "score")
  /\ UNCHANGED <<status, owner, parsedEvents, objects, queueVars, clientVars, faultVars>>

(* mark_parsed: whatever the row says, it says 'parsed' now.               *)
MarkParsed(w) ==
  /\ wpc[w] = "mark"
  /\ status' = [status EXCEPT ![WDoc(w)] = "parsed"]
  /\ parsedEvents' = [parsedEvents EXCEPT ![WDoc(w)] = @ + 1]
  /\ WorkerAt(w, "delete")
  /\ UNCHANGED <<owner, scored, objects, queueVars, clientVars, pending, faultVars>>

(* A transient exception inside the try: storage, model, database.  An     *)
(* open transaction is rolled back.                                        *)
StepRaises(w) ==
  /\ wpc[w] \in {"parse", "save", "score", "mark"}
  /\ workerFaults < MaxWorkerFaults
  /\ workerFaults' = workerFaults + 1
  /\ WorkerAt(w, "fail")
  /\ pending' = [pending EXCEPT ![w] = {}]
  /\ UNCHANGED <<dbVars, objects, queueVars, clientVars, sendFaults, apiCrashes, dbFaults,
                 abandoned>>

(* mark_failed: whatever the row says, it says 'failed' now.  The message  *)
(* is left to its visibility timeout.  Variant: it is deleted.             *)
MarkFailedAndDelete(w) ==
  /\ wpc[w] = "fail"
  /\ status' = [status EXCEPT ![WDoc(w)] = "failed"]
  /\ WorkerAt(w, "delete")
  /\ UNCHANGED <<owner, scored, parsedEvents, objects, queueVars, clientVars, pending, faultVars>>

MarkFailed(w) ==
  /\ wpc[w] = "fail"
  /\ status' = [status EXCEPT ![WDoc(w)] = "failed"]
  /\ WorkerIdle(w)
  /\ UNCHANGED <<owner, scored, parsedEvents, objects, queueVars, clientVars, faultVars>>

(* delete_message.  With a receipt handle that a later receive has made    *)
(* stale the queue answers 200 and may or may not delete.                  *)
Delete(w) ==
  LET m == wmsg[w]
      live == mstate[m] \in {"visible", "inflight"}
      stale == wreceipt[w] # receives[m] IN
  /\ wpc[w] = "delete"
  /\ \/ live /\ mstate' = [mstate EXCEPT ![m] = "deleted"]
     \/ (~ live \/ stale) /\ UNCHANGED mstate
  /\ WorkerIdle(w)
  /\ UNCHANGED <<dbVars, objects, receives, clientVars, faultVars>>

(* The process dies, or an exception leaves handle_message (json.loads,    *)
(* the claim, mark_failed and delete_message are outside the try), and a   *)
(* new one starts.                                                         *)
WorkerCrash(w) ==
  /\ wpc[w] # "idle"
  /\ workerFaults < MaxWorkerFaults
  /\ workerFaults' = workerFaults + 1
  /\ abandoned' = abandoned \cup {wmsg[w]}
  /\ WorkerIdle(w)
  /\ UNCHANGED <<dbVars, objects, queueVars, clientVars, sendFaults, apiCrashes, dbFaults>>

-----------------------------------------------------------------------------
(* What handle_message does next when nothing fails that could succeed.    *)
Handle(w) ==
  \/ Claim(w)
  \/ DropDuplicate(w)
  \/ Parse(w)
  \/ ParseRaises(w)
  \/ SaveReports(w)
  \/ Score(w)
  \/ MarkParsed(w)
  \/ MarkFailed(w)
  \/ Delete(w)

Next ==
  \/ \E c \in Clients, d \in Docs : ReserveKnown(c, d) \/ ReserveNew(c, d)
  \/ \E c \in Clients :
       \/ CreateDocument(c)
       \/ Upload(c)
       \/ UploadRejected(c)
       \/ MarkQueued(c)
       \/ NotEnqueued(c)
       \/ Send(c)
       \/ SendFails(c)
       \/ UnmarkQueued(c)
       \/ RequestRaises(c)
  \/ ApiCrash
  \/ \E w \in Workers : Receive(w) \/ Handle(w) \/ StepRaises(w) \/ WorkerCrash(w)
  \/ \E m \in Messages : Expire(m) \/ Redrive(m)

Spec == Init /\ [][Next]_vars

(* What keeps running: requests the API has accepted (its threads), the    *)
(* worker loops (a worker that died is restarted), and the queue's timers. *)
(* Users owe nothing, and no fault ever has to happen.                     *)
Fairness ==
  /\ \A c \in Clients : WF_vars(CreateDocument(c)) /\ WF_vars(Send(c)) /\ WF_vars(UnmarkQueued(c))
  /\ \A w \in Workers : WF_vars(Receive(w)) /\ WF_vars(Handle(w))
  /\ \A m \in Messages : WF_vars(Expire(m)) /\ WF_vars(Redrive(m))

FairSpec == Spec /\ Fairness

-----------------------------------------------------------------------------
(***************************************************************************)
(* Properties.                                                             *)
(***************************************************************************)

(* Every report of d is in the reports table.                              *)
Stored(d) == \A r \in Contents[d] : owner[r] # NoDoc

(* A document that says 'parsed' has all its reports in the table: no      *)
(* order of claims, failures and redeliveries lets mark_parsed come before *)
(* the insert, and a broken PDF is never marked parsed.                    *)
ParsedMeansStored ==
  \A d \in Docs : status[d] = "parsed" => Stored(d) /\ d \notin Unreadable

(* A message is deleted only when the reports of its document are stored,  *)
(* also by a worker that found the document parsed by another one, and     *)
(* also when that worker's receipt handle is stale.                        *)
DeletedMeansStored ==
  \A m \in Messages : mstate[m] = "deleted" => Stored(DocOf(m))

(* mark_queued lets one complete call at a time send, and unmark_queued    *)
(* only undoes what its own call did: two requests are never both between  *)
(* mark_queued and the end of the send, or of its undo, for one document.  *)
OneSender ==
  \A c1, c2 \in Clients :
    /\ cpc[c1] \in {"send", "undo"}
    /\ cpc[c2] \in {"send", "undo"}
    /\ cdoc[c1] = cdoc[c2]
    => c1 = c2

HasMessage(d) ==
  \E m \in Messages : DocOf(m) = d /\ mstate[m] \in {"visible", "inflight", "dead"}
BeingSent(d) ==
  \E c \in Clients : cdoc[c] = d /\ cpc[c] \in {"send", "undo"}

(* A document that was accepted is stored, or a message for it waits, is   *)
(* being processed or lies in the dead-letter queue, or the request that   *)
(* will send one is still running: no row waits for a message that does    *)
(* not exist.                                                              *)
NoSilentLoss ==
  \A d \in Docs :
    status[d] \notin {"absent", "received"} => Stored(d) \/ HasMessage(d) \/ BeingSent(d)

(* The same where a queue is configured, as long as no API process has     *)
(* died and no database call has raised in a request: failing sends, lost  *)
(* answers, redeliveries and worker crashes alone never lose a document.   *)
ApiSound == QueueUrlSet /\ apiCrashes = 0 /\ dbFaults = 0
LossNeedsApiFault == ApiSound => NoSilentLoss

(* maybe_alert runs at most once for each report, over all workers,        *)
(* deliveries and crashes: a report is in the scoring loop of at most one  *)
(* save_reports call, and never again once it has been scored.             *)
AlertedAtMostOnce ==
  /\ \A w \in Workers : pending[w] \cap scored = {}
  /\ \A w1, w2 \in Workers : w1 # w2 => pending[w1] \cap pending[w2] = {}

(* A stored report has its priority, or a worker is about to compute it.   *)
NoStrandedPriority ==
  \A r \in Reports :
    owner[r] # NoDoc => r \in scored \/ \E w \in Workers : r \in pending[w]

(* The same as long as no worker has died or met an exception.             *)
StrandingNeedsFault == workerFaults = 0 => NoStrandedPriority

(* Two workers never work on the same document at the same time.           *)
Working(w) == wpc[w] \in {"parse", "save", "score", "mark"}
OneWorkerPerDocument ==
  \A w1, w2 \in Workers :
    Working(w1) /\ Working(w2) /\ WDoc(w1) = WDoc(w2) => w1 = w2

(* A heartbeat that keeps its promise, and sends that are not retried.     *)
Reliable == HeartbeatReliable /\ MaxSendFaults = 0

(* Under these conditions claim_for_parsing gives each document to one     *)
(* worker at a time, and a document counts once in the throughput,         *)
(* whatever crashes.                                                       *)
ParsedOnce ==
  Reliable =>
    OneWorkerPerDocument /\ \A d \in Docs : parsedEvents[d] <= 1

(* Under the same conditions 'parsed' is final: no later delivery takes    *)
(* the document back to 'parsing' or 'failed'.                             *)
ParsedIsFinal ==
  [][Reliable =>
       \A d \in Docs : status[d] = "parsed" => status'[d] = "parsed"]_vars

(* enqueued = false tells the user that the document was already queued or *)
(* parsed: its reports are stored, or a worker still gets a message for    *)
(* it, or another request is about to send one.                            *)
RefusedMeansUnderWay ==
  [][\A c \in Clients :
       NotEnqueued(c) =>
         \/ Stored(cdoc[c])
         \/ BeingSent(cdoc[c])
         \/ \E m \in Messages :
              DocOf(m) = cdoc[c] /\ mstate[m] \in {"visible", "inflight"}]_vars

(* Ingest implements Catalogue.                                            *)
Abstract == INSTANCE Catalogue WITH
  catalogue <- owner,
  confirmed <- {d \in Docs : status[d] = "parsed"},
  acked     <- {DocOf(m) : m \in {n \in Messages : mstate[n] = "deleted"}}
ImplementsCatalogue == Abstract!Spec

(* A document that can be parsed and waits in the queue is parsed in the   *)
(* end, as long as there are fewer worker faults than receives and the API *)
(* meets no fault (ApiSound); a send that fails hands it back to the user  *)
(* instead.                                                                *)
GoodDocumentParsed ==
  \A d \in Docs \ Unreadable :
    status[d] = "queued" /\ d \in objects ~> status[d] \in {"parsed", "received"}

(* Every message leaves the queue: deleted, or in the dead-letter queue    *)
(* after maxReceiveCount attempts.                                         *)
EveryMessageSettles ==
  \A m \in Messages : mstate[m] = "visible" ~> mstate[m] \in {"deleted", "dead"}

(* The message of a PDF that cannot be parsed ends in the dead-letter      *)
(* queue for good, and the document as 'failed', whatever faults earlier   *)
(* attempts met - unless a worker died in the middle of the last one and   *)
(* left it 'parsing'.                                                      *)
PoisonIsDeadLettered ==
  \A m \in Messages :
    DocOf(m) \in Unreadable =>
      (mstate[m] = "visible" ~>
         [](mstate[m] = "dead" /\ (m \notin abandoned => status[DocOf(m)] = "failed")))

(* Why a message may leave the queue, under the conditions of ParsedOnce:  *)
(* deleted, its PDF could be parsed; dead, its PDF cannot be, or each of   *)
(* its receives has met a fault, so that a worker that is interrupted      *)
(* wastes one attempt and no more.  And a dead one's document is not left  *)
(* 'parsing' unless the worker died in the last attempt: it says 'failed'. *)
SettledRightly ==
  Reliable =>
    \A m \in Messages :
      /\ mstate[m] = "deleted" => DocOf(m) \notin Unreadable
      /\ mstate[m] = "dead" =>
           /\ DocOf(m) \in Unreadable \/ workerFaults >= MaxReceive
           /\ m \notin abandoned => status[DocOf(m)] = "failed"

(* It presupposes that nobody completes a document before the page that    *)
(* uploads its PDF has done so, which the API does not check.              *)
UploadedFirst == \A m \in Messages : mstate[m] # "unsent" => DocOf(m) \in objects
MessagesSettleRightly == []UploadedFirst => []SettledRightly

-----------------------------------------------------------------------------
(***************************************************************************)
(* The inductive invariants behind the safety properties.  They are the    *)
(* facts about program counters that the properties leave out.             *)
(***************************************************************************)

(* Types, and: a request in flight has a document, a worker that handles a *)
(* message holds one.                                                      *)
TypeInv ==
  /\ TypeOK
  /\ \A c \in Clients : cpc[c] # "idle" => cdoc[c] \in Docs
  /\ \A w \in Workers : wpc[w] # "idle" => wmsg[w] \in Messages

(* Past the parse the PDF is known to be good; past the insert, and where  *)
(* the worker is about to delete its message, the reports are stored.      *)
StoreInv ==
  /\ ParsedMeansStored
  /\ DeletedMeansStored
  /\ \A w \in Workers : wpc[w] \in {"save", "score", "mark"} => WDoc(w) \notin Unreadable
  /\ \A w \in Workers : wpc[w] \in {"score", "mark", "delete"} => Stored(WDoc(w))

(* Only the scoring loop has reports pending, and those are in the table.  *)
ScoreInv ==
  /\ AlertedAtMostOnce
  /\ StrandingNeedsFault
  /\ \A r \in scored : owner[r] # NoDoc
  /\ \A w \in Workers : \A r \in pending[w] : owner[r] # NoDoc
  /\ \A w \in Workers : wpc[w] # "score" => pending[w] = {}

(* A message for d was sent at some time.                                  *)
Sent(d) == \E m \in Messages : DocOf(m) = d /\ mstate[m] # "unsent"

(* A row gets past 'queued' only through a message; while a request sends  *)
(* or undoes, its row is past 'received'.                                  *)
SendInv ==
  /\ OneSender
  /\ \A c \in Clients :
       cpc[c] \in {"send", "undo"} => status[cdoc[c]] \notin {"absent", "received"}
  /\ \A w \in Workers : wpc[w] # "idle" => mstate[wmsg[w]] # "unsent"
  /\ \A d \in Docs : status[d] \in {"parsing", "parsed", "failed"} => Sent(d)
  /\ ApiSound => \A d \in Docs : status[d] = "queued" => Sent(d) \/ BeingSent(d)

(* Under these conditions a document has one message, which is invisible   *)
(* to the others while a worker holds it; so the row says 'parsing' while  *)
(* a worker is at it, and the events count what the row says.              *)
OneMessage ==
  /\ \A m, n \in Messages :
       mstate[m] # "unsent" /\ mstate[n] # "unsent" /\ DocOf(m) = DocOf(n) => m = n
  /\ \A d \in Docs : status[d] \in {"absent", "received"} => ~Sent(d)
  /\ \A c \in Clients : cpc[c] # "undo" /\ (cpc[c] = "send" => ~Sent(cdoc[c]))

OneHolder ==
  /\ \A w \in Workers : IF wpc[w] = "idle" THEN wmsg[w] = NoMsg ELSE mstate[wmsg[w]] = "inflight"
  /\ \A v, w \in Workers : wpc[v] # "idle" /\ wmsg[v] = wmsg[w] => v = w

RowFollowsWorker ==
  /\ \A w \in Workers : Working(w) \/ wpc[w] = "fail" => status[WDoc(w)] = "parsing"
  /\ \A d \in Docs : parsedEvents[d] = IF status[d] = "parsed" THEN 1 ELSE 0

SingleInv == Reliable => OneMessage /\ OneHolder /\ RowFollowsWorker

(* A worker's receipt is the latest; a poison message is never deleted;    *)
(* and a message that is dead has had all its receives.                    *)
Receipts ==
  /\ \A w \in Workers : wpc[w] # "idle" => wreceipt[w] = receives[wmsg[w]]
  /\ \A m \in Messages : mstate[m] = "unsent" => receives[m] = 0
  /\ \A m \in Messages : mstate[m] = "dead" => receives[m] = MaxReceive

PoisonKept ==
  /\ \A w \in Workers : wpc[w] = "delete" => WDoc(w) \notin Unreadable
  /\ \A m \in Messages : mstate[m] = "deleted" => DocOf(m) \notin Unreadable

(* Every receive of a readable PDF that is over has met a fault.           *)
UnderWay(m) == \E w \in Workers : wmsg[w] = m /\ wpc[w] # "fail"
AttemptsCounted ==
  \A m \in Messages :
    mstate[m] # "deleted" /\ DocOf(m) \notin Unreadable =>
      receives[m] <= workerFaults + IF UnderWay(m) THEN 1 ELSE 0

(* A document whose latest attempt is over and did not end with the death  *)
(* of the worker shows that it failed.                                     *)
FailureShown ==
  \A m \in Messages :
    receives[m] > 0 /\ mstate[m] # "deleted" /\ m \notin abandoned
      /\ (\A w \in Workers : wmsg[w] # m)
      => status[DocOf(m)] = "failed"

SettleInv == Reliable => Receipts /\ PoisonKept /\ AttemptsCounted /\ FailureShown
=============================================================================
