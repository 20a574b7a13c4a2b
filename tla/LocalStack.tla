----------------------------- MODULE LocalStack -----------------------------
(***************************************************************************)
(* The local stack: infra/local/manage.py at one terminal, the services it *)
(* starts and stops by docker compose, the migrations and seeds, and what  *)
(* outlives what - rows, messages and objects are in volumes of their own. *)
(*                                                                         *)
(* A command is a few docker commands; Ctrl-C can end it between any two,  *)
(* in the middle of a migration and between two volumes.  Of submitting    *)
(* and parsing, which Ingest models in detail, the steps are here between  *)
(* which a stopped service leaves the work half done: one worker, a queue  *)
(* that delivers each message once at a time, and sends that do not fail.  *)
(***************************************************************************)
EXTENDS Schema

CONSTANTS
  Uploads,        \* the PDFs that are uploaded
  MaxCommands     \* bound: commands typed at the terminal

ASSUME StackAssumption == MaxCommands \in Nat

VARIABLES
  terminal,       \* the next docker command, or "idle"
  starting,       \* whether the services are to be started at its end
  infra,          \* whether the containers of db, minio and elasticmq are up
  running,        \* which of api and worker run
  doomed,         \* the volumes that a destroy has yet to remove
  seeded,         \* the tables that have been seeded
  rows,           \* the documents table: id -> [pdf, status, stored]
  messages,       \* the queue and its dead letters: records [id, pdf]
  sending,        \* the ids that are queued, whose message is about to be sent
  job,            \* the worker's message and next step: [message, next], or Idle
  stranded,       \* history: the ids that were being sent when the api stopped
  leftover,       \* history: whether rows and messages were erased one by one
  typed

dataVolumes == <<rows, messages>>
workVars == <<sending, job, stranded>>
appVars == <<dataVolumes, workVars, leftover>>
commandVars == <<terminal, starting, infra, doomed, typed>>
stackVars == <<schemaVars, commandVars, running, seeded, appVars>>

App == {"api", "worker"}
Idle == [next |-> "idle"]

StackInit ==
  /\ SchemaInit
  /\ terminal = "idle" /\ starting = FALSE
  /\ infra = FALSE
  /\ running = {} /\ doomed = {}
  /\ seeded = {}
  /\ rows = <<>> /\ messages = {}
  /\ sending = {} /\ job = Idle /\ stranded = {}
  /\ leftover = FALSE
  /\ typed = 0

Typed == terminal = "idle" /\ typed < MaxCommands /\ typed' = typed + 1
Then(command) == terminal' = command

(* A stopped api sends nothing more, a stopped worker drops its job: the   *)
(* message comes back.                                                     *)
Stop(services) ==
  /\ running' = running \ services
  /\ IF "api" \in services
     THEN sending' = {} /\ stranded' = stranded \cup sending
     ELSE UNCHANGED <<sending, stranded>>
  /\ job' = IF "worker" \in services THEN Idle ELSE job

(* Every row is gone, and ids start again: a message is left over.         *)
EraseRows ==
  /\ rows' = <<>> /\ seeded' = {} /\ stranded' = {}
  /\ leftover' = (messages # {})

-----------------------------------------------------------------------------
(* infra-up: the infrastructure, without migrations.                       *)
InfraUp ==
  /\ Typed
  /\ infra' = TRUE
  /\ UNCHANGED <<schemaVars, terminal, starting, doomed, running, seeded, appVars>>

(* up: the infrastructure, then migrate, then api and worker.              *)
Up ==
  /\ Typed
  /\ infra' = TRUE
  /\ Then("migrate") /\ starting' = TRUE
  /\ UNCHANGED <<schemaVars, doomed, running, seeded, appVars>>

Down ==
  /\ Typed
  /\ Stop(App) /\ infra' = FALSE
  /\ UNCHANGED <<schemaVars, terminal, starting, doomed, seeded, dataVolumes, leftover>>

(* destroy --yes: down, and then volume after volume, in any order.  The   *)
(* bucket is left out: objects are named by their content.  Variant: the   *)
(* queue's volume is not one of them.                                      *)
VolumesWithoutQueue == {"database"}
Volumes == {"database", "queue"}
Destroy ==
  /\ Typed
  /\ Stop(App) /\ infra' = FALSE
  /\ Then("destroy") /\ doomed' = Volumes
  /\ UNCHANGED <<schemaVars, starting, seeded, dataVolumes, leftover>>

(* When both are gone, rows and messages start together again.             *)
RemoveVolume(volume) ==
  /\ terminal = "destroy"
  /\ volume \in doomed
  /\ doomed' = doomed \ {volume}
  /\ IF volume = "database"
     THEN DropSchema /\ rows' = <<>> /\ seeded' = {} /\ stranded' = {} /\ UNCHANGED messages
     ELSE messages' = {} /\ UNCHANGED <<schemaVars, seeded, rows, stranded>>
  /\ IF doomed = {volume}
     THEN Then("idle") /\ leftover' = FALSE
     ELSE UNCHANGED <<terminal, leftover>>
  /\ UNCHANGED <<starting, infra, running, sending, job, typed>>

(* db-reset --yes: api and worker are stopped; the schema is dropped, and  *)
(* created again by the migrations; what the queue and the bucket hold     *)
(* stays.  Variant: only the api is stopped.                               *)
StoppedApi == {"api"}
Stopped == App
DbReset ==
  /\ Typed
  /\ Stop(Stopped)
  /\ Then("drop") /\ starting' = FALSE
  /\ UNCHANGED <<schemaVars, infra, doomed, seeded, dataVolumes, leftover>>

ResetDrop ==
  /\ terminal = "drop"
  /\ IF infra
     THEN DropSchema /\ EraseRows /\ Then("migrate")
     ELSE Then("idle") /\ UNCHANGED <<schemaVars, seeded, rows, stranded, leftover>>
  /\ UNCHANGED <<starting, infra, doomed, running, messages, sending, job, typed>>

(* migrate.py: alembic upgrade head, then the two seeds.                   *)
MigrateHead ==
  /\ terminal = "migrate"
  /\ IF revision = HeadRevision
     THEN Then("seed") /\ UNCHANGED schemaVars
     ELSE Then("wait") /\ Migrate(HeadRevision)
  /\ UNCHANGED <<starting, infra, doomed, running, seeded, appVars, typed>>

(* alembic by hand, to any revision.  Nothing but the operator sees to it  *)
(* that no service runs: this is an assumption.                            *)
Alembic(to) ==
  /\ Typed
  /\ infra /\ running = {}
  /\ Migrate(to)
  /\ Then("by hand") /\ starting' = FALSE
  /\ UNCHANGED <<infra, doomed, running, seeded, appVars>>

Statement ==
  /\ Execute
  /\ UNCHANGED <<commandVars, running, seeded, appVars>>

(* The commit of a migration; one to the base has dropped every row.       *)
Committed ==
  /\ Commit
  /\ Then(IF terminal = "wait" THEN "seed" ELSE "idle")
  /\ IF aim = 0 THEN EraseRows ELSE UNCHANGED <<rows, seeded, stranded, leftover>>
  /\ UNCHANGED <<starting, infra, doomed, running, messages, sending, job, typed>>

(* db.seed.hazard_categories, then db.seed.users: each adds the rows that  *)
(* are missing, in a transaction of its own.                               *)
SeedCategories ==
  /\ terminal = "seed"
  /\ seeded' = seeded \cup {"hazard_categories"}
  /\ Then("seed users")
  /\ UNCHANGED <<schemaVars, starting, infra, doomed, running, appVars, typed>>

SeedUsers ==
  /\ terminal = "seed users"
  /\ seeded' = seeded \cup {"users"}
  /\ Then(IF starting THEN "start" ELSE "idle")
  /\ UNCHANGED <<schemaVars, starting, infra, doomed, running, appVars, typed>>

(* compose starts what waited for service_completed_successfully.          *)
StartServices ==
  /\ terminal = "start"
  /\ running' = App
  /\ Then("idle")
  /\ UNCHANGED <<schemaVars, starting, infra, doomed, seeded, appVars, typed>>

(* Ctrl-C, or a docker command that fails: the command ends.  A migration  *)
(* that was running is rolled back; a destroy may have removed one volume  *)
(* and not the other.                                                      *)
Interrupt ==
  /\ terminal # "idle"
  /\ Then("idle")
  /\ IF Migrating THEN Rollback ELSE UNCHANGED schemaVars
  /\ doomed' = {}
  /\ leftover' = (leftover \/ (terminal = "destroy" /\ doomed # Volumes))
  /\ UNCHANGED <<starting, infra, running, seeded, dataVolumes, workVars, typed>>

(* A service exits by itself; it is not restarted.                         *)
Exit(service) ==
  /\ service \in running
  /\ Stop({service})
  /\ UNCHANGED <<schemaVars, commandVars, seeded, dataVolumes, leftover>>

-----------------------------------------------------------------------------
(* The two calls of an upload: a PDF without a row gets the next id; the   *)
(* row is marked queued; and then its message is sent.                     *)
Register(pdf) ==
  /\ "api" \in running
  /\ \A i \in DOMAIN rows : rows[i].pdf # pdf
  /\ rows' = Append(rows, [pdf |-> pdf, status |-> "received", stored |-> {}])
  /\ UNCHANGED <<schemaVars, commandVars, running, seeded, messages, workVars, leftover>>

MarkQueued(i) ==
  /\ "api" \in running
  /\ rows[i].status = "received"
  /\ rows' = [rows EXCEPT ![i].status = "queued"]
  /\ sending' = sending \cup {i}
  /\ UNCHANGED <<schemaVars, commandVars, running, seeded, messages, job, stranded, leftover>>

Send(i) ==
  /\ i \in sending
  /\ messages' = messages \cup {[id |-> i, pdf |-> rows[i].pdf]}
  /\ sending' = sending \ {i}
  /\ UNCHANGED <<schemaVars, commandVars, running, seeded, rows, job, stranded, leftover>>

(* The worker claims the row that a message names, unless it says parsed;  *)
(* without a row to claim it goes on to delete the message.                *)
Claimable(m) == m.id \in DOMAIN rows /\ rows[m.id].status # "parsed"
Claim(m) ==
  /\ "worker" \in running
  /\ job = Idle
  /\ m \in messages
  /\ job' = [message |-> m, next |-> IF Claimable(m) THEN "store" ELSE "delete"]
  /\ rows' = IF Claimable(m) THEN [rows EXCEPT ![m.id].status = "parsing"] ELSE rows
  /\ UNCHANGED <<schemaVars, commandVars, running, seeded, messages, sending, stranded, leftover>>

At(next) == job.next = next
Proceed(next) == job' = [job EXCEPT !.next = next]

(* It stores the reports of the object that the message names under it.    *)
Store ==
  /\ At("store")
  /\ rows' = [rows EXCEPT ![job.message.id].stored = @ \cup {job.message.pdf}]
  /\ Proceed("mark")
  /\ UNCHANGED <<schemaVars, commandVars, running, seeded, messages, sending, stranded, leftover>>

MarkParsed ==
  /\ At("mark")
  /\ rows' = [rows EXCEPT ![job.message.id].status = "parsed"]
  /\ Proceed("delete")
  /\ UNCHANGED <<schemaVars, commandVars, running, seeded, messages, sending, stranded, leftover>>

(* Anything in between raises: the row says failed, the message stays.     *)
ParseFails ==
  /\ At("store") \/ At("mark")
  /\ rows' = [rows EXCEPT ![job.message.id].status = "failed"]
  /\ job' = Idle
  /\ UNCHANGED <<schemaVars, commandVars, running, seeded, messages, sending, stranded, leftover>>

Delete ==
  /\ At("delete")
  /\ messages' = messages \ {job.message}
  /\ job' = Idle
  /\ UNCHANGED <<schemaVars, commandVars, running, seeded, rows, sending, stranded, leftover>>

StackNext ==
  \/ InfraUp \/ Up \/ Down \/ Destroy \/ DbReset \/ ResetDrop
  \/ \E volume \in Volumes : RemoveVolume(volume)
  \/ MigrateHead \/ Statement \/ Committed \/ SeedCategories \/ SeedUsers
  \/ StartServices \/ Interrupt
  \/ \E to \in 0 .. HeadRevision : Alembic(to)
  \/ \E service \in App : Exit(service)
  \/ \E pdf \in Uploads : Register(pdf)
  \/ \E i \in DOMAIN rows : MarkQueued(i) \/ Send(i)
  \/ \E m \in messages : Claim(m)
  \/ Store \/ MarkParsed \/ ParseFails \/ Delete

StackSpec == StackInit /\ [][StackNext]_stackVars

-----------------------------------------------------------------------------
(* The api and the worker only ever run on the schema of models.py, with   *)
(* its seeds, and never beside a migration - whatever commands of          *)
(* manage.py are typed, in whatever order, and interrupted wherever, as    *)
(* long as the operator uses alembic by hand only while no service runs.   *)
AppRunsOnSchema ==
  running # {} => /\ revision = HeadRevision /\ tables = Models
                  /\ seeded = {"hazard_categories", "users"}
                  /\ ~Migrating

(* A row has no reports but those of its own PDF, it has them when it says *)
(* parsed, and between queued and parsed its message exists, wherever the  *)
(* services are stopped.  With sends that do not fail there are two ways   *)
(* out.  An api that is stopped between marking a row and sending leaves   *)
(* it queued without a message.                                            *)
(* And a db-reset, a downgrade to the base or an interrupted destroy can   *)
(* erase rows and messages one without the other: ids start again, an old  *)
(* message finds the new row of its number; a complete destroy heals that. *)
RowServed(i) ==
  LET message == [id |-> i, pdf |-> rows[i].pdf] IN
    /\ rows[i].stored \subseteq {rows[i].pdf}
    /\ rows[i].status = "parsed" => rows[i].stored = {rows[i].pdf}
    /\ rows[i].status = "queued" => message \in messages \/ i \in sending \cup stranded
    /\ rows[i].status \in {"parsing", "failed"} => message \in messages

OwnReportsUnlessErased ==
  leftover \/ terminal = "destroy" \/ \A i \in DOMAIN rows : RowServed(i)
=============================================================================
