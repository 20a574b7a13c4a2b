------------------------------- MODULE Schema -------------------------------
(***************************************************************************)
(* The PostgreSQL schema: db/alembic's two revisions, statement by         *)
(* statement, in the transaction that alembic/env.py runs them in, and the *)
(* tables that db/models.py expects.                                       *)
(*                                                                         *)
(* A statement is [op, name, on].  on holds what the thing made needs, and *)
(* what cannot be dropped before it: the tables that a table refers to by  *)
(* foreign keys and the extension that has the type of a column, or the    *)
(* table of an index or of inserted rows.  Columns are left out.           *)
(***************************************************************************)
EXTENDS Naturals, Sequences

VARIABLES
  revision,       \* alembic_version
  tables,         \* committed tables and extensions: records [name, on]
  indexes,        \* committed indexes, and rows that migrations insert
  todo,           \* the statements that the running migration has left
  draft,          \* what its transaction has made of the tables and indexes
  aim             \* the revision that it leads to

schemaVars == <<revision, tables, indexes, todo, draft, aim>>

Table(name, on) == [op |-> "create", name |-> name, on |-> on]
Index(name, on) == [op |-> "index", name |-> name, on |-> {on}]
DropTable(name) == [op |-> "drop", name |-> name, on |-> {}]
DropIndex(name) == [op |-> "unindex", name |-> name, on |-> {}]

(* Extensions are created IF NOT EXISTS and dropped IF EXISTS.  They go    *)
(* with the schema when that is dropped, so that a migration always finds  *)
(* them absent where it creates them and present where it drops them,      *)
(* which the same guards as those of a table assert.                       *)
Extension(name) == Table(name, {})
DropExtension(name) == DropTable(name)

(* bulk_insert: rows with a primary key come once, and go with the table.  *)
InsertRows(name, table) == Index(name, table)

-----------------------------------------------------------------------------
(* 0001, upgrade: reference, documents and reports, workflow.              *)
ReferenceTables ==
  << Extension("citext"), Extension("pg_trgm"),
     Table("carriers", {}), Table("airports", {}), Index("ix_airports_iata_code", "airports"),
     Table("aircraft", {}), Table("users", {"citext"}), Table("hazard_categories", {}),
     Table("flights", {"carriers", "aircraft", "airports"}),
     Index("ix_flights_date_origin", "flights") >>

DocumentTables ==
  << Table("documents", {"users"}), Index("ix_documents_status_active", "documents"),
     Table("reports", {"documents", "users"}), Index("ix_reports_priority_keyset", "reports"),
     Index("ix_reports_narrative_tsv", "reports"), Index("ix_reports_coded", "reports"),
     Table("report_fields", {"reports"}),
     Table("report_hazards", {"reports", "hazard_categories"}),
     Index("ix_report_hazards_category", "report_hazards"),
     Table("report_flight_links", {"reports", "flights"}) >>

WorkflowTables ==
  << Table("dispositions", {"reports", "users"}), Table("ingest_events", {"documents"}) >>

(* 0001, downgrade.  Variant: flights are dropped after what they refer to.*)
DropAllFlightsLast ==
  << DropTable("ingest_events"), DropTable("dispositions"), DropTable("report_flight_links"),
     DropIndex("ix_report_hazards_category"), DropTable("report_hazards"),
     DropTable("report_fields"), DropIndex("ix_reports_coded"),
     DropIndex("ix_reports_narrative_tsv"), DropIndex("ix_reports_priority_keyset"),
     DropTable("reports"), DropIndex("ix_documents_status_active"), DropTable("documents"),
     DropTable("hazard_categories"), DropTable("users"), DropTable("aircraft"),
     DropIndex("ix_airports_iata_code"), DropTable("airports"), DropTable("carriers"),
     DropIndex("ix_flights_date_origin"), DropTable("flights"),
     DropExtension("pg_trgm"), DropExtension("citext") >>
DropAll ==
  << DropTable("ingest_events"), DropTable("dispositions"), DropTable("report_flight_links"),
     DropIndex("ix_report_hazards_category"), DropTable("report_hazards"),
     DropTable("report_fields"), DropIndex("ix_reports_coded"),
     DropIndex("ix_reports_narrative_tsv"), DropIndex("ix_reports_priority_keyset"),
     DropTable("reports"), DropIndex("ix_documents_status_active"), DropTable("documents"),
     DropIndex("ix_flights_date_origin"), DropTable("flights"),
     DropTable("hazard_categories"), DropTable("users"), DropTable("aircraft"),
     DropIndex("ix_airports_iata_code"), DropTable("airports"), DropTable("carriers"),
     DropExtension("pg_trgm"), DropExtension("citext") >>

(* 0002, both ways.                                                        *)
AddWeights == << Table("linkage_weights", {}), InsertRows("default_weights", "linkage_weights") >>
DropWeights == << DropTable("linkage_weights") >>

Head0001 == ReferenceTables \o DocumentTables \o WorkflowTables
Upgrades == << Head0001, AddWeights >>
Downgrades == << DropAll, DropWeights >>
HeadRevision == Len(Upgrades)

(* The script of revision k, if a way between two revisions passes it.     *)
Passed(scripts, k, below, above) == IF below < k /\ k <= above THEN scripts[k] ELSE <<>>

(* The statements that alembic runs from one revision to another.          *)
Path(from, to) ==
  IF from <= to
  THEN Passed(Upgrades, 1, from, to) \o Passed(Upgrades, 2, from, to)
  ELSE Passed(Downgrades, 2, to, from) \o Passed(Downgrades, 1, to, from)

-----------------------------------------------------------------------------
(* What the program expects: the tables of models.py with what their       *)
(* foreign keys refer to, the extensions of its CITEXT and of linkage.py's *)
(* similarity(), and the weights that linkage.py reads.                    *)
Model(name, on) == [name |-> name, on |-> on]
Extensions == {Model("citext", {}), Model("pg_trgm", {})}
ReferenceModels ==
  {Model("carriers", {}), Model("airports", {}), Model("aircraft", {}),
   Model("flights", {"carriers", "aircraft", "airports"})}
DocumentModels ==
  {Model("users", {"citext"}), Model("documents", {"users"}), Model("hazard_categories", {})}
ReportModels ==
  {Model("reports", {"documents", "users"}), Model("report_fields", {"reports"}),
   Model("report_hazards", {"reports", "hazard_categories"}),
   Model("report_flight_links", {"reports", "flights"})}
WorkflowModels ==
  {Model("dispositions", {"reports", "users"}), Model("ingest_events", {"documents"}),
   Model("linkage_weights", {})}

Models ==
  Extensions \cup ReferenceModels \cup DocumentModels \cup ReportModels \cup WorkflowModels
DefaultWeights == Model("default_weights", {"linkage_weights"})

-----------------------------------------------------------------------------
(* PostgreSQL's side: when a statement goes through, and what it does.     *)
(* DROP TABLE takes the indexes and the rows of the table with it.         *)
Names(set) == {x.name : x \in set}

Fits(st, db) ==
  CASE st.op = "create"  -> st.name \notin Names(db.tables) /\ st.on \subseteq Names(db.tables)
    [] st.op = "index"   -> st.name \notin Names(db.indexes) /\ st.on \subseteq Names(db.tables)
    [] st.op = "drop"    -> /\ st.name \in Names(db.tables)
                            /\ \A t \in db.tables : st.name \notin t.on
    [] st.op = "unindex" -> st.name \in Names(db.indexes)

Applied(st, db) ==
  CASE st.op = "create"  -> [db EXCEPT !.tables = @ \cup {Model(st.name, st.on)}]
    [] st.op = "index"   -> [db EXCEPT !.indexes = @ \cup {Model(st.name, st.on)}]
    [] st.op = "drop"    -> [tables |-> {t \in db.tables : t.name # st.name},
                             indexes |-> {i \in db.indexes : st.name \notin i.on}]
    [] st.op = "unindex" -> [db EXCEPT !.indexes = {i \in @ : i.name # st.name}]

NoDraft == [tables |-> {}, indexes |-> {}]

SchemaInit ==
  /\ revision = 0
  /\ tables = {} /\ indexes = {}
  /\ todo = <<>> /\ draft = NoDraft /\ aim = 0

Migrating == aim # revision

(* alembic upgrade, or downgrade: the transaction begins.                  *)
Migrate(to) ==
  /\ ~Migrating
  /\ to # revision
  /\ aim' = to
  /\ todo' = Path(revision, to)
  /\ draft' = [tables |-> tables, indexes |-> indexes]
  /\ UNCHANGED <<revision, tables, indexes>>

Execute ==
  /\ Migrating /\ todo # <<>>
  /\ Fits(Head(todo), draft)
  /\ draft' = Applied(Head(todo), draft)
  /\ todo' = Tail(todo)
  /\ UNCHANGED <<revision, tables, indexes, aim>>

(* env.py commits the revisions together.                                  *)
Commit ==
  /\ Migrating /\ todo = <<>>
  /\ revision' = aim
  /\ tables' = draft.tables /\ indexes' = draft.indexes
  /\ draft' = NoDraft
  /\ UNCHANGED <<todo, aim>>

(* A migration dies or a statement raises: the transaction is undone.      *)
Rollback ==
  /\ Migrating
  /\ aim' = revision
  /\ todo' = <<>> /\ draft' = NoDraft
  /\ UNCHANGED <<revision, tables, indexes>>

(* DROP SCHEMA public CASCADE; CREATE SCHEMA public.                       *)
DropSchema ==
  /\ ~Migrating
  /\ revision' = 0 /\ aim' = 0
  /\ tables' = {} /\ indexes' = {}
  /\ UNCHANGED <<todo, draft>>

-----------------------------------------------------------------------------
(* Every statement of a migration finds what it needs: from any revision   *)
(* to any other, again and again, no CREATE comes before what it refers to *)
(* and no DROP leaves a reference dangling, a column of citext included.   *)
(* At the head the tables are those of models.py, with their foreign keys, *)
(* the extensions and the weights; at the base nothing is left: the        *)
(* revisions round-trip.                                                   *)
MigrationsFit ==
  /\ Migrating /\ todo # <<>> => Fits(Head(todo), draft)
  /\ revision = HeadRevision => tables = Models /\ DefaultWeights \in indexes
  /\ revision = 0 => tables = {} /\ indexes = {}
=============================================================================
