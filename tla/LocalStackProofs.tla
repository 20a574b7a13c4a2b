-------------------------- MODULE LocalStackProofs --------------------------
(***************************************************************************)
(* Theorems about LocalStack, for any uploads and any number of commands.  *)
(***************************************************************************)
EXTENDS LocalStack, TLAPS

Op == {"create", "index", "drop", "unindex"}
Name ==
  {"carriers", "airports", "aircraft", "users", "hazard_categories", "flights", "documents", "reports",
   "report_fields", "report_hazards", "report_flight_links", "dispositions", "ingest_events",
   "linkage_weights", "ix_airports_iata_code", "ix_flights_date_origin", "ix_documents_status_active",
   "ix_reports_priority_keyset", "ix_reports_narrative_tsv", "ix_reports_coded",
   "ix_report_hazards_category", "citext", "pg_trgm", "default_weights"}
StatementType == [op : Op, name : Name, on : SUBSET Name]
Object == [name : Name, on : SUBSET Name]
Database == [tables : SUBSET Object, indexes : SUBSET Object]

(* The objects that statements create, and the names that statements drop, *)
(* all of them or those before the i-th.                                   *)
Made(s, op) == {Model(s[i].name, s[i].on) : i \in {j \in DOMAIN s : s[j].op = op}}
Named(s, op) == {s[i].name : i \in {j \in DOMAIN s : s[j].op = op}}
Before(s, i, op) == {s[j].name : j \in {k \in 1 .. (i - 1) : s[k].op = op}}

(* Scripts that add to a database, and that take away from it, in an order *)
(* that it accepts.                                                        *)
Adds(s, db) ==
  \A i \in DOMAIN s :
    /\ s[i].op \in {"create", "index"}
    /\ s[i].on \subseteq Names(db.tables) \cup Before(s, i, "create")
    /\ s[i].op = "create" => s[i].name \notin Names(db.tables) \cup Before(s, i, "create")
    /\ s[i].op = "index" => s[i].name \notin Names(db.indexes) \cup Before(s, i, "index")

Removes(s, db) ==
  \A i \in DOMAIN s :
    \/ /\ s[i].op = "drop"
       /\ s[i].name \in Names(db.tables) \ Before(s, i, "drop")
       /\ \A t \in db.tables : s[i].name \in t.on => t.name \in Before(s, i, "drop")
    \/ /\ s[i].op = "unindex"
       /\ s[i].name \notin Before(s, i, "unindex")
       /\ \E x \in db.indexes : x.name = s[i].name /\ x.on \cap Before(s, i, "drop") = {}

(* What a script leaves.                                                   *)
After(s, db) ==
  [tables  |-> {t \in db.tables : t.name \notin Named(s, "drop")} \cup Made(s, "create"),
   indexes |-> {x \in db.indexes : x.name \notin Named(s, "unindex") /\ x.on \cap Named(s, "drop") = {}}
               \cup Made(s, "index")]

(* The database at each revision.                                          *)
Db(r) == IF r = 0 THEN NoDraft
         ELSE IF r = 1 THEN After(Head0001, NoDraft)
         ELSE After(AddWeights, After(Head0001, NoDraft))

SchemaInv ==
  /\ revision \in 0 .. 2 /\ aim \in 0 .. 2
  /\ tables = Db(revision).tables /\ indexes = Db(revision).indexes
  /\ Migrating => /\ todo \in Seq(StatementType) /\ draft \in Database
                  /\ Adds(todo, draft) \/ Removes(todo, draft)
                  /\ After(todo, draft) = Db(aim)

(* What 0001 makes, by script, and the table of 0002.                      *)
ReferredModels == {Model("users", {"citext"}), Model("hazard_categories", {})}
Workflow0001 == {Model("dispositions", {"reports", "users"}), Model("ingest_events", {"documents"})}
WeightTable == Model("linkage_weights", {})
ReferenceIndexes ==
  {Model("ix_airports_iata_code", {"airports"}), Model("ix_flights_date_origin", {"flights"})}
DocumentIndexes ==
  {Model("ix_documents_status_active", {"documents"}), Model("ix_reports_priority_keyset", {"reports"}),
   Model("ix_reports_narrative_tsv", {"reports"}), Model("ix_reports_coded", {"reports"}),
   Model("ix_report_hazards_category", {"report_hazards"})}

(* Sequence u is s followed by t, pointwise.                               *)
Joins(u, s, t) ==
  /\ \A i \in DOMAIN s : u[i] = s[i] /\ \A op \in Op : Before(u, i, op) = Before(s, i, op)
  /\ \A i \in DOMAIN t :
       /\ u[Len(s) + i] = t[i]
       /\ \A op \in Op : Before(u, Len(s) + i, op) = Named(s, op) \cup Before(t, i, op)
  /\ \A i \in DOMAIN u : i \in DOMAIN s \/ \E k \in DOMAIN t : i = Len(s) + k
  /\ \A i \in DOMAIN s : i \in DOMAIN u
  /\ \A i \in DOMAIN t : Len(s) + i \in DOMAIN u
  /\ \A op \in Op : /\ Made(u, op) = Made(s, op) \cup Made(t, op)
                   /\ Named(u, op) = Named(s, op) \cup Named(t, op)

LEMMA Joined ==
  ASSUME NEW s \in Seq(StatementType), NEW t \in Seq(StatementType)
  PROVE  s \o t \in Seq(StatementType) /\ Joins(s \o t, s, t)
<1> DEFINE u == s \o t
<1>1. /\ u \in Seq(StatementType)
      /\ Len(s) \in Nat /\ Len(t) \in Nat
      /\ DOMAIN s = 1 .. Len(s) /\ DOMAIN t = 1 .. Len(t) /\ DOMAIN u = 1 .. (Len(s) + Len(t))
      /\ \A i \in DOMAIN s : u[i] = s[i]
      /\ \A i \in DOMAIN t : u[Len(s) + i] = t[i]
  OBVIOUS
<1> HIDE DEF u
<1>2. \A i \in DOMAIN u : i \in DOMAIN s \/ \E k \in DOMAIN t : i = Len(s) + k
  <2> SUFFICES ASSUME NEW i \in DOMAIN u, i \notin DOMAIN s
               PROVE  i - Len(s) \in DOMAIN t /\ i = Len(s) + (i - Len(s))
    OBVIOUS
  <2> QED
    BY <1>1
<1>3. \A i \in DOMAIN s : i \in DOMAIN u
  BY <1>1
<1>4. \A i \in DOMAIN t : Len(s) + i \in DOMAIN u
  BY <1>1
<1>5. ASSUME NEW op \in Op
      PROVE  Made(u, op) = Made(s, op) \cup Made(t, op)
  BY <1>1, <1>2, <1>3, <1>4 DEF Made
<1>6. ASSUME NEW op \in Op
      PROVE  Named(u, op) = Named(s, op) \cup Named(t, op)
  BY <1>1, <1>2, <1>3, <1>4 DEF Named
<1>7. ASSUME NEW i \in DOMAIN s, NEW op \in Op
      PROVE  Before(u, i, op) = Before(s, i, op)
  <2>1. \A j \in 1 .. (i - 1) : j \in DOMAIN s /\ u[j] = s[j]
    BY <1>1
  <2> QED
    BY <2>1 DEF Before
<1>8. ASSUME NEW i \in DOMAIN t, NEW op \in Op
      PROVE  Before(u, Len(s) + i, op) = Named(s, op) \cup Before(t, i, op)
  <2>1. \A j \in 1 .. (Len(s) + i - 1) : j \in DOMAIN s \/ \E k \in 1 .. (i - 1) : j = Len(s) + k
    <3> SUFFICES ASSUME NEW j \in 1 .. (Len(s) + i - 1), j \notin DOMAIN s
                 PROVE  j - Len(s) \in 1 .. (i - 1) /\ j = Len(s) + (j - Len(s))
      OBVIOUS
    <3> QED
      BY <1>1
  <2>2. \A j \in DOMAIN s : j \in 1 .. (Len(s) + i - 1)
    BY <1>1
  <2>3. \A k \in 1 .. (i - 1) : Len(s) + k \in 1 .. (Len(s) + i - 1) /\ k \in DOMAIN t
    BY <1>1
  <2>4. ASSUME NEW x \in Before(u, Len(s) + i, op)
        PROVE  x \in Named(s, op) \cup Before(t, i, op)
    <3>1. PICK j \in 1 .. (Len(s) + i - 1) : u[j].op = op /\ x = u[j].name
      BY <2>4 DEF Before
    <3>2. CASE j \in DOMAIN s
      BY <1>1, <3>1, <3>2 DEF Named
    <3>3. CASE \E k \in 1 .. (i - 1) : j = Len(s) + k
      BY <1>1, <2>3, <3>1, <3>3 DEF Before
    <3> QED
      BY <2>1, <3>2, <3>3
  <2>5. Named(s, op) \subseteq Before(u, Len(s) + i, op)
    BY <1>1, <2>2 DEF Before, Named
  <2>6. Before(t, i, op) \subseteq Before(u, Len(s) + i, op)
    <3> SUFFICES ASSUME NEW k \in 1 .. (i - 1), t[k].op = op
                 PROVE  t[k].name \in Before(u, Len(s) + i, op)
      BY DEF Before
    <3> DEFINE j == Len(s) + k
    <3>1. j \in 1 .. (Len(s) + i - 1) /\ u[j] = t[k]
      BY <1>1, <2>3
    <3> HIDE DEF j
    <3> QED
      BY <3>1 DEF Before
  <2> QED
    BY <2>4, <2>5, <2>6
<1> QED
  BY <1>1, <1>2, <1>3, <1>4, <1>5, <1>6, <1>7, <1>8 DEF u, Joins

(* Two scripts that add make one that adds, and the same of two that take  *)
(* away; and what is left is what the second leaves of the first's.        *)
LEMMA NamesMade == \A s, op : Names(Made(s, op)) = Named(s, op)
<1> SUFFICES ASSUME NEW s, NEW op
             PROVE  Names(Made(s, op)) = Named(s, op)
  OBVIOUS
<1>1. \A i : Model(s[i].name, s[i].on).name = s[i].name
  BY DEF Model
<1> QED
  BY <1>1 DEF Names, Made, Named

LEMMA OneSided ==
  ASSUME NEW s, NEW db
  PROVE  /\ Adds(s, db) => Named(s, "drop") = {} /\ Named(s, "unindex") = {}
         /\ Removes(s, db) => Made(s, "create") = {} /\ Made(s, "index") = {}
BY DEF Adds, Removes, Named, Made

LEMMA AfterAdds ==
  ASSUME NEW s, NEW db, Adds(s, db)
  PROVE  /\ After(s, db).tables = db.tables \cup Made(s, "create")
         /\ After(s, db).indexes = db.indexes \cup Made(s, "index")
BY OneSided DEF After

LEMMA AfterRemoves ==
  ASSUME NEW s, NEW db, Removes(s, db)
  PROVE  /\ After(s, db).tables = {t \in db.tables : t.name \notin Named(s, "drop")}
         /\ After(s, db).indexes =
              {x \in db.indexes : x.name \notin Named(s, "unindex") /\ x.on \cap Named(s, "drop") = {}}
BY OneSided DEF After

LEMMA SameAfter ==
  ASSUME NEW s, NEW t, NEW a, NEW b,
         After(s, a).tables = After(t, b).tables, After(s, a).indexes = After(t, b).indexes
  PROVE  After(s, a) = After(t, b)
BY DEF After

LEMMA JoinedAdds ==
  ASSUME NEW s \in Seq(StatementType), NEW t \in Seq(StatementType), NEW db,
         Adds(s, db), Adds(t, After(s, db))
  PROVE  Adds(s \o t, db) /\ After(s \o t, db) = After(t, After(s, db))
<1> DEFINE u == s \o t
           mid == After(s, db)
<1>j. Joins(u, s, t)
  BY Joined
<1> HIDE DEF u
<1>1. /\ Names(mid.tables) = Names(db.tables) \cup Named(s, "create")
      /\ Names(mid.indexes) = Names(db.indexes) \cup Named(s, "index")
  <2>1. \A a, b : Names(a \cup b) = Names(a) \cup Names(b)
    BY DEF Names
  <2> QED
    BY <2>1, AfterAdds, NamesMade
<1>2. ASSUME NEW i \in DOMAIN u
      PROVE  /\ u[i].op \in {"create", "index"}
             /\ u[i].on \subseteq Names(db.tables) \cup Before(u, i, "create")
             /\ u[i].op = "create" => u[i].name \notin Names(db.tables) \cup Before(u, i, "create")
             /\ u[i].op = "index" => u[i].name \notin Names(db.indexes) \cup Before(u, i, "index")
  <2>1. CASE i \in DOMAIN s
    BY <1>j, <2>1 DEF Joins, Op, Adds
  <2>2. ASSUME NEW k \in DOMAIN t, i = Len(s) + k
        PROVE  /\ u[i] = t[k]
               /\ Before(u, i, "create") = Named(s, "create") \cup Before(t, k, "create")
               /\ Before(u, i, "index") = Named(s, "index") \cup Before(t, k, "index")
    BY <1>j, <2>2 DEF Joins, Op
  <2>3. CASE \E k \in DOMAIN t : i = Len(s) + k
    <3> HIDE DEF mid
    <3> QED
      BY <1>1, <2>2, <2>3 DEF Adds, mid
  <2> QED
    BY <1>j, <2>1, <2>3 DEF Joins, Op
<1>3. Adds(u, db)
  BY <1>2, Zenon DEF Adds
<1>4. /\ Made(u, "create") = Made(s, "create") \cup Made(t, "create")
      /\ Made(u, "index") = Made(s, "index") \cup Made(t, "index")
  BY <1>j DEF Joins, Op
<1>5. /\ After(u, db).tables = After(t, mid).tables
      /\ After(u, db).indexes = After(t, mid).indexes
  <2>1. /\ After(t, mid).tables = mid.tables \cup Made(t, "create")
        /\ After(t, mid).indexes = mid.indexes \cup Made(t, "index")
    BY AfterAdds
  <2>2. /\ After(u, db).tables = db.tables \cup Made(u, "create")
        /\ After(u, db).indexes = db.indexes \cup Made(u, "index")
    BY <1>3, AfterAdds
  <2>3. /\ mid.tables = db.tables \cup Made(s, "create")
        /\ mid.indexes = db.indexes \cup Made(s, "index")
    BY AfterAdds
  <2> HIDE DEF mid
  <2> QED
    BY <1>4, <2>1, <2>2, <2>3
<1> QED
  BY <1>3, <1>5, SameAfter DEF u

LEMMA JoinedRemoves ==
  ASSUME NEW s \in Seq(StatementType), NEW t \in Seq(StatementType), NEW db,
         Removes(s, db), Removes(t, After(s, db))
  PROVE  Removes(s \o t, db) /\ After(s \o t, db) = After(t, After(s, db))
<1> DEFINE u == s \o t
           mid == After(s, db)
<1>j. Joins(u, s, t)
  BY Joined
<1> HIDE DEF u
<1>1. /\ mid.tables = {x \in db.tables : x.name \notin Named(s, "drop")}
      /\ mid.indexes =
           {x \in db.indexes : x.name \notin Named(s, "unindex") /\ x.on \cap Named(s, "drop") = {}}
  BY AfterRemoves
<1>2. ASSUME NEW k \in DOMAIN t, NEW i, i = Len(s) + k
      PROVE  /\ u[i] = t[k]
             /\ Before(u, i, "drop") = Named(s, "drop") \cup Before(t, k, "drop")
             /\ Before(u, i, "unindex") = Named(s, "unindex") \cup Before(t, k, "unindex")
  BY <1>j, <1>2 DEF Joins, Op
<1>3. ASSUME NEW i \in DOMAIN u
      PROVE  \/ /\ u[i].op = "drop"
                /\ u[i].name \in Names(db.tables) \ Before(u, i, "drop")
                /\ \A x \in db.tables : u[i].name \in x.on => x.name \in Before(u, i, "drop")
             \/ /\ u[i].op = "unindex"
                /\ u[i].name \notin Before(u, i, "unindex")
                /\ \E x \in db.indexes : x.name = u[i].name /\ x.on \cap Before(u, i, "drop") = {}
  <2>1. CASE i \in DOMAIN s
    BY <1>j, <2>1 DEF Joins, Op, Removes
  <2>2. ASSUME NEW k \in DOMAIN t, i = Len(s) + k, t[k].op = "drop"
        PROVE  /\ u[i].op = "drop"
               /\ u[i].name \in Names(db.tables) \ Before(u, i, "drop")
               /\ \A x \in db.tables : u[i].name \in x.on => x.name \in Before(u, i, "drop")
    <3>1. /\ t[k].name \in Names(mid.tables) \ Before(t, k, "drop")
          /\ \A x \in mid.tables : t[k].name \in x.on => x.name \in Before(t, k, "drop")
      BY <2>2 DEF Removes
    <3> HIDE DEF mid
    <3> QED
      BY <1>1, <1>2, <2>2, <3>1 DEF Names
  <2>3. ASSUME NEW k \in DOMAIN t, i = Len(s) + k, t[k].op = "unindex"
        PROVE  /\ u[i].op = "unindex"
               /\ u[i].name \notin Before(u, i, "unindex")
               /\ \E x \in db.indexes : x.name = u[i].name /\ x.on \cap Before(u, i, "drop") = {}
    <3>1. /\ t[k].name \notin Before(t, k, "unindex")
          /\ \E x \in mid.indexes : x.name = t[k].name /\ x.on \cap Before(t, k, "drop") = {}
      BY <2>3 DEF Removes
    <3> HIDE DEF mid
    <3> QED
      BY <1>1, <1>2, <2>3, <3>1
  <2>4. CASE \E k \in DOMAIN t : i = Len(s) + k
    BY <2>2, <2>3, <2>4, Zenon DEF Removes
  <2> QED
    BY <1>j, <2>1, <2>4 DEF Joins, Op
<1>4. Removes(u, db)
  BY <1>3, Zenon DEF Removes
<1>5. /\ Named(u, "drop") = Named(s, "drop") \cup Named(t, "drop")
      /\ Named(u, "unindex") = Named(s, "unindex") \cup Named(t, "unindex")
  BY <1>j DEF Joins, Op
<1>6. /\ After(u, db).tables = After(t, mid).tables
      /\ After(u, db).indexes = After(t, mid).indexes
  <2>1. /\ After(t, mid).tables = {x \in mid.tables : x.name \notin Named(t, "drop")}
        /\ After(t, mid).indexes =
             {x \in mid.indexes : x.name \notin Named(t, "unindex") /\ x.on \cap Named(t, "drop") = {}}
    BY AfterRemoves
  <2>2. /\ After(u, db).tables = {x \in db.tables : x.name \notin Named(u, "drop")}
        /\ After(u, db).indexes =
             {x \in db.indexes : x.name \notin Named(u, "unindex") /\ x.on \cap Named(u, "drop") = {}}
    BY <1>4, AfterRemoves
  <2> HIDE DEF mid
  <2> QED
    BY <1>1, <1>5, <2>1, <2>2
<1> QED
  BY <1>4, <1>6, SameAfter DEF u

(* Conversely, each part of such a script adds, or takes away, in its turn.*)
LEMMA SplitAdds ==
  ASSUME NEW s \in Seq(StatementType), NEW t \in Seq(StatementType), NEW db, Adds(s \o t, db)
  PROVE  Adds(s, db) /\ Adds(t, After(s, db))
<1> DEFINE u == s \o t
           mid == After(s, db)
<1>j. Joins(u, s, t)
  BY Joined
<1> HIDE DEF u
<1>0. Adds(u, db)
  BY DEF u
<1>1. Adds(s, db)
  BY <1>0, <1>j DEF Adds, Joins, Op
<1>2. /\ Names(mid.tables) = Names(db.tables) \cup Named(s, "create")
      /\ Names(mid.indexes) = Names(db.indexes) \cup Named(s, "index")
  <2>1. \A a, b : Names(a \cup b) = Names(a) \cup Names(b)
    BY DEF Names
  <2> QED
    BY <1>1, <2>1, AfterAdds, NamesMade
<1> HIDE DEF mid
<1>3. Adds(t, mid)
  BY <1>0, <1>2, <1>j DEF Adds, Joins, Op
<1> QED
  BY <1>1, <1>3 DEF mid

LEMMA SplitRemoves ==
  ASSUME NEW s \in Seq(StatementType), NEW t \in Seq(StatementType), NEW db, Removes(s \o t, db)
  PROVE  Removes(s, db) /\ Removes(t, After(s, db))
<1> DEFINE u == s \o t
           mid == After(s, db)
<1>j. Joins(u, s, t)
  BY Joined
<1> HIDE DEF u
<1>0. Removes(u, db)
  BY DEF u
<1>1. Removes(s, db)
  BY <1>0, <1>j DEF Removes, Joins, Op
<1>2. /\ mid.tables = {x \in db.tables : x.name \notin Named(s, "drop")}
      /\ mid.indexes =
           {x \in db.indexes : x.name \notin Named(s, "unindex") /\ x.on \cap Named(s, "drop") = {}}
  BY <1>1, AfterRemoves
<1> HIDE DEF mid
<1>3. ASSUME NEW k \in DOMAIN t
      PROVE  \/ /\ t[k].op = "drop"
                /\ t[k].name \in Names(mid.tables) \ Before(t, k, "drop")
                /\ \A x \in mid.tables : t[k].name \in x.on => x.name \in Before(t, k, "drop")
             \/ /\ t[k].op = "unindex"
                /\ t[k].name \notin Before(t, k, "unindex")
                /\ \E x \in mid.indexes : x.name = t[k].name /\ x.on \cap Before(t, k, "drop") = {}
  <2>1. /\ Len(s) + k \in DOMAIN u /\ u[Len(s) + k] = t[k]
        /\ Before(u, Len(s) + k, "drop") = Named(s, "drop") \cup Before(t, k, "drop")
        /\ Before(u, Len(s) + k, "unindex") = Named(s, "unindex") \cup Before(t, k, "unindex")
    BY <1>j DEF Joins, Op
  <2> QED
    BY <1>0, <1>2, <2>1 DEF Removes, Names
<1>4. Removes(t, mid)
  BY <1>3, Zenon DEF Removes
<1> QED
  BY <1>1, <1>4 DEF mid

(* One statement that adds or takes away is accepted, and does what is     *)
(* said of scripts.                                                        *)
LEMMA Single ==
  ASSUME NEW st \in StatementType, NEW db \in Database,
         Adds(<<st>>, db) \/ Removes(<<st>>, db)
  PROVE  Fits(st, db) /\ Applied(st, db) = After(<<st>>, db) /\ Applied(st, db) \in Database
<1> DEFINE one == <<st>>
<1>1. DOMAIN one = {1} /\ one[1] = st
  OBVIOUS
<1> HIDE DEF one
<1>2. \A op : /\ Named(one, op) = IF st.op = op THEN {st.name} ELSE {}
              /\ Made(one, op) = IF st.op = op THEN {Model(st.name, st.on)} ELSE {}
              /\ Before(one, 1, op) = {}
  BY <1>1 DEF Named, Made, Before
<1>3. Fits(st, db)
  <2>1. CASE Adds(one, db)
    BY <1>1, <1>2, <2>1 DEF Adds, Fits
  <2>2. CASE Removes(one, db)
    <3>1. \/ /\ st.op = "drop"
             /\ st.name \in Names(db.tables)
             /\ \A t \in db.tables : st.name \notin t.on
          \/ /\ st.op = "unindex"
             /\ \E x \in db.indexes : x.name = st.name
      <4>1. 1 \in DOMAIN one
        BY <1>1
      <4>2. Before(one, 1, "drop") = {} /\ Before(one, 1, "unindex") = {}
        BY <1>2
      <4> QED
        BY <1>1, <2>2, <4>1, <4>2 DEF Removes
    <3>2. (\E x \in db.indexes : x.name = st.name) => st.name \in Names(db.indexes)
      BY DEF Names
    <3> QED
      BY <3>1, <3>2 DEF Fits
  <2> QED
    BY <2>1, <2>2 DEF one
<1>4. /\ db = [tables |-> db.tables, indexes |-> db.indexes]
      /\ db.tables \subseteq Object /\ db.indexes \subseteq Object
      /\ Model(st.name, st.on) \in Object
      /\ st.op \in Op
  BY DEF Database, Object, StatementType, Model
<1>5. Applied(st, db) = After(one, db)
  <2> DEFINE object == Model(st.name, st.on)
  <2>1. CASE st.op = "create"
    <3>1. /\ Named(one, "drop") = {} /\ Named(one, "unindex") = {}
          /\ Made(one, "create") = {object} /\ Made(one, "index") = {}
      BY <1>2, <2>1
    <3>2. Applied(st, db) = [tables |-> db.tables \cup {object}, indexes |-> db.indexes]
      BY <1>4, <2>1 DEF Applied
    <3> HIDE DEF object
    <3> QED
      BY <3>1, <3>2 DEF After
  <2>2. CASE st.op = "index"
    <3>1. /\ Named(one, "drop") = {} /\ Named(one, "unindex") = {}
          /\ Made(one, "create") = {} /\ Made(one, "index") = {object}
      BY <1>2, <2>2
    <3>2. Applied(st, db) = [tables |-> db.tables, indexes |-> db.indexes \cup {object}]
      BY <1>4, <2>2 DEF Applied
    <3> HIDE DEF object
    <3> QED
      BY <3>1, <3>2 DEF After
  <2>3. CASE st.op = "drop"
    <3>1. /\ Named(one, "drop") = {st.name} /\ Named(one, "unindex") = {}
          /\ Made(one, "create") = {} /\ Made(one, "index") = {}
      BY <1>2, <2>3
    <3>2. {t \in db.tables : t.name \notin Named(one, "drop")} \cup Made(one, "create")
            = {t \in db.tables : t.name # st.name}
      BY <3>1
    <3>3. \A x : x.on \cap {st.name} = {} <=> st.name \notin x.on
      OBVIOUS
    <3>4. {x \in db.indexes : /\ x.name \notin Named(one, "unindex")
                              /\ x.on \cap Named(one, "drop") = {}} \cup Made(one, "index")
            = {i \in db.indexes : st.name \notin i.on}
      BY <3>1, <3>3
    <3>5. Applied(st, db) = [tables |-> {t \in db.tables : t.name # st.name},
                             indexes |-> {i \in db.indexes : st.name \notin i.on}]
      BY <2>3 DEF Applied
    <3> QED
      BY <3>2, <3>4, <3>5 DEF After
  <2>4. CASE st.op = "unindex"
    BY <1>2, <1>4, <2>4 DEF Applied, After
  <2> QED
    BY <1>4, <2>1, <2>2, <2>3, <2>4 DEF Op
<1>6. After(one, db) \in Database
  BY <1>2, <1>4 DEF After, Database
<1> QED
  BY <1>3, <1>5, <1>6 DEF one

(* A running migration: what is left of it goes through, and leads where   *)
(* it led before.                                                          *)
LEMMA OneStatement ==
  ASSUME NEW s \in Seq(StatementType), NEW db \in Database, s # <<>>,
         Adds(s, db) \/ Removes(s, db)
  PROVE  /\ Fits(Head(s), db)
         /\ Tail(s) \in Seq(StatementType)
         /\ Applied(Head(s), db) \in Database
         /\ Adds(Tail(s), Applied(Head(s), db)) \/ Removes(Tail(s), Applied(Head(s), db))
         /\ After(Tail(s), Applied(Head(s), db)) = After(s, db)
<1> DEFINE first == <<Head(s)>>
           rest == Tail(s)
<1>1. /\ Head(s) \in StatementType /\ first \in Seq(StatementType) /\ rest \in Seq(StatementType)
      /\ s = first \o rest
  OBVIOUS
<1> HIDE DEF rest
<1>2. CASE Adds(s, db)
  <2> HIDE DEF first
  <2>1. Adds(first, db) /\ Adds(rest, After(first, db))
    BY <1>1, <1>2, SplitAdds
  <2>2. After(rest, After(first, db)) = After(s, db)
    BY <1>1, <2>1, JoinedAdds
  <2> QED
    BY <1>1, <2>1, <2>2, Single DEF first, rest
<1>3. CASE Removes(s, db)
  <2> HIDE DEF first
  <2>1. Removes(first, db) /\ Removes(rest, After(first, db))
    BY <1>1, <1>3, SplitRemoves
  <2>2. After(rest, After(first, db)) = After(s, db)
    BY <1>1, <2>1, JoinedRemoves
  <2> QED
    BY <1>1, <2>1, <2>2, Single DEF first, rest
<1> QED
  BY <1>2, <1>3

-----------------------------------------------------------------------------
(* What makes a script add, or take away: nothing is named twice, and what *)
(* a statement needs is in the database or was made, or is gone, before.   *)
NamedOnce(s) == \A i, j \in DOMAIN s : i # j => s[i].name # s[j].name
Earlier(s, i, op, name) == \E j \in DOMAIN s : j < i /\ s[j].op = op /\ s[j].name = name

LEMMA AddsInOrder ==
  ASSUME NEW s \in Seq(StatementType), NEW db, NamedOnce(s),
         \A i \in DOMAIN s : s[i].op \in {"create", "index"},
         \A i \in DOMAIN s : s[i].name \notin Names(db.tables) \cup Names(db.indexes),
         \A i \in DOMAIN s : \A x \in s[i].on : x \in Names(db.tables) \/ Earlier(s, i, "create", x)
  PROVE  Adds(s, db)
<1>1. DOMAIN s \subseteq Nat /\ \A i \in DOMAIN s : 1 .. (i - 1) \subseteq DOMAIN s
  OBVIOUS
<1>2. \A i \in DOMAIN s, op \in Op : s[i].name \notin Before(s, i, op)
  BY <1>1 DEF Before, NamedOnce
<1>3. \A i \in DOMAIN s, op \in Op : \A x : Earlier(s, i, op, x) => x \in Before(s, i, op)
  BY <1>1 DEF Before, Earlier
<1> QED
  BY <1>2, <1>3 DEF Adds, Op

LEMMA RemovesInOrder ==
  ASSUME NEW s \in Seq(StatementType), NEW db, NamedOnce(s),
         \A i \in DOMAIN s : s[i].op \in {"drop", "unindex"},
         \A i \in DOMAIN s : s[i].op = "drop" =>
           /\ s[i].name \in Names(db.tables)
           /\ \A t \in db.tables : s[i].name \in t.on => Earlier(s, i, "drop", t.name),
         \A i \in DOMAIN s : s[i].op = "unindex" =>
           \E x \in db.indexes : x.name = s[i].name /\ \A n \in x.on : ~ Earlier(s, i, "drop", n)
  PROVE  Removes(s, db)
<1>1. DOMAIN s \subseteq Nat /\ \A i \in DOMAIN s : 1 .. (i - 1) \subseteq DOMAIN s
  OBVIOUS
<1>2. \A i \in DOMAIN s, op \in Op : s[i].name \notin Before(s, i, op)
  BY <1>1 DEF Before, NamedOnce
<1>3. \A i \in DOMAIN s, op \in Op : \A x : Earlier(s, i, op, x) <=> x \in Before(s, i, op)
  BY <1>1 DEF Before, Earlier
<1> QED
  BY <1>2, <1>3 DEF Removes, Op

(* The statements of the scripts, and their fields.                        *)
LEMMA StatementTypes ==
  \A name \in Name :
    /\ \A on \in SUBSET Name : Table(name, on) \in StatementType
    /\ \A on \in Name : Index(name, on) \in StatementType
    /\ DropTable(name) \in StatementType /\ DropIndex(name) \in StatementType
BY DEF Table, Index, DropTable, DropIndex, StatementType, Op

LEMMA Fields ==
  \A name, on :
    /\ Table(name, on).op = "create" /\ Table(name, on).name = name /\ Table(name, on).on = on
    /\ Index(name, on).op = "index" /\ Index(name, on).name = name /\ Index(name, on).on = {on}
    /\ DropTable(name).op = "drop" /\ DropTable(name).name = name
    /\ DropIndex(name).op = "unindex" /\ DropIndex(name).name = name
BY DEF Table, Index, DropTable, DropIndex

(* Each script of 0001, and what it makes.                                 *)
LEMMA ReferenceAdds ==
  /\ ReferenceTables \in Seq(StatementType) /\ Adds(ReferenceTables, NoDraft)
  /\ Made(ReferenceTables, "create") = Extensions \cup ReferenceModels \cup ReferredModels
  /\ Made(ReferenceTables, "index") = ReferenceIndexes
<1> DEFINE s == ReferenceTables
<1>1. /\ s[1] = Table("citext", {}) /\ s[2] = Table("pg_trgm", {})
      /\ s[3] = Table("carriers", {}) /\ s[4] = Table("airports", {})
      /\ s[5] = Index("ix_airports_iata_code", "airports")
      /\ s[6] = Table("aircraft", {}) /\ s[7] = Table("users", {"citext"})
      /\ s[8] = Table("hazard_categories", {})
      /\ s[9] = Table("flights", {"carriers", "aircraft", "airports"})
      /\ s[10] = Index("ix_flights_date_origin", "flights")
      /\ DOMAIN s = 1 .. 10
  BY DEF ReferenceTables, Extension
<1>a. \A i \in 1 .. 10 : s[i] \in StatementType
  <2> HIDE DEF s
  <2> QED
    BY <1>1, StatementTypes DEF Name
<1>2. s \in Seq(StatementType)
  <2>1. s = [i \in 1 .. 10 |-> s[i]]
    BY DEF ReferenceTables
  <2> HIDE DEF s
  <2> QED
    BY <1>a, <2>1
<1> HIDE DEF s
<1>3. NamedOnce(s)
  BY <1>1, Fields DEF NamedOnce
<1>4. \A i \in DOMAIN s : \A x \in s[i].on : Earlier(s, i, "create", x)
  BY <1>1, Fields DEF Earlier
<1>5. \A i \in DOMAIN s : s[i].op \in {"create", "index"}
  BY <1>1, Fields
<1>6. NoDraft.tables = {} /\ NoDraft.indexes = {} /\ Names({}) = {}
  BY DEF Names, NoDraft
<1>7. Adds(s, NoDraft)
  BY <1>2, <1>3, <1>4, <1>5, <1>6, AddsInOrder
<1>8. Made(s, "create") = Extensions \cup ReferenceModels \cup ReferredModels
  BY <1>1, Fields DEF Made, Extensions, ReferenceModels, ReferredModels
<1>9. Made(s, "index") = ReferenceIndexes
  <2>1. ASSUME NEW i \in DOMAIN s, s[i].op = "index"
        PROVE  Model(s[i].name, s[i].on) \in ReferenceIndexes
    BY <1>1, <2>1 DEF Index, Table, ReferenceIndexes
  <2>2. ReferenceIndexes \subseteq Made(s, "index")
    <3>1. \A i \in DOMAIN s : s[i].op = "index" => Model(s[i].name, s[i].on) \in Made(s, "index")
      BY DEF Made
    <3>2. s[5].op = "index" /\ s[5].name = "ix_airports_iata_code" /\ s[5].on = {"airports"}
      BY <1>1 DEF Index
    <3>3. s[10].op = "index" /\ s[10].name = "ix_flights_date_origin" /\ s[10].on = {"flights"}
      BY <1>1 DEF Index
    <3> QED
      BY <1>1, <3>1, <3>2, <3>3 DEF ReferenceIndexes
  <2>3. Made(s, "index") \subseteq ReferenceIndexes
    BY <2>1 DEF Made
  <2> QED
    BY <2>2, <2>3
<1> QED
  BY <1>2, <1>7, <1>8, <1>9 DEF s

LEMMA AfterReference ==
  /\ After(ReferenceTables, NoDraft).tables = Extensions \cup ReferenceModels \cup ReferredModels
  /\ After(ReferenceTables, NoDraft).indexes = ReferenceIndexes
<1>1. /\ After(ReferenceTables, NoDraft).tables = NoDraft.tables \cup Made(ReferenceTables, "create")
      /\ After(ReferenceTables, NoDraft).indexes = NoDraft.indexes \cup Made(ReferenceTables, "index")
  BY ReferenceAdds, AfterAdds
<1>2. NoDraft.tables = {} /\ NoDraft.indexes = {}
  BY DEF NoDraft
<1> QED
  BY <1>1, <1>2, ReferenceAdds

LEMMA NamesOf == \A a, b : Names(a \cup b) = Names(a) \cup Names(b)
BY DEF Names

LEMMA NameOf ==
  \A name, on :
    Names({Model(name, on)}) = {name} /\ Model(name, on).name = name /\ Model(name, on).on = on
BY DEF Names, Model

LEMMA DocumentsAdd ==
  LET db == After(ReferenceTables, NoDraft) IN
    /\ DocumentTables \in Seq(StatementType) /\ Adds(DocumentTables, db)
    /\ Made(DocumentTables, "create") = ReportModels \cup {Model("documents", {"users"})}
    /\ Made(DocumentTables, "index") = DocumentIndexes
<1> DEFINE s == DocumentTables
           db == After(ReferenceTables, NoDraft)
<1>1. /\ s[1] = Table("documents", {"users"}) /\ s[2] = Index("ix_documents_status_active", "documents")
      /\ s[3] = Table("reports", {"documents", "users"})
      /\ s[4] = Index("ix_reports_priority_keyset", "reports")
      /\ s[5] = Index("ix_reports_narrative_tsv", "reports")
      /\ s[6] = Index("ix_reports_coded", "reports")
      /\ s[7] = Table("report_fields", {"reports"})
      /\ s[8] = Table("report_hazards", {"reports", "hazard_categories"})
      /\ s[9] = Index("ix_report_hazards_category", "report_hazards")
      /\ s[10] = Table("report_flight_links", {"reports", "flights"})
      /\ DOMAIN s = 1 .. 10
  BY DEF DocumentTables
<1>a. \A i \in 1 .. 10 : s[i] \in StatementType
  <2> HIDE DEF s
  <2> QED
    BY <1>1, StatementTypes DEF Name
<1>2. s \in Seq(StatementType)
  <2>1. s = [i \in 1 .. 10 |-> s[i]]
    BY DEF DocumentTables
  <2> HIDE DEF s
  <2> QED
    BY <1>a, <2>1
<1>b. /\ db.tables = Extensions \cup ReferenceModels \cup ReferredModels
      /\ db.indexes = ReferenceIndexes
  BY AfterReference
<1> HIDE DEF s, db
<1>c. /\ Names(db.tables) = {"citext", "pg_trgm", "carriers", "airports", "aircraft", "flights", "users", "hazard_categories"}
      /\ Names(db.indexes) = {"ix_airports_iata_code", "ix_flights_date_origin"}
  BY <1>b, NameOf DEF Names, Extensions, ReferenceModels, ReferredModels, ReferenceIndexes
<1>3. NamedOnce(s)
  BY <1>1, Fields DEF NamedOnce
<1>4. \A i \in DOMAIN s : \A x \in s[i].on : x \in Names(db.tables) \/ Earlier(s, i, "create", x)
  BY <1>1, <1>c, Fields DEF Earlier
<1>5. \A i \in DOMAIN s : s[i].op \in {"create", "index"}
  BY <1>1, Fields
<1>6. \A i \in DOMAIN s : s[i].name \notin Names(db.tables) \cup Names(db.indexes)
  BY <1>1, <1>c, Fields
<1>7. Adds(s, db)
  BY <1>2, <1>3, <1>4, <1>5, <1>6, AddsInOrder
<1>8. Made(s, "create") = ReportModels \cup {Model("documents", {"users"})}
  BY <1>1, Fields DEF Made, ReportModels
<1>9. Made(s, "index") = DocumentIndexes
  <2>1. ASSUME NEW i \in DOMAIN s, s[i].op = "index"
        PROVE  Model(s[i].name, s[i].on) \in DocumentIndexes
    BY <1>1, <2>1 DEF Index, Table, DocumentIndexes
  <2>2. DocumentIndexes \subseteq Made(s, "index")
    <3>1. \A i \in DOMAIN s : s[i].op = "index" => Model(s[i].name, s[i].on) \in Made(s, "index")
      BY DEF Made
    <3>2. /\ s[2].op = "index" /\ s[2].name = "ix_documents_status_active" /\ s[2].on = {"documents"}
          /\ s[4].op = "index" /\ s[4].name = "ix_reports_priority_keyset" /\ s[4].on = {"reports"}
          /\ s[5].op = "index" /\ s[5].name = "ix_reports_narrative_tsv" /\ s[5].on = {"reports"}
          /\ s[6].op = "index" /\ s[6].name = "ix_reports_coded" /\ s[6].on = {"reports"}
          /\ s[9].op = "index" /\ s[9].name = "ix_report_hazards_category" /\ s[9].on = {"report_hazards"}
      BY <1>1 DEF Index
    <3>3. \A i \in {2, 4, 5, 6, 9} : Model(s[i].name, s[i].on) \in Made(s, "index")
      BY <1>1, <3>1, <3>2
    <3> QED
      BY <3>2, <3>3 DEF DocumentIndexes
  <2>3. Made(s, "index") \subseteq DocumentIndexes
    BY <2>1 DEF Made
  <2> QED
    BY <2>2, <2>3
<1> QED
  BY <1>2, <1>7, <1>8, <1>9 DEF s, db

LEMMA WorkflowAdds ==
  ASSUME NEW db,
         {"reports", "users", "documents"} \subseteq Names(db.tables),
         {"dispositions", "ingest_events"} \cap (Names(db.tables) \cup Names(db.indexes)) = {}
  PROVE  /\ WorkflowTables \in Seq(StatementType) /\ Adds(WorkflowTables, db)
         /\ Made(WorkflowTables, "create") = Workflow0001
         /\ Made(WorkflowTables, "index") = {}
<1> DEFINE s == WorkflowTables
<1>1. /\ s[1] = Table("dispositions", {"reports", "users"}) /\ s[2] = Table("ingest_events", {"documents"})
      /\ DOMAIN s = 1 .. 2
  BY DEF WorkflowTables
<1>a. \A i \in 1 .. 2 : s[i] \in StatementType
  <2> HIDE DEF s
  <2> QED
    BY <1>1, StatementTypes DEF Name
<1>2. s \in Seq(StatementType)
  <2>1. s = [i \in 1 .. 2 |-> s[i]]
    BY DEF WorkflowTables
  <2> HIDE DEF s
  <2> QED
    BY <1>a, <2>1
<1> HIDE DEF s
<1>3. NamedOnce(s)
  BY <1>1, Fields DEF NamedOnce
<1>4. /\ \A i \in DOMAIN s : \A x \in s[i].on : x \in Names(db.tables)
      /\ \A i \in DOMAIN s : s[i].op \in {"create", "index"} /\ s[i].op # "index"
      /\ \A i \in DOMAIN s : s[i].name \notin Names(db.tables) \cup Names(db.indexes)
  BY <1>1, Fields
<1>5. Adds(s, db)
  BY <1>2, <1>3, <1>4, AddsInOrder
<1>6. /\ Made(s, "create") = Workflow0001
      /\ Made(s, "index") = {}
  BY <1>1, <1>4, Fields DEF Made, Workflow0001
<1> QED
  BY <1>2, <1>5, <1>6 DEF s

(* 0001 goes through on an empty database, and leaves the tables of        *)
(* models.py but that of the weights.                                      *)
LEMMA Head0001Adds ==
  /\ Head0001 \in Seq(StatementType) /\ Adds(Head0001, NoDraft)
  /\ After(Head0001, NoDraft).tables = Models \ {WeightTable}
  /\ After(Head0001, NoDraft).indexes = ReferenceIndexes \cup DocumentIndexes
<1> DEFINE one == After(ReferenceTables, NoDraft)
           two == After(DocumentTables, one)
           three == After(WorkflowTables, two)
<1>1. /\ one.tables = Extensions \cup ReferenceModels \cup ReferredModels
      /\ one.indexes = ReferenceIndexes
  BY AfterReference
<1>2. /\ two.tables = one.tables \cup ReportModels \cup {Model("documents", {"users"})}
      /\ two.indexes = one.indexes \cup DocumentIndexes
  BY DocumentsAdd, AfterAdds
<1> HIDE DEF one, two
<1>3. /\ Names(two.tables) =
           {"citext", "pg_trgm", "carriers", "airports", "aircraft", "flights", "users",
            "hazard_categories", "documents", "reports", "report_fields", "report_hazards",
            "report_flight_links"}
      /\ Names(two.indexes) =
           {"ix_airports_iata_code", "ix_flights_date_origin", "ix_documents_status_active",
            "ix_reports_priority_keyset", "ix_reports_narrative_tsv", "ix_reports_coded",
            "ix_report_hazards_category"}
  BY <1>1, <1>2, NameOf DEF Names, Extensions, ReferenceModels, ReferredModels, ReportModels, ReferenceIndexes,
                             DocumentIndexes
<1>4. /\ WorkflowTables \in Seq(StatementType) /\ Adds(WorkflowTables, two)
      /\ Made(WorkflowTables, "create") = Workflow0001
      /\ Made(WorkflowTables, "index") = {}
  BY <1>3, WorkflowAdds
<1>5. /\ three.tables = two.tables \cup Workflow0001
      /\ three.indexes = two.indexes
  <2>1. /\ three.tables = two.tables \cup Made(WorkflowTables, "create")
        /\ three.indexes = two.indexes \cup Made(WorkflowTables, "index")
    BY <1>4, AfterAdds
  <2> HIDE DEF three
  <2> QED
    BY <1>4, <2>1
<1>6. three.tables = Models \ {WeightTable}
  <2>1. \A t \in three.tables : t.name # "linkage_weights"
    BY <1>1, <1>2, <1>5, NameOf DEF Extensions, ReferenceModels, ReferredModels, ReportModels, Workflow0001
  <2>2. Models = three.tables \cup {WeightTable}
    BY <1>1, <1>2, <1>5 DEF Models, ReferredModels, DocumentModels, WorkflowModels, Workflow0001,
                                WeightTable
  <2> HIDE DEF three
  <2> QED
    BY <2>1, <2>2, NameOf DEF WeightTable
<1>7. three.indexes = ReferenceIndexes \cup DocumentIndexes
  BY <1>1, <1>2, <1>5
<1>8. /\ ReferenceTables \o DocumentTables \in Seq(StatementType)
      /\ Adds(ReferenceTables \o DocumentTables, NoDraft)
      /\ After(ReferenceTables \o DocumentTables, NoDraft) = two
  BY ReferenceAdds, DocumentsAdd, JoinedAdds DEF one, two
<1>9. /\ Head0001 \in Seq(StatementType) /\ Adds(Head0001, NoDraft)
      /\ After(Head0001, NoDraft) = three
  <2> DEFINE s == ReferenceTables \o DocumentTables
  <2>1. Head0001 = s \o WorkflowTables
    BY DEF Head0001
  <2> HIDE DEF s
  <2>2. s \in Seq(StatementType) /\ Adds(s, NoDraft) /\ After(s, NoDraft) = two
    BY <1>8 DEF s
  <2>3. WorkflowTables \in Seq(StatementType) /\ Adds(WorkflowTables, After(s, NoDraft))
    BY <1>4, <2>2
  <2>4. /\ s \o WorkflowTables \in Seq(StatementType) /\ Adds(s \o WorkflowTables, NoDraft)
        /\ After(s \o WorkflowTables, NoDraft) = After(WorkflowTables, After(s, NoDraft))
    BY <2>2, <2>3, JoinedAdds
  <2> QED
    BY <2>1, <2>2, <2>4
<1> QED
  BY <1>6, <1>7, <1>9

LEMMA Names0001 ==
  /\ Names(After(Head0001, NoDraft).tables) =
       {"citext", "pg_trgm", "carriers", "airports", "aircraft", "flights", "users",
        "hazard_categories", "documents", "reports", "report_fields", "report_hazards",
        "report_flight_links", "dispositions", "ingest_events"}
  /\ Names(After(Head0001, NoDraft).indexes) =
       {"ix_airports_iata_code", "ix_flights_date_origin", "ix_documents_status_active",
        "ix_reports_priority_keyset", "ix_reports_narrative_tsv", "ix_reports_coded",
        "ix_report_hazards_category"}
<1>1. Models \ {WeightTable} =
        Extensions \cup ReferenceModels \cup DocumentModels \cup ReportModels \cup Workflow0001
  <2>1. Models = Extensions \cup ReferenceModels \cup DocumentModels \cup ReportModels
                   \cup Workflow0001 \cup {WeightTable}
    BY DEF Models, WorkflowModels, Workflow0001, WeightTable
  <2>2. WeightTable \notin Extensions \cup ReferenceModels \cup DocumentModels \cup ReportModels
                             \cup Workflow0001
    BY NameOf DEF Extensions, ReferenceModels, DocumentModels, ReportModels, Workflow0001, WeightTable
  <2> QED
    BY <2>1, <2>2
<1>2. /\ Names(Extensions) = {"citext", "pg_trgm"}
      /\ Names(ReferenceModels) = {"carriers", "airports", "aircraft", "flights"}
      /\ Names(DocumentModels) = {"users", "documents", "hazard_categories"}
      /\ Names(ReportModels) = {"reports", "report_fields", "report_hazards", "report_flight_links"}
      /\ Names(Workflow0001) = {"dispositions", "ingest_events"}
  BY NameOf DEF Names, Extensions, ReferenceModels, DocumentModels, ReportModels, Workflow0001
<1>3. Names(Models \ {WeightTable}) =
        Names(Extensions) \cup Names(ReferenceModels) \cup Names(DocumentModels)
          \cup Names(ReportModels) \cup Names(Workflow0001)
  <2> DEFINE some == Extensions \cup ReferenceModels \cup DocumentModels
             most == some \cup ReportModels
  <2>1. Names(most \cup Workflow0001) = Names(most) \cup Names(Workflow0001)
    BY NamesOf
  <2>2. Names(most) = Names(some) \cup Names(ReportModels)
    BY NamesOf
  <2>3. Names(some) = Names(Extensions \cup ReferenceModels) \cup Names(DocumentModels)
    BY NamesOf
  <2>4. Names(Extensions \cup ReferenceModels) = Names(Extensions) \cup Names(ReferenceModels)
    BY NamesOf
  <2> QED
    BY <1>1, <2>1, <2>2, <2>3, <2>4
<1>4. Names(ReferenceIndexes \cup DocumentIndexes) =
       {"ix_airports_iata_code", "ix_flights_date_origin", "ix_documents_status_active",
        "ix_reports_priority_keyset", "ix_reports_narrative_tsv", "ix_reports_coded",
        "ix_report_hazards_category"}
  BY NameOf DEF Names, ReferenceIndexes, DocumentIndexes
<1> QED
  BY <1>2, <1>3, <1>4, Head0001Adds

(* 0002 completes them.                                                    *)
LEMMA WeightsUp ==
  LET db == After(Head0001, NoDraft) IN
    /\ AddWeights \in Seq(StatementType) /\ Adds(AddWeights, db)
    /\ After(AddWeights, db).tables = Models
    /\ After(AddWeights, db).indexes = ReferenceIndexes \cup DocumentIndexes \cup {DefaultWeights}
<1> DEFINE s == AddWeights
           db == After(Head0001, NoDraft)
<1>1. /\ s[1] = Table("linkage_weights", {}) /\ s[2] = Index("default_weights", "linkage_weights")
      /\ DOMAIN s = {1, 2}
  BY DEF AddWeights, InsertRows
<1>2. s \in Seq(StatementType)
  BY StatementTypes DEF AddWeights, InsertRows, Name
<1> HIDE DEF s, db
<1>3. {"linkage_weights", "default_weights"} \cap (Names(db.tables) \cup Names(db.indexes)) = {}
  BY Names0001 DEF db
<1>a. NamedOnce(s)
  BY <1>1, Fields DEF NamedOnce
<1>d. \A i \in DOMAIN s : s[i].op \in {"create", "index"}
  BY <1>1, Fields
<1>e. \A i \in DOMAIN s : s[i].name \notin Names(db.tables) \cup Names(db.indexes)
  BY <1>1, <1>3, Fields
<1>b. \A i \in DOMAIN s : \A x \in s[i].on : Earlier(s, i, "create", x)
  BY <1>1, Fields DEF Earlier
<1>c. \A i \in DOMAIN s : \A x \in s[i].on : x \in Names(db.tables) \/ Earlier(s, i, "create", x)
  BY <1>b
<1>4. Adds(s, db)
  BY <1>2, <1>a, <1>c, <1>d, <1>e, AddsInOrder
<1>5. Made(s, "create") = {WeightTable} /\ Made(s, "index") = {DefaultWeights}
  <2>1. /\ s[1].op = "create" /\ s[1].name = "linkage_weights" /\ s[1].on = {}
        /\ s[2].op = "index" /\ s[2].name = "default_weights" /\ s[2].on = {"linkage_weights"}
    BY <1>1, Fields
  <2>2. \A j \in DOMAIN s : (s[j].op = "create" <=> j = 1) /\ (s[j].op = "index" <=> j = 2)
    BY <1>1, <2>1
  <2>3. {j \in DOMAIN s : s[j].op = "create"} = {1} /\ {j \in DOMAIN s : s[j].op = "index"} = {2}
    BY <1>1, <2>2
  <2>4. /\ Made(s, "create") = {Model(s[i].name, s[i].on) : i \in {1}}
        /\ Made(s, "index") = {Model(s[i].name, s[i].on) : i \in {2}}
    BY <2>3, Zenon DEF Made
  <2>5. /\ Made(s, "create") = {Model(s[1].name, s[1].on)}
        /\ Made(s, "index") = {Model(s[2].name, s[2].on)}
    BY <2>4
  <2> QED
    BY <2>1, <2>5, Zenon DEF WeightTable, DefaultWeights
<1>6. WeightTable \in Models
  BY DEF Models, WorkflowModels, WeightTable
<1>7. /\ After(s, db).tables = db.tables \cup Made(s, "create")
      /\ After(s, db).indexes = db.indexes \cup Made(s, "index")
  BY <1>4, AfterAdds
<1>8. /\ db.tables = Models \ {WeightTable}
      /\ db.indexes = ReferenceIndexes \cup DocumentIndexes
  BY Head0001Adds DEF db
<1> QED
  BY <1>2, <1>4, <1>5, <1>6, <1>7, <1>8 DEF s, db

(* Nothing of 0001 needs the weights: 0002 comes off as it went on.        *)
LEMMA ReferredTo ==
  /\ \A t \in Models : "linkage_weights" \notin t.on
  /\ \A x \in ReferenceIndexes \cup DocumentIndexes : "linkage_weights" \notin x.on
BY NameOf DEF Models, Extensions, ReferenceModels, DocumentModels, ReportModels, WorkflowModels,
              ReferenceIndexes, DocumentIndexes

LEMMA WeightsDown ==
  LET db == After(AddWeights, After(Head0001, NoDraft)) IN
    /\ DropWeights \in Seq(StatementType) /\ Removes(DropWeights, db)
    /\ After(DropWeights, db) = After(Head0001, NoDraft)
<1> DEFINE s == DropWeights
           below == After(Head0001, NoDraft)
           db == After(AddWeights, below)
<1>1. s[1] = DropTable("linkage_weights") /\ DOMAIN s = {1}
  BY DEF DropWeights
<1>2. s \in Seq(StatementType)
  BY StatementTypes DEF DropWeights, Name
<1>3. /\ db.tables = Models
      /\ db.indexes = ReferenceIndexes \cup DocumentIndexes \cup {DefaultWeights}
      /\ below.tables = Models \ {WeightTable}
      /\ below.indexes = ReferenceIndexes \cup DocumentIndexes
  BY WeightsUp, Head0001Adds
<1> HIDE DEF s, db, below
<1>4. "linkage_weights" \in Names(db.tables)
  <2>1. WeightTable \in db.tables
    BY <1>3 DEF Models, WorkflowModels, WeightTable
  <2> QED
    BY <2>1, NameOf DEF Names, WeightTable
<1>5. Removes(s, db)
  BY <1>1, <1>2, <1>3, <1>4, ReferredTo, Fields, RemovesInOrder DEF NamedOnce
<1>6. Named(s, "drop") = {"linkage_weights"} /\ Named(s, "unindex") = {}
  BY <1>1, Fields DEF Named
<1>7. /\ After(s, db).tables = {t \in db.tables : t.name \notin Named(s, "drop")}
      /\ After(s, db).indexes =
           {x \in db.indexes : x.name \notin Named(s, "unindex") /\ x.on \cap Named(s, "drop") = {}}
  BY <1>5, AfterRemoves
<1>8. After(s, db).indexes = below.indexes
  <2>1. \A x \in below.indexes : x.on \cap {"linkage_weights"} = {}
    BY <1>3, ReferredTo
  <2>2. DefaultWeights.on \cap {"linkage_weights"} # {}
    BY NameOf DEF DefaultWeights
  <2> QED
    BY <1>3, <1>6, <1>7, <2>1, <2>2
<1>9. \A t \in Models : t.name = "linkage_weights" <=> t = WeightTable
  BY NameOf DEF Models, Extensions, ReferenceModels, DocumentModels, ReportModels, WorkflowModels,
                WeightTable
<1>10. After(s, db).tables = below.tables
  BY <1>3, <1>6, <1>7, <1>9
<1> QED
  BY <1>2, <1>5, <1>8, <1>10, SameAfter DEF s, db, below

(* The downgrade of 0001 takes each table when nothing refers to it any    *)
(* more, and each index before its table takes it along; nothing is left.  *)
LEMMA HeadDown ==
  LET db == After(Head0001, NoDraft) IN
    /\ DropAll \in Seq(StatementType) /\ Removes(DropAll, db)
    /\ After(DropAll, db) = NoDraft
<1> DEFINE s == DropAll
           db == After(Head0001, NoDraft)
<1>1. /\ s[1] = DropTable("ingest_events") /\ s[2] = DropTable("dispositions")
      /\ s[3] = DropTable("report_flight_links") /\ s[4] = DropIndex("ix_report_hazards_category")
      /\ s[5] = DropTable("report_hazards") /\ s[6] = DropTable("report_fields")
      /\ s[7] = DropIndex("ix_reports_coded") /\ s[8] = DropIndex("ix_reports_narrative_tsv")
      /\ s[9] = DropIndex("ix_reports_priority_keyset") /\ s[10] = DropTable("reports")
      /\ s[11] = DropIndex("ix_documents_status_active") /\ s[12] = DropTable("documents")
      /\ s[13] = DropIndex("ix_flights_date_origin") /\ s[14] = DropTable("flights")
      /\ s[15] = DropTable("hazard_categories") /\ s[16] = DropTable("users")
      /\ s[17] = DropTable("aircraft") /\ s[18] = DropIndex("ix_airports_iata_code")
      /\ s[19] = DropTable("airports") /\ s[20] = DropTable("carriers")
      /\ s[21] = DropTable("pg_trgm") /\ s[22] = DropTable("citext")
      /\ DOMAIN s = 1 .. 22
  BY DEF DropAll, DropExtension
<1>a. \A i \in 1 .. 22 : s[i] \in StatementType
  <2> HIDE DEF s
  <2> QED
    BY <1>1, StatementTypes DEF Name
<1>2. s \in Seq(StatementType)
  <2>1. s = [i \in 1 .. 22 |-> s[i]]
    BY DEF DropAll
  <2> HIDE DEF s
  <2> QED
    BY <1>a, <2>1
<1>b. /\ db.tables = Models \ {WeightTable}
      /\ db.indexes = ReferenceIndexes \cup DocumentIndexes
  BY Head0001Adds
<1> HIDE DEF s, db
<1>3. NamedOnce(s)
  BY <1>1, Fields DEF NamedOnce
<1>4. \A i \in DOMAIN s : s[i].op \in {"drop", "unindex"}
  BY <1>1, Fields
<1>5. \A i \in DOMAIN s : s[i].op = "drop" => s[i].name \in Names(db.tables)
  BY <1>1, Fields, Names0001 DEF db
<1>6. ASSUME NEW i \in DOMAIN s, s[i].op = "drop", NEW t \in db.tables, s[i].name \in t.on
      PROVE  Earlier(s, i, "drop", t.name)
  <2>0. t \in Models
    BY <1>b
  <2>x. CASE t \in Extensions
    BY <1>1, <1>6, <2>x, Fields, NameOf DEF Extensions, Earlier
  <2>1. CASE t \in ReferenceModels
    BY <1>1, <1>6, <2>1, Fields, NameOf DEF ReferenceModels, Earlier
  <2>2. CASE t \in DocumentModels
    BY <1>1, <1>6, <2>2, Fields, NameOf DEF DocumentModels, Earlier
  <2>3. CASE t \in ReportModels
    BY <1>1, <1>6, <2>3, Fields, NameOf DEF ReportModels, Earlier
  <2>4. CASE t \in WorkflowModels
    BY <1>1, <1>6, <2>4, Fields, NameOf DEF WorkflowModels, Earlier
  <2> QED
    BY <2>0, <2>x, <2>1, <2>2, <2>3, <2>4 DEF Models
<1>7. ASSUME NEW i \in DOMAIN s, s[i].op = "unindex"
      PROVE  \E x \in db.indexes : x.name = s[i].name /\ \A n \in x.on : ~ Earlier(s, i, "drop", n)
  BY <1>1, <1>7, <1>b, Fields, NameOf DEF ReferenceIndexes, DocumentIndexes, Earlier
<1>8. Removes(s, db)
  BY <1>2, <1>3, <1>4, <1>5, <1>6, <1>7, RemovesInOrder
<1>9. /\ Names(db.tables) \subseteq Named(s, "drop")
      /\ Names(db.indexes) \subseteq Named(s, "unindex")
  <2>1. \A i \in DOMAIN s : /\ s[i].op = "drop" => s[i].name \in Named(s, "drop")
                            /\ s[i].op = "unindex" => s[i].name \in Named(s, "unindex")
    BY DEF Named
  <2> QED
    BY <1>1, <2>1, Fields, Names0001 DEF db
<1>10. /\ After(s, db).tables = {t \in db.tables : t.name \notin Named(s, "drop")}
       /\ After(s, db).indexes =
            {x \in db.indexes : x.name \notin Named(s, "unindex") /\ x.on \cap Named(s, "drop") = {}}
  BY <1>8, AfterRemoves
<1>11. After(s, db).tables = {} /\ After(s, db).indexes = {}
  BY <1>9, <1>10 DEF Names
<1>12. After(s, db) = NoDraft
  BY <1>11 DEF After, NoDraft
<1> QED
  BY <1>2, <1>8, <1>12 DEF s, db

LEMMA Databases == \A r \in 0 .. 2 : Db(r) \in Database
<1>1. /\ \A t \in Models : t \in Object
      /\ \A x \in ReferenceIndexes \cup DocumentIndexes \cup {DefaultWeights} : x \in Object
  BY DEF Models, Extensions, ReferenceModels, DocumentModels, ReportModels, WorkflowModels,
         ReferenceIndexes, DocumentIndexes, DefaultWeights, Model, Object, Name
<1>2. Db(0) \in Database
  BY DEF Db, NoDraft, Database
<1>3. \A s, db : /\ After(s, db).tables \subseteq Object /\ After(s, db).indexes \subseteq Object
                 => After(s, db) \in Database
  BY DEF After, Database
<1>4. Db(1) \in Database
  BY <1>1, <1>3, Head0001Adds DEF Db
<1>5. Db(2) \in Database
  BY <1>1, <1>3, WeightsUp DEF Db
<1> QED
  BY <1>2, <1>4, <1>5

(* From any revision to any other: the statements are accepted, and lead   *)
(* to the database of that revision.                                       *)
LEMMA PathsLead ==
  ASSUME NEW from \in 0 .. 2, NEW to \in 0 .. 2, from # to
  PROVE  /\ Path(from, to) \in Seq(StatementType)
         /\ Adds(Path(from, to), Db(from)) \/ Removes(Path(from, to), Db(from))
         /\ After(Path(from, to), Db(from)) = Db(to)
<1>1. /\ Upgrades[1] = Head0001 /\ Upgrades[2] = AddWeights
      /\ Downgrades[1] = DropAll /\ Downgrades[2] = DropWeights
  BY DEF Upgrades, Downgrades
<1>2. \A s \in Seq(StatementType) : s \o <<>> = s /\ <<>> \o s = s
  OBVIOUS
<1>3. /\ Db(0) = NoDraft /\ Db(1) = After(Head0001, NoDraft) /\ Db(2) = After(AddWeights, Db(1))
  BY DEF Db
<1>4. /\ Head0001 \in Seq(StatementType) /\ Adds(Head0001, Db(0)) /\ After(Head0001, Db(0)) = Db(1)
      /\ AddWeights \in Seq(StatementType) /\ Adds(AddWeights, Db(1))
      /\ After(AddWeights, Db(1)) = Db(2)
      /\ DropAll \in Seq(StatementType) /\ Removes(DropAll, Db(1)) /\ After(DropAll, Db(1)) = Db(0)
      /\ DropWeights \in Seq(StatementType) /\ Removes(DropWeights, Db(2))
      /\ After(DropWeights, Db(2)) = Db(1)
  BY <1>3, Head0001Adds, WeightsUp, HeadDown, WeightsDown
<1>5. CASE from = 0 /\ to = 1
  <2>1. Path(0, 1) = Head0001
    BY <1>1, <1>2, <1>4 DEF Path, Passed
  <2> QED
    BY <1>4, <1>5, <2>1
<1>6. CASE from = 1 /\ to = 2
  <2>1. Path(1, 2) = AddWeights
    BY <1>1, <1>2, <1>4 DEF Path, Passed
  <2> QED
    BY <1>4, <1>6, <2>1
<1>7. CASE from = 0 /\ to = 2
  <2>1. Path(0, 2) = Head0001 \o AddWeights
    BY <1>1 DEF Path, Passed
  <2>2. /\ Adds(Head0001 \o AddWeights, Db(0))
        /\ After(Head0001 \o AddWeights, Db(0)) = After(AddWeights, After(Head0001, Db(0)))
    BY <1>4, JoinedAdds
  <2>3. Head0001 \o AddWeights \in Seq(StatementType)
    BY <1>4
  <2> QED
    BY <1>4, <1>7, <2>1, <2>2, <2>3
<1>8. CASE from = 2 /\ to = 1
  <2>1. Path(2, 1) = DropWeights
    BY <1>1, <1>2, <1>4 DEF Path, Passed
  <2> QED
    BY <1>4, <1>8, <2>1
<1>9. CASE from = 1 /\ to = 0
  <2>1. Path(1, 0) = DropAll
    BY <1>1, <1>2, <1>4 DEF Path, Passed
  <2> QED
    BY <1>4, <1>9, <2>1
<1>10. CASE from = 2 /\ to = 0
  <2>1. Path(2, 0) = DropWeights \o DropAll
    BY <1>1 DEF Path, Passed
  <2>2. /\ Removes(DropWeights \o DropAll, Db(2))
        /\ After(DropWeights \o DropAll, Db(2)) = After(DropAll, After(DropWeights, Db(2)))
    BY <1>4, JoinedRemoves
  <2>3. DropWeights \o DropAll \in Seq(StatementType)
    BY <1>4
  <2> QED
    BY <1>4, <1>10, <2>1, <2>2, <2>3
<1> QED
  BY <1>5, <1>6, <1>7, <1>8, <1>9, <1>10

LEMMA Heads == HeadRevision = 2
BY DEF HeadRevision, Upgrades

LEMMA InitSchema == SchemaInit => SchemaInv
BY DEF SchemaInit, SchemaInv, Db, NoDraft, Migrating

(* What a step of the stack does to the schema.                            *)
SchemaStep ==
  \/ \E to \in 0 .. 2 : Migrate(to)
  \/ Execute \/ Commit \/ Rollback \/ DropSchema
  \/ UNCHANGED schemaVars

(* A migration that is under way keeps what is left of it acceptable.      *)
LEMMA NextSchema == SchemaInv /\ SchemaStep => SchemaInv'
<1> SUFFICES ASSUME SchemaInv, SchemaStep
             PROVE  SchemaInv'
  OBVIOUS
<1>0. /\ revision \in 0 .. 2 /\ aim \in 0 .. 2
      /\ tables = Db(revision).tables /\ indexes = Db(revision).indexes
      /\ Migrating => /\ todo \in Seq(StatementType) /\ draft \in Database
                      /\ Adds(todo, draft) \/ Removes(todo, draft)
                      /\ After(todo, draft) = Db(aim)
  BY DEF SchemaInv
<1>d. \A db \in Database : db = [tables |-> db.tables, indexes |-> db.indexes]
  BY DEF Database
<1>1. ASSUME NEW to \in 0 .. 2, Migrate(to)
      PROVE  SchemaInv'
  <2>1. /\ aim' = to /\ to # revision /\ todo' = Path(revision, to)
        /\ draft' = [tables |-> tables, indexes |-> indexes]
        /\ revision' = revision /\ tables' = tables /\ indexes' = indexes
    BY <1>1 DEF Migrate
  <2>2. draft' = Db(revision) /\ Db(revision) \in Database
    BY <1>0, <1>d, <2>1, Databases
  <2>3. /\ Path(revision, to) \in Seq(StatementType)
        /\ Adds(Path(revision, to), Db(revision)) \/ Removes(Path(revision, to), Db(revision))
        /\ After(Path(revision, to), Db(revision)) = Db(to)
    BY <1>0, <2>1, PathsLead
  <2> QED
    BY <1>0, <2>1, <2>2, <2>3 DEF SchemaInv
<1>2. CASE Execute
  <2>1. /\ Migrating /\ todo # <<>>
        /\ draft' = Applied(Head(todo), draft) /\ todo' = Tail(todo)
        /\ revision' = revision /\ tables' = tables /\ indexes' = indexes /\ aim' = aim
    BY <1>2 DEF Execute
  <2>2. /\ todo' \in Seq(StatementType) /\ draft' \in Database
        /\ Adds(todo', draft') \/ Removes(todo', draft')
        /\ After(todo', draft') = Db(aim)
    BY <1>0, <2>1, OneStatement
  <2> QED
    BY <1>0, <2>1, <2>2 DEF SchemaInv
<1>3. CASE Commit
  <2>1. /\ Migrating /\ todo = <<>> /\ revision' = aim /\ aim' = aim
        /\ tables' = draft.tables /\ indexes' = draft.indexes
    BY <1>3 DEF Commit
  <2>2. After(<<>>, draft) = draft
    <3>1. /\ Named(<<>>, "drop") = {} /\ Named(<<>>, "unindex") = {}
          /\ Made(<<>>, "create") = {} /\ Made(<<>>, "index") = {}
      BY DEF Named, Made
    <3>2. draft = [tables |-> draft.tables, indexes |-> draft.indexes]
      BY <1>0, <1>d, <2>1
    <3> QED
      BY <3>1, <3>2 DEF After
  <2>3. ~ Migrating'
    BY <2>1 DEF Migrating
  <2> QED
    BY <1>0, <2>1, <2>2, <2>3 DEF SchemaInv
<1>4. CASE Rollback
  <2>1. ~ Migrating' /\ aim' = revision /\ revision' = revision /\ tables' = tables /\ indexes' = indexes
    BY <1>4 DEF Rollback, Migrating
  <2> QED
    BY <1>0, <2>1 DEF SchemaInv
<1>5. CASE DropSchema
  <2>1. ~ Migrating' /\ aim' = 0 /\ revision' = 0 /\ tables' = {} /\ indexes' = {}
    BY <1>5 DEF DropSchema, Migrating
  <2> QED
    BY <2>1 DEF SchemaInv, Db, NoDraft
<1>6. CASE UNCHANGED schemaVars
  BY <1>0, <1>6 DEF SchemaInv, schemaVars, Migrating
<1> QED
  BY <1>1, <1>2, <1>3, <1>4, <1>5, <1>6 DEF SchemaStep

LEMMA SchemaFits == SchemaInv => MigrationsFit
<1> SUFFICES ASSUME SchemaInv
             PROVE  MigrationsFit
  OBVIOUS
<1>1. Migrating /\ todo # <<>> => Fits(Head(todo), draft)
  BY OneStatement DEF SchemaInv
<1>2. revision = HeadRevision => tables = Models /\ DefaultWeights \in indexes
  BY Heads, WeightsUp DEF SchemaInv, Db
<1>3. revision = 0 => tables = {} /\ indexes = {}
  BY DEF SchemaInv, Db, NoDraft
<1> QED
  BY <1>1, <1>2, <1>3 DEF MigrationsFit

LEMMA StackMigrates == [StackNext]_stackVars => SchemaStep
<1> SUFFICES ASSUME [StackNext]_stackVars
             PROVE  SchemaStep
  OBVIOUS
<1>1. CASE UNCHANGED schemaVars
  BY <1>1 DEF SchemaStep
<1>2. CASE InfraUp \/ Up \/ Down \/ Destroy \/ DbReset \/ SeedCategories \/ SeedUsers
           \/ StartServices
  BY <1>1, <1>2 DEF InfraUp, Up, Down, Destroy, DbReset, SeedCategories, SeedUsers, StartServices
<1>3. CASE ResetDrop \/ \E volume \in Volumes : RemoveVolume(volume)
  BY <1>1, <1>3 DEF RemoveVolume, ResetDrop, SchemaStep
<1>4. CASE MigrateHead
  BY <1>1, <1>4, Heads DEF MigrateHead, SchemaStep
<1>5. CASE Statement \/ Committed \/ Interrupt
  BY <1>1, <1>5 DEF Statement, Committed, Interrupt, SchemaStep
<1>6. ASSUME NEW to \in 0 .. HeadRevision, Alembic(to)
      PROVE  SchemaStep
  BY <1>6, Heads DEF Alembic, SchemaStep
<1>7. ASSUME NEW service \in App, Exit(service)
      PROVE  SchemaStep
  BY <1>1, <1>7 DEF Exit
<1>8. CASE \/ \E pdf \in Uploads : Register(pdf)
           \/ \E i \in DOMAIN rows : MarkQueued(i) \/ Send(i)
  BY <1>1, <1>8 DEF Register, MarkQueued, Send
<1>9. CASE \E m \in messages : Claim(m)
  BY <1>1, <1>9 DEF Claim
<1>10. CASE Store \/ MarkParsed \/ ParseFails \/ Delete
  BY <1>1, <1>10 DEF Store, MarkParsed, ParseFails, Delete
<1>11. CASE UNCHANGED stackVars
  BY <1>1, <1>11 DEF stackVars
<1> QED
  BY <1>2, <1>3, <1>4, <1>5, <1>6, <1>7, <1>8, <1>9, <1>10, <1>11 DEF StackNext

(* Whatever is typed and interrupted, and from whatever revision: every    *)
(* statement of every migration finds what it needs, the head is what      *)
(* models.py says, and nothing is left at the base.                        *)
THEOREM MigrationsAlwaysFit == StackSpec => []MigrationsFit
<1>1. StackInit => SchemaInv
  BY InitSchema DEF StackInit
<1> QED
  BY <1>1, NextSchema, StackMigrates, SchemaFits, PTL DEF StackSpec

SeededAll == seeded = {"hazard_categories", "users"}

(* Why the services run on the head: each step of a command waits for the  *)
(* one before, and every command that takes something away has stopped the *)
(* services first.                                                         *)
StackInv ==
  /\ running \subseteq App
  /\ Migrating <=> terminal \in {"wait", "by hand"}
  /\ running # {} => revision = HeadRevision /\ SeededAll /\ ~ Migrating
  /\ terminal \in {"drop", "destroy"} => running = {}
  /\ terminal = "destroy" => doomed \subseteq Volumes
  /\ terminal = "wait" => aim = HeadRevision
  /\ terminal \in {"seed", "seed users", "start"} => revision = HeadRevision
  /\ terminal \in {"seed users", "start"} => "hazard_categories" \in seeded
  /\ terminal = "start" => "users" \in seeded
  /\ seeded \subseteq {"hazard_categories", "users"}

LEMMA InitStack == StackInit => StackInv
BY DEF StackInit, SchemaInit, StackInv, Migrating

LEMMA NextStack == SchemaInv /\ StackInv /\ [StackNext]_stackVars => StackInv'
<1> SUFFICES ASSUME SchemaInv, StackInv, [StackNext]_stackVars
             PROVE  StackInv'
  OBVIOUS
<1>h. HeadRevision = 2 /\ revision \in 0 .. 2 /\ aim \in 0 .. 2
  BY Heads DEF SchemaInv
<1> USE DEF StackInv, SeededAll, Migrating
<1>1. CASE UNCHANGED <<schemaVars, commandVars, running, seeded>>
  BY <1>1 DEF schemaVars, commandVars
<1>2. CASE InfraUp
  BY <1>2 DEF InfraUp, Typed, schemaVars
<1>3. CASE Up
  BY <1>3 DEF Up, Typed, Then, schemaVars
<1>s. ASSUME NEW services, Stop(services)
      PROVE  running' = running \ services
  BY <1>s DEF Stop
<1>4. CASE Down
  <2>1. running' = running \ App
    BY <1>4, <1>s DEF Down
  <2> QED
    BY <1>4, <2>1 DEF Down, Typed, schemaVars
<1>5. CASE Destroy
  <2>1. running' = running \ App
    BY <1>5, <1>s DEF Destroy
  <2> QED
    BY <1>5, <2>1 DEF Destroy, Typed, Then, schemaVars
<1>v. ASSUME NEW volume \in Volumes, RemoveVolume(volume)
      PROVE  StackInv'
  <2>1. /\ terminal = "destroy" /\ running = {} /\ running' = running
        /\ doomed' = doomed \ {volume} /\ terminal' \in {"idle", "destroy"}
    BY <1>v DEF RemoveVolume, Then
  <2>2. CASE volume = "database"
    BY <1>v, <2>1, <2>2 DEF RemoveVolume, DropSchema
  <2>3. CASE volume # "database"
    BY <1>v, <2>1, <2>3 DEF RemoveVolume, schemaVars
  <2> QED
    BY <2>2, <2>3
<1>6. CASE DbReset
  <2>1. /\ running' = running \ App /\ seeded' = seeded /\ UNCHANGED schemaVars
        /\ terminal = "idle" /\ terminal' = "drop"
    BY <1>6, <1>s DEF DbReset, Typed, Then, Stopped
  <2>2. running' = {}
    BY <1>h, <2>1
  <2> QED
    BY <2>1, <2>2 DEF schemaVars
<1>7. CASE ResetDrop
  <2>1. CASE infra
    BY <1>7, <2>1 DEF ResetDrop, EraseRows, DropSchema, Then
  <2>2. CASE ~ infra
    BY <1>7, <2>2 DEF ResetDrop, Then, schemaVars
  <2> QED
    BY <2>1, <2>2
<1>8. CASE MigrateHead
  BY <1>8 DEF MigrateHead, Migrate, Then, schemaVars
<1>9. CASE Statement
  BY <1>9 DEF Statement, Execute, commandVars
<1>10. CASE Committed
  <2>1. CASE aim = 0
    BY <1>10, <1>h, <2>1 DEF Committed, Commit, Then, EraseRows
  <2>2. CASE aim # 0
    BY <1>10, <1>h, <2>2 DEF Committed, Commit, Then
  <2> QED
    BY <2>1, <2>2
<1>11. CASE SeedCategories
  BY <1>11 DEF SeedCategories, Then, schemaVars
<1>12. CASE SeedUsers
  BY <1>12 DEF SeedUsers, Then, schemaVars
<1>13. CASE StartServices
  BY <1>13 DEF StartServices, Then, schemaVars
<1>14. CASE Interrupt
  BY <1>14 DEF Interrupt, Rollback, Then, schemaVars
<1>15. ASSUME NEW to \in 0 .. HeadRevision, Alembic(to)
       PROVE  StackInv'
  BY <1>15 DEF Alembic, Typed, Migrate, Then
<1>16. ASSUME NEW service \in App, Exit(service)
       PROVE  StackInv'
  <2>1. running' = running \ {service}
    BY <1>16, <1>s DEF Exit
  <2> QED
    BY <1>16, <2>1 DEF Exit, schemaVars, commandVars
<1>17. CASE \/ \E pdf \in Uploads : Register(pdf)
            \/ \E i \in DOMAIN rows : MarkQueued(i) \/ Send(i)
  BY <1>1, <1>17 DEF Register, MarkQueued, Send
<1>18. CASE \E m \in messages : Claim(m)
  BY <1>1, <1>18 DEF Claim
<1>19. CASE Store \/ MarkParsed \/ ParseFails \/ Delete
  BY <1>1, <1>19 DEF Store, MarkParsed, ParseFails, Delete
<1>20. CASE UNCHANGED stackVars
  BY <1>1, <1>20 DEF stackVars
<1> QED
  BY <1>2, <1>3, <1>4, <1>5, <1>v, <1>6, <1>7, <1>8, <1>9, <1>10, <1>11, <1>12, <1>13, <1>14, <1>15,
     <1>16, <1>17, <1>18, <1>19, <1>20 DEF StackNext

(* The api and the worker run on the schema of models.py, with its seeds,  *)
(* and never beside a migration, after any number of commands.             *)
THEOREM AppAlwaysRunsOnSchema == StackSpec => []AppRunsOnSchema
<1>1. StackInit => SchemaInv
  BY InitSchema DEF StackInit
<1>2. SchemaInv /\ StackInv => AppRunsOnSchema
  BY SchemaFits DEF StackInv, SeededAll, MigrationsFit, AppRunsOnSchema
<1> QED
  BY <1>1, <1>2, InitStack, NextSchema, NextStack, StackMigrates, PTL DEF StackSpec

-----------------------------------------------------------------------------
Status == {"received", "queued", "parsing", "parsed", "failed"}
Row == [pdf : Uploads, status : Status, stored : SUBSET Uploads]
Message == [id : Nat, pdf : Uploads]

(* What the api sends and the worker does, and that a stopped service does *)
(* nothing: rows are never erased under a job or a send.                   *)
WorkInv ==
  /\ rows \in Seq(Row)
  /\ messages \subseteq Message
  /\ "api" \notin running => sending = {}
  /\ \A i \in sending : i \in DOMAIN rows
  /\ "worker" \notin running => job = Idle
  /\ job = Idle \/ job \in [message : messages, next : {"store", "mark", "delete"}]
  /\ job.next \in {"store", "mark"} =>
       job.message.id \in DOMAIN rows /\ rows[job.message.id].status = "parsing"
  /\ job.next = "mark" => job.message.pdf \in rows[job.message.id].stored

(* While rows and messages belong together, a message is of the row that   *)
(* has its number, and is deleted when that is parsed.                     *)
QueueFits == \A m \in messages : m.id \in DOMAIN rows /\ m.pdf = rows[m.id].pdf
JobDone == job.next = "delete" => rows[job.message.id].status = "parsed"
Together == QueueFits /\ JobDone /\ \A i \in DOMAIN rows : RowServed(i)

OwnInv ==
  /\ leftover \/ (terminal = "destroy" /\ doomed # Volumes) \/ Together
  /\ terminal = "destroy" =>
       /\ "database" \notin doomed => rows = <<>>
       /\ "queue" \notin doomed => messages = {}

LEMMA InitOwn == StackInit => WorkInv /\ OwnInv
<1> SUFFICES ASSUME StackInit
             PROVE  WorkInv /\ OwnInv
  OBVIOUS
<1>1. /\ rows = <<>> /\ messages = {} /\ sending = {} /\ job = Idle /\ terminal = "idle"
  BY DEF StackInit
<1>2. Idle.next = "idle"
  BY DEF Idle
<1>3. WorkInv
  BY <1>1, <1>2 DEF WorkInv
<1> QED
  BY <1>1, <1>2, <1>3 DEF OwnInv, Together, QueueFits, JobDone

(* A stop of services ends what they were doing, and no send is forgotten. *)
LEMMA StopServices ==
  ASSUME WorkInv, NEW services \in SUBSET App, Stop(services), UNCHANGED <<dataVolumes, leftover>>
  PROVE  /\ WorkInv'
         /\ Together => Together'
         /\ running' = running \ services
<1>1. /\ running' = running \ services
      /\ rows' = rows /\ messages' = messages
      /\ job' = IF "worker" \in services THEN Idle ELSE job
  BY DEF Stop, dataVolumes
<1>2. \/ "api" \in services /\ sending' = {} /\ stranded' = stranded \cup sending
      \/ "api" \notin services /\ sending' = sending /\ stranded' = stranded
  BY Zenon DEF Stop
<1>3. Idle.next = "idle"
  BY DEF Idle
<1>4. WorkInv'
  <2>1. CASE "worker" \in services
    BY <1>1, <1>2, <1>3, <2>1 DEF WorkInv
  <2>2. CASE "worker" \notin services
    BY <1>1, <1>2, <1>3, <2>2 DEF WorkInv
  <2> QED
    BY <2>1, <2>2
<1>5. sending' \cup stranded' = sending \cup stranded \/ sending' \cup stranded' = stranded \cup sending
  BY <1>2
<1>6. Together => Together'
  <2>1. JobDone => JobDone'
    BY <1>1, <1>3 DEF JobDone
  <2> QED
    BY <1>1, <1>5, <2>1 DEF Together, QueueFits, RowServed, JobDone
<1> QED
  BY <1>1, <1>4, <1>6

(* Erasing the rows while nothing runs; what is left of the queue decides. *)
LEMMA RowsErased ==
  ASSUME WorkInv, running = {}, rows' = <<>>, messages' \subseteq messages,
         UNCHANGED <<running, sending, job>>
  PROVE  /\ WorkInv'
         /\ messages' = {} => Together'
<1>1. sending = {} /\ job = Idle /\ Idle.next = "idle"
  BY DEF WorkInv, Idle
<1>2. WorkInv'
  BY <1>1 DEF WorkInv
<1> QED
  BY <1>1, <1>2 DEF Together, QueueFits, JobDone

(* The steps of the api and the worker.                                    *)
ServiceStep ==
  \/ \E pdf \in Uploads : Register(pdf)
  \/ \E i \in DOMAIN rows : MarkQueued(i) \/ Send(i)
  \/ \E m \in messages : Claim(m)
  \/ Store \/ MarkParsed \/ ParseFails \/ Delete

LEMMA RowChanged ==
  ASSUME rows \in Seq(Row), NEW i \in DOMAIN rows, NEW new \in Row, rows' = [rows EXCEPT ![i] = new]
  PROVE  /\ rows' \in Seq(Row) /\ DOMAIN rows' = DOMAIN rows
         /\ rows'[i] = new
         /\ \A k \in DOMAIN rows : k # i => rows'[k] = rows[k]
OBVIOUS

(* What is so of a row stays so when another row changes, or when the      *)
(* queue and the sends only gain.                                          *)
LEMMA StillServed ==
  ASSUME NEW i, rows'[i] = rows[i], messages \subseteq messages',
         sending \cup stranded \subseteq sending' \cup stranded', RowServed(i)
  PROVE  RowServed(i)'
BY DEF RowServed

LEMMA DoneOfRow ==
  ASSUME WorkInv, QueueFits, job.next = "delete"
  PROVE  job.message.id \in DOMAIN rows
<1>1. Idle.next = "idle"
  BY DEF Idle
<1> QED
  BY <1>1 DEF WorkInv, QueueFits

LEMMA RegisterStep ==
  ASSUME WorkInv, NEW pdf \in Uploads, Register(pdf)
  PROVE  WorkInv' /\ (Together => Together')
<1> DEFINE row == [pdf |-> pdf, status |-> "received", stored |-> {}]
<1>n. PICK n : n = Len(rows) + 1
  OBVIOUS
<1>1. /\ rows' = Append(rows, row) /\ messages' = messages
      /\ sending' = sending /\ job' = job /\ stranded' = stranded /\ running' = running
  BY DEF Register, workVars
<1>2. rows \in Seq(Row) /\ row \in Row
  BY DEF WorkInv, Row, Status
<1>3. row.status = "received" /\ row.stored = {}
  OBVIOUS
<1> HIDE DEF row
<1>4. /\ rows' \in Seq(Row) /\ DOMAIN rows' = DOMAIN rows \cup {n} /\ n \notin DOMAIN rows
      /\ rows'[n] = row /\ \A i \in DOMAIN rows : rows'[i] = rows[i]
  <2>1. n \in Nat /\ DOMAIN rows = 1 .. Len(rows) /\ Len(rows) \in Nat
    BY <1>2, <1>n
  <2>2. rows' \in Seq(Row)
    BY <1>1, <1>2
  <2>3. DOMAIN rows' = 1 .. n /\ rows'[n] = row /\ \A i \in DOMAIN rows : rows'[i] = rows[i]
    BY <1>1, <1>2, <1>n
  <2>4. 1 .. n = DOMAIN rows \cup {n} /\ n \notin DOMAIN rows
    BY <2>1, <1>n
  <2> QED
    BY <2>2, <2>3, <2>4
<1>5. WorkInv'
  BY <1>1, <1>4 DEF WorkInv
<1>6. ASSUME Together
      PROVE  Together'
  <2>1. QueueFits'
    BY <1>1, <1>4, <1>6 DEF Together, QueueFits
  <2>2. RowServed(n)'
    BY <1>3, <1>4 DEF RowServed
  <2>3. \A i \in DOMAIN rows : RowServed(i)'
    BY <1>1, <1>4, <1>6, StillServed DEF Together
  <2>4. JobDone'
    BY <1>1, <1>4, <1>6, DoneOfRow DEF Together, JobDone
  <2> QED
    BY <1>4, <2>1, <2>2, <2>3, <2>4 DEF Together
<1> QED
  BY <1>5, <1>6

LEMMA MarkQueuedStep ==
  ASSUME WorkInv, NEW i \in DOMAIN rows, MarkQueued(i)
  PROVE  WorkInv' /\ (Together => Together')
<1> DEFINE new == [rows[i] EXCEPT !.status = "queued"]
<1>1. /\ "api" \in running /\ rows[i].status = "received"
      /\ rows' = [rows EXCEPT ![i] = new] /\ sending' = sending \cup {i}
      /\ messages' = messages /\ job' = job /\ stranded' = stranded /\ running' = running
  BY DEF MarkQueued
<1>2. rows \in Seq(Row) /\ rows[i] \in Row
  BY DEF WorkInv
<1>3. /\ new \in Row /\ new.pdf = rows[i].pdf /\ new.stored = rows[i].stored
      /\ new.status = "queued"
  BY <1>2 DEF Row, Status
<1> HIDE DEF new
<1>4. /\ rows' \in Seq(Row) /\ DOMAIN rows' = DOMAIN rows /\ rows'[i] = new
      /\ \A k \in DOMAIN rows : k # i => rows'[k] = rows[k]
  BY <1>1, <1>2, <1>3, RowChanged
<1>5. WorkInv'
  <2>1. job.next \in {"store", "mark"} => job.message.id # i
    BY <1>1 DEF WorkInv
  <2> QED
    BY <1>1, <1>4, <2>1 DEF WorkInv
<1>6. ASSUME Together
      PROVE  Together'
  <2>1. QueueFits'
    BY <1>1, <1>3, <1>4, <1>6 DEF Together, QueueFits
  <2>2. RowServed(i)'
    BY <1>1, <1>3, <1>4, <1>6 DEF Together, RowServed
  <2>3. \A k \in DOMAIN rows : k # i => RowServed(k)'
    BY <1>1, <1>4, <1>6, StillServed DEF Together
  <2>4. JobDone'
    BY <1>1, <1>4, <1>6, DoneOfRow DEF Together, JobDone
  <2> QED
    BY <1>4, <2>1, <2>2, <2>3, <2>4 DEF Together
<1> QED
  BY <1>5, <1>6

LEMMA SendStep ==
  ASSUME WorkInv, NEW i \in DOMAIN rows, Send(i)
  PROVE  WorkInv' /\ (Together => Together')
<1> DEFINE message == [id |-> i, pdf |-> rows[i].pdf]
<1>1. /\ messages' = messages \cup {message} /\ sending' = sending \ {i}
      /\ rows' = rows /\ job' = job /\ stranded' = stranded /\ running' = running
  BY DEF Send
<1>2. message \in Message /\ message.id = i /\ message.pdf = rows[i].pdf
  <2>1. rows \in Seq(Row) /\ rows[i] \in Row /\ i \in Nat
    BY DEF WorkInv
  <2> QED
    BY <2>1 DEF Message, Row
<1>3. WorkInv'
  <2> HIDE DEF message
  <2> QED
    BY <1>1, <1>2 DEF WorkInv
<1>4. ASSUME Together
      PROVE  Together'
  <2>1. QueueFits'
    <3> HIDE DEF message
    <3> QED
      BY <1>1, <1>2, <1>4 DEF Together, QueueFits
  <2>2. RowServed(i)'
    BY <1>1, <1>4 DEF Together, RowServed
  <2>3. ASSUME NEW k \in DOMAIN rows, k # i
        PROVE  RowServed(k)'
    <3>1. RowServed(k)
      BY <1>4 DEF Together
    <3> HIDE DEF message
    <3> QED
      BY <1>1, <2>3, <3>1 DEF RowServed
  <2>4. JobDone'
    BY <1>1, <1>4 DEF Together, JobDone
  <2> QED
    BY <1>1, <2>1, <2>2, <2>3, <2>4 DEF Together
<1> QED
  BY <1>3, <1>4

LEMMA ClaimStep ==
  ASSUME WorkInv, NEW m \in messages, Claim(m)
  PROVE  WorkInv' /\ (Together => Together')
<1>1. /\ "worker" \in running /\ job = Idle
      /\ job' = [message |-> m, next |-> IF Claimable(m) THEN "store" ELSE "delete"]
      /\ rows' = IF Claimable(m) THEN [rows EXCEPT ![m.id].status = "parsing"] ELSE rows
      /\ messages' = messages /\ sending' = sending /\ stranded' = stranded /\ running' = running
  BY DEF Claim
<1>2. job'.message = m /\ job'.next = IF Claimable(m) THEN "store" ELSE "delete"
  BY <1>1
<1>3. CASE Claimable(m)
  <2> DEFINE new == [rows[m.id] EXCEPT !.status = "parsing"]
  <2>1. m.id \in DOMAIN rows /\ rows[m.id].status # "parsed"
    BY <1>3 DEF Claimable
  <2>2. rows \in Seq(Row) /\ rows[m.id] \in Row
    BY <2>1 DEF WorkInv
  <2>3. new \in Row /\ new.pdf = rows[m.id].pdf /\ new.stored = rows[m.id].stored /\ new.status = "parsing"
    BY <2>2 DEF Row, Status
  <2>4. rows' = [rows EXCEPT ![m.id] = new]
    BY <1>1, <1>3
  <2> HIDE DEF new
  <2>5. /\ rows' \in Seq(Row) /\ DOMAIN rows' = DOMAIN rows /\ rows'[m.id] = new
        /\ \A k \in DOMAIN rows : k # m.id => rows'[k] = rows[k]
    BY <2>1, <2>2, <2>3, <2>4, RowChanged
  <2>6. WorkInv'
    <3>1. job'.next = "store" /\ job'.message = m
      BY <1>2, <1>3
    <3> QED
      BY <1>1, <2>1, <2>3, <2>5, <3>1 DEF WorkInv
  <2>7. ASSUME Together
        PROVE  Together'
    <3>1. QueueFits'
      BY <1>1, <2>3, <2>5, <2>7 DEF Together, QueueFits
    <3>2. [id |-> m.id, pdf |-> rows[m.id].pdf] = m
      BY <2>7 DEF Together, QueueFits, WorkInv, Message
    <3>3. RowServed(m.id)'
      <4>1. RowServed(m.id)
        BY <2>1, <2>7 DEF Together
      <4> QED
        BY <1>1, <2>3, <2>5, <3>2, <4>1 DEF RowServed
    <3>4. \A k \in DOMAIN rows : k # m.id => RowServed(k)'
      BY <1>1, <2>5, <2>7, StillServed DEF Together
    <3>5. JobDone'
      BY <1>2, <1>3 DEF JobDone
    <3> QED
      BY <2>5, <3>1, <3>3, <3>4, <3>5 DEF Together
  <2> QED
    BY <2>6, <2>7
<1>4. CASE ~ Claimable(m)
  <2>1. rows' = rows /\ job'.next = "delete" /\ job'.message = m
    BY <1>1, <1>2, <1>4
  <2>2. m.id \in DOMAIN rows => rows[m.id].status = "parsed"
    BY <1>4 DEF Claimable
  <2>3. WorkInv'
    BY <1>1, <2>1, <2>2 DEF WorkInv
  <2>4. Together => Together'
    BY <1>1, <2>1, <2>2 DEF Together, QueueFits, RowServed, JobDone
  <2> QED
    BY <2>3, <2>4
<1> QED
  BY <1>3, <1>4

(* The steps of a job: Store, MarkParsed and ParseFails write the row of   *)
(* its message, which says parsing.                                        *)
LEMMA JobRow ==
  ASSUME WorkInv, job.next \in {"store", "mark"}
  PROVE  LET i == job.message.id IN
           /\ "worker" \in running
           /\ i \in DOMAIN rows /\ rows[i] \in Row /\ rows[i].status = "parsing"
           /\ job.message \in messages /\ job.message \in Message
           /\ Together => job.message = [id |-> i, pdf |-> rows[i].pdf] /\ RowServed(i)
<1>1. Idle.next = "idle"
  BY DEF Idle
<1>2. job # Idle
  BY <1>1
<1>3. "worker" \in running /\ job.message \in messages /\ job.message \in Message
  BY <1>1, <1>2 DEF WorkInv
<1>4. job.message.id \in DOMAIN rows /\ rows[job.message.id].status = "parsing"
  BY DEF WorkInv
<1>5. rows[job.message.id] \in Row
  BY <1>4 DEF WorkInv
<1>6. Together => job.message = [id |-> job.message.id, pdf |-> rows[job.message.id].pdf]
  BY <1>3 DEF Together, QueueFits, Message
<1>7. Together => RowServed(job.message.id)
  BY <1>4 DEF Together
<1> QED
  BY <1>3, <1>4, <1>5, <1>6, <1>7

LEMMA JobWrites ==
  ASSUME WorkInv, job.next \in {"store", "mark"}, NEW i, i = job.message.id, NEW new \in Row,
         rows' = [rows EXCEPT ![i] = new], new.pdf = rows[i].pdf,
         UNCHANGED <<messages, sending, stranded, running>>,
         Together /\ RowServed(i) => RowServed(i)', JobDone'
  PROVE  /\ rows' \in Seq(Row) /\ DOMAIN rows' = DOMAIN rows /\ rows'[i] = new
         /\ Together => Together'
<1>1. i \in DOMAIN rows /\ rows \in Seq(Row)
  BY JobRow DEF WorkInv
<1>2. /\ rows' \in Seq(Row) /\ DOMAIN rows' = DOMAIN rows /\ rows'[i] = new
      /\ \A k \in DOMAIN rows : k # i => rows'[k] = rows[k]
  BY <1>1, RowChanged
<1>3. ASSUME Together
      PROVE  Together'
  <2>1. QueueFits'
    BY <1>2, <1>3 DEF Together, QueueFits
  <2>2. RowServed(i)'
    BY <1>3, JobRow
  <2>3. \A k \in DOMAIN rows : k # i => RowServed(k)'
    BY <1>2, <1>3, StillServed DEF Together
  <2> QED
    BY <1>2, <2>1, <2>2, <2>3 DEF Together
<1> QED
  BY <1>2, <1>3

LEMMA StoreStep ==
  ASSUME WorkInv, Store
  PROVE  WorkInv' /\ (Together => Together')
<1>i. PICK i : i = job.message.id
  OBVIOUS
<1> DEFINE new == [rows[i] EXCEPT !.stored = @ \cup {job.message.pdf}]
<1>1. /\ job.next = "store" /\ rows' = [rows EXCEPT ![i] = new]
      /\ job' = [job EXCEPT !.next = "mark"]
      /\ UNCHANGED <<messages, sending, stranded, running>>
  BY <1>i DEF Store, At, Proceed
<1>2. /\ "worker" \in running /\ i \in DOMAIN rows /\ rows[i] \in Row /\ rows[i].status = "parsing"
      /\ job.message \in messages /\ job.message \in Message
      /\ Together => job.message = [id |-> i, pdf |-> rows[i].pdf] /\ RowServed(i)
  BY <1>1, <1>i, JobRow
<1>3. /\ new \in Row /\ new.pdf = rows[i].pdf /\ new.status = "parsing"
      /\ new.stored = rows[i].stored \cup {job.message.pdf}
  BY <1>2 DEF Row, Message
<1>4. job'.next = "mark" /\ job'.message = job.message
  <2>1. job \in [message : messages, next : {"store", "mark", "delete"}]
    <3>1. Idle.next = "idle"
      BY DEF Idle
    <3> QED
      BY <1>1, <3>1 DEF WorkInv
  <2> QED
    BY <1>1, <2>1
<1> HIDE DEF new
<1>5. rows \in Seq(Row)
  BY DEF WorkInv
<1>6. rows'[i] = new
  BY <1>1, <1>2, <1>3, <1>5, RowChanged
<1>7. ASSUME Together, RowServed(i)
      PROVE  RowServed(i)'
  <2>1. new.stored \subseteq {new.pdf}
    BY <1>2, <1>3, <1>7 DEF RowServed
  <2> QED
    BY <1>1, <1>2, <1>3, <1>6, <1>7, <2>1 DEF RowServed
<1>8. /\ rows' \in Seq(Row) /\ DOMAIN rows' = DOMAIN rows /\ rows'[i] = new
      /\ Together => Together'
  <2>1. job.next \in {"store", "mark"} /\ (Together /\ RowServed(i) => RowServed(i)')
    BY <1>1, <1>7
  <2>2. new \in Row /\ new.pdf = rows[i].pdf /\ UNCHANGED <<messages, sending, stranded, running>>
    BY <1>1, <1>3
  <2>3. rows' = [rows EXCEPT ![i] = new]
    BY <1>1
  <2>4. JobDone'
    BY <1>1, <1>3, <1>4, <1>6, <1>i DEF JobDone
  <2> QED
    BY <1>i, <2>1, <2>2, <2>3, <2>4, JobWrites
<1>a. job' \in [message : messages', next : {"store", "mark", "delete"}]
  <2>1. job \in [message : messages, next : {"store", "mark", "delete"}]
    <3>1. Idle.next = "idle"
      BY DEF Idle
    <3> QED
      BY <1>1, <3>1 DEF WorkInv
  <2> QED
    BY <1>1, <2>1
<1>9. WorkInv'
  BY <1>1, <1>2, <1>3, <1>4, <1>8, <1>a, <1>i DEF WorkInv
<1> QED
  BY <1>8, <1>9

LEMMA MarkParsedStep ==
  ASSUME WorkInv, MarkParsed
  PROVE  WorkInv' /\ (Together => Together')
<1>i. PICK i : i = job.message.id
  OBVIOUS
<1> DEFINE new == [rows[i] EXCEPT !.status = "parsed"]
<1>1. /\ job.next = "mark" /\ rows' = [rows EXCEPT ![i] = new]
      /\ job' = [job EXCEPT !.next = "delete"]
      /\ UNCHANGED <<messages, sending, stranded, running>>
  BY <1>i DEF MarkParsed, At, Proceed
<1>2. /\ "worker" \in running /\ i \in DOMAIN rows /\ rows[i] \in Row /\ rows[i].status = "parsing"
      /\ job.message \in messages /\ job.message \in Message
      /\ Together => job.message = [id |-> i, pdf |-> rows[i].pdf] /\ RowServed(i)
  BY <1>1, <1>i, JobRow
<1>3. /\ new \in Row /\ new.pdf = rows[i].pdf /\ new.status = "parsed"
      /\ new.stored = rows[i].stored
  BY <1>2 DEF Row, Status
<1>4. job'.next = "delete" /\ job'.message = job.message
  <2>1. job \in [message : messages, next : {"store", "mark", "delete"}]
    <3>1. Idle.next = "idle"
      BY DEF Idle
    <3> QED
      BY <1>1, <3>1 DEF WorkInv
  <2> QED
    BY <1>1, <2>1
<1> HIDE DEF new
<1>5. rows \in Seq(Row)
  BY DEF WorkInv
<1>6. rows'[i] = new
  BY <1>1, <1>2, <1>3, <1>5, RowChanged
<1>7. ASSUME Together, RowServed(i)
      PROVE  RowServed(i)'
  <2>1. job.message.pdf \in rows[i].stored
    BY <1>1, <1>i DEF WorkInv
  <2>2. job.message.pdf = rows[i].pdf
    BY <1>2, <1>7
  <2>3. new.stored = {new.pdf}
    BY <1>3, <1>7, <2>1, <2>2 DEF RowServed
  <2> QED
    BY <1>1, <1>3, <1>6, <2>3 DEF RowServed
<1>8. /\ rows' \in Seq(Row) /\ DOMAIN rows' = DOMAIN rows /\ rows'[i] = new
      /\ Together => Together'
  <2>1. job.next \in {"store", "mark"} /\ (Together /\ RowServed(i) => RowServed(i)')
    BY <1>1, <1>7
  <2>2. new \in Row /\ new.pdf = rows[i].pdf /\ UNCHANGED <<messages, sending, stranded, running>>
    BY <1>1, <1>3
  <2>3. rows' = [rows EXCEPT ![i] = new]
    BY <1>1
  <2>4. JobDone'
    BY <1>1, <1>3, <1>4, <1>6, <1>i DEF JobDone
  <2> QED
    BY <1>i, <2>1, <2>2, <2>3, <2>4, JobWrites
<1>a. job' \in [message : messages', next : {"store", "mark", "delete"}]
  <2>1. job \in [message : messages, next : {"store", "mark", "delete"}]
    <3>1. Idle.next = "idle"
      BY DEF Idle
    <3> QED
      BY <1>1, <3>1 DEF WorkInv
  <2> QED
    BY <1>1, <2>1
<1>9. WorkInv'
  BY <1>1, <1>2, <1>3, <1>4, <1>8, <1>a, <1>i DEF WorkInv
<1> QED
  BY <1>8, <1>9

LEMMA ParseFailsStep ==
  ASSUME WorkInv, ParseFails
  PROVE  WorkInv' /\ (Together => Together')
<1>i. PICK i : i = job.message.id
  OBVIOUS
<1> DEFINE new == [rows[i] EXCEPT !.status = "failed"]
<1>1. /\ job.next \in {"store", "mark"} /\ rows' = [rows EXCEPT ![i] = new]
      /\ job' = Idle /\ Idle.next = "idle"
      /\ UNCHANGED <<messages, sending, stranded, running>>
  BY <1>i DEF ParseFails, At, Idle
<1>2. /\ i \in DOMAIN rows /\ rows[i] \in Row /\ job.message \in messages
      /\ Together => job.message = [id |-> i, pdf |-> rows[i].pdf] /\ RowServed(i)
  BY <1>1, <1>i, JobRow
<1>3. /\ new \in Row /\ new.pdf = rows[i].pdf /\ new.status = "failed"
      /\ new.stored = rows[i].stored
  BY <1>2 DEF Row, Status
<1> HIDE DEF new
<1>5. rows \in Seq(Row)
  BY DEF WorkInv
<1>6. rows'[i] = new
  BY <1>1, <1>2, <1>3, <1>5, RowChanged
<1>7. ASSUME Together, RowServed(i)
      PROVE  RowServed(i)'
  BY <1>1, <1>2, <1>3, <1>6, <1>7 DEF RowServed
<1>8. /\ rows' \in Seq(Row) /\ DOMAIN rows' = DOMAIN rows /\ rows'[i] = new
      /\ Together => Together'
  <2>1. job.next \in {"store", "mark"} /\ (Together /\ RowServed(i) => RowServed(i)')
    BY <1>1, <1>7
  <2>2. new \in Row /\ new.pdf = rows[i].pdf /\ UNCHANGED <<messages, sending, stranded, running>>
    BY <1>1, <1>3
  <2>3. rows' = [rows EXCEPT ![i] = new]
    BY <1>1
  <2>4. JobDone'
    BY <1>1 DEF JobDone
  <2> QED
    BY <1>i, <2>1, <2>2, <2>3, <2>4, JobWrites
<1>9. WorkInv'
  BY <1>1, <1>8 DEF WorkInv
<1> QED
  BY <1>8, <1>9

LEMMA DeleteStep ==
  ASSUME WorkInv, Delete
  PROVE  WorkInv' /\ (Together => Together')
<1>1. /\ job.next = "delete" /\ messages' = messages \ {job.message}
      /\ job' = Idle /\ Idle.next = "idle"
      /\ UNCHANGED <<rows, sending, stranded, running>>
  BY DEF Delete, At, Idle
<1>2. WorkInv'
  BY <1>1 DEF WorkInv
<1>3. ASSUME Together
      PROVE  Together'
  <2>1. QueueFits'
    BY <1>1, <1>3 DEF Together, QueueFits
  <2>2. ASSUME NEW i \in DOMAIN rows
        PROVE  RowServed(i)'
    <3> DEFINE message == [id |-> i, pdf |-> rows[i].pdf]
    <3>1. RowServed(i)
      BY <1>3 DEF Together
    <3>2. CASE i = job.message.id
      <4>1. rows[i].status = "parsed"
        BY <1>1, <1>3, <3>2 DEF Together, JobDone
      <4> QED
        BY <1>1, <3>1, <4>1 DEF RowServed
    <3>3. CASE i # job.message.id
      <4>1. message # job.message
        BY <3>3
      <4>2. message \in messages => message \in messages'
        BY <1>1, <4>1
      <4> QED
        BY <1>1, <3>1, <4>2 DEF RowServed
    <3> QED
      BY <3>2, <3>3
  <2>3. JobDone'
    BY <1>1 DEF JobDone
  <2> QED
    BY <1>1, <2>1, <2>2, <2>3 DEF Together
<1> QED
  BY <1>2, <1>3

(* None of them is taken while the stack is down.                          *)
LEMMA ServicesRun ==
  ASSUME WorkInv, ServiceStep
  PROVE  /\ running # {}
         /\ UNCHANGED <<commandVars, leftover>>
<1>1. CASE \E pdf \in Uploads : Register(pdf)
  BY <1>1 DEF Register
<1>2. ASSUME NEW i \in DOMAIN rows, MarkQueued(i)
      PROVE  running # {} /\ UNCHANGED <<commandVars, leftover>>
  BY <1>2 DEF MarkQueued
<1>3. ASSUME NEW i \in DOMAIN rows, Send(i)
      PROVE  running # {} /\ UNCHANGED <<commandVars, leftover>>
  BY <1>3 DEF Send, WorkInv
<1>4. CASE \E m \in messages : Claim(m)
  BY <1>4 DEF Claim
<1>5. CASE Store \/ MarkParsed \/ ParseFails \/ Delete
  <2>1. job.next # "idle" /\ Idle.next = "idle"
    BY <1>5 DEF Store, MarkParsed, ParseFails, Delete, At, Idle
  <2>2. running # {}
    BY <2>1 DEF WorkInv
  <2> QED
    BY <1>5, <2>2 DEF Store, MarkParsed, ParseFails, Delete
<1> QED
  BY <1>1, <1>2, <1>3, <1>4, <1>5 DEF ServiceStep

LEMMA ServicesOwn ==
  ASSUME StackInv, WorkInv, OwnInv, ServiceStep
  PROVE  WorkInv' /\ OwnInv'
<1>1. WorkInv' /\ (Together => Together')
  BY RegisterStep, MarkQueuedStep, SendStep, ClaimStep, StoreStep, MarkParsedStep, ParseFailsStep,
     DeleteStep DEF ServiceStep
<1>2. terminal # "destroy" /\ terminal' = terminal /\ leftover' = leftover
  BY ServicesRun DEF StackInv, commandVars
<1> QED
  BY <1>1, <1>2 DEF OwnInv

(* At the terminal, what does not erase leaves the application's state as  *)
(* it is, or stops services.                                               *)
LEMMA NextOwn == StackInv /\ WorkInv /\ OwnInv /\ [StackNext]_stackVars => WorkInv' /\ OwnInv'
<1> SUFFICES ASSUME StackInv, WorkInv, OwnInv, [StackNext]_stackVars
             PROVE  WorkInv' /\ OwnInv'
  OBVIOUS
<1>0. ASSUME UNCHANGED appVars, running \subseteq running', terminal # "destroy", terminal' # "destroy"
      PROVE  WorkInv' /\ OwnInv'
  <2>1. /\ rows' = rows /\ messages' = messages /\ sending' = sending /\ job' = job
        /\ stranded' = stranded /\ leftover' = leftover
    BY <1>0 DEF appVars, dataVolumes, workVars
  <2>2. WorkInv'
    BY <1>0, <2>1 DEF WorkInv
  <2>3. Together => Together'
    BY <2>1 DEF Together, QueueFits, RowServed, JobDone
  <2> QED
    BY <1>0, <2>1, <2>2, <2>3 DEF OwnInv
<1>d. StackInv => (Migrating => terminal # "destroy" /\ running = {})
  BY DEF StackInv
<1>1. CASE InfraUp \/ Up \/ MigrateHead \/ SeedCategories \/ SeedUsers
  <2>1. terminal # "destroy" /\ terminal' # "destroy"
    BY <1>1 DEF InfraUp, Up, MigrateHead, SeedCategories, SeedUsers, Typed, Then
  <2> QED
    BY <1>0, <1>1, <2>1 DEF InfraUp, Up, MigrateHead, SeedCategories, SeedUsers
<1>2. CASE StartServices
  <2>1. running \subseteq running'
    BY <1>2 DEF StartServices, StackInv
  <2> QED
    BY <1>0, <1>2, <2>1 DEF StartServices, Then
<1>3. CASE Statement
  <2>1. terminal # "destroy" /\ terminal' = terminal
    BY <1>3, <1>d DEF Statement, Execute, commandVars
  <2> QED
    BY <1>0, <1>3, <2>1 DEF Statement
<1>4. ASSUME NEW to \in 0 .. HeadRevision, Alembic(to)
      PROVE  WorkInv' /\ OwnInv'
  BY <1>0, <1>4 DEF Alembic, Typed, Then
<1>5. CASE Down \/ DbReset \/ \E service \in App : Exit(service)
  <2>1. PICK services \in SUBSET App : Stop(services)
    BY <1>5 DEF Down, DbReset, Exit, Stopped
  <2>2. UNCHANGED <<dataVolumes, leftover>>
    BY <1>5 DEF Down, DbReset, Exit
  <2>3. WorkInv' /\ (Together => Together')
    BY <2>1, <2>2, StopServices
  <2>4. \/ terminal # "destroy" /\ terminal' # "destroy"
        \/ terminal' = terminal /\ doomed' = doomed
    BY <1>5 DEF Down, DbReset, Exit, Typed, Then, commandVars
  <2> QED
    BY <2>2, <2>3, <2>4 DEF OwnInv, dataVolumes
<1>6. CASE Destroy
  <2>1. Stop(App) /\ UNCHANGED <<dataVolumes, leftover>> /\ terminal = "idle" /\ doomed' = Volumes
    BY <1>6 DEF Destroy, Typed
  <2>2. WorkInv' /\ (Together => Together')
    BY <2>1, StopServices
  <2>3. "database" \in doomed' /\ "queue" \in doomed'
    BY <2>1 DEF Volumes
  <2> QED
    BY <2>1, <2>2, <2>3 DEF OwnInv
<1>7. ASSUME NEW volume \in Volumes, RemoveVolume(volume)
      PROVE  WorkInv' /\ OwnInv'
  <2>1. /\ terminal = "destroy" /\ running = {} /\ doomed \subseteq Volumes /\ volume \in doomed
        /\ doomed' = doomed \ {volume}
        /\ UNCHANGED <<running, sending, job>>
    BY <1>7 DEF RemoveVolume, StackInv
  <2>2. \/ volume = "database" /\ rows' = <<>> /\ messages' = messages
        \/ volume = "queue" /\ rows' = rows /\ messages' = {} /\ stranded' = stranded
    BY <1>7 DEF RemoveVolume, Volumes
  <2>3. \/ doomed = {volume} /\ terminal' = "idle" /\ leftover' = FALSE
        \/ doomed # {volume} /\ terminal' = terminal /\ leftover' = leftover
    BY <1>7 DEF RemoveVolume, Then
  <2>4. /\ "database" \notin doomed' => rows' = <<>>
        /\ "queue" \notin doomed' => messages' = {}
    BY <2>1, <2>2 DEF OwnInv
  <2>5. WorkInv'
    <3>1. CASE volume = "database"
      BY <2>1, <2>2, <3>1, RowsErased
    <3>2. CASE volume = "queue"
      <4>1. sending = {} /\ job = Idle /\ Idle.next = "idle"
        BY <2>1 DEF WorkInv, Idle
      <4> QED
        BY <2>1, <2>2, <3>2, <4>1 DEF WorkInv
    <3> QED
      BY <3>1, <3>2 DEF Volumes
  <2>6. CASE doomed = {volume}
    <3>1. rows' = <<>> /\ messages' = {}
      BY <2>1, <2>4, <2>6
    <3>2. Together'
      BY <2>1, <2>5, <3>1 DEF Together, QueueFits, JobDone, WorkInv, Idle
    <3> QED
      BY <2>3, <2>5, <2>6, <3>2 DEF OwnInv
  <2>7. CASE doomed # {volume}
    <3>1. doomed' # Volumes
      BY <2>1
    <3> QED
      BY <2>1, <2>3, <2>4, <2>5, <2>7, <3>1 DEF OwnInv
  <2> QED
    BY <2>6, <2>7
<1>e. ASSUME EraseRows, running = {}, UNCHANGED <<running, messages, sending, job>>,
             terminal' # "destroy"
      PROVE  WorkInv' /\ OwnInv'
  <2>1. rows' = <<>> /\ leftover' = (messages # {})
    BY <1>e DEF EraseRows
  <2>2. WorkInv' /\ (messages' = {} => Together')
    BY <1>e, <2>1, RowsErased
  <2>3. leftover' \/ messages' = {}
    BY <1>e, <2>1
  <2> QED
    BY <1>e, <2>2, <2>3 DEF OwnInv
<1>8. CASE ResetDrop
  <2>1. /\ terminal = "drop" /\ terminal' # "destroy" /\ running = {}
        /\ UNCHANGED <<running, messages, sending, job>>
    BY <1>8 DEF ResetDrop, Then, StackInv
  <2>2. CASE infra
    BY <1>8, <1>e, <2>1, <2>2 DEF ResetDrop
  <2>3. CASE ~ infra
    BY <1>0, <1>8, <2>1, <2>3 DEF ResetDrop, appVars, dataVolumes, workVars
  <2> QED
    BY <2>2, <2>3
<1>9. CASE Committed
  <2>1. /\ terminal # "destroy" /\ terminal' # "destroy" /\ running = {}
        /\ UNCHANGED <<running, messages, sending, job>>
    BY <1>9, <1>d DEF Committed, Commit, Then
  <2>2. CASE aim = 0
    BY <1>9, <1>e, <2>1, <2>2 DEF Committed
  <2>3. CASE aim # 0
    BY <1>0, <1>9, <2>1, <2>3 DEF Committed, appVars, dataVolumes, workVars
  <2> QED
    BY <2>2, <2>3
<1>10. CASE Interrupt
  <2>1. /\ terminal' = "idle" /\ UNCHANGED <<running, dataVolumes, workVars>>
        /\ leftover' = (leftover \/ (terminal = "destroy" /\ doomed # Volumes))
    BY <1>10 DEF Interrupt, Then
  <2>2. /\ rows' = rows /\ messages' = messages /\ sending' = sending /\ job' = job
        /\ stranded' = stranded /\ running' = running
    BY <2>1 DEF dataVolumes, workVars
  <2>3. WorkInv'
    BY <2>2 DEF WorkInv
  <2>4. Together => Together'
    BY <2>2 DEF Together, QueueFits, RowServed, JobDone
  <2> QED
    BY <2>1, <2>3, <2>4 DEF OwnInv
<1>11. CASE ServiceStep
  BY <1>11, ServicesOwn
<1>12. CASE UNCHANGED stackVars
  <2>1. UNCHANGED <<appVars, commandVars, running>>
    BY <1>12 DEF stackVars
  <2>2. /\ rows' = rows /\ messages' = messages /\ sending' = sending /\ job' = job
        /\ stranded' = stranded /\ running' = running /\ leftover' = leftover
        /\ terminal' = terminal /\ doomed' = doomed
    BY <2>1 DEF appVars, dataVolumes, workVars, commandVars
  <2>3. WorkInv'
    BY <2>2 DEF WorkInv
  <2>4. Together => Together'
    BY <2>2 DEF Together, QueueFits, RowServed, JobDone
  <2> QED
    BY <2>2, <2>3, <2>4 DEF OwnInv
<1> QED
  BY <1>1, <1>2, <1>3, <1>4, <1>5, <1>6, <1>7, <1>8, <1>9, <1>10, <1>11, <1>12
  DEF StackNext, ServiceStep

(* Whatever is typed and interrupted, and wherever a service is stopped:   *)
(* a row has only the reports of its own PDF, has them when it says        *)
(* parsed, and has its message until then - but for the row that the api   *)
(* was about to send for when it was stopped, and as long as rows and      *)
(* messages are not erased one without the other.                          *)
THEOREM RowsKeepTheirReports == StackSpec => []OwnReportsUnlessErased
<1>1. StackInit => SchemaInv
  BY InitSchema DEF StackInit
<1>2. OwnInv => OwnReportsUnlessErased
  BY DEF OwnInv, Together, OwnReportsUnlessErased
<1> QED
  BY <1>1, <1>2, InitStack, InitOwn, NextSchema, NextStack, StackMigrates, NextOwn, PTL DEF StackSpec
=============================================================================
