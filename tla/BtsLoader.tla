----------------------------- MODULE BtsLoader ------------------------------
(***************************************************************************)
(* db/seed/load_bts.py: a BTS file of flights is loaded in two passes, one *)
(* transaction each - the carriers and airports it names, then the tail    *)
(* numbers and the flights, which refer to them.  Every insert is ON       *)
(* CONFLICT DO NOTHING.  Loads are started by hand and may overlap, end in *)
(* the middle, and find the tables erased between their passes.            *)
(*                                                                         *)
(* A row of a file is [key, carrier, origin, state, dest, tail, delay,     *)
(* refusedBy].  key stands for the date, the airline, the flight number    *)
(* and the origin; carrier, origin and dest are cells as they are written, *)
(* which each pass turns into a number in its own way; refusedBy is the    *)
(* pass that refuses some other cell of the row, or 0: a state or a code   *)
(* that is too long in the first, a date, a flight number, a delay or a    *)
(* tail number in the second.                                              *)
(***************************************************************************)
EXTENDS Naturals, Sequences, SequencesExt

CONSTANTS
  Loads,          \* processes of the loader
  Files,          \* the files: sequences of rows
  Blank,          \* an empty cell
  Number,         \* cell -> int(float(cell)), where that is a number a column takes
  Plain,          \* the cells that ::int takes: "10397", and not "10397.0"
  MaxLoads        \* bound: loads that are started

ASSUME LoaderAssumption ==
  /\ \A file \in Files : file \in Seq(ToSet(file))
  /\ Blank \notin DOMAIN Number /\ \A cell \in DOMAIN Number : Number[cell] # Blank
  /\ Plain \subseteq DOMAIN Number
  /\ MaxLoads \in Nat

VARIABLES
  carriers,       \* the ids in the table of that name
  airports,       \* records [id, state]
  aircraft,       \* tail numbers
  flights,        \* the rows of the flights table
  pass, source,   \* what a load does next, and its file
  erased,         \* whether the tables were erased between its passes
  loaded,         \* the files whose both passes went through since then
  refused,        \* whether a load failed that should not have
  started

tableVars == <<carriers, airports, aircraft, flights>>
loaderVars == <<tableVars, pass, source, erased, loaded, refused, started>>

LoaderInit ==
  /\ carriers = {} /\ airports = {} /\ aircraft = {} /\ flights = {}
  /\ pass = [l \in Loads |-> "idle"]
  /\ source = [l \in Loads |-> <<>>]
  /\ erased = [l \in Loads |-> FALSE]
  /\ loaded = {}
  /\ refused = FALSE
  /\ started = 0

-----------------------------------------------------------------------------
(* _int_or_none.                                                           *)
IdOf(cell) == IF cell \in DOMAIN Number THEN Number[cell] ELSE Blank

(* What each pass can read.  _int_or_none raises for a cell that is no     *)
(* number and passes over an empty one; the casts of pass 2 raise for both,*)
(* and for a number that is not written as an integer, in every row of the *)
(* file, also in those that ON CONFLICT would drop.                        *)
IdCells(row) == {row.carrier, row.origin, row.dest}
Readable(file) ==
  \A row \in ToSet(file) : row.refusedBy # 1 /\ IdCells(row) \subseteq DOMAIN Number \cup {Blank}
Castable(file) ==
  \A row \in ToSet(file) : row.refusedBy # 2 /\ IdCells(row) \subseteq Plain

(* setdefault, row by row: an airport is what its first mention says, and  *)
(* a destination is mentioned without a state.                             *)
Mentions(file) ==
  [k \in 1 .. 2 * Len(file) |->
    LET row == file[(k + 1) \div 2]
    IN  IF k % 2 = 1 THEN [id |-> IdOf(row.origin), state |-> row.state]
        ELSE [id |-> IdOf(row.dest), state |-> Blank]]
FirstMentions(file) ==
  LET ms == Mentions(file)
  IN  {ms[i] : i \in {j \in DOMAIN ms : ms[j].id # Blank /\ \A k \in 1 .. (j - 1) : ms[k].id # ms[j].id}}

NamedCarriers(file) == {IdOf(row.carrier) : row \in ToSet(file)} \ {Blank}
NamedTails(file) == {row.tail : row \in ToSet(file)} \ {Blank}

(* str(_int_or_none(delay) or ""): a delay of 0 is stored as NULL.         *)
Staged(row) ==
  [key |-> row.key, carrier |-> IdOf(row.carrier), origin |-> IdOf(row.origin), dest |-> IdOf(row.dest),
   tail |-> row.tail, delay |-> IF row.delay = 0 THEN Blank ELSE row.delay]

(* The rows of a file that get into the table: of those with the same key  *)
(* the first, unless the table has one.                                    *)
Keys(set) == {x.key : x \in set}
NewFlights(file) ==
  {Staged(file[i]) : i \in {j \in DOMAIN file :
     file[j].key \notin Keys(flights) /\ \A k \in 1 .. (j - 1) : file[k].key # file[j].key}}

Ids(set) == {x.id : x \in set}
(* INSERT INTO airports.  Variant: ON CONFLICT DO UPDATE.                  *)
UpsertAirports(mentions) ==
  {a \in airports : a.id \notin Ids(mentions)} \cup mentions
InsertAirports(mentions) ==
  airports \cup {a \in mentions : a.id \notin Ids(airports)}

(* The foreign keys of a flight.                                           *)
Accepted(row, tails) ==
  /\ row.carrier \in carriers
  /\ row.origin \in Ids(airports) /\ row.dest \in Ids(airports)
  /\ row.tail \in tails \cup {Blank}

-----------------------------------------------------------------------------
StartLoad(l, file) ==
  /\ pass[l] = "idle"
  /\ started < MaxLoads
  /\ started' = started + 1
  /\ pass' = [pass EXCEPT ![l] = "reference"]
  /\ source' = [source EXCEPT ![l] = file]
  /\ UNCHANGED <<tableVars, erased, loaded, refused>>

End(l) ==
  /\ pass' = [pass EXCEPT ![l] = "idle"]
  /\ source' = [source EXCEPT ![l] = <<>>]
  /\ erased' = [erased EXCEPT ![l] = FALSE]
  /\ UNCHANGED started

(* load_reference_data commits, or raises for a cell, which ends the load. *)
LoadReferenceData(l) ==
  /\ pass[l] = "reference"
  /\ Readable(source[l])
  /\ carriers' = carriers \cup NamedCarriers(source[l])
  /\ airports' = InsertAirports(FirstMentions(source[l]))
  /\ pass' = [pass EXCEPT ![l] = "flights"]
  /\ UNCHANGED <<aircraft, flights, source, erased, loaded, refused, started>>

ReferenceDataRaises(l) ==
  /\ pass[l] = "reference"
  /\ ~ Readable(source[l])
  /\ End(l)
  /\ UNCHANGED <<tableVars, loaded, refused>>

(* load_flights: tail numbers first, then the flights, together.  A cell   *)
(* that a cast refuses, or a reference that is missing, makes the whole    *)
(* pass fail.                                                              *)
(* Variant: the tail numbers are not inserted.                             *)
WithoutTails(file) == aircraft
WithTails(file) == aircraft \cup NamedTails(file)
LoadFlights(l) ==
  LET tails == WithTails(source[l])
      fits == Castable(source[l]) /\ \A row \in NewFlights(source[l]) : Accepted(row, tails)
  IN  /\ pass[l] = "flights"
      /\ End(l)
      /\ IF fits
         THEN /\ aircraft' = tails
              /\ flights' = flights \cup NewFlights(source[l])
              /\ loaded' = IF erased[l] THEN loaded ELSE loaded \cup {source[l]}
              /\ UNCHANGED refused
         ELSE /\ refused' = (refused \/ (Castable(source[l]) /\ ~erased[l]))
              /\ UNCHANGED <<aircraft, flights, loaded>>
      /\ UNCHANGED <<carriers, airports>>

(* A load is killed, or PostgreSQL ends it to break a deadlock with        *)
(* another that inserts the same rows in another order; the pass it was in *)
(* is undone.                                                              *)
KillLoad(l) ==
  /\ pass[l] # "idle"
  /\ End(l)
  /\ UNCHANGED <<tableVars, loaded, refused>>

(* manage.py db-reset, at another terminal.                                *)
EraseTables ==
  /\ carriers' = {} /\ airports' = {} /\ aircraft' = {} /\ flights' = {}
  /\ erased' = [l \in Loads |-> pass[l] = "flights"]
  /\ loaded' = {}
  /\ UNCHANGED <<pass, source, refused, started>>

LoadsNext ==
  \E l \in Loads :
    \/ \E file \in Files : StartLoad(l, file)
    \/ LoadReferenceData(l) \/ ReferenceDataRaises(l) \/ LoadFlights(l) \/ KillLoad(l)

-----------------------------------------------------------------------------
(* A load that is not ended from outside fails for nothing but a cell that *)
(* one of its passes cannot read, or because the tables were erased        *)
(* between its passes: an id that pass 2 takes is one that pass 1 has put  *)
(* into the tables, whatever other loads do.  A file that has gone through *)
(* has every one of its flights in the table, with all they refer to.      *)
LoadsGoThrough ==
  /\ ~refused
  /\ \A file \in loaded : \A row \in ToSet(file) : row.key \in Keys(flights)
  /\ \A row \in flights : Accepted(row, aircraft)

(* Loading a file again that has been loaded changes nothing - no flight,  *)
(* and no airport that another file has described in another way since.    *)
ReloadChangesNothing ==
  [][\A l \in Loads :
       (pass[l] # "idle" /\ pass'[l] # pass[l] /\ source[l] \in loaded) => UNCHANGED tableVars]_loaderVars
=============================================================================
