---------------------------- MODULE LinkageProofs ---------------------------
(***************************************************************************)
(* Theorems about Linkage, for any flights, reports, loads and sessions.   *)
(***************************************************************************)
EXTENDS Linkage, FiniteSetTheorems, WellFoundedInduction, TLAPS

Active(s) == stage[s] # "idle"

LinkTypes ==
  /\ stage \in [Linkers -> {"idle", "raised", "delete", "deleting", "add"}]
  /\ linked \in [Linkers -> Reports \cup {Blank}]
  /\ shared \in [Linkers -> BOOLEAN]
  /\ DOMAIN best = Linkers /\ DOMAIN snapshot = Linkers /\ DOMAIN deleted = Linkers

(* A session holds links of its own report only, and none when it is over. *)
Held ==
  \A s \in Linkers :
    /\ \A l \in snapshot[s] \cup deleted[s] : l[1] = linked[s]
    /\ stage[s] = "idle" => snapshot[s] = {} /\ deleted[s] = {}

(* A session that has its report to itself from its first statement on     *)
(* sees no link come or go but its own.                                    *)
Undivided ==
  \A s, t \in Linkers :
    Active(s) /\ ~ shared[s] /\ Active(t) /\ linked[t] = linked[s] => t = s

SeesAll ==
  \A s \in Linkers : ~ shared[s] =>
    /\ stage[s] = "deleting" => snapshot[s] = LinksOf(linked[s])
    /\ stage[s] = "add" => deleted[s] = LinksOf(linked[s])

AtMostOne(set) == set = {} \/ \E x : set = {x}
OneLink == \A r \in Reports \ overlapping : AtMostOne(LinksOf(r))

(* A session adds one link or none.                                        *)
OneCandidate == \A s \in Linkers : AtMostOne(best[s])

LinkInv == LinkTypes /\ Held /\ Undivided /\ SeesAll /\ OneLink /\ OneCandidate

LEMMA InitLinkInv == DataInit => LinkInv
BY DEF DataInit, LinkInit, LinkInv, LinkTypes, Held, Undivided, SeesAll, OneLink, OneCandidate,
       Active, AtMostOne, LinksOf

LEMMA NextLinkInv == LinkInv /\ [DataNext]_dataVars => LinkInv'
<1> SUFFICES ASSUME LinkInv, [DataNext]_dataVars
             PROVE  LinkInv'
  OBVIOUS
<1> USE DEF LinkInv, LinkTypes
<1>1. CASE LoaderStep
  <2>1. /\ stage' = stage /\ linked' = linked /\ best' = best /\ snapshot' = snapshot
        /\ deleted' = deleted /\ shared' = shared /\ overlapping' = overlapping
    BY <1>1 DEF LoaderStep
  <2>2. links' = links \/ (links' = {} /\ \A s \in Linkers : stage[s] = "idle")
    BY <1>1 DEF LoaderStep
  <2>3. LinkTypes' /\ Held' /\ Undivided' /\ SeesAll'
    BY <2>1, <2>2 DEF Held, Undivided, SeesAll, Active, LinksOf
  <2>4. OneLink'
    BY <2>1, <2>2 DEF OneLink, AtMostOne, LinksOf
  <2>5. OneCandidate'
    BY <2>1 DEF OneCandidate
  <2> QED
    BY <2>3, <2>4, <2>5
<1>2. ASSUME NEW s \in Linkers, NEW r \in Reports, ReadCandidates(s, r)
      PROVE  LinkInv'
  <2>1. /\ ~ Active(s) /\ links' = links /\ overlapping' = overlapping
        /\ snapshot' = snapshot /\ deleted' = deleted
        /\ stage' = [stage EXCEPT ![s] = IF Answers(r) THEN "delete" ELSE "raised"]
        /\ linked' = [linked EXCEPT ![s] = r]
    BY <1>2 DEF ReadCandidates, Active
  <2>2. PICK candidates \in Candidates(r) : best' = [best EXCEPT ![s] = candidates]
    BY <1>2 DEF ReadCandidates
  <2>3. /\ shared' \in [Linkers -> BOOLEAN]
        /\ \A t \in Linkers : shared[t] => shared'[t]
        /\ \A t \in Linkers \ {s} : Active(t) /\ linked[t] = r => shared'[t] /\ shared'[s]
    BY <1>2 DEF ReadCandidates, Active
  <2>4. LinkTypes' /\ Held'
    BY <2>1, <2>2, <2>3 DEF Held, Active
  <2>5. Undivided'
    BY <2>1, <2>3 DEF Undivided, Active
  <2>6. SeesAll' /\ OneLink'
    BY <2>1, <2>3 DEF SeesAll, OneLink, AtMostOne, LinksOf
  <2>7. OneCandidate'
    <3>1. AtMostOne(candidates)
      BY DEF AtMostOne, Candidates
    <3> QED
      BY <2>2, <3>1 DEF OneCandidate
  <2> QED
    BY <2>4, <2>5, <2>6, <2>7
<1>3. ASSUME NEW s \in Linkers, BeginDelete(s)
      PROVE  LinkInv'
  <2>1. /\ \A r : LinksOf(r)' = LinksOf(r)
        /\ \A l \in LinksOf(linked[s]) : l[1] = linked[s]
    BY <1>3 DEF BeginDelete, LinksOf
  <2> QED
    BY <1>3, <2>1 DEF BeginDelete, Held, Undivided, SeesAll, OneLink, OneCandidate, AtMostOne, Active
<1>4. ASSUME NEW s \in Linkers, DeleteLinks(s)
      PROVE  LinkInv'
  <2>1. /\ \A r : LinksOf(r)' = LinksOf(r)
        /\ LinksOf(linked[s]) \subseteq links
    BY <1>4 DEF DeleteLinks, LinksOf
  <2>2. /\ stage[s] = "deleting" /\ stage' = [stage EXCEPT ![s] = "add"]
        /\ deleted' = [deleted EXCEPT ![s] = snapshot[s] \cap links]
        /\ UNCHANGED <<links, linked, best, snapshot, shared, overlapping>>
    BY <1>4 DEF DeleteLinks, Deleted
  <2>3. LinkTypes' /\ Held' /\ Undivided' /\ OneLink' /\ OneCandidate'
    BY <2>1, <2>2 DEF Held, Undivided, OneLink, OneCandidate, AtMostOne, Active
  <2>4. SeesAll'
    BY <2>1, <2>2 DEF SeesAll
  <2> QED
    BY <2>3, <2>4
<1>5. ASSUME NEW s \in Linkers, CommitLink(s)
      PROVE  LinkInv'
  <2> DEFINE added == Added(s)
  <2>1. links' = (links \ deleted[s]) \cup added
    BY <1>5 DEF CommitLink
  <2>2. AtMostOne(added) /\ \A l \in added : l[1] = linked[s]
    BY DEF Added, OneCandidate, AtMostOne
  <2>3. /\ Active(s) /\ stage[s] = "add"
        /\ stage' = [stage EXCEPT ![s] = "idle"] /\ linked' = [linked EXCEPT ![s] = Blank]
        /\ shared' = [shared EXCEPT ![s] = FALSE]
        /\ best' = [best EXCEPT ![s] = {}] /\ snapshot' = [snapshot EXCEPT ![s] = {}]
        /\ deleted' = [deleted EXCEPT ![s] = {}]
        /\ overlapping' = IF shared[s] THEN overlapping \cup {linked[s]} ELSE overlapping \ {linked[s]}
    BY <1>5 DEF CommitLink, Finish, Active
  <2> HIDE DEF added
  <2>4. \A r : r # linked[s] => LinksOf(r)' = LinksOf(r)
    BY <2>1, <2>2 DEF Held, LinksOf
  <2>5. LinkTypes' /\ Held' /\ Undivided'
    BY <2>3 DEF Held, Undivided, Active
  <2>6. SeesAll'
    BY <2>3, <2>4 DEF SeesAll, Undivided, Active
  <2>7. ASSUME ~ shared[s], NEW r, r = linked[s]
        PROVE  LinksOf(r)' = added
    BY <2>1, <2>2, <2>3, <2>7 DEF SeesAll, LinksOf
  <2>8. OneLink'
    BY <2>2, <2>3, <2>4, <2>7 DEF OneLink, AtMostOne
  <2>9. OneCandidate'
    BY <2>3 DEF OneCandidate, AtMostOne
  <2> QED
    BY <2>5, <2>6, <2>8, <2>9
<1>6. ASSUME NEW s \in Linkers, AbortLink(s)
      PROVE  LinkInv'
  <2>1. /\ stage[s] # "idle" /\ overlapping' = overlapping
        /\ stage' = [stage EXCEPT ![s] = "idle"] /\ linked' = [linked EXCEPT ![s] = Blank]
        /\ shared' = [shared EXCEPT ![s] = FALSE]
        /\ best' = [best EXCEPT ![s] = {}] /\ snapshot' = [snapshot EXCEPT ![s] = {}]
        /\ deleted' = [deleted EXCEPT ![s] = {}]
        /\ \A r : LinksOf(r)' = LinksOf(r)
    BY <1>6 DEF AbortLink, Finish, LinksOf
  <2> QED
    BY <2>1 DEF Held, Undivided, SeesAll, OneLink, OneCandidate, AtMostOne, Active
<1>7. CASE UNCHANGED dataVars
  <2>1. UNCHANGED linkVars
    BY <1>7 DEF dataVars
  <2> QED
    BY <2>1 DEF linkVars, Held, Undivided, SeesAll, OneLink, OneCandidate, AtMostOne, LinksOf, Active
<1> QED
  BY <1>1, <1>2, <1>3, <1>4, <1>5, <1>6, <1>7 DEF DataNext

(* A report has one link or none, unless sessions that link it overlap and *)
(* none has linked it alone since.                                         *)
THEOREM LinksAreReplaced == DataSpec => []OneLinkUnlessOverlap
<1>1. LinkInv => OneLinkUnlessOverlap
  <2> SUFFICES ASSUME OneLink, NEW r \in Reports \ overlapping
               PROVE  Cardinality(LinksOf(r)) <= 1
    BY DEF LinkInv, OneLinkUnlessOverlap
  <2>1. CASE LinksOf(r) = {}
    BY <2>1, FS_EmptySet
  <2>2. CASE \E x : LinksOf(r) = {x}
    <3>1. PICK x : LinksOf(r) = {x}
      BY <2>2
    <3>2. Cardinality({x}) = 1
      BY FS_Singleton
    <3> QED
      BY <3>1, <3>2
  <2> QED
    BY <2>1, <2>2 DEF OneLink, AtMostOne
<1> QED
  BY <1>1, InitLinkInv, NextLinkInv, PTL DEF DataSpec

-----------------------------------------------------------------------------
(* What pass 1 of a load leaves behind: all that the file's flights refer  *)
(* to but the tail numbers.                                                *)
Referenced(file) ==
  /\ NamedCarriers(file) \subseteq carriers
  /\ Ids(FirstMentions(file)) \subseteq Ids(airports)

LoadTypes ==
  /\ pass \in [Loads -> {"idle", "reference", "flights"}]
  /\ source \in [Loads -> Files \cup {<<>>}]
  /\ erased \in [Loads -> BOOLEAN]
  /\ \A l \in Loads : pass[l] # "idle" => source[l] \in Files

(* The references are there for a load between its passes, and with the    *)
(* tail numbers and the flights for a file that has gone through.          *)
LoadInv ==
  /\ LoadTypes
  /\ \A l \in Loads : pass[l] = "flights" /\ ~ erased[l] => Referenced(source[l])
  /\ \A file \in loaded :
       /\ Referenced(file)
       /\ NamedTails(file) \subseteq aircraft
       /\ \A row \in ToSet(file) : row.key \in Keys(flights)
  /\ \A row \in flights : Accepted(row, aircraft)
  /\ ~ refused

(* The least of some natural numbers.                                      *)
LEMMA NatLeast ==
  ASSUME NEW S, S \subseteq Nat, S # {}
  PROVE  \E x \in S : \A y \in S : x <= y
<1> DEFINE less == {ss \in Nat \X Nat : ss[1] < ss[2]}
<1>1. IsWellFoundedOn(less, Nat)
  BY NatLessThanWellFounded, Zenon DEF OpToRel
<1>2. PICK x \in S : \A y \in S : ~ (<<y, x>> \in less)
  <2> HIDE DEF less
  <2> QED
    BY <1>1, WFMin
<1>3. ASSUME NEW y \in S
      PROVE  x <= y
  <2>1. x \in Nat /\ y \in Nat /\ ~ (y < x)
    BY <1>2
  <2> QED
    BY <2>1
<1> QED
  BY <1>2, <1>3

(* Every airport that a row names is mentioned first somewhere.            *)
LEMMA FirstMentioned ==
  ASSUME NEW file \in Files, NEW row \in ToSet(file)
  PROVE  /\ IdOf(row.origin) # Blank => IdOf(row.origin) \in Ids(FirstMentions(file))
         /\ IdOf(row.dest) # Blank => IdOf(row.dest) \in Ids(FirstMentions(file))
<1> DEFINE ms == Mentions(file)
<1>1. Len(file) \in Nat /\ DOMAIN file = 1 .. Len(file) /\ DOMAIN ms = 1 .. 2 * Len(file)
  BY LoaderAssumption DEF Mentions
<1>2. ASSUME NEW j \in DOMAIN ms, ms[j].id # Blank
      PROVE  ms[j].id \in Ids(FirstMentions(file))
  <2> HIDE DEF ms
  <2> DEFINE S == {k \in DOMAIN ms : ms[k].id = ms[j].id}
  <2>1. S \subseteq Nat /\ S # {}
    BY <1>1
  <2>2. PICK i \in S : \A k \in S : i <= k
    <3> HIDE DEF S
    <3> QED
      BY <2>1, NatLeast
  <2>3. \A k \in 1 .. (i - 1) : ms[k].id # ms[i].id
    BY <1>1, <2>2
  <2>4. ms[i] \in FirstMentions(file)
    BY <1>2, <2>3 DEF FirstMentions, ms
  <2> QED
    BY <2>4 DEF Ids
<1>3. PICK i \in 1 .. Len(file) : row = file[i]
  BY <1>1 DEF ToSet
<1>4. /\ 2 * i - 1 \in DOMAIN ms /\ ((2 * i - 1) + 1) \div 2 = i /\ (2 * i - 1) % 2 = 1
      /\ 2 * i \in DOMAIN ms /\ (2 * i + 1) \div 2 = i /\ (2 * i) % 2 = 0
  BY <1>1
<1>5. ms[2 * i - 1].id = IdOf(row.origin) /\ ms[2 * i].id = IdOf(row.dest)
  BY <1>1, <1>3, <1>4 DEF Mentions
<1> QED
  BY <1>2, <1>4, <1>5

(* A key of a file is in the table once the file's new flights are.        *)
LEMMA KeysCovered ==
  ASSUME NEW file \in Files, NEW row \in ToSet(file)
  PROVE  row.key \in Keys(flights \cup NewFlights(file))
<1>1. Len(file) \in Nat /\ DOMAIN file = 1 .. Len(file)
  BY LoaderAssumption
<1>2. PICK j \in DOMAIN file : row = file[j]
  BY DEF ToSet
<1>3. CASE row.key \in Keys(flights)
  BY <1>3 DEF Keys
<1>4. CASE row.key \notin Keys(flights)
  <2> DEFINE S == {k \in DOMAIN file : file[k].key = row.key}
  <2>1. S \subseteq Nat /\ S # {}
    BY <1>1, <1>2
  <2>2. PICK i \in S : \A k \in S : i <= k
    <3> HIDE DEF S
    <3> QED
      BY <2>1, NatLeast
  <2>3. \A k \in 1 .. (i - 1) : file[k].key # file[i].key
    BY <1>1, <2>2
  <2>4. Staged(file[i]) \in NewFlights(file)
    BY <1>4, <2>2, <2>3 DEF NewFlights
  <2> QED
    BY <2>2, <2>4 DEF Keys, Staged
<1> QED
  BY <1>3, <1>4

LEMMA InitLoadInv == DataInit => LoadInv
BY DEF DataInit, LoaderInit, LoadInv, LoadTypes

(* Inserts take no reference away.                                         *)
LEMMA ReferencedStays ==
  ASSUME carriers \subseteq carriers', airports \subseteq airports', NEW file, Referenced(file)
  PROVE  Referenced(file)'
BY DEF Referenced, Ids, NamedCarriers, FirstMentions, Mentions

LEMMA NextLoadInv == LoadInv /\ [DataNext]_dataVars => LoadInv'
<1> SUFFICES ASSUME LoadInv, [DataNext]_dataVars
             PROVE  LoadInv'
  OBVIOUS
<1> USE DEF LoadInv, LoadTypes
  \* A step that inserts nothing and does not end a first pass.
<1>n. ASSUME UNCHANGED <<tableVars, loaded, refused>>, LoadTypes',
             \A l \in Loads : pass'[l] = "flights" =>
               pass[l] = "flights" /\ UNCHANGED <<source[l], erased[l]>>
      PROVE  LoadInv'
  <2>1. UNCHANGED <<carriers, airports, aircraft, flights>>
    BY <1>n DEF tableVars
  <2>2. \A f : Referenced(f)' <=> Referenced(f)
    BY <2>1 DEF Referenced, NamedCarriers, FirstMentions, Mentions, Ids
  <2>3. \A l \in Loads : pass'[l] = "flights" /\ ~ erased'[l] => Referenced(source[l])' /\ source'[l] = source[l]
    BY <1>n, <2>2
  <2>4. \A l \in Loads : (pass[l] = "flights" /\ ~ erased[l] => Referenced(source[l]))'
    BY <2>2, <2>3
  <2>5. \A f \in loaded : /\ Referenced(f)'
                          /\ NamedTails(f)' \subseteq aircraft'
                          /\ \A row \in ToSet(f) : row.key \in Keys(flights)'
    BY <2>1, <2>2 DEF NamedTails, Keys
  <2>6. \A row \in flights' : Accepted(row, aircraft)'
    BY <2>1 DEF Accepted, Ids
  <2> QED
    BY <1>n, <2>4, <2>5, <2>6
<1>1. ASSUME NEW l \in Loads, NEW file \in Files, StartLoad(l, file)
      PROVE  LoadInv'
  BY <1>n, <1>1 DEF StartLoad
<1>2. ASSUME NEW l \in Loads, LoadReferenceData(l)
      PROVE  LoadInv'
  <2>1. /\ carriers' = carriers \cup NamedCarriers(source[l])
        /\ airports' = InsertAirports(FirstMentions(source[l]))
        /\ pass' = [pass EXCEPT ![l] = "flights"]
        /\ UNCHANGED <<aircraft, flights, source, erased, loaded, refused>>
    BY <1>2 DEF LoadReferenceData
  <2>2. carriers \subseteq carriers' /\ airports \subseteq airports'
    BY <2>1 DEF InsertAirports
  <2>3. Referenced(source[l])'
    <3>1. NamedCarriers(source[l])' = NamedCarriers(source[l])
      BY <2>1 DEF NamedCarriers
    <3>2. Ids(FirstMentions(source[l]))' = Ids(FirstMentions(source[l]))
      BY <2>1 DEF Ids, FirstMentions, Mentions
    <3>3. Ids(FirstMentions(source[l])) \subseteq Ids(airports')
      BY <2>1 DEF InsertAirports, Ids
    <3> QED
      BY <2>1, <3>1, <3>2, <3>3 DEF Referenced, Ids
  <2>4. \A file : Referenced(file) => Referenced(file)'
    BY <2>2, ReferencedStays
  <2>5. LoadTypes'
    BY <1>2, <2>1 DEF LoadReferenceData
  <2>6. \A k \in Loads : pass'[k] = "flights" /\ ~ erased'[k] => Referenced(source[k])'
    BY <2>1, <2>3, <2>4
  <2>7. \A row \in flights : Accepted(row, aircraft)'
    BY <2>1, <2>2 DEF Accepted, Ids
  <2>8. \A file \in loaded :
          /\ Referenced(file)'
          /\ NamedTails(file)' \subseteq aircraft'
          /\ \A row \in ToSet(file) : row.key \in Keys(flights)'
    BY <2>1, <2>4 DEF NamedTails, Keys
  <2> QED
    BY <2>1, <2>5, <2>6, <2>7, <2>8 DEF Accepted
<1>3. ASSUME NEW l \in Loads, LoadFlights(l)
      PROVE  LoadInv'
  <2> DEFINE file == source[l]
             tails == WithTails(file)
             fits == Castable(file) /\ \A row \in NewFlights(file) : Accepted(row, tails)
  <2>1. /\ pass[l] = "flights" /\ source[l] \in Files
        /\ pass' = [pass EXCEPT ![l] = "idle"]
        /\ source' = [source EXCEPT ![l] = <<>>]
        /\ erased' = [erased EXCEPT ![l] = FALSE]
        /\ UNCHANGED <<carriers, airports>>
    BY <1>3 DEF LoadFlights, End
  <2>2. LoadTypes'
    BY <2>1
  <2>3. \A f : Referenced(f)' <=> Referenced(f)
    BY <2>1 DEF Referenced, NamedCarriers, FirstMentions, Mentions, Ids
  <2>4. \A k \in Loads : pass'[k] = "flights" /\ ~ erased'[k] => k # l /\ Referenced(source[k])'
    BY <2>1, <2>3
  <2>5. CASE fits
    <3>1. /\ aircraft' = tails /\ aircraft \subseteq tails /\ NamedTails(file) \subseteq tails
          /\ flights' = flights \cup NewFlights(file)
          /\ loaded' = IF erased[l] THEN loaded ELSE loaded \cup {file}
          /\ refused' = refused
      BY <1>3, <2>5 DEF LoadFlights, WithTails
    <3>2. \A row \in flights' : Accepted(row, aircraft)'
      BY <2>1, <2>5, <3>1 DEF Accepted, Ids
    <3>3. \A row \in ToSet(file) : row.key \in Keys(flights)'
      BY <2>1, <3>1, KeysCovered DEF Keys
    <3>4. ~ erased[l] => Referenced(file)
      BY <2>1
    <3>5. \A f \in loaded' :
            /\ Referenced(f)'
            /\ NamedTails(f)' \subseteq aircraft'
            /\ \A row \in ToSet(f) : row.key \in Keys(flights)'
      <4> SUFFICES ASSUME NEW f \in loaded'
                   PROVE  /\ Referenced(f)'
                          /\ NamedTails(f) \subseteq aircraft'
                          /\ \A row \in ToSet(f) : row.key \in Keys(flights)'
        BY DEF NamedTails
      <4>1. CASE f \in loaded
        BY <2>3, <3>1, <4>1 DEF Keys
      <4>2. CASE f = file /\ ~ erased[l]
        BY <2>3, <3>1, <3>3, <3>4, <4>2
      <4> QED
        BY <3>1, <4>1, <4>2
    <3> QED
      BY <2>2, <2>4, <3>1, <3>2, <3>5
  <2>6. CASE ~ fits
    <3>1. /\ UNCHANGED <<aircraft, flights, loaded>>
          /\ refused' = (refused \/ (Castable(file) /\ ~ erased[l]))
      BY <1>3, <2>6 DEF LoadFlights
    <3>2. ~ (Castable(file) /\ ~ erased[l])
      <4> SUFFICES ASSUME ~ erased[l], Castable(file), NEW row \in NewFlights(file)
                   PROVE  Accepted(row, tails)
        BY <2>6
      <4>1. Referenced(file)
        BY <2>1
      <4>2. PICK given \in ToSet(file) : row = Staged(given)
        BY DEF NewFlights, ToSet
      <4>3. Blank \notin {IdOf(given.carrier), IdOf(given.origin), IdOf(given.dest)}
        BY LoaderAssumption DEF Castable, IdCells, IdOf
      <4>4. /\ IdOf(given.carrier) \in carriers
            /\ IdOf(given.origin) \in Ids(airports) /\ IdOf(given.dest) \in Ids(airports)
        BY <2>1, <4>1, <4>3, FirstMentioned DEF Referenced, NamedCarriers
      <4>5. given.tail \in tails \cup {Blank}
        BY DEF WithTails, NamedTails
      <4> QED
        BY <4>2, <4>4, <4>5 DEF Accepted, Staged
    <3> QED
      BY <2>1, <2>2, <2>3, <2>4, <3>1, <3>2 DEF Accepted, Keys, Ids, NamedTails
  <2> QED
    BY <2>5, <2>6
<1>4. ASSUME NEW l \in Loads, KillLoad(l)
      PROVE  LoadInv'
  BY <1>n, <1>4 DEF KillLoad, End
<1>5. ASSUME NEW l \in Loads, ReferenceDataRaises(l)
      PROVE  LoadInv'
  BY <1>n, <1>5 DEF ReferenceDataRaises, End
<1>6. CASE EraseTables
  BY <1>6 DEF EraseTables
<1>7. CASE UNCHANGED loaderVars
  BY <1>n, <1>7 DEF loaderVars
<1>8. CASE LoaderStep
  BY <1>1, <1>2, <1>3, <1>4, <1>6, <1>8, <1>5 DEF LoaderStep, LoadsNext
<1>9. CASE ~ LoaderStep
  <2>1. UNCHANGED loaderVars
    BY <1>9 DEF DataNext, dataVars, ReadCandidates, BeginDelete, DeleteLinks, CommitLink, AbortLink,
                Finish
  <2> QED
    BY <1>7, <2>1
<1> QED
  BY <1>8, <1>9

(* A load that is not ended from outside fails only for a cell that a pass *)
(* cannot read or because the tables were erased between its passes, and a *)
(* file that has gone through is in the tables with all that it refers to, *)
(* whatever loads overlap.                                                 *)
THEOREM LoadsFail == DataSpec => []LoadsGoThrough
<1>1. LoadInv => LoadsGoThrough
  BY DEF LoadInv, LoadsGoThrough
<1> QED
  BY <1>1, InitLoadInv, NextLoadInv, PTL DEF DataSpec

(* A pass over a file that has gone through inserts nothing.               *)
LEMMA ReloadStutters ==
  ASSUME LoadInv, [DataNext]_dataVars, NEW l \in Loads,
         pass[l] # "idle", pass'[l] # pass[l], source[l] \in loaded
  PROVE  UNCHANGED tableVars
<1>0. /\ Referenced(source[l])
      /\ NamedTails(source[l]) \subseteq aircraft
      /\ \A row \in ToSet(source[l]) : row.key \in Keys(flights)
      /\ pass \in [Loads -> {"idle", "reference", "flights"}]
  BY DEF LoadInv, LoadTypes
<1>1. CASE LoadReferenceData(l)
  <2>1. InsertAirports(FirstMentions(source[l])) = airports
    BY <1>0 DEF InsertAirports, Referenced, Ids
  <2> QED
    BY <1>0, <1>1, <2>1 DEF LoadReferenceData, Referenced, tableVars
<1>2. CASE LoadFlights(l)
  <2>1. NewFlights(source[l]) = {}
    BY <1>0 DEF NewFlights, ToSet
  <2>2. WithTails(source[l]) = aircraft
    BY <1>0 DEF WithTails
  <2> QED
    BY <1>2, <2>1, <2>2 DEF LoadFlights, tableVars
<1>3. CASE ReferenceDataRaises(l) \/ KillLoad(l)
  BY <1>3 DEF ReferenceDataRaises, KillLoad, tableVars
<1>4. LoadReferenceData(l) \/ ReferenceDataRaises(l) \/ LoadFlights(l) \/ KillLoad(l)
  <2>1. pass' # pass
    OBVIOUS
  <2>2. CASE LoaderStep
    <3>1. ~ EraseTables
      BY DEF EraseTables
    <3>2. \A k \in Loads, file \in Files : ~ StartLoad(k, file)
      BY <1>0 DEF StartLoad
    <3>3. ASSUME NEW k \in Loads,
                 LoadReferenceData(k) \/ ReferenceDataRaises(k) \/ LoadFlights(k) \/ KillLoad(k)
          PROVE  k = l
      BY <1>0, <3>3 DEF LoadReferenceData, ReferenceDataRaises, LoadFlights, KillLoad, End
    <3> QED
      BY <2>2, <3>1, <3>2, <3>3 DEF LoaderStep, LoadsNext
  <2>3. CASE ~ LoaderStep
    BY <2>1, <2>3 DEF DataNext, dataVars, loaderVars, ReadCandidates, BeginDelete, DeleteLinks, CommitLink,
                      AbortLink, Finish
  <2> QED
    BY <2>2, <2>3
<1> QED
  BY <1>1, <1>2, <1>3, <1>4

(* Loading a file again changes nothing, for any files and any loads.      *)
THEOREM ReloadsChangeNothing == DataSpec => ReloadChangesNothing
<1>1. LoadInv /\ [DataNext]_dataVars =>
        [\A l \in Loads :
           (pass[l] # "idle" /\ pass'[l] # pass[l] /\ source[l] \in loaded) => UNCHANGED tableVars]_loaderVars
  BY ReloadStutters
<1> QED
  BY <1>1, InitLoadInv, NextLoadInv, PTL DEF DataSpec, ReloadChangesNothing

=============================================================================
