--------------------------- MODULE WorklistProofs ---------------------------
(***************************************************************************)
(* Theorems about Worklist, for any reports, severities, filters and page  *)
(* size.                                                                   *)
(***************************************************************************)
EXTENDS Worklist, TLAPS

(* Scores are 0-100.                                                       *)
LEMMA PriorityInRange ==
  ASSUME NEW s \in 0 .. 100, NEW f \in BOOLEAN
  PROVE  Priority(s, f) \in 0 .. 100
BY DEF Priority

LEMMA InitTypes == Init => WorklistTypeOK /\ ScoresAgree
<1> SUFFICES ASSUME Init
             PROVE  WorklistTypeOK /\ ScoresAgree
  OBVIOUS
<1>1. cursor \in (0 .. 100) \X Nat
  BY DEF Init
<1>2. severity \in [Ids -> 0 .. 100] /\ stored \in [Ids -> 0 .. 100]
  BY DEF Init
<1>3. flagged \in [Ids -> BOOLEAN]
  BY DEF Init
<1>4. /\ rows = {} /\ scored = {} /\ pending = {} /\ listed = {} /\ steady = {}
      /\ faults \in 0 .. MaxFaults
      /\ wpc \in {"idle", "walking"}
      /\ minimum \in Nat
  BY WorklistAssumption DEF Init
<1>5. /\ started \in BOOLEAN /\ repeated \in BOOLEAN
      /\ changed \in BOOLEAN /\ unsound \in BOOLEAN
  BY DEF Init
<1> QED
  BY <1>1, <1>2, <1>3, <1>4, <1>5 DEF WorklistTypeOK, ScoresAgree

(* The types, and that a stored priority is the shown one: whoever changes *)
(* a term of the score stores the new score in the same step.              *)
LEMMA NextTypes ==
  WorklistTypeOK /\ ScoresAgree /\ [Next]_vars => WorklistTypeOK' /\ ScoresAgree'
<1> SUFFICES ASSUME WorklistTypeOK, ScoresAgree, [Next]_vars
             PROVE  WorklistTypeOK' /\ ScoresAgree'
  OBVIOUS
<1> USE WorklistAssumption DEF WorklistTypeOK, tableVars, walkVars
<1>1. ASSUME Insert
      PROVE  WorklistTypeOK' /\ ScoresAgree'
  <2>1. PICK new \in SUBSET (Ids \ rows) : \E s \in [new -> Severities] :
               /\ rows' = rows \cup new
               /\ pending' = pending \cup new
               /\ severity' = [i \in Ids |-> IF i \in new THEN s[i] ELSE severity[i]]
    BY <1>1 DEF Insert
  <2>2. severity' \in [Ids -> 0 .. 100]
    BY <2>1
  <2>3. \A i \in rows : severity'[i] = severity[i]
    BY <2>1
  <2> QED
    BY <1>1, <2>1, <2>2, <2>3 DEF Insert, ScoresAgree, Shown
<1>2. ASSUME NEW i \in Ids, NEW f \in BOOLEAN, i \in rows, Refresh(i, f),
             flagged' = [flagged EXCEPT ![i] = f],
             UNCHANGED <<rows, severity>>
      PROVE  /\ scored' \subseteq rows'
             /\ stored' \in [Ids -> 0 .. 100]
             /\ flagged' \in [Ids -> BOOLEAN]
             /\ ScoresAgree'
  <2>1. Priority(severity[i], f) \in 0 .. 100
    BY PriorityInRange
  <2> QED
    BY <1>2, <2>1 DEF Refresh, ScoresAgree, Shown
<1>3. ASSUME NEW i \in Ids, Score(i)
      PROVE  WorklistTypeOK' /\ ScoresAgree'
  <2>1. flagged' = [flagged EXCEPT ![i] = flagged[i]]
    BY <1>3 DEF Score
  <2> QED
    BY <1>2, <1>3, <2>1 DEF Score, Refresh
<1>4. ASSUME NEW i \in Ids, NEW f \in BOOLEAN, Assign(i, f)
      PROVE  WorklistTypeOK' /\ ScoresAgree'
  BY <1>2, <1>4 DEF Assign, Refresh
<1>5. ASSUME Strand \/ StartWalk \/ LastPage
      PROVE  WorklistTypeOK' /\ ScoresAgree'
  <2>1. CASE Strand
    BY <2>1 DEF Strand, ScoresAgree, Shown
  <2>2. CASE StartWalk
    BY <2>2 DEF StartWalk, ScoresAgree, Shown
  <2>3. CASE LastPage
    <3>1. cursor' \in (0 .. 100) \X Nat
      BY <2>3 DEF LastPage
    <3>2. repeated' \in BOOLEAN
      BY <2>3 DEF LastPage
    <3>3. UNCHANGED tableVars /\ UNCHANGED <<faults, changed, unsound>>
      BY <2>3 DEF LastPage
    <3>4. wpc' = "idle" /\ minimum' = 0 /\ started' = FALSE /\ listed' = {} /\ steady' = {}
      BY <2>3 DEF LastPage
    <3> QED
      BY <3>1, <3>2, <3>3, <3>4 DEF ScoresAgree, Shown
  <2> QED
    BY <1>5, <2>1, <2>2, <2>3
<1>6. ASSUME NextPage
      PROVE  WorklistTypeOK' /\ ScoresAgree'
  <2>1. PICK page \in SUBSET Remaining, last \in Remaining :
               /\ cursor' = <<Shown(last), last>>
               /\ unsound' = (unsound \/ last \notin scored)
               /\ listed' = listed \cup page
               /\ repeated' = (repeated \/ listed \cap page # {})
    BY <1>6 DEF NextPage
  <2>2. Shown(last) \in 0 .. 100
    BY PriorityInRange DEF Remaining, Shown
  <2> QED
    BY <1>6, <2>1, <2>2 DEF NextPage, Remaining, ScoresAgree, Shown
<1>7. ASSUME UNCHANGED vars
      PROVE  WorklistTypeOK' /\ ScoresAgree'
  BY <1>7 DEF vars, ScoresAgree, Shown
<1> QED
  BY <1>1, <1>3, <1>4, <1>5, <1>6, <1>7 DEF Next

(* The stored priority is the shown score wherever there is one, and all   *)
(* priorities are 0-100.                                                   *)
THEOREM PrioritiesAgree == Spec => [](WorklistTypeOK /\ ScoresAgree)
BY InitTypes, NextTypes, PTL DEF Spec

-----------------------------------------------------------------------------
(* Before is a strict order on pairs of numbers.                           *)
LEMMA BeforeStrict ==
  ASSUME NEW p \in Nat, NEW i \in Nat, NEW q \in Nat, NEW j \in Nat
  PROVE  /\ ~ Before(p, i, p, i)
         /\ Before(p, i, q, j) => ~ Before(q, j, p, i)
BY DEF Before

LEMMA BeforeTransitive ==
  ASSUME NEW p \in Nat, NEW i \in Nat, NEW q \in Nat, NEW j \in Nat,
         NEW r \in Nat, NEW k \in Nat, Before(p, i, q, j), Before(q, j, r, k)
  PROVE  Before(p, i, r, k)
BY DEF Before

(* What a report sorts by is a number, never above what it shows.          *)
LEMMA KeyBelowShown ==
  ASSUME WorklistTypeOK, ScoresAgree, NEW i \in rows
  PROVE  /\ SortKey(i) \in 0 .. 100
         /\ Shown(i) \in 0 .. 100
         /\ SortKey(i) <= Shown(i)
         /\ i \in scored => SortKey(i) = Shown(i)
<1>1. i \in Ids
  BY DEF WorklistTypeOK
<1>2. Shown(i) \in 0 .. 100
  BY <1>1, PriorityInRange DEF WorklistTypeOK, Shown
<1>3. CASE i \in scored
  BY <1>2, <1>3 DEF ScoresAgree, SortKey
<1>4. CASE i \notin scored
  BY <1>2, <1>4 DEF SortKey
<1> QED
  BY <1>2, <1>3, <1>4

(* Steps on the table leave the cursor alone; if they move no report that  *)
(* is steady, and move a listed one upwards only, the walk is as it was.   *)
LEMMA TableStep ==
  ASSUME WorklistTypeOK, WalkInv,
         UNCHANGED walkVars,
         steady' \subseteq steady, rows \subseteq rows',
         \A i \in steady' : SortKey(i)' = SortKey(i),
         ~ unsound' => ~ unsound /\ \A i \in listed : ~ PastCursor(i)'
  PROVE  WalkInv'
<1>1. ASSUME NEW i \in steady', i \notin listed
      PROVE  i \in Remaining'
  <2>1. i \in Remaining
    BY <1>1 DEF WalkInv
  <2>2. i \in rows' /\ SortKey(i)' >= minimum'
    BY <1>1, <2>1 DEF Remaining, Matches, walkVars
  <2>3. started' => Before(cursor[1]', cursor[2]', SortKey(i)', i)
    BY <1>1, <2>1 DEF Remaining, PastCursor, walkVars
  <2> QED
    BY <2>2, <2>3 DEF Remaining, Matches, PastCursor
<1>2. wpc' = "idle" => ~ started' /\ steady' = {}
  BY DEF WalkInv, walkVars
<1>3. ~ started' => listed' = {}
  BY DEF WalkInv, walkVars
<1>4. ~ unsound' => ~ repeated' /\ \A i \in listed' : ~ PastCursor(i)'
  BY DEF WalkInv, walkVars
<1> QED
  BY <1>1, <1>2, <1>3, <1>4 DEF WalkInv, walkVars

(* A further page: the cursor moves down past the page, past nothing else. *)
LEMMA PageStep ==
  ASSUME WorklistTypeOK, ScoresAgree, WalkInv, NextPage
  PROVE  WalkInv'
<1> USE WorklistAssumption DEF WorklistTypeOK
<1>1. PICK page \in SUBSET Remaining, last \in Remaining :
             /\ IsPage(page, Remaining)
             /\ last \in page
             /\ IsLast(last, page)
             /\ cursor' = <<Shown(last), last>>
             /\ unsound' = (unsound \/ last \notin scored)
             /\ listed' = listed \cup page
             /\ repeated' = (repeated \/ listed \cap page # {})
  BY DEF NextPage
<1>2. /\ UNCHANGED tableVars /\ UNCHANGED <<wpc, minimum, steady>>
      /\ started' = TRUE /\ wpc = "walking"
  BY DEF NextPage
<1>3. \A i \in rows : /\ SortKey(i) \in Nat /\ Shown(i) \in Nat /\ i \in Nat
                      /\ SortKey(i) <= Shown(i)
                      /\ i \in scored => SortKey(i) = Shown(i)
  BY KeyBelowShown
<1>4. \A i : SortKey(i)' = SortKey(i)
  BY <1>2 DEF SortKey, tableVars
<1>5. Remaining \subseteq rows
  BY DEF Remaining
<1>6. ASSUME NEW i \in steady', i \notin listed'
      PROVE  i \in Remaining'
  <2>1. i \in Remaining \ page
    BY <1>1, <1>2, <1>6 DEF WalkInv
  <2>2. Before(SortKey(last), last, SortKey(i), i)
    BY <1>1, <2>1 DEF IsPage
  <2>3. Before(Shown(last), last, SortKey(i), i)
    BY <1>1, <1>3, <1>5, <2>1, <2>2 DEF Before
  <2>4. PastCursor(i)'
    BY <1>1, <1>4, <2>3 DEF PastCursor
  <2>5. Matches(i)'
    BY <1>2, <1>4, <2>1 DEF Matches, Remaining, tableVars
  <2> QED
    BY <1>2, <1>5, <2>1, <2>4, <2>5 DEF Remaining, tableVars
<1>7. ASSUME ~ unsound'
      PROVE  ~ repeated' /\ \A i \in listed' : ~ PastCursor(i)'
  <2>1. ~ unsound /\ last \in scored
    BY <1>1, <1>7
  <2>2. ~ repeated /\ \A i \in listed : ~ PastCursor(i)
    BY <2>1 DEF WalkInv
  <2>3. ~ repeated'
    BY <1>1, <2>2 DEF Remaining
  <2>4. \A i : PastCursor(i)' <=> Before(SortKey(last), last, SortKey(i), i)
    BY <1>1, <1>2, <1>3, <1>4, <1>5, <2>1 DEF PastCursor
  <2>5. ASSUME NEW i \in page
        PROVE  ~ PastCursor(i)'
    BY <1>1, <1>3, <1>5, <2>4, BeforeStrict DEF IsLast
  <2>6. ASSUME NEW i \in listed
        PROVE  ~ PastCursor(i)'
    <3>1. started /\ ~ Before(cursor[1], cursor[2], SortKey(i), i)
      BY <2>2, <2>6 DEF PastCursor
    <3>2. Before(cursor[1], cursor[2], SortKey(last), last)
      BY <3>1 DEF Remaining, PastCursor
    <3>3. i \in rows /\ cursor[1] \in Nat /\ cursor[2] \in Nat
      BY <2>6
    <3> QED
      BY <1>3, <1>5, <2>4, <3>1, <3>2, <3>3, BeforeTransitive
  <2> QED
    BY <1>1, <2>3, <2>5, <2>6
<1> QED
  BY <1>2, <1>6, <1>7 DEF WalkInv

LEMMA NextWalk ==
  ASSUME WorklistTypeOK, ScoresAgree, WalkInv, [Next]_vars
  PROVE  WalkInv'
<1> USE WorklistAssumption DEF WorklistTypeOK, tableVars
<1>1. CASE Insert
  <2>1. /\ rows \subseteq rows' /\ UNCHANGED <<scored, stored, steady, unsound, walkVars>>
    BY <1>1 DEF Insert
  <2>2. \A i : SortKey(i)' = SortKey(i) /\ PastCursor(i)' = PastCursor(i)
    BY <2>1 DEF SortKey, PastCursor, walkVars
  <2> QED
    BY <2>1, <2>2, TableStep DEF WalkInv
<1>2. CASE \E i \in Ids : Score(i)
  <2>1. PICK i \in Ids : Score(i)
    BY <1>2
  <2>2. /\ i \in rows
        /\ UNCHANGED <<rows, severity, flagged, steady, unsound, walkVars>>
        /\ scored' = scored \cup {i}
        /\ stored' = [stored EXCEPT ![i] = Shown(i)]
    BY <2>1 DEF Score, Refresh, Shown
  <2>3. /\ \A j \in rows \ {i} : SortKey(j)' = SortKey(j)
        /\ SortKey(i)' = Shown(i)
    BY <2>2 DEF SortKey
  <2>4. \A j \in rows : /\ SortKey(j) \in Nat /\ SortKey(j)' \in Nat
                        /\ SortKey(j) <= SortKey(j)'
                        /\ j \in scored => SortKey(j)' = SortKey(j)
    BY <2>2, <2>3, KeyBelowShown
  <2>5. \A j \in listed : ~ PastCursor(j) => ~ PastCursor(j)'
    BY <2>2, <2>4 DEF PastCursor, Before, walkVars
  <2> QED
    BY <2>2, <2>4, <2>5, TableStep DEF WalkInv
<1>3. CASE \E i \in Ids, f \in BOOLEAN : Assign(i, f)
  <2>1. PICK i \in Ids, f \in BOOLEAN : Assign(i, f)
    BY <1>3
  <2>2. /\ UNCHANGED <<rows, walkVars>> /\ unsound' = TRUE
        /\ steady' = steady \ {i}
    BY <2>1 DEF Assign
  <2>3. \A j \in rows \ {i} : SortKey(j)' = SortKey(j)
    BY <2>1 DEF Assign, Refresh, SortKey
  <2> QED
    BY <2>2, <2>3, TableStep
<1>4. CASE Strand \/ UNCHANGED vars
  <2>1. UNCHANGED <<rows, scored, stored, steady, unsound, walkVars>>
    BY <1>4 DEF Strand, vars
  <2>2. \A i : SortKey(i)' = SortKey(i) /\ PastCursor(i)' = PastCursor(i)
    BY <2>1 DEF SortKey, PastCursor, walkVars
  <2> QED
    BY <2>1, <2>2, TableStep DEF WalkInv
<1>5. CASE StartWalk
  <2>1. /\ ~ started /\ listed = {} /\ started' = started /\ listed' = listed
        /\ UNCHANGED <<rows, scored, stored>> /\ wpc' = "walking"
        /\ steady' = {i \in scored : stored[i] >= minimum'}
        /\ repeated' = FALSE
    BY <1>5 DEF StartWalk, WalkInv
  <2>2. steady' \subseteq Remaining'
    BY <2>1 DEF Remaining, Matches, PastCursor, SortKey
  <2> QED
    BY <2>1, <2>2 DEF WalkInv
<1>6. CASE NextPage
  BY <1>6, PageStep
<1>7. CASE LastPage
  <2>1. /\ wpc' = "idle" /\ started' = FALSE /\ listed' = {} /\ steady' = {}
        /\ unsound' = unsound
        /\ repeated' = (repeated \/ listed \cap Remaining # {})
    BY <1>7 DEF LastPage
  <2>2. ~ unsound => ~ repeated /\ listed \cap Remaining = {}
    BY DEF WalkInv, Remaining
  <2> QED
    BY <2>1, <2>2 DEF WalkInv
<1> QED
  BY <1>1, <1>2, <1>3, <1>4, <1>5, <1>6, <1>7 DEF Next

LEMMA WalkInvariant == Spec => [](WorklistTypeOK /\ ScoresAgree /\ WalkInv)
<1>1. Init => WalkInv
  BY DEF Init, WalkInv
<1> QED
  BY <1>1, InitTypes, NextTypes, NextWalk, PTL DEF Spec

(* An export, or a client that follows next_cursor, misses no report that  *)
(* had its score when the walk began and was not assigned since, whatever  *)
(* the workers insert and score under it.                                  *)
THEOREM NothingIsSkipped == Spec => NothingSkipped
<1>1. WalkInv => [WalkOver => steady \subseteq listed \cup Remaining]_vars
  BY DEF WalkInv
<1> QED
  BY <1>1, WalkInvariant, PTL DEF NothingSkipped

(* Pages overlap only below a report without a stored priority, or after   *)
(* an assignment.                                                          *)
THEOREM PagesAreDisjoint == Spec => []RepeatNeedsUnscored
<1>1. WalkInv => RepeatNeedsUnscored
  BY DEF WalkInv, RepeatNeedsUnscored
<1> QED
  BY <1>1, WalkInvariant, PTL

-----------------------------------------------------------------------------
(* The filter compares the key, the page shows the score: the key is never *)
(* above the score.                                                        *)
LEMMA RemainingMeetsFilter ==
  WorklistTypeOK /\ ScoresAgree => \A i \in Remaining : Shown(i) >= minimum
BY KeyBelowShown DEF Remaining, Matches, WorklistTypeOK

(* Every report a priority_min query returns shows at least that priority. *)
THEOREM FilterIsKept == Spec => PageMeetsFilter
<1>1. ASSUME WorklistTypeOK, ScoresAgree, [Next]_vars
      PROVE  listed' \ listed \subseteq Remaining
  <2>1. CASE NextPage
    BY <2>1 DEF NextPage
  <2>2. CASE LastPage
    BY <2>2 DEF LastPage
  <2>3. CASE Insert \/ Strand \/ StartWalk \/ UNCHANGED vars
    BY <2>3 DEF Insert, Strand, StartWalk, walkVars, vars
  <2>4. CASE \E i \in Ids : Score(i) \/ \E f \in BOOLEAN : Assign(i, f)
    BY <2>4 DEF Score, Assign, walkVars
  <2> QED
    BY <1>1, <2>1, <2>2, <2>3, <2>4 DEF Next
<1>2. WorklistTypeOK /\ ScoresAgree /\ [Next]_vars =>
        [/\ \A i \in listed' \ listed : Shown(i) >= minimum
         /\ WalkOver => \A i \in Remaining : Shown(i) >= minimum]_vars
  BY <1>1, RemainingMeetsFilter
<1> QED
  BY <1>2, PrioritiesAgree, PTL DEF PageMeetsFilter, Spec
=============================================================================
