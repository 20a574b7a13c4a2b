------------------------------ MODULE Worklist ------------------------------
(***************************************************************************)
(* The ranked worklist: keyset paging over the stored priority, while      *)
(* workers insert and score reports and managers assign them.              *)
(*                                                                         *)
(* list_reports sorts and filters by reports.priority, a stored copy of    *)
(* the score that is NULL until save_reports has scored the report.  The   *)
(* cursor to the next page carries the score that is shown, computed when  *)
(* the page is read.  A walk follows next_cursor from the first page to    *)
(* the last, as the console, a client and the CSV export all do.           *)
(*                                                                         *)
(* The reports of the PostgreSQL backend have no date (the parser finds    *)
(* none) and no flight link (nothing calls db/linkage.py): the sort tuple  *)
(* is (priority, id), and of the score's terms the severity and the        *)
(* manager's flag vary.                                                    *)
(***************************************************************************)
EXTENDS Naturals, FiniteSets

CONSTANTS
  Ids,            \* report ids
  Severities,     \* severity of a report's worst hazard, in hundredths
  Minima,         \* values of the priority_min filter; 0 is "no filter"
  PageSize,
  MaxFaults       \* bound: workers that die before they have scored a report

ASSUME WorklistAssumption ==
  /\ Ids \subseteq Nat
  /\ Severities \subseteq 0 .. 100
  /\ Minima \subseteq Nat
  /\ PageSize \in Nat \ {0}
  /\ MaxFaults \in Nat

VARIABLES
  rows,           \* the reports in the table
  severity, flagged,
  scored,         \* the reports whose stored priority is not NULL
  stored,         \* reports.priority of those
  pending,        \* inserted, and a worker is about to score them
  faults,
  \* the walk
  wpc,            \* "idle" or "walking"
  minimum,        \* its priority_min
  started,        \* whether it has a cursor: not on the first page
  cursor,         \* <<priority, id>> of that cursor
  listed,         \* the reports on the pages so far
  \* what the properties remember of the walk
  repeated,       \* whether a report was on two of its pages
  steady,         \* scored and matching at its start, not assigned since
  changed,        \* whether the table has changed since its start
  unsound         \* whether a page ended on an unscored report, or an assignment
                  \* moved a report, since its start

tableVars == <<rows, severity, flagged, scored, stored, pending>>
walkVars  == <<wpc, minimum, started, cursor, listed, repeated>>
vars == <<tableVars, faults, walkVars, steady, changed, unsound>>

(* The types of the table and of the walk; priorities are 0-100.           *)
WorklistTypeOK ==
  /\ rows \subseteq Ids
  /\ severity \in [Ids -> 0 .. 100]
  /\ flagged \in [Ids -> BOOLEAN]
  /\ scored \subseteq rows
  /\ stored \in [Ids -> 0 .. 100]
  /\ pending \subseteq rows
  /\ faults \in 0 .. MaxFaults
  /\ wpc \in {"idle", "walking"}
  /\ minimum \in Nat
  /\ started \in BOOLEAN
  /\ cursor \in (0 .. 100) \X Nat
  /\ listed \subseteq rows
  /\ repeated \in BOOLEAN
  /\ steady \subseteq scored
  /\ changed \in BOOLEAN
  /\ unsound \in BOOLEAN

Init ==
  /\ rows = {}
  /\ severity = [i \in Ids |-> 0]
  /\ flagged = [i \in Ids |-> FALSE]
  /\ scored = {}
  /\ stored = [i \in Ids |-> 0]
  /\ pending = {}
  /\ faults = 0
  /\ wpc = "idle"
  /\ minimum = 0
  /\ started = FALSE
  /\ cursor = <<0, 0>>
  /\ listed = {}
  /\ repeated = FALSE
  /\ steady = {}
  /\ changed = FALSE
  /\ unsound = FALSE

-----------------------------------------------------------------------------
(* ranking.priority for an undated report without a link: 45 points for    *)
(* severity 1.00 and 10 for the flag, rounded.  The 0.0009 points of the   *)
(* recency term turn every tie upwards, in Python and in SQL.              *)
Priority(s, f) == ((45 * s + 50) \div 100) + (IF f THEN 10 ELSE 0)

(* The priority that is shown, and the one list_reports sorts by.          *)
Shown(i)   == Priority(severity[i], flagged[i])
SortKey(i) == IF i \in scored THEN stored[i] ELSE 0

(* (p, i) comes strictly before (q, j): descending on both.                *)
Before(p, i, q, j) == p > q \/ (p = q /\ i > j)

-----------------------------------------------------------------------------
(* save_reports, first transaction: the new reports of one document.       *)
Insert ==
  \E new \in SUBSET (Ids \ rows) \ {{}} :
    /\ rows' = rows \cup new
    /\ pending' = pending \cup new
    /\ \E s \in [new -> Severities] :
         severity' = [i \in Ids |-> IF i \in new THEN s[i] ELSE severity[i]]
    /\ changed' = TRUE
    /\ UNCHANGED <<flagged, scored, stored, faults, walkVars, steady, unsound>>

(* refresh_priorities for one report.                                      *)
Refresh(i, f) ==
  /\ scored' = scored \cup {i}
  /\ stored' = [stored EXCEPT ![i] = Priority(severity[i], f)]

(* save_reports, the scoring loop.                                         *)
Score(i) ==
  /\ i \in pending
  /\ Refresh(i, flagged[i])
  /\ pending' = pending \ {i}
  /\ changed' = TRUE
  /\ UNCHANGED <<rows, severity, flagged, faults, walkVars, steady, unsound>>

(* A worker dies between the insert and the scoring of some reports.       *)
Strand ==
  /\ faults < MaxFaults
  /\ faults' = faults + 1
  /\ \E lost \in SUBSET pending \ {{}} : pending' = pending \ lost
  /\ UNCHANGED <<rows, severity, flagged, scored, stored, walkVars, steady, changed, unsound>>

(* assign: the flag and the refresh, in one transaction.  Variant: the     *)
(* refresh forgotten.                                                      *)
AssignUnrefreshed(i, f) ==
  /\ i \in rows
  /\ flagged' = [flagged EXCEPT ![i] = f]
  /\ steady' = steady \ {i}
  /\ changed' = TRUE
  /\ unsound' = TRUE
  /\ UNCHANGED <<rows, severity, scored, stored, pending, faults, walkVars>>

Assign(i, f) ==
  /\ i \in rows
  /\ flagged' = [flagged EXCEPT ![i] = f]
  /\ Refresh(i, f)
  /\ steady' = steady \ {i}
  /\ changed' = TRUE
  /\ unsound' = TRUE
  /\ UNCHANGED <<rows, severity, pending, faults, walkVars>>

-----------------------------------------------------------------------------
(* The WHERE of list_reports.  Variants: no filter; a cursor that compares *)
(* priorities only; a cursor that is not strict.                           *)
MatchesAll(i) == i \in rows
Matches(i) == i \in rows /\ SortKey(i) >= minimum

PastCursorByPriority(i) == started => SortKey(i) < cursor[1]
PastCursorOrAt(i) ==
  started => Before(cursor[1], cursor[2], SortKey(i), i) \/ cursor = <<SortKey(i), i>>
PastCursor(i) == started => Before(cursor[1], cursor[2], SortKey(i), i)

(* The rows the query could return, were it not for its LIMIT.             *)
Remaining == {i \in rows : Matches(i) /\ PastCursor(i)}

(* A new walk, with a filter of its own.                                   *)
StartWalk ==
  /\ wpc = "idle"
  /\ wpc' = "walking"
  /\ \E m \in Minima :
       /\ minimum' = m
       /\ steady' = {i \in scored : stored[i] >= m}
  /\ repeated' = FALSE
  /\ changed' = FALSE
  /\ unsound' = FALSE
  /\ UNCHANGED <<tableVars, faults, started, cursor, listed>>

(* page is a full page off the top of rest, and last its last row.         *)
IsPage(page, rest) ==
  /\ Cardinality(page) = PageSize
  /\ \A i \in page, j \in rest \ page : Before(SortKey(i), i, SortKey(j), j)
IsLast(last, page) ==
  \A i \in page \ {last} : Before(SortKey(i), i, SortKey(last), last)

(* There are more rows than one page holds: next_cursor is made of the     *)
(* shown priority of the last row on the page.                             *)
NextPage ==
  LET rest == Remaining IN
  /\ wpc = "walking"
  /\ Cardinality(rest) > PageSize
  /\ \E page \in SUBSET rest, last \in rest :
       /\ IsPage(page, rest)
       /\ last \in page
       /\ IsLast(last, page)
       /\ cursor' = <<Shown(last), last>>
       /\ unsound' = (unsound \/ last \notin scored)
       /\ listed' = listed \cup page
       /\ repeated' = (repeated \/ listed \cap page # {})
  /\ started' = TRUE
  /\ UNCHANGED <<tableVars, faults, wpc, minimum, steady, changed>>

(* The last page has no next_cursor: the walk is over.                     *)
LastPage ==
  LET rest == Remaining IN
  /\ wpc = "walking"
  /\ Cardinality(rest) <= PageSize
  /\ wpc' = "idle"
  /\ repeated' = (repeated \/ listed \cap rest # {})
  /\ minimum' = 0
  /\ started' = FALSE
  /\ cursor' = <<0, 0>>
  /\ listed' = {}
  /\ steady' = {}
  /\ UNCHANGED <<tableVars, faults, changed, unsound>>

Next ==
  \/ Insert
  \/ Strand
  \/ \E i \in Ids : Score(i)
  \/ \E i \in Ids, f \in BOOLEAN : Assign(i, f)
  \/ StartWalk
  \/ NextPage
  \/ LastPage

Spec == Init /\ [][Next]_vars

(* An export asks for page after page, and a worker that is in the scoring *)
(* loop goes on.  Nobody has to insert, to assign or to start a walk.      *)
FairSpec ==
  /\ Spec
  /\ WF_vars(NextPage \/ LastPage)
  /\ \A i \in Ids : WF_vars(Score(i))

-----------------------------------------------------------------------------
(***************************************************************************)
(* Properties.                                                             *)
(***************************************************************************)

(* The stored priority, where there is one, is the score that is shown:    *)
(* scoring and assigning, in any order, never leave an old one behind.     *)
ScoresAgree == \A i \in scored : stored[i] = Shown(i)

(* The step that reads the last page.                                      *)
WalkOver == wpc = "walking" /\ wpc' = "idle"

(* A walk misses no report that was scored and matched when the walk began *)
(* and was not assigned since, whatever is inserted or scored meanwhile.   *)
NothingSkipped == [][WalkOver => steady \subseteq listed \cup Remaining]_vars

(* A walk lists a report twice only if an assignment moved a report, or a  *)
(* page ended on a report without a stored priority.                       *)
RepeatNeedsUnscored == repeated => unsound

(* What makes both inductive: while a walk is under way its unlisted steady *)
(* reports still lie ahead of the cursor, and in a sound walk the listed   *)
(* ones lie behind it.                                                     *)
WalkInv ==
  /\ wpc = "idle" => ~ started /\ steady = {}
  /\ ~ started => listed = {}
  /\ steady \subseteq listed \cup Remaining
  /\ ~ unsound => /\ ~ repeated
                  /\ \A i \in listed : ~ PastCursor(i)

(* Every report on a page with a priority_min filter shows at least that   *)
(* priority.                                                               *)
PageMeetsFilter ==
  [][/\ \A i \in listed' \ listed : Shown(i) >= minimum
     /\ WalkOver => \A i \in Remaining : Shown(i) >= minimum]_vars

(* An export ends, as long as no worker leaves a report unscored.          *)
WalkEnds == wpc = "walking" ~> (wpc = "idle" \/ faults > 0)

(* A walk over a table that does not change lists every report once.       *)
EachListedOnce == ~ changed => ~ repeated
=============================================================================
