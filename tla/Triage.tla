------------------------------- MODULE Triage -------------------------------
(***************************************************************************)
(* Dispositions and assignments of one report by concurrent requests.      *)
(*                                                                         *)
(* disposition checks the assignee in one session and writes in another.   *)
(* assign reads the row, sets two attributes and flushes: the UPDATE       *)
(* carries the columns that differ from what was read.  A session sees     *)
(* what is committed and takes the row's lock with its first UPDATE; the   *)
(* ids of dispositions come from a sequence, outside of any transaction.   *)
(* Reports are independent of each other here: the model has one.          *)
(***************************************************************************)
EXTENDS Naturals, FiniteSets

CONSTANTS
  Requests,       \* requests that can be in flight at a time
  Analysts, Managers,   \* by role; an admin is a manager
  Assignees,      \* users that assignments name
  States,         \* states a disposition can ask for
  NewState,       \* the state of a report nobody disposed of
  Nobody,         \* assigned_to is NULL
  NoRequest,
  MaxIds          \* bound: ids the dispositions use up

ASSUME TriageAssumption ==
  /\ Analysts \cap Managers = {}
  /\ Nobody \notin Analysts \cup Managers
  /\ Assignees \subseteq Analysts \cup Managers
  /\ NoRequest \notin Requests
  /\ MaxIds \in Nat

Users == Analysts \cup Managers

VARIABLES
  state, assignee, flagged,   \* the row of the report
  scoredFlag,     \* the flag its stored priority was computed with
  dispositions,
  nextId,         \* the sequence behind dispositions.id
  lock,           \* the request whose session holds the lock of the row
  pc,             \* where a request is
  by, asked,      \* its principal and its body
  seen,           \* what assign read: <<assignee, flagged>>
  ticket,         \* the id of the disposition it has inserted, 0 before
  \* what the properties remember
  overtaken,      \* whether an assignment was committed during the request
  usurped,        \* overtaken, for each disposition of another's report
  lastAsked       \* what the last assignment asked for, if none overtook it

rowVars == <<state, assignee, flagged, scoredFlag>>
requestVars == <<pc, by, asked, seen, ticket>>
vars == <<rowVars, dispositions, nextId, lock, requestVars, overtaken, usurped, lastAsked>>

Assignments == [assignee : Assignees, flagged : BOOLEAN]

(* The types; and the row is locked only by a session that is about to     *)
(* commit.                                                                 *)
TriageTypeOK ==
  /\ state \in States \cup {NewState}
  /\ assignee \in Users \cup {Nobody}
  /\ flagged \in BOOLEAN /\ scoredFlag \in BOOLEAN
  /\ dispositions \subseteq [id : Nat, state : States]
  /\ nextId \in Nat
  /\ lock # NoRequest => lock \in Requests /\ pc[lock] = "commit"
  /\ pc \in [Requests -> {"idle", "update", "commit", "assign"}]
  /\ by \in [Requests -> Users \cup {Nobody}]
  /\ asked \in [Requests -> States \cup Assignments \cup {Nobody}]
  /\ \A q \in Requests :
       /\ pc[q] \in {"update", "commit"} => asked[q] \in States /\ by[q] \in Users
       /\ pc[q] = "assign" => asked[q] \in Assignments /\ by[q] \in Managers
  /\ seen \in [Requests -> (Users \cup {Nobody}) \X BOOLEAN]
  /\ ticket \in [Requests -> Nat]
  /\ overtaken \in [Requests -> BOOLEAN]
  /\ usurped \subseteq BOOLEAN
  /\ lastAsked \in Assignments \cup {Nobody}

Init ==
  /\ state = NewState
  /\ assignee = Nobody
  /\ flagged = FALSE
  /\ scoredFlag = FALSE
  /\ dispositions = {}
  /\ nextId = 1
  /\ lock = NoRequest
  /\ pc = [q \in Requests |-> "idle"]
  /\ by = [q \in Requests |-> Nobody]
  /\ asked = [q \in Requests |-> Nobody]
  /\ seen = [q \in Requests |-> <<Nobody, FALSE>>]
  /\ ticket = [q \in Requests |-> 0]
  /\ overtaken = [q \in Requests |-> FALSE]
  /\ usurped = {}
  /\ lastAsked = Nobody

-----------------------------------------------------------------------------
(* A request begins, or is over: committed, or rolled back.  Variant: the  *)
(* session is not closed and keeps its lock.                               *)
Begins(q, u, body, at) ==
  /\ pc[q] = "idle"
  /\ pc' = [pc EXCEPT ![q] = at]
  /\ by' = [by EXCEPT ![q] = u]
  /\ asked' = [asked EXCEPT ![q] = body]

EndsUnclosed(q) ==
  /\ pc' = [pc EXCEPT ![q] = "idle"]
  /\ by' = [by EXCEPT ![q] = Nobody]
  /\ asked' = [asked EXCEPT ![q] = Nobody]
  /\ seen' = [seen EXCEPT ![q] = <<Nobody, FALSE>>]
  /\ ticket' = [ticket EXCEPT ![q] = 0]
  /\ UNCHANGED lock

Ends(q) ==
  /\ pc' = [pc EXCEPT ![q] = "idle"]
  /\ by' = [by EXCEPT ![q] = Nobody]
  /\ asked' = [asked EXCEPT ![q] = Nobody]
  /\ seen' = [seen EXCEPT ![q] = <<Nobody, FALSE>>]
  /\ ticket' = [ticket EXCEPT ![q] = 0]
  /\ lock' = IF lock = q THEN NoRequest ELSE lock

-----------------------------------------------------------------------------
(* The check of disposition.  A refused request changes nothing.  Variant: *)
(* the assignee is not looked at.                                          *)
MayDisposeAnything(u) == u \in Users
MayDispose(u) == u \in Managers \/ assignee \in {Nobody, u}

(* MaxIds is the bound on ids.                                             *)
CheckDisposition(q) ==
  /\ nextId + Cardinality({p \in Requests : pc[p] = "update"}) <= MaxIds
  /\ \E u \in Users, s \in States : MayDispose(u) /\ Begins(q, u, s, "update")
  /\ UNCHANGED <<rowVars, dispositions, nextId, lock, seen, ticket, overtaken, usurped, lastAsked>>

(* add_disposition: with autoflush off, the UPDATE of the report comes     *)
(* first, and the INSERT takes its id under the lock of the row.  Variant: *)
(* autoflush inserts before the UPDATE.                                    *)
UpdateStateAutoflush(q) ==
  /\ pc[q] = "update"
  /\ \/ /\ ticket[q] = 0
        /\ ticket' = [ticket EXCEPT ![q] = nextId]
        /\ nextId' = nextId + 1
        /\ UNCHANGED <<lock, pc>>
     \/ /\ ticket[q] # 0
        /\ lock = NoRequest
        /\ lock' = q
        /\ pc' = [pc EXCEPT ![q] = "commit"]
        /\ UNCHANGED <<ticket, nextId>>
  /\ UNCHANGED <<rowVars, dispositions, by, asked, seen, overtaken, usurped, lastAsked>>

UpdateState(q) ==
  /\ pc[q] = "update"
  /\ lock = NoRequest
  /\ lock' = q
  /\ ticket' = [ticket EXCEPT ![q] = nextId]
  /\ nextId' = nextId + 1
  /\ pc' = [pc EXCEPT ![q] = "commit"]
  /\ UNCHANGED <<rowVars, dispositions, by, asked, seen, overtaken, usurped, lastAsked>>

CommitDisposition(q) ==
  /\ pc[q] = "commit"
  /\ state' = asked[q]
  /\ dispositions' = dispositions \cup {[id |-> ticket[q], state |-> asked[q]]}
  /\ usurped' = usurped \cup
       {v \in {overtaken[q]} : by[q] \in Analysts /\ assignee \notin {Nobody, by[q]}}
  /\ overtaken' = [overtaken EXCEPT ![q] = FALSE]
  /\ Ends(q)
  /\ UNCHANGED <<assignee, flagged, scoredFlag, nextId, lastAsked>>

-----------------------------------------------------------------------------
(* assign reads the row.                                                   *)
ReadForAssign(q) ==
  /\ \E u \in Managers, a \in Assignments : Begins(q, u, a, "assign")
  /\ seen' = [seen EXCEPT ![q] = <<assignee, flagged>>]
  /\ UNCHANGED <<rowVars, dispositions, nextId, lock, ticket, overtaken, usurped, lastAsked>>

(* The flush: a column that does not differ from what was read is not      *)
(* written.  Variant: the flag is only ever set.                           *)
FlushedFlagSet(q) == flagged \/ asked[q].flagged
FlushedFlag(q) == IF asked[q].flagged = seen[q][2] THEN flagged ELSE asked[q].flagged
FlushedAssignee(q) ==
  IF asked[q].assignee = seen[q][1] THEN assignee ELSE asked[q].assignee

(* The flag that refresh_priorities reads: the row's, not the request's.   *)
(* Variant: the request's.                                                 *)
RefreshedFlagOfRequest(q) == asked[q].flagged
RefreshedFlag(q) == FlushedFlag(q)

(* Flush, refresh and commit: others see all of it or nothing.             *)
CommitAssign(q) ==
  /\ pc[q] = "assign"
  /\ lock = NoRequest
  /\ assignee' = FlushedAssignee(q)
  /\ flagged' = FlushedFlag(q)
  /\ scoredFlag' = RefreshedFlag(q)
  /\ Ends(q)
  /\ overtaken' = [p \in Requests |-> p # q /\ pc[p] # "idle"]
  /\ lastAsked' = IF overtaken[q] THEN Nobody ELSE asked[q]
  /\ UNCHANGED <<state, dispositions, nextId, usurped>>

(* The request fails, or its process dies, and the session is rolled back. *)
Fail(q) ==
  /\ pc[q] # "idle"
  /\ overtaken' = [overtaken EXCEPT ![q] = FALSE]
  /\ Ends(q)
  /\ UNCHANGED <<rowVars, dispositions, nextId, usurped, lastAsked>>

Next ==
  \E q \in Requests :
    \/ CheckDisposition(q)
    \/ UpdateState(q)
    \/ CommitDisposition(q)
    \/ ReadForAssign(q)
    \/ CommitAssign(q)
    \/ Fail(q)

Spec == Init /\ [][Next]_vars

(* A request that has begun goes on; PostgreSQL grants a row's lock in the *)
(* order of the waiters.  Nothing has to begin or to fail.                 *)
FairSpec ==
  /\ Spec
  /\ \A q \in Requests : /\ SF_vars(UpdateState(q))
                         /\ WF_vars(CommitDisposition(q))
                         /\ SF_vars(CommitAssign(q))

-----------------------------------------------------------------------------
(***************************************************************************)
(* Properties.                                                             *)
(***************************************************************************)

(* The report's state is what its latest disposition says, in the order of *)
(* their ids, however requests overlap, wait or fail.                      *)
StateIsLastDisposition ==
  /\ dispositions = {} => state = NewState
  /\ \A d \in dispositions :
       (\A e \in dispositions : e.id <= d.id) => state = d.state

(* An analyst's disposition of another's report takes an assignment that   *)
(* was committed after the check.                                          *)
UsurpingNeedsOvertaking == usurped \subseteq {TRUE}

(* An analyst disposes of their own reports, or of nobody's.               *)
OnlyOwnReports == usurped = {}

(* The report is assigned and flagged as the last assignment asked, unless *)
(* another one was committed while that one was under way.                 *)
AssignedAsAsked ==
  lastAsked # Nobody => lastAsked = [assignee |-> assignee, flagged |-> flagged]

(* What makes these inductive: until an assignment overtakes it, a request *)
(* acts on what is still true, and the session that holds the row's lock   *)
(* has the latest id.                                                      *)
TriageInv ==
  /\ \A q \in Requests : pc[q] = "assign" /\ ~ overtaken[q] => seen[q] = <<assignee, flagged>>
  /\ \A q \in Requests :
       pc[q] \in {"update", "commit"} /\ ~ overtaken[q] => MayDispose(by[q])
  /\ \A q \in Requests :
       pc[q] = "commit" => /\ lock = q
                          /\ ticket[q] < nextId
                          /\ \A d \in dispositions : d.id < ticket[q]
  /\ \A d \in dispositions : d.id < nextId

(* The stored priority is the one for the row's flag, also after two       *)
(* assignments that were under way together.                               *)
PriorityFollowsFlag == scoredFlag = flagged

(* No request waits for the row for ever.                                  *)
RequestsEnd == \A q \in Requests : pc[q] # "idle" ~> pc[q] = "idle"
=============================================================================
