---------------------------- MODULE TriageProofs ----------------------------
(***************************************************************************)
(* Theorems about Triage, for any requests, users and states.              *)
(***************************************************************************)
EXTENDS Triage, TLAPS

LEMMA InitTriageTypes == Init => TriageTypeOK
<1> SUFFICES ASSUME Init
             PROVE  TriageTypeOK
  OBVIOUS
<1>1. /\ state \in States \cup {NewState}
      /\ assignee \in Users \cup {Nobody}
      /\ flagged \in BOOLEAN /\ scoredFlag \in BOOLEAN
      /\ dispositions = {} /\ nextId \in Nat /\ lock = NoRequest
      /\ usurped = {} /\ lastAsked = Nobody
  BY DEF Init
<1>2. /\ pc \in [Requests -> {"idle", "update", "commit", "assign"}]
      /\ by \in [Requests -> Users \cup {Nobody}]
      /\ asked \in [Requests -> States \cup Assignments \cup {Nobody}]
      /\ ticket \in [Requests -> Nat]
      /\ overtaken \in [Requests -> BOOLEAN]
      /\ \A q \in Requests : pc[q] = "idle"
  BY DEF Init
<1>3. seen \in [Requests -> (Users \cup {Nobody}) \X BOOLEAN]
  BY DEF Init
<1> QED
  BY <1>1, <1>2, <1>3 DEF TriageTypeOK

(* Whoever locks the row is about to commit, and whoever ends unlocks it.  *)
LEMMA NextTriageTypes == TriageTypeOK /\ [Next]_vars => TriageTypeOK'
<1> SUFFICES ASSUME TriageTypeOK, [Next]_vars
             PROVE  TriageTypeOK'
  OBVIOUS
<1> USE TriageAssumption DEF TriageTypeOK, rowVars, requestVars
<1>1. ASSUME NEW q \in Requests, CheckDisposition(q)
      PROVE  TriageTypeOK'
  <2>1. PICK u \in Users, s \in States : Begins(q, u, s, "update")
    BY <1>1 DEF CheckDisposition
  <2> QED
    BY <1>1, <2>1 DEF CheckDisposition, Begins
<1>2. ASSUME NEW q \in Requests, UpdateState(q)
      PROVE  TriageTypeOK'
  BY <1>2 DEF UpdateState
<1>3. ASSUME NEW q \in Requests, CommitDisposition(q)
      PROVE  TriageTypeOK'
  <2>1. asked[q] \in States /\ ticket[q] \in Nat /\ overtaken[q] \in BOOLEAN
    BY <1>3 DEF CommitDisposition
  <2>2. /\ dispositions' \subseteq [id : Nat, state : States]
        /\ state' \in States
    BY <1>3, <2>1 DEF CommitDisposition
  <2>3. usurped' \subseteq BOOLEAN
    BY <1>3, <2>1 DEF CommitDisposition
  <2> QED
    BY <1>3, <2>2, <2>3 DEF CommitDisposition, Ends
<1>4. ASSUME NEW q \in Requests, ReadForAssign(q)
      PROVE  TriageTypeOK'
  <2>1. PICK u \in Managers, a \in Assignments : Begins(q, u, a, "assign")
    BY <1>4 DEF ReadForAssign
  <2> QED
    BY <1>4, <2>1 DEF ReadForAssign, Begins, Users
<1>5. ASSUME NEW q \in Requests, CommitAssign(q)
      PROVE  TriageTypeOK'
  <2>1. asked[q].assignee \in Users /\ asked[q].flagged \in BOOLEAN
    BY <1>5 DEF CommitAssign, Assignments, Users
  <2>2. /\ FlushedAssignee(q) \in Users \cup {Nobody}
        /\ FlushedFlag(q) \in BOOLEAN
    BY <2>1 DEF FlushedAssignee, FlushedFlag
  <2> QED
    BY <1>5, <2>2 DEF CommitAssign, Ends, RefreshedFlag
<1>6. ASSUME NEW q \in Requests, Fail(q)
      PROVE  TriageTypeOK'
  BY <1>6 DEF Fail, Ends
<1>7. CASE UNCHANGED vars
  BY <1>7 DEF vars
<1> QED
  BY <1>1, <1>2, <1>3, <1>4, <1>5, <1>6, <1>7 DEF Next

(* The types hold, and the lock of the row is never left behind.           *)
THEOREM TriageTypes == Spec => []TriageTypeOK
BY InitTriageTypes, NextTriageTypes, PTL DEF Spec

-----------------------------------------------------------------------------
(* An assignment that nobody overtook writes what it asks for: what it     *)
(* leaves out of its UPDATE is there already.                              *)
LEMMA FlushWritesAll ==
  ASSUME TriageTypeOK, TriageInv, NEW q \in Requests, pc[q] = "assign", ~ overtaken[q]
  PROVE  /\ FlushedAssignee(q) = asked[q].assignee
         /\ FlushedFlag(q) = asked[q].flagged
BY DEF TriageInv, FlushedAssignee, FlushedFlag

LEMMA InitTriageInv ==
  Init => TriageInv /\ StateIsLastDisposition /\ UsurpingNeedsOvertaking
            /\ AssignedAsAsked /\ PriorityFollowsFlag
BY DEF Init, TriageInv, StateIsLastDisposition, UsurpingNeedsOvertaking, AssignedAsAsked,
       PriorityFollowsFlag

(* Until an assignment overtakes it, a request acts on what is still true, *)
(* and the ids under the lock of the row come in the order of the commits. *)
LEMMA NextTriageInv ==
  TriageTypeOK /\ TriageInv /\ [Next]_vars => TriageInv'
<1> SUFFICES ASSUME TriageTypeOK, TriageInv, [Next]_vars
             PROVE  TriageInv'
  OBVIOUS
<1> USE TriageAssumption DEF TriageTypeOK, TriageInv, rowVars, requestVars, MayDispose
<1>1. ASSUME NEW q \in Requests, CheckDisposition(q)
      PROVE  TriageInv'
  <2>1. PICK u \in Users, s \in States : MayDispose(u) /\ Begins(q, u, s, "update")
    BY <1>1 DEF CheckDisposition
  <2> QED
    BY <1>1, <2>1 DEF CheckDisposition, Begins
<1>2. ASSUME NEW q \in Requests, UpdateState(q)
      PROVE  TriageInv'
  <2>1. \A p \in Requests : pc[p] # "commit"
    BY <1>2 DEF UpdateState
  <2> QED
    BY <1>2, <2>1 DEF UpdateState
<1>3. ASSUME NEW q \in Requests, CommitDisposition(q)
      PROVE  TriageInv'
  <2>1. \A p \in Requests \ {q} : pc[p] # "commit"
    BY <1>3 DEF CommitDisposition
  <2>2. \A d \in dispositions' : d \in dispositions \/ d.id = ticket[q]
    BY <1>3 DEF CommitDisposition
  <2> QED
    BY <1>3, <2>1, <2>2 DEF CommitDisposition, Ends
<1>4. ASSUME NEW q \in Requests, ReadForAssign(q)
      PROVE  TriageInv'
  <2>1. PICK u \in Managers, a \in Assignments : Begins(q, u, a, "assign")
    BY <1>4 DEF ReadForAssign
  <2> QED
    BY <1>4, <2>1 DEF ReadForAssign, Begins
<1>5. ASSUME NEW q \in Requests, CommitAssign(q)
      PROVE  TriageInv'
  <2>1. \A p \in Requests : pc[p] # "commit"
    BY <1>5 DEF CommitAssign
  <2>2. \A p \in Requests : pc'[p] = "idle" \/ overtaken'[p]
    BY <1>5 DEF CommitAssign, Ends
  <2> QED
    BY <1>5, <2>1, <2>2 DEF CommitAssign, Ends
<1>6. ASSUME NEW q \in Requests, Fail(q)
      PROVE  TriageInv'
  BY <1>6 DEF Fail, Ends
<1>7. CASE UNCHANGED vars
  BY <1>7 DEF vars
<1> QED
  BY <1>1, <1>2, <1>3, <1>4, <1>5, <1>6, <1>7 DEF Next

LEMMA TriageInvariant == Spec => [](TriageTypeOK /\ TriageInv)
BY InitTriageTypes, NextTriageTypes, InitTriageInv, NextTriageInv, PTL DEF Spec

(* Steps that commit nothing.                                              *)
LEMMA OnlyCommitsWrite ==
  ASSUME [Next]_vars
  PROVE  \/ \E q \in Requests : CommitDisposition(q) \/ CommitAssign(q)
         \/ UNCHANGED <<rowVars, dispositions, usurped, lastAsked>>
BY DEF Next, vars, CheckDisposition, UpdateState, ReadForAssign, Fail

-----------------------------------------------------------------------------
(* A report's state is the one of its latest disposition: the UPDATE that  *)
(* takes the row's lock comes before the INSERT that takes the id.         *)
THEOREM StateFollowsDispositions == Spec => []StateIsLastDisposition
<1>1. TriageTypeOK /\ TriageInv /\ StateIsLastDisposition /\ [Next]_vars
        => StateIsLastDisposition'
  <2> SUFFICES ASSUME TriageTypeOK, TriageInv, StateIsLastDisposition, [Next]_vars
               PROVE  StateIsLastDisposition'
    OBVIOUS
  <2>1. ASSUME NEW q \in Requests, CommitDisposition(q)
        PROVE  StateIsLastDisposition'
    <3> DEFINE new == [id |-> ticket[q], state |-> asked[q]]
    <3>1. /\ dispositions' = dispositions \cup {new}
          /\ state' = new.state
          /\ new.id \in Nat
          /\ \A d \in dispositions : d.id \in Nat /\ d.id < new.id
      BY <2>1 DEF CommitDisposition, TriageTypeOK, TriageInv
    <3> HIDE DEF new
    <3> QED
      BY <3>1 DEF StateIsLastDisposition
  <2>2. ASSUME NEW q \in Requests, CommitAssign(q)
        PROVE  StateIsLastDisposition'
    BY <2>2 DEF CommitAssign, StateIsLastDisposition
  <2>3. CASE UNCHANGED <<rowVars, dispositions, usurped, lastAsked>>
    BY <2>3 DEF rowVars, StateIsLastDisposition
  <2> QED
    BY <2>1, <2>2, <2>3, OnlyCommitsWrite
<1> QED
  BY <1>1, InitTriageInv, TriageInvariant, PTL DEF Spec

(* An analyst disposes of another's report only if an assignment was       *)
(* committed between the check of the request and its commit.              *)
THEOREM OnlyOvertakenUsurp == Spec => []UsurpingNeedsOvertaking
<1>1. TriageTypeOK /\ TriageInv /\ UsurpingNeedsOvertaking /\ [Next]_vars
        => UsurpingNeedsOvertaking'
  <2> SUFFICES ASSUME TriageTypeOK, TriageInv, UsurpingNeedsOvertaking, [Next]_vars
               PROVE  UsurpingNeedsOvertaking'
    OBVIOUS
  <2>1. ASSUME NEW q \in Requests, CommitDisposition(q)
        PROVE  UsurpingNeedsOvertaking'
    <3>1. overtaken[q] \in BOOLEAN /\ pc[q] = "commit"
      BY <2>1 DEF CommitDisposition, TriageTypeOK
    <3>2. overtaken[q] \/ by[q] \in Managers \/ assignee \in {Nobody, by[q]}
      BY <3>1 DEF TriageInv, MayDispose
    <3>3. ASSUME by[q] \in Analysts, assignee \notin {Nobody, by[q]}
          PROVE  overtaken[q] = TRUE
      BY <3>1, <3>2, <3>3, TriageAssumption
    <3>4. usurped' = usurped \cup
            {v \in {overtaken[q]} : by[q] \in Analysts /\ assignee \notin {Nobody, by[q]}}
      BY <2>1 DEF CommitDisposition
    <3>5. \A v \in usurped' : v \in usurped \/ v = TRUE
      BY <3>3, <3>4
    <3> QED
      BY <3>5 DEF UsurpingNeedsOvertaking
  <2>2. ASSUME NEW q \in Requests, CommitAssign(q)
        PROVE  UsurpingNeedsOvertaking'
    BY <2>2 DEF CommitAssign, UsurpingNeedsOvertaking
  <2>3. CASE UNCHANGED <<rowVars, dispositions, usurped, lastAsked>>
    BY <2>3 DEF UsurpingNeedsOvertaking
  <2> QED
    BY <2>1, <2>2, <2>3, OnlyCommitsWrite
<1> QED
  BY <1>1, InitTriageInv, TriageInvariant, PTL DEF Spec

(* An assignment that no other overtakes does all that it asks, and the    *)
(* stored priority follows the flag even when one does.                    *)
THEOREM AssignmentsTakeEffect == Spec => [](AssignedAsAsked /\ PriorityFollowsFlag)
<1>1. TriageTypeOK /\ TriageInv /\ AssignedAsAsked /\ PriorityFollowsFlag /\ [Next]_vars
        => AssignedAsAsked' /\ PriorityFollowsFlag'
  <2> SUFFICES ASSUME TriageTypeOK, TriageInv, AssignedAsAsked, PriorityFollowsFlag,
                      [Next]_vars
               PROVE  AssignedAsAsked' /\ PriorityFollowsFlag'
    OBVIOUS
  <2>1. ASSUME NEW q \in Requests, CommitDisposition(q)
        PROVE  AssignedAsAsked' /\ PriorityFollowsFlag'
    BY <2>1 DEF CommitDisposition, AssignedAsAsked, PriorityFollowsFlag
  <2>2. ASSUME NEW q \in Requests, CommitAssign(q)
        PROVE  AssignedAsAsked' /\ PriorityFollowsFlag'
    <3>1. asked[q] \in Assignments /\ pc[q] = "assign"
      BY <2>2 DEF CommitAssign, TriageTypeOK
    <3>2. asked[q] = [assignee |-> asked[q].assignee, flagged |-> asked[q].flagged]
      BY <3>1 DEF Assignments
    <3>3. lastAsked' # Nobody =>
            lastAsked' = [assignee |-> assignee', flagged |-> flagged']
      BY <2>2, <3>1, <3>2, FlushWritesAll DEF CommitAssign
    <3> QED
      BY <2>2, <3>3 DEF CommitAssign, RefreshedFlag, AssignedAsAsked, PriorityFollowsFlag
  <2>3. CASE UNCHANGED <<rowVars, dispositions, usurped, lastAsked>>
    BY <2>3 DEF rowVars, AssignedAsAsked, PriorityFollowsFlag
  <2> QED
    BY <2>1, <2>2, <2>3, OnlyCommitsWrite
<1> QED
  BY <1>1, InitTriageInv, TriageInvariant, PTL DEF Spec
=============================================================================
