---------------------------- MODULE IngestProofs ----------------------------
(***************************************************************************)
(* Theorems about Ingest, for any number of documents, reports, uploads,   *)
(* workers, messages and faults.                                           *)
(***************************************************************************)
EXTENDS Ingest, TLAPS

(* A message names a document.                                             *)
LEMMA MessageDoc == \A m \in Messages : DocOf(m) \in Docs
BY DEF Messages, DocOf

LEMMA InitTypeInv == Init => TypeInv
BY IngestAssumption
   DEF Init, TypeInv, TypeOK, Statuses, MessageStates, ClientPC, WorkerPC

(* Every step keeps the types, one action at a time.                       *)
LEMMA NextTypeInv == TypeInv /\ [Next]_vars => TypeInv'
<1> SUFFICES ASSUME TypeInv, [Next]_vars
             PROVE  TypeInv'
  OBVIOUS
<1> USE IngestAssumption
    DEF TypeInv, TypeOK, Statuses, ClientPC, WorkerPC, dbVars, queueVars, clientVars,
        workerVars, budgetVars, faultVars
<1>1. ASSUME NEW c \in Clients, NEW d \in Docs, ReserveKnown(c, d)
      PROVE  TypeInv'
  BY <1>1 DEF ReserveKnown, ClientAt
<1>2. ASSUME NEW c \in Clients, NEW d \in Docs, ReserveNew(c, d)
      PROVE  TypeInv'
  BY <1>2 DEF ReserveNew, ClientAt
<1>3. ASSUME NEW c \in Clients, CreateDocument(c)
      PROVE  TypeInv'
  BY <1>3 DEF CreateDocument, ClientAt
<1>4. ASSUME NEW c \in Clients, Upload(c)
      PROVE  TypeInv'
  BY <1>4 DEF Upload, ClientAt
<1>5. ASSUME NEW c \in Clients, UploadRejected(c)
      PROVE  TypeInv'
  BY <1>5 DEF UploadRejected, ClientAt, ClientDone
<1>6. ASSUME NEW c \in Clients, MarkQueued(c)
      PROVE  TypeInv'
  BY <1>6 DEF MarkQueued, ClientAt
<1>7. ASSUME NEW c \in Clients, NotEnqueued(c)
      PROVE  TypeInv'
  BY <1>7 DEF NotEnqueued, ClientAt, ClientDone
<1>8. ASSUME NEW d \in Docs, Enqueue(d)
      PROVE  mstate' \in [Messages -> MessageStates] /\ receives' = receives
  BY <1>8 DEF Enqueue, MessageStates
<1>9. ASSUME NEW c \in Clients, Send(c)
      PROVE  TypeInv'
  BY <1>8, <1>9 DEF Send, ClientAt, ClientDone
<1>10. ASSUME NEW c \in Clients, SendFails(c)
       PROVE  TypeInv'
  BY <1>8, <1>10 DEF SendFails, ClientAt
<1>11. ASSUME NEW c \in Clients, UnmarkQueued(c)
       PROVE  TypeInv'
  BY <1>11 DEF UnmarkQueued, ClientAt, ClientDone
<1>12. ASSUME ApiCrash
       PROVE  TypeInv'
  BY <1>12 DEF ApiCrash
<1>12r. ASSUME NEW c \in Clients, RequestRaises(c)
        PROVE  TypeInv'
  BY <1>12r DEF RequestRaises, ClientAt, ClientDone
<1>13. ASSUME NEW w \in Workers, Receive(w)
       PROVE  TypeInv'
  BY <1>13 DEF Receive, MessageStates
<1>14. ASSUME NEW m \in Messages, Expire(m) \/ Redrive(m)
       PROVE  TypeInv'
  BY <1>14 DEF Expire, Redrive, MessageStates
<1>15. ASSUME NEW w \in Workers, Claim(w) \/ DropDuplicate(w) \/ Parse(w) \/ ParseRaises(w)
       PROVE  TypeInv'
  BY <1>15 DEF Claim, DropDuplicate, Parse, ParseRaises, WorkerAt
<1>16. ASSUME NEW w \in Workers, SaveReports(w)
       PROVE  TypeInv'
  <2>1. WDoc(w) \in Docs
    BY <1>16, MessageDoc DEF SaveReports, WDoc
  <2>2. Inserted(WDoc(w)) \subseteq Reports
    BY <2>1 DEF Inserted
  <2>3. owner' \in [Reports -> Docs \cup {NoDoc}]
    BY <1>16, <2>1 DEF SaveReports
  <2>4. pending' \in [Workers -> SUBSET Reports]
    BY <1>16, <2>2 DEF SaveReports
  <2>5. /\ wpc' \in [Workers -> WorkerPC]
        /\ \A v \in Workers : wpc'[v] # "idle" => wmsg'[v] \in Messages
        /\ UNCHANGED <<wmsg, wreceipt>>
    BY <1>16 DEF SaveReports, WorkerAt
  <2> QED
    BY <1>16, <2>3, <2>4, <2>5 DEF SaveReports
<1>17. ASSUME NEW w \in Workers, Score(w)
       PROVE  TypeInv'
  BY <1>17 DEF Score, WorkerAt
<1>18. ASSUME NEW w \in Workers, MarkParsed(w)
       PROVE  TypeInv'
  <2>1. WDoc(w) \in Docs
    BY <1>18, MessageDoc DEF MarkParsed, WDoc
  <2> QED
    BY <1>18, <2>1 DEF MarkParsed, WorkerAt
<1>19. ASSUME NEW w \in Workers, StepRaises(w)
       PROVE  TypeInv'
  BY <1>19 DEF StepRaises, WorkerAt
<1>20. ASSUME NEW w \in Workers, MarkFailed(w)
       PROVE  TypeInv'
  <2>1. WDoc(w) \in Docs
    BY <1>20, MessageDoc DEF MarkFailed, WDoc
  <2> QED
    BY <1>20, <2>1 DEF MarkFailed, WorkerIdle
<1>21. ASSUME NEW w \in Workers, Delete(w)
       PROVE  TypeInv'
  BY <1>21 DEF Delete, WorkerIdle, MessageStates
<1>22. ASSUME NEW w \in Workers, WorkerCrash(w)
       PROVE  TypeInv'
  BY <1>22 DEF WorkerCrash, WorkerIdle
<1>23. CASE UNCHANGED vars
  BY <1>23 DEF vars
<1> QED
  BY <1>1, <1>2, <1>3, <1>4, <1>5, <1>6, <1>7, <1>9, <1>10, <1>11, <1>12, <1>12r, <1>13,
     <1>14, <1>15, <1>16, <1>17, <1>18, <1>19, <1>20, <1>21, <1>22, <1>23
  DEF Next, Handle

(* Every table, queue and program counter always has its type.             *)
THEOREM TypeCorrect == Spec => [](TypeInv /\ TypeOK)
<1>1. TypeInv => TypeOK
  BY DEF TypeInv
<1> QED
  BY InitTypeInv, NextTypeInv, <1>1, PTL DEF Spec

-----------------------------------------------------------------------------
(* Only the insert of save_reports touches the reports table, and ON       *)
(* CONFLICT DO NOTHING leaves what is there: a report keeps the document   *)
(* that brought it in.                                                     *)
LEMMA OwnerIsFinal ==
  TypeInv /\ [Next]_vars => \A r \in Reports : owner[r] # NoDoc => owner'[r] = owner[r]
<1> SUFFICES ASSUME TypeInv, [Next]_vars
             PROVE  \A r \in Reports : owner[r] # NoDoc => owner'[r] = owner[r]
  OBVIOUS
<1>1. ASSUME NEW w \in Workers, SaveReports(w)
      PROVE  \A r \in Reports : owner[r] # NoDoc => owner'[r] = owner[r]
  BY <1>1 DEF SaveReports, Inserted
<1>2. CASE owner' = owner
  BY <1>2
<1> QED
  BY <1>1, <1>2
  DEF Next, Handle, vars, dbVars, ReserveKnown, ReserveNew, CreateDocument, Upload,
      UploadRejected, MarkQueued, NotEnqueued, Send, SendFails, UnmarkQueued, RequestRaises, ApiCrash,
      Receive, Expire, Redrive, Claim, DropDuplicate, Parse, ParseRaises, Score, MarkParsed,
      StepRaises, MarkFailed, Delete, WorkerCrash

(* Hence what is stored stays stored.                                      *)
LEMMA StoredIsFinal ==
  TypeInv /\ [Next]_vars => \A d \in Docs : Stored(d) => Stored(d)'
<1> SUFFICES ASSUME TypeInv, [Next]_vars, NEW d \in Docs, Stored(d)
             PROVE  Stored(d)'
  OBVIOUS
<1>1. Contents[d] \subseteq Reports
  BY IngestAssumption
<1> QED
  BY <1>1, OwnerIsFinal DEF Stored

LEMMA InitStoreInv == Init => StoreInv
BY DEF Init, StoreInv, ParsedMeansStored, DeletedMeansStored

(* A step of which the worker side of the invariant sees nothing: no       *)
(* worker moves, no document becomes 'parsed', no message is deleted.      *)
Quiet ==
  /\ UNCHANGED <<wpc, wmsg>>
  /\ \A d \in Docs : status'[d] = "parsed" => status[d] = "parsed"
  /\ \A m \in Messages : mstate'[m] = "deleted" => mstate[m] = "deleted"

LEMMA NextStoreInv == TypeInv /\ StoreInv /\ [Next]_vars => StoreInv'
<1> SUFFICES ASSUME TypeInv, StoreInv, [Next]_vars
             PROVE  StoreInv'
  OBVIOUS
<1> USE IngestAssumption
<1>0. /\ status \in [Docs -> Statuses]
      /\ mstate \in [Messages -> MessageStates]
      /\ wpc \in [Workers -> WorkerPC]
      /\ wmsg \in [Workers -> Messages \cup {NoMsg}]
      /\ \A w \in Workers : wpc[w] # "idle" => wmsg[w] \in Messages /\ WDoc(w) \in Docs
  BY MessageDoc DEF TypeInv, TypeOK, WDoc
<1>s. \A d \in Docs : Stored(d) => Stored(d)'
  BY StoredIsFinal
<1>1. ASSUME Quiet
      PROVE  StoreInv'
  BY <1>0, <1>1, <1>s, MessageDoc
  DEF Quiet, StoreInv, ParsedMeansStored, DeletedMeansStored, WDoc
<1>2. ASSUME NEW c \in Clients, NEW d \in Docs, ReserveKnown(c, d) \/ ReserveNew(c, d)
      PROVE  Quiet
  BY <1>2 DEF ReserveKnown, ReserveNew, Quiet, dbVars, queueVars, workerVars
<1>3. ASSUME NEW c \in Clients, CreateDocument(c) \/ Upload(c) \/ UploadRejected(c)
      PROVE  Quiet
  BY <1>0, <1>3
  DEF CreateDocument, Upload, UploadRejected, Quiet, dbVars, queueVars, workerVars
<1>4. ASSUME NEW c \in Clients,
             MarkQueued(c) \/ NotEnqueued(c) \/ UnmarkQueued(c) \/ RequestRaises(c)
      PROVE  Quiet
  BY <1>0, <1>4
  DEF MarkQueued, NotEnqueued, UnmarkQueued, RequestRaises, Quiet, dbVars, queueVars, workerVars
<1>5. ASSUME NEW c \in Clients, Send(c) \/ SendFails(c)
      PROVE  Quiet
  BY <1>0, <1>5 DEF Send, SendFails, Enqueue, Quiet, dbVars, queueVars, workerVars
<1>6. ASSUME ApiCrash
      PROVE  Quiet
  BY <1>6 DEF ApiCrash, Quiet, dbVars, queueVars, workerVars
<1>7. ASSUME NEW m \in Messages, Expire(m) \/ Redrive(m)
      PROVE  Quiet
  BY <1>0, <1>7 DEF Expire, Redrive, Quiet, dbVars, workerVars
<1>8. CASE UNCHANGED vars
  BY <1>1, <1>8 DEF vars, Quiet, dbVars, queueVars, workerVars
<1>9. ASSUME NEW w \in Workers, Receive(w)
      PROVE  StoreInv'
  BY <1>0, <1>9, <1>s, MessageDoc
  DEF Receive, StoreInv, ParsedMeansStored, DeletedMeansStored, WDoc, dbVars
<1>10. ASSUME NEW w \in Workers, Claim(w) \/ DropDuplicate(w)
       PROVE  StoreInv'
  BY <1>0, <1>10, <1>s, MessageDoc
  DEF Claim, DropDuplicate, Claimable, WorkerAt, StoreInv, ParsedMeansStored,
      DeletedMeansStored, WDoc, dbVars, queueVars
<1>11. ASSUME NEW w \in Workers, Parse(w) \/ ParseRaises(w)
       PROVE  StoreInv'
  BY <1>0, <1>11, <1>s, MessageDoc
  DEF Parse, ParseRaises, WorkerAt, StoreInv, ParsedMeansStored, DeletedMeansStored, WDoc,
      dbVars, queueVars
<1>12. ASSUME NEW w \in Workers, SaveReports(w)
       PROVE  StoreInv'
  <2>1. Stored(WDoc(w))'
    BY <1>0, <1>12 DEF SaveReports, WorkerAt, Stored, Inserted, WDoc
  <2> QED
    BY <1>0, <1>12, <1>s, <2>1, MessageDoc
    DEF SaveReports, WorkerAt, StoreInv, ParsedMeansStored, DeletedMeansStored, WDoc, queueVars
<1>13. ASSUME NEW w \in Workers, Score(w)
       PROVE  StoreInv'
  BY <1>0, <1>13, <1>s, MessageDoc
  DEF Score, WorkerAt, StoreInv, ParsedMeansStored, DeletedMeansStored, WDoc, queueVars
<1>14. ASSUME NEW w \in Workers, MarkParsed(w)
       PROVE  StoreInv'
  BY <1>0, <1>14, <1>s, MessageDoc
  DEF MarkParsed, WorkerAt, StoreInv, ParsedMeansStored, DeletedMeansStored, WDoc, queueVars
<1>15. ASSUME NEW w \in Workers, StepRaises(w) \/ MarkFailed(w) \/ WorkerCrash(w)
       PROVE  StoreInv'
  BY <1>0, <1>15, <1>s, MessageDoc
  DEF StepRaises, MarkFailed, WorkerCrash, WorkerAt, WorkerIdle, StoreInv, ParsedMeansStored,
      DeletedMeansStored, WDoc, dbVars, queueVars
<1>16. ASSUME NEW w \in Workers, Delete(w)
       PROVE  StoreInv'
  BY <1>0, <1>16, <1>s, MessageDoc
  DEF Delete, WorkerIdle, StoreInv, ParsedMeansStored, DeletedMeansStored, WDoc, dbVars
<1> QED
  BY <1>1, <1>2, <1>3, <1>4, <1>5, <1>6, <1>7, <1>8, <1>9, <1>10, <1>11, <1>12, <1>13, <1>14,
     <1>15, <1>16
  DEF Next, Handle

(* A parsed document, and one whose message was deleted, has all its       *)
(* reports in the table.                                                   *)
THEOREM NothingLostOnceParsed == Spec => [](ParsedMeansStored /\ DeletedMeansStored)
<1>1. StoreInv => ParsedMeansStored /\ DeletedMeansStored
  BY DEF StoreInv
<1> QED
  BY InitTypeInv, NextTypeInv, InitStoreInv, NextStoreInv, <1>1, PTL DEF Spec

-----------------------------------------------------------------------------
LEMMA InitScoreInv == Init => ScoreInv
BY DEF Init, ScoreInv, AlertedAtMostOnce, StrandingNeedsFault, NoStrandedPriority

(* A step that leaves the scoring alone: no table, no loop, no fault; and  *)
(* no worker leaves the loop.                                              *)
NoScoring ==
  /\ UNCHANGED <<owner, scored, pending, workerFaults>>
  /\ \A w \in Workers : wpc[w] = "score" => wpc'[w] = "score"

LEMMA NextScoreInv == TypeInv /\ ScoreInv /\ [Next]_vars => ScoreInv'
<1> SUFFICES ASSUME TypeInv, ScoreInv, [Next]_vars
             PROVE  ScoreInv'
  OBVIOUS
<1>0. /\ owner \in [Reports -> Docs \cup {NoDoc}]
      /\ scored \subseteq Reports
      /\ wpc \in [Workers -> WorkerPC]
      /\ pending \in [Workers -> SUBSET Reports]
      /\ workerFaults \in Nat
      /\ \A w \in Workers : wpc[w] # "idle" => WDoc(w) \in Docs
  BY IngestAssumption, MessageDoc DEF TypeInv, TypeOK, WDoc
<1>1. ASSUME NoScoring
      PROVE  ScoreInv'
  BY <1>1
  DEF NoScoring, ScoreInv, AlertedAtMostOnce, StrandingNeedsFault, NoStrandedPriority
<1>2. ASSUME NEW c \in Clients, NEW d \in Docs, ReserveKnown(c, d) \/ ReserveNew(c, d)
      PROVE  NoScoring
  BY <1>2 DEF ReserveKnown, ReserveNew, NoScoring, dbVars, workerVars, budgetVars, faultVars
<1>3. ASSUME NEW c \in Clients, CreateDocument(c) \/ Upload(c) \/ UploadRejected(c)
      PROVE  NoScoring
  BY <1>3 DEF CreateDocument, Upload, UploadRejected, NoScoring, dbVars, workerVars, budgetVars, faultVars
<1>4. ASSUME NEW c \in Clients,
             MarkQueued(c) \/ NotEnqueued(c) \/ UnmarkQueued(c) \/ RequestRaises(c)
      PROVE  NoScoring
  BY <1>4
  DEF MarkQueued, NotEnqueued, UnmarkQueued, RequestRaises, NoScoring, dbVars, workerVars,
      budgetVars, faultVars
<1>5. ASSUME NEW c \in Clients, Send(c) \/ SendFails(c)
      PROVE  NoScoring
  BY <1>5 DEF Send, SendFails, NoScoring, dbVars, workerVars, budgetVars, faultVars
<1>6. ASSUME ApiCrash
      PROVE  NoScoring
  BY <1>6 DEF ApiCrash, NoScoring, dbVars, workerVars
<1>7. ASSUME NEW m \in Messages, Expire(m) \/ Redrive(m)
      PROVE  NoScoring
  BY <1>7 DEF Expire, Redrive, NoScoring, dbVars, workerVars, budgetVars, faultVars
<1>8. ASSUME NEW w \in Workers, Receive(w)
      PROVE  NoScoring
  BY <1>0, <1>8 DEF Receive, NoScoring, dbVars, budgetVars, faultVars
<1>9. ASSUME NEW w \in Workers, Claim(w) \/ DropDuplicate(w) \/ Parse(w) \/ ParseRaises(w)
      PROVE  NoScoring
  BY <1>0, <1>9
  DEF Claim, DropDuplicate, Parse, ParseRaises, WorkerAt, NoScoring, dbVars, budgetVars, faultVars
<1>10. ASSUME NEW w \in Workers, MarkParsed(w)
       PROVE  NoScoring
  BY <1>0, <1>10 DEF MarkParsed, WorkerAt, NoScoring, budgetVars, faultVars
<1>11. ASSUME NEW w \in Workers, MarkFailed(w) \/ Delete(w)
       PROVE  NoScoring
  <2>1. pending[w] = {}
    BY <1>11 DEF MarkFailed, Delete, ScoreInv
  <2> QED
    BY <1>0, <1>11, <2>1 DEF MarkFailed, Delete, WorkerIdle, NoScoring, dbVars, budgetVars, faultVars
<1>12. ASSUME NEW w \in Workers, StepRaises(w) \/ WorkerCrash(w)
       PROVE  ScoreInv'
  <2>1. /\ UNCHANGED <<owner, scored>>
        /\ pending' = [pending EXCEPT ![w] = {}]
        /\ \A v \in Workers \ {w} : wpc'[v] = wpc[v]
        /\ workerFaults' # 0
    BY <1>0, <1>12 DEF StepRaises, WorkerCrash, WorkerAt, WorkerIdle, dbVars
  <2> QED
    BY <1>0, <2>1 DEF ScoreInv, AlertedAtMostOnce, StrandingNeedsFault
<1>13. ASSUME NEW w \in Workers, SaveReports(w)
       PROVE  ScoreInv'
  <2> DEFINE new == Inserted(WDoc(w))
  <2>1. /\ WDoc(w) \in Docs
        /\ pending[w] = {}
    BY <1>0, <1>13 DEF SaveReports, ScoreInv
  <2>2. /\ new \subseteq Reports
        /\ \A r \in new : owner[r] = NoDoc
    BY <2>1, IngestAssumption DEF Inserted
  <2>3. /\ \A r \in Reports : owner'[r] # NoDoc <=> owner[r] # NoDoc \/ r \in new
        /\ pending' = [pending EXCEPT ![w] = new]
        /\ wpc' = [wpc EXCEPT ![w] = IF new = {} THEN "mark" ELSE "score"]
        /\ UNCHANGED <<scored, workerFaults>>
    BY <1>13, <2>1, <2>2, IngestAssumption DEF SaveReports, WorkerAt, budgetVars, faultVars
  <2>4. AlertedAtMostOnce'
    BY <1>0, <2>2, <2>3 DEF ScoreInv, AlertedAtMostOnce
  <2>5. StrandingNeedsFault'
    BY <1>0, <2>1, <2>2, <2>3 DEF ScoreInv, StrandingNeedsFault, NoStrandedPriority
  <2> HIDE DEF new
  <2> QED
    BY <1>0, <2>2, <2>3, <2>4, <2>5 DEF ScoreInv
<1>14. ASSUME NEW w \in Workers, Score(w)
       PROVE  ScoreInv'
  <2>1. PICK r \in pending[w] :
          /\ scored' = scored \cup {r}
          /\ pending' = [pending EXCEPT ![w] = @ \ {r}]
          /\ WorkerAt(w, IF pending[w] = {r} THEN "mark" ELSE "score")
    BY <1>14 DEF Score
  <2>2. UNCHANGED <<owner, workerFaults>>
    BY <1>14 DEF Score, budgetVars, faultVars
  <2>3. AlertedAtMostOnce'
    BY <1>0, <2>1 DEF ScoreInv, AlertedAtMostOnce
  <2>4. StrandingNeedsFault'
    BY <1>0, <2>1, <2>2 DEF ScoreInv, StrandingNeedsFault, NoStrandedPriority
  <2> QED
    BY <1>0, <2>1, <2>2, <2>3, <2>4 DEF ScoreInv, WorkerAt
<1>15. CASE UNCHANGED vars
  BY <1>1, <1>15 DEF vars, NoScoring, dbVars, workerVars, budgetVars, faultVars
<1> QED
  BY <1>1, <1>2, <1>3, <1>4, <1>5, <1>6, <1>7, <1>8, <1>9, <1>10, <1>11, <1>12, <1>13, <1>14,
     <1>15
  DEF Next, Handle

(* Every report passes the scoring loop, and with it maybe_alert, at most  *)
(* once, and only a worker that dies or fails can leave one unscored.      *)
THEOREM ScoredOnce == Spec => [](AlertedAtMostOnce /\ StrandingNeedsFault)
<1>1. ScoreInv => AlertedAtMostOnce /\ StrandingNeedsFault
  BY DEF ScoreInv
<1> QED
  BY InitTypeInv, NextTypeInv, InitScoreInv, NextScoreInv, <1>1, PTL DEF Spec

-----------------------------------------------------------------------------
LEMMA InitSendInv == Init => SendInv
BY DEF Init, SendInv, OneSender

(* A message that was sent is never unsent again.                          *)
LEMMA SentIsFinal ==
  TypeInv /\ [Next]_vars =>
    \A m \in Messages : mstate[m] # "unsent" => mstate'[m] # "unsent"
<1> SUFFICES ASSUME TypeInv, [Next]_vars
             PROVE  \A m \in Messages : mstate[m] # "unsent" => mstate'[m] # "unsent"
  OBVIOUS
<1>0. mstate \in [Messages -> MessageStates]
  BY DEF TypeInv, TypeOK
<1>1. ASSUME NEW c \in Clients, Send(c) \/ SendFails(c)
      PROVE  \A m \in Messages : mstate[m] # "unsent" => mstate'[m] # "unsent"
  BY <1>0, <1>1 DEF Send, SendFails, Enqueue, queueVars
<1>2. ASSUME NEW w \in Workers, Receive(w) \/ Delete(w)
      PROVE  \A m \in Messages : mstate[m] # "unsent" => mstate'[m] # "unsent"
  BY <1>0, <1>2 DEF Receive, Delete
<1>3. ASSUME NEW n \in Messages, Expire(n) \/ Redrive(n)
      PROVE  \A m \in Messages : mstate[m] # "unsent" => mstate'[m] # "unsent"
  BY <1>0, <1>3 DEF Expire, Redrive
<1>4. CASE mstate' = mstate
  BY <1>4
<1> QED
  BY <1>1, <1>2, <1>3, <1>4
  DEF Next, Handle, vars, queueVars, ReserveKnown, ReserveNew, CreateDocument, Upload,
      UploadRejected, MarkQueued, NotEnqueued, UnmarkQueued, RequestRaises, ApiCrash, Claim, DropDuplicate,
      Parse, ParseRaises, SaveReports, Score, MarkParsed, StepRaises, MarkFailed, WorkerCrash

LEMMA NextSendInv == TypeInv /\ SendInv /\ [Next]_vars => SendInv'
<1> SUFFICES ASSUME TypeInv, SendInv, [Next]_vars
             PROVE  SendInv'
  OBVIOUS
<1>0. /\ status \in [Docs -> Statuses]
      /\ mstate \in [Messages -> MessageStates]
      /\ cpc \in [Clients -> ClientPC]
      /\ cdoc \in [Clients -> Docs \cup {NoDoc}]
      /\ wpc \in [Workers -> WorkerPC]
      /\ wmsg \in [Workers -> Messages \cup {NoMsg}]
      /\ apiCrashes \in Nat /\ dbFaults \in Nat
      /\ \A c \in Clients : cpc[c] # "idle" => cdoc[c] \in Docs
      /\ \A w \in Workers : wpc[w] # "idle" => wmsg[w] \in Messages /\ WDoc(w) \in Docs
  BY IngestAssumption, MessageDoc DEF TypeInv, TypeOK, WDoc
<1>s. /\ \A m \in Messages : mstate[m] # "unsent" => mstate'[m] # "unsent"
      /\ \A d \in Docs : Sent(d) => Sent(d)'
  BY SentIsFinal DEF Sent
  \* The upload page and the API.
<1>1. ASSUME NEW c \in Clients, NEW d \in Docs, ReserveKnown(c, d) \/ ReserveNew(c, d)
      PROVE  SendInv'
  BY <1>0, <1>1, <1>s
  DEF ReserveKnown, ReserveNew, ClientAt, SendInv, OneSender, BeingSent, Sent, dbVars,
      queueVars, workerVars, ApiSound, budgetVars, faultVars
<1>2. ASSUME NEW c \in Clients, CreateDocument(c)
      PROVE  SendInv'
  BY <1>0, <1>2, <1>s
  DEF CreateDocument, ClientAt, SendInv, OneSender, BeingSent, Sent, queueVars, workerVars,
      ApiSound, budgetVars, faultVars
<1>3. ASSUME NEW c \in Clients, Upload(c) \/ UploadRejected(c) \/ NotEnqueued(c)
      PROVE  SendInv'
  BY <1>0, <1>3, <1>s
  DEF Upload, UploadRejected, NotEnqueued, ClientDone, ClientAt, SendInv, OneSender,
      BeingSent, Sent, dbVars, queueVars, workerVars, ApiSound, budgetVars, faultVars
<1>4. ASSUME NEW c \in Clients, MarkQueued(c)
      PROVE  SendInv'
  BY <1>0, <1>4, <1>s
  DEF MarkQueued, Queueable, ClientAt, SendInv, OneSender, BeingSent, Sent, queueVars,
      workerVars, ApiSound, budgetVars, faultVars
<1>5. ASSUME NEW c \in Clients, Send(c)
      PROVE  SendInv'
  <2>1. QueueUrlSet => \A d \in Docs : d = cdoc[c] => Sent(d)'
    BY <1>0, <1>5 DEF Send, Enqueue, NextMessage, Sent
  <2> QED
    BY <1>0, <1>5, <1>s, <2>1
    DEF Send, ClientDone, ClientAt, SendInv, OneSender, BeingSent, dbVars, workerVars, ApiSound,
        budgetVars, faultVars
<1>6. ASSUME NEW c \in Clients, SendFails(c)
      PROVE  SendInv'
  BY <1>0, <1>6, <1>s
  DEF SendFails, ClientAt, SendInv, OneSender, BeingSent, ApiSound, dbVars, workerVars
<1>7. ASSUME NEW c \in Clients, UnmarkQueued(c)
      PROVE  SendInv'
  BY <1>0, <1>7, <1>s
  DEF UnmarkQueued, ClientDone, ClientAt, SendInv, OneSender, BeingSent, Sent, queueVars,
      workerVars, ApiSound, budgetVars, faultVars
<1>8. ASSUME ApiCrash \/ \E c \in Clients : RequestRaises(c)
      PROVE  SendInv'
  <2>1. /\ \A c \in Clients :
             cpc'[c] \in {"send", "undo"} => cpc'[c] = cpc[c] /\ cdoc'[c] = cdoc[c]
        /\ ~ApiSound'
    BY <1>0, <1>8
    DEF ApiCrash, RequestRaises, ClientDone, ClientAt, ApiSound
  <2>2. UNCHANGED <<status, mstate, wpc, wmsg>>
    BY <1>8 DEF ApiCrash, RequestRaises, dbVars, queueVars, workerVars
  <2> QED
    BY <1>0, <1>s, <2>1, <2>2 DEF SendInv, OneSender
  \* The queue and the workers: no client moves and no API process dies.
<1>9. ASSUME UNCHANGED <<cpc, cdoc, ApiSound>>,
             \A d \in Docs :
               \/ status'[d] = status[d]
               \/ status'[d] \in {"parsing", "parsed", "failed"} /\ Sent(d),
             \A w \in Workers : wpc'[w] # "idle" => mstate'[wmsg'[w]] # "unsent"
      PROVE  SendInv'
  BY <1>0, <1>9, <1>s DEF SendInv, OneSender, BeingSent
<1>10. ASSUME NEW w \in Workers, Receive(w)
       PROVE  SendInv'
  <2>1. \A v \in Workers : wpc'[v] # "idle" => mstate'[wmsg'[v]] # "unsent"
    BY <1>0, <1>10, <1>s DEF Receive, SendInv
  <2> QED
    BY <1>9, <1>10, <2>1 DEF Receive, dbVars, clientVars, ApiSound, budgetVars, faultVars
<1>11. ASSUME NEW m \in Messages, Expire(m) \/ Redrive(m)
       PROVE  SendInv'
  <2>1. \A v \in Workers : wpc'[v] # "idle" => mstate'[wmsg'[v]] # "unsent"
    BY <1>0, <1>11, <1>s DEF Expire, Redrive, SendInv, workerVars
  <2> QED
    BY <1>9, <1>11, <2>1 DEF Expire, Redrive, dbVars, clientVars, ApiSound, budgetVars, faultVars
<1>12. ASSUME NEW w \in Workers,
              \/ Claim(w) \/ DropDuplicate(w) \/ Parse(w) \/ ParseRaises(w) \/ SaveReports(w)
              \/ Score(w) \/ MarkParsed(w) \/ StepRaises(w) \/ MarkFailed(w)
       PROVE  SendInv'
  <2>1. wpc[w] # "idle" /\ Sent(WDoc(w))
    BY <1>0, <1>12
    DEF Claim, DropDuplicate, Parse, ParseRaises, SaveReports, Score, MarkParsed, StepRaises,
        MarkFailed, SendInv, Sent, WDoc
  <2>2. /\ UNCHANGED <<cpc, cdoc, ApiSound, mstate>>
        /\ \A v \in Workers \ {w} : wpc'[v] = wpc[v] /\ wmsg'[v] = wmsg[v]
        /\ wpc'[w] # "idle" => wmsg'[w] = wmsg[w]
    BY <1>0, <1>12
    DEF Claim, DropDuplicate, Parse, ParseRaises, SaveReports, Score, MarkParsed, StepRaises,
        MarkFailed, WorkerAt, WorkerIdle, clientVars, queueVars, ApiSound, budgetVars, faultVars
  <2>3. \A v \in Workers : wpc'[v] # "idle" => mstate'[wmsg'[v]] # "unsent"
    BY <2>1, <2>2 DEF SendInv
  <2>4. \A d \in Docs :
          \/ status'[d] = status[d]
          \/ status'[d] \in {"parsing", "parsed", "failed"} /\ Sent(d)
    BY <1>0, <1>12, <2>1
    DEF Claim, DropDuplicate, Parse, ParseRaises, SaveReports, Score, MarkParsed, StepRaises,
        MarkFailed, dbVars
  <2> QED
    BY <1>9, <2>2, <2>3, <2>4
<1>13. ASSUME NEW w \in Workers, Delete(w) \/ WorkerCrash(w)
       PROVE  SendInv'
  <2>1. /\ UNCHANGED <<cpc, cdoc, ApiSound, status>>
        /\ \A v \in Workers \ {w} : wpc'[v] = wpc[v] /\ wmsg'[v] = wmsg[v]
        /\ wpc'[w] = "idle"
    BY <1>0, <1>13 DEF Delete, WorkerCrash, WorkerIdle, dbVars, clientVars, ApiSound, budgetVars, faultVars
  <2>2. \A v \in Workers : wpc'[v] # "idle" => mstate'[wmsg'[v]] # "unsent"
    BY <1>0, <1>s, <2>1 DEF SendInv
  <2> QED
    BY <1>9, <2>1, <2>2
<1>14. CASE UNCHANGED vars
  BY <1>14
  DEF vars, dbVars, queueVars, clientVars, workerVars, ApiSound, budgetVars, faultVars, SendInv, OneSender, Sent,
      BeingSent
<1> QED
  BY <1>1, <1>2, <1>3, <1>4, <1>5, <1>6, <1>7, <1>8, <1>10, <1>11, <1>12, <1>13, <1>14
  DEF Next, Handle

(* One complete call at a time sends for a document.  Where a queue is     *)
(* configured, every accepted document is stored, has a message, or is in  *)
(* the hands of the request that sends one, as long as no API process dies *)
(* and no database call raises in a request.                               *)
THEOREM NoLossWithoutApiFault == Spec => [](OneSender /\ LossNeedsApiFault)
<1>1. SendInv => OneSender
  BY DEF SendInv
<1>2. TypeInv /\ StoreInv /\ SendInv => LossNeedsApiFault
  <2> SUFFICES ASSUME TypeInv, StoreInv, SendInv, ApiSound, NEW d \in Docs,
                      status[d] \notin {"absent", "received"}
               PROVE  Stored(d) \/ HasMessage(d) \/ BeingSent(d)
    BY DEF LossNeedsApiFault, NoSilentLoss
  <2>1. Sent(d) => Stored(d) \/ HasMessage(d)
    BY DEF TypeInv, TypeOK, MessageStates, StoreInv, DeletedMeansStored, Sent, HasMessage
  <2>2. Sent(d) \/ BeingSent(d)
    BY DEF TypeInv, TypeOK, Statuses, SendInv
  <2> QED
    BY <2>1, <2>2
<1> QED
  BY InitTypeInv, NextTypeInv, InitStoreInv, NextStoreInv, InitSendInv, NextSendInv, <1>1, <1>2,
     PTL DEF Spec

-----------------------------------------------------------------------------
LEMMA InitRefines == Init => Abstract!Init
BY DEF Init, Abstract!Init

(* A step that Catalogue does not see.                                     *)
Unseen ==
  /\ owner' = owner
  /\ \A d \in Docs : status'[d] = "parsed" <=> status[d] = "parsed"
  /\ \A m \in Messages : mstate'[m] = "deleted" <=> mstate[m] = "deleted"

LEMMA UnseenStutters == Unseen => UNCHANGED Abstract!vars
BY DEF Unseen, Abstract!vars

LEMMA StepRefines == TypeInv /\ StoreInv /\ [Next]_vars => [Abstract!Next]_(Abstract!vars)
<1> SUFFICES ASSUME TypeInv, StoreInv, [Next]_vars
             PROVE  Abstract!Next \/ UNCHANGED Abstract!vars
  OBVIOUS
<1>0. /\ status \in [Docs -> Statuses]
      /\ owner \in [Reports -> Docs \cup {NoDoc}]
      /\ mstate \in [Messages -> MessageStates]
      /\ \A c \in Clients : cpc[c] # "idle" => cdoc[c] \in Docs
      /\ \A w \in Workers : wpc[w] # "idle" => wmsg[w] \in Messages /\ WDoc(w) \in Docs
  BY MessageDoc DEF TypeInv, TypeOK, WDoc
<1>s. \A d \in Docs : Stored(d) => Abstract!Complete(d)
  BY DEF Stored, Abstract!Complete, Abstract!Missing
<1>1. ASSUME NEW c \in Clients, NEW d \in Docs, ReserveKnown(c, d) \/ ReserveNew(c, d)
      PROVE  Unseen
  BY <1>1 DEF ReserveKnown, ReserveNew, Unseen, dbVars, queueVars
<1>2. ASSUME NEW c \in Clients,
             CreateDocument(c) \/ Upload(c) \/ UploadRejected(c) \/ MarkQueued(c)
      PROVE  Unseen
  BY <1>0, <1>2
  DEF CreateDocument, Upload, UploadRejected, MarkQueued, Queueable, Unseen, dbVars, queueVars
<1>3. ASSUME NEW c \in Clients, NotEnqueued(c) \/ UnmarkQueued(c) \/ RequestRaises(c)
      PROVE  Unseen
  BY <1>0, <1>3 DEF NotEnqueued, UnmarkQueued, RequestRaises, Unseen, dbVars, queueVars
<1>4. ASSUME NEW c \in Clients, Send(c) \/ SendFails(c)
      PROVE  Unseen
  BY <1>0, <1>4 DEF Send, SendFails, Enqueue, NextMessage, Unseen, dbVars, queueVars
<1>5. ASSUME ApiCrash
      PROVE  Unseen
  BY <1>5 DEF ApiCrash, Unseen, dbVars, queueVars
<1>6. ASSUME NEW m \in Messages, Expire(m) \/ Redrive(m)
      PROVE  Unseen
  BY <1>0, <1>6 DEF Expire, Redrive, Unseen, dbVars
<1>7. ASSUME NEW w \in Workers, Receive(w)
      PROVE  Unseen
  BY <1>0, <1>7 DEF Receive, Unseen, dbVars
<1>8. ASSUME NEW w \in Workers, Claim(w) \/ DropDuplicate(w) \/ Parse(w) \/ ParseRaises(w)
      PROVE  Unseen
  BY <1>0, <1>8
  DEF Claim, Claimable, DropDuplicate, Parse, ParseRaises, Unseen, dbVars, queueVars
<1>9. ASSUME NEW w \in Workers, Score(w) \/ StepRaises(w) \/ WorkerCrash(w)
      PROVE  Unseen
  BY <1>9 DEF Score, StepRaises, WorkerCrash, Unseen, dbVars, queueVars
<1>10. ASSUME NEW w \in Workers, SaveReports(w)
       PROVE  Abstract!Next \/ UNCHANGED Abstract!vars
  <2>1. PICK d \in Docs : d = WDoc(w)
    BY <1>0, <1>10 DEF SaveReports
  <2>2. /\ UNCHANGED <<status, mstate>>
        /\ owner' = [r \in Reports |-> IF r \in Inserted(d) THEN d ELSE owner[r]]
        /\ Inserted(d) = Abstract!Missing(d)
    BY <1>10, <2>1 DEF SaveReports, queueVars, Inserted, Abstract!Missing
  <2>3. CASE Inserted(d) = {}
    BY <1>0, <2>2, <2>3, UnseenStutters DEF Unseen
  <2>4. CASE Inserted(d) # {}
    <3>1. Abstract!Take(d)
      BY <2>2, <2>4 DEF Abstract!Take
    <3> QED
      BY <3>1 DEF Abstract!Next
  <2> QED
    BY <2>3, <2>4
<1>11. ASSUME NEW w \in Workers, MarkParsed(w)
       PROVE  Abstract!Next
  <2>1. PICK d \in Docs : d = WDoc(w)
    BY <1>0, <1>11 DEF MarkParsed
  <2>2. /\ Abstract!Complete(d)
        /\ UNCHANGED <<owner, mstate>>
        /\ status' = [status EXCEPT ![d] = "parsed"]
    BY <1>11, <1>s, <2>1 DEF MarkParsed, StoreInv, queueVars
  <2>3. Abstract!Confirm(d)
    BY <1>0, <2>2 DEF Abstract!Confirm
  <2> QED
    BY <2>3 DEF Abstract!Next
<1>12. ASSUME NEW w \in Workers, MarkFailed(w)
       PROVE  Abstract!Next
  <2>1. PICK d \in Docs : d = WDoc(w)
    BY <1>0, <1>12 DEF MarkFailed
  <2>2. /\ UNCHANGED <<owner, mstate>>
        /\ status' = [status EXCEPT ![d] = "failed"]
    BY <1>12, <2>1 DEF MarkFailed, queueVars
  <2>3. Abstract!Retract(d)
    BY <1>0, <2>2 DEF Abstract!Retract
  <2> QED
    BY <2>3 DEF Abstract!Next
<1>13. ASSUME NEW w \in Workers, Delete(w)
       PROVE  Abstract!Next \/ UNCHANGED Abstract!vars
  <2>1. PICK d \in Docs : d = WDoc(w)
    BY <1>0, <1>13 DEF Delete
  <2>2. /\ wmsg[w] \in Messages
        /\ DocOf(wmsg[w]) = d
        /\ Abstract!Complete(d)
        /\ UNCHANGED <<owner, status>>
    BY <1>0, <1>13, <1>s, <2>1 DEF Delete, StoreInv, WDoc, dbVars
  <2>3. CASE mstate' = mstate
    BY <2>2, <2>3, UnseenStutters DEF Unseen
  <2>4. CASE mstate' = [mstate EXCEPT ![wmsg[w]] = "deleted"]
    <3>1. Abstract!Ack(d)
      BY <1>0, <2>2, <2>4 DEF Abstract!Ack
    <3> QED
      BY <3>1 DEF Abstract!Next
  <2> QED
    BY <1>13, <2>3, <2>4 DEF Delete
<1>14. CASE UNCHANGED vars
  BY <1>14, UnseenStutters DEF vars, dbVars, queueVars, Unseen
<1>15. ASSUME NEW w \in Workers, Handle(w)
       PROVE  Abstract!Next \/ UNCHANGED Abstract!vars
  BY UnseenStutters, <1>8, <1>9, <1>10, <1>11, <1>12, <1>13, <1>15 DEF Handle
<1> QED
  BY UnseenStutters, <1>1, <1>2, <1>3, <1>4, <1>5, <1>6, <1>7, <1>9, <1>14, <1>15 DEF Next

(* Whatever the queue, the workers and the uploads do, the tables keep the *)
(* promise of Catalogue.                                                   *)
THEOREM Refinement == Spec => ImplementsCatalogue
<1>1. TypeInv /\ StoreInv /\ [Next]_vars => TypeInv' /\ StoreInv' /\ [Abstract!Next]_(Abstract!vars)
  BY NextTypeInv, NextStoreInv, StepRefines
<1> QED
  BY InitTypeInv, InitStoreInv, InitRefines, <1>1, PTL DEF Spec, ImplementsCatalogue, Abstract!Spec

-----------------------------------------------------------------------------
LEMMA InitSingleInv == Init => SingleInv
BY DEF Init, SingleInv, OneMessage, OneHolder, RowFollowsWorker, Sent, Working

(* The facts that the steps below use again and again.                     *)
LEMMA SingleFacts ==
  ASSUME TypeInv
  PROVE  /\ status \in [Docs -> Statuses]
         /\ parsedEvents \in [Docs -> Nat]
         /\ mstate \in [Messages -> MessageStates]
         /\ cpc \in [Clients -> ClientPC]
         /\ wpc \in [Workers -> WorkerPC]
         /\ wmsg \in [Workers -> Messages \cup {NoMsg}]
         /\ sendFaults \in 0 .. MaxSendFaults
         /\ cdoc \in [Clients -> Docs \cup {NoDoc}]
         /\ NoMsg \notin Messages
         /\ \A c \in Clients : cpc[c] # "idle" => cdoc[c] \in Docs
         /\ \A w \in Workers : wpc[w] # "idle" => wmsg[w] \in Messages /\ WDoc(w) \in Docs
BY IngestAssumption, MessageDoc DEF TypeInv, TypeOK, WDoc

(* The messages, and who holds them.                                       *)
LEMMA NextOneMessage ==
  TypeInv /\ SendInv /\ Reliable /\ OneMessage /\ OneHolder /\ [Next]_vars => OneMessage'
<1> SUFFICES ASSUME TypeInv, SendInv, Reliable, OneMessage, OneHolder, [Next]_vars
             PROVE  OneMessage'
  OBVIOUS
<1>0. /\ status \in [Docs -> Statuses]
      /\ mstate \in [Messages -> MessageStates]
      /\ cpc \in [Clients -> ClientPC]
      /\ sendFaults \in 0 .. MaxSendFaults
      /\ cdoc \in [Clients -> Docs \cup {NoDoc}]
      /\ \A c \in Clients : cpc[c] # "idle" => cdoc[c] \in Docs
      /\ \A w \in Workers : wpc[w] # "idle" => wmsg[w] \in Messages /\ WDoc(w) \in Docs
  BY SingleFacts
<1>f. ASSUME NEW c \in Clients, SendFails(c)
      PROVE  FALSE
  BY <1>0, <1>f, IngestAssumption DEF SendFails, Reliable
  \* A step that sends nothing, undoes nothing and makes no row new.
<1>n. ASSUME \A m \in Messages : mstate[m] = "unsent" => mstate'[m] = "unsent",
             \A d \in Docs : status'[d] \in {"absent", "received"} => ~Sent(d),
             \A c \in Clients : /\ cpc'[c] # "undo"
                                /\ cpc'[c] = "send" => ~Sent(cdoc'[c])
      PROVE  OneMessage'
  BY <1>n DEF OneMessage, Sent
<1>1. ASSUME NEW c \in Clients, NEW d \in Docs, ReserveKnown(c, d) \/ ReserveNew(c, d)
      PROVE  OneMessage'
  BY <1>0, <1>n, <1>1 DEF ReserveKnown, ReserveNew, ClientAt, OneMessage, dbVars, queueVars
<1>2. ASSUME NEW c \in Clients, CreateDocument(c)
      PROVE  OneMessage'
  BY <1>0, <1>n, <1>2 DEF CreateDocument, ClientAt, OneMessage, queueVars
<1>3. ASSUME NEW c \in Clients,
             Upload(c) \/ UploadRejected(c) \/ NotEnqueued(c) \/ RequestRaises(c)
      PROVE  OneMessage'
  BY <1>0, <1>n, <1>3
  DEF Upload, UploadRejected, NotEnqueued, RequestRaises, ClientDone, ClientAt, OneMessage, dbVars,
      queueVars
<1>4. ASSUME NEW c \in Clients, MarkQueued(c)
      PROVE  OneMessage'
  BY <1>0, <1>n, <1>4 DEF MarkQueued, Queueable, ClientAt, OneMessage, queueVars
<1>5. ASSUME NEW c \in Clients, Send(c)
      PROVE  OneMessage'
  <2>1. /\ cpc[c] = "send" /\ cdoc[c] \in Docs /\ ~Sent(cdoc[c])
        /\ status[cdoc[c]] \notin {"absent", "received"}
    BY <1>0, <1>5 DEF Send, OneMessage, SendInv
  <2>q. CASE UNCHANGED queueVars
    BY <1>0, <1>5, <1>n, <2>1, <2>q DEF Send, ClientDone, ClientAt, OneMessage, dbVars, queueVars
  <2> SUFFICES ASSUME Enqueue(cdoc[c])
               PROVE  OneMessage'
    BY <1>5, <2>q DEF Send
  <2>2. PICK m \in Messages : DocOf(m) = cdoc[c] /\ mstate' = [mstate EXCEPT ![m] = "visible"]
    BY DEF Enqueue, NextMessage
  <2>3. /\ cpc' = [cpc EXCEPT ![c] = "idle"] /\ cdoc' = [cdoc EXCEPT ![c] = NoDoc]
        /\ status' = status
    BY <1>5 DEF Send, ClientDone, ClientAt, dbVars
  <2>4. \A d \in Docs : d # cdoc[c] => (Sent(d)' => Sent(d))
    BY <1>0, <2>2 DEF Sent
  <2>5. \A o \in Clients : o # c /\ cpc[o] = "send" => cdoc[o] # cdoc[c]
    BY <2>1 DEF SendInv, OneSender
  <2>6. \A d \in Docs : status'[d] \in {"absent", "received"} => ~Sent(d)'
    BY <2>1, <2>3, <2>4 DEF OneMessage
  <2>7. \A o \in Clients : cpc'[o] # "undo" /\ (cpc'[o] = "send" => ~Sent(cdoc[o])' /\ cdoc'[o] = cdoc[o])
    BY <1>0, <2>3, <2>4, <2>5 DEF OneMessage
  <2>8. \A n \in Messages : mstate[n] # "unsent" => DocOf(n) # cdoc[c]
    BY <2>1 DEF Sent
  <2>9. \A n, k \in Messages :
          mstate'[n] # "unsent" /\ mstate'[k] # "unsent" /\ DocOf(n) = DocOf(k) => n = k
    BY <1>0, <2>2, <2>8 DEF OneMessage
  <2> QED
    BY <2>6, <2>7, <2>9 DEF OneMessage, Sent
<1>6. ASSUME NEW c \in Clients, UnmarkQueued(c)
      PROVE  OneMessage'
  BY <1>6 DEF UnmarkQueued, OneMessage
<1>7. ASSUME ApiCrash
      PROVE  OneMessage'
  BY <1>0, <1>n, <1>7 DEF ApiCrash, OneMessage, dbVars, queueVars
<1>8. ASSUME UNCHANGED <<cpc, cdoc>>,
             \A m \in Messages : mstate[m] = "unsent" => mstate'[m] = "unsent",
             \A d \in Docs : status'[d] = status[d] \/ status'[d] \notin {"absent", "received"}
      PROVE  OneMessage'
  BY <1>n, <1>8 DEF OneMessage
<1>9. ASSUME NEW w \in Workers, Receive(w)
      PROVE  OneMessage'
  BY <1>0, <1>8, <1>9 DEF Receive, dbVars, clientVars
<1>10. ASSUME NEW m \in Messages, Expire(m) \/ Redrive(m)
       PROVE  OneMessage'
  BY <1>0, <1>8, <1>10 DEF Expire, Redrive, dbVars, clientVars
<1>11. ASSUME NEW w \in Workers, Claim(w) \/ MarkParsed(w) \/ MarkFailed(w)
       PROVE  OneMessage'
  BY <1>0, <1>8, <1>11 DEF Claim, MarkParsed, MarkFailed, queueVars, clientVars
<1>12. ASSUME NEW w \in Workers,
              DropDuplicate(w) \/ Parse(w) \/ ParseRaises(w) \/ SaveReports(w) \/ Score(w)
              \/ StepRaises(w) \/ WorkerCrash(w)
       PROVE  OneMessage'
  BY <1>8, <1>12
  DEF DropDuplicate, Parse, ParseRaises, SaveReports, Score, StepRaises, WorkerCrash, dbVars,
      queueVars, clientVars
<1>13. ASSUME NEW w \in Workers, Delete(w)
       PROVE  OneMessage'
  BY <1>0, <1>8, <1>13 DEF Delete, dbVars, clientVars
<1>14. CASE UNCHANGED vars
  BY <1>8, <1>14 DEF vars, dbVars, queueVars, clientVars
<1> QED
  BY <1>f, <1>1, <1>2, <1>3, <1>4, <1>5, <1>6, <1>7, <1>9, <1>10, <1>11, <1>12, <1>13, <1>14
  DEF Next, Handle

LEMMA NextOneHolder ==
  TypeInv /\ Reliable /\ OneHolder /\ [Next]_vars => OneHolder'
<1> SUFFICES ASSUME TypeInv, Reliable, OneHolder, [Next]_vars
             PROVE  OneHolder'
  OBVIOUS
<1>0. /\ mstate \in [Messages -> MessageStates]
      /\ wpc \in [Workers -> WorkerPC]
      /\ wmsg \in [Workers -> Messages \cup {NoMsg}]
      /\ NoMsg \notin Messages
      /\ \A w \in Workers : wpc[w] # "idle" => wmsg[w] \in Messages
  BY SingleFacts
<1>h. /\ \A w \in Workers : wpc[w] = "idle" => wmsg[w] = NoMsg
      /\ \A w \in Workers : wpc[w] # "idle" => mstate[wmsg[w]] = "inflight"
      /\ \A v, w \in Workers : wpc[v] # "idle" /\ wmsg[v] = wmsg[w] => v = w
  BY DEF OneHolder
  \* A step that moves no worker and takes no held message away.
<1>n. ASSUME UNCHANGED <<wpc, wmsg>>,
             \A m \in Messages : mstate[m] = "inflight" =>
               mstate'[m] = "inflight" \/ \A w \in Workers : wmsg[w] # m
      PROVE  OneHolder'
  BY <1>0, <1>h, <1>n DEF OneHolder
  \* A step of one worker that goes on with the message it holds.
<1>w. ASSUME NEW w \in Workers, wpc[w] # "idle", UNCHANGED <<wmsg, mstate>>,
             \A v \in Workers \ {w} : wpc'[v] = wpc[v],
             wpc'[w] # "idle"
      PROVE  OneHolder'
  BY <1>0, <1>h, <1>w DEF OneHolder
  \* A step after which one worker holds nothing.
<1>i. ASSUME NEW w \in Workers, wpc[w] # "idle", WorkerIdle(w),
             \A m \in Messages : m # wmsg[w] => mstate'[m] = mstate[m]
      PROVE  OneHolder'
  BY <1>0, <1>h, <1>i DEF OneHolder, WorkerIdle
<1>1. ASSUME NEW c \in Clients, NEW d \in Docs, ReserveKnown(c, d) \/ ReserveNew(c, d)
      PROVE  OneHolder'
  BY <1>n, <1>1 DEF ReserveKnown, ReserveNew, queueVars, workerVars
<1>2. ASSUME NEW c \in Clients,
             \/ CreateDocument(c) \/ Upload(c) \/ UploadRejected(c) \/ MarkQueued(c)
             \/ NotEnqueued(c) \/ UnmarkQueued(c) \/ RequestRaises(c)
      PROVE  OneHolder'
  BY <1>n, <1>2
  DEF CreateDocument, Upload, UploadRejected, MarkQueued, NotEnqueued, UnmarkQueued,
      RequestRaises, queueVars, workerVars
<1>3. ASSUME NEW c \in Clients, Send(c) \/ SendFails(c)
      PROVE  OneHolder'
  BY <1>0, <1>n, <1>3 DEF Send, SendFails, Enqueue, NextMessage, queueVars, workerVars
<1>4. ASSUME ApiCrash
      PROVE  OneHolder'
  BY <1>n, <1>4 DEF ApiCrash, queueVars, workerVars
<1>5. ASSUME NEW m \in Messages, Expire(m) \/ Redrive(m)
      PROVE  OneHolder'
  BY <1>0, <1>n, <1>5 DEF Expire, Redrive, Reliable, workerVars
<1>6. ASSUME NEW w \in Workers, Receive(w)
      PROVE  OneHolder'
  BY <1>0, <1>h, <1>6 DEF Receive, OneHolder
<1>7. ASSUME NEW w \in Workers, Claim(w) \/ DropDuplicate(w) \/ Parse(w) \/ ParseRaises(w)
      PROVE  OneHolder'
  BY <1>0, <1>w, <1>7 DEF Claim, DropDuplicate, Parse, ParseRaises, WorkerAt, queueVars
<1>8. ASSUME NEW w \in Workers, SaveReports(w) \/ Score(w) \/ MarkParsed(w) \/ StepRaises(w)
      PROVE  OneHolder'
  BY <1>0, <1>w, <1>8 DEF SaveReports, Score, MarkParsed, StepRaises, WorkerAt, queueVars
<1>9. ASSUME NEW w \in Workers, MarkFailed(w) \/ WorkerCrash(w)
      PROVE  OneHolder'
  BY <1>i, <1>9 DEF MarkFailed, WorkerCrash, queueVars
<1>10. ASSUME NEW w \in Workers, Delete(w)
       PROVE  OneHolder'
  BY <1>0, <1>i, <1>10 DEF Delete
<1>11. CASE UNCHANGED vars
  BY <1>n, <1>11 DEF vars, queueVars, workerVars
<1> QED
  BY <1>1, <1>2, <1>3, <1>4, <1>5, <1>6, <1>7, <1>8, <1>9, <1>10, <1>11 DEF Next, Handle

LEMMA NextRowFollowsWorker ==
  TypeInv /\ OneMessage /\ OneHolder /\ RowFollowsWorker /\ [Next]_vars => RowFollowsWorker'
<1> SUFFICES ASSUME TypeInv, OneMessage, OneHolder, RowFollowsWorker, [Next]_vars
             PROVE  RowFollowsWorker'
  OBVIOUS
<1> DEFINE Busy(w) == Working(w) \/ wpc[w] = "fail"
<1>0. /\ status \in [Docs -> Statuses]
      /\ parsedEvents \in [Docs -> Nat]
      /\ mstate \in [Messages -> MessageStates]
      /\ wpc \in [Workers -> WorkerPC]
      /\ wmsg \in [Workers -> Messages \cup {NoMsg}]
      /\ \A w \in Workers : wpc[w] # "idle" => wmsg[w] \in Messages /\ WDoc(w) \in Docs
  BY SingleFacts
<1>r. /\ \A w \in Workers : Busy(w) => status[WDoc(w)] = "parsing"
      /\ \A d \in Docs : parsedEvents[d] = IF status[d] = "parsed" THEN 1 ELSE 0
  BY DEF RowFollowsWorker
  \* No two workers hold messages for one document.
<1>u. \A v, w \in Workers :
        wpc[v] # "idle" /\ wpc[w] # "idle" /\ WDoc(v) = WDoc(w) => v = w
  BY <1>0 DEF OneMessage, OneHolder, WDoc
  \* A step that starts no work and changes no row that a worker is at.
<1>n. ASSUME \A w \in Workers : Busy(w)' => Busy(w) /\ wmsg'[w] = wmsg[w],
             parsedEvents' = parsedEvents,
             \A d \in Docs :
               \/ status'[d] = status[d]
               \/ status[d] \in {"absent", "received"} /\ status'[d] # "parsed"
      PROVE  RowFollowsWorker'
  BY <1>0, <1>r, <1>n DEF RowFollowsWorker, Working, WDoc
<1>1. ASSUME NEW c \in Clients, NEW d \in Docs, ReserveKnown(c, d) \/ ReserveNew(c, d)
      PROVE  RowFollowsWorker'
  BY <1>n, <1>1 DEF ReserveKnown, ReserveNew, dbVars, workerVars, Working
<1>2. ASSUME NEW c \in Clients, CreateDocument(c) \/ MarkQueued(c)
      PROVE  RowFollowsWorker'
  BY <1>0, <1>n, <1>2 DEF CreateDocument, MarkQueued, Queueable, workerVars, Working
<1>3. ASSUME NEW c \in Clients,
             \/ Upload(c) \/ UploadRejected(c) \/ NotEnqueued(c) \/ Send(c) \/ SendFails(c)
             \/ RequestRaises(c)
      PROVE  RowFollowsWorker'
  BY <1>n, <1>3
  DEF Upload, UploadRejected, NotEnqueued, Send, SendFails, RequestRaises, dbVars, workerVars,
      Working
<1>4. ASSUME NEW c \in Clients, UnmarkQueued(c)
      PROVE  RowFollowsWorker'
  BY <1>4 DEF UnmarkQueued, OneMessage
<1>5. ASSUME ApiCrash
      PROVE  RowFollowsWorker'
  BY <1>n, <1>5 DEF ApiCrash, dbVars, workerVars, Working
<1>6. ASSUME NEW m \in Messages, Expire(m) \/ Redrive(m)
      PROVE  RowFollowsWorker'
  BY <1>n, <1>6 DEF Expire, Redrive, dbVars, workerVars, Working
<1>7. ASSUME NEW w \in Workers, Receive(w)
      PROVE  RowFollowsWorker'
  BY <1>0, <1>n, <1>7 DEF Receive, dbVars, Working
<1>8. ASSUME NEW w \in Workers, DropDuplicate(w) \/ Delete(w) \/ WorkerCrash(w)
      PROVE  RowFollowsWorker'
  BY <1>0, <1>n, <1>8 DEF DropDuplicate, Delete, WorkerCrash, WorkerAt, WorkerIdle, dbVars, Working
<1>9. ASSUME NEW w \in Workers,
             \/ Parse(w) \/ ParseRaises(w) \/ SaveReports(w) \/ Score(w) \/ StepRaises(w)
      PROVE  RowFollowsWorker'
  <2>1. /\ Busy(w) /\ UNCHANGED <<wmsg, status, parsedEvents>>
        /\ \A v \in Workers \ {w} : wpc'[v] = wpc[v]
    BY <1>0, <1>9
    DEF Parse, ParseRaises, SaveReports, Score, StepRaises, WorkerAt, dbVars, Working
  <2> QED
    BY <1>n, <2>1 DEF Working
<1>10. ASSUME NEW w \in Workers, Claim(w)
       PROVE  RowFollowsWorker'
  <2>1. /\ wpc[w] = "claim" /\ WDoc(w) \in Docs /\ status[WDoc(w)] # "parsed"
        /\ status' = [status EXCEPT ![WDoc(w)] = "parsing"]
        /\ \A v \in Workers \ {w} : wpc'[v] = wpc[v]
        /\ UNCHANGED <<wmsg, parsedEvents>>
    BY <1>0, <1>10 DEF Claim, Claimable, WorkerAt
  <2> QED
    BY <1>0, <1>r, <2>1 DEF RowFollowsWorker, Working, WDoc
<1>11. ASSUME NEW w \in Workers, MarkParsed(w) \/ MarkFailed(w)
       PROVE  RowFollowsWorker'
  <2>1. /\ Busy(w) /\ wpc[w] # "idle" /\ WDoc(w) \in Docs /\ status[WDoc(w)] = "parsing"
        /\ \A v \in Workers \ {w} : wpc'[v] = wpc[v] /\ wmsg'[v] = wmsg[v]
        /\ ~Busy(w)'
    BY <1>0, <1>r, <1>11 DEF MarkParsed, MarkFailed, WorkerAt, WorkerIdle, Working
  <2>2. \A v \in Workers \ {w} : Busy(v) => WDoc(v) \in Docs /\ WDoc(v) # WDoc(w)
    BY <1>0, <1>u, <2>1 DEF Working
  <2>3. \A d \in Docs : d # WDoc(w) => status'[d] = status[d] /\ parsedEvents'[d] = parsedEvents[d]
    BY <1>0, <1>11, <2>1 DEF MarkParsed, MarkFailed
  <2>4. parsedEvents'[WDoc(w)] = IF status'[WDoc(w)] = "parsed" THEN 1 ELSE 0
    BY <1>0, <1>r, <1>11, <2>1 DEF MarkParsed, MarkFailed
  <2>5. \A v \in Workers : Busy(v)' => Busy(v) /\ v # w /\ WDoc(v)' = WDoc(v)
    BY <2>1 DEF Working, WDoc
  <2>6. \A v \in Workers : Busy(v)' => status'[WDoc(v)'] = "parsing"
    BY <1>r, <2>2, <2>3, <2>5
  <2>7. \A d \in Docs : parsedEvents'[d] = IF status'[d] = "parsed" THEN 1 ELSE 0
    BY <1>r, <2>3, <2>4
  <2> QED
    BY <2>6, <2>7 DEF RowFollowsWorker
<1>12. CASE UNCHANGED vars
  BY <1>n, <1>12 DEF vars, dbVars, workerVars, Working
<1> QED
  BY <1>1, <1>2, <1>3, <1>4, <1>5, <1>6, <1>7, <1>8, <1>9, <1>10, <1>11, <1>12 DEF Next, Handle

LEMMA NextSingleInv == TypeInv /\ SendInv /\ SingleInv /\ [Next]_vars => SingleInv'
<1>1. Reliable' <=> Reliable
  BY DEF Reliable
<1> QED
  BY <1>1, NextOneMessage, NextOneHolder, NextRowFollowsWorker DEF SingleInv

(* Where the heartbeat keeps its promise and no send is retried, a         *)
(* document is in the hands of one worker at a time and is counted once,   *)
(* however many workers, requests and crashes there are.                   *)
THEOREM ParsedOnceIfReliable == Spec => []ParsedOnce
<1>1. TypeInv /\ SingleInv => ParsedOnce
  <2> SUFFICES ASSUME TypeInv, SingleInv, Reliable
               PROVE  OneWorkerPerDocument /\ \A d \in Docs : parsedEvents[d] <= 1
    BY DEF ParsedOnce, Reliable
  <2>1. OneWorkerPerDocument
    BY SingleFacts DEF SingleInv, OneMessage, OneHolder, OneWorkerPerDocument, Working, WDoc
  <2>2. RowFollowsWorker
    BY DEF SingleInv
  <2>3. \A d \in Docs : parsedEvents[d] = IF status[d] = "parsed" THEN 1 ELSE 0
    BY <2>2 DEF RowFollowsWorker
  <2>4. \A d \in Docs : parsedEvents[d] \in {0, 1}
    BY <2>3, Zenon
  <2>5. \A n \in {0, 1} : n <= 1
    OBVIOUS
  <2>6. \A d \in Docs : parsedEvents[d] <= 1
    BY <2>4, <2>5, Zenon
  <2> QED
    BY <2>1, <2>6
<1> QED
  BY InitTypeInv, NextTypeInv, InitSendInv, NextSendInv, InitSingleInv, NextSingleInv, <1>1,
     PTL DEF Spec

(* A step never takes a document back from 'parsed' under these conditions:*)
(* the claim refuses a parsed row, and nobody else holds its message when  *)
(* a worker marks it.                                                      *)
LEMMA ParsedStays ==
  ASSUME TypeInv, SingleInv, Reliable, [Next]_vars, NEW d \in Docs, status[d] = "parsed"
  PROVE  status'[d] = "parsed"
<1>0. /\ status \in [Docs -> Statuses]
      /\ \A w \in Workers : wpc[w] # "idle" => WDoc(w) \in Docs
      /\ \A c \in Clients : cpc[c] # "idle" => cdoc[c] \in Docs
  BY SingleFacts
<1>1. ASSUME NEW c \in Clients, CreateDocument(c) \/ MarkQueued(c)
      PROVE  status'[d] = "parsed"
  BY <1>0, <1>1 DEF CreateDocument, MarkQueued, Queueable
<1>2. ASSUME NEW c \in Clients, UnmarkQueued(c)
      PROVE  status'[d] = "parsed"
  BY <1>2 DEF UnmarkQueued, SingleInv, OneMessage
<1>3. ASSUME NEW w \in Workers, Claim(w)
      PROVE  status'[d] = "parsed"
  BY <1>0, <1>3 DEF Claim, Claimable
<1>4. ASSUME NEW w \in Workers, MarkParsed(w)
      PROVE  status'[d] = "parsed"
  BY <1>0, <1>4 DEF MarkParsed
<1>5. ASSUME NEW w \in Workers, MarkFailed(w)
      PROVE  status'[d] = "parsed"
  BY <1>0, <1>5 DEF MarkFailed, SingleInv, RowFollowsWorker
<1>6. CASE UNCHANGED status
  BY <1>6
<1> QED
  BY <1>1, <1>2, <1>3, <1>4, <1>5, <1>6
  DEF Next, Handle, vars, dbVars, ReserveKnown, ReserveNew, Upload, UploadRejected, NotEnqueued,
      Send, SendFails, RequestRaises, ApiCrash, Receive, Expire, Redrive, DropDuplicate, Parse, ParseRaises,
      SaveReports, Score, StepRaises, Delete, WorkerCrash

(* Under the conditions of ParsedOnce, 'parsed' is final.                  *)
THEOREM ParsedIsFinalIfReliable == Spec => ParsedIsFinal
<1>1. TypeInv /\ SingleInv /\ [Next]_vars
      => [Reliable =>
            \A d \in Docs : status[d] = "parsed" => status'[d] = "parsed"]_vars
  BY ParsedStays DEF Reliable
<1> QED
  BY InitTypeInv, NextTypeInv, InitSendInv, NextSendInv, InitSingleInv, NextSingleInv, <1>1,
     PTL DEF Spec, ParsedIsFinal

-----------------------------------------------------------------------------
LEMMA InitSettleInv == Init => SettleInv
BY DEF Init, SettleInv, Receipts, PoisonKept, AttemptsCounted, FailureShown, Messages

(* Of the queue's counters and the workers' receipts.                      *)
LEMMA SettleFacts ==
  ASSUME TypeInv
  PROVE  /\ receives \in [Messages -> Nat]
         /\ wreceipt \in [Workers -> Nat]
         /\ workerFaults \in Nat
         /\ MaxReceive \in Nat \ {0}
BY IngestAssumption DEF TypeInv, TypeOK

(* What a worker holds is in flight and in nobody else's hands.            *)
LEMMA HolderFacts ==
  ASSUME OneHolder
  PROVE  /\ \A w \in Workers : wpc[w] = "idle" => wmsg[w] = NoMsg
         /\ \A w \in Workers : wpc[w] # "idle" => mstate[wmsg[w]] = "inflight"
         /\ \A v, w \in Workers : wpc[v] # "idle" /\ wmsg[v] = wmsg[w] => v = w
BY DEF OneHolder

LEMMA NextReceipts ==
  TypeInv /\ Reliable /\ OneHolder /\ Receipts /\ [Next]_vars => Receipts'
<1> SUFFICES ASSUME TypeInv, Reliable, OneHolder, Receipts, [Next]_vars
             PROVE  Receipts'
  OBVIOUS
<1>0. /\ mstate \in [Messages -> MessageStates]
      /\ wpc \in [Workers -> WorkerPC]
      /\ wmsg \in [Workers -> Messages \cup {NoMsg}]
      /\ NoMsg \notin Messages
      /\ \A w \in Workers : wpc[w] # "idle" => wmsg[w] \in Messages
      /\ receives \in [Messages -> Nat]
      /\ wreceipt \in [Workers -> Nat]
      /\ MaxReceive \in Nat \ {0}
  BY SingleFacts, SettleFacts
<1>h. \A w \in Workers : wpc[w] # "idle" => mstate[wmsg[w]] = "inflight"
  BY HolderFacts
  \* A step that receives nothing.
<1>n. ASSUME receives' = receives,
             \A w \in Workers : wpc'[w] # "idle" =>
               wpc[w] # "idle" /\ wmsg'[w] = wmsg[w] /\ wreceipt'[w] = wreceipt[w],
             \A m \in Messages : mstate'[m] = "unsent" => mstate[m] = "unsent",
             \A m \in Messages : mstate'[m] = "dead" => mstate[m] = "dead" \/ receives[m] = MaxReceive
      PROVE  Receipts'
  BY <1>0, <1>n DEF Receipts
<1>1. ASSUME NEW c \in Clients, NEW d \in Docs, ReserveKnown(c, d) \/ ReserveNew(c, d)
      PROVE  Receipts'
  BY <1>n, <1>1 DEF ReserveKnown, ReserveNew, queueVars, workerVars
<1>2. ASSUME NEW c \in Clients,
             \/ CreateDocument(c) \/ Upload(c) \/ UploadRejected(c) \/ MarkQueued(c)
             \/ NotEnqueued(c) \/ UnmarkQueued(c) \/ RequestRaises(c)
      PROVE  Receipts'
  BY <1>n, <1>2
  DEF CreateDocument, Upload, UploadRejected, MarkQueued, NotEnqueued, UnmarkQueued,
      RequestRaises, queueVars, workerVars
<1>3. ASSUME NEW c \in Clients, Send(c) \/ SendFails(c)
      PROVE  Receipts'
  BY <1>0, <1>n, <1>3 DEF Send, SendFails, Enqueue, NextMessage, queueVars, workerVars
<1>4. ASSUME ApiCrash
      PROVE  Receipts'
  BY <1>n, <1>4 DEF ApiCrash, queueVars, workerVars
<1>5. ASSUME NEW m \in Messages, Expire(m) \/ Redrive(m)
      PROVE  Receipts'
  BY <1>0, <1>n, <1>5 DEF Expire, Redrive, workerVars
<1>6. ASSUME NEW w \in Workers, Receive(w)
      PROVE  Receipts'
  <2>1. PICK m \in Messages :
          /\ mstate[m] = "visible" /\ mstate' = [mstate EXCEPT ![m] = "inflight"]
          /\ receives' = [receives EXCEPT ![m] = @ + 1]
          /\ wmsg' = [wmsg EXCEPT ![w] = m]
          /\ wreceipt' = [wreceipt EXCEPT ![w] = receives[m] + 1]
          /\ wpc' = [wpc EXCEPT ![w] = "claim"]
    BY <1>6 DEF Receive
  <2>2. \A v \in Workers \ {w} : wpc[v] # "idle" => wmsg[v] # m
    BY <1>h, <2>1
  <2> QED
    BY <1>0, <2>1, <2>2 DEF Receipts
<1>7. ASSUME NEW w \in Workers, Claim(w) \/ DropDuplicate(w) \/ Parse(w) \/ ParseRaises(w)
      PROVE  Receipts'
  BY <1>0, <1>n, <1>7 DEF Claim, DropDuplicate, Parse, ParseRaises, WorkerAt, queueVars
<1>8. ASSUME NEW w \in Workers, SaveReports(w) \/ Score(w) \/ MarkParsed(w) \/ StepRaises(w)
      PROVE  Receipts'
  BY <1>0, <1>n, <1>8 DEF SaveReports, Score, MarkParsed, StepRaises, WorkerAt, queueVars
<1>9. ASSUME NEW w \in Workers, MarkFailed(w) \/ WorkerCrash(w)
      PROVE  Receipts'
  BY <1>0, <1>n, <1>9 DEF MarkFailed, WorkerCrash, WorkerIdle, queueVars
<1>10. ASSUME NEW w \in Workers, Delete(w)
       PROVE  Receipts'
  BY <1>0, <1>n, <1>10 DEF Delete, WorkerIdle
<1>11. CASE UNCHANGED vars
  BY <1>n, <1>11 DEF vars, queueVars, workerVars
<1> QED
  BY <1>1, <1>2, <1>3, <1>4, <1>5, <1>6, <1>7, <1>8, <1>9, <1>10, <1>11 DEF Next, Handle

LEMMA NextPoisonKept == TypeInv /\ StoreInv /\ PoisonKept /\ [Next]_vars => PoisonKept'
<1> SUFFICES ASSUME TypeInv, StoreInv, PoisonKept, [Next]_vars
             PROVE  PoisonKept'
  OBVIOUS
<1>0. /\ mstate \in [Messages -> MessageStates]
      /\ wpc \in [Workers -> WorkerPC]
      /\ wmsg \in [Workers -> Messages \cup {NoMsg}]
      /\ \A w \in Workers : wpc[w] # "idle" => wmsg[w] \in Messages /\ WDoc(w) \in Docs
  BY SingleFacts
  \* A step that deletes nothing and takes no worker to its delete.
<1>n. ASSUME \A w \in Workers : wpc'[w] = "delete" => wpc[w] = "delete" /\ wmsg'[w] = wmsg[w],
             \A m \in Messages : mstate'[m] = "deleted" => mstate[m] = "deleted"
      PROVE  PoisonKept'
  BY <1>n DEF PoisonKept, WDoc
<1>1. ASSUME UNCHANGED workerVars, UNCHANGED mstate
      PROVE  PoisonKept'
  BY <1>n, <1>1 DEF workerVars
<1>2. ASSUME NEW c \in Clients, Send(c) \/ SendFails(c)
      PROVE  PoisonKept'
  BY <1>0, <1>n, <1>2 DEF Send, SendFails, Enqueue, NextMessage, queueVars, workerVars
<1>3. ASSUME NEW m \in Messages, Expire(m) \/ Redrive(m)
      PROVE  PoisonKept'
  BY <1>0, <1>n, <1>3 DEF Expire, Redrive, workerVars
<1>4. ASSUME NEW w \in Workers, Receive(w)
      PROVE  PoisonKept'
  BY <1>0, <1>n, <1>4 DEF Receive
<1>5. ASSUME NEW w \in Workers,
             \/ Claim(w) \/ Parse(w) \/ ParseRaises(w) \/ SaveReports(w) \/ Score(w)
             \/ StepRaises(w) \/ MarkFailed(w) \/ WorkerCrash(w)
      PROVE  PoisonKept'
  BY <1>0, <1>n, <1>5
  DEF Claim, Parse, ParseRaises, SaveReports, Score, StepRaises, MarkFailed, WorkerCrash, WorkerAt,
      WorkerIdle, queueVars
<1>6. ASSUME NEW w \in Workers, DropDuplicate(w) \/ MarkParsed(w)
      PROVE  PoisonKept'
  <2>1. WDoc(w) \notin Unreadable
    BY <1>0, <1>6 DEF DropDuplicate, MarkParsed, Claimable, StoreInv, ParsedMeansStored
  <2>2. /\ UNCHANGED <<wmsg, mstate>>
        /\ \A v \in Workers \ {w} : wpc'[v] = wpc[v]
    BY <1>0, <1>6 DEF DropDuplicate, MarkParsed, WorkerAt, queueVars
  <2> QED
    BY <2>1, <2>2 DEF PoisonKept, WDoc
<1>7. ASSUME NEW w \in Workers, Delete(w)
      PROVE  PoisonKept'
  <2>1. wpc[w] = "delete" /\ DocOf(wmsg[w]) \notin Unreadable
    BY <1>7 DEF Delete, PoisonKept, WDoc
  <2>2. \A m \in Messages : mstate'[m] = "deleted" => mstate[m] = "deleted" \/ m = wmsg[w]
    BY <1>0, <1>7 DEF Delete
  <2>3. \A v \in Workers : wpc'[v] = "delete" => wpc[v] = "delete" /\ wmsg'[v] = wmsg[v]
    BY <1>0, <1>7 DEF Delete, WorkerIdle
  <2> QED
    BY <2>1, <2>2, <2>3 DEF PoisonKept, WDoc
<1> QED
  BY <1>1, <1>2, <1>3, <1>4, <1>5, <1>6, <1>7
  DEF Next, Handle, vars, ReserveKnown, ReserveNew, CreateDocument, Upload, UploadRejected,
      MarkQueued, NotEnqueued, UnmarkQueued, RequestRaises, ApiCrash, queueVars

(* A receive of a readable PDF ends with a fault or with the deletion of   *)
(* the message: its document is uploaded, so parse_pdf succeeds, and the   *)
(* receipt is never stale, so delete_message deletes.                      *)
LEMMA NextAttemptsCounted ==
  /\ TypeInv /\ Reliable /\ OneHolder /\ Receipts /\ UploadedFirst /\ AttemptsCounted
  /\ [Next]_vars
  => AttemptsCounted'
<1> SUFFICES ASSUME TypeInv, Reliable, OneHolder, Receipts, UploadedFirst, AttemptsCounted,
                    [Next]_vars
             PROVE  AttemptsCounted'
  OBVIOUS
<1>0. /\ mstate \in [Messages -> MessageStates]
      /\ wpc \in [Workers -> WorkerPC]
      /\ wmsg \in [Workers -> Messages \cup {NoMsg}]
      /\ NoMsg \notin Messages
      /\ \A w \in Workers : wpc[w] # "idle" => wmsg[w] \in Messages
      /\ receives \in [Messages -> Nat]
      /\ workerFaults \in Nat
  BY SingleFacts, SettleFacts
<1>h. /\ \A w \in Workers : wpc[w] = "idle" => wmsg[w] = NoMsg
      /\ \A w \in Workers : wpc[w] # "idle" => mstate[wmsg[w]] = "inflight"
      /\ \A v, w \in Workers : wpc[v] # "idle" /\ wmsg[v] = wmsg[w] => v = w
  BY HolderFacts
<1>c. \A m \in Messages : mstate[m] # "deleted" /\ DocOf(m) \notin Unreadable =>
        /\ receives[m] <= workerFaults + 1
        /\ ~UnderWay(m) => receives[m] <= workerFaults
  BY <1>0 DEF AttemptsCounted
  \* A step that ends no attempt, except on a message that needs no count.
<1>n. ASSUME receives' = receives, workerFaults' = workerFaults,
             \A m \in Messages : mstate[m] = "deleted" => mstate'[m] = "deleted",
             \A m \in Messages :
               mstate'[m] # "deleted" /\ DocOf(m) \notin Unreadable /\ UnderWay(m) => UnderWay(m)'
      PROVE  AttemptsCounted'
  BY <1>0, <1>c, <1>n DEF AttemptsCounted
<1>m. ASSUME \A w \in Workers : wmsg'[w] = wmsg[w] /\ (wpc'[w] = "fail" => wpc[w] = "fail")
      PROVE  \A m \in Messages : UnderWay(m) => UnderWay(m)'
  BY <1>m DEF UnderWay
<1>1. ASSUME UNCHANGED <<receives, workerFaults, mstate, wmsg, wpc>>
      PROVE  AttemptsCounted'
  BY <1>n, <1>m, <1>1
<1>2. ASSUME NEW c \in Clients, Send(c) \/ SendFails(c)
      PROVE  AttemptsCounted'
  <2>1. UNCHANGED <<receives, workerFaults, wmsg, wpc>>
    BY <1>2 DEF Send, SendFails, Enqueue, queueVars, workerVars, budgetVars, faultVars
  <2>2. \A m \in Messages : mstate[m] = "deleted" => mstate'[m] = "deleted"
    BY <1>0, <1>2 DEF Send, SendFails, Enqueue, NextMessage, queueVars
  <2> QED
    BY <1>n, <1>m, <2>1, <2>2
<1>3. ASSUME NEW m \in Messages, Expire(m) \/ Redrive(m)
      PROVE  AttemptsCounted'
  <2>1. UNCHANGED <<receives, workerFaults, wmsg, wpc>>
    BY <1>3 DEF Expire, Redrive, workerVars, budgetVars, faultVars
  <2>2. \A n \in Messages : mstate[n] = "deleted" => mstate'[n] = "deleted"
    BY <1>0, <1>3 DEF Expire, Redrive
  <2> QED
    BY <1>n, <1>m, <2>1, <2>2
<1>4. ASSUME NEW w \in Workers, Receive(w)
      PROVE  AttemptsCounted'
  <2>1. PICK m \in Messages :
          /\ mstate[m] = "visible" /\ mstate' = [mstate EXCEPT ![m] = "inflight"]
          /\ receives' = [receives EXCEPT ![m] = @ + 1]
          /\ wmsg' = [wmsg EXCEPT ![w] = m]
    BY <1>4 DEF Receive
  <2>2. wpc[w] = "idle" /\ wpc' = [wpc EXCEPT ![w] = "claim"] /\ workerFaults' = workerFaults
    BY <1>4 DEF Receive, budgetVars, faultVars
  <2>3. ~UnderWay(m)
    BY <1>0, <1>h, <2>1 DEF UnderWay
  <2>4. UnderWay(m)'
    BY <1>0, <2>1, <2>2 DEF UnderWay
  <2>5. \A n \in Messages : UnderWay(n) => UnderWay(n)'
    BY <1>0, <1>h, <2>1, <2>2 DEF UnderWay
  <2>6. \A n \in Messages \ {m} : mstate'[n] = mstate[n] /\ receives'[n] = receives[n]
    BY <1>0, <2>1
  <2>7. mstate[m] # "deleted" /\ receives'[m] = receives[m] + 1 /\ receives[m] \in Nat
    BY <1>0, <2>1
  <2>8. DocOf(m) \notin Unreadable => receives'[m] <= workerFaults' + 1
    BY <1>0, <1>c, <2>2, <2>3, <2>7
  <2>9. \A n \in Messages \ {m} :
          mstate'[n] # "deleted" /\ DocOf(n) \notin Unreadable =>
            receives'[n] <= workerFaults' + IF UnderWay(n)' THEN 1 ELSE 0
    BY <1>0, <1>c, <2>2, <2>5, <2>6
  <2> QED
    BY <2>4, <2>8, <2>9 DEF AttemptsCounted
<1>5. ASSUME NEW w \in Workers,
             \/ Claim(w) \/ DropDuplicate(w) \/ Parse(w) \/ SaveReports(w) \/ Score(w)
             \/ MarkParsed(w)
      PROVE  AttemptsCounted'
  <2>1. UNCHANGED <<receives, workerFaults, mstate, wmsg>>
    BY <1>5
    DEF Claim, DropDuplicate, Parse, SaveReports, Score, MarkParsed, WorkerAt, queueVars, budgetVars, faultVars
  <2>2. \A v \in Workers : wpc'[v] = "fail" => wpc[v] = "fail"
    BY <1>0, <1>5 DEF Claim, DropDuplicate, Parse, SaveReports, Score, MarkParsed, WorkerAt
  <2> QED
    BY <1>n, <1>m, <2>1, <2>2
  \* The exception of parse_pdf: a PDF that was uploaded cannot be parsed.
<1>6. ASSUME NEW w \in Workers, ParseRaises(w)
      PROVE  AttemptsCounted'
  <2>1. /\ wpc[w] = "parse" /\ DocOf(wmsg[w]) \notin objects \ Unreadable
        /\ wpc' = [wpc EXCEPT ![w] = "fail"]
        /\ UNCHANGED <<receives, workerFaults, mstate, wmsg>>
    BY <1>6 DEF ParseRaises, WorkerAt, WDoc, queueVars, budgetVars, faultVars
  <2>2. DocOf(wmsg[w]) \in Unreadable
    BY <1>0, <1>h, <2>1 DEF UploadedFirst
  <2>3. \A m \in Messages : m # wmsg[w] /\ UnderWay(m) => UnderWay(m)'
    BY <1>0, <2>1 DEF UnderWay
  <2> QED
    BY <1>n, <2>1, <2>2, <2>3
  \* The faults pay for the attempt they end.
<1>7. ASSUME NEW w \in Workers, StepRaises(w) \/ WorkerCrash(w)
      PROVE  AttemptsCounted'
  <2>1. /\ workerFaults' = workerFaults + 1 /\ UNCHANGED <<receives, mstate>>
        /\ \A v \in Workers \ {w} : wpc'[v] = wpc[v] /\ wmsg'[v] = wmsg[v]
    BY <1>0, <1>7 DEF StepRaises, WorkerCrash, WorkerAt, WorkerIdle, queueVars
  <2>2. \A m \in Messages : mstate'[m] # "deleted" /\ DocOf(m) \notin Unreadable =>
          receives'[m] <= workerFaults'
    BY <1>0, <1>c, <2>1
  <2> QED
    BY <1>0, <2>1, <2>2 DEF AttemptsCounted
<1>8. ASSUME NEW w \in Workers, MarkFailed(w)
      PROVE  AttemptsCounted'
  <2>1. /\ wpc[w] = "fail" /\ UNCHANGED <<receives, workerFaults, mstate>>
        /\ \A v \in Workers \ {w} : wpc'[v] = wpc[v] /\ wmsg'[v] = wmsg[v]
    BY <1>0, <1>8 DEF MarkFailed, WorkerIdle, queueVars, budgetVars, faultVars
  <2>2. \A m \in Messages : UnderWay(m) => UnderWay(m)'
    BY <2>1 DEF UnderWay
  <2> QED
    BY <1>n, <2>1, <2>2
<1>9. ASSUME NEW w \in Workers, Delete(w)
      PROVE  AttemptsCounted'
  <2>1. /\ wpc[w] = "delete" /\ UNCHANGED <<receives, workerFaults>>
        /\ \A v \in Workers \ {w} : wpc'[v] = wpc[v] /\ wmsg'[v] = wmsg[v]
    BY <1>0, <1>9 DEF Delete, WorkerIdle, budgetVars, faultVars
  <2>2. wmsg[w] \in Messages /\ mstate[wmsg[w]] = "inflight" /\ wreceipt[w] = receives[wmsg[w]]
    BY <1>0, <1>h, <2>1 DEF Receipts
  <2>3. mstate' = [mstate EXCEPT ![wmsg[w]] = "deleted"]
    BY <1>9, <2>2 DEF Delete
  <2>4. \A m \in Messages : m # wmsg[w] /\ UnderWay(m) => UnderWay(m)'
    BY <2>1 DEF UnderWay
  <2> QED
    BY <1>0, <1>n, <2>1, <2>2, <2>3, <2>4
<1> QED
  BY <1>1, <1>2, <1>3, <1>4, <1>5, <1>6, <1>7, <1>8, <1>9
  DEF Next, Handle, vars, ReserveKnown, ReserveNew, CreateDocument, Upload, UploadRejected,
      MarkQueued, NotEnqueued, UnmarkQueued, RequestRaises, ApiCrash, queueVars, workerVars, budgetVars, faultVars

(* An attempt that does not end with the worker's death ends in            *)
(* mark_failed or in the deletion of the message, and the next one holds   *)
(* the message before it touches the row.                                  *)
LEMMA NextFailureShown ==
  /\ TypeInv /\ Reliable /\ OneMessage /\ OneHolder /\ Receipts /\ FailureShown /\ [Next]_vars
  => FailureShown'
<1> SUFFICES ASSUME TypeInv, Reliable, OneMessage, OneHolder, Receipts, FailureShown,
                    [Next]_vars
             PROVE  FailureShown'
  OBVIOUS
<1>0. /\ status \in [Docs -> Statuses]
      /\ mstate \in [Messages -> MessageStates]
      /\ wpc \in [Workers -> WorkerPC]
      /\ wmsg \in [Workers -> Messages \cup {NoMsg}]
      /\ NoMsg \notin Messages
      /\ \A w \in Workers : wpc[w] # "idle" => wmsg[w] \in Messages /\ WDoc(w) \in Docs
      /\ \A m \in Messages : DocOf(m) \in Docs
      /\ receives \in [Messages -> Nat]
  BY SingleFacts, SettleFacts, MessageDoc
<1>h. /\ \A w \in Workers : wpc[w] = "idle" => wmsg[w] = NoMsg
      /\ \A w \in Workers : wpc[w] # "idle" => mstate[wmsg[w]] = "inflight"
      /\ \A v, w \in Workers : wpc[v] # "idle" /\ wmsg[v] = wmsg[w] => v = w
  BY HolderFacts
<1>o. \A m, n \in Messages :
        mstate[m] # "unsent" /\ mstate[n] # "unsent" /\ DocOf(m) = DocOf(n) => m = n
  BY DEF OneMessage
<1>u. \A m \in Messages : receives[m] > 0 => mstate[m] # "unsent"
  BY <1>0 DEF Receipts
  \* A step that lets no message go and takes no row from 'failed'.
<1>n. ASSUME receives' = receives, abandoned' = abandoned, wmsg' = wmsg,
             \A m \in Messages : mstate[m] = "deleted" => mstate'[m] = "deleted",
             \A d \in Docs : status[d] = "failed" => status'[d] = "failed"
      PROVE  FailureShown'
  BY <1>0, <1>n DEF FailureShown
<1>1. ASSUME UNCHANGED <<receives, abandoned, mstate, wmsg, status>>
      PROVE  FailureShown'
  BY <1>n, <1>1
<1>2. ASSUME NEW c \in Clients, CreateDocument(c) \/ MarkQueued(c)
      PROVE  FailureShown'
  BY <1>0, <1>n, <1>2
  DEF CreateDocument, MarkQueued, Queueable, queueVars, workerVars, faultVars
<1>3. ASSUME NEW c \in Clients, Send(c) \/ SendFails(c)
      PROVE  FailureShown'
  BY <1>0, <1>n, <1>3 DEF Send, SendFails, Enqueue, NextMessage, dbVars, queueVars, workerVars, faultVars
<1>4. ASSUME NEW c \in Clients, UnmarkQueued(c)
      PROVE  FailureShown'
  BY <1>4 DEF UnmarkQueued, OneMessage
<1>5. ASSUME NEW m \in Messages, Expire(m) \/ Redrive(m)
      PROVE  FailureShown'
  BY <1>0, <1>n, <1>5 DEF Expire, Redrive, dbVars, workerVars, faultVars
<1>6. ASSUME NEW w \in Workers, Receive(w)
      PROVE  FailureShown'
  <2>1. PICK m \in Messages :
          /\ mstate[m] = "visible" /\ mstate' = [mstate EXCEPT ![m] = "inflight"]
          /\ receives' = [receives EXCEPT ![m] = @ + 1]
          /\ wmsg' = [wmsg EXCEPT ![w] = m]
          /\ abandoned' = abandoned \ {m}
    BY <1>6 DEF Receive
  <2>2. wmsg[w] = NoMsg /\ status' = status
    BY <1>h, <1>6 DEF Receive, dbVars
  <2> QED
    BY <1>0, <2>1, <2>2 DEF FailureShown
<1>7. ASSUME NEW w \in Workers, Claim(w) \/ MarkParsed(w)
      PROVE  FailureShown'
  <2>1. /\ wpc[w] # "idle" /\ UNCHANGED <<receives, abandoned, mstate, wmsg>>
        /\ \A d \in Docs \ {WDoc(w)} : status'[d] = status[d]
    BY <1>0, <1>7 DEF Claim, MarkParsed, WorkerAt, queueVars, faultVars
  <2>2. \A m \in Messages : receives[m] > 0 /\ DocOf(m) = WDoc(w) => m = wmsg[w]
    BY <1>0, <1>h, <1>o, <1>u, <2>1 DEF WDoc
  <2> QED
    BY <1>0, <2>1, <2>2 DEF FailureShown
<1>8. ASSUME NEW w \in Workers, WorkerCrash(w)
      PROVE  FailureShown'
  <2>1. /\ abandoned' = abandoned \cup {wmsg[w]}
        /\ \A v \in Workers \ {w} : wmsg'[v] = wmsg[v]
        /\ UNCHANGED <<receives, mstate, status>>
    BY <1>0, <1>8 DEF WorkerCrash, WorkerIdle, dbVars, queueVars
  <2> QED
    BY <1>0, <2>1 DEF FailureShown
<1>9. ASSUME NEW w \in Workers, MarkFailed(w)
      PROVE  FailureShown'
  <2>1. /\ status' = [status EXCEPT ![WDoc(w)] = "failed"] /\ WDoc(w) \in Docs
        /\ \A v \in Workers \ {w} : wmsg'[v] = wmsg[v]
        /\ UNCHANGED <<receives, abandoned, mstate>>
    BY <1>0, <1>9 DEF MarkFailed, WorkerIdle, queueVars, faultVars
  <2>2. status'[WDoc(w)] = "failed" /\ \A d \in Docs : status[d] = "failed" => status'[d] = "failed"
    BY <1>0, <2>1
  <2>3. \A m \in Messages : (\A v \in Workers : wmsg'[v] # m) =>
          DocOf(m) = WDoc(w) \/ \A v \in Workers : wmsg[v] # m
    BY <2>1 DEF WDoc
  <2> QED
    BY <1>0, <2>1, <2>2, <2>3 DEF FailureShown
<1>10. ASSUME NEW w \in Workers, Delete(w)
       PROVE  FailureShown'
  <2>1. /\ wpc[w] = "delete" /\ UNCHANGED <<receives, abandoned, status>>
        /\ \A v \in Workers \ {w} : wmsg'[v] = wmsg[v]
    BY <1>0, <1>10 DEF Delete, WorkerIdle, dbVars, faultVars
  <2>2. wmsg[w] \in Messages /\ mstate[wmsg[w]] = "inflight" /\ wreceipt[w] = receives[wmsg[w]]
    BY <1>0, <1>h, <2>1 DEF Receipts
  <2>3. mstate' = [mstate EXCEPT ![wmsg[w]] = "deleted"]
    BY <1>10, <2>2 DEF Delete
  <2> QED
    BY <1>0, <2>1, <2>2, <2>3 DEF FailureShown
<1> QED
  BY <1>1, <1>2, <1>3, <1>4, <1>5, <1>6, <1>7, <1>8, <1>9, <1>10
  DEF Next, Handle, vars, ReserveKnown, ReserveNew, Upload, UploadRejected, NotEnqueued, RequestRaises, ApiCrash,
      DropDuplicate, Parse, ParseRaises, SaveReports, Score, StepRaises, WorkerAt, dbVars, queueVars,
      workerVars, faultVars

LEMMA NextSettleInv ==
  TypeInv /\ StoreInv /\ SingleInv /\ SettleInv /\ UploadedFirst /\ [Next]_vars => SettleInv'
<1>1. Reliable' <=> Reliable
  BY DEF Reliable
<1> QED
  BY <1>1, NextReceipts, NextPoisonKept, NextAttemptsCounted, NextFailureShown
  DEF SingleInv, SettleInv

(* A dead message is in nobody's hands, so none of its receives is still   *)
(* under way.                                                              *)
LEMMA SettledFromInv == TypeInv /\ SingleInv /\ SettleInv => SettledRightly
<1> SUFFICES ASSUME TypeInv, OneHolder, Receipts, PoisonKept, AttemptsCounted, FailureShown,
                    NEW m \in Messages
             PROVE  /\ mstate[m] = "deleted" => DocOf(m) \notin Unreadable
                    /\ mstate[m] = "dead" =>
                         /\ DocOf(m) \in Unreadable \/ workerFaults >= MaxReceive
                         /\ m \notin abandoned => status[DocOf(m)] = "failed"
  BY DEF SettledRightly, SingleInv, SettleInv
<1>1. mstate[m] = "deleted" => DocOf(m) \notin Unreadable
  BY DEF PoisonKept
<1>2. ASSUME mstate[m] = "dead"
      PROVE  /\ \A w \in Workers : wmsg[w] # m
             /\ receives[m] = MaxReceive
  BY <1>2, SingleFacts, HolderFacts DEF Receipts
<1>3. ASSUME mstate[m] = "dead", m \notin abandoned
      PROVE  status[DocOf(m)] = "failed"
  BY <1>2, <1>3, SettleFacts DEF FailureShown
<1>4. ASSUME mstate[m] = "dead", DocOf(m) \notin Unreadable
      PROVE  workerFaults >= MaxReceive
  <2>1. ~UnderWay(m)
    BY <1>2, <1>4 DEF UnderWay
  <2>2. receives[m] <= workerFaults + 0
    BY <1>4, <2>1 DEF AttemptsCounted
  <2> QED
    BY <1>2, <1>4, <2>2, SettleFacts
<1> QED
  BY <1>1, <1>3, <1>4

(* Under the conditions of ParsedOnce, and when no document is completed   *)
(* before it is uploaded, a message is deleted only for a PDF that could   *)
(* be parsed, and goes to the dead-letter queue only for one that cannot   *)
(* be, or after as many worker faults as the queue allows receives; and a  *)
(* dead one's document says 'failed' unless the last attempt was cut off.  *)
THEOREM MessagesSettle == Spec => MessagesSettleRightly
<1>1. Spec /\ []UploadedFirst => []SettledRightly
  BY InitTypeInv, NextTypeInv, InitStoreInv, NextStoreInv, InitSendInv, NextSendInv,
     InitSingleInv, NextSingleInv, InitSettleInv, NextSettleInv, SettledFromInv, PTL DEF Spec
<1> QED
  BY <1>1, PTL DEF MessagesSettleRightly

=============================================================================
