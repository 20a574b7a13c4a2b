---------------------------- MODULE OfflineProofs ---------------------------
(***************************************************************************)
(* Theorems about the two stores of a process that works without the       *)
(* database: JsonStore, the worker's file, for any documents, contents and *)
(* processes, and QueueStats, the cache of the queue's counters, for any   *)
(* threads and delays.                                                     *)
(***************************************************************************)
EXTENDS JsonStore, QueueStats, TLAPS

(* What a call makes of a state: another state, in which every report is   *)
(* still there and its owner's, and parsed is only what was so or has just *)
(* been confirmed.                                                         *)
LEMMA EditedKeeps ==
  ASSUME NEW call \in Calls, NEW s \in States, NEW d \in Documents
  PROVE  LET t == Edited(call, s, d)
         IN  /\ t \in States
             /\ \A r \in Reports : s.reports[r] # NoDocument => t.reports[r] = s.reports[r]
             /\ call = "save" => Stored(t, d)
             /\ \A e \in Documents : t.status[e] = "parsed" =>
                  s.status[e] = "parsed" \/ (call = "confirm" /\ e = d)
<1> USE JsonAssumption DEF States, Statuses
<1>1. CASE call = "register"
  BY <1>1 DEF Edited, RegisterDocument
<1>2. CASE call = "claim"
  BY <1>2 DEF Edited, ClaimForParsing
<1>3. CASE call = "save"
  BY <1>3, NoneAssumption DEF Edited, SaveReports, Stored
<1>4. CASE call = "confirm"
  BY <1>4 DEF Edited, MarkDocument
<1>5. CASE call = "fail"
  BY <1>5 DEF Edited, MarkDocument
<1> QED
  BY <1>1, <1>2, <1>3, <1>4, <1>5 DEF Calls

(* A process between its load and its write has something to write.        *)
JsonTypes ==
  /\ JsonTypeOK
  /\ \A p \in Processes : Busy(p) => copy[p] \in States

LEMMA InitJsonTypes == JsonInit => JsonTypes
<1> SUFFICES ASSUME JsonInit
             PROVE  JsonTypes
  OBVIOUS
<1>1. Empty \in States
  BY DEF Empty, States, Statuses
<1>2. doc \in [Processes -> Documents] /\ file \in Files
  BY <1>1 DEF JsonInit, Files
<1>3. /\ pc \in [Processes -> Calls \cup {"idle", "parse", "delete", "drop"}]
      /\ phase \in [Processes -> {"load", "truncate", "write"}]
      /\ copy \in [Processes -> States \cup {NoCopy}]
      /\ \A p \in Processes : ~ Busy(p)
  BY DEF JsonInit, Busy
<1>4. settled \subseteq Documents /\ overlapped \in BOOLEAN /\ cut \in BOOLEAN
  BY DEF JsonInit
<1>5. starts \in 0 .. MaxStarts /\ faults \in 0 .. MaxFaults
  <2>1. starts = 0 /\ faults = 0
    BY DEF JsonInit
  <2> QED
    BY <2>1, JsonAssumption
<1>6. JsonTypeOK
  BY <1>2, <1>3, <1>4, <1>5 DEF JsonTypeOK
<1> QED
  BY <1>3, <1>6 DEF JsonTypes

LEMMA NextJsonTypes == JsonTypes /\ [JsonNext]_jsonVars => JsonTypes'
<1> SUFFICES ASSUME JsonTypes, [JsonNext]_jsonVars
             PROVE  JsonTypes'
  OBVIOUS
<1> USE JsonAssumption DEF JsonTypes, JsonTypeOK, Busy, Goto, Calls
<1>1. ASSUME NEW p \in Processes, NEW d \in Documents, NEW call \in {"register", "claim"},
             Start(p, d, call)
      PROVE  JsonTypes'
  BY <1>1 DEF Start
<1>2. ASSUME NEW p \in Processes, LoadRaises(p)
      PROVE  JsonTypes'
  BY <1>2 DEF LoadRaises
<1>3. ASSUME NEW p \in Processes, Refuse(p)
      PROVE  JsonTypes'
  BY <1>3 DEF Refuse
<1>4. ASSUME NEW p \in Processes, MarkNothing(p)
      PROVE  JsonTypes'
  BY <1>4 DEF MarkNothing, After
<1>5. ASSUME NEW p \in Processes, Load(p)
      PROVE  JsonTypes'
  <2>1. file \in States
    BY <1>5 DEF Load, Files
  <2>2. Edited(pc[p], file, doc[p]) \in States
    BY <1>5, <2>1, EditedKeeps DEF Load
  <2>3. overlapped' \in BOOLEAN
    BY <1>5 DEF Load
  <2> QED
    BY <1>5, <2>2, <2>3 DEF Load
<1>6. ASSUME NEW p \in Processes, Truncate(p)
      PROVE  JsonTypes'
  BY <1>6 DEF Truncate, Files
<1>7. ASSUME NEW p \in Processes, Write(p)
      PROVE  JsonTypes'
  BY <1>7 DEF Write, After, Files
<1>8. ASSUME NEW p \in Processes, ParsePdf(p)
      PROVE  JsonTypes'
  BY <1>8 DEF ParsePdf
<1>9. ASSUME NEW p \in Processes, DeleteMessage(p)
      PROVE  JsonTypes'
  BY <1>9 DEF DeleteMessage
<1>10. ASSUME NEW p \in Processes, Crash(p)
       PROVE  JsonTypes'
  <2>1. cut' \in BOOLEAN
    BY <1>10 DEF Crash
  <2> QED
    BY <1>10, <2>1 DEF Crash
<1>11. CASE UNCHANGED jsonVars
  BY <1>11 DEF jsonVars
<1> QED
  BY <1>1, <1>2, <1>3, <1>4, <1>5, <1>6, <1>7, <1>8, <1>9, <1>10, <1>11 DEF JsonNext

(* The types hold, and no process writes back a state it has not loaded.   *)
THEOREM JsonTypeCorrect == JsonSpec => []JsonTypes
BY InitJsonTypes, NextJsonTypes, PTL DEF JsonSpec
-----------------------------------------------------------------------------
(* All reports of a document are where they will be read: in the file, and *)
(* in what is about to be written over it.                                 *)
HasAll(d) ==
  /\ file # Torn => Stored(file, d)
  /\ \A p \in Processes : Busy(p) => Stored(copy[p], d)

(* Processes that do not overlap hand one complete state on to the next.   *)
Handover ==
  /\ \A p, q \in Processes : Busy(p) /\ Busy(q) => p = q
  /\ \A p \in Processes : Busy(p) => (phase[p] = "write" <=> file = Torn)
  /\ file = Torn => \E p \in Processes : Busy(p)
  /\ file # Torn => Complete(file)
  /\ \A p \in Processes : Busy(p) =>
       /\ Complete(copy[p])
       /\ file # Torn => copy[p] = Edited(pc[p], file, doc[p])
       /\ pc[p] = "save" => Stored(copy[p], doc[p])
  /\ \A p \in Processes : pc[p] \in {"confirm", "delete"} => HasAll(doc[p])

Undisturbed == ~ overlapped /\ ~ cut
JsonInv == Undisturbed => Handover

LEMMA InitJsonInv == JsonInit => JsonInv
<1> SUFFICES ASSUME JsonInit
             PROVE  Handover
  BY DEF JsonInv
<1>1. /\ file = Empty /\ Empty \in States
      /\ Complete(file)
  BY DEF JsonInit, Empty, States, Statuses, Complete
<1>2. \A p \in Processes : ~ Busy(p) /\ pc[p] \notin {"confirm", "delete"}
  BY DEF JsonInit, Busy
<1> QED
  BY <1>1, <1>2, NoneAssumption DEF Handover

(* What the file has is also in what a process will write over it.         *)
LEMMA StoredTwice ==
  ASSUME JsonTypes, Handover, NEW d \in Documents, file # Torn, Stored(file, d)
  PROVE  HasAll(d)
<1> USE DEF JsonTypes, JsonTypeOK
<1> SUFFICES ASSUME NEW p \in Processes, Busy(p)
             PROVE  Stored(copy[p], d)
  BY DEF HasAll
<1>1. copy[p] = Edited(pc[p], file, doc[p])
  BY DEF Handover
<1>2. pc[p] \in Calls /\ file \in States /\ doc[p] \in Documents
  BY DEF Busy, Files
<1>3. \A r \in Reports : file.reports[r] # NoDocument => copy[p].reports[r] = file.reports[r]
  BY <1>1, <1>2, EditedKeeps
<1> QED
  BY <1>3, JsonAssumption DEF Stored

(* A process that is not writing goes on to another call, or to none.      *)
LEMMA GotoKeeps ==
  ASSUME JsonTypes, Handover, NEW p \in Processes, NEW call, Goto(p, call),
         file' = file,
         \A q \in Processes \ {p} : doc'[q] = doc[q],
         \A d \in settled' : d \in settled \/ HasAll(d),
         ~ (Busy(p) /\ phase[p] = "write"),
         call \in {"confirm", "delete"} => HasAll(doc'[p])
  PROVE  Handover'
<1> USE DEF JsonTypes, JsonTypeOK
<1>1. /\ ~ Busy(p)'
      /\ \A q \in Processes \ {p} : /\ Busy(q)' <=> Busy(q)
                                    /\ pc'[q] = pc[q] /\ phase'[q] = phase[q] /\ copy'[q] = copy[q]
  BY DEF Goto, Busy
<1>2. \A d : HasAll(d) => HasAll(d)'
  BY <1>1 DEF HasAll
<1>3. \A q \in Processes : pc'[q] \in {"confirm", "delete"} => HasAll(doc'[q])
  BY <1>1 DEF Goto, Handover
<1>4. file # Torn => Complete(file)'
  BY DEF Handover, Complete, HasAll
<1>5. \A q \in Processes : Busy(q)' => Complete(copy[q])'
  BY <1>1 DEF Handover, Complete, HasAll
<1> QED
  BY <1>1, <1>2, <1>3, <1>4, <1>5 DEF Handover

(* An accident is remembered.                                              *)
LEMMA NextUndisturbed == [JsonNext]_jsonVars /\ Undisturbed' => Undisturbed
<1> SUFFICES ASSUME [JsonNext]_jsonVars
             PROVE  (overlapped => overlapped') /\ (cut => cut')
  BY DEF Undisturbed
<1>1. overlapped => overlapped'
  BY DEF JsonNext, jsonVars, Start, LoadRaises, Refuse, MarkNothing, Load, Truncate, Write,
         ParsePdf, DeleteMessage, Crash
<1>2. cut => cut'
  BY DEF JsonNext, jsonVars, Start, LoadRaises, Refuse, MarkNothing, Load, Truncate, Write,
         ParsePdf, DeleteMessage, Crash
<1> QED
  BY <1>1, <1>2

LEMMA NextJsonInv == JsonTypes /\ JsonInv /\ [JsonNext]_jsonVars => JsonInv'
<1> SUFFICES ASSUME JsonTypes, JsonInv, [JsonNext]_jsonVars, Undisturbed'
             PROVE  Handover'
  BY DEF JsonInv
<1>0. Undisturbed /\ Handover
  BY NextUndisturbed DEF JsonInv
<1> USE <1>0 DEF JsonTypes, JsonTypeOK
<1>1. ASSUME NEW p \in Processes, NEW d \in Documents, NEW call \in {"register", "claim"},
             Start(p, d, call)
      PROVE  Handover'
  BY <1>1, GotoKeeps DEF Start, Busy, Calls
<1>2. ASSUME NEW p \in Processes, LoadRaises(p)
      PROVE  Handover'
  BY <1>2, GotoKeeps DEF LoadRaises, Busy
<1>3. ASSUME NEW p \in Processes, Refuse(p)
      PROVE  Handover'
  <2>1. file.status[doc[p]] = "parsed" => HasAll(doc[p])
    BY <1>3, StoredTwice DEF Refuse, Handover, Complete
  <2> QED
    BY <1>3, <2>1, GotoKeeps DEF Refuse, Busy
<1>4. ASSUME NEW p \in Processes, MarkNothing(p)
      PROVE  Handover'
  <2>1. pc[p] = "confirm" => HasAll(doc[p])
    BY DEF Handover
  <2> QED
    BY <1>4, <2>1, GotoKeeps DEF MarkNothing, After, Busy
<1>5. ASSUME NEW p \in Processes, Load(p)
      PROVE  Handover'
  <2> DEFINE new == Edited(pc[p], file, doc[p])
  <2>1. /\ \A q \in Processes : ~ Busy(q)
        /\ file \in States /\ file # Torn /\ Complete(file)
    BY <1>5 DEF Load, Undisturbed, Handover, Busy, Files
  <2>2. /\ \A d \in Documents : Stored(file, d) => Stored(new, d)
        /\ pc[p] = "save" => Stored(new, doc[p])
        /\ \A e \in Documents : new.status[e] = "parsed" =>
             file.status[e] = "parsed" \/ (pc[p] = "confirm" /\ e = doc[p])
    <3>1. /\ \A r \in Reports : file.reports[r] # NoDocument => new.reports[r] = file.reports[r]
          /\ pc[p] = "save" => Stored(new, doc[p])
          /\ \A e \in Documents : new.status[e] = "parsed" =>
               file.status[e] = "parsed" \/ (pc[p] = "confirm" /\ e = doc[p])
      <4>1. pc[p] \in Calls /\ doc[p] \in Documents
        BY <1>5 DEF Load
      <4> HIDE DEF JsonTypes
      <4> QED
        BY <2>1, <4>1, EditedKeeps
    <3> HIDE DEF new
    <3> QED
      BY <3>1, JsonAssumption DEF Stored
  <2>3. pc[p] = "confirm" => Stored(file, doc[p])
    BY <2>1 DEF Handover, HasAll
  <2>4. Complete(new)
    BY <2>1, <2>2, <2>3 DEF Complete
  <2>5. /\ file' = file /\ pc' = pc /\ doc' = doc /\ settled' = settled
        /\ copy'[p] = new /\ phase'[p] = "truncate"
        /\ \A q \in Processes : Busy(q)' => q = p
    BY <1>5, <2>1 DEF Load, Busy
  <2>6. Complete(file)' /\ Complete(copy[p])'
    BY <2>1, <2>4, <2>5 DEF Complete
  <2>7. \A d \in Documents : HasAll(d) => HasAll(d)'
    BY <2>1, <2>2, <2>5 DEF HasAll, Stored
  <2> QED
    BY <2>1, <2>2, <2>5, <2>6, <2>7 DEF Handover
<1>6. ASSUME NEW p \in Processes, Truncate(p)
      PROVE  Handover'
  <2>1. /\ Busy(p) /\ \A q \in Processes : Busy(q)' <=> Busy(q)
        /\ file' = Torn /\ phase'[p] = "write" /\ pc' = pc /\ doc' = doc /\ copy' = copy
        /\ settled' = settled
    BY <1>6 DEF Truncate, Busy
  <2>2. \A q \in Processes : Complete(copy[q])' <=> Complete(copy[q])
    BY <2>1 DEF Complete
  <2>3. \A d : HasAll(d) => HasAll(d)'
    BY <2>1 DEF HasAll
  <2> QED
    BY <2>1, <2>2, <2>3 DEF Handover
<1>7. ASSUME NEW p \in Processes, Write(p)
      PROVE  Handover'
  <2>1. /\ Busy(p) /\ copy[p] \in States /\ file' = copy[p]
        /\ doc' = doc /\ settled' = settled
        /\ pc' = [pc EXCEPT ![p] = After(pc[p])]
    BY <1>7 DEF Write, Goto, Busy
  <2>2. \A q \in Processes : ~ Busy(q)'
    BY <1>7, <2>1 DEF Write, Goto, Busy, Handover
  <2>3. \A d : HasAll(d) => HasAll(d)'
    BY <2>1, <2>2 DEF HasAll
  <2>4. After(pc[p]) \in {"confirm", "delete"} => HasAll(doc[p])'
    <3>1. CASE pc[p] = "save"
      BY <2>1, <2>2, <3>1 DEF Handover, HasAll
    <3>2. CASE pc[p] = "confirm"
      BY <2>1, <2>3, <3>2 DEF Handover
    <3> QED
      BY <3>1, <3>2 DEF After
  <2>5. Complete(file)'
    BY <2>1 DEF Handover, Complete
  <2> QED
    BY <2>1, <2>2, <2>3, <2>4, <2>5, NoneAssumption DEF Handover
<1>8. ASSUME NEW p \in Processes, ParsePdf(p)
      PROVE  Handover'
  BY <1>8, GotoKeeps DEF ParsePdf, Busy, Calls
<1>9. ASSUME NEW p \in Processes, DeleteMessage(p)
      PROVE  Handover'
  <2>1. pc[p] = "delete" => HasAll(doc[p])
    BY DEF Handover
  <2> QED
    BY <1>9, <2>1, GotoKeeps DEF DeleteMessage, Busy, Calls
<1>10. ASSUME NEW p \in Processes, Crash(p)
       PROVE  Handover'
  <2>1. ~ (Busy(p) /\ phase[p] = "write")
    BY <1>10 DEF Crash, Undisturbed, Busy
  <2> QED
    BY <1>10, <2>1, GotoKeeps DEF Crash
<1>11. CASE UNCHANGED jsonVars
  BY <1>11 DEF jsonVars, Handover, HasAll, Complete, Busy
<1> QED
  BY <1>1, <1>2, <1>3, <1>4, <1>5, <1>6, <1>7, <1>8, <1>9, <1>10, <1>11 DEF JsonNext

(* Workers that neither overlap nor die in the middle of a write lose      *)
(* nothing: what the file says, or is about to say, is complete.           *)
THEOREM JsonStoreKeeps == JsonSpec => []StoredUnlessOverlap
<1>1. JsonInv => StoredUnlessOverlap
  BY DEF JsonInv, Undisturbed, Handover, StoredUnlessOverlap
<1> QED
  BY <1>1, InitJsonTypes, NextJsonTypes, InitJsonInv, NextJsonInv, PTL DEF JsonSpec

-----------------------------------------------------------------------------
(* Where the current state is read: in the file, or with its only writer.  *)
Reads(s) ==
  \/ file # Torn /\ s = file
  \/ file = Torn /\ \E p \in Processes : Busy(p) /\ phase[p] = "write" /\ s = copy[p]

(* Without an accident the current state is what can be read, and one of   *)
(* the file's states.                                                      *)
LEMMA CurrentRead ==
  ASSUME JsonTypes, Undisturbed, Handover
  PROVE  Current \in States /\ \A s : Reads(s) => s = Current
<1>1. CASE file # Torn
  BY <1>1 DEF Current, Reads, JsonTypes, JsonTypeOK, Files
<1>2. CASE file = Torn
  <2> DEFINE writer == CHOOSE p \in Processes : Busy(p) /\ phase[p] = "write"
  <2>1. \E p \in Processes : Busy(p) /\ phase[p] = "write"
    BY <1>2 DEF Handover
  <2>2. writer \in Processes /\ Busy(writer) /\ phase[writer] = "write"
    BY <2>1
  <2>3. Current = copy[writer]
    BY <1>2 DEF Current, Undisturbed
  <2> HIDE DEF writer
  <2> QED
    BY <1>2, <2>2, <2>3 DEF Reads, Handover, JsonTypes
<1> QED
  BY <1>1, <1>2

(* The same after a step.                                                  *)
LEMMA CurrentReadNext ==
  ASSUME JsonTypes', Undisturbed', Handover'
  PROVE  (Current \in States)' /\ \A s : (Reads(s) => s = Current)'
<1>1. CASE file' # Torn
  BY <1>1 DEF Current, Reads, JsonTypes, JsonTypeOK, Files
<1>2. CASE file' = Torn
  <2> DEFINE writer == CHOOSE p \in Processes :
                         (pc'[p] \in Calls /\ phase'[p] # "load") /\ phase'[p] = "write"
  <2>1. \E p \in Processes : (pc'[p] \in Calls /\ phase'[p] # "load") /\ phase'[p] = "write"
    BY <1>2 DEF Handover, Busy
  <2>2. writer \in Processes /\ (pc'[writer] \in Calls /\ phase'[writer] # "load") /\ phase'[writer] = "write"
    BY <2>1
  <2>3. Current' = copy'[writer]
    BY <1>2 DEF Current, Undisturbed, Busy
  <2> HIDE DEF writer
  <2> QED
    BY <1>2, <2>2, <2>3 DEF Reads, Handover, JsonTypes, Busy
<1> QED
  BY <1>1, <1>2

(* As long as the file stays and its writer goes on, so does what is read. *)
LEMMA UnseenSteps ==
  ASSUME JsonTypes, Undisturbed, Handover, JsonTypes', Undisturbed', Handover', file' = file,
         \A q \in Processes : Busy(q) /\ phase[q] = "write" =>
           Busy(q)' /\ phase'[q] = "write" /\ copy'[q] = copy[q]
  PROVE  Current' = Current
<1>1. CASE file # Torn
  BY <1>1 DEF Current
<1>2. CASE file = Torn
  <2>1. PICK q \in Processes : Busy(q) /\ phase[q] = "write"
    BY <1>2 DEF Handover
  <2>2. Busy(q)' /\ phase'[q] = "write" /\ copy'[q] = copy[q]
    BY <2>1
  <2>3. Current = copy[q]
    BY <1>2, <2>1, CurrentRead DEF Reads
  <2>4. Current' = copy'[q]
    BY <1>2, <2>2, CurrentReadNext DEF Reads
  <2> QED
    BY <2>2, <2>3, <2>4
<1> QED
  BY <1>1, <1>2

(* What a call makes of the current state is a step of the catalogue.      *)
LEMMA EditsRefine ==
  ASSUME NEW call \in Calls, NEW d \in Documents, Current \in States, Current' = Edited(call, Current, d),
         settled' = settled, call = "confirm" => Stored(Current, d)
  PROVE  [AsCatalogue!Next]_(AsCatalogue!vars)
<1> DEFINE confirmed(s) == {e \in Documents : s.status[e] = "parsed"}
<1> USE JsonAssumption, NoneAssumption DEF States, Statuses
<1>1. SUFFICES \/ AsCatalogue!Take(d) \/ AsCatalogue!Confirm(d) \/ AsCatalogue!Retract(d)
               \/ Current'.reports = Current.reports /\ confirmed(Current') = confirmed(Current)
  BY DEF AsCatalogue!Next, AsCatalogue!vars
<1>2. CASE call \in {"register", "claim", "fail"}
  <2>1. Current'.reports = Current.reports /\ confirmed(Current') = confirmed(Current) \ {d}
    BY <1>2 DEF Edited, RegisterDocument, ClaimForParsing, MarkDocument
  <2> QED
    BY <2>1 DEF AsCatalogue!Retract
<1>3. CASE call = "confirm"
  <2>1. Current'.reports = Current.reports /\ confirmed(Current') = confirmed(Current) \cup {d}
    BY <1>3 DEF Edited, MarkDocument
  <2>2. AsCatalogue!Complete(d)
    BY <1>3 DEF AsCatalogue!Complete, AsCatalogue!Missing, Stored
  <2> QED
    BY <2>1, <2>2 DEF AsCatalogue!Confirm
<1>4. CASE call = "save"
  <2>1. /\ confirmed(Current') = confirmed(Current)
        /\ Current'.reports = [r \in Reports |-> IF r \in AsCatalogue!Missing(d) THEN d ELSE Current.reports[r]]
    BY <1>4 DEF Edited, SaveReports, AsCatalogue!Missing
  <2>2. CASE AsCatalogue!Missing(d) = {}
    BY <2>1, <2>2
  <2>3. CASE AsCatalogue!Missing(d) # {}
    BY <2>1, <2>3 DEF AsCatalogue!Take
  <2> QED
    BY <2>2, <2>3
<1> QED
  BY <1>2, <1>3, <1>4 DEF Calls

(* Truncating the file is where a call takes effect: what is written next  *)
(* is all there is to read.  Only a deleted message is seen besides.       *)
LEMMA FileSteps ==
  ASSUME JsonTypes, JsonInv, JsonTypes', JsonInv', [JsonNext]_jsonVars, Undisturbed'
  PROVE  [AsCatalogue!Next]_(AsCatalogue!vars)
<1>0. Undisturbed /\ Handover /\ Handover'
  <2>1. Undisturbed
    BY NextUndisturbed
  <2> QED
    BY <2>1 DEF JsonInv
<1> USE <1>0 DEF JsonTypes, JsonTypeOK
<1>1. SUFFICES ASSUME Current' # Current \/ settled' # settled
               PROVE  AsCatalogue!Next \/ UNCHANGED AsCatalogue!vars
  BY DEF AsCatalogue!vars
<1>2. PICK p \in Processes :
        \/ \E d \in Documents, call \in {"register", "claim"} : Start(p, d, call)
        \/ LoadRaises(p) \/ Refuse(p) \/ MarkNothing(p) \/ Load(p) \/ Truncate(p) \/ Write(p)
        \/ ParsePdf(p) \/ DeleteMessage(p) \/ Crash(p)
  <2>1. ~ UNCHANGED jsonVars
    BY <1>1, UnseenSteps DEF jsonVars, Busy
  <2> QED
    BY <2>1 DEF JsonNext
<1>3. CASE Truncate(p)
  <2>1. /\ Busy(p) /\ file # Torn /\ file \in States /\ Current = file
        /\ copy[p] = Edited(pc[p], file, doc[p])
    BY <1>3 DEF Truncate, Busy, Handover, Current, Files
  <2>2. file' = Torn /\ Busy(p)' /\ phase'[p] = "write" /\ copy' = copy /\ settled' = settled
    BY <1>3 DEF Truncate, Busy
  <2>3. Current' = copy[p]
    BY <2>2, CurrentReadNext DEF Reads
  <2>4. pc[p] = "confirm" => Stored(Current, doc[p])
    BY <2>1 DEF Handover, HasAll
  <2> QED
    BY <2>1, <2>2, <2>3, <2>4, EditsRefine DEF Busy
<1>4. CASE Write(p)
  <2>1. /\ Busy(p) /\ phase[p] = "write" /\ copy[p] \in States
        /\ file' = copy[p] /\ settled' = settled
    BY <1>4 DEF Write, Busy
  <2>2. Current = copy[p] /\ Current' = copy[p]
    <3>1. file = Torn
      BY <2>1 DEF Handover
    <3>2. Current = copy[p]
      BY <2>1, <3>1, CurrentRead DEF Reads
    <3>3. Current' = copy[p]
      BY <2>1, NoneAssumption DEF Current
    <3> QED
      BY <3>2, <3>3
  <2> QED
    BY <1>1, <2>1, <2>2
<1>5. CASE ~ Truncate(p) /\ ~ Write(p)
  <2>1. /\ file' = file
        /\ \A q \in Processes : Busy(q) /\ phase[q] = "write" =>
             Busy(q)' /\ phase'[q] = "write" /\ copy'[q] = copy[q]
    <3>1. /\ file' = file
          /\ \A q \in Processes \ {p} : pc'[q] = pc[q] /\ phase'[q] = phase[q] /\ copy'[q] = copy[q]
      BY <1>2, <1>5 DEF Start, LoadRaises, Refuse, MarkNothing, Load, ParsePdf, DeleteMessage, Crash, Goto
    <3>2. ~ (Busy(p) /\ phase[p] = "write")
      BY <1>2, <1>5 DEF Start, LoadRaises, Refuse, MarkNothing, Load, ParsePdf, DeleteMessage, Crash,
                        Busy, Calls, Undisturbed
    <3> QED
      BY <3>1, <3>2 DEF Busy
  <2>2. Current' = Current
    BY <2>1, UnseenSteps
  <2>3. DeleteMessage(p) /\ pc[p] = "delete"
    BY <1>1, <1>2, <1>5, <2>2 DEF Start, LoadRaises, Refuse, MarkNothing, Load, ParsePdf, DeleteMessage, Crash
  <2>4. Stored(Current, doc[p])
    <3>1. HasAll(doc[p])
      BY <2>3 DEF Handover
    <3>2. CASE file # Torn
      BY <3>1, <3>2 DEF HasAll, Current
    <3>3. CASE file = Torn
      <4>1. PICK q \in Processes : Busy(q) /\ phase[q] = "write"
        BY <3>3 DEF Handover
      <4>2. Current = copy[q]
        BY <3>3, <4>1, CurrentRead DEF Reads
      <4> QED
        BY <3>1, <4>1, <4>2 DEF HasAll
    <3> QED
      BY <3>2, <3>3
  <2>5. AsCatalogue!Ack(doc[p])
    BY <2>2, <2>3, <2>4 DEF DeleteMessage, AsCatalogue!Ack, AsCatalogue!Complete, AsCatalogue!Missing, Stored
  <2> QED
    BY <2>5 DEF AsCatalogue!Next
<1> QED
  BY <1>2, <1>3, <1>4, <1>5

(* The JSON file keeps the promise of the PostgreSQL backend up to the     *)
(* first overlap of two processes or death in the middle of a write.       *)
THEOREM FileRefinement == JsonSpec => FileImplementsCatalogue
<1>1. JsonInit => AsCatalogue!Init
  <2> SUFFICES ASSUME JsonInit
               PROVE  AsCatalogue!Init
    OBVIOUS
  <2>1. Current = Empty /\ settled = {}
    BY NoneAssumption DEF JsonInit, Current, Empty, States, Statuses
  <2> QED
    BY <2>1 DEF AsCatalogue!Init, Empty
<1>2. JsonTypes /\ JsonInv /\ JsonTypes' /\ JsonInv' /\ [JsonNext]_jsonVars
        => [overlapped' \/ cut' \/ [AsCatalogue!Next]_(AsCatalogue!vars)]_jsonVars
  BY FileSteps DEF Undisturbed
<1> QED
  BY <1>1, <1>2, InitJsonTypes, NextJsonTypes, InitJsonInv, NextJsonInv, PTL DEF JsonSpec, FileImplementsCatalogue

-----------------------------------------------------------------------------
(* The cache of the queue's counters.                                      *)
Fetching(t) == tpc[t] \in {"fetching", "fetched"}

(* Where the clock, the threads and the cache stand to one another.        *)
StatsTypes ==
  /\ now \in Nat /\ last \in Nat \cup {Never}
  /\ tpc \in [Threads -> {"idle", "fetching", "fetched", "answering"}]
  /\ asked \in [Threads -> Nat]
  /\ measured \in [Threads -> Nat]
  /\ answer \in [Threads -> [taken : Nat, stamp : Nat] \cup {NoSnapshot}]
  /\ snapshot \in [taken : Nat, stamp : Nat] \cup {NoSnapshot}
  /\ snapshot.taken <= now
  /\ last <= now
  /\ \A t \in Threads :
       /\ asked[t] <= now
       /\ Fetching(t) => now <= asked[t] + Slowest
       /\ tpc[t] = "fetched" => asked[t] <= measured[t] /\ measured[t] <= now

LEMMA InitStatsTypes == StatsInit => StatsTypes
BY StatsAssumption DEF StatsInit, StatsTypes, Fetching, NoSnapshot, Never

LEMMA NextStatsTypes == StatsTypes /\ [StatsNext]_statsVars => StatsTypes'
<1> SUFFICES ASSUME StatsTypes, [StatsNext]_statsVars
             PROVE  StatsTypes'
  OBVIOUS
<1> USE StatsAssumption DEF StatsTypes, Fetching, NoSnapshot, Never
<1>1. CASE Tick
  BY <1>1 DEF Tick
<1>2. ASSUME NEW t \in Threads, Get(t)
      PROVE  StatsTypes'
  BY <1>2 DEF Get
<1>3. ASSUME NEW t \in Threads, Measure(t)
      PROVE  StatsTypes'
  BY <1>3 DEF Measure
<1>4. ASSUME NEW t \in Threads, FetchRaises(t)
      PROVE  StatsTypes'
  BY <1>4 DEF FetchRaises
<1>5. ASSUME NEW t \in Threads, Fill(t)
      PROVE  StatsTypes'
  BY <1>5 DEF Fill, Filled
<1>6. ASSUME NEW t \in Threads, Answer(t)
      PROVE  StatsTypes'
  BY <1>6 DEF Answer
<1>7. CASE UNCHANGED statsVars
  BY <1>7 DEF statsVars
<1> QED
  BY <1>1, <1>2, <1>3, <1>4, <1>5, <1>6, <1>7 DEF StatsNext

-----------------------------------------------------------------------------
(* A snapshot that may answer a get begun at a time.                       *)
Recent(s, time) == s.taken > time - Ttl \/ s.taken >= time - Slowest

(* Whatever is stored while a thread is about to answer is recent for it.  *)
RecentInv ==
  /\ AnswerIsRecent
  /\ \A t \in Threads : tpc[t] = "answering" => snapshot # NoSnapshot /\ Recent(snapshot, asked[t])
  /\ snapshot # NoSnapshot => snapshot.taken >= snapshot.stamp

LEMMA InitRecent == StatsInit => RecentInv
BY DEF StatsInit, RecentInv, AnswerIsRecent

LEMMA NextRecent == StatsTypes /\ RecentInv /\ [StatsNext]_statsVars => RecentInv'
<1> SUFFICES ASSUME StatsTypes, RecentInv, [StatsNext]_statsVars
             PROVE  RecentInv'
  OBVIOUS
<1> USE StatsAssumption DEF StatsTypes, RecentInv, AnswerIsRecent, Recent, Fetching, NoSnapshot, Never
<1>1. CASE Tick
  BY <1>1 DEF Tick
<1>2. ASSUME NEW t \in Threads, Get(t)
      PROVE  RecentInv'
  BY <1>2 DEF Get, Stale
<1>3. ASSUME NEW t \in Threads, Measure(t)
      PROVE  RecentInv'
  BY <1>3 DEF Measure
<1>4. ASSUME NEW t \in Threads, FetchRaises(t)
      PROVE  RecentInv'
  BY <1>4 DEF FetchRaises
<1>5. ASSUME NEW t \in Threads, Fill(t)
      PROVE  RecentInv'
  BY <1>5 DEF Fill, Filled
<1>6. ASSUME NEW t \in Threads, Answer(t)
      PROVE  RecentInv'
  BY <1>6 DEF Answer
<1>7. CASE UNCHANGED statsVars
  BY <1>7 DEF statsVars
<1> QED
  BY <1>1, <1>2, <1>3, <1>4, <1>5, <1>6, <1>7 DEF StatsNext

(* No thread is ever given a snapshot that is older than a time to live or *)
(* a slowest request, whatever other threads store in between.             *)
THEOREM AnswersAreRecent == StatsSpec => []AnswerIsRecent
<1>1. RecentInv => AnswerIsRecent
  BY DEF RecentInv
<1> QED
  BY <1>1, InitStatsTypes, NextStatsTypes, InitRecent, NextRecent, PTL DEF StatsSpec
-----------------------------------------------------------------------------
(* Fetches that do not overlap follow one another: each has begun when     *)
(* last says, and stamps the cache with that.                              *)
FetchInv ==
  /\ \A t, u \in Threads : Fetching(t) /\ Fetching(u) => t = u
  /\ \A t \in Threads : Fetching(t) => asked[t] = last
  /\ \A t \in Threads : tpc[t] = "fetched" => snapshot.taken <= measured[t]
  /\ \/ failed
     \/ last = Never
     \/ \E t \in Threads : Fetching(t)
     \/ snapshot # NoSnapshot /\ snapshot.stamp = last

OrderInv == ~ crossed => FetchInv /\ ~ rewound /\ (early => failed)

LEMMA InitOrder == StatsInit => OrderInv
BY DEF StatsInit, OrderInv, FetchInv, Fetching

(* A fetch that begins while none is under way.                            *)
LEMMA NextFetch ==
  ASSUME StatsTypes, FetchInv, NEW t \in Threads, Get(t), ~ crossed'
  PROVE  FetchInv' /\ (failed \/ ~ (last # Never /\ Stale(snapshot, now) /\ now - last < Ttl))
<1> USE StatsAssumption DEF StatsTypes, FetchInv, Fetching, NoSnapshot, Never
<1>1. CASE Stale(snapshot, now)
  <2>1. \A u \in Threads : ~ Fetching(u)
    BY <1>1 DEF Get
  <2>2. failed \/ last = Never \/ ~ (now - last < Ttl)
    BY <1>1, <2>1 DEF Stale
  <2>3. FetchInv'
    BY <1>1, <2>1 DEF Get
  <2> QED
    BY <2>2, <2>3
<1>2. CASE ~ Stale(snapshot, now)
  BY <1>2 DEF Get
<1> QED
  BY <1>1, <1>2

LEMMA NextOrder == StatsTypes /\ OrderInv /\ [StatsNext]_statsVars => OrderInv'
<1> SUFFICES ASSUME StatsTypes, OrderInv, [StatsNext]_statsVars, ~ crossed'
             PROVE  FetchInv' /\ ~ rewound' /\ (early' => failed')
  BY DEF OrderInv
<1>0. FetchInv /\ ~ rewound /\ (early => failed)
  BY DEF OrderInv, StatsNext, statsVars, Tick, Get, Measure, FetchRaises, Fill, Answer
<1> USE <1>0, StatsAssumption
<1>1. CASE Tick
  BY <1>1 DEF Tick, FetchInv, Fetching
<1>2. ASSUME NEW t \in Threads, Get(t)
      PROVE  FetchInv' /\ ~ rewound' /\ (early' => failed')
  BY <1>2, NextFetch DEF Get
<1>3. ASSUME NEW t \in Threads, Measure(t)
      PROVE  FetchInv' /\ ~ rewound' /\ (early' => failed')
  <2>1. FetchInv'
    BY <1>3 DEF Measure, FetchInv, Fetching, StatsTypes
  <2> QED
    BY <1>3, <2>1 DEF Measure
<1>4. ASSUME NEW t \in Threads, FetchRaises(t)
      PROVE  FetchInv' /\ ~ rewound' /\ (early' => failed')
  BY <1>4 DEF FetchRaises, FetchInv, Fetching, StatsTypes
<1>5. ASSUME NEW t \in Threads, Fill(t)
      PROVE  FetchInv' /\ ~ rewound' /\ (early' => failed')
  <2>1. ~ (measured[t] < snapshot.taken)
    BY <1>5 DEF Fill, FetchInv, StatsTypes, NoSnapshot, Never
  <2>2. FetchInv'
    BY <1>5 DEF Fill, Filled, FetchInv, Fetching, StatsTypes, NoSnapshot, Never
  <2> QED
    BY <1>5, <2>1, <2>2 DEF Fill
<1>6. ASSUME NEW t \in Threads, Answer(t)
      PROVE  FetchInv' /\ ~ rewound' /\ (early' => failed')
  BY <1>6 DEF Answer, FetchInv, Fetching, StatsTypes
<1>7. CASE UNCHANGED statsVars
  BY <1>7 DEF statsVars, FetchInv, Fetching
<1> QED
  BY <1>1, <1>2, <1>3, <1>4, <1>5, <1>6, <1>7 DEF StatsNext

(* Without overlapping fetches the cache does what it is for: the queue    *)
(* sees one request per time to live, and no number goes back in time.     *)
THEOREM FetchesAreRare == StatsSpec => []OneFetchPerTtl
<1>1. OrderInv => OneFetchPerTtl
  BY DEF OrderInv, OneFetchPerTtl
<1> QED
  BY <1>1, InitStatsTypes, NextStatsTypes, InitOrder, NextOrder, PTL DEF StatsSpec
=============================================================================
