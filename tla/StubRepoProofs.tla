--------------------------- MODULE StubRepoProofs ---------------------------
(***************************************************************************)
(* Theorems about StubRepo: its documents, for any number of threads, PDFs *)
(* and failed sends, and its worklist, for any reports and page size.      *)
(***************************************************************************)
EXTENDS StubRepo, FiniteSetTheorems, TLAPS

Doc == [pdf : Pdfs, status : {"received", "queued"}]
Steps == {"idle", "create", "insert", "mark", "send", "unmark"}

UploadTypes ==
  /\ documents \in Seq(Doc)
  /\ accepted \in Seq(Nat) /\ Len(accepted) = Len(documents)
  /\ sent \in Seq(Nat) /\ Len(sent) = Len(documents)
  /\ failures \in Seq(Nat) /\ Len(failures) = Len(documents)
  /\ cpc \in [Clerks -> Steps]
  /\ DOMAIN target = Clerks
  /\ \A c \in Clerks :
       /\ cpc[c] \in {"create", "insert"} => target[c] \in Pdfs
       /\ cpc[c] \in {"mark", "send", "unmark"} => target[c] \in DOMAIN documents

Sending(i) == {c \in Clerks : target[c] = i /\ cpc[c] \in {"send", "unmark"}}

(* What a check found still holds, and nobody else relies on it, until the *)
(* assignment that it guards.                                              *)
RowsDiffer == \A i, j \in DOMAIN documents : documents[i].pdf = documents[j].pdf => i = j
InsertsAreFree ==
  \A c \in Clerks : cpc[c] = "insert" => ~Holds(target[c]) /\ ~Others(c, {"insert"})
MarksAreFree ==
  \A c \in Clerks : cpc[c] = "mark" => documents[target[c]].status = "received" /\ ~Others(c, {"mark"})
SentOnce ==
  \A i \in DOMAIN documents :
    IF documents[i].status = "received" THEN accepted[i] = 0 /\ Sending(i) = {}
    ELSE \/ accepted[i] = 1 /\ Sending(i) = {}
         \/ accepted[i] = 0 /\ \E c \in Clerks : Sending(i) = {c}

Orderly == RowsDiffer /\ InsertsAreFree /\ MarksAreFree /\ SentOnce

(* The messages, by the answers and the sends that raised.                 *)
Counted ==
  \A i \in DOMAIN documents :
    IF queueUrl THEN accepted[i] <= sent[i] /\ sent[i] <= accepted[i] + failures[i]
    ELSE sent[i] = 0

UploadInv == UploadTypes /\ Counted /\ (raced \/ Orderly)

LEMMA InitUpload == StubInit => UploadInv
BY DEF StubInit, UploadInv, UploadTypes, Steps, Counted, Orderly, RowsDiffer, InsertsAreFree, MarksAreFree, SentOnce

(* The counts are parallel to the rows.                                    *)
IsCount(count) == count \in Seq(Nat) /\ Len(count) = Len(documents)

Counts(count, d) ==
  /\ OneMore(count, d) \in Seq(Nat) /\ Len(OneMore(count, d)) = Len(documents)
  /\ \A i \in DOMAIN documents :
       count[i] \in Nat /\ OneMore(count, d)[i] = IF i = d THEN count[i] + 1 ELSE count[i]

LEMMA OneMoreCounts ==
  ASSUME NEW count, IsCount(count), NEW d \in DOMAIN documents, UploadTypes
  PROVE  Counts(count, d)
<1>1. /\ DOMAIN documents = 1 .. Len(documents) /\ Len(documents) \in Nat
      /\ DOMAIN count = 1 .. Len(documents)
  BY DEF UploadTypes, IsCount
<1> QED
  BY <1>1 DEF IsCount, OneMore, Counts

LEMMA NewCounts ==
  ASSUME NEW count, IsCount(count)
  PROVE  /\ Append(count, 0) \in Seq(Nat) /\ Len(Append(count, 0)) = Len(documents) + 1
         /\ \A i \in DOMAIN count : Append(count, 0)[i] = count[i]
         /\ Append(count, 0)[Len(documents) + 1] = 0
BY DEF IsCount

(* The types, action by action.                                            *)
LEMMA NextUploadTypes ==
  ASSUME UploadTypes, UploadNext
  PROVE  UploadTypes'
<1>0. /\ documents \in Seq(Doc) /\ accepted \in Seq(Nat) /\ Len(accepted) = Len(documents)
      /\ DOMAIN documents = 1 .. Len(documents) /\ Len(documents) \in Nat
      /\ DOMAIN accepted = DOMAIN documents
      /\ IsCount(accepted) /\ IsCount(sent) /\ IsCount(failures)
  BY DEF UploadTypes, IsCount
<1> USE DEF countVars
<1> PICK c \in Clerks : Clerk(c)
  BY DEF UploadNext
<1>1. ASSUME NEW pdf \in Pdfs, UploadUrl(c, pdf)
      PROVE  UploadTypes'
  BY <1>1 DEF UploadTypes, UploadUrl, Becomes, Steps
<1>2. ASSUME NEW d \in DOMAIN documents, CheckStatus(c, d)
      PROVE  UploadTypes'
  BY <1>2 DEF UploadTypes, CheckStatus, Becomes, Steps
<1>3. CASE CheckSha(c)
  BY <1>3 DEF UploadTypes, CheckSha, Becomes, Steps
<1>4. CASE CreateDocument(c)
  <2> DEFINE row == [pdf |-> target[c], status |-> "received"]
  <2>1. row \in Doc
    BY <1>4 DEF UploadTypes, CreateDocument, Doc
  <2>2. documents' = Append(documents, row)
    BY <1>4 DEF CreateDocument
  <2> HIDE DEF row
  <2>3. /\ documents' \in Seq(Doc) /\ Len(documents') = Len(documents) + 1
        /\ DOMAIN documents \subseteq DOMAIN documents'
    BY <1>0, <2>1, <2>2
  <2>4. /\ accepted' \in Seq(Nat) /\ Len(accepted') = Len(documents')
        /\ sent' \in Seq(Nat) /\ Len(sent') = Len(documents')
        /\ failures' \in Seq(Nat) /\ Len(failures') = Len(documents')
    BY <1>0, <1>4, <2>3, NewCounts DEF CreateDocument
  <2> QED
    BY <1>4, <2>3, <2>4 DEF UploadTypes, CreateDocument, Becomes, Steps
<1>5. ASSUME NEW status \in {"received", "queued"}, NEW d \in DOMAIN documents, SetStatus(d, status)
      PROVE  documents' \in Seq(Doc) /\ Len(documents') = Len(documents) /\ DOMAIN documents' = DOMAIN documents
  <2> DEFINE new == [documents[d] EXCEPT !.status = status]
  <2>1. documents[d] \in Doc
    BY <1>0
  <2>2. new \in Doc
    BY <2>1 DEF Doc
  <2>3. documents' = [documents EXCEPT ![d] = new]
    BY <1>5 DEF SetStatus
  <2> HIDE DEF new
  <2> QED
    BY <1>0, <2>2, <2>3
<1>6. CASE MarkQueued(c)
  <2>1. target[c] \in DOMAIN documents /\ SetStatus(target[c], "queued")
    BY <1>6 DEF UploadTypes, MarkQueued
  <2>2. documents' \in Seq(Doc) /\ Len(documents') = Len(documents) /\ DOMAIN documents' = DOMAIN documents
    BY <1>5, <2>1
  <2> QED
    BY <1>6, <2>2 DEF UploadTypes, MarkQueued, Becomes, Steps
<1>7. CASE SendMessage(c)
  <2>0. Counts(accepted, target[c]) /\ Counts(sent, target[c])
    BY <1>0, <1>7, OneMoreCounts DEF UploadTypes, SendMessage
  <2>1. /\ accepted' \in Seq(Nat) /\ Len(accepted') = Len(documents)
        /\ sent' \in Seq(Nat) /\ Len(sent') = Len(documents)
    BY <1>0, <1>7, <2>0 DEF SendMessage, IsCount, Counts
  <2> QED
    BY <1>7, <2>1 DEF UploadTypes, SendMessage, Becomes, Steps
<1>8. CASE SendRaises(c)
  <2>0. Counts(failures, target[c]) /\ Counts(sent, target[c])
    BY <1>0, <1>8, OneMoreCounts DEF UploadTypes, SendRaises
  <2>1. /\ failures' \in Seq(Nat) /\ Len(failures') = Len(documents)
        /\ sent' \in Seq(Nat) /\ Len(sent') = Len(documents)
    BY <1>0, <1>8, <2>0 DEF SendRaises, IsCount, Counts
  <2> QED
    BY <1>8, <2>1 DEF UploadTypes, SendRaises, Becomes, Steps
<1>9. CASE UnmarkQueued(c)
  <2>1. target[c] \in DOMAIN documents
    BY <1>9 DEF UploadTypes, UnmarkQueued
  <2>2. documents' \in Seq(Doc) /\ Len(documents') = Len(documents) /\ DOMAIN documents' = DOMAIN documents
    BY <1>0, <1>5, <1>9, <2>1 DEF UnmarkQueued
  <2> QED
    BY <1>9, <2>2 DEF UploadTypes, UnmarkQueued, Becomes, Steps
<1> QED
  BY <1>1, <1>2, <1>3, <1>4, <1>6, <1>7, <1>8, <1>9 DEF Clerk

(* A request that neither sends nor changes a status leaves SentOnce.      *)
LEMMA SameSending ==
  ASSUME UploadTypes, SentOnce, documents' = documents, accepted' = accepted,
         NEW c \in Clerks, DOMAIN target' = Clerks, DOMAIN cpc' = Clerks,
         \A o \in Clerks \ {c} : cpc'[o] = cpc[o] /\ target'[o] = target[o],
         cpc[c] \notin {"send", "unmark"}, cpc'[c] \notin {"send", "unmark"}
  PROVE  SentOnce'
<1>1. \A i : Sending(i)' = Sending(i)
  BY DEF Sending
<1> QED
  BY <1>1 DEF SentOnce

LEMMA NextOrderly ==
  ASSUME UploadTypes, Orderly, UploadNext, ~raced'
  PROVE  Orderly'
<1>0. /\ documents \in Seq(Doc) /\ accepted \in Seq(Nat) /\ Len(accepted) = Len(documents)
      /\ DOMAIN documents = 1 .. Len(documents) /\ Len(documents) \in Nat
      /\ DOMAIN accepted = DOMAIN documents
      /\ \A i \in DOMAIN documents : documents[i] \in Doc
  BY DEF UploadTypes
<1>t. /\ cpc \in [Clerks -> Steps] /\ DOMAIN target = Clerks
      /\ \A o \in Clerks : cpc[o] = "mark" => target[o] \in DOMAIN documents
  BY DEF UploadTypes
<1> USE DEF countVars
<1> PICK c \in Clerks : Clerk(c)
  BY DEF UploadNext
<1>1. ASSUME NEW pdf \in Pdfs, UploadUrl(c, pdf)
      PROVE  Orderly'
  <2>1. SentOnce'
    BY <1>1, SameSending DEF UploadUrl, Becomes, UploadTypes, Orderly
  <2> QED
    BY <1>1, <2>1 DEF UploadUrl, Becomes, UploadTypes, Orderly, RowsDiffer, InsertsAreFree, MarksAreFree, Holds, Others
<1>2. ASSUME NEW d \in DOMAIN documents, CheckStatus(c, d)
      PROVE  Orderly'
  <2>1. SentOnce'
    BY <1>2, SameSending DEF CheckStatus, Becomes, UploadTypes, Orderly
  <2>2. \A o \in Clerks : ~(cpc[o] = "mark" /\ target[o] = d)
    BY <1>2 DEF CheckStatus
  <2> QED
    BY <1>2, <2>1, <2>2 DEF CheckStatus, MayQueue, Becomes, UploadTypes, Orderly, RowsDiffer, InsertsAreFree, MarksAreFree, Holds, Others
<1>3. CASE CheckSha(c)
  <2>1. SentOnce'
    BY <1>3, SameSending DEF CheckSha, Becomes, UploadTypes, Orderly
  <2>2. ~Holds(target[c]) => ~Others(c, {"insert"})
    BY <1>3 DEF CheckSha
  <2> QED
    BY <1>3, <2>1, <2>2 DEF CheckSha, Becomes, UploadTypes, Orderly, RowsDiffer, InsertsAreFree, MarksAreFree, Holds, Others
<1>4. CASE CreateDocument(c)
  <2> DEFINE row == [pdf |-> target[c], status |-> "received"]
             n == Len(documents) + 1
  <2>1. /\ documents' = Append(documents, row) /\ accepted' = Append(accepted, 0)
        /\ cpc' = [cpc EXCEPT ![c] = "idle"] /\ target' = target /\ cpc[c] = "insert"
    BY <1>4 DEF CreateDocument, Becomes
  <2>2. /\ DOMAIN documents' = DOMAIN documents \cup {n} /\ n \notin DOMAIN documents
        /\ documents'[n] = row /\ accepted'[n] = 0
        /\ \A i \in DOMAIN documents : documents'[i] = documents[i] /\ accepted'[i] = accepted[i]
    BY <1>0, <2>1
  <2>3. \A i \in DOMAIN documents : documents[i].pdf # target[c]
    BY <2>1 DEF Orderly, InsertsAreFree, Holds
  <2>4. RowsDiffer'
    BY <2>2, <2>3 DEF Orderly, RowsDiffer
  <2>5. InsertsAreFree'
    <3> SUFFICES ASSUME NEW o \in Clerks, cpc'[o] = "insert"
                 PROVE  ~Holds(target[o])' /\ ~Others(o, {"insert"})'
      BY <2>1 DEF InsertsAreFree
    <3>1. o # c /\ cpc[o] = "insert"
      BY <2>1 DEF UploadTypes
    <3>2. target[o] # target[c]
      BY <2>1, <3>1 DEF Orderly, InsertsAreFree, Others
    <3> QED
      BY <2>1, <2>2, <3>1, <3>2 DEF Orderly, InsertsAreFree, Others, Holds, UploadTypes
  <2>6. MarksAreFree'
    BY <2>1, <2>2 DEF Orderly, MarksAreFree, Others, UploadTypes
  <2>7. \A i : Sending(i)' = Sending(i)
    BY <2>1 DEF Sending, UploadTypes
  <2>8. Sending(n) = {}
    BY <2>2 DEF Sending, UploadTypes
  <2>9. SentOnce'
    BY <2>2, <2>7, <2>8 DEF Orderly, SentOnce
  <2> QED
    BY <2>4, <2>5, <2>6, <2>9 DEF Orderly
<1>5. ASSUME NEW status, NEW d \in DOMAIN documents, SetStatus(d, status)
      PROVE  /\ DOMAIN documents' = DOMAIN documents
             /\ \A i \in DOMAIN documents : documents'[i].pdf = documents[i].pdf
             /\ documents'[d].status = status
             /\ \A i \in DOMAIN documents : i # d => documents'[i].status = documents[i].status
             /\ \A pdf : Holds(pdf)' = Holds(pdf)
  <2>1. documents[d] \in Doc /\ \A i \in DOMAIN documents : documents[i] \in Doc
    BY <1>0
  <2>2. documents' = [documents EXCEPT ![d] = [documents[d] EXCEPT !.status = status]]
    BY <1>5 DEF SetStatus
  <2>3. /\ [documents[d] EXCEPT !.status = status].pdf = documents[d].pdf
        /\ [documents[d] EXCEPT !.status = status].status = status
    BY <2>1 DEF Doc
  <2>4. DOMAIN documents' = DOMAIN documents /\ \A i \in DOMAIN documents : documents'[i].pdf = documents[i].pdf
    BY <1>0, <2>2, <2>3
  <2>5. \A pdf : Holds(pdf)' = Holds(pdf)
    BY <2>4 DEF Holds
  <2> QED
    BY <1>0, <2>2, <2>3, <2>4, <2>5
<1>6. CASE MarkQueued(c)
  <2>1. /\ cpc[c] = "mark" /\ cpc' = [cpc EXCEPT ![c] = "send"] /\ target' = target /\ accepted' = accepted
        /\ target[c] \in DOMAIN documents /\ SetStatus(target[c], "queued")
    BY <1>6 DEF MarkQueued, Becomes, UploadTypes
  <2>2. /\ documents[target[c]].status = "received"
        /\ \A o \in Clerks : o # c /\ cpc[o] = "mark" => target[o] # target[c]
    BY <2>1 DEF Orderly, MarksAreFree, Others
  <2>3. RowsDiffer' /\ InsertsAreFree'
    <3>1. RowsDiffer'
      BY <1>5, <2>1 DEF Orderly, RowsDiffer
    <3>2. InsertsAreFree'
      <4>1. \A o \in Clerks : cpc'[o] = "insert" <=> cpc[o] = "insert"
        BY <2>1 DEF UploadTypes
      <4>2. \A pdf : Holds(pdf)' = Holds(pdf)
        BY <1>5, <2>1
      <4> QED
        BY <2>1, <4>1, <4>2 DEF Orderly, InsertsAreFree, Others
    <3> QED
      BY <3>1, <3>2
  <2>4. MarksAreFree'
    BY <1>t, <1>5, <2>1, <2>2 DEF Orderly, MarksAreFree, Others
  <2>5. /\ Sending(target[c])' = {c}
        /\ \A i : i # target[c] => Sending(i)' = Sending(i)
        /\ accepted[target[c]] = 0
    <3>1. Sending(target[c]) = {} /\ accepted[target[c]] = 0
      BY <2>1, <2>2 DEF Orderly, SentOnce
    <3> QED
      BY <2>1, <3>1 DEF Sending, UploadTypes
  <2>6. SentOnce'
    <3> SUFFICES ASSUME NEW i \in DOMAIN documents
                 PROVE  IF documents'[i].status = "received" THEN accepted[i] = 0 /\ Sending(i)' = {}
                        ELSE \/ accepted[i] = 1 /\ Sending(i)' = {}
                             \/ accepted[i] = 0 /\ \E o \in Clerks : Sending(i)' = {o}
      BY <1>5, <2>1 DEF SentOnce
    <3>1. CASE i = target[c]
      BY <1>5, <2>1, <2>5, <3>1
    <3>2. CASE i # target[c]
      BY <1>5, <2>1, <2>5, <3>2 DEF Orderly, SentOnce
    <3> QED
      BY <3>1, <3>2
  <2> QED
    BY <2>3, <2>4, <2>6 DEF Orderly
<1>7. ASSUME cpc[c] \in {"send", "unmark"}
      PROVE  /\ target[c] \in DOMAIN documents /\ documents[target[c]].status = "queued"
             /\ accepted[target[c]] = 0 /\ Sending(target[c]) = {c}
  <2>1. target[c] \in DOMAIN documents /\ c \in Sending(target[c])
    BY <1>7 DEF UploadTypes, Sending
  <2>2. documents[target[c]].status \in {"received", "queued"}
    BY <1>0, <2>1 DEF Doc
  <2> QED
    BY <2>1, <2>2 DEF Orderly, SentOnce
<1>8. CASE SendMessage(c)
  <2>1. /\ cpc[c] = "send" /\ cpc' = [cpc EXCEPT ![c] = "idle"] /\ UNCHANGED <<target, documents>>
        /\ accepted' = [accepted EXCEPT ![target[c]] = @ + 1]
    BY <1>8 DEF SendMessage, OneMore, Becomes
  <2>2. Sending(target[c])' = {} /\ \A i : i # target[c] => Sending(i)' = Sending(i)
    BY <1>7, <2>1 DEF Sending, UploadTypes
  <2>3. accepted'[target[c]] = 1 /\ \A i \in DOMAIN documents : i # target[c] => accepted'[i] = accepted[i]
    BY <1>0, <1>7, <2>1
  <2>4. SentOnce'
    BY <1>7, <2>1, <2>2, <2>3 DEF Orderly, SentOnce
  <2> QED
    BY <2>1, <2>4 DEF Orderly, RowsDiffer, InsertsAreFree, MarksAreFree, Holds, Others, UploadTypes
<1>9. CASE SendRaises(c)
  <2>1. /\ cpc[c] = "send" /\ cpc' = [cpc EXCEPT ![c] = "unmark"] /\ UNCHANGED <<target, documents, accepted>>
    BY <1>9 DEF SendRaises, Becomes
  <2>2. \A i : Sending(i)' = Sending(i)
    BY <2>1 DEF Sending, UploadTypes
  <2>3. SentOnce'
    BY <2>1, <2>2 DEF Orderly, SentOnce
  <2> QED
    BY <2>1, <2>3 DEF Orderly, RowsDiffer, InsertsAreFree, MarksAreFree, Holds, Others, UploadTypes
<1>10. CASE UnmarkQueued(c)
  <2>1. /\ cpc[c] = "unmark" /\ cpc' = [cpc EXCEPT ![c] = "idle"] /\ UNCHANGED <<target, accepted>>
        /\ SetStatus(target[c], "received")
    BY <1>7, <1>10 DEF UnmarkQueued, Becomes
  <2>2. Sending(target[c])' = {} /\ \A i : i # target[c] => Sending(i)' = Sending(i)
    BY <1>7, <2>1 DEF Sending, UploadTypes
  <2>3. SentOnce'
    BY <1>5, <1>7, <2>1, <2>2 DEF Orderly, SentOnce
  <2>4. RowsDiffer' /\ InsertsAreFree'
    <3>1. RowsDiffer'
      BY <1>5, <1>7, <2>1 DEF Orderly, RowsDiffer
    <3>2. InsertsAreFree'
      <4>1. \A o \in Clerks : cpc'[o] = "insert" <=> cpc[o] = "insert"
        BY <2>1 DEF UploadTypes
      <4>2. \A pdf : Holds(pdf)' = Holds(pdf)
        BY <1>5, <1>7, <2>1
      <4> QED
        BY <2>1, <4>1, <4>2 DEF Orderly, InsertsAreFree, Others
    <3> QED
      BY <3>1, <3>2
  <2>5. MarksAreFree'
    BY <1>t, <1>5, <1>7, <2>1 DEF Orderly, MarksAreFree, Others
  <2> QED
    BY <2>3, <2>4, <2>5 DEF Orderly
<1> QED
  BY <1>1, <1>2, <1>3, <1>4, <1>6, <1>8, <1>9, <1>10 DEF Clerk

(* Every answer has its message where there is a queue, and every message  *)
(* an answer or a send that raised; overlapping checks change nothing.     *)
LEMMA NextCounted ==
  ASSUME UploadTypes, Counted, UploadNext
  PROVE  Counted'
<1>0. /\ IsCount(accepted) /\ IsCount(sent) /\ IsCount(failures)
      /\ DOMAIN documents = 1 .. Len(documents) /\ Len(documents) \in Nat
      /\ DOMAIN accepted = DOMAIN documents /\ DOMAIN sent = DOMAIN documents
      /\ DOMAIN failures = DOMAIN documents
      /\ queueUrl' = queueUrl
  BY DEF UploadTypes, IsCount, UploadNext
<1> USE DEF countVars
<1> PICK c \in Clerks : Clerk(c)
  BY DEF UploadNext
<1>n. ASSUME DOMAIN documents' = DOMAIN documents, UNCHANGED countVars
      PROVE  Counted'
  BY <1>0, <1>n DEF Counted
<1>1. ASSUME NEW pdf \in Pdfs, UploadUrl(c, pdf)
      PROVE  Counted'
  BY <1>n, <1>1 DEF UploadUrl
<1>2. ASSUME NEW d \in DOMAIN documents, CheckStatus(c, d)
      PROVE  Counted'
  BY <1>n, <1>2 DEF CheckStatus
<1>3. CASE CheckSha(c)
  BY <1>n, <1>3 DEF CheckSha
<1>4. CASE CreateDocument(c)
  <2>1. /\ accepted' = Append(accepted, 0) /\ sent' = Append(sent, 0)
        /\ failures' = Append(failures, 0)
    BY <1>4 DEF CreateDocument
  <2>2. DOMAIN documents' = DOMAIN documents \cup {Len(documents) + 1}
    BY <1>0, <1>4 DEF CreateDocument, UploadTypes
  <2> QED
    BY <1>0, <2>1, <2>2, NewCounts DEF Counted
<1>5. CASE MarkQueued(c) \/ UnmarkQueued(c)
  <2>1. DOMAIN documents' = DOMAIN documents
    BY <1>5 DEF MarkQueued, UnmarkQueued, SetStatus, UploadTypes
  <2> QED
    BY <1>n, <1>5, <2>1 DEF MarkQueued, UnmarkQueued
<1>6. CASE SendMessage(c)
  <2>1. /\ target[c] \in DOMAIN documents
        /\ UNCHANGED <<documents, failures>>
        /\ accepted' = OneMore(accepted, target[c])
        /\ sent' = IF queueUrl THEN OneMore(sent, target[c]) ELSE sent
    BY <1>6 DEF SendMessage, UploadTypes
  <2>2. Counts(accepted, target[c]) /\ Counts(sent, target[c])
    BY <1>0, <2>1, OneMoreCounts
  <2>3. \A i \in DOMAIN documents : failures[i] \in Nat
    BY <1>0 DEF IsCount
  <2>4. DOMAIN documents' = DOMAIN documents
    BY <2>1
  <2> SUFFICES ASSUME NEW i \in DOMAIN documents
               PROVE  IF queueUrl THEN accepted'[i] <= sent'[i] /\ sent'[i] <= accepted'[i] + failures'[i]
                      ELSE sent'[i] = 0
    BY <1>0, <2>4 DEF Counted
  <2>5. IF queueUrl THEN accepted[i] <= sent[i] /\ sent[i] <= accepted[i] + failures[i]
        ELSE sent[i] = 0
    BY DEF Counted
  <2>6. /\ accepted[i] \in Nat /\ sent[i] \in Nat /\ failures[i] \in Nat
        /\ accepted'[i] \in {accepted[i], accepted[i] + 1}
        /\ failures'[i] \in {failures[i], failures[i] + 1}
    BY <2>1, <2>2, <2>3 DEF Counts
  <2>7. IF ~queueUrl THEN sent'[i] = sent[i]
        ELSE \/ /\ sent'[i] = sent[i] /\ accepted'[i] = accepted[i]
             \/ /\ sent'[i] = sent[i] + 1
                /\ \/ accepted'[i] = accepted[i] + 1 /\ failures'[i] = failures[i]
                   \/ accepted'[i] = accepted[i] /\ failures'[i] = failures[i] + 1
    BY <2>1, <2>2 DEF Counts
  <2> QED
    BY <2>5, <2>6, <2>7
<1>7. CASE SendRaises(c)
  <2>1. /\ target[c] \in DOMAIN documents /\ queueUrl
        /\ UNCHANGED <<documents, accepted>>
        /\ failures' = OneMore(failures, target[c])
        /\ sent' \in {OneMore(sent, target[c]), sent}
    BY <1>7 DEF SendRaises, UploadTypes
  <2>2. Counts(failures, target[c]) /\ Counts(sent, target[c])
    BY <1>0, <2>1, OneMoreCounts
  <2>3. \A i \in DOMAIN documents : accepted[i] \in Nat
    BY <1>0 DEF IsCount
  <2>4. DOMAIN documents' = DOMAIN documents
    BY <2>1
  <2> SUFFICES ASSUME NEW i \in DOMAIN documents
               PROVE  IF queueUrl THEN accepted'[i] <= sent'[i] /\ sent'[i] <= accepted'[i] + failures'[i]
                      ELSE sent'[i] = 0
    BY <1>0, <2>4 DEF Counted
  <2>5. IF queueUrl THEN accepted[i] <= sent[i] /\ sent[i] <= accepted[i] + failures[i]
        ELSE sent[i] = 0
    BY DEF Counted
  <2>6. /\ accepted[i] \in Nat /\ sent[i] \in Nat /\ failures[i] \in Nat
        /\ accepted'[i] \in {accepted[i], accepted[i] + 1}
        /\ failures'[i] \in {failures[i], failures[i] + 1}
    BY <2>1, <2>2, <2>3 DEF Counts
  <2>7. IF ~queueUrl THEN sent'[i] = sent[i]
        ELSE \/ /\ sent'[i] = sent[i] /\ accepted'[i] = accepted[i]
             \/ /\ sent'[i] = sent[i] + 1
                /\ \/ accepted'[i] = accepted[i] + 1 /\ failures'[i] = failures[i]
                   \/ accepted'[i] = accepted[i] /\ failures'[i] = failures[i] + 1
    BY <2>1, <2>2 DEF Counts
  <2> QED
    BY <2>5, <2>6, <2>7
<1> QED
  BY <1>1, <1>2, <1>3, <1>4, <1>5, <1>6, <1>7 DEF Clerk

LEMMA NextUpload == UploadInv /\ [StubNext]_stubVars => UploadInv'
<1> SUFFICES ASSUME UploadInv, [StubNext]_stubVars
             PROVE  UploadInv'
  OBVIOUS
<1>1. CASE UploadNext
  <2>1. raced => raced'
    BY <1>1, Zenon DEF UploadNext, Clerk, UploadUrl, CheckSha, CreateDocument, CheckStatus, MarkQueued,
                       SendMessage, SendRaises, UnmarkQueued
  <2>2. UploadTypes' /\ Counted'
    BY <1>1, NextUploadTypes, NextCounted DEF UploadInv
  <2>3. raced' \/ Orderly'
    BY <1>1, <2>1, NextOrderly, Zenon DEF UploadInv
  <2> QED
    BY <2>2, <2>3 DEF UploadInv
<1>2. CASE UNCHANGED uploadVars
  <2>1. UploadTypes' /\ Counted'
    BY <1>2 DEF uploadVars, countVars, UploadInv, UploadTypes, Counted
  <2>2. Orderly => Orderly'
    BY <1>2 DEF uploadVars, countVars, Orderly, RowsDiffer, InsertsAreFree, MarksAreFree, SentOnce,
                Sending, Holds, Others
  <2> QED
    BY <1>2, <2>1, <2>2 DEF UploadInv, uploadVars
<1> QED
  BY <1>1, <1>2 DEF StubNext, stubVars

(* As long as no two checks of one PDF or one document overlap, a PDF has  *)
(* one row, and a row that says queued one request that was told so or is  *)
(* about to be - by SentOnce, which says who.  In any case every such      *)
(* answer has its message where there is a queue, and every message beyond *)
(* them a send that raised.                                                *)
THEOREM RowsAndMessagesMatch == StubSpec => []OneRowOneMessage
<1>1. UploadInv => OneRowOneMessage
  <2> SUFFICES ASSUME UploadTypes, Orderly, NEW i \in DOMAIN documents
               PROVE  accepted[i] + Cardinality(Sending(i)) = IF documents[i].status = "queued" THEN 1 ELSE 0
    <3>1. UploadInv => Counted
      BY DEF UploadInv
    <3> QED
      BY <3>1, Zenon DEF UploadInv, Counted, Orderly, RowsDiffer, OneRowOneMessage, Sending
  <2>1. documents[i] \in Doc
    BY DEF UploadTypes
  <2>2. documents[i].status \in {"received", "queued"}
    BY <2>1 DEF Doc
  <2>i. IF documents[i].status = "received" THEN accepted[i] = 0 /\ Sending(i) = {}
        ELSE \/ accepted[i] = 1 /\ Sending(i) = {}
             \/ accepted[i] = 0 /\ \E c \in Clerks : Sending(i) = {c}
    BY DEF Orderly, SentOnce
  <2>3. CASE Sending(i) = {}
    <3>1. Cardinality(Sending(i)) = 0
      BY <2>3, FS_EmptySet
    <3> QED
      BY <2>2, <2>3, <2>i, <3>1
  <2>4. CASE \E c \in Clerks : Sending(i) = {c}
    <3>1. Cardinality(Sending(i)) = 1
      BY <2>4, FS_Singleton
    <3> QED
      BY <2>2, <2>4, <2>i, <3>1
  <2>5. Sending(i) = {} \/ \E c \in Clerks : Sending(i) = {c}
    BY <2>i
  <2> QED
    BY <2>3, <2>4, <2>5
<1> QED
  BY <1>1, InitUpload, NextUpload, PTL DEF StubSpec

-----------------------------------------------------------------------------
(* Where a row stands in the worklist.                                     *)
Position == [score : Int, date : Nat, id : Nat]

WalkTypes ==
  /\ today \in 0 .. 1 /\ asOf \in 0 .. 1
  /\ step \in {"rank", "cut", "show"}
  /\ cursor \in Position
  /\ listed \in [Rows -> 0 .. 2]
  /\ steady \subseteq Rows \ touched

(* Whether the walk has still to list a row.                               *)
ToCome(r) == cursor # End /\ ListedBefore(cursor, Key(today, r))

(* What a request has of the rows that have not changed since it sorted:   *)
(* their score, also as of its day; then all those that are to come, or so *)
(* many that there is more.                                                *)
SortedAsNow ==
  step # "rank" =>
    /\ cursor # End
    /\ DOMAIN ranked \subseteq Rows
    /\ \A r \in DOMAIN ranked : ranked[r] \in Position /\ ranked[r].id = r
    /\ \A r \in Rows \ touched : Key(asOf, r) = Key(today, r)
    /\ \A r \in DOMAIN ranked \ touched : ranked[r] = Key(today, r)
AllRanked == step = "cut" => DOMAIN ranked = Rows
KeptToCome ==
  step = "show" =>
    \A r \in Rows \ touched :
      IF r \in DOMAIN ranked THEN ToCome(r)
      ELSE ToCome(r) => More /\ \A s \in DOMAIN ranked : ListedBefore(ranked[s], Key(today, r))

ListedSoFar == \A r \in steady : listed[r] = IF ToCome(r) THEN 0 ELSE 1

WalkInv == WalkTypes /\ SortedAsNow /\ AllRanked /\ KeptToCome /\ (slipped \/ ListedSoFar)

(* Positions are ordered: a list of them has one order only.               *)
LEMMA Ordered ==
  /\ \A a \in Position : ~ListedBefore(a, a)
  /\ \A a, b \in Position : ListedBefore(a, b) => ~ListedBefore(b, a)
  /\ \A a, b \in Position : ListedBefore(a, b) \/ ListedBefore(b, a) \/ a = b
  /\ \A a, b, c \in Position : ListedBefore(a, b) /\ ListedBefore(b, c) => ListedBefore(a, c)
BY DEF ListedBefore, Position

LEMMA Positions ==
  /\ Top \in Position /\ End \in Position /\ Top # End
  /\ \A day \in 0 .. 1, r \in Rows :
       /\ Key(day, r) \in Position /\ Key(day, r).id = r
       /\ ListedBefore(Top, Key(day, r)) /\ Key(day, r) # Top /\ Key(day, r) # End
<1>1. Top \in Position /\ End \in Position /\ Top # End
  BY DEF Top, End, Position
<1>2. ASSUME NEW day \in 0 .. 1, NEW r \in Rows
      PROVE  /\ Key(day, r) \in Position /\ Key(day, r).id = r
             /\ ListedBefore(Top, Key(day, r)) /\ Key(day, r) # Top /\ Key(day, r) # End
  <2>1. /\ r \in Nat /\ Dates[r] \in Nat /\ Base[day][r] \in 0 .. 100 /\ FlagBonus \in 0 .. 100
    BY StubAssumption
  <2> DEFINE score == Score(day, flags, r)
  <2>2. score \in 0 .. 200
    <3>1. \A x, y \in 0 .. 100 : x + y \in 0 .. 200 /\ x + 0 \in 0 .. 200
      OBVIOUS
    <3>2. score = Base[day][r] + FlagBonus \/ score = Base[day][r] + 0
      BY DEF Score
    <3> HIDE DEF score
    <3> QED
      BY <2>1, <3>1, <3>2
  <2>3. Key(day, r) = [score |-> score, date |-> Dates[r], id |-> r]
    BY DEF Key, SortKey
  <2> HIDE DEF score
  <2>4. /\ Key(day, r) \in Position /\ Key(day, r).id = r
        /\ Key(day, r).score = score
    BY <2>1, <2>2, <2>3 DEF Position
  <2>5. Top.score = 1000 /\ End.score = -1
    BY DEF Top, End
  <2> QED
    BY <2>2, <2>4, <2>5 DEF ListedBefore
<1> QED
  BY <1>1, <1>2

LEMMA InitWalk == StubInit => WalkInv
<1> SUFFICES ASSUME StubInit
             PROVE  WalkInv
  OBVIOUS
<1>1. /\ today = 0 /\ asOf = 0 /\ step = "rank" /\ cursor = Top /\ steady = Rows /\ touched = {}
      /\ listed = [r \in Rows |-> 0] /\ slipped = FALSE
  BY DEF StubInit
<1>2. WalkTypes
  BY <1>1, Positions DEF WalkTypes
<1>3. ListedSoFar
  BY <1>1, Positions DEF ListedSoFar, ToCome
<1> QED
  BY <1>1, <1>2, <1>3 DEF WalkInv, SortedAsNow, AllRanked, KeptToCome

(* A row whose score has not changed keeps its position; all that a change *)
(* of others' scores does is to leave them out of account.                 *)
LEMMA NextRescored ==
  ASSUME WalkInv, NEW rows \in SUBSET Rows, Rescored(rows), today' \in 0 .. 1,
         UNCHANGED <<step, asOf, ranked, cursor, listed, slipped>>,
         \A r \in Rows \ rows, day \in 0 .. 1 : Key(day, r)' = Key(day, r),
         \A r \in Rows \ rows : Key(today, r)' = Key(today, r)
  PROVE  WalkInv'
<1>0. /\ steady' = steady \ rows
      /\ touched' = IF step = "rank" THEN {} ELSE touched \cup rows
      /\ UNCHANGED <<step, asOf, ranked, cursor, listed, slipped>>
  BY DEF Rescored
<1>1. WalkTypes'
  BY <1>0 DEF WalkInv, WalkTypes
<1>2. \A r \in Rows \ rows : ToCome(r)' = ToCome(r)
  BY <1>0 DEF ToCome
<1>3. SortedAsNow'
  BY <1>0 DEF WalkInv, WalkTypes, SortedAsNow
<1>4. AllRanked'
  BY <1>0 DEF WalkInv, AllRanked
<1>5. KeptToCome'
  BY <1>0, <1>2 DEF WalkInv, KeptToCome, More
<1>6. ListedSoFar => ListedSoFar'
  BY <1>0, <1>2 DEF WalkInv, WalkTypes, ListedSoFar
<1> QED
  BY <1>0, <1>1, <1>3, <1>4, <1>5, <1>6 DEF WalkInv

LEMMA NextRank ==
  ASSUME WalkInv, Rank
  PROVE  WalkInv'
<1>1. /\ step = "rank" /\ cursor # End /\ step' = "cut" /\ asOf' = today /\ touched' = {}
      /\ ranked' = [r \in Rows |-> Key(today, r)]
      /\ UNCHANGED <<today, flags, cursor, listed, steady, slipped>>
  BY DEF Rank
<1>2. \A day, r : Key(day, r)' = Key(day, r)
  BY <1>1 DEF Key, SortKey, Score
<1>3. WalkTypes'
  BY <1>1 DEF WalkInv, WalkTypes
<1>4. SortedAsNow'
  BY <1>1, <1>2, Positions DEF WalkInv, WalkTypes, SortedAsNow
<1>5. ListedSoFar => ListedSoFar'
  BY <1>1, <1>2 DEF ListedSoFar, ToCome
<1> QED
  BY <1>1, <1>3, <1>4, <1>5 DEF WalkInv, AllRanked, KeptToCome

LEMMA NextCut ==
  ASSUME WalkInv, Cut
  PROVE  WalkInv'
<1> DEFINE later == {r \in DOMAIN ranked : ListedBefore(cursor, Key(asOf, r))}
<1>1. /\ step = "cut" /\ step' = "show"
      /\ UNCHANGED <<today, flags, asOf, touched, cursor, listed, steady, slipped>>
  BY DEF Cut
<1>2. PICK kept \in SUBSET later :
        /\ FirstRows(PageSize + 1, later, kept)
        /\ ranked' = [r \in kept |-> ranked[r]]
  BY DEF Cut
<1>3. \A day, r : Key(day, r)' = Key(day, r)
  BY <1>1 DEF Key, SortKey, Score
<1>4. /\ cursor # End /\ DOMAIN ranked = Rows
      /\ \A r \in Rows : ranked[r] \in Position /\ ranked[r].id = r
      /\ \A r \in Rows \ touched : Key(asOf, r) = Key(today, r) /\ ranked[r] = Key(today, r)
  BY <1>1 DEF WalkInv, SortedAsNow, AllRanked
<1>5. /\ kept \subseteq Rows /\ DOMAIN ranked' = kept
      /\ \A r \in kept : ranked'[r] = ranked[r]
  BY <1>2, <1>4
<1>6. WalkTypes'
  BY <1>1 DEF WalkInv, WalkTypes
<1>7. SortedAsNow'
  BY <1>1, <1>3, <1>4, <1>5 DEF SortedAsNow
<1>8. \A r : ToCome(r)' = ToCome(r)
  BY <1>1, <1>3 DEF ToCome
<1>9. \A r \in Rows \ touched : ToCome(r) <=> r \in later
  BY <1>4 DEF ToCome
<1>10. ASSUME NEW r \in later \ kept
       PROVE  More' /\ \A s \in kept : ListedBefore(ranked[s], ranked[r])
  <2>1. Cardinality(kept) = PageSize + 1 /\ \A s \in kept : ~ListedBefore(ranked[r], ranked[s])
    BY <1>2 DEF FirstRows
  <2>2. More'
    BY <1>5, <2>1, StubAssumption DEF More
  <2>3. \A s \in kept : ranked[s] # ranked[r]
    BY <1>4, <1>5
  <2> QED
    BY <1>4, <1>5, <2>1, <2>2, <2>3, Ordered
<1> HIDE DEF later
<1>11. KeptToCome'
  BY <1>1, <1>2, <1>3, <1>4, <1>5, <1>8, <1>9, <1>10 DEF KeptToCome
<1>12. ListedSoFar => ListedSoFar'
  BY <1>1, <1>8 DEF ListedSoFar
<1> QED
  BY <1>1, <1>6, <1>7, <1>11, <1>12 DEF WalkInv, AllRanked

LEMMA NextShow ==
  ASSUME WalkInv, Show
  PROVE  WalkInv'
<1>1. /\ step = "show" /\ step' = "rank" /\ touched' = {}
      /\ UNCHANGED <<today, flags, asOf, steady>>
  BY DEF Show
<1>2. PICK page \in SUBSET DOMAIN ranked :
        /\ FirstRows(PageSize, DOMAIN ranked, page)
        /\ listed' = [r \in Rows |-> IF r \in page /\ listed[r] < 2 THEN listed[r] + 1 ELSE listed[r]]
        /\ IF More
           THEN \E last \in page : /\ IsLast(last, page)
                                  /\ cursor' = Key(today, last)
                                  /\ slipped' = (slipped \/ last \in touched)
           ELSE cursor' = End /\ UNCHANGED slipped
  BY DEF Show
<1>3. \A day, r : Key(day, r)' = Key(day, r)
  BY <1>1 DEF Key, SortKey, Score
<1>4. /\ cursor # End /\ DOMAIN ranked \subseteq Rows
      /\ \A r \in DOMAIN ranked : ranked[r] \in Position /\ ranked[r].id = r
      /\ \A r \in DOMAIN ranked \ touched : ranked[r] = Key(today, r)
      /\ \A r \in Rows \ touched :
           IF r \in DOMAIN ranked THEN ToCome(r)
           ELSE ToCome(r) => More /\ \A s \in DOMAIN ranked : ListedBefore(ranked[s], Key(today, r))
  BY <1>1 DEF WalkInv, SortedAsNow, KeptToCome
<1>5. /\ today \in 0 .. 1 /\ cursor \in Position /\ listed \in [Rows -> 0 .. 2] /\ steady \subseteq Rows \ touched
  BY DEF WalkInv, WalkTypes
<1>6. WalkTypes'
  <2>1. listed' \in [Rows -> 0 .. 2]
    BY <1>2, <1>5
  <2>2. cursor' \in Position
    BY <1>2, <1>4, <1>5, Positions
  <2> QED
    BY <1>1, <2>1, <2>2 DEF WalkInv, WalkTypes
<1>7. ASSUME ListedSoFar, ~slipped', NEW r \in steady
      PROVE  listed'[r] = IF ToCome(r)' THEN 0 ELSE 1
  <2>0. /\ r \in Rows \ touched /\ Key(today, r) \in Position
        /\ listed[r] = IF ToCome(r) THEN 0 ELSE 1
    BY <1>5, <1>7, Positions DEF ListedSoFar
  <2>1. listed'[r] = IF r \in page THEN listed[r] + 1 ELSE listed[r]
    BY <1>2, <2>0
  <2>2. r \in page => ToCome(r)
    BY <1>4, <2>0
  <2>3. ToCome(r)' <=> cursor' # End /\ ListedBefore(cursor', Key(today, r))
    BY <1>1, <1>3 DEF ToCome
  <2>4. CASE ~More
    <3>1. page = DOMAIN ranked /\ cursor' = End
      BY <1>2, <2>4 DEF FirstRows, More
    <3> QED
      BY <1>4, <2>0, <2>1, <2>2, <2>3, <2>4, <3>1
  <2>5. CASE More
    <3>1. PICK last \in page : IsLast(last, page) /\ cursor' = Key(today, last) /\ last \notin touched
      BY <1>2, <1>7, <2>5
    <3>2. /\ cursor' = ranked[last] /\ cursor' \in Position /\ cursor' # End
          /\ ListedBefore(cursor, cursor')
      BY <1>4, <1>5, <3>1, Positions DEF ToCome
    <3>3. CASE r \in page
      <4>1. ~ListedBefore(cursor', Key(today, r))
        BY <1>4, <2>0, <3>1, <3>2, <3>3 DEF IsLast
      <4> QED
        BY <2>0, <2>1, <2>2, <2>3, <3>3, <4>1
    <3>4. CASE r \in DOMAIN ranked \ page
      <4>1. ListedBefore(cursor', Key(today, r))
        <5>1. ~ListedBefore(ranked[r], ranked[last]) /\ ranked[r] # ranked[last]
          BY <1>2, <1>4, <3>1, <3>4 DEF FirstRows
        <5> QED
          BY <1>4, <2>0, <3>1, <3>2, <3>4, <5>1, Ordered
      <4> QED
        BY <1>4, <2>0, <2>1, <2>3, <3>2, <3>4, <4>1
    <3>5. CASE r \notin DOMAIN ranked /\ ToCome(r)
      <4>1. ListedBefore(cursor', Key(today, r))
        BY <1>4, <2>0, <3>2, <3>5
      <4> QED
        BY <2>0, <2>1, <2>3, <3>2, <3>5, <4>1
    <3>6. CASE r \notin DOMAIN ranked /\ ~ToCome(r)
      <4>1. ~ListedBefore(cursor', Key(today, r))
        BY <1>4, <1>5, <2>0, <3>2, <3>6, Ordered DEF ToCome
      <4> QED
        BY <2>0, <2>1, <2>3, <3>6, <4>1
    <3> QED
      BY <3>3, <3>4, <3>5, <3>6
  <2> QED
    BY <2>4, <2>5
<1>8. slipped => slipped'
  BY <1>2
<1> QED
  BY <1>1, <1>6, <1>7, <1>8 DEF WalkInv, SortedAsNow, AllRanked, KeptToCome, ListedSoFar

LEMMA NextWalk == WalkInv /\ [StubNext]_stubVars => WalkInv'
<1> SUFFICES ASSUME WalkInv, [StubNext]_stubVars
             PROVE  WalkInv'
  OBVIOUS
<1>0. today \in 0 .. 1
  BY DEF WalkInv, WalkTypes
<1>1. CASE UNCHANGED walkVars
  BY <1>1 DEF walkVars, WalkInv, WalkTypes, SortedAsNow, AllRanked, KeptToCome, ListedSoFar, ToCome,
              More, Key, Score, SortKey
<1>2. ASSUME NEW r \in Rows, NEW flagged \in BOOLEAN, Assign(r, flagged)
      PROVE  WalkInv'
  <2>1. /\ flags' = IF flagged THEN flags \cup {r} ELSE flags \ {r}
        /\ Rescored({r}) /\ UNCHANGED <<today, step, asOf, ranked, cursor, listed, slipped>>
    BY <1>2 DEF Assign
  <2>2. \A q \in Rows \ {r} : q \in flags' <=> q \in flags
    BY <2>1
  <2>3. /\ \A q \in Rows \ {r}, day \in 0 .. 1 : Key(day, q)' = Key(day, q)
        /\ \A q \in Rows \ {r} : Key(today, q)' = Key(today, q)
    BY <2>1, <2>2 DEF Key, SortKey, Score
  <2> QED
    BY <1>0, <2>1, <2>3, NextRescored
<1>3. CASE Midnight
  <2> DEFINE aged == {r \in Rows : Base[0][r] # Base[1][r]}
  <2>1. /\ today = 0 /\ today' = 1 /\ Rescored(aged)
        /\ UNCHANGED <<flags, step, asOf, ranked, cursor, listed, slipped>>
    BY <1>3 DEF Midnight
  <2>2. /\ \A r \in Rows \ aged, day \in 0 .. 1 : Key(day, r)' = Key(day, r)
        /\ \A r \in Rows \ aged : Key(today, r)' = Key(today, r)
    BY <2>1 DEF Key, SortKey, Score
  <2> QED
    BY <2>1, <2>2, NextRescored
<1> QED
  BY <1>1, <1>2, <1>3, NextRank, NextCut, NextShow DEF StubNext, WalkNext, stubVars

(* Whatever is assigned while a walk goes over the pages, and over         *)
(* midnight: a row whose score stays is listed exactly once, before or     *)
(* after the cursor as it should - unless the last row of a page changes   *)
(* between the sorting and the making of the cursor.                       *)
THEOREM SteadyRowsListedOnce == StubSpec => []SteadyListedOnce
<1>1. WalkInv => SteadyListedOnce
  <2> SUFFICES ASSUME WalkTypes, ListedSoFar, NEW r \in steady
               PROVE  listed[r] =
                        IF \/ cursor = Top
                           \/ cursor # End /\ ~ListedBefore(Key(today, r), cursor) /\ Key(today, r) # cursor
                        THEN 0 ELSE 1
    BY DEF WalkInv, SteadyListedOnce
  <2>1. /\ r \in Rows /\ cursor \in Position /\ Key(today, r) \in Position
        /\ Top # End /\ ListedBefore(Top, Key(today, r))
    BY Positions DEF WalkTypes
  <2>2. ListedBefore(cursor, Key(today, r)) <=> ~ListedBefore(Key(today, r), cursor) /\ Key(today, r) # cursor
    BY <2>1, Ordered
  <2>3. ToCome(r) <=> \/ cursor = Top
                      \/ cursor # End /\ ~ListedBefore(Key(today, r), cursor) /\ Key(today, r) # cursor
    BY <2>1, <2>2 DEF ToCome
  <2> QED
    BY <2>3 DEF ListedSoFar
<1> QED
  BY <1>1, InitWalk, NextWalk, PTL DEF StubSpec
=============================================================================
