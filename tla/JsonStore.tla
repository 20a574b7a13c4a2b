----------------------------- MODULE JsonStore -----------------------------
(***************************************************************************)
(* The worker without a database: services/worker/json_store.py keeps the  *)
(* documents and the reports of all workers in one JSON file.              *)
(*                                                                         *)
(* Every operation reads the whole file, edits its copy and writes the     *)
(* whole file back.  The lock that makes this atomic is a threading.Lock:  *)
(* it holds within a process, and workers are processes.  Writing is not   *)
(* atomic either: write_text truncates the file before it writes.          *)
(***************************************************************************)
EXTENDS Naturals, FiniteSets

CONSTANTS
  Documents, Reports,
  Contents,       \* the ACNs that parse_pdf finds in a document
  Processes,      \* worker processes and test scripts
  Torn,           \* a file that json.loads refuses
  NoDocument, NoCopy,
  MaxStarts,      \* bound: handle_message and register_document calls
  MaxFaults       \* bound: processes that die

ASSUME JsonAssumption ==
  /\ Contents \in [Documents -> SUBSET Reports]
  /\ MaxStarts \in Nat
  /\ MaxFaults \in Nat

Statuses == {"absent", "queued", "parsing", "parsed", "failed"}

(* A report is stored with the document that brought it in.                *)
States == [status  : [Documents -> Statuses],
           reports : [Reports -> Documents \cup {NoDocument}]]
Files == States \cup {Torn}

ASSUME NoneAssumption == Torn \notin States /\ NoCopy \notin States /\ NoDocument \notin Documents

VARIABLES
  file,           \* the worker_state.json on the disk
  pc,             \* what a process does: the call it is in
  phase,          \* and how far the call is: "load", "truncate", "write"
  doc,            \* its document
  copy,           \* the state it has loaded and edited
  settled,        \* registered documents whose message was deleted
  starts, faults,
  overlapped,     \* whether a process has loaded between another's load and write
  cut             \* whether a process has died between truncating and writing

jsonVars == <<file, pc, phase, doc, copy, settled, starts, faults, overlapped, cut>>

Calls == {"register", "claim", "save", "confirm", "fail"}

JsonTypeOK ==
  /\ file \in Files
  /\ pc \in [Processes -> Calls \cup {"idle", "parse", "delete", "drop"}]
  /\ phase \in [Processes -> {"load", "truncate", "write"}]
  /\ doc \in [Processes -> Documents]
  /\ copy \in [Processes -> States \cup {NoCopy}]
  /\ settled \subseteq Documents
  /\ starts \in 0 .. MaxStarts
  /\ faults \in 0 .. MaxFaults
  /\ overlapped \in BOOLEAN
  /\ cut \in BOOLEAN

(* _load of a file that does not exist.                                    *)
Empty == [status |-> [d \in Documents |-> "absent"], reports |-> [r \in Reports |-> NoDocument]]

JsonInit ==
  /\ file = Empty
  /\ pc = [p \in Processes |-> "idle"]
  /\ phase = [p \in Processes |-> "load"]
  /\ \E d \in Documents : doc = [p \in Processes |-> d]
  /\ copy = [p \in Processes |-> NoCopy]
  /\ settled = {}
  /\ starts = 0
  /\ faults = 0
  /\ overlapped = FALSE
  /\ cut = FALSE

-----------------------------------------------------------------------------
(* What each call makes of the state it has loaded.  Variants: the reports *)
(* of the document replace the table, or those of other documents.         *)
RegisterDocument(s, d) == [s EXCEPT !.status[d] = "queued"]
Claimable(s, d) == s.status[d] \notin {"absent", "parsed"}
ClaimForParsing(s, d) == [s EXCEPT !.status[d] = "parsing"]
Stored(s, d) == \A r \in Contents[d] : s.reports[r] # NoDocument
SaveReportsFresh(s, d) ==
  [s EXCEPT !.reports = [r \in Reports |-> IF r \in Contents[d] THEN d ELSE NoDocument]]
SaveReportsOver(s, d) ==
  [s EXCEPT !.reports = [r \in Reports |-> IF r \in Contents[d] THEN d ELSE @[r]]]
SaveReports(s, d) ==
  [s EXCEPT !.reports = [r \in Reports |-> IF r \in Contents[d] /\ @[r] = NoDocument THEN d ELSE @[r]]]
MarkDocument(s, d, status) == [s EXCEPT !.status[d] = status]

Edited(call, s, d) ==
  CASE call = "register" -> RegisterDocument(s, d)
    [] call = "claim"    -> ClaimForParsing(s, d)
    [] call = "save"     -> SaveReports(s, d)
    [] call = "confirm"  -> MarkDocument(s, d, "parsed")
    [] call = "fail"     -> MarkDocument(s, d, "failed")

(* What handle_message does after a call that went well.                   *)
After(call) ==
  CASE call = "claim"   -> "parse"
    [] call = "save"    -> "confirm"
    [] call = "confirm" -> "delete"
    [] OTHER            -> "idle"

(* A process between its load and its write, and the state that the file   *)
(* has or is about to have again.                                          *)
Busy(p) == pc[p] \in Calls /\ phase[p] # "load"
Goto(p, call) ==
  /\ pc' = [pc EXCEPT ![p] = call]
  /\ phase' = [phase EXCEPT ![p] = "load"]
  /\ copy' = [copy EXCEPT ![p] = NoCopy]

-----------------------------------------------------------------------------
(* A script registers a document, or a worker receives its message.        *)
Start(p, d, call) ==
  /\ pc[p] = "idle"
  /\ starts < MaxStarts
  /\ call = "claim" => d \notin settled
  /\ starts' = starts + 1
  /\ doc' = [doc EXCEPT ![p] = d]
  /\ Goto(p, call)
  /\ UNCHANGED <<file, settled, faults, overlapped, cut>>

(* _load of a torn file raises.  The claim and mark_failed stand outside   *)
(* the try of handle_message; the other calls of a message are in it.      *)
LoadRaises(p) ==
  /\ pc[p] \in Calls /\ phase[p] = "load"
  /\ file = Torn
  /\ Goto(p, IF pc[p] \in {"save", "confirm"} THEN "fail" ELSE "idle")
  /\ UNCHANGED <<file, doc, settled, starts, faults, overlapped, cut>>

(* claim_for_parsing returns False; the message will be deleted.           *)
Refuse(p) ==
  /\ pc[p] = "claim" /\ phase[p] = "load"
  /\ file # Torn
  /\ ~Claimable(file, doc[p])
  /\ Goto(p, IF file.status[doc[p]] = "parsed" THEN "delete" ELSE "drop")
  /\ UNCHANGED <<file, doc, settled, starts, faults, overlapped, cut>>

(* mark_parsed and mark_failed of a document that the file does not know   *)
(* save nothing.                                                           *)
MarkNothing(p) ==
  /\ pc[p] \in {"confirm", "fail"} /\ phase[p] = "load"
  /\ file # Torn
  /\ file.status[doc[p]] = "absent"
  /\ Goto(p, After(pc[p]))
  /\ UNCHANGED <<file, doc, settled, starts, faults, overlapped, cut>>

(* A call loads the file and edits its copy.                               *)
Load(p) ==
  /\ pc[p] \in Calls /\ phase[p] = "load"
  /\ file # Torn
  /\ pc[p] = "claim" => Claimable(file, doc[p])
  /\ pc[p] \in {"confirm", "fail"} => file.status[doc[p]] # "absent"
  /\ copy' = [copy EXCEPT ![p] = Edited(pc[p], file, doc[p])]
  /\ phase' = [phase EXCEPT ![p] = "truncate"]
  /\ overlapped' = (overlapped \/ \E q \in Processes \ {p} : Busy(q))
  /\ UNCHANGED <<file, pc, doc, settled, starts, faults, cut>>

(* _save: the two halves of write_text.                                    *)
Truncate(p) ==
  /\ pc[p] \in Calls /\ phase[p] = "truncate"
  /\ file' = Torn
  /\ phase' = [phase EXCEPT ![p] = "write"]
  /\ UNCHANGED <<pc, doc, copy, settled, starts, faults, overlapped, cut>>

Write(p) ==
  /\ pc[p] \in Calls /\ phase[p] = "write"
  /\ file' = copy[p]
  /\ Goto(p, After(pc[p]))
  /\ UNCHANGED <<doc, settled, starts, faults, overlapped, cut>>

(* The download and parse_pdf return, or raise.                            *)
ParsePdf(p) ==
  /\ pc[p] = "parse"
  /\ \E call \in {"save", "fail"} : Goto(p, call)
  /\ UNCHANGED <<file, doc, settled, starts, faults, overlapped, cut>>

(* delete_message: after the parse, for a duplicate, and for a document    *)
(* that the file does not know.                                            *)
DeleteMessage(p) ==
  /\ pc[p] \in {"delete", "drop"}
  /\ settled' = IF pc[p] = "delete" THEN settled \cup {doc[p]} ELSE settled
  /\ Goto(p, "idle")
  /\ UNCHANGED <<file, doc, starts, faults, overlapped, cut>>

(* The process dies.                                                       *)
Crash(p) ==
  /\ pc[p] # "idle"
  /\ faults < MaxFaults
  /\ faults' = faults + 1
  /\ cut' = (cut \/ (pc[p] \in Calls /\ phase[p] = "write"))
  /\ Goto(p, "idle")
  /\ UNCHANGED <<file, doc, settled, starts, overlapped>>

JsonNext ==
  \E p \in Processes :
    \/ \E d \in Documents, call \in {"register", "claim"} : Start(p, d, call)
    \/ LoadRaises(p) \/ Refuse(p) \/ MarkNothing(p) \/ Load(p) \/ Truncate(p) \/ Write(p)
    \/ ParsePdf(p) \/ DeleteMessage(p) \/ Crash(p)

JsonSpec == JsonInit /\ [][JsonNext]_jsonVars

-----------------------------------------------------------------------------
(* A state in which a document that says parsed, or whose message has been *)
(* deleted, has all its reports.                                           *)
Complete(s) ==
  \A d \in Documents :
    s.status[d] = "parsed" \/ d \in settled => Stored(s, d)

(* The store keeps the promise of its docstring - a message that is        *)
(* delivered again adds nothing and loses nothing - for workers that run   *)
(* one after the other and are not stopped in the middle of a write: what  *)
(* the file says, or is about to say again, is complete.  Two processes    *)
(* that overlap, or a death between truncating and writing, lose reports   *)
(* whose messages are gone.                                                *)
StoredUnlessOverlap ==
  \/ overlapped \/ cut
  \/ file # Torn /\ Complete(file)
  \/ \E p \in Processes : Busy(p) /\ phase[p] = "write" /\ Complete(copy[p])

(* What the file says, or will say when the write under way is done.       *)
Current ==
  IF file # Torn \/ cut THEN file
  ELSE copy[CHOOSE p \in Processes : Busy(p) /\ phase[p] = "write"]

AsCatalogue == INSTANCE Catalogue WITH
  Docs <- Documents,
  NoDoc <- NoDocument,
  catalogue <- Current.reports,
  confirmed <- {d \in Documents : Current.status[d] = "parsed"},
  acked <- settled

(* The docstring of the file says that it implements the same status       *)
(* machine and the same idempotency as the PostgreSQL backend.  So it      *)
(* keeps the same promise, up to the first accident: each report enters    *)
(* once, with all new ones of its document and under the first that has    *)
(* it; a document is confirmed, and its message deleted, when it is        *)
(* complete; and nothing is lost.                                          *)
FileImplementsCatalogue ==
  AsCatalogue!Init /\ [][overlapped' \/ cut' \/ [AsCatalogue!Next]_(AsCatalogue!vars)]_jsonVars
=============================================================================
