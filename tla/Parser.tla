------------------------------- MODULE Parser -------------------------------
(***************************************************************************)
(* services/worker/parser.py: from the lines of a PDF to its records.      *)
(*                                                                         *)
(* A line is [kind, key]: its kind is what the regular expressions of the  *)
(* parser make of its text, its key what they capture.  A report set is    *)
(* printed as a front matter (every ACN with its synopsis) and the full    *)
(* records.  That layout is external to the code; report sets are printed  *)
(* entry by entry, and the parser must read out what was printed.          *)
(***************************************************************************)
EXTENDS Naturals, Sequences, SequencesExt

CONSTANTS
  Proses,         \* what a narrative or a synopsis can be: sequences of lines
  Tales,          \* the narratives of a record: sequences of proses
  Bodies,         \* the sections of a record: sequences of <<header, lines>>
  MaxFront, MaxRecords    \* bounds: entries of the front matter, records

VARIABLES
  lines,          \* the lines of the report set, as far as it is printed
  front,          \* the synopses of its front matter
  records         \* its full records, each with its first line

parserVars == <<lines, front, records>>

(* "bare" is the name of a section alone on its line, "numbered" one such  *)
(* as "Person : 2"; "anomaly" is a field whose label is Anomaly.<axis>;    *)
(* "text" is any other line, with a value or without.                      *)
Headers == {"bare", "numbered"}
Plains == {"text", "anomaly"}
Kinds == {"acn", "counter", "narrative", "synopsis"} \cup Headers \cup Plains
Line(kind, key) == [kind |-> kind, key |-> key]
IsTimeOfDay(l) == l.kind = "bare" /\ l.key = "Time / Day"

(* What NASA prints: prose may read like anything, but the sections of a   *)
(* record are fields under headers, and the first of them is Time / Day.   *)
IsText(ls) == ls \in Seq(ToSet(ls)) /\ \A l \in ToSet(ls) : l.kind \in Kinds /\ l = Line(l.kind, l.key)
IsSection(s) ==
  /\ s = <<s[1], s[2]>> /\ IsText(<<s[1]>>) /\ IsText(s[2])
  /\ s[1].kind \in Headers /\ \A l \in ToSet(s[2]) : l.kind \in Plains

ASSUME ParserAssumption ==
  /\ \A p \in Proses : IsText(p)
  /\ \A t \in Tales : t \in Seq(ToSet(t)) /\ \A p \in ToSet(t) : IsText(p)
  /\ \A b \in Bodies : /\ b \in Seq(ToSet(b)) /\ \A s \in ToSet(b) : IsSection(s)
                       /\ b # <<>> /\ IsTimeOfDay(b[1][1])

(* How far after its ACN line a full record shows "Time / Day".            *)
LookAhead == 3

-----------------------------------------------------------------------------
(* _find_full_record_starts.                                               *)
RecordStarts(ls) ==
  {i \in DOMAIN ls :
     /\ ls[i].kind = "acn"
     /\ \E j \in DOMAIN ls :
          /\ j \in (i + 1) .. (i + LookAhead)
          /\ IsTimeOfDay(ls[j])}

(* One line of _parse_one_record: it opens a section or a prose, or goes   *)
(* into the one that is open.  Variant: a narrative replaces the last one. *)
NoSection == Line("none", "")
KeepLine(r, l) ==
  IF r.mode # "fields" THEN [r EXCEPT ![r.mode] = Append(@, l)]
  ELSE IF r.section # NoSection THEN [r EXCEPT !.fields = Append(@, <<r.section, l>>)]
  ELSE r
TakeLineLast(r, l) ==
  CASE l.kind \in {"acn", "counter"} -> r
    [] l.kind \in Headers -> [r EXCEPT !.section = l, !.mode = "fields"]
    [] l.kind \in {"narrative", "synopsis"} -> [r EXCEPT !.mode = l.kind, ![l.kind] = <<>>]
    [] l.kind \in Plains -> KeepLine(r, l)
TakeLine(r, l) ==
  CASE l.kind \in {"acn", "counter"} -> r
    [] l.kind \in Headers -> [r EXCEPT !.section = l, !.mode = "fields"]
    [] l.kind \in {"narrative", "synopsis"} -> [r EXCEPT !.mode = l.kind]
    [] l.kind \in Plains -> KeepLine(r, l)

(* The hazards of a record: one per axis, however often it is coded.       *)
Axes(fields) ==
  {f[2].key : f \in {g \in ToSet(fields) : g[1] = Line("bare", "Events") /\ g[2].kind = "anomaly"}}

(* The loop over the lines of a record, from the state it begins with.     *)
Opened == [section |-> NoSection, mode |-> "fields", fields |-> <<>>,
           narrative |-> <<>>, synopsis |-> <<>>]
ReadLines(start, ls) ==
  LET r[n \in 0 .. Len(ls)] == IF n = 0 THEN start ELSE TakeLine(r[n - 1], ls[n])
  IN  r[Len(ls)]

ParseOneRecord(ls) ==
  LET r == ReadLines(Opened, ls)
  IN  [acn |-> ls[1].key, fields |-> r.fields, hazards |-> Axes(r.fields),
       narrative |-> r.narrative, synopsis |-> r.synopsis]

(* parse_pdf: the lines from each start to the next one or the end.  The   *)
(* list of records is a function of their first lines, whose order it has. *)
LastLine(ls, i) ==
  CHOOSE n \in i .. Len(ls) :
    /\ n = Len(ls) \/ n + 1 \in RecordStarts(ls)
    /\ \A j \in RecordStarts(ls) : j <= i \/ n < j
ParsedRecords(ls) ==
  [i \in RecordStarts(ls) |-> ParseOneRecord(SubSeq(ls, i, LastLine(ls, i)))]

-----------------------------------------------------------------------------
(* The layout: a front entry is its synopsis, a record is                  *)
(* [body, narratives, synopsis]; both are headed by an ACN and a counter.  *)
Titled(header, ls) == <<header>> \o ls
Heading(k) == <<Line("acn", k), Line("counter", k)>>
Prose(kind, ls) == Titled(Line(kind, ""), ls)

LayFront(k, synopsis) == Heading(k) \o Prose("synopsis", synopsis)
LayBody(body) == FlattenSeq([i \in DOMAIN body |-> Titled(body[i][1], body[i][2])])
LayTale(tale) == FlattenSeq([i \in DOMAIN tale |-> Prose("narrative", tale[i])])
LayRecord(k, rec) ==
  ((Heading(k) \o LayBody(rec.body)) \o LayTale(rec.narratives)) \o Prose("synopsis", rec.synopsis)

(* The k-th record that was printed, in the form of the parser's.          *)
Coded(section) == [j \in DOMAIN section[2] |-> <<section[1], section[2][j]>>]
Printed(k, rec) ==
  LET fields == FlattenSeq([i \in DOMAIN rec.body |-> Coded(rec.body[i])])
  IN  [acn |-> k, fields |-> fields, hazards |-> Axes(fields),
       narrative |-> FlattenSeq(rec.narratives), synopsis |-> rec.synopsis]

ParserInit == lines = <<>> /\ front = <<>> /\ records = <<>>

PrintFront(synopsis) ==
  /\ records = <<>>
  /\ Len(front) < MaxFront
  /\ front' = Append(front, synopsis)
  /\ lines' = lines \o LayFront(Len(front) + 1, synopsis)
  /\ UNCHANGED records

PrintRecord(body, narratives, synopsis) ==
  LET rec == [first |-> Len(lines) + 1, body |-> body, narratives |-> narratives, synopsis |-> synopsis]
  IN  /\ Len(records) < MaxRecords
      /\ records' = Append(records, rec)
      /\ lines' = lines \o LayRecord(Len(records) + 1, rec)
      /\ UNCHANGED front

ParserNext ==
  \/ \E synopsis \in Proses : PrintFront(synopsis)
  \/ \E body \in Bodies, narratives \in Tales, synopsis \in Proses :
       PrintRecord(body, narratives, synopsis)

ParserSpec == ParserInit /\ [][ParserNext]_parserVars

-----------------------------------------------------------------------------
(* Prose of which no line is read as a header.                             *)
Plain(ls) == \A i \in DOMAIN ls : ls[i].kind \in Plains
PlainRecord(rec) == \A p \in {rec.synopsis} \cup ToSet(rec.narratives) : Plain(p)

(* No line of prose reads "Time / Day", and no synopsis ends, right before *)
(* the next ACN, on a line "ACN: <digits>".                                *)
Untimed(ls) == \A i \in DOMAIN ls : ~IsTimeOfDay(ls[i])
EndsPlain(ls) == ls = <<>> \/ Last(ls).kind # "acn"
NoFalseStart ==
  /\ \A k \in DOMAIN front : Untimed(front[k]) /\ EndsPlain(front[k])
  /\ \A k \in DOMAIN records :
       /\ \A p \in {records[k].synopsis} \cup ToSet(records[k].narratives) : Untimed(p)
       /\ EndsPlain(records[k].synopsis)

(* The parser finds the full records of a report set, all of them and      *)
(* nothing of its front matter, and gives each the fields, the prose and   *)
(* the hazards that were printed in it.  A line of prose that reads like a *)
(* header spoils its own record and no other, unless it is an ACN at the   *)
(* very end of a synopsis, or opens a "Time / Day" of its own: then a      *)
(* record may be found that was never printed.                             *)
ExtractedAsPrinted ==
  LET parsed == ParsedRecords(lines)
  IN  NoFalseStart =>
        /\ DOMAIN parsed = {records[k].first : k \in DOMAIN records}
        /\ \A k \in DOMAIN records :
             LET got == parsed[records[k].first]
             IN  got.acn = k /\ (PlainRecord(records[k]) => got = Printed(k, records[k]))
=============================================================================
