---------------------------- MODULE ParserProofs ----------------------------
(***************************************************************************)
(* Theorems about Parser: what is parsed is what was printed, for any      *)
(* prose, any sections and any number of entries and records.              *)
(*                                                                         *)
(* Reading a record is a recursion over its lines, and laying it out one   *)
(* over its parts, so the proofs are by induction over sequences.  The     *)
(* library states induction for an operator P(_); here it is stated for    *)
(* the set of what has been proved so far, and follows from the same       *)
(* theorem on well-founded relations.                                      *)
(***************************************************************************)
EXTENDS Parser, SequenceTheorems, WellFoundedInduction, TLAPS

(* Induction over the natural numbers: S has all of them.                  *)
LEMMA Induction ==
  ASSUME NEW S, 0 \in S, \A n \in Nat : n \in S => n + 1 \in S
  PROVE  Nat \subseteq S
<1> DEFINE T == Nat \ S
           less == {ss \in Nat \X Nat : ss[1] < ss[2]}
<1>1. SUFFICES ASSUME T # {}
               PROVE  FALSE
  OBVIOUS
<1>2. IsWellFoundedOn(less, Nat)
  BY NatLessThanWellFounded, Zenon DEF OpToRel
<1>3. PICK x \in T : \A y \in T : ~ (<<y, x>> \in less)
  <2>1. T \subseteq Nat
    OBVIOUS
  <2> HIDE DEF less, T
  <2> QED
    BY <1>1, <1>2, <2>1, WFMin
<1>4. x \in Nat /\ x # 0 /\ x - 1 \in Nat /\ x - 1 \notin S
  OBVIOUS
<1>5. x - 1 \in T /\ <<x - 1, x>> \in less
  BY <1>4
<1> QED
  BY <1>3, <1>5

(* What is appended to a concatenation is appended to its second part.     *)
LEMMA AppendConcat ==
  ASSUME NEW S, NEW a \in Seq(S)
  PROVE  \A e \in S, b \in Seq(S) :
           /\ Append(b, e) \in Seq(S)
           /\ Append(a \o b, e) = a \o Append(b, e)
<1> SUFFICES ASSUME NEW e \in S, NEW b \in Seq(S)
             PROVE  Append(b, e) \in Seq(S) /\ Append(a \o b, e) = a \o Append(b, e)
  OBVIOUS
<1>1. Append(b, e) \in Seq(S)
  OBVIOUS
<1>2. /\ Append(a \o b, e) \in Seq(S) /\ a \o Append(b, e) \in Seq(S)
      /\ Len(Append(a \o b, e)) = Len(a \o Append(b, e))
      /\ \A i \in 1 .. Len(Append(a \o b, e)) : Append(a \o b, e)[i] = (a \o Append(b, e))[i]
  OBVIOUS
<1> QED
  BY <1>1, <1>2, SeqEqual

(* Induction over sequences, an element at a time.                         *)
LEMMA SeqInduction ==
  ASSUME NEW S, NEW G, <<>> \in G,
         \A s \in Seq(S), x \in S : s \in G => Append(s, x) \in G
  PROVE  Seq(S) \subseteq G
<1> DEFINE Good == {n \in Nat : \A s \in Seq(S) : Len(s) = n => s \in G}
<1>1. 0 \in Good
  OBVIOUS
<1>2. ASSUME NEW n \in Nat, n \in Good
      PROVE  n + 1 \in Good
  <2> SUFFICES ASSUME NEW s \in Seq(S), Len(s) = n + 1
               PROVE  s \in G
    OBVIOUS
  <2>1. PICK d \in Seq(S), x \in S : s = Append(d, x)
    <3>1. s # <<>>
      OBVIOUS
    <3> QED
      BY <3>1, SequenceEmptyOrAppend
  <2>2. Len(d) = n
    BY <2>1
  <2> QED
    BY <1>2, <2>1, <2>2
<1> HIDE DEF Good
<1>3. Nat \subseteq Good
  BY <1>1, <1>2, Induction
<1> QED
  BY <1>3 DEF Good

(* The loop over lines, as the function that ReadLines chooses.            *)
IsRun(r, start, ls) == r = [n \in 0 .. Len(ls) |-> IF n = 0 THEN start ELSE TakeLine(r[n - 1], ls[n])]

(* There is such a function, by induction on how far it has read.          *)
LEMMA RunExists ==
  ASSUME NEW S, NEW start, NEW ls \in Seq(S)
  PROVE  \E r : IsRun(r, start, ls)
<1> DEFINE Prefix(r, m) == r = [n \in 0 .. m |-> IF n = 0 THEN start ELSE TakeLine(r[n - 1], ls[n])]
           Good == {m \in Nat : \E r : Prefix(r, m)}
<1>1. 0 \in Good
  <2>1. Prefix([n \in 0 .. 0 |-> start], 0)
    OBVIOUS
  <2> QED
    BY <2>1
<1>2. ASSUME NEW m \in Nat, m \in Good
      PROVE  m + 1 \in Good
  <2>1. PICK r : Prefix(r, m)
    BY <1>2
  <2> DEFINE q == [n \in 0 .. m + 1 |-> IF n = m + 1 THEN TakeLine(r[m], ls[m + 1]) ELSE r[n]]
  <2>2. \A n \in 0 .. m : q[n] = r[n] /\ r[n] = IF n = 0 THEN start ELSE TakeLine(r[n - 1], ls[n])
    BY <2>1
  <2>3. \A n \in 0 .. m + 1 : q[n] = IF n = 0 THEN start ELSE TakeLine(q[n - 1], ls[n])
    <3> SUFFICES ASSUME NEW n \in 0 .. m + 1
                 PROVE  q[n] = IF n = 0 THEN start ELSE TakeLine(q[n - 1], ls[n])
      OBVIOUS
    <3>1. CASE n = m + 1
      <4>1. q[n - 1] = r[m] /\ n # 0
        BY <3>1
      <4> QED
        BY <3>1, <4>1
    <3>2. CASE n # m + 1
      <4>1. n \in 0 .. m /\ (n # 0 => n - 1 \in 0 .. m)
        BY <3>2
      <4>2. n # 0 => q[n - 1] = r[n - 1]
        BY <4>1, <2>2
      <4> QED
        BY <4>1, <4>2, <2>2
    <3> QED
      BY <3>1, <3>2
  <2>4. Prefix(q, m + 1)
    <3> HIDE DEF q
    <3>1. q = [n \in 0 .. m + 1 |-> q[n]]
      BY DEF q
    <3> QED
      BY <3>1, <2>3
  <2> HIDE DEF q, Prefix
  <2> QED
    BY <2>4
<1> HIDE DEF Good
<1>3. Nat \subseteq Good
  BY <1>1, <1>2, Induction
<1>4. Len(ls) \in Good
  BY <1>3
<1>5. PICK r : Prefix(r, Len(ls))
  BY <1>4 DEF Good
<1> QED
  BY <1>5 DEF IsRun

(* ReadLines is its last value.                                            *)
LEMMA ReadRun ==
  ASSUME NEW S, NEW start, NEW ls \in Seq(S)
  PROVE  \E r : IsRun(r, start, ls) /\ ReadLines(start, ls) = r[Len(ls)]
<1> DEFINE Run == CHOOSE r : IsRun(r, start, ls)
<1>1. IsRun(Run, start, ls)
  BY RunExists, Zenon
<1>2. ReadLines(start, ls) = Run[Len(ls)]
  BY Zenon DEF ReadLines, IsRun
<1> QED
  BY <1>1, <1>2

(* No line read, nothing changed.                                          *)
LEMMA ReadNone == \A start : ReadLines(start, <<>>) = start
<1> SUFFICES ASSUME NEW start
             PROVE  ReadLines(start, <<>>) = start
  OBVIOUS
<1>1. PICK r : IsRun(r, start, <<>>) /\ ReadLines(start, <<>>) = r[Len(<<>>)]
  <2>1. <<>> \in Seq({})
    OBVIOUS
  <2> QED
    BY <2>1, ReadRun
<1> QED
  BY <1>1 DEF IsRun

(* The last line is taken by the state that the others were read into.     *)
LEMMA ReadAppend ==
  ASSUME NEW S, NEW start, NEW ls \in Seq(S), NEW l \in S
  PROVE  ReadLines(start, Append(ls, l)) = TakeLine(ReadLines(start, ls), l)
<1> DEFINE more == Append(ls, l)
<1>1. /\ more \in Seq(S) /\ Len(more) = Len(ls) + 1 /\ more[Len(ls) + 1] = l
      /\ \A n \in 1 .. Len(ls) : more[n] = ls[n]
      /\ Len(ls) \in Nat
  OBVIOUS
<1> HIDE DEF more
<1>2. PICK r : IsRun(r, start, ls) /\ ReadLines(start, ls) = r[Len(ls)]
  BY ReadRun
<1>3. PICK q : IsRun(q, start, more) /\ ReadLines(start, more) = q[Len(more)]
  BY <1>1, ReadRun
<1>4. \A n \in 0 .. Len(ls) : r[n] = IF n = 0 THEN start ELSE TakeLine(r[n - 1], ls[n])
  BY <1>2 DEF IsRun
<1>5. \A n \in 0 .. Len(ls) + 1 : q[n] = IF n = 0 THEN start ELSE TakeLine(q[n - 1], more[n])
  BY <1>1, <1>3 DEF IsRun
<1> DEFINE Same == {n \in Nat : n <= Len(ls) => q[n] = r[n]}
<1>6. 0 \in Same
  BY <1>1, <1>4, <1>5
<1>7. ASSUME NEW n \in Nat, n \in Same
      PROVE  n + 1 \in Same
  <2> SUFFICES ASSUME n + 1 <= Len(ls)
               PROVE  q[n + 1] = r[n + 1]
    OBVIOUS
  <2>1. q[n] = r[n] /\ more[n + 1] = ls[n + 1]
    BY <1>1, <1>7
  <2>2. /\ n + 1 \in 0 .. Len(ls) /\ n + 1 \in 0 .. Len(ls) + 1
        /\ n + 1 # 0 /\ (n + 1) - 1 = n
    BY <1>1
  <2>3. r[n + 1] = TakeLine(r[n], ls[n + 1])
    BY <1>4, <2>2
  <2>4. q[n + 1] = TakeLine(q[n], more[n + 1])
    BY <1>5, <2>2
  <2> QED
    BY <2>1, <2>3, <2>4
<1>8. q[Len(ls)] = r[Len(ls)]
  <2> HIDE DEF Same
  <2>1. Len(ls) \in Same
    BY <1>1, <1>6, <1>7, Induction
  <2> QED
    BY <1>1, <2>1 DEF Same
<1>9. q[Len(ls) + 1] = TakeLine(q[Len(ls)], l)
  <2>1. /\ Len(ls) + 1 \in 0 .. Len(ls) + 1
        /\ Len(ls) + 1 # 0 /\ (Len(ls) + 1) - 1 = Len(ls)
    BY <1>1
  <2> QED
    BY <1>1, <1>5, <2>1
<1> QED
  BY <1>1, <1>2, <1>3, <1>8, <1>9 DEF more

(* Two pieces are read one after the other.                                *)
LEMMA ReadConcat ==
  ASSUME NEW S, NEW start, NEW a \in Seq(S), NEW b \in Seq(S)
  PROVE  ReadLines(start, a \o b) = ReadLines(ReadLines(start, a), b)
<1> DEFINE Fits(n) == \A c \in Seq(S) : Len(c) = n =>
                        ReadLines(start, a \o c) = ReadLines(ReadLines(start, a), c)
           Good == {n \in Nat : Fits(n)}
<1>1. 0 \in Good
  <2>1. \A c \in Seq(S) : Len(c) = 0 => c = <<>> /\ a \o c = a
    OBVIOUS
  <2> QED
    BY <2>1, ReadNone
<1>2. ASSUME NEW n \in Nat, n \in Good
      PROVE  n + 1 \in Good
  <2> SUFFICES ASSUME NEW c \in Seq(S), Len(c) = n + 1
               PROVE  ReadLines(start, a \o c) = ReadLines(ReadLines(start, a), c)
    OBVIOUS
  <2>1. PICK d \in Seq(S), l \in S : c = Append(d, l)
    <3>1. c # <<>>
      OBVIOUS
    <3> QED
      BY <3>1, SequenceEmptyOrAppend
  <2>2. Len(d) = n
    BY <2>1
  <2>3. a \o d \in Seq(S) /\ a \o c = Append(a \o d, l)
    BY <2>1
  <2>4. ReadLines(start, a \o d) = ReadLines(ReadLines(start, a), d)
    BY <1>2, <2>2
  <2>5. ASSUME NEW e \in Seq(S)
        PROVE  ReadLines(start, Append(e, l)) = TakeLine(ReadLines(start, e), l)
    BY ReadAppend
  <2>6. ReadLines(ReadLines(start, a), Append(d, l)) = TakeLine(ReadLines(ReadLines(start, a), d), l)
    BY ReadAppend
  <2> QED
    BY <2>1, <2>3, <2>4, <2>5, <2>6
<1> HIDE DEF Good
<1>3. Len(b) \in Good
  BY <1>1, <1>2, Induction
<1> QED
  BY <1>3 DEF Good

Reader(s, m, f, n, y) == [section |-> s, mode |-> m, fields |-> f, narrative |-> n, synopsis |-> y]

(* What each kind of line does to the state of the parser.                 *)
LEMMA TakeHeading ==
  \A l : l.kind \in {"acn", "counter"} => \A r : TakeLine(r, l) = r
BY DEF TakeLine, Headers, Plains

LEMMA TakeHeader ==
  \A l : l.kind \in Headers =>
    \A s, m, f, n, y : TakeLine(Reader(s, m, f, n, y), l) = Reader(l, "fields", f, n, y)
<1> SUFFICES ASSUME NEW l, l.kind \in Headers, NEW s, NEW m, NEW f, NEW n, NEW y
             PROVE  TakeLine(Reader(s, m, f, n, y), l) = Reader(l, "fields", f, n, y)
  BY Zenon
<1> QED
  BY DEF TakeLine, Headers, Plains, Reader

LEMMA TakeProse ==
  \A l : l.kind \in {"narrative", "synopsis"} =>
    \A s, m, f, n, y : TakeLine(Reader(s, m, f, n, y), l) = Reader(s, l.kind, f, n, y)
BY DEF TakeLine, Headers, Plains, Reader

LEMMA TakeField ==
  \A l : l.kind \in Plains =>
    \A s, f, n, y :
      s # NoSection => TakeLine(Reader(s, "fields", f, n, y), l) = Reader(s, "fields", Append(f, <<s, l>>), n, y)
<1> SUFFICES ASSUME NEW l, l.kind \in Plains, NEW s, NEW f, NEW n, NEW y
             PROVE  s # NoSection => TakeLine(Reader(s, "fields", f, n, y), l) = Reader(s, "fields", Append(f, <<s, l>>), n, y)
  BY Zenon
<1>1. TakeLine(Reader(s, "fields", f, n, y), l) = KeepLine(Reader(s, "fields", f, n, y), l)
  BY DEF TakeLine, Headers, Plains
<1> QED
  BY <1>1 DEF KeepLine, Reader

LEMMA TakeNarrative ==
  \A l : l.kind \in Plains =>
    \A s, f, n, y :
      TakeLine(Reader(s, "narrative", f, n, y), l) = Reader(s, "narrative", f, Append(n, l), y)
<1> SUFFICES ASSUME NEW l, l.kind \in Plains, NEW s, NEW f, NEW n, NEW y
             PROVE  TakeLine(Reader(s, "narrative", f, n, y), l) = Reader(s, "narrative", f, Append(n, l), y)
  BY Zenon
<1>1. TakeLine(Reader(s, "narrative", f, n, y), l) = KeepLine(Reader(s, "narrative", f, n, y), l)
  BY DEF TakeLine, Headers, Plains
<1> QED
  BY <1>1 DEF KeepLine, Reader

LEMMA TakeSynopsis ==
  \A l : l.kind \in Plains =>
    \A s, f, n, y :
      TakeLine(Reader(s, "synopsis", f, n, y), l) = Reader(s, "synopsis", f, n, Append(y, l))
<1> SUFFICES ASSUME NEW l, l.kind \in Plains, NEW s, NEW f, NEW n, NEW y
             PROVE  TakeLine(Reader(s, "synopsis", f, n, y), l) = Reader(s, "synopsis", f, n, Append(y, l))
  BY Zenon
<1>1. TakeLine(Reader(s, "synopsis", f, n, y), l) = KeepLine(Reader(s, "synopsis", f, n, y), l)
  BY DEF TakeLine, Headers, Plains
<1> QED
  BY <1>1 DEF KeepLine, Reader

(* FlattenSeq, its empty case and its step.                                *)
IsFlat(g, ss) == g = [i \in 1 .. Len(ss) |-> IF i = 1 THEN ss[i] ELSE g[i - 1] \o ss[i]]

(* The function that flattens a sequence of pieces from the left exists,   *)
LEMMA FlatExists ==
  ASSUME NEW S, NEW ss \in Seq(S), ss # <<>>
  PROVE  \E g : IsFlat(g, ss)
<1> DEFINE Prefix(g, m) == g = [i \in 1 .. m |-> IF i = 1 THEN ss[i] ELSE g[i - 1] \o ss[i]]
           Good == {m \in Nat : \E g : Prefix(g, m + 1)}
<1>1. 0 \in Good
  <2>1. Prefix([i \in 1 .. 0 + 1 |-> ss[1]], 0 + 1)
    OBVIOUS
  <2> HIDE DEF Prefix
  <2> QED
    BY <2>1
<1>2. ASSUME NEW m \in Nat, m \in Good
      PROVE  m + 1 \in Good
  <2>1. PICK g : Prefix(g, m + 1)
    BY <1>2
  <2> DEFINE q == [i \in 1 .. (m + 1) + 1 |-> IF i = m + 2 THEN g[m + 1] \o ss[m + 2] ELSE g[i]]
  <2>a. \A i \in 1 .. m + 1 : g[i] = IF i = 1 THEN ss[i] ELSE g[i - 1] \o ss[i]
    BY <2>1
  <2>2. \A i \in 1 .. m + 1 : q[i] = g[i] /\ g[i] = IF i = 1 THEN ss[i] ELSE g[i - 1] \o ss[i]
    BY <2>a
  <2>3. \A i \in 1 .. (m + 1) + 1 : q[i] = IF i = 1 THEN ss[i] ELSE q[i - 1] \o ss[i]
    <3> SUFFICES ASSUME NEW i \in 1 .. (m + 1) + 1
                 PROVE  q[i] = IF i = 1 THEN ss[i] ELSE q[i - 1] \o ss[i]
      OBVIOUS
    <3>1. CASE i = m + 2
      <4>1. i - 1 = m + 1 /\ i # 1 /\ i - 1 \in 1 .. (m + 1) + 1 /\ i - 1 # m + 2
        BY <3>1
      <4>2. q[i] = g[m + 1] \o ss[i] /\ q[i - 1] = g[m + 1]
        BY <3>1, <4>1
      <4> QED
        BY <4>1, <4>2
    <3>2. CASE i # m + 2
      <4>1. i \in 1 .. m + 1 /\ (i # 1 => i - 1 \in 1 .. m + 1)
        BY <3>2
      <4> HIDE DEF q
      <4>2. i # 1 => q[i - 1] = g[i - 1]
        BY <4>1, <2>2
      <4> QED
        BY <4>1, <4>2, <2>2
    <3> QED
      BY <3>1, <3>2
  <2>4. Prefix(q, (m + 1) + 1)
    <3>1. q = [i \in 1 .. (m + 1) + 1 |-> q[i]]
      OBVIOUS
    <3> HIDE DEF q
    <3> QED
      BY <3>1, <2>3
  <2> HIDE DEF q, Prefix
  <2> QED
    BY <2>4
<1> HIDE DEF Good
<1>3. Len(ss) - 1 \in Nat
  OBVIOUS
<1>4. Len(ss) - 1 \in Good
  BY <1>1, <1>2, <1>3, Induction
<1>5. PICK g : Prefix(g, (Len(ss) - 1) + 1)
  BY <1>4 DEF Good
<1>6. (Len(ss) - 1) + 1 = Len(ss)
  OBVIOUS
<1> QED
  BY <1>5, <1>6 DEF IsFlat

(* and FlattenSeq is its last value.                                       *)
LEMMA FlatRun ==
  ASSUME NEW S, NEW ss \in Seq(S), ss # <<>>
  PROVE  \E g : IsFlat(g, ss) /\ FlattenSeq(ss) = g[Len(ss)]
<1> DEFINE Flat == CHOOSE g : IsFlat(g, ss)
<1>1. IsFlat(Flat, ss)
  BY FlatExists, Zenon
<1>2. Len(ss) # 0
  OBVIOUS
<1>3. FlattenSeq(ss) = Flat[Len(ss)]
  BY <1>2, Zenon DEF FlattenSeq, IsFlat
<1> QED
  BY <1>1, <1>3

(* No pieces, nothing.                                                     *)
LEMMA FlatNone == FlattenSeq(<<>>) = <<>>
BY DEF FlattenSeq

(* One piece more is concatenated to the flattened others.                 *)
LEMMA FlatAppend ==
  ASSUME NEW S, NEW ss \in Seq(Seq(S)), NEW x \in Seq(S)
  PROVE  FlattenSeq(Append(ss, x)) = FlattenSeq(ss) \o x
<1> DEFINE more == Append(ss, x)
<1>1. /\ more \in Seq(Seq(S)) /\ Len(more) = Len(ss) + 1 /\ more[Len(ss) + 1] = x
      /\ \A i \in 1 .. Len(ss) : more[i] = ss[i]
      /\ Len(ss) \in Nat /\ more # <<>>
  <2>1. ASSUME NEW T, ss \in Seq(T), x \in T
        PROVE  /\ more \in Seq(T) /\ Len(more) = Len(ss) + 1 /\ more[Len(ss) + 1] = x
               /\ \A i \in 1 .. Len(ss) : more[i] = ss[i]
               /\ Len(ss) \in Nat /\ more # <<>>
    BY <2>1, AppendProperties, LenProperties
  <2> QED
    BY <2>1
<1> HIDE DEF more
<1>2. PICK q : IsFlat(q, more) /\ FlattenSeq(more) = q[Len(more)]
  BY <1>1, FlatRun
<1>3. \A i \in 1 .. Len(ss) + 1 : q[i] = IF i = 1 THEN more[i] ELSE q[i - 1] \o more[i]
  BY <1>1, <1>2 DEF IsFlat
<1>4. CASE ss = <<>>
  <2>1. Len(ss) = 0
    BY <1>4
  <2>2. q[1] = more[1]
    BY <1>3, <2>1
  <2>3. <<>> \o x = x
    OBVIOUS
  <2> QED
    BY <1>1, <1>2, <1>4, <2>1, <2>2, <2>3, FlatNone DEF more
<1>5. CASE ss # <<>>
  <2>1. PICK g : IsFlat(g, ss) /\ FlattenSeq(ss) = g[Len(ss)]
    BY <1>5, FlatRun
  <2>2. \A i \in 1 .. Len(ss) : g[i] = IF i = 1 THEN ss[i] ELSE g[i - 1] \o ss[i]
    BY <2>1 DEF IsFlat
  <2>3. Len(ss) >= 1
    BY <1>5
  <2> DEFINE Same == {n \in Nat : n + 1 <= Len(ss) => q[n + 1] = g[n + 1]}
  <2>4. 0 \in Same
    <3>1. 1 \in 1 .. Len(ss) /\ 1 \in 1 .. Len(ss) + 1
      BY <1>1, <2>3
    <3> QED
      BY <1>1, <1>3, <2>2, <3>1
  <2>5. ASSUME NEW n \in Nat, n \in Same
        PROVE  n + 1 \in Same
    <3> DEFINE i == n + 2
    <3> SUFFICES ASSUME i <= Len(ss)
                 PROVE  q[i] = g[i]
      OBVIOUS
    <3>1. /\ i \in 1 .. Len(ss) /\ i \in 1 .. Len(ss) + 1 /\ i # 1
          /\ i - 1 = n + 1 /\ n + 1 <= Len(ss)
      BY <1>1
    <3>2. q[n + 1] = g[n + 1] /\ more[i] = ss[i]
      BY <1>1, <2>5, <3>1
    <3>3. g[i] = g[n + 1] \o ss[i]
      BY <2>2, <3>1
    <3>4. q[i] = q[n + 1] \o more[i]
      BY <1>3, <3>1
    <3> QED
      BY <3>2, <3>3, <3>4
  <2>6. q[Len(ss)] = g[Len(ss)]
    <3>1. Len(ss) - 1 \in Nat
      BY <1>1, <2>3
    <3> HIDE DEF Same
    <3>2. Len(ss) - 1 \in Same
      BY <2>4, <2>5, <3>1, Induction
    <3>3. (Len(ss) - 1) + 1 = Len(ss)
      BY <1>1
    <3> QED
      BY <1>1, <3>2, <3>3 DEF Same
  <2>7. q[Len(ss) + 1] = q[Len(ss)] \o more[Len(ss) + 1]
    <3>1. /\ Len(ss) + 1 \in 1 .. Len(ss) + 1 /\ Len(ss) + 1 # 1
          /\ (Len(ss) + 1) - 1 = Len(ss)
      BY <1>1, <2>3
    <3> QED
      BY <1>3, <3>1
  <2> QED
    BY <1>1, <1>2, <2>1, <2>6, <2>7 DEF more
<1> QED
  BY <1>4, <1>5

(* One line is taken.                                                      *)
LEMMA ReadOne ==
  ASSUME NEW start, NEW l
  PROVE  ReadLines(start, <<l>>) = TakeLine(start, l)
<1>1. <<>> \in Seq({l}) /\ Append(<<>>, l) = <<l>>
  OBVIOUS
<1>2. \A e \in Seq({l}) : ReadLines(start, Append(e, l)) = TakeLine(ReadLines(start, e), l)
  BY l \in {l}, ReadAppend
<1> QED
  BY <1>1, <1>2, ReadNone

(* A heading changes nothing, a header opens its section or prose.         *)
LEMMA ReadTitled ==
  ASSUME NEW S, NEW start, NEW h \in S, NEW ls \in Seq(S)
  PROVE  ReadLines(start, Titled(h, ls)) = ReadLines(TakeLine(start, h), ls)
<1>1. <<h>> \in Seq(S)
  OBVIOUS
<1>2. \A e \in Seq(S) : ReadLines(start, e \o ls) = ReadLines(ReadLines(start, e), ls)
  BY ReadConcat
<1> QED
  BY <1>1, <1>2, ReadOne DEF Titled

(* The ACN and the counter of a record leave the state as it is.           *)
LEMMA ReadHeading ==
  ASSUME NEW s, NEW m, NEW f, NEW n, NEW y, NEW k
  PROVE  ReadLines(Reader(s, m, f, n, y), Heading(k)) = Reader(s, m, f, n, y)
<1> DEFINE a == Line("acn", k)
           c == Line("counter", k)
           r == Reader(s, m, f, n, y)
<1>1. a.kind = "acn" /\ c.kind = "counter"
  BY DEF Line
<1> HIDE DEF a, c
<1>2. a \in {a, c} /\ <<c>> \in Seq({a, c})
  OBVIOUS
<1>3. Titled(a, <<c>>) = <<a, c>>
  <2> DEFINE both == <<a>> \o <<c>>
  <2>1. <<a>> \in Seq({a, c}) /\ <<a, c>> \in Seq({a, c})
    OBVIOUS
  <2>2. both \in Seq({a, c}) /\ Len(both) = 2 /\ both[1] = a /\ both[2] = c
    BY <1>2, <2>1, ConcatProperties
  <2> HIDE DEF both
  <2>3. \A i \in 1 .. 2 : both[i] = <<a, c>>[i]
    BY <2>2
  <2> QED
    BY <2>1, <2>2, <2>3, SeqEqual DEF both, Titled
<1>4. \A ls \in Seq({a, c}) : ReadLines(r, Titled(a, ls)) = ReadLines(TakeLine(r, a), ls)
  BY <1>2, ReadTitled
<1>5. TakeLine(r, a) = r /\ TakeLine(r, c) = r
  BY <1>1, TakeHeading
<1> QED
  BY <1>2, <1>3, <1>4, <1>5, ReadOne DEF Heading, a, c

(* A sequence mapped through a function, element by element.               *)
Mapped(F, s) == [i \in DOMAIN s |-> F[s[i]]]
(* F takes the elements of S to elements of T.                             *)
Maps(F, S, T) == F \in [S -> T]

(* The image of one element more is appended.                              *)
LEMMA MapAppend ==
  ASSUME NEW S, NEW T, NEW F, Maps(F, S, T)
  PROVE  \A d \in Seq(S), x \in S :
           /\ Mapped(F, d) \in Seq(T)
           /\ Mapped(F, Append(d, x)) = Append(Mapped(F, d), F[x])
<1> SUFFICES ASSUME NEW d \in Seq(S), NEW x \in S
             PROVE  /\ Mapped(F, d) \in Seq(T)
                    /\ Mapped(F, Append(d, x)) = Append(Mapped(F, d), F[x])
  OBVIOUS
<1> DEFINE k == Len(d)
           M == Mapped(F, d)
<1>1. k \in Nat /\ DOMAIN d = 1 .. k /\ \A i \in 1 .. k : d[i] \in S
  OBVIOUS
<1>0. \A z \in S : F[z] \in T
  BY DEF Maps
<1>2. M \in Seq(T) /\ Len(M) = k /\ \A i \in 1 .. k : M[i] = F[d[i]]
  <2>1. M \in [1 .. k -> T]
    BY <1>0, <1>1 DEF Mapped
  <2>2. M \in Seq(T)
    BY <1>1, <2>1
  <2> QED
    BY <1>1, <2>1, <2>2 DEF Mapped
<1>3. /\ Append(d, x) \in Seq(S) /\ DOMAIN Append(d, x) = 1 .. k + 1
      /\ Append(d, x)[k + 1] = x /\ \A i \in 1 .. k : Append(d, x)[i] = d[i]
  BY <1>1
<1>4. /\ DOMAIN Append(M, F[x]) = 1 .. k + 1 /\ Append(M, F[x])[k + 1] = F[x]
      /\ \A i \in 1 .. k : Append(M, F[x])[i] = M[i]
      /\ Append(M, F[x]) = [i \in 1 .. k + 1 |-> Append(M, F[x])[i]]
  <2> HIDE DEF M
  <2> QED
    BY <1>0, <1>1, <1>2
<1>5. \A i \in 1 .. k + 1 : F[Append(d, x)[i]] = Append(M, F[x])[i]
  <2> HIDE DEF M
  <2> QED
    BY <1>1, <1>2, <1>3, <1>4
<1>6. Mapped(F, Append(d, x)) = Append(M, F[x])
  <2> HIDE DEF M
  <2> QED
    BY <1>3, <1>4, <1>5 DEF Mapped
<1> QED
  BY <1>2, <1>6

(* The fields that the lines of V can make.                                *)
Pairs(V) == V \X V

(* A line more of a section is a field more of it.                         *)
LEMMA CodedAppend ==
  ASSUME NEW V, NEW h \in V
  PROVE  \A d \in Seq(V), x \in V :
           /\ Coded(<<h, d>>) \in Seq(Pairs(V))
           /\ Coded(<<h, Append(d, x)>>) = Append(Coded(<<h, d>>), <<h, x>>)
<1> DEFINE F == [x \in V |-> <<h, x>>]
<1>1. \A d \in Seq(V) : Coded(<<h, d>>) = Mapped(F, d)
  BY DEF Coded, Mapped
<1>2. Maps(F, V, Pairs(V)) /\ \A x \in V : F[x] = <<h, x>>
  BY DEF Pairs, Maps
<1>3. \A d \in Seq(V), x \in V : Append(d, x) \in Seq(V)
  OBVIOUS
<1> HIDE DEF F
<1>4. \A d \in Seq(V), x \in V :
        /\ Mapped(F, d) \in Seq(Pairs(V))
        /\ Mapped(F, Append(d, x)) = Append(Mapped(F, d), F[x])
  BY <1>2, MapAppend
<1> QED
  BY <1>1, <1>2, <1>3, <1>4

(* The lines of a section are kept as its fields.                          *)
LEMMA ReadFields ==
  ASSUME NEW V, NEW P, P \subseteq V, NEW h \in V, h.kind \in Headers,
         \A l \in P : l.kind \in Plains, NEW ls \in Seq(P),
         NEW s, NEW m, NEW f \in Seq(Pairs(V)), NEW n, NEW y
  PROVE  ReadLines(Reader(s, m, f, n, y), Titled(h, ls)) = Reader(h, "fields", f \o Coded(<<h, ls>>), n, y)
<1> DEFINE R == Reader(h, "fields", f, n, y)
           G == {d \in Seq(P) : ReadLines(R, d) = Reader(h, "fields", f \o Coded(<<h, d>>), n, y)}
<1>1. h # NoSection
  <2>1. NoSection.kind = "none"
    BY DEF NoSection, Line
  <2> QED
    BY <2>1 DEF Headers
<1>2. <<>> \in G
  <2>1. Coded(<<h, <<>>>>) = <<>> /\ f \o <<>> = f /\ <<>> \in Seq(P)
    BY DEF Coded
  <2> QED
    BY <2>1, ReadNone
<1>3. ASSUME NEW d \in Seq(P), NEW l \in P, d \in G
      PROVE  Append(d, l) \in G
  <2>1. /\ Coded(<<h, d>>) \in Seq(Pairs(V))
        /\ Coded(<<h, Append(d, l)>>) = Append(Coded(<<h, d>>), <<h, l>>)
    <3>1. \A c \in Seq(V), x \in V :
            /\ Coded(<<h, c>>) \in Seq(Pairs(V))
            /\ Coded(<<h, Append(c, x)>>) = Append(Coded(<<h, c>>), <<h, x>>)
      BY CodedAppend
    <3>2. d \in Seq(V) /\ l \in V
      OBVIOUS
    <3> QED
      BY <3>1, <3>2
  <2> DEFINE g == Coded(<<h, d>>)
  <2>2. Append(f \o g, <<h, l>>) = f \o Append(g, <<h, l>>)
    <3>1. <<h, l>> \in Pairs(V)
      BY DEF Pairs
    <3>2. \A e \in Pairs(V), b \in Seq(Pairs(V)) :
             /\ Append(b, e) \in Seq(Pairs(V))
             /\ Append(f \o b, e) = f \o Append(b, e)
      BY AppendConcat
    <3> QED
      BY <2>1, <3>1, <3>2
  <2>3. ReadLines(R, Append(d, l)) = TakeLine(ReadLines(R, d), l)
    BY ReadAppend
  <2>4. TakeLine(Reader(h, "fields", f \o g, n, y), l)
          = Reader(h, "fields", Append(f \o g, <<h, l>>), n, y)
    BY <1>1, TakeField
  <2>5. Append(d, l) \in Seq(P)
    OBVIOUS
  <2> QED
    BY <1>3, <2>1, <2>2, <2>3, <2>4, <2>5
<1>4. ls \in G
  <2> HIDE DEF G
  <2> QED
    BY <1>2, <1>3, SeqInduction
<1>5. TakeLine(Reader(s, m, f, n, y), h) = R
  BY TakeHeader
<1>6. ls \in Seq(V)
  OBVIOUS
<1>7. \A r : ReadLines(r, Titled(h, ls)) = ReadLines(TakeLine(r, h), ls)
  BY <1>6, ReadTitled
<1> QED
  BY <1>4, <1>5, <1>7

(* The lines of a prose are added to it.                                   *)
LEMMA ReadNarrative ==
  ASSUME NEW P, \A l \in P : l.kind \in Plains, NEW ls \in Seq(P),
         NEW s, NEW m, NEW f, NEW n \in Seq(P), NEW y
  PROVE  ReadLines(Reader(s, m, f, n, y), Prose("narrative", ls)) = Reader(s, "narrative", f, n \o ls, y)
<1> DEFINE R == Reader(s, "narrative", f, n, y)
           G == {d \in Seq(P) : ReadLines(R, d) = Reader(s, "narrative", f, n \o d, y)}
           h == Line("narrative", "")
           V == P \cup {h}
<1>1. <<>> \in G
  <2>1. n \o <<>> = n /\ <<>> \in Seq(P)
    OBVIOUS
  <2> QED
    BY <2>1, ReadNone
<1>2. ASSUME NEW d \in Seq(P), NEW l \in P, d \in G
      PROVE  Append(d, l) \in G
  <2>1. Append(n \o d, l) = n \o Append(d, l) /\ Append(d, l) \in Seq(P)
    <3>1. \A e \in P, b \in Seq(P) :
             /\ Append(b, e) \in Seq(P)
             /\ Append(n \o b, e) = n \o Append(b, e)
      BY AppendConcat
    <3> QED
      BY <3>1
  <2>2. ReadLines(R, Append(d, l)) = TakeLine(ReadLines(R, d), l)
    BY ReadAppend
  <2>9. l.kind \in Plains
    OBVIOUS
  <2>3. TakeLine(Reader(s, "narrative", f, n \o d, y), l) = Reader(s, "narrative", f, Append(n \o d, l), y)
    BY <2>9, TakeNarrative
  <2> QED
    BY <1>2, <2>1, <2>2, <2>3
<1>3. ls \in G
  <2> HIDE DEF G
  <2> QED
    BY <1>1, <1>2, SeqInduction
<1>4. h.kind = "narrative"
  BY DEF Line
<1> HIDE DEF h
<1>5. TakeLine(Reader(s, m, f, n, y), h) = R
  BY <1>4, TakeProse
<1>6. ls \in Seq(V) /\ h \in V
  OBVIOUS
<1> HIDE DEF V
<1>7. \A r : ReadLines(r, Titled(h, ls)) = ReadLines(TakeLine(r, h), ls)
  BY <1>6, ReadTitled
<1> QED
  BY <1>3, <1>5, <1>7 DEF Prose, h

(* The synopsis is the last prose of a record, and has its own field.      *)
LEMMA ReadSynopsis ==
  ASSUME NEW P, \A l \in P : l.kind \in Plains, NEW ls \in Seq(P),
         NEW s, NEW m, NEW f, NEW n
  PROVE  ReadLines(Reader(s, m, f, n, <<>>), Prose("synopsis", ls)) = Reader(s, "synopsis", f, n, ls)
<1> DEFINE R == Reader(s, "synopsis", f, n, <<>>)
           G == {d \in Seq(P) : ReadLines(R, d) = Reader(s, "synopsis", f, n, d)}
           h == Line("synopsis", "")
           V == P \cup {h}
<1>1. <<>> \in G
  BY ReadNone
<1>2. ASSUME NEW d \in Seq(P), NEW l \in P, d \in G
      PROVE  Append(d, l) \in G
  <2>1. Append(d, l) \in Seq(P)
    OBVIOUS
  <2>2. ReadLines(R, Append(d, l)) = TakeLine(ReadLines(R, d), l)
    BY ReadAppend
  <2>9. l.kind \in Plains
    OBVIOUS
  <2>3. TakeLine(Reader(s, "synopsis", f, n, d), l) = Reader(s, "synopsis", f, n, Append(d, l))
    BY <2>9, TakeSynopsis
  <2> QED
    BY <1>2, <2>1, <2>2, <2>3
<1>3. ls \in G
  <2> HIDE DEF G
  <2> QED
    BY <1>1, <1>2, SeqInduction
<1>4. h.kind = "synopsis"
  BY DEF Line
<1> HIDE DEF h
<1>5. TakeLine(Reader(s, m, f, n, <<>>), h) = R
  BY <1>4, TakeProse
<1>6. ls \in Seq(V) /\ h \in V
  OBVIOUS
<1> HIDE DEF V
<1>7. \A r : ReadLines(r, Titled(h, ls)) = ReadLines(TakeLine(r, h), ls)
  BY <1>6, ReadTitled
<1> QED
  BY <1>3, <1>5, <1>7 DEF Prose, h

(* A flattened sequence of pieces is a sequence of their elements.         *)
LEMMA FlatType ==
  ASSUME NEW S
  PROVE  \A ss \in Seq(Seq(S)) : FlattenSeq(ss) \in Seq(S)
<1> DEFINE T == Seq(S)
           G == {ss \in Seq(T) : FlattenSeq(ss) \in T}
<1>1. <<>> \in G
  <2>1. <<>> \in Seq(T) /\ <<>> \in Seq(S)
    OBVIOUS
  <2> QED
    BY <2>1, FlatNone
<1>2. ASSUME NEW ss \in Seq(T), NEW x \in T, ss \in G
      PROVE  Append(ss, x) \in G
  <2>1. FlattenSeq(Append(ss, x)) = FlattenSeq(ss) \o x
    BY FlatAppend
  <2>2. FlattenSeq(ss) \o x \in Seq(S)
    BY <1>2
  <2>3. Append(ss, x) \in Seq(T)
    <3> HIDE DEF T
    <3> QED
      OBVIOUS
  <2> QED
    BY <2>1, <2>2, <2>3
<1> HIDE DEF T, G
<1>3. Seq(T) \subseteq G
  BY <1>1, <1>2, SeqInduction
<1> QED
  BY <1>3 DEF T, G

(* Pieces that a function makes of the elements: one element, one piece    *)
(* more.                                                                   *)
LEMMA FlatMap ==
  ASSUME NEW S, NEW T, NEW F, Maps(F, S, Seq(T))
  PROVE  \A d \in Seq(S), x \in S :
           /\ FlattenSeq(Mapped(F, d)) \in Seq(T)
           /\ FlattenSeq(Mapped(F, Append(d, x))) = FlattenSeq(Mapped(F, d)) \o F[x]
<1> SUFFICES ASSUME NEW d \in Seq(S), NEW x \in S
             PROVE  /\ FlattenSeq(Mapped(F, d)) \in Seq(T)
                    /\ FlattenSeq(Mapped(F, Append(d, x))) = FlattenSeq(Mapped(F, d)) \o F[x]
  OBVIOUS
<1>1. /\ Mapped(F, d) \in Seq(Seq(T))
      /\ Mapped(F, Append(d, x)) = Append(Mapped(F, d), F[x])
  BY MapAppend
<1>2. F[x] \in Seq(T)
  BY DEF Maps
<1>3. \A ss \in Seq(Seq(T)) : FlattenSeq(ss) \in Seq(T)
  BY FlatType
<1>4. \A ss \in Seq(Seq(T)) : \A z \in Seq(T) : FlattenSeq(Append(ss, z)) = FlattenSeq(ss) \o z
  BY FlatAppend
<1> QED
  BY <1>1, <1>2, <1>3, <1>4

(* The sections and the prose that are made of the lines of V.             *)
PlainOf(V) == {l \in V : l.kind \in Plains}
SectionsOf(V) == {x \in V \X Seq(PlainOf(V)) : x[1].kind \in Headers}
Codes(body) == FlattenSeq([i \in DOMAIN body |-> Coded(body[i])])

(* A section is its header and its lines.                                  *)
LEMMA SectionParts ==
  ASSUME NEW V
  PROVE  \A x \in SectionsOf(V) :
           /\ x = <<x[1], x[2]>> /\ x[1] \in V /\ x[1].kind \in Headers
           /\ x[2] \in Seq(PlainOf(V)) /\ x[2] \in Seq(V)
<1>1. Seq(PlainOf(V)) \subseteq Seq(V)
  BY DEF PlainOf
<1> QED
  BY <1>1 DEF SectionsOf

(* What is headed is one line longer, and starts with its header.          *)
LEMMA TitledType ==
  ASSUME NEW S
  PROVE  \A h \in S, ls \in Seq(S) :
           /\ Titled(h, ls) \in Seq(S)
           /\ Len(Titled(h, ls)) = Len(ls) + 1
           /\ Titled(h, ls)[1] = h
           /\ \A i \in 1 .. Len(ls) : Titled(h, ls)[i + 1] = ls[i]
<1> SUFFICES ASSUME NEW h \in S, NEW ls \in Seq(S)
             PROVE  /\ Titled(h, ls) \in Seq(S)
                    /\ Len(Titled(h, ls)) = Len(ls) + 1
                    /\ Titled(h, ls)[1] = h
                    /\ \A i \in 1 .. Len(ls) : Titled(h, ls)[i + 1] = ls[i]
  OBVIOUS
<1>1. <<h>> \in Seq(S) /\ Len(<<h>>) = 1 /\ <<h>>[1] = h /\ Len(ls) \in Nat
  OBVIOUS
<1> DEFINE t == <<h>> \o ls
<1>2. /\ t \in Seq(S) /\ Len(t) = 1 + Len(ls)
      /\ \A i \in 1 .. 1 + Len(ls) : t[i] = IF i <= 1 THEN h ELSE ls[i - 1]
  BY <1>1, ConcatProperties
<1> HIDE DEF t
<1>3. \A i \in 1 .. Len(ls) : t[i + 1] = ls[i]
  BY <1>1, <1>2
<1>4. t[1] = h
  BY <1>1, <1>2
<1> QED
  BY <1>1, <1>2, <1>3, <1>4 DEF Titled, t

(* The layout of a body, section by section,                               *)
LEMMA BodyAppend ==
  ASSUME NEW V
  PROVE  \A d \in Seq(SectionsOf(V)), x \in SectionsOf(V) :
           /\ LayBody(d) \in Seq(V)
           /\ LayBody(Append(d, x)) = LayBody(d) \o Titled(x[1], x[2])
<1> DEFINE S == SectionsOf(V)
           F == [x \in S |-> Titled(x[1], x[2])]
<1>1. \A d \in Seq(S) : LayBody(d) = FlattenSeq(Mapped(F, d))
  <2> SUFFICES ASSUME NEW d \in Seq(S)
               PROVE  [i \in DOMAIN d |-> Titled(d[i][1], d[i][2])] = Mapped(F, d)
    BY DEF LayBody
  <2>1. \A i \in DOMAIN d : d[i] \in S
    <3> HIDE DEF S
    <3> QED
      OBVIOUS
  <2> QED
    BY <2>1 DEF Mapped
<1>2. Maps(F, S, Seq(V))
  <2>1. \A x \in S : Titled(x[1], x[2]) \in Seq(V)
    BY SectionParts, TitledType
  <2> HIDE DEF S
  <2> QED
    BY <2>1 DEF Maps
<1>3. \A x \in S : F[x] = Titled(x[1], x[2])
  OBVIOUS
<1> HIDE DEF F, S
<1>4. \A d \in Seq(S), x \in S :
        /\ FlattenSeq(Mapped(F, d)) \in Seq(V)
        /\ FlattenSeq(Mapped(F, Append(d, x))) = FlattenSeq(Mapped(F, d)) \o F[x]
  BY <1>2, FlatMap
<1>5. \A d \in Seq(S), x \in S : Append(d, x) \in Seq(S)
  OBVIOUS
<1> QED
  BY <1>1, <1>3, <1>4, <1>5 DEF S

(* and its fields, section by section.                                     *)
LEMMA CodesAppend ==
  ASSUME NEW V
  PROVE  \A d \in Seq(SectionsOf(V)), x \in SectionsOf(V) :
           /\ Codes(d) \in Seq(Pairs(V)) /\ Coded(x) \in Seq(Pairs(V))
           /\ Codes(Append(d, x)) = Codes(d) \o Coded(x)
<1> DEFINE S == SectionsOf(V)
           F == [x \in S |-> Coded(x)]
<1>1. \A d \in Seq(S) : Codes(d) = FlattenSeq(Mapped(F, d))
  <2> SUFFICES ASSUME NEW d \in Seq(S)
               PROVE  [i \in DOMAIN d |-> Coded(d[i])] = Mapped(F, d)
    BY DEF Codes
  <2>1. \A i \in DOMAIN d : d[i] \in S
    <3> HIDE DEF S
    <3> QED
      OBVIOUS
  <2> QED
    BY <2>1 DEF Mapped
<1>2. \A x \in S : Coded(x) \in Seq(Pairs(V))
  <2> SUFFICES ASSUME NEW x \in S
               PROVE  Coded(x) \in Seq(Pairs(V))
    OBVIOUS
  <2>1. x[1] \in V /\ x[2] \in Seq(V) /\ x = <<x[1], x[2]>>
    BY SectionParts
  <2>2. \A d \in Seq(V), y \in V : Coded(<<x[1], d>>) \in Seq(Pairs(V))
    BY <2>1, CodedAppend
  <2> QED
    BY <2>1, <2>2
<1>3. Maps(F, S, Seq(Pairs(V))) /\ \A x \in S : F[x] = Coded(x)
  BY <1>2 DEF Maps
<1> HIDE DEF F, S
<1>4. \A d \in Seq(S), x \in S :
        /\ FlattenSeq(Mapped(F, d)) \in Seq(Pairs(V))
        /\ FlattenSeq(Mapped(F, Append(d, x))) = FlattenSeq(Mapped(F, d)) \o F[x]
  BY <1>3, FlatMap
<1>5. \A d \in Seq(S), x \in S : Append(d, x) \in Seq(S)
  OBVIOUS
<1> QED
  BY <1>1, <1>2, <1>3, <1>4, <1>5 DEF S

(* The headings of prose.                                                  *)
NarrativeLine == Line("narrative", "")
SynopsisLine == Line("synopsis", "")

(* The layout of the narratives, one by one.                               *)
LEMMA TaleAppend ==
  ASSUME NEW S, NarrativeLine \in S
  PROVE  \A d \in Seq(Seq(S)), x \in Seq(S) :
           /\ LayTale(d) \in Seq(S)
           /\ LayTale(Append(d, x)) = LayTale(d) \o Prose("narrative", x)
<1> DEFINE T == Seq(S)
           F == [x \in T |-> Prose("narrative", x)]
<1>1. \A d \in Seq(T) : LayTale(d) = FlattenSeq(Mapped(F, d))
  <2> SUFFICES ASSUME NEW d \in Seq(T)
               PROVE  [i \in DOMAIN d |-> Prose("narrative", d[i])] = Mapped(F, d)
    BY DEF LayTale
  <2>1. \A i \in DOMAIN d : d[i] \in T
    <3> HIDE DEF T
    <3> QED
      OBVIOUS
  <2> QED
    BY <2>1 DEF Mapped
<1>2. Maps(F, T, Seq(S)) /\ \A x \in T : F[x] = Prose("narrative", x)
  <2>1. \A g \in S, ls \in Seq(S) : Titled(g, ls) \in Seq(S)
    BY TitledType
  <2>2. \A x \in T : Prose("narrative", x) \in Seq(S)
    BY <2>1 DEF Prose, NarrativeLine
  <2> QED
    BY <2>2 DEF Maps
<1> HIDE DEF F, T
<1>4. \A d \in Seq(T), x \in T :
        /\ FlattenSeq(Mapped(F, d)) \in Seq(S)
        /\ FlattenSeq(Mapped(F, Append(d, x))) = FlattenSeq(Mapped(F, d)) \o F[x]
  BY <1>2, FlatMap
<1>5. \A d \in Seq(T), x \in T : Append(d, x) \in Seq(T)
  OBVIOUS
<1> QED
  BY <1>1, <1>2, <1>4, <1>5 DEF T

(* A body is read into the fields that it codes.                           *)
LEMMA ReadBody ==
  ASSUME NEW V
  PROVE  \A b \in Seq(SectionsOf(V)) :
           \E s, m : ReadLines(Opened, LayBody(b)) = Reader(s, m, Codes(b), <<>>, <<>>)
<1> DEFINE S == SectionsOf(V)
           Read(b) == \E s, m : ReadLines(Opened, LayBody(b)) = Reader(s, m, Codes(b), <<>>, <<>>)
           G == {b \in Seq(S) : Read(b)}
<1>1. <<>> \in G
  <2>1. LayBody(<<>>) = <<>> /\ Codes(<<>>) = <<>>
    <3>1. /\ [i \in DOMAIN <<>> |-> Titled(<<>>[i][1], <<>>[i][2])] = <<>>
          /\ [i \in DOMAIN <<>> |-> Coded(<<>>[i])] = <<>>
      OBVIOUS
    <3> QED
      BY <3>1, FlatNone DEF LayBody, Codes
  <2>2. ReadLines(Opened, <<>>) = Opened
    BY ReadNone
  <2>3. Opened = Reader(NoSection, "fields", <<>>, <<>>, <<>>)
    BY DEF Opened, Reader
  <2>4. Read(<<>>)
    BY <2>1, <2>2, <2>3
  <2>5. <<>> \in Seq(S)
    OBVIOUS
  <2> HIDE DEF Read
  <2> QED
    BY <2>4, <2>5
<1>2. ASSUME NEW b \in Seq(S), NEW x \in S, b \in G
      PROVE  Append(b, x) \in G
  <2>1. PICK s, m : ReadLines(Opened, LayBody(b)) = Reader(s, m, Codes(b), <<>>, <<>>)
    BY <1>2
  <2>2. /\ x = <<x[1], x[2]>> /\ x[1] \in V /\ x[1].kind \in Headers
        /\ x[2] \in Seq(PlainOf(V)) /\ x[2] \in Seq(V)
    BY SectionParts
  <2>3. /\ LayBody(b) \in Seq(V)
        /\ LayBody(Append(b, x)) = LayBody(b) \o Titled(x[1], x[2])
    BY BodyAppend
  <2>4. /\ Codes(b) \in Seq(Pairs(V))
        /\ Codes(Append(b, x)) = Codes(b) \o Coded(x)
    BY CodesAppend
  <2>5. Titled(x[1], x[2]) \in Seq(V)
    BY <2>2, TitledType
  <2>6. \A p, q \in Seq(V) : ReadLines(Opened, p \o q) = ReadLines(ReadLines(Opened, p), q)
    BY ReadConcat
  <2>7. ReadLines(Opened, LayBody(Append(b, x)))
          = ReadLines(Reader(s, m, Codes(b), <<>>, <<>>), Titled(x[1], x[2]))
    BY <2>1, <2>3, <2>5, <2>6
  <2>8. ReadLines(Reader(s, m, Codes(b), <<>>, <<>>), Titled(x[1], x[2]))
          = Reader(x[1], "fields", Codes(b) \o Coded(<<x[1], x[2]>>), <<>>, <<>>)
    <3> DEFINE P == PlainOf(V)
    <3>1. P \subseteq V /\ \A l \in P : l.kind \in Plains
      BY DEF PlainOf
    <3> HIDE DEF P
    <3> DEFINE c == Codes(b)
               h == x[1]
               ls == x[2]
    <3>2. h \in V /\ h.kind \in Headers /\ ls \in Seq(P) /\ c \in Seq(Pairs(V))
      BY <2>2, <2>4 DEF P
    <3> HIDE DEF c, h, ls
    <3>3. ReadLines(Reader(s, m, c, <<>>, <<>>), Titled(h, ls))
            = Reader(h, "fields", c \o Coded(<<h, ls>>), <<>>, <<>>)
      BY <3>1, <3>2, ReadFields
    <3> QED
      BY <3>3 DEF c, h, ls
  <2>9. Append(b, x) \in Seq(S)
    <3> HIDE DEF S
    <3> QED
      OBVIOUS
  <2>10. Read(Append(b, x))
    <3>1. Coded(x) = Coded(<<x[1], x[2]>>)
      BY <2>2
    <3> QED
      BY <2>4, <2>7, <2>8, <3>1
  <2> HIDE DEF Read
  <2> QED
    BY <2>9, <2>10
<1>3. Seq(S) \subseteq G
  <2> HIDE DEF G, S
  <2> QED
    BY <1>1, <1>2, SeqInduction
<1> QED
  BY <1>3

(* What kinds of lines P has, and the mode that narratives leave.          *)
AllPlain(P) == \A l \in P : l.kind \in Plains

TaleMode(m, t) == IF t = <<>> THEN m ELSE "narrative"

(* The narratives of a record are read into one, end to end.               *)
LEMMA ReadTale ==
  ASSUME NEW P, AllPlain(P), NEW s, NEW m, NEW f
  PROVE  \A t \in Seq(Seq(P)) :
           ReadLines(Reader(s, m, f, <<>>, <<>>), LayTale(t))
             = Reader(s, TaleMode(m, t), f, FlattenSeq(t), <<>>)
<1> DEFINE R == Reader(s, m, f, <<>>, <<>>)
           T == Seq(P)
           V == P \cup {NarrativeLine}
           Read(t) == ReadLines(R, LayTale(t)) = Reader(s, TaleMode(m, t), f, FlattenSeq(t), <<>>)
           G == {t \in Seq(T) : Read(t)}
<1>1. <<>> \in G
  <2>1. LayTale(<<>>) = <<>>
    <3>1. [i \in DOMAIN <<>> |-> Prose("narrative", <<>>[i])] = <<>>
      OBVIOUS
    <3> QED
      BY <3>1, FlatNone DEF LayTale
  <2>2. ReadLines(R, <<>>) = R
    BY ReadNone
  <2>3. Read(<<>>)
    BY <2>1, <2>2, FlatNone DEF TaleMode
  <2>4. <<>> \in Seq(T)
    OBVIOUS
  <2> HIDE DEF Read, T
  <2> QED
    BY <2>3, <2>4
<1>2. ASSUME NEW t \in Seq(T), NEW x \in T, t \in G
      PROVE  Append(t, x) \in G
  <2> DEFINE o == TaleMode(m, t)
  <2>1. ReadLines(R, LayTale(t)) = Reader(s, o, f, FlattenSeq(t), <<>>)
    BY <1>2
  <2>2. Seq(P) \subseteq Seq(V) /\ NarrativeLine \in V
    OBVIOUS
  <2>3. t \in Seq(Seq(V)) /\ x \in Seq(V)
    <3> HIDE DEF V
    <3>1. \A A, B : A \subseteq B => Seq(A) \subseteq Seq(B)
      OBVIOUS
    <3> QED
      BY <2>2, <3>1
  <2>4. /\ LayTale(t) \in Seq(V)
        /\ LayTale(Append(t, x)) = LayTale(t) \o Prose("narrative", x)
    <3> HIDE DEF V
    <3>1. \A d \in Seq(Seq(V)), z \in Seq(V) :
            /\ LayTale(d) \in Seq(V)
            /\ LayTale(Append(d, z)) = LayTale(d) \o Prose("narrative", z)
      BY <2>2, TaleAppend, Zenon
    <3> QED
      BY <2>3, <3>1
  <2>5. Prose("narrative", x) \in Seq(V)
    <3> HIDE DEF V
    <3>1. \A h \in V, ls \in Seq(V) : Titled(h, ls) \in Seq(V)
      BY TitledType
    <3> QED
      BY <2>2, <2>3, <3>1 DEF Prose, NarrativeLine
  <2>6. \A p, q \in Seq(V) : ReadLines(R, p \o q) = ReadLines(ReadLines(R, p), q)
    BY ReadConcat
  <2>7. FlattenSeq(Append(t, x)) = FlattenSeq(t) \o x /\ FlattenSeq(t) \in Seq(P)
    <3>1. \A ss \in Seq(Seq(P)) : FlattenSeq(ss) \in Seq(P)
      BY FlatType
    <3>2. \A ss \in Seq(Seq(P)) : \A z \in Seq(P) : FlattenSeq(Append(ss, z)) = FlattenSeq(ss) \o z
      BY FlatAppend
    <3> QED
      BY <3>1, <3>2
  <2>8. ReadLines(Reader(s, o, f, FlattenSeq(t), <<>>), Prose("narrative", x))
          = Reader(s, "narrative", f, FlattenSeq(t) \o x, <<>>)
    BY <2>7, ReadNarrative DEF AllPlain
  <2>9. Append(t, x) \in Seq(T) /\ TaleMode(m, Append(t, x)) = "narrative"
    <3> HIDE DEF T
    <3>1. Append(t, x) \in Seq(T) /\ Len(Append(t, x)) = Len(t) + 1 /\ Len(t) \in Nat
      OBVIOUS
    <3>2. Append(t, x) # <<>>
      BY <3>1
    <3> QED
      BY <3>1, <3>2 DEF TaleMode
  <2>10. Read(Append(t, x))
    <3> HIDE DEF R, V, o
    <3> QED
      BY <2>1, <2>4, <2>5, <2>6, <2>7, <2>8, <2>9
  <2> HIDE DEF Read
  <2> QED
    BY <2>9, <2>10
<1>3. Seq(T) \subseteq G
  <2> HIDE DEF G, T
  <2> QED
    BY <1>1, <1>2, SeqInduction
<1> QED
  BY <1>3

(* A vocabulary has what the layout adds to prose and sections.            *)
Vocabulary(V) ==
  /\ NarrativeLine \in V /\ SynopsisLine \in V
  /\ \A k \in Nat : Line("acn", k) \in V /\ Line("counter", k) \in V

(* A sequence over fewer elements is one over more.                        *)
LEMMA SeqWithin == \A A, B : A \subseteq B => Seq(A) \subseteq Seq(B)
OBVIOUS

(* The plain lines of a vocabulary are lines of it.                        *)
LEMMA PlainWithin == \A V : PlainOf(V) \subseteq V /\ \A l \in PlainOf(V) : l.kind \in Plains
BY DEF PlainOf

(* The lines of a laid out record and of its parts are in the vocabulary.  *)
LEMMA ProseType ==
  ASSUME NEW V, Vocabulary(V)
  PROVE  \A ls \in Seq(V) : Prose("narrative", ls) \in Seq(V) /\ Prose("synopsis", ls) \in Seq(V)
<1>1. NarrativeLine \in V /\ SynopsisLine \in V
  BY DEF Vocabulary
<1>2. \A h \in V, ls \in Seq(V) : Titled(h, ls) \in Seq(V)
  BY TitledType
<1> QED
  BY <1>1, <1>2 DEF Prose, NarrativeLine, SynopsisLine

LEMMA HeadingType ==
  ASSUME NEW V, Vocabulary(V), NEW k \in Nat
  PROVE  /\ Heading(k) \in Seq(V) /\ Len(Heading(k)) = 2
         /\ Heading(k)[1].kind = "acn" /\ Heading(k)[1].key = k
         /\ Heading(k)[2].kind = "counter"
<1> DEFINE a == Line("acn", k)
           c == Line("counter", k)
<1>1. a \in V /\ c \in V
  BY DEF Vocabulary
<1>2. a.kind = "acn" /\ a.key = k /\ c.kind = "counter"
  BY DEF Line
<1> HIDE DEF a, c
<1>3. <<a, c>> \in Seq(V) /\ Len(<<a, c>>) = 2 /\ <<a, c>>[1] = a /\ <<a, c>>[2] = c
  BY <1>1
<1> QED
  BY <1>2, <1>3 DEF Heading, a, c

LEMMA PartsType ==
  ASSUME NEW V, Vocabulary(V), NEW body \in Seq(SectionsOf(V)), NEW tale \in Seq(Seq(V)), NEW syn \in Seq(V)
  PROVE  /\ LayBody(body) \in Seq(V) /\ LayTale(tale) \in Seq(V)
         /\ Prose("synopsis", syn) \in Seq(V)
<1>1. LayBody(body) \in Seq(V)
  <2>1. CASE SectionsOf(V) = {}
    <3>1. body = <<>>
      BY <2>1
    <3>2. [i \in DOMAIN <<>> |-> Titled(<<>>[i][1], <<>>[i][2])] = <<>>
      OBVIOUS
    <3>3. LayBody(<<>>) = <<>>
      BY <3>2, FlatNone DEF LayBody
    <3>4. <<>> \in Seq(V)
      OBVIOUS
    <3> QED
      BY <3>1, <3>3, <3>4
  <2>2. CASE SectionsOf(V) # {}
    <3>1. PICK x \in SectionsOf(V) : TRUE
      BY <2>2
    <3> QED
      BY <3>1, BodyAppend
  <2> QED
    BY <2>1, <2>2
<1>2. LayTale(tale) \in Seq(V)
  <2>1. NarrativeLine \in V
    BY DEF Vocabulary
  <2>2. \A d \in Seq(Seq(V)), x \in Seq(V) : LayTale(d) \in Seq(V)
    BY <2>1, TaleAppend
  <2>3. <<>> \in Seq(V)
    OBVIOUS
  <2> QED
    BY <2>2, <2>3
<1>3. Prose("synopsis", syn) \in Seq(V)
  BY ProseType
<1> QED
  BY <1>1, <1>2, <1>3

(* A record of plain prose is read as it was laid out.                     *)
LEMMA ReadRecord ==
  ASSUME NEW V, Vocabulary(V), NEW k \in Nat, NEW body \in Seq(SectionsOf(V)),
         NEW tale \in Seq(Seq(PlainOf(V))), NEW syn \in Seq(PlainOf(V))
  PROVE  \E s, m : ReadLines(Opened, ((Heading(k) \o LayBody(body)) \o LayTale(tale)) \o Prose("synopsis", syn))
                     = Reader(s, m, Codes(body), FlattenSeq(tale), syn)
<1> DEFINE P == PlainOf(V)
           b == LayBody(body)
           t == LayTale(tale)
           y == Prose("synopsis", syn)
           h == Heading(k)
<1>1. P \subseteq V /\ AllPlain(P)
  BY PlainWithin DEF AllPlain
<1>2. tale \in Seq(Seq(P)) /\ syn \in Seq(P)
  OBVIOUS
<1> HIDE DEF P
<1>3. tale \in Seq(Seq(V)) /\ syn \in Seq(V)
  BY <1>1, <1>2, SeqWithin
<1>4. h \in Seq(V) /\ b \in Seq(V) /\ t \in Seq(V) /\ y \in Seq(V)
  <2>1. h \in Seq(V)
    BY HeadingType
  <2> QED
    BY <1>3, <2>1, PartsType
<1>5. h \o b \in Seq(V) /\ (h \o b) \o t \in Seq(V)
  <2> HIDE DEF h, b, t
  <2> QED
    BY <1>4
<1>6. \A p, q \in Seq(V) : ReadLines(Opened, p \o q) = ReadLines(ReadLines(Opened, p), q)
  BY ReadConcat
<1>7. ReadLines(Opened, h) = Opened
  <2>1. Opened = Reader(NoSection, "fields", <<>>, <<>>, <<>>)
    BY DEF Opened, Reader
  <2> QED
    BY <2>1, ReadHeading
<1>8. PICK s, m : ReadLines(Opened, b) = Reader(s, m, Codes(body), <<>>, <<>>)
  BY ReadBody
<1> DEFINE o == TaleMode(m, tale)
<1>9. ReadLines(Reader(s, m, Codes(body), <<>>, <<>>), t) = Reader(s, o, Codes(body), FlattenSeq(tale), <<>>)
  <2>1. AllPlain(P)
    BY <1>1
  <2>2. \A f : \A z \in Seq(Seq(P)) :
           ReadLines(Reader(s, m, f, <<>>, <<>>), LayTale(z))
             = Reader(s, TaleMode(m, z), f, FlattenSeq(z), <<>>)
    BY <2>1, ReadTale
  <2> QED
    BY <1>2, <2>2
<1> HIDE DEF o
<1>10. ReadLines(Reader(s, o, Codes(body), FlattenSeq(tale), <<>>), y)
         = Reader(s, "synopsis", Codes(body), FlattenSeq(tale), syn)
  BY <1>1, <1>2, ReadSynopsis DEF AllPlain
<1> HIDE DEF h, b, t, y
<1>11. ReadLines(Opened, h \o b) = Reader(s, m, Codes(body), <<>>, <<>>)
  <2>1. ReadLines(Opened, h \o b) = ReadLines(ReadLines(Opened, h), b)
    BY <1>4, <1>6
  <2> QED
    BY <1>7, <1>8, <2>1
<1>12. ReadLines(Opened, (h \o b) \o t) = Reader(s, o, Codes(body), FlattenSeq(tale), <<>>)
  <2>1. ReadLines(Opened, (h \o b) \o t) = ReadLines(ReadLines(Opened, h \o b), t)
    BY <1>4, <1>5, <1>6
  <2> QED
    BY <1>9, <1>11, <2>1
<1>13. ReadLines(Opened, ((h \o b) \o t) \o y) = Reader(s, "synopsis", Codes(body), FlattenSeq(tale), syn)
  <2>1. ReadLines(Opened, ((h \o b) \o t) \o y) = ReadLines(ReadLines(Opened, (h \o b) \o t), y)
    BY <1>4, <1>5, <1>6
  <2> QED
    BY <1>10, <1>12, <2>1
<1> QED
  BY <1>13 DEF h, b, t, y

(* Hence the record that the parser returns is the one that was printed.   *)
LEMMA ParseRecord ==
  ASSUME NEW V, Vocabulary(V), NEW k \in Nat, NEW rec, rec.body \in Seq(SectionsOf(V)),
         rec.narratives \in Seq(Seq(PlainOf(V))), rec.synopsis \in Seq(PlainOf(V)),
         LayRecord(k, rec)[1].key = k
  PROVE  ParseOneRecord(LayRecord(k, rec)) = Printed(k, rec)
<1> DEFINE body == rec.body
           tale == rec.narratives
           syn == rec.synopsis
<1>1. body \in Seq(SectionsOf(V)) /\ tale \in Seq(Seq(PlainOf(V))) /\ syn \in Seq(PlainOf(V))
  OBVIOUS
<1>2. LayRecord(k, rec) = ((Heading(k) \o LayBody(body)) \o LayTale(tale)) \o Prose("synopsis", syn)
  BY DEF LayRecord
<1>3. Printed(k, rec) = [acn |-> k, fields |-> Codes(body), hazards |-> Axes(Codes(body)),
                         narrative |-> FlattenSeq(tale), synopsis |-> syn]
  BY DEF Printed, Codes
<1> HIDE DEF body, tale, syn
<1>4. PICK s, m : ReadLines(Opened, LayRecord(k, rec)) = Reader(s, m, Codes(body), FlattenSeq(tale), syn)
  BY <1>1, <1>2, ReadRecord
<1> DEFINE r == Reader(s, m, Codes(body), FlattenSeq(tale), syn)
<1>5. r.fields = Codes(body) /\ r.narrative = FlattenSeq(tale) /\ r.synopsis = syn
  BY DEF Reader
<1>6. ReadLines(Opened, LayRecord(k, rec)) = r
  BY <1>4
<1> HIDE DEF r
<1> QED
  BY <1>3, <1>5, <1>6 DEF ParseOneRecord

(* Where the parser finds the start of a record.                           *)
Opens(R) == Len(R) >= LookAhead /\ R[1].kind = "acn" /\ ~IsTimeOfDay(R[2]) /\ R[2].kind # "acn" /\ IsTimeOfDay(R[3])
Quiet(R, c) ==
  /\ \A i \in 2 .. c : R[i].kind # "acn"
  /\ \A i \in c + 1 .. Len(R) : ~IsTimeOfDay(R[i])

(* An ACN line is no "Time / Day".                                         *)
LEMMA AcnIsNotTime == \A l : l.kind = "acn" => ~IsTimeOfDay(l)
BY DEF IsTimeOfDay

(* Lines without "Time / Day" start no record, here or before them.        *)
LEMMA NoStart ==
  ASSUME NEW V, NEW A \in Seq(V), NEW R \in Seq(V), \A i \in 1 .. Len(R) : ~IsTimeOfDay(R[i])
  PROVE  RecordStarts(A \o R) = RecordStarts(A)
<1> DEFINE n == Len(A)
           B == A \o R
<1>1. /\ n \in Nat /\ Len(R) \in Nat /\ B \in Seq(V) /\ Len(B) = n + Len(R)
      /\ DOMAIN A = 1 .. n /\ DOMAIN B = 1 .. n + Len(R)
      /\ \A i \in 1 .. n : B[i] = A[i]
      /\ \A i \in n + 1 .. n + Len(R) : B[i] = R[i - n]
  OBVIOUS
<1> HIDE DEF n, B
<1>2. \A i \in n + 1 .. n + Len(R) : ~IsTimeOfDay(B[i])
  <2> SUFFICES ASSUME NEW i \in n + 1 .. n + Len(R)
               PROVE  ~IsTimeOfDay(B[i])
    OBVIOUS
  <2>1. i - n \in 1 .. Len(R) /\ B[i] = R[i - n]
    BY <1>1
  <2> QED
    BY <2>1
<1>3. \A i \in RecordStarts(B) : i \in RecordStarts(A)
  <2> SUFFICES ASSUME NEW i \in RecordStarts(B)
               PROVE  i \in RecordStarts(A)
    OBVIOUS
  <2>1. i \in 1 .. n + Len(R) /\ B[i].kind = "acn"
    BY <1>1 DEF RecordStarts
  <2>2. PICK j \in 1 .. n + Len(R) : j \in (i + 1) .. (i + LookAhead) /\ IsTimeOfDay(B[j])
    BY <1>1 DEF RecordStarts
  <2>3. j \in 1 .. n /\ i \in 1 .. n
    BY <1>1, <1>2, <2>1, <2>2 DEF LookAhead
  <2> QED
    BY <1>1, <2>1, <2>2, <2>3 DEF RecordStarts
<1>4. \A i \in RecordStarts(A) : i \in RecordStarts(B)
  <2> SUFFICES ASSUME NEW i \in RecordStarts(A)
               PROVE  i \in RecordStarts(B)
    OBVIOUS
  <2>1. i \in 1 .. n /\ A[i].kind = "acn"
    BY <1>1 DEF RecordStarts
  <2>2. PICK j \in 1 .. n : j \in (i + 1) .. (i + LookAhead) /\ IsTimeOfDay(A[j])
    BY <1>1 DEF RecordStarts
  <2>3. i \in 1 .. n + Len(R) /\ j \in 1 .. n + Len(R) /\ B[i] = A[i] /\ B[j] = A[j]
    BY <1>1, <2>1, <2>2
  <2> QED
    BY <1>1, <2>1, <2>2, <2>3 DEF RecordStarts
<1> QED
  BY <1>3, <1>4 DEF B

(* A record starts where it is printed, and starts no other one: after its *)
(* last section no ACN of its prose finds a "Time / Day", and an ACN line  *)
(* before it is too far away unless it is the very last one.               *)
LEMMA OneStart ==
  ASSUME NEW V, NEW A \in Seq(V), NEW R \in Seq(V), EndsPlain(A), Opens(R),
         NEW c \in 2 .. Len(R), Quiet(R, c)
  PROVE  RecordStarts(A \o R) = RecordStarts(A) \cup {Len(A) + 1}
<1> DEFINE n == Len(A)
           B == A \o R
<1>1. /\ n \in Nat /\ Len(R) \in Nat /\ B \in Seq(V) /\ Len(B) = n + Len(R)
      /\ DOMAIN A = 1 .. n /\ DOMAIN B = 1 .. n + Len(R)
      /\ \A i \in 1 .. n : B[i] = A[i]
      /\ \A i \in n + 1 .. n + Len(R) : B[i] = R[i - n]
  OBVIOUS
<1>2. Len(R) >= 3 /\ R[1].kind = "acn" /\ ~IsTimeOfDay(R[2]) /\ IsTimeOfDay(R[3])
  BY DEF Opens, LookAhead
<1>3. n > 0 => A[n].kind # "acn"
  BY <1>1 DEF EndsPlain, Last
<1> HIDE DEF n, B
<1>4. \A i \in RecordStarts(B) : i \in RecordStarts(A) \cup {n + 1}
  <2> SUFFICES ASSUME NEW i \in RecordStarts(B), i # n + 1
               PROVE  i \in RecordStarts(A)
    OBVIOUS
  <2>1. i \in 1 .. n + Len(R) /\ B[i].kind = "acn"
    BY <1>1 DEF RecordStarts
  <2>2. PICK j \in 1 .. n + Len(R) : j \in (i + 1) .. (i + 3) /\ IsTimeOfDay(B[j])
    BY <1>1 DEF RecordStarts, LookAhead
  <2>3. CASE i > n
    <3> DEFINE p == i - n
               q == j - n
    <3>1. p \in 2 .. Len(R) /\ q \in p + 1 .. Len(R) /\ B[i] = R[p] /\ B[j] = R[q]
      BY <1>1, <2>1, <2>2, <2>3
    <3>2. ~(p \in 2 .. c)
      BY <2>1, <3>1 DEF Quiet
    <3>3. q \in c + 1 .. Len(R)
      BY <3>1, <3>2
    <3> QED
      BY <2>2, <3>1, <3>3 DEF Quiet
  <2>4. CASE i <= n
    <3>1. i \in 1 .. n /\ B[i] = A[i] /\ i # n
      BY <1>1, <1>3, <2>1, <2>4
    <3>2. j <= n
      <4>1. CASE j = n + 1
        <5>1. B[j] = R[1]
          BY <1>1, <1>2, <4>1
        <5> QED
          BY <1>2, <2>2, <5>1, AcnIsNotTime
      <4>2. CASE j = n + 2
        <5>1. B[j] = R[2]
          BY <1>1, <1>2, <4>2
        <5> QED
          BY <1>2, <2>2, <5>1
      <4> QED
        BY <1>1, <2>2, <3>1, <4>1, <4>2
    <3>3. j \in 1 .. n /\ B[j] = A[j]
      BY <1>1, <2>2, <3>2
    <3> QED
      BY <1>1, <2>1, <2>2, <3>1, <3>3 DEF RecordStarts, LookAhead
  <2> QED
    BY <1>1, <2>1, <2>3, <2>4
<1>5. \A i \in RecordStarts(A) : i \in RecordStarts(B)
  <2> SUFFICES ASSUME NEW i \in RecordStarts(A)
               PROVE  i \in RecordStarts(B)
    OBVIOUS
  <2>1. i \in 1 .. n /\ A[i].kind = "acn"
    BY <1>1 DEF RecordStarts
  <2>2. PICK j \in 1 .. n : j \in (i + 1) .. (i + LookAhead) /\ IsTimeOfDay(A[j])
    BY <1>1 DEF RecordStarts
  <2>3. i \in 1 .. n + Len(R) /\ j \in 1 .. n + Len(R) /\ B[i] = A[i] /\ B[j] = A[j]
    BY <1>1, <2>1, <2>2
  <2> QED
    BY <1>1, <2>1, <2>2, <2>3 DEF RecordStarts
<1>6. n + 1 \in RecordStarts(B)
  <2>1. n + 1 \in 1 .. n + Len(R) /\ n + 3 \in 1 .. n + Len(R)
    BY <1>1, <1>2
  <2>2. /\ n + 1 \in n + 1 .. n + Len(R) /\ n + 3 \in n + 1 .. n + Len(R)
        /\ (n + 1) - n = 1 /\ (n + 3) - n = 3
        /\ n + 3 \in ((n + 1) + 1) .. ((n + 1) + LookAhead)
    BY <1>1, <1>2 DEF LookAhead
  <2>3. B[n + 1] = R[1] /\ B[n + 3] = R[3]
    BY <1>1, <2>2
  <2>4. B[n + 1].kind = "acn" /\ IsTimeOfDay(B[n + 3])
    BY <1>2, <2>3
  <2> QED
    BY <1>1, <2>1, <2>2, <2>4 DEF RecordStarts
<1> QED
  BY <1>4, <1>5, <1>6 DEF B, n

(* A body without sections has no lines.                                   *)
LEMMA BodyNone == LayBody(<<>>) = <<>>
<1>1. [i \in DOMAIN <<>> |-> Titled(<<>>[i][1], <<>>[i][2])] = <<>>
  OBVIOUS
<1> QED
  BY <1>1, FlatNone DEF LayBody

(* A body starts with the header of its first section.                     *)
LEMMA BodyFirst ==
  ASSUME NEW V
  PROVE  \A b \in Seq(SectionsOf(V)) :
           b # <<>> => Len(LayBody(b)) >= 1 /\ LayBody(b)[1] = b[1][1]
<1> DEFINE S == SectionsOf(V)
           First(b) == b # <<>> => Len(LayBody(b)) >= 1 /\ LayBody(b)[1] = b[1][1]
           G == {b \in Seq(S) : First(b)}
<1>1. <<>> \in G
  OBVIOUS
<1>2. ASSUME NEW b \in Seq(S), NEW x \in S, b \in G
      PROVE  Append(b, x) \in G
  <2> DEFINE t == Titled(x[1], x[2])
             B == LayBody(b)
  <2>1. B \in Seq(V) /\ LayBody(Append(b, x)) = B \o t
    BY BodyAppend
  <2>2. t \in Seq(V) /\ Len(t) >= 1 /\ t[1] = x[1]
    <3>1. x[1] \in V /\ x[2] \in Seq(V)
      BY SectionParts
    <3>2. \A h \in V, ls \in Seq(V) :
            Titled(h, ls) \in Seq(V) /\ Len(Titled(h, ls)) = Len(ls) + 1 /\ Titled(h, ls)[1] = h
      BY TitledType
    <3>3. t \in Seq(V) /\ Len(t) = Len(x[2]) + 1 /\ t[1] = x[1]
      BY <3>1, <3>2
    <3>4. Len(x[2]) \in Nat
      BY <3>1
    <3> QED
      BY <3>3, <3>4
  <2>3. /\ Append(b, x) \in Seq(S)
        /\ b = <<>> => Append(b, x)[1] = x
        /\ b # <<>> => Append(b, x)[1] = b[1]
    <3> HIDE DEF S
    <3> QED
      OBVIOUS
  <2> HIDE DEF t, B
  <2>4. CASE b = <<>>
    <3>1. B = <<>>
      BY <2>4, BodyNone DEF B
    <3>2. B \o t = t
      BY <2>2, <3>1
    <3> QED
      BY <2>1, <2>2, <2>3, <2>4, <3>2
  <2>5. CASE b # <<>>
    <3>1. Len(B) >= 1 /\ B[1] = b[1][1]
      BY <1>2, <2>5 DEF B
    <3>2. Len(B \o t) >= 1 /\ (B \o t)[1] = B[1]
      BY <2>1, <2>2, <3>1
    <3> QED
      BY <2>1, <2>3, <2>5, <3>1, <3>2
  <2> QED
    BY <2>4, <2>5
<1>3. Seq(S) \subseteq G
  <2> HIDE DEF G, S
  <2> QED
    BY <1>1, <1>2, SeqInduction
<1> QED
  BY <1>3

(* The index of a concatenation.                                           *)
LEMMA ConcatIndex ==
  ASSUME NEW V
  PROVE  \A a, b \in Seq(V) :
           /\ a \o b \in Seq(V) /\ Len(a) \in Nat /\ Len(b) \in Nat
           /\ Len(a \o b) = Len(a) + Len(b)
           /\ \A i \in 1 .. Len(a) : (a \o b)[i] = a[i]
           /\ \A i \in Len(a) + 1 .. Len(a) + Len(b) : (a \o b)[i] = b[i - Len(a)]
OBVIOUS

(* A record shows its ACN, its counter, and "Time / Day" on the third      *)
(* line.                                                                   *)
LEMMA RecordShape ==
  ASSUME NEW V, Vocabulary(V), NEW k \in Nat, NEW rec, rec.body \in Seq(SectionsOf(V)),
         rec.body # <<>>, IsTimeOfDay(rec.body[1][1]),
         rec.narratives \in Seq(Seq(V)), rec.synopsis \in Seq(V)
  PROVE  /\ LayRecord(k, rec) \in Seq(V) /\ Opens(LayRecord(k, rec))
         /\ LayRecord(k, rec)[1].key = k
<1> DEFINE h == Heading(k)
           b == LayBody(rec.body)
           t == LayTale(rec.narratives)
           y == Prose("synopsis", rec.synopsis)
           R == LayRecord(k, rec)
<1>1. h \in Seq(V) /\ Len(h) = 2 /\ h[1].kind = "acn" /\ h[1].key = k /\ h[2].kind = "counter"
  BY HeadingType
<1>2. b \in Seq(V) /\ t \in Seq(V) /\ y \in Seq(V)
  BY PartsType
<1>3. Len(b) >= 1 /\ IsTimeOfDay(b[1])
  BY BodyFirst
<1>4. R = ((h \o b) \o t) \o y
  BY DEF LayRecord
<1> HIDE DEF h, b, t, y, R
<1>5. /\ h \o b \in Seq(V) /\ Len(h \o b) >= 3
      /\ (h \o b)[1] = h[1] /\ (h \o b)[2] = h[2] /\ (h \o b)[3] = b[1]
  <2>0. \A p, q \in Seq(V) :
          p \o q \in Seq(V) /\ Len(q) \in Nat /\ Len(p \o q) = Len(p) + Len(q)
    OBVIOUS
  <2>1. Len(h \o b) = 2 + Len(b) /\ Len(b) \in Nat /\ h \o b \in Seq(V)
    BY <1>1, <1>2, <2>0
  <2>2. 1 \in 1 .. Len(h) /\ 2 \in 1 .. Len(h) /\ 3 \in Len(h) + 1 .. Len(h) + Len(b) /\ 3 - Len(h) = 1
    BY <1>1, <1>3, <2>1
  <2> QED
    BY <1>1, <1>2, <1>3, <2>1, <2>2
<1>6. \A p, q \in Seq(V) : Len(p) >= 3 =>
        /\ p \o q \in Seq(V) /\ Len(p \o q) >= 3
        /\ (p \o q)[1] = p[1] /\ (p \o q)[2] = p[2] /\ (p \o q)[3] = p[3]
  OBVIOUS
<1>7. /\ (h \o b) \o t \in Seq(V) /\ Len((h \o b) \o t) >= 3
      /\ ((h \o b) \o t)[1] = h[1] /\ ((h \o b) \o t)[2] = h[2] /\ ((h \o b) \o t)[3] = b[1]
  BY <1>2, <1>5, <1>6
<1>8. R \in Seq(V) /\ Len(R) >= 3 /\ R[1] = h[1] /\ R[2] = h[2] /\ R[3] = b[1]
  BY <1>2, <1>4, <1>6, <1>7
<1>9. R[1].kind = "acn" /\ R[1].key = k /\ R[2].kind # "acn" /\ ~IsTimeOfDay(R[2]) /\ IsTimeOfDay(R[3])
  BY <1>1, <1>3, <1>8 DEF IsTimeOfDay
<1> QED
  BY <1>8, <1>9 DEF Opens, LookAhead, R

(* What the records of a report set show of "Time / Day" and of ACN lines. *)
UntimedOf(V) == {l \in V : ~IsTimeOfDay(l)}
SilentOf(V) == {l \in V : l.kind # "acn"}

(* The layout adds no "Time / Day" to prose,                               *)
LEMMA UntimedProse ==
  ASSUME NEW V, Vocabulary(V)
  PROVE  /\ \A ls \in Seq(UntimedOf(V)) :
              Prose("narrative", ls) \in Seq(UntimedOf(V)) /\ Prose("synopsis", ls) \in Seq(UntimedOf(V))
         /\ \A t \in Seq(Seq(UntimedOf(V))) : LayTale(t) \in Seq(UntimedOf(V))
<1> DEFINE U == UntimedOf(V)
<1>1. NarrativeLine \in U /\ SynopsisLine \in U
  BY DEF Vocabulary, NarrativeLine, SynopsisLine, Line, UntimedOf, IsTimeOfDay
<1> HIDE DEF U
<1>2. \A h \in U, ls \in Seq(U) : Titled(h, ls) \in Seq(U)
  BY TitledType
<1>3. \A ls \in Seq(U) : Prose("narrative", ls) \in Seq(U) /\ Prose("synopsis", ls) \in Seq(U)
  BY <1>1, <1>2 DEF Prose, NarrativeLine, SynopsisLine
<1>4. \A d \in Seq(Seq(U)), x \in Seq(U) : LayTale(d) \in Seq(U)
  BY <1>1, TaleAppend
<1>5. <<>> \in Seq(U)
  OBVIOUS
<1> QED
  BY <1>3, <1>4, <1>5 DEF U

(* and a body has no ACN line.                                             *)
LEMMA SilentBody ==
  ASSUME NEW V, Vocabulary(V), NEW body \in Seq(SectionsOf(V))
  PROVE  LayBody(body) \in Seq(SilentOf(V))
<1> DEFINE W == SilentOf(V)
<1>1. PlainOf(V) \subseteq PlainOf(W)
  BY DEF PlainOf, SilentOf, Plains
<1>2. Seq(PlainOf(V)) \subseteq Seq(PlainOf(W))
  BY <1>1, SeqWithin
<1>3. SectionsOf(V) \subseteq SectionsOf(W)
  BY <1>2 DEF SectionsOf, SilentOf, Headers
<1>4. body \in Seq(SectionsOf(W))
  BY <1>3, SeqWithin
<1> HIDE DEF W
<1>5. CASE SectionsOf(W) = {}
  <2>1. body = <<>>
    BY <1>4, <1>5
  <2>2. <<>> \in Seq(W)
    OBVIOUS
  <2> QED
    BY <2>1, <2>2, BodyNone DEF W
<1>6. CASE SectionsOf(W) # {}
  <2>1. PICK x \in SectionsOf(W) : TRUE
    BY <1>6
  <2>2. LayBody(body) \in Seq(W)
    BY <1>4, <2>1, BodyAppend
  <2> QED
    BY <2>2 DEF W
<1> QED
  BY <1>5, <1>6

(* No prose ends on an ACN line, if no line of it does.                    *)
LEMMA ProseEnds ==
  ASSUME NEW V, Vocabulary(V), NEW ls \in Seq(V), EndsPlain(ls), NEW a \in Seq(V)
  PROVE  EndsPlain(a \o Prose("synopsis", ls)) /\ Len(Prose("synopsis", ls)) >= 1
<1> DEFINE p == Prose("synopsis", ls)
           n == Len(ls)
<1>1. /\ p \in Seq(V) /\ Len(p) = n + 1 /\ p[1] = SynopsisLine
      /\ \A i \in 1 .. n : p[i + 1] = ls[i]
  <2>1. SynopsisLine \in V
    BY DEF Vocabulary
  <2>2. \A h \in V, z \in Seq(V) :
          /\ Titled(h, z) \in Seq(V)
          /\ Len(Titled(h, z)) = Len(z) + 1
          /\ Titled(h, z)[1] = h
          /\ \A i \in 1 .. Len(z) : Titled(h, z)[i + 1] = z[i]
    BY TitledType
  <2>3. p = Titled(SynopsisLine, ls)
    BY DEF Prose, SynopsisLine
  <2> HIDE DEF p
  <2> QED
    BY <2>1, <2>2, <2>3
<1>2. n \in Nat
  OBVIOUS
<1>3. SynopsisLine.kind # "acn"
  BY DEF SynopsisLine, Line
<1>4. n > 0 => ls[n].kind # "acn"
  BY <1>2 DEF EndsPlain, Last
<1> HIDE DEF p, n
<1>5. p[n + 1].kind # "acn"
  BY <1>1, <1>2, <1>3, <1>4
<1>6. /\ Len(a \o p) = Len(a) + (n + 1) /\ Len(a) \in Nat
      /\ (a \o p)[Len(a) + (n + 1)] = p[n + 1]
  <2>1. Len(a \o p) = Len(a) + Len(p) /\ Len(a) \in Nat
    BY <1>1
  <2>2. \A i \in Len(a) + 1 .. Len(a) + Len(p) : (a \o p)[i] = p[i - Len(a)]
    BY <1>1
  <2>3. /\ Len(a) + (n + 1) \in Len(a) + 1 .. Len(a) + Len(p)
        /\ (Len(a) + (n + 1)) - Len(a) = n + 1
    BY <1>1, <1>2, <2>1
  <2> QED
    BY <1>1, <2>1, <2>2, <2>3
<1>7. EndsPlain(a \o p)
  BY <1>5, <1>6 DEF EndsPlain, Last
<1> QED
  BY <1>1, <1>2, <1>7 DEF p

(* A record whose prose looks like no start of one has only its own.       *)
LEMMA RecordQuiet ==
  ASSUME NEW V, Vocabulary(V), NEW k \in Nat, NEW rec, rec.body \in Seq(SectionsOf(V)),
         rec.narratives \in Seq(Seq(UntimedOf(V))), rec.synopsis \in Seq(UntimedOf(V)),
         EndsPlain(rec.synopsis)
  PROVE  /\ \E c \in 2 .. Len(LayRecord(k, rec)) : Quiet(LayRecord(k, rec), c)
         /\ EndsPlain(LayRecord(k, rec))
<1> DEFINE U == UntimedOf(V)
           W == SilentOf(V)
           h == Heading(k)
           b == LayBody(rec.body)
           t == LayTale(rec.narratives)
           y == Prose("synopsis", rec.synopsis)
           R == LayRecord(k, rec)
<1>1. U \subseteq V /\ W \subseteq V
  BY DEF UntimedOf, SilentOf
<1>2. h \in Seq(V) /\ Len(h) = 2 /\ h[2].kind # "acn"
  <2>1. h \in Seq(V) /\ Len(h) = 2 /\ h[2].kind = "counter"
    BY HeadingType
  <2> QED
    BY <2>1
<1>3. b \in Seq(W)
  BY SilentBody
<1>4. t \in Seq(U) /\ y \in Seq(U)
  BY UntimedProse
<1>5. b \in Seq(V) /\ t \in Seq(V) /\ y \in Seq(V)
  BY <1>1, <1>3, <1>4, SeqWithin
<1>6. R = ((h \o b) \o t) \o y
  BY DEF LayRecord
<1>7. \A x \in Seq(V) : EndsPlain(x \o y)
  <2>1. rec.synopsis \in Seq(V)
    BY <1>1, SeqWithin
  <2> QED
    BY <2>1, ProseEnds
<1>8. (\A i \in 1 .. Len(b) : b[i].kind # "acn") /\ \A i \in 1 .. Len(t) : ~IsTimeOfDay(t[i])
  <2>1. (\A i \in 1 .. Len(b) : b[i] \in W) /\ \A i \in 1 .. Len(t) : t[i] \in U
    <3> HIDE DEF W, U, b, t
    <3> QED
      BY <1>3, <1>4
  <2> QED
    BY <2>1 DEF UntimedOf, SilentOf
<1>9. \A i \in 1 .. Len(y) : ~IsTimeOfDay(y[i])
  <2>1. \A i \in 1 .. Len(y) : y[i] \in U
    <3> HIDE DEF U, y
    <3> QED
      BY <1>4
  <2> QED
    BY <2>1 DEF UntimedOf
<1> HIDE DEF h, b, t, y, R, U, W
<1> DEFINE c == 2 + Len(b)
           m == c + Len(t)
<1>10. /\ h \o b \in Seq(V) /\ Len(h \o b) = c /\ Len(b) \in Nat
       /\ (h \o b)[2] = h[2] /\ \A i \in 3 .. c : (h \o b)[i] = b[i - 2]
  <2>1. \A p, q \in Seq(V) :
          /\ p \o q \in Seq(V) /\ Len(q) \in Nat /\ Len(p \o q) = Len(p) + Len(q)
          /\ \A i \in 1 .. Len(p) : (p \o q)[i] = p[i]
          /\ \A i \in Len(p) + 1 .. Len(p) + Len(q) : (p \o q)[i] = q[i - Len(p)]
    BY ConcatIndex
  <2>2. /\ h \o b \in Seq(V) /\ Len(b) \in Nat /\ Len(h \o b) = Len(h) + Len(b)
        /\ \A i \in 1 .. Len(h) : (h \o b)[i] = h[i]
        /\ \A i \in Len(h) + 1 .. Len(h) + Len(b) : (h \o b)[i] = b[i - Len(h)]
    BY <1>2, <1>5, <2>1
  <2> QED
    BY <1>2, <2>2
<1>11. \A i \in 2 .. c : (h \o b)[i].kind # "acn"
  <2> SUFFICES ASSUME NEW i \in 2 .. c
               PROVE  (h \o b)[i].kind # "acn"
    OBVIOUS
  <2>1. CASE i = 2
    BY <1>2, <1>10, <2>1
  <2>2. CASE i # 2
    <3>1. i \in 3 .. c /\ i - 2 \in 1 .. Len(b)
      BY <1>10, <2>2
    <3> QED
      BY <1>8, <1>10, <3>1
  <2> QED
    BY <2>1, <2>2
<1> HIDE DEF c
<1>12. /\ (h \o b) \o t \in Seq(V) /\ Len((h \o b) \o t) = m /\ Len(t) \in Nat
       /\ \A i \in 1 .. c : ((h \o b) \o t)[i] = (h \o b)[i]
       /\ \A i \in c + 1 .. m : ((h \o b) \o t)[i] = t[i - c]
  BY <1>5, <1>10, ConcatIndex
<1> HIDE DEF m
<1>13. /\ R \in Seq(V) /\ Len(R) = m + Len(y) /\ Len(y) \in Nat
       /\ \A i \in 1 .. m : R[i] = ((h \o b) \o t)[i]
       /\ \A i \in m + 1 .. m + Len(y) : R[i] = y[i - m]
  BY <1>5, <1>6, <1>12, ConcatIndex
<1>14. c \in Nat /\ c >= 2 /\ m = c + Len(t) /\ m \in Nat
  BY <1>10, <1>12 DEF c, m
<1>15. \A i \in 2 .. c : R[i].kind # "acn"
  <2> SUFFICES ASSUME NEW i \in 2 .. c
               PROVE  R[i].kind # "acn"
    OBVIOUS
  <2>1. i \in 1 .. c /\ i \in 1 .. m
    BY <1>12, <1>14
  <2>2. R[i] = (h \o b)[i]
    BY <1>12, <1>13, <2>1
  <2> QED
    BY <1>11, <2>2
<1>16. \A i \in c + 1 .. Len(R) : ~IsTimeOfDay(R[i])
  <2> SUFFICES ASSUME NEW i \in c + 1 .. Len(R)
               PROVE  ~IsTimeOfDay(R[i])
    OBVIOUS
  <2>1. CASE i <= m
    <3>1. i \in 1 .. m /\ i \in c + 1 .. m /\ i - c \in 1 .. Len(t)
      BY <1>12, <1>14, <2>1
    <3>2. R[i] = t[i - c]
      BY <1>12, <1>13, <3>1
    <3> QED
      BY <1>8, <3>1, <3>2
  <2>2. CASE i > m
    <3>1. i \in m + 1 .. m + Len(y) /\ i - m \in 1 .. Len(y)
      BY <1>13, <1>14, <2>2
    <3>2. R[i] = y[i - m]
      BY <1>13, <3>1
    <3> QED
      BY <1>9, <3>1, <3>2
  <2> QED
    BY <1>13, <1>14, <2>1, <2>2
<1>17. c \in 2 .. Len(R) /\ Quiet(R, c)
  BY <1>12, <1>13, <1>14, <1>15, <1>16 DEF Quiet
<1>18. EndsPlain(R)
  BY <1>6, <1>7, <1>12
<1> QED
  BY <1>17, <1>18 DEF R

(* A sequence is one over any set that has its elements.                   *)
LEMMA SeqInto ==
  ASSUME NEW V, NEW W, NEW s \in Seq(V), \A i \in DOMAIN s : s[i] \in W
  PROVE  s \in Seq(W)
OBVIOUS

(* An entry of the front matter starts nothing.                            *)
LEMMA FrontShape ==
  ASSUME NEW V, Vocabulary(V), NEW k \in Nat, NEW syn \in Seq(V)
  PROVE  /\ LayFront(k, syn) \in Seq(V)
         /\ syn \in Seq(UntimedOf(V)) /\ EndsPlain(syn) =>
              /\ \A i \in 1 .. Len(LayFront(k, syn)) : ~IsTimeOfDay(LayFront(k, syn)[i])
              /\ \A a \in Seq(V) : EndsPlain(a \o LayFront(k, syn))
<1> DEFINE h == Heading(k)
           y == Prose("synopsis", syn)
           F == LayFront(k, syn)
           U == UntimedOf(V)
<1>1. h \in Seq(V) /\ y \in Seq(V) /\ F = h \o y
  BY HeadingType, ProseType DEF LayFront
<1>2. F \in Seq(V)
  <2> HIDE DEF h, y, F
  <2> QED
    BY <1>1
<1>3. ASSUME syn \in Seq(U), EndsPlain(syn)
      PROVE  /\ \A i \in 1 .. Len(F) : ~IsTimeOfDay(F[i])
             /\ \A a \in Seq(V) : EndsPlain(a \o F)
  <2>1. h \in Seq(U)
    <3>1. Len(h) = 2 /\ h[1].kind = "acn" /\ h[2].kind = "counter"
      BY HeadingType
    <3> HIDE DEF h
    <3>0. h \in Seq(V) /\ Len(h) = 2
      BY <1>1, <3>1
    <3>5. DOMAIN h = 1 .. 2 /\ \A i \in DOMAIN h : h[i] \in V
      <4>1. \A p \in Seq(V) : DOMAIN p = 1 .. Len(p) /\ \A i \in DOMAIN p : p[i] \in V
        OBVIOUS
      <4> QED
        BY <3>0, <4>1
    <3>2. \A i \in DOMAIN h : h[i] \in V /\ (i = 1 \/ i = 2)
      BY <3>5
    <3>4. ~IsTimeOfDay(h[1]) /\ ~IsTimeOfDay(h[2])
      BY <3>1 DEF IsTimeOfDay
    <3>3. \A i \in DOMAIN h : h[i] \in U
      BY <3>2, <3>4 DEF UntimedOf
    <3> HIDE DEF U
    <3> QED
      BY <1>1, <3>3, SeqInto
  <2>2. y \in Seq(U)
    BY <1>3, UntimedProse
  <2>3. \A i \in 1 .. Len(F) : F[i] \in U
    <3> HIDE DEF h, y, F, U
    <3> QED
      BY <1>1, <2>1, <2>2
  <2>4. ASSUME NEW a \in Seq(V)
        PROVE  EndsPlain(a \o F)
    <3>1. a \o h \in Seq(V) /\ a \o F = (a \o h) \o y
      <4> HIDE DEF h, y, F
      <4> QED
        BY <1>1, ConcatAssociative
    <3>2. \A x \in Seq(V) : EndsPlain(x \o y)
      BY <1>3, ProseEnds
    <3> QED
      BY <3>1, <3>2
  <2> QED
    BY <2>3, <2>4 DEF UntimedOf
<1> QED
  BY <1>2, <1>3

-----------------------------------------------------------------------------
(* The lines that a report set can show.                                   *)
InTale(t) == UNION {ToSet(p) : p \in ToSet(t)}
InBody(b) == UNION {{s[1]} \cup ToSet(s[2]) : s \in ToSet(b)}
ProseWords == UNION {ToSet(p) : p \in Proses}
TaleWords == UNION {InTale(t) : t \in Tales}
BodyWords == UNION {InBody(b) : b \in Bodies}
AnyLine ==
  {NarrativeLine, SynopsisLine}
  \cup {Line("acn", k) : k \in Nat} \cup {Line("counter", k) : k \in Nat}
  \cup ProseWords \cup TaleWords \cup BodyWords

(* The layout's own lines are among them, and so are those of every prose, *)
(* of every narrative and of every section.                                *)
LEMMA AnyLineVocabulary == Vocabulary(AnyLine)
BY DEF Vocabulary, AnyLine

LEMMA ProseLines == \A p \in Proses : p \in Seq(AnyLine)
<1> SUFFICES ASSUME NEW p \in Proses
             PROVE  p \in Seq(AnyLine)
  OBVIOUS
<1>1. p \in Seq(ToSet(p))
  BY ParserAssumption DEF IsText
<1>2. ToSet(p) \subseteq AnyLine
  BY DEF AnyLine, ProseWords
<1> QED
  BY <1>1, <1>2, SeqWithin

LEMMA TaleLines == \A t \in Tales : t \in Seq(Seq(AnyLine))
<1> SUFFICES ASSUME NEW t \in Tales
             PROVE  t \in Seq(Seq(AnyLine))
  OBVIOUS
<1>1. t \in Seq(ToSet(t)) /\ \A p \in ToSet(t) : p \in Seq(ToSet(p))
  BY ParserAssumption DEF IsText
<1>2. \A p \in ToSet(t) : p \in Seq(AnyLine)
  <2> SUFFICES ASSUME NEW p \in ToSet(t)
               PROVE  p \in Seq(AnyLine)
    OBVIOUS
  <2>1. ToSet(p) \subseteq AnyLine
    <3>1. ToSet(p) \subseteq InTale(t)
      BY DEF InTale
    <3>2. InTale(t) \subseteq TaleWords
      BY DEF TaleWords
    <3>3. TaleWords \subseteq AnyLine
      BY DEF AnyLine
    <3> QED
      BY <3>1, <3>2, <3>3
  <2> QED
    BY <1>1, <2>1, SeqWithin
<1> QED
  BY <1>1, <1>2, SeqWithin

LEMMA BodyLines ==
  \A b \in Bodies : b \in Seq(SectionsOf(AnyLine)) /\ b # <<>> /\ IsTimeOfDay(b[1][1])
<1> SUFFICES ASSUME NEW b \in Bodies
             PROVE  b \in Seq(SectionsOf(AnyLine)) /\ b # <<>> /\ IsTimeOfDay(b[1][1])
  OBVIOUS
<1>1. b \in Seq(ToSet(b)) /\ (\A s \in ToSet(b) : IsSection(s)) /\ b # <<>> /\ IsTimeOfDay(b[1][1])
  BY ParserAssumption
<1>2. \A s \in ToSet(b) : s \in SectionsOf(AnyLine)
  <2> SUFFICES ASSUME NEW s \in ToSet(b)
               PROVE  s \in SectionsOf(AnyLine)
    OBVIOUS
  <2>1. /\ s = <<s[1], s[2]>> /\ s[2] \in Seq(ToSet(s[2])) /\ s[1].kind \in Headers
        /\ \A l \in ToSet(s[2]) : l.kind \in Plains
    BY <1>1 DEF IsSection, IsText
  <2>2. s[1] \in AnyLine /\ ToSet(s[2]) \subseteq AnyLine
    <3>1. {s[1]} \cup ToSet(s[2]) \subseteq InBody(b)
      BY DEF InBody
    <3>2. InBody(b) \subseteq BodyWords
      BY DEF BodyWords
    <3>3. BodyWords \subseteq AnyLine
      BY DEF AnyLine
    <3> QED
      BY <3>1, <3>2, <3>3
  <2>3. ToSet(s[2]) \subseteq PlainOf(AnyLine)
    BY <2>1, <2>2 DEF PlainOf
  <2>4. s[2] \in Seq(PlainOf(AnyLine))
    BY <2>1, <2>3, SeqWithin
  <2> QED
    BY <2>1, <2>2, <2>4 DEF SectionsOf
<1>3. b \in Seq(SectionsOf(AnyLine))
  BY <1>1, <1>2, SeqWithin
<1> QED
  BY <1>1, <1>3

-----------------------------------------------------------------------------
(* The inductive invariant.  What is printed has its type; the records lie *)
(* in the lines one after another, each from its first line to the line    *)
(* before the next one; and, as long as no prose looks like the start of a *)
(* record, the starts are those first lines.                               *)
Recs == [first : Nat \ {0}, body : Bodies, narratives : Tales, synopsis : Proses]

ParserTypeOK == lines \in Seq(AnyLine) /\ front \in Seq(Proses) /\ records \in Seq(Recs)

EndOf(k) == IF k = Len(records) THEN Len(lines) ELSE records[k + 1].first - 1

RecordAt(k, rec) ==
  /\ EndOf(k) <= Len(lines)
  /\ EndOf(k) = rec.first - 1 + Len(LayRecord(k, rec))
  /\ \A n \in 1 .. Len(LayRecord(k, rec)) : lines[rec.first - 1 + n] = LayRecord(k, rec)[n]

InPlace ==
  /\ \A k \in 1 .. Len(records) : RecordAt(k, records[k])
  /\ \A j, k \in 1 .. Len(records) : j < k => records[j].first < records[k].first

StartsFound ==
  NoFalseStart =>
    /\ RecordStarts(lines) = {records[k].first : k \in 1 .. Len(records)}
    /\ EndsPlain(lines)

ParserInv == ParserTypeOK /\ InPlace /\ StartsFound

(* Prose without "Time / Day", and plain prose, as sequences of such       *)
(* lines.                                                                  *)
LEMMA UntimedWithin ==
  ASSUME NEW V
  PROVE  /\ \A p \in Seq(V) : Untimed(p) => p \in Seq(UntimedOf(V))
         /\ \A t \in Seq(Seq(V)) :
              (\A p \in ToSet(t) : Untimed(p)) => t \in Seq(Seq(UntimedOf(V)))
<1>1. ASSUME NEW p \in Seq(V), Untimed(p)
      PROVE  p \in Seq(UntimedOf(V))
  <2>1. \A i \in DOMAIN p : p[i] \in V
    OBVIOUS
  <2>2. \A i \in DOMAIN p : p[i] \in UntimedOf(V)
    BY <1>1, <2>1 DEF Untimed, UntimedOf
  <2> QED
    BY <2>2, SeqInto
<1>2. ASSUME NEW t \in Seq(Seq(V)), \A p \in ToSet(t) : Untimed(p)
      PROVE  t \in Seq(Seq(UntimedOf(V)))
  <2>1. \A i \in DOMAIN t : t[i] \in Seq(V) /\ Untimed(t[i])
    BY <1>2 DEF ToSet
  <2>2. \A i \in DOMAIN t : t[i] \in Seq(UntimedOf(V))
    BY <1>1, <2>1
  <2> QED
    BY <2>2, SeqInto
<1> QED
  BY <1>1, <1>2

LEMMA PlainWithinProse ==
  ASSUME NEW V
  PROVE  /\ \A p \in Seq(V) : Plain(p) => p \in Seq(PlainOf(V))
         /\ \A t \in Seq(Seq(V)) :
              (\A p \in ToSet(t) : Plain(p)) => t \in Seq(Seq(PlainOf(V)))
<1>1. ASSUME NEW p \in Seq(V), Plain(p)
      PROVE  p \in Seq(PlainOf(V))
  <2>1. \A i \in DOMAIN p : p[i] \in V
    OBVIOUS
  <2>2. \A i \in DOMAIN p : p[i] \in PlainOf(V)
    BY <1>1, <2>1 DEF Plain, PlainOf
  <2> QED
    BY <2>2, SeqInto
<1>2. ASSUME NEW t \in Seq(Seq(V)), \A p \in ToSet(t) : Plain(p)
      PROVE  t \in Seq(Seq(PlainOf(V)))
  <2>1. \A i \in DOMAIN t : t[i] \in Seq(V) /\ Plain(t[i])
    BY <1>2 DEF ToSet
  <2>2. \A i \in DOMAIN t : t[i] \in Seq(PlainOf(V))
    BY <1>1, <2>1
  <2> QED
    BY <2>2, SeqInto
<1> QED
  BY <1>1, <1>2

(* What a printed record is made of, and how it begins.                    *)
LEMMA RecordLines ==
  ASSUME NEW rec \in Recs, NEW k \in Nat
  PROVE  /\ rec.body \in Seq(SectionsOf(AnyLine))
         /\ rec.narratives \in Seq(Seq(AnyLine)) /\ rec.synopsis \in Seq(AnyLine)
         /\ LayRecord(k, rec) \in Seq(AnyLine) /\ Opens(LayRecord(k, rec))
         /\ LayRecord(k, rec)[1].key = k
<1>1. rec.body \in Bodies /\ rec.narratives \in Tales /\ rec.synopsis \in Proses
  BY DEF Recs
<1>2. /\ rec.body \in Seq(SectionsOf(AnyLine)) /\ rec.body # <<>> /\ IsTimeOfDay(rec.body[1][1])
      /\ rec.narratives \in Seq(Seq(AnyLine)) /\ rec.synopsis \in Seq(AnyLine)
  BY <1>1, BodyLines, TaleLines, ProseLines
<1> QED
  BY <1>2, AnyLineVocabulary, RecordShape

(* What no prose of a longer report set looks like, none of the shorter    *)
(* one did.                                                                *)
LEMMA FrontFalseStart ==
  ASSUME ParserTypeOK, NEW syn \in Proses, front' = Append(front, syn), records' = records,
         NoFalseStart'
  PROVE  NoFalseStart /\ Untimed(syn) /\ EndsPlain(syn)
<1>1. /\ DOMAIN front = 1 .. Len(front) /\ DOMAIN front' = 1 .. Len(front) + 1
      /\ \A k \in 1 .. Len(front) : front'[k] = front[k]
      /\ front'[Len(front) + 1] = syn /\ Len(front) \in Nat
  BY DEF ParserTypeOK
<1>2. \A k \in 1 .. Len(front) + 1 : Untimed(front'[k]) /\ EndsPlain(front'[k])
  BY <1>1 DEF NoFalseStart
<1>3. \A k \in DOMAIN front : Untimed(front[k]) /\ EndsPlain(front[k])
  BY <1>1, <1>2
<1>4. Untimed(syn) /\ EndsPlain(syn)
  BY <1>1, <1>2
<1>5. NoFalseStart
  BY <1>3 DEF NoFalseStart
<1> QED
  BY <1>4, <1>5

(* The same for one record more.                                           *)
LEMMA RecordFalseStart ==
  ASSUME ParserTypeOK, NEW rec \in Recs, front' = front, records' = Append(records, rec),
         NoFalseStart'
  PROVE  /\ NoFalseStart /\ EndsPlain(rec.synopsis)
         /\ Untimed(rec.synopsis) /\ \A p \in ToSet(rec.narratives) : Untimed(p)
<1>1. /\ DOMAIN records = 1 .. Len(records) /\ DOMAIN records' = 1 .. Len(records) + 1
      /\ \A k \in 1 .. Len(records) : records'[k] = records[k]
      /\ records'[Len(records) + 1] = rec /\ Len(records) \in Nat
  BY DEF ParserTypeOK
<1> DEFINE Fine(r) == /\ \A p \in {r.synopsis} \cup ToSet(r.narratives) : Untimed(p)
                      /\ EndsPlain(r.synopsis)
<1>2. \A k \in 1 .. Len(records) + 1 : Fine(records'[k])
  BY <1>1 DEF NoFalseStart
<1> HIDE DEF Fine
<1>3. \A k \in DOMAIN records : Fine(records[k])
  BY <1>1, <1>2
<1>4. Fine(rec)
  BY <1>1, <1>2
<1>5. NoFalseStart
  BY <1>3 DEF NoFalseStart, Fine
<1> QED
  BY <1>4, <1>5 DEF Fine

(* The empty report set, a front entry, a record: the invariant holds.     *)
LEMMA ParserInitInv == ParserInit => ParserInv
<1> SUFFICES ASSUME ParserInit
             PROVE  ParserInv
  OBVIOUS
<1>1. lines = <<>> /\ front = <<>> /\ records = <<>>
  BY DEF ParserInit
<1>2. ParserTypeOK
  BY <1>1 DEF ParserTypeOK
<1>3. InPlace
  BY <1>1 DEF InPlace
<1>4. RecordStarts(lines) = {} /\ {records[k].first : k \in 1 .. Len(records)} = {}
  BY <1>1 DEF RecordStarts
<1> QED
  BY <1>1, <1>2, <1>3, <1>4 DEF ParserInv, StartsFound, EndsPlain

LEMMA PrintFrontInv ==
  ASSUME ParserInv, NEW syn \in Proses, PrintFront(syn)
  PROVE  ParserInv'
<1> DEFINE k == Len(front) + 1
           F == LayFront(k, syn)
<1>1. /\ records = <<>> /\ records' = <<>> /\ front' = Append(front, syn) /\ lines' = lines \o F
  BY DEF PrintFront
<1>2. k \in Nat /\ syn \in Seq(AnyLine) /\ lines \in Seq(AnyLine)
  BY ProseLines DEF ParserInv, ParserTypeOK
<1>3. /\ F \in Seq(AnyLine)
      /\ syn \in Seq(UntimedOf(AnyLine)) /\ EndsPlain(syn) =>
           /\ \A i \in 1 .. Len(F) : ~IsTimeOfDay(F[i])
           /\ \A a \in Seq(AnyLine) : EndsPlain(a \o F)
  BY <1>2, AnyLineVocabulary, FrontShape
<1>4. ParserTypeOK'
  <2> HIDE DEF F
  <2> QED
    BY <1>1, <1>2, <1>3 DEF ParserInv, ParserTypeOK
<1>5. InPlace'
  BY <1>1 DEF InPlace
<1>6. ASSUME NoFalseStart'
      PROVE  /\ RecordStarts(lines') = {records'[j].first : j \in 1 .. Len(records')}
             /\ EndsPlain(lines')
  <2>1. NoFalseStart /\ Untimed(syn) /\ EndsPlain(syn)
    BY <1>1, <1>6, FrontFalseStart DEF ParserInv
  <2>2. syn \in Seq(UntimedOf(AnyLine))
    BY <1>2, <2>1, UntimedWithin
  <2>3. \A i \in 1 .. Len(F) : ~IsTimeOfDay(F[i])
    BY <1>3, <2>1, <2>2
  <2>4. EndsPlain(lines')
    BY <1>1, <1>2, <1>3, <2>1, <2>2
  <2> HIDE DEF F
  <2>5. RecordStarts(lines \o F) = RecordStarts(lines)
    BY <1>2, <1>3, <2>3, NoStart
  <2>6. RecordStarts(lines) = {records[j].first : j \in 1 .. Len(records)}
    BY <2>1 DEF ParserInv, StartsFound
  <2> QED
    BY <1>1, <2>4, <2>5, <2>6
<1>7. StartsFound'
  BY <1>6 DEF StartsFound
<1> QED
  BY <1>4, <1>5, <1>7 DEF ParserInv

LEMMA PrintRecordInv ==
  ASSUME ParserInv, NEW body \in Bodies, NEW tale \in Tales, NEW syn \in Proses,
         PrintRecord(body, tale, syn)
  PROVE  ParserInv'
<1> DEFINE n == Len(records)
           m == Len(lines)
           rec == [first |-> m + 1, body |-> body, narratives |-> tale, synopsis |-> syn]
           R == LayRecord(n + 1, rec)
<1>1. records' = Append(records, rec) /\ lines' = lines \o R /\ front' = front
  BY DEF PrintRecord
<1>2. lines \in Seq(AnyLine) /\ m \in Nat /\ records \in Seq(Recs) /\ n \in Nat
  BY DEF ParserInv, ParserTypeOK
<1>3. rec \in Recs /\ rec.first = m + 1
  BY <1>2 DEF Recs
<1> HIDE DEF rec
<1>4. /\ rec.body \in Seq(SectionsOf(AnyLine))
      /\ rec.narratives \in Seq(Seq(AnyLine)) /\ rec.synopsis \in Seq(AnyLine)
      /\ R \in Seq(AnyLine) /\ Opens(R)
  <2>1. n + 1 \in Nat
    BY <1>2
  <2> QED
    BY <1>3, <2>1, RecordLines
<1>5. /\ lines' \in Seq(AnyLine) /\ Len(lines') = m + Len(R) /\ Len(R) \in Nat
      /\ \A i \in 1 .. m : lines'[i] = lines[i]
      /\ \A i \in m + 1 .. m + Len(R) : lines'[i] = R[i - m]
  <2> HIDE DEF R, m
  <2>1. \A a, b \in Seq(AnyLine) :
          /\ a \o b \in Seq(AnyLine) /\ Len(b) \in Nat
          /\ Len(a \o b) = Len(a) + Len(b)
          /\ \A i \in 1 .. Len(a) : (a \o b)[i] = a[i]
          /\ \A i \in Len(a) + 1 .. Len(a) + Len(b) : (a \o b)[i] = b[i - Len(a)]
    BY ConcatIndex
  <2> QED
    BY <1>1, <1>2, <1>4, <2>1 DEF m
<1>6. /\ records' \in Seq(Recs) /\ Len(records') = n + 1 /\ records'[n + 1] = rec
      /\ \A k \in 1 .. n : records'[k] = records[k]
  <2> HIDE DEF n
  <2>1. \A s \in Seq(Recs), e \in Recs :
          /\ Append(s, e) \in Seq(Recs) /\ Len(Append(s, e)) = Len(s) + 1
          /\ Append(s, e)[Len(s) + 1] = e /\ \A k \in 1 .. Len(s) : Append(s, e)[k] = s[k]
    OBVIOUS
  <2> QED
    BY <1>1, <1>2, <1>3, <2>1 DEF n
<1>7. ParserTypeOK'
  BY <1>1, <1>5, <1>6 DEF ParserInv, ParserTypeOK
<1> HIDE DEF n, m, R
<1>8. ASSUME NEW k \in 1 .. n
      PROVE  /\ EndOf(k)' = EndOf(k) /\ EndOf(k) <= m /\ records[k].first \in Nat \ {0}
             /\ RecordAt(k, records[k])
  <2>1. RecordAt(k, records[k]) /\ records[k] \in Recs
    BY <1>2, <1>8 DEF ParserInv, InPlace, n
  <2>2. records[k].first \in Nat \ {0}
    BY <2>1 DEF Recs
  <2>3. EndOf(k) <= m
    BY <2>1 DEF RecordAt, m
  <2>4. CASE k = n
    <3>1. EndOf(k) = m
      BY <2>4 DEF EndOf, n, m
    <3>2. EndOf(k)' = (m + 1) - 1
      <4>1. k # Len(records') /\ records'[k + 1].first = m + 1
        BY <1>2, <1>3, <1>6, <2>4
      <4> QED
        BY <4>1 DEF EndOf
    <3> QED
      BY <1>2, <2>1, <2>2, <2>3, <3>1, <3>2
  <2>5. CASE k # n
    <3>1. k # n + 1 /\ k + 1 \in 1 .. n
      BY <1>2, <2>5
    <3>2. EndOf(k) = records[k + 1].first - 1
      BY <2>5 DEF EndOf, n
    <3>3. EndOf(k)' = records[k + 1].first - 1
      BY <1>6, <3>1 DEF EndOf
    <3> QED
      BY <2>1, <2>2, <2>3, <3>2, <3>3
  <2> QED
    BY <2>4, <2>5

<1>9. ASSUME NEW k \in 1 .. n + 1
      PROVE  RecordAt(k, records[k])'
  <2>1. CASE k = n + 1
    <3>1. records'[k] = rec /\ LayRecord(k, rec) = R
      BY <1>6, <2>1 DEF R
    <3>2. EndOf(k)' = m + Len(R)
      BY <1>5, <1>6, <2>1 DEF EndOf
    <3>3. \A i \in 1 .. Len(R) : lines'[rec.first - 1 + i] = R[i]
      <4> SUFFICES ASSUME NEW i \in 1 .. Len(R)
                   PROVE  lines'[rec.first - 1 + i] = R[i]
        OBVIOUS
      <4>1. rec.first - 1 + i = m + i /\ m + i \in m + 1 .. m + Len(R) /\ (m + i) - m = i
        BY <1>2, <1>3, <1>5
      <4> QED
        BY <1>5, <4>1
    <3>4. m + Len(R) = rec.first - 1 + Len(R) /\ m + Len(R) <= m + Len(R)
      BY <1>2, <1>3, <1>5
    <3> QED
      BY <1>5, <3>1, <3>2, <3>3, <3>4 DEF RecordAt
  <2>2. CASE k # n + 1
    <3> DEFINE r == records[k]
               L == LayRecord(k, r)
    <3>1. k \in 1 .. n /\ k \in Nat /\ records'[k] = r /\ r \in Recs
      BY <1>2, <1>6, <2>2 DEF n
    <3>2. /\ EndOf(k)' = EndOf(k) /\ EndOf(k) <= m /\ r.first \in Nat \ {0}
          /\ RecordAt(k, r)
      BY <1>8, <3>1
    <3>3. L \in Seq(AnyLine)
      BY <3>1, RecordLines
    <3> HIDE DEF r
    <3>4. EndOf(k) = r.first - 1 + Len(L) /\ \A i \in 1 .. Len(L) : lines[r.first - 1 + i] = L[i]
      BY <3>2 DEF RecordAt
    <3> HIDE DEF L
    <3>5. Len(L) \in Nat
      BY <3>3
    <3>6. \A i \in 1 .. Len(L) : lines'[r.first - 1 + i] = L[i]
      <4> SUFFICES ASSUME NEW i \in 1 .. Len(L)
                   PROVE  lines'[r.first - 1 + i] = L[i]
        OBVIOUS
      <4>1. r.first - 1 + i \in 1 .. m
        BY <1>2, <3>2, <3>4, <3>5
      <4> QED
        BY <1>5, <3>4, <4>1
    <3>7. EndOf(k)' <= Len(lines')
      BY <1>2, <1>5, <3>2, <3>4, <3>5
    <3> QED
      BY <3>1, <3>2, <3>4, <3>6, <3>7 DEF RecordAt, L
  <2> QED
    BY <2>1, <2>2
<1>10. ASSUME NEW j \in 1 .. n + 1, NEW k \in 1 .. n + 1, j < k
       PROVE  records'[j].first < records'[k].first
  <2>1. j \in 1 .. n /\ records'[j] = records[j]
    BY <1>2, <1>6, <1>10
  <2>2. CASE k = n + 1
    <3> DEFINE L == LayRecord(j, records[j])
    <3>1. EndOf(j) <= m /\ records[j].first \in Nat \ {0} /\ RecordAt(j, records[j])
      BY <1>8, <2>1
    <3>2. L \in Seq(AnyLine) /\ Opens(L)
      <4>1. records[j] \in Recs /\ j \in Nat
        BY <1>2, <2>1 DEF n
      <4> QED
        BY <4>1, RecordLines
    <3>3. EndOf(j) = records[j].first - 1 + Len(L)
      BY <3>1 DEF RecordAt
    <3>4. Len(L) \in Nat /\ Len(L) >= 3
      <4> HIDE DEF L
      <4>1. Len(L) \in Nat
        BY <3>2
      <4> QED
        BY <3>2, <4>1 DEF Opens, LookAhead
    <3> HIDE DEF L
    <3>5. records[j].first <= m
      BY <1>2, <3>1, <3>3, <3>4
    <3> QED
      BY <1>2, <1>3, <1>6, <2>1, <2>2, <3>1, <3>5
  <2>3. CASE k # n + 1
    <3>1. k \in 1 .. n /\ records'[k] = records[k]
      BY <1>2, <1>6, <2>3
    <3> QED
      BY <1>10, <2>1, <3>1 DEF ParserInv, InPlace, n
  <2> QED
    BY <2>2, <2>3
<1>11. InPlace'
  BY <1>6, <1>9, <1>10 DEF InPlace
<1>12. ASSUME NoFalseStart'
       PROVE  /\ RecordStarts(lines') = {records'[k].first : k \in 1 .. Len(records')}
              /\ EndsPlain(lines')
  <2>1. /\ NoFalseStart /\ EndsPlain(rec.synopsis)
        /\ Untimed(rec.synopsis) /\ \A p \in ToSet(rec.narratives) : Untimed(p)
    BY <1>1, <1>3, <1>12, RecordFalseStart DEF ParserInv
  <2>2. rec.narratives \in Seq(Seq(UntimedOf(AnyLine))) /\ rec.synopsis \in Seq(UntimedOf(AnyLine))
    BY <1>4, <2>1, UntimedWithin
  <2>3. (\E c \in 2 .. Len(R) : Quiet(R, c)) /\ EndsPlain(R)
    <3>1. n + 1 \in Nat
      BY <1>2
    <3> QED
      BY <1>4, <2>1, <2>2, <3>1, AnyLineVocabulary, RecordQuiet DEF R
  <2>4. RecordStarts(lines) = {records[k].first : k \in 1 .. n} /\ EndsPlain(lines)
    BY <2>1 DEF ParserInv, StartsFound, n
  <2>5. RecordStarts(lines \o R) = RecordStarts(lines) \cup {m + 1}
    <3>1. PICK c \in 2 .. Len(R) : Quiet(R, c)
      BY <2>3
    <3> QED
      BY <1>2, <1>4, <2>4, <3>1, OneStart DEF m
  <2>6. {records'[k].first : k \in 1 .. n + 1} = {records[k].first : k \in 1 .. n} \cup {m + 1}
    <3>1. 1 .. n + 1 = (1 .. n) \cup {n + 1}
      BY <1>2
    <3> QED
      BY <1>3, <1>6, <3>1
  <2>7. EndsPlain(lines')
    <3>1. Len(R) >= 3
      BY <1>4 DEF Opens, LookAhead
    <3>2. R # <<>>
      BY <3>1
    <3>3. R[Len(R)].kind # "acn"
      BY <2>3, <3>2 DEF EndsPlain, Last
    <3>4. lines'[m + Len(R)] = R[Len(R)]
      <4>1. m + Len(R) \in m + 1 .. m + Len(R) /\ (m + Len(R)) - m = Len(R)
        BY <1>2, <1>5, <3>1
      <4> QED
        BY <1>5, <4>1
    <3> QED
      BY <1>5, <3>3, <3>4 DEF EndsPlain, Last
  <2> QED
    BY <1>1, <1>6, <2>4, <2>5, <2>6, <2>7
<1>13. StartsFound'
  BY <1>12 DEF StartsFound
<1> QED
  BY <1>7, <1>11, <1>13 DEF ParserInv

(* Hence every step keeps it.                                              *)
LEMMA ParserStepInv == ParserInv /\ [ParserNext]_parserVars => ParserInv'
<1> SUFFICES ASSUME ParserInv, [ParserNext]_parserVars
             PROVE  ParserInv'
  OBVIOUS
<1>1. CASE \E synopsis \in Proses : PrintFront(synopsis)
  BY <1>1, PrintFrontInv
<1>2. CASE \E body \in Bodies, narratives \in Tales, synopsis \in Proses :
             PrintRecord(body, narratives, synopsis)
  BY <1>2, PrintRecordInv
<1>3. CASE UNCHANGED parserVars
  <2>1. lines' = lines /\ front' = front /\ records' = records
    BY <1>3 DEF parserVars
  <2>2. ParserTypeOK'
    BY <2>1 DEF ParserInv, ParserTypeOK
  <2>3. InPlace'
    BY <2>1 DEF ParserInv, InPlace, RecordAt, EndOf
  <2>4. StartsFound'
    BY <2>1 DEF ParserInv, StartsFound, NoFalseStart
  <2> QED
    BY <2>2, <2>3, <2>4 DEF ParserInv
<1> QED
  BY <1>1, <1>2, <1>3 DEF ParserNext

(* The lines that parse_pdf gives to _parse_one_record for a start are     *)
(* those of the record that was printed there.                             *)
LEMMA RecordCut ==
  ASSUME ParserInv, NoFalseStart, NEW k \in 1 .. Len(records)
  PROVE  /\ records[k].first \in RecordStarts(lines)
         /\ SubSeq(lines, records[k].first, LastLine(lines, records[k].first))
              = LayRecord(k, records[k])
<1> DEFINE n == Len(records)
           m == Len(lines)
           rec == records[k]
           i == rec.first
           e == EndOf(k)
           R == LayRecord(k, rec)
           starts == RecordStarts(lines)
<1>1. /\ lines \in Seq(AnyLine) /\ m \in Nat /\ records \in Seq(Recs) /\ n \in Nat
      /\ starts = {records[j].first : j \in 1 .. n}
  BY DEF ParserInv, ParserTypeOK, StartsFound
<1>2. \A j \in 1 .. n : records[j].first \in Nat \ {0}
  <2>1. \A j \in 1 .. n : records[j] \in Recs
    BY <1>1
  <2>2. \A r \in Recs : r.first \in Nat \ {0}
    BY DEF Recs
  <2> QED
    BY <2>1, <2>2
<1>3. k \in 1 .. n /\ k \in Nat /\ rec \in Recs
  BY <1>1
<1>4. R \in Seq(AnyLine) /\ Len(R) \in Nat /\ Len(R) >= 3
  <2>1. R \in Seq(AnyLine) /\ Opens(R)
    BY <1>3, RecordLines
  <2> HIDE DEF R
  <2>2. Len(R) \in Nat
    BY <2>1
  <2> QED
    BY <2>1, <2>2 DEF Opens, LookAhead
<1>5. /\ RecordAt(k, rec)
      /\ \A j, l \in 1 .. n : j < l => records[j].first < records[l].first
  BY DEF ParserInv, InPlace
<1>6. /\ e <= m /\ e = i - 1 + Len(R)
      /\ \A l \in 1 .. Len(R) : lines[i - 1 + l] = R[l]
  BY <1>5 DEF RecordAt
<1>7. i \in Nat \ {0} /\ e \in i .. m
  <2>1. i \in Nat \ {0}
    BY <1>2
  <2> HIDE DEF i, e, R
  <2> QED
    BY <1>1, <1>4, <1>6, <2>1
<1>8. e = IF k = n THEN m ELSE records[k + 1].first - 1
  BY DEF EndOf
<1> HIDE DEF n, m, e, R, starts
<1>9. /\ e = m \/ e + 1 \in starts
      /\ \A j \in starts : j <= i \/ e < j
  <2>1. e = m \/ e + 1 \in starts
    <3>1. CASE k = n
      BY <1>8, <3>1
    <3>2. CASE k # n
      <4>1. k + 1 \in 1 .. n
        BY <1>1, <1>3, <3>2
      <4>2. e + 1 = records[k + 1].first
        BY <1>2, <1>8, <3>2, <4>1
      <4> QED
        BY <1>1, <4>1, <4>2
    <3> QED
      BY <3>1, <3>2
  <2>2. ASSUME NEW l \in 1 .. n
        PROVE  records[l].first <= i \/ e < records[l].first
    <3>1. CASE l <= k
      BY <1>1, <1>2, <1>3, <1>5, <3>1
    <3>2. CASE l > k
      <4>1. k # n /\ k + 1 \in 1 .. n /\ (l = k + 1 \/ k + 1 < l)
        BY <1>1, <1>3, <3>2
      <4>2. records[k + 1].first <= records[l].first
        BY <1>2, <1>5, <4>1
      <4> QED
        BY <1>2, <1>8, <4>1, <4>2
    <3> QED
      BY <1>1, <1>3, <3>1, <3>2
  <2> QED
    BY <1>1, <2>1, <2>2
<1>10. ASSUME NEW x \in i .. m, x = m \/ x + 1 \in starts, \A j \in starts : j <= i \/ x < j
       PROVE  x = e
  <2>1. CASE x < e
    <3>1. x + 1 \in starts
      BY <1>1, <1>7, <1>10, <2>1
    <3>2. x + 1 <= i \/ e < x + 1
      BY <1>9, <3>1
    <3> QED
      BY <1>1, <1>7, <2>1, <3>2
  <2>2. CASE e < x
    <3>1. e + 1 \in starts
      BY <1>1, <1>7, <1>9, <2>2
    <3>2. e + 1 <= i \/ x < e + 1
      BY <1>10, <3>1
    <3> QED
      BY <1>1, <1>7, <2>2, <3>2
  <2> QED
    BY <1>1, <1>7, <2>1, <2>2
<1>11. LastLine(lines, i) = e
  <2>1. LastLine(lines, i) = CHOOSE x \in i .. m : /\ x = m \/ x + 1 \in starts
                                                   /\ \A j \in starts : j <= i \/ x < j
    BY DEF LastLine, starts, m
  <2> HIDE DEF i
  <2> QED
    BY <1>7, <1>9, <1>10, <2>1
<1>12. SubSeq(lines, i, e) = R
  <2> DEFINE s == SubSeq(lines, i, e)
  <2>0. \A l \in i .. e : lines[l] \in AnyLine
    BY <1>1, <1>7 DEF m
  <2>1. /\ s \in Seq(AnyLine) /\ Len(s) = IF i <= e THEN e - i + 1 ELSE 0
        /\ \A l \in 1 .. e - i + 1 : s[l] = lines[i + l - 1]
    <3> HIDE DEF i
    <3>1. i \in Int /\ e \in Int
      BY <1>1, <1>7
    <3> QED
      BY <2>0, <3>1, SubSeqProperties
  <2> HIDE DEF s, i
  <2>2. Len(s) = Len(R) /\ e - i + 1 = Len(R)
    BY <1>1, <1>4, <1>6, <1>7, <2>1
  <2>3. \A l \in 1 .. Len(s) : s[l] = R[l]
    <3> SUFFICES ASSUME NEW l \in 1 .. Len(s)
                 PROVE  s[l] = R[l]
      OBVIOUS
    <3>1. l \in 1 .. Len(R) /\ i + l - 1 = i - 1 + l
      BY <1>4, <1>7, <2>2
    <3> QED
      BY <1>6, <2>1, <2>2, <3>1
  <2> QED
    BY <1>4, <2>1, <2>2, <2>3, SeqEqual DEF s
<1>13. i \in starts
  BY <1>1, <1>3
<1> QED
  BY <1>11, <1>12, <1>13 DEF R, starts

(* The invariant says what the parser must return.                         *)
LEMMA ParserInvExtracted == ParserInv => ExtractedAsPrinted
<1> SUFFICES ASSUME ParserInv, NoFalseStart
             PROVE  LET parsed == ParsedRecords(lines)
                    IN  /\ DOMAIN parsed = {records[k].first : k \in DOMAIN records}
                        /\ \A k \in DOMAIN records :
                             LET got == parsed[records[k].first]
                             IN  got.acn = k /\ (PlainRecord(records[k]) => got = Printed(k, records[k]))
  BY DEF ExtractedAsPrinted
<1> DEFINE parsed == ParsedRecords(lines)
<1>1. records \in Seq(Recs) /\ DOMAIN records = 1 .. Len(records)
  BY DEF ParserInv, ParserTypeOK
<1>2. DOMAIN parsed = {records[k].first : k \in DOMAIN records}
  <2>1. RecordStarts(lines) = {records[k].first : k \in 1 .. Len(records)}
    BY DEF ParserInv, StartsFound
  <2> QED
    BY <1>1, <2>1 DEF ParsedRecords
<1>3. ASSUME NEW k \in DOMAIN records
      PROVE  LET got == parsed[records[k].first]
             IN  got.acn = k /\ (PlainRecord(records[k]) => got = Printed(k, records[k]))
  <2> DEFINE rec == records[k]
             R == LayRecord(k, rec)
             got == parsed[rec.first]
  <2>1. k \in 1 .. Len(records) /\ k \in Nat /\ rec \in Recs
    BY <1>1, <1>3
  <2>2. got = ParseOneRecord(R)
    <3>1. /\ rec.first \in RecordStarts(lines)
          /\ SubSeq(lines, rec.first, LastLine(lines, rec.first)) = R
      BY <2>1, RecordCut
    <3> QED
      BY <3>1 DEF ParsedRecords
  <2>3. /\ rec.body \in Seq(SectionsOf(AnyLine))
        /\ rec.narratives \in Seq(Seq(AnyLine)) /\ rec.synopsis \in Seq(AnyLine)
        /\ R[1].key = k
    BY <2>1, RecordLines
  <2>4. got.acn = k
    <3> HIDE DEF R
    <3>1. ParseOneRecord(R).acn = R[1].key
      BY DEF ParseOneRecord
    <3> QED
      BY <2>2, <2>3, <3>1
  <2>5. ASSUME PlainRecord(rec)
        PROVE  got = Printed(k, rec)
    <3>1. Plain(rec.synopsis) /\ \A p \in ToSet(rec.narratives) : Plain(p)
      BY <2>5 DEF PlainRecord
    <3>2. rec.narratives \in Seq(Seq(PlainOf(AnyLine))) /\ rec.synopsis \in Seq(PlainOf(AnyLine))
      BY <2>3, <3>1, PlainWithinProse
    <3> QED
      BY <2>1, <2>2, <2>3, <3>2, AnyLineVocabulary, ParseRecord
  <2> QED
    BY <2>4, <2>5
<1> QED
  BY <1>2, <1>3

(* Whatever the prose, the sections and the bounds are, the parser gets    *)
(* out of every report set what was printed in it.                         *)
THEOREM RecordsExtracted == ParserSpec => []ExtractedAsPrinted
<1>1. ParserInit => ParserInv
  BY ParserInitInv
<1>2. ParserInv /\ [ParserNext]_parserVars => ParserInv'
  BY ParserStepInv
<1>3. ParserInv => ExtractedAsPrinted
  BY ParserInvExtracted
<1> QED
  BY <1>1, <1>2, <1>3, PTL DEF ParserSpec
=============================================================================
