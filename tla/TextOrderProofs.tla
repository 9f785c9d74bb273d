-------------------------- MODULE TextOrderProofs --------------------------
(***************************************************************************)
(* KeepsOrder of TextService, for any fields, host faults, answers of the  *)
(* engine and number of operations.                                        *)
(*                                                                         *)
(* A result is retained across refusals and written in stages, so the      *)
(* order of a field is that of four places: its text, the commit that is   *)
(* not written yet, the view, and the engine.  The invariant Orderly says  *)
(* of every field (Line) that its own tokens rise, that none of them is    *)
(* beyond the place where the next write lands (Frontier: behind the       *)
(* composition, behind a commit whose caret was refused, or the caret),    *)
(* and that all of them outside of a composition that may still be         *)
(* replaced are older than what is still to be written (Ahead).  A write   *)
(* therefore replaces or extends the end of a rising text by newer tokens. *)
(* What the host types, or writes around, is in passed and does not count. *)
(* FrontFits and CallsInv are about the queue: what is in the text is      *)
(* older than the front operation, or its own if it was taken before.      *)
(***************************************************************************)
EXTENDS TextServiceProofs

(* A sequence rises where it is not in P. *)
Rises(s, P) ==
  \A i, j \in DOMAIN s : i < j /\ s[i] \notin P /\ s[j] \notin P => s[i] < s[j]

(* The line of a field: beyond the frontier f there are only tokens of P,   *)
(* and what is not between lo and hi is older than the tokens ahead.        *)
Line(s, P, f, lo, hi, ahead) ==
  /\ Rises(s, P)
  /\ \A i \in DOMAIN s : i > f => s[i] \in P
  /\ \A i \in DOMAIN s : ~(lo < i /\ i <= hi) /\ s[i] \notin P =>
       \A x \in ahead : s[i] < x

(* The frontier may be further on, and less may be ahead.                   *)
LEMMA LineLoosened ==
  ASSUME NEW s, NEW P, NEW f \in Nat, NEW lo, NEW hi, NEW ahead, Line(s, P, f, lo, hi, ahead),
         NEW g \in Nat, f <= g, NEW later, later \subseteq ahead, NEW N, s \in Seq(N)
  PROVE  Line(s, P, g, lo, hi, later)
<1>1. \A i \in DOMAIN s : i > g => i > f
  OBVIOUS
<1> QED
  BY <1>1 DEF Line

(* With nothing ahead it does not matter what is between. *)
LEMMA LineOpened ==
  ASSUME NEW s, NEW P, NEW f, NEW lo, NEW hi, NEW ahead, Line(s, P, f, lo, hi, ahead),
         NEW low, NEW high
  PROVE  Line(s, P, f, low, high, {})
  BY DEF Line

(* While nothing may be replaced, it does not matter what the range is      *)
(* called.                                                                  *)
LEMMA LineWidened ==
  ASSUME NEW s, NEW P, NEW f, NEW lo \in Nat, NEW hi \in Nat, hi <= lo, NEW ahead,
         Line(s, P, f, lo, hi, ahead), NEW N, s \in Seq(N), NEW low, NEW high
  PROVE  Line(s, P, f, low, high, ahead)
<1>1. \A i \in DOMAIN s : ~(lo < i /\ i <= hi)
  OBVIOUS
<1> QED
  BY <1>1 DEF Line

(* A range replaced behind which the frontier does not lie: what is new     *)
(* rises and is among what was ahead.                                       *)
LEMMA LineReplaced ==
  ASSUME NEW N, NEW s \in Seq(N), NEW from \in Nat, NEW len \in Nat, NEW new \in Seq(N),
         from + len <= Len(s), NEW P, NEW f \in Nat, f <= from + len,
         NEW lo \in Nat, NEW hi, from <= lo \/ hi <= lo, hi \in Nat, NEW ahead,
         Line(s, P, f, lo, hi, ahead), Rises(new, {}), Range(new) \subseteq ahead
  PROVE  Line(Replaced(s, from, len, new), P, from + Len(new), from, from + Len(new), ahead)
<1>1. PICK r : r = Replaced(s, from, len, new)
  OBVIOUS
<1>2. Spliced(r, s, N, from, len, new)
  BY <1>1, PlacesOfReplaced
<1>3. PICK k : k = Len(new)
  OBVIOUS
<1>4. /\ r \in Seq(N) /\ Len(r) = Len(s) - len + k /\ k \in Nat /\ Len(s) \in Nat
      /\ \A i \in 1 .. from : r[i] = s[i]
      /\ \A i \in 1 .. k : r[from + i] = new[i]
      /\ \A i \in from + len + 1 .. Len(s) : r[i - len + k] = s[i]
      /\ DOMAIN r = 1 .. Len(r) /\ DOMAIN s = 1 .. Len(s) /\ DOMAIN new = 1 .. k
  BY <1>2, <1>3 DEF Spliced
<1>5. \A i \in 1 .. from : i \in DOMAIN s /\ ~(lo < i /\ i <= hi)
  BY <1>4
<1>6. \A i \in 1 .. from : r[i] \notin P => \A x \in ahead : r[i] < x
  BY <1>4, <1>5 DEF Line
<1>7. ASSUME NEW i \in DOMAIN r, i > from + k
      PROVE  r[i] \in P
  <2>1. PICK j : j = i - k + len
    OBVIOUS
  <2>4. i \in Nat /\ i <= Len(s) - len + k /\ k \in Nat /\ Len(s) \in Nat
    BY <1>4
  <2>5. j \in Nat /\ from + len + 1 <= j /\ j <= Len(s) /\ j - len + k = i /\ j > f
    BY <1>7, <2>1, <2>4
  <2>2. j \in from + len + 1 .. Len(s) /\ j - len + k = i /\ j \in DOMAIN s /\ j > f
    BY <1>4, <2>4, <2>5
  <2>3. r[i] = s[j]
    BY <1>4, <2>2
  <2> QED
    BY <2>2, <2>3 DEF Line
<1>8. ASSUME NEW i \in DOMAIN r, from < i, i <= from + k
      PROVE  r[i] = new[i - from] /\ i - from \in DOMAIN new
  <2>1. i - from \in 1 .. k /\ from + (i - from) = i
    BY <1>4, <1>8
  <2> QED
    BY <1>4, <2>1
<1>9. \A i \in DOMAIN new : new[i] \in ahead
  BY DEF Range
<1>10. ASSUME NEW i \in DOMAIN r, NEW j \in DOMAIN r, i < j, r[i] \notin P, r[j] \notin P
       PROVE  r[i] < r[j]
  <2>1. i \in Nat /\ j \in Nat /\ i >= 1 /\ j <= from + k
    BY <1>4, <1>7, <1>10
  <2>2. CASE j <= from
    <3>1. i \in DOMAIN s /\ j \in DOMAIN s /\ s[i] = r[i] /\ s[j] = r[j]
      BY <1>4, <1>5, <1>10, <2>1, <2>2
    <3> QED
      BY <1>10, <3>1 DEF Line, Rises
  <2>3. CASE i <= from /\ from < j
    <3>1. r[j] \in ahead
      BY <1>8, <1>9, <2>1, <2>3
    <3>2. i \in 1 .. from
      BY <2>1, <2>3
    <3> QED
      BY <1>6, <1>10, <3>1, <3>2
  <2>4. CASE from < i
    <3>0. from < j /\ i <= from + k /\ i - from < j - from
      BY <1>4, <1>10, <2>1, <2>4
    <3>1. /\ r[i] = new[i - from] /\ i - from \in DOMAIN new
      BY <1>8, <2>4, <3>0
    <3>2. /\ r[j] = new[j - from] /\ j - from \in DOMAIN new
      BY <1>8, <2>1, <3>0
    <3>3. i - from < j - from
      BY <3>0
    <3> QED
      BY <3>1, <3>2, <3>3 DEF Rises
  <2> QED
    BY <2>1, <2>2, <2>3, <2>4
<1>11. ASSUME NEW i \in DOMAIN r, ~(from < i /\ i <= from + k), r[i] \notin P, NEW x \in ahead
       PROVE  r[i] < x
  <2>1. i \in 1 .. from
    BY <1>4, <1>7, <1>11
  <2> QED
    BY <1>6, <1>11, <2>1
<1>12. Line(r, P, from + k, from, from + k, ahead)
  <2>1. Rises(r, P)
    BY <1>10 DEF Rises
  <2> QED
    BY <1>7, <1>11, <2>1 DEF Line
<1> QED
  BY <1>1, <1>3, <1>12

(* What was between is older than what is still ahead.                      *)
LEMMA LineClosed ==
  ASSUME NEW N, NEW s \in Seq(N), NEW P, NEW f, NEW lo \in Nat, NEW hi \in Nat, NEW ahead,
         Line(s, P, f, lo, hi, ahead), NEW later, later \subseteq ahead,
         \A i \in DOMAIN s : lo < i /\ i <= hi => \A x \in later : s[i] < x,
         NEW low, NEW high
  PROVE  Line(s, P, f, low, high, later)
  BY DEF Line
-----------------------------------------------------------------------------
(* The tokens that are still to come into a field. *)
Ahead(t) ==
  Range(t.engine) \cup (IF Retaining(t) /\ t.retained.written = FALSE
                        THEN Range(t.retained.commit) ELSE {})

(* The composition holds a commit and is to end; a caret is to be set.      *)
EndDue(t) == Retaining(t) /\ t.retained.needsEnd = TRUE /\ t.retained.written = TRUE
CaretDue(t, c) == Unwritten(t) /\ t.retained.written = TRUE /\ t.retained.context = c

Frontier(t, c) ==
  IF Composing(t, c) THEN t.comp.from + t.comp.len
  ELSE IF CaretDue(t, c) THEN t.retained.at ELSE t.caret[c]

(* The composition of the field may still be replaced. *)
Open(t, c) == Composing(t, c) /\ ~EndDue(t)
Low(t, c) == IF Open(t, c) THEN t.comp.from ELSE 0
High(t, c) == IF Open(t, c) THEN t.comp.from + t.comp.len ELSE 0

LineOf(t, c, P) == Line(t.doc[c], P, Frontier(t, c), Low(t, c), High(t, c), Ahead(t))
Lines(t, P) == \A c \in Contexts : LineOf(t, c, P)
ResultRises(t) ==
  /\ Rises(t.engine, {})
  /\ Retaining(t) =>
       /\ t.retained.view = t.engine /\ Rises(t.retained.commit, {})
       /\ \A x \in Range(t.retained.commit), y \in Range(t.engine) : x < y
CaretFollows(t, c) ==
  /\ t.comp.from <= t.caret[c]
  /\ t.caret[c] < t.comp.from + t.comp.len =>
       Retaining(t) /\ t.retained.context = c /\ ~(EndDue(t) /\ t.retained.caretSet = TRUE)
CaretsFollow(t) == \A c \in Contexts : Composing(t, c) => CaretFollows(t, c)
EndsInPlace(t) ==
  /\ EndDue(t) => /\ Composing(t, t.retained.context)
                  /\ t.retained.commit # <<>> /\ t.comp.len # 0
                  /\ t.retained.at = t.comp.from + t.comp.len
  /\ /\ Retaining(t) /\ t.retained.view = <<>> /\ t.retained.commit # <<>>
     /\ t.retained.written = TRUE /\ t.retained.needsEnd = FALSE
     => ~Composing(t, t.retained.context)
  /\ Retaining(t) /\ t.retained.caretSet = TRUE => t.retained.written = TRUE
Orderly(t, P) == Lines(t, P) /\ ResultRises(t) /\ CaretsFollow(t) /\ EndsInPlace(t)
Ordered(r, N, P) == Sound(r, N) /\ Orderly(r.text, P)

(* The places of the invariant are places.                                  *)
LEMMA LineNumbers ==
  ASSUME NEW N, NEW t \in TextType(N), NEW c \in Contexts
  PROVE  Frontier(t, c) \in Nat /\ Low(t, c) \in Nat /\ High(t, c) \in Nat /\ t.doc[c] \in Seq(N)
<1>1. /\ t.comp.from \in Nat /\ t.comp.len \in Nat /\ t.retained.at \in Nat /\ t.caret[c] \in Nat
      /\ t.doc[c] \in Seq(N)
  BY TextFields DEF Carets, Docs
<1> QED
  BY <1>1 DEF Frontier, Low, High

(* A field that a step leaves alone. *)
LEMMA LineKept ==
  ASSUME NEW N, NEW t \in TextType(N), NEW u \in TextType(N), NEW c \in Contexts, NEW P,
         LineOf(t, c, P), u.doc[c] = t.doc[c], Frontier(t, c) <= Frontier(u, c),
         Low(u, c) = Low(t, c), High(u, c) = High(t, c), Ahead(u) \subseteq Ahead(t)
  PROVE  LineOf(u, c, P)
<1>1. /\ Frontier(t, c) \in Nat /\ Frontier(u, c) \in Nat /\ t.doc[c] \in Seq(N)
  BY LineNumbers
<1>2. Line(t.doc[c], P, Frontier(u, c), Low(t, c), High(t, c), Ahead(u))
  BY <1>1, LineLoosened DEF LineOf
<1> QED
  BY <1>2 DEF LineOf

(* The same with the composition and what the line depends on unchanged.    *)
LEMMA LineSame ==
  ASSUME NEW N, NEW t \in TextType(N), NEW u \in TextType(N), NEW c \in Contexts, NEW P,
         LineOf(t, c, P), u.doc[c] = t.doc[c], u.caret[c] = t.caret[c],
         Composing(u, c) <=> Composing(t, c), ~Composing(t, c),
         CaretDue(u, c) <=> CaretDue(t, c), CaretDue(t, c) => u.retained.at = t.retained.at,
         Ahead(u) \subseteq Ahead(t)
  PROVE  LineOf(u, c, P)
<1>1. Frontier(u, c) = Frontier(t, c) /\ Low(u, c) = Low(t, c) /\ High(u, c) = High(t, c)
  BY DEF Frontier, Low, High, Open
<1>2. Frontier(t, c) <= Frontier(u, c)
  BY <1>1, LineNumbers
<1> QED
  BY <1>1, <1>2, LineKept

(* ensureComposition *)
LEMMA StartedOrder ==
  ASSUME NEW N, NEW t, Fits(t, N), NEW P, Orderly(t, P), NEW c \in Contexts,
         t.comp.context = NoContext, ~Unwritten(t),
         ~Retaining(t) \/ t.retained.view # <<>>,
         NEW u, u \in TextType(N), u.doc = t.doc, u.caret = t.caret, u.engine = t.engine,
         u.retained = t.retained, u.comp.context = c, u.comp.from = t.caret[c], u.comp.len = 0
  PROVE  Orderly(u, P)
<1>1. t \in TextType(N)
  BY DEF Fits
<1>2. t.caret[c] \in Nat /\ c # NoContext
  BY <1>1, TextFields, NoContextAssumption DEF Carets
<1>3. ~EndDue(t)
  BY DEF Orderly, EndsInPlace, Composing, EndDue, Retaining
<1>4. ~EndDue(u) /\ Ahead(u) = Ahead(t) /\ ~Unwritten(u)
  BY <1>3 DEF EndDue, Ahead, Retaining, Unwritten
<1>5. LineOf(u, c, P)
  <2>1. Frontier(t, c) = t.caret[c] /\ Low(t, c) = 0 /\ High(t, c) = 0
    BY <1>2 DEF Frontier, Low, High, Open, Composing, CaretDue
  <2>2. Frontier(u, c) = t.caret[c]
    BY <1>2 DEF Frontier, Composing
  <2>3. PICK s : s = t.doc[c]
    OBVIOUS
  <2>4. s \in Seq(N) /\ Line(s, P, t.caret[c], 0, 0, Ahead(t))
    BY <1>1, <2>1, <2>3, LineNumbers DEF Orderly, Lines, LineOf
  <2>5. Line(s, P, t.caret[c], Low(u, c), High(u, c), Ahead(t))
    BY <2>4, LineWidened
  <2> QED
    BY <1>4, <2>2, <2>3, <2>5 DEF LineOf
<1>6. ASSUME NEW d \in Contexts \ {c}
      PROVE  LineOf(u, d, P)
  <2>1. ~Composing(u, d) /\ ~Composing(t, d)
    BY <1>6, NoContextAssumption DEF Composing
  <2>2. ~CaretDue(u, d) /\ ~CaretDue(t, d)
    BY <1>4 DEF CaretDue
  <2>3. LineOf(t, d, P) /\ u.doc[d] = t.doc[d] /\ u.caret[d] = t.caret[d]
    BY DEF Orderly, Lines
  <2> QED
    BY <1>1, <1>4, <2>1, <2>2, <2>3, LineSame
<1>7. Lines(u, P)
  BY <1>5, <1>6 DEF Lines
<1>8. ResultRises(u)
  BY DEF Orderly, ResultRises, Retaining
<1>9. CaretsFollow(u)
  BY <1>2 DEF CaretsFollow, CaretFollows, Composing
<1>10. EndsInPlace(u)
  BY <1>4 DEF Orderly, EndsInPlace, Retaining
<1> QED
  BY <1>7, <1>8, <1>9, <1>10 DEF Orderly

(* replaceCompositionText: what is shown was still to come. *)
LEMMA ShownCaret ==
  ASSUME NEW N, NEW t \in TextType(N), NEW c \in Contexts, NEW new \in Seq(N)
  PROVE  Shown(t, c, new).caret[c] = CaretAfter(t.caret[c], t.comp.from, t.comp.len, new)
<1>1. PICK m : m = Moved(t.caret, c, t.comp.from, t.comp.len, new)
  OBVIOUS
<1>2. PICK u : u = Shown(t, c, new)
  OBVIOUS
<1>3. u.caret = m
  BY <1>1, <1>2, ShownIs, FieldsOf
<1>4. PICK k : k = CaretAfter(t.caret[c], t.comp.from, t.comp.len, new)
  OBVIOUS
<1>5. m = [t.caret EXCEPT ![c] = k]
  BY <1>1, <1>4 DEF Moved
<1>6. m[c] = k
  BY <1>5, TextFields DEF Carets
<1> QED
  BY <1>2, <1>3, <1>4, <1>6

(* The composition shows what of the tokens ahead belongs to it.            *)
LEMMA ShownOrder ==
  ASSUME NEW N, NEW t, Fits(t, N), NEW P, Orderly(t, P), NEW c \in Contexts,
         Composing(t, c), ~EndDue(t), Retaining(t), t.retained.context = c,
         NEW new \in Seq(N), Rises(new, {}), Range(new) \subseteq Ahead(t)
  PROVE  Orderly(Shown(t, c, new), P)
<1>1. PICK u : u = Shown(t, c, new)
  OBVIOUS
<1>2. t \in TextType(N) /\ t.comp.context = c /\ c # NoContext
  BY NoContextAssumption DEF Fits, Composing
<1>3. t.comp.from + t.comp.len <= Len(t.doc[c]) /\ t.caret[c] <= Len(t.doc[c])
  BY <1>2 DEF Fits, PlacedComposition, PlacedCarets
<1>4. ShownAs(u, t, N, c, new)
  BY <1>1, <1>2, <1>3, ShownFields
<1>5. PICK from : from = t.comp.from
  OBVIOUS
<1>6. PICK len : len = t.comp.len
  OBVIOUS
<1>7. /\ from \in Nat /\ len \in Nat /\ t.doc[c] \in Seq(N) /\ t.caret[c] \in Nat
      /\ Len(new) \in Nat
  BY <1>2, <1>5, <1>6, TextFields DEF Docs, Carets
<1>8. /\ u \in TextType(N) /\ u.comp.context = c /\ u.comp.from = from /\ u.comp.len = Len(new)
      /\ u.engine = t.engine /\ u.retained = t.retained
      /\ u.doc[c] = Replaced(t.doc[c], from, len, new)
      /\ \A d \in Contexts \ {c} : u.doc[d] = t.doc[d] /\ u.caret[d] = t.caret[d]
  BY <1>2, <1>4, <1>5, <1>6 DEF ShownAs
<1>9. ~EndDue(u) /\ Ahead(u) = Ahead(t)
  BY <1>8 DEF EndDue, Ahead, Retaining
<1>10. LineOf(u, c, P)
  <2>1. Line(t.doc[c], P, from + len, from, from + len, Ahead(t))
    BY <1>5, <1>6 DEF Orderly, Lines, LineOf, Frontier, Low, High, Open
  <2>2. PICK s : s = t.doc[c]
    OBVIOUS
  <2>3. PICK f : f = from + len
    OBVIOUS
  <2>4. f \in Nat /\ f <= from + len /\ s \in Seq(N) /\ from + len <= Len(s) /\ from <= from
        /\ Line(s, P, f, from, f, Ahead(t))
    BY <1>3, <1>5, <1>6, <1>7, <2>1, <2>2, <2>3
  <2>5. Line(Replaced(s, from, len, new), P, from + Len(new), from, from + Len(new), Ahead(t))
    BY <1>7, <2>4, LineReplaced
  <2>6. /\ Frontier(u, c) = from + Len(new) /\ Low(u, c) = from /\ High(u, c) = from + Len(new)
    BY <1>8, <1>9 DEF Frontier, Low, High, Open, Composing
  <2> QED
    BY <1>8, <1>9, <2>2, <2>5, <2>6 DEF LineOf
<1>11. ASSUME NEW d \in Contexts \ {c}
       PROVE  LineOf(u, d, P)
  <2>1. ~Composing(u, d) /\ ~Composing(t, d)
    BY <1>2, <1>8 DEF Composing
  <2>2. CaretDue(u, d) <=> CaretDue(t, d)
    BY <1>8 DEF CaretDue, Unwritten, Retaining
  <2>3. LineOf(t, d, P) /\ u.doc[d] = t.doc[d] /\ u.caret[d] = t.caret[d]
    BY <1>8 DEF Orderly, Lines
  <2> QED
    BY <1>2, <1>8, <1>9, <2>1, <2>2, <2>3, LineSame
<1>12. Lines(u, P)
  BY <1>10, <1>11 DEF Lines
<1>13. ResultRises(u)
  BY <1>8 DEF Orderly, ResultRises, Retaining
<1>14. CaretsFollow(u)
  <2>1. from <= t.caret[c]
    BY <1>5 DEF Orderly, CaretsFollow, CaretFollows
  <2>2. u.caret[c] = CaretAfter(t.caret[c], from, len, new)
    BY <1>1, <1>2, <1>5, <1>6, ShownCaret
  <2>3. from <= u.caret[c]
    BY <1>7, <2>1, <2>2 DEF CaretAfter
  <2>4. CaretFollows(u, c)
    BY <1>8, <1>9, <2>3 DEF CaretFollows, Retaining
  <2> QED
    BY <1>8, <2>4 DEF CaretsFollow, Composing
<1>15. EndsInPlace(u)
  <2>1. Composing(u, c) <=> Composing(t, c)
    BY <1>2, <1>8 DEF Composing
  <2> QED
    BY <1>8, <1>9, <2>1 DEF Orderly, EndsInPlace, Retaining
<1> QED
  BY <1>1, <1>12, <1>13, <1>14, <1>15 DEF Orderly

(* The composition over: the caret is behind it, and what it showed is      *)
(* older than what is still to come.                                        *)
LEMMA EndedOrder ==
  ASSUME NEW N, NEW t, Fits(t, N), NEW P, Orderly(t, P), NEW c \in Contexts, NEW u,
         Composing(t, c), EndDue(t) \/ Ahead(u) = {}, ~Unwritten(t),
         t.comp.from + t.comp.len <= t.caret[c],
         u \in TextType(N), u.doc = t.doc, u.caret = t.caret, Ahead(u) \subseteq Ahead(t),
         u.comp.context = NoContext, ~EndDue(u), ~Unwritten(u), ResultRises(u),
         Retaining(u) /\ u.retained.caretSet = TRUE => u.retained.written = TRUE
  PROVE  Orderly(u, P)
<1>1. t \in TextType(N) /\ t.comp.context = c /\ c # NoContext
  BY NoContextAssumption DEF Fits, Composing
<1>2. t.comp.from \in Nat /\ t.comp.len \in Nat /\ t.caret[c] \in Nat
  BY <1>1, TextFields DEF Carets
<1>3. LineOf(u, c, P)
  <2>1. Line(t.doc[c], P, t.comp.from + t.comp.len, Low(t, c), High(t, c), Ahead(t))
    BY DEF Orderly, Lines, LineOf, Frontier
  <2>2. PICK f : f = t.comp.from + t.comp.len
    OBVIOUS
  <2>3. f \in Nat /\ f <= t.caret[c] /\ t.doc[c] \in Seq(N)
    <3>1. t.doc[c] \in Seq(N)
      BY <1>1, LineNumbers
    <3> QED
      BY <1>2, <2>2, <3>1
  <2>4. Line(t.doc[c], P, t.caret[c], Low(t, c), High(t, c), Ahead(u))
    BY <1>2, <2>1, <2>2, <2>3, LineLoosened
  <2>5. Line(t.doc[c], P, t.caret[c], 0, 0, Ahead(u))
    <3>1. CASE EndDue(t)
      BY <2>4, <3>1 DEF Low, High, Open
    <3>2. CASE Ahead(u) = {}
      BY <2>4, <3>2, LineOpened
    <3> QED
      BY <3>1, <3>2
  <2>6. Frontier(u, c) = t.caret[c] /\ Low(u, c) = 0 /\ High(u, c) = 0
    BY <1>1 DEF Frontier, Low, High, Open, Composing, CaretDue
  <2> QED
    BY <2>5, <2>6 DEF LineOf
<1>4. ASSUME NEW d \in Contexts \ {c}
      PROVE  LineOf(u, d, P)
  <2>1. ~Composing(u, d) /\ ~Composing(t, d)
    BY <1>1, NoContextAssumption DEF Composing
  <2>2. ~CaretDue(u, d) /\ ~CaretDue(t, d)
    BY DEF CaretDue
  <2>3. LineOf(t, d, P) /\ u.doc[d] = t.doc[d] /\ u.caret[d] = t.caret[d]
    BY DEF Orderly, Lines
  <2> QED
    BY <1>1, <2>1, <2>2, <2>3, LineSame
<1>5. Lines(u, P)
  BY <1>3, <1>4 DEF Lines
<1>6. \A d \in Contexts : ~Composing(u, d)
  BY NoContextAssumption DEF Composing
<1>7. CaretsFollow(u)
  BY <1>6 DEF CaretsFollow
<1>8. EndsInPlace(u)
  BY DEF EndsInPlace, Composing, Retaining
<1> QED
  BY <1>5, <1>7, <1>8 DEF Orderly
-----------------------------------------------------------------------------
(* The same for a step that leaves the composition as it is. *)
LEMMA LineElse ==
  ASSUME NEW N, NEW t \in TextType(N), NEW u \in TextType(N), NEW c \in Contexts, NEW P,
         LineOf(t, c, P), u.doc[c] = t.doc[c], u.caret[c] = t.caret[c],
         u.comp.context = t.comp.context,
         Composing(t, c) => u.comp.from = t.comp.from /\ u.comp.len = t.comp.len,
         EndDue(u) <=> EndDue(t), CaretDue(u, c) <=> CaretDue(t, c),
         CaretDue(t, c) => u.retained.at = t.retained.at, Ahead(u) \subseteq Ahead(t)
  PROVE  LineOf(u, c, P)
<1>1. Frontier(u, c) = Frontier(t, c) /\ Low(u, c) = Low(t, c) /\ High(u, c) = High(t, c)
  BY DEF Frontier, Low, High, Open, Composing
<1>2. Frontier(t, c) <= Frontier(u, c)
  BY <1>1, LineNumbers
<1>3. Low(u, c) = Low(t, c) /\ High(u, c) = High(t, c)
  BY <1>1
<1> QED
  BY <1>2, <1>3, LineKept

(* The caret set behind the composition. *)
LEMMA BehindOrder ==
  ASSUME NEW N, NEW t, Fits(t, N), NEW P, Orderly(t, P), NEW c \in Contexts, Composing(t, c),
         NEW v, v = [t EXCEPT !.caret[c] = t.comp.from + t.comp.len]
  PROVE  Orderly(v, P) /\ v.caret[c] = t.comp.from + t.comp.len
<1>13. PICK u : u = v
  OBVIOUS
<1>1. t \in TextType(N) /\ t.comp.context = c /\ c # NoContext
  BY NoContextAssumption DEF Fits, Composing
<1>2. PICK k : k = t.comp.from + t.comp.len
  OBVIOUS
<1>3. t.comp.from \in Nat /\ t.comp.len \in Nat /\ k \in Nat /\ t.comp.from <= k
  BY <1>1, <1>2, TextFields
<1>0. u = [t EXCEPT !.caret[c] = k]
  BY <1>2, <1>13
<1>4. /\ u \in TextType(N) /\ u.caret[c] = k
      /\ \A d \in Contexts \ {c} : u.caret[d] = t.caret[d]
      /\ u.doc = t.doc /\ u.comp = t.comp /\ u.engine = t.engine /\ u.retained = t.retained
  BY <1>0, <1>1, <1>3, OneCaretSet
<1>5. (EndDue(u) <=> EndDue(t)) /\ Ahead(u) = Ahead(t) /\ (Retaining(u) <=> Retaining(t))
  BY <1>4 DEF EndDue, Ahead, Retaining
<1>6. LineOf(u, c, P)
  <2>1. Frontier(u, c) = Frontier(t, c) /\ Low(u, c) = Low(t, c) /\ High(u, c) = High(t, c)
    BY <1>4, <1>5 DEF Frontier, Low, High, Open, Composing
  <2> QED
    BY <1>4, <1>5, <2>1 DEF Orderly, Lines, LineOf
<1>8. t \in TextType(N) /\ u \in TextType(N) /\ (EndDue(u) <=> EndDue(t))
  BY <1>1, <1>4, <1>5
<1>7. ASSUME NEW d \in Contexts \ {c}
      PROVE  LineOf(u, d, P)
  <2>1. CaretDue(u, d) <=> CaretDue(t, d)
    BY <1>4 DEF CaretDue, Unwritten, Retaining
  <2>2. LineOf(t, d, P) /\ u.doc[d] = t.doc[d] /\ u.caret[d] = t.caret[d]
    BY <1>4 DEF Orderly, Lines
  <2>3. d \in Contexts /\ u.comp.context = t.comp.context /\ u.comp.from = t.comp.from
        /\ u.comp.len = t.comp.len /\ u.retained.at = t.retained.at /\ Ahead(u) \subseteq Ahead(t)
    BY <1>4, <1>5
  <2> QED
    BY <1>8, <2>1, <2>2, <2>3, LineElse
<1>9. Lines(u, P)
  BY <1>6, <1>7 DEF Lines
<1>12. ResultRises(u)
  BY <1>4 DEF Orderly, ResultRises, Retaining
<1>10. CaretsFollow(u)
  <2>1. CaretFollows(u, c)
    BY <1>2, <1>3, <1>4 DEF CaretFollows
  <2> QED
    BY <1>1, <1>4, <2>1 DEF CaretsFollow, Composing
<1>11. EndsInPlace(u)
  BY <1>4, <1>5 DEF Orderly, EndsInPlace, Composing
<1> QED
  BY <1>2, <1>4, <1>9, <1>10, <1>11, <1>12, <1>13 DEF Orderly

(* needsEnd is settled before the write. *)
LEMMA MarkedOrder ==
  ASSUME NEW N, NEW t, Fits(t, N), NEW P, Orderly(t, P), t.retained.written = FALSE,
         NEW u, NEW e, MarkedAs(u, t, N, FALSE, t.retained.caretSet, e)
  PROVE  Orderly(u, P)
<1>1. /\ u \in TextType(N) /\ t \in TextType(N)
      /\ u.doc = t.doc /\ u.caret = t.caret /\ u.comp = t.comp /\ u.engine = t.engine
      /\ u.retained.context = t.retained.context /\ u.retained.commit = t.retained.commit
      /\ u.retained.view = t.retained.view /\ u.retained.at = t.retained.at
      /\ u.retained.written = FALSE /\ u.retained.caretSet = t.retained.caretSet
  BY DEF MarkedAs, Fits
<1>2. ~EndDue(t) /\ ~EndDue(u) /\ Ahead(u) = Ahead(t) /\ (Retaining(u) <=> Retaining(t))
  BY <1>1 DEF EndDue, Ahead, Retaining
<1>3. ASSUME NEW d \in Contexts
      PROVE  LineOf(u, d, P)
  <2>1. ~CaretDue(u, d) /\ ~CaretDue(t, d)
    BY <1>1 DEF CaretDue
  <2>2. LineOf(t, d, P) /\ u.doc[d] = t.doc[d] /\ u.caret[d] = t.caret[d]
    BY <1>1 DEF Orderly, Lines
  <2> QED
    BY <1>1, <1>2, <2>1, <2>2, LineElse
<1>4. Lines(u, P)
  BY <1>3 DEF Lines
<1>5. ResultRises(u)
  BY <1>1, <1>2 DEF Orderly, ResultRises
<1>6. CaretsFollow(u)
  <2>1. ASSUME NEW c \in Contexts, Composing(u, c) PROVE CaretFollows(u, c)
    <3>1. CaretFollows(t, c)
      BY <1>1, <2>1 DEF Orderly, CaretsFollow, Composing
    <3> QED
      BY <1>1, <1>2, <3>1 DEF CaretFollows
  <2> QED
    BY <2>1 DEF CaretsFollow
<1>7. EndsInPlace(u)
  BY <1>1, <1>2 DEF Orderly, EndsInPlace, Composing
<1> QED
  BY <1>4, <1>5, <1>6, <1>7 DEF Orderly

(* A result that commits nothing has nothing to write. *)
LEMMA NothingWrittenOrder ==
  ASSUME NEW N, NEW t, Fits(t, N), NEW P, Orderly(t, P), t.retained.written = FALSE,
         t.retained.commit = <<>>, t.retained.needsEnd = FALSE,
         NEW u, MarkedAs(u, t, N, TRUE, t.retained.caretSet, FALSE)
  PROVE  Orderly(u, P)
<1>1. /\ u \in TextType(N) /\ t \in TextType(N)
      /\ u.doc = t.doc /\ u.caret = t.caret /\ u.comp = t.comp /\ u.engine = t.engine
      /\ u.retained.context = t.retained.context /\ u.retained.commit = <<>>
      /\ u.retained.view = t.retained.view /\ u.retained.at = t.retained.at
      /\ u.retained.written = TRUE /\ u.retained.needsEnd = FALSE
      /\ u.retained.caretSet = t.retained.caretSet
  BY DEF MarkedAs, Fits
<1>2. ~EndDue(t) /\ ~EndDue(u) /\ (Retaining(u) <=> Retaining(t))
  BY <1>1 DEF EndDue, Retaining
<1>3. Ahead(u) \subseteq Ahead(t)
  BY <1>1 DEF Ahead
<1>4. ASSUME NEW d \in Contexts
      PROVE  LineOf(u, d, P)
  <2>1. ~CaretDue(u, d) /\ ~CaretDue(t, d)
    BY <1>1 DEF CaretDue, Unwritten
  <2>2. LineOf(t, d, P) /\ u.doc[d] = t.doc[d] /\ u.caret[d] = t.caret[d]
    BY <1>1 DEF Orderly, Lines
  <2> QED
    BY <1>1, <1>2, <1>3, <2>1, <2>2, LineElse
<1>5. Lines(u, P)
  BY <1>4 DEF Lines
<1>6. ResultRises(u)
  BY <1>1, <1>2 DEF Orderly, ResultRises
<1>7. CaretsFollow(u)
  <2>1. ASSUME NEW c \in Contexts, Composing(u, c) PROVE CaretFollows(u, c)
    <3>1. CaretFollows(t, c)
      BY <1>1, <2>1 DEF Orderly, CaretsFollow, Composing
    <3> QED
      BY <1>1, <1>2, <3>1 DEF CaretFollows
  <2> QED
    BY <2>1 DEF CaretsFollow
<1>8. EndsInPlace(u)
  BY <1>1, <1>2 DEF EndsInPlace
<1> QED
  BY <1>5, <1>6, <1>7, <1>8 DEF Orderly

(* Where a written range leaves the caret of its field.                     *)
LEMMA WrittenCaret ==
  ASSUME NEW N, NEW t \in TextType(N), NEW c \in Contexts, NEW from \in Nat, NEW len \in Nat,
         NEW inside
  PROVE  Written(t, c, from, len, inside).caret[c]
           = CaretAfter(t.caret[c], from, len, t.retained.commit)
<1>1. PICK m : m = Moved(t.caret, c, from, len, t.retained.commit)
  OBVIOUS
<1>2. PICK u : u = Written(t, c, from, len, inside)
  OBVIOUS
<1>3. PICK doc : doc = Edited(t.doc, c, from, len, t.retained.commit)
  OBVIOUS
<1>4. PICK part : part = PartOf(t.comp.context, t.comp.from,
                           IF inside THEN Len(t.retained.commit) ELSE t.comp.len)
  OBVIOUS
<1>5. PICK result : result = ResultOf(t.retained.context, t.retained.commit, t.retained.view, TRUE,
                             t.retained.caretSet, t.retained.needsEnd,
                             from + Len(t.retained.commit))
  OBVIOUS
<1>6. u = TextOf(doc, m, part, t.engine, result)
  <2>1. Written(t, c, from, len, inside) = TextOf(doc, m, part, t.engine, result)
    BY <1>1, <1>3, <1>4, <1>5, WrittenIs, ZenonT(60)
  <2> QED
    BY <1>2, <2>1
<1>7. u.caret = m
  BY <1>6, FieldsOf
<1>8. PICK k : k = CaretAfter(t.caret[c], from, len, t.retained.commit)
  OBVIOUS
<1>9. m = [t.caret EXCEPT ![c] = k]
  BY <1>1, <1>8 DEF Moved
<1>10. m[c] = k
  BY <1>9, TextFields DEF Carets
<1> QED
  BY <1>2, <1>7, <1>8, <1>10

(* The write: what is committed was still to come, and is older than what   *)
(* the engine keeps.                                                        *)
LEMMA WrittenOrder ==
  ASSUME NEW N, NEW t, Fits(t, N), NEW P, Orderly(t, P), NEW c \in Contexts,
         NEW from, NEW len, NEW inside, WriteSpot(t, c, from, len, inside),
         t.retained.written = FALSE
  PROVE  Orderly(Written(t, c, from, len, inside), P)
<1>0. /\ inside \in BOOLEAN /\ (inside <=> Composing(t, c))
      /\ t.retained.context = c /\ t.retained.commit # <<>> /\ t.retained.needsEnd = inside
      /\ inside => from = t.comp.from /\ len = t.comp.len
      /\ ~inside => from = t.caret[c] /\ len = 0
  BY DEF WriteSpot
<1>1. PICK u : u = Written(t, c, from, len, inside)
  OBVIOUS
<1>2. t \in TextType(N) /\ c # NoContext /\ Retaining(t)
  BY <1>0, NoContextAssumption DEF Fits, Retaining
<1>3. PICK s : s = t.doc[c]
  OBVIOUS
<1>4. PICK new : new = t.retained.commit
  OBVIOUS
<1>5. /\ from \in Nat /\ len \in Nat /\ s \in Seq(N) /\ new \in Seq(N) /\ t.caret[c] \in Nat
      /\ Len(new) \in Nat /\ Len(new) # 0
  BY <1>0, <1>2, <1>3, <1>4, TextFields DEF Docs, Carets
<1>6. from + len <= Len(s) /\ t.caret[c] <= Len(t.doc[c])
  <2>1. t.caret[c] <= Len(t.doc[c])
    BY DEF Fits, PlacedCarets
  <2>2. CASE inside
    BY <1>0, <1>2, <1>3, <2>1, <2>2 DEF Fits, PlacedComposition, Composing
  <2>3. CASE ~inside
    BY <1>0, <1>3, <1>5, <2>1, <2>3
  <2> QED
    BY <2>1, <2>2, <2>3
<1>7. WrittenAs(Written(t, c, from, len, inside), t, N, c, from, len, inside)
  BY <1>2, <1>3, <1>5, <1>6, WrittenFields
<1>8. /\ u \in TextType(N) /\ u.engine = t.engine
      /\ u.doc[c] = Replaced(s, from, len, new)
      /\ \A d \in Contexts \ {c} : u.doc[d] = t.doc[d] /\ u.caret[d] = t.caret[d]
      /\ u.comp.context = t.comp.context /\ u.comp.from = t.comp.from
      /\ u.comp.len = (IF inside THEN Len(new) ELSE t.comp.len)
      /\ u.retained.context = c /\ u.retained.commit = new
      /\ u.retained.view = t.retained.view
      /\ u.retained.written = TRUE /\ u.retained.at = from + Len(new)
      /\ u.retained.caretSet = t.retained.caretSet /\ u.retained.needsEnd = inside
  BY <1>0, <1>1, <1>3, <1>4, <1>7 DEF WrittenAs
<1>9. /\ Retaining(u) /\ ~EndDue(t) /\ (EndDue(u) <=> inside)
      /\ t.retained.caretSet = FALSE /\ u.retained.caretSet = FALSE
  <2>1. t.retained.caretSet \in BOOLEAN
    BY <1>2, TextFields
  <2> QED
    BY <1>0, <1>2, <1>8, <2>1 DEF EndDue, Retaining, Orderly, EndsInPlace
<1>10. Ahead(t) = Range(t.engine) \cup Range(new) /\ Ahead(u) = Range(t.engine)
  BY <1>2, <1>4, <1>8 DEF Ahead
<1>11. Rises(new, {}) /\ \A x \in Range(new), y \in Range(t.engine) : x < y
  BY <1>2, <1>4 DEF Orderly, ResultRises
<1>12. LineOf(u, c, P)
  <2>1. PICK r : r = Replaced(s, from, len, new)
    OBVIOUS
  <2>2. PICK to : to = from + Len(new)
    OBVIOUS
  <2>3. Line(r, P, to, from, to, Ahead(t))
    <3>1. CASE inside
      <4>1. Line(s, P, from + len, from, from + len, Ahead(t))
        BY <1>0, <1>3, <1>9, <3>1 DEF Orderly, Lines, LineOf, Frontier, Low, High, Open
      <4>2. PICK f : f = from + len
        OBVIOUS
      <4>3. f \in Nat /\ f <= from + len /\ from <= from /\ Line(s, P, f, from, f, Ahead(t))
        BY <1>5, <4>1, <4>2
      <4> QED
        BY <1>5, <1>6, <1>10, <1>11, <2>1, <2>2, <4>3, LineReplaced
    <3>2. CASE ~inside
      <4>1. Line(s, P, from, 0, 0, Ahead(t))
        BY <1>0, <1>3, <3>2 DEF Orderly, Lines, LineOf, Frontier, Low, High, Open, CaretDue
      <4>2. from <= from + len /\ 0 <= 0 /\ 0 \in Nat
        BY <1>5
      <4> QED
        BY <1>5, <1>6, <1>10, <1>11, <2>1, <2>2, <4>1, <4>2, LineReplaced
    <3> QED
      BY <3>1, <3>2
  <2>4. r \in Seq(N)
    BY <1>5, <1>6, <2>1, LengthOfReplaced
  <2>5. ASSUME NEW i \in DOMAIN r, from < i, i <= to, NEW x \in Ahead(u)
        PROVE  r[i] < x
    <3>1. Spliced(r, s, N, from, len, new)
      BY <1>5, <1>6, <2>1, PlacesOfReplaced
    <3>2. PICK j : j = i - from
      OBVIOUS
    <3>3. i \in Nat
      BY <2>4
    <3>4. j \in 1 .. Len(new) /\ from + j = i
      BY <1>5, <2>2, <2>5, <3>2, <3>3
    <3>5. r[i] = new[j]
      BY <3>1, <3>4 DEF Spliced
    <3>6. j \in DOMAIN new
      BY <1>5, <3>4
    <3>7. r[i] \in Range(new)
      BY <3>5, <3>6 DEF Range
    <3> QED
      BY <1>10, <1>11, <2>5, <3>7
  <2>6. from \in Nat /\ to \in Nat /\ Ahead(u) \subseteq Ahead(t)
    BY <1>5, <1>10, <2>2
  <2>7. Line(r, P, to, 0, 0, Ahead(u))
    BY <2>3, <2>4, <2>5, <2>6, LineClosed
  <2>8. Line(r, P, to, from, to, Ahead(u))
    BY <2>3, <2>4, <2>5, <2>6, LineClosed
  <2>9. Frontier(u, c) = to /\ Low(u, c) = 0 /\ High(u, c) = 0
    <3>1. CASE inside
      BY <1>0, <1>8, <1>9, <2>2, <3>1 DEF Frontier, Low, High, Open, Composing
    <3>2. CASE ~inside
      <4>1. CaretDue(u, c)
        BY <1>0, <1>4, <1>8, <1>9 DEF CaretDue, Unwritten
      <4> QED
        BY <1>0, <1>8, <2>2, <3>2, <4>1 DEF Frontier, Low, High, Open, Composing
    <3> QED
      BY <1>0, <3>1, <3>2
  <2> QED
    BY <1>8, <2>1, <2>7, <2>9 DEF LineOf
<1>13. ASSUME NEW d \in Contexts \ {c}
       PROVE  LineOf(u, d, P)
  <2>1. ~CaretDue(u, d) /\ ~CaretDue(t, d)
    BY <1>0, <1>8 DEF CaretDue
  <2>2. LineOf(t, d, P) /\ u.doc[d] = t.doc[d] /\ u.caret[d] = t.caret[d]
    BY <1>8 DEF Orderly, Lines
  <2>3. Ahead(u) \subseteq Ahead(t)
    BY <1>10
  <2>4. Frontier(u, d) = Frontier(t, d) /\ Low(u, d) = Low(t, d) /\ High(u, d) = High(t, d)
    <3>1. CASE inside
      <4>1. ~Composing(u, d) /\ ~Composing(t, d)
        BY <1>0, <1>8, <3>1 DEF Composing
      <4> QED
        BY <2>1, <2>2, <4>1 DEF Frontier, Low, High, Open
    <3>2. CASE ~inside
      BY <1>8, <1>9, <2>1, <2>2, <3>2 DEF Frontier, Low, High, Open, Composing
    <3> QED
      BY <1>0, <3>1, <3>2
  <2>5. Frontier(t, d) <= Frontier(u, d)
    BY <1>2, <2>4, LineNumbers
  <2> QED
    BY <1>2, <1>8, <2>2, <2>3, <2>4, <2>5, LineKept
<1>14. Lines(u, P)
  BY <1>12, <1>13 DEF Lines
<1>15. ResultRises(u)
  BY <1>2, <1>4, <1>8 DEF Orderly, ResultRises
<1>16. CaretsFollow(u)
  <2>1. ASSUME NEW d \in Contexts, Composing(u, d) PROVE CaretFollows(u, d)
    <3>1. CaretFollows(t, d) /\ Composing(t, d)
      BY <1>8, <2>1 DEF Orderly, CaretsFollow, Composing
    <3>2. CASE d # c
      <4>1. ~inside
        BY <1>0, <3>1, <3>2 DEF Composing
      <4> QED
        BY <1>0, <1>8, <3>1, <3>2, <4>1 DEF CaretFollows
    <3>3. CASE d = c
      <4>1. u.caret[c] = CaretAfter(t.caret[c], from, len, new)
        BY <1>1, <1>2, <1>4, <1>5, WrittenCaret
      <4>2. inside /\ from = t.comp.from /\ from <= t.caret[c]
        BY <1>0, <3>1, <3>3 DEF CaretFollows
      <4>3. from <= u.caret[c]
        BY <1>5, <4>1, <4>2 DEF CaretAfter
      <4> QED
        BY <1>8, <1>9, <3>3, <4>2, <4>3 DEF CaretFollows
    <3> QED
      BY <3>2, <3>3
  <2> QED
    BY <2>1 DEF CaretsFollow
<1>17. EndsInPlace(u)
  <2>1. inside => /\ Composing(u, c) /\ u.comp.len # 0
                  /\ u.retained.at = u.comp.from + u.comp.len
    BY <1>0, <1>5, <1>8 DEF Composing
  <2>2. ~inside => ~Composing(u, c)
    BY <1>0, <1>8 DEF Composing
  <2> QED
    BY <1>0, <1>4, <1>8, <1>9, <2>1, <2>2 DEF EndsInPlace
<1> QED
  BY <1>1, <1>14, <1>15, <1>16, <1>17 DEF Orderly
-----------------------------------------------------------------------------
(* The stages of retryInputResult keep the order of the text. *)
LEMMA WriteOrder ==
  ASSUME NEW N, NEW P, NEW r, Ordered(r, N, P), NEW c \in Contexts, Of(r, c), NEW fault
  PROVE  Orderly(Write(r, c, fault).text, P)
<1>1. CASE ~r.ok \/ r.text.retained.written
  BY <1>1 DEF Write, Ordered
<1>3. CASE r.ok /\ ~r.text.retained.written
  <2>1. PICK inside : inside = Inside(r.text, c)
    OBVIOUS
  <2>0. PICK before : before = r.text
    OBVIOUS
  <2>2. PICK t : t = WithEnd(before, inside)
    OBVIOUS
  <2>3. Write(r, c, fault) = WriteInto(t, c, inside, fault)
    BY <1>3, <2>0, <2>1, <2>2, Zenon DEF Write, WithEnd
  <2>4. inside \in BOOLEAN
    BY <2>1 DEF Inside, Composing
  <2>5. before \in TextType(N) /\ Fits(before, N) /\ Orderly(before, P)
    BY <2>0 DEF Ordered, Sound, Fits
  <2>12. before.retained.written = FALSE
    BY <1>3, <2>0, <2>5, TextFields
  <2>6. MarkedAs(t, before, N, before.retained.written, before.retained.caretSet, inside)
    BY <2>2, <2>4, <2>5, EndMarked
  <2>13. MarkedAs(t, before, N, FALSE, before.retained.caretSet, inside)
    BY <2>6, <2>12
  <2>7. Fits(t, N) /\ Orderly(t, P)
    <3>1. PlacedCarets(t) /\ PlacedComposition(t)
      BY <2>5, <2>6 DEF MarkedAs, Fits, PlacedCarets, PlacedComposition
    <3>2. PlacedWrite(t)
      BY <2>13 DEF MarkedAs, PlacedWrite
    <3>3. Orderly(t, P)
      BY <2>5, <2>12, <2>13, MarkedOrder
    <3> QED
      BY <2>6, <3>1, <3>2, <3>3 DEF MarkedAs, Fits
  <2>8. t.retained.context = c /\ t.retained.written = FALSE /\ t.retained.needsEnd = inside
    BY <1>3, <2>0, <2>13 DEF MarkedAs, Of
  <2>9. CASE t.retained.commit = <<>>
    <3>1. PICK u : u = WithWritten(t)
      OBVIOUS
    <3>2. WriteInto(t, c, inside, fault) = Ok(u)
      BY <2>9, <3>1, Zenon DEF WriteInto, WithWritten
    <3>3. t.retained.needsEnd = FALSE
      BY <2>0, <2>1, <2>4, <2>8, <2>9, <2>13 DEF Inside, MarkedAs
    <3>4. MarkedAs(u, t, N, TRUE, t.retained.caretSet, FALSE)
      <4>1. t \in TextType(N)
        BY <2>6 DEF MarkedAs
      <4>2. MarkedAs(u, t, N, TRUE, t.retained.caretSet, t.retained.needsEnd)
        BY <3>1, <4>1, WriteMarked
      <4> QED
        BY <3>3, <4>2
    <3>5. Orderly(u, P)
      BY <2>7, <2>8, <2>9, <3>3, <3>4, NothingWrittenOrder
    <3> QED
      BY <2>3, <3>2, <3>5, OkAndFailed
  <2>10. CASE t.retained.commit # <<>> /\ fault = "write"
    <3>1. WriteInto(t, c, inside, fault) = Failed(t)
      BY <2>10, Zenon DEF WriteInto
    <3> QED
      BY <2>3, <2>7, <3>1, OkAndFailed
  <2>11. CASE t.retained.commit # <<>> /\ fault # "write"
    <3>1. PICK from : from = IF inside THEN t.comp.from ELSE t.caret[c]
      OBVIOUS
    <3>2. PICK len : len = IF inside THEN t.comp.len ELSE 0
      OBVIOUS
    <3>3. PICK u : u = Written(t, c, from, len, inside)
      OBVIOUS
    <3>4. WriteInto(t, c, inside, fault) = Ok(u)
      <4>1. CASE inside
        <5>1. inside = TRUE
          BY <2>4, <4>1
        <5> QED
          BY <2>11, <3>1, <3>2, <3>3, <4>1, <5>1 DEF WriteInto
      <4>2. CASE ~inside
        <5>1. inside = FALSE
          BY <2>4, <4>2
        <5> QED
          BY <2>11, <3>1, <3>2, <3>3, <4>2, <5>1 DEF WriteInto
      <4> QED
        BY <4>1, <4>2
    <3>5. WriteSpot(t, c, from, len, inside)
      BY <2>0, <2>1, <2>4, <2>6, <2>8, <2>11, <3>1, <3>2 DEF MarkedAs, WriteSpot, Inside, Composing
    <3>6. Orderly(u, P)
      BY <2>7, <2>8, <3>3, <3>5, WrittenOrder
    <3> QED
      BY <2>3, <3>4, <3>6, OkAndFailed
  <2> QED
    BY <2>9, <2>10, <2>11
<1> QED
  BY <1>1, <1>3

(* The caret is set behind what the retained result has written.            *)
LEMMA SetCaretOrder ==
  ASSUME NEW N, NEW P, NEW r, Ordered(r, N, P), NEW c \in Contexts, Of(r, c),
         r.ok => r.text.retained.written = TRUE, NEW fault
  PROVE  Orderly(SetCaret(r, c, fault).text, P)
<1>0. r.ok \in BOOLEAN /\ Fits(r.text, N) /\ r.text \in TextType(N) /\ Orderly(r.text, P)
  BY DEF Ordered, Sound, Fits
<1>1. CASE ~r.ok \/ r.text.retained.commit = <<>> \/ r.text.retained.caretSet
  BY <1>0, <1>1 DEF SetCaret
<1>2. CASE /\ ~(~r.ok \/ r.text.retained.commit = <<>> \/ r.text.retained.caretSet)
           /\ fault = "caret"
  <2>1. SetCaret(r, c, fault) = Failed(r.text)
    BY <1>2 DEF SetCaret
  <2> QED
    BY <1>0, <2>1, OkAndFailed
<1>3. CASE /\ ~(~r.ok \/ r.text.retained.commit = <<>> \/ r.text.retained.caretSet)
           /\ fault # "caret"
  <2>1. PICK t : t = r.text
    OBVIOUS
  <2>2. PICK at : at = t.retained.at
    OBVIOUS
  <2>3. PICK v : v = [t EXCEPT !.caret[c] = at]
    OBVIOUS
  <2>4. PICK u : u = WithCaretSet(v)
    OBVIOUS
  <2>5. SetCaret(r, c, fault) = Ok(u)
    BY <1>3, <2>1, <2>2, <2>3, <2>4, Zenon DEF SetCaret, WithCaretSet
  <2>6. Fits(t, N) /\ Orderly(t, P) /\ t.retained.context = c /\ t.retained.written = TRUE
    BY <1>0, <1>3, <2>1 DEF Of
  <2>7. t \in TextType(N) /\ at \in Nat /\ t.comp.from \in Nat /\ t.comp.len \in Nat
    BY <2>2, <2>6, TextFields DEF Fits
  <2>8. /\ v \in TextType(N) /\ v.caret[c] = at
        /\ \A d \in Contexts \ {c} : v.caret[d] = t.caret[d]
        /\ v.doc = t.doc /\ v.comp = t.comp /\ v.engine = t.engine
        /\ v.retained = t.retained
    BY <2>3, <2>7, OneCaretSet
  <2>9. MarkedAs(u, v, N, v.retained.written, TRUE, v.retained.needsEnd)
    BY <2>4, <2>8, CaretMarked
  <2>10. /\ u \in TextType(N) /\ u.caret[c] = at /\ u.engine = t.engine
         /\ \A d \in Contexts \ {c} : u.caret[d] = t.caret[d]
         /\ u.doc = t.doc /\ u.comp = t.comp
         /\ u.retained.context = c /\ u.retained.caretSet = TRUE
         /\ u.retained.commit = t.retained.commit /\ u.retained.view = t.retained.view
         /\ u.retained.written = TRUE /\ u.retained.needsEnd = t.retained.needsEnd
         /\ u.retained.at = t.retained.at
    BY <2>6, <2>8, <2>9 DEF MarkedAs
  <2>11. Unwritten(t)
    BY <1>0, <1>3, <2>1, <2>6, TextFields, NoContextAssumption DEF Unwritten, Retaining
  <2>12. t.comp.context = c => at = t.comp.from + t.comp.len
    BY <2>2, <2>6, <2>11 DEF Fits, PlacedWrite
  <2>13. /\ Retaining(t) /\ Retaining(u) /\ (EndDue(u) <=> EndDue(t))
         /\ Ahead(u) = Ahead(t) /\ ~Unwritten(u)
    BY <2>6, <2>10, <2>11 DEF Unwritten, Retaining, EndDue, Ahead
  <2>14. LineOf(u, c, P)
    <3>1. Frontier(u, c) = Frontier(t, c) /\ Low(u, c) = Low(t, c) /\ High(u, c) = High(t, c)
      BY <2>2, <2>6, <2>10, <2>11, <2>13 DEF Frontier, Low, High, Open, Composing, CaretDue
    <3>2. LineOf(t, c, P)
      BY <2>6 DEF Orderly, Lines
    <3> QED
      BY <2>10, <2>13, <3>1, <3>2 DEF LineOf
  <2>15. ASSUME NEW d \in Contexts \ {c}
         PROVE  LineOf(u, d, P)
    <3>1. ~CaretDue(u, d) /\ ~CaretDue(t, d)
      BY <2>6, <2>10 DEF CaretDue
    <3>2. LineOf(t, d, P) /\ u.doc[d] = t.doc[d] /\ u.caret[d] = t.caret[d]
      BY <2>6, <2>10 DEF Orderly, Lines
    <3> QED
      BY <2>7, <2>10, <2>13, <3>1, <3>2, LineElse
  <2>16. Lines(u, P)
    BY <2>14, <2>15 DEF Lines
  <2>17. ResultRises(u)
    BY <2>6, <2>10, <2>13 DEF Orderly, ResultRises
  <2>18. CaretsFollow(u)
    <3>1. ASSUME NEW d \in Contexts, Composing(u, d) PROVE CaretFollows(u, d)
      <4>1. Composing(t, d) /\ CaretFollows(t, d)
        BY <2>6, <2>10, <3>1 DEF Orderly, CaretsFollow, Composing
      <4>2. CASE d = c
        BY <2>7, <2>10, <2>12, <4>1, <4>2 DEF CaretFollows, Composing
      <4>3. CASE d # c
        BY <2>6, <2>10, <4>1, <4>3 DEF CaretFollows
      <4> QED
        BY <4>2, <4>3
    <3> QED
      BY <3>1 DEF CaretsFollow
  <2>19. EndsInPlace(u)
    BY <2>6, <2>10, <2>13 DEF Orderly, EndsInPlace, Composing
  <2> QED
    BY <2>5, <2>16, <2>17, <2>18, <2>19, OkAndFailed DEF Orderly
<1> QED
  BY <1>0, <1>1, <1>2, <1>3

(* The composition that holds the commit ends: the frontier stays behind    *)
(* it.                                                                      *)
LEMMA EndCommittedOrder ==
  ASSUME NEW N, NEW P, NEW r, Ordered(r, N, P), Steady(r, N), NEW c \in Contexts, Of(r, c),
         r.ok => r.text.retained.written = TRUE, NEW fault
  PROVE  /\ Orderly(EndCommitted(r, c, fault).text, P)
         /\ EndCommitted(r, c, fault).ok =>
              /\ EndCommitted(r, c, fault).text.retained.written = TRUE
              /\ EndCommitted(r, c, fault).text.retained.needsEnd = FALSE
<1>0. Fits(r.text, N) /\ r.text \in TextType(N) /\ Orderly(r.text, P) /\ r.ok \in BOOLEAN
      /\ r.text.retained.needsEnd \in BOOLEAN
  <2>1. Fits(r.text, N) /\ r.text \in TextType(N) /\ Orderly(r.text, P) /\ r.ok \in BOOLEAN
    BY DEF Ordered, Sound, Fits
  <2> QED
    BY <2>1, TextFields
<1>1. CASE ~r.ok \/ ~r.text.retained.needsEnd
  BY <1>0, <1>1 DEF EndCommitted
<1>2. CASE r.ok /\ r.text.retained.needsEnd
  <2>1. PICK t : t = r.text
    OBVIOUS
  <2>2. /\ Fits(t, N) /\ t \in TextType(N) /\ Orderly(t, P) /\ ~Unwritten(t)
        /\ t.retained.context = c /\ t.retained.needsEnd = TRUE /\ t.retained.written = TRUE
    BY <1>0, <1>2, <2>1 DEF Steady, Of
  <2>3. Retaining(t) /\ EndDue(t) /\ Composing(t, c) /\ t.retained.commit # <<>>
    BY <2>2, NoContextAssumption DEF Retaining, EndDue, Orderly, EndsInPlace
  <2>4. PICK clear : clear = FALSE
    OBVIOUS
  <2>5. PICK e : e = EndRange(t, fault)
    OBVIOUS
  <2>6. End(r, c, clear, fault) = e
    BY <1>2, <2>1, <2>3, <2>4, <2>5 DEF End
  <2>7. EndCommitted(r, c, fault) = Ended(e)
    BY <1>2, <2>4, <2>6 DEF EndCommitted
  <2>8. CASE fault = "end"
    <3>1. e = Failed(t)
      BY <2>5, <2>8 DEF EndRange
    <3>2. Ended(e) = e /\ e.text = t /\ ~e.ok
      BY <3>1, OkAndFailed DEF Ended
    <3> QED
      BY <2>2, <2>7, <3>2
  <2>9. CASE fault # "end"
    <3>1. PICK v : v = [t EXCEPT !.comp = NoComposition]
      OBVIOUS
    <3>2. e = Ok(v)
      BY <2>5, <2>9, <3>1, Zenon DEF EndRange
    <3>3. PICK no : no = FALSE
      OBVIOUS
    <3>4. PICK u : u = WithEnd(v, no)
      OBVIOUS
    <3>5. Ended(e) = Ok(u)
      <4>1. e.ok /\ e.text = v
        BY <3>2, OkAndFailed
      <4> QED
        BY <3>3, <3>4, <4>1, Zenon DEF Ended, WithEnd
    <3>6. /\ Fits(v, N) /\ v.comp = NoComposition /\ v.retained = t.retained
          /\ v.engine = t.engine /\ v.doc = t.doc /\ v.caret = t.caret
      BY <2>2, <3>1, CompDroppedFits
    <3>7. v \in TextType(N) /\ no \in BOOLEAN
      BY <3>3, <3>6 DEF Fits
    <3>8. MarkedAs(u, v, N, v.retained.written, v.retained.caretSet, no)
      BY <3>4, <3>7, EndMarked
    <3>9. /\ u \in TextType(N) /\ u.doc = t.doc /\ u.caret = t.caret /\ u.engine = t.engine
          /\ u.comp.context = NoContext
          /\ u.retained.context = t.retained.context /\ u.retained.commit = t.retained.commit
          /\ u.retained.view = t.retained.view /\ u.retained.caretSet = t.retained.caretSet
          /\ u.retained.written = TRUE /\ u.retained.needsEnd = FALSE
      BY <2>2, <3>3, <3>6, <3>8, NothingTyped DEF MarkedAs
    <3>10. /\ Ahead(u) \subseteq Ahead(t) /\ ~EndDue(u) /\ ~Unwritten(u)
           /\ (Retaining(u) <=> Retaining(t))
      BY <2>2, <3>9 DEF Ahead, EndDue, Unwritten, Retaining
    <3>11. ResultRises(u)
      BY <2>2, <3>9, <3>10 DEF Orderly, ResultRises
    <3>12. t.comp.from + t.comp.len <= t.caret[c]
      <4>1. t.retained.caretSet = TRUE
        BY <2>2, <2>3, TextFields DEF Unwritten
      <4>2. CaretFollows(t, c)
        BY <2>2, <2>3 DEF Orderly, CaretsFollow
      <4>3. ~(t.caret[c] < t.comp.from + t.comp.len)
        BY <2>3, <4>1, <4>2 DEF CaretFollows
      <4>4. t.comp.from \in Nat /\ t.comp.len \in Nat /\ t.caret[c] \in Nat
        BY <2>2, TextFields DEF Carets
      <4> QED
        BY <4>3, <4>4
    <3>13. Orderly(u, P)
      BY <2>2, <2>3, <3>9, <3>10, <3>11, <3>12, EndedOrder
    <3> QED
      BY <2>7, <3>5, <3>9, <3>13, OkAndFailed
  <2> QED
    BY <2>8, <2>9
<1> QED
  BY <1>1, <1>2

(* ensureComposition with nothing left to write. *)
LEMMA StartOrder ==
  ASSUME NEW N, NEW P, NEW r, Ordered(r, N, P), NEW c \in Contexts, NEW fault,
         r.ok => ~Unwritten(r.text) /\ (~Retaining(r.text) \/ r.text.retained.view # <<>>)
  PROVE  Orderly(Start(r, c, fault).text, P)
<1>0. Fits(r.text, N) /\ r.text \in TextType(N) /\ Orderly(r.text, P) /\ r.ok \in BOOLEAN
  BY DEF Ordered, Sound, Fits
<1>1. CASE ~r.ok \/ Composing(r.text, c)
  BY <1>0, <1>1 DEF Start
<1>2. CASE r.ok /\ ~Composing(r.text, c) /\ (r.text.comp.context # NoContext \/ fault = "start")
  <2>1. Start(r, c, fault) = Failed(r.text)
    BY <1>2 DEF Start
  <2> QED
    BY <1>0, <2>1, OkAndFailed
<1>3. CASE r.ok /\ ~Composing(r.text, c) /\ ~(r.text.comp.context # NoContext \/ fault = "start")
  <2>1. PICK t : t = r.text
    OBVIOUS
  <2>2. PICK comp : comp = [context |-> c, from |-> t.caret[c], len |-> 0]
    OBVIOUS
  <2>3. PICK u : u = [t EXCEPT !.comp = comp]
    OBVIOUS
  <2>4. Start(r, c, fault) = Ok(u)
    BY <1>3, <2>1, <2>2, <2>3, Zenon DEF Start
  <2>5. /\ Fits(t, N) /\ t \in TextType(N) /\ Orderly(t, P) /\ t.comp.context = NoContext
        /\ ~Unwritten(t) /\ (~Retaining(t) \/ t.retained.view # <<>>)
    BY <1>0, <1>3, <2>1
  <2>6. t.caret[c] \in Nat
    BY <2>5, TextFields DEF Carets
  <2>7. comp \in CompositionType /\ comp.context = c /\ comp.from = t.caret[c] /\ comp.len = 0
    BY <2>2, <2>6 DEF CompositionType, Fields
  <2>8. /\ u \in TextType(N) /\ u.comp = comp /\ u.doc = t.doc /\ u.caret = t.caret
        /\ u.engine = t.engine /\ u.retained = t.retained
    BY <2>3, <2>5, <2>7, CompSet
  <2>9. u.comp.context = c /\ u.comp.from = t.caret[c] /\ u.comp.len = 0
    BY <2>7, <2>8
  <2>10. Orderly(u, P)
    BY <2>5, <2>8, <2>9, StartedOrder
  <2> QED
    BY <2>4, <2>10, OkAndFailed
<1> QED
  BY <1>1, <1>2, <1>3

(* Every caret is behind the composition of its field. *)
Rested(t) == \A d \in Contexts : Composing(t, d) => t.comp.from + t.comp.len <= t.caret[d]

(* No other field has a composition with the caret inside.                  *)
LEMMA OthersRest ==
  ASSUME NEW N, NEW t \in TextType(N), NEW P, Orderly(t, P), NEW c \in Contexts,
         ~Retaining(t) \/ t.retained.context = c,
         Composing(t, c) /\ Retaining(t) => t.comp.from + t.comp.len <= t.caret[c]
  PROVE  Rested(t)
<1>1. SUFFICES ASSUME NEW d \in Contexts, Composing(t, d)
               PROVE  t.comp.from + t.comp.len <= t.caret[d]
  BY DEF Rested
<1>2. t.comp.from \in Nat /\ t.comp.len \in Nat /\ t.caret[d] \in Nat
  BY TextFields DEF Carets
<1>3. CASE Retaining(t) /\ d = c
  BY <1>1, <1>3
<1>4. CASE ~(Retaining(t) /\ d = c)
  <2>1. CaretFollows(t, d)
    BY <1>1 DEF Orderly, CaretsFollow
  <2>2. ~(t.caret[d] < t.comp.from + t.comp.len)
    BY <1>4, <2>1 DEF CaretFollows
  <2> QED
    BY <1>2, <2>2
<1> QED
  BY <1>3, <1>4

(* The view in the composition, and the caret behind it. *)
LEMMA ShowViewOrder ==
  ASSUME NEW N, NEW P, NEW r, Ordered(r, N, P), NEW c \in Contexts, Of(r, c), At(r, c), NEW fault,
         r.ok => ~Unwritten(r.text) /\ r.text.retained.needsEnd = FALSE
  PROVE  /\ Orderly(ShowView(r, c, fault).text, P)
         /\ ShowView(r, c, fault).ok => Rested(ShowView(r, c, fault).text)
<1>0. Fits(r.text, N) /\ r.text \in TextType(N) /\ Orderly(r.text, P) /\ r.ok \in BOOLEAN
  BY DEF Ordered, Sound, Fits
<1>1. CASE ~r.ok
  BY <1>0, <1>1 DEF ShowView
<1>2. CASE r.ok /\ fault = "view"
  <2>1. ShowView(r, c, fault) = Failed(r.text)
    BY <1>2 DEF ShowView
  <2> QED
    BY <1>0, <2>1, OkAndFailed
<1>3. CASE r.ok /\ fault # "view"
  <2>1. PICK t : t = r.text
    OBVIOUS
  <2>2. PICK new : new = t.retained.view
    OBVIOUS
  <2>3. PICK u : u = Shown(t, c, new)
    OBVIOUS
  <2>4. ShowView(r, c, fault) = CaretBehind(u, c, fault)
    BY <1>3, <2>1, <2>2, <2>3, Zenon DEF ShowView
  <2>5. /\ Fits(t, N) /\ t \in TextType(N) /\ Orderly(t, P) /\ ~Unwritten(t) /\ Composing(t, c)
        /\ t.retained.context = c /\ Retaining(t) /\ ~EndDue(t)
    BY <1>0, <1>3, <2>1, NoContextAssumption DEF Of, At, Retaining, EndDue
  <2>6. new \in Seq(N) /\ Rises(new, {}) /\ Range(new) \subseteq Ahead(t)
    BY <2>2, <2>5, TextFields DEF Orderly, ResultRises, Ahead
  <2>7. Orderly(u, P)
    BY <2>3, <2>5, <2>6, ShownOrder
  <2>8. Fits(u, N) /\ ~Unwritten(u) /\ Composing(u, c) /\ u.retained = t.retained
    BY <2>3, <2>5, <2>6, ShownFits
  <2>9. CASE fault = "select"
    <3>1. CaretBehind(u, c, fault) = Failed(u)
      BY <2>9 DEF CaretBehind
    <3> QED
      BY <2>4, <2>7, <3>1, OkAndFailed
  <2>10. CASE fault # "select"
    <3>1. PICK v : v = [u EXCEPT !.caret[c] = u.comp.from + u.comp.len]
      OBVIOUS
    <3>2. CaretBehind(u, c, fault) = Ok(v)
      BY <2>10, <3>1, Zenon DEF CaretBehind
    <3>3. Orderly(v, P) /\ v.caret[c] = u.comp.from + u.comp.len
      BY <2>7, <2>8, <3>1, BehindOrder
    <3>4. PICK k : k = u.comp.from + u.comp.len
      OBVIOUS
    <3>5. u \in TextType(N) /\ k \in Nat /\ v = [u EXCEPT !.caret[c] = k]
      BY <2>8, <3>1, <3>4, TextFields DEF Fits
    <3>6. v \in TextType(N) /\ v.comp = u.comp /\ v.retained = u.retained
      BY <3>5, OneCaretSet
    <3>7. v.comp.from + v.comp.len <= v.caret[c]
      BY <3>3, <3>4, <3>5, <3>6
    <3>8. v.retained.context = c
      BY <2>5, <2>8, <3>6
    <3>9. Rested(v)
      BY <3>3, <3>6, <3>7, <3>8, OthersRest
    <3> QED
      BY <2>4, <3>2, <3>3, <3>9, OkAndFailed
  <2> QED
    BY <2>9, <2>10
<1> QED
  BY <1>0, <1>1, <1>2, <1>3

(* The view of the result is written behind the commit, which is closed by  *)
(* now.                                                                     *)
LEMMA ViewOrder ==
  ASSUME NEW N, NEW P, NEW r, Ordered(r, N, P), Steady(r, N), NEW c \in Contexts, Of(r, c),
         r.ok => r.text.retained.written = TRUE /\ r.text.retained.needsEnd = FALSE, NEW fault
  PROVE  /\ Orderly(View(r, c, fault).text, P)
         /\ View(r, c, fault).ok => Rested(View(r, c, fault).text)
<1>0. Fits(r.text, N) /\ r.text \in TextType(N) /\ Orderly(r.text, P) /\ r.ok \in BOOLEAN
  BY DEF Ordered, Sound, Fits
<1>1. CASE ~r.ok
  BY <1>0, <1>1 DEF View
<1>2. CASE r.ok /\ r.text.retained.view # <<>>
  <2>1. PICK s : s = Start(r, c, fault)
    OBVIOUS
  <2>2. View(r, c, fault) = ShowView(s, c, fault)
    BY <1>2, <2>1, Zenon DEF View
  <2>3. ~Unwritten(r.text)
    BY <1>2 DEF Steady
  <2>4. Steady(s, N) /\ s.text.retained = r.text.retained /\ (s.ok => r.ok /\ Composing(s.text, c))
    BY <2>1, StartFits
  <2>5. Orderly(s.text, P)
    BY <1>2, <2>1, <2>3, StartOrder
  <2>6. Ordered(s, N, P) /\ Of(s, c) /\ At(s, c)
    BY <1>2, <2>4, <2>5 DEF Ordered, Steady, Of, At
  <2>7. s.ok => ~Unwritten(s.text) /\ s.text.retained.needsEnd = FALSE
    BY <1>2, <2>4 DEF Steady
  <2> QED
    BY <2>2, <2>6, <2>7, ShowViewOrder
<1>3. CASE r.ok /\ r.text.retained.view = <<>> /\ r.text.retained.commit = <<>>
  <2>1. PICK t : t = r.text
    OBVIOUS
  <2>2. PICK clear : clear = TRUE
    OBVIOUS
  <2>3. View(r, c, fault) = End(r, c, clear, fault)
    BY <1>3, <2>2 DEF View
  <2>4. /\ Fits(t, N) /\ t \in TextType(N) /\ Orderly(t, P) /\ ~Unwritten(t)
        /\ t.retained.context = c /\ Retaining(t) /\ ~EndDue(t)
    BY <1>0, <1>3, <2>1, NoContextAssumption DEF Steady, Of, Retaining, EndDue
  <2>5. CASE ~Composing(t, c)
    <3>1. View(r, c, fault) = r
      BY <2>1, <2>3, <2>5 DEF End
    <3>2. Rested(t)
      BY <2>4, <2>5, OthersRest
    <3> QED
      BY <1>0, <2>1, <3>1, <3>2
  <2>6. CASE Composing(t, c)
    <3>1. PICK none : none = <<>>
      OBVIOUS
    <3>2. PICK u : u = Shown(t, c, none)
      OBVIOUS
    <3>3. none \in Seq(N) /\ Rises(none, {}) /\ Range(none) \subseteq Ahead(t) /\ Len(none) = 0
      BY <3>1 DEF Rises, Range
    <3>4. ClearRange(t, c) = u
      BY <3>1, <3>2, ClearedIsShown
    <3>5. View(r, c, fault) = EndRange(u, fault)
      BY <1>3, <2>1, <2>2, <2>3, <2>6, <3>4, Zenon DEF End
    <3>6. Orderly(u, P)
      BY <2>4, <2>6, <3>2, <3>3, ShownOrder
    <3>7. Fits(u, N) /\ ~Unwritten(u) /\ Composing(u, c) /\ u.retained = t.retained
      <4>1. /\ Fits(Shown(t, c, none), N) /\ ~Unwritten(Shown(t, c, none))
            /\ Composing(Shown(t, c, none), c) /\ Shown(t, c, none).retained = t.retained
        <5>1. Fits(t, N) /\ ~Unwritten(t) /\ none \in Seq(N)
          BY <2>4, <3>3
        <5> QED
          BY <2>6, <5>1, ShownFits
      <4> QED
        BY <3>2, <4>1
    <3>8. CASE fault = "end"
      <4>1. EndRange(u, fault) = Failed(u)
        BY <3>8 DEF EndRange
      <4> QED
        BY <3>5, <3>6, <4>1, OkAndFailed
    <3>9. CASE fault # "end"
      <4>1. PICK v : v = [u EXCEPT !.comp = NoComposition]
        OBVIOUS
      <4>2. EndRange(u, fault) = Ok(v)
        BY <3>9, <4>1, Zenon DEF EndRange
      <4>3. /\ Fits(v, N) /\ v.comp = NoComposition /\ v.retained = u.retained
            /\ v.engine = u.engine /\ v.doc = u.doc /\ v.caret = u.caret
        BY <3>7, <4>1, CompDroppedFits
      <4>4. /\ v \in TextType(N) /\ u \in TextType(N) /\ v.comp.context = NoContext
            /\ v.retained.written = TRUE /\ v.retained.needsEnd = FALSE /\ v.retained.context = c
        BY <1>3, <2>1, <2>4, <3>7, <4>3, NothingTyped DEF Fits
      <4>5. u.comp.len = 0
        <5>1. t.comp.from + t.comp.len <= Len(t.doc[c]) /\ t.caret[c] <= Len(t.doc[c])
          BY <2>4, <2>6, NoContextAssumption DEF Fits, PlacedComposition, PlacedCarets, Composing
        <5>2. ShownAs(u, t, N, c, none)
          BY <2>4, <2>6, <3>2, <3>3, <5>1, ShownFields DEF Composing
        <5> QED
          BY <3>3, <5>2 DEF ShownAs
      <4>6. u.comp.from + u.comp.len <= u.caret[c]
        <5>1. u.comp.from <= u.caret[c] /\ u.comp.from \in Nat
          BY <3>6, <3>7, <4>4, TextFields DEF Orderly, CaretsFollow, CaretFollows
        <5> QED
          BY <4>5, <5>1
      <4>7. v.engine = <<>> /\ Ahead(v) = {} /\ ~EndDue(v) /\ ~Unwritten(v)
        <5>1. v.engine = <<>>
          BY <1>3, <2>1, <2>4, <3>6, <3>7, <4>3 DEF Orderly, ResultRises, Retaining
        <5> QED
          BY <1>3, <2>1, <3>7, <4>3, <4>4, <5>1 DEF Ahead, EndDue, Unwritten, Range
      <4>8. ResultRises(v)
        BY <3>6, <4>3 DEF Orderly, ResultRises, Retaining
      <4>9. Orderly(v, P)
        BY <3>6, <3>7, <4>3, <4>4, <4>6, <4>7, <4>8, EndedOrder
      <4>10. Rested(v)
        BY <4>4, NoContextAssumption DEF Rested, Composing
      <4> QED
        BY <3>5, <4>2, <4>9, <4>10, OkAndFailed
    <3> QED
      BY <3>8, <3>9
  <2> QED
    BY <2>5, <2>6
<1>4. CASE r.ok /\ r.text.retained.view = <<>> /\ r.text.retained.commit # <<>>
  <2>1. View(r, c, fault) = r
    BY <1>4 DEF View
  <2>2. r.text.retained.context = c /\ Retaining(r.text)
    BY <1>4, NoContextAssumption DEF Of, Retaining
  <2>3. ~Composing(r.text, c)
    BY <1>0, <1>4, <2>2 DEF Orderly, EndsInPlace
  <2>4. Rested(r.text)
    BY <1>0, <2>2, <2>3, OthersRest
  <2> QED
    BY <1>0, <2>1, <2>4
<1> QED
  BY <1>0, <1>1, <1>2, <1>3, <1>4

(* The result consumed: with every caret behind its composition. *)
LEMMA ReleasedOrder ==
  ASSUME NEW N, NEW P, NEW r, Ordered(r, N, P), r.ok => Rested(r.text),
         r.ok => r.text.retained.written = TRUE /\ r.text.retained.needsEnd = FALSE,
         r.ok => ~Unwritten(r.text)
  PROVE  Orderly(Released(r).text, P)
<1>0. Fits(r.text, N) /\ r.text \in TextType(N) /\ Orderly(r.text, P) /\ r.ok \in BOOLEAN
  BY DEF Ordered, Sound, Fits
<1>1. CASE ~r.ok
  BY <1>0, <1>1 DEF Released
<1>2. CASE r.ok
  <2>1. PICK t : t = r.text
    OBVIOUS
  <2>2. PICK u : u = [t EXCEPT !.retained = NoResult]
    OBVIOUS
  <2>3. Released(r) = Ok(u)
    BY <1>2, <2>1, <2>2, Zenon DEF Released
  <2>4. /\ t \in TextType(N) /\ Orderly(t, P) /\ Rested(t) /\ ~Unwritten(t)
        /\ t.retained.written = TRUE /\ t.retained.needsEnd = FALSE
    BY <1>0, <1>2, <2>1
  <2>5. /\ u \in TextType(N) /\ u.retained = NoResult
        /\ u.doc = t.doc /\ u.caret = t.caret /\ u.comp = t.comp /\ u.engine = t.engine
    BY <2>2, <2>4, NothingTyped, RetainedSet
  <2>6. ~Retaining(u)
    BY <2>5, NothingTyped DEF Retaining
  <2>7. /\ ~EndDue(t) /\ ~EndDue(u) /\ ~Unwritten(u)
        /\ Ahead(u) = Range(t.engine) /\ Ahead(t) = Range(t.engine)
    BY <2>4, <2>5, <2>6 DEF EndDue, Ahead, Unwritten
  <2>8. ASSUME NEW d \in Contexts
        PROVE  LineOf(u, d, P)
    <3>1. ~CaretDue(u, d) /\ ~CaretDue(t, d)
      BY <2>4, <2>7 DEF CaretDue
    <3>2. LineOf(t, d, P) /\ u.doc[d] = t.doc[d] /\ u.caret[d] = t.caret[d]
      BY <2>4, <2>5 DEF Orderly, Lines
    <3> QED
      BY <2>4, <2>5, <2>7, <3>1, <3>2, LineElse
  <2>9. Lines(u, P)
    BY <2>8 DEF Lines
  <2>10. ResultRises(u)
    BY <2>4, <2>5, <2>6 DEF Orderly, ResultRises
  <2>11. CaretsFollow(u)
    <3>1. ASSUME NEW d \in Contexts, Composing(u, d) PROVE CaretFollows(u, d)
      <4>1. Composing(t, d)
        BY <2>5, <3>1 DEF Composing
      <4>2. CaretFollows(t, d) /\ t.comp.from + t.comp.len <= t.caret[d]
        BY <2>4, <4>1 DEF Orderly, CaretsFollow, Rested
      <4>3. t.comp.from \in Nat /\ t.comp.len \in Nat /\ t.caret[d] \in Nat
        BY <2>4, TextFields DEF Carets
      <4>4. ~(t.caret[d] < t.comp.from + t.comp.len)
        BY <4>2, <4>3
      <4> QED
        BY <2>5, <4>2, <4>4 DEF CaretFollows
    <3> QED
      BY <3>1 DEF CaretsFollow
  <2>12. EndsInPlace(u)
    BY <2>6, <2>7 DEF EndsInPlace
  <2> QED
    BY <2>3, <2>9, <2>10, <2>11, <2>12, OkAndFailed DEF Orderly
<1> QED
  BY <1>0, <1>1, <1>2

(* A retry of the retained result goes on where the last attempt stopped.   *)
LEMMA RetryOrder ==
  ASSUME NEW N, NEW P, NEW r, Ordered(r, N, P), NEW c \in Contexts, NEW fault
  PROVE  Ordered(Retry(r, c, fault), N, P)
<1>0. r.ok \in BOOLEAN /\ Fits(r.text, N) /\ Orderly(r.text, P) /\ Sound(r, N)
  BY DEF Ordered, Sound
<1>1. CASE ~r.ok \/ ~Retaining(r.text)
  <2>1. Retry(r, c, fault) = r
    BY <1>1 DEF Retry
  <2> QED
    BY <2>1
<1>2. CASE r.ok /\ Retaining(r.text) /\ r.text.retained.context # c
  <2>1. Retry(r, c, fault) = Failed(r.text)
    BY <1>2 DEF Retry
  <2> QED
    BY <1>0, <1>2, <2>1, OkAndFailed DEF Ordered, Sound
<1>3. CASE r.ok /\ Retaining(r.text) /\ r.text.retained.context = c
  <2>1. PICK w : w = Write(r, c, fault)
    OBVIOUS
  <2>2. PICK s : s = SetCaret(w, c, fault)
    OBVIOUS
  <2>3. PICK e : e = EndCommitted(s, c, fault)
    OBVIOUS
  <2>4. PICK v : v = View(e, c, fault)
    OBVIOUS
  <2>5. Retry(r, c, fault) = Released(v)
    BY <1>3, <2>1, <2>2, <2>3, <2>4 DEF Retry
  <2>6. Of(r, c)
    BY <1>3 DEF Of
  <2>7. Sound(w, N) /\ Of(w, c) /\ (w.ok => w.text.retained.written = TRUE)
    BY <1>0, <2>1, <2>6, WriteFits
  <2>8. Ordered(w, N, P)
    <3>1. Orderly(w.text, P)
      BY <2>1, <2>6, WriteOrder
    <3> QED
      BY <2>7, <3>1 DEF Ordered
  <2>9. Steady(s, N) /\ (s.ok => w.ok)
    BY <2>2, <2>7, SetCaretFits
  <2>10. Ordered(s, N, P)
    <3>1. Orderly(s.text, P)
      BY <2>2, <2>7, <2>8, SetCaretOrder
    <3> QED
      BY <2>9, <3>1 DEF Ordered, Steady
  <2>11. CaretOnly(s.text, w.text)
    BY <2>2, <2>7, SetCaretEnds
  <2>12. Of(s, c) /\ (s.ok => s.text.retained.written = TRUE)
    BY <2>7, <2>9, <2>11 DEF Of, CaretOnly, SameResult
  <2>13. Steady(e, N) /\ (e.ok => s.ok) /\ e.text.retained.context = s.text.retained.context
    BY <2>3, <2>9, EndCommittedFits
  <2>14. /\ Orderly(e.text, P)
         /\ e.ok => e.text.retained.written = TRUE /\ e.text.retained.needsEnd = FALSE
    BY <2>3, <2>9, <2>10, <2>12, EndCommittedOrder
  <2>15. Ordered(e, N, P) /\ Of(e, c)
    BY <2>12, <2>13, <2>14 DEF Ordered, Steady, Of
  <2>16. Follows(v, e, N)
    BY <2>4, <2>13, ViewFits
  <2>17. Orderly(v.text, P) /\ (v.ok => Rested(v.text))
    BY <2>4, <2>13, <2>14, <2>15, ViewOrder
  <2>18. Ordered(v, N, P) /\ Steady(v, N)
    BY <2>16, <2>17 DEF Ordered, Follows, Steady
  <2>19. v.ok => v.text.retained.written = TRUE /\ v.text.retained.needsEnd = FALSE
    BY <2>14, <2>16 DEF Follows
  <2>20. Orderly(Released(v).text, P)
    BY <2>17, <2>18, <2>19, ReleasedOrder DEF Steady
  <2>21. Steady(Released(v), N)
    BY <2>18, ReleasedFits
  <2> QED
    BY <2>5, <2>20, <2>21 DEF Ordered, Steady
<1> QED
  BY <1>0, <1>1, <1>2, <1>3
-----------------------------------------------------------------------------
(* What the engine answers to a key that is newer than what it holds rises, *)
(* and what it commits is older than what it keeps.                         *)
LEMMA RisesAppend ==
  ASSUME NEW id \in Nat, NEW s \in Seq(1 .. id - 1), Rises(s, {})
  PROVE  Rises(Append(s, id), {})
<1>1. PICK r : r = Append(s, id)
  OBVIOUS
<1>2. /\ Len(s) \in Nat /\ DOMAIN s = 1 .. Len(s) /\ DOMAIN r = 1 .. Len(s) + 1
      /\ \A i \in 1 .. Len(s) : r[i] = s[i] /\ s[i] < id
      /\ r[Len(s) + 1] = id
  BY <1>1
<1>3. ASSUME NEW i \in DOMAIN r, NEW j \in DOMAIN r, i < j
      PROVE  r[i] < r[j]
  <2>1. i \in 1 .. Len(s)
    BY <1>2, <1>3
  <2>2. CASE j \in 1 .. Len(s)
    BY <1>2, <1>3, <2>1, <2>2 DEF Rises
  <2>3. CASE j = Len(s) + 1
    BY <1>2, <2>1, <2>3
  <2> QED
    BY <1>2, <2>2, <2>3
<1> QED
  BY <1>1, <1>3 DEF Rises

(* What a rising sequence has behind its first token is newer than that     *)
(* one.                                                                     *)
LEMMA RisesTail ==
  ASSUME NEW N, NEW s \in Seq(N), s # <<>>, Rises(s, {})
  PROVE  Rises(Tail(s), {}) /\ \A y \in Range(Tail(s)) : Head(s) < y
<1>1. PICK r : r = Tail(s)
  OBVIOUS
<1>2. /\ Len(s) \in Nat /\ Len(s) > 0 /\ DOMAIN s = 1 .. Len(s) /\ DOMAIN r = 1 .. Len(s) - 1
      /\ \A i \in 1 .. Len(s) - 1 : r[i] = s[i + 1]
      /\ Head(s) = s[1]
  BY <1>1
<1>3. ASSUME NEW i \in DOMAIN r, NEW j \in DOMAIN r, i < j
      PROVE  r[i] < r[j]
  <2>1. i + 1 \in DOMAIN s /\ j + 1 \in DOMAIN s /\ i + 1 < j + 1
    BY <1>2, <1>3
  <2>2. s[i + 1] < s[j + 1]
    BY <2>1 DEF Rises
  <2> QED
    BY <1>2, <2>2
<1>4. ASSUME NEW i \in DOMAIN r
      PROVE  Head(s) < r[i]
  <2>1. i + 1 \in DOMAIN s /\ 1 \in DOMAIN s /\ 1 < i + 1
    BY <1>2
  <2>2. s[1] < s[i + 1]
    BY <2>1 DEF Rises
  <2> QED
    BY <1>2, <2>2
<1> QED
  BY <1>1, <1>3, <1>4 DEF Rises, Range

(* One token, or none, rises.                                               *)
LEMMA RisesShort ==
  ASSUME NEW x
  PROVE  Rises(<<x>>, {}) /\ Rises(<<>>, {}) /\ Range(<<x>>) = {x} /\ Range(<<>>) = {}
<1>1. PICK s : s = <<x>>
  OBVIOUS
<1>2. DOMAIN s = {1} /\ s[1] = x
  BY <1>1
<1>3. Rises(s, {}) /\ Range(s) = {x}
  BY <1>2 DEF Rises, Range
<1>4. PICK e : e = <<>>
  OBVIOUS
<1>5. DOMAIN e = {}
  BY <1>4
<1>6. Rises(e, {}) /\ Range(e) = {}
  BY <1>5 DEF Rises, Range
<1> QED
  BY <1>1, <1>3, <1>4, <1>6

(* A result to be retained. *)
Rising(commit, view) ==
  /\ Rises(commit, {}) /\ Rises(view, {})
  /\ \A x \in Range(commit), y \in Range(view) : x < y

(* Every answer of the engine divides its tokens, and the new one, in       *)
(* order.                                                                   *)
LEMMA AnswerRises ==
  ASSUME NEW id \in Nat, NEW e \in Seq(1 .. id - 1), Rises(e, {}),
         NEW answer \in AllAnswers, answer = "shift" => e # <<>>
  PROVE  Rising(Answered(answer, e, id).commit, Answered(answer, e, id).view)
<1>1. PICK none : none = <<>>
  OBVIOUS
<1>2. Rises(none, {}) /\ Range(none) = {}
  BY <1>1, RisesShort
<1>3. CASE answer \in {"compose", "commit", "numpad"}
  <2>1. PICK w : w = Append(e, id)
    OBVIOUS
  <2>2. Rises(w, {})
    BY <2>1, RisesAppend
  <2>3. \/ Answered(answer, e, id).commit = none /\ Answered(answer, e, id).view = w
        \/ Answered(answer, e, id).commit = w /\ Answered(answer, e, id).view = none
    BY <1>1, <1>3, <2>1 DEF Answered, Declining
  <2> QED
    BY <1>2, <2>2, <2>3 DEF Rising
<1>4. CASE answer = "shift"
  <2>1. PICK s : s = Tail(e)
    OBVIOUS
  <2>2. PICK w : w = Append(s, id)
    OBVIOUS
  <2>3. PICK h : h = Head(e)
    OBVIOUS
  <2>4. Answered(answer, e, id).commit = <<h>> /\ Answered(answer, e, id).view = w
    BY <1>4, <2>1, <2>2, <2>3 DEF Answered, Declining
  <2>5. h \in 1 .. id - 1 /\ s \in Seq(1 .. id - 1) /\ Rises(s, {}) /\ \A y \in Range(s) : h < y
    BY <1>4, <2>1, <2>3, RangeOfTail, RisesTail
  <2>6. Rises(w, {})
    BY <2>2, <2>5, RisesAppend
  <2>7. Range(w) = Range(s) \cup {id}
    <3>1. PICK N : N = Nat
      OBVIOUS
    <3>2. s \in Seq(N) /\ id \in N
      BY <2>5, <3>1
    <3>3. Range(Append(s, id)) = Range(s) \cup {id}
      BY <3>2, RangeOfAppend
    <3> QED
      BY <2>2, <3>3
  <2>8. h < id
    BY <2>5
  <2>9. Rises(<<h>>, {}) /\ Range(<<h>>) = {h}
    BY RisesShort
  <2> QED
    BY <2>4, <2>5, <2>6, <2>7, <2>8, <2>9 DEF Rising
<1>5. CASE answer \in {"clear", "flush"} \cup Declining
  <2>1. \/ Answered(answer, e, id).commit = none /\ Answered(answer, e, id).view = none
        \/ Answered(answer, e, id).commit = e /\ Answered(answer, e, id).view = none
        \/ Answered(answer, e, id).commit = none /\ Answered(answer, e, id).view = e
    BY <1>1, <1>5 DEF Answered, Declining
  <2> QED
    BY <1>2, <2>1 DEF Rising
<1> QED
  BY <1>3, <1>4, <1>5 DEF AllAnswers, Declining

(* Newer tokens may come to lie ahead.                                      *)
LEMMA LineMore ==
  ASSUME NEW s, NEW P, NEW f, NEW lo, NEW hi, NEW ahead, Line(s, P, f, lo, hi, ahead), NEW more,
         \A i \in DOMAIN s : \A x \in more : s[i] < x,
         NEW later, later \subseteq ahead \cup more
  PROVE  Line(s, P, f, lo, hi, later)
  BY DEF Line

(* A new result: what is shown is as it was, and what is to come is what    *)
(* the engine held and the newest token.                                    *)
LEMMA RetainedOrder ==
  ASSUME NEW id \in Nat, NEW t, Fits(t, 1 .. id - 1), NEW P, Orderly(t, P), ~Retaining(t),
         NEW c \in Contexts, NEW N, NEW u \in TextType(N),
         u.doc = t.doc, u.caret = t.caret, u.comp = t.comp,
         u.retained.context = c, u.retained.written = FALSE, u.retained.caretSet = FALSE,
         u.retained.view = u.engine, Rising(u.retained.commit, u.engine),
         Range(u.retained.commit) \cup Range(u.engine) \subseteq Range(t.engine) \cup {id}
  PROVE  Orderly(u, P)
<1>1. t \in TextType(1 .. id - 1) /\ Retaining(u) /\ ~EndDue(u) /\ ~EndDue(t)
  BY NoContextAssumption DEF Fits, Retaining, EndDue
<1>2. Ahead(t) = Range(t.engine) /\ Ahead(u) \subseteq Ahead(t) \cup {id}
  BY DEF Ahead
<1>3. ASSUME NEW d \in Contexts
      PROVE  LineOf(u, d, P)
  <2>1. ~CaretDue(u, d) /\ ~CaretDue(t, d)
    BY DEF CaretDue, Unwritten
  <2>2. Frontier(u, d) = Frontier(t, d) /\ Low(u, d) = Low(t, d) /\ High(u, d) = High(t, d)
    BY <1>1, <2>1 DEF Frontier, Low, High, Open, Composing
  <2>3. PICK s : s = t.doc[d]
    OBVIOUS
  <2>4. s \in Seq(1 .. id - 1)
    BY <1>1, <2>3, TextFields DEF Docs
  <2>5. \A i \in DOMAIN s : \A x \in {id} : s[i] < x
    BY <2>4
  <2>6. Line(s, P, Frontier(u, d), Low(u, d), High(u, d), Ahead(t))
    BY <2>2, <2>3 DEF Orderly, Lines, LineOf
  <2>7. Line(s, P, Frontier(u, d), Low(u, d), High(u, d), Ahead(u))
    BY <1>2, <2>5, <2>6, LineMore
  <2> QED
    BY <2>3, <2>7 DEF LineOf
<1>4. Lines(u, P)
  BY <1>3 DEF Lines
<1>5. ResultRises(u)
  BY DEF ResultRises, Rising
<1>6. CaretsFollow(u)
  <2>1. ASSUME NEW d \in Contexts, Composing(u, d) PROVE CaretFollows(u, d)
    <3>1. CaretFollows(t, d)
      BY <2>1 DEF Orderly, CaretsFollow, Composing
    <3>2. ~(t.caret[d] < t.comp.from + t.comp.len) /\ t.comp.from <= t.caret[d]
      BY <3>1 DEF CaretFollows
    <3> QED
      BY <3>2 DEF CaretFollows
  <2> QED
    BY <2>1 DEF CaretsFollow
<1>7. EndsInPlace(u)
  BY <1>1 DEF EndsInPlace
<1> QED
  BY <1>4, <1>5, <1>6, <1>7 DEF Orderly
-----------------------------------------------------------------------------
(* Nothing in the engine and nothing retained: the composition, if there is *)
(* still one, is text of its field.                                         *)
LEMMA EmptiedOrder ==
  ASSUME NEW N, NEW t, Fits(t, N), NEW P, Orderly(t, P), ~Retaining(t),
         NEW u \in TextType(N), u.doc = t.doc, u.caret = t.caret, u.engine = <<>>,
         u.retained = t.retained, u.comp = NoComposition \/ u.comp = t.comp
  PROVE  Orderly(u, P)
<1>1. /\ t \in TextType(N) /\ ~Retaining(u) /\ ~EndDue(t) /\ ~EndDue(u)
      /\ ~Unwritten(t) /\ ~Unwritten(u)
  BY DEF Fits, Retaining, EndDue, Unwritten
<1>2. Ahead(u) = {}
  BY <1>1 DEF Ahead, Range
<1>3. ResultRises(u)
  BY <1>1 DEF ResultRises, Rises
<1>4. CASE u.comp = t.comp
  <2>1. ASSUME NEW d \in Contexts PROVE LineOf(u, d, P)
    <3>1. ~CaretDue(u, d) /\ ~CaretDue(t, d)
      BY <1>1 DEF CaretDue
    <3>2. LineOf(t, d, P) /\ u.doc[d] = t.doc[d] /\ u.caret[d] = t.caret[d]
      BY DEF Orderly, Lines
    <3> QED
      BY <1>1, <1>2, <1>4, <3>1, <3>2, LineElse
  <2>2. Lines(u, P)
    BY <2>1 DEF Lines
  <2>3. CaretsFollow(u)
    BY <1>1, <1>4 DEF Orderly, CaretsFollow, CaretFollows, Composing
  <2>4. EndsInPlace(u)
    BY <1>1 DEF EndsInPlace
  <2> QED
    BY <1>3, <2>2, <2>3, <2>4 DEF Orderly
<1>5. CASE u.comp = NoComposition /\ t.comp.context = NoContext
  <2>1. t.comp = NoComposition
    BY <1>5 DEF Fits, PlacedComposition
  <2> QED
    BY <1>4, <1>5, <2>1
<1>6. CASE u.comp = NoComposition /\ t.comp.context # NoContext
  <2>1. PICK c \in Contexts : Composing(t, c)
    BY <1>1, <1>6, TextFields DEF Fields, Composing
  <2>2. t.comp.from + t.comp.len <= t.caret[c]
    BY <1>1, <2>1, OthersRest DEF Rested
  <2>3. u.comp.context = NoContext
    BY <1>6, NothingTyped
  <2> QED
    BY <1>1, <1>2, <1>3, <2>1, <2>2, <2>3, EndedOrder
<1> QED
  BY <1>4, <1>5, <1>6

(* A composition that is given up leaves its text to the field.             *)
LEMMA AbandonOrder ==
  ASSUME NEW N, NEW t, Fits(t, N), NEW P, Orderly(t, P), ~Retaining(t)
  PROVE  Orderly(Abandon(t), P)
<1>1. PICK u : u = Abandon(t)
  OBVIOUS
<1>2. AbandonedAs(u, t, N)
  BY <1>1, AbandonFits
<1>3. /\ u \in TextType(N) /\ u.doc = t.doc /\ u.caret = t.caret /\ u.engine = <<>>
      /\ u.retained = t.retained /\ u.comp = NoComposition
  BY <1>2 DEF AbandonedAs, Fits
<1> QED
  BY <1>1, <1>3, EmptiedOrder

(* A key in another field ends the composition of the last one.             *)
LEMMA DetachedOrder ==
  ASSUME NEW N, NEW t, Fits(t, N), NEW P, Orderly(t, P), ~Retaining(t), NEW c
  PROVE  Orderly(Detached(t, c), P)
  BY AbandonOrder DEF Detached

(* The session is reset: nothing is ahead any more.                         *)
LEMMA ResetOrder ==
  ASSUME NEW N, NEW P, NEW r, Sound(r, N), Idles(r), NEW t, Fits(t, N), Orderly(t, P), r.ok,
         r.text.doc = t.doc, r.text.caret = t.caret, r.text.retained = t.retained,
         r.text.comp = NoComposition \/ r.text.comp = t.comp
  PROVE  Orderly(Reset(r).text, P)
<1>1. EngineAs(Reset(r).text, r.text, N, <<>>)
  BY ResetFits
<1>2. PICK u : u = Reset(r).text
  OBVIOUS
<1>3. /\ u \in TextType(N) /\ u.doc = t.doc /\ u.caret = t.caret /\ u.engine = <<>>
      /\ u.retained = t.retained /\ (u.comp = NoComposition \/ u.comp = t.comp)
  BY <1>1, <1>2 DEF EngineAs, Fits
<1>4. ~Retaining(t)
  BY DEF Idles, Retaining
<1> QED
  BY <1>2, <1>3, <1>4, EmptiedOrder

(* commitCompositionForModeSwitch *)
LEMMA CommitOrder ==
  ASSUME NEW N, NEW P, NEW r, Ordered(r, N, P), Idles(r), NEW c \in Contexts, NEW fault
  PROVE  Ordered(CommitComposition(r, c, fault), N, P)
<1>0. r.ok \in BOOLEAN /\ Fits(r.text, N) /\ Orderly(r.text, P) /\ Sound(r, N)
  BY DEF Ordered, Sound
<1>1. CommitAs(CommitComposition(r, c, fault), r, N)
  BY <1>0, CommitFits DEF Idles
<1>2. SUFFICES Orderly(CommitComposition(r, c, fault).text, P)
  BY <1>1 DEF CommitAs, Ordered
<1>3. CASE ~r.ok
  BY <1>0, <1>3 DEF CommitComposition
<1>4. CASE r.ok /\ ~Composing(r.text, c)
  <2>1. CommitComposition(r, c, fault) = Reset(r)
    BY <1>4 DEF CommitComposition
  <2>2. PICK t : t = r.text
    OBVIOUS
  <2> QED
    BY <1>0, <1>4, <2>1, <2>2, ResetOrder
<1>5. CASE r.ok /\ Composing(r.text, c) /\ fault \in {"write", "caret"}
  <2>1. CommitComposition(r, c, fault) = Failed(r.text)
    BY <1>5 DEF CommitComposition
  <2> QED
    BY <1>0, <2>1, OkAndFailed
<1>6. CASE r.ok /\ Composing(r.text, c) /\ fault \notin {"write", "caret"}
  <2>1. PICK t : t = r.text
    OBVIOUS
  <2>2. PICK u : u = [t EXCEPT !.caret[c] = t.comp.from + t.comp.len]
    OBVIOUS
  <2>3. CommitComposition(r, c, fault) = Reset(EndRange(u, fault))
    BY <1>6, <2>1, <2>2, Zenon DEF CommitComposition
  <2>4. Fits(t, N) /\ ~Unwritten(t) /\ Composing(t, c) /\ Orderly(t, P) /\ ~Retaining(t)
    BY <1>0, <1>6, <2>1 DEF Unwritten, Idles
  <2>5. /\ Fits(u, N) /\ u.doc = t.doc /\ u.comp = t.comp /\ u.engine = t.engine
        /\ u.retained = t.retained
    BY <2>2, <2>4, CaretBehindIs
  <2>6. Orderly(u, P)
    BY <2>2, <2>4, BehindOrder
  <2>7. CASE fault = "end"
    <3>1. PICK f : f = Failed(u)
      OBVIOUS
    <3>2. EndRange(u, fault) = f
      BY <2>7, <3>1 DEF EndRange
    <3>3. ~f.ok /\ f.text = u /\ Reset(f) = f
      BY <3>1, OkAndFailed DEF Reset
    <3> QED
      BY <2>3, <2>6, <3>2, <3>3
  <2>8. CASE fault # "end"
    <3>1. PICK v : v = [u EXCEPT !.comp = NoComposition]
      OBVIOUS
    <3>2. PICK e : e = Ok(v)
      OBVIOUS
    <3>3. EndRange(u, fault) = e
      BY <2>8, <3>1, <3>2, Zenon DEF EndRange
    <3>4. /\ Fits(v, N) /\ v.retained = u.retained /\ v.doc = u.doc /\ v.caret = u.caret
          /\ v.comp = NoComposition
      BY <2>5, <3>1, CompDroppedFits
    <3>5. e.ok /\ e.text = v /\ Sound(e, N)
      BY <3>2, <3>4, OkAndFailed, SoundResults
    <3>6. Idles(e)
      BY <2>4, <2>5, <3>4, <3>5 DEF Idles, Retaining
    <3>7. Orderly(Reset(e).text, P)
      BY <2>5, <2>6, <3>4, <3>5, <3>6, ResetOrder
    <3> QED
      BY <2>3, <3>3, <3>7
  <2> QED
    BY <2>7, <2>8
<1> QED
  BY <1>0, <1>3, <1>4, <1>5, <1>6
-----------------------------------------------------------------------------
(* The tokens up to an operation, and those before it: a key that was taken *)
(* may be in the text, one that was not is still to come into it.           *)
Newest(op) == 1 .. op.id
Older(op) == 1 .. op.id - 1
Taken(op) == op.kind = "key" /\ op.processed /\ op.handled
Seen(op) == IF Taken(op) THEN Newest(op) ELSE Older(op)

(* What the text may hold of a key, when the engine has taken it or not.    *)
LEMMA SeenTaken ==
  ASSUME NEW op \in OperationType, op.kind = "key", NEW h \in BOOLEAN
  PROVE  /\ Seen(Took(op, h)) = IF h THEN Newest(op) ELSE Older(op)
         /\ Took(op, h).id = op.id
<1>1. PICK x : x = Took(op, h)
  OBVIOUS
<1>2. x.id = op.id /\ x.kind = "key" /\ x.processed = TRUE /\ x.handled = h
  BY <1>1 DEF Took, OperationType
<1> QED
  BY <1>1, <1>2 DEF Seen, Taken, Newest, Older

(* The tokens before an operation are among those up to it.                 *)
LEMMA OlderIsNewer ==
  ASSUME NEW op, op.id \in Nat
  PROVE  Older(op) \subseteq Newest(op)
  BY DEF Older, Newest

(* A text of few tokens is one of many.                                     *)
LEMMA OrderedMore ==
  ASSUME NEW N, NEW M, N \subseteq M, NEW P, NEW r, Ordered(r, N, P)
  PROVE  Ordered(r, M, P)
  BY FitsMore DEF Ordered, Sound

(* The tokens of an answer are those of the engine and the one of its key.  *)
LEMMA AnswerFits ==
  ASSUME NEW id \in Nat \ {0}, NEW e \in Seq(1 .. id - 1), NEW answer \in AllAnswers,
         answer = "shift" => e # <<>>, NEW a, a = Answered(answer, e, id)
  PROVE  /\ a.handled \in BOOLEAN
         /\ AnsweredAs(a, e, id, IF a.handled THEN 1 .. id ELSE 1 .. id - 1)
<1>1. CASE answer \notin {"flush"} \cup Declining
  <2>1. a.handled = TRUE
    BY <1>1 DEF Answered, AllAnswers, Declining
  <2>2. e \in Seq(1 .. id) /\ id \in 1 .. id
    OBVIOUS
  <2>3. AnsweredAs(Answered(answer, e, id), e, id, 1 .. id)
    BY <2>2, EngineAnswers
  <2> QED
    BY <2>1, <2>3
<1>2. CASE answer \in {"flush"} \cup Declining
  <2>1. PICK none : none = <<>>
    OBVIOUS
  <2>2. /\ a.handled = FALSE
        /\ \/ a.engine = none /\ a.view = none /\ a.commit = e
           \/ a.engine = e /\ a.view = e /\ a.commit = none
    BY <1>2, <2>1 DEF Answered, Declining
  <2>3. none \in Seq(1 .. id - 1) /\ Range(none) = {}
    BY <2>1 DEF Range
  <2> QED
    BY <2>2, <2>3 DEF AnsweredAs
<1> QED
  BY <1>1, <1>2

(* A new result retained and tried at once. *)
LEMMA RetainOrder ==
  ASSUME NEW id \in Nat, NEW t, Fits(t, 1 .. id - 1), NEW P, Orderly(t, P), ~Retaining(t),
         NEW c \in Contexts, NEW N, 1 .. id - 1 \subseteq N,
         NEW e \in Seq(N), NEW commit \in Seq(N), Rising(commit, e),
         Range(commit) \cup Range(e) \subseteq Range(t.engine) \cup {id}, NEW fault
  PROVE  Ordered(Retry(Retained(WithEngine(t, e), c, commit, e), c, fault), N, P)
<1>1. Fits(t, N)
  BY FitsMore
<1>2. PICK v : v = WithEngine(t, e)
  OBVIOUS
<1>3. EngineAs(v, t, N, e)
  BY <1>1, <1>2, EngineFits
<1>4. PICK r : r = Retained(v, c, commit, e)
  OBVIOUS
<1>5. PICK u : u = r.text
  OBVIOUS
<1>6. r.ok = TRUE /\ RetainedAs(u, v, N, c, commit, e)
  <2>1. Fits(v, N)
    BY <1>3 DEF EngineAs
  <2> QED
    BY <1>4, <1>5, <2>1, RetainedFits
<1>7. u.retained.caretSet = FALSE
  <2>1. PICK result : result = [NoResult EXCEPT !.context = c, !.commit = commit, !.view = e]
    OBVIOUS
  <2>2. r = Ok([v EXCEPT !.retained = result])
    BY <1>4, <2>1, Zenon DEF Retained
  <2>3. u = [v EXCEPT !.retained = result]
    BY <1>5, <2>2, OkAndFailed
  <2>4. result = ResultOf(c, commit, e, FALSE, FALSE, FALSE, 0)
    BY <2>1 DEF NoResult, ResultOf
  <2>5. result \in ResultType(N) /\ result.caretSet = FALSE
    BY <2>4 DEF ResultOf, ResultType, Fields
  <2>6. v \in TextType(N)
    BY <1>3 DEF EngineAs, Fits
  <2>7. u.retained = result
    BY <2>3, <2>5, <2>6, RetainedSet
  <2> QED
    BY <2>5, <2>7
<1>8. /\ u \in TextType(N) /\ u.doc = t.doc /\ u.caret = t.caret /\ u.comp = t.comp
      /\ u.engine = e /\ u.retained.context = c /\ u.retained.written = FALSE
      /\ u.retained.view = e /\ u.retained.commit = commit
  BY <1>3, <1>6 DEF EngineAs, RetainedAs, Fits
<1>9. Orderly(u, P)
  <2>1. /\ u.retained.view = u.engine /\ Rising(u.retained.commit, u.engine)
        /\ Range(u.retained.commit) \cup Range(u.engine) \subseteq Range(t.engine) \cup {id}
    BY <1>8
  <2>2. /\ u \in TextType(N) /\ u.doc = t.doc /\ u.caret = t.caret /\ u.comp = t.comp
        /\ u.retained.context = c /\ u.retained.written = FALSE
    BY <1>8
  <2> QED
    BY <1>7, <2>1, <2>2, RetainedOrder
<1>10. Ordered(r, N, P)
  BY <1>5, <1>6, <1>9 DEF Ordered, Sound, RetainedAs
<1> QED
  BY <1>2, <1>4, <1>10, RetryOrder

(* A key as it leaves a step of its run. *)
KeyOrdered(run, op, P) == run.op.id = op.id /\ Ordered(run, Seen(run.op), P)

(* Which operation a run is for does not matter to its text.                *)
LEMMA RanOrdered ==
  ASSUME NEW x, NEW o, NEW N, NEW P, Ordered(x, N, P)
  PROVE  Ordered(Ran(x, o), N, P)
  BY RanIs DEF Ordered, Sound

(* The answer of the engine is retained and written.                        *)
LEMMA ConsumeOrder ==
  ASSUME NEW op \in OperationType, op.kind = "key", op.id # 0, op.context \in Contexts,
         NEW t, Fits(t, Older(op)), NEW P, Orderly(t, P), ~Retaining(t),
         NEW answer \in AllAnswers, answer = "shift" => t.engine # <<>>,
         NEW a, a = Answered(answer, t.engine, op.id), NEW fault
  PROVE  KeyOrdered(Consume(t, op, a, fault), op, P)
<1>1. PICK id : id = op.id
  OBVIOUS
<1>2. id \in Nat \ {0} /\ Older(op) = 1 .. id - 1 /\ Newest(op) = 1 .. id
  BY <1>1 DEF OperationType, Older, Newest
<1>3. PICK e : e = t.engine
  OBVIOUS
<1>4. e \in Seq(1 .. id - 1) /\ Rises(e, {}) /\ (answer = "shift" => e # <<>>)
  BY <1>2, <1>3, TextFields DEF Fits, Orderly, ResultRises
<1>5. a = Answered(answer, e, id)
  BY <1>1, <1>3
<1>6. PICK N : N = IF a.handled THEN 1 .. id ELSE 1 .. id - 1
  OBVIOUS
<1>7. a.handled \in BOOLEAN /\ AnsweredAs(a, e, id, N)
  BY <1>2, <1>4, <1>5, <1>6, AnswerFits
<1>8. Rising(a.commit, a.view)
  BY <1>2, <1>4, <1>5, AnswerRises
<1>9. PICK new : new = a.engine
  OBVIOUS
<1>10. PICK commit : commit = a.commit
  OBVIOUS
<1>11. /\ new \in Seq(N) /\ commit \in Seq(N) /\ a.view = new
       /\ Range(new) \cup Range(commit) \subseteq Range(e) \cup {id}
       /\ Rising(commit, new)
  BY <1>7, <1>8, <1>9, <1>10 DEF AnsweredAs
<1>12. PICK c : c = op.context
  OBVIOUS
<1>13. PICK x : x = Retry(Retained(WithEngine(t, new), c, commit, new), c, fault)
  OBVIOUS
<1>14. Consume(t, op, a, fault) = Ran(x, Took(op, a.handled))
  BY <1>9, <1>10, <1>11, <1>12, <1>13, Zenon DEF Consume, WithEngine
<1>15. Ordered(x, N, P)
  <2>1. 1 .. id - 1 \subseteq N /\ Fits(t, 1 .. id - 1) /\ id \in Nat /\ c \in Contexts
    BY <1>2, <1>6, <1>12
  <2>2. Range(commit) \cup Range(new) \subseteq Range(t.engine) \cup {id}
    BY <1>3, <1>11
  <2> QED
    BY <1>11, <1>13, <2>1, <2>2, RetainOrder
<1>16. Seen(Took(op, a.handled)) = N /\ Took(op, a.handled).id = op.id
  BY <1>2, <1>6, <1>7, SeenTaken
<1>17. Ordered(Ran(x, Took(op, a.handled)), N, P)
  BY <1>15, RanOrdered
<1> QED
  BY <1>14, <1>16, <1>17, RanIs DEF KeyOrdered

(* A key is offered to the engine once what is retained has been written.   *)
LEMMA AskOrder ==
  ASSUME NEW op \in OperationType, op.kind = "key", op.id # 0, op.context \in Contexts,
         ~op.processed, NEW P, NEW start, Ordered(start, Older(op), P), Idles(start),
         NEW answer \in AllAnswers,
         answer = "shift" /\ start.ok => start.text.engine # <<>>, NEW fault
  PROVE  KeyOrdered(AskEngine(start, op, answer, fault), op, P)
<1>0. /\ start.ok \in BOOLEAN /\ Fits(start.text, Older(op)) /\ Orderly(start.text, P)
      /\ Seen(op) = Older(op)
  BY DEF Ordered, Sound, Seen, Taken
<1>1. CASE ~start.ok
  <2>1. AskEngine(start, op, answer, fault) = Ran(start, op)
    BY <1>1, Zenon DEF AskEngine
  <2> QED
    BY <1>0, <2>1, RanIs, RanOrdered DEF KeyOrdered
<1>2. CASE start.ok /\ answer \in Declining
  <2>1. PICK clear : clear = FALSE
    OBVIOUS
  <2>2. PICK t : t = start.text
    OBVIOUS
  <2>3. PICK e : e = End(start, op.context, clear, fault)
    OBVIOUS
  <2>4. PICK u : u = IF t.engine = <<>> THEN e.text ELSE t
    OBVIOUS
  <2>5. AskEngine(start, op, answer, fault) = Ran(Ok(u), op)
    BY <1>2, <2>1, <2>2, <2>3, <2>4, Zenon DEF AskEngine
  <2>6. Fits(t, Older(op)) /\ Orderly(t, P) /\ ~Retaining(t)
    BY <1>0, <1>2, <2>2 DEF Idles
  <2>7. e = EndRange(t, fault) \/ e.text = t
    BY <1>2, <2>1, <2>2, <2>3, Zenon DEF End
  <2>8. Fits(u, Older(op)) /\ Orderly(u, P)
    <3>1. CASE u = t
      BY <2>6, <3>1
    <3>2. CASE u # t
      <4>1. t.engine = <<>> /\ u = e.text
        BY <2>4, <3>2
      <4>2. e = EndRange(t, fault) /\ fault # "end"
        BY <2>7, <3>2, <4>1, OkAndFailed DEF EndRange
      <4>3. PICK v : v = [t EXCEPT !.comp = NoComposition]
        OBVIOUS
      <4>4. e = Ok(v)
        BY <4>2, <4>3, Zenon DEF EndRange
      <4>5. u = v
        BY <4>1, <4>4, OkAndFailed
      <4>6. /\ Fits(v, Older(op)) /\ v.comp = NoComposition /\ v.retained = t.retained
            /\ v.engine = t.engine /\ v.doc = t.doc /\ v.caret = t.caret
        BY <2>6, <4>3, CompDroppedFits
      <4>7. v \in TextType(Older(op))
        BY <4>6 DEF Fits
      <4>8. Orderly(v, P)
        BY <2>6, <4>1, <4>6, <4>7, EmptiedOrder
      <4> QED
        BY <4>5, <4>6, <4>8
    <3> QED
      BY <3>1, <3>2
  <2>9. Ordered(Ok(u), Older(op), P)
    BY <2>8, OkAndFailed DEF Ordered, Sound
  <2> QED
    BY <1>0, <2>5, <2>9, RanIs, RanOrdered DEF KeyOrdered
<1>3. CASE start.ok /\ answer \notin Declining
  <2>1. PICK t : t = start.text
    OBVIOUS
  <2>2. PICK a : a = Answered(answer, t.engine, op.id)
    OBVIOUS
  <2>3. AskEngine(start, op, answer, fault) = Consume(t, op, a, fault)
    BY <1>3, <2>1, <2>2, Zenon DEF AskEngine
  <2>4. /\ Fits(t, Older(op)) /\ Orderly(t, P) /\ ~Retaining(t)
        /\ (answer = "shift" => t.engine # <<>>)
    BY <1>0, <1>3, <2>1 DEF Idles
  <2> QED
    BY <2>2, <2>3, <2>4, ConsumeOrder
<1> QED
  BY <1>0, <1>1, <1>2, <1>3

(* A character of its own: typed in English, or inserted. *)
LEMMA TokenOrder ==
  ASSUME NEW op \in OperationType, op.id # 0, op.context \in Contexts,
         NEW t, Fits(t, Older(op)), NEW P, Orderly(t, P), ~Retaining(t), t.engine = <<>>, NEW fault
  PROVE  Ordered(Retry(Retained(t, op.context, <<op.id>>, <<>>), op.context, fault), Newest(op), P)
<1>1. PICK id : id = op.id
  OBVIOUS
<1>2. id \in Nat \ {0} /\ Older(op) = 1 .. id - 1 /\ Newest(op) = 1 .. id
  BY <1>1 DEF OperationType, Older, Newest
<1>3. PICK N : N = 1 .. id
  OBVIOUS
<1>4. PICK e : e = <<>>
  OBVIOUS
<1>5. PICK commit : commit = <<id>>
  OBVIOUS
<1>6. e \in Seq(N) /\ Rises(e, {}) /\ Range(e) = {}
  <2>1. e \in Seq(N)
    BY <1>4
  <2>2. Rises(<<>>, {}) /\ Range(<<>>) = {}
    BY RisesShort
  <2> QED
    BY <1>4, <2>1, <2>2
<1>7. commit \in Seq(N) /\ Range(commit) = {id} /\ Rises(commit, {})
  <2>1. id \in N
    BY <1>2, <1>3
  <2> QED
    BY <1>5, <2>1, RisesShort, SingleToken
<1>8. WithEngine(t, e) = t
  <2>1. t \in TextType(Older(op))
    BY DEF Fits
  <2>2. t = TextOf(t.doc, t.caret, t.comp, t.engine, t.retained)
    BY <2>1, TextIs
  <2>3. PICK u : u = [t EXCEPT !.engine = e]
    OBVIOUS
  <2>4. e \in Seq(Older(op))
    BY <1>4
  <2>5. /\ u \in TextType(Older(op)) /\ u.engine = e /\ u.doc = t.doc /\ u.caret = t.caret
        /\ u.comp = t.comp /\ u.retained = t.retained
    BY <2>1, <2>3, <2>4, EngineSet
  <2>6. u = TextOf(u.doc, u.caret, u.comp, u.engine, u.retained)
    BY <2>5, TextIs
  <2>7. u = t
    BY <1>4, <2>2, <2>5, <2>6
  <2> QED
    BY <2>3, <2>7 DEF WithEngine
<1>9. Rising(commit, e)
  BY <1>6, <1>7 DEF Rising
<1>10. PICK c : c = op.context
  OBVIOUS
<1>11. 1 .. id - 1 \subseteq N /\ Fits(t, 1 .. id - 1) /\ id \in Nat /\ c \in Contexts
  BY <1>2, <1>3, <1>10
<1>12. Range(commit) \cup Range(e) \subseteq Range(t.engine) \cup {id}
  BY <1>6, <1>7
<1>13. Ordered(Retry(Retained(WithEngine(t, e), c, commit, e), c, fault), N, P)
  BY <1>6, <1>7, <1>9, <1>11, <1>12, RetainOrder
<1> QED
  BY <1>1, <1>2, <1>3, <1>4, <1>5, <1>8, <1>10, <1>13

(* A key the engine never sees is typed behind what the field holds.        *)
LEMMA TypeKeyOrder ==
  ASSUME NEW op \in OperationType, op.kind = "key", op.id # 0, op.context \in Contexts,
         NEW t, Fits(t, Older(op)), NEW P, Orderly(t, P), ~Retaining(t), t.engine = <<>>, NEW fault
  PROVE  KeyOrdered(TypeKey(t, op, fault), op, P)
<1>1. PICK x : x = Retry(Retained(t, op.context, <<op.id>>, <<>>), op.context, fault)
  OBVIOUS
<1>2. PICK o : o = Took(op, TRUE)
  OBVIOUS
<1>3. TypeKey(t, op, fault) = Ran(x, o)
  BY <1>1, <1>2, Zenon DEF TypeKey
<1>4. Ordered(x, Newest(op), P)
  BY <1>1, TokenOrder
<1>5. Seen(o) = Newest(op) /\ o.id = op.id
  BY <1>2, SeenTaken
<1>6. Ordered(Ran(x, o), Newest(op), P)
  BY <1>4, RanOrdered
<1> QED
  BY <1>3, <1>5, <1>6, RanIs DEF KeyOrdered

(* A key is processed: in its field, in either mode, with any answer.       *)
LEMMA ProcessOrder ==
  ASSUME NEW op \in OperationType, op.kind = "key", op.id # 0, op.context \in Contexts,
         NEW P, NEW r, Ordered(r, Seen(op), P), Idles(r), NEW mode \in BOOLEAN,
         mode \/ r.text.engine = <<>>, NEW answer \in AllAnswers,
         answer = "shift" => Detached(r.text, op.context).engine # <<>>, NEW fault
  PROVE  KeyOrdered(ProcessKey(r, op, mode, answer, fault), op, P)
<1>0. r.ok \in BOOLEAN /\ Fits(r.text, Seen(op)) /\ Orderly(r.text, P)
  BY DEF Ordered, Sound
<1>1. CASE ~r.ok \/ op.processed
  <2>1. ProcessKey(r, op, mode, answer, fault) = Ran(r, op)
    BY <1>1 DEF ProcessKey
  <2> QED
    BY <2>1, RanIs, RanOrdered DEF KeyOrdered
<1>2. CASE ~(~r.ok \/ op.processed)
  <2>1. PICK t : t = r.text
    OBVIOUS
  <2>2. PICK c : c = op.context
    OBVIOUS
  <2>3. PICK d : d = Detached(t, c)
    OBVIOUS
  <2>4. Seen(op) = Older(op)
    BY <1>2 DEF Seen, Taken
  <2>5. Fits(t, Older(op)) /\ Orderly(t, P) /\ ~Retaining(t) /\ c \in Contexts
    BY <1>0, <1>2, <2>1, <2>2, <2>4 DEF Idles
  <2>6. DetachedAs(d, t, Older(op), c)
    BY <2>3, <2>5, DetachedFits
  <2>7. Orderly(d, P)
    BY <2>3, <2>5, DetachedOrder
  <2>8. Fits(d, Older(op)) /\ ~Retaining(d) /\ (t.engine = <<>> => d.engine = <<>>)
    BY <2>5, <2>6 DEF DetachedAs, Retaining
  <2>9. CASE mode
    <3>1. PICK s : s = Ok(d)
      OBVIOUS
    <3>2. PICK start : start = Begun(d, c, answer, fault)
      OBVIOUS
    <3>11. PICK g : g = Start(s, c, fault)
      OBVIOUS
    <3>12. start = s \/ start = g
      BY <3>1, <3>2, <3>11, Zenon DEF Begun
    <3>3. ProcessKey(r, op, mode, answer, fault) = AskEngine(start, op, answer, fault)
      BY <1>2, <2>1, <2>2, <2>3, <2>9, <3>2 DEF ProcessKey
    <3>4. /\ s.text = d /\ Ordered(s, Older(op), P) /\ Steady(s, Older(op))
          /\ ~Unwritten(s.text) /\ ~Retaining(s.text)
      BY <2>7, <2>8, <3>1, OkAndFailed, SoundResults DEF Ordered, Unwritten
    <3>5. Steady(g, Older(op)) /\ g.text.retained = s.text.retained
      BY <2>5, <3>4, <3>11, StartFits
    <3>6. Orderly(g.text, P)
      BY <2>5, <3>4, <3>11, StartOrder
    <3>7. Ordered(start, Older(op), P) /\ Idles(start)
      BY <3>4, <3>5, <3>6, <3>12 DEF Ordered, Steady, Idles, Retaining
    <3>13. g.text.engine = d.engine
      BY <2>5, <3>4, <3>11, StartIs DEF StartedAs, Steady
    <3>8. start.text.engine = d.engine
      BY <3>4, <3>12, <3>13
    <3>9. answer = "shift" /\ start.ok => start.text.engine # <<>>
      BY <2>1, <2>2, <2>3, <3>8
    <3>10. ~op.processed
      BY <1>2
    <3> QED
      BY <3>3, <3>7, <3>9, <3>10, AskOrder
  <2>10. CASE ~mode
    <3>1. ProcessKey(r, op, mode, answer, fault) = TypeKey(d, op, fault)
      BY <1>2, <2>1, <2>2, <2>3, <2>10 DEF ProcessKey
    <3>2. d.engine = <<>>
      BY <2>1, <2>8, <2>10
    <3> QED
      BY <2>7, <2>8, <3>1, <3>2, TypeKeyOrder
  <2> QED
    BY <2>9, <2>10
<1> QED
  BY <1>1, <1>2

(* A symbol is inserted behind the text, when the engine holds none.        *)
LEMMA InsertOrder ==
  ASSUME NEW op \in OperationType, op.id # 0, op.context \in Contexts,
         NEW P, NEW r, Ordered(r, Older(op), P), Idles(r), Emptied(r), NEW fault
  PROVE  /\ ~r.ok => Insert(r, op, fault) = r
         /\ Ordered(Insert(r, op, fault), Newest(op), P)
<1>1. CASE ~r.ok
  <2>1. Insert(r, op, fault) = r
    BY <1>1 DEF Insert
  <2>2. Older(op) \subseteq Newest(op)
    BY OlderIsNewer DEF OperationType
  <2> QED
    BY <2>1, <2>2, OrderedMore
<1>2. CASE r.ok
  <2>1. Insert(r, op, fault)
          = Retry(Retained(r.text, op.context, <<op.id>>, <<>>), op.context, fault)
    BY <1>2 DEF Insert
  <2>2. Fits(r.text, Older(op)) /\ Orderly(r.text, P) /\ ~Retaining(r.text) /\ r.text.engine = <<>>
    BY <1>2 DEF Ordered, Sound, Idles, Emptied
  <2>3. PICK t : t = r.text
    OBVIOUS
  <2> QED
    BY <1>2, <2>1, <2>2, <2>3, TokenOrder
<1> QED
  BY <1>1, <1>2

(* A symbol is inserted once the composition has been committed.            *)
LEMMA CommitInsertOrder ==
  ASSUME NEW op \in OperationType, op.id # 0, op.context \in Contexts,
         NEW P, NEW r, Ordered(r, Older(op), P), Idles(r), NEW fault,
         NEW m, m = CommitComposition(r, op.context, fault)
  PROVE  /\ Ordered(m, Older(op), P) /\ (~m.ok => Insert(m, op, fault) = m)
         /\ Ordered(Insert(m, op, fault), Newest(op), P)
<1>1. Ordered(m, Older(op), P)
  BY CommitOrder
<1>2. Sound(r, Older(op)) /\ op.context \in Contexts
  BY DEF Ordered
<1>3. CommitAs(m, r, Older(op))
  BY <1>2, CommitFits DEF Idles
<1>4. Idles(m) /\ Emptied(m)
  BY <1>3 DEF CommitAs, Idles, Emptied, Retaining
<1> QED
  BY <1>1, <1>4, InsertOrder

(* A key is run to its end, or keeps what it has done for the next attempt. *)
LEMMA RunKeyOrder ==
  ASSUME NEW op \in OperationType, op.kind = "key", op.id # 0, op.context \in Contexts,
         NEW P, NEW run, run.op \in OperationType, run.op.kind = "key",
         run.op.context = op.context, KeyOrdered(run, op, P), Idles(run), NEW fault
  PROVE  KeyOrdered(RunKey(run, fault), op, P)
<1>1. CASE ~run.ok \/ run.op.handled \/ ~(run.op.ordered \/ run.op.accepted)
  BY <1>1 DEF RunKey
<1>2. CASE ~(~run.ok \/ run.op.handled \/ ~(run.op.ordered \/ run.op.accepted))
  <2>1. PICK o : o = run.op
    OBVIOUS
  <2>2. PICK r : r = Ok(run.text)
    OBVIOUS
  <2>3. PICK m : m = CommitComposition(r, o.context, fault)
    OBVIOUS
  <2>4. PICK x : x = Insert(m, o, fault)
    OBVIOUS
  <2>5. PICK after : after = IF m.ok THEN Took(o, TRUE) ELSE o
    OBVIOUS
  <2>6. RunKey(run, fault) = Ran(x, after)
    <3>1. RunKey(run, fault) = InsertKey(m, o, fault)
      BY <1>2, <2>1, <2>2, <2>3 DEF RunKey
    <3> QED
      BY <2>4, <2>5, <3>1, Zenon DEF InsertKey
  <2>7. /\ o \in OperationType /\ o.kind = "key" /\ o.id # 0 /\ o.context \in Contexts
        /\ o.id = op.id /\ Seen(o) = Older(o)
    BY <1>2, <2>1 DEF KeyOrdered, Seen, Taken
  <2>8. Ordered(run, Older(o), P)
    BY <2>1, <2>7 DEF KeyOrdered
  <2>9. Ordered(r, Older(o), P) /\ Idles(r)
    BY <1>2, <2>2, <2>8, OkAndFailed DEF Ordered, Sound, Idles
  <2>10. /\ Ordered(m, Older(o), P) /\ (~m.ok => x = m)
         /\ Ordered(x, Newest(o), P)
    BY <2>3, <2>4, <2>7, <2>9, CommitInsertOrder
  <2>11. CASE m.ok
    <3>1. Seen(after) = Newest(o) /\ after.id = op.id
      BY <2>5, <2>7, <2>11, SeenTaken
    <3>2. Ordered(Ran(x, after), Newest(o), P)
      BY <2>10, RanOrdered
    <3> QED
      BY <2>6, <3>1, <3>2, RanIs DEF KeyOrdered
  <2>12. CASE ~m.ok
    <3>1. after = o /\ x = m
      BY <2>5, <2>10, <2>12
    <3>2. Ordered(Ran(x, o), Older(o), P)
      BY <2>10, <3>1, RanOrdered
    <3> QED
      BY <2>6, <2>7, <3>1, <3>2, RanIs DEF KeyOrdered
  <2> QED
    BY <2>11, <2>12
<1> QED
  BY <1>1, <1>2

(* What a run promises of what it leaves in its text. *)
RunOrders(run, op, P) ==
  /\ Ordered(run, Newest(op), P)
  /\ op.kind = "key" => run.op \in OperationType /\ run.op.kind = "key" /\ KeyOrdered(run, op, P)

(* A key has added no token newer than its own.                             *)
LEMMA KeyInOrder ==
  ASSUME NEW run, NEW op \in OperationType, op.id # 0, NEW P, KeyOrdered(run, op, P)
  PROVE  Ordered(run, Newest(op), P)
<1>1. Newest(run.op) = Newest(op) /\ Older(run.op) = Older(op)
  BY DEF KeyOrdered, Newest, Older
<1>2. Older(op) \subseteq Newest(op) /\ Newest(op) \subseteq Newest(op)
  BY OlderIsNewer DEF OperationType
<1>3. Seen(run.op) \subseteq Newest(op)
  BY <1>1, <1>2 DEF Seen
<1> QED
  BY <1>3, OrderedMore DEF KeyOrdered

(* An operation of any kind is run.                                         *)
LEMMA RunOperationOrder ==
  ASSUME NEW op \in OperationType, op.id # 0, op.context \in Contexts,
         op.kind \in {"key", "symbol", "mode"},
         NEW P, NEW r, Ordered(r, Seen(op), P), Idles(r), NEW mode \in BOOLEAN,
         mode \/ r.text.engine = <<>>, NEW answer \in Answers,
         answer = "shift" => Detached(r.text, op.context).engine # <<>>, NEW fault
  PROVE  RunOrders(RunOperation(r, op, mode, answer, fault), op, P)
<1>0. answer \in AllAnswers
  BY AnswersAssumption
<1>1. CASE op.kind = "key"
  <2>1. PICK run : run = ProcessKey(r, op, mode, answer, fault)
    OBVIOUS
  <2>2. PICK x : x = RunKey(run, fault)
    OBVIOUS
  <2>3. RunOperation(r, op, mode, answer, fault) = x
    BY <1>1, <2>1, <2>2 DEF RunOperation
  <2>4. KeyOrdered(run, op, P)
    BY <1>0, <1>1, <2>1, ProcessOrder
  <2>5. RanFrom(op, run.op)
    BY <2>1, EngineLeavesOperation
  <2>6. run.op.id = op.id /\ run.op.context = op.context /\ run.op.kind = op.kind
        /\ run.op \in OperationType
    BY <2>5, RunKeepsIdentity DEF RanFrom
  <2>7. Idles(run)
    <3>1. PICK N : N = Newest(op)
      OBVIOUS
    <3>2. Sound(r, N) /\ op.id \in N
      <4>1. Older(op) \subseteq N /\ N \subseteq N /\ op.id \in N
        BY <3>1, OlderIsNewer DEF OperationType, Newest
      <4>2. Seen(op) \subseteq N
        BY <3>1, <4>1 DEF Seen
      <4>3. Ordered(r, N, P)
        BY <4>2, OrderedMore
      <4> QED
        BY <4>1, <4>3 DEF Ordered
    <3>3. PICK home : home = <<>>
      OBVIOUS
    <3>4. KeyServed(ProcessKey(r, op, mode, answer, fault), r.text, N, home, op.id, op.context, mode)
      BY <1>0, <3>2, ProcessServes
    <3> QED
      BY <2>1, <3>4 DEF KeyServed
  <2>8. KeyOrdered(x, op, P)
    BY <1>1, <2>2, <2>4, <2>6, <2>7, RunKeyOrder
  <2>9. RanFrom(op, x.op)
    <3>1. \A m, o : Ran(m, o).op = o
      BY DEF Ran
    <3>2. \A commit : RanFrom(op, InsertKey(commit, run.op, fault).op)
      BY <2>5, <3>1, TakenTwice DEF InsertKey
    <3> QED
      BY <2>2, <2>5, <3>2 DEF RunKey
  <2>10. x.op \in OperationType /\ x.op.kind = op.kind
    BY <2>9, RunKeepsIdentity DEF RanFrom
  <2> QED
    BY <1>1, <2>3, <2>8, <2>10, KeyInOrder DEF RunOrders
<1>2. CASE op.kind = "symbol"
  <2>1. PICK m : m = CommitComposition(r, op.context, fault)
    OBVIOUS
  <2>2. PICK y : y = IF answer = "pass" THEN r ELSE Insert(m, op, fault)
    OBVIOUS
  <2>3. RunOperation(r, op, mode, answer, fault) = Ran(y, op)
    BY <1>2, <2>1, <2>2 DEF RunOperation, RunSymbol
  <2>4. Ordered(r, Older(op), P)
    BY <1>2 DEF Seen, Taken
  <2>5. Ordered(Insert(m, op, fault), Newest(op), P)
    BY <2>1, <2>4, CommitInsertOrder
  <2>6. Ordered(r, Newest(op), P)
    BY <2>4, OrderedMore, OlderIsNewer DEF OperationType
  <2>7. Ordered(y, Newest(op), P)
    BY <2>2, <2>5, <2>6
  <2> QED
    BY <1>2, <2>3, <2>7, RanOrdered DEF RunOrders
<1>3. CASE op.kind = "mode"
  <2>1. PICK m : m = CommitComposition(r, op.context, fault)
    OBVIOUS
  <2>2. PICK y : y = IF m.ok /\ fault = "publish" THEN Failed(m.text) ELSE m
    OBVIOUS
  <2>3. RunOperation(r, op, mode, answer, fault) = Ran(y, op)
    BY <1>3, <2>1, <2>2 DEF RunOperation, RunMode
  <2>4. Ordered(r, Older(op), P)
    BY <1>3 DEF Seen, Taken
  <2>5. Ordered(m, Older(op), P)
    BY <2>1, <2>4, CommitOrder
  <2>6. Ordered(m, Newest(op), P)
    BY <2>5, OrderedMore, OlderIsNewer DEF OperationType
  <2>7. Ordered(y, Newest(op), P)
    BY <2>2, <2>6, OkAndFailed DEF Ordered, Sound
  <2> QED
    BY <1>3, <2>3, <2>7, RanOrdered DEF RunOrders
<1> QED
  BY <1>1, <1>2, <1>3

(* runInput *)
LEMMA RunInputOrder ==
  ASSUME NEW op \in OperationType, op.id # 0, op.context \in Contexts,
         op.kind \in {"key", "symbol", "mode"},
         NEW P, NEW t, Fits(t, Seen(op)), Orderly(t, P), NEW mode \in BOOLEAN,
         mode \/ t.engine = <<>>, NEW answer \in Answerable(t, op.context), NEW fault
  PROVE  RunOrders(RunInput(t, op, mode, answer, fault), op, P)
<1>0. PICK N : N = Seen(op)
  OBVIOUS
<1>1. PICK c : c = op.context
  OBVIOUS
<1>2. PICK s : s = Ok(t)
  OBVIOUS
<1>3. PICK r : r = Retry(s, c, fault)
  OBVIOUS
<1>4. RunInput(t, op, mode, answer, fault) = RunOperation(r, op, mode, answer, fault)
  BY <1>1, <1>2, <1>3, NoContextAssumption DEF RunInput
<1>5. s.text = t /\ Sound(s, N) /\ c \in Contexts /\ Ordered(s, N, P)
  BY <1>0, <1>1, <1>2, OkAndFailed, SoundResults DEF Ordered
<1>6. Handles(Retry(s, c, fault), s.text, N, <<>>) /\ Idles(Retry(s, c, fault))
  BY <1>5, RetryHandles
<1>7. Keeps(Retry(s, c, fault), s, c)
  BY <1>5, RetryKeeps
<1>8. r.text.engine = t.engine /\ r.text.comp.context \in {t.comp.context, c, NoContext}
  BY <1>3, <1>5, <1>7 DEF Keeps, KeepsText
<1>9. answer \in Answers /\ (answer = "shift" => Detached(t, c).engine # <<>>)
  BY <1>1 DEF Answerable
<1>10. answer = "shift" => Detached(r.text, c).engine # <<>>
  <2>1. DetachedAs(Detached(t, c), t, N, c)
    BY <1>0, <1>5, DetachedFits
  <2>2. Fits(r.text, N)
    BY <1>3, <1>6 DEF Handles, Sound
  <2>3. DetachedAs(Detached(r.text, c), r.text, N, c)
    BY <1>5, <2>2, DetachedFits
  <2>4. CASE t.comp.context \in {NoContext, c}
    <3>1. Detached(r.text, c) = r.text /\ Detached(t, c) = t
      BY <1>8, <2>1, <2>3, <2>4 DEF DetachedAs
    <3> QED
      BY <1>8, <1>9, <3>1
  <2>5. CASE t.comp.context \notin {NoContext, c}
    BY <1>9, <2>1, <2>5 DEF DetachedAs
  <2> QED
    BY <2>4, <2>5
<1>11. Ordered(r, N, P)
  BY <1>3, <1>5, RetryOrder
<1>12. Idles(r)
  BY <1>3, <1>6
<1>13. mode \/ r.text.engine = <<>>
  BY <1>8
<1>14. answer = "shift" => Detached(r.text, op.context).engine # <<>>
  BY <1>1, <1>10
<1>15. RunOrders(RunOperation(r, op, mode, answer, fault), op, P)
  BY <1>0, <1>9, <1>11, <1>12, <1>13, <1>14, RunOperationOrder
<1> QED
  BY <1>4, <1>15
-----------------------------------------------------------------------------
(* cancelInput: the carets go to the ends of the fields. *)
LEMMA CancelledOrder ==
  ASSUME NEW N, NEW t, Fits(t, N), NEW P, Orderly(t, P)
  PROVE  Orderly(Cancelled(t), P)
<1>1. PICK u : u = Cancelled(t)
  OBVIOUS
<1>2. PICK caret : caret = [c \in Contexts |-> Len(t.doc[c])]
  OBVIOUS
<1>3. CancelledAs(u, t, N)
  BY <1>1, CancelledFits
<1>4. t \in TextType(N) /\ u \in TextType(N) /\ u.doc = t.doc /\ u.comp = t.comp
      /\ u.engine = t.engine /\ ~Retaining(u)
  BY <1>3 DEF Fits, CancelledAs
<1>5. u.caret = caret
  <2>1. PICK v : v = [t EXCEPT !.retained = NoResult]
    OBVIOUS
  <2>2. u = [v EXCEPT !.caret = caret]
    BY <1>1, <1>2, <2>1, Zenon DEF Cancelled
  <2>3. NoResult \in ResultType(N)
    BY NothingTyped
  <2>4. v \in TextType(N)
    BY <1>4, <2>1, <2>3, RetainedSet
  <2>5. \A c \in Contexts : Len(t.doc[c]) \in Nat
    BY <1>4, TextFields DEF Docs
  <2>6. caret \in Carets
    BY <1>2, <2>5 DEF Carets
  <2> QED
    BY <2>2, <2>4, <2>6, CaretsSet
<1>6. ~EndDue(u) /\ Ahead(u) = Range(t.engine) /\ Ahead(u) \subseteq Ahead(t)
      /\ \A c \in Contexts : ~CaretDue(u, c)
  BY <1>4 DEF EndDue, Ahead, CaretDue, Unwritten
<1>7. ASSUME NEW c \in Contexts
      PROVE  LineOf(u, c, P)
  <2>1. PICK s : s = t.doc[c]
    OBVIOUS
  <2>2. PICK f : f = Frontier(t, c)
    OBVIOUS
  <2>3. PICK lo : lo = Low(t, c)
    OBVIOUS
  <2>4. PICK hi : hi = High(t, c)
    OBVIOUS
  <2>5. /\ s \in Seq(N) /\ f \in Nat /\ lo \in Nat /\ hi \in Nat
        /\ Line(s, P, f, lo, hi, Ahead(t))
    BY <1>4, <2>1, <2>2, <2>3, <2>4, LineNumbers DEF Orderly, Lines, LineOf
  <2>6. PICK ahead : ahead = Ahead(u)
    OBVIOUS
  <2>7. f <= f /\ ahead \subseteq Ahead(t)
    BY <1>6, <2>5, <2>6
  <2>8. Line(s, P, f, lo, hi, ahead)
    BY <2>5, <2>7, LineLoosened
  <2>9. CASE Composing(t, c)
    <3>1. Frontier(u, c) = f /\ Low(u, c) = t.comp.from
          /\ High(u, c) = t.comp.from + t.comp.len
      BY <1>4, <1>6, <2>2, <2>9 DEF Frontier, Low, High, Open, Composing
    <3>2. CASE EndDue(t)
      <4>1. lo = 0 /\ hi = 0
        BY <2>3, <2>4, <3>2 DEF Low, High, Open
      <4>2. Line(s, P, f, Low(u, c), High(u, c), ahead)
        BY <2>5, <2>8, <4>1, LineWidened
      <4> QED
        BY <1>4, <2>1, <2>6, <3>1, <4>2 DEF LineOf
    <3>3. CASE ~EndDue(t)
      <4>1. lo = Low(u, c) /\ hi = High(u, c)
        BY <2>3, <2>4, <2>9, <3>1, <3>3 DEF Low, High, Open
      <4> QED
        BY <1>4, <2>1, <2>6, <2>8, <3>1, <4>1 DEF LineOf
    <3> QED
      BY <3>2, <3>3
  <2>10. CASE ~Composing(t, c)
    <3>1. Frontier(u, c) = Len(s) /\ Low(u, c) = 0 /\ High(u, c) = 0 /\ lo = 0 /\ hi = 0
      BY <1>2, <1>4, <1>5, <1>6, <2>1, <2>3, <2>4, <2>10 DEF Frontier, Low, High, Open, Composing
    <3>2. \A i \in DOMAIN s : ~(i > Len(s))
      BY <2>5
    <3>3. Line(s, P, Len(s), 0, 0, ahead)
      BY <2>8, <3>1, <3>2 DEF Line
    <3> QED
      BY <1>4, <2>1, <2>6, <3>1, <3>3 DEF LineOf
  <2> QED
    BY <2>9, <2>10
<1>8. Lines(u, P)
  BY <1>7 DEF Lines
<1>9. ResultRises(u)
  BY <1>4 DEF Orderly, ResultRises
<1>10. CaretsFollow(u)
  <2> SUFFICES ASSUME NEW c \in Contexts, Composing(t, c)
               PROVE  CaretFollows(u, c)
    BY <1>4 DEF CaretsFollow, Composing
  <2>1. t.comp.from + t.comp.len <= Len(t.doc[c])
    BY NoContextAssumption DEF Fits, PlacedComposition, Composing
  <2>2. t.comp.from \in Nat /\ t.comp.len \in Nat /\ Len(t.doc[c]) \in Nat
    BY <1>4, TextFields DEF Docs
  <2>3. u.caret[c] = Len(t.doc[c])
    BY <1>2, <1>5
  <2>4. u.comp.from <= u.caret[c] /\ ~(u.caret[c] < u.comp.from + u.comp.len)
    BY <1>4, <2>1, <2>2, <2>3
  <2> QED
    BY <2>4 DEF CaretFollows
<1>11. EndsInPlace(u)
  BY <1>4, <1>6 DEF EndsInPlace
<1> QED
  BY <1>1, <1>8, <1>9, <1>10, <1>11 DEF Orderly

(* What is retained is dropped with the composition.                        *)
LEMMA DroppedOrder ==
  ASSUME NEW N, NEW t, Fits(t, N), NEW P, Orderly(t, P)
  PROVE  Orderly(Abandon(Cancelled(t)), P)
<1>1. PICK v : v = Cancelled(t)
  OBVIOUS
<1>2. Fits(v, N) /\ ~Retaining(v)
  BY <1>1, CancelledFits DEF CancelledAs
<1>3. Orderly(v, P)
  BY <1>1, CancelledOrder
<1> QED
  BY <1>1, <1>2, <1>3, AbandonOrder
-----------------------------------------------------------------------------
(* A character of the host put into a line: what is behind it moves on.     *)
LEMMA LineTyped ==
  ASSUME NEW N, NEW s \in Seq(N), NEW p \in Nat, p <= Len(s), NEW id \in N, NEW P,
         NEW f \in Nat, NEW lo \in Nat, NEW hi \in Nat, NEW ahead, Line(s, P, f, lo, hi, ahead),
         NEW g \in Nat, f <= g, p < f => f + 1 <= g, NEW low \in Nat, NEW high \in Nat,
         \/ hi <= lo
         \/ p <= lo /\ low = lo + 1 /\ high = hi + 1
         \/ hi <= p /\ low = lo /\ high = hi
  PROVE  Line(Replaced(s, p, 0, <<id>>), P \cup {id}, g, low, high, ahead)
<1>1. PICK new : new = <<id>>
  OBVIOUS
<1>2. PICK r : r = Replaced(s, p, 0, new)
  OBVIOUS
<1>3. Spliced(r, s, N, p, 0, new)
  <2>1. new \in Seq(N) /\ 0 \in Nat /\ p + 0 <= Len(s)
    BY <1>1
  <2> QED
    BY <1>2, <2>1, PlacesOfReplaced
<1>4. /\ Len(r) = Len(s) + 1 /\ Len(s) \in Nat
      /\ DOMAIN r = 1 .. Len(s) + 1 /\ DOMAIN s = 1 .. Len(s)
      /\ \A i \in 1 .. p : r[i] = s[i]
      /\ r[p + 1] = id
      /\ \A i \in p + 1 .. Len(s) : r[i + 1] = s[i]
  <2>1. Len(new) = 1 /\ new[1] = id
    BY <1>1
  <2>2. PICK k : k = Len(new)
    OBVIOUS
  <2>3. /\ r \in Seq(N) /\ Len(r) = Len(s) - 0 + k
        /\ \A i \in 1 .. p : r[i] = s[i]
        /\ \A i \in 1 .. k : r[p + i] = new[i]
        /\ \A i \in p + 0 + 1 .. Len(s) : r[i - 0 + k] = s[i]
    BY <1>3, <2>2 DEF Spliced
  <2>4. k = 1 /\ Len(s) \in Nat
    BY <2>1, <2>2
  <2>5. Len(r) = Len(s) + 1
    BY <2>3, <2>4
  <2>6. r[p + 1] = id
    BY <2>1, <2>3, <2>4
  <2>7. ASSUME NEW i \in p + 1 .. Len(s)
        PROVE  r[i + 1] = s[i]
    <3>1. i \in p + 0 + 1 .. Len(s) /\ i - 0 + k = i + 1
      BY <2>4
    <3> QED
      BY <2>3, <3>1
  <2> QED
    BY <2>3, <2>4, <2>5, <2>6, <2>7
(* What is not the new character was in the line. *)
<1>5. ASSUME NEW i \in DOMAIN r, r[i] \notin P \cup {id}
      PROVE  \E m \in DOMAIN s : s[m] = r[i] /\ ((m = i /\ i <= p) \/ (m = i - 1 /\ p + 1 < i))
  <2>1. i \in Nat /\ i >= 1 /\ i <= Len(s) + 1 /\ i # p + 1
    BY <1>4, <1>5
  <2>2. CASE i <= p
    <3>1. i \in 1 .. p /\ i \in DOMAIN s
      BY <1>4, <2>1, <2>2
    <3>2. s[i] = r[i]
      BY <1>4, <3>1
    <3>3. PICK m : m = i
      OBVIOUS
    <3>4. m \in DOMAIN s /\ s[m] = r[i] /\ m = i /\ i <= p
      BY <2>2, <3>1, <3>2, <3>3
    <3> QED
      BY <3>4
  <2>3. CASE p + 1 < i
    <3>1. i - 1 \in p + 1 .. Len(s) /\ (i - 1) + 1 = i
      BY <1>4, <2>1, <2>3
    <3>2. r[i] = s[i - 1]
      BY <1>4, <3>1
    <3>3. i - 1 \in DOMAIN s
      BY <1>4, <3>1
    <3> QED
      BY <2>3, <3>2, <3>3
  <2> QED
    BY <2>1, <2>2, <2>3
<1>6. DOMAIN r \subseteq Nat
  BY <1>4
<1>7. ASSUME NEW i \in DOMAIN r, NEW j \in DOMAIN r, i < j,
             r[i] \notin P \cup {id}, r[j] \notin P \cup {id}
      PROVE  r[i] < r[j]
  <2>1. PICK m \in DOMAIN s : s[m] = r[i] /\ ((m = i /\ i <= p) \/ (m = i - 1 /\ p + 1 < i))
    BY <1>5, <1>7
  <2>2. PICK n \in DOMAIN s : s[n] = r[j] /\ ((n = j /\ j <= p) \/ (n = j - 1 /\ p + 1 < j))
    BY <1>5, <1>7
  <2>3. i \in Nat /\ j \in Nat
    BY <1>6
  <2>4. m < n
    BY <1>7, <2>1, <2>2, <2>3
  <2> QED
    BY <1>7, <2>1, <2>2, <2>4 DEF Line, Rises
<1>8. ASSUME NEW i \in DOMAIN r, i > g
      PROVE  r[i] \in P \cup {id}
  <2> SUFFICES ASSUME r[i] \notin P \cup {id}
               PROVE  FALSE
    OBVIOUS
  <2>1. PICK m \in DOMAIN s : s[m] = r[i] /\ ((m = i /\ i <= p) \/ (m = i - 1 /\ p + 1 < i))
    BY <1>5
  <2>2. i \in Nat
    BY <1>6
  <2>3. m > f
    BY <1>8, <2>1, <2>2
  <2> QED
    BY <2>1, <2>3 DEF Line
<1>9. ASSUME NEW i \in DOMAIN r, ~(low < i /\ i <= high), r[i] \notin P \cup {id}, NEW x \in ahead
      PROVE  r[i] < x
  <2>1. PICK m \in DOMAIN s : s[m] = r[i] /\ ((m = i /\ i <= p) \/ (m = i - 1 /\ p + 1 < i))
    BY <1>5, <1>9
  <2>2. i \in Nat
    BY <1>6
  <2>3. ~(lo < m /\ m <= hi)
    BY <1>9, <2>1, <2>2
  <2> QED
    BY <1>9, <2>1, <2>3 DEF Line
<1>10. Line(r, P \cup {id}, g, low, high, ahead)
  <2>1. Rises(r, P \cup {id})
    BY <1>7 DEF Rises
  <2> QED
    BY <1>8, <1>9, <2>1 DEF Line
<1> QED
  BY <1>1, <1>2, <1>10

(* The host types a character: it is passed on, and nothing else is new. *)
LEMMA HostTypesOrder ==
  ASSUME NEW N, NEW t, Fits(t, N), NEW P, Orderly(t, P), NEW c \in Contexts, NEW id \in N
  PROVE  Orderly(HostTypes(t, c, id), P \cup {id})
<1>1. PICK u : u = HostTypes(t, c, id)
  OBVIOUS
<1>2. PICK p : p = t.caret[c]
  OBVIOUS
<1>3. PICK f : f = IF Composing(t, c) /\ p <= t.comp.from THEN 1 ELSE 0
  OBVIOUS
<1>4. PICK from : from = t.comp.from
  OBVIOUS
<1>5. PICK len : len = t.comp.len
  OBVIOUS
<1>6. PICK at : at = t.retained.at
  OBVIOUS
<1>7. PICK s : s = IF t.retained.context = c /\ p < at THEN 1 ELSE 0
  OBVIOUS
<1>8. TypedAs(u, t, N, c, id)
  BY <1>1, HostTypesFits
<1>9. /\ t \in TextType(N) /\ u \in TextType(N) /\ t.caret \in Carets
      /\ from \in Nat /\ len \in Nat /\ at \in Nat /\ p \in Nat
      /\ t.doc[c] \in Seq(N) /\ p <= Len(t.doc[c])
  <2>1. t \in TextType(N) /\ u \in TextType(N)
    BY <1>8 DEF TypedAs, Fits
  <2> QED
    BY <1>2, <1>4, <1>5, <1>6, <2>1, TextFields DEF Docs, Carets, Fits, PlacedCarets
<1>10. u.caret[c] = p + 1 /\ (\A d \in Contexts \ {c} : u.caret[d] = t.caret[d])
       /\ u.retained.at = at + s /\ u.retained.caretSet = t.retained.caretSet
  <2>1. PICK doc : doc = [t.doc EXCEPT ![c] = Replaced(t.doc[c], t.caret[c], 0, <<id>>)]
    OBVIOUS
  <2>2. PICK caret : caret = [t.caret EXCEPT ![c] = t.caret[c] + 1]
    OBVIOUS
  <2>3. \E part : \E k :
          /\ u = TextOf(doc, caret, part, t.engine,
                        ResultOf(t.retained.context, t.retained.commit, t.retained.view,
                             t.retained.written, t.retained.caretSet, t.retained.needsEnd,
                             t.retained.at + k))
          /\ k = IF t.retained.context = c /\ t.caret[c] < t.retained.at THEN 1 ELSE 0
    BY <1>1, <1>9, <2>1, <2>2, HostTypesFields
  <2>4. PICK part, k :
          /\ u = TextOf(doc, caret, part, t.engine,
                        ResultOf(t.retained.context, t.retained.commit, t.retained.view,
                             t.retained.written, t.retained.caretSet, t.retained.needsEnd,
                             t.retained.at + k))
          /\ k = IF t.retained.context = c /\ t.caret[c] < t.retained.at THEN 1 ELSE 0
    BY <2>3
  <2>5. k = s
    BY <1>2, <1>6, <1>7, <2>4
  <2>6. u.caret = caret /\ u.retained = ResultOf(t.retained.context, t.retained.commit, t.retained.view,
                             t.retained.written, t.retained.caretSet, t.retained.needsEnd,
                             t.retained.at + k)
    BY <2>4, FieldsOf
  <2>7. u.retained.at = at + s /\ u.retained.caretSet = t.retained.caretSet
    BY <1>6, <2>5, <2>6, ResultsOf
  <2>8. caret[c] = p + 1 /\ \A d \in Contexts \ {c} : caret[d] = t.caret[d]
    BY <1>2, <1>9, <2>2 DEF Carets
  <2> QED
    BY <2>6, <2>7, <2>8
<1>11. /\ u.doc[c] = Replaced(t.doc[c], p, 0, <<id>>)
       /\ \A d \in Contexts \ {c} : u.doc[d] = t.doc[d]
       /\ u.comp.context = t.comp.context /\ u.comp.len = len /\ u.comp.from = from + f
       /\ u.engine = t.engine
       /\ u.retained.context = t.retained.context /\ u.retained.commit = t.retained.commit
       /\ u.retained.view = t.retained.view /\ u.retained.caretSet = t.retained.caretSet
       /\ u.retained.written = t.retained.written /\ u.retained.needsEnd = t.retained.needsEnd
  <2>1. u.comp.from = from + f
    BY <1>2, <1>3, <1>4, <1>8 DEF TypedAs
  <2>2. /\ u.doc[c] = Replaced(t.doc[c], p, 0, <<id>>)
        /\ \A d \in Contexts \ {c} : u.doc[d] = t.doc[d]
    BY <1>2, <1>8 DEF TypedAs
  <2>3. u.comp.context = t.comp.context /\ u.comp.len = len /\ u.engine = t.engine
    BY <1>5, <1>8 DEF TypedAs
  <2>4. /\ u.retained.context = t.retained.context /\ u.retained.commit = t.retained.commit
        /\ u.retained.view = t.retained.view /\ u.retained.caretSet = t.retained.caretSet
        /\ u.retained.written = t.retained.written /\ u.retained.needsEnd = t.retained.needsEnd
    BY <1>8, <1>10 DEF TypedAs, SameResult
  <2> QED
    BY <2>1, <2>2, <2>3, <2>4
<1>12. /\ (Retaining(u) <=> Retaining(t)) /\ (EndDue(u) <=> EndDue(t)) /\ Ahead(u) = Ahead(t)
       /\ \A d \in Contexts : /\ Composing(u, d) <=> Composing(t, d)
                              /\ CaretDue(u, d) <=> CaretDue(t, d)
                              /\ Open(u, d) <=> Open(t, d)
  BY <1>11 DEF Retaining, EndDue, Ahead, Composing, CaretDue, Unwritten, Open
<1>13. Composing(t, c) => ~(from < p /\ p < from + len) /\ f = IF p <= from THEN 1 ELSE 0
  BY <1>2, <1>3, <1>4, <1>5, NoContextAssumption DEF Composing, Fits, PlacedComposition
<1>14. f \in {0, 1} /\ s \in {0, 1} /\ (~Composing(t, c) => f = 0)
  BY <1>3, <1>7
<1>15. LineOf(u, c, P \cup {id})
  <2>1. PICK o : o = t.doc[c]
    OBVIOUS
  <2>2. PICK fr : fr = Frontier(t, c)
    OBVIOUS
  <2>3. PICK lo : lo = Low(t, c)
    OBVIOUS
  <2>4. PICK hi : hi = High(t, c)
    OBVIOUS
  <2>5. PICK g : g = Frontier(u, c)
    OBVIOUS
  <2>6. PICK low : low = Low(u, c)
    OBVIOUS
  <2>7. PICK high : high = High(u, c)
    OBVIOUS
  <2>8. /\ o \in Seq(N) /\ fr \in Nat /\ lo \in Nat /\ hi \in Nat
        /\ Line(o, P, fr, lo, hi, Ahead(t)) /\ p <= Len(o)
        /\ g \in Nat /\ low \in Nat /\ high \in Nat
    BY <1>9, <2>1, <2>2, <2>3, <2>4, <2>5, <2>6, <2>7, LineNumbers DEF Orderly, Lines, LineOf
  <2>9. fr <= g /\ (p < fr => fr + 1 <= g)
    <3>1. CASE Composing(t, c)
      <4>1. fr = from + len /\ g = from + f + len
        BY <1>4, <1>5, <1>11, <1>12, <2>2, <2>5, <3>1 DEF Frontier
      <4> QED
        BY <1>9, <1>13, <1>14, <3>1, <4>1
    <3>2. CASE ~Composing(t, c) /\ CaretDue(t, c)
      <4>1. fr = at /\ g = at + s
        BY <1>6, <1>10, <1>12, <2>2, <2>5, <3>2 DEF Frontier
      <4>2. s = IF p < at THEN 1 ELSE 0
        BY <1>7, <3>2 DEF CaretDue
      <4> QED
        BY <1>9, <4>1, <4>2
    <3>3. CASE ~Composing(t, c) /\ ~CaretDue(t, c)
      <4>1. fr = p /\ g = p + 1
        BY <1>2, <1>10, <1>12, <2>2, <2>5, <3>3 DEF Frontier
      <4> QED
        BY <1>9, <4>1
    <3> QED
      BY <3>1, <3>2, <3>3
  <2>10. \/ hi <= lo
         \/ p <= lo /\ low = lo + 1 /\ high = hi + 1
         \/ hi <= p /\ low = lo /\ high = hi
    <3>1. CASE Open(t, c)
      <4>1. lo = from /\ hi = from + len /\ low = from + f /\ high = from + f + len /\ Composing(t, c)
        BY <1>4, <1>5, <1>11, <1>12, <2>3, <2>4, <2>6, <2>7, <3>1 DEF Low, High, Open
      <4> QED
        BY <1>9, <1>13, <1>14, <4>1
    <3>2. CASE ~Open(t, c)
      BY <2>3, <2>4, <3>2 DEF Low, High
    <3> QED
      BY <3>1, <3>2
  <2>11. PICK ahead : ahead = Ahead(t)
    OBVIOUS
  <2>12. Line(o, P, fr, lo, hi, ahead)
    BY <2>8, <2>11
  <2>13. Line(Replaced(o, p, 0, <<id>>), P \cup {id}, g, low, high, ahead)
    BY <1>9, <2>8, <2>9, <2>10, <2>12, LineTyped
  <2> QED
    BY <1>11, <1>12, <2>1, <2>5, <2>6, <2>7, <2>11, <2>13 DEF LineOf
<1>16. ASSUME NEW d \in Contexts \ {c}
       PROVE  LineOf(u, d, P \cup {id})
  <2>1. u.doc[d] = t.doc[d] /\ u.caret[d] = t.caret[d]
    BY <1>10, <1>11
  <2>2. Composing(t, d) => u.comp.from = from
    <3>1. ASSUME Composing(t, d)
          PROVE  f = 0
      BY <1>14, <1>16, <3>1 DEF Composing
    <3> QED
      BY <1>9, <1>11, <3>1
  <2>3. CaretDue(t, d) => u.retained.at = at
    <3>1. ASSUME CaretDue(t, d)
          PROVE  s = 0
      BY <1>7, <1>16, <3>1 DEF CaretDue
    <3> QED
      BY <1>9, <1>10, <3>1
  <2>4. Frontier(u, d) = Frontier(t, d)
    BY <1>4, <1>5, <1>6, <1>11, <1>12, <2>1, <2>2, <2>3 DEF Frontier
  <2>5. Low(u, d) = Low(t, d) /\ High(u, d) = High(t, d)
    BY <1>4, <1>5, <1>11, <1>12, <2>2 DEF Low, High, Open
  <2>6. LineOf(u, d, P)
    BY <1>12, <2>1, <2>4, <2>5 DEF Orderly, Lines, LineOf
  <2> QED
    BY <2>6 DEF LineOf, Line, Rises
<1>17. Lines(u, P \cup {id})
  BY <1>15, <1>16 DEF Lines
<1>18. ResultRises(u)
  BY <1>11, <1>12 DEF Orderly, ResultRises
<1>19. CaretsFollow(u)
  <2> SUFFICES ASSUME NEW d \in Contexts, Composing(t, d)
               PROVE  CaretFollows(u, d)
    BY <1>12 DEF CaretsFollow
  <2>1. CaretFollows(t, d)
    BY DEF Orderly, CaretsFollow
  <2>2. CASE d = c
    <3>1. from <= p /\ (p < from + len => Retaining(t) /\ t.retained.context = c
                                        /\ ~(EndDue(t) /\ t.retained.caretSet = TRUE))
      BY <1>2, <1>4, <1>5, <2>1, <2>2 DEF CaretFollows
    <3>2. f = IF p <= from THEN 1 ELSE 0
      BY <1>13, <2>2
    <3>3. from + f <= p + 1 /\ (p + 1 < from + f + len => p < from + len)
      BY <1>9, <3>1, <3>2
    <3>4. u.comp.from + u.comp.len = from + f + len /\ u.comp.from = from + f /\ u.caret[c] = p + 1
      BY <1>10, <1>11
    <3> QED
      BY <1>11, <1>12, <2>2, <3>1, <3>3, <3>4 DEF CaretFollows
  <2>3. CASE d # c
    <3>1. f = 0
      BY <1>14, <2>3 DEF Composing
    <3>2. u.comp.from = t.comp.from /\ u.comp.len = t.comp.len /\ u.caret[d] = t.caret[d]
      BY <1>4, <1>5, <1>9, <1>10, <1>11, <2>3, <3>1
    <3> QED
      BY <1>11, <1>12, <2>1, <3>2 DEF CaretFollows
  <2> QED
    BY <2>2, <2>3
<1>20. EndsInPlace(u)
  <2>1. EndDue(t) => /\ Composing(t, t.retained.context) /\ t.retained.commit # <<>>
                     /\ len # 0 /\ at = from + len
    BY <1>4, <1>5, <1>6 DEF Orderly, EndsInPlace
  <2>2. ASSUME EndDue(t)
        PROVE  at + s = from + f + len
    <3>1. CASE t.retained.context = c
      <4>1. s = IF p < from + len THEN 1 ELSE 0
        BY <1>7, <2>1, <2>2, <3>1
      <4> QED
        BY <1>9, <1>13, <1>14, <2>1, <2>2, <3>1, <4>1
    <3>2. CASE t.retained.context # c
      <4>1. s = 0 /\ f = 0
        BY <1>7, <1>14, <2>1, <2>2, <3>2 DEF Composing
      <4> QED
        BY <1>9, <2>1, <2>2, <4>1
    <3> QED
      BY <3>1, <3>2
  <2>3. EndDue(u) => /\ Composing(u, u.retained.context) /\ u.retained.commit # <<>>
                     /\ u.comp.len # 0 /\ u.retained.at = u.comp.from + u.comp.len
    BY <1>10, <1>11, <1>12, <2>1, <2>2 DEF Composing
  <2>4. /\ /\ Retaining(u) /\ u.retained.view = <<>> /\ u.retained.commit # <<>>
           /\ u.retained.written = TRUE /\ u.retained.needsEnd = FALSE
           => ~Composing(u, u.retained.context)
        /\ Retaining(u) /\ u.retained.caretSet = TRUE => u.retained.written = TRUE
    BY <1>11, <1>12 DEF Orderly, EndsInPlace, Composing
  <2> QED
    BY <2>3, <2>4 DEF EndsInPlace
<1> QED
  BY <1>1, <1>17, <1>18, <1>19, <1>20 DEF Orderly
-----------------------------------------------------------------------------
(* Which operation a call that has not returned yet is about: the newest of *)
(* the queue, if anything is left of the queue.                             *)
Twin(x, y) == x.id = y.id /\ x.ordered = y.ordered
LastCalled ==
  request.stage = "return" /\ queue # <<>> => Twin(queue[Len(queue)], request.op)
CallsInv == OnlyFirst /\ Served /\ AsksFresh /\ LastCalled

(* The front operation left the queue, or none did. *)
Shortened ==
  \E k \in {0, 1} : /\ Len(queue') = Len(queue) - k
                    /\ \A i \in 1 .. Len(queue') : Twin(queue'[i], queue[i + k])
SameCall ==
  request'.stage = "return" => request.stage = "return" /\ Twin(request'.op, request.op)

(* The claims on the call in progress survive a queue that moves up by at   *)
(* most one.                                                                *)
LEMMA CallsKept ==
  ASSUME QInv, QInv', CallsInv, queue' = <<>> \/ Shortened, SameCall, Served', AsksFresh'
  PROVE  CallsInv'
<1>1. /\ queue \in Seq(OperationType) /\ queue' \in Seq(OperationType)
      /\ Len(queue) \in Nat /\ Len(queue') \in Nat
      /\ DOMAIN queue = 1 .. Len(queue) /\ DOMAIN queue' = 1 .. Len(queue')
  <2>1. queue \in Seq(OperationType) /\ queue' \in Seq(OperationType)
    BY DEF QInv, QueueTypeOK
  <2> QED
    BY <2>1
<1>2. CASE queue' = <<>>
  <2>1. DOMAIN queue' = {}
    BY <1>2
  <2> QED
    BY <1>2, <2>1 DEF CallsInv, OnlyFirst, LastCalled
<1>3. CASE queue' # <<>> /\ Shortened
  <2>1. PICK k \in {0, 1} : /\ Len(queue') = Len(queue) - k
                            /\ \A i \in 1 .. Len(queue') : Twin(queue'[i], queue[i + k])
    BY <1>3 DEF Shortened
  <2>2. ASSUME NEW i \in DOMAIN queue', ~queue'[i].ordered
        PROVE  i = 1
    <3>1. i + k \in DOMAIN queue
      BY <1>1, <2>1
    <3>2. ~queue[i + k].ordered
      BY <1>1, <2>1, <2>2 DEF Twin
    <3>3. i + k = 1
      BY <3>1, <3>2 DEF CallsInv, OnlyFirst
    <3> QED
      BY <1>1, <2>1, <3>3
  <2>3. LastCalled'
    <3> SUFFICES ASSUME request'.stage = "return"
                 PROVE  Twin(queue'[Len(queue')], request'.op)
      BY DEF LastCalled
    <3>1. Len(queue') # 0
      BY <1>1, <1>3
    <3>2. /\ Len(queue') \in 1 .. Len(queue') /\ Len(queue') + k = Len(queue) /\ Len(queue) # 0
      <4>1. PICK n : n = Len(queue)
        OBVIOUS
      <4>2. PICK m : m = Len(queue')
        OBVIOUS
      <4>3. n \in Nat /\ m \in Nat /\ m # 0 /\ m = n - k /\ k \in {0, 1}
        BY <1>1, <2>1, <3>1, <4>1, <4>2
      <4>4. m \in 1 .. m /\ m + k = n /\ n # 0
        BY <4>3
      <4> QED
        BY <4>1, <4>2, <4>4
    <3>3. Twin(queue'[Len(queue')], queue[Len(queue)])
      BY <2>1, <3>2
    <3>4. queue # <<>>
      BY <1>1, <3>2
    <3>5. Twin(queue[Len(queue)], request.op) /\ Twin(request'.op, request.op)
      BY <3>4 DEF CallsInv, LastCalled, SameCall
    <3> QED
      BY <3>3, <3>5 DEF Twin
  <2> QED
    BY <2>2, <2>3 DEF CallsInv, OnlyFirst
<1> QED
  BY <1>2, <1>3

(* A queue that stays has not moved up.                                     *)
LEMMA SameIsShortened ==
  ASSUME QInv, queue' = queue
  PROVE  Shortened
<1>1. queue \in Seq(OperationType) /\ Len(queue) \in Nat
  BY TypedState
<1>2. Len(queue') = Len(queue) - 0 /\ \A i \in 1 .. Len(queue') : Twin(queue'[i], queue[i + 0])
  BY <1>1 DEF Twin
<1> QED
  BY <1>2 DEF Shortened

(* The front of the queue is done, or stays with what it has recorded.      *)
LEMMA CompletionShortens ==
  ASSUME QInv, queue # <<>>, NEW op \in OperationType, Twin(op, Oldest),
         queue' = Tail(queue) \/ queue' = <<op>> \o Tail(queue)
  PROVE  Shortened
<1>1. /\ queue \in Seq(OperationType) /\ Len(queue) \in Nat \ {0}
      /\ Oldest = queue[1] /\ Tail(queue) \in Seq(OperationType) /\ Len(Tail(queue)) = Len(queue) - 1
      /\ \A i \in 1 .. Len(queue) - 1 : Tail(queue)[i] = queue[i + 1]
  BY TypedState, FrontAndRest DEF Oldest
<1>2. CASE queue' = Tail(queue)
  <2>1. Len(queue') = Len(queue) - 1 /\ \A i \in 1 .. Len(queue') : queue'[i] = queue[i + 1]
    BY <1>1, <1>2
  <2>2. \A i \in 1 .. Len(queue') : Twin(queue'[i], queue[i + 1])
    BY <2>1 DEF Twin
  <2> QED
    BY <2>1, <2>2 DEF Shortened
<1>3. CASE queue' = <<op>> \o Tail(queue)
  <2>1. /\ Len(queue') = Len(queue) /\ queue'[1] = op
        /\ \A i \in 2 .. Len(queue) : queue'[i] = queue[i]
    BY <1>1, <1>3, PutBack
  <2>2. ASSUME NEW i \in 1 .. Len(queue')
        PROVE  Twin(queue'[i], queue[i + 0])
    <3>1. i + 0 = i
      BY <1>1, <2>1
    <3>2. CASE i = 1
      BY <1>1, <2>1, <3>1, <3>2
    <3>3. CASE i # 1
      <4>1. i \in 2 .. Len(queue)
        BY <1>1, <2>1, <3>3
      <4> QED
        BY <2>1, <3>1, <4>1 DEF Twin
    <3> QED
      BY <3>2, <3>3
  <2>3. Len(queue') = Len(queue) - 0
    BY <1>1, <2>1
  <2> QED
    BY <2>2, <2>3 DEF Shortened
<1> QED
  BY <1>2, <1>3

(* An answer returns to the call that waits for it, and to no other.        *)
LEMMA AnswerSameCall ==
  ASSUME QInv, NEW op, NEW outcome, request' = request \/ request' = Answer(op, outcome)
  PROVE  /\ SameCall /\ request'.stage = request.stage
         /\ request.stage # "return" => request' = request
<1>1. request \in RequestType
  BY TypedState
<1>2. CASE request' = request
  BY <1>2 DEF SameCall, Twin
<1>3. CASE request' # request
  <2>1. PICK value : value = IF op.kind = "key" THEN op.handled ELSE outcome = "done"
    OBVIOUS
  <2>2. request.stage = "return" /\ request' = [request EXCEPT !.op.handled = value]
    BY <1>3, <2>1, Zenon DEF Answer
  <2>3. PICK o : o = request.op
    OBVIOUS
  <2>4. PICK u : u = [o EXCEPT !.handled = value]
    OBVIOUS
  <2>5. o \in OperationType
    BY <1>1, <2>3 DEF RequestType
  <2>6. u.id = o.id /\ u.ordered = o.ordered
    BY <2>4, <2>5 DEF OperationType
  <2>7. request' = [request EXCEPT !.op = u]
    BY <2>2, <2>3, <2>4, Zenon
  <2>8. request'.op = u /\ request'.stage = request.stage
    BY <1>1, <2>7 DEF RequestType
  <2> QED
    BY <2>2, <2>3, <2>6, <2>8 DEF SameCall, Twin
<1> QED
  BY <1>2, <1>3
-----------------------------------------------------------------------------
(* Every step keeps what is known of the calls.                             *)
LEMMA PushCalls ==
  ASSUME TextInv, CallsInv, Pushed
  PROVE  /\ CallsInv'
         /\ \E op \in OperationType : /\ op.id = made + 1 /\ op.handled = FALSE
                                      /\ queue' = Append(queue, op)
<1>1. /\ request \in RequestType /\ queue \in Seq(OperationType) /\ Len(queue) \in Nat
      /\ made \in Nat /\ DOMAIN queue = 1 .. Len(queue)
  BY TypedState DEF TextInv, IInv
<1>2. PICK base : base = request.op
  OBVIOUS
<1>3. PICK b \in BOOLEAN : b = (queue # <<>>)
  OBVIOUS
<1>4. PICK first : first = [base EXCEPT !.id = made + 1]
  OBVIOUS
<1>5. PICK op : op = [first EXCEPT !.ordered = b]
  OBVIOUS
<1>6. base \in OperationType /\ (request.stage \in {"push", "append"} => base.handled = FALSE)
  <2>1. base \in OperationType
    BY <1>1, <1>2 DEF RequestType
  <2>2. base.handled \in BOOLEAN
    BY <2>1 DEF OperationType
  <2> QED
    BY <1>2, <2>1, <2>2 DEF CallsInv, AsksFresh
<1>7. first \in OperationType /\ first.id = made + 1 /\ first.handled = base.handled
  BY <1>1, <1>4, <1>6, SMTT(20) DEF OperationType
<1>8. /\ op \in OperationType /\ op.id = made + 1 /\ op.handled = base.handled /\ op.ordered = b
  BY <1>5, <1>7, SMTT(20) DEF OperationType
<1>9. /\ queue' = Append(queue, op) /\ request' = [stage |-> "return", op |-> op]
      /\ active' = active /\ pump' = (IF active = None THEN "enter" ELSE "off")
      /\ request.stage \in {"push", "append"}
  <2>1. op = [base EXCEPT !.id = made + 1, !.ordered = queue # <<>>]
    BY <1>3, <1>4, <1>5, Zenon
  <2> QED
    BY <1>2, <2>1, Zenon DEF Pushed, Push, Pushing
<1>10. request'.stage = "return" /\ request'.op = op
  BY <1>9
<1>11. /\ Len(queue') = Len(queue) + 1 /\ DOMAIN queue' = 1 .. Len(queue) + 1
       /\ queue'[Len(queue) + 1] = op
       /\ \A i \in 1 .. Len(queue) : queue'[i] = queue[i]
  BY <1>1, <1>8, <1>9
<1>12. OnlyFirst'
  <2> SUFFICES ASSUME NEW i \in DOMAIN queue', ~queue'[i].ordered
               PROVE  i = 1
    BY DEF OnlyFirst
  <2>1. CASE i \in 1 .. Len(queue)
    BY <1>1, <1>11, <2>1 DEF CallsInv, OnlyFirst
  <2>2. CASE i = Len(queue) + 1
    <3>1. ~b
      BY <1>8, <1>11, <2>2
    <3>2. queue = <<>>
      BY <1>3, <3>1, Zenon
    <3>3. Len(queue) = 0
      BY <3>2
    <3> QED
      BY <2>2, <3>3
  <2> QED
    BY <1>1, <1>11, <2>1, <2>2
<1>13. Served'
  BY <1>9 DEF Served
<1>14. AsksFresh'
  BY <1>10 DEF AsksFresh
<1>15. LastCalled'
  BY <1>10, <1>11 DEF LastCalled, Twin
<1> QED
  BY <1>6, <1>8, <1>9, <1>12, <1>13, <1>14, <1>15 DEF CallsInv

(* The host grants a lock: neither the queue nor its order changes.         *)
LEMMA GrantCalls ==
  ASSUME QInv, QInv', CallsInv, Grant
  PROVE  /\ CallsInv' /\ queue # <<>> /\ queue' # <<>> /\ Seen(Oldest') = Seen(Oldest)
<1>1. /\ queue \in Seq(OperationType) /\ queue # <<>> /\ 1 \in DOMAIN queue
      /\ Oldest = queue[1] /\ queue[1] \in OperationType /\ Len(queue) \in Nat
      /\ DOMAIN queue = 1 .. Len(queue)
  BY TypedState, FrontAndRest DEF Grant, Ready, Oldest
<1>2. PICK op : op = [queue[1] EXCEPT !.accepted = TRUE]
  OBVIOUS
<1>3. /\ op.id = queue[1].id /\ op.kind = queue[1].kind /\ op.handled = queue[1].handled
      /\ op.ordered = queue[1].ordered /\ op.processed = queue[1].processed
  BY <1>1, <1>2 DEF OperationType
<1>4. queue' = [queue EXCEPT ![1] = op]
  BY <1>2, Zenon DEF Grant
<1>5. /\ DOMAIN queue' = DOMAIN queue /\ queue'[1] = op
      /\ \A i \in DOMAIN queue \ {1} : queue'[i] = queue[i]
  BY <1>1, <1>4
<1>6. queue' \in Seq(OperationType) /\ queue' # <<>> /\ Len(queue') = Len(queue)
  <2>1. queue' \in Seq(OperationType)
    BY DEF QInv, QueueTypeOK
  <2>2. DOMAIN queue' = 1 .. Len(queue') /\ Len(queue') \in Nat
    BY <2>1
  <2> QED
    BY <1>1, <1>5, <2>1, <2>2
<1>7. Oldest' = op
  BY <1>5, <1>6, FrontAndRest DEF Oldest
<1>8. Seen(Oldest') = Seen(Oldest)
  BY <1>1, <1>3, <1>7 DEF Seen, Taken, Newest, Older
<1>9. Shortened
  <2>1. ASSUME NEW i \in 1 .. Len(queue')
        PROVE  Twin(queue'[i], queue[i + 0])
    <3>1. i + 0 = i /\ i \in DOMAIN queue
      BY <1>1, <1>6
    <3> QED
      BY <1>3, <1>5, <3>1 DEF Twin
  <2>2. Len(queue') = Len(queue) - 0
    BY <1>1, <1>6
  <2> QED
    BY <2>1, <2>2 DEF Shortened
<1>10. SameCall /\ Served' /\ AsksFresh'
  <2>1. UNCHANGED <<request, pump>> /\ pump = "loop"
    BY DEF Grant, Ready
  <2> QED
    BY <2>1 DEF SameCall, Twin, Served, AsksFresh, CallsInv
<1> QED
  BY <1>1, <1>6, <1>8, <1>9, <1>10, CallsKept

(* An operation is completed without a cancellation.                        *)
LEMMA CompletionCalls ==
  ASSUME QInv, QInv', CallsInv, queue # <<>>, NEW op \in OperationType, RanFrom(Oldest, op),
         NEW outcome \in {"done", "failed"}, CompleteInput(op, outcome),
         request' = request \/ request' = Answer(op, outcome),
         pump' = "off" => blocked' = TRUE
  PROVE  CallsInv'
<1>1. Oldest \in OperationType
  BY OldestTyped
<1>2. Twin(op, Oldest)
  BY <1>1, RunKeepsIdentity DEF RanFrom, Twin
<1>3. Shortened
  BY <1>2, CompletionShapes, CompletionShortens
<1>4. SameCall /\ request'.stage = request.stage /\ (request.stage # "return" => request' = request)
  BY AnswerSameCall
<1>5. Served' /\ AsksFresh'
  BY <1>4 DEF Served, AsksFresh, CallsInv
<1> QED
  BY <1>3, <1>4, <1>5, CallsKept

(* An empty queue serves no call.                                           *)
LEMMA EmptyCalls ==
  ASSUME QInv, QInv', CallsInv, queue' = <<>>, SameCall, AsksFresh'
  PROVE  CallsInv'
<1>1. Served'
  BY DEF Served
<1> QED
  BY <1>1, CallsKept

(* A step that leaves the queue and the call alone.                         *)
LEMMA QuietCalls ==
  ASSUME QInv, QInv', CallsInv, queue' = queue, SameCall, AsksFresh', Served'
  PROVE  CallsInv'
  BY SameIsShortened, CallsKept
-----------------------------------------------------------------------------
(* What holds of the order of the text between any two steps: the text of   *)
(* the front operation is older than it, unless it was already taken.       *)
Writing == chinese \/ text.engine = <<>>
FrontFits == queue # <<>> => Fits(text, Seen(Oldest))
OrderInv == Orderly(text, passed) /\ Writing /\ FrontFits /\ CallsInv

(* What waits behind the front operation is newer than it. *)
LEMMA NextIsNewer ==
  ASSUME QInv, queue # <<>>, Tail(queue) # <<>>
  PROVE  Newest(Oldest) \subseteq Seen(Head(Tail(queue)))
<1>1. /\ queue \in Seq(OperationType) /\ Len(queue) \in Nat \ {0} /\ DOMAIN queue = 1 .. Len(queue)
      /\ Oldest = queue[1] /\ Tail(queue) \in Seq(OperationType) /\ Len(Tail(queue)) = Len(queue) - 1
      /\ \A i \in 1 .. Len(queue) - 1 : Tail(queue)[i] = queue[i + 1]
  BY TypedState, FrontAndRest DEF Oldest
<1>2. Head(Tail(queue)) = Tail(queue)[1] /\ Len(Tail(queue)) \in Nat \ {0}
  BY <1>1, FrontAndRest
<1>3. 1 \in DOMAIN queue /\ 2 \in DOMAIN queue /\ Head(Tail(queue)) = queue[2]
  BY <1>1, <1>2
<1>4. queue[1].id < queue[2].id
  BY <1>3 DEF QInv, InArrivalOrder
<1>5. queue[1].id \in Nat /\ queue[2].id \in Nat
  <2>1. queue[1] \in OperationType /\ queue[2] \in OperationType
    BY <1>1, <1>3
  <2> QED
    BY <2>1 DEF OperationType
<1>6. Newest(queue[1]) \subseteq Older(queue[2])
  BY <1>4, <1>5 DEF Newest, Older
<1>7. Older(queue[2]) \subseteq Newest(queue[2])
  BY <1>5, OlderIsNewer
<1> QED
  BY <1>1, <1>3, <1>6, <1>7 DEF Seen

(* A text holds no token newer than its operation.                          *)
LEMMA SeenIsMade ==
  ASSUME NEW op \in OperationType
  PROVE  Seen(op) \subseteq Newest(op)
  BY OlderIsNewer DEF Seen, OperationType

(* After a completion: the operation stays at the front, or the next one    *)
(* comes to it.                                                             *)
LEMMA CompletionFits ==
  ASSUME QInv, queue # <<>>, NEW op \in OperationType, op.id = Oldest.id,
         Fits(text', Newest(Oldest)), NEW outcome \in {"done", "failed"}, CompleteInput(op, outcome),
         op.kind = "key" => Fits(text', Seen(op))
  PROVE  FrontFits'
<1>1. CASE queue' = Tail(queue)
  <2> SUFFICES ASSUME queue' # <<>>
               PROVE  Fits(text', Seen(Oldest'))
    BY DEF FrontFits
  <2>1. Newest(Oldest) \subseteq Seen(Oldest')
    BY <1>1, NextIsNewer DEF Oldest
  <2> QED
    BY <2>1, FitsMore
<1>2. CASE queue' = <<op>> \o Tail(queue) /\ Blocks(op, outcome)
  <2>1. queue \in Seq(OperationType)
    BY TypedState
  <2>2. Oldest' = op
    BY <1>2, <2>1, PutBack DEF Oldest
  <2>3. op.kind = "key"
    BY <1>2 DEF Blocks
  <2> QED
    BY <2>2, <2>3 DEF FrontFits
<1> QED
  BY <1>1, <1>2, CompletionShapes

(* The character a returned key leaves to the host: nothing is queued then. *)
LEMMA ReturnedAlone ==
  ASSUME QInv, CallsInv, Return, ~Eaten
  PROVE  queue = <<>>
<1> SUFFICES ASSUME queue # <<>>
             PROVE  FALSE
  OBVIOUS
<1>1. /\ queue \in Seq(OperationType) /\ Len(queue) \in Nat \ {0} /\ DOMAIN queue = 1 .. Len(queue)
      /\ Oldest = queue[1]
  BY TypedState, FrontAndRest DEF Oldest
<1>2. PICK n : n = Len(queue)
  OBVIOUS
<1>3. n \in DOMAIN queue
  BY <1>1, <1>2
<1>4. Twin(queue[n], request.op)
  BY <1>2 DEF CallsInv, LastCalled, Return
<1>5. Pending(request.op.id)
  BY <1>3, <1>4 DEF Pending, Twin
<1>6. ~queue[n].accepted /\ ~queue[n].ordered
  BY <1>3, <1>4, <1>5 DEF Eaten, AcceptedIn, Twin
<1>7. n = 1
  BY <1>3, <1>6 DEF CallsInv, OnlyFirst
<1>8. active # None \/ blocked
  BY DEF CallsInv, Served, Return
<1> QED
  BY <1>1, <1>6, <1>7, <1>8 DEF QInv, ActiveIsHeld, BlockedByTakenKey
-----------------------------------------------------------------------------
(* One lemma for each way a step treats the text. *)
LEMMA ReturnedOrder ==
  ASSUME TextInv, QInv', OrderInv, Returned
  PROVE  OrderInv'
<1>0. QInv
  BY DEF TextInv, IInv
<1>1. /\ request' = NoRequest /\ pump = "off" /\ request.stage = "return" /\ Return
      /\ UNCHANGED <<queue, active, blocked, pump, chinese>>
  BY DEF Returned, Return
<1>2. CallsInv'
  <2>1. SameCall /\ AsksFresh' /\ Served'
    BY <1>1, NoRequestTyped DEF SameCall, AsksFresh, Served, OrderInv, CallsInv
  <2> QED
    BY <1>0, <1>1, <2>1, QuietCalls DEF OrderInv
<1>3. CASE request.op.kind = "key" /\ ~Eaten
  <2>1. PICK op : op = request.op
    OBVIOUS
  <2>2. text' = HostTypes(text, op.context, op.id) /\ passed' = passed \cup {op.id}
    BY <1>3, <2>1 DEF Returned
  <2>3. op.context \in Contexts /\ op.id \in Made
    BY <1>1, <1>3, <2>1, RequestOwned
  <2>4. Fits(text, Made) /\ Orderly(text, passed)
    BY DEF TextInv, OrderInv
  <2>5. PICK u : u = HostTypes(text, op.context, op.id)
    OBVIOUS
  <2>6. PICK P : P = passed
    OBVIOUS
  <2>7. Orderly(u, P \cup {op.id})
    BY <2>3, <2>4, <2>5, <2>6, HostTypesOrder
  <2>8. u.engine = text.engine
    <3>1. TypedAs(HostTypes(text, op.context, op.id), text, Made, op.context, op.id)
      BY <2>3, <2>4, HostTypesFits
    <3> QED
      BY <2>5, <3>1 DEF TypedAs
  <2>9. queue' = <<>>
    BY <1>0, <1>1, <1>3, ReturnedAlone DEF OrderInv
  <2> QED
    BY <1>1, <1>2, <2>2, <2>5, <2>6, <2>7, <2>8, <2>9 DEF OrderInv, Writing, FrontFits
<1>4. CASE ~(request.op.kind = "key" /\ ~Eaten)
  <2>1. UNCHANGED <<text, passed>>
    BY <1>4 DEF Returned
  <2> QED
    BY <1>1, <1>2, <2>1 DEF OrderInv, Writing, FrontFits, Oldest
<1> QED
  BY <1>3, <1>4

(* An operation joins the queue.                                            *)
LEMMA PushedOrder ==
  ASSUME TextInv, OrderInv, Pushed
  PROVE  OrderInv'
<1>1. PICK op \in OperationType : /\ op.id = made + 1 /\ op.handled = FALSE
                                  /\ queue' = Append(queue, op)
  BY PushCalls DEF OrderInv
<1>2. CallsInv' /\ UNCHANGED <<text, chinese, passed>>
  BY PushCalls DEF OrderInv, Pushed
<1>3. queue \in Seq(OperationType) /\ made \in Nat
  BY TypedState DEF TextInv, IInv
<1>4. CASE queue = <<>>
  <2>1. Oldest' = op
    BY <1>1, <1>3, <1>4 DEF Oldest
  <2>2. Seen(op) = Made
    BY <1>1, <1>3 DEF Seen, Taken, Older, Made
  <2> QED
    BY <1>2, <2>1, <2>2 DEF OrderInv, Writing, FrontFits, TextInv
<1>5. CASE queue # <<>>
  <2>1. Oldest' = Oldest
    BY <1>1, <1>3, <1>5 DEF Oldest
  <2> QED
    BY <1>2, <1>5, <2>1 DEF OrderInv, Writing, FrontFits
<1> QED
  BY <1>4, <1>5

(* The host refuses the lock.                                               *)
LEMMA DeniedOrder ==
  ASSUME TextInv, QInv', OrderInv, Denied
  PROVE  OrderInv'
<1>1. QInv /\ queue # <<>>
  BY DEF TextInv, IInv, Denied, Deny, Ready
<1>2. PICK op : op = Oldest
  OBVIOUS
<1>3. PICK failed : failed = "failed"
  OBVIOUS
<1>4. /\ CompleteInput(op, failed) /\ request' = Answer(op, failed)
      /\ pump' = "loop" /\ UNCHANGED <<text, chinese, passed>>
  BY <1>2, <1>3 DEF Denied, Deny, Ready
<1>5. op \in OperationType /\ RanFrom(Oldest, op) /\ op.id = Oldest.id
  BY <1>1, <1>2, OldestTyped, Unrun
<1>6. CallsInv'
  BY <1>1, <1>3, <1>4, <1>5, CompletionCalls DEF OrderInv
<1>7. Fits(text', Seen(op))
  BY <1>1, <1>2, <1>4 DEF OrderInv, FrontFits
<1>8. Fits(text', Newest(Oldest))
  BY <1>2, <1>5, <1>7, SeenIsMade, FitsMore
<1>9. FrontFits'
  BY <1>1, <1>3, <1>4, <1>5, <1>7, <1>8, CompletionFits
<1> QED
  BY <1>4, <1>6, <1>9 DEF OrderInv, Writing

(* The edit session runs the front of the queue.                            *)
LEMMA EditOrder ==
  ASSUME TextInv, QInv', OrderInv, EditSession
  PROVE  OrderInv'
<1> PICK answer \in Answerable(text, Oldest.context),
         fault \in (Faults \cap SessionFaults) \cup {"none"} :
      Effect(Oldest, RunInput(text, Oldest, chinese, answer, fault), answer)
  BY DEF EditSession
<1>1. PICK op : op = Oldest
  OBVIOUS
<1>2. PICK run : run = RunInput(text, op, chinese, answer, fault)
  OBVIOUS
<1>3. QInv /\ queue # <<>> /\ blocked \in BOOLEAN
  BY TypedState DEF TextInv, IInv, EditSession
<1>4. /\ op \in OperationType /\ op.id \in Made /\ op.id # 0
      /\ op.context \in Contexts /\ op.kind \in {"key", "symbol", "mode"}
  <2>1. /\ op \in OperationType /\ op.id \in Made
        /\ op.context \in Contexts /\ op.kind \in {"key", "symbol", "mode"}
    BY <1>1, <1>3, FrontOwned DEF InputKinds
  <2> QED
    BY <2>1, TypedState, <1>3 DEF Made
<1>5. /\ Fits(text, Made) /\ chinese \in BOOLEAN /\ (chinese \/ text.engine = <<>>)
      /\ Orderly(text, passed) /\ Fits(text, Seen(op))
  BY <1>1, <1>3 DEF TextInv, History, OrderInv, Writing, FrontFits
<1>6. answer \in Answerable(text, op.context) /\ answer \in Answers
  BY <1>1 DEF Answerable
<1>7. RunServes(RunInput(text, op, chinese, answer, fault), text, op, chinese, Made, typedIn)
  BY <1>4, <1>5, <1>6, RunInputServes
<1>8. /\ ~chinese /\ text.engine = <<>> => run.text.engine = <<>>
      /\ op.kind = "mode" /\ run.ok => run.text.engine = <<>>
  BY <1>2, <1>7 DEF RunServes
<1>9. RunOrders(run, op, passed)
  <2>1. PICK P : P = passed
    OBVIOUS
  <2>2. PICK t : t = text
    OBVIOUS
  <2>3. PICK mode : mode = chinese
    OBVIOUS
  <2>4. Fits(t, Seen(op)) /\ Orderly(t, P) /\ mode \in BOOLEAN /\ (mode \/ t.engine = <<>>)
        /\ answer \in Answerable(t, op.context)
    BY <1>5, <1>6, <2>1, <2>2, <2>3
  <2>5. RunOrders(RunInput(t, op, mode, answer, fault), op, P)
    BY <1>4, <2>4, RunInputOrder
  <2> QED
    BY <1>2, <2>1, <2>2, <2>3, <2>5
<1>10. PICK outcome : outcome = IF run.ok THEN "done" ELSE "failed"
  OBVIOUS
<1>11. /\ text' = run.text /\ Completes(run, outcome) /\ passed' = passed
       /\ chinese' = IF op.kind = "mode" /\ run.ok THEN op.value ELSE chinese
  BY <1>1, <1>2, <1>10 DEF Effect
<1>12. PICK ran : ran = run.op
  OBVIOUS
<1>13. RanFrom(Oldest, ran) /\ ran \in OperationType /\ ran.id = op.id /\ ran.kind = op.kind
  <2>1. RanFrom(op, ran)
    BY <1>2, <1>4, <1>6, <1>12, RunLeavesOperation
  <2> QED
    BY <1>1, <1>4, <2>1, RunKeepsIdentity DEF RanFrom
<1>14. CompleteInput(ran, outcome) /\ outcome \in {"done", "failed"}
       /\ (request' = request \/ request' = Answer(ran, outcome))
  BY <1>10, <1>11, <1>12 DEF Completes, RunDirect, RunNow, RunSession
<1>15. pump' = "off" => blocked' = TRUE
  <2>1. pump' = "off" => blocked'
    BY <1>10, <1>11, <1>12 DEF Completes, RunDirect, RunNow, RunSession, Ready
  <2>2. blocked' \in BOOLEAN
    BY DEF QInv, QueueTypeOK
  <2> QED
    BY <2>1, <2>2
<1>16. CallsInv'
  BY <1>3, <1>13, <1>14, <1>15, CompletionCalls DEF OrderInv
<1>17. Orderly(text', passed) /\ Fits(text', Newest(Oldest))
  BY <1>1, <1>9, <1>11 DEF RunOrders, Ordered, Sound
<1>18. ran.kind = "key" => Fits(text', Seen(ran))
  BY <1>9, <1>11, <1>12, <1>13 DEF RunOrders, KeyOrdered, Ordered, Sound
<1>19. FrontFits'
  BY <1>1, <1>3, <1>13, <1>14, <1>17, <1>18, CompletionFits
<1>20. Writing'
  BY <1>5, <1>8, <1>11 DEF Writing
<1> QED
  BY <1>11, <1>16, <1>17, <1>19, <1>20 DEF OrderInv

(* A cancellation: the queue is dropped, and the rest stays in order. *)
LEMMA CancelOrder ==
  ASSUME TextInv, QInv', OrderInv, queue' = <<>>, SameCall, AsksFresh',
         text' = Cancelled(text) \/ text' = Abandon(Cancelled(text)),
         UNCHANGED <<chinese, passed>>
  PROVE  OrderInv'
<1>1. QInv /\ Fits(text, Made) /\ Orderly(text, passed)
  BY DEF TextInv, IInv, OrderInv
<1>2. CallsInv'
  BY <1>1, EmptyCalls DEF OrderInv
<1>3. PICK t : t = text
  OBVIOUS
<1>4. PICK P : P = passed
  OBVIOUS
<1>5. Fits(t, Made) /\ Orderly(t, P)
  BY <1>1, <1>3, <1>4
<1>6. CASE text' = Cancelled(text)
  <2>1. Orderly(Cancelled(t), P) /\ CancelledAs(Cancelled(t), t, Made)
    BY <1>5, CancelledOrder, CancelledFits
  <2>2. Orderly(text', P) /\ text'.engine = text.engine
    BY <1>3, <1>6, <2>1 DEF CancelledAs
  <2> QED
    BY <1>2, <1>4, <2>2 DEF OrderInv, Writing, FrontFits
<1>7. CASE text' = Abandon(Cancelled(text))
  <2>1. Orderly(Abandon(Cancelled(t)), P)
    BY <1>5, DroppedOrder
  <2>2. DroppedAs(Abandon(Cancelled(t)), t, Made, typedIn)
    BY <1>5, DroppedServes
  <2>3. Orderly(text', P) /\ text'.engine = <<>>
    BY <1>3, <1>7, <2>1, <2>2 DEF DroppedAs
  <2> QED
    BY <1>2, <1>4, <2>3 DEF OrderInv, Writing, FrontFits
<1> QED
  BY <1>6, <1>7

(* A step that leaves queue and text alone. *)
LEMMA QuietOrder ==
  ASSUME TextInv, QInv', OrderInv, SameCall, AsksFresh', Served',
         UNCHANGED <<queue, text, chinese, passed>>
  PROVE  OrderInv'
<1>1. CallsInv'
  BY QuietCalls DEF TextInv, IInv, OrderInv
<1> QED
  BY <1>1 DEF OrderInv, Writing, FrontFits, Oldest

(* A key, a symbol or a switch is requested.                                *)
LEMMA AskedOrder ==
  ASSUME TextInv, QInv', OrderInv, KeyDown \/ Symbol \/ Toggle
  PROVE  OrderInv'
<1>1. PICK op : Request(op) /\ ~op.handled
  <2>1. \A kind, c, value : ~Operation(kind, c, value).handled
    BY DEF Operation
  <2>2. \E kind, c, value : Request(Operation(kind, c, value))
    BY Zenon DEF KeyDown, Symbol, Toggle
  <2> QED
    BY <2>1, <2>2
<1>2. /\ Idle /\ request' = [stage |-> "push", op |-> op]
      /\ UNCHANGED <<queue, active, blocked>>
  BY <1>1 DEF Request
<1>3. UNCHANGED <<text, chinese, passed>>
  BY DEF KeyDown, Symbol, Toggle, textVars
<1>4. Served'
  BY <1>2 DEF OrderInv, CallsInv, Served, Idle
<1>5. SameCall /\ AsksFresh'
  BY <1>1, <1>2 DEF SameCall, AsksFresh
<1> QED
  BY <1>2, <1>3, <1>4, <1>5, QuietOrder

(* The pump runs, or the host grants a lock.                                *)
LEMMA PumpedOrder ==
  ASSUME TextInv, QInv', OrderInv, Pumped
  PROVE  OrderInv'
<1>1. UNCHANGED <<text, chinese, passed>> /\ QInv
  BY DEF Pumped, NoSession, TextInv, IInv
<1>2. CASE PumpEnter \/ PumpStop
  <2>1. UNCHANGED <<queue, active, blocked, request>>
    BY <1>2 DEF PumpEnter, PumpStop
  <2>2. pump' = "off" => active # None \/ blocked \/ queue = <<>>
    BY <1>2 DEF PumpEnter, PumpStop
  <2>3. SameCall /\ AsksFresh' /\ Served'
    BY <2>1, <2>2 DEF SameCall, Twin, AsksFresh, Served, OrderInv, CallsInv
  <2> QED
    BY <1>1, <2>1, <2>3, QuietOrder
<1>3. CASE Grant
  <2>1. CallsInv' /\ queue # <<>> /\ queue' # <<>> /\ Seen(Oldest') = Seen(Oldest)
    BY <1>1, <1>3, GrantCalls DEF OrderInv
  <2> QED
    BY <1>1, <2>1 DEF OrderInv, Writing, FrontFits
<1> QED
  BY <1>2, <1>3 DEF Pumped

(* The session finds its field disabled, or is released without being run.  *)
LEMMA InterruptedOrder ==
  ASSUME TextInv, QInv', OrderInv, Interrupted
  PROVE  OrderInv'
<1>1. /\ queue # <<>> /\ QInv /\ text' = Cancelled(text) /\ UNCHANGED <<chinese, passed>>
  BY DEF Interrupted, TextInv, IInv
<1>2. PICK cancelled : cancelled = "cancelled"
  OBVIOUS
<1>3. \/ /\ CompleteInput(Oldest, cancelled)
         /\ request' = request \/ request' = Answer(Oldest, cancelled)
      \/ CancelInput /\ request' = request
  BY <1>2 DEF Interrupted, RunNow, RunSession, DropSession
<1>4. queue' = <<>>
  BY <1>2, <1>3 DEF CompleteInput, Blocks, CancelInput
<1>5. SameCall /\ request'.stage = request.stage /\ (request.stage # "return" => request' = request)
  BY <1>1, <1>3, AnswerSameCall
<1>6. AsksFresh'
  BY <1>5 DEF AsksFresh, OrderInv, CallsInv
<1> QED
  BY <1>1, <1>4, <1>5, <1>6, CancelOrder

(* A call of another field supersedes what is queued or retained.           *)
LEMMA SupersededOrder ==
  ASSUME TextInv, QInv', OrderInv, Superseded
  PROVE  OrderInv'
<1>1. /\ queue' = <<>> /\ request' = [request EXCEPT !.stage = "append"] /\ request.stage = "push"
      /\ text' = Abandon(Cancelled(text)) /\ UNCHANGED <<chinese, passed>>
  BY DEF Superseded, Supersede, CancelInput
<1>2. request \in RequestType
  BY TypedState DEF TextInv, IInv
<1>3. request'.stage = "append" /\ request'.op = request.op
  BY <1>1, <1>2 DEF RequestType
<1>4. SameCall /\ AsksFresh'
  BY <1>1, <1>3 DEF SameCall, AsksFresh, OrderInv, CallsInv
<1> QED
  BY <1>1, <1>4, CancelOrder

(* Every step keeps the invariant.                                          *)
LEMMA OrderStep ==
  ASSUME TextInv, OrderInv, [Next]_vars
  PROVE  OrderInv'
<1>1. QInv'
  BY IInvKept DEF TextInv, IInv
<1>2. CASE UNCHANGED vars \/ Stale \/ UNCHANGED <<queueVars, text, chinese, passed>>
  <2>1. UNCHANGED <<queue, active, blocked, pump, request, text, chinese, passed>>
    BY <1>2 DEF vars, textVars, queueVars, Stale, StaleSession, NoSession
  <2>2. SameCall /\ AsksFresh' /\ Served'
    BY <2>1 DEF SameCall, Twin, AsksFresh, Served, OrderInv, CallsInv
  <2> QED
    BY <1>1, <2>1, <2>2, QuietOrder
<1>3. CASE KeyDown \/ Symbol \/ Toggle
  BY <1>1, <1>3, AskedOrder
<1>4. CASE Withdrawn
  <2>1. /\ request' = NoRequest
        /\ UNCHANGED <<queue, active, blocked, pump, text, chinese, passed>>
    BY <1>4 DEF Withdrawn, Withdraw, textVars
  <2>2. SameCall /\ AsksFresh' /\ Served'
    BY <2>1, NoRequestTyped DEF SameCall, AsksFresh, Served, OrderInv, CallsInv
  <2> QED
    BY <1>1, <2>1, <2>2, QuietOrder
<1>5. CASE Returned
  BY <1>1, <1>5, ReturnedOrder
<1>6. CASE Pushed
  BY <1>6, PushedOrder
<1>7. CASE Pumped
  BY <1>1, <1>7, PumpedOrder
<1>8. CASE Denied
  BY <1>1, <1>8, DeniedOrder
<1>9. CASE EditSession
  BY <1>1, <1>9, EditOrder
<1>10. CASE Interrupted
  BY <1>1, <1>10, InterruptedOrder
<1>11. CASE Superseded
  BY <1>1, <1>11, SupersededOrder
<1>12. ASSUME Cancel, text' = Cancelled(text) \/ text' = Abandon(Cancelled(text)),
              UNCHANGED <<chinese, passed>>
       PROVE  OrderInv'
  <2>1. queue' = <<>> /\ request' = request
    BY <1>12 DEF Cancel, CancelInput
  <2>2. SameCall /\ AsksFresh'
    BY <2>1 DEF SameCall, Twin, AsksFresh, OrderInv, CallsInv
  <2> QED
    BY <1>1, <1>12, <2>1, <2>2, CancelOrder
<1>13. CASE CaretMoved \/ Deactivated
  <2>1. Cancel /\ UNCHANGED <<chinese, passed>>
    BY <1>13 DEF CaretMoved, Deactivated
  <2>2. text' = Cancelled(text) \/ text' = Abandon(Cancelled(text))
    BY <1>13 DEF CaretMoved, Deactivated
  <2> QED
    BY <1>12, <2>1, <2>2
<1>14. CASE \E c \in Contexts : FocusMoves(c)
  <2>1. UNCHANGED <<chinese, passed>>
        /\ (UNCHANGED <<queueVars, text>> \/ (Cancel /\ text' = Abandon(Cancelled(text))))
    BY <1>14 DEF FocusMoves
  <2> QED
    BY <1>2, <1>12, <2>1
<1> QED
  BY <1>2, <1>3, <1>4, <1>5, <1>6, <1>7, <1>8, <1>9, <1>10, <1>11, <1>13, <1>14 DEF Next

(* It holds of empty fields.                                                *)
LEMMA OrderInit ==
  ASSUME Init
  PROVE  OrderInv
<1>1. queue = <<>> /\ request = NoRequest /\ passed = {} /\ DOMAIN queue = {}
  BY DEF Init, QueueInit
<1>2. PICK doc : doc = [c \in Contexts |-> <<>>]
  OBVIOUS
<1>3. PICK caret : caret = [c \in Contexts |-> 0]
  OBVIOUS
<1>4. PICK e : e = <<>>
  OBVIOUS
<1>5. text = TextOf(doc, caret, NoComposition, e, NoResult)
  BY <1>2, <1>3, <1>4 DEF Init, TextOf
<1>6. /\ text.doc = doc /\ text.caret = caret /\ text.comp = NoComposition /\ text.engine = e
      /\ text.retained = NoResult
  BY <1>5, FieldsOf
<1>7. ~Retaining(text) /\ text.comp.context = NoContext
  BY <1>6, NothingTyped DEF Retaining
<1>8. \A c \in Contexts : ~Composing(text, c)
  BY <1>7, NoContextAssumption DEF Composing
<1>9. Rises(e, {}) /\ \A P, f, lo, hi, ahead : Line(e, P, f, lo, hi, ahead)
  <2>1. DOMAIN e = {}
    BY <1>4
  <2> QED
    BY <2>1 DEF Rises, Line
<1>10. \A c \in Contexts : text.doc[c] = e
  BY <1>2, <1>4, <1>6
<1>11. Lines(text, passed)
  BY <1>9, <1>10, Zenon DEF Lines, LineOf
<1>12. ResultRises(text) /\ CaretsFollow(text) /\ EndsInPlace(text)
  BY <1>6, <1>7, <1>8, <1>9 DEF ResultRises, CaretsFollow, EndsInPlace, EndDue
<1>13. CallsInv
  BY <1>1, NoRequestTyped DEF CallsInv, OnlyFirst, Served, AsksFresh, LastCalled
<1> QED
  BY <1>1, <1>4, <1>6, <1>11, <1>12, <1>13 DEF OrderInv, Orderly, Writing, FrontFits

(* The invariant says that what the service itself wrote rises in every     *)
(* field.                                                                   *)
LEMMA OrderIsKept ==
  ASSUME OrderInv
  PROVE  KeepsOrder
<1> SUFFICES ASSUME NEW c \in Contexts, NEW i \in DOMAIN text.doc[c], NEW j \in DOMAIN text.doc[c],
                    i < j, {text.doc[c][i], text.doc[c][j]} \cap passed = {}
             PROVE  text.doc[c][i] < text.doc[c][j]
  BY DEF KeepsOrder
<1>1. Rises(text.doc[c], passed)
  BY DEF OrderInv, Orderly, Lines, LineOf, Line
<1>2. text.doc[c][i] \notin passed /\ text.doc[c][j] \notin passed
  OBVIOUS
<1> QED
  BY <1>1, <1>2 DEF Rises

(* The service's own text has the order of the keys and each character      *)
(* once, for every engine answer, every half-write the host refuses, every  *)
(* retry, cancellation and change of focus, whether the host keeps its      *)
(* contract or not.                                                         *)
THEOREM TextKeepsOrder == Spec => []KeepsOrder
<1>1. Init => TextInv /\ OrderInv
  BY TextInit, OrderInit
<1>2. (TextInv /\ OrderInv) /\ [Next]_vars => (TextInv /\ OrderInv)'
  BY TextStep, OrderStep
<1>3. OrderInv => KeepsOrder
  BY OrderIsKept
<1> QED
  BY <1>1, <1>2, <1>3, PTL DEF Spec
=============================================================================
