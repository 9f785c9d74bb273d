-------------------------- MODULE SmartComposition --------------------------
(***************************************************************************)
(* Smart Mandarin composition: SmartState in smart.rs, with the gates that *)
(* engine.rs puts before it.  Each action is one operation that a front    *)
(* end applies to a session.  A syllable is one key that leaves it         *)
(* unfinished or completes it; what a call has no effect on is left out.   *)
(***************************************************************************)
EXTENDS SmartGraph

CONSTANTS
  Syllables,    \* what the phonetic keys can spell
  NoReading,    \* no key of a syllable has been typed
  Literals,     \* readings of characters that stand for themselves
  Blank,        \* the text of the literal space
  Limit,        \* max_completed_syllables, less one with shift_at_limit
  MarkSpan,     \* how far a phrase mark reaches: 6
  Options       \* the smart options in use

ASSUME BoundsAssumption == Limit \in Nat \ {0} /\ MarkSpan \in Nat \ {0}

(* MAXIMUM_SPAN is 8, and the limit is at least 10, less one.               *)
ASSUME LimitAssumption == MaxSpan <= Limit

ASSUME ReadingAssumption == NoReading \notin Syllables

(* The space is a character that stands for itself, never part of a word.   *)
ASSUME BlankAssumption ==
  \A query \in DOMAIN Lexicon : Blank \in Texts(query) => Len(query) = 1

Option == [candidate_cursor_at_end : BOOLEAN, selection_returns_to_end : BOOLEAN,
           space_opens_candidates : BOOLEAN, clear_composing_with_escape : BOOLEAN]

ASSUME OptionsAssumption == Options \subseteq Option

VARIABLES
  smart,        \* SmartState, with the effects of the last call
  options       \* SmartOptions

vars == <<smart, options>>

NoMark == -1
Moves == {"left", "right", "home", "end"}

Size(s) == Len(s.graph.readings)
IsEmpty(s) == Size(s) = 0
IsReading(s) == s.reading # NoReading
PanelOpen == smart.candidates # {}
IsKnown(reading) == Words(<<reading>>) # <<>>
AtMost(a, b) == IF a < b THEN a ELSE b
AtLeast(a, b) == IF a > b THEN a ELSE b

Cleared(s) ==
  [s EXCEPT !.graph = EmptyGraph, !.reading = NoReading, !.cursor = 0,
            !.candidates = {}, !.mark = NoMark]

Init ==
  /\ options \in Options
  /\ smart = [graph |-> EmptyGraph, reading |-> NoReading, cursor |-> 0, candidates |-> {},
              mark |-> NoMark, commit |-> <<>>]

(* What a call starts from: effects are those of one call.                  *)
Called == [smart EXCEPT !.commit = <<>>]

-----------------------------------------------------------------------------
(* cancel_mark_for_other_key: the cursor goes back to where the mark began. *)
Unmarked(s) ==
  IF s.mark = NoMark THEN s
  ELSE [s EXCEPT !.mark = NoMark, !.cursor = AtMost(s.mark, Size(s))]

NoCandidates(s) == [s EXCEPT !.candidates = {}]

(* shift_segment: a word goes to the host, positions move with the rest.    *)
ShiftedForgetting(s) ==
  LET first == s.graph.path[1]
  IN [NoCandidates(s) EXCEPT
        !.graph = Shifted(s.graph),
        !.commit = <<first.text>>,
        !.cursor = AtLeast(@ - Span(first.node), 0),
        !.mark = IF @ = NoMark THEN NoMark ELSE AtLeast(@ - Span(first.node), 0)]

ShiftedByOne(s) ==
  LET first == s.graph.path[1]
  IN [NoCandidates(s) EXCEPT
        !.graph = Shifted(s.graph),
        !.commit = Append(@, first.text),
        !.cursor = AtLeast(@ - 1, 0),
        !.mark = IF @ = NoMark THEN NoMark ELSE AtLeast(@ - Span(first.node), 0)]

ShiftSegment(s) ==
  LET first == s.graph.path[1]
  IN [NoCandidates(s) EXCEPT
        !.graph = Shifted(s.graph),
        !.commit = Append(@, first.text),
        !.cursor = AtLeast(@ - Span(first.node), 0),
        !.mark = IF @ = NoMark THEN NoMark ELSE AtLeast(@ - Span(first.node), 0)]

(* enforce_limit: words go from the front until the rest is short enough    *)
(* and does not begin with a space.                                         *)
IsTooLong(s) == Size(s) > Limit
LeadsWithSpace(s) == s.graph.path # <<>> /\ s.graph.path[1].text = Blank

ShiftedOnce(s) == IF IsTooLong(s) \/ LeadsWithSpace(s) THEN ShiftSegment(s) ELSE s
Clamped(s) == [s EXCEPT !.cursor = AtMost(@, Size(s))]

EnforceLimit(s) ==
  LET shifted[n \in 0..Size(s)] == IF n = 0 THEN s ELSE ShiftedOnce(shifted[n - 1])
  IN IF IsReading(s) THEN s
     ELSE Clamped(IF IsTooLong(s) THEN shifted[Size(s)] ELSE s)

InsertionPoint(s) == IF options.selection_returns_to_end THEN Size(s) ELSE s.cursor

WithReading(s, reading) ==
  LET index == InsertionPoint(s)
  IN [NoCandidates(s) EXCEPT !.graph = Inserted(s.graph, index, reading),
                             !.cursor = index + 1]

InsertReading(s, reading) ==
  IF IsKnown(reading) THEN EnforceLimit(WithReading(s, reading)) ELSE NoCandidates(s)

(* complete_reading: an unknown syllable stays as it is.                    *)
CompleteReadingLate(s) ==
  IF IsReading(s) /\ IsKnown(s.reading)
    THEN [EnforceLimit(WithReading(s, s.reading)) EXCEPT !.reading = NoReading]
    ELSE s

CompleteReading(s) ==
  IF IsReading(s) /\ IsKnown(s.reading)
    THEN EnforceLimit([WithReading(s, s.reading) EXCEPT !.reading = NoReading])
    ELSE s

Literal(s, reading) ==
  IF IsReading(s) THEN s
  ELSE IF IsEmpty(s) THEN [s EXCEPT !.commit = Append(@, Words(<<reading>>)[1].text)]
  ELSE InsertReading(s, reading)

(* open_candidates, for the reading at the cursor.                          *)
OpenFor(s, target) ==
  LET found == CandidatesAt(s.graph, target, options.candidate_cursor_at_end)
  IN [s EXCEPT !.mark = NoMark,
               !.candidates = IF IsReading(s) THEN @
                              ELSE IF IsEmpty(s) \/ Cardinality(found) < 2 THEN {} ELSE found]

OpenAtCursor(s) ==
  OpenFor(s, IF options.candidate_cursor_at_end
               THEN AtLeast(s.cursor, 1) ELSE AtMost(s.cursor, Size(s) - 1))

(* finish commits what is visible; where in it the unfinished syllable      *)
(* stands is left out.                                                      *)
Finished(s) ==
  [Cleared(s) EXCEPT !.commit = @ \o Text(s.graph) \o (IF IsReading(s) THEN <<s.reading>> ELSE <<>>)]

-----------------------------------------------------------------------------
(* Characters.  smart_character lets none through while a panel is open.    *)

(* A key of a syllable that does not complete it; the mark stays.           *)
StartReading(syllable) ==
  /\ ~PanelOpen
  /\ smart' = [Called EXCEPT !.reading = syllable]

(* A tone.                                                                  *)
WithTone(syllable) == CompleteReading([Called EXCEPT !.reading = syllable])

FinishReading(syllable) == ~PanelOpen /\ smart' = WithTone(syllable)

(* Capitals and characters typed under Caps Lock.                           *)
TypeLiteral(reading) ==
  /\ ~PanelOpen
  /\ smart' = Literal(Unmarked(Called), reading)

(* A punctuation key; over a syllable one beyond ASCII supersedes it, and   *)
(* another is refused.                                                      *)
TypePunctuation(reading, isAscii) ==
  /\ ~PanelOpen
  /\ isAscii \/ IsReading(smart)
  /\ LET s == Unmarked(Called)
     IN smart' = IF IsReading(s) /\ isAscii THEN s
                 ELSE InsertReading([s EXCEPT !.reading = NoReading], reading)

(* A punctuation key with Control: offers what else the reading can be.     *)
TypeControlPunctuation(reading) ==
  /\ ~PanelOpen /\ ~IsReading(smart)
  /\ LET s == InsertReading(Unmarked(Called), reading)
     IN smart' = IF Len(Words(<<reading>>)) > 1 THEN OpenAtCursor(s) ELSE s

(* direct_text comes from the front end, whether a panel is open or not.    *)
DirectText(reading) ==
  LET s == Unmarked([NoCandidates(Called) EXCEPT !.reading = NoReading])
  IN smart' = IF IsEmpty(s) THEN [s EXCEPT !.commit = <<Words(<<reading>>)[1].text>>]
              ELSE InsertReading(s, reading)

-----------------------------------------------------------------------------
(* Keys.  process_mark_key comes first: Shift moves the end of the mark,    *)
(* Return confirms it, Escape and the cursor keys drop it.                  *)
Target(s, key) ==
  CASE key = "left" -> AtLeast(s.cursor - 1, 0)
    [] key = "right" -> AtMost(s.cursor + 1, Size(s))
    [] key = "home" -> 0
    [] key = "end" -> Size(s)

Mark(key) ==
  /\ ~PanelOpen /\ ~IsReading(smart) /\ ~IsEmpty(smart)
  /\ LET anchor == IF smart.mark = NoMark THEN smart.cursor ELSE smart.mark
         next == AtMost(AtLeast(Target(smart, key), anchor - MarkSpan), anchor + MarkSpan)
     IN smart' = [Called EXCEPT !.cursor = next,
                                !.mark = IF next = anchor THEN NoMark ELSE anchor]

(* A confirmed mark may be saved as a phrase, which rebuilds the graph;     *)
(* nothing is committed to the host, and the composition stays.             *)
EndMark(saved) ==
  /\ ~PanelOpen /\ smart.mark # NoMark
  /\ smart' = [Called EXCEPT !.mark = NoMark, !.graph = IF saved THEN Rebuilt(@) ELSE @]

(* Space, Return or Down on an unfinished syllable; Return with a mark      *)
(* confirms that instead.                                                   *)
CompleteKey ==
  /\ ~PanelOpen /\ IsReading(smart)
  /\ smart' = CompleteReading(Unmarked(Called))

ReturnKey ==
  /\ ~PanelOpen /\ ~IsReading(smart) /\ ~IsEmpty(smart) /\ smart.mark = NoMark
  /\ smart' = Finished(Called)

(* Down, and Space where it opens candidates.                               *)
OpenKey ==
  /\ ~PanelOpen /\ ~IsReading(smart) /\ ~IsEmpty(smart)
  /\ smart' = OpenAtCursor(Unmarked(Called))

SpaceKey(reading) ==
  /\ ~PanelOpen /\ ~IsReading(smart) /\ ~options.space_opens_candidates
  /\ smart' = Literal(Unmarked(Called), reading)

(* Backspace takes a component of the syllable, perhaps its last.           *)
Backspace ==
  /\ ~PanelOpen
  /\ LET s == Unmarked(Called)
     IN IF IsReading(s)
          THEN \E reading \in {NoReading, s.reading} : smart' = [s EXCEPT !.reading = reading]
          ELSE smart' = IF s.cursor = 0 THEN s
                        ELSE [s EXCEPT !.graph = Removed(@, s.cursor - 1), !.cursor = @ - 1]

Delete ==
  /\ ~PanelOpen
  /\ LET s == Unmarked(Called)
     IN smart' = IF IsReading(s) \/ s.cursor = Size(s) THEN s
                 ELSE [s EXCEPT !.graph = Removed(@, s.cursor)]

Escape ==
  /\ ~PanelOpen /\ smart.mark = NoMark
  /\ IF IsReading(smart) THEN smart' = [Called EXCEPT !.reading = NoReading]
     ELSE /\ options.clear_composing_with_escape
          /\ smart' = Cleared(Called)

MoveCursor(key) ==
  /\ ~PanelOpen /\ ~IsReading(smart) /\ ~IsEmpty(smart)
  /\ smart.mark # NoMark => key \in {"home", "end"}
  /\ smart' = [Unmarked(Called) EXCEPT !.cursor = Target(Unmarked(Called), key)]

(* Other keys only return the cursor to where the mark began.               *)
OtherKey ==
  /\ ~PanelOpen /\ smart.mark # NoMark
  /\ smart' = Unmarked(Called)

-----------------------------------------------------------------------------
(* Operations of the front end, and of the panel.                           *)

(* A selection may be learned, which rebuilds the graph too.                *)
Select(candidate, learned) ==
  /\ Selectable(smart.graph, candidate)
  /\ smart' = [NoCandidates(Called) EXCEPT
                 !.graph = IF learned THEN Rebuilt(Selected(@, candidate))
                           ELSE Selected(@, candidate),
                 !.cursor = AtMost(IF options.selection_returns_to_end THEN Size(smart)
                                   ELSE IF options.candidate_cursor_at_end THEN @
                                   ELSE candidate.start + Len(candidate.query), Size(smart))]

ClosePanel == PanelOpen /\ smart' = NoCandidates(Called)

OpenKeepingMark(index) ==
  LET s == NoCandidates(Called)
      at == index + IF options.candidate_cursor_at_end THEN 1 ELSE 0
  IN smart' = IF IsReading(s) THEN [s EXCEPT !.mark = NoMark]
              ELSE [OpenFor([s EXCEPT !.cursor = at], at) EXCEPT !.mark = s.mark]

OpenCandidates(index) ==
  LET s == NoCandidates(Called)
      at == index + IF options.candidate_cursor_at_end THEN 1 ELSE 0
  IN smart' = IF IsReading(s) THEN [s EXCEPT !.mark = NoMark]
              ELSE OpenFor([s EXCEPT !.cursor = at], at)

SetCursor(index) ==
  /\ ~IsReading(smart)
  /\ smart' = [NoCandidates(Called) EXCEPT !.cursor = index, !.mark = NoMark]

(* set_user_data with other phrases or options for learning.                *)
SetLearningOptions ==
  smart' = [NoCandidates(Called) EXCEPT !.graph = Rebuilt(@)]

(* A hand-off, with the syllable completed first or as it is; other modes   *)
(* and layouts end the composition in the same way.                         *)
FinishComposition(complete) ==
  smart' = Finished(IF complete THEN CompleteReading(Called) ELSE Called)

Reset == smart' = Cleared(Called)

SetSmartOptions(new) == options' = new /\ smart' = NoCandidates(Called)

-----------------------------------------------------------------------------
Characters ==
  \/ \E s \in Syllables : StartReading(s) \/ FinishReading(s)
  \/ \E r \in Literals : TypeLiteral(r)
  \/ \E r \in Punctuation, isAscii \in BOOLEAN : TypePunctuation(r, isAscii)
  \/ \E r \in Punctuation : TypeControlPunctuation(r)
  \/ \E r \in Literals : DirectText(r)

Keys ==
  \/ \E key \in Moves : Mark(key) \/ MoveCursor(key)
  \/ \E saved \in BOOLEAN : EndMark(saved)
  \/ CompleteKey \/ ReturnKey \/ OpenKey
  \/ \E r \in Literals : Words(<<r>>)[1].text = Blank /\ SpaceKey(r)
  \/ Backspace \/ Delete \/ Escape \/ OtherKey

Operations ==
  \/ \E candidate \in smart.candidates, learned \in BOOLEAN : Select(candidate, learned)
  \/ ClosePanel
  \/ \E index \in 0..Size(smart) - 1 : OpenCandidates(index)
  \/ \E index \in 0..Size(smart) : SetCursor(index)
  \/ SetLearningOptions
  \/ \E complete \in BOOLEAN : FinishComposition(complete)
  \/ Reset

Next ==
  \/ (Characters \/ Keys \/ Operations) /\ UNCHANGED options
  \/ \E new \in Options : SetSmartOptions(new)

Spec == Init /\ [][Next]_vars

-----------------------------------------------------------------------------
Positions(s) == 0..Size(s)

(* Whatever is offered on an open panel can still be selected: select is    *)
(* not refused because the graph changed under the panel, and no syllable   *)
(* or mark is in progress that the selection would have to move.            *)
OffersAreCurrent ==
  PanelOpen =>
    /\ \A candidate \in smart.candidates : Selectable(smart.graph, candidate)
    /\ ~IsReading(smart) /\ smart.mark = NoMark

(* A composition is never left longer than its limit.                       *)
LimitHolds == Size(smart) <= Limit

(* A syllable completed now, whatever was done before, commits from the     *)
(* front exactly what was shown there: what goes to the host and what is    *)
(* left is what the composition with the syllable would have shown.         *)
HandoffKeepsText ==
  \A q \in Syllables : ~PanelOpen /\ IsKnown(q) =>
    LET after == WithTone(q)
    IN after.commit \o Text(after.graph)
         = Text(Inserted(smart.graph, InsertionPoint(smart), q))

(* The cursor then stays behind that syllable, also when words leave at the *)
(* front, unless the syllable left with them; and neither cursor nor mark   *)
(* is ever beyond the readings that are there.                              *)
CursorFollowsReading ==
  /\ smart.cursor \in Positions(smart) /\ smart.mark \in Positions(smart) \cup {NoMark}
  /\ \A q \in Syllables : ~PanelOpen /\ IsKnown(q) =>
       LET after == WithTone(q)
       IN after.cursor = 0 \/ Size(after) - after.cursor = Size(smart) - InsertionPoint(smart)
=============================================================================
