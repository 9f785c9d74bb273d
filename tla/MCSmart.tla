------------------------------ MODULE MCSmart ------------------------------
(* A lexicon with one syllable, a word of two, a punctuation that can be    *)
(* two characters, and the literal space; the other syllable is in no word. *)
EXTENDS SmartComposition, TLC

Row(text, score) == [text |-> text, score |-> score]

Syllable == 1
Comma == 2
Space == 3
Unknown == 9

MCLexicon ==
  <<1>> :> <<Row("a", -4)>>
    @@ <<2>> :> <<Row("comma", -3), Row("dot", -6)>>
    @@ <<3>> :> <<Row("space", -3)>>
    @@ <<1, 1>> :> <<Row("aa", -7)>>

MCBigrams == <<>>

MCSyllables == {Syllable, Unknown}
MCPunctuation == {Comma}
MCLiterals == {Space}

Set(atEnd, toEnd, spaceOpens, escapeClears) ==
  [candidate_cursor_at_end |-> atEnd, selection_returns_to_end |-> toEnd,
   space_opens_candidates |-> spaceOpens, clear_composing_with_escape |-> escapeClears]

MCOptions == {Set(FALSE, FALSE, TRUE, FALSE), Set(TRUE, TRUE, FALSE, TRUE)}
=============================================================================
