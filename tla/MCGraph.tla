------------------------------ MODULE MCGraph ------------------------------
(* One syllable, whose words are up to four long, and one punctuation.      *)
(* Readings are numbers, so that queries are ordered.                       *)
EXTENDS GraphEdits, TLC

Row(text, score) == [text |-> text, score |-> score]

MCRows ==
  <<1>> :> <<Row("a", -4), Row("b", -5)>>
    @@ <<2>> :> <<Row("comma", -3)>>
    @@ <<1, 1>> :> <<Row("aa", -7)>>
    @@ <<1, 1, 1>> :> <<Row("aaa", -13)>>
    @@ <<1, 1, 1, 1>> :> <<Row("aaaa", -10)>>

MCLexicon == [query \in {q \in DOMAIN MCRows : Len(q) <= MaxSpan} |-> MCRows[query]]

(* After "a", "b" is likelier.                                              *)
MCBigrams == <<"a", "b">> :> -3

MCPunctuation == {2}
=============================================================================
