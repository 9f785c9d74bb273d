---------------------------- MODULE MCDictionary ----------------------------
(* Two sessions editing one dictionary: additions, edits, replacements,     *)
(* imports and resets interleaved.                                          *)
EXTENDS LearningSession, TLC

CONSTANTS a, b, p, q, listed, blank

MCDictionary == <<a, b>>

MCPhrases == <<[key |-> q, score |-> 1]>>
MCTable == <<<<[method |-> "cangjie", current |-> b, count |-> 2]>>>>
MCSmart == <<[overrides |-> <<[qstring |-> p, current |-> a]>>, bigrams |-> <<>>]>>

(* One replaces every method's frequencies, one all learning, one neither, *)
(* and one is refused for its two rows of one phrase.                      *)
MCArchives ==
  {[phrases |-> MCPhrases, smart |-> <<>>, table |-> MCTable],
   [phrases |-> <<>>, smart |-> MCSmart, table |-> MCTable],
   [phrases |-> MCPhrases, smart |-> <<>>, table |-> <<>>],
   [phrases |-> MCPhrases \o MCPhrases, smart |-> <<>>, table |-> <<>>]}

MCOperations ==
  {[type |-> "lookup"], [type |-> "select", index |-> 2], [type |-> "reset_learning"],
   [type |-> "add_user_phrase", key |-> p], [type |-> "add_user_phrase", key |-> q],
   [type |-> "add_user_phrase", key |-> listed],
   [type |-> "update_user_phrase", key |-> p, new |-> q],
   [type |-> "update_user_phrase", key |-> q, new |-> q],
   [type |-> "remove_user_phrase", key |-> q], [type |-> "remove_user_phrase", key |-> blank],
   [type |-> "replace_user_phrases", phrases |-> <<[key |-> p, score |-> 1]>>],
   [type |-> "replace_user_phrases", phrases |-> <<[key |-> p, score |-> 1], [key |-> p, score |-> 0]>>],
   [type |-> "reset_method_learning", method |-> "traditional"]}
  \cup [type : {"import_user_data"}, archive : MCArchives]

MCSymmetry == Permutations(Sessions)
=============================================================================
