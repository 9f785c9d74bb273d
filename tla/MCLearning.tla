----------------------------- MODULE MCLearning -----------------------------
(* Two sessions on one code with three candidates: selections, resets and   *)
(* handoffs interleaved.                                                    *)
EXTENDS LearningSession, TLC

CONSTANTS a, b, c

MCDictionary == <<a, b, c>>
MCOperations ==
  {[type |-> "lookup"], [type |-> "finish_composition"]}
  \cup [type : {"move_highlight"}, delta : {-1, 1}]
  \cup [type : {"select"}, index : {1, 3}]
  \cup [type : {"reset_method_learning"}, method : {"cangjie", "simplex"}]

MCSymmetry == Permutations(Sessions)
=============================================================================
