---------------------------- MODULE MCUserStore ----------------------------
(* Two connections that save lists of every kind of change, over a cache of *)
(* two rows and three keys, so that rows are trimmed and rowids have gaps.  *)
EXTENDS UserStore

CONSTANTS p, q, r, a, b

Override(qstring, current) ==
  [kind |-> "SetOverride", qstring |-> qstring, current |-> current]
Bigram(qstring) == [kind |-> "SetBigram", qstring |-> qstring, current |-> a]
Phrase(kind, key, score) == [kind |-> kind, key |-> key, score |-> score]
Table(method, current) == [method |-> method, current |-> current]

MCLists ==
  {<<Override(p, a), Bigram(p)>>,
   <<Override(q, a), Override(r, a), Bigram(q), Bigram(r)>>,
   <<Override(p, b), [kind |-> "ClearOverride", qstring |-> q]>>,
   <<Phrase("UpsertPhrase", p, 0), Phrase("UpsertPhrase", q, 0)>>,
   <<Phrase("InsertPhraseIfAbsent", q, 1), Phrase("UpsertPhrase", p, 1)>>,
   <<[kind |-> "RemovePhrase", key |-> p], Phrase("UpsertPhrase", r, 0)>>,
   <<[kind |-> "IncrementTable"] @@ Table("cangjie", a)>>,
   <<[kind |-> "ResetTableLearning", method |-> "cangjie"],
     [kind |-> "SetTable", count |-> 2] @@ Table("cangjie", b),
     [kind |-> "SetTable", count |-> 2] @@ Table("simplex", a)>>,
   <<[kind |-> "ResetSmartLearning"], Override(q, b)>>}

MCSymmetry == Permutations(Connections)
=============================================================================
