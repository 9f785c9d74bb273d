------------------------------ MODULE UserData ------------------------------
(***************************************************************************)
(* The user's dictionary and learning data, as the Guanyinma core holds    *)
(* them in memory (UserSnapshot), and the changes an operation asks for    *)
(* (UserChange).  Everything here is a pure operator; the modules that     *)
(* keep a snapshot as state extend this one.                               *)
(*                                                                         *)
(* Rows are ordered, oldest first, as in the source's vectors.  A key that *)
(* is several columns in the source is one value here: a phrase's          *)
(* (qstring, current) is its "key", a table row's (code, current) is its   *)
(* "current".  Scores are small values, so that replacing a row and        *)
(* keeping it can be told apart.                                           *)
(***************************************************************************)
EXTENDS Naturals, Sequences, FiniteSets, SequencesExt

CONSTANTS
  Keys,         \* well-formed phrase keys and readings: nonempty, without NUL
  Words,        \* well-formed candidate texts
  Capacity      \* LEARNING_CAPACITY: rows kept in each recency cache

ASSUME CapacityAssumption == Capacity \in Nat \ {0}

Methods == {"traditional", "cangjie", "simplex"}

(* UserChange, with what validate_change requires of its fields.  A         *)
(* SetOverride without a current text is the kind "ClearOverride".          *)
Change ==
  [kind : {"UpsertPhrase", "InsertPhraseIfAbsent"}, key : Keys, score : Nat]
  \cup [kind : {"RemovePhrase"}, key : Keys]
  \cup [kind : {"SetOverride", "SetBigram"}, qstring : Keys, current : Words]
  \cup [kind : {"ClearOverride"}, qstring : Keys]
  \cup [kind : {"IncrementTable"}, method : Methods, current : Words]
  \cup [kind : {"SetTable"}, method : Methods, current : Words, count : Nat \ {0}]
  \cup [kind : {"ResetLearning", "ResetSmartLearning"}]
  \cup [kind : {"ResetTableLearning"}, method : Methods]

LearningKinds == {"SetOverride", "ClearOverride", "SetBigram", "IncrementTable"}
ResetKinds == {"ResetLearning", "ResetSmartLearning", "ResetTableLearning"}

EmptySnapshot ==
  [generation |-> 0, revision |-> 0,
   phrases |-> <<>>, overrides |-> <<>>, bigrams |-> <<>>, table |-> <<>>]

Version(data) == <<data.generation, data.revision>>

-----------------------------------------------------------------------------
(* Ordered keyed rows. *)

Holds(rows, Same(_)) == \E i \in DOMAIN rows : Same(rows[i])

(* What f has at the places of S, in the order of the places.              *)
Nth(S, n) == CHOOSE i \in S : Cardinality({j \in S : j <= i}) = n
InOrder(f, S) == [n \in 1..Cardinality(S) |-> f[Nth(S, n)]]

Without(rows, Same(_)) == InOrder(rows, {i \in DOMAIN rows : ~Same(rows[i])})

InPlace(rows, Same(_), row) ==
  [i \in DOMAIN rows |-> IF Same(rows[i]) THEN row ELSE rows[i]]

InPlaceOrAppended(rows, Same(_), row) ==
  IF Holds(rows, Same) THEN InPlace(rows, Same, row) ELSE Append(rows, row)

Newest(rows) ==
  IF Len(rows) > Capacity
    THEN SubSeq(rows, Len(rows) - Capacity + 1, Len(rows)) ELSE rows

PhraseKeys(data) == {data.phrases[i].key : i \in DOMAIN data.phrases}

CountOf(data, method, current) ==
  LET rows == {i \in DOMAIN data.table :
                 data.table[i].method = method /\ data.table[i].current = current}
  IN  IF rows = {} THEN 0 ELSE data.table[CHOOSE i \in rows : TRUE].count

-----------------------------------------------------------------------------
(* One change, applied to the rows.  The metadata is accounted for once per *)
(* list, in Preview.                                                        *)

PhraseRow(c) == [key |-> c.key, score |-> c.score]
QueryRow(c) == [qstring |-> c.qstring, current |-> c.current]
TableRow(c, n) == [method |-> c.method, current |-> c.current, count |-> n]

SamePhrase(c, row) == row.key = c.key
SameQuery(c, row) == row.qstring = c.qstring
SameTableRow(c, row) == row.method = c.method /\ row.current = c.current

ApplyChange(data, c) ==
  CASE c.kind = "UpsertPhrase" ->
         [data EXCEPT !.phrases =
            InPlaceOrAppended(@, LAMBDA row : SamePhrase(c, row), PhraseRow(c))]
    [] c.kind = "InsertPhraseIfAbsent" ->
         [data EXCEPT !.phrases =
            IF Holds(@, LAMBDA row : SamePhrase(c, row)) THEN @ ELSE Append(@, PhraseRow(c))]
    [] c.kind = "RemovePhrase" ->
         [data EXCEPT !.phrases = Without(@, LAMBDA row : SamePhrase(c, row))]
    [] c.kind = "SetOverride" ->
         [data EXCEPT !.overrides =
            Append(Without(@, LAMBDA row : SameQuery(c, row)), QueryRow(c))]
    [] c.kind = "ClearOverride" ->
         [data EXCEPT !.overrides = Without(@, LAMBDA row : SameQuery(c, row))]
    [] c.kind = "SetBigram" ->
         [data EXCEPT !.bigrams =
            Append(Without(@, LAMBDA row : SameQuery(c, row)), QueryRow(c))]
    [] c.kind = "IncrementTable" ->
         [data EXCEPT !.table =
            InPlaceOrAppended(@, LAMBDA row : SameTableRow(c, row),
                              TableRow(c, CountOf(data, c.method, c.current) + 1))]
    [] c.kind = "SetTable" ->
         [data EXCEPT !.table =
            InPlaceOrAppended(@, LAMBDA row : SameTableRow(c, row), TableRow(c, c.count))]
    [] c.kind = "ResetSmartLearning" ->
         [data EXCEPT !.overrides = <<>>, !.bigrams = <<>>]
    [] c.kind = "ResetTableLearning" ->
         [data EXCEPT !.table = Without(@, LAMBDA row : row.method = c.method)]
    [] c.kind = "ResetLearning" ->
         [data EXCEPT !.overrides = <<>>, !.bigrams = <<>>, !.table = <<>>]

Resets(changes) == {i \in DOMAIN changes : changes[i].kind \in ResetKinds}

(* UserSnapshot::preview: the changes in order, then the caches are trimmed *)
(* once; every reset opens a new generation, a nonempty list one revision.  *)
Preview(data, changes) ==
  LET rows == FoldLeft(ApplyChange, data, changes)
  IN  [generation |-> data.generation + Cardinality(Resets(changes)),
       revision   |-> data.revision + (IF changes = <<>> THEN 0 ELSE 1),
       phrases    |-> rows.phrases,
       overrides  |-> Newest(rows.overrides),
       bigrams    |-> Newest(rows.bigrams),
       table      |-> rows.table]

-----------------------------------------------------------------------------
(* validate_snapshot: what every snapshot read, previewed or stored obeys. *)

UniqueKeys(rows, Key(_)) ==
  \A i, j \in DOMAIN rows : Key(rows[i]) = Key(rows[j]) => i = j

ValidSnapshot(data) ==
  /\ Len(data.overrides) <= Capacity
  /\ Len(data.bigrams) <= Capacity
  /\ UniqueKeys(data.phrases, LAMBDA row : row.key)
  /\ UniqueKeys(data.overrides, LAMBDA row : row.qstring)
  /\ UniqueKeys(data.bigrams, LAMBDA row : row.qstring)
  /\ UniqueKeys(data.table, LAMBDA row : <<row.method, row.current>>)
  /\ \A i \in DOMAIN data.table : data.table[i].count > 0
=============================================================================
