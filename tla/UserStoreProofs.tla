--------------------------- MODULE UserStoreProofs ---------------------------
(***************************************************************************)
(* Proofs about UserStore, for any connections, change lists and number of *)
(* transactions, and (in the last part) about StoreOpen.  A version names  *)
(* a content because a commit moves the revision past every snapshot       *)
(* handed out, and because the image a transaction checks, and hands out   *)
(* when stale, is the committed one: the write lock keeps both until the   *)
(* transaction ends (TxOK).                                                *)
(***************************************************************************)
EXTENDS UserStore, StoreOpen, UserDataProofs

TxOK ==
  /\ tx = [step |-> tx.step, image |-> tx.image, left |-> tx.left, expected |-> tx.expected]
  /\ tx.step \in Steps
  /\ tx.step = "none" <=> lock = NoConnection
  /\ tx.left \in Seq(Change)
  /\ tx.image.generation \in Nat
  /\ tx.step = "check" => tx.image = disk
  /\ tx.step = "change" => tx.image.revision = disk.revision
  /\ tx.step = "load" => tx.image.revision = disk.revision + 1

IInv ==
  /\ lock \in Connections \cup {NoConnection}
  /\ outcome \in [Connections -> Outcomes]
  /\ writes \in 0..MaxWrites
  /\ disk.generation \in Nat /\ disk.revision \in Nat
  /\ TxOK
  /\ known = [c \in Connections |-> known[c]]
  /\ \A c \in Connections : known[c].revision \in 0..disk.revision
  /\ SameVersionSameData

-----------------------------------------------------------------------------
(* Reading the tables gives the version they are stored under. *)
LEMMA LoadVersion ==
  ASSUME NEW tables
  PROVE  /\ Load(tables).revision = tables.revision
         /\ Load(tables).generation = tables.generation
         /\ Version(Load(tables)) = <<tables.generation, tables.revision>>
BY DEF Load, Version

(* A change leaves the revision alone and never lowers the generation. *)
LEMMA ChangeVersion ==
  ASSUME NEW tables, tables.generation \in Nat, NEW c \in Change
  PROVE  /\ SqlChange(tables, c).revision = tables.revision
         /\ SqlChange(tables, c).generation \in Nat
BY DEF SqlChange, Change

LEMMA InitEstablishes == Init => IInv
<1> SUFFICES ASSUME Init PROVE IInv
  OBVIOUS
<1> USE DEF Init
<1>1. disk.generation = 0 /\ disk.revision = 0
  BY DEF EmptyTables
<1>2. TxOK
  BY DEF TxOK, NoTx, Steps, EmptyTables
<1>3. \A c \in Connections : known[c] = Load(disk) /\ known[c].revision = 0
  BY <1>1, LoadVersion
<1>4. SameVersionSameData
  BY <1>3 DEF SameVersionSameData
<1>5. writes \in 0..MaxWrites /\ outcome \in [Connections -> Outcomes]
  BY MaxWritesAssumption DEF Outcomes
<1> QED  BY <1>1, <1>2, <1>3, <1>4, <1>5 DEF IInv

(* A connection that is handed the committed snapshot agrees with everyone. *)
LEMMA HandedCommitted ==
  ASSUME IInv, NEW c \in Connections, UNCHANGED disk,
         known' = [known EXCEPT ![c] = Load(disk)]
  PROVE  /\ known' = [d \in Connections |-> known'[d]]
         /\ \A d \in Connections : known'[d].revision \in 0..disk'.revision
         /\ SameVersionSameData'
<1>1. \A d \in Connections : known'[d] = IF d = c THEN Load(disk) ELSE known[d]
  BY DEF IInv
<1>2. Load(disk).revision \in 0..disk.revision
  BY LoadVersion DEF IInv
<1>3. \A d \in Connections : known'[d].revision \in 0..disk'.revision
  BY <1>1, <1>2 DEF IInv
<1>4. SameVersionSameData'
  BY <1>1 DEF IInv, SameVersionSameData
<1> QED  BY <1>3, <1>4 DEF IInv

LEMMA NoneHanded ==
  ASSUME IInv, UNCHANGED <<disk, known>>
  PROVE  /\ known' = [d \in Connections |-> known'[d]]
         /\ \A d \in Connections : known'[d].revision \in 0..disk'.revision
         /\ SameVersionSameData'
BY DEF IInv, SameVersionSameData

LEMMA TxKept ==
  ASSUME IInv, UNCHANGED <<disk, lock, tx>>
  PROVE  TxOK'
BY DEF IInv, TxOK

LEMMA TxOver ==
  ASSUME lock' = NoConnection, tx' = NoTx
  PROVE  TxOK'
BY DEF TxOK, NoTx, Steps, EmptyTables

LEMMA SnapshotKeeps == ASSUME IInv, NEW c \in Connections, Snapshot(c) PROVE IInv'
BY HandedCommitted, TxKept DEF Snapshot, IInv

LEMMA BusyKeeps == ASSUME IInv, NEW c \in Connections, Busy(c) PROVE IInv'
BY NoneHanded, TxKept DEF Busy, IInv, Outcomes

LEMMA BeginKeeps ==
  ASSUME IInv, NEW c \in Connections, NEW step \in {"check", "change"}, NEW changes \in Seq(Change),
         BeginTx(c, step, changes)
  PROVE  IInv'
<1> USE DEF BeginTx
<1>1. TxOK'
  BY NoConnectionAssumption DEF IInv, TxOK, Steps
<1>2. writes' \in 0..MaxWrites
  BY MaxWritesAssumption DEF IInv
<1>3. outcome' \in [Connections -> Outcomes]
  BY DEF IInv, Outcomes
<1> QED  BY <1>1, <1>2, <1>3, NoneHanded DEF IInv

LEMMA CurrentKeeps == ASSUME IInv, NEW c \in Connections, Current(c) PROVE IInv'
<1> USE DEF Current
<1>1. tx' = [step |-> "change", image |-> tx.image, left |-> tx.left, expected |-> tx.expected]
  BY DEF IInv, TxOK
<1>2. TxOK'
  BY <1>1, NoConnectionAssumption DEF IInv, TxOK, Steps
<1> QED  BY <1>2, NoneHanded DEF IInv

LEMMA StaleKeeps == ASSUME IInv, NEW c \in Connections, Stale(c) PROVE IInv'
<1> USE DEF Stale, EndTx
<1>1. tx.image = disk
  BY DEF IInv, TxOK
<1>2. outcome' \in [Connections -> Outcomes]
  BY DEF IInv, Outcomes
<1> QED  BY <1>1, <1>2, HandedCommitted, TxOver DEF IInv

LEMMA ChangeKeeps == ASSUME IInv, NEW c \in Connections, ChangeRow(c) PROVE IInv'
<1> USE DEF ChangeRow
<1>1. Head(tx.left) \in Change /\ Tail(tx.left) \in Seq(Change)
  BY DEF IInv, TxOK
<1>2. tx' = [step |-> "change", image |-> SqlChange(tx.image, Head(tx.left)),
             left |-> Tail(tx.left), expected |-> tx.expected]
  BY DEF IInv, TxOK
<1>3. /\ SqlChange(tx.image, Head(tx.left)).revision = disk.revision
      /\ SqlChange(tx.image, Head(tx.left)).generation \in Nat
  BY <1>1, ChangeVersion DEF IInv, TxOK
<1>4. TxOK'
  BY <1>1, <1>2, <1>3, NoConnectionAssumption DEF IInv, TxOK, Steps
<1> QED  BY <1>4, NoneHanded DEF IInv

LEMMA FinishKeeps == ASSUME IInv, NEW c \in Connections, FinishTx(c) PROVE IInv'
<1> USE DEF FinishTx
<1>1. tx' = [step |-> "load", image |-> Closed(tx.image), left |-> tx.left,
             expected |-> tx.expected]
  BY DEF IInv, TxOK
<1>2. /\ Closed(tx.image).revision = disk.revision + 1
      /\ Closed(tx.image).generation \in Nat
  BY DEF IInv, TxOK, Closed
<1>3. TxOK'
  BY <1>1, <1>2, NoConnectionAssumption DEF IInv, TxOK, Steps
<1> QED  BY <1>3, NoneHanded DEF IInv

(* The commit's revision is beyond every snapshot handed out before.        *)
LEMMA CommitKeeps == ASSUME IInv, NEW c \in Connections, CommitTx(c) PROVE IInv'
<1> USE DEF CommitTx, EndTx
<1>1. /\ disk'.revision = disk.revision + 1 /\ disk'.generation \in Nat
      /\ disk.revision \in Nat
  BY DEF IInv, TxOK
<1>2. \A d \in Connections : known'[d] = IF d = c THEN Load(disk') ELSE known[d]
  BY DEF IInv
<1>3. Load(disk').revision = disk.revision + 1
  BY <1>1, LoadVersion
<1>4. \A d \in Connections : known'[d].revision \in 0..disk'.revision
  BY <1>1, <1>2, <1>3 DEF IInv
<1>5. \A d \in Connections : Version(known[d]) # Version(Load(disk'))
  BY <1>1, <1>3 DEF IInv, Version
<1>6. SameVersionSameData'
  BY <1>2, <1>5 DEF IInv, SameVersionSameData
<1>7. outcome' \in [Connections -> Outcomes]
  BY DEF IInv, Outcomes
<1> QED  BY <1>1, <1>4, <1>6, <1>7, TxOver DEF IInv

LEMMA FailKeeps == ASSUME IInv, NEW c \in Connections, FailTx(c) PROVE IInv'
<1> USE DEF FailTx, EndTx
<1>1. outcome' \in [Connections -> Outcomes]
  BY DEF IInv, Outcomes
<1> QED  BY <1>1, NoneHanded, TxOver DEF IInv

LEMMA CrashKeeps == ASSUME IInv, NEW c \in Connections, Crash(c) PROVE IInv'
<1> USE DEF Crash
<1>1. TxOK'
  <2>1. CASE lock = c
    BY <2>1, TxOver
  <2>2. CASE lock # c
    BY <2>2, TxKept
  <2> QED  BY <2>1, <2>2
<1>2. outcome' \in [Connections -> Outcomes]
  BY DEF IInv, Outcomes
<1> QED  BY <1>1, <1>2, HandedCommitted DEF IInv

LEMMA NextKeeps == ASSUME IInv, [Next]_vars PROVE IInv'
<1>1. CASE UNCHANGED vars
  BY <1>1, NoneHanded, TxKept DEF vars, IInv
<1>2. ASSUME NEW c \in Connections, BeginReset(c) PROVE IInv'
  <2>1. [kind |-> "ResetLearning"] \in Change
    BY DEF Change
  <2>2. <<[kind |-> "ResetLearning"]>> \in Seq(Change)
    BY <2>1
  <2> QED  BY <1>2, <2>2, BeginKeeps DEF BeginReset
<1>3. ASSUME NEW c \in Connections, NEW changes \in Lists, BeginApply(c, changes) PROVE IInv'
  BY <1>3, BeginKeeps, ListsAssumption DEF BeginApply
<1> QED
  BY <1>1, <1>2, <1>3, SnapshotKeeps, BusyKeeps, CurrentKeeps, StaleKeeps, ChangeKeeps,
     FinishKeeps, CommitKeeps, FailKeeps, CrashKeeps DEF Next

THEOREM Invariance == Spec => []IInv
<1>1. Init => IInv
  BY InitEstablishes
<1>2. IInv /\ [Next]_vars => IInv'
  BY NextKeeps
<1> QED  BY <1>1, <1>2, PTL DEF Spec

-----------------------------------------------------------------------------
(* Only the holder of the write lock is in a transaction, and it always     *)
(* gives the lock back.                                                     *)
THEOREM TypeCorrect == Spec => []TypeOK
<1>1. IInv => TypeOK
  BY DEF IInv, TxOK, TypeOK
<1> QED  BY <1>1, Invariance, PTL

(* Snapshots of one version are equal, whoever was given them and when, for *)
(* any number of connections and any change lists: what VersionNamesContent *)
(* of the sessions rests on holds of the SQL transactions.                  *)
THEOREM SnapshotsAgree == Spec => []SameVersionSameData
<1>1. IInv => SameVersionSameData
  BY DEF IInv
<1> QED  BY <1>1, Invariance, PTL

-----------------------------------------------------------------------------
(* A table: finitely many rows under numbers. *)
IsTable(t) ==
  /\ t = [id \in DOMAIN t |-> t[id]]
  /\ DOMAIN t \subseteq Nat
  /\ IsFiniteSet(DOMAIN t)

(* Its rows, in the order of an enumeration e of their numbers. *)
Reads(t, rows, e) ==
  LET n == Cardinality(DOMAIN t)
  IN /\ n \in Nat /\ DOMAIN t \subseteq Nat
     /\ Enumerates(e, DOMAIN t)
     /\ rows = [i \in 1..n |-> rows[i]]
     /\ rows \in Seq({t[id] : id \in DOMAIN t})
     /\ Len(rows) = n
     /\ \A i \in 1..n : rows[i] = t[e[i]]

LEMMA TableReads ==
  ASSUME NEW t, IsTable(t)
  PROVE  \E e : Reads(t, InRowidOrder(t), e)
<1>1. PICK e : Enumerates(e, DOMAIN t)
  BY EnumerationExists DEF IsTable
<1> DEFINE rows == InOrder(t, DOMAIN t)
           n == Cardinality(DOMAIN t)
<1>2. rows = [i \in 1..n |-> rows[i]] /\ n \in Nat /\ \A i \in 1..n : rows[i] = t[e[i]]
  BY <1>1, OrderedBy DEF IsTable
<1> DEFINE X == {t[id] : id \in DOMAIN t}
<1>3. rows \in Seq(X) /\ Len(rows) = n
  <2>1. \A id \in DOMAIN t : t[id] \in X
    OBVIOUS
  <2> HIDE DEF X
  <2> QED  BY <2>1, OrderedType DEF IsTable
<1> HIDE DEF rows
<1>4. Reads(t, rows, e)
  BY <1>1, <1>2, <1>3 DEF Reads, IsTable
<1> QED  BY <1>4 DEF InRowidOrder, rows

(* A row is read exactly when it is stored. *)
LEMMA ReadsAll ==
  ASSUME NEW t, NEW rows, NEW e, Reads(t, rows, e)
  PROVE  /\ DOMAIN rows = 1..Cardinality(DOMAIN t)
         /\ \A i \in DOMAIN rows : e[i] \in DOMAIN t /\ rows[i] = t[e[i]]
         /\ \A id \in DOMAIN t : \E i \in DOMAIN rows : e[i] = id /\ rows[i] = t[id]
         /\ \A i, j \in DOMAIN rows : e[i] = e[j] => i = j
<1>1. DOMAIN rows = 1..Cardinality(DOMAIN t)
  BY DEF Reads
<1>2. \A i \in DOMAIN rows : e[i] \in DOMAIN t /\ rows[i] = t[e[i]]
  BY <1>1 DEF Reads, Enumerates
<1>3. \A id \in DOMAIN t : \E i \in DOMAIN rows : e[i] = id /\ rows[i] = t[id]
  BY <1>1, <1>2 DEF Reads, Enumerates
<1>4. \A i, j \in DOMAIN rows : e[i] = e[j] => i = j
  <2> TAKE i \in DOMAIN rows, j \in DOMAIN rows
  <2>1. (i < j => e[i] < e[j]) /\ (j < i => e[j] < e[i])
    BY <1>1 DEF Reads, Enumerates
  <2>2. i \in Nat /\ j \in Nat /\ e[i] \in Nat /\ e[j] \in Nat
    BY <1>1, <1>2 DEF Reads
  <2> QED  BY <2>1, <2>2
<1> QED  BY <1>1, <1>2, <1>3, <1>4

(* The next rowid is past all the others. *)
LEMMA InsertIsLast ==
  ASSUME NEW t, IsTable(t), NEW row
  PROVE  \E m \in Nat : /\ \A id \in DOMAIN t : id < m
                        /\ DOMAIN Insert(t, row) = DOMAIN t \cup {m}
                        /\ \A id \in DOMAIN t : Insert(t, row)[id] = t[id]
                        /\ Insert(t, row)[m] = row
                        /\ IsTable(Insert(t, row))
<1> DEFINE m == IF DOMAIN t = {} THEN 1 ELSE Max(DOMAIN t) + 1
           u == [id \in DOMAIN t \cup {m} |-> IF id = m THEN row ELSE t[id]]
<1>1. m \in Nat /\ \A id \in DOMAIN t : id < m
  <2>1. CASE DOMAIN t = {}
    BY <2>1
  <2>2. CASE DOMAIN t # {}
    <3>1. PICK top \in DOMAIN t : \A x \in DOMAIN t : x <= top
      BY <2>2, HasGreatest DEF IsTable
    <3>2. Max(DOMAIN t) = top
      BY <3>1, GreatestOf DEF IsTable
    <3> QED  BY <2>2, <3>1, <3>2 DEF IsTable
  <2> QED  BY <2>1, <2>2
<1>2. Insert(t, row) = u
  BY DEF Insert
<1> HIDE DEF m
<1>3. m \notin DOMAIN t
  BY <1>1 DEF IsTable
<1>4. DOMAIN u = DOMAIN t \cup {m} /\ u[m] = row /\ \A id \in DOMAIN t : u[id] = t[id]
  BY <1>3
<1>5. IsTable(u)
  <2>1. u = [id \in DOMAIN u |-> u[id]]
    OBVIOUS
  <2>2. IsFiniteSet(DOMAIN t \cup {m})
    BY FS_AddElement DEF IsTable
  <2> HIDE DEF u
  <2> QED  BY <2>1, <2>2, <1>1, <1>4 DEF IsTable
<1> HIDE DEF u
<1> QED  BY <1>1, <1>2, <1>4, <1>5

LEMMA InsertReads ==
  ASSUME NEW t, IsTable(t), NEW row
  PROVE  InRowidOrder(Insert(t, row)) = Append(InRowidOrder(t), row)
<1>1. PICK m \in Nat : /\ \A id \in DOMAIN t : id < m
                       /\ DOMAIN Insert(t, row) = DOMAIN t \cup {m}
                       /\ \A id \in DOMAIN t : Insert(t, row)[id] = t[id]
                       /\ Insert(t, row)[m] = row
                       /\ IsTable(Insert(t, row))
  BY InsertIsLast
<1> DEFINE u == Insert(t, row)
           S == DOMAIN t
<1>2. S \subseteq Nat /\ IsFiniteSet(S)
  BY DEF IsTable
<1>3. /\ \A id \in S : id < m
      /\ \A id \in S : u[id] = t[id]
  BY <1>1
<1>4. InOrder(u, S \cup {m}) = Append(InOrder(t, S), u[m])
  <2> HIDE DEF S, u
  <2>1. S \subseteq Nat /\ IsFiniteSet(S) /\ m \in Nat /\ \A id \in S : id < m
    BY <1>1, <1>2, <1>3
  <2> QED  BY <1>3, <2>1, OrderedAppend, ZenonT(60)
<1> QED  BY <1>1, <1>4 DEF InRowidOrder

(* Deleting rows leaves the others in order. *)
LEMMA RestrictReads ==
  ASSUME NEW t, IsTable(t), NEW K, K \subseteq DOMAIN t
  PROVE  /\ IsTable(Restrict(t, K))
         /\ DOMAIN Restrict(t, K) = K
         /\ \A id \in K : Restrict(t, K)[id] = t[id]
         /\ InRowidOrder(Restrict(t, K)) = InOrder(t, K)
<1> DEFINE u == Restrict(t, K)
<1>1. u = [id \in K |-> u[id]] /\ DOMAIN u = K /\ \A id \in K : u[id] = t[id]
  BY DEF Restrict
<1>2. K \subseteq Nat /\ IsFiniteSet(K)
  BY FS_Subset DEF IsTable
<1> HIDE DEF u
<1>3. IsTable(u)
  BY <1>1, <1>2 DEF IsTable
<1>4. InOrder(u, K) = InOrder(t, K)
  <2>1. PICK e : Enumerates(e, K)
    BY <1>2, EnumerationExists
  <2> DEFINE a == InOrder(u, K)
             b == InOrder(t, K)
             n == Cardinality(K)
  <2>2. a = [i \in 1..n |-> a[i]] /\ \A i \in 1..n : a[i] = u[e[i]]
    BY <2>1, <1>2, OrderedBy
  <2>3. b = [i \in 1..n |-> b[i]] /\ \A i \in 1..n : b[i] = t[e[i]]
    BY <2>1, <1>2, OrderedBy
  <2>4. \A i \in 1..n : u[e[i]] = t[e[i]]
    BY <2>1, <1>1 DEF Enumerates
  <2> HIDE DEF a, b, n
  <2>5. a = b
    BY <2>2, <2>3, <2>4
  <2> QED  BY <2>5 DEF a, b
<1> QED  BY <1>1, <1>3, <1>4 DEF InRowidOrder, u

(* The rows kept by a delete that keeps those in Kept, read, are the rows   *)
(* read that are in Kept.                                                   *)
LEMMA KeptReads ==
  ASSUME NEW t, IsTable(t), NEW K, K \subseteq DOMAIN t,
         NEW Q, Q \subseteq DOMAIN InRowidOrder(t),
         \A i \in DOMAIN InRowidOrder(t), id \in DOMAIN t :
           Nth(DOMAIN t, i) = id => (i \in Q <=> id \in K)
  PROVE  InRowidOrder(Restrict(t, K)) = InOrder(InRowidOrder(t), Q)
<1> DEFINE S == DOMAIN t
<1>1. PICK e : Reads(t, InRowidOrder(t), e)
  BY TableReads
<1>a. DOMAIN InRowidOrder(t) = 1..Cardinality(S)
  BY DEF InRowidOrder, InOrder
<1>b. \A i \in 1..Cardinality(S) : e[i] \in S
  BY <1>1 DEF Reads, Enumerates
<1>2. /\ DOMAIN InRowidOrder(t) = 1..Cardinality(S)
      /\ \A i \in 1..Cardinality(S) : e[i] \in S
  BY <1>a, <1>b
<1>3. \A i \in 1..Cardinality(S) : Nth(S, i) = e[i]
  BY <1>1, EnumerationIsNth DEF Reads, IsTable
<1>4. Q = {i \in 1..Cardinality(S) : Nth(S, i) \in K}
  BY <1>2, <1>3
<1>5. InOrder(InOrder(t, S), {i \in 1..Cardinality(S) : Nth(S, i) \in K}) = InOrder(t, K)
  BY OrderedSelection DEF IsTable
<1> QED  BY <1>4, <1>5, RestrictReads DEF InRowidOrder

(* What the statements of apply_change do to a table. *)
PhrasesLeft(t, c) == Delete(t, LAMBDA row : SamePhrase(c, row))
QueriesLeft(t, c) == Delete(t, LAMBDA row : SameQuery(c, row))
CountsLeft(t, c) == Delete(t, LAMBDA row : row.method = c.method)
PhraseStored(t, c) == Upsert(t, LAMBDA row : SamePhrase(c, row), PhraseRow(c))
CountStored(t, c, k) == Upsert(t, LAMBDA row : SameTableRow(c, row), TableRow(c, k))

LEMMA DeletePhrases ==
  ASSUME NEW t, IsTable(t), NEW c
  PROVE  LET u == PhrasesLeft(t, c)
         IN /\ IsTable(u) /\ DOMAIN u \subseteq DOMAIN t
            /\ \A id \in DOMAIN u : u[id] = t[id] /\ ~SamePhrase(c, t[id])
            /\ InRowidOrder(u) = PhraseRowsLeft(InRowidOrder(t), c)
<1> DEFINE rows == InRowidOrder(t)
           K == {id \in DOMAIN t : ~SamePhrase(c, t[id])}
           Q == {i \in DOMAIN rows : ~SamePhrase(c, rows[i])}
<1>1. PICK e : Reads(t, rows, e)
  BY TableReads
<1>2. ASSUME NEW i \in DOMAIN rows, NEW id \in DOMAIN t, Nth(DOMAIN t, i) = id
      PROVE  i \in Q <=> id \in K
  BY <1>2 DEF InRowidOrder, InOrder
<1>3. K \subseteq DOMAIN t /\ Q \subseteq DOMAIN rows
  OBVIOUS
<1>4. InRowidOrder(Restrict(t, K)) = InOrder(rows, Q)
  <2> HIDE DEF K, Q
  <2> QED  BY <1>2, <1>3, KeptReads
<1>5. IsTable(Restrict(t, K)) /\ DOMAIN Restrict(t, K) = K
      /\ \A id \in K : Restrict(t, K)[id] = t[id]
  <2> HIDE DEF K
  <2> QED  BY <1>3, RestrictReads
<1>6. \A id \in K : ~SamePhrase(c, t[id])
  OBVIOUS
<1>7. PhrasesLeft(t, c) = Restrict(t, K)
  BY DEF PhrasesLeft, Delete
<1>8. PhraseRowsLeft(rows, c) = InOrder(rows, Q)
  BY DEF PhraseRowsLeft, Without
<1> HIDE DEF K, Q, rows
<1> QED  BY <1>3, <1>4, <1>5, <1>6, <1>7, <1>8 DEF rows

LEMMA DeleteQueries ==
  ASSUME NEW t, IsTable(t), NEW c
  PROVE  LET u == QueriesLeft(t, c)
         IN /\ IsTable(u) /\ DOMAIN u \subseteq DOMAIN t
            /\ \A id \in DOMAIN u : u[id] = t[id] /\ ~SameQuery(c, t[id])
            /\ InRowidOrder(u) = QueryRowsLeft(InRowidOrder(t), c)
<1> DEFINE rows == InRowidOrder(t)
           K == {id \in DOMAIN t : ~SameQuery(c, t[id])}
           Q == {i \in DOMAIN rows : ~SameQuery(c, rows[i])}
<1>1. PICK e : Reads(t, rows, e)
  BY TableReads
<1>2. ASSUME NEW i \in DOMAIN rows, NEW id \in DOMAIN t, Nth(DOMAIN t, i) = id
      PROVE  i \in Q <=> id \in K
  BY <1>2 DEF InRowidOrder, InOrder
<1>3. K \subseteq DOMAIN t /\ Q \subseteq DOMAIN rows
  OBVIOUS
<1>4. InRowidOrder(Restrict(t, K)) = InOrder(rows, Q)
  <2> HIDE DEF K, Q
  <2> QED  BY <1>2, <1>3, KeptReads
<1>5. IsTable(Restrict(t, K)) /\ DOMAIN Restrict(t, K) = K
      /\ \A id \in K : Restrict(t, K)[id] = t[id]
  <2> HIDE DEF K
  <2> QED  BY <1>3, RestrictReads
<1>6. \A id \in K : ~SameQuery(c, t[id])
  OBVIOUS
<1>7. QueriesLeft(t, c) = Restrict(t, K)
  BY DEF QueriesLeft, Delete
<1>8. QueryRowsLeft(rows, c) = InOrder(rows, Q)
  BY DEF QueryRowsLeft, Without
<1> HIDE DEF K, Q, rows
<1> QED  BY <1>3, <1>4, <1>5, <1>6, <1>7, <1>8 DEF rows

LEMMA DeleteMethod ==
  ASSUME NEW t, IsTable(t), NEW c
  PROVE  LET u == CountsLeft(t, c)
         IN /\ IsTable(u) /\ DOMAIN u \subseteq DOMAIN t
            /\ \A id \in DOMAIN u : u[id] = t[id] /\ t[id].method # c.method
            /\ InRowidOrder(u) = CountRowsLeft(InRowidOrder(t), c)
<1> DEFINE rows == InRowidOrder(t)
           K == {id \in DOMAIN t : t[id].method # c.method}
           Q == {i \in DOMAIN rows : rows[i].method # c.method}
<1>1. PICK e : Reads(t, rows, e)
  BY TableReads
<1>2. ASSUME NEW i \in DOMAIN rows, NEW id \in DOMAIN t, Nth(DOMAIN t, i) = id
      PROVE  i \in Q <=> id \in K
  BY <1>2 DEF InRowidOrder, InOrder
<1>3. K \subseteq DOMAIN t /\ Q \subseteq DOMAIN rows
  OBVIOUS
<1>4. InRowidOrder(Restrict(t, K)) = InOrder(rows, Q)
  <2> HIDE DEF K, Q
  <2> QED  BY <1>2, <1>3, KeptReads
<1>5. IsTable(Restrict(t, K)) /\ DOMAIN Restrict(t, K) = K
      /\ \A id \in K : Restrict(t, K)[id] = t[id]
  <2> HIDE DEF K
  <2> QED  BY <1>3, RestrictReads
<1>6. \A id \in K : t[id].method # c.method
  OBVIOUS
<1>7. CountsLeft(t, c) = Restrict(t, K)
  BY DEF CountsLeft, Delete
<1>8. CountRowsLeft(rows, c) = InOrder(rows, Q)
  BY DEF CountRowsLeft, Without
<1> HIDE DEF K, Q, rows
<1> QED  BY <1>3, <1>4, <1>5, <1>6, <1>7, <1>8 DEF rows


-----------------------------------------------------------------------------
(* What load_snapshot requires of each table. *)
KeyedPhrases(t) == \A i, j \in DOMAIN t : t[i].key = t[j].key => i = j
KeyedQueries(t) == \A i, j \in DOMAIN t : t[i].qstring = t[j].qstring => i = j
KeyedCounts(t) ==
  /\ \A i, j \in DOMAIN t : t[i].method = t[j].method /\ t[i].current = t[j].current => i = j
  /\ \A i \in DOMAIN t : t[i].count \in Nat \ {0}

LEMMA InsertPhraseKeyed ==
  ASSUME NEW t, IsTable(t), KeyedPhrases(t), NEW c, ~\E id \in DOMAIN t : SamePhrase(c, t[id])
  PROVE  KeyedPhrases(Insert(t, PhraseRow(c)))
<1> DEFINE row == PhraseRow(c)
           u == Insert(t, row)
<1>1. PICK m \in Nat : /\ \A id \in DOMAIN t : id < m
                       /\ DOMAIN Insert(t, row) = DOMAIN t \cup {m}
                       /\ \A id \in DOMAIN t : Insert(t, row)[id] = t[id]
                       /\ Insert(t, row)[m] = row
                       /\ IsTable(Insert(t, row))
  BY InsertIsLast
<1>2. u[m].key = c.key
  BY <1>1 DEF PhraseRow
<1>3. \A i \in DOMAIN t : u[i].key = t[i].key /\ t[i].key # c.key
  BY <1>1 DEF SamePhrase
<1> HIDE DEF u
<1> QED  BY <1>1, <1>2, <1>3 DEF KeyedPhrases, u

LEMMA UpsertPhrase ==
  ASSUME NEW t, IsTable(t), KeyedPhrases(t), NEW c
  PROVE  LET u == PhraseStored(t, c)
         IN /\ IsTable(u) /\ KeyedPhrases(u)
            /\ InRowidOrder(u)
                 = PhraseRowsStored(InRowidOrder(t), c)
<1> DEFINE rows == InRowidOrder(t)
           v == [id \in DOMAIN t |-> IF SamePhrase(c, t[id]) THEN PhraseRow(c) ELSE t[id]]
<1>1. PICK e : Reads(t, rows, e)
  BY TableReads
<1>2. /\ DOMAIN rows = 1..Cardinality(DOMAIN t)
      /\ \A i \in DOMAIN rows : e[i] \in DOMAIN t /\ rows[i] = t[e[i]]
      /\ \A id \in DOMAIN t : \E i \in DOMAIN rows : e[i] = id /\ rows[i] = t[id]
  BY <1>1, ReadsAll
<1>3. CASE \E id \in DOMAIN t : SamePhrase(c, t[id])
  <2>1. PhraseStored(t, c) = v
    BY <1>3 DEF PhraseStored, Upsert
  <2>2. Holds(rows, LAMBDA row : SamePhrase(c, row))
    BY <1>2, <1>3 DEF Holds
  <2>3. IsTable(v) /\ DOMAIN v = DOMAIN t
    BY DEF IsTable
  <2>4. KeyedPhrases(v)
    BY DEF KeyedPhrases, SamePhrase, PhraseRow
  <2>5. InRowidOrder(v) = InPlace(rows, LAMBDA row : SamePhrase(c, row), PhraseRow(c))
    <3> DEFINE a == InRowidOrder(v)
               b == InPlace(rows, LAMBDA row : SamePhrase(c, row), PhraseRow(c))
               n == Cardinality(DOMAIN t)
    <3>1. a = [i \in 1..n |-> a[i]] /\ \A i \in 1..n : a[i] = v[e[i]]
      <4>1. Enumerates(e, DOMAIN v) /\ DOMAIN v \subseteq Nat /\ IsFiniteSet(DOMAIN v)
        BY <1>1, <2>3 DEF Reads, IsTable
      <4> HIDE DEF v
      <4> QED  BY <2>3, <4>1, OrderedBy DEF InRowidOrder
    <3>2. b = [i \in 1..n |-> b[i]]
          /\ \A i \in 1..n : b[i] = IF SamePhrase(c, rows[i]) THEN PhraseRow(c) ELSE rows[i]
      BY <1>2 DEF InPlace
    <3>3. \A i \in 1..n : v[e[i]] = IF SamePhrase(c, rows[i]) THEN PhraseRow(c) ELSE rows[i]
      BY <1>2
    <3> HIDE DEF a, b, n, v
    <3>4. a = b
      BY <3>1, <3>2, <3>3
    <3> QED  BY <3>4 DEF a, b
  <2> HIDE DEF v, rows
  <2> QED  BY <2>1, <2>2, <2>3, <2>4, <2>5 DEF PhraseRowsStored, InPlaceOrAppended, rows
<1>4. CASE ~\E id \in DOMAIN t : SamePhrase(c, t[id])
  <2>1. PhraseStored(t, c) = Insert(t, PhraseRow(c))
    BY <1>4 DEF PhraseStored, Upsert
  <2>2. ~Holds(rows, LAMBDA row : SamePhrase(c, row))
    BY <1>2, <1>4 DEF Holds
  <2>3. IsTable(Insert(t, PhraseRow(c)))
    <3> DEFINE row == PhraseRow(c)
    <3> HIDE DEF row
    <3>1. IsTable(Insert(t, row))
      BY InsertIsLast
    <3> QED  BY <3>1 DEF row
  <2>4. KeyedPhrases(Insert(t, PhraseRow(c)))
    BY <1>4, InsertPhraseKeyed
  <2>5. InRowidOrder(Insert(t, PhraseRow(c))) = Append(rows, PhraseRow(c))
    BY InsertReads
  <2> HIDE DEF rows
  <2> QED  BY <2>1, <2>2, <2>3, <2>4, <2>5 DEF PhraseRowsStored, InPlaceOrAppended, rows
<1> QED  BY <1>3, <1>4

LEMMA InsertCountKeyed ==
  ASSUME NEW t, IsTable(t), KeyedCounts(t), NEW c, NEW k \in Nat \ {0}, ~\E id \in DOMAIN t : SameTableRow(c, t[id])
  PROVE  KeyedCounts(Insert(t, TableRow(c, k)))
<1> DEFINE row == TableRow(c, k)
           u == Insert(t, row)
<1>1. PICK m \in Nat : /\ \A id \in DOMAIN t : id < m
                       /\ DOMAIN Insert(t, row) = DOMAIN t \cup {m}
                       /\ \A id \in DOMAIN t : Insert(t, row)[id] = t[id]
                       /\ Insert(t, row)[m] = row
                       /\ IsTable(Insert(t, row))
  BY InsertIsLast
<1>2. u[m].method = c.method /\ u[m].current = c.current /\ u[m].count = k
  BY <1>1 DEF TableRow
<1>3. \A i \in DOMAIN t : u[i] = t[i] /\ ~(t[i].method = c.method /\ t[i].current = c.current)
  BY <1>1 DEF SameTableRow
<1> HIDE DEF u
<1> QED  BY <1>1, <1>2, <1>3 DEF KeyedCounts, u

LEMMA UpsertCount ==
  ASSUME NEW t, IsTable(t), KeyedCounts(t), NEW c, NEW k \in Nat \ {0}
  PROVE  LET u == CountStored(t, c, k)
         IN /\ IsTable(u) /\ KeyedCounts(u)
            /\ InRowidOrder(u)
                 = CountRowsStored(InRowidOrder(t), c, k)
<1> DEFINE rows == InRowidOrder(t)
           v == [id \in DOMAIN t |-> IF SameTableRow(c, t[id]) THEN TableRow(c, k) ELSE t[id]]
<1>1. PICK e : Reads(t, rows, e)
  BY TableReads
<1>2. /\ DOMAIN rows = 1..Cardinality(DOMAIN t)
      /\ \A i \in DOMAIN rows : e[i] \in DOMAIN t /\ rows[i] = t[e[i]]
      /\ \A id \in DOMAIN t : \E i \in DOMAIN rows : e[i] = id /\ rows[i] = t[id]
  BY <1>1, ReadsAll
<1>3. CASE \E id \in DOMAIN t : SameTableRow(c, t[id])
  <2>1. CountStored(t, c, k) = v
    BY <1>3 DEF CountStored, Upsert
  <2>2. Holds(rows, LAMBDA row : SameTableRow(c, row))
    BY <1>2, <1>3 DEF Holds
  <2>3. IsTable(v) /\ DOMAIN v = DOMAIN t
    BY DEF IsTable
  <2>4. KeyedCounts(v)
    BY DEF KeyedCounts, SameTableRow, TableRow
  <2>5. InRowidOrder(v) = InPlace(rows, LAMBDA row : SameTableRow(c, row), TableRow(c, k))
    <3> DEFINE a == InRowidOrder(v)
               b == InPlace(rows, LAMBDA row : SameTableRow(c, row), TableRow(c, k))
               n == Cardinality(DOMAIN t)
    <3>1. a = [i \in 1..n |-> a[i]] /\ \A i \in 1..n : a[i] = v[e[i]]
      <4>1. Enumerates(e, DOMAIN v) /\ DOMAIN v \subseteq Nat /\ IsFiniteSet(DOMAIN v)
        BY <1>1, <2>3 DEF Reads, IsTable
      <4> HIDE DEF v
      <4> QED  BY <2>3, <4>1, OrderedBy DEF InRowidOrder
    <3>2. b = [i \in 1..n |-> b[i]]
          /\ \A i \in 1..n : b[i] = IF SameTableRow(c, rows[i]) THEN TableRow(c, k) ELSE rows[i]
      BY <1>2 DEF InPlace
    <3>3. \A i \in 1..n : v[e[i]] = IF SameTableRow(c, rows[i]) THEN TableRow(c, k) ELSE rows[i]
      BY <1>2
    <3> HIDE DEF a, b, n, v
    <3>4. a = b
      BY <3>1, <3>2, <3>3
    <3> QED  BY <3>4 DEF a, b
  <2> HIDE DEF v, rows
  <2> QED  BY <2>1, <2>2, <2>3, <2>4, <2>5 DEF CountRowsStored, InPlaceOrAppended, rows
<1>4. CASE ~\E id \in DOMAIN t : SameTableRow(c, t[id])
  <2>1. CountStored(t, c, k) = Insert(t, TableRow(c, k))
    BY <1>4 DEF CountStored, Upsert
  <2>2. ~Holds(rows, LAMBDA row : SameTableRow(c, row))
    BY <1>2, <1>4 DEF Holds
  <2>3. IsTable(Insert(t, TableRow(c, k)))
    <3> DEFINE row == TableRow(c, k)
    <3> HIDE DEF row
    <3>1. IsTable(Insert(t, row))
      BY InsertIsLast
    <3> QED  BY <3>1 DEF row
  <2>4. KeyedCounts(Insert(t, TableRow(c, k)))
    BY <1>4, InsertCountKeyed
  <2>5. InRowidOrder(Insert(t, TableRow(c, k))) = Append(rows, TableRow(c, k))
    BY InsertReads
  <2> HIDE DEF rows
  <2> QED  BY <2>1, <2>2, <2>3, <2>4, <2>5 DEF CountRowsStored, InPlaceOrAppended, rows
<1> QED  BY <1>3, <1>4

(* A list without two rows of a code and a text has one count for both. *)
LEMMA SameFrequency ==
  ASSUME NEW t, IsTable(t), KeyedCounts(t), NEW c, NEW data, data.table = InRowidOrder(t)
  PROVE  /\ Frequency(t, c) = CountOf(data, c.method, c.current)
         /\ Frequency(t, c) \in Nat
<1> DEFINE rows == InRowidOrder(t)
           ids == {id \in DOMAIN t : SameTableRow(c, t[id])}
           places == {i \in DOMAIN rows : rows[i].method = c.method /\ rows[i].current = c.current}
<1>1. PICK e : Reads(t, rows, e)
  BY TableReads
<1>2. /\ DOMAIN rows = 1..Cardinality(DOMAIN t)
      /\ \A i \in DOMAIN rows : e[i] \in DOMAIN t /\ rows[i] = t[e[i]]
      /\ \A id \in DOMAIN t : \E i \in DOMAIN rows : e[i] = id /\ rows[i] = t[id]
  BY <1>1, ReadsAll
<1>3. ids = {} <=> places = {}
  BY <1>2 DEF SameTableRow
<1>4. CASE ids = {}
  <2>1. Frequency(t, c) = 0
    BY <1>4 DEF Frequency
  <2>2. CountOf(data, c.method, c.current) = 0
    BY <1>3, <1>4 DEF CountOf
  <2> QED  BY <2>1, <2>2
<1>5. CASE ids # {}
  <2> DEFINE x == CHOOSE id \in ids : TRUE
             y == CHOOSE i \in places : TRUE
  <2>1. x \in ids /\ Frequency(t, c) = t[x].count
    BY <1>5 DEF Frequency
  <2>2. y \in places /\ CountOf(data, c.method, c.current) = rows[y].count
    BY <1>3, <1>5 DEF CountOf
  <2> HIDE DEF x, y, rows
  <2>3. e[y] \in DOMAIN t /\ rows[y] = t[e[y]] /\ SameTableRow(c, t[e[y]])
    BY <1>2, <2>2 DEF SameTableRow
  <2>4. e[y] = x
    BY <2>1, <2>3 DEF KeyedCounts, SameTableRow
  <2> QED  BY <2>1, <2>2, <2>3, <2>4 DEF KeyedCounts
<1> QED  BY <1>4, <1>5

(* The last n elements of a sequence. *)
LEMMA LastRows ==
  ASSUME NEW X, NEW s \in Seq(X), NEW k \in Nat, NEW n \in Nat, k = Len(s), n <= k
  PROVE  /\ SubSeq(s, k - n + 1, k) = [j \in 1..n |-> SubSeq(s, k - n + 1, k)[j]]
         /\ Len(SubSeq(s, k - n + 1, k)) = n
         /\ \A j \in 1..n : SubSeq(s, k - n + 1, k)[j] = s[k - n + j]
<1> DEFINE m == k - n + 1
           b == SubSeq(s, m, k)
<1>1. m \in 1..(k + 1) /\ k - m + 1 = n /\ \A j \in 1..n : m + j - 1 = k - n + j
  OBVIOUS
<1>2. b \in Seq(X) /\ Len(b) = n /\ \A j \in 1..n : b[j] = s[k - n + j]
  <2> HIDE DEF m
  <2>1. \A j \in m..k : s[j] \in X
    BY <1>1
  <2> QED  BY <1>1, <2>1
<1> HIDE DEF b
<1>3. b = [j \in 1..n |-> b[j]]
  BY <1>2
<1> QED  BY <1>2, <1>3 DEF b

(* trim_caches keeps the rows that are read last. *)
LEMMA TrimReads ==
  ASSUME NEW t, IsTable(t)
  PROVE  /\ IsTable(Trim(t)) /\ DOMAIN Trim(t) \subseteq DOMAIN t
         /\ \A id \in DOMAIN Trim(t) : Trim(t)[id] = t[id]
         /\ InRowidOrder(Trim(t)) = Newest(InRowidOrder(t))
         /\ Len(Newest(InRowidOrder(t))) <= Capacity
<1> DEFINE D == DOMAIN t
           rows == InRowidOrder(t)
           N == Cardinality(D)
           K == NewestRows(t, Capacity)
           Since(id) == {i \in D : i >= id}
<1>1. PICK e : Reads(t, rows, e)
  BY TableReads
<1>2. N \in Nat /\ Capacity \in Nat /\ D \subseteq Nat
  BY <1>1, CapacityAssumption DEF Reads
<1>3. \A k \in 1..N : e[k] \in D /\ e[k] \in Nat
  BY <1>1 DEF Reads, Enumerates
<1>4. \A i, j \in 1..N : i < j => e[i] < e[j]
  BY <1>1 DEF Reads, Enumerates
<1>5. \A x \in D : \E i \in 1..N : e[i] = x
  BY <1>1 DEF Reads, Enumerates
<1>6. \A k \in 1..N : Cardinality(Since(e[k])) = N - k + 1
  <2> TAKE k \in 1..N
  <2> DEFINE h == [i \in 1..N - k + 1 |-> e[k + i - 1]]
             n == N - k + 1
  <2>1. n \in Nat /\ \A i \in 1..n : k + i - 1 \in 1..N /\ h[i] = e[k + i - 1]
    BY <1>2
  <2>2. \A i \in 1..n : h[i] \in Since(e[k])
    <3> TAKE i \in 1..n
    <3>1. k = k + i - 1 \/ e[k] < e[k + i - 1]
      BY <1>2, <1>4, <2>1
    <3> QED  BY <3>1, <1>3, <2>1
  <2>3. \A i, j \in 1..n : i < j => h[i] < h[j]
    <3> TAKE i \in 1..n, j \in 1..n
    <3>1. i < j => k + i - 1 < k + j - 1
      BY <1>2
    <3> QED  BY <3>1, <2>1, <1>4
  <2>4. \A x \in Since(e[k]) : \E i \in 1..n : h[i] = x
    <3> TAKE x \in Since(e[k])
    <3>1. PICK i \in 1..N : e[i] = x
      BY <1>5
    <3>2. i < k => e[i] < e[k]
      BY <1>4
    <3>3. k <= i
      BY <3>1, <3>2, <1>2, <1>3
    <3>4. i - k + 1 \in 1..n /\ k + (i - k + 1) - 1 = i
      BY <3>3, <1>2
    <3>5. h[i - k + 1] = e[i]
      BY <3>4
    <3> HIDE DEF n, h
    <3> QED  BY <3>1, <3>4, <3>5
  <2>5. Since(e[k]) \subseteq Nat
    BY <1>2
  <2> HIDE DEF h, n, Since
  <2>6. Counts(h, n, Since(e[k]))
    BY <2>2, <2>3, <2>4, <2>5 DEF Counts
  <2>7. Cardinality(Since(e[k])) = n
    BY <2>1, <2>6, CountedBy
  <2> QED  BY <2>7 DEF n
<1>7. \A k \in 1..N : e[k] \in K <=> N - k + 1 <= Capacity
  BY <1>3, <1>6 DEF NewestRows
<1>8. K \subseteq D
  BY DEF NewestRows
<1> HIDE DEF K, Since
<1>9. /\ IsTable(Restrict(t, K)) /\ DOMAIN Restrict(t, K) = K
      /\ \A id \in K : Restrict(t, K)[id] = t[id]
      /\ InRowidOrder(Restrict(t, K)) = InOrder(t, K)
  BY <1>8, RestrictReads
<1>10. Len(rows) = N /\ DOMAIN rows = 1..N /\ \A i \in 1..N : rows[i] = t[e[i]]
  BY <1>1 DEF Reads
<1>11. CASE N <= Capacity
  <2>1. \A x \in D : x \in K
    <3> TAKE x \in D
    <3>1. PICK i \in 1..N : e[i] = x
      BY <1>5
    <3>2. N - i + 1 <= Capacity
      BY <1>2, <1>11
    <3> QED  BY <3>1, <3>2, <1>7
  <2>2. K = D
    BY <2>1, <1>8
  <2>3. Newest(rows) = rows
    BY <1>2, <1>10, <1>11 DEF Newest
  <2> QED  BY <1>8, <1>9, <1>10, <1>11, <2>2, <2>3 DEF Trim, K, InRowidOrder
<1>12. CASE N > Capacity
  <2> DEFINE h == [j \in 1..Capacity |-> e[N - Capacity + j]]
  <2>1. \A j \in 1..Capacity : N - Capacity + j \in 1..N /\ h[j] = e[N - Capacity + j]
    BY <1>2, <1>12
  <2>2. \A j \in 1..Capacity : h[j] \in K
    <3> TAKE j \in 1..Capacity
    <3>1. N - (N - Capacity + j) + 1 <= Capacity
      BY <1>2
    <3> QED  BY <2>1, <3>1, <1>7
  <2>3. \A i, j \in 1..Capacity : i < j => h[i] < h[j]
    <3> TAKE i \in 1..Capacity, j \in 1..Capacity
    <3>1. i < j => N - Capacity + i < N - Capacity + j
      BY <1>2
    <3> QED  BY <3>1, <2>1, <1>4
  <2>4. \A x \in K : \E j \in 1..Capacity : h[j] = x
    <3> TAKE x \in K
    <3>1. PICK i \in 1..N : e[i] = x
      BY <1>5, <1>8
    <3>2. N - i + 1 <= Capacity
      BY <3>1, <1>7
    <3>3. i - (N - Capacity) \in 1..Capacity /\ N - Capacity + (i - (N - Capacity)) = i
      BY <3>2, <1>2
    <3>4. h[i - (N - Capacity)] = e[i]
      BY <3>3
    <3> HIDE DEF h
    <3> QED  BY <3>1, <3>3, <3>4
  <2>5. Cardinality(K) = Capacity
    <3>1. K \subseteq Nat
      BY <1>2, <1>8
    <3> HIDE DEF h
    <3>2. Counts(h, Capacity, K)
      BY <3>1, <2>2, <2>3, <2>4 DEF Counts
    <3> QED  BY <3>2, <1>2, CountedBy
  <2>6. Enumerates(h, K)
    <3>1. h \in [1..Capacity -> K]
      BY <2>2
    <3> HIDE DEF h
    <3> QED  BY <3>1, <2>3, <2>4, <2>5 DEF Enumerates
  <2> DEFINE a == InOrder(t, K)
             b == SubSeq(rows, N - Capacity + 1, N)
  <2>7. a = [j \in 1..Capacity |-> a[j]] /\ \A j \in 1..Capacity : a[j] = t[h[j]]
    <3>1. K \subseteq Nat /\ IsFiniteSet(K)
      BY <1>8, FS_Subset DEF IsTable
    <3> HIDE DEF h
    <3> QED  BY <3>1, <2>5, <2>6, OrderedBy
  <2>8. /\ b = [j \in 1..Capacity |-> b[j]] /\ Len(b) = Capacity
        /\ \A j \in 1..Capacity : b[j] = rows[N - Capacity + j]
    <3> DEFINE X == {t[id] : id \in D}
    <3>1. rows \in Seq(X)
      BY <1>1 DEF Reads
    <3> HIDE DEF rows, X, N, h, a
    <3> QED  BY <3>1, <1>2, <1>10, <1>12, LastRows
  <2>9. \A j \in 1..Capacity : t[h[j]] = rows[N - Capacity + j]
    BY <2>1, <1>10
  <2> HIDE DEF a, b, h
  <2>10. a = b
    BY <2>7, <2>8, <2>9
  <2>11. Newest(rows) = b
    BY <1>2, <1>10, <1>12 DEF Newest, b
  <2> QED  BY <1>2, <1>8, <1>9, <2>8, <2>10, <2>11 DEF Trim, K, a
<1> QED  BY <1>2, <1>11, <1>12

-----------------------------------------------------------------------------
(* The tables of a store that load_snapshot accepts. *)
TablesOK(tables) ==
  /\ tables = [generation |-> tables.generation, revision |-> tables.revision,
               phrases |-> tables.phrases, overrides |-> tables.overrides,
               bigrams |-> tables.bigrams, table |-> tables.table]
  /\ tables.generation \in Nat /\ tables.revision \in Nat
  /\ IsTable(tables.phrases) /\ KeyedPhrases(tables.phrases)
  /\ IsTable(tables.overrides) /\ KeyedQueries(tables.overrides)
  /\ IsTable(tables.bigrams) /\ KeyedQueries(tables.bigrams)
  /\ IsTable(tables.table) /\ KeyedCounts(tables.table)

(* A snapshot in memory that holds the rows of the tables.  Its version is  *)
(* left aside: apply_change counts resets as it goes, preview at the end.   *)
HoldsRows(tables, data) ==
  /\ data = [generation |-> data.generation, revision |-> data.revision,
             phrases |-> InRowidOrder(tables.phrases),
             overrides |-> InRowidOrder(tables.overrides),
             bigrams |-> InRowidOrder(tables.bigrams),
             table |-> InRowidOrder(tables.table)]

LEMMA EmptyTable == /\ IsTable(<<>>) /\ InRowidOrder(<<>>) = <<>>
                    /\ KeyedPhrases(<<>>) /\ KeyedQueries(<<>>) /\ KeyedCounts(<<>>)
<1>1. DOMAIN <<>> = {} /\ IsFiniteSet({}) /\ Cardinality({}) = 0
  BY FS_EmptySet
<1>2. IsTable(<<>>)
  BY <1>1 DEF IsTable
<1>3. InRowidOrder(<<>>) = <<>>
  BY <1>1 DEF InRowidOrder, InOrder
<1> QED  BY <1>1, <1>2, <1>3 DEF KeyedPhrases, KeyedQueries, KeyedCounts

LEMMA InsertQueryKeyed ==
  ASSUME NEW t, IsTable(t), KeyedQueries(t), NEW c, \A id \in DOMAIN t : ~SameQuery(c, t[id])
  PROVE  KeyedQueries(Insert(t, QueryRow(c)))
<1> DEFINE row == QueryRow(c)
           u == Insert(t, row)
<1>1. PICK m \in Nat : /\ \A id \in DOMAIN t : id < m
                       /\ DOMAIN Insert(t, row) = DOMAIN t \cup {m}
                       /\ \A id \in DOMAIN t : Insert(t, row)[id] = t[id]
                       /\ Insert(t, row)[m] = row
                       /\ IsTable(Insert(t, row))
  BY InsertIsLast
<1>2. u[m].qstring = c.qstring
  BY <1>1 DEF QueryRow
<1>3. \A i \in DOMAIN t : u[i].qstring = t[i].qstring /\ t[i].qstring # c.qstring
  BY <1>1 DEF SameQuery
<1> HIDE DEF u
<1> QED  BY <1>1, <1>2, <1>3 DEF KeyedQueries, u

(* SetOverride and SetBigram: the row of the query is stored anew, last.    *)
LEMMA ReplaceQuery ==
  ASSUME NEW t, IsTable(t), KeyedQueries(t), NEW c
  PROVE  LET u == Insert(QueriesLeft(t, c), QueryRow(c))
         IN /\ IsTable(u) /\ KeyedQueries(u)
            /\ InRowidOrder(u) = Append(QueryRowsLeft(InRowidOrder(t), c), QueryRow(c))
<1> DEFINE d == QueriesLeft(t, c)
<1>1. /\ IsTable(d) /\ DOMAIN d \subseteq DOMAIN t
      /\ \A id \in DOMAIN d : d[id] = t[id] /\ ~SameQuery(c, t[id])
      /\ InRowidOrder(d) = QueryRowsLeft(InRowidOrder(t), c)
  BY DeleteQueries
<1> HIDE DEF d
<1>2. KeyedQueries(d) /\ \A id \in DOMAIN d : ~SameQuery(c, d[id])
  BY <1>1 DEF KeyedQueries
<1>3. KeyedQueries(Insert(d, QueryRow(c)))
  BY <1>1, <1>2, InsertQueryKeyed
<1> DEFINE row == QueryRow(c)
<1> HIDE DEF row
<1>4. IsTable(Insert(d, row)) /\ InRowidOrder(Insert(d, row)) = Append(InRowidOrder(d), row)
  BY <1>1, InsertIsLast, InsertReads
<1> QED  BY <1>1, <1>3, <1>4 DEF d, row

(* What one change does to each of the four lists of rows, as SQL and in    *)
(* memory.                                                                  *)
LEMMA ChangeMatches ==
  ASSUME NEW tables, TablesOK(tables), NEW data, HoldsRows(tables, data), NEW c \in Change
  PROVE  /\ TablesOK(SqlChange(tables, c))
         /\ HoldsRows(SqlChange(tables, c), ApplyChange(data, c))
         /\ SqlChange(tables, c).generation
              = tables.generation + IF c.kind \in ResetKinds THEN 1 ELSE 0
<1> DEFINE g == tables.generation
           r == tables.revision
           p == tables.phrases
           o == tables.overrides
           b == tables.bigrams
           t == tables.table
           step == IF c.kind \in ResetKinds THEN 1 ELSE 0
           Tabs(gg, pp, oo, bb, tt) ==
             [generation |-> gg, revision |-> r, phrases |-> pp, overrides |-> oo,
              bigrams |-> bb, table |-> tt]
           Rows(pp, oo, bb, tt) ==
             [generation |-> data.generation, revision |-> data.revision, phrases |-> pp,
              overrides |-> oo, bigrams |-> bb, table |-> tt]
           rp == InRowidOrder(p)
           ro == InRowidOrder(o)
           rb == InRowidOrder(b)
           rt == InRowidOrder(t)
           Goal == /\ TablesOK(SqlChange(tables, c))
                   /\ HoldsRows(SqlChange(tables, c), ApplyChange(data, c))
                   /\ SqlChange(tables, c).generation = g + step
           Good(gg, pp, oo, bb, tt, p1, o1, b1, t1) ==
             /\ SqlChange(tables, c) = Tabs(gg, pp, oo, bb, tt)
             /\ ApplyChange(data, c) = Rows(p1, o1, b1, t1)
             /\ gg \in Nat /\ gg = g + step
             /\ IsTable(pp) /\ KeyedPhrases(pp) /\ p1 = InRowidOrder(pp)
             /\ IsTable(oo) /\ KeyedQueries(oo) /\ o1 = InRowidOrder(oo)
             /\ IsTable(bb) /\ KeyedQueries(bb) /\ b1 = InRowidOrder(bb)
             /\ IsTable(tt) /\ KeyedCounts(tt) /\ t1 = InRowidOrder(tt)
<1> SUFFICES Goal
  OBVIOUS
<1>1. /\ tables = Tabs(g, p, o, b, t) /\ g \in Nat /\ r \in Nat
      /\ IsTable(p) /\ KeyedPhrases(p) /\ IsTable(o) /\ KeyedQueries(o)
      /\ IsTable(b) /\ KeyedQueries(b) /\ IsTable(t) /\ KeyedCounts(t)
  BY DEF TablesOK
<1>2. data = Rows(rp, ro, rb, rt)
  BY DEF HoldsRows
<1>3. ASSUME NEW gg, NEW pp, NEW oo, NEW bb, NEW tt, NEW p1, NEW o1, NEW b1, NEW t1,
             Good(gg, pp, oo, bb, tt, p1, o1, b1, t1)
      PROVE  Goal
  <2>1. SqlChange(tables, c).generation = g + step
    BY <1>3
  <2>2. TablesOK(SqlChange(tables, c))
    BY <1>1, <1>3 DEF TablesOK
  <2>3. HoldsRows(SqlChange(tables, c), ApplyChange(data, c))
    BY <1>3 DEF HoldsRows
  <2> QED  BY <2>1, <2>2, <2>3
<1>4. CASE c.kind = "UpsertPhrase"
  <2>1. SqlChange(tables, c) = Tabs(g, PhraseStored(p, c), o, b, t)
    BY <1>1, <1>4 DEF SqlChange, PhraseStored
  <2>2. ApplyChange(data, c) = Rows(PhraseRowsStored(rp, c), ro, rb, rt)
    <3> HIDE DEF p, o, b, t, rp, ro, rb, rt
    <3> QED  BY <1>2, <1>4 DEF ApplyChange, PhraseRowsStored
  <2>3. g = g + step
    BY <1>1, <1>4 DEF ResetKinds
  <2>4. /\ IsTable(PhraseStored(p, c)) /\ KeyedPhrases(PhraseStored(p, c))
        /\ PhraseRowsStored(rp, c) = InRowidOrder(PhraseStored(p, c))
    BY <1>1, UpsertPhrase
  <2> HIDE DEF g, p, o, b, t, Tabs, Rows, step, Goal
  <2>5. Good(g, PhraseStored(p, c), o, b, t, PhraseRowsStored(rp, c), ro, rb, rt)
    BY <1>1, <2>1, <2>2, <2>3, <2>4
  <2> HIDE DEF Good
  <2> QED  BY <1>3, <2>5
<1>5. CASE c.kind = "InsertPhraseIfAbsent"
  <2>0. (\E id \in DOMAIN p : SamePhrase(c, p[id])) <=> Holds(rp, LAMBDA row : SamePhrase(c, row))
    <3>1. PICK e : Reads(p, rp, e)
      BY <1>1, TableReads
    <3>2. /\ \A i \in DOMAIN rp : e[i] \in DOMAIN p /\ rp[i] = p[e[i]]
          /\ \A id \in DOMAIN p : \E i \in DOMAIN rp : e[i] = id /\ rp[i] = p[id]
      BY <3>1, ReadsAll
    <3> HIDE DEF p, rp
    <3> QED  BY <3>2 DEF Holds
  <2>a. CASE \E id \in DOMAIN p : SamePhrase(c, p[id])
    <3>1. SqlChange(tables, c) = Tabs(g, p, o, b, t)
      BY <1>1, <1>5, <2>a DEF SqlChange
    <3>2. ApplyChange(data, c) = Rows(rp, ro, rb, rt)
      BY <1>2, <1>5, <2>0, <2>a DEF ApplyChange
    <3>3. g = g + step
      BY <1>1, <1>5 DEF ResetKinds
    <3> HIDE DEF g, p, o, b, t, Tabs, Rows, step, Goal
    <3>4. Good(g, p, o, b, t, rp, ro, rb, rt)
      BY <1>1, <3>1, <3>2, <3>3
    <3> HIDE DEF Good
    <3> QED  BY <1>3, <3>4
  <2>b. CASE ~\E id \in DOMAIN p : SamePhrase(c, p[id])
    <3> DEFINE u == Insert(p, PhraseRow(c))
               v == Append(rp, PhraseRow(c))
    <3>1. SqlChange(tables, c) = Tabs(g, u, o, b, t)
      BY <1>1, <1>5, <2>b DEF SqlChange
    <3>2. ApplyChange(data, c) = Rows(v, ro, rb, rt)
      BY <1>2, <1>5, <2>0, <2>b DEF ApplyChange
    <3>3. g = g + step
      BY <1>1, <1>5 DEF ResetKinds
    <3>4. KeyedPhrases(u)
      BY <1>1, <2>b, InsertPhraseKeyed
    <3>5. IsTable(u) /\ v = InRowidOrder(u)
      <4> DEFINE row == PhraseRow(c)
      <4> HIDE DEF row, p
      <4>1. IsTable(Insert(p, row)) /\ Append(rp, row) = InRowidOrder(Insert(p, row))
        BY <1>1, InsertIsLast, InsertReads
      <4> QED  BY <4>1 DEF row
    <3> HIDE DEF g, p, o, b, t, Tabs, Rows, step, Goal, u, v
    <3>6. Good(g, u, o, b, t, v, ro, rb, rt)
      BY <1>1, <3>1, <3>2, <3>3, <3>4, <3>5
    <3> HIDE DEF Good
    <3> QED  BY <1>3, <3>6
  <2> QED  BY <2>a, <2>b
<1>6. CASE c.kind = "RemovePhrase"
  <2>1. SqlChange(tables, c) = Tabs(g, PhrasesLeft(p, c), o, b, t)
    BY <1>1, <1>6 DEF SqlChange, PhrasesLeft
  <2>2. ApplyChange(data, c) = Rows(PhraseRowsLeft(rp, c), ro, rb, rt)
    <3> HIDE DEF p, o, b, t, rp, ro, rb, rt
    <3> QED  BY <1>2, <1>6 DEF ApplyChange, PhraseRowsLeft
  <2>3. g = g + step
    BY <1>1, <1>6 DEF ResetKinds
  <2>4. /\ IsTable(PhrasesLeft(p, c)) /\ KeyedPhrases(PhrasesLeft(p, c))
        /\ PhraseRowsLeft(rp, c) = InRowidOrder(PhrasesLeft(p, c))
    <3> HIDE DEF p
    <3>1. /\ IsTable(PhrasesLeft(p, c)) /\ DOMAIN PhrasesLeft(p, c) \subseteq DOMAIN p
          /\ \A id \in DOMAIN PhrasesLeft(p, c) : PhrasesLeft(p, c)[id] = p[id]
          /\ InRowidOrder(PhrasesLeft(p, c)) = PhraseRowsLeft(rp, c)
      BY <1>1, DeletePhrases
    <3> QED  BY <1>1, <3>1 DEF KeyedPhrases
  <2> HIDE DEF g, p, o, b, t, Tabs, Rows, step, Goal
  <2>5. Good(g, PhrasesLeft(p, c), o, b, t, PhraseRowsLeft(rp, c), ro, rb, rt)
    BY <1>1, <2>1, <2>2, <2>3, <2>4
  <2> HIDE DEF Good
  <2> QED  BY <1>3, <2>5
<1>7. CASE c.kind = "SetOverride"
  <2>1. SqlChange(tables, c) = Tabs(g, p, Insert(QueriesLeft(o, c), QueryRow(c)), b, t)
    BY <1>1, <1>7 DEF SqlChange, QueriesLeft
  <2>2. ApplyChange(data, c) = Rows(rp, Append(QueryRowsLeft(ro, c), QueryRow(c)), rb, rt)
    <3> HIDE DEF p, o, b, t, rp, ro, rb, rt
    <3> DEFINE v == Append(QueryRowsLeft(ro, c), QueryRow(c))
               w == Append(QueryRowsLeft(data.overrides, c), QueryRow(c))
    <3>1. ApplyChange(data, c) = [data EXCEPT !.overrides = w]
      BY <1>7 DEF ApplyChange, QueryRowsLeft
    <3>3. w = v
      <4>1. data.overrides = ro
        BY <1>2
      <4> QED  BY <4>1
    <3> HIDE DEF v, w
    <3>2. [data EXCEPT !.overrides = v] = Rows(rp, v, rb, rt)
      BY <1>2
    <3> QED  BY <3>1, <3>2, <3>3 DEF v
  <2>3. g = g + step
    BY <1>1, <1>7 DEF ResetKinds
  <2>4. /\ IsTable(Insert(QueriesLeft(o, c), QueryRow(c)))
        /\ KeyedQueries(Insert(QueriesLeft(o, c), QueryRow(c)))
        /\ Append(QueryRowsLeft(ro, c), QueryRow(c))
             = InRowidOrder(Insert(QueriesLeft(o, c), QueryRow(c)))
    BY <1>1, ReplaceQuery
  <2> HIDE DEF g, p, o, b, t, Tabs, Rows, step, Goal
  <2>5. Good(g, p, Insert(QueriesLeft(o, c), QueryRow(c)), b, t, rp, Append(QueryRowsLeft(ro, c), QueryRow(c)), rb, rt)
    BY <1>1, <2>1, <2>2, <2>3, <2>4
  <2> HIDE DEF Good
  <2> QED  BY <1>3, <2>5
<1>8. CASE c.kind = "ClearOverride"
  <2>1. SqlChange(tables, c) = Tabs(g, p, QueriesLeft(o, c), b, t)
    BY <1>1, <1>8 DEF SqlChange, QueriesLeft
  <2>2. ApplyChange(data, c) = Rows(rp, QueryRowsLeft(ro, c), rb, rt)
    <3> HIDE DEF p, o, b, t, rp, ro, rb, rt
    <3> QED  BY <1>2, <1>8 DEF ApplyChange, QueryRowsLeft
  <2>3. g = g + step
    BY <1>1, <1>8 DEF ResetKinds
  <2>4. /\ IsTable(QueriesLeft(o, c)) /\ KeyedQueries(QueriesLeft(o, c))
        /\ QueryRowsLeft(ro, c) = InRowidOrder(QueriesLeft(o, c))
    <3> HIDE DEF o
    <3>1. /\ IsTable(QueriesLeft(o, c)) /\ DOMAIN QueriesLeft(o, c) \subseteq DOMAIN o
          /\ \A id \in DOMAIN QueriesLeft(o, c) : QueriesLeft(o, c)[id] = o[id]
          /\ InRowidOrder(QueriesLeft(o, c)) = QueryRowsLeft(ro, c)
      BY <1>1, DeleteQueries
    <3> QED  BY <1>1, <3>1 DEF KeyedQueries
  <2> HIDE DEF g, p, o, b, t, Tabs, Rows, step, Goal
  <2>5. Good(g, p, QueriesLeft(o, c), b, t, rp, QueryRowsLeft(ro, c), rb, rt)
    BY <1>1, <2>1, <2>2, <2>3, <2>4
  <2> HIDE DEF Good
  <2> QED  BY <1>3, <2>5
<1>9. CASE c.kind = "SetBigram"
  <2>1. SqlChange(tables, c) = Tabs(g, p, o, Insert(QueriesLeft(b, c), QueryRow(c)), t)
    BY <1>1, <1>9 DEF SqlChange, QueriesLeft
  <2>2. ApplyChange(data, c) = Rows(rp, ro, Append(QueryRowsLeft(rb, c), QueryRow(c)), rt)
    <3> HIDE DEF p, o, b, t, rp, ro, rb, rt
    <3> DEFINE v == Append(QueryRowsLeft(rb, c), QueryRow(c))
               w == Append(QueryRowsLeft(data.bigrams, c), QueryRow(c))
    <3>1. ApplyChange(data, c) = [data EXCEPT !.bigrams = w]
      BY <1>9 DEF ApplyChange, QueryRowsLeft
    <3>3. w = v
      <4>1. data.bigrams = rb
        BY <1>2
      <4> QED  BY <4>1
    <3> HIDE DEF v, w
    <3>2. [data EXCEPT !.bigrams = v] = Rows(rp, ro, v, rt)
      BY <1>2
    <3> QED  BY <3>1, <3>2, <3>3 DEF v
  <2>3. g = g + step
    BY <1>1, <1>9 DEF ResetKinds
  <2>4. /\ IsTable(Insert(QueriesLeft(b, c), QueryRow(c)))
        /\ KeyedQueries(Insert(QueriesLeft(b, c), QueryRow(c)))
        /\ Append(QueryRowsLeft(rb, c), QueryRow(c))
             = InRowidOrder(Insert(QueriesLeft(b, c), QueryRow(c)))
    BY <1>1, ReplaceQuery
  <2> HIDE DEF g, p, o, b, t, Tabs, Rows, step, Goal
  <2>5. Good(g, p, o, Insert(QueriesLeft(b, c), QueryRow(c)), t, rp, ro, Append(QueryRowsLeft(rb, c), QueryRow(c)), rt)
    BY <1>1, <2>1, <2>2, <2>3, <2>4
  <2> HIDE DEF Good
  <2> QED  BY <1>3, <2>5
<1>10. CASE c.kind = "IncrementTable"
  <2>1. SqlChange(tables, c) = Tabs(g, p, o, b, CountStored(t, c, Frequency(t, c) + 1))
    BY <1>1, <1>10 DEF SqlChange, CountStored
  <2>2. ApplyChange(data, c) = Rows(rp, ro, rb, CountRowsStored(rt, c, CountOf(data, c.method, c.current) + 1))
    <3> HIDE DEF p, o, b, t, rp, ro, rb, rt
    <3> QED  BY <1>2, <1>10 DEF ApplyChange, CountRowsStored
  <2>3. g = g + step
    BY <1>1, <1>10 DEF ResetKinds
  <2>4. /\ IsTable(CountStored(t, c, Frequency(t, c) + 1))
        /\ KeyedCounts(CountStored(t, c, Frequency(t, c) + 1))
        /\ CountRowsStored(rt, c, CountOf(data, c.method, c.current) + 1)
             = InRowidOrder(CountStored(t, c, Frequency(t, c) + 1))
    <3> DEFINE n == Frequency(t, c)
    <3>1. n = CountOf(data, c.method, c.current) /\ n \in Nat
      BY <1>1, <1>2, SameFrequency
    <3> HIDE DEF n, t
    <3>2. n + 1 \in Nat \ {0}
      BY <3>1
    <3> DEFINE k == n + 1
    <3> HIDE DEF k
    <3>3. /\ IsTable(CountStored(t, c, k)) /\ KeyedCounts(CountStored(t, c, k))
          /\ CountRowsStored(rt, c, k) = InRowidOrder(CountStored(t, c, k))
      BY <1>1, <3>2, UpsertCount DEF k
    <3> QED  BY <3>1, <3>3 DEF k, n
  <2> HIDE DEF g, p, o, b, t, Tabs, Rows, step, Goal
  <2>5. Good(g, p, o, b, CountStored(t, c, Frequency(t, c) + 1), rp, ro, rb, CountRowsStored(rt, c, CountOf(data, c.method, c.current) + 1))
    BY <1>1, <2>1, <2>2, <2>3, <2>4
  <2> HIDE DEF Good
  <2> QED  BY <1>3, <2>5
<1>11. CASE c.kind = "SetTable"
  <2>1. SqlChange(tables, c) = Tabs(g, p, o, b, CountStored(t, c, c.count))
    BY <1>1, <1>11 DEF SqlChange, CountStored
  <2>2. ApplyChange(data, c) = Rows(rp, ro, rb, CountRowsStored(rt, c, c.count))
    <3> HIDE DEF p, o, b, t, rp, ro, rb, rt
    <3> QED  BY <1>2, <1>11 DEF ApplyChange, CountRowsStored
  <2>3. g = g + step
    BY <1>1, <1>11 DEF ResetKinds
  <2>4. /\ IsTable(CountStored(t, c, c.count)) /\ KeyedCounts(CountStored(t, c, c.count))
        /\ CountRowsStored(rt, c, c.count) = InRowidOrder(CountStored(t, c, c.count))
    <3>1. c.count \in Nat \ {0}
      BY <1>11 DEF Change
    <3> QED  BY <1>1, <3>1, UpsertCount
  <2> HIDE DEF g, p, o, b, t, Tabs, Rows, step, Goal
  <2>5. Good(g, p, o, b, CountStored(t, c, c.count), rp, ro, rb, CountRowsStored(rt, c, c.count))
    BY <1>1, <2>1, <2>2, <2>3, <2>4
  <2> HIDE DEF Good
  <2> QED  BY <1>3, <2>5
<1>12. CASE c.kind = "ResetSmartLearning"
  <2>1. SqlChange(tables, c) = Tabs(g + 1, p, <<>>, <<>>, t)
    BY <1>1, <1>12 DEF SqlChange
  <2>2. ApplyChange(data, c) = Rows(rp, <<>>, <<>>, rt)
    <3> HIDE DEF p, o, b, t, rp, ro, rb, rt
    <3> DEFINE d1 == [data EXCEPT !.overrides = <<>>]
               d2 == [d1 EXCEPT !.bigrams = <<>>]
    <3>1. ApplyChange(data, c) = d2
      BY <1>12 DEF ApplyChange
    <3>2. d1 = Rows(rp, <<>>, rb, rt)
      BY <1>2
    <3> HIDE DEF d1
    <3>3. d2 = Rows(rp, <<>>, <<>>, rt)
      BY <3>2
    <3> QED  BY <3>1, <3>3
  <2>3. g + 1 = g + step
    BY <1>1, <1>12 DEF ResetKinds
  <2>4. IsTable(<<>>) /\ InRowidOrder(<<>>) = <<>> /\ KeyedQueries(<<>>) /\ KeyedCounts(<<>>)
    BY EmptyTable
  <2> HIDE DEF g, p, o, b, t, Tabs, Rows, step, Goal
  <2>5. Good(g + 1, p, <<>>, <<>>, t, rp, <<>>, <<>>, rt)
    BY <1>1, <2>1, <2>2, <2>3, <2>4
  <2> HIDE DEF Good
  <2> QED  BY <1>3, <2>5
<1>13. CASE c.kind = "ResetTableLearning"
  <2>1. SqlChange(tables, c) = Tabs(g + 1, p, o, b, CountsLeft(t, c))
    BY <1>1, <1>13 DEF SqlChange, CountsLeft
  <2>2. ApplyChange(data, c) = Rows(rp, ro, rb, CountRowsLeft(rt, c))
    <3> HIDE DEF p, o, b, t, rp, ro, rb, rt
    <3> QED  BY <1>2, <1>13 DEF ApplyChange, CountRowsLeft
  <2>3. g + 1 = g + step
    BY <1>1, <1>13 DEF ResetKinds
  <2>4. /\ IsTable(CountsLeft(t, c)) /\ KeyedCounts(CountsLeft(t, c))
        /\ CountRowsLeft(rt, c) = InRowidOrder(CountsLeft(t, c))
    <3> HIDE DEF t
    <3>1. /\ IsTable(CountsLeft(t, c)) /\ DOMAIN CountsLeft(t, c) \subseteq DOMAIN t
          /\ \A id \in DOMAIN CountsLeft(t, c) : CountsLeft(t, c)[id] = t[id]
          /\ InRowidOrder(CountsLeft(t, c)) = CountRowsLeft(rt, c)
      BY <1>1, DeleteMethod
    <3> QED  BY <1>1, <3>1 DEF KeyedCounts
  <2> HIDE DEF g, p, o, b, t, Tabs, Rows, step, Goal
  <2>5. Good(g + 1, p, o, b, CountsLeft(t, c), rp, ro, rb, CountRowsLeft(rt, c))
    BY <1>1, <2>1, <2>2, <2>3, <2>4
  <2> HIDE DEF Good
  <2> QED  BY <1>3, <2>5
<1>14. CASE c.kind = "ResetLearning"
  <2>1. SqlChange(tables, c) = Tabs(g + 1, p, <<>>, <<>>, <<>>)
    BY <1>1, <1>14 DEF SqlChange
  <2>2. ApplyChange(data, c) = Rows(rp, <<>>, <<>>, <<>>)
    <3> HIDE DEF p, o, b, t, rp, ro, rb, rt
    <3> DEFINE d1 == [data EXCEPT !.overrides = <<>>]
               d2 == [d1 EXCEPT !.bigrams = <<>>]
               d3 == [d2 EXCEPT !.table = <<>>]
    <3>1. ApplyChange(data, c) = d3
      BY <1>14 DEF ApplyChange
    <3>2. d1 = Rows(rp, <<>>, rb, rt)
      BY <1>2
    <3> HIDE DEF d1
    <3>3. d2 = Rows(rp, <<>>, <<>>, rt)
      BY <3>2
    <3> HIDE DEF d2
    <3>4. d3 = Rows(rp, <<>>, <<>>, <<>>)
      BY <3>3
    <3> QED  BY <3>1, <3>4
  <2>3. g + 1 = g + step
    BY <1>1, <1>14 DEF ResetKinds
  <2>4. IsTable(<<>>) /\ InRowidOrder(<<>>) = <<>> /\ KeyedQueries(<<>>) /\ KeyedCounts(<<>>)
    BY EmptyTable
  <2> HIDE DEF g, p, o, b, t, Tabs, Rows, step, Goal
  <2>5. Good(g + 1, p, <<>>, <<>>, <<>>, rp, <<>>, <<>>, <<>>)
    BY <1>1, <2>1, <2>2, <2>3, <2>4
  <2> HIDE DEF Good
  <2> QED  BY <1>3, <2>5
<1> HIDE DEF Goal
<1> QED
  BY <1>4, <1>5, <1>6, <1>7, <1>8, <1>9, <1>10, <1>11, <1>12, <1>13, <1>14 DEF Change

-----------------------------------------------------------------------------
(* The image of a transaction that has done the changes of the list done.   *)
Applied(tables, image, done) ==
  /\ done \in Seq(Change)
  /\ HoldsRows(image, FoldLeft(ApplyChange, Load(tables), done))
  /\ image.generation = tables.generation + Cardinality(Resets(done))

LEMMA LoadHolds == ASSUME NEW tables PROVE HoldsRows(tables, Load(tables))
BY DEF HoldsRows, Load

LEMMA NothingDone ==
  ASSUME NEW tables, TablesOK(tables)
  PROVE  Applied(tables, tables, <<>>)
<1>1. FoldLeft(ApplyChange, Load(tables), <<>>) = Load(tables)
  BY FoldEmpty
<1>2. Cardinality(Resets(<<>>)) = 0
  <2>1. Resets(<<>>) = {}
    BY DEF Resets
  <2> QED  BY <2>1, FS_EmptySet
<1>3. <<>> \in Seq(Change)
  OBVIOUS
<1> DEFINE data == FoldLeft(ApplyChange, Load(tables), <<>>)
<1>4. HoldsRows(tables, data)
  BY <1>1, LoadHolds
<1>5. tables.generation = tables.generation + Cardinality(Resets(<<>>))
  BY <1>2 DEF TablesOK
<1> HIDE DEF data
<1> QED  BY <1>3, <1>4, <1>5 DEF Applied, data

(* One more change is at most one more reset. *)
LEMMA ResetsAppend ==
  ASSUME NEW done \in Seq(Change), NEW c \in Change
  PROVE  /\ Cardinality(Resets(Append(done, c)))
              = Cardinality(Resets(done)) + (IF c.kind \in ResetKinds THEN 1 ELSE 0)
         /\ Cardinality(Resets(done)) \in Nat
<1> DEFINE more == Append(done, c)
           n == Len(done)
<1>1. /\ DOMAIN more = 1..n + 1 /\ n \in Nat /\ DOMAIN done = 1..n
      /\ more[n + 1] = c /\ \A k \in 1..n : more[k] = done[k]
  OBVIOUS
<1> HIDE DEF more, n
<1>2. IsFiniteSet(Resets(done)) /\ n + 1 \notin Resets(done)
  <2>1. IsFiniteSet(1..n)
    BY <1>1, FS_Interval
  <2>2. Resets(done) \subseteq 1..n
    BY <1>1 DEF Resets
  <2> QED  BY <1>1, <2>1, <2>2, FS_Subset
<1>3. Cardinality(Resets(done)) \in Nat
  BY <1>2, FS_CardinalityType
<1>4. CASE c.kind \in ResetKinds
  <2>1. Resets(more) = Resets(done) \cup {n + 1}
    BY <1>1, <1>4 DEF Resets
  <2>2. Cardinality(Resets(done) \cup {n + 1}) = Cardinality(Resets(done)) + 1
    BY <1>2, FS_AddElement
  <2> QED  BY <1>3, <1>4, <2>1, <2>2 DEF more
<1>5. CASE c.kind \notin ResetKinds
  <2>1. Resets(more) = Resets(done)
    BY <1>1, <1>5 DEF Resets
  <2> QED  BY <1>3, <1>5, <2>1 DEF more
<1> QED  BY <1>4, <1>5

LEMMA OneMoreDone ==
  ASSUME NEW tables, TablesOK(tables), NEW image, TablesOK(image),
         NEW done, Applied(tables, image, done), NEW c \in Change
  PROVE  /\ TablesOK(SqlChange(image, c))
         /\ Applied(tables, SqlChange(image, c), Append(done, c))
<1> DEFINE data == FoldLeft(ApplyChange, Load(tables), done)
           step == IF c.kind \in ResetKinds THEN 1 ELSE 0
<1>1. done \in Seq(Change) /\ HoldsRows(image, data)
      /\ image.generation = tables.generation + Cardinality(Resets(done))
  BY DEF Applied
<1>2. FoldLeft(ApplyChange, Load(tables), Append(done, c)) = ApplyChange(data, c)
  BY <1>1, FoldAppend
<1> HIDE DEF data
<1>3. /\ TablesOK(SqlChange(image, c))
      /\ HoldsRows(SqlChange(image, c), ApplyChange(data, c))
      /\ SqlChange(image, c).generation = image.generation + step
  BY <1>1, ChangeMatches
<1>4. /\ Cardinality(Resets(Append(done, c))) = Cardinality(Resets(done)) + step
      /\ Cardinality(Resets(done)) \in Nat
  BY <1>1, ResetsAppend
<1>5. tables.generation \in Nat /\ step \in Nat
  BY DEF TablesOK
<1> HIDE DEF step
<1>6. SqlChange(image, c).generation
        = tables.generation + Cardinality(Resets(Append(done, c)))
  BY <1>1, <1>3, <1>4, <1>5
<1>7. Append(done, c) \in Seq(Change)
  BY <1>1
<1> QED  BY <1>2, <1>3, <1>6, <1>7 DEF Applied

(* trim_caches and the new revision make the image the list's preview.      *)
LEMMA ClosedIsPreview ==
  ASSUME NEW tables, NEW image, TablesOK(image), image.revision = tables.revision,
         NEW list, Applied(tables, image, list), list # <<>>
  PROVE  /\ TablesOK(Closed(image))
         /\ Load(Closed(image)) = Preview(Load(tables), list)
         /\ Len(InRowidOrder(Closed(image).overrides)) <= Capacity
         /\ Len(InRowidOrder(Closed(image).bigrams)) <= Capacity
<1> DEFINE rows == FoldLeft(ApplyChange, Load(tables), list)
           o == image.overrides
           b == image.bigrams
<1>1. /\ IsTable(o) /\ KeyedQueries(o) /\ IsTable(b) /\ KeyedQueries(b)
  BY DEF TablesOK
<1>2. HoldsRows(image, rows) /\ image.generation = tables.generation + Cardinality(Resets(list))
  BY DEF Applied
<1> HIDE DEF rows, o, b
<1>3. /\ rows.phrases = InRowidOrder(image.phrases) /\ rows.overrides = InRowidOrder(o)
      /\ rows.bigrams = InRowidOrder(b) /\ rows.table = InRowidOrder(image.table)
  BY <1>2 DEF HoldsRows, o, b
<1>4. IsTable(Trim(o)) /\ KeyedQueries(Trim(o)) /\ InRowidOrder(Trim(o)) = Newest(InRowidOrder(o))
      /\ Len(Newest(InRowidOrder(o))) <= Capacity
  <2>1. /\ IsTable(Trim(o)) /\ DOMAIN Trim(o) \subseteq DOMAIN o
        /\ \A id \in DOMAIN Trim(o) : Trim(o)[id] = o[id]
        /\ InRowidOrder(Trim(o)) = Newest(InRowidOrder(o))
        /\ Len(Newest(InRowidOrder(o))) <= Capacity
    BY <1>1, TrimReads
  <2> QED  BY <1>1, <2>1 DEF KeyedQueries
<1>5. IsTable(Trim(b)) /\ KeyedQueries(Trim(b)) /\ InRowidOrder(Trim(b)) = Newest(InRowidOrder(b))
      /\ Len(Newest(InRowidOrder(b))) <= Capacity
  <2>1. /\ IsTable(Trim(b)) /\ DOMAIN Trim(b) \subseteq DOMAIN b
        /\ \A id \in DOMAIN Trim(b) : Trim(b)[id] = b[id]
        /\ InRowidOrder(Trim(b)) = Newest(InRowidOrder(b))
        /\ Len(Newest(InRowidOrder(b))) <= Capacity
    BY <1>1, TrimReads
  <2> QED  BY <1>1, <2>1 DEF KeyedQueries
<1>6. Closed(image) = [generation |-> image.generation, revision |-> image.revision + 1,
                       phrases |-> image.phrases, overrides |-> Trim(o),
                       bigrams |-> Trim(b), table |-> image.table]
  BY DEF Closed, o, b
<1>7. TablesOK(Closed(image))
  BY <1>4, <1>5, <1>6 DEF TablesOK
<1>8. Load(Closed(image))
        = [generation |-> image.generation, revision |-> image.revision + 1,
           phrases |-> rows.phrases, overrides |-> Newest(rows.overrides),
           bigrams |-> Newest(rows.bigrams), table |-> rows.table]
  BY <1>3, <1>4, <1>5, <1>6 DEF Load
<1>9. Preview(Load(tables), list)
        = [generation |-> tables.generation + Cardinality(Resets(list)),
           revision |-> tables.revision + 1,
           phrases |-> rows.phrases, overrides |-> Newest(rows.overrides),
           bigrams |-> Newest(rows.bigrams), table |-> rows.table]
  <2>1. Load(tables).generation = tables.generation /\ Load(tables).revision = tables.revision
    BY LoadVersion
  <2> HIDE DEF FoldLeft
  <2> QED  BY <2>1 DEF Preview, rows
<1> QED  BY <1>2, <1>4, <1>5, <1>6, <1>7, <1>8, <1>9

(* What load_snapshot reads of keyed tables is keyed. *)
LEMMA RowsKeyed ==
  ASSUME NEW t, IsTable(t)
  PROVE  /\ KeyedPhrases(t) => UniqueKeys(InRowidOrder(t), LAMBDA row : row.key)
         /\ KeyedQueries(t) => UniqueKeys(InRowidOrder(t), LAMBDA row : row.qstring)
         /\ KeyedCounts(t) =>
              /\ UniqueKeys(InRowidOrder(t), LAMBDA row : <<row.method, row.current>>)
              /\ \A i \in DOMAIN InRowidOrder(t) : InRowidOrder(t)[i].count > 0
<1> DEFINE rows == InRowidOrder(t)
<1>1. PICK e : Reads(t, rows, e)
  BY TableReads
<1>2. /\ \A i \in DOMAIN rows : e[i] \in DOMAIN t /\ rows[i] = t[e[i]]
      /\ \A i, j \in DOMAIN rows : e[i] = e[j] => i = j
  BY <1>1, ReadsAll
<1> HIDE DEF rows
<1>3. ASSUME KeyedPhrases(t) PROVE UniqueKeys(rows, LAMBDA row : row.key)
  BY <1>2, <1>3 DEF KeyedPhrases, UniqueKeys
<1>4. ASSUME KeyedQueries(t) PROVE UniqueKeys(rows, LAMBDA row : row.qstring)
  BY <1>2, <1>4 DEF KeyedQueries, UniqueKeys
<1>5. ASSUME KeyedCounts(t) PROVE UniqueKeys(rows, LAMBDA row : <<row.method, row.current>>)
  BY <1>2, <1>5 DEF KeyedCounts, UniqueKeys
<1>6. ASSUME KeyedCounts(t) PROVE \A i \in DOMAIN rows : rows[i].count > 0
  BY <1>2, <1>6 DEF KeyedCounts
<1> QED  BY <1>3, <1>4, <1>5, <1>6 DEF rows

-----------------------------------------------------------------------------
(* The lists a transaction saves: a client's, or reset_learning's one.      *)
Saved == Lists \cup {<<[kind |-> "ResetLearning"]>>}

LEMMA SavedLists == \A list \in Saved : list \in Seq(Change) /\ list # <<>>
<1>1. [kind |-> "ResetLearning"] \in Change
  BY DEF Change
<1>2. <<[kind |-> "ResetLearning"]>> \in Seq(Change) /\ <<[kind |-> "ResetLearning"]>> # <<>>
  BY <1>1
<1> QED  BY <1>2, ListsAssumption DEF Saved

(* The transaction under way: nothing done of its list; the first changes   *)
(* done, the others left; the whole list done, and the caches trimmed.      *)
Underway ==
  /\ tx.step = "check" => tx.left \in Saved
  /\ tx.step = "change" =>
       \E done : Applied(disk, tx.image, done) /\ done \o tx.left \in Saved
  /\ tx.step = "load" =>
       /\ \E list \in Saved : Load(tx.image) = Preview(Load(disk), list)
       /\ Len(InRowidOrder(tx.image.overrides)) <= Capacity
       /\ Len(InRowidOrder(tx.image.bigrams)) <= Capacity

RInv == IInv /\ TablesOK(disk) /\ TablesOK(tx.image) /\ Underway

LEMMA EmptyTablesOK == TablesOK(EmptyTables) /\ Load(EmptyTables) = EmptySnapshot
BY EmptyTable DEF TablesOK, EmptyTables, Load, EmptySnapshot

LEMMA RInit == Init => RInv
<1> SUFFICES ASSUME Init PROVE RInv
  OBVIOUS
<1>1. disk = EmptyTables /\ tx.image = EmptyTables /\ tx.step = "none"
  BY DEF Init, NoTx
<1> QED  BY <1>1, InitEstablishes, EmptyTablesOK DEF RInv, Underway

LEMMA NoneUnderway ==
  ASSUME tx' = NoTx
  PROVE  TablesOK(tx.image)' /\ Underway'
<1>1. tx'.image = EmptyTables /\ tx'.step = "none"
  BY DEF NoTx
<1> QED  BY <1>1, EmptyTablesOK DEF Underway

LEMMA StillUnderway ==
  ASSUME RInv, UNCHANGED <<disk, tx>>
  PROVE  TablesOK(disk)' /\ TablesOK(tx.image)' /\ Underway'
BY DEF RInv, Underway

LEMMA BeginRefines ==
  ASSUME RInv, NEW c \in Connections, NEW step \in {"check", "change"}, NEW changes \in Saved,
         BeginTx(c, step, changes)
  PROVE  TablesOK(disk)' /\ TablesOK(tx.image)' /\ Underway'
<1>1. disk' = disk /\ tx' = [step |-> step, image |-> disk, left |-> changes,
                             expected |-> known[c].generation]
  BY DEF BeginTx
<1>2. tx'.step = step /\ tx'.image = disk /\ tx'.left = changes
  BY <1>1
<1>3. TablesOK(disk) /\ Applied(disk, disk, <<>>)
  BY NothingDone DEF RInv
<1>4. <<>> \o changes \in Saved
  <2>1. changes \in Seq(Change)
    BY SavedLists
  <2>2. <<>> \o changes = changes
    BY <2>1
  <2> QED  BY <2>2
<1>5. \E done : Applied(disk, disk, done) /\ done \o changes \in Saved
  BY <1>3, <1>4
<1> QED  BY <1>1, <1>2, <1>3, <1>5 DEF Underway

LEMMA CurrentRefines ==
  ASSUME RInv, NEW c \in Connections, Current(c)
  PROVE  TablesOK(disk)' /\ TablesOK(tx.image)' /\ Underway'
<1>1. tx.step = "check" /\ disk' = disk /\ tx.image = disk /\ tx.left \in Saved
  BY DEF Current, RInv, IInv, TxOK, Underway
<1>2. tx'.step = "change" /\ tx'.image = disk /\ tx'.left = tx.left
  BY <1>1 DEF Current, RInv, IInv, TxOK
<1>3. TablesOK(disk) /\ Applied(disk, disk, <<>>)
  BY NothingDone DEF RInv
<1>4. <<>> \o tx.left \in Saved
  <2>1. tx.left \in Seq(Change)
    BY <1>1, SavedLists
  <2>2. <<>> \o tx.left = tx.left
    BY <2>1
  <2> QED  BY <1>1, <2>2
<1>5. \E done : Applied(disk, disk, done) /\ done \o tx.left \in Saved
  BY <1>3, <1>4
<1> QED  BY <1>1, <1>2, <1>3, <1>5 DEF Underway

LEMMA MoveHead ==
  ASSUME NEW done \in Seq(Change), NEW left \in Seq(Change), left # <<>>
  PROVE  Append(done, Head(left)) \o Tail(left) = done \o left
<1> DEFINE a == Append(done, Head(left)) \o Tail(left)
           b == done \o left
           m == Len(done)
           n == Len(left)
<1>1. m \in Nat /\ n \in Nat \ {0} /\ Len(Tail(left)) = n - 1 /\ Head(left) = left[1]
  OBVIOUS
<1>2. Append(done, Head(left)) \in Seq(Change) /\ Tail(left) \in Seq(Change)
      /\ Len(Append(done, Head(left))) = m + 1
  OBVIOUS
<1>3. Len(a) = m + n /\ Len(b) = m + n /\ a \in Seq(Change) /\ b \in Seq(Change)
  BY <1>1, <1>2
<1>4. \A i \in 1..m + n : a[i] = b[i]
  <2> TAKE i \in 1..m + n
  <2>1. CASE i <= m
    BY <1>1, <1>2, <2>1
  <2>2. CASE i = m + 1
    BY <1>1, <1>2, <2>2
  <2>3. CASE i > m + 1
    BY <1>1, <1>2, <2>3
  <2> QED  BY <1>1, <2>1, <2>2, <2>3
<1> HIDE DEF a, b
<1>5. a = b
  BY <1>1, <1>3, <1>4
<1> QED  BY <1>5 DEF a, b

LEMMA ChangeRefines ==
  ASSUME RInv, NEW c \in Connections, ChangeRow(c)
  PROVE  TablesOK(disk)' /\ TablesOK(tx.image)' /\ Underway'
<1> DEFINE d == Head(tx.left)
<1>1. /\ tx.step = "change" /\ disk' = disk /\ tx.left \in Seq(Change) /\ tx.left # <<>>
      /\ tx'.step = "change" /\ tx'.image = SqlChange(tx.image, d) /\ tx'.left = Tail(tx.left)
  BY DEF ChangeRow, RInv, IInv, TxOK
<1>2. PICK done : Applied(disk, tx.image, done) /\ done \o tx.left \in Saved
  BY <1>1 DEF RInv, Underway
<1>3. done \in Seq(Change) /\ d \in Change
  BY <1>1, <1>2 DEF Applied
<1>4. Append(done, d) \o Tail(tx.left) \in Saved
  BY <1>1, <1>2, <1>3, MoveHead
<1> HIDE DEF d
<1>5. /\ TablesOK(SqlChange(tx.image, d))
      /\ Applied(disk, SqlChange(tx.image, d), Append(done, d))
  BY <1>2, <1>3, OneMoreDone DEF RInv
<1>6. \E more : Applied(disk, SqlChange(tx.image, d), more) /\ more \o Tail(tx.left) \in Saved
  BY <1>4, <1>5
<1> QED  BY <1>1, <1>5, <1>6 DEF RInv, Underway

LEMMA FinishRefines ==
  ASSUME RInv, NEW c \in Connections, FinishTx(c)
  PROVE  TablesOK(disk)' /\ TablesOK(tx.image)' /\ Underway'
<1>1. /\ tx.step = "change" /\ disk' = disk /\ tx.left = <<>>
      /\ tx'.step = "load" /\ tx'.image = Closed(tx.image)
      /\ tx.image.revision = disk.revision
  BY DEF FinishTx, RInv, IInv, TxOK
<1>2. PICK list : Applied(disk, tx.image, list) /\ list \o tx.left \in Saved
  BY <1>1 DEF RInv, Underway
<1>3. list \in Saved
  <2>1. list \in Seq(Change)
    BY <1>2 DEF Applied
  <2>2. list \o <<>> = list
    BY <2>1
  <2> QED  BY <1>1, <1>2, <2>2
<1>4. list # <<>>
  BY <1>3, SavedLists
<1>5. /\ TablesOK(Closed(tx.image))
      /\ Load(Closed(tx.image)) = Preview(Load(disk), list)
      /\ Len(InRowidOrder(Closed(tx.image).overrides)) <= Capacity
      /\ Len(InRowidOrder(Closed(tx.image).bigrams)) <= Capacity
  BY <1>1, <1>2, <1>4, ClosedIsPreview DEF RInv
<1> QED  BY <1>1, <1>3, <1>5 DEF RInv, Underway

LEMMA CommitRefines ==
  ASSUME RInv, NEW c \in Connections, CommitTx(c)
  PROVE  /\ TablesOK(disk)' /\ TablesOK(tx.image)' /\ Underway'
         /\ \E list \in Saved : Load(disk') = Preview(Load(disk), list)
<1>1. tx.step = "load" /\ disk' = tx.image /\ tx' = NoTx
  BY DEF CommitTx, EndTx
<1> QED  BY <1>1, NoneUnderway DEF RInv, Underway

(* Only a commit changes what is saved, and it saves a whole list.          *)
LEMMA NextRefines ==
  ASSUME RInv, [Next]_vars
  PROVE  /\ RInv'
         /\ \/ UNCHANGED disk
            \/ \E list \in Saved : Load(disk') = Preview(Load(disk), list)
<1> DEFINE Kept == TablesOK(disk)' /\ TablesOK(tx.image)' /\ Underway'
           Moved == UNCHANGED disk \/ \E list \in Saved : Load(disk') = Preview(Load(disk), list)
<1>0. IInv'
  BY NextKeeps DEF RInv
<1> SUFFICES Kept /\ Moved
  BY <1>0 DEF RInv
<1>1. CASE UNCHANGED vars
  BY <1>1, StillUnderway DEF vars
<1>2. ASSUME NEW c \in Connections, Snapshot(c) \/ Busy(c)
      PROVE  Kept /\ Moved
  BY <1>2, StillUnderway DEF Snapshot, Busy
<1>3. ASSUME NEW c \in Connections, BeginReset(c) PROVE Kept /\ Moved
  BY <1>3, BeginRefines DEF BeginReset, BeginTx, Saved
<1>4. ASSUME NEW c \in Connections, NEW changes \in Lists, BeginApply(c, changes)
      PROVE  Kept /\ Moved
  BY <1>4, BeginRefines DEF BeginApply, BeginTx, Saved
<1>5. ASSUME NEW c \in Connections, Current(c) \/ ChangeRow(c) \/ FinishTx(c)
      PROVE  Kept /\ Moved
  BY <1>5, CurrentRefines, ChangeRefines, FinishRefines DEF Current, ChangeRow, FinishTx
<1>6. ASSUME NEW c \in Connections, Stale(c) \/ FailTx(c) PROVE Kept /\ Moved
  BY <1>6, NoneUnderway DEF Stale, FailTx, EndTx, RInv
<1>7. ASSUME NEW c \in Connections, CommitTx(c) PROVE Kept /\ Moved
  BY <1>7, CommitRefines
<1>8. ASSUME NEW c \in Connections, Crash(c) PROVE Kept /\ Moved
  <2>1. disk' = disk /\ (tx' = NoTx \/ tx' = tx)
    BY <1>8 DEF Crash
  <2> QED  BY <2>1, NoneUnderway, StillUnderway DEF RInv
<1> HIDE DEF Kept, Moved
<1> QED  BY <1>1, <1>2, <1>3, <1>4, <1>5, <1>6, <1>7, <1>8 DEF Next

(* The image under a transaction is, at every step, the committed rows with *)
(* the first changes of its list applied.                                   *)
THEOREM Atomicity == Spec => []RInv
<1>1. Init => RInv
  BY RInit
<1>2. RInv /\ [Next]_vars => RInv'
  BY NextRefines
<1> QED  BY <1>1, <1>2, PTL DEF Spec

(* load_snapshot accepts every image that apply is about to commit: keys    *)
(* stay unique, counts positive and the caches inside their capacity,       *)
(* whatever the lists, so no list that was accepted makes the store refuse  *)
(* its own file.                                                            *)
THEOREM NeverRefused == Spec => []NeverRefusedByItsOwnRows
<1>1. RInv => NeverRefusedByItsOwnRows
  <2> SUFFICES ASSUME RInv, tx.step = "load" PROVE ValidSnapshot(Load(tx.image))
    BY DEF NeverRefusedByItsOwnRows
  <2> DEFINE i == tx.image
             data == Load(tx.image)
  <2>1. /\ data.phrases = InRowidOrder(i.phrases) /\ data.overrides = InRowidOrder(i.overrides)
        /\ data.bigrams = InRowidOrder(i.bigrams) /\ data.table = InRowidOrder(i.table)
    BY DEF Load
  <2>2. Len(data.overrides) <= Capacity /\ Len(data.bigrams) <= Capacity
    BY <2>1 DEF RInv, Underway
  <2>3. UniqueKeys(data.phrases, LAMBDA row : row.key)
    BY <2>1, RowsKeyed DEF RInv, TablesOK
  <2>4. UniqueKeys(data.overrides, LAMBDA row : row.qstring)
    BY <2>1, RowsKeyed DEF RInv, TablesOK
  <2>5. UniqueKeys(data.bigrams, LAMBDA row : row.qstring)
    BY <2>1, RowsKeyed DEF RInv, TablesOK
  <2>6. UniqueKeys(data.table, LAMBDA row : <<row.method, row.current>>)
        /\ \A j \in DOMAIN data.table : data.table[j].count > 0
    BY <2>1, RowsKeyed DEF RInv, TablesOK
  <2> HIDE DEF data
  <2> QED  BY <2>2, <2>3, <2>4, <2>5, <2>6 DEF ValidSnapshot, data
<1> QED  BY <1>1, Atomicity, PTL

(* The SQL transactions implement UserDatabase: at every step of every      *)
(* connection the file holds what it held, or the preview of one client's   *)
(* whole list on that.                                                      *)
THEOREM Refinement == Spec => ImplementsDatabase
<1>1. Init => Database!Init
  BY EmptyTablesOK DEF Init, Database!Init
<1>2. RInv /\ [Next]_vars => [Database!Next]_(Load(disk))
  BY NextRefines DEF Database!Next, Database!Commit, Saved
<1> QED  BY <1>1, <1>2, Atomicity, PTL DEF Spec, ImplementsDatabase, Database!Spec

-----------------------------------------------------------------------------
(***************************************************************************)
(* StoreOpen, for any number of processes and saves.  What a process may   *)
(* rely on at each step (ProcessOK) survives the steps of the others       *)
(* because a store that is there stays there: only an empty file is        *)
(* initialised, only a free path is reserved, and while a journal is hot   *)
(* the pages are one revision ahead of it (JournalOK).                     *)
(***************************************************************************)
JournalOK ==
  Hot => /\ pages.kind = "store"
         /\ journal.kind \in {"empty", "store"}
         /\ journal.kind = "store" => pages.revision = journal.revision + 1

ProcessOK(p) ==
  /\ pc[p] = "reserve" => ~exists[p]
  /\ pc[p] \in {"initializing", "saving"} => ~Hot
  /\ pc[p] = "initialized" => Hot /\ journal.kind = "empty"
  /\ pc[p] = "saving" => pages.revision < MaxSaves
  /\ pc[p] = "saved" => Hot /\ journal.kind = "store"
  /\ pc[p] \in {"validate", "open", "saving", "saved"} => Recovered.kind = "store"
  /\ pc[p] = "connect" /\ exists[p] => Recovered.kind = "store"

OpenIInv == OpenTypeOK /\ JournalOK /\ \A p \in Processes : ProcessOK(p)

-----------------------------------------------------------------------------
LEMMA ImageFacts ==
  /\ NoImage \in Image
  /\ \A n \in 0..MaxSaves : Store(n) \in Image /\ Store(n) # NoImage
  /\ [kind |-> "empty", revision |-> 0] \in Image
BY MaxSavesAssumption DEF NoImage, Image, Kinds, Store

LEMMA OpenInitEstablishes == OpenInit => OpenIInv
<1> SUFFICES ASSUME OpenInit PROVE OpenIInv
  OBVIOUS
<1> USE DEF OpenInit
<1>1. OpenTypeOK
  BY ImageFacts, MaxSavesAssumption, NoProcessAssumption
  DEF OpenTypeOK, OpenSteps, Connected, InTransaction, Image
<1>2. ~Hot
  BY DEF Hot
<1>3. \A p \in Processes : ProcessOK(p)
  BY DEF ProcessOK
<1> QED  BY <1>1, <1>2, <1>3 DEF OpenIInv, JournalOK

(* A step moves at most its process, and never loses a store. *)
StoreKept ==
  Recovered.kind = "store" =>
    Recovered'.kind = "store" /\ Recovered'.revision >= Recovered.revision

LEMMA RecoverKeeps ==
  ASSUME OpenIInv, Recover
  PROVE  /\ pages' \in Image /\ journal' \in Image
         /\ Recovered' = Recovered /\ ~Hot' /\ JournalOK'
         /\ pages' = Recovered
BY ImageFacts DEF Recover, Recovered, Hot, JournalOK, OpenIInv, OpenTypeOK

LEMMA StepKeepsStore ==
  ASSUME OpenIInv, OpenNext
  PROVE  /\ pages' \in Image /\ journal' \in Image
         /\ JournalOK'
         /\ StoreKept
<1>0. Recovered \in Image /\ \A i \in Image : i.revision \in Nat
  BY MaxSavesAssumption DEF OpenIInv, OpenTypeOK, Recovered, Image
<1>1. PICK p \in Processes :
        \/ Look(p) \/ ProbeAccepts(p) \/ ProbeRefuses(p) \/ Reserve(p) \/ ReserveFails(p)
        \/ Connect(p) \/ Begin(p) \/ Write(p) \/ Commit(p) \/ Validate(p)
        \/ Read(p) \/ Fail(p) \/ Die(p)
  BY DEF OpenNext
<1>2. CASE UNCHANGED <<pages, journal>>
  BY <1>0, <1>2 DEF OpenIInv, OpenTypeOK, JournalOK, Hot, StoreKept, Recovered
<1>3. CASE Recover
  BY <1>0, <1>3, RecoverKeeps DEF StoreKept
<1>4. CASE Reserve(p)
  <2>1. ~Hot /\ Recovered = pages
    BY <1>4 DEF OpenIInv, JournalOK, Reserve, Recovered
  <2> QED  BY <1>4, <2>1, ImageFacts DEF Reserve, Hot, StoreKept, JournalOK, OpenIInv, OpenTypeOK
<1>5. CASE Write(p)
  <2>1. ~Hot /\ Recovered = pages
    BY <1>5 DEF Write, At, OpenIInv, ProcessOK, Recovered
  <2>2. journal' = pages /\ pages \in Image
    BY <1>5 DEF Write, OpenIInv, OpenTypeOK
  <2>3. CASE pages.kind = "empty" /\ pages' = Store(0)
    BY <2>1, <2>2, <2>3, ImageFacts, MaxSavesAssumption
    DEF Store, Hot, JournalOK, StoreKept, Recovered, NoImage
  <2>4. CASE At(p, "saving") /\ pages' = Store(pages.revision + 1)
    <3>1. pages.kind = "store" /\ pages.revision \in 0..MaxSaves /\ pages.revision < MaxSaves
      BY <2>1, <2>2, <2>4 DEF At, OpenIInv, ProcessOK, Image
    <3>2. pages.revision + 1 \in 0..MaxSaves
      BY <3>1, MaxSavesAssumption
    <3>3. Hot' /\ Recovered' = pages
      BY <2>2, <3>1 DEF Hot, NoImage, Recovered
    <3> QED  BY <1>0, <2>1, <2>2, <2>4, <3>1, <3>2, <3>3, ImageFacts
             DEF Store, JournalOK, StoreKept
  <2> QED  BY <1>5, <2>3, <2>4 DEF Write
<1>6. CASE Commit(p)
  <2>1. Hot /\ Recovered = journal /\ journal' = NoImage /\ pages' = pages
    BY <1>6 DEF Commit, At, OpenIInv, ProcessOK, Recovered
  <2>2. ~Hot' /\ Recovered' = pages
    BY <2>1 DEF Hot, Recovered
  <2>3. pages.kind = "store" /\ (journal.kind = "store" => pages.revision = journal.revision + 1)
    BY <2>1 DEF OpenIInv, JournalOK
  <2> QED  BY <1>0, <2>1, <2>2, <2>3, ImageFacts DEF StoreKept, JournalOK, OpenIInv, OpenTypeOK
<1> QED
  <2>1. Look(p) \/ ProbeAccepts(p) \/ ProbeRefuses(p) \/ ReserveFails(p) \/ Connect(p) \/ Die(p)
          => UNCHANGED <<pages, journal>>
    BY DEF Look, ProbeAccepts, ProbeRefuses, ReserveFails, Connect, Die
  <2>2. Begin(p) \/ Validate(p) \/ Read(p) => Recover
    BY DEF Begin, Validate, Read
  <2>3. Fail(p) => Recover \/ UNCHANGED <<pages, journal>>
    BY DEF Fail
  <2> QED  BY <1>1, <1>2, <1>3, <1>4, <1>5, <1>6, <2>1, <2>2, <2>3

(* The steps of one process. *)
OpenStep(p) ==
  \/ Look(p) \/ ProbeAccepts(p) \/ ProbeRefuses(p) \/ Reserve(p) \/ ReserveFails(p)
  \/ Connect(p) \/ Begin(p) \/ Write(p) \/ Commit(p) \/ Validate(p)
  \/ Read(p) \/ Fail(p) \/ Die(p)

LEMMA StepTyped ==
  ASSUME OpenIInv, NEW p \in Processes, OpenStep(p)
  PROVE  /\ OpenTypeOK'
         /\ \A q \in Processes : q # p => pc'[q] = pc[q] /\ exists'[q] = exists[q]
<1>1. OpenNext
  BY DEF OpenStep, OpenNext
<1>2. pages' \in Image /\ journal' \in Image
  BY <1>1, StepKeepsStore
<1>3. /\ pc \in [Processes -> OpenSteps] /\ exists \in [Processes -> BOOLEAN]
      /\ created \in BOOLEAN /\ writer \in Processes \cup {NoProcess}
      /\ \A q \in Processes : pc[q] \in InTransaction <=> writer = q
  BY DEF OpenIInv, OpenTypeOK
<1>4. PICK step \in OpenSteps :
        /\ pc' = [pc EXCEPT ![p] = step]
        /\ writer' = IF step \in InTransaction THEN p
                   ELSE IF writer = p THEN NoProcess ELSE writer
        /\ step \in InTransaction => writer \in {p, NoProcess}
  <2> USE <1>3, NoProcessAssumption DEF At, GoTo, OpenSteps, Connected, InTransaction
  <2>1. CASE Look(p)
    <3>1. CASE pages.kind = "none"
      BY <2>1, <3>1 DEF Look
    <3>2. CASE pages.kind \in {"other", "empty", "store"}
      <4>1. pc' = [pc EXCEPT ![p] = "probe"] /\ writer' = writer /\ pc[p] = "closed"
        BY <2>1, <3>2 DEF Look
      <4> QED  BY <4>1
    <3>3. CASE pages.kind \notin {"none", "other", "empty", "store"}
      BY <2>1, <3>3 DEF Look
    <3> QED  BY <3>1, <3>2, <3>3
  <2>2. CASE ProbeAccepts(p) \/ ProbeRefuses(p)
    BY <2>2 DEF ProbeAccepts, ProbeRefuses
  <2>3. CASE Reserve(p) \/ ReserveFails(p) \/ Connect(p)
    BY <2>3 DEF Reserve, ReserveFails, Connect
  <2>4. CASE Begin(p)
    BY <2>4 DEF Begin
  <2>5. CASE Write(p)
    BY <2>5 DEF Write
  <2>6. CASE Commit(p)
    BY <2>6 DEF Commit
  <2>7. CASE Validate(p)
    <3>1. CASE Recovered.kind = "store"
      BY <2>7, <3>1 DEF Validate
    <3>2. CASE Recovered.kind # "store"
      BY <2>7, <3>2 DEF Validate
    <3> QED  BY <3>1, <3>2
  <2>8. CASE Read(p)
    BY <2>8 DEF Read
  <2>9. CASE Fail(p)
    <3>1. CASE pc[p] \in {"saving", "saved"}
      BY <2>9, <3>1 DEF Fail
    <3>2. CASE pc[p] \notin {"saving", "saved"}
      BY <2>9, <3>2 DEF Fail
    <3> QED  BY <3>1, <3>2
  <2>10. CASE Die(p)
    BY <2>10 DEF Die
  <2> QED  BY <2>1, <2>2, <2>3, <2>4, <2>5, <2>6, <2>7, <2>8, <2>9, <2>10 DEF OpenStep
<1>5. exists' \in [Processes -> BOOLEAN] /\ created' \in BOOLEAN
      /\ \A q \in Processes : q # p => exists'[q] = exists[q]
  BY <1>3 DEF OpenStep, Look, ProbeAccepts, ProbeRefuses, Reserve, ReserveFails, Connect,
              Begin, Write, Commit, Validate, Read, Fail, Die
<1>6. /\ pc' \in [Processes -> OpenSteps] /\ writer' \in Processes \cup {NoProcess}
      /\ \A q \in Processes : pc'[q] \in InTransaction <=> writer' = q
  BY <1>3, <1>4, NoProcessAssumption
<1> QED  BY <1>2, <1>3, <1>4, <1>5, <1>6 DEF OpenTypeOK

(* While a process is in a transaction, the others write nothing: they may  *)
(* only reserve a free path.                                                *)
LEMMA OthersWait ==
  ASSUME OpenIInv, NEW p \in Processes, NEW q \in Processes, q # p,
         pc[q] \in InTransaction, OpenStep(p)
  PROVE  /\ journal' = journal
         /\ pages' = pages \/ pages.kind = "none"
<1>1. writer = q /\ writer # p /\ writer # NoProcess /\ pc[p] \notin InTransaction
  BY NoProcessAssumption DEF OpenIInv, OpenTypeOK
<1>2. CASE Validate(p)
  BY <1>1, <1>2 DEF Validate, Recover, Recovered, Hot
<1>3. ~Begin(p) /\ ~Write(p) /\ ~Commit(p) /\ ~Read(p)
  BY <1>1 DEF Begin, Write, Commit, Read, At, InTransaction
<1>4. CASE Reserve(p)
  BY <1>4 DEF Reserve
<1>5. CASE Look(p) \/ ProbeAccepts(p) \/ ProbeRefuses(p) \/ ReserveFails(p) \/ Connect(p)
        \/ Fail(p) \/ Die(p)
  BY <1>1, <1>5 DEF Look, ProbeAccepts, ProbeRefuses, ReserveFails, Connect, Fail, Die
<1> QED  BY <1>2, <1>3, <1>4, <1>5 DEF OpenStep

LEMMA OthersKeep ==
  ASSUME OpenIInv, NEW p \in Processes, NEW q \in Processes, q # p, OpenStep(p)
  PROVE  ProcessOK(q)'
<1>1. pc'[q] = pc[q] /\ exists'[q] = exists[q] /\ ProcessOK(q)
  BY StepTyped DEF OpenIInv
<1>2. Recovered.kind = "store" => Recovered'.kind = "store"
  BY StepKeepsStore DEF OpenStep, OpenNext, StoreKept
<1>3. CASE pc[q] \notin InTransaction
  BY <1>1, <1>2, <1>3 DEF ProcessOK, InTransaction
<1>4. CASE pc[q] \in InTransaction
  <2>1. journal' = journal /\ (pages' = pages \/ pages.kind = "none")
    BY <1>4, OthersWait
  <2>2. Hot' = Hot
    BY <2>1 DEF Hot
  <2>3. pc[q] = "saving" => pages' = pages
    BY <1>1, <2>1 DEF ProcessOK, Recovered
  <2> QED  BY <1>1, <1>2, <2>1, <2>2, <2>3 DEF ProcessOK
<1> QED  BY <1>3, <1>4

LEMMA OwnStep ==
  ASSUME OpenIInv, NEW p \in Processes, OpenStep(p)
  PROVE  ProcessOK(p)'
<1>0. /\ ProcessOK(p) /\ JournalOK /\ pc \in [Processes -> OpenSteps]
      /\ exists \in [Processes -> BOOLEAN]
      /\ pages \in Image /\ journal \in Image
  BY DEF OpenIInv, OpenTypeOK
<1>1. Recovered.kind = "store" => Recovered'.kind = "store"
  BY StepKeepsStore DEF OpenStep, OpenNext, StoreKept
<1> USE <1>0, <1>1 DEF ProcessOK, At, GoTo
<1>2. CASE Look(p)
  <2>1. pc'[p] \in {"reserve", "probe", "closed"}
    BY <1>2 DEF Look
  <2>2. pc'[p] = "reserve" => ~exists'[p]
    BY <1>2 DEF Look
  <2> QED  BY <2>1, <2>2
<1>12. CASE ReserveFails(p) \/ ProbeRefuses(p) \/ Die(p)
  BY <1>12 DEF ReserveFails, ProbeRefuses, Die
<1>3. CASE ProbeAccepts(p)
  BY <1>3 DEF ProbeAccepts, Recovered, Hot
<1>4. CASE Reserve(p)
  <2>1. pc'[p] = "connect" /\ ~exists'[p]
    BY <1>4 DEF Reserve
  <2> QED  BY <2>1
<1>5. CASE Connect(p)
  BY <1>5 DEF Connect
<1>6. CASE Begin(p)
  <2>1. ~Hot' /\ pages' = Recovered /\ Recovered' = Recovered
    BY <1>6, RecoverKeeps DEF Begin
  <2> QED  BY <1>6, <2>1 DEF Begin
<1>7. CASE Write(p)
  BY <1>7 DEF Write, Hot, NoImage, Recovered
<1>8. CASE Commit(p)
  <2>1. ~Hot' /\ pages' = pages /\ pages.kind = "store"
    BY <1>8 DEF Commit, Hot, JournalOK
  <2> QED  BY <1>8, <2>1 DEF Commit, Recovered
<1>9. CASE Validate(p)
  BY <1>9, RecoverKeeps DEF Validate
<1>10. CASE Read(p)
  BY <1>10 DEF Read
<1>11. CASE Fail(p)
  BY <1>11 DEF Fail
<1> QED  BY <1>2, <1>3, <1>4, <1>5, <1>6, <1>7, <1>8, <1>9, <1>10, <1>11, <1>12 DEF OpenStep

LEMMA OpenNextKeeps == OpenIInv /\ [OpenNext]_openVars => OpenIInv'
<1> SUFFICES ASSUME OpenIInv, [OpenNext]_openVars PROVE OpenIInv'
  OBVIOUS
<1>1. CASE OpenNext
  <2>1. PICK p \in Processes : OpenStep(p)
    BY <1>1 DEF OpenNext, OpenStep
  <2>2. OpenTypeOK' /\ JournalOK'
    BY <1>1, <2>1, StepTyped, StepKeepsStore
  <2>3. \A q \in Processes : ProcessOK(q)'
    BY <2>1, OwnStep, OthersKeep
  <2> QED  BY <2>2, <2>3 DEF OpenIInv
<1>2. CASE UNCHANGED openVars
  BY <1>2 DEF openVars, OpenIInv, OpenTypeOK, JournalOK, ProcessOK, Hot, Recovered
<1> QED  BY <1>1, <1>2

LEMMA OpenInvariance == OpenSpec => []OpenIInv
BY OpenInitEstablishes, OpenNextKeeps, PTL DEF OpenSpec

-----------------------------------------------------------------------------
(* The write lock is always with the one process that is in a transaction.  *)
THEOREM OpenTypeCorrect == OpenSpec => []OpenTypeOK
<1>1. OpenIInv => OpenTypeOK
  BY DEF OpenIInv
<1> QED  BY <1>1, OpenInvariance, PTL

(* open returns sessions only on a user database, however many processes    *)
(* race to create it and wherever one of them dies.                         *)
THEOREM SessionsHaveStores == OpenSpec => []OpenOnlyOnStores
<1>1. OpenIInv => OpenOnlyOnStores
  BY DEF OpenIInv, ProcessOK, OpenOnlyOnStores, At
<1> QED  BY <1>1, OpenInvariance, PTL

(* A committed store and its revisions outlive every crash, failure and     *)
(* concurrent open.                                                         *)
THEOREM StoresStay == OpenSpec => CommittedStays
<1>1. OpenIInv /\ [OpenNext]_openVars => [StoreKept]_openVars
  <2> SUFFICES ASSUME OpenIInv, OpenNext PROVE StoreKept
    OBVIOUS
  <2> QED  BY StepKeepsStore
<1>2. CommittedStays <=> [][StoreKept]_openVars
  BY PTL DEF CommittedStays, StoreKept
<1> QED  BY <1>1, <1>2, OpenInvariance, PTL DEF OpenSpec

(* Whoever is about to initialise the file has put it there. *)
OwnFile(p) ==
  /\ pc[p] = "probe" => exists[p]
  /\ pc[p] = "connect" /\ ~exists[p] => created
  /\ pc[p] \in {"begin", "initializing"} => created

LEMMA OwnFileStep ==
  ASSUME OpenIInv, NEW p \in Processes, OpenStep(p), \A q \in Processes : OwnFile(q)
  PROVE  \A q \in Processes : OwnFile(q)'
<1>1. pc \in [Processes -> OpenSteps] /\ exists \in [Processes -> BOOLEAN]
  BY DEF OpenIInv, OpenTypeOK
<1>2. created => created'
  BY DEF OpenStep, Look, ProbeAccepts, ProbeRefuses, Reserve, ReserveFails, Connect, Begin, Write,
         Commit, Validate, Read, Fail, Die
<1>3. ASSUME NEW q \in Processes, q # p
      PROVE  OwnFile(q)'
  BY <1>2, <1>3, StepTyped DEF OwnFile
<1>4. OwnFile(p)'
  <2> USE <1>1 DEF OwnFile, At, GoTo
  <2>1. CASE Look(p)
    <3>1. exists'[p] = (pages.kind # "none") /\ pc'[p] \in {"reserve", "probe", "closed"}
          /\ (pc'[p] = "probe" => pages.kind # "none")
      BY <2>1 DEF Look
    <3> QED  BY <3>1
  <2>2. CASE ProbeAccepts(p) \/ ProbeRefuses(p)
    BY <2>2 DEF ProbeAccepts, ProbeRefuses
  <2>3. CASE Reserve(p) \/ ReserveFails(p) \/ Connect(p)
    BY <2>3 DEF Reserve, ReserveFails, Connect
  <2>4. CASE Begin(p)
    BY <2>4 DEF Begin
  <2>5. CASE Write(p) \/ Commit(p)
    BY <2>5 DEF Write, Commit
  <2>6. CASE Validate(p)
    <3>1. pc'[p] \in {"open", "closed"}
      BY <2>6 DEF Validate
    <3> QED  BY <3>1
  <2>7. CASE Read(p) \/ Die(p)
    BY <2>7 DEF Read, Die
  <2>8. CASE Fail(p)
    <3>1. pc'[p] \in {"open", "closed"}
      BY <2>8 DEF Fail
    <3> QED  BY <3>1
  <2> QED  BY <2>1, <2>2, <2>3, <2>4, <2>5, <2>6, <2>7, <2>8 DEF OpenStep
<1> QED  BY <1>3, <1>4

LEMMA OwnFiles == OpenSpec => [](\A p \in Processes : OwnFile(p))
<1>1. OpenInit => \A p \in Processes : OwnFile(p)
  BY DEF OpenInit, OwnFile
<1>2. OpenIInv /\ (\A p \in Processes : OwnFile(p)) /\ [OpenNext]_openVars
        => (\A p \in Processes : OwnFile(p))'
  <2>1. CASE OpenNext
    <3> SUFFICES ASSUME OpenIInv, \A p \in Processes : OwnFile(p), OpenNext
                 PROVE  (\A p \in Processes : OwnFile(p))'
      BY <2>1
    <3>1. PICK p \in Processes : OpenStep(p)
      BY DEF OpenNext, OpenStep
    <3> QED  BY <3>1, OwnFileStep
  <2>2. CASE UNCHANGED openVars
    BY <2>2 DEF openVars, OwnFile
  <2> QED  BY <2>1, <2>2
<1> QED  BY <1>1, <1>2, OpenInvariance, PTL DEF OpenSpec

(* What a step does to a file that is not a user database. *)
Untouched == ~created /\ pages.kind \notin {"none", "store"} => pages' = pages

LEMMA StepLeavesOthers ==
  ASSUME OpenIInv, \A p \in Processes : OwnFile(p), OpenNext
  PROVE  Untouched
<1> SUFFICES ASSUME ~created, pages.kind \notin {"none", "store"} PROVE pages' = pages
  BY DEF Untouched
<1>1. PICK p \in Processes : OpenStep(p)
  BY DEF OpenNext, OpenStep
<1>2. ~Hot
  BY DEF OpenIInv, JournalOK
<1>3. pc[p] \notin {"initializing", "saving"}
  <2>1. pc[p] # "initializing"
    BY DEF OwnFile
  <2>2. pc[p] # "saving"
    BY <1>2 DEF OpenIInv, ProcessOK, Recovered
  <2> QED  BY <2>1, <2>2
<1>4. Recover => pages' = pages
  BY <1>2 DEF Recover, Recovered
<1> QED
  BY <1>1, <1>3, <1>4 DEF OpenStep, At, Look, ProbeAccepts, ProbeRefuses, Reserve, ReserveFails,
     Connect, Begin, Write, Commit, Validate, Read, Fail, Die

(* An empty or foreign file that was there before is never written to.      *)
THEOREM ForeignFilesStay == OpenSpec => OthersFilesUntouched
<1>1. OpenIInv /\ (\A p \in Processes : OwnFile(p)) /\ [OpenNext]_openVars => [Untouched]_openVars
  BY StepLeavesOthers
<1>2. OthersFilesUntouched <=> [][Untouched]_openVars
  BY PTL DEF OthersFilesUntouched, Untouched
<1> QED  BY <1>1, <1>2, OpenInvariance, OwnFiles, PTL DEF OpenSpec
-----------------------------------------------------------------------------
LEMMA InterruptedStep ==
  ASSUME OpenIInv, Interrupted, OpenNext
  PROVE  Interrupted'
<1>1. PICK p \in Processes : OpenStep(p)
  BY DEF OpenNext, OpenStep
<1>2. pc \in [Processes -> OpenSteps] /\ \A q \in Processes : pc[q] \in {"closed", "probe", "reserve"}
  BY DEF OpenIInv, OpenTypeOK, Interrupted, OpenSteps
<1>3. pages.kind # "none" /\ ~(CanProbe /\ Recovered.kind = "store")
  BY DEF Interrupted, OpenIInv, JournalOK, CanProbe, Recovered
<1>4. CASE Look(p)
  <2>1. pc'[p] \in {"closed", "probe", "reserve"} /\ UNCHANGED <<pages, journal>>
        /\ \A q \in Processes : q # p => pc'[q] = pc[q]
    BY <1>2, <1>4 DEF Look, GoTo
  <2> QED  BY <1>2, <2>1 DEF Interrupted, Hot, Connected, InTransaction
<1>5. CASE ProbeRefuses(p) \/ ReserveFails(p) \/ Die(p)
  <2>1. pc' = [pc EXCEPT ![p] = "closed"] /\ UNCHANGED <<pages, journal>>
    BY <1>5 DEF ProbeRefuses, ReserveFails, Die, GoTo
  <2> QED  BY <1>2, <2>1 DEF Interrupted, Hot, Connected, InTransaction
<1>6. CASE Fail(p)
  <2>1. writer # p
    BY <1>2, NoProcessAssumption DEF OpenIInv, OpenTypeOK, InTransaction
  <2>2. pc' = [pc EXCEPT ![p] = "closed"] /\ UNCHANGED <<pages, journal>>
    BY <1>2, <1>6, <2>1 DEF Fail, GoTo
  <2> QED  BY <1>2, <2>2 DEF Interrupted, Hot, Connected, InTransaction
<1>7. ~(ProbeAccepts(p) \/ Reserve(p) \/ Connect(p) \/ Begin(p) \/ Write(p) \/ Commit(p)
          \/ Validate(p) \/ Read(p))
  BY <1>2, <1>3 DEF ProbeAccepts, Reserve, Connect, Begin, Write, Commit, Validate, Read, At
<1> QED  BY <1>1, <1>4, <1>5, <1>6, <1>7 DEF OpenStep

(* Once the first open, or a COMMIT, was interrupted and nobody is           *)
(* connected, no open succeeds: the read-only probe of open_read_only        *)
(* (user_store.rs) cannot put the file right, and comes first.               *)
THEOREM InterruptedStaysRefused == OpenSpec => InterruptedIsRefused
<1>1. OpenIInv /\ [OpenNext]_openVars => [Interrupted => Interrupted']_openVars
  BY InterruptedStep
<1> QED  BY <1>1, OpenInvariance, PTL DEF OpenSpec, InterruptedIsRefused
-----------------------------------------------------------------------------
(* Where a file that is being initialised is, nothing can be reserved and   *)
(* the probe accepts nothing.                                               *)
LEMMA OthersStayOut ==
  ASSUME OpenIInv, FirstOpenIsAlone, NEW p \in Processes, OpenStep(p),
         NEW q \in Processes, q # p, Initialising(q)
  PROVE  /\ UNCHANGED <<pages, journal>>
         /\ pc'[p] \in {"closed", "probe", "reserve"}
<1>1. pc \in [Processes -> OpenSteps] /\ Recovered.kind = "empty"
      /\ pc[p] \notin Connected \cup {"connect"}
  BY DEF OpenIInv, OpenTypeOK, FirstOpenIsAlone
<1>2. pc[p] \in {"closed", "probe", "reserve"} /\ writer # p
  BY <1>1, NoProcessAssumption DEF OpenIInv, OpenTypeOK, OpenSteps, Connected, InTransaction
<1>3. pages.kind # "none"
  BY <1>1 DEF OpenIInv, JournalOK, Recovered
<1>4. CASE Look(p)
  BY <1>1, <1>4 DEF Look, GoTo
<1>5. CASE ProbeRefuses(p) \/ ReserveFails(p) \/ Die(p)
  BY <1>1, <1>5 DEF ProbeRefuses, ReserveFails, Die, GoTo
<1>6. CASE Fail(p)
  BY <1>1, <1>2, <1>6 DEF Fail, GoTo
<1>7. ~(ProbeAccepts(p) \/ Reserve(p) \/ Connect(p) \/ Begin(p) \/ Write(p) \/ Commit(p)
          \/ Validate(p) \/ Read(p))
  BY <1>1, <1>2, <1>3 DEF ProbeAccepts, Reserve, Connect, Begin, Write, Commit, Validate, Read, At
<1> QED  BY <1>4, <1>5, <1>6, <1>7 DEF OpenStep

(* Who finds nothing at the path is the first: a connection needs a file.   *)
LEMMA NobodyConnected ==
  ASSUME OpenIInv, FirstOpenIsAlone, Recovered.kind = "none", NEW q \in Processes
  PROVE  pc[q] \notin Connected \cup {"connect"}
<1>1. ~Initialising(q)
  BY DEF FirstOpenIsAlone
<1>2. pc[q] \notin {"validate", "open", "saving", "saved"} /\ ~(pc[q] = "connect" /\ exists[q])
  BY DEF OpenIInv, ProcessOK
<1> QED  BY <1>1, <1>2 DEF Initialising, At, Connected, InTransaction

(* The process that initialises the file begins with create_new.            *)
LEMMA InitialiserStep ==
  ASSUME OpenIInv, \A q \in Processes : OwnFile(q), FirstOpenIsAlone,
         NEW p \in Processes, OpenStep(p), Initialising(p)'
  PROVE  /\ Recovered'.kind = "empty"
         /\ \A q \in Processes \ {p} : pc[q] \notin Connected \cup {"connect"}
<1>0. /\ pc \in [Processes -> OpenSteps] /\ exists \in [Processes -> BOOLEAN]
      /\ ProcessOK(p) /\ OwnFile(p) /\ JournalOK
  BY DEF OpenIInv, OpenTypeOK
<1>1. CASE Reserve(p)
  <2>1. ~Hot /\ Recovered.kind = "none"
    BY <1>0, <1>1 DEF Reserve, JournalOK, Recovered
  <2>2. pages'.kind = "empty" /\ ~Hot'
    BY <1>1, <2>1 DEF Reserve, Hot
  <2> QED  BY <2>1, <2>2, NobodyConnected DEF Recovered
<1>2. CASE ~Reserve(p)
  <2>1. /\ Initialising(p)
        /\ \/ Connect(p) \/ Begin(p)
           \/ Write(p) /\ At(p, "initializing")
    <3> USE <1>0 DEF Initialising, At, GoTo
    <3>1. CASE Look(p)
      <4>1. pc'[p] \in {"reserve", "probe", "closed"}
        BY <3>1 DEF Look
      <4> QED  BY <4>1
    <3>2. CASE ProbeAccepts(p)
      <4>1. exists'[p] /\ pc'[p] = "connect"
        BY <3>2 DEF ProbeAccepts, OwnFile
      <4> QED  BY <4>1
    <3>3. CASE ProbeRefuses(p) \/ ReserveFails(p) \/ Die(p)
      BY <3>3 DEF ProbeRefuses, ReserveFails, Die
    <3>4. CASE Connect(p)
      BY <3>4 DEF Connect
    <3>5. CASE Begin(p)
      BY <3>5 DEF Begin
    <3>6. CASE Write(p)
      BY <3>6 DEF Write
    <3>7. CASE Commit(p)
      BY <3>7 DEF Commit
    <3>8. CASE Validate(p)
      <4>1. pc'[p] \in {"open", "closed"}
        BY <3>8 DEF Validate
      <4> QED  BY <4>1
    <3>9. CASE Read(p)
      BY <3>9 DEF Read
    <3>10. CASE Fail(p)
      <4>1. pc'[p] \in {"open", "closed"}
        BY <3>10 DEF Fail
      <4> QED  BY <4>1
    <3> QED  BY <1>2, <3>1, <3>2, <3>3, <3>4, <3>5, <3>6, <3>7, <3>8, <3>9, <3>10 DEF OpenStep
  <2>2. Recovered.kind = "empty" /\ \A q \in Processes \ {p} : pc[q] \notin Connected \cup {"connect"}
    BY <2>1 DEF FirstOpenIsAlone
  <2>3. CASE Connect(p)
    BY <2>2, <2>3 DEF Connect, Recovered, Hot
  <2>4. CASE Begin(p)
    BY <2>2, <2>4, RecoverKeeps DEF Begin
  <2>5. CASE Write(p) /\ At(p, "initializing")
    <3>1. ~Hot
      BY <1>0, <2>5 DEF ProcessOK, At
    <3>2. journal' = pages /\ pages.kind = "empty"
      BY <2>2, <2>5, <3>1 DEF Write, Recovered
    <3> QED  BY <2>2, <3>2 DEF Recovered, Hot, NoImage
  <2> QED  BY <2>1, <2>2, <2>3, <2>4, <2>5
<1> QED  BY <1>1, <1>2

LEMMA AloneStep ==
  ASSUME OpenIInv, \A q \in Processes : OwnFile(q), FirstOpenIsAlone, OpenNext
  PROVE  FirstOpenIsAlone'
<1>1. PICK p \in Processes : OpenStep(p)
  BY DEF OpenNext, OpenStep
<1>2. \A q \in Processes : q # p => pc'[q] = pc[q] /\ exists'[q] = exists[q]
  BY <1>1, StepTyped
<1> SUFFICES ASSUME NEW q \in Processes, Initialising(q)'
             PROVE  /\ Recovered'.kind = "empty"
                    /\ \A o \in Processes \ {q} : pc'[o] \notin Connected \cup {"connect"}
  BY DEF FirstOpenIsAlone
<1>3. CASE q = p
  BY <1>1, <1>2, <1>3, InitialiserStep
<1>4. CASE q # p
  <2>1. Initialising(q)
    BY <1>2, <1>4 DEF Initialising, At
  <2>2. UNCHANGED <<pages, journal>> /\ pc'[p] \in {"closed", "probe", "reserve"}
    BY <1>1, <1>4, <2>1, OthersStayOut
  <2>3. Recovered.kind = "empty" /\ \A o \in Processes \ {q} : pc[o] \notin Connected \cup {"connect"}
    BY <2>1 DEF FirstOpenIsAlone
  <2>4. Recovered'.kind = "empty"
    BY <2>2, <2>3 DEF Recovered, Hot
  <2>5. ASSUME NEW o \in Processes \ {q} PROVE pc'[o] \notin Connected \cup {"connect"}
    BY <1>2, <2>2, <2>3 DEF Connected, InTransaction
  <2> QED  BY <2>4, <2>5
<1> QED  BY <1>3, <1>4

(* However many processes race to create a path, one of them initialises    *)
(* the file and the others are refused until it has committed: open in      *)
(* user_store.rs needs no lock of its own.                                  *)
THEOREM FirstOpensAreAlone == OpenSpec => []FirstOpenIsAlone
<1>1. OpenInit => FirstOpenIsAlone
  BY DEF OpenInit, FirstOpenIsAlone, Initialising, At
<1>2. OpenIInv /\ (\A p \in Processes : OwnFile(p)) /\ FirstOpenIsAlone /\ [OpenNext]_openVars
        => FirstOpenIsAlone'
  <2>1. CASE OpenNext
    BY <2>1, AloneStep
  <2>2. CASE UNCHANGED openVars
    BY <2>2 DEF openVars, FirstOpenIsAlone, Initialising, At, Recovered, Hot
  <2> QED  BY <2>1, <2>2
<1> QED  BY <1>1, <1>2, OpenInvariance, OwnFiles, PTL DEF OpenSpec
=============================================================================
