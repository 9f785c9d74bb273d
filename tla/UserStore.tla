------------------------------ MODULE UserStore ------------------------------
(***************************************************************************)
(* UserStore in user_store.rs: several connections, of one or several      *)
(* processes, to one SQLite file.  A table maps rowids to rows, as SQLite  *)
(* numbers them; a snapshot lists the rows in rowid order.  apply runs one *)
(* immediate transaction, a statement group at a time: it holds the write  *)
(* lock from BEGIN IMMEDIATE to its end and changes its own image of the   *)
(* tables, which a COMMIT publishes and everything else throws away.       *)
(***************************************************************************)
EXTENDS UserData

CONSTANTS
  Connections,    \* open UserStores
  NoConnection,   \* the write lock is free
  Lists,          \* the change lists saved; apply only reads for an empty one
  MaxWrites       \* bound: transactions begun

ASSUME MaxWritesAssumption == MaxWrites \in Nat
ASSUME ListsAssumption == Lists \subseteq Seq(Change) \ {<<>>}
ASSUME NoConnectionAssumption == NoConnection \notin Connections

VARIABLES
  disk,     \* the committed tables
  lock,     \* the connection in an immediate transaction
  tx,       \* that transaction: its step, image, changes left
  known,    \* the last snapshot each connection returned to its client
  outcome,  \* how each connection's last apply ended
  writes    \* transactions begun so far

vars == <<disk, lock, tx, known, outcome, writes>>

-----------------------------------------------------------------------------
(* Tables.  A new row is numbered past the largest rowid. *)

Insert(t, row) ==
  LET next == IF DOMAIN t = {} THEN 1 ELSE Max(DOMAIN t) + 1
  IN  [id \in DOMAIN t \cup {next} |-> IF id = next THEN row ELSE t[id]]

Delete(t, Where(_)) == Restrict(t, {id \in DOMAIN t : ~Where(t[id])})

(* INSERT ... ON CONFLICT DO UPDATE keeps the rowid of the row it updates. *)
Upsert(t, Same(_), row) ==
  IF \E id \in DOMAIN t : Same(t[id])
    THEN [id \in DOMAIN t |-> IF Same(t[id]) THEN row ELSE t[id]]
    ELSE Insert(t, row)

OldestRows(t, n) == {id \in DOMAIN t : Cardinality({i \in DOMAIN t : i <= id}) <= n}
NewestRows(t, n) == {id \in DOMAIN t : Cardinality({i \in DOMAIN t : i >= id}) <= n}

TrimOldestKept(t) == Restrict(t, OldestRows(t, Capacity))
TrimOneTooMany(t) == Restrict(t, NewestRows(t, Capacity + 1))
Trim(t) == Restrict(t, NewestRows(t, Capacity))

InRowidOrder(t) == InOrder(t, DOMAIN t)

EmptyTables ==
  [generation |-> 0, revision |-> 0,
   phrases |-> <<>>, overrides |-> <<>>, bigrams |-> <<>>, table |-> <<>>]

(* load_snapshot *)
Load(tables) ==
  [generation |-> tables.generation, revision |-> tables.revision,
   phrases   |-> InRowidOrder(tables.phrases),
   overrides |-> InRowidOrder(tables.overrides),
   bigrams   |-> InRowidOrder(tables.bigrams),
   table     |-> InRowidOrder(tables.table)]

Frequency(t, c) ==
  LET ids == {id \in DOMAIN t : SameTableRow(c, t[id])}
  IN  IF ids = {} THEN 0 ELSE t[CHOOSE id \in ids : TRUE].count

(* apply_change: one change, as SQL statements. *)
SqlChange(tables, c) ==
  CASE c.kind = "UpsertPhrase" ->
         [tables EXCEPT !.phrases = Upsert(@, LAMBDA row : SamePhrase(c, row), PhraseRow(c))]
    [] c.kind = "InsertPhraseIfAbsent" ->
         [tables EXCEPT !.phrases =
            IF \E id \in DOMAIN @ : SamePhrase(c, @[id]) THEN @ ELSE Insert(@, PhraseRow(c))]
    [] c.kind = "RemovePhrase" ->
         [tables EXCEPT !.phrases = Delete(@, LAMBDA row : SamePhrase(c, row))]
    [] c.kind = "SetOverride" ->
         [tables EXCEPT !.overrides =
            Insert(Delete(@, LAMBDA row : SameQuery(c, row)), QueryRow(c))]
    [] c.kind = "ClearOverride" ->
         [tables EXCEPT !.overrides = Delete(@, LAMBDA row : SameQuery(c, row))]
    [] c.kind = "SetBigram" ->
         [tables EXCEPT !.bigrams =
            Insert(Delete(@, LAMBDA row : SameQuery(c, row)), QueryRow(c))]
    [] c.kind = "IncrementTable" ->
         [tables EXCEPT !.table = Upsert(@, LAMBDA row : SameTableRow(c, row),
                                         TableRow(c, Frequency(@, c) + 1))]
    [] c.kind = "SetTable" ->
         [tables EXCEPT !.table = Upsert(@, LAMBDA row : SameTableRow(c, row),
                                         TableRow(c, c.count))]
    [] c.kind = "ResetSmartLearning" ->
         [tables EXCEPT !.overrides = <<>>, !.bigrams = <<>>, !.generation = @ + 1]
    [] c.kind = "ResetTableLearning" ->
         [tables EXCEPT !.table = Delete(@, LAMBDA row : row.method = c.method),
                        !.generation = @ + 1]
    [] c.kind = "ResetLearning" ->
         [tables EXCEPT !.overrides = <<>>, !.bigrams = <<>>, !.table = <<>>,
                        !.generation = @ + 1]

(* The statements after the list: the new revision and trim_caches. *)
ClosedUnversioned(tables) ==
  [tables EXCEPT !.overrides = Trim(@), !.bigrams = Trim(@)]
Closed(tables) ==
  [generation |-> tables.generation, revision |-> tables.revision + 1,
   phrases   |-> tables.phrases,
   overrides |-> Trim(tables.overrides),
   bigrams   |-> Trim(tables.bigrams),
   table     |-> tables.table]

-----------------------------------------------------------------------------
NoTx == [step |-> "none", image |-> EmptyTables, left |-> <<>>, expected |-> 0]

Init ==
  /\ disk = EmptyTables
  /\ lock = NoConnection
  /\ tx = NoTx
  /\ known = [c \in Connections |-> Load(disk)]
  /\ outcome = [c \in Connections |-> "none"]
  /\ writes = 0

(* snapshot: one read transaction.  It never waits for a writer, which     *)
(* publishes nothing before its COMMIT.                                    *)
Snapshot(c) ==
  /\ lock # c
  /\ known' = [known EXCEPT ![c] = Load(disk)]
  /\ UNCHANGED <<disk, lock, tx, outcome, writes>>

(* apply and reset_learning start: BEGIN IMMEDIATE takes the write lock.   *)
BeginTx(c, step, changes) ==
  /\ writes < MaxWrites
  /\ writes' = writes + 1
  /\ lock' = c
  /\ tx' = [step |-> step, image |-> disk, left |-> changes,
            expected |-> known[c].generation]
  /\ outcome' = [outcome EXCEPT ![c] = "none"]
  /\ UNCHANGED <<disk, known>>

(* The caller names the generation of the snapshot it holds.               *)
BeginApply(c, changes) == lock = NoConnection /\ BeginTx(c, "check", changes)

BeginReset(c) ==
  lock = NoConnection /\ BeginTx(c, "change", <<[kind |-> "ResetLearning"]>>)

(* The lock is not free within the busy timeout.                           *)
Busy(c) ==
  /\ lock \notin {c, NoConnection}
  /\ outcome' = [outcome EXCEPT ![c] = "error"]
  /\ UNCHANGED <<disk, lock, tx, known, writes>>

EndTxHoldingLock(c, ending) ==
  /\ tx' = NoTx
  /\ outcome' = [outcome EXCEPT ![c] = ending]
  /\ UNCHANGED <<lock, writes>>

EndTx(c, ending) ==
  /\ lock' = NoConnection
  /\ tx' = NoTx
  /\ outcome' = [outcome EXCEPT ![c] = ending]
  /\ UNCHANGED writes

Current(c) ==
  /\ lock = c /\ tx.step = "check"
  /\ tx.expected = tx.image.generation
  /\ tx' = [tx EXCEPT !.step = "change"]
  /\ UNCHANGED <<disk, lock, known, outcome, writes>>

(* Nothing is saved; the client is told what is stored now.                *)
Stale(c) ==
  /\ lock = c /\ tx.step = "check"
  /\ tx.expected # tx.image.generation
  /\ known' = [known EXCEPT ![c] = Load(tx.image)]
  /\ EndTx(c, "stale")
  /\ UNCHANGED disk

ChangeRow(c) ==
  /\ lock = c /\ tx.step = "change" /\ tx.left # <<>>
  /\ tx' = [tx EXCEPT !.image = SqlChange(@, Head(tx.left)), !.left = Tail(@)]
  /\ UNCHANGED <<disk, lock, known, outcome, writes>>

FinishTx(c) ==
  /\ lock = c /\ tx.step = "change" /\ tx.left = <<>>
  /\ tx' = [tx EXCEPT !.step = "load", !.image = Closed(@)]
  /\ UNCHANGED <<disk, lock, known, outcome, writes>>

(* The snapshot the client gets is read and validated before the COMMIT.   *)
CommitTx(c) ==
  /\ lock = c /\ tx.step = "load" /\ ValidSnapshot(Load(tx.image))
  /\ disk' = tx.image
  /\ known' = [known EXCEPT ![c] = Load(tx.image)]
  /\ EndTx(c, "applied")

(* A statement, the validation or the COMMIT fails: dropping the           *)
(* Transaction rolls it back.                                              *)
FailTx(c) ==
  /\ lock = c
  /\ EndTx(c, "error")
  /\ UNCHANGED <<disk, known>>

(* The process ends; another one opens the file and reads it.              *)
Crash(c) ==
  /\ lock' = IF lock = c THEN NoConnection ELSE lock
  /\ tx' = IF lock = c THEN NoTx ELSE tx
  /\ known' = [known EXCEPT ![c] = Load(disk)]
  /\ outcome' = [outcome EXCEPT ![c] = "none"]
  /\ UNCHANGED <<disk, writes>>

Next ==
  \E c \in Connections :
    \/ Snapshot(c) \/ BeginReset(c) \/ Busy(c) \/ Current(c) \/ Stale(c)
    \/ ChangeRow(c) \/ FinishTx(c) \/ CommitTx(c) \/ FailTx(c) \/ Crash(c)
    \/ \E changes \in Lists : BeginApply(c, changes)

Spec == Init /\ [][Next]_vars

-----------------------------------------------------------------------------
Steps == {"none", "check", "change", "load"}
Outcomes == {"none", "applied", "stale", "error"}

(* The connection that holds the write lock, and only it, has a             *)
(* transaction.                                                             *)
TypeOK ==
  /\ lock \in Connections \cup {NoConnection}
  /\ tx.step \in Steps /\ (tx.step = "none" <=> lock = NoConnection)
  /\ outcome \in [Connections -> Outcomes]
  /\ writes \in 0..MaxWrites
  /\ disk.generation \in Nat /\ disk.revision \in Nat

(* The tables, read in rowid order, are one snapshot that each transaction  *)
(* replaces by its preview: the SQL of apply_change and trim_caches and the *)
(* vectors of UserSnapshot::preview agree on every row and on their order,  *)
(* whatever deletes and inserts did to the rowids, and no crash, error or   *)
(* concurrent writer leaves half a list or loses one.                       *)
Database == INSTANCE UserDatabase WITH
              saved <- Load(disk), Lists <- Lists \cup {<<[kind |-> "ResetLearning"]>>}

ImplementsDatabase == Database!Spec

(* Snapshots of one version are equal, whoever was given them and whenever: *)
(* a session keeps its copy for as long as version() returns its version.   *)
SameVersionSameData ==
  \A c \in Connections :
    /\ Version(known[c]) = Version(Load(disk)) => known[c] = Load(disk)
    /\ \A d \in Connections : Version(known[c]) = Version(known[d]) => known[c] = known[d]

(* load_snapshot accepts what any sequence of accepted changes left: if it  *)
(* refused them, every later apply and open would fail as well.             *)
NeverRefusedByItsOwnRows ==
  tx.step = "load" => ValidSnapshot(Load(tx.image))
=============================================================================
