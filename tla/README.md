# KeyKey in TLA+: the Guanyinma core and the Windows text service

KeyKey is a family of Chinese input methods. The front ends (macOS, Windows,
Linux, Android, iOS) share one core, *Guanyinma*
(`src/Source/Guanyinma`, Rust behind a C interface). These modules specify that
core: how input sessions use, learn into and agree on the user's data while
other sessions and other processes open and write the same file, and how Smart
Mandarin turns keys into a sentence graph and the graph into text. Of the front
ends they specify the one with the hardest protocol, the Windows text service
(`src/Source/Loaders/Windows-TSF`, C++): how keys, symbols and mode switches wait
for the edit sessions a host grants, and what becomes of them, of the text and of
the mode when the host is late, refuses, or takes the field away.

Contents: [inventory](#inventory) · [modules](#modules) · [runs](#runs) ·
[proofs](#proofs) · [what the code does differently from its
documentation](#divergences) · [not modelled](#not-modelled) · [plan](#plan).

## Inventory

Paths are under `src/Source/Guanyinma/src` unless they say otherwise.

| Component | State | Operations | What makes it correct |
|---|---|---|---|
| **User data** (`user_store.rs`, `user_archive.rs`): `UserSnapshot`, `UserChange` | none: values | `preview`, `validate_*`, `UserArchive::changes` | the delta of a list is what the database will hold; caches stay within 200 rows, keys stay unique |
| **User store** (`user_store.rs`) | an SQLite file: metadata (generation, revision) and four tables; a connection per session | `open`, `version`, `snapshot`, `apply`, `reset_learning`, `import_*`, `read_legacy` | a list is stored wholly or not at all; a version names one content; the store is never refused by its own rows |
| **Input session** (`engine.rs`) | `State`: copy of the user data, reload flag, pending changes, code, candidates, page and highlight, modes | `open`, `apply` of some thirty operations, `snapshot` | a call happens once or not at all; learning never crosses a reset; what the user picked is what is committed |
| **Smart composition** (`smart.rs`) | unfinished syllable, reading cursor, phrase mark, open candidates | insert, delete, move, mark, select, shift at the limit | cursor, mark and candidates refer to readings that are there |
| **Sentence graph** (`walker.rs`) | cached nodes per start and length, overrides | insert, remove, shift, select, walk | every cached node describes the readings it covers |
| **Bopomofo reading** (`bopomofo.rs`, `reading_codec.rs`) | one syllable | combine, backspace, encode, decode | the encoding round-trips |
| **Table lookup** (`table.rs`, `associated.rs`, `candidate_filter.rs`) | none | queries of the read-only model | order and filtering of candidates |
| **Model database** (`database.rs`, `storage_path.rs`) | a read-only connection | queries | the model is never written |
| **C interface** (`ffi.rs`, `include/guanyinma.h`) | handles, one owner each | open, apply, query, close | handle life cycle, output on error |
| **Windows input method** (`src/Source/Loaders/Windows-TSF/TextService.cpp`, `.h`, `InputModeState.h`) | ordered queue of operations, the one in progress, the composition, a result retained for retry, the mode and its two compartments, four pending-recovery flags, the engine's lease | `requestKey`, `requestSymbol`, `requestModeChange`, `observeInputMode`, `pumpInput`, `runInput`, `completeInput`, `cancelInput`, host callbacks | input is served in order, once, in its own field, or visibly cancelled; service and host agree on the mode |
| **Other front ends** (`src/Source/Loaders/*`) | host contexts, settings, updaters | key events, focus, settings | they forward operations and render snapshots |
| **Legacy code and data** (`src/Source/Frameworks`, `ModulePackages`, `Distributions`, `DataTables`, `ExternalLibraries`, `src/DataSource`) | – | – | the C++ original, dictionaries, build scripts, vendored libraries |

Interaction. A front end opens one session per input context and calls `apply`
for every event. A session reads the model, and reads and writes the user file
through its own connection. Sessions know nothing of each other: all they share
is the file. Nothing is called back by the core. The Windows text service runs on
one UI thread per client application, but every call it makes of the host can
come back as a callback: a session may run inside `RequestEditSession`, after it
or never, and writing a compartment notifies the service itself.

Where it is hard:

* **Interleaving.** `apply` reads the version, reads a snapshot, executes and
  saves in separate SQLite transactions; other processes write in between.
  `generation` is raised by every reset and import and checked by each save,
  `revision` by each save.
* **Stale state.** The candidates on screen, the phrases a replacement deletes
  and the counts a selection raises all come from a copy that may be old.
* **Partial failure.** A model query, a statement, the commit or the wait for
  the lock can fail at any step; the session has by then changed its own state.
* **Retry.** A dictionary edit overtaken by a reset is tried once more, learning
  is given up.
* **Two implementations.** `preview` (vectors) and `apply_change` +
  `trim_caches` (SQL and rowids) must compute the same rows in the same order.
* **Limits.** Caches of 200 rows trimmed once per list; page ends; counters;
  words that leave a composition at its limit.
* **Crashes.** Opening creates, initialises and validates the file in separate
  steps; a process can end between them, or inside COMMIT.
* **Cached nodes.** The graph is edited in place: after an edit some nodes stay,
  some move and some are built anew, and the cursor, the mark and an open panel
  have to move with them.

* **Sessions that come late.** The host runs an edit session at once, later, after
  its operation was cancelled, or releases it; the queue must neither skip,
  repeat nor forget an operation, and a key once eaten cannot be given back.
* **Half an edit.** The host may accept a character and refuse the caret, the end
  of the composition or the next view. What was done is remembered stage by stage
  and the rest retried by the next input, in the same field only.
* **One mode in three places.** The user and the host both change it, the host one
  compartment at a time; switches wait behind keys, writes are refused, and their
  notifications can be cancelled with the field they waited in.
* **Messages to oneself.** Recoveries post a message, whose handling may fail:
  it must not be posted for ever, and must not be what is forgotten.

`PROJECT.json` lists these hazards by line, with the properties that cover them.

## Modules

```
UserData            pure: snapshots, changes, preview, validation
 │                    ── UserDataProofs (lemmas)
 ├─ LearningSession   sessions over one database
 │                    ── LearningSessionProofs
 │    MCLearning, MCDictionary
 └─ UserStore         the database as SQL transactions
      MCUserStore     ── UserStoreProofs (implements UserDatabase)
StoreOpen           processes opening one path
      MCStoreOpen     ── UserStoreProofs (its last part)
SmartGraph          pure: the operations of the sentence graph
 ├─ GraphEdits        the graphs they lead to
 │    MCGraph
 └─ SmartComposition  keys and operations of a composition
      MCSmart
                      ── SmartProofs (about all three)
InputQueue          the ordered queue of the Windows text service
 │                    ── InputQueueProofs
 ├─ TextService       what its operations do to the text
 │                    ── TextServiceProofs (implements InputQueue)
 │                    ── TextOrderProofs (the order of the text)
 │    MCTextService
 └─ HostMode          what they do to the mode
                      ── HostModeProofs (implements InputQueue)
      MCHostMode
UserDatabase        abstract: one snapshot, replaced whole by a preview;
                    LearningSession and UserStore both implement it
```

**UserData** translates `UserSnapshot::preview`, `validate_change` and
`validate_snapshot`. Rows are sequences in the order of the source's vectors.
A phrase's (qstring, text) pair is one key, a table row's (code, text) pair one
`current`; probabilities are one small `score`, there so that replacing a row and
keeping it differ. Field checks (nonempty, no NUL, finite) become membership of
`Change`. `Capacity` is `LEARNING_CAPACITY`.

**LearningSession** models `InputSession` as far as it touches the user's data.
Control points of `apply`, per session:

| `pc` | The code is … | Actions leaving it |
|---|---|---|
| `idle` | between calls | `Begin`: keep `before`, read the version |
| `reload` | before `users.snapshot()` in `sync_user_data` | `Reload`, `DiscardEvent`, `StoreError` |
| `execute` | in `execute` | one action per operation |
| `save` | before the first `users.apply` | `Save`, `DropLearning`, `Retry`, `StoreError` |
| `retry` | before the second | `Save`, `Conflict`, `StoreError` |

`Crash` leaves any of them. Local steps between two accesses of the file are one
action, since nobody else sees them. `local[s]` holds `user_data`, the
`reload_user_data` flag, the data the Smart model was built from (`model`: it
comes from the preview, so it can differ from `user`) and the candidate panel.
The panel is that of Cangjie or Simplex with learning on, for one code: its
exact candidates sorted by learned count, as `table_query` sorts them, on one
page. Typing is abstracted: `Lookup` opens the panel when none is open, and what
a hand-off commits when no panel is open (the roots) counts as no text. `log`
is history only: what each revision was committed by, and the data it left.
The failures of `StoreError` are those of the database; a failed query of the
model between the preview and the save ends the same way.

**UserStore** models the transactions of `apply` and `reset_learning`: `BEGIN
IMMEDIATE` takes the lock; the generation check, each change of the list, the
revision with `trim_caches`, and the commit after `load_snapshot` are separate
steps, each of which can fail or crash. Tables map rowids to rows, numbered as
SQLite numbers them (past the largest). Readers see committed tables only.
`import_legacy` and `import_user_data` of the store are a `Snapshot` (they
read the version) and a `BeginApply`.

**StoreOpen** models `UserStore::open` by several processes at one path, and what
they save there. The path holds one of the `Kinds` that `open` tells apart.
Control points, per process: `probe` (something was there: the read-only
connection of `open_read_only`), `reserve` (`create_new`), `connect`, `begin`,
`initializing` and `initialized` (before and after the statements of
`initialize`), `validate`, `open`, `saving` and `saved`. SQLite's rollback
journal is explicit: it exists from the statement that stands for COMMIT's writes
to COMMIT's end, and stays if the process ends in between; only a connection that
may write puts it back (`Recover`). Every step can fail (`Fail`) or be the process's
last (`Die`). Names that `UserStore` has too begin with `Open` here, so that one
module can prove both.

**SmartGraph** translates `SmartGraph` of `walker.rs` as operators on a record of
readings, nodes and path. A node is a query at a place, the query of the node
whose words its bigrams were read for, and the word the user fixed. A query is
the sequence of its readings, which are numbers, so that queries are ordered. Kept exactly:
which nodes an insertion, a deletion or a shift removes, moves or keeps, from
which node a new one takes its context, how a fixed node prunes the walk, ties,
which candidates are offered and for which node. Left out: backoffs, the nodes of
the sentinels, aliases, the scores and order that learning gives. `Updated` is
the memoised walk as a recursive function from a place to the best way on after
each word. Three assumptions say what a lexicon is: finitely many queries of one or
more readings, with rows and whole-numbered scores (floating-point in the code, of
which only the order and the sum are used), and a positive `MAXIMUM_SPAN`.

**GraphEdits** has one action per operation of the graph and applies them at any
place. **SmartComposition** is `SmartState` with the gates that `engine.rs` puts
before it: one action per kind of key and per operation of the front end, each
with the calls it makes (`insert`, `enforce_limit`, `open_candidates` …) as
operators on the state. `commit` holds what the last call sent to the host. A
syllable is one key that leaves it unfinished and one that completes it. A
selection or a confirmed mark may be learned, and the graph is then rebuilt in
the same call. `Limit` is what `enforce_limit` retains and does not change under
a composition. It is assumed to be no shorter than a word: the code's is at least
nine (`smart.rs:97` permits 10 to 20, `shift_at_limit` takes one off at
`smart.rs:444`) and `MAXIMUM_SPAN` is 8 (`walker.rs:43`). The text of the literal
space is assumed to be that of one reading only, as it is in the model database.

**UserDatabase** is the promise: a snapshot, replaced whole by its `Preview`.

**InputQueue** is the part of the text service that keys, symbols, mode switches
and notifications share. `queue`, `active`, `blocked`, `lease` and `made` are
`inputQueue_`, `activeInput_`, `blockedInput_`, `inputLease_` and
`nextInputToken_`; `flags` are the four pending recoveries; `held` the sessions
the host has. A callback is a sequence of steps, and `pump` and `request` say
where it is:

| Where | The code is … | Actions leaving it |
|---|---|---|
| `request.stage = "none"`, `pump = "off"` (`Idle`) | between callbacks | `Request`, `RunSession`, `DropSession`, `StaleSession`, `Cancel`, `ModePump`, `Activity` |
| `"push"`, `"append"` | in `enqueueInput` before the push, before and after it cancelled another field's input | `Withdraw`, `Supersede`, `Push` |
| `"return"` | about to tell the host whether the key is eaten | `Return` |
| `pump = "enter"` | at the recoveries of `pumpInput` | `PumpEnter` |
| `pump = "loop"` | at its loop | `PumpStop`, `PumpPost`, `RunDirect`, `RunNow`, `Grant`, `Deny` |

A run leaves an operation `done`, `failed` or `cancelled` (its field is disabled);
`CompleteInput` and `CancelInput` are `completeInput` and `cancelInput` whole. The
recoveries may do here whatever they may do to the flags, so that a module that
decides them only narrows the choice.

**TextService** adds the text. A key or a symbol is its token, a field the sequence
of the tokens it shows; carets and the composition are positions in it. `Start`,
`Write`, `SetCaret`, `EndCommitted` and `View` are the stages of
`retryInputResult`; each takes the result of the one before, and fails when it is
the step the host refuses. The engine is external: `Answered` lists the ways an
`EngineResult` can answer a key (compose, commit, shift a syllable out, clear,
decline, or commit everything and decline). For two more, `Unstarted`, no
composition is started first (`Begun`): a key of the number pad, which commits, and
one that the engine does not want, which is declined. `typedIn`, `passed` and `gone` are
history: where a key was typed, which keys were left to the host, what was
cancelled or erased.

**HostMode** adds the mode: `mode` is `chineseMode_`, the two compartments and
`recoveryChinese_`. `Publish`, `Reconcile`, `Resync`, `Recover` and `Restore` are
`publishChineseMode` and the four recoveries, each with the ways the host can
refuse it, down to the write whose rollback is refused as well (`AfterFailure`).
Of the text only `composing` is left: whether there is a composition, and where.
`wanted` is history, the mode asked for last; `refusals` tells a host that has
never refused anything from one that has, and alternates between 1 and 2 at each
refusal, so that "no more refusals" can be said of a behaviour.

Definitions named after another with an ending that tells what is wrong
(`StoredWhole`, `AnyGeneration`, `TrimOldestKept` …) are *deviations*: plausible
mistakes in the definition that follows them. No specification uses them.
`PROJECT.json` pairs each checked property with one that breaks it.

## Runs

| Run | Instance | States | Shows |
|---|---|---|---|
| `learning` (`MCLearning`) | 2 sessions, 3 candidates, select first or third, move the highlight, hand off, reset own or another method; 4 calls | 537 000 | `VersionNamesContent`, `NoLearningAcrossReset`, `NoSelectionLost`, `SettledSessionAgrees`, `SelectionIsWhatWasShown` |
| `dictionary` (`MCDictionary`) | 2 sessions, 2 phrase keys and one bundled, one malformed; add, edit, remove, replace, import three kinds of archive, reset, select; 3 calls | 799 000 | `CallsAreAtomic`, `RefusalNeedsResets`, `SurvivorsWereUnseen` |
| `userstore` (`MCUserStore`) | 2 connections, capacity 2, 3 keys, nine lists with every kind of change; 3 transactions | 68 000 | `ImplementsDatabase`, `SameVersionSameData`, `NeverRefusedByItsOwnRows`, `TypeOK` |
| `storeopen` (`MCStoreOpen`) | 3 processes, any kind of file at first; 2 saves | 1 300 | `CommittedStays`, `OpenOnlyOnStores`, `OthersFilesUntouched`, `FirstOpenIsAlone`, `InterruptedIsRefused`, `OpenTypeOK` |
| `graph` (`MCGraph`) | one syllable with words of one to four, one punctuation; 4 readings; 1 selection at a time | 23 000 | `EveryWordIsOffered`, `EditsKeepNodesFresh`, `ShiftKeepsText`, `RebuildKeepsSelections` |
| `composition` (`MCSmart`) | one known and one unknown syllable, a word of two, a punctuation, a space; limit 2, marks of 1; two sets of options | 32 000 | `OffersAreCurrent`, `LimitHolds`, `HandoffKeepsText`, `CursorFollowsReading` |
| `text` (`MCTextService`) | 2 fields; keys, symbols and switches; 3 operations; every answer of the engine, a refusal of any call of a session | 218 000 | `KeepsOrder`, `NoKeyIsLost`, `StaysInItsField`, `CompositionShowsEngine`, `InOrder`, `NeverForgotten`, `LeaseWhilePending`, `TypeOK` |
| `mode` (`MCHostMode`) | 2 fields; keys, switches, notifications of both compartments; 3 operations; refusals and cancellations; fair | 145 000 | `ModesAgree`, `KeysSeeLiveMode`, `Recovers`, `NoBusyLoop`, `InputDrains`, `TypeOK` |
| `deletion`, `handoff`, `replay`, `swallowed` | those of `graph`, `learning`, `text` (4 keys) and `mode` (1 field) | | the divergences below |

*Bounds.* `MaxCalls` counts the operations of all sessions together. Four calls
are two learning calls and two resets, or a lookup, a selection elsewhere, and
an event on the stale panel; three suffice for a dictionary edit that is
overtaken by two resets and refused. Capacity 2 with lists of two rows fills a
cache, overflows it and leaves gaps in the rowids; three transactions overflow
it, reset and refill it. Two sessions are enough for every race of one call with
the others, since all that a call sees of the others is the database. Sessions
and connections are interchangeable, so the runs of the core use symmetry.
Three processes are one that opens, one that looks meanwhile and one that saves.
A word of four in a composition of four is the shortest that an edit can fall
inside of without touching its ends; one selection meets every edit and, at a
shift, the word that the shift fixes. With a limit of two, a third reading shifts
out a word of one or two, and a space behind it as well; a mark of one
reading already meets its bound.

`MaxOps` counts the operations ever queued. Three are one in progress, one that
waits behind it and one that arrives for another field, or a key that is refused,
a key that retries it and one behind both; a cancelled operation and its late
session take one of them, the next operation another. Two fields are enough,
since input never waits for more than one. One waiting mode before the host
writes again (`MaxWaiting`) is a notification overtaken by another. Two kinds of
fault are left out of `text` because `StaysInItsField` and
`CompositionShowsEngine` do not hold with them: `lateCancel` is the divergence
`replay`, `stray` is described behind the divergences. In `mode` the divergence
`swallowed` needs a second waiting mode and is excluded by `MaxWaiting = 1`.

Deadlock is checked in the runs of the core: `Crash` and `Open` are always
possible, so a stop would be an error of the model. In those of the text service
a state in which `MaxOps` operations were served and nothing is pending is the end
of the instance, and in a real one nobody has to type: `CHECK_DEADLOCK FALSE`.
That nothing *pending* stops is `NeverForgotten` and `InputDrains`.

*Fairness.* Only `HostMode` states any (`FairSpec`). Weak for the steps inside a
callback: the thread goes on, its loops are bounded by the queue. Strong for the
host running or releasing a session it holds, and for the posted message: the
host may do other things meanwhile, and both are a matter of its message loop,
which a text service has to rely on. Strong for `Focus`: the user comes back to a
field now and then; a recovery that was refused again waits for that or for the
next key, by design (`TextService.cpp:1216`). Nothing is assumed about
the host accepting anything: `Recovers` speaks of behaviours in which it refuses
no more, and `NoBusyLoop` of those in which it always does. `Recovers` excepts a
composition that lasts, under which the mode must not change, and a taken key
whose text was refused; `InputDrains` excepts that key.

## Proofs

`LearningSessionProofs` (any number of sessions, any dictionary, operations and
calls; the assumptions are `Capacity \in Nat \ {0}` and `MaxCalls \in Nat`):

* `VersionDeterminesContent`: a session that has the database's version between
  calls has its content. This is what `sync_user_data` relies on to skip a reload.
* `LearningNeverUndoesReset`: no reset or import lies between the snapshot a
  learning commit was made from and the commit.
* `VersionMonotone`, `TypeCorrect`, and `SessionsImplementDatabase`: every step
  of the sessions is a commit of `UserDatabase` or leaves it alone.

None of these is inductive. `IInv` adds that `log` is the gapless sequence of
committed snapshots (`LogComplete`), that every snapshot a session holds, or
keeps for a failure, is an entry of it (`Recorded`), that generations do not
decrease along it and grow at a reset (`LogOrdered`), and that a learning commit
has the generation of its base just before it (`LogFaithful`). Equal revisions
then are the same entry, and equal generations at both ends of an interval leave
no room for a reset in it. Rows are never expanded, so nothing depends on what a
change does to them.

The next part of the module, under the same assumptions, is about what a call
answers:

* `CallsAreInTheDatabaseOnce`: once if it asked for changes and succeeded, else
  not at all; and a failed call leaves its session as it was.
* `SelectionsCommitTheShown`: a selection answers with the candidate that was
  listed at its index when the call was made.
* `OnlyResetsRefuse`: learning is given up only after a reset or an import, an
  edit refused only after two.
* `SettledSessionsAgree`: a session not due a reload has the model of its data
  and the panel they give.

`CInv` adds to `IInv` that calls and log entries carry the numbers of their calls
(`Numbered`), that a generation that moved has a reset behind it (`LogMoves`, the
converse of `LogOrdered`), and `CallOK`: what each control point of `apply` may
rely on. A list of changes is not in the log before it is saved, and once after
(`OnceOK`); the panel a selection runs on is the one its caller saw (`ShownOK`); a
retry has one reset behind it, and a conflict there is a second (`RefusedOK`);
model, data and panel agree, also in the copy kept for a failure (`SettledOK`).

The last part is about the rows that the snapshots hold, which the others never
expand:

* `NoSelectionIsLost`: every learning selection that was committed since the last
  reset is counted in the data, whatever stale counts the panels showed.
* `ReplacementsAreOfTheKnown`: a phrase that is left after a replacement and is not
  one of its own was unknown to the session that replaced.

`DInv` adds to `IInv` that the rows of every committed snapshot are looked up by
their key (`RowsTyped`), that the counts of the database are those the log comes to
(`AllCounted`), and what a call about to save asks for (`RequestOK`): one
increment, or a list that sets counts only behind a clearing of them and each once
(`Shaped`); a replacement removes every phrase of the snapshot it is based on and
adds only its own (`Replaces`), and keeps doing so when it is tried again on another.
That the archive importer's lists are of that shape rests on `ValidArchive`, the
validation that `changes` makes before it builds one.

`UserDataProofs` holds the lemmas these proofs need about `UserData`: what
`InOrder` keeps of a set of places, and what the fold of `Preview` does to phrases and
counts, change by change. They are inductions over a list. The library's induction
theorems take an operator, which no installed prover can instantiate; here the
induction is over a *set* of naturals (`NatSetInduction`), from `LeastNumber`, which
follows from the well-foundedness of `<`.

`UserStoreProofs` (any connections, lists, capacity and number of transactions):

* `TypeCorrect` and `SnapshotsAgree`. The strengthening is that the image a
  transaction checks is the committed one, that the image it publishes is one
  revision ahead, and that no snapshot handed out is ahead of the disk.
* `Refinement`: every step is a commit of one whole list to `UserDatabase`'s snapshot,
  or leaves it alone. The refinement mapping is `Load`.
* `NeverRefused`: what is about to be committed passes `load_snapshot`'s validation.
* `Atomicity`, the invariant `RInv` behind both. Rowids number the rows of a table
  without a repetition and each key has one row (`TablesOK`); the image of a
  transaction under way is what `preview` makes of the rows on disk with the changes
  done so far, and these and those left are the list that was asked for (`Underway`). One
  lemma per kind of change shows that `UPDATE`, `INSERT` past the largest rowid and
  `DELETE` compute what the vectors of `preview` compute, in the same order
  (`HoldsRows`); one that `trim_caches` keeps the rows that `preview` keeps. Two
  implementations of one function, which the hazards list, are thereby one.

The last part of it is about `StoreOpen` (any processes and number of saves): `SessionsHaveStores` (an
open session has a user database at its path), `StoresStay` (a committed
database and its revisions survive every open, crash and failure),
`ForeignFilesStay` (another program's or an empty file is never written to),
`InterruptedStaysRefused` (what an interrupted writer left is never opened again
by this code), `FirstOpensAreAlone` (whoever initialises a new file has it for
itself, with no lock of `open`'s own) and `OpenTypeCorrect`, the type invariant. The strengthening (`ProcessOK`) says what a process may rely on at
each control point, and that the pages beside a hot journal are one revision
ahead of it (`JournalOK`): a store that is there stays there, since only an empty
file is initialised and only a free path reserved. For foreign files, `OwnFile` says
that whoever is about to initialise a file has itself put it there; with it
`FirstOpenIsAlone` is inductive.

`SmartProofs` (any lexicon, bigrams, punctuation, span, limit, options and number of
readings, under the assumptions of the three modules named above):

* `WordsAreOffered`, `NodesStayFresh`, `ShiftsKeepText` and `RebuildsKeepSelections`,
  the properties of `GraphEdits`.
* `OffersStayCurrent`, `CompositionsStayShort`, `HandoffsKeepText` and
  `CursorsFollowReadings`, those of `SmartComposition`.

Everything rests on what the recursive function of `Updated` is. That there is one at
all (`WalkExists`) is an induction over the places that are left, since a node ends
behind the place it starts at; the library's theorem on recursive functions takes an
operator, so it is again one over a set of naturals. `First` and `BestRoute` choose:
nodes have an order (`QueryOrder`, `QueryTransitive`), so a finite set of them has a
first, and so have routes, whatever their scores (`WaysAreRoutes`).

`GraphsAreSound` is the invariant of the graphs: nodes are typed, begin at a reading
and are fixed to words of their query only; no query has two nodes at a place; the
path is the one `Updated` chooses (`IsGraph`); and what the lexicon has for the
readings anywhere has a node (`KnownWords`). It holds after each edit by a lemma about
where the edit places its nodes, an injection that never brings two to one place, and
by what `Built` adds. It is deliberately not said that a node stands for its
readings: with words of four that is not so (the divergence `deletion`), and
`NodesStayFresh` says how far it is.

`ShiftsKeepText` is the deepest of them. After a shift the walk begins at a word that had a
context and now has none. Its word is fixed, which makes it the only way on
(`Targets`); behind it every node is the old one, moved, with the same context, so
the walk from each place is the old walk from the place it was moved from, up to the
places in it (`WalkMoves`, an induction over the places from the end). The first
word of the rest is therefore the same, and so is what follows it.

`CompositionIsSound` is the invariant of the composition: a sound graph, cursor and
mark among its readings, offers that are words of its nodes, none of them beside a
syllable or a mark, and no more readings than `Limit`. `LimitEnforced` is the lemma
about `enforce_limit`, an induction over its turns (`Follows`): each takes a word
away (there is one, since a composition over the limit has a reading at its front,
which is in the lexicon, and no word is longer than what is there) and appends it to
what is committed, so what was sent and what is left stay one text and the cursor
keeps its distance from the end, or ends at the front.

`InputQueueProofs` (any fields, kinds of operation and number of operations; the
only assumptions are that `NoContext` is no field, and the bound's type):
`LeaseMatchesQueue`, `ActiveHasSession` (the operation in progress is the oldest,
and the host holds its session), `OnlyTakenKeysBlock`, `OneFieldInOrder`,
`PendingInputIsTakenUp` and `OnlyTheFrontLeaves` (an operation leaves the queue
from its front or with all the others). `QInv` is their conjunction with two more
facts, without which it is not inductive: an operation without a field is queued
behind such operations only (`RequestFits`), and what is queued is taken up as
soon as `pumpInput` is over, also inside a callback (`TakenUp`).

`TextServiceProofs`: `TextImplementsQueue`, every step of the text service is a
step of the queue, whatever the engine answers and the host refuses; hence
`TextKeepsQueue` (any fields, answers, faults and number of operations; that
`NoContext` is no field is again all that is assumed). The refinement mapping is the identity on the queue's variables,
as `TextService` extends `InputQueue`. What has to be shown is that `RunInput`,
through all its stages, returns its operation with token, kind, field and what the
host was told of it unchanged (`RanFrom`), and that a switch is asked for in the
field whose input waits.

Of the text itself it proves:

* `TextTypeCorrect`, with every fault of the host. It is not inductive: that a caret
  or a composition lies in the text of its field after a write depends on where the
  stages before it left the place of the write. `Fits` says so for every field and
  for what is retained, and each stage of `retryInputResult`, each call of the engine
  and each action has a lemma that it keeps `Fits`.
* `TextStaysInItsField`, if `lateCancel` is not among the faults: what was typed in
  one field never appears in a later one. `Owned` says it of every place a token can
  be, also of the engine's reading and of what is retained or about to be shown, and
  `Owning` of a queue whose front is about to run. An engine that a cancellation left
  ahead of its field breaks it (the run `replay`), hence the condition; sessions for
  another field (`stray`), and losing the field without being told (`untold`), do not.

The second part of the module has the two properties that a refusal puts at risk, that the two
sides of the text service agree and that nothing is lost between them, both if
neither `lateCancel` nor `stray` is among the faults:

* `TextShowsEngine`: with nothing pending, the composition shows exactly the tokens
  the engine holds.
  `Showing` says what every stage leaves, done or refused. With nothing retained the
  composition has the tokens of the engine (`Displays`); a retained result is the
  engine's latest view, belongs to the field of the composition, and when nothing is
  left to be shown the composition it was written over is still due to be ended
  (`Ending`). A key that is not processed yet detaches the composition of another
  field by itself; everything else must not meet one (`Beside`), in the queue and
  while it is asked for (`AskingBeside`), which is what the host's contract gives.
  Where the host types a character beside the composition, its range moves with it.
* `NoKeyLost`: between two calls every key and symbol is in a field, in the queue, in
  the retained result, or among what was cancelled, erased or refused. `KeepInv` adds
  to the first half three things. A retained result covers the composition it will be
  written over, and what it has written is visible (`Whole`, as `Holding` for a text
  that may lose a given set of tokens): so a stage that replaces text hides no token
  that it, or a stage still to come, does not bring back, and only the answer of an
  editing key lets any go (`Spends`, `Erases`). An operation that the host may still
  have back is the only one in the queue and its call has not returned (`CallerWaits`,
  `Served`), so a key that leaves the queue unhandled is `Promised` to the caller and
  then typed by the host, never both dropped by the service and swallowed. And a key
  that was handled while it waits behind a refused write is already in the text or
  counted (`TakenStays`). Keys that block the queue, completions, refused sessions
  and each cancellation have a lemma each.

`TextOrderProofs` has `TextKeepsOrder`: in every field the service's own characters
stand in the order of their keys, each once, with every fault of the host, whether or
not it keeps its contract. Nothing is assumed beyond the constants' own assumptions.

The property is far from inductive: at the moment of a refusal the tokens are in four
places, the text of the field, the commit still to be written, the view and the engine,
and the next attempt, perhaps several operations later, puts them together. `OrderInv`
says of each place what the next write needs:

* `Line`, of the text of every field: its own tokens rise (`Rises`); none is beyond the
  *frontier*, the place behind which the next write lands; and all of them outside of
  the composition are older than everything *ahead*, which is what the engine holds and
  what is retained but not written. The frontier is the end of the composition, the end
  of a commit whose caret was refused (`CaretDue`), or the caret. A composition that
  holds a commit and is due to be ended (`EndDue`) may not be replaced any more, so it
  counts as text. Then a write replaces or extends the end of a rising sequence by newer
  tokens (`LineReplaced`), and typing by the host moves the frontier with the text.
* `ResultRises`: the engine and the retained commit rise, the commit before the engine,
  and a retained view is the engine's latest.
* `CaretsFollow` and `EndsInPlace`: the caret is never before the composition, inside
  it only while a result is retained for that field; and what a retry has still to end
  or to place stands where the last attempt left it.
* `FrontFits` and `CallsInv`, of the queue: all that is in any place is older than the
  front operation, unless that was taken before and waits behind a refused write. It
  needs that a key which is still in its call is the newest of the queue (`LastCalled`),
  and that the queue only moves up (`Shortened`).
* `Writing`: in English the engine is empty, so what an English key types has nothing
  ahead of it.

Each stage of `retryInputResult`, each way to run an operation and each action has a
lemma; a cancellation leaves nothing retained and the caret at the end of the field,
and what the engine still holds is newer than all text outside of a composition. This
is why the order, other than `TextStaysInItsField`, survives `lateCancel`.

The proof of `TextTypeCorrect` found a mistake in the model: the caret of a field
that stood behind an insertion point was not moved by the insertion, as the
host does. No run could reach it; `CaretAfter` is now right for every place.

`HostModeProofs`: `ModeImplementsQueue` likewise, `TypeCorrect`, and
`KeysDecidedInLiveMode`: as
long as the host refused nothing, whether a key is the service's and what becomes
of it is decided with no mode of the host left unread. Inductive is what `LiveInv`
says: where a resynchronization is pending (`Unread`), nothing is composed, no
session is in progress and only modes without a field wait, unless `pumpInput` is
just about to read the mode. It needs to know between which steps only a session
or a field-less mode can be waited for (`Unrefused`), and in which field a mode
can be asked for (`FieldsFit`).

`ModesComeTogether` is `ModesAgree` for any fields, keys, refusals, cancellations and
number of operations, if the host writes only while no other mode waits
(`MaxWaiting <= 1`; `swallowed` shows what happens without it). `AgreeInv` is what
is inductive: a notification waits before all other modes, and what it says is
still in its compartment with nothing else to recover (`HostFirst`, `Notified`);
where none waits, modes agree or a recovery is pending (`Agreeing`); and the mode
asked for last is the last one that waits, or the one the recoveries lead to
(`LastWanted`, `LeadsTo`). Each way the host can refuse `publishChineseMode`,
down to a refused rollback, is one case of the lemmas about `Publish`.

With these, every invariant of the passing runs is a theorem. Model-checked only are
the liveness properties `Recovers`, `NoBusyLoop` and `InputDrains`, which need
fairness and ENABLED.

## Divergences

Four are runs that TLC must find violated.

* **`handoff`.** `guanyinma.h:226` says `select_highlighted_candidate` "preserves
  the selected non-Smart candidate". When another session's learning re-sorts the
  open panel, events on it are discarded (`engine.rs:648`), but
  `finish_composition` is not among them: the highlight falls back to the first
  candidate and that one is committed. `SelectionIsWhatWasShown` is the
  counterpart that holds, for selections.
* **`deletion`.** `guanyinma.h:293` says "Segment and candidate start/span values
  count completed readings". After the deletion of the third reading of a word of
  four, `remove` (`walker.rs:478`) keeps the word's node: it lacks the comparison
  that `insert` makes (`walker.rs:452`). Three readings are left, and the word of
  four is still shown, as a segment of four. Deleting any other of the four drops
  the node. `EditsKeepNodesFresh` is what holds: for words of up to three.
* **`replay`.** `TextService.cpp:441` says "Do not retain a service-wide pending
  latch or replay accepted input into a future context". A pending input that is
  dropped by `OnEndEdit` (`TextService.cpp:2215`) or by a released session
  (`:443`) takes the retained result with it, but the engine keeps its reading.
  If the host had refused to start the composition that shows it, nothing
  abandons it, and the next key shows the reading in another field.
* **`swallowed`.** `WINDOWS_TSF_APP_STATE_REVIEW.md:141` demands that host, service
  and icon agree on the mode. `observeInputMode` ignores a notification that
  equals the *projected* mode (`TextService.cpp:2321`), which counts switches that
  still wait. When such a switch is cancelled, `cancelInput` knows nothing of the
  notification, and service and compartments differ until somebody switches.

Others came up while modelling and are no runs:

* `guanyinma.h:216` says `replace_user_phrases` "replaces the complete phrase
  publication atomically, including deletions". The code deletes the phrases of
  the session's own copy (`engine.rs:1298`), so a phrase that another session adds
  between the sync and the save survives. `SurvivorsWereUnseen` is what holds.
* `user_store.rs:249` says "Existing databases must already be Guanyinma-owned and
  valid". One whose writer was killed during COMMIT is both once its journal is
  rolled back, but the read-only probe (`user_store.rs:275`) cannot do that and
  `open` fails until some other program opens the file for writing.
  `InterruptedIsRefused` is what holds.
* `src/Source/Guanyinma/README.md:14` says that a selection fixes the selected
  segment. `select` (`walker.rs:694`) frees what was fixed over the first reading
  of the chosen word, not what was fixed inside it; the walk may then prefer a
  longer word before the fixed one, and the choice is not shown.
* A key that the engine declines while the character of an earlier one is still
  retained is left to the host and overtakes it (`TextService.cpp:543`); a test
  (`TsfOutputBehaviorTest.cpp:1300`) says "Fullwidth keys must commit in arrival
  order". `KeepsOrder` is what holds, of the service's own text.
* A burst of notifications of both compartments: each reconciles the other
  compartment when its turn comes (`TextService.cpp:2309`), so the last one
  wins only if no more than one waits.
* A symbol or a switch for one field while the composition is in another that the
  host did not say was left (`stray`): `commitCompositionForModeSwitch`
  (`TextService.cpp:1960`) resets the engine, the composition keeps showing its
  reading.

## Not modelled

* Paging; the reopening of a Smart panel when another session's data arrive;
  `use_bigrams` and a limit that is lowered under a composition.
* The migration of legacy files.
* An observation outside the properties: a reading key keeps a phrase mark
  (`smart.rs:650`), so that a mark of six readings, the most that `smart.rs:313`
  permits, grows to seven when a syllable is completed.
* 64-bit overflow of counters: naturals here. The code refuses the change.
* Setters (method, layout, options, English, full width) and text rendering.
* Bopomofo tables, reading codec, table and model queries: pure lookups.
* Of the Windows text service: the width, input method and output switches, which
  travel in the queue as the mode does; `requestCommitComposition` and the
  deactivation of the service; the candidate window, its anchors and generations
  (`TextService.cpp:2060`); `TerminateEditSession`; settings and preferences. The
  routing of a symbol between the services of a thread (`routeSymbol`) talks to
  other windows; the models begin where a service receives it. A field that has a
  retained result and no composition is not thought of as the input context.
* The C interface, the other front ends, updaters, legacy C++, data and vendored
  libraries: I/O and user interface around the core, or not this program's code.
  They make up nearly all of the repository's C and C++ lines (SQLite alone some
  hundred thousand), so that the share of all lines these modules can ever cover
  is small; the state and the protocols that are this program's own are in the
  components above.

## Plan

1. `UserData`, `LearningSession`, `UserDatabase`, `UserStore`, with proofs: done.
2. `StoreOpen`, with proofs: done.
3. `SmartGraph`, `GraphEdits`, `SmartComposition`: done. To extend: learned order,
   aliases and backoffs in the graph; a change of limit, and the span of a mark
   while readings are typed under it, in the composition; `GraphEdits` as what
   `SmartComposition` implements.
4. `InputQueue`, `TextService`, `HostMode`, with proofs: done. To extend: width,
   method and output switches; text and mode in one instance; the candidate window.
5. `TableSession`: typing a code, paging, selection keys, English, hand-off.
6. Smart learning in `LearningSession`: the overrides and bigrams of a selection,
   and the panel that `sync_user_data` reopens.
7. `Handles`: the C interface's handle life cycle.
8. Theorems: every invariant is proved; left to TLC is liveness (see
   [proofs](#proofs)).
