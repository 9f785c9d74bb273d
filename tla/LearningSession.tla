-------------------------- MODULE LearningSession --------------------------
(***************************************************************************)
(* Input sessions of the Guanyinma core (InputSession in engine.rs), each  *)
(* with its own copy of the user's data, sharing one user database.        *)
(*                                                                         *)
(* InputSession::apply runs an operation in up to four steps that other    *)
(* sessions, in this process or another, can interleave with: it reads the *)
(* database's version, reads a snapshot when the version moved, executes   *)
(* the operation on its own state, and saves the changes the operation     *)
(* asked for in one immediate transaction that checks the generation.      *)
(* Each step is an action; the control point between two steps is pc.      *)
(*                                                                         *)
(* The sessions modelled use one table method with learning on and have    *)
(* typed one code: the panel, when open, lists that code's Dictionary.     *)
(***************************************************************************)
EXTENDS UserData, Integers

CONSTANTS
  Sessions,       \* open input contexts
  Method,         \* the table method the sessions use
  Dictionary,     \* the code's exact candidates (Words), in dictionary order
  BuiltIn,        \* phrase keys of the bundled dictionary
  Operations,     \* the operations the sessions are given
  NoText,         \* nothing committed to the host
  MaxCalls        \* bound: operations begun, over all sessions

ASSUME MaxCallsAssumption == MaxCalls \in Nat

(* What comes in lists is a list; its rows may be malformed.                *)
ASSUME OperationsAssumption ==
  \A o \in Operations :
    /\ o.type = "replace_user_phrases" => o.phrases \in Seq(Range(o.phrases))
    /\ o.type = "import_user_data" =>
         /\ o.archive.phrases \in Seq(Range(o.archive.phrases))
         /\ o.archive.smart # <<>> =>
              /\ o.archive.smart[1].overrides \in Seq(Range(o.archive.smart[1].overrides))
              /\ o.archive.smart[1].bigrams \in Seq(Range(o.archive.smart[1].bigrams))
         /\ o.archive.table # <<>> => o.archive.table[1] \in Seq(Range(o.archive.table[1]))

VARIABLES
  db,       \* the committed user database
  local,    \* each session's State: user_data, reload_user_data, smart, panel
  pc,       \* each session's control point in apply
  call,     \* each session's current or last operation
  reply,    \* each session's last outcome
  calls,    \* operations begun so far
  log       \* history: the commits, log[r] being the one that made revision r

vars == <<db, local, pc, call, reply, calls, log>>

Closed == [list |-> <<>>, at |-> 1]
NoCall == [id |-> 0, op |-> [type |-> "none"], changes |-> <<>>, text |-> NoText,
           before |-> <<>>, base |-> 0]
NoReply == [status |-> "none", text |-> NoText]

PCs == {"closed", "idle", "reload", "execute", "save", "retry"}
Statuses == {"none", "ok", "dropped", "beep", "invalid", "conflict", "failed"}

(* Events that refer to the panel the user was looking at. *)
PanelEvents == {"lookup", "select", "move_highlight"}

-----------------------------------------------------------------------------
(* What the panel lists for a snapshot: the code's learned candidates, most *)
(* used first and oldest row first among equals, then the others.           *)

Learned(data) ==
  SelectSeq(data.table,
            LAMBDA row : row.method = Method /\ row.current \in Range(Dictionary))

ByCount(rows) ==
  LET Before(i, j) == \/ rows[i].count > rows[j].count
                      \/ rows[i].count = rows[j].count /\ i < j
      Place(i) == Cardinality({j \in DOMAIN rows : Before(j, i)}) + 1
  IN  [p \in DOMAIN rows |-> rows[CHOOSE i \in DOMAIN rows : Place(i) = p].current]

Candidates(data) ==
  LET first == ByCount(Learned(data))
  IN  first \o SelectSeq(Dictionary, LAMBDA word : word \notin Range(first))

IsOpen(panel) == panel.list # <<>>

(* sync_user_data runs the query of an open panel again; the highlight     *)
(* survives only in an unchanged list.                                     *)
Requeried(panel, data) ==
  IF ~IsOpen(panel) THEN panel
  ELSE IF Candidates(data) = panel.list THEN panel
  ELSE [list |-> Candidates(data), at |-> 1]

IsLearning(changes) == \A i \in DOMAIN changes : changes[i].kind \in LearningKinds

-----------------------------------------------------------------------------
Init ==
  /\ db = EmptySnapshot
  /\ local = [s \in Sessions |-> <<>>]
  /\ pc = [s \in Sessions |-> "closed"]
  /\ call = [s \in Sessions |-> NoCall]
  /\ reply = [s \in Sessions |-> NoReply]
  /\ calls = 0
  /\ log = <<>>

(* InputSession::open reads one snapshot. *)
Open(s) ==
  /\ pc[s] = "closed"
  /\ pc' = [pc EXCEPT ![s] = "idle"]
  /\ local' = [local EXCEPT ![s] =
       [user |-> db, reload |-> FALSE, model |-> db, panel |-> Closed]]
  /\ UNCHANGED <<db, call, reply, calls, log>>

(* The process ends, or the context is closed between calls: nothing is    *)
(* written, and what the session held is gone.                             *)
Crash(s) ==
  /\ pc[s] # "closed"
  /\ pc' = [pc EXCEPT ![s] = "closed"]
  /\ local' = [local EXCEPT ![s] = <<>>]
  /\ call' = [call EXCEPT ![s] = NoCall]
  /\ reply' = [reply EXCEPT ![s] = NoReply]
  /\ UNCHANGED <<db, calls, log>>

(* apply starts: the state is kept for a failure and the version is read.  *)
Begin(s, o) ==
  /\ pc[s] = "idle"
  /\ calls < MaxCalls
  /\ o.type = "lookup" => ~IsOpen(local[s].panel)
  /\ calls' = calls + 1
  /\ call' = [call EXCEPT ![s] =
       [id |-> calls', op |-> o, changes |-> <<>>, text |-> NoText,
        before |-> local[s], base |-> local[s].user.revision]]
  /\ reply' = [reply EXCEPT ![s] = NoReply]
  /\ pc' = [pc EXCEPT ![s] =
       IF local[s].reload \/ Version(local[s].user) # Version(db)
         THEN "reload" ELSE "execute"]
  /\ UNCHANGED <<db, local, log>>

Return(s, status, text) ==
  /\ pc' = [pc EXCEPT ![s] = "idle"]
  /\ reply' = [reply EXCEPT ![s] = [status |-> status, text |-> text]]

(* An Err anywhere in apply: the state of before the call comes back.      *)
ReturnErrorAsIs(s, status) ==
  /\ Return(s, status, NoText)
  /\ UNCHANGED <<db, local, call, calls, log>>

ReturnError(s, status) ==
  /\ Return(s, status, NoText)
  /\ local' = [local EXCEPT ![s] = call[s].before]
  /\ UNCHANGED <<db, call, calls, log>>

-----------------------------------------------------------------------------
(* sync_user_data, when the version moved or the last save asked for it.   *)

Synced(s) ==
  [user |-> db, reload |-> FALSE, model |-> db,
   panel |-> Requeried(local[s].panel, db)]

ViewTakenAsShown(s) == FALSE

ViewChanged(s) ==
  IsOpen(local[s].panel) /\ Synced(s).panel # local[s].panel

Reload(s) ==
  /\ pc[s] = "reload"
  /\ ~(ViewChanged(s) /\ call[s].op.type \in PanelEvents)
  /\ local' = [local EXCEPT ![s] = Synced(s)]
  /\ call' = [call EXCEPT ![s].base = db.revision]
  /\ pc' = [pc EXCEPT ![s] = "execute"]
  /\ UNCHANGED <<db, reply, calls, log>>

(* The panel the event refers to is gone: the event is consumed.           *)
DiscardEvent(s) ==
  /\ pc[s] = "reload"
  /\ ViewChanged(s) /\ call[s].op.type \in PanelEvents
  /\ local' = [local EXCEPT ![s] = [Synced(s) EXCEPT !.panel = Closed]]
  /\ call' = [call EXCEPT ![s].base = db.revision]
  /\ Return(s, "beep", NoText)
  /\ UNCHANGED <<db, calls, log>>

-----------------------------------------------------------------------------
(* execute: one action per operation, on the session's own state.          *)

Executes(s, type) == pc[s] = "execute" /\ call[s].op.type = type

Done(s, panel, text) ==
  /\ local' = [local EXCEPT ![s].panel = panel]
  /\ Return(s, "ok", text)
  /\ UNCHANGED <<db, call, calls, log>>

(* The operation leaves the panel so and asks for these changes, which     *)
(* save_user_changes then stores.  With none the call is over; a malformed *)
(* one fails the whole call.                                               *)
Ask(s, panel, changes, text) ==
  IF changes = <<>> THEN Done(s, panel, text)
  ELSE IF changes \in Seq(Change)
    THEN /\ local' = [local EXCEPT ![s].panel = panel]
         /\ pc' = [pc EXCEPT ![s] = "save"]
         /\ call' = [call EXCEPT ![s].changes = changes, ![s].text = text]
         /\ UNCHANGED <<db, reply, calls, log>>
    ELSE ReturnError(s, "invalid")

(* A radical or Space queries the table and opens the panel.               *)
Lookup(s) ==
  /\ Executes(s, "lookup")
  /\ Done(s, [list |-> Candidates(local[s].user), at |-> 1], NoText)

(* The panel is one page: the highlight, moved one place by an arrow key,  *)
(* stops at its ends.                                                      *)
MoveHighlight(s) ==
  LET panel == local[s].panel
      requested == panel.at + call[s].op.delta
  IN  /\ Executes(s, "move_highlight")
      /\ Done(s, IF requested \in 1..Len(panel.list) THEN [panel EXCEPT !.at = requested]
                 ELSE panel,
              NoText)

(* Every exact candidate but the first is learned when chosen.             *)
Select(s) ==
  LET list == local[s].panel.list
      index == call[s].op.index
      learned == [kind |-> "IncrementTable", method |-> Method, current |-> list[index]]
  IN  /\ Executes(s, "select")
      /\ index \in DOMAIN list
      /\ IF index = 1 THEN Done(s, Closed, list[index])
                      ELSE Ask(s, Closed, <<learned>>, list[index])

SelectOutside(s) ==
  /\ Executes(s, "select")
  /\ call[s].op.index \notin DOMAIN local[s].panel.list
  /\ ReturnError(s, "invalid")

(* finish_composition with select_highlighted_candidate: the highlight is  *)
(* committed and never learned.                                            *)
FinishComposition(s) ==
  LET panel == local[s].panel IN
  /\ Executes(s, "finish_composition")
  /\ Done(s, Closed, IF IsOpen(panel) THEN panel.list[panel.at] ELSE NoText)

ResetLearning(s) ==
  /\ Executes(s, "reset_learning")
  /\ Ask(s, Closed, <<[kind |-> "ResetLearning"]>>, NoText)

(* Resetting another method's learning leaves the panel open; Traditional  *)
(* has none to reset.                                                      *)
ResetMethodLearning(s) ==
  LET method == call[s].op.method IN
  /\ Executes(s, "reset_method_learning")
  /\ IF method = "traditional" THEN ReturnError(s, "invalid")
     ELSE Ask(s, IF method = Method THEN Closed ELSE local[s].panel,
              <<IF method = "smart" THEN [kind |-> "ResetSmartLearning"]
                ELSE [kind |-> "ResetTableLearning", method |-> method]>>, NoText)

(* phrase_exists, in the session's copy or the bundled dictionary: a phrase *)
(* that exists is not added again.                                         *)
Existing(s) == PhraseKeys(local[s].user) \cup BuiltIn

AddUserPhrase(s) ==
  LET key == call[s].op.key IN
  /\ Executes(s, "add_user_phrase")
  /\ IF key \in Existing(s)
       THEN Done(s, local[s].panel, NoText)
       ELSE Ask(s, Closed, <<[kind |-> "UpsertPhrase", key |-> key, score |-> 0]>>, NoText)

UpdateUserPhrase(s) ==
  LET old == call[s].op.key
      new == call[s].op.new
  IN  /\ Executes(s, "update_user_phrase")
      /\ IF \/ old \notin PhraseKeys(local[s].user)
            \/ new # old /\ new \in Existing(s)
           THEN ReturnError(s, "invalid")
         ELSE IF new = old THEN Done(s, local[s].panel, NoText)
         ELSE Ask(s, Closed, <<[kind |-> "RemovePhrase", key |-> old],
                               [kind |-> "UpsertPhrase", key |-> new, score |-> 0]>>, NoText)

RemoveUserPhrase(s) ==
  /\ Executes(s, "remove_user_phrase")
  /\ Ask(s, Closed, <<[kind |-> "RemovePhrase", key |-> call[s].op.key]>>, NoText)

(* The new publication replaces the phrases the session knows of.          *)
ReplaceWithoutRemovals(s) ==
  LET rows == call[s].op.phrases IN
  /\ Executes(s, "replace_user_phrases")
  /\ Ask(s, Closed, [i \in DOMAIN rows |->
       [kind |-> "UpsertPhrase", key |-> rows[i].key, score |-> rows[i].score]], NoText)

ReplaceUserPhrases(s) ==
  LET known == local[s].user.phrases
      rows == call[s].op.phrases
      removals == [i \in DOMAIN known |-> [kind |-> "RemovePhrase", key |-> known[i].key]]
      inserts == [i \in DOMAIN rows |->
                    [kind |-> "UpsertPhrase", key |-> rows[i].key, score |-> rows[i].score]]
  IN  /\ Executes(s, "replace_user_phrases")
      /\ IF ~UniqueKeys(rows, LAMBDA row : row.key) THEN ReturnError(s, "invalid")
         ELSE IF rows = known THEN Done(s, local[s].panel, NoText)
         ELSE Ask(s, Closed, removals \o inserts, NoText)

(* UserArchive::changes.  A scope the archive leaves out is <<>>, and what  *)
(* the user learned in it stays; one it has is replaced.                   *)
Each(rows, ToChange(_)) == [i \in DOMAIN rows |-> ToChange(rows[i])]

ScopeResets(archive) ==
  CASE archive.smart # <<>> /\ archive.table # <<>> -> <<[kind |-> "ResetLearning"]>>
    [] archive.smart # <<>> /\ archive.table = <<>> -> <<[kind |-> "ResetSmartLearning"]>>
    [] archive.smart = <<>> /\ archive.table # <<>> ->
         Each(<<"traditional", "cangjie", "simplex">>,
              LAMBDA method : [kind |-> "ResetTableLearning", method |-> method])
    [] OTHER -> <<>>

ArchiveChanges(archive) ==
  LET insert(row) == [kind |-> "InsertPhraseIfAbsent", key |-> row.key, score |-> row.score]
      override(row) == [kind |-> "SetOverride", qstring |-> row.qstring, current |-> row.current]
      bigram(row) == [kind |-> "SetBigram", qstring |-> row.qstring, current |-> row.current]
      frequency(row) == [kind |-> "SetTable", method |-> row.method, current |-> row.current,
                         count |-> row.count]
  IN  ScopeResets(archive) \o Each(archive.phrases, insert)
      \o (IF archive.smart = <<>> THEN <<>>
          ELSE Each(archive.smart[1].overrides, override)
               \o Each(archive.smart[1].bigrams, bigram))
      \o (IF archive.table = <<>> THEN <<>> ELSE Each(archive.table[1], frequency))

(* UserArchive::validate: an archive keeps the contract of a snapshot.      *)
ValidArchive(archive) ==
  LET smart == archive.smart # <<>>
  IN  ValidSnapshot(
        [phrases   |-> archive.phrases,
         overrides |-> IF smart THEN archive.smart[1].overrides ELSE <<>>,
         bigrams   |-> IF smart THEN archive.smart[1].bigrams ELSE <<>>,
         table     |-> IF archive.table # <<>> THEN archive.table[1] ELSE <<>>])

ImportUserData(s) ==
  LET archive == call[s].op.archive IN
  /\ Executes(s, "import_user_data")
  /\ IF ValidArchive(archive) THEN Ask(s, Closed, ArchiveChanges(archive), NoText)
     ELSE ReturnError(s, "invalid")

Execute(s) ==
  \/ Lookup(s) \/ MoveHighlight(s) \/ Select(s) \/ SelectOutside(s) \/ FinishComposition(s)
  \/ ResetLearning(s) \/ ResetMethodLearning(s)
  \/ AddUserPhrase(s) \/ UpdateUserPhrase(s) \/ RemoveUserPhrase(s)
  \/ ReplaceUserPhrases(s) \/ ImportUserData(s)

-----------------------------------------------------------------------------
(* save_user_changes: the model is rebuilt from the preview, then          *)
(* UserStore::apply runs as one immediate transaction.                     *)

Saving(s) == pc[s] \in {"save", "retry"}
AnyGeneration(s) == TRUE
SameVersion(s) == Version(local[s].user) = Version(db)
SameGeneration(s) == local[s].user.generation = db.generation

(* After a save the session holds what the database returned, while its    *)
(* model was built from its own preview: the next call reloads.            *)
AfterSaveSettled(s, data) ==
  [user |-> data, reload |-> FALSE, model |-> Preview(local[s].user, call[s].changes),
   panel |-> local[s].panel]

AfterSave(s, data) ==
  [user |-> data, reload |-> TRUE, model |-> Preview(local[s].user, call[s].changes),
   panel |-> local[s].panel]

(* The transaction applies the call's changes to the committed data.       *)
StoredUnversioned(s, data) ==
  [Preview(data, call[s].changes) EXCEPT !.revision = data.revision]
StoredWhole(s, data) ==
  [Preview(local[s].user, call[s].changes) EXCEPT !.revision = data.revision + 1]
Stored(s, data) == Preview(data, call[s].changes)

Save(s) ==
  LET after == Stored(s, db) IN
  /\ Saving(s) /\ SameGeneration(s)
  /\ db' = after
  /\ log' = [r \in 1..after.revision |->
               IF r = after.revision
                 THEN [id |-> call[s].id, op |-> call[s].op, changes |-> call[s].changes,
                       base |-> call[s].base, after |-> after]
                 ELSE log[r]]
  /\ local' = [local EXCEPT ![s] = AfterSave(s, after)]
  /\ Return(s, "ok", call[s].text)
  /\ UNCHANGED <<call, calls>>

(* A reset or an import came first: old learning is given up ...           *)
DropLearning(s) ==
  /\ Saving(s) /\ ~SameGeneration(s) /\ IsLearning(call[s].changes)
  /\ local' = [local EXCEPT ![s] = AfterSave(s, db)]
  /\ Return(s, "dropped", call[s].text)
  /\ UNCHANGED <<db, call, calls, log>>

(* ... a dictionary edit, reset or import is tried once more ...           *)
Retry(s) ==
  /\ pc[s] = "save" /\ ~SameGeneration(s) /\ ~IsLearning(call[s].changes)
  /\ local' = [local EXCEPT ![s] = AfterSave(s, db)]
  /\ pc' = [pc EXCEPT ![s] = "retry"]
  /\ UNCHANGED <<db, call, reply, calls, log>>

(* ... and then refused.                                                   *)
Conflict(s) ==
  /\ pc[s] = "retry" /\ ~SameGeneration(s) /\ ~IsLearning(call[s].changes)
  /\ ReturnError(s, "conflict")

(* The database is busy past the timeout, or a read or write fails.        *)
StoreError(s) ==
  /\ pc[s] \in {"reload", "save", "retry"}
  /\ ReturnError(s, "failed")

-----------------------------------------------------------------------------
Continue(s) ==
  \/ Reload(s) \/ DiscardEvent(s) \/ Execute(s)
  \/ Save(s) \/ DropLearning(s) \/ Retry(s) \/ Conflict(s)

Next ==
  \E s \in Sessions :
    \/ Open(s)
    \/ Crash(s)
    \/ \E o \in Operations : Begin(s, o)
    \/ Continue(s)
    \/ StoreError(s)

Spec == Init /\ [][Next]_vars
-----------------------------------------------------------------------------
(* History: the snapshot that each revision denotes. *)
At(r) == IF r = 0 THEN EmptySnapshot ELSE log[r].after

Answered(s) == pc[s] = "idle" /\ reply[s].status # "none"
IsResetAt(r) == Resets(log[r].changes) # {}

(* The control state and the versions have their types.  The rows' types   *)
(* are those of ValidSnapshot.                                             *)
TypeOK ==
  /\ db.generation \in Nat /\ db.revision \in Nat
  /\ pc \in [Sessions -> PCs]
  /\ calls \in Nat
  /\ \A s \in Sessions :
       /\ reply[s].status \in Statuses
       /\ call[s].base \in Nat
       /\ pc[s] # "closed" =>
            /\ local[s].user.generation \in Nat /\ local[s].user.revision \in Nat
            /\ local[s].reload \in BOOLEAN
            /\ local[s].panel.at \in Nat \ {0}

(* A database whose revisions each name one content: whenever a session    *)
(* between calls has the version of the database, it has its content.      *)
(* sync_user_data relies on it when it skips the reload, and a session     *)
(* that kept a preview, or a writer that left the revision alone, breaks   *)
(* it.                                                                     *)
VersionNamesContent ==
  \A s \in Sessions :
    pc[s] = "idle" /\ Version(local[s].user) = Version(db) => local[s].user = db

(* "Old learning must never undo a reset" (save_user_changes): between the *)
(* snapshot a learning commit was made from and the commit, there was no   *)
(* reset and no import.                                                    *)
NoLearningAcrossReset ==
  \A r \in DOMAIN log : IsLearning(log[r].changes) =>
    \A q \in DOMAIN log : q > log[r].base /\ q < r => ~IsResetAt(q)

(* Sessions merge their changes: the database's count of a candidate is    *)
(* what the last reset or import left plus every selection committed       *)
(* since, none lost to a stale snapshot and none counted twice.            *)
CommittedCount(current) ==
  LET Touches(c) == \/ c.kind = "ResetLearning"
                    \/ c.kind = "ResetTableLearning" /\ c.method = Method
      Clears(r) == \E i \in DOMAIN log[r].changes : Touches(log[r].changes[i])
      cleared == {r \in DOMAIN log : Clears(r)}
      from == IF cleared = {} THEN 0 ELSE CHOOSE r \in cleared : \A q \in cleared : q <= r
      imported == IF from = 0 THEN {} ELSE
                    {c \in Range(log[from].changes) :
                       c.kind = "SetTable" /\ c.method = Method /\ c.current = current}
      one == [kind |-> "IncrementTable", method |-> Method, current |-> current]
  IN  (IF imported = {} THEN 0 ELSE (CHOOSE c \in imported : TRUE).count)
      + Cardinality({r \in DOMAIN log : r > from /\ one \in Range(log[r].changes)})

NoSelectionLost ==
  \A current \in Range(Dictionary) : CountOf(db, Method, current) = CommittedCount(current)

(* A session that is not due a reload composes with the data it holds and  *)
(* shows the panel that data gives: save_user_changes leaves the model at  *)
(* the preview and an open panel at the older counts, and only             *)
(* reload_user_data keeps that from lasting.                               *)
SettledSessionAgrees ==
  \A s \in Sessions : pc[s] = "idle" /\ ~local[s].reload =>
    /\ local[s].model = local[s].user
    /\ IsOpen(local[s].panel) => local[s].panel.list = Candidates(local[s].user)

(* A selection commits the candidate its caller saw at that index, however *)
(* the list changed in between (guanyinma.h: "never reassigned by index"). *)
SelectionIsWhatWasShown ==
  \A s \in Sessions :
    Answered(s) /\ call[s].op.type = "select" /\ reply[s].text # NoText =>
      reply[s].text = call[s].before.panel.list[call[s].op.index]

(* Learning is given up only for a reset or import that came after the     *)
(* snapshot it was made from, and an edit is refused only after two.       *)
RefusalNeedsResets ==
  \A s \in Sessions : Answered(s) =>
    LET since == {r \in DOMAIN log : r > call[s].base /\ IsResetAt(r)}
    IN  /\ reply[s].status = "dropped" => since # {}
        /\ reply[s].status = "conflict" => Cardinality(since) >= 2

(* Whatever is replaced concurrently, a phrase that outlives a             *)
(* replacement it is not part of was unknown to the session that asked.    *)
SurvivorsWereUnseen ==
  \A r \in DOMAIN log : log[r].op.type = "replace_user_phrases" =>
    \A key \in PhraseKeys(log[r].after) :
      \/ \E i \in DOMAIN log[r].op.phrases : log[r].op.phrases[i].key = key
      \/ key \notin PhraseKeys(At(log[r].base))

(* A call is in the database once or not at all, whatever was retried: once *)
(* when it asked for changes and succeeded, not at all when its learning    *)
(* was given up or it failed; and a failed call also leaves the session as  *)
(* it was before the reload, the preview and the retry.                     *)
CallsAreAtomic ==
  \A s \in Sessions : Answered(s) =>
    LET failed == reply[s].status \in {"invalid", "conflict", "failed"}
        commits == {r \in DOMAIN log : log[r].id = call[s].id}
    IN  /\ Cardinality(commits) =
              IF reply[s].status = "ok" /\ call[s].changes # <<>> THEN 1 ELSE 0
        /\ failed => local[s] = call[s].before /\ reply[s].text = NoText

(* The version only grows, and the generation only with the revision.      *)
VersionGrows ==
  [][ /\ db'.generation >= db.generation /\ db'.revision >= db.revision
      /\ db' # db => db'.revision > db.revision ]_vars

-----------------------------------------------------------------------------
(* Statements of the documentation that the code does not keep. *)

(* guanyinma.h: "select_highlighted_candidate preserves the selected       *)
(* non-Smart candidate": the one highlighted when the call was made.       *)
FinishKeepsTheHighlight ==
  \A s \in Sessions :
    Answered(s) /\ call[s].op.type = "finish_composition" /\ reply[s].text # NoText =>
      reply[s].text = call[s].before.panel.list[call[s].before.panel.at]
=============================================================================
