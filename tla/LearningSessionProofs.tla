----------------------- MODULE LearningSessionProofs -----------------------
(***************************************************************************)
(* Proofs about LearningSession, for any number of sessions, any           *)
(* dictionary, any set of operations and any length of run.                *)
(*                                                                         *)
(* The first part argues about versions only; what a change does to the    *)
(* rows is never expanded.  The history log is the sequence of committed           *)
(* snapshots.  Every snapshot a session holds is one of them (SessionOK),  *)
(* so equal revisions mean equal contents.  Generations do not decrease    *)
(* along the log and strictly grow at a reset (LogOrdered), so a learning  *)
(* commit, which needs the generation its session holds, can have no reset *)
(* between the session's snapshot and itself (LogFaithful).                *)
(***************************************************************************)
EXTENDS LearningSession, UserDataProofs

Generation(r) == At(r).generation

Recorded(data) ==
  /\ data.revision \in 0..db.revision
  /\ data = At(data.revision)

(* The database is the last entry of a log without gaps. *)
LogComplete ==
  /\ db.revision \in Nat
  /\ DOMAIN log = 1..db.revision
  /\ db = At(db.revision)
  /\ \A r \in 0..db.revision : At(r).revision = r /\ Generation(r) \in Nat

LogOrdered ==
  /\ \A q, r \in 0..db.revision : q <= r => Generation(q) <= Generation(r)
  /\ \A r \in 1..db.revision : IsResetAt(r) => Generation(r - 1) < Generation(r)

LogFaithful ==
  \A r \in 1..db.revision :
    /\ log[r].base \in 0..(r - 1)
    /\ IsLearning(log[r].changes) => Generation(log[r].base) = Generation(r - 1)

Saves(s) == pc[s] \in {"save", "retry"}
InCall(s) == pc[s] \in {"reload", "execute", "save", "retry"}

IsPanel(p) == p = [list |-> p.list, at |-> p.at] /\ p.at \in Nat \ {0}

IsState(l) ==
  /\ l = [user |-> l.user, reload |-> l.reload, model |-> l.model, panel |-> l.panel]
  /\ l.reload \in BOOLEAN
  /\ IsPanel(l.panel)

IsCall(c) ==
  c = [id |-> c.id, op |-> c.op, changes |-> c.changes, text |-> c.text,
       before |-> c.before, base |-> c.base]

(* What a session holds was committed: its copy of the data, and the copy   *)
(* kept for a failure.  While it executes and first saves, the copy is the  *)
(* one the call is based on; a retried list is not learning.                *)
SessionOK(s) ==
  /\ reply[s].status \in Statuses
  /\ IsCall(call[s])
  /\ call[s].base \in 0..db.revision
  /\ pc[s] # "closed" => IsState(local[s]) /\ Recorded(local[s].user)
  /\ InCall(s) => IsState(call[s].before) /\ Recorded(call[s].before.user)
  /\ pc[s] \in {"execute", "save"} => local[s].user.revision = call[s].base
  /\ Saves(s) => call[s].changes \in Seq(Change) /\ call[s].changes # <<>>
  /\ pc[s] = "retry" => ~IsLearning(call[s].changes)

Maps ==
  /\ local = [s \in Sessions |-> local[s]]
  /\ pc \in [Sessions -> PCs]
  /\ call = [s \in Sessions |-> call[s]]
  /\ reply = [s \in Sessions |-> reply[s]]
  /\ calls \in Nat

History == LogComplete /\ LogOrdered /\ LogFaithful

IInv == History /\ Maps /\ \A s \in Sessions : SessionOK(s)

-----------------------------------------------------------------------------
(* A save makes the next revision; its generation is at least the old one,  *)
(* and larger when a change resets learning.                                *)
LEMMA PreviewVersion ==
  ASSUME NEW data, data.generation \in Nat, data.revision \in Nat,
         NEW changes \in Seq(Change), changes # <<>>
  PROVE  /\ Preview(data, changes).revision = data.revision + 1
         /\ Preview(data, changes).generation \in Nat
         /\ Preview(data, changes).generation >= data.generation
         /\ Resets(changes) # {} => Preview(data, changes).generation > data.generation
<1> DEFINE resets == Resets(changes)
           rows == FoldLeft(ApplyChange, data, changes)
<1>1. /\ Preview(data, changes).revision = data.revision + 1
      /\ Preview(data, changes).generation = data.generation + Cardinality(resets)
  <2>1. Preview(data, changes) =
          [generation |-> data.generation + Cardinality(resets),
           revision   |-> data.revision + (IF changes = <<>> THEN 0 ELSE 1),
           phrases    |-> rows.phrases,
           overrides  |-> Newest(rows.overrides),
           bigrams    |-> Newest(rows.bigrams),
           table      |-> rows.table]
    BY DEF Preview
  <2> HIDE DEF resets, rows
  <2> QED  BY <2>1
<1>2. IsFiniteSet(resets)
  <2>1. DOMAIN changes = 1..Len(changes) /\ Len(changes) \in Nat
    OBVIOUS
  <2>2. IsFiniteSet(DOMAIN changes)
    BY <2>1, FS_Interval
  <2> QED  BY <2>2, FS_Subset DEF Resets
<1>3. Cardinality(resets) \in Nat
  BY <1>2, FS_CardinalityType
<1>4. resets # {} => Cardinality(resets) # 0
  BY <1>2, FS_EmptySet
<1> HIDE DEF resets
<1> QED  BY <1>1, <1>3, <1>4 DEF resets
-----------------------------------------------------------------------------
(* Steps that leave the database alone. *)

Kept(t) ==
  local'[t] = local[t] /\ pc'[t] = pc[t] /\ call'[t] = call[t] /\ reply'[t] = reply[t]

LEMMA HistoryKept ==
  ASSUME History, UNCHANGED <<db, log>>
  PROVE  /\ History'
         /\ \A data : Recorded(data)' <=> Recorded(data)
BY DEF History, LogComplete, LogOrdered, LogFaithful, Recorded, Generation, At, IsResetAt

LEMMA OthersKept ==
  ASSUME History, UNCHANGED <<db, log>>, NEW t, SessionOK(t), Kept(t)
  PROVE  SessionOK(t)'
<1> USE DEF Kept
<1>1. \A data : Recorded(data)' <=> Recorded(data)
  BY HistoryKept
<1>2. Recorded(local[t].user) => Recorded(local[t].user)'
  BY <1>1
<1> QED
  BY HistoryKept DEF SessionOK, Saves, InCall, Recorded, At, LogComplete, History

LEMMA LocalStep ==
  ASSUME IInv, UNCHANGED <<db, log>>, NEW s \in Sessions, Maps', SessionOK(s)',
         \A t \in Sessions \ {s} : Kept(t)
  PROVE  IInv'
BY HistoryKept, OthersKept DEF IInv

LEMMA InitEstablishes == Init => IInv
<1> SUFFICES ASSUME Init PROVE IInv
  OBVIOUS
<1> USE DEF Init
<1>1. DOMAIN log = 1..0 /\ db.revision = 0 /\ db.generation = 0
  BY DEF EmptySnapshot
<1>2. LogComplete
  BY <1>1 DEF LogComplete, At, Generation
<1>3. LogOrdered
  BY <1>1, <1>2 DEF LogOrdered, LogComplete, Generation, At
<1>4. LogFaithful
  BY <1>1 DEF LogFaithful
<1>5. Maps
  BY DEF Maps, PCs
<1>6. ASSUME NEW s \in Sessions PROVE SessionOK(s)
  BY <1>1 DEF SessionOK, NoReply, NoCall, Statuses, IsCall, InCall, Saves
<1> QED  BY <1>2, <1>3, <1>4, <1>5, <1>6 DEF IInv, History

LEMMA NewState ==
  ASSUME NEW user, NEW reload \in BOOLEAN, NEW model, NEW panel, IsPanel(panel)
  PROVE  IsState([user |-> user, reload |-> reload, model |-> model, panel |-> panel])
BY DEF IsState

LEMMA NewPanel ==
  ASSUME NEW l, IsState(l), NEW panel, IsPanel(panel)
  PROVE  IsState([l EXCEPT !.panel = panel]) /\ [l EXCEPT !.panel = panel].user = l.user
<1>1. [l EXCEPT !.panel = panel] =
        [user |-> l.user, reload |-> l.reload, model |-> l.model, panel |-> panel]
  BY DEF IsState
<1>2. l.reload \in BOOLEAN
  BY DEF IsState
<1> QED  BY <1>1, <1>2, NewState

LEMMA DatabaseRecorded == ASSUME History PROVE Recorded(db)
BY DEF History, LogComplete, Recorded

LEMMA OpenKeeps == ASSUME IInv, NEW s \in Sessions, Open(s) PROVE IInv'
<1> USE DEF Open
<1>1. Recorded(db)'
  BY DatabaseRecorded, HistoryKept DEF IInv, Recorded
<1>2. local'[s] = [user |-> db, reload |-> FALSE, model |-> db, panel |-> Closed] /\ pc'[s] = "idle"
  BY DEF IInv, Maps
<1>3. SessionOK(s)'
  <2>1. IsState(local[s])'
    <3>1. IsPanel(Closed)
      BY DEF IsPanel, Closed
    <3> HIDE DEF Open
    <3>2. IsState(local'[s])
      BY <1>2, <3>1, NewState
    <3> QED  BY <3>2 DEF IsState, IsPanel
  <2>2. Recorded(local[s].user)'
    BY <1>1, <1>2 DEF Recorded, At
  <2> QED  BY <1>2, <2>1, <2>2 DEF IInv, SessionOK, InCall, Saves
<1>4. Maps'
  BY DEF IInv, Maps, PCs
<1> QED  BY <1>3, <1>4, LocalStep DEF IInv, Maps, Kept

LEMMA CrashKeeps == ASSUME IInv, NEW s \in Sessions, Crash(s) PROVE IInv'
<1> USE DEF Crash
<1>1. pc'[s] = "closed" /\ call'[s] = NoCall /\ reply'[s] = NoReply
  BY DEF IInv, Maps
<1>2. SessionOK(s)'
  BY <1>1 DEF IInv, History, LogComplete, SessionOK, InCall, Saves, NoCall, NoReply, IsCall, Statuses
<1>3. Maps'
  BY DEF IInv, Maps, PCs
<1> QED  BY <1>2, <1>3, LocalStep DEF IInv, Maps, Kept

LEMMA BeginKeeps ==
  ASSUME IInv, NEW s \in Sessions, NEW o \in Operations, Begin(s, o) PROVE IInv'
<1> USE DEF Begin
<1>1. /\ local'[s] = local[s] /\ reply'[s] = NoReply
      /\ call'[s] = [id |-> calls', op |-> o, changes |-> <<>>, text |-> NoText,
                     before |-> local[s], base |-> local[s].user.revision]
      /\ pc[s] = "idle" /\ pc'[s] \in {"reload", "execute"}
  BY DEF IInv, Maps
<1>2. IsState(local[s]) /\ Recorded(local[s].user)
  BY <1>1 DEF IInv, SessionOK
<1>3. Recorded(local[s].user)'
  BY <1>1, <1>2 DEF Recorded, At
<1>4. SessionOK(s)'
  BY <1>1, <1>2, <1>3 DEF SessionOK, InCall, Saves, NoReply, IsCall, Statuses, Recorded
<1>5. Maps'
  <2>1. Maps
    BY DEF IInv
  <2>2. calls' \in Nat
    BY <2>1 DEF Maps
  <2> QED  BY <1>1, <2>1, <2>2 DEF Maps, PCs
<1> QED  BY <1>4, <1>5, LocalStep DEF IInv, Maps, Kept

(* An error gives back the state of before the call, which was recorded.    *)
LEMMA ErrorKeeps ==
  ASSUME IInv, NEW s \in Sessions, InCall(s), NEW status \in Statuses, ReturnError(s, status)
  PROVE  IInv'
<1> USE DEF ReturnError, Return
<1>1. /\ local'[s] = call[s].before /\ call'[s] = call[s] /\ pc'[s] = "idle"
      /\ reply'[s] = [status |-> status, text |-> NoText]
  BY DEF IInv, Maps
<1>2. IsState(call[s].before) /\ Recorded(call[s].before.user)
  BY DEF IInv, SessionOK
<1>3. Recorded(call[s].before.user)'
  BY <1>2 DEF Recorded, At
<1>4. SessionOK(s)'
  BY <1>1, <1>2, <1>3 DEF IInv, SessionOK, InCall, Saves, Recorded, At
<1>5. Maps'
  BY DEF IInv, Maps, PCs
<1> QED  BY <1>4, <1>5, LocalStep DEF IInv, Maps, Kept

-----------------------------------------------------------------------------
(* The reload takes the committed snapshot. *)

LEMMA SyncedState ==
  ASSUME NEW s, IsState(local[s])
  PROVE  IsState(Synced(s)) /\ Synced(s).user = db /\ IsState([Synced(s) EXCEPT !.panel = Closed])
         /\ [Synced(s) EXCEPT !.panel = Closed].user = db
<1>1. IsPanel(Requeried(local[s].panel, db))
  BY DEF IsState, IsPanel, Requeried
<1>2. IsPanel(Closed)
  BY DEF IsPanel, Closed
<1>3. IsState(Synced(s))
  BY <1>1, NewState DEF Synced
<1>4. Synced(s).user = db
  BY DEF Synced
<1> QED  BY <1>2, <1>3, <1>4, NewPanel

LEMMA ReloadKeeps == ASSUME IInv, NEW s \in Sessions, Reload(s) PROVE IInv'
<1> USE DEF Reload
<1>1. /\ local'[s] = Synced(s) /\ pc'[s] = "execute" /\ reply'[s] = reply[s]
      /\ call'[s] = [call[s] EXCEPT !.base = db.revision]
  BY DEF IInv, Maps
<1>2. IsState(local[s]) /\ IsState(call[s].before) /\ Recorded(call[s].before.user) /\ IsCall(call[s])
  BY DEF IInv, SessionOK, InCall
<1>3. IsState(local'[s]) /\ local'[s].user = db
  BY <1>1, <1>2, SyncedState
<1>4. Recorded(db)
  BY DatabaseRecorded DEF IInv
<1>5. /\ call'[s].before = call[s].before /\ call'[s].base = db.revision
      /\ IsCall(call'[s])
  BY <1>1, <1>2 DEF IsCall
<1>6. Recorded(local[s].user)' /\ Recorded(call[s].before.user)'
  BY <1>2, <1>3, <1>4, <1>5 DEF Recorded, At
<1>7. db.revision \in 0..db.revision
  BY DEF IInv, History, LogComplete
<1>8. SessionOK(s)'
  BY <1>1, <1>2, <1>3, <1>5, <1>6, <1>7
     DEF IInv, SessionOK, InCall, Saves, Recorded, At
<1>9. Maps'
  BY DEF IInv, Maps, PCs
<1> QED  BY <1>8, <1>9, LocalStep DEF IInv, Maps, Kept

LEMMA DiscardKeeps == ASSUME IInv, NEW s \in Sessions, DiscardEvent(s) PROVE IInv'
<1> USE DEF DiscardEvent, Return
<1>1. /\ local'[s] = [Synced(s) EXCEPT !.panel = Closed] /\ pc'[s] = "idle"
      /\ reply'[s] = [status |-> "beep", text |-> NoText]
      /\ call'[s] = [call[s] EXCEPT !.base = db.revision]
  BY DEF IInv, Maps
<1>2. IsState(local[s]) /\ IsCall(call[s])
  BY DEF IInv, SessionOK, InCall
<1>3. IsState(local'[s]) /\ local'[s].user = db
  BY <1>1, <1>2, SyncedState
<1>4. Recorded(db)
  BY DatabaseRecorded DEF IInv
<1>5. call'[s].base = db.revision /\ IsCall(call'[s])
  BY <1>1, <1>2 DEF IsCall
<1>6. Recorded(local[s].user)'
  BY <1>3, <1>4 DEF Recorded, At
<1>7. db.revision \in 0..db.revision
  BY DEF IInv, History, LogComplete
<1>8. SessionOK(s)'
  BY <1>1, <1>3, <1>5, <1>6, <1>7 DEF SessionOK, InCall, Saves, Recorded, At, Statuses
<1>9. Maps'
  BY DEF IInv, Maps, PCs
<1> QED  BY <1>8, <1>9, LocalStep DEF IInv, Maps, Kept

-----------------------------------------------------------------------------
(* Executing an operation touches the panel and the list of changes. *)

LEMMA DoneKeeps ==
  ASSUME IInv, NEW s \in Sessions, pc[s] = "execute",
         NEW panel, IsPanel(panel), NEW text, Done(s, panel, text)
  PROVE  IInv'
<1> USE DEF Done, Return
<1>1. /\ local'[s] = [local[s] EXCEPT !.panel = panel] /\ pc'[s] = "idle"
      /\ reply'[s] = [status |-> "ok", text |-> text] /\ call'[s] = call[s]
  BY DEF IInv, Maps
<1>2. IsState(local[s]) /\ Recorded(local[s].user)
  BY DEF IInv, SessionOK
<1>3. IsState(local'[s]) /\ local'[s].user = local[s].user
  BY <1>1, <1>2, NewPanel
<1>4. Recorded(local[s].user)'
  BY <1>2, <1>3 DEF Recorded, At
<1>5. SessionOK(s)'
  BY <1>1, <1>3, <1>4 DEF IInv, SessionOK, InCall, Saves, Recorded, At, Statuses
<1>6. Maps'
  BY DEF IInv, Maps, PCs
<1> QED  BY <1>5, <1>6, LocalStep DEF IInv, Maps, Kept

LEMMA AskKeeps ==
  ASSUME IInv, NEW s \in Sessions, pc[s] = "execute",
         NEW panel, IsPanel(panel), NEW changes, NEW text, Ask(s, panel, changes, text)
  PROVE  IInv'
<1>1. CASE changes = <<>>
  BY <1>1, DoneKeeps DEF Ask
<1>2. CASE changes # <<>> /\ changes \notin Seq(Change)
  BY <1>2, ErrorKeeps DEF Ask, InCall, Statuses
<1>3. CASE changes # <<>> /\ changes \in Seq(Change)
  <2>1. /\ local' = [local EXCEPT ![s].panel = panel]
        /\ pc' = [pc EXCEPT ![s] = "save"]
        /\ call' = [call EXCEPT ![s].changes = changes, ![s].text = text]
        /\ UNCHANGED <<db, reply, calls, log>>
    BY <1>3 DEF Ask
  <2>2. /\ local'[s] = [local[s] EXCEPT !.panel = panel] /\ pc'[s] = "save"
        /\ call'[s] = [call[s] EXCEPT !.changes = changes, !.text = text]
        /\ reply'[s] = reply[s]
    BY <2>1 DEF IInv, Maps
  <2>3. /\ IsState(local[s]) /\ Recorded(local[s].user) /\ IsCall(call[s])
        /\ IsState(call[s].before) /\ Recorded(call[s].before.user)
        /\ local[s].user.revision = call[s].base
    BY DEF IInv, SessionOK, InCall
  <2>4. IsState(local'[s]) /\ local'[s].user = local[s].user
    BY <2>2, <2>3, NewPanel
  <2>5. /\ IsCall(call'[s]) /\ call'[s].changes = changes
        /\ call'[s].before = call[s].before /\ call'[s].base = call[s].base
    BY <2>2, <2>3 DEF IsCall
  <2>6. Recorded(local[s].user)' /\ Recorded(call[s].before.user)'
    BY <2>1, <2>3, <2>4, <2>5 DEF Recorded, At
  <2>7. SessionOK(s)'
    BY <1>3, <2>1, <2>2, <2>3, <2>4, <2>5, <2>6
       DEF IInv, SessionOK, InCall, Saves, Recorded, At
  <2>8. Maps'
    BY <2>1 DEF IInv, Maps, PCs
  <2> QED  BY <2>1, <2>7, <2>8, LocalStep DEF IInv, Maps, Kept
<1> QED  BY <1>1, <1>2, <1>3

LEMMA ExecuteKeeps == ASSUME IInv, NEW s \in Sessions, Execute(s) PROVE IInv'
<1> DEFINE panel == local[s].panel
<1>1. pc[s] = "execute"
  BY DEF Execute, Executes, Lookup, MoveHighlight, Select, SelectOutside, FinishComposition,
         ResetLearning, ResetMethodLearning, AddUserPhrase, UpdateUserPhrase,
         RemoveUserPhrase, ReplaceUserPhrases, ImportUserData
<1>2. IsPanel(panel) /\ IsPanel(Closed)
  <2>1. IsState(local[s])
    BY <1>1 DEF IInv, SessionOK
  <2>2. IsPanel(panel)
    BY <2>1 DEF IsState
  <2> QED  BY <2>2 DEF IsPanel, Closed
<1>3. InCall(s) /\ "invalid" \in Statuses
  BY <1>1 DEF InCall, Statuses
<1>4. CASE Lookup(s)
  <2>1. IsPanel([list |-> Candidates(local[s].user), at |-> 1])
    BY DEF IsPanel
  <2> QED  BY <1>1, <1>4, <2>1, DoneKeeps DEF Lookup
<1>5. CASE MoveHighlight(s)
  <2>1. ASSUME NEW i \in Nat \ {0} PROVE IsPanel([panel EXCEPT !.at = i])
    <3>1. [panel EXCEPT !.at = i] = [list |-> panel.list, at |-> i]
      BY <1>2 DEF IsPanel
    <3> QED  BY <3>1 DEF IsPanel
  <2>2. PICK next : next \in {panel, [panel EXCEPT !.at = panel.at + call[s].op.delta]}
                    /\ IsPanel(next) /\ Done(s, next, NoText)
    BY <1>2, <1>5, <2>1 DEF MoveHighlight
  <2> QED  BY <1>1, <2>2, DoneKeeps
<1>6. CASE Select(s)
  BY <1>1, <1>2, <1>6, DoneKeeps, AskKeeps DEF Select
<1>7. CASE SelectOutside(s)
  BY <1>3, <1>7, ErrorKeeps DEF SelectOutside
<1>8. CASE FinishComposition(s)
  BY <1>1, <1>2, <1>8, DoneKeeps DEF FinishComposition
<1>9. CASE ResetLearning(s)
  BY <1>1, <1>2, <1>9, AskKeeps DEF ResetLearning
<1>10. CASE ResetMethodLearning(s)
  BY <1>1, <1>2, <1>3, <1>10, AskKeeps, ErrorKeeps DEF ResetMethodLearning
<1>11. CASE AddUserPhrase(s)
  BY <1>1, <1>2, <1>11, DoneKeeps, AskKeeps DEF AddUserPhrase
<1>12. CASE UpdateUserPhrase(s)
  BY <1>1, <1>2, <1>3, <1>12, DoneKeeps, AskKeeps, ErrorKeeps DEF UpdateUserPhrase
<1>13. CASE RemoveUserPhrase(s)
  BY <1>1, <1>2, <1>13, AskKeeps DEF RemoveUserPhrase
<1>14. CASE ReplaceUserPhrases(s)
  BY <1>1, <1>2, <1>3, <1>14, DoneKeeps, AskKeeps, ErrorKeeps DEF ReplaceUserPhrases
<1>15. CASE ImportUserData(s)
  BY <1>1, <1>2, <1>3, <1>15, AskKeeps, ErrorKeeps DEF ImportUserData
<1> QED
  BY <1>4, <1>5, <1>6, <1>7, <1>8, <1>9, <1>10, <1>11, <1>12, <1>13, <1>14, <1>15 DEF Execute

-----------------------------------------------------------------------------
(* Saving. *)

LEMMA SavedState ==
  ASSUME NEW s, IsState(local[s]), NEW data
  PROVE  IsState(AfterSave(s, data)) /\ AfterSave(s, data).user = data
BY NewState DEF AfterSave, IsState

(* Given up or tried again: the session takes the committed snapshot. *)
LEMMA StaleKeeps ==
  ASSUME IInv, NEW s \in Sessions, DropLearning(s) \/ Retry(s)
  PROVE  IInv'
<1>1. /\ Saves(s) /\ local' = [local EXCEPT ![s] = AfterSave(s, db)]
      /\ UNCHANGED <<db, call, calls, log>>
  BY DEF DropLearning, Retry, Saving, Saves
<1>2. local'[s] = AfterSave(s, db) /\ call'[s] = call[s]
  BY <1>1 DEF IInv, Maps
<1>3. IsState(local[s]) /\ IsState(call[s].before) /\ Recorded(call[s].before.user)
  BY <1>1 DEF IInv, SessionOK, Saves, InCall
<1>4. IsState(local'[s]) /\ local'[s].user = db
  BY <1>2, <1>3, SavedState
<1>5. Recorded(db)
  BY DatabaseRecorded DEF IInv
<1>6. Recorded(local[s].user)' /\ Recorded(call[s].before.user)'
  BY <1>1, <1>2, <1>3, <1>4, <1>5 DEF Recorded, At
<1>7. /\ pc'[s] \in {"idle", "retry"}
      /\ pc'[s] = "retry" => ~IsLearning(call[s].changes)
      /\ reply'[s].status \in Statuses
  BY DEF IInv, Maps, DropLearning, Retry, Return, SessionOK, Statuses
<1>8. SessionOK(s)'
  BY <1>1, <1>2, <1>3, <1>4, <1>6, <1>7 DEF IInv, SessionOK, Saves, InCall, Recorded, At
<1>9. Maps'
  BY <1>1 DEF IInv, Maps, PCs, DropLearning, Retry, Return
<1>10. \A t \in Sessions \ {s} : Kept(t)
  BY <1>1 DEF IInv, Maps, Kept, DropLearning, Retry, Return
<1> QED  BY <1>1, <1>8, <1>9, <1>10, LocalStep

(* A commit appends one revision to the log and leaves the others. *)
LEMMA SaveAppends ==
  ASSUME IInv, NEW s \in Sessions, Save(s), NEW n, n = db.revision
  PROVE  /\ db'.revision = n + 1
         /\ db'.generation \in Nat /\ db'.generation >= db.generation
         /\ DOMAIN log' = 1..(n + 1)
         /\ \A r \in 1..n : log'[r] = log[r]
         /\ \A r \in 0..n : At(r)' = At(r)
         /\ At(n + 1)' = db'
         /\ log'[n + 1].changes = call[s].changes
         /\ log'[n + 1].base = call[s].base
         /\ IsResetAt(n + 1)' => db'.generation > db.generation
<1>1. db.revision \in Nat /\ db.generation \in Nat
  BY DEF IInv, History, LogComplete, Generation
<1>2. call[s].changes \in Seq(Change) /\ call[s].changes # <<>>
  BY DEF IInv, SessionOK, Save, Saving, Saves
<1>3. db' = Preview(db, call[s].changes)
  BY DEF Save, Stored
<1>4. /\ db'.revision = db.revision + 1
      /\ db'.generation \in Nat /\ db'.generation >= db.generation
      /\ Resets(call[s].changes) # {} => db'.generation > db.generation
  BY <1>1, <1>2, <1>3, PreviewVersion
<1>5. log' = [r \in 1..db'.revision |->
               IF r = db'.revision
                 THEN [id |-> call[s].id, op |-> call[s].op, changes |-> call[s].changes,
                       base |-> call[s].base, after |-> db']
                 ELSE log[r]]
  BY <1>3 DEF Save, Stored
<1>6. /\ DOMAIN log' = 1..(db.revision + 1)
      /\ \A r \in 1..db.revision : log'[r] = log[r]
      /\ log'[db.revision + 1].changes = call[s].changes
      /\ log'[db.revision + 1].base = call[s].base
      /\ log'[db.revision + 1].after = db'
  BY <1>1, <1>4, <1>5
<1>7. \A r \in 0..db.revision : At(r)' = At(r)
  BY <1>1, <1>6 DEF At
<1>8. At(n + 1)' = db'
  BY <1>1, <1>6 DEF At
<1>9. IsResetAt(n + 1)' => db'.generation > db.generation
  BY <1>4, <1>6 DEF IsResetAt
<1> QED  BY <1>4, <1>6, <1>7, <1>8, <1>9

LEMMA SaveKeepsHistory == ASSUME IInv, NEW s \in Sessions, Save(s) PROVE History'
<1>0. PICK n \in Nat : n = db.revision
  BY DEF IInv, History, LogComplete
<1>1. /\ n \in Nat /\ db = At(n) /\ DOMAIN log = 1..n
      /\ \A r \in 0..n : At(r).revision = r /\ Generation(r) \in Nat
  BY <1>0 DEF IInv, History, LogComplete
<1>2. /\ db'.revision = n + 1 /\ db'.generation \in Nat /\ db'.generation >= Generation(n)
      /\ DOMAIN log' = 1..(n + 1)
      /\ \A r \in 1..n : log'[r] = log[r]
      /\ \A r \in 0..n : At(r)' = At(r)
      /\ At(n + 1)' = db'
      /\ log'[n + 1].changes = call[s].changes
      /\ log'[n + 1].base = call[s].base
      /\ IsResetAt(n + 1)' => db'.generation > Generation(n)
  BY <1>0, <1>1, SaveAppends DEF Generation
<1>3. /\ \A r \in 0..n : Generation(r)' = Generation(r)
      /\ Generation(n + 1)' = db'.generation
  BY <1>2 DEF Generation
<1>4. LogComplete'
  BY <1>1, <1>2, <1>3 DEF LogComplete
<1>5. LogOrdered'
  <2>1. /\ \A q, r \in 0..n : q <= r => Generation(q) <= Generation(r)
        /\ \A r \in 1..n : IsResetAt(r) => Generation(r - 1) < Generation(r)
    BY <1>0 DEF IInv, History, LogOrdered
  <2>2. ASSUME NEW q \in 0..(n + 1), NEW r \in 0..(n + 1), q <= r
        PROVE  Generation(q)' <= Generation(r)'
    BY <1>1, <1>2, <1>3, <2>1, <2>2
  <2>3. ASSUME NEW r \in 1..(n + 1), IsResetAt(r)'
        PROVE  Generation(r - 1)' < Generation(r)'
    <3>1. CASE r = n + 1
      BY <1>1, <1>2, <1>3, <2>3, <3>1
    <3>2. CASE r \in 1..n
      <4>1. log'[r] = log[r] /\ r \in 0..n /\ r - 1 \in 0..n
        BY <1>1, <1>2, <3>2
      <4>2. IsResetAt(r)
        BY <2>3, <4>1 DEF IsResetAt
      <4>3. Generation(r - 1)' = Generation(r - 1) /\ Generation(r)' = Generation(r)
        BY <1>2, <4>1 DEF Generation, At
      <4> QED  BY <2>1, <3>2, <4>2, <4>3
    <3> QED  BY <1>1, <3>1, <3>2
  <2> QED  BY <1>1, <1>2, <2>2, <2>3 DEF LogOrdered
<1>6. LogFaithful'
  <2>1. \A r \in 1..n : /\ log[r].base \in 0..(r - 1)
                        /\ IsLearning(log[r].changes) => Generation(log[r].base) = Generation(r - 1)
    BY <1>0 DEF IInv, History, LogFaithful
  <2>2. call[s].base \in 0..n
    BY <1>0 DEF IInv, SessionOK
  <2>3. ASSUME IsLearning(call[s].changes) PROVE Generation(call[s].base) = Generation(n)
    <3>1. pc[s] = "save" /\ local[s].user.generation = db.generation
      BY <2>3 DEF Save, Saving, SameGeneration, IInv, SessionOK
    <3>2. local[s].user = At(call[s].base)
      BY <3>1 DEF IInv, SessionOK, Recorded
    <3> QED  BY <1>1, <3>1, <3>2 DEF Generation
  <2>4. ASSUME NEW r \in 1..(n + 1)
        PROVE  /\ log'[r].base \in 0..(r - 1)
               /\ IsLearning(log'[r].changes) => Generation(log[r].base)' = Generation(r - 1)'
    <3>1. CASE r = n + 1
      <4>1. log'[r].base = call[s].base /\ log'[r].changes = call[s].changes /\ r - 1 = n
        BY <1>1, <1>2, <3>1
      <4>2. Generation(log[r].base)' = Generation(call[s].base) /\ Generation(r - 1)' = Generation(n)
        BY <1>1, <1>2, <2>2, <4>1 DEF Generation, At
      <4> QED  BY <1>1, <2>2, <2>3, <4>1, <4>2
    <3>2. CASE r \in 1..n
      <4>1. log'[r] = log[r] /\ log[r].base \in 0..n /\ r - 1 \in 0..n
        BY <1>1, <1>2, <2>1, <3>2
      <4>2. Generation(log[r].base)' = Generation(log[r].base) /\ Generation(r - 1)' = Generation(r - 1)
        BY <1>2, <4>1 DEF Generation, At
      <4> QED  BY <2>1, <3>2, <4>1, <4>2
    <3> QED  BY <1>1, <3>1, <3>2
  <2> QED  BY <1>1, <1>2, <2>4 DEF LogFaithful
<1> QED  BY <1>4, <1>5, <1>6 DEF History

(* The saving session holds the new revision; the others hold what they did. *)
LEMMA SaveKeeps == ASSUME IInv, NEW s \in Sessions, Save(s) PROVE IInv'
<1>0. PICK n \in Nat : n = db.revision
  BY DEF IInv, History, LogComplete
<1>1. /\ db'.revision = n + 1
      /\ \A r \in 0..n : At(r)' = At(r)
      /\ At(n + 1)' = db'
  BY <1>0, SaveAppends
<1>2. ASSUME NEW data, Recorded(data)
      PROVE  Recorded(data)'
  BY <1>0, <1>1, <1>2 DEF Recorded
<1>3. /\ Saves(s) /\ local' = [local EXCEPT ![s] = AfterSave(s, db')]
      /\ pc' = [pc EXCEPT ![s] = "idle"]
      /\ reply' = [reply EXCEPT ![s] = [status |-> "ok", text |-> call[s].text]]
      /\ UNCHANGED <<call, calls>>
  BY DEF Save, Saving, Saves, Return
<1>4. /\ local'[s] = AfterSave(s, db') /\ pc'[s] = "idle"
      /\ reply'[s] = [status |-> "ok", text |-> call[s].text]
  BY <1>3 DEF IInv, Maps
<1>5. SessionOK(s)'
  <2>1. IsState(local'[s]) /\ local'[s].user = db'
    BY <1>3, <1>4, SavedState DEF IInv, SessionOK, Saves
  <2>2. Recorded(local[s].user)'
    BY <1>0, <1>1, <2>1 DEF Recorded
  <2>3. IsCall(call[s]) /\ call[s].base \in 0..n
    BY <1>0 DEF IInv, SessionOK
  <2> QED
    BY <1>0, <1>1, <1>3, <1>4, <2>1, <2>2, <2>3 DEF SessionOK, InCall, Saves, Statuses
<1>6. ASSUME NEW t \in Sessions \ {s} PROVE SessionOK(t)'
  <2>1. /\ local'[t] = local[t] /\ pc'[t] = pc[t] /\ call'[t] = call[t] /\ reply'[t] = reply[t]
    BY <1>3 DEF IInv, Maps
  <2>2. SessionOK(t)
    BY DEF IInv
  <2>3. /\ Recorded(local[t].user) => Recorded(local[t].user)'
        /\ Recorded(call[t].before.user) => Recorded(call[t].before.user)'
    <3>1. /\ Recorded(local[t].user) => Recorded(local'[t].user)
          /\ Recorded(call[t].before.user) => Recorded(call'[t].before.user)
      BY <2>1
    <3> QED  BY <1>0, <1>1, <2>1 DEF Recorded
  <2>4. call[t].base \in 0..n => call[t].base \in 0..(n + 1)
    OBVIOUS
  <2> QED  BY <1>0, <1>1, <2>1, <2>2, <2>3, <2>4 DEF SessionOK, InCall, Saves
<1>7. Maps'
  BY <1>3 DEF IInv, Maps, PCs
<1> QED  BY <1>5, <1>6, <1>7, SaveKeepsHistory DEF IInv

LEMMA NextKeeps == ASSUME IInv, [Next]_vars PROVE IInv'
<1>1. CASE UNCHANGED vars
  <2>1. UNCHANGED <<db, local, pc, call, reply, calls, log>>
    BY <1>1 DEF vars
  <2>2. Maps'
    BY <2>1 DEF IInv, Maps
  <2>3. \A t \in Sessions : Kept(t)
    BY <2>1 DEF Kept
  <2> QED  BY <2>1, <2>2, <2>3, HistoryKept, OthersKept DEF IInv
<1>2. ASSUME NEW s \in Sessions, Continue(s) PROVE IInv'
  <2>1. ASSUME Conflict(s) PROVE IInv'
    BY <2>1, ErrorKeeps DEF Conflict, InCall, Statuses
  <2> QED  BY <1>2, <2>1, ReloadKeeps, DiscardKeeps, ExecuteKeeps, SaveKeeps, StaleKeeps DEF Continue
<1>3. ASSUME NEW s \in Sessions, StoreError(s) PROVE IInv'
  BY <1>3, ErrorKeeps DEF StoreError, InCall, Statuses
<1> QED  BY <1>1, <1>2, <1>3, OpenKeeps, CrashKeeps, BeginKeeps DEF Next

(* In every reachable state the log is the sequence of committed snapshots, *)
(* generations are ordered along it, and every session holds one of them.   *)
THEOREM Invariance == Spec => []IInv
<1>1. Init => IInv
  BY InitEstablishes
<1>2. IInv /\ [Next]_vars => IInv'
  BY NextKeeps
<1> QED  BY <1>1, <1>2, PTL DEF Spec

-----------------------------------------------------------------------------
(* The control state, the versions and the panels of the sessions keep      *)
(* their types, whatever apply interleaves with.                            *)
THEOREM TypeCorrect == Spec => []TypeOK
<1>1. IInv => TypeOK
  <2> SUFFICES ASSUME IInv PROVE TypeOK
    OBVIOUS
  <2>1. PICK n \in Nat : n = db.revision
    BY DEF IInv, History, LogComplete
  <2>2. db.generation \in Nat
    BY <2>1 DEF IInv, History, LogComplete, Generation
  <2>3. ASSUME NEW data, Recorded(data) PROVE data.generation \in Nat /\ data.revision \in Nat
    BY <2>1, <2>3 DEF IInv, History, LogComplete, Recorded, Generation
  <2>4. ASSUME NEW s \in Sessions, pc[s] # "closed"
        PROVE  /\ local[s].user.generation \in Nat /\ local[s].user.revision \in Nat
               /\ local[s].reload \in BOOLEAN /\ local[s].panel.at \in Nat \ {0}
    BY <2>3, <2>4 DEF IInv, SessionOK, IsState, IsPanel
  <2>5. ASSUME NEW s \in Sessions PROVE reply[s].status \in Statuses /\ call[s].base \in Nat
    BY <2>1, <2>5 DEF IInv, SessionOK
  <2> QED  BY <2>1, <2>2, <2>4, <2>5 DEF IInv, Maps, TypeOK
<1> QED  BY <1>1, Invariance, PTL

(* A session between calls that has the database's version has its content, *)
(* so sync_user_data may skip the reload: both are the same log entry.      *)
THEOREM VersionDeterminesContent == Spec => []VersionNamesContent
<1>1. IInv => VersionNamesContent
  BY DEF IInv, SessionOK, History, LogComplete, Recorded, Version, VersionNamesContent
<1> QED  BY <1>1, Invariance, PTL

(* No learning commit has a reset or an import between the snapshot it was  *)
(* made from and itself: the reset would have moved the generation.         *)
THEOREM LearningNeverUndoesReset == Spec => []NoLearningAcrossReset
<1>1. IInv => NoLearningAcrossReset
  <2> SUFFICES ASSUME IInv, NEW r \in DOMAIN log, IsLearning(log[r].changes),
                      NEW q \in DOMAIN log, q > log[r].base, q < r, IsResetAt(q)
               PROVE  FALSE
    BY DEF NoLearningAcrossReset
  <2>1. PICK n \in Nat : n = db.revision
    BY DEF IInv, History, LogComplete
  <2>2. DOMAIN log = 1..n /\ \A i \in 0..n : Generation(i) \in Nat
    BY <2>1 DEF IInv, History, LogComplete
  <2>3. log[r].base \in 0..(r - 1) /\ Generation(log[r].base) = Generation(r - 1)
    BY <2>1, <2>2 DEF IInv, History, LogFaithful
  <2>4. Generation(q - 1) < Generation(q)
    BY <2>1, <2>2 DEF IInv, History, LogOrdered
  <2>5. /\ log[r].base \in 0..n /\ r - 1 \in 0..n /\ q - 1 \in 0..n /\ q \in 0..n
        /\ log[r].base <= q - 1 /\ q <= r - 1
    BY <2>2, <2>3
  <2>6. Generation(log[r].base) <= Generation(q - 1) /\ Generation(q) <= Generation(r - 1)
    BY <2>1, <2>5 DEF IInv, History, LogOrdered
  <2> QED  BY <2>2, <2>3, <2>4, <2>5, <2>6
<1> QED  BY <1>1, Invariance, PTL

(* Only a commit changes the database. *)
LEMMA OnlySavesChangeDatabase ==
  ASSUME [Next]_vars
  PROVE  (\E s \in Sessions : Save(s)) \/ UNCHANGED db
<1>1. ASSUME NEW s \in Sessions, Execute(s) PROVE UNCHANGED db
  <2>1. \A panel, text : Done(s, panel, text) => UNCHANGED db
    BY DEF Done
  <2>2. \A status : ReturnError(s, status) => UNCHANGED db
    BY DEF ReturnError
  <2>3. \A panel, changes, text : Ask(s, panel, changes, text) => UNCHANGED db
    BY <2>1, <2>2 DEF Ask
  <2>4. CASE Lookup(s) \/ MoveHighlight(s) \/ Select(s) \/ SelectOutside(s)
             \/ FinishComposition(s)
    BY <2>1, <2>2, <2>3, <2>4
       DEF Lookup, MoveHighlight, Select, SelectOutside, FinishComposition
  <2>5. CASE ResetLearning(s) \/ ResetMethodLearning(s) \/ ImportUserData(s)
    BY <2>2, <2>3, <2>5 DEF ResetLearning, ResetMethodLearning, ImportUserData
  <2>6. CASE AddUserPhrase(s) \/ UpdateUserPhrase(s) \/ RemoveUserPhrase(s)
             \/ ReplaceUserPhrases(s)
    BY <2>1, <2>2, <2>3, <2>6
       DEF AddUserPhrase, UpdateUserPhrase, RemoveUserPhrase, ReplaceUserPhrases
  <2> QED  BY <1>1, <2>4, <2>5, <2>6 DEF Execute
<1> QED
  BY <1>1 DEF vars, Next, Open, Crash, Begin, Continue, Reload, DiscardEvent, StoreError,
              ReturnError, DropLearning, Retry, Conflict

(* A step changes the database only by a commit, which raises the revision  *)
(* and never lowers the generation.                                         *)
THEOREM VersionMonotone == Spec => VersionGrows
<1> DEFINE Grows == /\ db'.generation >= db.generation /\ db'.revision >= db.revision
                    /\ db' # db => db'.revision > db.revision
<1>1. IInv /\ [Next]_vars => [Grows]_vars
  <2> SUFFICES ASSUME IInv, Next PROVE Grows
    OBVIOUS
  <2>1. db.revision \in Nat /\ db.generation \in Nat
    BY DEF IInv, History, LogComplete, Generation
  <2>2. CASE UNCHANGED db
    BY <2>1, <2>2
  <2>3. ASSUME NEW s \in Sessions, Save(s) PROVE Grows
    BY <2>1, <2>3, SaveAppends
  <2> QED  BY <2>2, <2>3, OnlySavesChangeDatabase
<1> QED  BY <1>1, Invariance, PTL DEF Spec, VersionGrows

-----------------------------------------------------------------------------
Database == INSTANCE UserDatabase WITH saved <- db, Lists <- Seq(Change) \ {<<>>}

(* Whatever the sessions do, crash or retry, the database goes from one     *)
(* snapshot to its preview by one whole, well-formed list of changes, so    *)
(* what holds of UserDatabase holds of a database the sessions share.       *)
THEOREM SessionsImplementDatabase == Spec => Database!Spec
<1>1. Init => Database!Init
  BY DEF Init, Database!Init
<1>2. IInv /\ [Next]_vars => [Database!Next]_db
  <2> SUFFICES ASSUME IInv, [Next]_vars PROVE Database!Next \/ UNCHANGED db
    OBVIOUS
  <2>1. CASE UNCHANGED db
    BY <2>1
  <2>2. ASSUME NEW s \in Sessions, Save(s) PROVE Database!Next
    <3>1. call[s].changes \in Seq(Change) \ {<<>>}
      BY <2>2 DEF IInv, SessionOK, Save, Saving, Saves
    <3>2. db' = Preview(db, call[s].changes)
      BY <2>2 DEF Save, Stored
    <3> QED  BY <3>1, <3>2 DEF Database!Next, Database!Commit
  <2> QED  BY <2>1, <2>2, OnlySavesChangeDatabase
<1> QED  BY <1>1, <1>2, Invariance, PTL DEF Spec, Database!Spec

-----------------------------------------------------------------------------
(***************************************************************************)
(* What a call of InputSession::apply promises its caller: it is in the    *)
(* database once or not at all, a selection commits what was shown,        *)
(* nothing is refused without a reset, and a session that need not reload  *)
(* shows the panel its data give.  CallOK says what each control point of  *)
(* apply may rely on for that; LogMoves, that only a reset or an import    *)
(* moves the generation.                                                   *)
(***************************************************************************)

NotCommitted(id) == \A r \in DOMAIN log : log[r].id # id
CommittedOnce(id) ==
  \E r \in DOMAIN log : log[r].id = id /\ \A q \in DOMAIN log : log[q].id = id => q = r

LogMoves ==
  \A q, r \in 0..db.revision : q <= r /\ Generation(q) # Generation(r) =>
    \E i \in (q + 1)..r : IsResetAt(i)

(* Calls have numbers of their own, also in the log. *)
Numbered ==
  /\ \A s \in Sessions : call[s].id \in 0..calls
  /\ \A s, t \in Sessions : s # t /\ call[s].id = call[t].id => call[s].id = 0
  /\ \A r \in DOMAIN log : log[r].id \in 1..calls

Settled(l) ==
  ~l.reload => l.model = l.user /\ (IsOpen(l.panel) => l.panel.list = Candidates(l.user))
SettledOK(s) ==
  /\ pc[s] # "closed" => Settled(local[s])
  /\ InCall(s) => Settled(call[s].before)

ShownOK(s) ==
  call[s].op.type = "select" =>
    LET shown == call[s].before.panel.list[call[s].op.index]
    IN  /\ pc[s] \in {"reload", "execute"} => local[s].panel = call[s].before.panel
        /\ Saves(s) => call[s].text = shown
        /\ Answered(s) /\ reply[s].text # NoText => reply[s].text = shown

OnceOK(s) ==
  /\ pc[s] \in {"reload", "execute"} => call[s].changes = <<>>
  /\ InCall(s) => call[s].id # 0 /\ NotCommitted(call[s].id)
  /\ Answered(s) =>
       IF reply[s].status = "ok" /\ call[s].changes # <<>>
       THEN CommittedOnce(call[s].id) ELSE NotCommitted(call[s].id)
  /\ Answered(s) /\ reply[s].status \in {"invalid", "conflict", "failed"} =>
       local[s] = call[s].before /\ reply[s].text = NoText

RefusedOK(s) ==
  /\ pc[s] = "retry" =>
       \E r \in DOMAIN log : call[s].base < r /\ r <= local[s].user.revision /\ IsResetAt(r)
  /\ Answered(s) /\ reply[s].status = "dropped" =>
       \E r \in DOMAIN log : call[s].base < r /\ IsResetAt(r)
  /\ Answered(s) /\ reply[s].status = "conflict" =>
       \E q, r \in DOMAIN log : call[s].base < q /\ q < r /\ IsResetAt(q) /\ IsResetAt(r)

CallOK(s) ==
  /\ pc[s] = "closed" => reply[s] = NoReply
  /\ SettledOK(s) /\ ShownOK(s) /\ OnceOK(s) /\ RefusedOK(s)

CInv == IInv /\ LogMoves /\ Numbered /\ \A s \in Sessions : CallOK(s)
-----------------------------------------------------------------------------
(* Steps that leave the database alone. *)

LEMMA InitCalls == Init => CInv
<1> SUFFICES ASSUME Init PROVE CInv
  OBVIOUS
<1>1. IInv /\ DOMAIN log = {}
  BY InitEstablishes DEF Init
<1>2. db.revision = 0
  BY DEF Init, EmptySnapshot
<1>3. LogMoves
  BY <1>2 DEF LogMoves
<1>4. Numbered
  BY <1>1 DEF Init, Numbered, NoCall
<1>5. ASSUME NEW s \in Sessions PROVE CallOK(s)
  <2>1. pc[s] = "closed" /\ call[s] = NoCall /\ reply[s] = NoReply
    BY DEF Init
  <2>2. call[s].op.type = "none"
    BY <2>1 DEF NoCall
  <2> QED
    BY <2>1, <2>2 DEF CallOK, SettledOK, ShownOK, OnceOK, RefusedOK, InCall, Answered
<1> QED  BY <1>1, <1>3, <1>4, <1>5 DEF CInv

LEMMA KeptCall ==
  ASSUME UNCHANGED <<db, log>>, NEW t \in Sessions, CallOK(t), Kept(t)
  PROVE  CallOK(t)'
<1> USE DEF Kept
<1>1. CallOK(t) => SettledOK(t)' /\ ShownOK(t)'
  BY DEF CallOK, SettledOK, ShownOK, InCall, Saves, Answered
<1>2. OnceOK(t)'
  BY DEF CallOK, OnceOK, InCall, Answered, NotCommitted, CommittedOnce
<1>3. RefusedOK(t)'
  BY DEF CallOK, RefusedOK, Answered, IsResetAt
<1> QED  BY <1>1, <1>2, <1>3 DEF CallOK

LEMMA QuietStep ==
  ASSUME CInv, IInv', UNCHANGED <<db, log>>, NEW s \in Sessions, CallOK(s)',
         \A t \in Sessions \ {s} : Kept(t),
         calls' \in {calls, calls + 1},
         \/ call'[s].id \in {0, call[s].id}
         \/ call'[s].id = calls' /\ calls' = calls + 1
  PROVE  CInv'
<1>1. LogMoves'
  BY DEF CInv, LogMoves, Generation, At, IsResetAt
<1>2. Numbered'
  <2>1. calls \in Nat /\ Numbered
    BY DEF CInv, IInv, Maps
  <2>2. \A t \in Sessions \ {s} : call'[t] = call[t]
    BY DEF Kept
  <2> QED  BY <2>1, <2>2 DEF Numbered
<1>3. \A t \in Sessions : CallOK(t)'
  BY KeptCall DEF CInv
<1> QED  BY <1>1, <1>2, <1>3 DEF CInv

LEMMA OpenCalls == ASSUME CInv, NEW s \in Sessions, Open(s) PROVE CInv'
<1> USE DEF Open
<1>1. Maps
  BY DEF CInv, IInv
<1>2. local'[s] = [user |-> db, reload |-> FALSE, model |-> db, panel |-> Closed]
      /\ pc'[s] = "idle" /\ UNCHANGED <<db, call, reply, calls, log>>
  BY <1>1 DEF Maps
<1>3. CallOK(s) /\ pc[s] = "closed"
  BY DEF CInv
<1>4. reply'[s].status = "none"
  BY <1>2, <1>3 DEF CallOK, NoReply
<1>5. Settled(local'[s])
  BY <1>2 DEF Settled, IsOpen, Closed
<1>6. CallOK(s)'
  BY <1>2, <1>4, <1>5
     DEF CallOK, SettledOK, Settled, ShownOK, OnceOK, RefusedOK, InCall, Saves, Answered
<1>7. \A t \in Sessions \ {s} : Kept(t)
  BY <1>1 DEF Maps, Kept
<1>8. IInv' /\ calls' = calls /\ call'[s].id = call[s].id /\ UNCHANGED <<db, log>>
  BY <1>2, OpenKeeps DEF CInv
<1> QED  BY <1>2, <1>6, <1>7, <1>8, QuietStep

LEMMA CrashCalls == ASSUME CInv, NEW s \in Sessions, Crash(s) PROVE CInv'
<1> USE DEF Crash
<1>1. Maps
  BY DEF CInv, IInv
<1>2. pc'[s] = "closed" /\ call'[s] = NoCall /\ reply'[s] = NoReply /\ UNCHANGED <<db, calls, log>>
  BY <1>1 DEF Maps
<1>3. call'[s].op.type = "none" /\ call'[s].id = 0
  BY <1>2 DEF NoCall
<1>4. CallOK(s)'
  BY <1>2, <1>3 DEF CallOK, SettledOK, ShownOK, OnceOK, RefusedOK, InCall, Saves, Answered
<1>5. \A t \in Sessions \ {s} : Kept(t)
  BY <1>1 DEF Maps, Kept
<1>6. IInv' /\ UNCHANGED <<db, log>>
  BY <1>2, CrashKeeps DEF CInv
<1> QED  BY <1>2, <1>3, <1>4, <1>5, <1>6, QuietStep

LEMMA BeginCalls ==
  ASSUME CInv, NEW s \in Sessions, NEW o \in Operations, Begin(s, o) PROVE CInv'
<1> USE DEF Begin
<1>1. Maps /\ calls \in Nat
  BY DEF CInv, IInv, Maps
<1>2. /\ local'[s] = local[s] /\ reply'[s] = NoReply
      /\ call'[s] = [id |-> calls + 1, op |-> o, changes |-> <<>>, text |-> NoText,
                     before |-> local[s], base |-> local[s].user.revision]
      /\ pc[s] = "idle" /\ pc'[s] \in {"reload", "execute"}
      /\ calls' = calls + 1 /\ UNCHANGED <<db, log>>
  BY <1>1 DEF Maps
<1>3. Settled(local[s])
  BY <1>2 DEF CInv, CallOK, SettledOK
<1>4. /\ call'[s].id = calls + 1 /\ call'[s].before = local[s]
      /\ call'[s].changes = <<>>
  BY <1>2
<1>5. NotCommitted(calls + 1)
  BY <1>1 DEF CInv, Numbered, NotCommitted
<1>6. NotCommitted(call[s].id)' /\ call'[s].id # 0
  BY <1>1, <1>2, <1>4, <1>5 DEF NotCommitted
<1>7. SettledOK(s)' /\ ShownOK(s)'
  BY <1>2, <1>3, <1>4 DEF SettledOK, Settled, ShownOK, InCall, Saves, Answered
<1>8. OnceOK(s)' /\ RefusedOK(s)'
  BY <1>2, <1>4, <1>6 DEF OnceOK, RefusedOK, InCall, Answered
<1>9. \A t \in Sessions \ {s} : Kept(t)
  BY <1>1 DEF Maps, Kept
<1> QED  BY <1>2, <1>4, <1>7, <1>8, <1>9, BeginKeeps, QuietStep DEF CInv, CallOK

(* A failed call has written nothing, and gives back what it began with. *)
LEMMA ErrorCalls ==
  ASSUME CInv, NEW s \in Sessions, InCall(s), NEW status \in {"invalid", "conflict", "failed"},
         status = "conflict" =>
           \E q, r \in DOMAIN log : call[s].base < q /\ q < r /\ IsResetAt(q) /\ IsResetAt(r),
         ReturnError(s, status)
  PROVE  CInv'
<1> USE DEF ReturnError, Return
<1>1. Maps
  BY DEF CInv, IInv
<1>2. /\ local'[s] = call[s].before /\ call'[s] = call[s] /\ pc'[s] = "idle"
      /\ reply'[s] = [status |-> status, text |-> NoText]
      /\ db' = db /\ log' = log /\ calls' = calls
  BY <1>1 DEF Maps
<1>3. CallOK(s)
  BY DEF CInv
<1>4. reply'[s].status = status /\ reply'[s].text = NoText
  BY <1>2
<1>5. SettledOK(s)' /\ ShownOK(s)'
  BY <1>2, <1>3, <1>4 DEF CallOK, SettledOK, Settled, ShownOK, InCall, Saves, Answered
<1>6. OnceOK(s)'
  BY <1>2, <1>3, <1>4 DEF CallOK, OnceOK, InCall, Answered, NotCommitted
<1>7. RefusedOK(s)'
  BY <1>2, <1>3, <1>4 DEF CallOK, RefusedOK, Answered, IsResetAt
<1>8. CallOK(s)'
  BY <1>2, <1>5, <1>6, <1>7 DEF CallOK
<1>9. \A t \in Sessions \ {s} : Kept(t)
  BY <1>1 DEF Maps, Kept
<1>10. IInv' /\ UNCHANGED <<db, log>> /\ call'[s].id = call[s].id /\ calls' = calls
  <2>1. status \in Statuses
    BY DEF Statuses
  <2> QED  BY <1>2, <2>1, ErrorKeeps DEF CInv
<1> QED  BY <1>8, <1>9, <1>10, QuietStep

(* The reload keeps the panel the operation is about, or the event is       *)
(* discarded.                                                               *)
LEMMA SyncedSettled ==
  ASSUME NEW s
  PROVE  Settled(Synced(s)) /\ Settled([Synced(s) EXCEPT !.panel = Closed])
BY DEF Settled, Synced, Requeried, IsOpen, Closed

LEMMA ReloadCalls == ASSUME CInv, NEW s \in Sessions, Reload(s) PROVE CInv'
<1> USE DEF Reload
<1>1. Maps
  BY DEF CInv, IInv
<1>2. /\ local'[s] = Synced(s) /\ pc[s] = "reload" /\ pc'[s] = "execute" /\ reply'[s] = reply[s]
      /\ call'[s] = [call[s] EXCEPT !.base = db.revision]
      /\ db' = db /\ log' = log /\ calls' = calls
  BY <1>1 DEF Maps
<1>3. CallOK(s) /\ IsCall(call[s])
  BY DEF CInv, IInv, SessionOK
<1>4. /\ call'[s].id = call[s].id /\ call'[s].op = call[s].op /\ call'[s].changes = call[s].changes
      /\ call'[s].text = call[s].text /\ call'[s].before = call[s].before
  BY <1>2, <1>3 DEF IsCall
<1>5. SettledOK(s)'
  <2>1. Settled(local'[s])
    BY <1>2, SyncedSettled
  <2> QED  BY <1>2, <1>3, <1>4, <2>1 DEF CallOK, SettledOK, Settled, InCall
<1>6. ASSUME call[s].op.type = "select" PROVE local'[s].panel = local[s].panel
  <2>1. Synced(s).panel = Requeried(local[s].panel, db)
    BY DEF Synced
  <2>2. ~ViewChanged(s)
    BY <1>6 DEF PanelEvents
  <2> QED  BY <1>2, <2>1, <2>2 DEF ViewChanged, Requeried
<1>7. ShownOK(s)'
  BY <1>2, <1>3, <1>4, <1>6 DEF CallOK, ShownOK, InCall, Saves, Answered
<1>8. OnceOK(s)'
  BY <1>2, <1>3, <1>4 DEF CallOK, OnceOK, InCall, Answered, NotCommitted
<1>9. RefusedOK(s)'
  BY <1>2 DEF RefusedOK, Answered
<1>10. CallOK(s)'
  BY <1>2, <1>5, <1>7, <1>8, <1>9 DEF CallOK
<1>11. \A t \in Sessions \ {s} : Kept(t)
  BY <1>1 DEF Maps, Kept
<1>12. IInv' /\ UNCHANGED <<db, log>>
  BY <1>2, ReloadKeeps DEF CInv
<1> QED  BY <1>2, <1>4, <1>10, <1>11, <1>12, QuietStep

LEMMA DiscardCalls == ASSUME CInv, NEW s \in Sessions, DiscardEvent(s) PROVE CInv'
<1> USE DEF DiscardEvent, Return
<1>1. Maps
  BY DEF CInv, IInv
<1>2. /\ local'[s] = [Synced(s) EXCEPT !.panel = Closed] /\ pc[s] = "reload" /\ pc'[s] = "idle"
      /\ reply'[s] = [status |-> "beep", text |-> NoText]
      /\ call'[s] = [call[s] EXCEPT !.base = db.revision]
      /\ db' = db /\ log' = log /\ calls' = calls
  BY <1>1 DEF Maps
<1>3. CallOK(s) /\ IsCall(call[s])
  BY DEF CInv, IInv, SessionOK, InCall
<1>4. /\ call'[s].id = call[s].id /\ call'[s].op = call[s].op /\ call'[s].changes = call[s].changes
      /\ call'[s].text = call[s].text /\ call'[s].before = call[s].before
      /\ reply'[s].status = "beep" /\ reply'[s].text = NoText
  BY <1>2, <1>3 DEF IsCall
<1>5. SettledOK(s)' /\ ShownOK(s)'
  <2>1. Settled(local'[s])
    BY <1>2, SyncedSettled
  <2> QED  BY <1>2, <1>4, <2>1 DEF SettledOK, Settled, ShownOK, InCall, Saves, Answered
<1>6. OnceOK(s)'
  BY <1>2, <1>3, <1>4 DEF CallOK, OnceOK, InCall, Answered, NotCommitted
<1>7. RefusedOK(s)'
  BY <1>2, <1>4 DEF RefusedOK, Answered
<1>8. CallOK(s)'
  BY <1>2, <1>5, <1>6, <1>7 DEF CallOK
<1>9. \A t \in Sessions \ {s} : Kept(t)
  BY <1>1 DEF Maps, Kept
<1>10. IInv' /\ UNCHANGED <<db, log>>
  BY <1>2, DiscardKeeps DEF CInv
<1> QED  BY <1>2, <1>4, <1>8, <1>9, <1>10, QuietStep
-----------------------------------------------------------------------------
(* Executing: the panel is closed, left as it is or listed from the data    *)
(* the session holds, and a selection answers with what the panel lists.    *)

Fits(s, panel, text) ==
  /\ IsPanel(panel)
  /\ panel.list \in {<<>>, local[s].panel.list, Candidates(local[s].user)}
  /\ call[s].op.type = "select" => text = local[s].panel.list[call[s].op.index]

Asked(s, panel, changes, text) ==
  /\ changes \in Seq(Change) /\ changes # <<>>
  /\ Ask(s, panel, changes, text)

Executed(s) ==
  \/ \E panel, text : Fits(s, panel, text) /\ Done(s, panel, text)
  \/ \E panel, changes, text : Fits(s, panel, text) /\ Asked(s, panel, changes, text)
  \/ ReturnError(s, "invalid")

LEMMA AskExecuted ==
  ASSUME NEW s, NEW panel, NEW changes, NEW text, Fits(s, panel, text), Ask(s, panel, changes, text)
  PROVE  Executed(s)
<1>1. CASE changes = <<>>
  BY <1>1 DEF Ask, Executed
<1>2. CASE changes # <<>> /\ changes \in Seq(Change)
  BY <1>2 DEF Asked, Executed
<1>3. CASE changes # <<>> /\ changes \notin Seq(Change)
  BY <1>3 DEF Ask, Executed
<1> QED  BY <1>1, <1>2, <1>3

LEMMA ExecuteShape ==
  ASSUME IInv, NEW s \in Sessions, Execute(s)
  PROVE  pc[s] = "execute" /\ Executed(s)
<1> DEFINE panel == local[s].panel
<1>1. pc[s] = "execute"
  BY DEF Execute, Executes, Lookup, MoveHighlight, Select, SelectOutside, FinishComposition,
         ResetLearning, ResetMethodLearning, AddUserPhrase, UpdateUserPhrase,
         RemoveUserPhrase, ReplaceUserPhrases, ImportUserData
<1>2. IsPanel(panel) /\ IsPanel(Closed) /\ Closed.list = <<>>
  <2>1. IsState(local[s])
    BY <1>1 DEF IInv, SessionOK
  <2>2. IsPanel(panel)
    BY <2>1 DEF IsState
  <2> QED  BY <2>2 DEF IsPanel, Closed
<1>3. ASSUME call[s].op.type # "select", NEW text
      PROVE  Fits(s, panel, text) /\ Fits(s, Closed, text)
  BY <1>2, <1>3 DEF Fits
<1>4. ASSUME NEW next, NEW text, Fits(s, next, text)
      PROVE  /\ Done(s, next, text) => Executed(s)
             /\ \A changes : Ask(s, next, changes, text) => Executed(s)
  BY <1>4, AskExecuted DEF Executed
<1>5. ReturnError(s, "invalid") => Executed(s)
  BY DEF Executed
<1>6. CASE Lookup(s)
  <2>1. Fits(s, [list |-> Candidates(local[s].user), at |-> 1], NoText)
    BY <1>6 DEF Lookup, Executes, Fits, IsPanel
  <2> QED  BY <1>1, <1>4, <1>6, <2>1 DEF Lookup
<1>7. CASE MoveHighlight(s)
  <2>1. ASSUME NEW i \in Nat \ {0} PROVE Fits(s, [panel EXCEPT !.at = i], NoText)
    <3>1. [panel EXCEPT !.at = i] = [list |-> panel.list, at |-> i]
      BY <1>2 DEF IsPanel
    <3> QED  BY <1>7, <3>1 DEF MoveHighlight, Executes, Fits, IsPanel
  <2>2. call[s].op.type # "select"
    BY <1>7 DEF MoveHighlight, Executes
  <2>3. PICK next : next \in {panel, [panel EXCEPT !.at = panel.at + call[s].op.delta]}
                    /\ Fits(s, next, NoText) /\ Done(s, next, NoText)
    BY <1>3, <1>7, <2>1, <2>2 DEF MoveHighlight
  <2> QED  BY <1>1, <1>4, <2>3
<1>8. CASE Select(s)
  <2>1. Fits(s, Closed, panel.list[call[s].op.index])
    BY <1>2 DEF Fits
  <2> QED  BY <1>1, <1>4, <1>8, <2>1 DEF Select
<1>9. CASE SelectOutside(s)
  BY <1>1, <1>5, <1>9 DEF SelectOutside
<1>10. CASE FinishComposition(s)
  BY <1>1, <1>3, <1>4, <1>10 DEF FinishComposition, Executes
<1>11. CASE ResetLearning(s)
  BY <1>1, <1>3, <1>4, <1>11 DEF ResetLearning, Executes
<1>12. CASE ResetMethodLearning(s)
  BY <1>1, <1>3, <1>4, <1>5, <1>12 DEF ResetMethodLearning, Executes
<1>13. CASE AddUserPhrase(s)
  BY <1>1, <1>3, <1>4, <1>13 DEF AddUserPhrase, Executes
<1>14. CASE UpdateUserPhrase(s)
  BY <1>1, <1>3, <1>4, <1>5, <1>14 DEF UpdateUserPhrase, Executes
<1>15. CASE RemoveUserPhrase(s)
  BY <1>1, <1>3, <1>4, <1>15 DEF RemoveUserPhrase, Executes
<1>16. CASE ReplaceUserPhrases(s)
  BY <1>1, <1>3, <1>4, <1>5, <1>16 DEF ReplaceUserPhrases, Executes
<1>17. CASE ImportUserData(s)
  BY <1>1, <1>3, <1>4, <1>5, <1>17 DEF ImportUserData, Executes
<1> QED
  BY <1>6, <1>7, <1>8, <1>9, <1>10, <1>11, <1>12, <1>13, <1>14, <1>15, <1>16, <1>17 DEF Execute

LEMMA FitsSettled ==
  ASSUME NEW s, IsState(local[s]), Settled(local[s]), NEW panel, NEW text, Fits(s, panel, text)
  PROVE  Settled([local[s] EXCEPT !.panel = panel])
<1>1. [local[s] EXCEPT !.panel = panel] =
        [user |-> local[s].user, reload |-> local[s].reload, model |-> local[s].model,
         panel |-> panel]
  BY DEF IsState
<1>2. local[s].reload \in BOOLEAN
  BY DEF IsState
<1> QED  BY <1>1, <1>2 DEF Settled, Fits, IsOpen

LEMMA DoneCalls ==
  ASSUME CInv, NEW s \in Sessions, pc[s] = "execute", NEW panel, NEW text,
         Fits(s, panel, text), Done(s, panel, text)
  PROVE  CInv'
<1> USE DEF Done, Return
<1>1. Maps /\ IsState(local[s]) /\ CallOK(s)
  BY DEF CInv, IInv, SessionOK
<1>2. /\ local'[s] = [local[s] EXCEPT !.panel = panel] /\ pc'[s] = "idle" /\ call'[s] = call[s]
      /\ reply'[s] = [status |-> "ok", text |-> text]
      /\ db' = db /\ log' = log /\ calls' = calls
  BY <1>1 DEF Maps
<1>3. reply'[s].status = "ok" /\ reply'[s].text = text
  BY <1>2
<1>4. SettledOK(s)'
  <2>1. Settled(local'[s])
    BY <1>1, <1>2, FitsSettled DEF CallOK, SettledOK
  <2> QED  BY <1>2, <2>1 DEF SettledOK, Settled, InCall
<1>5. ShownOK(s)'
  BY <1>1, <1>2, <1>3 DEF CallOK, ShownOK, Fits, Saves, Answered
<1>6. OnceOK(s)'
  BY <1>1, <1>2, <1>3 DEF CallOK, OnceOK, InCall, Answered, NotCommitted
<1>7. RefusedOK(s)'
  BY <1>2, <1>3 DEF RefusedOK, Answered
<1>8. CallOK(s)'
  BY <1>2, <1>4, <1>5, <1>6, <1>7 DEF CallOK
<1>9. \A t \in Sessions \ {s} : Kept(t)
  BY <1>1 DEF Maps, Kept
<1>10. IInv' /\ UNCHANGED <<db, log>>
  BY <1>2, DoneKeeps DEF CInv, Fits
<1> QED  BY <1>2, <1>8, <1>9, <1>10, QuietStep

LEMMA AskedCalls ==
  ASSUME CInv, NEW s \in Sessions, pc[s] = "execute", NEW panel, NEW changes, NEW text,
         Fits(s, panel, text), Asked(s, panel, changes, text)
  PROVE  CInv'
<1>1. Maps /\ IsState(local[s]) /\ IsCall(call[s]) /\ CallOK(s)
  BY DEF CInv, IInv, SessionOK
<1>2. /\ local' = [local EXCEPT ![s].panel = panel]
      /\ pc' = [pc EXCEPT ![s] = "save"]
      /\ call' = [call EXCEPT ![s].changes = changes, ![s].text = text]
      /\ reply' = reply /\ db' = db /\ log' = log /\ calls' = calls
  BY DEF Asked, Ask
<1>3. /\ local'[s] = [local[s] EXCEPT !.panel = panel] /\ pc'[s] = "save"
      /\ call'[s] = [call[s] EXCEPT !.changes = changes, !.text = text]
  BY <1>1, <1>2 DEF Maps
<1>4. /\ call'[s].id = call[s].id /\ call'[s].op = call[s].op /\ call'[s].text = text
      /\ call'[s].before = call[s].before
  BY <1>1, <1>3 DEF IsCall
<1>5. SettledOK(s)'
  <2>1. Settled(local'[s])
    BY <1>1, <1>3, FitsSettled DEF CallOK, SettledOK
  <2> QED  BY <1>1, <1>3, <1>4, <2>1 DEF CallOK, SettledOK, Settled, InCall
<1>6. ShownOK(s)'
  BY <1>1, <1>3, <1>4 DEF CallOK, ShownOK, Fits, Saves, Answered
<1>7. OnceOK(s)'
  BY <1>1, <1>2, <1>3, <1>4 DEF CallOK, OnceOK, InCall, Answered, NotCommitted
<1>8. RefusedOK(s)'
  BY <1>3 DEF RefusedOK, Answered
<1>9. CallOK(s)'
  BY <1>3, <1>5, <1>6, <1>7, <1>8 DEF CallOK
<1>10. \A t \in Sessions \ {s} : Kept(t)
  BY <1>1, <1>2 DEF Maps, Kept
<1>11. IInv' /\ UNCHANGED <<db, log>>
  BY <1>2, AskKeeps DEF CInv, Fits, Asked
<1> QED  BY <1>2, <1>4, <1>9, <1>10, <1>11, QuietStep

LEMMA ExecuteCalls == ASSUME CInv, NEW s \in Sessions, Execute(s) PROVE CInv'
<1>1. pc[s] = "execute" /\ Executed(s)
  BY ExecuteShape DEF CInv
<1>2. CASE ReturnError(s, "invalid")
  BY <1>1, <1>2, ErrorCalls DEF InCall
<1> QED  BY <1>1, <1>2, DoneCalls, AskedCalls DEF Executed
-----------------------------------------------------------------------------
(* A generation that moved has a reset behind it. *)

LEMMA ResetCameFirst ==
  ASSUME CInv, NEW s \in Sessions, Saves(s), ~SameGeneration(s)
  PROVE  \E r \in DOMAIN log : local[s].user.revision < r /\ r <= db.revision /\ IsResetAt(r)
<1>1. PICK n \in Nat : n = db.revision
  BY DEF CInv, IInv, History, LogComplete
<1>2. DOMAIN log = 1..n /\ db = At(n)
  BY <1>1 DEF CInv, IInv, History, LogComplete
<1>3. PICK i \in 0..n : i = local[s].user.revision /\ local[s].user = At(i)
  BY <1>1 DEF CInv, IInv, SessionOK, Saves, Recorded
<1>4. Generation(i) # Generation(n)
  BY <1>2, <1>3 DEF SameGeneration, Generation
<1>5. PICK r \in (i + 1)..n : IsResetAt(r)
  BY <1>1, <1>3, <1>4 DEF CInv, LogMoves
<1> QED  BY <1>1, <1>2, <1>3, <1>5

LEMMA StaleCalls ==
  ASSUME CInv, NEW s \in Sessions, DropLearning(s) \/ Retry(s)
  PROVE  CInv'
<1>1. /\ pc[s] = "save" /\ ~SameGeneration(s)
      /\ local' = [local EXCEPT ![s] = AfterSave(s, db)]
      /\ db' = db /\ log' = log /\ calls' = calls /\ call' = call
  BY DEF DropLearning, Retry, Saving, CInv, IInv, SessionOK
<1>2. Maps /\ CallOK(s) /\ local[s].user.revision = call[s].base
  BY <1>1 DEF CInv, IInv, SessionOK
<1>3. local'[s].reload /\ local'[s].user = db
  BY <1>1, <1>2 DEF Maps, AfterSave
<1>4. \E r \in DOMAIN log : call[s].base < r /\ r <= db.revision /\ IsResetAt(r)
  BY <1>1, <1>2, ResetCameFirst DEF Saves
<1>5. SettledOK(s)'
  BY <1>1, <1>2, <1>3 DEF CallOK, SettledOK, Settled, InCall
<1>6. \/ /\ pc'[s] = "idle"
         /\ reply'[s].status = "dropped" /\ reply'[s].text = call[s].text
      \/ pc'[s] = "retry"
  <2>1. CASE DropLearning(s)
    <3>1. pc'[s] = "idle" /\ reply'[s] = [status |-> "dropped", text |-> call[s].text]
      BY <1>2, <2>1 DEF DropLearning, Return, Maps
    <3> QED  BY <3>1
  <2>2. CASE Retry(s)
    BY <1>2, <2>2 DEF Retry, Maps
  <2> QED  BY <2>1, <2>2
<1>7. ShownOK(s)'
  BY <1>1, <1>2, <1>6 DEF CallOK, ShownOK, Saves, Answered
<1>8. OnceOK(s)'
  BY <1>1, <1>2, <1>6 DEF CallOK, OnceOK, InCall, Answered, NotCommitted
<1>9. RefusedOK(s)'
  BY <1>1, <1>3, <1>4, <1>6 DEF RefusedOK, Answered, IsResetAt
<1>10. CallOK(s)'
  BY <1>6, <1>5, <1>7, <1>8, <1>9 DEF CallOK
<1>11. \A t \in Sessions \ {s} : Kept(t)
  BY <1>1, <1>2 DEF Maps, Kept, DropLearning, Retry, Return
<1>12. IInv' /\ UNCHANGED <<db, log>> /\ call'[s].id = call[s].id
  BY <1>1, StaleKeeps DEF CInv
<1> QED  BY <1>1, <1>10, <1>11, <1>12, QuietStep

(* Refused after a retry: one reset came before it and one since. *)
LEMMA ConflictCalls == ASSUME CInv, NEW s \in Sessions, Conflict(s) PROVE CInv'
<1>1. pc[s] = "retry" /\ ~SameGeneration(s) /\ ReturnError(s, "conflict")
  BY DEF Conflict
<1>2. PICK r \in DOMAIN log : local[s].user.revision < r /\ IsResetAt(r)
  BY <1>1, ResetCameFirst DEF Saves
<1>3. PICK q \in DOMAIN log : call[s].base < q /\ q <= local[s].user.revision /\ IsResetAt(q)
  BY <1>1 DEF CInv, CallOK, RefusedOK
<1>4. DOMAIN log \subseteq Nat /\ local[s].user.revision \in Nat /\ call[s].base \in Nat
  BY <1>1 DEF CInv, IInv, History, LogComplete, SessionOK, Recorded
<1>5. q < r
  BY <1>2, <1>3, <1>4
<1> QED  BY <1>1, <1>2, <1>3, <1>5, ErrorCalls DEF InCall
-----------------------------------------------------------------------------
(* A commit: the log gains one entry, that of this call. *)

LEMMA QuietPreview ==
  ASSUME NEW data, data.generation \in Nat, NEW changes, Resets(changes) = {}
  PROVE  Preview(data, changes).generation = data.generation
<1> DEFINE rows == FoldLeft(ApplyChange, data, changes)
<1>1. Preview(data, changes) =
        [generation |-> data.generation + Cardinality(Resets(changes)),
         revision   |-> data.revision + (IF changes = <<>> THEN 0 ELSE 1),
         phrases    |-> rows.phrases,
         overrides  |-> Newest(rows.overrides),
         bigrams    |-> Newest(rows.bigrams),
         table      |-> rows.table]
  BY DEF Preview
<1>2. Cardinality(Resets(changes)) = 0
  BY FS_EmptySet
<1> HIDE DEF rows
<1> QED  BY <1>1, <1>2

LEMMA SaveCalls == ASSUME CInv, NEW s \in Sessions, Save(s) PROVE CInv'
<1>0. PICK n \in Nat : n = db.revision
  BY DEF CInv, IInv, History, LogComplete
<1>1. /\ DOMAIN log = 1..n /\ db = At(n) /\ Maps /\ Numbered
      /\ \A r \in 0..n : Generation(r) \in Nat
  BY <1>0 DEF CInv, IInv, History, LogComplete
<1>2. /\ db'.revision = n + 1 /\ DOMAIN log' = 1..(n + 1)
      /\ \A r \in 1..n : log'[r] = log[r]
      /\ \A r \in 0..n : At(r)' = At(r)
      /\ At(n + 1)' = db'
      /\ log'[n + 1].changes = call[s].changes
  BY <1>0, SaveAppends DEF CInv
<1>3. log'[n + 1].id = call[s].id
  BY <1>0, <1>2 DEF Save
<1>4. /\ Saves(s) /\ local' = [local EXCEPT ![s] = AfterSave(s, db')]
      /\ pc' = [pc EXCEPT ![s] = "idle"]
      /\ reply' = [reply EXCEPT ![s] = [status |-> "ok", text |-> call[s].text]]
      /\ call' = call /\ calls' = calls
  BY DEF Save, Saving, Saves, Return
<1>5. /\ local'[s] = AfterSave(s, db') /\ pc'[s] = "idle"
      /\ reply'[s] = [status |-> "ok", text |-> call[s].text]
      /\ \A t \in Sessions \ {s} : Kept(t)
  BY <1>1, <1>4 DEF Maps, Kept
<1>6. /\ CallOK(s) /\ call[s].id # 0 /\ NotCommitted(call[s].id)
      /\ call[s].changes # <<>>
  BY <1>4 DEF CInv, CallOK, OnceOK, InCall, Saves, IInv, SessionOK
<1>7. \A r \in 1..n : IsResetAt(r)' <=> IsResetAt(r)
  BY <1>2 DEF IsResetAt
<1>8. LogMoves'
  <2>1. \A r \in 0..n : Generation(r)' = Generation(r)
    BY <1>2 DEF Generation
  <2>2. Generation(n + 1)' # Generation(n) => IsResetAt(n + 1)'
    <3>1. db.generation = Generation(n) /\ db.generation \in Nat
      BY <1>1 DEF Generation
    <3>2. Generation(n + 1)' = Preview(db, call[s].changes).generation
      BY <1>2 DEF Generation, Save, Stored
    <3>3. ~IsResetAt(n + 1)' => Resets(call[s].changes) = {}
      BY <1>2 DEF IsResetAt
    <3> QED  BY <3>1, <3>2, <3>3, QuietPreview
  <2> SUFFICES ASSUME NEW q \in 0..(n + 1), NEW r \in 0..(n + 1), q <= r,
                      Generation(q)' # Generation(r)'
               PROVE  \E i \in (q + 1)..r : IsResetAt(i)'
    BY <1>2 DEF LogMoves
  <2>3. CASE r \in 0..n
    <3>1. q \in 0..n /\ Generation(q) # Generation(r)
      BY <2>1, <2>3
    <3>2. PICK i \in (q + 1)..r : IsResetAt(i)
      BY <1>0, <2>3, <3>1 DEF CInv, LogMoves
    <3>3. i \in 1..n
      BY <2>3, <3>1
    <3> QED  BY <1>7, <3>2, <3>3
  <2>4. CASE r = n + 1
    <3>1. CASE Generation(n + 1)' # Generation(n)
      <4>1. q # n + 1
        BY <2>4
      <4>2. n + 1 \in (q + 1)..r
        BY <2>4, <4>1
      <4> QED  BY <2>2, <3>1, <4>2
    <3>2. CASE Generation(n + 1)' = Generation(n)
      <4>1. q \in 0..n /\ Generation(q) # Generation(n)
        BY <2>1, <2>4, <3>2
      <4>2. PICK i \in (q + 1)..n : IsResetAt(i)
        BY <1>0, <4>1 DEF CInv, LogMoves
      <4>3. i \in 1..n /\ i \in (q + 1)..r
        BY <2>4, <4>1
      <4> QED  BY <1>7, <4>2, <4>3
    <3> QED  BY <3>1, <3>2
  <2> QED  BY <2>3, <2>4
<1>9. Numbered'
  <2>1. call[s].id \in 1..calls
    BY <1>1, <1>6 DEF Numbered, Maps
  <2> QED  BY <1>1, <1>2, <1>3, <1>4, <2>1 DEF Numbered
<1>10. CallOK(s)'
  <2>1. local'[s].reload
    BY <1>5 DEF AfterSave
  <2>2. CommittedOnce(call[s].id)'
    <3>1. \A r \in 1..n : log'[r].id # call[s].id
      BY <1>1, <1>2, <1>6 DEF NotCommitted
    <3> QED  BY <1>2, <1>3, <1>4, <3>1 DEF CommittedOnce
  <2>3. reply'[s].status = "ok" /\ reply'[s].text = call[s].text /\ call'[s] = call[s]
    BY <1>4, <1>5
  <2>4. ShownOK(s)'
    BY <1>4, <1>5, <1>6, <2>3 DEF CallOK, ShownOK, Answered, Saves
  <2>5. OnceOK(s)'
    BY <1>5, <1>6, <2>2, <2>3 DEF OnceOK, InCall, Answered
  <2> QED
    BY <1>5, <2>1, <2>3, <2>4, <2>5
       DEF CallOK, SettledOK, Settled, InCall, RefusedOK, Answered
<1>11. ASSUME NEW t \in Sessions \ {s} PROVE CallOK(t)'
  <2>1. /\ local'[t] = local[t] /\ pc'[t] = pc[t] /\ call'[t] = call[t] /\ reply'[t] = reply[t]
    BY <1>5 DEF Kept
  <2>2. CallOK(t) /\ call[t].id # call[s].id
    BY <1>1, <1>6 DEF CInv, Numbered
  <2>3. SettledOK(t)' /\ ShownOK(t)'
    BY <2>1, <2>2 DEF CallOK, SettledOK, Settled, ShownOK, InCall, Saves, Answered
  <2>4. NotCommitted(call[t].id) => NotCommitted(call[t].id)'
    BY <1>1, <1>2, <1>3, <2>1, <2>2 DEF NotCommitted
  <2>5. ASSUME CommittedOnce(call[t].id) PROVE CommittedOnce(call[t].id)'
    <3>1. PICK r \in 1..n : log[r].id = call[t].id /\ \A q \in 1..n : log[q].id = call[t].id => q = r
      BY <1>1, <2>5 DEF CommittedOnce
    <3>2. r \in 1..(n + 1) /\ log'[r].id = call[t].id
      BY <1>2, <3>1
    <3>3. ASSUME NEW q \in 1..(n + 1), log'[q].id = call[t].id PROVE q = r
      BY <1>2, <1>3, <2>2, <3>1, <3>3
    <3> QED  BY <1>2, <2>1, <3>2, <3>3 DEF CommittedOnce
  <2>6. OnceOK(t)'
    BY <2>1, <2>2, <2>4, <2>5 DEF CallOK, OnceOK, InCall, Answered
  <2>7. RefusedOK(t)'
    BY <1>1, <1>2, <1>7, <2>1, <2>2 DEF CallOK, RefusedOK, Answered
  <2> QED  BY <2>1, <2>2, <2>3, <2>6, <2>7 DEF CallOK
<1>12. IInv'
  BY SaveKeeps DEF CInv
<1> QED  BY <1>8, <1>9, <1>10, <1>11, <1>12 DEF CInv

LEMMA NextCalls == ASSUME CInv, [Next]_vars PROVE CInv'
<1>1. CASE UNCHANGED vars
  <2>1. db' = db /\ log' = log /\ call' = call /\ calls' = calls
    BY <1>1 DEF vars
  <2>2. \A t \in Sessions : Kept(t)
    BY <1>1 DEF vars, Kept
  <2>3. IInv' /\ UNCHANGED <<db, log>>
    BY <2>1, NextKeeps DEF CInv
  <2>4. LogMoves' /\ Numbered'
    BY <2>1 DEF CInv, LogMoves, Numbered, Generation, At, IsResetAt
  <2> QED  BY <2>2, <2>3, <2>4, KeptCall DEF CInv
<1>2. ASSUME NEW s \in Sessions, StoreError(s) PROVE CInv'
  BY <1>2, ErrorCalls DEF StoreError, InCall
<1>3. ASSUME NEW s \in Sessions, Continue(s) PROVE CInv'
  BY <1>3, ReloadCalls, DiscardCalls, ExecuteCalls, SaveCalls, StaleCalls, ConflictCalls DEF Continue
<1> QED  BY <1>1, <1>2, <1>3, OpenCalls, CrashCalls, BeginCalls DEF Next

(* At every control point of apply, in every session, the call under way    *)
(* and the answer of the last one are as CallOK says.                       *)
THEOREM CallInvariance == Spec => []CInv
<1>1. Init => CInv
  BY InitCalls
<1>2. CInv /\ [Next]_vars => CInv'
  BY NextCalls
<1> QED  BY <1>1, <1>2, PTL DEF Spec

-----------------------------------------------------------------------------
(* A call is in the database once if it asked for changes and succeeded,    *)
(* and not at all otherwise, through every reload, retry and failure of     *)
(* save_user_changes; a failed one leaves its session as it was.            *)
THEOREM CallsAreInTheDatabaseOnce == Spec => []CallsAreAtomic
<1>1. CInv => CallsAreAtomic
  <2> SUFFICES ASSUME CInv, NEW s \in Sessions, Answered(s)
               PROVE  /\ Cardinality({r \in DOMAIN log : log[r].id = call[s].id}) =
                            IF reply[s].status = "ok" /\ call[s].changes # <<>> THEN 1 ELSE 0
                      /\ reply[s].status \in {"invalid", "conflict", "failed"} =>
                            local[s] = call[s].before /\ reply[s].text = NoText
    BY DEF CallsAreAtomic
  <2> DEFINE commits == {r \in DOMAIN log : log[r].id = call[s].id}
  <2>1. OnceOK(s)
    BY DEF CInv, CallOK
  <2>2. ASSUME CommittedOnce(call[s].id) PROVE Cardinality(commits) = 1
    <3>1. PICK r \in DOMAIN log : log[r].id = call[s].id
                                 /\ \A q \in DOMAIN log : log[q].id = call[s].id => q = r
      BY <2>2 DEF CommittedOnce
    <3>2. commits = {r}
      BY <3>1
    <3> QED  BY <3>2, FS_Singleton
  <2>3. ASSUME NotCommitted(call[s].id) PROVE Cardinality(commits) = 0
    <3>1. commits = {}
      BY <2>3 DEF NotCommitted
    <3> QED  BY <3>1, FS_EmptySet
  <2> QED  BY <2>1, <2>2, <2>3 DEF OnceOK
<1> QED  BY <1>1, CallInvariance, PTL

(* A selection answers with the candidate that was listed at its index when *)
(* the call was made: an event on a list that changed is discarded instead. *)
THEOREM SelectionsCommitTheShown == Spec => []SelectionIsWhatWasShown
<1>1. CInv => SelectionIsWhatWasShown
  BY DEF CInv, CallOK, ShownOK, SelectionIsWhatWasShown
<1> QED  BY <1>1, CallInvariance, PTL

(* Learning is dropped only where a reset or import came in between, and an *)
(* edit refused only where two did.                                         *)
THEOREM OnlyResetsRefuse == Spec => []RefusalNeedsResets
<1>1. CInv => RefusalNeedsResets
  <2> SUFFICES ASSUME CInv, NEW s \in Sessions, Answered(s), NEW since,
                      since = {r \in DOMAIN log : r > call[s].base /\ IsResetAt(r)}
               PROVE  /\ reply[s].status = "dropped" => since # {}
                      /\ reply[s].status = "conflict" => Cardinality(since) >= 2
    BY DEF RefusalNeedsResets
  <2>1. RefusedOK(s)
    BY DEF CInv, CallOK
  <2>2. PICK n \in Nat : DOMAIN log = 1..n /\ call[s].base \in 0..n
    BY DEF CInv, IInv, History, LogComplete, SessionOK
  <2>3. ASSUME reply[s].status = "dropped" PROVE since # {}
    <3>1. PICK r \in DOMAIN log : call[s].base < r /\ IsResetAt(r)
      BY <2>1, <2>3 DEF RefusedOK
    <3>2. r > call[s].base
      BY <2>2, <3>1
    <3> QED  BY <3>1, <3>2
  <2>4. ASSUME reply[s].status = "conflict" PROVE Cardinality(since) >= 2
    <3>1. PICK q \in DOMAIN log : \E r \in DOMAIN log :
            call[s].base < q /\ q < r /\ IsResetAt(q) /\ IsResetAt(r)
      BY <2>1, <2>4 DEF RefusedOK
    <3>2. PICK r \in DOMAIN log : call[s].base < q /\ q < r /\ IsResetAt(q) /\ IsResetAt(r)
      BY <3>1
    <3>3. {q, r} \subseteq since /\ q # r
      BY <2>2, <3>1, <3>2
    <3>4. IsFiniteSet(since)
      BY <2>2, FS_Interval, FS_Subset
    <3>5. Cardinality({q, r}) <= Cardinality(since)
      BY <3>3, <3>4, FS_Subset
    <3>6. Cardinality({q, r}) = 2
      <4>1. IsFiniteSet({q}) /\ Cardinality({q}) = 1 /\ {q, r} = {q} \cup {r} /\ r \notin {q}
        BY <3>3, FS_Singleton
      <4> QED  BY <4>1, FS_AddElement
    <3>7. Cardinality(since) \in Nat
      BY <3>4, FS_CardinalityType
    <3> QED  BY <3>5, <3>6, <3>7
  <2> QED  BY <2>3, <2>4
<1> QED  BY <1>1, CallInvariance, PTL

(* A session that is not due a reload composes with the data it holds and   *)
(* shows the list these data give, after whatever calls it made.            *)
THEOREM SettledSessionsAgree == Spec => []SettledSessionAgrees
<1>1. CInv => SettledSessionAgrees
  BY DEF CInv, CallOK, SettledOK, Settled, SettledSessionAgrees
<1> QED  BY <1>1, CallInvariance, PTL
-----------------------------------------------------------------------------
(* The second part: what the committed snapshots hold.  No selection is     *)
(* lost, and a phrase that outlives a replacement was unknown to the        *)
(* session that asked for it.                                               *)
(*                                                                         *)
(* Every committed snapshot has rows that are looked up by their key        *)
(* (RowsTyped).  A call about to save asks for one increment, or for a list *)
(* that sets counts only after clearing them, each at most once (Shaped),   *)
(* and a replacement removes every phrase of the snapshot it is based on    *)
(* (Replaces), however often it is retried.                                 *)

RowsTyped ==
  \A r \in 0..db.revision :
    /\ At(r).phrases \in Seq(PhraseRows)
    /\ At(r).table \in Seq(CountRows) /\ KeyedRows(At(r).table)

ListsTyped == \A r \in 1..db.revision : log[r].changes \in Seq(Change)

OneIncrement(L, cur) == L = <<[kind |-> "IncrementTable", method |-> Method, current |-> cur]>>
Shaped(L) == (\E cur : OneIncrement(L, cur)) \/ SetsAfterClears(L, Method)

Replaces(L, rows, known) ==
  /\ \A key \in known : \E i \in DOMAIN L : Removes(L[i], key)
  /\ \A i \in DOMAIN L : \A key : Adds(L[i], key) => \E j \in DOMAIN rows : rows[j].key = key

IsReplacement(op) == op.type = "replace_user_phrases"

RequestOK(L, c) ==
  /\ Shaped(L)
  /\ IsReplacement(c.op) => Replaces(L, c.op.phrases, PhraseKeys(At(c.base)))

CallData(s) ==
  /\ InCall(s) => call[s].op \in Operations
  /\ Saves(s) => RequestOK(call[s].changes, call[s])

AllCounted == \A cur : CountOf(db, Method, cur) = CommittedCount(cur)

DataOK ==
  RowsTyped /\ ListsTyped /\ SurvivorsWereUnseen /\ AllCounted /\ \A s \in Sessions : CallData(s)

DInv == IInv /\ DataOK

-----------------------------------------------------------------------------
(* Lists put together. *)

LEMMA Joined ==
  ASSUME NEW X, NEW f \in Seq(X), NEW g \in Seq(X)
  PROVE  /\ f \o g \in Seq(X)
         /\ Len(f \o g) = Len(f) + Len(g) /\ Len(f) \in Nat /\ Len(g) \in Nat
         /\ DOMAIN f = 1..Len(f) /\ DOMAIN g = 1..Len(g) /\ DOMAIN (f \o g) = 1..Len(f) + Len(g)
         /\ \A i \in 1..Len(f) : (f \o g)[i] = f[i]
         /\ \A i \in 1..Len(g) : (f \o g)[Len(f) + i] = g[i]
         /\ \A i \in 1..Len(f) + Len(g) : i \in 1..Len(f) \/ (i - Len(f) \in 1..Len(g) /\ i = Len(f) + (i - Len(f)))
<1>1. Len(f) \in Nat /\ Len(g) \in Nat /\ DOMAIN f = 1..Len(f) /\ DOMAIN g = 1..Len(g)
  OBVIOUS
<1>2. \A i \in 1..Len(f) + Len(g) : (f \o g)[i] = IF i <= Len(f) THEN f[i] ELSE g[i - Len(f)]
  BY ConcatProperties
<1>3. f \o g \in Seq(X) /\ Len(f \o g) = Len(f) + Len(g)
  BY ConcatProperties
<1>4. \A i \in 1..Len(f) : i \in 1..Len(f) + Len(g) /\ i <= Len(f)
  BY <1>1
<1>5. \A i \in 1..Len(g) : /\ Len(f) + i \in 1..Len(f) + Len(g) /\ ~(Len(f) + i <= Len(f))
                           /\ (Len(f) + i) - Len(f) = i
  BY <1>1
<1>6. \A i \in 1..Len(f) + Len(g) : i \in 1..Len(f) \/ (i - Len(f) \in 1..Len(g) /\ i = Len(f) + (i - Len(f)))
  BY <1>1
<1> DEFINE h == f \o g
<1>7. /\ h \in Seq(X) /\ Len(h) = Len(f) + Len(g) /\ DOMAIN h = 1..Len(f) + Len(g)
      /\ \A i \in 1..Len(f) + Len(g) : h[i] = IF i <= Len(f) THEN f[i] ELSE g[i - Len(f)]
  BY <1>2, <1>3
<1> HIDE DEF h
<1>8. \A i \in 1..Len(f) : h[i] = f[i]
  BY <1>4, <1>7
<1>9. \A i \in 1..Len(g) : h[Len(f) + i] = g[i]
  BY <1>5, <1>7
<1> QED  BY <1>1, <1>6, <1>7, <1>8, <1>9 DEF h

(* Every element of a joined list is one of its parts'.                     *)
Elements(f) == {f[i] : i \in DOMAIN f}

LEMMA JoinedElements ==
  ASSUME NEW X, NEW f \in Seq(X), NEW g \in Seq(X)
  PROVE  /\ f \o g \in Seq(X)
         /\ Elements(f \o g) = Elements(f) \cup Elements(g)
<1> DEFINE h == f \o g
<1>1. /\ h \in Seq(X)
      /\ Len(f) \in Nat /\ Len(g) \in Nat
      /\ DOMAIN f = 1..Len(f) /\ DOMAIN g = 1..Len(g) /\ DOMAIN h = 1..Len(f) + Len(g)
      /\ \A i \in 1..Len(f) : h[i] = f[i]
      /\ \A i \in 1..Len(g) : h[Len(f) + i] = g[i]
      /\ \A i \in 1..Len(f) + Len(g) : i \in 1..Len(f) \/ (i - Len(f) \in 1..Len(g) /\ i = Len(f) + (i - Len(f)))
  BY Joined
<1> HIDE DEF h
<1>2. ASSUME NEW x \in Elements(h) PROVE x \in Elements(f) \cup Elements(g)
  <2>1. PICK i \in 1..Len(f) + Len(g) : x = h[i]
    BY <1>1 DEF Elements
  <2>2. CASE i \in 1..Len(f)
    BY <1>1, <2>1, <2>2 DEF Elements
  <2>3. CASE i - Len(f) \in 1..Len(g) /\ i = Len(f) + (i - Len(f))
    <3> DEFINE j == i - Len(f)
    <3>1. j \in 1..Len(g) /\ i = Len(f) + j
      BY <2>3
    <3> HIDE DEF j
    <3> QED  BY <1>1, <2>1, <3>1 DEF Elements
  <2> QED  BY <1>1, <2>2, <2>3
<1>3. ASSUME NEW x \in Elements(f) PROVE x \in Elements(h)
  <2>1. PICK i \in 1..Len(f) : x = f[i]
    BY <1>1 DEF Elements
  <2>2. i \in 1..Len(f) + Len(g)
    BY <1>1
  <2> QED  BY <1>1, <2>1, <2>2 DEF Elements
<1>4. ASSUME NEW x \in Elements(g) PROVE x \in Elements(h)
  <2>1. PICK i \in 1..Len(g) : x = g[i]
    BY <1>1 DEF Elements
  <2>2. Len(f) + i \in 1..Len(f) + Len(g) /\ h[Len(f) + i] = g[i]
    BY <1>1
  <2> QED  BY <1>1, <2>1, <2>2 DEF Elements
<1> QED  BY <1>1, <1>2, <1>3, <1>4 DEF h

-----------------------------------------------------------------------------
(* The lists the operations ask for. *)

LEMMA WithoutCounts ==
  ASSUME NEW L, \A i \in DOMAIN L : L[i].kind \notin {"IncrementTable", "SetTable"}, NEW m
  PROVE  SetsAfterClears(L, m)
BY DEF SetsAfterClears, Sets

LEMMA ShortLists ==
  ASSUME NEW c, NEW d, c.kind \notin {"IncrementTable", "SetTable"},
         d.kind \notin {"IncrementTable", "SetTable"}
  PROVE  Shaped(<<c>>) /\ Shaped(<<c, d>>)
<1>1. SetsAfterClears(<<c>>, Method)
  <2> DEFINE L == <<c>>
  <2>1. \A i \in DOMAIN L : L[i].kind \notin {"IncrementTable", "SetTable"}
    OBVIOUS
  <2> HIDE DEF L
  <2>2. SetsAfterClears(L, Method)
    BY <2>1, WithoutCounts
  <2> QED  BY <2>2 DEF L
<1>2. SetsAfterClears(<<c, d>>, Method)
  <2> DEFINE L == <<c, d>>
  <2>1. \A i \in DOMAIN L : L[i].kind \notin {"IncrementTable", "SetTable"}
    OBVIOUS
  <2> HIDE DEF L
  <2>2. SetsAfterClears(L, Method)
    BY <2>1, WithoutCounts
  <2> QED  BY <2>2 DEF L
<1> QED  BY <1>1, <1>2 DEF Shaped

LEMMA Listed ==
  ASSUME NEW n \in Nat, NEW f, f = [i \in 1..n |-> f[i]], NEW Y, \A i \in 1..n : f[i] \in Y
  PROVE  f \in Seq(Y) /\ DOMAIN f = 1..n /\ Len(f) = n
<1>1. f \in [1..n -> Y]
  OBVIOUS
<1> QED  BY <1>1

(* A list that sets rows of distinct keys at its end, and has cleared every *)
(* method before.                                                           *)
LEMMA SetsAtTheEnd ==
  ASSUME NEW X, NEW F \in Seq(X), NEW T \in Seq(X), F \o T \in Seq(Change), NEW m,
         \A c \in Elements(F) : c.kind \notin {"IncrementTable", "SetTable"},
         \A c \in Elements(T) : c.kind = "SetTable",
         \A i, j \in DOMAIN T : T[i].method = T[j].method /\ T[i].current = T[j].current => i = j,
         T # <<>> /\ m \in Methods => \E c \in Elements(F) : Clears(c, m)
  PROVE  SetsAfterClears(F \o T, m)
<1> DEFINE L == F \o T
           n == Len(F)
<1>1. /\ L \in Seq(X) /\ n \in Nat /\ Len(T) \in Nat /\ Len(L) = n + Len(T)
      /\ DOMAIN F = 1..n /\ DOMAIN T = 1..Len(T) /\ DOMAIN L = 1..n + Len(T)
      /\ \A i \in 1..n : L[i] = F[i]
      /\ \A i \in 1..Len(T) : L[n + i] = T[i]
      /\ \A i \in 1..n + Len(T) : i \in 1..n \/ (i - n \in 1..Len(T) /\ i = n + (i - n))
  BY Joined
<1>2. Elements(L) = Elements(F) \cup Elements(T)
  BY JoinedElements
<1>3. \A i \in DOMAIN L : L[i] \in Change
  <2>1. L \in Seq(Change)
    OBVIOUS
  <2> HIDE DEF L
  <2> QED  BY <2>1
<1> HIDE DEF L, n
<1>4. \A i \in DOMAIN L : L[i].kind # "IncrementTable"
  BY <1>2 DEF Elements
<1>5. \A i \in DOMAIN L : L[i].kind = "SetTable" =>
        i - n \in 1..Len(T) /\ i = n + (i - n) /\ L[i] = T[i - n]
  <2> SUFFICES ASSUME NEW i \in DOMAIN L, L[i].kind = "SetTable"
               PROVE  i - n \in 1..Len(T) /\ i = n + (i - n) /\ L[i] = T[i - n]
    OBVIOUS
  <2>1. ~(i \in 1..n)
    BY <1>1 DEF Elements
  <2> DEFINE k == i - n
  <2>2. k \in 1..Len(T) /\ i = n + k
    BY <1>1, <2>1
  <2> HIDE DEF k
  <2>3. L[i] = T[k]
    BY <1>1, <2>2
  <2> QED  BY <2>2, <2>3 DEF k
<1>6. \A i \in DOMAIN L : Clears(L[i], m) => i \in 1..n
  <2> SUFFICES ASSUME NEW i \in DOMAIN L, ~(i \in 1..n) PROVE ~Clears(L[i], m)
    OBVIOUS
  <2> DEFINE k == i - n
  <2>1. k \in 1..Len(T) /\ i = n + k
    BY <1>1
  <2> HIDE DEF k
  <2>2. L[i] = T[k] /\ T[k] \in Elements(T)
    BY <1>1, <2>1 DEF Elements
  <2> QED  BY <2>2 DEF Clears
<1>7. ASSUME NEW cur, NEW i \in DOMAIN L, NEW j \in DOMAIN L, Clears(L[i], m), Sets(L[j], m, cur)
      PROVE  i < j
  <2>1. i \in 1..n
    BY <1>6, <1>7
  <2>2. j - n \in 1..Len(T) /\ j \in 1..n + Len(T)
    BY <1>1, <1>5, <1>7 DEF Sets
  <2> QED  BY <1>1, <2>1, <2>2
<1>8. ASSUME NEW cur, NEW i \in DOMAIN L, NEW j \in DOMAIN L, Sets(L[i], m, cur), Sets(L[j], m, cur)
      PROVE  i = j
  <2>1. /\ i - n \in DOMAIN T /\ i = n + (i - n) /\ L[i] = T[i - n]
        /\ j - n \in DOMAIN T /\ j = n + (j - n) /\ L[j] = T[j - n]
    BY <1>1, <1>5, <1>8 DEF Sets
  <2>2. i - n = j - n
    BY <1>8, <2>1 DEF Sets
  <2> QED  BY <2>1, <2>2
<1>9. ASSUME NEW cur, NEW j \in DOMAIN L, Sets(L[j], m, cur)
      PROVE  \E i \in DOMAIN L : Clears(L[i], m)
  <2>1. m \in Methods
    <3>1. L[j] \in Change /\ L[j].kind = "SetTable" /\ L[j].method = m
      BY <1>3, <1>9 DEF Sets
    <3> QED  BY <3>1 DEF Change
  <2>2. T # <<>>
    BY <1>1, <1>5, <1>9 DEF Sets
  <2>3. PICK c \in Elements(F) : Clears(c, m)
    BY <2>1, <2>2
  <2>4. c \in Elements(L)
    BY <1>2
  <2> QED  BY <2>3, <2>4 DEF Elements
<1>10. SetsAfterClears(L, m)
  BY <1>4, <1>7, <1>8, <1>9 DEF SetsAfterClears
<1> QED  BY <1>10 DEF L

LEMMA ScopeResetsAre ==
  ASSUME NEW archive
  PROVE  /\ ScopeResets(archive) \in Seq(Elements(ScopeResets(archive)))
         /\ \A c \in Elements(ScopeResets(archive)) : c.kind \in ResetKinds
         /\ archive.table # <<>> =>
              \A m \in Methods : \E c \in Elements(ScopeResets(archive)) : Clears(c, m)
<1> DEFINE A == ScopeResets(archive)
           Goal(L) ==
             /\ L \in Seq(Elements(L))
             /\ \A c \in Elements(L) : c.kind \in ResetKinds
             /\ archive.table # <<>> => \A m \in Methods : \E c \in Elements(L) : Clears(c, m)
<1>1. CASE archive.smart # <<>> /\ archive.table # <<>>
  <2> DEFINE c == [kind |-> "ResetLearning"]
             L == <<c>>
  <2>1. A = L
    BY <1>1 DEF ScopeResets
  <2>2. L \in Seq({c}) /\ Elements(L) = {c}
    BY DEF Elements
  <2>3. \A m : Clears(c, m)
    BY DEF Clears
  <2> HIDE DEF L
  <2>4. Goal(L)
    BY <2>2, <2>3 DEF ResetKinds
  <2> HIDE DEF Goal, A
  <2>5. Goal(A)
    BY <2>1, <2>4
  <2> QED  BY <2>5 DEF Goal, A
<1>2. CASE archive.smart # <<>> /\ archive.table = <<>>
  <2> DEFINE c == [kind |-> "ResetSmartLearning"]
             L == <<c>>
  <2>1. A = L
    BY <1>2 DEF ScopeResets
  <2>2. L \in Seq({c}) /\ Elements(L) = {c}
    BY DEF Elements
  <2> HIDE DEF L
  <2>4. Goal(L)
    BY <1>2, <2>2 DEF ResetKinds
  <2> HIDE DEF Goal, A
  <2>5. Goal(A)
    BY <2>1, <2>4
  <2> QED  BY <2>5 DEF Goal, A
<1>3. CASE archive.smart = <<>> /\ archive.table # <<>>
  <2> DEFINE N == <<"traditional", "cangjie", "simplex">>
             L == [i \in DOMAIN N |-> [kind |-> "ResetTableLearning", method |-> N[i]]]
  <2>1. A = L
    BY <1>3 DEF ScopeResets, Each
  <2>2. /\ DOMAIN L = 1..3
        /\ \A i \in 1..3 : L[i].kind = "ResetTableLearning"
        /\ L[1].method = "traditional" /\ L[2].method = "cangjie" /\ L[3].method = "simplex"
        /\ L = [i \in 1..3 |-> L[i]]
    <3>1. DOMAIN N = 1..3 /\ N[1] = "traditional" /\ N[2] = "cangjie" /\ N[3] = "simplex"
      OBVIOUS
    <3> HIDE DEF N
    <3> QED  BY <3>1
  <2> HIDE DEF L
  <2>3. L \in Seq(Elements(L))
    BY <2>2, Listed DEF Elements
  <2>4. \A m \in Methods : \E c \in Elements(L) : Clears(c, m)
    <3> TAKE m \in Methods
    <3>1. \E i \in 1..3 : L[i].method = m
      BY <2>2 DEF Methods
    <3> QED  BY <2>2, <3>1 DEF Elements, Clears
  <2>5. Goal(L)
    BY <2>2, <2>3, <2>4 DEF ResetKinds, Elements
  <2> HIDE DEF Goal, A
  <2>6. Goal(A)
    BY <2>1, <2>5
  <2> QED  BY <2>6 DEF Goal, A
<1>4. CASE archive.smart = <<>> /\ archive.table = <<>>
  <2>1. A = <<>>
    BY <1>4 DEF ScopeResets
  <2>2. Goal(<<>>)
    BY <1>4 DEF Elements
  <2> HIDE DEF Goal, A
  <2>5. Goal(A)
    BY <2>1, <2>2
  <2> QED  BY <2>5 DEF Goal, A
<1> QED  BY <1>1, <1>2, <1>3, <1>4

IsList(rows) == rows \in Seq(Range(rows))

LEMMA ListDomain ==
  ASSUME NEW rows, IsList(rows)
  PROVE  Len(rows) \in Nat /\ DOMAIN rows = 1..Len(rows)
BY DEF IsList

LEMMA NoKinds ==
  ASSUME NEW rows, IsList(rows), NEW L, L = [i \in DOMAIN rows |-> L[i]], NEW K,
         \A i \in DOMAIN rows : L[i].kind \in K
  PROVE  L \in Seq(Elements(L)) /\ \A c \in Elements(L) : c.kind \in K
<1>1. Len(rows) \in Nat /\ DOMAIN rows = 1..Len(rows)
  BY ListDomain
<1>2. DOMAIN L = DOMAIN rows
  OBVIOUS
<1>3. \A i \in 1..Len(rows) : L[i] \in Elements(L)
  BY <1>1, <1>2 DEF Elements
<1>4. L \in Seq(Elements(L))
  BY <1>1, <1>3, Listed
<1> QED  BY <1>2, <1>4 DEF Elements

LEMMA Wider ==
  ASSUME NEW X, NEW Y, X \subseteq Y, NEW f \in Seq(X)
  PROVE  f \in Seq(Y)
<1>1. Len(f) \in Nat /\ DOMAIN f = 1..Len(f) /\ f = [i \in 1..Len(f) |-> f[i]]
      /\ \A i \in 1..Len(f) : f[i] \in X
  OBVIOUS
<1> QED  BY <1>1, Listed

LEMMA JoinedLists ==
  ASSUME NEW f, f \in Seq(Elements(f)), NEW g, g \in Seq(Elements(g))
  PROVE  Elements(f \o g) = Elements(f) \cup Elements(g)
<1> DEFINE X == Elements(f) \cup Elements(g)
<1>1. f \in Seq(X) /\ g \in Seq(X)
  BY Wider
<1> HIDE DEF X
<1>2. f \o g \in Seq(X) /\ Elements(f \o g) = Elements(f) \cup Elements(g)
  BY <1>1, JoinedElements
<1> QED  BY <1>2

LEMMA ArchiveShape ==
  ASSUME NEW archive, ValidArchive(archive), IsList(archive.phrases),
         archive.smart # <<>> => IsList(archive.smart[1].overrides) /\ IsList(archive.smart[1].bigrams),
         archive.table # <<>> => IsList(archive.table[1]),
         ArchiveChanges(archive) \in Seq(Change)
  PROVE  Shaped(ArchiveChanges(archive))
<1> DEFINE A == ScopeResets(archive)
           rows == archive.phrases
           P == [i \in DOMAIN rows |->
                   [kind |-> "InsertPhraseIfAbsent", key |-> rows[i].key, score |-> rows[i].score]]
           over == archive.smart[1].overrides
           O == [i \in DOMAIN over |->
                   [kind |-> "SetOverride", qstring |-> over[i].qstring, current |-> over[i].current]]
           big == archive.smart[1].bigrams
           B == [i \in DOMAIN big |->
                   [kind |-> "SetBigram", qstring |-> big[i].qstring, current |-> big[i].current]]
           S == IF archive.smart = <<>> THEN <<>> ELSE O \o B
           freq == archive.table[1]
           T1 == [i \in DOMAIN freq |->
                    [kind |-> "SetTable", method |-> freq[i].method, current |-> freq[i].current,
                     count |-> freq[i].count]]
           T == IF archive.table = <<>> THEN <<>> ELSE T1
           Quiet == {"ResetLearning", "ResetSmartLearning", "ResetTableLearning",
                     "InsertPhraseIfAbsent", "SetOverride", "SetBigram"}
           F == A \o P \o S
<1>1. ArchiveChanges(archive) = F \o T
  BY DEF ArchiveChanges, Each
<1>2. A \in Seq(Elements(A)) /\ \A c \in Elements(A) : c.kind \in Quiet
  BY ScopeResetsAre DEF ResetKinds
<1>3. P \in Seq(Elements(P)) /\ \A c \in Elements(P) : c.kind \in Quiet
  <2>1. IsList(rows) /\ P = [i \in DOMAIN rows |-> P[i]] /\ \A i \in DOMAIN rows : P[i].kind \in Quiet
    OBVIOUS
  <2> HIDE DEF P, rows, Quiet
  <2> QED  BY <2>1, NoKinds
<1>4. S \in Seq(Elements(S)) /\ \A c \in Elements(S) : c.kind \in Quiet
  <2>1. CASE archive.smart = <<>>
    BY <2>1 DEF Elements
  <2>2. CASE archive.smart # <<>>
    <3>1. O \in Seq(Elements(O)) /\ \A c \in Elements(O) : c.kind \in Quiet
      <4>1. IsList(over) /\ O = [i \in DOMAIN over |-> O[i]] /\ \A i \in DOMAIN over : O[i].kind \in Quiet
        BY <2>2
      <4> HIDE DEF O, over, Quiet
      <4> QED  BY <4>1, NoKinds
    <3>2. B \in Seq(Elements(B)) /\ \A c \in Elements(B) : c.kind \in Quiet
      <4>1. IsList(big) /\ B = [i \in DOMAIN big |-> B[i]] /\ \A i \in DOMAIN big : B[i].kind \in Quiet
        BY <2>2
      <4> HIDE DEF B, big, Quiet
      <4> QED  BY <4>1, NoKinds
    <3>3. S = O \o B
      BY <2>2
    <3> HIDE DEF O, B, S, Quiet
    <3> DEFINE X == Elements(O) \cup Elements(B)
    <3>4. O \in Seq(X) /\ B \in Seq(X)
      BY <3>1, <3>2, Wider
    <3> HIDE DEF X
    <3>5. O \o B \in Seq(X) /\ Elements(O \o B) = Elements(O) \cup Elements(B)
      BY <3>4, JoinedElements
    <3> QED  BY <3>1, <3>2, <3>3, <3>5 DEF X
  <2> QED  BY <2>1, <2>2
<1>5. T \in Seq(Elements(T)) /\ \A c \in Elements(T) : c.kind \in {"SetTable"}
  <2>1. CASE archive.table = <<>>
    BY <2>1 DEF Elements
  <2>2. CASE archive.table # <<>>
    <3>1. IsList(freq) /\ T1 = [i \in DOMAIN freq |-> T1[i]] /\ \A i \in DOMAIN freq : T1[i].kind \in {"SetTable"}
      BY <2>2
    <3>2. T = T1
      BY <2>2
    <3> HIDE DEF T1, freq, T
    <3>3. T1 \in Seq(Elements(T1)) /\ \A c \in Elements(T1) : c.kind \in {"SetTable"}
      BY <3>1, NoKinds
    <3> QED  BY <3>2, <3>3
  <2> QED  BY <2>1, <2>2
<1>6. \A i, j \in DOMAIN T : T[i].method = T[j].method /\ T[i].current = T[j].current => i = j
  <2>1. CASE archive.table = <<>>
    BY <2>1
  <2>2. CASE archive.table # <<>>
    <3>1. \A i, j \in DOMAIN freq :
            <<freq[i].method, freq[i].current>> = <<freq[j].method, freq[j].current>> => i = j
      BY <2>2 DEF ValidArchive, ValidSnapshot, UniqueKeys
    <3> HIDE DEF freq
    <3>2. \A i \in DOMAIN freq : T1[i].method = freq[i].method /\ T1[i].current = freq[i].current
      OBVIOUS
    <3>3. T = T1 /\ DOMAIN T1 = DOMAIN freq
      BY <2>2
    <3> HIDE DEF T1, T
    <3> QED  BY <3>1, <3>2, <3>3
  <2> QED  BY <2>1, <2>2
<1>7. T # <<>> => archive.table # <<>>
  OBVIOUS
<1>8. archive.table # <<>> => \A m \in Methods : \E c \in Elements(A) : Clears(c, m)
  BY ScopeResetsAre
<1> HIDE DEF A, P, S, T
<1> DEFINE X == (Elements(A) \cup Elements(P)) \cup (Elements(S) \cup Elements(T))
<1>9. A \in Seq(X) /\ P \in Seq(X) /\ S \in Seq(X) /\ T \in Seq(X)
  BY <1>2, <1>3, <1>4, <1>5, Wider
<1> HIDE DEF X
<1>10. A \o P \in Seq(X) /\ Elements(A \o P) = Elements(A) \cup Elements(P)
  BY <1>9, JoinedElements
<1>11. F \in Seq(X) /\ Elements(F) = Elements(A \o P) \cup Elements(S)
  <2> DEFINE first == A \o P
  <2>1. first \in Seq(X)
    BY <1>10
  <2> HIDE DEF first
  <2>2. first \o S \in Seq(X) /\ Elements(first \o S) = Elements(first) \cup Elements(S)
    BY <1>9, <2>1, JoinedElements
  <2> QED  BY <2>2 DEF first
<1>12. \A c \in Elements(F) : c.kind \notin {"IncrementTable", "SetTable"}
  BY <1>2, <1>3, <1>4, <1>10, <1>11
<1>13. T # <<>> /\ Method \in Methods => \E c \in Elements(F) : Clears(c, Method)
  BY <1>7, <1>8, <1>10, <1>11
<1> HIDE DEF F
<1>14. F \o T \in Seq(Change)
  BY <1>1
<1>15. \A c \in Elements(T) : c.kind = "SetTable"
  BY <1>5
<1>16. SetsAfterClears(F \o T, Method)
  BY <1>6, <1>9, <1>11, <1>12, <1>13, <1>14, <1>15, SetsAtTheEnd
<1> QED  BY <1>1, <1>16 DEF Shaped

(* What a replacement asks for removes every phrase it knows of, and adds   *)
(* no phrase that is not in the new publication.                            *)
LEMMA ReplacementShape ==
  ASSUME NEW known, known \in Seq(PhraseRows), NEW rows, IsList(rows), NEW removals, NEW inserts,
         removals = [i \in DOMAIN known |-> [kind |-> "RemovePhrase", key |-> known[i].key]],
         inserts = [i \in DOMAIN rows |->
                      [kind |-> "UpsertPhrase", key |-> rows[i].key, score |-> rows[i].score]]
  PROVE  /\ Shaped(removals \o inserts)
         /\ Replaces(removals \o inserts, rows, {known[i].key : i \in DOMAIN known})
<1>1. removals = [i \in DOMAIN known |-> removals[i]] /\ DOMAIN removals = DOMAIN known
      /\ \A i \in DOMAIN known : removals[i].kind = "RemovePhrase" /\ removals[i].key = known[i].key
  OBVIOUS
<1>2. inserts = [i \in DOMAIN rows |-> inserts[i]] /\ DOMAIN inserts = DOMAIN rows
      /\ \A i \in DOMAIN rows : inserts[i].kind = "UpsertPhrase" /\ inserts[i].key = rows[i].key
  OBVIOUS
<1>3. IsList(known)
  <2>1. Len(known) \in Nat /\ DOMAIN known = 1..Len(known) /\ known = [i \in 1..Len(known) |-> known[i]]
    OBVIOUS
  <2>2. \A i \in 1..Len(known) : known[i] \in Range(known)
    BY <2>1 DEF Range
  <2> QED  BY <2>1, <2>2, Listed DEF IsList
<1>4. /\ removals \in Seq(Elements(removals))
      /\ \A c \in Elements(removals) : c.kind \in {"RemovePhrase"}
  BY <1>1, <1>3, NoKinds
<1>5. /\ inserts \in Seq(Elements(inserts))
      /\ \A c \in Elements(inserts) : c.kind \in {"UpsertPhrase"}
  BY <1>2, NoKinds
<1> DEFINE L == removals \o inserts
<1>7. Elements(L) = Elements(removals) \cup Elements(inserts)
  BY <1>4, <1>5, JoinedLists
<1> HIDE DEF L
<1>8. \A i \in DOMAIN L : L[i] \in Elements(removals) \cup Elements(inserts)
  BY <1>7 DEF Elements
<1>9. Shaped(L)
  <2>1. \A i \in DOMAIN L : L[i].kind \notin {"IncrementTable", "SetTable"}
    BY <1>4, <1>5, <1>8
  <2> QED  BY <2>1, WithoutCounts DEF Shaped
<1>10. ASSUME NEW k \in DOMAIN known PROVE \E i \in DOMAIN L : Removes(L[i], known[k].key)
  <2>1. removals[k] \in Elements(L)
    BY <1>1, <1>7 DEF Elements
  <2>2. PICK i \in DOMAIN L : L[i] = removals[k]
    BY <2>1 DEF Elements
  <2> QED  BY <1>1, <2>2 DEF Removes
<1>11. ASSUME NEW i \in DOMAIN L, NEW key, Adds(L[i], key)
       PROVE  \E j \in DOMAIN rows : rows[j].key = key
  <2>1. L[i] \in Elements(inserts)
    BY <1>4, <1>8, <1>11 DEF Adds
  <2>2. PICK j \in DOMAIN rows : L[i] = inserts[j]
    BY <1>2, <2>1 DEF Elements
  <2> QED  BY <1>2, <1>11, <2>2 DEF Adds
<1>12. Replaces(L, rows, {known[i].key : i \in DOMAIN known})
  BY <1>10, <1>11 DEF Replaces
<1> QED  BY <1>9, <1>12 DEF L

-----------------------------------------------------------------------------
(* Executing: a call is over, or goes on with a list of that shape.         *)

Over(s) == pc' = [pc EXCEPT ![s] = "idle"] /\ UNCHANGED <<db, call, log>>

Requests(s, L) ==
  /\ L \in Seq(Change) /\ RequestOK(L, call[s])
  /\ pc' = [pc EXCEPT ![s] = "save"] /\ UNCHANGED <<db, log>>
  /\ \E text : call' = [call EXCEPT ![s].changes = L, ![s].text = text]

Outcome(s) == Over(s) \/ \E L : Requests(s, L)

LEMMA DoneIsOver ==
  ASSUME NEW s
  PROVE  /\ \A panel, text : Done(s, panel, text) => Outcome(s)
         /\ \A status : ReturnError(s, status) => Outcome(s)
BY DEF Done, ReturnError, Return, Over, Outcome

LEMMA AskRequests ==
  ASSUME NEW s, NEW panel, NEW L, NEW text, Ask(s, panel, L, text),
         L \in Seq(Change) => RequestOK(L, call[s])
  PROVE  Outcome(s)
<1>1. CASE L = <<>>
  BY <1>1, DoneIsOver DEF Ask
<1>2. CASE L # <<>> /\ L \notin Seq(Change)
  BY <1>2, DoneIsOver DEF Ask
<1>3. CASE L # <<>> /\ L \in Seq(Change)
  BY <1>3 DEF Ask, Requests, Outcome
<1> QED  BY <1>1, <1>2, <1>3

LEMMA ExecuteRequests ==
  ASSUME IInv, RowsTyped, NEW s \in Sessions, CallData(s), Execute(s)
  PROVE  Outcome(s)
<1> DEFINE op == call[s].op
<1>1. pc[s] = "execute"
  BY DEF Execute, Executes, Lookup, MoveHighlight, Select, SelectOutside, FinishComposition,
         ResetLearning, ResetMethodLearning, AddUserPhrase, UpdateUserPhrase,
         RemoveUserPhrase, ReplaceUserPhrases, ImportUserData
<1>2. op \in Operations
  BY <1>1 DEF CallData, InCall
<1>3. ASSUME NEW panel, NEW L, NEW text, Ask(s, panel, L, text), Shaped(L), ~IsReplacement(op)
      PROVE  Outcome(s)
  BY <1>3, AskRequests DEF RequestOK
<1>4. ASSUME NEW panel, NEW c, NEW text, Ask(s, panel, <<c>>, text), ~IsReplacement(op),
             c.kind \notin {"IncrementTable", "SetTable"}
      PROVE  Outcome(s)
  BY <1>3, <1>4, ShortLists
<1>5. CASE Lookup(s)
  BY <1>5, DoneIsOver DEF Lookup
<1>6. CASE MoveHighlight(s)
  BY <1>6, DoneIsOver DEF MoveHighlight
<1>7. CASE Select(s)
  <2> DEFINE word == local[s].panel.list[op.index]
             learned == [kind |-> "IncrementTable", method |-> Method, current |-> word]
  <2>1. Shaped(<<learned>>) /\ ~IsReplacement(op)
    BY <1>7 DEF Shaped, OneIncrement, IsReplacement, Select, Executes
  <2>2. Done(s, Closed, word) \/ Ask(s, Closed, <<learned>>, word)
    BY <1>7 DEF Select
  <2> HIDE DEF word, learned, op
  <2> QED  BY <1>3, <2>1, <2>2, DoneIsOver
<1>8. CASE SelectOutside(s)
  BY <1>8, DoneIsOver DEF SelectOutside
<1>9. CASE FinishComposition(s)
  BY <1>9, DoneIsOver DEF FinishComposition
<1>10. CASE ResetLearning(s)
  <2> DEFINE c == [kind |-> "ResetLearning"]
  <2>1. Ask(s, Closed, <<c>>, NoText) /\ ~IsReplacement(op) /\ c.kind \notin {"IncrementTable", "SetTable"}
    BY <1>10 DEF ResetLearning, Executes, IsReplacement
  <2> HIDE DEF c, op
  <2> QED  BY <1>4, <2>1
<1>11. CASE ResetMethodLearning(s)
  <2> DEFINE c == IF op.method = "smart" THEN [kind |-> "ResetSmartLearning"]
                  ELSE [kind |-> "ResetTableLearning", method |-> op.method]
             panel == IF op.method = Method THEN Closed ELSE local[s].panel
  <2>1. /\ ReturnError(s, "invalid") \/ Ask(s, panel, <<c>>, NoText)
        /\ ~IsReplacement(op) /\ c.kind \notin {"IncrementTable", "SetTable"}
    BY <1>11 DEF ResetMethodLearning, Executes, IsReplacement
  <2> HIDE DEF c, op, panel
  <2> QED  BY <1>4, <2>1, DoneIsOver
<1>12. CASE AddUserPhrase(s)
  <2> DEFINE c == [kind |-> "UpsertPhrase", key |-> op.key, score |-> 0]
  <2>1. /\ Done(s, local[s].panel, NoText) \/ Ask(s, Closed, <<c>>, NoText)
        /\ ~IsReplacement(op) /\ c.kind \notin {"IncrementTable", "SetTable"}
    BY <1>12 DEF AddUserPhrase, Executes, IsReplacement
  <2> HIDE DEF c, op
  <2> QED  BY <1>4, <2>1, DoneIsOver
<1>13. CASE UpdateUserPhrase(s)
  <2> DEFINE c == [kind |-> "RemovePhrase", key |-> op.key]
             d == [kind |-> "UpsertPhrase", key |-> op.new, score |-> 0]
  <2>1. /\ \/ Done(s, local[s].panel, NoText) \/ ReturnError(s, "invalid")
           \/ Ask(s, Closed, <<c, d>>, NoText)
        /\ ~IsReplacement(op)
    BY <1>13 DEF UpdateUserPhrase, Executes, IsReplacement
  <2>2. Shaped(<<c, d>>)
    BY ShortLists
  <2> HIDE DEF c, d, op
  <2> QED  BY <1>3, <2>1, <2>2, DoneIsOver
<1>14. CASE RemoveUserPhrase(s)
  <2> DEFINE c == [kind |-> "RemovePhrase", key |-> op.key]
  <2>1. Ask(s, Closed, <<c>>, NoText) /\ ~IsReplacement(op) /\ c.kind \notin {"IncrementTable", "SetTable"}
    BY <1>14 DEF RemoveUserPhrase, Executes, IsReplacement
  <2> HIDE DEF c, op
  <2> QED  BY <1>4, <2>1
<1>15. CASE ReplaceUserPhrases(s)
  <2> DEFINE known == local[s].user.phrases
             rows == op.phrases
             removals == [i \in DOMAIN known |-> [kind |-> "RemovePhrase", key |-> known[i].key]]
             inserts == [i \in DOMAIN rows |->
                           [kind |-> "UpsertPhrase", key |-> rows[i].key, score |-> rows[i].score]]
  <2>1. \/ Done(s, local[s].panel, NoText) \/ ReturnError(s, "invalid")
        \/ Ask(s, Closed, removals \o inserts, NoText)
    BY <1>15 DEF ReplaceUserPhrases
  <2>2. IsList(rows)
    BY <1>2, <1>15, OperationsAssumption DEF IsList, ReplaceUserPhrases, Executes
  <2>3. local[s].user = At(call[s].base) /\ call[s].base \in 0..db.revision
    BY <1>1 DEF IInv, SessionOK, Recorded
  <2>4. known \in Seq(PhraseRows)
    BY <2>3 DEF RowsTyped
  <2> DEFINE keys == {known[i].key : i \in DOMAIN known}
             L == removals \o inserts
  <2>5. Shaped(L) /\ Replaces(L, rows, keys)
    <3>1. known \in Seq(PhraseRows) /\ IsList(rows)
      BY <2>2, <2>4
    <3>2. /\ Shaped(removals \o inserts)
          /\ Replaces(removals \o inserts, rows, {known[i].key : i \in DOMAIN known})
      <4> HIDE DEF known, rows
      <4> QED  BY <3>1, ReplacementShape
    <3> QED  BY <3>2
  <2>6. keys = PhraseKeys(At(call[s].base))
    BY <2>3 DEF PhraseKeys
  <2>7. Ask(s, Closed, L, NoText) => Outcome(s)
    <3> HIDE DEF L, keys
    <3>1. RequestOK(L, call[s])
      BY <2>5, <2>6 DEF RequestOK
    <3> QED  BY <3>1, AskRequests
  <2> QED  BY <2>1, <2>7, DoneIsOver
<1>16. CASE ImportUserData(s)
  <2> DEFINE archive == op.archive
             L == ArchiveChanges(archive)
  <2>1. /\ ReturnError(s, "invalid") \/ (ValidArchive(archive) /\ Ask(s, Closed, L, NoText))
        /\ op.type = "import_user_data"
    BY <1>16 DEF ImportUserData, Executes
  <2>2. /\ IsList(archive.phrases)
        /\ archive.smart # <<>> => IsList(archive.smart[1].overrides) /\ IsList(archive.smart[1].bigrams)
        /\ archive.table # <<>> => IsList(archive.table[1])
    BY <1>2, <2>1, OperationsAssumption DEF IsList
  <2>3. ~IsReplacement(op)
    BY <2>1 DEF IsReplacement
  <2> HIDE DEF archive, op
  <2>4. ValidArchive(archive) /\ L \in Seq(Change) => Shaped(L)
    BY <2>2, ArchiveShape
  <2> HIDE DEF L
  <2>5. ValidArchive(archive) /\ Ask(s, Closed, L, NoText) => Outcome(s)
    BY <2>3, <2>4, AskRequests DEF RequestOK, op
  <2> QED  BY <2>1, <2>5, DoneIsOver
<1> QED
  BY <1>5, <1>6, <1>7, <1>8, <1>9, <1>10, <1>11, <1>12, <1>13, <1>14, <1>15, <1>16 DEF Execute

-----------------------------------------------------------------------------
(* CommittedCount, of any log.                                              *)

CommittedIn(lg, current) ==
  LET Touches(c) == \/ c.kind = "ResetLearning"
                    \/ c.kind = "ResetTableLearning" /\ c.method = Method
      ClearsAt(r) == \E i \in DOMAIN lg[r].changes : Touches(lg[r].changes[i])
      cleared == {r \in DOMAIN lg : ClearsAt(r)}
      from == IF cleared = {} THEN 0 ELSE CHOOSE r \in cleared : \A q \in cleared : q <= r
      imported == IF from = 0 THEN {} ELSE
                    {c \in Range(lg[from].changes) :
                       c.kind = "SetTable" /\ c.method = Method /\ c.current = current}
      one == [kind |-> "IncrementTable", method |-> Method, current |-> current]
  IN  (IF imported = {} THEN 0 ELSE (CHOOSE c \in imported : TRUE).count)
      + Cardinality({r \in DOMAIN lg : r > from /\ one \in Range(lg[r].changes)})

One(cur) == [kind |-> "IncrementTable", method |-> Method, current |-> cur]
ClearsIn(L) == \E i \in DOMAIN L : Clears(L[i], Method)
SetBy(L, cur) == {c \in Range(L) : Sets(c, Method, cur)}
CountLeft(L, cur) == IF SetBy(L, cur) = {} THEN 0 ELSE (CHOOSE c \in SetBy(L, cur) : TRUE).count
LeftAt(lg, from, cur) == IF from = 0 THEN 0 ELSE CountLeft(lg[from].changes, cur)
Since(lg, from, cur) == {r \in DOMAIN lg : r > from /\ One(cur) \in Range(lg[r].changes)}

LastClear(lg, f) ==
  /\ f # 0 => f \in DOMAIN lg /\ ClearsIn(lg[f].changes)
  /\ \A r \in DOMAIN lg : ClearsIn(lg[r].changes) => r <= f

LEMMA ClearedLast ==
  ASSUME NEW n \in Nat, NEW lg, DOMAIN lg = 1..n
  PROVE  \E f \in 0..n : LastClear(lg, f)
<1> DEFINE cleared == {r \in 1..n : ClearsIn(lg[r].changes)}
<1>1. CASE cleared = {}
  BY <1>1 DEF LastClear
<1>2. CASE cleared # {}
  <2>1. cleared \subseteq Nat /\ IsFiniteSet(cleared)
    <3>1. IsFiniteSet(1..n)
      BY FS_Interval
    <3> QED  BY <3>1, FS_Subset
  <2>2. \E m \in cleared : \A x \in cleared : x <= m
    <3> HIDE DEF cleared
    <3> QED  BY <1>2, <2>1, HasGreatest
  <2> QED  BY <2>2 DEF LastClear
<1> QED  BY <1>1, <1>2

LEMMA CommittedFrom ==
  ASSUME NEW n \in Nat, NEW lg, DOMAIN lg = 1..n, NEW f \in 0..n, LastClear(lg, f), NEW cur
  PROVE  CommittedIn(lg, cur) = LeftAt(lg, f, cur) + Cardinality(Since(lg, f, cur))
<1> DEFINE cleared == {r \in DOMAIN lg : ClearsIn(lg[r].changes)}
           from == IF cleared = {} THEN 0 ELSE CHOOSE r \in cleared : \A q \in cleared : q <= r
           imported == IF from = 0 THEN {} ELSE SetBy(lg[from].changes, cur)
<1>1. CommittedIn(lg, cur) =
        (IF imported = {} THEN 0 ELSE (CHOOSE c \in imported : TRUE).count)
        + Cardinality(Since(lg, from, cur))
  BY DEF CommittedIn, ClearsIn, Clears, SetBy, Sets, Since, One
<1>2. from = f
  <2>1. CASE cleared = {}
    BY <2>1 DEF LastClear
  <2>2. CASE cleared # {}
    <3>1. f # 0 /\ f \in cleared /\ \A q \in cleared : q <= f
      BY <2>2 DEF LastClear
    <3>2. \A r \in cleared : r \in Nat
      OBVIOUS
    <3>3. from = CHOOSE r \in cleared : \A q \in cleared : q <= r
      BY <2>2
    <3> HIDE DEF cleared, from
    <3>4. from \in cleared /\ \A q \in cleared : q <= from
      BY <3>1, <3>3
    <3> QED  BY <3>1, <3>2, <3>4
  <2> QED  BY <2>1, <2>2
<1> HIDE DEF from
<1> QED  BY <1>1, <1>2 DEF LeftAt, CountLeft

LEMMA CountIsOfLog == \A cur : CommittedCount(cur) = CommittedIn(log, cur)
BY DEF CommittedCount, CommittedIn

(* A commit that clears the method leaves what it sets; one that does not   *)
(* adds one to the candidate it learned, if any.                            *)
LEMMA ShapedCounts ==
  ASSUME NEW data, data.table \in Seq(CountRows), KeyedRows(data.table),
         NEW L \in Seq(Change), Shaped(L), NEW cur,
         NEW n, n = CountOf(FoldLeft(ApplyChange, data, L), Method, cur)
  PROVE  /\ ClearsIn(L) => n = CountLeft(L, cur) /\ One(cur) \notin Range(L)
         /\ ~ClearsIn(L) => n = CountOf(data, Method, cur) + (IF One(cur) \in Range(L) THEN 1 ELSE 0)
<1> DEFINE old == CountOf(data, Method, cur)
<1>0. old \in Nat
  <2>1. CountIs(data.table, Method, cur, old)
    BY CountOfIs
  <2>2. \A i \in DOMAIN data.table : data.table[i].count \in Nat
    <3>1. \A i \in DOMAIN data.table : data.table[i] \in CountRows
      OBVIOUS
    <3> QED  BY <3>1 DEF CountRows
  <2> HIDE DEF old
  <2> QED  BY <2>1, <2>2 DEF CountIs
<1>1. ASSUME NEW w, OneIncrement(L, w)
      PROVE  ~ClearsIn(L) /\ n = old + (IF One(cur) \in Range(L) THEN 1 ELSE 0)
  <2> DEFINE c == [kind |-> "IncrementTable", method |-> Method, current |-> w]
  <2>1. L = <<c>> /\ c.kind = "IncrementTable" /\ c.method = Method /\ c.current = w
    BY <1>1 DEF OneIncrement
  <2>2. One(cur) \in Range(L) <=> cur = w
    BY <2>1 DEF Range, One
  <2>3. ~ClearsIn(L)
    BY <2>1 DEF ClearsIn, Clears
  <2>4. c \in Change
    <3>1. L[1] = c /\ L[1] \in Change
      BY <2>1
    <3> QED  BY <3>1
  <2> HIDE DEF c
  <2>5. n = CountOf(ApplyChange(data, c), Method, cur)
    BY <2>1, <2>4, OneChange
  <2>6. CountOf(ApplyChange(data, c), Method, cur) = CountStep(old, c, Method, cur)
    BY <2>4, CountsChange
  <2> HIDE DEF old
  <2> QED  BY <1>0, <2>1, <2>2, <2>3, <2>5, <2>6 DEF CountStep
<1>2. ASSUME SetsAfterClears(L, Method)
      PROVE  /\ ClearsIn(L) => n = CountLeft(L, cur)
             /\ ~ClearsIn(L) => n = old
             /\ One(cur) \notin Range(L)
  <2>1. /\ (\A i \in DOMAIN L : ~Clears(L[i], Method)) => n = old
        /\ (\E i \in DOMAIN L : Clears(L[i], Method))
             /\ (\A i \in DOMAIN L : ~Sets(L[i], Method, cur)) => n = 0
        /\ \A i \in DOMAIN L : Sets(L[i], Method, cur) => n = L[i].count
    BY <1>2, CountAfterImport
  <2> HIDE DEF old
  <2>2. One(cur) \notin Range(L)
    BY <1>2 DEF SetsAfterClears, Range, One
  <2>3. ASSUME ClearsIn(L) PROVE n = CountLeft(L, cur)
    <3>1. CASE SetBy(L, cur) = {}
      <4>1. \A i \in DOMAIN L : ~Sets(L[i], Method, cur)
        BY <3>1 DEF SetBy, Range
      <4> QED  BY <2>1, <2>3, <3>1, <4>1 DEF CountLeft, ClearsIn
    <3>2. CASE SetBy(L, cur) # {}
      <4> DEFINE c == CHOOSE d \in SetBy(L, cur) : TRUE
      <4>1. c \in SetBy(L, cur) /\ CountLeft(L, cur) = c.count
        BY <3>2 DEF CountLeft
      <4> HIDE DEF c
      <4>2. PICK i \in DOMAIN L : c = L[i] /\ Sets(L[i], Method, cur)
        BY <4>1 DEF SetBy, Range
      <4> QED  BY <2>1, <4>1, <4>2
    <3> QED  BY <3>1, <3>2
  <2> QED  BY <2>1, <2>2, <2>3 DEF ClearsIn
<1> HIDE DEF old
<1>3. n = old => n = old + 0
  BY <1>0
<1> QED  BY <1>1, <1>2, <1>3 DEF Shaped, old

(* The snapshot a commit makes. *)
LEMMA SavedRows ==
  ASSUME DInv, NEW s \in Sessions, Save(s), NEW L, L = call[s].changes
  PROVE  /\ L \in Seq(Change) /\ RequestOK(L, call[s])
         /\ db.phrases \in Seq(PhraseRows)
         /\ db.table \in Seq(CountRows) /\ KeyedRows(db.table)
         /\ db'.phrases = FoldLeft(ApplyChange, db, L).phrases
         /\ db'.table = FoldLeft(ApplyChange, db, L).table
<1>1. Saves(s)
  BY DEF Save, Saving, Saves
<1>2. L \in Seq(Change) /\ RequestOK(L, call[s])
  BY <1>1 DEF DInv, IInv, SessionOK, DataOK, CallData
<1>3. db.revision \in 0..db.revision /\ db = At(db.revision)
  BY DEF DInv, IInv, History, LogComplete
<1>4. db' = Preview(db, L)
  BY DEF Save, Stored
<1>5. /\ Preview(db, L).phrases = FoldLeft(ApplyChange, db, L).phrases
      /\ Preview(db, L).table = FoldLeft(ApplyChange, db, L).table
  BY DEF Preview
<1>6. /\ At(db.revision).phrases \in Seq(PhraseRows)
      /\ At(db.revision).table \in Seq(CountRows) /\ KeyedRows(At(db.revision).table)
  BY <1>3 DEF DInv, DataOK, RowsTyped
<1> QED  BY <1>2, <1>3, <1>4, <1>5, <1>6

LEMMA TableAfter ==
  ASSUME NEW data, data.table \in Seq(CountRows), KeyedRows(data.table), NEW L \in Seq(Change)
  PROVE  /\ FoldLeft(ApplyChange, data, L).table \in Seq(CountRows)
         /\ KeyedRows(FoldLeft(ApplyChange, data, L).table)
<1>1. PICK f : Runs(f, data, L) /\ FoldLeft(ApplyChange, data, L) = f[Len(L)]
  BY FoldRuns
<1>2. Len(L) \in 0..Len(L)
  OBVIOUS
<1>3. f[Len(L)].table \in Seq(CountRows) /\ KeyedRows(f[Len(L)].table)
  BY <1>1, <1>2, CountsTyped
<1> QED  BY <1>1, <1>3

LEMMA SaveTypes == ASSUME DInv, NEW s \in Sessions, Save(s) PROVE RowsTyped'
<1>0. PICK n \in Nat : n = db.revision
  BY DEF DInv, IInv, History, LogComplete
<1>1. /\ db'.revision = n + 1 /\ At(n + 1)' = db'
      /\ \A r \in 0..n : At(r)' = At(r)
  BY <1>0, SaveAppends DEF DInv
<1> DEFINE L == call[s].changes
           rows == FoldLeft(ApplyChange, db, L)
<1>2. /\ L \in Seq(Change)
      /\ db.phrases \in Seq(PhraseRows) /\ db.table \in Seq(CountRows) /\ KeyedRows(db.table)
      /\ db'.phrases = rows.phrases /\ db'.table = rows.table
  BY SavedRows
<1>3. rows.phrases \in Seq(PhraseRows)
  BY <1>2, PhrasesAfter
<1>4. rows.table \in Seq(CountRows) /\ KeyedRows(rows.table)
  BY <1>2, TableAfter
<1> HIDE DEF rows
<1>5. \A r \in 0..(n + 1) : r \in 0..n \/ r = n + 1
  OBVIOUS
<1>6. ASSUME NEW r \in 0..n
      PROVE  /\ At(r)'.phrases \in Seq(PhraseRows)
             /\ At(r)'.table \in Seq(CountRows) /\ KeyedRows(At(r)'.table)
  BY <1>0, <1>1 DEF DInv, DataOK, RowsTyped
<1>7. ASSUME NEW r \in 0..(n + 1)
      PROVE  /\ At(r)'.phrases \in Seq(PhraseRows)
             /\ At(r)'.table \in Seq(CountRows) /\ KeyedRows(At(r)'.table)
  <2>1. CASE r \in 0..n
    BY <1>6, <2>1
  <2>2. CASE r = n + 1
    BY <1>1, <1>2, <1>3, <1>4, <2>2
  <2> QED  BY <1>5, <2>1, <2>2
<1> QED  BY <1>1, <1>7 DEF RowsTyped, KeyedRows

LEMMA SaveLists == ASSUME DInv, NEW s \in Sessions, Save(s) PROVE ListsTyped'
<1>0. PICK n \in Nat : n = db.revision
  BY DEF DInv, IInv, History, LogComplete
<1>1. /\ db'.revision = n + 1 /\ log'[n + 1].changes = call[s].changes
      /\ \A r \in 1..n : log'[r] = log[r]
  BY <1>0, SaveAppends DEF DInv
<1>2. call[s].changes \in Seq(Change)
  BY SavedRows
<1>3. \A r \in 1..n : log'[r].changes \in Seq(Change)
  BY <1>0, <1>1 DEF DInv, DataOK, ListsTyped
<1>4. \A r \in 1..(n + 1) : r \in 1..n \/ r = n + 1
  OBVIOUS
<1> QED  BY <1>1, <1>2, <1>3, <1>4 DEF ListsTyped

(* The replaced phrases are gone, unless the session did not know them.     *)
LEMMA SaveReplaces == ASSUME DInv, NEW s \in Sessions, Save(s) PROVE SurvivorsWereUnseen'
<1>0. PICK n \in Nat : n = db.revision
  BY DEF DInv, IInv, History, LogComplete
<1> DEFINE L == call[s].changes
           rows == FoldLeft(ApplyChange, db, L)
           op == call[s].op
<1>1. /\ DOMAIN log' = 1..(n + 1) /\ DOMAIN log = 1..n
      /\ \A r \in 1..n : log'[r] = log[r] /\ log[r].base \in 0..n
      /\ \A r \in 0..n : At(r)' = At(r)
      /\ At(n + 1)' = db' /\ call[s].base \in 0..n
      /\ log'[n + 1].base = call[s].base
  <2>1. /\ DOMAIN log' = 1..(n + 1) /\ \A r \in 1..n : log'[r] = log[r]
        /\ \A r \in 0..n : At(r)' = At(r)
        /\ At(n + 1)' = db' /\ log'[n + 1].base = call[s].base
    BY <1>0, SaveAppends DEF DInv
  <2>2. DOMAIN log = 1..n /\ call[s].base \in 0..n
    BY <1>0 DEF DInv, IInv, History, LogComplete, SessionOK
  <2>3. \A r \in 1..n : log[r].base \in 0..n
    BY <1>0 DEF DInv, IInv, History, LogFaithful
  <2> QED  BY <2>1, <2>2, <2>3
<1>2. log'[n + 1].op = op /\ log'[n + 1].after = db'
  <2>1. Stored(s, db).revision = n + 1 /\ db' = Stored(s, db)
    BY <1>0, SaveAppends DEF DInv, Save
  <2> HIDE DEF op
  <2> QED  BY <1>0, <2>1 DEF Save, op
<1>3. /\ L \in Seq(Change) /\ RequestOK(L, call[s]) /\ db.phrases \in Seq(PhraseRows)
      /\ db'.phrases = rows.phrases
  BY SavedRows
<1>4. \A key \in PhraseKeys(rows) :
        \/ key \in PhraseKeys(db) /\ \A i \in DOMAIN L : ~Removes(L[i], key)
        \/ \E i \in DOMAIN L : Adds(L[i], key)
  BY <1>3, PhrasesAfter
<1>5. PhraseKeys(db') = PhraseKeys(rows)
  BY <1>3 DEF PhraseKeys
<1> HIDE DEF rows, L
<1>6. ASSUME IsReplacement(op), NEW key \in PhraseKeys(db')
      PROVE  \/ \E i \in DOMAIN op.phrases : op.phrases[i].key = key
             \/ key \notin PhraseKeys(At(call[s].base))
  BY <1>3, <1>4, <1>5, <1>6 DEF RequestOK, Replaces
<1>7. ASSUME NEW r \in 1..n, log'[r].op.type = "replace_user_phrases", NEW key \in PhraseKeys(log'[r].after)
      PROVE  \/ \E i \in DOMAIN log'[r].op.phrases : log'[r].op.phrases[i].key = key
             \/ key \notin PhraseKeys(At(log[r].base))
  BY <1>1, <1>7 DEF DInv, DataOK, SurvivorsWereUnseen
<1>8. ASSUME NEW r \in 1..(n + 1), log'[r].op.type = "replace_user_phrases",
             NEW key \in PhraseKeys(log'[r].after)
      PROVE  \/ \E i \in DOMAIN log'[r].op.phrases : log'[r].op.phrases[i].key = key
             \/ key \notin PhraseKeys(At(log[r].base)')
  <2>1. CASE r \in 1..n
    <3>1. At(log[r].base)' = At(log[r].base)
      BY <1>1, <2>1 DEF At
    <3> QED  BY <1>7, <1>8, <2>1, <3>1
  <2>2. CASE r = n + 1
    <3>1. At(log[r].base)' = At(call[s].base)
      BY <1>1, <2>2 DEF At
    <3>2. IsReplacement(op)
      BY <1>2, <1>8, <2>2 DEF IsReplacement
    <3> QED  BY <1>2, <1>6, <1>8, <2>2, <3>1, <3>2
  <2>3. r \in 1..n \/ r = n + 1
    OBVIOUS
  <2> QED  BY <2>1, <2>2, <2>3
<1> QED  BY <1>1, <1>8 DEF SurvivorsWereUnseen, PhraseKeys

LEMMA SaveCounts == ASSUME DInv, NEW s \in Sessions, Save(s) PROVE AllCounted'
<1>0. PICK n \in Nat : n = db.revision
  BY DEF DInv, IInv, History, LogComplete
<1> DEFINE L == call[s].changes
           lg == log
           new == log'
<1>1. /\ DOMAIN new = 1..(n + 1) /\ DOMAIN lg = 1..n
      /\ \A r \in 1..n : new[r] = lg[r]
      /\ new[n + 1].changes = L
  <2>1. DOMAIN log = 1..n
    BY <1>0 DEF DInv, IInv, History, LogComplete
  <2> QED  BY <1>0, <2>1, SaveAppends DEF DInv
<1>2. /\ L \in Seq(Change) /\ Shaped(L)
      /\ db.table \in Seq(CountRows) /\ KeyedRows(db.table)
      /\ db'.table = FoldLeft(ApplyChange, db, L).table
  BY SavedRows DEF RequestOK
<1>3. PICK f \in 0..n : LastClear(lg, f)
  BY <1>1, ClearedLast
<1>4. SUFFICES ASSUME NEW cur PROVE CountOf(db', Method, cur) = CommittedIn(new, cur)
  BY DEF AllCounted, CountOf, CommittedCount, CommittedIn
<1>5. CountOf(db', Method, cur) = CountOf(FoldLeft(ApplyChange, db, L), Method, cur)
  BY <1>2 DEF CountOf
<1> DEFINE k == CountOf(db', Method, cur)
           old == CountOf(db, Method, cur)
<1>6. /\ ClearsIn(L) => k = CountLeft(L, cur) /\ One(cur) \notin Range(L)
      /\ ~ClearsIn(L) => k = old + (IF One(cur) \in Range(L) THEN 1 ELSE 0)
  BY <1>2, <1>5, ShapedCounts
<1>7. old = CommittedIn(lg, cur)
  BY CountIsOfLog DEF DInv, DataOK, AllCounted
<1>8. CommittedIn(lg, cur) = LeftAt(lg, f, cur) + Cardinality(Since(lg, f, cur))
  BY <1>1, <1>3, CommittedFrom
<1> HIDE DEF L, lg, new, k, old
<1>9. IsFiniteSet(Since(lg, f, cur)) /\ Cardinality(Since(lg, f, cur)) \in Nat
  <2>1. IsFiniteSet(1..n)
    BY FS_Interval
  <2>2. IsFiniteSet(Since(lg, f, cur))
    BY <1>1, <2>1, FS_Subset DEF Since
  <2> QED  BY <2>2, FS_CardinalityType
<1>14. LeftAt(lg, f, cur) \in Nat
  <2>1. CASE f = 0
    BY <2>1 DEF LeftAt
  <2>2. CASE f # 0
    <3> DEFINE K == lg[f].changes
               c == CHOOSE d \in SetBy(K, cur) : TRUE
    <3>1. K \in Seq(Change)
      BY <1>0, <2>2 DEF DInv, DataOK, ListsTyped, lg
    <3>2. \A i \in DOMAIN K : K[i] \in Change
      BY <3>1
    <3> HIDE DEF K
    <3>3. \A d \in SetBy(K, cur) : d \in Change /\ d.kind = "SetTable"
      BY <3>2 DEF SetBy, Range, Sets
    <3>4. \A d \in SetBy(K, cur) : d.count \in Nat
      BY <3>3 DEF Change
    <3>5. SetBy(K, cur) # {} => c \in SetBy(K, cur)
      OBVIOUS
    <3>6. CountLeft(K, cur) = IF SetBy(K, cur) = {} THEN 0 ELSE c.count
      BY DEF CountLeft
    <3> HIDE DEF c
    <3>7. CountLeft(K, cur) \in Nat
      BY <3>4, <3>5, <3>6
    <3> QED  BY <2>2, <3>7 DEF LeftAt, K
  <2> QED  BY <2>1, <2>2
<1>10. n + 1 \in Nat /\ n + 1 \in 1..(n + 1) /\ n + 1 # 0 /\ \A r \in 1..(n + 1) : r \in 1..n \/ r = n + 1
  OBVIOUS
<1>11. k \in Nat \/ ~ClearsIn(L)
  <2>1. \A i \in DOMAIN db'.table : db'.table[i].count \in Nat
    <3>1. db'.table \in Seq(CountRows)
      BY <1>2, TableAfter
    <3>2. \A i \in DOMAIN db'.table : db'.table[i] \in CountRows
      BY <3>1
    <3> QED  BY <3>2 DEF CountRows
  <2>2. KeyedRows(db'.table)
    BY <1>2, TableAfter
  <2>3. CountIs(db'.table, Method, cur, k)
    BY <2>2, CountOfIs DEF k
  <2> QED  BY <2>1, <2>3 DEF CountIs
<1>12. CASE ClearsIn(L)
  <2>1. LastClear(new, n + 1)
    BY <1>1, <1>10, <1>12 DEF LastClear
  <2>2. CommittedIn(new, cur) = LeftAt(new, n + 1, cur) + Cardinality(Since(new, n + 1, cur))
    BY <1>1, <1>10, <2>1, CommittedFrom
  <2>3. LeftAt(new, n + 1, cur) = k
    BY <1>1, <1>6, <1>10, <1>12 DEF LeftAt
  <2>4. Since(new, n + 1, cur) = {}
    BY <1>1 DEF Since
  <2>5. Cardinality(Since(new, n + 1, cur)) = 0
    BY <2>4, FS_EmptySet
  <2> QED  BY <1>11, <1>12, <2>2, <2>3, <2>5 DEF k
<1>13. CASE ~ClearsIn(L)
  <2>1. LastClear(new, f)
    <3>1. f # 0 => f \in 1..n
      OBVIOUS
    <3>2. \A r \in 1..(n + 1) : ClearsIn(new[r].changes) => r \in 1..n
      BY <1>1, <1>10, <1>13
    <3>3. \A r \in 1..n : r \in 1..(n + 1)
      OBVIOUS
    <3> QED  BY <1>1, <1>3, <3>1, <3>2, <3>3 DEF LastClear
  <2>2. CommittedIn(new, cur) = LeftAt(new, f, cur) + Cardinality(Since(new, f, cur))
    <3>1. f \in 0..(n + 1)
      OBVIOUS
    <3> QED  BY <1>1, <1>10, <2>1, <3>1, CommittedFrom
  <2>3. LeftAt(new, f, cur) = LeftAt(lg, f, cur)
    BY <1>1 DEF LeftAt
  <2>4. LeftAt(lg, f, cur) + Cardinality(Since(lg, f, cur)) = old
    BY <1>7, <1>8
  <2>5. CASE One(cur) \in Range(L)
    <3>1. Since(new, f, cur) = Since(lg, f, cur) \cup {n + 1} /\ n + 1 \notin Since(lg, f, cur)
      <4>1. \A r \in 1..n : r \in 1..(n + 1)
        OBVIOUS
      <4>2. n + 1 \notin 1..n /\ n + 1 > f
        OBVIOUS
      <4> QED  BY <1>1, <1>10, <2>5, <4>1, <4>2 DEF Since
    <3>2. Cardinality(Since(new, f, cur)) = Cardinality(Since(lg, f, cur)) + 1
      BY <1>9, <3>1, FS_AddElement
    <3> QED  BY <1>6, <1>9, <1>14, <1>13, <2>2, <2>3, <2>4, <2>5, <3>2 DEF k
  <2>6. CASE One(cur) \notin Range(L)
    <3>1. Since(new, f, cur) = Since(lg, f, cur)
      <4>1. \A r \in 1..n : r \in 1..(n + 1)
        OBVIOUS
      <4> QED  BY <1>1, <1>10, <2>6, <4>1 DEF Since
    <3> QED  BY <1>6, <1>9, <1>14, <1>13, <2>2, <2>3, <2>4, <2>6, <3>1 DEF k
  <2> QED  BY <2>5, <2>6
<1> QED  BY <1>12, <1>13 DEF k, new

-----------------------------------------------------------------------------
(* Every step. *)

LEMMA RowsKept ==
  ASSUME DInv, UNCHANGED <<db, log>>
  PROVE  RowsTyped' /\ ListsTyped' /\ SurvivorsWereUnseen' /\ AllCounted' /\ \A r : At(r)' = At(r)
<1>1. \A r : At(r)' = At(r)
  BY DEF At
<1>2. RowsTyped'
  BY <1>1 DEF DInv, DataOK, RowsTyped
<1>5. ListsTyped'
  BY DEF DInv, DataOK, ListsTyped
<1>3. SurvivorsWereUnseen'
  BY <1>1 DEF DInv, DataOK, SurvivorsWereUnseen, At
<1>4. AllCounted'
  <2>1. \A cur : CountOf(db, Method, cur) = CommittedIn(log, cur)
    BY CountIsOfLog DEF DInv, DataOK, AllCounted
  <2>2. \A cur : CountOf(db', Method, cur) = CommittedIn(log', cur)
    BY <2>1
  <2> QED  BY <2>2 DEF AllCounted, CountOf, CommittedCount, CommittedIn
<1> QED  BY <1>1, <1>2, <1>3, <1>4, <1>5

LEMMA DataStep ==
  ASSUME DInv, UNCHANGED <<db, log>>, NEW s \in Sessions, CallData(s)',
         \A t \in Sessions \ {s} : pc'[t] = pc[t] /\ call'[t] = call[t]
  PROVE  DataOK'
<1>1. ASSUME NEW t \in Sessions \ {s} PROVE CallData(t)'
  <2>1. CallData(t) /\ pc'[t] = pc[t] /\ call'[t] = call[t]
    BY DEF DInv, DataOK
  <2> QED  BY <2>1, RowsKept DEF CallData, InCall, Saves, RequestOK, Replaces
<1> QED  BY <1>1, RowsKept DEF DataOK

(* A session that is not in a call asks for nothing. *)
LEMMA OutOfCall ==
  ASSUME DInv, UNCHANGED <<db, log>>, NEW s \in Sessions, NEW c, c \notin {"reload", "execute", "save", "retry"},
         pc' = [pc EXCEPT ![s] = c],
         \A t \in Sessions \ {s} : call'[t] = call[t]
  PROVE  DataOK'
<1>1. pc'[s] = c /\ \A t \in Sessions \ {s} : pc'[t] = pc[t]
  BY DEF DInv, IInv, Maps
<1>2. CallData(s)'
  BY <1>1 DEF CallData, InCall, Saves
<1> QED  BY <1>1, <1>2, DataStep

LEMMA DataInit == Init => DInv
<1> SUFFICES ASSUME Init PROVE DInv
  OBVIOUS
<1>1. IInv
  BY InitEstablishes
<1>2. db.revision = 0 /\ log = <<>> /\ db.table = <<>> /\ db.phrases = <<>> /\ At(0) = db
  BY DEF Init, EmptySnapshot, At
<1>3. <<>> \in Seq(PhraseRows) /\ <<>> \in Seq(CountRows) /\ KeyedRows(<<>>)
  BY DEF KeyedRows
<1>4. RowsTyped
  <2>1. \A r \in 0..0 : r = 0
    OBVIOUS
  <2> QED  BY <1>2, <1>3, <2>1 DEF RowsTyped
<1>5. SurvivorsWereUnseen
  BY <1>2 DEF SurvivorsWereUnseen
<1>6. AllCounted
  <2> SUFFICES ASSUME NEW cur PROVE CountOf(db, Method, cur) = CommittedIn(log, cur)
    BY CountIsOfLog DEF AllCounted
  <2>1. CountOf(db, Method, cur) = 0
    BY <1>2 DEF CountOf
  <2>2. LastClear(log, 0) /\ DOMAIN log = 1..0 /\ 0 \in 0..0
    BY <1>2 DEF LastClear
  <2>3. CommittedIn(log, cur) = LeftAt(log, 0, cur) + Cardinality(Since(log, 0, cur))
    BY <2>2, CommittedFrom
  <2>4. Since(log, 0, cur) = {}
    BY <1>2 DEF Since
  <2>5. LeftAt(log, 0, cur) = 0 /\ Cardinality(Since(log, 0, cur)) = 0
    BY <2>4, FS_EmptySet DEF LeftAt
  <2> QED  BY <2>1, <2>3, <2>5
<1>7. \A s \in Sessions : CallData(s)
  BY DEF Init, CallData, InCall, Saves
<1>8. ListsTyped
  BY <1>2 DEF ListsTyped
<1> QED  BY <1>1, <1>4, <1>5, <1>6, <1>7, <1>8 DEF DInv, DataOK

LEMMA DataBegin ==
  ASSUME DInv, NEW s \in Sessions, NEW o \in Operations, Begin(s, o)
  PROVE  DataOK'
<1>1. /\ pc'[s] \in {"reload", "execute"} /\ call'[s].op = o
      /\ \A t \in Sessions \ {s} : pc'[t] = pc[t] /\ call'[t] = call[t]
      /\ UNCHANGED <<db, log>>
  BY DEF DInv, IInv, Maps, Begin
<1>2. CallData(s)'
  BY <1>1 DEF CallData, Saves
<1> QED  BY <1>1, <1>2, DataStep

LEMMA DataReload ==
  ASSUME DInv, NEW s \in Sessions, Reload(s)
  PROVE  DataOK'
<1>1. /\ pc[s] = "reload" /\ pc'[s] = "execute" /\ call'[s] = [call[s] EXCEPT !.base = db.revision]
      /\ \A t \in Sessions \ {s} : pc'[t] = pc[t] /\ call'[t] = call[t]
      /\ UNCHANGED <<db, log>>
  BY DEF DInv, IInv, Maps, Reload
<1>2. IsCall(call[s]) /\ call[s].op \in Operations
  BY <1>1 DEF DInv, IInv, SessionOK, DataOK, CallData, InCall
<1>3. call'[s].op = call[s].op
  BY <1>1, <1>2 DEF IsCall
<1>4. CallData(s)'
  BY <1>1, <1>2, <1>3 DEF CallData, Saves
<1> QED  BY <1>1, <1>4, DataStep

LEMMA DataExecute ==
  ASSUME DInv, NEW s \in Sessions, Execute(s)
  PROVE  DataOK'
<1>1. Outcome(s)
  BY ExecuteRequests DEF DInv, DataOK
<1>2. CASE Over(s)
  BY <1>2, OutOfCall DEF Over
<1>3. ASSUME NEW L, Requests(s, L) PROVE DataOK'
  <2>1. PICK text : call' = [call EXCEPT ![s].changes = L, ![s].text = text]
    BY <1>3 DEF Requests
  <2>2. /\ pc'[s] = "save" /\ call'[s] = [call[s] EXCEPT !.changes = L, !.text = text]
        /\ \A t \in Sessions \ {s} : pc'[t] = pc[t] /\ call'[t] = call[t]
        /\ UNCHANGED <<db, log>>
    BY <1>3, <2>1 DEF DInv, IInv, Maps, Requests
  <2>3. IsCall(call[s])
    BY DEF DInv, IInv, SessionOK
  <2>4. call'[s].op = call[s].op /\ call'[s].base = call[s].base /\ call'[s].changes = L
    BY <2>2, <2>3 DEF IsCall
  <2>5. pc[s] = "execute"
    BY DEF Execute, Executes, Lookup, MoveHighlight, Select, SelectOutside, FinishComposition,
           ResetLearning, ResetMethodLearning, AddUserPhrase, UpdateUserPhrase,
           RemoveUserPhrase, ReplaceUserPhrases, ImportUserData
  <2>6. call[s].op \in Operations
    BY <2>5 DEF DInv, DataOK, CallData, InCall
  <2>7. RequestOK(L, call[s])
    BY <1>3 DEF Requests
  <2>8. RequestOK(call[s].changes, call[s])'
    BY <2>2, <2>4, <2>7, RowsKept DEF RequestOK, Replaces, Shaped
  <2>9. CallData(s)'
    BY <2>4, <2>6, <2>8 DEF CallData
  <2> QED  BY <2>2, <2>9, DataStep
<1> QED  BY <1>1, <1>2, <1>3 DEF Outcome

LEMMA DataRetry ==
  ASSUME DInv, NEW s \in Sessions, Retry(s)
  PROVE  DataOK'
<1>1. /\ pc[s] = "save" /\ pc'[s] = "retry" /\ call' = call
      /\ \A t \in Sessions \ {s} : pc'[t] = pc[t]
      /\ UNCHANGED <<db, log>>
  BY DEF DInv, IInv, Maps, Retry
<1>2. CallData(s)
  BY DEF DInv, DataOK
<1>3. CallData(s)'
  BY <1>1, <1>2, RowsKept DEF CallData, InCall, Saves, RequestOK, Replaces
<1> QED  BY <1>1, <1>3, DataStep

LEMMA DataSave ==
  ASSUME DInv, NEW s \in Sessions, Save(s)
  PROVE  DataOK'
<1>0. PICK n \in Nat : n = db.revision
  BY DEF DInv, IInv, History, LogComplete
<1>1. pc' = [pc EXCEPT ![s] = "idle"] /\ call' = call
  BY DEF Save, Return
<1>2. pc'[s] = "idle" /\ \A t \in Sessions \ {s} : pc'[t] = pc[t]
  BY <1>1 DEF DInv, IInv, Maps
<1>3. CallData(s)'
  BY <1>2 DEF CallData, InCall, Saves
<1>4. ASSUME NEW t \in Sessions \ {s} PROVE CallData(t)'
  <2>1. CallData(t) /\ call[t].base \in 0..n
    BY <1>0 DEF DInv, DataOK, IInv, SessionOK
  <2>2. At(call[t].base)' = At(call[t].base)
    <3>1. \A r \in 0..n : At(r)' = At(r)
      BY <1>0, SaveAppends DEF DInv
    <3> QED  BY <1>1, <2>1, <3>1 DEF At
  <2> QED  BY <1>1, <1>2, <2>1, <2>2 DEF CallData, InCall, Saves, RequestOK, Replaces, PhraseKeys
<1> QED  BY <1>3, <1>4, SaveTypes, SaveLists, SaveReplaces, SaveCounts DEF DataOK

LEMMA DataNext == ASSUME DInv, [Next]_vars PROVE DInv'
<1>1. IInv'
  BY NextKeeps DEF DInv
<1>2. CASE UNCHANGED vars
  <2>1. UNCHANGED <<db, log, pc, call>>
    BY <1>2 DEF vars
  <2>2. \A t \in Sessions : CallData(t)'
    BY <2>1, RowsKept DEF DInv, DataOK, CallData, InCall, Saves, RequestOK, Replaces
  <2>3. DataOK'
    BY <2>1, <2>2, RowsKept DEF DataOK
  <2> QED  BY <1>1, <2>3 DEF DInv
<1>3. ASSUME NEW s \in Sessions, Continue(s) PROVE DataOK'
  <2>1. ASSUME DiscardEvent(s) PROVE DataOK'
    <3>1. /\ pc' = [pc EXCEPT ![s] = "idle"] /\ UNCHANGED <<db, log>>
          /\ \A t \in Sessions \ {s} : call'[t] = call[t]
      BY <2>1 DEF DiscardEvent, Return, DInv, IInv, Maps
    <3> QED  BY <3>1, OutOfCall
  <2>2. ASSUME DropLearning(s) \/ Conflict(s) PROVE DataOK'
    <3>1. pc' = [pc EXCEPT ![s] = "idle"] /\ UNCHANGED <<db, call, log>>
      BY <2>2 DEF DropLearning, Conflict, ReturnError, Return
    <3> QED  BY <3>1, OutOfCall
  <2> QED  BY <1>3, <2>1, <2>2, DataReload, DataExecute, DataSave, DataRetry DEF Continue
<1>4. ASSUME NEW s \in Sessions, StoreError(s) PROVE DataOK'
  <2>1. pc' = [pc EXCEPT ![s] = "idle"] /\ UNCHANGED <<db, call, log>>
    BY <1>4 DEF StoreError, ReturnError, Return
  <2> QED  BY <2>1, OutOfCall
<1>5. ASSUME NEW s \in Sessions, Open(s) PROVE DataOK'
  <2>1. pc' = [pc EXCEPT ![s] = "idle"] /\ UNCHANGED <<db, call, log>>
    BY <1>5 DEF Open
  <2> QED  BY <2>1, OutOfCall
<1>6. ASSUME NEW s \in Sessions, Crash(s) PROVE DataOK'
  <2>1. /\ pc' = [pc EXCEPT ![s] = "closed"] /\ UNCHANGED <<db, log>>
        /\ \A t \in Sessions \ {s} : call'[t] = call[t]
    BY <1>6 DEF Crash, DInv, IInv, Maps
  <2> QED  BY <2>1, OutOfCall
<1>7. CASE Next
  <2>1. DataOK'
    BY <1>3, <1>4, <1>5, <1>6, <1>7, DataBegin DEF Next
  <2> QED  BY <1>1, <2>1 DEF DInv
<1> QED  BY <1>2, <1>7

(* In every reachable state the committed snapshots are keyed, calls ask    *)
(* for lists of the shape that operations make, and the log accounts for    *)
(* the counts.                                                              *)
THEOREM DataInvariance == Spec => []DInv
<1>1. Init => DInv
  BY DataInit
<1>2. DInv /\ [Next]_vars => DInv'
  BY DataNext
<1> QED  BY <1>1, <1>2, PTL DEF Spec

(* However sessions interleave, retry and reset, the database's count of a  *)
(* candidate is what the last reset or import left and every selection      *)
(* committed since.                                                         *)
THEOREM NoSelectionIsLost == Spec => []NoSelectionLost
<1>1. DInv => NoSelectionLost
  BY DEF DInv, DataOK, AllCounted, NoSelectionLost
<1> QED  BY <1>1, DataInvariance, PTL

(* A replacement that is retried after a reset does not remove, unseen,     *)
(* what was added since, and removes everything its session knew of.        *)
THEOREM ReplacementsAreOfTheKnown == Spec => []SurvivorsWereUnseen
<1>1. DInv => SurvivorsWereUnseen
  BY DEF DInv, DataOK
<1> QED  BY <1>1, DataInvariance, PTL
=============================================================================
