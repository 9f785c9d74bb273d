--------------------------- MODULE HostModeProofs ---------------------------
(***************************************************************************)
(* HostMode implements InputQueue, and no key is decided on while a mode   *)
(* of the host is known to be unread, for any fields and number of         *)
(* operations and notifications.  The latter needs to know where a         *)
(* resynchronization can be pending at all (Unread) while the host refused *)
(* nothing: with nothing composed, no session in progress, and only modes  *)
(* without a field waiting, unless pumpInput is just about to read it.     *)
(* The second half: the mode and both compartments come to agree on what   *)
(* was asked for last (AgreeInv).                                          *)
(***************************************************************************)
EXTENDS HostMode, InputQueueProofs, FiniteSetTheorems

Serving == request.stage \in {"push", "append"}
AllNone == \A i \in DOMAIN queue : queue[i].context = NoContext

(* Keys have a field; a mode is asked for in the field that input waits     *)
(* for, or that of the composition, and finds pumpInput at rest.            *)
FieldsFit ==
  /\ composing \in Contexts \cup {NoContext} /\ refusals \in 0 .. 2
  /\ \A i \in DOMAIN queue : queue[i].kind = "key" => queue[i].context # NoContext
  /\ Serving /\ request.op.kind = "key" => request.op.context # NoContext
  /\ Serving /\ request.op.kind # "key" =>
       /\ request.stage = "push" /\ pump = "off"
       /\ request.op.context # NoContext =>
            IF queue = <<>> THEN composing \in {NoContext, request.op.context}
            ELSE Oldest.context = request.op.context

(* Between pumps only a session or a mode without a field is waited for.    *)
Unrefused ==
  /\ blocked = FALSE /\ flags.restore = FALSE /\ flags.recover = FALSE
  /\ pump = "off" /\ queue # <<>> => active # None \/ Oldest.context = NoContext
  /\ Serving /\ pump # "off" => AllNone

Unread ==
  flags.resync =>
    /\ composing = NoContext /\ active = None
    /\ AllNone \/ (pump = "enter" /\ ~Notifying)
    /\ Serving /\ request.op.kind = "key" => pump = "enter"
    /\ Serving /\ request.op.kind \in HostKinds => request.op.context = NoContext

LiveInv == refusals = 0 => Unrefused /\ Unread

IInv == QInv /\ FieldsFit /\ LiveInv
-----------------------------------------------------------------------------
(* An operation as some run leaves it. *)
LEMMA RanIsRun ==
  ASSUME queue # <<>>, NEW outcome \in Outcomes, Completes(outcome)
  PROVE  Run
<1>1. (Oldest.kind = "key") \in BOOLEAN /\ TRUE \in BOOLEAN
  OBVIOUS
<1> QED
  BY <1>1 DEF Completes, Run

LEMMA LastOfQueue ==
  ASSUME QInv, queue # <<>>
  PROVE  /\ Last(queue) = queue[Len(queue)] /\ Len(queue) \in DOMAIN queue /\ 1 \in DOMAIN queue
         /\ Last(queue).context = Oldest.context /\ Oldest = queue[1]
         /\ Oldest.context \in Contexts \cup {NoContext} /\ Oldest \in OperationType
<1>1. queue \in Seq(OperationType) /\ Oldest = queue[1] /\ Oldest \in OperationType
      /\ Len(queue) \in DOMAIN queue /\ 1 \in DOMAIN queue
  BY TypedState, FrontAndRest DEF Oldest
<1>2. Last(queue) = queue[Len(queue)]
  BY DEF Last
<1> QED
  BY <1>1, <1>2 DEF QInv, OneContext, OperationType

(* The field of a mode that is asked for. *)
LEMMA ModeField ==
  ASSUME IInv, NEW c, c \in InputContexts \/ c \in HostContexts
  PROVE  /\ c \in Contexts \cup {NoContext}
         /\ queue # <<>> => c = Last(queue).context /\ c = Oldest.context
         /\ queue = <<>> /\ c # NoContext => composing \in {NoContext, c}
<1>1. CASE queue = <<>>
  BY <1>1 DEF IInv, FieldsFit, InputContexts, HostContexts
<1>2. CASE queue # <<>>
  BY <1>2, LastOfQueue DEF IInv, InputContexts, HostContexts
<1> QED
  BY <1>1, <1>2

LEMMA AskForMode ==
  ASSUME IInv, NEW kind \in Requests \cap ({"mode"} \cup HostKinds), NEW value \in BOOLEAN,
         NEW c, c \in InputContexts \/ c \in HostContexts, Request(Operation(kind, c, value))
  PROVE  Ask
<1>1. c \in Contexts \cup {NoContext} /\ (queue # <<>> => c = Last(queue).context)
  BY ModeField
<1>2. Operation(kind, c, value).kind = kind /\ Operation(kind, c, value).context = c
  BY DEF Operation
<1>3. Asked(Operation(kind, c, value))
  BY <1>1, <1>2 DEF Asked, HostKinds
<1> QED
  BY <1>1, <1>3 DEF Ask

(* Every step of the mode is one of the queue, or leaves it alone.          *)
LEMMA StepIsQueueStep ==
  ASSUME IInv, [Next]_vars
  PROVE  [QueueNext]_queueVars
<1>1. ASSUME NEW c \in Contexts, Key(c)
      PROVE  QueueNext
  <2>1. Operation("key", c, FALSE).kind = "key" /\ Operation("key", c, FALSE).context = c
    BY DEF Operation
  <2> QED
    BY <1>1, <2>1 DEF Key, Asked, Ask, QueueNext, HostKinds
<1>2. CASE Toggle
  <2> PICK c \in InputContexts : Request(Operation("mode", c, ~Projected))
    BY <1>2 DEF Toggle
  <2>1. "mode" \in Requests /\ (~Projected) \in BOOLEAN
    BY <1>2 DEF Toggle
  <2> QED
    BY <2>1, AskForMode DEF QueueNext
<1>3. ASSUME NEW kind \in HostKinds, NEW value \in BOOLEAN, HostWrites(kind, value)
      PROVE  [QueueNext]_queueVars
  <2>1. kind \in Requests /\ Observe(kind, value)
    BY <1>3 DEF HostWrites
  <2> QED
    BY <2>1, AskForMode DEF Observe, QueueNext
<1>4. CASE Served \/ Withdrawn \/ Superseded
  BY <1>4 DEF Served, Withdrawn, Superseded, Serve, QueueNext
<1>5. CASE Entered \/ Pumped \/ Denied
  BY <1>5 DEF Entered, Pumped, Denied, Pump, QueueNext
<1>6. CASE RunKey \/ CommitRefused
  BY <1>6, RanIsRun DEF RunKey, CommitRefused, Active, Outcomes, QueueNext
<1>7. CASE RunMode
  <2>1. queue # <<>> /\ \E s : Completes(Outcome(s))
    BY <1>7 DEF RunMode, Active
  <2>2. \A s : Outcome(s) \in Outcomes
    BY DEF Outcome, Outcomes
  <2> QED
    BY <2>1, <2>2, RanIsRun DEF QueueNext
<1>8. CASE Interrupted
  BY <1>8, RanIsRun DEF Interrupted, Outcomes, Host, QueueNext
<1>9. CASE Cancelled \/ Message \/ Focus \/ Stale
  BY <1>9 DEF Cancelled, Message, Focus, Stale, Host, QueueNext
<1>10. CASE UNCHANGED vars
  BY <1>10 DEF vars
<1> QED
  BY <1>1, <1>2, <1>3, <1>4, <1>5, <1>6, <1>7, <1>8, <1>9, <1>10 DEF Next
-----------------------------------------------------------------------------
(* What the steps do to the parts the invariant speaks of. *)

(* A queue that lost operations at its front. *)
LEMMA ShorterQueue ==
  ASSUME QInv, queue # <<>>, queue' = Tail(queue)
  PROVE  /\ \A i \in DOMAIN queue' : i + 1 \in DOMAIN queue /\ queue'[i] = queue[i + 1]
         /\ AllNone => AllNone'
         /\ (\A i \in DOMAIN queue : queue[i].kind = "key" => queue[i].context # NoContext)
              => \A i \in DOMAIN queue' : queue'[i].kind = "key" => queue'[i].context # NoContext
<1>1. \A i \in DOMAIN queue' : i + 1 \in DOMAIN queue /\ queue'[i] = queue[i + 1]
  BY TypedState, FrontAndRest
<1> QED
  BY <1>1 DEF AllNone

(* The front operation put back as a run left it. *)
LEMMA FrontPutBack ==
  ASSUME QInv, queue # <<>>, NEW op \in OperationType,
         op.kind = Oldest.kind, op.context = Oldest.context,
         queue' = <<op>> \o Tail(queue)
  PROVE  /\ DOMAIN queue' = DOMAIN queue
         /\ \A i \in DOMAIN queue : queue'[i].kind = queue[i].kind
                                 /\ queue'[i].context = queue[i].context
<1>1. /\ queue \in Seq(OperationType) /\ Oldest = queue[1]
      /\ Len(queue) \in Nat \ {0} /\ DOMAIN queue = 1 .. Len(queue)
  BY TypedState, FrontAndRest DEF Oldest
<1>2. /\ queue' \in Seq(OperationType) /\ Len(queue') = Len(queue) /\ queue'[1] = op
      /\ \A i \in 2 .. Len(queue) : queue'[i] = queue[i]
  BY <1>1, PutBack
<1> QED
  BY <1>1, <1>2

LEMMA NoneWithoutField ==
  ASSUME QInv, queue # <<>>, Oldest.context = NoContext
  PROVE  AllNone
  BY LastOfQueue DEF QInv, OneContext, AllNone

LEMMA KeysKeepFields ==
  ASSUME IInv, NEW op \in OperationType, NEW outcome, queue # <<>>,
         op.kind = Oldest.kind, op.context = Oldest.context, CompleteInput(op, outcome)
  PROVE  \A i \in DOMAIN queue' : queue'[i].kind = "key" => queue'[i].context # NoContext
<1>1. \A i \in DOMAIN queue : queue[i].kind = "key" => queue[i].context # NoContext
  BY DEF IInv, FieldsFit
<1>2. CASE queue' = Tail(queue)
  BY <1>1, <1>2, ShorterQueue DEF IInv
<1>3. CASE queue' = <<>>
  BY <1>3
<1>4. CASE queue' = <<op>> \o Tail(queue)
  BY <1>1, <1>4, FrontPutBack DEF IInv
<1> QED
  BY <1>2, <1>3, <1>4, CompletionShape
-----------------------------------------------------------------------------
(* The requests. *)
LEMMA KeyKeeps ==
  ASSUME IInv, NEW c \in Contexts, Key(c)
  PROVE  FieldsFit' /\ LiveInv'
<1>1. /\ request' = [stage |-> "push", op |-> Operation("key", c, FALSE)]
      /\ Operation("key", c, FALSE).kind = "key" /\ Operation("key", c, FALSE).context = c
      /\ c # NoContext
  BY NoContextAssumption DEF Key, Request, Operation
<1>2. /\ UNCHANGED <<queue, active, blocked, flags, composing, refusals>>
      /\ pump = "off" /\ pump' \in {"off", PumpCall} /\ (Unsettled => pump' = PumpCall)
  BY <1>1 DEF Key, Request, Idle, HostKinds, modeVars
<1>3. FieldsFit'
  BY <1>1, <1>2 DEF IInv, FieldsFit, Serving
<1>4. ASSUME refusals = 0
      PROVE  Unrefused' /\ Unread'
  <2>1. Unrefused /\ Unread
    BY <1>4 DEF IInv, LiveInv
  <2>2. pump' # "off" => AllNone
    BY <1>2, <2>1, NoneWithoutField DEF PumpCall, Unrefused, AllNone, IInv
  <2>3. flags.resync => AllNone /\ active = None /\ pump' = "enter"
    BY <1>2, <2>1 DEF Unread, Unrefused, Unsettled, PumpCall
  <2>4. Unrefused'
    BY <1>1, <1>2, <2>1, <2>2 DEF Unrefused, AllNone, Oldest, PumpCall
  <2>5. Unread'
    BY <1>1, <1>2, <2>1, <2>3 DEF Unread, AllNone, Serving, HostKinds
  <2> QED
    BY <2>4, <2>5
<1> QED
  BY <1>2, <1>3, <1>4 DEF LiveInv

(* A switch of the user or a notification of the host. *)
LEMMA ModeRequestKeeps ==
  ASSUME IInv, NEW kind \in {"mode"} \cup HostKinds, NEW c, NEW value \in BOOLEAN,
         kind = "mode" => c \in InputContexts, kind \in HostKinds => c \in HostContexts,
         Request(Operation(kind, c, value)), UNCHANGED <<composing, refusals>>
  PROVE  FieldsFit' /\ LiveInv'
<1> DEFINE op == Operation(kind, c, value)
<1>1. op.kind = kind /\ op.context = c /\ kind # "key"
  BY DEF Operation, HostKinds
<1>2. /\ c \in Contexts \cup {NoContext}
      /\ queue # <<>> => c = Oldest.context
      /\ queue = <<>> /\ c # NoContext => composing \in {NoContext, c}
  BY ModeField DEF HostKinds
<1> HIDE DEF op
<1>3. /\ UNCHANGED <<queue, active, blocked, composing, refusals>>
      /\ pump = "off" /\ pump' = "off"
      /\ request' = [stage |-> "push", op |-> op]
      /\ flags' \in {flags, [flags EXCEPT !.restore = FALSE, !.recover = FALSE]}
  BY <1>1, <1>2, Zenon DEF Request, Idle, op
<1>4. flags'.resync = flags.resync /\ (flags.restore = FALSE /\ flags.recover = FALSE => flags' = flags)
  <2>1. flags \in FlagType
    BY TypedState DEF IInv
  <2>2. [flags EXCEPT !.restore = FALSE] \in FlagType
        /\ [flags EXCEPT !.restore = FALSE].resync = flags.resync
        /\ (flags.restore = FALSE => [flags EXCEPT !.restore = FALSE] = flags)
    BY <2>1 DEF FlagType
  <2> DEFINE f == [flags EXCEPT !.restore = FALSE]
  <2>3. flags' \in {flags, [f EXCEPT !.recover = FALSE]}
    BY <1>3, Zenon
  <2>4. f \in FlagType /\ f.resync = flags.resync /\ (flags.restore = FALSE => f = flags)
    BY <2>2
  <2> HIDE DEF f
  <2>5. [f EXCEPT !.recover = FALSE].resync = f.resync
        /\ (f.recover = FALSE => [f EXCEPT !.recover = FALSE] = f)
    BY <2>4 DEF FlagType
  <2> QED
    BY <2>3, <2>4, <2>5
<1>5. FieldsFit'
  BY <1>1, <1>2, <1>3 DEF IInv, FieldsFit, Serving, Oldest
<1>6. ASSUME refusals = 0
      PROVE  Unrefused' /\ Unread'
  <2>1. Unrefused /\ Unread
    BY <1>6 DEF IInv, LiveInv
  <2>2. flags' = flags
    BY <1>4, <2>1 DEF Unrefused
  <2>3. Unrefused'
    BY <1>3, <2>1, <2>2 DEF Unrefused, Oldest
  <2>4. flags.resync /\ kind \in HostKinds => c = NoContext
    <3> SUFFICES ASSUME flags.resync, kind \in HostKinds PROVE c = NoContext
      OBVIOUS
    <3>1. composing = NoContext /\ AllNone
      BY <1>3, <2>1 DEF Unread
    <3>2. CASE queue = <<>>
      BY <3>1, <3>2 DEF HostContexts
    <3>3. CASE queue # <<>>
      BY <1>2, <3>1, <3>3, LastOfQueue DEF AllNone, IInv
    <3> QED
      BY <3>2, <3>3
  <2>5. Unread'
    BY <1>1, <1>3, <2>1, <2>2, <2>4 DEF Unread, AllNone, Serving
  <2> QED
    BY <2>3, <2>5
<1> QED
  BY <1>3, <1>5, <1>6 DEF LiveInv

LEMMA AskingKeeps ==
  ASSUME IInv, Toggle \/ \E kind \in HostKinds, value \in BOOLEAN : HostWrites(kind, value)
  PROVE  FieldsFit' /\ LiveInv'
<1>1. CASE Toggle
  <2> PICK c \in InputContexts : Request(Operation("mode", c, ~Projected))
    BY <1>1 DEF Toggle
  <2>1. (~Projected) \in BOOLEAN /\ UNCHANGED <<composing, refusals>>
    BY <1>1 DEF Toggle
  <2> QED
    BY <2>1, ModeRequestKeeps DEF HostKinds
<1>2. ASSUME NEW kind \in HostKinds, NEW value \in BOOLEAN, HostWrites(kind, value)
      PROVE  FieldsFit' /\ LiveInv'
  <2>1. UNCHANGED <<composing, refusals>> /\ Observe(kind, value)
    BY <1>2 DEF HostWrites
  <2>2. CASE UNCHANGED queueVars
    BY <2>1, <2>2 DEF queueVars, IInv, FieldsFit, LiveInv, Unrefused, Unread, AllNone, Serving,
                      Notifying, Oldest
  <2>3. CASE \E c \in HostContexts : Request(Operation(kind, c, value))
    BY <2>1, <2>3, ModeRequestKeeps DEF HostKinds
  <2> QED
    BY <2>1, <2>2, <2>3 DEF Observe
<1> QED
  BY <1>1, <1>2
-----------------------------------------------------------------------------
(* The call that is served, and input for another field. *)
LEMMA PushKeepsFields ==
  ASSUME IInv, Push, UNCHANGED modeVars
  PROVE  FieldsFit' /\ LiveInv'
<1> DEFINE op == [request.op EXCEPT !.id = made + 1, !.ordered = queue # <<>>]
<1>1. /\ queue' = Append(queue, op) /\ request' = [stage |-> "return", op |-> op]
      /\ request.stage \in {"push", "append"} /\ pump = "off"
      /\ blocked' = FALSE /\ pump' = IF active = None THEN "enter" ELSE "off"
      /\ UNCHANGED <<active, flags, composing, refusals>>
  BY Zenon DEF Push, Pushing, modeVars
<1>2. op.kind = request.op.kind /\ op.context = request.op.context /\ op \in OperationType
  <2>1. request.op \in OperationType /\ made + 1 \in Nat /\ (queue # <<>>) \in BOOLEAN
    BY DEF IInv, QInv, QueueTypeOK
  <2> DEFINE r == [request.op EXCEPT !.id = made + 1]
  <2>2. r \in OperationType /\ r.kind = request.op.kind /\ r.context = request.op.context
    BY <2>1 DEF OperationType
  <2>3. op = [r EXCEPT !.ordered = queue # <<>>]
    BY Zenon
  <2> HIDE DEF r, op
  <2> QED
    BY <2>1, <2>2, <2>3 DEF OperationType
<1> HIDE DEF op
<1>3. \A i \in DOMAIN queue' : queue'[i] = op \/ (i \in DOMAIN queue /\ queue'[i] = queue[i])
  BY <1>1, <1>2, TypedState DEF IInv
<1>4. FieldsFit'
  BY <1>1, <1>2, <1>3 DEF IInv, FieldsFit, Serving
<1>5. ASSUME refusals = 0
      PROVE  Unrefused' /\ Unread'
  <2>1. Unrefused /\ Unread
    BY <1>5 DEF IInv, LiveInv
  <2>2. Unrefused'
    BY <1>1, <2>1 DEF Unrefused, Serving
  <2>3. flags.resync => AllNone' \/ ~Notifying'
    <3> SUFFICES ASSUME flags.resync, Notifying' PROVE AllNone'
      OBVIOUS
    <3>1. op.context = NoContext /\ AllNone
      BY <1>1, <1>2, <2>1 DEF Notifying, Unread, Serving
    <3> QED
      BY <1>3, <3>1 DEF AllNone
  <2>4. Unread'
    BY <1>1, <2>1, <2>3 DEF Unread, Serving
  <2> QED
    BY <2>2, <2>4
<1> QED
  BY <1>1, <1>4, <1>5 DEF LiveInv

LEMMA ServingKeeps ==
  ASSUME IInv, Served \/ Withdrawn
  PROVE  FieldsFit' /\ LiveInv'
<1>1. CASE Push /\ UNCHANGED modeVars
  BY <1>1, PushKeepsFields
<1>2. CASE (Return \/ Withdraw) /\ UNCHANGED modeVars
  <2>1. /\ request' = NoRequest /\ pump = "off" /\ NoRequest.stage = "none"
        /\ UNCHANGED <<queue, active, blocked, pump, flags, composing, refusals>>
    BY <1>2 DEF Return, Withdraw, Pushing, NoRequest, modeVars
  <2> QED
    BY <2>1 DEF IInv, FieldsFit, LiveInv, Unrefused, Unread, AllNone, Serving, Oldest
<1> QED
  BY <1>1, <1>2 DEF Served, Withdrawn

LEMMA SupersededKeeps ==
  ASSUME IInv, Superseded
  PROVE  FieldsFit' /\ LiveInv'
<1>1. /\ request.stage = "push" /\ request' = [request EXCEPT !.stage = "append"]
      /\ composing' = NoContext /\ UNCHANGED refusals
      /\ pump' = IF flags'.resync /\ ~Notifying THEN "enter" ELSE "off"
      /\ CancelInput
  BY DEF Superseded, Supersede, Abandoned
<1>2. request.op.kind = "key"
  BY <1>1 DEF IInv, FieldsFit, Serving, Superseded, ElsewhereQueued
<1>3. request'.op = request.op /\ request'.stage = "append"
  BY <1>1 DEF IInv, QInv, QueueTypeOK
<1>4. /\ queue' = <<>> /\ active' = None /\ blocked' = FALSE
      /\ flags'.restore = FALSE /\ (flags.recover = FALSE => flags'.recover = FALSE)
  BY <1>1, TypedState DEF CancelInput, IInv, FlagType
<1>5. FieldsFit'
  BY <1>1, <1>2, <1>3, <1>4 DEF IInv, FieldsFit, Serving
<1>6. LiveInv'
  BY <1>1, <1>2, <1>3, <1>4 DEF IInv, LiveInv, Unrefused, Unread, AllNone, Serving, Notifying, HostKinds
<1> QED
  BY <1>5, <1>6
-----------------------------------------------------------------------------
(* Without refusals a recovery only reads the unread mode. *)
LEMMA RecoveredQuietly ==
  ASSUME flags \in FlagType, flags.restore = FALSE, flags.recover = FALSE,
         NEW s \in Recovered(mode, flags, FALSE)
  PROVE  /\ s.flags \in FlagType /\ s.flags.restore = FALSE /\ s.flags.recover = FALSE
         /\ s.flags.resync => flags.resync /\ composing # NoContext
<1> PICK r \in Resync(mode, flags, FALSE) :
      s \in UNION {Restore(t.mode, t.flags, FALSE) : t \in Recover(r.mode, r.flags, FALSE)}
  BY DEF Recovered
<1> PICK t \in Recover(r.mode, r.flags, FALSE) : s \in Restore(t.mode, t.flags, FALSE)
  OBVIOUS
<1>2. /\ r.flags \in FlagType /\ r.flags.restore = FALSE /\ r.flags.recover = FALSE
      /\ r.flags.resync => flags.resync /\ composing # NoContext
  <2>1. CASE ~flags.resync \/ composing # NoContext
    <3>1. r = Step(mode, flags, TRUE)
      BY <2>1, Zenon DEF Resync
    <3> QED
      BY <2>1, <3>1 DEF Step
  <2>2. CASE ~(~flags.resync \/ composing # NoContext)
    <3> DEFINE f == [flags EXCEPT !.resync = FALSE]
    <3>1. PICK m, n : r \in Reconcile(m, f, n, Live(mode), FALSE)
      BY <2>2 DEF Resync, When
    <3>2. f \in FlagType /\ f.restore = FALSE /\ f.recover = FALSE /\ f.resync = FALSE
      BY DEF FlagType
    <3> HIDE DEF f
    <3>3. r = Step(Other(m, n, Live(mode)), f, TRUE)
      BY <3>1 DEF Reconcile, When
    <3> QED
      BY <3>2, <3>3 DEF Step
  <2> QED
    BY <2>1, <2>2
<1>3. t = Step(r.mode, r.flags, TRUE)
  BY <1>2 DEF Recover
<1>4. t.flags = r.flags
  BY <1>3 DEF Step
<1>5. s = Step(t.mode, t.flags, TRUE)
  BY <1>2, <1>4 DEF Restore
<1> QED
  BY <1>2, <1>4, <1>5 DEF Step

LEMMA EnteredKeeps ==
  ASSUME IInv, Entered
  PROVE  FieldsFit' /\ LiveInv'
<1>1. /\ pump = "enter" /\ pump' = "loop" /\ flags \in FlagType
      /\ UNCHANGED <<queue, active, blocked, request, composing>>
  BY TypedState DEF Entered, PumpEnter, IInv
<1>2. PICK refusing \in BOOLEAN :
        /\ MayRefuse(refusing)
        /\ IF Notifying THEN flags' = flags
           ELSE \E s \in Recovered(mode, flags, refusing) : flags' = s.flags
  BY DEF Entered, Step
<1>3. refusals' \in 0 .. 2 /\ (refusals' = 0 => refusals = 0 /\ refusing = FALSE)
  BY <1>2 DEF MayRefuse, IInv, FieldsFit
<1>4. FieldsFit'
  BY <1>1, <1>3 DEF IInv, FieldsFit, Serving
<1>5. ASSUME refusals' = 0
      PROVE  Unrefused' /\ Unread'
  <2>1. Unrefused /\ Unread /\ refusing = FALSE
    BY <1>3, <1>5 DEF IInv, LiveInv
  <2>2. /\ flags'.restore = FALSE /\ flags'.recover = FALSE
        /\ flags'.resync => flags.resync /\ (composing # NoContext \/ Notifying)
    BY <1>1, <1>2, <2>1, RecoveredQuietly DEF Unrefused
  <2>3. ~(Serving /\ Notifying)
    BY <1>1 DEF IInv, FieldsFit, Notifying, HostKinds
  <2>4. Unrefused'
    BY <1>1, <2>1, <2>2 DEF Unrefused, Serving, AllNone
  <2>5. Unread'
    BY <1>1, <2>1, <2>2, <2>3 DEF Unread, Serving, AllNone, Notifying
  <2> QED
    BY <2>4, <2>5
<1> QED
  BY <1>5 , <1>4 DEF LiveInv

LEMMA PumpedKeeps ==
  ASSUME IInv, Pumped
  PROVE  FieldsFit' /\ LiveInv'
<1>1. pump = "loop" /\ UNCHANGED <<request, blocked, composing, refusals>>
  BY DEF Pumped, PumpStop, PumpPost, Grant, Ready, modeVars
<1>2. CASE PumpStop
  <2>1. /\ pump' = "off" /\ UNCHANGED <<queue, active, flags>>
        /\ active # None \/ blocked \/ queue = <<>>
    BY <1>2 DEF PumpStop
  <2> QED
    BY <1>1, <2>1 DEF IInv, FieldsFit, LiveInv, Unrefused, Unread, AllNone, Serving, Oldest, HostKinds
<1>3. CASE PumpPost
  <2>1. /\ pump' = "off" /\ UNCHANGED <<queue, active>> /\ Oldest.context = NoContext
        /\ flags' = [flags EXCEPT !.posted = TRUE] /\ flags \in FlagType
    BY <1>3, TypedState DEF PumpPost, IInv
  <2>2. /\ flags'.restore = flags.restore /\ flags'.resync = flags.resync
        /\ flags'.recover = flags.recover
    BY <2>1 DEF FlagType
  <2> QED
    BY <1>1, <2>1, <2>2 DEF IInv, FieldsFit, LiveInv, Unrefused, Unread, AllNone, Serving, Oldest, HostKinds
<1>4. CASE Grant
  <2>1. /\ pump' = "loop" /\ UNCHANGED flags /\ Oldest.context # NoContext /\ queue # <<>>
        /\ queue' = [queue EXCEPT ![1].accepted = TRUE]
    BY <1>4 DEF Grant, Ready
  <2>2. /\ DOMAIN queue' = DOMAIN queue
        /\ \A i \in DOMAIN queue : queue'[i].kind = queue[i].kind
                                /\ queue'[i].context = queue[i].context
    <3> DEFINE op == [queue[1] EXCEPT !.accepted = TRUE]
    <3>1. queue \in Seq(OperationType) /\ 1 \in DOMAIN queue /\ queue[1] \in OperationType
      BY <2>1, LastOfQueue, TypedState DEF IInv
    <3>2. op.kind = queue[1].kind /\ op.context = queue[1].context
      BY <3>1 DEF OperationType
    <3>3. queue' = [queue EXCEPT ![1] = op]
      BY <2>1
    <3> HIDE DEF op
    <3> QED
      BY <3>1, <3>2, <3>3
  <2>3. ~AllNone
    BY <2>1, LastOfQueue DEF AllNone, IInv
  <2>4. FieldsFit'
    BY <1>1, <2>1, <2>2 DEF IInv, FieldsFit, Serving
  <2>5. LiveInv'
    BY <1>1, <2>1, <2>3 DEF IInv, LiveInv, Unrefused, Unread, Serving
  <2> QED
    BY <2>4, <2>5
<1> QED
  BY <1>2, <1>3, <1>4 DEF Pumped

LEMMA DeniedKeeps ==
  ASSUME IInv, Denied
  PROVE  FieldsFit' /\ LiveInv'
<1>1. /\ pump = "loop" /\ pump' = "loop" /\ UNCHANGED composing /\ refusals' \in {1, 2}
      /\ queue # <<>> /\ CompleteInput(Oldest, "failed") /\ request' = Answer(Oldest, "failed")
  BY DEF Denied, Deny, Ready, MayRefuse
<1>2. \A i \in DOMAIN queue' : queue'[i].kind = "key" => queue'[i].context # NoContext
  BY <1>1, LastOfQueue, KeysKeepFields DEF IInv
<1>3. Serving' => Serving /\ request' = request
  BY <1>1, TypedState DEF Answer, Serving, IInv, RequestType
<1> QED
  BY <1>1, <1>2, <1>3 DEF IInv, FieldsFit, LiveInv, Serving
-----------------------------------------------------------------------------
(* The runs. *)

(* Where an operation runs: without a field in pumpInput, or in the session *)
(* of its field, at once or later.                                          *)
LEMMA RunShape ==
  ASSUME IInv, queue # <<>>, NEW outcome \in Outcomes, Completes(outcome)
  PROVE  /\ Serving' => Serving /\ request' = request /\ pump = "loop"
         /\ Serving' => pump' = "loop"
         /\ \/ pump = "loop" /\ pump' = "loop" /\ active = None
            \/ /\ pump = "off" /\ active # None /\ ~Serving
               /\ pump' = IF blocked' \/ outcome = "cancelled" THEN "off" ELSE "enter"
         /\ pump = "loop" /\ Oldest.context = NoContext => outcome # "cancelled"
         /\ \E op \in OperationType :
              /\ op.kind = Oldest.kind /\ op.context = Oldest.context
              /\ CompleteInput(op, outcome)
         /\ \A i \in DOMAIN queue' : queue'[i].kind = "key" => queue'[i].context # NoContext
<1> DEFINE op == AfterRun(Oldest, TRUE, Oldest.kind = "key")
<1>1. op \in OperationType /\ op.kind = Oldest.kind /\ op.context = Oldest.context
  BY LastOfQueue, RunKeepsIdentity DEF IInv
<1>2. RunDirect(op, outcome) \/ RunNow(op, outcome) \/ RunSession(op, outcome)
  BY DEF Completes
<1> HIDE DEF op
<1>3. CompleteInput(op, outcome)
  BY <1>2 DEF RunDirect, RunNow, RunSession
<1>4. CASE RunDirect(op, outcome) \/ RunNow(op, outcome)
  <2>1. /\ pump = "loop" /\ pump' = "loop" /\ active = None /\ request' = Answer(op, outcome)
        /\ Oldest.context = NoContext => outcome # "cancelled"
    BY <1>4 DEF RunDirect, RunNow, Ready
  <2>2. Serving' => Serving /\ request' = request
    BY <2>1, TypedState DEF Answer, Serving, IInv, RequestType
  <2> QED
    BY <1>1, <1>3, <2>1, <2>2, KeysKeepFields
<1>5. CASE RunSession(op, outcome)
  <2>1. /\ pump = "off" /\ active # None /\ request.stage = "none" /\ request' = request
        /\ pump' = IF blocked' \/ outcome = "cancelled" THEN "off" ELSE "enter"
    BY <1>5 DEF RunSession, Idle
  <2> QED
    BY <1>1, <1>3, <2>1, KeysKeepFields DEF Serving
<1> QED
  BY <1>2, <1>4, <1>5

LEMMA RunFields ==
  ASSUME IInv, queue # <<>>, NEW outcome \in Outcomes, Completes(outcome),
         composing' \in Contexts \cup {NoContext}, refusals' \in 0 .. 2
  PROVE  FieldsFit'
<1>1. Serving' => Serving /\ request' = request /\ pump = "loop"
  BY RunShape
<1>2. \A i \in DOMAIN queue' : queue'[i].kind = "key" => queue'[i].context # NoContext
  BY RunShape
<1> QED
  BY <1>1, <1>2 DEF IInv, FieldsFit, Serving

(* A run that the host did not refuse. *)
LEMMA RunDone ==
  ASSUME IInv, Unrefused, Unread, queue # <<>>, Completes("done"), flags' = flags,
         flags.resync /\ Oldest.context = NoContext /\ Oldest.kind # "key" => composing' = NoContext
  PROVE  Unrefused' /\ Unread'
<1>1. "done" \in Outcomes
  BY DEF Outcomes
<1>2. PICK op : CompleteInput(op, "done")
  BY <1>1, RunShape
<1>3. queue' = Tail(queue) /\ active' = None /\ blocked' = blocked
  BY <1>2 DEF CompleteInput, Blocks
<1>4. AllNone => AllNone'
  BY <1>3, ShorterQueue DEF IInv
<1>5. Serving' => Serving /\ request' = request /\ pump = "loop" /\ pump' = "loop"
  BY <1>1, RunShape
<1>6. pump' \in {"loop", "enter"} /\ (pump = "loop" \/ active # None)
  BY <1>1, <1>3, RunShape DEF Unrefused
<1>7. Unrefused'
  BY <1>3, <1>4, <1>5, <1>6 DEF Unrefused
<1>8. flags.resync => AllNone /\ pump = "loop" /\ Oldest.context = NoContext /\ Oldest.kind # "key"
  <2> SUFFICES ASSUME flags.resync
               PROVE  AllNone /\ pump = "loop" /\ Oldest.context = NoContext /\ Oldest.kind # "key"
    OBVIOUS
  <2>1. pump = "loop" /\ AllNone
    BY <1>1, RunShape DEF Unread
  <2>2. 1 \in DOMAIN queue /\ Oldest = queue[1]
    BY LastOfQueue DEF IInv
  <2> QED
    BY <2>1, <2>2 DEF AllNone, IInv, FieldsFit
<1>9. Unread'
  BY <1>3, <1>4, <1>5, <1>8 DEF Unread, IInv, FieldsFit, Serving, HostKinds
<1> QED
  BY <1>7, <1>9

LEMMA RunningKeeps ==
  ASSUME IInv, RunKey \/ CommitRefused \/ RunMode
  PROVE  FieldsFit' /\ LiveInv'
<1>1. queue # <<>>
  BY DEF RunKey, CommitRefused, RunMode, Active
<1>2. Oldest.context \in Contexts \cup {NoContext} /\ flags \in FlagType
      /\ composing \in Contexts \cup {NoContext} /\ refusals \in 0 .. 2
  BY <1>1, LastOfQueue, TypedState DEF IInv, FieldsFit
<1>3. "done" \in Outcomes /\ "failed" \in Outcomes
  BY DEF Outcomes
<1>4. CASE RunKey
  <2>1. /\ Oldest.kind = "key" /\ composing' \in {NoContext, composing, Oldest.context}
        /\ refusals' \in 0 .. 2 /\ (refusals' = 0 => refusals = 0 /\ Completes("done"))
        /\ Completes("done") \/ Completes("failed")
    BY <1>2, <1>4 DEF RunKey, MayRefuse
  <2>2. FieldsFit'
    BY <1>1, <1>2, <1>3, <2>1, RunFields
  <2>3. ASSUME refusals' = 0
        PROVE  Unrefused' /\ Unread'
    <3>1. PICK op \in OperationType : op.kind = Oldest.kind /\ CompleteInput(op, "done")
      BY <1>1, <1>3, <2>1, <2>3, RunShape
    <3>2. flags' = flags
      BY <2>1, <3>1 DEF CompleteInput, Blocks, Attempted, Refused, HostKinds
    <3> QED
      BY <1>1, <2>1, <2>3, <3>2, RunDone DEF IInv, LiveInv
  <2> QED
    BY <2>2, <2>3 DEF LiveInv
<1>5. CASE CommitRefused
  <2>1. Completes("failed") /\ refusals' \in {1, 2} /\ composing' = composing
    BY <1>5 DEF CommitRefused, MayRefuse
  <2> QED
    BY <1>1, <1>2, <1>3, <2>1, RunFields DEF LiveInv
<1>6. CASE RunMode
  <2>1. PICK refusing \in BOOLEAN :
          /\ MayRefuse(refusing)
          /\ \E s \in Changed(Oldest, refusing) :
               /\ Completes(Outcome(s)) /\ flags' = Refused(Oldest, Outcome(s), s.flags)
    BY <1>6 DEF RunMode
  <2>2. PICK s \in Changed(Oldest, refusing) :
          Completes(Outcome(s)) /\ flags' = Refused(Oldest, Outcome(s), s.flags)
    BY <2>1
  <2>3. composing' = NoContext /\ Outcome(s) \in Outcomes
    BY <1>3, <1>6 DEF RunMode, Outcome
  <2>4. refusals' \in 0 .. 2 /\ (refusals' = 0 => refusals = 0 /\ refusing = FALSE)
    BY <1>2, <2>1 DEF MayRefuse
  <2>5. FieldsFit'
    BY <1>1, <2>2, <2>3, <2>4, RunFields
  <2>6. ASSUME refusals' = 0
        PROVE  Unrefused' /\ Unread'
    <3>1. s.flags = flags /\ s.ok = TRUE
      BY <2>2, <2>4, <2>6 DEF Changed, Publish, Reconcile, When, Step
    <3>2. Outcome(s) = "done"
      BY <3>1 DEF Outcome
    <3>3. flags' = flags
      BY <2>2, <3>1, <3>2 DEF Refused
    <3> QED
      BY <1>1, <2>2, <2>3, <2>4, <2>6, <3>2, <3>3, RunDone DEF IInv, LiveInv
  <2> QED
    BY <2>5, <2>6 DEF LiveInv
<1> QED
  BY <1>4, <1>5, <1>6
-----------------------------------------------------------------------------
(* The host and the message. *)
LEMMA CancelForgets ==
  ASSUME IInv, CancelInput
  PROVE  /\ queue' = <<>> /\ active' = None /\ blocked' = FALSE
         /\ flags'.restore = FALSE /\ (flags.recover = FALSE => flags'.recover = FALSE)
         /\ AllNone'
  BY TypedState DEF CancelInput, IInv, FlagType, AllNone

LEMMA InterruptedKeeps ==
  ASSUME IInv, Interrupted \/ Cancelled
  PROVE  FieldsFit' /\ LiveInv'
<1>1. /\ flags'.resync => composing' = NoContext
      /\ composing' \in {composing, NoContext} /\ UNCHANGED refusals
  BY DEF Interrupted, Cancelled, Abandoned
<1>2. CASE (DropSession \/ Cancel) /\ UNCHANGED refusals
  <2>1. CancelInput /\ request.stage = "none" /\ UNCHANGED <<pump, request>> /\ pump = "off"
    BY <1>2 DEF DropSession, Cancel, Idle
  <2>2. ~Serving'
    BY <2>1 DEF Serving
  <2> QED
    <3>1. FieldsFit'
      <4>1. composing' \in Contexts \cup {NoContext} /\ refusals' \in 0 .. 2
        BY <1>1 DEF IInv, FieldsFit
      <4>2. \A i \in DOMAIN queue' : queue'[i].kind = "key" => queue'[i].context # NoContext
        BY <2>1, CancelForgets
      <4> QED
        BY <2>2, <4>1, <4>2 DEF FieldsFit
    <3>2. LiveInv'
      BY <1>1, <2>1, <2>2, CancelForgets DEF IInv, LiveInv, Unrefused, Unread
    <3> QED
      BY <3>1, <3>2
<1>3. CASE queue # <<>> /\ Oldest.kind = "key" /\ Completes("cancelled")
  <2>1. "cancelled" \in Outcomes
    BY DEF Outcomes
  <2>2. CancelInput
    <3>1. PICK op : CompleteInput(op, "cancelled")
      BY <1>3, <2>1, RunShape
    <3> QED
      BY <3>1 DEF CompleteInput, Blocks
  <2>3. FieldsFit'
    BY <1>1, <1>3, <2>1, RunFields DEF IInv, FieldsFit
  <2>4. ASSUME refusals = 0
        PROVE  ~Serving'
    <3>1. 1 \in DOMAIN queue /\ Oldest = queue[1] /\ Oldest.context # NoContext
      BY <1>3, LastOfQueue DEF IInv, FieldsFit
    <3>2. ~AllNone
      BY <3>1 DEF AllNone
    <3> QED
      BY <1>3, <2>1, <2>4, <3>2, RunShape DEF IInv, LiveInv, Unrefused
  <2> QED
    BY <1>1, <2>2, <2>3, <2>4, CancelForgets DEF IInv, LiveInv, Unrefused, Unread
<1> QED
  BY <1>1, <1>2, <1>3 DEF Interrupted, Cancelled

LEMMA MessageKeeps ==
  ASSUME IInv, Message \/ Focus \/ Stale
  PROVE  FieldsFit' /\ LiveInv'
<1>1. /\ request.stage = "none" /\ pump = "off" /\ pump' \in {pump, PumpCall}
      /\ flags' \in {flags, [flags EXCEPT !.posted = FALSE]} /\ flags \in FlagType
      /\ UNCHANGED <<queue, active, blocked, request, composing, refusals>>
  BY TypedState DEF Message, Focus, Stale, ModePump, Activity, StaleSession, Idle, modeVars, IInv
<1>2. /\ flags'.restore = flags.restore /\ flags'.resync = flags.resync
      /\ flags'.recover = flags.recover
  BY <1>1 DEF FlagType
<1> QED
  BY <1>1, <1>2 DEF IInv, FieldsFit, LiveInv, Unrefused, Unread, AllNone, Serving, Oldest, PumpCall
-----------------------------------------------------------------------------
LEMMA InitEstablishes == Init => IInv
<1> SUFFICES ASSUME Init PROVE IInv
  OBVIOUS
<1>1. QInv
  BY QueueInitEstablishes DEF Init
<1> QED
  BY <1>1 DEF Init, ModeInit, QueueInit, IInv, FieldsFit, LiveInv, Unrefused, Unread, AllNone,
              Serving, Quiet, NoRequest

LEMMA ModeStepKeeps == IInv /\ [Next]_vars => IInv'
<1> SUFFICES ASSUME IInv, [Next]_vars PROVE IInv'
  OBVIOUS
<1>1. QInv'
  BY StepIsQueueStep, StepKeeps DEF IInv
<1>2. FieldsFit' /\ LiveInv'
  <2>1. CASE \E c \in Contexts : Key(c)
    BY <2>1, KeyKeeps
  <2>2. CASE Toggle \/ \E kind \in HostKinds, value \in BOOLEAN : HostWrites(kind, value)
    BY <2>2, AskingKeeps
  <2>3. CASE Served \/ Withdrawn
    BY <2>3, ServingKeeps
  <2>4. CASE Superseded
    BY <2>4, SupersededKeeps
  <2>5. CASE Entered
    BY <2>5, EnteredKeeps
  <2>6. CASE Pumped
    BY <2>6, PumpedKeeps
  <2>7. CASE Denied
    BY <2>7, DeniedKeeps
  <2>8. CASE RunKey \/ CommitRefused \/ RunMode
    BY <2>8, RunningKeeps
  <2>9. CASE Interrupted \/ Cancelled
    BY <2>9, InterruptedKeeps
  <2>10. CASE Message \/ Focus \/ Stale
    BY <2>10, MessageKeeps
  <2>11. CASE UNCHANGED vars
    BY <2>11 DEF vars, queueVars, modeVars, IInv, FieldsFit, LiveInv, Unrefused, Unread, AllNone,
                 Serving, Oldest, Notifying
  <2> QED
    BY <2>1, <2>2, <2>3, <2>4, <2>5, <2>6, <2>7, <2>8, <2>9, <2>10, <2>11 DEF Next
<1> QED
  BY <1>1, <1>2 DEF IInv

(* Whatever the mode and the host do, the queue of the Windows text service *)
(* goes by the rules of InputQueue: all that is proved of them holds here.  *)
THEOREM ModeImplementsQueue == Spec => QueueSpec
<1>1. Init => QueueInit /\ IInv
  BY InitEstablishes DEF Init
<1>2. IInv /\ [Next]_vars => IInv' /\ [QueueNext]_queueVars
  BY ModeStepKeeps, StepIsQueueStep
<1> QED
  BY <1>1, <1>2, PTL DEF Spec, QueueSpec

(* As long as the host refused nothing, what becomes of a key (isPotentialKey *)
(* and the push, TextService.cpp) is decided with no host mode left unread.   *)
THEOREM KeysDecidedInLiveMode == Spec => []KeysSeeLiveMode
<1>1. Init => IInv
  BY InitEstablishes
<1>2. IInv /\ [Next]_vars => IInv'
  BY ModeStepKeeps
<1>3. IInv => KeysSeeLiveMode
  <2> SUFFICES ASSUME IInv, Pushing, request.op.kind = "key", flags.resync, ~(refusals > 0)
               PROVE  FALSE
    BY DEF KeysSeeLiveMode
  <2>1. refusals = 0
    BY DEF IInv, FieldsFit
  <2> QED
    BY <2>1 DEF IInv, LiveInv, Unread, Serving, Pushing
<1> QED
  BY <1>1, <1>2, <1>3, PTL DEF Spec
-----------------------------------------------------------------------------
ModeType == [chinese : BOOLEAN, open : BOOLEAN, native : BOOLEAN, target : BOOLEAN]
ModeTyped == mode \in ModeType /\ latest \in HostKinds /\ wanted \subseteq BOOLEAN

(* What holds of a mode m and flags f: with nothing pending the modes agree; *)
(* whatever is pending leads to a mode of w; and while a notification of v   *)
(* waits, v is in its compartment and nothing else is recovered.             *)
Agreeing(m, f) ==
  f.restore \/ f.resync \/ f.recover \/ (m.open = m.native /\ m.native = m.chinese)
LeadsTo(m, f, w) ==
  /\ f.resync \/ f.restore => Live(m) \in w
  /\ f.recover => m.target \in w
  /\ f.restore \/ ~(f.resync \/ f.recover) => m.chinese \in w
Notified(m, f, v) ==
  /\ Live(m) = v /\ ~f.restore /\ (f.recover => m.target = v)
-----------------------------------------------------------------------------
(* The steps that write the compartments, one by one. *)
LEMMA AfterFailureIs ==
  ASSUME NEW m \in ModeType, NEW v \in BOOLEAN, NEW n \in AfterFailure(m, v)
  PROVE  /\ n \in ModeType /\ n.chinese = m.chinese /\ n.target = m.target /\ n.native = m.native
         /\ n.open = m.open \/ (n.open = v /\ m.native # v)
  BY DEF AfterFailure, ModeType

LEMMA ScheduledIs ==
  ASSUME NEW m \in ModeType, NEW f \in FlagType, NEW v \in BOOLEAN, NEW s, s = Schedule(m, f, v)
  PROVE  /\ ~s.ok /\ s.mode \in ModeType /\ s.flags \in FlagType
         /\ s.mode.chinese = m.chinese /\ s.mode.open = m.open /\ s.mode.native = m.native
         /\ s.mode.target = v
         /\ s.flags.recover /\ s.flags.restore = f.restore /\ s.flags.resync = f.resync
<1> DEFINE n == [m EXCEPT !.target = v]
           g == [f EXCEPT !.recover = TRUE]
           h == [g EXCEPT !.posted = @ \/ ~f.recover]
<1>1. Schedule(m, f, v) = [mode |-> n, flags |-> h, ok |-> FALSE]
  BY Zenon DEF Schedule, Step, Scheduled
<1>2. /\ n \in ModeType /\ n.chinese = m.chinese /\ n.open = m.open /\ n.native = m.native
      /\ n.target = v
  BY DEF ModeType
<1>3. g \in FlagType /\ g.recover /\ g.restore = f.restore /\ g.resync = f.resync
  BY DEF FlagType
<1> HIDE DEF n, g
<1>4. h \in FlagType /\ h.recover /\ h.restore = f.restore /\ h.resync = f.resync
  BY <1>3 DEF FlagType
<1> HIDE DEF h
<1> QED  BY <1>1, <1>2, <1>4

LEMMA RepublishedIs ==
  ASSUME NEW m \in ModeType, NEW f \in FlagType, NEW v \in BOOLEAN
  PROVE  LET n == Republished(m, f, v) IN
         /\ n \in ModeType /\ n.open = v /\ n.native = v /\ n.chinese = v
         /\ n.target = IF f.recover THEN v ELSE m.target
<1> DEFINE a == [m EXCEPT !.open = v]
           b == [a EXCEPT !.native = v]
           c == [b EXCEPT !.chinese = v]
           d == [c EXCEPT !.target = IF f.recover THEN v ELSE @]
<1>1. Republished(m, f, v) = d
  BY Zenon DEF Republished
<1>2. a \in ModeType /\ a.open = v /\ a.target = m.target
  BY DEF ModeType
<1> HIDE DEF a
<1>3. b \in ModeType /\ b.open = v /\ b.native = v /\ b.target = m.target
  BY <1>2 DEF ModeType
<1> HIDE DEF b
<1>4. c \in ModeType /\ c.open = v /\ c.native = v /\ c.chinese = v /\ c.target = m.target
  BY <1>3 DEF ModeType
<1> HIDE DEF c
<1>5. /\ d \in ModeType /\ d.open = v /\ d.native = v /\ d.chinese = v
      /\ d.target = IF f.recover THEN v ELSE m.target
  BY <1>4 DEF ModeType
<1> HIDE DEF d
<1> QED  BY <1>1, <1>5

LEMMA PublishIs ==
  ASSUME NEW m \in ModeType, NEW f \in FlagType, NEW v \in BOOLEAN, NEW refusing,
         NEW s \in Publish(m, f, v, refusing)
  PROVE  /\ s.mode \in ModeType /\ s.flags \in FlagType
         /\ s.flags.restore = f.restore /\ s.flags.resync = f.resync
         /\ \/ /\ s.ok /\ s.flags = f
               /\ s.mode.open = v /\ s.mode.native = v /\ s.mode.chinese = v
               /\ s.mode.target = IF f.recover THEN v ELSE m.target
            \/ /\ ~s.ok /\ s.flags.recover
               /\ s.mode.chinese = m.chinese /\ s.mode.target = m.chinese
               /\ s.mode.native = m.native
               /\ s.mode.open = m.open \/ (s.mode.open = v /\ m.native # v)
<1>1. CASE s = Step(Republished(m, f, v), f, TRUE)
  BY <1>1, RepublishedIs DEF Step
<1>2. ASSUME NEW n \in AfterFailure(m, v), s = Schedule(n, f, m.chinese)
      PROVE  /\ s.mode \in ModeType /\ s.flags \in FlagType
             /\ s.flags.restore = f.restore /\ s.flags.resync = f.resync
             /\ ~s.ok /\ s.flags.recover
             /\ s.mode.chinese = m.chinese /\ s.mode.target = m.chinese
             /\ s.mode.native = m.native
             /\ s.mode.open = m.open \/ (s.mode.open = v /\ m.native # v)
  <2>1. /\ n \in ModeType /\ n.chinese = m.chinese /\ n.native = m.native
        /\ n.open = m.open \/ (n.open = v /\ m.native # v)
    BY AfterFailureIs
  <2>2. m.chinese \in BOOLEAN
    BY DEF ModeType
  <2>3. /\ ~s.ok /\ s.mode \in ModeType /\ s.flags \in FlagType
        /\ s.mode.chinese = n.chinese /\ s.mode.open = n.open /\ s.mode.native = n.native
        /\ s.mode.target = m.chinese
        /\ s.flags.recover /\ s.flags.restore = f.restore /\ s.flags.resync = f.resync
    BY <1>2, <2>1, <2>2, ScheduledIs
  <2> QED  BY <2>1, <2>3
<1>3. s = Step(Republished(m, f, v), f, TRUE) \/ \E n \in AfterFailure(m, v) : s = Schedule(n, f, m.chinese)
  BY DEF Publish, When
<1> QED  BY <1>1, <1>2, <1>3

LEMMA ReconcileIs ==
  ASSUME NEW m \in ModeType, NEW f \in FlagType, NEW kind \in HostKinds, NEW v \in BOOLEAN,
         NEW refusing, NEW s \in Reconcile(m, f, kind, v, refusing)
  PROVE  /\ s.mode \in ModeType /\ s.flags \in FlagType
         /\ s.flags.restore = f.restore /\ s.flags.resync = f.resync
         /\ s.mode.chinese = m.chinese
         /\ \/ /\ s.ok /\ s.flags = f /\ s.mode.target = m.target
               /\ s.mode.open = IF kind = "native" THEN v ELSE m.open
               /\ s.mode.native = IF kind = "native" THEN m.native ELSE v
            \/ /\ ~s.ok /\ s.flags.recover /\ s.mode.target = v
               /\ s.mode.open = m.open /\ s.mode.native = m.native
<1>1. CASE s = Step(Other(m, kind, v), f, TRUE)
  <2>1. /\ s.mode = Other(m, kind, v) /\ s.flags = f /\ s.ok
    BY <1>1 DEF Step
  <2>2. /\ s.mode \in ModeType /\ s.mode.chinese = m.chinese /\ s.mode.target = m.target
        /\ s.mode.open = IF kind = "native" THEN v ELSE m.open
        /\ s.mode.native = IF kind = "native" THEN m.native ELSE v
    BY <2>1 DEF Other, ModeType
  <2> QED  BY <2>1, <2>2
<1>2. CASE s = Schedule(m, f, v)
  <2>3. /\ ~s.ok /\ s.mode \in ModeType /\ s.flags \in FlagType
        /\ s.mode.chinese = m.chinese /\ s.mode.open = m.open /\ s.mode.native = m.native
        /\ s.mode.target = v
        /\ s.flags.recover /\ s.flags.restore = f.restore /\ s.flags.resync = f.resync
    BY <1>2, ScheduledIs
  <2> QED  BY <2>3
<1> QED  BY <1>1, <1>2 DEF Reconcile, When
-----------------------------------------------------------------------------
(* The recoveries keep modes and flags that agree, and what they lead to.   *)
Held(s, m, f) ==
  /\ s.mode \in ModeType /\ s.flags \in FlagType
  /\ Agreeing(m, f) => Agreeing(s.mode, s.flags)
  /\ \A w \in SUBSET BOOLEAN : LeadsTo(m, f, w) => LeadsTo(s.mode, s.flags, w)
  /\ \A v \in BOOLEAN : Notified(m, f, v) => Notified(s.mode, s.flags, v)

LEMMA ResyncHolds ==
  ASSUME ModeTyped, NEW m \in ModeType, NEW f \in FlagType, NEW refusing, NEW s \in Resync(m, f, refusing)
  PROVE  Held(s, m, f)
<1>1. CASE s.mode = m /\ s.flags = f
  BY <1>1 DEF Held
<1>2. ASSUME f.resync,
             s \in Reconcile([m EXCEPT !.chinese = Live(m)], [f EXCEPT !.resync = FALSE], latest,
                             Live(m), refusing)
      PROVE  Held(s, m, f)
  <2> DEFINE n == [m EXCEPT !.chinese = Live(m)]
             g == [f EXCEPT !.resync = FALSE]
             v == Live(m)
  <2>1. v \in BOOLEAN /\ latest \in HostKinds
    BY DEF Live, ModeType, ModeTyped
  <2>2. /\ n \in ModeType /\ n.chinese = v /\ n.open = m.open /\ n.native = m.native
        /\ n.target = m.target
    BY <2>1 DEF ModeType
  <2>3. g \in FlagType /\ g.resync = FALSE /\ g.restore = f.restore /\ g.recover = f.recover
    BY DEF FlagType
  <2>4. s \in Reconcile(n, g, latest, v, refusing)
    BY <1>2
  <2>5. v = IF latest = "native" THEN m.native ELSE m.open
    BY DEF Live
  <2> HIDE DEF n, g, v
  <2>11. /\ s.mode \in ModeType /\ s.flags \in FlagType
         /\ s.flags.restore = g.restore /\ s.flags.resync = g.resync
         /\ s.mode.chinese = n.chinese
         /\ \/ /\ s.ok /\ s.flags = g /\ s.mode.target = n.target
               /\ s.mode.open = IF latest = "native" THEN v ELSE n.open
               /\ s.mode.native = IF latest = "native" THEN n.native ELSE v
            \/ /\ ~s.ok /\ s.flags.recover /\ s.mode.target = v
               /\ s.mode.open = n.open /\ s.mode.native = n.native
    BY <2>1, <2>2, <2>3, <2>4, ReconcileIs
  <2>6. /\ s.mode \in ModeType /\ s.flags \in FlagType
        /\ s.flags.restore = f.restore /\ s.flags.resync = FALSE
        /\ s.mode.chinese = v
        /\ \/ /\ s.flags.recover = f.recover /\ s.mode.target = m.target
              /\ s.mode.open = v /\ s.mode.native = v
           \/ /\ s.flags.recover /\ s.mode.target = v
              /\ s.mode.open = m.open /\ s.mode.native = m.native
    BY <2>2, <2>3, <2>5, <2>11
  <2>7. Live(s.mode) = v /\ Live(m) = v
    BY <2>5, <2>6 DEF Live
  <2>8. Agreeing(s.mode, s.flags)
    BY <2>6 DEF Agreeing
  <2>9. \A w : LeadsTo(m, f, w) => LeadsTo(s.mode, s.flags, w)
    BY <1>2, <2>6, <2>7 DEF LeadsTo
  <2>10. \A u : Notified(m, f, u) => Notified(s.mode, s.flags, u)
    BY <2>6, <2>7 DEF Notified
  <2> QED  BY <2>6, <2>8, <2>9, <2>10 DEF Held
<1>3. s \in {Step(m, f, TRUE), Step(m, f, FALSE)} => s.mode = m /\ s.flags = f
  BY DEF Step
<1>4. CASE ~f.resync \/ composing # NoContext
  <2>1. s = Step(m, f, TRUE)
    BY <1>4, Zenon DEF Resync
  <2> QED  BY <2>1, <1>3, <1>1
<1>5. CASE ~(~f.resync \/ composing # NoContext)
  BY <1>5, <1>1, <1>2, <1>3 DEF Resync, When
<1> QED  BY <1>4, <1>5

LEMMA RecoverHolds ==
  ASSUME ModeTyped, NEW m \in ModeType, NEW f \in FlagType, NEW refusing, NEW s \in Recover(m, f, refusing)
  PROVE  Held(s, m, f)
<1>1. CASE ~f.recover
  <2>1. s = Step(m, f, TRUE)
    BY <1>1, Zenon DEF Recover
  <2> QED  BY <2>1 DEF Step, Held
<1>2. CASE f.recover
  <2> DEFINE v == m.target
             p == Republished(m, f, v)
             n == [p EXCEPT !.target = v]
             g == [f EXCEPT !.recover = FALSE]
  <2>1. v \in BOOLEAN
    BY DEF ModeType
  <2>2. p \in ModeType /\ p.open = v /\ p.native = v /\ p.chinese = v
    BY <2>1, RepublishedIs
  <2> HIDE DEF p
  <2>3. n \in ModeType /\ n.open = v /\ n.native = v /\ n.chinese = v /\ n.target = v
    BY <2>1, <2>2 DEF ModeType
  <2>4. g \in FlagType /\ ~g.recover /\ g.restore = f.restore /\ g.resync = f.resync
    BY DEF FlagType
  <2>5. s = Step(n, g, TRUE) \/ \E x \in AfterFailure(m, v) : s = Step(x, f, FALSE)
    BY <1>2 DEF Recover, When, p
  <2> HIDE DEF n, g, v
  <2>6. CASE s = Step(n, g, TRUE)
    <3>1. s.mode = n /\ s.flags = g
      BY <2>6 DEF Step
    <3>2. Live(n) = v
      BY <2>3 DEF Live
    <3> QED  BY <1>2, <2>3, <2>4, <3>1, <3>2 DEF Held, Agreeing, LeadsTo, Notified, v
  <2>7. ASSUME NEW x \in AfterFailure(m, v), s = Step(x, f, FALSE)
        PROVE  Held(s, m, f)
    <3>1. s.mode = x /\ s.flags = f
      BY <2>7 DEF Step
    <3>2. /\ x \in ModeType /\ x.chinese = m.chinese /\ x.target = m.target /\ x.native = m.native
          /\ x.open = m.open \/ (x.open = v /\ m.native # v)
      BY <2>1, AfterFailureIs
    <3>3. Live(x) \in {Live(m), v}
      BY <3>2 DEF Live
    <3> QED  BY <1>2, <3>1, <3>2, <3>3 DEF Held, Agreeing, LeadsTo, Notified, v
  <2> QED  BY <2>5, <2>6, <2>7
<1> QED  BY <1>1, <1>2

LEMMA RestoreHolds ==
  ASSUME ModeTyped, NEW m \in ModeType, NEW f \in FlagType, NEW refusing, NEW s \in Restore(m, f, refusing)
  PROVE  Held(s, m, f)
<1>1. CASE ~f.restore
  <2>1. s = Step(m, f, TRUE)
    BY <1>1, Zenon DEF Restore
  <2> QED  BY <2>1 DEF Step, Held
<1>2. CASE f.restore
  <2> DEFINE v == m.chinese
             g == [f EXCEPT !.restore = FALSE]
  <2>1. v \in BOOLEAN
    BY DEF ModeType
  <2>2. g \in FlagType /\ g.restore = FALSE /\ g.recover = f.recover /\ g.resync = f.resync
    BY DEF FlagType
  <2>3. s \in Publish(m, g, v, refusing)
    BY <1>2 DEF Restore
  <2> HIDE DEF g, v
  <2>10. /\ s.mode \in ModeType /\ s.flags \in FlagType
         /\ s.flags.restore = g.restore /\ s.flags.resync = g.resync
         /\ \/ /\ s.ok /\ s.flags = g
               /\ s.mode.open = v /\ s.mode.native = v /\ s.mode.chinese = v
               /\ s.mode.target = IF g.recover THEN v ELSE m.target
            \/ /\ ~s.ok /\ s.flags.recover
               /\ s.mode.chinese = m.chinese /\ s.mode.target = m.chinese
               /\ s.mode.native = m.native
               /\ s.mode.open = m.open \/ (s.mode.open = v /\ m.native # v)
    BY <2>1, <2>2, <2>3, PublishIs
  <2>4. /\ s.mode \in ModeType /\ s.flags \in FlagType
        /\ s.flags.restore = FALSE /\ s.flags.resync = f.resync
        /\ \/ /\ s.flags = g
              /\ s.mode.open = v /\ s.mode.native = v /\ s.mode.chinese = v
              /\ s.mode.target = IF f.recover THEN v ELSE m.target
           \/ /\ s.flags.recover
              /\ s.mode.chinese = m.chinese /\ s.mode.target = m.chinese
              /\ s.mode.native = m.native
              /\ s.mode.open = m.open \/ (s.mode.open = v /\ m.native # v)
    BY <2>2, <2>10
  <2>5. Live(s.mode) \in {Live(m), v}
    BY <2>4 DEF Live
  <2>6. s.mode.chinese = v
    BY <2>4 DEF v
  <2>7. Agreeing(s.mode, s.flags)
    BY <2>4 DEF Agreeing
  <2>8. \A w : LeadsTo(m, f, w) => LeadsTo(s.mode, s.flags, w)
    BY <1>2, <2>2, <2>4, <2>5, <2>6 DEF LeadsTo, v
  <2>9. \A u : ~Notified(m, f, u)
    BY <1>2 DEF Notified
  <2> QED  BY <2>4, <2>7, <2>8, <2>9 DEF Held
<1> QED  BY <1>1, <1>2

LEMMA RecoveriesHold ==
  ASSUME ModeTyped, flags \in FlagType, NEW refusing, NEW s \in Recovered(mode, flags, refusing)
  PROVE  Held(s, mode, flags)
<1> PICK r \in Resync(mode, flags, refusing) :
      s \in UNION {Restore(t.mode, t.flags, refusing) : t \in Recover(r.mode, r.flags, refusing)}
  BY DEF Recovered
<1> PICK t \in Recover(r.mode, r.flags, refusing) : s \in Restore(t.mode, t.flags, refusing)
  OBVIOUS
<1>1. Held(r, mode, flags)
  BY ResyncHolds DEF ModeTyped
<1>2. r.mode \in ModeType /\ r.flags \in FlagType
  BY <1>1 DEF Held
<1>3. Held(t, r.mode, r.flags)
  BY <1>2, RecoverHolds
<1>4. t.mode \in ModeType /\ t.flags \in FlagType
  BY <1>3 DEF Held
<1>5. Held(s, t.mode, t.flags)
  BY <1>4, RestoreHolds
<1> QED  BY <1>1, <1>3, <1>5 DEF Held
-----------------------------------------------------------------------------
(* The types of the mode. *)
LEMMA RunModeIs ==
  ASSUME ModeTyped, flags \in FlagType, NEW op \in OperationType, op.kind \in Modes,
         NEW refusing, NEW s \in Changed(op, refusing)
  PROVE  /\ s.mode \in ModeType /\ s.flags \in FlagType
         /\ s.flags.restore = flags.restore /\ s.flags.resync = flags.resync
         /\ \/ /\ s.ok /\ s.flags = flags /\ s.mode.chinese = op.value
               /\ \/ s.mode.open = op.value /\ s.mode.native = op.value
                  \/ op.kind \in HostKinds /\ s.mode.open = op.value /\ s.mode.native = mode.native
                       /\ op.kind = "native"
                  \/ op.kind \in HostKinds /\ s.mode.native = op.value /\ s.mode.open = mode.open
                       /\ op.kind = "open"
               /\ s.mode.target = mode.target \/ (flags.recover /\ s.mode.target = op.value)
               /\ flags.recover /\ op.kind = "mode" => s.mode.target = op.value
            \/ ~s.ok /\ s.flags.recover
<1>1. op.value \in BOOLEAN /\ mode \in ModeType
  BY DEF OperationType, ModeTyped
<1>2. CASE op.kind = "mode"
  <2>1. s \in Publish(mode, flags, op.value, refusing)
    BY <1>2 DEF Changed
  <2> DEFINE v == op.value
  <2> HIDE DEF v
  <2>2. /\ s.mode \in ModeType /\ s.flags \in FlagType
        /\ s.flags.restore = flags.restore /\ s.flags.resync = flags.resync
        /\ \/ /\ s.ok /\ s.flags = flags
              /\ s.mode.open = v /\ s.mode.native = v /\ s.mode.chinese = v
              /\ s.mode.target = IF flags.recover THEN v ELSE mode.target
           \/ /\ ~s.ok /\ s.flags.recover
              /\ s.mode.chinese = mode.chinese /\ s.mode.target = mode.chinese
              /\ s.mode.native = mode.native
              /\ s.mode.open = mode.open \/ (s.mode.open = v /\ mode.native # v)
    BY <1>1, <2>1, PublishIs DEF v
  <2> QED  BY <1>2, <2>2 DEF v, HostKinds
<1>3. CASE op.kind # "mode"
  <2> DEFINE m == [mode EXCEPT !.chinese = op.value]
             v == op.value
  <2>1. s \in Reconcile(m, flags, op.kind, v, refusing) /\ op.kind \in HostKinds
    BY <1>3 DEF Changed, Modes
  <2>2. /\ m \in ModeType /\ m.chinese = v /\ m.open = mode.open /\ m.native = mode.native
        /\ m.target = mode.target
    BY <1>1 DEF ModeType
  <2> HIDE DEF m, v
  <2>3. /\ s.mode \in ModeType /\ s.flags \in FlagType
        /\ s.flags.restore = flags.restore /\ s.flags.resync = flags.resync
        /\ s.mode.chinese = m.chinese
        /\ \/ /\ s.ok /\ s.flags = flags /\ s.mode.target = m.target
              /\ s.mode.open = IF op.kind = "native" THEN v ELSE m.open
              /\ s.mode.native = IF op.kind = "native" THEN m.native ELSE v
           \/ /\ ~s.ok /\ s.flags.recover /\ s.mode.target = v
              /\ s.mode.open = m.open /\ s.mode.native = m.native
    BY <1>1, <2>1, <2>2, ReconcileIs DEF v
  <2> QED  BY <1>3, <2>1, <2>2, <2>3 DEF v, HostKinds
<1> QED  BY <1>2, <1>3

LEMMA RefusedIs ==
  ASSUME NEW f \in FlagType, NEW op, NEW outcome
  PROVE  /\ Refused(op, outcome, f) \in FlagType
         /\ Refused(op, outcome, f).resync = f.resync
         /\ Refused(op, outcome, f).recover = f.recover
         /\ \/ outcome = "failed" /\ op.kind \in HostKinds /\ Refused(op, outcome, f).restore
            \/ ~(outcome = "failed" /\ op.kind \in HostKinds) /\ Refused(op, outcome, f) = f
<1>1. CASE outcome = "failed" /\ op.kind \in HostKinds
  <2> DEFINE g == [f EXCEPT !.restore = TRUE]
             h == [g EXCEPT !.posted = TRUE]
  <2>1. Refused(op, outcome, f) = h
    BY <1>1, Zenon DEF Refused
  <2>2. g \in FlagType /\ g.restore /\ g.resync = f.resync /\ g.recover = f.recover
    BY DEF FlagType
  <2> HIDE DEF g
  <2>3. h \in FlagType /\ h.restore /\ h.resync = f.resync /\ h.recover = f.recover
    BY <2>2 DEF FlagType
  <2> HIDE DEF h
  <2> QED  BY <1>1, <2>1, <2>3
<1>2. CASE ~(outcome = "failed" /\ op.kind \in HostKinds)
  <2>1. Refused(op, outcome, f) = f
    BY <1>2, Zenon DEF Refused
  <2> QED  BY <1>2, <2>1
<1> QED  BY <1>1, <1>2

(* A commit that the host refused leaves the mode, or the old one to be     *)
(* published again.                                                         *)
LEMMA CommitRefusedIs ==
  ASSUME ModeTyped, flags \in FlagType, CommitRefused
  PROVE  \E m \in ModeType, f \in FlagType :
           /\ mode' = m /\ flags' = Refused(Oldest, "failed", f)
           /\ f.restore = flags.restore /\ f.resync = flags.resync
           /\ \/ m = mode /\ f = flags
              \/ f.recover
              \/ f = flags /\ m.open = m.native /\ m.native = m.chinese
<1> PICK s \in {Step(mode, flags, FALSE)} \cup
              IF Oldest.kind = "mode" THEN Publish(mode, flags, mode.chinese, TRUE) ELSE {} :
       mode' = s.mode /\ flags' = Refused(Oldest, "failed", s.flags)
  BY DEF CommitRefused
<1>1. mode \in ModeType /\ mode.chinese \in BOOLEAN
  BY DEF ModeTyped, ModeType
<1>2. CASE s = Step(mode, flags, FALSE)
  <2>1. s.mode = mode /\ s.flags = flags
    BY <1>2 DEF Step
  <2> QED  BY <1>1, <2>1
<1>3. CASE s \in Publish(mode, flags, mode.chinese, TRUE)
  <2> DEFINE v == mode.chinese
             all == TRUE
  <2>1. v \in BOOLEAN /\ s \in Publish(mode, flags, v, all)
    BY <1>1, <1>3
  <2> HIDE DEF v, all
  <2>2. /\ s.mode \in ModeType /\ s.flags \in FlagType
        /\ s.flags.restore = flags.restore /\ s.flags.resync = flags.resync
        /\ \/ /\ s.ok /\ s.flags = flags
              /\ s.mode.open = v /\ s.mode.native = v /\ s.mode.chinese = v
              /\ s.mode.target = IF flags.recover THEN v ELSE mode.target
           \/ /\ ~s.ok /\ s.flags.recover
              /\ s.mode.chinese = mode.chinese /\ s.mode.target = mode.chinese
              /\ s.mode.native = mode.native
              /\ s.mode.open = mode.open \/ (s.mode.open = v /\ mode.native # v)
    BY <1>1, <2>1, PublishIs
  <2> QED  BY <2>2
<1> QED  BY <1>2, <1>3
-----------------------------------------------------------------------------
(* A switch or a notification is being asked for. *)
RequestsMode == Serving /\ request.op.kind \in Modes
HostWaits ==
  \/ \E i \in ModesWaiting : queue[i].kind \in HostKinds
  \/ RequestsMode /\ request.op.kind \in HostKinds

(* A notification waits before all other modes, for the compartment that    *)
(* the host wrote last.                                                     *)
HostFirst ==
  /\ \A i \in ModesWaiting : queue[i].kind \in HostKinds =>
       /\ queue[i].kind = latest /\ Notified(mode, flags, queue[i].value)
       /\ \A j \in ModesWaiting : i <= j
  /\ RequestsMode /\ request.op.kind \in HostKinds =>
       /\ request.op.kind = latest /\ Notified(mode, flags, request.op.value)
       /\ ModesWaiting = {}

(* The mode that was asked for last is the last one that waits, or what the *)
(* pending recoveries lead to.                                              *)
LastWanted ==
  /\ RequestsMode => request.op.value \in wanted
  /\ ~RequestsMode => \A i \in ModesWaiting :
       (\A j \in ModesWaiting : j <= i) => queue[i].value \in wanted
  /\ ~RequestsMode /\ ModesWaiting = {} => LeadsTo(mode, flags, wanted)

AgreeInv ==
  /\ HostFirst
  /\ ~HostWaits => Agreeing(mode, flags)
  /\ LastWanted
NoSymbols == request.op.kind # "symbol" /\ \A i \in DOMAIN queue : queue[i].kind # "symbol"
TInv == IInv /\ ModeTyped /\ NoSymbols

(* The waiting modes stay, d places nearer to the front. *)
Nearer(d) ==
  /\ d \in Nat
  /\ \A i \in ModesWaiting : i \in Nat /\ i > d /\ (i - d) \in ModesWaiting'
  /\ \A i \in ModesWaiting' :
       /\ i \in Nat /\ (i + d) \in ModesWaiting
       /\ queue'[i].kind = queue[i + d].kind /\ queue'[i].value = queue[i + d].value

(* What waits for the mode and its flags is as it was. *)
LikeBefore ==
  /\ latest' = latest /\ wanted \subseteq wanted'
  /\ RequestsMode' <=> RequestsMode
  /\ RequestsMode => request'.op = request.op
  /\ Agreeing(mode, flags) => Agreeing(mode, flags)'
  /\ \A v \in BOOLEAN : Notified(mode, flags, v) => Notified(mode, flags, v)'
  /\ LeadsTo(mode, flags, wanted) => LeadsTo(mode, flags, wanted)'

LEMMA ValuesTyped ==
  ASSUME TInv
  PROVE  /\ \A i \in ModesWaiting : i \in Nat \ {0} /\ queue[i] \in OperationType
                                 /\ queue[i].value \in BOOLEAN /\ queue[i].kind \in Modes
         /\ request.op \in OperationType /\ request.op.value \in BOOLEAN
         /\ queue \in Seq(OperationType) /\ flags \in FlagType
<1>1. queue \in Seq(OperationType) /\ flags \in FlagType /\ request.op \in OperationType
  BY TypedState DEF TInv, IInv, RequestType
<1>2. \A i \in DOMAIN queue : i \in Nat \ {0} /\ queue[i] \in OperationType
  BY <1>1
<1> QED  BY <1>1, <1>2 DEF ModesWaiting, OperationType

(* Whatever waits and is no key is a mode. *)
LEMMA ModeKinds ==
  ASSUME TInv, queue # <<>>, Oldest.kind # "key"
  PROVE  Oldest \in OperationType /\ Oldest.kind \in Modes
<1>1. Oldest \in OperationType /\ Oldest = queue[1] /\ 1 \in DOMAIN queue
  BY LastOfQueue DEF TInv, IInv
<1>2. Oldest.kind \in Kinds /\ Oldest.kind # "symbol"
  BY <1>1 DEF TInv, NoSymbols, OperationType
<1> QED  BY <1>1, <1>2 DEF Kinds, Modes, HostKinds

LEMMA ModesMove ==
  ASSUME TInv, AgreeInv, NEW d, Nearer(d), LikeBefore
  PROVE  AgreeInv'
<1>1. /\ \A i \in ModesWaiting : i \in Nat /\ queue[i].value \in BOOLEAN
      /\ request.op.value \in BOOLEAN
  BY ValuesTyped
<1>2. HostFirst'
  <2>1. ASSUME NEW i \in ModesWaiting', queue'[i].kind \in HostKinds
        PROVE  /\ queue'[i].kind = latest' /\ Notified(mode, flags, queue[i].value)'
               /\ \A j \in ModesWaiting' : i <= j
    <3>1. /\ i + d \in ModesWaiting /\ i \in Nat /\ d \in Nat
          /\ queue'[i].kind = queue[i + d].kind /\ queue'[i].value = queue[i + d].value
      BY <2>1 DEF Nearer
    <3>2. /\ queue[i + d].kind = latest /\ Notified(mode, flags, queue[i + d].value)
          /\ \A j \in ModesWaiting : i + d <= j
      BY <2>1, <3>1 DEF AgreeInv, HostFirst
    <3>3. \A j \in ModesWaiting' : j \in Nat /\ j + d \in ModesWaiting
      BY DEF Nearer
    <3>4. \A j \in ModesWaiting' : i <= j
      BY <3>1, <3>2, <3>3
    <3> QED  BY <1>1, <3>1, <3>2, <3>4 DEF LikeBefore
  <2>2. ModesWaiting = {} => ModesWaiting' = {}
    BY DEF Nearer
  <2> QED  BY <1>1, <2>1, <2>2 DEF HostFirst, LikeBefore, AgreeInv
<1>3. HostWaits => HostWaits'
  <2>1. ASSUME NEW i \in ModesWaiting, queue[i].kind \in HostKinds
        PROVE  HostWaits'
    <3>1. i - d \in ModesWaiting' /\ (i - d) + d = i
      BY <1>1 DEF Nearer
    <3> QED  BY <2>1, <3>1 DEF Nearer, HostWaits
  <2> QED  BY <2>1 DEF HostWaits, LikeBefore
<1>4. LastWanted'
  <2>1. ASSUME ~RequestsMode, NEW i \in ModesWaiting', \A j \in ModesWaiting' : j <= i
        PROVE  queue'[i].value \in wanted'
    <3>1. i + d \in ModesWaiting /\ i \in Nat /\ d \in Nat /\ queue'[i].value = queue[i + d].value
      BY <2>1 DEF Nearer
    <3>2. \A j \in ModesWaiting : j \in Nat /\ j - d \in ModesWaiting'
      BY DEF Nearer
    <3>3. \A j \in ModesWaiting : j <= i + d
      BY <2>1, <3>1, <3>2
    <3> QED  BY <2>1, <3>1, <3>3 DEF AgreeInv, LastWanted, LikeBefore
  <2>2. ModesWaiting' = {} => ModesWaiting = {}
    BY DEF Nearer
  <2>3. RequestsMode' => request'.op.value \in wanted'
    BY DEF AgreeInv, LastWanted, LikeBefore
  <2>4. ~RequestsMode' /\ ModesWaiting' = {} => LeadsTo(mode, flags, wanted)'
    BY <2>2 DEF AgreeInv, LastWanted, LikeBefore
  <2>5. ~RequestsMode' => ~RequestsMode
    BY DEF LikeBefore
  <2> QED  BY <2>1, <2>3, <2>4, <2>5 DEF LastWanted
<1> QED  BY <1>2, <1>3, <1>4 DEF AgreeInv, LikeBefore

(* A run that nobody is waiting for with a mode, and the modes left behind. *)
LEMMA FrontModeGone ==
  ASSUME TInv, AgreeInv, queue # <<>>, Oldest.kind \in Modes, queue' = Tail(queue),
         ~RequestsMode, ~RequestsMode', wanted \subseteq wanted',
         Agreeing(mode, flags)',
         Oldest.value \in wanted' => LeadsTo(mode, flags, wanted)'
  PROVE  AgreeInv'
<1>1. /\ Oldest = queue[1] /\ 1 \in DOMAIN queue /\ queue \in Seq(OperationType)
      /\ Len(queue) \in Nat /\ DOMAIN queue = 1 .. Len(queue)
  BY LastOfQueue, TypedState DEF TInv, IInv
<1>2. 1 \in ModesWaiting
  BY <1>1 DEF ModesWaiting
<1>3. /\ DOMAIN queue' = 1 .. Len(queue) - 1
      /\ \A i \in DOMAIN queue' : i + 1 \in DOMAIN queue /\ queue'[i] = queue[i + 1]
  BY <1>1, FrontAndRest
<1>4. \A i \in ModesWaiting' : i \in Nat /\ i + 1 \in ModesWaiting /\ i + 1 > 1 /\ queue'[i] = queue[i + 1]
  BY <1>1, <1>3 DEF ModesWaiting
<1>5. \A j \in ModesWaiting : j \in Nat /\ (j = 1 \/ (j > 1 /\ j - 1 \in ModesWaiting'))
  <2> SUFFICES ASSUME NEW j \in ModesWaiting, j # 1 PROVE j \in Nat /\ j > 1 /\ j - 1 \in ModesWaiting'
    BY <1>1
  <2>1. j \in 1 .. Len(queue) /\ queue[j].kind \in Modes
    BY <1>1 DEF ModesWaiting
  <2>2. j - 1 \in DOMAIN queue' /\ (j - 1) + 1 = j
    BY <1>1, <1>3, <2>1
  <2>3. queue'[j - 1] = queue[j]
    BY <1>3, <2>2
  <2> QED  BY <2>1, <2>2, <2>3 DEF ModesWaiting
<1>6. \A i \in ModesWaiting' : queue'[i].kind \notin HostKinds
  <2> SUFFICES ASSUME NEW i \in ModesWaiting', queue[i + 1].kind \in HostKinds PROVE FALSE
    BY <1>4
  <2> QED  BY <1>2, <1>4 DEF AgreeInv, HostFirst
<1>7. HostFirst' /\ ~HostWaits'
  BY <1>6 DEF HostFirst, HostWaits
<1>8. ASSUME NEW i \in ModesWaiting', \A j \in ModesWaiting' : j <= i
      PROVE  queue'[i].value \in wanted'
  <2>1. \A j \in ModesWaiting : j <= i + 1
    BY <1>4, <1>5, <1>8
  <2> QED  BY <1>4, <2>1 DEF AgreeInv, LastWanted
<1>9. ASSUME ModesWaiting' = {}
      PROVE  LeadsTo(mode, flags, wanted)'
  <2>1. \A j \in ModesWaiting : j <= 1
    BY <1>5, <1>9
  <2>2. queue[1].value \in wanted
    BY <1>2, <2>1 DEF AgreeInv, LastWanted
  <2> QED  BY <1>1, <2>2
<1> QED  BY <1>7, <1>8, <1>9 DEF AgreeInv, LastWanted

(* Whatever was pending, a mode that is any mode is led to. *)
LEMMA AnythingIsWanted ==
  ASSUME mode' \in ModeType, wanted' = Anything
  PROVE  LeadsTo(mode, flags, wanted)'
<1>1. \A v \in BOOLEAN : v \in wanted'
  BY DEF Anything
<1>2. Live(mode)' \in BOOLEAN /\ mode'.target \in BOOLEAN /\ mode'.chinese \in BOOLEAN
  BY DEF Live, ModeType
<1> QED  BY <1>1, <1>2 DEF LeadsTo

(* What the predicates say stays with the mode and the flags they read. *)
LEMMA SameModeAndFlags ==
  ASSUME latest' = latest, mode' = mode, wanted' = wanted,
         flags'.restore = flags.restore, flags'.resync = flags.resync,
         flags'.recover = flags.recover
  PROVE  /\ Agreeing(mode, flags) => Agreeing(mode, flags)'
         /\ \A v \in BOOLEAN : Notified(mode, flags, v) => Notified(mode, flags, v)'
         /\ LeadsTo(mode, flags, wanted) => LeadsTo(mode, flags, wanted)'
  BY DEF Agreeing, Notified, LeadsTo, Live

(* cancelInput: a notification that is lost is read again. *)
LEMMA CancelAgrees ==
  ASSUME TInv, AgreeInv, CancelInput, ~RequestsMode, ~RequestsMode',
         UNCHANGED <<mode, latest>>, wanted' = Forgotten
  PROVE  AgreeInv'
<1> DEFINE lost == flags.resync \/ flags.restore \/ HostPending
<1>1. /\ queue' = <<>> /\ flags \in FlagType /\ mode \in ModeType
      /\ ~flags'.restore /\ (flags'.resync <=> lost) /\ (flags'.recover <=> flags.recover /\ ~lost)
  <2>1. flags \in FlagType /\ mode \in ModeType
    BY ValuesTyped DEF TInv, ModeTyped
  <2>2. /\ queue' = <<>>
        /\ flags' = [restore |-> FALSE, resync |-> lost, recover |-> flags.recover /\ ~lost,
                     posted |-> flags.posted \/ lost]
    BY DEF CancelInput
  <2> HIDE DEF lost
  <2> QED  BY <2>1, <2>2 DEF FlagType
<1>2. HostPending <=> \E i \in ModesWaiting : queue[i].kind \in HostKinds
  BY DEF HostPending, ModesWaiting, Modes
<1>3. ModesWaiting' = {}
  BY <1>1 DEF ModesWaiting
<1>4. Agreeing(mode, flags)'
  <2>1. CASE HostWaits
    BY <1>1, <1>2, <2>1 DEF HostWaits, Agreeing
  <2>2. CASE ~HostWaits
    BY <1>1, <2>2 DEF AgreeInv, Agreeing
  <2> QED  BY <2>1, <2>2
<1>5. LeadsTo(mode, flags, wanted)'
  <2>1. CASE ModesWaiting = {}
    <3>1. LeadsTo(mode, flags, wanted) /\ wanted' = wanted /\ ~HostPending
      BY <1>2, <2>1 DEF AgreeInv, LastWanted, Forgotten
    <3>2. Live(mode)' = Live(mode)
      BY DEF Live
    <3> QED  BY <1>1, <3>1, <3>2 DEF LeadsTo
  <2>2. CASE ModesWaiting # {}
    BY <1>1, <2>2, AnythingIsWanted DEF Forgotten
  <2> QED  BY <2>1, <2>2
<1> QED  BY <1>3, <1>4, <1>5 DEF AgreeInv, HostFirst, HostWaits, LastWanted
-----------------------------------------------------------------------------
(* The types of the mode under every step. *)
LEMMA ModeTypeStays ==
  ASSUME TInv, [Next]_vars
  PROVE  ModeTyped'
<1>1. mode \in ModeType /\ latest \in HostKinds /\ wanted \subseteq BOOLEAN /\ flags \in FlagType
  BY ValuesTyped DEF TInv, ModeTyped
<1>2. Forgotten \subseteq BOOLEAN /\ Anything \subseteq BOOLEAN
  BY <1>1 DEF Forgotten, Anything
<1>3. CASE Toggle
  BY <1>1, <1>3 DEF Toggle, ModeTyped
<1>4. ASSUME NEW kind \in HostKinds, NEW value \in BOOLEAN, HostWrites(kind, value)
      PROVE  ModeTyped'
  BY <1>1, <1>4 DEF HostWrites, ModeTyped, ModeType, HostKinds
<1>5. CASE Entered
  <2>1. PICK refusing \in BOOLEAN :
          \E s \in IF Notifying THEN {Step(mode, flags, TRUE)} ELSE Recovered(mode, flags, refusing) :
             mode' = s.mode
    BY <1>5 DEF Entered
  <2>2. mode' \in ModeType
    <3>1. CASE Notifying
      BY <1>1, <2>1, <3>1 DEF Step
    <3>2. CASE ~Notifying
      <4> PICK s \in Recovered(mode, flags, refusing) : mode' = s.mode
        BY <2>1, <3>2
      <4>1. Held(s, mode, flags)
        BY <1>1, RecoveriesHold DEF TInv
      <4> QED  BY <4>1 DEF Held
    <3> QED  BY <3>1, <3>2
  <2> QED  BY <1>1, <1>5, <2>2 DEF Entered, ModeTyped
<1>6. CASE Denied
  BY <1>1, <1>2, <1>6 DEF Denied, ModeTyped
<1>7. CASE CommitRefused
  <2>1. mode' \in ModeType
    BY <1>1, <1>7, CommitRefusedIs DEF TInv
  <2> QED  BY <1>1, <1>2, <1>7, <2>1 DEF CommitRefused, ModeTyped
<1>8. CASE RunMode
  <2>1. PICK refusing \in BOOLEAN :
          \E s \in Changed(Oldest, refusing) :
            mode' = s.mode /\ wanted' = IF s.ok THEN wanted ELSE Anything
    BY <1>8 DEF RunMode
  <2>2. PICK s \in Changed(Oldest, refusing) :
          mode' = s.mode /\ wanted' = IF s.ok THEN wanted ELSE Anything
    BY <2>1
  <2>3. Oldest \in OperationType /\ Oldest.kind \in Modes
    BY <1>8, ModeKinds DEF RunMode, Active
  <2>4. mode' \in ModeType
    BY <1>1, <2>2, <2>3, RunModeIs DEF TInv
  <2> QED  BY <1>1, <1>2, <1>8, <2>2, <2>4 DEF RunMode, ModeTyped
<1>9. CASE UNCHANGED <<mode, latest>> /\ wanted' \in {wanted, Forgotten}
  BY <1>1, <1>2, <1>9 DEF ModeTyped
<1>10. CASE UNCHANGED vars \/ (\E c \in Contexts : Key(c)) \/ Served \/ Withdrawn \/ Superseded \/ Pumped
            \/ RunKey \/ Interrupted \/ Cancelled \/ Message \/ Focus \/ Stale
  BY <1>9, <1>10 DEF vars, modeVars, Key, Served, Withdrawn, Superseded, Abandoned, Pumped, RunKey,
                     Interrupted, Cancelled, Message, Focus, Stale
<1> QED  BY <1>3, <1>4, <1>5, <1>6, <1>7, <1>8, <1>10 DEF Next

(* The kinds of what waits are those that were asked for. *)
LEMMA KindsStay ==
  ASSUME QInv, NoSymbols, [Serve \/ Pump \/ Run \/ Host \/ ModePump]_queueVars
  PROVE  NoSymbols'
<1>1. /\ queue \in Seq(OperationType) /\ request \in RequestType
      /\ \A i \in DOMAIN queue : queue[i].kind # "symbol"
  BY TypedState DEF NoSymbols
<1>2. ASSUME queue # <<>>, NEW op \in OperationType, op.kind = Oldest.kind,
             op.context = Oldest.context, NEW outcome, CompleteInput(op, outcome)
      PROVE  \A i \in DOMAIN queue' : queue'[i].kind # "symbol"
  <2>1. CASE queue' = Tail(queue)
    BY <1>1, <1>2, <2>1, ShorterQueue
  <2>2. CASE queue' = <<>>
    BY <2>2
  <2>3. CASE queue' = <<op>> \o Tail(queue)
    BY <1>1, <1>2, <2>3, FrontPutBack
  <2> QED  BY <1>2, <2>1, <2>2, <2>3, CompletionShape
<1>3. ASSUME NEW op, NEW outcome
      PROVE  Answer(op, outcome).op.kind = request.op.kind
  <2> DEFINE v == IF op.kind = "key" THEN op.handled ELSE outcome = "done"
  <2>1. Answer(op, outcome) \in {request, [request EXCEPT !.op = [request.op EXCEPT !.handled = v]]}
    BY Zenon DEF Answer
  <2> HIDE DEF v
  <2>2. [request.op EXCEPT !.handled = v].kind = request.op.kind
    BY <1>1 DEF RequestType, OperationType
  <2> QED  BY <1>1, <2>1, <2>2 DEF RequestType
<1>4. CASE UNCHANGED <<queue, request>>
  BY <1>4 DEF NoSymbols
<1>5. CASE Withdraw \/ Return
  BY <1>5 DEF Withdraw, Return, NoRequest, Operation, NoSymbols
<1>6. CASE Push
  <2> DEFINE o == [request.op EXCEPT !.id = made + 1]
             p == [o EXCEPT !.ordered = queue # <<>>]
  <2>1. queue' = Append(queue, p) /\ request'.op = p
    BY <1>6 DEF Push
  <2>2. o.kind = request.op.kind /\ o = [o EXCEPT !.kind = o.kind]
    BY <1>1 DEF RequestType, OperationType
  <2>3. p.kind = request.op.kind
    BY <2>2
  <2> HIDE DEF o, p
  <2>4. \A i \in DOMAIN queue' : queue'[i] = p \/ (i \in DOMAIN queue /\ queue'[i] = queue[i])
    BY <1>1, <2>1
  <2> QED  BY <1>1, <2>1, <2>3, <2>4 DEF NoSymbols
<1>7. CASE Grant
  <2>1. queue # <<>> /\ queue' = [queue EXCEPT ![1] = [queue[1] EXCEPT !.accepted = TRUE]]
        /\ request' = request
    BY <1>7, Zenon DEF Grant, Ready
  <2>2. [queue[1] EXCEPT !.accepted = TRUE].kind = queue[1].kind
    BY <1>1, <2>1 DEF OperationType
  <2> QED  BY <1>1, <2>1, <2>2 DEF NoSymbols
<1>8. CASE Deny
  <2>1. queue # <<>> /\ CompleteInput(Oldest, "failed") /\ request' = Answer(Oldest, "failed")
    BY <1>8 DEF Deny, Ready
  <2>2. Oldest \in OperationType
    BY <2>1, LastOfQueue
  <2> QED  BY <1>2, <1>3, <2>1, <2>2 DEF NoSymbols
<1>9. CASE Run
  <2> PICK outcome \in Outcomes, p \in BOOLEAN, h \in BOOLEAN :
        LET op == AfterRun(Oldest, p, h)
        IN RunDirect(op, outcome) \/ RunNow(op, outcome) \/ RunSession(op, outcome)
    BY <1>9 DEF Run
  <2> DEFINE op == AfterRun(Oldest, p, h)
  <2>1. /\ queue # <<>> /\ CompleteInput(op, outcome)
        /\ request' = request \/ request' = Answer(op, outcome)
    BY <1>9 DEF Run, RunDirect, RunNow, RunSession
  <2>2. Oldest \in OperationType
    BY <2>1, LastOfQueue
  <2>3. op \in OperationType /\ op.kind = Oldest.kind /\ op.context = Oldest.context
    BY <2>2, RunKeepsIdentity
  <2> HIDE DEF op
  <2> QED  BY <1>2, <1>3, <2>1, <2>3 DEF NoSymbols
<1>10. CASE Supersede
  <2>1. queue' = <<>> /\ request'.op = request.op
    BY <1>1, <1>10 DEF Supersede, CancelInput, RequestType
  <2> QED  BY <2>1 DEF NoSymbols
<1>11. CASE DropSession \/ Cancel
  <2>1. queue' = <<>> /\ request' = request
    BY <1>11 DEF DropSession, Cancel, CancelInput
  <2> QED  BY <2>1 DEF NoSymbols
<1> QED
  BY <1>4, <1>5, <1>6, <1>7, <1>8, <1>9, <1>10, <1>11
     DEF Serve, Pump, PumpEnter, PumpStop, PumpPost, Host, Activity, StaleSession, ModePump, queueVars

LEMMA NoSymbolIsAsked ==
  ASSUME TInv, NEW c, NEW v, NEW kind \in {"key"} \cup Modes, Request(Operation(kind, c, v))
  PROVE  NoSymbols'
  BY DEF Request, Operation, TInv, NoSymbols, Modes, HostKinds

LEMMA NoSymbolsStay ==
  ASSUME TInv, [Next]_vars
  PROVE  NoSymbols'
<1>1. CASE \E c \in Contexts : Key(c)
  BY <1>1, NoSymbolIsAsked DEF Key
<1>2. CASE Toggle
  BY <1>2, NoSymbolIsAsked DEF Toggle, Modes
<1>3. ASSUME NEW kind \in HostKinds, NEW value \in BOOLEAN, HostWrites(kind, value)
      PROVE  NoSymbols'
  <2>1. Observe(kind, value) /\ kind \in Modes
    BY <1>3 DEF HostWrites, Modes
  <2>2. CASE UNCHANGED queueVars
    BY <2>2 DEF queueVars, TInv, NoSymbols
  <2> QED  BY <2>1, <2>2, NoSymbolIsAsked DEF Observe
<1>4. CASE Served \/ Withdrawn \/ Superseded
  BY <1>4, KindsStay DEF Served, Withdrawn, Superseded, Serve, TInv, IInv
<1>5. CASE Entered \/ Pumped \/ Denied
  BY <1>5, KindsStay DEF Entered, Pumped, Denied, Pump, TInv, IInv
<1>6. CASE RunKey \/ CommitRefused
  BY <1>6, RanIsRun, KindsStay DEF RunKey, CommitRefused, Active, Outcomes, TInv, IInv
<1>7. CASE RunMode
  <2>1. queue # <<>> /\ \E s : Completes(Outcome(s))
    BY <1>7 DEF RunMode, Active
  <2>2. \A s : Outcome(s) \in Outcomes
    BY DEF Outcome, Outcomes
  <2> QED  BY <2>1, <2>2, RanIsRun, KindsStay DEF TInv, IInv
<1>8. CASE Interrupted
  BY <1>8, RanIsRun, KindsStay DEF Interrupted, Outcomes, Host, TInv, IInv
<1>9. CASE Cancelled \/ Message \/ Focus \/ Stale
  BY <1>9, KindsStay DEF Cancelled, Message, Focus, Stale, Host, TInv, IInv
<1>10. CASE UNCHANGED vars
  BY <1>10 DEF vars, queueVars, TInv, NoSymbols
<1> QED  BY <1>1, <1>2, <1>3, <1>4, <1>5, <1>6, <1>7, <1>8, <1>9, <1>10 DEF Next

LEMMA TypeStays == TInv /\ [Next]_vars => TInv'
  BY ModeStepKeeps, ModeTypeStays, NoSymbolsStay DEF TInv
-----------------------------------------------------------------------------
(* The modes in a queue that keeps its operations, or loses a key. *)
LEMMA SameQueueNear ==
  ASSUME TInv, ModesWaiting' = ModesWaiting,
         \A i \in ModesWaiting : queue'[i].kind = queue[i].kind /\ queue'[i].value = queue[i].value
  PROVE  Nearer(0)
<1>1. \A i \in ModesWaiting : i \in Nat \ {0}
  BY ValuesTyped
<1>2. \A i \in ModesWaiting : i - 0 = i /\ i + 0 = i /\ i > 0 /\ i \in Nat
  BY <1>1
<1> QED  BY <1>2 DEF Nearer

LEMMA KeyGoneNear ==
  ASSUME TInv, queue # <<>>, Oldest.kind = "key", queue' = Tail(queue)
  PROVE  Nearer(1)
<1>1. /\ Oldest = queue[1] /\ queue \in Seq(OperationType)
      /\ Len(queue) \in Nat /\ DOMAIN queue = 1 .. Len(queue)
  BY LastOfQueue, TypedState DEF TInv, IInv
<1>2. /\ DOMAIN queue' = 1 .. Len(queue) - 1
      /\ \A i \in DOMAIN queue' : i + 1 \in DOMAIN queue /\ queue'[i] = queue[i + 1]
  BY <1>1, FrontAndRest
<1>3. \A i \in ModesWaiting' : i \in Nat /\ i + 1 \in ModesWaiting /\ queue'[i] = queue[i + 1]
  BY <1>1, <1>2 DEF ModesWaiting
<1>4. ASSUME NEW j \in ModesWaiting
      PROVE  j \in Nat /\ j > 1 /\ j - 1 \in ModesWaiting'
  <2>1. j \in 1 .. Len(queue) /\ queue[j].kind \in Modes /\ j # 1
    BY <1>1 DEF ModesWaiting, Modes, HostKinds
  <2>2. j - 1 \in DOMAIN queue' /\ (j - 1) + 1 = j
    BY <1>1, <1>2, <2>1
  <2>3. queue'[j - 1] = queue[j]
    BY <1>2, <2>2
  <2> QED  BY <2>1, <2>2, <2>3 DEF ModesWaiting
<1> QED  BY <1>3, <1>4 DEF Nearer

LEMMA KeyPutBackNear ==
  ASSUME TInv, queue # <<>>, NEW op \in OperationType, op.kind = Oldest.kind,
         op.context = Oldest.context, Oldest.kind = "key", queue' = <<op>> \o Tail(queue)
  PROVE  Nearer(0)
<1>1. /\ queue \in Seq(OperationType) /\ Oldest = queue[1]
      /\ Len(queue) \in Nat \ {0} /\ DOMAIN queue = 1 .. Len(queue)
  BY TypedState, FrontAndRest DEF Oldest, TInv, IInv
<1>2. /\ queue' \in Seq(OperationType) /\ Len(queue') = Len(queue) /\ queue'[1] = op
      /\ \A i \in 2 .. Len(queue) : queue'[i] = queue[i]
  BY <1>1, PutBack
<1>3. DOMAIN queue' = DOMAIN queue
  BY <1>1, <1>2
<1>4. ModesWaiting' = ModesWaiting /\ \A i \in ModesWaiting : queue'[i] = queue[i]
  BY <1>1, <1>2, <1>3 DEF ModesWaiting, Modes, HostKinds
<1> QED  BY <1>4, SameQueueNear

(* A key that ran, or was refused its session. *)
LEMMA KeyLeavesModes ==
  ASSUME TInv, AgreeInv, queue # <<>>, Oldest.kind = "key",
         NEW op \in OperationType, op.kind = Oldest.kind, op.context = Oldest.context,
         NEW outcome, outcome # "cancelled", CompleteInput(op, outcome),
         ~RequestsMode, ~RequestsMode', UNCHANGED <<mode, latest, wanted>>
  PROVE  AgreeInv'
<1>1. flags' = flags /\ (queue' = Tail(queue) \/ queue' = <<op>> \o Tail(queue))
  BY DEF CompleteInput, Attempted, Refused, HostKinds
<1>2. LikeBefore
  BY <1>1, SameModeAndFlags DEF LikeBefore
<1>3. Nearer(0) \/ Nearer(1)
  BY <1>1, KeyGoneNear, KeyPutBackNear
<1> QED  BY <1>2, <1>3, ModesMove

LEMMA ModesTaken ==
  ASSUME TInv, queue # <<>>, NEW op \in OperationType, op.kind = Oldest.kind, op.kind # "key",
         NEW outcome, outcome # "cancelled", CompleteInput(op, outcome)
  PROVE  queue' = Tail(queue)
  BY DEF CompleteInput, Blocks

LEMMA RunsServeNoMode ==
  ASSUME TInv, queue # <<>>, NEW outcome \in Outcomes, Completes(outcome)
  PROVE  ~RequestsMode /\ ~RequestsMode'
<1>1. Serving' => Serving /\ request' = request
  BY RunShape DEF TInv
<1>2. Serving => pump = "loop"
  BY RunShape DEF TInv
<1>3. ~RequestsMode
  BY <1>2 DEF RequestsMode, TInv, IInv, FieldsFit, Modes, HostKinds
<1> QED  BY <1>1, <1>3 DEF RequestsMode

-----------------------------------------------------------------------------
(* The steps, one by one. *)

(* Neither the mode nor what waits for it changes. *)
LEMMA QuietAgrees ==
  ASSUME TInv, AgreeInv, ModesWaiting' = ModesWaiting,
         \A i \in ModesWaiting : queue'[i].kind = queue[i].kind /\ queue'[i].value = queue[i].value,
         UNCHANGED <<mode, latest, wanted>>,
         flags'.restore = flags.restore, flags'.resync = flags.resync,
         flags'.recover = flags.recover,
         RequestsMode' <=> RequestsMode, RequestsMode => request'.op = request.op
  PROVE  AgreeInv'
<1>1. LikeBefore
  BY SameModeAndFlags DEF LikeBefore
<1> QED  BY <1>1, SameQueueNear, ModesMove

LEMMA IdleStepsAgree ==
  ASSUME TInv, AgreeInv,
         UNCHANGED vars \/ (\E c \in Contexts : Key(c)) \/ (Return /\ UNCHANGED modeVars)
           \/ Withdrawn \/ Message \/ Focus \/ Stale
  PROVE  AgreeInv'
<1>1. flags \in FlagType
  BY ValuesTyped
<1>2. UNCHANGED <<queue, mode, latest, wanted>>
  BY DEF vars, queueVars, modeVars, Key, Request, Return, Withdrawn, Withdraw, Message, ModePump,
         Focus, Activity, Stale, StaleSession
<1>3. flags' = flags \/ flags' = [flags EXCEPT !.posted = FALSE]
  BY DEF vars, queueVars, Key, Request, Operation, HostKinds, Return, Withdrawn, Withdraw, Message,
         ModePump, Focus, Activity, Stale, StaleSession
<1>4. /\ flags'.restore = flags.restore /\ flags'.resync = flags.resync
      /\ flags'.recover = flags.recover
  BY <1>1, <1>3 DEF FlagType
<1>5. UNCHANGED request \/ (~RequestsMode /\ ~RequestsMode')
  <2>1. CASE \E c \in Contexts : Key(c)
    BY <2>1 DEF Key, Request, Operation, Idle, RequestsMode, Serving, Modes, HostKinds
  <2>2. CASE Return
    BY <2>2 DEF Return, NoRequest, RequestsMode, Serving
  <2>3. CASE Withdrawn
    BY <2>3 DEF Withdrawn, Withdraw, NoRequest, RequestsMode, Serving, Modes, HostKinds
  <2> QED  BY <2>1, <2>2, <2>3 DEF vars, queueVars, Message, ModePump, Focus, Activity, Stale, StaleSession
<1>6. RequestsMode' <=> RequestsMode
  BY <1>5 DEF RequestsMode, Serving
<1>7. ModesWaiting' = ModesWaiting
  BY <1>2 DEF ModesWaiting
<1> QED  BY <1>2, <1>4, <1>5, <1>6, <1>7, QuietAgrees

LEMMA PumpedAgrees ==
  ASSUME TInv, AgreeInv, Pumped
  PROVE  AgreeInv'
<1>1. flags \in FlagType /\ queue \in Seq(OperationType)
  BY ValuesTyped
<1>2. UNCHANGED <<request, mode, latest, wanted>>
  BY DEF Pumped, PumpStop, PumpPost, Grant, modeVars
<1>3. flags' = flags \/ flags' = [flags EXCEPT !.posted = TRUE]
  BY DEF Pumped, PumpStop, PumpPost, Grant
<1>4. /\ flags'.restore = flags.restore /\ flags'.resync = flags.resync
      /\ flags'.recover = flags.recover
  BY <1>1, <1>3 DEF FlagType
<1>5. /\ ModesWaiting' = ModesWaiting
      /\ \A i \in ModesWaiting : queue'[i].kind = queue[i].kind /\ queue'[i].value = queue[i].value
  <2>1. CASE queue' = queue
    BY <2>1 DEF ModesWaiting
  <2>2. CASE Grant
    <3>1. queue # <<>> /\ queue' = [queue EXCEPT ![1] = [queue[1] EXCEPT !.accepted = TRUE]]
      BY <2>2, Zenon DEF Grant, Ready
    <3>2. /\ [queue[1] EXCEPT !.accepted = TRUE].kind = queue[1].kind
          /\ [queue[1] EXCEPT !.accepted = TRUE].value = queue[1].value
      BY <1>1, <3>1 DEF OperationType
    <3>3. DOMAIN queue' = DOMAIN queue
      BY <3>1
    <3>4. \A i \in DOMAIN queue : queue'[i].kind = queue[i].kind /\ queue'[i].value = queue[i].value
      BY <3>1, <3>2
    <3> QED  BY <3>3, <3>4 DEF ModesWaiting
  <2> QED  BY <2>1, <2>2 DEF Pumped, PumpStop, PumpPost
<1>6. RequestsMode' <=> RequestsMode
  BY <1>2 DEF RequestsMode, Serving
<1> QED  BY <1>2, <1>4, <1>5, <1>6, QuietAgrees

LEMMA ToggleAgrees ==
  ASSUME TInv, AgreeInv, Toggle
  PROVE  AgreeInv'
<1> PICK c \in InputContexts : Request(Operation("mode", c, ~Projected))
  BY DEF Toggle
<1>1. /\ request'.stage = "push" /\ request'.op.kind = "mode" /\ request'.op.value = ~Projected
      /\ UNCHANGED <<queue, mode, latest, flags>> /\ wanted' = {~Projected} /\ ~RequestsMode
  BY DEF Toggle, Request, Operation, HostKinds, Idle, RequestsMode, Serving
<1>2. RequestsMode' /\ ModesWaiting' = ModesWaiting
  BY <1>1 DEF RequestsMode, Serving, Modes, ModesWaiting
<1>3. HostWaits => HostWaits'
  BY <1>1, <1>2 DEF HostWaits
<1>4. Agreeing(mode, flags)' = Agreeing(mode, flags)
  BY <1>1 DEF Agreeing
<1>5. \A v : Notified(mode, flags, v)' = Notified(mode, flags, v)
  BY <1>1 DEF Notified, Live
<1>6. HostFirst'
  BY <1>1, <1>2, <1>5 DEF AgreeInv, HostFirst, HostKinds
<1>7. LastWanted'
  BY <1>1, <1>2 DEF LastWanted
<1> QED  BY <1>3, <1>4, <1>6, <1>7 DEF AgreeInv

(* With nothing in the way, the mode that the host writes is known or asked *)
(* for.                                                                     *)
LEMMA HostWritesAgrees ==
  ASSUME MaxWaiting <= 1, TInv, AgreeInv, NEW kind \in HostKinds, NEW value \in BOOLEAN,
         HostWrites(kind, value)
  PROVE  AgreeInv'
<1>1. /\ mode \in ModeType /\ flags \in FlagType /\ queue \in Seq(OperationType)
      /\ Idle /\ mode[kind] # value /\ mode' = [mode EXCEPT ![kind] = value]
      /\ latest' = kind /\ wanted' = {value} /\ Observe(kind, value) /\ kind \in Modes
  BY ValuesTyped DEF TInv, ModeTyped, HostWrites, Modes
<1>2. ModesWaiting = {}
  <2>1. IsFiniteSet(DOMAIN queue)
    BY <1>1, FS_Interval
  <2>2. IsFiniteSet(ModesWaiting)
    BY <2>1, FS_Subset DEF ModesWaiting
  <2>3. Cardinality(ModesWaiting) \in Nat /\ Cardinality(ModesWaiting) < MaxWaiting /\ MaxWaiting \in Nat
    BY <2>2, FS_CardinalityType, ModeAssumption DEF HostWrites
  <2>4. Cardinality(ModesWaiting) = 0
    BY <2>3
  <2> QED  BY <2>2, <2>4, FS_EmptySet
<1>3. ~RequestsMode
  BY <1>1 DEF Idle, RequestsMode, Serving
<1>4. ~HostWaits /\ Agreeing(mode, flags) /\ LeadsTo(mode, flags, wanted)
  BY <1>2, <1>3 DEF HostWaits, AgreeInv, LastWanted
<1>5. Live(mode)' = value /\ mode'.chinese = mode.chinese
  BY <1>1 DEF Live, ModeType, HostKinds
<1>6. CASE Known(value)
  <2>1. /\ UNCHANGED <<queue, request, flags>> /\ ~flags.restore /\ ~flags.recover
        /\ mode.chinese = value
    BY <1>1, <1>2, <1>6 DEF Observe, Known, queueVars, Projected
  <2>2. flags.resync
    BY <1>1, <1>4, <2>1 DEF Agreeing, HostKinds
  <2>3. Agreeing(mode, flags)'
    BY <2>1, <2>2 DEF Agreeing
  <2>4. LeadsTo(mode, flags, wanted)'
    BY <1>1, <1>5, <2>1 DEF LeadsTo
  <2>5. ModesWaiting' = {} /\ ~RequestsMode'
    BY <1>2, <1>3, <2>1 DEF ModesWaiting, RequestsMode, Serving
  <2> QED  BY <2>3, <2>4, <2>5 DEF AgreeInv, HostFirst, LastWanted
<1>7. CASE ~Known(value)
  <2> PICK c \in HostContexts : Request(Operation(kind, c, value))
    BY <1>1, <1>7 DEF Observe
  <2>1. /\ request'.stage = "push" /\ request'.op.kind = kind /\ request'.op.value = value
        /\ queue' = queue /\ flags' = [flags EXCEPT !.restore = FALSE, !.recover = FALSE]
    BY DEF Request, Operation
  <2>2. ~flags'.restore /\ ~flags'.recover
    BY <1>1, <2>1 DEF FlagType
  <2>3. ModesWaiting' = {} /\ RequestsMode'
    BY <1>1, <1>2, <2>1 DEF ModesWaiting, RequestsMode, Serving
  <2>4. Notified(mode, flags, value)'
    BY <1>5, <2>2 DEF Notified
  <2>5. HostFirst' /\ HostWaits'
    BY <1>1, <2>1, <2>3, <2>4 DEF HostFirst, HostWaits
  <2>6. LastWanted'
    BY <1>1, <2>1, <2>3 DEF LastWanted
  <2> QED  BY <2>5, <2>6 DEF AgreeInv
<1> QED  BY <1>6, <1>7

LEMMA PushAgrees ==
  ASSUME TInv, AgreeInv, Push, UNCHANGED modeVars
  PROVE  AgreeInv'
<1> DEFINE o == [request.op EXCEPT !.id = made + 1]
           p == [o EXCEPT !.ordered = queue # <<>>]
           n == Len(queue) + 1
<1>1. /\ queue \in Seq(OperationType) /\ request.op \in OperationType
      /\ \A i \in ModesWaiting : i \in Nat
  BY ValuesTyped
<1>2. /\ queue' = Append(queue, p) /\ request'.stage = "return" /\ Serving
      /\ UNCHANGED <<flags, mode, latest, wanted>>
  BY DEF Push, Pushing, Serving, modeVars
<1>3. o.kind = request.op.kind /\ o.value = request.op.value /\ o = [o EXCEPT !.kind = o.kind]
  BY <1>1 DEF OperationType
<1>4. p.kind = request.op.kind /\ p.value = request.op.value
  BY <1>3
<1> HIDE DEF o, p
<1>5. /\ n \in Nat /\ DOMAIN queue' = DOMAIN queue \cup {n} /\ queue'[n] = p
      /\ \A i \in DOMAIN queue : i < n /\ queue'[i] = queue[i]
  BY <1>1, <1>2
<1> HIDE DEF n
<1>6. ~RequestsMode' /\ (RequestsMode <=> request.op.kind \in Modes)
  BY <1>2 DEF RequestsMode, Serving
<1>7. CASE request.op.kind \notin Modes
  <2>1. ModesWaiting' = ModesWaiting
    BY <1>4, <1>5, <1>7 DEF ModesWaiting
  <2>2. \A i \in ModesWaiting : queue'[i] = queue[i]
    BY <1>5 DEF ModesWaiting
  <2> QED  BY <1>2, <1>6, <1>7, <2>1, <2>2, QuietAgrees
<1>8. CASE request.op.kind \in Modes
  <2>1. /\ ModesWaiting' = ModesWaiting \cup {n}
        /\ \A i \in ModesWaiting : i < n /\ queue'[i] = queue[i]
    BY <1>4, <1>5, <1>8 DEF ModesWaiting
  <2>2. /\ Agreeing(mode, flags)' = Agreeing(mode, flags)
        /\ \A v : Notified(mode, flags, v)' = Notified(mode, flags, v)
    BY <1>2 DEF Agreeing, Notified, Live
  <2>3. HostFirst'
    <3>1. ASSUME NEW i \in ModesWaiting', queue'[i].kind \in HostKinds
          PROVE  /\ queue'[i].kind = latest' /\ Notified(mode, flags, queue[i].value)'
                 /\ \A j \in ModesWaiting' : i <= j
      <4>1. CASE i \in ModesWaiting
        <5>1. /\ queue[i].kind = latest /\ Notified(mode, flags, queue[i].value)
              /\ \A j \in ModesWaiting : i <= j
          BY <2>1, <3>1, <4>1 DEF AgreeInv, HostFirst
        <5>2. \A j \in ModesWaiting' : i <= j
          BY <1>1, <1>5, <2>1, <4>1, <5>1
        <5> QED  BY <1>2, <2>1, <2>2, <4>1, <5>1, <5>2
      <4>2. CASE i = n
        <5>1. /\ p.kind = latest /\ Notified(mode, flags, p.value) /\ ModesWaiting = {}
          BY <1>4, <1>5, <1>6, <1>8, <3>1, <4>2 DEF AgreeInv, HostFirst
        <5> QED  BY <1>2, <1>5, <2>1, <2>2, <4>2, <5>1
      <4> QED  BY <2>1, <4>1, <4>2
    <3> QED  BY <1>6, <3>1 DEF HostFirst
  <2>4. HostWaits => HostWaits'
    <3>1. n \in ModesWaiting' /\ queue'[n].kind = request.op.kind
      BY <1>4, <1>5, <2>1
    <3>2. \A i \in ModesWaiting : i \in ModesWaiting' /\ queue'[i].kind = queue[i].kind
      BY <2>1
    <3> QED  BY <3>1, <3>2 DEF HostWaits
  <2>5. LastWanted'
    <3>1. ASSUME NEW i \in ModesWaiting', \A j \in ModesWaiting' : j <= i
          PROVE  queue'[i].value \in wanted'
      <4>1. i = n
        <5>1. n <= i
          BY <2>1, <3>1
        <5> QED  BY <1>1, <1>5, <2>1, <5>1
      <4>2. request.op.value \in wanted
        BY <1>6, <1>8 DEF AgreeInv, LastWanted
      <4> QED  BY <1>2, <1>4, <1>5, <4>1, <4>2
    <3> QED  BY <1>6, <2>1, <3>1 DEF LastWanted
  <2> QED  BY <2>2, <2>3, <2>4, <2>5 DEF AgreeInv
<1> QED  BY <1>7, <1>8

(* Input that is cancelled, as a whole or with the oldest operation. *)
LEMMA CancellationsAgree ==
  ASSUME TInv, AgreeInv, Superseded \/ Interrupted \/ Cancelled
  PROVE  AgreeInv'
<1>1. UNCHANGED <<mode, latest>> /\ wanted' = Forgotten
  BY DEF Superseded, Interrupted, Cancelled, Abandoned
<1>2. CASE Superseded
  <2>1. request.stage = "push" /\ request' = [request EXCEPT !.stage = "append"] /\ CancelInput
    BY <1>2 DEF Superseded, Supersede
  <2>2. request.op.kind = "key"
    BY <1>2, <2>1 DEF TInv, IInv, FieldsFit, Serving, Superseded, ElsewhereQueued
  <2>3. request'.op = request.op
    BY <2>1 DEF TInv, IInv, QInv, QueueTypeOK
  <2>4. ~RequestsMode /\ ~RequestsMode'
    BY <2>2, <2>3 DEF RequestsMode, Modes, HostKinds
  <2> QED  BY <1>1, <2>1, <2>4, CancelAgrees
<1>3. CASE DropSession \/ Cancel
  <2>1. CancelInput /\ ~RequestsMode /\ ~RequestsMode'
    BY <1>3 DEF DropSession, Cancel, Idle, RequestsMode, Serving
  <2> QED  BY <1>1, <2>1, CancelAgrees
<1>4. CASE queue # <<>> /\ Completes("cancelled")
  <2>1. "cancelled" \in Outcomes
    BY DEF Outcomes
  <2>2. ~RequestsMode /\ ~RequestsMode'
    BY <1>4, <2>1, RunsServeNoMode
  <2>3. CancelInput
    <3>1. PICK op : CompleteInput(op, "cancelled")
      BY <1>4, <2>1, RunShape DEF TInv
    <3> QED  BY <3>1 DEF CompleteInput, Blocks
  <2> QED  BY <1>1, <2>2, <2>3, CancelAgrees
<1> QED  BY <1>2, <1>3, <1>4 DEF Interrupted, Cancelled

LEMMA EnteredAgrees ==
  ASSUME TInv, AgreeInv, Entered
  PROVE  AgreeInv'
<1>1. UNCHANGED <<queue, request, latest, wanted>>
  BY DEF Entered, PumpEnter
<1>2. ModesWaiting' = ModesWaiting /\ (RequestsMode' <=> RequestsMode)
  BY <1>1 DEF ModesWaiting, RequestsMode, Serving
<1>3. \E s : Held(s, mode, flags) /\ mode' = s.mode /\ flags' = s.flags
  <2> PICK refusing \in BOOLEAN :
        \E s \in IF Notifying THEN {Step(mode, flags, TRUE)} ELSE Recovered(mode, flags, refusing) :
           mode' = s.mode /\ flags' = s.flags
    BY DEF Entered
  <2> PICK s \in IF Notifying THEN {Step(mode, flags, TRUE)} ELSE Recovered(mode, flags, refusing) :
        mode' = s.mode /\ flags' = s.flags
    OBVIOUS
  <2>1. flags \in FlagType /\ mode \in ModeType
    BY ValuesTyped DEF TInv, ModeTyped
  <2>2. CASE Notifying
    <3>1. s.mode = mode /\ s.flags = flags
      BY <2>2 DEF Step
    <3>2. Held(s, mode, flags)
      BY <2>1, <3>1 DEF Held
    <3> QED  BY <3>2
  <2>3. CASE ~Notifying
    <3>1. s \in Recovered(mode, flags, refusing)
      BY <2>3
    <3>2. Held(s, mode, flags)
      BY <2>1, <3>1, RecoveriesHold DEF TInv
    <3> QED  BY <3>2
  <2> QED  BY <2>2, <2>3
<1> PICK s : Held(s, mode, flags) /\ mode' = s.mode /\ flags' = s.flags
  BY <1>3
<1>4. \A w \in SUBSET BOOLEAN : LeadsTo(mode, flags, w) => LeadsTo(s.mode, s.flags, w)
  BY DEF Held
<1>5. LeadsTo(mode, flags, wanted) => LeadsTo(s.mode, s.flags, wanted)
  BY <1>4 DEF TInv, ModeTyped
<1>6. LeadsTo(s.mode, s.flags, wanted) => LeadsTo(mode, flags, wanted)'
  BY <1>1 DEF LeadsTo, Live
<1>7. \A v \in BOOLEAN : Notified(mode, flags, v) => Notified(mode, flags, v)'
  <2> SUFFICES ASSUME NEW v \in BOOLEAN, Notified(mode, flags, v)
               PROVE  Notified(mode, flags, v)'
    OBVIOUS
  <2>1. Notified(s.mode, s.flags, v)
    BY DEF Held
  <2> QED  BY <1>1, <2>1 DEF Notified, Live
<1>8. Agreeing(mode, flags) => Agreeing(mode, flags)'
  BY DEF Held, Agreeing
<1>9. LikeBefore
  BY <1>1, <1>2, <1>5, <1>6, <1>7, <1>8 DEF LikeBefore
<1>10. Nearer(0)
  BY <1>1, <1>2, SameQueueNear
<1> QED  BY <1>9, <1>10, ModesMove
-----------------------------------------------------------------------------
(* What the mode at the front says of the mode the service has. *)
LEMMA FrontModeTells ==
  ASSUME TInv, AgreeInv, queue # <<>>, Oldest.kind \in Modes, ~RequestsMode
  PROVE  /\ Oldest.kind = "mode" => Agreeing(mode, flags)
         /\ Oldest.kind \in HostKinds =>
              Oldest.kind = latest /\ Notified(mode, flags, Oldest.value)
<1>1. Oldest = queue[1] /\ 1 \in ModesWaiting
  BY LastOfQueue DEF TInv, IInv, ModesWaiting
<1>2. Oldest.kind \in HostKinds => Oldest.kind = latest /\ Notified(mode, flags, Oldest.value)
  BY <1>1 DEF AgreeInv, HostFirst
<1>3. Oldest.kind = "mode" => ~HostWaits
  <2> SUFFICES ASSUME Oldest.kind = "mode", NEW i \in ModesWaiting, queue[i].kind \in HostKinds
               PROVE  FALSE
    BY DEF HostWaits
  <2>1. i <= 1 /\ i \in Nat \ {0}
    BY <1>1, ValuesTyped DEF AgreeInv, HostFirst
  <2>2. i = 1
    BY <2>1
  <2> QED  BY <1>1, <2>2 DEF HostKinds
<1> QED  BY <1>2, <1>3 DEF AgreeInv

(* A mode that failed is any mode, and a notification is made up for.       *)
LEMMA FailedModeAgrees ==
  ASSUME TInv, AgreeInv, queue # <<>>, Oldest.kind \in Modes, queue' = Tail(queue),
         ~RequestsMode, ~RequestsMode', mode' \in ModeType, wanted' = Anything,
         NEW f \in FlagType, flags' = Refused(Oldest, "failed", f),
         Oldest.kind = "mode" => f.recover \/ (f.restore = flags.restore /\ f.resync = flags.resync
           /\ f.recover = flags.recover
           /\ (mode' = mode \/ (mode'.open = mode'.native /\ mode'.native = mode'.chinese)))
  PROVE  AgreeInv'
<1>1. wanted \subseteq wanted'
  BY DEF TInv, ModeTyped, Anything
<1>2. LeadsTo(mode, flags, wanted)'
  BY AnythingIsWanted
<1>3. Agreeing(mode, flags)'
  <2>1. CASE Oldest.kind \in HostKinds
    <3>1. flags'.restore
      BY <2>1, RefusedIs
    <3> QED  BY <3>1 DEF Agreeing
  <2>2. CASE Oldest.kind = "mode"
    <3>1. flags' = f
      BY <2>2, RefusedIs DEF HostKinds
    <3>2. Agreeing(mode, flags)
      BY <2>2, FrontModeTells
    <3> QED  BY <2>2, <3>1, <3>2 DEF Agreeing
  <2> QED  BY <2>1, <2>2 DEF Modes
<1> QED  BY <1>1, <1>2, <1>3, FrontModeGone

LEMMA DeniedAgrees ==
  ASSUME TInv, AgreeInv, Denied
  PROVE  AgreeInv'
<1>1. /\ queue # <<>> /\ pump = "loop" /\ CompleteInput(Oldest, "failed")
      /\ request' = Answer(Oldest, "failed") /\ UNCHANGED <<mode, latest>>
      /\ flags' = Refused(Oldest, "failed", flags)
      /\ wanted' = IF Oldest.kind = "key" THEN wanted ELSE Anything
  BY DEF Denied, Deny, Ready
<1>2. Oldest \in OperationType /\ flags \in FlagType /\ request \in RequestType
  BY <1>1, LastOfQueue, TypedState DEF TInv, IInv
<1>3. ~RequestsMode
  BY <1>1 DEF RequestsMode, TInv, IInv, FieldsFit, Modes, HostKinds
<1>4. Serving' => request' = request /\ Serving
  BY <1>1, <1>2 DEF Answer, Serving, RequestType
<1>5. ~RequestsMode'
  BY <1>3, <1>4 DEF RequestsMode
<1>6. CASE Oldest.kind = "key"
  BY <1>1, <1>2, <1>3, <1>5, <1>6, KeyLeavesModes
<1>7. CASE Oldest.kind # "key"
  <2>1. Oldest.kind \in Modes /\ queue' = Tail(queue)
    BY <1>1, <1>2, <1>7, ModeKinds, ModesTaken
  <2>2. mode' \in ModeType /\ wanted' = Anything
    BY <1>1, <1>7 DEF TInv, ModeTyped
  <2> QED  BY <1>1, <1>2, <1>3, <1>5, <2>1, <2>2, FailedModeAgrees
<1> QED  BY <1>6, <1>7

LEMMA RunKeyAgrees ==
  ASSUME TInv, AgreeInv, RunKey
  PROVE  AgreeInv'
<1> PICK outcome \in {"done", "failed"} : Completes(outcome)
  BY DEF RunKey
<1>1. queue # <<>> /\ Oldest.kind = "key" /\ UNCHANGED <<mode, latest, wanted>> /\ outcome \in Outcomes
  BY DEF RunKey, Active, Outcomes
<1>2. ~RequestsMode /\ ~RequestsMode'
  BY <1>1, RunsServeNoMode
<1>3. PICK op \in OperationType :
        op.kind = Oldest.kind /\ op.context = Oldest.context /\ CompleteInput(op, outcome)
  BY <1>1, RunShape DEF TInv
<1> QED  BY <1>1, <1>2, <1>3, KeyLeavesModes

(* A mode that ran, whatever came of it. *)
LEMMA ModeRuns ==
  ASSUME TInv, queue # <<>>, Oldest.kind # "key", NEW outcome \in {"done", "failed"}, Completes(outcome)
  PROVE  queue' = Tail(queue) /\ ~RequestsMode /\ ~RequestsMode'
<1>1. outcome \in Outcomes
  BY DEF Outcomes
<1>2. PICK op \in OperationType :
        op.kind = Oldest.kind /\ op.context = Oldest.context /\ CompleteInput(op, outcome)
  BY <1>1, RunShape DEF TInv
<1>3. queue' = Tail(queue)
  BY <1>2, ModesTaken
<1> QED  BY <1>1, <1>3, RunsServeNoMode

LEMMA CommitRefusedAgrees ==
  ASSUME TInv, AgreeInv, CommitRefused
  PROVE  AgreeInv'
<1>1. /\ queue # <<>> /\ Oldest.kind # "key" /\ Completes("failed") /\ wanted' = Anything
  BY DEF CommitRefused, Active
<1>2. Oldest.kind \in Modes /\ queue' = Tail(queue) /\ ~RequestsMode /\ ~RequestsMode'
  BY <1>1, ModeKinds, ModeRuns
<1>3. PICK m \in ModeType, f \in FlagType :
           /\ mode' = m /\ flags' = Refused(Oldest, "failed", f)
           /\ f.restore = flags.restore /\ f.resync = flags.resync
           /\ \/ m = mode /\ f = flags
              \/ f.recover
              \/ f = flags /\ m.open = m.native /\ m.native = m.chinese
  BY CommitRefusedIs, ValuesTyped DEF TInv
<1> QED  BY <1>1, <1>2, <1>3, FailedModeAgrees

LEMMA RunModeAgrees ==
  ASSUME TInv, AgreeInv, RunMode
  PROVE  AgreeInv'
<1> PICK refusing \in BOOLEAN :
      \E s \in Changed(Oldest, refusing) :
        /\ Completes(Outcome(s))
        /\ mode' = s.mode /\ flags' = Refused(Oldest, Outcome(s), s.flags)
        /\ wanted' = IF s.ok THEN wanted ELSE Anything
  BY DEF RunMode
<1> PICK s \in Changed(Oldest, refusing) :
      /\ Completes(Outcome(s))
      /\ mode' = s.mode /\ flags' = Refused(Oldest, Outcome(s), s.flags)
      /\ wanted' = IF s.ok THEN wanted ELSE Anything
  OBVIOUS
<1>1. queue # <<>> /\ Oldest.kind # "key" /\ latest' = latest /\ Outcome(s) \in {"done", "failed"}
  BY DEF RunMode, Active, Outcome
<1>2. Oldest \in OperationType /\ Oldest.kind \in Modes
  BY <1>1, ModeKinds
<1>3. queue' = Tail(queue) /\ ~RequestsMode /\ ~RequestsMode'
  BY <1>1, ModeRuns
<1> DEFINE v == Oldest.value
<1>4. /\ s.mode \in ModeType /\ s.flags \in FlagType
      /\ s.flags.restore = flags.restore /\ s.flags.resync = flags.resync
      /\ \/ /\ s.ok /\ s.flags = flags /\ s.mode.chinese = Oldest.value
            /\ \/ s.mode.open = Oldest.value /\ s.mode.native = Oldest.value
               \/ Oldest.kind \in HostKinds /\ s.mode.open = Oldest.value
                    /\ s.mode.native = mode.native /\ Oldest.kind = "native"
               \/ Oldest.kind \in HostKinds /\ s.mode.native = Oldest.value
                    /\ s.mode.open = mode.open /\ Oldest.kind = "open"
            /\ s.mode.target = mode.target \/ (flags.recover /\ s.mode.target = Oldest.value)
            /\ flags.recover /\ Oldest.kind = "mode" => s.mode.target = Oldest.value
         \/ ~s.ok /\ s.flags.recover
  BY <1>2, RunModeIs, ValuesTyped DEF TInv
<1>5. CASE s.ok
  <2>1. Outcome(s) = "done" /\ wanted' = wanted
    BY <1>5 DEF Outcome
  <2>2. flags' = flags /\ mode' = s.mode
    BY <1>4, <1>5, <2>1, RefusedIs
  <2>3. Oldest.kind \in HostKinds => Oldest.kind = latest /\ Notified(mode, flags, v)
    BY <1>1, <1>2, <1>3, FrontModeTells
  <2>4. mode'.open = v /\ mode'.native = v /\ mode'.chinese = v
    BY <1>4, <1>5, <2>2, <2>3 DEF Notified, Live
  <2>5. flags.recover => mode'.target = v
    BY <1>2, <1>4, <1>5, <2>2, <2>3 DEF Notified, Modes
  <2>6. Agreeing(mode, flags)'
    BY <2>4 DEF Agreeing
  <2>7. v \in wanted' => LeadsTo(mode, flags, wanted)'
    BY <2>2, <2>4, <2>5 DEF LeadsTo, Live
  <2> QED  BY <1>1, <1>2, <1>3, <2>1, <2>6, <2>7, FrontModeGone
<1>6. CASE ~s.ok
  <2>1. Outcome(s) = "failed" /\ wanted' = Anything /\ s.flags.recover
    BY <1>4, <1>6 DEF Outcome
  <2> QED  BY <1>1, <1>2, <1>3, <1>4, <2>1, FailedModeAgrees
<1> QED  BY <1>5, <1>6
-----------------------------------------------------------------------------
LEMMA ModeInitEstablishes == Init => TInv /\ AgreeInv
<1> SUFFICES ASSUME Init PROVE TInv /\ AgreeInv
  OBVIOUS
<1>1. IInv /\ ModeInit /\ queue = <<>> /\ request = NoRequest /\ flags = Quiet
  BY InitEstablishes DEF Init, QueueInit
<1>2. ModeTyped /\ NoSymbols
  BY <1>1 DEF ModeInit, ModeTyped, ModeType, HostKinds, NoSymbols, NoRequest, Operation
<1>3. ModesWaiting = {} /\ ~RequestsMode
  BY <1>1 DEF ModesWaiting, RequestsMode, Serving, NoRequest
<1>4. Agreeing(mode, flags) /\ LeadsTo(mode, flags, wanted)
  BY <1>1 DEF ModeInit, Agreeing, LeadsTo, Live, Quiet
<1> QED  BY <1>1, <1>2, <1>3, <1>4 DEF TInv, AgreeInv, HostFirst, LastWanted

LEMMA AgreementStays ==
  ASSUME MaxWaiting <= 1
  PROVE  TInv /\ AgreeInv /\ [Next]_vars => AgreeInv'
<1> SUFFICES ASSUME TInv, AgreeInv, [Next]_vars PROVE AgreeInv'
  OBVIOUS
<1>1. CASE UNCHANGED vars \/ (\E c \in Contexts : Key(c)) \/ Withdrawn \/ Message \/ Focus \/ Stale
  BY <1>1, IdleStepsAgree
<1>2. CASE Served
  BY <1>2, IdleStepsAgree, PushAgrees DEF Served
<1>3. CASE Toggle
  BY <1>3, ToggleAgrees
<1>4. CASE \E kind \in HostKinds, value \in BOOLEAN : HostWrites(kind, value)
  BY <1>4, HostWritesAgrees
<1>5. CASE Superseded \/ Interrupted \/ Cancelled
  BY <1>5, CancellationsAgree
<1>6. CASE Entered \/ Pumped \/ Denied
  BY <1>6, EnteredAgrees, PumpedAgrees, DeniedAgrees
<1>7. CASE RunKey \/ CommitRefused \/ RunMode
  BY <1>7, RunKeyAgrees, CommitRefusedAgrees, RunModeAgrees
<1> QED  BY <1>1, <1>2, <1>3, <1>4, <1>5, <1>6, <1>7 DEF Next

(* The queue, the mode, the compartments and the fields have their types,   *)
(* whatever the host refuses.                                               *)
THEOREM TypeCorrect == Spec => []TypeOK
<1>1. TInv => TypeOK
  BY DEF TInv, ModeTyped, ModeType, IInv, QInv, FieldsFit, TypeOK
<1> QED
  BY <1>1, ModeInitEstablishes, TypeStays, PTL DEF Spec

(* Whenever nothing is pending, chineseMode_ and both compartments are one  *)
(* mode, the one asked for last, however writes were refused and input was  *)
(* cancelled; as long as the host writes only when no other mode waits.     *)
THEOREM ModesComeTogether == MaxWaiting <= 1 => (Spec => []ModesAgree)
<1> SUFFICES ASSUME MaxWaiting <= 1 PROVE Spec => []ModesAgree
  OBVIOUS
<1>1. TInv /\ AgreeInv => ModesAgree
  <2> SUFFICES ASSUME TInv, AgreeInv, Settled PROVE Agreed /\ mode.chinese \in wanted
    BY DEF ModesAgree
  <2>1. /\ queue = <<>> /\ ~flags.restore /\ ~flags.resync /\ ~flags.recover /\ ~Serving
    BY DEF Settled, Idle, Quiet, Serving
  <2>2. ModesWaiting = {} /\ ~RequestsMode
    BY <2>1 DEF ModesWaiting, RequestsMode
  <2> QED  BY <2>1, <2>2 DEF AgreeInv, HostWaits, LastWanted, Agreeing, LeadsTo, Agreed
<1> QED
  BY <1>1, ModeInitEstablishes, TypeStays, AgreementStays, PTL DEF Spec
=============================================================================
