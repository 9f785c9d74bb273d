----------------------------- MODULE InputQueue -----------------------------
(***************************************************************************)
(* The ordered input queue of the Windows text service: how keys, symbols, *)
(* mode switches and the host's mode notifications wait for one another,   *)
(* for the edit sessions the host grants, and for the message the service  *)
(* posts to itself.  What an operation does to the text (TextService) or   *)
(* to the mode (HostMode) is left to the modules that extend this one:     *)
(* here a run of an operation is done, failed, or finds its context        *)
(* disabled and is cancelled.                                              *)
(*                                                                         *)
(* Everything runs on one UI thread, but every call of the host            *)
(* (RequestEditSession) comes back to the service in one of several ways,  *)
(* at once or later, so a request is a sequence of small steps.            *)
(***************************************************************************)
EXTENDS Integers, Sequences, SequencesExt

CONSTANTS Contexts,   \* the input fields (ITfContext) of this thread
          NoContext,  \* an operation without a field
          Requests,   \* the kinds of operation this instance asks for
          MaxOps      \* bound on the operations ever queued

ASSUME NoContextAssumption == NoContext \notin Contexts
ASSUME MaxOpsAssumption == MaxOps \in Nat

(* A notification of the host is named after its compartment. *)
HostKinds == {"open", "native"}
Kinds == {"key", "symbol", "mode"} \cup HostKinds

ASSUME RequestsAssumption == Requests \subseteq Kinds

VARIABLES
  queue,    \* inputQueue_
  active,   \* token of activeInput_, or None
  blocked,  \* blockedInput_: the front key failed and waits for another input
  lease,    \* inputLease_: the engine is told that ordered input is pending
  pump,     \* where pumpInput is: "off", "enter" (recoveries), "loop"
  request,  \* the call being served: stage "none", "push", "append", "return"
  held,     \* tokens of the edit sessions the host holds and has not run
  flags,    \* restoreHostMode_, resyncHostMode_, modeRecoveryPending_, modePumpPosted_
  made      \* nextInputToken_

queueVars == <<queue, active, blocked, lease, pump, request, held, flags, made>>

None == 0
Operation(kind, context, value) ==
  [id |-> None, kind |-> kind, context |-> context, value |-> value,
   ordered |-> FALSE, accepted |-> FALSE, processed |-> FALSE, handled |-> FALSE]
NoRequest == [stage |-> "none", op |-> Operation("key", NoContext, FALSE)]
Quiet == [restore |-> FALSE, resync |-> FALSE, recover |-> FALSE, posted |-> FALSE]

Idle == pump = "off" /\ request.stage = "none"
Oldest == Head(queue)

(* Mutant of Unsettled: a cancelled notification is not thought of.         *)
UnsettledWrites == flags.restore \/ flags.recover

Unsettled == flags.restore \/ flags.resync \/ flags.recover
Notifying == request.stage # "none" /\ request.op.kind \in HostKinds
HostPending == \E i \in DOMAIN queue : queue[i].kind \in HostKinds
Deferred(op) == op.kind \in {"symbol"} \cup HostKinds \/ Notifying
PumpCall == IF active = None /\ ~blocked THEN "enter" ELSE "off"

QueueInit ==
  /\ queue = <<>> /\ active = None /\ blocked = FALSE /\ lease = FALSE
  /\ pump = "off" /\ request = NoRequest /\ held = {}
  /\ flags = Quiet /\ made = 0
-----------------------------------------------------------------------------
(* Mutant of CancelInput: the lease is left behind.                         *)
CancelKeepingLease ==
  /\ queue' = <<>> /\ active' = None /\ blocked' = FALSE /\ UNCHANGED lease
  /\ LET lost == flags.resync \/ flags.restore \/ HostPending
     IN flags' = [restore |-> FALSE, resync |-> lost, recover |-> flags.recover /\ ~lost,
                  posted |-> flags.posted \/ lost]

(* cancelInput: everything queued is dropped; a host mode among it is not   *)
(* trusted any more and the live mode is read again once the message comes. *)
CancelInput ==
  /\ queue' = <<>> /\ active' = None /\ blocked' = FALSE /\ lease' = FALSE
  /\ LET lost == flags.resync \/ flags.restore \/ HostPending
     IN flags' = [restore |-> FALSE, resync |-> lost, recover |-> flags.recover /\ ~lost,
                  posted |-> flags.posted \/ lost]

Blocks(op, outcome) ==
  outcome = "failed" /\ op.kind = "key" /\ (op.accepted \/ op.ordered)

(* scheduleModeRecovery: the first failed write of a mode posts the message. *)
Scheduled(f) == [f EXCEPT !.recover = TRUE, !.posted = @ \/ ~f.recover]

(* A mode that ran may not have reached the host. *)
Attempted(op) ==
  IF op.kind \in {"mode"} \cup HostKinds THEN {flags, Scheduled(flags)} ELSE {flags}
Refused(op, outcome, f) ==
  IF outcome = "failed" /\ op.kind \in HostKinds
  THEN [f EXCEPT !.restore = TRUE, !.posted = TRUE] ELSE f

(* Mutant of CompleteInput: a refused key is tried again at once.           *)
CompleteRetrying(op, outcome) ==
  \/ /\ outcome = "failed" /\ op.kind = "key"
     /\ queue' = <<op>> \o Tail(queue)
     /\ active' = None
     /\ UNCHANGED <<blocked, lease, flags>>
  \/ /\ outcome = "cancelled"
     /\ CancelInput
  \/ /\ outcome = "done" \/ (outcome = "failed" /\ op.kind # "key")
     /\ queue' = Tail(queue)
     /\ active' = None
     /\ lease' = (lease /\ Tail(queue) # <<>>)
     /\ UNCHANGED <<blocked, flags>>

(* completeInput, for the front operation as its run left it. *)
CompleteInput(op, outcome) ==
  \/ /\ Blocks(op, outcome)
     /\ queue' = <<op>> \o Tail(queue)
     /\ active' = None /\ blocked' = TRUE
     /\ UNCHANGED <<lease, flags>>
  \/ /\ outcome = "cancelled"
     /\ CancelInput
  \/ /\ outcome \in {"done", "failed"} /\ ~Blocks(op, outcome)
     /\ queue' = Tail(queue)
     /\ active' = None
     /\ lease' = (lease /\ Tail(queue) # <<>>)
     /\ flags' \in {Refused(op, outcome, f) : f \in Attempted(op)}
     /\ UNCHANGED blocked

(* What the caller of enqueueInput is told, once its operation completed. *)
Answer(op, outcome) ==
  IF request.stage = "return" /\ request.op.id = op.id
  THEN [request EXCEPT !.op.handled =
          IF op.kind = "key" THEN op.handled ELSE outcome = "done"]
  ELSE request
-----------------------------------------------------------------------------
(* requestKey, requestSymbol, requestModeChange, observeInputMode up to     *)
(* enqueueInput's first pump: pending recoveries and a mode without a field *)
(* come before a key.                                                       *)
Request(op) ==
  /\ Idle /\ made < MaxOps
  /\ request' = [stage |-> "push", op |-> op]
  /\ LET recovers == op.kind = "key" /\ Unsettled
         adopts == /\ op.context # NoContext /\ op.kind \notin HostKinds
                   /\ queue # <<>> /\ Oldest.context = NoContext
     IN pump' = IF recovers \/ adopts THEN PumpCall ELSE "off"
  /\ flags' = IF op.kind \in HostKinds
              THEN [flags EXCEPT !.restore = FALSE, !.recover = FALSE] ELSE flags
  /\ UNCHANGED <<queue, active, blocked, lease, held, made>>

Pushing == request.stage \in {"push", "append"} /\ pump = "off"

(* isPotentialKey says no, or the host's mode is the projected one already. *)
Withdraw ==
  /\ Pushing /\ request.stage = "push"
  /\ request.op.kind \in {"key"} \cup HostKinds
  /\ request' = NoRequest
  /\ UNCHANGED <<queue, active, blocked, lease, pump, held, flags, made>>

ElsewhereQueued ==
  /\ request.op.context # NoContext
  /\ queue # <<>> /\ Oldest.context # request.op.context

(* enqueueInput: input pending for another field is cancelled first. *)
Supersede ==
  /\ Pushing /\ request.stage = "push"
  /\ CancelInput
  /\ request' = [request EXCEPT !.stage = "append"]
  /\ pump' = IF flags'.resync /\ ~Notifying THEN "enter" ELSE "off"
  /\ UNCHANGED <<held, made>>

(* Mutant of Push: the token is not counted.                                *)
PushUncounted ==
  /\ Pushing
  /\ ~ElsewhereQueued
  /\ LET op == [request.op EXCEPT !.id = made + 1, !.ordered = queue # <<>>]
     IN /\ queue' = Append(queue, op)
        /\ request' = [stage |-> "return", op |-> op]
  /\ lease' = TRUE /\ blocked' = FALSE
  /\ pump' = IF active = None THEN "enter" ELSE "off"
  /\ UNCHANGED <<active, held, flags, made>>

(* Mutant of Push: the newest operation goes ahead of those that wait.      *)
PushAhead ==
  /\ Pushing
  /\ ~ElsewhereQueued
  /\ made' = made + 1
  /\ LET op == [request.op EXCEPT !.id = made + 1, !.ordered = queue # <<>>]
     IN /\ queue' = IF active = None THEN <<op>> \o queue ELSE Append(queue, op)
        /\ request' = [stage |-> "return", op |-> op]
  /\ lease' = TRUE /\ blocked' = FALSE
  /\ pump' = IF active = None THEN "enter" ELSE "off"
  /\ UNCHANGED <<active, held, flags>>

Push ==
  /\ Pushing
  /\ ~ElsewhereQueued
  /\ made' = made + 1
  /\ LET op == [request.op EXCEPT !.id = made + 1, !.ordered = queue # <<>>]
     IN /\ queue' = Append(queue, op)
        /\ request' = [stage |-> "return", op |-> op]
  /\ lease' = TRUE /\ blocked' = FALSE
  /\ pump' = IF active = None THEN "enter" ELSE "off"
  /\ UNCHANGED <<active, held, flags>>

Pending(id) == \E i \in DOMAIN queue : queue[i].id = id
AcceptedIn(id) == \E i \in DOMAIN queue : queue[i].id = id /\ queue[i].accepted
Eaten == IF Pending(request.op.id) THEN AcceptedIn(request.op.id) \/ request.op.ordered
         ELSE request.op.handled

Return ==
  /\ request.stage = "return" /\ pump = "off"
  /\ request' = NoRequest
  /\ UNCHANGED <<queue, active, blocked, lease, pump, held, flags, made>>
-----------------------------------------------------------------------------
(* pumpInput: the recoveries that do not run inside a notification.  A mode *)
(* that was not scheduled for recovery posts the message when it fails.     *)
Recoveries ==
  {f \in [restore : {FALSE}, resync : BOOLEAN, recover : BOOLEAN, posted : BOOLEAN] :
     /\ f.resync => flags.resync
     /\ flags.posted => f.posted
     /\ f.posted => flags.posted \/ Unsettled
     /\ f.recover => flags.recover \/ f.posted}

PumpEnter ==
  /\ pump = "enter" /\ pump' = "loop"
  /\ flags' \in IF Notifying THEN {flags} ELSE Recoveries
  /\ UNCHANGED <<queue, active, blocked, lease, request, held, made>>

Ready == pump = "loop" /\ active = None /\ ~blocked /\ queue # <<>>

PumpStop ==
  /\ pump = "loop"
  /\ active # None \/ blocked \/ queue = <<>>
  /\ pump' = "off"
  /\ UNCHANGED <<queue, active, blocked, lease, request, held, flags, made>>

(* A mode without a field inside its own notification: post and wait. *)
PumpPost ==
  /\ Ready /\ Oldest.context = NoContext /\ Notifying
  /\ flags' = [flags EXCEPT !.posted = TRUE]
  /\ pump' = "off"
  /\ UNCHANGED <<queue, active, blocked, lease, request, held, made>>

(* Without a field the operation runs at once. *)
RunDirect(op, outcome) ==
  /\ Ready /\ Oldest.context = NoContext /\ ~Notifying
  /\ outcome # "cancelled"
  /\ CompleteInput(op, outcome)
  /\ request' = Answer(op, outcome)
  /\ UNCHANGED <<pump, held, made>>

(* The host runs the session inside RequestEditSession. *)
RunNow(op, outcome) ==
  /\ Ready /\ Oldest.context # NoContext /\ ~Deferred(Oldest)
  /\ CompleteInput(op, outcome)
  /\ request' = Answer(op, outcome)
  /\ UNCHANGED <<pump, held, made>>

(* The host keeps the session for later. *)
Grant ==
  /\ Ready /\ Oldest.context # NoContext
  /\ active' = Oldest.id
  /\ held' = held \cup {Oldest.id}
  /\ queue' = [queue EXCEPT ![1].accepted = TRUE]
  /\ UNCHANGED <<blocked, lease, pump, request, flags, made>>

(* The host refuses the session, or there is no memory for it. *)
Deny ==
  /\ Ready /\ Oldest.context # NoContext
  /\ CompleteInput(Oldest, "failed")
  /\ request' = Answer(Oldest, "failed")
  /\ UNCHANGED <<pump, held, made>>
-----------------------------------------------------------------------------
(* Mutant of RunSession: a completed session does not go on with the queue. *)
RunSessionOnly(op, outcome) ==
  /\ Idle /\ active # None /\ active \in held
  /\ held' = held \ {active}
  /\ CompleteInput(op, outcome)
  /\ UNCHANGED <<pump, request, made>>

(* InputEditSession::DoEditSession, later. *)
RunSession(op, outcome) ==
  /\ Idle /\ active # None /\ active \in held
  /\ held' = held \ {active}
  /\ CompleteInput(op, outcome)
  /\ pump' = IF blocked' \/ outcome = "cancelled" THEN "off" ELSE "enter"
  /\ UNCHANGED <<request, made>>

(* ~InputEditSession: the host gave up the session without running it. *)
DropSession ==
  /\ Idle /\ active # None /\ active \in held
  /\ held' = held \ {active}
  /\ CancelInput
  /\ UNCHANGED <<pump, request, made>>

(* A session whose operation is no longer the active one, run or dropped. *)
StaleSession(id) ==
  /\ Idle /\ id \in held /\ id # active
  /\ held' = held \ {id}
  /\ UNCHANGED <<queue, active, blocked, lease, pump, request, flags, made>>

(* Focus loss, another document, a moved caret, a terminated composition. *)
Cancel ==
  /\ Idle /\ CancelInput
  /\ UNCHANGED <<pump, request, held, made>>

(* The posted message. *)
ModePump ==
  /\ Idle /\ flags.posted
  /\ flags' = [flags EXCEPT !.posted = FALSE]
  /\ pump' = PumpCall
  /\ UNCHANGED <<queue, active, blocked, lease, request, held, made>>

(* OnSetThreadFocus, OnTestKeyDown and the other callers of syncInputMethod. *)
Activity ==
  /\ Idle
  /\ Unsettled
  /\ pump' = PumpCall
  /\ UNCHANGED <<queue, active, blocked, lease, request, held, flags, made>>
-----------------------------------------------------------------------------
(* The operations the program asks for: a mode follows inputContext, which  *)
(* is the field of the last operation queued, if there is one.              *)
Asked(op) ==
  /\ op.kind \in {"key", "symbol"} => op.context \in Contexts
  /\ op.kind \in {"mode"} \cup HostKinds /\ queue # <<>>
       => op.context = Last(queue).context

Ask ==
  \E kind \in Requests, context \in Contexts \cup {NoContext}, value \in BOOLEAN :
    Asked(Operation(kind, context, value)) /\ Request(Operation(kind, context, value))

(* What a run may leave in its operation. *)
AfterRun(op, processed, handled) == [op EXCEPT !.processed = processed, !.handled = handled]

Outcomes == {"done", "failed", "cancelled"}

Run ==
  /\ queue # <<>>
  /\ \E outcome \in Outcomes, processed \in BOOLEAN, handled \in BOOLEAN :
       LET op == AfterRun(Oldest, processed, handled)
       IN RunDirect(op, outcome) \/ RunNow(op, outcome) \/ RunSession(op, outcome)

Pump ==
  \/ PumpEnter
  \/ PumpStop
  \/ PumpPost
  \/ Grant
  \/ Deny

Serve == Withdraw \/ Supersede \/ Push \/ Return

Host ==
  \/ DropSession
  \/ Cancel
  \/ Activity
  \/ \E id \in held : StaleSession(id)

QueueNext ==
  \/ Ask
  \/ Serve
  \/ Pump
  \/ Run
  \/ Host
  \/ ModePump

QueueSpec == QueueInit /\ [][QueueNext]_queueVars

-----------------------------------------------------------------------------
OperationType ==
  [id : Nat, kind : Kinds, context : Contexts \cup {NoContext}, value : BOOLEAN,
   ordered : BOOLEAN, accepted : BOOLEAN, processed : BOOLEAN, handled : BOOLEAN]

QueueTypeOK ==
  /\ queue \in Seq(OperationType)
  /\ \A i \in DOMAIN queue : queue[i].id \in 1 .. made
  /\ made \in Nat /\ active \in 0 .. made /\ held \subseteq 1 .. made
  /\ blocked \in BOOLEAN /\ lease \in BOOLEAN
  /\ pump \in {"off", "enter", "loop"}
  /\ request \in [stage : {"none", "push", "append", "return"}, op : OperationType]
  /\ flags \in [restore : BOOLEAN, resync : BOOLEAN, recover : BOOLEAN, posted : BOOLEAN]

(* The engine's lease on ordered input is held exactly while something is   *)
(* queued: a lease left behind keeps every session from reloading settings. *)
LeaseWhilePending == lease <=> queue # <<>>

(* The active operation is the oldest one and its session is still with     *)
(* the host: otherwise nothing would ever complete it and input would stop. *)
ActiveIsHeld ==
  active # None => /\ queue # <<>> /\ active = Oldest.id
                   /\ Oldest.accepted /\ active \in held

(* Only a key that was already taken from the host blocks the queue, and    *)
(* then no operation is active.                                             *)
BlockedByTakenKey ==
  blocked => /\ active = None /\ queue # <<>>
             /\ Oldest.kind = "key" /\ (Oldest.accepted \/ Oldest.ordered)

(* Tokens grow along the queue, so input runs in the order it arrived and   *)
(* no session of an earlier operation passes for a later one; and input for *)
(* two fields never waits together: what is pending belongs to the field of *)
(* the newest operation.                                                    *)
InArrivalOrder ==
  \A i, j \in DOMAIN queue : i < j => queue[i].id < queue[j].id
OneContext == \A i, j \in DOMAIN queue : queue[i].context = queue[j].context
InOrder == InArrivalOrder /\ OneContext

(* Whenever the thread has returned to the host with input pending, a       *)
(* session of the host, a posted message or the next input takes it up.     *)
NeverForgotten ==
  Idle /\ queue # <<>> => active # None \/ blocked \/ flags.posted

(* An operation leaves the queue from its front, or with all the others.    *)
LeavesFromTheFront ==
  [][queue # <<>> /\ queue' # <<>> =>
       queue' = Tail(queue) \/ (queue'[1].id = Oldest.id /\ Len(queue') >= Len(queue))]_queueVars

(* Pending input is served in the end, unless a taken key waits for the     *)
(* next input (by design: the host refused its text).                       *)
InputDrains == []<>(queue = <<>> \/ blocked)
=============================================================================
