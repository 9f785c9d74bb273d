------------------------------ MODULE HostMode ------------------------------
(***************************************************************************)
(* The mode of the Windows text service: Chinese or English.  The service  *)
(* keeps it (chineseMode_) and publishes it in two compartments, OPENCLOSE *)
(* and the NATIVE bit of CONVERSION, which the host may write as well, one *)
(* at a time.  The user's switches and the host's notifications wait in    *)
(* the ordered queue behind the keys before them; a write the host refuses *)
(* is recovered later.                                                     *)
(*                                                                         *)
(* The width and the input method travel with the mode in the code and are *)
(* left out; so is the text, of which only a composition counts here.      *)
(***************************************************************************)
EXTENDS InputQueue

CONSTANTS Refusals,      \* whether the host refuses things in this instance
          Cancellations, \* whether input is cancelled in it
          MaxWaiting     \* the host writes while fewer modes than this wait in the queue

ASSUME ModeAssumption ==
  Refusals \in BOOLEAN /\ Cancellations \in BOOLEAN /\ MaxWaiting \in Nat

VARIABLES
  mode,       \* chinese, the compartments open and native, and recoveryChinese_
  latest,     \* lastHostModeFromConversion_
  composing,  \* the field of the composition or the retained result
  refusals,   \* history: 0 before the host refuses anything, then 1 and 2 by turns
  wanted      \* history: the mode asked for last, unless that was refused or cancelled

modeVars == <<mode, latest, composing, refusals, wanted>>
vars == <<queueVars, modeVars>>

Anything == {TRUE, FALSE}

(* A step of the mode that may fail: the flags it leaves, and its success.  *)
Step(m, f, ok) == [mode |-> m, flags |-> f, ok |-> ok]
When(refusing, steps) == IF refusing THEN steps ELSE {}

(* scheduleModeRecovery; while a recovery runs its target stays. *)
Schedule(m, f, target) == Step([m EXCEPT !.target = target], Scheduled(f), FALSE)
-----------------------------------------------------------------------------
(* WriteChineseMode: what the compartments may be after a failure.  The     *)
(* first write stays when the second and its rollback are both refused.     *)
AfterFailure(m, value) ==
  {m} \cup IF m.open # value /\ m.native # value THEN {[m EXCEPT !.open = value]} ELSE {}

(* Mutant of Republished: a pending recovery does not learn of the mode.    *)
RepublishedUnrecovered(m, f, value) ==
  [m EXCEPT !.open = value, !.native = value, !.chinese = value]

Republished(m, f, value) ==
  [m EXCEPT !.open = value, !.native = value, !.chinese = value,
            !.target = IF f.recover THEN value ELSE @]

(* publishChineseMode *)
Publish(m, f, value, refusing) ==
  {Step(Republished(m, f, value), f, TRUE)}
  \cup When(refusing, {Schedule(n, f, m.chinese) : n \in AfterFailure(m, value)})

(* reconcileHostMode: the compartment the host did not write. *)
Other(m, kind, value) ==
  IF kind = "native" THEN [m EXCEPT !.open = value] ELSE [m EXCEPT !.native = value]

Reconcile(m, f, kind, value, refusing) ==
  {Step(Other(m, kind, value), f, TRUE)} \cup When(refusing, {Schedule(m, f, value)})

(* resyncCancelledHostMode; a failed read leaves everything as it is. *)
Live(m) == IF latest = "native" THEN m.native ELSE m.open
Resync(m, f, refusing) ==
  IF ~f.resync \/ composing # NoContext THEN {Step(m, f, TRUE)}
  ELSE Reconcile([m EXCEPT !.chinese = Live(m)], [f EXCEPT !.resync = FALSE],
                 latest, Live(m), refusing)
       \cup When(refusing, {Step(m, f, FALSE)})

(* Mutants of Recover: one attempt and no more; and a message for the next. *)
RecoverOnce(m, f, refusing) ==
  IF ~f.recover THEN {Step(m, f, TRUE)}
  ELSE {Step([Republished(m, f, m.target) EXCEPT !.target = m.target],
             [f EXCEPT !.recover = FALSE], TRUE)}
       \cup When(refusing, {Step(n, [f EXCEPT !.recover = FALSE], FALSE) :
                              n \in AfterFailure(m, m.target)})
RecoverPosting(m, f, refusing) ==
  IF ~f.recover THEN {Step(m, f, TRUE)}
  ELSE {Step([Republished(m, f, m.target) EXCEPT !.target = m.target],
             [f EXCEPT !.recover = FALSE], TRUE)}
       \cup When(refusing, {Step(n, [f EXCEPT !.posted = TRUE], FALSE) :
                              n \in AfterFailure(m, m.target)})

(* retryModeRecovery: it neither changes its target nor posts the message.  *)
Recover(m, f, refusing) ==
  IF ~f.recover THEN {Step(m, f, TRUE)}
  ELSE {Step([Republished(m, f, m.target) EXCEPT !.target = m.target],
             [f EXCEPT !.recover = FALSE], TRUE)}
       \cup When(refusing, {Step(n, f, FALSE) : n \in AfterFailure(m, m.target)})

(* The host's mode could not be taken over: ours is published again. *)
Restore(m, f, refusing) ==
  IF ~f.restore THEN {Step(m, f, TRUE)}
  ELSE Publish(m, [f EXCEPT !.restore = FALSE], m.chinese, refusing)

Recovered(m, f, refusing) ==
  UNION {UNION {Restore(t.mode, t.flags, refusing) : t \in Recover(s.mode, s.flags, refusing)} :
         s \in Resync(m, f, refusing)}

(* The host refuses something in this step, or nothing. *)
MayRefuse(refusing) ==
  /\ refusing => Refusals
  /\ refusals' = IF ~refusing THEN refusals ELSE IF refusals = 1 THEN 2 ELSE 1
-----------------------------------------------------------------------------
ModeInit ==
  \E chinese \in BOOLEAN :
    /\ mode = [chinese |-> chinese, open |-> chinese, native |-> chinese, target |-> chinese]
    /\ latest = "open" /\ composing = NoContext /\ refusals = 0 /\ wanted = {chinese}

Init == QueueInit /\ ModeInit

(* inputContext: any field may have the focus. *)
InputContexts ==
  IF queue # <<>> THEN {Last(queue).context}
  ELSE IF composing # NoContext THEN {composing} ELSE Contexts

Modes == {"mode"} \cup HostKinds
ModesWaiting == {i \in DOMAIN queue : queue[i].kind \in Modes}

(* projectedChineseMode *)
Projected == IF ModesWaiting = {} THEN mode.chinese ELSE queue[Max(ModesWaiting)].value

Key(c) ==
  /\ "key" \in Requests
  /\ Request(Operation("key", c, FALSE))
  /\ UNCHANGED modeVars

Toggle ==
  /\ "mode" \in Requests
  /\ \E c \in InputContexts : Request(Operation("mode", c, ~Projected))
  /\ wanted' = {~Projected}
  /\ UNCHANGED <<mode, latest, composing, refusals>>

(* The host writes a compartment: OnChange, observeInputMode.  A pending    *)
(* recovery gives way to it; the mode we have already needs no operation.   *)
HostContexts == IF composing = NoContext /\ queue = <<>> THEN {NoContext} ELSE InputContexts
Known(value) == ~flags.restore /\ ~flags.recover /\ Projected = value
Observe(kind, value) ==
  IF Known(value) THEN UNCHANGED queueVars
  ELSE \E c \in HostContexts : Request(Operation(kind, c, value))
HostWrites(kind, value) ==
  /\ Idle /\ kind \in Requests /\ Cardinality(ModesWaiting) < MaxWaiting
  /\ mode[kind] # value
  /\ mode' = [mode EXCEPT ![kind] = value]
  /\ latest' = kind /\ wanted' = {value}
  /\ Observe(kind, value)
  /\ UNCHANGED <<composing, refusals>>

Served == (Push \/ Return) /\ UNCHANGED modeVars

(* isPotentialKey: the key is the host's. *)
Withdrawn == request.op.kind = "key" /\ queue = <<>> /\ Withdraw /\ UNCHANGED modeVars

Forgotten == IF ModesWaiting = {} THEN wanted ELSE Anything
Abandoned ==
  composing' = NoContext /\ wanted' = Forgotten /\ UNCHANGED <<mode, latest, refusals>>

(* With input queued, a retained result is that of the field it waits for.  *)
Superseded ==
  /\ request.op.context # NoContext
  /\ ElsewhereQueued \/ (queue = <<>> /\ composing \notin {NoContext, request.op.context})
  /\ Supersede /\ Abandoned

Entered ==
  /\ PumpEnter
  /\ \E refusing \in BOOLEAN :
       /\ MayRefuse(refusing)
       /\ \E s \in IF Notifying THEN {Step(mode, flags, TRUE)}
                   ELSE Recovered(mode, flags, refusing) :
            /\ mode' = s.mode /\ flags' = s.flags
  /\ UNCHANGED <<latest, composing, wanted>>

Pumped == (PumpStop \/ PumpPost \/ Grant) /\ UNCHANGED modeVars

(* A refused session; a host mode that was refused is restored. *)
Denied ==
  /\ MayRefuse(TRUE) /\ Deny
  /\ flags' = Refused(Oldest, "failed", flags)
  /\ wanted' = IF Oldest.kind = "key" THEN wanted ELSE Anything
  /\ UNCHANGED <<mode, latest, composing>>
-----------------------------------------------------------------------------
Completes(outcome) ==
  LET op == AfterRun(Oldest, TRUE, Oldest.kind = "key")
  IN RunDirect(op, outcome) \/ RunNow(op, outcome) \/ RunSession(op, outcome)

Active == queue # <<>> /\ (Ready \/ (Idle /\ active # None))

(* A key composes in Chinese; in English, or when it commits, it does not.  *)
RunKey ==
  /\ Active /\ Oldest.kind = "key"
  /\ \/ /\ Completes("done") /\ MayRefuse(FALSE)
        /\ composing' \in {NoContext} \cup IF mode.chinese THEN {Oldest.context} ELSE {}
     \/ /\ Completes("failed") /\ MayRefuse(TRUE)
        /\ composing' \in {composing, Oldest.context}
  /\ UNCHANGED <<mode, latest, wanted>>

(* The text has to be committed before the mode changes; when the host      *)
(* refuses that, a switch publishes the old mode again.                     *)
CommitRefused ==
  /\ Active /\ Oldest.kind # "key" /\ composing # NoContext
  /\ Completes("failed") /\ MayRefuse(TRUE)
  /\ \E s \in {Step(mode, flags, FALSE)} \cup
              IF Oldest.kind = "mode" THEN Publish(mode, flags, mode.chinese, TRUE) ELSE {} :
       mode' = s.mode /\ flags' = Refused(Oldest, "failed", s.flags)
  /\ wanted' = Anything
  /\ UNCHANGED <<latest, composing>>

(* A host mode is adopted and never echoed to the compartment it came from. *)
Changed(op, refusing) ==
  IF op.kind = "mode" THEN Publish(mode, flags, op.value, refusing)
  ELSE Reconcile([mode EXCEPT !.chinese = op.value], flags, op.kind, op.value, refusing)

Outcome(s) == IF s.ok THEN "done" ELSE "failed"

RunMode ==
  /\ Active /\ Oldest.kind # "key"
  /\ \E refusing \in BOOLEAN :
       /\ MayRefuse(refusing)
       /\ \E s \in Changed(Oldest, refusing) :
            /\ Completes(Outcome(s))
            /\ mode' = s.mode /\ flags' = Refused(Oldest, Outcome(s), s.flags)
            /\ wanted' = IF s.ok THEN wanted ELSE Anything
  /\ composing' = NoContext
  /\ UNCHANGED latest

(* The session of the oldest operation is given up, or finds its field      *)
(* disabled.  A composition is kept unless a mode has to be read again; of  *)
(* what is only retained nothing is left.                                   *)
Interrupted ==
  /\ Cancellations /\ queue # <<>>
  /\ \/ DropSession
     \/ Oldest.kind = "key" /\ Active /\ Completes("cancelled")
  /\ composing' \in {NoContext} \cup IF flags'.resync THEN {} ELSE {composing}
  /\ wanted' = Forgotten
  /\ UNCHANGED <<mode, latest, refusals>>

Cancelled == Cancellations /\ Cancel /\ Abandoned

Message == ModePump /\ UNCHANGED modeVars
Focus == Activity /\ UNCHANGED modeVars
Stale == (\E id \in held : StaleSession(id)) /\ UNCHANGED modeVars

Next ==
  \/ \E c \in Contexts : Key(c)
  \/ Toggle
  \/ \E kind \in HostKinds, value \in BOOLEAN : HostWrites(kind, value)
  \/ Served \/ Withdrawn \/ Superseded
  \/ Entered \/ Pumped \/ Denied
  \/ RunKey \/ CommitRefused \/ RunMode
  \/ Interrupted \/ Cancelled \/ Message \/ Focus \/ Stale

Spec == Init /\ [][Next]_vars

(* The thread goes on, sessions are run or released, the message arrives,   *)
(* and the user comes back to a field once in a while.                      *)
ModeFairness ==
  /\ WF_vars(Entered \/ Pumped \/ Denied \/ ((RunKey \/ CommitRefused \/ RunMode) /\ pump = "loop"))
  /\ WF_vars(Served \/ Superseded)
  /\ SF_vars(RunKey \/ CommitRefused \/ RunMode \/ Interrupted)
  /\ SF_vars(Message)
  /\ SF_vars(Focus)
FairSpec == Spec /\ ModeFairness
-----------------------------------------------------------------------------
TypeOK ==
  /\ QueueTypeOK
  /\ mode \in [chinese : BOOLEAN, open : BOOLEAN, native : BOOLEAN, target : BOOLEAN]
  /\ latest \in HostKinds /\ composing \in Contexts \cup {NoContext}
  /\ wanted \subseteq BOOLEAN /\ refusals \in 0 .. 2

Settled == Idle /\ queue = <<>> /\ flags = Quiet
Agreed == mode.open = mode.native /\ mode.native = mode.chinese

(* With nothing pending the service and both compartments have one mode,    *)
(* and it is the one that was asked for last.                               *)
ModesAgree == Settled => Agreed /\ mode.chinese \in wanted

(* What becomes of a key is decided in the live mode: a mode whose          *)
(* notification was cancelled is read before a key is asked about, and      *)
(* before the first key of another field is queued.                         *)
KeysSeeLiveMode ==
  Pushing /\ request.op.kind = "key" /\ flags.resync => refusals > 0

(* Once the host refuses no more, input or a focus brings the modes         *)
(* together, however the refusals fell, unless a refused key is waiting or  *)
(* a composition lasts, which the mode must not change under.               *)
Recovers ==
  <>[][refusals' = refusals]_vars
    => []<>((Agreed /\ flags = Quiet) \/ blocked \/ composing # NoContext)

(* A host that never gives in is not pressed by messages without end: they  *)
(* go on being posted only if input goes on being cancelled.                *)
NoBusyLoop == ([]<>flags.posted) => []<><<Cancelled>>_vars
=============================================================================
