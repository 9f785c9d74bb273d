------------------------- MODULE TextServiceProofs -------------------------
(***************************************************************************)
(* TextService implements InputQueue: whatever the engine answers and the  *)
(* host refuses, its steps are steps of the queue, so that what is proved  *)
(* of the queue holds of the text service, for any fields, answers, faults *)
(* and number of operations.  The step of a session is where this could    *)
(* fail: RunInput has to leave its operation's token, kind and field, and  *)
(* what the host was told of it, alone.                                    *)
(*                                                                         *)
(* What the text itself keeps is proved in three layers.  Fits: the record *)
(* is typed, and carets, the composition and the place of a write that is  *)
(* not finished lie where the next stage may use them.  Owned: every token *)
(* in the text, in the engine and in what is retained belongs to the field *)
(* it was typed in.  TextInv and Owning add the queue, whose operations    *)
(* carry the tokens.  Each stage of retryInputResult, each call of the     *)
(* engine and each action of the service has one lemma for each layer.     *)
(***************************************************************************)
EXTENDS TextService, InputQueueProofs

IInv == QInv /\ focus \in Contexts

(* An operation as some run leaves it. *)
RanFrom(op, ran) == \E p \in BOOLEAN, h \in BOOLEAN : ran = AfterRun(op, p, h)
-----------------------------------------------------------------------------
LEMMA Unrun ==
  ASSUME NEW op \in OperationType
  PROVE  RanFrom(op, op)
<1>1. op.processed \in BOOLEAN /\ op.handled \in BOOLEAN
  BY DEF OperationType
<1>2. [op EXCEPT !.processed = op.processed] = op
  BY DEF OperationType
<1>3. [op EXCEPT !.handled = op.handled] = op
  BY DEF OperationType
<1>4. AfterRun(op, op.processed, op.handled)
        = [[op EXCEPT !.processed = op.processed] EXCEPT !.handled = op.handled]
  BY Zenon DEF AfterRun
<1> QED
  BY <1>1, <1>2, <1>3, <1>4 DEF RanFrom

LEMMA TakenOnce ==
  ASSUME NEW op \in OperationType, NEW h \in BOOLEAN
  PROVE  RanFrom(op, Took(op, h))
<1>1. Took(op, h) = AfterRun(op, TRUE, h)
  BY Zenon DEF Took, AfterRun
<1> QED
  BY <1>1 DEF RanFrom

LEMMA SameOperation ==
  ASSUME NEW x \in OperationType, NEW y \in OperationType,
         x.id = y.id, x.kind = y.kind, x.context = y.context, x.value = y.value,
         x.ordered = y.ordered, x.accepted = y.accepted,
         x.processed = y.processed, x.handled = y.handled
  PROVE  x = y
  BY DEF OperationType

(* A key that was taken, and then inserted for the host. *)
LEMMA TakenTwice ==
  ASSUME NEW op \in OperationType, NEW ran, RanFrom(op, ran)
  PROVE  RanFrom(op, Took(ran, TRUE))
<1> PICK p \in BOOLEAN, h \in BOOLEAN : ran = AfterRun(op, p, h)
  BY DEF RanFrom
<1> DEFINE taken(v, w) == [[op EXCEPT !.processed = v] EXCEPT !.handled = w]
<1>1. ran = taken(p, h) /\ AfterRun(op, TRUE, TRUE) = taken(TRUE, TRUE)
  BY Zenon DEF AfterRun
<1>2. Took(ran, TRUE) = [[ran EXCEPT !.processed = TRUE] EXCEPT !.handled = TRUE]
  BY Zenon DEF Took
<1>3. ASSUME NEW v \in BOOLEAN, NEW w \in BOOLEAN
      PROVE  /\ taken(v, w) \in OperationType
             /\ taken(v, w).id = op.id /\ taken(v, w).kind = op.kind
             /\ taken(v, w).context = op.context /\ taken(v, w).value = op.value
             /\ taken(v, w).ordered = op.ordered /\ taken(v, w).accepted = op.accepted
             /\ taken(v, w).processed = v /\ taken(v, w).handled = w
  <2> DEFINE g == [op EXCEPT !.processed = v]
  <2>1. /\ g \in OperationType
        /\ g.id = op.id /\ g.kind = op.kind /\ g.context = op.context /\ g.value = op.value
        /\ g.ordered = op.ordered /\ g.accepted = op.accepted
        /\ g.processed = v
    BY DEF OperationType
  <2>2. taken(v, w) = [g EXCEPT !.handled = w]
    OBVIOUS
  <2> HIDE DEF taken, g
  <2> QED
    BY <2>1, <2>2 DEF OperationType
<1> HIDE DEF taken
<1>4. /\ ran \in OperationType
      /\ ran.id = op.id /\ ran.kind = op.kind /\ ran.context = op.context /\ ran.value = op.value
      /\ ran.ordered = op.ordered /\ ran.accepted = op.accepted
  BY <1>1, <1>3
<1> DEFINE mid == [ran EXCEPT !.processed = TRUE]
<1>5. /\ mid \in OperationType
      /\ mid.id = op.id /\ mid.kind = op.kind /\ mid.context = op.context /\ mid.value = op.value
      /\ mid.ordered = op.ordered /\ mid.accepted = op.accepted /\ mid.processed = TRUE
  BY <1>4 DEF OperationType
<1>6. Took(ran, TRUE) = [mid EXCEPT !.handled = TRUE]
  BY <1>2
<1> HIDE DEF mid
<1> DEFINE last == [mid EXCEPT !.handled = TRUE]
<1>7. /\ last \in OperationType
      /\ last.id = op.id /\ last.kind = op.kind /\ last.context = op.context /\ last.value = op.value
      /\ last.ordered = op.ordered /\ last.accepted = op.accepted /\ last.processed = TRUE
      /\ last.handled = TRUE
  BY <1>5 DEF OperationType
<1> HIDE DEF last
<1>8. last = taken(TRUE, TRUE)
  <2> DEFINE both == taken(TRUE, TRUE)
  <2>1. /\ both \in OperationType
        /\ both.id = op.id /\ both.kind = op.kind /\ both.context = op.context
        /\ both.value = op.value /\ both.ordered = op.ordered /\ both.accepted = op.accepted
        /\ both.processed = TRUE /\ both.handled = TRUE
    BY <1>3
  <2> HIDE DEF both
  <2>2. last = both
    BY <1>7, <2>1, SameOperation
  <2> QED
    BY <2>2 DEF both
<1> QED
  BY <1>1, <1>6, <1>8 DEF RanFrom, last
-----------------------------------------------------------------------------
(* processKey and the insertion of a key, a symbol and a switch. *)
LEMMA EngineLeavesOperation ==
  ASSUME NEW r, NEW op \in OperationType, NEW mode, NEW answer \in Answers, NEW fault
  PROVE  RanFrom(op, ProcessKey(r, op, mode, answer, fault).op)
<1>1. \A x : Ran(x, op).op = op
  BY DEF Ran
<1>2. \A x : \A h \in BOOLEAN : RanFrom(op, Ran(x, Took(op, h)).op)
  BY TakenOnce DEF Ran
<1>3. RanFrom(op, TypeKey(Detached(r.text, op.context), op, fault).op)
  BY <1>2 DEF TypeKey
<1>4. \A engine : Answered(answer, engine, op.id).handled \in BOOLEAN
  BY AnswersAssumption DEF AllAnswers, Answered, Declining
<1>5. \A t, engine : RanFrom(op, Consume(t, op, Answered(answer, engine, op.id), fault).op)
  BY <1>2, <1>4 DEF Consume
<1>6. ASSUME NEW start
      PROVE  RanFrom(op, AskEngine(start, op, answer, fault).op)
  <2>1. CASE ~start.ok
    <3>1. AskEngine(start, op, answer, fault) = Ran(start, op)
      BY <2>1, Zenon DEF AskEngine
    <3> QED
      BY <1>1, <3>1, Unrun
  <2>3. CASE start.ok /\ answer \in Declining
    <3>1. \E x : AskEngine(start, op, answer, fault) = Ran(x, op)
      BY <2>3, Zenon DEF AskEngine
    <3> QED
      BY <1>1, <3>1, Unrun
  <2>2. CASE start.ok /\ answer \notin Declining
    <3>1. AskEngine(start, op, answer, fault)
            = Consume(start.text, op, Answered(answer, start.text.engine, op.id), fault)
      BY <2>2, Zenon DEF AskEngine
    <3> QED
      BY <1>5, <3>1, Zenon
  <2> QED
    BY <2>1, <2>2, <2>3
<1> QED
  BY <1>1, <1>3, <1>6, Unrun, Zenon DEF ProcessKey

LEMMA RunLeavesOperation ==
  ASSUME NEW t, NEW op \in OperationType, NEW mode, NEW answer \in Answers, NEW fault
  PROVE  RanFrom(op, RunInput(t, op, mode, answer, fault).op)
<1>1. \A x, o : Ran(x, o).op = o
  BY DEF Ran
<1>2. ASSUME NEW run, RanFrom(op, run.op)
      PROVE  RanFrom(op, RunKey(run, fault).op)
  <2>1. \A commit : RanFrom(op, InsertKey(commit, run.op, fault).op)
    BY <1>1, <1>2, TakenTwice DEF InsertKey
  <2> QED
    BY <1>2, <2>1 DEF RunKey
<1>3. \A r : RanFrom(op, RunSymbol(r, op, answer, fault).op)
  BY <1>1, Unrun DEF RunSymbol
<1>4. \A r : RanFrom(op, RunMode(r, op, fault).op)
  BY <1>1, Unrun DEF RunMode
<1>5. \A r : RanFrom(op, RunOperation(r, op, mode, answer, fault).op)
  BY <1>2, <1>3, <1>4, EngineLeavesOperation DEF RunOperation
<1> QED
  BY <1>5 DEF RunInput
-----------------------------------------------------------------------------
(* Every step of the text service is one of the queue, or leaves it alone.  *)
LEMMA OldestTyped ==
  ASSUME QInv, queue # <<>>
  PROVE  Oldest \in OperationType
  BY TypedState, FrontAndRest DEF Oldest

LEMMA CompletionIsRun ==
  ASSUME queue # <<>>, NEW ran, RanFrom(Oldest, ran), NEW outcome \in Outcomes,
         RunDirect(ran, outcome) \/ RunNow(ran, outcome) \/ RunSession(ran, outcome)
  PROVE  QueueNext
  BY DEF RanFrom, Run, QueueNext

LEMMA StepIsQueueStep ==
  ASSUME IInv, [Next]_vars
  PROVE  [QueueNext]_queueVars
<1>1. CASE KeyDown \/ Symbol
  BY <1>1 DEF KeyDown, Symbol, IInv, Asked, Operation, Ask, QueueNext, HostKinds
<1>2. CASE Toggle
  <2> PICK c \in Contexts : c = InputContext /\ Request(Operation("mode", c, ~ProjectedChinese))
    BY <1>2 DEF Toggle
  <2>1. Asked(Operation("mode", c, ~ProjectedChinese))
    BY DEF Asked, Operation, InputContext
  <2>2. "mode" \in Requests /\ (~ProjectedChinese) \in BOOLEAN
    BY <1>2 DEF Toggle
  <2> QED
    BY <2>1, <2>2 DEF Ask, QueueNext
<1>3. CASE Withdrawn \/ Superseded \/ Pushed \/ Returned
  BY <1>3 DEF Withdrawn, Superseded, Pushed, Returned, Serve, QueueNext
<1>4. CASE Pumped \/ Denied
  BY <1>4 DEF Pumped, Denied, Pump, QueueNext
<1>5. CASE EditSession
  <2> PICK answer \in Answerable(text, Oldest.context),
           fault \in (Faults \cap SessionFaults) \cup {"none"} :
        Effect(Oldest, RunInput(text, Oldest, chinese, answer, fault), answer)
    BY <1>5 DEF EditSession
  <2> DEFINE run == RunInput(text, Oldest, chinese, answer, fault)
  <2>1. queue # <<>> /\ answer \in Answers
    BY <1>5 DEF EditSession, Answerable
  <2>2. RanFrom(Oldest, run.op)
    BY <2>1, OldestTyped, RunLeavesOperation DEF IInv
  <2> HIDE DEF run
  <2>3. Completes(run, IF run.ok THEN "done" ELSE "failed")
    BY DEF Effect, run
  <2>4. (IF run.ok THEN "done" ELSE "failed") \in Outcomes
    BY DEF Outcomes
  <2> QED
    BY <2>1, <2>2, <2>3, <2>4, CompletionIsRun DEF Completes
<1>6. CASE Interrupted
  <2>1. queue # <<>> /\ RanFrom(Oldest, Oldest)
    BY <1>6, OldestTyped, Unrun DEF Interrupted, IInv
  <2>2. CASE DropSession
    BY <2>2 DEF Host, QueueNext
  <2>3. CASE RunNow(Oldest, "cancelled") \/ RunSession(Oldest, "cancelled")
    BY <2>1, <2>3, CompletionIsRun DEF Outcomes
  <2> QED
    BY <1>6, <2>2, <2>3 DEF Interrupted
<1>7. CASE CaretMoved \/ Deactivated \/ Stale \/ \E c \in Contexts : FocusMoves(c)
  BY <1>7 DEF CaretMoved, Deactivated, Stale, FocusMoves, Host, QueueNext
<1>8. CASE UNCHANGED vars
  BY <1>8 DEF vars
<1> QED
  BY <1>1, <1>2, <1>3, <1>4, <1>5, <1>6, <1>7, <1>8 DEF Next

LEMMA FocusStays ==
  ASSUME IInv, [Next]_vars
  PROVE  focus' \in Contexts
<1>1. UNCHANGED focus \/ \E c \in Contexts : FocusMoves(c)
  BY DEF Next, vars, textVars, KeyDown, Symbol, Toggle, Withdrawn, Superseded, Pushed, Returned,
         Pumped, NoSession, Denied, EditSession, Effect, Interrupted, CaretMoved, Deactivated, Stale
<1> QED
  BY <1>1 DEF IInv, FocusMoves

LEMMA Invariance == Spec => []IInv
<1>1. Init => IInv
  BY QueueInitEstablishes DEF Init, IInv
<1>2. IInv /\ [Next]_vars => IInv'
  BY StepIsQueueStep, StepKeeps, FocusStays DEF IInv
<1> QED
  BY <1>1, <1>2, PTL DEF Spec
-----------------------------------------------------------------------------
(* The text service implements the ordered queue: nothing that an engine's  *)
(* answer or a refusal of the host makes it do to the text breaks the       *)
(* queue's rules.                                                           *)
THEOREM TextImplementsQueue == Spec => QueueSpec
<1>1. Init => QueueInit
  BY DEF Init
<1>2. IInv /\ [Next]_vars => [QueueNext]_queueVars
  BY StepIsQueueStep
<1> QED
  BY <1>1, <1>2, Invariance, PTL DEF Spec, QueueSpec

(* Keys, symbols and switches wait in the order they came in, for one field *)
(* at a time; none of them is left without somebody to take it up; and the  *)
(* engine's lease lasts exactly as long as they wait.                       *)
THEOREM TextKeepsQueue == Spec => [](InOrder /\ NeverForgotten /\ LeaseWhilePending)
<1> QED
  BY TextImplementsQueue, OneFieldInOrder, PendingInputIsTakenUp, LeaseMatchesQueue, PTL
-----------------------------------------------------------------------------
(***************************************************************************)
(* The fields of the text record after each step, for tokens of a set N.   *)
(***************************************************************************)
Fields == Contexts \cup {NoContext}
CompositionType == [context : Fields, from : Nat, len : Nat]
ResultType(N) ==
  [context : Fields, commit : Seq(N), view : Seq(N), written : BOOLEAN, caretSet : BOOLEAN,
   needsEnd : BOOLEAN, at : Nat]
Docs(N) == [Contexts -> Seq(N)]
Carets == [Contexts -> Nat]
TextType(N) ==
  [doc : Docs(N), caret : Carets, comp : CompositionType,
   engine : Seq(N), retained : ResultType(N)]

(* A text record with its retained result, its composition or its engine   *)
(* exchanged.                                                               *)
LEMMA TextFields ==
  ASSUME NEW N, NEW t \in TextType(N)
  PROVE  /\ t.doc \in Docs(N) /\ t.caret \in Carets
         /\ t.comp \in CompositionType /\ t.engine \in Seq(N) /\ t.retained \in ResultType(N)
         /\ t.comp.context \in Fields /\ t.comp.from \in Nat /\ t.comp.len \in Nat
         /\ t.retained.context \in Fields
         /\ t.retained.commit \in Seq(N) /\ t.retained.view \in Seq(N)
         /\ t.retained.written \in BOOLEAN /\ t.retained.caretSet \in BOOLEAN
         /\ t.retained.needsEnd \in BOOLEAN /\ t.retained.at \in Nat
  BY DEF TextType, CompositionType, ResultType

LEMMA NothingTyped ==
  ASSUME NEW N
  PROVE  /\ NoComposition \in CompositionType /\ NoResult \in ResultType(N)
         /\ NoComposition.context = NoContext
         /\ NoComposition.from = 0 /\ NoComposition.len = 0
         /\ NoResult.context = NoContext /\ NoResult.commit = <<>> /\ NoResult.view = <<>>
         /\ ~NoResult.written /\ ~NoResult.caretSet /\ ~NoResult.needsEnd /\ NoResult.at = 0
  BY DEF NoComposition, NoResult, CompositionType, ResultType, Fields

(* A record of five fields, and the records in it, told by their fields.    *)
TextOf(doc, caret, comp, engine, retained) ==
  [doc |-> doc, caret |-> caret, comp |-> comp, engine |-> engine, retained |-> retained]
PartOf(context, from, len) == [context |-> context, from |-> from, len |-> len]
ResultOf(context, commit, view, written, caretSet, needsEnd, at) ==
  [context |-> context, commit |-> commit, view |-> view, written |-> written,
   caretSet |-> caretSet, needsEnd |-> needsEnd, at |-> at]

(* A range of one field replaced, and its caret moved by that.              *)
Edited(doc, c, from, len, new) == [doc EXCEPT ![c] = Replaced(doc[c], from, len, new)]
Moved(caret, c, from, len, new) == [caret EXCEPT ![c] = CaretAfter(caret[c], from, len, new)]

LEMMA TextIs ==
  ASSUME NEW N, NEW t \in TextType(N)
  PROVE  /\ t = TextOf(t.doc, t.caret, t.comp, t.engine, t.retained)
         /\ t.comp = PartOf(t.comp.context, t.comp.from, t.comp.len)
         /\ t.retained = ResultOf(t.retained.context, t.retained.commit, t.retained.view,
                                  t.retained.written, t.retained.caretSet,
                                  t.retained.needsEnd, t.retained.at)
  BY DEF TextType, CompositionType, ResultType, TextOf, PartOf, ResultOf

LEMMA FieldsOf ==
  ASSUME NEW doc, NEW caret, NEW comp, NEW engine, NEW retained,
         NEW t, t = TextOf(doc, caret, comp, engine, retained)
  PROVE  /\ t.doc = doc /\ t.caret = caret /\ t.comp = comp /\ t.engine = engine
         /\ t.retained = retained
         /\ \A x : [t EXCEPT !.doc = x] = TextOf(x, caret, comp, engine, retained)
         /\ \A x : [t EXCEPT !.caret = x] = TextOf(doc, x, comp, engine, retained)
         /\ \A x : [t EXCEPT !.comp = x] = TextOf(doc, caret, x, engine, retained)
         /\ \A x : [t EXCEPT !.engine = x] = TextOf(doc, caret, comp, x, retained)
         /\ \A x : [t EXCEPT !.retained = x] = TextOf(doc, caret, comp, engine, x)
  BY DEF TextOf

LEMMA PartsOf ==
  ASSUME NEW context, NEW from, NEW len, NEW p, p = PartOf(context, from, len)
  PROVE  /\ p.context = context /\ p.from = from /\ p.len = len
         /\ \A x : [p EXCEPT !.len = x] = PartOf(context, from, x)
         /\ \A x : [p EXCEPT !.from = x] = PartOf(context, x, len)
  BY DEF PartOf

LEMMA ResultsOf ==
  ASSUME NEW context, NEW commit, NEW view, NEW written, NEW caretSet, NEW needsEnd, NEW at,
         NEW p, p = ResultOf(context, commit, view, written, caretSet, needsEnd, at)
  PROVE  /\ p.context = context /\ p.commit = commit /\ p.view = view /\ p.at = at
         /\ p.written = written /\ p.caretSet = caretSet /\ p.needsEnd = needsEnd
         /\ \A x : [p EXCEPT !.context = x] = ResultOf(x, commit, view, written, caretSet, needsEnd, at)
         /\ \A x : [p EXCEPT !.commit = x] = ResultOf(context, x, view, written, caretSet, needsEnd, at)
         /\ \A x : [p EXCEPT !.view = x] = ResultOf(context, commit, x, written, caretSet, needsEnd, at)
         /\ \A x : [p EXCEPT !.written = x] = ResultOf(context, commit, view, x, caretSet, needsEnd, at)
         /\ \A x : [p EXCEPT !.caretSet = x] = ResultOf(context, commit, view, written, x, needsEnd, at)
         /\ \A x : [p EXCEPT !.needsEnd = x] = ResultOf(context, commit, view, written, caretSet, x, at)
         /\ \A x : [p EXCEPT !.at = x] = ResultOf(context, commit, view, written, caretSet, needsEnd, x)
  BY DEF ResultOf

LEMMA TypeOfText ==
  ASSUME NEW N, NEW doc \in Docs(N), NEW caret \in Carets,
         NEW comp \in CompositionType, NEW engine \in Seq(N), NEW retained \in ResultType(N)
  PROVE  TextOf(doc, caret, comp, engine, retained) \in TextType(N)
  BY DEF TextOf, TextType

LEMMA PlacesOfConcatenation ==
  ASSUME NEW N, NEW s \in Seq(N), NEW t \in Seq(N), NEW r, r = s \o t
  PROVE  /\ r \in Seq(N) /\ Len(r) = Len(s) + Len(t)
         /\ \A i \in 1 .. Len(s) : r[i] = s[i]
         /\ \A i \in 1 .. Len(t) : r[Len(s) + i] = t[i]
  OBVIOUS

(* The sequence r is s with the len elements behind the first ones replaced. *)
Spliced(r, s, N, from, len, new) ==
  /\ r \in Seq(N) /\ Len(r) = Len(s) - len + Len(new)
  /\ \A i \in 1 .. from : r[i] = s[i]
  /\ \A i \in 1 .. Len(new) : r[from + i] = new[i]
  /\ \A i \in from + len + 1 .. Len(s) : r[i - len + Len(new)] = s[i]

LEMMA PlacesOfReplaced ==
  ASSUME NEW N, NEW s \in Seq(N), NEW from \in Nat, NEW len \in Nat, NEW new \in Seq(N),
         from + len <= Len(s)
  PROVE  Spliced(Replaced(s, from, len, new), s, N, from, len, new)
<1> DEFINE before == SubSeq(s, 1, from)
           after == SubSeq(s, from + len + 1, Len(s))
<1>r. PICK r : r = Replaced(s, from, len, new)
  OBVIOUS
<1>1. /\ before \in Seq(N) /\ Len(before) = from
      /\ \A i \in 1 .. from : before[i] = s[i]
  OBVIOUS
<1>2. /\ after \in Seq(N) /\ Len(after) = Len(s) - (from + len)
      /\ \A i \in 1 .. Len(s) - (from + len) : after[i] = s[from + len + i]
  OBVIOUS
<1>3. r = before \o new \o after
  BY <1>r DEF Replaced
<1> HIDE DEF before, after
<1> DEFINE front == before \o new
<1>4. /\ front \in Seq(N) /\ Len(front) = from + Len(new)
      /\ \A i \in 1 .. from : front[i] = s[i]
      /\ \A i \in 1 .. Len(new) : front[from + i] = new[i]
  BY <1>1, SMTT(20)
<1>5. r = front \o after
  BY <1>3
<1> HIDE DEF front
<1>6. /\ r \in Seq(N) /\ Len(r) = Len(s) - len + Len(new)
      /\ \A i \in 1 .. from + Len(new) : r[i] = front[i]
      /\ \A i \in 1 .. Len(s) - (from + len) : r[from + Len(new) + i] = s[from + len + i]
  <2>1. /\ r \in Seq(N) /\ Len(r) = Len(front) + Len(after)
        /\ \A i \in 1 .. Len(front) : r[i] = front[i]
        /\ \A i \in 1 .. Len(after) : r[Len(front) + i] = after[i]
    <3>1. front \in Seq(N) /\ after \in Seq(N)
      BY <1>2, <1>4
    <3> QED
      BY <1>5, <3>1, PlacesOfConcatenation
  <2>2. Len(front) = from + Len(new) /\ Len(after) = Len(s) - (from + len)
    BY <1>2, <1>4
  <2>3. /\ Len(s) \in Nat /\ Len(new) \in Nat
        /\ from + Len(new) + (Len(s) - (from + len)) = Len(s) - len + Len(new)
    OBVIOUS
  <2>4. Len(r) = Len(s) - len + Len(new)
    BY <2>1, <2>2, <2>3
  <2>5. \A i \in 1 .. from + Len(new) : r[i] = front[i]
    BY <2>1, <2>2
  <2>6. \A i \in 1 .. Len(s) - (from + len) : r[from + Len(new) + i] = after[i]
    BY <2>1, <2>2
  <2> QED
    BY <1>2, <2>1, <2>4, <2>5, <2>6
<1>7. \A i \in 1 .. from : r[i] = s[i]
  BY <1>4, <1>6
<1>8. \A i \in 1 .. Len(new) : r[from + i] = new[i]
  BY <1>4, <1>6
<1>9. ASSUME NEW i \in from + len + 1 .. Len(s)
      PROVE  r[i - len + Len(new)] = s[i]
  <2> DEFINE k == i - (from + len)
  <2>1. k \in 1 .. Len(s) - (from + len)
    OBVIOUS
  <2>2. from + Len(new) + k = i - len + Len(new) /\ from + len + k = i
    OBVIOUS
  <2> QED
    BY <1>6, <2>1, <2>2
<1> QED
  BY <1>r, <1>6, <1>7, <1>8, <1>9 DEF Spliced

LEMMA LengthOfReplaced ==
  ASSUME NEW N, NEW s \in Seq(N), NEW from \in Nat, NEW len \in Nat, NEW new \in Seq(N),
         from + len <= Len(s)
  PROVE  /\ Replaced(s, from, len, new) \in Seq(N)
         /\ Len(Replaced(s, from, len, new)) = Len(s) - len + Len(new)
  BY PlacesOfReplaced DEF Spliced

LEMMA CaretOfReplaced ==
  ASSUME NEW caret \in Nat, NEW from \in Nat, NEW len \in Nat, NEW N, NEW new \in Seq(N),
         NEW size \in Nat, caret <= size, from + len <= size
  PROVE  /\ CaretAfter(caret, from, len, new) \in Nat
         /\ CaretAfter(caret, from, len, new) <= size - len + Len(new)
         /\ ~(from < CaretAfter(caret, from, len, new)
               /\ CaretAfter(caret, from, len, new) < from + Len(new))
         /\ caret = from => CaretAfter(caret, from, len, new) = from
  BY DEF CaretAfter

LEMMA EditedField ==
  ASSUME NEW N, NEW doc \in Docs(N), NEW c \in Contexts,
         NEW from \in Nat, NEW len \in Nat, NEW new \in Seq(N), from + len <= Len(doc[c])
  PROVE  /\ Edited(doc, c, from, len, new) \in Docs(N)
         /\ Edited(doc, c, from, len, new)[c] = Replaced(doc[c], from, len, new)
         /\ Len(Edited(doc, c, from, len, new)[c]) = Len(doc[c]) - len + Len(new)
         /\ \A d \in Contexts \ {c} : Edited(doc, c, from, len, new)[d] = doc[d]
<1>1. PICK old : old = doc[c]
  OBVIOUS
<1>2. old \in Seq(N) /\ from + len <= Len(old)
  BY <1>1 DEF Docs
<1>3. PICK s : s = Replaced(old, from, len, new)
  OBVIOUS
<1>4. s \in Seq(N) /\ Len(s) = Len(old) - len + Len(new)
  <2>1. \A x \in Seq(N) : from + len <= Len(x) =>
          /\ Replaced(x, from, len, new) \in Seq(N)
          /\ Len(Replaced(x, from, len, new)) = Len(x) - len + Len(new)
    BY LengthOfReplaced
  <2> QED
    BY <1>2, <1>3, <2>1
<1>5. Edited(doc, c, from, len, new) = [doc EXCEPT ![c] = s]
  BY <1>1, <1>3 DEF Edited
<1>6. PICK e : e = [doc EXCEPT ![c] = s]
  OBVIOUS
<1>7. /\ e \in Docs(N) /\ e[c] = s
      /\ \A d \in Contexts \ {c} : e[d] = doc[d]
  BY <1>4, <1>6 DEF Docs
<1> QED
  BY <1>1, <1>3, <1>4, <1>5, <1>6, <1>7

LEMMA MovedCaret ==
  ASSUME NEW N, NEW caret \in Carets, NEW c \in Contexts,
         NEW from \in Nat, NEW len \in Nat, NEW new \in Seq(N), NEW size \in Nat,
         from + len <= size, caret[c] <= size
  PROVE  /\ Moved(caret, c, from, len, new) \in Carets
         /\ Moved(caret, c, from, len, new)[c] <= size - len + Len(new)
         /\ ~(from < Moved(caret, c, from, len, new)[c]
              /\ Moved(caret, c, from, len, new)[c] < from + Len(new))
         /\ \A d \in Contexts \ {c} : Moved(caret, c, from, len, new)[d] = caret[d]
<1>1. PICK old : old = caret[c]
  OBVIOUS
<1>2. old \in Nat /\ old <= size
  BY <1>1 DEF Carets
<1>3. PICK k : k = CaretAfter(old, from, len, new)
  OBVIOUS
<1>4. /\ k \in Nat /\ k <= size - len + Len(new)
      /\ ~(from < k /\ k < from + Len(new))
  BY <1>2, <1>3 DEF CaretAfter
<1>5. Moved(caret, c, from, len, new) = [caret EXCEPT ![c] = k]
  BY <1>1, <1>3 DEF Moved
<1>6. PICK e : e = [caret EXCEPT ![c] = k]
  OBVIOUS
<1>7. /\ e \in Carets /\ e[c] = k
      /\ \A d \in Contexts \ {c} : e[d] = caret[d]
  BY <1>4, <1>6 DEF Carets
<1> QED
  BY <1>4, <1>5, <1>6, <1>7
-----------------------------------------------------------------------------
(* What Replace, Shown and Written leave in the record, field by field.     *)
LEMMA ReplaceIs ==
  ASSUME NEW N, NEW t \in TextType(N), NEW c, NEW from, NEW len, NEW new
  PROVE  Replace(t, c, from, len, new)
           = TextOf(Edited(t.doc, c, from, len, new), Moved(t.caret, c, from, len, new),
                    t.comp, t.engine, t.retained)
<1>1. PICK doc : doc = Edited(t.doc, c, from, len, new)
  OBVIOUS
<1>2. PICK caret : caret = Moved(t.caret, c, from, len, new)
  OBVIOUS
<1>3. PICK a : a = [t EXCEPT !.doc = doc]
  OBVIOUS
<1>4. a = TextOf(doc, t.caret, t.comp, t.engine, t.retained)
  BY <1>3, TextIs, FieldsOf
<1>5. Replace(t, c, from, len, new)
        = [a EXCEPT !.caret = [a.caret EXCEPT ![c] = CaretAfter(@, from, len, new)]]
  BY <1>1, <1>3, Zenon DEF Replace, Edited
<1>6. a.caret = t.caret
  BY <1>4, FieldsOf
<1>7. Replace(t, c, from, len, new) = [a EXCEPT !.caret = caret]
  BY <1>2, <1>5, <1>6, Zenon DEF Moved
<1>8. Replace(t, c, from, len, new) = TextOf(doc, caret, t.comp, t.engine, t.retained)
  BY <1>4, <1>7, FieldsOf
<1> QED
  BY <1>1, <1>2, <1>8, Zenon

LEMMA ShownIs ==
  ASSUME NEW N, NEW t \in TextType(N), NEW c, NEW new
  PROVE  Shown(t, c, new)
           = TextOf(Edited(t.doc, c, t.comp.from, t.comp.len, new),
                    Moved(t.caret, c, t.comp.from, t.comp.len, new),
                    PartOf(t.comp.context, t.comp.from, Len(new)), t.engine, t.retained)
<1>1. PICK doc : doc = Edited(t.doc, c, t.comp.from, t.comp.len, new)
  OBVIOUS
<1>2. PICK caret : caret = Moved(t.caret, c, t.comp.from, t.comp.len, new)
  OBVIOUS
<1>3. PICK a : a = Replace(t, c, t.comp.from, t.comp.len, new)
  OBVIOUS
<1>4. a = TextOf(doc, caret, t.comp, t.engine, t.retained)
  BY <1>1, <1>2, <1>3, ReplaceIs, Zenon
<1>5. Shown(t, c, new) = [a EXCEPT !.comp = [a.comp EXCEPT !.len = Len(new)]]
  BY <1>3, Zenon DEF Shown
<1>6. [t.comp EXCEPT !.len = Len(new)] = PartOf(t.comp.context, t.comp.from, Len(new))
  BY TextIs, PartsOf
<1>7. a.comp = t.comp
  BY <1>4, FieldsOf
<1>8. PICK part : part = PartOf(t.comp.context, t.comp.from, Len(new))
  OBVIOUS
<1>9. Shown(t, c, new) = [a EXCEPT !.comp = part]
  BY <1>5, <1>6, <1>7, <1>8, Zenon
<1>10. Shown(t, c, new) = TextOf(doc, caret, part, t.engine, t.retained)
  BY <1>4, <1>9, FieldsOf
<1> QED
  BY <1>1, <1>2, <1>8, <1>10, Zenon

LEMMA WrittenIs ==
  ASSUME NEW N, NEW t \in TextType(N), NEW c, NEW from, NEW len, NEW inside
  PROVE  Written(t, c, from, len, inside)
           = TextOf(Edited(t.doc, c, from, len, t.retained.commit),
                    Moved(t.caret, c, from, len, t.retained.commit),
                    PartOf(t.comp.context, t.comp.from,
                           IF inside THEN Len(t.retained.commit) ELSE t.comp.len),
                    t.engine,
                    ResultOf(t.retained.context, t.retained.commit, t.retained.view, TRUE,
                             t.retained.caretSet, t.retained.needsEnd,
                             from + Len(t.retained.commit)))
<1>1. PICK new : new = t.retained.commit
  OBVIOUS
<1>2. PICK doc : doc = Edited(t.doc, c, from, len, new)
  OBVIOUS
<1>3. PICK caret : caret = Moved(t.caret, c, from, len, new)
  OBVIOUS
<1>4. PICK a : a = Replace(t, c, from, len, new)
  OBVIOUS
<1>5. a = TextOf(doc, caret, t.comp, t.engine, t.retained)
  BY <1>2, <1>3, <1>4, ReplaceIs, Zenon
<1>6. PICK part : part = PartOf(t.comp.context, t.comp.from, IF inside THEN Len(new) ELSE t.comp.len)
  OBVIOUS
<1>7. PICK b : b = [a EXCEPT !.comp = part]
  OBVIOUS
<1>8. b = TextOf(doc, caret, part, t.engine, t.retained)
  BY <1>5, <1>7, FieldsOf
<1>9. PICK at : at = from + Len(new)
  OBVIOUS
<1>10. PICK r : r = [t.retained EXCEPT !.at = at]
  OBVIOUS
<1>11. r = ResultOf(t.retained.context, t.retained.commit, t.retained.view, t.retained.written,
                    t.retained.caretSet, t.retained.needsEnd, at)
  BY <1>10, TextIs, ResultsOf
<1>12. PICK d : d = [b EXCEPT !.retained = r]
  OBVIOUS
<1>13. d = TextOf(doc, caret, part, t.engine, r)
  BY <1>8, <1>12, FieldsOf
<1>14. part = [a.comp EXCEPT !.len = IF inside THEN Len(new) ELSE a.comp.len]
  <2>1. a.comp = t.comp
    BY <1>5, FieldsOf
  <2>2. \A x : [t.comp EXCEPT !.len = x] = PartOf(t.comp.context, t.comp.from, x)
    BY TextIs, PartsOf
  <2> QED
    BY <1>6, <2>1, <2>2, Zenon
<1>15. Written(t, c, from, len, inside)
         = [[[a EXCEPT !.comp.len = IF inside THEN Len(new) ELSE @]
             EXCEPT !.retained.at = at] EXCEPT !.retained.written = TRUE]
  BY <1>1, <1>4, <1>9, Zenon DEF Written
<1>16. b = [a EXCEPT !.comp.len = IF inside THEN Len(new) ELSE @]
  BY <1>7, <1>14, Zenon
<1>17. d = [b EXCEPT !.retained.at = at]
  <2>1. b.retained = t.retained
    BY <1>8, FieldsOf
  <2> QED
    BY <1>10, <1>12, <2>1, Zenon
<1>18. Written(t, c, from, len, inside) = [d EXCEPT !.retained = [d.retained EXCEPT !.written = TRUE]]
  BY <1>15, <1>16, <1>17, Zenon
<1>19. d.retained = r
  BY <1>13, FieldsOf
<1>20. PICK last : last = [r EXCEPT !.written = TRUE]
  OBVIOUS
<1>21. last = ResultOf(t.retained.context, t.retained.commit, t.retained.view, TRUE,
                       t.retained.caretSet, t.retained.needsEnd, at)
  BY <1>11, <1>20 DEF ResultOf
<1>22. Written(t, c, from, len, inside) = [d EXCEPT !.retained = last]
  BY <1>18, <1>19, <1>20, Zenon
<1>23. Written(t, c, from, len, inside) = TextOf(doc, caret, part, t.engine, last)
  BY <1>13, <1>22, FieldsOf
<1> QED
  BY <1>1, <1>2, <1>3, <1>6, <1>9, <1>21, <1>23, Zenon

LEMMA EditPlaces ==
  ASSUME NEW N, NEW doc \in Docs(N), NEW caret \in Carets,
         NEW c \in Contexts, NEW from \in Nat, NEW len \in Nat, NEW new \in Seq(N),
         from + len <= Len(doc[c]), caret[c] <= Len(doc[c])
  PROVE  /\ Edited(doc, c, from, len, new) \in Docs(N)
         /\ Moved(caret, c, from, len, new) \in Carets
         /\ Edited(doc, c, from, len, new)[c] = Replaced(doc[c], from, len, new)
         /\ Len(Edited(doc, c, from, len, new)[c]) = Len(doc[c]) - len + Len(new)
         /\ Moved(caret, c, from, len, new)[c] <= Len(Edited(doc, c, from, len, new)[c])
         /\ ~(from < Moved(caret, c, from, len, new)[c]
              /\ Moved(caret, c, from, len, new)[c] < from + Len(new))
         /\ \A d \in Contexts \ {c} : /\ Edited(doc, c, from, len, new)[d] = doc[d]
                                      /\ Moved(caret, c, from, len, new)[d] = caret[d]
<1>1. PICK size : size = Len(doc[c])
  OBVIOUS
<1>2. size \in Nat /\ from + len <= size /\ caret[c] <= size
  BY <1>1 DEF Docs
<1>3. PICK e : e = Edited(doc, c, from, len, new)
  OBVIOUS
<1>4. PICK m : m = Moved(caret, c, from, len, new)
  OBVIOUS
<1>5. e \in Docs(N)
  BY <1>3, EditedField
<1>6. /\ e[c] = Replaced(doc[c], from, len, new)
      /\ \A d \in Contexts \ {c} : e[d] = doc[d]
  BY <1>3, EditedField
<1>7. Len(e[c]) = Len(doc[c]) - len + Len(new)
  <2>1. Len(Edited(doc, c, from, len, new)[c]) = Len(doc[c]) - len + Len(new)
    BY EditedField
  <2> QED
    BY <1>3, <2>1
<1>8. m \in Carets
  BY <1>2, <1>4, MovedCaret
<1>9. /\ m[c] <= size - len + Len(new)
      /\ ~(from < m[c] /\ m[c] < from + Len(new))
  BY <1>2, <1>4, MovedCaret
<1>10. \A d \in Contexts \ {c} : m[d] = caret[d]
  BY <1>2, <1>4, MovedCaret
<1> QED
  BY <1>1, <1>3, <1>4, <1>5, <1>6, <1>7, <1>8, <1>9, <1>10
-----------------------------------------------------------------------------
(* The composition of field c replaced by new. *)
ShownAs(u, t, N, c, new) ==
  /\ u \in TextType(N)
  /\ u.doc[c] = Replaced(t.doc[c], t.comp.from, t.comp.len, new)
  /\ Len(u.doc[c]) = Len(t.doc[c]) - t.comp.len + Len(new)
  /\ u.caret[c] <= Len(u.doc[c])
  /\ ~(t.comp.from < u.caret[c] /\ u.caret[c] < t.comp.from + Len(new))
  /\ \A d \in Contexts \ {c} : u.doc[d] = t.doc[d] /\ u.caret[d] = t.caret[d]
  /\ u.comp.context = t.comp.context /\ u.comp.from = t.comp.from
  /\ u.comp.len = Len(new)
  /\ u.engine = t.engine /\ u.retained = t.retained

LEMMA ShownFields ==
  ASSUME NEW N, NEW t \in TextType(N), NEW c \in Contexts, NEW new \in Seq(N),
         t.comp.from + t.comp.len <= Len(t.doc[c]), t.caret[c] <= Len(t.doc[c])
  PROVE  ShownAs(Shown(t, c, new), t, N, c, new)
<1>0. PICK u : u = Shown(t, c, new)
  OBVIOUS
<1>1. PICK doc : doc = t.doc
  OBVIOUS
<1>2. PICK caret : caret = t.caret
  OBVIOUS
<1>3. PICK from : from = t.comp.from
  OBVIOUS
<1>4. PICK len : len = t.comp.len
  OBVIOUS
<1>5. /\ doc \in Docs(N) /\ caret \in Carets /\ from \in Nat /\ len \in Nat
      /\ t.comp.context \in Fields /\ t.engine \in Seq(N) /\ t.retained \in ResultType(N)
  BY <1>1, <1>2, <1>3, <1>4, TextFields
<1>6. from + len <= Len(doc[c]) /\ caret[c] <= Len(doc[c])
  BY <1>1, <1>2, <1>3, <1>4
<1>7. PICK part : part = PartOf(t.comp.context, from, Len(new))
  OBVIOUS
<1>8. u = TextOf(Edited(doc, c, from, len, new), Moved(caret, c, from, len, new),
                 part, t.engine, t.retained)
  BY <1>0, <1>1, <1>2, <1>3, <1>4, <1>7, ShownIs
<1>9. /\ part \in CompositionType
      /\ part.context = t.comp.context /\ part.from = from /\ part.len = Len(new)
  BY <1>5, <1>7 DEF PartOf, CompositionType
<1>10. PICK e : e = Edited(doc, c, from, len, new)
  OBVIOUS
<1>11. PICK m : m = Moved(caret, c, from, len, new)
  OBVIOUS
<1>12. /\ e \in Docs(N) /\ m \in Carets
       /\ e[c] = Replaced(doc[c], from, len, new)
       /\ Len(e[c]) = Len(doc[c]) - len + Len(new)
       /\ m[c] <= Len(e[c])
       /\ ~(from < m[c] /\ m[c] < from + Len(new))
       /\ \A d \in Contexts \ {c} : e[d] = doc[d] /\ m[d] = caret[d]
  <2>1. /\ Edited(doc, c, from, len, new) \in Docs(N)
        /\ Moved(caret, c, from, len, new) \in Carets
        /\ Edited(doc, c, from, len, new)[c] = Replaced(doc[c], from, len, new)
        /\ Len(Edited(doc, c, from, len, new)[c]) = Len(doc[c]) - len + Len(new)
        /\ Moved(caret, c, from, len, new)[c] <= Len(Edited(doc, c, from, len, new)[c])
        /\ ~(from < Moved(caret, c, from, len, new)[c]
             /\ Moved(caret, c, from, len, new)[c] < from + Len(new))
        /\ \A d \in Contexts \ {c} : /\ Edited(doc, c, from, len, new)[d] = doc[d]
                                     /\ Moved(caret, c, from, len, new)[d] = caret[d]
    BY <1>5, <1>6, EditPlaces
  <2> QED
    BY <1>10, <1>11, <2>1
<1>13. u = TextOf(e, m, part, t.engine, t.retained)
  BY <1>8, <1>10, <1>11
<1>14. u.doc = e /\ u.caret = m /\ u.comp = part /\ u.engine = t.engine /\ u.retained = t.retained
  BY <1>13, FieldsOf
<1>15. u \in TextType(N)
  BY <1>5, <1>9, <1>12, <1>13, TypeOfText
<1> QED
  BY <1>0, <1>1, <1>2, <1>3, <1>4, <1>9, <1>12, <1>14, <1>15 DEF ShownAs

LEMMA ClearedIsShown ==
  ASSUME NEW t, NEW c
  PROVE  ClearRange(t, c) = Shown(t, c, <<>>)
  BY Len(<<>>) = 0 DEF ClearRange, Shown

(* The retained text written over a range of field c. *)
WrittenAs(u, t, N, c, from, len, inside) ==
  /\ u \in TextType(N)
  /\ u.doc[c] = Replaced(t.doc[c], from, len, t.retained.commit)
  /\ Len(u.doc[c]) = Len(t.doc[c]) - len + Len(t.retained.commit)
  /\ u.caret[c] <= Len(u.doc[c])
  /\ ~(from < u.caret[c] /\ u.caret[c] < from + Len(t.retained.commit))
  /\ \A d \in Contexts \ {c} : u.doc[d] = t.doc[d] /\ u.caret[d] = t.caret[d]
  /\ u.comp.context = t.comp.context /\ u.comp.from = t.comp.from
  /\ u.comp.len = (IF inside THEN Len(t.retained.commit) ELSE t.comp.len)
  /\ u.retained.context = t.retained.context
  /\ u.retained.commit = t.retained.commit /\ u.retained.view = t.retained.view
  /\ u.retained.written = TRUE /\ u.retained.at = from + Len(t.retained.commit)
  /\ u.retained.caretSet = t.retained.caretSet
  /\ u.retained.needsEnd = t.retained.needsEnd
  /\ u.engine = t.engine

LEMMA WrittenFields ==
  ASSUME NEW N, NEW t \in TextType(N), NEW c \in Contexts, NEW from \in Nat, NEW len \in Nat,
         from + len <= Len(t.doc[c]), t.caret[c] <= Len(t.doc[c]), NEW inside
  PROVE  WrittenAs(Written(t, c, from, len, inside), t, N, c, from, len, inside)
<1>0. PICK u : u = Written(t, c, from, len, inside)
  OBVIOUS
<1>1. PICK doc : doc = t.doc
  OBVIOUS
<1>2. PICK caret : caret = t.caret
  OBVIOUS
<1>3. PICK new : new = t.retained.commit
  OBVIOUS
<1>4. /\ doc \in Docs(N) /\ caret \in Carets /\ new \in Seq(N)
      /\ t.comp.from \in Nat /\ t.comp.len \in Nat /\ t.comp.context \in Fields
      /\ t.engine \in Seq(N) /\ t.retained.context \in Fields /\ t.retained.view \in Seq(N)
      /\ t.retained.caretSet \in BOOLEAN /\ t.retained.needsEnd \in BOOLEAN
  BY <1>1, <1>2, <1>3, TextFields
<1>5. from + len <= Len(doc[c]) /\ caret[c] <= Len(doc[c])
  BY <1>1, <1>2
<1>6. PICK part : part = PartOf(t.comp.context, t.comp.from, IF inside THEN Len(new) ELSE t.comp.len)
  OBVIOUS
<1>7. PICK result : result = ResultOf(t.retained.context, new, t.retained.view, TRUE,
                              t.retained.caretSet, t.retained.needsEnd, from + Len(new))
  OBVIOUS
<1>8. u = TextOf(Edited(doc, c, from, len, new), Moved(caret, c, from, len, new),
                 part, t.engine, result)
  BY <1>0, <1>1, <1>2, <1>3, <1>6, <1>7, WrittenIs, ZenonT(60)
<1>9. Len(new) \in Nat
  BY <1>4
<1>10. /\ part \in CompositionType
       /\ part.context = t.comp.context /\ part.from = t.comp.from
       /\ part.len = IF inside THEN Len(new) ELSE t.comp.len
  BY <1>4, <1>6, <1>9 DEF PartOf, CompositionType
<1>11. /\ result.context = t.retained.context /\ result.commit = new
       /\ result.view = t.retained.view /\ result.written = TRUE
       /\ result.caretSet = t.retained.caretSet /\ result.needsEnd = t.retained.needsEnd
       /\ result.at = from + Len(new)
  BY <1>7 DEF ResultOf
<1>12. result \in ResultType(N)
  BY <1>4, <1>7, <1>9 DEF ResultOf, ResultType
<1>13. PICK e : e = Edited(doc, c, from, len, new)
  OBVIOUS
<1>14. PICK m : m = Moved(caret, c, from, len, new)
  OBVIOUS
<1>15. /\ e \in Docs(N) /\ m \in Carets
       /\ e[c] = Replaced(doc[c], from, len, new)
       /\ Len(e[c]) = Len(doc[c]) - len + Len(new)
       /\ m[c] <= Len(e[c])
       /\ ~(from < m[c] /\ m[c] < from + Len(new))
       /\ \A d \in Contexts \ {c} : e[d] = doc[d] /\ m[d] = caret[d]
  <2>1. /\ Edited(doc, c, from, len, new) \in Docs(N)
        /\ Moved(caret, c, from, len, new) \in Carets
        /\ Edited(doc, c, from, len, new)[c] = Replaced(doc[c], from, len, new)
        /\ Len(Edited(doc, c, from, len, new)[c]) = Len(doc[c]) - len + Len(new)
        /\ Moved(caret, c, from, len, new)[c] <= Len(Edited(doc, c, from, len, new)[c])
        /\ ~(from < Moved(caret, c, from, len, new)[c]
             /\ Moved(caret, c, from, len, new)[c] < from + Len(new))
        /\ \A d \in Contexts \ {c} : /\ Edited(doc, c, from, len, new)[d] = doc[d]
                                     /\ Moved(caret, c, from, len, new)[d] = caret[d]
    BY <1>4, <1>5, EditPlaces, SMTT(20)
  <2> QED
    BY <1>13, <1>14, <2>1
<1>16. u = TextOf(e, m, part, t.engine, result)
  BY <1>8, <1>13, <1>14
<1>17. u.doc = e /\ u.caret = m /\ u.comp = part /\ u.engine = t.engine /\ u.retained = result
  BY <1>16, FieldsOf
<1>18. u \in TextType(N)
  BY <1>4, <1>10, <1>12, <1>15, <1>16, TypeOfText
<1> QED
  BY <1>0, <1>1, <1>2, <1>3, <1>10, <1>11, <1>15, <1>17, <1>18 DEF WrittenAs
-----------------------------------------------------------------------------
(* One part of the text record exchanged, the others as they were.          *)
LEMMA CompSet ==
  ASSUME NEW N, NEW t \in TextType(N), NEW comp \in CompositionType,
         NEW u, u = [t EXCEPT !.comp = comp]
  PROVE  /\ u \in TextType(N) /\ u.comp = comp
         /\ u.doc = t.doc /\ u.caret = t.caret /\ u.engine = t.engine
         /\ u.retained = t.retained
<1>1. u = TextOf(t.doc, t.caret, comp, t.engine, t.retained)
  BY TextIs, FieldsOf
<1>2. u \in TextType(N)
  BY <1>1, TextFields DEF TextOf, TextType
<1> QED
  BY <1>1, <1>2, FieldsOf

LEMMA EngineSet ==
  ASSUME NEW N, NEW t \in TextType(N), NEW engine \in Seq(N),
         NEW u, u = [t EXCEPT !.engine = engine]
  PROVE  /\ u \in TextType(N) /\ u.engine = engine
         /\ u.doc = t.doc /\ u.caret = t.caret /\ u.comp = t.comp
         /\ u.retained = t.retained
<1>1. u = TextOf(t.doc, t.caret, t.comp, engine, t.retained)
  BY TextIs, FieldsOf
<1>2. u \in TextType(N)
  BY <1>1, TextFields DEF TextOf, TextType
<1> QED
  BY <1>1, <1>2, FieldsOf

LEMMA RetainedSet ==
  ASSUME NEW N, NEW t \in TextType(N), NEW result \in ResultType(N),
         NEW u, u = [t EXCEPT !.retained = result]
  PROVE  /\ u \in TextType(N) /\ u.retained = result
         /\ u.doc = t.doc /\ u.caret = t.caret /\ u.comp = t.comp
         /\ u.engine = t.engine
<1>1. u = TextOf(t.doc, t.caret, t.comp, t.engine, result)
  BY TextIs, FieldsOf
<1>2. u \in TextType(N)
  BY <1>1, TextFields DEF TextOf, TextType
<1> QED
  BY <1>1, <1>2, FieldsOf

LEMMA CaretsSet ==
  ASSUME NEW N, NEW t \in TextType(N), NEW caret \in Carets,
         NEW u, u = [t EXCEPT !.caret = caret]
  PROVE  /\ u \in TextType(N) /\ u.caret = caret
         /\ u.doc = t.doc /\ u.comp = t.comp /\ u.engine = t.engine
         /\ u.retained = t.retained
<1>1. u = TextOf(t.doc, caret, t.comp, t.engine, t.retained)
  BY TextIs, FieldsOf
<1>2. u \in TextType(N)
  BY <1>1, TextFields DEF TextOf, TextType
<1> QED
  BY <1>1, <1>2, FieldsOf

LEMMA OneCaretSet ==
  ASSUME NEW N, NEW t \in TextType(N), NEW c \in Contexts, NEW k \in Nat,
         NEW u, u = [t EXCEPT !.caret[c] = k]
  PROVE  /\ u \in TextType(N) /\ u.caret[c] = k
         /\ \A d \in Contexts \ {c} : u.caret[d] = t.caret[d]
         /\ u.doc = t.doc /\ u.comp = t.comp /\ u.engine = t.engine
         /\ u.retained = t.retained
<1>1. PICK caret : caret = [t.caret EXCEPT ![c] = k]
  OBVIOUS
<1>2. /\ caret \in Carets /\ caret[c] = k
      /\ \A d \in Contexts \ {c} : caret[d] = t.caret[d]
  BY <1>1, TextFields DEF Carets
<1>3. u = [t EXCEPT !.caret = caret]
  BY <1>1
<1>4. u = TextOf(t.doc, caret, t.comp, t.engine, t.retained)
  BY <1>3, TextIs, FieldsOf
<1>5. u \in TextType(N)
  BY <1>2, <1>4, TextFields DEF TextOf, TextType
<1>6. /\ u.doc = t.doc /\ u.caret = caret /\ u.comp = t.comp /\ u.engine = t.engine
      /\ u.retained = t.retained
  BY <1>4 DEF TextOf
<1> QED
  BY <1>2, <1>5, <1>6

(* A mark of the retained result set: needsEnd, written, caretSet. *)
WithEnd(t, e) == [t EXCEPT !.retained.needsEnd = e]
WithWritten(t) == [t EXCEPT !.retained.written = TRUE]
WithCaretSet(t) == [t EXCEPT !.retained.caretSet = TRUE]
MarkedAs(u, t, N, written, caretSet, needsEnd) ==
  /\ u \in TextType(N)
  /\ u.doc = t.doc /\ u.caret = t.caret /\ u.comp = t.comp /\ u.engine = t.engine
  /\ u.retained.context = t.retained.context /\ u.retained.commit = t.retained.commit
  /\ u.retained.view = t.retained.view /\ u.retained.at = t.retained.at
  /\ u.retained.written = written /\ u.retained.caretSet = caretSet
  /\ u.retained.needsEnd = needsEnd

LEMMA EndMarked ==
  ASSUME NEW N, NEW t \in TextType(N), NEW e \in BOOLEAN
  PROVE  MarkedAs(WithEnd(t, e), t, N, t.retained.written, t.retained.caretSet, e)
<1>0. PICK u : u = WithEnd(t, e)
  OBVIOUS
<1>1. PICK result : result = [t.retained EXCEPT !.needsEnd = e]
  OBVIOUS
<1>2. result \in ResultType(N)
  BY <1>1, TextFields DEF ResultType
<1>3. /\ result.context = t.retained.context /\ result.commit = t.retained.commit
      /\ result.view = t.retained.view /\ result.written = t.retained.written
      /\ result.caretSet = t.retained.caretSet /\ result.needsEnd = e
      /\ result.at = t.retained.at
  BY <1>1, TextFields DEF ResultType
<1>4. u = [t EXCEPT !.retained = result]
  BY <1>0, <1>1 DEF WithEnd
<1>5. u = TextOf(t.doc, t.caret, t.comp, t.engine, result)
  <2>1. \A x : [t EXCEPT !.retained = x] = TextOf(t.doc, t.caret, t.comp, t.engine, x)
    BY TextIs, FieldsOf
  <2> QED
    BY <1>4, <2>1, Zenon
<1>6. u \in TextType(N)
  BY <1>2, <1>5, TextFields DEF TextOf, TextType
<1>7. /\ u.doc = t.doc /\ u.caret = t.caret /\ u.comp = t.comp /\ u.engine = t.engine
      /\ u.retained = result
  BY <1>5 DEF TextOf
<1> QED
  BY <1>0, <1>3, <1>6, <1>7 DEF MarkedAs

LEMMA WriteMarked ==
  ASSUME NEW N, NEW t \in TextType(N)
  PROVE  MarkedAs(WithWritten(t), t, N, TRUE, t.retained.caretSet, t.retained.needsEnd)
<1>0. PICK u : u = WithWritten(t)
  OBVIOUS
<1>1. PICK result : result = [t.retained EXCEPT !.written = TRUE]
  OBVIOUS
<1>2. result \in ResultType(N)
  BY <1>1, TextFields DEF ResultType
<1>3. /\ result.context = t.retained.context /\ result.commit = t.retained.commit
      /\ result.view = t.retained.view /\ result.written = TRUE
      /\ result.caretSet = t.retained.caretSet
      /\ result.needsEnd = t.retained.needsEnd /\ result.at = t.retained.at
  BY <1>1, TextFields DEF ResultType
<1>4. u = [t EXCEPT !.retained = result]
  BY <1>0, <1>1 DEF WithWritten
<1>5. u = TextOf(t.doc, t.caret, t.comp, t.engine, result)
  <2>1. \A x : [t EXCEPT !.retained = x] = TextOf(t.doc, t.caret, t.comp, t.engine, x)
    BY TextIs, FieldsOf
  <2> QED
    BY <1>4, <2>1, Zenon
<1>6. u \in TextType(N)
  BY <1>2, <1>5, TextFields DEF TextOf, TextType
<1>7. /\ u.doc = t.doc /\ u.caret = t.caret /\ u.comp = t.comp /\ u.engine = t.engine
      /\ u.retained = result
  BY <1>5 DEF TextOf
<1> QED
  BY <1>0, <1>3, <1>6, <1>7 DEF MarkedAs

LEMMA CaretMarked ==
  ASSUME NEW N, NEW t \in TextType(N)
  PROVE  MarkedAs(WithCaretSet(t), t, N, t.retained.written, TRUE, t.retained.needsEnd)
<1>0. PICK u : u = WithCaretSet(t)
  OBVIOUS
<1>1. PICK result : result = [t.retained EXCEPT !.caretSet = TRUE]
  OBVIOUS
<1>2. result \in ResultType(N)
  BY <1>1, TextFields DEF ResultType
<1>3. /\ result.context = t.retained.context /\ result.commit = t.retained.commit
      /\ result.view = t.retained.view /\ result.written = t.retained.written
      /\ result.caretSet = TRUE
      /\ result.needsEnd = t.retained.needsEnd /\ result.at = t.retained.at
  BY <1>1, TextFields DEF ResultType
<1>4. u = [t EXCEPT !.retained = result]
  BY <1>0, <1>1 DEF WithCaretSet
<1>5. u = TextOf(t.doc, t.caret, t.comp, t.engine, result)
  <2>1. \A x : [t EXCEPT !.retained = x] = TextOf(t.doc, t.caret, t.comp, t.engine, x)
    BY TextIs, FieldsOf
  <2> QED
    BY <1>4, <2>1, Zenon
<1>6. u \in TextType(N)
  BY <1>2, <1>5, TextFields DEF TextOf, TextType
<1>7. /\ u.doc = t.doc /\ u.caret = t.caret /\ u.comp = t.comp /\ u.engine = t.engine
      /\ u.retained = result
  BY <1>5 DEF TextOf
<1> QED
  BY <1>0, <1>3, <1>6, <1>7 DEF MarkedAs
-----------------------------------------------------------------------------
(* Carets and the composition lie in the text, no caret inside the          *)
(* composition, and what a write has left to do is to put the caret behind  *)
(* it: at the end of the composition, if it went there.                     *)
PlacedCarets(t) == \A c \in Contexts : t.caret[c] <= Len(t.doc[c])
PlacedComposition(t) ==
  /\ t.comp.context = NoContext => t.comp = NoComposition
  /\ t.comp.context # NoContext =>
       /\ t.comp.from + t.comp.len <= Len(t.doc[t.comp.context])
       /\ ~(/\ t.comp.from < t.caret[t.comp.context]
            /\ t.caret[t.comp.context] < t.comp.from + t.comp.len)
Unwritten(t) == Retaining(t) /\ t.retained.commit # <<>> /\ t.retained.caretSet = FALSE
PlacedWrite(t) ==
  Unwritten(t) /\ t.retained.written = TRUE =>
    /\ t.retained.at <= Len(t.doc[t.retained.context])
    /\ t.comp.context = t.retained.context =>
         /\ t.retained.needsEnd = TRUE /\ t.comp.len # 0
         /\ t.retained.at = t.comp.from + t.comp.len
Fits(t, N) == /\ t \in TextType(N)
              /\ PlacedCarets(t) /\ PlacedComposition(t) /\ PlacedWrite(t)

(* A result of a stage; once the caret is set, the write is settled. *)
Sound(r, N) == r.ok \in BOOLEAN /\ Fits(r.text, N)
Steady(r, N) == Sound(r, N) /\ (r.ok => ~Unwritten(r.text))

LEMMA OkAndFailed ==
  ASSUME NEW t
  PROVE  /\ Ok(t).ok /\ Ok(t).text = t /\ ~Failed(t).ok /\ Failed(t).text = t
         /\ Ok(t).ok \in BOOLEAN /\ Failed(t).ok \in BOOLEAN
  BY DEF Ok, Failed

LEMMA SoundResults ==
  ASSUME NEW N, NEW t, Fits(t, N)
  PROVE  Sound(Ok(t), N) /\ Steady(Failed(t), N) /\ (~Unwritten(t) => Steady(Ok(t), N))
  BY OkAndFailed DEF Sound, Steady

LEMMA StartFits ==
  ASSUME NEW N, NEW r, Steady(r, N), NEW c \in Contexts, NEW fault
  PROVE  /\ Steady(Start(r, c, fault), N)
         /\ Start(r, c, fault).ok => r.ok /\ Composing(Start(r, c, fault).text, c)
         /\ Start(r, c, fault).text.retained = r.text.retained
<1>1. CASE ~r.ok \/ Composing(r.text, c)
  BY <1>1 DEF Start
<1>2. CASE r.ok /\ ~Composing(r.text, c) /\ (r.text.comp.context # NoContext \/ fault = "start")
  <2>1. Start(r, c, fault) = Failed(r.text)
    BY <1>2 DEF Start
  <2> QED
    BY <2>1, OkAndFailed, SoundResults DEF Steady, Sound
<1>3. CASE r.ok /\ ~Composing(r.text, c) /\ ~(r.text.comp.context # NoContext \/ fault = "start")
  <2>1. PICK t : t = r.text
    OBVIOUS
  <2>2. PICK comp : comp = [context |-> c, from |-> t.caret[c], len |-> 0]
    OBVIOUS
  <2>3. PICK u : u = [t EXCEPT !.comp = comp]
    OBVIOUS
  <2>4. Start(r, c, fault) = Ok(u)
    BY <1>3, <2>1, <2>2, <2>3, Zenon DEF Start
  <2>5. t \in TextType(N) /\ Fits(t, N) /\ ~Unwritten(t)
    BY <1>3, <2>1 DEF Steady, Sound, Fits
  <2>6. t.caret[c] \in Nat /\ t.caret[c] <= Len(t.doc[c])
    BY <2>5, TextFields DEF Carets, Fits, PlacedCarets
  <2>7. /\ comp \in CompositionType
        /\ comp.context = c /\ comp.from = t.caret[c] /\ comp.len = 0
    BY <2>2, <2>6 DEF CompositionType, Fields
  <2>8. /\ u \in TextType(N) /\ u.comp = comp
        /\ u.doc = t.doc /\ u.caret = t.caret /\ u.engine = t.engine
        /\ u.retained = t.retained
    BY <2>3, <2>5, <2>7, CompSet
  <2>9. ~Unwritten(u)
    BY <2>5, <2>8 DEF Unwritten, Retaining
  <2>10. PlacedCarets(u)
    BY <2>5, <2>8 DEF Fits, PlacedCarets
  <2>11. PlacedComposition(u)
    BY <2>6, <2>7, <2>8, NoContextAssumption DEF PlacedComposition
  <2>12. Fits(u, N)
    BY <2>8, <2>9, <2>10, <2>11 DEF Fits, PlacedWrite
  <2> QED
    BY <1>3, <2>1, <2>4, <2>7, <2>8, <2>9, <2>12, OkAndFailed, SoundResults DEF Composing
<1>4. r.ok \in BOOLEAN
  BY DEF Steady, Sound
<1> QED
  BY <1>1, <1>2, <1>3, <1>4

LEMMA CompDroppedFits ==
  ASSUME NEW N, NEW t, Fits(t, N), NEW u, u = [t EXCEPT !.comp = NoComposition]
  PROVE  /\ Fits(u, N) /\ u.comp = NoComposition /\ u.retained = t.retained
         /\ u.engine = t.engine /\ u.doc = t.doc /\ u.caret = t.caret
<1>1. t \in TextType(N)
  BY DEF Fits
<1>2. /\ u \in TextType(N) /\ u.comp = NoComposition
      /\ u.doc = t.doc /\ u.caret = t.caret /\ u.engine = t.engine
      /\ u.retained = t.retained
  BY <1>1, NothingTyped, CompSet
<1>3. PlacedCarets(u) /\ PlacedComposition(u) /\ PlacedWrite(u)
  BY <1>2, NothingTyped DEF Fits, PlacedCarets, PlacedComposition, PlacedWrite, Unwritten, Retaining
<1> QED
  BY <1>2, <1>3 DEF Fits

LEMMA EndRangeFits ==
  ASSUME NEW N, NEW t, Fits(t, N), ~Unwritten(t), NEW fault
  PROVE  /\ Steady(EndRange(t, fault), N)
         /\ EndRange(t, fault).text.retained = t.retained
         /\ EndRange(t, fault).ok => EndRange(t, fault).text.comp = NoComposition
<1>1. CASE fault = "end"
  <2>1. EndRange(t, fault) = Failed(t)
    BY <1>1 DEF EndRange
  <2> QED
    BY <2>1, OkAndFailed, SoundResults
<1>2. CASE fault # "end"
  <2>1. PICK u : u = [t EXCEPT !.comp = NoComposition]
    OBVIOUS
  <2>2. EndRange(t, fault) = Ok(u)
    BY <1>2, <2>1, Zenon DEF EndRange
  <2>3. /\ Fits(u, N) /\ u.comp = NoComposition /\ u.retained = t.retained
    BY <2>1, CompDroppedFits
  <2>4. ~Unwritten(u)
    BY <2>3 DEF Unwritten, Retaining
  <2> QED
    BY <2>2, <2>3, <2>4, OkAndFailed, SoundResults
<1> QED
  BY <1>1, <1>2
-----------------------------------------------------------------------------
(* replaceCompositionText, endComposition and the end of retryInputResult   *)
(* leave everything in its place.                                           *)
LEMMA ShownFits ==
  ASSUME NEW N, NEW t, Fits(t, N), ~Unwritten(t), NEW c \in Contexts, Composing(t, c),
         NEW new \in Seq(N)
  PROVE  /\ Fits(Shown(t, c, new), N) /\ ~Unwritten(Shown(t, c, new))
         /\ Composing(Shown(t, c, new), c)
         /\ Shown(t, c, new).retained = t.retained
         /\ Shown(t, c, new).engine = t.engine
<1>1. PICK u : u = Shown(t, c, new)
  OBVIOUS
<1>2. t \in TextType(N) /\ t.comp.context = c
  BY DEF Fits, Composing
<1>3. t.comp.from + t.comp.len <= Len(t.doc[c]) /\ t.caret[c] <= Len(t.doc[c])
  BY <1>2, NoContextAssumption DEF Fits, PlacedComposition, PlacedCarets
<1>4. ShownAs(u, t, N, c, new)
  BY <1>1, <1>2, <1>3, ShownFields
<1>5. PlacedCarets(u)
  BY <1>4 DEF ShownAs, Fits, PlacedCarets
<1>6. PlacedComposition(u)
  <2>1. t.comp.from \in Nat /\ t.comp.len \in Nat /\ Len(new) \in Nat /\ t.doc[c] \in Seq(N)
    BY <1>2, TextFields DEF Docs
  <2>2. u.comp.context = c /\ u.comp.context # NoContext
    BY <1>2, <1>4, NoContextAssumption DEF ShownAs
  <2>3. u.comp.from + u.comp.len <= Len(u.doc[c])
    BY <1>3, <1>4, <2>1, SMTT(20) DEF ShownAs
  <2>4. ~(u.comp.from < u.caret[c] /\ u.caret[c] < u.comp.from + u.comp.len)
    BY <1>4 DEF ShownAs
  <2> QED
    BY <2>2, <2>3, <2>4 DEF PlacedComposition
<1>7. ~Unwritten(u)
  BY <1>4 DEF ShownAs, Unwritten, Retaining
<1> QED
  BY <1>1, <1>2, <1>4, <1>5, <1>6, <1>7 DEF ShownAs, Fits, PlacedWrite, Composing

LEMMA EndFits ==
  ASSUME NEW N, NEW r, Steady(r, N), NEW c \in Contexts, NEW clear \in BOOLEAN, NEW fault
  PROVE  /\ Steady(End(r, c, clear, fault), N)
         /\ End(r, c, clear, fault).ok => r.ok
         /\ End(r, c, clear, fault).text.retained = r.text.retained
         /\ End(r, c, clear, fault).ok => End(r, c, clear, fault).text.comp.context # c
<1>1. CASE ~r.ok \/ ~Composing(r.text, c)
  <2>1. End(r, c, clear, fault) = r
    BY <1>1 DEF End
  <2> QED
    BY <1>1, <2>1 DEF Composing
<1>2. CASE r.ok /\ Composing(r.text, c)
  <2>1. PICK t : t = IF clear THEN ClearRange(r.text, c) ELSE r.text
    OBVIOUS
  <2>2. End(r, c, clear, fault) = EndRange(t, fault)
    BY <1>2, <2>1, Zenon DEF End
  <2>3. Fits(r.text, N) /\ ~Unwritten(r.text)
    BY <1>2 DEF Steady, Sound
  <2>4. Fits(t, N) /\ ~Unwritten(t) /\ t.retained = r.text.retained
    <3>1. CASE clear
      <4>3. PICK e : e = <<>>
        OBVIOUS
      <4>4. e \in Seq(N)
        BY <4>3
      <4>1. t = Shown(r.text, c, e)
        BY <2>1, <3>1, <4>3, ClearedIsShown
      <4>2. /\ Fits(Shown(r.text, c, e), N) /\ ~Unwritten(Shown(r.text, c, e))
            /\ Shown(r.text, c, e).retained = r.text.retained
        BY <1>2, <2>3, <4>4, ShownFits
      <4> QED
        BY <4>1, <4>2
    <3> QED
      BY <2>1, <2>3, <3>1
  <2>5. /\ Steady(EndRange(t, fault), N)
        /\ EndRange(t, fault).text.retained = t.retained
        /\ EndRange(t, fault).ok => EndRange(t, fault).text.comp = NoComposition
    BY <2>4, EndRangeFits
  <2> QED
    BY <1>2, <2>2, <2>4, <2>5, NothingTyped, NoContextAssumption
<1> QED
  BY <1>1, <1>2 DEF Steady, Sound

LEMMA CaretBehindFits ==
  ASSUME NEW N, NEW t, Fits(t, N), ~Unwritten(t), NEW c \in Contexts, Composing(t, c), NEW fault
  PROVE  /\ Steady(CaretBehind(t, c, fault), N)
         /\ CaretBehind(t, c, fault).text.retained = t.retained
<1>1. CASE fault = "select"
  <2>1. CaretBehind(t, c, fault) = Failed(t)
    BY <1>1 DEF CaretBehind
  <2> QED
    BY <2>1, OkAndFailed, SoundResults
<1>2. CASE fault # "select"
  <2>1. PICK k : k = t.comp.from + t.comp.len
    OBVIOUS
  <2>2. PICK u : u = [t EXCEPT !.caret[c] = k]
    OBVIOUS
  <2>3. CaretBehind(t, c, fault) = Ok(u)
    BY <1>2, <2>1, <2>2, Zenon DEF CaretBehind
  <2>4. t \in TextType(N) /\ t.comp.context = c
    BY DEF Fits, Composing
  <2>5. k \in Nat /\ k <= Len(t.doc[c])
    BY <2>1, <2>4, TextFields, NoContextAssumption DEF Fits, PlacedComposition
  <2>6. /\ u \in TextType(N) /\ u.caret[c] = k
        /\ \A d \in Contexts \ {c} : u.caret[d] = t.caret[d]
        /\ u.doc = t.doc /\ u.comp = t.comp /\ u.engine = t.engine
        /\ u.retained = t.retained
    <3>1. t \in TextType(N) /\ k \in Nat
      BY <2>4, <2>5
    <3> QED
      BY <2>2, <3>1, OneCaretSet
  <2>7. PlacedCarets(u)
    BY <2>5, <2>6 DEF Fits, PlacedCarets
  <2>8. PlacedComposition(u)
    BY <2>1, <2>4, <2>5, <2>6, NoContextAssumption DEF Fits, PlacedComposition
  <2>9. ~Unwritten(u)
    BY <2>6 DEF Unwritten, Retaining
  <2>10. Fits(u, N)
    BY <2>6, <2>7, <2>8, <2>9 DEF Fits, PlacedWrite
  <2> QED
    BY <2>3, <2>6, <2>9, <2>10, OkAndFailed, SoundResults
<1> QED
  BY <1>1, <1>2

Follows(x, r, N) ==
  Steady(x, N) /\ (x.ok => r.ok) /\ x.text.retained = r.text.retained
At(r, c) == r.ok => Composing(r.text, c)

LEMMA ShowViewFits ==
  ASSUME NEW N, NEW r, Steady(r, N), NEW c \in Contexts, At(r, c), NEW fault
  PROVE  Follows(ShowView(r, c, fault), r, N)
<1>1. CASE ~r.ok
  BY <1>1 DEF ShowView, Follows
<1>2. CASE r.ok /\ fault = "view"
  <2>1. ShowView(r, c, fault) = Failed(r.text)
    BY <1>2 DEF ShowView
  <2> QED
    BY <1>2, <2>1, OkAndFailed, SoundResults DEF Steady, Sound, Follows
<1>3. CASE r.ok /\ fault # "view"
  <2>1. PICK t : t = r.text
    OBVIOUS
  <2>2. PICK new : new = t.retained.view
    OBVIOUS
  <2>3. PICK u : u = Shown(t, c, new)
    OBVIOUS
  <2>4. ShowView(r, c, fault) = CaretBehind(u, c, fault)
    BY <1>3, <2>1, <2>2, <2>3, Zenon DEF ShowView
  <2>5. Fits(t, N) /\ ~Unwritten(t) /\ Composing(t, c)
    BY <1>3, <2>1 DEF Steady, Sound, At
  <2>6. new \in Seq(N)
    BY <2>2, <2>5, TextFields DEF Fits
  <2>7. /\ Fits(u, N) /\ ~Unwritten(u) /\ Composing(u, c) /\ u.retained = t.retained
    BY <2>3, <2>5, <2>6, ShownFits
  <2>8. /\ Steady(CaretBehind(u, c, fault), N)
        /\ CaretBehind(u, c, fault).text.retained = u.retained
    BY <2>7, CaretBehindFits
  <2> QED
    BY <1>3, <2>1, <2>4, <2>7, <2>8 DEF Follows
<1> QED
  BY <1>1, <1>2, <1>3 DEF Steady, Sound

LEMMA ViewFits ==
  ASSUME NEW N, NEW r, Steady(r, N), NEW c \in Contexts, NEW fault
  PROVE  Follows(View(r, c, fault), r, N)
<1>1. CASE ~r.ok
  BY <1>1 DEF View, Follows
<1>2. CASE r.ok /\ r.text.retained.view # <<>>
  <2>1. PICK s : s = Start(r, c, fault)
    OBVIOUS
  <2>2. View(r, c, fault) = ShowView(s, c, fault)
    BY <1>2, <2>1, Zenon DEF View
  <2>3. Steady(s, N) /\ s.text.retained = r.text.retained
    BY <2>1, StartFits
  <2>5. At(s, c)
    BY <2>1, StartFits DEF At
  <2>4. Follows(ShowView(s, c, fault), s, N)
    BY <2>3, <2>5, ShowViewFits
  <2> QED
    BY <1>2, <2>2, <2>3, <2>4 DEF Follows
<1>3. CASE r.ok /\ r.text.retained.view = <<>> /\ r.text.retained.commit = <<>>
  <2>1. PICK clear : clear = TRUE
    OBVIOUS
  <2>2. View(r, c, fault) = End(r, c, clear, fault)
    BY <1>3, <2>1 DEF View
  <2>3. clear \in BOOLEAN
    BY <2>1
  <2> QED
    BY <1>3, <2>2, <2>3, EndFits DEF Follows
<1>4. CASE r.ok /\ r.text.retained.view = <<>> /\ r.text.retained.commit # <<>>
  BY <1>4 DEF View, Follows
<1> QED
  BY <1>1, <1>2, <1>3, <1>4 DEF Steady, Sound
-----------------------------------------------------------------------------
(* What is retained belongs to field c. *)
Of(r, c) == r.ok => r.text.retained.context = c

(* Where a write goes: over the composition of the field, or at its caret.  *)
WriteSpot(t, c, from, len, inside) ==
  /\ inside \in BOOLEAN /\ (inside <=> Composing(t, c))
  /\ t.retained.context = c /\ t.retained.commit # <<>> /\ t.retained.needsEnd = inside
  /\ inside => from = t.comp.from /\ len = t.comp.len
  /\ ~inside => from = t.caret[c] /\ len = 0
WriteDone(u, c, N) ==
  Fits(u, N) /\ u.retained.context = c /\ u.retained.written = TRUE

LEMMA WrittenFits ==
  ASSUME NEW N, NEW t, Fits(t, N), NEW c \in Contexts, NEW from, NEW len, NEW inside,
         WriteSpot(t, c, from, len, inside)
  PROVE  WriteDone(Written(t, c, from, len, inside), c, N)
<1>0. /\ inside \in BOOLEAN /\ (inside <=> Composing(t, c))
      /\ t.retained.context = c /\ t.retained.commit # <<>> /\ t.retained.needsEnd = inside
      /\ inside => from = t.comp.from /\ len = t.comp.len
      /\ ~inside => from = t.caret[c] /\ len = 0
  BY DEF WriteSpot
<1>1. PICK u : u = Written(t, c, from, len, inside)
  OBVIOUS
<1>2. PICK new : new = t.retained.commit
  OBVIOUS
<1>3. /\ t \in TextType(N) /\ t.comp.from \in Nat /\ t.comp.len \in Nat
      /\ t.caret[c] \in Nat /\ t.doc[c] \in Seq(N) /\ new \in Seq(N)
  BY <1>2, TextFields DEF Fits, Docs, Carets
<1>4. from \in Nat /\ len \in Nat
  BY <1>0, <1>3
<1>5. t.caret[c] <= Len(t.doc[c]) /\ from + len <= Len(t.doc[c])
  <2>1. t.caret[c] <= Len(t.doc[c])
    BY DEF Fits, PlacedCarets
  <2>2. CASE inside
    BY <1>0, <2>1, <2>2, NoContextAssumption DEF Fits, PlacedComposition, Composing
  <2>3. CASE ~inside
    BY <1>0, <1>3, <2>1, <2>3
  <2> QED
    BY <2>1, <2>2, <2>3
<1>6. WrittenAs(u, t, N, c, from, len, inside)
  <2>1. t \in TextType(N)
    BY <1>3
  <2> QED
    BY <1>1, <1>4, <1>5, <2>1, WrittenFields
<1>11. PICK size : size = Len(t.doc[c])
  OBVIOUS
<1>12. PICK n : n = Len(new)
  OBVIOUS
<1>13. size \in Nat /\ n \in Nat /\ from + len <= size
  BY <1>3, <1>5, <1>11, <1>12
<1>7. Len(new) \in Nat /\ Len(new) # 0 /\ Len(t.doc[c]) \in Nat
  BY <1>0, <1>2, <1>3
<1>8. PlacedCarets(u)
  BY <1>6 DEF WrittenAs, Fits, PlacedCarets
<1>9. PlacedComposition(u)
  <2>1. CASE inside
    <3>1. u.comp.context = c /\ u.comp.context # NoContext
      BY <1>0, <1>6, <2>1, NoContextAssumption DEF WrittenAs, Composing
    <3>2. u.comp.from + u.comp.len <= Len(u.doc[c])
      <4>1. from = t.comp.from /\ len = t.comp.len
        BY <1>0, <2>1
      <4>2. Len(u.doc[c]) = Len(t.doc[c]) - len + Len(new)
        BY <1>2, <1>6 DEF WrittenAs
      <4>3. u.comp.from = from /\ u.comp.len = Len(new)
        BY <1>2, <1>6, <2>1, <4>1 DEF WrittenAs
      <4> QED
        BY <1>4, <1>11, <1>12, <1>13, <4>2, <4>3
    <3>3. ~(u.comp.from < u.caret[c] /\ u.caret[c] < u.comp.from + u.comp.len)
      BY <1>0, <1>6, <2>1 DEF WrittenAs
    <3> QED
      BY <3>1, <3>2, <3>3 DEF PlacedComposition
  <2>2. CASE ~inside
    <3>1. u.comp.context # c
      BY <1>0, <1>6, <2>2 DEF WrittenAs, Composing
    <3>2. u.comp = t.comp
      BY <1>3, <1>6, <2>2 DEF WrittenAs, TextType, CompositionType
    <3>3. u.comp.context # NoContext => u.comp.context \in Contexts \ {c}
      BY <1>3, <3>1, <3>2, TextFields DEF Fields
    <3> QED
      BY <1>6, <3>2, <3>3 DEF WrittenAs, Fits, PlacedComposition
  <2> QED
    BY <2>1, <2>2
<1>10. PlacedWrite(u)
  <2>1. u.retained.context = c /\ u.retained.at = from + Len(new)
    BY <1>0, <1>2, <1>6 DEF WrittenAs
  <2>2. u.retained.at <= Len(u.doc[c])
    <3>1. Len(u.doc[c]) = Len(t.doc[c]) - len + Len(new)
      BY <1>2, <1>6 DEF WrittenAs
    <3> QED
      BY <1>4, <1>11, <1>12, <1>13, <2>1, <3>1
  <2>3. u.comp.context = c => /\ u.retained.needsEnd = TRUE /\ u.comp.len # 0
                              /\ u.retained.at = u.comp.from + u.comp.len
    <3>1. u.comp.context = c => inside
      BY <1>0, <1>6 DEF WrittenAs, Composing
    <3> QED
      BY <1>0, <1>2, <1>6, <1>7, <2>1, <3>1 DEF WrittenAs
  <2> QED
    BY <2>1, <2>2, <2>3 DEF PlacedWrite
<1> QED
  BY <1>0, <1>1, <1>6, <1>8, <1>9, <1>10 DEF WrittenAs, WriteDone, Fits

LEMMA WriteFits ==
  ASSUME NEW N, NEW r, Sound(r, N), NEW c \in Contexts, Of(r, c), NEW fault
  PROVE  /\ Sound(Write(r, c, fault), N) /\ Of(Write(r, c, fault), c)
         /\ Write(r, c, fault).ok => r.ok /\ Write(r, c, fault).text.retained.written = TRUE
<1>1. CASE ~r.ok
  BY <1>1 DEF Write
<1>2. CASE r.ok /\ r.text.retained.written
  <2>1. r.text.retained.written \in BOOLEAN
    BY TextFields DEF Sound, Fits
  <2> QED
    BY <1>2, <2>1 DEF Write
<1>3. CASE r.ok /\ ~r.text.retained.written
  <2>1. PICK inside : inside = Inside(r.text, c)
    OBVIOUS
  <2>0. PICK before : before = r.text
    OBVIOUS
  <2>2. PICK t : t = WithEnd(before, inside)
    OBVIOUS
  <2>3. Write(r, c, fault) = WriteInto(t, c, inside, fault)
    BY <1>3, <2>0, <2>1, <2>2, Zenon DEF Write, WithEnd
  <2>4. inside \in BOOLEAN
    BY <2>1 DEF Inside, Composing
  <2>5. r.text \in TextType(N) /\ Fits(r.text, N)
    BY DEF Sound, Fits
  <2>6. MarkedAs(t, before, N, before.retained.written, before.retained.caretSet, inside)
    <3>1. before \in TextType(N)
      BY <2>0, <2>5
    <3> QED
      BY <2>2, <2>4, <3>1, EndMarked
  <2>7. Fits(t, N)
    <3>1. PlacedCarets(t) /\ PlacedComposition(t)
      BY <2>0, <2>5, <2>6 DEF MarkedAs, Fits, PlacedCarets, PlacedComposition
    <3>2. PlacedWrite(t)
      BY <1>3, <2>0, <2>6 DEF MarkedAs, PlacedWrite
    <3> QED
      BY <2>6, <3>1, <3>2 DEF MarkedAs, Fits
  <2>8. t.retained.context = c
    BY <1>3, <2>0, <2>6 DEF MarkedAs, Of
  <2>9. CASE t.retained.commit = <<>>
    <3>1. PICK u : u = WithWritten(t)
      OBVIOUS
    <3>2. WriteInto(t, c, inside, fault) = Ok(u)
      BY <2>9, <3>1, Zenon DEF WriteInto, WithWritten
    <3>3. MarkedAs(u, t, N, TRUE, t.retained.caretSet, t.retained.needsEnd)
      <4>1. t \in TextType(N)
        BY <2>6 DEF MarkedAs
      <4> QED
        BY <3>1, <4>1, WriteMarked
    <3>4. PlacedCarets(u) /\ PlacedComposition(u) /\ PlacedWrite(u)
      BY <2>7, <2>9, <3>3 DEF MarkedAs, Fits, PlacedCarets, PlacedComposition, PlacedWrite, Unwritten
    <3>5. Fits(u, N)
      BY <3>3, <3>4 DEF MarkedAs, Fits
    <3> QED
      BY <1>3, <2>3, <2>8, <3>2, <3>3, <3>5, OkAndFailed, SoundResults DEF MarkedAs, Of
  <2>10. CASE t.retained.commit # <<>> /\ fault = "write"
    <3>1. WriteInto(t, c, inside, fault) = Failed(t)
      BY <2>10, Zenon DEF WriteInto
    <3> QED
      BY <2>3, <2>7, <3>1, OkAndFailed, SoundResults DEF Of, Steady
  <2>11. CASE t.retained.commit # <<>> /\ fault # "write"
    <3>1. PICK from : from = IF inside THEN t.comp.from ELSE t.caret[c]
      OBVIOUS
    <3>2. PICK len : len = IF inside THEN t.comp.len ELSE 0
      OBVIOUS
    <3>3. PICK u : u = Written(t, c, from, len, inside)
      OBVIOUS
    <3>4. WriteInto(t, c, inside, fault) = Ok(u)
      <4>1. CASE inside
        <5>1. inside = TRUE
          BY <2>4, <4>1
        <5> QED
          BY <2>11, <3>1, <3>2, <3>3, <4>1, <5>1 DEF WriteInto
      <4>2. CASE ~inside
        <5>1. inside = FALSE
          BY <2>4, <4>2
        <5> QED
          BY <2>11, <3>1, <3>2, <3>3, <4>2, <5>1 DEF WriteInto
      <4> QED
        BY <4>1, <4>2
    <3>5. WriteSpot(t, c, from, len, inside)
      BY <2>0, <2>1, <2>4, <2>6, <2>8, <2>11, <3>1, <3>2 DEF MarkedAs, WriteSpot, Inside, Composing
    <3>6. WriteDone(u, c, N)
      BY <2>7, <3>3, <3>5, WrittenFits
    <3> QED
      BY <1>3, <2>3, <3>4, <3>6, OkAndFailed, SoundResults DEF Of, WriteDone
  <2> QED
    BY <2>9, <2>10, <2>11
<1>4. r.ok \in BOOLEAN
  BY DEF Sound
<1> QED
  BY <1>1, <1>2, <1>3, <1>4
-----------------------------------------------------------------------------
(* The caret behind the written text, the end of its composition, and       *)
(* retryInputResult as a whole.                                             *)
LEMMA SetCaretFits ==
  ASSUME NEW N, NEW r, Sound(r, N), NEW c \in Contexts, Of(r, c),
         r.ok => r.text.retained.written = TRUE, NEW fault
  PROVE  /\ Steady(SetCaret(r, c, fault), N) /\ Of(SetCaret(r, c, fault), c)
         /\ SetCaret(r, c, fault).ok => r.ok
<1>0. r.ok \in BOOLEAN /\ Fits(r.text, N) /\ r.text \in TextType(N)
  BY DEF Sound, Fits
<1>1. CASE ~r.ok \/ r.text.retained.commit = <<>> \/ r.text.retained.caretSet
  <2>1. SetCaret(r, c, fault) = r
    BY <1>1 DEF SetCaret
  <2>2. r.text.retained.caretSet \in BOOLEAN
    BY <1>0, TextFields
  <2> QED
    BY <1>1, <2>1, <2>2 DEF Steady, Unwritten
<1>2. CASE /\ ~(~r.ok \/ r.text.retained.commit = <<>> \/ r.text.retained.caretSet)
           /\ fault = "caret"
  <2>1. SetCaret(r, c, fault) = Failed(r.text)
    BY <1>2 DEF SetCaret
  <2> QED
    BY <1>0, <1>2, <2>1, OkAndFailed, SoundResults DEF Of
<1>3. CASE /\ ~(~r.ok \/ r.text.retained.commit = <<>> \/ r.text.retained.caretSet)
           /\ fault # "caret"
  <2>1. PICK t : t = r.text
    OBVIOUS
  <2>2. PICK at : at = t.retained.at
    OBVIOUS
  <2>3. PICK v : v = [t EXCEPT !.caret[c] = at]
    OBVIOUS
  <2>4. PICK u : u = WithCaretSet(v)
    OBVIOUS
  <2>5. SetCaret(r, c, fault) = Ok(u)
    BY <1>3, <2>1, <2>2, <2>3, <2>4, Zenon DEF SetCaret, WithCaretSet
  <2>6. Fits(t, N) /\ t.retained.context = c /\ t.retained.written = TRUE
    BY <1>0, <1>3, <2>1 DEF Of
  <2>7. t \in TextType(N) /\ at \in Nat
    BY <2>2, <2>6, TextFields DEF Fits
  <2>8. /\ v \in TextType(N) /\ v.caret[c] = at
        /\ \A d \in Contexts \ {c} : v.caret[d] = t.caret[d]
        /\ v.doc = t.doc /\ v.comp = t.comp /\ v.engine = t.engine
        /\ v.retained = t.retained
    BY <2>3, <2>7, OneCaretSet
  <2>9. MarkedAs(u, v, N, v.retained.written, TRUE, v.retained.needsEnd)
    <3>1. v \in TextType(N)
      BY <2>8
    <3> QED
      BY <2>4, <3>1, CaretMarked
  <2>10. /\ u \in TextType(N) /\ u.caret[c] = at
         /\ \A d \in Contexts \ {c} : u.caret[d] = t.caret[d]
         /\ u.doc = t.doc /\ u.comp = t.comp
         /\ u.retained.context = c /\ u.retained.caretSet = TRUE
    BY <2>6, <2>8, <2>9 DEF MarkedAs
  <2>11. Unwritten(t)
    BY <1>0, <1>3, <2>1, <2>6, TextFields, NoContextAssumption DEF Unwritten, Retaining
  <2>12. /\ at <= Len(t.doc[c])
         /\ t.comp.context = c => at = t.comp.from + t.comp.len
    BY <2>2, <2>6, <2>11 DEF Fits, PlacedWrite
  <2>13. PlacedCarets(u)
    BY <2>6, <2>10, <2>12 DEF Fits, PlacedCarets
  <2>14. PlacedComposition(u)
    <3>1. CASE t.comp.context = c
      <4>1. t.comp.from \in Nat /\ t.comp.len \in Nat
        BY <2>7, TextFields
      <4> QED
        BY <2>6, <2>10, <2>12, <3>1, <4>1, NoContextAssumption DEF Fits, PlacedComposition
    <3>2. CASE t.comp.context # c
      <4>1. t.comp.context # NoContext => t.comp.context \in Contexts \ {c}
        BY <2>7, <3>2, TextFields DEF Fields
      <4> QED
        BY <2>6, <2>10, <4>1 DEF Fits, PlacedComposition
    <3> QED
      BY <3>1, <3>2
  <2>15. ~Unwritten(u)
    BY <2>10 DEF Unwritten
  <2>16. Fits(u, N)
    BY <2>10, <2>13, <2>14, <2>15 DEF Fits, PlacedWrite
  <2> QED
    BY <1>3, <2>5, <2>10, <2>15, <2>16, OkAndFailed, SoundResults DEF Of
<1> QED
  BY <1>0, <1>1, <1>2, <1>3

LEMMA EndCommittedFits ==
  ASSUME NEW N, NEW r, Steady(r, N), NEW c \in Contexts, NEW fault
  PROVE  /\ Steady(EndCommitted(r, c, fault), N)
         /\ EndCommitted(r, c, fault).ok => r.ok
         /\ EndCommitted(r, c, fault).text.retained.context = r.text.retained.context
<1>1. CASE ~r.ok \/ ~r.text.retained.needsEnd
  BY <1>1 DEF EndCommitted
<1>2. CASE r.ok /\ r.text.retained.needsEnd
  <2>1. PICK clear : clear = FALSE
    OBVIOUS
  <2>2. PICK e : e = End(r, c, clear, fault)
    OBVIOUS
  <2>3. EndCommitted(r, c, fault) = Ended(e)
    BY <1>2, <2>1, <2>2 DEF EndCommitted
  <2>4. clear \in BOOLEAN
    BY <2>1
  <2>5. Steady(e, N) /\ e.text.retained = r.text.retained
    BY <2>2, <2>4, EndFits
  <2>6. CASE ~e.ok
    BY <1>2, <2>3, <2>5, <2>6 DEF Ended
  <2>7. CASE e.ok
    <3>1. PICK before : before = e.text
      OBVIOUS
    <3>2. PICK no : no = FALSE
      OBVIOUS
    <3>3. PICK u : u = WithEnd(before, no)
      OBVIOUS
    <3>4. Ended(e) = Ok(u)
      BY <2>7, <3>1, <3>2, <3>3, Zenon DEF Ended, WithEnd
    <3>5. Fits(before, N) /\ before \in TextType(N) /\ ~Unwritten(before) /\ no \in BOOLEAN
      BY <2>5, <2>7, <3>1, <3>2 DEF Steady, Sound, Fits
    <3>6. MarkedAs(u, before, N, before.retained.written, before.retained.caretSet, no)
      BY <3>3, <3>5, EndMarked
    <3>7. ~Unwritten(u)
      BY <3>5, <3>6 DEF MarkedAs, Unwritten, Retaining
    <3>8. Fits(u, N)
      BY <3>5, <3>6, <3>7 DEF MarkedAs, Fits, PlacedCarets, PlacedComposition, PlacedWrite
    <3> QED
      BY <1>2, <2>3, <2>5, <3>1, <3>4, <3>6, <3>7, <3>8, OkAndFailed, SoundResults DEF MarkedAs
  <2> QED
    BY <2>6, <2>7
<1> QED
  BY <1>1, <1>2 DEF Steady, Sound

LEMMA ReleasedFits ==
  ASSUME NEW N, NEW r, Steady(r, N)
  PROVE  /\ Steady(Released(r), N)
         /\ Released(r).ok => r.ok /\ ~Retaining(Released(r).text)
<1>1. CASE ~r.ok
  BY <1>1 DEF Released
<1>2. CASE r.ok
  <2>1. PICK t : t = r.text
    OBVIOUS
  <2>2. PICK u : u = [t EXCEPT !.retained = NoResult]
    OBVIOUS
  <2>3. Released(r) = Ok(u)
    BY <1>2, <2>1, <2>2, Zenon DEF Released
  <2>4. Fits(t, N) /\ t \in TextType(N)
    BY <1>2, <2>1 DEF Steady, Sound, Fits
  <2>5. /\ u \in TextType(N) /\ u.retained = NoResult
        /\ u.doc = t.doc /\ u.caret = t.caret /\ u.comp = t.comp
        /\ u.engine = t.engine
    BY <2>2, <2>4, NothingTyped, RetainedSet
  <2>6. ~Retaining(u)
    BY <2>5, NothingTyped DEF Retaining
  <2>7. Fits(u, N) /\ ~Unwritten(u)
    BY <2>4, <2>5, <2>6 DEF Fits, PlacedCarets, PlacedComposition, PlacedWrite, Unwritten
  <2> QED
    BY <1>2, <2>3, <2>6, <2>7, OkAndFailed, SoundResults
<1> QED
  BY <1>1, <1>2 DEF Steady, Sound

LetGo(r, N) == Steady(r, N) /\ (r.ok => ~Retaining(r.text))

LEMMA RetryFits ==
  ASSUME NEW N, NEW r, Sound(r, N), NEW c \in Contexts, NEW fault
  PROVE  /\ LetGo(Retry(r, c, fault), N)
         /\ Retry(r, c, fault).ok => r.ok
<1>0. r.ok \in BOOLEAN /\ Fits(r.text, N)
  BY DEF Sound
<1>1. CASE ~r.ok \/ ~Retaining(r.text)
  <2>1. Retry(r, c, fault) = r
    BY <1>1 DEF Retry
  <2> QED
    BY <1>1, <2>1 DEF LetGo, Steady, Unwritten
<1>2. CASE r.ok /\ Retaining(r.text) /\ r.text.retained.context # c
  <2>1. Retry(r, c, fault) = Failed(r.text)
    BY <1>2 DEF Retry
  <2> QED
    BY <1>0, <1>2, <2>1, OkAndFailed, SoundResults DEF LetGo
<1>3. CASE r.ok /\ Retaining(r.text) /\ r.text.retained.context = c
  <2>1. PICK w : w = Write(r, c, fault)
    OBVIOUS
  <2>2. PICK s : s = SetCaret(w, c, fault)
    OBVIOUS
  <2>3. PICK e : e = EndCommitted(s, c, fault)
    OBVIOUS
  <2>4. PICK v : v = View(e, c, fault)
    OBVIOUS
  <2>5. Retry(r, c, fault) = Released(v)
    BY <1>3, <2>1, <2>2, <2>3, <2>4 DEF Retry
  <2>6. Of(r, c)
    BY <1>3 DEF Of
  <2>7. Sound(w, N) /\ Of(w, c) /\ (w.ok => w.text.retained.written = TRUE)
    BY <2>1, <2>6, WriteFits
  <2>8. Steady(s, N)
    BY <2>2, <2>7, SetCaretFits
  <2>9. Steady(e, N)
    BY <2>3, <2>8, EndCommittedFits
  <2>10. Steady(v, N)
    BY <2>4, <2>9, ViewFits DEF Follows
  <2>11. Steady(Released(v), N) /\ (Released(v).ok => ~Retaining(Released(v).text))
    BY <2>10, ReleasedFits
  <2> QED
    BY <1>3, <2>5, <2>11 DEF LetGo
<1> QED
  BY <1>0, <1>1, <1>2, <1>3
-----------------------------------------------------------------------------
(* The tokens of a field after a part of it was replaced.                   *)
LEMMA RangeOfReplaced ==
  ASSUME NEW N, NEW s \in Seq(N), NEW from \in Nat, NEW len \in Nat, NEW new \in Seq(N),
         from + len <= Len(s)
  PROVE  Range(Replaced(s, from, len, new)) \subseteq Range(s) \cup Range(new)
<1>r. PICK r : r = Replaced(s, from, len, new)
  OBVIOUS
<1>1. Spliced(r, s, N, from, len, new)
  BY <1>r, PlacesOfReplaced
<1>2. /\ r \in Seq(N) /\ Len(r) = Len(s) - len + Len(new)
      /\ \A i \in 1 .. from : r[i] = s[i]
      /\ \A i \in 1 .. Len(new) : r[from + i] = new[i]
      /\ \A i \in from + len + 1 .. Len(s) : r[i - len + Len(new)] = s[i]
  BY <1>1 DEF Spliced
<1>3. ASSUME NEW i \in 1 .. Len(r) PROVE r[i] \in Range(s) \cup Range(new)
  <2>1. CASE i \in 1 .. from
    BY <1>2, <2>1 DEF Range
  <2>2. CASE i \in from + 1 .. from + Len(new)
    <3>1. PICK k : k = i - from
      OBVIOUS
    <3>2. k \in 1 .. Len(new) /\ from + k = i
      BY <2>2, <3>1
    <3>3. r[from + k] = new[k]
      BY <1>2, <3>2
    <3> QED
      BY <3>2, <3>3 DEF Range
  <2>3. CASE i > from + Len(new)
    <3>1. PICK k : k = i - Len(new) + len
      OBVIOUS
    <3>2. k \in from + len + 1 .. Len(s) /\ k - len + Len(new) = i
      BY <1>2, <2>3, <3>1
    <3>3. r[k - len + Len(new)] = s[k] /\ k \in 1 .. Len(s)
      BY <1>2, <3>2
    <3>4. r[i] = s[k]
      BY <3>2, <3>3
    <3> QED
      BY <3>3, <3>4 DEF Range
  <2> QED
    BY <1>2, <2>1, <2>2, <2>3
<1> QED
  BY <1>2, <1>3, <1>r DEF Range

(* No stage touches the engine, opens a composition in another field,       *)
(* changes the text of another field, or puts anything else into the text   *)
(* of its own field than what was retained.                                 *)
Grown(u, t, c) ==
  /\ \A d \in Contexts \ {c} : u.doc[d] = t.doc[d]
  /\ Range(u.doc[c]) \subseteq Range(t.doc[c]) \cup Waiting(t)
  /\ Waiting(u) \subseteq Waiting(t)
KeepsText(u, t, c) ==
  /\ u.engine = t.engine /\ u.comp.context \in {t.comp.context, c, NoContext}
  /\ Grown(u, t, c)
Keeps(x, r, c) == KeepsText(x.text, r.text, c)

LEMMA GrownSame ==
  ASSUME NEW t, NEW u, NEW c, u.doc = t.doc,
         u.retained.commit = t.retained.commit, u.retained.view = t.retained.view
  PROVE  Grown(u, t, c)
  BY DEF Grown, Waiting

LEMMA KeepsSame ==
  ASSUME NEW t, NEW c
  PROVE  KeepsText(t, t, c)
  BY GrownSame DEF KeepsText

LEMMA KeepsTwice ==
  ASSUME NEW t, NEW u, NEW v, NEW c, KeepsText(u, t, c), KeepsText(v, u, c)
  PROVE  KeepsText(v, t, c)
  BY DEF KeepsText, Grown

LEMMA ShownGrown ==
  ASSUME NEW N, NEW t, Fits(t, N), NEW c \in Contexts, Composing(t, c),
         NEW new \in Seq(N), Range(new) \subseteq Waiting(t)
  PROVE  Grown(Shown(t, c, new), t, c)
<1>1. PICK u : u = Shown(t, c, new)
  OBVIOUS
<1>2. t \in TextType(N) /\ t.comp.context = c
  BY DEF Fits, Composing
<1>3. t.comp.from + t.comp.len <= Len(t.doc[c]) /\ t.caret[c] <= Len(t.doc[c])
  BY <1>2, NoContextAssumption DEF Fits, PlacedComposition, PlacedCarets
<1>4. ShownAs(u, t, N, c, new)
  BY <1>1, <1>2, <1>3, ShownFields
<1>5. PICK s : s = t.doc[c]
  OBVIOUS
<1>6. PICK from : from = t.comp.from
  OBVIOUS
<1>7. PICK len : len = t.comp.len
  OBVIOUS
<1>8. s \in Seq(N) /\ from \in Nat /\ len \in Nat /\ from + len <= Len(s)
  BY <1>2, <1>3, <1>5, <1>6, <1>7, TextFields DEF Docs
<1>9. Range(Replaced(s, from, len, new)) \subseteq Range(s) \cup Range(new)
  BY <1>8, RangeOfReplaced
<1>10. u.doc[c] = Replaced(s, from, len, new)
  BY <1>4, <1>5, <1>6, <1>7 DEF ShownAs
<1>11. Range(u.doc[c]) \subseteq Range(t.doc[c]) \cup Waiting(t)
  BY <1>5, <1>9, <1>10
<1>12. u.retained = t.retained /\ \A d \in Contexts \ {c} : u.doc[d] = t.doc[d]
  BY <1>4 DEF ShownAs
<1>13. Waiting(u) = Waiting(t)
  BY <1>12 DEF Waiting
<1> QED
  BY <1>1, <1>11, <1>12, <1>13 DEF Grown

LEMMA StartKeeps ==
  ASSUME NEW N, NEW r, Sound(r, N), NEW c \in Contexts, NEW fault
  PROVE  Keeps(Start(r, c, fault), r, c)
<1>1. CASE ~r.ok \/ Composing(r.text, c)
  BY <1>1, KeepsSame DEF Start, Keeps
<1>2. CASE r.ok /\ ~Composing(r.text, c) /\ (r.text.comp.context # NoContext \/ fault = "start")
  <2>1. Start(r, c, fault) = Failed(r.text)
    BY <1>2 DEF Start
  <2> QED
    BY <2>1, KeepsSame, OkAndFailed DEF Keeps
<1>3. CASE r.ok /\ ~Composing(r.text, c) /\ ~(r.text.comp.context # NoContext \/ fault = "start")
  <2>1. PICK t : t = r.text
    OBVIOUS
  <2>2. PICK comp : comp = [context |-> c, from |-> t.caret[c], len |-> 0]
    OBVIOUS
  <2>3. PICK u : u = [t EXCEPT !.comp = comp]
    OBVIOUS
  <2>4. Start(r, c, fault) = Ok(u)
    BY <1>3, <2>1, <2>2, <2>3, Zenon DEF Start
  <2>5. t \in TextType(N) /\ t.caret[c] \in Nat
    BY <2>1, TextFields DEF Sound, Fits, Carets
  <2>7. comp \in CompositionType /\ comp.context = c
    BY <2>2, <2>5 DEF CompositionType, Fields
  <2>8. /\ u \in TextType(N) /\ u.comp = comp
        /\ u.doc = t.doc /\ u.caret = t.caret /\ u.engine = t.engine
        /\ u.retained = t.retained
    BY <2>3, <2>5, <2>7, CompSet
  <2>9. Grown(u, t, c)
    BY <2>8, GrownSame
  <2> QED
    BY <2>1, <2>4, <2>7, <2>8, <2>9, OkAndFailed DEF Keeps, KeepsText
<1> QED
  BY <1>1, <1>2, <1>3

LEMMA EndRangeKeeps ==
  ASSUME NEW N, NEW t, Fits(t, N), NEW c, NEW fault
  PROVE  KeepsText(EndRange(t, fault).text, t, c)
<1>1. CASE fault = "end"
  BY <1>1, KeepsSame, OkAndFailed DEF EndRange
<1>2. CASE fault # "end"
  <2>1. PICK u : u = [t EXCEPT !.comp = NoComposition]
    OBVIOUS
  <2>2. EndRange(t, fault) = Ok(u)
    BY <1>2, <2>1, Zenon DEF EndRange
  <2>3. u.comp = NoComposition /\ u.engine = t.engine /\ u.doc = t.doc /\ u.retained = t.retained
    BY <2>1, CompDroppedFits
  <2>4. Grown(u, t, c)
    BY <2>3, GrownSame
  <2> QED
    BY <2>2, <2>3, <2>4, OkAndFailed, NothingTyped DEF KeepsText
<1> QED
  BY <1>1, <1>2

LEMMA EndKeeps ==
  ASSUME NEW N, NEW r, Steady(r, N), NEW c \in Contexts, NEW clear \in BOOLEAN, NEW fault
  PROVE  Keeps(End(r, c, clear, fault), r, c)
<1>1. CASE ~r.ok \/ ~Composing(r.text, c)
  BY <1>1, KeepsSame DEF End, Keeps
<1>2. CASE r.ok /\ Composing(r.text, c)
  <2>1. PICK t : t = IF clear THEN ClearRange(r.text, c) ELSE r.text
    OBVIOUS
  <2>2. End(r, c, clear, fault) = EndRange(t, fault)
    BY <1>2, <2>1, Zenon DEF End
  <2>3. Fits(r.text, N) /\ ~Unwritten(r.text)
    BY <1>2 DEF Steady, Sound
  <2>4. Fits(t, N) /\ KeepsText(t, r.text, c)
    <3>1. CASE clear
      <4>1. PICK e : e = <<>>
        OBVIOUS
      <4>2. e \in Seq(N)
        BY <4>1
      <4>3. t = Shown(r.text, c, e)
        BY <2>1, <3>1, <4>1, ClearedIsShown
      <4>4. /\ Fits(Shown(r.text, c, e), N)
            /\ Composing(Shown(r.text, c, e), c)
            /\ Shown(r.text, c, e).engine = r.text.engine
        BY <1>2, <2>3, <4>2, ShownFits
      <4>5. Range(e) \subseteq Waiting(r.text)
        BY <4>1 DEF Range
      <4>6. Grown(Shown(r.text, c, e), r.text, c)
        BY <1>2, <2>3, <4>2, <4>5, ShownGrown
      <4> QED
        BY <1>2, <4>3, <4>4, <4>6 DEF Composing, KeepsText
    <3> QED
      BY <2>1, <2>3, <3>1, KeepsSame
  <2>5. KeepsText(EndRange(t, fault).text, t, c)
    BY <2>4, EndRangeKeeps
  <2> QED
    BY <2>2, <2>4, <2>5, KeepsTwice DEF Keeps
<1> QED
  BY <1>1, <1>2

LEMMA ViewKeeps ==
  ASSUME NEW N, NEW r, Steady(r, N), NEW c \in Contexts, NEW fault
  PROVE  Keeps(View(r, c, fault), r, c)
<1>1. CASE ~r.ok
  BY <1>1, KeepsSame DEF View, Keeps
<1>2. CASE r.ok /\ r.text.retained.view # <<>>
  <2>1. PICK s : s = Start(r, c, fault)
    OBVIOUS
  <2>2. View(r, c, fault) = ShowView(s, c, fault)
    BY <1>2, <2>1, Zenon DEF View
  <2>3. Steady(s, N) /\ (s.ok => Composing(s.text, c)) /\ Keeps(s, r, c)
    BY <2>1, StartFits, StartKeeps DEF Steady
  <2>4. Keeps(ShowView(s, c, fault), s, c)
    <3>1. CASE ~s.ok
      BY <3>1, KeepsSame DEF ShowView, Keeps
    <3>2. CASE s.ok /\ fault = "view"
      BY <3>2, KeepsSame, OkAndFailed DEF ShowView, Keeps
    <3>3. CASE s.ok /\ fault # "view"
      <4>1. PICK t : t = s.text
        OBVIOUS
      <4>2. PICK new : new = t.retained.view
        OBVIOUS
      <4>3. PICK u : u = Shown(t, c, new)
        OBVIOUS
      <4>4. ShowView(s, c, fault) = CaretBehind(u, c, fault)
        BY <3>3, <4>1, <4>2, <4>3, Zenon DEF ShowView
      <4>5. Fits(t, N) /\ ~Unwritten(t) /\ Composing(t, c)
        BY <2>3, <3>3, <4>1 DEF Steady, Sound
      <4>6. new \in Seq(N)
        BY <4>2, <4>5, TextFields DEF Fits
      <4>7. Fits(u, N) /\ Composing(u, c) /\ u.engine = t.engine
        BY <4>3, <4>5, <4>6, ShownFits
      <4>8. KeepsText(CaretBehind(u, c, fault).text, u, c)
        <5>1. CASE fault = "select"
          BY <5>1, KeepsSame, OkAndFailed DEF CaretBehind
        <5>2. CASE fault # "select"
          <6>1. PICK k : k = u.comp.from + u.comp.len
            OBVIOUS
          <6>2. PICK v : v = [u EXCEPT !.caret[c] = k]
            OBVIOUS
          <6>3. CaretBehind(u, c, fault) = Ok(v)
            BY <5>2, <6>1, <6>2, Zenon DEF CaretBehind
          <6>4. u \in TextType(N) /\ k \in Nat
            BY <4>7, <6>1, TextFields DEF Fits
          <6>5. v.comp = u.comp /\ v.engine = u.engine /\ v.doc = u.doc /\ v.retained = u.retained
            BY <6>2, <6>4, OneCaretSet
          <6>6. Grown(v, u, c)
            BY <6>5, GrownSame
          <6> QED
            BY <6>3, <6>5, <6>6, OkAndFailed DEF KeepsText
        <5> QED
          BY <5>1, <5>2
      <4>9. Range(new) \subseteq Waiting(t)
        BY <4>2 DEF Waiting
      <4>10. Grown(u, t, c)
        BY <4>3, <4>5, <4>6, <4>9, ShownGrown
      <4>11. KeepsText(u, t, c)
        BY <4>5, <4>7, <4>10 DEF KeepsText, Composing
      <4> QED
        BY <4>1, <4>4, <4>8, <4>11, KeepsTwice DEF Keeps
    <3> QED
      BY <2>3, <3>1, <3>2, <3>3 DEF Steady, Sound
  <2> QED
    BY <2>2, <2>3, <2>4, KeepsTwice DEF Keeps
<1>3. CASE r.ok /\ r.text.retained.view = <<>> /\ r.text.retained.commit = <<>>
  <2>1. PICK clear : clear = TRUE
    OBVIOUS
  <2>2. View(r, c, fault) = End(r, c, clear, fault) /\ clear \in BOOLEAN
    BY <1>3, <2>1 DEF View
  <2> QED
    BY <2>2, EndKeeps
<1>4. CASE r.ok /\ r.text.retained.view = <<>> /\ r.text.retained.commit # <<>>
  BY <1>4, KeepsSame DEF View, Keeps
<1> QED
  BY <1>1, <1>2, <1>3, <1>4 DEF Steady, Sound

LEMMA WriteKeeps ==
  ASSUME NEW N, NEW r, Sound(r, N), NEW c \in Contexts, Of(r, c), NEW fault
  PROVE  Keeps(Write(r, c, fault), r, c)
<1>1. CASE ~r.ok \/ r.text.retained.written
  BY <1>1, KeepsSame DEF Write, Keeps
<1>3. CASE r.ok /\ ~r.text.retained.written
  <2>1. PICK inside : inside = Inside(r.text, c)
    OBVIOUS
  <2>2. PICK before : before = r.text
    OBVIOUS
  <2>3. PICK t : t = WithEnd(before, inside)
    OBVIOUS
  <2>4. Write(r, c, fault) = WriteInto(t, c, inside, fault)
    BY <1>3, <2>1, <2>2, <2>3, Zenon DEF Write, WithEnd
  <2>5. inside \in BOOLEAN /\ before \in TextType(N) /\ Fits(before, N)
    BY <2>1, <2>2 DEF Inside, Composing, Sound, Fits
  <2>6. MarkedAs(t, before, N, before.retained.written, before.retained.caretSet, inside)
    BY <2>3, <2>5, EndMarked
  <2>7. KeepsText(t, before, c)
    BY <2>6, GrownSame DEF MarkedAs, KeepsText
  <2>8. CASE t.retained.commit = <<>>
    <3>1. PICK u : u = WithWritten(t)
      OBVIOUS
    <3>2. WriteInto(t, c, inside, fault) = Ok(u)
      BY <2>8, <3>1, Zenon DEF WriteInto, WithWritten
    <3>3. MarkedAs(u, t, N, TRUE, t.retained.caretSet, t.retained.needsEnd)
      <4>1. t \in TextType(N)
        BY <2>6 DEF MarkedAs
      <4> QED
        BY <3>1, <4>1, WriteMarked
    <3>4. KeepsText(u, t, c)
      BY <3>3, GrownSame DEF MarkedAs, KeepsText
    <3> QED
      BY <2>2, <2>4, <2>7, <3>2, <3>4, OkAndFailed, KeepsTwice DEF Keeps
  <2>9. CASE t.retained.commit # <<>> /\ fault = "write"
    <3>1. WriteInto(t, c, inside, fault) = Failed(t)
      BY <2>9, Zenon DEF WriteInto
    <3> QED
      BY <2>2, <2>4, <2>7, <3>1, OkAndFailed DEF Keeps
  <2>10. CASE t.retained.commit # <<>> /\ fault # "write"
    <3>1. PICK from : from = IF inside THEN t.comp.from ELSE t.caret[c]
      OBVIOUS
    <3>2. PICK len : len = IF inside THEN t.comp.len ELSE 0
      OBVIOUS
    <3>3. PICK u : u = Written(t, c, from, len, inside)
      OBVIOUS
    <3>4. WriteInto(t, c, inside, fault) = Ok(u)
      <4>1. CASE inside
        <5>1. inside = TRUE
          BY <2>5, <4>1
        <5> QED
          BY <2>10, <3>1, <3>2, <3>3, <4>1, <5>1 DEF WriteInto
      <4>2. CASE ~inside
        <5>1. inside = FALSE
          BY <2>5, <4>2
        <5> QED
          BY <2>10, <3>1, <3>2, <3>3, <4>2, <5>1 DEF WriteInto
      <4> QED
        BY <4>1, <4>2
    <3>5. t \in TextType(N) /\ t.comp = before.comp /\ t.caret = before.caret /\ t.doc = before.doc
      BY <2>6 DEF MarkedAs
    <3>6. from \in Nat /\ len \in Nat
      BY <3>1, <3>2, <3>5, TextFields DEF Carets
    <3>7. t.caret[c] <= Len(t.doc[c])
      BY <2>5, <3>5 DEF Fits, PlacedCarets
    <3>8. from + len <= Len(t.doc[c])
      <4>1. CASE inside
        BY <2>1, <2>2, <2>5, <3>1, <3>2, <3>5, <4>1, NoContextAssumption
           DEF Fits, PlacedComposition, Inside, Composing
      <4>2. CASE ~inside
        BY <3>1, <3>2, <3>6, <3>7, <4>2
      <4> QED
        BY <4>1, <4>2
    <3>9. WrittenAs(u, t, N, c, from, len, inside)
      BY <3>3, <3>5, <3>6, <3>7, <3>8, WrittenFields
    <3>10. PICK s : s = t.doc[c]
      OBVIOUS
    <3>11. PICK new : new = t.retained.commit
      OBVIOUS
    <3>12. s \in Seq(N) /\ new \in Seq(N)
      BY <3>5, <3>10, <3>11, TextFields DEF Docs
    <3>13. Range(Replaced(s, from, len, new)) \subseteq Range(s) \cup Range(new)
      BY <3>6, <3>8, <3>10, <3>12, RangeOfReplaced
    <3>14. u.doc[c] = Replaced(s, from, len, new)
      BY <3>9, <3>10, <3>11 DEF WrittenAs
    <3>15. Range(u.doc[c]) \subseteq Range(t.doc[c]) \cup Waiting(t)
      BY <3>10, <3>11, <3>13, <3>14 DEF Waiting
    <3>16. Waiting(u) = Waiting(t)
      BY <3>9 DEF WrittenAs, Waiting
    <3>17. KeepsText(u, t, c)
      BY <3>9, <3>15, <3>16 DEF WrittenAs, KeepsText, Grown
    <3> QED
      BY <2>2, <2>4, <2>7, <3>4, <3>17, OkAndFailed, KeepsTwice DEF Keeps
  <2> QED
    BY <2>8, <2>9, <2>10
<1> QED
  BY <1>1, <1>3 DEF Sound
-----------------------------------------------------------------------------
(* The same for the other stages and for retryInputResult as a whole.       *)
LEMMA SetCaretKeeps ==
  ASSUME NEW N, NEW r, Sound(r, N), NEW c \in Contexts, NEW fault
  PROVE  Keeps(SetCaret(r, c, fault), r, c)
<1>1. CASE ~r.ok \/ r.text.retained.commit = <<>> \/ r.text.retained.caretSet
  <2>1. SetCaret(r, c, fault) = r
    BY <1>1 DEF SetCaret
  <2> QED
    BY <2>1, KeepsSame DEF Keeps
<1>2. CASE /\ ~(~r.ok \/ r.text.retained.commit = <<>> \/ r.text.retained.caretSet)
           /\ fault = "caret"
  <2>1. SetCaret(r, c, fault) = Failed(r.text)
    BY <1>2 DEF SetCaret
  <2> QED
    BY <2>1, KeepsSame, OkAndFailed DEF Keeps
<1>3. CASE /\ ~(~r.ok \/ r.text.retained.commit = <<>> \/ r.text.retained.caretSet)
           /\ fault # "caret"
  <2>1. PICK t : t = r.text
    OBVIOUS
  <2>2. PICK at : at = t.retained.at
    OBVIOUS
  <2>3. PICK v : v = [t EXCEPT !.caret[c] = at]
    OBVIOUS
  <2>4. PICK u : u = WithCaretSet(v)
    OBVIOUS
  <2>5. SetCaret(r, c, fault) = Ok(u)
    BY <1>3, <2>1, <2>2, <2>3, <2>4, Zenon DEF SetCaret, WithCaretSet
  <2>6. t \in TextType(N) /\ at \in Nat
    BY <2>1, <2>2, TextFields DEF Sound, Fits
  <2>7. /\ v \in TextType(N) /\ v.doc = t.doc /\ v.comp = t.comp /\ v.engine = t.engine
        /\ v.retained = t.retained
    BY <2>3, <2>6, OneCaretSet
  <2>8. MarkedAs(u, v, N, v.retained.written, TRUE, v.retained.needsEnd)
    <3>1. v \in TextType(N)
      BY <2>7
    <3> QED
      BY <2>4, <3>1, CaretMarked
  <2>9. Grown(u, t, c)
    BY <2>7, <2>8, GrownSame DEF MarkedAs
  <2> QED
    BY <2>1, <2>5, <2>7, <2>8, <2>9, OkAndFailed DEF MarkedAs, Keeps, KeepsText
<1> QED
  BY <1>1, <1>2, <1>3

LEMMA EndCommittedKeeps ==
  ASSUME NEW N, NEW r, Steady(r, N), NEW c \in Contexts, NEW fault
  PROVE  Keeps(EndCommitted(r, c, fault), r, c)
<1>1. CASE ~r.ok \/ ~r.text.retained.needsEnd
  BY <1>1, KeepsSame DEF EndCommitted, Keeps
<1>2. CASE r.ok /\ r.text.retained.needsEnd
  <2>1. PICK clear : clear = FALSE
    OBVIOUS
  <2>2. PICK e : e = End(r, c, clear, fault)
    OBVIOUS
  <2>3. EndCommitted(r, c, fault) = Ended(e)
    BY <1>2, <2>1, <2>2 DEF EndCommitted
  <2>4. clear \in BOOLEAN
    BY <2>1
  <2>5. Steady(e, N)
    BY <2>2, <2>4, EndFits
  <2>6. Keeps(e, r, c)
    BY <2>2, <2>4, EndKeeps
  <2>7. Keeps(Ended(e), e, c)
    <3>1. CASE ~e.ok
      BY <3>1, KeepsSame DEF Ended, Keeps
    <3>2. CASE e.ok
      <4>1. PICK before : before = e.text
        OBVIOUS
      <4>2. PICK no : no = FALSE
        OBVIOUS
      <4>3. PICK u : u = WithEnd(before, no)
        OBVIOUS
      <4>4. Ended(e) = Ok(u)
        BY <3>2, <4>1, <4>2, <4>3, Zenon DEF Ended, WithEnd
      <4>5. before \in TextType(N) /\ no \in BOOLEAN
        BY <2>5, <4>1, <4>2 DEF Steady, Sound, Fits
      <4>6. MarkedAs(u, before, N, before.retained.written, before.retained.caretSet, no)
        BY <4>3, <4>5, EndMarked
      <4>7. Grown(u, before, c)
        BY <4>6, GrownSame DEF MarkedAs
      <4> QED
        BY <4>1, <4>4, <4>6, <4>7, OkAndFailed DEF MarkedAs, Keeps, KeepsText
    <3> QED
      BY <3>1, <3>2
  <2> QED
    BY <2>3, <2>6, <2>7, KeepsTwice DEF Keeps
<1> QED
  BY <1>1, <1>2

LEMMA ReleasedKeeps ==
  ASSUME NEW N, NEW r, Steady(r, N), NEW c \in Contexts
  PROVE  Keeps(Released(r), r, c)
<1>1. CASE ~r.ok
  BY <1>1, KeepsSame DEF Released, Keeps
<1>2. CASE r.ok
  <2>1. PICK t : t = r.text
    OBVIOUS
  <2>2. PICK u : u = [t EXCEPT !.retained = NoResult]
    OBVIOUS
  <2>3. Released(r) = Ok(u)
    BY <1>2, <2>1, <2>2, Zenon DEF Released
  <2>4. t \in TextType(N)
    BY <2>1 DEF Steady, Sound, Fits
  <2>5. u.retained = NoResult /\ u.doc = t.doc /\ u.comp = t.comp /\ u.engine = t.engine
    BY <2>2, <2>4, NothingTyped, RetainedSet
  <2>6. Waiting(u) = {}
    BY <2>5, NothingTyped DEF Waiting, Range
  <2>7. Grown(u, t, c)
    BY <2>5, <2>6 DEF Grown
  <2> QED
    BY <2>1, <2>3, <2>5, <2>7, OkAndFailed DEF Keeps, KeepsText
<1> QED
  BY <1>1, <1>2

LEMMA RetryKeeps ==
  ASSUME NEW N, NEW r, Sound(r, N), NEW c \in Contexts, NEW fault
  PROVE  Keeps(Retry(r, c, fault), r, c)
<1>1. CASE ~r.ok \/ ~Retaining(r.text)
  BY <1>1, KeepsSame DEF Retry, Keeps
<1>2. CASE r.ok /\ Retaining(r.text) /\ r.text.retained.context # c
  BY <1>2, KeepsSame, OkAndFailed DEF Retry, Keeps
<1>3. CASE r.ok /\ Retaining(r.text) /\ r.text.retained.context = c
  <2>1. PICK w : w = Write(r, c, fault)
    OBVIOUS
  <2>2. PICK s : s = SetCaret(w, c, fault)
    OBVIOUS
  <2>3. PICK e : e = EndCommitted(s, c, fault)
    OBVIOUS
  <2>4. PICK v : v = View(e, c, fault)
    OBVIOUS
  <2>5. Retry(r, c, fault) = Released(v)
    BY <1>3, <2>1, <2>2, <2>3, <2>4 DEF Retry
  <2>6. Of(r, c)
    BY <1>3 DEF Of
  <2>7. Sound(w, N) /\ Of(w, c) /\ (w.ok => w.text.retained.written = TRUE)
    BY <2>1, <2>6, WriteFits
  <2>8. Steady(s, N)
    BY <2>2, <2>7, SetCaretFits
  <2>9. Steady(e, N)
    BY <2>3, <2>8, EndCommittedFits
  <2>10. Steady(v, N)
    BY <2>4, <2>9, ViewFits DEF Follows
  <2>11. Keeps(w, r, c)
    BY <2>1, <2>6, WriteKeeps
  <2>12. Keeps(s, w, c)
    BY <2>2, <2>7, SetCaretKeeps
  <2>13. Keeps(e, s, c)
    BY <2>3, <2>8, EndCommittedKeeps
  <2>14. Keeps(v, e, c)
    BY <2>4, <2>9, ViewKeeps
  <2>15. Keeps(Released(v), v, c)
    BY <2>10, ReleasedKeeps
  <2>16. KeepsText(s.text, r.text, c)
    BY <2>11, <2>12, KeepsTwice DEF Keeps
  <2>17. KeepsText(e.text, r.text, c)
    BY <2>13, <2>16, KeepsTwice DEF Keeps
  <2>18. KeepsText(v.text, r.text, c)
    BY <2>14, <2>17, KeepsTwice DEF Keeps
  <2> QED
    BY <2>5, <2>15, <2>18, KeepsTwice DEF Keeps
<1> QED
  BY <1>1, <1>2, <1>3
-----------------------------------------------------------------------------
(* What is retained stays the same until all of it is done.                 *)
SameResult(u, t) ==
  /\ u.retained.context = t.retained.context
  /\ u.retained.commit = t.retained.commit /\ u.retained.view = t.retained.view

LEMMA SameTwice ==
  ASSUME NEW t, NEW u, NEW v, SameResult(u, t), SameResult(v, u)
  PROVE  SameResult(v, t)
  BY DEF SameResult

LEMMA SameItself ==
  ASSUME NEW t, NEW u, u.retained = t.retained
  PROVE  SameResult(u, t)
  BY DEF SameResult

LEMMA WriteSame ==
  ASSUME NEW N, NEW r, Sound(r, N), NEW c \in Contexts, Of(r, c), NEW fault
  PROVE  SameResult(Write(r, c, fault).text, r.text)
<1>1. CASE ~r.ok \/ r.text.retained.written
  BY <1>1, SameItself DEF Write
<1>3. CASE r.ok /\ ~r.text.retained.written
  <2>1. PICK inside : inside = Inside(r.text, c)
    OBVIOUS
  <2>2. PICK before : before = r.text
    OBVIOUS
  <2>3. PICK t : t = WithEnd(before, inside)
    OBVIOUS
  <2>4. Write(r, c, fault) = WriteInto(t, c, inside, fault)
    BY <1>3, <2>1, <2>2, <2>3, Zenon DEF Write, WithEnd
  <2>5. inside \in BOOLEAN /\ before \in TextType(N) /\ Fits(before, N)
    BY <2>1, <2>2 DEF Inside, Composing, Sound, Fits
  <2>6. MarkedAs(t, before, N, before.retained.written, before.retained.caretSet, inside)
    BY <2>3, <2>5, EndMarked
  <2>7. SameResult(t, before)
    BY <2>6 DEF MarkedAs, SameResult
  <2>8. CASE t.retained.commit = <<>>
    <3>1. PICK u : u = WithWritten(t)
      OBVIOUS
    <3>2. WriteInto(t, c, inside, fault) = Ok(u)
      BY <2>8, <3>1, Zenon DEF WriteInto, WithWritten
    <3>3. MarkedAs(u, t, N, TRUE, t.retained.caretSet, t.retained.needsEnd)
      <4>1. t \in TextType(N)
        BY <2>6 DEF MarkedAs
      <4> QED
        BY <3>1, <4>1, WriteMarked
    <3>4. SameResult(u, t)
      BY <3>3 DEF MarkedAs, SameResult
    <3> QED
      BY <2>2, <2>4, <2>7, <3>2, <3>4, OkAndFailed, SameTwice
  <2>9. CASE t.retained.commit # <<>> /\ fault = "write"
    <3>1. WriteInto(t, c, inside, fault) = Failed(t)
      BY <2>9, Zenon DEF WriteInto
    <3> QED
      BY <2>2, <2>4, <2>7, <3>1, OkAndFailed
  <2>10. CASE t.retained.commit # <<>> /\ fault # "write"
    <3>1. PICK from : from = IF inside THEN t.comp.from ELSE t.caret[c]
      OBVIOUS
    <3>2. PICK len : len = IF inside THEN t.comp.len ELSE 0
      OBVIOUS
    <3>3. PICK u : u = Written(t, c, from, len, inside)
      OBVIOUS
    <3>4. WriteInto(t, c, inside, fault) = Ok(u)
      <4>1. CASE inside
        <5>1. inside = TRUE
          BY <2>5, <4>1
        <5> QED
          BY <2>10, <3>1, <3>2, <3>3, <4>1, <5>1 DEF WriteInto
      <4>2. CASE ~inside
        <5>1. inside = FALSE
          BY <2>5, <4>2
        <5> QED
          BY <2>10, <3>1, <3>2, <3>3, <4>2, <5>1 DEF WriteInto
      <4> QED
        BY <4>1, <4>2
    <3>5. t \in TextType(N)
      BY <2>6 DEF MarkedAs
    <3>6. PICK new : new = t.retained.commit
      OBVIOUS
    <3>7. u = TextOf(Edited(t.doc, c, from, len, new), Moved(t.caret, c, from, len, new),
                 PartOf(t.comp.context, t.comp.from, IF inside THEN Len(new) ELSE t.comp.len),
                 t.engine,
                 ResultOf(t.retained.context, new, t.retained.view, TRUE,
                          t.retained.caretSet, t.retained.needsEnd, from + Len(new)))
      BY <3>3, <3>5, <3>6, WrittenIs, ZenonT(60)
    <3>8. u.retained = ResultOf(t.retained.context, new, t.retained.view, TRUE,
                          t.retained.caretSet, t.retained.needsEnd, from + Len(new))
      BY <3>7 DEF TextOf
    <3>9. SameResult(u, t)
      BY <3>6, <3>8 DEF ResultOf, SameResult
    <3> QED
      BY <2>2, <2>4, <2>7, <3>4, <3>9, OkAndFailed, SameTwice
  <2> QED
    BY <2>8, <2>9, <2>10
<1> QED
  BY <1>1, <1>3 DEF Sound

LEMMA SetCaretSame ==
  ASSUME NEW N, NEW r, Sound(r, N), NEW c \in Contexts, NEW fault
  PROVE  SameResult(SetCaret(r, c, fault).text, r.text)
<1>1. CASE ~r.ok \/ r.text.retained.commit = <<>> \/ r.text.retained.caretSet
  <2>1. SetCaret(r, c, fault) = r
    BY <1>1 DEF SetCaret
  <2> QED
    BY <2>1, SameItself
<1>2. CASE /\ ~(~r.ok \/ r.text.retained.commit = <<>> \/ r.text.retained.caretSet)
           /\ fault = "caret"
  <2>1. SetCaret(r, c, fault) = Failed(r.text)
    BY <1>2 DEF SetCaret
  <2> QED
    BY <2>1, SameItself, OkAndFailed
<1>3. CASE /\ ~(~r.ok \/ r.text.retained.commit = <<>> \/ r.text.retained.caretSet)
           /\ fault # "caret"
  <2>1. PICK t : t = r.text
    OBVIOUS
  <2>2. PICK at : at = t.retained.at
    OBVIOUS
  <2>3. PICK v : v = [t EXCEPT !.caret[c] = at]
    OBVIOUS
  <2>4. PICK u : u = WithCaretSet(v)
    OBVIOUS
  <2>5. SetCaret(r, c, fault) = Ok(u)
    BY <1>3, <2>1, <2>2, <2>3, <2>4, Zenon DEF SetCaret, WithCaretSet
  <2>6. t \in TextType(N) /\ at \in Nat
    BY <2>1, <2>2, TextFields DEF Sound, Fits
  <2>7. v \in TextType(N) /\ v.retained = t.retained
    BY <2>3, <2>6, OneCaretSet
  <2>8. MarkedAs(u, v, N, v.retained.written, TRUE, v.retained.needsEnd)
    <3>1. v \in TextType(N)
      BY <2>7
    <3> QED
      BY <2>4, <3>1, CaretMarked
  <2> QED
    BY <2>1, <2>5, <2>7, <2>8, OkAndFailed DEF MarkedAs, SameResult
<1> QED
  BY <1>1, <1>2, <1>3

LEMMA EndCommittedSame ==
  ASSUME NEW N, NEW r, Steady(r, N), NEW c \in Contexts, NEW fault
  PROVE  SameResult(EndCommitted(r, c, fault).text, r.text)
<1>1. CASE ~r.ok \/ ~r.text.retained.needsEnd
  BY <1>1, SameItself DEF EndCommitted
<1>2. CASE r.ok /\ r.text.retained.needsEnd
  <2>1. PICK clear : clear = FALSE
    OBVIOUS
  <2>2. PICK e : e = End(r, c, clear, fault)
    OBVIOUS
  <2>3. EndCommitted(r, c, fault) = Ended(e)
    BY <1>2, <2>1, <2>2 DEF EndCommitted
  <2>4. clear \in BOOLEAN
    BY <2>1
  <2>5. Steady(e, N) /\ e.text.retained = r.text.retained
    BY <2>2, <2>4, EndFits
  <2>6. SameResult(e.text, r.text)
    BY <2>5, SameItself
  <2>7. CASE ~e.ok
    BY <2>3, <2>6, <2>7 DEF Ended
  <2>8. CASE e.ok
    <3>1. PICK before : before = e.text
      OBVIOUS
    <3>2. PICK no : no = FALSE
      OBVIOUS
    <3>3. PICK u : u = WithEnd(before, no)
      OBVIOUS
    <3>4. Ended(e) = Ok(u)
      BY <2>8, <3>1, <3>2, <3>3, Zenon DEF Ended, WithEnd
    <3>5. before \in TextType(N) /\ no \in BOOLEAN
      BY <2>5, <3>1, <3>2 DEF Steady, Sound, Fits
    <3>6. MarkedAs(u, before, N, before.retained.written, before.retained.caretSet, no)
      BY <3>3, <3>5, EndMarked
    <3>7. SameResult(u, before)
      BY <3>6 DEF MarkedAs, SameResult
    <3> QED
      BY <2>3, <2>6, <3>1, <3>4, <3>7, OkAndFailed, SameTwice
  <2> QED
    BY <2>7, <2>8
<1> QED
  BY <1>1, <1>2

(* When the view was shown, it is in a composition of its field.            *)
LEMMA ViewOpens ==
  ASSUME NEW N, NEW r, Steady(r, N), NEW c \in Contexts, NEW fault,
         View(r, c, fault).ok, r.text.retained.view # <<>>
  PROVE  Composing(View(r, c, fault).text, c)
<1>1. r.ok
  BY ViewFits DEF Follows
<1>2. PICK s : s = Start(r, c, fault)
  OBVIOUS
<1>3. View(r, c, fault) = ShowView(s, c, fault)
  BY <1>1, <1>2, Zenon DEF View
<1>4. Steady(s, N) /\ (s.ok => Composing(s.text, c))
  BY <1>2, StartFits
<1>5. s.ok /\ fault # "view"
  BY <1>3, OkAndFailed DEF ShowView
<1>6. PICK t : t = s.text
  OBVIOUS
<1>7. PICK new : new = t.retained.view
  OBVIOUS
<1>8. PICK u : u = Shown(t, c, new)
  OBVIOUS
<1>9. ShowView(s, c, fault) = CaretBehind(u, c, fault)
  BY <1>5, <1>6, <1>7, <1>8, Zenon DEF ShowView
<1>10. Fits(t, N) /\ ~Unwritten(t) /\ Composing(t, c)
  BY <1>4, <1>5, <1>6 DEF Steady, Sound
<1>11. new \in Seq(N)
  BY <1>7, <1>10, TextFields DEF Fits
<1>12. Fits(u, N) /\ Composing(u, c)
  BY <1>8, <1>10, <1>11, ShownFits
<1>13. fault # "select"
  BY <1>3, <1>9, OkAndFailed DEF CaretBehind
<1>14. PICK k : k = u.comp.from + u.comp.len
  OBVIOUS
<1>15. PICK v : v = [u EXCEPT !.caret[c] = k]
  OBVIOUS
<1>16. CaretBehind(u, c, fault) = Ok(v)
  BY <1>13, <1>14, <1>15, Zenon DEF CaretBehind
<1>17. u \in TextType(N) /\ k \in Nat
  BY <1>12, <1>14, TextFields DEF Fits
<1>18. v.comp = u.comp
  BY <1>15, <1>17, OneCaretSet
<1> QED
  BY <1>3, <1>9, <1>12, <1>16, <1>18, OkAndFailed DEF Composing

(* retryInputResult as a whole: the result is retained as it was, or done   *)
(* in its own field and forgotten.                                          *)
RetryOutcome(x, r, c) ==
  \/ x = r /\ (~r.ok \/ ~Retaining(r.text))
  \/ /\ r.ok /\ Retaining(r.text) /\ r.text.retained.context # c
     /\ ~x.ok /\ x.text = r.text
  \/ /\ r.ok /\ Retaining(r.text) /\ r.text.retained.context = c
     /\ x.ok /\ x.text.retained = NoResult
     /\ r.text.retained.view # <<>> => Composing(x.text, c)
  \/ /\ r.ok /\ Retaining(r.text) /\ r.text.retained.context = c
     /\ ~x.ok /\ SameResult(x.text, r.text)

LEMMA RetryEnds ==
  ASSUME NEW N, NEW r, Sound(r, N), NEW c \in Contexts, NEW fault
  PROVE  RetryOutcome(Retry(r, c, fault), r, c)
<1>1. CASE ~r.ok \/ ~Retaining(r.text)
  BY <1>1 DEF Retry, RetryOutcome
<1>2. CASE r.ok /\ Retaining(r.text) /\ r.text.retained.context # c
  <2>1. Retry(r, c, fault) = Failed(r.text)
    BY <1>2 DEF Retry
  <2> QED
    BY <1>2, <2>1, SameItself, OkAndFailed DEF RetryOutcome
<1>3. CASE r.ok /\ Retaining(r.text) /\ r.text.retained.context = c
  <2>1. PICK w : w = Write(r, c, fault)
    OBVIOUS
  <2>2. PICK s : s = SetCaret(w, c, fault)
    OBVIOUS
  <2>3. PICK e : e = EndCommitted(s, c, fault)
    OBVIOUS
  <2>4. PICK v : v = View(e, c, fault)
    OBVIOUS
  <2>5. Retry(r, c, fault) = Released(v)
    BY <1>3, <2>1, <2>2, <2>3, <2>4 DEF Retry
  <2>6. Of(r, c)
    BY <1>3 DEF Of
  <2>7. Sound(w, N) /\ Of(w, c) /\ (w.ok => w.text.retained.written = TRUE)
    BY <2>1, <2>6, WriteFits
  <2>8. Steady(s, N)
    BY <2>2, <2>7, SetCaretFits
  <2>9. Steady(e, N)
    BY <2>3, <2>8, EndCommittedFits
  <2>10. Follows(v, e, N)
    BY <2>4, <2>9, ViewFits
  <2>11. SameResult(w.text, r.text)
    BY <2>1, <2>6, WriteSame
  <2>12. SameResult(s.text, w.text)
    BY <2>2, <2>7, SetCaretSame
  <2>13. SameResult(e.text, s.text)
    BY <2>3, <2>8, EndCommittedSame
  <2>14. SameResult(v.text, e.text)
    BY <2>10, SameItself DEF Follows
  <2>15. SameResult(e.text, r.text)
    BY <2>11, <2>12, <2>13, SameTwice
  <2>16. SameResult(v.text, r.text)
    BY <2>14, <2>15, SameTwice
  <2>17. CASE ~v.ok
    <3>1. Released(v) = v
      BY <2>17 DEF Released
    <3> QED
      BY <1>3, <2>5, <2>16, <2>17, <3>1 DEF RetryOutcome
  <2>18. CASE v.ok
    <3>1. PICK t : t = v.text
      OBVIOUS
    <3>2. PICK u : u = [t EXCEPT !.retained = NoResult]
      OBVIOUS
    <3>3. Released(v) = Ok(u)
      BY <2>18, <3>1, <3>2, Zenon DEF Released
    <3>4. t \in TextType(N)
      BY <2>10, <3>1 DEF Follows, Steady, Sound, Fits
    <3>5. u.retained = NoResult /\ u.comp = t.comp
      BY <3>2, <3>4, NothingTyped, RetainedSet
    <3>6. r.text.retained.view # <<>> => Composing(t, c)
      <4>1. e.text.retained.view = r.text.retained.view
        BY <2>15 DEF SameResult
      <4> QED
        BY <2>4, <2>9, <2>18, <3>1, <4>1, ViewOpens
    <3> QED
      BY <1>3, <2>5, <3>3, <3>5, <3>6, OkAndFailed DEF RetryOutcome, Composing
  <2> QED
    BY <2>17, <2>18
<1> QED
  BY <1>1, <1>2, <1>3
-----------------------------------------------------------------------------
(* Every token stands in the field it was typed in, in the text, in the     *)
(* engine, and in what is retained; and the engine holds something only for *)
(* a composition or for a result that is still to be shown.                 *)
Tok(home, c) == {id \in DOMAIN home : home[id] = c}
OwnedText(t, home) == \A c \in Contexts : Range(t.doc[c]) \subseteq Tok(home, c)
OwnedEngine(t, home) ==
  t.comp.context # NoContext => Range(t.engine) \subseteq Tok(home, t.comp.context)
OwnedResult(t, home) ==
  Retaining(t) =>
    /\ t.engine = t.retained.view /\ Waiting(t) \subseteq Tok(home, t.retained.context)
    /\ t.engine # <<>> => t.comp.context \in {NoContext, t.retained.context}
HeldByNobody(t) == ~Retaining(t) /\ t.comp.context = NoContext => t.engine = <<>>
Owned(t, home) ==
  OwnedText(t, home) /\ OwnedEngine(t, home) /\ OwnedResult(t, home) /\ HeldByNobody(t)

LEMMA OwnedSame ==
  ASSUME NEW home, NEW t, NEW u, u.doc = t.doc, u.engine = t.engine,
         u.comp.context = t.comp.context, SameResult(u, t), Owned(t, home)
  PROVE  Owned(u, home)
<1>1. (Retaining(u) <=> Retaining(t)) /\ Waiting(u) = Waiting(t)
  BY DEF SameResult, Retaining, Waiting
<1> QED
  BY <1>1 DEF Owned, OwnedText, OwnedEngine, OwnedResult, HeldByNobody, SameResult

LEMMA OwnedEmptied ==
  ASSUME NEW home, NEW t, NEW u, u.doc = t.doc, u.engine = <<>>, ~Retaining(u), Owned(t, home)
  PROVE  Owned(u, home)
<1>1. PICK e : e = u.engine
  OBVIOUS
<1>2. Range(e) = {}
  BY <1>1 DEF Range
<1> QED
  BY <1>1, <1>2 DEF Owned, OwnedText, OwnedEngine, OwnedResult, HeldByNobody

LEMMA OwnedRetry ==
  ASSUME NEW home, NEW N, NEW r, Sound(r, N), NEW c \in Contexts, NEW fault, Owned(r.text, home)
  PROVE  Owned(Retry(r, c, fault).text, home)
<1>1. PICK x : x = Retry(r, c, fault)
  OBVIOUS
<1>2. PICK t : t = r.text
  OBVIOUS
<1>3. PICK u : u = x.text
  OBVIOUS
<1>4. RetryOutcome(x, r, c)
  BY <1>1, RetryEnds
<1>5. KeepsText(u, t, c)
  BY <1>1, <1>2, <1>3, RetryKeeps DEF Keeps
<1>6. CASE x.text = r.text
  BY <1>1, <1>6
<1>7. CASE Retaining(t) /\ t.retained.context = c
  <2>1. /\ Range(t.doc[c]) \subseteq Tok(home, c) /\ Waiting(t) \subseteq Tok(home, c)
        /\ t.engine = t.retained.view
        /\ t.engine # <<>> => t.comp.context \in {NoContext, c}
    BY <1>2, <1>7 DEF Owned, OwnedText, OwnedResult
  <2>2. /\ u.engine = t.engine /\ u.comp.context \in {t.comp.context, c, NoContext}
        /\ \A d \in Contexts \ {c} : u.doc[d] = t.doc[d]
        /\ Range(u.doc[c]) \subseteq Range(t.doc[c]) \cup Waiting(t)
        /\ Waiting(u) \subseteq Waiting(t)
    BY <1>5 DEF KeepsText, Grown
  <2>3. OwnedText(u, home)
    BY <1>2, <2>1, <2>2 DEF Owned, OwnedText
  <2>4. Range(t.engine) \subseteq Tok(home, c)
    BY <2>1 DEF Waiting
  <2>5. OwnedEngine(u, home)
    <3>1. CASE t.engine = <<>>
      <4>1. PICK e : e = t.engine
        OBVIOUS
      <4>2. Range(e) = {}
        BY <3>1, <4>1 DEF Range
      <4> QED
        BY <2>2, <4>1, <4>2 DEF OwnedEngine
    <3>2. CASE t.engine # <<>>
      BY <2>1, <2>2, <2>4, <3>2 DEF OwnedEngine
    <3> QED
      BY <3>1, <3>2
  <2>6. CASE x.text.retained = NoResult /\ (r.text.retained.view # <<>> => Composing(x.text, c))
    <3>1. ~Retaining(u)
      BY <1>3, <2>6, NothingTyped DEF Retaining
    <3>2. HeldByNobody(u)
      BY <1>2, <1>3, <2>1, <2>2, <2>6, NoContextAssumption DEF HeldByNobody, Composing
    <3> QED
      BY <1>1, <1>3, <2>3, <2>5, <3>1, <3>2 DEF Owned, OwnedResult
  <2>7. CASE SameResult(x.text, r.text)
    <3>1. /\ u.retained.context = c /\ u.retained.view = t.retained.view /\ Retaining(u)
      BY <1>2, <1>3, <1>7, <2>7 DEF SameResult, Retaining
    <3>2. OwnedResult(u, home)
      BY <2>1, <2>2, <3>1 DEF OwnedResult
    <3> QED
      BY <1>1, <1>3, <2>3, <2>5, <3>1, <3>2 DEF Owned, HeldByNobody
  <2> QED
    BY <1>2, <1>4, <1>6, <1>7, <2>6, <2>7 DEF RetryOutcome
<1> QED
  BY <1>2, <1>4, <1>6, <1>7 DEF RetryOutcome
-----------------------------------------------------------------------------
(* A new result is retained before any of it is done.                       *)
RetainedAs(u, t, N, c, commit, view) ==
  /\ Fits(u, N) /\ u.doc = t.doc /\ u.caret = t.caret /\ u.comp = t.comp /\ u.engine = t.engine
  /\ u.retained.context = c /\ u.retained.commit = commit /\ u.retained.view = view
  /\ u.retained.written = FALSE

LEMMA RetainedFits ==
  ASSUME NEW N, NEW t, Fits(t, N), NEW c \in Contexts, NEW commit \in Seq(N), NEW view \in Seq(N)
  PROVE  /\ Retained(t, c, commit, view).ok = TRUE
         /\ RetainedAs(Retained(t, c, commit, view).text, t, N, c, commit, view)
<1>1. PICK result : result = [NoResult EXCEPT !.context = c, !.commit = commit, !.view = view]
  OBVIOUS
<1>2. PICK u : u = [t EXCEPT !.retained = result]
  OBVIOUS
<1>3. Retained(t, c, commit, view) = Ok(u)
  BY <1>1, <1>2, Zenon DEF Retained
<1>4. result = ResultOf(c, commit, view, FALSE, FALSE, FALSE, 0)
  BY <1>1 DEF NoResult, ResultOf
<1>5. /\ result \in ResultType(N)
      /\ result.context = c /\ result.commit = commit /\ result.view = view
      /\ result.written = FALSE
  BY <1>4 DEF ResultOf, ResultType, Fields
<1>6. t \in TextType(N)
  BY DEF Fits
<1>7. /\ u \in TextType(N) /\ u.retained = result
      /\ u.doc = t.doc /\ u.caret = t.caret /\ u.comp = t.comp /\ u.engine = t.engine
  BY <1>2, <1>5, <1>6, RetainedSet
<1>8. PlacedCarets(u) /\ PlacedComposition(u) /\ PlacedWrite(u)
  BY <1>5, <1>7 DEF Fits, PlacedCarets, PlacedComposition, PlacedWrite
<1> QED
  BY <1>3, <1>5, <1>7, <1>8 DEF RetainedAs, Fits, Ok

(* The engine changed, and nothing else.                                    *)
WithEngine(t, e) == [t EXCEPT !.engine = e]
EngineAs(u, t, N, e) ==
  /\ Fits(u, N) /\ u.engine = e
  /\ u.doc = t.doc /\ u.caret = t.caret /\ u.comp = t.comp /\ u.retained = t.retained

LEMMA EngineFits ==
  ASSUME NEW N, NEW t, Fits(t, N), NEW e \in Seq(N)
  PROVE  EngineAs(WithEngine(t, e), t, N, e)
<1>1. PICK u : u = WithEngine(t, e)
  OBVIOUS
<1>2. t \in TextType(N) /\ u = [t EXCEPT !.engine = e]
  BY <1>1 DEF Fits, WithEngine
<1>3. /\ u \in TextType(N) /\ u.engine = e
      /\ u.doc = t.doc /\ u.caret = t.caret /\ u.comp = t.comp /\ u.retained = t.retained
  BY <1>2, EngineSet
<1>4. PlacedCarets(u) /\ PlacedComposition(u) /\ PlacedWrite(u)
  BY <1>3 DEF Fits, PlacedCarets, PlacedComposition, PlacedWrite, Unwritten, Retaining
<1> QED
  BY <1>1, <1>3, <1>4 DEF EngineAs, Fits

AbandonedAs(u, t, N) ==
  /\ Fits(u, N) /\ u.engine = <<>> /\ u.comp = NoComposition
  /\ u.doc = t.doc /\ u.caret = t.caret /\ u.retained = t.retained

LEMMA AbandonFits ==
  ASSUME NEW N, NEW t, Fits(t, N)
  PROVE  AbandonedAs(Abandon(t), t, N)
<1>1. PICK v : v = [t EXCEPT !.comp = NoComposition]
  OBVIOUS
<1>2. PICK e : e = <<>>
  OBVIOUS
<1>3. PICK u : u = WithEngine(v, e)
  OBVIOUS
<1>4. Abandon(t) = u
  BY <1>1, <1>2, <1>3, Zenon DEF Abandon, WithEngine
<1>5. /\ Fits(v, N) /\ v.comp = NoComposition /\ v.retained = t.retained
      /\ v.doc = t.doc /\ v.caret = t.caret
  BY <1>1, CompDroppedFits
<1>6. e \in Seq(N)
  BY <1>2
<1>7. EngineAs(u, v, N, e)
  BY <1>3, <1>5, <1>6, EngineFits
<1> QED
  BY <1>2, <1>4, <1>5, <1>7 DEF EngineAs, AbandonedAs

LEMMA ResetFits ==
  ASSUME NEW N, NEW r, Sound(r, N)
  PROVE  /\ ~r.ok => Reset(r) = r
         /\ r.ok => Reset(r).ok = TRUE /\ EngineAs(Reset(r).text, r.text, N, <<>>)
<1>1. ~r.ok => Reset(r) = r
  BY DEF Reset
<1>2. CASE r.ok
  <2>1. PICK t : t = r.text
    OBVIOUS
  <2>2. PICK e : e = <<>>
    OBVIOUS
  <2>3. PICK u : u = WithEngine(t, e)
    OBVIOUS
  <2>4. Reset(r) = Ok(u)
    BY <1>2, <2>1, <2>2, <2>3, Zenon DEF Reset, WithEngine
  <2>5. Fits(t, N) /\ e \in Seq(N)
    BY <2>1, <2>2 DEF Sound
  <2>6. EngineAs(u, t, N, e)
    BY <2>3, <2>5, EngineFits
  <2> QED
    BY <1>2, <2>1, <2>2, <2>4, <2>6 DEF Ok
<1> QED
  BY <1>1, <1>2
-----------------------------------------------------------------------------
(* commitCompositionForModeSwitch: the text stays, and when it succeeds the *)
(* engine is empty.                                                         *)
CommitAs(x, r, N) ==
  /\ Sound(x, N)
  /\ x.ok => r.ok /\ x.text.engine = <<>>
  /\ x.text.doc = r.text.doc /\ x.text.retained = r.text.retained
  /\ ~x.ok => x.text.engine = r.text.engine /\ x.text.comp = r.text.comp

LEMMA CaretBehindIs ==
  ASSUME NEW N, NEW t, Fits(t, N), ~Unwritten(t), NEW c \in Contexts, Composing(t, c),
         NEW u, u = [t EXCEPT !.caret[c] = t.comp.from + t.comp.len]
  PROVE  /\ Fits(u, N) /\ u.doc = t.doc /\ u.comp = t.comp /\ u.engine = t.engine
         /\ u.retained = t.retained
<1>1. PICK fault : fault = "none"
  OBVIOUS
<1>2. CaretBehind(t, c, fault) = Ok(u)
  BY <1>1, Zenon DEF CaretBehind
<1>3. Steady(CaretBehind(t, c, fault), N)
  BY CaretBehindFits
<1>4. Fits(u, N)
  BY <1>2, <1>3, OkAndFailed DEF Steady, Sound
<1>5. PICK k : k = t.comp.from + t.comp.len
  OBVIOUS
<1>6. t \in TextType(N) /\ k \in Nat /\ u = [t EXCEPT !.caret[c] = k]
  BY <1>5, TextFields DEF Fits
<1>7. u.doc = t.doc /\ u.comp = t.comp /\ u.engine = t.engine /\ u.retained = t.retained
  BY <1>6, OneCaretSet
<1> QED
  BY <1>4, <1>7

LEMMA CommitFits ==
  ASSUME NEW N, NEW r, Sound(r, N), r.ok => ~Retaining(r.text), NEW c \in Contexts, NEW fault
  PROVE  CommitAs(CommitComposition(r, c, fault), r, N)
<1>0. r.ok \in BOOLEAN /\ Fits(r.text, N)
  BY DEF Sound
<1>1. CASE ~r.ok
  <2>1. CommitComposition(r, c, fault) = r
    BY <1>1 DEF CommitComposition
  <2> QED
    BY <1>1, <2>1 DEF CommitAs
<1>2. CASE r.ok /\ ~Composing(r.text, c)
  <2>1. CommitComposition(r, c, fault) = Reset(r)
    BY <1>2 DEF CommitComposition
  <2>2. Reset(r).ok = TRUE /\ EngineAs(Reset(r).text, r.text, N, <<>>)
    BY <1>2, ResetFits
  <2> QED
    BY <1>2, <2>1, <2>2 DEF EngineAs, CommitAs, Sound
<1>3. CASE r.ok /\ Composing(r.text, c) /\ fault \in {"write", "caret"}
  <2>1. CommitComposition(r, c, fault) = Failed(r.text)
    BY <1>3 DEF CommitComposition
  <2> QED
    BY <1>0, <1>3, <2>1, OkAndFailed DEF CommitAs, Sound
<1>4. CASE r.ok /\ Composing(r.text, c) /\ fault \notin {"write", "caret"}
  <2>1. PICK t : t = r.text
    OBVIOUS
  <2>2. PICK u : u = [t EXCEPT !.caret[c] = t.comp.from + t.comp.len]
    OBVIOUS
  <2>3. CommitComposition(r, c, fault) = Reset(EndRange(u, fault))
    BY <1>4, <2>1, <2>2, Zenon DEF CommitComposition
  <2>4. Fits(t, N) /\ ~Unwritten(t) /\ Composing(t, c)
    BY <1>0, <1>4, <2>1 DEF Unwritten
  <2>5. /\ Fits(u, N) /\ u.doc = t.doc /\ u.comp = t.comp /\ u.engine = t.engine
        /\ u.retained = t.retained
    BY <2>2, <2>4, CaretBehindIs
  <2>6. CASE fault = "end"
    <3>1. PICK f : f = Failed(u)
      OBVIOUS
    <3>2. EndRange(u, fault) = f
      BY <2>6, <3>1 DEF EndRange
    <3>3. ~f.ok /\ f.text = u /\ f.ok \in BOOLEAN
      BY <3>1, OkAndFailed
    <3>4. Reset(f) = f
      BY <3>3 DEF Reset
    <3> QED
      BY <2>1, <2>3, <2>5, <3>2, <3>3, <3>4 DEF CommitAs, Sound
  <2>7. CASE fault # "end"
    <3>1. PICK v : v = [u EXCEPT !.comp = NoComposition]
      OBVIOUS
    <3>2. PICK e : e = Ok(v)
      OBVIOUS
    <3>3. EndRange(u, fault) = e
      BY <2>7, <3>1, <3>2, Zenon DEF EndRange
    <3>4. Fits(v, N) /\ v.retained = u.retained /\ v.doc = u.doc
      BY <2>5, <3>1, CompDroppedFits
    <3>5. e.ok /\ e.text = v /\ Sound(e, N)
      BY <3>2, <3>4, OkAndFailed, SoundResults
    <3>6. Reset(e).ok = TRUE /\ EngineAs(Reset(e).text, e.text, N, <<>>)
      BY <3>5, ResetFits
    <3> QED
      BY <1>4, <2>1, <2>3, <2>5, <3>3, <3>4, <3>5, <3>6 DEF EngineAs, CommitAs, Sound
  <2> QED
    BY <2>6, <2>7
<1> QED
  BY <1>0, <1>1, <1>2, <1>3, <1>4

(* A run keeps the text in place, and everything in its own field.          *)
Handles(x, t, N, home) ==
  Sound(x, N) /\ (Owned(t, home) => Owned(x.text, home))
Idles(r) == r.ok => ~Retaining(r.text)

LEMMA CommitHandles ==
  ASSUME NEW N, NEW home, NEW r, Sound(r, N), Idles(r), NEW c \in Contexts, NEW fault
  PROVE  /\ Handles(CommitComposition(r, c, fault), r.text, N, home)
         /\ Idles(CommitComposition(r, c, fault))
<1>1. PICK x : x = CommitComposition(r, c, fault)
  OBVIOUS
<1>2. CommitAs(x, r, N)
  BY <1>1, CommitFits DEF Idles
<1>3. Idles(x)
  BY <1>2 DEF CommitAs, Idles, Retaining
<1>4. ASSUME Owned(r.text, home) PROVE Owned(x.text, home)
  <2>1. CASE x.ok
    <3>1. x.text.doc = r.text.doc /\ x.text.engine = <<>> /\ ~Retaining(x.text)
      BY <1>2, <1>3, <2>1 DEF CommitAs, Idles
    <3> QED
      BY <1>4, <3>1, OwnedEmptied
  <2>2. CASE ~x.ok
    <3>1. /\ x.text.doc = r.text.doc /\ x.text.engine = r.text.engine
          /\ x.text.comp.context = r.text.comp.context /\ SameResult(x.text, r.text)
      BY <1>2, <2>2, SameItself DEF CommitAs
    <3> QED
      BY <1>4, <3>1, OwnedSame
  <2> QED
    BY <2>1, <2>2
<1> QED
  BY <1>1, <1>2, <1>3, <1>4 DEF CommitAs, Handles

LEMMA RetryHandles ==
  ASSUME NEW N, NEW home, NEW r, Sound(r, N), NEW c \in Contexts, NEW fault
  PROVE  /\ Handles(Retry(r, c, fault), r.text, N, home)
         /\ Idles(Retry(r, c, fault))
         /\ Retry(r, c, fault).ok => r.ok
<1>1. Owned(r.text, home) => Owned(Retry(r, c, fault).text, home)
  BY OwnedRetry
<1>2. LetGo(Retry(r, c, fault), N) /\ (Retry(r, c, fault).ok => r.ok)
  BY RetryFits
<1> QED
  BY <1>1, <1>2 DEF Handles, LetGo, Steady, Idles

(* A new result retained and tried at once: the engine holds what is shown. *)
Retainable(t, c, commit, view, home) ==
  /\ OwnedText(t, home) /\ OwnedEngine(t, home) /\ t.engine = view
  /\ Range(commit) \subseteq Tok(home, c) /\ Range(view) \subseteq Tok(home, c)
  /\ view # <<>> => t.comp.context \in {NoContext, c}

LEMMA RetainHandles ==
  ASSUME NEW N, NEW home, NEW t, Fits(t, N), NEW c \in Contexts,
         NEW commit \in Seq(N), NEW view \in Seq(N), NEW fault
  PROVE  /\ Sound(Retry(Retained(t, c, commit, view), c, fault), N)
         /\ Idles(Retry(Retained(t, c, commit, view), c, fault))
         /\ Retry(Retained(t, c, commit, view), c, fault).text.engine = t.engine
         /\ Retainable(t, c, commit, view, home) =>
              Owned(Retry(Retained(t, c, commit, view), c, fault).text, home)
<1>1. PICK r : r = Retained(t, c, commit, view)
  OBVIOUS
<1>2. PICK u : u = r.text
  OBVIOUS
<1>3. r.ok = TRUE /\ RetainedAs(u, t, N, c, commit, view)
  BY <1>1, <1>2, RetainedFits
<1>4. Sound(r, N)
  BY <1>2, <1>3 DEF RetainedAs, Sound
<1>5. ASSUME Retainable(t, c, commit, view, home)
      PROVE  Owned(u, home)
  <2>1. /\ u.doc = t.doc /\ u.engine = view /\ u.comp = t.comp
        /\ u.retained.context = c /\ u.retained.commit = commit /\ u.retained.view = view
    BY <1>3, <1>5 DEF RetainedAs, Retainable
  <2>2. Waiting(u) \subseteq Tok(home, c)
    BY <1>5, <2>1 DEF Waiting, Retainable
  <2>3. Retaining(u)
    BY <2>1, NoContextAssumption DEF Retaining
  <2>4. OwnedResult(u, home)
    BY <1>5, <2>1, <2>2 DEF OwnedResult, Retainable
  <2>5. OwnedText(u, home) /\ OwnedEngine(u, home)
    BY <1>5, <2>1 DEF OwnedText, OwnedEngine, Retainable
  <2> QED
    BY <2>3, <2>4, <2>5 DEF Owned, HeldByNobody
<1>6. /\ Handles(Retry(r, c, fault), r.text, N, home) /\ Idles(Retry(r, c, fault))
  BY <1>4, RetryHandles
<1>7. Keeps(Retry(r, c, fault), r, c)
  BY <1>4, RetryKeeps
<1> QED
  BY <1>1, <1>2, <1>3, <1>5, <1>6, <1>7 DEF Handles, Keeps, KeepsText, RetainedAs
-----------------------------------------------------------------------------
(* What the engine may answer: what it holds is what it shows, and all of   *)
(* it is the key and what it held.                                          *)
AnsweredAs(a, e, id, N) ==
  /\ a.engine \in Seq(N) /\ a.commit \in Seq(N) /\ a.view = a.engine
  /\ Range(a.engine) \cup Range(a.commit) \subseteq Range(e) \cup {id}

LEMMA RangeOfAppend ==
  ASSUME NEW N, NEW s \in Seq(N), NEW x \in N
  PROVE  Append(s, x) \in Seq(N) /\ Range(Append(s, x)) = Range(s) \cup {x}
<1>1. /\ Append(s, x) \in Seq(N) /\ Len(Append(s, x)) = Len(s) + 1 /\ Len(s) \in Nat
      /\ \A i \in 1 .. Len(s) : Append(s, x)[i] = s[i]
      /\ Append(s, x)[Len(s) + 1] = x
  OBVIOUS
<1>2. PICK r : r = Append(s, x)
  OBVIOUS
<1>3. /\ DOMAIN r = 1 .. Len(s) + 1 /\ DOMAIN s = 1 .. Len(s)
  BY <1>1, <1>2
<1>4. Range(r) \subseteq Range(s) \cup {x}
  <2>1. ASSUME NEW i \in 1 .. Len(s) + 1 PROVE r[i] \in Range(s) \cup {x}
    <3>1. CASE i \in 1 .. Len(s)
      BY <1>1, <1>2, <1>3, <3>1 DEF Range
    <3>2. CASE i = Len(s) + 1
      BY <1>1, <1>2, <3>2
    <3> QED
      BY <1>1, <3>1, <3>2
  <2> QED
    BY <1>3, <2>1 DEF Range
<1>5. Range(s) \subseteq Range(r)
  <2>1. ASSUME NEW i \in 1 .. Len(s) PROVE s[i] \in Range(r)
    <3>1. i \in 1 .. Len(s) + 1 /\ r[i] = s[i]
      BY <1>1, <1>2
    <3> QED
      BY <1>3, <3>1 DEF Range
  <2> QED
    BY <1>3, <2>1 DEF Range
<1>6. x \in Range(r)
  <2>1. Len(s) + 1 \in 1 .. Len(s) + 1 /\ r[Len(s) + 1] = x
    BY <1>1, <1>2
  <2> QED
    BY <1>3, <2>1 DEF Range
<1> QED
  BY <1>1, <1>2, <1>4, <1>5, <1>6

LEMMA RangeOfTail ==
  ASSUME NEW N, NEW s \in Seq(N), s # <<>>
  PROVE  /\ Head(s) \in N /\ Tail(s) \in Seq(N) /\ <<Head(s)>> \in Seq(N)
         /\ Range(s) = Range(Tail(s)) \cup {Head(s)}
         /\ Range(<<Head(s)>>) = {Head(s)}
<1>1. /\ Head(s) \in N /\ Tail(s) \in Seq(N) /\ Len(s) \in Nat /\ Len(s) > 0
      /\ Len(Tail(s)) = Len(s) - 1 /\ s[1] = Head(s)
      /\ \A i \in 1 .. Len(s) - 1 : Tail(s)[i] = s[i + 1]
  OBVIOUS
<1>2. PICK r : r = Tail(s)
  OBVIOUS
<1>3. DOMAIN r = 1 .. Len(s) - 1 /\ DOMAIN s = 1 .. Len(s)
  BY <1>1, <1>2
<1>4. Range(r) \subseteq Range(s)
  <2>1. ASSUME NEW i \in 1 .. Len(s) - 1 PROVE r[i] \in Range(s)
    <3>1. i + 1 \in 1 .. Len(s) /\ r[i] = s[i + 1]
      BY <1>1, <1>2
    <3> QED
      BY <1>3, <3>1 DEF Range
  <2> QED
    BY <1>3, <2>1 DEF Range
<1>5. Head(s) \in Range(s)
  BY <1>1, <1>3 DEF Range
<1>6. Range(s) \subseteq Range(r) \cup {Head(s)}
  <2>1. ASSUME NEW i \in 1 .. Len(s) PROVE s[i] \in Range(r) \cup {Head(s)}
    <3>1. CASE i = 1
      BY <1>1, <3>1
    <3>2. CASE i # 1
      <4>1. PICK k : k = i - 1
        OBVIOUS
      <4>2. k \in 1 .. Len(s) - 1 /\ k + 1 = i
        BY <1>1, <3>2, <4>1
      <4>3. r[k] = s[i]
        BY <1>1, <1>2, <4>2
      <4> QED
        BY <1>3, <4>2, <4>3 DEF Range
    <3> QED
      BY <3>1, <3>2
  <2> QED
    BY <1>3, <2>1 DEF Range
<1>7. PICK h : h = Head(s)
  OBVIOUS
<1>8. <<h>> \in Seq(N) /\ Range(<<h>>) = {h}
  BY <1>1, <1>7 DEF Range
<1> QED
  BY <1>1, <1>2, <1>4, <1>5, <1>6, <1>7, <1>8

LEMMA EngineAnswers ==
  ASSUME NEW N, NEW e \in Seq(N), NEW id \in N, NEW answer \in AllAnswers,
         answer = "shift" => e # <<>>
  PROVE  AnsweredAs(Answered(answer, e, id), e, id, N)
<1>1. PICK none : none = <<>>
  OBVIOUS
<1>2. none \in Seq(N) /\ Range(none) = {}
  BY <1>1 DEF Range
<1>3. CASE answer = "compose"
  <2>1. PICK w : w = Append(e, id)
    OBVIOUS
  <2>2. Answered(answer, e, id) = [engine |-> w, commit |-> none, view |-> w, handled |-> TRUE]
    BY <1>1, <1>3, <2>1 DEF Answered, Declining
  <2>3. w \in Seq(N) /\ Range(w) = Range(e) \cup {id}
    BY <2>1, RangeOfAppend
  <2> QED
    BY <1>2, <2>2, <2>3 DEF AnsweredAs
<1>4. CASE answer \in {"commit", "numpad"}
  <2>1. PICK w : w = Append(e, id)
    OBVIOUS
  <2>2. Answered(answer, e, id) = [engine |-> none, commit |-> w, view |-> none, handled |-> TRUE]
    BY <1>1, <1>4, <2>1 DEF Answered, Declining
  <2>3. w \in Seq(N) /\ Range(w) = Range(e) \cup {id}
    BY <2>1, RangeOfAppend
  <2> QED
    BY <1>2, <2>2, <2>3 DEF AnsweredAs
<1>5. CASE answer = "shift"
  <2>1. PICK s : s = Tail(e)
    OBVIOUS
  <2>2. PICK w : w = Append(s, id)
    OBVIOUS
  <2>3. PICK first : first = <<Head(e)>>
    OBVIOUS
  <2>4. Answered(answer, e, id) = [engine |-> w, commit |-> first, view |-> w, handled |-> TRUE]
    BY <1>5, <2>1, <2>2, <2>3 DEF Answered, Declining
  <2>5. /\ s \in Seq(N) /\ first \in Seq(N) /\ Range(e) = Range(s) \cup {Head(e)}
        /\ Range(first) = {Head(e)}
    BY <1>5, <2>1, <2>3, RangeOfTail
  <2>6. w \in Seq(N) /\ Range(w) = Range(s) \cup {id}
    BY <2>2, <2>5, RangeOfAppend
  <2> QED
    BY <2>4, <2>5, <2>6 DEF AnsweredAs
<1>6. CASE answer = "clear"
  <2>1. Answered(answer, e, id) = [engine |-> none, commit |-> none, view |-> none, handled |-> TRUE]
    BY <1>1, <1>6 DEF Answered, Declining
  <2> QED
    BY <1>2, <2>1 DEF AnsweredAs
<1>7. CASE answer = "flush"
  <2>1. Answered(answer, e, id) = [engine |-> none, commit |-> e, view |-> none, handled |-> FALSE]
    BY <1>1, <1>7 DEF Answered, Declining
  <2> QED
    BY <1>2, <2>1 DEF AnsweredAs
<1>8. CASE answer \in Declining
  <2>1. Answered(answer, e, id) = [engine |-> e, commit |-> none, view |-> e, handled |-> FALSE]
    BY <1>1, <1>8 DEF Answered, Declining
  <2> QED
    BY <1>2, <2>1 DEF AnsweredAs
<1> QED
  BY <1>3, <1>4, <1>5, <1>6, <1>7, <1>8 DEF AllAnswers, Declining
-----------------------------------------------------------------------------
(* The answer of the engine is consumed, or passed on to the host.          *)
LEMMA RanIs ==
  ASSUME NEW r, NEW op
  PROVE  Ran(r, op).ok = r.ok /\ Ran(r, op).text = r.text /\ Ran(r, op).op = op
  BY DEF Ran

(* A composition there may be is in field c.                                *)
Nearby(r, c) == r.ok => r.text.comp.context \in {NoContext, c}

(* A step of the run for a token of field c.                                *)
Serves(x, t, N, home, id, c) ==
  /\ Sound(x, N) /\ Idles(x)
  /\ Owned(t, home) /\ id \in Tok(home, c) => Owned(x.text, home)

LEMMA ConsumeServes ==
  ASSUME NEW N, NEW home, NEW t, Fits(t, N), NEW op, op.id \in N, op.context \in Contexts,
         ~Retaining(t), t.comp.context \in {NoContext, op.context},
         NEW a, AnsweredAs(a, t.engine, op.id, N), NEW fault
  PROVE  Serves(Consume(t, op, a, fault), t, N, home, op.id, op.context)
<1>1. PICK c : c = op.context
  OBVIOUS
<1>2. PICK e : e = a.engine
  OBVIOUS
<1>3. PICK u : u = WithEngine(t, e)
  OBVIOUS
<1>4. PICK commit : commit = a.commit
  OBVIOUS
<1>5. /\ e \in Seq(N) /\ commit \in Seq(N) /\ a.view = e
      /\ Range(e) \cup Range(commit) \subseteq Range(t.engine) \cup {op.id}
  BY <1>2, <1>4 DEF AnsweredAs
<1>6. PICK x : x = Retry(Retained(u, c, commit, e), c, fault)
  OBVIOUS
<1>7. Consume(t, op, a, fault) = Ran(x, Took(op, a.handled))
  BY <1>1, <1>2, <1>3, <1>4, <1>5, <1>6, Zenon DEF Consume, WithEngine
<1>8. EngineAs(u, t, N, e)
  BY <1>3, <1>5, EngineFits
<1>9. /\ Sound(x, N) /\ Idles(x)
      /\ Retainable(u, c, commit, e, home) => Owned(x.text, home)
  <2>1. Fits(u, N) /\ c \in Contexts
    BY <1>1, <1>8 DEF EngineAs
  <2> QED
    BY <1>5, <1>6, <2>1, RetainHandles
<1>10. ASSUME Owned(t, home), op.id \in Tok(home, c)
       PROVE  Retainable(u, c, commit, e, home)
  <2>1. t.comp.context \in {NoContext, c} /\ u.doc = t.doc /\ u.comp = t.comp /\ u.engine = e
    BY <1>1, <1>8 DEF EngineAs
  <2>2. Range(t.engine) \subseteq Tok(home, c)
    <3>1. CASE t.comp.context = NoContext
      BY <1>10, <3>1 DEF Owned, HeldByNobody, Range
    <3>2. CASE t.comp.context # NoContext
      BY <1>10, <2>1, <3>2 DEF Owned, OwnedEngine
    <3> QED
      BY <3>1, <3>2
  <2>3. Range(e) \subseteq Tok(home, c) /\ Range(commit) \subseteq Tok(home, c)
    BY <1>5, <1>10, <2>2
  <2> QED
    BY <1>10, <2>1, <2>3 DEF Retainable, Owned, OwnedText, OwnedEngine
<1> QED
  BY <1>1, <1>7, <1>9, <1>10, RanIs DEF Serves, Sound, Idles

LEMMA AskServes ==
  ASSUME NEW N, NEW home, NEW start, Sound(start, N), Idles(start), NEW op,
         op.id \in N, op.context \in Contexts, Nearby(start, op.context),
         NEW answer \in AllAnswers, answer = "shift" /\ start.ok => start.text.engine # <<>>,
         NEW fault
  PROVE  Serves(AskEngine(start, op, answer, fault), start.text, N, home, op.id, op.context)
<1>0. start.ok \in BOOLEAN /\ Fits(start.text, N)
  BY DEF Sound
<1>1. CASE ~start.ok
  <2>1. AskEngine(start, op, answer, fault) = Ran(start, op)
    BY <1>1, Zenon DEF AskEngine
  <2> QED
    BY <2>1, RanIs DEF Serves, Sound, Idles
<1>2. CASE start.ok /\ answer \in Declining
  <2>1. PICK clear : clear = FALSE
    OBVIOUS
  <2>2. PICK e : e = End(start, op.context, clear, fault)
    OBVIOUS
  <2>3. PICK u : u = IF start.text.engine = <<>> THEN e.text ELSE start.text
    OBVIOUS
  <2>4. AskEngine(start, op, answer, fault) = Ran(Ok(u), op)
    BY <1>2, <2>1, <2>2, <2>3, Zenon DEF AskEngine
  <2>5. clear \in BOOLEAN /\ Steady(start, N)
    BY <1>2, <2>1 DEF Steady, Idles, Unwritten
  <2>6. Steady(e, N) /\ e.text.retained = start.text.retained
    BY <2>2, <2>5, EndFits
  <2>7. Fits(u, N) /\ u.retained = start.text.retained
    BY <1>0, <2>3, <2>6 DEF Steady, Sound
  <2>8. ~Retaining(u)
    BY <1>2, <2>7 DEF Idles, Retaining
  <2>9. ASSUME Owned(start.text, home) PROVE Owned(u, home)
    <3>1. CASE start.text.engine = <<>>
      <4>1. e.text.engine = start.text.engine
        BY <2>2, <2>5, EndKeeps DEF Keeps, KeepsText
      <4>2. e.text.doc = start.text.doc
        <5>1. CASE Composing(start.text, op.context)
          <6>1. e = EndRange(start.text, fault)
            BY <1>2, <2>1, <2>2, <5>1, Zenon DEF End
          <6>2. CASE fault = "end"
            BY <6>1, <6>2, OkAndFailed DEF EndRange
          <6>3. CASE fault # "end"
            <7>1. PICK v : v = [start.text EXCEPT !.comp = NoComposition]
              OBVIOUS
            <7>2. e = Ok(v)
              BY <6>1, <6>3, <7>1, Zenon DEF EndRange
            <7>3. v.doc = start.text.doc
              BY <1>0, <7>1, CompDroppedFits
            <7> QED
              BY <7>2, <7>3, OkAndFailed
          <6> QED
            BY <6>2, <6>3
        <5>2. CASE ~Composing(start.text, op.context)
          BY <2>2, <5>2 DEF End
        <5> QED
          BY <5>1, <5>2
      <4>3. u.doc = start.text.doc /\ u.engine = <<>>
        BY <2>3, <3>1, <4>1, <4>2
      <4> QED
        BY <2>8, <2>9, <4>3, OwnedEmptied
    <3>2. CASE start.text.engine # <<>>
      BY <2>3, <2>9, <3>2
    <3> QED
      BY <3>1, <3>2
  <2>10. Sound(Ok(u), N) /\ Ok(u).text = u
    BY <2>7, SoundResults, OkAndFailed
  <2> QED
    BY <2>4, <2>8, <2>9, <2>10, RanIs DEF Serves, Sound, Idles
<1>3. CASE start.ok /\ answer \notin Declining
  <2>1. PICK t : t = start.text
    OBVIOUS
  <2>2. PICK a : a = Answered(answer, t.engine, op.id)
    OBVIOUS
  <2>3. AskEngine(start, op, answer, fault) = Consume(t, op, a, fault)
    BY <1>3, <2>1, <2>2, Zenon DEF AskEngine
  <2>4. t.engine \in Seq(N)
    BY <1>0, <2>1, TextFields DEF Fits
  <2>5. AnsweredAs(a, t.engine, op.id, N)
    <3>1. PICK e : e = t.engine
      OBVIOUS
    <3>2. PICK id : id = op.id
      OBVIOUS
    <3>3. e \in Seq(N) /\ id \in N /\ (answer = "shift" => e # <<>>)
      BY <1>3, <2>1, <2>4, <3>1, <3>2
    <3>4. AnsweredAs(Answered(answer, e, id), e, id, N)
      BY <3>3, EngineAnswers
    <3> QED
      BY <2>2, <3>1, <3>2, <3>4
  <2>6. Fits(t, N) /\ ~Retaining(t) /\ t.comp.context \in {NoContext, op.context}
    BY <1>0, <1>3, <2>1 DEF Nearby, Idles
  <2> QED
    BY <2>1, <2>3, <2>5, <2>6, ConsumeServes
<1> QED
  BY <1>0, <1>1, <1>2, <1>3
-----------------------------------------------------------------------------
(* ensureComposition as a whole.                                            *)
StartedAs(x, r, c) ==
  /\ x.text.doc = r.text.doc /\ x.text.engine = r.text.engine
  /\ x.text.retained = r.text.retained
  /\ x.text.comp.context \in {r.text.comp.context, c}
  /\ x.ok => r.ok /\ x.text.comp.context = c

LEMMA StartIs ==
  ASSUME NEW N, NEW r, Sound(r, N), NEW c \in Contexts, NEW fault
  PROVE  StartedAs(Start(r, c, fault), r, c)
<1>1. CASE ~r.ok \/ Composing(r.text, c)
  BY <1>1 DEF Start, Composing, StartedAs
<1>2. CASE r.ok /\ ~Composing(r.text, c) /\ (r.text.comp.context # NoContext \/ fault = "start")
  <2>1. Start(r, c, fault) = Failed(r.text)
    BY <1>2 DEF Start
  <2> QED
    BY <2>1, OkAndFailed DEF StartedAs
<1>3. CASE r.ok /\ ~Composing(r.text, c) /\ ~(r.text.comp.context # NoContext \/ fault = "start")
  <2>1. PICK t : t = r.text
    OBVIOUS
  <2>2. PICK comp : comp = [context |-> c, from |-> t.caret[c], len |-> 0]
    OBVIOUS
  <2>3. PICK u : u = [t EXCEPT !.comp = comp]
    OBVIOUS
  <2>4. Start(r, c, fault) = Ok(u)
    BY <1>3, <2>1, <2>2, <2>3, Zenon DEF Start
  <2>5. t \in TextType(N) /\ t.caret[c] \in Nat
    BY <2>1, TextFields DEF Sound, Fits, Carets
  <2>6. comp \in CompositionType /\ comp.context = c
    BY <2>2, <2>5 DEF CompositionType, Fields
  <2>7. /\ u.comp = comp /\ u.doc = t.doc /\ u.engine = t.engine /\ u.retained = t.retained
    BY <2>3, <2>5, <2>6, CompSet
  <2> QED
    BY <1>3, <2>1, <2>4, <2>6, <2>7, OkAndFailed DEF StartedAs
<1> QED
  BY <1>1, <1>2, <1>3

Startable(r, c, N, home) ==
  /\ Sound(r, N) /\ Idles(r) /\ Owned(r.text, home)
  /\ r.text.comp.context \in {NoContext, c}

LEMMA StartOwned ==
  ASSUME NEW N, NEW home, NEW r, NEW c \in Contexts, NEW fault, Startable(r, c, N, home)
  PROVE  Owned(Start(r, c, fault).text, home)
<1>0. /\ Sound(r, N) /\ Idles(r) /\ Owned(r.text, home)
      /\ r.text.comp.context \in {NoContext, c}
  BY DEF Startable
<1>1. PICK u : u = Start(r, c, fault).text
  OBVIOUS
<1>2. PICK t : t = r.text
  OBVIOUS
<1>3. /\ u.doc = t.doc /\ u.engine = t.engine /\ u.retained = t.retained
      /\ u.comp.context \in {t.comp.context, c}
  BY <1>0, <1>1, <1>2, StartIs DEF StartedAs
<1>4. CASE u.comp.context = t.comp.context
  BY <1>0, <1>1, <1>2, <1>3, <1>4, SameItself, OwnedSame
<1>5. CASE u.comp.context # t.comp.context
  <2>1. r.ok
    BY <1>1, <1>2, <1>5 DEF Start
  <2>2. ~Retaining(t) /\ t.comp.context = NoContext
    BY <1>0, <1>2, <1>3, <1>5, <2>1 DEF Idles
  <2>3. u.engine = <<>> /\ ~Retaining(u)
    BY <1>0, <1>2, <1>3, <2>2 DEF Owned, HeldByNobody, Retaining
  <2> QED
    BY <1>0, <1>1, <1>2, <1>3, <2>3, OwnedEmptied
<1> QED
  BY <1>4, <1>5

(* A composition in another field is given up before a key is processed.    *)
DetachedAs(u, t, N, c) ==
  /\ Fits(u, N) /\ u.doc = t.doc /\ u.retained = t.retained
  /\ u.comp.context \in {NoContext, c}
  /\ u.engine = <<>> \/ u.engine = t.engine
  /\ t.comp.context \in {NoContext, c} => u = t
  /\ t.comp.context \notin {NoContext, c} => u.engine = <<>>

LEMMA DetachedFits ==
  ASSUME NEW N, NEW t, Fits(t, N), NEW c \in Contexts
  PROVE  DetachedAs(Detached(t, c), t, N, c)
<1>1. CASE t.comp.context \in {NoContext, c}
  BY <1>1 DEF Detached, DetachedAs
<1>2. CASE t.comp.context \notin {NoContext, c}
  <2>1. Detached(t, c) = Abandon(t)
    BY <1>2 DEF Detached
  <2>2. AbandonedAs(Abandon(t), t, N)
    BY AbandonFits
  <2> QED
    BY <1>2, <2>1, <2>2, NothingTyped DEF AbandonedAs, DetachedAs
<1> QED
  BY <1>1, <1>2

LEMMA DetachedOwned ==
  ASSUME NEW N, NEW home, NEW t, Fits(t, N), ~Retaining(t), NEW c \in Contexts, Owned(t, home)
  PROVE  Owned(Detached(t, c), home)
<1>1. PICK u : u = Detached(t, c)
  OBVIOUS
<1>2. DetachedAs(u, t, N, c)
  BY <1>1, DetachedFits
<1>3. CASE t.comp.context \in {NoContext, c}
  BY <1>1, <1>2, <1>3 DEF DetachedAs
<1>4. CASE t.comp.context \notin {NoContext, c}
  <2>1. u.doc = t.doc /\ u.engine = <<>> /\ ~Retaining(u)
    BY <1>2, <1>4 DEF DetachedAs, Retaining
  <2> QED
    BY <1>1, <2>1, OwnedEmptied
<1> QED
  BY <1>3, <1>4

(* processKey: in English nothing comes into the engine.                    *)
KeyServed(x, t, N, home, id, c, mode) ==
  /\ Sound(x, N) /\ Idles(x)
  /\ Owned(t, home) /\ id \in Tok(home, c) /\ (mode \/ t.engine = <<>>) => Owned(x.text, home)
  /\ ~mode /\ t.engine = <<>> => x.text.engine = <<>>

LEMMA SingleToken ==
  ASSUME NEW N, NEW id \in N, NEW s, s = <<id>>
  PROVE  s \in Seq(N) /\ Range(s) = {id} /\ s # <<>>
  BY DEF Range

LEMMA TypeKeyServes ==
  ASSUME NEW N, NEW home, NEW t, Fits(t, N), NEW op, op.id \in N, op.context \in Contexts,
         NEW fault
  PROVE  KeyServed(TypeKey(t, op, fault), t, N, home, op.id, op.context, FALSE)
<1>1. PICK c : c = op.context
  OBVIOUS
<1>2. PICK commit : commit = <<op.id>>
  OBVIOUS
<1>3. PICK view : view = <<>>
  OBVIOUS
<1>4. PICK x : x = Retry(Retained(t, c, commit, view), c, fault)
  OBVIOUS
<1>5. TypeKey(t, op, fault) = Ran(x, Took(op, TRUE))
  BY <1>1, <1>2, <1>3, <1>4, Zenon DEF TypeKey
<1>6. commit \in Seq(N) /\ Range(commit) = {op.id}
  BY <1>2, SingleToken
<1>7. view \in Seq(N) /\ Range(view) = {}
  BY <1>3 DEF Range
<1>8. /\ Sound(x, N) /\ Idles(x) /\ x.text.engine = t.engine
      /\ Retainable(t, c, commit, view, home) => Owned(x.text, home)
  <2>1. c \in Contexts /\ commit \in Seq(N) /\ view \in Seq(N)
    BY <1>1, <1>6, <1>7
  <2>2. /\ Sound(Retry(Retained(t, c, commit, view), c, fault), N)
        /\ Idles(Retry(Retained(t, c, commit, view), c, fault))
        /\ Retry(Retained(t, c, commit, view), c, fault).text.engine = t.engine
        /\ Retainable(t, c, commit, view, home) =>
             Owned(Retry(Retained(t, c, commit, view), c, fault).text, home)
    BY <2>1, RetainHandles
  <2> QED
    BY <1>4, <2>2
<1>9. ASSUME Owned(t, home), op.id \in Tok(home, c), t.engine = <<>>
      PROVE  Retainable(t, c, commit, view, home)
  BY <1>3, <1>6, <1>7, <1>9 DEF Retainable, Owned
<1>10. PICK y : y = TypeKey(t, op, fault)
  OBVIOUS
<1>11. y.ok = x.ok /\ y.text = x.text
  BY <1>5, <1>10 DEF Ran
<1>12. Sound(y, N) /\ Idles(y) /\ y.text.engine = t.engine
  BY <1>8, <1>11 DEF Sound, Idles
<1>13. Owned(t, home) /\ op.id \in Tok(home, c) /\ t.engine = <<>> => Owned(y.text, home)
  BY <1>8, <1>9, <1>11
<1> QED
  BY <1>1, <1>10, <1>12, <1>13 DEF KeyServed

LEMMA ProcessServes ==
  ASSUME NEW N, NEW home, NEW r, Sound(r, N), Idles(r), NEW op,
         op.id \in N, op.context \in Contexts, NEW mode \in BOOLEAN, NEW answer \in AllAnswers,
         answer = "shift" => Detached(r.text, op.context).engine # <<>>, NEW fault
  PROVE  KeyServed(ProcessKey(r, op, mode, answer, fault), r.text, N, home, op.id, op.context, mode)
<1>0. r.ok \in BOOLEAN /\ Fits(r.text, N)
  BY DEF Sound
<1>1. PICK t : t = r.text
  OBVIOUS
<1>2. PICK c : c = op.context
  OBVIOUS
<1>3. PICK d : d = Detached(t, c)
  OBVIOUS
<1>4. DetachedAs(d, t, N, c)
  BY <1>0, <1>1, <1>2, <1>3, DetachedFits
<1>5. CASE ~r.ok \/ op.processed
  <2>1. ProcessKey(r, op, mode, answer, fault) = Ran(r, op)
    BY <1>5 DEF ProcessKey
  <2> QED
    BY <1>0, <2>1, RanIs DEF KeyServed, Sound, Idles
<1>6. CASE ~(~r.ok \/ op.processed) /\ mode
  <2>1. PICK s : s = Ok(d)
    OBVIOUS
  <2>2. PICK start : start = Begun(d, c, answer, fault)
    OBVIOUS
  <2>11. PICK g : g = Start(s, c, fault)
    OBVIOUS
  <2>12. start = s \/ start = g
    BY <2>1, <2>2, <2>11, Zenon DEF Begun
  <2>3. ProcessKey(r, op, mode, answer, fault) = AskEngine(start, op, answer, fault)
    BY <1>1, <1>2, <1>3, <1>6, <2>2 DEF ProcessKey
  <2>4. ~Retaining(d)
    BY <1>1, <1>4, <1>6 DEF DetachedAs, Idles, Retaining
  <2>5. Sound(s, N) /\ Steady(s, N) /\ Idles(s) /\ s.text = d
    BY <1>4, <2>1, <2>4, OkAndFailed, SoundResults DEF DetachedAs, Idles, Unwritten
  <2>6. Steady(g, N) /\ g.text.retained = s.text.retained
    BY <1>2, <2>5, <2>11, StartFits
  <2>7. Idles(start) /\ Sound(start, N)
    BY <2>4, <2>5, <2>6, <2>12 DEF Idles, Retaining, Steady
  <2>13. StartedAs(g, s, c)
    BY <1>2, <2>5, <2>11, StartIs
  <2>8. start.text.engine = d.engine
    BY <2>5, <2>12, <2>13 DEF StartedAs
  <2>14. Nearby(start, c)
    BY <1>4, <2>5, <2>12, <2>13 DEF StartedAs, DetachedAs, Nearby
  <2>9. Serves(AskEngine(start, op, answer, fault), start.text, N, home, op.id, op.context)
    <3>1. answer = "shift" /\ start.ok => start.text.engine # <<>>
      BY <1>1, <1>2, <1>3, <2>8
    <3> QED
      BY <1>2, <2>7, <2>14, <3>1, AskServes
  <2>10. ASSUME Owned(t, home) PROVE Owned(start.text, home)
    <3>1. Owned(d, home)
      BY <1>0, <1>1, <1>2, <1>3, <1>6, <2>10, DetachedOwned DEF Idles
    <3>2. s.text.comp.context \in {NoContext, c} /\ Owned(s.text, home)
      BY <1>4, <2>5, <3>1 DEF DetachedAs
    <3>3. c \in Contexts /\ Startable(s, c, N, home)
      BY <1>2, <2>5, <3>2 DEF Startable
    <3>4. Owned(g.text, home)
      BY <2>11, <3>3, StartOwned
    <3> QED
      BY <2>12, <3>2, <3>4
  <2> QED
    BY <1>1, <1>6, <2>3, <2>9, <2>10 DEF Serves, KeyServed
<1>7. CASE ~(~r.ok \/ op.processed) /\ ~mode
  <2>1. ProcessKey(r, op, mode, answer, fault) = TypeKey(d, op, fault)
    BY <1>1, <1>2, <1>3, <1>7 DEF ProcessKey
  <2>2. KeyServed(TypeKey(d, op, fault), d, N, home, op.id, op.context, FALSE)
    <3>1. Fits(d, N)
      BY <1>4 DEF DetachedAs
    <3> QED
      BY <3>1, TypeKeyServes
  <2>3. t.engine = <<>> => d.engine = <<>>
    BY <1>4 DEF DetachedAs
  <2>4. Owned(t, home) => Owned(d, home)
    BY <1>0, <1>1, <1>2, <1>3, <1>7, DetachedOwned DEF Idles
  <2> QED
    BY <1>1, <1>7, <2>1, <2>2, <2>3, <2>4 DEF KeyServed
<1> QED
  BY <1>5, <1>6, <1>7
-----------------------------------------------------------------------------
(* A character inserted behind whatever was composed.                       *)
Emptied(r) == r.ok => r.text.engine = <<>>
Inserted(x, r, N, home, id, c) ==
  /\ Sound(x, N) /\ Idles(x) /\ x.text.engine = r.text.engine
  /\ Owned(r.text, home) /\ id \in Tok(home, c) => Owned(x.text, home)

LEMMA InsertServes ==
  ASSUME NEW N, NEW home, NEW r, Sound(r, N), Idles(r), Emptied(r), NEW op,
         op.id \in N, op.context \in Contexts, NEW fault
  PROVE  Inserted(Insert(r, op, fault), r, N, home, op.id, op.context)
<1>1. CASE ~r.ok
  BY <1>1 DEF Insert, Inserted
<1>2. CASE r.ok
  <2>1. PICK t : t = r.text
    OBVIOUS
  <2>2. Insert(r, op, fault)
          = Retry(Retained(t, op.context, <<op.id>>, <<>>), op.context, fault)
    BY <1>2, <2>1 DEF Insert
  <2>3. TypeKey(t, op, fault) = Ran(Insert(r, op, fault), Took(op, TRUE))
    BY <2>2 DEF TypeKey
  <2>4. PICK x : x = Insert(r, op, fault)
    OBVIOUS
  <2>5. PICK y : y = TypeKey(t, op, fault)
    OBVIOUS
  <2>6. y.ok = x.ok /\ y.text = x.text
    BY <2>3, <2>4, <2>5 DEF Ran
  <2>7. Fits(t, N) /\ t.engine = <<>>
    BY <1>2, <2>1 DEF Sound, Emptied
  <2>8. KeyServed(TypeKey(t, op, fault), t, N, home, op.id, op.context, FALSE)
    BY <2>7, TypeKeyServes
  <2>9. /\ Sound(y, N) /\ Idles(y) /\ y.text.engine = <<>>
        /\ Owned(t, home) /\ op.id \in Tok(home, op.context) => Owned(y.text, home)
    BY <2>5, <2>7, <2>8 DEF KeyServed
  <2> QED
    BY <2>1, <2>4, <2>6, <2>7, <2>9 DEF Inserted, Sound, Idles
<1> QED
  BY <1>1, <1>2 DEF Sound

(* The composition is committed and then the character inserted.            *)
CommitInserted(x, r, N, home, id, c) ==
  /\ Sound(x, N) /\ Idles(x)
  /\ r.text.engine = <<>> => x.text.engine = <<>>
  /\ Owned(r.text, home) /\ id \in Tok(home, c) => Owned(x.text, home)

LEMMA CommitInsertServes ==
  ASSUME NEW N, NEW home, NEW r, Sound(r, N), Idles(r), NEW op,
         op.id \in N, op.context \in Contexts, NEW fault
  PROVE  CommitInserted(Insert(CommitComposition(r, op.context, fault), op, fault),
                        r, N, home, op.id, op.context)
<1>1. PICK m : m = CommitComposition(r, op.context, fault)
  OBVIOUS
<1>2. CommitAs(CommitComposition(r, op.context, fault), r, N)
  BY CommitFits DEF Idles
<1>3. /\ Handles(CommitComposition(r, op.context, fault), r.text, N, home)
      /\ Idles(CommitComposition(r, op.context, fault))
  BY CommitHandles
<1>4. Sound(m, N) /\ Idles(m) /\ Emptied(m)
  BY <1>1, <1>2, <1>3 DEF CommitAs, Emptied
<1>5. Inserted(Insert(m, op, fault), m, N, home, op.id, op.context)
  BY <1>4, InsertServes
<1>6. r.text.engine = <<>> => m.text.engine = <<>>
  BY <1>1, <1>2 DEF CommitAs, Sound
<1>7. Owned(r.text, home) => Owned(m.text, home)
  BY <1>1, <1>3 DEF Handles
<1> QED
  BY <1>1, <1>5, <1>6, <1>7 DEF Inserted, CommitInserted

LEMMA RunKeyServes ==
  ASSUME NEW N, NEW home, NEW run, Sound(run, N), Idles(run),
         run.op.id \in N, run.op.context \in Contexts, NEW fault
  PROVE  CommitInserted(RunKey(run, fault), run, N, home, run.op.id, run.op.context)
<1>1. CASE ~run.ok \/ run.op.handled \/ ~(run.op.ordered \/ run.op.accepted)
  BY <1>1 DEF RunKey, CommitInserted
<1>2. CASE ~(~run.ok \/ run.op.handled \/ ~(run.op.ordered \/ run.op.accepted))
  <2>1. PICK op : op = run.op
    OBVIOUS
  <2>2. PICK r : r = Ok(run.text)
    OBVIOUS
  <2>3. PICK m : m = CommitComposition(r, op.context, fault)
    OBVIOUS
  <2>4. PICK x : x = Insert(m, op, fault)
    OBVIOUS
  <2>5. RunKey(run, fault) = InsertKey(m, op, fault)
    BY <1>2, <2>1, <2>2, <2>3 DEF RunKey
  <2>6. PICK o : o = IF m.ok THEN Took(op, TRUE) ELSE op
    OBVIOUS
  <2>7. InsertKey(m, op, fault) = Ran(x, o)
    BY <2>4, <2>6, Zenon DEF InsertKey
  <2>8. r.text = run.text /\ Sound(r, N) /\ Idles(r)
    BY <1>2, <2>2, OkAndFailed, SoundResults DEF Sound, Idles
  <2>9. op.id \in N /\ op.context \in Contexts
    BY <2>1
  <2>10. CommitInserted(Insert(CommitComposition(r, op.context, fault), op, fault),
                        r, N, home, op.id, op.context)
    BY <2>8, <2>9, CommitInsertServes
  <2>11. CommitInserted(x, r, N, home, op.id, op.context)
    BY <2>3, <2>4, <2>10
  <2>12. PICK y : y = RunKey(run, fault)
    OBVIOUS
  <2>13. y.ok = x.ok /\ y.text = x.text
    BY <2>5, <2>7, <2>12 DEF Ran
  <2> QED
    BY <2>1, <2>8, <2>11, <2>12, <2>13 DEF CommitInserted, Sound, Idles
<1> QED
  BY <1>1, <1>2

(* runInput.                                                                *)
RunServes(x, t, op, mode, N, home) ==
  /\ Sound(x, N) /\ Idles(x)
  /\ /\ Owned(t, home) /\ (mode \/ t.engine = <<>>)
     /\ op.kind # "mode" => op.id \in Tok(home, op.context)
     => Owned(x.text, home)
  /\ ~mode /\ t.engine = <<>> => x.text.engine = <<>>
  /\ op.kind = "mode" /\ x.ok => x.text.engine = <<>>

LEMMA RunModeServes ==
  ASSUME NEW N, NEW home, NEW r, Sound(r, N), Idles(r), NEW op, op.context \in Contexts,
         op.kind = "mode", NEW mode \in BOOLEAN, NEW fault
  PROVE  RunServes(RunMode(CommitComposition(r, op.context, fault), op, fault), r.text,
                   op, mode, N, home)
<1>1. PICK m : m = CommitComposition(r, op.context, fault)
  OBVIOUS
<1>2. CommitAs(CommitComposition(r, op.context, fault), r, N)
  BY CommitFits DEF Idles
<1>3. /\ Handles(CommitComposition(r, op.context, fault), r.text, N, home)
      /\ Idles(CommitComposition(r, op.context, fault))
  BY CommitHandles
<1>4. PICK x : x = RunMode(m, op, fault)
  OBVIOUS
<1>5. PICK y : y = IF m.ok /\ fault = "publish" THEN Failed(m.text) ELSE m
  OBVIOUS
<1>6. x.ok = y.ok /\ x.text = y.text
  BY <1>4, <1>5, RanIs DEF RunMode
<1>7. y.text = m.text /\ (y.ok => m.ok) /\ y.ok \in BOOLEAN
  BY <1>1, <1>2, <1>5, OkAndFailed DEF CommitAs, Sound
<1>8. Sound(x, N) /\ Idles(x)
  BY <1>1, <1>3, <1>6, <1>7 DEF Handles, Sound, Idles
<1>9. x.ok => x.text.engine = <<>>
  BY <1>1, <1>2, <1>6, <1>7 DEF CommitAs
<1>10. r.text.engine = <<>> => x.text.engine = <<>>
  BY <1>1, <1>2, <1>6, <1>7 DEF CommitAs, Sound
<1>11. Owned(r.text, home) => Owned(x.text, home)
  BY <1>1, <1>3, <1>6, <1>7 DEF Handles
<1> QED
  BY <1>1, <1>4, <1>8, <1>9, <1>10, <1>11 DEF RunServes

(* The three kinds of operation, with what the queue keeps of them.         *)
LEMMA RunOperationServes ==
  ASSUME NEW N, NEW home, NEW r, Sound(r, N), Idles(r), NEW op \in OperationType,
         op.id \in N, op.context \in Contexts, op.kind \in {"key", "symbol", "mode"},
         NEW mode \in BOOLEAN, NEW answer \in Answers,
         answer = "shift" => Detached(r.text, op.context).engine # <<>>, NEW fault
  PROVE  RunServes(RunOperation(r, op, mode, answer, fault), r.text, op, mode, N, home)
<1>1. CASE op.kind = "key"
  <2>1. PICK run : run = ProcessKey(r, op, mode, answer, fault)
    OBVIOUS
  <2>2. RunOperation(r, op, mode, answer, fault) = RunKey(run, fault)
    BY <1>1, <2>1 DEF RunOperation
  <2>3. answer \in AllAnswers
    BY AnswersAssumption
  <2>4. KeyServed(ProcessKey(r, op, mode, answer, fault), r.text, N, home, op.id, op.context, mode)
    BY <2>3, ProcessServes
  <2>5. RanFrom(op, run.op)
    BY <2>1, EngineLeavesOperation
  <2>6. run.op.id = op.id /\ run.op.context = op.context
    BY <2>5, RunKeepsIdentity DEF RanFrom
  <2>7. /\ Sound(run, N) /\ Idles(run)
        /\ Owned(r.text, home) /\ op.id \in Tok(home, op.context) /\ (mode \/ r.text.engine = <<>>)
             => Owned(run.text, home)
        /\ ~mode /\ r.text.engine = <<>> => run.text.engine = <<>>
    BY <2>1, <2>4 DEF KeyServed
  <2>8. run.op.id \in N /\ run.op.context \in Contexts
    BY <2>6
  <2>9. CommitInserted(RunKey(run, fault), run, N, home, run.op.id, run.op.context)
    BY <2>7, <2>8, RunKeyServes
  <2> QED
    BY <1>1, <2>2, <2>6, <2>7, <2>9 DEF CommitInserted, RunServes
<1>2. CASE op.kind = "symbol"
  <2>1. PICK x : x = Insert(CommitComposition(r, op.context, fault), op, fault)
    OBVIOUS
  <2>2. PICK y : y = IF answer = "pass" THEN r ELSE x
    OBVIOUS
  <2>3. RunOperation(r, op, mode, answer, fault) = Ran(y, op)
    BY <1>2, <2>1, <2>2 DEF RunOperation, RunSymbol
  <2>4. CommitInserted(Insert(CommitComposition(r, op.context, fault), op, fault),
                        r, N, home, op.id, op.context)
    BY CommitInsertServes
  <2>5. CommitInserted(y, r, N, home, op.id, op.context)
    BY <2>1, <2>2, <2>4 DEF CommitInserted
  <2> QED
    BY <1>2, <2>3, <2>5, RanIs DEF CommitInserted, RunServes, Sound, Idles
<1>3. CASE op.kind = "mode"
  <2>1. RunOperation(r, op, mode, answer, fault)
          = RunMode(CommitComposition(r, op.context, fault), op, fault)
    BY <1>3 DEF RunOperation
  <2> QED
    BY <1>3, <2>1, RunModeServes
<1> QED
  BY <1>1, <1>2, <1>3

LEMMA RunInputServes ==
  ASSUME NEW N, NEW home, NEW t, Fits(t, N), NEW op \in OperationType,
         op.id \in N, op.context \in Contexts, op.kind \in {"key", "symbol", "mode"},
         NEW mode \in BOOLEAN, NEW answer \in Answerable(t, op.context), NEW fault
  PROVE  RunServes(RunInput(t, op, mode, answer, fault), t, op, mode, N, home)
<1>1. PICK c : c = op.context
  OBVIOUS
<1>2. PICK s : s = Ok(t)
  OBVIOUS
<1>3. PICK r : r = Retry(s, c, fault)
  OBVIOUS
<1>4. RunInput(t, op, mode, answer, fault) = RunOperation(r, op, mode, answer, fault)
  BY <1>1, <1>2, <1>3, NoContextAssumption DEF RunInput
<1>5. s.text = t /\ Sound(s, N) /\ c \in Contexts
  BY <1>1, <1>2, OkAndFailed, SoundResults
<1>6. Handles(Retry(s, c, fault), s.text, N, home) /\ Idles(Retry(s, c, fault))
  BY <1>5, RetryHandles
<1>7. Keeps(Retry(s, c, fault), s, c)
  BY <1>5, RetryKeeps
<1>8. r.text.engine = t.engine /\ r.text.comp.context \in {t.comp.context, c, NoContext}
  BY <1>3, <1>5, <1>7 DEF Keeps, KeepsText
<1>9. answer \in Answers /\ (answer = "shift" => Detached(t, c).engine # <<>>)
  BY <1>1 DEF Answerable
<1>10. answer = "shift" => Detached(r.text, c).engine # <<>>
  <2>1. DetachedAs(Detached(t, c), t, N, c)
    BY <1>5, DetachedFits
  <2>2. Fits(r.text, N)
    BY <1>3, <1>6 DEF Handles, Sound
  <2>3. DetachedAs(Detached(r.text, c), r.text, N, c)
    BY <1>5, <2>2, DetachedFits
  <2>4. CASE t.comp.context \in {NoContext, c}
    <3>1. Detached(r.text, c) = r.text /\ Detached(t, c) = t
      BY <1>8, <2>1, <2>3, <2>4 DEF DetachedAs
    <3> QED
      BY <1>8, <1>9, <3>1
  <2>5. CASE t.comp.context \notin {NoContext, c}
    BY <1>9, <2>1, <2>5 DEF DetachedAs
  <2> QED
    BY <2>4, <2>5
<1>11. RunServes(RunOperation(r, op, mode, answer, fault), r.text, op, mode, N, home)
  <2>1. Sound(r, N) /\ Idles(r)
    BY <1>3, <1>6 DEF Handles
  <2>2. answer = "shift" => Detached(r.text, op.context).engine # <<>>
    BY <1>1, <1>10
  <2> QED
    BY <1>9, <2>1, <2>2, RunOperationServes
<1>12. Owned(t, home) => Owned(r.text, home)
  BY <1>3, <1>5, <1>6 DEF Handles
<1> QED
  BY <1>4, <1>8, <1>11, <1>12 DEF RunServes
-----------------------------------------------------------------------------
(* The host types a character, and what becomes of carets, composition and  *)
(* the place of an unfinished write.                                        *)
TypedAs(u, t, N, c, id) ==
  /\ Fits(u, N)
  /\ u.doc[c] = Replaced(t.doc[c], t.caret[c], 0, <<id>>)
  /\ \A d \in Contexts \ {c} : u.doc[d] = t.doc[d]
  /\ u.comp.context = t.comp.context /\ u.comp.len = t.comp.len
  /\ u.comp.from = t.comp.from + (IF Composing(t, c) /\ t.caret[c] <= t.comp.from THEN 1 ELSE 0)
  /\ u.engine = t.engine /\ SameResult(u, t)
  /\ u.retained.written = t.retained.written /\ u.retained.needsEnd = t.retained.needsEnd

LEMMA HostTypesFields ==
  ASSUME NEW N, NEW t \in TextType(N), NEW c \in Contexts, NEW id
  PROVE  HostTypes(t, c, id)
           = TextOf([t.doc EXCEPT ![c] = Replaced(t.doc[c], t.caret[c], 0, <<id>>)],
                    [t.caret EXCEPT ![c] = t.caret[c] + 1],
                    PartOf(t.comp.context,
                           t.comp.from + (IF Composing(t, c) /\ t.caret[c] <= t.comp.from THEN 1 ELSE 0),
                           t.comp.len + (IF /\ Composing(t, c) /\ t.caret[c] > t.comp.from
                                            /\ t.caret[c] < t.comp.from + t.comp.len THEN 1 ELSE 0)),
                    t.engine,
                    ResultOf(t.retained.context, t.retained.commit, t.retained.view,
                             t.retained.written, t.retained.caretSet, t.retained.needsEnd,
                             t.retained.at
                               + (IF t.retained.context = c /\ t.caret[c] < t.retained.at THEN 1 ELSE 0)))
<1>1. PICK p : p = t.caret[c]
  OBVIOUS
<1>2. PICK f : f = IF Composing(t, c) /\ p <= t.comp.from THEN 1 ELSE 0
  OBVIOUS
<1>3. PICK l : l = IF /\ Composing(t, c) /\ p > t.comp.from
                      /\ p < t.comp.from + t.comp.len THEN 1 ELSE 0
  OBVIOUS
<1>4. PICK s : s = IF t.retained.context = c /\ p < t.retained.at THEN 1 ELSE 0
  OBVIOUS
<1>5. PICK doc : doc = [t.doc EXCEPT ![c] = Replaced(t.doc[c], p, 0, <<id>>)]
  OBVIOUS
<1>6. PICK caret : caret = [t.caret EXCEPT ![c] = p + 1]
  OBVIOUS
<1>7. PICK a1 : a1 = [t EXCEPT !.doc[c] = Replaced(@, p, 0, <<id>>)]
  OBVIOUS
<1>8. a1 = TextOf(doc, t.caret, t.comp, t.engine, t.retained)
  <2>1. a1 = [t EXCEPT !.doc = doc]
    BY <1>5, <1>7
  <2> QED
    BY <2>1, TextIs, FieldsOf
<1>9. PICK a2 : a2 = [a1 EXCEPT !.caret[c] = p + 1]
  OBVIOUS
<1>10. a2 = TextOf(doc, caret, t.comp, t.engine, t.retained)
  <2>1. a1.caret = t.caret
    BY <1>8, FieldsOf
  <2>2. a2 = [a1 EXCEPT !.caret = caret]
    BY <1>6, <1>9, <2>1
  <2> QED
    BY <1>8, <2>2, FieldsOf
<1>11. PICK a3 : a3 = [a2 EXCEPT !.comp.from = @ + (IF Composing(t, c) /\ p <= @ THEN 1 ELSE 0)]
  OBVIOUS
<1>12. PICK part : part = PartOf(t.comp.context, t.comp.from + f, t.comp.len)
  OBVIOUS
<1>13. a3 = TextOf(doc, caret, part, t.engine, t.retained)
  <2>1. a2.comp = t.comp
    BY <1>10, FieldsOf
  <2>2. [t.comp EXCEPT !.from = t.comp.from + f] = part
    BY <1>12, TextIs, PartsOf
  <2>3. a3 = [a2 EXCEPT !.comp = [a2.comp EXCEPT !.from = @ + f]]
    BY <1>2, <1>11, <2>1
  <2>4. a3 = [a2 EXCEPT !.comp = part]
    BY <2>1, <2>2, <2>3
  <2> QED
    BY <1>10, <2>4, FieldsOf
<1>14. PICK a4 : a4 = [a3 EXCEPT !.comp.len = @ + (IF /\ Composing(t, c) /\ p > t.comp.from
                                 /\ p < t.comp.from + @ THEN 1 ELSE 0)]
  OBVIOUS
<1>15. PICK whole : whole = PartOf(t.comp.context, t.comp.from + f, t.comp.len + l)
  OBVIOUS
<1>16. a4 = TextOf(doc, caret, whole, t.engine, t.retained)
  <2>1. a3.comp = part /\ part.len = t.comp.len
    BY <1>12, <1>13, FieldsOf, PartsOf
  <2>2. [part EXCEPT !.len = t.comp.len + l] = whole
    BY <1>12, <1>15, PartsOf
  <2>3. a4 = [a3 EXCEPT !.comp = [a3.comp EXCEPT !.len = @ + l]]
    BY <1>3, <1>14, <2>1
  <2>4. a4 = [a3 EXCEPT !.comp = whole]
    BY <2>1, <2>2, <2>3
  <2> QED
    BY <1>13, <2>4, FieldsOf
<1>17. PICK a5 : a5 = [a4 EXCEPT !.retained.at = @ + (IF t.retained.context = c /\ p < @ THEN 1 ELSE 0)]
  OBVIOUS
<1>18. PICK result : result = ResultOf(t.retained.context, t.retained.commit, t.retained.view,
                             t.retained.written, t.retained.caretSet, t.retained.needsEnd,
                             t.retained.at + s)
  OBVIOUS
<1>19. a5 = TextOf(doc, caret, whole, t.engine, result)
  <2>1. a4.retained = t.retained
    BY <1>16, FieldsOf
  <2>2. [t.retained EXCEPT !.at = t.retained.at + s] = result
    BY <1>18, TextIs, ResultsOf
  <2>3. a5 = [a4 EXCEPT !.retained = [a4.retained EXCEPT !.at = @ + s]]
    BY <1>4, <1>17, <2>1
  <2>4. a5 = [a4 EXCEPT !.retained = result]
    BY <2>1, <2>2, <2>3
  <2> QED
    BY <1>16, <2>4, FieldsOf
<1>20. HostTypes(t, c, id) = a5
  <2>1. PICK b3 : b3 = [t EXCEPT !.doc[c] = Replaced(@, p, 0, <<id>>),
                                 !.caret[c] = p + 1,
                                 !.comp.from = @ + (IF Composing(t, c) /\ p <= @ THEN 1 ELSE 0)]
    OBVIOUS
  <2>2. b3 = a3
    BY <1>7, <1>9, <1>11, <2>1, Zenon
  <2>3. PICK b4 : b4 = [t EXCEPT !.doc[c] = Replaced(@, p, 0, <<id>>),
                                 !.caret[c] = p + 1,
                                 !.comp.from = @ + (IF Composing(t, c) /\ p <= @ THEN 1 ELSE 0),
                                 !.comp.len = @ + (IF /\ Composing(t, c) /\ p > t.comp.from
                                                      /\ p < t.comp.from + @ THEN 1 ELSE 0)]
    OBVIOUS
  <2>4. b4 = [b3 EXCEPT !.comp.len = @ + (IF /\ Composing(t, c) /\ p > t.comp.from
                                             /\ p < t.comp.from + @ THEN 1 ELSE 0)]
    BY <2>1, <2>3, Zenon
  <2>5. b4 = a4
    BY <1>14, <2>2, <2>4
  <2>6. PICK b5 : b5 = [t EXCEPT !.doc[c] = Replaced(@, p, 0, <<id>>),
                                 !.caret[c] = p + 1,
                                 !.comp.from = @ + (IF Composing(t, c) /\ p <= @ THEN 1 ELSE 0),
                                 !.comp.len = @ + (IF /\ Composing(t, c) /\ p > t.comp.from
                                                      /\ p < t.comp.from + @ THEN 1 ELSE 0),
                                 !.retained.at = @ + (IF t.retained.context = c /\ p < @ THEN 1 ELSE 0)]
    OBVIOUS
  <2>7. b5 = [b4 EXCEPT !.retained.at = @ + (IF t.retained.context = c /\ p < @ THEN 1 ELSE 0)]
    BY <2>3, <2>6, Zenon
  <2>8. b5 = a5
    BY <1>17, <2>5, <2>7
  <2>9. HostTypes(t, c, id) = b5
    BY <1>1, <2>6, Zenon DEF HostTypes
  <2> QED
    BY <2>8, <2>9
<1> QED
  BY <1>1, <1>2, <1>3, <1>4, <1>5, <1>6, <1>15, <1>18, <1>19, <1>20
-----------------------------------------------------------------------------
(* A character of the host goes in front of the composition and of the place *)
(* of an unfinished write, or behind them, never into them: the caret is not *)
(* inside the composition, and that place is its end.                       *)
LEMMA HostTypesFits ==
  ASSUME NEW N, NEW t, Fits(t, N), NEW c \in Contexts, NEW id \in N
  PROVE  TypedAs(HostTypes(t, c, id), t, N, c, id)
<1>1. PICK u : u = HostTypes(t, c, id)
  OBVIOUS
<1>2. PICK p : p = t.caret[c]
  OBVIOUS
<1>3. PICK f : f = IF Composing(t, c) /\ p <= t.comp.from THEN 1 ELSE 0
  OBVIOUS
<1>4. PICK l : l = IF /\ Composing(t, c) /\ p > t.comp.from
                      /\ p < t.comp.from + t.comp.len THEN 1 ELSE 0
  OBVIOUS
<1>5. PICK s : s = IF t.retained.context = c /\ p < t.retained.at THEN 1 ELSE 0
  OBVIOUS
<1>6. PICK new : new = <<id>>
  OBVIOUS
<1>7. PICK doc : doc = Edited(t.doc, c, p, 0, new)
  OBVIOUS
<1>8. PICK caret : caret = [t.caret EXCEPT ![c] = p + 1]
  OBVIOUS
<1>9. PICK part : part = PartOf(t.comp.context, t.comp.from + f, t.comp.len + l)
  OBVIOUS
<1>10. PICK result : result = ResultOf(t.retained.context, t.retained.commit, t.retained.view,
                             t.retained.written, t.retained.caretSet, t.retained.needsEnd,
                             t.retained.at + s)
  OBVIOUS
<1>11. u = TextOf(doc, caret, part, t.engine, result)
  <2>1. t \in TextType(N)
    BY DEF Fits
  <2>2. HostTypes(t, c, id)
           = TextOf([t.doc EXCEPT ![c] = Replaced(t.doc[c], t.caret[c], 0, <<id>>)],
                    [t.caret EXCEPT ![c] = t.caret[c] + 1],
                    PartOf(t.comp.context,
                           t.comp.from + (IF Composing(t, c) /\ t.caret[c] <= t.comp.from THEN 1 ELSE 0),
                           t.comp.len + (IF /\ Composing(t, c) /\ t.caret[c] > t.comp.from
                                            /\ t.caret[c] < t.comp.from + t.comp.len THEN 1 ELSE 0)),
                    t.engine,
                    ResultOf(t.retained.context, t.retained.commit, t.retained.view,
                             t.retained.written, t.retained.caretSet, t.retained.needsEnd,
                             t.retained.at
                               + (IF t.retained.context = c /\ t.caret[c] < t.retained.at THEN 1 ELSE 0)))
    BY <2>1, HostTypesFields
  <2> QED
    BY <1>1, <1>2, <1>3, <1>4, <1>5, <1>6, <1>7, <1>8, <1>9, <1>10, <2>2 DEF Edited
<1>12. /\ t \in TextType(N) /\ t.doc \in Docs(N) /\ t.caret \in Carets
       /\ t.comp.context \in Fields /\ t.comp.from \in Nat /\ t.comp.len \in Nat
       /\ t.engine \in Seq(N) /\ t.retained \in ResultType(N)
       /\ t.retained.context \in Fields /\ t.retained.at \in Nat
       /\ t.retained.commit \in Seq(N) /\ t.retained.view \in Seq(N)
       /\ t.retained.written \in BOOLEAN /\ t.retained.caretSet \in BOOLEAN
       /\ t.retained.needsEnd \in BOOLEAN
  BY TextFields DEF Fits
<1>13. p \in Nat /\ t.doc[c] \in Seq(N) /\ p <= Len(t.doc[c])
  BY <1>2, <1>12 DEF Docs, Carets, Fits, PlacedCarets
<1>14. new \in Seq(N) /\ Len(new) = 1
  BY <1>6
<1>15. f \in {0, 1} /\ s \in {0, 1}
  BY <1>3, <1>5
<1>16. l = 0
  <2>1. CASE Composing(t, c)
    <3>1. ~(t.comp.from < p /\ p < t.comp.from + t.comp.len)
      BY <1>2, <2>1, NoContextAssumption DEF Composing, Fits, PlacedComposition
    <3> QED
      BY <1>4, <1>12, <1>13, <3>1
  <2> QED
    BY <1>4, <2>1
<1>17. /\ doc \in Docs(N)
       /\ doc[c] = Replaced(t.doc[c], p, 0, new)
       /\ Len(doc[c]) = Len(t.doc[c]) + 1
       /\ \A d \in Contexts \ {c} : doc[d] = t.doc[d]
  <2>1. /\ Edited(t.doc, c, p, 0, new) \in Docs(N)
        /\ Edited(t.doc, c, p, 0, new)[c] = Replaced(t.doc[c], p, 0, new)
        /\ Len(Edited(t.doc, c, p, 0, new)[c]) = Len(t.doc[c]) - 0 + Len(new)
        /\ \A d \in Contexts \ {c} : Edited(t.doc, c, p, 0, new)[d] = t.doc[d]
    <3>1. PICK z : z = 0
      OBVIOUS
    <3>2. z \in Nat /\ p \in Nat /\ p + z <= Len(t.doc[c])
      BY <1>13, <3>1
    <3>3. /\ Edited(t.doc, c, p, z, new) \in Docs(N)
          /\ Edited(t.doc, c, p, z, new)[c] = Replaced(t.doc[c], p, z, new)
          /\ Len(Edited(t.doc, c, p, z, new)[c]) = Len(t.doc[c]) - z + Len(new)
          /\ \A d \in Contexts \ {c} : Edited(t.doc, c, p, z, new)[d] = t.doc[d]
      <4>1. PICK od : od = t.doc
        OBVIOUS
      <4>2. od \in Docs(N) /\ p + z <= Len(od[c])
        BY <1>12, <3>2, <4>1
      <4>3. /\ Edited(od, c, p, z, new) \in Docs(N)
            /\ Edited(od, c, p, z, new)[c] = Replaced(od[c], p, z, new)
            /\ \A d \in Contexts \ {c} : Edited(od, c, p, z, new)[d] = od[d]
        BY <1>14, <3>2, <4>2, EditedField
      <4>4. Len(Edited(od, c, p, z, new)[c]) = Len(od[c]) - z + Len(new)
        <5>1. PICK o : o = od[c]
          OBVIOUS
        <5>2. o \in Seq(N) /\ p + z <= Len(o)
          BY <4>2, <5>1 DEF Docs
        <5>3. Len(Replaced(o, p, z, new)) = Len(o) - z + Len(new)
          <6>1. new \in Seq(N)
            BY <1>14
          <6>2. Spliced(Replaced(o, p, z, new), o, N, p, z, new)
            BY <3>2, <5>2, <6>1, PlacesOfReplaced
          <6> QED
            BY <6>2 DEF Spliced
        <5> QED
          BY <4>3, <5>1, <5>3
      <4> QED
        BY <4>1, <4>3, <4>4
    <3> QED
      BY <3>1, <3>3
  <2> QED
    BY <1>7, <1>13, <1>14, <2>1
<1>18. /\ caret \in Carets /\ caret[c] = p + 1
       /\ \A d \in Contexts \ {c} : caret[d] = t.caret[d]
  BY <1>8, <1>12, <1>13 DEF Carets
<1>19. /\ part \in CompositionType
       /\ part.context = t.comp.context /\ part.from = t.comp.from + f /\ part.len = t.comp.len
  BY <1>9, <1>12, <1>15, <1>16 DEF PartOf, CompositionType
<1>20. /\ result \in ResultType(N)
       /\ result.context = t.retained.context /\ result.commit = t.retained.commit
       /\ result.view = t.retained.view /\ result.written = t.retained.written
       /\ result.caretSet = t.retained.caretSet /\ result.needsEnd = t.retained.needsEnd
       /\ result.at = t.retained.at + s
  BY <1>10, <1>12, <1>15 DEF ResultOf, ResultType
<1>21. u \in TextType(N)
  BY <1>11, <1>12, <1>17, <1>18, <1>19, <1>20, TypeOfText
<1>22. u.doc = doc /\ u.caret = caret /\ u.comp = part /\ u.engine = t.engine /\ u.retained = result
  BY <1>11, FieldsOf
<1>23. PlacedCarets(u)
  <2>1. \A d \in Contexts \ {c} : t.caret[d] <= Len(t.doc[d])
    BY DEF Fits, PlacedCarets
  <2>2. caret[c] <= Len(doc[c])
    BY <1>13, <1>17, <1>18
  <2> QED
    BY <1>17, <1>18, <1>22, <2>1, <2>2 DEF PlacedCarets
<1>24. PICK from : from = t.comp.from
  OBVIOUS
<1>25. PICK len : len = t.comp.len
  OBVIOUS
<1>26. PICK size : size = Len(t.doc[c])
  OBVIOUS
<1>27. from \in Nat /\ len \in Nat /\ size \in Nat
  BY <1>12, <1>13, <1>24, <1>25, <1>26
<1>28. Composing(t, c) => /\ from + len <= size
                          /\ ~(from < p /\ p < from + len)
                          /\ f = IF p <= from THEN 1 ELSE 0
  BY <1>2, <1>3, <1>24, <1>25, <1>26, NoContextAssumption DEF Composing, Fits, PlacedComposition
<1>29. ~Composing(t, c) => f = 0
  BY <1>3
<1>30. PlacedComposition(u)
  <2>1. CASE Composing(t, c)
    <3>1. from + f + len <= size + 1 /\ ~(from + f < p + 1 /\ p + 1 < from + f + len)
      BY <1>13, <1>27, <1>28, <2>1
    <3>2. /\ u.comp.context = c /\ u.comp.from = from + f /\ u.comp.len = len
          /\ u.caret[c] = p + 1 /\ Len(u.doc[c]) = size + 1
      BY <1>17, <1>18, <1>19, <1>22, <1>24, <1>25, <1>26, <2>1 DEF Composing
    <3> QED
      BY <3>1, <3>2, NoContextAssumption DEF PlacedComposition
  <2>2. CASE ~Composing(t, c)
    <3>1. u.comp = t.comp
      <4>1. part = PartOf(t.comp.context, t.comp.from, t.comp.len)
        BY <1>9, <1>12, <1>16, <1>29, <2>2
      <4> QED
        BY <1>12, <1>22, <4>1, TextIs
    <3>2. t.comp.context # NoContext => t.comp.context \in Contexts \ {c}
      BY <1>12, <2>2 DEF Fields, Composing
    <3> QED
      BY <1>17, <1>18, <1>22, <3>1, <3>2 DEF Fits, PlacedComposition
  <2> QED
    BY <2>1, <2>2
<1>31. PlacedWrite(u)
  <2> SUFFICES ASSUME Unwritten(u), u.retained.written = TRUE
               PROVE  /\ u.retained.at <= Len(u.doc[u.retained.context])
                      /\ u.comp.context = u.retained.context =>
                           /\ u.retained.needsEnd = TRUE /\ u.comp.len # 0
                           /\ u.retained.at = u.comp.from + u.comp.len
    BY DEF PlacedWrite
  <2>1. Unwritten(t) /\ t.retained.written = TRUE
    BY <1>20, <1>22 DEF Unwritten, Retaining
  <2>2. PICK at : at = t.retained.at
    OBVIOUS
  <2>3. PICK r : r = t.retained.context
    OBVIOUS
  <2>4. r \in Contexts /\ at \in Nat
    BY <1>12, <2>1, <2>2, <2>3 DEF Unwritten, Retaining, Fields
  <2>5. /\ at <= Len(t.doc[r])
        /\ t.comp.context = r => t.retained.needsEnd = TRUE /\ len # 0 /\ at = from + len
    BY <1>24, <1>25, <2>1, <2>2, <2>3 DEF Fits, PlacedWrite
  <2>6. s = IF r = c /\ p < at THEN 1 ELSE 0
    BY <1>5, <2>2, <2>3
  <2>7. CASE r = c
    <3>1. u.retained.at = at + s /\ u.retained.context = c /\ Len(u.doc[c]) = size + 1
      BY <1>17, <1>20, <1>22, <1>26, <2>2, <2>3, <2>7
    <3>2. at + s <= size + 1
      BY <1>15, <1>26, <1>27, <2>4, <2>5, <2>7
    <3>3. ASSUME Composing(t, c)
          PROVE  t.retained.needsEnd = TRUE /\ len # 0 /\ at + s = from + f + len
      <4>1. t.retained.needsEnd = TRUE /\ len # 0 /\ at = from + len
        BY <2>5, <2>7, <3>3 DEF Composing
      <4>2. ~(from < p /\ p < from + len) /\ f = (IF p <= from THEN 1 ELSE 0)
        BY <1>28, <3>3
      <4>3. s = IF p < from + len THEN 1 ELSE 0
        BY <2>6, <2>7, <4>1
      <4>4. p \in Nat
        BY <1>13
      <4>5. s = f
        BY <1>27, <4>1, <4>2, <4>3, <4>4
      <4> QED
        BY <1>15, <1>27, <4>1, <4>5
    <3> QED
      BY <1>19, <1>20, <1>22, <1>24, <1>25, <3>1, <3>2, <3>3 DEF Composing
  <2>8. CASE r # c
    <3>1. u.retained.at = at /\ u.retained.context = r /\ u.doc[r] = t.doc[r]
      BY <1>17, <1>20, <1>22, <2>2, <2>3, <2>4, <2>6, <2>8
    <3>2. t.comp.context = r => f = 0
      BY <1>29, <2>8 DEF Composing
    <3> QED
      BY <1>19, <1>20, <1>22, <1>24, <1>25, <1>27, <2>5, <3>1, <3>2
  <2> QED
    BY <2>7, <2>8
<1>32. /\ u.comp.context = t.comp.context /\ u.comp.len = t.comp.len
       /\ u.comp.from = t.comp.from + (IF Composing(t, c) /\ t.caret[c] <= t.comp.from THEN 1 ELSE 0)
  BY <1>2, <1>3, <1>19, <1>22
<1> QED
  BY <1>1, <1>2, <1>6, <1>17, <1>20, <1>21, <1>22, <1>23, <1>30, <1>31, <1>32
  DEF TypedAs, Fits, SameResult

LEMMA HostTypesOwned ==
  ASSUME NEW N, NEW home, NEW t, Fits(t, N), NEW c \in Contexts, NEW id \in N,
         id \in Tok(home, c), Owned(t, home)
  PROVE  Owned(HostTypes(t, c, id), home)
<1>1. PICK u : u = HostTypes(t, c, id)
  OBVIOUS
<1>2. TypedAs(u, t, N, c, id)
  BY <1>1, HostTypesFits
<1>3. /\ u.doc[c] = Replaced(t.doc[c], t.caret[c], 0, <<id>>)
      /\ \A d \in Contexts \ {c} : u.doc[d] = t.doc[d]
      /\ u.comp.context = t.comp.context /\ u.engine = t.engine /\ SameResult(u, t)
  BY <1>2 DEF TypedAs
<1>4. (Retaining(u) <=> Retaining(t)) /\ Waiting(u) = Waiting(t)
  BY <1>3 DEF SameResult, Retaining, Waiting
<1>5. PICK s : s = t.doc[c]
  OBVIOUS
<1>6. PICK p : p = t.caret[c]
  OBVIOUS
<1>7. PICK new : new = <<id>>
  OBVIOUS
<1>8. s \in Seq(N) /\ p \in Nat /\ p + 0 <= Len(s) /\ 0 \in Nat /\ new \in Seq(N)
  BY <1>5, <1>6, <1>7, TextFields DEF Fits, Docs, Carets, PlacedCarets
<1>9. Range(Replaced(s, p, 0, new)) \subseteq Range(s) \cup Range(new)
  BY <1>8, RangeOfReplaced
<1>10. Range(new) = {id}
  BY <1>7 DEF Range
<1>11. Range(s) \subseteq Tok(home, c)
  BY <1>5 DEF Owned, OwnedText
<1>12. OwnedText(u, home)
  BY <1>3, <1>5, <1>6, <1>7, <1>9, <1>10, <1>11 DEF Owned, OwnedText
<1> QED
  BY <1>1, <1>3, <1>4, <1>12 DEF Owned, OwnedEngine, OwnedResult, HeldByNobody, SameResult
-----------------------------------------------------------------------------
(* cancelInput: the retained result is dropped, the rest stays.             *)
CancelledAs(u, t, N) ==
  /\ Fits(u, N) /\ u.doc = t.doc /\ u.comp = t.comp /\ u.engine = t.engine
  /\ ~Retaining(u)

LEMMA CancelledFits ==
  ASSUME NEW N, NEW t, Fits(t, N)
  PROVE  CancelledAs(Cancelled(t), t, N)
<1>1. PICK u : u = Cancelled(t)
  OBVIOUS
<1>2. PICK caret : caret = [c \in Contexts |-> Len(t.doc[c])]
  OBVIOUS
<1>3. PICK v : v = [t EXCEPT !.retained = NoResult]
  OBVIOUS
<1>4. u = [v EXCEPT !.caret = caret]
  BY <1>1, <1>2, <1>3, Zenon DEF Cancelled
<1>5. t \in TextType(N) /\ t.doc \in Docs(N) /\ t.comp \in CompositionType
  BY TextFields DEF Fits
<1>6. NoResult \in ResultType(N) /\ NoResult.context = NoContext
  BY NothingTyped
<1>7. /\ v \in TextType(N) /\ v.retained = NoResult
      /\ v.doc = t.doc /\ v.comp = t.comp /\ v.engine = t.engine
  BY <1>3, <1>5, <1>6, RetainedSet
<1>8. \A c \in Contexts : Len(t.doc[c]) \in Nat
  BY <1>5 DEF Docs
<1>9. caret \in Carets /\ \A c \in Contexts : caret[c] = Len(t.doc[c])
  BY <1>2, <1>8 DEF Carets
<1>10. /\ u \in TextType(N) /\ u.caret = caret /\ u.doc = t.doc /\ u.comp = t.comp
       /\ u.engine = t.engine /\ u.retained = NoResult
  BY <1>4, <1>7, <1>9, CaretsSet
<1>11. ~Retaining(u)
  BY <1>6, <1>10 DEF Retaining
<1>12. PlacedCarets(u)
  BY <1>8, <1>9, <1>10 DEF PlacedCarets
<1>13. PlacedComposition(u)
  <2>1. CASE t.comp.context \in Contexts
    <3>1. PICK c : c = t.comp.context
      OBVIOUS
    <3>2. PICK size : size = Len(t.doc[c])
      OBVIOUS
    <3>3. PICK end : end = t.comp.from + t.comp.len
      OBVIOUS
    <3>4. end \in Nat /\ size \in Nat /\ end <= size
      BY <1>5, <1>8, <2>1, <3>1, <3>2, <3>3, NoContextAssumption
      DEF Fits, PlacedComposition, CompositionType
    <3>5. u.caret[c] = size /\ ~(size < end)
      BY <1>9, <1>10, <2>1, <3>1, <3>2, <3>4
    <3> QED
      BY <1>10, <2>1, <3>1, <3>2, <3>3, <3>4, <3>5, NoContextAssumption DEF PlacedComposition
  <2>2. CASE t.comp.context \notin Contexts
    <3>1. t.comp.context = NoContext
      BY <1>5, <2>2 DEF CompositionType, Fields
    <3> QED
      BY <1>10, <3>1 DEF Fits, PlacedComposition
  <2> QED
    BY <2>1, <2>2
<1>14. PlacedWrite(u)
  BY <1>11 DEF PlacedWrite, Unwritten
<1> QED
  BY <1>1, <1>10, <1>11, <1>12, <1>13, <1>14 DEF CancelledAs, Fits

LEMMA CancelledOwned ==
  ASSUME NEW N, NEW home, NEW t, Fits(t, N), Owned(t, home),
         t.comp.context = NoContext => t.engine = <<>>
  PROVE  Owned(Cancelled(t), home)
<1>1. CancelledAs(Cancelled(t), t, N)
  BY CancelledFits
<1>2. PICK u : u = Cancelled(t)
  OBVIOUS
<1>3. u.doc = t.doc /\ u.comp = t.comp /\ u.engine = t.engine /\ ~Retaining(u)
  BY <1>1, <1>2 DEF CancelledAs
<1> QED
  BY <1>2, <1>3 DEF Owned, OwnedText, OwnedEngine, OwnedResult, HeldByNobody

(* The composition and the engine are given up as well.                     *)
DroppedAs(u, t, N, home) ==
  /\ Fits(u, N) /\ u.engine = <<>>
  /\ Owned(t, home) => Owned(u, home)

LEMMA DroppedServes ==
  ASSUME NEW N, NEW home, NEW t, Fits(t, N)
  PROVE  DroppedAs(Abandon(Cancelled(t)), t, N, home)
<1>1. PICK v : v = Cancelled(t)
  OBVIOUS
<1>2. CancelledAs(v, t, N)
  BY <1>1, CancelledFits
<1>3. Fits(v, N) /\ v.doc = t.doc /\ ~Retaining(v)
  BY <1>2 DEF CancelledAs
<1>4. PICK u : u = Abandon(v)
  OBVIOUS
<1>5. AbandonedAs(u, v, N)
  BY <1>3, <1>4, AbandonFits
<1>6. Fits(u, N) /\ u.engine = <<>> /\ u.doc = t.doc /\ ~Retaining(u)
  BY <1>3, <1>5 DEF AbandonedAs, Retaining
<1>7. Owned(t, home) => Owned(u, home)
  BY <1>6, OwnedEmptied
<1> QED
  BY <1>1, <1>4, <1>6, <1>7 DEF DroppedAs
-----------------------------------------------------------------------------
(* A later token changes nothing about the earlier ones.                    *)
LEMMA FitsMore ==
  ASSUME NEW N, NEW M, N \subseteq M, NEW t, Fits(t, N)
  PROVE  Fits(t, M)
<1>1. Seq(N) \subseteq Seq(M)
  OBVIOUS
<1>2. PICK a : a = Seq(N)
  OBVIOUS
<1>3. PICK b : b = Seq(M)
  OBVIOUS
<1>4. a \subseteq b
  BY <1>1, <1>2, <1>3
<1>5. [Contexts -> a] \subseteq [Contexts -> b]
  BY <1>4
<1>6. ResultType(N) \subseteq ResultType(M)
  BY <1>2, <1>3, <1>4 DEF ResultType
<1>7. t \in TextType(N)
  BY DEF Fits
<1>8. t \in TextType(M)
  BY <1>2, <1>3, <1>4, <1>5, <1>6, <1>7 DEF TextType, Docs
<1> QED
  BY <1>8 DEF Fits

LEMMA OwnedMore ==
  ASSUME NEW home, NEW more, NEW t, \A c : Tok(home, c) \subseteq Tok(more, c), Owned(t, home)
  PROVE  Owned(t, more)
<1>1. OwnedText(t, more)
  BY DEF Owned, OwnedText
<1>2. OwnedEngine(t, more)
  BY DEF Owned, OwnedEngine
<1>3. OwnedResult(t, more)
  BY DEF Owned, OwnedResult
<1> QED
  BY <1>1, <1>2, <1>3 DEF Owned

LEMMA TokensMore ==
  ASSUME NEW S, NEW home \in Seq(S), NEW x \in S
  PROVE  /\ \A c : Tok(home, c) \subseteq Tok(Append(home, x), c)
         /\ Len(home) + 1 \in Tok(Append(home, x), x)
  BY DEF Tok
-----------------------------------------------------------------------------
(* What waits in the queue, or is being asked for, is input for a field of  *)
(* this thread; each queued key and symbol has the field of its token.      *)
InputKinds == {"key", "symbol", "mode"}
Call(op) == op.context \in Contexts /\ op.kind \in InputKinds
Entry(op, home) == Call(op) /\ (op.kind # "mode" => op.id \in Tok(home, op.context))
QueueOwned ==
  /\ \A i \in DOMAIN queue : Entry(queue[i], typedIn)
  /\ request.stage \in {"push", "append"} => Call(request.op)
  /\ request.stage = "return" => Entry(request.op, typedIn)

(* The same operation, whatever its run left in it.                         *)
Kin(x, y) == x.id = y.id /\ x.kind = y.kind /\ x.context = y.context

(* Nothing new is queued, and the request is the same one or over.          *)
Thinned == \A i \in DOMAIN queue' : \E j \in DOMAIN queue : Kin(queue'[i], queue[j])
Carried ==
  \/ request'.stage = "none"
  \/ Kin(request'.op, request.op) /\ request'.stage = request.stage
  \/ Kin(request'.op, request.op) /\ request.stage = "push" /\ request'.stage = "append"

LEMMA QueueOwnedKept ==
  ASSUME QueueOwned, Thinned, Carried, typedIn' = typedIn
  PROVE  QueueOwned'
<1>1. \A x, y : Kin(x, y) /\ Call(y) => Call(x)
  BY DEF Kin, Call
<1>2. \A x, y : Kin(x, y) /\ Entry(y, typedIn) => Entry(x, typedIn)
  BY DEF Kin, Call, Entry
<1>3. \A i \in DOMAIN queue' : Entry(queue'[i], typedIn)
  BY <1>2 DEF QueueOwned, Thinned
<1>4. request'.stage \in {"push", "append"} => Call(request'.op)
  BY <1>1 DEF QueueOwned, Carried
<1>5. request'.stage = "return" => Entry(request'.op, typedIn)
  BY <1>2 DEF QueueOwned, Carried
<1> QED
  BY <1>3, <1>4, <1>5 DEF QueueOwned

LEMMA SameIsThinned ==
  ASSUME queue' = queue
  PROVE  Thinned
  BY DEF Thinned, Kin

LEMMA EmptyIsThinned ==
  ASSUME queue' = <<>>
  PROVE  Thinned
  BY DEF Thinned

LEMMA CompletionThins ==
  ASSUME QInv, queue # <<>>, NEW op \in OperationType, Kin(op, Oldest), NEW outcome,
         CompleteInput(op, outcome)
  PROVE  Thinned
<1>1. /\ queue \in Seq(OperationType) /\ Len(queue) \in Nat \ {0} /\ DOMAIN queue = 1 .. Len(queue)
      /\ Oldest = queue[1] /\ Tail(queue) \in Seq(OperationType) /\ Len(Tail(queue)) = Len(queue) - 1
      /\ \A i \in 1 .. Len(queue) - 1 : Tail(queue)[i] = queue[i + 1]
  BY TypedState, FrontAndRest DEF Oldest
<1>2. CASE queue' = Tail(queue)
  <2>1. \A i \in DOMAIN queue' : i + 1 \in DOMAIN queue /\ queue'[i] = queue[i + 1]
    BY <1>1, <1>2
  <2> QED
    BY <2>1 DEF Thinned, Kin
<1>3. CASE queue' = <<>>
  BY <1>3, EmptyIsThinned
<1>4. CASE queue' = <<op>> \o Tail(queue)
  <2>1. /\ queue' \in Seq(OperationType) /\ Len(queue') = Len(queue) /\ queue'[1] = op
        /\ \A i \in 2 .. Len(queue) : queue'[i] = queue[i]
    BY <1>1, <1>4, PutBack
  <2>2. \A i \in DOMAIN queue' : i \in DOMAIN queue /\ (i = 1 \/ queue'[i] = queue[i])
    BY <1>1, <2>1
  <2>3. Kin(queue'[1], queue[1])
    BY <1>1, <2>1
  <2> QED
    BY <2>2, <2>3 DEF Thinned, Kin
<1> QED
  BY <1>2, <1>3, <1>4, CompletionShape

LEMMA GrantThins ==
  ASSUME QInv, Grant
  PROVE  Thinned
<1>1. /\ queue \in Seq(OperationType) /\ queue # <<>>
  BY TypedState DEF Grant, Ready
<1>2. 1 \in DOMAIN queue /\ queue[1] \in OperationType
  BY <1>1
<1>3. PICK op : op = [queue[1] EXCEPT !.accepted = TRUE]
  OBVIOUS
<1>4. Kin(op, queue[1])
  BY <1>2, <1>3 DEF OperationType, Kin
<1>5. queue' = [queue EXCEPT ![1] = op]
  BY <1>3, Zenon DEF Grant
<1>6. DOMAIN queue' = DOMAIN queue /\ queue'[1] = op
      /\ \A i \in DOMAIN queue \ {1} : queue'[i] = queue[i]
  BY <1>1, <1>2, <1>5
<1> QED
  BY <1>2, <1>4, <1>6 DEF Thinned, Kin

LEMMA AnswerCarries ==
  ASSUME QInv, NEW op \in OperationType, NEW outcome
  PROVE  Kin(Answer(op, outcome).op, request.op) /\ Answer(op, outcome).stage = request.stage
<1> DEFINE value == IF op.kind = "key" THEN op.handled ELSE outcome = "done"
<1>1. Answer(op, outcome) \in {request, [request EXCEPT !.op.handled = value]}
  BY Zenon DEF Answer
<1> HIDE DEF value
<1>2. PICK o : o = request.op
  OBVIOUS
<1>3. PICK u : u = [o EXCEPT !.handled = value]
  OBVIOUS
<1>4. request \in RequestType /\ o \in OperationType
  BY <1>2, TypedState DEF RequestType
<1>5. Kin(u, o)
  BY <1>3, <1>4 DEF OperationType, Kin
<1>6. [request EXCEPT !.op.handled = value] = [request EXCEPT !.op = u]
  BY <1>2, <1>3
<1>7. /\ [request EXCEPT !.op = u].op = u
      /\ [request EXCEPT !.op = u].stage = request.stage
  BY <1>4 DEF RequestType
<1>8. Kin(o, o)
  BY DEF Kin
<1> QED
  BY <1>1, <1>2, <1>5, <1>6, <1>7, <1>8

(* An operation is completed, in whatever way its run was started.          *)
LEMMA CompletesCarries ==
  ASSUME QInv, queue # <<>>, NEW op \in OperationType, Kin(op, Oldest), NEW outcome,
         CompleteInput(op, outcome),
         request' = request \/ request' = Answer(op, outcome)
  PROVE  Thinned /\ Carried
<1>1. Thinned
  BY CompletionThins
<1>2. Kin(Answer(op, outcome).op, request.op) /\ Answer(op, outcome).stage = request.stage
  BY AnswerCarries
<1>3. Carried
  BY <1>2 DEF Carried, Kin
<1> QED
  BY <1>1, <1>3

LEMMA RanIsKin ==
  ASSUME NEW op \in OperationType, NEW ran, RanFrom(op, ran)
  PROVE  ran \in OperationType /\ Kin(ran, op)
  BY RunKeepsIdentity DEF RanFrom, Kin

LEMMA StepCarries ==
  ASSUME IInv, Next, ~Pushed, ~KeyDown, ~Symbol, ~Toggle
  PROVE  Thinned /\ Carried /\ typedIn' = typedIn /\ made' = made
<1>0. QInv
  BY DEF IInv
<1>1. CASE Withdrawn \/ Returned
  <2>1. request' = NoRequest /\ UNCHANGED <<queue, typedIn, made>>
    BY <1>1 DEF Withdrawn, Withdraw, Returned, Return, textVars
  <2>2. Carried
    BY <2>1, NoRequestTyped DEF Carried
  <2> QED
    BY <2>1, <2>2, SameIsThinned
<1>2. CASE Superseded
  <2>1. queue' = <<>> /\ request' = [request EXCEPT !.stage = "append"] /\ request.stage = "push"
        /\ UNCHANGED <<typedIn, made>>
    BY <1>2 DEF Superseded, Supersede, CancelInput
  <2>2. request \in RequestType
    BY <1>0, TypedState
  <2>3. request'.stage = "append" /\ request'.op = request.op
    BY <2>1, <2>2 DEF RequestType
  <2> QED
    BY <2>1, <2>3, EmptyIsThinned DEF Carried, Kin
<1>3. CASE Pumped
  <2>1. UNCHANGED <<request, typedIn, made>>
    BY <1>3 DEF Pumped, PumpEnter, PumpStop, Grant, NoSession
  <2>2. Thinned
    BY <1>0, <1>3, GrantThins, SameIsThinned DEF Pumped, PumpEnter, PumpStop
  <2> QED
    BY <2>1, <2>2 DEF Carried, Kin
<1>4. CASE Denied
  <2>1. /\ queue # <<>> /\ CompleteInput(Oldest, "failed")
        /\ request' = Answer(Oldest, "failed") /\ UNCHANGED <<typedIn, made>>
    BY <1>4 DEF Denied, Deny, Ready
  <2>2. Oldest \in OperationType /\ Kin(Oldest, Oldest)
    BY <1>0, <2>1, OldestTyped DEF Kin
  <2> QED
    BY <1>0, <2>1, <2>2, CompletesCarries
<1>5. CASE EditSession
  <2> PICK answer \in Answerable(text, Oldest.context),
           fault \in (Faults \cap SessionFaults) \cup {"none"} :
        Effect(Oldest, RunInput(text, Oldest, chinese, answer, fault), answer)
    BY <1>5 DEF EditSession
  <2>1. PICK run : run = RunInput(text, Oldest, chinese, answer, fault)
    OBVIOUS
  <2>2. PICK outcome : outcome = IF run.ok THEN "done" ELSE "failed"
    OBVIOUS
  <2>3. queue # <<>> /\ answer \in Answers
    BY <1>5 DEF EditSession, Answerable
  <2>4. Oldest \in OperationType
    BY <1>0, <2>3, OldestTyped
  <2>5. RanFrom(Oldest, run.op)
    BY <2>1, <2>3, <2>4, RunLeavesOperation
  <2>6. run.op \in OperationType /\ Kin(run.op, Oldest)
    BY <2>4, <2>5, RanIsKin
  <2>8. Completes(run, outcome) /\ typedIn' = typedIn
    BY <2>1, <2>2 DEF Effect
  <2>9. CompleteInput(run.op, outcome) /\ made' = made
        /\ (request' = request \/ request' = Answer(run.op, outcome))
    BY <2>8 DEF Completes, RunDirect, RunNow, RunSession
  <2> QED
    BY <1>0, <2>3, <2>6, <2>8, <2>9, CompletesCarries
<1>6. CASE Interrupted
  <2>1. queue # <<>> /\ typedIn' = typedIn
    BY <1>6 DEF Interrupted
  <2>2. Oldest \in OperationType /\ Kin(Oldest, Oldest)
    BY <1>0, <2>1, OldestTyped DEF Kin
  <2>3. CASE RunNow(Oldest, "cancelled") \/ RunSession(Oldest, "cancelled")
    <3>1. CompleteInput(Oldest, "cancelled") /\ made' = made
          /\ (request' = request \/ request' = Answer(Oldest, "cancelled"))
      BY <2>3 DEF RunNow, RunSession
    <3> QED
      BY <1>0, <2>1, <2>2, <3>1, CompletesCarries
  <2>4. CASE DropSession
    <3>1. queue' = <<>> /\ UNCHANGED <<request, made>>
      BY <2>4 DEF DropSession, CancelInput
    <3> QED
      BY <2>1, <3>1, EmptyIsThinned DEF Carried, Kin
  <2> QED
    BY <1>6, <2>3, <2>4 DEF Interrupted
<1>7. CASE CaretMoved \/ Deactivated
  <2>1. queue' = <<>> /\ UNCHANGED <<request, made, typedIn>>
    BY <1>7 DEF CaretMoved, Deactivated, Cancel, CancelInput
  <2> QED
    BY <2>1, EmptyIsThinned DEF Carried, Kin
<1>8. CASE Stale
  <2>1. UNCHANGED <<queue, request, made, typedIn>>
    BY <1>8 DEF Stale, StaleSession, NoSession
  <2> QED
    BY <2>1, SameIsThinned DEF Carried, Kin
<1>9. CASE \E c \in Contexts : FocusMoves(c)
  <2>1. UNCHANGED <<request, made, typedIn>> /\ (queue' = queue \/ queue' = <<>>)
    BY <1>9 DEF FocusMoves, Cancel, CancelInput, queueVars
  <2> QED
    BY <2>1, SameIsThinned, EmptyIsThinned DEF Carried, Kin
<1> QED
  BY <1>1, <1>2, <1>3, <1>4, <1>5, <1>6, <1>7, <1>8, <1>9 DEF Next
-----------------------------------------------------------------------------
(* What holds of the text between any two steps.                            *)
Made == 1 .. made
History ==
  /\ typedIn \in Seq(Fields) /\ Len(typedIn) = made
  /\ chinese \in BOOLEAN /\ passed \cup gone \subseteq Made
TextInv == IInv /\ Fits(text, Made) /\ History /\ QueueOwned
Owning == Owned(text, typedIn) /\ (chinese \/ text.engine = <<>>)

LEMMA PushOwns ==
  ASSUME TextInv, Pushed
  PROVE  /\ typedIn' \in Seq(Fields) /\ Len(typedIn') = made'
         /\ \A c : Tok(typedIn, c) \subseteq Tok(typedIn', c)
         /\ QueueOwned' /\ made' = made + 1
<1>1. PICK x : x = IF request.op.kind = "mode" THEN NoContext ELSE request.op.context
  OBVIOUS
<1>2. /\ typedIn' = Append(typedIn, x)
      /\ made' = made + 1 /\ request.stage \in {"push", "append"}
  BY <1>1 DEF Pushed, Push, Pushing
<1>3. /\ request \in RequestType /\ queue \in Seq(OperationType) /\ made \in Nat
      /\ request.op \in OperationType
  BY TypedState DEF TextInv, IInv, RequestType
<1>4. Call(request.op) /\ x \in Fields
  BY <1>1, <1>2 DEF TextInv, QueueOwned, Call, Fields
<1>5. PICK home : home = typedIn
  OBVIOUS
<1>6. home \in Seq(Fields) /\ Len(home) = made
  BY <1>5 DEF TextInv, History
<1>7. /\ \A c : Tok(home, c) \subseteq Tok(Append(home, x), c)
      /\ Len(home) + 1 \in Tok(Append(home, x), x)
  BY <1>4, <1>6, TokensMore
<1>8. PICK more : more = Append(home, x)
  OBVIOUS
<1>9. more \in Seq(Fields) /\ Len(more) = made + 1
  BY <1>4, <1>6, <1>8
<1>10. PICK one : one = [request.op EXCEPT !.id = made + 1]
  OBVIOUS
<1>11. /\ one \in OperationType /\ one.id = made + 1 /\ one.context = request.op.context
       /\ one.kind = request.op.kind
  <2>1. PICK base : base = request.op
    OBVIOUS
  <2>2. base \in OperationType /\ made + 1 \in Nat /\ one = [base EXCEPT !.id = made + 1]
    BY <1>3, <1>10, <2>1
  <2>3. /\ one \in OperationType /\ one.id = made + 1 /\ one.context = base.context
        /\ one.kind = base.kind
    BY <2>2 DEF OperationType
  <2> QED
    BY <2>1, <2>3
<1>12. PICK op : op = [one EXCEPT !.ordered = queue # <<>>]
  OBVIOUS
<1>13. /\ op \in OperationType /\ op.id = made + 1 /\ op.context = request.op.context
       /\ op.kind = request.op.kind
  BY <1>11, <1>12 DEF OperationType
<1>14. queue' = Append(queue, op) /\ request' = [stage |-> "return", op |-> op]
  BY <1>10, <1>12, Zenon DEF Pushed, Push
<1>15. Entry(op, more)
  BY <1>1, <1>4, <1>6, <1>7, <1>8, <1>13 DEF Entry, Call
<1>16. \A y : Entry(y, home) => Entry(y, more)
  BY <1>7, <1>8 DEF Entry
<1>17. /\ queue' \in Seq(OperationType)
       /\ \A i \in DOMAIN queue' : queue'[i] = op \/ (i \in DOMAIN queue /\ queue'[i] = queue[i])
  BY <1>3, <1>13, <1>14
<1>18. typedIn' = more
  BY <1>2, <1>5, <1>8
<1>19. \A i \in DOMAIN queue' : Entry(queue'[i], more)
  BY <1>5, <1>15, <1>16, <1>17 DEF TextInv, QueueOwned
<1>20. request'.stage = "return" /\ request'.op = op
  BY <1>14
<1>21. QueueOwned'
  BY <1>15, <1>18, <1>19, <1>20 DEF QueueOwned
<1> QED
  BY <1>2, <1>5, <1>7, <1>8, <1>9, <1>18, <1>21

LEMMA AskOwns ==
  ASSUME TextInv, KeyDown \/ Symbol \/ Toggle
  PROVE  QueueOwned' /\ UNCHANGED <<text, chinese, focus, typedIn, passed, gone, made>>
<1>1. PICK op : Request(op) /\ Call(op)
  <2>1. CASE KeyDown \/ Symbol
    <3>1. focus \in Contexts
      BY DEF TextInv, IInv
    <3>2. /\ Call(Operation("key", focus, FALSE)) /\ Call(Operation("symbol", focus, FALSE))
      BY <3>1 DEF Call, Operation, InputKinds
    <3> QED
      BY <2>1, <3>2 DEF KeyDown, Symbol
  <2>2. CASE Toggle
    <3> PICK c \in Contexts : Request(Operation("mode", c, ~ProjectedChinese))
      BY <2>2 DEF Toggle
    <3>1. Call(Operation("mode", c, ~ProjectedChinese))
      BY DEF Call, Operation, InputKinds
    <3> QED
      BY <3>1
  <2> QED
    BY <2>1, <2>2
<1>2. queue' = queue /\ request' = [stage |-> "push", op |-> op] /\ made' = made
  BY <1>1 DEF Request
<1>3. UNCHANGED <<text, chinese, focus, typedIn, passed, gone>>
  BY DEF KeyDown, Symbol, Toggle, textVars
<1>4. request'.stage = "push" /\ request'.op = op
  BY <1>2
<1>5. QueueOwned'
  BY <1>1, <1>2, <1>3, <1>4 DEF TextInv, QueueOwned
<1> QED
  BY <1>2, <1>3, <1>5

(* The tokens of the state are all made already.                            *)
LEMMA TokensMade ==
  ASSUME TextInv
  PROVE  /\ Queued \subseteq Made /\ Waiting(text) \subseteq Made
         /\ Range(text.engine) \subseteq Made
<1>1. Queued \subseteq Made
  BY DEF TextInv, IInv, QInv, QueueTypeOK, Queued, Made
<1>2. \A s \in Seq(Made) : Range(s) \subseteq Made
  BY DEF Range
<1>3. /\ text.engine \in Seq(Made)
      /\ text.retained.commit \in Seq(Made) /\ text.retained.view \in Seq(Made)
  BY TextFields DEF TextInv, Fits
<1> QED
  BY <1>1, <1>2, <1>3 DEF Waiting

LEMMA DiscardMade ==
  ASSUME TextInv, NEW t, gone' = gone \cup ((Queued \cup Waiting(text)) \ Visible(t))
  PROVE  gone' \subseteq Made
  BY TokensMade DEF TextInv, History

LEMMA FrontOwned ==
  ASSUME TextInv, queue # <<>>
  PROVE  /\ Oldest \in OperationType /\ Entry(Oldest, typedIn) /\ Oldest.id \in Made
         /\ Oldest.context \in Contexts /\ Oldest.kind \in InputKinds
         /\ Oldest.kind # "mode" => Oldest.id \in Tok(typedIn, Oldest.context)
<1>1. Oldest = queue[1] /\ 1 \in DOMAIN queue
  BY TypedState, FrontAndRest DEF TextInv, IInv, Oldest
<1>2. Oldest \in OperationType
  BY OldestTyped DEF TextInv, IInv
<1>3. Entry(Oldest, typedIn)
  BY <1>1 DEF TextInv, QueueOwned
<1>4. Oldest.id \in Made
  BY <1>1 DEF TextInv, IInv, QInv, QueueTypeOK, Made
<1> QED
  BY <1>2, <1>3, <1>4 DEF Entry, Call
-----------------------------------------------------------------------------
(* One lemma for each way a step treats the text. *)
TextKept ==
  /\ Fits(text', Made) /\ History' /\ typedIn' = typedIn
  /\ Owning => Owning'

LEMMA DropKeeps ==
  ASSUME TextInv, text' = Abandon(Cancelled(text)), Discard(text),
         UNCHANGED <<chinese, typedIn, passed, made>>
  PROVE  TextKept
<1>1. DroppedAs(Abandon(Cancelled(text)), text, Made, typedIn)
  BY DroppedServes DEF TextInv
<1>2. Fits(text', Made) /\ text'.engine = <<>> /\ (Owned(text, typedIn) => Owned(text', typedIn))
  BY <1>1 DEF DroppedAs
<1>3. gone' \subseteq Made
  BY DiscardMade DEF Discard
<1>4. History'
  BY <1>3 DEF TextInv, History, Made
<1> QED
  BY <1>2, <1>4 DEF TextKept, Owning

LEMMA SameKeeps ==
  ASSUME TextInv, UNCHANGED <<text, chinese, typedIn, passed, made>>, gone' \subseteq Made
  PROVE  TextKept
<1>1. History'
  BY DEF TextInv, History, Made
<1> QED
  BY <1>1 DEF TextKept, Owning, TextInv

LEMMA ReturnedKeeps ==
  ASSUME TextInv, Returned
  PROVE  TextKept
<1>1. request.stage = "return" /\ UNCHANGED <<chinese, typedIn, gone, made>>
  BY DEF Returned, Return
<1>2. CASE request.op.kind = "key" /\ ~Eaten
  <2>1. PICK op : op = request.op
    OBVIOUS
  <2>2. text' = HostTypes(text, op.context, op.id) /\ passed' = passed \cup {op.id}
    BY <1>2, <2>1 DEF Returned
  <2>3. op.context \in Contexts /\ op.id \in Tok(typedIn, op.context)
    BY <1>1, <1>2, <2>1 DEF TextInv, QueueOwned, Entry, Call
  <2>4. op.id \in Made
    BY <2>3 DEF Tok, TextInv, History, Made
  <2>5. Fits(text, Made)
    BY DEF TextInv
  <2>6. PICK u : u = HostTypes(text, op.context, op.id)
    OBVIOUS
  <2>7. TypedAs(HostTypes(text, op.context, op.id), text, Made, op.context, op.id)
    BY <2>3, <2>4, <2>5, HostTypesFits
  <2>8. Fits(u, Made) /\ u.engine = text.engine
    BY <2>6, <2>7 DEF TypedAs
  <2>9. Owned(text, typedIn) => Owned(u, typedIn)
    BY <2>3, <2>4, <2>5, <2>6, HostTypesOwned
  <2>10. text' = u
    BY <2>2, <2>6
  <2>11. History'
    BY <1>1, <2>2, <2>4 DEF TextInv, History, Made
  <2> QED
    BY <1>1, <2>8, <2>9, <2>10, <2>11 DEF TextKept, Owning
<1>3. CASE ~(request.op.kind = "key" /\ ~Eaten)
  <2>1. UNCHANGED <<text, passed>>
    BY <1>3 DEF Returned
  <2> QED
    BY <1>1, <2>1, SameKeeps DEF TextInv, History
<1> QED
  BY <1>2, <1>3

LEMMA EditKeeps ==
  ASSUME TextInv, EditSession, made' = made
  PROVE  TextKept
<1> PICK answer \in Answerable(text, Oldest.context),
         fault \in (Faults \cap SessionFaults) \cup {"none"} :
      Effect(Oldest, RunInput(text, Oldest, chinese, answer, fault), answer)
  BY DEF EditSession
<1>1. PICK op : op = Oldest
  OBVIOUS
<1>2. PICK run : run = RunInput(text, op, chinese, answer, fault)
  OBVIOUS
<1>3. queue # <<>>
  BY DEF EditSession
<1>4. /\ op \in OperationType /\ op.id \in Made
      /\ op.context \in Contexts /\ op.kind \in {"key", "symbol", "mode"}
      /\ op.kind # "mode" => op.id \in Tok(typedIn, op.context)
  BY <1>1, <1>3, FrontOwned DEF InputKinds
<1>5. Fits(text, Made) /\ chinese \in BOOLEAN
  BY DEF TextInv, History
<1>6. answer \in Answerable(text, op.context)
  BY <1>1
<1>7. RunServes(RunInput(text, op, chinese, answer, fault), text, op, chinese, Made, typedIn)
  BY <1>4, <1>5, <1>6, RunInputServes
<1>8. /\ Sound(run, Made)
      /\ /\ Owned(text, typedIn) /\ (chinese \/ text.engine = <<>>)
         /\ op.kind # "mode" => op.id \in Tok(typedIn, op.context)
         => Owned(run.text, typedIn)
      /\ ~chinese /\ text.engine = <<>> => run.text.engine = <<>>
      /\ op.kind = "mode" /\ run.ok => run.text.engine = <<>>
  BY <1>2, <1>7 DEF RunServes
<1>9. Effect(op, run, answer)
  BY <1>1, <1>2
<1>10. /\ text' = run.text
       /\ chinese' = IF op.kind = "mode" /\ run.ok THEN op.value ELSE chinese
       /\ gone' = gone \cup Erased(op, run, answer) \cup Lost(op, run.text)
       /\ typedIn' = typedIn /\ passed' = passed
  BY <1>9 DEF Effect
<1>11. chinese' \in BOOLEAN
  BY <1>4, <1>5, <1>10 DEF OperationType
<1>12. Erased(op, run, answer) \subseteq Made /\ Lost(op, run.text) \subseteq Made
  BY <1>4, TokensMade DEF Erased, Lost
<1>13. History'
  BY <1>10, <1>11, <1>12 DEF TextInv, History, Made
<1>14. Fits(text', Made)
  BY <1>8, <1>10 DEF Sound
<1>15. ASSUME Owning PROVE Owning'
  <2>1. Owned(text', typedIn')
    BY <1>4, <1>8, <1>10, <1>15 DEF Owning
  <2>2. CASE op.kind = "mode" /\ run.ok
    BY <1>8, <1>10, <2>1, <2>2 DEF Owning
  <2>3. CASE ~(op.kind = "mode" /\ run.ok)
    BY <1>5, <1>8, <1>10, <1>15, <2>1, <2>3 DEF Owning
  <2> QED
    BY <2>2, <2>3
<1> QED
  BY <1>10, <1>13, <1>14, <1>15 DEF TextKept

(* The engine may be left with text that nobody holds when the host refuses *)
(* a result and cancels before it was shown: this is what the fault         *)
(* "lateCancel" stands for.                                                 *)
CancelsInTime == "lateCancel" \notin Faults

TextFitted == Fits(text', Made) /\ History' /\ typedIn' = typedIn /\ (CancelsInTime /\ Owning => Owning')

LEMMA KeptIsFitted ==
  ASSUME TextKept
  PROVE  TextFitted
  BY DEF TextKept, TextFitted

LEMMA CancelledKeeps ==
  ASSUME TextInv, text' = Cancelled(text), Discard(text),
         UNCHANGED <<chinese, typedIn, passed, made>>,
         CancelsInTime /\ Owned(text, typedIn) /\ text.comp.context = NoContext
           => text.engine = <<>>
  PROVE  TextFitted
<1>1. Fits(text, Made)
  BY DEF TextInv
<1>2. PICK u : u = Cancelled(text)
  OBVIOUS
<1>3. CancelledAs(Cancelled(text), text, Made)
  BY <1>1, CancelledFits
<1>4. Fits(u, Made) /\ u.engine = text.engine /\ text' = u
  BY <1>2, <1>3 DEF CancelledAs
<1>5. ASSUME CancelsInTime, Owned(text, typedIn) PROVE Owned(u, typedIn)
  BY <1>1, <1>2, <1>5, CancelledOwned
<1>6. gone' \subseteq Made
  BY DiscardMade DEF Discard
<1>7. History'
  BY <1>6 DEF TextInv, History, Made
<1> QED
  BY <1>4, <1>5, <1>7 DEF TextFitted, Owning

LEMMA InterruptedKeeps ==
  ASSUME TextInv, Interrupted, made' = made
  PROVE  TextFitted
<1>1. /\ text' = Cancelled(text) /\ Discard(text) /\ UNCHANGED <<chinese, typedIn, passed>>
      /\ Retaining(text) => ~CancelsInTime
  BY DEF Interrupted, LateCancel, CancelsInTime
<1>2. CancelsInTime /\ Owned(text, typedIn) /\ text.comp.context = NoContext => text.engine = <<>>
  BY <1>1 DEF Owned, HeldByNobody
<1> QED
  BY <1>1, <1>2, CancelledKeeps

LEMMA CaretMovedKeeps ==
  ASSUME TextInv, CaretMoved, made' = made
  PROVE  TextFitted
<1>1. /\ Discard(text) /\ UNCHANGED <<chinese, typedIn, passed>>
      /\ text' = IF text.comp = NoComposition THEN Cancelled(text) ELSE Abandon(Cancelled(text))
      /\ text.comp = NoComposition /\ text.engine # <<>> => ~CancelsInTime
  BY DEF CaretMoved, LateCancel, CancelsInTime
<1>2. CASE text.comp = NoComposition
  BY <1>1, <1>2, CancelledKeeps
<1>3. CASE text.comp # NoComposition
  BY <1>1, <1>3, DropKeeps, KeptIsFitted
<1> QED
  BY <1>2, <1>3

LEMMA PushedKeeps ==
  ASSUME TextInv, Pushed
  PROVE  Fits(text', Made') /\ History' /\ (Owning => Owning')
<1>1. /\ typedIn' \in Seq(Fields) /\ Len(typedIn') = made'
      /\ \A c : Tok(typedIn, c) \subseteq Tok(typedIn', c)
      /\ made' = made + 1
  BY PushOwns
<1>2. UNCHANGED <<text, chinese, passed, gone>>
  BY DEF Pushed
<1>3. Made \subseteq Made'
  BY <1>1, TypedState DEF Made, TextInv, IInv
<1>4. Fits(text', Made')
  BY <1>2, <1>3, FitsMore DEF TextInv
<1>5. History'
  BY <1>1, <1>2, <1>3 DEF History, TextInv
<1>6. Owned(text, typedIn) => Owned(text', typedIn')
  BY <1>1, <1>2, OwnedMore
<1> QED
  BY <1>2, <1>4, <1>5, <1>6 DEF Owning
-----------------------------------------------------------------------------
(* Every step keeps the invariant of the text, and, when no cancellation    *)
(* meets text that was refused, every token in its field.                   *)
LEMMA IInvKept ==
  ASSUME IInv, [Next]_vars
  PROVE  IInv'
  BY StepIsQueueStep, StepKeeps, FocusStays DEF IInv

LEMMA TextStep ==
  ASSUME TextInv, [Next]_vars
  PROVE  TextInv' /\ (CancelsInTime /\ Owning => Owning')
<1>1. IInv'
  BY IInvKept DEF TextInv
<1>2. CASE UNCHANGED vars
  <2>1. UNCHANGED <<text, chinese, focus, typedIn, passed, gone, queue, request, made>>
    BY <1>2 DEF vars, textVars, queueVars
  <2>2. Fits(text', Made') /\ History' /\ (Owning => Owning')
    BY <2>1 DEF TextInv, History, Made, Owning
  <2>3. QueueOwned'
    BY <2>1 DEF TextInv, QueueOwned
  <2> QED
    BY <1>1, <2>2, <2>3 DEF TextInv
<1>3. CASE Pushed
  BY <1>1, <1>3, PushOwns, PushedKeeps DEF TextInv
<1>4. CASE KeyDown \/ Symbol \/ Toggle
  <2>1. QueueOwned' /\ UNCHANGED <<text, chinese, focus, typedIn, passed, gone, made>>
    BY <1>4, AskOwns
  <2>2. Fits(text', Made') /\ History' /\ (Owning => Owning')
    BY <2>1 DEF TextInv, History, Made, Owning
  <2> QED
    BY <1>1, <2>1, <2>2 DEF TextInv
<1>5. CASE Next /\ ~Pushed /\ ~KeyDown /\ ~Symbol /\ ~Toggle
  <2>1. Thinned /\ Carried /\ typedIn' = typedIn /\ made' = made
    BY <1>5, StepCarries DEF TextInv
  <2>2. QueueOwned'
    BY <2>1, QueueOwnedKept DEF TextInv
  <2>3. TextFitted
    <3>1. gone \subseteq Made
      BY DEF TextInv, History
    <3>2. CASE Withdrawn \/ Pumped \/ Stale
      <4>1. UNCHANGED <<text, chinese, passed, gone>>
        BY <3>2 DEF Withdrawn, Pumped, Stale, NoSession, textVars
      <4> QED
        BY <2>1, <3>1, <4>1, SameKeeps, KeptIsFitted
    <3>3. CASE Superseded \/ Deactivated
      BY <2>1, <3>3, DropKeeps, KeptIsFitted DEF Superseded, Deactivated
    <3>4. CASE Returned
      BY <3>4, ReturnedKeeps, KeptIsFitted
    <3>5. CASE Denied
      <4>1. queue # <<>>
        BY <3>5 DEF Denied, Deny, Ready
      <4>2. Lost(Oldest, text) \subseteq Made
        BY <4>1, FrontOwned DEF Lost
      <4>3. gone' \subseteq Made /\ UNCHANGED <<text, chinese, passed>>
        BY <3>1, <3>5, <4>2 DEF Denied
      <4> QED
        BY <2>1, <4>3, SameKeeps, KeptIsFitted
    <3>6. CASE EditSession
      BY <2>1, <3>6, EditKeeps, KeptIsFitted
    <3>7. CASE Interrupted
      BY <2>1, <3>7, InterruptedKeeps
    <3>8. CASE CaretMoved
      BY <2>1, <3>8, CaretMovedKeeps
    <3>9. CASE \E c \in Contexts : FocusMoves(c)
      <4>1. CASE UNCHANGED <<text, gone, chinese, passed>>
        BY <2>1, <3>1, <4>1, SameKeeps, KeptIsFitted
      <4>2. CASE /\ text' = Abandon(Cancelled(text)) /\ Discard(text)
                 /\ UNCHANGED <<chinese, passed>>
        BY <2>1, <4>2, DropKeeps, KeptIsFitted
      <4> QED
        BY <3>9, <4>1, <4>2 DEF FocusMoves
    <3> QED
      BY <1>5, <3>2, <3>3, <3>4, <3>5, <3>6, <3>7, <3>8, <3>9 DEF Next
  <2>4. Fits(text', Made') /\ History' /\ (CancelsInTime /\ Owning => Owning')
    BY <2>1, <2>3 DEF TextFitted, Made
  <2> QED
    BY <1>1, <2>2, <2>4 DEF TextInv
<1> QED
  BY <1>2, <1>3, <1>4, <1>5

LEMMA TextInit ==
  ASSUME Init
  PROVE  TextInv /\ Owning
<1>1. QInv
  BY QueueInitEstablishes DEF Init
<1>2. /\ queue = <<>> /\ request = NoRequest /\ made = 0
      /\ typedIn = <<>> /\ passed = {} /\ gone = {} /\ chinese \in BOOLEAN /\ focus \in Contexts
  BY DEF Init, QueueInit
<1>3. IInv /\ History /\ QueueOwned
  BY <1>1, <1>2, NoRequestTyped DEF IInv, History, QueueOwned
<1>4. PICK doc : doc = [c \in Contexts |-> <<>>]
  OBVIOUS
<1>5. PICK caret : caret = [c \in Contexts |-> 0]
  OBVIOUS
<1>6. PICK e : e = <<>>
  OBVIOUS
<1>7. text = TextOf(doc, caret, NoComposition, e, NoResult)
  BY <1>4, <1>5, <1>6 DEF Init, TextOf
<1>8. /\ text.doc = doc /\ text.caret = caret /\ text.comp = NoComposition /\ text.engine = e
      /\ text.retained = NoResult
  BY <1>7, FieldsOf
<1>9. /\ e \in Seq(Made) /\ Len(e) = 0 /\ Range(e) = {}
  BY <1>6 DEF Range
<1>10. doc \in Docs(Made) /\ \A c \in Contexts : doc[c] = e
  BY <1>4, <1>6, <1>9 DEF Docs
<1>11. caret \in Carets /\ \A c \in Contexts : caret[c] = 0
  BY <1>5 DEF Carets
<1>12. text \in TextType(Made)
  BY <1>7, <1>9, <1>10, <1>11, NothingTyped, TypeOfText
<1>13. ~Retaining(text) /\ text.comp.context = NoContext
  BY <1>8, NothingTyped DEF Retaining
<1>14. Fits(text, Made)
  BY <1>8, <1>9, <1>10, <1>11, <1>12, <1>13
     DEF Fits, PlacedCarets, PlacedComposition, PlacedWrite, Unwritten
<1>15. Owned(text, typedIn)
  BY <1>6, <1>8, <1>9, <1>10, <1>13 DEF Owned, OwnedText, OwnedEngine, OwnedResult, HeldByNobody
<1> QED
  BY <1>3, <1>6, <1>8, <1>14, <1>15 DEF TextInv, Owning

LEMMA TextInvariance == Spec => []TextInv
<1>1. Init => TextInv
  BY TextInit
<1>2. TextInv /\ [Next]_vars => TextInv'
  BY TextStep
<1> QED
  BY <1>1, <1>2, PTL DEF Spec

LEMMA FitsIsTyped ==
  ASSUME TextInv
  PROVE  TypeOK
<1>1. QueueTypeOK /\ focus \in Contexts
  BY DEF TextInv, IInv, QInv
<1>2. /\ text.doc \in [Contexts -> Seq(1 .. made)] /\ text.engine \in Seq(1 .. made)
      /\ text.retained.commit \in Seq(1 .. made) /\ text.retained.view \in Seq(1 .. made)
      /\ text.caret \in Carets
  BY TextFields DEF TextInv, Fits, Made, Docs
<1>3. \A c \in Contexts : text.caret[c] \in 0 .. Len(text.doc[c])
  <2> TAKE c \in Contexts
  <2>1. text.caret[c] \in Nat /\ Len(text.doc[c]) \in Nat
    BY <1>2 DEF Carets
  <2>2. text.caret[c] <= Len(text.doc[c])
    BY DEF TextInv, Fits, PlacedCarets
  <2> QED
    BY <2>1, <2>2
<1>4. text.comp.context # NoContext =>
        text.comp.from + text.comp.len <= Len(text.doc[text.comp.context])
  BY DEF TextInv, Fits, PlacedComposition
<1>5. chinese \in BOOLEAN /\ Len(typedIn) = made /\ passed \cup gone \subseteq 1 .. made
  BY DEF TextInv, History, Made
<1> QED
  BY <1>1, <1>2, <1>3, <1>4, <1>5 DEF TypeOK, Tokens

(* The text has its type: carets and the composition lie in the text of their *)
(* field and only tokens that were made appear, for every answer of the     *)
(* engine, every refusal of the host and every cancellation.                *)
THEOREM TextTypeCorrect == Spec => []TypeOK
  BY TextInvariance, FitsIsTyped, PTL

(* Text appears in the field it was typed in and in no later one, whatever  *)
(* the host refuses, keeps for later or does not tell the service of a new  *)
(* focus, unless it cancels input after it refused what the engine produced: *)
(* then the engine holds text of the old field (the run replay).            *)
THEOREM TextStaysInItsField == "lateCancel" \notin Faults => (Spec => []StaysInItsField)
<1> SUFFICES ASSUME "lateCancel" \notin Faults
             PROVE  Spec => []StaysInItsField
  OBVIOUS
<1>1. Init => TextInv /\ Owning
  BY TextInit
<1>2. (TextInv /\ Owning) /\ [Next]_vars => (TextInv /\ Owning)'
  BY TextStep DEF CancelsInTime
<1>3. Owning => StaysInItsField
  BY DEF Owning, Owned, OwnedText, Tok, StaysInItsField
<1> QED
  BY <1>1, <1>2, <1>3, PTL DEF Spec

-----------------------------------------------------------------------------
(***************************************************************************)
(* That the composition of a field shows what the engine holds, and that   *)
(* no key is lost, for every answer of the engine, whatever the host       *)
(* refuses and however often what is left of a result is retried.          *)
(*                                                                         *)
(* The layers above say where the text of each stage lies; here the        *)
(* tokens count.  A stage that is done or refused leaves a text that       *)
(* Showing describes: with nothing retained the composition has the tokens *)
(* of the engine, and a retained result is what the engine answered last,  *)
(* for the field of the composition, with the ending of the composition it *)
(* was written over still due.  An operation that may meet a composition   *)
(* waits for that of its own field (Beside), because the host tells the    *)
(* service when another field gets the input.                              *)
(*                                                                         *)
(* The second half follows the tokens: a result covers the composition it  *)
(* will be written over (Whole), so a stage hides no token that it or a    *)
(* later stage does not bring back; and a key leaves the queue when it is  *)
(* held by the text, or when its caller is told that the host types it     *)
(* (Promised).                                                             *)
(***************************************************************************)
(* What each stage of retryInputResult does, as a relation of two results.  *)
CaretOnly(u, t) ==
  /\ u.doc = t.doc /\ u.comp = t.comp /\ u.engine = t.engine /\ SameResult(u, t)
  /\ u.retained.written = t.retained.written /\ u.retained.needsEnd = t.retained.needsEnd

StartOutcome(x, r, c) ==
  \/ x.text = r.text /\ (x.ok => r.ok /\ Composing(r.text, c))
  \/ /\ r.ok /\ r.text.comp.context = NoContext
     /\ x.text.comp.context = c /\ x.text.comp.len = 0
     /\ x.text.doc = r.text.doc /\ x.text.engine = r.text.engine
     /\ x.text.retained = r.text.retained

LEMMA StartEnds ==
  ASSUME NEW N, NEW r, Sound(r, N), NEW c \in Contexts, NEW fault
  PROVE  StartOutcome(Start(r, c, fault), r, c)
<1>1. CASE ~r.ok \/ Composing(r.text, c)
  <2>1. Start(r, c, fault) = r
    BY <1>1 DEF Start
  <2> QED
    BY <1>1, <2>1 DEF StartOutcome
<1>2. CASE r.ok /\ ~Composing(r.text, c) /\ (r.text.comp.context # NoContext \/ fault = "start")
  <2>1. Start(r, c, fault) = Failed(r.text)
    BY <1>2 DEF Start
  <2> QED
    BY <2>1, OkAndFailed DEF StartOutcome
<1>3. CASE r.ok /\ ~Composing(r.text, c) /\ ~(r.text.comp.context # NoContext \/ fault = "start")
  <2>1. PICK t : t = r.text
    OBVIOUS
  <2>2. PICK comp : comp = [context |-> c, from |-> t.caret[c], len |-> 0]
    OBVIOUS
  <2>3. PICK u : u = [t EXCEPT !.comp = comp]
    OBVIOUS
  <2>4. Start(r, c, fault) = Ok(u)
    BY <1>3, <2>1, <2>2, <2>3, Zenon DEF Start
  <2>5. t \in TextType(N)
    BY <2>1 DEF Sound, Fits
  <2>6. t.caret[c] \in Nat
    BY <2>5, TextFields DEF Carets
  <2>7. comp \in CompositionType /\ comp.context = c /\ comp.len = 0
    BY <2>2, <2>6 DEF CompositionType, Fields
  <2>8. u.comp = comp /\ u.doc = t.doc /\ u.engine = t.engine /\ u.retained = t.retained
    BY <2>3, <2>5, <2>7, CompSet
  <2> QED
    BY <1>3, <2>1, <2>4, <2>7, <2>8, OkAndFailed DEF StartOutcome
<1> QED
  BY <1>1, <1>2, <1>3

(* The range of the composition is cleared first, or its text stays.        *)
EndOutcome(x, r, N, c, clear) ==
  \/ x = r /\ (r.ok => ~Composing(r.text, c))
  \/ /\ r.ok /\ Composing(r.text, c)
     /\ \E t : /\ IF clear THEN ShownAs(t, r.text, N, c, <<>>) ELSE t = r.text
               /\ x.text.doc = t.doc /\ x.text.engine = t.engine /\ x.text.retained = t.retained
               /\ x.ok => x.text.comp = NoComposition
               /\ ~x.ok => x.text = t

LEMMA EndRangeEnds ==
  ASSUME NEW N, NEW t, Fits(t, N), NEW fault
  PROVE  /\ EndRange(t, fault).text.doc = t.doc /\ EndRange(t, fault).text.engine = t.engine
         /\ EndRange(t, fault).text.retained = t.retained
         /\ EndRange(t, fault).ok => EndRange(t, fault).text.comp = NoComposition
         /\ ~EndRange(t, fault).ok => EndRange(t, fault).text = t
<1>1. CASE fault = "end"
  <2>1. EndRange(t, fault) = Failed(t)
    BY <1>1 DEF EndRange
  <2> QED
    BY <2>1, OkAndFailed
<1>2. CASE fault # "end"
  <2>1. PICK u : u = [t EXCEPT !.comp = NoComposition]
    OBVIOUS
  <2>2. EndRange(t, fault) = Ok(u)
    BY <1>2, <2>1, Zenon DEF EndRange
  <2>3. /\ u.comp = NoComposition /\ u.retained = t.retained
        /\ u.engine = t.engine /\ u.doc = t.doc
    BY <2>1, CompDroppedFits
  <2> QED
    BY <2>2, <2>3, OkAndFailed
<1> QED
  BY <1>1, <1>2

LEMMA EndEnds ==
  ASSUME NEW N, NEW r, Steady(r, N), NEW c \in Contexts, NEW clear \in BOOLEAN, NEW fault
  PROVE  EndOutcome(End(r, c, clear, fault), r, N, c, clear)
<1>1. CASE ~r.ok \/ ~Composing(r.text, c)
  <2>1. End(r, c, clear, fault) = r
    BY <1>1 DEF End
  <2> QED
    BY <1>1, <2>1 DEF EndOutcome
<1>2. CASE r.ok /\ Composing(r.text, c)
  <2>1. PICK t : t = IF clear THEN ClearRange(r.text, c) ELSE r.text
    OBVIOUS
  <2>2. End(r, c, clear, fault) = EndRange(t, fault)
    BY <1>2, <2>1, Zenon DEF End
  <2>3. Fits(r.text, N) /\ ~Unwritten(r.text)
    BY <1>2 DEF Steady, Sound
  <2>4. Fits(t, N) /\ IF clear THEN ShownAs(t, r.text, N, c, <<>>) ELSE t = r.text
    <3>1. CASE clear
      <4>1. PICK e : e = <<>>
        OBVIOUS
      <4>2. e \in Seq(N)
        BY <4>1
      <4>3. t = Shown(r.text, c, e)
        BY <2>1, <3>1, <4>1, ClearedIsShown
      <4>4. Fits(Shown(r.text, c, e), N)
        BY <1>2, <2>3, <4>2, ShownFits
      <4>5. r.text \in TextType(N) /\ r.text.comp.context = c
        BY <1>2, <2>3 DEF Fits, Composing
      <4>6. r.text.comp.from + r.text.comp.len <= Len(r.text.doc[c]) /\ r.text.caret[c] <= Len(r.text.doc[c])
        BY <2>3, <4>5, NoContextAssumption DEF Fits, PlacedComposition, PlacedCarets
      <4>7. ShownAs(Shown(r.text, c, e), r.text, N, c, e)
        BY <4>2, <4>5, <4>6, ShownFields
      <4> QED
        BY <3>1, <4>1, <4>3, <4>4, <4>7
    <3>2. CASE ~clear
      BY <2>1, <2>3, <3>2
    <3> QED
      BY <3>1, <3>2
  <2>5. PICK x : x = EndRange(t, fault)
    OBVIOUS
  <2>6. /\ x.text.doc = t.doc /\ x.text.engine = t.engine /\ x.text.retained = t.retained
        /\ x.ok => x.text.comp = NoComposition
        /\ ~x.ok => x.text = t
    BY <2>4, <2>5, EndRangeEnds
  <2> QED
    BY <1>2, <2>2, <2>4, <2>5, <2>6 DEF EndOutcome
<1> QED
  BY <1>1, <1>2 DEF Steady, Sound

(* The view was put over the composition, or one opened for it.             *)
ViewShown(x, r, N, c) ==
  \E s : /\ StartOutcome(s, r, c) /\ Steady(s, N)
         /\ \/ ~x.ok /\ x.text = s.text
            \/ /\ s.ok /\ Composing(s.text, c)
               /\ \E u : /\ ShownAs(u, s.text, N, c, r.text.retained.view)
                         /\ CaretOnly(x.text, u)
ViewOutcome(x, r, N, c) ==
  \/ x = r /\ (r.ok => r.text.retained.view = <<>> /\ r.text.retained.commit # <<>>)
  \/ r.ok /\ r.text.retained.view # <<>> /\ ViewShown(x, r, N, c)
  \/ /\ r.ok /\ r.text.retained.view = <<>> /\ r.text.retained.commit = <<>>
     /\ EndOutcome(x, r, N, c, TRUE)

LEMMA CaretBehindOnly ==
  ASSUME NEW N, NEW t, Fits(t, N), NEW c \in Contexts, NEW fault
  PROVE  CaretOnly(CaretBehind(t, c, fault).text, t)
<1>1. CASE fault = "select"
  <2>1. CaretBehind(t, c, fault) = Failed(t)
    BY <1>1 DEF CaretBehind
  <2> QED
    BY <2>1, OkAndFailed DEF CaretOnly, SameResult
<1>2. CASE fault # "select"
  <2>1. PICK k : k = t.comp.from + t.comp.len
    OBVIOUS
  <2>2. PICK u : u = [t EXCEPT !.caret[c] = k]
    OBVIOUS
  <2>3. CaretBehind(t, c, fault) = Ok(u)
    BY <1>2, <2>1, <2>2, Zenon DEF CaretBehind
  <2>4. t \in TextType(N) /\ k \in Nat
    BY <2>1, TextFields DEF Fits
  <2>5. u.doc = t.doc /\ u.comp = t.comp /\ u.engine = t.engine /\ u.retained = t.retained
    BY <2>2, <2>4, OneCaretSet
  <2> QED
    BY <2>3, <2>5, OkAndFailed DEF CaretOnly, SameResult
<1> QED
  BY <1>1, <1>2

LEMMA ViewEnds ==
  ASSUME NEW N, NEW r, Steady(r, N), NEW c \in Contexts, NEW fault
  PROVE  ViewOutcome(View(r, c, fault), r, N, c)
<1>1. CASE ~r.ok
  BY <1>1 DEF View, ViewOutcome
<1>2. CASE r.ok /\ r.text.retained.view # <<>>
  <2>1. PICK s : s = Start(r, c, fault)
    OBVIOUS
  <2>2. PICK x : x = View(r, c, fault)
    OBVIOUS
  <2>3. x = ShowView(s, c, fault)
    BY <1>2, <2>1, <2>2, Zenon DEF View
  <2>4. Sound(r, N)
    BY DEF Steady
  <2>5. StartOutcome(s, r, c)
    BY <2>1, <2>4, StartEnds
  <2>6. Steady(s, N) /\ s.text.retained = r.text.retained /\ (s.ok => Composing(s.text, c))
    BY <2>1, StartFits
  <2>7. CASE ~s.ok
    BY <2>3, <2>5, <2>6, <2>7, <1>2, <2>2 DEF ShowView, ViewShown, ViewOutcome
  <2>8. CASE s.ok /\ fault = "view"
    <3>1. x = Failed(s.text)
      BY <2>3, <2>8 DEF ShowView
    <3>2. ~x.ok /\ x.text = s.text
      BY <3>1, OkAndFailed
    <3>3. ViewShown(x, r, N, c)
      BY <2>5, <2>6, <3>2, Zenon DEF ViewShown
    <3> QED
      BY <1>2, <2>2, <3>3 DEF ViewOutcome
  <2>9. CASE s.ok /\ fault # "view"
    <3>1. PICK t : t = s.text
      OBVIOUS
    <3>2. PICK new : new = t.retained.view
      OBVIOUS
    <3>3. PICK u : u = Shown(t, c, new)
      OBVIOUS
    <3>4. x = CaretBehind(u, c, fault)
      BY <2>3, <2>9, <3>1, <3>2, <3>3, Zenon DEF ShowView
    <3>5. Fits(t, N) /\ ~Unwritten(t) /\ Composing(t, c)
      BY <2>6, <2>9, <3>1 DEF Steady, Sound
    <3>6. new \in Seq(N) /\ new = r.text.retained.view
      BY <2>6, <3>1, <3>2, <3>5, TextFields DEF Fits
    <3>7. Fits(u, N)
      BY <3>3, <3>5, <3>6, ShownFits
    <3>8. t \in TextType(N) /\ t.comp.context = c
      BY <3>5 DEF Fits, Composing
    <3>9. t.comp.from + t.comp.len <= Len(t.doc[c]) /\ t.caret[c] <= Len(t.doc[c])
      BY <3>5, <3>8, NoContextAssumption DEF Fits, PlacedComposition, PlacedCarets
    <3>10. ShownAs(u, t, N, c, new)
      BY <3>3, <3>6, <3>8, <3>9, ShownFields
    <3>11. CaretOnly(x.text, u)
      BY <3>4, <3>7, CaretBehindOnly
    <3>12. ShownAs(u, s.text, N, c, r.text.retained.view)
      BY <3>1, <3>6, <3>10
    <3>13. s.ok /\ Composing(s.text, c)
      BY <2>9, <3>1, <3>5
    <3>14. ViewShown(x, r, N, c)
      BY <2>5, <2>6, <3>11, <3>12, <3>13, Zenon DEF ViewShown
    <3> QED
      BY <1>2, <2>2, <3>14 DEF ViewOutcome
  <2> QED
    BY <2>6, <2>7, <2>8, <2>9 DEF Steady, Sound
<1>3. CASE r.ok /\ r.text.retained.view = <<>> /\ r.text.retained.commit = <<>>
  <2>1. PICK clear : clear = TRUE
    OBVIOUS
  <2>2. View(r, c, fault) = End(r, c, clear, fault)
    BY <1>3, <2>1 DEF View
  <2>3. clear \in BOOLEAN
    BY <2>1
  <2>4. EndOutcome(End(r, c, clear, fault), r, N, c, clear)
    BY <2>3, EndEnds
  <2> QED
    BY <1>3, <2>1, <2>2, <2>4 DEF ViewOutcome
<1>4. CASE r.ok /\ r.text.retained.view = <<>> /\ r.text.retained.commit # <<>>
  BY <1>4 DEF View, ViewOutcome
<1> QED
  BY <1>1, <1>2, <1>3, <1>4 DEF Steady, Sound
-----------------------------------------------------------------------------
(* The retained text was written into the field, over its composition or at *)
(* its caret; b is t with the mark of that decision.                        *)
WroteAs(u, t, N, c) ==
  \E b, from, len, inside :
    /\ MarkedAs(b, t, N, t.retained.written, t.retained.caretSet, inside)
    /\ Fits(b, N) /\ WriteSpot(b, c, from, len, inside)
    /\ from \in Nat /\ len \in Nat /\ from + len <= Len(b.doc[c])
    /\ WrittenAs(u, b, N, c, from, len, inside)
Undone(x, r, N) ==
  /\ ~x.ok /\ r.text.retained.commit # <<>>
  /\ \E inside \in BOOLEAN :
       MarkedAs(x.text, r.text, N, r.text.retained.written, r.text.retained.caretSet, inside)
WriteOutcome(x, r, N, c) ==
  \/ x = r /\ (r.ok => r.text.retained.written = TRUE)
  \/ r.ok /\ r.text.retained.written = FALSE /\ Undone(x, r, N)
  \/ /\ r.ok /\ r.text.retained.written = FALSE /\ r.text.retained.commit = <<>> /\ x.ok
     /\ MarkedAs(x.text, r.text, N, TRUE, r.text.retained.caretSet, FALSE)
  \/ /\ r.ok /\ r.text.retained.written = FALSE /\ r.text.retained.commit # <<>> /\ x.ok
     /\ WroteAs(x.text, r.text, N, c)

LEMMA WriteEnds ==
  ASSUME NEW N, NEW r, Sound(r, N), NEW c \in Contexts, Of(r, c), NEW fault
  PROVE  WriteOutcome(Write(r, c, fault), r, N, c)
<1>0. r.ok \in BOOLEAN /\ Fits(r.text, N) /\ r.text \in TextType(N)
  BY DEF Sound, Fits
<1>10. r.text.retained.written \in BOOLEAN
  BY <1>0, TextFields
<1>1. CASE ~r.ok \/ r.text.retained.written
  BY <1>1, <1>10 DEF Write, WriteOutcome
<1>2. CASE r.ok /\ ~r.text.retained.written
  <2>1. PICK inside : inside = Inside(r.text, c)
    OBVIOUS
  <2>2. PICK before : before = r.text
    OBVIOUS
  <2>3. PICK t : t = WithEnd(before, inside)
    OBVIOUS
  <2>4. PICK x : x = Write(r, c, fault)
    OBVIOUS
  <2>5. x = WriteInto(t, c, inside, fault)
    BY <1>2, <2>1, <2>2, <2>3, <2>4, Zenon DEF Write, WithEnd
  <2>6. inside \in BOOLEAN /\ before \in TextType(N) /\ Fits(before, N)
    BY <1>0, <2>1, <2>2 DEF Inside, Composing
  <2>7. MarkedAs(t, before, N, before.retained.written, before.retained.caretSet, inside)
    BY <2>3, <2>6, EndMarked
  <2>8. Fits(t, N)
    <3>1. PlacedCarets(t) /\ PlacedComposition(t)
      BY <2>6, <2>7 DEF MarkedAs, Fits, PlacedCarets, PlacedComposition
    <3>2. PlacedWrite(t)
      BY <1>2, <2>2, <2>7 DEF MarkedAs, PlacedWrite
    <3> QED
      BY <2>7, <3>1, <3>2 DEF MarkedAs, Fits
  <2>9. t.retained.context = c /\ t.retained.commit = r.text.retained.commit
    BY <1>2, <2>2, <2>7 DEF MarkedAs, Of
  <2>10. r.text.retained.written = FALSE
    BY <1>2, <1>10
  <2>11. CASE t.retained.commit = <<>>
    <3>1. PICK u : u = WithWritten(t)
      OBVIOUS
    <3>2. x = Ok(u)
      BY <2>5, <2>11, <3>1, Zenon DEF WriteInto, WithWritten
    <3>3. MarkedAs(u, t, N, TRUE, t.retained.caretSet, t.retained.needsEnd)
      <4>1. t \in TextType(N)
        BY <2>7 DEF MarkedAs
      <4> QED
        BY <3>1, <4>1, WriteMarked
    <3>4. inside = FALSE
      BY <2>1, <2>6, <2>9, <2>11 DEF Inside
    <3>5. MarkedAs(u, before, N, TRUE, before.retained.caretSet, FALSE)
      BY <2>7, <3>3, <3>4 DEF MarkedAs
    <3>6. x.ok /\ x.text = u
      BY <3>2, OkAndFailed
    <3>7. MarkedAs(x.text, r.text, N, TRUE, r.text.retained.caretSet, FALSE)
      BY <2>2, <3>5, <3>6
    <3>8. r.text.retained.commit = <<>>
      BY <2>9, <2>11
    <3> QED
      BY <1>2, <2>4, <2>10, <3>6, <3>7, <3>8 DEF WriteOutcome
  <2>12. CASE t.retained.commit # <<>> /\ fault = "write"
    <3>1. x = Failed(t)
      BY <2>5, <2>12, Zenon DEF WriteInto
    <3>2. ~x.ok /\ x.text = t
      BY <3>1, OkAndFailed
    <3>3. r.text.retained.commit # <<>>
      BY <2>9, <2>12
    <3>4. Undone(x, r, N)
      BY <2>2, <2>6, <2>7, <3>2, <3>3, Zenon DEF Undone
    <3> QED
      BY <1>2, <2>4, <2>10, <3>4 DEF WriteOutcome
  <2>13. CASE t.retained.commit # <<>> /\ fault # "write"
    <3>1. PICK from : from = IF inside THEN t.comp.from ELSE t.caret[c]
      OBVIOUS
    <3>2. PICK len : len = IF inside THEN t.comp.len ELSE 0
      OBVIOUS
    <3>3. PICK u : u = Written(t, c, from, len, inside)
      OBVIOUS
    <3>4. x = Ok(u)
      <4>1. CASE inside
        <5>1. inside = TRUE
          BY <2>6, <4>1
        <5> QED
          BY <2>5, <2>13, <3>1, <3>2, <3>3, <4>1, <5>1 DEF WriteInto
      <4>2. CASE ~inside
        <5>1. inside = FALSE
          BY <2>6, <4>2
        <5> QED
          BY <2>5, <2>13, <3>1, <3>2, <3>3, <4>2, <5>1 DEF WriteInto
      <4> QED
        BY <4>1, <4>2
    <3>5. t \in TextType(N) /\ t.comp = before.comp /\ t.caret = before.caret /\ t.doc = before.doc
      BY <2>7 DEF MarkedAs
    <3>6. from \in Nat /\ len \in Nat
      BY <3>1, <3>2, <3>5, TextFields DEF Carets
    <3>7. t.caret[c] <= Len(t.doc[c])
      BY <2>6, <3>5 DEF Fits, PlacedCarets
    <3>8. from + len <= Len(t.doc[c])
      <4>1. CASE inside
        BY <2>1, <2>2, <2>6, <3>1, <3>2, <3>5, <4>1, NoContextAssumption
           DEF Fits, PlacedComposition, Inside, Composing
      <4>2. CASE ~inside
        BY <3>1, <3>2, <3>6, <3>7, <4>2
      <4> QED
        BY <4>1, <4>2
    <3>9. WrittenAs(u, t, N, c, from, len, inside)
      BY <3>3, <3>5, <3>6, <3>7, <3>8, WrittenFields
    <3>10. WriteSpot(t, c, from, len, inside)
      BY <2>1, <2>2, <2>6, <2>7, <2>9, <2>13, <3>1, <3>2 DEF MarkedAs, WriteSpot, Inside, Composing
    <3>11. x.ok /\ x.text = u
      BY <3>4, OkAndFailed
    <3>12. WroteAs(u, before, N, c)
      BY <2>7, <2>8, <3>6, <3>8, <3>9, <3>10, Zenon DEF WroteAs
    <3> QED
      BY <1>2, <2>2, <2>4, <2>9, <2>10, <2>13, <3>11, <3>12 DEF WriteOutcome
  <2> QED
    BY <2>11, <2>12, <2>13
<1> QED
  BY <1>0, <1>1, <1>2

LEMMA SetCaretEnds ==
  ASSUME NEW N, NEW r, Sound(r, N), NEW c \in Contexts, NEW fault
  PROVE  CaretOnly(SetCaret(r, c, fault).text, r.text)
<1>1. CASE ~r.ok \/ r.text.retained.commit = <<>> \/ r.text.retained.caretSet
  <2>1. SetCaret(r, c, fault) = r
    BY <1>1 DEF SetCaret
  <2> QED
    BY <2>1 DEF CaretOnly, SameResult
<1>2. CASE /\ ~(~r.ok \/ r.text.retained.commit = <<>> \/ r.text.retained.caretSet)
           /\ fault = "caret"
  <2>1. SetCaret(r, c, fault) = Failed(r.text)
    BY <1>2 DEF SetCaret
  <2> QED
    BY <2>1, OkAndFailed DEF CaretOnly, SameResult
<1>3. CASE /\ ~(~r.ok \/ r.text.retained.commit = <<>> \/ r.text.retained.caretSet)
           /\ fault # "caret"
  <2>1. PICK t : t = r.text
    OBVIOUS
  <2>2. PICK at : at = t.retained.at
    OBVIOUS
  <2>3. PICK v : v = [t EXCEPT !.caret[c] = at]
    OBVIOUS
  <2>4. PICK u : u = WithCaretSet(v)
    OBVIOUS
  <2>5. SetCaret(r, c, fault) = Ok(u)
    BY <1>3, <2>1, <2>2, <2>3, <2>4, Zenon DEF SetCaret, WithCaretSet
  <2>6. t \in TextType(N) /\ at \in Nat
    BY <2>1, <2>2, TextFields DEF Sound, Fits
  <2>7. /\ v \in TextType(N) /\ v.doc = t.doc /\ v.comp = t.comp /\ v.engine = t.engine
        /\ v.retained = t.retained
    BY <2>3, <2>6, OneCaretSet
  <2>8. MarkedAs(u, v, N, v.retained.written, TRUE, v.retained.needsEnd)
    <3>1. v \in TextType(N)
      BY <2>7
    <3> QED
      BY <2>4, <3>1, CaretMarked
  <2>9. CaretOnly(u, t)
    BY <2>7, <2>8 DEF MarkedAs, CaretOnly, SameResult
  <2> QED
    BY <2>1, <2>5, <2>9, OkAndFailed
<1> QED
  BY <1>1, <1>2, <1>3

EndCommittedOutcome(x, r, c) ==
  \/ x = r /\ (r.ok => r.text.retained.needsEnd = FALSE)
  \/ r.ok /\ ~x.ok /\ x.text = r.text
  \/ /\ r.ok /\ r.text.retained.needsEnd = TRUE /\ x.ok
     /\ x.text.comp.context # c /\ x.text.comp \in {NoComposition, r.text.comp}
     /\ x.text.doc = r.text.doc /\ x.text.engine = r.text.engine /\ SameResult(x.text, r.text)
     /\ x.text.retained.written = r.text.retained.written
     /\ x.text.retained.needsEnd = FALSE

LEMMA EndCommittedEnds ==
  ASSUME NEW N, NEW r, Steady(r, N), NEW c \in Contexts, NEW fault
  PROVE  EndCommittedOutcome(EndCommitted(r, c, fault), r, c)
<1>0. r.text \in TextType(N) /\ r.text.retained.needsEnd \in BOOLEAN
  <2>1. r.text \in TextType(N)
    BY DEF Steady, Sound, Fits
  <2> QED
    BY <2>1, TextFields
<1>1. CASE ~r.ok \/ ~r.text.retained.needsEnd
  BY <1>0, <1>1 DEF EndCommitted, EndCommittedOutcome
<1>2. CASE r.ok /\ r.text.retained.needsEnd
  <2>1. PICK clear : clear = FALSE
    OBVIOUS
  <2>2. PICK e : e = End(r, c, clear, fault)
    OBVIOUS
  <2>3. EndCommitted(r, c, fault) = Ended(e)
    BY <1>2, <2>1, <2>2 DEF EndCommitted
  <2>4. clear \in BOOLEAN
    BY <2>1
  <2>5. Steady(e, N) /\ e.text.retained = r.text.retained /\ (e.ok => e.text.comp.context # c)
    BY <2>2, <2>4, EndFits
  <2>6. EndOutcome(e, r, N, c, clear)
    BY <2>2, <2>4, EndEnds
  <2>7. /\ e.text.doc = r.text.doc /\ e.text.engine = r.text.engine
        /\ ~e.ok => e.text = r.text
        /\ e.ok => e.text.comp \in {NoComposition, r.text.comp}
    BY <2>1, <2>6 DEF EndOutcome
  <2>8. CASE ~e.ok
    BY <1>2, <2>3, <2>7, <2>8 DEF Ended, EndCommittedOutcome
  <2>9. CASE e.ok
    <3>1. PICK before : before = e.text
      OBVIOUS
    <3>2. PICK no : no = FALSE
      OBVIOUS
    <3>3. PICK u : u = WithEnd(before, no)
      OBVIOUS
    <3>4. Ended(e) = Ok(u)
      BY <2>9, <3>1, <3>2, <3>3, Zenon DEF Ended, WithEnd
    <3>5. before \in TextType(N) /\ no \in BOOLEAN
      BY <2>5, <3>1, <3>2 DEF Steady, Sound, Fits
    <3>6. MarkedAs(u, before, N, before.retained.written, before.retained.caretSet, no)
      BY <3>3, <3>5, EndMarked
    <3>7. /\ u.comp.context # c /\ u.comp \in {NoComposition, r.text.comp}
          /\ u.doc = r.text.doc /\ u.engine = r.text.engine
          /\ u.retained.written = r.text.retained.written /\ u.retained.needsEnd = FALSE
      BY <2>5, <2>7, <2>9, <3>1, <3>2, <3>6 DEF MarkedAs
    <3>8. SameResult(u, r.text)
      BY <2>5, <3>1, <3>6 DEF MarkedAs, SameResult
    <3> QED
      BY <1>0, <1>2, <2>3, <3>4, <3>7, <3>8, OkAndFailed DEF EndCommittedOutcome
  <2> QED
    BY <2>8, <2>9
<1> QED
  BY <1>1, <1>2
-----------------------------------------------------------------------------
(* The composition shows s; with nothing retained, that is what the engine  *)
(* holds.  A retained result is for the field of the composition, is what   *)
(* the engine answered last, and when nothing is left to be shown the       *)
(* composition it was written over still has to be ended.                   *)
Displays(t, s) ==
  /\ t.comp.len = Len(s)
  /\ \A i \in 1 .. Len(s) : t.doc[t.comp.context][t.comp.from + i] = s[i]
Current(t) ==
  /\ t.comp.context = NoContext => t.engine = <<>>
  /\ t.comp.context # NoContext => Displays(t, t.engine)
Ending(t) ==
  /\ t.retained.written = TRUE
  /\ t.retained.commit # <<>> /\ t.retained.view = <<>>
  /\ t.comp.context # NoContext
  => t.retained.needsEnd = TRUE
Due(t, c) == t.comp.context \in {NoContext, c} /\ Ending(t)
Showing(t) ==
  /\ ~Retaining(t) => Current(t)
  /\ Retaining(t) => Due(t, t.retained.context) /\ t.engine = t.retained.view

LEMMA DueSame ==
  ASSUME NEW c, NEW t, NEW u, CaretOnly(u, t), Due(t, c)
  PROVE  Due(u, c)
BY DEF CaretOnly, SameResult, Due, Ending

LEMMA CurrentSame ==
  ASSUME NEW t, NEW u, u.doc = t.doc, u.comp = t.comp, u.engine = t.engine, Current(t)
  PROVE  Current(u)
BY DEF Current, Displays

LEMMA DisplaysSame ==
  ASSUME NEW t, NEW u, u.doc = t.doc, u.comp = t.comp, NEW s, Displays(t, s)
  PROVE  Displays(u, s)
BY DEF Displays

LEMMA ShownDisplays ==
  ASSUME NEW N, NEW t, Fits(t, N), NEW c \in Contexts, Composing(t, c), NEW new \in Seq(N),
         NEW u, ShownAs(u, t, N, c, new)
  PROVE  Displays(u, new)
<1>1. PICK from : from = t.comp.from
  OBVIOUS
<1>2. PICK len : len = t.comp.len
  OBVIOUS
<1>3. PICK s : s = t.doc[c]
  OBVIOUS
<1>4. t \in TextType(N) /\ t.comp.context = c
  BY DEF Fits, Composing
<1>5. from \in Nat /\ len \in Nat /\ s \in Seq(N) /\ from + len <= Len(s)
  BY <1>1, <1>2, <1>3, <1>4, TextFields, NoContextAssumption DEF Docs, Fits, PlacedComposition
<1>6. Spliced(Replaced(s, from, len, new), s, N, from, len, new)
  BY <1>5, PlacesOfReplaced
<1>7. u.doc[c] = Replaced(s, from, len, new) /\ u.comp.from = from /\ u.comp.context = c
  BY <1>1, <1>2, <1>3, <1>4 DEF ShownAs
<1>8. u.comp.len = Len(new)
  BY DEF ShownAs
<1> QED
  BY <1>6, <1>7, <1>8 DEF Spliced, Displays

LEMMA WriteDue ==
  ASSUME NEW N, NEW r, Sound(r, N), NEW c \in Contexts, Of(r, c), NEW fault, Due(r.text, c)
  PROVE  Due(Write(r, c, fault).text, c)
<1>1. PICK x : x = Write(r, c, fault)
  OBVIOUS
<1>2. WriteOutcome(x, r, N, c)
  BY <1>1, WriteEnds
<1>3. CASE x = r
  BY <1>1, <1>3
<1>4. CASE r.text.retained.written = FALSE /\ Undone(x, r, N)
  BY <1>1, <1>4 DEF Undone, MarkedAs, Due, Ending
<1>5. CASE /\ r.text.retained.commit = <<>>
           /\ MarkedAs(x.text, r.text, N, TRUE, r.text.retained.caretSet, FALSE)
  BY <1>1, <1>5 DEF MarkedAs, Due, Ending
<1>6. CASE WroteAs(x.text, r.text, N, c)
  <2>1. PICK b, from, len, inside :
          /\ MarkedAs(b, r.text, N, r.text.retained.written, r.text.retained.caretSet, inside)
          /\ WriteSpot(b, c, from, len, inside)
          /\ WrittenAs(x.text, b, N, c, from, len, inside)
    BY <1>6, Zenon DEF WroteAs
  <2>2. x.text.comp.context = r.text.comp.context /\ x.text.retained.needsEnd = inside
    BY <2>1 DEF MarkedAs, WrittenAs
  <2>3. inside \in BOOLEAN /\ (inside <=> r.text.comp.context = c)
    BY <2>1 DEF MarkedAs, WriteSpot, Composing
  <2> QED
    BY <1>1, <2>2, <2>3 DEF Due, Ending
<1> QED
  BY <1>2, <1>3, <1>4, <1>5, <1>6 DEF WriteOutcome

(* Once the composition of a write is ended, one that is still there is for *)
(* the view.                                                                *)
Finished(t) ==
  t.retained.commit # <<>> /\ t.retained.view = <<>> => t.comp.context = NoContext

LEMMA EndCommittedDue ==
  ASSUME NEW N, NEW r, Steady(r, N), NEW c \in Contexts, NEW fault, Due(r.text, c),
         r.ok => r.text.retained.written = TRUE
  PROVE  /\ Due(EndCommitted(r, c, fault).text, c)
         /\ EndCommitted(r, c, fault).ok => Finished(EndCommitted(r, c, fault).text)
<1>1. PICK x : x = EndCommitted(r, c, fault)
  OBVIOUS
<1>2. EndCommittedOutcome(x, r, c)
  BY <1>1, EndCommittedEnds
<1>3. CASE x = r /\ (r.ok => r.text.retained.needsEnd = FALSE)
  BY <1>1, <1>3 DEF Due, Ending, Finished
<1>4. CASE ~x.ok /\ x.text = r.text
  BY <1>1, <1>4
<1>5. CASE /\ x.text.comp.context # c /\ x.text.comp \in {NoComposition, r.text.comp}
  <2>1. x.text.comp.context = NoContext
    BY <1>5, NothingTyped DEF Due
  <2> QED
    BY <1>1, <2>1 DEF Due, Ending, Finished
<1> QED
  BY <1>2, <1>3, <1>4, <1>5 DEF EndCommittedOutcome

(* What the last stage leaves, when it is done and when it is refused.      *)
Arrived(t, view) ==
  /\ view = <<>> => t.comp.context = NoContext
  /\ view # <<>> => t.comp.context # NoContext /\ Displays(t, view)

LEMMA ViewDue ==
  ASSUME NEW N, NEW r, Steady(r, N), NEW c \in Contexts, NEW fault, Due(r.text, c),
         r.ok => Finished(r.text)
  PROVE  /\ Due(View(r, c, fault).text, c)
         /\ View(r, c, fault).ok => Arrived(View(r, c, fault).text, r.text.retained.view)
<1>1. PICK x : x = View(r, c, fault)
  OBVIOUS
<1>2. ViewOutcome(x, r, N, c)
  BY <1>1, ViewEnds
<1>3. Follows(x, r, N)
  BY <1>1, ViewFits
<1>4. x.text.comp.context \in {NoContext, c}
  <2>1. Keeps(x, r, c)
    BY <1>1, ViewKeeps
  <2> QED
    BY <2>1 DEF Keeps, KeepsText, Due
<1>5. CASE x = r /\ (r.ok => r.text.retained.view = <<>> /\ r.text.retained.commit # <<>>)
  BY <1>1, <1>5 DEF Finished, Arrived
<1>6. CASE r.ok /\ r.text.retained.view # <<>> /\ ViewShown(x, r, N, c)
  <2>1. Due(x.text, c)
    BY <1>3, <1>4, <1>6 DEF Follows, Due, Ending
  <2>2. CASE ~x.ok
    BY <1>1, <2>1, <2>2
  <2>3. CASE x.ok
    <3>1. PICK s : /\ Steady(s, N) /\ s.ok /\ Composing(s.text, c)
                   /\ \E u : /\ ShownAs(u, s.text, N, c, r.text.retained.view)
                             /\ CaretOnly(x.text, u)
      BY <1>6, <2>3, Zenon DEF ViewShown
    <3>2. PICK u : ShownAs(u, s.text, N, c, r.text.retained.view) /\ CaretOnly(x.text, u)
      BY <3>1
    <3>3. PICK t : t = s.text
      OBVIOUS
    <3>4. PICK new : new = r.text.retained.view
      OBVIOUS
    <3>5. Fits(t, N) /\ Composing(t, c) /\ ShownAs(u, t, N, c, new)
      BY <3>1, <3>2, <3>3, <3>4 DEF Steady, Sound
    <3>6. new \in Seq(N)
      <4>1. r.text \in TextType(N)
        BY DEF Steady, Sound, Fits
      <4> QED
        BY <3>4, <4>1, TextFields
    <3>7. Displays(u, new)
      BY <3>5, <3>6, ShownDisplays
    <3>8. Displays(x.text, new)
      BY <3>2, <3>7, DisplaysSame DEF CaretOnly
    <3>9. x.text.comp.context = c
      BY <3>2, <3>5 DEF CaretOnly, ShownAs, Composing
    <3> QED
      BY <1>1, <1>6, <2>1, <3>4, <3>8, <3>9, NoContextAssumption DEF Arrived
  <2> QED
    BY <2>2, <2>3
<1>7. CASE /\ r.ok /\ r.text.retained.view = <<>> /\ r.text.retained.commit = <<>>
           /\ EndOutcome(x, r, N, c, TRUE)
  <2>1. Due(x.text, c)
    BY <1>3, <1>4, <1>7 DEF Follows, Due, Ending
  <2>2. x.ok => x.text.comp.context = NoContext
    BY <1>7, NothingTyped DEF EndOutcome, Due, Composing
  <2> QED
    BY <1>1, <1>7, <2>1, <2>2 DEF Arrived
<1> QED
  BY <1>2, <1>5, <1>6, <1>7 DEF ViewOutcome

LEMMA RetryShows ==
  ASSUME NEW N, NEW r, Sound(r, N), NEW c \in Contexts, NEW fault, Showing(r.text)
  PROVE  Showing(Retry(r, c, fault).text)
<1>1. CASE ~r.ok \/ ~Retaining(r.text)
  BY <1>1 DEF Retry
<1>2. CASE r.ok /\ Retaining(r.text) /\ r.text.retained.context # c
  BY <1>2, OkAndFailed DEF Retry
<1>3. CASE r.ok /\ Retaining(r.text) /\ r.text.retained.context = c
  <2>1. PICK w : w = Write(r, c, fault)
    OBVIOUS
  <2>2. PICK s : s = SetCaret(w, c, fault)
    OBVIOUS
  <2>3. PICK e : e = EndCommitted(s, c, fault)
    OBVIOUS
  <2>4. PICK v : v = View(e, c, fault)
    OBVIOUS
  <2>5. Retry(r, c, fault) = Released(v)
    BY <1>3, <2>1, <2>2, <2>3, <2>4 DEF Retry
  <2>6. Of(r, c) /\ Due(r.text, c) /\ r.text.engine = r.text.retained.view
    BY <1>3 DEF Of, Showing
  <2>7. Sound(w, N) /\ Of(w, c) /\ (w.ok => w.text.retained.written = TRUE)
    BY <2>1, <2>6, WriteFits
  <2>8. Steady(s, N) /\ (s.ok => w.ok)
    BY <2>2, <2>7, SetCaretFits
  <2>9. Steady(e, N)
    BY <2>3, <2>8, EndCommittedFits
  <2>10. Follows(v, e, N)
    BY <2>4, <2>9, ViewFits
  <2>11. Due(w.text, c)
    BY <2>1, <2>6, WriteDue
  <2>12. CaretOnly(s.text, w.text)
    BY <2>2, <2>7, SetCaretEnds
  <2>13. Due(s.text, c)
    BY <2>11, <2>12, DueSame
  <2>14. s.ok => s.text.retained.written = TRUE
    BY <2>7, <2>8, <2>12 DEF CaretOnly
  <2>15. Due(e.text, c) /\ (e.ok => Finished(e.text))
    BY <2>3, <2>8, <2>13, <2>14, EndCommittedDue
  <2>16. Due(v.text, c) /\ (v.ok => Arrived(v.text, e.text.retained.view))
    BY <2>4, <2>9, <2>15, ViewDue
  <2>17. SameResult(v.text, r.text)
    <3>1. SameResult(w.text, r.text)
      BY <2>1, <2>6, WriteSame
    <3>2. SameResult(s.text, w.text)
      BY <2>12 DEF CaretOnly
    <3>3. SameResult(e.text, s.text)
      BY <2>3, <2>8, EndCommittedSame
    <3>4. SameResult(v.text, e.text)
      BY <2>10, SameItself DEF Follows
    <3>5. SameResult(s.text, r.text)
      BY <3>1, <3>2, SameTwice
    <3>6. SameResult(e.text, r.text)
      BY <3>3, <3>5, SameTwice
    <3> QED
      BY <3>4, <3>6, SameTwice
  <2>18. v.text.engine = v.text.retained.view /\ v.text.retained.view = e.text.retained.view
    <3>1. Keeps(w, r, c)
      BY <2>1, <2>6, WriteKeeps
    <3>2. Keeps(e, s, c)
      BY <2>3, <2>8, EndCommittedKeeps
    <3>3. Keeps(v, e, c)
      BY <2>4, <2>9, ViewKeeps
    <3>4. v.text.engine = r.text.engine
      BY <2>12, <3>1, <3>2, <3>3 DEF Keeps, KeepsText, CaretOnly
    <3> QED
      BY <2>6, <2>10, <2>17, <3>4 DEF Follows, SameResult
  <2>19. CASE ~v.ok
    <3>1. Released(v) = v
      BY <2>19 DEF Released
    <3> QED
      BY <1>3, <2>5, <2>16, <2>17, <2>18, <3>1 DEF Showing, Retaining, SameResult
  <2>20. CASE v.ok
    <3>1. PICK t : t = v.text
      OBVIOUS
    <3>2. PICK u : u = [t EXCEPT !.retained = NoResult]
      OBVIOUS
    <3>3. Released(v) = Ok(u)
      BY <2>20, <3>1, <3>2, Zenon DEF Released
    <3>4. t \in TextType(N)
      BY <2>10, <3>1 DEF Follows, Steady, Sound, Fits
    <3>5. u.retained = NoResult /\ u.comp = t.comp /\ u.doc = t.doc /\ u.engine = t.engine
      BY <3>2, <3>4, NothingTyped, RetainedSet
    <3>6. Current(t)
      BY <2>16, <2>18, <2>20, <3>1 DEF Arrived, Current
    <3>7. Current(u) /\ ~Retaining(u)
      BY <3>5, <3>6, NothingTyped, CurrentSame DEF Retaining
    <3> QED
      BY <2>5, <3>3, <3>7, OkAndFailed DEF Showing
  <2> QED
    BY <2>19, <2>20
<1> QED
  BY <1>1, <1>2, <1>3
-----------------------------------------------------------------------------
(* Input for field c may run: nothing is retained unless a step failed, and *)
(* no other field has the composition.                                      *)
Poised(r, N, c) ==
  Sound(r, N) /\ Idles(r) /\ Showing(r.text) /\ r.text.comp.context \in {NoContext, c}

LEMMA RetainShows ==
  ASSUME NEW N, NEW t, Fits(t, N), NEW c \in Contexts,
         NEW commit \in Seq(N), NEW view \in Seq(N), NEW fault,
         t.engine = view, t.comp.context \in {NoContext, c}
  PROVE  Poised(Retry(Retained(t, c, commit, view), c, fault), N, c)
<1>1. PICK r : r = Retained(t, c, commit, view)
  OBVIOUS
<1>2. PICK u : u = r.text
  OBVIOUS
<1>3. r.ok = TRUE /\ RetainedAs(u, t, N, c, commit, view)
  BY <1>1, <1>2, RetainedFits
<1>4. Sound(r, N)
  BY <1>2, <1>3 DEF RetainedAs, Sound
<1>5. Showing(r.text)
  BY <1>2, <1>3, NoContextAssumption DEF RetainedAs, Showing, Retaining, Due, Ending
<1>6. PICK x : x = Retry(r, c, fault)
  OBVIOUS
<1>7. Sound(x, N) /\ Idles(x)
  BY <1>4, <1>6, RetryHandles DEF Handles
<1>8. Showing(x.text)
  BY <1>4, <1>5, <1>6, RetryShows
<1>9. x.text.comp.context \in {NoContext, c}
  <2>1. Keeps(x, r, c)
    BY <1>4, <1>6, RetryKeeps
  <2> QED
    BY <1>2, <1>3, <2>1 DEF Keeps, KeepsText, RetainedAs
<1> QED
  BY <1>1, <1>6, <1>7, <1>8, <1>9 DEF Poised

LEMMA StartPoised ==
  ASSUME NEW N, NEW c \in Contexts, NEW r, Poised(r, N, c), NEW fault
  PROVE  Poised(Start(r, c, fault), N, c)
<1>1. PICK x : x = Start(r, c, fault)
  OBVIOUS
<1>2. Sound(r, N) /\ (r.ok => Current(r.text) /\ ~Retaining(r.text))
  BY DEF Poised, Idles, Showing
<1>3. StartOutcome(x, r, c)
  BY <1>1, <1>2, StartEnds
<1>4. CASE ~r.ok
  <2>1. x = r
    BY <1>1, <1>4 DEF Start
  <2> QED
    BY <1>1, <2>1
<1>5. CASE r.ok
  <2>1. Steady(r, N)
    BY <1>2, <1>5 DEF Steady, Unwritten
  <2>2. Steady(x, N) /\ x.text.retained = r.text.retained
    BY <1>1, <2>1, StartFits
  <2>3. ~Retaining(x.text)
    BY <1>2, <1>5, <2>2 DEF Retaining
  <2>4. CASE x.text = r.text
    BY <1>1, <2>2, <2>3, <2>4 DEF Poised, Idles, Steady
  <2>5. CASE /\ r.text.comp.context = NoContext
             /\ x.text.comp.context = c /\ x.text.comp.len = 0
             /\ x.text.engine = r.text.engine
    <3>1. x.text.engine = <<>>
      BY <1>2, <1>5, <2>5 DEF Current
    <3>2. Current(x.text)
      BY <2>5, <3>1, NoContextAssumption DEF Current, Displays
    <3> QED
      BY <1>1, <2>2, <2>3, <2>5, <3>2 DEF Poised, Idles, Steady, Showing
  <2> QED
    BY <1>3, <2>4, <2>5 DEF StartOutcome
<1> QED
  BY <1>2, <1>4, <1>5 DEF Sound

LEMMA EndPoised ==
  ASSUME NEW N, NEW c \in Contexts, NEW r, Poised(r, N, c), r.ok, r.text.engine = <<>>,
         NEW clear, clear = FALSE, NEW fault
  PROVE  /\ Fits(End(r, c, clear, fault).text, N)
         /\ Current(End(r, c, clear, fault).text) /\ ~Retaining(End(r, c, clear, fault).text)
         /\ End(r, c, clear, fault).text.comp.context \in {NoContext, c}
<1>1. PICK x : x = End(r, c, clear, fault)
  OBVIOUS
<1>2. Steady(r, N) /\ clear \in BOOLEAN /\ Current(r.text) /\ ~Retaining(r.text)
  BY DEF Poised, Idles, Showing, Steady, Unwritten
<1>3. EndOutcome(x, r, N, c, clear)
  BY <1>1, <1>2, EndEnds
<1>4. Steady(x, N) /\ x.text.retained = r.text.retained
  BY <1>1, <1>2, EndFits
<1>5. x.text.engine = <<>>
  BY <1>3 DEF EndOutcome
<1>6. x.text = r.text \/ x.text.comp = NoComposition
  <2>1. CASE x = r
    BY <2>1
  <2>2. CASE x # r
    <3>1. PICK t : /\ IF clear THEN ShownAs(t, r.text, N, c, <<>>) ELSE t = r.text
                   /\ x.text.doc = t.doc /\ x.text.engine = t.engine
                   /\ x.text.retained = t.retained
                   /\ x.ok => x.text.comp = NoComposition
                   /\ ~x.ok => x.text = t
      BY <1>3, <2>2, Zenon DEF EndOutcome
    <3>2. t = r.text
      BY <3>1, Zenon
    <3> QED
      BY <3>1, <3>2
  <2> QED
    BY <2>1, <2>2
<1>7. Current(x.text)
  BY <1>2, <1>5, <1>6, NothingTyped DEF Current
<1>8. x.text.comp.context \in {NoContext, c}
  BY <1>6, NothingTyped DEF Poised
<1> QED
  BY <1>1, <1>2, <1>4, <1>7, <1>8 DEF Steady, Sound, Retaining

LEMMA ConsumePoised ==
  ASSUME NEW N, NEW t, Fits(t, N), NEW op, op.id \in N, op.context \in Contexts,
         t.comp.context \in {NoContext, op.context},
         NEW a, AnsweredAs(a, t.engine, op.id, N), NEW fault
  PROVE  Poised(Consume(t, op, a, fault), N, op.context)
<1>1. PICK c : c = op.context
  OBVIOUS
<1>2. PICK e : e = a.engine
  OBVIOUS
<1>3. PICK u : u = WithEngine(t, e)
  OBVIOUS
<1>4. PICK commit : commit = a.commit
  OBVIOUS
<1>5. e \in Seq(N) /\ commit \in Seq(N) /\ a.view = e
  BY <1>2, <1>4 DEF AnsweredAs
<1>6. PICK x : x = Retry(Retained(u, c, commit, e), c, fault)
  OBVIOUS
<1>7. Consume(t, op, a, fault) = Ran(x, Took(op, a.handled))
  BY <1>1, <1>2, <1>3, <1>4, <1>5, <1>6, Zenon DEF Consume, WithEngine
<1>8. EngineAs(u, t, N, e)
  BY <1>3, <1>5, EngineFits
<1>9. Poised(x, N, c)
  <2>1. Fits(u, N) /\ c \in Contexts /\ u.engine = e /\ u.comp.context \in {NoContext, c}
    BY <1>1, <1>8 DEF EngineAs
  <2> QED
    BY <1>5, <1>6, <2>1, RetainShows
<1> QED
  BY <1>1, <1>7, <1>9, RanIs DEF Poised, Sound, Idles

LEMMA AskPoised ==
  ASSUME NEW N, NEW start, NEW op, op.id \in N, op.context \in Contexts,
         Poised(start, N, op.context), NEW answer \in AllAnswers,
         answer = "shift" /\ start.ok => start.text.engine # <<>>, NEW fault
  PROVE  Poised(AskEngine(start, op, answer, fault), N, op.context)
<1>0. start.ok \in BOOLEAN /\ Fits(start.text, N)
  BY DEF Poised, Sound
<1>1. CASE ~start.ok
  <2>1. AskEngine(start, op, answer, fault) = Ran(start, op)
    BY <1>1, Zenon DEF AskEngine
  <2> QED
    BY <2>1, RanIs DEF Poised, Sound, Idles
<1>2. CASE start.ok /\ answer \in Declining
  <2>1. PICK clear : clear = FALSE
    OBVIOUS
  <2>2. PICK e : e = End(start, op.context, clear, fault)
    OBVIOUS
  <2>3. PICK u : u = IF start.text.engine = <<>> THEN e.text ELSE start.text
    OBVIOUS
  <2>4. AskEngine(start, op, answer, fault) = Ran(Ok(u), op)
    BY <1>2, <2>1, <2>2, <2>3, Zenon DEF AskEngine
  <2>5. Fits(u, N) /\ Current(u) /\ ~Retaining(u) /\ u.comp.context \in {NoContext, op.context}
    <3>1. CASE start.text.engine = <<>>
      BY <1>2, <2>1, <2>2, <2>3, <3>1, EndPoised
    <3>2. CASE start.text.engine # <<>>
      BY <1>2, <2>3, <3>2 DEF Poised, Sound, Idles, Showing
    <3> QED
      BY <3>1, <3>2
  <2>6. Sound(Ok(u), N) /\ Ok(u).text = u
    BY <2>5, SoundResults, OkAndFailed
  <2> QED
    BY <2>4, <2>5, <2>6, RanIs DEF Poised, Sound, Idles, Showing
<1>3. CASE start.ok /\ answer \notin Declining
  <2>1. PICK t : t = start.text
    OBVIOUS
  <2>2. PICK a : a = Answered(answer, t.engine, op.id)
    OBVIOUS
  <2>3. AskEngine(start, op, answer, fault) = Consume(t, op, a, fault)
    BY <1>3, <2>1, <2>2, Zenon DEF AskEngine
  <2>4. t.engine \in Seq(N)
    BY <1>0, <2>1, TextFields DEF Fits
  <2>5. AnsweredAs(a, t.engine, op.id, N)
    <3>1. PICK e : e = t.engine
      OBVIOUS
    <3>2. PICK id : id = op.id
      OBVIOUS
    <3>3. e \in Seq(N) /\ id \in N /\ (answer = "shift" => e # <<>>)
      BY <1>3, <2>1, <2>4, <3>1, <3>2
    <3>4. AnsweredAs(Answered(answer, e, id), e, id, N)
      BY <3>3, EngineAnswers
    <3> QED
      BY <2>2, <3>1, <3>2, <3>4
  <2>6. Fits(t, N) /\ t.comp.context \in {NoContext, op.context}
    BY <1>0, <2>1 DEF Poised
  <2> QED
    BY <2>3, <2>5, <2>6, ConsumePoised
<1> QED
  BY <1>0, <1>1, <1>2, <1>3

(* processKey, of a key that is not processed yet; in English the engine is *)
(* empty.                                                                   *)
LEMMA TypeKeyPoised ==
  ASSUME NEW N, NEW t, Fits(t, N), NEW op, op.id \in N, op.context \in Contexts,
         t.engine = <<>>, t.comp.context \in {NoContext, op.context}, NEW fault
  PROVE  Poised(TypeKey(t, op, fault), N, op.context)
<1>1. PICK c : c = op.context
  OBVIOUS
<1>2. PICK commit : commit = <<op.id>>
  OBVIOUS
<1>3. PICK view : view = <<>>
  OBVIOUS
<1>4. PICK x : x = Retry(Retained(t, c, commit, view), c, fault)
  OBVIOUS
<1>5. TypeKey(t, op, fault) = Ran(x, Took(op, TRUE))
  BY <1>1, <1>2, <1>3, <1>4, Zenon DEF TypeKey
<1>6. commit \in Seq(N) /\ view \in Seq(N) /\ c \in Contexts
  BY <1>1, <1>2, <1>3, SingleToken
<1>7. t.engine = view /\ t.comp.context \in {NoContext, c}
  BY <1>1, <1>3
<1>8. Poised(x, N, c)
  BY <1>4, <1>6, <1>7, RetainShows
<1>9. PICK y : y = TypeKey(t, op, fault)
  OBVIOUS
<1>10. y.ok = x.ok /\ y.text = x.text
  BY <1>5, <1>9 DEF Ran
<1> QED
  BY <1>1, <1>8, <1>9, <1>10 DEF Poised, Sound, Idles

LEMMA ProcessPoised ==
  ASSUME NEW N, NEW r, Sound(r, N), Idles(r), Showing(r.text), r.ok, NEW op, ~op.processed,
         op.id \in N, op.context \in Contexts, NEW mode \in BOOLEAN, mode \/ r.text.engine = <<>>,
         NEW answer \in AllAnswers,
         answer = "shift" => Detached(r.text, op.context).engine # <<>>, NEW fault
  PROVE  Poised(ProcessKey(r, op, mode, answer, fault), N, op.context)
<1>0. Fits(r.text, N) /\ ~Retaining(r.text) /\ Current(r.text)
  BY DEF Sound, Idles, Showing
<1>1. PICK t : t = r.text
  OBVIOUS
<1>2. PICK c : c = op.context
  OBVIOUS
<1>3. PICK d : d = Detached(t, c)
  OBVIOUS
<1>4. DetachedAs(d, t, N, c)
  BY <1>0, <1>1, <1>2, <1>3, DetachedFits
<1>5. Fits(d, N) /\ d.comp.context \in {NoContext, c} /\ ~Retaining(d)
  BY <1>0, <1>1, <1>4 DEF DetachedAs, Retaining
<1>6. Current(d)
  <2>1. CASE t.comp.context \in {NoContext, c}
    BY <1>0, <1>1, <1>4, <2>1 DEF DetachedAs
  <2>2. CASE t.comp.context \notin {NoContext, c}
    <3>1. d = Abandon(t)
      BY <1>3, <2>2 DEF Detached
    <3>2. d.comp = NoComposition /\ d.engine = <<>>
      BY <1>0, <1>1, <3>1, AbandonFits DEF AbandonedAs
    <3> QED
      BY <3>2, NothingTyped DEF Current
  <2> QED
    BY <2>1, <2>2
<1>7. CASE mode
  <2>1. PICK s : s = Ok(d)
    OBVIOUS
  <2>2. PICK start : start = Begun(d, c, answer, fault)
    OBVIOUS
  <2>3. ProcessKey(r, op, mode, answer, fault) = AskEngine(start, op, answer, fault)
    BY <1>1, <1>2, <1>3, <1>7, <2>2 DEF ProcessKey
  <2>4. s.text = d /\ Sound(s, N)
    BY <1>5, <2>1, OkAndFailed, SoundResults
  <2>5. Poised(s, N, c) /\ Steady(s, N)
    BY <1>5, <1>6, <2>4 DEF Poised, Idles, Showing, Steady, Unwritten
  <2>7. start = s \/ start = Start(s, c, fault)
    BY <2>1, <2>2, Zenon DEF Begun
  <2>6. Poised(start, N, c)
    BY <1>2, <2>5, <2>7, StartPoised
  <2>8. start.text.engine = d.engine
    BY <1>2, <2>4, <2>7, StartIs DEF StartedAs
  <2>9. answer = "shift" /\ start.ok => start.text.engine # <<>>
    BY <1>1, <1>2, <1>3, <2>8
  <2>10. Poised(start, N, op.context)
    BY <1>2, <2>6
  <2>11. Poised(AskEngine(start, op, answer, fault), N, op.context)
    BY <2>9, <2>10, AskPoised
  <2> QED
    BY <2>3, <2>11
<1>8. CASE ~mode
  <2>1. ProcessKey(r, op, mode, answer, fault) = TypeKey(d, op, fault)
    BY <1>1, <1>2, <1>3, <1>8 DEF ProcessKey
  <2>2. d.engine = <<>>
    BY <1>1, <1>4, <1>8 DEF DetachedAs
  <2>3. d.comp.context \in {NoContext, op.context}
    BY <1>2, <1>5
  <2> QED
    BY <1>5, <2>1, <2>2, <2>3, TypeKeyPoised
<1> QED
  BY <1>7, <1>8
-----------------------------------------------------------------------------
(* The composition is committed, a character inserted, and the run as a     *)
(* whole.                                                                   *)
LEMMA CommitPoised ==
  ASSUME NEW N, NEW c \in Contexts, NEW r, Poised(r, N, c), NEW fault
  PROVE  /\ Poised(CommitComposition(r, c, fault), N, c)
         /\ CommitComposition(r, c, fault).ok =>
              /\ CommitComposition(r, c, fault).text.engine = <<>>
              /\ CommitComposition(r, c, fault).text.comp.context = NoContext
<1>0. r.ok \in BOOLEAN /\ Fits(r.text, N) /\ Sound(r, N) /\ (r.ok => Current(r.text) /\ ~Retaining(r.text))
  BY DEF Poised, Sound, Idles, Showing
<1>1. PICK x : x = CommitComposition(r, c, fault)
  OBVIOUS
<1>2. CommitAs(x, r, N)
  BY <1>0, <1>1, CommitFits
<1>3. CASE ~r.ok
  <2>1. x = r
    BY <1>1, <1>3 DEF CommitComposition
  <2> QED
    BY <1>1, <1>3, <2>1
<1>4. CASE r.ok /\ ~x.ok
  <2>1. /\ x.text.doc = r.text.doc /\ x.text.comp = r.text.comp
        /\ x.text.engine = r.text.engine /\ x.text.retained = r.text.retained
    BY <1>2, <1>4 DEF CommitAs
  <2>2. Current(x.text) /\ ~Retaining(x.text)
    BY <1>0, <1>4, <2>1, CurrentSame DEF Retaining
  <2>3. x.text.comp.context \in {NoContext, c} /\ Sound(x, N)
    BY <1>2, <2>1 DEF Poised, CommitAs
  <2> QED
    BY <1>1, <1>4, <2>2, <2>3 DEF Poised, Idles, Showing
<1>5. CASE r.ok /\ x.ok
  <2>1. x.text.comp.context = NoContext
    <3>1. CASE ~Composing(r.text, c)
      <4>1. x = Reset(r)
        BY <1>1, <1>5, <3>1 DEF CommitComposition
      <4>2. EngineAs(Reset(r).text, r.text, N, <<>>)
        BY <1>0, <1>5, ResetFits
      <4> QED
        BY <3>1, <4>1, <4>2 DEF EngineAs, Poised, Composing
    <3>2. CASE Composing(r.text, c)
      <4>1. fault \notin {"write", "caret"}
        <5>1. fault \in {"write", "caret"} => x = Failed(r.text)
          BY <1>1, <1>5, <3>2 DEF CommitComposition
        <5> QED
          BY <1>5, <5>1, OkAndFailed
      <4>2. PICK t : t = r.text
        OBVIOUS
      <4>3. PICK u : u = [t EXCEPT !.caret[c] = t.comp.from + t.comp.len]
        OBVIOUS
      <4>4. PICK e : e = EndRange(u, fault)
        OBVIOUS
      <4>5. x = Reset(e)
        BY <1>1, <1>5, <3>2, <4>1, <4>2, <4>3, <4>4, Zenon DEF CommitComposition
      <4>6. Fits(t, N) /\ ~Unwritten(t) /\ Composing(t, c)
        BY <1>0, <1>5, <3>2, <4>2 DEF Unwritten
      <4>7. Fits(u, N) /\ u.retained = t.retained
        BY <4>3, <4>6, CaretBehindIs
      <4>8. ~Unwritten(u)
        BY <4>6, <4>7 DEF Unwritten, Retaining
      <4>9. Steady(e, N) /\ (e.ok => e.text.comp = NoComposition)
        BY <4>4, <4>7, <4>8, EndRangeFits
      <4>10. Sound(e, N) /\ e.ok \in BOOLEAN
        BY <4>9 DEF Steady, Sound
      <4>11. e.ok
        BY <1>5, <4>5, <4>10, ResetFits
      <4>12. EngineAs(x.text, e.text, N, <<>>)
        BY <4>5, <4>10, <4>11, ResetFits
      <4> QED
        BY <4>9, <4>11, <4>12, NothingTyped DEF EngineAs
    <3> QED
      BY <3>1, <3>2
  <2>2. x.text.engine = <<>> /\ x.text.retained = r.text.retained /\ Sound(x, N)
    BY <1>2, <1>5 DEF CommitAs
  <2>3. ~Retaining(x.text) /\ Current(x.text)
    BY <1>0, <1>5, <2>1, <2>2 DEF Retaining, Current
  <2> QED
    BY <1>1, <2>1, <2>2, <2>3 DEF Poised, Idles, Showing
<1>6. x.ok \in BOOLEAN
  BY <1>2 DEF CommitAs, Sound
<1> QED
  BY <1>0, <1>3, <1>4, <1>5, <1>6

LEMMA InsertPoised ==
  ASSUME NEW N, NEW r, NEW op, op.id \in N, op.context \in Contexts, Poised(r, N, op.context),
         Emptied(r), NEW fault
  PROVE  Poised(Insert(r, op, fault), N, op.context)
<1>1. CASE ~r.ok
  BY <1>1 DEF Insert
<1>2. CASE r.ok
  <2>1. PICK t : t = r.text
    OBVIOUS
  <2>2. Insert(r, op, fault)
          = Retry(Retained(t, op.context, <<op.id>>, <<>>), op.context, fault)
    BY <1>2, <2>1 DEF Insert
  <2>3. TypeKey(t, op, fault) = Ran(Insert(r, op, fault), Took(op, TRUE))
    BY <2>2 DEF TypeKey
  <2>4. PICK x : x = Insert(r, op, fault)
    OBVIOUS
  <2>5. PICK y : y = TypeKey(t, op, fault)
    OBVIOUS
  <2>6. y.ok = x.ok /\ y.text = x.text
    BY <2>3, <2>4, <2>5 DEF Ran
  <2>7. Fits(t, N) /\ t.engine = <<>> /\ t.comp.context \in {NoContext, op.context}
    BY <1>2, <2>1 DEF Poised, Sound, Emptied
  <2>8. Poised(y, N, op.context)
    BY <2>5, <2>7, TypeKeyPoised
  <2> QED
    BY <2>4, <2>6, <2>8 DEF Poised, Sound, Idles
<1> QED
  BY <1>1, <1>2

LEMMA CommitInsertPoised ==
  ASSUME NEW N, NEW r, NEW op, op.id \in N, op.context \in Contexts, Poised(r, N, op.context),
         NEW fault
  PROVE  Poised(Insert(CommitComposition(r, op.context, fault), op, fault), N, op.context)
<1>1. PICK c : c = op.context
  OBVIOUS
<1>2. PICK m : m = CommitComposition(r, c, fault)
  OBVIOUS
<1>3. c \in Contexts /\ Poised(r, N, c)
  BY <1>1
<1>4. Poised(m, N, op.context) /\ Emptied(m)
  BY <1>1, <1>2, <1>3, CommitPoised DEF Emptied
<1>5. Poised(Insert(m, op, fault), N, op.context)
  BY <1>4, InsertPoised
<1> QED
  BY <1>1, <1>2, <1>5

LEMMA RunKeyPoised ==
  ASSUME NEW N, NEW run, run.op.id \in N, run.op.context \in Contexts,
         Poised(run, N, run.op.context), NEW fault
  PROVE  Poised(RunKey(run, fault), N, run.op.context)
<1>1. CASE ~run.ok \/ run.op.handled \/ ~(run.op.ordered \/ run.op.accepted)
  BY <1>1 DEF RunKey
<1>2. CASE ~(~run.ok \/ run.op.handled \/ ~(run.op.ordered \/ run.op.accepted))
  <2>1. PICK op : op = run.op
    OBVIOUS
  <2>2. PICK r : r = Ok(run.text)
    OBVIOUS
  <2>3. PICK m : m = CommitComposition(r, op.context, fault)
    OBVIOUS
  <2>4. PICK x : x = Insert(m, op, fault)
    OBVIOUS
  <2>5. RunKey(run, fault) = InsertKey(m, op, fault)
    BY <1>2, <2>1, <2>2, <2>3 DEF RunKey
  <2>6. PICK o : o = IF m.ok THEN Took(op, TRUE) ELSE op
    OBVIOUS
  <2>7. InsertKey(m, op, fault) = Ran(x, o)
    BY <2>4, <2>6, Zenon DEF InsertKey
  <2>8. op.id \in N /\ op.context \in Contexts
    BY <2>1
  <2>9. Poised(r, N, op.context)
    BY <1>2, <2>1, <2>2, OkAndFailed, SoundResults DEF Poised, Sound, Idles
  <2>10. Poised(x, N, op.context)
    BY <2>3, <2>4, <2>8, <2>9, CommitInsertPoised
  <2>11. PICK y : y = RunKey(run, fault)
    OBVIOUS
  <2>12. y.ok = x.ok /\ y.text = x.text
    BY <2>5, <2>7, <2>11 DEF Ran
  <2> QED
    BY <2>1, <2>10, <2>11, <2>12 DEF Poised, Sound, Idles
<1> QED
  BY <1>1, <1>2

(* An operation that may meet the composition of no other field: everything *)
(* but a key that is not processed yet, which detaches the other.           *)
Beside(op, t) == op.kind # "key" \/ op.processed => t.comp.context \in {NoContext, op.context}
RunShows(x, t, op) ==
  /\ Showing(x.text) /\ Beside(x.op, x.text)
  /\ x.text.comp.context \in {t.comp.context, op.context, NoContext}

LEMMA PoisedShows ==
  ASSUME NEW N, NEW x, NEW t, NEW op, x.op.context = op.context, Poised(x, N, op.context)
  PROVE  RunShows(x, t, op)
BY DEF RunShows, Poised, Beside

LEMMA RunOperationShows ==
  ASSUME NEW N, NEW r, Sound(r, N), Idles(r), Showing(r.text), NEW op \in OperationType,
         op.id \in N, op.context \in Contexts, op.kind \in {"key", "symbol", "mode"},
         Beside(op, r.text),
         NEW mode \in BOOLEAN, mode \/ r.text.engine = <<>>, NEW answer \in Answers,
         answer = "shift" => Detached(r.text, op.context).engine # <<>>, NEW fault
  PROVE  RunShows(RunOperation(r, op, mode, answer, fault), r.text, op)
<1>0. answer \in AllAnswers /\ r.ok \in BOOLEAN /\ op.processed \in BOOLEAN
  BY AnswersAssumption DEF Sound, OperationType
<1>1. PICK x : x = RunOperation(r, op, mode, answer, fault)
  OBVIOUS
<1>2. CASE op.kind = "key"
  <2>1. PICK run : run = ProcessKey(r, op, mode, answer, fault)
    OBVIOUS
  <2>2. x = RunKey(run, fault)
    BY <1>1, <1>2, <2>1 DEF RunOperation
  <2>3. RanFrom(op, run.op)
    BY <2>1, EngineLeavesOperation
  <2>4. run.op.id = op.id /\ run.op.context = op.context
    BY <2>3, RunKeepsIdentity DEF RanFrom
  <2>5. CASE ~r.ok
    <3>1. run = Ran(r, op)
      BY <2>1, <2>5 DEF ProcessKey
    <3>2. ~run.ok /\ run.text = r.text /\ run.op = op
      BY <2>5, <3>1, RanIs
    <3>3. x = run
      BY <2>2, <3>2 DEF RunKey
    <3> QED
      BY <1>1, <3>2, <3>3 DEF RunShows
  <2>6. CASE r.ok
    <3>1. Poised(run, N, op.context)
      <4>1. CASE op.processed
        <5>1. run = Ran(r, op)
          BY <2>1, <4>1 DEF ProcessKey
        <5> QED
          BY <4>1, <5>1, RanIs DEF Poised, Beside, Sound, Idles
      <4>2. CASE ~op.processed
        BY <1>0, <2>1, <2>6, <4>2, ProcessPoised
      <4> QED
        BY <4>1, <4>2
    <3>2. run.op.id \in N /\ run.op.context \in Contexts /\ Poised(run, N, run.op.context)
      BY <2>4, <3>1
    <3>3. Poised(x, N, op.context)
      BY <2>2, <2>4, <3>2, RunKeyPoised
    <3>4. x.op.context = op.context
      <4>1. run.op \in OperationType
        BY <2>3, RanIsKin
      <4>2. RanFrom(run.op, x.op)
        <5>1. CASE x = run
          BY <4>1, <5>1, Unrun
        <5>2. CASE x # run
          <6>1. PICK m : m = CommitComposition(Ok(run.text), run.op.context, fault)
            OBVIOUS
          <6>2. x = InsertKey(m, run.op, fault)
            BY <2>2, <5>2, <6>1 DEF RunKey
          <6>3. PICK o : o = IF m.ok THEN Took(run.op, TRUE) ELSE run.op
            OBVIOUS
          <6>4. PICK y : y = Insert(m, run.op, fault)
            OBVIOUS
          <6>5. x = Ran(y, o)
            BY <6>2, <6>3, <6>4, Zenon DEF InsertKey
          <6>6. x.op = o
            BY <6>5, RanIs
          <6> QED
            BY <4>1, <6>3, <6>6, Unrun, TakenOnce
        <5> QED
          BY <5>1, <5>2
      <4> QED
        BY <2>4, <4>1, <4>2, RanIsKin DEF Kin
    <3> QED
      BY <1>1, <3>3, <3>4, PoisedShows
  <2> QED
    BY <1>0, <2>5, <2>6
<1>3. CASE op.kind # "key"
  <2>1. Poised(r, N, op.context)
    BY <1>3 DEF Poised, Beside
  <2>2. CASE op.kind = "symbol"
    <3>1. PICK z : z = Insert(CommitComposition(r, op.context, fault), op, fault)
      OBVIOUS
    <3>2. PICK y : y = IF answer = "pass" THEN r ELSE z
      OBVIOUS
    <3>3. x = Ran(y, op)
      BY <1>1, <2>2, <3>1, <3>2 DEF RunOperation, RunSymbol
    <3>4. Poised(z, N, op.context)
      BY <2>1, <3>1, CommitInsertPoised
    <3>5. Poised(y, N, op.context)
      BY <2>1, <3>2, <3>4
    <3>6. x.ok = y.ok /\ x.text = y.text /\ x.op = op
      BY <3>3, RanIs
    <3>7. Poised(x, N, op.context)
      BY <3>5, <3>6 DEF Poised, Sound, Idles
    <3> QED
      BY <1>1, <3>6, <3>7, PoisedShows
  <2>3. CASE op.kind = "mode"
    <3>1. PICK m : m = CommitComposition(r, op.context, fault)
      OBVIOUS
    <3>2. PICK y : y = IF m.ok /\ fault = "publish" THEN Failed(m.text) ELSE m
      OBVIOUS
    <3>3. x = Ran(y, op)
      BY <1>1, <2>3, <3>1, <3>2 DEF RunOperation, RunMode
    <3>4. Poised(m, N, op.context)
      BY <2>1, <3>1, CommitPoised
    <3>5. y.text = m.text /\ (y.ok => m.ok) /\ y.ok \in BOOLEAN
      BY <3>2, <3>4, OkAndFailed DEF Poised, Sound
    <3>6. x.ok = y.ok /\ x.text = y.text /\ x.op = op
      BY <3>3, RanIs
    <3>7. Poised(x, N, op.context)
      BY <3>4, <3>5, <3>6 DEF Poised, Sound, Idles
    <3> QED
      BY <1>1, <3>6, <3>7, PoisedShows
  <2> QED
    BY <1>3, <2>2, <2>3
<1> QED
  BY <1>2, <1>3

LEMMA RunInputShows ==
  ASSUME NEW N, NEW t, Fits(t, N), Showing(t), NEW op \in OperationType,
         op.id \in N, op.context \in Contexts, op.kind \in {"key", "symbol", "mode"},
         Beside(op, t), NEW mode \in BOOLEAN, mode \/ t.engine = <<>>,
         NEW answer \in Answerable(t, op.context), NEW fault
  PROVE  RunShows(RunInput(t, op, mode, answer, fault), t, op)
<1>1. PICK c : c = op.context
  OBVIOUS
<1>2. PICK s : s = Ok(t)
  OBVIOUS
<1>3. PICK r : r = Retry(s, c, fault)
  OBVIOUS
<1>4. RunInput(t, op, mode, answer, fault) = RunOperation(r, op, mode, answer, fault)
  BY <1>1, <1>2, <1>3, NoContextAssumption DEF RunInput
<1>5. s.text = t /\ Sound(s, N) /\ c \in Contexts
  BY <1>1, <1>2, OkAndFailed, SoundResults
<1>6. Sound(r, N) /\ Idles(r)
  BY <1>3, <1>5, RetryHandles DEF Handles
<1>7. Keeps(r, s, c)
  BY <1>3, <1>5, RetryKeeps
<1>8. r.text.engine = t.engine /\ r.text.comp.context \in {t.comp.context, c, NoContext}
  BY <1>5, <1>7 DEF Keeps, KeepsText
<1>9. answer \in Answers /\ (answer = "shift" => Detached(t, c).engine # <<>>)
  BY <1>1 DEF Answerable
<1>10. answer = "shift" => Detached(r.text, c).engine # <<>>
  <2>1. DetachedAs(Detached(t, c), t, N, c)
    BY <1>5, DetachedFits
  <2>2. Fits(r.text, N)
    BY <1>6 DEF Sound
  <2>3. DetachedAs(Detached(r.text, c), r.text, N, c)
    BY <1>5, <2>2, DetachedFits
  <2>4. CASE t.comp.context \in {NoContext, c}
    <3>1. Detached(r.text, c) = r.text /\ Detached(t, c) = t
      BY <1>8, <2>1, <2>3, <2>4 DEF DetachedAs
    <3> QED
      BY <1>8, <1>9, <3>1
  <2>5. CASE t.comp.context \notin {NoContext, c}
    BY <1>9, <2>1, <2>5 DEF DetachedAs
  <2> QED
    BY <2>4, <2>5
<1>11. Showing(r.text)
  BY <1>3, <1>5, RetryShows
<1>12. Beside(op, r.text)
  BY <1>1, <1>8 DEF Beside
<1>13. RunShows(RunOperation(r, op, mode, answer, fault), r.text, op)
  BY <1>1, <1>6, <1>8, <1>9, <1>10, <1>11, <1>12, RunOperationShows
<1> QED
  BY <1>1, <1>4, <1>8, <1>13 DEF RunShows
-----------------------------------------------------------------------------
(* A character the host types, and what a cancellation leaves.              *)
LEMMA TypedDisplays ==
  ASSUME NEW N, NEW t, Fits(t, N), NEW c \in Contexts, NEW id \in N,
         NEW u, TypedAs(u, t, N, c, id), t.comp.context # NoContext,
         NEW e \in Seq(N), Displays(t, e)
  PROVE  Displays(u, e)
<1>1. t.comp.context \in Fields
  BY TextFields DEF Fits
<1>2. PICK from : from = t.comp.from
  OBVIOUS
<1>3. PICK p : p = t.caret[c]
  OBVIOUS
<1>4. PICK s : s = t.doc[c]
  OBVIOUS
<1>5. PICK d : d = t.comp.context
  OBVIOUS
<1>6. t \in TextType(N) /\ e \in Seq(N) /\ from \in Nat /\ Len(e) \in Nat
  BY <1>2, TextFields DEF Fits
<1>7. /\ t.comp.len = Len(e)
      /\ \A i \in 1 .. Len(e) : t.doc[d][from + i] = e[i]
  BY <1>2, <1>5 DEF Displays
<1>8. /\ u.comp.context = d /\ u.comp.len = Len(e)
      /\ u.doc[c] = Replaced(s, p, 0, <<id>>)
      /\ \A f \in Contexts \ {c} : u.doc[f] = t.doc[f]
      /\ u.comp.from = from + (IF Composing(t, c) /\ p <= from THEN 1 ELSE 0)
  BY <1>2, <1>3, <1>4, <1>5, <1>7 DEF TypedAs
<1>9. d \in Contexts
  BY <1>1, <1>5 DEF Fields
<1>10. CASE d # c
  <2>1. u.comp.from = from /\ u.doc[d] = t.doc[d]
    BY <1>5, <1>6, <1>8, <1>9, <1>10 DEF Composing
  <2> QED
    BY <1>7, <1>8, <2>1 DEF Displays
<1>11. CASE d = c
  <2>1. PICK z : z = 0
    OBVIOUS
  <2>2. PICK new : new = <<id>>
    OBVIOUS
  <2>3. PICK r : r = Replaced(s, p, z, new)
    OBVIOUS
  <2>4. /\ s \in Seq(N) /\ p \in Nat /\ z \in Nat /\ new \in Seq(N) /\ p + z <= Len(s)
        /\ Len(new) = 1 /\ Len(s) \in Nat
    BY <1>3, <1>4, <1>6, <2>1, <2>2, TextFields DEF Fits, Docs, Carets, PlacedCarets
  <2>5. Spliced(r, s, N, p, z, new)
    BY <2>3, <2>4, PlacesOfReplaced
  <2>6. /\ \A i \in 1 .. p : r[i] = s[i]
        /\ \A i \in p + 1 .. Len(s) : r[i + 1] = s[i]
    BY <2>1, <2>4, <2>5 DEF Spliced
  <2>7. from + Len(e) <= Len(s) /\ ~(from < p /\ p < from + Len(e))
    BY <1>2, <1>3, <1>4, <1>5, <1>7, <1>11 DEF Fits, PlacedComposition
  <2>8. u.doc[d] = r /\ \A i \in 1 .. Len(e) : s[from + i] = e[i]
    BY <1>4, <1>7, <1>8, <1>11, <2>1, <2>2, <2>3
  <2>9. CASE p <= from
    <3>1. u.comp.from = from + 1
      BY <1>5, <1>8, <1>11, <2>9 DEF Composing
    <3>2. \A i \in 1 .. Len(e) : r[(from + 1) + i] = e[i]
      <4> TAKE i \in 1 .. Len(e)
      <4>1. from + i \in p + 1 .. Len(s) /\ (from + i) + 1 = (from + 1) + i
        BY <1>6, <2>4, <2>7, <2>9
      <4> QED
        BY <2>6, <2>8, <4>1
    <3> QED
      BY <1>8, <2>8, <3>1, <3>2 DEF Displays
  <2>10. CASE ~(p <= from)
    <3>1. u.comp.from = from
      BY <1>6, <1>8, <2>10
    <3>2. \A i \in 1 .. Len(e) : r[from + i] = e[i]
      <4> TAKE i \in 1 .. Len(e)
      <4>1. from + i \in 1 .. p
        BY <1>6, <2>4, <2>7, <2>10
      <4> QED
        BY <2>6, <2>8, <4>1
    <3> QED
      BY <1>8, <2>8, <3>1, <3>2 DEF Displays
  <2> QED
    BY <2>9, <2>10
<1> QED
  BY <1>10, <1>11

LEMMA HostTypesShows ==
  ASSUME NEW N, NEW t, Fits(t, N), NEW c \in Contexts, NEW id \in N, Showing(t)
  PROVE  Showing(HostTypes(t, c, id)) /\ HostTypes(t, c, id).comp.context = t.comp.context
<1>1. PICK u : u = HostTypes(t, c, id)
  OBVIOUS
<1>2. TypedAs(u, t, N, c, id)
  BY <1>1, HostTypesFits
<1>3. /\ u.comp.context = t.comp.context /\ u.engine = t.engine /\ SameResult(u, t)
      /\ u.retained.written = t.retained.written /\ u.retained.needsEnd = t.retained.needsEnd
  BY <1>2 DEF TypedAs
<1>4. Retaining(u) <=> Retaining(t)
  BY <1>3 DEF SameResult, Retaining
<1>5. CASE Retaining(t)
  BY <1>1, <1>3, <1>4, <1>5 DEF Showing, Due, Ending, SameResult
<1>6. CASE ~Retaining(t)
  <2>1. t.comp.context # NoContext => Displays(u, t.engine)
    <3>1. SUFFICES ASSUME t.comp.context # NoContext PROVE Displays(u, t.engine)
      OBVIOUS
    <3>2. PICK e : e = t.engine
      OBVIOUS
    <3>3. e \in Seq(N) /\ Displays(t, e)
      BY <1>6, <3>1, <3>2, TextFields DEF Fits, Showing, Current
    <3>4. Displays(u, e)
      BY <1>2, <3>1, <3>3, TypedDisplays
    <3> QED
      BY <3>2, <3>4
  <2> QED
    BY <1>1, <1>3, <1>4, <1>6, <2>1 DEF Showing, Current
<1> QED
  BY <1>5, <1>6

LEMMA CancelledShows ==
  ASSUME NEW N, NEW t, Fits(t, N), Showing(t), ~Retaining(t)
  PROVE  Showing(Cancelled(t))
<1>1. CancelledAs(Cancelled(t), t, N)
  BY CancelledFits
<1>2. PICK u : u = Cancelled(t)
  OBVIOUS
<1>3. u.doc = t.doc /\ u.comp = t.comp /\ u.engine = t.engine /\ ~Retaining(u)
  BY <1>1, <1>2 DEF CancelledAs
<1>4. Current(u)
  BY <1>3, CurrentSame DEF Showing
<1> QED
  BY <1>2, <1>3, <1>4 DEF Showing

LEMMA DroppedShows ==
  ASSUME NEW N, NEW t, Fits(t, N)
  PROVE  /\ Showing(Abandon(Cancelled(t)))
         /\ Abandon(Cancelled(t)).comp.context = NoContext
<1>1. PICK v : v = Cancelled(t)
  OBVIOUS
<1>2. CancelledAs(v, t, N)
  BY <1>1, CancelledFits
<1>3. Fits(v, N) /\ ~Retaining(v)
  BY <1>2 DEF CancelledAs
<1>4. PICK u : u = Abandon(v)
  OBVIOUS
<1>5. AbandonedAs(u, v, N)
  BY <1>3, <1>4, AbandonFits
<1>6. u.engine = <<>> /\ u.comp.context = NoContext /\ ~Retaining(u)
  BY <1>3, <1>5, NothingTyped DEF AbandonedAs, Retaining
<1> QED
  BY <1>1, <1>4, <1>6 DEF Showing, Current
-----------------------------------------------------------------------------
(* Between steps: the composition shows what the engine holds, and whoever  *)
(* waits in the queue, or is being asked for, may meet it.  A request that  *)
(* could meet the wrong one is not interrupted by a run.                    *)
AllBeside == \A i \in DOMAIN queue : Beside(queue[i], text)
AskingBeside ==
  request.stage \in {"push", "append"} =>
    /\ Beside(request.op, text)
    /\ request.op.kind # "key" \/ request.op.processed => pump = "off" \/ queue = <<>>
ShowInv == Showing(text) /\ AllBeside /\ AskingBeside

(* The instances without the two faults that break the host's contract.     *)
Contractual == "lateCancel" \notin Faults /\ "stray" \notin Faults

Alike(x, y) == x.kind = y.kind /\ x.context = y.context /\ x.processed = y.processed
QueueAlike == \A i \in DOMAIN queue' : \E j \in DOMAIN queue : Alike(queue'[i], queue[j])

LEMMA AllBesideKept ==
  ASSUME AllBeside, QueueAlike, text'.comp.context \in {text.comp.context, NoContext}
  PROVE  AllBeside'
<1>1. ASSUME NEW i \in DOMAIN queue' PROVE Beside(queue'[i], text')
  <2>1. PICK j \in DOMAIN queue : Alike(queue'[i], queue[j])
    BY <1>1 DEF QueueAlike
  <2>2. Beside(queue[j], text)
    BY DEF AllBeside
  <2> QED
    BY <2>1, <2>2 DEF Alike, Beside
<1> QED
  BY <1>1 DEF AllBeside

LEMMA SameIsAlike ==
  ASSUME queue' = queue
  PROVE  QueueAlike
  BY DEF QueueAlike, Alike

(* What is done to the text leaves no composition, or the one there was.    *)
LEMMA NothingAsked ==
  ASSUME request'.stage \notin {"push", "append"}
  PROVE  AskingBeside'
  BY DEF AskingBeside

LEMMA CancelledQueue ==
  ASSUME queue' = <<>>, AskingBeside, request'.stage = "none" \/ request'.op = request.op,
         request'.stage \in {"push", "append"} => request.stage \in {"push", "append"},
         text'.comp.context \in {text.comp.context, NoContext}
  PROVE  AllBeside' /\ AskingBeside'
<1>1. AllBeside'
  BY DEF AllBeside
<1>2. AskingBeside'
  BY DEF AskingBeside, Beside
<1> QED
  BY <1>1, <1>2

LEMMA AskBeside ==
  ASSUME TextInv, ShowInv, Contractual, KeyDown \/ Symbol \/ Toggle
  PROVE  ShowInv'
<1>1. text' = text /\ queue' = queue
  BY DEF KeyDown, Symbol, Toggle, Request, textVars
<1>2. Showing(text') /\ AllBeside'
  BY <1>1, AllBesideKept, SameIsAlike DEF ShowInv
<1>3. CASE KeyDown
  <2>1. request'.op = Operation("key", focus, FALSE)
    BY <1>3 DEF KeyDown, Request
  <2>2. request'.op.kind = "key" /\ ~request'.op.processed
    BY <2>1 DEF Operation
  <2>3. AskingBeside'
    BY <2>2 DEF AskingBeside, Beside
  <2> QED
    BY <1>2, <2>3 DEF ShowInv
<1>4. CASE Symbol \/ Toggle
  <2>1. PICK op : /\ Request(op) /\ op.kind \in {"symbol", "mode"}
                  /\ text.comp.context \in {NoContext, op.context}
    <3>1. CASE Symbol
      <4>1. PICK op : op = Operation("symbol", focus, FALSE)
        OBVIOUS
      <4>2. op.kind = "symbol" /\ op.context = focus
        BY <4>1 DEF Operation
      <4> QED
        BY <3>1, <4>1, <4>2 DEF Symbol, Near, Contractual
    <3>2. CASE Toggle
      <4>1. PICK c \in Contexts : Near(c) /\ Request(Operation("mode", c, ~ProjectedChinese))
        BY <3>2 DEF Toggle
      <4>2. PICK op : op = Operation("mode", c, ~ProjectedChinese)
        OBVIOUS
      <4>3. op.kind = "mode" /\ op.context = c
        BY <4>2 DEF Operation
      <4> QED
        BY <4>1, <4>2, <4>3 DEF Near, Contractual
    <3> QED
      BY <1>4, <3>1, <3>2
  <2>2. request'.op = op
    BY <2>1 DEF Request
  <2>3. queue # <<>> => Oldest.context # NoContext
    BY FrontOwned, NoContextAssumption
  <2>4. pump' = "off"
    BY <2>1, <2>3 DEF Request
  <2>5. Beside(op, text)
    BY <2>1 DEF Beside
  <2>6. AskingBeside'
    BY <1>1, <2>2, <2>4, <2>5 DEF AskingBeside
  <2> QED
    BY <1>2, <2>6 DEF ShowInv
<1> QED
  BY <1>3, <1>4

LEMMA LeaveBeside ==
  ASSUME TextInv, ShowInv, Withdrawn \/ Returned
  PROVE  ShowInv'
<1>1. queue' = queue /\ request' = NoRequest
  BY DEF Withdrawn, Withdraw, Returned, Return
<1>2. AskingBeside'
  BY <1>1, NoRequestTyped, NothingAsked
<1>3. Showing(text') /\ text'.comp.context = text.comp.context
  <2>1. CASE text' = text
    BY <2>1 DEF ShowInv
  <2>2. CASE /\ Returned /\ request.op.kind = "key" /\ ~Eaten
    <3>1. PICK op : op = request.op
      OBVIOUS
    <3>2. text' = HostTypes(text, op.context, op.id) /\ request.stage = "return"
      BY <2>2, <3>1 DEF Returned, Return
    <3>3. op.context \in Contexts /\ op.id \in Tok(typedIn, op.context)
      BY <2>2, <3>1, <3>2 DEF TextInv, QueueOwned, Entry, Call
    <3>4. op.id \in Made
      BY <3>3 DEF Tok, TextInv, History, Made
    <3>5. Fits(text, Made) /\ Showing(text)
      BY DEF TextInv, ShowInv
    <3>6. PICK u : u = HostTypes(text, op.context, op.id)
      OBVIOUS
    <3>7. /\ Showing(HostTypes(text, op.context, op.id))
          /\ HostTypes(text, op.context, op.id).comp.context = text.comp.context
      BY <3>3, <3>4, <3>5, HostTypesShows
    <3> QED
      BY <3>2, <3>7
  <2> QED
    BY <2>1, <2>2 DEF Withdrawn, Returned, textVars
<1>4. AllBeside'
  BY <1>1, <1>3, AllBesideKept, SameIsAlike DEF ShowInv
<1> QED
  BY <1>2, <1>3, <1>4 DEF ShowInv

LEMMA PushBeside ==
  ASSUME TextInv, ShowInv, Pushed
  PROVE  ShowInv'
<1>1. /\ request \in RequestType /\ queue \in Seq(OperationType) /\ made \in Nat
      /\ request.op \in OperationType
  BY TypedState DEF TextInv, IInv, RequestType
<1>2. text' = text /\ request.stage \in {"push", "append"}
  BY DEF Pushed, Push, Pushing
<1>3. PICK one : one = [request.op EXCEPT !.id = made + 1]
  OBVIOUS
<1>4. one \in OperationType /\ Alike(one, request.op)
  BY <1>1, <1>3, SMTT(20) DEF OperationType, Alike
<1>5. PICK op : op = [one EXCEPT !.ordered = queue # <<>>]
  OBVIOUS
<1>6. op \in OperationType /\ Alike(op, request.op)
  BY <1>4, <1>5 DEF OperationType, Alike
<1>7. queue' = Append(queue, op) /\ request' = [stage |-> "return", op |-> op]
  BY <1>3, <1>5, Zenon DEF Pushed, Push
<1>8. AskingBeside'
  BY <1>7, NothingAsked
<1>9. Beside(op, text)
  BY <1>2, <1>6 DEF ShowInv, AskingBeside, Alike, Beside
<1>10. \A i \in DOMAIN queue' : queue'[i] = op \/ (i \in DOMAIN queue /\ queue'[i] = queue[i])
  BY <1>1, <1>6, <1>7
<1>11. AllBeside'
  BY <1>2, <1>9, <1>10 DEF ShowInv, AllBeside
<1> QED
  BY <1>2, <1>8, <1>11 DEF ShowInv

LEMMA CompletionRests ==
  ASSUME QInv, queue # <<>>, NEW op \in OperationType, NEW outcome, CompleteInput(op, outcome)
  PROVE  \A i \in DOMAIN queue' : queue'[i] = op \/ \E j \in DOMAIN queue : queue'[i] = queue[j]
<1>1. /\ queue \in Seq(OperationType) /\ Len(queue) \in Nat \ {0} /\ DOMAIN queue = 1 .. Len(queue)
      /\ Oldest = queue[1] /\ Tail(queue) \in Seq(OperationType) /\ Len(Tail(queue)) = Len(queue) - 1
      /\ \A i \in 1 .. Len(queue) - 1 : Tail(queue)[i] = queue[i + 1]
  BY TypedState, FrontAndRest DEF Oldest
<1>2. CASE queue' = Tail(queue)
  <2>1. \A i \in DOMAIN queue' : i + 1 \in DOMAIN queue /\ queue'[i] = queue[i + 1]
    BY <1>1, <1>2
  <2> QED
    BY <2>1
<1>3. CASE queue' = <<>>
  BY <1>3
<1>4. CASE queue' = <<op>> \o Tail(queue)
  <2>1. /\ queue' \in Seq(OperationType) /\ Len(queue') = Len(queue) /\ queue'[1] = op
        /\ \A i \in 2 .. Len(queue) : queue'[i] = queue[i]
    BY <1>1, <1>4, PutBack
  <2>2. \A i \in DOMAIN queue' : i \in DOMAIN queue /\ (i = 1 \/ queue'[i] = queue[i])
    BY <1>1, <2>1
  <2> QED
    BY <2>1, <2>2
<1> QED
  BY <1>2, <1>3, <1>4, CompletionShape

(* A run of the front operation finds no request it could disturb.          *)
Undisturbed ==
  request'.stage \in {"push", "append"} =>
    request'.op.kind = "key" /\ ~request'.op.processed

LEMMA UndisturbedKept ==
  ASSUME Undisturbed
  PROVE  AskingBeside'
  BY DEF Undisturbed, AskingBeside, Beside

LEMMA RunUndisturbed ==
  ASSUME QInv, AskingBeside, Ready \/ Idle, queue # <<>>, NEW op, NEW outcome,
         request' = request \/ request' = Answer(op, outcome)
  PROVE  Undisturbed
<1>1. request \in RequestType
  BY TypedState
<1>2. CASE request.stage \in {"push", "append"}
  <2>1. request.op.kind = "key" /\ ~request.op.processed
    BY <1>2 DEF AskingBeside, Ready, Idle
  <2>2. request' = request
    BY <1>2 DEF Answer
  <2> QED
    BY <2>1, <2>2 DEF Undisturbed
<1>3. CASE request.stage \notin {"push", "append"}
  <2>1. request'.stage = request.stage
    BY <1>1 DEF Answer, RequestType
  <2> QED
    BY <1>3, <2>1 DEF Undisturbed
<1> QED
  BY <1>2, <1>3

LEMMA PumpBeside ==
  ASSUME TextInv, ShowInv, Pumped
  PROVE  ShowInv'
<1>1. QInv /\ text' = text /\ request' = request
  BY DEF TextInv, IInv, Pumped, NoSession, PumpEnter, PumpStop, Grant
<1>2. CASE PumpEnter \/ PumpStop
  <2>1. queue' = queue /\ (pump' = "off" \/ pump = "enter")
    BY <1>2 DEF PumpEnter, PumpStop
  <2>2. AllBeside'
    BY <1>1, <2>1, AllBesideKept, SameIsAlike DEF ShowInv
  <2>3. AskingBeside'
    BY <1>1, <2>1 DEF ShowInv, AskingBeside
  <2> QED
    BY <1>1, <2>2, <2>3 DEF ShowInv
<1>3. CASE Grant
  <2>1. Ready /\ queue # <<>> /\ queue \in Seq(OperationType)
    BY <1>1, <1>3, TypedState DEF Grant, Ready
  <2>2. AskingBeside'
    BY <1>1, <2>1, RunUndisturbed, UndisturbedKept DEF ShowInv
  <2>3. 1 \in DOMAIN queue /\ queue[1] \in OperationType
    BY <2>1
  <2>4. PICK op : op = [queue[1] EXCEPT !.accepted = TRUE]
    OBVIOUS
  <2>5. Alike(op, queue[1])
    BY <2>3, <2>4 DEF OperationType, Alike
  <2>6. queue' = [queue EXCEPT ![1] = op]
    BY <1>3, <2>4, Zenon DEF Grant
  <2>7. DOMAIN queue' = DOMAIN queue /\ queue'[1] = op
        /\ \A i \in DOMAIN queue \ {1} : queue'[i] = queue[i]
    BY <2>1, <2>3, <2>6
  <2>8. QueueAlike
    BY <2>3, <2>5, <2>7 DEF QueueAlike, Alike
  <2>9. AllBeside'
    BY <1>1, <2>8, AllBesideKept DEF ShowInv
  <2> QED
    BY <1>1, <2>2, <2>9 DEF ShowInv
<1> QED
  BY <1>2, <1>3 DEF Pumped

LEMMA DenyBeside ==
  ASSUME TextInv, ShowInv, Denied
  PROVE  ShowInv'
<1>1. QInv /\ text' = text /\ Ready /\ queue # <<>>
      /\ CompleteInput(Oldest, "failed") /\ request' = Answer(Oldest, "failed")
  BY DEF TextInv, IInv, Denied, Deny, Ready
<1>2. AskingBeside'
  BY <1>1, RunUndisturbed, UndisturbedKept DEF ShowInv
<1>3. Oldest \in OperationType /\ Oldest = queue[1] /\ 1 \in DOMAIN queue
  BY <1>1, OldestTyped, TypedState, FrontAndRest DEF Oldest
<1>4. \A i \in DOMAIN queue' : queue'[i] = Oldest \/ \E j \in DOMAIN queue : queue'[i] = queue[j]
  BY <1>1, <1>3, CompletionRests
<1>5. QueueAlike
  BY <1>3, <1>4 DEF QueueAlike, Alike
<1>6. AllBeside'
  BY <1>1, <1>5, AllBesideKept DEF ShowInv
<1> QED
  BY <1>1, <1>2, <1>6 DEF ShowInv

LEMMA EditBeside ==
  ASSUME TextInv, Owning, ShowInv, EditSession
  PROVE  ShowInv'
<1> PICK answer \in Answerable(text, Oldest.context),
         fault \in (Faults \cap SessionFaults) \cup {"none"} :
      Effect(Oldest, RunInput(text, Oldest, chinese, answer, fault), answer)
  BY DEF EditSession
<1>1. PICK op : op = Oldest
  OBVIOUS
<1>2. PICK run : run = RunInput(text, op, chinese, answer, fault)
  OBVIOUS
<1>3. QInv /\ queue # <<>> /\ (Ready \/ Idle)
  BY DEF TextInv, IInv, EditSession
<1>4. /\ op \in OperationType /\ op.id \in Made
      /\ op.context \in Contexts /\ op.kind \in {"key", "symbol", "mode"}
  BY <1>1, <1>3, FrontOwned DEF InputKinds
<1>5. op = queue[1] /\ 1 \in DOMAIN queue
  BY <1>1, <1>3, TypedState, FrontAndRest DEF Oldest
<1>6. Fits(text, Made) /\ Showing(text) /\ Beside(op, text)
      /\ chinese \in BOOLEAN /\ (chinese \/ text.engine = <<>>)
  BY <1>5 DEF TextInv, History, ShowInv, AllBeside, Owning
<1>7. answer \in Answerable(text, op.context)
  BY <1>1
<1>8. RunShows(RunInput(text, op, chinese, answer, fault), text, op)
  BY <1>4, <1>6, <1>7, RunInputShows
<1>9. /\ Showing(run.text) /\ Beside(run.op, run.text)
      /\ run.text.comp.context \in {text.comp.context, op.context, NoContext}
  BY <1>2, <1>8 DEF RunShows
<1>10. Effect(op, run, answer)
  BY <1>1, <1>2
<1>11. PICK outcome : outcome = IF run.ok THEN "done" ELSE "failed"
  OBVIOUS
<1>12. text' = run.text /\ Completes(run, outcome)
  BY <1>10, <1>11 DEF Effect
<1>13. CompleteInput(run.op, outcome)
       /\ (request' = request \/ request' = Answer(run.op, outcome))
  BY <1>12 DEF Completes, RunDirect, RunNow, RunSession
<1>14. AskingBeside'
  BY <1>3, <1>13, RunUndisturbed, UndisturbedKept DEF ShowInv
<1>15. run.op \in OperationType
  <2>1. answer \in Answers
    BY DEF Answerable
  <2>2. RanFrom(op, run.op)
    BY <1>2, <1>4, <2>1, RunLeavesOperation
  <2> QED
    BY <1>4, <2>2, RanIsKin
<1>16. \A i \in DOMAIN queue' : queue'[i] = run.op \/ \E j \in DOMAIN queue : queue'[i] = queue[j]
  BY <1>3, <1>13, <1>15, CompletionRests
<1>17. ASSUME NEW j \in DOMAIN queue PROVE Beside(queue[j], run.text)
  <2>1. queue[j].context = op.context /\ Beside(queue[j], text)
    BY <1>3, <1>5 DEF QInv, OneContext, ShowInv, AllBeside
  <2> QED
    BY <1>9, <2>1 DEF Beside
<1>18. AllBeside'
  BY <1>9, <1>12, <1>16, <1>17 DEF AllBeside
<1> QED
  BY <1>9, <1>12, <1>14, <1>18 DEF ShowInv
-----------------------------------------------------------------------------
(* A step that drops the queue.                                             *)
LEMMA AbandonBeside ==
  ASSUME TextInv, ShowInv, queue' = <<>>, text' = Abandon(Cancelled(text)),
         request'.op = request.op,
         request'.stage \in {"push", "append"} => request.stage \in {"push", "append"}
  PROVE  ShowInv'
<1>1. Showing(text') /\ text'.comp.context = NoContext
  <2>1. /\ Showing(Abandon(Cancelled(text)))
        /\ Abandon(Cancelled(text)).comp.context = NoContext
    BY DroppedShows DEF TextInv
  <2> QED
    BY <2>1
<1>2. AllBeside' /\ AskingBeside'
  BY <1>1, CancelledQueue DEF ShowInv
<1> QED
  BY <1>1, <1>2 DEF ShowInv

LEMMA CancelBeside ==
  ASSUME TextInv, ShowInv, queue' = <<>>, text' = Cancelled(text), Showing(text'),
         request'.stage = "none" \/ request'.op = request.op,
         request'.stage \in {"push", "append"} => request.stage \in {"push", "append"}
  PROVE  ShowInv'
<1>1. CancelledAs(Cancelled(text), text, Made)
  BY CancelledFits DEF TextInv
<1>2. text'.comp.context = text.comp.context
  BY <1>1 DEF CancelledAs
<1>3. AllBeside' /\ AskingBeside'
  BY <1>2, CancelledQueue DEF ShowInv
<1> QED
  BY <1>3 DEF ShowInv

LEMMA InterruptBeside ==
  ASSUME TextInv, ShowInv, Contractual, Interrupted
  PROVE  ShowInv'
<1>1. text' = Cancelled(text) /\ ~Retaining(text) /\ queue # <<>>
  BY DEF Interrupted, LateCancel, Contractual
<1>2. Fits(text, Made) /\ Showing(text) /\ request \in RequestType
  BY TypedState DEF TextInv, IInv, ShowInv
<1>3. Showing(text')
  BY <1>1, <1>2, CancelledShows
<1>4. queue' = <<>> /\ (request' = request \/ request' = Answer(Oldest, "cancelled"))
  <2>1. CASE RunNow(Oldest, "cancelled") \/ RunSession(Oldest, "cancelled")
    BY <2>1 DEF RunNow, RunSession, CompleteInput, Blocks, CancelInput
  <2>2. CASE DropSession
    BY <2>2 DEF DropSession, CancelInput
  <2> QED
    BY <2>1, <2>2 DEF Interrupted
<1>5. request'.stage = request.stage
      /\ (request.stage \in {"push", "append"} => request'.op = request.op)
  BY <1>2, <1>4 DEF Answer, RequestType
<1>6. CASE request.stage \in {"push", "append"}
  BY <1>1, <1>3, <1>4, <1>5, <1>6, CancelBeside
<1>7. CASE request.stage \notin {"push", "append"}
  <2>1. AllBeside'
    BY <1>4 DEF AllBeside
  <2>2. AskingBeside'
    BY <1>5, <1>7, NothingAsked
  <2> QED
    BY <1>3, <2>1, <2>2 DEF ShowInv
<1> QED
  BY <1>6, <1>7

LEMMA MovedBeside ==
  ASSUME TextInv, ShowInv, Contractual, CaretMoved
  PROVE  ShowInv'
<1>1. /\ queue' = <<>> /\ request' = request
      /\ text' = IF text.comp = NoComposition THEN Cancelled(text) ELSE Abandon(Cancelled(text))
      /\ text.comp = NoComposition => text.engine = <<>>
  BY DEF CaretMoved, Cancel, CancelInput, LateCancel, Contractual
<1>2. CASE text.comp = NoComposition
  <2>1. CancelledAs(Cancelled(text), text, Made)
    BY CancelledFits DEF TextInv
  <2>2. Showing(text')
    BY <1>1, <1>2, <2>1, NothingTyped DEF CancelledAs, Showing, Current
  <2> QED
    BY <1>1, <1>2, <2>2, CancelBeside
<1>3. CASE text.comp # NoComposition
  BY <1>1, <1>3, AbandonBeside
<1> QED
  BY <1>2, <1>3

LEMMA ShowStep ==
  ASSUME TextInv, Owning, ShowInv, Contractual, [Next]_vars
  PROVE  ShowInv'
<1>1. CASE UNCHANGED vars \/ Stale
  <2>1. UNCHANGED <<text, queue, request, pump>>
    BY <1>1 DEF vars, textVars, queueVars, Stale, StaleSession, NoSession
  <2>2. Showing(text') /\ AllBeside'
    BY <2>1, AllBesideKept, SameIsAlike DEF ShowInv
  <2>3. AskingBeside'
    BY <2>1 DEF ShowInv, AskingBeside
  <2> QED
    BY <2>2, <2>3 DEF ShowInv
<1>2. CASE KeyDown \/ Symbol \/ Toggle
  BY <1>2, AskBeside
<1>3. CASE Withdrawn \/ Returned
  BY <1>3, LeaveBeside
<1>4. CASE Pushed
  BY <1>4, PushBeside
<1>5. CASE Pumped
  BY <1>5, PumpBeside
<1>6. CASE Denied
  BY <1>6, DenyBeside
<1>7. CASE EditSession
  BY <1>7, EditBeside
<1>8. CASE Interrupted
  BY <1>8, InterruptBeside
<1>9. CASE CaretMoved
  BY <1>9, MovedBeside
<1>10. CASE Superseded
  <2>1. /\ queue' = <<>> /\ request' = [request EXCEPT !.stage = "append"]
        /\ request.stage = "push" /\ text' = Abandon(Cancelled(text))
    BY <1>10 DEF Superseded, Supersede, CancelInput
  <2>2. request'.op = request.op
    BY <2>1, TypedState DEF TextInv, IInv, RequestType
  <2> QED
    BY <2>1, <2>2, AbandonBeside
<1>11. CASE Deactivated
  BY <1>11, AbandonBeside DEF Deactivated, Cancel, CancelInput
<1>12. CASE \E c \in Contexts : FocusMoves(c)
  <2>1. CASE UNCHANGED <<queue, text, request>>
    <3>1. request'.stage = "none"
      BY <1>12, <2>1 DEF FocusMoves, Idle
    <3>2. AskingBeside'
      BY <3>1, NothingAsked
    <3> QED
      BY <2>1, <3>2, AllBesideKept, SameIsAlike DEF ShowInv
  <2>2. CASE queue' = <<>> /\ request' = request /\ text' = Abandon(Cancelled(text))
    BY <2>2, AbandonBeside
  <2> QED
    BY <1>12, <2>1, <2>2 DEF FocusMoves, Cancel, CancelInput, queueVars
<1> QED
  BY <1>1, <1>2, <1>3, <1>4, <1>5, <1>6, <1>7, <1>8, <1>9, <1>10, <1>11, <1>12 DEF Next

LEMMA ShowInit ==
  ASSUME Init
  PROVE  ShowInv
<1>1. queue = <<>> /\ request = NoRequest
  BY DEF Init, QueueInit
<1>2. PICK doc : doc = [c \in Contexts |-> <<>>]
  OBVIOUS
<1>3. PICK caret : caret = [c \in Contexts |-> 0]
  OBVIOUS
<1>4. text = TextOf(doc, caret, NoComposition, <<>>, NoResult)
  BY <1>2, <1>3 DEF Init, TextOf
<1>5. text.comp = NoComposition /\ text.engine = <<>> /\ text.retained = NoResult
  BY <1>4, FieldsOf
<1>6. Showing(text)
  BY <1>5, NothingTyped DEF Showing, Retaining, Current
<1> QED
  BY <1>1, <1>6, NoRequestTyped DEF ShowInv, AllBeside, AskingBeside

LEMMA ShownIsEngine ==
  ASSUME TextInv, ShowInv
  PROVE  CompositionShowsEngine
<1>1. SUFFICES ASSUME ~Retaining(text)
               PROVE  text.engine = IF text.comp = NoComposition THEN <<>>
                        ELSE SubSeq(text.doc[text.comp.context], text.comp.from + 1,
                                    text.comp.from + text.comp.len)
  BY DEF CompositionShowsEngine
<1>2. Fits(text, Made) /\ Current(text)
  BY <1>1 DEF TextInv, ShowInv, Showing
<1>3. CASE text.comp = NoComposition
  BY <1>2, <1>3, NothingTyped DEF Current
<1>4. CASE text.comp # NoComposition
  <2>1. text.comp.context \in Contexts /\ text.comp.context # NoContext
    BY <1>2, <1>4, TextFields DEF Fits, PlacedComposition, Fields
  <2>2. PICK s : s = text.doc[text.comp.context]
    OBVIOUS
  <2>3. PICK from : from = text.comp.from
    OBVIOUS
  <2>4. PICK e : e = text.engine
    OBVIOUS
  <2>5. s \in Seq(Made) /\ e \in Seq(Made) /\ from \in Nat
    BY <1>2, <2>1, <2>2, <2>3, <2>4, TextFields DEF Fits, Docs
  <2>6. /\ text.comp.len = Len(e)
        /\ \A i \in 1 .. Len(e) : s[from + i] = e[i]
    BY <1>2, <2>1, <2>2, <2>3, <2>4 DEF Current, Displays
  <2>7. from + Len(e) <= Len(s)
    BY <1>2, <2>1, <2>2, <2>3, <2>6 DEF Fits, PlacedComposition
  <2>8. PICK part : part = SubSeq(s, from + 1, from + Len(e))
    OBVIOUS
  <2>9. part \in Seq(Made) /\ Len(part) = Len(e) /\ \A i \in 1 .. Len(e) : part[i] = s[from + i]
    BY <2>5, <2>7, <2>8
  <2>10. part = e
    BY <2>5, <2>6, <2>9
  <2> QED
    BY <1>4, <2>2, <2>3, <2>4, <2>6, <2>8, <2>10
<1> QED
  BY <1>3, <1>4

(* With nothing pending the composition of the field shows exactly what the *)
(* engine holds, after any number of answers, refusals and retries,         *)
(* characters the host typed beside it, cancellations and changes of focus, *)
(* unless the host breaks its contract: cancels input after it refused what *)
(* the engine produced, or leaves the field of the composition unannounced  *)
(* while a symbol or a switch arrives for another.                          *)
THEOREM TextShowsEngine ==
  "lateCancel" \notin Faults /\ "stray" \notin Faults => (Spec => []CompositionShowsEngine)
<1> SUFFICES ASSUME Contractual
             PROVE  Spec => []CompositionShowsEngine
  BY DEF Contractual
<1>1. Init => TextInv /\ Owning /\ ShowInv
  BY TextInit, ShowInit
<1>2. (TextInv /\ Owning /\ ShowInv) /\ [Next]_vars => (TextInv /\ Owning /\ ShowInv)'
  BY TextStep, ShowStep DEF CancelsInTime, Contractual
<1>3. TextInv /\ ShowInv => CompositionShowsEngine
  BY ShownIsEngine
<1> QED
  BY <1>1, <1>2, <1>3, PTL DEF Spec
-----------------------------------------------------------------------------
(* The tokens that a field shows, that wait to be shown, and that the       *)
(* composition is made of.                                                  *)
Held(t) == Visible(t) \cup Waiting(t)
Part(t) == {t.doc[t.comp.context][t.comp.from + i] : i \in 1 .. t.comp.len}

(* What a retained result will write over the composition brings back every *)
(* token of it, but those of L; what was written of it is visible.          *)
Covered(t, L) ==
  ~(t.retained.written = TRUE /\ t.retained.needsEnd = TRUE) =>
    Part(t) \subseteq Range(t.retained.view) \cup L
                        \cup (IF t.retained.written = TRUE THEN {} ELSE Range(t.retained.commit))
Committed(t, L) ==
  t.retained.written = TRUE => Range(t.retained.commit) \subseteq Visible(t) \cup L
Holding(t, L) ==
  /\ ~Retaining(t) => Waiting(t) = {}
  /\ Retaining(t) => Covered(t, L) /\ Committed(t, L)

(* Fields, parts and results that are the same.                             *)
LEMMA EmptyRange == Range(<<>>) = {}
  BY DEF Range

LEMMA VisibleSame ==
  ASSUME NEW t, NEW u, u.doc = t.doc
  PROVE  Visible(u) = Visible(t)
  BY DEF Visible

LEMMA PartSame ==
  ASSUME NEW t, NEW u, u.doc = t.doc, u.comp = t.comp
  PROVE  Part(u) = Part(t)
  BY DEF Part

LEMMA NoPart ==
  ASSUME NEW N, NEW t, Fits(t, N), t.comp.context = NoContext
  PROVE  Part(t) = {}
<1>1. t.comp.len = 0
  BY NothingTyped DEF Fits, PlacedComposition
<1> QED
  BY <1>1 DEF Part

LEMMA CaretHolds ==
  ASSUME NEW t, NEW u, CaretOnly(u, t), NEW L
  PROVE  /\ Visible(u) = Visible(t) /\ Part(u) = Part(t) /\ Waiting(u) = Waiting(t)
         /\ Covered(t, L) => Covered(u, L)
         /\ Committed(t, L) => Committed(u, L)
<1>1. /\ u.doc = t.doc /\ u.comp = t.comp
      /\ u.retained.commit = t.retained.commit /\ u.retained.view = t.retained.view
      /\ u.retained.written = t.retained.written /\ u.retained.needsEnd = t.retained.needsEnd
  BY DEF CaretOnly, SameResult
<1>2. Visible(u) = Visible(t) /\ Part(u) = Part(t)
  BY <1>1, VisibleSame, PartSame
<1>3. Waiting(u) = Waiting(t)
  BY <1>1 DEF Waiting
<1> QED
  BY <1>1, <1>2, <1>3 DEF Covered, Committed

(* A field after a part of it was replaced: only that part is gone.         *)
KeptRange(r, s, from, len, new) ==
  /\ Range(s) \subseteq Range(r) \cup {s[from + i] : i \in 1 .. len}
  /\ Range(new) \subseteq Range(r)

LEMMA KeptOfReplaced ==
  ASSUME NEW N, NEW s \in Seq(N), NEW from \in Nat, NEW len \in Nat, NEW new \in Seq(N),
         from + len <= Len(s)
  PROVE  KeptRange(Replaced(s, from, len, new), s, from, len, new)
<1>1. PICK r : r = Replaced(s, from, len, new)
  OBVIOUS
<1>2. Spliced(r, s, N, from, len, new)
  BY <1>1, PlacesOfReplaced
<1>3. /\ r \in Seq(N) /\ Len(r) = Len(s) - len + Len(new)
      /\ \A i \in 1 .. from : r[i] = s[i]
      /\ \A i \in 1 .. Len(new) : r[from + i] = new[i]
      /\ \A i \in from + len + 1 .. Len(s) : r[i - len + Len(new)] = s[i]
  BY <1>2 DEF Spliced
<1>4. Len(s) \in Nat /\ Len(new) \in Nat /\ DOMAIN r = 1 .. Len(r)
      /\ DOMAIN s = 1 .. Len(s) /\ DOMAIN new = 1 .. Len(new)
  BY <1>3
<1>5. \A j \in 1 .. Len(r) : r[j] \in Range(r)
  BY <1>4 DEF Range
<1>6. ASSUME NEW i \in 1 .. Len(s) PROVE s[i] \in Range(r) \cup {s[from + k] : k \in 1 .. len}
  <2>1. CASE i \in 1 .. from
    <3>1. i \in 1 .. Len(r) /\ r[i] = s[i]
      BY <1>3, <1>4, <2>1
    <3> QED
      BY <1>5, <3>1
  <2>2. CASE i \in from + 1 .. from + len
    <3>1. PICK k : k = i - from
      OBVIOUS
    <3>2. k \in 1 .. len /\ from + k = i
      BY <2>2, <3>1
    <3> QED
      BY <3>2
  <2>3. CASE i \in from + len + 1 .. Len(s)
    <3>1. PICK j : j = i - len + Len(new)
      OBVIOUS
    <3>2. j \in 1 .. Len(r)
      BY <1>3, <1>4, <2>3, <3>1
    <3>3. r[j] = s[i]
      BY <1>3, <2>3, <3>1
    <3> QED
      BY <1>5, <3>2, <3>3
  <2> QED
    BY <1>4, <2>1, <2>2, <2>3
<1>7. ASSUME NEW i \in 1 .. Len(new) PROVE new[i] \in Range(r)
  <2>1. from + i \in 1 .. Len(r) /\ r[from + i] = new[i]
    BY <1>3, <1>4
  <2> QED
    BY <1>5, <2>1
<1>8. Range(s) \subseteq Range(r) \cup {s[from + k] : k \in 1 .. len}
  BY <1>4, <1>6 DEF Range
<1>9. Range(new) \subseteq Range(r)
  BY <1>4, <1>7 DEF Range
<1> QED
  BY <1>1, <1>8, <1>9 DEF KeptRange

(* What the edit of one field leaves visible in all of them.                *)
LEMMA EditedVisible ==
  ASSUME NEW t, NEW u, NEW c \in Contexts, NEW lost,
         \A d \in Contexts \ {c} : u.doc[d] = t.doc[d],
         Range(t.doc[c]) \subseteq Range(u.doc[c]) \cup lost
  PROVE  Visible(t) \subseteq Visible(u) \cup lost
  BY DEF Visible

LEMMA FieldVisible ==
  ASSUME NEW u, NEW c \in Contexts
  PROVE  Range(u.doc[c]) \subseteq Visible(u)
  BY DEF Visible

(* The composition of a field replaced by new.                              *)
ShownTokens(u, t, new) ==
  /\ Visible(t) \subseteq Visible(u) \cup Part(t)
  /\ Range(new) \subseteq Visible(u) /\ Part(u) \subseteq Range(new)

LEMMA ShownHolds ==
  ASSUME NEW N, NEW t, Fits(t, N), NEW c \in Contexts, Composing(t, c), NEW new \in Seq(N),
         NEW u, ShownAs(u, t, N, c, new)
  PROVE  ShownTokens(u, t, new)
<1>1. PICK s : s = t.doc[c]
  OBVIOUS
<1>2. PICK from : from = t.comp.from
  OBVIOUS
<1>3. PICK len : len = t.comp.len
  OBVIOUS
<1>4. t.comp.context = c
  BY DEF Composing
<1>5. /\ s \in Seq(N) /\ from \in Nat /\ len \in Nat /\ from + len <= Len(s)
  BY <1>1, <1>2, <1>3, <1>4, TextFields, NoContextAssumption DEF Docs, Fits, PlacedComposition
<1>6. KeptRange(Replaced(s, from, len, new), s, from, len, new)
  BY <1>5, KeptOfReplaced
<1>7. u.doc[c] = Replaced(s, from, len, new) /\ \A d \in Contexts \ {c} : u.doc[d] = t.doc[d]
  BY <1>1, <1>2, <1>3 DEF ShownAs
<1>8. Part(t) = {s[from + i] : i \in 1 .. len}
  BY <1>1, <1>2, <1>3, <1>4 DEF Part
<1>9. Range(s) \subseteq Range(u.doc[c]) \cup Part(t) /\ Range(new) \subseteq Range(u.doc[c])
  BY <1>6, <1>7, <1>8 DEF KeptRange
<1>10. Visible(t) \subseteq Visible(u) \cup Part(t)
  BY <1>1, <1>7, <1>9, EditedVisible
<1>11. Range(new) \subseteq Visible(u)
  BY <1>9, FieldVisible
<1>12. Displays(u, new)
  BY ShownDisplays
<1>13. Part(u) \subseteq Range(new)
  BY <1>12 DEF Displays, Part, Range
<1> QED
  BY <1>10, <1>11, <1>13 DEF ShownTokens

(* What the composition displays is what it is made of.                     *)
LEMMA DisplayedPart ==
  ASSUME NEW t, NEW N, NEW s \in Seq(N), Displays(t, s)
  PROVE  Part(t) = Range(s)
<1>1. DOMAIN s = 1 .. Len(s)
  OBVIOUS
<1> QED
  BY <1>1 DEF Displays, Part, Range
-----------------------------------------------------------------------------
(* A stage of a retry loses no visible token, except those of L and those   *)
(* the view shows again.                                                    *)
Stays(u, t, L) ==
  /\ Visible(t) \subseteq Visible(u) \cup Range(t.retained.view) \cup L
  /\ Covered(u, L) /\ Committed(u, L)

(* The stages that write, that set the caret and that end.                  *)
LEMMA WroteVisible ==
  ASSUME NEW N, NEW b, Fits(b, N), NEW c \in Contexts, NEW from \in Nat, NEW len \in Nat,
         NEW inside, from + len <= Len(b.doc[c]), WriteSpot(b, c, from, len, inside),
         NEW u, WrittenAs(u, b, N, c, from, len, inside)
  PROVE  /\ Visible(b) \subseteq Visible(u) \cup (IF Composing(b, c) THEN Part(b) ELSE {})
         /\ Range(b.retained.commit) \subseteq Visible(u)
<1>1. PICK s : s = b.doc[c]
  OBVIOUS
<1>2. PICK new : new = b.retained.commit
  OBVIOUS
<1>3. s \in Seq(N) /\ new \in Seq(N) /\ from + len <= Len(s)
  BY <1>1, <1>2, TextFields DEF Docs, Fits
<1>4. KeptRange(Replaced(s, from, len, new), s, from, len, new)
  BY <1>3, KeptOfReplaced
<1>5. u.doc[c] = Replaced(s, from, len, new) /\ \A d \in Contexts \ {c} : u.doc[d] = b.doc[d]
  BY <1>1, <1>2 DEF WrittenAs
<1>6. PICK lost : lost = {s[from + i] : i \in 1 .. len}
  OBVIOUS
<1>7. Range(s) \subseteq Range(u.doc[c]) \cup lost /\ Range(new) \subseteq Range(u.doc[c])
  BY <1>4, <1>5, <1>6 DEF KeptRange
<1>8. Visible(b) \subseteq Visible(u) \cup lost
  BY <1>1, <1>5, <1>7, EditedVisible
<1>9. Range(new) \subseteq Visible(u)
  BY <1>7, FieldVisible
<1>10. CASE Composing(b, c)
  <2>1. from = b.comp.from /\ len = b.comp.len /\ b.comp.context = c
    BY <1>10 DEF WriteSpot, Composing
  <2>2. lost = Part(b)
    BY <1>1, <1>6, <2>1 DEF Part
  <2> QED
    BY <1>2, <1>8, <1>9, <1>10, <2>2
<1>11. CASE ~Composing(b, c)
  <2>1. len = 0
    BY <1>11 DEF WriteSpot
  <2>2. lost = {}
    BY <1>6, <2>1
  <2> QED
    BY <1>2, <1>8, <1>9, <1>11, <2>2
<1> QED
  BY <1>10, <1>11

LEMMA MarkedStays ==
  ASSUME NEW N, NEW u, NEW t, NEW written, NEW caretSet, NEW needsEnd,
         MarkedAs(u, t, N, written, caretSet, needsEnd)
  PROVE  /\ Visible(u) = Visible(t) /\ Part(u) = Part(t)
         /\ u.retained.commit = t.retained.commit /\ u.retained.view = t.retained.view
         /\ u.retained.written = written /\ u.retained.needsEnd = needsEnd
<1>1. u.doc = t.doc /\ u.comp = t.comp
  BY DEF MarkedAs
<1> QED
  BY <1>1, VisibleSame, PartSame DEF MarkedAs

LEMMA WriteHolds ==
  ASSUME NEW N, NEW r, Sound(r, N), NEW c \in Contexts, Of(r, c), NEW fault, Due(r.text, c),
         NEW L, Covered(r.text, L), Committed(r.text, L)
  PROVE  Stays(Write(r, c, fault).text, r.text, L)
<1>1. PICK x : x = Write(r, c, fault)
  OBVIOUS
<1>2. WriteOutcome(x, r, N, c)
  BY <1>1, WriteEnds
<1>3. CASE x = r
  BY <1>1, <1>3 DEF Stays
<1>4. CASE r.text.retained.written = FALSE /\ Undone(x, r, N)
  <2>1. PICK inside \in BOOLEAN :
          MarkedAs(x.text, r.text, N, r.text.retained.written, r.text.retained.caretSet, inside)
    BY <1>4, Zenon DEF Undone
  <2>2. /\ Visible(x.text) = Visible(r.text) /\ Part(x.text) = Part(r.text)
        /\ x.text.retained.commit = r.text.retained.commit
        /\ x.text.retained.view = r.text.retained.view
        /\ x.text.retained.written = r.text.retained.written
    BY <2>1, MarkedStays
  <2>3. Covered(x.text, L) /\ Committed(x.text, L)
    BY <1>4, <2>2 DEF Covered, Committed
  <2> QED
    BY <1>1, <2>2, <2>3 DEF Stays
<1>5. CASE /\ r.text.retained.written = FALSE /\ r.text.retained.commit = <<>>
           /\ MarkedAs(x.text, r.text, N, TRUE, r.text.retained.caretSet, FALSE)
  <2>1. PICK yes : yes = TRUE
    OBVIOUS
  <2>2. PICK no : no = FALSE
    OBVIOUS
  <2>3. MarkedAs(x.text, r.text, N, yes, r.text.retained.caretSet, no)
    BY <1>5, <2>1, <2>2
  <2>4. /\ Visible(x.text) = Visible(r.text) /\ Part(x.text) = Part(r.text)
        /\ x.text.retained.commit = r.text.retained.commit
        /\ x.text.retained.view = r.text.retained.view
        /\ x.text.retained.written = yes /\ x.text.retained.needsEnd = no
    BY <2>3, MarkedStays
  <2>5. /\ Visible(x.text) = Visible(r.text) /\ Part(x.text) = Part(r.text)
        /\ x.text.retained.commit = <<>>
        /\ x.text.retained.view = r.text.retained.view
        /\ x.text.retained.written = TRUE /\ x.text.retained.needsEnd = FALSE
    BY <1>5, <2>1, <2>2, <2>4
  <2>6. Covered(x.text, L) /\ Committed(x.text, L)
    BY <1>5, <2>5, EmptyRange DEF Covered, Committed
  <2> QED
    BY <1>1, <2>5, <2>6 DEF Stays
<1>6. CASE r.text.retained.written = FALSE /\ WroteAs(x.text, r.text, N, c)
  <2>1. PICK b, from, len, inside :
          /\ MarkedAs(b, r.text, N, r.text.retained.written, r.text.retained.caretSet, inside)
          /\ Fits(b, N) /\ WriteSpot(b, c, from, len, inside)
          /\ from \in Nat /\ len \in Nat /\ from + len <= Len(b.doc[c])
          /\ WrittenAs(x.text, b, N, c, from, len, inside)
    BY <1>6, Zenon DEF WroteAs
  <2>2. PICK u : u = x.text
    OBVIOUS
  <2>3. WrittenAs(u, b, N, c, from, len, inside)
    BY <2>1, <2>2
  <2>4. /\ Visible(b) = Visible(r.text) /\ Part(b) = Part(r.text)
        /\ b.retained.commit = r.text.retained.commit /\ b.retained.view = r.text.retained.view
    BY <2>1, MarkedStays
  <2>5. /\ Visible(b) \subseteq Visible(u) \cup (IF Composing(b, c) THEN Part(b) ELSE {})
        /\ Range(b.retained.commit) \subseteq Visible(u)
    BY <2>1, <2>3, WroteVisible
  <2>6. Part(r.text) \subseteq Range(r.text.retained.view) \cup L \cup Range(r.text.retained.commit)
    BY <1>6 DEF Covered
  <2>7. Visible(r.text) \subseteq Visible(u) \cup Range(r.text.retained.view) \cup L
    BY <2>4, <2>5, <2>6
  <2>8. /\ u.retained.written = TRUE /\ u.retained.needsEnd = inside
        /\ u.retained.commit = r.text.retained.commit /\ u.comp.context = r.text.comp.context
        /\ inside \in BOOLEAN /\ (inside <=> r.text.comp.context = c)
    BY <2>1, <2>3, <2>4 DEF MarkedAs, WrittenAs, WriteSpot, Composing
  <2>9. Committed(u, L)
    BY <2>4, <2>5, <2>8 DEF Committed
  <2>10. Covered(u, L)
    <3>1. CASE inside
      BY <2>8, <3>1 DEF Covered
    <3>2. CASE ~inside
      <4>1. u.comp.context = NoContext
        BY <2>8, <3>2 DEF Due
      <4>2. Fits(u, N)
        BY <1>1, <2>2, WriteFits DEF Sound
      <4>3. Part(u) = {}
        BY <4>1, <4>2, NoPart
      <4> QED
        BY <4>3 DEF Covered
    <3> QED
      BY <3>1, <3>2
  <2> QED
    BY <1>1, <2>2, <2>7, <2>9, <2>10 DEF Stays
<1> QED
  BY <1>2, <1>3, <1>4, <1>5, <1>6 DEF WriteOutcome

LEMMA SetCaretHolds ==
  ASSUME NEW N, NEW r, Sound(r, N), NEW c \in Contexts, NEW fault,
         NEW L, Covered(r.text, L), Committed(r.text, L)
  PROVE  /\ Visible(SetCaret(r, c, fault).text) = Visible(r.text)
         /\ Covered(SetCaret(r, c, fault).text, L) /\ Committed(SetCaret(r, c, fault).text, L)
<1>1. PICK u : u = SetCaret(r, c, fault).text
  OBVIOUS
<1>2. PICK t : t = r.text
  OBVIOUS
<1>3. CaretOnly(u, t)
  BY <1>1, <1>2, SetCaretEnds
<1>4. /\ Visible(u) = Visible(t)
      /\ Covered(t, L) => Covered(u, L)
      /\ Committed(t, L) => Committed(u, L)
  BY <1>3, CaretHolds
<1> QED
  BY <1>1, <1>2, <1>4

(* Once the composition of a write is ended, the one that is there is made  *)
(* of what the view shows.                                                  *)
ViewOnly(r, L) == r.ok => Part(r.text) \subseteq Range(r.text.retained.view) \cup L

LEMMA EndCommittedHolds ==
  ASSUME NEW N, NEW r, Steady(r, N), NEW c \in Contexts, NEW fault, Due(r.text, c),
         r.ok => r.text.retained.written = TRUE,
         NEW L, Covered(r.text, L), Committed(r.text, L)
  PROVE  /\ Visible(EndCommitted(r, c, fault).text) = Visible(r.text)
         /\ Covered(EndCommitted(r, c, fault).text, L)
         /\ Committed(EndCommitted(r, c, fault).text, L)
         /\ ViewOnly(EndCommitted(r, c, fault), L)
<1>1. PICK x : x = EndCommitted(r, c, fault)
  OBVIOUS
<1>2. EndCommittedOutcome(x, r, c)
  BY <1>1, EndCommittedEnds
<1>3. CASE x = r /\ (r.ok => r.text.retained.needsEnd = FALSE)
  <2>1. ViewOnly(x, L)
    BY <1>3 DEF ViewOnly, Covered
  <2> QED
    BY <1>1, <1>3, <2>1
<1>4. CASE ~x.ok /\ x.text = r.text
  BY <1>1, <1>4 DEF ViewOnly
<1>5. CASE /\ x.text.comp.context # c /\ x.text.comp \in {NoComposition, r.text.comp}
           /\ x.text.doc = r.text.doc /\ SameResult(x.text, r.text)
           /\ x.text.retained.written = r.text.retained.written
  <2>1. x.text.comp.context = NoContext
    BY <1>5, NothingTyped DEF Due
  <2>2. Steady(x, N)
    BY <1>1, EndCommittedFits
  <2>3. PICK u : u = x.text
    OBVIOUS
  <2>4. Fits(u, N) /\ u.comp.context = NoContext
    BY <2>1, <2>2, <2>3 DEF Steady, Sound
  <2>5. Part(u) = {}
    BY <2>4, NoPart
  <2>6. PICK t : t = r.text
    OBVIOUS
  <2>7. Visible(u) = Visible(t)
    BY <1>5, <2>3, <2>6, VisibleSame
  <2>8. Covered(u, L) /\ ViewOnly(x, L)
    BY <2>3, <2>5 DEF Covered, ViewOnly
  <2>9. Committed(u, L)
    BY <1>5, <2>3, <2>6, <2>7 DEF Committed, SameResult
  <2> QED
    BY <1>1, <2>3, <2>6, <2>7, <2>8, <2>9
<1> QED
  BY <1>2, <1>3, <1>4, <1>5 DEF EndCommittedOutcome
-----------------------------------------------------------------------------
(* The stage that shows the view.                                           *)
LEMMA StartPart ==
  ASSUME NEW s, NEW r, NEW c, StartOutcome(s, r, c)
  PROVE  Visible(s.text) = Visible(r.text) /\ Part(s.text) \subseteq Part(r.text)
<1>1. CASE s.text = r.text
  BY <1>1
<1>2. CASE s.text.comp.len = 0 /\ s.text.doc = r.text.doc
  <2>1. PICK u : u = s.text
    OBVIOUS
  <2>2. PICK t : t = r.text
    OBVIOUS
  <2>3. u.doc = t.doc /\ u.comp.len = 0
    BY <1>2, <2>1, <2>2
  <2>4. Visible(u) = Visible(t)
    BY <2>3, VisibleSame
  <2>5. Part(u) = {}
    BY <2>3 DEF Part
  <2> QED
    BY <2>1, <2>2, <2>4, <2>5
<1> QED
  BY <1>1, <1>2 DEF StartOutcome

(* The last stage: what it leaves composed, and what it shows.              *)
Viewed(x, r, L) ==
  /\ Visible(r.text) \subseteq Visible(x.text) \cup L
  /\ r.ok => Part(x.text) \subseteq Range(r.text.retained.view) \cup L
  /\ x.ok => Range(r.text.retained.view) \subseteq Visible(x.text)
  /\ r.ok /\ r.text.retained.view = <<>> /\ r.text.retained.commit = <<>> => Part(x.text) = {}

LEMMA ViewHolds ==
  ASSUME NEW N, NEW r, Steady(r, N), NEW c \in Contexts, NEW fault, Due(r.text, c),
         NEW L, ViewOnly(r, L)
  PROVE  r.ok => Viewed(View(r, c, fault), r, L)
<1> SUFFICES ASSUME r.ok PROVE Viewed(View(r, c, fault), r, L)
  OBVIOUS
<1>1. PICK x : x = View(r, c, fault)
  OBVIOUS
<1>2. ViewOutcome(x, r, N, c)
  BY <1>1, ViewEnds
<1>3. PICK view : view = r.text.retained.view
  OBVIOUS
<1>4. Part(r.text) \subseteq Range(view) \cup L
  BY <1>3 DEF ViewOnly
<1>5. view \in Seq(N)
  <2>1. r.text \in TextType(N)
    BY DEF Steady, Sound, Fits
  <2> QED
    BY <1>3, <2>1, TextFields
<1>6. CASE x = r /\ r.text.retained.view = <<>> /\ r.text.retained.commit # <<>>
  BY <1>1, <1>3, <1>4, <1>6, EmptyRange DEF Viewed
<1>7. CASE r.text.retained.view # <<>> /\ ViewShown(x, r, N, c)
  <2>1. PICK s :
          /\ StartOutcome(s, r, c) /\ Steady(s, N)
          /\ \/ ~x.ok /\ x.text = s.text
             \/ /\ s.ok /\ Composing(s.text, c)
                /\ \E u : ShownAs(u, s.text, N, c, view) /\ CaretOnly(x.text, u)
    BY <1>3, <1>7, Zenon DEF ViewShown
  <2>2. Visible(s.text) = Visible(r.text) /\ Part(s.text) \subseteq Part(r.text)
    BY <2>1, StartPart
  <2>3. CASE ~x.ok /\ x.text = s.text
    BY <1>1, <1>3, <1>4, <1>7, <2>2, <2>3 DEF Viewed
  <2>4. CASE /\ s.ok /\ Composing(s.text, c)
             /\ \E u : ShownAs(u, s.text, N, c, view) /\ CaretOnly(x.text, u)
    <3>1. PICK t : t = s.text
      OBVIOUS
    <3>2. PICK u : ShownAs(u, t, N, c, view) /\ CaretOnly(x.text, u)
      BY <2>4, <3>1
    <3>3. Fits(t, N) /\ Composing(t, c)
      BY <2>1, <2>4, <3>1 DEF Steady, Sound
    <3>4. ShownTokens(u, t, view)
      BY <1>5, <3>2, <3>3, ShownHolds
    <3>5. PICK v : v = x.text
      OBVIOUS
    <3>6. CaretOnly(v, u)
      BY <3>2, <3>5
    <3>7. Visible(v) = Visible(u) /\ Part(v) = Part(u)
      BY <3>6, CaretHolds
    <3> QED
      BY <1>1, <1>3, <1>4, <1>7, <2>2, <3>1, <3>4, <3>5, <3>7 DEF Viewed, ShownTokens
  <2> QED
    BY <2>1, <2>3, <2>4
<1>8. CASE /\ r.text.retained.view = <<>> /\ r.text.retained.commit = <<>>
           /\ EndOutcome(x, r, N, c, TRUE)
  <2>1. Range(view) = {}
    BY <1>3, <1>8, EmptyRange
  <2>2. CASE x = r /\ ~Composing(r.text, c)
    <3>1. PICK t : t = r.text
      OBVIOUS
    <3>2. Fits(t, N) /\ t.comp.context = NoContext
      BY <2>2, <3>1 DEF Steady, Sound, Due, Composing
    <3>3. Part(t) = {}
      BY <3>2, NoPart
    <3> QED
      BY <1>1, <1>3, <2>1, <2>2, <3>1, <3>3 DEF Viewed
  <2>3. CASE ~(x = r /\ ~Composing(r.text, c))
    <3>1. PICK t : t = r.text
      OBVIOUS
    <3>2. PICK none : none = <<>>
      OBVIOUS
    <3>3. PICK u : /\ ShownAs(u, t, N, c, none) /\ Composing(t, c)
                   /\ x.text.doc = u.doc
                   /\ x.ok => x.text.comp = NoComposition
                   /\ ~x.ok => x.text = u
      <4>1. \/ x = r /\ (r.ok => ~Composing(r.text, c))
            \/ /\ r.ok /\ Composing(r.text, c)
               /\ \E u : /\ ShownAs(u, r.text, N, c, <<>>)
                         /\ x.text.doc = u.doc /\ x.text.engine = u.engine
                         /\ x.text.retained = u.retained
                         /\ x.ok => x.text.comp = NoComposition
                         /\ ~x.ok => x.text = u
        BY <1>8, Zenon DEF EndOutcome
      <4> QED
        BY <2>3, <3>1, <3>2, <4>1
    <3>4. none \in Seq(N) /\ Range(none) = {}
      BY <3>2, EmptyRange
    <3>5. Fits(t, N)
      BY <3>1 DEF Steady, Sound
    <3>6. ShownTokens(u, t, none)
      BY <3>3, <3>4, <3>5, ShownHolds
    <3>7. PICK v : v = x.text
      OBVIOUS
    <3>8. Visible(v) = Visible(u)
      BY <3>3, <3>7, VisibleSame
    <3>9. Part(v) = {}
      <4>1. CASE x.ok
        <5>1. v.comp.len = 0
          BY <3>3, <3>7, <4>1, NothingTyped
        <5> QED
          BY <5>1 DEF Part
      <4>2. CASE ~x.ok
        BY <3>3, <3>4, <3>6, <3>7, <4>2 DEF ShownTokens
      <4> QED
        BY <4>1, <4>2
    <3>10. Visible(t) \subseteq Visible(v) \cup L
      BY <1>4, <2>1, <3>1, <3>6, <3>8 DEF ShownTokens
    <3> QED
      BY <1>1, <1>3, <2>1, <3>1, <3>7, <3>9, <3>10 DEF Viewed
  <2> QED
    BY <2>2, <2>3
<1> QED
  BY <1>2, <1>6, <1>7, <1>8 DEF ViewOutcome
-----------------------------------------------------------------------------
(* What a retry leaves of the tokens that were held.                        *)
Holds(x, t, L) == Held(t) \subseteq Held(x.text) \cup L /\ Holding(x.text, L)
Erasing(r, c) ==
  /\ r.ok /\ r.text.retained.context = c /\ r.text.retained.written = FALSE
  /\ r.text.retained.commit = <<>> /\ r.text.retained.view = <<>>

(* A result that is released, and one with nothing to write or to show.     *)
LEMMA ReleasedHolds ==
  ASSUME NEW N, NEW t, Fits(t, N), NEW u, u = [t EXCEPT !.retained = NoResult]
  PROVE  /\ u.retained = NoResult /\ Visible(u) = Visible(t) /\ Part(u) = Part(t)
         /\ Waiting(u) = {} /\ ~Retaining(u)
<1>1. t \in TextType(N) /\ NoResult \in ResultType(N)
  BY NothingTyped DEF Fits
<1>2. u.retained = NoResult /\ u.comp = t.comp /\ u.doc = t.doc
  BY <1>1, RetainedSet
<1>3. Visible(u) = Visible(t) /\ Part(u) = Part(t)
  BY <1>2, VisibleSame, PartSame
<1>4. Waiting(u) = {} /\ ~Retaining(u)
  BY <1>2, NothingTyped, EmptyRange DEF Waiting, Retaining
<1> QED
  BY <1>2, <1>3, <1>4

LEMMA StagesErase ==
  ASSUME NEW N, NEW r, Sound(r, N), NEW c \in Contexts, Erasing(r, c), NEW fault
  PROVE  /\ SetCaret(Write(r, c, fault), c, fault).ok
         /\ EndCommitted(SetCaret(Write(r, c, fault), c, fault), c, fault)
              = SetCaret(Write(r, c, fault), c, fault)
<1>1. PICK w : w = Write(r, c, fault)
  OBVIOUS
<1>2. Of(r, c)
  BY DEF Erasing, Of
<1>3. WriteOutcome(w, r, N, c)
  BY <1>1, <1>2, WriteEnds
<1>4. /\ w.ok
      /\ MarkedAs(w.text, r.text, N, TRUE, r.text.retained.caretSet, FALSE)
  BY <1>3 DEF WriteOutcome, Erasing, Undone
<1>5. w.text.retained.commit = <<>> /\ w.text.retained.needsEnd = FALSE
  BY <1>4 DEF MarkedAs, Erasing
<1>6. SetCaret(w, c, fault) = w
  BY <1>5 DEF SetCaret
<1>7. EndCommitted(w, c, fault) = w
  BY <1>5 DEF EndCommitted
<1> QED
  BY <1>1, <1>4, <1>6, <1>7

LEMMA RetryHolds ==
  ASSUME NEW N, NEW r, Sound(r, N), NEW c \in Contexts, NEW fault, Showing(r.text),
         NEW L, Holding(r.text, L)
  PROVE  /\ Holds(Retry(r, c, fault), r.text, L)
         /\ Erasing(r, c) => Part(Retry(r, c, fault).text) = {}
<1>1. CASE ~r.ok \/ ~Retaining(r.text)
  BY <1>1, NoContextAssumption DEF Retry, Holds, Erasing, Retaining
<1>2. CASE r.ok /\ Retaining(r.text) /\ r.text.retained.context # c
  BY <1>2, OkAndFailed DEF Retry, Holds, Erasing
<1>3. CASE r.ok /\ Retaining(r.text) /\ r.text.retained.context = c
  <2>1. PICK w : w = Write(r, c, fault)
    OBVIOUS
  <2>2. PICK s : s = SetCaret(w, c, fault)
    OBVIOUS
  <2>3. PICK e : e = EndCommitted(s, c, fault)
    OBVIOUS
  <2>4. PICK v : v = View(e, c, fault)
    OBVIOUS
  <2>5. Retry(r, c, fault) = Released(v)
    BY <1>3, <2>1, <2>2, <2>3, <2>4 DEF Retry
  <2>6. Of(r, c) /\ Due(r.text, c) /\ Covered(r.text, L) /\ Committed(r.text, L)
    BY <1>3 DEF Of, Showing, Holding
  <2>7. Sound(w, N) /\ Of(w, c) /\ (w.ok => w.text.retained.written = TRUE)
    BY <2>1, <2>6, WriteFits
  <2>8. Steady(s, N) /\ (s.ok => w.ok)
    BY <2>2, <2>7, SetCaretFits
  <2>9. Steady(e, N) /\ (e.ok => s.ok)
    BY <2>3, <2>8, EndCommittedFits
  <2>10. Follows(v, e, N)
    BY <2>4, <2>9, ViewFits
  <2>11. Due(w.text, c)
    BY <2>1, <2>6, WriteDue
  <2>12. CaretOnly(s.text, w.text)
    BY <2>2, <2>7, SetCaretEnds
  <2>13. Due(s.text, c)
    BY <2>11, <2>12, DueSame
  <2>14. s.ok => s.text.retained.written = TRUE
    BY <2>7, <2>8, <2>12 DEF CaretOnly
  <2>15. Due(e.text, c)
    BY <2>3, <2>8, <2>13, <2>14, EndCommittedDue
  <2>16. SameResult(w.text, r.text) /\ SameResult(e.text, r.text)
    <3>1. SameResult(w.text, r.text)
      BY <2>1, <2>6, WriteSame
    <3>2. SameResult(s.text, w.text)
      BY <2>12 DEF CaretOnly
    <3>3. SameResult(e.text, s.text)
      BY <2>3, <2>8, EndCommittedSame
    <3>4. SameResult(s.text, r.text)
      BY <3>1, <3>2, SameTwice
    <3> QED
      BY <3>1, <3>3, <3>4, SameTwice
  <2>17. Stays(w.text, r.text, L)
    BY <2>1, <2>6, WriteHolds
  <2>18. Covered(w.text, L) /\ Committed(w.text, L)
    BY <2>17 DEF Stays
  <2>19. Visible(s.text) = Visible(w.text) /\ Covered(s.text, L) /\ Committed(s.text, L)
    BY <2>2, <2>7, <2>18, SetCaretHolds
  <2>20. /\ Visible(e.text) = Visible(s.text) /\ Covered(e.text, L) /\ Committed(e.text, L)
         /\ ViewOnly(e, L)
    BY <2>3, <2>8, <2>13, <2>14, <2>19, EndCommittedHolds
  <2>21. e.ok => e.text.retained.written = TRUE
    <3>1. EndCommittedOutcome(e, s, c)
      BY <2>3, <2>8, EndCommittedEnds
    <3> QED
      BY <2>9, <2>14, <3>1 DEF EndCommittedOutcome
  <2>22. PICK commit : commit = r.text.retained.commit
    OBVIOUS
  <2>23. PICK view : view = r.text.retained.view
    OBVIOUS
  <2>24. e.text.retained.commit = commit /\ e.text.retained.view = view
         /\ e.text.retained.context = c
    BY <1>3, <2>16, <2>22, <2>23 DEF SameResult
  <2>25. Held(r.text) = Visible(r.text) \cup Range(commit) \cup Range(view)
    BY <2>22, <2>23 DEF Held, Waiting
  <2>26. Visible(r.text) \subseteq Visible(e.text) \cup Range(view) \cup L
    BY <2>17, <2>19, <2>20, <2>23 DEF Stays
  <2>27. v.text.retained = e.text.retained /\ (v.ok => e.ok)
    BY <2>10 DEF Follows
  <2>28. ~e.ok => v = e
    BY <2>4 DEF View
  <2>29. e.ok => Viewed(v, e, L)
    BY <2>4, <2>9, <2>15, <2>20, ViewHolds
  <2>30. Visible(e.text) \subseteq Visible(v.text) \cup L
    BY <2>28, <2>29 DEF Viewed
  <2>31. Erasing(r, c) => Part(v.text) = {}
    <3>1. SUFFICES ASSUME Erasing(r, c) PROVE Part(v.text) = {}
      OBVIOUS
    <3>2. e.ok
      BY <2>1, <2>2, <2>3, <3>1, StagesErase
    <3>3. commit = <<>> /\ view = <<>>
      BY <2>22, <2>23, <3>1 DEF Erasing
    <3> QED
      BY <2>24, <2>29, <3>2, <3>3 DEF Viewed
  <2>32. CASE ~v.ok
    <3>1. Released(v) = v
      BY <2>32 DEF Released
    <3>2. Held(v.text) = Visible(v.text) \cup Range(commit) \cup Range(view)
      BY <2>24, <2>27 DEF Held, Waiting
    <3>3. Held(r.text) \subseteq Held(v.text) \cup L
      BY <2>25, <2>26, <2>30, <3>2
    <3>4. Retaining(v.text)
      BY <2>24, <2>27, NoContextAssumption DEF Retaining
    <3>5. Covered(v.text, L) /\ Committed(v.text, L)
      <4>1. CASE ~e.ok
        BY <2>20, <2>28, <4>1
      <4>2. CASE e.ok
        <5>1. Part(v.text) \subseteq Range(view) \cup L
          BY <2>24, <2>29, <4>2 DEF Viewed
        <5>2. Covered(v.text, L)
          BY <2>24, <2>27, <5>1 DEF Covered
        <5>3. Range(commit) \subseteq Visible(e.text) \cup L
          BY <2>20, <2>21, <2>24, <4>2 DEF Committed
        <5>4. Committed(v.text, L)
          BY <2>24, <2>27, <2>30, <5>3 DEF Committed
        <5> QED
          BY <5>2, <5>4
      <4> QED
        BY <4>1, <4>2
    <3>6. Holds(v, r.text, L)
      BY <3>3, <3>4, <3>5 DEF Holds, Holding
    <3> QED
      BY <2>5, <2>31, <3>1, <3>6
  <2>33. CASE v.ok
    <3>1. PICK t : t = v.text
      OBVIOUS
    <3>2. PICK u : u = [t EXCEPT !.retained = NoResult]
      OBVIOUS
    <3>3. Released(v) = Ok(u)
      BY <2>33, <3>1, <3>2, Zenon DEF Released
    <3>4. Fits(t, N)
      BY <2>10, <3>1 DEF Follows, Steady, Sound
    <3>5. /\ Visible(u) = Visible(t) /\ Part(u) = Part(t)
          /\ Waiting(u) = {} /\ ~Retaining(u)
      BY <3>2, <3>4, ReleasedHolds
    <3>6. e.ok /\ Range(view) \subseteq Visible(t)
      BY <2>24, <2>27, <2>29, <2>33, <3>1 DEF Viewed
    <3>7. Range(commit) \subseteq Visible(e.text) \cup L
      BY <2>20, <2>21, <2>24, <3>6 DEF Committed
    <3>8. Held(r.text) \subseteq Held(u) \cup L
      BY <2>25, <2>26, <2>30, <3>1, <3>5, <3>6, <3>7 DEF Held
    <3>9. Holding(u, L)
      BY <3>5 DEF Holding
    <3>10. PICK x : x = Released(v)
      OBVIOUS
    <3>11. x.text = u
      BY <3>3, <3>10, OkAndFailed
    <3>12. Holds(x, r.text, L)
      BY <3>8, <3>9, <3>11 DEF Holds
    <3> QED
      BY <2>5, <2>31, <3>1, <3>5, <3>10, <3>11, <3>12
  <2> QED
    BY <2>32, <2>33
<1> QED
  BY <1>1, <1>2, <1>3
-----------------------------------------------------------------------------
(* Nothing of a text that waits or is composed can be lost.                 *)
Whole(t) == Holding(t, {})

(* A text of which neither the fields nor the result changed, and one       *)
(* without a composition.                                                   *)
LEMMA SameHolds ==
  ASSUME NEW t, NEW u, u.doc = t.doc, u.retained = t.retained, ~Retaining(t), Whole(t)
  PROVE  Whole(u) /\ Held(u) = Held(t) /\ Held(t) = Visible(t) /\ ~Retaining(u)
<1>1. Visible(u) = Visible(t)
  BY VisibleSame
<1>2. Waiting(u) = Waiting(t) /\ (Retaining(u) <=> Retaining(t))
  BY DEF Waiting, Retaining
<1> QED
  BY <1>1, <1>2 DEF Whole, Holding, Held

LEMMA ErasedIsWhole ==
  ASSUME NEW t, NEW L, Holding(t, L), Part(t) = {}, Retaining(t) => t.retained.commit = <<>>
  PROVE  Whole(t)
  BY EmptyRange DEF Whole, Holding, Covered, Committed

(* A new result is retained and tried: its tokens are held, and so are all  *)
(* that were visible, but those of L.                                       *)
PutIn(x, t, commit, view, L) ==
  /\ Visible(t) \cup Range(commit) \cup Range(view) \subseteq Held(x.text) \cup L
  /\ Holding(x.text, L)
  /\ commit = <<>> /\ view = <<>> => Whole(x.text)

LEMMA RetainHolds ==
  ASSUME NEW N, NEW t, Fits(t, N), NEW c \in Contexts,
         NEW commit \in Seq(N), NEW view \in Seq(N), NEW fault,
         t.engine = view, t.comp.context \in {NoContext, c},
         NEW L, Part(t) \subseteq Range(commit) \cup Range(view) \cup L
  PROVE  PutIn(Retry(Retained(t, c, commit, view), c, fault), t, commit, view, L)
<1>1. PICK r : r = Retained(t, c, commit, view)
  OBVIOUS
<1>2. PICK u : u = r.text
  OBVIOUS
<1>3. r.ok = TRUE /\ RetainedAs(u, t, N, c, commit, view)
  BY <1>1, <1>2, RetainedFits
<1>4. Sound(r, N)
  BY <1>2, <1>3 DEF RetainedAs, Sound
<1>5. Showing(r.text)
  BY <1>2, <1>3, NoContextAssumption DEF RetainedAs, Showing, Retaining, Due, Ending
<1>6. u.doc = t.doc /\ u.comp = t.comp
  BY <1>3 DEF RetainedAs
<1>7. Visible(u) = Visible(t) /\ Part(u) = Part(t)
  BY <1>6, VisibleSame, PartSame
<1>8. Holding(r.text, L)
  BY <1>2, <1>3, <1>7, NoContextAssumption DEF Holding, Covered, Committed, RetainedAs, Retaining
<1>9. PICK x : x = Retry(r, c, fault)
  OBVIOUS
<1>10. Holds(x, r.text, L) /\ (Erasing(r, c) => Part(x.text) = {})
  BY <1>4, <1>5, <1>8, <1>9, RetryHolds
<1>11. Held(u) = Visible(t) \cup Range(commit) \cup Range(view)
  BY <1>3, <1>7 DEF Held, Waiting, RetainedAs
<1>12. commit = <<>> /\ view = <<>> => Whole(x.text)
  <2>1. SUFFICES ASSUME commit = <<>>, view = <<>> PROVE Whole(x.text)
    OBVIOUS
  <2>2. Erasing(r, c)
    BY <1>2, <1>3, <2>1 DEF Erasing, RetainedAs
  <2>3. Retaining(x.text) => x.text.retained.commit = <<>>
    <3>1. RetryOutcome(x, r, c)
      BY <1>4, <1>9, RetryEnds
    <3>2. r.ok /\ Retaining(r.text) /\ r.text.retained.context = c /\ r.text.retained.commit = <<>>
      BY <2>2, NoContextAssumption DEF Erasing, Retaining
    <3> QED
      BY <3>1, <3>2, NothingTyped DEF RetryOutcome, SameResult, Retaining
  <2>4. PICK v : v = x.text
    OBVIOUS
  <2>5. Whole(v)
    BY <1>10, <2>2, <2>3, <2>4, ErasedIsWhole DEF Holds
  <2> QED
    BY <2>4, <2>5
<1> QED
  BY <1>1, <1>2, <1>9, <1>10, <1>11, <1>12 DEF PutIn, Holds

(* What becomes of the content of the engine and of the key it answers.     *)
Spends(a, e, id, answer) ==
  /\ a.handled \in BOOLEAN
  /\ answer = "clear" => a.commit = <<>> /\ a.view = <<>>
  /\ answer # "clear" => Range(e) \subseteq Range(a.commit) \cup Range(a.view)
  /\ answer # "clear" /\ a.handled => id \in Range(a.commit) \cup Range(a.view)

(* Only an editing key lets go of what the engine held.                     *)
LEMMA AnswerSpends ==
  ASSUME NEW N, NEW e \in Seq(N), NEW id \in N, NEW answer \in AllAnswers,
         answer = "shift" => e # <<>>
  PROVE  Spends(Answered(answer, e, id), e, id, answer)
<1>1. PICK none : none = <<>>
  OBVIOUS
<1>2. PICK w : w = Append(e, id)
  OBVIOUS
<1>3. Range(w) = Range(e) \cup {id}
  BY <1>2, RangeOfAppend
<1>4. PICK a : a = Answered(answer, e, id)
  OBVIOUS
<1>5. Range(none) = {}
  BY <1>1, EmptyRange
<1>6. CASE answer = "compose"
  <2>1. Answered(answer, e, id) = [engine |-> w, commit |-> none, view |-> w, handled |-> TRUE]
    BY <1>1, <1>2, <1>6 DEF Answered, Declining
  <2>7. a.commit = none /\ a.view = w /\ a.handled = TRUE
    BY <1>4, <2>1
  <2> QED
    BY <1>3, <1>6, <1>4, <1>5, <2>7 DEF Spends
<1>7. CASE answer \in {"commit", "numpad"}
  <2>1. Answered(answer, e, id) = [engine |-> none, commit |-> w, view |-> none, handled |-> TRUE]
    BY <1>1, <1>2, <1>7 DEF Answered, Declining
  <2>7. a.commit = w /\ a.view = none /\ a.handled = TRUE
    BY <1>4, <2>1
  <2> QED
    BY <1>3, <1>7, <1>4, <1>5, <2>7 DEF Spends
<1>8. CASE answer = "shift"
  <2>1. PICK s : s = Tail(e)
    OBVIOUS
  <2>2. PICK v : v = Append(s, id)
    OBVIOUS
  <2>3. PICK first : first = <<Head(e)>>
    OBVIOUS
  <2>4. Answered(answer, e, id) = [engine |-> v, commit |-> first, view |-> v, handled |-> TRUE]
    BY <1>8, <2>1, <2>2, <2>3 DEF Answered, Declining
  <2>5. s \in Seq(N) /\ Range(e) = Range(s) \cup {Head(e)} /\ Range(first) = {Head(e)}
    BY <1>8, <2>1, <2>3, RangeOfTail
  <2>6. Range(v) = Range(s) \cup {id}
    BY <2>2, <2>5, RangeOfAppend
  <2>7. a.commit = first /\ a.view = v /\ a.handled = TRUE
    BY <1>4, <2>4
  <2> QED
    BY <1>8, <1>4, <2>5, <2>6, <2>7 DEF Spends
<1>9. CASE answer = "clear"
  <2>1. Answered(answer, e, id) = [engine |-> none, commit |-> none, view |-> none, handled |-> TRUE]
    BY <1>1, <1>9 DEF Answered, Declining
  <2>7. a.commit = none /\ a.view = none /\ a.handled = TRUE
    BY <1>4, <2>1
  <2> QED
    BY <1>1, <1>9, <1>4, <2>7 DEF Spends
<1>10. CASE answer = "flush"
  <2>1. Answered(answer, e, id) = [engine |-> none, commit |-> e, view |-> none, handled |-> FALSE]
    BY <1>1, <1>10 DEF Answered, Declining
  <2>7. a.commit = e /\ a.view = none /\ a.handled = FALSE
    BY <1>4, <2>1
  <2> QED
    BY <1>10, <1>4, <1>5, <2>7 DEF Spends
<1>11. CASE answer \in Declining
  <2>1. Answered(answer, e, id) = [engine |-> e, commit |-> none, view |-> e, handled |-> FALSE]
    BY <1>1, <1>11 DEF Answered, Declining
  <2>7. a.commit = none /\ a.view = e /\ a.handled = FALSE
    BY <1>4, <2>1
  <2> QED
    BY <1>11, <1>4, <1>5, <2>7 DEF Spends, Declining
<1> QED
  BY <1>6, <1>7, <1>8, <1>9, <1>10, <1>11 DEF AllAnswers, Declining

(* A run of a key loses nothing but what its answer erased, and a key it    *)
(* handled is held.                                                         *)
Erases(op, ran, answer, e) ==
  IF answer = "clear" /\ ran.processed /\ ~op.processed THEN Range(e) \cup {op.id} ELSE {}
KeyHolds(x, t, op, lost) ==
  /\ Whole(x.text) /\ Held(t) \subseteq Held(x.text) \cup lost
  /\ x.op.handled => op.handled \/ op.id \in Held(x.text) \cup lost

(* The key consumed: what the engine made of it is written or retained.     *)
LEMMA TakenIs ==
  ASSUME NEW op \in OperationType, NEW h \in BOOLEAN
  PROVE  /\ Took(op, h) \in OperationType /\ Took(op, h).processed = TRUE
         /\ Took(op, h).handled = h
         /\ Took(op, h).id = op.id /\ Took(op, h).kind = op.kind
         /\ Took(op, h).context = op.context
         /\ Took(op, h).ordered = op.ordered /\ Took(op, h).accepted = op.accepted
  BY DEF Took, OperationType

LEMMA ConsumeHolds ==
  ASSUME NEW N, NEW t, Fits(t, N), Whole(t), ~Retaining(t), Current(t),
         NEW op \in OperationType, op.id \in N, op.context \in Contexts, ~op.processed,
         t.comp.context \in {NoContext, op.context}, NEW a, AnsweredAs(a, t.engine, op.id, N),
         NEW answer, Spends(a, t.engine, op.id, answer), NEW fault
  PROVE  KeyHolds(Consume(t, op, a, fault), t, op,
                  Erases(op, Consume(t, op, a, fault).op, answer, t.engine))
<1>1. PICK c : c = op.context
  OBVIOUS
<1>2. PICK e : e = a.engine
  OBVIOUS
<1>3. PICK u : u = WithEngine(t, e)
  OBVIOUS
<1>4. PICK commit : commit = a.commit
  OBVIOUS
<1>5. e \in Seq(N) /\ commit \in Seq(N) /\ a.view = e /\ a.handled \in BOOLEAN
  BY <1>2, <1>4 DEF AnsweredAs, Spends
<1>6. PICK x : x = Retry(Retained(u, c, commit, e), c, fault)
  OBVIOUS
<1>7. PICK ran : ran = Took(op, a.handled)
  OBVIOUS
<1>8. PICK y : y = Consume(t, op, a, fault)
  OBVIOUS
<1>9. y = Ran(x, ran)
  BY <1>1, <1>2, <1>3, <1>4, <1>5, <1>6, <1>7, <1>8, Zenon DEF Consume, WithEngine
<1>10. y.text = x.text /\ y.op = ran
  BY <1>9, RanIs
<1>11. ran.processed = TRUE /\ ran.handled = a.handled
  BY <1>5, <1>7, TakenIs
<1>12. EngineAs(u, t, N, e)
  BY <1>3, <1>5, EngineFits
<1>13. /\ Fits(u, N) /\ u.engine = e /\ c \in Contexts /\ u.comp.context \in {NoContext, c}
       /\ u.doc = t.doc /\ u.comp = t.comp
  BY <1>1, <1>12 DEF EngineAs
<1>14. Visible(u) = Visible(t) /\ Part(u) = Part(t)
  BY <1>13, VisibleSame, PartSame
<1>15. PICK held0 : held0 = t.engine
  OBVIOUS
<1>16. Part(t) = Range(held0)
  <2>1. CASE t.comp.context # NoContext
    <3>1. held0 \in Seq(N) /\ Displays(t, held0)
      BY <1>15, <2>1, TextFields DEF Fits, Current
    <3> QED
      BY <3>1, DisplayedPart
  <2>2. CASE t.comp.context = NoContext
    <3>1. held0 = <<>> /\ Part(t) = {}
      BY <1>15, <2>2, NoPart DEF Current
    <3> QED
      BY <3>1, EmptyRange
  <2> QED
    BY <2>1, <2>2
<1>17. Held(t) = Visible(t)
  BY SameHolds
<1>18. PICK lost : lost = IF answer = "clear" THEN Range(held0) ELSE {}
  OBVIOUS
<1>19. Part(u) \subseteq Range(commit) \cup Range(e) \cup lost
  BY <1>4, <1>5, <1>14, <1>15, <1>16, <1>18 DEF Spends
<1>20. PutIn(x, u, commit, e, lost)
  BY <1>5, <1>6, <1>13, <1>19, RetainHolds
<1>21. Held(t) \subseteq Held(x.text) \cup lost
  BY <1>14, <1>17, <1>20 DEF PutIn
<1>22. PICK all : all = Erases(op, ran, answer, held0)
  OBVIOUS
<1>23. answer = "clear" => all = Range(held0) \cup {op.id}
  BY <1>11, <1>22 DEF Erases
<1>24. KeyHolds(y, t, op, all)
  <2>1. CASE answer = "clear"
    <3>1. commit = <<>> /\ e = <<>>
      BY <1>4, <1>5, <2>1 DEF Spends
    <3>2. Whole(x.text)
      BY <1>20, <3>1 DEF PutIn
    <3> QED
      BY <1>10, <1>18, <1>21, <1>23, <2>1, <3>2 DEF KeyHolds
  <2>2. CASE answer # "clear"
    <3>1. lost = {}
      BY <1>18, <2>2
    <3>2. Whole(x.text)
      BY <1>20, <3>1 DEF PutIn, Whole
    <3>3. a.handled => op.id \in Held(x.text)
      BY <1>4, <1>5, <1>15, <1>20, <2>2, <3>1 DEF PutIn, Spends
    <3> QED
      BY <1>10, <1>11, <1>21, <3>1, <3>2, <3>3 DEF KeyHolds
  <2> QED
    BY <2>1, <2>2
<1> QED
  BY <1>8, <1>10, <1>15, <1>22, <1>24
-----------------------------------------------------------------------------
(* The two ways of a key: typed in English, or asked of the engine.         *)
LEMMA LostMore ==
  ASSUME NEW x, NEW t, NEW op, NEW A, NEW B, A \subseteq B, KeyHolds(x, t, op, A)
  PROVE  KeyHolds(x, t, op, B)
  BY DEF KeyHolds

LEMMA NothingComposed ==
  ASSUME NEW N, NEW t, Fits(t, N), Current(t), t.engine = <<>>
  PROVE  Part(t) = {}
<1>1. CASE t.comp.context = NoContext
  BY <1>1, NoPart
<1>2. CASE t.comp.context # NoContext
  <2>1. t.comp.len = 0
    BY <1>2 DEF Current, Displays
  <2> QED
    BY <2>1 DEF Part
<1> QED
  BY <1>1, <1>2

(* A single token put into a field without a composition.                   *)
LEMMA TokenHolds ==
  ASSUME NEW N, NEW t, Fits(t, N), Whole(t), ~Retaining(t), t.engine = <<>>, Part(t) = {},
         NEW c \in Contexts, t.comp.context \in {NoContext, c}, NEW id \in N, NEW fault
  PROVE  /\ Whole(Retry(Retained(t, c, <<id>>, <<>>), c, fault).text)
         /\ Held(t) \cup {id} \subseteq Held(Retry(Retained(t, c, <<id>>, <<>>), c, fault).text)
<1>1. PICK commit : commit = <<id>>
  OBVIOUS
<1>2. PICK view : view = <<>>
  OBVIOUS
<1>3. PICK none : none = {}
  OBVIOUS
<1>4. PICK x : x = Retry(Retained(t, c, commit, view), c, fault)
  OBVIOUS
<1>5. /\ commit \in Seq(N) /\ Range(commit) = {id} /\ view \in Seq(N) /\ t.engine = view
      /\ Part(t) \subseteq Range(commit) \cup Range(view) \cup none
  BY <1>1, <1>2, SingleToken
<1>6. PutIn(x, t, commit, view, none)
  BY <1>4, <1>5, RetainHolds
<1>7. Whole(x.text) /\ Visible(t) \cup {id} \subseteq Held(x.text)
  BY <1>3, <1>5, <1>6 DEF PutIn, Whole
<1>8. Held(t) = Visible(t)
  BY SameHolds
<1> QED
  BY <1>1, <1>2, <1>4, <1>7, <1>8

LEMMA TypeKeyHolds ==
  ASSUME NEW N, NEW t, Fits(t, N), Whole(t), ~Retaining(t), t.engine = <<>>, Part(t) = {},
         NEW op, op.id \in N, op.context \in Contexts,
         t.comp.context \in {NoContext, op.context}, NEW fault, NEW lost
  PROVE  KeyHolds(TypeKey(t, op, fault), t, op, lost)
<1>1. PICK c : c = op.context
  OBVIOUS
<1>2. PICK id : id = op.id
  OBVIOUS
<1>3. PICK x : x = Retry(Retained(t, c, <<id>>, <<>>), c, fault)
  OBVIOUS
<1>4. c \in Contexts /\ id \in N /\ t.comp.context \in {NoContext, c}
  BY <1>1, <1>2
<1>5. Whole(x.text) /\ Held(t) \cup {id} \subseteq Held(x.text)
  BY <1>3, <1>4, TokenHolds
<1>6. PICK y : y = TypeKey(t, op, fault)
  OBVIOUS
<1>7. y.text = x.text
  BY <1>1, <1>2, <1>3, <1>6, RanIs DEF TypeKey
<1> QED
  BY <1>2, <1>5, <1>6, <1>7 DEF KeyHolds

(* A composition that is started, and one that is ended as it is.           *)
LEMMA StartHolds ==
  ASSUME NEW N, NEW c \in Contexts, NEW r, Sound(r, N), ~Retaining(r.text), Whole(r.text), NEW fault
  PROVE  /\ Whole(Start(r, c, fault).text) /\ Held(Start(r, c, fault).text) = Held(r.text)
         /\ ~Retaining(Start(r, c, fault).text)
<1>1. PICK u : u = Start(r, c, fault).text
  OBVIOUS
<1>2. PICK t : t = r.text
  OBVIOUS
<1>3. u.doc = t.doc /\ u.retained = t.retained
  BY <1>1, <1>2, StartIs DEF StartedAs
<1> QED
  BY <1>1, <1>2, <1>3, SameHolds

LEMMA EndHolds ==
  ASSUME NEW N, NEW c \in Contexts, NEW r, Steady(r, N), ~Retaining(r.text), Whole(r.text),
         NEW clear \in BOOLEAN, ~clear, NEW fault
  PROVE  /\ Whole(End(r, c, clear, fault).text)
         /\ Held(End(r, c, clear, fault).text) = Held(r.text)
<1>1. PICK x : x = End(r, c, clear, fault)
  OBVIOUS
<1>3. EndOutcome(x, r, N, c, clear) /\ x.text.retained = r.text.retained
  BY <1>1, EndEnds, EndFits
<1>4. x.text.doc = r.text.doc
  BY <1>3 DEF EndOutcome
<1>5. PICK u : u = x.text
  OBVIOUS
<1>6. PICK t : t = r.text
  OBVIOUS
<1>7. u.doc = t.doc /\ u.retained = t.retained
  BY <1>3, <1>4, <1>5, <1>6
<1> QED
  BY <1>1, <1>5, <1>6, <1>7, SameHolds

(* The engine asked.                                                        *)
LEMMA AskHolds ==
  ASSUME NEW N, NEW start, NEW op \in OperationType, op.id \in N, op.context \in Contexts,
         ~op.processed, Poised(start, N, op.context), Whole(start.text),
         ~Retaining(start.text),
         NEW answer \in AllAnswers, answer = "shift" /\ start.ok => start.text.engine # <<>>,
         NEW fault
  PROVE  KeyHolds(AskEngine(start, op, answer, fault), start.text, op,
                  Erases(op, AskEngine(start, op, answer, fault).op, answer, start.text.engine))
<1>0. start.ok \in BOOLEAN /\ Fits(start.text, N)
  BY DEF Poised, Sound
<1>1. PICK y : y = AskEngine(start, op, answer, fault)
  OBVIOUS
<1>2. PICK lost : lost = Erases(op, y.op, answer, start.text.engine)
  OBVIOUS
<1>3. CASE ~start.ok
  <2>1. y = Ran(start, op)
    BY <1>1, <1>3, Zenon DEF AskEngine
  <2>2. y.text = start.text /\ y.op = op
    BY <2>1, RanIs
  <2>3. KeyHolds(y, start.text, op, lost)
    BY <2>2 DEF KeyHolds
  <2> QED
    BY <1>1, <1>2, <2>3
<1>4. CASE start.ok /\ answer \in Declining
  <2>1. PICK clear : clear = FALSE
    OBVIOUS
  <2>2. PICK e : e = End(start, op.context, clear, fault)
    OBVIOUS
  <2>3. PICK u : u = IF start.text.engine = <<>> THEN e.text ELSE start.text
    OBVIOUS
  <2>4. y = Ran(Ok(u), op)
    BY <1>1, <1>4, <2>1, <2>2, <2>3, Zenon DEF AskEngine
  <2>5. y.text = u /\ y.op = op
    BY <2>4, RanIs, OkAndFailed
  <2>6. PICK c : c = op.context
    OBVIOUS
  <2>7. clear \in BOOLEAN /\ ~clear
    BY <2>1
  <2>8. Steady(start, N) /\ c \in Contexts /\ e = End(start, c, clear, fault)
    BY <2>2, <2>6 DEF Poised, Steady, Unwritten
  <2>9. Whole(e.text) /\ Held(e.text) = Held(start.text)
    <3>1. /\ Whole(End(start, c, clear, fault).text)
          /\ Held(End(start, c, clear, fault).text) = Held(start.text)
      BY <2>7, <2>8, EndHolds
    <3> QED
      BY <2>8, <3>1
  <2>10. Whole(u) /\ Held(u) = Held(start.text)
    BY <2>3, <2>9
  <2>11. KeyHolds(y, start.text, op, lost)
    BY <2>5, <2>10 DEF KeyHolds
  <2> QED
    BY <1>1, <1>2, <2>11
<1>5. CASE start.ok /\ answer \notin Declining
  <2>1. PICK t : t = start.text
    OBVIOUS
  <2>2. PICK held0 : held0 = t.engine
    OBVIOUS
  <2>3. PICK id : id = op.id
    OBVIOUS
  <2>4. PICK a : a = Answered(answer, held0, id)
    OBVIOUS
  <2>5. y = Consume(t, op, a, fault)
    BY <1>1, <1>5, <2>1, <2>2, <2>3, <2>4, Zenon DEF AskEngine
  <2>6. held0 \in Seq(N) /\ id \in N /\ (answer = "shift" => held0 # <<>>)
    <3>1. held0 \in Seq(N)
      BY <1>0, <2>1, <2>2, TextFields DEF Fits
    <3> QED
      BY <1>5, <2>1, <2>2, <2>3, <3>1
  <2>7. AnsweredAs(a, held0, id, N) /\ Spends(a, held0, id, answer)
    BY <2>4, <2>6, EngineAnswers, AnswerSpends
  <2>8. AnsweredAs(a, t.engine, op.id, N) /\ Spends(a, t.engine, op.id, answer)
    BY <2>2, <2>3, <2>7
  <2>9. Fits(t, N) /\ Whole(t) /\ ~Retaining(t) /\ Current(t)
        /\ t.comp.context \in {NoContext, op.context}
    BY <1>0, <1>5, <2>1 DEF Poised, Showing
  <2>10. KeyHolds(Consume(t, op, a, fault), t, op,
                  Erases(op, Consume(t, op, a, fault).op, answer, t.engine))
    BY <2>8, <2>9, ConsumeHolds
  <2> QED
    BY <1>1, <2>1, <2>5, <2>10
<1> QED
  BY <1>0, <1>3, <1>4, <1>5
-----------------------------------------------------------------------------
(* processKey, and the composition that becomes ordinary text.              *)
LEMMA ProcessHolds ==
  ASSUME NEW N, NEW r, Sound(r, N), Idles(r), Showing(r.text), Whole(r.text), r.ok,
         NEW op \in OperationType, ~op.processed, op.id \in N, op.context \in Contexts,
         NEW mode \in BOOLEAN, mode \/ r.text.engine = <<>>, NEW answer \in AllAnswers,
         answer = "shift" => Detached(r.text, op.context).engine # <<>>, NEW fault
  PROVE  KeyHolds(ProcessKey(r, op, mode, answer, fault), r.text, op,
                  Erases(op, ProcessKey(r, op, mode, answer, fault).op, answer, r.text.engine))
<1>0. Fits(r.text, N) /\ ~Retaining(r.text) /\ Current(r.text)
  BY DEF Sound, Idles, Showing
<1>1. PICK t : t = r.text
  OBVIOUS
<1>2. PICK c : c = op.context
  OBVIOUS
<1>3. PICK d : d = Detached(t, c)
  OBVIOUS
<1>4. DetachedAs(d, t, N, c)
  BY <1>0, <1>1, <1>2, <1>3, DetachedFits
<1>5. /\ Fits(d, N) /\ d.comp.context \in {NoContext, c}
      /\ d.doc = t.doc /\ d.retained = t.retained /\ Range(d.engine) \subseteq Range(t.engine)
  BY <1>4, EmptyRange DEF DetachedAs
<1>6. ~Retaining(t) /\ Whole(t)
  BY <1>0, <1>1
<1>7. Whole(d) /\ Held(d) = Held(t) /\ ~Retaining(d)
  BY <1>5, <1>6, SameHolds
<1>8. Current(d)
  <2>1. CASE t.comp.context \in {NoContext, c}
    BY <1>0, <1>1, <1>4, <2>1 DEF DetachedAs
  <2>2. CASE t.comp.context \notin {NoContext, c}
    <3>1. d = Abandon(t)
      BY <1>3, <2>2 DEF Detached
    <3>2. d.comp = NoComposition /\ d.engine = <<>>
      BY <1>0, <1>1, <3>1, AbandonFits DEF AbandonedAs
    <3> QED
      BY <3>2, NothingTyped DEF Current
  <2> QED
    BY <2>1, <2>2
<1>9. PICK y : y = ProcessKey(r, op, mode, answer, fault)
  OBVIOUS
<1>10. CASE mode
  <2>1. PICK s : s = Ok(d)
    OBVIOUS
  <2>2. PICK start : start = Begun(d, c, answer, fault)
    OBVIOUS
  <2>3. y = AskEngine(start, op, answer, fault)
    BY <1>1, <1>2, <1>3, <1>9, <1>10, <2>2 DEF ProcessKey
  <2>4. s.text = d /\ Sound(s, N)
    BY <1>5, <2>1, OkAndFailed, SoundResults
  <2>5. Poised(s, N, c) /\ Steady(s, N)
    BY <1>5, <1>7, <1>8, <2>4 DEF Poised, Idles, Showing, Steady, Unwritten
  <2>7. start = s \/ start = Start(s, c, fault)
    BY <2>1, <2>2, Zenon DEF Begun
  <2>6. Poised(start, N, c)
    BY <1>2, <2>5, <2>7, StartPoised
  <2>8. start.text.engine = d.engine
    BY <1>2, <2>4, <2>7, StartIs DEF StartedAs
  <2>9. answer = "shift" /\ start.ok => start.text.engine # <<>>
    BY <1>1, <1>2, <1>3, <2>8
  <2>10. c \in Contexts /\ ~Retaining(s.text) /\ Whole(s.text)
    BY <1>2, <1>7, <2>4
  <2>11. Whole(start.text) /\ Held(start.text) = Held(s.text) /\ ~Retaining(start.text)
    BY <2>4, <2>7, <2>10, StartHolds
  <2>12. Poised(start, N, op.context)
    BY <1>2, <2>6
  <2>13. KeyHolds(AskEngine(start, op, answer, fault), start.text, op,
                  Erases(op, AskEngine(start, op, answer, fault).op, answer, start.text.engine))
    BY <2>9, <2>11, <2>12, AskHolds
  <2>14. KeyHolds(y, t, op, Erases(op, y.op, answer, d.engine))
    BY <1>7, <2>3, <2>4, <2>8, <2>11, <2>13 DEF KeyHolds
  <2>15. PICK A : A = Erases(op, y.op, answer, d.engine)
    OBVIOUS
  <2>16. PICK B : B = Erases(op, y.op, answer, t.engine)
    OBVIOUS
  <2>17. A \subseteq B
    BY <1>5, <2>15, <2>16 DEF Erases
  <2>18. KeyHolds(y, t, op, B)
    BY <2>14, <2>15, <2>17, LostMore
  <2> QED
    BY <1>1, <1>9, <2>16, <2>18
<1>11. CASE ~mode
  <2>1. y = TypeKey(d, op, fault)
    BY <1>1, <1>2, <1>3, <1>9, <1>11 DEF ProcessKey
  <2>2. d.engine = <<>>
    BY <1>1, <1>4, <1>11 DEF DetachedAs
  <2>3. Part(d) = {}
    BY <1>5, <1>8, <2>2, NothingComposed
  <2>4. d.comp.context \in {NoContext, op.context}
    BY <1>2, <1>5
  <2>5. PICK lost : lost = Erases(op, y.op, answer, t.engine)
    OBVIOUS
  <2>6. KeyHolds(y, d, op, lost)
    BY <1>5, <1>7, <2>1, <2>2, <2>3, <2>4, TypeKeyHolds
  <2>7. KeyHolds(y, t, op, lost)
    BY <1>7, <2>6 DEF KeyHolds
  <2> QED
    BY <1>1, <1>9, <2>5, <2>7
<1> QED
  BY <1>10, <1>11

LEMMA CommitHolds ==
  ASSUME NEW N, NEW c \in Contexts, NEW r, Poised(r, N, c), Whole(r.text), NEW fault
  PROVE  /\ Whole(CommitComposition(r, c, fault).text)
         /\ Held(CommitComposition(r, c, fault).text) = Held(r.text)
         /\ CommitComposition(r, c, fault).ok => Part(CommitComposition(r, c, fault).text) = {}
<1>1. PICK x : x = CommitComposition(r, c, fault)
  OBVIOUS
<1>2. Poised(x, N, c) /\ (x.ok => x.text.comp.context = NoContext)
  BY <1>1, CommitPoised
<1>3. PICK u : u = x.text
  OBVIOUS
<1>4. Fits(u, N)
  BY <1>2, <1>3 DEF Poised, Sound
<1>5. x.ok => Part(u) = {}
  BY <1>2, <1>3, <1>4, NoPart
<1>6. CASE ~r.ok
  <2>1. x = r
    BY <1>1, <1>6 DEF CommitComposition
  <2> QED
    BY <1>1, <1>3, <1>5, <2>1
<1>7. CASE r.ok
  <2>1. Sound(r, N) /\ ~Retaining(r.text)
    BY <1>7 DEF Poised, Idles
  <2>2. CommitAs(x, r, N)
    BY <1>1, <2>1, CommitFits
  <2>3. PICK t : t = r.text
    OBVIOUS
  <2>4. u.doc = t.doc /\ u.retained = t.retained
    BY <1>3, <2>2, <2>3 DEF CommitAs
  <2>5. Whole(u) /\ Held(u) = Held(t)
    BY <2>1, <2>3, <2>4, SameHolds
  <2> QED
    BY <1>1, <1>3, <1>5, <2>3, <2>5
<1> QED
  BY <1>6, <1>7 DEF Poised, Sound

(* A character inserted, once the composition is committed.                 *)
LEMMA CommitInsertHolds ==
  ASSUME NEW N, NEW r, NEW op, op.id \in N, op.context \in Contexts, Poised(r, N, op.context),
         Whole(r.text), NEW fault, NEW m, m = CommitComposition(r, op.context, fault)
  PROVE  /\ Whole(Insert(m, op, fault).text)
         /\ Held(r.text) \subseteq Held(Insert(m, op, fault).text)
         /\ m.ok => op.id \in Held(Insert(m, op, fault).text)
         /\ Insert(m, op, fault).ok => m.ok
<1>1. PICK c : c = op.context
  OBVIOUS
<1>2. PICK id : id = op.id
  OBVIOUS
<1>3. c \in Contexts /\ Poised(r, N, c) /\ m = CommitComposition(r, c, fault)
  BY <1>1
<1>4. /\ Poised(m, N, c)
      /\ m.ok => m.text.engine = <<>> /\ m.text.comp.context = NoContext
  BY <1>3, CommitPoised
<1>5. /\ Whole(m.text) /\ Held(m.text) = Held(r.text)
      /\ m.ok => Part(m.text) = {}
  BY <1>3, CommitHolds
<1>6. CASE ~m.ok
  <2>1. Insert(m, op, fault) = m
    BY <1>6 DEF Insert
  <2> QED
    BY <1>5, <1>6, <2>1
<1>7. CASE m.ok
  <2>1. PICK t : t = m.text
    OBVIOUS
  <2>2. PICK x : x = Retry(Retained(t, c, <<id>>, <<>>), c, fault)
    OBVIOUS
  <2>3. Insert(m, op, fault) = x
    BY <1>1, <1>2, <1>7, <2>1, <2>2 DEF Insert
  <2>4. Fits(t, N) /\ ~Retaining(t)
    BY <1>4, <1>7, <2>1 DEF Poised, Sound, Idles
  <2>5. /\ Whole(t) /\ t.engine = <<>> /\ Part(t) = {} /\ t.comp.context \in {NoContext, c}
        /\ id \in N
    BY <1>2, <1>4, <1>5, <1>7, <2>1
  <2>6. Whole(x.text) /\ Held(t) \cup {id} \subseteq Held(x.text)
    BY <1>3, <2>2, <2>4, <2>5, TokenHolds
  <2> QED
    BY <1>2, <1>5, <1>7, <2>1, <2>3, <2>6
<1> QED
  BY <1>4, <1>6, <1>7 DEF Poised, Sound

(* A key that the host can no longer have back is handled when it is done.  *)
RunKeyLeaves(x, run) ==
  /\ Whole(x.text) /\ Held(run.text) \subseteq Held(x.text)
  /\ x.op.handled => run.op.handled \/ run.op.id \in Held(x.text)
  /\ run.op.processed => x.op.processed
  /\ x.ok /\ ~x.op.handled => ~run.op.ordered /\ ~run.op.accepted

LEMMA RunKeyHolds ==
  ASSUME NEW N, NEW run, run.op \in OperationType, run.op.id \in N, run.op.context \in Contexts,
         Poised(run, N, run.op.context), Whole(run.text), NEW fault
  PROVE  RunKeyLeaves(RunKey(run, fault), run)
<1>1. CASE ~run.ok \/ run.op.handled \/ ~(run.op.ordered \/ run.op.accepted)
  <2>1. RunKey(run, fault) = run
    BY <1>1 DEF RunKey
  <2> QED
    BY <1>1, <2>1 DEF RunKeyLeaves
<1>2. CASE ~(~run.ok \/ run.op.handled \/ ~(run.op.ordered \/ run.op.accepted))
  <2>1. PICK op : op = run.op
    OBVIOUS
  <2>2. PICK r : r = Ok(run.text)
    OBVIOUS
  <2>3. PICK m : m = CommitComposition(r, op.context, fault)
    OBVIOUS
  <2>4. PICK x : x = Insert(m, op, fault)
    OBVIOUS
  <2>5. RunKey(run, fault) = InsertKey(m, op, fault)
    BY <1>2, <2>1, <2>2, <2>3 DEF RunKey
  <2>6. PICK o : o = IF m.ok THEN Took(op, TRUE) ELSE op
    OBVIOUS
  <2>7. PICK y : y = RunKey(run, fault)
    OBVIOUS
  <2>8. y = Ran(x, o)
    BY <2>4, <2>5, <2>6, <2>7, Zenon DEF InsertKey
  <2>9. op.id \in N /\ op.context \in Contexts /\ op \in OperationType /\ ~op.handled
    BY <1>2, <2>1
  <2>10. Poised(r, N, op.context) /\ r.text = run.text
    BY <1>2, <2>1, <2>2, OkAndFailed, SoundResults DEF Poised, Sound, Idles
  <2>11. Whole(r.text)
    BY <2>10
  <2>12. /\ Whole(x.text) /\ Held(r.text) \subseteq Held(x.text)
         /\ m.ok => op.id \in Held(x.text)
         /\ x.ok => m.ok
    BY <2>3, <2>4, <2>9, <2>10, <2>11, CommitInsertHolds
  <2>13. y.ok = x.ok /\ y.text = x.text /\ y.op = o
    BY <2>8, RanIs
  <2>14. /\ m.ok => o.handled = TRUE /\ o.processed = TRUE
         /\ ~m.ok => o = op
    BY <2>6, <2>9, TakenIs
  <2>15. RunKeyLeaves(y, run)
    BY <2>1, <2>9, <2>10, <2>12, <2>13, <2>14 DEF RunKeyLeaves
  <2> QED
    BY <2>7, <2>15
<1> QED
  BY <1>1, <1>2
-----------------------------------------------------------------------------
(* What a run of an operation leaves of the tokens: it loses none but those *)
(* its answer erased; and no key that was taken is given back.              *)
RunHolds(x, t, op, answer) ==
  /\ KeyHolds(x, t, op, Erases(op, x.op, answer, t.engine))
  /\ x.ok /\ op.kind = "key" /\ ~x.op.handled => ~op.ordered /\ ~op.accepted
  /\ op.kind # "key" => x.op = op

(* runInput: after what was retained, the operation.                        *)
LEMMA UnchangedHolds ==
  ASSUME NEW x, NEW t, NEW op, x.op = op, Whole(x.text), Held(t) \subseteq Held(x.text), NEW lost
  PROVE  KeyHolds(x, t, op, lost)
  BY DEF KeyHolds

LEMMA RanKeyHolds ==
  ASSUME NEW N, NEW run, NEW t, NEW op \in OperationType, op.id \in N, op.context \in Contexts,
         op.kind = "key", RanFrom(op, run.op), Poised(run, N, op.context), NEW fault, NEW answer,
         KeyHolds(run, t, op, Erases(op, run.op, answer, t.engine))
  PROVE  RunHolds(RunKey(run, fault), t, op, answer)
<1>1. PICK x : x = RunKey(run, fault)
  OBVIOUS
<1>2. PICK some : some = Erases(op, run.op, answer, t.engine)
  OBVIOUS
<1>3. PICK all : all = Erases(op, x.op, answer, t.engine)
  OBVIOUS
<1>4. /\ run.op \in OperationType /\ run.op.id = op.id /\ run.op.context = op.context
      /\ run.op.ordered = op.ordered /\ run.op.accepted = op.accepted
  BY RunKeepsIdentity DEF RanFrom
<1>5. KeyHolds(run, t, op, some)
  BY <1>2
<1>6. run.op.id \in N /\ run.op.context \in Contexts /\ Poised(run, N, run.op.context)
      /\ Whole(run.text)
  BY <1>4, <1>5 DEF KeyHolds
<1>7. RunKeyLeaves(x, run)
  BY <1>1, <1>4, <1>6, RunKeyHolds
<1>8. some \subseteq all
  BY <1>2, <1>3, <1>7 DEF Erases, RunKeyLeaves
<1>9. KeyHolds(x, t, op, all)
  BY <1>4, <1>5, <1>7, <1>8 DEF KeyHolds, RunKeyLeaves
<1>10. x.ok /\ op.kind = "key" /\ ~x.op.handled => ~op.ordered /\ ~op.accepted
  BY <1>4, <1>7 DEF RunKeyLeaves
<1> QED
  BY <1>1, <1>3, <1>9, <1>10 DEF RunHolds

LEMMA RunOperationHolds ==
  ASSUME NEW N, NEW r, Sound(r, N), Idles(r), Showing(r.text), Whole(r.text),
         NEW op \in OperationType,
         op.id \in N, op.context \in Contexts, op.kind \in {"key", "symbol", "mode"},
         Beside(op, r.text),
         NEW mode \in BOOLEAN, mode \/ r.text.engine = <<>>, NEW answer \in Answers,
         answer = "shift" => Detached(r.text, op.context).engine # <<>>, NEW fault
  PROVE  RunHolds(RunOperation(r, op, mode, answer, fault), r.text, op, answer)
<1>0. answer \in AllAnswers /\ r.ok \in BOOLEAN /\ op.processed \in BOOLEAN
  BY AnswersAssumption DEF Sound, OperationType
<1>1. PICK x : x = RunOperation(r, op, mode, answer, fault)
  OBVIOUS
<1>2. CASE op.kind = "key"
  <2>1. PICK run : run = ProcessKey(r, op, mode, answer, fault)
    OBVIOUS
  <2>2. x = RunKey(run, fault)
    BY <1>1, <1>2, <2>1 DEF RunOperation
  <2>3. RanFrom(op, run.op)
    BY <2>1, EngineLeavesOperation
  <2>4. PICK lost : lost = Erases(op, run.op, answer, r.text.engine)
    OBVIOUS
  <2>5. CASE ~r.ok
    <3>1. run = Ran(r, op)
      BY <2>1, <2>5 DEF ProcessKey
    <3>2. ~run.ok /\ run.text = r.text /\ run.op = op
      BY <2>5, <3>1, RanIs
    <3>3. x = run
      BY <2>2, <3>2 DEF RunKey
    <3>4. PICK all : all = Erases(op, x.op, answer, r.text.engine)
      OBVIOUS
    <3>5. x.op = op /\ x.text = r.text /\ ~x.ok
      BY <3>2, <3>3
    <3>6. KeyHolds(x, r.text, op, all)
      BY <3>5 DEF KeyHolds
    <3> QED
      BY <1>1, <1>2, <3>4, <3>5, <3>6 DEF RunHolds
  <2>6. CASE r.ok
    <3>1. Poised(run, N, op.context) /\ KeyHolds(run, r.text, op, lost)
      <4>1. CASE op.processed
        <5>1. run = Ran(r, op)
          BY <2>1, <4>1 DEF ProcessKey
        <5>2. run.text = r.text /\ run.op = op /\ run.ok = r.ok
          BY <5>1, RanIs
        <5>3. Poised(run, N, op.context)
          BY <4>1, <5>2 DEF Poised, Beside, Sound, Idles
        <5>4. KeyHolds(run, r.text, op, lost)
          BY <5>2 DEF KeyHolds
        <5> QED
          BY <5>3, <5>4
      <4>2. CASE ~op.processed
        <5>1. Poised(run, N, op.context)
          BY <1>0, <2>1, <2>6, <4>2, ProcessPoised
        <5>2. KeyHolds(ProcessKey(r, op, mode, answer, fault), r.text, op,
                  Erases(op, ProcessKey(r, op, mode, answer, fault).op, answer, r.text.engine))
          BY <1>0, <2>6, <4>2, ProcessHolds
        <5> QED
          BY <2>1, <2>4, <5>1, <5>2
      <4> QED
        BY <4>1, <4>2
    <3>2. PICK t : t = r.text
      OBVIOUS
    <3>3. KeyHolds(run, t, op, Erases(op, run.op, answer, t.engine))
      BY <2>4, <3>1, <3>2
    <3>4. RunHolds(RunKey(run, fault), t, op, answer)
      BY <1>2, <2>3, <3>1, <3>3, RanKeyHolds
    <3> QED
      BY <1>1, <2>2, <3>2, <3>4
  <2> QED
    BY <1>0, <2>5, <2>6
<1>3. CASE op.kind # "key"
  <2>1. Poised(r, N, op.context)
    BY <1>3 DEF Poised, Beside
  <2>2. /\ x.op = op /\ Whole(x.text) /\ Held(r.text) \subseteq Held(x.text)
    <3>1. CASE op.kind = "symbol"
      <4>1. PICK z : z = Insert(CommitComposition(r, op.context, fault), op, fault)
        OBVIOUS
      <4>2. PICK y : y = IF answer = "pass" THEN r ELSE z
        OBVIOUS
      <4>3. x = Ran(y, op)
        BY <1>1, <3>1, <4>1, <4>2 DEF RunOperation, RunSymbol
      <4>4. PICK m : m = CommitComposition(r, op.context, fault)
        OBVIOUS
      <4>5. Whole(z.text) /\ Held(r.text) \subseteq Held(z.text)
        BY <2>1, <4>1, <4>4, CommitInsertHolds
      <4>6. Whole(y.text) /\ Held(r.text) \subseteq Held(y.text)
        BY <4>2, <4>5
      <4> QED
        BY <4>3, <4>6, RanIs
    <3>2. CASE op.kind = "mode"
      <4>1. PICK m : m = CommitComposition(r, op.context, fault)
        OBVIOUS
      <4>2. PICK y : y = IF m.ok /\ fault = "publish" THEN Failed(m.text) ELSE m
        OBVIOUS
      <4>3. x = Ran(y, op)
        BY <1>1, <3>2, <4>1, <4>2 DEF RunOperation, RunMode
      <4>4. PICK c : c = op.context
        OBVIOUS
      <4>5. c \in Contexts /\ Poised(r, N, c) /\ m = CommitComposition(r, c, fault)
        BY <2>1, <4>1, <4>4
      <4>6. Whole(m.text) /\ Held(m.text) = Held(r.text)
        BY <4>5, CommitHolds, ZenonT(60)
      <4>7. y.text = m.text
        BY <4>2, OkAndFailed
      <4>8. x.text = m.text /\ x.op = op
        BY <4>3, <4>7, RanIs
      <4> QED
        BY <4>6, <4>8
    <3> QED
      BY <1>3, <3>1, <3>2
  <2>3. PICK lost : lost = Erases(op, x.op, answer, r.text.engine)
    OBVIOUS
  <2>4. PICK t : t = r.text
    OBVIOUS
  <2>5. KeyHolds(x, t, op, lost)
    BY <2>2, <2>4, UnchangedHolds
  <2> QED
    BY <1>1, <1>3, <2>2, <2>3, <2>4, <2>5 DEF RunHolds
<1> QED
  BY <1>2, <1>3

LEMMA RunInputHolds ==
  ASSUME NEW N, NEW t, Fits(t, N), Showing(t), Whole(t), NEW op \in OperationType,
         op.id \in N, op.context \in Contexts, op.kind \in {"key", "symbol", "mode"},
         Beside(op, t), NEW mode \in BOOLEAN, mode \/ t.engine = <<>>,
         NEW answer \in Answerable(t, op.context), NEW fault
  PROVE  RunHolds(RunInput(t, op, mode, answer, fault), t, op, answer)
<1>1. PICK c : c = op.context
  OBVIOUS
<1>2. PICK s : s = Ok(t)
  OBVIOUS
<1>3. PICK r : r = Retry(s, c, fault)
  OBVIOUS
<1>4. RunInput(t, op, mode, answer, fault) = RunOperation(r, op, mode, answer, fault)
  BY <1>1, <1>2, <1>3, NoContextAssumption DEF RunInput
<1>5. s.text = t /\ Sound(s, N) /\ c \in Contexts
  BY <1>1, <1>2, OkAndFailed, SoundResults
<1>6. Sound(r, N) /\ Idles(r)
  BY <1>3, <1>5, RetryHandles DEF Handles
<1>7. Keeps(r, s, c)
  BY <1>3, <1>5, RetryKeeps
<1>8. r.text.engine = t.engine /\ r.text.comp.context \in {t.comp.context, c, NoContext}
  BY <1>5, <1>7 DEF Keeps, KeepsText
<1>9. answer \in Answers /\ (answer = "shift" => Detached(t, c).engine # <<>>)
  BY <1>1 DEF Answerable
<1>10. answer = "shift" => Detached(r.text, c).engine # <<>>
  <2>1. DetachedAs(Detached(t, c), t, N, c)
    BY <1>5, DetachedFits
  <2>2. Fits(r.text, N)
    BY <1>6 DEF Sound
  <2>3. DetachedAs(Detached(r.text, c), r.text, N, c)
    BY <1>5, <2>2, DetachedFits
  <2>4. CASE t.comp.context \in {NoContext, c}
    <3>1. Detached(r.text, c) = r.text /\ Detached(t, c) = t
      BY <1>8, <2>1, <2>3, <2>4 DEF DetachedAs
    <3> QED
      BY <1>8, <1>9, <3>1
  <2>5. CASE t.comp.context \notin {NoContext, c}
    BY <1>9, <2>1, <2>5 DEF DetachedAs
  <2> QED
    BY <2>4, <2>5
<1>11. Showing(r.text)
  BY <1>3, <1>5, RetryShows
<1>12. Beside(op, r.text)
  BY <1>1, <1>8 DEF Beside
<1>13. Whole(r.text) /\ Held(t) \subseteq Held(r.text)
  <2>1. PICK none : none = {}
    OBVIOUS
  <2>2. Holding(s.text, none) /\ Showing(s.text)
    BY <1>5, <2>1 DEF Whole
  <2>3. Holds(r, s.text, none)
    BY <1>3, <1>5, <2>2, RetryHolds
  <2> QED
    BY <1>5, <2>1, <2>3 DEF Holds, Whole
<1>14. PICK x : x = RunOperation(r, op, mode, answer, fault)
  OBVIOUS
<1>15. RunHolds(RunOperation(r, op, mode, answer, fault), r.text, op, answer)
  BY <1>1, <1>6, <1>8, <1>9, <1>10, <1>11, <1>12, <1>13, RunOperationHolds
<1>16. PICK lost : lost = Erases(op, x.op, answer, t.engine)
  OBVIOUS
<1>17. KeyHolds(x, r.text, op, lost)
       /\ (x.ok /\ op.kind = "key" /\ ~x.op.handled => ~op.ordered /\ ~op.accepted)
       /\ (op.kind # "key" => x.op = op)
  BY <1>8, <1>14, <1>15, <1>16 DEF RunHolds
<1>18. KeyHolds(x, t, op, lost)
  BY <1>13, <1>17 DEF KeyHolds
<1> QED
  BY <1>4, <1>14, <1>16, <1>17, <1>18 DEF RunHolds
-----------------------------------------------------------------------------
(* A character the host types joins the field; the composition stays.       *)
LEMMA ComposedSequence ==
  ASSUME NEW N, NEW t, Fits(t, N), t.comp.context # NoContext
  PROVE  \E s \in Seq(N) : Displays(t, s)
<1>1. PICK d : d = t.doc[t.comp.context]
  OBVIOUS
<1>2. PICK from : from = t.comp.from
  OBVIOUS
<1>3. PICK len : len = t.comp.len
  OBVIOUS
<1>4. d \in Seq(N) /\ from \in Nat /\ len \in Nat /\ from + len <= Len(d)
  BY <1>1, <1>2, <1>3, TextFields DEF Fits, Docs, PlacedComposition, Fields
<1>5. PICK s : s = SubSeq(d, from + 1, from + len)
  OBVIOUS
<1>6. s \in Seq(N) /\ Len(s) = len /\ \A i \in 1 .. len : s[i] = d[from + i]
  BY <1>4, <1>5
<1>7. Displays(t, s)
  BY <1>1, <1>2, <1>3, <1>6 DEF Displays
<1> QED
  BY <1>6, <1>7

LEMMA HostTypesHolds ==
  ASSUME NEW N, NEW t, Fits(t, N), NEW c \in Contexts, NEW id \in N, Whole(t)
  PROVE  Whole(HostTypes(t, c, id)) /\ Held(t) \cup {id} \subseteq Held(HostTypes(t, c, id))
<1>1. PICK u : u = HostTypes(t, c, id)
  OBVIOUS
<1>2. TypedAs(u, t, N, c, id)
  BY <1>1, HostTypesFits
<1>3. /\ u.comp.context = t.comp.context /\ SameResult(u, t) /\ Fits(u, N)
      /\ u.retained.written = t.retained.written /\ u.retained.needsEnd = t.retained.needsEnd
  BY <1>2 DEF TypedAs
<1>4. /\ Retaining(u) <=> Retaining(t)
      /\ u.retained.commit = t.retained.commit /\ u.retained.view = t.retained.view
  BY <1>3 DEF SameResult, Retaining
<1>5. Part(u) = Part(t)
  <2>1. CASE t.comp.context = NoContext
    BY <1>3, <2>1, NoPart
  <2>2. CASE t.comp.context # NoContext
    <3>1. PICK s \in Seq(N) : Displays(t, s)
      BY <2>2, ComposedSequence
    <3>2. Displays(u, s)
      BY <1>2, <2>2, <3>1, TypedDisplays
    <3> QED
      BY <3>1, <3>2, DisplayedPart
  <2> QED
    BY <2>1, <2>2
<1>6. Visible(t) \cup {id} \subseteq Visible(u)
  <2>1. PICK s : s = t.doc[c]
    OBVIOUS
  <2>2. PICK p : p = t.caret[c]
    OBVIOUS
  <2>3. PICK z : z = 0
    OBVIOUS
  <2>4. PICK new : new = <<id>>
    OBVIOUS
  <2>5. /\ s \in Seq(N) /\ p \in Nat /\ z \in Nat /\ new \in Seq(N) /\ p + z <= Len(s)
        /\ Range(new) = {id}
    BY <2>1, <2>2, <2>3, <2>4, SingleToken, TextFields DEF Fits, Docs, Carets, PlacedCarets
  <2>6. KeptRange(Replaced(s, p, z, new), s, p, z, new)
    BY <2>5, KeptOfReplaced
  <2>7. {s[p + i] : i \in 1 .. z} = {}
    BY <2>3
  <2>8. u.doc[c] = Replaced(s, p, z, new) /\ \A d \in Contexts \ {c} : u.doc[d] = t.doc[d]
    BY <1>2, <2>1, <2>2, <2>3, <2>4 DEF TypedAs
  <2>9. PICK none : none = {}
    OBVIOUS
  <2>10. Range(s) \subseteq Range(u.doc[c]) \cup none /\ id \in Range(u.doc[c])
    BY <2>5, <2>6, <2>7, <2>8 DEF KeptRange
  <2>11. Visible(t) \subseteq Visible(u) \cup none
    BY <2>1, <2>8, <2>10, EditedVisible
  <2> QED
    BY <2>9, <2>10, <2>11, FieldVisible
<1>7. Waiting(u) = Waiting(t)
  BY <1>4 DEF Waiting
<1>8. Whole(u)
  BY <1>3, <1>4, <1>5, <1>6, <1>7 DEF Whole, Holding, Covered, Committed
<1> QED
  BY <1>1, <1>6, <1>7, <1>8 DEF Held

(* What a cancellation leaves: everything that was visible, nothing that    *)
(* waits.                                                                   *)
Bare(u, t) == Whole(u) /\ Held(u) = Visible(t)

LEMMA CancelledHolds ==
  ASSUME NEW N, NEW t, Fits(t, N)
  PROVE  Bare(Cancelled(t), t) /\ Bare(Abandon(Cancelled(t)), t)
<1>1. PICK u : u = Cancelled(t)
  OBVIOUS
<1>2. CancelledAs(u, t, N)
  BY <1>1, CancelledFits
<1>3. u.retained = NoResult
  <2>1. PICK caret : caret = [c \in Contexts |-> Len(t.doc[c])]
    OBVIOUS
  <2>2. PICK v : v = [t EXCEPT !.retained = NoResult]
    OBVIOUS
  <2>3. u = [v EXCEPT !.caret = caret]
    BY <1>1, <2>1, <2>2, Zenon DEF Cancelled
  <2>4. v \in TextType(N) /\ v.retained = NoResult
    <3>1. t \in TextType(N) /\ NoResult \in ResultType(N)
      BY NothingTyped DEF Fits
    <3> QED
      BY <2>2, <3>1, RetainedSet
  <2>5. DOMAIN v = {"doc", "caret", "comp", "engine", "retained"}
    BY <2>4 DEF TextType
  <2> QED
    BY <2>3, <2>4, <2>5
<1>4. u.doc = t.doc /\ ~Retaining(u) /\ Fits(u, N)
  BY <1>2 DEF CancelledAs
<1>5. Visible(u) = Visible(t)
  BY <1>4, VisibleSame
<1>6. Waiting(u) = {}
  BY <1>3, NothingTyped, EmptyRange DEF Waiting
<1>7. PICK a : a = Abandon(u)
  OBVIOUS
<1>8. a.doc = u.doc /\ a.retained = u.retained
  BY <1>4, <1>7, AbandonFits DEF AbandonedAs
<1>9. Visible(a) = Visible(t) /\ Waiting(a) = {} /\ ~Retaining(a)
  <2>1. Visible(a) = Visible(u)
    BY <1>8, VisibleSame
  <2> QED
    BY <1>4, <1>5, <1>6, <1>8, <2>1 DEF Waiting, Retaining
<1> QED
  BY <1>1, <1>4, <1>5, <1>6, <1>7, <1>9 DEF Bare, Whole, Holding, Held
-----------------------------------------------------------------------------
(* Where a token is that has left the queue.                                *)
Here == Held(text) \cup gone

(* A key the caller is told to leave to the host: its call has not returned *)
(* yet.                                                                     *)
Promised(id) ==
  /\ request.stage = "return" /\ request.op.id = id
  /\ request.op.kind = "key" /\ ~request.op.handled

(* Only the oldest operation can be one the host may still have back, and   *)
(* then its call is still being served; a queue that is not pumped has a    *)
(* session under way or a refused key at its front.                         *)
OnlyFirst == \A i \in DOMAIN queue : ~queue[i].ordered => i = 1
CallerWaits ==
  \A i \in DOMAIN queue : ~queue[i].ordered /\ ~queue[i].accepted =>
    /\ request.stage = "return" /\ request.op.id = queue[i].id
    /\ request.op.kind = queue[i].kind
Served == pump = "off" /\ queue # <<>> => active # None \/ blocked

(* A key that was taken is not given back before it is somewhere.           *)
TakenStays ==
  \A i \in DOMAIN queue : queue[i].kind = "key" /\ queue[i].handled => queue[i].id \in Here
ModesUntyped == \A i \in DOMAIN queue : queue[i].kind = "mode" => typedIn[queue[i].id] = NoContext
AsksFresh == request.stage \in {"push", "append"} => ~request.op.handled
QueueKept == OnlyFirst /\ CallerWaits /\ Served /\ TakenStays /\ ModesUntyped /\ AsksFresh

Kept == \A id \in Made : typedIn[id] # NoContext => id \in Here \cup Queued \/ Promised(id)
KeepInv == Whole(text) /\ QueueKept /\ Kept

(* Nobody but the front operation of a queue can be one the host may have   *)
(* back; without a call being served nobody is.                             *)
LEMMA NoneWaits ==
  ASSUME QInv, KeepInv, request.stage # "return" \/ pump = "off"
  PROVE  \A i \in DOMAIN queue : queue[i].ordered \/ queue[i].accepted
<1> SUFFICES ASSUME NEW i \in DOMAIN queue, ~queue[i].ordered, ~queue[i].accepted
             PROVE  FALSE
  OBVIOUS
<1>1. request.stage = "return" /\ i = 1
  BY DEF KeepInv, QueueKept, CallerWaits, OnlyFirst
<1>2. queue # <<>> /\ Oldest = queue[1]
  BY <1>1, TypedState, FrontAndRest DEF Oldest
<1>3. active # None \/ blocked
  BY <1>1, <1>2 DEF KeepInv, QueueKept, Served
<1> QED
  BY <1>1, <1>2, <1>3 DEF QInv, ActiveIsHeld, BlockedByTakenKey

(* A step that leaves the queue alone and adds to what is here.             *)
PromisesKept == \A id : Promised(id) => id \in Here' \cup Queued \/ Promised(id)'

LEMMA QuietLosesNone ==
  ASSUME QInv, KeepInv, UNCHANGED <<queue, typedIn, made>>, Whole(text'), Here \subseteq Here',
         Served', AsksFresh',
         request' = request \/ request.stage # "return" \/ pump = "off",
         PromisesKept
  PROVE  KeepInv'
<1>1. CallerWaits'
  <2>1. CASE request' = request
    BY <2>1 DEF KeepInv, QueueKept, CallerWaits
  <2>2. CASE request.stage # "return" \/ pump = "off"
    BY <2>2, NoneWaits DEF CallerWaits
  <2> QED
    BY <2>1, <2>2
<1>2. OnlyFirst' /\ TakenStays' /\ ModesUntyped'
  BY DEF KeepInv, QueueKept, OnlyFirst, TakenStays, ModesUntyped
<1>3. Queued' = Queued /\ Made' = Made
  BY DEF Queued, Made
<1>4. Kept'
  BY <1>3 DEF KeepInv, Kept, PromisesKept
<1> QED
  BY <1>1, <1>2, <1>4 DEF KeepInv, QueueKept
-----------------------------------------------------------------------------
(* A call of the host that reaches the service, one that is withdrawn, and  *)
(* one that returns.                                                        *)
LEMMA RequestLosesNone ==
  ASSUME TextInv, KeepInv, KeyDown \/ Symbol \/ Toggle
  PROVE  KeepInv'
<1>1. PICK op : Request(op) /\ ~op.handled
  <2>1. \A kind, c, value : ~Operation(kind, c, value).handled
    BY DEF Operation
  <2>2. \E kind, c, value : Request(Operation(kind, c, value))
    BY Zenon DEF KeyDown, Symbol, Toggle
  <2> QED
    BY <2>1, <2>2
<1>2. /\ Idle /\ request' = [stage |-> "push", op |-> op]
      /\ UNCHANGED <<queue, active, blocked, text, typedIn, made, gone>>
  BY <1>1 DEF KeyDown, Symbol, Toggle, Request, textVars
<1>3. Served'
  BY <1>2 DEF KeepInv, QueueKept, Served, Idle
<1>4. AsksFresh'
  BY <1>1, <1>2 DEF AsksFresh
<1>5. Here \subseteq Here' /\ Whole(text')
  BY <1>2 DEF Here, KeepInv
<1>6. request.stage # "return" /\ PromisesKept
  BY <1>2 DEF Idle, Promised, PromisesKept
<1> QED
  BY <1>2, <1>3, <1>4, <1>5, <1>6, QuietLosesNone DEF TextInv, IInv

LEMMA RequestOwned ==
  ASSUME TextInv, request.stage = "return", request.op.kind = "key"
  PROVE  request.op.context \in Contexts /\ request.op.id \in Made
  BY DEF TextInv, QueueOwned, Entry, Call, Tok, History, Made

LEMMA LeaveLosesNone ==
  ASSUME TextInv, KeepInv, Withdrawn \/ Returned
  PROVE  KeepInv'
<1>1. /\ request' = NoRequest /\ pump = "off" /\ pump' = pump
      /\ UNCHANGED <<queue, active, blocked, typedIn, made, gone>>
  BY DEF Withdrawn, Returned, Withdraw, Return, Pushing, textVars
<1>2. Served' /\ AsksFresh'
  BY <1>1, NoRequestTyped DEF KeepInv, QueueKept, Served, AsksFresh, NoRequest
<1>3. CASE text' = text /\ \A id : Promised(id) => id \in Here \cup Queued
  <2>1. Here \subseteq Here' /\ Whole(text') /\ PromisesKept
    BY <1>1, <1>3 DEF Here, KeepInv, PromisesKept
  <2> QED
    BY <1>1, <1>2, <2>1, QuietLosesNone DEF TextInv, IInv
<1>4. CASE /\ request.op.kind = "key" /\ Returned
           /\ text' = HostTypes(text, request.op.context, request.op.id)
  <2>1. PICK c : c = request.op.context
    OBVIOUS
  <2>2. PICK id : id = request.op.id
    OBVIOUS
  <2>3. request.stage = "return"
    BY <1>4 DEF Returned, Return
  <2>4. c \in Contexts /\ id \in Made
    BY <1>4, <2>1, <2>2, <2>3, RequestOwned
  <2>5. Fits(text, Made) /\ Whole(text)
    BY DEF TextInv, KeepInv
  <2>6. Whole(HostTypes(text, c, id)) /\ Held(text) \cup {id} \subseteq Held(HostTypes(text, c, id))
    BY <2>4, <2>5, HostTypesHolds
  <2>7. Whole(text') /\ Held(text) \cup {id} \subseteq Held(text')
    BY <1>4, <2>1, <2>2, <2>6
  <2>8. Here \cup {id} \subseteq Here'
    BY <1>1, <2>7 DEF Here
  <2>9. PromisesKept
    BY <2>2, <2>8 DEF Promised, PromisesKept
  <2> QED
    BY <1>1, <1>2, <2>7, <2>8, <2>9, QuietLosesNone DEF TextInv, IInv
<1>5. \/ text' = text /\ \A id : Promised(id) => id \in Here \cup Queued
      \/ /\ request.op.kind = "key" /\ Returned
         /\ text' = HostTypes(text, request.op.context, request.op.id)
  <2>1. CASE Withdrawn
    <3>1. text' = text /\ request.stage = "push"
      BY <2>1 DEF Withdrawn, Withdraw, textVars
    <3> QED
      BY <3>1 DEF Promised
  <2>2. CASE Returned /\ ~(request.op.kind = "key" /\ ~Eaten)
    <3>1. text' = text
      BY <2>2 DEF Returned
    <3>2. ASSUME NEW id, Promised(id) PROVE id \in Queued
      <4>1. Eaten /\ ~request.op.handled /\ id = request.op.id
        BY <2>2, <3>2 DEF Promised
      <4>2. Pending(request.op.id)
        BY <4>1 DEF Eaten
      <4> QED
        BY <4>1, <4>2 DEF Pending, Queued
    <3> QED
      BY <3>1, <3>2
  <2>3. CASE Returned /\ request.op.kind = "key" /\ ~Eaten
    BY <2>3 DEF Returned
  <2> QED
    BY <2>1, <2>2, <2>3
<1> QED
  BY <1>3, <1>4, <1>5

(* The operation that is queued.                                            *)
LEMMA PushLosesNone ==
  ASSUME TextInv, KeepInv, Pushed
  PROVE  KeepInv'
<1>1. /\ request \in RequestType /\ queue \in Seq(OperationType) /\ Len(queue) \in Nat
      /\ made \in Nat /\ DOMAIN queue = 1 .. Len(queue)
  BY TypedState DEF TextInv, IInv
<1>2. PICK base : base = request.op
  OBVIOUS
<1>3. base \in OperationType
  BY <1>1, <1>2 DEF RequestType
<1>4. PICK op : op = [base EXCEPT !.id = made + 1, !.ordered = queue # <<>>]
  OBVIOUS
<1>5. /\ op \in OperationType /\ op.id = made + 1 /\ op.ordered = (queue # <<>>)
      /\ op.kind = base.kind /\ op.handled = base.handled /\ op.context = base.context
  <2>1. PICK first : first = [base EXCEPT !.id = made + 1]
    OBVIOUS
  <2>2. op = [first EXCEPT !.ordered = queue # <<>>]
    BY <1>4, <2>1, Zenon
  <2>3. /\ first \in OperationType /\ first.id = made + 1
        /\ first.kind = base.kind /\ first.handled = base.handled /\ first.context = base.context
    BY <1>1, <1>3, <2>1, SMTT(20) DEF OperationType
  <2>4. PICK b \in BOOLEAN : b = (queue # <<>>)
    OBVIOUS
  <2>5. op = [first EXCEPT !.ordered = b]
    BY <2>2, <2>4
  <2> QED
    BY <2>3, <2>4, <2>5 DEF OperationType
<1>6. /\ queue' = Append(queue, op) /\ request' = [stage |-> "return", op |-> op]
      /\ made' = made + 1 /\ active' = active
      /\ pump' = IF active = None THEN "enter" ELSE "off"
      /\ request.stage \in {"push", "append"}
  BY <1>2, <1>4 DEF Pushed, Push, Pushing
<1>7. text' = text /\ gone' = gone
      /\ typedIn' = Append(typedIn, IF base.kind = "mode" THEN NoContext ELSE base.context)
  BY <1>2 DEF Pushed
<1>8. /\ DOMAIN queue' = 1 .. Len(queue) + 1 /\ queue'[Len(queue) + 1] = op
      /\ \A i \in 1 .. Len(queue) : queue'[i] = queue[i]
  BY <1>1, <1>5, <1>6
<1>9. \A i \in 1 .. Len(queue) : queue[i].ordered \/ queue[i].accepted
  BY <1>1, <1>6, NoneWaits DEF TextInv, IInv
<1>10. Here' = Here /\ Whole(text')
  BY <1>7 DEF Here, KeepInv
<1>11. /\ \A id \in Made : typedIn'[id] = typedIn[id]
       /\ base.kind = "mode" => typedIn'[made + 1] = NoContext
  <2>1. PICK x : x = IF base.kind = "mode" THEN NoContext ELSE base.context
    OBVIOUS
  <2>2. typedIn \in Seq(Fields) /\ Len(typedIn) = made /\ typedIn' = Append(typedIn, x)
    BY <1>7, <2>1 DEF TextInv, History
  <2>3. typedIn'[made + 1] = x /\ \A id \in 1 .. made : typedIn'[id] = typedIn[id]
    BY <1>1, <2>2
  <2> QED
    BY <2>1, <2>3 DEF Made
<1>12. OnlyFirst'
  <2>1. ASSUME NEW i \in DOMAIN queue', ~queue'[i].ordered PROVE i = 1
    <3>1. CASE i = Len(queue) + 1
      <4>1. queue'[i] = op
        BY <1>8, <3>1
      <4>2. queue = <<>>
        BY <1>5, <2>1, <4>1
      <4> QED
        BY <3>1, <4>2
    <3>2. CASE i \in 1 .. Len(queue)
      BY <1>1, <1>8, <2>1, <3>2 DEF KeepInv, QueueKept, OnlyFirst
    <3> QED
      BY <1>1, <1>8, <3>1, <3>2
  <2> QED
    BY <2>1 DEF OnlyFirst
<1>13. CallerWaits'
  <2>1. request'.stage = "return" /\ request'.op = op
    BY <1>6
  <2>2. ASSUME NEW i \in DOMAIN queue', ~queue'[i].ordered, ~queue'[i].accepted
        PROVE  queue'[i] = op
    BY <1>1, <1>8, <1>9, <2>2
  <2> QED
    BY <2>1, <2>2 DEF CallerWaits
<1>14. Served' /\ AsksFresh'
  BY <1>6 DEF Served, AsksFresh
<1>15. ~op.handled
  BY <1>2, <1>5, <1>6 DEF KeepInv, QueueKept, AsksFresh
<1>16. TakenStays'
  <2>1. ASSUME NEW i \in DOMAIN queue', queue'[i].kind = "key", queue'[i].handled
        PROVE  queue'[i].id \in Here'
    <3>1. i \in DOMAIN queue /\ queue'[i] = queue[i]
      BY <1>1, <1>8, <1>15, <2>1
    <3> QED
      BY <1>10, <2>1, <3>1 DEF KeepInv, QueueKept, TakenStays
  <2> QED
    BY <2>1 DEF TakenStays
<1>17. ModesUntyped'
  <2>1. ASSUME NEW i \in DOMAIN queue', queue'[i].kind = "mode"
        PROVE  typedIn'[queue'[i].id] = NoContext
    <3>1. CASE i = Len(queue) + 1
      <4>1. queue'[i] = op
        BY <1>8, <3>1
      <4>2. base.kind = "mode" /\ queue'[i].id = made + 1
        BY <1>5, <2>1, <4>1
      <4> QED
        BY <1>11, <4>2
    <3>2. CASE i \in 1 .. Len(queue)
      <4>1. queue'[i] = queue[i] /\ queue[i].id \in Made
        BY <1>1, <1>8, <3>2 DEF TextInv, IInv, QInv, QueueTypeOK, Made
      <4>2. typedIn[queue[i].id] = NoContext
        BY <1>1, <2>1, <3>2, <4>1 DEF KeepInv, QueueKept, ModesUntyped
      <4> QED
        BY <1>11, <4>1, <4>2
    <3> QED
      BY <1>1, <1>8, <3>1, <3>2
  <2> QED
    BY <2>1 DEF ModesUntyped
<1>18. Kept'
  <2>1. Queued \cup {made + 1} \subseteq Queued'
    <3>1. made + 1 \in Queued'
      BY <1>1, <1>5, <1>8 DEF Queued
    <3>2. \A i \in DOMAIN queue : queue[i].id \in Queued'
      BY <1>1, <1>8 DEF Queued
    <3> QED
      BY <3>1, <3>2 DEF Queued
  <2>2. Made' = Made \cup {made + 1}
    BY <1>1, <1>6 DEF Made
  <2>3. \A id : ~Promised(id)
    BY <1>6 DEF Promised
  <2>4. \A id \in Made : typedIn'[id] # NoContext => id \in Here' \cup Queued'
    BY <1>10, <1>11, <2>1, <2>3 DEF KeepInv, Kept
  <2> QED
    BY <2>1, <2>2, <2>4 DEF Kept
<1>19. QueueKept'
  BY <1>12, <1>13, <1>14, <1>16, <1>17 DEF QueueKept
<1> QED
  BY <1>10, <1>18, <1>19 DEF KeepInv
-----------------------------------------------------------------------------
(* The pump, and a session the host keeps.                                  *)
LEMMA GrantLosesNone ==
  ASSUME TextInv, KeepInv, Grant, NoSession
  PROVE  KeepInv'
<1>1. /\ queue \in Seq(OperationType) /\ queue # <<>> /\ 1 \in DOMAIN queue
      /\ Oldest = queue[1] /\ queue[1] \in OperationType
  BY TypedState, FrontAndRest DEF TextInv, IInv, Grant, Ready, Oldest
<1>2. PICK op : op = [queue[1] EXCEPT !.accepted = TRUE]
  OBVIOUS
<1>3. /\ op.id = queue[1].id /\ op.kind = queue[1].kind /\ op.handled = queue[1].handled
      /\ op.ordered = queue[1].ordered /\ op.accepted = TRUE
  BY <1>1, <1>2 DEF OperationType
<1>4. queue' = [queue EXCEPT ![1] = op]
  BY <1>2, Zenon DEF Grant
<1>5. /\ DOMAIN queue' = DOMAIN queue /\ queue'[1] = op
      /\ \A i \in DOMAIN queue \ {1} : queue'[i] = queue[i]
  BY <1>1, <1>4
<1>6. \A i \in DOMAIN queue' :
        /\ i \in DOMAIN queue /\ queue'[i].id = queue[i].id /\ queue'[i].kind = queue[i].kind
        /\ queue'[i].handled = queue[i].handled /\ queue'[i].ordered = queue[i].ordered
        /\ ~queue'[i].accepted => ~queue[i].accepted
  BY <1>3, <1>5
<1>7. UNCHANGED <<text, typedIn, gone, request, made, pump>> /\ pump = "loop"
  BY DEF Grant, NoSession, Ready
<1>8. Whole(text') /\ Here' = Here /\ Made' = Made
  BY <1>7 DEF KeepInv, Here, Made
<1>9. Queued' = Queued
  BY <1>5, <1>6 DEF Queued
<1>10. OnlyFirst' /\ CallerWaits'
  BY <1>6, <1>7 DEF KeepInv, QueueKept, OnlyFirst, CallerWaits
<1>11. Served' /\ AsksFresh'
  BY <1>7 DEF KeepInv, QueueKept, Served, AsksFresh
<1>12. TakenStays'
  BY <1>6, <1>8 DEF KeepInv, QueueKept, TakenStays
<1>13. ModesUntyped'
  BY <1>6, <1>7 DEF KeepInv, QueueKept, ModesUntyped
<1>14. Kept'
  BY <1>7, <1>8, <1>9 DEF KeepInv, Kept, Promised
<1>15. QueueKept'
  BY <1>10, <1>11, <1>12, <1>13 DEF QueueKept
<1> QED
  BY <1>8, <1>14, <1>15 DEF KeepInv

LEMMA PumpLosesNone ==
  ASSUME TextInv, KeepInv, Pumped
  PROVE  KeepInv'
<1>1. CASE PumpEnter \/ PumpStop
  <2>1. UNCHANGED <<queue, active, blocked, text, typedIn, made, gone, request>>
    BY <1>1 DEF Pumped, NoSession, PumpEnter, PumpStop
  <2>2. pump' = "off" => active # None \/ blocked \/ queue = <<>>
    BY <1>1 DEF PumpEnter, PumpStop
  <2>3. Served' /\ AsksFresh'
    BY <2>1, <2>2 DEF KeepInv, QueueKept, Served, AsksFresh
  <2>4. Here \subseteq Here' /\ Whole(text') /\ PromisesKept
    BY <2>1 DEF Here, KeepInv, PromisesKept, Promised
  <2> QED
    BY <2>1, <2>3, <2>4, QuietLosesNone DEF TextInv, IInv
<1>2. CASE Grant
  BY <1>2, GrantLosesNone DEF Pumped
<1> QED
  BY <1>1, <1>2 DEF Pumped

(* Whatever drops the queue counts what it held.                            *)
LEMMA DropLosesNone ==
  ASSUME TextInv, KeepInv, queue' = <<>>,
         text' = Cancelled(text) \/ text' = Abandon(Cancelled(text)),
         Discard(text), typedIn' = typedIn, made' = made,
         \/ request' = request
         \/ request.stage = "push" /\ request' = [request EXCEPT !.stage = "append"]
         \/ queue # <<>> /\ request' = Answer(Oldest, "cancelled")
  PROVE  KeepInv'
<1>1. request \in RequestType /\ queue \in Seq(OperationType)
  BY TypedState DEF TextInv, IInv
<1>2. Bare(text', text)
  BY CancelledHolds DEF TextInv
<1>3. Whole(text') /\ Held(text') = Visible(text)
  BY <1>2 DEF Bare
<1>4. Here \cup Queued \subseteq Here'
  BY <1>3 DEF Here, Held, Discard
<1>5. /\ request'.stage = request.stage \/ request.stage = "push"
      /\ request'.stage \in {"push", "append"} => request'.op = request.op
  <2>1. CASE request' = request
    BY <2>1
  <2>2. CASE request.stage = "push" /\ request' = [request EXCEPT !.stage = "append"]
    BY <1>1, <2>2 DEF RequestType
  <2>3. CASE request' = Answer(Oldest, "cancelled")
    BY <1>1, <2>3 DEF Answer, RequestType
  <2> QED
    BY <2>1, <2>2, <2>3
<1>6. AsksFresh'
  BY <1>5 DEF KeepInv, QueueKept, AsksFresh
<1>7. ASSUME NEW id, Promised(id) PROVE Promised(id)' \/ id \in Queued
  <2>1. CASE request' = request
    BY <1>7, <2>1 DEF Promised
  <2>2. CASE queue # <<>> /\ request' = Answer(Oldest, "cancelled")
    <3>1. CASE id = Oldest.id
      <4>1. 1 \in DOMAIN queue /\ Oldest = queue[1]
        BY <1>1, <2>2, FrontAndRest DEF Oldest
      <4> QED
        BY <3>1, <4>1 DEF Queued
    <3>2. CASE id # Oldest.id
      <4>1. request' = request
        BY <1>7, <2>2, <3>2 DEF Answer, Promised
      <4> QED
        BY <1>7, <4>1 DEF Promised
    <3> QED
      BY <3>1, <3>2
  <2> QED
    BY <1>7, <2>1, <2>2 DEF Promised
<1>8. Kept'
  <2>1. Made' = Made
    BY DEF Made
  <2>2. \A id \in Made : typedIn[id] # NoContext => id \in Here' \/ Promised(id)'
    BY <1>4, <1>7 DEF KeepInv, Kept
  <2> QED
    BY <2>1, <2>2 DEF Kept
<1>9. DOMAIN queue' = {}
  OBVIOUS
<1>10. QueueKept'
  BY <1>6, <1>9 DEF QueueKept, OnlyFirst, CallerWaits, Served, TakenStays, ModesUntyped
<1> QED
  BY <1>3, <1>8, <1>10 DEF KeepInv

LEMMA SupersedeLosesNone ==
  ASSUME TextInv, KeepInv, Superseded
  PROVE  KeepInv'
<1>1. /\ queue' = <<>> /\ request' = [request EXCEPT !.stage = "append"]
      /\ request.stage = "push" /\ text' = Abandon(Cancelled(text))
      /\ Discard(text) /\ typedIn' = typedIn /\ made' = made
  BY DEF Superseded, Supersede, CancelInput
<1> QED
  BY <1>1, DropLosesNone

LEMMA InterruptLosesNone ==
  ASSUME TextInv, KeepInv, Interrupted
  PROVE  KeepInv'
<1>1. text' = Cancelled(text) /\ Discard(text) /\ typedIn' = typedIn /\ queue # <<>>
  BY DEF Interrupted
<1>2. queue' = <<>> /\ made' = made
      /\ (request' = request \/ request' = Answer(Oldest, "cancelled"))
  <2>1. CASE RunNow(Oldest, "cancelled") \/ RunSession(Oldest, "cancelled")
    BY <2>1 DEF RunNow, RunSession, CompleteInput, Blocks, CancelInput
  <2>2. CASE DropSession
    BY <2>2 DEF DropSession, CancelInput
  <2> QED
    BY <2>1, <2>2 DEF Interrupted
<1> QED
  BY <1>1, <1>2, DropLosesNone

LEMMA CancelLosesNone ==
  ASSUME TextInv, KeepInv, Cancel, Discard(text), typedIn' = typedIn,
         text' = Cancelled(text) \/ text' = Abandon(Cancelled(text))
  PROVE  KeepInv'
<1>1. queue' = <<>> /\ made' = made /\ request' = request
  BY DEF Cancel, CancelInput
<1> QED
  BY <1>1, DropLosesNone
-----------------------------------------------------------------------------
(* The front operation is done, or failed: it stays and blocks the queue,   *)
(* or it leaves.  What its run must have seen to.                           *)
SeenTo(op, outcome) ==
  /\ outcome \in {"done", "failed"}
  /\ op.kind = "key" /\ op.handled => op.id \in Here'
  /\ op.kind = "symbol" => op.id \in Here'
  /\ op.kind = "key" /\ ~op.handled /\ outcome = "done" => ~op.ordered /\ ~op.accepted

(* A completed operation stays at the front, or leaves the queue.           *)
LEMMA CompletionShapes ==
  ASSUME NEW op, NEW outcome \in {"done", "failed"}, CompleteInput(op, outcome)
  PROVE  \/ queue' = <<op>> \o Tail(queue) /\ blocked' = TRUE /\ Blocks(op, outcome)
         \/ queue' = Tail(queue) /\ blocked' = blocked /\ ~Blocks(op, outcome)
  BY DEF CompleteInput

LEMMA BlockedLosesNone ==
  ASSUME TextInv, KeepInv, queue # <<>>, NEW op \in OperationType, RanFrom(Oldest, op),
         NEW outcome, SeenTo(op, outcome), Blocks(op, outcome),
         queue' = <<op>> \o Tail(queue), blocked' = TRUE,
         request' = Answer(op, outcome) \/ request' = request,
         typedIn' = typedIn, made' = made, Whole(text'), Here \subseteq Here'
  PROVE  KeepInv'
<1>1. /\ queue \in Seq(OperationType) /\ Len(queue) \in Nat \ {0} /\ DOMAIN queue = 1 .. Len(queue)
      /\ Oldest = queue[1] /\ request \in RequestType /\ Oldest \in OperationType
  BY TypedState, FrontAndRest DEF TextInv, IInv, Oldest
<1>2. /\ queue' \in Seq(OperationType) /\ Len(queue') = Len(queue) /\ queue'[1] = op
      /\ \A i \in 2 .. Len(queue) : queue'[i] = queue[i]
  BY <1>1, PutBack
<1>3. DOMAIN queue' = DOMAIN queue
  BY <1>1, <1>2
<1>4. op.id = queue[1].id /\ op.kind = queue[1].kind /\ op.ordered = queue[1].ordered
  BY <1>1, RunKeepsIdentity DEF RanFrom
<1>5. op.kind = "key" /\ (op.accepted \/ op.ordered)
  BY DEF Blocks
<1>6. \A i \in DOMAIN queue' : i = 1 \/ (i \in 2 .. Len(queue) /\ queue'[i] = queue[i])
  BY <1>1, <1>2, <1>3
<1>7. \A i \in DOMAIN queue' : i \in DOMAIN queue /\ queue'[i].id = queue[i].id
  BY <1>2, <1>3, <1>4, <1>6
<1>8. OnlyFirst'
  BY <1>3, <1>6 DEF KeepInv, QueueKept, OnlyFirst
<1>9. CallerWaits'
  <2>1. \A i \in DOMAIN queue' : queue'[i].ordered \/ queue'[i].accepted
    <3> TAKE i \in DOMAIN queue'
    <3>1. CASE i = 1
      BY <1>2, <1>5, <3>1
    <3>2. CASE i # 1
      <4>1. i \in DOMAIN queue /\ queue'[i] = queue[i]
        BY <1>6, <1>7, <3>2
      <4> QED
        BY <3>2, <4>1 DEF KeepInv, QueueKept, OnlyFirst
    <3> QED
      BY <3>1, <3>2
  <2> QED
    BY <2>1 DEF CallerWaits
<1>10. Served'
  BY DEF Served
<1>11. TakenStays'
  <2>1. ASSUME NEW i \in DOMAIN queue', queue'[i].kind = "key", queue'[i].handled
        PROVE  queue'[i].id \in Here'
    <3>1. CASE i = 1
      BY <1>2, <2>1, <3>1 DEF SeenTo
    <3>2. CASE i # 1
      <4>1. i \in DOMAIN queue /\ queue'[i] = queue[i]
        BY <1>6, <1>7, <3>2
      <4> QED
        BY <2>1, <4>1 DEF KeepInv, QueueKept, TakenStays
    <3> QED
      BY <3>1, <3>2
  <2> QED
    BY <2>1 DEF TakenStays
<1>12. ModesUntyped'
  <2>1. ASSUME NEW i \in DOMAIN queue', queue'[i].kind = "mode"
        PROVE  typedIn[queue'[i].id] = NoContext
    <3>1. i \in DOMAIN queue /\ queue[i].kind = "mode" /\ queue'[i].id = queue[i].id
      BY <1>2, <1>4, <1>6, <1>7, <2>1
    <3> QED
      BY <3>1 DEF KeepInv, QueueKept, ModesUntyped
  <2> QED
    BY <2>1 DEF ModesUntyped
<1>13. AsksFresh' /\ \A id : Promised(id) => Promised(id)' \/ id = op.id
  <2>1. CASE request' = request
    BY <2>1 DEF KeepInv, QueueKept, AsksFresh, Promised
  <2>2. CASE request' = Answer(op, outcome)
    <3>1. request'.stage = request.stage
          /\ (request.stage # "return" \/ request.op.id # op.id => request' = request)
      BY <1>1, <2>2 DEF Answer, RequestType
    <3> QED
      BY <3>1 DEF KeepInv, QueueKept, AsksFresh, Promised
  <2> QED
    BY <2>1, <2>2
<1>14. Queued' = Queued /\ op.id \in Queued
  <2>1. op.id \in Queued
    <3>1. 1 \in DOMAIN queue /\ op.id = queue[1].id
      BY <1>1, <1>4
    <3> QED
      BY <3>1 DEF Queued
  <2>2. \A x \in Queued : x \in Queued'
    BY <1>3, <1>7 DEF Queued
  <2>3. \A x \in Queued' : x \in Queued
    BY <1>7 DEF Queued
  <2> QED
    BY <2>1, <2>2, <2>3
<1>15. Kept'
  <2>1. Made' = Made
    BY DEF Made
  <2>2. \A id \in Made : typedIn[id] # NoContext => id \in Here' \cup Queued' \/ Promised(id)'
    BY <1>13, <1>14 DEF KeepInv, Kept
  <2> QED
    BY <2>1, <2>2 DEF Kept
<1>16. QueueKept'
  BY <1>8, <1>9, <1>10, <1>11, <1>12, <1>13 DEF QueueKept
<1> QED
  BY <1>15, <1>16 DEF KeepInv

LEMMA LeftLosesNone ==
  ASSUME TextInv, KeepInv, queue # <<>>, NEW op \in OperationType, RanFrom(Oldest, op),
         NEW outcome, SeenTo(op, outcome), ~Blocks(op, outcome),
         queue' = Tail(queue), pump' # "off",
         request' = Answer(op, outcome) \/ (request' = request /\ request.stage # "return"),
         typedIn' = typedIn, made' = made, Whole(text'), Here \subseteq Here'
  PROVE  KeepInv'
<1>1. /\ queue \in Seq(OperationType) /\ Len(queue) \in Nat \ {0} /\ DOMAIN queue = 1 .. Len(queue)
      /\ Oldest = queue[1] /\ request \in RequestType /\ Oldest \in OperationType
      /\ Tail(queue) \in Seq(OperationType) /\ Len(Tail(queue)) = Len(queue) - 1
      /\ \A i \in 1 .. Len(queue) - 1 : Tail(queue)[i] = queue[i + 1]
  BY TypedState, FrontAndRest DEF TextInv, IInv, Oldest
<1>2. \A i \in DOMAIN queue' : i + 1 \in DOMAIN queue /\ queue'[i] = queue[i + 1] /\ i + 1 # 1
  BY <1>1
<1>3. /\ op.id = queue[1].id /\ op.kind = queue[1].kind
      /\ op.ordered = queue[1].ordered /\ op.accepted = queue[1].accepted
  BY <1>1, RunKeepsIdentity DEF RanFrom
<1>4. \A i \in DOMAIN queue' : queue'[i].ordered
  BY <1>2 DEF KeepInv, QueueKept, OnlyFirst
<1>5. OnlyFirst' /\ CallerWaits' /\ Served'
  BY <1>4 DEF OnlyFirst, CallerWaits, Served
<1>6. TakenStays'
  BY <1>2 DEF KeepInv, QueueKept, TakenStays
<1>7. ModesUntyped'
  BY <1>2 DEF KeepInv, QueueKept, ModesUntyped
<1>8. AsksFresh' /\ \A id : Promised(id) => Promised(id)' \/ id = op.id
  <2>1. CASE request' = request
    BY <2>1 DEF KeepInv, QueueKept, AsksFresh, Promised
  <2>2. CASE request' = Answer(op, outcome)
    <3>1. request'.stage = request.stage
          /\ (request.stage # "return" \/ request.op.id # op.id => request' = request)
      BY <1>1, <2>2 DEF Answer, RequestType
    <3> QED
      BY <3>1 DEF KeepInv, QueueKept, AsksFresh, Promised
  <2> QED
    BY <2>1, <2>2
<1>9. Queued \subseteq Queued' \cup {op.id}
  <2>1. ASSUME NEW i \in DOMAIN queue PROVE queue[i].id \in Queued' \cup {op.id}
    <3>1. CASE i = 1
      BY <1>3, <3>1
    <3>2. CASE i # 1
      <4>1. PICK j : j = i - 1
        OBVIOUS
      <4>2. j \in DOMAIN queue' /\ queue'[j] = queue[i]
        BY <1>1, <3>2, <4>1
      <4> QED
        BY <4>2 DEF Queued
    <3> QED
      BY <3>1, <3>2
  <2> QED
    BY <2>1 DEF Queued
<1>10. typedIn[op.id] # NoContext => op.id \in Here' \/ Promised(op.id)'
  <2>1. op.kind # "mode" \/ typedIn[op.id] = NoContext
    BY <1>1, <1>3 DEF KeepInv, QueueKept, ModesUntyped
  <2>2. CASE op.kind = "key" /\ ~op.handled
    <3>1. ~op.ordered /\ ~op.accepted
      BY <2>2 DEF SeenTo, Blocks
    <3>2. request.stage = "return" /\ request.op.id = op.id /\ request.op.kind = "key"
      <4>1. 1 \in DOMAIN queue /\ ~queue[1].ordered /\ ~queue[1].accepted
        BY <1>1, <1>3, <3>1
      <4>2. request.stage = "return" /\ request.op.id = queue[1].id
            /\ request.op.kind = queue[1].kind
        BY <4>1 DEF KeepInv, QueueKept, CallerWaits
      <4> QED
        BY <1>3, <2>2, <4>2
    <3>3. request' = [request EXCEPT !.op.handled = op.handled]
      BY <2>2, <3>2 DEF Answer
    <3>4. PICK base : base = request.op
      OBVIOUS
    <3>5. base \in OperationType
      BY <1>1, <3>4 DEF RequestType
    <3>6. PICK next : next = [base EXCEPT !.handled = op.handled]
      OBVIOUS
    <3>7. next.id = base.id /\ next.kind = base.kind /\ next.handled = op.handled
      BY <3>5, <3>6 DEF OperationType
    <3>8. request' = [request EXCEPT !.op = next]
      BY <3>3, <3>4, <3>6, Zenon
    <3>9. request'.stage = "return" /\ request'.op = next
      BY <1>1, <3>2, <3>8 DEF RequestType
    <3> QED
      BY <2>2, <3>2, <3>4, <3>7, <3>9 DEF Promised
  <2>3. CASE op.kind = "symbol" \/ (op.kind = "key" /\ op.handled)
    BY <2>3 DEF SeenTo
  <2>4. op.kind \in InputKinds
    BY <1>1, <1>3, FrontOwned
  <2> QED
    BY <2>1, <2>2, <2>3, <2>4 DEF InputKinds
<1>11. Kept'
  <2>1. Made' = Made
    BY DEF Made
  <2>2. \A id \in Made : typedIn[id] # NoContext => id \in Here' \cup Queued' \/ Promised(id)'
    BY <1>8, <1>9, <1>10 DEF KeepInv, Kept
  <2> QED
    BY <2>1, <2>2 DEF Kept
<1>12. QueueKept'
  BY <1>5, <1>6, <1>7, <1>8 DEF QueueKept
<1> QED
  BY <1>11, <1>12 DEF KeepInv
-----------------------------------------------------------------------------
(* What leaves the queue without its text is counted.                       *)
LEMMA CompletionLosesNone ==
  ASSUME TextInv, KeepInv, queue # <<>>, NEW op \in OperationType, RanFrom(Oldest, op),
         NEW outcome, SeenTo(op, outcome), CompleteInput(op, outcome),
         request' = Answer(op, outcome) \/ (request' = request /\ request.stage # "return"),
         pump' = "off" => blocked' = TRUE, blocked = FALSE,
         typedIn' = typedIn, made' = made, Whole(text'), Here \subseteq Here'
  PROVE  KeepInv'
<1>1. CASE queue' = <<op>> \o Tail(queue) /\ blocked' = TRUE /\ Blocks(op, outcome)
  BY <1>1, BlockedLosesNone
<1>2. CASE queue' = Tail(queue) /\ blocked' = blocked /\ ~Blocks(op, outcome)
  BY <1>2, LeftLosesNone
<1> QED
  BY <1>1, <1>2, CompletionShapes DEF SeenTo

LEMMA DenyLosesNone ==
  ASSUME TextInv, KeepInv, Denied
  PROVE  KeepInv'
<1>1. QInv /\ queue # <<>> /\ blocked \in BOOLEAN
  BY TypedState DEF TextInv, IInv, Denied, Deny, Ready
<1>2. PICK op : op = Oldest
  OBVIOUS
<1>3. PICK failed : failed = "failed"
  OBVIOUS
<1>4. /\ CompleteInput(op, failed) /\ request' = Answer(op, failed)
      /\ pump' = "loop" /\ blocked = FALSE /\ made' = made
      /\ text' = text /\ typedIn' = typedIn /\ gone' = gone \cup Lost(op, text)
  BY <1>1, <1>2, <1>3 DEF Denied, Deny, Ready
<1>5. op \in OperationType /\ RanFrom(Oldest, op) /\ op = queue[1] /\ 1 \in DOMAIN queue
  BY <1>1, <1>2, OldestTyped, Unrun, TypedState, FrontAndRest DEF Oldest
<1>6. Whole(text') /\ Here \subseteq Here'
  BY <1>4 DEF KeepInv, Here
<1>7. SeenTo(op, failed)
  <2>1. op.kind = "key" /\ op.handled => op.id \in Here
    BY <1>5 DEF KeepInv, QueueKept, TakenStays
  <2>2. op.kind = "symbol" => op.id \in Here'
    BY <1>4 DEF Lost, Here, Held
  <2> QED
    BY <1>3, <1>6, <2>1, <2>2 DEF SeenTo
<1> QED
  BY <1>1, <1>4, <1>5, <1>6, <1>7, CompletionLosesNone

LEMMA EditLosesNone ==
  ASSUME TextInv, Owning, ShowInv, KeepInv, EditSession
  PROVE  KeepInv'
<1> PICK answer \in Answerable(text, Oldest.context),
         fault \in (Faults \cap SessionFaults) \cup {"none"} :
      Effect(Oldest, RunInput(text, Oldest, chinese, answer, fault), answer)
  BY DEF EditSession
<1>1. PICK op : op = Oldest
  OBVIOUS
<1>2. PICK run : run = RunInput(text, op, chinese, answer, fault)
  OBVIOUS
<1>3. QInv /\ queue # <<>> /\ blocked \in BOOLEAN
  BY TypedState DEF TextInv, IInv, EditSession
<1>4. /\ op \in OperationType /\ op.id \in Made
      /\ op.context \in Contexts /\ op.kind \in {"key", "symbol", "mode"}
  BY <1>1, <1>3, FrontOwned DEF InputKinds
<1>5. op = queue[1] /\ 1 \in DOMAIN queue
  BY <1>1, <1>3, TypedState, FrontAndRest DEF Oldest
<1>6. Fits(text, Made) /\ Showing(text) /\ Whole(text) /\ Beside(op, text)
      /\ chinese \in BOOLEAN /\ (chinese \/ text.engine = <<>>)
  BY <1>5 DEF TextInv, History, ShowInv, AllBeside, Owning, KeepInv
<1>7. answer \in Answerable(text, op.context)
  BY <1>1
<1>8. RunHolds(RunInput(text, op, chinese, answer, fault), text, op, answer)
  BY <1>4, <1>6, <1>7, RunInputHolds
<1>9. PICK lost : lost = Erases(op, run.op, answer, text.engine)
  OBVIOUS
<1>10. /\ KeyHolds(run, text, op, lost)
       /\ run.ok /\ op.kind = "key" /\ ~run.op.handled => ~op.ordered /\ ~op.accepted
       /\ op.kind # "key" => run.op = op
  BY <1>2, <1>8, <1>9 DEF RunHolds
<1>11. Effect(op, run, answer)
  BY <1>1, <1>2
<1>12. PICK outcome : outcome = IF run.ok THEN "done" ELSE "failed"
  OBVIOUS
<1>13. /\ text' = run.text /\ Completes(run, outcome) /\ typedIn' = typedIn
       /\ gone' = gone \cup Erased(op, run, answer) \cup Lost(op, run.text)
  BY <1>11, <1>12 DEF Effect
<1>14. PICK ran : ran = run.op
  OBVIOUS
<1>15. /\ ran \in OperationType /\ RanFrom(Oldest, ran) /\ ran.id = op.id /\ ran.kind = op.kind
       /\ ran.ordered = op.ordered /\ ran.accepted = op.accepted
  <2>1. answer \in Answers
    BY DEF Answerable
  <2>2. RanFrom(op, ran)
    BY <1>2, <1>4, <1>14, <2>1, RunLeavesOperation
  <2> QED
    BY <1>1, <1>4, <2>2, RunKeepsIdentity DEF RanFrom
<1>16. CompleteInput(ran, outcome) /\ made' = made
  BY <1>13, <1>14 DEF Completes, RunDirect, RunNow, RunSession
<1>17. blocked = FALSE
  BY <1>3, <1>13 DEF Completes, RunDirect, RunNow, RunSession, Ready, QInv, BlockedByTakenKey
<1>18. pump' = "off" => blocked' = TRUE
  BY <1>12, <1>13, <1>14 DEF Completes, RunDirect, RunNow, RunSession, Ready, CompleteInput
<1>19. request' = Answer(ran, outcome) \/ (request' = request /\ request.stage # "return")
  BY <1>13, <1>14 DEF Completes, RunDirect, RunNow, RunSession, Idle
<1>20. lost \subseteq Erased(op, run, answer) \cup Visible(run.text)
  <2>1. CASE answer = "clear" /\ ran.processed /\ ~op.processed /\ op.kind = "key"
    BY <1>9, <1>14, <2>1 DEF Erases, Erased
  <2>2. CASE ~(answer = "clear" /\ ran.processed /\ ~op.processed)
    BY <1>9, <1>14, <2>2 DEF Erases
  <2>3. CASE op.kind # "key"
    BY <1>9, <1>10, <2>3 DEF Erases
  <2> QED
    BY <2>1, <2>2, <2>3
<1>21. Held(text) \subseteq Here' /\ gone \subseteq gone' /\ lost \subseteq Here'
  <2>1. Held(run.text) \cup gone' = Here'
    BY <1>13 DEF Here
  <2>2. lost \subseteq Here'
    BY <1>13, <1>20, <2>1 DEF Held
  <2> QED
    BY <1>10, <1>13, <2>1, <2>2 DEF KeyHolds
<1>22. Whole(text') /\ Here \subseteq Here'
  BY <1>10, <1>13, <1>21 DEF KeyHolds, Here
<1>23. SeenTo(ran, outcome)
  <2>1. op.handled /\ op.kind = "key" => op.id \in Here
    BY <1>5 DEF KeepInv, QueueKept, TakenStays
  <2>2. Held(run.text) \subseteq Here'
    BY <1>13 DEF Here
  <2>3. ran.kind = "key" /\ ran.handled => ran.id \in Here'
    BY <1>10, <1>14, <1>15, <1>21, <1>22, <2>1, <2>2 DEF KeyHolds
  <2>4. ran.kind = "symbol" => ran.id \in Here'
    BY <1>13, <1>15, <2>2 DEF Lost, Held, Here
  <2> QED
    BY <1>10, <1>12, <1>14, <1>15, <2>3, <2>4 DEF SeenTo
<1> QED
  BY <1>3, <1>15, <1>16, <1>17, <1>18, <1>19, <1>13, <1>22, <1>23, CompletionLosesNone
-----------------------------------------------------------------------------
(* Every step of the service and of its host.                               *)
LEMMA KeepStep ==
  ASSUME TextInv, Owning, ShowInv, KeepInv, [Next]_vars
  PROVE  KeepInv'
<1>1. CASE UNCHANGED vars \/ Stale \/ UNCHANGED <<queueVars, text, gone, typedIn>>
  <2>1. UNCHANGED <<queue, active, blocked, pump, request, made, text, gone, typedIn>>
    BY <1>1 DEF vars, textVars, queueVars, Stale, StaleSession, NoSession
  <2>2. Served' /\ AsksFresh'
    BY <2>1 DEF KeepInv, QueueKept, Served, AsksFresh
  <2>3. Here \subseteq Here' /\ Whole(text') /\ PromisesKept
    BY <2>1 DEF KeepInv, Here, PromisesKept, Promised
  <2> QED
    BY <2>1, <2>2, <2>3, QuietLosesNone DEF TextInv, IInv
<1>2. CASE KeyDown \/ Symbol \/ Toggle
  BY <1>2, RequestLosesNone
<1>3. CASE Withdrawn \/ Returned
  BY <1>3, LeaveLosesNone
<1>4. CASE Pushed
  BY <1>4, PushLosesNone
<1>5. CASE Pumped
  BY <1>5, PumpLosesNone
<1>6. CASE Denied
  BY <1>6, DenyLosesNone
<1>7. CASE EditSession
  BY <1>7, EditLosesNone
<1>8. CASE Interrupted
  BY <1>8, InterruptLosesNone
<1>9. CASE Superseded
  BY <1>9, SupersedeLosesNone
<1>10. CASE CaretMoved \/ Deactivated
  BY <1>10, CancelLosesNone DEF CaretMoved, Deactivated
<1>11. CASE \E c \in Contexts : FocusMoves(c)
  <2>1. typedIn' = typedIn /\ (UNCHANGED <<queueVars, text, gone>>
          \/ (Cancel /\ text' = Abandon(Cancelled(text)) /\ Discard(text)))
    BY <1>11 DEF FocusMoves
  <2> QED
    BY <1>1, <2>1, CancelLosesNone
<1> QED
  BY <1>1, <1>2, <1>3, <1>4, <1>5, <1>6, <1>7, <1>8, <1>9, <1>10, <1>11 DEF Next

LEMMA KeepInit ==
  ASSUME Init
  PROVE  KeepInv
<1>1. queue = <<>> /\ request = NoRequest /\ made = 0 /\ DOMAIN queue = {}
  BY DEF Init, QueueInit
<1>2. PICK doc : doc = [c \in Contexts |-> <<>>]
  OBVIOUS
<1>3. PICK caret : caret = [c \in Contexts |-> 0]
  OBVIOUS
<1>4. text = TextOf(doc, caret, NoComposition, <<>>, NoResult)
  BY <1>2, <1>3 DEF Init, TextOf
<1>5. text.retained = NoResult
  BY <1>4, FieldsOf
<1>6. Whole(text)
  BY <1>5, NothingTyped, EmptyRange DEF Whole, Holding, Retaining, Waiting
<1>7. QueueKept
  BY <1>1, NoRequestTyped
     DEF QueueKept, OnlyFirst, CallerWaits, Served, TakenStays, ModesUntyped, AsksFresh
<1>8. Kept
  BY <1>1 DEF Kept, Made
<1> QED
  BY <1>6, <1>7, <1>8 DEF KeepInv

LEMMA KeptIsNotLost ==
  ASSUME KeepInv
  PROVE  NoKeyIsLost
  BY DEF KeepInv, Kept, NoKeyIsLost, Idle, Promised, Made, Here, Held

(* Every key and symbol that was ever taken is, between two calls, visible  *)
(* in a field, queued, retained for the next input, or among what a         *)
(* cancellation dropped, an editing key erased or the engine's switch       *)
(* refused: no order of answers, refused half-writes, retries, returns to   *)
(* the host and changes of focus makes one vanish, unless the host breaks   *)
(* its contract in the way named above.                                     *)
THEOREM NoKeyLost ==
  "lateCancel" \notin Faults /\ "stray" \notin Faults => (Spec => []NoKeyIsLost)
<1> SUFFICES ASSUME Contractual
             PROVE  Spec => []NoKeyIsLost
  BY DEF Contractual
<1>1. Init => TextInv /\ Owning /\ ShowInv /\ KeepInv
  BY TextInit, ShowInit, KeepInit
<1>2. (TextInv /\ Owning /\ ShowInv /\ KeepInv) /\ [Next]_vars
        => (TextInv /\ Owning /\ ShowInv /\ KeepInv)'
  BY TextStep, ShowStep, KeepStep DEF CancelsInTime, Contractual
<1>3. KeepInv => NoKeyIsLost
  BY KeptIsNotLost
<1> QED
  BY <1>1, <1>2, <1>3, PTL DEF Spec
=============================================================================
