---------------------------- MODULE TextService ----------------------------
(***************************************************************************)
(* The text side of the Windows text service: what each queued operation   *)
(* does to the composition, to the text of the field and to the engine,    *)
(* step by step as the host accepts or refuses it, and what is retained    *)
(* for the next input when the host refuses half of it.                    *)
(*                                                                         *)
(* A key or a symbol is its token: the text of a field is the sequence of  *)
(* the tokens whose characters it shows.  The engine is external: it may   *)
(* answer a key in any of the ways EngineResult can carry.                 *)
(***************************************************************************)
EXTENDS InputQueue, FiniteSets

CONSTANTS Answers,  \* the engine answers of this instance
          Faults    \* the host calls that may fail in this instance

AllAnswers == {"compose", "commit", "numpad", "shift", "clear", "pass", "unwanted", "flush"}
Declining == {"pass", "unwanted"}    \* the key is the host's
Unstarted == {"numpad", "unwanted"}  \* no composition is started for the key
SessionFaults == {"start", "write", "caret", "end", "view", "select", "publish"}
AllFaults == SessionFaults \cup {"lateCancel", "untold", "stray"}

ASSUME AnswersAssumption == Answers \subseteq AllAnswers
ASSUME FaultsAssumption == Faults \subseteq AllFaults

VARIABLES
  text,     \* the fields, the composition, the engine and the retained result
  chinese,  \* chineseMode_
  focus,    \* the field that has the focus
  typedIn,  \* history: the field of each token
  passed,   \* history: keys the service left to the host
  gone      \* history: input cancelled, erased by an editing key, symbols refused

textVars == <<text, chinese, focus, typedIn, passed, gone>>
vars == <<queueVars, textVars>>

NoComposition == [context |-> NoContext, from |-> 0, len |-> 0]
NoResult == [context |-> NoContext, commit |-> <<>>, view |-> <<>>, written |-> FALSE,
             caretSet |-> FALSE, needsEnd |-> FALSE, at |-> 0]

Ok(t) == [ok |-> TRUE, text |-> t]
Failed(t) == [ok |-> FALSE, text |-> t]

Composing(t, c) == t.comp.context = c
Retaining(t) == t.retained.context # NoContext

(* A range of a field replaced: ITfRange::SetText, InsertTextAtSelection.   *)
(* The host moves the caret no further than the edit forces it to.          *)
Replaced(s, from, len, new) ==
  SubSeq(s, 1, from) \o new \o SubSeq(s, from + len + 1, Len(s))
CaretAfter(caret, from, len, new) ==
  IF caret > from /\ caret >= from + len THEN caret - len + Len(new)
  ELSE IF caret > from THEN from + Len(new) ELSE caret
Replace(t, c, from, len, new) ==
  [t EXCEPT !.doc[c] = Replaced(@, from, len, new),
            !.caret[c] = CaretAfter(@, from, len, new)]

(* The host types a character the service left to it. *)
HostTypes(t, c, id) ==
  LET p == t.caret[c] IN
  [t EXCEPT !.doc[c] = Replaced(@, p, 0, <<id>>),
            !.caret[c] = p + 1,
            !.comp.from = @ + (IF Composing(t, c) /\ p <= @ THEN 1 ELSE 0),
            !.comp.len = @ + (IF /\ Composing(t, c) /\ p > t.comp.from
                                 /\ p < t.comp.from + @ THEN 1 ELSE 0),
            !.retained.at = @ + (IF t.retained.context = c /\ p < @ THEN 1 ELSE 0)]
-----------------------------------------------------------------------------
(* Every step takes the result of the one before and passes a failure on.   *)

(* ensureComposition: an empty composition at the caret. *)
Start(r, c, fault) ==
  IF ~r.ok \/ Composing(r.text, c) THEN r
  ELSE IF r.text.comp.context # NoContext \/ fault = "start" THEN Failed(r.text)
  ELSE Ok([r.text EXCEPT !.comp = [context |-> c, from |-> r.text.caret[c], len |-> 0]])

(* endComposition: the text of the range stays unless it is cleared. *)
ClearRange(t, c) ==
  [Replace(t, c, t.comp.from, t.comp.len, <<>>) EXCEPT !.comp.len = 0]
EndRange(t, fault) ==
  IF fault = "end" THEN Failed(t) ELSE Ok([t EXCEPT !.comp = NoComposition])
End(r, c, clear, fault) ==
  IF ~r.ok \/ ~Composing(r.text, c) THEN r
  ELSE EndRange(IF clear THEN ClearRange(r.text, c) ELSE r.text, fault)

(* replaceCompositionText, then the caret behind it. *)
Shown(t, c, view) ==
  [Replace(t, c, t.comp.from, t.comp.len, view) EXCEPT !.comp.len = Len(view)]
CaretBehind(t, c, fault) ==
  IF fault = "select" THEN Failed(t)
  ELSE Ok([t EXCEPT !.caret[c] = t.comp.from + t.comp.len])
ShowView(r, c, fault) ==
  IF ~r.ok THEN r
  ELSE IF fault = "view" THEN Failed(r.text)
  ELSE CaretBehind(Shown(r.text, c, r.text.retained.view), c, fault)

(* Mutant of Written: the write is not remembered once it was made.         *)
WrittenUnmarked(t, c, from, len, inside) ==
  [Replace(t, c, from, len, t.retained.commit) EXCEPT
     !.comp.len = IF inside THEN Len(t.retained.commit) ELSE @,
     !.retained.at = from + Len(t.retained.commit)]

(* The stages of retryInputResult; each remembers that it was passed. *)
Written(t, c, from, len, inside) ==
  [Replace(t, c, from, len, t.retained.commit) EXCEPT
     !.comp.len = IF inside THEN Len(t.retained.commit) ELSE @,
     !.retained.at = from + Len(t.retained.commit),
     !.retained.written = TRUE]
WriteInto(t, c, inside, fault) ==
  IF t.retained.commit = <<>> THEN Ok([t EXCEPT !.retained.written = TRUE])
  ELSE IF fault = "write" THEN Failed(t)
  ELSE IF inside THEN Ok(Written(t, c, t.comp.from, t.comp.len, TRUE))
  ELSE Ok(Written(t, c, t.caret[c], 0, FALSE))
Inside(t, c) == Composing(t, c) /\ t.retained.commit # <<>>
Write(r, c, fault) ==
  IF ~r.ok \/ r.text.retained.written THEN r
  ELSE WriteInto([r.text EXCEPT !.retained.needsEnd = Inside(r.text, c)], c,
                 Inside(r.text, c), fault)

(* Mutant of SetCaret: the caret goes one too far.                          *)
SetCaretPast(r, c, fault) ==
  IF ~r.ok \/ r.text.retained.commit = <<>> \/ r.text.retained.caretSet THEN r
  ELSE IF fault = "caret" THEN Failed(r.text)
  ELSE Ok([r.text EXCEPT !.caret[c] = r.text.retained.at + 1, !.retained.caretSet = TRUE])

SetCaret(r, c, fault) ==
  IF ~r.ok \/ r.text.retained.commit = <<>> \/ r.text.retained.caretSet THEN r
  ELSE IF fault = "caret" THEN Failed(r.text)
  ELSE Ok([r.text EXCEPT !.caret[c] = r.text.retained.at,
                         !.retained.caretSet = TRUE])

Ended(r) == IF r.ok THEN Ok([r.text EXCEPT !.retained.needsEnd = FALSE]) ELSE r
EndCommitted(r, c, fault) ==
  IF ~r.ok \/ ~r.text.retained.needsEnd THEN r ELSE Ended(End(r, c, FALSE, fault))

View(r, c, fault) ==
  IF ~r.ok THEN r
  ELSE IF r.text.retained.view # <<>> THEN ShowView(Start(r, c, fault), c, fault)
  ELSE IF r.text.retained.commit = <<>> THEN End(r, c, TRUE, fault)
  ELSE r

Released(r) == IF r.ok THEN Ok([r.text EXCEPT !.retained = NoResult]) ELSE r

(* retryInputResult *)
Retry(r, c, fault) ==
  IF ~r.ok \/ ~Retaining(r.text) THEN r
  ELSE IF r.text.retained.context # c THEN Failed(r.text)
  ELSE Released(View(EndCommitted(SetCaret(Write(r, c, fault), c, fault), c, fault), c, fault))

Retained(t, c, commit, view) ==
  Ok([t EXCEPT !.retained = [NoResult EXCEPT !.context = c, !.commit = commit, !.view = view]])

(* commitCompositionForModeSwitch: the shown text becomes ordinary text. *)
Reset(r) == IF r.ok THEN Ok([r.text EXCEPT !.engine = <<>>]) ELSE r
(* Mutant of CommitComposition: the shown text is taken out of the field.   *)
CommitNothing(r, c, fault) ==
  IF ~r.ok THEN r
  ELSE IF ~Composing(r.text, c) THEN Reset(r)
  ELSE IF fault \in {"write", "caret"} THEN Failed(r.text)
  ELSE Reset(EndRange(ClearRange(r.text, c), fault))

CommitComposition(r, c, fault) ==
  IF ~r.ok THEN r
  ELSE IF ~Composing(r.text, c) THEN Reset(r)
  ELSE IF fault \in {"write", "caret"} THEN Failed(r.text)
  ELSE Reset(EndRange([r.text EXCEPT !.caret[c] = r.text.comp.from + r.text.comp.len], fault))

(* Mutant of Abandon: the engine keeps its reading.                         *)
AbandonOnly(t) == [t EXCEPT !.comp = NoComposition]

Abandon(t) == [t EXCEPT !.comp = NoComposition, !.engine = <<>>]
-----------------------------------------------------------------------------
(* What the engine answers to key id: its new content and the EngineResult. *)
Answered(answer, engine, id) ==
  CASE answer = "compose" -> [engine |-> Append(engine, id), commit |-> <<>>,
                              view |-> Append(engine, id), handled |-> TRUE]
    [] answer \in {"commit", "numpad"} ->
                            [engine |-> <<>>, commit |-> Append(engine, id),
                             view |-> <<>>, handled |-> TRUE]
    [] answer = "shift" -> [engine |-> Append(Tail(engine), id), commit |-> <<Head(engine)>>,
                            view |-> Append(Tail(engine), id), handled |-> TRUE]
    [] answer = "clear" -> [engine |-> <<>>, commit |-> <<>>, view |-> <<>>, handled |-> TRUE]
    [] answer = "flush" -> [engine |-> <<>>, commit |-> engine, view |-> <<>>, handled |-> FALSE]
    [] answer \in Declining -> [engine |-> engine, commit |-> <<>>, view |-> engine, handled |-> FALSE]

Detached(t, c) == IF t.comp.context \notin {NoContext, c} THEN Abandon(t) ELSE t
Answerable(t, c) ==
  {answer \in Answers :
     /\ answer \in {"shift", "clear", "flush"} => Detached(t, c).engine # <<>>
     /\ answer = "unwanted" => Detached(t, c).engine = <<>>}

Ran(r, op) == [ok |-> r.ok, text |-> r.text, op |-> op]
Took(op, handled) == [op EXCEPT !.processed = TRUE, !.handled = handled]

(* processKey in English: the character is the result. *)
TypeKey(t, op, fault) ==
  Ran(Retry(Retained(t, op.context, <<op.id>>, <<>>), op.context, fault), Took(op, TRUE))

(* processKey in Chinese: first the composition, if the engine wants the    *)
(* key and it is not one of the number pad; then the engine.                *)
Begun(t, c, answer, fault) ==
  IF answer \in Unstarted THEN Ok(t) ELSE Start(Ok(t), c, fault)
Consume(t, op, a, fault) ==
  Ran(Retry(Retained([t EXCEPT !.engine = a.engine], op.context, a.commit, a.view),
            op.context, fault), Took(op, a.handled))
AskEngine(start, op, answer, fault) ==
  IF ~start.ok THEN Ran(start, op)
  ELSE IF answer \in Declining
  THEN Ran(Ok(IF start.text.engine = <<>> THEN End(start, op.context, FALSE, fault).text
              ELSE start.text), op)
  ELSE Consume(start.text, op, Answered(answer, start.text.engine, op.id), fault)

ProcessKey(r, op, mode, answer, fault) ==
  IF ~r.ok \/ op.processed THEN Ran(r, op)
  ELSE IF mode
  THEN AskEngine(Begun(Detached(r.text, op.context), op.context, answer, fault), op, answer, fault)
  ELSE TypeKey(Detached(r.text, op.context), op, fault)

(* A character inserted behind whatever was composed. *)
Insert(r, op, fault) ==
  IF r.ok THEN Retry(Retained(r.text, op.context, <<op.id>>, <<>>), op.context, fault) ELSE r

(* A key the host can no longer have back is inserted for it. *)
InsertKey(commit, op, fault) ==
  Ran(Insert(commit, op, fault), IF commit.ok THEN Took(op, TRUE) ELSE op)
RunKey(run, fault) ==
  IF ~run.ok \/ run.op.handled \/ ~(run.op.ordered \/ run.op.accepted) THEN run
  ELSE InsertKey(CommitComposition(Ok(run.text), run.op.context, fault), run.op, fault)

(* insertSymbol; the generation and focus checks may drop the symbol. *)
RunSymbol(r, op, answer, fault) ==
  IF answer = "pass" THEN Ran(r, op)
  ELSE Ran(Insert(CommitComposition(r, op.context, fault), op, fault), op)

(* A switch between Chinese and English; publishing it may fail. *)
RunMode(commit, op, fault) ==
  Ran(IF commit.ok /\ fault = "publish" THEN Failed(commit.text) ELSE commit, op)

(* runInput *)
RunOperation(r, op, mode, answer, fault) ==
  IF op.kind = "key" THEN RunKey(ProcessKey(r, op, mode, answer, fault), fault)
  ELSE IF op.kind = "symbol" THEN RunSymbol(r, op, answer, fault)
  ELSE RunMode(CommitComposition(r, op.context, fault), op, fault)
(* Mutant of RunInput: it runs in the field of the focus, not in its own.   *)
RunInputAtFocus(t, op, mode, answer, fault) ==
  RunOperation(Retry(Ok(t), focus, fault), [op EXCEPT !.context = focus], mode, answer, fault)

RunInput(t, op, mode, answer, fault) ==
  RunOperation(IF op.context = NoContext THEN Ok(t) ELSE Retry(Ok(t), op.context, fault),
               op, mode, answer, fault)
-----------------------------------------------------------------------------
Init ==
  /\ QueueInit
  /\ text = [doc |-> [c \in Contexts |-> <<>>], caret |-> [c \in Contexts |-> 0],
             comp |-> NoComposition, engine |-> <<>>, retained |-> NoResult]
  /\ chinese \in BOOLEAN
  /\ focus \in Contexts
  /\ typedIn = <<>> /\ passed = {} /\ gone = {}

Visible(t) == UNION {Range(t.doc[c]) : c \in Contexts}
Queued == {queue[i].id : i \in DOMAIN queue}
Waiting(t) == Range(t.retained.commit) \cup Range(t.retained.view)

(* inputContext *)
InputContext ==
  IF queue # <<>> THEN Last(queue).context
  ELSE IF text.comp.context # NoContext THEN text.comp.context ELSE focus

(* projectedChineseMode *)
ProjectedChinese ==
  LET modes == SelectSeq(queue, LAMBDA op : op.kind = "mode")
  IN IF modes = <<>> THEN chinese ELSE Last(modes).value

(* What cancelInput does to the text: the retained result is dropped, the   *)
(* engine keeps what it has.  The user goes on typing at the end.           *)
Cancelled(t) ==
  [t EXCEPT !.retained = NoResult, !.caret = [c \in Contexts |-> Len(t.doc[c])]]
Discard(t) == gone' = gone \cup ((Queued \cup Waiting(text)) \ Visible(t))

(* Whether this instance has symbols and switches for a field while the     *)
(* composition is in another that the host did not say was left.            *)
Near(c) == text.comp.context \notin {NoContext, c} => "stray" \in Faults

(* OnTestKeyDown and OnKeyDown for a printable key, and receiveSymbol. *)
KeyDown == /\ "key" \in Requests
           /\ Request(Operation("key", focus, FALSE))
           /\ UNCHANGED textVars
Symbol == /\ "symbol" \in Requests /\ Near(focus)
          /\ Request(Operation("symbol", focus, FALSE))
          /\ UNCHANGED textVars
Toggle == /\ "mode" \in Requests
          /\ \E c \in Contexts :
               /\ c = InputContext /\ Near(c)
               /\ Request(Operation("mode", c, ~ProjectedChinese))
          /\ UNCHANGED textVars

(* isPotentialKey: a half-width key in English is the host's unless         *)
(* something is queued; so may be a key the engine does not want.           *)
Withdrawn ==
  /\ queue = <<>> /\ (chinese => "unwanted" \in Answers)
  /\ Withdraw /\ UNCHANGED textVars

Superseded ==
  /\ \/ ElsewhereQueued
     \/ request.op.context # NoContext /\ text.retained.context \notin {NoContext, request.op.context}
  /\ Supersede
  /\ text' = Abandon(Cancelled(text)) /\ Discard(text)
  /\ UNCHANGED <<chinese, focus, typedIn, passed>>

Pushed ==
  /\ ~ElsewhereQueued
  /\ ~Retaining(text) \/ request.op.context \in {NoContext, text.retained.context}
  /\ Push
  /\ typedIn' = Append(typedIn, IF request.op.kind = "mode" THEN NoContext ELSE request.op.context)
  /\ UNCHANGED <<text, chinese, focus, passed, gone>>

(* A key that is not eaten is typed by the host. *)
Returned ==
  /\ Return
  /\ IF request.op.kind = "key" /\ ~Eaten
     THEN /\ text' = HostTypes(text, request.op.context, request.op.id)
          /\ passed' = passed \cup {request.op.id}
     ELSE UNCHANGED <<text, passed>>
  /\ UNCHANGED <<chinese, focus, typedIn, gone>>

NoSession == UNCHANGED <<chinese, focus, typedIn, passed, gone, text>>
Pumped == (PumpEnter \/ PumpStop \/ Grant) /\ NoSession

(* What leaves the queue without its text: the content of the engine that   *)
(* an editing key erased, and a symbol that was dropped or refused.         *)
Lost(op, t) == IF op.kind = "symbol" THEN {op.id} \ (Visible(t) \cup Waiting(t)) ELSE {}
Erased(op, run, answer) ==
  IF op.kind = "key" /\ answer = "clear" /\ run.op.processed /\ ~op.processed
  THEN (Range(text.engine) \cup Waiting(text) \cup {op.id}) \ Visible(run.text)
  ELSE {}

(* A refused session completes the operation without running it. *)
Denied ==
  /\ Deny
  /\ gone' = gone \cup Lost(Oldest, text)
  /\ UNCHANGED <<text, chinese, focus, typedIn, passed>>

Completes(run, outcome) ==
  RunDirect(run.op, outcome) \/ RunNow(run.op, outcome) \/ RunSession(run.op, outcome)
Effect(op, run, answer) ==
  /\ Completes(run, IF run.ok THEN "done" ELSE "failed")
  /\ text' = run.text
  /\ chinese' = IF op.kind = "mode" /\ run.ok THEN op.value ELSE chinese
  /\ gone' = gone \cup Erased(op, run, answer) \cup Lost(op, run.text)
  /\ UNCHANGED <<focus, typedIn, passed>>

(* An edit session of the host, or a mode change that needs none. *)
EditSession ==
  /\ queue # <<>>
  /\ Ready \/ (Idle /\ active # None)
  /\ \E answer \in Answerable(text, Oldest.context), fault \in (Faults \cap SessionFaults) \cup {"none"} :
       Effect(Oldest, RunInput(text, Oldest, chinese, answer, fault), answer)

(* Whether this instance has the cancellations that meet an engine ahead of *)
(* the field, because the host refused what the engine produced.            *)
LateCancel(ahead) == ahead => "lateCancel" \in Faults

(* The session finds its field disabled, or is released without being run.  *)
Interrupted ==
  /\ queue # <<>> /\ LateCancel(Retaining(text))
  /\ \/ RunNow(Oldest, "cancelled") /\ Oldest.kind # "mode"
     \/ RunSession(Oldest, "cancelled") /\ Oldest.kind # "mode"
     \/ DropSession
  /\ text' = Cancelled(text) /\ Discard(text)
  /\ UNCHANGED <<chinese, focus, typedIn, passed>>

(* OnEndEdit: the caret left the composition, or moved before there is one. *)
CaretMoved ==
  /\ queue # <<>> \/ text.comp # NoComposition
  /\ LateCancel(text.comp = NoComposition /\ text.engine # <<>>)
  /\ Cancel
  /\ text' = IF text.comp = NoComposition THEN Cancelled(text) ELSE Abandon(Cancelled(text))
  /\ Discard(text)
  /\ UNCHANGED <<chinese, focus, typedIn, passed>>

(* OnSetFocus(FALSE), OnCompositionTerminated, OnPopContext,                *)
(* OnUninitDocumentMgr: what is pending is dropped and the shown text stays. *)
Deactivated ==
  /\ queue # <<>> \/ text.comp # NoComposition \/ Retaining(text)
  /\ Cancel
  /\ text' = Abandon(Cancelled(text)) /\ Discard(text)
  /\ UNCHANGED <<chinese, focus, typedIn, passed>>

(* Another field gets the focus.  The service is told (OnSetFocus of the    *)
(* document, OnPushContext) before or after the thread manager names the    *)
(* new field; a host that breaks the contract does not tell it at all.      *)
FocusMoves(c) ==
  /\ Idle /\ c # focus /\ focus' = c
  /\ \/ /\ \/ queue = <<>> /\ text.comp = NoComposition
           \/ InputContext = c
           \/ "untold" \in Faults
        /\ UNCHANGED <<queueVars, text, gone>>
     \/ /\ InputContext # c /\ Cancel
        /\ text' = Abandon(Cancelled(text)) /\ Discard(text)
  /\ UNCHANGED <<chinese, typedIn, passed>>

Stale == (\E id \in held : StaleSession(id)) /\ NoSession

Next ==
  \/ KeyDown \/ Symbol \/ Toggle
  \/ Withdrawn \/ Superseded \/ Pushed \/ Returned
  \/ Pumped \/ Denied \/ EditSession \/ Interrupted
  \/ CaretMoved \/ Deactivated \/ Stale
  \/ \E c \in Contexts : FocusMoves(c)

Spec == Init /\ [][Next]_vars
-----------------------------------------------------------------------------
Tokens == Seq(1 .. made)

TypeOK ==
  /\ QueueTypeOK
  /\ text.doc \in [Contexts -> Tokens] /\ text.engine \in Tokens
  /\ \A c \in Contexts : text.caret[c] \in 0 .. Len(text.doc[c])
  /\ text.comp.context # NoContext =>
       text.comp.from + text.comp.len <= Len(text.doc[text.comp.context])
  /\ text.retained.commit \in Tokens /\ text.retained.view \in Tokens
  /\ chinese \in BOOLEAN /\ focus \in Contexts
  /\ Len(typedIn) = made
  /\ passed \cup gone \subseteq 1 .. made

(* The service's own text has the order of the keys and each of their       *)
(* characters once, whatever part of a write the host refused and however   *)
(* often it was retried.                                                    *)
KeepsOrder ==
  \A c \in Contexts : \A i, j \in DOMAIN text.doc[c] :
    i < j /\ {text.doc[c][i], text.doc[c][j]} \cap passed = {} => text.doc[c][i] < text.doc[c][j]

(* Text appears in the field it was typed in, and in no later one.          *)
StaysInItsField ==
  \A c \in Contexts : \A id \in Range(text.doc[c]) : typedIn[id] = c

(* Between two calls every key is in the text, waits in the queue or in the *)
(* retained result, or was cancelled or erased.                             *)
NoKeyIsLost ==
  Idle => \A id \in 1 .. made :
    typedIn[id] # NoContext =>
      id \in Visible(text) \cup Queued \cup Waiting(text) \cup gone

(* With nothing pending the composition shows what the engine holds.        *)
CompositionShowsEngine ==
  Idle /\ queue = <<>> /\ ~Retaining(text) =>
    text.engine = IF text.comp = NoComposition THEN <<>>
                  ELSE SubSeq(text.doc[text.comp.context], text.comp.from + 1,
                              text.comp.from + text.comp.len)
=============================================================================
