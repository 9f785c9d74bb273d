-------------------------- MODULE InputQueueProofs --------------------------
(***************************************************************************)
(* Proofs about InputQueue, for any fields, kinds of operation and number  *)
(* of operations.  QInv adds two facts to the invariants the runs check:   *)
(* an operation without a field is queued behind such operations only      *)
(* (RequestFits), and what is queued is taken up as soon as pumpInput is   *)
(* over, also inside a call (TakenUp).                                     *)
(***************************************************************************)
EXTENDS InputQueue, TLAPS

FlagType == [restore : BOOLEAN, resync : BOOLEAN, recover : BOOLEAN, posted : BOOLEAN]

RequestFits ==
  request.stage \in {"push", "append"} /\ request.op.context = NoContext
    => \A i \in DOMAIN queue : queue[i].context = NoContext

TakenUp == pump = "off" /\ queue # <<>> => active # None \/ blocked \/ flags.posted

QInv ==
  /\ QueueTypeOK
  /\ LeaseWhilePending
  /\ ActiveIsHeld
  /\ BlockedByTakenKey
  /\ InArrivalOrder
  /\ OneContext
  /\ RequestFits
  /\ TakenUp

(* Sequence r is what is left of q when some operations left at its front,  *)
(* as far as tokens and fields go.                                          *)
Suffix(r, q) ==
  \E k \in 0 .. Len(q) :
    /\ Len(r) = Len(q) - k
    /\ \A i \in 1 .. Len(r) : r[i].id = q[i + k].id /\ r[i].context = q[i + k].context
-----------------------------------------------------------------------------
(* The front and the rest of a queue. *)
LEMMA FrontAndRest ==
  ASSUME NEW q \in Seq(OperationType), q # <<>>
  PROVE  /\ Len(q) \in Nat \ {0} /\ DOMAIN q = 1 .. Len(q)
         /\ Head(q) = q[1] /\ Head(q) \in OperationType
         /\ Tail(q) \in Seq(OperationType)
         /\ Len(Tail(q)) = Len(q) - 1
         /\ \A i \in 1 .. Len(q) - 1 : Tail(q)[i] = q[i + 1]
  OBVIOUS

(* A queue whose front operation was changed. *)
LEMMA PutBack ==
  ASSUME NEW q \in Seq(OperationType), q # <<>>, NEW op \in OperationType
  PROVE  /\ <<op>> \o Tail(q) \in Seq(OperationType)
         /\ Len(<<op>> \o Tail(q)) = Len(q)
         /\ <<op>> \o Tail(q) # <<>>
         /\ Head(<<op>> \o Tail(q)) = op
         /\ (<<op>> \o Tail(q))[1] = op
         /\ \A i \in 2 .. Len(q) : (<<op>> \o Tail(q))[i] = q[i]
<1>1. <<op>> \in Seq(OperationType) /\ Len(<<op>>) = 1 /\ <<op>>[1] = op
  OBVIOUS
<1>2. Len(<<op>> \o Tail(q)) = Len(q) /\ <<op>> \o Tail(q) \in Seq(OperationType)
  BY <1>1, FrontAndRest
<1>3. \A i \in 2 .. Len(q) : (<<op>> \o Tail(q))[i] = Tail(q)[i - 1]
  BY <1>1, FrontAndRest
<1>4. (<<op>> \o Tail(q))[1] = op
  BY <1>1, FrontAndRest
<1> QED
  BY <1>2, <1>3, <1>4, FrontAndRest

(* A run leaves its operation's token, kind and field alone. *)
LEMMA RunKeepsIdentity ==
  ASSUME NEW op \in OperationType, NEW p \in BOOLEAN, NEW h \in BOOLEAN
  PROVE  LET after == AfterRun(op, p, h)
         IN /\ after \in OperationType
            /\ after.id = op.id /\ after.kind = op.kind /\ after.context = op.context
            /\ after.ordered = op.ordered /\ after.accepted = op.accepted
<1> DEFINE ran == [op EXCEPT !.processed = p]
<1>1. /\ ran \in OperationType
      /\ ran.id = op.id /\ ran.kind = op.kind /\ ran.context = op.context
      /\ ran.ordered = op.ordered /\ ran.accepted = op.accepted
  BY DEF OperationType
<1>2. AfterRun(op, p, h) = [ran EXCEPT !.handled = h]
  BY Zenon DEF AfterRun
<1> HIDE DEF ran
<1>3. /\ [ran EXCEPT !.handled = h] \in OperationType
      /\ [ran EXCEPT !.handled = h].id = ran.id
      /\ [ran EXCEPT !.handled = h].kind = ran.kind
      /\ [ran EXCEPT !.handled = h].context = ran.context
      /\ [ran EXCEPT !.handled = h].ordered = ran.ordered
      /\ [ran EXCEPT !.handled = h].accepted = ran.accepted
  BY <1>1 DEF OperationType
<1> QED
  BY <1>1, <1>2, <1>3

(* Order and field survive when operations leave at the front. *)
LEMMA SuffixKeeps ==
  ASSUME QInv, queue' \in Seq(OperationType), Suffix(queue', queue)
  PROVE  /\ InArrivalOrder' /\ OneContext'
         /\ \A i \in DOMAIN queue' : queue'[i].id \in 1 .. made
         /\ \A c : (\A i \in DOMAIN queue : queue[i].context = c)
                     => \A i \in DOMAIN queue' : queue'[i].context = c
<1>1. PICK k \in 0 .. Len(queue) :
        /\ Len(queue') = Len(queue) - k
        /\ \A i \in 1 .. Len(queue') : /\ queue'[i].id = queue[i + k].id
                                       /\ queue'[i].context = queue[i + k].context
  BY DEF Suffix
<1>2. /\ queue \in Seq(OperationType) /\ DOMAIN queue = 1 .. Len(queue)
      /\ DOMAIN queue' = 1 .. Len(queue') /\ Len(queue) \in Nat /\ Len(queue') \in Nat
  BY DEF QInv, QueueTypeOK
<1>3. \A i \in DOMAIN queue' : i + k \in DOMAIN queue
  BY <1>1, <1>2
<1>4. InArrivalOrder'
  <2> SUFFICES ASSUME NEW i \in DOMAIN queue', NEW j \in DOMAIN queue', i < j
               PROVE  queue'[i].id < queue'[j].id
    BY DEF InArrivalOrder
  <2>1. i + k \in DOMAIN queue /\ j + k \in DOMAIN queue /\ i + k < j + k
    BY <1>2, <1>3
  <2> QED
    BY <1>1, <1>2, <2>1 DEF QInv, InArrivalOrder
<1>5. OneContext'
  BY <1>1, <1>2, <1>3 DEF QInv, OneContext
<1>6. \A i \in DOMAIN queue' : queue'[i].id \in 1 .. made
  BY <1>1, <1>2, <1>3 DEF QInv, QueueTypeOK
<1> QED
  BY <1>1, <1>2, <1>3, <1>4, <1>5, <1>6

LEMMA EmptyIsSuffix ==
  ASSUME NEW q \in Seq(OperationType)
  PROVE  <<>> \in Seq(OperationType) /\ Suffix(<<>>, q)
<1>1. Len(q) \in 0 .. Len(q) /\ Len(<<>>) = Len(q) - Len(q)
  OBVIOUS
<1> QED
  BY <1>1 DEF Suffix

LEMMA SameIsSuffix ==
  ASSUME NEW q \in Seq(OperationType)
  PROVE  Suffix(q, q)
<1>1. 0 \in 0 .. Len(q) /\ Len(q) = Len(q) - 0 /\ \A i \in 1 .. Len(q) : i + 0 = i
  OBVIOUS
<1> QED
  BY <1>1 DEF Suffix

(* The flags keep their type when a mode failed. *)
LEMMA FlagsStayFlags ==
  ASSUME NEW f \in FlagType, NEW op, NEW outcome
  PROVE  Scheduled(f) \in FlagType /\ Refused(op, outcome, f) \in FlagType
<1>1. [f EXCEPT !.recover = TRUE] \in FlagType
  BY DEF FlagType
<1>2. [[f EXCEPT !.recover = TRUE] EXCEPT !.posted = @ \/ ~f.recover] \in FlagType
  <2> DEFINE g == [f EXCEPT !.recover = TRUE]
  <2>1. g \in FlagType
    BY <1>1
  <2> HIDE DEF g
  <2>2. [g EXCEPT !.posted = @ \/ ~f.recover] \in FlagType
    BY <2>1 DEF FlagType
  <2> QED
    BY <2>2 DEF g
<1>3. Scheduled(f) = [[f EXCEPT !.recover = TRUE] EXCEPT !.posted = @ \/ ~f.recover]
  BY Zenon DEF Scheduled
<1>4. Refused(op, outcome, f) \in FlagType
  <2> DEFINE g == [f EXCEPT !.restore = TRUE]
  <2>1. g \in FlagType
    BY DEF FlagType
  <2>2. Refused(op, outcome, f) \in {f, [g EXCEPT !.posted = TRUE]}
    BY Zenon DEF Refused
  <2> HIDE DEF g
  <2>3. [g EXCEPT !.posted = TRUE] \in FlagType
    BY <2>1 DEF FlagType
  <2> QED
    BY <2>2, <2>3
<1> QED
  BY <1>2, <1>3, <1>4

(* cancelInput, wherever it is called. *)
LEMMA CancelKeeps ==
  ASSUME QInv, CancelInput
  PROVE  /\ queue' = <<>> /\ active' = None /\ blocked' = FALSE /\ lease' = FALSE
         /\ flags' \in FlagType
         /\ queue' \in Seq(OperationType) /\ Suffix(queue', queue)
<1>1. flags \in FlagType /\ queue \in Seq(OperationType)
  BY DEF QInv, QueueTypeOK, FlagType
<1>2. flags' \in FlagType
  BY <1>1 DEF CancelInput, FlagType, HostPending
<1> QED
  BY <1>1, <1>2, EmptyIsSuffix DEF CancelInput

(* completeInput, for a run of the front operation. *)
LEMMA CompletionKeeps ==
  ASSUME QInv, queue # <<>>, Ready \/ active # None,
         NEW op \in OperationType, NEW outcome,
         op.id = Oldest.id, op.kind = Oldest.kind, op.context = Oldest.context,
         op.ordered = Oldest.ordered, op.accepted = Oldest.accepted,
         CompleteInput(op, outcome)
  PROVE  /\ queue' \in Seq(OperationType) /\ Suffix(queue', queue)
         /\ active' = None /\ flags' \in FlagType
         /\ blocked' \in BOOLEAN /\ lease' \in BOOLEAN
         /\ LeaseWhilePending' /\ BlockedByTakenKey'
         /\ outcome = "cancelled" => queue' = <<>>
<1>1. /\ queue \in Seq(OperationType) /\ flags \in FlagType /\ lease \in BOOLEAN
      /\ lease = TRUE /\ blocked = FALSE
  BY DEF QInv, QueueTypeOK, FlagType, LeaseWhilePending, BlockedByTakenKey, Ready
<1>2. /\ Oldest = queue[1] /\ Len(queue) \in Nat \ {0}
      /\ Tail(queue) \in Seq(OperationType) /\ Len(Tail(queue)) = Len(queue) - 1
      /\ \A i \in 1 .. Len(queue) - 1 : Tail(queue)[i] = queue[i + 1]
  BY <1>1, FrontAndRest DEF Oldest
<1>3. CASE Blocks(op, outcome) /\ queue' = <<op>> \o Tail(queue) /\ active' = None
           /\ blocked' = TRUE /\ UNCHANGED <<lease, flags>>
  <2>1. /\ queue' \in Seq(OperationType) /\ Len(queue') = Len(queue) /\ queue' # <<>>
        /\ Oldest' = op /\ queue'[1] = op
        /\ \A i \in 2 .. Len(queue) : queue'[i] = queue[i]
    BY <1>1, <1>3, PutBack DEF Oldest
  <2>2. \A i \in 1 .. Len(queue') : queue'[i].id = queue[i + 0].id
                                  /\ queue'[i].context = queue[i + 0].context
    BY <1>2, <2>1
  <2>3. Suffix(queue', queue)
    <3>1. 0 \in 0 .. Len(queue) /\ Len(queue') = Len(queue) - 0
      BY <1>2, <2>1
    <3> QED
      BY <2>2, <3>1 DEF Suffix
  <2>4. BlockedByTakenKey'
    BY <1>3, <2>1 DEF BlockedByTakenKey, Blocks
  <2> QED
    BY <1>1, <1>3, <2>1, <2>3, <2>4 DEF LeaseWhilePending, Blocks
<1>4. CASE outcome = "cancelled" /\ CancelInput
  BY <1>4, CancelKeeps DEF LeaseWhilePending, BlockedByTakenKey
<1>5. CASE /\ outcome \in {"done", "failed"} /\ queue' = Tail(queue) /\ active' = None
           /\ lease' = (lease /\ Tail(queue) # <<>>)
           /\ flags' \in {Refused(op, outcome, f) : f \in Attempted(op)}
           /\ UNCHANGED blocked
  <2>1. Suffix(queue', queue)
    <3>1. /\ 1 \in 0 .. Len(queue) /\ Len(queue') = Len(queue) - 1
          /\ \A i \in 1 .. Len(queue') : queue'[i] = queue[i + 1]
      BY <1>2, <1>5
    <3> QED
      BY <3>1 DEF Suffix
  <2>2. flags' \in FlagType
    <3>1. PICK f \in Attempted(op) : flags' = Refused(op, outcome, f)
      BY <1>5
    <3>2. f = flags \/ f = Scheduled(flags)
      BY DEF Attempted
    <3>3. f \in FlagType
      BY <1>1, <3>2, FlagsStayFlags
    <3> QED
      BY <3>1, <3>3, FlagsStayFlags
  <2>3. LeaseWhilePending' /\ BlockedByTakenKey'
    BY <1>1, <1>5 DEF LeaseWhilePending, BlockedByTakenKey
  <2> QED
    BY <1>1, <1>2, <1>5, <2>1, <2>2, <2>3
<1> QED
  BY <1>3, <1>4, <1>5 DEF CompleteInput

RequestType == [stage : {"none", "push", "append", "return"}, op : OperationType]

(* What the caller is told changes nothing but that. *)
LEMMA AnswerKeeps ==
  ASSUME request \in RequestType, NEW op \in OperationType, NEW outcome
  PROVE  /\ Answer(op, outcome) \in RequestType
         /\ Answer(op, outcome).stage = request.stage
         /\ Answer(op, outcome).op.context = request.op.context
<1> DEFINE value == IF op.kind = "key" THEN op.handled ELSE outcome = "done"
<1>1. value \in BOOLEAN
  BY DEF OperationType
<1>2. Answer(op, outcome) \in {request, [request EXCEPT !.op.handled = value]}
  BY Zenon DEF Answer
<1> HIDE DEF value
<1>3. /\ [request.op EXCEPT !.handled = value] \in OperationType
      /\ [request.op EXCEPT !.handled = value].context = request.op.context
  BY <1>1 DEF RequestType, OperationType
<1>4. /\ [request EXCEPT !.op.handled = value] \in RequestType
      /\ [request EXCEPT !.op.handled = value].stage = request.stage
      /\ [request EXCEPT !.op.handled = value].op = [request.op EXCEPT !.handled = value]
  BY <1>3 DEF RequestType
<1> QED
  BY <1>2, <1>3, <1>4
-----------------------------------------------------------------------------
(* Steps that leave the queue alone, or lose operations at its front, keep  *)
(* the invariant when the conjuncts about the active operation are kept.    *)
LEMMA KeptBySuffix ==
  ASSUME QInv, queue' \in Seq(OperationType), Suffix(queue', queue), made' = made,
         active' \in 0 .. made, held' \subseteq held, blocked' \in BOOLEAN, lease' \in BOOLEAN,
         pump' \in {"off", "enter", "loop"}, flags' \in FlagType, request' \in RequestType,
         LeaseWhilePending', ActiveIsHeld', BlockedByTakenKey', TakenUp',
         request'.stage \in {"push", "append"} =>
           /\ request.stage \in {"push", "append"}
           /\ request'.op.context = request.op.context
  PROVE  QInv'
<1>1. /\ InArrivalOrder' /\ OneContext' /\ \A i \in DOMAIN queue' : queue'[i].id \in 1 .. made
      /\ (\A i \in DOMAIN queue : queue[i].context = NoContext)
            => \A i \in DOMAIN queue' : queue'[i].context = NoContext
  BY SuffixKeeps
<1>2. QueueTypeOK'
  BY <1>1 DEF QInv, QueueTypeOK, FlagType, RequestType
<1>3. RequestFits'
  BY <1>1 DEF QInv, RequestFits
<1> QED
  BY <1>1, <1>2, <1>3 DEF QInv

LEMMA TypedState ==
  ASSUME QInv
  PROVE  /\ queue \in Seq(OperationType) /\ Suffix(queue, queue)
         /\ made \in Nat /\ active \in 0 .. made /\ held \subseteq 1 .. made
         /\ blocked \in BOOLEAN /\ lease \in BOOLEAN
         /\ pump \in {"off", "enter", "loop"}
         /\ flags \in FlagType /\ request \in RequestType
         /\ None \in 0 .. made
  BY SameIsSuffix DEF QInv, QueueTypeOK, FlagType, RequestType, None

LEMMA QueueInitEstablishes == QueueInit => QInv
<1> SUFFICES ASSUME QueueInit PROVE QInv
  OBVIOUS
<1>1. NoRequest \in RequestType /\ NoRequest.stage = "none"
  BY DEF NoRequest, Operation, RequestType, OperationType, Kinds, HostKinds, None
<1>2. QueueTypeOK
  <2>1. queue = <<>> /\ queue \in Seq(OperationType) /\ DOMAIN queue = {}
    BY DEF QueueInit
  <2>2. made \in Nat /\ active \in 0 .. made /\ held \subseteq 1 .. made
    BY DEF QueueInit, None
  <2>3. flags \in FlagType /\ blocked \in BOOLEAN /\ lease \in BOOLEAN
    BY DEF QueueInit, FlagType, Quiet
  <2> QED
    BY <1>1, <2>1, <2>2, <2>3 DEF QueueInit, QueueTypeOK, FlagType, RequestType
<1>3. LeaseWhilePending /\ ActiveIsHeld /\ BlockedByTakenKey /\ TakenUp
  BY DEF QueueInit, LeaseWhilePending, ActiveIsHeld, BlockedByTakenKey, TakenUp
<1>4. InArrivalOrder /\ OneContext /\ RequestFits
  BY DEF QueueInit, InArrivalOrder, OneContext, RequestFits
<1> QED
  BY <1>2, <1>3, <1>4 DEF QInv

LEMMA RequestKeeps ==
  ASSUME QInv, Ask
  PROVE  QInv'
<1> USE TypedState
<1> PICK kind \in Requests, context \in Contexts \cup {NoContext}, value \in BOOLEAN :
      Asked(Operation(kind, context, value)) /\ Request(Operation(kind, context, value))
  BY DEF Ask
<1> DEFINE op == Operation(kind, context, value)
<1> HIDE DEF op
<1>1. op \in OperationType
  BY RequestsAssumption DEF op, Operation, OperationType, None
<1>0. Asked(op) /\ Request(op)
  BY DEF op
<1>2. request' \in RequestType /\ request'.stage = "push" /\ request'.op = op
  BY <1>0, <1>1 DEF Request, RequestType
<1>3. /\ UNCHANGED <<queue, active, blocked, lease, held, made>>
      /\ pump' \in {"off", PumpCall}
      /\ pump = "off"
  BY <1>0 DEF Request, Idle
<1>4. flags' \in FlagType /\ flags'.posted = flags.posted
  <2> DEFINE f == [flags EXCEPT !.restore = FALSE]
  <2>1. f \in FlagType /\ f.posted = flags.posted
    BY DEF FlagType
  <2>2. flags' \in {flags, [f EXCEPT !.recover = FALSE]}
    BY Zenon, <1>0 DEF Request
  <2> HIDE DEF f
  <2>3. [f EXCEPT !.recover = FALSE] \in FlagType /\ [f EXCEPT !.recover = FALSE].posted = f.posted
    BY <2>1 DEF FlagType
  <2> QED
    BY <2>1, <2>2, <2>3
<1>5. QueueTypeOK'
  BY <1>2, <1>3, <1>4 DEF QInv, QueueTypeOK, FlagType, RequestType, PumpCall
<1>6. LeaseWhilePending' /\ ActiveIsHeld' /\ BlockedByTakenKey' /\ InArrivalOrder' /\ OneContext'
  BY <1>3 DEF QInv, LeaseWhilePending, ActiveIsHeld, BlockedByTakenKey, InArrivalOrder,
              OneContext, Oldest
<1>7. TakenUp'
  BY <1>3, <1>4 DEF QInv, TakenUp, PumpCall
<1>8. RequestFits'
  <2> SUFFICES ASSUME op.context = NoContext, NEW i \in DOMAIN queue
               PROVE  queue[i].context = NoContext
    BY <1>2, <1>3 DEF RequestFits
  <2>1. op.kind \in {"mode"} \cup HostKinds
    BY <1>0, <1>1, NoContextAssumption DEF Asked, OperationType, Kinds
  <2>2. queue # <<>> /\ Last(queue) = queue[Len(queue)] /\ Len(queue) \in DOMAIN queue
    BY DEF Last
  <2>3. queue[i].context = queue[Len(queue)].context
    BY <2>2 DEF QInv, OneContext
  <2> QED
    BY <1>0, <2>1, <2>2, <2>3 DEF Asked
<1> QED
  BY <1>5, <1>6, <1>7, <1>8 DEF QInv

LEMMA NoRequestTyped == NoRequest \in RequestType /\ NoRequest.stage = "none"
  BY DEF NoRequest, Operation, RequestType, OperationType, Kinds, HostKinds, None

LEMMA LeavingKeeps ==
  ASSUME QInv, Withdraw \/ Return
  PROVE  QInv'
<1> USE TypedState
<1>1. /\ UNCHANGED <<queue, active, blocked, lease, pump, held, flags, made>>
      /\ request' = NoRequest
  BY DEF Withdraw, Return
<1>2. LeaseWhilePending' /\ ActiveIsHeld' /\ BlockedByTakenKey' /\ TakenUp'
  BY <1>1 DEF QInv, LeaseWhilePending, ActiveIsHeld, BlockedByTakenKey, TakenUp, Oldest
<1> QED
  BY <1>1, <1>2, NoRequestTyped, KeptBySuffix

LEMMA SupersedeKeeps ==
  ASSUME QInv, Supersede
  PROVE  QInv'
<1> USE TypedState
<1>1. /\ queue' = <<>> /\ active' = None /\ blocked' = FALSE /\ lease' = FALSE
      /\ flags' \in FlagType /\ queue' \in Seq(OperationType) /\ Suffix(queue', queue)
  BY CancelKeeps DEF Supersede
<1>2. /\ UNCHANGED <<held, made>> /\ pump' \in {"enter", "off"}
      /\ request.stage = "push" /\ request' = [request EXCEPT !.stage = "append"]
  BY DEF Supersede
<1>3. request' \in RequestType /\ request'.op.context = request.op.context
  BY <1>2 DEF RequestType
<1>4. LeaseWhilePending' /\ ActiveIsHeld' /\ BlockedByTakenKey' /\ TakenUp'
  BY <1>1 DEF LeaseWhilePending, ActiveIsHeld, BlockedByTakenKey, TakenUp
<1> QED
  BY <1>1, <1>2, <1>3, <1>4, KeptBySuffix

LEMMA PushKeeps ==
  ASSUME QInv, Push
  PROVE  QInv'
<1> USE TypedState
<1> DEFINE one == [request.op EXCEPT !.id = made + 1]
           op == [one EXCEPT !.ordered = queue # <<>>]
<1>1. one \in OperationType /\ one.id = made + 1 /\ one.context = request.op.context
  BY DEF RequestType, OperationType
<1>2. /\ queue' = Append(queue, op) /\ request' = [stage |-> "return", op |-> op]
      /\ lease' = TRUE /\ blocked' = FALSE /\ made' = made + 1
      /\ pump' = (IF active = None THEN "enter" ELSE "off")
      /\ UNCHANGED <<active, held, flags>>
      /\ request.stage \in {"push", "append"} /\ ~ElsewhereQueued
  BY Zenon DEF Push, Pushing
<1> HIDE DEF one
<1>3. op \in OperationType /\ op.id = made + 1 /\ op.context = request.op.context
  BY <1>1 DEF OperationType
<1> HIDE DEF op
<1>4. /\ queue' \in Seq(OperationType) /\ queue' # <<>> /\ Len(queue') = Len(queue) + 1
      /\ DOMAIN queue = 1 .. Len(queue) /\ DOMAIN queue' = 1 .. Len(queue')
      /\ \A i \in DOMAIN queue : queue'[i] = queue[i]
      /\ queue'[Len(queue) + 1] = op
  BY <1>2, <1>3
<1>5. \A i \in DOMAIN queue' : i \in DOMAIN queue \/ i = Len(queue) + 1
  BY <1>4
<1>6. QueueTypeOK'
  <2>1. \A i \in DOMAIN queue' : queue'[i].id \in 1 .. made + 1
    BY <1>3, <1>4, <1>5 DEF QInv, QueueTypeOK
  <2>2. request' \in RequestType
    BY <1>2, <1>3 DEF RequestType
  <2>3. made' \in Nat /\ active' \in 0 .. made' /\ held' \subseteq 1 .. made'
    BY <1>2
  <2>4. /\ blocked' \in BOOLEAN /\ lease' \in BOOLEAN /\ flags' \in FlagType
        /\ pump' \in {"off", "enter", "loop"}
    BY <1>2
  <2> QED
    BY <1>2, <1>4, <2>1, <2>2, <2>3, <2>4 DEF QueueTypeOK, FlagType, RequestType
<1>7. LeaseWhilePending' /\ BlockedByTakenKey' /\ TakenUp'
  BY <1>2, <1>4 DEF LeaseWhilePending, BlockedByTakenKey, TakenUp
<1>8. ActiveIsHeld'
  <2> SUFFICES ASSUME active # None PROVE ActiveIsHeld'
    BY <1>2 DEF ActiveIsHeld
  <2>1. queue # <<>> /\ Oldest' = Oldest
    BY <1>4 DEF QInv, ActiveIsHeld, Oldest
  <2> QED
    BY <1>2, <1>4, <2>1 DEF QInv, ActiveIsHeld
<1>9. InArrivalOrder'
  <2> SUFFICES ASSUME NEW i \in DOMAIN queue', NEW j \in DOMAIN queue', i < j
               PROVE  queue'[i].id < queue'[j].id
    BY DEF InArrivalOrder
  <2>1. i \in DOMAIN queue
    BY <1>4
  <2>2. queue[i].id \in 1 .. made
    BY <2>1 DEF QInv, QueueTypeOK
  <2>3. CASE j \in DOMAIN queue
    BY <1>4, <2>1, <2>3 DEF QInv, InArrivalOrder
  <2>4. CASE j = Len(queue) + 1
    BY <1>3, <1>4, <2>1, <2>2, <2>4
  <2> QED
    BY <1>5, <2>3, <2>4
<1>10. OneContext'
  <2>1. \A i \in DOMAIN queue : queue[i].context = op.context
    <3> SUFFICES ASSUME NEW i \in DOMAIN queue PROVE queue[i].context = op.context
      OBVIOUS
    <3>1. queue # <<>> /\ 1 \in DOMAIN queue /\ Oldest = queue[1]
      BY <1>4 DEF Oldest
    <3>2. CASE op.context = NoContext
      BY <1>2, <1>3, <3>2 DEF QInv, RequestFits
    <3>3. CASE op.context # NoContext
      BY <1>2, <1>3, <3>1, <3>3 DEF QInv, OneContext, ElsewhereQueued
    <3> QED
      BY <3>2, <3>3
  <2>2. \A i \in DOMAIN queue' : queue'[i].context = op.context
    BY <1>4, <1>5, <2>1
  <2> QED
    BY <2>2 DEF OneContext
<1>11. RequestFits'
  BY <1>2 DEF RequestFits
<1> QED
  BY <1>6, <1>7, <1>8, <1>9, <1>10, <1>11 DEF QInv

(* The steps of pumpInput that neither run nor refuse an operation. *)
LEMMA PumpingKeeps ==
  ASSUME QInv, PumpEnter \/ PumpStop \/ PumpPost
  PROVE  QInv'
<1> USE TypedState
<1>1. UNCHANGED <<queue, active, blocked, lease, request, held, made>>
  BY DEF PumpEnter, PumpStop, PumpPost
<1>2. LeaseWhilePending' /\ ActiveIsHeld' /\ BlockedByTakenKey'
  BY <1>1 DEF QInv, LeaseWhilePending, ActiveIsHeld, BlockedByTakenKey, Oldest
<1>3. CASE PumpEnter
  <2>1. flags' \in FlagType /\ pump' = "loop"
    BY <1>3 DEF PumpEnter, Recoveries, FlagType
  <2> QED
    BY <1>1, <1>2, <2>1, KeptBySuffix DEF TakenUp
<1>4. CASE PumpStop
  <2>1. flags' = flags /\ pump' = "off" /\ TakenUp'
    BY <1>4 DEF PumpStop, TakenUp
  <2> QED
    BY <1>1, <1>2, <2>1, KeptBySuffix
<1>5. CASE PumpPost
  <2>1. flags' \in FlagType /\ flags'.posted = TRUE /\ pump' = "off"
    BY <1>5 DEF PumpPost, FlagType
  <2> QED
    BY <1>1, <1>2, <2>1, KeptBySuffix DEF TakenUp
<1> QED
  BY <1>3, <1>4, <1>5

LEMMA GrantKeeps ==
  ASSUME QInv, Grant
  PROVE  QInv'
<1> USE TypedState
<1> DEFINE op == [queue[1] EXCEPT !.accepted = TRUE]
<1>1. /\ queue # <<>> /\ active = None /\ blocked = FALSE /\ pump = "loop"
      /\ Oldest = queue[1] /\ 1 \in DOMAIN queue /\ queue[1] \in OperationType
      /\ active' = Oldest.id /\ held' = held \cup {Oldest.id}
      /\ UNCHANGED <<blocked, lease, pump, request, flags, made>>
  BY DEF Grant, Ready, Oldest
<1>2. op \in OperationType /\ op.id = queue[1].id /\ op.context = queue[1].context
      /\ op.accepted = TRUE
  BY <1>1 DEF OperationType
<1>3. queue' = [queue EXCEPT ![1] = op]
  BY Zenon DEF Grant
<1> HIDE DEF op
<1>4. /\ queue' \in Seq(OperationType) /\ Len(queue') = Len(queue) /\ queue' # <<>>
      /\ Oldest' = op /\ DOMAIN queue' = 1 .. Len(queue')
      /\ \A i \in 2 .. Len(queue) : queue'[i] = queue[i]
      /\ queue'[1] = op
  BY <1>1, <1>2, <1>3 DEF Oldest
<1>5. \A i \in DOMAIN queue' : queue'[i].id = queue[i].id /\ queue'[i].context = queue[i].context
  BY <1>2, <1>4
<1>6. Oldest.id \in 1 .. made
  BY <1>1 DEF QInv, QueueTypeOK
<1>7. QueueTypeOK'
  <2>1. \A i \in DOMAIN queue' : queue'[i].id \in 1 .. made
    BY <1>4, <1>5 DEF QInv, QueueTypeOK
  <2>2. active' \in 0 .. made /\ held' \subseteq 1 .. made
    BY <1>1, <1>6
  <2> QED
    BY <1>1, <1>4, <2>1, <2>2 DEF QueueTypeOK, FlagType, RequestType
<1>8. LeaseWhilePending' /\ ActiveIsHeld' /\ BlockedByTakenKey' /\ TakenUp'
  BY <1>1, <1>2, <1>4, <1>6 DEF QInv, LeaseWhilePending, ActiveIsHeld, BlockedByTakenKey, TakenUp, None
<1>9. InArrivalOrder' /\ OneContext' /\ RequestFits'
  BY <1>1, <1>4, <1>5 DEF QInv, InArrivalOrder, OneContext, RequestFits
<1> QED
  BY <1>7, <1>8, <1>9 DEF QInv

(* An operation completed inside pumpInput. *)
LEMMA CompletedInPump ==
  ASSUME QInv, Ready, NEW op \in OperationType, NEW outcome,
         op.id = Oldest.id, op.kind = Oldest.kind, op.context = Oldest.context,
         op.ordered = Oldest.ordered, op.accepted = Oldest.accepted,
         CompleteInput(op, outcome), request' = Answer(op, outcome),
         UNCHANGED <<pump, held, made>>
  PROVE  QInv'
<1> USE TypedState
<1>1. queue # <<>> /\ pump = "loop"
  BY DEF Ready
<1>2. /\ queue' \in Seq(OperationType) /\ Suffix(queue', queue)
      /\ active' = None /\ flags' \in FlagType
      /\ blocked' \in BOOLEAN /\ lease' \in BOOLEAN
      /\ LeaseWhilePending' /\ BlockedByTakenKey'
  BY <1>1, CompletionKeeps
<1>3. /\ request' \in RequestType /\ request'.stage = request.stage
      /\ request'.op.context = request.op.context
  BY AnswerKeeps
<1>4. ActiveIsHeld' /\ TakenUp'
  BY <1>1, <1>2 DEF ActiveIsHeld, TakenUp
<1> QED
  BY <1>2, <1>3, <1>4, KeptBySuffix

LEMMA DenyKeeps ==
  ASSUME QInv, Deny
  PROVE  QInv'
<1>1. Ready /\ CompleteInput(Oldest, "failed") /\ request' = Answer(Oldest, "failed")
      /\ UNCHANGED <<pump, held, made>>
  BY DEF Deny
<1>2. Oldest \in OperationType
  BY <1>1, TypedState, FrontAndRest DEF Ready, Oldest
<1> QED
  BY <1>1, <1>2, CompletedInPump

LEMMA RunKeeps ==
  ASSUME QInv, Run
  PROVE  QInv'
<1> USE TypedState
<1> PICK outcome \in Outcomes, p \in BOOLEAN, h \in BOOLEAN :
      LET op == AfterRun(Oldest, p, h)
      IN RunDirect(op, outcome) \/ RunNow(op, outcome) \/ RunSession(op, outcome)
  BY DEF Run
<1> DEFINE op == AfterRun(Oldest, p, h)
<1>1. queue # <<>> /\ Oldest \in OperationType
  BY FrontAndRest DEF Run, Oldest
<1>2. /\ op \in OperationType
      /\ op.id = Oldest.id /\ op.kind = Oldest.kind /\ op.context = Oldest.context
      /\ op.ordered = Oldest.ordered /\ op.accepted = Oldest.accepted
  BY <1>1, RunKeepsIdentity
<1> HIDE DEF op
<1>3. CASE RunDirect(op, outcome) \/ RunNow(op, outcome)
  <2>1. Ready /\ CompleteInput(op, outcome) /\ request' = Answer(op, outcome)
        /\ UNCHANGED <<pump, held, made>>
    BY <1>3 DEF RunDirect, RunNow
  <2> QED
    BY <1>2, <2>1, CompletedInPump
<1>4. CASE RunSession(op, outcome)
  <2>1. /\ active # None /\ CompleteInput(op, outcome) /\ held' = held \ {active}
        /\ pump' = (IF blocked' \/ outcome = "cancelled" THEN "off" ELSE "enter")
        /\ UNCHANGED <<request, made>>
    BY <1>4 DEF RunSession
  <2>2. /\ queue' \in Seq(OperationType) /\ Suffix(queue', queue)
        /\ active' = None /\ flags' \in FlagType
        /\ blocked' \in BOOLEAN /\ lease' \in BOOLEAN
        /\ LeaseWhilePending' /\ BlockedByTakenKey'
        /\ outcome = "cancelled" => queue' = <<>>
    BY <1>1, <1>2, <2>1, CompletionKeeps
  <2>3. ActiveIsHeld' /\ TakenUp'
    BY <2>1, <2>2 DEF ActiveIsHeld, TakenUp
  <2> QED
    BY <2>1, <2>2, <2>3, KeptBySuffix
<1> QED
  BY <1>3, <1>4 DEF op

LEMMA HostKeeps ==
  ASSUME QInv, Host \/ ModePump
  PROVE  QInv'
<1> USE TypedState
<1>1. CASE DropSession \/ Cancel
  <2>1. /\ queue' = <<>> /\ active' = None /\ blocked' = FALSE /\ lease' = FALSE
        /\ flags' \in FlagType /\ queue' \in Seq(OperationType) /\ Suffix(queue', queue)
    BY <1>1, CancelKeeps DEF DropSession, Cancel
  <2>2. held' \subseteq held /\ UNCHANGED <<pump, request, made>>
    BY <1>1 DEF DropSession, Cancel
  <2>3. LeaseWhilePending' /\ ActiveIsHeld' /\ BlockedByTakenKey' /\ TakenUp'
    BY <2>1 DEF LeaseWhilePending, ActiveIsHeld, BlockedByTakenKey, TakenUp
  <2> QED
    BY <2>1, <2>2, <2>3, KeptBySuffix
<1>2. CASE Activity \/ ModePump
  <2>1. /\ UNCHANGED <<queue, active, blocked, lease, request, held, made>>
        /\ pump' = PumpCall /\ flags' \in FlagType
    BY <1>2 DEF Activity, ModePump, FlagType
  <2>2. LeaseWhilePending' /\ ActiveIsHeld' /\ BlockedByTakenKey'
    BY <2>1 DEF QInv, LeaseWhilePending, ActiveIsHeld, BlockedByTakenKey, Oldest
  <2>3. TakenUp' /\ pump' \in {"off", "enter", "loop"}
    BY <2>1 DEF TakenUp, PumpCall
  <2> QED
    BY <2>1, <2>2, <2>3, KeptBySuffix
<1>3. ASSUME NEW id \in held, StaleSession(id)
      PROVE  QInv'
  <2>1. /\ UNCHANGED <<queue, active, blocked, lease, pump, request, flags, made>>
        /\ held' = held \ {id} /\ id # active
    BY <1>3 DEF StaleSession
  <2>2. LeaseWhilePending' /\ ActiveIsHeld' /\ BlockedByTakenKey' /\ TakenUp'
    BY <2>1 DEF QInv, LeaseWhilePending, ActiveIsHeld, BlockedByTakenKey, TakenUp, Oldest
  <2> QED
    BY <2>1, <2>2, KeptBySuffix
<1> QED
  BY <1>1, <1>2, <1>3 DEF Host

LEMMA StepKeeps == QInv /\ [QueueNext]_queueVars => QInv'
<1> SUFFICES ASSUME QInv, [QueueNext]_queueVars PROVE QInv'
  OBVIOUS
<1>1. CASE Ask
  BY <1>1, RequestKeeps
<1>2. CASE Serve
  BY <1>2, LeavingKeeps, SupersedeKeeps, PushKeeps DEF Serve
<1>3. CASE Pump
  BY <1>3, PumpingKeeps, GrantKeeps, DenyKeeps DEF Pump
<1>4. CASE Run
  BY <1>4, RunKeeps
<1>5. CASE Host \/ ModePump
  BY <1>5, HostKeeps
<1>6. CASE UNCHANGED queueVars
  BY <1>6 DEF queueVars, QInv, QueueTypeOK, LeaseWhilePending, ActiveIsHeld, BlockedByTakenKey,
              InArrivalOrder, OneContext, RequestFits, TakenUp, Oldest
<1> QED
  BY <1>1, <1>2, <1>3, <1>4, <1>5, <1>6 DEF QueueNext

(* The inductive invariant of the queue, for the modules built on it. *)
THEOREM QueueInvariant == QueueSpec => []QInv
<1> QED
  BY QueueInitEstablishes, StepKeeps, PTL DEF QueueSpec
-----------------------------------------------------------------------------
(* The engine's lease is held exactly while input waits, whatever sessions, *)
(* refusals and cancellations come in between.                              *)
THEOREM LeaseMatchesQueue == QueueSpec => []LeaseWhilePending
<1>1. QInv => LeaseWhilePending
  BY DEF QInv
<1> QED
  BY <1>1, QueueInvariant, PTL

(* The operation in progress is the oldest, and the host has its session.   *)
THEOREM ActiveHasSession == QueueSpec => []ActiveIsHeld
<1>1. QInv => ActiveIsHeld
  BY DEF QInv
<1> QED
  BY <1>1, QueueInvariant, PTL

(* A blocked queue waits behind a key that the host will not get back.      *)
THEOREM OnlyTakenKeysBlock == QueueSpec => []BlockedByTakenKey
<1>1. QInv => BlockedByTakenKey
  BY DEF QInv
<1> QED
  BY <1>1, QueueInvariant, PTL

(* Input waits in the order of its arrival and for one field at a time.     *)
THEOREM OneFieldInOrder == QueueSpec => []InOrder
<1>1. QInv => InOrder
  BY DEF QInv, InOrder
<1> QED
  BY <1>1, QueueInvariant, PTL

(* No pending input is left without a session, a message or a key to wait   *)
(* for when the thread goes back to the host.                               *)
THEOREM PendingInputIsTakenUp == QueueSpec => []NeverForgotten
<1>1. QInv => NeverForgotten
  BY DEF QInv, TakenUp, NeverForgotten, Idle
<1> QED
  BY <1>1, QueueInvariant, PTL

LEMMA CompletionShape ==
  ASSUME NEW op, NEW outcome, CompleteInput(op, outcome)
  PROVE  queue' = Tail(queue) \/ queue' = <<>> \/ queue' = <<op>> \o Tail(queue)
  BY DEF CompleteInput, CancelInput

LEMMA FrontStep ==
  ASSUME QInv, [QueueNext]_queueVars, queue # <<>>, queue' # <<>>
  PROVE  queue' = Tail(queue) \/ (queue'[1].id = Oldest.id /\ Len(queue') >= Len(queue))
<1> DEFINE Shape == queue' = Tail(queue) \/ (queue'[1].id = Oldest.id /\ Len(queue') >= Len(queue))
<1>1. /\ queue \in Seq(OperationType) /\ Oldest = queue[1] /\ Oldest \in OperationType
      /\ Len(queue) \in Nat \ {0} /\ 1 \in DOMAIN queue
  BY TypedState, FrontAndRest DEF Oldest
<1>2. ASSUME NEW op \in OperationType, op.id = Oldest.id, NEW outcome, CompleteInput(op, outcome)
      PROVE  Shape
  <2>1. CASE queue' = <<op>> \o Tail(queue)
    BY <1>1, <1>2, <2>1, PutBack
  <2> QED
    BY <1>2, <2>1, CompletionShape
<1>3. CASE UNCHANGED queue
  BY <1>1, <1>3
<1>4. CASE Push
  <2>1. PICK op : queue' = Append(queue, op)
    BY <1>4 DEF Push
  <2> QED
    BY <1>1, <2>1
<1>5. CASE Grant
  <2>1. queue' = [queue EXCEPT ![1] = [queue[1] EXCEPT !.accepted = TRUE]]
    BY <1>5, Zenon DEF Grant
  <2>2. queue'[1].id = queue[1].id /\ Len(queue') = Len(queue)
    BY <1>1, <2>1 DEF OperationType
  <2> QED
    BY <1>1, <2>2
<1>6. CASE Deny
  BY <1>1, <1>2, <1>6 DEF Deny
<1>7. CASE Run
  <2> PICK outcome \in Outcomes, p \in BOOLEAN, h \in BOOLEAN :
        LET op == AfterRun(Oldest, p, h)
        IN RunDirect(op, outcome) \/ RunNow(op, outcome) \/ RunSession(op, outcome)
    BY <1>7 DEF Run
  <2>1. CompleteInput(AfterRun(Oldest, p, h), outcome)
    BY DEF RunDirect, RunNow, RunSession
  <2> QED
    BY <1>1, <1>2, <2>1, RunKeepsIdentity
<1>8. CASE Supersede \/ DropSession \/ Cancel
  BY <1>8 DEF Supersede, DropSession, Cancel, CancelInput
<1> QED
  BY <1>3, <1>4, <1>5, <1>6, <1>7, <1>8
     DEF QueueNext, Ask, Request, Serve, Withdraw, Return, Pump, PumpEnter, PumpStop, PumpPost,
         Host, Activity, StaleSession, ModePump, queueVars

(* An operation leaves the queue from its front, or with all the others.    *)
THEOREM OnlyTheFrontLeaves == QueueSpec => LeavesFromTheFront
<1>1. QInv /\ [QueueNext]_queueVars
        => [queue # <<>> /\ queue' # <<>> =>
             queue' = Tail(queue) \/ (queue'[1].id = Oldest.id /\ Len(queue') >= Len(queue))]_queueVars
  BY FrontStep
<1> QED
  BY <1>1, QueueInvariant, PTL DEF QueueSpec, LeavesFromTheFront
=============================================================================
