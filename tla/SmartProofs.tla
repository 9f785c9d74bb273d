----------------------------- MODULE SmartProofs -----------------------------
(***************************************************************************)
(* Proofs about the sentence graph, its edits and the composition, for any *)
(* lexicon, bigram scores, spans and limits.                               *)
(*                                                                         *)
(* The walk of update is a recursive function over places from the last to *)
(* the first; it exists, by induction over the places that are left        *)
(* (WalkExists).  A graph (IsGraph) has typed nodes that begin at its      *)
(* readings, one for each query at a place, and the path that update       *)
(* chooses through them; every edit leads to one, and with KnownWords      *)
(* every word of the lexicon that the readings spell has a node.           *)
(*                                                                         *)
(* The heart is ShiftKeepsTheRest: taking the first word away leaves the   *)
(* path that was chosen behind it, because the word after it is fixed, and *)
(* the ways on from there are those there were, moved to the front.  Then  *)
(* enforce_limit, by induction over its turns, hands over from the front   *)
(* what was shown there, and the invariant of the composition follows:     *)
(* its graph is sound, cursor, mark and offers belong to it, and it is     *)
(* within its limit.                                                       *)
(***************************************************************************)
EXTENDS GraphEdits, SmartComposition, FiniteSetTheorems, SequenceTheorems, WellFoundedInduction,
        TLAPS

-----------------------------------------------------------------------------
(* Induction over the naturals, for a set of them.                          *)
LEMMA LeastNumber ==
  ASSUME NEW T, T \subseteq Nat, T # {}
  PROVE  \E x \in T : \A y \in T : x <= y
<1>1. PICK x \in T : \A y \in T : ~(<<y, x>> \in OpToRel(<, Nat))
  BY WFMin, NatLessThanWellFounded, Zenon
<1>2. \A y \in T : ~(y < x)
  BY <1>1 DEF OpToRel
<1> QED  BY <1>2

LEMMA NatSetInduction ==
  ASSUME NEW S, 0 \in S, \A n \in Nat : n \in S => n + 1 \in S
  PROVE  Nat \subseteq S
<1> DEFINE Rest == Nat \ S
<1> SUFFICES ASSUME Rest # {} PROVE FALSE
  OBVIOUS
<1>1. Rest \subseteq Nat
  OBVIOUS
<1>2. PICK x \in Rest : \A y \in Rest : x <= y
  <2> HIDE DEF Rest
  <2> QED  BY <1>1, LeastNumber
<1>3. x # 0
  OBVIOUS
<1>4. x - 1 \in Nat /\ x - 1 \in S
  BY <1>2, <1>3
<1> QED  BY <1>4

(* A relation that orders the members of a set, as pairs.                   *)
Orders(R, S) ==
  /\ \A a, b \in S : a # b => <<a, b>> \in R \/ <<b, a>> \in R
  /\ \A a, b \in S : ~(<<a, b>> \in R /\ <<b, a>> \in R)
  /\ \A a, b, c \in S : <<a, b>> \in R /\ <<b, c>> \in R => <<a, c>> \in R

(* Of finitely many, one comes before all the others.                       *)
LEMMA FirstOfFinite ==
  ASSUME NEW R, NEW S, IsFiniteSet(S), S # {}, Orders(R, S)
  PROVE  \E x \in S : \A y \in S \ {x} : <<x, y>> \in R
<1> DEFINE HasFirst(T) == \E x \in T : \A y \in T \ {x} : <<x, y>> \in R
           K == {n \in Nat : \A T \in SUBSET S : Cardinality(T) = n /\ T # {} => HasFirst(T)}
<1>1. \A T \in SUBSET S : IsFiniteSet(T) /\ Cardinality(T) \in Nat
  BY FS_Subset, FS_CardinalityType
<1>2. 0 \in K
  BY <1>1, FS_EmptySet
<1>3. ASSUME NEW n \in Nat, n \in K PROVE n + 1 \in K
  <2> SUFFICES ASSUME NEW T \in SUBSET S, Cardinality(T) = n + 1, T # {} PROVE HasFirst(T)
    OBVIOUS
  <2>1. PICK t \in T : TRUE
    OBVIOUS
  <2> DEFINE U == T \ {t}
  <2>2. U \in SUBSET S /\ Cardinality(U) = n
    BY <1>1, <2>1, FS_RemoveElement
  <2>3. CASE U = {}
    BY <2>1, <2>3
  <2>4. CASE U # {}
    <3>1. PICK u \in U : \A y \in U \ {u} : <<u, y>> \in R
      BY <1>3, <2>2, <2>4
    <3>2. CASE <<t, u>> \in R
      <4>1. \A y \in T \ {t} : <<t, y>> \in R
        BY <2>1, <3>1, <3>2 DEF Orders
      <4> QED  BY <2>1, <4>1
    <3>3. CASE <<u, t>> \in R
      <4>1. \A y \in T \ {u} : <<u, y>> \in R
        BY <2>1, <3>1, <3>3
      <4> QED  BY <3>1, <4>1
    <3> QED  BY <2>1, <3>1, <3>2, <3>3 DEF Orders
  <2> QED  BY <2>3, <2>4
<1> HIDE DEF K, HasFirst
<1>4. Nat \subseteq K
  BY <1>2, <1>3, NatSetInduction
<1>5. \A n \in Nat : \A T \in SUBSET S : Cardinality(T) = n /\ T # {} => HasFirst(T)
  BY <1>4 DEF K
<1>6. HasFirst(S)
  BY <1>1, <1>5
<1> QED  BY <1>6 DEF HasFirst

-----------------------------------------------------------------------------
(* What the lexicon holds.                                                  *)
Queries == DOMAIN Lexicon

LEMMA SomeEntries ==
  ASSUME NEW T, NEW s \in Seq(T), s # <<>>
  PROVE  Len(s) \in Nat \ {0} /\ DOMAIN s = 1..Len(s) /\ \A i \in 1..Len(s) : s[i] \in T
OBVIOUS

LEMMA QueryFacts ==
  ASSUME NEW q \in Queries
  PROVE  /\ q \in Seq(Int) /\ q # <<>> /\ Len(q) \in Nat \ {0} /\ DOMAIN q = 1..Len(q)
         /\ Words(q) = Lexicon[q] /\ Words(q) # <<>>
         /\ Words(q)[1].score \in Int
         /\ Words(q)[1].text \in Texts(q)
         /\ Texts(q) \subseteq AllTexts \ {NoText}
<1>1. q \in Seq(Int) \ {<<>>} /\ Words(q) = Lexicon[q]
      /\ Words(q) \in Seq([text : AllTexts \ {NoText}, score : Int]) \ {<<>>}
  BY LexiconAssumption DEF Queries, Words
<1>2. 1 \in DOMAIN Words(q)
  BY <1>1, SomeEntries
<1>3. \A i \in DOMAIN Words(q) : Words(q)[i] \in [text : AllTexts \ {NoText}, score : Int]
  <2> DEFINE Row == [text : AllTexts \ {NoText}, score : Int]
  <2>1. Words(q) \in Seq(Row) /\ Words(q) # <<>>
    BY <1>1
  <2> HIDE DEF Row
  <2>2. \A i \in DOMAIN Words(q) : Words(q)[i] \in Row
    BY <2>1, SomeEntries
  <2> QED  BY <2>2 DEF Row
<1> QED  BY <1>1, <1>2, <1>3 DEF Texts

-----------------------------------------------------------------------------
(* Nodes, and the order that sort_nodes gives them.                         *)
IsNode(n) ==
  /\ n = [start |-> n.start, query |-> n.query, fixed |-> n.fixed, previous |-> n.previous]
  /\ n.start \in Nat \ {0} /\ n.query \in Queries /\ Span(n) \in 1..MaxSpan
  /\ n.fixed \in Texts(n.query) \cup {NoText}

AreNodes(nodes) == IsFiniteSet(nodes) /\ \A n \in nodes : IsNode(n)

SamePlace(m, n) == m.start = n.start /\ m.query = n.query

(* No two nodes are of one word at one place.                               *)
OnePerPlace(nodes) == \A m, n \in nodes : SamePlace(m, n) => m = n

LEMMA NodeFacts ==
  ASSUME NEW n, IsNode(n)
  PROVE  /\ n.query \in Seq(Int) /\ n.query # <<>> /\ DOMAIN n.query = 1..Span(n)
         /\ Span(n) = Len(n.query) /\ Span(n) \in Nat \ {0} /\ End(n) \in Nat
         /\ End(n) = n.start + Span(n) /\ n.start < End(n) /\ End(n) <= n.start + MaxSpan
BY QueryFacts, SpanAssumption DEF IsNode, Span, End

(* Queries of one length differ at some reading first.                      *)
LEMMA QueryOrder ==
  ASSUME NEW p \in Seq(Int), NEW q \in Seq(Int), Len(p) = Len(q)
  PROVE  QueryBefore(p, q) <=>
           \E i \in 1..Len(p) : p[i] < q[i] /\ \A j \in 1..i - 1 : p[j] = q[j]
<1>1. ASSUME NEW i \in 1..Len(p)
      PROVE  SubSeq(p, 1, i - 1) = SubSeq(q, 1, i - 1) <=> \A j \in 1..i - 1 : p[j] = q[j]
  <2>1. SubSeq(p, 1, i - 1) = [j \in 1..i - 1 |-> p[j]] /\ SubSeq(q, 1, i - 1) = [j \in 1..i - 1 |-> q[j]]
    OBVIOUS
  <2> QED  BY <2>1
<1>2. DOMAIN p = 1..Len(p)
  OBVIOUS
<1>3. QueryBefore(p, q) <=>
        \E i \in 1..Len(p) : p[i] < q[i] /\ SubSeq(p, 1, i - 1) = SubSeq(q, 1, i - 1)
  BY <1>2 DEF QueryBefore
<1> QED  BY <1>1, <1>3

LEMMA QueriesDiffer ==
  ASSUME NEW p \in Seq(Int), NEW q \in Seq(Int), Len(p) = Len(q), p # q
  PROVE  QueryBefore(p, q) \/ QueryBefore(q, p)
<1> DEFINE D == {i \in 1..Len(p) : p[i] # q[i]}
<1>1. D # {} /\ D \subseteq Nat
  <2>1. p = [i \in 1..Len(p) |-> p[i]] /\ q = [i \in 1..Len(p) |-> q[i]]
    OBVIOUS
  <2> QED  BY <2>1
<1>2. PICK i \in D : \A j \in D : i <= j
  <2> HIDE DEF D
  <2> QED  BY <1>1, LeastNumber
<1>3. i \in 1..Len(p) /\ p[i] # q[i] /\ \A j \in 1..i - 1 : p[j] = q[j]
  BY <1>2
<1>4. p[i] \in Int /\ q[i] \in Int
  BY <1>3
<1>5. p[i] < q[i] \/ q[i] < p[i]
  BY <1>3, <1>4
<1>6. QueryBefore(p, q) <=> \E k \in 1..Len(p) : p[k] < q[k] /\ \A j \in 1..k - 1 : p[j] = q[j]
  BY QueryOrder
<1>7. QueryBefore(q, p) <=> \E k \in 1..Len(q) : q[k] < p[k] /\ \A j \in 1..k - 1 : q[j] = p[j]
  BY QueryOrder
<1> QED  BY <1>3, <1>5, <1>6, <1>7

LEMMA QueryAsymmetric ==
  ASSUME NEW p \in Seq(Int), NEW q \in Seq(Int), Len(p) = Len(q), QueryBefore(p, q)
  PROVE  ~QueryBefore(q, p)
<1>1. PICK i \in 1..Len(p) : p[i] < q[i] /\ \A j \in 1..i - 1 : p[j] = q[j]
  BY QueryOrder
<1>2. ASSUME NEW k \in 1..Len(p), q[k] < p[k], \A j \in 1..k - 1 : q[j] = p[j] PROVE FALSE
  <2>1. p[i] \in Int /\ q[i] \in Int /\ p[k] \in Int /\ q[k] \in Int
    OBVIOUS
  <2>2. CASE i < k
    BY <1>1, <1>2, <2>1, <2>2
  <2>3. CASE k < i
    BY <1>1, <1>2, <2>1, <2>3
  <2>4. CASE i = k
    BY <1>1, <1>2, <2>1, <2>4
  <2> QED  BY <2>2, <2>3, <2>4
<1>3. QueryBefore(q, p) <=> \E k \in 1..Len(q) : q[k] < p[k] /\ \A j \in 1..k - 1 : q[j] = p[j]
  BY QueryOrder
<1> QED  BY <1>2, <1>3

LEMMA QueryTransitive ==
  ASSUME NEW p \in Seq(Int), NEW q \in Seq(Int), NEW r \in Seq(Int),
         Len(p) = Len(q), Len(q) = Len(r), QueryBefore(p, q), QueryBefore(q, r)
  PROVE  QueryBefore(p, r)
<1>1. PICK i \in 1..Len(p) : p[i] < q[i] /\ \A j \in 1..i - 1 : p[j] = q[j]
  BY QueryOrder
<1>2. PICK k \in 1..Len(p) : q[k] < r[k] /\ \A j \in 1..k - 1 : q[j] = r[j]
  BY QueryOrder
<1>3. /\ p[i] \in Int /\ q[i] \in Int /\ r[i] \in Int
      /\ p[k] \in Int /\ q[k] \in Int /\ r[k] \in Int
  OBVIOUS
<1>4. QueryBefore(p, r) <=> \E x \in 1..Len(p) : p[x] < r[x] /\ \A j \in 1..x - 1 : p[j] = r[j]
  <2>1. Len(p) = Len(r)
    OBVIOUS
  <2> QED  BY <2>1, QueryOrder
<1>5. CASE i <= k
  <2>1. p[i] < r[i] /\ \A j \in 1..i - 1 : p[j] = r[j]
    <3>1. \A j \in 1..i - 1 : p[j] = r[j]
      BY <1>1, <1>2, <1>5
    <3>2. CASE i < k
      BY <1>1, <1>2, <1>3, <3>1, <3>2
    <3>3. CASE i = k
      BY <1>1, <1>2, <1>3, <3>1, <3>3
    <3> QED  BY <1>5, <3>2, <3>3
  <2> QED  BY <1>4, <2>1
<1>6. CASE k < i
  <2>1. p[k] < r[k] /\ \A j \in 1..k - 1 : p[j] = r[j]
    BY <1>1, <1>2, <1>3, <1>6
  <2> QED  BY <1>4, <2>1
<1> QED  BY <1>5, <1>6

(* The order of nodes, as pairs.                                            *)
BeforePairs(nodes) == {p \in nodes \X nodes : Before(p[1], p[2])}

LEMMA NodesOrdered ==
  ASSUME NEW a, NEW b, IsNode(a), IsNode(b)
  PROVE  /\ ~SamePlace(a, b) => Before(a, b) \/ Before(b, a)
         /\ ~(Before(a, b) /\ Before(b, a))
<1>1. a.query \in Seq(Int) /\ b.query \in Seq(Int) /\ Span(a) = Len(a.query) /\ Span(b) = Len(b.query)
      /\ Span(a) \in Nat /\ Span(b) \in Nat /\ a.start \in Nat /\ b.start \in Nat
  BY NodeFacts DEF IsNode
<1>2. Len(a.query) = Len(b.query) /\ a.query # b.query
         => QueryBefore(a.query, b.query) \/ QueryBefore(b.query, a.query)
  BY <1>1, QueriesDiffer
<1>3. Len(a.query) = Len(b.query) => ~(QueryBefore(a.query, b.query) /\ QueryBefore(b.query, a.query))
  BY <1>1, QueryAsymmetric
<1> QED  BY <1>1, <1>2, <1>3 DEF Before, SamePlace

LEMMA NodesTransitive ==
  ASSUME NEW a, NEW b, NEW c, IsNode(a), IsNode(b), IsNode(c), Before(a, b), Before(b, c)
  PROVE  Before(a, c)
<1>1. /\ a.query \in Seq(Int) /\ b.query \in Seq(Int) /\ c.query \in Seq(Int)
      /\ Span(a) = Len(a.query) /\ Span(b) = Len(b.query) /\ Span(c) = Len(c.query)
      /\ Span(a) \in Nat /\ Span(b) \in Nat /\ Span(c) \in Nat
      /\ a.start \in Nat /\ b.start \in Nat /\ c.start \in Nat
  BY NodeFacts DEF IsNode
<1>2. Len(a.query) = Len(b.query) /\ Len(b.query) = Len(c.query)
        /\ QueryBefore(a.query, b.query) /\ QueryBefore(b.query, c.query)
      => QueryBefore(a.query, c.query)
  BY <1>1, QueryTransitive
<1> QED  BY <1>1, <1>2 DEF Before

(* The first of some nodes is one of them, and no other comes before it.    *)
LEMMA FirstIsLeast ==
  ASSUME NEW nodes, AreNodes(nodes), OnePerPlace(nodes), nodes # {}
  PROVE  /\ First(nodes) \in nodes
         /\ \A m \in nodes : m = First(nodes) \/ Before(First(nodes), m)
<1>1. Orders(BeforePairs(nodes), nodes)
  <2>1. \A a, b \in nodes : <<a, b>> \in BeforePairs(nodes) <=> Before(a, b)
    BY DEF BeforePairs
  <2>2. \A a, b \in nodes : a # b => Before(a, b) \/ Before(b, a)
    BY NodesOrdered DEF AreNodes, OnePerPlace
  <2>3. \A a, b \in nodes : ~(Before(a, b) /\ Before(b, a))
    BY NodesOrdered DEF AreNodes
  <2>4. \A a, b, c \in nodes : Before(a, b) /\ Before(b, c) => Before(a, c)
    BY NodesTransitive DEF AreNodes
  <2> QED  BY <2>1, <2>2, <2>3, <2>4 DEF Orders
<1>2. PICK x \in nodes : \A y \in nodes \ {x} : <<x, y>> \in BeforePairs(nodes)
  BY <1>1, FirstOfFinite DEF AreNodes
<1>3. \A m \in nodes : m = x \/ Before(x, m)
  BY <1>2 DEF BeforePairs
<1> QED  BY <1>3 DEF First

LEMMA FirstIs ==
  ASSUME NEW nodes, AreNodes(nodes), NEW x \in nodes,
         \A m \in nodes : m = x \/ Before(x, m)
  PROVE  First(nodes) = x
<1>1. First(nodes) \in nodes /\ \A m \in nodes : m = First(nodes) \/ Before(First(nodes), m)
  BY DEF First
<1>2. ~(Before(x, First(nodes)) /\ Before(First(nodes), x))
  BY <1>1, NodesOrdered DEF AreNodes
<1> QED  BY <1>1, <1>2

-----------------------------------------------------------------------------
(* The walk of update, place by place.                                      *)
Following(nodes, at) == {m \in nodes : m.start = at}

Ways(nodes, walk, at, before) ==
  {Route(n, Best(n, before), walk[End(n)][Best(n, before).text]) : n \in Targets(Following(nodes, at))}

Column(nodes, walk, at) == [before \in AllTexts |-> BestRoute(Ways(nodes, walk, at, before))]

IsWalk(nodes, limit, walk) == walk = [at \in 1..limit |-> Column(nodes, walk, at)]

Walk(nodes, limit) == CHOOSE walk : IsWalk(nodes, limit, walk)

Horizon(readings) == Len(readings) + 2 * MaxSpan

LEMMA UpdatedIs ==
  ASSUME NEW readings, NEW nodes
  PROVE  Updated(readings, nodes) =
           [readings |-> readings, nodes |-> nodes,
            path |-> Walk(nodes, Horizon(readings))[1][NoText].path]
BY DEF Updated, Walk, IsWalk, Column, Ways, Following, Horizon

LEMMA UpdatedFields ==
  ASSUME NEW readings, NEW nodes
  PROVE  /\ Updated(readings, nodes).readings = readings
         /\ Updated(readings, nodes).nodes = nodes
         /\ Updated(readings, nodes).path = Walk(nodes, Horizon(readings))[1][NoText].path
BY UpdatedIs

LEMMA BestIsOfTheNode ==
  ASSUME NEW n, IsNode(n), NEW before
  PROVE  /\ Best(n, before).score \in Int /\ Best(n, before).text \in AllTexts \ {NoText}
         /\ Best(n, before).text \in Texts(n.query)
<1>1. CASE IsFixed(n)
  BY <1>1, QueryFacts DEF Best, IsNode, IsFixed, OverrideScore
<1>2. CASE ~IsFixed(n)
  <2> DEFINE word == Words(n.query)[1]
             pairs == Pairs(n, before)
             winning == {p \in pairs : p.score > word.score /\ \A q \in pairs : q.score <= p.score}
  <2>1. n.query \in Queries /\ word.score \in Int /\ word.text \in Texts(n.query) /\ Texts(n.query) \subseteq AllTexts \ {NoText}
    BY QueryFacts DEF IsNode
  <2>2. \A p \in pairs : p.score \in Int /\ p.text \in Texts(n.query)
    <3> SUFFICES ASSUME NEW p \in pairs PROVE p.score \in Int /\ p.text \in Texts(n.query)
      OBVIOUS
    <3>1. PICK t \in Texts(n.query) :
            <<before, t>> \in DOMAIN Bigrams /\ p = [text |-> t, score |-> Bigrams[<<before, t>>]]
      BY Zenon DEF Pairs
    <3>2. Bigrams[<<before, t>>] \in Int
      BY <3>1, BigramsAssumption
    <3> QED  BY <2>1, <3>1, <3>2
  <2>3. word \notin winning
    BY <2>1
  <2>4. \E w \in {word} \cup winning : w = word => winning = {}
    BY <2>3
  <2>5. Best(n, before) = CHOOSE w \in {word} \cup winning : w = word => winning = {}
    BY <1>2 DEF Best, Better
  <2>6. Best(n, before) \in {word} \cup pairs
    <3> HIDE DEF pairs, word
    <3> QED  BY <2>4, <2>5
  <2> QED  BY <2>1, <2>2, <2>6
<1> QED  BY <1>1, <1>2

LEMMA SomeNodes ==
  ASSUME NEW nodes, AreNodes(nodes), OnePerPlace(nodes), NEW some \in SUBSET nodes
  PROVE  AreNodes(some) /\ OnePerPlace(some)
BY FS_Subset DEF AreNodes, OnePerPlace

LEMMA TargetsAreSome ==
  ASSUME NEW nodes, AreNodes(nodes), OnePerPlace(nodes)
  PROVE  /\ Targets(nodes) \subseteq nodes
         /\ Targets(nodes) = {} <=> nodes = {}
         /\ IsFiniteSet(Targets(nodes))
<1> DEFINE fixed == {n \in nodes : IsFixed(n)}
<1>1. fixed # {} => First(fixed) \in fixed
  <2>1. AreNodes(fixed) /\ OnePerPlace(fixed)
    BY SomeNodes
  <2> HIDE DEF fixed
  <2> QED  BY <2>1, FirstIsLeast
<1>2. Targets(nodes) = IF fixed # {} THEN {First(fixed)} ELSE nodes
  BY DEF Targets
<1>3. Targets(nodes) \subseteq nodes /\ (Targets(nodes) = {} <=> nodes = {})
  BY <1>1, <1>2
<1> QED  BY <1>3, FS_Subset DEF AreNodes

(* What the walk has at a place depends on what it has behind it.           *)
LEMMA ColumnLooksAhead ==
  ASSUME NEW nodes, AreNodes(nodes), OnePerPlace(nodes), NEW limit \in Nat,
         \A n \in nodes : End(n) <= limit,
         NEW at \in 1..limit, NEW v, NEW w, \A e \in at + 1..limit : v[e] = w[e]
  PROVE  Column(nodes, v, at) = Column(nodes, w, at)
<1>1. \A n \in Targets(Following(nodes, at)) : v[End(n)] = w[End(n)]
  <2>1. AreNodes(Following(nodes, at)) /\ OnePerPlace(Following(nodes, at))
    BY SomeNodes DEF Following
  <2> SUFFICES ASSUME NEW n \in Targets(Following(nodes, at)) PROVE End(n) \in at + 1..limit
    OBVIOUS
  <2>2. n \in Following(nodes, at)
    BY <2>1, TargetsAreSome
  <2>3. n \in nodes /\ n.start = at /\ IsNode(n)
    BY <2>2 DEF Following, AreNodes
  <2> QED  BY <2>3, NodeFacts
<1>2. \A before \in AllTexts : Ways(nodes, v, at, before) = Ways(nodes, w, at, before)
  BY <1>1 DEF Ways
<1> QED  BY <1>2 DEF Column

(* The recursive function of update exists: nodes lead ahead.               *)
LEMMA WalkExists ==
  ASSUME NEW nodes, AreNodes(nodes), OnePerPlace(nodes), NEW limit \in Nat,
         \A n \in nodes : End(n) <= limit
  PROVE  IsWalk(nodes, limit, Walk(nodes, limit))
<1> DEFINE Walks(w, k) == \A at \in 1..limit : at > limit - k => w[at] = Column(nodes, w, at)
           Reach == {k \in Nat : k <= limit => \E w : DOMAIN w = 1..limit /\ w = [at \in 1..limit |-> w[at]] /\ Walks(w, k)}
<1>1. 0 \in Reach
  <2>1. Walks([at \in 1..limit |-> 0], 0)
    OBVIOUS
  <2> QED  BY <2>1
<1>2. ASSUME NEW k \in Nat, k \in Reach PROVE k + 1 \in Reach
  <2> SUFFICES ASSUME k + 1 <= limit
               PROVE  \E w : DOMAIN w = 1..limit /\ w = [at \in 1..limit |-> w[at]] /\ Walks(w, k + 1)
    OBVIOUS
  <2>1. PICK v : DOMAIN v = 1..limit /\ v = [at \in 1..limit |-> v[at]] /\ Walks(v, k)
    BY <1>2
  <2> DEFINE here == limit - k
             w == [at \in 1..limit |-> IF at = here THEN Column(nodes, v, at) ELSE v[at]]
  <2>2. here \in 1..limit
    OBVIOUS
  <2>3. \A e \in here + 1..limit : w[e] = v[e]
    OBVIOUS
  <2>4. \A at \in 1..limit : at >= here => Column(nodes, w, at) = Column(nodes, v, at)
    <3> SUFFICES ASSUME NEW at \in 1..limit, at >= here PROVE Column(nodes, w, at) = Column(nodes, v, at)
      OBVIOUS
    <3>1. \A e \in at + 1..limit : w[e] = v[e]
      BY <2>3
    <3> HIDE DEF w, here
    <3> QED  BY <3>1, ColumnLooksAhead
  <2>5. ASSUME NEW at \in 1..limit, at > limit - (k + 1) PROVE w[at] = Column(nodes, w, at)
    <3>1. at >= here
      BY <2>5
    <3>2. Column(nodes, w, at) = Column(nodes, v, at)
      BY <2>4, <3>1
    <3>3. CASE at = here
      BY <3>2, <3>3
    <3>4. CASE at # here
      <4>1. v[at] = Column(nodes, v, at)
        BY <2>1, <3>1, <3>4
      <4> QED  BY <3>2, <3>4, <4>1
    <3> QED  BY <3>3, <3>4
  <2>6. DOMAIN w = 1..limit /\ w = [at \in 1..limit |-> w[at]]
    OBVIOUS
  <2> HIDE DEF w
  <2> QED  BY <2>5, <2>6
<1> HIDE DEF Reach
<1>3. limit \in Reach
  BY <1>1, <1>2, NatSetInduction
<1>4. PICK w : w = [at \in 1..limit |-> w[at]] /\ \A at \in 1..limit : w[at] = Column(nodes, w, at)
  BY <1>3 DEF Reach
<1>5. IsWalk(nodes, limit, w)
  BY <1>4 DEF IsWalk
<1> QED  BY <1>5 DEF Walk

-----------------------------------------------------------------------------
(* The best of some routes.                                                 *)
AreRoutes(routes) ==
  /\ IsFiniteSet(routes)
  /\ \A r \in routes : r.total \in Int /\ IsNode(r.node)
  /\ \A r, s \in routes : SamePlace(r.node, s.node) => r = s

Beats(r, s) == r.total > s.total \/ (r.total = s.total /\ Before(r.node, s.node))
Wins(routes, r) == r \in routes /\ \A s \in routes \ {r} : Beats(r, s)

LEMMA BestRouteWins ==
  ASSUME NEW routes, AreRoutes(routes), routes # {}
  PROVE  Wins(routes, BestRoute(routes))
<1> DEFINE R == {p \in routes \X routes : Beats(p[1], p[2])}
<1>1. \A a, b \in routes : <<a, b>> \in R <=> Beats(a, b)
  OBVIOUS
<1>2. \A a, b \in routes : a # b => Beats(a, b) \/ Beats(b, a)
  BY NodesOrdered DEF AreRoutes, Beats
<1>3. \A a, b \in routes : ~(Beats(a, b) /\ Beats(b, a))
  BY NodesOrdered DEF AreRoutes, Beats
<1>4. \A a, b, c \in routes : Beats(a, b) /\ Beats(b, c) => Beats(a, c)
  BY NodesTransitive DEF AreRoutes, Beats
<1>5. Orders(R, routes)
  BY <1>1, <1>2, <1>3, <1>4 DEF Orders
<1>6. PICK x \in routes : \A y \in routes \ {x} : <<x, y>> \in R
  <2> HIDE DEF R
  <2> QED  BY <1>5, FirstOfFinite DEF AreRoutes
<1>7. Wins(routes, x)
  BY <1>1, <1>6 DEF Wins
<1> QED  BY <1>7 DEF BestRoute, Wins, Beats

LEMMA BestRouteIs ==
  ASSUME NEW routes, AreRoutes(routes), NEW r, Wins(routes, r)
  PROVE  BestRoute(routes) = r
<1>1. r \in routes /\ routes # {}
  BY DEF Wins
<1>2. Wins(routes, BestRoute(routes))
  BY <1>1, BestRouteWins
<1>3. ~(Beats(r, BestRoute(routes)) /\ Beats(BestRoute(routes), r))
  <2>1. r.total \in Int /\ BestRoute(routes).total \in Int /\ IsNode(r.node) /\ IsNode(BestRoute(routes).node)
    BY <1>1, <1>2 DEF AreRoutes, Wins
  <2> QED  BY <2>1, NodesOrdered DEF Beats
<1> QED  BY <1>2, <1>3 DEF Wins

-----------------------------------------------------------------------------
(* What is true of a walk whose nodes all end before its limit.             *)
Bounded(nodes, limit) ==
  /\ AreNodes(nodes) /\ OnePerPlace(nodes)
  /\ limit \in Nat \ {0} /\ \A n \in nodes : End(n) <= limit

Entries(nodes) == {e \in [node : nodes, text : AllTexts] : e.text \in Texts(e.node.query)}

IsOnward(nodes, r) == r.total \in Int /\ r.path \in Seq(Entries(nodes))

LEMMA WaysAreRoutes ==
  ASSUME NEW nodes, NEW limit, Bounded(nodes, limit), NEW at \in 1..limit, NEW before \in AllTexts,
         NEW w, \A e \in at + 1..limit : \A b \in AllTexts : IsOnward(nodes, w[e][b])
  PROVE  /\ AreRoutes(Ways(nodes, w, at, before))
         /\ \A r \in Ways(nodes, w, at, before) :
              IsOnward(nodes, r) /\ r.path # <<>> /\ r.path[1].node \in Following(nodes, at)
         /\ Ways(nodes, w, at, before) = {} <=> Following(nodes, at) = {}
<1> DEFINE targets == Targets(Following(nodes, at))
           way(n) == Route(n, Best(n, before), w[End(n)][Best(n, before).text])
           ways == Ways(nodes, w, at, before)
<1>1. targets \subseteq Following(nodes, at) /\ (targets = {} <=> Following(nodes, at) = {})
      /\ IsFiniteSet(targets)
  <2>1. AreNodes(Following(nodes, at)) /\ OnePerPlace(Following(nodes, at))
    BY SomeNodes DEF Following, Bounded
  <2> QED  BY <2>1, TargetsAreSome
<1>2. ways = {way(n) : n \in targets}
  BY DEF Ways
<1>3. ASSUME NEW n \in targets
      PROVE  /\ way(n).node = n /\ IsNode(n) /\ n \in nodes /\ n.start = at
             /\ IsOnward(nodes, way(n)) /\ way(n).path # <<>> /\ way(n).path[1].node = n
  <2>1. n \in nodes /\ n.start = at /\ IsNode(n)
    BY <1>1 DEF Following, Bounded, AreNodes
  <2>2. End(n) \in at + 1..limit
    BY <2>1, NodeFacts DEF Bounded
  <2> DEFINE best == Best(n, before)
             rest == w[End(n)][best.text]
  <2>3. best.score \in Int /\ best.text \in AllTexts /\ best.text \in Texts(n.query)
    BY <2>1, BestIsOfTheNode
  <2>4. rest.total \in Int /\ rest.path \in Seq(Entries(nodes))
    BY <2>2, <2>3 DEF IsOnward
  <2>5. way(n) = [node |-> n, total |-> best.score + rest.total,
                  path |-> <<[node |-> n, text |-> best.text]>> \o rest.path]
    BY DEF Route
  <2> HIDE DEF best, rest
  <2>6. [node |-> n, text |-> best.text] \in Entries(nodes)
    BY <2>1, <2>3 DEF Entries
  <2>7. /\ <<[node |-> n, text |-> best.text]>> \o rest.path \in Seq(Entries(nodes))
        /\ <<[node |-> n, text |-> best.text]>> \o rest.path # <<>>
        /\ (<<[node |-> n, text |-> best.text]>> \o rest.path)[1] = [node |-> n, text |-> best.text]
    BY <2>4, <2>6
  <2> QED  BY <2>1, <2>3, <2>4, <2>5, <2>7 DEF IsOnward
<1>4. IsFiniteSet(ways)
  <2> DEFINE f == [n \in targets |-> way(n)]
  <2>1. f \in Surjection(targets, ways)
    BY <1>2 DEF Surjection
  <2> HIDE DEF f
  <2> QED  BY <1>1, <2>1, FS_Surjection
<1> HIDE DEF way, targets
<1>5. \A r \in ways : \E n \in targets : r = way(n)
  BY <1>2
<1>6. \A r, s \in ways : SamePlace(r.node, s.node) => r = s
  BY <1>3, <1>5 DEF Bounded, OnePerPlace
<1>7. \A r \in ways : /\ r.total \in Int /\ IsNode(r.node)
                      /\ IsOnward(nodes, r) /\ r.path # <<>> /\ r.path[1].node \in Following(nodes, at)
  BY <1>3, <1>5 DEF IsOnward, Following
<1>8. ways = {} <=> targets = {}
  BY <1>2
<1> QED  BY <1>1, <1>4, <1>6, <1>7, <1>8 DEF AreRoutes

LEMMA BestRouteOfNone == BestRoute({}) = [total |-> 0, path |-> <<>>]
BY DEF BestRoute

LEMMA WalkLeadsOn ==
  ASSUME NEW nodes, NEW limit, Bounded(nodes, limit), NEW w, IsWalk(nodes, limit, w)
  PROVE  \A at \in 1..limit : \A before \in AllTexts :
           /\ w[at][before] = BestRoute(Ways(nodes, w, at, before))
           /\ IsOnward(nodes, w[at][before])
<1>1. ASSUME NEW at \in 1..limit, NEW before \in AllTexts
      PROVE  w[at][before] = BestRoute(Ways(nodes, w, at, before))
  <2>1. w[at] = Column(nodes, w, at)
    BY DEF IsWalk
  <2> QED  BY <2>1 DEF Column
<1> DEFINE Good(at) == \A before \in AllTexts : IsOnward(nodes, w[at][before])
           Reach == {k \in Nat : \A at \in 1..limit : at > limit - k => Good(at)}
<1> HIDE DEF Good
<1>2. 0 \in Reach
  BY DEF Bounded
<1>3. ASSUME NEW k \in Nat, k \in Reach PROVE k + 1 \in Reach
  <2> SUFFICES ASSUME NEW at \in 1..limit, at > limit - (k + 1) PROVE Good(at)
    OBVIOUS
  <2> SUFFICES ASSUME NEW before \in AllTexts PROVE IsOnward(nodes, w[at][before])
    BY DEF Good
  <2> DEFINE ways == Ways(nodes, w, at, before)
  <2>1. limit \in Nat
    BY DEF Bounded
  <2>2. \A e \in at + 1..limit : Good(e)
    BY <1>3, <2>1
  <2>3. /\ AreRoutes(ways)
        /\ \A r \in ways : IsOnward(nodes, r)
    BY <2>2, WaysAreRoutes DEF Good
  <2>4. CASE ways = {}
    <3>1. w[at][before] = [total |-> 0, path |-> <<>>]
      BY <1>1, <2>4, BestRouteOfNone
    <3> QED  BY <3>1 DEF IsOnward
  <2>5. CASE ways # {}
    <3>1. Wins(ways, BestRoute(ways))
      BY <2>3, <2>5, BestRouteWins
    <3> QED  BY <1>1, <2>3, <3>1 DEF Wins
  <2> QED  BY <2>4, <2>5
<1> HIDE DEF Reach
<1>4. limit \in Reach
  BY <1>2, <1>3, NatSetInduction DEF Bounded
<1>5. \A at \in 1..limit : Good(at)
  BY <1>4 DEF Reach, Bounded
<1> QED  BY <1>1, <1>5 DEF Good

-----------------------------------------------------------------------------
(* A graph: its nodes begin at its readings, and update chose its path.     *)
Standing(readings, nodes) ==
  /\ readings \in Seq(Readings)
  /\ AreNodes(nodes) /\ OnePerPlace(nodes)
  /\ \A n \in nodes : n.start <= Len(readings)

IsGraph(g) ==
  /\ Standing(g.readings, g.nodes)
  /\ g = Updated(g.readings, g.nodes)

WalkOf(g) == Walk(g.nodes, Horizon(g.readings))

TextOf(path) == [i \in DOMAIN path |-> path[i].text]

LEMMA StandingBounded ==
  ASSUME NEW readings, NEW nodes, Standing(readings, nodes)
  PROVE  /\ Bounded(nodes, Horizon(readings))
         /\ IsWalk(nodes, Horizon(readings), Walk(nodes, Horizon(readings)))
<1>1. Len(readings) \in Nat
  BY DEF Standing
<1>2. Horizon(readings) \in Nat \ {0} /\ Len(readings) + MaxSpan <= Horizon(readings)
  BY <1>1, SpanAssumption DEF Horizon
<1>3. \A n \in nodes : End(n) <= Horizon(readings)
  <2> SUFFICES ASSUME NEW n \in nodes PROVE End(n) <= Horizon(readings)
    OBVIOUS
  <2>1. n.start <= Len(readings) /\ n.start \in Nat /\ End(n) \in Nat /\ End(n) <= n.start + MaxSpan
    BY NodeFacts DEF Standing, AreNodes, IsNode
  <2> QED  BY <1>1, <1>2, <2>1, SpanAssumption
<1>4. Bounded(nodes, Horizon(readings))
  BY <1>2, <1>3 DEF Bounded, Standing
<1> QED  BY <1>4, WalkExists DEF Bounded

Leads(nodes, limit, walk, at, before, n) ==
  /\ n \in nodes /\ IsNode(n) /\ n.start = at /\ End(n) \in at + 1..limit
  /\ Best(n, before).text \in Texts(n.query) /\ Best(n, before).text \in AllTexts \ {NoText}
  /\ walk[at][before].path =
       <<[node |-> n, text |-> Best(n, before).text]>> \o walk[End(n)][Best(n, before).text].path

(* Along a walk, each place leads to the next node's end.                   *)
LEMMA WalkUnfolds ==
  ASSUME NEW nodes, NEW limit, Bounded(nodes, limit), NEW w, IsWalk(nodes, limit, w),
         NEW at \in 1..limit, NEW before \in AllTexts
  PROVE  /\ Following(nodes, at) = {} => w[at][before].path = <<>>
         /\ Following(nodes, at) # {} =>
              \E n \in Targets(Following(nodes, at)) : Leads(nodes, limit, w, at, before, n)
<1> DEFINE ways == Ways(nodes, w, at, before)
<1>1. \A e \in 1..limit : \A b \in AllTexts :
        w[e][b] = BestRoute(Ways(nodes, w, e, b)) /\ IsOnward(nodes, w[e][b])
  BY WalkLeadsOn
<1>2. AreRoutes(ways) /\ (ways = {} <=> Following(nodes, at) = {})
  BY <1>1, WaysAreRoutes
<1>3. w[at][before] = BestRoute(ways)
  BY <1>1
<1>4. Following(nodes, at) = {} => w[at][before].path = <<>>
  <2> SUFFICES ASSUME Following(nodes, at) = {} PROVE w[at][before].path = <<>>
    OBVIOUS
  <2>1. ways = {}
    BY <1>2
  <2> HIDE DEF ways
  <2>2. w[at][before] = [total |-> 0, path |-> <<>>]
    BY <1>3, <2>1, BestRouteOfNone
  <2> QED  BY <2>2
<1>5. ASSUME Following(nodes, at) # {}
      PROVE  \E n \in Targets(Following(nodes, at)) : Leads(nodes, limit, w, at, before, n)
  <2>1. BestRoute(ways) \in ways
    BY <1>2, <1>5, BestRouteWins DEF Wins
  <2>2. PICK n \in Targets(Following(nodes, at)) :
          w[at][before] = Route(n, Best(n, before), w[End(n)][Best(n, before).text])
    BY <1>3, <2>1 DEF Ways
  <2>3. AreNodes(Following(nodes, at)) /\ OnePerPlace(Following(nodes, at))
    BY SomeNodes DEF Following, Bounded
  <2>4. n \in Following(nodes, at)
    BY <2>3, TargetsAreSome
  <2>5. n \in nodes /\ n.start = at /\ IsNode(n)
    BY <2>4 DEF Following, Bounded, AreNodes
  <2>6. End(n) \in at + 1..limit
    BY <2>5, NodeFacts DEF Bounded
  <2>7. Best(n, before).text \in Texts(n.query) /\ Best(n, before).text \in AllTexts \ {NoText}
    BY <2>5, BestIsOfTheNode
  <2>8. w[at][before].path =
          <<[node |-> n, text |-> Best(n, before).text]>> \o w[End(n)][Best(n, before).text].path
    <3> DEFINE word == Best(n, before)
               rest == w[End(n)][word.text]
    <3>1. w[at][before] = [node |-> n, total |-> word.score + rest.total,
                           path |-> <<[node |-> n, text |-> word.text]>> \o rest.path]
      BY <2>2 DEF Route
    <3> HIDE DEF word, rest
    <3>2. w[at][before].path = <<[node |-> n, text |-> word.text]>> \o rest.path
      BY <3>1
    <3> QED  BY <3>2 DEF word, rest
  <2>9. Leads(nodes, limit, w, at, before, n)
    BY <2>5, <2>6, <2>7, <2>8 DEF Leads
  <2> QED  BY <2>9
<1> QED  BY <1>4, <1>5

(* The path of a graph begins at its first reading, if a node does.         *)
LEMMA GraphPath ==
  ASSUME NEW g, IsGraph(g)
  PROVE  /\ g.path \in Seq(Entries(g.nodes)) /\ g.path = WalkOf(g)[1][NoText].path
         /\ g.path = <<>> <=> Following(g.nodes, 1) = {}
         /\ g.path # <<>> =>
              /\ g.path[1].node \in g.nodes /\ g.path[1].node.start = 1 /\ IsNode(g.path[1].node)
              /\ g.path[1].text \in AllTexts \ {NoText}
              /\ End(g.path[1].node) \in 2..Horizon(g.readings)
              /\ Tail(g.path) = WalkOf(g)[End(g.path[1].node)][g.path[1].text].path
<1> DEFINE w == WalkOf(g)
           limit == Horizon(g.readings)
<1>1. Bounded(g.nodes, limit) /\ IsWalk(g.nodes, limit, w)
  BY StandingBounded DEF IsGraph, WalkOf
<1>2. g.path = w[1][NoText].path
  BY UpdatedFields DEF IsGraph, WalkOf
<1>3. 1 \in 1..limit /\ NoText \in AllTexts
  BY <1>1 DEF Bounded, AllTexts
<1> HIDE DEF w, limit
<1>4. \A e \in 1..limit : \A b \in AllTexts : w[e][b].path \in Seq(Entries(g.nodes))
  BY <1>1, WalkLeadsOn DEF IsOnward
<1>5. Following(g.nodes, 1) = {} => g.path = <<>>
  BY <1>1, <1>2, <1>3, WalkUnfolds
<1>6. ASSUME Following(g.nodes, 1) # {}
      PROVE  /\ g.path # <<>>
             /\ g.path[1].node \in g.nodes /\ g.path[1].node.start = 1 /\ IsNode(g.path[1].node)
             /\ g.path[1].text \in AllTexts \ {NoText}
             /\ End(g.path[1].node) \in 2..limit
             /\ Tail(g.path) = w[End(g.path[1].node)][g.path[1].text].path
  <2>0. PICK n \in Targets(Following(g.nodes, 1)) : Leads(g.nodes, limit, w, 1, NoText, n)
    BY <1>1, <1>3, <1>6, WalkUnfolds
  <2>1. /\ n \in g.nodes /\ IsNode(n) /\ n.start = 1 /\ End(n) \in 2..limit
        /\ Best(n, NoText).text \in AllTexts \ {NoText} /\ Best(n, NoText).text \in Texts(n.query)
        /\ w[1][NoText].path =
             <<[node |-> n, text |-> Best(n, NoText).text]>> \o w[End(n)][Best(n, NoText).text].path
    BY <2>0 DEF Leads
  <2> DEFINE entry == [node |-> n, text |-> Best(n, NoText).text]
             rest == w[End(n)][Best(n, NoText).text].path
  <2>2. rest \in Seq(Entries(g.nodes)) /\ entry \in Entries(g.nodes)
    <3>1. End(n) \in 1..limit
      BY <2>1
    <3> QED  BY <1>4, <2>1, <3>1 DEF Entries
  <2>3. g.path = <<entry>> \o rest
    BY <1>2, <2>1
  <2>4. entry.node = n /\ entry.text = Best(n, NoText).text
    OBVIOUS
  <2> HIDE DEF entry, rest
  <2>5. g.path # <<>> /\ g.path[1] = entry /\ Tail(g.path) = rest
    BY <2>2, <2>3
  <2> QED  BY <2>1, <2>4, <2>5 DEF rest
<1>7. g.path \in Seq(Entries(g.nodes))
  BY <1>2, <1>3, <1>4
<1> QED  BY <1>2, <1>5, <1>6, <1>7 DEF w, limit

-----------------------------------------------------------------------------
(* Nodes moved to the front, as a shift moves those behind the first word.  *)
Moved(n, d) == [n EXCEPT !.start = @ - d]

LEMMA MovedNode ==
  ASSUME NEW n, IsNode(n), NEW d \in Nat, n.start - d >= 1
  PROVE  LET m == Moved(n, d) IN
         /\ IsNode(m) /\ m.start = n.start - d /\ m.query = n.query /\ m.fixed = n.fixed
         /\ m.previous = n.previous
         /\ Span(m) = Span(n) /\ End(m) = End(n) - d /\ (IsFixed(m) <=> IsFixed(n))
<1> DEFINE m == Moved(n, d)
<1>1. m.start = n.start - d /\ m.query = n.query /\ m.fixed = n.fixed /\ m.previous = n.previous
  BY DEF Moved, IsNode
<1>2. m = [start |-> m.start, query |-> m.query, fixed |-> m.fixed, previous |-> m.previous]
  <2>1. n = [start |-> n.start, query |-> n.query, fixed |-> n.fixed, previous |-> n.previous]
    BY DEF IsNode
  <2>2. m = [start |-> n.start - d, query |-> n.query, fixed |-> n.fixed, previous |-> n.previous]
    BY <2>1 DEF Moved
  <2> QED  BY <2>2
<1> HIDE DEF m
<1>3. Span(m) = Span(n)
  BY <1>1 DEF Span
<1>4. IsNode(m)
  BY <1>1, <1>2, <1>3 DEF IsNode
<1>5. End(m) = End(n) - d
  BY <1>1, <1>3, NodeFacts DEF IsNode, End
<1> QED  BY <1>1, <1>3, <1>4, <1>5 DEF m, IsFixed

LEMMA MovedBest ==
  ASSUME NEW n, NEW m, m.query = n.query, m.fixed = n.fixed, m.previous = n.previous, NEW before
  PROVE  Best(m, before) = Best(n, before)
BY DEF Best, IsFixed, Pairs

LEMMA MovedBefore ==
  ASSUME NEW a, NEW b, IsNode(a), IsNode(b), NEW d \in Nat, a.start - d >= 1, b.start - d >= 1
  PROVE  /\ Before(Moved(a, d), Moved(b, d)) <=> Before(a, b)
         /\ SamePlace(Moved(a, d), Moved(b, d)) <=> SamePlace(a, b)
<1> DEFINE am == Moved(a, d)
           bm == Moved(b, d)
<1>1. am.start = a.start - d /\ am.query = a.query /\ Span(am) = Span(a)
  BY MovedNode
<1>2. bm.start = b.start - d /\ bm.query = b.query /\ Span(bm) = Span(b)
  BY MovedNode
<1>3. a.start \in Nat /\ b.start \in Nat
  BY DEF IsNode
<1> HIDE DEF am, bm
<1>4. Before(am, bm) <=> Before(a, b)
  BY <1>1, <1>2, <1>3 DEF Before
<1>5. SamePlace(am, bm) <=> SamePlace(a, b)
  BY <1>1, <1>2, <1>3 DEF SamePlace
<1> QED  BY <1>4, <1>5 DEF am, bm

LEMMA TargetsMove ==
  ASSUME NEW nodes, AreNodes(nodes), OnePerPlace(nodes), NEW moved, AreNodes(moved), OnePerPlace(moved),
         NEW d \in Nat, \A n \in nodes : n.start - d >= 1, moved = {Moved(n, d) : n \in nodes}
  PROVE  Targets(moved) = {Moved(n, d) : n \in Targets(nodes)}
<1> DEFINE fixed == {n \in nodes : IsFixed(n)}
           fixedMoved == {m \in moved : IsFixed(m)}
<1>1. \A n \in nodes : IsFixed(Moved(n, d)) <=> IsFixed(n)
  BY MovedNode DEF AreNodes
<1>2. fixedMoved = {Moved(n, d) : n \in fixed}
  BY <1>1
<1>3. Targets(nodes) = IF fixed # {} THEN {First(fixed)} ELSE nodes
  BY DEF Targets
<1>4. Targets(moved) = IF fixedMoved # {} THEN {First(fixedMoved)} ELSE moved
  BY DEF Targets
<1>5. CASE fixed = {}
  BY <1>2, <1>3, <1>4, <1>5
<1>6. CASE fixed # {}
  <2>1. AreNodes(fixed) /\ OnePerPlace(fixed) /\ AreNodes(fixedMoved)
    BY SomeNodes
  <2> DEFINE x == First(fixed)
  <2>2. x \in fixed /\ \A m \in fixed : m = x \/ Before(x, m)
    <3> HIDE DEF fixed
    <3> QED  BY <1>6, <2>1, FirstIsLeast
  <2>3. x \in nodes /\ IsNode(x) /\ x.start - d >= 1 /\ Moved(x, d) \in fixedMoved
    BY <1>2, <2>2 DEF AreNodes
  <2> HIDE DEF x
  <2>4. \A m \in fixedMoved : m = Moved(x, d) \/ Before(Moved(x, d), m)
    <3> SUFFICES ASSUME NEW n \in fixed, n # x PROVE Before(Moved(x, d), Moved(n, d))
      BY <1>2
    <3>1. Before(x, n) /\ IsNode(n) /\ n.start - d >= 1
      BY <2>2 DEF AreNodes
    <3> QED  BY <2>3, <3>1, MovedBefore
  <2>5. First(fixedMoved) = Moved(x, d)
    <3> HIDE DEF fixedMoved
    <3> QED  BY <2>1, <2>3, <2>4, FirstIs
  <2> QED  BY <1>3, <1>4, <1>6, <2>3, <2>5 DEF x
<1> QED  BY <1>5, <1>6

(* The walk from a place behind which the nodes moved is as it was.         *)
SameWay(r, s) == r.total = s.total /\ TextOf(r.path) = TextOf(s.path)

LEMMA TextOfOnward ==
  ASSUME NEW nodes, NEW n \in nodes, NEW t \in AllTexts, NEW p \in Seq(Entries(nodes))
  PROVE  TextOf(<<[node |-> n, text |-> t]>> \o p) = <<t>> \o TextOf(p)
<1> DEFINE e == [node |-> n, text |-> t]
           all == [node : nodes, text : AllTexts]
<1>1. e \in all /\ e.text = t
  OBVIOUS
<1>0. p \in Seq(all)
  <2>1. Entries(nodes) \subseteq all
    BY DEF Entries
  <2> HIDE DEF all
  <2> QED  BY <2>1
<1> HIDE DEF e, all
<1>2. <<e>> \o p = [i \in 1..Len(p) + 1 |-> IF i = 1 THEN e ELSE p[i - 1]]
  BY <1>0, <1>1
<1>3. TextOf(<<e>> \o p) = [i \in 1..Len(p) + 1 |-> IF i = 1 THEN t ELSE p[i - 1].text]
  BY <1>1, <1>2 DEF TextOf
<1>4. TextOf(p) = [i \in 1..Len(p) |-> p[i].text]
  BY DEF TextOf
<1>5. TextOf(p) \in Seq(AllTexts) /\ Len(TextOf(p)) = Len(p)
  <2>1. \A i \in 1..Len(p) : p[i].text \in AllTexts
    <3>1. \A i \in 1..Len(p) : p[i] \in Entries(nodes)
      OBVIOUS
    <3> QED  BY <3>1 DEF Entries
  <2> QED  BY <1>4, <2>1
<1>6. <<t>> \o TextOf(p) = [i \in 1..Len(p) + 1 |-> IF i = 1 THEN t ELSE TextOf(p)[i - 1]]
  BY <1>5
<1>7. \A i \in 1..Len(p) + 1 : i # 1 => TextOf(p)[i - 1] = p[i - 1].text
  BY <1>4
<1> QED  BY <1>3, <1>6, <1>7 DEF e

LEMMA WaysMove ==
  ASSUME NEW nodes, NEW limit, Bounded(nodes, limit), NEW w, IsWalk(nodes, limit, w),
         NEW d \in Nat, d < limit, NEW moved, Bounded(moved, limit - d),
         NEW v, IsWalk(moved, limit - d, v),
         NEW at \in d + 1..limit,
         Following(moved, at - d) = {Moved(n, d) : n \in Following(nodes, at)},
         \A e \in at + 1..limit : \A b \in AllTexts : SameWay(v[e - d][b], w[e][b]),
         NEW before \in AllTexts
  PROVE  SameWay(v[at - d][before], w[at][before])
<1> DEFINE F == Following(nodes, at)
           G == Following(moved, at - d)
           targets == Targets(F)
           way(n) == Route(n, Best(n, before), w[End(n)][Best(n, before).text])
           there(m) == Route(m, Best(m, before), v[End(m)][Best(m, before).text])
           ways == Ways(nodes, w, at, before)
           others == Ways(moved, v, at - d, before)
<1>0. d \in Nat /\ limit \in Nat /\ limit - d \in Nat /\ at - d \in 1..limit - d
  BY DEF Bounded
<1>1. /\ AreNodes(F) /\ OnePerPlace(F) /\ AreNodes(G) /\ OnePerPlace(G)
      /\ F \subseteq nodes /\ \A n \in F : n.start = at /\ IsNode(n) /\ n.start - d >= 1
  BY <1>0, SomeNodes DEF Following, Bounded, AreNodes
<1>2. Targets(G) = {Moved(n, d) : n \in targets}
  BY <1>1, TargetsMove
<1>3. targets \subseteq F
  BY <1>1, TargetsAreSome
<1>4. /\ ways = {way(n) : n \in targets}
      /\ others = {there(m) : m \in Targets(G)}
  BY DEF Ways
<1>5. others = {there(Moved(n, d)) : n \in targets}
  BY <1>2, <1>4
<1>6. ASSUME NEW n \in targets
      PROVE  /\ n \in nodes /\ IsNode(n) /\ n.start - d >= 1
             /\ way(n).node = n /\ there(Moved(n, d)).node = Moved(n, d)
             /\ SameWay(there(Moved(n, d)), way(n))
  <2> DEFINE m == Moved(n, d)
             best == Best(n, before)
             rest == w[End(n)][best.text]
             onward == v[End(m)][best.text]
  <2>1. n \in nodes /\ IsNode(n) /\ n.start - d >= 1 /\ n.start = at
    BY <1>1, <1>3
  <2>2. /\ m.query = n.query /\ m.fixed = n.fixed /\ m.previous = n.previous
        /\ End(m) = End(n) - d /\ m \in moved /\ m.start = at - d
    <3>1. m \in G
      BY <1>3
    <3> QED  BY <2>1, <3>1, MovedNode DEF Following
  <2>3. Best(m, before) = best
    BY <2>2, MovedBest
  <2>4. best.text \in AllTexts /\ best.score \in Int
    BY <2>1, BestIsOfTheNode
  <2>5. End(n) \in at + 1..limit /\ End(m) \in 1..limit - d
    BY <2>1, <2>2, <1>0, NodeFacts DEF Bounded
  <2>6. SameWay(onward, rest)
    BY <2>2, <2>4, <2>5
  <2>7. IsOnward(nodes, rest) /\ IsOnward(moved, onward)
    <3>1. End(n) \in 1..limit
      BY <2>5, <1>0
    <3> QED  BY <2>4, <2>5, <3>1, WalkLeadsOn
  <2>8. way(n) = [node |-> n, total |-> best.score + rest.total,
                  path |-> <<[node |-> n, text |-> best.text]>> \o rest.path]
    BY DEF Route
  <2>9. there(m) = [node |-> m, total |-> best.score + onward.total,
                    path |-> <<[node |-> m, text |-> best.text]>> \o onward.path]
    BY <2>3 DEF Route
  <2> HIDE DEF m, best, rest, onward
  <2>10. TextOf(<<[node |-> n, text |-> best.text]>> \o rest.path) = <<best.text>> \o TextOf(rest.path)
    <3>1. rest.path \in Seq(Entries(nodes))
      BY <2>7 DEF IsOnward
    <3>2. n \in nodes /\ best.text \in AllTexts
      BY <2>1, <2>4
    <3> QED  BY <3>1, <3>2, TextOfOnward
  <2>11. TextOf(<<[node |-> m, text |-> best.text]>> \o onward.path) = <<best.text>> \o TextOf(onward.path)
    <3>1. onward.path \in Seq(Entries(moved))
      BY <2>7 DEF IsOnward
    <3>2. m \in moved /\ best.text \in AllTexts
      BY <2>2, <2>4
    <3> QED  BY <3>1, <3>2, TextOfOnward
  <2>12. SameWay(there(m), way(n)) /\ way(n).node = n /\ there(m).node = m
    <3> HIDE DEF way, there
    <3>1. way(n).total = best.score + rest.total /\ there(m).total = best.score + onward.total
      BY <2>8, <2>9
    <3>2. TextOf(way(n).path) = <<best.text>> \o TextOf(rest.path)
      <4>1. way(n).path = <<[node |-> n, text |-> best.text]>> \o rest.path
        BY <2>8
      <4> QED  BY <2>10, <4>1, Zenon
    <3>3. TextOf(there(m).path) = <<best.text>> \o TextOf(onward.path)
      <4>1. there(m).path = <<[node |-> m, text |-> best.text]>> \o onward.path
        BY <2>9
      <4> QED  BY <2>11, <4>1, Zenon
    <3>4. way(n).node = n /\ there(m).node = m
      BY <2>8, <2>9
    <3> QED  BY <2>6, <3>1, <3>2, <3>3, <3>4 DEF SameWay
  <2> QED  BY <2>1, <2>12 DEF m
<1>7. /\ AreRoutes(ways) /\ AreRoutes(others)
      /\ w[at][before] = BestRoute(ways) /\ v[at - d][before] = BestRoute(others)
  <2>1. \A e \in 1..limit : \A b \in AllTexts :
          w[e][b] = BestRoute(Ways(nodes, w, e, b)) /\ IsOnward(nodes, w[e][b])
    BY WalkLeadsOn
  <2>2. \A e \in 1..limit - d : \A b \in AllTexts :
          v[e][b] = BestRoute(Ways(moved, v, e, b)) /\ IsOnward(moved, v[e][b])
    BY WalkLeadsOn
  <2>3. \A e \in at + 1..limit : \A b \in AllTexts : IsOnward(nodes, w[e][b])
    BY <2>1, <1>0
  <2>4. \A e \in at - d + 1..limit - d : \A b \in AllTexts : IsOnward(moved, v[e][b])
    BY <2>2, <1>0
  <2>5. at \in 1..limit
    BY <1>0
  <2>6. AreRoutes(ways)
    BY <2>3, <2>5, WaysAreRoutes
  <2>7. AreRoutes(others)
    BY <2>4, <1>0, WaysAreRoutes
  <2> QED  BY <2>1, <2>2, <2>5, <2>6, <2>7, <1>0
<1>8. CASE targets = {}
  <2>1. ways = {} /\ others = {}
    BY <1>4, <1>5, <1>8
  <2> HIDE DEF ways, others
  <2> QED  BY <1>7, <2>1 DEF SameWay
<1>9. CASE targets # {}
  <2>1. ways # {}
    BY <1>4, <1>9
  <2>2. Wins(ways, BestRoute(ways))
    BY <1>7, <2>1, BestRouteWins
  <2>3. PICK n \in targets : BestRoute(ways) = way(n)
    BY <1>4, <2>2 DEF Wins
  <2>4. there(Moved(n, d)) \in others
    BY <1>5
  <2>5. ASSUME NEW k \in targets, there(Moved(k, d)) # there(Moved(n, d))
        PROVE  Beats(there(Moved(n, d)), there(Moved(k, d)))
    <3>1. way(k) \in ways /\ k # n
      BY <1>4, <2>5
    <3>2. way(k) # way(n)
      BY <1>6, <3>1
    <3>3. Beats(way(n), way(k))
      BY <2>2, <2>3, <3>1, <3>2 DEF Wins
    <3>4. Before(n, k) => Before(Moved(n, d), Moved(k, d))
      BY <1>6, MovedBefore
    <3> QED  BY <1>6, <3>3, <3>4 DEF Beats, SameWay
  <2>6. Wins(others, there(Moved(n, d)))
    BY <1>5, <2>4, <2>5 DEF Wins
  <2>7. BestRoute(others) = there(Moved(n, d))
    BY <1>7, <2>6, BestRouteIs
  <2> QED  BY <1>6, <1>7, <2>3, <2>7
<1> QED  BY <1>8, <1>9

LEMMA WalkMoves ==
  ASSUME NEW nodes, NEW limit, Bounded(nodes, limit), NEW w, IsWalk(nodes, limit, w),
         NEW d \in Nat, d < limit, NEW moved, Bounded(moved, limit - d),
         NEW v, IsWalk(moved, limit - d, v),
         NEW from \in d + 1..limit,
         \A at \in from..limit :
           Following(moved, at - d) = {Moved(n, d) : n \in Following(nodes, at)}
  PROVE  \A at \in from..limit : \A b \in AllTexts : SameWay(v[at - d][b], w[at][b])
<1> DEFINE Good(at) == \A b \in AllTexts : SameWay(v[at - d][b], w[at][b])
           Reach == {k \in Nat : \A at \in from..limit : at > limit - k => Good(at)}
<1>0. limit \in Nat
  BY DEF Bounded
<1> HIDE DEF Good
<1>1. 0 \in Reach
  BY <1>0
<1>2. ASSUME NEW k \in Nat, k \in Reach PROVE k + 1 \in Reach
  <2> SUFFICES ASSUME NEW at \in from..limit, at > limit - (k + 1) PROVE Good(at)
    OBVIOUS
  <2>1. \A e \in at + 1..limit : Good(e)
    BY <1>0, <1>2
  <2>2. at \in d + 1..limit
    BY <1>0
  <2> QED  BY <2>1, <2>2, WaysMove DEF Good
<1> HIDE DEF Reach
<1>3. limit \in Reach
  BY <1>0, <1>1, <1>2, NatSetInduction
<1>4. \A at \in from..limit : at > 0
  BY <1>0
<1> QED  BY <1>0, <1>3, <1>4 DEF Reach, Good

-----------------------------------------------------------------------------
(* A shift.                                                                 *)
Frozen(g, n) ==
  IF Len(g.path) > 1 /\ n = g.path[2].node THEN [n EXCEPT !.fixed = g.path[2].text] ELSE n

Later(g) == {n \in g.nodes : n.start >= End(g.path[1].node)}

LEMMA MovedFinite ==
  ASSUME NEW S, IsFiniteSet(S), NEW g, NEW d
  PROVE  IsFiniteSet({Moved(Frozen(g, n), d) : n \in S})
<1> DEFINE f == [n \in S |-> Moved(Frozen(g, n), d)]
           T == {Moved(Frozen(g, n), d) : n \in S}
<1>1. f \in Surjection(S, T)
  BY DEF Surjection
<1> HIDE DEF f, T
<1>2. IsFiniteSet(T)
  BY <1>1, FS_Surjection
<1> QED  BY <1>2 DEF T

LEMMA FrozenNode ==
  ASSUME NEW g, IsGraph(g), NEW n \in g.nodes
  PROVE  LET m == Frozen(g, n) IN
         /\ IsNode(m) /\ m.start = n.start /\ m.query = n.query /\ m.previous = n.previous
         /\ Span(m) = Span(n) /\ End(m) = End(n)
         /\ n # g.path[2].node \/ Len(g.path) <= 1 => m = n
         /\ n = g.path[2].node /\ Len(g.path) > 1 => m.fixed = g.path[2].text
<1>1. IsNode(n)
  BY DEF IsGraph, Standing, AreNodes
<1>2. CASE Len(g.path) > 1 /\ n = g.path[2].node
  <2>1. g.path[2].text \in Texts(n.query)
    <3>1. g.path \in Seq(Entries(g.nodes))
      BY GraphPath
    <3>2. g.path[2] \in Entries(g.nodes)
      BY <1>2, <3>1
    <3> QED  BY <1>2, <3>2 DEF Entries
  <2>2. n = [start |-> n.start, query |-> n.query, fixed |-> n.fixed, previous |-> n.previous]
    BY <1>1 DEF IsNode
  <2> DEFINE m == [start |-> n.start, query |-> n.query, fixed |-> g.path[2].text, previous |-> n.previous]
  <2>3. Frozen(g, n) = m
    <3>1. Frozen(g, n) = [n EXCEPT !.fixed = g.path[2].text]
      BY <1>2 DEF Frozen
    <3> QED  BY <2>2, <3>1
  <2>4. m.start = n.start /\ m.query = n.query /\ m.previous = n.previous /\ m.fixed = g.path[2].text
    OBVIOUS
  <2>5. Span(m) = Span(n) /\ End(m) = End(n)
    BY <2>4 DEF Span, End
  <2>6. IsNode(m)
    BY <1>1, <2>1, <2>4, <2>5 DEF IsNode
  <2> HIDE DEF m
  <2> QED  BY <1>2, <2>3, <2>4, <2>5, <2>6
<1>3. CASE ~(Len(g.path) > 1 /\ n = g.path[2].node)
  <2>1. Frozen(g, n) = n
    BY <1>3 DEF Frozen
  <2> QED  BY <1>1, <1>3, <2>1
<1> QED  BY <1>2, <1>3

CanLeave(g) == g.path # <<>> /\ Span(g.path[1].node) <= Len(g.readings)

LEMMA ShiftedIs ==
  ASSUME NEW g, IsGraph(g), CanLeave(g)
  PROVE  LET d == Span(g.path[1].node)
             h == Shifted(g)
         IN  /\ h = Updated(h.readings, h.nodes)
             /\ h.readings = SubSeq(g.readings, d + 1, Len(g.readings))
             /\ h.nodes = {Moved(Frozen(g, n), d) : n \in Later(g)}
             /\ d \in 1..Len(g.readings) /\ End(g.path[1].node) = d + 1
             /\ Len(h.readings) = Len(g.readings) - d /\ h.readings \in Seq(Readings)
             /\ Horizon(h.readings) = Horizon(g.readings) - d
<1> DEFINE first == g.path[1].node
           d == Span(first)
           h == Shifted(g)
           later == {n \in g.nodes : n.start >= End(first)}
           frozen == {IF Len(g.path) > 1 /\ n = g.path[2].node
                        THEN [n EXCEPT !.fixed = g.path[2].text] ELSE n : n \in later}
           moved == {[n EXCEPT !.start = @ - d] : n \in frozen}
           rest == SubSeq(g.readings, d + 1, Len(g.readings))
<1>1. h = Updated(rest, moved)
  BY Zenon DEF Shifted, WithoutFirst
<1>2. moved = {Moved(Frozen(g, n), d) : n \in Later(g)}
  <2>1. frozen = {Frozen(g, n) : n \in Later(g)}
    BY DEF Frozen, Later
  <2>2. moved = {Moved(m, d) : m \in frozen}
    BY DEF Moved
  <2> HIDE DEF frozen, moved
  <2> QED  BY <2>1, <2>2
<1>3. d \in 1..Len(g.readings) /\ End(first) = d + 1 /\ Len(g.readings) \in Nat
  <2>1. IsNode(first) /\ first.start = 1 /\ Len(g.readings) \in Nat
    BY GraphPath DEF CanLeave, IsGraph, Standing
  <2> QED  BY <2>1, NodeFacts DEF CanLeave
<1> HIDE DEF moved, d, first
<1>4. h.readings = rest /\ h.nodes = moved
  <2> HIDE DEF h, rest
  <2> QED  BY <1>1, UpdatedFields
<1>5. rest \in Seq(Readings) /\ Len(rest) = Len(g.readings) - d
  BY <1>3 DEF IsGraph, Standing
<1>6. Horizon(rest) = Horizon(g.readings) - d
  <2> HIDE DEF rest
  <2>1. d \in Int /\ 2 * MaxSpan \in Int
    BY <1>3, SpanAssumption
  <2> QED  BY <1>3, <1>5, <2>1 DEF Horizon
<1> QED  BY <1>1, <1>2, <1>3, <1>4, <1>5, <1>6 DEF d, first

LEMMA ShiftedIsGraph ==
  ASSUME NEW g, IsGraph(g), CanLeave(g)
  PROVE  IsGraph(Shifted(g))
<1> DEFINE d == Span(g.path[1].node)
           h == Shifted(g)
<1>1. /\ h = Updated(h.readings, h.nodes)
      /\ h.nodes = {Moved(Frozen(g, n), d) : n \in Later(g)}
      /\ d \in 1..Len(g.readings) /\ End(g.path[1].node) = d + 1
      /\ Len(h.readings) = Len(g.readings) - d /\ h.readings \in Seq(Readings)
  BY ShiftedIs
<1> HIDE DEF d, h
<1>2. ASSUME NEW n \in Later(g)
      PROVE  /\ n \in g.nodes /\ n.start >= d + 1 /\ n.start <= Len(g.readings)
             /\ IsNode(Frozen(g, n)) /\ Frozen(g, n).start - d >= 1
             /\ IsNode(Moved(Frozen(g, n), d)) /\ Moved(Frozen(g, n), d).start = n.start - d
             /\ Moved(Frozen(g, n), d).query = n.query
  <2>1. n \in g.nodes /\ n.start >= d + 1 /\ n.start <= Len(g.readings) /\ n.start \in Nat
    BY <1>1 DEF Later, IsGraph, Standing, AreNodes, IsNode
  <2>2. IsNode(Frozen(g, n)) /\ Frozen(g, n).start = n.start /\ Frozen(g, n).query = n.query
    BY <2>1, FrozenNode
  <2> QED  BY <1>1, <2>1, <2>2, MovedNode
<1>3. IsFiniteSet(h.nodes)
  <2>1. IsFiniteSet(Later(g))
    BY FS_Subset DEF Later, IsGraph, Standing, AreNodes
  <2> QED  BY <1>1, <2>1, MovedFinite
<1>4. \A m \in h.nodes : IsNode(m) /\ m.start <= Len(h.readings)
  <2> SUFFICES ASSUME NEW n \in Later(g)
               PROVE  IsNode(Moved(Frozen(g, n), d)) /\ Moved(Frozen(g, n), d).start <= Len(h.readings)
    BY <1>1
  <2>1. n.start \in Nat /\ Len(g.readings) \in Nat
    BY <1>2 DEF IsGraph, Standing, AreNodes, IsNode
  <2> QED  BY <1>1, <1>2, <2>1
<1>5. OnePerPlace(h.nodes)
  <2> SUFFICES ASSUME NEW k \in Later(g), NEW n \in Later(g),
                      SamePlace(Moved(Frozen(g, k), d), Moved(Frozen(g, n), d))
               PROVE  Moved(Frozen(g, k), d) = Moved(Frozen(g, n), d)
    BY <1>1 DEF OnePerPlace
  <2>1. k.start - d = n.start - d /\ k.query = n.query
    BY <1>2 DEF SamePlace
  <2>2. k.start \in Nat /\ n.start \in Nat
    BY <1>2 DEF IsGraph, Standing, AreNodes, IsNode
  <2>3. k = n
    BY <1>1, <1>2, <2>1, <2>2 DEF IsGraph, Standing, OnePerPlace, SamePlace
  <2> QED  BY <2>3
<1> QED  BY <1>1, <1>3, <1>4, <1>5 DEF IsGraph, Standing, AreNodes, h

LEMMA TailFacts ==
  ASSUME NEW T, NEW s \in Seq(T), s # <<>>
  PROVE  /\ Tail(s) \in Seq(T) /\ Len(Tail(s)) = Len(s) - 1 /\ Len(s) \in Nat \ {0}
         /\ Tail(s) = [i \in 1..Len(s) - 1 |-> s[i + 1]]
<1>1. Tail(s) \in Seq(T) /\ Len(Tail(s)) = Len(s) - 1 /\ Len(s) \in Nat \ {0}
  OBVIOUS
<1>2. \A i \in 1..Len(s) - 1 : Tail(s)[i] = s[i + 1]
  OBVIOUS
<1>3. Tail(s) = [i \in 1..Len(Tail(s)) |-> Tail(s)[i]]
  <2>1. \A t \in Seq(T) : t = [i \in 1..Len(t) |-> t[i]]
    OBVIOUS
  <2> QED  BY <1>1, <2>1
<1> QED  BY <1>1, <1>2, <1>3

LEMMA TextOfTail ==
  ASSUME NEW nodes, NEW p \in Seq(Entries(nodes)), p # <<>>
  PROVE  /\ TextOf(Tail(p)) = Tail(TextOf(p)) /\ TextOf(p) \in Seq(AllTexts)
         /\ TextOf(p) = <<p[1].text>> \o TextOf(Tail(p))
<1>1. \A i \in 1..Len(p) : p[i].text \in AllTexts
  <2>1. \A i \in 1..Len(p) : p[i] \in Entries(nodes)
    OBVIOUS
  <2> QED  BY <2>1 DEF Entries
<1>2. TextOf(p) = [i \in 1..Len(p) |-> p[i].text]
  BY DEF TextOf
<1>3. TextOf(p) \in Seq(AllTexts) /\ Len(TextOf(p)) = Len(p)
  BY <1>1, <1>2
<1>4. Tail(p) = [i \in 1..Len(p) - 1 |-> p[i + 1]] /\ Len(p) \in Nat \ {0}
  BY TailFacts
<1>5. TextOf(Tail(p)) = [i \in 1..Len(p) - 1 |-> p[i + 1].text]
  <2>1. \A i \in 1..Len(p) - 1 : Tail(p)[i] = p[i + 1]
    BY <1>4
  <2>2. DOMAIN Tail(p) = 1..Len(p) - 1
    BY <1>4
  <2> QED  BY <2>1, <2>2 DEF TextOf
<1>6. Tail(TextOf(p)) = [i \in 1..Len(p) - 1 |-> TextOf(p)[i + 1]]
  <2>1. TextOf(p) # <<>>
    BY <1>3, <1>4
  <2> QED  BY <1>3, <2>1, TailFacts
<1>7. \A i \in 1..Len(p) - 1 : TextOf(p)[i + 1] = p[i + 1].text
  BY <1>2, <1>4
<1>8. TextOf(Tail(p)) = Tail(TextOf(p))
  BY <1>5, <1>6, <1>7
<1>9. TextOf(p) # <<>> /\ TextOf(p)[1] = p[1].text
  BY <1>2, <1>3, <1>4
<1>10. TextOf(p) = <<TextOf(p)[1]>> \o Tail(TextOf(p))
  <2> DEFINE q == TextOf(p)
  <2>1. q \in Seq(AllTexts) /\ q # <<>>
    BY <1>3, <1>9
  <2> HIDE DEF q
  <2>2. q = <<q[1]>> \o Tail(q)
    BY <2>1
  <2> QED  BY <2>2 DEF q
<1> QED  BY <1>3, <1>8, <1>9, <1>10

(* The words behind the first stay: the second, which loses the word before *)
(* it, is fixed, and what comes after it only looks ahead.                  *)
LEMMA ShiftKeepsTheRest ==
  ASSUME NEW g, IsGraph(g), CanLeave(g)
  PROVE  Text(Shifted(g)) = Tail(Text(g))
<1> DEFINE first == g.path[1].node
           d == Span(first)
           e == d + 1
           limit == Horizon(g.readings)
           h == Shifted(g)
           w == WalkOf(g)
           v == WalkOf(h)
           t == g.path[1].text
<1>1. /\ h.nodes = {Moved(Frozen(g, n), d) : n \in Later(g)}
      /\ d \in 1..Len(g.readings) /\ End(first) = e
      /\ Horizon(h.readings) = limit - d
  BY ShiftedIs
<1>2. IsGraph(h)
  BY ShiftedIsGraph
<1>3. Bounded(g.nodes, limit) /\ IsWalk(g.nodes, limit, w)
  BY StandingBounded DEF IsGraph, WalkOf
<1>4. Bounded(h.nodes, limit - d) /\ IsWalk(h.nodes, limit - d, v)
  BY <1>1, <1>2, StandingBounded DEF IsGraph, WalkOf
<1>5. /\ t \in AllTexts \ {NoText} /\ e \in 2..limit /\ Tail(g.path) = w[e][t].path
      /\ g.path \in Seq(Entries(g.nodes)) /\ g.path # <<>>
  BY <1>1, GraphPath DEF CanLeave
<1>6. Text(g) = TextOf(g.path) /\ Text(h) = TextOf(h.path)
  BY DEF Text, TextOf
<1>7. Tail(Text(g)) = TextOf(w[e][t].path)
  BY <1>5, <1>6, TextOfTail
<1>8. h.path = v[1][NoText].path /\ NoText \in AllTexts /\ 1 \in 1..limit - d
  BY <1>2, <1>4, GraphPath DEF Bounded, AllTexts
<1>9. d \in Nat /\ d < limit /\ limit \in Nat /\ e \in 1..limit
  BY <1>1, <1>3, <1>4, <1>5 DEF Bounded
<1> HIDE DEF first, d, limit, h, w, v, t
<1>10. ASSUME NEW n \in Later(g)
       PROVE  /\ n \in g.nodes /\ IsNode(n) /\ n.start >= e
              /\ LET m == Moved(Frozen(g, n), d) IN
                 /\ m \in h.nodes /\ IsNode(m) /\ m.start = n.start - d
                 /\ m.query = n.query /\ m.previous = n.previous /\ End(m) = End(n) - d
                 /\ m.fixed = Frozen(g, n).fixed
  <2>1. n \in g.nodes /\ IsNode(n) /\ n.start >= e
    BY <1>1 DEF Later, IsGraph, Standing, AreNodes, first
  <2>2. LET m == Frozen(g, n) IN
        IsNode(m) /\ m.start = n.start /\ m.query = n.query /\ m.previous = n.previous /\ End(m) = End(n)
    BY <2>1, FrozenNode
  <2>3. Frozen(g, n).start - d >= 1 /\ d \in Nat
    BY <1>9, <2>1, <2>2 DEF IsNode
  <2> QED  BY <1>1, <2>1, <2>2, <2>3, MovedNode
<1>11. \A at \in Nat : at >= e => Following(h.nodes, at - d) = {Moved(Frozen(g, n), d) : n \in Following(g.nodes, at)}
  <2> TAKE at \in Nat
  <2> HAVE at >= e
  <2>1. Following(g.nodes, at) \subseteq Later(g)
    BY <1>1 DEF Following, Later, first
  <2>2. \A n \in Later(g) : n.start = at <=> Moved(Frozen(g, n), d).start = at - d
    <3> SUFFICES ASSUME NEW n \in Later(g) PROVE n.start = at <=> Moved(Frozen(g, n), d).start = at - d
      OBVIOUS
    <3>1. Moved(Frozen(g, n), d).start = n.start - d /\ n.start \in Nat
      BY <1>10 DEF IsNode
    <3> QED  BY <1>9, <3>1
  <2>3. \A n \in Later(g) : n \in g.nodes
    BY DEF Later
  <2> QED  BY <1>1, <2>1, <2>2, <2>3 DEF Following
<1>12. e - d = 1 /\ e \in Nat
  BY <1>9
<1>13. Following(h.nodes, 1) = {Moved(Frozen(g, n), d) : n \in Following(g.nodes, e)}
  BY <1>11, <1>12
<1>14. CASE Following(g.nodes, e) = {}
  <2>1. w[e][t].path = <<>>
    BY <1>3, <1>5, <1>9, <1>14, WalkUnfolds
  <2>2. v[1][NoText].path = <<>>
    <3>1. Following(h.nodes, 1) = {}
      BY <1>13, <1>14
    <3> QED  BY <1>4, <1>8, <3>1, WalkUnfolds
  <2> QED  BY <1>6, <1>7, <1>8, <2>1, <2>2 DEF h
<1>15. CASE Following(g.nodes, e) # {}
  <2>1. PICK n \in Targets(Following(g.nodes, e)) : Leads(g.nodes, limit, w, e, t, n)
    BY <1>3, <1>5, <1>9, <1>15, WalkUnfolds
  <2> DEFINE u == Best(n, t).text
             x == End(n)
             m == Moved(Frozen(g, n), d)
  <2>2. /\ n \in g.nodes /\ IsNode(n) /\ n.start = e /\ x \in e + 1..limit
        /\ u \in AllTexts \ {NoText} /\ u \in Texts(n.query)
        /\ w[e][t].path = <<[node |-> n, text |-> u]>> \o w[x][u].path
    BY <2>1 DEF Leads
  <2>3. \A at \in 1..limit : \A b \in AllTexts : w[at][b].path \in Seq(Entries(g.nodes))
    BY <1>3, WalkLeadsOn DEF IsOnward
  <2>4. w[x][u].path \in Seq(Entries(g.nodes))
    <3>1. x \in 1..limit
      BY <1>9, <2>2
    <3> QED  BY <2>2, <2>3, <3>1
  <2>5. Len(g.path) > 1 /\ g.path[2].node = n /\ g.path[2].text = u
    <3> DEFINE entry == [node |-> n, text |-> u]
               rest == w[x][u].path
    <3>1. Tail(g.path) = <<entry>> \o rest /\ rest \in Seq(Entries(g.nodes)) /\ entry \in Entries(g.nodes)
      BY <1>5, <2>2, <2>4 DEF Entries
    <3>2. entry.node = n /\ entry.text = u
      OBVIOUS
    <3> HIDE DEF entry, rest
    <3>3. Len(Tail(g.path)) >= 1 /\ Tail(g.path)[1] = entry
      BY <3>1
    <3>4. Len(g.path) > 1 /\ g.path[2] = entry
      BY <1>5, <3>3
    <3> QED  BY <3>2, <3>4
  <2>6. n \in Following(g.nodes, e) /\ n \in Later(g) /\ \A k \in Following(g.nodes, e) : k \in Later(g)
    BY <1>1, <1>9, <2>2 DEF Following, Later, first
  <2>7. /\ m \in Following(h.nodes, 1) /\ IsNode(m) /\ m.fixed = u /\ IsFixed(m)
        /\ m.query = n.query /\ End(m) = x - d /\ m.start = 1
    <3>1. Frozen(g, n).fixed = u
      BY <2>2, <2>5, FrozenNode
    <3>2. /\ m \in h.nodes /\ IsNode(m) /\ m.start = n.start - d
          /\ m.query = n.query /\ End(m) = End(n) - d /\ m.fixed = u
      BY <1>10, <2>6, <3>1
    <3>3. m \in Following(h.nodes, 1)
      BY <1>13, <2>6
    <3> HIDE DEF m
    <3>4. m.start = 1
      BY <1>12, <2>2, <3>2
    <3> QED  BY <2>2, <3>2, <3>3, <3>4 DEF IsFixed
  <2>8. Targets(Following(h.nodes, 1)) = {m}
    <3> DEFINE F == Following(g.nodes, e)
               fixed == {k \in F : IsFixed(k)}
               fixedThere == {k \in Following(h.nodes, 1) : IsFixed(k)}
    <3>1. AreNodes(F) /\ OnePerPlace(F) /\ AreNodes(fixed) /\ OnePerPlace(fixed)
      BY <1>3, SomeNodes DEF Bounded, Following
    <3>2. m \in fixedThere
      BY <2>7
    <3>3. AreNodes(fixedThere)
      BY <1>4, SomeNodes DEF Bounded, Following
    <3>4. ASSUME NEW j \in fixedThere, j # m PROVE Before(m, j)
      <4>1. PICK k \in F : j = Moved(Frozen(g, k), d)
        BY <1>13
      <4>2. k # n
        BY <3>4, <4>1
      <4>3. k \in Later(g) /\ k \in g.nodes /\ Frozen(g, k) = k /\ IsNode(k) /\ k.start = e
        BY <2>5, <2>6, <4>2, <1>10, FrozenNode DEF Following
      <4>4. j.fixed = k.fixed /\ j.query = k.query /\ j.start = 1
        BY <1>10, <1>12, <4>1, <4>3
      <4>5. k \in fixed
        BY <3>4, <4>3, <4>4 DEF IsFixed
      <4>6. n = First(fixed)
        <5>1. Targets(F) = {First(fixed)}
          BY <4>5 DEF Targets
        <5> QED  BY <2>1, <5>1
      <4>7. Before(n, k)
        <5> HIDE DEF fixed
        <5> QED  BY <3>1, <4>2, <4>5, <4>6, FirstIsLeast
      <4>8. Span(m) = Span(n) /\ Span(j) = Span(k)
        BY <2>7, <4>4 DEF Span
      <4> HIDE DEF m
      <4>9. m.start = 1 /\ m.query = n.query /\ n.start = e
        BY <2>2, <2>7
      <4>10. n.start = k.start /\ m.start = j.start /\ j.query = k.query
        BY <4>3, <4>4, <4>9
      <4>11. n.start \in Nat /\ m.start \in Nat
        BY <2>2, <2>7 DEF IsNode
      <4> HIDE DEF e
      <4> QED  BY <4>7, <4>8, <4>9, <4>10, <4>11 DEF Before
    <3>5. First(fixedThere) = m
      <4> HIDE DEF fixedThere, m
      <4> QED  BY <3>2, <3>3, <3>4, FirstIs
    <3> QED  BY <3>2, <3>5 DEF Targets
  <2>9. v[1][NoText].path = <<[node |-> m, text |-> u]>> \o v[x - d][u].path
    <3>1. Following(h.nodes, 1) # {}
      BY <2>7
    <3>2. PICK k \in Targets(Following(h.nodes, 1)) : Leads(h.nodes, limit - d, v, 1, NoText, k)
      BY <1>4, <1>8, <3>1, WalkUnfolds
    <3>3. k = m
      BY <2>8, <3>2
    <3>4. Best(m, NoText).text = u
      <4>1. Best(m, NoText) = [text |-> m.fixed, score |-> OverrideScore]
        BY <2>7 DEF Best
      <4> QED  BY <2>7, <4>1
    <3> HIDE DEF m, u, x
    <3>5. v[1][NoText].path =
            <<[node |-> m, text |-> Best(m, NoText).text]>> \o v[End(m)][Best(m, NoText).text].path
      BY <3>2, <3>3 DEF Leads
    <3>6. End(m) = x - d
      BY <2>7
    <3> QED  BY <3>4, <3>5, <3>6
  <2>10. SameWay(v[x - d][u], w[x][u])
    <3>1. ASSUME NEW at \in x..limit
          PROVE  Following(h.nodes, at - d) = {Moved(k, d) : k \in Following(g.nodes, at)}
      <4>1. at \in Nat /\ at >= e /\ at > e
        BY <1>9, <2>2
      <4>2. \A k \in Following(g.nodes, at) : k \in g.nodes /\ k # n
        BY <2>2, <4>1, <1>9 DEF Following
      <4>3. \A k \in Following(g.nodes, at) : Frozen(g, k) = k
        BY <2>5, <4>2, FrozenNode
      <4> QED  BY <1>11, <4>1, <4>3
    <3>2. x \in d + 1..limit
      BY <1>9, <2>2
    <3> HIDE DEF x, u
    <3>3. \A at \in x..limit : \A b \in AllTexts : SameWay(v[at - d][b], w[at][b])
      BY <1>3, <1>4, <1>9, <3>1, <3>2, WalkMoves
    <3>4. x \in x..limit /\ u \in AllTexts
      BY <1>9, <2>2, <3>2
    <3> QED  BY <3>3, <3>4
  <2>11. TextOf(w[e][t].path) = <<u>> \o TextOf(w[x][u].path)
    <3>1. u \in AllTexts
      BY <2>2
    <3>2. TextOf(<<[node |-> n, text |-> u]>> \o w[x][u].path) = <<u>> \o TextOf(w[x][u].path)
      <4>1. n \in g.nodes /\ w[x][u].path \in Seq(Entries(g.nodes))
        BY <2>2, <2>4
      <4> HIDE DEF u, x
      <4> QED  BY <3>1, <4>1, TextOfOnward
    <3> QED  BY <2>2, <3>2, Zenon
  <2>12. TextOf(v[1][NoText].path) = <<u>> \o TextOf(v[x - d][u].path)
    <3>1. u \in AllTexts /\ m \in h.nodes /\ x - d \in 1..limit - d
      BY <1>9, <2>2, <2>7 DEF Following
    <3>2. v[x - d][u].path \in Seq(Entries(h.nodes))
      BY <1>4, <3>1, WalkLeadsOn DEF IsOnward
    <3> HIDE DEF m, u, x
    <3>3. TextOf(<<[node |-> m, text |-> u]>> \o v[x - d][u].path) = <<u>> \o TextOf(v[x - d][u].path)
      BY <3>1, <3>2, TextOfOnward
    <3> QED  BY <2>9, <3>3, Zenon
  <2> QED  BY <1>6, <1>7, <1>8, <2>10, <2>11, <2>12 DEF SameWay, h
<1> QED  BY <1>14, <1>15 DEF h

-----------------------------------------------------------------------------
(* What build adds.                                                         *)
LEMMA SeqOfMore ==
  ASSUME NEW S, NEW T, S \subseteq T, NEW s \in Seq(S)
  PROVE  s \in Seq(T)
<1>1. Len(s) \in Nat /\ s = [i \in 1..Len(s) |-> s[i]] /\ \A i \in 1..Len(s) : s[i] \in T
  OBVIOUS
<1>2. \A n \in Nat : [1..n -> T] \subseteq Seq(T)
  OBVIOUS
<1> QED  BY <1>1, <1>2

LEMMA ReadingsAreNumbers == Readings \subseteq Int /\ \A r \in Readings : <<r>> \in Queries
<1> SUFFICES ASSUME NEW r \in Readings PROVE r \in Int /\ <<r>> \in Queries
  OBVIOUS
<1>1. PICK q \in Queries : Len(q) = 1 /\ r = q[1]
  BY DEF Readings, Queries
<1>2. q \in Seq(Int)
  BY QueryFacts
<1> QED  BY <1>1, <1>2

KnownWords(g) ==
  \A from \in DOMAIN g.readings, span \in 1..MaxSpan :
    LET to == from + span - 1
        query == SubSeq(g.readings, from, to)
    IN to \in DOMAIN g.readings /\ Words(query) # <<>>
         => \E n \in g.nodes : n.start = from /\ n.query = query

(* A place stands for the readings there.                                   *)
SpellsAt(readings, start, query) ==
  /\ start + Len(query) <= Len(readings) + 1
  /\ \A i \in 1..Len(query) : query[i] = readings[start + i - 1]

LEMMA SpellsIs ==
  ASSUME NEW g, g.readings \in Seq(Readings), NEW n, n.start \in Nat \ {0}, n.query \in Seq(Int)
  PROVE  Spells(g, n) <=> SpellsAt(g.readings, n.start, n.query)
<1> DEFINE s == n.start
           q == n.query
           r == g.readings
<1>1. r \in Seq(Int) /\ Len(r) \in Nat /\ Len(q) \in Nat /\ s \in Nat \ {0} /\ q \in Seq(Int)
  <2>1. Readings \subseteq Int
    BY ReadingsAreNumbers
  <2> HIDE DEF s, q
  <2>2. r \in Seq(Int)
    BY <2>1, SeqOfMore
  <2> QED  BY <2>2 DEF s, q
<1>2. Spells(g, n) <=> s + Len(q) <= Len(r) + 1 /\ q = SubSeq(r, s, s + Len(q) - 1)
  BY DEF Spells, End, Span
<1> HIDE DEF s, q, r
<1>3. SubSeq(r, s, s + Len(q) - 1) = [i \in 1..Len(q) |-> r[s + i - 1]]
  BY <1>1
<1>4. q = [i \in 1..Len(q) |-> q[i]]
  BY <1>1
<1>5. q = SubSeq(r, s, s + Len(q) - 1) <=> \A i \in 1..Len(q) : q[i] = r[s + i - 1]
  BY <1>3, <1>4
<1> QED  BY <1>2, <1>5 DEF SpellsAt, s, q, r

LEMMA MissingFacts ==
  ASSUME NEW readings \in Seq(Readings), NEW nodes, NEW f
  PROVE  f \in Missing(readings, nodes) <=>
           /\ f = [start |-> f.start, query |-> f.query]
           /\ f.start \in 1..Len(readings) /\ f.query \in Queries /\ Span(f) <= MaxSpan
           /\ SpellsAt(readings, f.start, f.query)
           /\ ~\E n \in nodes : SamePlace(n, f)
<1> DEFINE g == [readings |-> readings]
<1>1. f \in [start : 1..Len(readings), query : Queries] <=>
        f = [start |-> f.start, query |-> f.query] /\ f.start \in 1..Len(readings) /\ f.query \in Queries
  OBVIOUS
<1>2. f.start \in 1..Len(readings) /\ f.query \in Queries =>
        Words(f.query) # <<>> /\ (Spells(g, f) <=> SpellsAt(readings, f.start, f.query))
  <2> SUFFICES ASSUME f.start \in 1..Len(readings), f.query \in Queries
               PROVE  Words(f.query) # <<>> /\ (Spells(g, f) <=> SpellsAt(readings, f.start, f.query))
    OBVIOUS
  <2>1. Words(f.query) # <<>> /\ f.query \in Seq(Int)
    BY QueryFacts
  <2>2. g.readings = readings /\ f.start \in Nat \ {0}
    OBVIOUS
  <2> HIDE DEF g
  <2> QED  BY <2>1, <2>2, SpellsIs
<1> HIDE DEF g
<1> QED  BY <1>1, <1>2 DEF Missing, Queries, SamePlace, g

LEMMA MissingIsFinite ==
  ASSUME NEW readings \in Seq(Readings), NEW nodes
  PROVE  IsFiniteSet(Missing(readings, nodes))
<1> DEFINE S == 1..Len(readings)
           places == [start : S, query : Queries]
           f == [p \in S \X Queries |-> [start |-> p[1], query |-> p[2]]]
<1>1. IsFiniteSet(S \X Queries)
  <2>1. IsFiniteSet(S)
    BY FS_Interval
  <2>2. IsFiniteSet(Queries)
    BY LexiconAssumption DEF Queries
  <2> HIDE DEF S
  <2> QED  BY <2>1, <2>2, FS_Product
<1>2. f \in Surjection(S \X Queries, places)
  <2>1. \A p \in S \X Queries : f[p] \in places
    OBVIOUS
  <2>2. ASSUME NEW x \in places PROVE \E p \in S \X Queries : f[p] = x
    <3>1. <<x.start, x.query>> \in S \X Queries /\ f[<<x.start, x.query>>] = x
      OBVIOUS
    <3> HIDE DEF f, S
    <3> QED  BY <3>1
  <2> QED  BY <2>1, <2>2 DEF Surjection
<1>3. IsFiniteSet(places)
  <2> HIDE DEF f, places
  <2> QED  BY <1>1, <1>2, FS_Surjection
<1>4. Missing(readings, nodes) \subseteq places
  BY DEF Missing, Queries
<1> HIDE DEF places
<1> QED  BY <1>3, <1>4, FS_Subset

LEMMA AddedNode ==
  ASSUME NEW readings \in Seq(Readings), NEW nodes, NEW f \in Missing(readings, nodes), NEW ending
  PROVE  LET n == Node(f, ending) IN
         /\ IsNode(n) /\ n.start = f.start /\ n.query = f.query /\ n.fixed = NoText
         /\ n.start \in 1..Len(readings) /\ SpellsAt(readings, n.start, n.query)
<1> DEFINE n == Node(f, ending)
<1>1. /\ f.start \in 1..Len(readings) /\ f.query \in Queries /\ Span(f) <= MaxSpan
      /\ SpellsAt(readings, f.start, f.query)
  BY MissingFacts
<1>2. n.start = f.start /\ n.query = f.query /\ n.fixed = NoText
      /\ n = [start |-> n.start, query |-> n.query, fixed |-> n.fixed, previous |-> n.previous]
  BY DEF Node
<1> HIDE DEF n
<1>3. Span(n) = Span(f) /\ Span(n) \in Nat \ {0}
  BY <1>1, <1>2, QueryFacts DEF Span
<1>4. Len(readings) \in Nat
  OBVIOUS
<1> QED  BY <1>1, <1>2, <1>3, <1>4, SpanAssumption DEF IsNode, n

Ending(f, missing, nodes) == {n \in missing \cup nodes : End(n) = f.start}

LEMMA BuiltIsStanding ==
  ASSUME NEW readings, NEW nodes, Standing(readings, nodes)
  PROVE  /\ Standing(readings, Built(readings, nodes))
         /\ KnownWords([readings |-> readings, nodes |-> Built(readings, nodes)])
         /\ nodes \subseteq Built(readings, nodes)
         /\ \A n \in Built(readings, nodes) :
              n \in nodes \/ (n.fixed = NoText /\ SpellsAt(readings, n.start, n.query))
<1> DEFINE missing == Missing(readings, nodes)
           node(f) == Node(f, Ending(f, missing, nodes))
           added == Added(missing, nodes)
           built == Built(readings, nodes)
<1>1. readings \in Seq(Readings) /\ AreNodes(nodes) /\ OnePerPlace(nodes)
      /\ \A n \in nodes : n.start <= Len(readings)
  BY DEF Standing
<1>2. added = {node(f) : f \in missing} /\ built = nodes \cup added
  BY DEF Added, Ending, Built
<1>3. \A f \in missing :
         /\ IsNode(node(f)) /\ node(f).start = f.start /\ node(f).query = f.query /\ node(f).fixed = NoText
         /\ node(f).start \in 1..Len(readings) /\ SpellsAt(readings, node(f).start, node(f).query)
  BY <1>1, AddedNode
<1>4. \A f \in missing : f = [start |-> f.start, query |-> f.query] /\ ~\E n \in nodes : SamePlace(n, f)
  BY <1>1, MissingFacts
<1>5. IsFiniteSet(added)
  <2> DEFINE h == [f \in missing |-> node(f)]
  <2>1. h \in Surjection(missing, added)
    BY <1>2 DEF Surjection
  <2>2. IsFiniteSet(missing)
    BY <1>1, MissingIsFinite
  <2> HIDE DEF h, missing, added
  <2> QED  BY <2>1, <2>2, FS_Surjection
<1>6. IsFiniteSet(built)
  BY <1>1, <1>2, <1>5, FS_Union DEF AreNodes
<1> HIDE DEF node
<1>7. \A n \in added : \E f \in missing : n = node(f)
  BY <1>2
<1>8. \A n \in built : IsNode(n) /\ n.start <= Len(readings)
  <2>1. Len(readings) \in Nat
    BY <1>1
  <2> QED  BY <1>1, <1>2, <1>3, <1>7, <2>1 DEF AreNodes
<1>9. OnePerPlace(built)
  <2>1. ASSUME NEW m \in nodes, NEW n \in added PROVE ~SamePlace(m, n)
    BY <1>3, <1>4, <1>7 DEF SamePlace
  <2>2. ASSUME NEW m \in added, NEW n \in added, SamePlace(m, n) PROVE m = n
    <3>1. PICK e \in missing : m = node(e)
      BY <1>7
    <3>2. PICK f \in missing : n = node(f)
      BY <1>7
    <3>3. e.start = f.start /\ e.query = f.query
      BY <1>3, <2>2, <3>1, <3>2 DEF SamePlace
    <3>4. e = f
      <4>1. e = [start |-> e.start, query |-> e.query] /\ f = [start |-> f.start, query |-> f.query]
        BY <1>4
      <4> QED  BY <3>3, <4>1
    <3> QED  BY <3>1, <3>2, <3>4
  <2>3. \A m, n : SamePlace(m, n) => SamePlace(n, m)
    BY DEF SamePlace
  <2> HIDE DEF built, added
  <2> QED  BY <1>1, <1>2, <2>1, <2>2, <2>3 DEF OnePerPlace
<1>10. KnownWords([readings |-> readings, nodes |-> built])
  <2> SUFFICES ASSUME NEW from \in DOMAIN readings, NEW span \in 1..MaxSpan,
                      from + span - 1 \in DOMAIN readings,
                      Words(SubSeq(readings, from, from + span - 1)) # <<>>
               PROVE  \E n \in built : n.start = from /\ n.query = SubSeq(readings, from, from + span - 1)
    BY DEF KnownWords
  <2> DEFINE query == SubSeq(readings, from, from + span - 1)
             f == [start |-> from, query |-> query]
  <2>1. query \in Queries
    BY DEF Words, Queries
  <2>2. from \in 1..Len(readings) /\ from + span - 1 \in 1..Len(readings) /\ span \in Nat /\ Len(readings) \in Nat
    BY <1>1, SpanAssumption
  <2>3. Len(query) = span /\ \A i \in 1..span : query[i] = readings[from + i - 1]
    BY <1>1, <2>2
  <2>4. f.start = from /\ f.query = query /\ f = [start |-> f.start, query |-> f.query]
    OBVIOUS
  <2> HIDE DEF query, f
  <2>5. Span(f) <= MaxSpan /\ SpellsAt(readings, f.start, f.query)
    BY <2>2, <2>3, <2>4, SpanAssumption DEF Span, SpellsAt
  <2>6. CASE \E n \in nodes : SamePlace(n, f)
    BY <1>2, <2>4, <2>6 DEF SamePlace, query
  <2>7. CASE ~\E n \in nodes : SamePlace(n, f)
    <3>1. f \in missing
      BY <1>1, <2>1, <2>2, <2>4, <2>5, <2>7, MissingFacts
    <3>2. node(f) \in built
      BY <1>2, <3>1 DEF node
    <3> QED  BY <1>3, <2>4, <3>1, <3>2 DEF query
  <2> QED  BY <2>6, <2>7
<1> HIDE DEF built, added, missing
<1>11. \A n \in built : n \in nodes \/ (n.fixed = NoText /\ SpellsAt(readings, n.start, n.query))
  BY <1>2, <1>3, <1>7
<1>12. nodes \subseteq built
  BY <1>2
<1> QED  BY <1>1, <1>6, <1>8, <1>9, <1>10, <1>11, <1>12 DEF Standing, AreNodes, built

-----------------------------------------------------------------------------
(* An edit places some of the nodes, and update chooses the path.           *)
LEMMA UpdatedIsGraph ==
  ASSUME NEW readings, NEW nodes, Standing(readings, nodes)
  PROVE  LET h == Updated(readings, nodes) IN
         IsGraph(h) /\ h.readings = readings /\ h.nodes = nodes
BY UpdatedFields DEF IsGraph

LEMMA BuildIsGraph ==
  ASSUME NEW readings, NEW nodes, Standing(readings, nodes)
  PROVE  LET h == Build(readings, nodes) IN
         /\ IsGraph(h) /\ h.readings = readings /\ h.nodes = Built(readings, nodes) /\ KnownWords(h)
<1> DEFINE h == Build(readings, nodes)
<1>1. IsGraph(h) /\ h.readings = readings /\ h.nodes = Built(readings, nodes)
  BY BuiltIsStanding, UpdatedIsGraph DEF Build
<1> HIDE DEF h
<1>2. KnownWords([readings |-> readings, nodes |-> Built(readings, nodes)])
  BY BuiltIsStanding
<1>3. KnownWords(h)
  BY <1>1, <1>2 DEF KnownWords
<1> QED  BY <1>1, <1>3 DEF h

LEMMA EmptyIsGraph == IsGraph(EmptyGraph) /\ KnownWords(EmptyGraph)
<1>1. Standing(<<>>, {})
  BY FS_EmptySet DEF Standing, AreNodes, OnePerPlace
<1>2. IsGraph(Updated(<<>>, {}))
  BY <1>1, UpdatedIsGraph
<1> DEFINE h == Updated(<<>>, {})
<1>3. h.readings = <<>> /\ h.nodes = {}
  BY UpdatedFields
<1>4. h.path = <<>>
  <2>1. Following(h.nodes, 1) = {}
    BY <1>3 DEF Following
  <2> HIDE DEF h
  <2> QED  BY <1>2, <2>1, GraphPath DEF h
<1>5. h = [readings |-> h.readings, nodes |-> h.nodes, path |-> h.path]
  BY UpdatedIs
<1>6. h = EmptyGraph
  <2> HIDE DEF h
  <2> QED  BY <1>3, <1>4, <1>5 DEF EmptyGraph
<1>7. KnownWords(EmptyGraph)
  BY DEF KnownWords, EmptyGraph
<1> QED  BY <1>2, <1>6, <1>7

LEMMA MappedStanding ==
  ASSUME NEW readings \in Seq(Readings), NEW S, IsFiniteSet(S), NEW f, NEW T, T = {f[n] : n \in S},
         \A n \in S : IsNode(f[n]) /\ f[n].start <= Len(readings),
         \A m, n \in S : SamePlace(f[m], f[n]) => m = n
  PROVE  Standing(readings, T)
<1> DEFINE h == [n \in S |-> f[n]]
<1>1. h \in Surjection(S, T)
  BY DEF Surjection
<1>2. IsFiniteSet(T)
  <2> HIDE DEF h
  <2> QED  BY <1>1, FS_Surjection
<1> QED  BY <1>2 DEF Standing, AreNodes, OnePerPlace

LEMMA PlacedNode ==
  ASSUME NEW n, IsNode(n), NEW s \in Nat \ {0}
  PROVE  LET m == [n EXCEPT !.start = s] IN
         /\ IsNode(m) /\ m.start = s /\ m.query = n.query /\ m.fixed = n.fixed /\ Span(m) = Span(n)
<1> DEFINE m == [n EXCEPT !.start = s]
<1>1. n = [start |-> n.start, query |-> n.query, fixed |-> n.fixed, previous |-> n.previous]
  BY DEF IsNode
<1>2. m = [start |-> s, query |-> n.query, fixed |-> n.fixed, previous |-> n.previous]
  BY <1>1
<1>3. m.start = s /\ m.query = n.query /\ m.fixed = n.fixed
      /\ m = [start |-> m.start, query |-> m.query, fixed |-> m.fixed, previous |-> m.previous]
  BY <1>2
<1> HIDE DEF m
<1>4. Span(m) = Span(n)
  BY <1>3 DEF Span
<1> QED  BY <1>3, <1>4 DEF IsNode, m

LEMMA FixedNode ==
  ASSUME NEW n, IsNode(n), NEW t \in Texts(n.query) \cup {NoText}
  PROVE  LET m == [n EXCEPT !.fixed = t] IN
         /\ IsNode(m) /\ m.start = n.start /\ m.query = n.query /\ m.fixed = t
<1> DEFINE m == [n EXCEPT !.fixed = t]
<1>1. n = [start |-> n.start, query |-> n.query, fixed |-> n.fixed, previous |-> n.previous]
  BY DEF IsNode
<1>2. m = [start |-> n.start, query |-> n.query, fixed |-> t, previous |-> n.previous]
  BY <1>1
<1>3. m.start = n.start /\ m.query = n.query /\ m.fixed = t
      /\ m = [start |-> m.start, query |-> m.query, fixed |-> m.fixed, previous |-> m.previous]
  BY <1>2
<1> HIDE DEF m
<1>4. Span(m) = Span(n)
  BY <1>3 DEF Span
<1> QED  BY <1>3, <1>4 DEF IsNode, m

-----------------------------------------------------------------------------
(* Insertion.                                                               *)
InsertedAt(readings, index, reading) ==
  SubSeq(readings, 1, index) \o <<reading>> \o SubSeq(readings, index + 1, Len(readings))

LEMMA ConcatFacts ==
  ASSUME NEW T, NEW s \in Seq(T), NEW t \in Seq(T)
  PROVE  /\ s \o t \in Seq(T) /\ Len(s \o t) = Len(s) + Len(t)
         /\ \A i \in 1..Len(s) + Len(t) : (s \o t)[i] = IF i <= Len(s) THEN s[i] ELSE t[i - Len(s)]
OBVIOUS

LEMMA InsertedReadings ==
  ASSUME NEW readings \in Seq(Readings), NEW index \in 0..Len(readings), NEW reading \in Readings
  PROVE  LET r == InsertedAt(readings, index, reading) IN
         /\ r \in Seq(Readings) /\ Len(r) = Len(readings) + 1
         /\ \A i \in 1..Len(r) :
              r[i] = IF i <= index THEN readings[i] ELSE IF i = index + 1 THEN reading ELSE readings[i - 1]
<1> DEFINE a == SubSeq(readings, 1, index)
           b == SubSeq(readings, index + 1, Len(readings))
<1>1. a \in Seq(Readings) /\ Len(a) = index /\ \A i \in 1..index : a[i] = readings[i]
  OBVIOUS
<1>2. b \in Seq(Readings) /\ Len(b) = Len(readings) - index
      /\ \A i \in 1..Len(readings) - index : b[i] = readings[index + i]
  OBVIOUS
<1>3. index \in Nat /\ Len(readings) \in Nat /\ index <= Len(readings)
  OBVIOUS
<1> HIDE DEF a, b
<1> DEFINE c == a \o <<reading>>
<1>4. c \in Seq(Readings) /\ Len(c) = index + 1 /\ c[index + 1] = reading
      /\ \A i \in 1..index : c[i] = readings[i]
  <2> DEFINE one == <<reading>>
  <2>1. one \in Seq(Readings) /\ Len(one) = 1 /\ one[1] = reading
    OBVIOUS
  <2> HIDE DEF one
  <2>2. c \in Seq(Readings) /\ Len(c) = index + 1
        /\ \A i \in 1..index + 1 : c[i] = IF i <= index THEN a[i] ELSE one[i - index]
    BY <1>1, <2>1, ConcatFacts DEF one
  <2> HIDE DEF c
  <2>3. index + 1 \in 1..index + 1 /\ ~(index + 1 <= index) /\ index + 1 - index = 1
    BY <1>3
  <2> QED  BY <1>1, <1>3, <2>1, <2>2, <2>3
<1> HIDE DEF c
<1> DEFINE r == c \o b
<1>5. r \in Seq(Readings) /\ Len(r) = Len(readings) + 1
  <2>1. r \in Seq(Readings) /\ Len(r) = Len(c) + Len(b)
    BY <1>2, <1>4, ConcatFacts
  <2>2. Len(c) + Len(b) = Len(readings) + 1
    BY <1>2, <1>3, <1>4
  <2> QED  BY <2>1, <2>2
<1>6. \A i \in 1..Len(readings) + 1 : r[i] = IF i <= index + 1 THEN c[i] ELSE b[i - index - 1]
  <2>1. c \in Seq(Readings) /\ b \in Seq(Readings)
    BY <1>2, <1>4
  <2>2. \A i \in 1..Len(c) + Len(b) : r[i] = IF i <= Len(c) THEN c[i] ELSE b[i - Len(c)]
    BY <2>1
  <2>3. Len(c) + Len(b) = Len(readings) + 1 /\ \A i \in Int : i - (index + 1) = i - index - 1
    BY <1>2, <1>3, <1>4
  <2> HIDE DEF r
  <2>4. \A i \in 1..Len(readings) + 1 : r[i] = IF i <= index + 1 THEN c[i] ELSE b[i - (index + 1)]
    BY <1>4, <2>2, <2>3
  <2> QED  BY <2>3, <2>4
<1> HIDE DEF r
<1>7. \A i \in 1..Len(r) :
        r[i] = IF i <= index THEN readings[i] ELSE IF i = index + 1 THEN reading ELSE readings[i - 1]
  <2> SUFFICES ASSUME NEW i \in 1..Len(readings) + 1
               PROVE  r[i] = IF i <= index THEN readings[i]
                             ELSE IF i = index + 1 THEN reading ELSE readings[i - 1]
    BY <1>5
  <2>1. CASE i <= index
    BY <1>3, <1>4, <1>6, <2>1
  <2>2. CASE i = index + 1
    BY <1>3, <1>4, <1>6, <2>2
  <2>3. CASE i > index + 1
    <3>1. i - index - 1 \in 1..Len(readings) - index /\ index + (i - index - 1) = i - 1
      BY <1>3, <2>3
    <3>2. b[i - index - 1] = readings[i - 1]
      BY <1>2, <3>1
    <3> QED  BY <1>3, <1>6, <2>3, <3>2
  <2> QED  BY <1>3, <2>1, <2>2, <2>3
<1> QED  BY <1>5, <1>7 DEF r, c, a, b, InsertedAt

LEMMA InsertedIsGraph ==
  ASSUME NEW g, IsGraph(g), NEW index \in 0..Len(g.readings), NEW reading \in Readings
  PROVE  LET h == Inserted(g, index, reading) IN
         /\ IsGraph(h) /\ KnownWords(h) /\ h.readings = InsertedAt(g.readings, index, reading)
         /\ \A n \in h.nodes : SpellsAt(h.readings, n.start, n.query)
              \/ \E k \in g.nodes : /\ ~Touches(k, index + 1) \/ IsFixed(k)
                                    /\ n.query = k.query /\ n.fixed = k.fixed
                                    /\ n.start = IF k.start >= index + 1 THEN k.start + 1 ELSE k.start
<1> DEFINE at == index + 1
           readings == InsertedAt(g.readings, index, reading)
           kept == {n \in g.nodes : ~Touches(n, at) \/ IsFixed(n)}
           f == [n \in kept |-> IF n.start >= at THEN [n EXCEPT !.start = @ + 1] ELSE n]
           nodes == {IF n.start >= at THEN [n EXCEPT !.start = @ + 1] ELSE n : n \in kept}
           h == Inserted(g, index, reading)
<1>1. h = Build(readings, nodes)
  BY Zenon DEF Inserted, InsertedAt
<1>2. g.readings \in Seq(Readings) /\ AreNodes(g.nodes) /\ OnePerPlace(g.nodes)
      /\ \A n \in g.nodes : n.start <= Len(g.readings)
  BY DEF IsGraph, Standing
<1>3. readings \in Seq(Readings) /\ Len(readings) = Len(g.readings) + 1 /\ Len(g.readings) \in Nat
  BY <1>2, InsertedReadings
<1>4. nodes = {f[n] : n \in kept}
  OBVIOUS
<1>5. ASSUME NEW n \in kept
      PROVE  /\ n \in g.nodes /\ n.start \in Nat \ {0} /\ n.start <= Len(g.readings)
             /\ IsNode(f[n]) /\ f[n].query = n.query /\ f[n].fixed = n.fixed
             /\ f[n].start = IF n.start >= at THEN n.start + 1 ELSE n.start
  <2>1. IsNode(n) /\ n \in g.nodes /\ n.start \in Nat \ {0} /\ n.start <= Len(g.readings)
    BY <1>2 DEF AreNodes, IsNode
  <2>2. f[n] = IF n.start >= at THEN [n EXCEPT !.start = n.start + 1] ELSE n
    OBVIOUS
  <2>3. n.start + 1 \in Nat \ {0}
    BY <2>1
  <2> HIDE DEF f
  <2> QED  BY <2>1, <2>2, <2>3, PlacedNode
<1>6. IsFiniteSet(kept)
  BY <1>2, FS_Subset DEF AreNodes
<1>7. \A n \in kept : IsNode(f[n]) /\ f[n].start <= Len(readings)
  <2> HIDE DEF f, kept, readings
  <2> QED  BY <1>3, <1>5
<1>8. ASSUME NEW m \in kept, NEW n \in kept, SamePlace(f[m], f[n]) PROVE m = n
  <2>1. m.start = n.start /\ m.query = n.query
    <3> HIDE DEF f, kept
    <3> QED  BY <1>5, <1>8 DEF SamePlace
  <2> QED  BY <1>2, <1>5, <2>1 DEF OnePerPlace, SamePlace
<1>9. Standing(readings, nodes)
  <2> HIDE DEF f, kept, nodes, readings
  <2> QED  BY <1>3, <1>4, <1>6, <1>7, <1>8, MappedStanding
<1> HIDE DEF h, nodes, readings, f
<1>10. IsGraph(h) /\ KnownWords(h) /\ h.readings = readings /\ h.nodes = Built(readings, nodes)
  BY <1>1, <1>9, BuildIsGraph
<1>11. \A n \in h.nodes : n \in nodes \/ SpellsAt(h.readings, n.start, n.query)
  <2>1. \A n \in Built(readings, nodes) :
          n \in nodes \/ (n.fixed = NoText /\ SpellsAt(readings, n.start, n.query))
    BY <1>9, BuiltIsStanding
  <2> QED  BY <1>10, <2>1
<1>12. \A n \in nodes : \E k \in g.nodes :
         /\ ~Touches(k, at) \/ IsFixed(k)
         /\ n.query = k.query /\ n.fixed = k.fixed
         /\ n.start = IF k.start >= at THEN k.start + 1 ELSE k.start
  BY <1>4, <1>5
<1> QED  BY <1>10, <1>11, <1>12 DEF h, readings

(* An insertion leaves a node either fixed or standing for its readings.    *)
LEMMA InsertedFresh ==
  ASSUME NEW g, IsGraph(g), \A n \in g.nodes : Spells(g, n),
         NEW index \in 0..Len(g.readings), NEW reading \in Readings,
         NEW n \in Inserted(g, index, reading).nodes
  PROVE  Spells(Inserted(g, index, reading), n) \/ IsFixed(n)
<1> DEFINE h == Inserted(g, index, reading)
           at == index + 1
<1>1. /\ IsGraph(h) /\ h.readings = InsertedAt(g.readings, index, reading)
      /\ SpellsAt(h.readings, n.start, n.query)
           \/ \E k \in g.nodes : /\ ~Touches(k, at) \/ IsFixed(k)
                                 /\ n.query = k.query /\ n.fixed = k.fixed
                                 /\ n.start = IF k.start >= at THEN k.start + 1 ELSE k.start
  BY InsertedIsGraph
<1>2. n \in h.nodes
  OBVIOUS
<1> HIDE DEF h
<1>3. IsNode(n) /\ h.readings \in Seq(Readings) /\ n.start \in Nat \ {0} /\ n.query \in Seq(Int)
  BY <1>1, <1>2, NodeFacts DEF IsGraph, Standing, AreNodes, IsNode
<1>4. SUFFICES ASSUME NEW k \in g.nodes, ~Touches(k, at), n.query = k.query,
                      n.start = IF k.start >= at THEN k.start + 1 ELSE k.start
               PROVE  SpellsAt(h.readings, n.start, n.query)
  BY <1>1, <1>3, SpellsIs DEF IsFixed, h
<1>5. /\ IsNode(k) /\ g.readings \in Seq(Readings) /\ k.start \in Nat \ {0} /\ k.query \in Seq(Int)
      /\ End(k) = k.start + Len(k.query) /\ Len(k.query) \in Nat \ {0}
  BY NodeFacts DEF IsGraph, Standing, AreNodes, IsNode, Span, End
<1>6. SpellsAt(g.readings, k.start, k.query)
  BY <1>5, SpellsIs
<1>7. /\ Len(h.readings) = Len(g.readings) + 1 /\ Len(g.readings) \in Nat
      /\ \A i \in 1..Len(g.readings) + 1 :
           h.readings[i] = IF i <= index THEN g.readings[i]
                           ELSE IF i = at THEN reading ELSE g.readings[i - 1]
  <2> DEFINE r == InsertedAt(g.readings, index, reading)
  <2>1. Len(r) = Len(g.readings) + 1 /\ Len(g.readings) \in Nat
        /\ \A i \in 1..Len(r) :
             r[i] = IF i <= index THEN g.readings[i] ELSE IF i = index + 1 THEN reading ELSE g.readings[i - 1]
    <3> DEFINE s == g.readings
    <3>1. s \in Seq(Readings) /\ index \in 0..Len(s)
      BY <1>5
    <3> HIDE DEF s
    <3>2. Len(InsertedAt(s, index, reading)) = Len(s) + 1
          /\ \A i \in 1..Len(InsertedAt(s, index, reading)) :
               InsertedAt(s, index, reading)[i] =
                 IF i <= index THEN s[i] ELSE IF i = index + 1 THEN reading ELSE s[i - 1]
      BY <3>1, InsertedReadings
    <3>3. Len(s) \in Nat
      BY <3>1
    <3> QED  BY <3>2, <3>3 DEF s
  <2> HIDE DEF r
  <2> QED  BY <1>1, <2>1 DEF r
<1>10. index \in Nat /\ Len(g.readings) \in Nat
  BY <1>7
<1>8. CASE k.start >= at
  <2>1. k.start > at + 1 /\ n.start = k.start + 1
    BY <1>4, <1>5, <1>8 DEF Touches
  <2>2. \A i \in 1..Len(k.query) : k.query[i] = g.readings[k.start + i - 1]
    BY <1>6 DEF SpellsAt
  <2>5. k.start + Len(k.query) <= Len(g.readings) + 1
    BY <1>6 DEF SpellsAt
  <2>3. n.start + Len(n.query) <= Len(h.readings) + 1
    <3> DEFINE a == k.start
               b == Len(k.query)
               c == Len(g.readings)
    <3>1. a \in Nat /\ b \in Nat /\ c \in Nat /\ a + b <= c + 1
      BY <1>5, <1>7, <2>5
    <3>2. n.start = a + 1 /\ Len(n.query) = b /\ Len(h.readings) = c + 1
      BY <1>4, <1>7, <2>1
    <3> HIDE DEF a, b, c
    <3> QED  BY <3>1, <3>2
  <2>4. ASSUME NEW i \in 1..Len(k.query) PROVE k.query[i] = h.readings[k.start + 1 + i - 1]
    <3>1. i \in Nat /\ 1 <= i /\ i <= Len(k.query)
      BY <1>5
    <3> DEFINE x == k.start + i
    <3>2. x \in 1..Len(g.readings) + 1
      <4>1. k.start \in Nat /\ Len(k.query) \in Nat
        BY <1>5
      <4>2. x >= 1 /\ x \in Nat
        BY <3>1, <4>1
      <4>3. x <= k.start + Len(k.query)
        BY <3>1, <4>1
      <4> HIDE DEF x
      <4> QED  BY <1>10, <2>5, <4>1, <4>2, <4>3
    <3>3. ~(x <= index) /\ x # at /\ x - 1 = k.start + i - 1 /\ k.start + 1 + i - 1 = x
      BY <1>5, <1>10, <2>1, <3>1
    <3> HIDE DEF x
    <3>4. h.readings[x] = g.readings[x - 1]
      BY <1>7, <3>2, <3>3
    <3> QED  BY <2>2, <3>3, <3>4
  <2> QED  BY <1>4, <2>1, <2>3, <2>4 DEF SpellsAt
<1>9. CASE k.start < at
  <2>1. End(k) < at /\ n.start = k.start
    BY <1>4, <1>5, <1>9 DEF Touches
  <2>2. \A i \in 1..Len(k.query) : k.query[i] = g.readings[k.start + i - 1]
    BY <1>6 DEF SpellsAt
  <2>5. k.start + Len(k.query) <= Len(g.readings) + 1
    BY <1>6 DEF SpellsAt
  <2>3. n.start + Len(n.query) <= Len(h.readings) + 1
    BY <1>4, <1>5, <1>7, <2>1, <2>5
  <2>4. ASSUME NEW i \in 1..Len(k.query) PROVE k.query[i] = h.readings[k.start + i - 1]
    <3>1. k.start + i - 1 \in 1..Len(g.readings) + 1 /\ k.start + i - 1 <= index
      BY <1>5, <1>10, <2>1, <2>5, SMTT(30)
    <3> DEFINE x == k.start + i - 1
    <3> HIDE DEF x
    <3>2. h.readings[x] = g.readings[x]
      BY <1>7, <3>1 DEF x
    <3> QED  BY <2>2, <3>2 DEF x
  <2> QED  BY <1>4, <2>1, <2>3, <2>4 DEF SpellsAt
<1> QED  BY <1>5, <1>8, <1>9

-----------------------------------------------------------------------------
(* Removal.                                                                 *)
RemovedAt(readings, index) ==
  SubSeq(readings, 1, index) \o SubSeq(readings, index + 2, Len(readings))

LEMMA RemovedReadings ==
  ASSUME NEW readings \in Seq(Readings), NEW index \in 0..Len(readings) - 1
  PROVE  LET r == RemovedAt(readings, index) IN
         /\ r \in Seq(Readings) /\ Len(r) = Len(readings) - 1
         /\ \A i \in 1..Len(r) : r[i] = IF i <= index THEN readings[i] ELSE readings[i + 1]
<1> DEFINE a == SubSeq(readings, 1, index)
           b == SubSeq(readings, index + 2, Len(readings))
<1>1. a \in Seq(Readings) /\ Len(a) = index /\ \A i \in 1..index : a[i] = readings[i]
  OBVIOUS
<1>2. b \in Seq(Readings) /\ Len(b) = Len(readings) - index - 1
      /\ \A i \in 1..Len(readings) - index - 1 : b[i] = readings[index + 1 + i]
  OBVIOUS
<1>3. index \in Nat /\ Len(readings) \in Nat /\ index < Len(readings)
  OBVIOUS
<1> HIDE DEF a, b
<1> DEFINE r == a \o b
<1>4. /\ r \in Seq(Readings) /\ Len(r) = Len(readings) - 1
      /\ \A i \in 1..Len(readings) - 1 : r[i] = IF i <= index THEN a[i] ELSE b[i - index]
  <2>1. /\ r \in Seq(Readings) /\ Len(r) = Len(a) + Len(b)
        /\ \A i \in 1..Len(a) + Len(b) : r[i] = IF i <= Len(a) THEN a[i] ELSE b[i - Len(a)]
    BY <1>1, <1>2, ConcatFacts
  <2>2. Len(a) + Len(b) = Len(readings) - 1
    BY <1>1, <1>2, <1>3
  <2> HIDE DEF r
  <2> QED  BY <1>1, <2>1, <2>2
<1> HIDE DEF r
<1>5. \A i \in 1..Len(r) : r[i] = IF i <= index THEN readings[i] ELSE readings[i + 1]
  <2> SUFFICES ASSUME NEW i \in 1..Len(readings) - 1
               PROVE  r[i] = IF i <= index THEN readings[i] ELSE readings[i + 1]
    BY <1>4
  <2>1. CASE i <= index
    BY <1>1, <1>3, <1>4, <2>1
  <2>2. CASE i > index
    <3>1. i - index \in 1..Len(readings) - index - 1 /\ index + 1 + (i - index) = i + 1
      BY <1>3, <2>2
    <3>2. b[i - index] = readings[i + 1]
      BY <1>2, <3>1
    <3> QED  BY <1>3, <1>4, <2>2, <3>2
  <2> QED  BY <1>3, <2>1, <2>2
<1> QED  BY <1>4, <1>5 DEF r, a, b, RemovedAt

Near(n, at) == n.start \in at - 1..at + 1 \/ End(n) \in at - 1..at + 1

LEMMA RemovedIsGraph ==
  ASSUME NEW g, IsGraph(g), NEW index \in 0..Len(g.readings) - 1
  PROVE  LET h == Removed(g, index) IN
         /\ IsGraph(h) /\ KnownWords(h) /\ h.readings = RemovedAt(g.readings, index)
         /\ \A n \in h.nodes : SpellsAt(h.readings, n.start, n.query)
              \/ \E k \in g.nodes : /\ k.start # index + 1 /\ (~Near(k, index + 1) \/ IsFixed(k))
                                    /\ n.query = k.query /\ n.fixed = k.fixed
                                    /\ n.start = IF k.start > index + 1 THEN k.start - 1 ELSE k.start
<1> DEFINE at == index + 1
           readings == RemovedAt(g.readings, index)
           kept == {n \in g.nodes : n.start # at /\ (~Near(n, at) \/ Bypassable(n))}
           f == [n \in kept |-> IF n.start > at THEN [n EXCEPT !.start = @ - 1] ELSE n]
           nodes == {IF n.start > at THEN [n EXCEPT !.start = @ - 1] ELSE n : n \in kept}
           h == Removed(g, index)
<1>1. h = Build(readings, nodes)
  BY Zenon DEF Removed, RemovedAt, Near
<1>2. g.readings \in Seq(Readings) /\ AreNodes(g.nodes) /\ OnePerPlace(g.nodes)
      /\ \A n \in g.nodes : n.start <= Len(g.readings)
  BY DEF IsGraph, Standing
<1>3. readings \in Seq(Readings) /\ Len(readings) = Len(g.readings) - 1 /\ Len(g.readings) \in Nat
      /\ at \in 1..Len(g.readings)
  BY <1>2, RemovedReadings
<1>4. nodes = {f[n] : n \in kept}
  OBVIOUS
<1>5. ASSUME NEW n \in kept
      PROVE  /\ n \in g.nodes /\ n.start \in Nat \ {0} /\ n.start <= Len(g.readings) /\ n.start # at
             /\ IsNode(f[n]) /\ f[n].query = n.query /\ f[n].fixed = n.fixed
             /\ f[n].start = IF n.start > at THEN n.start - 1 ELSE n.start
  <2>1. IsNode(n) /\ n \in g.nodes /\ n.start \in Nat \ {0} /\ n.start <= Len(g.readings) /\ n.start # at
    BY <1>2 DEF AreNodes, IsNode
  <2>2. f[n] = IF n.start > at THEN [n EXCEPT !.start = n.start - 1] ELSE n
    OBVIOUS
  <2>3. n.start > at => n.start - 1 \in Nat \ {0}
    BY <1>3, <2>1
  <2> HIDE DEF f, at
  <2> QED  BY <2>1, <2>2, <2>3, PlacedNode
<1>6. IsFiniteSet(kept)
  BY <1>2, FS_Subset DEF AreNodes
<1>7. \A n \in kept : IsNode(f[n]) /\ f[n].start <= Len(readings)
  <2> HIDE DEF f, kept, readings, at
  <2> QED  BY <1>3, <1>5
<1>8. ASSUME NEW m \in kept, NEW n \in kept, SamePlace(f[m], f[n]) PROVE m = n
  <2>1. m.start = n.start /\ m.query = n.query
    <3> HIDE DEF f, kept, at
    <3> QED  BY <1>3, <1>5, <1>8 DEF SamePlace
  <2> QED  BY <1>2, <1>5, <2>1 DEF OnePerPlace, SamePlace
<1>9. Standing(readings, nodes)
  <2> HIDE DEF f, kept, nodes, readings
  <2> QED  BY <1>3, <1>4, <1>6, <1>7, <1>8, MappedStanding
<1> HIDE DEF h, nodes, readings, f
<1>10. IsGraph(h) /\ KnownWords(h) /\ h.readings = readings /\ h.nodes = Built(readings, nodes)
  BY <1>1, <1>9, BuildIsGraph
<1>11. \A n \in h.nodes : n \in nodes \/ SpellsAt(h.readings, n.start, n.query)
  <2>1. \A n \in Built(readings, nodes) :
          n \in nodes \/ (n.fixed = NoText /\ SpellsAt(readings, n.start, n.query))
    BY <1>9, BuiltIsStanding
  <2> QED  BY <1>10, <2>1
<1>12. \A n \in nodes : \E k \in g.nodes :
         /\ k.start # at /\ (~Near(k, at) \/ IsFixed(k))
         /\ n.query = k.query /\ n.fixed = k.fixed
         /\ n.start = IF k.start > at THEN k.start - 1 ELSE k.start
  <2>1. \A k \in kept : ~Near(k, at) \/ IsFixed(k)
    BY DEF Bypassable
  <2> HIDE DEF kept, at
  <2> QED  BY <1>4, <1>5, <2>1
<1> QED  BY <1>10, <1>11, <1>12 DEF h, readings

(* A removal may leave a node of more than three readings over the place.   *)
LEMMA RemovedFresh ==
  ASSUME NEW g, IsGraph(g), \A n \in g.nodes : Spells(g, n),
         NEW index \in 0..Len(g.readings) - 1, NEW n \in Removed(g, index).nodes
  PROVE  Spells(Removed(g, index), n) \/ IsFixed(n) \/ Span(n) > 3
<1> DEFINE h == Removed(g, index)
           at == index + 1
<1>1. /\ IsGraph(h) /\ h.readings = RemovedAt(g.readings, index)
      /\ SpellsAt(h.readings, n.start, n.query)
           \/ \E k \in g.nodes : /\ k.start # at /\ (~Near(k, at) \/ IsFixed(k))
                                 /\ n.query = k.query /\ n.fixed = k.fixed
                                 /\ n.start = IF k.start > at THEN k.start - 1 ELSE k.start
  BY RemovedIsGraph
<1>2. n \in h.nodes
  OBVIOUS
<1> HIDE DEF h
<1>3. IsNode(n) /\ h.readings \in Seq(Readings) /\ n.start \in Nat \ {0} /\ n.query \in Seq(Int)
  BY <1>1, <1>2, NodeFacts DEF IsGraph, Standing, AreNodes, IsNode
<1>4. SUFFICES ASSUME NEW k \in g.nodes, k.start # at, ~Near(k, at), n.query = k.query,
                      n.start = IF k.start > at THEN k.start - 1 ELSE k.start, Span(n) <= 3
               PROVE  SpellsAt(h.readings, n.start, n.query)
  <2>1. Span(n) \in Nat
    BY <1>3, NodeFacts
  <2> QED  BY <1>1, <1>3, <2>1, SpellsIs DEF IsFixed, h
<1>5. /\ IsNode(k) /\ g.readings \in Seq(Readings) /\ k.start \in Nat \ {0} /\ k.query \in Seq(Int)
      /\ End(k) = k.start + Len(k.query) /\ Len(k.query) \in Nat \ {0} /\ Len(k.query) <= 3
  <2>1. Span(n) = Len(k.query)
    BY <1>4 DEF Span
  <2> QED  BY <1>4, <2>1, NodeFacts DEF IsGraph, Standing, AreNodes, IsNode, Span, End
<1>6. /\ k.start + Len(k.query) <= Len(g.readings) + 1
      /\ \A i \in 1..Len(k.query) : k.query[i] = g.readings[k.start + i - 1]
  <2>1. SpellsAt(g.readings, k.start, k.query)
    BY <1>5, SpellsIs
  <2> QED  BY <2>1 DEF SpellsAt
<1>7. /\ Len(h.readings) = Len(g.readings) - 1 /\ Len(g.readings) \in Nat
      /\ \A i \in 1..Len(g.readings) - 1 :
           h.readings[i] = IF i <= index THEN g.readings[i] ELSE g.readings[i + 1]
  <2> DEFINE s == g.readings
  <2>1. s \in Seq(Readings) /\ index \in 0..Len(s) - 1
    BY <1>5
  <2> HIDE DEF s
  <2>2. Len(RemovedAt(s, index)) = Len(s) - 1
        /\ \A i \in 1..Len(RemovedAt(s, index)) :
             RemovedAt(s, index)[i] = IF i <= index THEN s[i] ELSE s[i + 1]
    BY <2>1, RemovedReadings
  <2> QED  BY <1>1, <2>1, <2>2 DEF s
<1>8. index \in Nat /\ Len(g.readings) \in Nat /\ k.start \in Nat /\ Len(k.query) \in Nat
      /\ k.start + Len(k.query) <= Len(g.readings) + 1
  BY <1>5, <1>6, <1>7
<1>9. ASSUME NEW i \in 1..Len(k.query)
      PROVE  i \in Nat /\ 1 <= i /\ i <= Len(k.query)
  BY <1>8
<1>10. CASE k.start > at
  <2>1. k.start > at + 1 /\ n.start = k.start - 1
    BY <1>4, <1>5, <1>8, <1>10 DEF Near
  <2>2. n.start + Len(n.query) <= Len(h.readings) + 1
    <3>1. k.start - 1 + Len(k.query) <= Len(g.readings) - 1 + 1
      BY <1>8
    <3> QED  BY <1>4, <1>7, <2>1, <3>1
  <2>3. ASSUME NEW i \in 1..Len(k.query) PROVE k.query[i] = h.readings[k.start - 1 + i - 1]
    <3> DEFINE x == k.start - 1 + i - 1
    <3>1. x \in 1..Len(g.readings) - 1
      <4>1. i \in Nat /\ 1 <= i /\ i <= Len(k.query)
        BY <1>9
      <4>2. x \in Nat /\ x >= 1
        BY <1>8, <2>1, <4>1
      <4>3. x <= Len(g.readings) - 1
        <5> DEFINE a == k.start
                   b == Len(k.query)
                   c == Len(g.readings)
        <5>1. a \in Nat /\ b \in Nat /\ c \in Nat /\ a + b <= c + 1
          BY <1>8
        <5>2. x = a - 1 + i - 1 /\ i <= b
          BY <4>1
        <5> HIDE DEF a, b, c, x
        <5>3. x <= c - 1
          BY <4>1, <5>1, <5>2
        <5> QED  BY <5>3 DEF c
      <4> HIDE DEF x
      <4> QED  BY <1>8, <4>2, <4>3
    <3>2. ~(x <= index) /\ x + 1 = k.start + i - 1
      BY <1>8, <1>9, <2>1
    <3> HIDE DEF x
    <3>3. h.readings[x] = g.readings[x + 1]
      BY <1>7, <3>1, <3>2
    <3> QED  BY <1>6, <3>2, <3>3 DEF x
  <2> QED  BY <1>4, <2>1, <2>2, <2>3 DEF SpellsAt
<1>11. CASE k.start < at
  <2>1. End(k) < at /\ n.start = k.start
    BY <1>4, <1>5, <1>8, <1>11 DEF Near
  <2>2. n.start + Len(n.query) <= Len(h.readings) + 1
    <3>1. index <= Len(g.readings) - 1
      BY <1>8
    <3>2. k.start + Len(k.query) <= index
      BY <1>5, <1>8, <2>1
    <3> QED  BY <1>4, <1>7, <1>8, <2>1, <3>1, <3>2
  <2>3. ASSUME NEW i \in 1..Len(k.query) PROVE k.query[i] = h.readings[k.start + i - 1]
    <3> DEFINE x == k.start + i - 1
    <3>1. x \in Nat /\ x >= 1 /\ x <= index
      <4>1. i \in Nat /\ 1 <= i /\ i <= Len(k.query)
        BY <1>9
      <4>2. k.start + Len(k.query) <= index
        BY <1>5, <1>8, <2>1
      <4> DEFINE a == k.start
                 b == Len(k.query)
      <4>3. a \in Nat /\ a >= 1 /\ b \in Nat /\ a + b <= index /\ x = a + i - 1 /\ i <= b
        BY <1>5, <1>8, <4>1, <4>2
      <4> HIDE DEF a, b, x
      <4> QED  BY <1>8, <4>1, <4>3
    <3> HIDE DEF x
    <3>2. h.readings[x] = g.readings[x]
      <4> DEFINE size == Len(g.readings)
                 f == h.readings
                 r == g.readings
      <4>1. \A j \in 1..size - 1 : f[j] = IF j <= index THEN r[j] ELSE r[j + 1]
        BY <1>7
      <4>2. size \in Nat /\ index \in Nat /\ index <= size - 1
        BY <1>8
      <4> HIDE DEF size, f, r
      <4>3. x \in 1..size - 1
        BY <3>1, <4>2
      <4>4. f[x] = r[x]
        BY <3>1, <4>1, <4>3
      <4> QED  BY <4>4 DEF f, r
    <3> QED  BY <1>6, <3>2 DEF x
  <2> QED  BY <1>4, <2>1, <2>2, <2>3 DEF SpellsAt
<1> QED  BY <1>4, <1>8, <1>10, <1>11

-----------------------------------------------------------------------------
(* Selection: every node keeps its place.                                   *)
LEMMA SelectedIsGraph ==
  ASSUME NEW g, IsGraph(g), NEW candidate, Selectable(g, candidate)
  PROVE  LET h == Selected(g, candidate) IN
         /\ IsGraph(h) /\ h.readings = g.readings
         /\ \A n \in g.nodes : \E m \in h.nodes : SamePlace(m, n)
         /\ \A m \in h.nodes : \E n \in g.nodes : SamePlace(m, n)
<1> DEFINE f == [n \in g.nodes |->
                   IF IsOf(candidate, n) THEN [n EXCEPT !.fixed = candidate.text]
                   ELSE IF Covers(n, candidate) THEN [n EXCEPT !.fixed = NoText] ELSE n]
           nodes == {IF IsOf(candidate, n) THEN [n EXCEPT !.fixed = candidate.text]
                     ELSE IF Covers(n, candidate) THEN [n EXCEPT !.fixed = NoText]
                     ELSE n : n \in g.nodes}
           h == Selected(g, candidate)
<1>1. h = Updated(g.readings, nodes)
  BY DEF Selected
<1>2. g.readings \in Seq(Readings) /\ AreNodes(g.nodes) /\ OnePerPlace(g.nodes)
      /\ \A n \in g.nodes : n.start <= Len(g.readings)
  BY DEF IsGraph, Standing
<1>3. nodes = {f[n] : n \in g.nodes}
  OBVIOUS
<1>4. ASSUME NEW n \in g.nodes
      PROVE  IsNode(f[n]) /\ f[n].start = n.start /\ f[n].query = n.query
  <2>1. IsNode(n)
    BY <1>2 DEF AreNodes
  <2>2. IsOf(candidate, n) => candidate.text \in Texts(n.query)
    BY DEF Selectable, IsOf
  <2>3. f[n] = IF IsOf(candidate, n) THEN [n EXCEPT !.fixed = candidate.text]
               ELSE IF Covers(n, candidate) THEN [n EXCEPT !.fixed = NoText] ELSE n
    OBVIOUS
  <2> HIDE DEF f
  <2>4. CASE IsOf(candidate, n)
    BY <2>1, <2>2, <2>3, <2>4, FixedNode
  <2>5. CASE ~IsOf(candidate, n) /\ Covers(n, candidate)
    BY <2>1, <2>3, <2>5, FixedNode
  <2>6. CASE ~IsOf(candidate, n) /\ ~Covers(n, candidate)
    BY <2>1, <2>3, <2>6
  <2> QED  BY <2>4, <2>5, <2>6
<1> HIDE DEF f, nodes, h
<1>5. \A n \in g.nodes : IsNode(f[n]) /\ f[n].start <= Len(g.readings)
  BY <1>2, <1>4
<1>6. \A m, n \in g.nodes : SamePlace(f[m], f[n]) => m = n
  BY <1>2, <1>4 DEF SamePlace, OnePerPlace
<1>7. Standing(g.readings, nodes)
  BY <1>2, <1>3, <1>5, <1>6, MappedStanding DEF AreNodes
<1>8. IsGraph(h) /\ h.readings = g.readings /\ h.nodes = nodes
  BY <1>1, <1>7, UpdatedIsGraph
<1>9. \A n \in g.nodes : f[n] \in h.nodes /\ SamePlace(f[n], n)
  BY <1>3, <1>4, <1>8 DEF SamePlace
<1>10. \A m \in h.nodes : \E n \in g.nodes : SamePlace(m, n)
  BY <1>3, <1>8, <1>9
<1> QED  BY <1>8, <1>9, <1>10 DEF h

LEMMA SelectedKeepsWords ==
  ASSUME NEW g, IsGraph(g), KnownWords(g), NEW candidate, Selectable(g, candidate)
  PROVE  KnownWords(Selected(g, candidate))
<1> DEFINE h == Selected(g, candidate)
<1>1. h.readings = g.readings /\ \A n \in g.nodes : \E m \in h.nodes : SamePlace(m, n)
  BY SelectedIsGraph
<1> HIDE DEF h
<1>2. SUFFICES ASSUME NEW from \in DOMAIN g.readings, NEW span \in 1..MaxSpan,
                      from + span - 1 \in DOMAIN g.readings,
                      Words(SubSeq(g.readings, from, from + span - 1)) # <<>>
               PROVE  \E n \in h.nodes : /\ n.start = from
                                         /\ n.query = SubSeq(g.readings, from, from + span - 1)
  BY <1>1 DEF KnownWords, h
<1>3. PICK n \in g.nodes : n.start = from /\ n.query = SubSeq(g.readings, from, from + span - 1)
  BY <1>2 DEF KnownWords
<1> QED  BY <1>1, <1>3 DEF SamePlace

LEMMA SelectedFresh ==
  ASSUME NEW g, IsGraph(g), \A n \in g.nodes : Spells(g, n), NEW candidate, Selectable(g, candidate),
         NEW m \in Selected(g, candidate).nodes
  PROVE  Spells(Selected(g, candidate), m)
<1> DEFINE h == Selected(g, candidate)
<1>1. h.readings = g.readings /\ \E n \in g.nodes : SamePlace(m, n)
  BY SelectedIsGraph
<1> HIDE DEF h
<1> QED  BY <1>1 DEF Spells, End, Span, SamePlace, h

-----------------------------------------------------------------------------
(* A rebuild: the nodes of the readings alone, and what was fixed of them.  *)
FixedAs(g, n) == {m \in g.nodes : IsFixed(m) /\ m.start = n.start /\ m.query = n.query}

LEMMA NoNodesStand ==
  ASSUME NEW readings \in Seq(Readings) PROVE Standing(readings, {})
BY FS_EmptySet DEF Standing, AreNodes, OnePerPlace

LEMMA RebuiltIsGraph ==
  ASSUME NEW g, IsGraph(g)
  PROVE  LET h == Rebuilt(g) IN
         /\ IsGraph(h) /\ KnownWords(h) /\ h.readings = g.readings
         /\ \A m \in h.nodes : SpellsAt(g.readings, m.start, m.query)
         /\ \A n \in Built(g.readings, {}) : \E m \in h.nodes :
              /\ SamePlace(m, n)
              /\ \A k \in g.nodes : IsFixed(k) /\ SamePlace(k, n) => m.fixed = k.fixed
<1> DEFINE built == Built(g.readings, {})
           f == [n \in built |-> IF FixedAs(g, n) = {} THEN n
                                 ELSE [n EXCEPT !.fixed = First(FixedAs(g, n)).fixed]]
           nodes == {IF FixedAs(g, n) = {} THEN n
                     ELSE [n EXCEPT !.fixed = First(FixedAs(g, n)).fixed] : n \in built}
           h == Rebuilt(g)
<1>1. h = Updated(g.readings, nodes)
  BY DEF Rebuilt, FixedAs
<1>2. g.readings \in Seq(Readings) /\ AreNodes(g.nodes) /\ OnePerPlace(g.nodes)
  BY DEF IsGraph, Standing
<1>3. /\ Standing(g.readings, built)
      /\ KnownWords([readings |-> g.readings, nodes |-> built])
      /\ \A n \in built : n.fixed = NoText /\ SpellsAt(g.readings, n.start, n.query)
  BY <1>2, NoNodesStand, BuiltIsStanding
<1>4. nodes = {f[n] : n \in built}
  OBVIOUS
<1>5. ASSUME NEW n \in built
      PROVE  /\ IsNode(f[n]) /\ f[n].start = n.start /\ f[n].query = n.query
             /\ \A k \in g.nodes : IsFixed(k) /\ SamePlace(k, n) => f[n].fixed = k.fixed
  <2> DEFINE as == FixedAs(g, n)
  <2>1. IsNode(n)
    BY <1>3 DEF Standing, AreNodes
  <2>2. f[n] = IF as = {} THEN n ELSE [n EXCEPT !.fixed = First(as).fixed]
    OBVIOUS
  <2>3. \A k \in g.nodes : IsFixed(k) /\ SamePlace(k, n) => k \in as
    BY DEF FixedAs, SamePlace
  <2>4. AreNodes(as) /\ OnePerPlace(as)
    BY <1>2, SomeNodes DEF FixedAs
  <2>5. \A k \in as : k \in g.nodes /\ k.query = n.query /\ SamePlace(k, n) /\ IsNode(k)
    BY <1>2 DEF FixedAs, SamePlace, AreNodes
  <2> HIDE DEF f, as
  <2>6. CASE as = {}
    BY <2>1, <2>2, <2>3, <2>6
  <2>7. CASE as # {}
    <3>1. First(as) \in as
      BY <2>4, <2>7, FirstIsLeast
    <3>2. First(as).fixed \in Texts(n.query) \cup {NoText}
      BY <2>5, <3>1 DEF IsNode
    <3>3. \A k \in as : k = First(as)
      BY <2>4, <2>5, <3>1 DEF OnePerPlace, SamePlace
    <3>4. f[n] = [n EXCEPT !.fixed = First(as).fixed]
      BY <2>2, <2>7
    <3> DEFINE t == First(as).fixed
    <3>5. IsNode(f[n]) /\ f[n].start = n.start /\ f[n].query = n.query /\ f[n].fixed = t
      <4> HIDE DEF t
      <4>1. f[n] = [n EXCEPT !.fixed = t]
        BY <3>4 DEF t
      <4>2. t \in Texts(n.query) \cup {NoText}
        BY <3>2 DEF t
      <4> QED  BY <2>1, <4>1, <4>2, FixedNode
    <3> QED  BY <2>3, <3>3, <3>5
  <2> QED  BY <2>6, <2>7
<1> HIDE DEF f, nodes, h, built
<1>6. \A n \in built : IsNode(f[n]) /\ f[n].start <= Len(g.readings)
  BY <1>3, <1>5 DEF Standing
<1>7. \A m, n \in built : SamePlace(f[m], f[n]) => m = n
  BY <1>3, <1>5 DEF SamePlace, OnePerPlace, Standing
<1>8. Standing(g.readings, nodes)
  BY <1>2, <1>3, <1>4, <1>6, <1>7, MappedStanding DEF Standing, AreNodes
<1>9. IsGraph(h) /\ h.readings = g.readings /\ h.nodes = nodes
  BY <1>1, <1>8, UpdatedIsGraph
<1>10. \A m \in h.nodes : SpellsAt(g.readings, m.start, m.query)
  BY <1>3, <1>4, <1>5, <1>9
<1>11. \A n \in built : /\ f[n] \in h.nodes /\ SamePlace(f[n], n)
                        /\ \A k \in g.nodes : IsFixed(k) /\ SamePlace(k, n) => f[n].fixed = k.fixed
  BY <1>4, <1>5, <1>9 DEF SamePlace
<1>12. KnownWords(h)
  <2> SUFFICES ASSUME NEW from \in DOMAIN g.readings, NEW span \in 1..MaxSpan,
                      from + span - 1 \in DOMAIN g.readings,
                      Words(SubSeq(g.readings, from, from + span - 1)) # <<>>
               PROVE  \E n \in h.nodes : /\ n.start = from
                                         /\ n.query = SubSeq(g.readings, from, from + span - 1)
    BY <1>9 DEF KnownWords
  <2>1. PICK n \in built : n.start = from /\ n.query = SubSeq(g.readings, from, from + span - 1)
    BY <1>3 DEF KnownWords
  <2> QED  BY <1>11, <2>1 DEF SamePlace
<1>13. \A n \in built : \E m \in h.nodes :
         /\ SamePlace(m, n)
         /\ \A k \in g.nodes : IsFixed(k) /\ SamePlace(k, n) => m.fixed = k.fixed
  BY <1>11
<1> QED  BY <1>9, <1>10, <1>12, <1>13 DEF h, built

LEMMA RebuiltKeepsFixed ==
  ASSUME NEW g, IsGraph(g), NEW n \in g.nodes, IsFixed(n)
  PROVE  Spells(g, n) <=> \E m \in Rebuilt(g).nodes :
                            m.start = n.start /\ m.query = n.query /\ m.fixed = n.fixed
<1> DEFINE h == Rebuilt(g)
<1>1. /\ \A m \in h.nodes : SpellsAt(g.readings, m.start, m.query)
      /\ \A b \in Built(g.readings, {}) : \E m \in h.nodes :
           /\ SamePlace(m, b)
           /\ \A k \in g.nodes : IsFixed(k) /\ SamePlace(k, b) => m.fixed = k.fixed
  BY RebuiltIsGraph
<1> HIDE DEF h
<1>2. /\ IsNode(n) /\ n.start \in 1..Len(g.readings) /\ n.query \in Queries /\ n.query \in Seq(Int)
      /\ Span(n) <= MaxSpan /\ g.readings \in Seq(Readings) /\ n.start \in Nat \ {0}
  <2>1. IsNode(n) /\ n.start <= Len(g.readings) /\ g.readings \in Seq(Readings)
    BY DEF IsGraph, Standing, AreNodes
  <2>2. Len(g.readings) \in Nat
    BY <2>1
  <2> QED  BY <2>1, <2>2, NodeFacts, SpanAssumption DEF IsNode
<1>3. Spells(g, n) <=> SpellsAt(g.readings, n.start, n.query)
  BY <1>2, SpellsIs
<1>4. ASSUME NEW m \in h.nodes, m.start = n.start, m.query = n.query PROVE Spells(g, n)
  BY <1>1, <1>3, <1>4
<1>5. ASSUME SpellsAt(g.readings, n.start, n.query)
      PROVE  \E m \in h.nodes : m.start = n.start /\ m.query = n.query /\ m.fixed = n.fixed
  <2> DEFINE place == [start |-> n.start, query |-> n.query]
  <2>1. place.start = n.start /\ place.query = n.query
        /\ place = [start |-> place.start, query |-> place.query]
    OBVIOUS
  <2> HIDE DEF place
  <2>2. place \in Missing(g.readings, {})
    BY <1>2, <1>5, <2>1, MissingFacts DEF Span
  <2> DEFINE b == Node(place, Ending(place, Missing(g.readings, {}), {}))
  <2>3. b \in Built(g.readings, {})
    BY <2>2 DEF Built, Added, Ending
  <2>4. b.start = n.start /\ b.query = n.query
    BY <2>1 DEF Node
  <2> HIDE DEF b
  <2>5. PICK m \in h.nodes :
          /\ SamePlace(m, b)
          /\ \A k \in g.nodes : IsFixed(k) /\ SamePlace(k, b) => m.fixed = k.fixed
    BY <1>1, <2>3
  <2> QED  BY <2>4, <2>5 DEF SamePlace
<1> QED  BY <1>3, <1>4, <1>5 DEF h

-----------------------------------------------------------------------------
(* A shift keeps the words behind the first.                                *)
LEMMA ShiftedNodes ==
  ASSUME NEW g, IsGraph(g), CanLeave(g)
  PROVE  LET d == Span(g.path[1].node)
             h == Shifted(g)
         IN  /\ d \in Nat \ {0} /\ d <= Len(g.readings) /\ Len(g.readings) \in Nat
             /\ h.readings \in Seq(Readings) /\ Len(h.readings) = Len(g.readings) - d
             /\ \A i \in 1..Len(g.readings) - d : h.readings[i] = g.readings[d + i]
             /\ \A n \in g.nodes : n.start >= d + 1 =>
                  \E m \in h.nodes : m.start = n.start - d /\ m.query = n.query
             /\ \A m \in h.nodes : \E n \in g.nodes :
                  n.start >= d + 1 /\ m.start = n.start - d /\ m.query = n.query
<1> DEFINE d == Span(g.path[1].node)
           h == Shifted(g)
<1>1. /\ h.readings = SubSeq(g.readings, d + 1, Len(g.readings))
      /\ h.nodes = {Moved(Frozen(g, n), d) : n \in Later(g)}
      /\ d \in 1..Len(g.readings) /\ End(g.path[1].node) = d + 1
      /\ Len(h.readings) = Len(g.readings) - d /\ h.readings \in Seq(Readings)
  BY ShiftedIs
<1>2. g.readings \in Seq(Readings) /\ Len(g.readings) \in Nat
  BY DEF IsGraph, Standing
<1> HIDE DEF d, h
<1>3. d \in Nat \ {0} /\ d <= Len(g.readings)
  BY <1>1, <1>2
<1>4. \A i \in 1..Len(g.readings) - d : h.readings[i] = g.readings[d + i]
  <2> DEFINE s == g.readings
  <2>1. s \in Seq(Readings)
    BY <1>2
  <2> HIDE DEF s
  <2>2. \A i \in 1..Len(s) - d : SubSeq(s, d + 1, Len(s))[i] = s[d + i]
    BY <1>3, <2>1
  <2> QED  BY <1>1, <2>2 DEF s
<1>5. \A n \in g.nodes : n.start >= d + 1 <=> n \in Later(g)
  BY <1>1 DEF Later, d
<1>6. ASSUME NEW n \in Later(g)
      PROVE  n \in g.nodes /\ Moved(Frozen(g, n), d).start = n.start - d /\ Moved(Frozen(g, n), d).query = n.query
  <2>1. n \in g.nodes /\ n.start >= d + 1 /\ n.start \in Nat
    BY <1>5 DEF Later, IsGraph, Standing, AreNodes, IsNode
  <2>2. IsNode(Frozen(g, n)) /\ Frozen(g, n).start = n.start /\ Frozen(g, n).query = n.query
    BY <2>1, FrozenNode
  <2>3. Frozen(g, n).start - d >= 1
    BY <1>3, <2>1, <2>2
  <2> QED  BY <1>3, <2>1, <2>2, <2>3, MovedNode
<1>7. \A n \in g.nodes : n.start >= d + 1 => \E m \in h.nodes : m.start = n.start - d /\ m.query = n.query
  BY <1>1, <1>5, <1>6
<1>8. \A m \in h.nodes : \E n \in g.nodes : n.start >= d + 1 /\ m.start = n.start - d /\ m.query = n.query
  BY <1>1, <1>5, <1>6
<1> QED  BY <1>1, <1>2, <1>3, <1>4, <1>7, <1>8 DEF d, h

LEMMA SubSeqIs ==
  ASSUME NEW T, NEW s \in Seq(T), NEW at \in Nat \ {0}, NEW k \in Nat \ {0}, at + k - 1 <= Len(s)
  PROVE  SubSeq(s, at, at + k - 1) = [i \in 1..k |-> s[at + i - 1]]
<1> DEFINE to == at + k - 1
<1>1. to \in Nat /\ to - at + 1 = k
  OBVIOUS
<1> HIDE DEF to
<1> DEFINE q == SubSeq(s, at, to)
<1>2. \A i \in at..to : s[i] \in T
  BY <1>1 DEF to
<1>4. q \in Seq(T) /\ Len(q) = k /\ \A i \in 1..k : q[i] = s[at + i - 1]
  <2>1. /\ q \in Seq(T) /\ Len(q) = IF at <= to THEN to - at + 1 ELSE 0
        /\ \A i \in 1..to - at + 1 : q[i] = s[at + i - 1]
    BY <1>1, <1>2, SubSeqProperties
  <2> HIDE DEF q
  <2> QED  BY <1>1, <2>1
<1> HIDE DEF q
<1>5. q = [i \in 1..k |-> q[i]]
  BY <1>4
<1>3. q = [i \in 1..k |-> s[at + i - 1]]
  BY <1>4, <1>5
<1> QED  BY <1>3 DEF to, q

LEMMA ShiftedKeepsWords ==
  ASSUME NEW g, IsGraph(g), CanLeave(g), KnownWords(g)
  PROVE  KnownWords(Shifted(g))
<1> DEFINE d == Span(g.path[1].node)
           h == Shifted(g)
<1>1. /\ d \in Nat \ {0} /\ d <= Len(g.readings) /\ Len(g.readings) \in Nat
      /\ h.readings \in Seq(Readings) /\ Len(h.readings) = Len(g.readings) - d
      /\ \A i \in 1..Len(g.readings) - d : h.readings[i] = g.readings[d + i]
      /\ \A n \in g.nodes : n.start >= d + 1 =>
           \E m \in h.nodes : m.start = n.start - d /\ m.query = n.query
  BY ShiftedNodes
<1>0. g.readings \in Seq(Readings)
  BY DEF IsGraph, Standing
<1> HIDE DEF d, h
<1>2. SUFFICES ASSUME NEW from \in DOMAIN h.readings, NEW span \in 1..MaxSpan,
                      from + span - 1 \in DOMAIN h.readings,
                      Words(SubSeq(h.readings, from, from + span - 1)) # <<>>
               PROVE  \E m \in h.nodes : /\ m.start = from
                                         /\ m.query = SubSeq(h.readings, from, from + span - 1)
  BY DEF KnownWords, h
<1> DEFINE there == from + d
           r == h.readings
           s == g.readings
<1>3. r \in Seq(Readings) /\ s \in Seq(Readings) /\ Len(r) = Len(s) - d /\ Len(s) \in Nat /\ Len(r) \in Nat
  BY <1>0, <1>1
<1>9. span \in Nat \ {0}
  BY SpanAssumption
<1>10. DOMAIN r = 1..Len(r) /\ DOMAIN s = 1..Len(s)
  <2> HIDE DEF r, s
  <2> QED  BY <1>3
<1>11. from \in Nat \ {0} /\ from + span - 1 <= Len(r) /\ from <= Len(r)
  <2>1. from \in DOMAIN r /\ from + span - 1 \in DOMAIN r
    BY <1>2
  <2> HIDE DEF r, s
  <2> QED  BY <1>3, <1>10, <2>1
<1>4. there \in DOMAIN s /\ there + span - 1 \in DOMAIN s /\ there \in Nat /\ there >= d + 1
      /\ there + span - 1 <= Len(s) /\ there >= 1
  <2> HIDE DEF r, s
  <2>1. d \in Nat \ {0}
    BY <1>1
  <2>2. there \in Nat /\ there >= d + 1 /\ there + span - 1 <= Len(s) /\ there + span - 1 >= there /\ there >= 1
    BY <1>3, <1>9, <1>11, <2>1
  <2>3. there <= Len(s)
    BY <1>3, <1>11, <2>1
  <2>4. there + span - 1 \in Nat
    BY <1>9, <1>11, <2>1
  <2> HIDE DEF there
  <2> QED  BY <1>3, <1>10, <2>2, <2>3, <2>4
<1>5. SubSeq(r, from, from + span - 1) = SubSeq(s, there, there + span - 1)
  <2>1. (\A i \in 1..Len(s) - d : r[i] = s[d + i]) /\ d \in Nat \ {0}
    BY <1>1
  <2>5. there = from + d
    OBVIOUS
  <2> HIDE DEF r, s, there
  <2>2. SubSeq(r, from, from + span - 1) = [i \in 1..span |-> r[from + i - 1]]
    BY <1>3, <1>9, <1>11, SubSeqIs
  <2>3. SubSeq(s, there, there + span - 1) = [i \in 1..span |-> s[there + i - 1]]
    <3>1. there \in Nat \ {0} /\ there + span - 1 <= Len(s)
      BY <1>4
    <3> QED  BY <1>3, <1>9, <3>1, SubSeqIs
  <2>4. ASSUME NEW i \in 1..span PROVE r[from + i - 1] = s[there + i - 1]
    <3>1. i \in Nat /\ 1 <= i /\ i <= span
      BY <1>9
    <3> DEFINE x == from + i - 1
    <3>2. x \in Nat /\ 1 <= x /\ x <= Len(s) - d /\ d + x = there + i - 1
      BY <1>3, <1>9, <1>11, <2>1, <2>5, <3>1, SMTT(30)
    <3> HIDE DEF x
    <3>3. r[x] = s[d + x]
      BY <1>3, <2>1, <3>2
    <3> QED  BY <3>2, <3>3 DEF x
  <2> QED  BY <2>2, <2>3, <2>4
<1> HIDE DEF there, r
<1>6. PICK n \in g.nodes : n.start = there /\ n.query = SubSeq(s, there, there + span - 1)
  <2>1. Words(SubSeq(s, there, there + span - 1)) # <<>>
    BY <1>2, <1>5 DEF r
  <2> QED  BY <1>4, <2>1 DEF KnownWords
<1>7. PICK m \in h.nodes : m.start = n.start - d /\ m.query = n.query
  BY <1>1, <1>4, <1>6
<1>8. m.start = from
  BY <1>1, <1>11, <1>6, <1>7 DEF there
<1> QED  BY <1>5, <1>6, <1>7, <1>8 DEF r

LEMMA ShiftedFresh ==
  ASSUME NEW g, IsGraph(g), CanLeave(g), \A n \in g.nodes : Spells(g, n), NEW m \in Shifted(g).nodes
  PROVE  Spells(Shifted(g), m)
<1> DEFINE d == Span(g.path[1].node)
           h == Shifted(g)
<1>1. /\ d \in Nat \ {0} /\ d <= Len(g.readings) /\ Len(g.readings) \in Nat
      /\ h.readings \in Seq(Readings) /\ Len(h.readings) = Len(g.readings) - d
      /\ \A i \in 1..Len(g.readings) - d : h.readings[i] = g.readings[d + i]
      /\ \E n \in g.nodes : n.start >= d + 1 /\ m.start = n.start - d /\ m.query = n.query
  BY ShiftedNodes
<1> HIDE DEF d, h
<1>2. PICK n \in g.nodes : n.start >= d + 1 /\ m.start = n.start - d /\ m.query = n.query
  BY <1>1
<1>3. /\ IsNode(n) /\ g.readings \in Seq(Readings) /\ n.start \in Nat \ {0} /\ n.query \in Seq(Int)
      /\ Len(n.query) \in Nat \ {0}
  BY NodeFacts DEF IsGraph, Standing, AreNodes, IsNode, Span
<1>4. SpellsAt(g.readings, n.start, n.query)
  BY <1>3, SpellsIs
<1>5. n.start + Len(n.query) <= Len(g.readings) + 1
  BY <1>4 DEF SpellsAt
<1>6. \A i \in 1..Len(n.query) : n.query[i] = g.readings[n.start + i - 1]
  BY <1>4 DEF SpellsAt
<1>7. m.start + Len(m.query) <= Len(h.readings) + 1 /\ m.start \in Nat \ {0}
  <2> DEFINE a == Len(g.readings)
             b == Len(h.readings)
             k == Len(n.query)
             at == n.start
  <2>1. a \in Nat /\ d \in Nat /\ d >= 1 /\ b = a - d /\ at \in Nat /\ at >= d + 1 /\ at + k <= a + 1 /\ k \in Nat
    BY <1>1, <1>2, <1>3, <1>5
  <2>2. m.start = at - d /\ Len(m.query) = k
    BY <1>2
  <2> HIDE DEF a, b, k, at
  <2>3. m.start + Len(m.query) <= b + 1 /\ m.start \in Nat \ {0}
    BY <2>1, <2>2
  <2> QED  BY <2>3 DEF b
<1>8. ASSUME NEW i \in 1..Len(n.query) PROVE n.query[i] = h.readings[m.start + i - 1]
  <2> DEFINE x == m.start + i - 1
  <2>1. i \in Nat /\ 1 <= i /\ i <= Len(n.query)
    BY <1>3
  <2>2. x \in 1..Len(g.readings) - d
    <3>1. x \in Nat /\ x >= 1
      BY <1>7, <2>1
    <3>2. x <= Len(g.readings) - d
      <4>1. n.start \in Nat /\ Len(n.query) \in Nat /\ d \in Nat /\ Len(g.readings) \in Nat /\ m.start = n.start - d
        BY <1>1, <1>2, <1>3
      <4>2. n.start + i - 1 <= Len(g.readings)
        BY <1>5, <2>1, <4>1
      <4> QED  BY <2>1, <4>1, <4>2
    <3> HIDE DEF x
    <3> QED  BY <1>1, <3>1, <3>2
  <2>3. d + x = n.start + i - 1
    BY <1>1, <1>2, <1>3, <2>1
  <2> HIDE DEF x
  <2>4. h.readings[x] = g.readings[d + x]
    BY <1>1, <2>2
  <2> QED  BY <1>6, <2>3, <2>4 DEF x
<1>9. SpellsAt(h.readings, m.start, m.query)
  BY <1>2, <1>7, <1>8 DEF SpellsAt
<1>10. Spells(h, m)
  BY <1>1, <1>2, <1>3, <1>7, <1>9, SpellsIs
<1> QED  BY <1>10 DEF h

-----------------------------------------------------------------------------
(* Every graph that edits lead to.                                          *)
EditedGraph == IsGraph(graph) /\ KnownWords(graph)

LEMMA EditedGraphInit == GraphInit => EditedGraph
BY EmptyIsGraph DEF GraphInit, EditedGraph

LEMMA EditedGraphStep == EditedGraph /\ [GraphNext]_graph => EditedGraph'
<1> SUFFICES ASSUME EditedGraph, [GraphNext]_graph PROVE EditedGraph'
  OBVIOUS
<1>1. IsGraph(graph) /\ KnownWords(graph)
  BY DEF EditedGraph
<1>2. ASSUME NEW index \in 0..Len(graph.readings), NEW r \in Readings, Insert(index, r) PROVE EditedGraph'
  BY <1>1, <1>2, InsertedIsGraph DEF Insert, EditedGraph
<1>3. ASSUME NEW index \in 0..Len(graph.readings) - 1, Remove(index) PROVE EditedGraph'
  BY <1>1, <1>3, RemovedIsGraph DEF Remove, EditedGraph
<1>4. ASSUME NEW candidate \in Offers, SelectOffer(candidate) PROVE EditedGraph'
  BY <1>1, <1>4, SelectedIsGraph, SelectedKeepsWords DEF SelectOffer, EditedGraph
<1>5. ASSUME Shift PROVE EditedGraph'
  BY <1>1, <1>5, ShiftedIsGraph, ShiftedKeepsWords DEF Shift, CanShift, CanLeave, EditedGraph
<1>6. ASSUME SetUserData PROVE EditedGraph'
  BY <1>1, <1>6, RebuiltIsGraph DEF SetUserData, EditedGraph
<1>7. ASSUME UNCHANGED graph PROVE EditedGraph'
  BY <1>1, <1>7 DEF EditedGraph
<1> QED  BY <1>2, <1>3, <1>4, <1>5, <1>6, <1>7 DEF GraphNext

(* Whatever was edited, the nodes stand at readings, one for each word at   *)
(* each place, and the path is the one that update chooses.                 *)
THEOREM GraphsAreSound == GraphSpec => []EditedGraph
BY EditedGraphInit, EditedGraphStep, PTL DEF GraphSpec

(* A word of the lexicon is offered wherever the readings spell it.         *)
THEOREM WordsAreOffered == GraphSpec => []EveryWordIsOffered
<1>1. EditedGraph => EveryWordIsOffered
  BY DEF EditedGraph, KnownWords, EveryWordIsOffered
<1> QED  BY <1>1, GraphsAreSound, PTL

(* A shift takes one word away and leaves the others as they were shown.    *)
THEOREM ShiftsKeepText == GraphSpec => []ShiftKeepsText
<1>1. EditedGraph => ShiftKeepsText
  BY ShiftKeepsTheRest DEF EditedGraph, ShiftKeepsText, CanShift, CanLeave
<1> QED  BY <1>1, GraphsAreSound, PTL

(* A rebuild keeps just the fixed words that stand for their readings.      *)
THEOREM RebuildsKeepSelections == GraphSpec => []RebuildKeepsSelections
<1>1. EditedGraph => RebuildKeepsSelections
  <2> SUFFICES ASSUME EditedGraph, NEW n \in graph.nodes, IsFixed(n)
               PROVE  Spells(graph, n) <=> \E m \in Rebuilt(graph).nodes :
                        m.start = n.start /\ m.query = n.query /\ m.fixed = n.fixed
    BY DEF RebuildKeepsSelections
  <2> QED  BY RebuiltKeepsFixed DEF EditedGraph
<1> QED  BY <1>1, GraphsAreSound, PTL

(* An edit of fresh nodes leaves no stale ones but those that the user      *)
(* fixed or that are longer than three readings.                            *)
THEOREM NodesStayFresh == GraphSpec => EditsKeepNodesFresh
<1> DEFINE Stays == \A n \in graph'.nodes : Spells(graph', n) \/ IsFixed(n) \/ Span(n) > 3
<1>1. EditedGraph /\ [GraphNext]_graph => [IsFresh(graph) => Stays]_graph
  <2> SUFFICES ASSUME EditedGraph, GraphNext, IsFresh(graph) PROVE Stays
    OBVIOUS
  <2>1. IsGraph(graph) /\ \A n \in graph.nodes : Spells(graph, n)
    BY DEF EditedGraph, IsFresh
  <2>2. ASSUME NEW index \in 0..Len(graph.readings), NEW r \in Readings, Insert(index, r) PROVE Stays
    BY <2>1, <2>2, InsertedFresh DEF Insert
  <2>3. ASSUME NEW index \in 0..Len(graph.readings) - 1, Remove(index) PROVE Stays
    BY <2>1, <2>3, RemovedFresh DEF Remove
  <2>4. ASSUME NEW candidate \in Offers, SelectOffer(candidate) PROVE Stays
    BY <2>1, <2>4, SelectedFresh DEF SelectOffer
  <2>5. ASSUME Shift PROVE Stays
    BY <2>1, <2>5, ShiftedFresh DEF Shift, CanShift, CanLeave
  <2>6. ASSUME SetUserData PROVE Stays
    <3>1. /\ IsGraph(graph') /\ graph'.readings = graph.readings
          /\ \A m \in graph'.nodes : SpellsAt(graph.readings, m.start, m.query)
      BY <2>1, <2>6, RebuiltIsGraph DEF SetUserData
    <3>2. \A m \in graph'.nodes : Spells(graph', m)
      <4> SUFFICES ASSUME NEW m \in graph'.nodes PROVE Spells(graph', m)
        OBVIOUS
      <4>1. m.start \in Nat \ {0} /\ m.query \in Seq(Int) /\ graph'.readings \in Seq(Readings)
        BY <3>1, NodeFacts DEF IsGraph, Standing, AreNodes, IsNode
      <4> QED  BY <3>1, <4>1, SpellsIs
    <3> QED  BY <3>2
  <2> QED  BY <2>2, <2>3, <2>4, <2>5, <2>6 DEF GraphNext
<1> QED  BY <1>1, GraphsAreSound, PTL DEF GraphSpec, EditsKeepNodesFresh

-----------------------------------------------------------------------------
(* A sound composition.                                                     *)
IsState(s) == DOMAIN s = {"graph", "reading", "cursor", "candidates", "mark", "commit"}

Sound(s) ==
  /\ IsState(s)
  /\ IsGraph(s.graph) /\ KnownWords(s.graph)
  /\ s.reading \in Syllables \cup {NoReading}
  /\ s.cursor \in 0..Size(s) /\ s.mark \in 0..Size(s) \cup {NoMark}
  /\ \A c \in s.candidates : c.start \in Nat /\ Selectable(s.graph, c)
  /\ s.candidates # {} => ~IsReading(s) /\ s.mark = NoMark

Closed(s) == Sound(s) /\ s.candidates = {}

LEMMA SizeOfSound ==
  ASSUME NEW s, Sound(s)
  PROVE  Size(s) \in Nat /\ s.graph.readings \in Seq(Readings)
BY DEF Sound, IsGraph, Standing, Size

LEMMA Clearing ==
  ASSUME NEW s, IsState(s)
  PROVE  Closed(Cleared(s)) /\ Size(Cleared(s)) = 0 /\ Cleared(s).commit = s.commit
<1> DEFINE c == Cleared(s)
<1>1. /\ c.graph = EmptyGraph /\ c.reading = NoReading /\ c.cursor = 0 /\ c.candidates = {}
      /\ c.mark = NoMark /\ c.commit = s.commit /\ IsState(c)
  BY DEF IsState, Cleared
<1> HIDE DEF c
<1>2. Size(c) = 0
  BY <1>1 DEF Size, EmptyGraph
<1>3. Closed(c)
  BY <1>1, <1>2, EmptyIsGraph DEF Closed, Sound
<1> QED  BY <1>1, <1>2, <1>3 DEF c

LEMMA Unmarking ==
  ASSUME NEW s, Closed(s)
  PROVE  LET u == Unmarked(s) IN
         /\ Closed(u) /\ u.graph = s.graph /\ u.reading = s.reading /\ u.commit = s.commit
         /\ u.mark = NoMark /\ Size(u) = Size(s) /\ IsReading(u) = IsReading(s)
<1> DEFINE u == Unmarked(s)
<1>1. CASE s.mark = NoMark
  BY <1>1 DEF Unmarked
<1>2. CASE s.mark # NoMark
  <2> DEFINE at == AtMost(s.mark, Size(s))
  <2>1. /\ u.graph = s.graph /\ u.reading = s.reading /\ u.cursor = at
        /\ u.candidates = s.candidates /\ u.mark = NoMark /\ u.commit = s.commit
        /\ IsState(u)
    BY <1>2 DEF Unmarked, Closed, Sound, IsState
  <2>2. s.mark \in 0..Size(s) /\ Size(s) \in Nat
    BY <1>2, SizeOfSound DEF Closed, Sound
  <2>3. at \in 0..Size(s)
    BY <2>2 DEF AtMost
  <2> HIDE DEF at, u
  <2>4. Size(u) = Size(s) /\ IsReading(u) = IsReading(s)
    BY <2>1 DEF Size, IsReading
  <2>5. Closed(u)
    BY <2>1, <2>3, <2>4 DEF Closed, Sound
  <2> QED  BY <2>1, <2>4, <2>5 DEF u
<1> QED  BY <1>1, <1>2

LEMMA WithoutCandidates ==
  ASSUME NEW s, Sound(s)
  PROVE  LET u == NoCandidates(s) IN
         /\ Closed(u) /\ u.graph = s.graph /\ u.reading = s.reading /\ u.commit = s.commit
         /\ u.cursor = s.cursor /\ u.mark = s.mark /\ Size(u) = Size(s) /\ IsReading(u) = IsReading(s)
<1> DEFINE u == NoCandidates(s)
<1>1. /\ u.graph = s.graph /\ u.reading = s.reading /\ u.cursor = s.cursor
      /\ u.candidates = {} /\ u.mark = s.mark /\ u.commit = s.commit /\ IsState(u)
  BY DEF NoCandidates, Sound, IsState
<1> HIDE DEF u
<1>2. Size(u) = Size(s) /\ IsReading(u) = IsReading(s)
  BY <1>1 DEF Size, IsReading
<1>3. Closed(u)
  BY <1>1, <1>2 DEF Closed, Sound
<1> QED  BY <1>1, <1>2, <1>3 DEF u

(* A closed composition with other contents.                                *)
LEMMA ClosedWith ==
  ASSUME NEW s, IsState(s), IsGraph(s.graph), KnownWords(s.graph),
         s.reading \in Syllables \cup {NoReading}, s.cursor \in 0..Size(s),
         s.mark \in 0..Size(s) \cup {NoMark}, s.candidates = {}
  PROVE  Closed(s)
BY DEF Closed, Sound

-----------------------------------------------------------------------------
(* A shift of a composition.                                                *)
LEMMA FirstWordLeaves ==
  ASSUME NEW s, Sound(s), IsTooLong(s) \/ LeadsWithSpace(s)
  PROVE  CanLeave(s.graph)
<1> DEFINE g == s.graph
           first == g.path[1]
<1>1. IsGraph(g) /\ KnownWords(g) /\ g.readings \in Seq(Readings) /\ Len(g.readings) \in Nat
      /\ Size(s) = Len(g.readings)
  BY SizeOfSound DEF Sound, Size
<1> HIDE DEF g
<1>2. g.path # <<>> =>
        /\ first.node \in g.nodes /\ IsNode(first.node) /\ first.node.start = 1
        /\ first.text \in Texts(first.node.query)
  <2> SUFFICES ASSUME g.path # <<>>
               PROVE  /\ first.node \in g.nodes /\ IsNode(first.node) /\ first.node.start = 1
                      /\ first.text \in Texts(first.node.query)
    OBVIOUS
  <2>1. first.node \in g.nodes /\ IsNode(first.node) /\ first.node.start = 1
        /\ g.path \in Seq(Entries(g.nodes))
    BY <1>1, GraphPath
  <2>2. first \in Entries(g.nodes)
    BY <2>1
  <2> HIDE DEF first
  <2> QED  BY <2>1, <2>2 DEF Entries
<1>3. CASE IsTooLong(s)
  <2>1. Len(g.readings) >= 1 /\ Len(g.readings) > Limit
    BY <1>1, <1>3, BoundsAssumption DEF IsTooLong
  <2>2. <<g.readings[1]>> \in Queries
    <3>1. g.readings[1] \in Readings
      BY <1>1, <2>1
    <3> QED  BY <3>1, ReadingsAreNumbers
  <2>3. SubSeq(g.readings, 1, 1) = <<g.readings[1]>>
    <3> DEFINE r == g.readings
    <3>1. r \in Seq(Readings) /\ 1 <= Len(r)
      BY <1>1, <2>1
    <3> HIDE DEF r
    <3>2. SubSeq(r, 1, 1 + 1 - 1) = [i \in 1..1 |-> r[1 + i - 1]]
      BY <3>1, SubSeqIs
    <3>3. \A i \in 1..1 : r[1 + i - 1] = r[1]
      OBVIOUS
    <3>4. SubSeq(r, 1, 1) = [i \in 1..1 |-> r[1]]
      BY <3>2, <3>3
    <3> DEFINE x == r[1]
               one == <<x>>
    <3>5. one \in Seq({x}) /\ Len(one) = 1 /\ one[1] = x
      OBVIOUS
    <3> HIDE DEF one, x
    <3>6. one = [i \in 1..1 |-> one[i]]
      BY <3>5
    <3>7. \A i \in 1..1 : one[i] = x
      BY <3>5
    <3>8. SubSeq(r, 1, 1) = one
      BY <3>4, <3>6, <3>7 DEF x
    <3> QED  BY <3>8 DEF r, one, x
  <2>4. \E n \in g.nodes : n.start = 1
    <3>1. Words(SubSeq(g.readings, 1, 1)) # <<>>
      BY <2>2, <2>3, QueryFacts
    <3>2. 1 \in DOMAIN g.readings /\ 1 \in 1..MaxSpan
      BY <1>1, <2>1, SpanAssumption
    <3>3. 1 + 1 - 1 = 1
      OBVIOUS
    <3> QED  BY <1>1, <3>1, <3>2, <3>3 DEF KnownWords
  <2>5. g.path # <<>>
    <3>1. Following(g.nodes, 1) # {}
      BY <2>4 DEF Following
    <3> QED  BY <1>1, <3>1, GraphPath
  <2>6. Span(first.node) \in 1..MaxSpan
    BY <1>2, <2>5 DEF IsNode
  <2>7. Span(first.node) <= Len(g.readings)
    BY <1>1, <2>1, <2>6, SpanAssumption, LimitAssumption, BoundsAssumption
  <2> QED  BY <2>5, <2>7 DEF CanLeave, g
<1>4. CASE LeadsWithSpace(s)
  <2>1. g.path # <<>> /\ first.text = Blank
    BY <1>4 DEF LeadsWithSpace, g
  <2>2. Span(first.node) = 1
    BY <1>2, <2>1, BlankAssumption DEF Span, IsNode, Queries
  <2>3. 1 <= Len(g.readings)
    BY <1>1, <1>2, <2>1 DEF IsGraph, Standing
  <2> QED  BY <2>1, <2>2, <2>3 DEF CanLeave, g
<1> QED  BY <1>3, <1>4

LEMMA SegmentShifts ==
  ASSUME NEW s, Sound(s), CanLeave(s.graph), s.commit \in Seq(AllTexts)
  PROVE  LET u == ShiftSegment(s)
             d == Span(s.graph.path[1].node)
         IN  /\ Closed(u) /\ u.reading = s.reading
             /\ d \in Nat \ {0} /\ Size(u) = Size(s) - d
             /\ u.cursor = AtLeast(s.cursor - d, 0)
             /\ u.commit \in Seq(AllTexts)
             /\ u.commit \o Text(u.graph) = s.commit \o Text(s.graph)
<1> DEFINE g == s.graph
           first == g.path[1]
           d == Span(first.node)
           mark == IF s.mark = NoMark THEN NoMark ELSE AtLeast(s.mark - d, 0)
           u == ShiftSegment(s)
<1>2. IsGraph(g) /\ KnownWords(g) /\ Size(s) \in Nat /\ Size(s) = Len(g.readings)
  BY SizeOfSound DEF Sound, Size
<1>3. d \in Nat \ {0} /\ d <= Size(s) /\ Len(Shifted(g).readings) = Size(s) - d
  BY <1>2, ShiftedNodes
<1>4. /\ u.graph = Shifted(g) /\ u.reading = s.reading /\ u.cursor = AtLeast(s.cursor - d, 0)
      /\ u.candidates = {} /\ u.mark = mark /\ u.commit = Append(s.commit, first.text) /\ IsState(u)
  BY DEF ShiftSegment, NoCandidates, Sound, IsState
<1>5. s.cursor \in 0..Size(s) /\ (s.mark = NoMark \/ s.mark \in 0..Size(s))
      /\ s.reading \in Syllables \cup {NoReading}
  BY DEF Sound
<1>6. AtLeast(s.cursor - d, 0) \in 0..Size(s) - d
  BY <1>2, <1>3, <1>5 DEF AtLeast
<1>7. mark \in 0..Size(s) - d \cup {NoMark}
  BY <1>2, <1>3, <1>5 DEF AtLeast
<1>8. first.text \in AllTexts /\ g.path \in Seq(Entries(g.nodes)) /\ g.path # <<>>
  BY <1>2, GraphPath DEF CanLeave
<1> HIDE DEF u, mark, d
<1>9. Size(u) = Size(s) - d
  BY <1>3, <1>4 DEF Size
<1>10. Closed(u)
  <2>1. IsGraph(u.graph) /\ KnownWords(u.graph)
    BY <1>2, <1>4, ShiftedIsGraph, ShiftedKeepsWords DEF g
  <2> QED  BY <1>4, <1>5, <1>6, <1>7, <1>9, <2>1, ClosedWith
<1>11. u.commit \in Seq(AllTexts) /\ u.commit \o Text(u.graph) = s.commit \o Text(s.graph)
  <2> DEFINE t == first.text
             text == TextOf(g.path)
             rest == Tail(text)
             c == s.commit
  <2>1. Text(g) = text
    BY DEF Text, TextOf
  <2>2. Text(u.graph) = rest
    BY <1>2, <1>4, <2>1, ShiftKeepsTheRest DEF g
  <2>3. text \in Seq(AllTexts) /\ text = <<t>> \o rest /\ rest \in Seq(AllTexts)
    <3>1. text \in Seq(AllTexts) /\ text = <<t>> \o TextOf(Tail(g.path)) /\ TextOf(Tail(g.path)) = rest
      BY <1>8, TextOfTail
    <3>2. text # <<>>
      <4>1. Len(text) = Len(g.path)
        <5>1. text = [i \in 1..Len(g.path) |-> g.path[i].text] /\ Len(g.path) \in Nat
          BY <1>8 DEF TextOf
        <5>2. DOMAIN text = 1..Len(text) /\ Len(text) \in Nat
          BY <3>1
        <5>3. DOMAIN text = 1..Len(g.path)
          BY <5>1
        <5> HIDE DEF text
        <5> QED  BY <5>1, <5>2, <5>3
      <4>2. Len(g.path) # 0
        BY <1>8
      <4> HIDE DEF text
      <4> QED  BY <4>1, <4>2
    <3> HIDE DEF text
    <3>3. Tail(text) \in Seq(AllTexts)
      BY <3>1, <3>2
    <3> QED  BY <3>1, <3>3
  <2>4. t \in AllTexts /\ c \in Seq(AllTexts)
    BY <1>8
  <2> HIDE DEF t, text, rest, c
  <2>5. Append(c, t) \in Seq(AllTexts) /\ Append(c, t) \o rest = c \o (<<t>> \o rest)
    BY <2>3, <2>4
  <2> QED  BY <1>4, <2>1, <2>2, <2>3, <2>5 DEF t, c, g
<1> QED  BY <1>3, <1>4, <1>9, <1>10, <1>11 DEF d, u

-----------------------------------------------------------------------------
(* enforce_limit: one word after another leaves at the front.               *)
Follows(s, n, u) ==
  /\ Closed(u) /\ u.reading = s.reading
  /\ u.commit \in Seq(AllTexts) /\ u.commit \o Text(u.graph) = s.commit \o Text(s.graph)
  /\ u.cursor = 0 \/ Size(u) - u.cursor = Size(s) - s.cursor
  /\ Size(u) <= Limit \/ Size(u) + n <= Size(s)
  /\ Size(u) <= Size(s)

LEMMA OneMoreShift ==
  ASSUME NEW s, Closed(s), NEW n \in Nat, NEW u, Follows(s, n, u)
  PROVE  Follows(s, n + 1, ShiftedOnce(u))
<1>1. Closed(u) /\ Size(u) \in Nat /\ Size(s) \in Nat /\ u.cursor \in Nat /\ s.cursor \in Nat
      /\ u.cursor <= Size(u)
  BY SizeOfSound DEF Follows, Closed, Sound
<1>2. CASE IsTooLong(u) \/ LeadsWithSpace(u)
  <2> DEFINE v == ShiftSegment(u)
             d == Span(u.graph.path[1].node)
  <2>1. ShiftedOnce(u) = v
    BY <1>2 DEF ShiftedOnce
  <2>2. /\ Closed(v) /\ v.reading = u.reading
        /\ d \in Nat \ {0} /\ Size(v) = Size(u) - d /\ v.cursor = AtLeast(u.cursor - d, 0)
        /\ v.commit \in Seq(AllTexts) /\ v.commit \o Text(v.graph) = u.commit \o Text(u.graph)
    BY <1>1, <1>2, FirstWordLeaves, SegmentShifts DEF Closed, Follows
  <2> HIDE DEF v, d
  <2>3. v.cursor = 0 \/ Size(v) - v.cursor = Size(s) - s.cursor
    BY <1>1, <2>2 DEF Follows, AtLeast
  <2>4. Size(v) <= Limit \/ Size(v) + (n + 1) <= Size(s)
    BY <1>1, <2>2, BoundsAssumption DEF Follows
  <2>5. Size(v) <= Size(s)
    BY <1>1, <2>2 DEF Follows
  <2> QED  BY <2>1, <2>2, <2>3, <2>4, <2>5 DEF Follows
<1>3. CASE ~(IsTooLong(u) \/ LeadsWithSpace(u))
  <2>1. ShiftedOnce(u) = u
    BY <1>3 DEF ShiftedOnce
  <2>2. Size(u) <= Limit
    BY <1>1, <1>3, BoundsAssumption DEF IsTooLong
  <2> QED  BY <2>1, <2>2 DEF Follows
<1> QED  BY <1>2, <1>3

AreShifts(s, shifted) ==
  shifted = [n \in 0..Size(s) |-> IF n = 0 THEN s ELSE ShiftedOnce(shifted[n - 1])]

Shifts(s) == CHOOSE shifted : AreShifts(s, shifted)

LEMMA EnforcedIs ==
  ASSUME NEW s
  PROVE  EnforceLimit(s) =
           IF IsReading(s) THEN s ELSE Clamped(IF IsTooLong(s) THEN Shifts(s)[Size(s)] ELSE s)
BY DEF EnforceLimit, Shifts, AreShifts

LEMMA ShiftsExist ==
  ASSUME NEW s, Size(s) \in Nat
  PROVE  AreShifts(s, Shifts(s))
<1> DEFINE size == Size(s)
           next(f, n) == IF n = 0 THEN s ELSE ShiftedOnce(f[n - 1])
           Fits(f, k) == f = [n \in 0..size |-> f[n]] /\ \A n \in 0..size : n <= k => f[n] = next(f, n)
           Reach == {k \in Nat : \E f : Fits(f, k)}
<1>1. 0 \in Reach
  <2> DEFINE f == [n \in 0..size |-> s]
  <2>1. f = [n \in 0..size |-> f[n]] /\ \A n \in 0..size : n <= 0 => f[n] = s /\ n = 0
    OBVIOUS
  <2> HIDE DEF f
  <2>2. Fits(f, 0)
    BY <2>1
  <2> QED  BY <2>2
<1>2. ASSUME NEW k \in Nat, k \in Reach PROVE k + 1 \in Reach
  <2>1. PICK f : Fits(f, k)
    BY <1>2
  <2> DEFINE g == [n \in 0..size |-> IF n = k + 1 THEN next(f, n) ELSE f[n]]
  <2>2. g = [n \in 0..size |-> g[n]]
    OBVIOUS
  <2>3. \A n \in 0..size : g[n] = IF n = k + 1 THEN next(f, n) ELSE f[n]
    OBVIOUS
  <2> HIDE DEF g
  <2>4. ASSUME NEW n \in 0..size, n <= k + 1 PROVE g[n] = next(g, n)
    <3>1. CASE n = 0
      <4>1. next(g, n) = s /\ next(f, n) = s
        BY <3>1
      <4>2. n <= k /\ n # k + 1
        BY <3>1
      <4>3. f[n] = next(f, n)
        BY <2>1, <4>2
      <4> HIDE DEF next
      <4> QED  BY <2>3, <4>1, <4>2, <4>3
    <3>2. CASE n # 0
      <4>1. n - 1 \in 0..size /\ n - 1 # k + 1
        BY <2>4, <3>2
      <4>2. g[n - 1] = f[n - 1]
        BY <2>3, <4>1
      <4>3. next(g, n) = next(f, n)
        BY <3>2, <4>2
      <4>4. CASE n = k + 1
        BY <2>3, <4>3, <4>4
      <4>5. CASE n # k + 1
        <5>1. n <= k
          BY <2>4, <4>5
        <5>2. f[n] = next(f, n)
          BY <2>1, <5>1
        <5> HIDE DEF next
        <5> QED  BY <2>3, <4>3, <4>5, <5>2
      <4> QED  BY <4>4, <4>5
    <3> QED  BY <3>1, <3>2
  <2>5. Fits(g, k + 1)
    <3> HIDE DEF next
    <3> QED  BY <2>2, <2>4
  <2> HIDE DEF Fits
  <2> QED  BY <2>5
<1> HIDE DEF Reach
<1>3. size \in Reach
  BY <1>1, <1>2, NatSetInduction
<1>4. PICK f : f = [n \in 0..size |-> f[n]] /\ \A n \in 0..size : f[n] = next(f, n)
  BY <1>3 DEF Reach
<1>5. AreShifts(s, f)
  BY <1>4 DEF AreShifts
<1> QED  BY <1>5 DEF Shifts

LEMMA ShiftsFollow ==
  ASSUME NEW s, Closed(s), s.commit \in Seq(AllTexts)
  PROVE  \A n \in 0..Size(s) : Follows(s, n, Shifts(s)[n])
<1> DEFINE f == Shifts(s)
           Reach == {n \in Nat : n <= Size(s) => Follows(s, n, f[n])}
<1>1. Size(s) \in Nat /\ s.cursor \in Nat
  BY SizeOfSound DEF Closed, Sound
<1>2. AreShifts(s, f)
  BY <1>1, ShiftsExist
<1> HIDE DEF f
<1>3. \A n \in 0..Size(s) : f[n] = IF n = 0 THEN s ELSE ShiftedOnce(f[n - 1])
  BY <1>2 DEF AreShifts
<1>4. 0 \in Reach
  <2>1. f[0] = s
    BY <1>1, <1>3
  <2>2. Follows(s, 0, s)
    BY <1>1 DEF Follows
  <2> QED  BY <2>1, <2>2
<1>5. ASSUME NEW n \in Nat, n \in Reach PROVE n + 1 \in Reach
  <2> SUFFICES ASSUME n + 1 <= Size(s) PROVE Follows(s, n + 1, f[n + 1])
    OBVIOUS
  <2>1. Follows(s, n, f[n])
    BY <1>1, <1>5
  <2>2. f[n + 1] = ShiftedOnce(f[n])
    <3>1. n + 1 \in 0..Size(s) /\ n + 1 # 0 /\ n + 1 - 1 = n
      BY <1>1
    <3> QED  BY <1>3, <3>1
  <2> QED  BY <2>1, <2>2, OneMoreShift
<1> HIDE DEF Reach
<1>6. Nat \subseteq Reach
  BY <1>4, <1>5, NatSetInduction
<1> QED  BY <1>1, <1>6 DEF Reach, f

(* The composition is short enough, nothing shown is lost, and the cursor   *)
(* moves with the readings behind it.                                       *)
LEMMA LimitEnforced ==
  ASSUME NEW s, Closed(s), s.reading = NoReading, s.commit \in Seq(AllTexts)
  PROVE  LET u == EnforceLimit(s) IN
         /\ Closed(u) /\ u.reading = NoReading /\ Size(u) <= Limit
         /\ u.commit \in Seq(AllTexts) /\ u.commit \o Text(u.graph) = s.commit \o Text(s.graph)
         /\ u.cursor = 0 \/ Size(u) - u.cursor = Size(s) - s.cursor
<1> DEFINE x == IF IsTooLong(s) THEN Shifts(s)[Size(s)] ELSE s
           u == Clamped(x)
<1>1. EnforceLimit(s) = u
  BY EnforcedIs DEF IsReading
<1>2. Size(s) \in Nat /\ s.cursor \in Nat
  BY SizeOfSound DEF Closed, Sound
<1>3. /\ Closed(x) /\ x.reading = NoReading /\ Size(x) <= Limit
      /\ x.commit \in Seq(AllTexts) /\ x.commit \o Text(x.graph) = s.commit \o Text(s.graph)
      /\ x.cursor = 0 \/ Size(x) - x.cursor = Size(s) - s.cursor
  <2>1. CASE IsTooLong(s)
    <3>1. x = Shifts(s)[Size(s)]
      BY <2>1
    <3> HIDE DEF x
    <3>2. Follows(s, Size(s), x)
      BY <1>2, <3>1, ShiftsFollow
    <3>3. Size(x) \in Nat
      BY <3>2, SizeOfSound DEF Follows, Closed
    <3>4. Size(x) <= Limit
      BY <1>2, <3>2, <3>3, BoundsAssumption DEF Follows
    <3> QED  BY <3>2, <3>4 DEF Follows
  <2>2. CASE ~IsTooLong(s)
    <3>1. x = s
      BY <2>2
    <3> HIDE DEF x
    <3>2. Size(s) <= Limit
      BY <1>2, <2>2, BoundsAssumption DEF IsTooLong
    <3> QED  BY <3>1, <3>2
  <2> QED  BY <2>1, <2>2
<1> HIDE DEF x
<1>4. x.cursor \in 0..Size(x) /\ Size(x) \in Nat /\ IsState(x)
  BY <1>3, SizeOfSound DEF Closed, Sound
<1>5. /\ u.graph = x.graph /\ u.reading = x.reading /\ u.candidates = x.candidates
      /\ u.mark = x.mark /\ u.commit = x.commit /\ IsState(u) /\ u.cursor = AtMost(x.cursor, Size(x))
  BY <1>4 DEF Clamped, IsState
<1>6. u.cursor = x.cursor
  BY <1>4, <1>5 DEF AtMost
<1> HIDE DEF u
<1>7. Size(u) = Size(x) /\ IsReading(u) = IsReading(x)
  BY <1>5 DEF Size, IsReading
<1>8. Closed(u)
  BY <1>3, <1>5, <1>6, <1>7 DEF Closed, Sound
<1> QED  BY <1>1, <1>3, <1>5, <1>6, <1>7, <1>8

-----------------------------------------------------------------------------
(* What the calls are made of.                                              *)
Kept(s) == Sound(s) /\ Size(s) <= Limit

LEMMA ClosedIsKept ==
  ASSUME NEW s, Closed(s), Size(s) <= Limit
  PROVE  Kept(s)
BY DEF Closed, Kept

LEMMA ClearedIsKept ==
  ASSUME NEW s, IsState(s)
  PROVE  Kept(Cleared(s))
BY Clearing, BoundsAssumption, ClosedIsKept

LEMMA CalledIs ==
  ASSUME Kept(smart)
  PROVE  /\ Sound(Called) /\ Called.graph = smart.graph /\ Called.reading = smart.reading
         /\ Called.cursor = smart.cursor /\ Called.candidates = smart.candidates
         /\ Called.mark = smart.mark /\ Called.commit = <<>>
         /\ Size(Called) = Size(smart) /\ Size(Called) <= Limit
         /\ IsReading(Called) = IsReading(smart) /\ (~PanelOpen => Closed(Called))
         /\ Called.commit \in Seq(AllTexts)
<1> DEFINE c == Called
<1>1. /\ c.graph = smart.graph /\ c.reading = smart.reading /\ c.cursor = smart.cursor
      /\ c.candidates = smart.candidates /\ c.mark = smart.mark /\ c.commit = <<>> /\ IsState(c)
  BY DEF Called, Kept, Sound, IsState
<1> HIDE DEF c
<1>2. Size(c) = Size(smart) /\ IsReading(c) = IsReading(smart)
  BY <1>1 DEF Size, IsReading
<1>3. Sound(c)
  BY <1>1, <1>2 DEF Kept, Sound
<1>4. c.commit \in Seq(AllTexts)
  BY <1>1
<1> QED  BY <1>1, <1>2, <1>3, <1>4 DEF c, Kept, Closed, PanelOpen

LEMMA OtherReading ==
  ASSUME NEW s, Closed(s), NEW r \in Syllables \cup {NoReading}
  PROVE  LET u == [s EXCEPT !.reading = r] IN
         /\ Closed(u) /\ u.graph = s.graph /\ u.reading = r /\ u.cursor = s.cursor
         /\ u.mark = s.mark /\ u.commit = s.commit /\ Size(u) = Size(s)
<1> DEFINE u == [s EXCEPT !.reading = r]
<1>1. /\ u.graph = s.graph /\ u.reading = r /\ u.cursor = s.cursor /\ u.candidates = s.candidates
      /\ u.mark = s.mark /\ u.commit = s.commit /\ IsState(u)
  BY DEF Closed, Sound, IsState
<1> HIDE DEF u
<1>2. Size(u) = Size(s)
  BY <1>1 DEF Size
<1>3. Closed(u)
  BY <1>1, <1>2 DEF Closed, Sound
<1> QED  BY <1>1, <1>2, <1>3 DEF u

LEMMA OtherCursor ==
  ASSUME NEW s, Closed(s), NEW at \in 0..Size(s)
  PROVE  LET u == [s EXCEPT !.cursor = at] IN
         /\ Closed(u) /\ u.graph = s.graph /\ u.reading = s.reading
         /\ Size(u) = Size(s) /\ IsReading(u) = IsReading(s)
<1> DEFINE u == [s EXCEPT !.cursor = at]
<1>1. /\ u.graph = s.graph /\ u.reading = s.reading /\ u.cursor = at /\ u.candidates = s.candidates
      /\ u.mark = s.mark /\ IsState(u)
  BY DEF Closed, Sound, IsState
<1> HIDE DEF u
<1>2. Size(u) = Size(s) /\ IsReading(u) = IsReading(s)
  BY <1>1 DEF Size, IsReading
<1>3. Closed(u)
  BY <1>1, <1>2 DEF Closed, Sound
<1> QED  BY <1>1, <1>2, <1>3 DEF u

LEMMA OtherCommit ==
  ASSUME NEW s, Sound(s), NEW texts
  PROVE  LET u == [s EXCEPT !.commit = texts] IN Sound(u) /\ Size(u) = Size(s)
<1> DEFINE u == [s EXCEPT !.commit = texts]
<1>1. /\ u.graph = s.graph /\ u.reading = s.reading /\ u.cursor = s.cursor
      /\ u.candidates = s.candidates /\ u.mark = s.mark /\ IsState(u)
  BY DEF Sound, IsState
<1> HIDE DEF u
<1>2. Size(u) = Size(s) /\ IsReading(u) = IsReading(s)
  BY <1>1 DEF Size, IsReading
<1>3. Sound(u)
  BY <1>1, <1>2 DEF Sound
<1> QED  BY <1>2, <1>3 DEF u

(* Another graph of the same readings, and another cursor.                  *)
LEMMA OtherGraph ==
  ASSUME NEW s, Closed(s), NEW g, IsGraph(g), KnownWords(g), NEW u, IsState(u), u.graph = g,
         Len(g.readings) >= Size(s), u.reading = s.reading, u.cursor \in 0..Len(g.readings),
         u.candidates = {}, u.mark \in {s.mark, NoMark}
  PROVE  Closed(u) /\ Size(u) = Len(g.readings)
<1>1. Size(u) = Len(g.readings)
  BY DEF Size
<1>2. u.mark \in 0..Size(u) \cup {NoMark}
  <2>1. Size(s) \in Nat /\ Len(g.readings) \in Nat
    BY SizeOfSound DEF Closed, Sound, IsGraph, Standing
  <2> QED  BY <1>1, <2>1 DEF Closed, Sound
<1> QED  BY <1>1, <1>2, ClosedWith DEF Closed, Sound

LEMMA KnownIsReading ==
  ASSUME NEW r, IsKnown(r)
  PROVE  r \in Readings
<1>1. <<r>> \in DOMAIN Lexicon
  BY DEF IsKnown, Words
<1>2. Len(<<r>>) = 1 /\ <<r>>[1] = r
  OBVIOUS
<1> QED  BY <1>1, <1>2 DEF Readings

-----------------------------------------------------------------------------
(* A reading goes in at the cursor, or at the end.                          *)
LEMMA ReadingGoesIn ==
  ASSUME NEW s, Closed(s), NEW r, IsKnown(r)
  PROVE  LET u == WithReading(s, r)
             at == InsertionPoint(s)
         IN  /\ Closed(u) /\ u.graph = Inserted(s.graph, at, r) /\ u.reading = s.reading
             /\ u.cursor = at + 1 /\ u.commit = s.commit
             /\ at \in 0..Size(s) /\ Size(u) = Size(s) + 1
<1> DEFINE u == WithReading(s, r)
           at == InsertionPoint(s)
           g == Inserted(s.graph, at, r)
<1>1. IsGraph(s.graph) /\ Size(s) \in Nat /\ Size(s) = Len(s.graph.readings)
      /\ s.graph.readings \in Seq(Readings)
  BY SizeOfSound DEF Closed, Sound, Size
<1>2. at \in 0..Size(s)
  BY <1>1 DEF InsertionPoint, Closed, Sound
<1>3. /\ u.graph = g /\ u.reading = s.reading /\ u.cursor = at + 1 /\ u.candidates = {}
      /\ u.mark = s.mark /\ u.commit = s.commit /\ IsState(u)
  BY DEF WithReading, NoCandidates, Closed, Sound, IsState
<1> HIDE DEF u, at
<1>4. IsGraph(g) /\ KnownWords(g) /\ Len(g.readings) = Size(s) + 1
  <2> DEFINE h == s.graph
  <2>1. IsGraph(h) /\ at \in 0..Len(h.readings) /\ r \in Readings /\ h.readings \in Seq(Readings)
    BY <1>1, <1>2, KnownIsReading
  <2> HIDE DEF h
  <2>2. IsGraph(Inserted(h, at, r)) /\ KnownWords(Inserted(h, at, r))
        /\ Inserted(h, at, r).readings = InsertedAt(h.readings, at, r)
    BY <2>1, InsertedIsGraph
  <2>3. Len(InsertedAt(h.readings, at, r)) = Len(h.readings) + 1
    BY <2>1, InsertedReadings
  <2> QED  BY <1>1, <2>2, <2>3 DEF h
<1> HIDE DEF g
<1>5. u.cursor \in 0..Len(g.readings) /\ Len(g.readings) >= Size(s)
  BY <1>1, <1>2, <1>3, <1>4
<1>6. Closed(u) /\ Size(u) = Len(g.readings)
  BY <1>3, <1>4, <1>5, OtherGraph
<1> QED  BY <1>2, <1>3, <1>4, <1>6 DEF u, at, g

(* A completed syllable: what is committed and what is left is what the     *)
(* composition with the syllable shows.                                     *)
LEMMA SyllableCompleted ==
  ASSUME NEW s, Closed(s), s.commit \in Seq(AllTexts), IsReading(s), IsKnown(s.reading)
  PROVE  LET u == CompleteReading(s)
             at == InsertionPoint(s)
         IN  /\ Closed(u) /\ u.reading = NoReading /\ Size(u) <= Limit /\ u.commit \in Seq(AllTexts)
             /\ u.commit \o Text(u.graph) = s.commit \o Text(Inserted(s.graph, at, s.reading))
             /\ u.cursor = 0 \/ Size(u) - u.cursor = Size(s) - at
<1> DEFINE w == WithReading(s, s.reading)
           v == [w EXCEPT !.reading = NoReading]
           u == EnforceLimit(v)
           at == InsertionPoint(s)
<1>1. CompleteReading(s) = u
  BY DEF CompleteReading
<1>2. /\ Closed(w) /\ w.graph = Inserted(s.graph, at, s.reading) /\ w.cursor = at + 1
      /\ w.commit = s.commit /\ at \in 0..Size(s) /\ Size(w) = Size(s) + 1
  BY ReadingGoesIn
<1> HIDE DEF w, at
<1>3. /\ Closed(v) /\ v.graph = w.graph /\ v.reading = NoReading /\ v.cursor = w.cursor
      /\ v.commit = w.commit /\ Size(v) = Size(w)
  <2>1. NoReading \in Syllables \cup {NoReading}
    OBVIOUS
  <2> QED  BY <1>2, <2>1, OtherReading
<1> HIDE DEF v
<1>4. /\ Closed(u) /\ u.reading = NoReading /\ Size(u) <= Limit /\ u.commit \in Seq(AllTexts)
      /\ u.commit \o Text(u.graph) = v.commit \o Text(v.graph)
      /\ u.cursor = 0 \/ Size(u) - u.cursor = Size(v) - v.cursor
  BY <1>2, <1>3, LimitEnforced
<1>5. Size(v) - v.cursor = Size(s) - at
  <2>1. Size(s) \in Nat
    BY SizeOfSound DEF Closed
  <2> QED  BY <1>2, <1>3, <2>1
<1> HIDE DEF u
<1> QED  BY <1>1, <1>2, <1>3, <1>4, <1>5 DEF at

LEMMA Completing ==
  ASSUME NEW s, Closed(s), Size(s) <= Limit, s.commit \in Seq(AllTexts)
  PROVE  Closed(CompleteReading(s)) /\ Size(CompleteReading(s)) <= Limit
<1>1. CASE IsReading(s) /\ IsKnown(s.reading)
  BY <1>1, SyllableCompleted
<1>2. CASE ~(IsReading(s) /\ IsKnown(s.reading))
  BY <1>2 DEF CompleteReading
<1> QED  BY <1>1, <1>2

LEMMA Inserting ==
  ASSUME NEW s, Closed(s), Size(s) <= Limit, s.commit \in Seq(AllTexts), s.reading = NoReading, NEW r
  PROVE  LET u == InsertReading(s, r) IN
         Closed(u) /\ u.reading = NoReading /\ Size(u) <= Limit
<1>1. CASE IsKnown(r)
  <2> DEFINE w == WithReading(s, r)
  <2>1. Closed(w) /\ w.reading = NoReading /\ w.commit \in Seq(AllTexts)
    BY <1>1, ReadingGoesIn
  <2> HIDE DEF w
  <2>2. InsertReading(s, r) = EnforceLimit(w)
    BY <1>1 DEF InsertReading, w
  <2> QED  BY <2>1, <2>2, LimitEnforced
<1>2. CASE ~IsKnown(r)
  <2>1. InsertReading(s, r) = NoCandidates(s)
    BY <1>2 DEF InsertReading
  <2> QED  BY <2>1, WithoutCandidates DEF Closed
<1> QED  BY <1>1, <1>2

LEMMA LiteralIsKept ==
  ASSUME NEW s, Closed(s), Size(s) <= Limit, s.commit \in Seq(AllTexts), NEW r
  PROVE  Kept(Literal(s, r))
<1>1. CASE IsReading(s)
  BY <1>1, ClosedIsKept DEF Literal
<1>2. CASE ~IsReading(s) /\ IsEmpty(s)
  <2> DEFINE texts == Append(s.commit, Words(<<r>>)[1].text)
  <2>1. Literal(s, r) = [s EXCEPT !.commit = texts]
    BY <1>2 DEF Literal
  <2> HIDE DEF texts
  <2>2. Sound([s EXCEPT !.commit = texts]) /\ Size([s EXCEPT !.commit = texts]) = Size(s)
    BY OtherCommit DEF Closed
  <2> QED  BY <2>1, <2>2 DEF Kept
<1>3. CASE ~IsReading(s) /\ ~IsEmpty(s)
  <2>1. Literal(s, r) = InsertReading(s, r)
    BY <1>3 DEF Literal
  <2> QED  BY <1>3, <2>1, Inserting, ClosedIsKept DEF IsReading
<1> QED  BY <1>1, <1>2, <1>3

-----------------------------------------------------------------------------
(* Offers are words of nodes that stand.                                    *)
LEMMA OffersAreWords ==
  ASSUME NEW g, IsGraph(g), NEW index, NEW atEnd, NEW c \in CandidatesAt(g, index, atEnd)
  PROVE  c.start \in Nat /\ Selectable(g, c)
<1>1. PICK n \in g.nodes : \E t \in Texts(n.query) :
        c = [start |-> n.start - 1, query |-> n.query, text |-> t]
  BY DEF CandidatesAt
<1>2. IsNode(n)
  BY DEF IsGraph, Standing, AreNodes
<1>3. n.start \in Nat \ {0}
  BY <1>2 DEF IsNode
<1>4. c.start = n.start - 1 /\ c.query = n.query /\ c.text \in Texts(n.query)
  BY <1>1
<1>5. c.start \in Nat /\ n.start = c.start + 1
  BY <1>3, <1>4
<1> QED  BY <1>4, <1>5 DEF Selectable, IsOf

LEMMA OpeningIsKept ==
  ASSUME NEW s, Closed(s), Size(s) <= Limit, NEW target
  PROVE  Kept(OpenFor(s, target))
<1> DEFINE u == OpenFor(s, target)
           found == CandidatesAt(s.graph, target, options.candidate_cursor_at_end)
<1>1. /\ u.graph = s.graph /\ u.reading = s.reading /\ u.cursor = s.cursor /\ u.mark = NoMark
      /\ IsState(u)
      /\ u.candidates = IF IsReading(s) THEN s.candidates
                        ELSE IF IsEmpty(s) \/ Cardinality(found) < 2 THEN {} ELSE found
  BY DEF OpenFor, Closed, Sound, IsState
<1>2. \A c \in found : c.start \in Nat /\ Selectable(s.graph, c)
  BY OffersAreWords DEF Closed, Sound
<1> HIDE DEF u, found
<1>3. Size(u) = Size(s) /\ IsReading(u) = IsReading(s)
  BY <1>1 DEF Size, IsReading
<1>4. (u.candidates = {} \/ u.candidates = found) /\ (u.candidates # {} => ~IsReading(s))
  BY <1>1 DEF Closed
<1>5. Sound(u)
  BY <1>1, <1>2, <1>3, <1>4 DEF Closed, Sound
<1> QED  BY <1>3, <1>5 DEF Kept, u

LEMMA FinishedIsKept ==
  ASSUME NEW s, IsState(s)
  PROVE  Kept(Finished(s))
<1> DEFINE c == Cleared(s)
           texts == c.commit \o Text(s.graph) \o (IF IsReading(s) THEN <<s.reading>> ELSE <<>>)
<1>1. Finished(s) = [c EXCEPT !.commit = texts]
  BY DEF Finished
<1>2. Sound(c) /\ Size(c) <= Limit
  BY ClearedIsKept DEF Kept
<1> HIDE DEF c, texts
<1> QED  BY <1>1, <1>2, OtherCommit DEF Kept

-----------------------------------------------------------------------------
(* Every call keeps the composition sound and short.                        *)
LEMMA CharactersAreKept ==
  ASSUME Kept(smart), Characters
  PROVE  Kept(smart')
<1> DEFINE c == Called
           u == Unmarked(c)
<1>1. /\ Sound(c) /\ c.reading = smart.reading /\ c.commit \in Seq(AllTexts) /\ Size(c) <= Limit
      /\ ~PanelOpen => Closed(c)
  BY CalledIs
<1>2. ~PanelOpen => /\ Closed(u) /\ u.reading = smart.reading /\ Size(u) <= Limit
                    /\ u.commit \in Seq(AllTexts)
  BY <1>1, Unmarking
<1>3. NoReading \in Syllables \cup {NoReading} /\ \A q \in Syllables : q \in Syllables \cup {NoReading}
  OBVIOUS
<1>4. ASSUME NEW q \in Syllables, StartReading(q) PROVE Kept(smart')
  <2>1. ~PanelOpen /\ smart' = [c EXCEPT !.reading = q]
    BY <1>4 DEF StartReading
  <2> HIDE DEF c
  <2> QED  BY <1>1, <1>3, <2>1, OtherReading, ClosedIsKept
<1>5. ASSUME NEW q \in Syllables, FinishReading(q) PROVE Kept(smart')
  <2> DEFINE v == [c EXCEPT !.reading = q]
  <2>1. ~PanelOpen /\ smart' = CompleteReading(v)
    BY <1>5 DEF FinishReading, WithTone
  <2> HIDE DEF c
  <2>2. Closed(v) /\ v.commit \in Seq(AllTexts) /\ Size(v) <= Limit
    BY <1>1, <1>3, <2>1, OtherReading
  <2> HIDE DEF v
  <2> QED  BY <2>1, <2>2, Completing, ClosedIsKept
<1>6. ASSUME NEW r, TypeLiteral(r) PROVE Kept(smart')
  <2>1. ~PanelOpen /\ smart' = Literal(u, r)
    BY <1>6 DEF TypeLiteral
  <2> HIDE DEF u
  <2> QED  BY <1>2, <2>1, LiteralIsKept
<1>7. ASSUME NEW r, NEW isAscii, TypePunctuation(r, isAscii) PROVE Kept(smart')
  <2> DEFINE v == [u EXCEPT !.reading = NoReading]
  <2>1. ~PanelOpen /\ smart' = IF IsReading(u) /\ isAscii THEN u ELSE InsertReading(v, r)
    BY <1>7 DEF TypePunctuation
  <2> HIDE DEF u
  <2>2. Closed(u) /\ Size(u) <= Limit /\ u.commit \in Seq(AllTexts)
    BY <1>2, <2>1
  <2>3. Closed(v) /\ v.reading = NoReading /\ Size(v) <= Limit /\ v.commit \in Seq(AllTexts)
    BY <1>3, <2>2, OtherReading
  <2> HIDE DEF v
  <2>4. Kept(InsertReading(v, r)) /\ Kept(u)
    BY <2>2, <2>3, Inserting, ClosedIsKept
  <2> QED  BY <2>1, <2>4
<1>8. ASSUME NEW r, TypeControlPunctuation(r) PROVE Kept(smart')
  <2> DEFINE s == InsertReading(u, r)
             target == IF options.candidate_cursor_at_end
                         THEN AtLeast(s.cursor, 1) ELSE AtMost(s.cursor, Size(s) - 1)
  <2>1. /\ ~PanelOpen /\ smart.reading = NoReading
        /\ smart' = IF Len(Words(<<r>>)) > 1 THEN OpenFor(s, target) ELSE s
    BY <1>8 DEF TypeControlPunctuation, IsReading, OpenAtCursor
  <2> HIDE DEF u
  <2>2. Closed(s) /\ Size(s) <= Limit
    BY <1>2, <2>1, Inserting
  <2> HIDE DEF s, target
  <2> QED  BY <2>1, <2>2, OpeningIsKept, ClosedIsKept
<1>9. ASSUME NEW r, DirectText(r) PROVE Kept(smart')
  <2> DEFINE d == NoCandidates(c)
             e == [d EXCEPT !.reading = NoReading]
             s == Unmarked(e)
             texts == <<Words(<<r>>)[1].text>>
  <2>1. smart' = IF IsEmpty(s) THEN [s EXCEPT !.commit = texts] ELSE InsertReading(s, r)
    <3>1. e = [NoCandidates(Called) EXCEPT !.reading = NoReading]
      OBVIOUS
    <3> QED  BY <1>9, <3>1 DEF DirectText
  <2> HIDE DEF c
  <2>2. Closed(d) /\ d.commit = c.commit /\ Size(d) = Size(c)
    BY <1>1, WithoutCandidates
  <2> HIDE DEF d
  <2>3. Closed(e) /\ e.commit = c.commit /\ Size(e) = Size(c) /\ e.reading = NoReading
    BY <1>3, <2>2, OtherReading
  <2> HIDE DEF e
  <2>4. Closed(s) /\ s.commit \in Seq(AllTexts) /\ Size(s) <= Limit /\ s.reading = NoReading
    BY <1>1, <2>3, Unmarking
  <2> HIDE DEF s, texts
  <2>5. Kept(InsertReading(s, r))
    BY <2>4, Inserting, ClosedIsKept
  <2>6. Kept([s EXCEPT !.commit = texts])
    BY <2>4, OtherCommit DEF Kept, Closed
  <2> QED  BY <2>1, <2>5, <2>6
<1> QED  BY <1>4, <1>5, <1>6, <1>7, <1>8, <1>9 DEF Characters

-----------------------------------------------------------------------------
LEMMA TargetIsInside ==
  ASSUME NEW s, Sound(s), NEW key \in Moves
  PROVE  Target(s, key) \in 0..Size(s)
<1>1. Size(s) \in Nat /\ s.cursor \in 0..Size(s)
  BY SizeOfSound DEF Sound
<1> QED  BY <1>1 DEF Target, Moves, AtLeast, AtMost

LEMMA MarkIsKept ==
  ASSUME Kept(smart), NEW key \in Moves, Mark(key)
  PROVE  Kept(smart')
<1> DEFINE c == Called
           size == Size(smart)
           anchor == IF smart.mark = NoMark THEN smart.cursor ELSE smart.mark
           to == Target(smart, key)
           next == AtMost(AtLeast(to, anchor - MarkSpan), anchor + MarkSpan)
           mark == IF next = anchor THEN NoMark ELSE anchor
           u == [c EXCEPT !.cursor = next, !.mark = mark]
<1>1. ~PanelOpen /\ smart' = u
  BY DEF Mark
<1>2. size \in Nat /\ to \in 0..size /\ anchor \in 0..size /\ MarkSpan \in Nat \ {0}
  BY SizeOfSound, TargetIsInside, BoundsAssumption DEF Kept, Sound
<1>3. next \in 0..size
  <2> HIDE DEF size, to, anchor
  <2> QED  BY <1>2 DEF AtLeast, AtMost
<1> HIDE DEF next, c, to, anchor
<1>4. mark \in 0..size \cup {NoMark}
  BY <1>2
<1> HIDE DEF mark
<1>5. Closed(c) /\ Size(c) = size /\ size <= Limit
  BY <1>1, CalledIs DEF c
<1>6. /\ u.graph = c.graph /\ u.reading = c.reading /\ u.cursor = next
      /\ u.candidates = c.candidates /\ u.mark = mark /\ IsState(u)
  BY <1>5 DEF Closed, Sound, IsState
<1> HIDE DEF u
<1>7. Size(u) = size
  BY <1>5, <1>6 DEF Size
<1>8. Closed(u)
  BY <1>3, <1>4, <1>5, <1>6, <1>7, ClosedWith DEF Closed, Sound
<1> QED  BY <1>1, <1>5, <1>7, <1>8, ClosedIsKept

LEMMA EndMarkIsKept ==
  ASSUME Kept(smart), NEW saved, EndMark(saved)
  PROVE  Kept(smart')
<1> DEFINE c == Called
           g == IF saved THEN Rebuilt(c.graph) ELSE c.graph
           u == [c EXCEPT !.mark = NoMark, !.graph = IF saved THEN Rebuilt(@) ELSE @]
<1>1. ~PanelOpen /\ smart' = u
  BY DEF EndMark
<1>2. Closed(c) /\ Size(c) <= Limit
  BY <1>1, CalledIs
<1> HIDE DEF c
<1>3. /\ u.graph = g /\ u.reading = c.reading /\ u.cursor = c.cursor
      /\ u.candidates = c.candidates /\ u.mark = NoMark /\ IsState(u)
  BY <1>2 DEF Closed, Sound, IsState
<1> HIDE DEF u
<1>4. IsGraph(g) /\ KnownWords(g) /\ Len(g.readings) = Size(c) /\ Size(c) \in Nat
  <2>1. IsGraph(c.graph) /\ KnownWords(c.graph) /\ Size(c) \in Nat
    BY <1>2, SizeOfSound DEF Closed, Sound
  <2> QED  BY <2>1, RebuiltIsGraph DEF Size
<1> HIDE DEF g
<1>5. Closed(u) /\ Size(u) = Size(c)
  <2>1. u.cursor \in 0..Len(g.readings) /\ u.candidates = {} /\ Len(g.readings) >= Size(c)
    BY <1>2, <1>3, <1>4 DEF Closed, Sound
  <2> QED  BY <1>2, <1>3, <1>4, <2>1, OtherGraph
<1> QED  BY <1>1, <1>2, <1>5, ClosedIsKept

LEMMA RemovalIsClosed ==
  ASSUME NEW s, Closed(s), s.mark = NoMark, NEW at \in 0..Size(s) - 1,
         NEW cursor \in 0..Size(s) - 1, NEW u, IsState(u), u.graph = Removed(s.graph, at),
         u.reading = s.reading, u.cursor = cursor, u.candidates = {}, u.mark = NoMark
  PROVE  Closed(u) /\ Size(u) = Size(s) - 1
<1> DEFINE h == Removed(s.graph, at)
<1>1. IsGraph(s.graph) /\ Size(s) \in Nat /\ Size(s) = Len(s.graph.readings)
      /\ s.graph.readings \in Seq(Readings)
  BY SizeOfSound DEF Closed, Sound, Size
<1>2. IsGraph(h) /\ KnownWords(h) /\ Len(h.readings) = Size(s) - 1
  <2> DEFINE g == s.graph
  <2>1. IsGraph(g) /\ g.readings \in Seq(Readings) /\ at \in 0..Len(g.readings) - 1
    BY <1>1
  <2> HIDE DEF g
  <2>2. IsGraph(Removed(g, at)) /\ KnownWords(Removed(g, at))
        /\ Removed(g, at).readings = RemovedAt(g.readings, at)
    BY <2>1, RemovedIsGraph
  <2>3. Len(RemovedAt(g.readings, at)) = Len(g.readings) - 1
    BY <2>1, RemovedReadings
  <2> QED  BY <1>1, <2>2, <2>3 DEF g
<1> HIDE DEF h
<1>3. Size(u) = Size(s) - 1
  BY <1>2 DEF Size, h
<1> QED  BY <1>2, <1>3, ClosedWith DEF Closed, Sound, h

LEMMA DeletionsAreKept ==
  ASSUME Kept(smart), Backspace \/ Delete
  PROVE  Kept(smart')
<1> DEFINE s == Unmarked(Called)
<1>1. ~PanelOpen
  BY DEF Backspace, Delete
<1>2. Closed(s) /\ Size(s) <= Limit /\ s.mark = NoMark
  BY <1>1, CalledIs, Unmarking
<1>3. Size(s) \in Nat /\ s.cursor \in 0..Size(s) /\ Limit \in Nat /\ s.reading \in Syllables \cup {NoReading}
  BY <1>2, SizeOfSound, BoundsAssumption DEF Closed, Sound
<1>4. CASE Backspace /\ IsReading(s)
  <2>1. PICK r \in {NoReading, s.reading} : smart' = [s EXCEPT !.reading = r]
    BY <1>4 DEF Backspace
  <2> HIDE DEF s
  <2>2. r \in Syllables \cup {NoReading}
    BY <1>3
  <2> QED  BY <1>2, <2>1, <2>2, OtherReading, ClosedIsKept
<1>5. CASE Backspace /\ ~IsReading(s)
  <2> DEFINE u == [s EXCEPT !.graph = Removed(@, s.cursor - 1), !.cursor = @ - 1]
  <2>1. smart' = IF s.cursor = 0 THEN s ELSE u
    BY <1>5 DEF Backspace
  <2> HIDE DEF s
  <2>2. CASE s.cursor # 0
    <3>1. /\ u.graph = Removed(s.graph, s.cursor - 1) /\ u.reading = s.reading
          /\ u.cursor = s.cursor - 1 /\ u.candidates = {} /\ u.mark = NoMark /\ IsState(u)
      BY <1>2 DEF Closed, Sound, IsState
    <3> HIDE DEF u
    <3>2. s.cursor - 1 \in 0..Size(s) - 1
      BY <1>3, <2>2
    <3>3. Closed(u) /\ Size(u) = Size(s) - 1
      BY <1>2, <3>1, <3>2, RemovalIsClosed
    <3> QED  BY <1>2, <1>3, <2>1, <2>2, <3>3, ClosedIsKept
  <2> QED  BY <1>2, <2>1, <2>2, ClosedIsKept
<1>6. CASE Delete
  <2> DEFINE u == [s EXCEPT !.graph = Removed(@, s.cursor)]
  <2>1. smart' = IF IsReading(s) \/ s.cursor = Size(s) THEN s ELSE u
    BY <1>6 DEF Delete
  <2> HIDE DEF s
  <2>2. CASE s.cursor # Size(s)
    <3>1. /\ u.graph = Removed(s.graph, s.cursor) /\ u.reading = s.reading
          /\ u.cursor = s.cursor /\ u.candidates = {} /\ u.mark = NoMark /\ IsState(u)
      BY <1>2 DEF Closed, Sound, IsState
    <3> HIDE DEF u
    <3>2. s.cursor \in 0..Size(s) - 1
      BY <1>3, <2>2
    <3>3. Closed(u) /\ Size(u) = Size(s) - 1
      BY <1>2, <3>1, <3>2, RemovalIsClosed
    <3>4. Kept(u)
      BY <1>2, <1>3, <3>3, ClosedIsKept
    <3> QED  BY <1>2, <2>1, <3>4, ClosedIsKept
  <2> QED  BY <1>2, <2>1, <2>2, ClosedIsKept
<1> QED  BY <1>4, <1>5, <1>6

LEMMA KeysAreKept ==
  ASSUME Kept(smart), Keys
  PROVE  Kept(smart')
<1> DEFINE c == Called
           u == Unmarked(c)
<1>1. /\ Sound(c) /\ c.commit \in Seq(AllTexts) /\ Size(c) <= Limit /\ IsState(c)
      /\ ~PanelOpen => Closed(c)
  BY CalledIs DEF Sound
<1>2. ~PanelOpen => /\ Closed(u) /\ u.reading = c.reading /\ Size(u) <= Limit
                    /\ u.commit \in Seq(AllTexts) /\ IsReading(u) = IsReading(c)
  BY <1>1, Unmarking
<1>3. ASSUME NEW key \in Moves, MoveCursor(key) PROVE Kept(smart')
  <2>1. ~PanelOpen /\ smart' = [u EXCEPT !.cursor = Target(u, key)]
    BY <1>3 DEF MoveCursor
  <2> HIDE DEF u
  <2>2. Target(u, key) \in 0..Size(u)
    BY <1>2, <2>1, TargetIsInside DEF Closed
  <2> QED  BY <1>2, <2>1, <2>2, OtherCursor, ClosedIsKept
<1>4. ASSUME CompleteKey PROVE Kept(smart')
  <2>1. ~PanelOpen /\ smart' = CompleteReading(u)
    BY <1>4 DEF CompleteKey
  <2> HIDE DEF u
  <2> QED  BY <1>2, <2>1, Completing, ClosedIsKept
<1>5. ASSUME ReturnKey PROVE Kept(smart')
  BY <1>1, <1>5, FinishedIsKept DEF ReturnKey
<1>6. ASSUME OpenKey PROVE Kept(smart')
  <2> DEFINE target == IF options.candidate_cursor_at_end
                         THEN AtLeast(u.cursor, 1) ELSE AtMost(u.cursor, Size(u) - 1)
  <2>1. ~PanelOpen /\ smart' = OpenFor(u, target)
    BY <1>6 DEF OpenKey, OpenAtCursor
  <2> HIDE DEF u, target
  <2> QED  BY <1>2, <2>1, OpeningIsKept
<1>7. ASSUME NEW r, SpaceKey(r) PROVE Kept(smart')
  <2>1. ~PanelOpen /\ smart' = Literal(u, r)
    BY <1>7 DEF SpaceKey
  <2> HIDE DEF u
  <2> QED  BY <1>2, <2>1, LiteralIsKept
<1>8. ASSUME Escape PROVE Kept(smart')
  <2>1. ~PanelOpen /\ (smart' = [c EXCEPT !.reading = NoReading] \/ smart' = Cleared(c))
    BY <1>8 DEF Escape
  <2> HIDE DEF c
  <2>2. Kept(Cleared(c))
    BY <1>1, ClearedIsKept
  <2>3. NoReading \in Syllables \cup {NoReading}
    OBVIOUS
  <2>4. Kept([c EXCEPT !.reading = NoReading])
    BY <1>1, <2>1, <2>3, OtherReading, ClosedIsKept
  <2> QED  BY <2>1, <2>2, <2>4
<1>9. ASSUME OtherKey PROVE Kept(smart')
  <2>1. ~PanelOpen /\ smart' = u
    BY <1>9 DEF OtherKey
  <2> HIDE DEF u
  <2> QED  BY <1>2, <2>1, ClosedIsKept
<1> QED  BY <1>3, <1>4, <1>5, <1>6, <1>7, <1>8, <1>9, MarkIsKept, EndMarkIsKept, DeletionsAreKept DEF Keys

-----------------------------------------------------------------------------
LEMMA SelectIsKept ==
  ASSUME Kept(smart), NEW candidate \in smart.candidates, NEW learned, Select(candidate, learned)
  PROVE  Kept(smart')
<1> DEFINE s == NoCandidates(Called)
           chosen == Selected(s.graph, candidate)
           g == IF learned THEN Rebuilt(chosen) ELSE chosen
           size == Size(smart)
           wanted == IF options.selection_returns_to_end THEN size
                     ELSE IF options.candidate_cursor_at_end THEN s.cursor
                     ELSE candidate.start + Len(candidate.query)
           cursor == AtMost(wanted, size)
           u == [s EXCEPT !.graph = IF learned THEN Rebuilt(Selected(@, candidate))
                                    ELSE Selected(@, candidate),
                          !.cursor = AtMost(IF options.selection_returns_to_end THEN Size(smart)
                                            ELSE IF options.candidate_cursor_at_end THEN @
                                            ELSE candidate.start + Len(candidate.query), Size(smart))]
<1>1. smart' = u /\ Selectable(smart.graph, candidate)
  BY DEF Select
<1>2. Closed(s) /\ s.graph = smart.graph /\ s.cursor = smart.cursor /\ Size(s) = size /\ size <= Limit
  BY CalledIs, WithoutCandidates
<1> HIDE DEF s
<1>3. /\ u.graph = g /\ u.reading = s.reading /\ u.cursor = cursor
      /\ u.candidates = {} /\ u.mark = s.mark /\ IsState(u)
  BY <1>2 DEF Closed, Sound, IsState
<1> HIDE DEF u
<1>4. IsGraph(smart.graph) /\ KnownWords(smart.graph) /\ size \in Nat /\ smart.cursor \in 0..size
      /\ candidate.start \in Nat
  BY SizeOfSound DEF Kept, Sound
<1>5. wanted \in Nat
  <2>1. PICK n \in smart.graph.nodes : IsOf(candidate, n)
    BY <1>1 DEF Selectable
  <2>2. IsNode(n)
    BY <1>4 DEF IsGraph, Standing, AreNodes
  <2>3. Len(candidate.query) \in Nat
    BY <2>1, <2>2 DEF IsOf, IsNode, Span
  <2> DEFINE k == Len(candidate.query)
             b == candidate.start
  <2>4. b + k \in Nat
    <3>1. b \in Nat /\ k \in Nat
      BY <1>4, <2>3
    <3> HIDE DEF b, k
    <3> QED  BY <3>1
  <2>5. s.cursor \in Nat
    BY <1>2, <1>4
  <2> QED  BY <1>4, <2>4, <2>5
<1> HIDE DEF wanted
<1>6. cursor \in 0..size
  BY <1>4, <1>5 DEF AtMost
<1> HIDE DEF cursor
<1>7. IsGraph(chosen) /\ KnownWords(chosen) /\ Len(chosen.readings) = size
  <2>1. chosen.readings = smart.graph.readings
    BY <1>1, <1>2, <1>4, SelectedIsGraph
  <2> QED  BY <1>1, <1>2, <1>4, <2>1, SelectedIsGraph, SelectedKeepsWords DEF Size
<1> HIDE DEF chosen
<1>8. IsGraph(g) /\ KnownWords(g) /\ Len(g.readings) = size
  BY <1>7, RebuiltIsGraph
<1> HIDE DEF g
<1>9. Len(g.readings) >= Size(s) /\ u.cursor \in 0..Len(g.readings)
  <2> HIDE DEF size
  <2> QED  BY <1>2, <1>3, <1>4, <1>6, <1>8
<1>10. Closed(u) /\ Size(u) = size
  BY <1>2, <1>3, <1>8, <1>9, OtherGraph
<1> QED  BY <1>1, <1>2, <1>10, ClosedIsKept

LEMMA OpenCandidatesIsKept ==
  ASSUME Kept(smart), NEW index \in 0..Size(smart) - 1, OpenCandidates(index)
  PROVE  Kept(smart')
<1> DEFINE s == NoCandidates(Called)
           at == index + IF options.candidate_cursor_at_end THEN 1 ELSE 0
           u == [s EXCEPT !.cursor = at]
           v == [s EXCEPT !.mark = NoMark]
<1>1. smart' = IF IsReading(s) THEN v ELSE OpenFor(u, at)
  BY DEF OpenCandidates
<1>2. Closed(s) /\ Size(s) = Size(smart) /\ Size(s) <= Limit
  BY CalledIs, WithoutCandidates
<1> HIDE DEF s
<1>3. at \in 0..Size(s)
  BY <1>2, SizeOfSound DEF Closed
<1> HIDE DEF at
<1>4. Closed(u) /\ Size(u) = Size(s)
  BY <1>2, <1>3, OtherCursor
<1> HIDE DEF u
<1>5. Kept(OpenFor(u, at))
  BY <1>2, <1>4, OpeningIsKept
<1>6. /\ v.graph = s.graph /\ v.reading = s.reading /\ v.cursor = s.cursor
      /\ v.candidates = {} /\ v.mark = NoMark /\ IsState(v)
  BY <1>2 DEF Closed, Sound, IsState
<1> HIDE DEF v
<1>7. Size(v) = Size(s)
  BY <1>6 DEF Size
<1>8. Closed(v)
  BY <1>2, <1>6, <1>7, ClosedWith DEF Closed, Sound
<1> QED  BY <1>1, <1>2, <1>5, <1>7, <1>8, ClosedIsKept

LEMMA OperationsAreKept ==
  ASSUME Kept(smart), Operations
  PROVE  Kept(smart')
<1> DEFINE c == Called
           s == NoCandidates(c)
<1>1. Sound(c) /\ c.commit \in Seq(AllTexts) /\ Size(c) <= Limit /\ IsState(c) /\ Size(c) = Size(smart)
      /\ (~PanelOpen => Closed(c)) /\ c.candidates = smart.candidates /\ IsReading(c) = IsReading(smart)
  BY CalledIs DEF Sound
<1>2. /\ Closed(s) /\ s.cursor = c.cursor /\ s.reading = c.reading /\ Size(s) = Size(smart)
      /\ Size(s) <= Limit
  BY <1>1, WithoutCandidates
<1>3. ASSUME ClosePanel PROVE Kept(smart')
  BY <1>2, <1>3, ClosedIsKept DEF ClosePanel
<1>4. ASSUME NEW index \in 0..Size(smart), SetCursor(index) PROVE Kept(smart')
  <2> DEFINE u == [s EXCEPT !.cursor = index, !.mark = NoMark]
  <2>1. smart' = u
    BY <1>4 DEF SetCursor
  <2> HIDE DEF s
  <2>2. /\ u.graph = s.graph /\ u.reading = s.reading /\ u.cursor = index
        /\ u.candidates = {} /\ u.mark = NoMark /\ IsState(u)
    BY <1>2 DEF Closed, Sound, IsState
  <2> HIDE DEF u
  <2>3. Size(u) = Size(s)
    BY <2>2 DEF Size
  <2>4. Closed(u)
    BY <1>2, <2>2, <2>3, ClosedWith DEF Closed, Sound
  <2> QED  BY <1>2, <2>1, <2>3, <2>4, ClosedIsKept
<1>5. ASSUME SetLearningOptions PROVE Kept(smart')
  <2> DEFINE u == [s EXCEPT !.graph = Rebuilt(@)]
             g == Rebuilt(s.graph)
  <2>1. smart' = u
    BY <1>5 DEF SetLearningOptions
  <2> HIDE DEF s
  <2>2. /\ u.graph = g /\ u.reading = s.reading /\ u.cursor = s.cursor
        /\ u.candidates = {} /\ u.mark = s.mark /\ IsState(u)
    BY <1>2 DEF Closed, Sound, IsState
  <2> HIDE DEF u
  <2>3. IsGraph(s.graph) /\ Size(s) \in Nat /\ s.cursor \in 0..Size(s)
    BY <1>2, SizeOfSound DEF Closed, Sound
  <2>4. IsGraph(g) /\ KnownWords(g) /\ Len(g.readings) = Size(s)
    BY <2>3, RebuiltIsGraph DEF Size
  <2> HIDE DEF g
  <2>5. Len(g.readings) >= Size(s) /\ u.cursor \in 0..Len(g.readings)
    BY <2>2, <2>3, <2>4
  <2>6. Closed(u) /\ Size(u) = Size(s)
    BY <1>2, <2>2, <2>4, <2>5, OtherGraph
  <2> QED  BY <1>2, <2>1, <2>6, ClosedIsKept
<1>6. ASSUME NEW complete, FinishComposition(complete) PROVE Kept(smart')
  <2>1. smart' = Finished(IF complete THEN CompleteReading(c) ELSE c)
    BY <1>6 DEF FinishComposition
  <2>2. IsState(CompleteReading(c))
    <3>1. CASE IsReading(c)
      <4>1. Closed(c)
        BY <1>1, <3>1 DEF Sound, Closed
      <4> QED  BY <1>1, <4>1, Completing DEF Closed, Sound
    <3>2. CASE ~IsReading(c)
      BY <1>1, <3>2 DEF CompleteReading
    <3> QED  BY <3>1, <3>2
  <2> HIDE DEF c
  <2> QED  BY <1>1, <2>1, <2>2, FinishedIsKept
<1>7. ASSUME Reset PROVE Kept(smart')
  BY <1>1, <1>7, ClearedIsKept DEF Reset
<1> QED  BY <1>3, <1>4, <1>5, <1>6, <1>7, SelectIsKept, OpenCandidatesIsKept DEF Operations

-----------------------------------------------------------------------------
SoundComposition == Kept(smart)

(* The composition is sound: its graph is, its cursor, its mark and what a  *)
(* panel offers belong to that graph, and it is within its limit.           *)
THEOREM CompositionIsSound == Spec => []SoundComposition
<1>1. Init => SoundComposition
  <2> SUFFICES ASSUME Init PROVE Kept(smart)
    BY DEF SoundComposition
  <2>1. /\ smart.graph = EmptyGraph /\ smart.reading = NoReading /\ smart.cursor = 0
        /\ smart.candidates = {} /\ smart.mark = NoMark /\ IsState(smart)
    BY DEF Init, IsState
  <2>2. Size(smart) = 0
    BY <2>1 DEF Size, EmptyGraph
  <2>3. Closed(smart)
    BY <2>1, <2>2, EmptyIsGraph DEF Closed, Sound
  <2> QED  BY <2>2, <2>3, BoundsAssumption, ClosedIsKept
<1>2. SoundComposition /\ [Next]_vars => SoundComposition'
  <2> SUFFICES ASSUME Kept(smart), [Next]_vars PROVE Kept(smart')
    BY DEF SoundComposition
  <2>1. CASE Characters \/ Keys \/ Operations
    BY <2>1, CharactersAreKept, KeysAreKept, OperationsAreKept
  <2>2. ASSUME NEW new, SetSmartOptions(new) PROVE Kept(smart')
    <3>1. smart' = NoCandidates(Called)
      BY <2>2 DEF SetSmartOptions
    <3>2. Sound(Called) /\ Size(Called) <= Limit
      BY CalledIs
    <3> QED  BY <3>1, <3>2, WithoutCandidates, ClosedIsKept
  <2>3. CASE UNCHANGED vars
    BY <2>3 DEF vars
  <2> QED  BY <2>1, <2>2, <2>3 DEF Next
<1> QED  BY <1>1, <1>2, PTL DEF Spec

(* What an open panel offers can be selected, whatever changed the graph    *)
(* under it.                                                                *)
THEOREM OffersStayCurrent == Spec => []OffersAreCurrent
<1>1. SoundComposition => OffersAreCurrent
  BY DEF SoundComposition, Kept, Sound, OffersAreCurrent, PanelOpen
<1> QED  BY <1>1, CompositionIsSound, PTL

(* No call leaves a composition longer than its limit.                      *)
THEOREM CompositionsStayShort == Spec => []LimitHolds
<1>1. SoundComposition => LimitHolds
  BY DEF SoundComposition, Kept, LimitHolds
<1> QED  BY <1>1, CompositionIsSound, PTL

LEMMA ToneIs ==
  ASSUME Kept(smart), ~PanelOpen, NEW q \in Syllables, IsKnown(q)
  PROVE  LET after == WithTone(q) IN
         /\ after.commit \in Seq(AllTexts)
         /\ after.commit \o Text(after.graph)
              = Text(Inserted(smart.graph, InsertionPoint(smart), q))
         /\ after.cursor = 0 \/ Size(after) - after.cursor = Size(smart) - InsertionPoint(smart)
<1> DEFINE c == Called
           s == [c EXCEPT !.reading = q]
           after == CompleteReading(s)
           at == InsertionPoint(smart)
           h == Inserted(smart.graph, at, q)
<1>1. WithTone(q) = after
  BY DEF WithTone
<1>2. Closed(c) /\ c.graph = smart.graph /\ c.cursor = smart.cursor /\ c.commit = <<>>
      /\ Size(c) = Size(smart)
  BY CalledIs
<1> HIDE DEF c
<1>3. /\ Closed(s) /\ s.graph = smart.graph /\ s.reading = q /\ s.cursor = smart.cursor
      /\ s.commit = <<>> /\ Size(s) = Size(smart)
  <2>1. q \in Syllables \cup {NoReading}
    OBVIOUS
  <2> QED  BY <1>2, <2>1, OtherReading
<1> HIDE DEF s
<1>4. IsReading(s)
  BY <1>3, ReadingAssumption DEF IsReading
<1>5. InsertionPoint(s) = at
  BY <1>3 DEF InsertionPoint
<1>6. <<>> \in Seq(AllTexts)
  OBVIOUS
<1>7. /\ after.commit \in Seq(AllTexts)
      /\ after.commit \o Text(after.graph) = <<>> \o Text(h)
      /\ after.cursor = 0 \/ Size(after) - after.cursor = Size(smart) - at
  BY <1>3, <1>4, <1>5, <1>6, SyllableCompleted
<1>8. <<>> \o Text(h) = Text(h)
  <2>1. IsGraph(smart.graph) /\ Size(smart) = Len(smart.graph.readings) /\ q \in Readings
        /\ at \in 0..Size(smart)
    <3>1. Size(smart) \in Nat
      BY SizeOfSound DEF Kept
    <3> QED  BY <3>1, KnownIsReading DEF Kept, Sound, Size, InsertionPoint
  <2>2. IsGraph(h)
    BY <2>1, InsertedIsGraph
  <2>3. h.path \in Seq(Entries(h.nodes))
    BY <2>2, GraphPath
  <2> HIDE DEF h
  <2>4. Text(h) \in Seq(AllTexts)
    <3>1. CASE h.path = <<>>
      <4>1. Text(h) = <<>>
        BY <3>1 DEF Text
      <4> QED  BY <4>1
    <3>2. CASE h.path # <<>>
      BY <2>3, <3>2, TextOfTail DEF Text, TextOf
    <3> QED  BY <3>1, <3>2
  <2> DEFINE text == Text(h)
  <2> HIDE DEF text
  <2>5. text \in Seq(AllTexts) => <<>> \o text = text
    OBVIOUS
  <2> QED  BY <2>4, <2>5 DEF text
<1> QED  BY <1>1, <1>7, <1>8

(* A syllable completed after any history hands over from the front exactly *)
(* what was shown there.                                                    *)
THEOREM HandoffsKeepText == Spec => []HandoffKeepsText
<1>1. SoundComposition => HandoffKeepsText
  BY ToneIs DEF SoundComposition, HandoffKeepsText
<1> QED  BY <1>1, CompositionIsSound, PTL

(* The cursor stays behind the syllable, and with the mark inside the       *)
(* composition.                                                             *)
THEOREM CursorsFollowReadings == Spec => []CursorFollowsReading
<1>1. SoundComposition => CursorFollowsReading
  <2> SUFFICES ASSUME Kept(smart) PROVE CursorFollowsReading
    BY DEF SoundComposition
  <2>1. smart.cursor \in Positions(smart) /\ smart.mark \in Positions(smart) \cup {NoMark}
    BY DEF Kept, Sound, Positions
  <2> QED  BY <2>1, ToneIs DEF CursorFollowsReading
<1> QED  BY <1>1, CompositionIsSound, PTL
=============================================================================
