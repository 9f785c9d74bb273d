----------------------------- MODULE SmartGraph -----------------------------
(***************************************************************************)
(* The sentence graph of walker.rs.  A graph is its readings, its nodes as *)
(* a set, and the path that update chose through them; a node is a word's  *)
(* query at a position, so its span is the query's length.  The sentinels  *)
(* have no nodes here, and the score of a word is that of its row, or of   *)
(* its row for the word before it; backoffs, homophone aliases and learned *)
(* candidates are left out.                                                *)
(* Positions are those of the code: nodes start at 1, readings at 0.       *)
(***************************************************************************)
EXTENDS Integers, Sequences, FiniteSets

CONSTANTS
  Lexicon,      \* the rows of each query, best first: [query -> Seq(row)]
  Bigrams,      \* scores of a word after a word: [<<previous, text>> -> score]
  Punctuation,  \* readings whose query begins with _punctuation_
  MaxSpan,      \* MAXIMUM_SPAN
  NoText        \* no word is chosen, and the text of the sentinel

OverrideScore == 100

Readings == {query[1] : query \in {q \in DOMAIN Lexicon : Len(q) = 1}}
Words(query) == IF query \in DOMAIN Lexicon THEN Lexicon[query] ELSE <<>>
Texts(query) == {Words(query)[i].text : i \in DOMAIN Words(query)}
AllTexts == {NoText} \cup UNION {Texts(query) : query \in DOMAIN Lexicon}

(* A query is of one or more readings, and a query in the lexicon has rows. *)
ASSUME LexiconAssumption ==
  /\ IsFiniteSet(DOMAIN Lexicon)
  /\ \A query \in DOMAIN Lexicon :
       /\ query \in Seq(Int) \ {<<>>}
       /\ Lexicon[query] \in Seq([text : AllTexts \ {NoText}, score : Int]) \ {<<>>}

ASSUME BigramsAssumption == \A pair \in DOMAIN Bigrams : Bigrams[pair] \in Int
ASSUME SpanAssumption == MaxSpan \in Nat \ {0}

EmptyGraph == [readings |-> <<>>, nodes |-> {}, path |-> <<>>]

Span(node) == Len(node.query)
End(node) == node.start + Span(node)
IsFixed(node) == node.fixed # NoText

(* A node whose query is not what the readings at its place spell.          *)
Spells(graph, node) ==
  /\ End(node) <= Len(graph.readings) + 1
  /\ node.query = SubSeq(graph.readings, node.start, End(node) - 1)

(* sort_nodes: readings are numbers so that queries have an order.          *)
QueryBefore(p, q) ==
  \E i \in DOMAIN p : p[i] < q[i] /\ SubSeq(p, 1, i - 1) = SubSeq(q, 1, i - 1)

Before(a, b) ==
  \/ a.start < b.start
  \/ a.start = b.start /\ Span(a) < Span(b)
  \/ a.start = b.start /\ Span(a) = Span(b) /\ QueryBefore(a.query, b.query)

First(nodes) == CHOOSE n \in nodes : \A m \in nodes : m = n \/ Before(n, m)

-----------------------------------------------------------------------------
(* Node::best: the word of a node after the word before it.  The rows that  *)
(* depend on that word are those of the node's context.                     *)
ContextTexts(query) == IF query = <<>> THEN {NoText} ELSE Texts(query)

Pairs(node, before) ==
  IF before \notin ContextTexts(node.previous) THEN {}
  ELSE {[text |-> t, score |-> Bigrams[<<before, t>>]] :
          t \in {u \in Texts(node.query) : <<before, u>> \in DOMAIN Bigrams}}

(* The best pair, if it is better than the best word on its own.            *)
Better(word, pairs) ==
  LET winning == {p \in pairs : p.score > word.score /\ \A q \in pairs : q.score <= p.score}
  IN CHOOSE w \in {word} \cup winning : w = word => winning = {}

Best(node, before) ==
  IF IsFixed(node) THEN [text |-> node.fixed, score |-> OverrideScore]
  ELSE Better(Words(node.query)[1], Pairs(node, before))

(* update: the best way on from each place, through the first fixed node if *)
(* there is one.  A way may end anywhere: nodes may reach past the readings. *)
Targets(following) ==
  IF \E n \in following : IsFixed(n) THEN {First({n \in following : IsFixed(n)})}
  ELSE following

Route(node, word, rest) ==
  [node |-> node, total |-> word.score + rest.total,
   path |-> <<[node |-> node, text |-> word.text]>> \o rest.path]

BestRoute(routes) ==
  IF routes = {} THEN [total |-> 0, path |-> <<>>]
  ELSE CHOOSE r \in routes : \A s \in routes \ {r} :
         r.total > s.total \/ (r.total = s.total /\ Before(r.node, s.node))

Updated(readings, nodes) ==
  LET limit == Len(readings) + 2 * MaxSpan
      walk[at \in 1..limit] == [before \in AllTexts |->
        LET along(n, word) == Route(n, word, walk[End(n)][word.text])
        IN BestRoute({along(n, Best(n, before)) : n \in Targets({m \in nodes : m.start = at})})]
  IN [readings |-> readings, nodes |-> nodes, path |-> walk[1][NoText].path]

Text(graph) == [i \in DOMAIN graph.path |-> graph.path[i].text]

-----------------------------------------------------------------------------
(* build: a node for each word at each place that has none yet.  Its        *)
(* context is the first node that ends where it starts.                     *)
MissingShorter(readings, nodes) ==
  {f \in [start : 1..Len(readings), query : DOMAIN Lexicon] :
     /\ Span(f) < MaxSpan /\ Words(f.query) # <<>>
     /\ Spells([readings |-> readings], f)
     /\ ~\E n \in nodes : n.start = f.start /\ n.query = f.query}

Missing(readings, nodes) ==
  {f \in [start : 1..Len(readings), query : DOMAIN Lexicon] :
     /\ Span(f) <= MaxSpan /\ Words(f.query) # <<>>
     /\ Spells([readings |-> readings], f)
     /\ ~\E n \in nodes : n.start = f.start /\ n.query = f.query}

Node(place, ending) ==
  [start |-> place.start, query |-> place.query, fixed |-> NoText,
   previous |-> IF ending = {} THEN <<>> ELSE First(ending).query]

Added(missing, nodes) ==
  {Node(f, {n \in missing \cup nodes : End(n) = f.start}) : f \in missing}

Built(readings, nodes) == nodes \cup Added(Missing(readings, nodes), nodes)

Build(readings, nodes) == Updated(readings, Built(readings, nodes))

(* insert: nodes at or over the place go, unless the user fixed them.       *)
TouchesLoosely(node, at) == node.start \in at..at + 1 \/ End(node) \in at..at + 1

Touches(node, at) ==
  \/ node.start \in at..at + 1
  \/ End(node) \in at..at + 1
  \/ node.start <= at /\ at + 1 <= End(node)

Inserted(graph, index, reading) ==
  LET at == index + 1
      kept == {n \in graph.nodes : ~Touches(n, at) \/ IsFixed(n)}
  IN Build(SubSeq(graph.readings, 1, index) \o <<reading>>
             \o SubSeq(graph.readings, index + 1, Len(graph.readings)),
           {IF n.start >= at THEN [n EXCEPT !.start = @ + 1] ELSE n : n \in kept})

(* remove: a fixed punctuation beside the place stays.                      *)
Bypassable(node) == IsFixed(node) /\ node.query[1] \in Punctuation

Removed(graph, index) ==
  LET at == index + 1
      near(n) == n.start \in at - 1..at + 1 \/ End(n) \in at - 1..at + 1
      kept == {n \in graph.nodes : n.start # at /\ (~near(n) \/ Bypassable(n))}
  IN Build(SubSeq(graph.readings, 1, index)
             \o SubSeq(graph.readings, index + 2, Len(graph.readings)),
           {IF n.start > at THEN [n EXCEPT !.start = @ - 1] ELSE n : n \in kept})

(* set_user_data: all nodes anew, then the fixed words that still have one. *)
RebuiltUnfixed(graph) == Build(graph.readings, {})

Rebuilt(graph) ==
  LET fixedAs(n) == {m \in graph.nodes : IsFixed(m) /\ m.start = n.start /\ m.query = n.query}
  IN Updated(graph.readings,
             {IF fixedAs(n) = {} THEN n ELSE [n EXCEPT !.fixed = First(fixedAs(n)).fixed] :
                n \in Built(graph.readings, {})})

-----------------------------------------------------------------------------
(* candidates_at: the words of the nodes over a reading, or of those that   *)
(* end at the cursor; a text is offered once, for the longest node.         *)
Ahead(a, b) ==
  \/ Len(a.query) > Len(b.query)
  \/ /\ Len(a.query) = Len(b.query)
     /\ a.start < b.start \/ (a.start = b.start /\ QueryBefore(a.query, b.query))

CandidatesAt(graph, index, atEnd) ==
  LET at == index + 1
      size == Len(graph.readings)
      offering == {n \in graph.nodes :
                     /\ End(n) <= size + 1
                     /\ IF atEnd THEN End(n) = at ELSE n.start <= at /\ at < End(n)}
      offers == UNION {{[start |-> n.start - 1, query |-> n.query, text |-> t] :
                          t \in Texts(n.query)} : n \in offering}
  IN IF index > size \/ (~atEnd /\ index = size) THEN {}
     ELSE {o \in offers : ~\E other \in offers : other.text = o.text /\ Ahead(other, o)}

IsOf(candidate, node) == node.start = candidate.start + 1 /\ node.query = candidate.query

Selectable(graph, candidate) ==
  \E n \in graph.nodes : IsOf(candidate, n) /\ candidate.text \in Texts(n.query)

(* select: fixes the node, and frees those that cover its first reading.    *)
Covers(node, candidate) ==
  node.start <= candidate.start + 1 /\ candidate.start + 1 < End(node)

Selected(graph, candidate) ==
  Updated(graph.readings,
          {IF IsOf(candidate, n) THEN [n EXCEPT !.fixed = candidate.text]
           ELSE IF Covers(n, candidate) THEN [n EXCEPT !.fixed = NoText]
           ELSE n : n \in graph.nodes})

(* shift: takes the first word away, and fixes the one after it, which      *)
(* loses its context.                                                       *)
WithoutFirst(graph, nodes, span) ==
  Updated(SubSeq(graph.readings, span + 1, Len(graph.readings)),
          {[n EXCEPT !.start = @ - span] : n \in nodes})

ShiftedUnfixed(graph) ==
  LET first == graph.path[1].node
  IN WithoutFirst(graph, {n \in graph.nodes : n.start >= End(first)}, Span(first))

Shifted(graph) ==
  LET path == graph.path
      first == path[1].node
      later == {n \in graph.nodes : n.start >= End(first)}
      frozen == {IF Len(path) > 1 /\ n = path[2].node
                   THEN [n EXCEPT !.fixed = path[2].text] ELSE n : n \in later}
  IN WithoutFirst(graph, frozen, Span(first))
=============================================================================
