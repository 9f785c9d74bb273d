----------------------------- MODULE GraphEdits -----------------------------
(***************************************************************************)
(* Every graph that the operations of SmartGraph can lead to, in any order *)
(* and at any place: smart.rs calls them at its cursor.                    *)
(***************************************************************************)
EXTENDS SmartGraph

CONSTANTS
  MaxReadings,  \* bound: the longest composition
  MaxFixed      \* bound: the words the user has fixed at one time

ASSUME EditBoundsAssumption == MaxReadings \in Nat /\ MaxFixed \in Nat

VARIABLE graph

GraphInit == graph = EmptyGraph

Insert(index, reading) ==
  /\ Len(graph.readings) < MaxReadings
  /\ graph' = Inserted(graph, index, reading)

Remove(index) == graph' = Removed(graph, index)

(* Every offer of the panel that opens at some reading, or behind it.       *)
Offers ==
  UNION {CandidatesAt(graph, index, atEnd) :
           index \in 0..Len(graph.readings), atEnd \in BOOLEAN}

SelectOffer(candidate) ==
  /\ Cardinality({n \in graph.nodes : IsFixed(n) /\ ~Covers(n, candidate)}) < MaxFixed
  /\ Selectable(graph, candidate)
  /\ graph' = Selected(graph, candidate)

(* enforce_limit only shifts a composition that is longer than any word.    *)
CanShift == graph.path # <<>> /\ Span(graph.path[1].node) <= Len(graph.readings)

Shift == CanShift /\ graph' = Shifted(graph)

SetUserData == graph' = Rebuilt(graph)

GraphNext ==
  \/ \E index \in 0..Len(graph.readings), r \in Readings : Insert(index, r)
  \/ \E index \in 0..Len(graph.readings) - 1 : Remove(index)
  \/ \E candidate \in Offers : SelectOffer(candidate)
  \/ Shift
  \/ SetUserData

GraphSpec == GraphInit /\ [][GraphNext]_graph

-----------------------------------------------------------------------------
(* The graph offers each word of the lexicon wherever the readings spell    *)
(* it, however they were edited, shifted or fixed.                          *)
EveryWordIsOffered ==
  \A from \in DOMAIN graph.readings, span \in 1..MaxSpan :
    LET to == from + span - 1
        query == SubSeq(graph.readings, from, to)
    IN to \in DOMAIN graph.readings /\ Words(query) # <<>>
         => \E n \in graph.nodes : n.start = from /\ n.query = query

(* An edit of a graph whose nodes all stand for the readings they cover     *)
(* leaves no other nodes, unless the user fixed them or they are longer     *)
(* than three readings.                                                     *)
IsFresh(g) == \A n \in g.nodes : Spells(g, n)

EditsKeepNodesFresh ==
  [][IsFresh(graph) =>
       \A n \in graph'.nodes :
         Spells(graph', n) \/ IsFixed(n) \/ Span(n) > 3]_graph

(* A shift takes the first word shown and leaves the others as they are,    *)
(* although the second loses the word its choice depended on.               *)
ShiftKeepsText ==
  CanShift => Text(Shifted(graph)) = Tail(Text(graph))

(* A rebuild for new user data keeps every fixed word that stands for the   *)
(* readings it covers, and drops what does not.                             *)
RebuildKeepsSelections ==
  LET rebuilt == Rebuilt(graph)
  IN \A n \in graph.nodes : IsFixed(n) =>
       (Spells(graph, n) <=> \E m \in rebuilt.nodes :
          m.start = n.start /\ m.query = n.query /\ m.fixed = n.fixed)

-----------------------------------------------------------------------------
(* guanyinma.h:293-294 says of the segments that are shown: "Segment and    *)
(* candidate start/span values count completed readings".  segments leaves  *)
(* out the nodes that begin behind the readings; the others must end there. *)
SegmentsCountReadings ==
  \A i \in DOMAIN graph.path :
    LET node == graph.path[i].node
    IN node.start <= Len(graph.readings) => End(node) <= Len(graph.readings) + 1
=============================================================================
