---------------------------- MODULE GamgPairing ----------------------------
(***************************************************************************)
(* The levels of the multigrid hierarchy: the cells of a level are visited *)
(* in one order and the next level's in the other, each is paired along    *)
(* its strongest connection to a cell that is free too, the cells for      *)
(* which none is left join an aggregate or stay alone, and the connections *)
(* between the aggregates are those of the next level.                     *)
(*                                                                         *)
(* A weight is that of a mesh face or the size of a coefficient.  Faces    *)
(* tell parallel connections of the finest level apart; on the other       *)
(* levels there are none.  links are the cells the matrix couples.         *)
(***************************************************************************)
EXTENDS Integers, FiniteSets, FiniteSetsExt

CONSTANTS
  NCells,     \* rows of the finest matrix
  Inputs,     \* the sources of agglomeration a hierarchy may be built from
  CoarsestCells, \* nCellsInCoarsestLevel
  MaxLevels   \* MAX_LEVELS

Connections(n) == {p \in (0 .. n - 1) \X (0 .. n - 1) : p[1] < p[2]}
Pairs(es) == {<<e.lower, e.upper>> : e \in es}

\* An edge of an input; its cells have been ordered.
Edges == [lower : 0 .. NCells - 1, upper : 0 .. NCells - 1, value : Int, face : Nat]

ASSUME PairingAssumption ==
  /\ NCells \in Nat \ {0}
  /\ CoarsestCells \in Nat \ {0}
  /\ MaxLevels \in Nat \ {0, 1}
  /\ \A i \in Inputs :
       /\ i.source \in {"algebraic", "faceArea"}
       /\ i.edges \subseteq Edges
       /\ Pairs(i.edges) \subseteq Connections(NCells)
       /\ i.links \subseteq Connections(NCells)
       /\ i.source = "algebraic" => Pairs(i.edges) = i.links

VARIABLES
  source,   \* agglomeration_source
  levels,   \* the number of matrices
  cells,    \* rows of the last one
  links,    \* its couplings
  edges,    \* its connections with their weights
  forward,  \* the order of the next pass
  build,    \* where the build is
  offset,   \* the place of the pass in its order
  coarse,   \* coarse_map
  nCoarse,  \* n_coarse
  matched   \* the cells that were paired

levelVars == <<levels, cells, links, edges, forward>>
buildVars == <<source, levelVars, build, offset, coarse, nCoarse, matched>>

Unassigned == -1

BuildInit == /\ \E i \in Inputs : source = i.source /\ edges = i.edges /\ links = i.links
             /\ levels = 1
             /\ cells = NCells
             /\ forward = TRUE
             /\ build = "edges"
             /\ offset = 0
             /\ coarse = [c \in 0 .. cells - 1 |-> Unassigned]
             /\ nCoarse = 0
             /\ matched = {}
-----------------------------------------------------------------------------
Abs(n) == IF n < 0 THEN -n ELSE n
Weight(e) == IF source = "algebraic" THEN Abs(e.value) ELSE e.value

Incident(c) == {e \in edges : c \in {e.lower, e.upper}}
Other(e, c) == IF e.lower = c THEN e.upper ELSE e.lower
Neighbours(c) == {Other(e, c) : e \in Incident(c)}

ExternalNeighbours(e) ==
  Cardinality((Neighbours(e.lower) \cup Neighbours(e.upper)) \ {e.lower, e.upper})

Precedes(e, f) == e.lower < f.lower \/ (e.lower = f.lower /\ e.upper < f.upper)
EndpointsPreferred(e, f) == IF forward THEN Precedes(e, f) ELSE Precedes(f, e)

\* For a pair: the heavier edge, then that with fewer neighbours outside, then the order.
Preferred(e, f) ==
  \/ Weight(e) > Weight(f)
  \/ /\ Weight(e) = Weight(f)
     /\ \/ ExternalNeighbours(e) < ExternalNeighbours(f)
        \/ /\ ExternalNeighbours(e) = ExternalNeighbours(f)
           /\ EndpointsPreferred(e, f)

\* For an aggregate to join: the neighbours outside do not count.
Stronger(e, f) == \/ Weight(e) > Weight(f)
                  \/ Weight(e) = Weight(f) /\ EndpointsPreferred(e, f)

\* A free edge tested at one of its ends.
HalfFree(e) == coarse[e.upper] = Unassigned

Free(e) == coarse[e.lower] = Unassigned /\ coarse[e.upper] = Unassigned

Matches(c) == {e \in Incident(c) : Free(e)}
BestMatches(c) == {e \in Matches(c) : \A f \in Matches(c) : ~Preferred(f, e)}
StrongestEdges(c) == {e \in Incident(c) : \A f \in Incident(c) : ~Stronger(f, e)}

\* The cell the pass is at.
Visited == IF forward THEN offset ELSE cells - offset - 1
-----------------------------------------------------------------------------
\* The faces of the finest level are those of the matrix, and the edges of every level have weight.
Valid == /\ source = "faceArea" /\ levels = 1 => Pairs(edges) = links
         /\ \A e \in edges : Weight(e) > 0

CheckEdges == /\ build = "edges"
              /\ build' = IF Valid THEN "pair" ELSE "failed"
              /\ UNCHANGED <<source, levelVars, offset, coarse, nCoarse, matched>>

Visits(phase) == /\ build = phase
                 /\ offset < cells
                 /\ offset' = offset + 1
                 /\ UNCHANGED <<source, levelVars, build>>

Skip == /\ build \in {"pair", "rest"}
        /\ Visits(build)
        /\ coarse[Visited] # Unassigned
        /\ UNCHANGED <<coarse, nCoarse, matched>>

Match == /\ Visits("pair")
         /\ coarse[Visited] = Unassigned
         /\ \E e \in BestMatches(Visited) :
              /\ coarse' = [coarse EXCEPT ![e.lower] = nCoarse, ![e.upper] = nCoarse]
              /\ matched' = matched \cup {e.lower, e.upper}
         /\ nCoarse' = nCoarse + 1

\* The aggregate made last, whatever the neighbour is in.
LastMade(e) == nCoarse - 1

Joined(e) == coarse[Other(e, Visited)]

Join == /\ Visits("pair")
        /\ coarse[Visited] = Unassigned
        /\ Matches(Visited) = {}
        /\ \E e \in StrongestEdges(Visited) : coarse' = [coarse EXCEPT ![Visited] = Joined(e)]
        /\ UNCHANGED <<nCoarse, matched>>

\* A cell without edges is left to the second loop.
Leave == /\ Visits("pair")
         /\ coarse[Visited] = Unassigned
         /\ Incident(Visited) = {}
         /\ UNCHANGED <<coarse, nCoarse, matched>>

EndPairs == /\ build = "pair"
            /\ offset = cells
            /\ build' = "rest"
            /\ offset' = 0
            /\ UNCHANGED <<source, levelVars, coarse, nCoarse, matched>>

Single == /\ Visits("rest")
          /\ coarse[Visited] = Unassigned
          /\ coarse' = [coarse EXCEPT ![Visited] = nCoarse]
          /\ nCoarse' = nCoarse + 1
          /\ UNCHANGED matched

\* Counting down from one too many.
RenumberedFromCount(n) == nCoarse - n

Renumbered(n) == nCoarse - 1 - n

\* The map of a backward pass is numbered forward.
EndRest == /\ build = "rest"
           /\ offset = cells
           /\ build' = "decide"
           /\ coarse' = IF forward THEN coarse
                        ELSE [c \in 0 .. cells - 1 |-> Renumbered(coarse[c])]
           /\ forward' = ~forward
           /\ UNCHANGED <<source, levels, cells, links, edges, offset, nCoarse, matched>>

Coarsens == nCoarse >= CoarsestCells /\ nCoarse < cells

\* The order of the fine cells, not that of the aggregates.
FineOrder(a, b) == <<coarse[a], coarse[b]>>

OrderedPair(a, b) == IF coarse[a] < coarse[b] THEN <<coarse[a], coarse[b]>>
                                              ELSE <<coarse[b], coarse[a]>>

\* Connections between the same aggregates are one, with the sum of their weights.
Between(p) == {e \in edges : OrderedPair(e.lower, e.upper) = p}
Total(p) == MapThenSumSet(LAMBDA e : e.value, Between(p))
CoarseEdges ==
  {[lower |-> p[1], upper |-> p[2], value |-> Total(p), face |-> 0] :
     p \in {OrderedPair(e.lower, e.upper) : e \in {d \in edges : coarse[d.lower] # coarse[d.upper]}}}

\* The couplings of build_coarse_matrix.
CoarseLinks ==
  {q \in Connections(nCoarse) :
     \E p \in links : {coarse[p[1]], coarse[p[2]]} = {q[1], q[2]}}

Coarsen == /\ build = "decide"
           /\ Coarsens
           /\ levels' = levels + 1
           /\ cells' = nCoarse
           /\ links' = CoarseLinks
           /\ edges' = CoarseEdges
           /\ build' = IF levels + 1 < MaxLevels THEN "edges" ELSE "built"
           /\ offset' = 0
           /\ coarse' = [c \in 0 .. nCoarse - 1 |-> Unassigned]
           /\ nCoarse' = 0
           /\ matched' = {}
           /\ UNCHANGED <<source, forward>>

\* A hierarchy of one level is none.
Stop == /\ build = "decide"
        /\ ~Coarsens
        /\ build' = IF levels > 1 THEN "built" ELSE "failed"
        /\ UNCHANGED <<source, levelVars, offset, coarse, nCoarse, matched>>

BuildNext == \/ CheckEdges
             \/ Skip \/ Match \/ Join \/ Leave \/ EndPairs
             \/ Single \/ EndRest
             \/ Coarsen \/ Stop

BuildSpec == BuildInit /\ [][BuildNext]_buildVars
-----------------------------------------------------------------------------
Rows == 0 .. cells - 1
Aggregate(a) == {c \in Rows : coarse[c] = a}

BuildTypeOK == /\ source \in {"algebraic", "faceArea"}
               /\ levels \in 1 .. MaxLevels
               /\ cells \in 1 .. NCells
               /\ links \subseteq Connections(cells)
               /\ Pairs(edges) \subseteq Connections(cells)
               /\ forward \in BOOLEAN
               /\ build \in {"edges", "pair", "rest", "decide", "built", "failed"}
               /\ offset \in 0 .. cells
               /\ nCoarse \in Nat
               /\ coarse \in [Rows -> {Unassigned} \cup (0 .. nCoarse - 1)]
               /\ matched \subseteq Rows

\* A finished map gives every cell an aggregate, and every aggregate was seeded once: by a pair
\* of connected cells, or, alone, by a cell without connections, as the comment in
\* build_hierarchy_diagnostics has it when it counts the cells that were not matched.
OneSeed ==
  build = "decide" =>
    /\ \A c \in Rows : coarse[c] \in 0 .. nCoarse - 1
    /\ \A a \in 0 .. nCoarse - 1 :
         \/ \E e \in edges : Aggregate(a) \cap matched = {e.lower, e.upper}
         \/ \E c \in Rows : Aggregate(a) = {c} /\ Incident(c) = {}

\* No aggregate falls apart: whenever its cells are divided, a connection crosses the division,
\* also for cells that joined late, one by another.
Connected ==
  \A a \in 0 .. nCoarse - 1 :
    \A s \in SUBSET Aggregate(a) :
      s # {} /\ s # Aggregate(a) =>
        \E e \in edges : {e.lower, e.upper} \subseteq Aggregate(a)
                          /\ (e.lower \in s <=> e.upper \notin s)

\* The mesh faces and the matrix are agglomerated by different code, and compared on the finest
\* level only: on every other level, too, the connections are those of its matrix.
FollowsMatrix == build \notin {"edges", "failed"} \/ levels > 1 => Pairs(edges) = links
=============================================================================
