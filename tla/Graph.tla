------------------------------- MODULE Graph -------------------------------
(***************************************************************************)
(* A compiled workflow graph (agentflow/core/graph.cc, edge.h): the nodes, *)
(* the edges in the order AddEdge received them, and what GraphBuilder's   *)
(* Build checks and derives.  An edge is an identifier, so that two        *)
(* parallel edges between the same nodes stay distinct; its fields are     *)
(* functions of the identifier.                                            *)
(***************************************************************************)
EXTENDS Integers, FiniteSets

CONSTANTS Node,   \* the node ids
          Edge,   \* one identifier per AddEdge call
          From,   \* From[e], To[e]: the end points of e
          To,
          Group,  \* Group[e]: activation_group, 0 for a DAG edge
          Cond    \* Cond[e]: "ALL" or "ANY"

Conditions == {"ALL", "ANY"}

\* The activation groups some edge belongs to.
Groups == {Group[e] : e \in Edge}

In(n, g) == {e \in Edge : To[e] = n /\ Group[e] = g}
Out(n)   == {e \in Edge : From[e] = n}
Preds(n) == {From[e] : e \in {d \in Edge : To[d] = n}}

\* A node without outgoing edges: what it produces is the graph's result.
IsTerminal(n) == Out(n) = {}

\* Entry nodes have no incoming group-0 edge.
EntryNodeIds == {n \in Node : In(n, 0) = {}}

\* GraphBuilder::Build throws unless all of these hold.
EndpointsKnown  == From \in [Edge -> Node] /\ To \in [Edge -> Node]
GroupsUniform   == \A d, e \in Edge :
                      To[d] = To[e] /\ Group[d] = Group[e] => Cond[d] = Cond[e]
SomeEntry       == EntryNodeIds # {}

ASSUME GraphAssumption ==
  /\ IsFiniteSet(Node) /\ IsFiniteSet(Edge)
  /\ EndpointsKnown
  /\ Group \in [Edge -> Nat]
  /\ Cond \in [Edge -> Conditions]
  /\ GroupsUniform
  /\ SomeEntry

\* A graph without cycle edges whose every fan-in waits for ALL its edges.
PureFanIn == \A e \in Edge : Group[e] = 0 /\ Cond[e] = "ALL"

\* Every set of nodes has a first and a last one: no edges form a cycle.
Acyclic ==
  \A S \in (SUBSET Node) \ {{}} :
    /\ \E n \in S : Preds(n) \cap S = {}
    /\ \E n \in S : \A e \in Out(n) : To[e] \notin S
=============================================================================
