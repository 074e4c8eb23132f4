------------------------------ MODULE PipelineOps ------------------------------
(***************************************************************************)
(* The order in which a pipeline's nodes run, as NewExecutionGraph and     *)
(* LayeredTopologicalSort define it.  A pipeline p has, for each node, the *)
(* nodes it depends on, p.depends, and its next nodes, p.next.             *)
(***************************************************************************)
EXTENDS Naturals, FiniteSets

CONSTANT Nodes

ASSUME NodesAssumption == IsFiniteSet(Nodes)

(* NewExecutionGraph: next nodes count only for a node that depends on     *)
(* nothing itself.                                                         *)
NextEdges(p, n) == IF p.depends[n] = {} THEN p.next[n] ELSE {}

Predecessors(p, n) == p.depends[n] \cup {m \in Nodes : n \in NextEdges(p, m)}

(* The layer that comes after the nodes in processed. *)
Layer(p, processed) ==
    {n \in Nodes \ processed : Predecessors(p, n) \subseteq processed}

(* An edge given twice, as a dependency and as a next node, counts twice. *)
InDegree(p, n) == Cardinality(p.depends[n])
                      + Cardinality({m \in Nodes : n \in NextEdges(p, m)})

(* No set of nodes in which each comes after another one of the set. *)
Acyclic(before(_)) ==
    \A S \in (SUBSET Nodes) \ {{}} : \E n \in S : before(n) \cap S = {}
===============================================================================
