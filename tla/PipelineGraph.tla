----------------------------- MODULE PipelineGraph -----------------------------
(***************************************************************************)
(* What happens to a pipeline definition before its nodes run: Validate    *)
(* looks for cycles with a depth-first search, and the engine sorts the    *)
(* nodes into layers that run one after the other.                         *)
(***************************************************************************)
EXTENDS PipelineOps, Sequences

CONSTANT Pipelines    \* the definitions that may be submitted

ASSUME PipelinesAssumption ==
    Pipelines \subseteq [depends : [Nodes -> SUBSET Nodes], next : [Nodes -> SUBSET Nodes]]

VARIABLES p,          \* the definition
          phase,      \* "detect", "rejected", "sort", "sorted" or "failed"
          visited,    \* detectCycle: nodes ever entered
          stack,      \* and the nodes being searched, with what is left of each
          inDegree,   \* LayeredTopologicalSort: edges into it not yet processed
          layers      \* the layers found so far

vars == <<p, phase, visited, stack, inDegree, layers>>

Frame == [node : Nodes, rest : SUBSET Nodes]

TypeOK == /\ p \in Pipelines
          /\ phase \in {"detect", "rejected", "sort", "sorted", "failed"}
          /\ visited \subseteq Nodes
          /\ stack \in Seq(Frame)
          /\ inDegree \in [Nodes -> 0 .. 2 * Cardinality(Nodes)]
          /\ layers \in Seq(SUBSET Nodes)

Init == /\ p \in Pipelines
        /\ phase = "detect"
        /\ visited = {}
        /\ stack = <<>>
        /\ inDegree = [n \in Nodes |-> 0]
        /\ layers = <<>>

-------------------------------------------------------------------------------

Top == stack[Len(stack)]
OnStack == {stack[i].node : i \in DOMAIN stack}    \* the recStack

Pushed(onto, n) == Append(onto, [node |-> n, rest |-> p.next[n]])

(* The search starts anew from a node it has not come to. *)
Enter(n) == /\ phase = "detect" /\ stack = <<>>
            /\ n \notin visited
            /\ visited' = visited \cup {n}
            /\ stack' = Pushed(stack, n)
            /\ UNCHANGED <<p, phase, inDegree, layers>>

(* Fault: a node that was visited counts as a cycle wherever it is. *)
FollowFault(n) ==
    /\ phase = "detect" /\ stack # <<>>
    /\ n \in Top.rest
    /\ IF n \notin visited
       THEN /\ visited' = visited \cup {n}
            /\ stack' = Pushed([stack EXCEPT ![Len(stack)].rest = @ \ {n}], n)
            /\ UNCHANGED phase
       ELSE phase' = "rejected" /\ UNCHANGED <<visited, stack>>
    /\ UNCHANGED <<p, inDegree, layers>>

(* One of the next nodes of the node on top: search it if it is new, report *)
(* a cycle if it is on the stack.                                           *)
Follow(n) ==
    /\ phase = "detect" /\ stack # <<>>
    /\ n \in Top.rest
    /\ LET left == [stack EXCEPT ![Len(stack)].rest = @ \ {n}] IN
       IF n \notin visited
       THEN /\ visited' = visited \cup {n}
            /\ stack' = Pushed(left, n)
            /\ UNCHANGED phase
       ELSE /\ UNCHANGED visited
            /\ IF n \in OnStack THEN phase' = "rejected" /\ UNCHANGED stack
                                ELSE stack' = left /\ UNCHANGED phase
    /\ UNCHANGED <<p, inDegree, layers>>

(* Fault: it is searched once more. *)
BacktrackFault ==
    /\ phase = "detect" /\ stack # <<>>
    /\ Top.rest = {}
    /\ stack' = [stack EXCEPT ![Len(stack)].rest = p.next[Top.node]]
    /\ UNCHANGED <<p, phase, visited, inDegree, layers>>

(* All of a node's next nodes were searched. *)
Backtrack ==
    /\ phase = "detect" /\ stack # <<>>
    /\ Top.rest = {}
    /\ stack' = SubSeq(stack, 1, Len(stack) - 1)
    /\ UNCHANGED <<p, phase, visited, inDegree, layers>>

Accept ==
    /\ phase = "detect" /\ stack = <<>>
    /\ visited = Nodes
    /\ phase' = "sort"
    /\ inDegree' = [n \in Nodes |-> InDegree(p, n)]
    /\ UNCHANGED <<p, visited, stack, layers>>

-------------------------------------------------------------------------------

Processed == UNION {layers[i] : i \in DOMAIN layers}

(* Fault: an edge that is given twice is counted off once. *)
EdgesFromFault(layer, n) == Cardinality({m \in layer : m \in Predecessors(p, n)})

EdgesFrom(layer, n) == Cardinality(p.depends[n] \cap layer)
                           + Cardinality({m \in layer : n \in NextEdges(p, m)})

(* Fault: the nodes of earlier layers are taken again. *)
CurrentLayerFault == {n \in Nodes : inDegree[n] = 0}

CurrentLayer == {n \in Nodes : inDegree[n] = 0} \ Processed

(* One round of LayeredTopologicalSort. *)
AddLayer ==
    /\ phase = "sort" /\ Processed # Nodes
    /\ IF CurrentLayer = {}
       THEN phase' = "failed" /\ UNCHANGED <<inDegree, layers>>
       ELSE /\ layers' = Append(layers, CurrentLayer)
            /\ inDegree' = [n \in Nodes |-> inDegree[n] - EdgesFrom(CurrentLayer, n)]
            /\ UNCHANGED phase
    /\ UNCHANGED <<p, visited, stack>>

Sorted == /\ phase = "sort" /\ Processed = Nodes
          /\ phase' = "sorted"
          /\ UNCHANGED <<p, visited, stack, inDegree, layers>>

Decided == phase \in {"rejected", "sorted", "failed"}

Done == Decided /\ UNCHANGED vars

Next == \/ \E n \in Nodes : Enter(n) \/ Follow(n)
        \/ Backtrack \/ Accept \/ AddLayer \/ Sorted \/ Done

Spec == Init /\ [][Next]_vars

(* One goroutine runs all this, without waiting for anything. *)
FairSpec == Spec /\ WF_vars(Next)

-------------------------------------------------------------------------------

NextOf(n) == p.next[n]
ComesAfter(n) == Predecessors(p, n)

(***************************************************************************)
(* The search finds the cycles of the next nodes and nothing else: what it *)
(* rejects has one, what it lets through has none.                         *)
(***************************************************************************)
DetectsNextCycles == /\ phase = "rejected" => ~ Acyclic(NextOf)
                     /\ phase \in {"sort", "sorted", "failed"} => Acyclic(NextOf)

(***************************************************************************)
(* The counting of edges, with the ones given twice, finds the layers of   *)
(* the graph: a node is in the first layer that all it comes after are     *)
(* below.  Sorting fails only on a cycle.                                  *)
(***************************************************************************)
LayersAreRight ==
    /\ phase = "sort" => CurrentLayer = Layer(p, Processed)
    /\ phase = "failed" => ~ Acyclic(ComesAfter)

(***************************************************************************)
(* In the layers no node stands before one it comes after, and none stands *)
(* in two of them.                                                         *)
(***************************************************************************)
LayersFollowEdges ==
    \A i, j \in DOMAIN layers : \A n \in layers[i], m \in layers[j] :
        /\ m \in Predecessors(p, n) => j < i
        /\ m = n => j = i

(***************************************************************************)
(* Both loops end, whatever the definition.                                *)
(***************************************************************************)
Decides == <>Decided
===============================================================================
