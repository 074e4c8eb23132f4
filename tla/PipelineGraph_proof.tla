-------------------------- MODULE PipelineGraph_proof --------------------------
(***************************************************************************)
(* For any finite set of nodes and any pipelines over it: the search finds *)
(* exactly the cycles of next nodes, and the sort, which only counts       *)
(* edges, finds the layers of the graph; neither goes on for ever.         *)
(***************************************************************************)
EXTENDS PipelineGraph, FiniteSetTheorems, SequenceTheorems,
        NaturalsInduction, WellFoundedInduction, TLAPS

(* The nodes whose search is over. *)
Finished == visited \ OnStack

(* From a node that is finished one comes to finished nodes only, and       *)
(* there is no cycle among them.                                            *)
FinishedIsClosed == \A n \in Finished : p.next[n] \subseteq Finished
FinishedIsAcyclic ==
    \A S \in (SUBSET Finished) \ {{}} : \E n \in S : p.next[n] \cap S = {}

(* The stack is a path without repetition, and of a node on it those next   *)
(* nodes are left that are not finished, apart from the one above it.       *)
Path == \A i \in DOMAIN stack :
            /\ stack[i].node \in visited
            /\ \A j \in DOMAIN stack : stack[i].node = stack[j].node => i = j
            /\ stack[i].rest \subseteq p.next[stack[i].node]
            /\ i < Len(stack) => stack[i + 1].node \in p.next[stack[i].node]
            /\ \A n \in p.next[stack[i].node] \ stack[i].rest :
                   n \in Finished \/ (i < Len(stack) /\ n = stack[i + 1].node)

Searching == phase = "detect" => FinishedIsClosed /\ FinishedIsAcyclic /\ Path

NextCycle == \E S \in (SUBSET Nodes) \ {{}} : \A n \in S : p.next[n] \cap S # {}

Found == /\ phase = "rejected" => NextCycle
         /\ phase \in {"sort", "sorted", "failed"} => ~ NextCycle

(* What the sort keeps in inDegree: the edges from nodes not yet processed. *)
Left(n, S) == Cardinality(p.depends[n] \ S)
                  + Cardinality({m \in Nodes \ S : n \in NextEdges(p, m)})

Counted == phase \in {"sort", "sorted", "failed"} =>
               \A n \in Nodes : inDegree[n] = Left(n, Processed)

Unsorted == phase \in {"detect", "rejected"} =>
                layers = <<>> /\ \A n \in Nodes : inDegree[n] = 0

(* What is processed is closed under predecessors. *)
Below == \A n \in Processed : Predecessors(p, n) \subseteq Processed

EdgeCycle == \E S \in (SUBSET Nodes) \ {{}} : \A n \in S : Predecessors(p, n) \cap S # {}

Types == /\ p \in Pipelines
         /\ phase \in {"detect", "rejected", "sort", "sorted", "failed"}
         /\ visited \subseteq Nodes
         /\ stack \in Seq(Frame)
         /\ inDegree \in [Nodes -> Nat]
         /\ layers \in Seq(SUBSET Nodes)

Sorting == /\ Counted /\ Unsorted /\ Below /\ LayersFollowEdges
           /\ phase = "failed" => EdgeCycle

IInv == Types /\ Searching /\ Found /\ Sorting

-------------------------------------------------------------------------------
(* Lemmas about pipelines and the counts of their edges *)

LEMMA PipelineTypes ==
  ASSUME Types
  PROVE  /\ p.depends \in [Nodes -> SUBSET Nodes]
         /\ p.next \in [Nodes -> SUBSET Nodes]
         /\ \A n \in Nodes : /\ NextEdges(p, n) \subseteq Nodes
                             /\ Predecessors(p, n) \subseteq Nodes
<1>1. p \in [depends : [Nodes -> SUBSET Nodes], next : [Nodes -> SUBSET Nodes]]
  BY PipelinesAssumption DEF Types
<1> QED BY <1>1 DEF NextEdges, Predecessors

LEMMA ProcessedIsNodes == Types => Processed \subseteq Nodes
BY DEF Types, Processed

LEMMA LeftTypes ==
  ASSUME Types, NEW n \in Nodes, NEW S
  PROVE  /\ IsFiniteSet(p.depends[n] \ S)
         /\ IsFiniteSet({m \in Nodes \ S : n \in NextEdges(p, m)})
         /\ Left(n, S) \in 0 .. 2 * Cardinality(Nodes)
<1> DEFINE D == p.depends[n] \ S
           E == {m \in Nodes \ S : n \in NextEdges(p, m)}
<1>1. D \subseteq Nodes /\ E \subseteq Nodes BY PipelineTypes
<1>2. /\ IsFiniteSet(D) /\ Cardinality(D) <= Cardinality(Nodes)
      /\ IsFiniteSet(E) /\ Cardinality(E) <= Cardinality(Nodes)
  BY <1>1, NodesAssumption, FS_Subset
<1>3. Cardinality(D) \in Nat /\ Cardinality(E) \in Nat /\ Cardinality(Nodes) \in Nat
  BY <1>2, NodesAssumption, FS_CardinalityType
<1>4. Left(n, S) = Cardinality(D) + Cardinality(E) BY DEF Left
<1> QED BY <1>2, <1>3, <1>4

(* Nothing is left of a node's edges when all it comes after is processed. *)
LEMMA NothingLeft ==
  ASSUME Types, NEW n \in Nodes, NEW S
  PROVE  Left(n, S) = 0 <=> Predecessors(p, n) \subseteq S
<1> DEFINE D == p.depends[n] \ S
           E == {m \in Nodes \ S : n \in NextEdges(p, m)}
<1>1. IsFiniteSet(D) /\ IsFiniteSet(E) BY LeftTypes
<1>2. Cardinality(D) \in Nat /\ Cardinality(E) \in Nat BY <1>1, FS_CardinalityType
<1>3. (Cardinality(D) = 0 <=> D = {}) /\ (Cardinality(E) = 0 <=> E = {})
  BY <1>1, FS_EmptySet
<1>4. Left(n, S) = 0 <=> Cardinality(D) = 0 /\ Cardinality(E) = 0
  <2>1. Left(n, S) = Cardinality(D) + Cardinality(E) BY DEF Left
  <2> QED BY <2>1, <1>2
<1>5. D = {} /\ E = {} <=> Predecessors(p, n) \subseteq S
  BY DEF Predecessors
<1> QED BY <1>3, <1>4, <1>5

(* Counting off the edges from a new layer. *)
LEMMA CountingOff ==
  ASSUME Types, NEW n \in Nodes, NEW S, NEW L \in SUBSET Nodes, L \cap S = {}
  PROVE  Left(n, S) - EdgesFrom(L, n) = Left(n, S \cup L)
<1> DEFINE D == p.depends[n] \ S
           E == {m \in Nodes \ S : n \in NextEdges(p, m)}
           DL == p.depends[n] \cap L
           EL == {m \in L : n \in NextEdges(p, m)}
           DR == p.depends[n] \ (S \cup L)
           ER == {m \in Nodes \ (S \cup L) : n \in NextEdges(p, m)}
<1>1. IsFiniteSet(D) /\ IsFiniteSet(E) /\ IsFiniteSet(DR) /\ IsFiniteSet(ER)
  BY LeftTypes
<1>2. D \cap L = DL /\ D \ L = DR /\ E \cap L = EL /\ E \ L = ER
  OBVIOUS
<1>3. /\ Cardinality(D \ L) = Cardinality(D) - Cardinality(D \cap L)
      /\ Cardinality(E \ L) = Cardinality(E) - Cardinality(E \cap L)
  BY <1>1, FS_Difference
<1>4. /\ Cardinality(DR) = Cardinality(D) - Cardinality(DL)
      /\ Cardinality(ER) = Cardinality(E) - Cardinality(EL)
  BY <1>2, <1>3
<1>5. /\ IsFiniteSet(DL) /\ IsFiniteSet(EL)
  <2>1. DL \subseteq D /\ EL \subseteq E BY <1>2
  <2> QED BY <2>1, <1>1, FS_Subset
<1>6. /\ Cardinality(D) \in Nat /\ Cardinality(E) \in Nat
      /\ Cardinality(DL) \in Nat /\ Cardinality(EL) \in Nat
  BY <1>1, <1>5, FS_CardinalityType
<1>7. /\ Left(n, S) = Cardinality(D) + Cardinality(E)
      /\ EdgesFrom(L, n) = Cardinality(DL) + Cardinality(EL)
      /\ Left(n, S \cup L) = Cardinality(DR) + Cardinality(ER)
  BY DEF Left, EdgesFrom
<1> HIDE DEF D, E, DL, EL, DR, ER
<1> QED BY <1>4, <1>6, <1>7

LEMMA LayerFound ==
  ASSUME Types, Counted, phase \in {"sort", "sorted", "failed"}
  PROVE  CurrentLayer = Layer(p, Processed)
<1>1. \A n \in Nodes : inDegree[n] = 0 <=> Predecessors(p, n) \subseteq Processed
  BY NothingLeft DEF Counted
<1> QED BY <1>1 DEF CurrentLayer, Layer

-------------------------------------------------------------------------------
(* The search *)

LEMMA InitIsGood == Init => IInv
<1> SUFFICES ASSUME Init PROVE IInv OBVIOUS
<1>1. Types BY DEF Init, Types
<1>2. Searching /\ Found
  <2>1. visited = {} /\ stack = <<>> /\ phase = "detect" BY DEF Init
  <2>2. DOMAIN stack = {} BY <2>1
  <2>3. Finished = {} BY <2>1 DEF Finished
  <2> QED BY <2>1, <2>2, <2>3 DEF Searching, Found, FinishedIsClosed, FinishedIsAcyclic, Path
<1>3. layers = <<>> /\ Processed = {} BY DEF Init, Processed
<1>4. Sorting
  <2>1. DOMAIN layers = {} BY <1>3
  <2> QED BY <1>3, <2>1 DEF Init, Sorting, Counted, Unsorted, Below, LayersFollowEdges
<1> QED BY <1>1, <1>2, <1>4 DEF IInv

(* What a step of the search leaves alone. *)
LEMMA SearchSteps ==
  ASSUME IInv, phase = "detect", UNCHANGED <<p, inDegree, layers>>,
         phase' \in {"detect", "rejected"}
  PROVE  Sorting'
<1>1. layers = <<>> /\ \A n \in Nodes : inDegree[n] = 0
  BY DEF IInv, Sorting, Unsorted
<1>2. layers' = <<>> /\ Processed' = {} BY <1>1 DEF Processed
<1> QED BY <1>1, <1>2 DEF Sorting, Counted, Unsorted, Below, LayersFollowEdges

(* The stack when a next node is taken off the top one's rest. *)
Narrow(n) == [stack EXCEPT ![Len(stack)].rest = @ \ {n}]

LEMMA Narrowed ==
  ASSUME Types, stack # <<>>, NEW n
  PROVE  /\ Len(stack) \in Nat \ {0} /\ DOMAIN stack = 1 .. Len(stack)
         /\ Len(stack) \in 1 .. Len(stack)
         /\ Narrow(n) \in Seq(Frame) /\ Len(Narrow(n)) = Len(stack)
         /\ \A i \in 1 .. Len(stack) :
                /\ Narrow(n)[i].node = stack[i].node
                /\ i # Len(stack) => Narrow(n)[i].rest = stack[i].rest
         /\ Narrow(n)[Len(stack)].rest = stack[Len(stack)].rest \ {n}
<1> DEFINE k == Len(stack)
           e == [stack[k] EXCEPT !.rest = @ \ {n}]
<1>1. /\ stack \in Seq(Frame)
      /\ k \in Nat \ {0} /\ DOMAIN stack = 1 .. k /\ k \in 1 .. k
  BY DEF Types
<1>2. stack[k] \in Frame BY <1>1
<1>3. e \in Frame /\ e.node = stack[k].node /\ e.rest = stack[k].rest \ {n}
  BY <1>2 DEF Frame
<1>4. Narrow(n) = [stack EXCEPT ![k] = e] BY DEF Narrow
<1> HIDE DEF e
<1>5. /\ Narrow(n) \in Seq(Frame) /\ Len(Narrow(n)) = k
      /\ \A i \in 1 .. k : Narrow(n)[i] = IF i = k THEN e ELSE stack[i]
  BY <1>1, <1>3, <1>4, ExceptSeq
<1> QED BY <1>1, <1>3, <1>5

LEMMA EnterKeeps ==
  ASSUME IInv, NEW n \in Nodes, Enter(n)
  PROVE  IInv'
<1>1. p.next \in [Nodes -> SUBSET Nodes] BY PipelineTypes DEF IInv
<1>2. stack' = <<[node |-> n, rest |-> p.next[n]]>>
  BY DEF Enter, Pushed
<1>3. Types'
  <2>1. [node |-> n, rest |-> p.next[n]] \in Frame BY <1>1 DEF Frame
  <2>2. stack' \in Seq(Frame) BY <1>2, <2>1
  <2> QED BY <2>2 DEF IInv, Types, Enter
<1>4. OnStack = {} /\ OnStack' = {n} BY <1>2 DEF OnStack, Enter
<1>5. Finished' = Finished BY <1>4 DEF Finished, Enter
<1>6. Path'
  <2>1. DOMAIN stack' = {1} /\ Len(stack') = 1 BY <1>2
  <2>2. stack'[1].node = n /\ stack'[1].rest = p.next[n] BY <1>2
  <2>3. n \in visited' /\ p' = p BY DEF Enter
  <2> QED BY <2>1, <2>2, <2>3 DEF Path
<1>7. Searching'
  BY <1>5, <1>6 DEF IInv, Searching, FinishedIsClosed, FinishedIsAcyclic, Enter
<1>8. Found' BY DEF Found, Enter
<1>9. Sorting' BY SearchSteps DEF Enter
<1> QED BY <1>3, <1>7, <1>8, <1>9 DEF IInv

(* A next node that is new is searched before the rest. *)
LEMMA FollowNewKeeps ==
  ASSUME IInv, NEW n \in Nodes, Follow(n), n \notin visited
  PROVE  IInv'
<1> DEFINE k == Len(stack)
           new == [node |-> n, rest |-> p.next[n]]
<1>1. /\ phase = "detect" /\ phase' = "detect" /\ UNCHANGED <<p, inDegree, layers>>
      /\ visited' = visited \cup {n}
      /\ stack' = Append(Narrow(n), new)
  BY DEF Follow, Pushed, Narrow
<1>2. /\ p.next \in [Nodes -> SUBSET Nodes] /\ Types
      /\ stack # <<>> /\ n \in stack[k].rest
  BY PipelineTypes DEF IInv, Types, Follow, Top
<1>3. k \in Nat \ {0} /\ DOMAIN stack = 1 .. k /\ k \in 1 .. k BY <1>2, Narrowed
<1>4. /\ Narrow(n) \in Seq(Frame) /\ Len(Narrow(n)) = k
      /\ \A i \in 1 .. k : /\ Narrow(n)[i].node = stack[i].node
                           /\ i # k => Narrow(n)[i].rest = stack[i].rest
      /\ Narrow(n)[k].rest = stack[k].rest \ {n}
  BY <1>2, Narrowed
<1>5. new \in Frame BY <1>2 DEF Frame
<1>6. /\ stack' \in Seq(Frame) /\ Len(stack') = k + 1
      /\ \A i \in 1 .. k : stack'[i] = Narrow(n)[i]
      /\ stack'[k + 1] = new
  <2> HIDE DEF k, new
  <2> QED BY <1>1, <1>4, <1>5, <1>3, AppendProperties
<1>8. stack'[k + 1].node = n /\ stack'[k + 1].rest = p.next[n] BY <1>6
<1>9. \A i \in 1 .. k : /\ stack'[i].node = stack[i].node
                        /\ i # k => stack'[i].rest = stack[i].rest
  BY <1>4, <1>6
<1>10. stack'[k].rest = stack[k].rest \ {n}
  BY <1>3, <1>4, <1>6
<1>11. DOMAIN stack = 1 .. k /\ DOMAIN stack' = 1 .. k + 1
  BY <1>3, <1>6
<1> HIDE DEF k, new
<1>12. OnStack' = OnStack \cup {n}
  <2>1. \A i \in 1 .. k + 1 : i \in 1 .. k \/ i = k + 1 BY <1>3
  <2>2. \A i \in 1 .. k : i \in 1 .. k + 1 BY <1>3
  <2>3. k + 1 \in 1 .. k + 1 BY <1>3
  <2> QED BY <2>1, <2>2, <2>3, <1>8, <1>9, <1>11 DEF OnStack
<1>13. Finished' = Finished BY <1>1, <1>12 DEF Finished
<1>14. Types' BY <1>1, <1>6 DEF IInv, Types
<1>15. Path BY <1>1 DEF IInv, Searching
<1>16. \A i \in 1 .. k : stack[i].node \in visited BY <1>15, <1>11 DEF Path
<1>17. Path'
  <2> SUFFICES ASSUME NEW i \in 1 .. k + 1
               PROVE  /\ stack'[i].node \in visited'
                      /\ \A j \in 1 .. k + 1 : stack'[i].node = stack'[j].node => i = j
                      /\ stack'[i].rest \subseteq p.next[stack'[i].node]
                      /\ i < k + 1 => stack'[i + 1].node \in p.next[stack'[i].node]
                      /\ \A m \in p.next[stack'[i].node] \ stack'[i].rest :
                             m \in Finished \/ (i < k + 1 /\ m = stack'[i + 1].node)
    BY <1>1, <1>6, <1>11, <1>13 DEF Path
  <2>1. CASE i = k + 1
    <3>1. stack'[i].node = n /\ stack'[i].rest = p.next[n] BY <2>1, <1>8
    <3>2. \A j \in 1 .. k : stack'[j].node # n
      BY <1>9, <1>16
    <3>3. \A j \in 1 .. k + 1 : j \in 1 .. k \/ j = k + 1 BY <1>3
    <3>4. ~ (i < k + 1) BY <2>1, <1>3
    <3> QED BY <3>1, <3>2, <3>3, <3>4, <2>1, <1>1
  <2>2. CASE i \in 1 .. k
    <3>1. stack'[i].node = stack[i].node /\ stack[i].node \in visited
      BY <2>2, <1>9, <1>16
    <3>2. \A j \in 1 .. k + 1 : stack'[i].node = stack'[j].node => i = j
      <4>1. \A j \in 1 .. k : stack'[i].node = stack'[j].node => i = j
        BY <2>2, <1>9, <1>11, <1>15 DEF Path
      <4>2. \A j \in 1 .. k + 1 : j \in 1 .. k \/ j = k + 1 BY <1>3
      <4> QED BY <4>1, <4>2, <3>1, <1>8
    <3>3. CASE i = k
      <4>1. stack'[i].rest = stack[k].rest \ {n} /\ stack'[i + 1].node = n
        BY <3>3, <1>8, <1>10
      <4>2. stack[k].rest \subseteq p.next[stack[k].node]
        BY <1>3, <1>11, <1>15 DEF Path
      <4>3. \A m \in p.next[stack[k].node] \ stack[k].rest : m \in Finished
        BY <1>3, <1>11, <1>15 DEF Path, k
      <4>4. i < k + 1 BY <3>3, <1>3
      <4> QED BY <4>1, <4>2, <4>3, <4>4, <3>1, <3>2, <3>3, <1>1, <1>2
    <3>4. CASE i # k
      <4>1. i < k /\ i < k + 1 /\ i + 1 \in 1 .. k BY <3>4, <2>2, <1>3
      <4>2. stack'[i].rest = stack[i].rest /\ stack'[i + 1].node = stack[i + 1].node
        BY <4>1, <3>4, <2>2, <1>9
      <4>3. /\ stack[i].rest \subseteq p.next[stack[i].node]
            /\ stack[i + 1].node \in p.next[stack[i].node]
            /\ \A m \in p.next[stack[i].node] \ stack[i].rest :
                   m \in Finished \/ m = stack[i + 1].node
        BY <4>1, <2>2, <1>11, <1>15 DEF Path, k
      <4> QED BY <4>1, <4>2, <4>3, <3>1, <3>2, <1>1
    <3> QED BY <3>3, <3>4
  <2> QED BY <2>1, <2>2, <1>3
<1>18. Searching'
  BY <1>1, <1>13, <1>17 DEF IInv, Searching, FinishedIsClosed, FinishedIsAcyclic
<1>19. Found' BY <1>1 DEF Found
<1>20. Sorting' BY <1>1, SearchSteps
<1> QED BY <1>14, <1>18, <1>19, <1>20 DEF IInv

(* One whose search is over is passed. *)
LEMMA FollowOldKeeps ==
  ASSUME IInv, NEW n \in Nodes, Follow(n), n \in visited, n \notin OnStack
  PROVE  IInv'
<1> DEFINE k == Len(stack)
<1>1. /\ phase = "detect" /\ phase' = "detect" /\ UNCHANGED <<p, inDegree, layers, visited>>
      /\ stack' = Narrow(n)
  BY DEF Follow, Narrow
<1>2. /\ Types /\ stack # <<>> /\ n \in stack[k].rest
  BY DEF IInv, Follow, Top
<1>3. k \in Nat \ {0} /\ DOMAIN stack = 1 .. k /\ k \in 1 .. k BY <1>2, Narrowed
<1>4. /\ stack' \in Seq(Frame) /\ Len(stack') = k
      /\ \A i \in 1 .. k : /\ stack'[i].node = stack[i].node
                           /\ i # k => stack'[i].rest = stack[i].rest
      /\ stack'[k].rest = stack[k].rest \ {n}
  BY <1>1, <1>2, Narrowed
<1>5. DOMAIN stack' = 1 .. k BY <1>4
<1> HIDE DEF k
<1>6. OnStack' = OnStack BY <1>3, <1>4, <1>5 DEF OnStack
<1>7. Finished' = Finished /\ n \in Finished BY <1>1, <1>6 DEF Finished
<1>8. Types' BY <1>1, <1>4 DEF IInv, Types
<1>9. Path BY <1>1 DEF IInv, Searching
<1>10. Path'
  <2> SUFFICES ASSUME NEW i \in 1 .. k
               PROVE  /\ stack'[i].node \in visited'
                      /\ \A j \in 1 .. k : stack'[i].node = stack'[j].node => i = j
                      /\ stack'[i].rest \subseteq p.next[stack'[i].node]
                      /\ i < k => stack'[i + 1].node \in p.next[stack'[i].node]
                      /\ \A m \in p.next[stack'[i].node] \ stack'[i].rest :
                             m \in Finished \/ (i < k /\ m = stack'[i + 1].node)
    BY <1>1, <1>4, <1>5, <1>7 DEF Path
  <2>1. /\ stack[i].node \in visited
        /\ \A j \in 1 .. k : stack[i].node = stack[j].node => i = j
        /\ stack[i].rest \subseteq p.next[stack[i].node]
        /\ i < k => stack[i + 1].node \in p.next[stack[i].node]
        /\ \A m \in p.next[stack[i].node] \ stack[i].rest :
               m \in Finished \/ (i < k /\ m = stack[i + 1].node)
    BY <1>9, <1>3 DEF Path, k
  <2>2. i < k => i + 1 \in 1 .. k BY <1>3
  <2>3. stack'[i].node = stack[i].node /\ (i < k => stack'[i + 1].node = stack[i + 1].node)
    BY <1>4, <2>2
  <2>4. stack'[i].rest = IF i = k THEN stack[i].rest \ {n} ELSE stack[i].rest
    BY <1>4
  <2>5. \A j \in 1 .. k : stack'[j].node = stack[j].node BY <1>4
  <2> QED BY <2>1, <2>3, <2>4, <2>5, <1>1, <1>7
<1>11. Searching'
  BY <1>1, <1>7, <1>10 DEF IInv, Searching, FinishedIsClosed, FinishedIsAcyclic
<1>12. Found' BY <1>1 DEF Found
<1>13. Sorting' BY <1>1, SearchSteps
<1> QED BY <1>8, <1>11, <1>12, <1>13 DEF IInv

(* One that is on the stack closes a cycle of what lies above it. *)
LEMMA FollowBackKeeps ==
  ASSUME IInv, NEW n \in Nodes, Follow(n), n \in visited, n \in OnStack
  PROVE  IInv'
<1> DEFINE k == Len(stack)
<1>1. /\ phase = "detect" /\ phase' = "rejected"
      /\ UNCHANGED <<p, inDegree, layers, visited, stack>>
  BY DEF Follow
<1>2. Types /\ stack # <<>> /\ n \in stack[k].rest /\ Path
  BY <1>1 DEF IInv, Searching, Follow, Top
<1>3. k \in Nat \ {0} /\ DOMAIN stack = 1 .. k /\ k \in 1 .. k BY <1>2, Narrowed
<1>4. PICK i \in 1 .. k : stack[i].node = n BY <1>3 DEF OnStack
<1> DEFINE S == {stack[j].node : j \in i .. k}
<1>5. S \in (SUBSET Nodes) \ {{}}
  <2>1. \A j \in 1 .. k : stack[j].node \in Nodes
    <3>1. \A j \in 1 .. k : stack[j] \in Frame BY <1>2, <1>3 DEF Types
    <3> QED BY <3>1 DEF Frame
  <2>2. \A j \in i .. k : j \in 1 .. k BY <1>3
  <2>3. k \in i .. k BY <1>3
  <2> QED BY <2>1, <2>2, <2>3
<1>6. \A m \in S : p.next[m] \cap S # {}
  <2> SUFFICES ASSUME NEW j \in i .. k
               PROVE  \E m \in p.next[stack[j].node] : m \in S
    OBVIOUS
  <2>1. j \in 1 .. k BY <1>3
  <2>2. CASE j = k
    <3>1. i \in i .. k BY <1>3
    <3>2. n \in S BY <3>1, <1>4
    <3>3. n \in p.next[stack[k].node] BY <1>2, <1>3 DEF Path
    <3> QED BY <2>2, <3>2, <3>3
  <2>3. CASE j # k
    <3>1. j < k /\ j + 1 \in i .. k
      <4> HIDE DEF k
      <4> QED BY <2>1, <2>3, <1>3
    <3>2. stack[j + 1].node \in p.next[stack[j].node] BY <3>1, <2>1, <1>2, <1>3 DEF Path
    <3> QED BY <3>1, <3>2
  <2> QED BY <2>2, <2>3
<1>7. NextCycle BY <1>5, <1>6 DEF NextCycle
<1>8. Found' BY <1>1, <1>7 DEF Found, NextCycle
<1>9. Types' /\ Searching' BY <1>1, <1>2 DEF Types, Searching
<1>10. Sorting' BY <1>1, SearchSteps
<1> QED BY <1>8, <1>9, <1>10 DEF IInv

(* A node whose next nodes are all finished is finished. *)
LEMMA BacktrackKeeps ==
  ASSUME IInv, Backtrack
  PROVE  IInv'
<1> DEFINE k == Len(stack)
           top == stack[k].node
<1>1. /\ phase = "detect" /\ phase' = "detect" /\ UNCHANGED <<p, inDegree, layers, visited>>
      /\ stack' = SubSeq(stack, 1, k - 1)
  BY DEF Backtrack
<1>2. /\ Types /\ stack # <<>> /\ stack[k].rest = {} /\ Path
      /\ FinishedIsClosed /\ FinishedIsAcyclic
  BY <1>1 DEF IInv, Searching, Backtrack, Top
<1>3. k \in Nat \ {0} /\ DOMAIN stack = 1 .. k /\ k \in 1 .. k BY <1>2, Narrowed
<1>4. \A i \in 1 .. k - 1 : i \in 1 .. k /\ stack[i] \in Frame
  BY <1>2, <1>3 DEF Types
<1>5. /\ stack' \in Seq(Frame) /\ Len(stack') = k - 1
      /\ \A i \in 1 .. k - 1 : stack'[i] = stack[i]
  <2>1. 1 \in Int /\ k - 1 \in Int BY <1>3
  <2>2. /\ stack' \in Seq(Frame)
        /\ Len(stack') = IF 1 <= k - 1 THEN (k - 1) - 1 + 1 ELSE 0
        /\ \A i \in 1 .. (k - 1) - 1 + 1 : stack'[i] = stack[1 + i - 1]
    <3> HIDE DEF k
    <3> QED BY ONLY <1>1, <1>4, <2>1, SubSeqProperties
  <2>3. (IF 1 <= k - 1 THEN (k - 1) - 1 + 1 ELSE 0) = k - 1 BY <1>3
  <2>4. \A i \in 1 .. k - 1 : i \in 1 .. (k - 1) - 1 + 1 /\ 1 + i - 1 = i BY <1>3
  <2> QED BY <2>2, <2>3, <2>4
<1>6. DOMAIN stack' = 1 .. k - 1 BY <1>5
<1>7. /\ \A i \in 1 .. k : i \in 1 .. k - 1 \/ i = k
      /\ k \notin 1 .. k - 1
  <2> HIDE DEF k
  <2> QED BY <1>3
<1>9. \A i \in 1 .. k : /\ stack[i].node \in visited
                        /\ \A j \in 1 .. k : stack[i].node = stack[j].node => i = j
  BY <1>2, <1>3 DEF Path
<1>10. top \in visited /\ top \in OnStack BY <1>3, <1>9 DEF OnStack
<1>11. p.next[top] \subseteq Finished
  <2>1. ~ (k < k) BY <1>3
  <2> QED BY <1>2, <1>3, <2>1 DEF Path
<1>12. \A i \in 1 .. k - 1 : stack[i].node # top
  BY <1>3, <1>4, <1>7, <1>9
<1> HIDE DEF k, top
<1>13. OnStack' = OnStack \ {top}
  <2>1. \A m \in OnStack' : m \in OnStack \ {top}
    BY <1>3, <1>4, <1>5, <1>6, <1>12 DEF OnStack
  <2>2. \A m \in OnStack \ {top} : m \in OnStack'
    BY <1>3, <1>5, <1>6, <1>7 DEF OnStack, top
  <2> QED BY <2>1, <2>2
<1>14. Finished' = Finished \cup {top} /\ top \notin Finished
  BY <1>1, <1>10, <1>13 DEF Finished
<1>15. Types' BY <1>1, <1>5 DEF IInv, Types
<1>16. FinishedIsClosed'
  BY <1>1, <1>2, <1>11, <1>14 DEF FinishedIsClosed
<1>17. FinishedIsAcyclic'
  <2> SUFFICES ASSUME NEW S \in (SUBSET Finished') \ {{}}
               PROVE  \E n \in S : p.next[n] \cap S = {}
    BY <1>1 DEF FinishedIsAcyclic
  <2>1. CASE S \subseteq {top}
    <3>1. top \in S BY <2>1
    <3> QED BY <3>1, <2>1, <1>11, <1>14
  <2>2. CASE ~ (S \subseteq {top})
    <3>1. S \ {top} \in (SUBSET Finished) \ {{}} BY <2>2, <1>14
    <3>2. PICK n \in S \ {top} : p.next[n] \cap (S \ {top}) = {}
      BY <3>1, <1>2 DEF FinishedIsAcyclic
    <3>3. p.next[n] \subseteq Finished BY <3>1, <1>2 DEF FinishedIsClosed
    <3> QED BY <3>2, <3>3, <1>14
  <2> QED BY <2>1, <2>2
<1>18. Path'
  <2> SUFFICES ASSUME NEW i \in 1 .. k - 1
               PROVE  /\ stack'[i].node \in visited'
                      /\ \A j \in 1 .. k - 1 : stack'[i].node = stack'[j].node => i = j
                      /\ stack'[i].rest \subseteq p.next[stack'[i].node]
                      /\ i < k - 1 => stack'[i + 1].node \in p.next[stack'[i].node]
                      /\ \A m \in p.next[stack'[i].node] \ stack'[i].rest :
                             m \in Finished' \/ (i < k - 1 /\ m = stack'[i + 1].node)
    BY <1>1, <1>5, <1>6 DEF Path
  <2>1. i \in 1 .. k /\ i < k BY <1>3
  <2>2. /\ stack[i].rest \subseteq p.next[stack[i].node]
        /\ stack[i + 1].node \in p.next[stack[i].node]
        /\ \A m \in p.next[stack[i].node] \ stack[i].rest :
               m \in Finished \/ m = stack[i + 1].node
    BY <2>1, <1>2, <1>3 DEF Path, k
  <2>3. i + 1 \in 1 .. k - 1 \/ i + 1 = k BY <1>3
  <2>4. i < k - 1 <=> i + 1 # k BY <1>3
  <2>5. stack'[i] = stack[i] /\ (i + 1 # k => stack'[i + 1] = stack[i + 1])
    BY <1>5, <2>3
  <2>6. i + 1 = k => stack[i + 1].node \in Finished' BY <1>14 DEF top
  <2>7. \A j \in 1 .. k - 1 : stack'[i].node = stack'[j].node => i = j
    BY <1>4, <1>5, <1>9
  <2> QED BY <2>1, <2>2, <2>4, <2>5, <2>6, <2>7, <1>1, <1>9, <1>14
<1>19. Searching' BY <1>16, <1>17, <1>18 DEF Searching
<1>20. Found' BY <1>1 DEF Found
<1>21. Sorting' BY <1>1, SearchSteps
<1> QED BY <1>15, <1>19, <1>20, <1>21 DEF IInv

-------------------------------------------------------------------------------
(* The sort *)

(* Every node was searched: there is no cycle. *)
LEMMA AcceptKeeps ==
  ASSUME IInv, Accept
  PROVE  IInv'
<1>1. /\ phase = "detect" /\ stack = <<>> /\ visited = Nodes /\ phase' = "sort"
      /\ inDegree' = [n \in Nodes |-> InDegree(p, n)]
      /\ UNCHANGED <<p, visited, stack, layers>>
  BY DEF Accept
<1>2. Finished = Nodes
  <2>1. DOMAIN stack = {} BY <1>1
  <2>2. OnStack = {} BY <2>1 DEF OnStack
  <2> QED BY <1>1, <2>2 DEF Finished
<1>3. ~ NextCycle
  <2>1. FinishedIsAcyclic BY <1>1 DEF IInv, Searching
  <2> QED BY <1>2, <2>1 DEF FinishedIsAcyclic, NextCycle
<1>4. layers = <<>> /\ Processed = {} /\ Processed' = {}
  <2>1. layers = <<>> BY <1>1 DEF IInv, Sorting, Unsorted
  <2>2. DOMAIN layers = {} BY <2>1
  <2> QED BY <1>1, <2>1, <2>2 DEF Processed
<1>5. \A n \in Nodes : InDegree(p, n) = Left(n, {}) /\ InDegree(p, n) \in Nat
  <2> SUFFICES ASSUME NEW n \in Nodes
               PROVE  InDegree(p, n) = Left(n, {}) /\ InDegree(p, n) \in Nat
    OBVIOUS
  <2>1. p.depends[n] \ {} = p.depends[n] /\ Nodes \ {} = Nodes OBVIOUS
  <2>2. Left(n, {}) = InDegree(p, n) BY <2>1 DEF Left, InDegree
  <2>3. Left(n, {}) \in 0 .. 2 * Cardinality(Nodes) BY LeftTypes DEF IInv
  <2> QED BY <2>2, <2>3
<1>6. Types' BY <1>1, <1>5 DEF IInv, Types
<1>7. Searching' /\ Found' BY <1>1, <1>3 DEF Searching, Found, NextCycle
<1>8. Counted' BY <1>1, <1>4, <1>5 DEF Counted, Left, NextEdges
<1>9. Sorting'
  <2>1. DOMAIN layers' = {} BY <1>1, <1>4
  <2> QED BY <1>1, <1>4, <1>8, <2>1 DEF Sorting, Unsorted, Below, LayersFollowEdges
<1> QED BY <1>6, <1>7, <1>9 DEF IInv

(* A layer is added: the counts are those of what is left then. *)
LEMMA LayerKeeps ==
  ASSUME IInv, AddLayer, CurrentLayer # {}
  PROVE  IInv'
<1> DEFINE k == Len(layers)
           C == CurrentLayer
<1>1. /\ phase = "sort" /\ phase' = "sort"
      /\ layers' = Append(layers, C)
      /\ inDegree' = [n \in Nodes |-> inDegree[n] - EdgesFrom(C, n)]
      /\ UNCHANGED <<p, visited, stack>>
  BY DEF AddLayer
<1>2. Types /\ Counted /\ Below /\ LayersFollowEdges
  BY DEF IInv, Sorting
<1>3. C = Layer(p, Processed) BY <1>1, <1>2, LayerFound
<1>4. /\ C \subseteq Nodes /\ C \cap Processed = {}
      /\ \A n \in C : Predecessors(p, n) \subseteq Processed
  BY <1>3 DEF Layer
<1>5. k \in Nat /\ DOMAIN layers = 1 .. k /\ layers \in Seq(SUBSET Nodes)
  BY <1>2 DEF Types
<1> HIDE DEF C
<1>6. /\ layers' \in Seq(SUBSET Nodes) /\ Len(layers') = k + 1
      /\ \A i \in 1 .. k : layers'[i] = layers[i]
      /\ layers'[k + 1] = C
  BY <1>1, <1>4, <1>5, AppendProperties
<1> HIDE DEF k
<1>7. DOMAIN layers' = 1 .. k + 1 BY <1>6
<1>8. /\ \A i \in 1 .. k + 1 : i \in 1 .. k \/ i = k + 1
      /\ \A i \in 1 .. k : i \in 1 .. k + 1
      /\ k + 1 \in 1 .. k + 1
  BY <1>5
<1>9. Processed' = Processed \cup C
  <2>1. \A n \in Processed' : n \in Processed \cup C
    BY <1>5, <1>6, <1>7, <1>8 DEF Processed
  <2>2. \A n \in Processed : n \in Processed'
    BY <1>5, <1>6, <1>7, <1>8 DEF Processed
  <2>3. \A n \in C : n \in Processed'
    BY <1>6, <1>7, <1>8 DEF Processed
  <2> QED BY <2>1, <2>2, <2>3
<1>10. \A n \in Nodes : /\ inDegree'[n] = Left(n, Processed \cup C)
                        /\ Left(n, Processed \cup C) \in Nat
  <2> SUFFICES ASSUME NEW n \in Nodes
               PROVE  /\ inDegree'[n] = Left(n, Processed \cup C)
                      /\ Left(n, Processed \cup C) \in Nat
    OBVIOUS
  <2>1. inDegree'[n] = inDegree[n] - EdgesFrom(C, n) BY <1>1
  <2>2. inDegree[n] = Left(n, Processed) BY <1>1, <1>2 DEF Counted
  <2>3. Left(n, Processed) - EdgesFrom(C, n) = Left(n, Processed \cup C)
    BY <1>2, <1>4, CountingOff
  <2>4. Left(n, Processed \cup C) \in 0 .. 2 * Cardinality(Nodes)
    BY <1>2, LeftTypes
  <2> QED BY <2>1, <2>2, <2>3, <2>4
<1>11. Types'
  <2>1. inDegree' \in [Nodes -> Nat] BY <1>1, <1>10
  <2> QED BY <1>1, <1>2, <1>6, <2>1 DEF Types
<1>12. Counted'
  <2>1. \A n \in Nodes : Left(n, Processed)' = Left(n, Processed \cup C)
    BY <1>1, <1>9 DEF Left, NextEdges
  <2> QED BY <1>10, <2>1 DEF Counted
<1>13. Below' BY <1>1, <1>2, <1>4, <1>9 DEF Below, Predecessors, NextEdges
<1>14. LayersFollowEdges'
  <2>0. \A n : Predecessors(p, n)' = Predecessors(p, n)
    BY <1>1 DEF Predecessors, NextEdges
  <2> SUFFICES ASSUME NEW i \in 1 .. k + 1, NEW j \in 1 .. k + 1,
                      NEW n \in layers'[i], NEW m \in layers'[j]
               PROVE  /\ m \in Predecessors(p, n) => j < i
                      /\ m = n => j = i
    BY <2>0, <1>7 DEF LayersFollowEdges
  <2>1. CASE i \in 1 .. k /\ j \in 1 .. k
    BY <2>1, <1>2, <1>5, <1>6 DEF LayersFollowEdges
  <2>2. CASE i = k + 1 /\ j \in 1 .. k
    <3>1. n \in C /\ m \in Processed BY <2>2, <1>5, <1>6 DEF Processed
    <3>2. j < i BY <2>2, <1>5
    <3> QED BY <3>1, <3>2, <1>4
  <2>3. CASE i \in 1 .. k /\ j = k + 1
    <3>1. m \in C /\ n \in Processed BY <2>3, <1>5, <1>6 DEF Processed
    <3> QED BY <3>1, <1>2, <1>4 DEF Below
  <2>4. CASE i = k + 1 /\ j = k + 1
    <3>1. n \in C /\ m \in C BY <2>4, <1>6
    <3>2. m \notin Predecessors(p, n) BY <3>1, <1>4
    <3> QED BY <2>4, <3>2
  <2> QED BY <2>1, <2>2, <2>3, <2>4, <1>8
<1>15. Sorting' BY <1>1, <1>12, <1>13, <1>14 DEF Sorting, Unsorted
<1>16. Searching' /\ Found'
  BY <1>1 DEF IInv, Searching, Found, NextCycle
<1> QED BY <1>11, <1>15, <1>16 DEF IInv

(* With the counts and the layers what is said of them stays true. *)
LEMMA SortUnchanged ==
  ASSUME UNCHANGED <<p, inDegree, layers>>
  PROVE  /\ Below => Below'
         /\ LayersFollowEdges => LayersFollowEdges'
         /\ EdgeCycle => EdgeCycle'
         /\ \A n \in Nodes : Left(n, Processed)' = Left(n, Processed)
<1>1. Processed' = Processed BY DEF Processed
<1>2. p' = p /\ layers' = layers OBVIOUS
<1>3. Below => Below' BY <1>1, <1>2 DEF Below, Predecessors, NextEdges
<1>4. LayersFollowEdges => LayersFollowEdges'
  BY <1>2 DEF LayersFollowEdges, Predecessors, NextEdges
<1>5. EdgeCycle => EdgeCycle'
  <2> SUFFICES ASSUME NEW S \in (SUBSET Nodes) \ {{}},
                      \A n \in S : Predecessors(p, n) \cap S # {}
               PROVE  EdgeCycle'
    BY DEF EdgeCycle
  <2>1. \A n \in S : Predecessors(p, n)' = Predecessors(p, n)
    BY <1>2 DEF Predecessors, NextEdges
  <2> QED BY <2>1 DEF EdgeCycle
<1>6. ASSUME NEW n \in Nodes PROVE Left(n, Processed)' = Left(n, Processed)
  <2>1. p'.depends[n] \ Processed' = p.depends[n] \ Processed BY <1>1, <1>2
  <2>2. {m \in Nodes \ Processed' : n \in NextEdges(p, m)'}
            = {m \in Nodes \ Processed : n \in NextEdges(p, m)}
    BY <1>1, <1>2 DEF NextEdges
  <2> QED BY <2>1, <2>2 DEF Left
<1> QED BY <1>3, <1>4, <1>5, <1>6

(* Without a layer, each node that is left comes after another one. *)
LEMMA FailingKeeps ==
  ASSUME IInv, AddLayer, CurrentLayer = {}
  PROVE  IInv'
<1>1. /\ phase = "sort" /\ phase' = "failed" /\ Processed # Nodes
      /\ UNCHANGED <<p, visited, stack, inDegree, layers>>
  BY DEF AddLayer
<1>2. Types /\ Counted /\ Below /\ LayersFollowEdges /\ Processed \subseteq Nodes
  BY ProcessedIsNodes DEF IInv, Sorting
<1>3. Layer(p, Processed) = {} BY <1>1, <1>2, LayerFound
<1>4. \A n \in Nodes : Predecessors(p, n) \subseteq Nodes BY <1>2, PipelineTypes
<1>5. EdgeCycle
  <2> DEFINE S == Nodes \ Processed
  <2>1. S \in (SUBSET Nodes) \ {{}} BY <1>1, <1>2
  <2>2. \A n \in S : Predecessors(p, n) \cap S # {} BY <1>3, <1>4 DEF Layer
  <2> QED BY <2>1, <2>2 DEF EdgeCycle
<1>7. Sorting'
  <2>1. Below' /\ LayersFollowEdges' /\ EdgeCycle' BY <1>1, <1>2, <1>5, SortUnchanged
  <2>2. Counted' BY <1>1, <1>2, SortUnchanged DEF Counted
  <2>3. Unsorted' BY <1>1 DEF Unsorted
  <2> QED BY <2>1, <2>2, <2>3 DEF Sorting
<1>8. Types' /\ Searching' /\ Found'
  BY <1>1 DEF IInv, Types, Searching, Found, NextCycle
<1> QED BY <1>7, <1>8 DEF IInv

(* The last steps change the phase at most. *)
LEMMA EndKeeps ==
  ASSUME IInv, UNCHANGED <<p, visited, stack, inDegree, layers>>,
         phase' = phase \/ (phase = "sort" /\ phase' = "sorted")
  PROVE  IInv'
<1>1. OnStack' = OnStack BY DEF OnStack
<1>2. Types' BY DEF IInv, Types
<1>3. Searching'
  BY <1>1 DEF IInv, Searching, FinishedIsClosed, FinishedIsAcyclic, Path, Finished
<1>4. Found' BY DEF IInv, Found, NextCycle
<1>5. Sorting'
  <2>1. Below' /\ LayersFollowEdges' /\ (phase' = "failed" => EdgeCycle')
    BY SortUnchanged DEF IInv, Sorting
  <2>2. Counted' BY SortUnchanged DEF IInv, Sorting, Counted
  <2>3. Unsorted' BY DEF IInv, Sorting, Unsorted
  <2> QED BY <2>1, <2>2, <2>3 DEF Sorting
<1> QED BY <1>2, <1>3, <1>4, <1>5 DEF IInv

LEMMA StepIsGood == IInv /\ [Next]_vars => IInv'
<1> SUFFICES ASSUME IInv, [Next]_vars PROVE IInv' OBVIOUS
<1>1. ASSUME NEW n \in Nodes, Enter(n) PROVE IInv' BY <1>1, EnterKeeps
<1>2. ASSUME NEW n \in Nodes, Follow(n) PROVE IInv'
  BY <1>2, FollowNewKeeps, FollowOldKeeps, FollowBackKeeps
<1>3. CASE Backtrack BY <1>3, BacktrackKeeps
<1>4. CASE Accept BY <1>4, AcceptKeeps
<1>5. CASE AddLayer BY <1>5, LayerKeeps, FailingKeeps
<1>6. CASE Sorted BY <1>6, EndKeeps DEF Sorted
<1>7. CASE Done BY <1>7, EndKeeps DEF Done, vars
<1>8. CASE UNCHANGED vars BY <1>8, EndKeeps DEF vars
<1> QED BY <1>1, <1>2, <1>3, <1>4, <1>5, <1>6, <1>7, <1>8 DEF Next

LEMMA IInvHolds == Spec => []IInv
<1>1. Init => IInv BY InitIsGood
<1>2. IInv /\ [Next]_vars => IInv' BY StepIsGood
<1> QED BY <1>1, <1>2, PTL DEF Spec

-------------------------------------------------------------------------------
(* What holds *)

(* The counts stay between none and every edge given twice. *)
THEOREM GraphTypes == Spec => []TypeOK
<1>1. IInv => TypeOK
  <2> SUFFICES ASSUME IInv PROVE TypeOK OBVIOUS
  <2>1. Types /\ Counted /\ Unsorted BY DEF IInv, Sorting
  <2>2. 0 \in 0 .. 2 * Cardinality(Nodes)
    <3>1. Cardinality(Nodes) \in Nat BY NodesAssumption, FS_CardinalityType
    <3> QED BY <3>1
  <2>3. \A n \in Nodes : inDegree[n] \in 0 .. 2 * Cardinality(Nodes)
    <3> SUFFICES ASSUME NEW n \in Nodes
                 PROVE  inDegree[n] \in 0 .. 2 * Cardinality(Nodes)
      OBVIOUS
    <3>1. CASE phase \in {"detect", "rejected"} BY <3>1, <2>1, <2>2 DEF Unsorted
    <3>2. CASE phase \in {"sort", "sorted", "failed"}
      <4>1. inDegree[n] = Left(n, Processed) BY <3>2, <2>1 DEF Counted
      <4> QED BY <4>1, <2>1, LeftTypes
    <3> QED BY <3>1, <3>2, <2>1 DEF Types
  <2> QED BY <2>1, <2>3 DEF Types, TypeOK
<1> QED BY <1>1, IInvHolds, PTL

(* Validate rejects a definition if and only if its next nodes have a cycle, *)
(* for any number of nodes and any order of the search.                      *)
THEOREM SearchFindsCycles == Spec => []DetectsNextCycles
<1>1. IInv => DetectsNextCycles
  <2> SUFFICES ASSUME IInv PROVE DetectsNextCycles OBVIOUS
  <2>1. NextCycle <=> ~ Acyclic(NextOf) BY DEF NextCycle, Acyclic, NextOf
  <2> QED BY <2>1 DEF IInv, Found, DetectsNextCycles
<1> QED BY <1>1, IInvHolds, PTL

(* Counting edges, LayeredTopologicalSort takes for each layer exactly the    *)
(* nodes that come after processed ones only, and fails only on a cycle.      *)
THEOREM LayersFound == Spec => []LayersAreRight
<1>1. IInv => LayersAreRight
  <2> SUFFICES ASSUME IInv PROVE LayersAreRight OBVIOUS
  <2>1. EdgeCycle => ~ Acyclic(ComesAfter) BY DEF EdgeCycle, Acyclic, ComesAfter
  <2>2. phase = "sort" => CurrentLayer = Layer(p, Processed)
    BY LayerFound DEF IInv, Sorting
  <2> QED BY <2>1, <2>2 DEF IInv, Sorting, LayersAreRight
<1> QED BY <1>1, IInvHolds, PTL

(* No node is in two layers of the engine's, or in one before a node that it *)
(* comes after.                                                              *)
THEOREM LayersKeepOrder == Spec => []LayersFollowEdges
<1>1. IInv => LayersFollowEdges BY DEF IInv, Sorting
<1> QED BY <1>1, IInvHolds, PTL

-------------------------------------------------------------------------------
(* Both loops end *)

RestSize == IF stack = <<>> THEN 0 ELSE Cardinality(Top.rest)
PhasesLeft == IF phase = "detect" THEN 2 ELSE IF phase = "sort" THEN 1 ELSE 0

(* What is left of the search and of the sort, the coarsest part first. *)
Remaining == <<PhasesLeft, Cardinality(Nodes \ visited), Len(stack), RestSize,
               Cardinality(Nodes \ Processed)>>

Measures == [1 .. 5 -> Nat]
Less == {ss \in Nat \X Nat : ss[1] < ss[2]}
Smaller == LexProductOrdering(Less, Nat, 5)

(* There is no endless sequence of measures each of which is smaller than the *)
(* one before it: with StepsUseUp, neither loop goes on forever.              *)
THEOREM NoEndlessDescent == IsWellFoundedOn(Smaller, Measures)
<1>1. IsWellFoundedOn(Less, Nat)
  <2>1. Less = OpToRel(<, Nat) BY SMT DEF Less, OpToRel
  <2> QED BY <2>1, NatLessThanWellFounded, Zenon
<1> QED BY <1>1, WFLexProductOrdering, Zenon DEF Smaller, Measures

LEMMA Lexicographic ==
  ASSUME NEW a \in Nat, NEW b \in Nat, NEW c \in Nat, NEW d \in Nat, NEW e \in Nat,
         NEW a2 \in Nat, NEW b2 \in Nat, NEW c2 \in Nat, NEW d2 \in Nat, NEW e2 \in Nat,
         \/ a2 < a
         \/ a2 = a /\ b2 < b
         \/ a2 = a /\ b2 = b /\ c2 < c
         \/ a2 = a /\ b2 = b /\ c2 = c /\ d2 < d
         \/ a2 = a /\ b2 = b /\ c2 = c /\ d2 = d /\ e2 < e
  PROVE  <<<<a2, b2, c2, d2, e2>>, <<a, b, c, d, e>>>> \in Smaller
<1> DEFINE s == <<a2, b2, c2, d2, e2>>
           t == <<a, b, c, d, e>>
<1>1. s \in Measures /\ t \in Measures BY DEF Measures
<1>2. /\ s[1] = a2 /\ s[2] = b2 /\ s[3] = c2 /\ s[4] = d2 /\ s[5] = e2
      /\ t[1] = a /\ t[2] = b /\ t[3] = c /\ t[4] = d /\ t[5] = e
  OBVIOUS
<1> HIDE DEF s, t
<1>3. \E j \in 1 .. 5 : /\ \A i \in 1 .. (j - 1) : s[i] = t[i]
                        /\ s[j] < t[j] /\ s[j] \in Nat /\ t[j] \in Nat
  <2>1. CASE a2 < a BY <2>1, <1>2
  <2>2. CASE a2 = a /\ b2 < b BY <2>2, <1>2
  <2>3. CASE a2 = a /\ b2 = b /\ c2 < c BY <2>3, <1>2
  <2>4. CASE a2 = a /\ b2 = b /\ c2 = c /\ d2 < d BY <2>4, <1>2
  <2>5. CASE a2 = a /\ b2 = b /\ c2 = c /\ d2 = d /\ e2 < e BY <2>5, <1>2
  <2> QED BY <2>1, <2>2, <2>3, <2>4, <2>5
<1>4. PICK j \in 1 .. 5 : /\ \A i \in 1 .. (j - 1) : s[i] = t[i]
                          /\ <<s[j], t[j]>> \in Less
  BY <1>3 DEF Less
<1>5. <<s, t>> \in Smaller
  BY <1>1, <1>4 DEF Smaller, LexProductOrdering, Measures
<1> QED BY <1>5 DEF s, t

(* Taking nodes from those that are left. *)
LEMMA FewerNodes ==
  ASSUME NEW S, NEW n \in Nodes \ S, NEW T, S \cup {n} \subseteq T
  PROVE  Cardinality(Nodes \ T) < Cardinality(Nodes \ S)
<1> DEFINE before == Nodes \ S
           after == Nodes \ T
<1>1. after \subseteq before /\ after # before OBVIOUS
<1>2. IsFiniteSet(before) BY NodesAssumption, FS_Subset
<1> HIDE DEF before, after
<1>3. IsFiniteSet(after) /\ Cardinality(after) <= Cardinality(before)
      /\ (Cardinality(before) = Cardinality(after) => after = before)
  BY <1>1, <1>2, FS_Subset
<1>4. Cardinality(after) \in Nat /\ Cardinality(before) \in Nat
  BY <1>2, <1>3, FS_CardinalityType
<1>5. Cardinality(after) < Cardinality(before) BY <1>1, <1>3, <1>4
<1> QED BY <1>5 DEF before, after

LEMMA RestIsFinite ==
  ASSUME Types, stack # <<>>
  PROVE  Top.rest \subseteq Nodes /\ IsFiniteSet(Top.rest) /\ Cardinality(Top.rest) \in Nat
<1>1. Len(stack) \in DOMAIN stack /\ stack \in Seq(Frame) BY DEF Types
<1>2. Top \in Frame BY <1>1 DEF Top
<1>3. Top.rest \subseteq Nodes BY <1>2 DEF Frame
<1>4. IsFiniteSet(Top.rest) BY <1>3, NodesAssumption, FS_Subset
<1> QED BY <1>3, <1>4, FS_CardinalityType

LEMMA RemainingTypes ==
  ASSUME Types
  PROVE  /\ PhasesLeft \in Nat /\ Cardinality(Nodes \ visited) \in Nat /\ Len(stack) \in Nat
         /\ RestSize \in Nat /\ Cardinality(Nodes \ Processed) \in Nat
<1>1. \A S : Cardinality(Nodes \ S) \in Nat
  <2>1. \A S : IsFiniteSet(Nodes \ S) BY NodesAssumption, FS_Subset
  <2> QED BY <2>1, FS_CardinalityType
<1>2. RestSize \in Nat BY RestIsFinite DEF RestSize
<1>3. Len(stack) \in Nat BY DEF Types
<1> QED BY <1>1, <1>2, <1>3 DEF PhasesLeft

(* A next node that was searched before costs the top one a node of its rest. *)
LEMMA RestUsedUp ==
  ASSUME Types, stack # <<>>, NEW n \in Top.rest, stack' = Narrow(n)
  PROVE  Len(stack') = Len(stack) /\ RestSize' < RestSize
<1>1. /\ Len(stack) \in Nat \ {0} /\ Len(Narrow(n)) = Len(stack)
      /\ Narrow(n)[Len(stack)].rest = Top.rest \ {n}
      /\ Narrow(n) \in Seq(Frame)
  BY Narrowed DEF Top
<1>2. stack' # <<>> /\ Top'.rest = Top.rest \ {n} BY <1>1 DEF Top
<1>3. IsFiniteSet(Top.rest) /\ Cardinality(Top.rest) \in Nat BY RestIsFinite
<1>4. Cardinality(Top.rest \ {n}) = Cardinality(Top.rest) - 1 BY <1>3, FS_RemoveElement
<1> QED BY <1>1, <1>2, <1>3, <1>4 DEF RestSize

LEMMA LayerUsesUp ==
  ASSUME IInv, AddLayer, CurrentLayer # {}
  PROVE  Cardinality(Nodes \ Processed') < Cardinality(Nodes \ Processed)
<1>1. layers' = Append(layers, CurrentLayer) /\ layers \in Seq(SUBSET Nodes)
  BY DEF AddLayer, IInv, Types
<1>2. CurrentLayer \subseteq Nodes \ Processed BY DEF CurrentLayer
<1>3. /\ \A i \in DOMAIN layers : i \in DOMAIN layers' /\ layers'[i] = layers[i]
      /\ Len(layers) + 1 \in DOMAIN layers' /\ layers'[Len(layers) + 1] = CurrentLayer
  BY <1>1, <1>2, AppendProperties
<1>4. Processed \cup CurrentLayer \subseteq Processed' BY <1>3 DEF Processed
<1>5. PICK n \in CurrentLayer : n \in Nodes \ Processed BY <1>2
<1>6. Processed \cup {n} \subseteq Processed' BY <1>4
<1> QED BY <1>5, <1>6, FewerNodes

UsesUp == <<Remaining', Remaining>> \in Smaller

LEMMA StepUsesUp == ASSUME IInv, Next, ~ UNCHANGED vars PROVE UsesUp
<1> DEFINE unvisited == Cardinality(Nodes \ visited)
           unsorted == Cardinality(Nodes \ Processed)
           depth == Len(stack)
<1>1. Types /\ Types' BY StepIsGood DEF IInv
<1>2. /\ PhasesLeft \in Nat /\ unvisited \in Nat /\ depth \in Nat /\ RestSize \in Nat
      /\ unsorted \in Nat
  BY <1>1, RemainingTypes
<1>3. /\ PhasesLeft' \in Nat /\ unvisited' \in Nat /\ depth' \in Nat /\ RestSize' \in Nat
      /\ unsorted' \in Nat
  <2>1. (/\ PhasesLeft \in Nat /\ Cardinality(Nodes \ visited) \in Nat /\ Len(stack) \in Nat
         /\ RestSize \in Nat /\ Cardinality(Nodes \ Processed) \in Nat)'
    BY <1>1, RemainingTypes, PTL
  <2> QED BY <2>1
<1>4. \/ PhasesLeft' < PhasesLeft
      \/ PhasesLeft' = PhasesLeft /\ unvisited' < unvisited
      \/ PhasesLeft' = PhasesLeft /\ unvisited' = unvisited /\ depth' < depth
      \/ /\ PhasesLeft' = PhasesLeft /\ unvisited' = unvisited /\ depth' = depth
         /\ RestSize' < RestSize
      \/ /\ PhasesLeft' = PhasesLeft /\ unvisited' = unvisited /\ depth' = depth
         /\ RestSize' = RestSize /\ unsorted' < unsorted
  <2>1. ASSUME NEW n \in Nodes, Enter(n)
        PROVE  PhasesLeft' = PhasesLeft /\ unvisited' < unvisited
    <3>1. n \in Nodes \ visited /\ visited' = visited \cup {n} /\ phase' = phase
      BY <2>1 DEF Enter
    <3> QED BY <3>1, FewerNodes DEF PhasesLeft
  <2>2. ASSUME NEW n \in Nodes, Follow(n)
        PROVE  \/ PhasesLeft' < PhasesLeft
               \/ PhasesLeft' = PhasesLeft /\ unvisited' < unvisited
               \/ /\ PhasesLeft' = PhasesLeft /\ unvisited' = unvisited /\ depth' = depth
                  /\ RestSize' < RestSize
    <3>1. phase = "detect" /\ stack # <<>> /\ n \in Top.rest BY <2>2 DEF Follow
    <3>2. CASE n \notin visited
      <4>1. visited' = visited \cup {n} /\ phase' = phase BY <2>2, <3>2 DEF Follow
      <4> QED BY <3>2, <4>1, FewerNodes DEF PhasesLeft
    <3>3. CASE n \in visited /\ n \in OnStack
      <4>1. phase' = "rejected" BY <2>2, <3>3 DEF Follow
      <4> QED BY <3>1, <4>1 DEF PhasesLeft
    <3>4. CASE n \in visited /\ n \notin OnStack
      <4>1. stack' = Narrow(n) /\ UNCHANGED <<phase, visited>>
        BY <2>2, <3>4 DEF Follow, Narrow
      <4> QED BY <1>1, <3>1, <4>1, RestUsedUp DEF PhasesLeft
    <3> QED BY <3>2, <3>3, <3>4
  <2>3. CASE Backtrack
    <3>1. stack # <<>> /\ stack' = SubSeq(stack, 1, Len(stack) - 1)
          /\ UNCHANGED <<phase, visited>>
      BY <2>3 DEF Backtrack
    <3>2. stack \in Seq(Frame) BY <1>1 DEF Types
    <3>3. Len(stack) \in Nat \ {0} BY <1>1, <3>1, Narrowed
    <3>4. Len(stack') = Len(stack) - 1
      <4> DEFINE k == Len(stack)
      <4>1. \A i \in 1 .. k - 1 : stack[i] \in Frame BY <3>2
      <4>2. 1 \in Int /\ k - 1 \in Int /\ k \in Nat \ {0} BY <3>3
      <4> HIDE DEF k
      <4>3. Len(stack') = IF 1 <= k - 1 THEN (k - 1) - 1 + 1 ELSE 0
        <5>1. stack' = SubSeq(stack, 1, k - 1) BY <3>1 DEF k
        <5> QED BY ONLY <4>1, <4>2, <5>1, SubSeqProperties
      <4>4. Len(stack') = k - 1 BY ONLY <4>2, <4>3
      <4> QED BY ONLY <4>4 DEF k
    <3> QED BY <1>2, <3>1, <3>3, <3>4 DEF PhasesLeft
  <2>4. CASE Accept
    <3>1. phase = "detect" /\ phase' = "sort" BY <2>4 DEF Accept
    <3> QED BY <3>1 DEF PhasesLeft
  <2>5. CASE AddLayer /\ CurrentLayer = {}
    <3>1. phase = "sort" /\ phase' = "failed" BY <2>5 DEF AddLayer
    <3> QED BY <3>1 DEF PhasesLeft
  <2>6. CASE AddLayer /\ CurrentLayer # {}
    <3>1. UNCHANGED <<phase, visited, stack>> BY <2>6 DEF AddLayer
    <3>2. unsorted' < unsorted BY <2>6, LayerUsesUp
    <3> QED BY <3>1, <3>2 DEF PhasesLeft, RestSize, Top
  <2>7. CASE Sorted
    <3>1. phase = "sort" /\ phase' = "sorted" BY <2>7 DEF Sorted
    <3> QED BY <3>1 DEF PhasesLeft
  <2>8. ~ Done BY DEF Done
  <2> HIDE DEF unvisited, unsorted, depth
  <2> QED BY <2>1, <2>2, <2>3, <2>4, <2>5, <2>6, <2>7, <2>8 DEF Next
<1>5. /\ Remaining = <<PhasesLeft, unvisited, depth, RestSize, unsorted>>
      /\ Remaining' = <<PhasesLeft', unvisited', depth', RestSize', unsorted'>>
  BY DEF Remaining
<1> HIDE DEF unvisited, unsorted, depth
<1>6. <<<<PhasesLeft', unvisited', depth', RestSize', unsorted'>>,
        <<PhasesLeft, unvisited, depth, RestSize, unsorted>>>> \in Smaller
  BY <1>2, <1>3, <1>4, Lexicographic
<1> QED BY <1>5, <1>6 DEF UsesUp

(* Every step of the search and of the sort brings them nearer to their end,  *)
(* whatever the definition: a node is searched once, each of its next nodes   *)
(* is looked at once, and a round of the sort adds nodes or fails             *)
(* (detectCycle, LayeredTopologicalSort).                                     *)
THEOREM StepsUseUp == Spec => [][UsesUp]_vars
<1>1. IInv /\ [Next]_vars => [UsesUp]_vars BY StepUsesUp
<1> QED BY <1>1, IInvHolds, PTL DEF Spec
===============================================================================
