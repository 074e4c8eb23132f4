-------------------------- MODULE PipelineEngine_proof --------------------------
(***************************************************************************)
(* For any finite set of nodes, any pipelines over it and any number of    *)
(* groups: layers keep the order, no failure is lost or made up, the       *)
(* branches that run are those their routers name, and an execution uses   *)
(* itself up with every step and is stuck in none.                         *)
(***************************************************************************)
EXTENDS PipelineEngine, FiniteSetTheorems, NaturalsInduction,
        WellFoundedInduction, TLAPS

Types == p \in Pipelines /\ TypeOK

(* Only nodes that are active run, the ones of a layer or a fallback node,  *)
(* and none does when the execution is over.                                *)
Stages == /\ \A n \in Nodes \ active : step[n] \in {"off", "finished"}
          /\ active # {} => outcome = "running" /\ group \in {0} \cup DOMAIN p.groups
          /\ group \in DOMAIN p.groups => active \subseteq FallbackNodes
          /\ outcome = "answer" => group = Len(p.groups) + 1

(* In the layers: what an active node comes after is processed, no longer   *)
(* active, and has left its first state.                                    *)
Order ==
  InLayers =>
    /\ active \subseteq processed \ FallbackNodes
    /\ \A n \in active : /\ Predecessors(p, n) \subseteq processed \ active
                         /\ step[n] # "off"
    /\ \A n \in processed \ FallbackNodes :
           (n \in active /\ step[n] \in {"waiting", "running"}) \/ status[n] # "pending"

(* Whatever is taken for a failure is one. *)
Failures ==
  /\ fatal \subseteq failed
  /\ \A n \in Nodes : status[n] = "failed" => n \in failed
  /\ attempts > 0 \/ candidates # {} =>
         group \in DOMAIN p.groups /\ p.groups[group].primary \in failed

(* Who still has to answer for a node that failed in a layer. *)
Pending(n) == \/ group = 0 /\ n \in active \cap fatal
              \/ \E g \in DOMAIN p.groups : g >= group /\ p.groups[g].primary = n

Handled == \A n \in failed \ FallbackNodes :
               log[n] = "success" \/ outcome = "error" \/ Pending(n)

IInv == /\ Types /\ Stages /\ Order /\ Failures /\ ErrorMeansFailure
        /\ Handled

-------------------------------------------------------------------------------

LEMMA PipelineTypes ==
  ASSUME p \in Pipelines
  PROVE  /\ p.depends \in [Nodes -> SUBSET Nodes] /\ p.next \in [Nodes -> SUBSET Nodes]
         /\ p.groups \in Seq(Groups)
         /\ \A g \in DOMAIN p.groups :
                /\ p.groups[g].primary \in Nodes
                /\ p.groups[g].fallbacks \in Seq(Nodes)
                /\ ToSet(p.groups[g].fallbacks) \subseteq FallbackNodes
         /\ FallbackNodes \subseteq Nodes
<1>1. p.groups \in Seq(Groups) BY EnginePipelines
<1>2. \A g \in DOMAIN p.groups : p.groups[g] \in Groups BY <1>1
<1>3. \A g \in DOMAIN p.groups : /\ p.groups[g].primary \in Nodes
                                 /\ p.groups[g].fallbacks \in Seq(Nodes)
  BY <1>2 DEF Groups
<1>4. \A g \in DOMAIN p.groups : ToSet(p.groups[g].fallbacks) \subseteq Nodes
  BY <1>3 DEF ToSet
<1> QED BY <1>1, <1>3, <1>4, EnginePipelines DEF FallbackNodes

LEMMA GroupRange ==
  ASSUME p \in Pipelines
  PROVE  /\ Len(p.groups) \in Nat /\ DOMAIN p.groups = 1 .. Len(p.groups)
         /\ 0 \notin DOMAIN p.groups /\ Len(p.groups) + 1 \notin DOMAIN p.groups
<1>1. p.groups \in Seq(Groups) BY EnginePipelines
<1>2. Len(p.groups) \in Nat /\ DOMAIN p.groups = 1 .. Len(p.groups) BY <1>1
<1> QED BY <1>2

(* The order of layers and the pipeline's fallback nodes do not change. *)
LEMMA PipelineFixed ==
  ASSUME p' = p
  PROVE  /\ FallbackNodes' = FallbackNodes /\ Primaries' = Primaries
         /\ \A n \in Nodes : Predecessors(p, n)' = Predecessors(p, n)
         /\ \A n \in Nodes : Predecessors(p', n) = Predecessors(p, n)
BY DEF FallbackNodes, Primaries, Predecessors, NextEdges

LEMMA InitIsGood == Init => IInv
<1> SUFFICES ASSUME Init PROVE IInv OBVIOUS
<1>1. Types
  <2>1. Cardinality({}) = 0 BY FS_EmptySet
  <2>2. group = 0 /\ 0 \notin DOMAIN p.groups /\ Len(p.groups) \in Nat
    BY GroupRange DEF Init
  <2> QED BY <2>2 DEF Init, Types, TypeOK, All
<1>2. Stages BY DEF Init, Stages, All
<1>3. Order BY DEF Init, Order
<1>4. Failures BY DEF Init, Failures, All
<1>5. ErrorMeansFailure BY DEF Init, ErrorMeansFailure
<1>6. Handled BY DEF Init, Handled
<1> QED BY <1>1, <1>2, <1>3, <1>4, <1>5, <1>6 DEF IInv

-------------------------------------------------------------------------------
(* The layers *)

LEMMA EnterLayerKeeps == ASSUME IInv, EnterLayer PROVE IInv'
<1> DEFINE L == Layer(p, processed)
<1>1. /\ outcome = "running" /\ group = 0 /\ active = {} /\ p' = p
      /\ processed' = processed \cup L /\ active' \in Kept(L \ FallbackNodes)
      /\ status' = [n \in Nodes |-> IF n \in (L \ FallbackNodes) \ active' THEN "skipped"
                                    ELSE status[n]]
      /\ step' = [n \in Nodes |-> IF n \in active' THEN "waiting" ELSE "off"]
      /\ fatal' = {}
      /\ UNCHANGED <<output, failed, results, selects, current, log, group,
                     candidates, attempts, outcome>>
  BY DEF EnterLayer
<1>2. L \subseteq Nodes \ processed /\ \A n \in L : Predecessors(p, n) \subseteq processed
  BY DEF Layer
<1>3. Types /\ Order /\ Failures /\ Handled /\ ErrorMeansFailure
      /\ 0 \notin DOMAIN p.groups
  BY GroupRange DEF IInv, Types
<1> HIDE DEF L
<1>4. active' \subseteq L \ FallbackNodes BY <1>1 DEF Kept
<1>5. /\ status' \in [Nodes -> {"pending", "success", "failed", "skipped"}]
       /\ \A n \in Nodes : \/ status'[n] = status[n] /\ n \notin (L \ FallbackNodes) \ active'
                           \/ status'[n] = "skipped" /\ n \in (L \ FallbackNodes) \ active'
  BY <1>1, <1>3 DEF Types, TypeOK
<1>6. Types'
  <2>1. /\ step' \in [Nodes -> {"off", "waiting", "running", "store", "current", "finished"}]
        /\ processed' \subseteq Nodes /\ active' \subseteq Nodes
    BY <1>1, <1>2, <1>3, <1>4 DEF Types, TypeOK
  <2> QED BY <1>1, <1>3, <1>5, <2>1 DEF Types, TypeOK
<1>7. Stages' BY <1>1, <1>2, <1>3, <1>4 DEF Stages
<1>8. Order'
  <2>1. \A n \in processed \ FallbackNodes : status[n] # "pending"
    BY <1>1, <1>3 DEF Order, InLayers
  <2>2. \A n \in active' : n \in Nodes /\ step'[n] = "waiting" BY <1>1, <1>2, <1>4
  <2>3. \A n \in active' : Predecessors(p, n)' \subseteq processed' \ active'
    BY <1>1, <1>2, <1>4, <2>2, PipelineFixed
  <2>4. FallbackNodes' = FallbackNodes BY <1>1, PipelineFixed
  <2>5. processed' \subseteq Nodes BY <1>1, <1>2, <1>3 DEF Types, TypeOK
  <2>6. \A n \in processed' \ FallbackNodes :
            (n \in active' /\ step'[n] = "waiting") \/ status'[n] # "pending"
    <3> SUFFICES ASSUME NEW n \in processed' \ FallbackNodes, n \notin active'
                 PROVE  status'[n] # "pending"
      BY <2>2
    <3>1. CASE n \in L BY <3>1, <1>5, <2>5
    <3>2. CASE n \notin L BY <3>2, <1>1, <1>5, <2>1, <2>5
    <3> QED BY <3>1, <3>2
  <2>7. active' \subseteq processed' \ FallbackNodes BY <1>1, <1>4
  <2> QED BY <2>2, <2>3, <2>4, <2>6, <2>7 DEF Order
<1>9. Failures' BY <1>1, <1>3, <1>5 DEF Failures
<1>10. ErrorMeansFailure' BY <1>1 DEF ErrorMeansFailure
<1>11. Handled' BY <1>1, <1>3, PipelineFixed DEF Handled, Pending
<1> QED BY <1>6, <1>7, <1>8, <1>9, <1>10, <1>11 DEF IInv

(* A node that failed is a primary, and its group is to come, or the *)
(* execution fails.                                                  *)
LEMMA LeaveLayerKeeps == ASSUME IInv, LeaveLayer PROVE IInv'
<1>1. /\ outcome = "running" /\ group = 0 /\ Finished /\ p' = p /\ active' = {}
      /\ outcome' = IF fatal \subseteq Primaries THEN outcome ELSE "error"
      /\ UNCHANGED <<processed, step, output, status, failed, fatal, results, selects,
                     current, log, group, candidates, attempts>>
  BY DEF LeaveLayer
<1>2. Types /\ Stages /\ Order /\ Failures /\ Handled
      /\ 0 \notin DOMAIN p.groups /\ Len(p.groups) \in Nat /\ DOMAIN p.groups = 1 .. Len(p.groups)
  BY GroupRange DEF IInv, Types
<1>3. Types' BY <1>1, <1>2 DEF Types, TypeOK
<1>4. Stages' BY <1>1, <1>2 DEF Stages, Finished
<1>5. Order'
  <2>1. \A n \in processed \ FallbackNodes : status[n] # "pending"
    BY <1>1, <1>2 DEF Order, InLayers, Finished
  <2> QED BY <1>1, <2>1, PipelineFixed DEF Order
<1>6. Failures' BY <1>1, <1>2 DEF Failures
<1>7. ErrorMeansFailure' BY <1>1, <1>2 DEF ErrorMeansFailure, Failures
<1>8. Handled'
  <2> SUFFICES ASSUME NEW n \in failed \ FallbackNodes, outcome' # "error",
                      log[n] # "success"
               PROVE  \E g \in DOMAIN p.groups : g >= group /\ p.groups[g].primary = n
    BY <1>1, PipelineFixed DEF Handled, Pending
  <2>1. CASE n \in fatal
    <3>1. n \in Primaries BY <1>1, <2>1
    <3>2. PICK g \in DOMAIN p.groups : p.groups[g].primary = n BY <3>1 DEF Primaries
    <3>3. g >= group BY <1>1, <1>2
    <3> QED BY <3>2, <3>3
  <2>2. CASE n \notin fatal BY <2>2, <1>1, <1>2 DEF Handled, Pending
  <2> QED BY <2>1, <2>2
<1> QED BY <1>3, <1>4, <1>5, <1>6, <1>7, <1>8 DEF IInv

LEMMA LayersDoneKeeps == ASSUME IInv, LayersDone PROVE IInv'
<1>1. /\ outcome = "running" /\ group = 0 /\ active = {} /\ group' = 1
      /\ UNCHANGED <<p, processed, active, step, output, status, failed, fatal,
                     results, selects, current, log, candidates, attempts, outcome>>
  BY DEF LayersDone
<1>2. Types /\ Stages /\ Failures /\ Handled
      /\ 0 \notin DOMAIN p.groups /\ Len(p.groups) \in Nat /\ DOMAIN p.groups = 1 .. Len(p.groups)
  BY GroupRange DEF IInv, Types
<1>3. attempts = 0 /\ candidates = {} BY <1>1, <1>2 DEF Failures, Types, TypeOK
<1>4. Types'
  <2>1. Cardinality({}) = 0 BY FS_EmptySet
  <2>2. group' \in 0 .. Len(p.groups) + 1 BY <1>1, <1>2
  <2>3. \A g \in DOMAIN p.groups : Len(p.groups[g].fallbacks) \in Nat
    BY <1>2, PipelineTypes DEF Types
  <2>4. group' \in DOMAIN p.groups => 0 + 0 <= Len(p.groups[group'].fallbacks) + 1
    BY <2>3
  <2>5. /\ p' \in Pipelines /\ processed' \subseteq Nodes /\ active' \subseteq Nodes
        /\ step' \in [Nodes -> {"off", "waiting", "running", "store", "current", "finished"}]
    BY <1>1, <1>2 DEF Types, TypeOK
  <2> QED BY <1>1, <1>2, <1>3, <2>1, <2>2, <2>4, <2>5 DEF Types, TypeOK
<1>5. Stages' BY <1>1, <1>2 DEF Stages
<1>6. Order' BY <1>1 DEF Order, InLayers
<1>7. Failures' BY <1>1, <1>2, <1>3 DEF Failures
<1>8. ErrorMeansFailure' BY <1>1 DEF ErrorMeansFailure
<1>9. Handled'
  <2>1. \A g \in DOMAIN p.groups : g >= 1 BY <1>2
  <2> QED BY <1>1, <1>2, <2>1, PipelineFixed DEF Handled, Pending
<1> QED BY <1>4, <1>5, <1>6, <1>7, <1>8, <1>9 DEF IInv

-------------------------------------------------------------------------------
(* One node *)

(* A node that takes a step is active. *)
LEMMA Stepping ==
  ASSUME IInv, NEW n \in Nodes, step[n] \notin {"off", "finished"}
  PROVE  /\ n \in active /\ outcome = "running"
         /\ group # 0 => n \in FallbackNodes
<1>1. n \in active BY DEF IInv, Stages
<1> QED BY <1>1 DEF IInv, Stages

(* What a step of a node that stays active keeps by itself. *)
LEMMA NodeSteps ==
  ASSUME IInv, NEW n \in active,
         UNCHANGED <<p, processed, active, group, outcome>>,
         NEW x, x # "off", step' = [step EXCEPT ![n] = x],
         NEW y, status' = [status EXCEPT ![n] = y],
         InLayers => y # "pending" \/ x \in {"waiting", "running"}
  PROVE  Stages' /\ Order'
<1>1. Types /\ Stages /\ Order /\ n \in Nodes BY DEF IInv, Types, TypeOK
<1>2. /\ step \in [Nodes -> {"off", "waiting", "running", "store", "current", "finished"}]
      /\ status \in [Nodes -> {"pending", "success", "failed", "skipped"}]
      /\ processed \subseteq Nodes /\ active \subseteq Nodes
  BY <1>1 DEF Types, TypeOK
<1>3. /\ step'[n] = x /\ \A m \in Nodes \ {n} : step'[m] = step[m]
      /\ status'[n] = y /\ \A m \in Nodes \ {n} : status'[m] = status[m]
  BY <1>1, <1>2
<1>4. Stages' BY <1>1, <1>3, PipelineFixed DEF Stages
<1>5. Order'
  <2> SUFFICES ASSUME InLayers
               PROVE  /\ active \subseteq processed \ FallbackNodes
                      /\ \A m \in active : /\ Predecessors(p, m) \subseteq processed \ active
                                           /\ step'[m] # "off"
                      /\ \A m \in processed \ FallbackNodes :
                            (m \in active /\ step'[m] \in {"waiting", "running"})
                            \/ status'[m] # "pending"
    BY <1>2, PipelineFixed DEF Order, InLayers
  <2> QED BY <1>1, <1>2, <1>3 DEF Order
<1> QED BY <1>4, <1>5

LEMMA AcquireKeeps == ASSUME IInv, NEW n \in Nodes, Acquire(n) PROVE IInv'
<1>1. /\ n \in active /\ step[n] = "waiting" /\ step' = [step EXCEPT ![n] = "running"]
      /\ UNCHANGED <<p, processed, active, output, status, failed, fatal, results, selects,
                     current, log, group, candidates, attempts, outcome>>
  BY DEF Acquire
<1>2. Types /\ Failures /\ Handled /\ outcome = "running"
  BY <1>1, Stepping DEF IInv
<1>3. Types' BY <1>1, <1>2 DEF Types, TypeOK
<1>4. Stages' /\ Order'
  <2>1. status' = [status EXCEPT ![n] = status[n]] BY <1>1, <1>2 DEF Types, TypeOK
  <2> QED BY <1>1, <2>1, NodeSteps
<1>5. Failures' /\ ErrorMeansFailure' BY <1>1, <1>2 DEF Failures, ErrorMeansFailure
<1>6. Handled' BY <1>1, <1>2, PipelineFixed DEF Handled, Pending
<1> QED BY <1>3, <1>4, <1>5, <1>6 DEF IInv

LEMMA SkipKeeps == ASSUME IInv, NEW n \in Nodes, Skip(n) PROVE IInv'
<1>1. /\ step[n] = "running" /\ step' = [step EXCEPT ![n] = "finished"]
      /\ status' = [status EXCEPT ![n] = "skipped"]
      /\ UNCHANGED <<p, processed, active, output, failed, fatal, results, selects, current,
                     log, group, candidates, attempts, outcome>>
  BY DEF Skip
<1>2. Types /\ Failures /\ Handled /\ n \in active /\ outcome = "running"
  BY <1>1, Stepping DEF IInv
<1>3. Types' BY <1>1, <1>2 DEF Types, TypeOK
<1>4. Stages' /\ Order' BY <1>1, <1>2, NodeSteps
<1>5. Failures' BY <1>1, <1>2 DEF Failures, Types, TypeOK
<1>6. ErrorMeansFailure' BY <1>1, <1>2 DEF ErrorMeansFailure
<1>7. Handled' BY <1>1, <1>2, PipelineFixed DEF Handled, Pending
<1> QED BY <1>3, <1>4, <1>5, <1>6, <1>7 DEF IInv

LEMMA SucceedKeeps == ASSUME IInv, NEW n \in Nodes, Succeed(n) PROVE IInv'
<1>1. /\ step[n] = "running" /\ step' = [step EXCEPT ![n] = "store"]
      /\ status' = [status EXCEPT ![n] = "success"]
      /\ log' = [log EXCEPT ![n] = "success"]
      /\ UNCHANGED <<p, processed, active, failed, fatal, results, selects, current, group,
                     candidates, attempts, outcome>>
  BY DEF Succeed
<1>2. PICK out \in {"usable", "empty"} : output' = [output EXCEPT ![n] = out]
  BY DEF Succeed
<1>3. Types /\ Failures /\ Handled /\ n \in active /\ outcome = "running"
  BY <1>1, Stepping DEF IInv
<1>4. Types' BY <1>1, <1>2, <1>3 DEF Types, TypeOK
<1>5. Stages' /\ Order' BY <1>1, <1>3, NodeSteps
<1>6. Failures' BY <1>1, <1>3 DEF Failures, Types, TypeOK
<1>7. ErrorMeansFailure' BY <1>1, <1>3 DEF ErrorMeansFailure
<1>8. \A m \in Nodes : log[m] = "success" => log'[m] = "success"
  BY <1>1, <1>3 DEF Types, TypeOK
<1>9. Handled' BY <1>1, <1>3, <1>8, PipelineFixed DEF Handled, Pending, Types, TypeOK
<1> QED BY <1>4, <1>5, <1>6, <1>7, <1>9 DEF IInv

(* In the layers a node whose failure is not bypassed is still to be        *)
(* answered for; in a group it is a fallback node.                          *)
LEMMA FailKeeps == ASSUME IInv, NEW n \in Nodes, Fail(n) PROVE IInv'
<1>1. /\ step[n] = "running"
      /\ status' = [status EXCEPT ![n] = "failed"]
      /\ failed' = failed \cup {n}
      /\ UNCHANGED <<p, processed, active, results, selects, current, group, candidates,
                     attempts, outcome>>
  BY DEF Fail
<1>2. /\ Types /\ Failures /\ Handled /\ n \in active /\ outcome = "running"
      /\ group # 0 => n \in FallbackNodes
  BY <1>1, Stepping DEF IInv
<1>3. CASE /\ output' = [output EXCEPT ![n] = "usable"]
           /\ log' = [log EXCEPT ![n] = "success"]
           /\ step' = [step EXCEPT ![n] = "store"]
           /\ UNCHANGED fatal
  <2>1. Types' BY <1>1, <1>2, <1>3 DEF Types, TypeOK
  <2>2. Stages' /\ Order' BY <1>1, <1>2, <1>3, NodeSteps
  <2>3. Failures' BY <1>1, <1>2, <1>3 DEF Failures, Types, TypeOK
  <2>4. ErrorMeansFailure' BY <1>1, <1>2 DEF ErrorMeansFailure
  <2>5. log'[n] = "success" /\ \A m \in Nodes : log[m] = "success" => log'[m] = "success"
    BY <1>2, <1>3 DEF Types, TypeOK
  <2>6. Handled'
    BY <1>1, <1>2, <1>3, <2>5, PipelineFixed DEF Handled, Pending, Types, TypeOK
  <2> QED BY <2>1, <2>2, <2>3, <2>4, <2>6 DEF IInv
<1>4. CASE /\ fatal' = fatal \cup {n}
           /\ log' \in {log, [log EXCEPT ![n] = "failure"]}
           /\ step' = [step EXCEPT ![n] = "finished"]
           /\ UNCHANGED output
  <2>1. Types'
    <3>1. log' \in [Nodes -> {"none", "success", "failure"}]
      BY <1>2, <1>4 DEF Types, TypeOK
    <3>2. /\ status' \in [Nodes -> {"pending", "success", "failed", "skipped"}]
          /\ step' \in [Nodes -> {"off", "waiting", "running", "store", "current", "finished"}]
      BY <1>1, <1>2, <1>4 DEF Types, TypeOK
    <3> QED BY <1>1, <1>2, <1>4, <3>1, <3>2 DEF Types, TypeOK
  <2>2. Stages' /\ Order'
    <3>1. /\ UNCHANGED <<p, processed, active, group, outcome>>
          /\ step' = [step EXCEPT ![n] = "finished"]
          /\ status' = [status EXCEPT ![n] = "failed"]
      BY <1>1, <1>4
    <3> QED BY ONLY IInv, <1>2, <3>1, NodeSteps
  <2>3. Failures'
    <3>1. \A m \in Nodes \ {n} : status'[m] = status[m]
      BY <1>1, <1>2 DEF Types, TypeOK
    <3>2. \A m \in Nodes : status'[m] = "failed" => m \in failed'
      BY <3>1, <1>1, <1>2 DEF Failures
    <3> QED BY <1>1, <1>2, <1>4, <3>2 DEF Failures
  <2>4. ErrorMeansFailure' BY <1>1, <1>2 DEF ErrorMeansFailure
  <2>5. \A m \in Nodes \ {n} : log'[m] = log[m] BY <1>2, <1>4 DEF Types, TypeOK
  <2>6. Handled'
    <3> SUFFICES ASSUME NEW m \in failed' \ FallbackNodes
                 PROVE  log'[m] = "success" \/ outcome' = "error" \/ Pending(m)'
      BY <1>1, PipelineFixed DEF Handled
    <3>1. CASE m = n
      <4>1. group = 0 BY <3>1, <1>2
      <4> QED BY <3>1, <4>1, <1>1, <1>2, <1>4 DEF Pending
    <3>2. CASE m # n
      <4>1. m \in Nodes \ {n} /\ m \in failed \ FallbackNodes
        BY <3>2, <1>1, <1>2 DEF Types, TypeOK
      <4> QED BY <4>1, <2>5, <1>1, <1>2, <1>4 DEF Handled, Pending
    <3> QED BY <3>1, <3>2
  <2> QED BY <2>1, <2>2, <2>3, <2>4, <2>6 DEF IInv
<1> QED BY <1>3, <1>4 DEF Fail

(* What is stored is never nothing. *)
LEMMA SetResultKeeps == ASSUME IInv, NEW n \in Nodes, SetResult(n) PROVE IInv'
<1>1. /\ step[n] = "store" /\ step' = [step EXCEPT ![n] = "current"]
      /\ results' = [results EXCEPT ![n] = output[n]]
      /\ UNCHANGED <<p, processed, active, output, status, failed, fatal, current,
                     log, group, candidates, attempts, outcome>>
  BY DEF SetResult
<1>2. PICK s \in Selections(n) : selects' = [selects EXCEPT ![n] = s] BY DEF SetResult
<1>3. Types /\ Order /\ Failures /\ Handled /\ n \in active /\ outcome = "running"
  BY <1>1, Stepping DEF IInv
<1>4. Types'
  <2>1. s \in Nodes \cup {NoNode, NoRoute} BY DEF Selections
  <2>2. selects' \in [Nodes -> Nodes \cup {NoNode, NoRoute}]
    BY <1>3, <1>2, <2>1 DEF Types, TypeOK
  <2> QED BY <1>1, <1>3, <2>2 DEF Types, TypeOK
<1>5. Stages' /\ Order'
  <2>1. status' = [status EXCEPT ![n] = status[n]] BY <1>1, <1>3 DEF Types, TypeOK
  <2>2. InLayers => status[n] # "pending" BY <1>1, <1>3 DEF Order
  <2> QED BY <1>1, <1>3, <2>1, <2>2, NodeSteps
<1>6. Failures' /\ ErrorMeansFailure' BY <1>1, <1>3 DEF Failures, ErrorMeansFailure
<1>7. Handled' BY <1>1, <1>3, PipelineFixed DEF Handled, Pending
<1> QED BY <1>4, <1>5, <1>6, <1>7 DEF IInv

LEMMA SetCurrentNodeKeeps == ASSUME IInv, NEW n \in Nodes, SetCurrentNode(n) PROVE IInv'
<1>1. /\ step[n] = "current" /\ step' = [step EXCEPT ![n] = "finished"]
      /\ current' = n
      /\ UNCHANGED <<p, processed, active, output, status, failed, fatal, results, selects,
                     log, group, candidates, attempts, outcome>>
  BY DEF SetCurrentNode
<1>2. Types /\ Order /\ Failures /\ Handled /\ n \in active /\ outcome = "running"
  BY <1>1, Stepping DEF IInv
<1>3. Types' BY <1>1, <1>2 DEF Types, TypeOK
<1>4. Stages' /\ Order'
  <2>1. status' = [status EXCEPT ![n] = status[n]] BY <1>1, <1>2 DEF Types, TypeOK
  <2>2. InLayers => status[n] # "pending" BY <1>1, <1>2 DEF Order
  <2> QED BY <1>1, <1>2, <2>1, <2>2, NodeSteps
<1>5. Failures' /\ ErrorMeansFailure' BY <1>1, <1>2 DEF Failures, ErrorMeansFailure
<1>6. Handled' BY <1>1, <1>2, PipelineFixed DEF Handled, Pending
<1> QED BY <1>3, <1>4, <1>5, <1>6 DEF IInv

-------------------------------------------------------------------------------
(* The fallback groups *)

(* The group that is handled has its own primary and candidates. *)
LEMMA InGroupFacts ==
  ASSUME IInv, group \in DOMAIN p.groups
  PROVE  /\ Group.primary \in Nodes /\ Group.fallbacks \in Seq(Nodes)
         /\ ToSet(Group.fallbacks) \subseteq FallbackNodes
         /\ group # 0 /\ group + 1 \in 0 .. Len(p.groups) + 1
         /\ candidates \subseteq DOMAIN Group.fallbacks
         /\ attempts + Cardinality(candidates) <= Len(Group.fallbacks) + 1
         /\ PrimaryFailed <=> Group.primary \in failed
<1>1. p \in Pipelines BY DEF IInv, Types
<1>2. /\ Group.primary \in Nodes /\ Group.fallbacks \in Seq(Nodes)
      /\ ToSet(Group.fallbacks) \subseteq FallbackNodes
  BY <1>1, PipelineTypes DEF Group
<1>3. group # 0 /\ group + 1 \in 0 .. Len(p.groups) + 1
  BY <1>1, GroupRange
<1>4. /\ candidates \subseteq DOMAIN Group.fallbacks
      /\ attempts + Cardinality(candidates) <= Len(Group.fallbacks) + 1
  BY DEF IInv, Types, TypeOK, Group
<1>5. PrimaryFailed <=> Group.primary \in failed
  BY <1>2 DEF IInv, Failures, PrimaryFailed
<1> QED BY <1>2, <1>3, <1>4, <1>5

(* The next group starts with no attempts and no candidates. *)
LEMMA NextGroup ==
  ASSUME p \in Pipelines
  PROVE  \A g \in DOMAIN p.groups :
             /\ {} \subseteq DOMAIN p.groups[g].fallbacks
             /\ 0 + Cardinality({}) <= Len(p.groups[g].fallbacks) + 1
<1>1. Cardinality({}) = 0 BY FS_EmptySet
<1>2. \A g \in DOMAIN p.groups : Len(p.groups[g].fallbacks) \in Nat
  BY PipelineTypes
<1> QED BY <1>1, <1>2

LEMMA NothingToDoKeeps == ASSUME IInv, NothingToDo PROVE IInv'
<1>1. /\ outcome = "running" /\ group \in DOMAIN p.groups /\ active = {} /\ ~ PrimaryFailed
      /\ status' = [n \in Nodes |-> IF n \in ToSet(Group.fallbacks) THEN "skipped"
                                    ELSE status[n]]
      /\ group' = group + 1
      /\ UNCHANGED <<p, processed, active, step, output, failed, fatal, results, selects,
                     current, log, candidates, attempts, outcome>>
  BY DEF NothingToDo, InGroup
<1>2. Types /\ Stages /\ Failures /\ Handled BY DEF IInv
<1>3. Group.primary \notin failed /\ group' \in 0 .. Len(p.groups) + 1 /\ group # 0
  BY <1>1, InGroupFacts
<1>4. attempts = 0 /\ candidates = {}
  BY <1>1, <1>2, <1>3 DEF Failures, Group, Types, TypeOK
<1>5. Types' BY <1>1, <1>2, <1>3, <1>4, NextGroup DEF Types, TypeOK
<1>6. Stages' BY <1>1, <1>2 DEF Stages
<1>7. group' # 0
  <2>1. group \in Nat BY <1>1, <1>2, GroupRange DEF Types
  <2> QED BY <2>1, <1>1
<1>8. Order' BY <1>7 DEF Order, InLayers
<1>9. Failures' BY <1>1, <1>2, <1>4 DEF Failures
<1>10. ErrorMeansFailure' BY <1>1 DEF ErrorMeansFailure
<1>11. Handled'
  <2> SUFFICES ASSUME NEW n \in failed \ FallbackNodes, log[n] # "success"
               PROVE  \E g \in DOMAIN p.groups : g >= group' /\ p.groups[g].primary = n
    BY <1>1, PipelineFixed DEF Handled, Pending
  <2>1. PICK g \in DOMAIN p.groups : g >= group /\ p.groups[g].primary = n
    BY <1>1, <1>2, <1>3 DEF Handled, Pending
  <2>2. g # group BY <2>1, <1>3 DEF Group
  <2>3. g \in Nat /\ group \in Nat BY <1>1, <1>2, GroupRange DEF Types
  <2>4. g >= group' BY <2>1, <2>2, <2>3, <1>1
  <2> QED BY <2>1, <2>4
<1> QED BY <1>5, <1>6, <1>8, <1>9, <1>10, <1>11 DEF IInv

LEMMA FilterKeeps == ASSUME IInv, Filter PROVE IInv'
<1>1. /\ outcome = "running" /\ group \in DOMAIN p.groups /\ active = {} /\ PrimaryFailed
      /\ UNCHANGED <<p, processed, active, step, output, failed, fatal, results, selects,
                     current, log, group, outcome>>
      /\ attempts' = 1
  BY DEF Filter, InGroup
<1>2. PICK open \in SUBSET ToSet(Group.fallbacks) :
          /\ status' = [n \in Nodes |-> IF n \in open THEN "skipped" ELSE status[n]]
          /\ candidates' = {i \in DOMAIN Group.fallbacks : Group.fallbacks[i] \notin open}
  BY DEF Filter
<1>3. Types /\ Stages /\ Failures /\ Handled BY DEF IInv
<1>4. /\ Group.primary \in failed /\ group # 0 /\ Group.fallbacks \in Seq(Nodes)
      /\ Group' = Group
  BY <1>1, InGroupFacts DEF Group
<1>5. /\ candidates' \subseteq DOMAIN Group.fallbacks
      /\ attempts' + Cardinality(candidates') <= Len(Group.fallbacks) + 1
      /\ candidates' \subseteq Nat
  <2> DEFINE k == Len(Group.fallbacks)
  <2>1. k \in Nat /\ DOMAIN Group.fallbacks = 1 .. k BY <1>4
  <2>2. IsFiniteSet(1 .. k) /\ Cardinality(1 .. k) = k
    <3>1. 1 \in Int /\ k \in Int /\ (1 > k => k = 0) BY <2>1
    <3>2. Cardinality(1 .. k) = (IF 1 > k THEN 0 ELSE k - 1 + 1) /\ IsFiniteSet(1 .. k)
      BY <3>1, FS_Interval
    <3> HIDE DEF k
    <3> QED BY <2>1, <3>1, <3>2
  <2>3. candidates' \subseteq 1 .. k BY <1>2, <2>1
  <2> HIDE DEF k
  <2>4. IsFiniteSet(candidates') /\ Cardinality(candidates') <= k
    BY <2>2, <2>3, FS_Subset
  <2>5. Cardinality(candidates') \in Nat BY <2>4, FS_CardinalityType
  <2>6. 1 + Cardinality(candidates') <= k + 1 BY <2>1, <2>4, <2>5
  <2>7. candidates' \subseteq Nat BY <2>3
  <2> QED BY <1>1, <2>1, <2>3, <2>6, <2>7 DEF k
<1>6. Types'
  <2>1. status' \in [Nodes -> {"pending", "success", "failed", "skipped"}]
    BY <1>2, <1>3 DEF Types, TypeOK
  <2> QED BY <1>1, <1>3, <1>4, <1>5, <2>1 DEF Types, TypeOK, Group
<1>7. Stages' BY <1>1, <1>3, PipelineFixed DEF Stages
<1>8. Order' BY <1>1, <1>4 DEF Order, InLayers
<1>9. Failures' BY <1>1, <1>2, <1>3, <1>4 DEF Failures, Group
<1>10. ErrorMeansFailure' BY <1>1 DEF ErrorMeansFailure
<1>11. Handled' BY <1>1, <1>3, PipelineFixed DEF Handled, Pending
<1> QED BY <1>6, <1>7, <1>8, <1>9, <1>10, <1>11 DEF IInv

LEMMA TryFallbackKeeps == ASSUME IInv, TryFallback PROVE IInv'
<1>1. /\ outcome = "running" /\ group \in DOMAIN p.groups /\ active = {} /\ attempts > 0
      /\ step' = [n \in Nodes |-> IF n \in active' THEN "running" ELSE "off"]
      /\ attempts' = attempts + 1 /\ fatal' = {}
      /\ UNCHANGED <<p, processed, output, status, failed, results, selects, current, log,
                     group, outcome>>
  BY DEF TryFallback, InGroup
<1>2. PICK i \in candidates : /\ active' = {Group.fallbacks[i]}
                              /\ candidates' = candidates \ {i}
  BY DEF TryFallback
<1>3. Types /\ Stages /\ Failures /\ Handled /\ attempts \in Nat /\ candidates \subseteq Nat
  BY DEF IInv, Types, TypeOK
<1>4. /\ Group.fallbacks \in Seq(Nodes) /\ ToSet(Group.fallbacks) \subseteq FallbackNodes
      /\ candidates \subseteq DOMAIN Group.fallbacks /\ group # 0
      /\ attempts + Cardinality(candidates) <= Len(Group.fallbacks) + 1
      /\ Group' = Group
  BY <1>1, InGroupFacts DEF Group
<1>5. Group.fallbacks[i] \in ToSet(Group.fallbacks) /\ Group.fallbacks[i] \in Nodes
  BY <1>2, <1>4 DEF ToSet
<1>6. /\ candidates' \subseteq DOMAIN Group.fallbacks
      /\ attempts' + Cardinality(candidates') <= Len(Group.fallbacks) + 1
  <2> DEFINE k == Len(Group.fallbacks)
             c == Cardinality(candidates)
  <2>1. k \in Nat /\ DOMAIN Group.fallbacks = 1 .. k BY <1>4
  <2>2. IsFiniteSet(candidates)
    <3>1. IsFiniteSet(1 .. k)
      <4>1. 1 \in Int /\ k \in Int BY <2>1
      <4> HIDE DEF k
      <4> QED BY <4>1, FS_Interval
    <3> QED BY <3>1, <2>1, <1>4, FS_Subset
  <2>3. Cardinality(candidates') = c - 1 BY <2>2, <1>2, FS_RemoveElement
  <2>4. c \in Nat BY <2>2, FS_CardinalityType
  <2>5. attempts + c <= k + 1 BY <1>4
  <2> HIDE DEF k, c
  <2>6. (attempts + 1) + (c - 1) <= k + 1 BY <1>3, <2>1, <2>4, <2>5
  <2>7. candidates' \subseteq DOMAIN Group.fallbacks BY <1>2, <1>4
  <2> QED BY <1>1, <2>3, <2>6, <2>7 DEF k
<1>7. Types'
  <2>1. active' \subseteq Nodes BY <1>2, <1>5
  <2>2. /\ step' \in [Nodes -> {"off", "waiting", "running", "store", "current", "finished"}]
        /\ attempts' \in Nat /\ candidates' \subseteq Nat
    BY <1>1, <1>2, <1>3
  <2> QED BY <1>1, <1>3, <1>4, <1>6, <2>1, <2>2 DEF Types, TypeOK, Group
<1>8. Stages'
  <2>1. active' \subseteq FallbackNodes' BY <1>1, <1>2, <1>4, <1>5, PipelineFixed
  <2> QED BY <1>1, <2>1 DEF Stages
<1>9. Order' BY <1>1, <1>4 DEF Order, InLayers
<1>10. Failures' BY <1>1, <1>3 DEF Failures
<1>11. ErrorMeansFailure' BY <1>1 DEF ErrorMeansFailure
<1>12. Handled' BY <1>1, <1>3, <1>4, PipelineFixed DEF Handled, Pending
<1> QED BY <1>7, <1>8, <1>9, <1>10, <1>11, <1>12 DEF IInv

(* A group that recovered has its primary's log entry set. *)
LEMMA FallbackDoneKeeps == ASSUME IInv, FallbackDone PROVE IInv'
<1>1. /\ outcome = "running" /\ group \in DOMAIN p.groups /\ Finished /\ active' = {}
      /\ UNCHANGED <<p, processed, step, output, status, failed, fatal, results, selects,
                     current, outcome>>
  BY DEF FallbackDone
<1>2. Types /\ Stages /\ Failures /\ Handled BY DEF IInv
<1>3. /\ Group.primary \in Nodes /\ group # 0 /\ group + 1 \in 0 .. Len(p.groups) + 1
      /\ group \in Nat
  BY <1>1, <1>2, InGroupFacts, GroupRange DEF Types
<1>4. \A n \in Nodes : step'[n] \in {"off", "finished"}
  BY <1>1, <1>2 DEF Stages, Finished
<1>5. Stages' BY <1>1, <1>4 DEF Stages
<1>6. ErrorMeansFailure' BY <1>1 DEF ErrorMeansFailure
<1>7. CASE /\ log' = [log EXCEPT ![Group.primary] = "success"]
           /\ group' = group + 1 /\ candidates' = {} /\ attempts' = 0
  <2>1. Types' BY <1>1, <1>2, <1>3, <1>7, NextGroup DEF Types, TypeOK
  <2>2. group' # 0 BY <1>3, <1>7
  <2>3. Order' BY <2>2 DEF Order, InLayers
  <2>4. Failures' BY <1>1, <1>2, <1>7 DEF Failures
  <2>5. /\ log'[Group.primary] = "success"
        /\ \A n \in Nodes : log[n] = "success" => log'[n] = "success"
    BY <1>2, <1>3, <1>7 DEF Types, TypeOK
  <2>6. Handled'
    <3> SUFFICES ASSUME NEW n \in failed \ FallbackNodes, log'[n] # "success"
                 PROVE  \E g \in DOMAIN p.groups : g >= group' /\ p.groups[g].primary = n
      BY <1>1, PipelineFixed DEF Handled, Pending
    <3>1. n \in Nodes /\ n # Group.primary /\ log[n] # "success"
      BY <2>5, <1>2 DEF Types, TypeOK
    <3>2. PICK g \in DOMAIN p.groups : g >= group /\ p.groups[g].primary = n
      BY <1>1, <1>2, <1>3, <3>1 DEF Handled, Pending
    <3>3. g # group BY <3>1, <3>2 DEF Group
    <3>4. g \in Nat BY <1>2, GroupRange DEF Types
    <3>5. g >= group' BY <3>2, <3>3, <3>4, <1>3, <1>7
    <3> QED BY <3>2, <3>5
  <2> QED BY <1>5, <1>6, <2>1, <2>3, <2>4, <2>6 DEF IInv
<1>8. CASE UNCHANGED <<log, group, candidates, attempts>>
  <2>1. Types' BY <1>1, <1>2, <1>8 DEF Types, TypeOK
  <2>2. Order' BY <1>3, <1>8 DEF Order, InLayers
  <2>3. Failures' BY <1>1, <1>2, <1>8 DEF Failures
  <2>4. Handled' BY <1>1, <1>2, <1>3, <1>8, PipelineFixed DEF Handled, Pending
  <2> QED BY <1>5, <1>6, <2>1, <2>2, <2>3, <2>4 DEF IInv
<1> QED BY <1>7, <1>8 DEF FallbackDone

LEMMA GroupFailsKeeps == ASSUME IInv, GroupFails PROVE IInv'
<1>1. /\ group \in DOMAIN p.groups /\ active = {} /\ attempts > 0 /\ outcome' = "error"
      /\ UNCHANGED <<p, processed, active, step, output, status, failed, fatal,
                     results, selects, current, log, group, candidates, attempts>>
  BY DEF GroupFails, InGroup
<1>2. Types /\ Stages /\ Failures BY DEF IInv
<1>3. Types' BY <1>1, <1>2 DEF Types, TypeOK
<1>4. Stages' BY <1>1, <1>2, PipelineFixed DEF Stages
<1>5. Order' BY <1>1 DEF Order, InLayers
<1>6. Failures' BY <1>1, <1>2 DEF Failures
<1>7. ErrorMeansFailure' BY <1>1, <1>2 DEF Failures, ErrorMeansFailure
<1>8. Handled' BY <1>1 DEF Handled
<1> QED BY <1>3, <1>4, <1>5, <1>6, <1>7, <1>8 DEF IInv

LEMMA AnswerKeeps == ASSUME IInv, Answer PROVE IInv'
<1>1. /\ outcome = "running" /\ group = Len(p.groups) + 1
      /\ outcome' = IF LastOutputs = {} THEN "error" ELSE "answer"
      /\ UNCHANGED <<p, processed, active, step, output, status, failed, fatal,
                     results, selects, current, log, group, candidates, attempts>>
  BY DEF Answer
<1>2. Types /\ Stages /\ Failures /\ Handled BY DEF IInv
<1>3. group \notin DOMAIN p.groups /\ group # 0 /\ Len(p.groups) \in Nat
      /\ DOMAIN p.groups = 1 .. Len(p.groups)
  BY <1>1, <1>2, GroupRange DEF Types
<1>4. active = {} BY <1>2, <1>3 DEF Stages
<1>5. Types' BY <1>1, <1>2 DEF Types, TypeOK
<1>6. Stages' BY <1>1, <1>2, <1>3, <1>4 DEF Stages
<1>7. Order' BY <1>1 DEF Order, InLayers
<1>8. Failures' BY <1>1, <1>2 DEF Failures
<1>9. ErrorMeansFailure'
  <2>1. LastOutputs = {} => \A n \in Nodes : results[n] = "none" BY DEF LastOutputs
  <2> QED BY <1>1, <2>1 DEF ErrorMeansFailure
<1>10. Handled' BY <1>1, <1>2, PipelineFixed DEF Handled, Pending
<1> QED BY <1>5, <1>6, <1>7, <1>8, <1>9, <1>10 DEF IInv

LEMMA StutterKeeps == ASSUME IInv, UNCHANGED vars PROVE IInv'
<1>1. UNCHANGED <<p, processed, active, step, output, status, failed, fatal, results, selects,
                  current, log, group, candidates, attempts, outcome>>
  BY DEF vars
<1>2. Types /\ Stages /\ Order /\ Failures /\ ErrorMeansFailure /\ Handled
  BY DEF IInv
<1>3. Types' BY <1>1, <1>2 DEF Types, TypeOK
<1>4. Stages' BY <1>1, <1>2, PipelineFixed DEF Stages
<1>5. Order'
  <2>1. \A n \in active : Predecessors(p, n)' = Predecessors(p, n)
    BY <1>1, PipelineFixed DEF Predecessors, NextEdges
  <2> QED BY <1>1, <1>2, <2>1, PipelineFixed DEF Order, InLayers
<1>6. Failures' /\ ErrorMeansFailure' BY <1>1, <1>2 DEF Failures, ErrorMeansFailure
<1>7. Handled' BY <1>1, <1>2, PipelineFixed DEF Handled, Pending
<1> QED BY <1>3, <1>4, <1>5, <1>6, <1>7 DEF IInv

LEMMA StepIsGood == IInv /\ [Next]_vars => IInv'
<1> SUFFICES ASSUME IInv, [Next]_vars PROVE IInv' OBVIOUS
<1>1. CASE EnterLayer BY <1>1, EnterLayerKeeps
<1>2. CASE LeaveLayer BY <1>2, LeaveLayerKeeps
<1>3. CASE LayersDone BY <1>3, LayersDoneKeeps
<1>4. ASSUME NEW n \in Nodes, Node(n) PROVE IInv'
  BY <1>4, AcquireKeeps, SkipKeeps, SucceedKeeps, FailKeeps, SetResultKeeps,
     SetCurrentNodeKeeps DEF Node
<1>5. CASE NothingToDo BY <1>5, NothingToDoKeeps
<1>6. CASE Filter BY <1>6, FilterKeeps
<1>7. CASE TryFallback BY <1>7, TryFallbackKeeps
<1>8. CASE FallbackDone BY <1>8, FallbackDoneKeeps
<1>9. CASE GroupFails BY <1>9, GroupFailsKeeps
<1>10. CASE Answer BY <1>10, AnswerKeeps
<1>11. CASE Done BY <1>11, StutterKeeps DEF Done
<1>12. CASE UNCHANGED vars BY <1>12, StutterKeeps
<1> QED BY <1>1, <1>2, <1>3, <1>4, <1>5, <1>6, <1>7, <1>8, <1>9, <1>10, <1>11, <1>12
        DEF Next

LEMMA IInvHolds == Spec => []IInv
<1>1. Init => IInv BY InitIsGood
<1>2. IInv /\ [Next]_vars => IInv' BY StepIsGood
<1> QED BY <1>1, <1>2, PTL DEF Spec

-------------------------------------------------------------------------------
(* What holds *)

(* The variables keep their types, and a group makes no more attempts than it *)
(* has nodes.                                                                 *)
THEOREM EngineTypes == Spec => []TypeOK
<1>1. IInv => TypeOK BY DEF IInv, Types
<1> QED BY <1>1, IInvHolds, PTL

(* With any number of nodes in a layer and any number of permits, a node runs *)
(* only when all it comes after have run, fallback nodes aside.               *)
THEOREM LayersKeepNodesInOrder == Spec => []OrderKept
<1>1. IInv => OrderKept
  <2> SUFFICES ASSUME IInv, InLayers, NEW n \in active,
                      NEW m \in Predecessors(p, n) \ FallbackNodes
               PROVE  step[m] \in {"off", "finished"} /\ status[m] # "pending"
    BY DEF OrderKept
  <2>1. m \in processed \ active BY DEF IInv, Order
  <2>2. m \in Nodes BY <2>1 DEF IInv, Types, TypeOK
  <2> QED BY <2>1, <2>2 DEF IInv, Order, Stages
<1> QED BY <1>1, IInvHolds, PTL

(* An execution with a result ends in an error only when a node failed.       *)
THEOREM NoFailureMadeUp == Spec => []ErrorMeansFailure
<1>1. IInv => ErrorMeansFailure BY DEF IInv
<1> QED BY <1>1, IInvHolds, PTL

(* An answer is given only when each node of the layers that failed left a    *)
(* substitute or was a primary whose group recovered.                         *)
THEOREM NoFailureLost == Spec => []AnswerMeansHandled
<1>1. IInv => AnswerMeansHandled
  <2> SUFFICES ASSUME IInv, outcome = "answer", NEW n \in failed \ FallbackNodes
               PROVE  log[n] = "success"
    BY DEF AnswerMeansHandled
  <2>1. active = {} /\ group = Len(p.groups) + 1 BY DEF IInv, Stages
  <2>2. Len(p.groups) \in Nat /\ DOMAIN p.groups = 1 .. Len(p.groups)
    BY GroupRange DEF IInv, Types
  <2>3. ~ Pending(n)
    <3>1. \A g \in DOMAIN p.groups : ~ (g >= group) BY <2>1, <2>2
    <3> QED BY <2>1, <3>1 DEF Pending
  <2> QED BY <2>3 DEF IInv, Handled
<1> QED BY <1>1, IInvHolds, PTL
-------------------------------------------------------------------------------
(* Branches.  A router that comes before its branch is settled when the     *)
(* branch is entered: it has run, in a layer that was left.                 *)

Settled == processed \ (FallbackNodes \cup active)

(* The layers take a node with all it comes after before it, and with every *)
(* node that comes after the same ones.                                     *)
Layered ==
  /\ \A n \in processed : Predecessors(p, n) \subseteq processed
  /\ group = 0 => \A n \in processed : Predecessors(p, n) \cap active = {}
  /\ \A n \in processed : \A m \in Nodes :
         Predecessors(p, m) = Predecessors(p, n) => m \in processed
  /\ \A n \in Nodes \ (processed \cup FallbackNodes) :
         n \notin active /\ status[n] = "pending" /\ results[n] = "none"
  /\ group = 0 => \A n \in FallbackNodes : results[n] = "none"

(* The branches RoutesFollowed is about. *)
RouterBefore(n) == /\ n \in Branches \ FallbackNodes
                   /\ p.router[n] \in Predecessors(p, n) \ FallbackNodes

NoneBeside(n) ==
  \A m \in Branches \ FallbackNodes :
      /\ p.router[m] = p.router[n] /\ Predecessors(p, m) = Predecessors(p, n)
      /\ m \notin p.defaults
      => ~ Selected(m)

(* Another router, which has run, names one of its branches. *)
OtherRoute(n) == \E m \in Branches : /\ Selected(m) /\ p.router[m] # p.router[n]
                                     /\ p.router[m] \in Settled

Routed(n) ==
  /\ n \in active => Selected(n) \/ (n \in p.defaults /\ NoneBeside(n))
  /\ status[n] \in {"success", "failed"} =>
         \/ Selected(n)
         \/ n \in p.defaults /\ results[p.router[n]] # "none" /\ NoneBeside(n)
  /\ status[n] = "skipped" /\ Selected(n) => n \in p.conditional \/ OtherRoute(n)

RInv == Layered /\ \A n \in Nodes : RouterBefore(n) => Routed(n)

(* The steps that neither enter a layer nor end a node's run leave alone     *)
(* what branches depend on.                                                  *)
Quiet == /\ UNCHANGED <<p, processed, results, selects>>
         /\ \A n \in Nodes \ FallbackNodes : status'[n] = status[n]
         /\ active' \subseteq active \cup FallbackNodes
         /\ group' = 0 => group = 0 /\ active' \subseteq active

Ran(n) == Skip(n) \/ Succeed(n) \/ Fail(n)

LEMMA StepKinds ==
  ASSUME IInv, [Next]_vars
  PROVE  EnterLayer \/ Quiet \/ \E n \in Nodes : Ran(n) \/ SetResult(n)
<1>1. /\ p \in Pipelines /\ group \in Nat
      /\ status \in [Nodes -> {"pending", "success", "failed", "skipped"}]
      /\ Len(p.groups) \in Nat /\ DOMAIN p.groups = 1 .. Len(p.groups)
  BY GroupRange DEF IInv, Types, TypeOK
<1>2. CASE LeaveLayer \/ LayersDone \/ FallbackDone
  BY <1>1, <1>2 DEF LeaveLayer, LayersDone, FallbackDone, Quiet
<1>3. CASE Answer \/ GroupFails \/ Done \/ UNCHANGED vars
  BY <1>3 DEF Answer, GroupFails, Done, vars, Quiet
<1>4. ASSUME NEW n \in Nodes, Acquire(n) \/ SetCurrentNode(n) PROVE Quiet
  BY <1>4 DEF Acquire, SetCurrentNode, Quiet
<1>5. CASE NothingToDo \/ Filter \/ TryFallback
  <2>1. group \in DOMAIN p.groups BY <1>5 DEF NothingToDo, Filter, TryFallback, InGroup
  <2>2. ToSet(Group.fallbacks) \subseteq FallbackNodes /\ group # 0
        /\ candidates \subseteq DOMAIN Group.fallbacks
    BY <2>1, InGroupFacts
  <2>3. CASE NothingToDo BY <1>1, <2>1, <2>2, <2>3 DEF NothingToDo, InGroup, Quiet
  <2>4. CASE Filter
    <3>1. PICK open \in SUBSET ToSet(Group.fallbacks) :
             status' = [n \in Nodes |-> IF n \in open THEN "skipped" ELSE status[n]]
      BY <2>4 DEF Filter
    <3> QED BY <2>2, <2>4, <3>1 DEF Filter, InGroup, Quiet
  <2>5. CASE TryFallback
    <3>1. PICK i \in candidates : active' = {Group.fallbacks[i]} BY <2>5 DEF TryFallback
    <3>2. Group.fallbacks[i] \in ToSet(Group.fallbacks) BY <2>2 DEF ToSet
    <3> QED BY <2>2, <2>5, <3>1, <3>2 DEF TryFallback, InGroup, Quiet
  <2> QED BY <1>5, <2>3, <2>4, <2>5
<1> QED BY <1>2, <1>3, <1>4, <1>5 DEF Next, Node, Ran

(* A node that ends its run, or stores its result, is one that is active.    *)
LEMMA NodeEnds ==
  ASSUME IInv, NEW n \in Nodes, Ran(n) \/ SetResult(n)
  PROVE  /\ n \in active
         /\ group = 0 => n \in processed \ FallbackNodes
         /\ UNCHANGED <<p, processed, active, group>>
         /\ Ran(n) => /\ UNCHANGED <<results, selects>>
                      /\ \A m \in Nodes \ {n} : status'[m] = status[m]
         /\ SetResult(n) => /\ status' = status
                            /\ \A m \in Nodes \ {n} :
                                  results'[m] = results[m] /\ selects'[m] = selects[m]
<1>1. /\ status \in [Nodes -> {"pending", "success", "failed", "skipped"}]
      /\ results \in [Nodes -> {"none", "usable", "empty"}]
      /\ selects \in [Nodes -> Nodes \cup {NoNode, NoRoute}]
  BY DEF IInv, Types, TypeOK
<1>2. n \in active /\ outcome = "running"
  BY Stepping DEF Ran, Skip, Succeed, Fail, SetResult
<1>3. group = 0 => n \in processed \ FallbackNodes BY <1>2 DEF IInv, Order, InLayers
<1>4. UNCHANGED <<p, processed, active, group>>
  BY DEF Ran, Skip, Succeed, Fail, SetResult
<1>5. ASSUME Ran(n) PROVE /\ UNCHANGED <<results, selects>>
                          /\ \A m \in Nodes \ {n} : status'[m] = status[m]
  BY <1>1, <1>5 DEF Ran, Skip, Succeed, Fail
<1>6. ASSUME SetResult(n)
      PROVE  /\ status' = status
             /\ \A m \in Nodes \ {n} : results'[m] = results[m] /\ selects'[m] = selects[m]
  <2>1. PICK s : selects' = [selects EXCEPT ![n] = s] BY <1>6 DEF SetResult
  <2> QED BY <1>1, <1>6, <2>1 DEF SetResult
<1> QED BY <1>2, <1>3, <1>4, <1>5, <1>6

(* A settled node does not run again, and its result stays as it is.         *)
LEMMA SettledStays ==
  ASSUME IInv, [Next]_vars
  PROVE  /\ p' = p /\ processed \subseteq processed'
         /\ \A n \in Settled : /\ n \in Settled' /\ n \in Nodes
                               /\ results'[n] = results[n] /\ selects'[n] = selects[n]
<1>1. processed \subseteq Nodes BY DEF IInv, Types, TypeOK
<1>2. CASE EnterLayer
  <2>1. /\ p' = p /\ processed' = processed \cup Layer(p, processed)
        /\ active' \in Kept(Layer(p, processed) \ FallbackNodes)
        /\ UNCHANGED <<results, selects>>
    BY <1>2 DEF EnterLayer
  <2>2. active' \subseteq Layer(p, processed) BY <2>1 DEF Kept
  <2>3. Layer(p, processed) \cap processed = {} BY DEF Layer
  <2> QED BY <1>1, <2>1, <2>2, <2>3, PipelineFixed DEF Settled
<1>3. CASE Quiet BY <1>1, <1>3, PipelineFixed DEF Quiet, Settled
<1>4. ASSUME NEW n \in Nodes, Ran(n) \/ SetResult(n)
      PROVE  /\ p' = p /\ processed \subseteq processed'
             /\ \A m \in Settled : /\ m \in Settled' /\ m \in Nodes
                                   /\ results'[m] = results[m] /\ selects'[m] = selects[m]
  <2>1. \A m \in Settled : m \in Nodes \ {n} BY <1>1, <1>4, NodeEnds DEF Settled
  <2>2. UNCHANGED <<p, processed, active>> BY <1>4, NodeEnds
  <2>3. Settled' = Settled BY <2>2, PipelineFixed DEF Settled
  <2> QED BY <1>4, <2>1, <2>2, <2>3, NodeEnds
<1> QED BY <1>2, <1>3, <1>4, StepKinds

LEMMA LayeredInductive == ASSUME IInv, Layered, [Next]_vars PROVE Layered'
<1>1. /\ processed \subseteq Nodes /\ p' = p /\ FallbackNodes' = FallbackNodes
      /\ \A n \in Nodes : Predecessors(p, n)' = Predecessors(p, n)
  BY SettledStays, PipelineFixed DEF IInv, Types, TypeOK
<1>2. CASE EnterLayer
  <2> DEFINE L == Layer(p, processed)
  <2>1. /\ group = 0 /\ group' = 0 /\ active = {} /\ processed' = processed \cup L
        /\ active' \in Kept(L \ FallbackNodes)
        /\ status' = [n \in Nodes |-> IF n \in (L \ FallbackNodes) \ active' THEN "skipped"
                                      ELSE status[n]]
        /\ UNCHANGED <<results, selects>>
    BY <1>2 DEF EnterLayer
  <2>2. active' \subseteq L \ FallbackNodes BY <2>1 DEF Kept
  <2>3. \A n \in Nodes : n \in L <=> n \notin processed /\ Predecessors(p, n) \subseteq processed
    BY DEF Layer
  <2>4. L \subseteq Nodes BY DEF Layer
  <2> HIDE DEF L
  <2>5. \A n \in processed' : n \in Nodes /\ Predecessors(p, n) \subseteq processed
    BY <1>1, <2>1, <2>3, <2>4 DEF Layered
  <2>6. \A n \in processed' : Predecessors(p, n) \cap active' = {}
    BY <2>2, <2>3, <2>4, <2>5
  <2>7. \A n \in processed' : \A m \in Nodes :
           Predecessors(p, m) = Predecessors(p, n) => m \in processed'
    BY <2>1, <2>3, <2>5
  <2>8. \A n \in Nodes \ (processed' \cup FallbackNodes) :
           n \notin active' /\ status'[n] = "pending" /\ results'[n] = "none"
    BY <2>1, <2>2 DEF Layered
  <2> QED BY <1>1, <2>1, <2>5, <2>6, <2>7, <2>8 DEF Layered
<1>3. CASE Quiet
  <2>1. /\ UNCHANGED <<processed, results>> /\ (group' = 0 => group = 0 /\ active' \subseteq active)
        /\ active' \subseteq active \cup FallbackNodes
        /\ \A n \in Nodes \ FallbackNodes : status'[n] = status[n]
    BY <1>3 DEF Quiet
  <2> QED BY <1>1, <2>1 DEF Layered
<1>4. ASSUME NEW n \in Nodes, Ran(n) \/ SetResult(n) PROVE Layered'
  <2>1. /\ UNCHANGED <<processed, active, group>> /\ n \in processed \cup FallbackNodes
        /\ group = 0 => n \notin FallbackNodes
        /\ \A m \in Nodes \ {n} : status'[m] = status[m] /\ results'[m] = results[m]
    <3>1. n \in active BY <1>4, NodeEnds
    <3> QED BY <1>4, <3>1, NodeEnds DEF Layered
  <2>2. \A m \in Nodes \ (processed' \cup FallbackNodes) :
           m \notin active' /\ status'[m] = "pending" /\ results'[m] = "none"
    BY <2>1 DEF Layered
  <2>3. FallbackNodes \subseteq Nodes BY PipelineTypes DEF IInv, Types
  <2>4. group' = 0 => \A m \in FallbackNodes : results'[m] = "none"
    BY <2>1, <2>3 DEF Layered
  <2> QED BY <1>1, <2>1, <2>2, <2>4 DEF Layered
<1> QED BY <1>2, <1>3, <1>4, StepKinds

(* What the router of a branch says is settled when the branch is entered.   *)
LEMMA RouterSettled ==
  ASSUME IInv, Layered, NEW n \in processed, RouterBefore(n)
  PROVE  p.router[n] \in Settled
<1>1. p.router[n] \in processed \ FallbackNodes BY DEF RouterBefore, Layered
<1>2. CASE group = 0 BY <1>1, <1>2 DEF RouterBefore, Layered, Settled
<1>3. CASE group # 0
  <2>1. active \subseteq FallbackNodes BY <1>3 DEF IInv, Stages
  <2> QED BY <1>1, <2>1 DEF Settled
<1> QED BY <1>2, <1>3

LEMMA RoutesFixed ==
  ASSUME IInv, Layered, [Next]_vars, NEW n \in processed, RouterBefore(n)
  PROVE  /\ Selected(n)' = Selected(n) /\ results'[p.router[n]] = results[p.router[n]]
         /\ NoneBeside(n)' = NoneBeside(n)
         /\ OtherRoute(n) => OtherRoute(n)'
<1>1. /\ p' = p /\ Branches' = Branches /\ FallbackNodes' = FallbackNodes
      /\ \A m \in Nodes : Predecessors(p, m)' = Predecessors(p, m)
  BY SettledStays, PipelineFixed DEF Branches
<1>2. \A m \in Branches : p.router[m] \in Settled =>
         /\ Selected(m)' = Selected(m) /\ p.router[m] \in Settled'
  BY <1>1, SettledStays DEF Selected
<1>3. p.router[n] \in Settled /\ n \in Nodes BY RouterSettled DEF RouterBefore, Branches
<1>4. Selected(n)' = Selected(n) /\ results'[p.router[n]] = results[p.router[n]]
  BY <1>2, <1>3, SettledStays DEF RouterBefore
<1>5. NoneBeside(n)' = NoneBeside(n)
  <2>1. \A m \in Branches : p.router[m] = p.router[n] => Selected(m)' = Selected(m)
    BY <1>2, <1>3
  <2>2. \A m \in Branches : m \in Nodes BY DEF Branches
  <2> QED BY <1>1, <1>3, <2>1, <2>2 DEF NoneBeside
<1>6. OtherRoute(n) => OtherRoute(n)' BY <1>1, <1>2 DEF OtherRoute
<1> QED BY <1>4, <1>5, <1>6

(* What the filter leaves of the layer is routed right.                      *)
LEMMA EnteredRouted ==
  ASSUME IInv, Layered, EnterLayer, NEW n \in processed' \ processed, RouterBefore(n)
  PROVE  Routed(n)'
<1> DEFINE L == Layer(p, processed)
           nodes == L \ FallbackNodes
           others == (nodes \cap Branches) \ p.defaults
           plain == nodes \ Branches
           chosen == {m \in others : Selected(m)}
<1>1. /\ group = 0 /\ active = {} /\ processed' = processed \cup L
      /\ active' \in Kept(nodes)
      /\ status' = [m \in Nodes |-> IF m \in nodes \ active' THEN "skipped" ELSE status[m]]
      /\ UNCHANGED <<p, results, selects>>
  BY DEF EnterLayer
<1>2. n \in nodes \cap Branches /\ n \in Nodes
  BY <1>1 DEF RouterBefore, Branches
<1>3. /\ Branches' = Branches /\ FallbackNodes' = FallbackNodes
      /\ \A m \in Nodes : Predecessors(p, m)' = Predecessors(p, m)
      /\ \A m \in Nodes : Selected(m)' = Selected(m)
  BY <1>1, PipelineFixed DEF Branches, Selected
<1>4. \/ others = {} /\ active' = nodes
      \/ others # {} /\ chosen = {} /\ active' = plain \cup (nodes \cap p.defaults)
      \/ \E m \in chosen : active' = plain \cup {m}
  BY <1>1 DEF Kept
<1>5. status[n] = "pending" BY <1>2 DEF Layered, Layer
<1>6. status'[n] = IF n \in active' THEN "pending" ELSE "skipped" BY <1>1, <1>2, <1>5
<1>7. ASSUME NEW m \in Branches \ FallbackNodes, Predecessors(p, m) = Predecessors(p, n),
             m \notin p.defaults
      PROVE  m \in others
  <2>1. m \in Nodes /\ Predecessors(p, m) \subseteq processed /\ n \notin processed
    BY <1>2, <1>7 DEF Branches, Layer
  <2>2. m \notin processed BY <1>2, <1>7, <2>1 DEF Layered
  <2> QED BY <1>7, <2>1, <2>2 DEF Layer
<1>8. n \in active' => Selected(n) \/ (n \in p.defaults /\ NoneBeside(n))
  <2> SUFFICES ASSUME n \in active', ~ Selected(n)
               PROVE  n \in p.defaults /\ NoneBeside(n)
    OBVIOUS
  <2>1. chosen = {} /\ n \in p.defaults BY <1>2, <1>4
  <2> QED BY <1>7, <2>1 DEF NoneBeside
<1>9. ASSUME n \notin active', Selected(n) PROVE OtherRoute(n)'
  <2>1. PICK m \in chosen : m # n BY <1>2, <1>4, <1>9
  <2>2. Selected(m) /\ m \in Branches /\ m \in Nodes BY <2>1 DEF Branches
  <2>3. p.router[m] # p.router[n] BY <1>9, <2>1, <2>2 DEF Selected
  <2>4. p.router[m] \in Nodes /\ results[p.router[m]] # "none"
    <3>1. p.router \in [Nodes -> Nodes \cup {NoNode}] BY EnginePipelines DEF IInv, Types
    <3> QED BY <2>2, <3>1 DEF Selected, Branches
  <2>5. p.router[m] \in Settled BY <1>1, <2>4 DEF Layered, Settled
  <2>6. p.router[m] \in Settled' BY <2>5, SettledStays DEF Next
  <2> QED BY <1>1, <1>3, <2>2, <2>3, <2>6 DEF OtherRoute
<1>10. NoneBeside(n)' = NoneBeside(n)
  <2>1. \A m \in Branches : m \in Nodes BY DEF Branches
  <2> QED BY <1>1, <1>2, <1>3, <2>1 DEF NoneBeside
<1> HIDE DEF L, nodes, others, plain, chosen
<1> QED BY <1>1, <1>2, <1>3, <1>6, <1>8, <1>9, <1>10 DEF Routed

(* And the node's own look at its route agrees with the filter's.            *)
LEMMA RoutesInductive == ASSUME IInv, RInv, [Next]_vars PROVE RInv'
<1>1. Layered' BY LayeredInductive DEF RInv
<1>2. ASSUME NEW n \in Nodes, RouterBefore(n)' PROVE Routed(n)'
  <2>1. /\ p' = p /\ processed \subseteq processed' /\ processed' \subseteq Nodes
        /\ FallbackNodes' = FallbackNodes
    BY SettledStays, StepIsGood, PipelineFixed DEF IInv, Types, TypeOK
  <2>2. RouterBefore(n) BY <1>2, <2>1, PipelineFixed DEF RouterBefore, Branches
  <2>3. n \notin FallbackNodes BY <2>2 DEF RouterBefore
  <2>4. CASE n \notin processed'
    <3>1. n \notin active' /\ status'[n] = "pending" BY <1>1, <2>1, <2>3, <2>4 DEF Layered
    <3> QED BY <3>1 DEF Routed
  <2>5. CASE n \in processed' \ processed
    <3>1. EnterLayer BY <2>5, StepKinds, NodeEnds DEF Quiet
    <3> QED BY <2>2, <2>5, <3>1, EnteredRouted DEF RInv
  <2>6. CASE n \in processed
    <3>1. /\ Selected(n)' = Selected(n) /\ results'[p.router[n]] = results[p.router[n]]
          /\ NoneBeside(n)' = NoneBeside(n) /\ (OtherRoute(n) => OtherRoute(n)')
          /\ Routed(n)
      BY <2>2, <2>6, RoutesFixed DEF RInv
    <3>2. n \in active' => n \in active
      <4>1. n \in Settled' => n \notin active' BY DEF Settled
      <4>2. n \notin active => n \in Settled BY <2>3, <2>6 DEF Settled
      <4> QED BY <4>1, <4>2, SettledStays
    <3>3. CASE status'[n] = status[n] BY <2>1, <3>1, <3>2, <3>3 DEF Routed
    <3>4. CASE Ran(n)
      <4>1. n \in active BY <3>4, NodeEnds
      <4>2. status \in [Nodes -> {"pending", "success", "failed", "skipped"}]
        BY DEF IInv, Types, TypeOK
      <4>3. CASE Skip(n)
        <5>1. status'[n] = "skipped" /\ (n \in p.conditional \/ NotRouted(n))
          BY <4>2, <4>3 DEF Skip
        <5>2. Selected(n) => ~ NotRouted(n)
          BY EngineConstants DEF Selected, NotRouted
        <5> QED BY <2>1, <3>1, <3>2, <5>1, <5>2 DEF Routed
      <4>4. CASE Succeed(n) \/ Fail(n)
        <5>1. status'[n] \in {"success", "failed"} /\ ~ NotRouted(n)
          BY <4>2, <4>4 DEF Succeed, Fail
        <5>2. results[p.router[n]] # "none" BY <2>2, <5>1 DEF NotRouted, RouterBefore
        <5> QED BY <2>1, <3>1, <3>2, <4>1, <5>1, <5>2 DEF Routed
      <4> QED BY <3>4, <4>3, <4>4 DEF Ran
    <3>5. status'[n] = status[n] \/ Ran(n)
      <4>1. CASE EnterLayer BY <2>6, <4>1 DEF EnterLayer, Layer
      <4>2. CASE Quiet BY <2>3, <4>2 DEF Quiet
      <4>3. ASSUME NEW m \in Nodes, Ran(m) \/ SetResult(m) PROVE status'[n] = status[n] \/ Ran(n)
        BY <4>3, NodeEnds
      <4> QED BY <4>1, <4>2, <4>3, StepKinds
    <3> QED BY <3>3, <3>4, <3>5
  <2> QED BY <2>1, <2>4, <2>5, <2>6
<1> QED BY <1>1, <1>2 DEF RInv

LEMMA RoutesInitially == Init => RInv
<1> SUFFICES ASSUME Init PROVE RInv OBVIOUS
<1>1. FallbackNodes \subseteq Nodes BY PipelineTypes DEF Init
<1>2. Layered BY <1>1 DEF Init, Layered, All
<1>3. \A n \in Nodes : Routed(n) BY DEF Init, Routed, All
<1> QED BY <1>2, <1>3 DEF RInv

(* With any routers, branches, defaults and conditions, and however the nodes *)
(* of a layer interleave: a branch whose router comes before it runs only if  *)
(* the router names it or, as a default, when it names none beside it; one    *)
(* that is named is left out for its condition or for another router's branch *)
(* only (filterRoutedNodes, executeNode).                                     *)
THEOREM BranchesFollowRoutes == Spec => []RoutesFollowed
<1>1. IInv /\ RInv => RoutesFollowed
  <2> SUFFICES ASSUME IInv, RInv, NEW n \in Branches \ FallbackNodes,
                      p.router[n] \in Predecessors(p, n) \ FallbackNodes
               PROVE  LET router == p.router[n]
                          beside == {m \in Branches \ FallbackNodes :
                                        /\ p.router[m] = router
                                        /\ Predecessors(p, m) = Predecessors(p, n)}
                      IN  /\ status[n] \in {"success", "failed"} =>
                                \/ Selected(n)
                                \/ /\ n \in p.defaults /\ results[router] # "none"
                                   /\ \A m \in beside \ p.defaults : ~ Selected(m)
                          /\ status[n] = "skipped" /\ Selected(n) =>
                                \/ n \in p.conditional
                                \/ \E m \in Branches : Selected(m) /\ p.router[m] # router
    BY DEF RoutesFollowed
  <2>1. Routed(n) BY DEF RInv, RouterBefore, Branches
  <2> QED BY <2>1 DEF Routed, NoneBeside, OtherRoute
<1>2. Init => IInv /\ RInv BY InitIsGood, RoutesInitially
<1>3. IInv /\ RInv /\ [Next]_vars => (IInv /\ RInv)' BY StepIsGood, RoutesInductive
<1> QED BY <1>1, <1>2, <1>3, PTL DEF Spec

-------------------------------------------------------------------------------
(* Executions end *)

At(f, s) == {n \in Nodes : f[n] = s}
Size(f, s) == Cardinality(At(f, s))

(* The steps that the nodes of the layer, or the fallback node, still have. *)
Work(f) == 4 * Size(f, "waiting") + 3 * Size(f, "running")
               + 2 * Size(f, "store") + Size(f, "current")

(* The fallback nodes that the group may still try. *)
Tries == IF group \notin DOMAIN p.groups THEN 0
         ELSE IF attempts = 0 THEN Len(Group.fallbacks) + 1
         ELSE Cardinality(candidates)

(* What is left of an execution, the coarsest part first. *)
Remaining == <<IF outcome = "running" THEN 1 ELSE 0, Len(p.groups) + 1 - group,
               Cardinality(Nodes \ processed), Tries, Work(step),
               IF active = {} THEN 0 ELSE 1>>

Measures == [1 .. 6 -> Nat]
Less == {ss \in Nat \X Nat : ss[1] < ss[2]}
Smaller == LexProductOrdering(Less, Nat, 6)

LEMMA LessWellFounded == IsWellFoundedOn(Less, Nat)
<1>1. Less = OpToRel(<, Nat) BY SMT DEF Less, OpToRel
<1> QED BY <1>1, NatLessThanWellFounded, Zenon

(* There is no endless sequence of measures each of which is below the one    *)
(* before it: with StepsUseUp, no execution takes steps forever.              *)
THEOREM NoEndlessDescent == IsWellFoundedOn(Smaller, Measures)
BY LessWellFounded, WFLexProductOrdering, Zenon DEF Smaller, Measures

LEMMA Lexicographic ==
  ASSUME NEW a \in Nat, NEW b \in Nat, NEW c \in Nat, NEW d \in Nat, NEW e \in Nat,
         NEW f \in Nat,
         NEW a2 \in Nat, NEW b2 \in Nat, NEW c2 \in Nat, NEW d2 \in Nat, NEW e2 \in Nat,
         NEW f2 \in Nat,
         \/ a2 < a
         \/ a2 = a /\ b2 < b
         \/ a2 = a /\ b2 = b /\ c2 < c
         \/ a2 = a /\ b2 = b /\ c2 = c /\ d2 < d
         \/ a2 = a /\ b2 = b /\ c2 = c /\ d2 = d /\ e2 < e
         \/ a2 = a /\ b2 = b /\ c2 = c /\ d2 = d /\ e2 = e /\ f2 < f
  PROVE  <<<<a2, b2, c2, d2, e2, f2>>, <<a, b, c, d, e, f>>>> \in Smaller
<1> DEFINE s == <<a2, b2, c2, d2, e2, f2>>
           t == <<a, b, c, d, e, f>>
<1>1. s \in Measures /\ t \in Measures BY DEF Measures
<1>2. /\ s[1] = a2 /\ s[2] = b2 /\ s[3] = c2 /\ s[4] = d2 /\ s[5] = e2 /\ s[6] = f2
      /\ t[1] = a /\ t[2] = b /\ t[3] = c /\ t[4] = d /\ t[5] = e /\ t[6] = f
  OBVIOUS
<1> HIDE DEF s, t
<1>3. \E j \in 1 .. 6 : /\ \A i \in 1 .. (j - 1) : s[i] = t[i]
                        /\ s[j] < t[j] /\ s[j] \in Nat /\ t[j] \in Nat
  <2>1. CASE a2 < a BY <2>1, <1>2
  <2>2. CASE a2 = a /\ b2 < b BY <2>2, <1>2
  <2>3. CASE a2 = a /\ b2 = b /\ c2 < c BY <2>3, <1>2
  <2>4. CASE a2 = a /\ b2 = b /\ c2 = c /\ d2 < d BY <2>4, <1>2
  <2>5. CASE a2 = a /\ b2 = b /\ c2 = c /\ d2 = d /\ e2 < e BY <2>5, <1>2
  <2>6. CASE a2 = a /\ b2 = b /\ c2 = c /\ d2 = d /\ e2 = e /\ f2 < f BY <2>6, <1>2
  <2> QED BY <2>1, <2>2, <2>3, <2>4, <2>5, <2>6
<1>4. PICK j \in 1 .. 6 : /\ \A i \in 1 .. (j - 1) : s[i] = t[i]
                          /\ <<s[j], t[j]>> \in Less
  BY <1>3 DEF Less
<1>5. <<s, t>> \in Smaller
  BY <1>1, <1>4 DEF Smaller, LexProductOrdering, Measures
<1> QED BY <1>5 DEF s, t

LEMMA SizeTypes ==
  ASSUME NEW f
  PROVE  /\ \A s : IsFiniteSet(At(f, s)) /\ Size(f, s) \in Nat
         /\ Work(f) \in Nat
<1>1. \A s : At(f, s) \subseteq Nodes BY DEF At
<1>2. \A s : IsFiniteSet(At(f, s)) BY <1>1, NodesAssumption, FS_Subset
<1>3. \A s : Size(f, s) \in Nat BY <1>2, FS_CardinalityType DEF Size
<1>4. Work(f) \in Nat BY <1>3 DEF Work
<1> QED BY <1>2, <1>3, <1>4

LEMMA RemainingTypes ==
  ASSUME IInv
  PROVE  /\ Len(p.groups) + 1 - group \in Nat /\ Cardinality(Nodes \ processed) \in Nat
         /\ Tries \in Nat /\ Work(step) \in Nat
<1>1. /\ Len(p.groups) \in Nat /\ group \in 0 .. Len(p.groups) + 1
      /\ DOMAIN p.groups = 1 .. Len(p.groups)
  BY GroupRange DEF IInv, Types, TypeOK
<1>2. IsFiniteSet(Nodes \ processed) BY NodesAssumption, FS_Subset
<1>3. Cardinality(Nodes \ processed) \in Nat BY <1>2, FS_CardinalityType
<1>4. Tries \in Nat
  <2>1. CASE group \in DOMAIN p.groups
    <3>1. /\ Group.fallbacks \in Seq(Nodes) /\ candidates \subseteq DOMAIN Group.fallbacks
      BY <2>1, InGroupFacts
    <3>2. Len(Group.fallbacks) \in Nat /\ DOMAIN Group.fallbacks = 1 .. Len(Group.fallbacks)
      BY <3>1
    <3>3. IsFiniteSet(candidates)
      <4>1. IsFiniteSet(1 .. Len(Group.fallbacks)) BY <3>2, FS_Interval
      <4> QED BY <3>1, <3>2, <4>1, FS_Subset
    <3>4. Cardinality(candidates) \in Nat BY <3>3, FS_CardinalityType
    <3> QED BY <3>2, <3>4 DEF Tries
  <2>2. CASE group \notin DOMAIN p.groups BY <2>2 DEF Tries
  <2> QED BY <2>1, <2>2
<1> QED BY <1>1, <1>3, <1>4, SizeTypes

(* A node that goes on leaves one place and comes to another. *)
LEMMA WorkSteps ==
  ASSUME NEW f, NEW g, NEW n \in Nodes, NEW x, NEW y, x # y,
         f[n] = x, g[n] = y, \A m \in Nodes \ {n} : g[m] = f[m]
  PROVE  /\ Size(g, x) = Size(f, x) - 1
         /\ Size(g, y) = Size(f, y) + 1
         /\ \A s : s # x /\ s # y => Size(g, s) = Size(f, s)
<1>1. At(g, x) = At(f, x) \ {n} /\ n \in At(f, x) BY DEF At
<1>2. At(g, y) = At(f, y) \cup {n} /\ n \notin At(f, y) BY DEF At
<1>3. \A s : s # x /\ s # y => At(g, s) = At(f, s) BY DEF At
<1>4. IsFiniteSet(At(f, x)) /\ IsFiniteSet(At(f, y)) BY SizeTypes
<1>5. Cardinality(At(g, x)) = Cardinality(At(f, x)) - 1 BY <1>1, <1>4, FS_RemoveElement
<1>6. Cardinality(At(g, y)) = Cardinality(At(f, y)) + 1 BY <1>2, <1>4, FS_AddElement
<1> QED BY <1>3, <1>5, <1>6 DEF Size

LEMMA NodeUsesUp ==
  ASSUME IInv, NEW n \in Nodes, Node(n)
  PROVE  /\ UNCHANGED <<p, processed, active, group, candidates, attempts, outcome>>
         /\ Work(step') < Work(step)
<1>1. step \in [Nodes -> {"off", "waiting", "running", "store", "current", "finished"}]
  BY DEF IInv, Types, TypeOK
<1>2. UNCHANGED <<p, processed, active, group, candidates, attempts, outcome>>
  BY DEF Node, Acquire, Skip, Succeed, Fail, SetResult, SetCurrentNode
<1>3. \E x, y : /\ step[n] = x /\ step' = [step EXCEPT ![n] = y]
                /\ \/ x = "waiting" /\ y = "running"
                   \/ x = "running" /\ y \in {"store", "finished"}
                   \/ x = "store" /\ y = "current"
                   \/ x = "current" /\ y = "finished"
  <2>1. CASE Acquire(n) BY <2>1 DEF Acquire
  <2>2. CASE Skip(n) BY <2>2 DEF Skip
  <2>3. CASE Succeed(n) BY <2>3 DEF Succeed
  <2>4. CASE Fail(n) BY <2>4 DEF Fail
  <2>5. CASE SetResult(n) BY <2>5 DEF SetResult
  <2>6. CASE SetCurrentNode(n) BY <2>6 DEF SetCurrentNode
  <2> QED BY <2>1, <2>2, <2>3, <2>4, <2>5, <2>6 DEF Node
<1>4. PICK x, y : /\ step[n] = x /\ step' = [step EXCEPT ![n] = y]
                  /\ \/ x = "waiting" /\ y = "running"
                     \/ x = "running" /\ y \in {"store", "finished"}
                     \/ x = "store" /\ y = "current"
                     \/ x = "current" /\ y = "finished"
  BY <1>3
<1>5. step'[n] = y /\ \A m \in Nodes \ {n} : step'[m] = step[m] BY <1>1, <1>4
<1>6. x # y BY <1>4
<1>7. /\ Size(step', x) = Size(step, x) - 1
      /\ Size(step', y) = Size(step, y) + 1
      /\ \A s : s # x /\ s # y => Size(step', s) = Size(step, s)
  <2> SUFFICES ASSUME NEW f, NEW g, f = step, g = step'
               PROVE  /\ Size(g, x) = Size(f, x) - 1
                      /\ Size(g, y) = Size(f, y) + 1
                      /\ \A s : s # x /\ s # y => Size(g, s) = Size(f, s)
    OBVIOUS
  <2>1. f[n] = x /\ g[n] = y /\ \A m \in Nodes \ {n} : g[m] = f[m] BY <1>4, <1>5
  <2> QED BY <1>6, <2>1, WorkSteps
<1>8. \A s : Size(step, s) \in Nat /\ Size(step', s) \in Nat BY SizeTypes
<1>9. Work(step') < Work(step)
  <2>1. CASE x = "waiting" /\ y = "running" BY <2>1, <1>7, <1>8 DEF Work
  <2>2. CASE x = "running" /\ y = "store" BY <2>2, <1>7, <1>8 DEF Work
  <2>3. CASE x = "running" /\ y = "finished" BY <2>3, <1>7, <1>8 DEF Work
  <2>4. CASE x = "store" /\ y = "current" BY <2>4, <1>7, <1>8 DEF Work
  <2>5. CASE x = "current" /\ y = "finished" BY <2>5, <1>7, <1>8 DEF Work
  <2> QED BY <1>4, <2>1, <2>2, <2>3, <2>4, <2>5
<1> QED BY <1>2, <1>9

LEMMA LayerUsesUp ==
  ASSUME IInv, EnterLayer
  PROVE  /\ UNCHANGED <<p, group, outcome>>
         /\ Cardinality(Nodes \ processed') < Cardinality(Nodes \ processed)
<1> DEFINE L == Layer(p, processed)
           before == Nodes \ processed
           after == Nodes \ processed'
<1>1. UNCHANGED <<p, group, outcome>> /\ L # {} /\ processed' = processed \cup L
  BY DEF EnterLayer
<1>2. L \subseteq before BY DEF Layer
<1>3. after \subseteq before /\ after # before BY <1>1, <1>2
<1>4. IsFiniteSet(before) BY NodesAssumption, FS_Subset
<1>5. Cardinality(after) < Cardinality(before)
  <2> HIDE DEF before, after
  <2>1. IsFiniteSet(after) /\ Cardinality(after) <= Cardinality(before)
        /\ (Cardinality(before) = Cardinality(after) => after = before)
    BY <1>3, <1>4, FS_Subset
  <2>2. Cardinality(after) \in Nat /\ Cardinality(before) \in Nat
    BY <2>1, <1>4, FS_CardinalityType
  <2> QED BY <1>3, <2>1, <2>2
<1> QED BY <1>1, <1>5

LEMMA FilterUsesUp == ASSUME IInv, Filter PROVE Tries' < Tries
<1>1. /\ group \in DOMAIN p.groups /\ attempts = 0 /\ attempts' = 1
      /\ UNCHANGED <<p, group>>
      /\ candidates' \subseteq DOMAIN Group.fallbacks
  BY DEF Filter, InGroup
<1>2. Group.fallbacks \in Seq(Nodes) BY <1>1, InGroupFacts
<1>3. /\ Len(Group.fallbacks) \in Nat
      /\ DOMAIN Group.fallbacks = 1 .. Len(Group.fallbacks)
  BY <1>2
<1>4. /\ IsFiniteSet(1 .. Len(Group.fallbacks))
      /\ Cardinality(1 .. Len(Group.fallbacks)) = Len(Group.fallbacks)
  BY <1>3, FS_Interval
<1>5. Cardinality(candidates') <= Len(Group.fallbacks) /\ IsFiniteSet(candidates')
  BY <1>1, <1>3, <1>4, FS_Subset
<1>6. Cardinality(candidates') \in Nat BY <1>5, FS_CardinalityType
<1>7. Tries = Len(Group.fallbacks) + 1 BY <1>1 DEF Tries
<1>8. Tries' = Cardinality(candidates') BY <1>1 DEF Tries
<1> QED BY <1>3, <1>5, <1>6, <1>7, <1>8

LEMMA TryUsesUp == ASSUME IInv, TryFallback PROVE Tries' < Tries
<1>1. /\ group \in DOMAIN p.groups /\ attempts > 0 /\ attempts' = attempts + 1
      /\ UNCHANGED <<p, group>>
  BY DEF TryFallback, InGroup
<1>2. PICK i \in candidates : candidates' = candidates \ {i} BY DEF TryFallback
<1>3. Group.fallbacks \in Seq(Nodes) /\ candidates \subseteq DOMAIN Group.fallbacks
  BY <1>1, InGroupFacts
<1>4. IsFiniteSet(candidates)
  <2>1. /\ Len(Group.fallbacks) \in Nat
        /\ DOMAIN Group.fallbacks = 1 .. Len(Group.fallbacks)
    BY <1>3
  <2>2. IsFiniteSet(1 .. Len(Group.fallbacks)) BY <2>1, FS_Interval
  <2> QED BY <1>3, <2>1, <2>2, FS_Subset
<1>5. Cardinality(candidates') = Cardinality(candidates) - 1
  BY <1>2, <1>4, FS_RemoveElement
<1>6. Cardinality(candidates) \in Nat BY <1>4, FS_CardinalityType
<1>7. attempts \in Nat BY DEF IInv, Types, TypeOK
<1>8. Tries = Cardinality(candidates) /\ Tries' = Cardinality(candidates')
  BY <1>1, <1>7 DEF Tries
<1> QED BY <1>5, <1>6, <1>8

UsesUp == <<Remaining', Remaining>> \in Smaller

LEMMA StepUsesUp == ASSUME IInv, Next, ~ UNCHANGED vars PROVE UsesUp
<1> DEFINE running == IF outcome = "running" THEN 1 ELSE 0
           groups == Len(p.groups) + 1 - group
           layers == Cardinality(Nodes \ processed)
           barrier == IF active = {} THEN 0 ELSE 1
<1>1. IInv' BY StepIsGood
<1>2. /\ running \in Nat /\ groups \in Nat /\ layers \in Nat /\ Tries \in Nat
      /\ Work(step) \in Nat /\ barrier \in Nat
  BY RemainingTypes
<1>3. /\ running' \in Nat /\ groups' \in Nat /\ layers' \in Nat /\ Tries' \in Nat
      /\ Work(step') \in Nat /\ barrier' \in Nat
  <2>1. (/\ Len(p.groups) + 1 - group \in Nat /\ Cardinality(Nodes \ processed) \in Nat
         /\ Tries \in Nat /\ Work(step) \in Nat)'
    BY <1>1, RemainingTypes, PTL
  <2> QED BY <2>1
<1>4. \/ running' < running
      \/ running' = running /\ groups' < groups
      \/ running' = running /\ groups' = groups /\ layers' < layers
      \/ running' = running /\ groups' = groups /\ layers' = layers /\ Tries' < Tries
      \/ /\ running' = running /\ groups' = groups /\ layers' = layers /\ Tries' = Tries
         /\ Work(step') < Work(step)
      \/ /\ running' = running /\ groups' = groups /\ layers' = layers /\ Tries' = Tries
         /\ Work(step') = Work(step) /\ barrier' < barrier
  <2>1. CASE EnterLayer BY <2>1, LayerUsesUp
  <2>2. CASE LeaveLayer
    <3>1. /\ outcome = "running" /\ active # {} /\ active' = {}
          /\ outcome' \in {outcome, "error"}
          /\ UNCHANGED <<p, group, processed, attempts, candidates, step>>
      BY <2>2 DEF LeaveLayer
    <3>2. Tries' = Tries BY <3>1 DEF Tries, Group
    <3> QED BY <3>1, <3>2
  <2>3. CASE LayersDone
    <3>1. group = 0 /\ group' = 1 /\ UNCHANGED <<p, outcome>> BY <2>3 DEF LayersDone
    <3>2. Len(p.groups) \in Nat BY GroupRange DEF IInv, Types
    <3> QED BY <3>1, <3>2
  <2>4. ASSUME NEW n \in Nodes, Node(n)
        PROVE  /\ running' = running /\ groups' = groups /\ layers' = layers /\ Tries' = Tries
               /\ Work(step') < Work(step)
    <3>1. /\ UNCHANGED <<p, processed, group, candidates, attempts, outcome>>
          /\ Work(step') < Work(step)
      BY <2>4, NodeUsesUp
    <3>2. Tries' = Tries BY <3>1 DEF Tries, Group
    <3> QED BY <3>1, <3>2
  <2>5. CASE NothingToDo
    <3>1. group \in DOMAIN p.groups /\ group' = group + 1 /\ UNCHANGED <<p, outcome>>
      BY <2>5 DEF NothingToDo, InGroup
    <3>2. Len(p.groups) \in Nat /\ DOMAIN p.groups = 1 .. Len(p.groups)
      BY GroupRange DEF IInv, Types
    <3> QED BY <3>1, <3>2
  <2>6. CASE Filter
    <3>1. UNCHANGED <<p, group, processed, outcome>> BY <2>6 DEF Filter
    <3> QED BY <2>6, <3>1, FilterUsesUp
  <2>7. CASE TryFallback
    <3>1. UNCHANGED <<p, group, processed, outcome>> BY <2>7 DEF TryFallback
    <3> QED BY <2>7, <3>1, TryUsesUp
  <2>8. CASE FallbackDone
    <3>1. /\ group \in DOMAIN p.groups /\ active # {} /\ active' = {}
          /\ UNCHANGED <<p, processed, step, outcome>>
          /\ group' = group + 1 \/ UNCHANGED <<group, candidates, attempts>>
      BY <2>8 DEF FallbackDone
    <3>2. CASE group' = group + 1
      <4>1. Len(p.groups) \in Nat /\ DOMAIN p.groups = 1 .. Len(p.groups)
        BY GroupRange DEF IInv, Types
      <4> QED BY <3>1, <3>2, <4>1
    <3>3. CASE UNCHANGED <<group, candidates, attempts>>
      <4>1. Tries' = Tries BY <3>1, <3>3 DEF Tries, Group
      <4> QED BY <3>1, <3>3, <4>1
    <3> QED BY <3>1, <3>2, <3>3
  <2>9. CASE GroupFails
    <3>1. outcome = "running" /\ outcome' = "error" BY <2>9 DEF GroupFails, InGroup
    <3> QED BY <3>1
  <2>10. CASE Answer
    <3>1. outcome = "running" /\ outcome' \in {"error", "answer"} BY <2>10 DEF Answer
    <3> QED BY <3>1
  <2>11. ~ Done BY DEF Done
  <2> HIDE DEF running, groups, layers, barrier
  <2> QED BY <2>1, <2>2, <2>3, <2>4, <2>5, <2>6, <2>7, <2>8, <2>9, <2>10, <2>11 DEF Next
<1>5. /\ Remaining = <<running, groups, layers, Tries, Work(step), barrier>>
      /\ Remaining' = <<running', groups', layers', Tries', Work(step'), barrier'>>
  BY DEF Remaining
<1> HIDE DEF running, groups, layers, barrier
<1>6. <<<<running', groups', layers', Tries', Work(step'), barrier'>>,
        <<running, groups, layers, Tries, Work(step), barrier>>>> \in Smaller
  BY <1>2, <1>3, <1>4, Lexicographic, ZenonT(30)
<1> QED BY <1>5, <1>6 DEF UsesUp

(* Every step of an execution, of whichever node, brings it nearer to its     *)
(* end, for any layers, parallel nodes, groups and attempts: nothing is ever  *)
(* started over (executePipeline, executeFallbackGroup).                      *)
THEOREM StepsUseUp == Spec => [][UsesUp]_vars
<1>1. IInv /\ [Next]_vars => [UsesUp]_vars BY StepUsesUp
<1> QED BY <1>1, IInvHolds, PTL DEF Spec

(* And none gets stuck. *)

Started == \A n \in active : step[n] # "off"

(* What a step of a node needs; one that waits needs room in the semaphore. *)
MayStep(n) == \/ step[n] \in {"running", "current"}
              \/ step[n] = "store" /\ Selections(n) # {}
              \/ /\ step[n] = "waiting"
                 /\ Cardinality({m \in Nodes : Running(m)}) < p.limit

(* What the steps of the engine itself need. *)
MayGoOn == \/ /\ group = 0 /\ active = {}
              /\ Kept(Layer(p, processed) \ FallbackNodes) # {}
           \/ active # {} /\ Finished /\ group \in {0} \cup DOMAIN p.groups
           \/ InGroup /\ (~ PrimaryFailed \/ attempts = 0)
           \/ /\ InGroup /\ attempts > 0
              /\ candidates = {} \/ attempts >= MaxAttempts
           \/ /\ InGroup /\ attempts > 0 /\ attempts < MaxAttempts
              /\ \E i \in candidates : \A j \in candidates : i <= j
           \/ group = Len(p.groups) + 1

GoesOn == outcome = "running" => MayGoOn \/ \E n \in active : MayStep(n)

LEMMA StartedStays == ASSUME IInv, Started, [Next]_vars PROVE Started'
<1>1. step \in [Nodes -> {"off", "waiting", "running", "store", "current", "finished"}]
      /\ active \subseteq Nodes
  BY DEF IInv, Types, TypeOK
<1>2. CASE EnterLayer
  <2>1. step' = [n \in Nodes |-> IF n \in active' THEN "waiting" ELSE "off"]
    BY <1>2 DEF EnterLayer
  <2>2. active' \subseteq Nodes BY StepIsGood DEF IInv, Types, TypeOK
  <2> QED BY <2>1, <2>2 DEF Started
<1>3. CASE TryFallback
  <2>1. step' = [n \in Nodes |-> IF n \in active' THEN "running" ELSE "off"]
    BY <1>3 DEF TryFallback
  <2>2. active' \subseteq Nodes BY StepIsGood DEF IInv, Types, TypeOK
  <2> QED BY <2>1, <2>2 DEF Started
<1>4. ASSUME NEW n \in Nodes, Node(n) PROVE Started'
  <2>1. active' = active /\ \E y : y # "off" /\ step' = [step EXCEPT ![n] = y]
    BY <1>4 DEF Node, Acquire, Skip, Succeed, Fail, SetResult, SetCurrentNode
  <2> QED BY <1>1, <2>1 DEF Started
<1>5. CASE LeaveLayer \/ FallbackDone BY <1>5 DEF LeaveLayer, FallbackDone, Started
<1>6. CASE LayersDone \/ NothingToDo \/ Filter \/ GroupFails \/ Answer \/ Done \/ UNCHANGED vars
  BY <1>6 DEF LayersDone, NothingToDo, Filter, GroupFails, Answer, Done, Started, vars
<1> QED BY <1>2, <1>3, <1>4, <1>5, <1>6 DEF Next

(* The node that holds a place in the semaphore can step, and if there is     *)
(* none there is room for one that waits.                                     *)
LEMMA NodesGoOn ==
  ASSUME IInv, Started, active # {}, ~ Finished
  PROVE  \E n \in active : MayStep(n)
<1>1. /\ step \in [Nodes -> {"off", "waiting", "running", "store", "current", "finished"}]
      /\ active \subseteq Nodes /\ p.limit \in Nat \ {0}
  BY EnginePipelines DEF IInv, Types, TypeOK
<1>2. \A n : Selections(n) # {}
  BY DEF Selections
<1>3. CASE \E m \in Nodes : Running(m)
  <2>1. PICK m \in Nodes : step[m] \in {"running", "store", "current"}
    BY <1>3 DEF Running
  <2>2. m \in active BY <2>1, Stepping
  <2> QED BY <1>2, <2>1, <2>2 DEF MayStep
<1>4. CASE ~ \E m \in Nodes : Running(m)
  <2>1. PICK n \in active : step[n] # "finished" BY DEF Finished
  <2>2. step[n] = "waiting" BY <1>1, <1>4, <2>1 DEF Started, Running
  <2>3. {m \in Nodes : Running(m)} = {} BY <1>4
  <2>4. Cardinality({m \in Nodes : Running(m)}) = 0 BY <2>3, FS_EmptySet
  <2> QED BY <1>1, <2>2, <2>4 DEF MayStep
<1> QED BY <1>3, <1>4

(* A set of numbers that is not empty has a least one. *)
LEMMA LeastOf ==
  ASSUME NEW S \in SUBSET Nat, S # {}
  PROVE  \E i \in S : \A j \in S : i <= j
<1>1. PICK i \in S : \A j \in S : ~ (<<j, i>> \in Less)
  BY LessWellFounded, WFMin, Zenon
<1>2. \A j \in S : ~ (j < i) BY <1>1 DEF Less
<1>3. \A j \in S : i <= j BY <1>2
<1> QED BY <1>3

LEMMA EngineGoesOn ==
  ASSUME IInv, outcome = "running", active = {} \/ Finished
  PROVE  MayGoOn
<1>1. CASE active # {} BY <1>1 DEF IInv, Stages, MayGoOn
<1>2. CASE active = {} /\ group = 0
  <2>1. \A S : Kept(S) # {} BY DEF Kept
  <2> QED BY <1>2, <2>1 DEF MayGoOn
<1>3. CASE active = {} /\ group # 0
  <2>1. /\ Len(p.groups) \in Nat /\ group \in 0 .. Len(p.groups) + 1
        /\ DOMAIN p.groups = 1 .. Len(p.groups) /\ attempts \in Nat
    BY GroupRange DEF IInv, Types, TypeOK
  <2>2. CASE group = Len(p.groups) + 1 BY <2>2 DEF MayGoOn
  <2>3. CASE group \in DOMAIN p.groups
    <3>1. InGroup BY <1>3, <2>3 DEF InGroup
    <3>2. /\ Group.fallbacks \in Seq(Nodes) /\ candidates \subseteq DOMAIN Group.fallbacks
      BY <2>3, InGroupFacts
    <3>3. candidates # {} => \E i \in candidates : \A j \in candidates : i <= j
      BY <3>2, LeastOf
    <3>4. Group.maxAttempts \in Nat /\ Len(Group.fallbacks) \in Nat
      <4>1. Group \in Groups BY <2>3, EnginePipelines DEF IInv, Types, Group
      <4> QED BY <4>1, <3>2 DEF Groups
    <3>5. MaxAttempts \in Nat BY <3>4 DEF MaxAttempts
    <3> QED BY <2>1, <3>1, <3>3, <3>5 DEF MayGoOn
  <2> QED BY <1>3, <2>1, <2>2, <2>3
<1> QED BY <1>1, <1>2, <1>3

(* No execution gets stuck before it has its outcome: while nodes run, one of *)
(* them can take its next step, whatever the limit of the semaphore; when     *)
(* none does, there is a layer, a barrier, a group or an answer to go on with.*)
THEOREM NeverStuck == Spec => []GoesOn
<1>1. Init => Started BY DEF Init, Started
<1>2. IInv /\ Started /\ [Next]_vars => Started' BY StartedStays
<1>3. IInv /\ Started => GoesOn BY NodesGoOn, EngineGoesOn DEF GoesOn
<1> QED BY <1>1, <1>2, <1>3, IInvHolds, PTL DEF Spec
===============================================================================
