---------------------------- MODULE PipelineEngine ----------------------------
(***************************************************************************)
(* executePipeline: the nodes of a pipeline run layer by layer, those of a *)
(* layer in parallel, and after the last layer the fallback groups try     *)
(* their fallback nodes for the primary nodes that failed.                 *)
(*                                                                         *)
(* What a node does is its outcome; a node with a condition may be skipped *)
(* instead, and a branch is when its router selects another.  A fallback   *)
(* policy that rescues a node makes it a success.  Results are "usable" or *)
(* "empty" (hasUsableBypassOutput).                                        *)
(***************************************************************************)
EXTENDS PipelineOps, Sequences, SequencesExt

CONSTANTS Pipelines,   \* the pipelines that may be executed
          NoNode,
          NoRoute      \* of a result without metadata

Groups == [primary : Nodes, fallbacks : Seq(Nodes), maxAttempts : Nat]

ASSUME EngineConstants == {NoNode, NoRoute} \cap Nodes = {}

ASSUME EnginePipelines ==
    \A q \in Pipelines :
        /\ q.depends \in [Nodes -> SUBSET Nodes]
        /\ q.next \in [Nodes -> SUBSET Nodes]
        /\ q.groups \in Seq(Groups)
        /\ q.bypass \in BOOLEAN              \* BypassOnError
        /\ q.limit \in Nat \ {0}             \* ParallelLimit
        /\ q.conditional \subseteq Nodes
        /\ q.router \in [Nodes -> Nodes \cup {NoNode}]  \* RouteConfig.RouterNodeID
        /\ q.defaults \subseteq {n \in Nodes : q.router[n] # NoNode}

VARIABLES p,           \* the pipeline
          processed,   \* nodes of the layers entered so far
          active,      \* nodes of the layer, or the fallback node, that runs
          step,        \* node -> where its goroutine is
          output,      \* node -> what it is about to store
          status,      \* node -> ExecutionNode.Status
          failed,      \* nodes whose ExecutionNode.Error is set
          fatal,       \* nodes whose executeLayerNode returned an error
          results,     \* node -> its result, "none" without one
          selects,     \* router -> the branch its result names, if it does
          current,     \* the node that stored its result last
          log,         \* node -> the last entry of its execution log
          group,       \* the fallback group that is handled, 0 in the layers
          candidates,  \* positions of its fallback nodes that are left to try
          attempts,    \* and how many it tried
          outcome      \* "running", "answer" or "error"

vars == <<p, processed, active, step, output, status, failed, fatal, results,
          selects, current, log, group, candidates, attempts, outcome>>

(* The type of p is that of Pipelines: no action changes it. *)
TypeOK == /\ processed \subseteq Nodes /\ active \subseteq Nodes
          /\ step \in [Nodes -> {"off", "waiting", "running", "store", "current", "finished"}]
          /\ output \in [Nodes -> {"none", "usable", "empty"}]
          /\ status \in [Nodes -> {"pending", "success", "failed", "skipped"}]
          /\ failed \subseteq Nodes /\ fatal \subseteq Nodes
          /\ results \in [Nodes -> {"none", "usable", "empty"}]
          /\ selects \in [Nodes -> Nodes \cup {NoNode, NoRoute}]
          /\ current \in Nodes \cup {NoNode}
          /\ log \in [Nodes -> {"none", "success", "failure"}]
          /\ group \in 0 .. Len(p.groups) + 1
          /\ candidates \subseteq Nat /\ attempts \in Nat
          /\ group \in DOMAIN p.groups =>
                LET fallbacks == p.groups[group].fallbacks IN
                /\ candidates \subseteq DOMAIN fallbacks
                /\ attempts + Cardinality(candidates) <= Len(fallbacks) + 1
          /\ outcome \in {"running", "answer", "error"}

All(x) == [n \in Nodes |-> x]

Init == /\ p \in Pipelines
        /\ processed = {} /\ active = {} /\ failed = {} /\ fatal = {}
        /\ step = All("off") /\ output = All("none") /\ status = All("pending")
        /\ results = All("none") /\ selects = All(NoRoute)
        /\ current = NoNode /\ log = All("none")
        /\ group = 0 /\ candidates = {} /\ attempts = 0
        /\ outcome = "running"

Primaries == {p.groups[g].primary : g \in DOMAIN p.groups}
FallbackNodes == UNION {ToSet(p.groups[g].fallbacks) : g \in DOMAIN p.groups}

Running(n) == step[n] \in {"running", "store", "current"}
Finished == \A n \in active : step[n] = "finished"

-------------------------------------------------------------------------------
(* Branches: nodes with a RouteConfig. *)

Branches == {n \in Nodes : p.router[n] # NoNode}

(* The result of its router names the branch n. *)
Selected(n) == /\ n \in Branches
               /\ results[p.router[n]] # "none" /\ selects[p.router[n]] = n

(* Fault: a selected branch does not keep the defaults from running. *)
KeptFault(nodes) ==
    LET others == (nodes \cap Branches) \ p.defaults
        plain == nodes \ Branches
        chosen == {n \in others : Selected(n)}
    IN  IF others = {} THEN {nodes}
        ELSE IF chosen = {} THEN {plain \cup (nodes \cap p.defaults)}
        ELSE {plain \cup {n} \cup (nodes \cap p.defaults) : n \in chosen}

(* What filterRoutedNodes may leave of a layer: with one selected branch,   *)
(* of whichever router, no other branch; with none the defaults.            *)
Kept(nodes) ==
    LET others == (nodes \cap Branches) \ p.defaults
        plain == nodes \ Branches
        chosen == {n \in others : Selected(n)}
    IN  IF others = {} THEN {nodes}
        ELSE IF chosen = {} THEN {plain \cup (nodes \cap p.defaults)}
        ELSE {plain \cup {n} : n \in chosen}

(* The node itself looks once more: a branch needs a result with metadata,  *)
(* and one that is no default must be the one that it names.                *)
NotRouted(n) == /\ n \in Branches
                /\ \/ results[p.router[n]] = "none" \/ selects[p.router[n]] = NoRoute
                   \/ ~ Selected(n) /\ n \notin p.defaults

-------------------------------------------------------------------------------
(* The layers. *)

(* Fault: only the nodes that run now are marked as processed. *)
EnterLayerFault ==
    LET layer == Layer(p, processed) IN
    /\ outcome = "running" /\ group = 0 /\ active = {}
    /\ layer # {}
    /\ processed' = processed \cup (layer \ FallbackNodes)
    /\ active' = layer \ FallbackNodes
    /\ step' = [n \in Nodes |-> IF n \in active' THEN "waiting" ELSE "off"]
    /\ fatal' = {}
    /\ UNCHANGED <<p, output, status, failed, results, selects, current, log,
                   group, candidates, attempts, outcome>>

(* Enter the next layer; the fallback nodes in it do not run now, and of    *)
(* the branches only what the filter leaves.                                *)
EnterLayer ==
    LET layer == Layer(p, processed)
        nodes == layer \ FallbackNodes
    IN
    /\ outcome = "running" /\ group = 0 /\ active = {}
    /\ layer # {}
    /\ processed' = processed \cup layer
    /\ active' \in Kept(nodes)
    /\ status' = [n \in Nodes |-> IF n \in nodes \ active' THEN "skipped"
                                  ELSE status[n]]
    /\ step' = [n \in Nodes |-> IF n \in active' THEN "waiting" ELSE "off"]
    /\ fatal' = {}
    /\ UNCHANGED <<p, output, failed, results, selects, current, log,
                   group, candidates, attempts, outcome>>

(* Fault: the next layer starts as soon as all nodes of this one have.     *)
LeaveLayerFault ==
    /\ outcome = "running" /\ group = 0 /\ active # {}
    /\ \A n \in active : step[n] # "waiting"
    /\ active' = {}
    /\ outcome' = IF fatal \subseteq Primaries THEN outcome ELSE "error"
    /\ UNCHANGED <<p, processed, step, output, status, failed, fatal, results,
                   selects, current, log, group, candidates, attempts>>

(* All its nodes are done.  An error ends the execution, except one of a   *)
(* primary node, which is left to its fallback group.                      *)
LeaveLayer ==
    /\ outcome = "running" /\ group = 0 /\ active # {} /\ Finished
    /\ active' = {}
    /\ outcome' = IF fatal \subseteq Primaries THEN outcome ELSE "error"
    /\ UNCHANGED <<p, processed, step, output, status, failed, fatal, results,
                   selects, current, log, group, candidates, attempts>>

LayersDone ==
    /\ outcome = "running" /\ group = 0 /\ active = {}
    /\ Layer(p, processed) = {}
    /\ group' = 1
    /\ UNCHANGED <<p, processed, active, step, output, status, failed, fatal,
                   results, selects, current, log, candidates, attempts,
                   outcome>>

-------------------------------------------------------------------------------
(* One node: executeLayerNode, under the semaphore of its layer. *)

Acquire(n) ==
    /\ n \in active /\ step[n] = "waiting"
    /\ Cardinality({m \in Nodes : Running(m)}) < p.limit
    /\ step' = [step EXCEPT ![n] = "running"]
    /\ UNCHANGED <<p, processed, active, output, status, failed, fatal,
                   results, selects, current, log, group, candidates,
                   attempts, outcome>>

(* Its condition is false, or it is a branch that is not to run. *)
Skip(n) ==
    /\ step[n] = "running" /\ (n \in p.conditional \/ NotRouted(n))
    /\ status' = [status EXCEPT ![n] = "skipped"]
    /\ step' = [step EXCEPT ![n] = "finished"]
    /\ UNCHANGED <<p, processed, active, output, failed, fatal, results,
                   selects, current, log, group, candidates, attempts,
                   outcome>>

Succeed(n) ==
    /\ step[n] = "running" /\ ~ NotRouted(n)
    /\ status' = [status EXCEPT ![n] = "success"]
    /\ log' = [log EXCEPT ![n] = "success"]
    /\ \E out \in {"usable", "empty"} : output' = [output EXCEPT ![n] = out]
    /\ step' = [step EXCEPT ![n] = "store"]
    /\ UNCHANGED <<p, processed, active, failed, fatal, results, selects,
                   current, group, candidates, attempts, outcome>>

(* GetLastOutput: the result of the node that was last, any while that is  *)
(* not known.                                                              *)
LastOutputs ==
    IF current # NoNode /\ results[current] # "none" THEN {results[current]}
    ELSE {results[n] : n \in Nodes} \ {"none"}

(* Fault: an error is bypassed with no usable output to put in its place. *)
FailFault(n) ==
    /\ step[n] = "running" /\ ~ NotRouted(n)
    /\ status' = [status EXCEPT ![n] = "failed"]
    /\ failed' = failed \cup {n}
    /\ log' = [log EXCEPT ![n] = "failure"]
    /\ step' = [step EXCEPT ![n] = "finished"]
    /\ fatal' = IF p.bypass THEN fatal ELSE fatal \cup {n}
    /\ UNCHANGED <<p, processed, active, output, results, selects, current,
                   group, candidates, attempts, outcome>>

(* It failed; a node that was not even started has no log entry.  With     *)
(* BypassOnError a usable last output takes the place of its own.          *)
Fail(n) ==
    /\ step[n] = "running" /\ ~ NotRouted(n)
    /\ status' = [status EXCEPT ![n] = "failed"]
    /\ failed' = failed \cup {n}
    /\ \/ /\ p.bypass /\ "usable" \in LastOutputs
          /\ output' = [output EXCEPT ![n] = "usable"]
          /\ log' = [log EXCEPT ![n] = "success"]
          /\ step' = [step EXCEPT ![n] = "store"]
          /\ UNCHANGED fatal
       \/ /\ ~ p.bypass \/ LastOutputs # {"usable"}
          /\ fatal' = fatal \cup {n}
          /\ log' \in {log, [log EXCEPT ![n] = "failure"]}
          /\ step' = [step EXCEPT ![n] = "finished"]
          /\ UNCHANGED output
    /\ UNCHANGED <<p, processed, active, results, selects, current, group,
                   candidates, attempts, outcome>>

(* What the result of n may name: any branch, when n is a router. *)
Selections(n) ==
    LET branches == {m \in Nodes : p.router[m] = n} IN
    IF branches = {} THEN {NoRoute} ELSE branches \cup {NoNode, NoRoute}

SetResult(n) ==
    /\ step[n] = "store"
    /\ results' = [results EXCEPT ![n] = output[n]]
    /\ \E s \in Selections(n) : selects' = [selects EXCEPT ![n] = s]
    /\ step' = [step EXCEPT ![n] = "current"]
    /\ UNCHANGED <<p, processed, active, output, status, failed, fatal,
                   current, log, group, candidates, attempts,
                   outcome>>

SetCurrentNode(n) ==
    /\ step[n] = "current"
    /\ current' = n
    /\ step' = [step EXCEPT ![n] = "finished"]
    /\ UNCHANGED <<p, processed, active, output, status, failed, fatal,
                   results, selects, log, group, candidates, attempts,
                   outcome>>

-------------------------------------------------------------------------------
(* The fallback groups, one after the other: executeFallbackGroup. *)

Group == p.groups[group]
InGroup == /\ outcome = "running" /\ group \in DOMAIN p.groups /\ active = {}

(* Fault: a primary that was skipped counts as one that failed. *)
PrimaryFailedFault == status[Group.primary] # "success"

PrimaryFailed == status[Group.primary] = "failed" \/ Group.primary \in failed

(* The primary did not fail, so there is nothing to fall back from. *)
NothingToDo ==
    /\ InGroup /\ ~ PrimaryFailed
    /\ status' = [n \in Nodes |-> IF n \in ToSet(Group.fallbacks) THEN "skipped"
                                  ELSE status[n]]
    /\ group' = group + 1
    /\ UNCHANGED <<p, processed, active, step, output, failed, fatal, results,
                   selects, current, log, candidates, attempts, outcome>>

(* filterFallbackNodesByCircuit: the nodes whose circuit is not open now.  *)
Filter ==
    /\ InGroup /\ PrimaryFailed /\ attempts = 0
    /\ \E open \in SUBSET ToSet(Group.fallbacks) :
          /\ status' = [n \in Nodes |-> IF n \in open THEN "skipped" ELSE status[n]]
          /\ candidates' = {i \in DOMAIN Group.fallbacks : Group.fallbacks[i] \notin open}
          /\ attempts' = 1
    /\ UNCHANGED <<p, processed, active, step, output, failed, fatal, results,
                   selects, current, log, group, outcome>>

MaxAttempts == IF Group.maxAttempts < 1 THEN Len(Group.fallbacks) + 1
               ELSE Group.maxAttempts

(* Fault: the fallback node that is tried stays in the list. *)
TryFallbackFault ==
    /\ InGroup /\ attempts > 0 /\ attempts < MaxAttempts
    /\ \E i \in candidates :
          /\ \A j \in candidates : i <= j
          /\ active' = {Group.fallbacks[i]}
    /\ step' = [n \in Nodes |-> IF n \in active' THEN "running" ELSE "off"]
    /\ attempts' = attempts + 1
    /\ fatal' = {}
    /\ UNCHANGED <<p, processed, candidates, output, status, failed, results,
                   selects, current, log, group, outcome>>

(* The first candidate; the primary counts as the first attempt. *)
TryFallback ==
    /\ InGroup /\ attempts > 0 /\ attempts < MaxAttempts
    /\ \E i \in candidates :
          /\ \A j \in candidates : i <= j
          /\ active' = {Group.fallbacks[i]}
          /\ candidates' = candidates \ {i}
    /\ step' = [n \in Nodes |-> IF n \in active' THEN "running" ELSE "off"]
    /\ attempts' = attempts + 1
    /\ fatal' = {}
    /\ UNCHANGED <<p, processed, output, status, failed, results, selects,
                   current, log, group, outcome>>

Recovered(n) == n \notin fatal /\ status[n] = "success"

(* A fallback node succeeded in place of the primary, or the next is due. *)
FallbackDone ==
    /\ outcome = "running" /\ group \in DOMAIN p.groups /\ active # {} /\ Finished
    /\ active' = {}
    /\ IF \E n \in active : Recovered(n)
       THEN /\ log' = [log EXCEPT ![Group.primary] = "success"]
            /\ group' = group + 1 /\ candidates' = {} /\ attempts' = 0
       ELSE UNCHANGED <<log, group, candidates, attempts>>
    /\ UNCHANGED <<p, processed, step, output, status, failed, fatal, results,
                   selects, current, outcome>>

(* No fallback node is left: the execution fails. *)
GroupFails ==
    /\ InGroup /\ attempts > 0
    /\ candidates = {} \/ attempts >= MaxAttempts
    /\ outcome' = "error"
    /\ UNCHANGED <<p, processed, active, step, output, status, failed, fatal,
                   results, selects, current, log, group, candidates,
                   attempts>>

(* After the last group: the last output is the answer, if there is one. *)
Answer ==
    /\ outcome = "running" /\ group = Len(p.groups) + 1
    /\ outcome' = IF LastOutputs = {} THEN "error" ELSE "answer"
    /\ UNCHANGED <<p, processed, active, step, output, status, failed, fatal,
                   results, selects, current, log, group, candidates,
                   attempts>>

Done == outcome # "running" /\ UNCHANGED vars

Node(n) == \/ Acquire(n) \/ Skip(n) \/ Succeed(n) \/ Fail(n)
           \/ SetResult(n) \/ SetCurrentNode(n)

Next == \/ EnterLayer \/ LeaveLayer \/ LayersDone
        \/ \E n \in Nodes : Node(n)
        \/ NothingToDo \/ Filter \/ TryFallback \/ FallbackDone \/ GroupFails
        \/ Answer \/ Done

Spec == Init /\ [][Next]_vars

(* Every goroutine runs, and a node ends at the latest with its timeout. *)
FairSpec == Spec /\ WF_vars(Next)

-------------------------------------------------------------------------------

InLayers == outcome = "running" /\ group = 0

(***************************************************************************)
(* A node starts only when all it comes after have run, fallback nodes     *)
(* aside: the semaphore and the barrier between layers keep the order.     *)
(***************************************************************************)
OrderKept ==
    InLayers => \A n \in active : step[n] # "off" =>
        \A m \in Predecessors(p, n) \ FallbackNodes :
            step[m] \in {"off", "finished"} /\ status[m] # "pending"

(***************************************************************************)
(* A branch runs only if its router names it, or as a default when beside  *)
(* it none is that the router names; one that is named is left out only    *)
(* for its own condition, or for another router's branch.                  *)
(***************************************************************************)
RoutesFollowed ==
    \A n \in Branches \ FallbackNodes :
      p.router[n] \in Predecessors(p, n) \ FallbackNodes =>
        LET router == p.router[n]
            beside == {m \in Branches \ FallbackNodes :
                          /\ p.router[m] = router
                          /\ Predecessors(p, m) = Predecessors(p, n)}
        IN  /\ status[n] \in {"success", "failed"} =>
                  \/ Selected(n)
                  \/ /\ n \in p.defaults /\ results[router] # "none"
                     /\ \A m \in beside \ p.defaults : ~ Selected(m)
            /\ status[n] = "skipped" /\ Selected(n) =>
                  \/ n \in p.conditional
                  \/ \E m \in Branches : Selected(m) /\ p.router[m] # router

(***************************************************************************)
(* No failure is lost: when there is an answer, each node that failed left *)
(* a substitute for its result, or was a primary whose group recovered, or *)
(* a fallback node another attempt came after.                             *)
(***************************************************************************)
AnswerMeansHandled ==
    outcome = "answer" =>
        \A n \in failed \ FallbackNodes : log[n] = "success"

(***************************************************************************)
(* And none is made up: an execution with a result fails only when a node  *)
(* failed.                                                                 *)
(***************************************************************************)
ErrorMeansFailure ==
    outcome = "error" => failed # {} \/ \A n \in Nodes : results[n] = "none"

(***************************************************************************)
(* Every execution ends, with its parallel nodes, groups and attempts.     *)
(***************************************************************************)
Ends == <>(outcome # "running")
===============================================================================
