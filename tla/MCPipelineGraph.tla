---------------------------- MODULE MCPipelineGraph ----------------------------
(* All pipelines of three nodes with at most four references between them,   *)
(* of a node to itself included.                                             *)
EXTENDS PipelineGraph

Links == {d \in [Nodes -> SUBSET Nodes] :
              Cardinality({l \in Nodes \X Nodes : l[2] \in d[l[1]]}) <= 4}

Size(d) == Cardinality({l \in Nodes \X Nodes : l[2] \in d[l[1]]})

SmallPipelines == {q \in [depends : Links, next : Links] : Size(q.depends) + Size(q.next) <= 4}
================================================================================
