--------------------------- MODULE MCPipelineEngine ---------------------------
(* Pipelines of four nodes: layers, conditions, bypassing, fallback groups. *)
EXTENDS PipelineEngine, TLC

CONSTANTS a, b, c, d

None == [n \in Nodes |-> {}]

Plain == [depends |-> None, next |-> None, groups |-> <<>>, bypass |-> FALSE,
          limit |-> 2, conditional |-> {},
          router |-> [n \in Nodes |-> NoNode], defaults |-> {}]

Grp(primary, fallbacks, max) ==
    [primary |-> primary, fallbacks |-> fallbacks, maxAttempts |-> max]

(* A diamond in which two nodes may be skipped. *)
Bypassing == [Plain EXCEPT !.depends = (d :> {b, c}) @@ (b :> {a}) @@ (c :> {a}) @@ None,
                           !.bypass = TRUE, !.limit = 1, !.conditional = {b, d}]

(* a with two fallbacks; b shares one of them. *)
Shared == [Plain EXCEPT !.next = (a :> {b}) @@ None,
                        !.groups = <<Grp(a, <<c, d>>, 0), Grp(b, <<d>>, 2)>>]

(* The fallback of a is itself a primary. *)
Chained == [Plain EXCEPT !.groups = <<Grp(b, <<c>>, 2), Grp(a, <<b, d>>, 3)>>,
                         !.bypass = TRUE]

(* a is a router with the branches b, c and d, the last one a default; or a *)
(* and b are routers, with branches in the same layer or in different ones. *)
Routing ==
    {[Plain EXCEPT !.depends = (b :> {a}) @@ (c :> {a}) @@ (d :> {a}) @@ None,
                   !.router = (b :> a) @@ (c :> a) @@ (d :> a) @@ Plain.router,
                   !.defaults = x, !.bypass = e, !.conditional = {c}] :
        x \in {{}, {d}, {c, d}}, e \in BOOLEAN}
    \cup {[Plain EXCEPT !.depends = (c :> x) @@ (d :> {a, b}) @@ None,
                        !.router = (c :> a) @@ (d :> b) @@ Plain.router,
                        !.defaults = y, !.bypass = TRUE] :
              x \in {{a}, {a, b}, {d}}, y \in SUBSET {c, d}}

(* Every dependency of b, c and d on nodes before them, with these groups. *)
GroupSets == {<<>>, <<Grp(a, <<c>>, 2)>>, <<Grp(a, <<c, d>>, 0), Grp(b, <<d>>, 2)>>,
              <<Grp(b, <<c>>, 2), Grp(a, <<b>>, 2)>>}

ManyPipelines ==
    {[Plain EXCEPT !.depends = (b :> x) @@ (c :> y) @@ (d :> z) @@ None,
                   !.groups = g, !.bypass = e, !.limit = l, !.conditional = {b}] :
        x \in SUBSET {a}, y \in SUBSET {a, b}, z \in SUBSET {a, b, c},
        g \in GroupSets, e \in BOOLEAN, l \in 1 .. 2}

MCPipelines == ManyPipelines \cup Routing \cup {Bypassing, Shared, Chained}
===============================================================================
