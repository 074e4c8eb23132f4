----------------------------- MODULE MCConfigSync -----------------------------
(* Two mirrors, two callers and three documents: one without backends, one   *)
(* whose rows are not valid, and one that has backends but neither templates *)
(* nor, among its configuration, the rules: what the first one said of these *)
(* stays where it was applied.                                               *)
EXTENDS ConfigSync

FiveRows == {"rules", "feature", "price", "backend", "template"}
OneOfAKind == [r \in FiveRows |-> r]

ThreeDocuments ==
  <<[parts |-> Parts \ {"backends"}, on |-> FiveRows \ {"backend"}, valid |-> TRUE],
    [parts |-> {"config", "backends"}, on |-> {"rules", "feature", "backend"}, valid |-> FALSE],
    [parts |-> Parts \ {"templates"}, on |-> {"feature", "price", "backend"}, valid |-> TRUE]>>

(* The requests of the provider with tables: rows and prices, then the       *)
(* templates, then the backends' rows.                                       *)
ThreeFetches == <<{"config", "prices"}, {"templates"}, {"backends"}>>

===============================================================================
