-------------------------------- MODULE Ledger --------------------------------
(***************************************************************************)
(* What a prepaid key promises its owner: spending has to be reserved      *)
(* first, which only works while what was spent is below the budget then   *)
(* in force, and each reservation is charged once, by no more than the     *)
(* most a request can cost, or given back.  What a reservation is, and     *)
(* when and by whom it is charged, is left open.                           *)
(***************************************************************************)
EXTENDS Naturals

CONSTANTS Tickets,    \* what can be reserved
          Budgets,    \* the budgets the owner may set
          MaxCost     \* the most that is charged for a ticket

VARIABLES spent, budget, reserved

lvars == <<spent, budget, reserved>>

LInit == spent = 0 /\ budget \in Budgets /\ reserved = {}

Reserve == /\ spent < budget
           /\ reserved \subseteq reserved' /\ reserved' \subseteq Tickets
           /\ UNCHANGED <<spent, budget>>

Charge == /\ \E t \in reserved : reserved' = reserved \ {t}
          /\ \E cost \in 0 .. MaxCost : spent' = spent + cost
          /\ UNCHANGED budget

Release == reserved' \subseteq reserved /\ UNCHANGED <<spent, budget>>

Amend == budget' \in Budgets /\ UNCHANGED <<spent, reserved>>

LNext == Reserve \/ Charge \/ Release \/ Amend

LSpec == LInit /\ [][LNext]_lvars
===============================================================================
