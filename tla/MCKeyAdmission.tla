---------------------------- MODULE MCKeyAdmission ----------------------------
(* Two requests at a time, two budgets, limits of 2 and 1.                   *)
EXTENDS KeyAdmission, TLC

Symmetry == Permutations(Slots)
===============================================================================
