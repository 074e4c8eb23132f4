--------------------------- MODULE MCBreakerManager ---------------------------
EXTENDS BreakerManager, TLC

Set(failures, window, limit, rate) ==
    [failureThreshold |-> failures, window |-> window,
     rateLimitWeight |-> limit, errorRate |-> rate]

(* What the console's form sends, with every parameter set, and what a      *)
(* request to the API may send as well.                                     *)
MCSettings == {Set(3, 2, 0, 0), Set(4, 1, 3, 65), Set(0, 2, 0, 0), Set(4, 0, 0, 0), Unset}

Symmetry == Permutations(Backends) \cup Permutations(Threads) \cup Permutations(Operators)
===============================================================================
