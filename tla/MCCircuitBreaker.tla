--------------------------- MODULE MCCircuitBreaker ---------------------------
(* A breaker with the proportions of the defaults: the timeout is shorter   *)
(* than the window, so what tripped it is still counted when it half-opens. *)
(* It is reloaded at will, but for the threshold.                           *)
EXTENDS CircuitBreaker

Cfg(failures, successes, timeout, window, rate, least) ==
    [failureThreshold |-> failures, successThreshold |-> successes,
     timeout |-> timeout, window |-> window, errorRate |-> rate,
     minRequests |-> least]

(* A long timeout, an error rate, and the zeros a partial reload installs. *)
MCConfigs == {Cfg(2, 2, 1, 2, 0, 0), Cfg(2, 1, 2, 1, 50, 2), Cfg(2, 0, 0, 0, 0, 0)}
===============================================================================
