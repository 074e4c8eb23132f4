------------------------------ MODULE BreakerOps ------------------------------
(***************************************************************************)
(* The methods of scheduler.CircuitBreaker as operators on a breaker value *)
(* (core/pkg/scheduler/circuit_breaker.go).  Every method runs under the   *)
(* breaker's mutex, so each is one atomic function from a breaker and the  *)
(* configuration it reads to the breaker it leaves behind.                 *)
(*                                                                         *)
(* The three slices of timestamps are sets of record slots; age[s] is how  *)
(* many ticks ago slot s was stamped.  An age, and the time since the last *)
(* state change, stop growing at Horizon, past every window and timeout.   *)
(***************************************************************************)
EXTENDS Integers, FiniteSets

CONSTANTS Slots,     \* the timestamps one breaker can hold at a time
          Horizon    \* ages saturate here

BreakerStates == {"closed", "open", "half-open"}

(* CircuitBreakerConfig; errorRate is a percentage and 0 disables it. *)
ConfigType == [failureThreshold : Nat, successThreshold : Nat,
               timeout : Nat, window : Nat, errorRate : Nat, minRequests : Nat]

BreakerType == [state : BreakerStates,
                failures : SUBSET Slots, successes : SUBSET Slots,
                requests : SUBSET Slots,
                age : [Slots -> 0 .. Horizon], sinceChange : 0 .. Horizon]

NewBreaker == [state |-> "closed", failures |-> {}, successes |-> {},
               requests |-> {}, age |-> [s \in Slots |-> 0], sinceChange |-> 0]

-------------------------------------------------------------------------------

Older(n) == IF n < Horizon THEN n + 1 ELSE n

(* One tick of the clock, seen by breaker b. *)
Aged(b) ==
    [b EXCEPT !.age = [s \in Slots |-> IF s \in b.requests THEN Older(@[s]) ELSE 0],
              !.sinceChange = Older(@)]

(* changeState: a move to state st restarts lastStateChange. *)
Moved(b, st) == [b EXCEPT !.state = st, !.sinceChange = 0]

WithoutRecords(b) ==
    [b EXCEPT !.failures = {}, !.successes = {}, !.requests = {},
              !.age = [s \in Slots |-> 0]]

(* Fault: the eviction forgets the failures. *)
CleanedFault(b, c) ==
    LET fresh == {s \in b.requests : b.age[s] < c.window} IN
    [b EXCEPT !.successes = @ \cap fresh, !.requests = fresh,
              !.age = [s \in Slots |-> IF s \in fresh THEN @[s] ELSE 0]]

(* cleanupOldRecords: only stamps strictly inside the window survive. *)
Cleaned(b, c) ==
    LET fresh == {s \in b.requests : b.age[s] < c.window} IN
    [b EXCEPT !.failures = @ \cap fresh, !.successes = @ \cap fresh,
              !.requests = fresh,
              !.age = [s \in Slots |-> IF s \in fresh THEN @[s] ELSE 0]]

(* The half-open branch of Allow counts every outcome left in the window. *)
ProbesUsedUp(b, c) ==
    /\ c.successThreshold > 0
    /\ Cardinality(b.successes) + Cardinality(b.failures) >= c.successThreshold

(* Fault: an open breaker lets a request through as soon as it is asked. *)
AllowsFault(b, c) ==
    b.state \in {"closed", "open"} \/ ~ProbesUsedUp(Cleaned(b, c), c)

(* What Allow answers, and the breaker it leaves. *)
Allows(b, c) ==
    \/ b.state = "closed"
    \/ b.state = "open" /\ b.sinceChange > c.timeout
    \/ b.state = "half-open" /\ ~ProbesUsedUp(Cleaned(b, c), c)

Asked(b, c) ==
    IF b.state = "open" /\ b.sinceChange > c.timeout
    THEN Moved(Cleaned(b, c), "half-open")
    ELSE Cleaned(b, c)

-------------------------------------------------------------------------------

(* The free slots a call that appends n stamps may take. *)
Fresh(b, n) == {new \in SUBSET (Slots \ b.requests) : Cardinality(new) = n}

(* RecordSuccess, its stamp in new. *)
Succeeded(b, c, new) ==
    LET r == [b EXCEPT !.successes = @ \cup new, !.requests = @ \cup new] IN
    IF r.state = "half-open" /\ Cardinality(r.successes) >= c.successThreshold
    THEN WithoutRecords(Moved(r, "closed"))
    ELSE r

(* Fault: the threshold has to be exceeded. *)
ShouldOpenFault(b, c) == Cardinality(b.failures) > c.failureThreshold

(* The failure threshold or the error rate, on what is held right now. *)
ShouldOpen(b, c) ==
    \/ /\ c.failureThreshold > 0
       /\ Cardinality(b.failures) >= c.failureThreshold
    \/ /\ c.errorRate > 0
       /\ Cardinality(b.requests) >= c.minRequests
       /\ Cardinality(b.failures) * 100 >= c.errorRate * Cardinality(b.requests)

(* Fault: a failure that comes in while open trips the breaker once more. *)
FailedFault(b, c, new) ==
    LET r == [b EXCEPT !.failures = @ \cup new, !.requests = @ \cup new] IN
    IF r.state # "closed" \/ ShouldOpen(r, c)
    THEN [Moved(r, "open") EXCEPT !.successes = {}]
    ELSE r

(* RecordFailure (one stamp) and RecordFailureWithWeight (weight stamps). *)
Failed(b, c, new) ==
    LET r == [b EXCEPT !.failures = @ \cup new, !.requests = @ \cup new] IN
    CASE r.state = "half-open" -> [Moved(r, "open") EXCEPT !.successes = {}]
      [] r.state = "closed" /\ ShouldOpen(r, c) -> Moved(r, "open")
      [] OTHER -> r

(* Reset: an operator clears the breaker from the console. *)
Reset(b) == Moved(WithoutRecords(b), "closed")
===============================================================================
