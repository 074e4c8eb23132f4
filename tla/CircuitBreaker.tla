---------------------------- MODULE CircuitBreaker ----------------------------
(***************************************************************************)
(* One backend's circuit breaker under the traffic of the gateway.         *)
(*                                                                         *)
(* The pipeline engine asks Allow before a node calls its backend and      *)
(* records the outcome when the call is over, possibly long afterwards and *)
(* in whatever state the breaker is by then.  Nodes of a fixed egress ask  *)
(* too, but send whatever the answer; the fallback filter asks for nodes   *)
(* that may never run; and some outcomes are never recorded.               *)
(***************************************************************************)
EXTENDS BreakerOps

CONSTANTS Configs,         \* the configurations a hot reload may install
          RateLimitWeight, \* stamps one rate-limit failure counts for
          MaxInFlight      \* requests admitted and not yet answered

VARIABLES cb,        \* the breaker
          config,    \* the configuration it reads
          inFlight,  \* admitted requests whose outcome is still to come
          exempt     \* the same for fixed-egress requests the breaker refused

vars == <<cb, config, inFlight, exempt>>

ASSUME SlotsAssumption == IsFiniteSet(Slots)
ASSUME BoundsAssumption == /\ Horizon \in Nat
                           /\ RateLimitWeight \in Nat \ {0}
                           /\ MaxInFlight \in Nat
ASSUME ConfigsAssumption ==
    \A c \in Configs : c \in ConfigType /\ c.timeout < Horizon /\ c.window <= Horizon

TypeOK == /\ cb \in BreakerType
          /\ config \in Configs
          /\ inFlight \in 0 .. MaxInFlight
          /\ exempt \in 0 .. MaxInFlight

Init == /\ cb = NewBreaker
        /\ config \in Configs
        /\ inFlight = 0
        /\ exempt = 0

-------------------------------------------------------------------------------

Room == inFlight + exempt < MaxInFlight

(* A node asks and its request goes out. *)
Admit ==
    /\ Room
    /\ Allows(cb, config)
    /\ cb' = Asked(cb, config)
    /\ inFlight' = inFlight + 1
    /\ UNCHANGED <<config, exempt>>

(* A node asks and is skipped. *)
Refuse ==
    /\ ~Allows(cb, config)
    /\ cb' = Asked(cb, config)
    /\ UNCHANGED <<config, inFlight, exempt>>

(* A fixed-egress node asks, is refused, and sends all the same. *)
Overrule ==
    /\ Room
    /\ ~Allows(cb, config)
    /\ cb' = Asked(cb, config)
    /\ exempt' = exempt + 1
    /\ UNCHANGED <<config, inFlight>>

(* The fallback filter asks for a node that is then never run. *)
AskOnly ==
    /\ cb' = Asked(cb, config)
    /\ UNCHANGED <<config, inFlight, exempt>>

(* Fault: an outcome is recorded once more for a request that is over. *)
FinishFault == inFlight' = inFlight - 1 /\ UNCHANGED exempt

(* A request that went out is over: one of the two counters goes down. *)
Finish ==
    \/ inFlight > 0 /\ inFlight' = inFlight - 1 /\ UNCHANGED exempt
    \/ exempt > 0 /\ exempt' = exempt - 1 /\ UNCHANGED inFlight

RecordSuccess ==
    /\ Finish
    /\ \E new \in Fresh(cb, 1) : cb' = Succeeded(cb, config, new)
    /\ UNCHANGED config

RecordFailure ==
    /\ Finish
    /\ \E new \in Fresh(cb, 1) : cb' = Failed(cb, config, new)
    /\ UNCHANGED config

RecordRateLimitFailure ==
    /\ Finish
    /\ \E new \in Fresh(cb, RateLimitWeight) : cb' = Failed(cb, config, new)
    /\ UNCHANGED config

(* Skipped nodes, unknown models and transient rate limits record nothing. *)
Forget == Finish /\ UNCHANGED <<cb, config>>

(* The console reads a snapshot, which evicts old records. *)
Snapshot == cb' = Cleaned(cb, config) /\ UNCHANGED <<config, inFlight, exempt>>

ResetBreaker == cb' = Reset(cb) /\ UNCHANGED <<config, inFlight, exempt>>

(* UpdateConfig stores the new configuration in a breaker that exists. *)
Reload == config' \in Configs /\ UNCHANGED <<cb, inFlight, exempt>>

Tick == cb' = Aged(cb) /\ UNCHANGED <<config, inFlight, exempt>>

Ask == Admit \/ Refuse \/ Overrule \/ AskOnly
Record == RecordSuccess \/ RecordFailure \/ RecordRateLimitFailure \/ Forget
Operate == Snapshot \/ ResetBreaker

Next == Ask \/ Record \/ Operate \/ Tick \/ Reload

Spec == Init /\ [][Next]_vars

(* Time passes; nothing else is promised. *)
FairSpec == Spec /\ WF_vars(Tick)

-------------------------------------------------------------------------------

(***************************************************************************)
(* Every outcome counted as a failure or as a success is also counted as a *)
(* request, and as only one of the two: the error rate can never exceed    *)
(* 100% whatever evictions, trips and clears have gone by.  (The three     *)
(* slices are maintained apart, and the half-open failure path clears only *)
(* one of them.)                                                           *)
(***************************************************************************)
Accounting == /\ cb.failures \cup cb.successes \subseteq cb.requests
              /\ cb.failures \cap cb.successes = {}

(***************************************************************************)
(* A breaker that is closed holds fewer failures than its threshold: no    *)
(* path (a weighted failure, a close out of half-open, an outcome that     *)
(* arrives late) leaves the traffic of a failing backend running at or     *)
(* over the threshold.  For reloads that leave the threshold as it is.     *)
(***************************************************************************)
ClosedBelowThreshold ==
    cb.state = "closed" /\ config.failureThreshold > 0
        => Cardinality(cb.failures) < config.failureThreshold

(***************************************************************************)
(* Late answers of requests sent before the trip, or sent by fixed-egress  *)
(* nodes during it, never prolong the cool-down: while the breaker stays   *)
(* open its clock only advances.                                           *)
(***************************************************************************)
CoolDownNeverRestarts ==
    [][cb.state = "open" /\ cb'.state = "open"
           => cb'.sinceChange >= cb.sinceChange]_vars

(***************************************************************************)
(* A backend is never locked out for good: again and again Allow would     *)
(* answer yes, even though half-open has no timeout of its own and only    *)
(* the eviction of old records frees its probe budget, and even when the   *)
(* configuration is reloaded at will.                                      *)
(***************************************************************************)
NeverLockedOut == []<>Allows(cb, config)

-------------------------------------------------------------------------------

Promise == INSTANCE CoolDown WITH
    Timeouts <- {c.timeout : c \in Configs},
    MaxRest <- Horizon,
    gate <- IF cb.state = "open" THEN "stop" ELSE "pass",
    rest <- IF cb.state = "open" THEN cb.sinceChange ELSE 0,
    timeout <- config.timeout,
    sent <- inFlight

(***************************************************************************)
(* The breaker keeps the promise of CoolDown, for the requests that heed   *)
(* it: open means suspended, whatever is in flight and whatever answers    *)
(* come in late, and the time to probe always comes.                       *)
(***************************************************************************)
ImplementsCoolDown == Promise!CDSpec
===============================================================================
