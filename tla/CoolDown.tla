------------------------------- MODULE CoolDown -------------------------------
(***************************************************************************)
(* What a circuit breaker promises the backend it protects: once it trips, *)
(* no request that heeds it is sent until more than the configured timeout *)
(* has passed (or an operator lifts the suspension), and that time does    *)
(* come.  How failures are counted and how probing works is left open.     *)
(***************************************************************************)
EXTENDS Integers

CONSTANTS Timeouts,   \* the timeouts that may be configured
          MaxRest     \* rest stops growing here, past every timeout

VARIABLES gate,      \* "pass" or "stop"
          rest,      \* for how long the gate has been at "stop"
          timeout,   \* the timeout in force
          sent       \* requests sent through the gate and not yet answered

cvars == <<gate, rest, timeout, sent>>

Rested == gate = "stop" /\ rest > timeout

CDInit == gate = "pass" /\ rest = 0 /\ timeout \in Timeouts /\ sent = 0

(* A request goes out; after the rest it also lifts the suspension. *)
Send == /\ gate = "pass" \/ Rested
        /\ gate' = "pass" /\ rest' = 0
        /\ sent' = sent + 1
        /\ UNCHANGED timeout

(* The suspension is lifted with nothing sent. *)
Lift == Rested /\ gate' = "pass" /\ rest' = 0 /\ UNCHANGED <<timeout, sent>>

(* The answer to a request comes in, *)
Answer == sent > 0 /\ sent' = sent - 1 /\ UNCHANGED <<gate, rest, timeout>>

(* or an answer, of a request it did or did not see, trips the gate. *)
Trip == /\ gate = "pass"
        /\ gate' = "stop" /\ rest' = 0
        /\ sent' \in {sent, sent - 1}
        /\ UNCHANGED timeout

(* An operator lifts the suspension, or retunes the timeout. *)
Override == gate' = "pass" /\ rest' = 0 /\ UNCHANGED <<timeout, sent>>
Retune == timeout' \in Timeouts /\ UNCHANGED <<gate, rest, sent>>

Wait == /\ gate = "stop" /\ rest < MaxRest
        /\ rest' = rest + 1
        /\ UNCHANGED <<gate, timeout, sent>>

CDNext == Send \/ Lift \/ Answer \/ Trip \/ Override \/ Retune \/ Wait

CDSafety == CDInit /\ [][CDNext]_cvars
CDSpec == CDSafety /\ WF_cvars(Wait)
===============================================================================
