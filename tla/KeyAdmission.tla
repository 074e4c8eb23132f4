----------------------------- MODULE KeyAdmission -----------------------------
(***************************************************************************)
(* Requests under one virtual API key: the middleware reads the key's row, *)
(* asks the rate limiter and compares the row with its budget; the         *)
(* pipeline runs; what it used is written back afterwards by goroutines    *)
(* that nobody waits for.  Two places may record the usage of a request,   *)
(* the pipeline's token_usage node and the proxy, and must agree on which. *)
(*                                                                         *)
(* Time passes in ticks, Window of them to the limiters' 60 seconds.  The  *)
(* tokens of a bucket are counted in 1/Window, so that a tick refills      *)
(* limit of them and a request takes Window.  Both limits count requests.  *)
(***************************************************************************)
EXTENDS Naturals, FiniteSets

CONSTANTS Slots,       \* requests that may be under way at a time
          RPM, TPM,    \* the key's limits, 0 for none
          Window,
          MaxBudget,   \* the largest budget the key may be given
          MaxCost      \* the most one recorded usage costs

ASSUME LimitsAssumption == /\ RPM \in Nat /\ TPM \in Nat
                           /\ Window \in Nat \ {0}
                           /\ MaxCost \in Nat

(* A key without a budget, 0, has no bound on what is spent. *)
ASSUME BudgetAssumption == MaxBudget \in Nat \ {0} /\ IsFiniteSet(Slots)

Budgets == 1 .. MaxBudget
Ages == 0 .. Window - 1
Recorders == {"node", "proxy"}

VARIABLES key,        \* the row of the key: used, budget, enabled
          limiter,    \* "redis", or "memory" when Redis was not reachable
          bucket,     \* the key's bucket in memory
          windows,    \* Redis: age -> admissions no older, for rpm and tpm
          phase,      \* slot -> "idle", "read" or "running"
          row,        \* slot -> the row as the request has read it
          noded,      \* slots whose token_usage node has run
          usage,      \* slot -> what the last pipeline's log said of usage
          owed,       \* recordings that were started and have not ended
          bills,      \* slot -> times the last request was charged (history)
          admitted    \* age -> what was let through since (history)

limits == <<limiter, bucket, windows, admitted>>
vars == <<key, limits, phase, row, noded, usage, owed, bills>>

Rows == [used : Nat, budget : Budgets, enabled : BOOLEAN]
NoRow == [used |-> 0, budget |-> 0, enabled |-> FALSE]
Buckets == [made : BOOLEAN, rpm : Nat, tpm : Nat,
            rpmIdle : 0 .. Window, tpmIdle : 0 .. Window]
NoBucket == [made |-> FALSE, rpm |-> 0, tpm |-> 0, rpmIdle |-> 0, tpmIdle |-> 0]

TypeOK == /\ key \in Rows
          /\ limiter \in {"memory", "redis"}
          /\ bucket \in Buckets
          /\ windows \in [{"rpm", "tpm"} -> [Ages -> Nat]]
          /\ phase \in [Slots -> {"idle", "read", "running"}]
          /\ row \in [Slots -> Rows \cup {NoRow}]
          /\ noded \subseteq Slots
          /\ usage \in [Slots -> {"reported", "cached", "silent"}]
          /\ owed \subseteq Slots \X Recorders
          /\ bills \in [Slots -> 0 .. 2]
          /\ admitted \in [Ages -> Nat]

Init == /\ key \in {[used |-> 0, budget |-> b, enabled |-> TRUE] : b \in Budgets}
        /\ limiter \in {"memory", "redis"}
        /\ bucket = NoBucket
        /\ windows = [d \in {"rpm", "tpm"} |-> [a \in Ages |-> 0]]
        /\ phase = [r \in Slots |-> "idle"]
        /\ row = [r \in Slots |-> NoRow]
        /\ noded = {}
        /\ usage = [r \in Slots |-> "silent"]
        /\ owed = {}
        /\ bills = [r \in Slots |-> 0]
        /\ admitted = [a \in Ages |-> 0]

-------------------------------------------------------------------------------
(* The rate limiters: Allow of each, under its mutex or in one script. *)

Least(a, b) == IF a < b THEN a ELSE b

(* One dimension of the bucket after refilling: min(limit, tokens + rate). *)
Refilled(tokens, idle, limit) == Least(limit * Window, tokens + idle * limit)

(* Fault: a refusal leaves the time of the last refill as it was. *)
MemoryAllowFault(ok) ==
    LET b == IF bucket.made THEN bucket
             ELSE [NoBucket EXCEPT !.made = TRUE, !.rpm = RPM * Window,
                                   !.tpm = TPM * Window]
        rpm == Refilled(b.rpm, b.rpmIdle, RPM)
        tpm == Refilled(b.tpm, b.tpmIdle, TPM)
        rpmOk == RPM = 0 \/ rpm >= Window
        tpmOk == TPM = 0 \/ tpm >= Window
    IN  /\ ok = (rpmOk /\ tpmOk)
        /\ bucket' = [made |-> TRUE,
                      rpm |-> IF RPM > 0 /\ rpmOk THEN rpm - Window ELSE rpm,
                      rpmIdle |-> IF rpmOk THEN 0 ELSE b.rpmIdle,
                      tpm |-> IF TPM > 0 /\ ok THEN tpm - Window ELSE tpm,
                      tpmIdle |-> IF ok THEN 0 ELSE b.tpmIdle]
        /\ UNCHANGED windows

(* memoryTokenBucket.Allow.  A request that only tpm refuses has taken its *)
(* token of rpm; one that rpm refuses does not get to refill tpm.          *)
MemoryAllow(ok) ==
    LET b == IF bucket.made THEN bucket
             ELSE [NoBucket EXCEPT !.made = TRUE, !.rpm = RPM * Window,
                                   !.tpm = TPM * Window]
        rpm == Refilled(b.rpm, b.rpmIdle, RPM)
        tpm == Refilled(b.tpm, b.tpmIdle, TPM)
        rpmOk == RPM = 0 \/ rpm >= Window
        tpmOk == TPM = 0 \/ tpm >= Window
    IN  /\ ok = (rpmOk /\ tpmOk)
        /\ bucket' = [made |-> TRUE,
                      rpm |-> IF RPM > 0 /\ rpmOk THEN rpm - Window ELSE rpm,
                      rpmIdle |-> 0,
                      tpm |-> IF ~ rpmOk THEN b.tpm
                              ELSE IF TPM > 0 /\ tpmOk THEN tpm - Window ELSE tpm,
                      tpmIdle |-> IF rpmOk THEN 0 ELSE b.tpmIdle]
        /\ UNCHANGED windows

Total(f) == f[Window - 1]
Added(f) == [a \in Ages |-> f[a] + 1]

(* The sliding window script, which likewise adds to rpm before it asks tpm. *)
RedisAllow(ok) ==
    LET rpmOk == RPM = 0 \/ Total(windows["rpm"]) < RPM
        tpmOk == TPM = 0 \/ Total(windows["tpm"]) < TPM
    IN  /\ ok = (rpmOk /\ tpmOk)
        /\ windows' = [windows EXCEPT
                         !["rpm"] = IF RPM > 0 /\ rpmOk THEN Added(@) ELSE @,
                         !["tpm"] = IF TPM > 0 /\ ok THEN Added(@) ELSE @]
        /\ UNCHANGED bucket

(* The answer of the limiter in use. A script error lets the request pass. *)
Allow(ok) ==
    \/ /\ RPM = 0 /\ TPM = 0 /\ ok /\ UNCHANGED <<bucket, windows, admitted>>
    \/ /\ RPM > 0 \/ TPM > 0
       /\ \/ limiter = "memory" /\ MemoryAllow(ok)
          \/ limiter = "redis" /\ RedisAllow(ok)
       /\ admitted' = IF ok THEN Added(admitted) ELSE admitted
    \/ /\ limiter = "redis" /\ ok /\ UNCHANGED <<bucket, windows, admitted>>

-------------------------------------------------------------------------------
(* The middleware. *)

Free(r) == phase[r] = "idle" /\ \A k \in Recorders : <<r, k>> \notin owed

(* The row is read; a key that is disabled is refused at once. *)
ReadKey(r) ==
    /\ Free(r) /\ key.enabled
    /\ phase' = [phase EXCEPT ![r] = "read"]
    /\ row' = [row EXCEPT ![r] = key]
    /\ noded' = noded \ {r}
    /\ bills' = [bills EXCEPT ![r] = 0]
    /\ usage' = [usage EXCEPT ![r] = "silent"]
    /\ UNCHANGED <<key, limits, owed>>

(* Fault: the last dollar is let through. *)
WithinFault(r) == row[r].used <= row[r].budget

(* BudgetChecker.Check, on the row as it was read. *)
Within(r) == row[r].used < row[r].budget

(* checkAPIKeyLimits: the limiter first, so a request that has no budget   *)
(* left uses up tokens, too.                                               *)
CheckLimits(r) ==
    /\ phase[r] = "read"
    /\ \E ok \in BOOLEAN :
          /\ Allow(ok)
          /\ phase' = [phase EXCEPT ![r] =
                         IF ok /\ Within(r) THEN "running" ELSE "idle"]
    /\ row' = [row EXCEPT ![r] = NoRow]
    /\ UNCHANGED <<key, limiter, noded, usage, owed, bills>>

-------------------------------------------------------------------------------
(* What the request used. *)

(* The token_usage node of the pipeline starts a recording, estimated from *)
(* the content when nothing upstream has reported any usage.               *)
NodeRecords(r) ==
    /\ phase[r] = "running" /\ r \notin noded
    /\ noded' = noded \cup {r}
    /\ owed' = owed \cup {<<r, "node">>}
    /\ UNCHANGED <<key, limits, phase, row, usage, bills>>

(* Fault: what came from the cache is left to the proxy, too. *)
DelegatedFault(r, log) == r \in noded /\ log = "reported"

(* pipelineDelegatedTokenUsage: a token_usage node ran, and a node of a    *)
(* model reported tokens or a cache node ran.                              *)
Delegated(r, log) == r \in noded /\ log # "silent"

(* The pipeline ends: with an error nothing more is recorded; otherwise    *)
(* the proxy records what is not delegated, unless there is nothing to     *)
(* estimate from.                                                          *)
Finish(r) ==
    /\ phase[r] = "running"
    /\ phase' = [phase EXCEPT ![r] = "idle"]
    /\ \E log \in {"reported", "cached", "silent"} :
          /\ usage' = [usage EXCEPT ![r] = log]
          /\ \/ owed' = owed \cup {<<r, "proxy">>} /\ ~ Delegated(r, log)
             \/ owed' = owed /\ (log = "reported" => r \in noded)
    /\ UNCHANGED <<key, limits, row, noded, bills>>

Fail(r) ==
    /\ phase[r] = "running"
    /\ phase' = [phase EXCEPT ![r] = "idle"]
    /\ UNCHANGED <<key, limits, row, noded, usage, owed, bills>>

(* Fault: a recording that was committed is tried again. *)
RecordFault(r, k) ==
    /\ <<r, k>> \in owed
    /\ owed' \in {owed, owed \ {<<r, k>>}}
    /\ \E cost \in 0 .. MaxCost : key' = [key EXCEPT !.used = @ + cost]
    /\ bills' = [bills EXCEPT ![r] = @ + 1]
    /\ UNCHANGED <<limits, phase, row, noded, usage>>

(* RecordUsage commits: the detail, the day's sum and the key's used_usd   *)
(* in one transaction.                                                     *)
Record(r, k) ==
    /\ <<r, k>> \in owed
    /\ owed' = owed \ {<<r, k>>}
    /\ \E cost \in 0 .. MaxCost : key' = [key EXCEPT !.used = @ + cost]
    /\ bills' = [bills EXCEPT ![r] = @ + 1]
    /\ UNCHANGED <<limits, phase, row, noded, usage>>

(* Or it fails and is rolled back; the hook only logs that. *)
RecordFails(r, k) ==
    /\ <<r, k>> \in owed
    /\ owed' = owed \ {<<r, k>>}
    /\ UNCHANGED <<key, limits, phase, row, noded, usage, bills>>

-------------------------------------------------------------------------------

(* UpdateAPIKey writes all fields back but used_usd.  Those that were not  *)
(* to be changed are as they were when it read the row, so with another    *)
(* edit in between they can be anything the owner once chose.              *)
Edit ==
    /\ \E on \in BOOLEAN, b \in Budgets :
          key' = [key EXCEPT !.enabled = on, !.budget = b]
    /\ UNCHANGED <<limits, phase, row, noded, usage, owed, bills>>

Older(f) == [a \in Ages |-> IF a = 0 THEN 0 ELSE f[a - 1]]

Tick ==
    /\ bucket' = [bucket EXCEPT !.rpmIdle = Least(@ + 1, Window),
                                !.tpmIdle = Least(@ + 1, Window)]
    /\ windows' = [d \in DOMAIN windows |-> Older(windows[d])]
    /\ admitted' = Older(admitted)
    /\ UNCHANGED <<key, limiter, phase, row, noded, usage, owed, bills>>

(* The server starts again: requests, recordings and buckets are gone, and *)
(* NewRateLimiter looks for Redis again.                                   *)
Restart ==
    /\ limiter' \in {"memory", "redis"}
    /\ bucket' = NoBucket
    /\ admitted' = IF limiter = "redis" /\ limiter' = "redis" THEN admitted
                   ELSE [a \in Ages |-> 0]
    /\ phase' = [r \in Slots |-> "idle"]
    /\ owed' = {} /\ noded' = {}
    /\ row' = [r \in Slots |-> NoRow]
    /\ UNCHANGED <<key, windows, usage, bills>>

Next == \/ \E r \in Slots : \/ ReadKey(r) \/ CheckLimits(r) \/ NodeRecords(r)
                            \/ Finish(r) \/ Fail(r)
                            \/ \E k \in Recorders : Record(r, k) \/ RecordFails(r, k)
        \/ Edit \/ Tick \/ Restart

Spec == Init /\ [][Next]_vars

-------------------------------------------------------------------------------

(* What may still be charged: to a request that passed, or will pass, the  *)
(* budget, and has not ended, or whose recording is under way.             *)
Pending(r) == phase[r] = "running" \/ (phase[r] = "read" /\ Within(r))

Open == {x \in Slots \X Recorders :
            x \in owed \/ (Pending(x[1]) /\ ~ (x[2] = "node" /\ x[1] \in noded))}

(***************************************************************************)
(* The key behaves as a ledger that reserves: a request that passes the    *)
(* budget when its row is read may be charged once by the node and once by *)
(* the proxy until that is settled; one that does not is never charged.    *)
(***************************************************************************)
Promise == INSTANCE Ledger WITH Tickets <- Slots \X Recorders,
              spent <- key.used, budget <- key.budget, reserved <- Open

ImplementsLedger == Promise!LSpec

(***************************************************************************)
(* The budget is compared with what was recorded when the key was read, so *)
(* it can be overspent, but by no more than the requests that are under    *)
(* way at a time can be charged, twice each: not by more the longer the    *)
(* gateway runs, whatever is edited, lost or restarted meanwhile.          *)
(***************************************************************************)
BudgetBounded ==
    key.used <= MaxBudget - 1 + MaxCost * (2 * Cardinality(Slots))

(***************************************************************************)
(* In any 60 seconds the sliding window lets through no more than a limit, *)
(* the bucket at most a full bucket and what 60 seconds, less a tick, add  *)
(* to it.  What passed on a script error is not counted.                   *)
(***************************************************************************)
Bounded(limit) ==
    limit > 0 =>
        IF limiter = "redis" THEN Total(admitted) <= limit
        ELSE Window * Total(admitted) <= limit * (2 * Window - 1)

RateBounded == Bounded(RPM) /\ Bounded(TPM)

(***************************************************************************)
(* The node and the proxy do not both charge for a request whose usage was *)
(* reported or that a cache took part in.                                  *)
(***************************************************************************)
MeteredOnce ==
    \A r \in Slots : phase[r] = "idle" /\ usage[r] # "silent" => bills[r] <= 1
===============================================================================
