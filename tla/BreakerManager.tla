---------------------------- MODULE BreakerManager ----------------------------
(***************************************************************************)
(* scheduler.CircuitBreakerManager: one breaker per backend, created when  *)
(* the backend is first asked about, and the configuration the breakers    *)
(* run with: built from the saved settings at start-up, replaced while     *)
(* running by every save that carries breaker settings.  A save puts the   *)
(* settings into the memory's configuration, writes that to the database,  *)
(* and only then reloads the breakers from the memory: three steps under   *)
(* no common lock, of which the second may fail.                           *)
(*                                                                         *)
(* A breaker is an entry of objs, so that one the map no longer leads to   *)
(* can be told from the one it does.  What a breaker counts is the affair  *)
(* of CircuitBreaker.                                                      *)
(* The parameter window stands for success_threshold and timeout_sec as    *)
(* well: the code treats the three alike.  0 is "not set".                 *)
(***************************************************************************)
EXTENDS Integers, Sequences, FiniteSets

CONSTANTS Backends, Threads,
          Operators,     \* requests that save the configuration
          Settings,      \* the breaker settings a request may bring
          Unset,         \* no breaker settings at all
          NoBackend      \* not a backend

(* Breaker settings; the parameter min_requests_in_window of theirs is      *)
(* read nowhere.                                                           *)
Params == [failureThreshold : Nat, window : Nat, rateLimitWeight : Nat, errorRate : Nat]

(* What a breaker runs with. *)
Config == [failureThreshold : Nat, window : Nat, minRequests : Nat, errorRate : Nat]

ASSUME SettingsAssumption == /\ Settings \subseteq Params \cup {Unset}
                             /\ Unset \in Settings
                             /\ Unset \notin Params
                             /\ NoBackend \notin Backends
                             /\ IsFiniteSet(Threads)

VARIABLES memory,     \* config.Get().Proxy.CircuitBreaker
          saved,      \* the same in the database
          op,         \* per operator: where its save is, and what it holds
          mconfig,    \* the manager's own configuration
          weight,     \* the manager's rateLimitWeight
          breakers,   \* backend -> index into objs, 0 while it has none
          objs,       \* the breakers made since the server started
          missed,     \* per thread: the backend it found no breaker for
          calm        \* history: the last save of proxy settings did not fail,
                      \* and no other save ran beside it or failed since

settingsVars == <<memory, saved, op, calm>>
managerVars == <<mconfig, weight, breakers, objs>>
vars == <<settingsVars, managerVars, missed>>

Breaker == [backend : Backends, config : Config]

(* with: the request carries breaker settings, so that it reloads. *)
Operation == [at : {"idle", "save", "write", "reload", "apply"},
              copy : Settings, with : BOOLEAN]

TypeOK == /\ memory \in Settings /\ saved \in Settings
          /\ op \in [Operators -> Operation]
          /\ \A o \in Operators : op[o].at = "apply" => op[o].copy # Unset
          /\ mconfig \in Config /\ weight \in Nat \ {0}
          /\ objs \in Seq(Breaker)
          /\ breakers \in [Backends -> 0 .. Len(objs)]
          /\ missed \in [Threads -> Backends \cup {NoBackend}]
          /\ calm \in BOOLEAN

-------------------------------------------------------------------------------

DefaultConfig == [failureThreshold |-> 5, window |-> 1, minRequests |-> 10,
                  errorRate |-> 0]
DefaultWeight == 2

OrDefault(n, default) == IF n > 0 THEN n ELSE default

(* buildCircuitBreakerManager: what is not set falls back to the default;  *)
(* the weight and the error rate are not read.                             *)
Built(s) ==
    IF s = Unset THEN DefaultConfig
    ELSE [failureThreshold |->
              OrDefault(s.failureThreshold, DefaultConfig.failureThreshold),
          window |-> OrDefault(s.window, DefaultConfig.window),
          minRequests |-> DefaultConfig.minRequests,
          errorRate |-> DefaultConfig.errorRate]

(* hotReloadCircuitBreaker: what is not set is passed on as zero, and so   *)
(* are the error rate and the requests it needs; the weight is read.       *)
Reloaded(s) == [failureThreshold |-> s.failureThreshold, window |-> s.window,
                minRequests |-> 0, errorRate |-> 0]

Idle == [at |-> "idle", copy |-> Unset, with |-> FALSE]
NoOperation == [o \in Operators |-> Idle]
MissNone == [t \in Threads |-> NoBackend]
NoBreakers == [b \in Backends |-> 0]

Init == /\ memory \in Settings /\ saved = memory
        /\ op = NoOperation
        /\ mconfig = Built(memory) /\ weight = DefaultWeight
        /\ breakers = NoBreakers /\ objs = <<>>
        /\ missed = MissNone
        /\ calm = TRUE

-------------------------------------------------------------------------------
(* Saves. *)

Alone(o) == \A p \in Operators \ {o} : op[p].at = "idle"

(* The request's proxy settings replace the memory's as a whole. *)
BeginSave(o, s) ==
    /\ op[o].at = "idle"
    /\ memory' = s
    /\ op' = [op EXCEPT ![o] = [at |-> "save", copy |-> Unset, with |-> s # Unset]]
    /\ calm' = Alone(o)
    /\ UNCHANGED <<saved, managerVars, missed>>

(* Any other handler that saves the configuration: the proxy settings of   *)
(* the memory go to the database with the rest.                            *)
BeginOther(o) ==
    /\ op[o].at = "idle"
    /\ op' = [op EXCEPT ![o] = [at |-> "save", copy |-> Unset, with |-> FALSE]]
    /\ calm' = (calm /\ Alone(o))
    /\ UNCHANGED <<memory, saved, managerVars, missed>>

(* SaveConfig takes a copy of what it will write. *)
Capture(o) ==
    /\ op[o].at = "save"
    /\ op' = [op EXCEPT ![o].at = "write", ![o].copy = memory]
    /\ UNCHANGED <<memory, saved, calm, managerVars, missed>>

Write(o) ==
    /\ op[o].at = "write"
    /\ saved' = op[o].copy
    /\ op' = [op EXCEPT ![o] = IF @.with THEN [@ EXCEPT !.at = "reload", !.copy = Unset]
                               ELSE Idle]
    /\ UNCHANGED <<memory, calm, managerVars, missed>>

(* An error anywhere on the way ends the request before the reload; the    *)
(* proxy settings are the first of the pairs written, so they may be in.   *)
WriteFails(o) ==
    /\ op[o].at = "write"
    /\ saved' \in {saved, op[o].copy}
    /\ op' = [op EXCEPT ![o] = Idle]
    /\ calm' = FALSE
    /\ UNCHANGED <<memory, managerVars, missed>>

(* Fault: the reload does not see that there are no settings by now. *)
ReadBackFault(o) ==
    /\ op[o].at = "reload"
    /\ op' = [op EXCEPT ![o].at = "apply", ![o].copy = memory]
    /\ UNCHANGED <<memory, saved, calm, managerVars, missed>>

(* The reload takes what the memory has by now. *)
ReadBack(o) ==
    /\ op[o].at = "reload"
    /\ op' = [op EXCEPT ![o] = IF memory = Unset THEN Idle
                               ELSE [@ EXCEPT !.at = "apply", !.copy = memory]]
    /\ UNCHANGED <<memory, saved, calm, managerVars, missed>>

(* Fault: only breakers made from now on get the new configuration. *)
UpdateConfigFault(c, w) == mconfig' = c /\ weight' = w /\ UNCHANGED objs

(* UpdateConfig: the manager keeps its configuration when the threshold is *)
(* zero, the breakers of the map take the new one whatever it says.        *)
UpdateConfig(c, w) ==
    /\ mconfig' = IF c.failureThreshold > 0 THEN c ELSE mconfig
    /\ weight' = w
    /\ objs' = [i \in DOMAIN objs |->
                   IF \E b \in Backends : breakers[b] = i
                   THEN [objs[i] EXCEPT !.config = c] ELSE objs[i]]

Apply(o) ==
    /\ op[o].at = "apply"
    /\ UpdateConfig(Reloaded(op[o].copy), OrDefault(op[o].copy.rateLimitWeight, DefaultWeight))
    /\ op' = [op EXCEPT ![o] = Idle]
    /\ UNCHANGED <<memory, saved, calm, breakers, missed>>

(* Of all this only what is in the database outlives the process. *)
Restart == /\ memory' = saved
           /\ op' = NoOperation
           /\ mconfig' = Built(saved) /\ weight' = DefaultWeight
           /\ breakers' = NoBreakers /\ objs' = <<>>
           /\ missed' = MissNone
           /\ calm' = TRUE
           /\ UNCHANGED saved

-------------------------------------------------------------------------------
(* Threads that ask for a breaker. *)

(* Get, first half, for a backend without an entry; with one it changes    *)
(* nothing.                                                                *)
Miss(t) ==
    /\ missed[t] = NoBackend
    /\ \E b \in Backends : /\ breakers[b] = 0
                           /\ missed' = [missed EXCEPT ![t] = b]
    /\ UNCHANGED <<settingsVars, managerVars>>

(* Fault: a new breaker does not get into the map when it has an entry. *)
CreateFault(t) ==
    /\ missed[t] # NoBackend
    /\ objs' = Append(objs, [backend |-> missed[t], config |-> mconfig])
    /\ breakers' = [breakers EXCEPT ![missed[t]] = IF @ = 0 THEN Len(objs) + 1 ELSE @]
    /\ missed' = [missed EXCEPT ![t] = NoBackend]
    /\ UNCHANGED <<settingsVars, mconfig, weight>>

(* Get, second half: make one under the write lock, without looking again. *)
Create(t) ==
    /\ missed[t] # NoBackend
    /\ objs' = Append(objs, [backend |-> missed[t], config |-> mconfig])
    /\ breakers' = [breakers EXCEPT ![missed[t]] = Len(objs) + 1]
    /\ missed' = [missed EXCEPT ![t] = NoBackend]
    /\ UNCHANGED <<settingsVars, mconfig, weight>>

Next == \/ \E t \in Threads : Miss(t) \/ Create(t)
        \/ \E o \in Operators :
              \/ \E s \in Settings : BeginSave(o, s)
              \/ BeginOther(o) \/ Capture(o) \/ Write(o) \/ WriteFails(o)
              \/ ReadBack(o) \/ Apply(o)
        \/ Restart

Spec == Init /\ [][Next]_vars

-------------------------------------------------------------------------------

(***************************************************************************)
(* Whatever has been saved, a breaker made from now on can trip: the zero  *)
(* threshold of a partial save never becomes the manager's own.            *)
(***************************************************************************)
NewBreakersCanTrip == mconfig.failureThreshold > 0

(***************************************************************************)
(* The race between the two halves of Get is over once the map has an      *)
(* entry: no more breakers are ever made for a backend than there were     *)
(* threads to miss it, and the last one made is the one all later callers  *)
(* get.                                                                    *)
(***************************************************************************)
RaceIsBounded ==
    \A b \in Backends :
        LET made == {i \in DOMAIN objs : objs[i].backend = b} IN
        /\ Cardinality(made) <= Cardinality(Threads)
        /\ \A i \in made : i <= breakers[b]

Complete(s) == s # Unset /\ s.failureThreshold > 0 /\ s.window > 0

(* Two configurations under which a breaker acts the same: without an      *)
(* error rate the requests it would need are not looked at.                *)
SameEffect(c, d) == /\ c.failureThreshold = d.failureThreshold
                    /\ c.window = d.window
                    /\ c.errorRate = 0 /\ d.errorRate = 0

Quiet == calm /\ \A o \in Operators : op[o].at = "idle"

(***************************************************************************)
(* After a save that did not fail and that no other save ran beside,       *)
(* memory and database agree; and if the settings have the thresholds and  *)
(* times, every breaker in use acts, and one made from now on would act,   *)
(* as after a restart: whatever was saved before and whoever was making a  *)
(* breaker meanwhile.  Saves that overlap can leave the database or the    *)
(* breakers with the older settings, partial ones leave zeros in the       *)
(* breakers, and the weight of a rate limit does not survive a restart.    *)
(***************************************************************************)
SaveTakesEffect ==
    Quiet => /\ memory = saved
             /\ Complete(saved) =>
                   /\ SameEffect(mconfig, Built(saved))
                   /\ \A b \in Backends : breakers[b] # 0 =>
                         SameEffect(objs[breakers[b]].config, Built(saved))
===============================================================================
