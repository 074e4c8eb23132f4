------------------------- MODULE CircuitBreaker_proof -------------------------
(***************************************************************************)
(* Theorems about the circuit breaker, for every set of record slots,      *)
(* every horizon and every set of configurations: its counts, its          *)
(* threshold, its cool-down, and that what makes it refuse wears off.      *)
(***************************************************************************)
EXTENDS CircuitBreaker, FiniteSetTheorems, NaturalsInduction,
        WellFoundedInduction, TLAPS

-------------------------------------------------------------------------------
(* Every operation takes breakers to breakers. *)

LEMMA ZeroAge == 0 \in 0 .. Horizon
BY BoundsAssumption

LEMMA NewBreakerType == NewBreaker \in BreakerType
BY ZeroAge DEF NewBreaker, BreakerType, BreakerStates

LEMMA AgedType ==
    ASSUME NEW b \in BreakerType
    PROVE  Aged(b) \in BreakerType
<1> DEFINE older == [s \in Slots |-> IF s \in b.requests THEN Older(b.age[s]) ELSE 0]
<1>1. \A n \in 0 .. Horizon : Older(n) \in 0 .. Horizon
  BY BoundsAssumption DEF Older
<1>2. b.age \in [Slots -> 0 .. Horizon] /\ b.sinceChange \in 0 .. Horizon
  BY DEF BreakerType
<1>3. older \in [Slots -> 0 .. Horizon]
  BY <1>1, <1>2, BoundsAssumption
<1>4. Older(b.sinceChange) \in 0 .. Horizon
  BY <1>1, <1>2
<1>5. [b EXCEPT !.age = older, !.sinceChange = Older(@)] \in BreakerType
  <2> HIDE DEF older
  <2> QED
    BY <1>3, <1>4 DEF BreakerType
<1> QED
  BY <1>5 DEF Aged

LEMMA MovedType ==
    ASSUME NEW b \in BreakerType, NEW st \in BreakerStates
    PROVE  Moved(b, st) \in BreakerType
BY ZeroAge DEF Moved, BreakerType

LEMMA WithoutRecordsType ==
    ASSUME NEW b \in BreakerType
    PROVE  WithoutRecords(b) \in BreakerType
BY ZeroAge DEF WithoutRecords, BreakerType

LEMMA CleanedType ==
    ASSUME NEW b \in BreakerType, NEW c
    PROVE  Cleaned(b, c) \in BreakerType
BY ZeroAge DEF Cleaned, BreakerType

LEMMA AskedType ==
    ASSUME NEW b \in BreakerType, NEW c
    PROVE  Asked(b, c) \in BreakerType
BY CleanedType, MovedType DEF Asked, BreakerStates

LEMMA SucceededType ==
    ASSUME NEW b \in BreakerType, NEW c, NEW new \in SUBSET Slots
    PROVE  Succeeded(b, c, new) \in BreakerType
<1> DEFINE r == [b EXCEPT !.successes = @ \cup new, !.requests = @ \cup new]
<1>1. r \in BreakerType
  BY DEF BreakerType
<1>2. WithoutRecords(Moved(r, "closed")) \in BreakerType
  BY <1>1, MovedType, WithoutRecordsType DEF BreakerStates
<1> QED
  BY <1>1, <1>2 DEF Succeeded

LEMMA FailedType ==
    ASSUME NEW b \in BreakerType, NEW c, NEW new \in SUBSET Slots
    PROVE  Failed(b, c, new) \in BreakerType
<1> DEFINE r == [b EXCEPT !.failures = @ \cup new, !.requests = @ \cup new]
<1>1. r \in BreakerType
  BY DEF BreakerType
<1>2. Moved(r, "open") \in BreakerType
  BY <1>1, MovedType DEF BreakerStates
<1>3. [Moved(r, "open") EXCEPT !.successes = {}] \in BreakerType
  BY <1>2 DEF BreakerType
<1> QED
  BY <1>1, <1>2, <1>3 DEF Failed

LEMMA ResetType ==
    ASSUME NEW b \in BreakerType
    PROVE  Reset(b) \in BreakerType
BY WithoutRecordsType, MovedType DEF Reset, BreakerStates

-------------------------------------------------------------------------------

LEMMA TypeStep == TypeOK /\ [Next]_vars => TypeOK'
<1> SUFFICES ASSUME TypeOK, [Next]_vars PROVE TypeOK'
  OBVIOUS
<1> USE BoundsAssumption DEF TypeOK
<1>1. CASE Admit
  BY <1>1, AskedType DEF Admit, Room
<1>2. CASE Refuse
  BY <1>2, AskedType DEF Refuse
<1>3. CASE Overrule
  BY <1>3, AskedType DEF Overrule, Room
<1>4. CASE AskOnly
  BY <1>4, AskedType DEF AskOnly
<1>5. CASE RecordSuccess
  BY <1>5, SucceededType DEF RecordSuccess, Finish, Fresh
<1>6. CASE RecordFailure
  BY <1>6, FailedType DEF RecordFailure, Finish, Fresh
<1>7. CASE RecordRateLimitFailure
  BY <1>7, FailedType DEF RecordRateLimitFailure, Finish, Fresh
<1>8. CASE Forget
  BY <1>8 DEF Forget, Finish
<1>9. CASE Snapshot
  BY <1>9, CleanedType DEF Snapshot
<1>10. CASE ResetBreaker
  BY <1>10, ResetType DEF ResetBreaker
<1>11. CASE Tick
  BY <1>11, AgedType DEF Tick
<1>12. CASE Reload
  BY <1>12 DEF Reload
<1>13. CASE UNCHANGED vars
  BY <1>13 DEF vars
<1> QED
  BY <1>1, <1>2, <1>3, <1>4, <1>5, <1>6, <1>7, <1>8, <1>9, <1>10, <1>11,
     <1>12, <1>13
     DEF Next, Ask, Record, Operate

(***************************************************************************)
(* Type correctness: whatever order admissions, late outcomes, evictions,  *)
(* resets and hot reloads come in, the breaker remains one of its three    *)
(* states with its ages and counts within their bounds.                    *)
(***************************************************************************)
THEOREM TypeCorrect == Spec => []TypeOK
<1>1. Init => TypeOK
  BY BoundsAssumption, ZeroAge, NewBreakerType DEF Init, TypeOK
<1> QED
  BY <1>1, TypeStep, PTL DEF Spec

-------------------------------------------------------------------------------
(* The three slices are kept consistent. *)

Consistent(b) == /\ b.failures \cup b.successes \subseteq b.requests
                 /\ b.failures \cap b.successes = {}

LEMMA AskedConsistent ==
    ASSUME NEW b \in BreakerType, NEW c, Consistent(b)
    PROVE  Consistent(Cleaned(b, c)) /\ Consistent(Asked(b, c))
<1>1. Consistent(Cleaned(b, c))
  BY DEF Consistent, Cleaned, BreakerType
<1>2. ASSUME NEW r \in BreakerType, Consistent(r)
      PROVE  Consistent(Moved(r, "half-open"))
  BY <1>2 DEF Consistent, Moved, BreakerType
<1> QED
  BY <1>1, <1>2, CleanedType DEF Asked

LEMMA SucceededConsistent ==
    ASSUME NEW b \in BreakerType, NEW c, NEW new \in SUBSET (Slots \ b.requests),
           Consistent(b)
    PROVE  Consistent(Succeeded(b, c, new))
<1> DEFINE r == [b EXCEPT !.successes = @ \cup new, !.requests = @ \cup new]
<1>1. r \in BreakerType /\ Consistent(r)
  BY DEF Consistent, BreakerType
<1>2. Moved(r, "closed") \in BreakerType
  BY <1>1, MovedType DEF BreakerStates
<1>3. ASSUME NEW q \in BreakerType PROVE Consistent(WithoutRecords(q))
  BY DEF Consistent, WithoutRecords, BreakerType
<1>4. Consistent(WithoutRecords(Moved(r, "closed")))
  BY <1>2, <1>3
<1> QED
  BY <1>1, <1>4 DEF Succeeded

LEMMA FailedConsistent ==
    ASSUME NEW b \in BreakerType, NEW c, NEW new \in SUBSET (Slots \ b.requests),
           Consistent(b)
    PROVE  Consistent(Failed(b, c, new))
<1> DEFINE r == [b EXCEPT !.failures = @ \cup new, !.requests = @ \cup new]
<1>1. r \in BreakerType /\ Consistent(r)
  BY DEF Consistent, BreakerType
<1>2. Moved(r, "open") \in BreakerType /\ Consistent(Moved(r, "open"))
  <2>1. ASSUME NEW q \in BreakerType, Consistent(q)
        PROVE  Consistent(Moved(q, "open"))
    BY <2>1 DEF Consistent, Moved, BreakerType
  <2> QED
    BY <1>1, <2>1, MovedType DEF BreakerStates
<1>3. Consistent([Moved(r, "open") EXCEPT !.successes = {}])
  <2>1. ASSUME NEW q \in BreakerType, Consistent(q)
        PROVE  Consistent([q EXCEPT !.successes = {}])
    BY <2>1 DEF Consistent, BreakerType
  <2> QED
    BY <1>2, <2>1
<1> QED
  BY <1>1, <1>2, <1>3 DEF Failed

(***************************************************************************)
(* Outcomes are counted once: a recorded failure or success is a recorded  *)
(* request and never both, whatever is evicted or cleared in between.      *)
(***************************************************************************)
THEOREM CountsConsistent == Spec => []Accounting
<1> DEFINE Inv == TypeOK /\ Consistent(cb)
<1>1. Init => Inv
  <2>1. Init => TypeOK
    BY BoundsAssumption, ZeroAge, NewBreakerType DEF Init, TypeOK
  <2>2. Init => Consistent(cb)
    BY DEF Init, NewBreaker, Consistent
  <2> QED
    BY <2>1, <2>2
<1>2. Inv /\ [Next]_vars => Consistent(cb)'
  <2> SUFFICES ASSUME Inv, [Next]_vars PROVE Consistent(cb')
    BY DEF Consistent
  <2>0. cb \in BreakerType
    BY DEF TypeOK
  <2>1. CASE Ask
    BY <2>0, <2>1, AskedConsistent DEF Ask, Admit, Refuse, Overrule, AskOnly
  <2>2. CASE RecordSuccess
    BY <2>0, <2>2, SucceededConsistent DEF RecordSuccess, Fresh
  <2>3. CASE RecordFailure \/ RecordRateLimitFailure
    BY <2>0, <2>3, FailedConsistent DEF RecordFailure, RecordRateLimitFailure, Fresh
  <2>4. CASE Snapshot
    BY <2>0, <2>4, AskedConsistent DEF Snapshot
  <2>5. CASE ResetBreaker
    <3>1. ASSUME NEW b \in BreakerType
          PROVE  Consistent(Moved(WithoutRecords(b), "closed"))
      BY DEF Consistent, Moved, WithoutRecords, BreakerType
    <3> QED
      BY <2>0, <2>5, <3>1 DEF ResetBreaker, Reset
  <2>6. CASE Tick
    <3>1. ASSUME NEW b \in BreakerType, Consistent(b)
          PROVE  Consistent(Aged(b))
      BY <3>1 DEF Consistent, Aged, BreakerType
    <3> QED
      BY <2>0, <2>6, <3>1 DEF Tick
  <2>7. CASE Forget \/ Reload \/ UNCHANGED vars
    BY <2>7 DEF Forget, Reload, vars
  <2> QED
    BY <2>1, <2>2, <2>3, <2>4, <2>5, <2>6, <2>7 DEF Next, Record, Operate
<1>3. Inv => Accounting
  BY DEF Consistent, Accounting
<1> QED
  BY <1>1, <1>2, <1>3, TypeCorrect, PTL DEF Spec

-------------------------------------------------------------------------------
(* A closed breaker is below its failure threshold. *)

Below(b, c) ==
    b.state = "closed" /\ c.failureThreshold > 0
        => Cardinality(b.failures) < c.failureThreshold

LEMMA FailuresFinite ==
    ASSUME NEW b \in BreakerType
    PROVE  IsFiniteSet(b.failures) /\ Cardinality(b.failures) \in Nat
<1>1. b.failures \in SUBSET Slots
  BY DEF BreakerType
<1> QED
  BY <1>1, SlotsAssumption, FS_Subset, FS_CardinalityType

(* An eviction never raises the count of failures. *)
LEMMA EvictionShrinks ==
    ASSUME NEW b \in BreakerType, NEW c
    PROVE  Cardinality(Cleaned(b, c).failures) <= Cardinality(b.failures)
<1>1. Cleaned(b, c).failures \in SUBSET b.failures
  BY DEF Cleaned, BreakerType
<1> QED
  BY <1>1, FailuresFinite, FS_Subset

LEMMA CleanedBelow ==
    ASSUME NEW b \in BreakerType, NEW c \in ConfigType, Below(b, c)
    PROVE  Below(Cleaned(b, c), c)
<1>1. Cleaned(b, c).state = b.state
  BY DEF Cleaned, BreakerType
<1>2. c.failureThreshold \in Nat
  BY DEF ConfigType
<1>3. /\ Cardinality(b.failures) \in Nat
      /\ Cardinality(Cleaned(b, c).failures) \in Nat
  BY FailuresFinite, CleanedType
<1> QED
  BY <1>1, <1>2, <1>3, EvictionShrinks DEF Below

LEMMA AskedBelow ==
    ASSUME NEW b \in BreakerType, NEW c \in ConfigType, Below(b, c)
    PROVE  Below(Asked(b, c), c)
<1>1. ASSUME NEW r \in BreakerType PROVE Moved(r, "half-open").state = "half-open"
  BY DEF Moved, BreakerType
<1> QED
  BY <1>1, CleanedType, CleanedBelow DEF Asked, Below

(* Closing out of half-open starts from no failures at all. *)
LEMMA SucceededBelow ==
    ASSUME NEW b \in BreakerType, NEW c \in ConfigType, NEW new \in SUBSET Slots,
           Below(b, c)
    PROVE  Below(Succeeded(b, c, new), c)
<1> DEFINE r == [b EXCEPT !.successes = @ \cup new, !.requests = @ \cup new]
<1>1. r \in BreakerType /\ r.state = b.state /\ r.failures = b.failures
  BY DEF BreakerType
<1>2. Below(r, c)
  BY <1>1 DEF Below
<1>3. WithoutRecords(Moved(r, "closed")).failures = {}
  <2>1. ASSUME NEW q \in BreakerType PROVE WithoutRecords(q).failures = {}
    BY DEF WithoutRecords, BreakerType
  <2> QED
    BY <1>1, <2>1, MovedType DEF BreakerStates
<1>4. Below(WithoutRecords(Moved(r, "closed")), c)
  BY <1>3, FS_EmptySet DEF Below, ConfigType
<1> QED
  BY <1>2, <1>4 DEF Succeeded

(* A failure that leaves the breaker closed left it under the threshold. *)
LEMMA FailedBelow ==
    ASSUME NEW b \in BreakerType, NEW c \in ConfigType, NEW new \in SUBSET Slots
    PROVE  Below(Failed(b, c, new), c)
<1> DEFINE r == [b EXCEPT !.failures = @ \cup new, !.requests = @ \cup new]
<1>1. r \in BreakerType
  BY DEF BreakerType
<1>2. /\ Moved(r, "open").state = "open"
      /\ [Moved(r, "open") EXCEPT !.successes = {}].state = "open"
  <2>1. ASSUME NEW q \in BreakerType
        PROVE  /\ Moved(q, "open").state = "open"
               /\ [Moved(q, "open") EXCEPT !.successes = {}].state = "open"
    BY DEF Moved, BreakerType
  <2> QED
    BY <1>1, <2>1
<1>3. CASE r.state = "closed" /\ ~ShouldOpen(r, c)
  <2>1. ~(c.failureThreshold > 0 /\ Cardinality(r.failures) >= c.failureThreshold)
    BY <1>3 DEF ShouldOpen
  <2>2. Cardinality(r.failures) \in Nat /\ c.failureThreshold \in Nat
    BY <1>1, FailuresFinite DEF ConfigType
  <2>3. Below(r, c)
    BY <2>1, <2>2 DEF Below
  <2>4. Failed(b, c, new) = r
    BY <1>3 DEF Failed
  <2> QED
    BY <2>3, <2>4
<1>4. CASE r.state # "closed" \/ ShouldOpen(r, c)
  <2>1. Failed(b, c, new).state # "closed"
    <3>1. r.state \in BreakerStates
      BY <1>1 DEF BreakerType
    <3>2. CASE r.state = "half-open"
      BY <1>2, <3>2 DEF Failed
    <3>3. CASE r.state = "closed" /\ ShouldOpen(r, c)
      BY <1>2, <3>3 DEF Failed
    <3>4. CASE r.state = "open"
      BY <3>4 DEF Failed
    <3> QED
      BY <1>4, <3>1, <3>2, <3>3, <3>4 DEF BreakerStates
  <2> QED
    BY <2>1 DEF Below
<1> QED
  BY <1>3, <1>4

(***************************************************************************)
(* While reloads leave the failure threshold as it is, no interleaving of  *)
(* admissions, late outcomes, weighted failures, evictions, resets and     *)
(* reloads leaves a breaker closed with as many failures as its threshold. *)
(***************************************************************************)
THEOREM NeverClosedAtThreshold ==
    ASSUME \A c, d \in Configs : c.failureThreshold = d.failureThreshold
    PROVE  Spec => []ClosedBelowThreshold
<1> DEFINE Inv == TypeOK /\ Below(cb, config)
<1>1. Init => Inv
  <2>1. Init => TypeOK
    BY BoundsAssumption, ZeroAge, NewBreakerType DEF Init, TypeOK
  <2>2. Init => Below(cb, config)
    BY FS_EmptySet, ConfigsAssumption DEF Init, NewBreaker, Below, ConfigType
  <2> QED
    BY <2>1, <2>2
<1>2. Inv /\ [Next]_vars => Below(cb, config)'
  <2> SUFFICES ASSUME Inv, [Next]_vars PROVE Below(cb', config')
    BY DEF Below
  <2>0. cb \in BreakerType /\ config \in ConfigType
    BY ConfigsAssumption DEF TypeOK
  <2>2. CASE Ask
    BY <2>0, <2>2, AskedBelow DEF Ask, Admit, Refuse, Overrule, AskOnly
  <2>3. CASE RecordSuccess
    BY <2>0, <2>3, SucceededBelow DEF RecordSuccess, Fresh
  <2>4. CASE RecordFailure \/ RecordRateLimitFailure
    BY <2>0, <2>4, FailedBelow DEF RecordFailure, RecordRateLimitFailure, Fresh
  <2>5. CASE Snapshot
    BY <2>0, <2>5, CleanedBelow DEF Snapshot
  <2>6. CASE ResetBreaker
    <3>1. ASSUME NEW b \in BreakerType
          PROVE  Moved(WithoutRecords(b), "closed").failures = {}
      BY DEF Moved, WithoutRecords, BreakerType
    <3>2. cb'.failures = {}
      BY <2>0, <2>6, <3>1 DEF ResetBreaker, Reset
    <3> QED
      BY <2>0, <2>6, <3>2, FS_EmptySet DEF ResetBreaker, Below, ConfigType
  <2>7. CASE Tick
    <3>1. ASSUME NEW b \in BreakerType
          PROVE  Aged(b).state = b.state /\ Aged(b).failures = b.failures
      BY DEF Aged, BreakerType
    <3> QED
      BY <2>0, <2>7, <3>1 DEF Tick, Below
  <2>8. CASE Forget \/ UNCHANGED vars
    BY <2>8 DEF Forget, vars
  <2>9. CASE Reload
    <3>1. config'.failureThreshold = config.failureThreshold /\ cb' = cb
      BY <2>9 DEF Reload, TypeOK
    <3> QED
      BY <3>1 DEF Below
  <2> QED
    BY <2>2, <2>3, <2>4, <2>5, <2>6, <2>7, <2>8, <2>9 DEF Next, Record, Operate
<1>3. Inv => ClosedBelowThreshold
  BY DEF Below, ClosedBelowThreshold
<1> QED
  BY <1>1, <1>2, <1>3, TypeCorrect, PTL DEF Spec

-------------------------------------------------------------------------------

(* What each operation does to the state and to its clock. *)

LEMMA CleanedPhase ==
    ASSUME NEW b \in BreakerType, NEW c
    PROVE  /\ Cleaned(b, c).state = b.state
           /\ Cleaned(b, c).sinceChange = b.sinceChange
BY DEF Cleaned, BreakerType

LEMMA AskedPhase ==
    ASSUME NEW b \in BreakerType, NEW c
    PROVE  IF b.state = "open" /\ b.sinceChange > c.timeout
           THEN Asked(b, c).state = "half-open"
           ELSE /\ Asked(b, c).state = b.state
                /\ Asked(b, c).sinceChange = b.sinceChange
<1>1. ASSUME NEW r \in BreakerType PROVE Moved(r, "half-open").state = "half-open"
  BY DEF Moved, BreakerType
<1> QED
  BY <1>1, CleanedType, CleanedPhase DEF Asked

LEMMA SucceededPhase ==
    ASSUME NEW b \in BreakerType, NEW c, NEW new \in SUBSET Slots
    PROVE  /\ b.state # "open" => Succeeded(b, c, new).state # "open"
           /\ b.state = "open" =>
                 /\ Succeeded(b, c, new).state = "open"
                 /\ Succeeded(b, c, new).sinceChange = b.sinceChange
<1> DEFINE r == [b EXCEPT !.successes = @ \cup new, !.requests = @ \cup new]
<1>1. r \in BreakerType /\ r.state = b.state /\ r.sinceChange = b.sinceChange
  BY DEF BreakerType
<1>2. WithoutRecords(Moved(r, "closed")).state = "closed"
  <2>1. ASSUME NEW q \in BreakerType PROVE WithoutRecords(q).state = q.state
    BY DEF WithoutRecords, BreakerType
  <2>2. Moved(r, "closed").state = "closed" /\ Moved(r, "closed") \in BreakerType
    <3>1. ASSUME NEW q \in BreakerType PROVE Moved(q, "closed").state = "closed"
      BY DEF Moved, BreakerType
    <3> QED
      BY <1>1, <3>1, MovedType DEF BreakerStates
  <2> QED
    BY <2>1, <2>2
<1> HIDE DEF r
<1>3. CASE b.state = "half-open" /\ Cardinality(r.successes) >= c.successThreshold
  BY <1>1, <1>2, <1>3 DEF Succeeded, r
<1>4. CASE ~(b.state = "half-open" /\ Cardinality(r.successes) >= c.successThreshold)
  <2>1. Succeeded(b, c, new) = r
    BY <1>1, <1>4 DEF Succeeded, r
  <2> QED
    BY <1>1, <2>1
<1> QED
  BY <1>3, <1>4

LEMMA FailedPhase ==
    ASSUME NEW b \in BreakerType, NEW c, NEW new \in SUBSET Slots
    PROVE  \/ /\ b.state # "open"
              /\ Failed(b, c, new).state = "open"
              /\ Failed(b, c, new).sinceChange = 0
           \/ /\ b.state # "half-open"
              /\ Failed(b, c, new).state = b.state
              /\ Failed(b, c, new).sinceChange = b.sinceChange
<1> DEFINE r == [b EXCEPT !.failures = @ \cup new, !.requests = @ \cup new]
<1>1. r \in BreakerType /\ r.state = b.state /\ r.sinceChange = b.sinceChange
  BY DEF BreakerType
<1>2. ASSUME NEW q \in BreakerType
      PROVE  /\ Moved(q, "open").state = "open" /\ Moved(q, "open").sinceChange = 0
             /\ [Moved(q, "open") EXCEPT !.successes = {}].state = "open"
             /\ [Moved(q, "open") EXCEPT !.successes = {}].sinceChange = 0
  BY DEF Moved, BreakerType
<1> HIDE DEF r
<1>3. CASE b.state = "half-open"
  <2>1. Failed(b, c, new) = [Moved(r, "open") EXCEPT !.successes = {}]
    BY <1>1, <1>3 DEF Failed, r
  <2> QED
    BY <1>1, <1>2, <1>3, <2>1
<1>4. CASE b.state = "closed" /\ ShouldOpen(r, c)
  <2>1. Failed(b, c, new) = Moved(r, "open")
    BY <1>1, <1>4 DEF Failed, r
  <2> QED
    BY <1>1, <1>2, <1>4, <2>1
<1>5. CASE b.state = "open" \/ (b.state = "closed" /\ ~ShouldOpen(r, c))
  <2>1. Failed(b, c, new) = r
    BY <1>1, <1>5 DEF Failed, r
  <2> QED
    BY <1>1, <1>5, <2>1
<1>6. b.state \in {"closed", "open", "half-open"}
  BY DEF BreakerType, BreakerStates
<1> QED
  BY <1>3, <1>4, <1>5, <1>6

LEMMA ResetPhase ==
    ASSUME NEW b \in BreakerType
    PROVE  Reset(b).state = "closed"
BY DEF Reset, Moved, WithoutRecords, BreakerType

LEMMA AgedPhase ==
    ASSUME NEW b \in BreakerType
    PROVE  Aged(b).state = b.state /\ Aged(b).sinceChange = Older(b.sinceChange)
BY DEF Aged, BreakerType

(***************************************************************************)
(* No late outcome, and nothing else, restarts the cool-down of a breaker  *)
(* that stays open.                                                        *)
(***************************************************************************)
THEOREM CoolDownOnlyAdvances == Spec => CoolDownNeverRestarts
<1>1. TypeOK /\ [Next]_vars
          => [cb.state = "open" /\ cb'.state = "open"
                  => cb'.sinceChange >= cb.sinceChange]_vars
  <2> SUFFICES ASSUME TypeOK, [Next]_vars, cb.state = "open", cb'.state = "open"
               PROVE  cb'.sinceChange >= cb.sinceChange
    OBVIOUS
  <2>0. cb \in BreakerType /\ cb.sinceChange \in Nat
    BY BoundsAssumption DEF TypeOK, BreakerType
  <2>1. CASE Ask
    BY <2>0, <2>1, AskedPhase DEF Ask, Admit, Refuse, Overrule, AskOnly
  <2>2. CASE RecordSuccess
    BY <2>0, <2>2, SucceededPhase DEF RecordSuccess, Fresh
  <2>3. CASE RecordFailure \/ RecordRateLimitFailure
    BY <2>0, <2>3, FailedPhase DEF RecordFailure, RecordRateLimitFailure, Fresh
  <2>4. CASE Snapshot
    BY <2>0, <2>4, CleanedPhase DEF Snapshot
  <2>5. CASE ResetBreaker
    BY <2>0, <2>5, ResetPhase DEF ResetBreaker
  <2>6. CASE Tick
    BY <2>0, <2>6, AgedPhase DEF Tick, Older
  <2>7. CASE Forget \/ Reload \/ UNCHANGED vars
    BY <2>0, <2>7 DEF Forget, Reload, vars
  <2> QED
    BY <2>1, <2>2, <2>3, <2>4, <2>5, <2>6, <2>7 DEF Next, Record, Operate
<1> QED
  BY <1>1, TypeCorrect, PTL DEF Spec, CoolDownNeverRestarts

-------------------------------------------------------------------------------
(* The breaker implements the abstract cool-down. *)

LEMMA MapInit == Init => Promise!CDInit
BY DEF Init, NewBreaker, Promise!CDInit

LEMMA MapStep == TypeOK /\ TypeOK' /\ [Next]_vars
                     => [Promise!CDNext]_(Promise!cvars)
<1> SUFFICES ASSUME TypeOK, TypeOK', [Next]_vars
             PROVE  [Promise!CDNext]_(Promise!cvars)
  OBVIOUS
<1>0. /\ cb \in BreakerType /\ cb.sinceChange \in Nat
      /\ inFlight \in Nat /\ inFlight' \in Nat
      /\ cb.state \in {"closed", "open", "half-open"}
  BY BoundsAssumption DEF TypeOK, BreakerType, BreakerStates
<1> USE DEF Promise!CDNext, Promise!cvars
<1>1. CASE Admit
  <2>1. cb'.state # "open"
    BY <1>0, <1>1, AskedPhase DEF Admit, Allows
  <2>2. Promise!Send
    BY <1>0, <1>1, <2>1 DEF Admit, Allows, Promise!Send, Promise!Rested
  <2> QED
    BY <2>2
<1>2. CASE Refuse \/ Overrule
  <2>1. cb'.state = cb.state /\ cb'.sinceChange = cb.sinceChange
    BY <1>0, <1>2, AskedPhase DEF Refuse, Overrule, Allows
  <2> QED
    BY <1>2, <2>1 DEF Refuse, Overrule
<1>3. CASE AskOnly
  <2>1. CASE cb.state = "open" /\ cb.sinceChange > config.timeout
    <3>1. Promise!Lift
      BY <1>0, <1>3, <2>1, AskedPhase DEF AskOnly, Promise!Lift, Promise!Rested
    <3> QED
      BY <3>1
  <2>2. CASE ~(cb.state = "open" /\ cb.sinceChange > config.timeout)
    <3>1. cb'.state = cb.state /\ cb'.sinceChange = cb.sinceChange
      BY <1>0, <1>3, <2>2, AskedPhase DEF AskOnly
    <3> QED
      BY <1>3, <3>1 DEF AskOnly
  <2> QED
    BY <2>1, <2>2
<1>4. CASE RecordSuccess
  <2>1. \/ cb.state # "open" /\ cb'.state # "open"
        \/ cb.state = "open" /\ cb'.state = "open" /\ cb'.sinceChange = cb.sinceChange
    BY <1>0, <1>4, SucceededPhase DEF RecordSuccess, Fresh
  <2> QED
    BY <1>0, <1>4, <2>1 DEF RecordSuccess, Finish, Promise!Answer
<1>5. CASE RecordFailure \/ RecordRateLimitFailure
  <2>1. CASE cb.state # "open" /\ cb'.state = "open" /\ cb'.sinceChange = 0
    <3>1. Promise!Trip
      BY <1>0, <1>5, <2>1 DEF RecordFailure, RecordRateLimitFailure, Finish, Promise!Trip
    <3> QED
      BY <3>1
  <2>2. CASE cb'.state = cb.state /\ cb'.sinceChange = cb.sinceChange
    BY <1>0, <1>5, <2>2
       DEF RecordFailure, RecordRateLimitFailure, Finish, Promise!Answer
  <2> QED
    BY <1>0, <1>5, <2>1, <2>2, FailedPhase
       DEF RecordFailure, RecordRateLimitFailure, Fresh
<1>6. CASE Forget
  BY <1>0, <1>6 DEF Forget, Finish, Promise!Answer
<1>7. CASE Snapshot
  BY <1>0, <1>7, CleanedPhase DEF Snapshot
<1>8. CASE ResetBreaker
  BY <1>0, <1>8, ResetPhase DEF ResetBreaker, Promise!Override
<1>9. CASE Reload
  BY <1>0, <1>9 DEF Reload, Promise!Retune
<1>10. CASE Tick
  BY <1>0, <1>10, AgedPhase DEF Tick, Older, Promise!Wait
<1>11. CASE UNCHANGED vars
  BY <1>11 DEF vars
<1> QED
  BY <1>1, <1>2, <1>3, <1>4, <1>5, <1>6, <1>7, <1>8, <1>9, <1>10, <1>11
     DEF Next, Ask, Record, Operate

(***************************************************************************)
(* The safety half of ImplementsCoolDown: every behaviour of the breaker,  *)
(* hot reloads and late outcomes included, is one the abstract cool-down   *)
(* allows, so no request that heeds it goes out before the rest is over.   *)
(***************************************************************************)
THEOREM RefinesCoolDown == Spec => Promise!CDSafety
BY MapInit, MapStep, TypeCorrect, PTL DEF Spec, Promise!CDSafety

-------------------------------------------------------------------------------
(* What locks a backend out wears off. *)

(* n ticks from now every record of S is past every window.                  *)
Within(b, S, n) == \A s \in S : b.age[s] + n >= Horizon

TicksLeft(b, S) ==
    CHOOSE n \in Nat : Within(b, S, n) /\ \A k \in Nat : Within(b, S, k) => n <= k

(* How long a breaker may still refuse, the coarsest part first: an open one  *)
(* until its timeout, a half-open one until what was recorded is gone, the    *)
(* failures first.                                                            *)
Waiting(b) ==
    IF b.state = "open" THEN <<0, Horizon - b.sinceChange, 0>>
    ELSE <<1, TicksLeft(b, b.failures),
           IF TicksLeft(b, b.failures) = 0 THEN TicksLeft(b, b.successes) ELSE 0>>

Measures == [1 .. 3 -> Nat]
Less == {ss \in Nat \X Nat : ss[1] < ss[2]}
Smaller == LexProductOrdering(Less, Nat, 3)

LEMMA LessWellFounded == IsWellFoundedOn(Less, Nat)
<1>1. Less = OpToRel(<, Nat)
  BY SMT DEF Less, OpToRel
<1> QED
  BY <1>1, NatLessThanWellFounded, Zenon

(***************************************************************************)
(* There is no endless sequence of waits each of which is below the one    *)
(* before it: with WaitIsUsedUp, a breaker whose clock goes on (the time   *)
(* that Allow compares with Timeout and WindowSize) cannot refuse for ever.*)
(***************************************************************************)
THEOREM NoEndlessDescent == IsWellFoundedOn(Smaller, Measures)
BY LessWellFounded, WFLexProductOrdering, Zenon DEF Smaller, Measures

LEMMA Lexicographic ==
    ASSUME NEW a \in Nat, NEW b \in Nat, NEW c \in Nat,
           NEW a2 \in Nat, NEW b2 \in Nat, NEW c2 \in Nat,
           \/ a2 < a
           \/ a2 = a /\ b2 < b
           \/ a2 = a /\ b2 = b /\ c2 < c
    PROVE  <<<<a2, b2, c2>>, <<a, b, c>>>> \in Smaller
<1> DEFINE s == <<a2, b2, c2>>
           t == <<a, b, c>>
<1>1. s \in Measures /\ t \in Measures
  BY DEF Measures
<1>2. /\ s[1] = a2 /\ s[2] = b2 /\ s[3] = c2
      /\ t[1] = a /\ t[2] = b /\ t[3] = c
  OBVIOUS
<1> HIDE DEF s, t
<1>3. \E j \in 1 .. 3 : /\ \A i \in 1 .. (j - 1) : s[i] = t[i]
                        /\ s[j] < t[j] /\ s[j] \in Nat /\ t[j] \in Nat
  <2>1. CASE a2 < a
    BY <2>1, <1>2
  <2>2. CASE a2 = a /\ b2 < b
    BY <2>2, <1>2
  <2>3. CASE a2 = a /\ b2 = b /\ c2 < c
    BY <2>3, <1>2
  <2> QED
    BY <2>1, <2>2, <2>3
<1>4. PICK j \in 1 .. 3 : /\ \A i \in 1 .. (j - 1) : s[i] = t[i]
                          /\ <<s[j], t[j]>> \in Less
  BY <1>3 DEF Less
<1>5. <<s, t>> \in Smaller
  BY <1>1, <1>4 DEF Smaller, LexProductOrdering, Measures
<1> QED
  BY <1>5 DEF s, t

LEMMA TicksFacts ==
    ASSUME NEW b \in BreakerType, NEW S \in SUBSET Slots
    PROVE  /\ TicksLeft(b, S) \in Nat
           /\ Within(b, S, TicksLeft(b, S))
           /\ \A k \in Nat : Within(b, S, k) => TicksLeft(b, S) <= k
<1> DEFINE enough == {n \in Nat : Within(b, S, n)}
<1>1. Horizon \in enough
  BY BoundsAssumption DEF Within, BreakerType
<1>2. enough \subseteq Nat /\ enough # {}
  BY <1>1
<1>3. \E n \in enough : \A k \in enough : n <= k
  <2> HIDE DEF enough
  <2>1. PICK n \in enough : \A k \in enough : ~ (<<k, n>> \in Less)
    BY <1>2, LessWellFounded, WFMin, Zenon
  <2>2. \A k \in enough : ~ (k < n)
    BY <1>2, <2>1 DEF Less
  <2>3. \A k \in enough : n <= k
    BY <1>2, <2>2
  <2> QED
    BY <2>3
<1>4. \E n \in Nat : Within(b, S, n) /\ \A k \in Nat : Within(b, S, k) => n <= k
  BY <1>3
<1> QED
  BY <1>4 DEF TicksLeft

(* Fewer and older records are gone no later.                                *)
LEMMA GoneNoLater ==
    ASSUME NEW b \in BreakerType, NEW q \in BreakerType,
           NEW S \in SUBSET Slots, NEW T \in SUBSET S,
           \A s \in T : q.age[s] >= b.age[s]
    PROVE  TicksLeft(q, T) <= TicksLeft(b, S)
<1> DEFINE n == TicksLeft(b, S)
<1>1. n \in Nat /\ Within(b, S, n)
  BY TicksFacts
<1>2. \A s \in T : b.age[s] \in Nat /\ q.age[s] \in Nat
  BY DEF BreakerType
<1> HIDE DEF n
<1>3. Within(q, T, n)
  BY <1>1, <1>2, BoundsAssumption DEF Within
<1>4. TicksLeft(q, T) <= n
  BY <1>1, <1>3, TicksFacts
<1> QED
  BY <1>4 DEF n

(* A tick brings their end one tick nearer.                                  *)
LEMMA TickBringsNearer ==
    ASSUME NEW b \in BreakerType, NEW S \in SUBSET Slots, S \subseteq b.requests,
           TicksLeft(b, S) # 0
    PROVE  TicksLeft(Aged(b), S) < TicksLeft(b, S)
<1> DEFINE n == TicksLeft(b, S)
<1>1. n \in Nat /\ n # 0 /\ Within(b, S, n)
  BY TicksFacts
<1>2. \A s \in S : b.age[s] \in 0 .. Horizon
  BY DEF BreakerType
<1>3. \A s \in S : Aged(b).age[s] = Older(b.age[s])
  BY DEF Aged, BreakerType
<1>4. Aged(b) \in BreakerType
  BY AgedType
<1> HIDE DEF n
<1>5. Within(Aged(b), S, n - 1)
  BY <1>1, <1>2, <1>3, BoundsAssumption DEF Within, Older
<1>6. TicksLeft(Aged(b), S) <= n - 1 /\ TicksLeft(Aged(b), S) \in Nat
  BY <1>1, <1>4, <1>5, TicksFacts
<1>7. TicksLeft(Aged(b), S) < n
  BY <1>1, <1>6
<1> QED
  BY <1>7 DEF n

NoLater(q, b) == Waiting(q) = Waiting(b) \/ <<Waiting(q), Waiting(b)>> \in Smaller

LEMMA HalfOpenNoLater ==
    ASSUME NEW b \in BreakerType, NEW q \in BreakerType,
           b.state = "half-open", q.state = "half-open",
           q.failures \subseteq b.failures, q.successes \subseteq b.successes,
           \A s \in q.failures \cup q.successes : q.age[s] >= b.age[s]
    PROVE  NoLater(q, b)
<1> DEFINE x == TicksLeft(b, b.failures)
           y == TicksLeft(b, b.successes)
           u == TicksLeft(q, q.failures)
           v == TicksLeft(q, q.successes)
<1>1. /\ b.failures \in SUBSET Slots /\ b.successes \in SUBSET Slots
      /\ q.failures \in SUBSET b.failures /\ q.successes \in SUBSET b.successes
  BY DEF BreakerType
<1>2. x \in Nat /\ y \in Nat /\ u \in Nat /\ v \in Nat
  <2>1. q.failures \in SUBSET Slots /\ q.successes \in SUBSET Slots
    BY <1>1
  <2> QED
    BY <1>1, <2>1, TicksFacts
<1>3. u <= x /\ v <= y
  BY <1>1, GoneNoLater
<1>4. /\ Waiting(b) = <<1, x, IF x = 0 THEN y ELSE 0>>
      /\ Waiting(q) = <<1, u, IF u = 0 THEN v ELSE 0>>
  BY DEF Waiting
<1> HIDE DEF x, y, u, v
<1>5. CASE u < x
  BY <1>2, <1>4, <1>5, Lexicographic DEF NoLater
<1>6. CASE u = x /\ x = 0 /\ v < y
  BY <1>2, <1>4, <1>6, Lexicographic DEF NoLater
<1>7. CASE u = x /\ (x # 0 \/ v = y)
  BY <1>4, <1>7 DEF NoLater
<1> QED
  BY <1>2, <1>3, <1>5, <1>6, <1>7


LEMMA WaitingType ==
    ASSUME NEW b \in BreakerType
    PROVE  /\ b.failures \in SUBSET Slots /\ b.successes \in SUBSET Slots
           /\ TicksLeft(b, b.failures) \in Nat /\ TicksLeft(b, b.successes) \in Nat
           /\ b.state = "open" => Waiting(b) = <<0, Horizon - b.sinceChange, 0>>
           /\ Horizon - b.sinceChange \in Nat
<1>1. b.failures \in SUBSET Slots /\ b.successes \in SUBSET Slots
  BY DEF BreakerType
<1>2. Horizon - b.sinceChange \in Nat
  BY BoundsAssumption DEF BreakerType
<1> QED
  BY <1>1, <1>2, TicksFacts DEF Waiting

(* A breaker that is asked in vain, or looked at, only forgets.              *)
LEMMA CleanedNoLater ==
    ASSUME NEW b \in BreakerType, NEW c, b.state \in {"open", "half-open"}
    PROVE  NoLater(Cleaned(b, c), b)
<1> DEFINE q == Cleaned(b, c)
<1>1. q \in BreakerType /\ q.state = b.state /\ q.sinceChange = b.sinceChange
  BY CleanedType, CleanedPhase
<1>2. /\ q.failures \subseteq b.failures /\ q.successes \subseteq b.successes
      /\ \A s \in q.failures \cup q.successes : q.age[s] = b.age[s]
  BY DEF Cleaned, BreakerType
<1>3. \A s \in q.failures \cup q.successes : q.age[s] >= b.age[s]
  <2>1. \A s \in Slots : b.age[s] \in Nat
    BY DEF BreakerType
  <2> QED
    BY <1>1, <1>2, <2>1 DEF BreakerType
<1> SUFFICES NoLater(q, b)
  OBVIOUS
<1> HIDE DEF q
<1>4. CASE b.state = "open"
  BY <1>1, <1>4 DEF Waiting, NoLater
<1>5. CASE b.state = "half-open"
  BY <1>1, <1>2, <1>3, <1>5, HalfOpenNoLater
<1> QED
  BY <1>4, <1>5

(* When a half-open breaker refuses, some outcome it holds is in the window. *)
(* If none of those is a failure, one more success closes it.                *)
LEMMA WhatLocks ==
    ASSUME NEW b \in BreakerType, NEW c \in ConfigType, c.window <= Horizon,
           b.state = "half-open", ~ Allows(b, c)
    PROVE  /\ TicksLeft(b, b.failures) = 0 => TicksLeft(b, b.successes) # 0
           /\ TicksLeft(b, b.failures) = 0 =>
                 Cardinality(b.successes) >= c.successThreshold
<1> DEFINE held == Cleaned(b, c)
<1>1. /\ c.successThreshold \in Nat \ {0}
      /\ Cardinality(held.successes) + Cardinality(held.failures) >= c.successThreshold
  BY DEF Allows, ProbesUsedUp, ConfigType
<1>2. \A S \in SUBSET Slots : IsFiniteSet(S) /\ Cardinality(S) \in Nat
  BY SlotsAssumption, FS_Subset, FS_CardinalityType
<1>3. /\ held.failures = {s \in b.failures : s \in b.requests /\ b.age[s] < c.window}
      /\ held.successes = {s \in b.successes : s \in b.requests /\ b.age[s] < c.window}
  BY DEF Cleaned, BreakerType
<1>4. ASSUME NEW S \in SUBSET Slots, TicksLeft(b, S) = 0
      PROVE  \A s \in S : ~ (b.age[s] < c.window)
  <2>1. Within(b, S, 0)
    BY <1>4, TicksFacts
  <2>2. \A s \in S : b.age[s] \in Nat /\ b.age[s] >= Horizon
    BY <2>1 DEF Within, BreakerType
  <2> QED
    BY <2>2, BoundsAssumption DEF ConfigType
<1>5. Cardinality({}) = 0
  BY FS_EmptySet
<1> SUFFICES ASSUME TicksLeft(b, b.failures) = 0
             PROVE  /\ TicksLeft(b, b.successes) # 0
                    /\ Cardinality(b.successes) >= c.successThreshold
  OBVIOUS
<1>6. b.failures \in SUBSET Slots /\ b.successes \in SUBSET Slots
  BY DEF BreakerType
<1>7. held.failures = {}
  BY <1>3, <1>4, <1>6
<1>8. held.successes \in SUBSET b.successes
  BY <1>3
<1> HIDE DEF held
<1>9. Cardinality(held.successes) >= c.successThreshold
  BY <1>1, <1>2, <1>5, <1>6, <1>7, <1>8
<1>10. Cardinality(held.successes) <= Cardinality(b.successes)
  BY <1>2, <1>6, <1>8, FS_Subset
<1>11. Cardinality(b.successes) >= c.successThreshold
  BY <1>1, <1>2, <1>6, <1>8, <1>9, <1>10
<1>12. TicksLeft(b, b.successes) # 0
  <2> SUFFICES ASSUME TicksLeft(b, b.successes) = 0 PROVE FALSE
    OBVIOUS
  <2>1. held.successes = {}
    BY <1>3, <1>4, <1>6
  <2> QED
    BY <1>1, <1>5, <1>9, <2>1
<1> QED
  BY <1>11, <1>12

LEMMA SucceededNoLater ==
    ASSUME NEW b \in BreakerType, NEW c \in ConfigType, c.window <= Horizon,
           b.state \in {"open", "half-open"}, ~ Allows(b, c),
           NEW new \in SUBSET Slots
    PROVE  Succeeded(b, c, new).state = "closed" \/ NoLater(Succeeded(b, c, new), b)
<1> DEFINE r == [b EXCEPT !.successes = @ \cup new, !.requests = @ \cup new]
<1>1. /\ r \in BreakerType /\ r.state = b.state /\ r.sinceChange = b.sinceChange
      /\ r.failures = b.failures /\ r.age = b.age
      /\ r.successes = b.successes \cup new
  BY DEF BreakerType
<1> HIDE DEF r
<1>2. Succeeded(b, c, new) = r \/ Succeeded(b, c, new).state = "closed"
  <2>1. ASSUME NEW q \in BreakerType PROVE WithoutRecords(Moved(q, "closed")).state = "closed"
    BY DEF WithoutRecords, Moved, BreakerType
  <2> QED
    BY <1>1, <2>1 DEF Succeeded, r
<1>3. CASE b.state = "open"
  BY <1>1, <1>2, <1>3 DEF Waiting, NoLater
<1>4. CASE b.state = "half-open"
  <2> SUFFICES ASSUME Succeeded(b, c, new) = r,
                      ~ (r.state = "half-open"
                            /\ Cardinality(r.successes) >= c.successThreshold)
               PROVE  NoLater(r, b)
    <3>1. r.state = "half-open" /\ Cardinality(r.successes) >= c.successThreshold
             => Succeeded(b, c, new).state = "closed"
      <4>1. ASSUME NEW q \in BreakerType
            PROVE WithoutRecords(Moved(q, "closed")).state = "closed"
        BY DEF WithoutRecords, Moved, BreakerType
      <4> QED
        BY <1>1, <4>1 DEF Succeeded, r
    <3> QED
      BY <1>2, <3>1
  <2>1. \A S \in SUBSET Slots : IsFiniteSet(S) /\ Cardinality(S) \in Nat
    BY SlotsAssumption, FS_Subset, FS_CardinalityType
  <2>2. b.successes \in SUBSET r.successes /\ r.successes \in SUBSET Slots
    BY <1>1 DEF BreakerType
  <2>3. Cardinality(b.successes) <= Cardinality(r.successes)
    BY <2>1, <2>2, FS_Subset
  <2>4. ~ (Cardinality(b.successes) >= c.successThreshold)
    <3>1. /\ Cardinality(b.successes) \in Nat /\ Cardinality(r.successes) \in Nat
          /\ c.successThreshold \in Nat
      BY <2>1, <2>2 DEF ConfigType
    <3> QED
      BY <1>1, <1>4, <2>3, <3>1
  <2>5. TicksLeft(b, b.failures) # 0
    BY <1>4, <2>4, WhatLocks
  <2>6. TicksLeft(r, r.failures) = TicksLeft(b, b.failures)
    BY <1>1 DEF TicksLeft, Within
  <2> QED
    BY <1>1, <1>4, <2>5, <2>6 DEF Waiting, NoLater
<1> QED
  BY <1>3, <1>4

LEMMA FailedNoLater ==
    ASSUME NEW b \in BreakerType, NEW c \in ConfigType,
           b.state \in {"open", "half-open"}, NEW new \in SUBSET Slots
    PROVE  NoLater(Failed(b, c, new), b)
<1> DEFINE q == Failed(b, c, new)
<1>1. q \in BreakerType
  BY FailedType
<1>2. \/ b.state = "half-open" /\ q.state = "open"
      \/ b.state = "open" /\ q.state = "open" /\ q.sinceChange = b.sinceChange
  BY FailedPhase
<1> SUFFICES NoLater(q, b)
  OBVIOUS
<1> HIDE DEF q
<1>3. CASE b.state = "open"
  BY <1>2, <1>3 DEF Waiting, NoLater
<1>4. CASE b.state = "half-open"
  <2> DEFINE x == TicksLeft(b, b.failures)
             y == IF x = 0 THEN TicksLeft(b, b.successes) ELSE 0
             z == Horizon - q.sinceChange
  <2>1. x \in Nat /\ y \in Nat /\ z \in Nat
    BY <1>1, WaitingType
  <2>2. Waiting(b) = <<1, x, y>> /\ Waiting(q) = <<0, z, 0>>
    BY <1>2, <1>4 DEF Waiting
  <2> HIDE DEF x, y, z
  <2>3. <<<<0, z, 0>>, <<1, x, y>>>> \in Smaller
    BY <2>1, Lexicographic
  <2> QED
    BY <2>2, <2>3 DEF NoLater
<1> QED
  BY <1>3, <1>4


LEMMA TickUsesUp ==
    ASSUME NEW b \in BreakerType, NEW c \in Configs, Consistent(b), ~ Allows(b, c)
    PROVE  <<Waiting(Aged(b)), Waiting(b)>> \in Smaller
<1> DEFINE q == Aged(b)
<1>1. /\ c \in ConfigType /\ c.timeout < Horizon /\ c.window <= Horizon
      /\ c.timeout \in Nat
  BY ConfigsAssumption DEF ConfigType
<1>2. /\ q \in BreakerType /\ q.state = b.state /\ q.sinceChange = Older(b.sinceChange)
  BY AgedType, AgedPhase
<1>3. q.failures = b.failures /\ q.successes = b.successes
  BY DEF Aged, BreakerType
<1>4. /\ b.failures \in SUBSET Slots /\ b.successes \in SUBSET Slots
      /\ b.failures \subseteq b.requests /\ b.successes \subseteq b.requests
  BY DEF Consistent, BreakerType
<1>5. CASE b.state = "open"
  <2>1. b.sinceChange \in 0 .. Horizon /\ ~ (b.sinceChange > c.timeout)
    BY <1>5 DEF Allows, BreakerType
  <2>2. q.sinceChange = b.sinceChange + 1 /\ b.sinceChange < Horizon
    BY <1>1, <1>2, <2>1, BoundsAssumption DEF Older
  <2> DEFINE x == Horizon - b.sinceChange
             u == Horizon - q.sinceChange
  <2>3. x \in Nat /\ u \in Nat /\ u < x
    BY <2>1, <2>2, BoundsAssumption
  <2>4. Waiting(b) = <<0, x, 0>> /\ Waiting(q) = <<0, u, 0>>
    BY <1>2, <1>5 DEF Waiting
  <2> HIDE DEF x, u, q
  <2>5. <<<<0, u, 0>>, <<0, x, 0>>>> \in Smaller
    BY <2>3, Lexicographic
  <2> QED
    BY <2>4, <2>5 DEF q
<1>6. CASE b.state = "half-open"
  <2> DEFINE x == TicksLeft(b, b.failures)
             y == TicksLeft(b, b.successes)
             u == TicksLeft(q, b.failures)
             v == TicksLeft(q, b.successes)
  <2>1. /\ x \in Nat /\ y \in Nat /\ u \in Nat /\ v \in Nat
        /\ x # 0 => u < x
        /\ y # 0 => v < y
    BY <1>2, <1>4, TicksFacts, TickBringsNearer
  <2>2. x = 0 => u = 0
    <3>1. \A s \in b.failures : q.age[s] >= b.age[s]
      <4>1. \A s \in b.failures : q.age[s] = Older(b.age[s]) /\ b.age[s] \in 0 .. Horizon
        BY <1>4 DEF Aged, BreakerType
      <4> QED
        BY <4>1, BoundsAssumption DEF Older
    <3>2. u <= x
      <4> HIDE DEF q
      <4> QED
        BY <1>2, <1>4, <3>1, GoneNoLater
    <3> HIDE DEF u, x
    <3> QED
      BY <2>1, <3>2
  <2>3. x = 0 => y # 0
    BY <1>1, <1>6, WhatLocks
  <2>4. /\ Waiting(b) = <<1, x, IF x = 0 THEN y ELSE 0>>
        /\ Waiting(q) = <<1, u, IF u = 0 THEN v ELSE 0>>
    BY <1>2, <1>3, <1>6 DEF Waiting
  <2> HIDE DEF x, y, u, v, q
  <2>5. CASE x # 0
    <3> DEFINE y2 == IF x = 0 THEN y ELSE 0
               v2 == IF u = 0 THEN v ELSE 0
    <3>1. y2 \in Nat /\ v2 \in Nat
      BY <2>1
    <3> HIDE DEF y2, v2
    <3>2. <<<<1, u, v2>>, <<1, x, y2>>>> \in Smaller
      BY <2>1, <2>5, <3>1, Lexicographic
    <3> QED
      BY <2>4, <3>2 DEF q, y2, v2
  <2>6. CASE x = 0
    <3>1. u = 0 /\ v < y
      BY <2>1, <2>2, <2>3, <2>6
    <3>2. <<<<1, u, v>>, <<1, x, y>>>> \in Smaller
      BY <2>1, <2>6, <3>1, Lexicographic
    <3> QED
      BY <2>4, <2>6, <3>1, <3>2 DEF q
  <2> QED
    BY <2>5, <2>6
<1>7. b.state \in {"open", "half-open"}
  BY DEF Allows, BreakerType, BreakerStates
<1> QED
  BY <1>5, <1>6, <1>7

(* A breaker that goes on refusing.                                          *)
UsesUp ==
    ~ Allows(cb, config) =>
        /\ Tick => <<Waiting(cb'), Waiting(cb)>> \in Smaller
        /\ ~ Allows(cb', config') => NoLater(cb', cb)

LEMMA StepUsesUp ==
    ASSUME TypeOK, Consistent(cb), [Next]_vars PROVE UsesUp
<1> SUFFICES ASSUME ~ Allows(cb, config)
             PROVE  /\ Tick => <<Waiting(cb'), Waiting(cb)>> \in Smaller
                    /\ ~ Allows(cb', config') => NoLater(cb', cb)
  BY DEF UsesUp
<1>1. /\ cb \in BreakerType /\ config \in Configs /\ config \in ConfigType
      /\ config.window <= Horizon
  BY ConfigsAssumption DEF TypeOK
<1>2. /\ cb.state \in {"open", "half-open"}
      /\ ~ (cb.state = "open" /\ cb.sinceChange > config.timeout)
  BY <1>1 DEF Allows, BreakerType, BreakerStates
<1>3. Tick => <<Waiting(cb'), Waiting(cb)>> \in Smaller
  BY <1>1, TickUsesUp DEF Tick
<1>4. ~ Allows(cb', config') => NoLater(cb', cb)
  <2>1. CASE Ask \/ Snapshot
    <3>1. Asked(cb, config) = Cleaned(cb, config)
      BY <1>2 DEF Asked
    <3>2. cb' = Cleaned(cb, config)
      BY <2>1, <3>1 DEF Ask, Admit, Refuse, Overrule, AskOnly, Snapshot
    <3> QED
      BY <1>1, <1>2, <3>2, CleanedNoLater
  <2>2. CASE RecordSuccess
    <3>1. PICK new \in SUBSET Slots : cb' = Succeeded(cb, config, new)
      BY <2>2 DEF RecordSuccess, Fresh
    <3>2. cb'.state = "closed" \/ NoLater(cb', cb)
      BY <1>1, <1>2, <3>1, SucceededNoLater
    <3> QED
      BY <3>2 DEF Allows
  <2>3. CASE RecordFailure \/ RecordRateLimitFailure
    <3>1. PICK new \in SUBSET Slots : cb' = Failed(cb, config, new)
      BY <2>3 DEF RecordFailure, RecordRateLimitFailure, Fresh
    <3> QED
      BY <1>1, <1>2, <3>1, FailedNoLater
  <2>4. CASE ResetBreaker
    <3>1. cb'.state = "closed"
      BY <1>1, <2>4, ResetPhase DEF ResetBreaker
    <3> QED
      BY <3>1 DEF Allows
  <2>5. CASE Tick
    BY <2>5, <1>3 DEF NoLater
  <2>6. CASE Forget \/ Reload \/ UNCHANGED vars
    <3>1. cb' = cb
      BY <2>6 DEF Forget, Reload, vars
    <3> QED
      BY <3>1 DEF NoLater
  <2> QED
    BY <2>1, <2>2, <2>3, <2>4, <2>5, <2>6 DEF Next, Record, Operate
<1> QED
  BY <1>3, <1>4

(***************************************************************************)
(* While a breaker goes on refusing, nothing that happens to it puts the   *)
(* end of that off, and every tick brings it nearer: not the late outcomes *)
(* of requests sent before, nor those of fixed-egress nodes it refused,    *)
(* nor what is asked, evicted, weighted or reloaded.  Half-open has no     *)
(* timeout of its own, but what uses up its budget ages out of the window  *)
(* (Allow, cleanupOldRecords).                                             *)
(***************************************************************************)
THEOREM WaitIsUsedUp == Spec => [][UsesUp]_vars
<1>1. Spec => []TypeOK
  BY TypeCorrect
<1>2. Spec => []Accounting
  BY CountsConsistent
<1>3. TypeOK /\ Accounting /\ [Next]_vars => [UsesUp]_vars
  <2> SUFFICES ASSUME TypeOK, Accounting, [Next]_vars PROVE UsesUp
    OBVIOUS
  <2>1. Consistent(cb)
    BY DEF Accounting, Consistent
  <2> QED
    BY <2>1, StepUsesUp
<1> QED
  BY <1>1, <1>2, <1>3, PTL DEF Spec

===============================================================================
