-------------------------- MODULE KeyAdmission_proof --------------------------
(***************************************************************************)
(* For any number of requests at a time, any limits and any costs: who     *)
(* records what a request used, the key as a ledger and how far its budget *)
(* can be overspent, and what the limiters let through.                    *)
(***************************************************************************)
EXTENDS KeyAdmission, FiniteSetTheorems, TLAPS

(* Recordings of the last request of slot r that are not over yet. *)
Due(r) == (IF <<r, "node">> \in owed THEN 1 ELSE 0)
              + (IF <<r, "proxy">> \in owed THEN 1 ELSE 0)

(* While the pipeline runs only its node can have recorded anything; and a *)
(* log that tells the usage leaves one recorder.                           *)
Shares(r) == /\ phase[r] # "idle" =>
                  /\ usage[r] = "silent"
                  /\ <<r, "proxy">> \notin owed
                  /\ bills[r] + Due(r) <= (IF r \in noded THEN 1 ELSE 0)
             /\ bills[r] + Due(r) <= 2
             /\ usage[r] # "silent" => bills[r] + Due(r) <= 1

Sharing == \A r \in Slots : Shares(r)

(* The part of TypeOK that the limiters' arithmetic has no part in. *)
Types == /\ key \in Rows
         /\ phase \in [Slots -> {"idle", "read", "running"}]
         /\ row \in [Slots -> Rows \cup {NoRow}]
         /\ noded \subseteq Slots
         /\ usage \in [Slots -> {"reported", "cached", "silent"}]
         /\ owed \subseteq Slots \X Recorders
         /\ bills \in [Slots -> 0 .. 2]

(* What was spent, and what the reservations may add to it. *)
Spending == key.used + MaxCost * Cardinality(Open)
                <= MaxBudget - 1 + MaxCost * (2 * Cardinality(Slots))

IInv == Types /\ Sharing /\ Spending

-------------------------------------------------------------------------------

LEMMA InitTypes == Init => Types /\ Sharing
<1> SUFFICES ASSUME Init PROVE Types /\ Sharing
  OBVIOUS
<1>1. key \in Rows
  <2>1. PICK b \in Budgets : key = [used |-> 0, budget |-> b, enabled |-> TRUE]
    BY DEF Init
  <2> QED BY <2>1 DEF Rows
<1>2. Types
  BY <1>1 DEF Init, Types
<1>3. ASSUME NEW r \in Slots PROVE Shares(r)
  BY DEF Init, Shares, Due
<1> QED BY <1>2, <1>3 DEF Sharing

(* Each step keeps the types and the sharing. *)
LEMMA NextTypes == Types /\ Sharing /\ [Next]_vars => Types' /\ Sharing'
<1> SUFFICES ASSUME Types, Sharing, [Next]_vars PROVE Types' /\ Sharing'
  OBVIOUS
<1> USE DEF Recorders
<1>1. ASSUME NEW r \in Slots, ReadKey(r) PROVE Types' /\ Sharing'
  <2>1. Types'
    BY <1>1 DEF ReadKey, Types
  <2>2. ASSUME NEW s \in Slots PROVE Shares(s)'
    BY <1>1, <2>2 DEF ReadKey, Free, Types, Sharing, Shares, Due
  <2> QED BY <2>1, <2>2 DEF Sharing
<1>2. ASSUME NEW r \in Slots, CheckLimits(r) PROVE Types' /\ Sharing'
  <2>1. Types'
    BY <1>2 DEF CheckLimits, Types
  <2>2. ASSUME NEW s \in Slots PROVE Shares(s)'
    BY <1>2, <2>2 DEF CheckLimits, Types, Sharing, Shares, Due
  <2> QED BY <2>1, <2>2 DEF Sharing
<1>3. ASSUME NEW r \in Slots, NodeRecords(r) PROVE Types' /\ Sharing'
  <2>1. Types'
    BY <1>3 DEF NodeRecords, Types
  <2>2. ASSUME NEW s \in Slots PROVE Shares(s)'
    BY <1>3, <2>2 DEF NodeRecords, Types, Sharing, Shares, Due
  <2> QED BY <2>1, <2>2 DEF Sharing
<1>4. ASSUME NEW r \in Slots, Finish(r) PROVE Types' /\ Sharing'
  <2>1. Types'
    BY <1>4 DEF Finish, Types
  <2>2. ASSUME NEW s \in Slots PROVE Shares(s)'
    BY <1>4, <2>2 DEF Finish, Delegated, Types, Sharing, Shares, Due
  <2> QED BY <2>1, <2>2 DEF Sharing
<1>5. ASSUME NEW r \in Slots, Fail(r) PROVE Types' /\ Sharing'
  <2>1. Types'
    BY <1>5 DEF Fail, Types
  <2>2. ASSUME NEW s \in Slots PROVE Shares(s)'
    BY <1>5, <2>2 DEF Fail, Types, Sharing, Shares, Due
  <2> QED BY <2>1, <2>2 DEF Sharing
<1>6. ASSUME NEW r \in Slots, NEW k \in Recorders, Record(r, k)
      PROVE Types' /\ Sharing'
  <2>1. PICK cost \in 0 .. MaxCost : key' = [key EXCEPT !.used = @ + cost]
    BY <1>6 DEF Record
  <2>2. key' \in Rows
    <3>1. cost \in Nat /\ key.used \in Nat
      BY LimitsAssumption DEF Types, Rows
    <3>2. key.used + cost \in Nat
      BY <3>1
    <3> QED BY <2>1, <3>2 DEF Types, Rows
  <2>3. bills[r] \in 0 .. 1
    <3>1. bills[r] + Due(r) <= 2 /\ bills[r] \in 0 .. 2
      BY DEF Types, Sharing, Shares
    <3>2. Due(r) \in 1 .. 2
      BY <1>6 DEF Record, Due
    <3> QED BY <3>1, <3>2
  <2>4. Types'
    BY <1>6, <2>2, <2>3 DEF Record, Types
  <2>5. ASSUME NEW s \in Slots PROVE Shares(s)'
    BY <1>6, <2>3, <2>5 DEF Record, Types, Sharing, Shares, Due
  <2> QED BY <2>4, <2>5 DEF Sharing
<1>7. ASSUME NEW r \in Slots, NEW k \in Recorders, RecordFails(r, k)
      PROVE Types' /\ Sharing'
  <2>1. Types'
    BY <1>7 DEF RecordFails, Types
  <2>2. ASSUME NEW s \in Slots PROVE Shares(s)'
    BY <1>7, <2>2 DEF RecordFails, Types, Sharing, Shares, Due
  <2> QED BY <2>1, <2>2 DEF Sharing
<1>8. ASSUME Edit PROVE Types' /\ Sharing'
  BY <1>8 DEF Edit, Types, Rows, Sharing, Shares, Due
<1>9. ASSUME Tick PROVE Types' /\ Sharing'
  BY <1>9 DEF Tick, Types, Sharing, Shares, Due
<1>10. ASSUME Restart PROVE Types' /\ Sharing'
  <2>1. Types'
    <3>1. /\ phase' \in [Slots -> {"idle", "read", "running"}]
          /\ row' \in [Slots -> Rows \cup {NoRow}]
      BY <1>10 DEF Restart
    <3>2. key' = key /\ usage' = usage /\ bills' = bills /\ owed' = {} /\ noded' = {}
      BY <1>10 DEF Restart
    <3> QED BY <3>1, <3>2 DEF Types
  <2>2. ASSUME NEW s \in Slots PROVE Shares(s)'
    <3>1. phase'[s] = "idle" /\ owed' = {} /\ usage' = usage /\ bills' = bills
      BY <1>10, <2>2 DEF Restart
    <3>2. Due(s)' = 0
      BY <3>1 DEF Due
    <3>3. Due(s) \in 0 .. 2 /\ bills[s] \in 0 .. 2
      BY <2>2 DEF Due, Types
    <3>4. bills[s] <= bills[s] + Due(s)
      BY <3>3
    <3>5. /\ bills[s] + Due(s) <= 2
          /\ usage[s] # "silent" => bills[s] + Due(s) <= 1
      BY <2>2 DEF Sharing, Shares
    <3>6. bills'[s] + Due(s)' = bills[s]
      BY <3>1, <3>2, <3>3
    <3>7. bills[s] <= 2 /\ (usage[s] # "silent" => bills[s] <= 1)
      BY <3>3, <3>5
    <3> HIDE DEF Due
    <3> QED BY <3>1, <3>6, <3>7 DEF Shares
  <2> QED BY <2>1, <2>2 DEF Sharing
<1>11. CASE UNCHANGED vars
  BY <1>11 DEF vars, Types, Sharing, Shares, Due
<1> QED
  BY <1>1, <1>2, <1>3, <1>4, <1>5, <1>6, <1>7, <1>8, <1>9, <1>10, <1>11 DEF Next

-------------------------------------------------------------------------------
(* At most two recordings are open for each slot. *)
LEMMA OpenIsFinite ==
  ASSUME NEW O, O \subseteq Slots \X Recorders
  PROVE  /\ IsFiniteSet(O) /\ Cardinality(O) \in Nat
         /\ Cardinality(Slots) \in Nat
         /\ Cardinality(O) <= 2 * Cardinality(Slots)
<1>1. IsFiniteSet(Recorders) /\ Cardinality(Recorders) = 2
  <2>1. IsFiniteSet({}) /\ Cardinality({}) = 0
    BY FS_EmptySet
  <2>2. IsFiniteSet({"node"}) /\ Cardinality({"node"}) = 1
    BY FS_Singleton
  <2>3. Recorders = {"node"} \cup {"proxy"} /\ "proxy" \notin {"node"}
    BY DEF Recorders
  <2> QED BY <2>2, <2>3, FS_AddElement
<1>2. /\ IsFiniteSet(Slots \X Recorders)
      /\ Cardinality(Slots \X Recorders) = Cardinality(Slots) * Cardinality(Recorders)
  BY <1>1, BudgetAssumption, FS_Product
<1>3. IsFiniteSet(O) /\ Cardinality(O) <= Cardinality(Slots \X Recorders)
  BY <1>2, FS_Subset
<1>4. Cardinality(O) \in Nat /\ Cardinality(Slots) \in Nat
  BY <1>3, BudgetAssumption, FS_CardinalityType
<1> QED BY <1>1, <1>2, <1>3, <1>4

(* Less can be charged when less is open. *)
LEMMA Monotone ==
  ASSUME NEW c \in Nat, NEW m \in Nat, NEW n \in Nat, m <= n
  PROVE  c * m <= c * n
<1>1. PICK d \in Nat : n = m + d
  BY n - m \in Nat
<1>2. c * n = c * m + c * d
  BY <1>1
<1> QED BY <1>1, <1>2

(* A step that opens nothing and charges nothing. *)
LEMMA NothingOpened ==
  ASSUME Types, Spending, Open' \subseteq Open, key'.used = key.used
  PROVE  Spending'
<1>1. Open \subseteq Slots \X Recorders
  BY DEF Open
<1>2. IsFiniteSet(Open) /\ Cardinality(Open) \in Nat /\ Cardinality(Slots) \in Nat
  BY <1>1, OpenIsFinite
<1>3. Cardinality(Open') \in Nat /\ Cardinality(Open') <= Cardinality(Open)
  BY <1>2, FS_Subset, FS_CardinalityType
<1>4. MaxCost * Cardinality(Open') <= MaxCost * Cardinality(Open)
  BY <1>2, <1>3, Monotone, LimitsAssumption
<1> DEFINE before == MaxCost * Cardinality(Open)
           after == MaxCost * Cardinality(Open')
           top == MaxBudget - 1 + MaxCost * (2 * Cardinality(Slots))
<1>5. before \in Nat /\ after \in Nat /\ top \in Int /\ key.used \in Nat
  BY <1>2, <1>3, LimitsAssumption, BudgetAssumption DEF Types, Rows
<1>6. key.used + before <= top /\ after <= before
  BY <1>4 DEF Spending
<1> HIDE DEF before, after, top
<1>7. key.used + after <= top
  BY <1>5, <1>6
<1> QED BY <1>7 DEF Spending, after, top

(* What is charged is no longer reserved. *)
LEMMA ChargeSpends ==
  ASSUME Types, Spending, NEW t \in Open, Open' = Open \ {t},
         NEW cost \in 0 .. MaxCost, key'.used = key.used + cost
  PROVE  Spending'
<1>1. Open \subseteq Slots \X Recorders
  BY DEF Open
<1>2. IsFiniteSet(Open) /\ Cardinality(Open) \in Nat /\ Cardinality(Slots) \in Nat
  BY <1>1, OpenIsFinite
<1>3. Cardinality(Open') = Cardinality(Open) - 1 /\ Cardinality(Open') \in Nat
  BY <1>2, FS_RemoveElement, FS_CardinalityType
<1> DEFINE open == Cardinality(Open)
           after == Cardinality(Open')
           top == MaxBudget - 1 + MaxCost * (2 * Cardinality(Slots))
<1>4. /\ open \in Nat /\ after \in Nat /\ after + 1 = open
      /\ top \in Int /\ key.used \in Nat /\ cost \in Nat /\ cost <= MaxCost
  BY <1>2, <1>3, LimitsAssumption, BudgetAssumption DEF Types, Rows
<1>5. key.used + MaxCost * open <= top
  BY DEF Spending
<1> HIDE DEF open, after, top
<1>6. MaxCost * open = MaxCost * after + MaxCost
  BY <1>4, LimitsAssumption
<1>7. MaxCost * after \in Nat /\ MaxCost \in Nat
  BY <1>4, LimitsAssumption
<1>8. key.used + cost + MaxCost * after <= top
  BY <1>4, <1>5, <1>6, <1>7
<1> QED BY <1>8 DEF Spending, after, top

-------------------------------------------------------------------------------
(* The key as a ledger. *)

LEMMA MapInit == Init => Promise!LInit
<1> SUFFICES ASSUME Init PROVE Promise!LInit
  OBVIOUS
<1>1. Open = {}
  BY DEF Init, Open, Pending
<1>2. key.used = 0 /\ key.budget \in Budgets
  BY DEF Init
<1> QED BY <1>1, <1>2 DEF Promise!LInit

(* A request that passes the budget when it is read reserves; another one  *)
(* leaves what is reserved as it was.                                      *)
LEMMA ReadReserves ==
  ASSUME Types, NEW r \in Slots, ReadKey(r)
  PROVE  Promise!Reserve \/ (Open' = Open /\ key' = key)
<1>1. /\ owed' = owed /\ key' = key /\ noded' = noded \ {r}
      /\ \A s \in Slots \ {r} : Pending(s)' <=> Pending(s)
  BY DEF ReadKey, Types, Pending, Within
<1>2. ~ Pending(r) /\ \A k \in Recorders : <<r, k>> \notin owed
  BY DEF ReadKey, Free, Pending
<1>3. Open \subseteq Open' /\ Open' \subseteq Slots \X Recorders
  BY <1>1, <1>2 DEF Open
<1>4. CASE key.used < key.budget
  BY <1>1, <1>3, <1>4 DEF Promise!Reserve
<1>5. CASE ~ (key.used < key.budget)
  <2>1. ~ Pending(r)'
    BY <1>5 DEF ReadKey, Types, Pending, Within
  <2>2. Open' = Open
    BY <1>1, <1>2, <2>1 DEF Open
  <2> QED BY <1>1, <2>2
<1> QED BY <1>4, <1>5

(* A recording that is committed was reserved, and is not reserved again:  *)
(* the node has already recorded, and the proxy only does at the end.      *)
LEMMA RecordCharges ==
  ASSUME Types, Sharing, NEW r \in Slots, NEW k \in Recorders, Record(r, k)
  PROVE  Promise!Charge
<1>1. PICK cost \in 0 .. MaxCost : key' = [key EXCEPT !.used = @ + cost]
  BY DEF Record
<1>2. key'.used = key.used + cost /\ key'.budget = key.budget
  BY <1>1 DEF Types, Rows
<1>3. <<r, k>> \in Open
  BY DEF Open, Record
<1>4. Open' = Open \ {<<r, k>>}
  <2>1. /\ owed' = owed \ {<<r, k>>} /\ noded' = noded
        /\ \A s \in Slots : Pending(s)' <=> Pending(s)
    BY DEF Record, Pending, Within
  <2>2. ~ (Pending(r) /\ ~ (k = "node" /\ r \in noded))
    <3>1. Shares(r) /\ bills[r] \in 0 .. 2 /\ <<r, k>> \in owed
      BY DEF Sharing, Types, Record
    <3>2. CASE k = "node"
      <4>1. Due(r) \in 1 .. 2
        BY <3>1, <3>2 DEF Due
      <4>2. phase[r] # "idle" => r \in noded
        BY <3>1, <4>1 DEF Shares
      <4> QED BY <3>2, <4>2 DEF Pending
    <3>3. CASE k = "proxy"
      BY <3>1, <3>3 DEF Shares, Pending
    <3> QED BY <3>2, <3>3 DEF Recorders
  <2> QED BY <2>1, <2>2 DEF Open
<1> QED BY <1>2, <1>3, <1>4 DEF Promise!Charge

(* Every step of the gateway is one of the ledger, or none. *)
LEMMA MapStep == Types /\ Sharing /\ [Next]_vars => [Promise!LNext]_(Promise!lvars)
<1> SUFFICES ASSUME Types, Sharing, [Next]_vars
             PROVE  Promise!LNext \/ (Open' = Open /\ key' = key)
  BY DEF Promise!lvars
<1>1. ASSUME NEW r \in Slots, ReadKey(r)
      PROVE  Promise!LNext \/ (Open' = Open /\ key' = key)
  BY <1>1, ReadReserves DEF Promise!LNext
<1>2. ASSUME key' = key, Open' \subseteq Open PROVE Promise!LNext
  BY <1>2 DEF Promise!LNext, Promise!Release
<1>3. ASSUME NEW r \in Slots, CheckLimits(r) \/ Fail(r) PROVE Promise!LNext
  <2>1. /\ owed' = owed /\ noded' = noded /\ key' = key
        /\ \A s \in Slots : Pending(s)' => Pending(s)
    BY <1>3 DEF CheckLimits, Fail, Types, Pending, Within
  <2> QED BY <1>2, <2>1 DEF Open
<1>4. ASSUME NEW r \in Slots, NodeRecords(r) PROVE Promise!LNext
  <2>1. /\ owed' = owed \cup {<<r, "node">>} /\ noded' = noded \cup {r} /\ key' = key
        /\ \A s \in Slots : Pending(s)' <=> Pending(s)
    BY <1>4 DEF NodeRecords, Pending, Within
  <2>2. <<r, "node">> \in Open
    BY <1>4 DEF NodeRecords, Open, Pending, Recorders
  <2>3. Open' \subseteq Open
    BY <2>1, <2>2 DEF Open
  <2> QED BY <1>2, <2>1, <2>3
<1>5. ASSUME NEW r \in Slots, Finish(r) PROVE Promise!LNext
  <2>1. /\ owed' \subseteq owed \cup {<<r, "proxy">>} /\ noded' = noded /\ key' = key
        /\ \A s \in Slots : Pending(s)' => Pending(s)
    BY <1>5 DEF Finish, Types, Pending, Within
  <2>2. <<r, "proxy">> \in Open
    BY <1>5 DEF Finish, Open, Pending, Recorders
  <2>3. Open' \subseteq Open
    BY <2>1, <2>2 DEF Open
  <2> QED BY <1>2, <2>1, <2>3
<1>6. ASSUME NEW r \in Slots, NEW k \in Recorders, Record(r, k) PROVE Promise!LNext
  BY <1>6, RecordCharges DEF Promise!LNext
<1>7. ASSUME NEW r \in Slots, NEW k \in Recorders, RecordFails(r, k) PROVE Promise!LNext
  <2>1. /\ owed' \subseteq owed /\ noded' = noded /\ key' = key
        /\ \A s \in Slots : Pending(s)' => Pending(s)
    BY <1>7 DEF RecordFails, Pending, Within
  <2> QED BY <1>2, <2>1 DEF Open
<1>8. ASSUME Edit PROVE Promise!LNext
  <2>1. key'.used = key.used /\ key'.budget \in Budgets
    BY <1>8 DEF Edit, Types, Rows
  <2>2. owed' = owed /\ noded' = noded /\ \A s \in Slots : Pending(s)' <=> Pending(s)
    BY <1>8 DEF Edit, Pending, Within
  <2>3. Open' = Open
    BY <2>2 DEF Open
  <2> QED BY <2>1, <2>3 DEF Promise!LNext, Promise!Amend
<1>9. ASSUME Tick \/ UNCHANGED vars PROVE Promise!LNext
  <2>1. /\ owed' = owed /\ noded' = noded /\ key' = key
        /\ \A s \in Slots : Pending(s)' => Pending(s)
    BY <1>9 DEF Tick, vars, Pending, Within
  <2> QED BY <1>2, <2>1 DEF Open
<1>10. ASSUME Restart PROVE Promise!LNext
  <2>1. owed' = {} /\ key' = key /\ \A s \in Slots : ~ Pending(s)'
    BY <1>10 DEF Restart, Pending
  <2> QED BY <1>2, <2>1 DEF Open
<1> QED
  BY <1>1, <1>3, <1>4, <1>5, <1>6, <1>7, <1>8, <1>9, <1>10 DEF Next

(***************************************************************************)
(* ImplementsLedger: for any number of requests at a time, a key is only   *)
(* charged for what was reserved below the budget, and once for each.      *)
(***************************************************************************)
THEOREM RefinesLedger == Spec => ImplementsLedger
<1>1. Init => Types /\ Sharing
  BY InitTypes
<1>2. Types /\ Sharing /\ [Next]_vars => (Types /\ Sharing)'
  BY NextTypes
<1> QED BY <1>1, <1>2, MapInit, MapStep, PTL DEF Spec, ImplementsLedger, Promise!LSpec

-------------------------------------------------------------------------------
(* A ledger bounds what is spent. *)

LEMMA InitSpends == Init => Spending
<1> SUFFICES ASSUME Init PROVE Spending
  OBVIOUS
<1>1. Open = {} /\ key.used = 0
  BY MapInit DEF Promise!LInit
<1>2. Cardinality(Open) = 0
  BY <1>1, FS_EmptySet
<1>3. Cardinality(Slots) \in Nat
  BY BudgetAssumption, FS_CardinalityType
<1>4. MaxCost * (2 * Cardinality(Slots)) \in Nat
  BY <1>3, LimitsAssumption
<1> QED BY <1>1, <1>2, <1>4, LimitsAssumption, BudgetAssumption DEF Spending

LEMMA LedgerSpends == Types /\ Spending /\ [Promise!LNext]_(Promise!lvars) => Spending'
<1> SUFFICES ASSUME Types, Spending, [Promise!LNext]_(Promise!lvars)
             PROVE  Spending'
  OBVIOUS
<1>1. CASE Promise!Reserve
  <2>1. Open' \subseteq Slots \X Recorders /\ key'.used = key.used
    BY <1>1 DEF Promise!Reserve
  <2>2. /\ Cardinality(Open') \in Nat /\ Cardinality(Slots) \in Nat
        /\ Cardinality(Open') <= 2 * Cardinality(Slots)
    BY <2>1, OpenIsFinite
  <2>3. MaxCost * Cardinality(Open') <= MaxCost * (2 * Cardinality(Slots))
    BY <2>2, Monotone, LimitsAssumption
  <2>4. key.used \in Nat /\ key.used <= MaxBudget - 1
    BY <1>1, BudgetAssumption DEF Promise!Reserve, Types, Rows, Budgets
  <2>5. MaxCost * Cardinality(Open') \in Nat /\ MaxCost * (2 * Cardinality(Slots)) \in Nat
    BY <2>2, LimitsAssumption
  <2> QED BY <2>1, <2>3, <2>4, <2>5, BudgetAssumption DEF Spending
<1>2. CASE Promise!Charge
  BY <1>2, ChargeSpends DEF Promise!Charge
<1>3. CASE Promise!Release \/ Promise!Amend \/ UNCHANGED Promise!lvars
  <2>1. Open' \subseteq Open /\ key'.used = key.used
    BY <1>3 DEF Promise!Release, Promise!Amend, Promise!lvars
  <2> QED BY <2>1, NothingOpened
<1> QED BY <1>1, <1>2, <1>3 DEF Promise!LNext

LEMMA Inductive == Spec => []IInv
<1>1. Init => IInv
  BY InitTypes, InitSpends DEF IInv
<1>2. IInv /\ [Next]_vars => IInv'
  BY NextTypes, MapStep, LedgerSpends DEF IInv
<1> QED BY <1>1, <1>2, PTL DEF Spec

(***************************************************************************)
(* However many requests share a key, and whatever is lost, edited or      *)
(* restarted, a budget is overspent at most by two charges for each slot.  *)
(***************************************************************************)
THEOREM BudgetOverspendBounded == Spec => []BudgetBounded
<1>1. IInv => BudgetBounded
  <2> SUFFICES ASSUME IInv PROVE BudgetBounded
    OBVIOUS
  <2>1. Open \subseteq Slots \X Recorders
    BY DEF Open
  <2>2. Cardinality(Open) \in Nat /\ Cardinality(Slots) \in Nat
    BY <2>1, OpenIsFinite
  <2>3. MaxCost * Cardinality(Open) \in Nat /\ MaxCost * (2 * Cardinality(Slots)) \in Nat
    BY <2>2, LimitsAssumption
  <2>4. key.used \in Nat
    BY DEF IInv, Types, Rows
  <2> QED BY <2>3, <2>4, BudgetAssumption DEF IInv, Spending, BudgetBounded
<1> QED BY <1>1, Inductive, PTL

(***************************************************************************)
(* The node and the proxy agree on who records a request's usage.          *)
(***************************************************************************)
THEOREM UsageMeteredOnce == Spec => []MeteredOnce
<1>1. IInv => MeteredOnce
  <2> SUFFICES ASSUME IInv, NEW r \in Slots, usage[r] # "silent" PROVE bills[r] <= 1
    BY DEF MeteredOnce
  <2>1. bills[r] \in 0 .. 2 /\ Due(r) \in 0 .. 2
    BY DEF IInv, Types, Due
  <2>2. bills[r] + Due(r) <= 1
    BY DEF IInv, Sharing, Shares
  <2> QED BY <2>1, <2>2
<1> QED BY <1>1, Inductive, PTL

-------------------------------------------------------------------------------
(* The rate limits.  A bucket that has let through f[a] in the last ticks,   *)
(* a of them and the one that runs, holds no more than a full one refilled   *)
(* for a ticks less what it gave; a window counts all that was let through.  *)

Limits == /\ limiter \in {"memory", "redis"}
          /\ bucket \in Buckets
          /\ windows \in [{"rpm", "tpm"} -> [Ages -> Nat]]
          /\ admitted \in [Ages -> Nat]

Nothing == [a \in Ages |-> 0]

Holds(f, tokens, idle, limit) ==
    \A a \in Ages :
        Window * f[a] + Refilled(tokens, idle, limit) <= limit * Window + a * limit

BucketInv ==
    limiter = "memory" /\ (RPM > 0 \/ TPM > 0) =>
        IF bucket.made
        THEN /\ RPM > 0 => Holds(admitted, bucket.rpm, bucket.rpmIdle, RPM)
             /\ TPM > 0 => Holds(admitted, bucket.tpm, bucket.tpmIdle, TPM)
        ELSE admitted = Nothing

Cumulative(f) == \A a, b \in Ages : a <= b => f[a] <= f[b]

WindowInv(d, limit) ==
    limit > 0 => /\ Cumulative(windows[d]) /\ Total(windows[d]) <= limit
                 /\ limiter = "redis" => \A a \in Ages : admitted[a] <= windows[d][a]

RateInv == Limits /\ BucketInv /\ WindowInv("rpm", RPM) /\ WindowInv("tpm", TPM)

LEMMA AgesAreSmall == Window - 1 \in Ages /\ Ages \subseteq Nat /\ Window \in Nat /\ 0 \in Ages
BY LimitsAssumption DEF Ages

LEMMA RefilledBounds ==
  ASSUME NEW t \in Nat, NEW i \in Nat, NEW l \in Nat
  PROVE  /\ Refilled(t, i, l) \in Nat /\ Refilled(t, i, l) <= l * Window
         /\ t <= l * Window => Refilled(t, 0, l) = t
         /\ Refilled(t, 0, l) <= t
<1>1. l * Window \in Nat /\ i * l \in Nat /\ 0 * l = 0 BY LimitsAssumption
<1> DEFINE full == l * Window
           more == i * l
<1>2. full \in Nat /\ more \in Nat BY <1>1
<1>3. /\ Refilled(t, i, l) = IF full < t + more THEN full ELSE t + more
      /\ Refilled(t, 0, l) = IF full < t + 0 THEN full ELSE t + 0
  BY <1>1 DEF Refilled, Least
<1> HIDE DEF full, more
<1>4. /\ Refilled(t, i, l) \in Nat /\ Refilled(t, i, l) <= full
      /\ t <= full => Refilled(t, 0, l) = t
      /\ Refilled(t, 0, l) <= t
  BY <1>2, <1>3
<1> QED BY <1>4 DEF full

(* A tick refills the limit's share, and no more when the bucket is full.    *)
LEMMA TickRefills ==
  ASSUME NEW t \in Nat, NEW i \in 0 .. Window, NEW l \in Nat
  PROVE  Refilled(t, Least(i + 1, Window), l) <= Refilled(t, i, l) + l
<1> DEFINE full == l * Window
           more == i * l
           next == Least(i + 1, Window) * l
<1>1. full \in Nat /\ more \in Nat /\ i \in Nat BY LimitsAssumption
<1>2. next \in Nat /\ next <= more + l
  <2>1. Least(i + 1, Window) \in {i, i + 1} BY LimitsAssumption DEF Least
  <2>2. (i + 1) * l = i * l + l BY <1>1
  <2> QED BY <1>1, <2>1, <2>2
<1>3. /\ Refilled(t, i, l) = IF full < t + more THEN full ELSE t + more
      /\ Refilled(t, Least(i + 1, Window), l) = IF full < t + next THEN full ELSE t + next
  BY DEF Refilled, Least
<1> HIDE DEF full, more, next
<1> QED BY <1>1, <1>2, <1>3

LEMMA HoldsTyped ==
  ASSUME NEW f \in [Ages -> Nat], NEW l \in Nat, NEW a \in Ages
  PROVE  /\ Window * f[a] \in Nat /\ l * Window \in Nat /\ a * l \in Nat
         /\ Window * (f[a] + 1) = Window * f[a] + Window
<1>1. a \in Nat /\ f[a] \in Nat /\ Window \in Nat BY AgesAreSmall
<1> QED BY <1>1

LEMMA FreshHolds == ASSUME NEW l \in Nat PROVE Holds(Nothing, l * Window, 0, l)
<1> SUFFICES ASSUME NEW a \in Ages
             PROVE  Window * Nothing[a] + Refilled(l * Window, 0, l) <= l * Window + a * l
  BY DEF Holds
<1>1. Nothing \in [Ages -> Nat] /\ Nothing[a] = 0 BY DEF Nothing
<1>2. Window * Nothing[a] = 0 BY <1>1, LimitsAssumption
<1>3. l * Window \in Nat /\ a * l \in Nat BY <1>1, HoldsTyped
<1>4. Refilled(l * Window, 0, l) \in Nat /\ Refilled(l * Window, 0, l) <= l * Window
  BY <1>3, RefilledBounds
<1> QED BY <1>2, <1>3, <1>4

(* Refilled now, without or with a token that is taken, for a request that   *)
(* is let through or not.                                                    *)
LEMMA HoldsOn ==
  ASSUME NEW f \in [Ages -> Nat], NEW t \in Nat, NEW i \in Nat, NEW l \in Nat,
         Holds(f, t, i, l)
  PROVE  /\ Holds(f, Refilled(t, i, l), 0, l)
         /\ Refilled(t, i, l) >= Window =>
               /\ Holds(f, Refilled(t, i, l) - Window, 0, l)
               /\ Holds(Added(f), Refilled(t, i, l) - Window, 0, l)
<1> DEFINE now == Refilled(t, i, l)
<1>1. now \in Nat /\ now <= l * Window BY RefilledBounds
<1>2. \A a \in Ages : Window * f[a] + now <= l * Window + a * l BY DEF Holds
<1> HIDE DEF now
<1>3. Refilled(now, 0, l) \in Nat /\ Refilled(now, 0, l) <= now BY <1>1, RefilledBounds
<1>4. Holds(f, now, 0, l) BY <1>1, <1>2, <1>3, HoldsTyped DEF Holds
<1>5. ASSUME now >= Window
      PROVE  Holds(f, now - Window, 0, l) /\ Holds(Added(f), now - Window, 0, l)
  <2>1. now - Window \in Nat BY <1>1, <1>5, AgesAreSmall
  <2>2. Refilled(now - Window, 0, l) \in Nat /\ Refilled(now - Window, 0, l) <= now - Window
    BY <2>1, RefilledBounds
  <2>3. \A a \in Ages : Added(f)[a] = f[a] + 1 BY DEF Added
  <2>4. Holds(f, now - Window, 0, l)
    BY <1>1, <1>2, <2>2, HoldsTyped, AgesAreSmall DEF Holds
  <2>5. Holds(Added(f), now - Window, 0, l)
    BY <1>1, <1>2, <2>2, <2>3, HoldsTyped, AgesAreSmall DEF Holds
  <2> QED BY <2>4, <2>5
<1> QED BY <1>4, <1>5 DEF now

LEMMA HoldsOlder ==
  ASSUME NEW f \in [Ages -> Nat], NEW t \in Nat, NEW i \in 0 .. Window, NEW l \in Nat,
         Holds(f, t, i, l)
  PROVE  Holds(Older(f), t, Least(i + 1, Window), l)
<1> SUFFICES ASSUME NEW a \in Ages
             PROVE  Window * Older(f)[a] + Refilled(t, Least(i + 1, Window), l)
                        <= l * Window + a * l
  BY DEF Holds
<1>1. /\ i \in Nat /\ Least(i + 1, Window) \in Nat BY LimitsAssumption DEF Least
<1>2. /\ Refilled(t, Least(i + 1, Window), l) \in Nat /\ Refilled(t, i, l) \in Nat
      /\ Refilled(t, Least(i + 1, Window), l) <= l * Window
      /\ Refilled(t, Least(i + 1, Window), l) <= Refilled(t, i, l) + l
  BY <1>1, RefilledBounds, TickRefills
<1>3. a \in Nat /\ l * Window \in Nat /\ a * l \in Nat BY HoldsTyped, AgesAreSmall
<1>4. CASE a = 0
  <2>1. Older(f)[a] = 0 /\ Window * 0 = 0 BY <1>4, LimitsAssumption DEF Older
  <2> QED BY <1>2, <1>3, <2>1
<1>5. CASE a # 0
  <2> DEFINE b == a - 1
  <2>1. b \in Ages /\ Older(f)[a] = f[b] BY <1>3, <1>5, LimitsAssumption DEF Older, Ages
  <2>2. Window * f[b] + Refilled(t, i, l) <= l * Window + b * l BY <2>1 DEF Holds
  <2>3. b * l + l = a * l
    <3>1. b \in Nat /\ a = b + 1 BY <1>3, <1>5
    <3> HIDE DEF b
    <3> QED BY <3>1
  <2>4. Window * f[b] \in Nat /\ b * l \in Nat BY <2>1, HoldsTyped
  <2> HIDE DEF b
  <2> QED BY <1>2, <1>3, <2>1, <2>2, <2>3, <2>4
<1> QED BY <1>4, <1>5

LEMMA AddedTyped ==
  ASSUME NEW f \in [Ages -> Nat]
  PROVE  /\ Added(f) \in [Ages -> Nat] /\ Older(f) \in [Ages -> Nat]
         /\ Cumulative(f) => Cumulative(Added(f)) /\ Cumulative(Older(f))
         /\ Cumulative(f) => Total(Older(f)) <= Total(f)
         /\ Total(f) \in Nat /\ Total(Added(f)) = Total(f) + 1
<1>1. \A a \in Ages : a \in Nat /\ f[a] \in Nat /\ (a # 0 => a - 1 \in Ages)
  BY LimitsAssumption DEF Ages
<1>2. Added(f) \in [Ages -> Nat] /\ Older(f) \in [Ages -> Nat]
  BY <1>1 DEF Added, Older
<1>3. /\ \A a \in Ages : Added(f)[a] = f[a] + 1
      /\ \A a \in Ages : Older(f)[a] = IF a = 0 THEN 0 ELSE f[a - 1]
  BY DEF Added, Older
<1>4. Cumulative(f) => Cumulative(Added(f)) BY <1>1, <1>3 DEF Cumulative
<1>5. ASSUME Cumulative(f), NEW a \in Ages, NEW b \in Ages, a <= b
      PROVE  Older(f)[a] <= Older(f)[b]
  <2>1. CASE a = 0 BY <1>1, <1>2, <1>3, <2>1
  <2>2. CASE a # 0
    <3>1. b # 0 /\ a - 1 <= b - 1 BY <1>1, <1>5, <2>2
    <3> QED BY <1>1, <1>3, <1>5, <2>2, <3>1 DEF Cumulative
  <2> QED BY <2>1, <2>2
<1>6. Cumulative(f) => Total(Older(f)) <= Total(f)
  <2> DEFINE w == Window - 1
  <2>1. w \in Ages /\ w \in Nat BY AgesAreSmall
  <2>2. Total(f) = f[w] /\ Total(Older(f)) = Older(f)[w] BY DEF Total
  <2> HIDE DEF w
  <2>3. CASE w = 0 BY <1>1, <1>3, <2>1, <2>2, <2>3
  <2>4. CASE w # 0
    <3>1. w - 1 \in Ages /\ w - 1 <= w BY <1>1, <2>1, <2>4
    <3> QED BY <1>3, <2>1, <2>2, <2>4, <3>1 DEF Cumulative
  <2> QED BY <2>3, <2>4
<1>7. Total(f) \in Nat /\ Total(Added(f)) = Total(f) + 1
  BY <1>1, <1>3, AgesAreSmall DEF Total
<1> QED BY <1>2, <1>4, <1>5, <1>6, <1>7 DEF Cumulative

-------------------------------------------------------------------------------

(* The bucket in memory.                                                     *)
LEMMA MemoryKeeps ==
  ASSUME RateInv, limiter = "memory", RPM > 0 \/ TPM > 0, NEW ok \in BOOLEAN,
         MemoryAllow(ok), admitted' = IF ok THEN Added(admitted) ELSE admitted
  PROVE  /\ bucket' \in Buckets /\ bucket'.made
         /\ RPM > 0 => Holds(admitted', bucket'.rpm, bucket'.rpmIdle, RPM)
         /\ TPM > 0 => Holds(admitted', bucket'.tpm, bucket'.tpmIdle, TPM)
<1> DEFINE b == IF bucket.made THEN bucket
                ELSE [NoBucket EXCEPT !.made = TRUE, !.rpm = RPM * Window,
                                      !.tpm = TPM * Window]
           rpm == Refilled(b.rpm, b.rpmIdle, RPM)
           tpm == Refilled(b.tpm, b.tpmIdle, TPM)
           rpmOk == RPM = 0 \/ rpm >= Window
           tpmOk == TPM = 0 \/ tpm >= Window
<1>1. RPM \in Nat /\ TPM \in Nat /\ Window \in Nat
      /\ RPM * Window \in Nat /\ TPM * Window \in Nat
  BY LimitsAssumption
<1>2. /\ b.rpm \in Nat /\ b.tpm \in Nat /\ b.rpmIdle \in 0 .. Window /\ b.tpmIdle \in 0 .. Window
      /\ RPM > 0 => Holds(admitted, b.rpm, b.rpmIdle, RPM)
      /\ TPM > 0 => Holds(admitted, b.tpm, b.tpmIdle, TPM)
  <2>1. CASE bucket.made BY <2>1 DEF RateInv, Limits, BucketInv, Buckets
  <2>2. CASE ~ bucket.made
    <3>1. /\ b.rpm = RPM * Window /\ b.tpm = TPM * Window /\ b.rpmIdle = 0 /\ b.tpmIdle = 0
      BY <2>2 DEF NoBucket
    <3>2. admitted = Nothing BY <2>2 DEF RateInv, BucketInv
    <3>3. 0 \in 0 .. Window BY <1>1
    <3> HIDE DEF b
    <3> QED BY <1>1, <3>1, <3>2, <3>3, FreshHolds
  <2> QED BY <2>1, <2>2
<1>3. /\ ok = (rpmOk /\ tpmOk)
      /\ bucket' = [made |-> TRUE,
                    rpm |-> IF RPM > 0 /\ rpmOk THEN rpm - Window ELSE rpm,
                    rpmIdle |-> 0,
                    tpm |-> IF ~ rpmOk THEN b.tpm
                            ELSE IF TPM > 0 /\ tpmOk THEN tpm - Window ELSE tpm,
                    tpmIdle |-> IF rpmOk THEN 0 ELSE b.tpmIdle]
  BY DEF MemoryAllow
<1>4. /\ bucket'.made = TRUE /\ bucket'.rpmIdle = 0
      /\ bucket'.rpm = (IF RPM > 0 /\ rpmOk THEN rpm - Window ELSE rpm)
      /\ bucket'.tpm = (IF ~ rpmOk THEN b.tpm
                        ELSE IF TPM > 0 /\ tpmOk THEN tpm - Window ELSE tpm)
      /\ bucket'.tpmIdle = (IF rpmOk THEN 0 ELSE b.tpmIdle)
  BY <1>3
<1> HIDE DEF b
<1>5. rpm \in Nat /\ tpm \in Nat /\ b.rpmIdle \in Nat /\ b.tpmIdle \in Nat
      /\ admitted \in [Ages -> Nat]
  <2>1. b.rpmIdle \in Nat /\ b.tpmIdle \in Nat BY <1>1, <1>2
  <2>2. rpm \in Nat BY <1>1, <1>2, <2>1, RefilledBounds
  <2>3. tpm \in Nat BY <1>1, <1>2, <2>1, RefilledBounds
  <2> QED BY <2>1, <2>2, <2>3 DEF RateInv, Limits
<1>6. bucket' \in Buckets
  <2>1. bucket'.rpm \in Nat /\ bucket'.tpm \in Nat BY <1>1, <1>2, <1>4, <1>5
  <2>2. bucket'.rpmIdle \in 0 .. Window /\ bucket'.tpmIdle \in 0 .. Window
    BY <1>1, <1>2, <1>4
  <2> HIDE DEF rpm, tpm, rpmOk, tpmOk
  <2> QED BY <1>3, <1>4, <2>1, <2>2 DEF Buckets
<1>7. ASSUME RPM > 0 PROVE Holds(admitted', bucket'.rpm, bucket'.rpmIdle, RPM)
  <2>1. Holds(admitted, b.rpm, b.rpmIdle, RPM) BY <1>2, <1>7
  <2>2. /\ Holds(admitted, rpm, 0, RPM)
        /\ rpm >= Window => /\ Holds(admitted, rpm - Window, 0, RPM)
                            /\ Holds(Added(admitted), rpm - Window, 0, RPM)
    BY <1>1, <1>2, <1>5, <2>1, HoldsOn
  <2>3. CASE rpmOk
    <3>1. rpm >= Window /\ bucket'.rpm = rpm - Window BY <1>1, <1>4, <1>7, <2>3
    <3> QED BY <1>4, <2>2, <3>1
  <2>4. CASE ~ rpmOk
    <3>1. bucket'.rpm = rpm /\ admitted' = admitted BY <1>3, <1>4, <2>4
    <3> QED BY <1>4, <2>2, <3>1
  <2> QED BY <2>3, <2>4
<1>8. ASSUME TPM > 0 PROVE Holds(admitted', bucket'.tpm, bucket'.tpmIdle, TPM)
  <2>1. Holds(admitted, b.tpm, b.tpmIdle, TPM) BY <1>2, <1>8
  <2>2. /\ Holds(admitted, tpm, 0, TPM)
        /\ tpm >= Window => /\ Holds(admitted, tpm - Window, 0, TPM)
                            /\ Holds(Added(admitted), tpm - Window, 0, TPM)
    BY <1>1, <1>2, <1>5, <2>1, HoldsOn
  <2>3. CASE ~ rpmOk
    <3>1. bucket'.tpm = b.tpm /\ bucket'.tpmIdle = b.tpmIdle /\ admitted' = admitted
      BY <1>3, <1>4, <2>3
    <3> QED BY <2>1, <3>1
  <2>4. CASE rpmOk /\ tpmOk
    <3>1. tpm >= Window /\ bucket'.tpm = tpm - Window /\ bucket'.tpmIdle = 0
      BY <1>1, <1>4, <1>8, <2>4
    <3> QED BY <2>2, <3>1
  <2>5. CASE rpmOk /\ ~ tpmOk
    <3>1. bucket'.tpm = tpm /\ bucket'.tpmIdle = 0 /\ admitted' = admitted
      BY <1>3, <1>4, <2>5
    <3> QED BY <2>2, <3>1
  <2> QED BY <2>3, <2>4, <2>5
<1> QED BY <1>4, <1>6, <1>7, <1>8

(* The window in Redis: one dimension may count a request that the other     *)
(* refuses, never the other way round.                                       *)
LEMMA RedisKeeps ==
  ASSUME RateInv, limiter' = limiter, NEW ok \in BOOLEAN, RedisAllow(ok),
         admitted' = IF ok THEN Added(admitted) ELSE admitted
  PROVE  /\ windows' \in [{"rpm", "tpm"} -> [Ages -> Nat]]
         /\ WindowInv("rpm", RPM)' /\ WindowInv("tpm", TPM)'
<1> DEFINE rpmOk == RPM = 0 \/ Total(windows["rpm"]) < RPM
           tpmOk == TPM = 0 \/ Total(windows["tpm"]) < TPM
<1>1. /\ windows \in [{"rpm", "tpm"} -> [Ages -> Nat]] /\ admitted \in [Ages -> Nat]
      /\ RPM \in Nat /\ TPM \in Nat
  BY LimitsAssumption DEF RateInv, Limits
<1>2. /\ ok = (rpmOk /\ tpmOk)
      /\ windows'["rpm"] = IF RPM > 0 /\ rpmOk THEN Added(windows["rpm"]) ELSE windows["rpm"]
      /\ windows'["tpm"] = IF TPM > 0 /\ ok THEN Added(windows["tpm"]) ELSE windows["tpm"]
  BY <1>1 DEF RedisAllow
<1>3. \A d \in {"rpm", "tpm"} : Added(windows[d]) \in [Ages -> Nat]
  BY <1>1, AddedTyped
<1>4. windows' \in [{"rpm", "tpm"} -> [Ages -> Nat]]
  <2>1. windows' = [windows EXCEPT !["rpm"] = windows'["rpm"], !["tpm"] = windows'["tpm"]]
    BY <1>1, <1>2 DEF RedisAllow
  <2>2. \A d \in {"rpm", "tpm"} : windows'[d] \in [Ages -> Nat] BY <1>1, <1>2, <1>3
  <2> QED BY <1>1, <2>1, <2>2
(* For one dimension: the window is as it was and nothing was let through,   *)
(* or it had room and counts one more.                                       *)
<1>5. ASSUME NEW d \in {"rpm", "tpm"}, NEW l \in Nat, WindowInv(d, l), l > 0,
             \/ windows'[d] = windows[d] /\ ~ ok
             \/ windows'[d] = Added(windows[d]) /\ Total(windows[d]) < l
      PROVE  WindowInv(d, l)'
  <2>1. windows[d] \in [Ages -> Nat] BY <1>1
  <2>2. Cumulative(windows[d])' /\ Total(windows'[d]) <= l
    BY <1>5, <2>1, AddedTyped DEF WindowInv, Cumulative
  <2>3. ASSUME limiter = "redis", NEW a \in Ages PROVE admitted'[a] <= windows'[d][a]
    <3>1. admitted[a] <= windows[d][a] /\ admitted[a] \in Nat /\ windows[d][a] \in Nat
      BY <1>1, <1>5, <2>1, <2>3 DEF WindowInv
    <3>2. Added(admitted)[a] = admitted[a] + 1 /\ Added(windows[d])[a] = windows[d][a] + 1
      BY DEF Added
    <3> QED BY <1>5, <3>1, <3>2
  <2> QED BY <2>2, <2>3 DEF WindowInv
<1>6. WindowInv("rpm", RPM)'
  <2>1. CASE RPM > 0
    <3>1. WindowInv("rpm", RPM) BY DEF RateInv
    <3>2. \/ windows'["rpm"] = windows["rpm"] /\ ~ ok
          \/ windows'["rpm"] = Added(windows["rpm"]) /\ Total(windows["rpm"]) < RPM
      <4>1. rpmOk => Total(windows["rpm"]) < RPM BY <1>1, <2>1
      <4>2. ok => rpmOk BY <1>2
      <4> HIDE DEF rpmOk, tpmOk
      <4>3. CASE ok BY <1>2, <2>1, <4>1, <4>2, <4>3
      <4>4. CASE ~ ok BY <1>2, <2>1, <4>1, <4>4
      <4> QED BY <4>3, <4>4
    <3> QED BY <1>1, <1>5, <2>1, <3>1, <3>2
  <2>2. CASE ~ RPM > 0 BY <2>2 DEF WindowInv
  <2> QED BY <2>1, <2>2
<1>7. WindowInv("tpm", TPM)'
  <2>1. CASE TPM > 0
    <3>1. WindowInv("tpm", TPM) BY DEF RateInv
    <3>2. \/ windows'["tpm"] = windows["tpm"] /\ ~ ok
          \/ windows'["tpm"] = Added(windows["tpm"]) /\ Total(windows["tpm"]) < TPM
      <4>1. tpmOk => Total(windows["tpm"]) < TPM BY <1>1, <2>1
      <4>2. ok => tpmOk BY <1>2
      <4> HIDE DEF rpmOk, tpmOk
      <4>3. CASE ok BY <1>2, <2>1, <4>1, <4>2, <4>3
      <4>4. CASE ~ ok BY <1>2, <2>1, <4>1, <4>4
      <4> QED BY <4>3, <4>4
    <3> QED BY <1>1, <1>5, <2>1, <3>1, <3>2
  <2>2. CASE ~ TPM > 0 BY <2>2 DEF WindowInv
  <2> QED BY <2>1, <2>2
<1> QED BY <1>4, <1>6, <1>7

LEMMA LimitsKept == ASSUME RateInv, UNCHANGED limits PROVE RateInv'
BY DEF limits, RateInv, Limits, BucketInv, WindowInv, Cumulative

LEMMA AllowKeeps ==
  ASSUME RateInv, limiter' = limiter, NEW ok \in BOOLEAN, Allow(ok)
  PROVE  RateInv'
<1>1. CASE UNCHANGED <<bucket, windows, admitted>> BY <1>1, LimitsKept DEF limits
<1>2. CASE /\ RPM > 0 \/ TPM > 0
           /\ \/ limiter = "memory" /\ MemoryAllow(ok)
              \/ limiter = "redis" /\ RedisAllow(ok)
           /\ admitted' = IF ok THEN Added(admitted) ELSE admitted
  <2>1. admitted' \in [Ages -> Nat] BY <1>2, AddedTyped DEF RateInv, Limits
  <2>2. CASE limiter = "memory" /\ MemoryAllow(ok)
    <3>1. windows' = windows BY <2>2 DEF MemoryAllow
    <3>2. BucketInv' /\ bucket' \in Buckets BY <1>2, <2>2, MemoryKeeps DEF BucketInv
    <3>3. WindowInv("rpm", RPM)' /\ WindowInv("tpm", TPM)'
      BY <2>2, <3>1 DEF RateInv, WindowInv, Cumulative
    <3> QED BY <2>1, <3>1, <3>2, <3>3 DEF RateInv, Limits
  <2>3. CASE limiter = "redis" /\ RedisAllow(ok)
    <3>1. bucket' = bucket BY <2>3 DEF RedisAllow
    <3>2. BucketInv' BY <2>3 DEF BucketInv
    <3> QED BY <1>2, <2>1, <2>3, <3>1, <3>2, RedisKeeps DEF RateInv, Limits
  <2> QED BY <1>2, <2>2, <2>3
<1> QED BY <1>1, <1>2 DEF Allow

LEMMA TickKeeps == ASSUME RateInv, Tick PROVE RateInv'
<1>1. /\ bucket' = [bucket EXCEPT !.rpmIdle = Least(@ + 1, Window),
                                  !.tpmIdle = Least(@ + 1, Window)]
      /\ windows' = [d \in {"rpm", "tpm"} |-> Older(windows[d])]
      /\ admitted' = Older(admitted) /\ limiter' = limiter
  BY DEF Tick, RateInv, Limits
<1>2. /\ bucket \in Buckets /\ windows \in [{"rpm", "tpm"} -> [Ages -> Nat]]
      /\ admitted \in [Ages -> Nat] /\ RPM \in Nat /\ TPM \in Nat
  BY LimitsAssumption DEF RateInv, Limits
<1>3. /\ bucket.rpm \in Nat /\ bucket.tpm \in Nat
      /\ bucket.rpmIdle \in 0 .. Window /\ bucket.tpmIdle \in 0 .. Window
  BY <1>2 DEF Buckets
<1>4. /\ bucket'.made = bucket.made /\ bucket'.rpm = bucket.rpm /\ bucket'.tpm = bucket.tpm
      /\ bucket'.rpmIdle = Least(bucket.rpmIdle + 1, Window)
      /\ bucket'.tpmIdle = Least(bucket.tpmIdle + 1, Window)
  BY <1>1, <1>2 DEF Buckets
<1>5. \A i \in 0 .. Window : Least(i + 1, Window) \in 0 .. Window
  BY LimitsAssumption DEF Least
<1>6. Limits'
  <2>1. bucket' \in Buckets BY <1>1, <1>2, <1>3, <1>5 DEF Buckets
  <2>2. windows' \in [{"rpm", "tpm"} -> [Ages -> Nat]] BY <1>1, <1>2, AddedTyped
  <2> QED BY <1>1, <1>2, <2>1, <2>2, AddedTyped DEF RateInv, Limits
<1>7. BucketInv'
  <2>1. RPM > 0 /\ Holds(admitted, bucket.rpm, bucket.rpmIdle, RPM) =>
           Holds(admitted', bucket'.rpm, bucket'.rpmIdle, RPM)
    BY <1>1, <1>2, <1>3, <1>4, HoldsOlder
  <2>2. TPM > 0 /\ Holds(admitted, bucket.tpm, bucket.tpmIdle, TPM) =>
           Holds(admitted', bucket'.tpm, bucket'.tpmIdle, TPM)
    BY <1>1, <1>2, <1>3, <1>4, HoldsOlder
  <2>3. Older(Nothing) = Nothing
    <3>1. \A a \in Ages : a # 0 => a - 1 \in Ages BY LimitsAssumption DEF Ages
    <3> QED BY <3>1 DEF Older, Nothing
  <2> QED BY <1>1, <1>4, <2>1, <2>2, <2>3 DEF RateInv, BucketInv
<1>8. ASSUME NEW d \in {"rpm", "tpm"}, NEW l \in Nat, WindowInv(d, l) PROVE WindowInv(d, l)'
  <2>1. windows[d] \in [Ages -> Nat] /\ windows'[d] = Older(windows[d]) BY <1>1, <1>2
  <2>2. l > 0 => Cumulative(windows'[d]) /\ Total(windows'[d]) <= l
    <3>1. l > 0 => Cumulative(windows[d]) /\ Total(windows[d]) <= l BY <1>8 DEF WindowInv
    <3>2. Total(Older(windows[d])) \in Nat /\ Total(windows[d]) \in Nat BY <2>1, AddedTyped
    <3> QED BY <2>1, <3>1, <3>2, AddedTyped
  <2>3. ASSUME l > 0, limiter = "redis", NEW a \in Ages PROVE admitted'[a] <= windows'[d][a]
    <3>1. a # 0 => a - 1 \in Ages BY LimitsAssumption DEF Ages
    <3>2. /\ admitted'[a] = IF a = 0 THEN 0 ELSE admitted[a - 1]
          /\ windows'[d][a] = IF a = 0 THEN 0 ELSE windows[d][a - 1]
      BY <1>1, <2>1 DEF Older
    <3>3. \A c \in Ages : admitted[c] <= windows[d][c] BY <1>8, <2>3 DEF WindowInv
    <3> QED BY <3>1, <3>2, <3>3
  <2> QED BY <1>1, <2>2, <2>3 DEF WindowInv, Cumulative
<1>9. WindowInv("rpm", RPM)' /\ WindowInv("tpm", TPM)' BY <1>2, <1>8 DEF RateInv
<1> QED BY <1>6, <1>7, <1>9 DEF RateInv

(* A server that starts again counts on what Redis still has.                *)
LEMMA RestartKeeps == ASSUME RateInv, Restart PROVE RateInv'
<1>1. /\ limiter' \in {"memory", "redis"} /\ bucket' = NoBucket /\ windows' = windows
      /\ admitted' = IF limiter = "redis" /\ limiter' = "redis" THEN admitted ELSE Nothing
  BY DEF Restart, Nothing
<1>2. Nothing \in [Ages -> Nat] /\ \A a \in Ages : Nothing[a] = 0 BY DEF Nothing
<1>3. NoBucket \in Buckets /\ ~ NoBucket.made BY LimitsAssumption DEF NoBucket, Buckets
<1>4. Limits' BY <1>1, <1>2, <1>3 DEF RateInv, Limits
<1>5. BucketInv' BY <1>1, <1>3 DEF BucketInv
<1>6. ASSUME NEW d \in {"rpm", "tpm"}, NEW l \in Nat, WindowInv(d, l) PROVE WindowInv(d, l)'
  <2>1. windows[d] \in [Ages -> Nat] BY DEF RateInv, Limits
  <2>2. \A a \in Ages : Nothing[a] <= windows[d][a] BY <1>2, <2>1
  <2> QED BY <1>1, <1>6, <2>2 DEF WindowInv, Cumulative
<1>7. WindowInv("rpm", RPM)' /\ WindowInv("tpm", TPM)'
  BY <1>6, LimitsAssumption DEF RateInv
<1> QED BY <1>4, <1>5, <1>7 DEF RateInv

LEMMA RateInitially == Init => RateInv
<1> SUFFICES ASSUME Init PROVE RateInv OBVIOUS
<1>1. Nothing \in [Ages -> Nat] /\ \A a \in Ages : Nothing[a] = 0 BY DEF Nothing
<1>2. NoBucket \in Buckets /\ ~ NoBucket.made BY LimitsAssumption DEF NoBucket, Buckets
<1>3. /\ limiter \in {"memory", "redis"} /\ bucket = NoBucket /\ admitted = Nothing
      /\ windows = [d \in {"rpm", "tpm"} |-> Nothing]
  BY DEF Init, Nothing
<1>4. Limits /\ BucketInv BY <1>1, <1>2, <1>3 DEF Limits, BucketInv
<1>5. \A d \in {"rpm", "tpm"} : \A l \in Nat : WindowInv(d, l)
  BY <1>1, <1>3, AgesAreSmall DEF WindowInv, Cumulative, Total
<1> QED BY <1>4, <1>5, LimitsAssumption DEF RateInv

LEMMA RateInductive == RateInv /\ [Next]_vars => RateInv'
<1> SUFFICES ASSUME RateInv, [Next]_vars PROVE RateInv' OBVIOUS
<1>1. ASSUME NEW r \in Slots, CheckLimits(r) PROVE RateInv'
  BY <1>1, AllowKeeps DEF CheckLimits
<1>2. CASE Tick BY <1>2, TickKeeps
<1>3. CASE Restart BY <1>3, RestartKeeps
<1>4. CASE \/ \E r \in Slots : \/ ReadKey(r) \/ NodeRecords(r) \/ Finish(r) \/ Fail(r)
                               \/ \E k \in Recorders : Record(r, k) \/ RecordFails(r, k)
           \/ Edit \/ UNCHANGED vars
  <2>1. UNCHANGED limits
    BY <1>4 DEF ReadKey, NodeRecords, Finish, Fail, Record, RecordFails, Edit, vars
  <2> QED BY <2>1, LimitsKept
<1> QED BY <1>1, <1>2, <1>3, <1>4 DEF Next

LEMMA RateHolds == Spec => []RateInv
BY RateInitially, RateInductive, PTL DEF Spec

(***************************************************************************)
(* Every variable keeps its type, the tokens of a bucket and the counts of *)
(* a window included: a bucket is never overdrawn.                         *)
(***************************************************************************)
THEOREM TypeCorrect == Spec => []TypeOK
<1>1. IInv /\ RateInv => TypeOK BY DEF IInv, Types, RateInv, Limits, TypeOK
<1> QED BY <1>1, Inductive, RateHolds, PTL

(***************************************************************************)
(* For any limits, any length of the window and any number of requests:    *)
(* what passes in a window is at most the limit with Redis, and at most a  *)
(* full bucket and its refill without, though a request may be refused by  *)
(* one limit when the other has counted it (Allow of both limiters).       *)
(***************************************************************************)
THEOREM RatesBounded == Spec => []RateBounded
<1>1. RateInv => RateBounded
  <2> SUFFICES ASSUME RateInv PROVE RateBounded OBVIOUS
  <2> DEFINE w == Window - 1
             total == admitted[w]
  <2>1. /\ w \in Ages /\ total \in Nat /\ RPM \in Nat /\ TPM \in Nat /\ Window \in Nat
        /\ limiter \in {"memory", "redis"} /\ bucket \in Buckets
        /\ windows \in [{"rpm", "tpm"} -> [Ages -> Nat]]
    BY AgesAreSmall, LimitsAssumption DEF RateInv, Limits
  <2>2. ASSUME NEW d \in {"rpm", "tpm"}, NEW l \in Nat, WindowInv(d, l), l > 0,
               limiter = "redis"
        PROVE  total <= l
    <3>1. total <= windows[d][w] /\ windows[d][w] <= l /\ windows[d][w] \in Nat
      BY <2>1, <2>2 DEF WindowInv, Total
    <3> QED BY <2>1, <3>1
  <2>3. ASSUME NEW t \in Nat, NEW i \in Nat, NEW l \in Nat, Holds(admitted, t, i, l)
        PROVE  Window * total <= l * (2 * Window - 1)
    <3>1. Window * total + Refilled(t, i, l) <= l * Window + w * l BY <2>1, <2>3 DEF Holds
    <3>2. Refilled(t, i, l) \in Nat BY RefilledBounds
    <3>3. l * Window + w * l = l * (2 * Window - 1) BY <2>1
    <3>4. Window * total \in Nat /\ l * Window + w * l \in Int BY <2>1
    <3> QED BY <3>1, <3>2, <3>3, <3>4
  <2>4. ASSUME NEW l \in {RPM, TPM}, l > 0, admitted = Nothing
        PROVE  Window * total <= l * (2 * Window - 1)
    <3>1. total = 0 BY <2>1, <2>4 DEF Nothing
    <3>2. l \in Nat /\ 2 * Window - 1 \in Nat BY <2>1, LimitsAssumption
    <3>3. l * (2 * Window - 1) \in Nat BY <3>2
    <3> QED BY <2>1, <3>1, <3>3
  <2>5. /\ bucket.rpm \in Nat /\ bucket.tpm \in Nat
        /\ bucket.rpmIdle \in Nat /\ bucket.tpmIdle \in Nat
    BY <2>1 DEF Buckets
  <2>6. Bounded(RPM)
    <3>1. CASE limiter = "redis" /\ RPM > 0
      BY <2>1, <2>2, <3>1 DEF RateInv, Bounded, Total
    <3>2. CASE limiter = "memory" /\ RPM > 0
      <4>1. Window * total <= RPM * (2 * Window - 1)
        BY <2>1, <2>3, <2>4, <2>5, <3>2 DEF RateInv, BucketInv
      <4> QED BY <3>2, <4>1 DEF Bounded, Total
    <3> QED BY <2>1, <3>1, <3>2 DEF Bounded
  <2>7. Bounded(TPM)
    <3>1. CASE limiter = "redis" /\ TPM > 0
      BY <2>1, <2>2, <3>1 DEF RateInv, Bounded, Total
    <3>2. CASE limiter = "memory" /\ TPM > 0
      <4>1. Window * total <= TPM * (2 * Window - 1)
        BY <2>1, <2>3, <2>4, <2>5, <3>2 DEF RateInv, BucketInv
      <4> QED BY <3>2, <4>1 DEF Bounded, Total
    <3> QED BY <2>1, <3>1, <3>2 DEF Bounded
  <2> QED BY <2>6, <2>7 DEF RateBounded
<1> QED BY <1>1, RateHolds, PTL
===============================================================================
