--------------------------- MODULE ExactCache_proof ---------------------------
(***************************************************************************)
(* For any keys, any number of Gets and any MaxSize: a change that nothing *)
(* overlapped takes effect; only Gets take the map past its size; and only *)
(* Gets that were under way bring an expired entry back, each once.        *)
(***************************************************************************)
EXTENDS ExactCache, FiniteSetTheorems, TLAPS

(* The change of a calm key that is on its way to the store is the last    *)
(* one, and a Get that found nothing in the map reads the store only after *)
(* it.                                                                     *)
Calm(k) ==
  /\ mem[k] \in {None, newest[k]}
  /\ Pending(k) = {} => store[k] \in {None, newest[k]}
  /\ \A t \in tasks : t.key = k => newest[k] = IF t.sets THEN t.id ELSE None
  /\ \A r \in Readers : get[r] # Idle /\ get[r].key = k =>
        /\ get[r].at \in {"insert", "found"} => get[r].entry = newest[k]
        /\ get[r].at = "load" => Pending(k) = {}

IInv == TypeOK /\ \A k \in calm : Calm(k)

-------------------------------------------------------------------------------
(* Lemmas about the map *)

(* Making room takes entries out and changes none. *)
LEMMA RoomKeeps ==
  ASSUME TypeOK, NEW m \in Room(mem)
  PROVE  /\ m \in [Keys -> Entries \cup {None}]
         /\ \A k \in Keys : m[k] \in {None, mem[k]}
<1>1. CASE m = mem
  BY <1>1 DEF TypeOK
<1>2. CASE m # mem
  <2>1. m \in WithoutOldest(mem)
    BY <1>2 DEF Room
  <2>2. PICK o \in Held(mem) : m = [mem EXCEPT ![o] = None]
    BY <2>1 DEF WithoutOldest
  <2> QED BY <2>2 DEF TypeOK, Held
<1> QED BY <1>1, <1>2

(* What Set and Delete have in common keeps the types, given the map's. *)
LEMMA ChangeTypes ==
  ASSUME TypeOK, NEW k \in Keys, NEW sets \in BOOLEAN, Change(k, sets),
         mem' \in [Keys -> Entries \cup {None}]
  PROVE  TypeOK' /\ ops + 1 \in Entries
<1>1. ops + 1 \in Entries
  BY SizesAssumption DEF TypeOK, Change, Entries
<1>2. [id |-> ops + 1, key |-> k, sets |-> sets] \in [id : Entries, key : Keys, sets : BOOLEAN]
  BY <1>1
<1>3. tasks' \subseteq [id : Entries, key : Keys, sets : BOOLEAN]
  BY <1>2 DEF TypeOK, Change
<1>4. /\ newest' \in [Keys -> Entries \cup {None}]
      /\ calm' \subseteq Keys
  BY <1>1 DEF TypeOK, Change
<1> QED BY <1>1, <1>3, <1>4 DEF TypeOK, Change

(* They leave every key calm that they say is. *)
LEMMA ChangeCalm ==
  ASSUME IInv, NEW k \in Keys, NEW sets \in BOOLEAN, Change(k, sets), TypeOK',
         mem'[k] = (IF sets THEN ops + 1 ELSE None),
         \A j \in Keys \ {k} : mem'[j] \in {None, mem[j]},
         NEW j \in calm'
  PROVE  Calm(j)'
<1> DEFINE t0 == [id |-> ops + 1, key |-> k, sets |-> sets]
<1>1. tasks' = tasks \cup {t0} /\ store' = store /\ get' = get
  BY DEF Change
<1>2. CASE j # k
  <2>1. j \in calm /\ newest'[j] = newest[j] /\ j \in Keys
    BY <1>2 DEF Change, IInv, TypeOK
  <2>2. Pending(j)' = Pending(j)
    BY <1>1, <1>2 DEF Pending
  <2>3. mem'[j] \in {None, newest[j]}
    BY <1>2, <2>1 DEF IInv, Calm
  <2> QED BY <1>1, <1>2, <2>1, <2>2, <2>3 DEF IInv, Calm
<1>3. CASE j = k
  <2>1. Pending(k) = {} /\ Reading(k) = {}
    BY <1>3 DEF Change
  <2>2. newest'[k] = IF sets THEN ops + 1 ELSE None
    BY DEF Change, IInv, TypeOK
  <2>3. t0 \in Pending(k)'
    BY <1>1 DEF Pending
  <2>4. \A t \in tasks' : t.key = k => t = t0
    BY <1>1, <2>1 DEF Pending
  <2>5. \A r \in Readers : ~ (get'[r] # Idle /\ get'[r].key = k)
    BY <1>1, <2>1 DEF Reading
  <2> HIDE DEF t0
  <2>6. t0.id = ops + 1 /\ t0.sets = sets
    BY DEF t0
  <2> QED BY <1>3, <2>2, <2>3, <2>4, <2>5, <2>6 DEF Calm
<1> QED BY <1>2, <1>3

-------------------------------------------------------------------------------

LEMMA InitIInv == Init => IInv
<1> SUFFICES ASSUME Init PROVE IInv
  OBVIOUS
<1>1. TypeOK
  BY SizesAssumption DEF Init, TypeOK, Gets
<1>2. ASSUME NEW k \in calm PROVE Calm(k)
  BY <1>2 DEF Init, Calm, Pending
<1> QED BY <1>1, <1>2 DEF IInv

(* A step of a Get. *)
LEMMA GetKeeps ==
  ASSUME IInv, NEW r \in Readers,
         \/ \E k \in Keys : Begin(r, k)
         \/ Load(r) \/ LoadFails(r) \/ Insert(r) \/ Hit(r) \/ Forget(r) \/ Erase(r)
  PROVE  IInv'
<1> USE DEF IInv
<1>1. ASSUME NEW k \in Keys, Begin(r, k) PROVE IInv'
  <2>1. get'[r] \in Gets
    BY <1>1 DEF Begin, TypeOK, Gets
  <2>2. TypeOK'
    BY <1>1, <2>1 DEF Begin, TypeOK
  <2>3. ASSUME NEW j \in calm' PROVE Calm(j)'
    <3>1. j \in calm /\ Calm(j)
      BY <1>1, <2>3 DEF Begin
    <3>2. mem' = mem /\ store' = store /\ tasks' = tasks /\ newest' = newest
      BY <1>1 DEF Begin
    <3>3. Pending(j)' = Pending(j)
      BY <3>2 DEF Pending
    <3>4. ASSUME NEW s \in Readers, get'[s] # Idle, get'[s].key = j
          PROVE  /\ get'[s].at \in {"insert", "found"} => get'[s].entry = newest[j]
                 /\ get'[s].at = "load" => Pending(j) = {}
      <4>1. CASE s # r
        BY <1>1, <3>1, <3>4, <4>1 DEF Begin, TypeOK, Calm
      <4>2. CASE s = r /\ mem[k] # None
        <5>1. get'[s] = [at |-> "found", key |-> k, entry |-> mem[k]]
          BY <1>1, <4>2 DEF Begin, TypeOK
        <5> QED BY <3>1, <3>4, <4>2, <5>1 DEF Calm
      <4>3. CASE s = r /\ mem[k] = None
        <5>1. get'[s] = [at |-> "load", key |-> k]
          BY <1>1, <4>3 DEF Begin, TypeOK
        <5>2. j = k
          BY <3>4, <5>1
        <5>3. Pending(k) = {}
          BY <1>1, <2>3, <4>3, <5>2 DEF Begin
        <5> QED BY <5>1, <5>2, <5>3
      <4> QED BY <4>1, <4>2, <4>3
    <3> QED BY <3>1, <3>2, <3>3, <3>4 DEF Calm
  <2> QED BY <2>2, <2>3
<1>2. ASSUME Load(r) PROVE IInv'
  <2> DEFINE k == get[r].key
  <2>1. k \in Keys
    BY <1>2 DEF Load, TypeOK, Gets, Idle
  <2>2. get'[r] \in Gets
    BY <1>2, <2>1 DEF Load, TypeOK, Gets
  <2>3. TypeOK'
    BY <1>2, <2>2 DEF Load, TypeOK, history
  <2>4. ASSUME NEW j \in calm' PROVE Calm(j)'
    <3>1. j \in calm /\ Calm(j)
      BY <1>2, <2>4 DEF Load, history
    <3>2. mem' = mem /\ store' = store /\ tasks' = tasks /\ newest' = newest
      BY <1>2 DEF Load, history
    <3>3. Pending(j)' = Pending(j)
      BY <3>2 DEF Pending
    <3>4. ASSUME NEW s \in Readers, get'[s] # Idle, get'[s].key = j
          PROVE  /\ get'[s].at \in {"insert", "found"} => get'[s].entry = newest[j]
                 /\ get'[s].at = "load" => Pending(j) = {}
      <4>1. CASE s # r
        BY <1>2, <3>1, <3>4, <4>1 DEF Load, TypeOK, Calm
      <4>2. CASE s = r
        <5>1. /\ get'[s].key = k /\ get'[s].entry = store[k] /\ store[k] # None
              /\ get'[s].at # "load"
          BY <1>2, <3>4, <4>2 DEF Load, TypeOK
        <5>2. Pending(k) = {}
          BY <1>2, <3>1, <3>4, <5>1 DEF Load, Calm, Idle
        <5> QED BY <3>1, <3>4, <5>1, <5>2 DEF Calm
      <4> QED BY <4>1, <4>2
    <3> QED BY <3>1, <3>2, <3>3, <3>4 DEF Calm
  <2> QED BY <2>3, <2>4
<1>3. ASSUME LoadFails(r) \/ Hit(r) PROVE IInv'
  <2>1. /\ get' = [get EXCEPT ![r] = Idle]
        /\ UNCHANGED <<mem, store, expired, ops, tasks, newest, calm, loads>>
    BY <1>3 DEF LoadFails, Hit, history
  <2>2. TypeOK'
    BY <2>1 DEF TypeOK, Gets
  <2>3. ASSUME NEW j \in calm' PROVE Calm(j)'
    BY <2>1, <2>3 DEF Calm, Pending, TypeOK
  <2> QED BY <2>2, <2>3
<1>4. ASSUME Insert(r) PROVE IInv'
  <2> DEFINE g == get[r]
  <2>1. g.at = "insert" /\ g.key \in Keys /\ g.entry \in Entries /\ g # Idle
    BY <1>4 DEF Insert, TypeOK, Gets, Idle
  <2>2. get'[r] = [at |-> "found", key |-> g.key, entry |-> g.entry]
    BY <1>4, <2>1 DEF Insert, TypeOK, Gets, Idle
  <2>3. get'[r] \in Gets
    BY <2>1, <2>2 DEF Gets
  <2>4. \A s \in Readers \ {r} : get'[s] = get[s]
    BY <1>4 DEF Insert, TypeOK
  <2>5. get' \in [Readers -> Gets]
    BY <1>4, <2>3, <2>4 DEF Insert, TypeOK
  <2>6. loads' \in Nat
    BY <1>4 DEF Insert, TypeOK
  <2>7. mem' \in [Keys -> Entries \cup {None}]
    BY <1>4, <2>1 DEF Insert, TypeOK
  <2>8. /\ UNCHANGED <<store, expired, ops, tasks, newest, calm>>
    BY <1>4 DEF Insert
  <2>9. TypeOK'
    BY <2>5, <2>6, <2>7, <2>8 DEF TypeOK
  <2>10. ASSUME NEW j \in calm' PROVE Calm(j)'
    <3>1. j \in calm /\ Calm(j) /\ j \in Keys
      BY <2>8, <2>10 DEF TypeOK
    <3>2. mem'[j] \in {None, newest[j]}
      BY <1>4, <2>1, <3>1 DEF Insert, TypeOK, Calm
    <3>3. Pending(j)' = Pending(j)
      BY <2>8 DEF Pending
    <3>4. ASSUME NEW s \in Readers, get'[s] # Idle, get'[s].key = j
          PROVE  /\ get'[s].at \in {"insert", "found"} => get'[s].entry = newest[j]
                 /\ get'[s].at = "load" => Pending(j) = {}
      <4>1. CASE s # r
        BY <2>4, <3>1, <3>4, <4>1 DEF Calm
      <4>2. CASE s = r
        BY <2>1, <2>2, <3>1, <3>4, <4>2 DEF Calm
      <4> QED BY <4>1, <4>2
    <3> QED BY <2>8, <3>1, <3>2, <3>3, <3>4 DEF Calm
  <2> QED BY <2>9, <2>10
<1>5. ASSUME Forget(r) PROVE IInv'
  <2> DEFINE g == get[r]
  <2>1. g.at = "found" /\ g.key \in Keys /\ g.entry \in Entries
    BY <1>5 DEF Forget, TypeOK, Gets, Idle
  <2>2. get'[r] = [at |-> "erase", key |-> g.key, entry |-> g.entry]
    BY <1>5, <2>1 DEF Forget, TypeOK, Gets, Idle
  <2>3. get'[r] \in Gets
    BY <2>1, <2>2 DEF Gets
  <2>4. \A s \in Readers \ {r} : get'[s] = get[s]
    BY <1>5 DEF Forget, TypeOK
  <2>5. get' \in [Readers -> Gets]
    BY <1>5, <2>3, <2>4 DEF Forget, TypeOK
  <2>6. mem' \in [Keys -> Entries \cup {None}]
    BY <1>5, <2>1 DEF Forget, TypeOK
  <2>7. UNCHANGED <<store, expired, ops, tasks, newest, calm, loads>>
    BY <1>5 DEF Forget, history
  <2>8. TypeOK'
    BY <2>5, <2>6, <2>7 DEF TypeOK
  <2>9. ASSUME NEW j \in calm' PROVE Calm(j)'
    <3>1. j \in calm /\ Calm(j) /\ j \in Keys
      BY <2>7, <2>9 DEF TypeOK
    <3>2. mem'[j] \in {None, newest[j]}
      BY <1>5, <2>1, <3>1 DEF Forget, TypeOK, Calm
    <3>3. Pending(j)' = Pending(j)
      BY <2>7 DEF Pending
    <3>4. ASSUME NEW s \in Readers, get'[s] # Idle, get'[s].key = j
          PROVE  /\ get'[s].at \in {"insert", "found"} => get'[s].entry = newest[j]
                 /\ get'[s].at = "load" => Pending(j) = {}
      BY <2>2, <2>4, <3>1, <3>4 DEF Calm
    <3> QED BY <2>7, <3>1, <3>2, <3>3, <3>4 DEF Calm
  <2> QED BY <2>8, <2>9
<1>6. ASSUME Erase(r) PROVE IInv'
  <2>1. get[r].key \in Keys
    BY <1>6 DEF Erase, TypeOK, Gets, Idle
  <2>2. /\ get' = [get EXCEPT ![r] = Idle]
        /\ UNCHANGED <<mem, expired, ops, tasks, newest, calm, loads>>
        /\ store' \in [Keys -> Entries \cup {None}]
        /\ \A k \in Keys : store'[k] \in {None, store[k]}
    BY <1>6, <2>1 DEF Erase, TypeOK, history
  <2>3. TypeOK'
    BY <2>2 DEF TypeOK, Gets
  <2>4. ASSUME NEW j \in calm' PROVE Calm(j)'
    BY <2>2, <2>4 DEF Calm, Pending, TypeOK
  <2> QED BY <2>3, <2>4
<1> QED BY <1>1, <1>2, <1>3, <1>4, <1>5, <1>6

LEMMA NextIInv == IInv /\ [Next]_vars => IInv'
<1> SUFFICES ASSUME IInv, [Next]_vars PROVE IInv'
  OBVIOUS
<1> USE DEF IInv
<1>1. ASSUME NEW k \in Keys, Set(k) PROVE IInv'
  <2>1. PICK m \in Room(mem) : mem' = [m EXCEPT ![k] = ops + 1]
    BY <1>1 DEF Set
  <2>2. /\ m \in [Keys -> Entries \cup {None}]
        /\ \A j \in Keys : m[j] \in {None, mem[j]}
    BY RoomKeeps
  <2>3. Change(k, TRUE)
    BY <1>1 DEF Set
  <2>4. ops + 1 \in Entries
    BY <2>3, SizesAssumption DEF TypeOK, Change, Entries
  <2>5. mem' \in [Keys -> Entries \cup {None}]
    BY <2>1, <2>2, <2>4
  <2>6. TypeOK'
    BY <2>3, <2>5, ChangeTypes
  <2>7. mem'[k] = (IF TRUE THEN ops + 1 ELSE None) /\ \A j \in Keys \ {k} : mem'[j] \in {None, mem[j]}
    BY <2>1, <2>2
  <2>8. ASSUME NEW j \in calm' PROVE Calm(j)'
    BY <2>3, <2>6, <2>7, <2>8, ChangeCalm
  <2> QED BY <2>6, <2>8
<1>2. ASSUME NEW k \in Keys, Delete(k) PROVE IInv'
  <2>1. Change(k, FALSE) /\ mem' = [mem EXCEPT ![k] = None]
    BY <1>2 DEF Delete
  <2>2. mem' \in [Keys -> Entries \cup {None}]
    BY <2>1 DEF TypeOK
  <2>3. TypeOK'
    BY <2>1, <2>2, ChangeTypes
  <2>4. mem'[k] = (IF FALSE THEN ops + 1 ELSE None) /\ \A j \in Keys \ {k} : mem'[j] \in {None, mem[j]}
    BY <2>1 DEF TypeOK
  <2>5. ASSUME NEW j \in calm' PROVE Calm(j)'
    BY <2>1, <2>3, <2>4, <2>5, ChangeCalm
  <2> QED BY <2>3, <2>5
<1>3. ASSUME NEW k \in Keys, StoreDrops(k) PROVE IInv'
  <2>1. TypeOK'
    BY <1>3 DEF StoreDrops, TypeOK, history
  <2>2. ASSUME NEW j \in calm' PROVE Calm(j)'
    BY <1>3, <2>2 DEF StoreDrops, Calm, Pending, TypeOK, history
  <2> QED BY <2>1, <2>2
<1>4. ASSUME NEW flushed \in BOOLEAN, Clear(flushed) PROVE IInv'
  <2>1. TypeOK'
    BY <1>4 DEF Clear, TypeOK
  <2>2. ASSUME NEW j \in calm' PROVE Calm(j)'
    <3>1. /\ flushed /\ Pending(j) = {} /\ Reading(j) = {} /\ j \in Keys
          /\ tasks' = tasks /\ get' = get
          /\ mem'[j] = None /\ store'[j] = None /\ newest'[j] = None
      BY <1>4, <2>2 DEF Clear
    <3> QED BY <3>1 DEF Calm, Pending, Reading
  <2> QED BY <2>1, <2>2
<1>5. ASSUME NEW t \in tasks, Persist(t) PROVE IInv'
  <2>1. t.key \in Keys /\ t.id \in Entries
    BY DEF TypeOK
  <2>2. TypeOK'
    BY <1>5, <2>1 DEF Persist, TypeOK, history
  <2>3. ASSUME NEW j \in calm' PROVE Calm(j)'
    <3>1. j \in calm /\ Calm(j) /\ j \in Keys
      BY <1>5, <2>3 DEF Persist, TypeOK, history
    <3>2. /\ UNCHANGED <<mem, get, newest>>
          /\ tasks' = tasks \ {t}
          /\ store' = [store EXCEPT ![t.key] = IF t.sets THEN t.id ELSE None]
      BY <1>5 DEF Persist, history
    <3>3. CASE t.key = j
      <4>1. store'[j] = newest[j]
        BY <2>1, <3>1, <3>2, <3>3 DEF Calm, TypeOK
      <4>2. Pending(j) # {}
        BY <3>3 DEF Pending
      <4>3. \A r \in Readers : get[r] # Idle /\ get[r].key = j => get[r].at # "load"
        BY <3>1, <4>2 DEF Calm
      <4> QED BY <3>1, <3>2, <4>1, <4>3 DEF Calm
    <3>4. CASE t.key # j
      <4>1. Pending(j)' = Pending(j) /\ store'[j] = store[j]
        BY <2>1, <3>1, <3>2, <3>4 DEF Pending, TypeOK
      <4> QED BY <3>1, <3>2, <4>1 DEF Calm
    <3> QED BY <3>3, <3>4
  <2> QED BY <2>2, <2>3
<1>6. ASSUME NEW t \in tasks, PersistFails(t) PROVE IInv'
  <2>1. TypeOK'
    BY <1>6 DEF PersistFails, TypeOK
  <2>2. ASSUME NEW j \in calm' PROVE Calm(j)'
    <3>1. j \in calm /\ Calm(j) /\ j # t.key
      BY <1>6, <2>2 DEF PersistFails
    <3>2. UNCHANGED <<mem, store, get, newest>> /\ tasks' = tasks \ {t}
      BY <1>6 DEF PersistFails
    <3>3. Pending(j)' = Pending(j)
      BY <3>1, <3>2 DEF Pending
    <3> QED BY <3>1, <3>2, <3>3 DEF Calm
  <2> QED BY <2>1, <2>2
<1>7. ASSUME NEW r \in Readers,
             \/ \E k \in Keys : Begin(r, k)
             \/ Load(r) \/ LoadFails(r) \/ Insert(r) \/ Hit(r) \/ Forget(r) \/ Erase(r)
      PROVE IInv'
  BY <1>7, GetKeeps
<1>8. ASSUME NEW e \in Entries, Expire(e) PROVE IInv'
  <2>1. TypeOK'
    BY <1>8 DEF Expire, TypeOK, history
  <2>2. ASSUME NEW j \in calm' PROVE Calm(j)'
    BY <1>8, <2>2 DEF Expire, Calm, Pending, history
  <2> QED BY <2>1, <2>2
<1>9. ASSUME Cleanup PROVE IInv'
  <2>1. TypeOK'
    BY <1>9 DEF Cleanup, TypeOK, history
  <2>2. ASSUME NEW j \in calm' PROVE Calm(j)'
    BY <1>9, <2>2 DEF Cleanup, Calm, Pending, TypeOK, history
  <2> QED BY <2>1, <2>2
<1>10. ASSUME Restart PROVE IInv'
  <2>1. TypeOK'
    BY <1>10 DEF Restart, TypeOK, Gets
  <2>2. ASSUME NEW j \in calm' PROVE Calm(j)'
    BY <1>10, <2>2 DEF Restart, Calm, Pending, TypeOK
  <2> QED BY <2>1, <2>2
<1>11. CASE UNCHANGED vars
  <2>1. UNCHANGED <<mem, store, expired, ops, tasks, get, newest, calm, loads>>
    BY <1>11 DEF vars, history
  <2>2. TypeOK'
    BY <2>1 DEF TypeOK
  <2>3. ASSUME NEW j \in calm' PROVE Calm(j)'
    BY <2>1, <2>3 DEF Calm, Pending
  <2> QED BY <2>2, <2>3
<1> QED BY <1>1, <1>2, <1>3, <1>4, <1>5, <1>6, <1>7, <1>8, <1>9, <1>10, <1>11 DEF Next

(* The variables of the cache keep their types.                              *)
THEOREM CacheTypes == Spec => []TypeOK
<1>1. IInv => TypeOK
  BY DEF IInv
<1> QED BY <1>1, InitIInv, NextIInv, PTL DEF Spec

(* A change of a cached key that nothing overlapped takes effect in the map, *)
(* in what Gets have loaded and in the store.                                *)
THEOREM CalmCacheChangesHold == Spec => []CalmChangesHold
<1>1. IInv => CalmChangesHold
  BY DEF IInv, Calm, CalmChangesHold, Reading
<1> QED BY <1>1, InitIInv, NextIInv, PTL DEF Spec

-------------------------------------------------------------------------------
(* The size of the map *)

(* Taking keys out of a map or leaving it alone adds none to it. *)
LEMMA HeldShrinks ==
  ASSUME NEW m, NEW n, \A k \in Keys : n[k] \in {None, m[k]}
  PROVE  Cardinality(Held(n)) <= Cardinality(Held(m)) /\ Cardinality(Held(n)) \in Nat
<1>1. Held(n) \subseteq Held(m)
  BY DEF Held
<1>2. IsFiniteSet(Held(m)) /\ IsFiniteSet(Held(n))
  BY KeysAssumption, FS_Subset DEF Held
<1> QED BY <1>1, <1>2, FS_Subset, FS_CardinalityType

(* One more key. *)
LEMMA HeldGrows ==
  ASSUME NEW m, NEW n, NEW k \in Keys,
         \A j \in Keys \ {k} : n[j] \in {None, m[j]}
  PROVE  Cardinality(Held(n)) <= Cardinality(Held(m)) + 1
<1>1. IsFiniteSet(Held(m)) /\ IsFiniteSet(Held(n))
  BY KeysAssumption, FS_Subset DEF Held
<1>2. IsFiniteSet(Held(m) \cup {k}) /\ Cardinality(Held(m) \cup {k}) <= Cardinality(Held(m)) + 1
  <2>1. Cardinality(Held(m)) \in Nat
    BY <1>1, FS_CardinalityType
  <2> HIDE DEF Held
  <2>2. /\ IsFiniteSet(Held(m) \cup {k})
        /\ Cardinality(Held(m) \cup {k})
              = IF k \in Held(m) THEN Cardinality(Held(m)) ELSE Cardinality(Held(m)) + 1
    BY <1>1, FS_AddElement, Zenon
  <2> QED BY <2>1, <2>2
<1>3. Held(n) \subseteq Held(m) \cup {k}
  BY DEF Held
<1>4. Cardinality(Held(n)) <= Cardinality(Held(m) \cup {k})
  BY <1>2, <1>3, FS_Subset
<1> QED BY <1>1, <1>2, <1>4, FS_CardinalityType

(* Room leaves room, or as many as there are without a limit. *)
LEMMA RoomFits ==
  ASSUME MaxSize > 0, NEW m \in Room(mem), TypeOK
  PROVE  \/ Cardinality(Held(m)) + 1 <= MaxSize
         \/ Cardinality(Held(m)) + 1 = Cardinality(Held(mem))
<1>1. IsFiniteSet(Held(mem)) /\ Cardinality(Held(mem)) \in Nat
  BY KeysAssumption, FS_Subset, FS_CardinalityType DEF Held
<1>2. CASE Cardinality(Held(mem)) >= MaxSize
  <2>1. m \in WithoutOldest(mem)
    BY <1>2 DEF Room
  <2>2. PICK o \in Held(mem) : m = [mem EXCEPT ![o] = None]
    BY <2>1 DEF WithoutOldest
  <2>3. Held(m) = Held(mem) \ {o}
    BY <2>2 DEF Held, TypeOK
  <2>4. Cardinality(Held(m)) = Cardinality(Held(mem)) - 1
    BY <1>1, <2>2, <2>3, FS_RemoveElement
  <2> QED BY <1>1, <2>4
<1>3. CASE ~ (Cardinality(Held(mem)) >= MaxSize)
  <2>1. m = mem
    BY <1>3 DEF Room
  <2> QED BY <1>1, <1>3, <2>1, SizesAssumption
<1> QED BY <1>2, <1>3

LEMMA NextSize == TypeOK /\ SizeBounded /\ [Next]_vars => SizeBounded'
<1> SUFFICES ASSUME TypeOK, SizeBounded, [Next]_vars, MaxSize > 0
             PROVE  Cardinality(Held(mem')) <= MaxSize + loads'
  BY DEF SizeBounded, Held
<1>1. /\ IsFiniteSet(Held(mem)) /\ Cardinality(Held(mem)) \in Nat
      /\ Cardinality(Held(mem)) <= MaxSize + loads
      /\ MaxSize \in Nat /\ loads \in Nat
  BY KeysAssumption, SizesAssumption, FS_Subset, FS_CardinalityType
     DEF Held, SizeBounded, TypeOK
<1>2. ASSUME NEW k \in Keys, Set(k) PROVE Cardinality(Held(mem')) <= MaxSize + loads'
  <2>1. PICK m \in Room(mem) : mem' = [m EXCEPT ![k] = ops + 1]
    BY <1>2 DEF Set
  <2>2. m \in [Keys -> Entries \cup {None}]
    BY RoomKeeps
  <2>3. Cardinality(Held(mem')) <= Cardinality(Held(m)) + 1
    BY <2>1, <2>2, HeldGrows
  <2>4. Cardinality(Held(m)) \in Nat /\ Cardinality(Held(mem')) \in Nat
    BY HeldShrinks, KeysAssumption, FS_Subset, FS_CardinalityType DEF Held
  <2>5. loads' = loads
    BY <1>2 DEF Set, Change
  <2> QED BY <1>1, <2>3, <2>4, <2>5, RoomFits
<1>3. ASSUME NEW r \in Readers, Insert(r) PROVE Cardinality(Held(mem')) <= MaxSize + loads'
  <2>1. get[r].key \in Keys
    BY <1>3 DEF Insert, TypeOK, Gets, Idle
  <2>2. Cardinality(Held(mem')) <= Cardinality(Held(mem)) + 1
    BY <1>3, <2>1, HeldGrows DEF Insert, TypeOK
  <2>3. /\ Cardinality(Held(mem')) <= Cardinality(Keys)
        /\ Cardinality(Held(mem')) \in Nat /\ Cardinality(Keys) \in Nat
    BY KeysAssumption, FS_Subset, FS_CardinalityType DEF Held
  <2>4. loads' = IF loads < Cardinality(Keys) THEN loads + 1 ELSE loads
    BY <1>3 DEF Insert
  <2> QED BY <1>1, <2>2, <2>3, <2>4
<1>4. ASSUME \A k \in Keys : mem'[k] \in {None, mem[k]}, loads' = loads
      PROVE  Cardinality(Held(mem')) <= MaxSize + loads'
  <2>1. Cardinality(Held(mem')) <= Cardinality(Held(mem)) /\ Cardinality(Held(mem')) \in Nat
    BY <1>4, HeldShrinks
  <2> QED BY <1>1, <1>4, <2>1
<1>5. ASSUME \A k \in Keys : mem'[k] = None, loads' \in Nat
      PROVE  Cardinality(Held(mem')) <= MaxSize + loads'
  <2>1. Held(mem') = {}
    BY <1>5 DEF Held
  <2> QED BY <1>1, <1>5, <2>1, FS_EmptySet
<1>6. ASSUME NEW k \in Keys, Delete(k) \/ StoreDrops(k) PROVE Cardinality(Held(mem')) <= MaxSize + loads'
  <2>1. (\A j \in Keys : mem'[j] \in {None, mem[j]}) /\ loads' = loads
    BY <1>6 DEF Delete, Change, StoreDrops, history, TypeOK
  <2> QED BY <1>4, <2>1
<1>7. ASSUME NEW flushed \in BOOLEAN, Clear(flushed) PROVE Cardinality(Held(mem')) <= MaxSize + loads'
  <2>1. (\A j \in Keys : mem'[j] = None) /\ loads' \in Nat
    BY <1>7 DEF Clear
  <2> QED BY <1>5, <2>1
<1>8. ASSUME Restart PROVE Cardinality(Held(mem')) <= MaxSize + loads'
  <2>1. (\A j \in Keys : mem'[j] = None) /\ loads' \in Nat
    BY <1>8 DEF Restart
  <2> QED BY <1>5, <2>1
<1>9. ASSUME NEW t \in tasks, Persist(t) \/ PersistFails(t)
      PROVE  Cardinality(Held(mem')) <= MaxSize + loads'
  <2>1. mem' = mem /\ loads' = loads
    BY <1>9 DEF Persist, PersistFails, history
  <2> QED BY <1>4, <2>1
<1>10. ASSUME NEW r \in Readers,
              \/ \E k \in Keys : Begin(r, k)
              \/ Load(r) \/ LoadFails(r) \/ Hit(r) \/ Forget(r) \/ Erase(r)
       PROVE  Cardinality(Held(mem')) <= MaxSize + loads'
  <2>1. (\A j \in Keys : mem'[j] \in {None, mem[j]}) /\ loads' = loads
    BY <1>10 DEF Begin, Load, LoadFails, Hit, Forget, Erase, history, TypeOK
  <2> QED BY <1>4, <2>1
<1>11. ASSUME Cleanup \/ (\E e \in Entries : Expire(e)) \/ UNCHANGED vars
       PROVE  Cardinality(Held(mem')) <= MaxSize + loads'
  <2>1. (\A j \in Keys : mem'[j] \in {None, mem[j]}) /\ loads' = loads
    BY <1>11 DEF Cleanup, Expire, vars, history, TypeOK
  <2> QED BY <1>4, <2>1
<1> QED BY <1>2, <1>3, <1>6, <1>7, <1>8, <1>9, <1>10, <1>11 DEF Next

(* The map of the cache holds MaxSize entries and those that Gets have loaded *)
(* from the store since the last start, no more.                             *)
THEOREM CacheSizeBounded == Spec => []SizeBounded
<1>1. Init => SizeBounded
  <2> SUFFICES ASSUME Init, MaxSize > 0 PROVE Cardinality(Held(mem)) <= MaxSize + loads
    BY DEF SizeBounded
  <2>1. Held(mem) = {} /\ loads = 0
    BY DEF Init, Held
  <2> QED BY <2>1, FS_EmptySet, SizesAssumption
<1>2. IInv => TypeOK
  BY DEF IInv
<1> QED BY <1>1, <1>2, InitIInv, NextIInv, NextSize, PTL DEF Spec

-------------------------------------------------------------------------------
(* What brings an expired entry back *)

(* The Gets about to put entry e into the map, and the keys that have it.     *)
Late(e) == {r \in Readers : get[r] # Idle /\ get[r].at = "insert" /\ get[r].entry = e}
Holders(e) == {k \in Keys : mem[k] = e}

Started == expired \subseteq 1 .. ops

(* An entry whose time is over comes back into the map only by a Get that had *)
(* read the store before, and each such Get brings it back once: no new one   *)
(* joins them, since a Get that finds it expired in the store removes it.     *)
(* The cleanup loop takes it from every key.                                  *)
ReturnsUseUp ==
  \A e \in expired :
    /\ Late(e)' \subseteq Late(e)
    /\ \/ Holders(e)' \subseteq Holders(e)
       \/ \E r \in Late(e) : /\ Late(e)' = Late(e) \ {r}
                             /\ Holders(e)' = Holders(e) \cup {get[r].key}
    /\ Cleanup => Holders(e)' = {}

LEMMA GetReturns ==
  ASSUME TypeOK, NEW r \in Readers, NEW e \in expired,
         \/ \E k \in Keys : Begin(r, k)
         \/ Load(r) \/ LoadFails(r) \/ Insert(r) \/ Hit(r) \/ Forget(r) \/ Erase(r)
  PROVE  /\ Late(e)' \subseteq Late(e)
         /\ \/ Holders(e)' \subseteq Holders(e)
            \/ \E g \in Late(e) : /\ Late(e)' = Late(e) \ {g}
                                  /\ Holders(e)' = Holders(e) \cup {get[g].key}
<1>1. get \in [Readers -> Gets] /\ mem \in [Keys -> Entries \cup {None}] /\ e \in Entries
  BY DEF TypeOK
<1>2. e # None
  BY <1>1, SizesAssumption DEF Entries, None
<1>3. ASSUME NEW g, get' = [get EXCEPT ![r] = g], g = Idle \/ g.at # "insert" \/ g.entry # e
      PROVE  Late(e)' = Late(e) \ {r}
  BY <1>1, <1>3 DEF Late
<1>4. CASE Insert(r)
  <2>1. /\ get[r].at = "insert" /\ get[r] # Idle /\ get[r].key \in Keys
        /\ mem' = [mem EXCEPT ![get[r].key] = get[r].entry]
        /\ get' = [get EXCEPT ![r].at = "found"]
    BY <1>1, <1>4 DEF Insert, Gets, Idle
  <2>2. [get[r] EXCEPT !.at = "found"].at = "found"
    BY <1>1, <2>1 DEF Gets, Idle
  <2>3. Late(e)' = Late(e) \ {r}
    BY <1>3, <2>1, <2>2
  <2>4. CASE get[r].entry = e
    <3>1. r \in Late(e)
      BY <2>1, <2>4 DEF Late
    <3>2. Holders(e)' = Holders(e) \cup {get[r].key}
      BY <1>1, <2>1, <2>4 DEF Holders
    <3> QED BY <2>3, <3>1, <3>2
  <2>5. CASE get[r].entry # e
    <3>1. Holders(e)' \subseteq Holders(e)
      BY <1>1, <2>1, <2>5 DEF Holders
    <3> QED BY <2>3, <3>1
  <2> QED BY <2>4, <2>5
<1>5. CASE Load(r)
  <2> DEFINE k == get[r].key
             g == IF store[k] = None THEN Idle
                  ELSE [at |-> IF store[k] \in expired THEN "purge" ELSE "insert",
                        key |-> k, entry |-> store[k]]
  <2>1. get' = [get EXCEPT ![r] = g] /\ mem' = mem
    BY <1>5 DEF Load
  <2>2. g = Idle \/ g.at # "insert" \/ g.entry # e
    OBVIOUS
  <2> HIDE DEF g
  <2>3. Late(e)' = Late(e) \ {r}
    BY <1>3, <2>1, <2>2
  <2> QED BY <2>1, <2>3 DEF Holders
<1>6. CASE \E k \in Keys : Begin(r, k)
  <2> PICK k \in Keys : Begin(r, k)
    BY <1>6
  <2> DEFINE g == IF mem[k] # None THEN [at |-> "found", key |-> k, entry |-> mem[k]]
                  ELSE [at |-> "load", key |-> k]
  <2>1. get' = [get EXCEPT ![r] = g] /\ mem' = mem
    BY DEF Begin
  <2>2. g.at # "insert"
    OBVIOUS
  <2> HIDE DEF g
  <2>3. Late(e)' = Late(e) \ {r}
    BY <1>3, <2>1, <2>2
  <2> QED BY <2>1, <2>3 DEF Holders
<1>7. CASE LoadFails(r) \/ Hit(r) \/ Erase(r)
  <2>1. get' = [get EXCEPT ![r] = Idle] /\ mem' = mem
    BY <1>7 DEF LoadFails, Hit, Erase
  <2>2. Late(e)' = Late(e) \ {r}
    BY <1>3, <2>1
  <2> QED BY <2>1, <2>2 DEF Holders
<1>8. CASE Forget(r)
  <2>1. /\ get[r].at = "found"
        /\ mem' = [mem EXCEPT ![get[r].key] = None]
        /\ get' = [get EXCEPT ![r].at = "erase"]
    BY <1>8 DEF Forget
  <2>2. get[r] # Idle /\ [get[r] EXCEPT !.at = "erase"].at = "erase"
    BY <1>1, <2>1 DEF Gets, Idle
  <2>3. Late(e)' = Late(e) \ {r}
    BY <1>3, <2>1, <2>2
  <2>4. Holders(e)' \subseteq Holders(e)
    BY <1>1, <1>2, <2>1 DEF Holders
  <2> QED BY <2>3, <2>4
<1> QED BY <1>4, <1>5, <1>6, <1>7, <1>8

LEMMA StepReturns == TypeOK /\ Started /\ [Next]_vars => [ReturnsUseUp]_vars /\ Started'
<1> SUFFICES ASSUME TypeOK, Started, [Next]_vars PROVE ReturnsUseUp /\ Started'
  OBVIOUS
<1>0. /\ mem \in [Keys -> Entries \cup {None}] /\ ops \in Nat /\ expired \subseteq Entries
      /\ \A e \in expired : e # None /\ e # ops + 1 /\ e \in Nat
  BY SizesAssumption DEF TypeOK, Started, Entries, None
<1>1. ASSUME NEW k \in Keys, NEW sets \in BOOLEAN, Change(k, sets),
             \A j \in Keys : mem'[j] \in {None, ops + 1, mem[j]}
      PROVE  (ReturnsUseUp \/ Cleanup) /\ Started'
  <2>1. get' = get /\ expired' = expired /\ ops' = ops + 1
    BY <1>1 DEF Change
  <2>2. Started'
    BY <1>0, <2>1 DEF Started
  <2>3. ASSUME NEW e \in expired
        PROVE  Late(e)' = Late(e) /\ Holders(e)' \subseteq Holders(e)
    BY <1>0, <1>1, <2>1 DEF Late, Holders
  <2> QED BY <2>2, <2>3 DEF ReturnsUseUp
<1>2. Cleanup => \A e \in expired : Holders(e)' = {}
  BY <1>0 DEF Cleanup, Holders
<1>3. ASSUME \A e \in expired : Late(e)' \subseteq Late(e) /\ Holders(e)' \subseteq Holders(e)
      PROVE  ReturnsUseUp
  BY <1>2, <1>3 DEF ReturnsUseUp
<1>4. ASSUME NEW k \in Keys, Set(k) PROVE ReturnsUseUp /\ Started'
  <2>1. PICK m \in Room(mem) : mem' = [m EXCEPT ![k] = ops + 1]
    BY <1>4 DEF Set
  <2>2. \A j \in Keys : mem'[j] \in {None, ops + 1, mem[j]}
    BY <2>1, RoomKeeps
  <2>3. ops' = ops + 1
    BY <1>4 DEF Set, Change
  <2>4. ~ Cleanup
    BY <1>0, <2>3 DEF Cleanup
  <2> QED BY <1>1, <1>4, <2>2, <2>4 DEF Set
<1>5. ASSUME NEW k \in Keys, Delete(k) PROVE ReturnsUseUp /\ Started'
  <2>1. \A j \in Keys : mem'[j] \in {None, ops + 1, mem[j]}
    BY <1>0, <1>5 DEF Delete
  <2>2. ops' = ops + 1
    BY <1>5 DEF Delete, Change
  <2>3. ~ Cleanup
    BY <1>0, <2>2 DEF Cleanup
  <2> QED BY <1>1, <1>5, <2>1, <2>3 DEF Delete
<1>6. ASSUME NEW r \in Readers,
             \/ \E k \in Keys : Begin(r, k)
             \/ Load(r) \/ LoadFails(r) \/ Insert(r) \/ Hit(r) \/ Forget(r) \/ Erase(r)
      PROVE  ReturnsUseUp /\ Started'
  <2>1. UNCHANGED <<expired, ops>>
    BY <1>6 DEF Begin, Load, LoadFails, Insert, Hit, Forget, Erase
  <2> QED BY <1>2, <1>6, <2>1, GetReturns DEF ReturnsUseUp, Started
<1>7. CASE Cleanup
  <2>1. UNCHANGED <<get, expired, ops>>
    BY <1>7 DEF Cleanup
  <2>2. \A e \in expired : Late(e)' \subseteq Late(e)
    BY <2>1 DEF Late
  <2>3. ReturnsUseUp
    BY <1>2, <1>3, <1>7, <2>2
  <2> QED BY <2>1, <2>3 DEF Started
<1>8. ASSUME NEW flushed \in BOOLEAN, Clear(flushed) PROVE ReturnsUseUp /\ Started'
  <2>1. mem' = [j \in Keys |-> None] /\ UNCHANGED <<get, expired, ops>>
    BY <1>8 DEF Clear
  <2>2. \A e \in expired : Late(e)' \subseteq Late(e) /\ Holders(e)' \subseteq Holders(e)
    BY <1>0, <2>1 DEF Late, Holders
  <2> QED BY <1>3, <2>1, <2>2 DEF Started
<1>9. CASE Restart
  <2>1. /\ mem' = [j \in Keys |-> None] /\ get' = [r \in Readers |-> Idle]
        /\ UNCHANGED <<expired, ops>>
    BY <1>9 DEF Restart
  <2>2. \A e \in expired : Late(e)' \subseteq Late(e) /\ Holders(e)' \subseteq Holders(e)
    BY <1>0, <2>1 DEF Late, Holders
  <2> QED BY <1>3, <2>1, <2>2 DEF Started
<1>10. ASSUME NEW x \in Entries, Expire(x) PROVE ReturnsUseUp /\ Started'
  <2>1. UNCHANGED <<mem, get, ops>> /\ expired' = expired \cup {x} /\ x \in 1 .. ops
    BY <1>10 DEF Expire
  <2>2. \A e \in expired : Late(e)' \subseteq Late(e) /\ Holders(e)' \subseteq Holders(e)
    BY <2>1 DEF Late, Holders
  <2> QED BY <1>3, <2>1, <2>2 DEF Started
<1>11. ASSUME UNCHANGED <<mem, get, expired, ops>> PROVE ReturnsUseUp /\ Started'
  <2>1. \A e \in expired : Late(e)' \subseteq Late(e) /\ Holders(e)' \subseteq Holders(e)
    BY <1>11 DEF Late, Holders
  <2> QED BY <1>3, <1>11, <2>1 DEF Started
<1>12. ASSUME NEW k \in Keys, StoreDrops(k) PROVE ReturnsUseUp /\ Started'
  BY <1>11, <1>12 DEF StoreDrops
<1>13. ASSUME NEW t \in tasks, Persist(t) \/ PersistFails(t) PROVE ReturnsUseUp /\ Started'
  BY <1>11, <1>13 DEF Persist, PersistFails
<1>14. CASE UNCHANGED vars
  BY <1>11, <1>14 DEF vars
<1> QED BY <1>4, <1>5, <1>6, <1>7, <1>8, <1>9, <1>10, <1>12, <1>13, <1>14 DEF Next

(* The safety half of ExpiredLeaves, for Get and cleanup.                     *)
THEOREM ExpiredReturnsUseUp == Spec => [][ReturnsUseUp]_vars
<1>1. Init => Started
  BY DEF Init, Started
<1> QED BY <1>1, StepReturns, CacheTypes, PTL DEF Spec

===============================================================================
