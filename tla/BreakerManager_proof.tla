------------------------- MODULE BreakerManager_proof -------------------------
(***************************************************************************)
(* What holds of the breaker manager for any backends, any number of       *)
(* threads and of saves under way and any settings: the race in Get stays  *)
(* bounded, a breaker made from now on can trip, and a save that neither   *)
(* fails nor overlaps another takes effect.                                *)
(***************************************************************************)
EXTENDS BreakerManager, FiniteSetTheorems, SequenceTheorems, TLAPS

Made(b) == {i \in DOMAIN objs : objs[i].backend = b}
Creating(b) == {t \in Threads : missed[t] = b}

LatestInMap == \A b \in Backends : \A i \in Made(b) : i <= breakers[b]

(* Threads that missed an entry and breakers made for it: both together    *)
(* are no more than the threads, as a miss needs that none was made yet.   *)
FewMade == \A b \in Backends :
               Cardinality(Creating(b)) + Cardinality(Made(b)) <= Cardinality(Threads)

IInv == TypeOK /\ LatestInMap /\ FewMade

-------------------------------------------------------------------------------

LEMMA ParamsBuilt == \A s \in Settings : Built(s) \in Config /\ Built(s).failureThreshold > 0
  BY SettingsAssumption DEF Built, OrDefault, DefaultConfig, Params, Config

LEMMA ParamsReloaded == \A s \in Settings \ {Unset} :
                            /\ Reloaded(s) \in Config
                            /\ OrDefault(s.rateLimitWeight, DefaultWeight) \in Nat \ {0}
  BY SettingsAssumption DEF Reloaded, Params, Config, OrDefault, DefaultWeight

LEMMA Objects ==
  ASSUME TypeOK
  PROVE  /\ DOMAIN objs = 1 .. Len(objs) /\ Len(objs) \in Nat
         /\ \A i \in DOMAIN objs : objs[i] \in Breaker
  BY LenProperties, ElementOfSeq DEF TypeOK

LEMMA Finite ==
  ASSUME TypeOK, NEW b
  PROVE  /\ IsFiniteSet(Made(b)) /\ Cardinality(Made(b)) \in Nat
         /\ IsFiniteSet(Creating(b)) /\ Cardinality(Creating(b)) \in Nat
         /\ Cardinality(Creating(b)) <= Cardinality(Threads)
         /\ Cardinality(Threads) \in Nat
<1>1. Made(b) \in SUBSET (1 .. Len(objs)) BY Objects DEF Made
<1>2. IsFiniteSet(1 .. Len(objs)) BY Objects, FS_Interval
<1>3. Creating(b) \in SUBSET Threads BY DEF Creating
<1>4. IsFiniteSet(Made(b)) /\ IsFiniteSet(Creating(b))
  BY <1>1, <1>2, <1>3, FS_Subset, SettingsAssumption
<1> QED BY <1>3, <1>4, FS_Subset, FS_CardinalityType, SettingsAssumption

LEMMA NoneMade == ASSUME IInv, NEW b \in Backends, breakers[b] = 0 PROVE Made(b) = {}
<1> SUFFICES ASSUME NEW i \in Made(b) PROVE FALSE OBVIOUS
<1>1. i <= 0 BY DEF IInv, LatestInMap
<1>2. i \in 1 .. Len(objs) /\ Len(objs) \in Nat BY Objects DEF IInv, Made
<1> QED BY <1>1, <1>2

-------------------------------------------------------------------------------
(* What start-up and restart leave behind. *)

LEMMA Fresh ==
  ASSUME memory \in Settings, saved = memory, op = NoOperation,
         mconfig = Built(memory), weight = DefaultWeight, breakers = NoBreakers,
         objs = <<>>, missed = MissNone, calm = TRUE
  PROVE  IInv
<1>1. objs \in Seq(Breaker) /\ Len(objs) = 0 /\ DOMAIN objs = {}
  BY EmptySeq, LenProperties
<1>2. op \in [Operators -> Operation] /\ \A o \in Operators : op[o].at # "apply"
  BY SettingsAssumption DEF NoOperation, Idle, Operation
<1>3. TypeOK
  BY <1>1, <1>2, ParamsBuilt, SettingsAssumption
  DEF TypeOK, NoBreakers, MissNone, DefaultWeight
<1>4. LatestInMap
  BY <1>1 DEF LatestInMap, Made, NoBreakers
<1>5. FewMade
  <2> SUFFICES ASSUME NEW b \in Backends
               PROVE  Cardinality(Creating(b)) + Cardinality(Made(b))
                          <= Cardinality(Threads)
    BY DEF FewMade
  <2>1. Made(b) = {} /\ Creating(b) = {}
    BY <1>1, SettingsAssumption DEF Made, Creating, MissNone
  <2> QED BY <2>1, <1>3, Finite, FS_EmptySet
<1> QED BY <1>3, <1>4, <1>5 DEF IInv

LEMMA Initially == Init => IInv
  BY Fresh DEF Init

LEMMA RestartKeeps == IInv /\ Restart => IInv'
<1> SUFFICES ASSUME IInv, Restart PROVE IInv' OBVIOUS
<1>1. /\ saved \in Settings /\ saved' = saved /\ memory' = saved /\ op' = NoOperation
      /\ mconfig' = Built(saved) /\ weight' = DefaultWeight /\ breakers' = NoBreakers
      /\ objs' = <<>> /\ missed' = MissNone /\ calm' = TRUE
  BY DEF Restart, IInv, TypeOK
<1>2. objs' \in Seq(Breaker) /\ Len(objs') = 0 /\ DOMAIN objs' = {}
  BY <1>1, EmptySeq, LenProperties
<1>3. op' \in [Operators -> Operation] /\ \A o \in Operators : op'[o].at # "apply"
  BY <1>1, SettingsAssumption DEF NoOperation, Idle, Operation
<1>4. TypeOK'
  BY <1>1, <1>2, <1>3, ParamsBuilt, SettingsAssumption
  DEF TypeOK, NoBreakers, MissNone, DefaultWeight
<1>5. LatestInMap'
  BY <1>1, <1>2 DEF LatestInMap, Made, NoBreakers
<1>6. FewMade'
  <2> SUFFICES ASSUME NEW b \in Backends
               PROVE  (Cardinality(Creating(b)) + Cardinality(Made(b))
                          <= Cardinality(Threads))'
    BY DEF FewMade
  <2>1. Made(b)' = {} /\ Creating(b)' = {}
    BY <1>1, <1>2, SettingsAssumption DEF Made, Creating, MissNone
  <2> QED BY <2>1, Finite, FS_EmptySet DEF IInv
<1> QED BY <1>4, <1>5, <1>6 DEF IInv

-------------------------------------------------------------------------------
(* Saves: until they reload they only move settings about. *)

Moves(o) == \/ \E s \in Settings : BeginSave(o, s)
            \/ BeginOther(o) \/ Capture(o) \/ Write(o) \/ WriteFails(o) \/ ReadBack(o)

LEMMA MovesOnlySettings ==
  ASSUME NEW o \in Operators, Moves(o) PROVE UNCHANGED <<managerVars, missed>>
  BY DEF Moves, BeginSave, BeginOther, Capture, Write, WriteFails, ReadBack

LEMMA MovesType ==
  ASSUME TypeOK, NEW o \in Operators, Moves(o)
  PROVE  /\ memory' \in Settings /\ saved' \in Settings /\ calm' \in BOOLEAN
         /\ op' \in [Operators -> Operation]
         /\ \A p \in Operators : op'[p].at = "apply" => op'[p].copy # Unset
<1> USE DEF TypeOK, Operation
<1>1. op[o] \in Operation /\ Unset \in Settings /\ Idle \in Operation
  BY SettingsAssumption DEF Idle
<1>2. ASSUME NEW s \in Settings, BeginSave(o, s)
      PROVE  /\ memory' \in Settings /\ saved' \in Settings /\ calm' \in BOOLEAN
             /\ op' \in [Operators -> Operation]
             /\ \A p \in Operators : op'[p].at = "apply" => op'[p].copy # Unset
  BY <1>1, <1>2 DEF BeginSave, Alone
<1>3. CASE BeginOther(o) BY <1>1, <1>3 DEF BeginOther, Alone
<1>4. CASE Capture(o) BY <1>1, <1>4 DEF Capture
<1>5. CASE Write(o)
  <2>1. PICK n : /\ n = IF op[o].with
                          THEN [op[o] EXCEPT !.at = "reload", !.copy = Unset]
                          ELSE Idle
                 /\ op' = [op EXCEPT ![o] = n]
    BY <1>5 DEF Write
  <2>2. n \in Operation /\ n.at # "apply" BY <1>1, <2>1 DEF Idle
  <2> QED BY <1>1, <1>5, <2>1, <2>2 DEF Write
<1>6. CASE WriteFails(o) BY <1>1, <1>6 DEF WriteFails, Idle
<1>7. CASE ReadBack(o)
  <2>1. PICK n : /\ n = IF memory = Unset THEN Idle
                          ELSE [op[o] EXCEPT !.at = "apply", !.copy = memory]
                 /\ op' = [op EXCEPT ![o] = n]
    BY <1>7 DEF ReadBack
  <2>2. n \in Operation /\ (n.at = "apply" => n.copy # Unset) BY <1>1, <2>1 DEF Idle
  <2> QED BY <1>1, <1>7, <2>1, <2>2 DEF ReadBack
<1> QED BY <1>2, <1>3, <1>4, <1>5, <1>6, <1>7 DEF Moves

LEMMA MovesKeep == ASSUME IInv, NEW o \in Operators, Moves(o) PROVE IInv'
<1>1. UNCHANGED <<mconfig, weight, breakers, objs, missed>>
  BY MovesOnlySettings DEF managerVars
<1>2. TypeOK' BY <1>1, MovesType DEF IInv, TypeOK
<1> QED BY <1>1, <1>2 DEF IInv, LatestInMap, FewMade, Made, Creating

(* The reload changes the configurations of breakers and nothing else.     *)
LEMMA Updated ==
  ASSUME TypeOK, NEW c \in Config, NEW w \in Nat \ {0}, UpdateConfig(c, w)
  PROVE  /\ mconfig' \in Config /\ weight' \in Nat \ {0}
         /\ objs' \in Seq(Breaker) /\ Len(objs') = Len(objs)
         /\ DOMAIN objs' = DOMAIN objs
         /\ \A i \in DOMAIN objs : objs'[i].backend = objs[i].backend
         /\ \A b \in Backends : breakers[b] \in DOMAIN objs =>
                objs'[breakers[b]].config = c
<1> DEFINE e(i) == IF \E b \in Backends : breakers[b] = i
                   THEN [objs[i] EXCEPT !.config = c] ELSE objs[i]
<1>1. DOMAIN objs = 1 .. Len(objs) /\ Len(objs) \in Nat BY Objects
<1>2. \A i \in 1 .. Len(objs) : objs[i] \in Breaker BY <1>1, Objects
<1>3. \A i \in 1 .. Len(objs) : /\ e(i) \in Breaker
                                /\ e(i).backend = objs[i].backend
                                /\ (\E b \in Backends : breakers[b] = i) => e(i).config = c
  BY <1>2 DEF Breaker
<1>4. objs' = [i \in 1 .. Len(objs) |-> e(i)] BY <1>1 DEF UpdateConfig
<1> HIDE DEF e
<1>5. objs' \in [1 .. Len(objs) -> Breaker] BY <1>3, <1>4
<1>6. objs' \in Seq(Breaker) BY <1>1, <1>5, SeqDef
<1>7. DOMAIN objs' = 1 .. Len(objs') /\ Len(objs') \in Nat BY <1>6, LenProperties
<1>8. Len(objs') = Len(objs) BY <1>1, <1>5, <1>7
<1>9. \A i \in 1 .. Len(objs) : objs'[i] = e(i) BY <1>4
<1>10. mconfig' \in Config /\ weight' = w BY DEF UpdateConfig, TypeOK
<1> QED BY <1>1, <1>3, <1>6, <1>7, <1>8, <1>9, <1>10

LEMMA Reload ==
  ASSUME TypeOK, NEW o \in Operators, Apply(o)
  PROVE  \E s \in Settings \ {Unset}, c \in Config, w \in Nat \ {0} :
             /\ s = op[o].copy /\ c = Reloaded(s)
             /\ UpdateConfig(c, w)
<1>1. op[o].copy \in Settings \ {Unset} BY DEF Apply, TypeOK, Operation
<1> QED BY <1>1, ParamsReloaded DEF Apply

LEMMA ApplyKeeps == ASSUME IInv, NEW o \in Operators, Apply(o) PROVE IInv'
<1>1. TypeOK BY DEF IInv
<1>2. PICK c \in Config, w \in Nat \ {0} : UpdateConfig(c, w) BY <1>1, Reload
<1>3. /\ mconfig' \in Config /\ weight' \in Nat \ {0}
      /\ objs' \in Seq(Breaker) /\ Len(objs') = Len(objs)
      /\ DOMAIN objs' = DOMAIN objs
      /\ \A i \in DOMAIN objs : objs'[i].backend = objs[i].backend
  BY <1>1, <1>2, Updated
<1>4. /\ op' = [op EXCEPT ![o] = Idle]
      /\ UNCHANGED <<memory, saved, calm, breakers, missed>>
  BY DEF Apply
<1>5. Idle \in Operation /\ Idle.at # "apply" BY SettingsAssumption DEF Idle, Operation
<1>6. TypeOK' BY <1>1, <1>3, <1>4, <1>5 DEF TypeOK
<1>7. \A b : Made(b)' = Made(b) /\ Creating(b)' = Creating(b)
  BY <1>3, <1>4 DEF Made, Creating
<1> QED BY <1>4, <1>6, <1>7 DEF IInv, LatestInMap, FewMade

-------------------------------------------------------------------------------
(* The threads. *)

LEMMA MissKeeps == ASSUME IInv, NEW t \in Threads, Miss(t) PROVE IInv'
<1>1. PICK b \in Backends : breakers[b] = 0 /\ missed' = [missed EXCEPT ![t] = b]
  BY DEF Miss
<1>2. /\ missed[t] = NoBackend
      /\ UNCHANGED <<memory, saved, op, calm, mconfig, weight, breakers, objs>>
  BY DEF Miss, settingsVars, managerVars
<1>3. TypeOK' BY <1>1, <1>2 DEF IInv, TypeOK
<1>4. LatestInMap' BY <1>2 DEF IInv, LatestInMap, Made
<1>5. FewMade'
  <2> SUFFICES ASSUME NEW x \in Backends
               PROVE  Cardinality(Creating(x)') + Cardinality(Made(x)')
                          <= Cardinality(Threads)
    BY DEF FewMade
  <2>1. Made(x)' = Made(x) BY <1>2 DEF Made
  <2>2. CASE x = b
    <3>1. Made(x) = {} BY <1>1, <2>2, NoneMade
    <3>2. Cardinality(Creating(x)') <= Cardinality(Threads)
      BY FS_Subset, SettingsAssumption DEF Creating
    <3>3. Creating(x)' \in SUBSET Threads BY DEF Creating
    <3>4. Cardinality(Creating(x)') \in Nat
      BY <3>3, FS_Subset, FS_CardinalityType, SettingsAssumption
    <3> QED BY <2>1, <3>1, <3>2, <3>4, Finite, FS_EmptySet DEF IInv
  <2>3. CASE x # b
    <3>1. Creating(x)' = Creating(x)
      BY <1>1, <1>2, <2>3, SettingsAssumption DEF Creating, IInv, TypeOK
    <3> QED BY <2>1, <3>1 DEF IInv, FewMade
  <2> QED BY <2>2, <2>3
<1> QED BY <1>3, <1>4, <1>5 DEF IInv

(* What Create adds to the map and to the breakers made. *)
LEMMA Created ==
  ASSUME TypeOK, NEW t \in Threads, Create(t)
  PROVE  \E b \in Backends, n \in Nat, new \in Breaker :
             /\ b = missed[t] /\ n = Len(objs) + 1 /\ n \notin DOMAIN objs
             /\ new.backend = b /\ new.config = mconfig
             /\ objs' \in Seq(Breaker) /\ Len(objs') = n
             /\ DOMAIN objs = 1 .. Len(objs) /\ DOMAIN objs' = DOMAIN objs \cup {n}
             /\ \A i \in DOMAIN objs : objs'[i] = objs[i]
             /\ objs'[n] = new
             /\ breakers' = [breakers EXCEPT ![b] = n]
             /\ missed' = [missed EXCEPT ![t] = NoBackend]
             /\ UNCHANGED <<memory, saved, op, calm, mconfig, weight>>
<1> DEFINE new == [backend |-> missed[t], config |-> mconfig]
           n == Len(objs) + 1
<1>1. new \in Breaker /\ missed[t] \in Backends
  BY DEF Create, TypeOK, Breaker
<1>2. new.backend = missed[t] /\ new.config = mconfig OBVIOUS
<1>3. /\ objs' = Append(objs, new)
      /\ breakers' = [breakers EXCEPT ![missed[t]] = n]
      /\ missed' = [missed EXCEPT ![t] = NoBackend]
      /\ UNCHANGED <<memory, saved, op, calm, mconfig, weight>>
  BY DEF Create, settingsVars
<1>4. DOMAIN objs = 1 .. Len(objs) /\ Len(objs) \in Nat BY Objects
<1> HIDE DEF new
<1>5. /\ objs' \in Seq(Breaker) /\ Len(objs') = n
      /\ \A i \in 1 .. Len(objs) : objs'[i] = objs[i]
      /\ objs'[n] = new
  BY <1>1, <1>3, AppendProperties DEF TypeOK
<1>6. DOMAIN objs' = 1 .. n BY <1>5, LenProperties
<1>7. DOMAIN objs' = DOMAIN objs \cup {n} /\ n \notin DOMAIN objs /\ n \in Nat
  BY <1>4, <1>6
<1> QED BY <1>1, <1>2, <1>3, <1>4, <1>5, <1>7

(* One thread less to create, one breaker more. *)
LEMMA CreateKeeps == ASSUME IInv, NEW t \in Threads, Create(t) PROVE IInv'
<1>1. TypeOK BY DEF IInv
<1>2. PICK b0 \in Backends, n \in Nat, new \in Breaker :
             /\ b0 = missed[t] /\ n = Len(objs) + 1 /\ n \notin DOMAIN objs
             /\ new.backend = b0 /\ new.config = mconfig
             /\ objs' \in Seq(Breaker) /\ Len(objs') = n
             /\ DOMAIN objs = 1 .. Len(objs) /\ DOMAIN objs' = DOMAIN objs \cup {n}
             /\ \A i \in DOMAIN objs : objs'[i] = objs[i]
             /\ objs'[n] = new
             /\ breakers' = [breakers EXCEPT ![b0] = n]
             /\ missed' = [missed EXCEPT ![t] = NoBackend]
             /\ UNCHANGED <<memory, saved, op, calm, mconfig, weight>>
  BY <1>1, Created
<1>3. Len(objs) \in Nat BY <1>1, Objects
<1>4. TypeOK' BY <1>1, <1>2, <1>3 DEF TypeOK
<1>5. \A b : b # b0 /\ b # NoBackend => Made(b)' = Made(b) /\ Creating(b)' = Creating(b)
  BY <1>1, <1>2 DEF Made, Creating, TypeOK
<1>6. Made(b0)' = Made(b0) \cup {n}
  BY <1>2 DEF Made
<1>7. Creating(b0)' = Creating(b0) \ {t} /\ t \in Creating(b0)
  BY <1>1, <1>2, SettingsAssumption DEF Creating, TypeOK
<1>8. LatestInMap'
  <2> SUFFICES ASSUME NEW b \in Backends, NEW i \in Made(b)'
               PROVE  i <= breakers'[b]
    BY DEF LatestInMap
  <2>1. CASE b # b0
    BY <1>2, <1>5, <2>1, SettingsAssumption DEF IInv, LatestInMap, TypeOK
  <2>2. CASE b = b0
    <3>1. i \in 1 .. n BY <1>2, <1>3 DEF Made
    <3>2. breakers'[b] = n BY <1>1, <1>2, <2>2 DEF TypeOK
    <3> QED BY <1>3, <3>1, <3>2
  <2> QED BY <2>1, <2>2
<1>9. FewMade'
  <2> SUFFICES ASSUME NEW b \in Backends
               PROVE  Cardinality(Creating(b)') + Cardinality(Made(b)')
                          <= Cardinality(Threads)
    BY DEF FewMade
  <2>1. CASE b # b0 BY <1>5, <2>1, SettingsAssumption DEF IInv, FewMade
  <2>2. CASE b = b0
    <3>1. n \notin Made(b) BY <1>2 DEF Made
    <3>2. Cardinality(Made(b)') = Cardinality(Made(b)) + 1
      BY <1>1, <1>6, <2>2, <3>1, Finite, FS_AddElement
    <3>3. Cardinality(Creating(b)') = Cardinality(Creating(b)) - 1
      BY <1>1, <1>7, <2>2, Finite, FS_RemoveElement
    <3>4. /\ Cardinality(Creating(b)) + Cardinality(Made(b)) <= Cardinality(Threads)
          /\ Cardinality(Creating(b)) \in Nat /\ Cardinality(Made(b)) \in Nat
          /\ Cardinality(Threads) \in Nat
      BY <1>1, Finite DEF IInv, FewMade
    <3> QED BY <3>2, <3>3, <3>4
  <2> QED BY <2>1, <2>2
<1> QED BY <1>4, <1>8, <1>9 DEF IInv

LEMMA Inductive == IInv /\ [Next]_vars => IInv'
<1> SUFFICES ASSUME IInv, [Next]_vars PROVE IInv' OBVIOUS
<1>1. ASSUME NEW t \in Threads, Miss(t) \/ Create(t) PROVE IInv'
  BY <1>1, MissKeeps, CreateKeeps
<1>2. ASSUME NEW o \in Operators, Moves(o) \/ Apply(o) PROVE IInv'
  BY <1>2, MovesKeep, ApplyKeeps
<1>3. CASE Restart BY <1>3, RestartKeeps
<1>4. CASE UNCHANGED vars
  BY <1>4 DEF vars, settingsVars, managerVars, IInv, TypeOK, LatestInMap, FewMade,
              Made, Creating
<1> QED BY <1>1, <1>2, <1>3, <1>4 DEF Next, Moves

-------------------------------------------------------------------------------

(***************************************************************************)
(* Settings, saves under way, configurations and breakers are of their     *)
(* types, however saves overlap or fail and however often the server       *)
(* restarts; in particular no reload works on settings that are not there. *)
(***************************************************************************)
THEOREM TypeCorrect == Spec => []TypeOK
<1>1. IInv => TypeOK BY DEF IInv
<1> QED BY <1>1, Initially, Inductive, PTL DEF Spec

(***************************************************************************)
(* However many threads miss a backend's entry at a time, Get makes at     *)
(* most one breaker for each of them, and the one made last is the one in  *)
(* the map.                                                                *)
(***************************************************************************)
THEOREM GetRaceIsBounded == Spec => []RaceIsBounded
<1>1. IInv => RaceIsBounded
  <2> SUFFICES ASSUME IInv, NEW b \in Backends
               PROVE  /\ Cardinality(Made(b)) <= Cardinality(Threads)
                      /\ \A i \in Made(b) : i <= breakers[b]
    BY DEF RaceIsBounded, Made
  <2>1. /\ Cardinality(Creating(b)) + Cardinality(Made(b)) <= Cardinality(Threads)
        /\ Cardinality(Creating(b)) \in Nat /\ Cardinality(Made(b)) \in Nat
        /\ Cardinality(Threads) \in Nat
    BY Finite DEF IInv, FewMade
  <2> QED BY <2>1 DEF IInv, LatestInMap
<1> QED BY <1>1, Initially, Inductive, PTL DEF Spec

(***************************************************************************)
(* No save, be it partial, gives the manager a threshold of zero, so that  *)
(* a breaker made from now on can trip (UpdateConfig).                     *)
(***************************************************************************)
THEOREM ManagerCanTrip == Spec => []NewBreakersCanTrip
<1>1. Init => NewBreakersCanTrip
  BY ParamsBuilt DEF Init, NewBreakersCanTrip
<1>2. NewBreakersCanTrip /\ TypeOK /\ [Next]_vars => NewBreakersCanTrip'
  <2> SUFFICES ASSUME NewBreakersCanTrip, TypeOK, [Next]_vars PROVE NewBreakersCanTrip'
    OBVIOUS
  <2>1. CASE Restart BY <2>1, ParamsBuilt DEF Restart, NewBreakersCanTrip, TypeOK
  <2>2. ASSUME NEW o \in Operators, Apply(o) PROVE NewBreakersCanTrip'
    BY <2>2 DEF Apply, UpdateConfig, NewBreakersCanTrip
  <2>3. ASSUME UNCHANGED mconfig PROVE NewBreakersCanTrip'
    BY <2>3 DEF NewBreakersCanTrip
  <2>4. ASSUME NEW o \in Operators, Moves(o) PROVE NewBreakersCanTrip'
    BY <2>3, <2>4, MovesOnlySettings DEF managerVars
  <2> QED BY <2>1, <2>2, <2>3, <2>4
          DEF Next, Moves, vars, Miss, Create, managerVars
<1> QED BY <1>1, <1>2, TypeCorrect, PTL DEF Spec

-------------------------------------------------------------------------------
(* What a save that nothing overlaps has brought about so far. *)

(* Breakers, and the configuration of the next one, act as the settings    *)
(* say, if these are complete.                                             *)
Agrees == Complete(memory) =>
              /\ SameEffect(mconfig, Built(memory))
              /\ \A b \in Backends : breakers[b] # 0 =>
                    SameEffect(objs[breakers[b]].config, Built(memory))

OneAtATime == \A o, p \in Operators : op[o].at # "idle" /\ op[p].at # "idle" => o = p

Halfway(o) == /\ op[o].at = "write" => op[o].copy = memory
              /\ op[o].at \in {"reload", "apply"} => saved = memory
              /\ op[o].at = "apply" => op[o].copy = memory
              /\ op[o].at # "idle" /\ ~ op[o].with => Agrees

AllAtRest == \A o \in Operators : op[o].at = "idle"

InEffect == calm => /\ OneAtATime
                    /\ \A o \in Operators : Halfway(o)
                    /\ AllAtRest => memory = saved /\ Agrees

LEMMA SameEitherWay ==
  ASSUME NEW s \in Settings, Complete(s)
  PROVE  /\ SameEffect(Reloaded(s), Built(s)) /\ Reloaded(s).failureThreshold > 0
  BY SettingsAssumption
  DEF Complete, SameEffect, Reloaded, Built, OrDefault, DefaultConfig, Params

LEMMA AgreesAtStart ==
  ASSUME NEW s \in Settings, NEW c, c = Built(s) PROVE SameEffect(c, Built(s))
  BY DEF SameEffect, Built, DefaultConfig

LEMMA AgreesKept ==
  ASSUME TypeOK, UNCHANGED memory, Agrees,
         \/ UNCHANGED managerVars
         \/ \E t \in Threads : Create(t)
  PROVE  Agrees'
<1>1. CASE UNCHANGED managerVars
  BY <1>1 DEF Agrees, managerVars
<1>2. ASSUME NEW t \in Threads, Create(t) PROVE Agrees'
  <2> SUFFICES ASSUME Complete(memory)
               PROVE  /\ SameEffect(mconfig', Built(memory))
                      /\ \A b \in Backends : breakers'[b] # 0 =>
                            SameEffect(objs'[breakers'[b]].config, Built(memory))
    BY DEF Agrees
  <2>1. PICK b0 \in Backends, n \in Nat, new \in Breaker :
             /\ new.config = mconfig /\ n = Len(objs) + 1
             /\ DOMAIN objs = 1 .. Len(objs)
             /\ \A i \in DOMAIN objs : objs'[i] = objs[i]
             /\ objs'[n] = new
             /\ breakers' = [breakers EXCEPT ![b0] = n]
             /\ mconfig' = mconfig
    BY <1>2, Created
  <2>2. /\ SameEffect(mconfig, Built(memory))
        /\ \A b \in Backends : breakers[b] # 0 =>
              SameEffect(objs[breakers[b]].config, Built(memory))
    BY DEF Agrees
  <2>3. ASSUME NEW b \in Backends, breakers'[b] # 0
        PROVE  SameEffect(objs'[breakers'[b]].config, Built(memory))
    <3>1. CASE b = b0 BY <2>1, <2>2, <3>1 DEF TypeOK
    <3>2. CASE b # b0
      <4>1. breakers'[b] = breakers[b] BY <2>1, <3>2 DEF TypeOK
      <4>2. breakers[b] \in DOMAIN objs
        BY <2>1, <2>3, <4>1, Objects DEF TypeOK
      <4> QED BY <2>1, <2>2, <2>3, <4>1, <4>2
    <3> QED BY <3>1, <3>2
  <2> QED BY <2>1, <2>2, <2>3
<1> QED BY <1>1, <1>2

(* One step of the one save under way. *)
LEMMA SaveInEffect ==
  ASSUME TypeOK, InEffect, calm', NEW o \in Operators, Moves(o) \/ Apply(o)
  PROVE  InEffect'
<1> USE DEF TypeOK, Operation
<1>1. op[o] \in Operation /\ op \in [Operators -> Operation] OBVIOUS
(* It is enough to look at o: the others are idle. *)
<1>2. ASSUME \A p \in Operators \ {o} : op'[p].at = "idle",
             Halfway(o)', op'[o].at = "idle" => (memory = saved /\ Agrees)'
      PROVE  InEffect'
  <2>1. \A p \in Operators \ {o} : Halfway(p)' BY <1>2 DEF Halfway
  <2> QED BY <1>2, <2>1 DEF InEffect, OneAtATime, AllAtRest
<1>3. ASSUME calm, op[o].at # "idle", NEW n, op' = [op EXCEPT ![o] = n]
      PROVE  /\ \A p \in Operators \ {o} : op'[p].at = "idle"
             /\ op'[o] = n /\ Halfway(o)
  BY <1>3 DEF InEffect, OneAtATime
<1>4. ASSUME NEW s \in Settings, BeginSave(o, s) PROVE InEffect'
  <2>1. /\ memory' = s /\ Alone(o)
        /\ op' = [op EXCEPT ![o] = [at |-> "save", copy |-> Unset, with |-> s # Unset]]
    BY <1>4 DEF BeginSave
  <2>2. \A p \in Operators \ {o} : op'[p].at = "idle" BY <2>1 DEF Alone
  <2>3. op'[o] = [at |-> "save", copy |-> Unset, with |-> s # Unset] BY <2>1
  <2>4. op'[o].at = "save" /\ (~ op'[o].with => s = Unset)
    <3> DEFINE w == s # Unset
    <3>1. op'[o] = [at |-> "save", copy |-> Unset, with |-> w] BY <2>3
    <3>2. ~ w => s = Unset OBVIOUS
    <3> HIDE DEF w
    <3>3. op'[o].at = "save" /\ op'[o].with = w BY <3>1
    <3> QED BY <3>2, <3>3, Zenon
  <2>5. ~ op'[o].with => Agrees' BY <2>1, <2>4 DEF Agrees, Complete
  <2> QED BY <1>2, <2>2, <2>4, <2>5 DEF Halfway
<1>5. CASE BeginOther(o)
  <2>1. /\ calm /\ Alone(o) /\ op[o].at = "idle"
        /\ op' = [op EXCEPT ![o] = [at |-> "save", copy |-> Unset, with |-> FALSE]]
        /\ UNCHANGED <<memory, managerVars>>
    BY <1>5 DEF BeginOther
  <2>2. Agrees BY <2>1 DEF InEffect, AllAtRest, Alone
  <2>3. Agrees' BY <2>1, <2>2, AgreesKept
  <2>4. \A p \in Operators \ {o} : op'[p].at = "idle" BY <2>1 DEF Alone
  <2>5. op'[o].at = "save" BY <2>1
  <2> QED BY <1>2, <2>3, <2>4, <2>5 DEF Halfway
<1>6. CASE Capture(o)
  <2> DEFINE n == [op[o] EXCEPT !.at = "write", !.copy = memory]
  <2>1. calm /\ op[o].at = "save" /\ UNCHANGED <<memory, saved, managerVars>>
    BY <1>6 DEF Capture
  <2>2. op' = [op EXCEPT ![o] = n] BY <1>6 DEF Capture
  <2>3. /\ \A p \in Operators \ {o} : op'[p].at = "idle"
        /\ op'[o] = n /\ Halfway(o)
    BY <1>3, <2>1, <2>2
  <2>4. op'[o].at = "write" /\ op'[o].copy = memory /\ op'[o].with = op[o].with
    BY <1>1, <2>3
  <2>5. ~ op'[o].with => Agrees' BY <2>1, <2>3, <2>4, AgreesKept DEF Halfway
  <2> QED BY <1>2, <2>1, <2>3, <2>4, <2>5 DEF Halfway
<1>7. CASE Write(o)
  <2> DEFINE n == IF op[o].with THEN [op[o] EXCEPT !.at = "reload", !.copy = Unset]
                  ELSE Idle
  <2>1. /\ calm /\ op[o].at = "write" /\ UNCHANGED <<memory, managerVars>>
        /\ saved' = op[o].copy
    BY <1>7 DEF Write
  <2>2. op' = [op EXCEPT ![o] = n] BY <1>7 DEF Write
  <2>3. /\ \A p \in Operators \ {o} : op'[p].at = "idle"
        /\ op'[o] = n /\ Halfway(o)
    BY <1>3, <2>1, <2>2
  <2>4. saved' = memory' BY <2>1, <2>3 DEF Halfway
  <2>5. CASE op[o].with
    <3>1. op'[o].at = "reload" /\ op'[o].with BY <1>1, <2>3, <2>5
    <3> QED BY <1>2, <2>3, <2>4, <3>1 DEF Halfway
  <2>6. CASE ~ op[o].with
    <3>1. op'[o].at = "idle" BY <2>3, <2>6 DEF Idle
    <3>2. Agrees' BY <2>1, <2>3, <2>6, AgreesKept DEF Halfway
    <3> QED BY <1>2, <2>3, <2>4, <3>1, <3>2 DEF Halfway
  <2> QED BY <2>5, <2>6
<1>8. CASE ReadBack(o)
  <2> DEFINE n == IF memory = Unset THEN Idle
                  ELSE [op[o] EXCEPT !.at = "apply", !.copy = memory]
  <2>1. calm /\ op[o].at = "reload" /\ UNCHANGED <<memory, saved, managerVars>>
    BY <1>8 DEF ReadBack
  <2>2. op' = [op EXCEPT ![o] = n] BY <1>8 DEF ReadBack
  <2>3. /\ \A p \in Operators \ {o} : op'[p].at = "idle"
        /\ op'[o] = n /\ Halfway(o)
    BY <1>3, <2>1, <2>2
  <2>4. saved' = memory' BY <2>1, <2>3 DEF Halfway
  <2>5. CASE memory = Unset
    <3>1. op'[o].at = "idle" BY <2>3, <2>5 DEF Idle
    <3>2. Agrees' BY <2>1, <2>5 DEF Agrees, Complete
    <3> QED BY <1>2, <2>3, <2>4, <3>1, <3>2 DEF Halfway
  <2>6. CASE memory # Unset
    <3>1. /\ op'[o].at = "apply" /\ op'[o].copy = memory /\ op'[o].with = op[o].with
      BY <1>1, <2>3, <2>6
    <3>2. ~ op'[o].with => Agrees' BY <2>1, <2>3, <3>1, AgreesKept DEF Halfway
    <3> QED BY <1>2, <2>1, <2>3, <2>4, <3>1, <3>2 DEF Halfway
  <2> QED BY <2>5, <2>6
<1>9. CASE Apply(o)
  <2>1. /\ calm /\ op[o].at = "apply" /\ UNCHANGED <<memory, saved, breakers>>
        /\ op' = [op EXCEPT ![o] = Idle]
    BY <1>9 DEF Apply
  <2>2. /\ \A p \in Operators \ {o} : op'[p].at = "idle"
        /\ op'[o] = Idle /\ Halfway(o)
    BY <1>3, <2>1
  <2>3. op'[o].at = "idle" /\ saved = memory /\ op[o].copy = memory
    BY <2>1, <2>2 DEF Idle, Halfway
  <2>4. PICK c \in Config, w \in Nat \ {0} : c = Reloaded(memory) /\ UpdateConfig(c, w)
    BY <1>9, <2>3, Reload
  <2>5. \A b \in Backends : breakers[b] \in DOMAIN objs => objs'[breakers[b]].config = c
    BY <2>4, Updated
  <2>6. \A b \in Backends : breakers[b] # 0 => breakers[b] \in DOMAIN objs
    BY Objects
  <2>7. Agrees'
    <3> SUFFICES ASSUME Complete(memory)
                 PROVE  /\ SameEffect(mconfig', Built(memory))
                        /\ \A b \in Backends : breakers[b] # 0 =>
                              SameEffect(objs'[breakers[b]].config, Built(memory))
      BY <2>1 DEF Agrees
    <3>1. SameEffect(c, Built(memory)) /\ c.failureThreshold > 0
      BY <2>4, SameEitherWay
    <3>2. mconfig' = c BY <2>4, <3>1 DEF UpdateConfig
    <3> QED BY <2>5, <2>6, <3>1, <3>2
  <2> QED BY <1>2, <2>1, <2>2, <2>3, <2>7 DEF Halfway
<1>10. CASE WriteFails(o) BY <1>10 DEF WriteFails
<1> QED BY <1>4, <1>5, <1>6, <1>7, <1>8, <1>9, <1>10 DEF Moves

LEMMA EffectKept == IInv /\ InEffect /\ [Next]_vars => InEffect'
<1> SUFFICES ASSUME TypeOK, InEffect, [Next]_vars, calm' PROVE InEffect'
  BY DEF IInv, InEffect
<1>1. ASSUME NEW o \in Operators, Moves(o) \/ Apply(o) PROVE InEffect'
  BY <1>1, SaveInEffect
<1>2. ASSUME \/ UNCHANGED <<settingsVars, managerVars>>
             \/ \E t \in Threads : Create(t)
      PROVE  InEffect'
  <2>1. UNCHANGED <<memory, saved, op, calm>>
    BY <1>2 DEF Create, settingsVars
  <2>2. Agrees => Agrees' BY <1>2, <2>1, AgreesKept
  <2>3. \A o \in Operators : Halfway(o) => Halfway(o)' BY <2>1, <2>2 DEF Halfway
  <2> QED BY <2>1, <2>2, <2>3 DEF InEffect, OneAtATime, AllAtRest
<1>3. CASE Restart
  <2>1. /\ saved \in Settings /\ saved' = saved /\ memory' = saved
        /\ \A o \in Operators : op'[o].at = "idle"
        /\ mconfig' = Built(saved) /\ \A b \in Backends : breakers'[b] = 0
    BY <1>3 DEF Restart, TypeOK, NoOperation, Idle, NoBreakers
  <2>2. Agrees' BY <2>1, AgreesAtStart DEF Agrees
  <2> QED BY <2>1, <2>2 DEF InEffect, OneAtATime, Halfway, AllAtRest
<1> QED BY <1>1, <1>2, <1>3 DEF Next, Moves, vars, Miss

(***************************************************************************)
(* Once a save that did not fail and that no other save ran beside is      *)
(* over, memory and database agree, and with complete settings every       *)
(* breaker in use acts, and the next one made will, as after a restart:    *)
(* for any number of threads that make breakers meanwhile and whatever     *)
(* overlapping, failed or partial saves went before (updateConfig,         *)
(* hotReloadCircuitBreaker, buildCircuitBreakerManager).                   *)
(***************************************************************************)
THEOREM CompleteSavesTakeEffect == Spec => []SaveTakesEffect
<1>1. Init => InEffect
  <2> SUFFICES ASSUME Init PROVE InEffect OBVIOUS
  <2>1. /\ memory \in Settings /\ saved = memory /\ mconfig = Built(memory)
        /\ \A o \in Operators : op[o].at = "idle"
        /\ \A b \in Backends : breakers[b] = 0
    BY DEF Init, NoOperation, Idle, NoBreakers
  <2>2. Agrees BY <2>1, AgreesAtStart DEF Agrees
  <2> QED BY <2>1, <2>2 DEF InEffect, OneAtATime, Halfway, AllAtRest
<1>2. IInv /\ InEffect /\ [Next]_vars => InEffect' BY EffectKept
<1>3. InEffect => SaveTakesEffect
  BY DEF InEffect, AllAtRest, Agrees, SaveTakesEffect, Quiet
<1> QED BY <1>1, <1>2, <1>3, Initially, Inductive, PTL DEF Spec
===============================================================================
