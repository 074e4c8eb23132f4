------------------------------ MODULE ExactCache ------------------------------
(***************************************************************************)
(* The exact-match answer cache: a map in memory in front of a key-value   *)
(* store.  Set and Delete change the map under the lock and the store in a *)
(* goroutine of their own, so that the store's changes may run in any      *)
(* order or fail; a Get that misses the map reads the store and puts what  *)
(* it found into the map, letting go of the lock in between.               *)
(*                                                                         *)
(* An entry is the number of the Set that wrote it, which is also its      *)
(* Timestamp; that it is past its ExpiresAt is a set of such numbers.      *)
(***************************************************************************)
EXTENDS Naturals, FiniteSets

CONSTANTS Keys,
          Readers,   \* Gets that may be under way at a time
          MaxSize,   \* entries the map may hold, 0 for no limit
          MaxOps     \* bound: Sets and Deletes in a behaviour

ASSUME SizesAssumption == MaxSize \in Nat /\ MaxOps \in Nat
ASSUME KeysAssumption == IsFiniteSet(Keys)

VARIABLES mem,      \* c.entries: key -> the entry, 0 for none
          store,    \* the key-value store: likewise
          expired,  \* the entries whose time is over
          ops,      \* Sets and Deletes so far
          tasks,    \* the goroutines that still have to change the store
          get,      \* reader -> where its Get is
          newest,   \* key -> the last entry set, 0 if removed since (history)
          calm,     \* keys whose last change nothing overlapped (history)
          loads     \* Gets that have put an entry into the map, as many as
                    \* there are keys at most (history)

history == <<newest, calm, loads>>
vars == <<mem, store, expired, ops, tasks, get, history>>

Entries == 1 .. MaxOps
None == 0
Idle == [at |-> "idle"]
Gets == {Idle} \cup [at : {"load"}, key : Keys]
               \cup [at : {"insert", "purge", "found", "erase"}, key : Keys, entry : Entries]

TypeOK == /\ mem \in [Keys -> Entries \cup {None}]
          /\ store \in [Keys -> Entries \cup {None}]
          /\ expired \subseteq Entries
          /\ ops \in Entries \cup {0}
          /\ tasks \subseteq [id : Entries, key : Keys, sets : BOOLEAN]
          /\ get \in [Readers -> Gets]
          /\ newest \in [Keys -> Entries \cup {None}]
          /\ calm \subseteq Keys
          /\ loads \in Nat

Init == /\ mem = [k \in Keys |-> None]
        /\ store = [k \in Keys |-> None]
        /\ expired = {}
        /\ ops = 0
        /\ tasks = {}
        /\ get = [r \in Readers |-> Idle]
        /\ newest = [k \in Keys |-> None]
        /\ calm = Keys
        /\ loads = 0

-------------------------------------------------------------------------------

Held(m) == {k \in Keys : m[k] # None}
Pending(k) == {t \in tasks : t.key = k}
Reading(k) == {r \in Readers : get[r] # Idle /\ get[r].key = k}

(* evictOldest: without the entry that was set first. *)
WithoutOldest(m) ==
  {[m EXCEPT ![o] = None] : o \in {k \in Held(m) : \A j \in Held(m) : m[k] <= m[j]}}

(* Fault: the entry is put in and the oldest one left where it is. *)
RoomFault(m) == {m}

(* The maps with room for one more, as Set makes it; the key it is about to
   replace counts as one of those that are there. *)
Room(m) == IF MaxSize > 0 /\ Cardinality(Held(m)) >= MaxSize THEN WithoutOldest(m) ELSE {m}

(* Fault: Delete leaves the store alone. *)
ChangeFault(k, sets) ==
  /\ ops < MaxOps
  /\ ops' = ops + 1
  /\ tasks' = IF sets THEN tasks \cup {[id |-> ops + 1, key |-> k, sets |-> sets]} ELSE tasks
  /\ newest' = [newest EXCEPT ![k] = IF sets THEN ops + 1 ELSE None]
  /\ calm' = IF Pending(k) = {} /\ Reading(k) = {} THEN calm \cup {k} ELSE calm \ {k}
  /\ UNCHANGED <<store, expired, get, loads>>

(* The store is told of a key's change in a goroutine of its own. *)
Change(k, sets) ==
  /\ ops < MaxOps
  /\ ops' = ops + 1
  /\ tasks' = tasks \cup {[id |-> ops + 1, key |-> k, sets |-> sets]}
  /\ newest' = [newest EXCEPT ![k] = IF sets THEN ops + 1 ELSE None]
  /\ calm' = IF Pending(k) = {} /\ Reading(k) = {} THEN calm \cup {k} ELSE calm \ {k}
  /\ UNCHANGED <<store, expired, get, loads>>

Set(k) == /\ \E m \in Room(mem) : mem' = [m EXCEPT ![k] = ops + 1]
          /\ Change(k, TRUE)

Delete(k) == /\ mem' = [mem EXCEPT ![k] = None]
             /\ Change(k, FALSE)

(* Clear empties the map and the store under the lock; that the store failed
   is only logged.  The goroutines that are under way are not called back. *)
Clear(flushed) ==
  /\ mem' = [k \in Keys |-> None]
  /\ store' = IF flushed THEN [k \in Keys |-> None] ELSE store
  /\ newest' = [k \in Keys |-> None]
  /\ calm' = {k \in Keys : flushed /\ Pending(k) = {} /\ Reading(k) = {}}
  /\ loads' = 0
  /\ UNCHANGED <<expired, ops, tasks, get>>

(* A goroutine's change reaches the store, or fails and is only logged. *)
Persist(t) == /\ store' = [store EXCEPT ![t.key] = IF t.sets THEN t.id ELSE None]
              /\ tasks' = tasks \ {t}
              /\ UNCHANGED <<mem, expired, ops, get, history>>

PersistFails(t) == /\ tasks' = tasks \ {t}
                   /\ calm' = calm \ {t.key}
                   /\ UNCHANGED <<mem, store, expired, ops, get, newest, loads>>

(* Fault: the entry's time is compared the wrong way round. *)
CleanupFault == /\ \E k \in Keys : mem[k] \in expired
                /\ mem' = [k \in Keys |-> IF mem[k] \in expired THEN mem[k] ELSE None]
                /\ UNCHANGED <<store, expired, ops, tasks, get, history>>

(* The cleanup loop. *)
Cleanup == /\ \E k \in Keys : mem[k] \in expired
           /\ mem' = [k \in Keys |-> IF mem[k] \in expired THEN None ELSE mem[k]]
           /\ UNCHANGED <<store, expired, ops, tasks, get, history>>

-------------------------------------------------------------------------------
(* Get, step by step. *)

Begin(r, k) ==
  /\ get[r] = Idle
  /\ get' = [get EXCEPT ![r] = IF mem[k] # None
                                 THEN [at |-> "found", key |-> k, entry |-> mem[k]]
                                 ELSE [at |-> "load", key |-> k]]
  /\ calm' = IF mem[k] = None /\ Pending(k) # {} THEN calm \ {k} ELSE calm
  /\ UNCHANGED <<mem, store, expired, ops, tasks, newest, loads>>

(* Fault: that the store has nothing is taken for an entry. *)
LoadFault(r) ==
  LET k == get[r].key IN
  /\ get[r].at = "load"
  /\ get' = [get EXCEPT ![r] =
       [at |-> IF store[k] \in expired THEN "purge" ELSE "insert",
        key |-> k, entry |-> store[k]]]
  /\ UNCHANGED <<mem, store, expired, ops, tasks, history>>

(* The store's answer: nothing, an entry to keep or one to remove. *)
Load(r) ==
  LET k == get[r].key IN
  /\ get[r].at = "load"
  /\ get' = [get EXCEPT ![r] =
       IF store[k] = None THEN Idle
       ELSE [at |-> IF store[k] \in expired THEN "purge" ELSE "insert",
             key |-> k, entry |-> store[k]]]
  /\ UNCHANGED <<mem, store, expired, ops, tasks, history>>

LoadFails(r) == /\ get[r].at = "load"
                /\ get' = [get EXCEPT ![r] = Idle]
                /\ UNCHANGED <<mem, store, expired, ops, tasks, history>>

(* What was loaded goes into the map, whatever is there by now and however
   full it is. *)
Insert(r) ==
  /\ get[r].at = "insert"
  /\ mem' = [mem EXCEPT ![get[r].key] = get[r].entry]
  /\ get' = [get EXCEPT ![r].at = "found"]
  /\ loads' = IF loads < Cardinality(Keys) THEN loads + 1 ELSE loads
  /\ UNCHANGED <<store, expired, ops, tasks, newest, calm>>

Hit(r) == /\ get[r].at = "found" /\ get[r].entry \notin expired
          /\ get' = [get EXCEPT ![r] = Idle]
          /\ UNCHANGED <<mem, store, expired, ops, tasks, history>>

(* An entry past its time is taken out of the map and then out of the store,
   whatever either holds by then. *)
Forget(r) == /\ get[r].at = "found" /\ get[r].entry \in expired
             /\ mem' = [mem EXCEPT ![get[r].key] = None]
             /\ get' = [get EXCEPT ![r].at = "erase"]
             /\ UNCHANGED <<store, expired, ops, tasks, history>>

Erase(r) == /\ get[r].at \in {"purge", "erase"}
            /\ \/ store' = [store EXCEPT ![get[r].key] = None]
               \/ UNCHANGED store
            /\ get' = [get EXCEPT ![r] = Idle]
            /\ UNCHANGED <<mem, expired, ops, tasks, history>>

-------------------------------------------------------------------------------

Expire(e) == /\ e \in (1 .. ops) \ expired
             /\ expired' = expired \cup {e}
             /\ UNCHANGED <<mem, store, ops, tasks, get, history>>

(* The store keeps the time of an entry as well and drops it by itself. *)
StoreDrops(k) == /\ store[k] \in expired
                 /\ store' = [store EXCEPT ![k] = None]
                 /\ UNCHANGED <<mem, expired, ops, tasks, get, history>>

(* The process ends and starts again over the same store. *)
Restart == /\ mem' = [k \in Keys |-> None]
           /\ tasks' = {}
           /\ get' = [r \in Readers |-> Idle]
           /\ calm' = {k \in calm : Pending(k) = {}}
           /\ loads' = 0
           /\ UNCHANGED <<store, expired, ops, newest>>

Next == \/ \E k \in Keys : Set(k) \/ Delete(k) \/ StoreDrops(k)
        \/ \E flushed \in BOOLEAN : Clear(flushed)
        \/ \E t \in tasks : Persist(t) \/ PersistFails(t)
        \/ \E r \in Readers, k \in Keys : Begin(r, k)
        \/ \E r \in Readers : \/ Load(r) \/ LoadFails(r) \/ Insert(r)
                              \/ Hit(r) \/ Forget(r) \/ Erase(r)
        \/ \E e \in Entries : Expire(e)
        \/ Cleanup
        \/ Restart

(* The cleanup loop runs on a ticker for as long as the process does; a Get
   is a call that goes on by itself. *)
Fairness == /\ WF_vars(Cleanup)
            /\ \A r \in Readers : WF_vars(\/ Load(r) \/ LoadFails(r) \/ Insert(r)
                                          \/ Hit(r) \/ Forget(r) \/ Erase(r))

Spec == Init /\ [][Next]_vars /\ Fairness

-------------------------------------------------------------------------------
(* Properties *)

(* A change that nothing overlapped takes effect: from then on the map, what *)
(* a Get has loaded and, once the goroutine is through, the store hold the   *)
(* entry that was set last or none; a deleted key is not found again.  (Two  *)
(* changes whose goroutines overtake each other, or a Get that reads the     *)
(* store before the goroutine has changed it, do bring old entries back.)    *)
CalmChangesHold ==
  \A k \in calm :
    /\ mem[k] \in {None, newest[k]}
    /\ Pending(k) = {} => store[k] \in {None, newest[k]}
    /\ \A r \in Reading(k) : get[r].at \in {"insert", "found"} =>
                                   get[r].entry = newest[k]

(* Beyond MaxSize the map holds no more entries than Gets have loaded since  *)
(* the last start: Set never adds one without removing one, though Insert    *)
(* does.                                                                     *)
SizeBounded == MaxSize > 0 => Cardinality(Held(mem)) <= MaxSize + loads

(* An entry past its time does not stay in memory: the cleanup loop removes  *)
(* it, also one a slow Get has put back.                                     *)
ExpiredLeaves ==
  \A k \in Keys, e \in Entries : (mem[k] = e /\ e \in expired) ~> (mem[k] # e)

===============================================================================
