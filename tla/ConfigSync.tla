------------------------------ MODULE ConfigSync ------------------------------
(***************************************************************************)
(* The configuration that is published for all installations, pulled by    *)
(* ConfigScheduler: a sync fetches the parts of a document one request     *)
(* after the other, rejects a batch with an invalid row, writes what it    *)
(* has to the snapshot file and hands it to the appliers.  The mirrors     *)
(* need not publish the same document, and each request of a sync may be   *)
(* answered by another one.                                                *)
(*                                                                         *)
(* A document is a number; a snapshot says of which document each of its   *)
(* parts is, 0 for a part it has not got.  A store says of each row from   *)
(* which document it has it.  The appliers add and replace the rows that   *)
(* are enabled; a row that a later document disables or no longer has      *)
(* stays in the stores as it was.                                          *)
(***************************************************************************)
EXTENDS Naturals, Sequences, FiniteSets

CONSTANTS Callers,      \* the scheduler's own loop and the handlers that sync
          Mirrors,
          Rows,         \* the rows and prices that documents may have
          Kind,         \* row -> what it configures
          Manual,       \* prices the operator has set by hand
          Documents,    \* the parts each has rows in, the rows it enables in
                        \* them, and whether its rows are valid
          Fetches,      \* the parts each request asks for, in order
          Cut,          \* what is left of a file whose writing was cut short
          MaxFailures,  \* bound: requests, writes and appliers that fail
          MaxRestarts   \* bound

ASSUME BoundsAssumption == MaxFailures \in Nat /\ MaxRestarts \in Nat

Parts == {"config", "prices", "backends", "templates"}

(* The part of a document in which rows of a kind are. *)
Home == [rules |-> "config", feature |-> "config", price |-> "prices",
         backend |-> "backends", template |-> "templates"]
PartOf == [r \in Rows |-> Home[Kind[r]]]

ASSUME RowsAssumption == Kind \in [Rows -> DOMAIN Home] /\ Manual \subseteq Rows

ASSUME DocumentsAssumption ==
  /\ Documents \in Seq([parts : SUBSET Parts, on : SUBSET Rows, valid : BOOLEAN])
  /\ Len(Documents) > 0
  /\ \A d \in 1 .. Len(Documents) : \A r \in Documents[d].on : PartOf[r] \in Documents[d].parts
  /\ Fetches \in Seq(SUBSET Parts) /\ Len(Fetches) > 0

(* What the appliers keep, in the order they are called, and the kinds of
   rows they take.  The catalog, the rules and the features are in memory. *)
Stores == <<"catalog", "prices", "rules", "features", "database", "templates">>
Source == [catalog |-> {"backend"}, prices |-> {"price"}, rules |-> {"rules"},
           features |-> {"feature"}, database |-> {"rules", "feature", "backend"},
           templates |-> {"template"}]
Volatile == {"catalog", "rules", "features"}
MayFail == {"prices", "database", "templates"}
StoreNames == DOMAIN Source

(* The rows an applier takes; prices set by hand are left alone. *)
Takes ==
  [s \in StoreNames |->
     {r \in Rows : Kind[r] \in Source[s] /\ ~ (s = "prices" /\ r \in Manual)}]

VARIABLES mirror,    \* mirror -> the document it publishes
          snap,      \* s.snap
          disk,      \* the snapshot file
          stores,    \* applier -> row -> the document it was in, 0 for none
          syncing,
          step,      \* caller -> where its sync is
          draft,     \* caller -> what it has fetched
          failures, restarts,
          behind     \* stores, and the file, that have missed the last
                     \* snapshot: it failed or the process ended (history)

vars == <<mirror, snap, disk, stores, syncing, step, draft, failures, restarts, behind>>

Versions == 1 .. Len(Documents)
Snapshots == [Parts -> Versions \cup {0}]
Nothing == [p \in Parts |-> 0]
Tables == [Rows -> Versions \cup {0}]
Empty == [r \in Rows |-> 0]

(* The rows of the snapshot b that an applier is to have. *)
On(b, s) == {r \in Takes[s] : b[PartOf[r]] # 0 /\ r \in Documents[b[PartOf[r]]].on}

ASSUME CutAssumption == Cut \notin Snapshots

Steps == [do : {"idle", "write", "note"}, n : {0}]
           \cup [do : {"fetch"}, n : 1 .. Len(Fetches)]
           \cup [do : {"apply"}, n : 1 .. Len(Stores)]
Idle == [do |-> "idle", n |-> 0]

TypeOK == /\ mirror \in [Mirrors -> Versions]
          /\ snap \in Snapshots
          /\ disk \in Snapshots \cup {Cut}
          /\ stores \in [StoreNames -> Tables]
          /\ syncing \in BOOLEAN
          /\ step \in [Callers -> Steps]
          /\ draft \in [Callers -> Snapshots]
          /\ failures \in 0 .. MaxFailures
          /\ restarts \in 0 .. MaxRestarts
          /\ behind \subseteq StoreNames \cup {"file"}

Init == /\ mirror = [m \in Mirrors |-> 1]
        /\ snap = Nothing
        /\ disk = Nothing
        /\ stores = [s \in StoreNames |-> Empty]
        /\ syncing = FALSE
        /\ step = [c \in Callers |-> Idle]
        /\ draft = [c \in Callers |-> Nothing]
        /\ failures = 0
        /\ restarts = 0
        /\ behind = {}

-------------------------------------------------------------------------------

Fails == failures < MaxFailures /\ failures' = failures + 1

(* SyncNow's deferred function. *)
Leave(c) == /\ syncing' = FALSE
            /\ step' = [step EXCEPT ![c] = Idle]
            /\ draft' = [draft EXCEPT ![c] = Nothing]

(* Fault: two callers may sync at a time. *)
BeginFault(c) ==
  /\ step[c] = Idle
  /\ syncing' = TRUE
  /\ step' = [step EXCEPT ![c] = [do |-> "fetch", n |-> 1]]
  /\ UNCHANGED <<mirror, snap, disk, stores, draft, failures, restarts, behind>>

(* SyncNow; a caller that finds a sync under way is told so. *)
Begin(c) ==
  /\ step[c] = Idle /\ ~ syncing
  /\ syncing' = TRUE
  /\ step' = [step EXCEPT ![c] = [do |-> "fetch", n |-> 1]]
  /\ UNCHANGED <<mirror, snap, disk, stores, draft, failures, restarts, behind>>

(* Fault: only the rows of the first request are looked at. *)
RejectedFault(b) ==
  \E p \in Fetches[1] \ {"templates"} : b[p] # 0 /\ ~ Documents[b[p]].valid

(* The rows and prices; templates are not looked at. *)
Rejected(b) == \E p \in Parts \ {"templates"} : b[p] # 0 /\ ~ Documents[b[p]].valid

(* A batch that is all fetched: rejected, nothing to do, or to be kept. *)
Judge(c, b) ==
  /\ draft' = [draft EXCEPT ![c] = IF Rejected(b) \/ b = Nothing THEN Nothing ELSE b]
  /\ IF Rejected(b) \/ b = Nothing
       THEN syncing' = FALSE /\ step' = [step EXCEPT ![c] = Idle]
       ELSE syncing' = syncing /\ step' = [step EXCEPT ![c] = [do |-> "write", n |-> 0]]

(* Go on with the batch b after request n. *)
Proceed(c, n, b) ==
  IF n < Len(Fetches)
    THEN /\ draft' = [draft EXCEPT ![c] = b]
         /\ step' = [step EXCEPT ![c] = [do |-> "fetch", n |-> n + 1]]
         /\ syncing' = syncing
    ELSE Judge(c, b)

(* One request, answered by whichever mirror was the first to. *)
Fetch(c) ==
  LET n == step[c].n IN
  /\ step[c].do = "fetch"
  /\ \E m \in Mirrors :
       LET d == mirror[m] IN
       Proceed(c, n, [p \in Parts |-> IF p \in Fetches[n] /\ p \in Documents[d].parts
                                        THEN d ELSE draft[c][p]])
  /\ UNCHANGED <<mirror, snap, disk, stores, failures, restarts, behind>>

(* No mirror answers: the sync ends when it was the first request, and goes
   on without these parts otherwise. *)
FetchFails(c) ==
  LET n == step[c].n IN
  /\ step[c].do = "fetch"
  /\ Fails
  /\ IF n = 1 THEN Leave(c) ELSE Proceed(c, n, draft[c])
  /\ UNCHANGED <<mirror, snap, disk, stores, restarts, behind>>

(* WriteSnapshot; that it failed is not held against the sync. *)
Write(c) ==
  /\ step[c].do = "write"
  /\ \/ disk' = draft[c] /\ behind' = behind \ {"file"} /\ UNCHANGED failures
     \/ Fails /\ disk' \in {disk, Cut} /\ behind' = behind \cup {"file"}
  /\ step' = [step EXCEPT ![c] = [do |-> "note", n |-> 0]]
  /\ UNCHANGED <<mirror, snap, stores, syncing, draft, restarts>>

(* Fault: parts that were not fetched are kept in memory only. *)
NoteFault(c) ==
  /\ step[c].do = "note"
  /\ snap' = [p \in Parts |-> IF draft[c][p] = 0 THEN snap[p] ELSE draft[c][p]]
  /\ step' = [step EXCEPT ![c] = [do |-> "apply", n |-> 1]]
  /\ UNCHANGED <<mirror, disk, stores, syncing, draft, failures, restarts, behind>>

(* The new snapshot is the scheduler's, and its status says success. *)
Note(c) ==
  /\ step[c].do = "note"
  /\ snap' = draft[c]
  /\ step' = [step EXCEPT ![c] = [do |-> "apply", n |-> 1]]
  /\ UNCHANGED <<mirror, disk, stores, syncing, draft, failures, restarts, behind>>

(* The store of s with these rows of the snapshot b added or replaced. *)
Upsert(s, rows, b) ==
  [r \in Rows |-> IF r \in rows THEN b[PartOf[r]] ELSE stores[s][r]]

(* The rules in force, old or new, are also written to the database. *)
WithRules(table) ==
  [r \in Rows |-> IF Kind[r] = "rules" /\ table[r] # 0 THEN table[r]
                                                       ELSE stores["database"][r]]

After(s, rows, b, saved) ==
  [z \in StoreNames |->
     IF z = s THEN Upsert(s, rows, b)
     ELSE IF z = "database" /\ s = "rules" /\ saved THEN WithRules(Upsert(s, rows, b))
     ELSE stores[z]]

GoOn(c) == IF step[c].n < Len(Stores)
             THEN /\ step' = [step EXCEPT ![c] = [do |-> "apply", n |-> step[c].n + 1]]
                  /\ UNCHANGED <<syncing, draft>>
             ELSE Leave(c)

(* Fault: rows that are there already are not replaced. *)
ApplyFault(c) ==
  LET s == Stores[step[c].n] IN
  /\ step[c].do = "apply"
  /\ stores' = After(s, {r \in On(draft[c], s) : stores[s][r] = 0}, draft[c], TRUE)
  /\ GoOn(c)
  /\ UNCHANGED <<mirror, snap, disk, failures, restarts, behind>>

(* onUpdate, one applier after the other.  An applier that may fail has done
   it for some of the rows: prices end with the first error, the database and
   the templates leave out the rows it hits. *)
Apply(c) ==
  LET s == Stores[step[c].n]
      b == draft[c]
  IN
  /\ step[c].do = "apply"
  /\ \/ /\ stores' = After(s, On(b, s), b, TRUE)
        /\ behind' = behind \ {s}
        /\ UNCHANGED failures
     \/ /\ s \in MayFail
        /\ \E rows \in (SUBSET On(b, s)) \ {On(b, s)} : stores' = After(s, rows, b, TRUE)
        /\ behind' = behind \cup {s}
        /\ Fails
     \/ /\ s = "rules"
        /\ stores' = After(s, On(b, s), b, FALSE)
        /\ behind' = behind \ {s}
        /\ Fails
  /\ GoOn(c)
  /\ UNCHANGED <<mirror, snap, disk, restarts>>

-------------------------------------------------------------------------------

Publish(m) == /\ mirror[m] < Len(Documents)
              /\ mirror' = [mirror EXCEPT ![m] = @ + 1]
              /\ UNCHANGED <<snap, disk, stores, syncing, step, draft, failures,
                             restarts, behind>>

(* The process ends at any moment, while it writes the file as well, and
   starts again: the scheduler reads the file, and the features are those of
   the database; nothing else is filled from either. *)
Restart ==
  /\ restarts < MaxRestarts
  /\ restarts' = restarts + 1
  /\ disk' \in {disk} \cup {Cut : c \in {x \in Callers : step[x].do = "write"}}
  /\ snap' = IF disk' = Cut THEN Nothing ELSE disk'
  /\ stores' = [s \in StoreNames |-> IF s = "features" THEN stores["database"]
                                     ELSE IF s \in Volatile THEN Empty ELSE stores[s]]
  /\ behind' = StoreNames
  /\ syncing' = FALSE
  /\ step' = [c \in Callers |-> Idle]
  /\ draft' = [c \in Callers |-> Nothing]
  /\ UNCHANGED <<mirror, failures>>

Step(c) == Fetch(c) \/ FetchFails(c) \/ Write(c) \/ Note(c) \/ Apply(c)

Next == \/ \E c \in Callers : Begin(c) \/ Step(c)
        \/ \E m \in Mirrors : Publish(m)
        \/ Restart

(* The loop syncs for ever, a request has a timeout and ends, and mirrors are
   brought up to date. *)
Fairness == /\ WF_vars(\E c \in Callers : Begin(c))
            /\ \A c \in Callers : WF_vars(Step(c))
            /\ \A m \in Mirrors : WF_vars(Publish(m))

Spec == Init /\ [][Next]_vars /\ Fairness

-------------------------------------------------------------------------------
(* Properties *)

(* No row or price of an invalid batch is ever in effect, in the file or in  *)
(* an applier's store, whichever request it came with, and none that was      *)
(* disabled in the document it came from.                                     *)
Sound(v) == v # 0 => Documents[v].valid
SoundRow(v, r) == v # 0 => Documents[v].valid /\ r \in Documents[v].on
OnlyValidRows ==
  /\ \A p \in Parts \ {"templates"} : Sound(snap[p]) /\ (disk # Cut => Sound(disk[p]))
  /\ \A s \in StoreNames \ {"templates"}, r \in Rows : SoundRow(stores[s][r], r)

(* Between syncs every applier has each row that the snapshot in effect       *)
(* enables as the snapshot has it, unless the applier failed or the process   *)
(* was started since: no sync's appliers run between those of another.  It    *)
(* says nothing of rows the snapshot does not enable: what an earlier         *)
(* document said of them stays.                                               *)
StoresFollow ==
  ~ syncing => \A s \in StoreNames \ behind :
                  \A r \in On(snap, s) : stores[s][r] = snap[PartOf[r]]

(* Between syncs the file is the snapshot in effect, so that a restart keeps  *)
(* it; only a write that failed or was cut short makes a difference.          *)
FileFollows ==
  ~ syncing /\ "file" \notin behind => disk = snap \/ (disk = Cut /\ snap = Nothing)

(* With the loop polling, every row that the last document enables reaches    *)
(* the appliers that take it in the end, whatever failed before and however   *)
(* the process was restarted.                                                 *)
CatchesUp == <>[](\A s \in StoreNames : \A r \in Takes[s] :
                     r \in Documents[Len(Documents)].on =>
                         stores[s][r] = Len(Documents))

===============================================================================
