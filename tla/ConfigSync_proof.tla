--------------------------- MODULE ConfigSync_proof ---------------------------
(***************************************************************************)
(* For any documents, requests, mirrors and callers, any number of         *)
(* failures and restarts: invalid and disabled rows never come into        *)
(* effect; between syncs the appliers have the rows that the snapshot      *)
(* enables, and the file is the snapshot; every sync ends; and one that    *)
(* nothing disturbs brings all the rows that are enabled, to stay.         *)
(***************************************************************************)
EXTENDS ConfigSync, TLAPS

Types == /\ mirror \in [Mirrors -> Versions]
         /\ snap \in Snapshots
         /\ disk \in Snapshots \cup {Cut}
         /\ stores \in [StoreNames -> Tables]
         /\ syncing \in BOOLEAN
         /\ step \in [Callers -> Steps]
         /\ draft \in [Callers -> Snapshots]

(* One sync at a time. *)
Alone == /\ \A c \in Callers : step[c] # Idle => syncing
         /\ \A c, e \in Callers : step[c] # Idle /\ step[e] # Idle => c = e

Kept == {"write", "note", "apply"}

(* What is being kept has been judged. *)
Judged == \A c \in Callers : step[c].do \in Kept => ~ Rejected(draft[c])

Follows(s) == s \notin behind => \A r \in On(snap, s) : stores[s][r] = snap[PartOf[r]]

(* The appliers a sync has not come to yet have what the former one enabled; *)
(* before it has replaced the snapshot that is all of them.                  *)
Following ==
  /\ ~ syncing => \A s \in StoreNames : Follows(s)
  /\ \A c \in Callers : /\ step[c].do \in {"fetch", "write", "note"} =>
                                \A s \in StoreNames : Follows(s)
                        /\ step[c].do = "apply" =>
                                /\ snap = draft[c]
                                /\ \A i \in 1 .. (step[c].n - 1) : Follows(Stores[i])

Filed == "file" \notin behind => disk = snap \/ (disk = Cut /\ snap = Nothing)

(* The file runs ahead of the snapshot from the write to the note. *)
Filing ==
  /\ ~ syncing => Filed
  /\ \A c \in Callers : /\ step[c].do \in {"fetch", "write", "apply"} => Filed
                        /\ step[c].do = "note" /\ "file" \notin behind => disk = draft[c]

IInv == /\ Types
        /\ Alone
        /\ Judged
        /\ OnlyValidRows
        /\ Following
        /\ Filing

-------------------------------------------------------------------------------
(* Lemmas *)

LEMMA StoreFacts ==
  /\ Len(Stores) = 6
  /\ \A i \in 1 .. 6 : Stores[i] \in StoreNames
  /\ \A s \in StoreNames : \E i \in 1 .. 6 : Stores[i] = s
  /\ \A i, j \in 1 .. 6 : i < j => /\ Stores[i] # Stores[j]
                                  /\ (Stores[j] = "rules" => Stores[i] # "database")
  /\ "rules" \in StoreNames /\ "database" \in StoreNames
  /\ Volatile \subseteq StoreNames /\ "file" \notin StoreNames
<1>1. StoreNames = {"catalog", "prices", "rules", "features", "database", "templates"}
  BY DEF StoreNames, Source
<1>2. Len(Stores) = 6
  BY DEF Stores
<1>3. /\ Stores[1] = "catalog" /\ Stores[2] = "prices" /\ Stores[3] = "rules"
      /\ Stores[4] = "features" /\ Stores[5] = "database" /\ Stores[6] = "templates"
  BY DEF Stores
<1>4. ASSUME NEW i \in 1 .. 6 PROVE Stores[i] \in StoreNames
  BY <1>1, <1>3
<1>5. ASSUME NEW i \in 1 .. 6, NEW j \in 1 .. 6, i < j
      PROVE  Stores[i] # Stores[j] /\ (Stores[j] = "rules" => Stores[i] # "database")
  BY <1>3, <1>5
<1>6. ASSUME NEW s \in StoreNames PROVE \E i \in 1 .. 6 : Stores[i] = s
  BY <1>1, <1>3
<1>7. /\ Volatile \subseteq StoreNames /\ "file" \notin StoreNames
      /\ "rules" \in StoreNames /\ "database" \in StoreNames
  BY <1>1 DEF Volatile
<1> QED BY <1>2, <1>4, <1>5, <1>6, <1>7

LEMMA RowFacts ==
  /\ \A r \in Rows : PartOf[r] \in Parts
  /\ \A s \in StoreNames : Takes[s] = {r \in Rows : /\ Kind[r] \in Source[s]
                                                  /\ ~ (s = "prices" /\ r \in Manual)}
  /\ \A s \in StoreNames \ {"templates"} : \A r \in Takes[s] : PartOf[r] # "templates"
  /\ \A r \in Rows : Kind[r] = "rules" => r \in Takes["rules"]
<1> DEFINE Kinds == {"rules", "feature", "price", "backend", "template"}
<1>1. DOMAIN Home = Kinds
  BY DEF Home
<1>2. StoreNames = {"catalog", "prices", "rules", "features", "database", "templates"}
  BY DEF StoreNames, Source
<1>3. \A k \in Kinds : /\ Home[k] \in Parts
                      /\ (Home[k] = "templates" => k = "template")
  BY <1>1 DEF Home, Parts
<1>4. \A r \in Rows : Kind[r] \in Kinds /\ PartOf[r] = Home[Kind[r]]
  BY <1>1, RowsAssumption DEF PartOf
<1>5. \A s \in StoreNames \ {"templates"} : "template" \notin Source[s]
  BY <1>2 DEF Source
<1> HIDE DEF Kinds
<1>6. \A s \in StoreNames : Takes[s] = {r \in Rows : /\ Kind[r] \in Source[s]
                                                    /\ ~ (s = "prices" /\ r \in Manual)}
  BY DEF Takes
<1>7. "rules" \in StoreNames /\ "rules" \in Source["rules"]
  BY <1>2 DEF Source
<1>8. \A r \in Rows : Kind[r] = "rules" => r \in Takes["rules"]
  BY <1>6, <1>7
<1>9. \A r \in Rows : PartOf[r] \in Parts
  BY <1>3, <1>4
<1>10. \A s \in StoreNames \ {"templates"} : \A r \in Takes[s] : PartOf[r] # "templates"
  BY <1>3, <1>4, <1>5, <1>6
<1> QED BY <1>6, <1>8, <1>9, <1>10

LEMMA EmptyIsATable == Empty \in Tables
BY DEF Empty, Tables

LEMMA NothingIsASnapshot == Nothing \in Snapshots
BY DEF Nothing, Snapshots

LEMMA StepFacts ==
  /\ Idle \in Steps /\ Idle.do = "idle"
  /\ Len(Fetches) \in Nat /\ Len(Fetches) > 0
  /\ \A n \in 1 .. Len(Fetches) : [do |-> "fetch", n |-> n] \in Steps
  /\ \A x \in {"write", "note"} : [do |-> x, n |-> 0] \in Steps
  /\ \A n \in 1 .. 6 : [do |-> "apply", n |-> n] \in Steps
  /\ \A x \in Steps : /\ x.do = "fetch" => x.n \in 1 .. Len(Fetches)
                      /\ x.do = "apply" => x.n \in 1 .. 6 /\ x = [do |-> "apply", n |-> x.n]
                      /\ x # Idle <=> x.do # "idle"
                      /\ x.do \in {"idle", "fetch", "write", "note", "apply"}
<1>1. Len(Fetches) \in Nat /\ Len(Fetches) > 0
  BY DocumentsAssumption
<1> QED BY <1>1, StoreFacts DEF Steps, Idle

(* After a request a sync goes on, ends, or has a batch that is not rejected. *)
LEMMA ProceedCases ==
  ASSUME Types, NEW c \in Callers, NEW n \in 1 .. Len(Fetches), NEW b \in Snapshots,
         step[c].do = "fetch", Proceed(c, n, b)
  PROVE  \E x \in Steps, d \in Snapshots :
            /\ step' = [step EXCEPT ![c] = x]
            /\ draft' = [draft EXCEPT ![c] = d]
            /\ \/ x.do = "fetch" /\ syncing' = syncing
               \/ x = Idle /\ syncing' = FALSE
               \/ x.do = "write" /\ syncing' = syncing /\ ~ Rejected(d)
<1>1. CASE n < Len(Fetches)
  <2>1. [do |-> "fetch", n |-> n + 1] \in Steps
    BY <1>1, StepFacts
  <2> QED BY <1>1, <2>1 DEF Proceed
<1>2. CASE ~ (n < Len(Fetches))
  <2>1. Judge(c, b)
    BY <1>2 DEF Proceed
  <2>2. CASE Rejected(b) \/ b = Nothing
    BY <2>1, <2>2, StepFacts, NothingIsASnapshot DEF Judge
  <2>3. CASE ~ (Rejected(b) \/ b = Nothing)
    <3>1. [do |-> "write", n |-> 0] \in Steps
      BY StepFacts
    <3> QED BY <2>1, <2>3, <3>1 DEF Judge
  <2> QED BY <2>2, <2>3
<1> QED BY <1>1, <1>2

(* A request leaves everything in order that is not the caller's own. *)
LEMMA RequestKeeps ==
  ASSUME IInv, NEW c \in Callers, step[c].do = "fetch",
         NEW x \in Steps, NEW d \in Snapshots,
         step' = [step EXCEPT ![c] = x], draft' = [draft EXCEPT ![c] = d],
         \/ x.do = "fetch" /\ syncing' = syncing
         \/ x = Idle /\ syncing' = FALSE
         \/ x.do = "write" /\ syncing' = syncing /\ ~ Rejected(d),
         UNCHANGED <<mirror, snap, disk, stores, behind>>
  PROVE  IInv'
<1> USE DEF IInv
<1>1. step[c] # Idle /\ syncing
  BY StepFacts DEF Types, Alone
<1>2. \A e \in Callers \ {c} : step[e] = Idle /\ step'[e] = Idle
  BY <1>1 DEF Types, Alone
<1>3. step'[c] = x /\ draft'[c] = d
  BY DEF Types
<1>4. Types'
  BY DEF Types
<1>5. Alone'
  <2>1. \A e \in Callers : step'[e] # Idle => e = c
    BY <1>2
  <2>2. step'[c] # Idle => syncing'
    BY <1>1, <1>3, StepFacts
  <2> QED BY <2>1, <2>2 DEF Alone
<1>6. Judged'
  BY <1>2, <1>3, StepFacts DEF Judged, Kept, Rejected
<1>7. OnlyValidRows'
  BY DEF OnlyValidRows, Sound, SoundRow
<1>8. (\A s \in StoreNames : Follows(s)) /\ Filed
  BY DEF Following, Filing
<1>9. (\A s \in StoreNames : Follows(s)') /\ Filed'
  BY <1>8 DEF Follows, On, Filed
<1>10. Following'
  BY <1>2, <1>3, <1>9, StepFacts DEF Following
<1>11. Filing'
  BY <1>2, <1>3, <1>9, StepFacts DEF Filing
<1> QED BY <1>4, <1>5, <1>6, <1>7, <1>10, <1>11

(* What is sound in a batch that is not rejected. *)
LEMMA JudgedIsSound ==
  ASSUME NEW b \in Snapshots, ~ Rejected(b), NEW p \in Parts \ {"templates"}
  PROVE  Sound(b[p])
BY DEF Rejected, Sound

(* What an applier does: it has the rows it was given, and no other store but *)
(* the database, when the rules are applied, is touched.                      *)
HasRows(after, s, b, rows) ==
  /\ after \in [StoreNames -> Tables]
  /\ \A r \in Rows : after[s][r] = IF r \in rows THEN b[PartOf[r]] ELSE stores[s][r]
  /\ \A z \in StoreNames \ {s} : after[z] = stores[z] \/ (z = "database" /\ s = "rules")
  /\ s = "rules" => \A r \in Rows :
        \/ after["database"][r] = stores["database"][r]
        \/ (Kind[r] = "rules" /\ after["database"][r] = after["rules"][r])

LEMMA AfterFacts ==
  ASSUME stores \in [StoreNames -> Tables],
         NEW s \in StoreNames, NEW b \in Snapshots, NEW rows, rows \subseteq On(b, s),
         NEW saved \in BOOLEAN
  PROVE  HasRows(After(s, rows, b, saved), s, b, rows)
<1> DEFINE after == After(s, rows, b, saved)
<1>1. Upsert(s, rows, b) \in Tables
  BY RowFacts DEF Upsert, Tables, Snapshots, On
<1>2. \A r \in Rows : Upsert(s, rows, b)[r] = IF r \in rows THEN b[PartOf[r]] ELSE stores[s][r]
  BY DEF Upsert
<1>3. after[s] = Upsert(s, rows, b)
  BY DEF After
<1>4. ASSUME NEW t \in Tables
      PROVE  /\ WithRules(t) \in Tables
             /\ \A r \in Rows : \/ WithRules(t)[r] = stores["database"][r]
                               \/ (Kind[r] = "rules" /\ WithRules(t)[r] = t[r])
  BY StoreFacts DEF WithRules, Tables
<1>5. ASSUME NEW z \in StoreNames, z # s
      PROVE  \/ after[z] = stores[z]
             \/ (z = "database" /\ s = "rules" /\ after[z] = WithRules(Upsert(s, rows, b)))
  BY <1>5 DEF After
<1>6. after = [z \in StoreNames |-> after[z]]
  BY DEF After
<1> HIDE DEF after
<1>7. \A z \in StoreNames : after[z] \in Tables
  BY <1>1, <1>3, <1>4, <1>5
<1>8. after \in [StoreNames -> Tables]
  BY <1>6, <1>7
<1>9. ASSUME s = "rules", NEW r \in Rows
      PROVE  \/ after["database"][r] = stores["database"][r]
             \/ (Kind[r] = "rules" /\ after["database"][r] = after["rules"][r])
  <2>1. "database" \in StoreNames /\ "database" # s
    BY <1>9, StoreFacts
  <2> QED BY <1>1, <1>3, <1>4, <1>5, <1>9, <2>1
<1>10. HasRows(after, s, b, rows)
  BY <1>2, <1>3, <1>5, <1>8, <1>9 DEF HasRows
<1> QED BY <1>10 DEF after

(* Rows of a batch that is not rejected are sound wherever they are put.      *)
LEMMA AfterIsSound ==
  ASSUME OnlyValidRows, NEW s \in StoreNames, NEW b \in Snapshots,
         NEW rows, rows \subseteq On(b, s), ~ Rejected(b), NEW after, HasRows(after, s, b, rows)
  PROVE  \A z \in StoreNames \ {"templates"}, r \in Rows : SoundRow(after[z][r], r)
<1>1. ASSUME s # "templates", NEW r \in Rows PROVE SoundRow(after[s][r], r)
  <2>1. CASE r \in rows
    <3>1. r \in Takes[s] /\ r \in Documents[b[PartOf[r]]].on /\ b[PartOf[r]] # 0
      BY <2>1 DEF On
    <3>2. PartOf[r] \in Parts \ {"templates"}
      BY <1>1, <3>1, RowFacts
    <3>3. Documents[b[PartOf[r]]].valid
      BY <3>1, <3>2 DEF Rejected
    <3>4. after[s][r] = b[PartOf[r]]
      BY <2>1 DEF HasRows
    <3> QED BY <3>1, <3>3, <3>4 DEF SoundRow
  <2>2. CASE r \notin rows
    <3>1. after[s][r] = stores[s][r]
      BY <2>2 DEF HasRows
    <3> QED BY <1>1, <3>1 DEF OnlyValidRows
  <2> QED BY <2>1, <2>2
<1> SUFFICES ASSUME NEW z \in StoreNames \ {"templates"}, NEW r \in Rows
             PROVE  SoundRow(after[z][r], r)
  OBVIOUS
<1>2. CASE z = s
  BY <1>1, <1>2
<1>3. CASE after[z] = stores[z]
  BY <1>3 DEF OnlyValidRows
<1>4. CASE z = "database" /\ s = "rules"
  <2>1. \/ after["database"][r] = stores["database"][r]
        \/ after["database"][r] = after["rules"][r]
    BY <1>4 DEF HasRows
  <2>2. SoundRow(stores["database"][r], r)
    BY <1>4 DEF OnlyValidRows
  <2>3. SoundRow(after["rules"][r], r)
    BY <1>1, <1>4
  <2> QED BY <1>4, <2>1, <2>2, <2>3
<1> QED BY <1>2, <1>3, <1>4 DEF HasRows

-------------------------------------------------------------------------------

LEMMA InitIInv == Init => IInv
<1> SUFFICES ASSUME Init PROVE IInv
  OBVIOUS
<1>1. Types
  <2>1. 1 \in Versions
    BY DocumentsAssumption DEF Versions
  <2>2. mirror \in [Mirrors -> Versions]
    BY <2>1 DEF Init
  <2>3. step \in [Callers -> Steps] /\ draft \in [Callers -> Snapshots]
    BY NothingIsASnapshot, StepFacts DEF Init
  <2>4. stores \in [StoreNames -> Tables]
    BY EmptyIsATable DEF Init
  <2> QED BY <2>2, <2>3, <2>4, NothingIsASnapshot DEF Init, Types
<1>2. Alone /\ Judged
  BY StepFacts DEF Init, Alone, Judged, Kept
<1>3. OnlyValidRows
  BY <1>1, StepFacts DEF Init, OnlyValidRows, Sound, SoundRow, Nothing, Empty
<1>4. \A s \in StoreNames : Follows(s)
  BY RowFacts DEF Init, Follows, On, Nothing
<1>5. Following /\ Filing
  BY <1>4, StepFacts DEF Init, Following, Filing, Filed
<1> QED BY <1>1, <1>2, <1>3, <1>5 DEF IInv

LEMMA NextIInv == IInv /\ [Next]_vars => IInv'
<1> SUFFICES ASSUME IInv, [Next]_vars PROVE IInv'
  OBVIOUS
<1> USE DEF IInv
<1>1. ASSUME NEW c \in Callers, Begin(c) PROVE IInv'
  <2>1. \A e \in Callers : step[e] = Idle
    BY <1>1 DEF Begin, Alone
  <2>2. [do |-> "fetch", n |-> 1] \in Steps
    BY StepFacts
  <2>3. /\ \A e \in Callers : step'[e] = IF e = c THEN [do |-> "fetch", n |-> 1] ELSE Idle
        /\ syncing' = TRUE
        /\ UNCHANGED <<mirror, snap, disk, stores, draft, behind>>
    BY <1>1, <2>1 DEF Begin, Types
  <2>4. Types'
    BY <1>1, <2>2 DEF Begin, Types
  <2>5. Alone'
    BY <2>3 DEF Alone
  <2>6. Judged'
    BY <2>3, StepFacts DEF Judged, Kept
  <2>7. OnlyValidRows'
    BY <2>3 DEF OnlyValidRows, Sound, SoundRow
  <2>8. (\A s \in StoreNames : Follows(s)) /\ Filed
    BY <1>1 DEF Begin, Following, Filing
  <2>9. (\A s \in StoreNames : Follows(s)') /\ Filed'
    BY <2>3, <2>8 DEF Follows, On, Filed
  <2>10. Following' /\ Filing'
    BY <2>3, <2>9, StepFacts DEF Following, Filing
  <2> QED BY <2>4, <2>5, <2>6, <2>7, <2>10
<1>2. ASSUME NEW c \in Callers, Fetch(c) PROVE IInv'
  <2> DEFINE n == step[c].n
  <2>1. n \in 1 .. Len(Fetches) /\ step[c].do = "fetch"
    BY <1>2, StepFacts DEF Fetch, Types
  <2>2. PICK m \in Mirrors :
          Proceed(c, n, [p \in Parts |-> IF p \in Fetches[n] /\ p \in Documents[mirror[m]].parts
                                           THEN mirror[m] ELSE draft[c][p]])
    BY <1>2 DEF Fetch
  <2> DEFINE b == [p \in Parts |-> IF p \in Fetches[n] /\ p \in Documents[mirror[m]].parts
                                     THEN mirror[m] ELSE draft[c][p]]
  <2>3. b \in Snapshots
    BY DEF Types, Snapshots
  <2>4. UNCHANGED <<mirror, snap, disk, stores, behind>>
    BY <1>2 DEF Fetch
  <2>5. Proceed(c, n, b)
    BY <2>2
  <2> HIDE DEF b, n
  <2> QED BY <2>1, <2>3, <2>4, <2>5, ProceedCases, RequestKeeps
<1>3. ASSUME NEW c \in Callers, FetchFails(c) PROVE IInv'
  <2> DEFINE n == step[c].n
  <2>1. n \in 1 .. Len(Fetches) /\ step[c].do = "fetch"
    BY <1>3, StepFacts DEF FetchFails, Types
  <2>2. UNCHANGED <<mirror, snap, disk, stores, behind>>
    BY <1>3 DEF FetchFails
  <2>3. CASE n = 1
    <3>1. /\ step' = [step EXCEPT ![c] = Idle] /\ syncing' = FALSE
          /\ draft' = [draft EXCEPT ![c] = Nothing]
      BY <1>3, <2>3 DEF FetchFails, Leave
    <3> QED BY <2>1, <2>2, <3>1, NothingIsASnapshot, StepFacts, RequestKeeps
  <2>4. CASE n # 1
    <3>1. Proceed(c, n, draft[c])
      BY <1>3, <2>4 DEF FetchFails
    <3>2. draft[c] \in Snapshots
      BY DEF Types
    <3> HIDE DEF n
    <3> QED BY <2>1, <2>2, <3>1, <3>2, ProceedCases, RequestKeeps
  <2> QED BY <2>3, <2>4
<1>4. ASSUME NEW c \in Callers, Write(c) PROVE IInv'
  <2> DEFINE x == [do |-> "note", n |-> 0]
  <2>1. step[c].do = "write" /\ step[c] # Idle /\ syncing
    BY <1>4, StepFacts DEF Write, Types, Alone
  <2>2. /\ step' = [step EXCEPT ![c] = x]
        /\ UNCHANGED <<mirror, snap, stores, syncing, draft>>
    BY <1>4 DEF Write
  <2>3. \/ disk' = draft[c] /\ behind' = behind \ {"file"}
        \/ disk' \in {disk, Cut} /\ behind' = behind \cup {"file"}
    BY <1>4 DEF Write
  <2>4. x \in Steps
    BY StepFacts
  <2>5. step'[c] = x /\ \A e \in Callers \ {c} : step'[e] = step[e] /\ step[e] = Idle
    BY <2>1, <2>2 DEF Types, Alone
  <2>6. Types'
    BY <2>2, <2>3, <2>4 DEF Types
  <2>7. Alone'
    BY <2>1, <2>2, <2>5 DEF Alone
  <2>8. ~ Rejected(draft[c]) /\ draft[c] \in Snapshots
    BY <2>1 DEF Judged, Kept, Types
  <2>9. Judged'
    BY <2>2, <2>5, <2>8, StepFacts DEF Judged, Kept, Rejected
  <2>10. OnlyValidRows'
    <3>1. \A p \in Parts \ {"templates"} : Sound(draft[c][p])
      BY <2>8, JudgedIsSound
    <3> QED BY <2>2, <2>3, <3>1 DEF OnlyValidRows, Sound, SoundRow
  <2>11. \A s \in StoreNames : Follows(s)'
    <3>1. \A s \in StoreNames : Follows(s)
      BY <2>1 DEF Following
    <3>2. \A s \in StoreNames : s \in behind => s \in behind'
      BY <2>3, StoreFacts
    <3> QED BY <2>2, <3>1, <3>2 DEF Follows, On
  <2>12. Following'
    BY <2>1, <2>2, <2>5, <2>11, StepFacts DEF Following
  <2>13. Filing'
    BY <2>1, <2>2, <2>3, <2>5, StepFacts DEF Filing
  <2> QED BY <2>6, <2>7, <2>9, <2>10, <2>12, <2>13
<1>5. ASSUME NEW c \in Callers, Note(c) PROVE IInv'
  <2> DEFINE x == [do |-> "apply", n |-> 1]
  <2>1. step[c].do = "note" /\ step[c] # Idle /\ syncing
    BY <1>5, StepFacts DEF Note, Types, Alone
  <2>2. /\ step' = [step EXCEPT ![c] = x] /\ snap' = draft[c]
        /\ UNCHANGED <<mirror, disk, stores, syncing, draft, behind>>
    BY <1>5 DEF Note
  <2>3. x \in Steps
    BY StepFacts
  <2>4. step'[c] = x /\ \A e \in Callers \ {c} : step'[e] = step[e] /\ step[e] = Idle
    BY <2>1, <2>2 DEF Types, Alone
  <2>5. Types'
    BY <2>2, <2>3 DEF Types
  <2>6. Alone'
    BY <2>1, <2>2, <2>4 DEF Alone
  <2>7. ~ Rejected(draft[c]) /\ draft[c] \in Snapshots
    BY <2>1 DEF Judged, Kept, Types
  <2>8. Judged'
    BY <2>2, <2>4, <2>7, StepFacts DEF Judged, Kept, Rejected
  <2>9. OnlyValidRows'
    <3>1. \A p \in Parts \ {"templates"} : Sound(draft[c][p])
      BY <2>7, JudgedIsSound
    <3> QED BY <2>2, <3>1 DEF OnlyValidRows, Sound, SoundRow
  <2>10. Following'
    <3>1. 1 .. (x.n - 1) = {}
      OBVIOUS
    <3> QED BY <2>1, <2>2, <2>4, <3>1, StepFacts DEF Following
  <2>11. Filing'
    <3>1. "file" \notin behind => disk = draft[c]
      BY <2>1 DEF Filing
    <3> QED BY <2>1, <2>2, <2>4, <3>1, StepFacts DEF Filing, Filed
  <2> QED BY <2>5, <2>6, <2>8, <2>9, <2>10, <2>11
<1>6. ASSUME NEW c \in Callers, Apply(c) PROVE IInv'
  <2>a. step[c].do = "apply" /\ step[c] # Idle /\ syncing /\ step[c].n \in 1 .. 6
    BY <1>6, StepFacts DEF Apply, Types, Alone
  <2>b. PICK n \in 1 .. 6 : n = step[c].n
    BY <2>a
  <2>c. PICK s \in StoreNames : s = Stores[n]
    BY StoreFacts
  <2>1. step[c].do = "apply" /\ step[c] # Idle /\ syncing /\ n = step[c].n
    BY <2>a, <2>b
  <2>2. s \in StoreNames /\ n = step[c].n /\ s = Stores[step[c].n]
    BY <2>b, <2>c
  <2>3. snap = draft[c] /\ draft[c] \in Snapshots /\ ~ Rejected(draft[c])
        /\ \A i \in 1 .. (n - 1) : Follows(Stores[i])
    BY <2>1, <2>b DEF Following, Judged, Kept, Types
  <2>4. PICK rows \in SUBSET On(draft[c], s), saved \in BOOLEAN :
          /\ stores' = After(s, rows, draft[c], saved)
          /\ \/ behind' = behind \ {s} /\ rows = On(draft[c], s)
             \/ behind' = behind \cup {s}
    BY <1>6, <2>2 DEF Apply
  <2>6. UNCHANGED <<mirror, snap, disk>>
    BY <1>6 DEF Apply
  <2>7. \/ /\ n < 6 /\ step' = [step EXCEPT ![c] = [do |-> "apply", n |-> n + 1]]
           /\ UNCHANGED <<syncing, draft>>
        \/ /\ n = 6 /\ step' = [step EXCEPT ![c] = Idle] /\ syncing' = FALSE
           /\ draft' = [draft EXCEPT ![c] = Nothing]
    <3>0. GoOn(c)
      BY <1>6 DEF Apply
    <3>1. CASE n < 6
      BY <3>0, <2>2, <3>1, StoreFacts DEF GoOn
    <3>2. CASE ~ (n < 6)
      <4>1. Leave(c)
        BY <3>0, <2>2, <3>2, StoreFacts DEF GoOn
      <4> QED BY <2>b, <3>2, <4>1 DEF Leave
    <3> QED BY <3>1, <3>2
  <2>d. PICK b \in Snapshots : b = draft[c]
    BY <2>3
  <2>e. PICK after : after = stores'
    OBVIOUS
  <2>f. HasRows(after, s, b, rows) /\ rows \subseteq On(b, s)
    BY <2>2, <2>4, <2>d, <2>e, AfterFacts DEF Types
  <2>8. after \in [StoreNames -> Tables]
    BY <2>f DEF HasRows
  <2>9. /\ \A z \in StoreNames \ {s} : after[z] = stores[z] \/ (z = "database" /\ s = "rules")
        /\ \A r \in rows : after[s][r] = b[PartOf[r]]
    <3>1. rows \subseteq Rows
      BY <2>2, <2>f, RowFacts DEF On
    <3> QED BY <2>f, <3>1 DEF HasRows
  <2>10. ("file" \in behind <=> "file" \in behind')
         /\ \A z \in StoreNames \ {s} : z \in behind <=> z \in behind'
    BY <2>2, <2>4, StoreFacts
  <2>11. Follows(s)'
    <3>1. CASE s \in behind'
      BY <3>1 DEF Follows, On
    <3>2. CASE s \notin behind'
      <4>1. rows = On(draft[c], s)
        BY <2>4, <3>2
      <4>2. \A r \in On(snap, s) : stores'[s][r] = snap[PartOf[r]]
        BY <2>3, <2>9, <2>d, <2>e, <4>1
      <4>3. On(snap, s)' = On(snap, s)
        BY <2>6 DEF On
      <4> QED BY <2>6, <4>2, <4>3 DEF Follows, On
    <3> QED BY <3>1, <3>2
  <2>12. \A i \in 1 .. n : Follows(Stores[i])'
    <3> SUFFICES ASSUME NEW i \in 1 .. n PROVE Follows(Stores[i])'
      OBVIOUS
    <3>1. CASE i = n
      BY <2>c, <2>11, <3>1
    <3>2. CASE i # n
      <4>1. i \in 1 .. (n - 1) /\ i \in 1 .. 6 /\ i < n
        BY <3>2
      <4>2. Stores[i] \in StoreNames /\ Stores[i] # s /\ (s = "rules" => Stores[i] # "database")
        BY <2>c, <4>1, StoreFacts
      <4>3. after[Stores[i]] = stores[Stores[i]] /\ (Stores[i] \in behind <=> Stores[i] \in behind')
        BY <2>9, <2>10, <4>2
      <4>4. Follows(Stores[i])
        BY <2>3, <4>1
      <4> QED BY <2>6, <2>e, <4>3, <4>4 DEF Follows, On
    <3> QED BY <3>1, <3>2
  <2>14. OnlyValidRows'
    <3>1. ASSUME NEW z \in StoreNames \ {"templates"}, NEW r \in Rows
          PROVE  SoundRow(after[z][r], r)
      <4>1. ~ Rejected(b)
        BY <2>3, <2>d
      <4> QED BY <2>2, <2>f, <4>1, AfterIsSound
    <3>2. \A p \in Parts \ {"templates"} :
             Sound(snap[p])' /\ (disk' # Cut => Sound(disk[p])')
      BY <2>6 DEF OnlyValidRows, Sound
    <3>3. \A z \in StoreNames \ {"templates"}, r \in Rows : SoundRow(stores[z][r], r)'
      BY <2>e, <3>1 DEF SoundRow
    <3> QED BY <3>2, <3>3 DEF OnlyValidRows
  <2>15. \A e \in Callers \ {c} : step[e] = Idle /\ step'[e] = Idle
    BY <2>1, <2>7 DEF Types, Alone
  <2>16. Filed /\ Filed'
    <3>1. Filed
      BY <2>1 DEF Filing
    <3> QED BY <2>6, <2>10, <3>1 DEF Filed
  <2>17. CASE n < 6
    <3>1. step'[c] = [do |-> "apply", n |-> n + 1]
      BY <2>7, <2>17 DEF Types
    <3>2. step'[c] \in Steps /\ step'[c].do = "apply" /\ step'[c].n - 1 = n /\ step'[c] # Idle
      BY <2>1, <2>17, <3>1, StepFacts
    <3>3. UNCHANGED <<syncing, draft>>
      BY <2>7, <2>17
    <3>4. Types'
      <4>1. step' \in [Callers -> Steps]
        <5>1. step' = [step EXCEPT ![c] = [do |-> "apply", n |-> n + 1]]
          BY <2>7, <2>17, <3>1 DEF Types
        <5> QED BY <3>1, <3>2, <5>1 DEF Types
      <4> QED BY <2>6, <2>8, <2>e, <3>3, <4>1 DEF Types
    <3>5. Alone'
      BY <2>1, <2>15, <3>3 DEF Alone
    <3>6. Judged'
      BY <2>3, <2>15, <3>3, StepFacts DEF Judged, Kept, Rejected
    <3>7. Following'
      BY <2>1, <2>3, <2>6, <2>12, <2>15, <3>2, <3>3, StepFacts DEF Following
    <3>8. Filing'
      BY <2>1, <2>15, <2>16, <3>2, <3>3, StepFacts DEF Filing
    <3> QED BY <2>14, <3>4, <3>5, <3>6, <3>7, <3>8
  <2>18. CASE n = 6
    <3>1. /\ step' = [step EXCEPT ![c] = Idle] /\ syncing' = FALSE
          /\ draft' = [draft EXCEPT ![c] = Nothing]
      BY <2>7, <2>18
    <3>2. \A e \in Callers : step'[e] = Idle
      BY <2>15, <3>1 DEF Types
    <3>3. Types'
      BY <2>6, <2>8, <2>e, <3>1, NothingIsASnapshot, StepFacts DEF Types
    <3>4. Alone' /\ Judged'
      BY <3>2, StepFacts DEF Alone, Judged, Kept
    <3>5. \A z \in StoreNames : Follows(z)'
      BY <2>12, <2>18, StoreFacts
    <3>6. Following' /\ Filing'
      BY <2>16, <3>2, <3>5, StepFacts DEF Following, Filing
    <3> QED BY <2>14, <3>3, <3>4, <3>6
  <2> QED BY <2>1, <2>17, <2>18
<1>7. ASSUME NEW m \in Mirrors, Publish(m) PROVE IInv'
  <2>1. UNCHANGED <<snap, disk, stores, syncing, step, draft, behind>>
    BY <1>7 DEF Publish
  <2>2. mirror[m] \in Versions /\ mirror[m] < Len(Documents) /\ Len(Documents) \in Nat
    BY <1>7, DocumentsAssumption DEF Publish, Types
  <2>3. mirror[m] + 1 \in Versions
    BY <2>2 DEF Versions
  <2>4. mirror' \in [Mirrors -> Versions]
    BY <1>7, <2>3 DEF Publish, Types
  <2>5. Types'
    BY <2>1, <2>4 DEF Types
  <2>6. Alone' /\ Judged' /\ OnlyValidRows'
    BY <2>1 DEF Alone, Judged, Rejected, OnlyValidRows, Sound, SoundRow
  <2>7. Following'
    BY <2>1 DEF Following, Follows, On
  <2>8. Filing'
    BY <2>1 DEF Filing, Filed
  <2> QED BY <2>5, <2>6, <2>7, <2>8
<1>8. ASSUME Restart PROVE IInv'
  <2>1. /\ disk' \in {disk, Cut}
        /\ snap' = IF disk' = Cut THEN Nothing ELSE disk'
        /\ behind' = StoreNames /\ syncing' = FALSE
        /\ step' = [c \in Callers |-> Idle] /\ draft' = [c \in Callers |-> Nothing]
        /\ mirror' = mirror
    BY <1>8 DEF Restart
  <2>2. stores' = [s \in StoreNames |-> IF s = "features" THEN stores["database"]
                                        ELSE IF s \in Volatile THEN Empty ELSE stores[s]]
    BY <1>8 DEF Restart
  <2>3. "database" \in StoreNames
    BY DEF StoreNames, Source
  <2>4. Types'
    <3>1. stores' \in [StoreNames -> Tables]
      BY <2>2, <2>3, EmptyIsATable DEF Types
    <3>2. snap' \in Snapshots /\ disk' \in Snapshots \cup {Cut}
      BY <2>1, NothingIsASnapshot DEF Types
    <3> QED BY <2>1, <3>1, <3>2, NothingIsASnapshot, StepFacts DEF Types
  <2>5. Alone' /\ Judged'
    BY <2>1, StepFacts DEF Alone, Judged, Kept
  <2>6. OnlyValidRows'
    <3>1. \A p \in Parts \ {"templates"} : Sound(snap'[p]) /\ (disk' # Cut => Sound(disk'[p]))
      BY <2>1 DEF OnlyValidRows, Sound, Nothing
    <3>2. ASSUME NEW s \in StoreNames \ {"templates"}, NEW r \in Rows
          PROVE  SoundRow(stores'[s][r], r)
      <4>1. stores'[s] \in {Empty, stores[s], stores["database"]}
        BY <2>2
      <4>2. SoundRow(stores[s][r], r) /\ SoundRow(stores["database"][r], r)
        BY <2>3, <3>2 DEF OnlyValidRows
      <4>3. SoundRow(Empty[r], r)
        BY DEF SoundRow, Empty
      <4> QED BY <4>1, <4>2, <4>3
    <3> QED BY <3>1, <3>2 DEF OnlyValidRows, Sound, SoundRow
  <2>7. Following' /\ Filing'
    BY <2>1, StepFacts DEF Following, Follows, On, Filing, Filed
  <2> QED BY <2>4, <2>5, <2>6, <2>7
<1>9. CASE UNCHANGED vars
  <2>1. UNCHANGED <<mirror, snap, disk, stores, syncing, step, draft, behind>>
    BY <1>9 DEF vars
  <2>2. Types' /\ Alone' /\ Judged' /\ OnlyValidRows'
    BY <2>1 DEF Types, Alone, Judged, Rejected, OnlyValidRows, Sound, SoundRow
  <2>3. Following' /\ Filing'
    BY <2>1 DEF Following, Follows, On, Filing, Filed
  <2> QED BY <2>2, <2>3
<1> QED BY <1>1, <1>2, <1>3, <1>4, <1>5, <1>6, <1>7, <1>8, <1>9 DEF Next, Step

-------------------------------------------------------------------------------

(* Rows and prices of an invalid batch, and rows that their document          *)
(* disables, are in effect nowhere, with any number of mirrors that publish   *)
(* any documents.                                                             *)
THEOREM SyncedRowsAreValid == Spec => []OnlyValidRows
<1>1. IInv => OnlyValidRows
  BY DEF IInv
<1> QED BY <1>1, InitIInv, NextIInv, PTL DEF Spec

(* Between syncs each applier has the rows that the snapshot in effect        *)
(* enables, in its version; whatever else it has is left from before.         *)
THEOREM AppliersFollowSnapshot == Spec => []StoresFollow
<1>1. IInv => StoresFollow
  BY DEF IInv, Following, Follows, StoresFollow
<1> QED BY <1>1, InitIInv, NextIInv, PTL DEF Spec

(* Between syncs the snapshot file is the snapshot in effect.                 *)
THEOREM FileFollowsSnapshot == Spec => []FileFollows
<1>1. IInv => FileFollows
  BY DEF IInv, Filing, Filed, FileFollows
<1> QED BY <1>1, InitIInv, NextIInv, PTL DEF Spec

-------------------------------------------------------------------------------
(* Every sync ends, and one sync that nothing disturbs is enough.             *)

Last == Len(Documents)
Wanted == Documents[Last].parts

(* The parts that the first n requests ask for. *)
Asked(n) == UNION {Fetches[i] : i \in 1 .. n}

Current == \A m \in Mirrors : mirror[m] = Last
UpToDate(s) == \A r \in Takes[s] : r \in Documents[Last].on => stores[s][r] = Last

(* A sync that has only met mirrors with the last document, and whose         *)
(* requests were all answered: where it is in its fetching and applying.      *)
Clean(c) ==
  /\ Current
  /\ step[c] # Idle
  /\ \A p \in Parts : draft[c][p] \in {0, Last}
  /\ step[c].do = "fetch" => \A p \in Wanted \cap Asked(step[c].n - 1) : draft[c][p] = Last
  /\ step[c].do \in Kept => \A p \in Wanted : draft[c][p] = Last
  /\ step[c].do = "apply" => \A i \in 1 .. (step[c].n - 1) : UpToDate(Stores[i])

(* All have the rows that the last document enables, and no sync is going to  *)
(* bring an older one.                                                        *)
Steady == /\ Current
          /\ \A s \in StoreNames : UpToDate(s)
          /\ \A c \in Callers, p \in Wanted : draft[c][p] \in {0, Last}

(* What is left of a sync. *)
StepsLeft(x) == CASE x.do = "fetch" -> Len(Fetches) + 9 - x.n
                  [] x.do = "write" -> 8
                  [] x.do = "note" -> 7
                  [] x.do = "apply" -> 7 - x.n
                  [] OTHER -> 0

Blank == \A c \in Callers : step[c] = Idle => draft[c] = Nothing
Bounded == failures \in Nat /\ restarts \in Nat

JInv == IInv /\ Blank /\ Bounded

LEMMA LastFacts ==
  /\ Last \in Versions /\ Last # 0 /\ Last = Len(Documents)
  /\ Wanted \subseteq Parts
  /\ \A r \in Documents[Last].on : r \in Rows /\ PartOf[r] \in Wanted
  /\ Asked(0) = {}
  /\ \A n \in 1 .. Len(Fetches) : Asked(n) = Asked(n - 1) \cup Fetches[n]
<1>1. Len(Documents) \in Nat /\ Len(Documents) > 0 /\ Last \in Versions
  BY DocumentsAssumption DEF Last, Versions
<1> DEFINE Shape == [parts : SUBSET Parts, on : SUBSET Rows, valid : BOOLEAN]
<1>a. Documents \in Seq(Shape) /\ Last \in 1 .. Len(Documents)
  BY <1>1, DocumentsAssumption DEF Versions
<1>b. Documents[Last] \in Shape
  <2> HIDE DEF Shape
  <2> QED BY <1>a
<1>2. Wanted \subseteq Parts /\ Documents[Last].on \subseteq Rows
  BY <1>b DEF Wanted
<1>c. \A r \in Documents[Last].on : PartOf[r] \in Documents[Last].parts
  BY <1>a, DocumentsAssumption
<1> HIDE DEF Shape
<1>3. Asked(0) = {}
  BY DEF Asked
<1>4. ASSUME NEW n \in 1 .. Len(Fetches) PROVE Asked(n) = Asked(n - 1) \cup Fetches[n]
  <2>1. \A i \in Nat : i \in 1 .. n <=> i \in 1 .. (n - 1) \/ i = n
    BY DocumentsAssumption
  <2>2. n \in Nat /\ 1 .. n \subseteq Nat /\ 1 .. (n - 1) \subseteq Nat /\ n \in 1 .. n
    BY DocumentsAssumption
  <2> QED BY <2>1, <2>2 DEF Asked
<1> QED BY <1>1, <1>2, <1>3, <1>4, <1>c DEF Last, Wanted

(* The batch is kept as it is, or dropped. *)
LEMMA ProceedDraft ==
  ASSUME NEW c \in Callers, NEW n, NEW b, Proceed(c, n, b)
  PROVE  /\ draft' = [draft EXCEPT ![c] = b] \/ draft' = [draft EXCEPT ![c] = Nothing]
         /\ \/ step' = [step EXCEPT ![c] = [do |-> "fetch", n |-> n + 1]] /\ n < Len(Fetches)
            \/ step' = [step EXCEPT ![c] = [do |-> "write", n |-> 0]]
            \/ step' = [step EXCEPT ![c] = Idle] /\ draft' = [draft EXCEPT ![c] = Nothing]
BY DEF Proceed, Judge

(* What Fetch makes of the mirror's answer. *)
Answered(c, n, m) ==
  [p \in Parts |-> IF p \in Fetches[n] /\ p \in Documents[mirror[m]].parts
                     THEN mirror[m] ELSE draft[c][p]]

(* The steps of a sync: which there are, and what they do to the others.      *)
LEMMA SyncSteps ==
  ASSUME IInv, NEW c \in Callers, Step(c)
  PROVE  /\ step[c] # Idle
         /\ \E x, d : /\ x \in Steps
                      /\ step' = [step EXCEPT ![c] = x]
                      /\ draft' = [draft EXCEPT ![c] = d]
                      /\ x = Idle => d = Nothing
                      /\ StepsLeft(x) < StepsLeft(step[c])
         /\ StepsLeft(step[c]) \in Nat
         /\ UNCHANGED <<mirror, restarts>>
         /\ failures' \in {failures, failures + 1}
<1> USE DEF IInv
<1>1. step[c] \in Steps /\ draft[c] \in Snapshots
  BY DEF Types
<1>2. Len(Fetches) \in Nat /\ Len(Fetches) > 0 /\ Len(Stores) = 6
  BY StepFacts, StoreFacts
<1>a. StepsLeft(Idle) = 0 /\ Idle \in Steps
  BY StepFacts DEF StepsLeft
<1>b. /\ \A n \in 1 .. Len(Fetches) :
            /\ [do |-> "fetch", n |-> n] \in Steps
            /\ StepsLeft([do |-> "fetch", n |-> n]) = Len(Fetches) + 9 - n
      /\ [do |-> "write", n |-> 0] \in Steps /\ StepsLeft([do |-> "write", n |-> 0]) = 8
      /\ [do |-> "note", n |-> 0] \in Steps /\ StepsLeft([do |-> "note", n |-> 0]) = 7
      /\ \A n \in 1 .. 6 : /\ [do |-> "apply", n |-> n] \in Steps
                           /\ StepsLeft([do |-> "apply", n |-> n]) = 7 - n
  BY StepFacts DEF StepsLeft
<1>3. ASSUME NEW n, n = step[c].n, step[c].do = "fetch", NEW b, Proceed(c, n, b)
      PROVE  \E x, d : /\ x \in Steps
                       /\ step' = [step EXCEPT ![c] = x]
                       /\ draft' = [draft EXCEPT ![c] = d]
                       /\ x = Idle => d = Nothing
                       /\ StepsLeft(x) < StepsLeft(step[c])
  <2>1. n \in 1 .. Len(Fetches) /\ StepsLeft(step[c]) = Len(Fetches) + 9 - n
    BY <1>1, <1>3, StepFacts DEF StepsLeft
  <2>2. CASE /\ step' = [step EXCEPT ![c] = [do |-> "fetch", n |-> n + 1]]
             /\ n < Len(Fetches)
    <3>1. n + 1 \in 1 .. Len(Fetches)
      BY <1>2, <2>1, <2>2
    <3>2. /\ [do |-> "fetch", n |-> n + 1] \in Steps
          /\ StepsLeft([do |-> "fetch", n |-> n + 1]) = Len(Fetches) + 9 - (n + 1)
      BY <1>b, <3>1
    <3>3. StepsLeft([do |-> "fetch", n |-> n + 1]) < StepsLeft(step[c])
      BY <1>2, <2>1, <3>2
    <3>4. [do |-> "fetch", n |-> n + 1] # Idle
      BY DEF Idle
    <3> QED BY <1>3, <2>2, <3>2, <3>3, <3>4, ProceedDraft
  <2>3. CASE step' = [step EXCEPT ![c] = [do |-> "write", n |-> 0]]
    <3>1. StepsLeft([do |-> "write", n |-> 0]) < StepsLeft(step[c])
      BY <1>2, <1>b, <2>1
    <3>2. [do |-> "write", n |-> 0] # Idle
      BY DEF Idle
    <3> QED BY <1>b, <1>3, <2>3, <3>1, <3>2, ProceedDraft
  <2>4. CASE /\ step' = [step EXCEPT ![c] = Idle]
             /\ draft' = [draft EXCEPT ![c] = Nothing]
    <3>1. StepsLeft(Idle) < StepsLeft(step[c])
      BY <1>2, <1>a, <2>1
    <3> QED BY <1>a, <2>4, <3>1
  <2> QED BY <1>3, <2>2, <2>3, <2>4, ProceedDraft
<1>4. CASE Fetch(c)
  <2>1. step[c].do = "fetch" /\ \E m \in Mirrors : Proceed(c, step[c].n, Answered(c, step[c].n, m))
    BY <1>4 DEF Fetch, Answered
  <2>2. StepsLeft(step[c]) \in Nat
    BY <1>1, <1>2, <2>1, StepFacts DEF StepsLeft
  <2>3. UNCHANGED <<mirror, restarts, failures>>
    BY <1>4 DEF Fetch
  <2> QED BY <1>1, <1>3, <2>1, <2>2, <2>3, StepFacts
<1>5. CASE FetchFails(c)
  <2>1. step[c].do = "fetch"
    BY <1>5 DEF FetchFails
  <2>2. StepsLeft(step[c]) \in Nat /\ StepsLeft(Idle) < StepsLeft(step[c])
    BY <1>1, <1>2, <1>a, <2>1, StepFacts DEF StepsLeft
  <2>3. UNCHANGED <<mirror, restarts>> /\ failures' = failures + 1
    BY <1>5 DEF FetchFails, Fails
  <2>4. CASE step[c].n = 1
    <3>1. step' = [step EXCEPT ![c] = Idle] /\ draft' = [draft EXCEPT ![c] = Nothing]
      BY <1>5, <2>4 DEF FetchFails, Leave
    <3> QED BY <1>1, <1>a, <2>1, <2>2, <2>3, <3>1, StepFacts
  <2>5. CASE step[c].n # 1
    <3>1. Proceed(c, step[c].n, draft[c])
      BY <1>5, <2>5 DEF FetchFails
    <3> QED BY <1>1, <1>3, <2>1, <2>2, <2>3, <3>1, StepFacts
  <2> QED BY <2>4, <2>5
<1>6. CASE Write(c)
  <2>1. /\ step[c].do = "write" /\ step' = [step EXCEPT ![c] = [do |-> "note", n |-> 0]]
        /\ UNCHANGED <<mirror, draft, restarts>> /\ failures' \in {failures, failures + 1}
    BY <1>6 DEF Write, Fails
  <2>2. draft' = [draft EXCEPT ![c] = draft[c]]
    BY <2>1 DEF Types
  <2>3. StepsLeft(step[c]) = 8 /\ step[c] # Idle
    BY <1>1, <2>1, StepFacts DEF StepsLeft
  <2> DEFINE x == [do |-> "note", n |-> 0]
  <2>4. x \in Steps /\ x # Idle /\ StepsLeft(x) < StepsLeft(step[c])
    BY <1>b, <2>3 DEF Idle
  <2>5. step' = [step EXCEPT ![c] = x]
    BY <2>1
  <2> HIDE DEF x
  <2>6. \E y, d : /\ y \in Steps
                  /\ step' = [step EXCEPT ![c] = y]
                  /\ draft' = [draft EXCEPT ![c] = d]
                  /\ y = Idle => d = Nothing
                  /\ StepsLeft(y) < StepsLeft(step[c])
    BY <2>2, <2>4, <2>5
  <2>7. UNCHANGED <<mirror, restarts>> /\ failures' \in {failures, failures + 1}
    BY <2>1
  <2>8. StepsLeft(step[c]) \in Nat
    BY <2>3
  <2> QED BY <2>3, <2>6, <2>7, <2>8
<1>7. CASE Note(c)
  <2>1. /\ step[c].do = "note" /\ step' = [step EXCEPT ![c] = [do |-> "apply", n |-> 1]]
        /\ UNCHANGED <<mirror, draft, restarts, failures>>
    BY <1>7 DEF Note
  <2>2. draft' = [draft EXCEPT ![c] = draft[c]]
    BY <2>1 DEF Types
  <2>3. StepsLeft(step[c]) = 7 /\ step[c] # Idle
    BY <1>1, <2>1, StepFacts DEF StepsLeft
  <2> DEFINE x == [do |-> "apply", n |-> 1]
  <2>4. x \in Steps /\ x # Idle /\ StepsLeft(x) < StepsLeft(step[c])
    BY <1>b, <2>3 DEF Idle
  <2>5. step' = [step EXCEPT ![c] = x]
    BY <2>1
  <2> HIDE DEF x
  <2>6. \E y, d : /\ y \in Steps
                  /\ step' = [step EXCEPT ![c] = y]
                  /\ draft' = [draft EXCEPT ![c] = d]
                  /\ y = Idle => d = Nothing
                  /\ StepsLeft(y) < StepsLeft(step[c])
    BY <2>2, <2>4, <2>5
  <2>7. UNCHANGED <<mirror, restarts>> /\ failures' \in {failures, failures + 1}
    BY <2>1
  <2>8. StepsLeft(step[c]) \in Nat
    BY <2>3
  <2> QED BY <2>3, <2>6, <2>7, <2>8
<1>8. CASE Apply(c)
  <2>1. /\ step[c].do = "apply" /\ step[c].n \in 1 .. 6
        /\ step[c] = [do |-> "apply", n |-> step[c].n]
        /\ UNCHANGED <<mirror, restarts>> /\ failures' \in {failures, failures + 1}
    BY <1>1, <1>8, StepFacts DEF Apply, Fails
  <2>a. GoOn(c)
    BY <1>8 DEF Apply
  <2>2. StepsLeft(step[c]) = 7 - step[c].n
    BY <2>1 DEF StepsLeft
  <2>3. CASE step[c].n < 6
    <3> DEFINE x == [do |-> "apply", n |-> step[c].n + 1]
    <3>2. step' = [step EXCEPT ![c] = x] /\ draft' = draft
      BY <2>a, <1>2, <2>3 DEF GoOn
    <3>3. step[c].n + 1 \in 1 .. 6
      BY <2>1, <2>3
    <3>4. x \in Steps /\ StepsLeft(x) = 7 - (step[c].n + 1) /\ x # Idle
      BY <1>b, <3>3 DEF Idle
    <3>5. draft' = [draft EXCEPT ![c] = draft[c]]
      BY <3>2 DEF Types
    <3>6. StepsLeft(x) < StepsLeft(step[c]) /\ StepsLeft(step[c]) \in Nat
      BY <2>1, <2>2, <3>4
    <3> HIDE DEF x
    <3> QED BY <1>1, <2>1, <3>2, <3>4, <3>5, <3>6, StepFacts
  <2>4. CASE ~ (step[c].n < 6)
    <3>1. step' = [step EXCEPT ![c] = Idle] /\ draft' = [draft EXCEPT ![c] = Nothing]
      <4>1. Leave(c)
        BY <2>a, <1>2, <2>4 DEF GoOn
      <4> QED BY <4>1 DEF Leave
    <3>2. StepsLeft(Idle) < StepsLeft(step[c]) /\ StepsLeft(step[c]) \in Nat
      BY <1>a, <2>1, <2>2
    <3> QED BY <1>1, <1>a, <2>1, <3>1, <3>2, StepFacts
  <2> QED BY <2>3, <2>4
<1> QED BY <1>4, <1>5, <1>6, <1>7, <1>8 DEF Step


(* Every step of a sync brings it nearer to its end, whichever requests or    *)
(* writes fail: SyncNow starts nothing over and gives the syncing flag back.  *)
UsesUp == \A c \in Callers : Step(c) => /\ StepsLeft(step[c]) \in Nat
                                        /\ StepsLeft(step'[c]) < StepsLeft(step[c])

THEOREM SyncsUseUp == Spec => [][UsesUp]_vars
<1>1. ASSUME IInv, NEW c \in Callers, Step(c)
      PROVE  /\ StepsLeft(step[c]) \in Nat
             /\ StepsLeft(step'[c]) < StepsLeft(step[c])
  <2>1. PICK x \in Steps : /\ step' = [step EXCEPT ![c] = x]
                           /\ StepsLeft(x) < StepsLeft(step[c])
    BY <1>1, SyncSteps
  <2>2. step'[c] = x
    BY <1>1, <2>1 DEF IInv, Types
  <2> QED BY <1>1, <2>1, <2>2, SyncSteps
<1>2. IInv => [UsesUp]_vars
  BY <1>1 DEF UsesUp
<1> QED BY <1>2, InitIInv, NextIInv, PTL DEF Spec

LEMMA InitJInv == Init => JInv
BY InitIInv DEF Init, JInv, Blank, Bounded

LEMMA NextJInv == JInv /\ [Next]_vars => JInv'
<1> SUFFICES ASSUME JInv, [Next]_vars PROVE Blank' /\ Bounded'
  BY NextIInv DEF JInv
<1>0. IInv /\ Types /\ Blank /\ Bounded
  BY DEF JInv, IInv
<1>1. ASSUME NEW c \in Callers, Begin(c) PROVE Blank' /\ Bounded'
  <2>1. /\ step' = [step EXCEPT ![c] = [do |-> "fetch", n |-> 1]]
        /\ UNCHANGED <<draft, failures, restarts>>
    BY <1>1 DEF Begin
  <2>2. [do |-> "fetch", n |-> 1] # Idle
    BY DEF Idle
  <2>3. \A e \in Callers : step'[e] = Idle => step[e] = Idle
    BY <1>0, <2>1, <2>2 DEF Types
  <2> QED BY <1>0, <2>1, <2>3 DEF Blank, Bounded
<1>2. ASSUME NEW c \in Callers, Step(c) PROVE Blank' /\ Bounded'
  <2>1. PICK x, d : /\ x \in Steps
                    /\ step' = [step EXCEPT ![c] = x]
                    /\ draft' = [draft EXCEPT ![c] = d]
                    /\ x = Idle => d = Nothing
    BY <1>0, <1>2, SyncSteps
  <2>2. restarts' = restarts /\ failures' \in {failures, failures + 1}
    BY <1>0, <1>2, SyncSteps
  <2>3. \A e \in Callers : /\ step'[e] = IF e = c THEN x ELSE step[e]
                           /\ draft'[e] = IF e = c THEN d ELSE draft[e]
    BY <1>0, <2>1 DEF Types
  <2>4. Blank'
    BY <1>0, <2>1, <2>3 DEF Blank
  <2> QED BY <1>0, <2>2, <2>4 DEF Bounded
<1>3. ASSUME NEW m \in Mirrors, Publish(m) PROVE Blank' /\ Bounded'
  BY <1>0, <1>3 DEF Publish, Blank, Bounded
<1>4. CASE Restart
  BY <1>0, <1>4 DEF Restart, Blank, Bounded
<1>5. CASE UNCHANGED vars
  BY <1>0, <1>5 DEF vars, Blank, Bounded
<1> QED BY <1>1, <1>2, <1>3, <1>4, <1>5 DEF Next

(* While one sync is under way no other takes a step. *)
LEMMA OnlyOne ==
  ASSUME IInv, NEW c \in Callers, step[c] # Idle, NEW e \in Callers, Begin(e) \/ Step(e)
  PROVE  e = c /\ Step(c)
<1>1. syncing
  BY DEF IInv, Alone
<1>2. Step(e)
  BY <1>1 DEF Begin
<1>3. step[e] # Idle
  BY <1>2, SyncSteps
<1> QED BY <1>2, <1>3 DEF IInv, Alone

(* What a request that the last document answers makes of a clean batch.      *)
LEMMA CleanAnswer ==
  ASSUME IInv, NEW c \in Callers, Clean(c), step[c].do = "fetch",
         NEW n, n = step[c].n, NEW m \in Mirrors
  PROVE  LET b == Answered(c, n, m)
         IN  /\ \A p \in Parts : b[p] \in {0, Last}
             /\ \A p \in Wanted \cap Asked(n) : b[p] = Last
<1>1. /\ mirror[m] = Last
      /\ \A p \in Parts : draft[c][p] \in {0, Last}
      /\ \A p \in Wanted \cap Asked(n - 1) : draft[c][p] = Last
  BY DEF Clean, Current
<1>2. n \in 1 .. Len(Fetches)
  BY StepFacts DEF IInv, Types
<1>3. Asked(n) = Asked(n - 1) \cup Fetches[n] /\ Wanted \subseteq Parts
  BY <1>2, LastFacts
<1>4. \A p \in Parts : Answered(c, n, m)[p] =
         IF p \in Fetches[n] /\ p \in Wanted THEN Last ELSE draft[c][p]
  BY <1>1 DEF Answered, Wanted
<1> QED BY <1>1, <1>3, <1>4

(* The last document has no invalid rows and is asked for as a whole.         *)
LastIsWhole == Documents[Last].valid /\ Wanted \subseteq Asked(Len(Fetches))

(* A sync is clean as soon as it begins, and remains so until it has brought  *)
(* every applier up to date.                                                  *)
LEMMA FetchIsClean ==
  ASSUME LastIsWhole, JInv, NEW c \in Callers, Clean(c), Fetch(c)
  PROVE  Clean(c)' \/ Steady'
<1>0. IInv /\ Types /\ Alone /\ Blank
  BY DEF JInv, IInv
<1> DEFINE n == step[c].n
<1>1. step[c].do = "fetch" /\ UNCHANGED <<mirror, stores>>
  BY DEF Fetch
<1>2. n \in 1 .. Len(Fetches) /\ Len(Fetches) \in Nat
  BY <1>0, <1>1, StepFacts DEF Types
<1>3. PICK m \in Mirrors : Proceed(c, n, Answered(c, n, m))
  BY DEF Fetch, Answered
<1> DEFINE b == Answered(c, n, m)
<1>4. /\ \A p \in Parts : b[p] \in {0, Last}
      /\ \A p \in Wanted \cap Asked(n) : b[p] = Last
  BY <1>0, <1>1, CleanAnswer
<1>5. Current'
  BY <1>1 DEF Clean, Current
<1>6. Proceed(c, n, b)
  BY <1>3
<1>7. b = Nothing \/ ~ (b = Nothing)
  OBVIOUS
<1> HIDE DEF n, b
<1>8. CASE n < Len(Fetches)
  <2>1. /\ step' = [step EXCEPT ![c] = [do |-> "fetch", n |-> n + 1]]
        /\ draft' = [draft EXCEPT ![c] = b]
    BY <1>6, <1>8 DEF Proceed
  <2>2. step'[c] = [do |-> "fetch", n |-> n + 1] /\ draft'[c] = b
    BY <1>0, <2>1 DEF Types
  <2>3. step'[c].do = "fetch" /\ step'[c].n - 1 = n /\ step'[c] # Idle
    BY <1>2, <2>2 DEF Idle
  <2> QED BY <1>4, <1>5, <2>2, <2>3 DEF Clean, Kept
<1>9. CASE ~ (n < Len(Fetches))
  <2>1. Judge(c, b) /\ n = Len(Fetches)
    BY <1>2, <1>6, <1>9 DEF Proceed
  <2>2. ~ Rejected(b)
    BY <1>4 DEF Rejected, LastIsWhole
  <2>3. \A p \in Wanted : b[p] = Last
    BY <1>4, <2>1 DEF LastIsWhole
  <2>4. CASE b = Nothing
    <3>1. Wanted = {}
      BY <2>3, <2>4, LastFacts DEF Nothing
    <3>2. Documents[Last].on = {}
      BY <3>1, LastFacts
    <3> QED BY <1>5, <3>1, <3>2 DEF Steady, UpToDate
  <2>5. CASE b # Nothing
    <3>1. /\ step' = [step EXCEPT ![c] = [do |-> "write", n |-> 0]]
          /\ draft' = [draft EXCEPT ![c] = b]
      BY <2>1, <2>2, <2>5 DEF Judge
    <3>2. step'[c] = [do |-> "write", n |-> 0] /\ draft'[c] = b
      BY <1>0, <3>1 DEF Types
    <3>3. step'[c].do = "write" /\ step'[c] # Idle
      BY <3>2 DEF Idle
    <3> QED BY <1>4, <1>5, <2>3, <3>2, <3>3 DEF Clean, Kept
  <2> QED BY <2>4, <2>5
<1> QED BY <1>8, <1>9


(* What an applier that gets the last document is left with, and those before *)
(* it keep.                                                                   *)
LEMMA AppliedIsUpToDate ==
  ASSUME IInv, NEW c \in Callers, Apply(c), failures \in Nat, failures' = failures,
         \A p \in Wanted : draft[c][p] = Last,
         NEW n, n = step[c].n
  PROVE  /\ n \in 1 .. 6
         /\ \A i \in 1 .. (n - 1) : UpToDate(Stores[i]) => UpToDate(Stores[i])'
         /\ UpToDate(Stores[n])'
<1>1. step[c].do = "apply" /\ n \in 1 .. 6
  BY StepFacts DEF Apply, IInv, Types
<1>2. PICK s \in StoreNames : s = Stores[n]
  BY <1>1, StoreFacts
<1>3. PICK b : b = draft[c]
  OBVIOUS
<1>4. stores' = After(s, On(b, s), b, TRUE)
  <2>1. ~ Fails
    BY DEF Fails
  <2> QED BY <1>2, <1>3, <2>1 DEF Apply
<1>5. b \in Snapshots /\ stores \in [StoreNames -> Tables]
  BY <1>3 DEF IInv, Types
<1>6. PICK after : after = stores'
  OBVIOUS
<1>7. On(b, s) \subseteq Rows
  BY RowFacts DEF On
<1>a. HasRows(after, s, b, On(b, s))
  BY <1>4, <1>5, <1>6, AfterFacts
<1>8. /\ \A r \in On(b, s) : after[s][r] = b[PartOf[r]]
      /\ \A z \in StoreNames \ {s} : after[z] = stores[z] \/ (z = "database" /\ s = "rules")
  BY <1>7, <1>a DEF HasRows
<1>9. \A r \in Takes[s] : r \in Documents[Last].on => after[s][r] = Last
  <2> SUFFICES ASSUME NEW r \in Takes[s], r \in Documents[Last].on PROVE after[s][r] = Last
    OBVIOUS
  <2>1. b[PartOf[r]] = Last
    BY <1>3, LastFacts
  <2>2. r \in On(b, s)
    BY <2>1, LastFacts DEF On
  <2> QED BY <1>8, <2>1, <2>2
<1>10. ASSUME NEW i \in 1 .. (n - 1), UpToDate(Stores[i]) PROVE UpToDate(Stores[i])'
  <2>1. /\ Stores[i] \in StoreNames /\ Stores[i] # s
        /\ s = "rules" => Stores[i] # "database"
    <3>1. i \in 1 .. 6 /\ i < n
      BY <1>1
    <3> QED BY <1>1, <1>2, <3>1, StoreFacts
  <2>2. after[Stores[i]] = stores[Stores[i]]
    BY <1>8, <2>1
  <2> QED BY <1>6, <1>10, <2>2 DEF UpToDate, Last
<1>11. UpToDate(Stores[n])'
  BY <1>2, <1>6, <1>9 DEF UpToDate, Last
<1> QED BY <1>1, <1>10, <1>11

LEMMA ApplyIsClean ==
  ASSUME JInv, NEW c \in Callers, Clean(c), Apply(c), failures' = failures
  PROVE  Clean(c)' \/ Steady'
<1>0. IInv /\ Types /\ Alone /\ Blank /\ failures \in Nat
  BY DEF JInv, IInv, Bounded
<1>1. PICK n \in 1 .. 6 : n = step[c].n
  BY <1>0, StepFacts DEF Apply, Types
<1>2. /\ step[c].do = "apply" /\ step[c] = [do |-> "apply", n |-> n]
      /\ mirror' = mirror
  BY <1>0, <1>1, StepFacts DEF Apply, Types
<1>3. /\ \A p \in Parts : draft[c][p] \in {0, Last}
      /\ \A p \in Wanted : draft[c][p] = Last
      /\ \A i \in 1 .. (n - 1) : UpToDate(Stores[i])
  BY <1>1, <1>2 DEF Clean, Kept
<1>4. Current'
  BY <1>2 DEF Clean, Current
<1>5. \A i \in 1 .. n : UpToDate(Stores[i])'
  <2> SUFFICES ASSUME NEW i \in 1 .. n PROVE UpToDate(Stores[i])'
    OBVIOUS
  <2>1. CASE i \in 1 .. (n - 1)
    BY <1>0, <1>1, <1>3, <2>1, AppliedIsUpToDate
  <2>2. CASE i = n
    BY <1>0, <1>1, <1>3, <2>2, AppliedIsUpToDate
  <2> QED BY <2>1, <2>2
<1>6. CASE n < 6
  <2>1. step' = [step EXCEPT ![c] = [do |-> "apply", n |-> n + 1]] /\ draft' = draft
    <3>1. GoOn(c)
      BY DEF Apply
    <3> QED BY <1>1, <1>6, <3>1, StoreFacts DEF GoOn
  <2>2. step'[c] = [do |-> "apply", n |-> n + 1]
    BY <1>0, <2>1 DEF Types
  <2>3. step'[c].do = "apply" /\ step'[c].n - 1 = n /\ step'[c] # Idle
    BY <2>2 DEF Idle
  <2> QED BY <1>3, <1>4, <1>5, <2>1, <2>3 DEF Clean
<1>7. CASE n = 6
  <2>1. Leave(c)
    <3>1. GoOn(c)
      BY DEF Apply
    <3> QED BY <1>1, <1>7, <3>1, StoreFacts DEF GoOn
  <2>2. draft' = [draft EXCEPT ![c] = Nothing]
    BY <2>1 DEF Leave
  <2>3. \A e \in Callers : draft'[e] = Nothing
    <3>1. step[c] # Idle
      BY DEF Clean
    <3>2. \A e \in Callers \ {c} : draft[e] = Nothing
      BY <1>0, <3>1 DEF Alone, Blank
    <3> QED BY <1>0, <2>2, <3>2 DEF Types
  <2>4. \A z \in StoreNames : UpToDate(z)'
    BY <1>5, <1>7, StoreFacts
  <2> QED BY <1>4, <2>3, <2>4, LastFacts DEF Steady, Nothing
<1> QED BY <1>6, <1>7

LEMMA CleanStep ==
  ASSUME LastIsWhole, JInv, Next, failures' = failures, restarts' = restarts,
         NEW c \in Callers, Clean(c)
  PROVE  Clean(c)' \/ Steady'
<1>0. IInv /\ Types /\ Alone /\ Blank /\ failures \in Nat /\ restarts \in Nat
  BY DEF JInv, IInv, Bounded
<1>1. Current /\ step[c] # Idle
  BY DEF Clean
<1>2. ASSUME NEW e \in Callers, Begin(e) \/ Step(e) PROVE Step(c)
  BY <1>0, <1>1, <1>2, OnlyOne
<1>3. CASE Step(c)
  <2>1. CASE Fetch(c)
    BY <2>1, FetchIsClean
  <2>2. CASE FetchFails(c)
    BY <1>0, <2>2 DEF FetchFails, Fails
  <2>3. CASE Write(c)
    <3>1. /\ step[c].do = "write" /\ step' = [step EXCEPT ![c] = [do |-> "note", n |-> 0]]
          /\ UNCHANGED <<mirror, draft>>
      BY <2>3 DEF Write
    <3>2. step'[c] = [do |-> "note", n |-> 0]
      BY <1>0, <3>1 DEF Types
    <3>3. step'[c].do = "note" /\ step'[c] # Idle
      BY <3>2 DEF Idle
    <3> QED BY <3>1, <3>3 DEF Clean, Current, Kept
  <2>4. CASE Note(c)
    <3>1. /\ step[c].do = "note" /\ step' = [step EXCEPT ![c] = [do |-> "apply", n |-> 1]]
          /\ UNCHANGED <<mirror, draft>>
      BY <2>4 DEF Note
    <3>2. step'[c] = [do |-> "apply", n |-> 1]
      BY <1>0, <3>1 DEF Types
    <3>3. step'[c].do = "apply" /\ step'[c].n - 1 = 0 /\ step'[c] # Idle
      BY <3>2 DEF Idle
    <3>4. 1 .. 0 = {}
      OBVIOUS
    <3> QED BY <3>1, <3>3, <3>4 DEF Clean, Current, Kept
  <2>5. CASE Apply(c)
    BY <2>5, ApplyIsClean
  <2> QED BY <1>3, <2>1, <2>2, <2>3, <2>4, <2>5 DEF Step
<1>4. ASSUME NEW m \in Mirrors, Publish(m) PROVE FALSE
  <2>1. mirror[m] < Len(Documents) /\ mirror[m] = Len(Documents)
    BY <1>1, <1>4 DEF Publish, Current, Last
  <2> QED BY <2>1, LastFacts DEF Versions
<1>5. ~ Restart
  BY <1>0 DEF Restart
<1> QED BY <1>2, <1>3, <1>4, <1>5 DEF Next

LEMMA BeginIsClean ==
  ASSUME JInv, NEW c \in Callers, Begin(c), Current
  PROVE  Clean(c)'
<1>1. /\ step[c] = Idle /\ step' = [step EXCEPT ![c] = [do |-> "fetch", n |-> 1]]
      /\ UNCHANGED <<mirror, draft>>
  BY DEF Begin
<1>2. step'[c] = [do |-> "fetch", n |-> 1] /\ draft[c] = Nothing
  BY <1>1 DEF JInv, IInv, Types, Blank
<1>3. /\ step'[c].do = "fetch" /\ step'[c].n - 1 = 0 /\ step'[c] # Idle
  BY <1>2 DEF Idle
<1> QED BY <1>1, <1>2, <1>3, LastFacts DEF Clean, Current, Kept, Nothing

(* Once the mirrors agree on the last document, the next sync brings every    *)
(* row it enables to the appliers that take it, unless a request, a write or  *)
(* an applier fails or the process ends: whatever older documents, half       *)
(* batches and rejected ones there were before, and whoever else asks for a   *)
(* sync meanwhile.                                                            *)
CleanSync ==
  /\ \A c \in Callers : Begin(c) /\ Current => Clean(c)'
  /\ failures' = failures /\ restarts' = restarts =>
        \A c \in Callers : Clean(c) => Clean(c)' \/ Steady'

THEOREM OneCleanSyncSuffices ==
  ASSUME LastIsWhole PROVE Spec => [][CleanSync]_vars
<1>1. JInv /\ [Next]_vars => [CleanSync]_vars
  <2> SUFFICES ASSUME JInv, Next PROVE CleanSync
    OBVIOUS
  <2> QED BY BeginIsClean, CleanStep DEF CleanSync
<1> QED BY <1>1, InitJInv, NextJInv, PTL DEF Spec


(* No part of a batch gets older than what is there, when only the last       *)
(* document is published.                                                     *)
LEMMA SteadyBatch ==
  ASSUME JInv, Steady, NEW c \in Callers, Fetch(c) \/ FetchFails(c)
  PROVE  /\ \A e \in Callers, p \in Wanted : draft'[e][p] \in {0, Last}
         /\ UNCHANGED <<mirror, stores>>
<1>0. Types
  BY DEF JInv, IInv
<1>1. \A e \in Callers, p \in Wanted : draft[e][p] \in {0, Last}
  BY DEF Steady
<1>2. \A p \in Wanted : p \in Parts /\ Nothing[p] = 0
  BY LastFacts DEF Nothing
<1>3. ASSUME NEW d, draft' = [draft EXCEPT ![c] = d],
             \A p \in Wanted : d[p] \in {0, Last}
      PROVE  \A e \in Callers, p \in Wanted : draft'[e][p] \in {0, Last}
  BY <1>0, <1>1, <1>3 DEF Types
<1>4. CASE Fetch(c)
  <2> DEFINE n == step[c].n
  <2>1. PICK m \in Mirrors : Proceed(c, n, Answered(c, n, m))
    BY <1>4 DEF Fetch, Answered
  <2> DEFINE b == Answered(c, n, m)
  <2>2. mirror[m] = Last
    BY DEF Steady, Current
  <2>3. \A p \in Wanted : b[p] \in {0, Last}
    BY <1>1, <1>2, <2>2 DEF Answered
  <2>4. Proceed(c, n, b)
    BY <2>1
  <2> HIDE DEF n, b
  <2>5. draft' = [draft EXCEPT ![c] = b] \/ draft' = [draft EXCEPT ![c] = Nothing]
    BY <2>4, ProceedDraft
  <2>6. UNCHANGED <<mirror, stores>>
    BY <1>4 DEF Fetch
  <2>7. \A p \in Wanted : Nothing[p] \in {0, Last}
    BY <1>2
  <2> QED BY <1>3, <2>3, <2>5, <2>6, <2>7
<1>5. CASE FetchFails(c)
  <2>1. \/ draft' = [draft EXCEPT ![c] = Nothing]
        \/ Proceed(c, step[c].n, draft[c])
    BY <1>5 DEF FetchFails, Leave
  <2>2. \/ draft' = [draft EXCEPT ![c] = Nothing]
        \/ draft' = [draft EXCEPT ![c] = draft[c]]
    BY <2>1, ProceedDraft
  <2>3. UNCHANGED <<mirror, stores>>
    BY <1>5 DEF FetchFails
  <2>4. /\ \A p \in Wanted : Nothing[p] \in {0, Last}
        /\ \A p \in Wanted : draft[c][p] \in {0, Last}
    BY <1>1, <1>2
  <2> QED BY <1>3, <2>2, <2>3, <2>4
<1> QED BY <1>4, <1>5

LEMMA SteadyApply ==
  ASSUME JInv, Steady, NEW c \in Callers, Apply(c)
  PROVE  Steady'
<1>0. Types /\ step[c] \in Steps
  BY DEF JInv, IInv, Types
<1>1. /\ Current
      /\ \A z \in StoreNames : UpToDate(z)
      /\ \A e \in Callers, p \in Wanted : draft[e][p] \in {0, Last}
  BY DEF Steady
<1>2. step[c].do = "apply" /\ step[c].n \in 1 .. 6 /\ mirror' = mirror
  BY <1>0, StepFacts DEF Apply
<1>3. PICK s \in StoreNames : s = Stores[step[c].n]
  BY <1>2, StoreFacts
<1>4. PICK rows \in SUBSET On(draft[c], s), saved \in BOOLEAN :
          stores' = After(s, rows, draft[c], saved)
  BY <1>3 DEF Apply
<1>a. draft[c] \in Snapshots /\ stores \in [StoreNames -> Tables]
  BY <1>0 DEF Types
<1>b. PICK after : after = stores'
  OBVIOUS
<1>c. rows \subseteq Takes[s] /\ Takes[s] \subseteq Rows /\ \A r \in rows : draft[c][PartOf[r]] # 0
  BY <1>3, RowFacts DEF On
<1>d. HasRows(after, s, draft[c], rows)
  BY <1>4, <1>a, <1>b, AfterFacts
<1>5. ASSUME NEW r \in Takes[s], r \in Documents[Last].on PROVE after[s][r] = Last
  <2>1. stores[s][r] = Last /\ draft[c][PartOf[r]] \in {0, Last}
    BY <1>1, <1>5, LastFacts DEF UpToDate
  <2> QED BY <1>5, <1>c, <1>d, <2>1 DEF HasRows
<1>e. ASSUME NEW z \in StoreNames, NEW r \in Takes[z], r \in Documents[Last].on
      PROVE  after[z][r] = Last
  <2>1. stores[z][r] = Last
    BY <1>1, <1>e DEF UpToDate
  <2>2. CASE z = s
    BY <1>5, <1>e, <2>2
  <2>3. CASE z = "database" /\ s = "rules" /\ z # s
    <3>1. r \in Rows
      BY <1>e, LastFacts
    <3>2. Kind[r] = "rules" => after["rules"][r] = Last
      BY <1>5, <1>e, <2>3, <3>1, RowFacts
    <3> QED BY <1>d, <2>1, <2>3, <3>1, <3>2 DEF HasRows
  <2> QED BY <1>d, <2>1, <2>2, <2>3 DEF HasRows
<1>6. \A z \in StoreNames : UpToDate(z)'
  BY <1>b, <1>e DEF UpToDate, Last
<1>7. \/ draft' = draft
      \/ draft' = [draft EXCEPT ![c] = Nothing]
  BY DEF Apply, GoOn, Leave
<1>8. \A e \in Callers, p \in Wanted : draft'[e][p] \in {0, Last}
  <2>1. \A p \in Wanted : Nothing[p] = 0
    BY LastFacts DEF Nothing
  <2> QED BY <1>0, <1>1, <1>7, <2>1 DEF Types
<1>9. Current'
  BY <1>1, <1>2 DEF Current
<1> QED BY <1>6, <1>8, <1>9 DEF Steady

LEMMA SteadyStep ==
  ASSUME JInv, Steady, Next, restarts' = restarts
  PROVE  Steady'
<1>0. restarts \in Nat
  BY DEF JInv, Bounded
<1>1. ASSUME UNCHANGED <<mirror, stores, draft>> PROVE Steady'
  BY <1>1 DEF Steady, Current, UpToDate
<1>2. ASSUME NEW c \in Callers, Begin(c) PROVE Steady'
  BY <1>1, <1>2 DEF Begin
<1>3. ASSUME NEW c \in Callers, Step(c) PROVE Steady'
  <2>1. CASE Fetch(c) \/ FetchFails(c)
    BY <1>3, <2>1, SteadyBatch DEF Steady, Current, UpToDate
  <2>2. CASE Write(c) \/ Note(c)
    BY <1>1, <2>2 DEF Write, Note
  <2>3. CASE Apply(c)
    BY <1>3, <2>3, SteadyApply
  <2> QED BY <1>3, <2>1, <2>2, <2>3 DEF Step
<1>4. ASSUME NEW m \in Mirrors, Publish(m) PROVE FALSE
  <2>1. mirror[m] < Len(Documents) /\ mirror[m] = Len(Documents)
    BY <1>4 DEF Publish, Steady, Current, Last
  <2> QED BY <2>1, LastFacts DEF Versions
<1>5. ~ Restart
  BY <1>0 DEF Restart
<1> QED BY <1>2, <1>3, <1>4, <1>5 DEF Next

(* What the appliers have of the last document stays: later syncs that fail   *)
(* half way, or are answered in part, take nothing back (the appliers leave   *)
(* alone what a snapshot has not got).  Only a restart empties what is in     *)
(* memory.                                                                    *)
Stays == Steady /\ restarts' = restarts => Steady'

THEOREM LastDocumentStays == Spec => [][Stays]_vars
<1>1. JInv /\ [Next]_vars => [Stays]_vars
  <2> SUFFICES ASSUME JInv, Next PROVE Stays
    OBVIOUS
  <2> QED BY SteadyStep DEF Stays
<1> QED BY <1>1, InitJInv, NextJInv, PTL DEF Spec

===============================================================================
