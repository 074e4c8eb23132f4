-------------------------- MODULE KeyRotation_proof --------------------------
(***************************************************************************)
(* What holds of a request whatever the pool, the number of requests that  *)
(* share it, the answers and the bounds: the types; that a pool is         *)
(* declared exhausted only when all its accounts were tried; how often a   *)
(* key is used for a request; how even the load is; how far sessions stick *)
(* to an account; which account is picked; and that a request uses itself  *)
(* up with every step and is stuck in none.                                *)
(***************************************************************************)
EXTENDS KeyRotation, FiniteSetTheorems, NaturalsInduction,
        WellFoundedInduction, TLAPS

(* How many accounts a request has tried, step by step. *)
Selecting == {"begin", "look", "clear", "pick", "count", "again"}

Looks(q) == q.pc \in {"look", "clear"} => q.next <= N
Holds(q) == q.pc \in {"count", "again"} => q.account \in Accounts
Counts(q) == q.pc \in Selecting => Cardinality(q.tried) = q.attempt
Sent(q) == q.pc \in {"send", "settle"} =>
               \/ q.account = 0 /\ q.tried = {} /\ q.attempt = 0
               \/ q.account \in Accounts /\ Cardinality(q.tried) = q.attempt + 1
Last(q) == q.pc = "settle" /\ q.answer \in Rotatable /\ q.account # 0 =>
               q.attempt = N - 1

Good(q) == Looks(q) /\ Holds(q) /\ Counts(q) /\ Sent(q) /\ Last(q)

IInv == TypeOK /\ \A r \in Requests : Good(req[r])

LEMMA Small == /\ IsFiniteSet(Accounts) /\ Cardinality(Accounts) = N
               /\ IsFiniteSet({}) /\ Cardinality({}) = 0
  BY PoolAssumption, FS_Interval, FS_EmptySet DEF Accounts

LEMMA Zero == /\ 0 \in 0 .. Retries /\ 0 \in 0 .. N - 1 /\ 0 \in 0 .. MaxTime
              /\ 1 \in 1 .. N + 1 /\ 0 \in 0 .. N /\ {} \in SUBSET Accounts
              /\ 0 \in 0 .. MaxTime + Cooldown /\ 0 \in 0 .. MaxRequests
  BY PoolAssumption

(* One request changes, to a good state. *)
LEMMA OneChanges ==
  ASSUME IInv, NEW r \in Requests, NEW q \in Request, Good(q), Goes(r, q)
  PROVE  req' \in [Requests -> Request] /\ \A s \in Requests : Good(req'[s])
  BY DEF IInv, TypeOK, Goes

(* The states a request goes to, field by field. *)
LEMMA PastIs ==
  ASSUME IInv, NEW r \in Requests, req[r].pc \in {"look", "clear"},
         NEW h \in SUBSET Accounts
  PROVE  Past(r, h) \in Request /\ Good(Past(r, h))
<1> DEFINE q == req[r]
           n == Past(r, h)
<1>1. q \in Request /\ Good(q) BY DEF IInv, TypeOK
<1>2. q.next \in 1 .. N BY <1>1, PoolAssumption DEF Good, Looks, Request
<1>a. q.next + 1 \in 1 .. N + 1 BY <1>2, PoolAssumption
<1>b. (IF q.next = N THEN "pick" ELSE "look") \in Steps BY DEF Steps
<1>3. n \in Request BY <1>1, <1>a, <1>b DEF Past, Request
<1>4. /\ n.pc \in {"pick", "look"} /\ (n.pc = "look" => n.next <= N)
      /\ n.tried = q.tried /\ n.attempt = q.attempt
  BY <1>1, <1>2, PoolAssumption DEF Past, Request
<1>5. Cardinality(q.tried) = q.attempt BY <1>1 DEF Good, Counts, Selecting
<1> QED BY <1>3, <1>4, <1>5 DEF Good, Looks, Holds, Counts, Sent, Last, Selecting

LEMMA NoAccountIs ==
  ASSUME IInv, NEW r \in Requests, req[r].pc \in {"pick", "again"}
  PROVE  NoAccount(r) \in Request /\ Good(NoAccount(r))
<1> DEFINE q == req[r]
           n == NoAccount(r)
<1>1. q \in Request /\ Good(q) BY DEF IInv, TypeOK
<1>2. Cardinality(q.tried) = q.attempt /\ q.tried \in SUBSET Accounts
  BY <1>1 DEF Good, Counts, Selecting, Request
<1>3. IsFiniteSet(q.tried) BY <1>2, Small, FS_Subset
<1>4. CASE q.attempt = 0
  <2>1. q.tried = {} BY <1>2, <1>3, <1>4, FS_EmptySet
  <2>2. /\ n.pc = "send" /\ n.account = 0 /\ n.tried = q.tried
        /\ n.attempt = q.attempt
    BY <1>1, <1>4 DEF NoAccount, Request
  <2>3. n \in Request
    <3>1. n = [q EXCEPT !.account = 0, !.pc = "send"] BY <1>4 DEF NoAccount
    <3>2. 0 \in 0 .. N /\ "send" \in Steps BY Zero DEF Steps
    <3> HIDE DEF n, q
    <3> QED BY <1>1, <3>1, <3>2 DEF Request
  <2> QED BY <1>4, <2>1, <2>2, <2>3
          DEF Good, Looks, Holds, Counts, Sent, Last, Selecting
<1>5. CASE q.attempt # 0
  <2>1. n.pc = "done" BY <1>1, <1>5 DEF NoAccount, Request
  <2>2. n \in Request
    BY <1>1, <1>5, Zero DEF NoAccount, Request, Steps, Outcomes
  <2> QED BY <2>1, <2>2 DEF Good, Looks, Holds, Counts, Sent, Last, Selecting
<1> QED BY <1>4, <1>5

(* Where it is neither selecting nor calling, there is nothing to hold. *)
LEMMA Elsewhere ==
  ASSUME NEW q, q.pc \in {"idle", "done"}
  PROVE  Good(q)
  BY DEF Good, Looks, Holds, Counts, Sent, Last, Selecting

LEMMA Initially == Init => IInv
<1> SUFFICES ASSUME Init PROVE IInv OBVIOUS
<1>1. Idle \in Request
  BY Zero DEF Idle, Request, Steps, Outcomes
<1>2. Good(Idle) BY Elsewhere DEF Idle
<1>3. /\ now \in 0 .. MaxTime /\ issued \in 0 .. MaxRequests
      /\ disabledUntil \in [Accounts -> 0 .. MaxTime + Cooldown]
      /\ sessions \in [Sessions -> 0 .. N]
  BY Zero DEF Init
<1>4. counters \in [Accounts -> Nat] /\ sends \in [Requests -> [Accounts -> Nat]]
  BY DEF Init, NoSends
<1>5. req \in [Requests -> Request] /\ \A r \in Requests : Good(req[r])
  BY <1>1, <1>2 DEF Init
<1> QED BY <1>3, <1>4, <1>5 DEF IInv, TypeOK

LEMMA StartKeeps == ASSUME IInv, NEW r \in Requests, Start(r) PROVE IInv'
<1> DEFINE n == [Idle EXCEPT !.pc = "begin"]
<1>1. n \in Request BY Zero DEF Idle, Request, Steps, Outcomes
<1>2. n.pc = "begin" /\ n.tried = {} /\ n.attempt = 0 BY DEF Idle
<1>3. Good(n) BY <1>2, Small DEF Good, Looks, Holds, Counts, Sent, Last, Selecting
<1>4. req' \in [Requests -> Request] /\ \A s \in Requests : Good(req'[s])
  BY <1>1, <1>3, OneChanges DEF Start
<1>5. issued' \in 0 .. MaxRequests BY PoolAssumption DEF Start, IInv, TypeOK
<1>6. sends' \in [Requests -> [Accounts -> Nat]] BY DEF Start, IInv, TypeOK, NoSends
<1> QED BY <1>4, <1>5, <1>6 DEF Start, IInv, TypeOK

LEMMA BeginKeeps == ASSUME IInv, NEW r \in Requests, Begin(r) PROVE IInv'
<1> DEFINE q == req[r]
           n == [q EXCEPT !.pc = "look", !.began = now, !.next = 1, !.healthy = {}]
<1>1. q \in Request /\ Good(q) /\ now \in 0 .. MaxTime BY DEF IInv, TypeOK
<1>2. n \in Request BY <1>1, Zero DEF Request, Steps
<1>3. /\ n.pc = "look" /\ n.next = 1 /\ n.tried = q.tried
      /\ n.attempt = q.attempt
  BY <1>1 DEF Request
<1>4. Cardinality(q.tried) = q.attempt
  BY <1>1 DEF Begin, Good, Counts, Selecting
<1>5. Good(n)
  BY <1>3, <1>4, PoolAssumption
  DEF Good, Looks, Holds, Counts, Sent, Last, Selecting
<1>6. req' \in [Requests -> Request] /\ \A s \in Requests : Good(req'[s])
  BY <1>2, <1>5, OneChanges DEF Begin
<1> QED BY <1>6 DEF Begin, IInv, TypeOK

LEMMA LookKeeps == ASSUME IInv, NEW r \in Requests, Look(r) PROVE IInv'
<1> DEFINE q == req[r]
           a == q.next
           n == [q EXCEPT !.pc = "clear"]
<1>1. q \in Request /\ Good(q) /\ q.pc = "look" BY DEF IInv, TypeOK, Look
<1>2. a \in Accounts
  BY <1>1, PoolAssumption DEF Good, Looks, Request, Accounts
<1>3. q.healthy \in SUBSET Accounts BY <1>1 DEF Request
<1>4. /\ Past(r, q.healthy) \in Request /\ Good(Past(r, q.healthy))
      /\ Past(r, q.healthy \cup {a}) \in Request
      /\ Good(Past(r, q.healthy \cup {a}))
  BY <1>1, <1>2, <1>3, PastIs
<1>5. n \in Request BY <1>1 DEF Request, Steps
<1>6. /\ n.pc = "clear" /\ n.next = q.next /\ n.tried = q.tried
      /\ n.attempt = q.attempt
  BY <1>1 DEF Request
<1>7. Good(n)
  BY <1>1, <1>6 DEF Good, Looks, Holds, Counts, Sent, Last, Selecting
<1>8. req' \in [Requests -> Request] /\ \A s \in Requests : Good(req'[s])
  BY <1>4, <1>5, <1>7, OneChanges DEF Look
<1> QED BY <1>8 DEF Look, IInv, TypeOK

LEMMA ClearKeeps == ASSUME IInv, NEW r \in Requests, Clear(r) PROVE IInv'
<1> DEFINE q == req[r]
           a == q.next
<1>1. q \in Request /\ Good(q) /\ q.pc = "clear" BY DEF IInv, TypeOK, Clear
<1>2. a \in Accounts
  BY <1>1, PoolAssumption DEF Good, Looks, Request, Accounts
<1>3. Past(r, q.healthy \cup {a}) \in Request /\ Good(Past(r, q.healthy \cup {a}))
  BY <1>1, <1>2, PastIs DEF Request
<1>4. req' \in [Requests -> Request] /\ \A s \in Requests : Good(req'[s])
  BY <1>3, OneChanges DEF Clear
<1>5. disabledUntil' \in [Accounts -> 0 .. MaxTime + Cooldown]
  BY Zero DEF Clear, IInv, TypeOK
<1> QED BY <1>4, <1>5 DEF Clear, IInv, TypeOK

LEMMA PickKeeps == ASSUME IInv, NEW r \in Requests, Pick(r) PROVE IInv'
<1> DEFINE q == req[r]
           n(a) == [q EXCEPT !.pc = "count", !.account = a]
<1>1. q \in Request /\ Good(q) /\ q.pc = "pick" BY DEF IInv, TypeOK, Pick
<1>2. NoAccount(r) \in Request /\ Good(NoAccount(r)) BY <1>1, NoAccountIs
<1>3. ASSUME NEW a \in q.healthy PROVE n(a) \in Request /\ Good(n(a))
  <2>1. a \in Accounts BY <1>1 DEF Request
  <2>2. a \in 0 .. N BY <2>1, PoolAssumption DEF Accounts
  <2>3. n(a) \in Request BY <1>1, <2>2 DEF Request, Steps
  <2>4. /\ n(a).pc = "count" /\ n(a).account = a /\ n(a).tried = q.tried
        /\ n(a).attempt = q.attempt
    BY <1>1 DEF Request
  <2>5. Cardinality(q.tried) = q.attempt BY <1>1 DEF Good, Counts, Selecting
  <2> HIDE DEF n
  <2> QED BY <2>1, <2>3, <2>4, <2>5
          DEF Good, Looks, Holds, Counts, Sent, Last, Selecting
<1>4. \/ Goes(r, NoAccount(r)) /\ UNCHANGED sessions
      \/ \E a \in q.healthy : /\ Goes(r, n(a))
                             /\ \/ sessions' = [sessions EXCEPT ![Session[r]] = a]
                                \/ UNCHANGED sessions
  BY DEF Pick
<1> HIDE DEF n
<1>5. req' \in [Requests -> Request] /\ \A s \in Requests : Good(req'[s])
  BY <1>2, <1>3, <1>4, OneChanges
<1>6. \A a \in q.healthy : a \in 0 .. N
  BY <1>1, PoolAssumption DEF Request, Accounts
<1>7. sessions' \in [Sessions -> 0 .. N] BY <1>4, <1>6 DEF IInv, TypeOK
<1> QED BY <1>5, <1>7 DEF Pick, IInv, TypeOK

LEMMA CountKeeps == ASSUME IInv, NEW r \in Requests, Count(r) PROVE IInv'
<1> DEFINE q == req[r]
           a == q.account
           again == [q EXCEPT !.pc = "again"]
           send == [q EXCEPT !.pc = "send", !.tried = @ \cup {a}]
<1>1. q \in Request /\ Good(q) /\ q.pc = "count" BY DEF IInv, TypeOK, Count
<1>2. a \in Accounts /\ q.tried \in SUBSET Accounts /\ q.attempt \in Nat
  BY <1>1, PoolAssumption DEF Good, Holds, Request
<1>3. Cardinality(q.tried) = q.attempt BY <1>1 DEF Good, Counts, Selecting
<1>4. again \in Request BY <1>1 DEF Request, Steps
<1>5. /\ again.pc = "again" /\ again.account = a /\ again.tried = q.tried
      /\ again.attempt = q.attempt
  BY <1>1 DEF Request
<1>6. Good(again)
  BY <1>2, <1>3, <1>5 DEF Good, Looks, Holds, Counts, Sent, Last, Selecting
<1>7. ASSUME a \notin q.tried PROVE send \in Request /\ Good(send)
  <2>1. send \in Request BY <1>1, <1>2 DEF Request, Steps
  <2>2. /\ send.pc = "send" /\ send.account = a /\ send.tried = q.tried \cup {a}
        /\ send.attempt = q.attempt
    BY <1>1 DEF Request
  <2>3. Cardinality(q.tried \cup {a}) = q.attempt + 1
    <3>1. IsFiniteSet(q.tried) BY <1>2, Small, FS_Subset
    <3> QED BY <1>3, <1>7, <3>1, FS_AddElement
  <2> HIDE DEF send
  <2> QED BY <1>2, <2>1, <2>2, <2>3
          DEF Good, Looks, Holds, Counts, Sent, Last, Selecting
<1>8. req' \in [Requests -> Request] /\ \A s \in Requests : Good(req'[s])
  BY <1>4, <1>6, <1>7, OneChanges DEF Count
<1>9. counters' \in [Accounts -> Nat] BY <1>2 DEF Count, IInv, TypeOK
<1> QED BY <1>8, <1>9 DEF Count, IInv, TypeOK

LEMMA Disables ==
  ASSUME IInv, NEW a, DisableAccountTemporarily(a)
  PROVE  disabledUntil' \in [Accounts -> 0 .. MaxTime + Cooldown]
<1>1. now + Cooldown \in 0 .. MaxTime + Cooldown
  BY PoolAssumption DEF IInv, TypeOK
<1> QED BY <1>1 DEF DisableAccountTemporarily, IInv, TypeOK

LEMMA SelectAgainKeeps == ASSUME IInv, NEW r \in Requests, SelectAgain(r) PROVE IInv'
<1> DEFINE q == req[r]
           n == [q EXCEPT !.tries = @ + 1, !.pc = "begin"]
<1>1. q \in Request /\ Good(q) /\ q.pc = "again"
  BY DEF IInv, TypeOK, SelectAgain
<1>2. NoAccount(r) \in Request /\ Good(NoAccount(r)) BY <1>1, NoAccountIs
<1>3. ASSUME q.tries + 1 # N PROVE n \in Request /\ Good(n)
  <2>1. q.tries + 1 \in 0 .. N - 1 BY <1>1, <1>3, PoolAssumption DEF Request
  <2>2. n \in Request BY <1>1, <2>1 DEF Request, Steps
  <2>3. n.pc = "begin" /\ n.tried = q.tried /\ n.attempt = q.attempt
    BY <1>1 DEF Request
  <2>4. Cardinality(q.tried) = q.attempt BY <1>1 DEF Good, Counts, Selecting
  <2> HIDE DEF n
  <2> QED BY <2>2, <2>3, <2>4 DEF Good, Looks, Holds, Counts, Sent, Last, Selecting
<1>4. req' \in [Requests -> Request] /\ \A s \in Requests : Good(req'[s])
  BY <1>2, <1>3, OneChanges DEF SelectAgain
<1>5. disabledUntil' \in [Accounts -> 0 .. MaxTime + Cooldown]
  BY Disables DEF SelectAgain
<1> QED BY <1>4, <1>5 DEF SelectAgain, IInv, TypeOK

(* After a rotatable answer an account is left only before attempt N - 1.  *)
LEMMA AnswerKeeps ==
  ASSUME IInv, NEW r \in Requests, NEW x \in Answers, Answer(r, x)
  PROVE  IInv'
<1> DEFINE q == req[r]
           a == q.account
           rotate == [q EXCEPT !.pc = "begin", !.attempt = @ + 1, !.tries = 0,
                               !.answer = x]
           settle == [q EXCEPT !.pc = "settle", !.answer = x]
           rotates == a # 0 /\ q.attempt < N - 1 /\ x \in Rotatable \cup {"lost"}
<1>1. q \in Request /\ Good(q) /\ q.pc = "send" BY DEF IInv, TypeOK, Answer
<1>2. \/ a = 0 /\ q.tried = {} /\ q.attempt = 0
      \/ a \in Accounts /\ Cardinality(q.tried) = q.attempt + 1
  BY <1>1 DEF Good, Sent
<1>3. ASSUME rotates PROVE rotate \in Request /\ Good(rotate)
  <2>1. q.attempt + 1 \in 0 .. N - 1 BY <1>1, <1>3, PoolAssumption DEF Request
  <2>2. rotate \in Request BY <1>1, <2>1, Zero DEF Request, Steps
  <2>3. /\ rotate.pc = "begin" /\ rotate.tried = q.tried
        /\ rotate.attempt = q.attempt + 1
    BY <1>1 DEF Request
  <2> HIDE DEF rotate
  <2> QED BY <1>2, <1>3, <2>2, <2>3
          DEF Good, Looks, Holds, Counts, Sent, Last, Selecting
<1>4. ASSUME ~ rotates PROVE settle \in Request /\ Good(settle)
  <2>1. settle \in Request BY <1>1 DEF Request, Steps
  <2>2. /\ settle.pc = "settle" /\ settle.tried = q.tried
        /\ settle.attempt = q.attempt /\ settle.account = a /\ settle.answer = x
    BY <1>1 DEF Request
  <2>3. a # 0 /\ x \in Rotatable => q.attempt = N - 1
    BY <1>1, <1>4, PoolAssumption DEF Request
  <2> HIDE DEF settle
  <2> QED BY <1>2, <2>1, <2>2, <2>3
          DEF Good, Looks, Holds, Counts, Sent, Last, Selecting
<1>5. \/ rotates /\ Goes(r, rotate) /\ DisableAccountTemporarily(a)
      \/ ~ rotates /\ Goes(r, settle) /\ UNCHANGED disabledUntil
  BY DEF Answer
<1>6. req' \in [Requests -> Request] /\ \A s \in Requests : Good(req'[s])
  <2> HIDE DEF rotates, rotate, settle
  <2> QED BY <1>3, <1>4, <1>5, OneChanges
<1>7. disabledUntil' \in [Accounts -> 0 .. MaxTime + Cooldown]
  BY <1>5, Disables DEF IInv, TypeOK
<1>8. sends' \in [Requests -> [Accounts -> Nat]]
  <2>1. CASE a = 0 BY <2>1 DEF Answer, IInv, TypeOK
  <2>2. CASE a # 0
    <3>1. sends[r] \in [Accounts -> Nat] BY DEF IInv, TypeOK
    <3>2. [sends[r] EXCEPT ![a] = @ + 1] \in [Accounts -> Nat]
      BY <1>2, <2>2, <3>1
    <3> QED BY <2>2, <3>2 DEF Answer, IInv, TypeOK
  <2> QED BY <2>1, <2>2
<1> QED BY <1>6, <1>7, <1>8 DEF Answer, IInv, TypeOK

LEMMA SettleKeeps == ASSUME IInv, NEW r \in Requests, Settle(r) PROVE IInv'
<1> DEFINE q == req[r]
           retry == [q EXCEPT !.pc = "begin", !.execution = @ + 1, !.attempt = 0,
                              !.tries = 0, !.tried = {}]
           end(o) == [q EXCEPT !.pc = "done", !.outcome = o]
<1>1. q \in Request BY DEF IInv, TypeOK
<1>2. ASSUME NEW o \in Outcomes PROVE end(o) \in Request /\ Good(end(o))
  <2>1. end(o) \in Request BY <1>1 DEF Request, Steps
  <2>2. end(o).pc = "done" BY <1>1 DEF Request
  <2> HIDE DEF end
  <2> QED BY <2>1, <2>2, Elsewhere
<1>3. ASSUME q.execution < Retries PROVE retry \in Request /\ Good(retry)
  <2>1. q.execution + 1 \in 0 .. Retries BY <1>1, <1>3, PoolAssumption DEF Request
  <2>2. retry \in Request BY <1>1, <2>1, Zero DEF Request, Steps
  <2>3. retry.pc = "begin" /\ retry.tried = {} /\ retry.attempt = 0
    BY <1>1 DEF Request
  <2> HIDE DEF retry
  <2> QED BY <2>2, <2>3, Small DEF Good, Looks, Holds, Counts, Sent, Last, Selecting
<1>4. \/ \E o \in Outcomes : Goes(r, end(o))
      \/ q.execution < Retries /\ Goes(r, retry)
  BY DEF Settle, Ends, Outcomes
<1> HIDE DEF retry, end
<1>5. req' \in [Requests -> Request] /\ \A s \in Requests : Good(req'[s])
  BY <1>2, <1>3, <1>4, OneChanges
<1> QED BY <1>5 DEF Settle, IInv, TypeOK

LEMMA LeaveKeeps == ASSUME IInv, NEW r \in Requests, Leave(r) PROVE IInv'
<1>1. Idle \in Request
  BY Zero DEF Idle, Request, Steps, Outcomes
<1>2. Good(Idle) BY Elsewhere DEF Idle
<1>3. req' \in [Requests -> Request] /\ \A s \in Requests : Good(req'[s])
  BY <1>1, <1>2, OneChanges DEF Leave
<1> QED BY <1>3 DEF Leave, IInv, TypeOK

LEMMA TickKeeps == IInv /\ Tick => IInv'
<1> SUFFICES ASSUME IInv, Tick PROVE IInv' OBVIOUS
<1>1. now' \in 0 .. MaxTime BY PoolAssumption DEF Tick, IInv, TypeOK
<1> QED BY <1>1 DEF Tick, IInv, TypeOK

LEMMA Inductive == IInv /\ [Next]_vars => IInv'
<1> SUFFICES ASSUME IInv, [Next]_vars PROVE IInv' OBVIOUS
<1>1. CASE Tick BY <1>1, TickKeeps
<1>2. CASE UNCHANGED vars BY <1>2 DEF vars, IInv, TypeOK
<1>3. CASE Idling BY <1>3, <1>2 DEF Idling
<1>4. ASSUME NEW r \in Requests, Start(r) \/ Step(r) PROVE IInv'
  BY <1>4, StartKeeps, BeginKeeps, LookKeeps, ClearKeeps, PickKeeps, CountKeeps,
     SelectAgainKeeps, AnswerKeeps, SettleKeeps, LeaveKeeps DEF Step
<1> QED BY <1>1, <1>2, <1>3, <1>4 DEF Next

(* The invariant is what the theorems need.                                *)
LEMMA Exhausted == IInv => ExhaustedMeansAllTried
<1> SUFFICES ASSUME IInv, NEW r \in Requests, req[r].pc = "settle", PoolExhausted(r)
             PROVE  req[r].tried = Accounts
  BY DEF ExhaustedMeansAllTried
<1>1. req[r] \in Request /\ Good(req[r]) BY DEF IInv, TypeOK
<1>2. req[r].tried # {} /\ req[r].answer \in Rotatable BY DEF PoolExhausted
<1>3. /\ req[r].account \in Accounts
      /\ Cardinality(req[r].tried) = req[r].attempt + 1
  BY <1>1, <1>2 DEF Good, Sent
<1>4. req[r].account # 0 BY <1>3, PoolAssumption DEF Accounts
<1>5. req[r].attempt = N - 1 BY <1>1, <1>2, <1>4 DEF Good, Last
<1>6. Cardinality(req[r].tried) = N BY <1>3, <1>5, PoolAssumption
<1> QED BY <1>1, <1>6, Small, FS_Subset DEF Request

(***************************************************************************)
(* Every request, account, clock and counter stays in its range.           *)
(***************************************************************************)
THEOREM TypeCorrect == Spec => []TypeOK
<1>1. IInv => TypeOK BY DEF IInv
<1> QED BY <1>1, Initially, Inductive, PTL DEF Spec

(***************************************************************************)
(* Whatever the size of the pool, the weights, the strategy and the number *)
(* of requests that share it: a pool that is declared exhausted for a      *)
(* request, so that the engine does not execute it again, is one of which  *)
(* this request has tried every account (Execute, tryBillingFallback).     *)
(***************************************************************************)
THEOREM PoolExhaustion == Spec => []ExhaustedMeansAllTried
  BY Initially, Inductive, Exhausted, PTL DEF Spec

-------------------------------------------------------------------------------
(* No key is used twice by one execution of the node. *)

(* The answers after which the engine executes a request again though the   *)
(* pool is not exhausted: those without a body, and those it misreads.      *)
Repeated == {"empty", "lost", "cut", "misread"}
NoneRepeated == Answers \cap Repeated = {}

(* The accounts whose keys this execution has called with, and how often    *)
(* executions before it can have called with any one key.                   *)
Called(q) == IF q.pc = "send" THEN q.tried \ {q.account} ELSE q.tried
Earlier(q) == IF NoneRepeated THEN 0 ELSE q.execution
Most == IF NoneRepeated THEN 1 ELSE Retries + 1

Used(q, s) == \A a \in Accounts :
    s[a] <= IF q.pc = "idle" THEN Most
            ELSE Earlier(q) + (IF a \in Called(q) THEN 1 ELSE 0)

Marked(q) == q.pc = "send" /\ q.account # 0 => q.account \in q.tried

UsesOf(r) == Used(req[r], sends[r]) /\ Marked(req[r])
Uses == \A r \in Requests : UsesOf(r)

(* How often one key is called for one request, whatever the answers.       *)
KeyUsesBounded == \A r \in Requests, a \in Accounts : sends[r][a] <= Most

(* A step between two calls. *)
LEMMA BetweenCalls ==
  ASSUME NEW q, NEW n, NEW s, Used(q, s),
         q.pc \notin {"idle", "send"}, n.pc # "idle",
         n.tried = q.tried, n.execution = q.execution,
         n.pc = "send" => n.account = 0
  PROVE  Used(n, s) /\ Marked(n)
<1>1. 0 \notin Accounts BY PoolAssumption DEF Accounts
<1>2. \A a \in Accounts : a \in Called(n) <=> a \in Called(q) BY <1>1 DEF Called
<1> QED BY <1>2 DEF Used, Earlier, Marked

(* It is enough to look at the request that takes the step. *)
LEMMA UsesOfOne ==
  ASSUME IInv, Uses, NEW r \in Requests, NEW q, Goes(r, q), UNCHANGED sends,
         Used(q, sends[r]), Marked(q)
  PROVE  Uses'
<1>1. req' = [req EXCEPT ![r] = q] /\ sends' = sends /\ req \in [Requests -> Request]
  BY DEF Goes, IInv, TypeOK
<1>2. \A t \in Requests : req'[t] = IF t = r THEN q ELSE req[t] BY <1>1
<1> QED BY <1>1, <1>2 DEF Uses, UsesOf

LEMMA SelectionUses ==
  ASSUME IInv, Uses, NEW r \in Requests,
         Begin(r) \/ Look(r) \/ Clear(r) \/ Pick(r) \/ SelectAgain(r)
  PROVE  Uses'
<1> DEFINE q == req[r]
<1>1. q \in Request /\ Used(q, sends[r]) /\ UNCHANGED sends
  BY DEF IInv, TypeOK, Uses, UsesOf, Begin, Look, Clear, Pick, SelectAgain
<1> DEFINE Quiet(n) == /\ q.pc \notin {"idle", "send"} /\ n.pc # "idle"
                       /\ n.tried = q.tried /\ n.execution = q.execution
                       /\ n.pc = "send" => n.account = 0
<1>2. SUFFICES \E n : Goes(r, n) /\ Quiet(n)
  <2>1. ASSUME NEW n, Goes(r, n), Quiet(n) PROVE Uses'
    BY <1>1, <2>1, BetweenCalls, UsesOfOne
  <2> QED BY <2>1
<1>3. ASSUME q.pc \in {"look", "clear"}, NEW h
      PROVE  Quiet(Past(r, h))
  BY <1>1, <1>3 DEF Past, Request
<1>4. ASSUME q.pc \in {"pick", "again"} PROVE Quiet(NoAccount(r))
  BY <1>1, <1>4 DEF NoAccount, Request
<1>5. CASE Begin(r)
  <2> DEFINE n == [q EXCEPT !.pc = "look", !.began = now, !.next = 1, !.healthy = {}]
  <2>1. Goes(r, n) BY <1>5 DEF Begin
  <2>2. Quiet(n) BY <1>1, <1>5 DEF Begin, Request
  <2> QED BY <2>1, <2>2
<1>6. CASE Look(r)
  <2> DEFINE n == [q EXCEPT !.pc = "clear"]
  <2>1. Quiet(n) BY <1>1, <1>6 DEF Look, Request
  <2>2. q.pc = "look" BY <1>6 DEF Look
  <2>3. Goes(r, n) \/ \E h : Goes(r, Past(r, h)) BY <1>6 DEF Look
  <2> HIDE DEF n, Quiet
  <2> QED BY <2>1, <2>2, <2>3, <1>3
<1>7. CASE Clear(r)
  <2>1. q.pc = "clear" /\ \E h : Goes(r, Past(r, h)) BY <1>7 DEF Clear
  <2> HIDE DEF Quiet
  <2> QED BY <2>1, <1>3
<1>8. CASE Pick(r)
  <2> DEFINE n(a) == [q EXCEPT !.pc = "count", !.account = a]
  <2>1. q.pc = "pick" /\ (Goes(r, NoAccount(r)) \/ \E a : Goes(r, n(a))) BY <1>8 DEF Pick
  <2>2. ASSUME NEW a PROVE Quiet(n(a)) BY <1>1, <2>1 DEF Request
  <2> HIDE DEF n, Quiet
  <2> QED BY <2>1, <2>2, <1>4
<1>9. CASE SelectAgain(r)
  <2> DEFINE n == [q EXCEPT !.tries = @ + 1, !.pc = "begin"]
  <2>1. q.pc = "again" /\ (Goes(r, NoAccount(r)) \/ Goes(r, n)) BY <1>9 DEF SelectAgain
  <2>2. Quiet(n) BY <1>1, <2>1 DEF Request
  <2> HIDE DEF n, Quiet
  <2> QED BY <2>1, <2>2, <1>4
<1> QED BY <1>5, <1>6, <1>7, <1>8, <1>9

LEMMA CountUses == ASSUME IInv, Uses, NEW r \in Requests, Count(r) PROVE Uses'
<1> DEFINE q == req[r]
           a == q.account
           again == [q EXCEPT !.pc = "again"]
           send == [q EXCEPT !.pc = "send", !.tried = @ \cup {a}]
<1>1. q \in Request /\ Used(q, sends[r]) /\ q.pc = "count" /\ UNCHANGED sends
  BY DEF IInv, TypeOK, Uses, UsesOf, Count
<1>2. Used(again, sends[r]) /\ Marked(again)
  <2>1. /\ again.pc = "again" /\ again.tried = q.tried
        /\ again.execution = q.execution
    BY <1>1 DEF Request
  <2> HIDE DEF again
  <2> QED BY <1>1, <2>1, BetweenCalls
<1>3. ASSUME a \notin q.tried PROVE Used(send, sends[r]) /\ Marked(send)
  <2>1. /\ send.pc = "send" /\ send.tried = q.tried \cup {a}
        /\ send.execution = q.execution /\ send.account = a
    BY <1>1 DEF Request
  <2> HIDE DEF send
  <2>2. Called(send) = Called(q) BY <1>1, <1>3, <2>1 DEF Called
  <2> QED BY <1>1, <2>1, <2>2 DEF Used, Earlier, Marked
<1>4. Goes(r, again) \/ (a \notin q.tried /\ Goes(r, send))
  <2>1. Goes(r, IF a \in q.tried THEN again ELSE send) BY DEF Count
  <2> HIDE DEF again, send
  <2> QED BY <2>1 DEF Goes
<1> HIDE DEF again, send
<1> QED BY <1>1, <1>2, <1>3, <1>4, UsesOfOne

(* The one step that calls. *)
LEMMA AnswerUses ==
  ASSUME IInv, Uses, NEW r \in Requests, NEW x \in Answers, Answer(r, x)
  PROVE  Uses'
<1> DEFINE q == req[r]
           a == q.account
           n == req'[r]
<1>1. /\ q \in Request /\ Good(q) /\ Used(q, sends[r]) /\ Marked(q) /\ q.pc = "send"
      /\ req \in [Requests -> Request] /\ sends \in [Requests -> [Accounts -> Nat]]
  BY DEF IInv, TypeOK, Uses, UsesOf, Answer
<1>2. /\ n.pc \in {"begin", "settle"} /\ n.tried = q.tried
      /\ n.execution = q.execution
      /\ \A t \in Requests \ {r} : req'[t] = req[t]
  <2> DEFINE rotate == [q EXCEPT !.pc = "begin", !.attempt = @ + 1, !.tries = 0,
                                 !.answer = x]
             settle == [q EXCEPT !.pc = "settle", !.answer = x]
  <2>1. /\ rotate.pc = "begin" /\ rotate.tried = q.tried
        /\ rotate.execution = q.execution
    BY <1>1 DEF Request
  <2>2. /\ settle.pc = "settle" /\ settle.tried = q.tried
        /\ settle.execution = q.execution
    BY <1>1 DEF Request
  <2>3. Goes(r, rotate) \/ Goes(r, settle) BY DEF Answer
  <2> HIDE DEF rotate, settle
  <2> QED BY <1>1, <2>1, <2>2, <2>3 DEF Goes
<1>3. \A t \in Requests \ {r} : sends'[t] = sends[t] BY <1>1 DEF Answer
<1>4. \A b \in Accounts : sends'[r][b] = sends[r][b] + (IF b = a THEN 1 ELSE 0)
  <2>1. 0 \notin Accounts BY PoolAssumption DEF Accounts
  <2>2. sends[r] \in [Accounts -> Nat] BY <1>1
  <2>3. CASE a = 0 BY <2>1, <2>2, <2>3 DEF Answer
  <2>4. CASE a # 0
    <3>1. sends' = [sends EXCEPT ![r][a] = @ + 1] BY <2>4 DEF Answer
    <3>2. sends'[r] = [sends[r] EXCEPT ![a] = @ + 1] BY <3>1, <1>1
    <3> QED BY <2>2, <3>2
  <2> QED BY <2>3, <2>4
<1>5. \A b \in Accounts : b = a => b \in q.tried BY <1>1, PoolAssumption DEF Marked, Accounts
<1>6. Used(n, sends'[r])
  <2> SUFFICES ASSUME NEW b \in Accounts
               PROVE  sends'[r][b] <= Earlier(n) + (IF b \in Called(n) THEN 1 ELSE 0)
    BY <1>2 DEF Used
  <2>1. Called(n) = q.tried /\ Called(q) = q.tried \ {a} BY <1>1, <1>2 DEF Called
  <2>2. Earlier(n) = Earlier(q) /\ Earlier(q) \in Nat
    BY <1>1, <1>2, PoolAssumption DEF Earlier, Request
  <2>3. sends[r][b] <= Earlier(q) + (IF b \in Called(q) THEN 1 ELSE 0)
    BY <1>1 DEF Used
  <2>4. sends[r][b] \in Nat BY <1>1
  <2> HIDE DEF n, q
  <2> QED BY <1>4, <1>5, <2>1, <2>2, <2>3, <2>4
<1>7. Marked(n) BY <1>2 DEF Marked
<1> QED BY <1>2, <1>3, <1>6, <1>7 DEF Uses, UsesOf

(* A request is executed again after an answer that is repeated, or when it *)
(* had no key to call with.                                                 *)
LEMMA SettleUses == ASSUME IInv, Uses, NEW r \in Requests, Settle(r) PROVE Uses'
<1> DEFINE q == req[r]
           retry == [q EXCEPT !.pc = "begin", !.execution = @ + 1, !.attempt = 0,
                              !.tries = 0, !.tried = {}]
           end(o) == [q EXCEPT !.pc = "done", !.outcome = o]
<1>1. /\ q \in Request /\ Used(q, sends[r]) /\ q.pc = "settle" /\ UNCHANGED sends
      /\ sends[r] \in [Accounts -> Nat]
  BY DEF IInv, TypeOK, Uses, UsesOf, Settle
<1>2. ASSUME NEW o PROVE Used(end(o), sends[r]) /\ Marked(end(o))
  <2>1. /\ end(o).pc = "done" /\ end(o).tried = q.tried
        /\ end(o).execution = q.execution
    BY <1>1 DEF Request
  <2> HIDE DEF end
  <2> QED BY <1>1, <2>1, BetweenCalls
<1>3. ASSUME IsRetryable(r) PROVE Used(retry, sends[r]) /\ Marked(retry)
  <2>1. /\ retry.pc = "begin" /\ retry.tried = {}
        /\ retry.execution = q.execution + 1 /\ q.execution \in Nat
    BY <1>1, PoolAssumption DEF Request
  <2> HIDE DEF retry
  <2>2. \A a \in Accounts :
            sends[r][a] <= Earlier(q) + (IF a \in q.tried THEN 1 ELSE 0)
    BY <1>1 DEF Used, Called
  <2>3. CASE NoneRepeated
    <3>1. q.answer \notin Repeated BY <2>3, <1>1 DEF NoneRepeated, Repeated, Request
    <3>2. q.tried = {}
      BY <1>3, <3>1 DEF IsRetryable, PoolExhausted, Rotatable, Repeated
    <3>3. Earlier(q) = 0 /\ Earlier(retry) = 0 BY <2>3 DEF Earlier
    <3> QED BY <2>1, <2>2, <3>2, <3>3 DEF Used, Called, Marked
  <2>4. CASE ~ NoneRepeated
    <3>1. Earlier(q) = q.execution /\ Earlier(retry) = q.execution + 1
      BY <2>1, <2>4 DEF Earlier
    <3>2. \A a \in Accounts : sends[r][a] <= q.execution + 1
      BY <1>1, <2>1, <2>2, <3>1
    <3> QED BY <2>1, <3>1, <3>2 DEF Used, Called, Marked
  <2> QED BY <2>3, <2>4
<1>4. (\E o : Goes(r, end(o))) \/ (IsRetryable(r) /\ Goes(r, retry))
  <2>1. \/ \E o \in Outcomes : Ends(r, o)
        \/ IsRetryable(r) /\ Goes(r, retry)
    BY DEF Settle, Outcomes
  <2> QED BY <2>1 DEF Ends
<1> HIDE DEF retry, end
<1> QED BY <1>1, <1>2, <1>3, <1>4, UsesOfOne

LEMMA UsesInductive == IInv /\ Uses /\ [Next]_vars => Uses'
<1> SUFFICES ASSUME IInv, Uses, [Next]_vars PROVE Uses' OBVIOUS
<1>1. CASE UNCHANGED <<req, sends>> BY <1>1 DEF Uses, UsesOf
<1>2. ASSUME NEW r \in Requests, Start(r) PROVE Uses'
  <2> DEFINE n == [Idle EXCEPT !.pc = "begin"]
  <2>1. n.pc = "begin" /\ n.tried = {} /\ n.execution = 0 BY DEF Idle
  <2>2. /\ req' = [req EXCEPT ![r] = n] /\ sends' = [sends EXCEPT ![r] = NoSends]
        /\ req \in [Requests -> Request] /\ sends \in [Requests -> [Accounts -> Nat]]
    BY <1>2 DEF Start, Goes, IInv, TypeOK
  <2> HIDE DEF n
  <2>3. Used(n, NoSends) /\ Marked(n)
    BY <2>1 DEF Used, Called, Earlier, Marked, NoSends
  <2> QED BY <2>2, <2>3 DEF Uses, UsesOf
<1>3. ASSUME NEW r \in Requests, Leave(r) PROVE Uses'
  <2>1. /\ Used(req[r], sends[r]) /\ req[r].pc = "done" /\ UNCHANGED sends
        /\ req[r].execution \in 0 .. Retries /\ sends[r] \in [Accounts -> Nat]
    BY <1>3 DEF Leave, IInv, TypeOK, Uses, UsesOf, Request
  <2>2. \A a \in Accounts : sends[r][a] <= Earlier(req[r]) + 1
    BY <2>1, PoolAssumption DEF Used, Earlier
  <2>3. Earlier(req[r]) + 1 <= Most BY <2>1, PoolAssumption DEF Earlier, Most
  <2>4. Used(Idle, sends[r])
    BY <2>1, <2>2, <2>3, PoolAssumption DEF Used, Idle, Earlier, Most
  <2>5. Marked(Idle) BY DEF Marked, Idle
  <2> QED BY <1>3, <2>1, <2>4, <2>5, UsesOfOne DEF Leave
<1>4. ASSUME NEW r \in Requests, Step(r) PROVE Uses'
  BY <1>3, <1>4, SelectionUses, CountUses, AnswerUses, SettleUses DEF Step
<1> QED BY <1>1, <1>2, <1>4 DEF Next, Tick, Idling, vars

LEMMA UsesHold == Spec => [](IInv /\ Uses)
<1>1. Init => Uses
  <2>1. \A a \in Accounts : NoSends[a] <= Most BY PoolAssumption DEF NoSends, Most
  <2> QED BY <2>1 DEF Init, Uses, UsesOf, Used, Marked, Idle
<1> QED BY <1>1, Initially, Inductive, UsesInductive, PTL DEF Spec

LEMMA UsesAreFew == IInv /\ Uses => KeyUsesBounded
<1> SUFFICES ASSUME IInv, Uses, NEW r \in Requests, NEW a \in Accounts
             PROVE  sends[r][a] <= Most
  BY DEF KeyUsesBounded
<1>1. /\ sends[r][a] \in Nat /\ req[r].execution \in 0 .. Retries
      /\ Used(req[r], sends[r])
  BY DEF IInv, TypeOK, Request, Uses, UsesOf
<1> QED BY <1>1, PoolAssumption DEF Used, Most, Earlier

(***************************************************************************)
(* Whatever the upstream answers, a key is used at most once for each      *)
(* execution of a request's node (Execute, executeWithRetry).              *)
(***************************************************************************)
THEOREM KeyUsesAreBounded == Spec => []KeyUsesBounded
  BY UsesHold, UsesAreFew, PTL

(***************************************************************************)
(* And once for the request, whatever the number of retries, as long as    *)
(* every answer has a body and is none the engine misreads: any other      *)
(* error comes with an exhausted pool or is final, and the engine does not *)
(* execute that request again.  (A 402 that names no bill is one that is   *)
(* misread: IsRetryableError calls its status retryable.)                  *)
(***************************************************************************)
THEOREM KeysUsedOnce == ASSUME NoneRepeated PROVE Spec => []AnsweredOnceEach
<1>1. KeyUsesBounded => AnsweredOnceEach BY DEF KeyUsesBounded, AnsweredOnceEach, Most
<1> QED BY <1>1, KeyUsesAreBounded, PTL

-------------------------------------------------------------------------------
(* The load of a pool in which no account is put to rest. *)

(* No answer rotates the keys, and every request goes by the weights.       *)
Restless == /\ Answers \cap (Rotatable \cup {"lost"}) = {}
            /\ Strategy = "round_robin"

(* So every selection finds all accounts healthy, and its first account is  *)
(* the one it uses.                                                         *)
CalmOf(q) == /\ q.attempt = 0 /\ q.pc \notin {"clear", "again"}
             /\ q.pc = "look" => q.healthy = 1 .. q.next - 1
             /\ q.pc = "pick" => q.healthy = Accounts

Calm == /\ \A a \in Accounts : disabledUntil[a] = 0
        /\ \A r \in Requests : CalmOf(req[r])

(* The requests that have picked an account and have yet to count it: the   *)
(* next to pick may not know of them.                                       *)
Picked(a) == {r \in Requests : req[r].pc = "count" /\ req[r].account = a}

Even == \A a, b \in Accounts :
    (counters[a] + Cardinality(Picked(a))) * Weight[b] <=
        counters[b] * Weight[a] + Cardinality(Requests) * Weight[b]

LEMMA CalmOfOne ==
  ASSUME IInv, Calm, NEW r \in Requests, NEW q, Goes(r, q), CalmOf(q),
         UNCHANGED disabledUntil
  PROVE  Calm'
<1>1. req' = [req EXCEPT ![r] = q] /\ req \in [Requests -> Request]
  BY DEF Goes, IInv, TypeOK
<1>2. \A t \in Requests : req'[t] = IF t = r THEN q ELSE req[t] BY <1>1
<1> QED BY <1>2 DEF Calm

LEMMA CalmStep ==
  ASSUME Restless, IInv, Calm, NEW r \in Requests, Start(r) \/ Step(r)
  PROVE  Calm'
<1> DEFINE q == req[r]
<1>1. q \in Request /\ Good(q) /\ CalmOf(q) /\ \A a \in Accounts : disabledUntil[a] = 0
  BY DEF IInv, TypeOK, Calm
<1>2. ASSUME Start(r) \/ Leave(r) PROVE Calm'
  <2> DEFINE n == [Idle EXCEPT !.pc = "begin"]
  <2>1. CalmOf(Idle) /\ CalmOf(n) BY DEF CalmOf, Idle
  <2>2. (Goes(r, Idle) \/ Goes(r, n)) /\ UNCHANGED disabledUntil
    BY <1>2 DEF Start, Leave
  <2> HIDE DEF n
  <2> QED BY <2>1, <2>2, CalmOfOne
<1>3. ASSUME Begin(r) PROVE Calm'
  <2> DEFINE n == [q EXCEPT !.pc = "look", !.began = now, !.next = 1, !.healthy = {}]
  <2>1. n.pc = "look" /\ n.next = 1 /\ n.healthy = {} /\ n.attempt = q.attempt
    BY <1>1 DEF Request
  <2>2. Goes(r, n) /\ UNCHANGED disabledUntil BY <1>3 DEF Begin
  <2> HIDE DEF n
  <2>3. CalmOf(n) BY <1>1, <2>1 DEF CalmOf
  <2> QED BY <2>2, <2>3, CalmOfOne
<1>4. ASSUME Look(r) PROVE Calm'
  <2> DEFINE a == q.next
             n == Past(r, q.healthy \cup {a})
  <2>1. q.pc = "look" /\ a \in 1 .. N /\ UNCHANGED disabledUntil
    BY <1>1, <1>4, PoolAssumption DEF Look, Good, Looks, Request
  <2>2. Goes(r, n) BY <1>1, <1>4, <2>1 DEF Look, Accounts, Goes
  <2>3. /\ n.pc = (IF a = N THEN "pick" ELSE "look") /\ n.next = a + 1
        /\ n.healthy = q.healthy \cup {a} /\ n.attempt = q.attempt
    BY <1>1 DEF Past, Request
  <2>4. q.healthy = 1 .. a - 1 BY <1>1, <2>1 DEF CalmOf
  <2>5. n.healthy = 1 .. a
    <3>1. a \in Nat /\ 1 <= a BY <2>1, PoolAssumption
    <3>2. n.healthy = (1 .. a - 1) \cup {a} BY <2>3, <2>4
    <3> HIDE DEF n, a
    <3> QED BY <3>1, <3>2
  <2>6. CalmOf(n)
    <3>1. n.attempt = 0 /\ n.pc \notin {"clear", "again"}
      BY <1>1, <2>3 DEF CalmOf
    <3>2. n.pc = "look" => n.healthy = 1 .. n.next - 1
      <4>1. a \in Nat /\ n.next - 1 = a BY <2>1, <2>3, PoolAssumption
      <4> HIDE DEF n, a
      <4> QED BY <2>5, <4>1
    <3>3. n.pc = "pick" => n.healthy = Accounts
      <4> HIDE DEF n, a
      <4> QED BY <2>3, <2>5 DEF Accounts
    <3> HIDE DEF n, a
    <3> QED BY <3>1, <3>2, <3>3 DEF CalmOf
  <2> HIDE DEF n
  <2> QED BY <2>1, <2>2, <2>6, CalmOfOne
<1>5. ASSUME Pick(r) PROVE Calm'
  <2> DEFINE n(a) == [q EXCEPT !.pc = "count", !.account = a]
  <2>1. q.healthy = Accounts BY <1>1, <1>5 DEF Pick, CalmOf
  <2>2. 1 \in Accounts BY PoolAssumption DEF Accounts
  <2>3. (\E a : Goes(r, n(a))) /\ UNCHANGED disabledUntil BY <1>5, <2>1, <2>2 DEF Pick
  <2>4. ASSUME NEW a PROVE CalmOf(n(a)) BY <1>1 DEF CalmOf, Request
  <2> HIDE DEF n
  <2> QED BY <2>3, <2>4, CalmOfOne
<1>6. ASSUME Count(r) PROVE Calm'
  <2> DEFINE n == [q EXCEPT !.pc = "send", !.tried = @ \cup {q.account}]
  <2>1. q.tried = {}
    <3>1. Cardinality(q.tried) = 0 /\ q.tried \in SUBSET Accounts
      BY <1>1, <1>6 DEF Count, Good, Counts, Selecting, CalmOf, Request
    <3> QED BY <3>1, Small, FS_Subset, FS_EmptySet
  <2>2. Goes(r, n) /\ UNCHANGED disabledUntil BY <1>6, <2>1 DEF Count, Goes
  <2>3. CalmOf(n) BY <1>1 DEF CalmOf, Request
  <2> HIDE DEF n
  <2> QED BY <2>2, <2>3, CalmOfOne
<1>7. ASSUME NEW x \in Answers, Answer(r, x) PROVE Calm'
  <2> DEFINE n == [q EXCEPT !.pc = "settle", !.answer = x]
  <2>1. x \notin Rotatable \cup {"lost"} BY DEF Restless
  <2>2. Goes(r, n) /\ UNCHANGED disabledUntil BY <1>7, <2>1 DEF Answer
  <2>3. CalmOf(n) BY <1>1 DEF CalmOf, Request
  <2> HIDE DEF n
  <2> QED BY <2>2, <2>3, CalmOfOne
<1>8. ASSUME Settle(r) PROVE Calm'
  <2> DEFINE retry == [q EXCEPT !.pc = "begin", !.execution = @ + 1, !.attempt = 0,
                                !.tries = 0, !.tried = {}]
             end(o) == [q EXCEPT !.pc = "done", !.outcome = o]
  <2>1. UNCHANGED disabledUntil /\ ((\E o : Goes(r, end(o))) \/ Goes(r, retry))
    <3>1. (\E o \in Outcomes : Ends(r, o)) \/ Goes(r, retry)
      BY <1>8 DEF Settle, Outcomes
    <3> QED BY <1>8, <3>1 DEF Ends, Settle
  <2>2. CalmOf(retry) BY <1>1 DEF CalmOf, Request
  <2>3. ASSUME NEW o PROVE CalmOf(end(o)) BY <1>1 DEF CalmOf, Request
  <2> HIDE DEF retry, end
  <2> QED BY <2>1, <2>2, <2>3, CalmOfOne
<1>9. ~ Clear(r) /\ ~ SelectAgain(r) BY <1>1 DEF Clear, SelectAgain, CalmOf
<1> QED BY <1>2, <1>3, <1>4, <1>5, <1>6, <1>7, <1>8, <1>9 DEF Step

LEMMA PickedIsFinite ==
  ASSUME NEW a
  PROVE  /\ IsFiniteSet(Picked(a)) /\ Cardinality(Picked(a)) \in Nat
         /\ Cardinality(Requests) \in Nat
         /\ Cardinality(Picked(a)) <= Cardinality(Requests)
BY PoolAssumption, FS_Subset, FS_CardinalityType DEF Picked

(* Who else is to count a given account does not change.                    *)
LEMMA PickedElsewhere ==
  ASSUME IInv, NEW r \in Requests, NEW q, Goes(r, q), NEW a,
         ~ (q.pc = "count" /\ q.account = a),
         ~ (req[r].pc = "count" /\ req[r].account = a)
  PROVE  Picked(a)' = Picked(a)
<1>1. \A t \in Requests : req'[t] = IF t = r THEN q ELSE req[t]
  BY DEF Goes, IInv, TypeOK
<1> QED BY <1>1 DEF Picked

LEMMA EvenUnlessCounted ==
  ASSUME IInv, Even, NEW r \in Requests, NEW q, Goes(r, q),
         q.pc # "count", req[r].pc # "count", UNCHANGED counters
  PROVE  Even'
<1>1. \A a \in Accounts : Picked(a)' = Picked(a) BY PickedElsewhere
<1> QED BY <1>1 DEF Even

LEMMA PickIsEven ==
  ASSUME Restless, IInv, Calm, Even, NEW r \in Requests, Pick(r)
  PROVE  Even'
<1> DEFINE q == req[r]
           n(a) == [q EXCEPT !.pc = "count", !.account = a]
<1>1. /\ q \in Request /\ q.pc = "pick" /\ q.healthy = Accounts
      /\ counters \in [Accounts -> Nat] /\ counters' = counters
  BY DEF IInv, TypeOK, Pick, Calm, CalmOf
<1>2. PICK a \in Accounts : Goes(r, n(a)) /\ LeastUsed(a, Accounts, Weight)
  <2>1. 1 \in Accounts BY PoolAssumption DEF Accounts
  <2> QED BY <1>1, <2>1 DEF Pick, Restless
<1>3. n(a).pc = "count" /\ n(a).account = a BY <1>1 DEF Request
<1> HIDE DEF n
<1>4. r \notin Picked(a) /\ Picked(a)' = Picked(a) \cup {r}
  <2>1. \A t \in Requests : req'[t] = IF t = r THEN n(a) ELSE req[t]
    BY <1>2 DEF Goes, IInv, TypeOK
  <2> QED BY <1>1, <1>3, <2>1 DEF Picked
<1>5. \A b \in Accounts \ {a} : Picked(b)' = Picked(b)
  BY <1>1, <1>2, <1>3, PickedElsewhere
<1>6. ASSUME NEW b \in Accounts
      PROVE  (counters[a] + Cardinality(Picked(a)')) * Weight[b] <=
                 counters[b] * Weight[a] + Cardinality(Requests) * Weight[b]
  <2> DEFINE k == Cardinality(Picked(a)')
             m == Cardinality(Requests)
  <2>1. k \in Nat /\ m \in Nat /\ k <= m
    <3>1. Picked(a)' \subseteq Requests BY <1>4 DEF Picked
    <3> QED BY <3>1, PoolAssumption, FS_Subset, FS_CardinalityType
  <2>2. /\ counters[a] \in Nat /\ counters[b] \in Nat
        /\ Weight[a] \in Nat /\ Weight[b] \in Nat
    BY <1>1, PoolAssumption
  <2>3. counters[a] * Weight[b] <= counters[b] * Weight[a]
    BY <1>2, <2>2 DEF LeastUsed
  <2> HIDE DEF k, m
  <2>4. k * Weight[b] <= m * Weight[b] BY <2>1, <2>2
  <2>5. (counters[a] + k) * Weight[b] = counters[a] * Weight[b] + k * Weight[b]
    BY <2>1, <2>2
  <2>6. /\ counters[a] * Weight[b] \in Nat /\ counters[b] * Weight[a] \in Nat
        /\ k * Weight[b] \in Nat /\ m * Weight[b] \in Nat
    BY <2>1, <2>2
  <2>7. (counters[a] + k) * Weight[b] <= counters[b] * Weight[a] + m * Weight[b]
    BY <2>3, <2>4, <2>5, <2>6
  <2> QED BY <2>7 DEF k, m
<1> QED BY <1>1, <1>5, <1>6 DEF Even

LEMMA CountIsEven ==
  ASSUME IInv, Even, NEW r \in Requests, Count(r)
  PROVE  Even'
<1> DEFINE q == req[r]
<1> PICK c : c = q.account OBVIOUS
<1>1. q \in Request /\ q.pc = "count" /\ c \in Accounts
      /\ counters \in [Accounts -> Nat] /\ counters' = [counters EXCEPT ![c] = @ + 1]
  BY DEF IInv, TypeOK, Count, Good, Holds
<1>2. req'[r].pc # "count" /\ \A t \in Requests \ {r} : req'[t] = req[t]
  <2> DEFINE again == [q EXCEPT !.pc = "again"]
             send == [q EXCEPT !.pc = "send", !.tried = @ \cup {q.account}]
  <2>1. again.pc = "again" /\ send.pc = "send" BY <1>1 DEF Request
  <2>2. Goes(r, IF q.account \in q.tried THEN again ELSE send) BY DEF Count
  <2> HIDE DEF again, send
  <2> QED BY <2>1, <2>2 DEF Goes, IInv, TypeOK
<1>3. r \in Picked(c) /\ \A b : Picked(b)' = Picked(b) \ {r} BY <1>1, <1>2 DEF Picked
<1>4. \A b \in Accounts \ {c} : Picked(b)' = Picked(b) BY <1>1, <1>3 DEF Picked
<1>5. Cardinality(Picked(c)') = Cardinality(Picked(c)) - 1
  <2>1. Cardinality(Picked(c) \ {r}) = Cardinality(Picked(c)) - 1
    BY <1>3, PickedIsFinite, FS_RemoveElement
  <2> QED BY <1>3, <2>1
<1> SUFFICES ASSUME NEW a \in Accounts, NEW b \in Accounts
             PROVE  (counters'[a] + Cardinality(Picked(a)')) * Weight[b] <=
                        counters'[b] * Weight[a] + Cardinality(Requests) * Weight[b]
  BY DEF Even
<1>6. counters'[a] + Cardinality(Picked(a)') = counters[a] + Cardinality(Picked(a))
  <2>1. Cardinality(Picked(c)) \in Nat /\ counters[c] \in Nat
    BY <1>1, PickedIsFinite
  <2>2. CASE a = c BY <1>1, <1>5, <2>1, <2>2
  <2>3. CASE a # c BY <1>1, <1>4, <2>3
  <2> QED BY <2>2, <2>3
<1>7. counters[b] * Weight[a] <= counters'[b] * Weight[a]
  <2>1. counters[b] \in Nat /\ counters'[b] \in {counters[b], counters[b] + 1} /\ Weight[a] \in Nat
    BY <1>1, PoolAssumption
  <2> QED BY <2>1
<1>8. /\ counters[b] * Weight[a] \in Nat /\ counters'[b] * Weight[a] \in Nat
      /\ Cardinality(Requests) * Weight[b] \in Nat
      /\ (counters[a] + Cardinality(Picked(a))) * Weight[b] \in Nat
  <2>1. /\ counters[b] \in Nat /\ counters'[b] \in Nat /\ Weight[a] \in Nat
        /\ Weight[b] \in Nat /\ counters[a] \in Nat
        /\ Cardinality(Requests) \in Nat /\ Cardinality(Picked(a)) \in Nat
    <3>1. counters' \in [Accounts -> Nat] BY <1>1
    <3> QED BY <1>1, <3>1, PickedIsFinite, PoolAssumption
  <2> QED BY <2>1
<1>9. (counters[a] + Cardinality(Picked(a))) * Weight[b] <=
          counters[b] * Weight[a] + Cardinality(Requests) * Weight[b]
  BY DEF Even
<1> QED BY <1>6, <1>7, <1>8, <1>9

LEMMA EvenStep ==
  ASSUME Restless, IInv, Calm, Even, NEW r \in Requests, Start(r) \/ Step(r)
  PROVE  Even'
<1> DEFINE q == req[r]
           n == req'[r]
<1>1. q \in Request /\ CalmOf(q) /\ req \in [Requests -> Request]
  BY DEF IInv, TypeOK, Calm
<1>2. CASE Pick(r) BY <1>2, PickIsEven
<1>3. CASE Count(r) BY <1>3, CountIsEven
<1>4. CASE Start(r) \/ Leave(r)
  <2>1. Idle.pc = "idle" /\ [Idle EXCEPT !.pc = "begin"].pc = "begin" BY DEF Idle
  <2> QED BY <1>4, <2>1, EvenUnlessCounted DEF Start, Leave
<1>5. CASE Begin(r)
  <2> DEFINE to == [q EXCEPT !.pc = "look", !.began = now, !.next = 1, !.healthy = {}]
  <2>1. to.pc = "look" BY <1>1 DEF Request
  <2> QED BY <1>5, <2>1, EvenUnlessCounted DEF Begin
<1>6. CASE Look(r)
  <2> DEFINE to == [q EXCEPT !.pc = "clear"]
  <2>1. to.pc = "clear" BY <1>1 DEF Request
  <2>2. ASSUME NEW h PROVE Past(r, h).pc # "count" BY <1>1 DEF Past, Request
  <2>3. Goes(r, to) \/ \E h : Goes(r, Past(r, h)) BY <1>6 DEF Look
  <2>4. q.pc = "look" /\ UNCHANGED counters BY <1>6 DEF Look
  <2> HIDE DEF to
  <2> QED BY <2>1, <2>2, <2>3, <2>4, EvenUnlessCounted
<1>7. CASE \E x \in Answers : Answer(r, x)
  <2> PICK x \in Answers : Answer(r, x) BY <1>7
  <2> DEFINE rotate == [q EXCEPT !.pc = "begin", !.attempt = @ + 1, !.tries = 0,
                                 !.answer = x]
             settle == [q EXCEPT !.pc = "settle", !.answer = x]
  <2>1. rotate.pc = "begin" /\ settle.pc = "settle" BY <1>1 DEF Request
  <2>2. (Goes(r, rotate) \/ Goes(r, settle)) /\ q.pc = "send" /\ UNCHANGED counters
    BY DEF Answer
  <2> HIDE DEF rotate, settle
  <2> QED BY <2>1, <2>2, EvenUnlessCounted
<1>8. CASE Settle(r)
  <2> DEFINE retry == [q EXCEPT !.pc = "begin", !.execution = @ + 1, !.attempt = 0,
                                !.tries = 0, !.tried = {}]
             end(o) == [q EXCEPT !.pc = "done", !.outcome = o]
  <2>1. (\E o : Goes(r, end(o))) \/ Goes(r, retry)
    <3>1. (\E o \in Outcomes : Ends(r, o)) \/ Goes(r, retry)
      BY <1>8 DEF Settle, Outcomes
    <3> QED BY <3>1 DEF Ends
  <2>2. retry.pc = "begin" /\ \A o : end(o).pc = "done" BY <1>1 DEF Request
  <2>3. q.pc = "settle" /\ UNCHANGED counters BY <1>8 DEF Settle
  <2> HIDE DEF retry, end
  <2> QED BY <2>1, <2>2, <2>3, EvenUnlessCounted
<1>9. ~ Clear(r) /\ ~ SelectAgain(r) BY <1>1 DEF Clear, SelectAgain, CalmOf
<1> QED BY <1>2, <1>3, <1>4, <1>5, <1>6, <1>7, <1>8, <1>9 DEF Step

LEMMA EvenInitially == Init => Calm /\ Even
<1> SUFFICES ASSUME Init PROVE Calm /\ Even OBVIOUS
<1>1. Calm BY DEF Init, Calm, CalmOf, Idle
<1>2. \A a \in Accounts : counters[a] = 0 /\ Picked(a) = {} BY DEF Init, Picked, Idle
<1>3. \A b \in Accounts : Weight[b] \in Nat /\ Cardinality(Requests) \in Nat
  BY PickedIsFinite, PoolAssumption
<1>4. \A b \in Accounts : Cardinality(Requests) * Weight[b] \in Nat BY <1>3
<1>5. Even
  <2> SUFFICES ASSUME NEW a \in Accounts, NEW b \in Accounts
               PROVE  (0 + Cardinality({})) * Weight[b] <=
                          0 * Weight[a] + Cardinality(Requests) * Weight[b]
    BY <1>2 DEF Even
  <2>1. (0 + 0) * Weight[b] = 0 /\ 0 * Weight[a] = 0 BY <1>3
  <2> QED BY <1>4, <2>1, Small
<1> QED BY <1>1, <1>5

LEMMA EvenInductive == Restless /\ IInv /\ Calm /\ Even /\ [Next]_vars => Calm' /\ Even'
<1> SUFFICES ASSUME Restless, IInv, Calm, Even, [Next]_vars PROVE Calm' /\ Even'
  OBVIOUS
<1>1. CASE UNCHANGED <<req, counters, disabledUntil>>
  BY <1>1 DEF Calm, Even, Picked
<1>2. ASSUME NEW r \in Requests, Start(r) \/ Step(r) PROVE Calm' /\ Even'
  BY <1>2, CalmStep, EvenStep
<1> QED BY <1>1, <1>2 DEF Next, Tick, Idling, vars

LEMMA EvenLoad == IInv /\ Even => LoadFollowsWeights
<1> SUFFICES ASSUME IInv, Even, NEW a \in Accounts, NEW b \in Accounts
             PROVE  counters[a] * Weight[b] <=
                        counters[b] * Weight[a] + Cardinality(Requests) * Weight[b]
  BY DEF LoadFollowsWeights
<1> DEFINE k == Cardinality(Picked(a))
           m == Cardinality(Requests)
<1>1. /\ counters[a] \in Nat /\ counters[b] \in Nat /\ Weight[a] \in Nat
      /\ Weight[b] \in Nat /\ k \in Nat /\ m \in Nat
  BY PickedIsFinite, PoolAssumption DEF IInv, TypeOK
<1>2. (counters[a] + k) * Weight[b] <= counters[b] * Weight[a] + m * Weight[b]
  BY DEF Even
<1> HIDE DEF k, m
<1>3. counters[a] * Weight[b] <= (counters[a] + k) * Weight[b] BY <1>1
<1>4. /\ counters[a] * Weight[b] \in Nat /\ (counters[a] + k) * Weight[b] \in Nat
      /\ counters[b] * Weight[a] + m * Weight[b] \in Nat
  BY <1>1
<1>5. counters[a] * Weight[b] <= counters[b] * Weight[a] + m * Weight[b]
  BY <1>2, <1>3, <1>4
<1> QED BY <1>5 DEF m

(***************************************************************************)
(* Whatever the weights, and however many requests select at a time: while *)
(* none is rejected, no account is ahead of another by more than those     *)
(* requests (selectRoundRobin reads the counters, and a request counts     *)
(* itself only afterwards).                                                *)
(***************************************************************************)
THEOREM WeightedLoad == ASSUME Restless PROVE Spec => []LoadFollowsWeights
<1>1. Init => IInv /\ Calm /\ Even BY Initially, EvenInitially
<1>2. IInv /\ Calm /\ Even /\ [Next]_vars => (IInv /\ Calm /\ Even)'
  BY Inductive, EvenInductive
<1> QED BY <1>1, <1>2, EvenLoad, PTL DEF Spec

-------------------------------------------------------------------------------
(* Sessions, before the first rest runs out. *)

Early == now < Cooldown

(* A rest that was begun lasts until then,                                  *)
Rests == \A a \in Accounts : disabledUntil[a] = 0 \/ disabledUntil[a] >= Cooldown

(* so an account that a selection has left out rests to that time.          *)
LeftOut(q, a) == a \notin q.healthy => disabledUntil[a] # 0

Reading(q) == /\ q.began <= now
              /\ Early => /\ q.pc # "clear"
                          /\ q.pc = "look" => \A a \in 1 .. q.next - 1 : LeftOut(q, a)
                          /\ q.pc = "pick" => \A a \in Accounts : LeftOut(q, a)

UsesAccount == {"count", "again", "send", "settle"}

Stuck(q, s) == s # NoSession /\ q.pc \in UsesAccount /\ q.account # 0 =>
                   q.account = sessions[s] \/ disabledUntil[q.account] # 0

StickyOf(r) == Strategy = "sticky_session" /\ Early => Stuck(req[r], Session[r])

SInv == Rests /\ \A r \in Requests : Reading(req[r]) /\ StickyOf(r)

(* No rest is ended early: only a reader that finds one expired ends it.    *)
LEMMA RestsGoOn ==
  ASSUME IInv, SInv, NEW r \in Requests, Start(r) \/ Step(r)
  PROVE  /\ Rests' /\ now' = now
         /\ Early => \A a \in Accounts : disabledUntil[a] # 0 => disabledUntil'[a] # 0
<1> DEFINE Goal == /\ Rests'
                   /\ Early => \A a \in Accounts : disabledUntil[a] # 0 => disabledUntil'[a] # 0
<1>1. /\ now \in Nat /\ disabledUntil \in [Accounts -> 0 .. MaxTime + Cooldown] /\ Rests
      /\ Reading(req[r])
  BY PoolAssumption DEF IInv, TypeOK, SInv
<1>2. now' = now
  BY DEF Start, Step, Begin, Look, Clear, Pick, Count, SelectAgain, Settle, Leave, Answer
<1>3. CASE UNCHANGED disabledUntil BY <1>1, <1>2, <1>3 DEF Rests
<1>4. ASSUME NEW a, DisableAccountTemporarily(a) PROVE Goal
  <2>1. now + Cooldown >= Cooldown /\ now + Cooldown # 0 BY <1>1, PoolAssumption
  <2>2. \A b \in Accounts : disabledUntil'[b] = IF b = a THEN now + Cooldown ELSE disabledUntil[b]
    BY <1>1, <1>4 DEF DisableAccountTemporarily
  <2> QED BY <1>1, <2>1, <2>2 DEF Rests
<1>5. CASE Clear(r)
  <2>1. disabledUntil' = [disabledUntil EXCEPT ![req[r].next] = 0] /\ ~ Early
    BY <1>1, <1>5 DEF Clear, Reading
  <2>2. \A b \in Accounts : disabledUntil'[b] \in {0, disabledUntil[b]} BY <1>1, <2>1
  <2> QED BY <1>1, <1>2, <2>1, <2>2 DEF Rests
<1>6. Clear(r) \/ UNCHANGED disabledUntil \/ \E a : DisableAccountTemporarily(a)
  BY DEF Start, Step, Begin, Look, Pick, Count, SelectAgain, Settle, Leave, Answer
<1> QED BY <1>2, <1>3, <1>4, <1>5, <1>6

LEMMA AccountOfPool ==
  ASSUME IInv, NEW r \in Requests, req[r].account # 0
  PROVE  req[r].account \in Accounts
<1>1. req[r].account \in 0 .. N BY DEF IInv, TypeOK, Request
<1> QED BY <1>1, PoolAssumption DEF Accounts

(* The requests that take no step. *)
LEMMA OthersRead ==
  ASSUME IInv, SInv, NEW r \in Requests, Start(r) \/ Step(r),
         NEW t \in Requests, req'[t] = req[t]
  PROVE  Reading(req[t])'
<1>1. /\ now' = now /\ Reading(req[t])
      /\ Early => \A a \in Accounts : disabledUntil[a] # 0 => disabledUntil'[a] # 0
  BY RestsGoOn DEF SInv
<1>2. req[t] \in Request /\ Good(req[t]) BY DEF IInv, TypeOK
<1>3. req[t].pc = "look" => \A a \in 1 .. req[t].next - 1 : a \in Accounts
  <2>1. req[t].next \in 1 .. N + 1 BY <1>2 DEF Request
  <2>2. req[t].pc = "look" => req[t].next <= N BY <1>2 DEF Good, Looks
  <2> QED BY <2>1, <2>2, PoolAssumption DEF Accounts
<1>4. ASSUME Early, NEW a \in Accounts, LeftOut(req[t], a) PROVE LeftOut(req[t], a)'
  BY <1>1, <1>4 DEF LeftOut
<1> QED BY <1>1, <1>3, <1>4 DEF Reading, Early

LEMMA OthersStick ==
  ASSUME IInv, SInv, NEW r \in Requests, Start(r) \/ Step(r), UNCHANGED sessions,
         NEW t \in Requests, req'[t] = req[t]
  PROVE  StickyOf(t)'
<1>1. /\ now' = now /\ StickyOf(t)
      /\ Early => \A a \in Accounts : disabledUntil[a] # 0 => disabledUntil'[a] # 0
  BY RestsGoOn DEF SInv
<1>2. req[t].account # 0 => req[t].account \in Accounts
  BY AccountOfPool
<1> QED BY <1>1, <1>2 DEF StickyOf, Stuck, Early

(* The one that does, when it keeps its account or uses none.               *)
LEMMA SameAccountSticks ==
  ASSUME IInv, SInv, NEW r \in Requests, Start(r) \/ Step(r), UNCHANGED sessions,
         NEW n, Goes(r, n),
         \/ n.pc \notin UsesAccount \/ n.account = 0
         \/ n.account = req[r].account /\ req[r].pc \in UsesAccount
  PROVE  StickyOf(r)'
<1>1. /\ now' = now /\ StickyOf(r)
      /\ Early => \A a \in Accounts : disabledUntil[a] # 0 => disabledUntil'[a] # 0
  BY RestsGoOn DEF SInv
<1>2. req[r].account # 0 => req[r].account \in Accounts
  BY AccountOfPool
<1>3. req'[r] = n BY DEF Goes, IInv, TypeOK
<1> QED BY <1>1, <1>2, <1>3 DEF StickyOf, Stuck, Early

(* A reader that does not go through the accounts.                          *)
LEMMA NotReading ==
  ASSUME IInv, SInv, NEW r \in Requests, now' = now, NEW n, Goes(r, n),
         n.pc \notin {"look", "clear", "pick"},
         n.began = req[r].began \/ n.began = 0
  PROVE  Reading(req[r])'
<1>1. req'[r] = n BY DEF Goes, IInv, TypeOK
<1>2. req[r].began <= now /\ 0 <= now
  BY PoolAssumption DEF SInv, Reading, IInv, TypeOK
<1> QED BY <1>1, <1>2 DEF Reading

LEMMA StepOfOne ==
  ASSUME IInv, SInv, NEW r \in Requests, Start(r) \/ Step(r), UNCHANGED sessions,
         NEW n, Goes(r, n), Reading(req[r])',
         \/ n.pc \notin UsesAccount \/ n.account = 0
         \/ n.account = req[r].account /\ req[r].pc \in UsesAccount
  PROVE  SInv'
<1>1. \A t \in Requests \ {r} : req'[t] = req[t] BY DEF Goes, IInv, TypeOK
<1>2. \A t \in Requests \ {r} : Reading(req[t])' /\ StickyOf(t)'
  BY <1>1, OthersRead, OthersStick
<1>3. Rests' BY RestsGoOn
<1>4. StickyOf(r)' BY SameAccountSticks
<1> QED BY <1>2, <1>3, <1>4 DEF SInv

LEMMA QuietSticks ==
  ASSUME IInv, SInv, NEW r \in Requests, Start(r) \/ Step(r), UNCHANGED sessions,
         NEW n, Goes(r, n), n.pc \notin {"look", "clear", "pick"},
         n.began = req[r].began \/ n.began = 0,
         \/ n.pc \notin UsesAccount \/ n.account = 0
         \/ n.account = req[r].account /\ req[r].pc \in UsesAccount
  PROVE  SInv'
<1>1. now' = now BY RestsGoOn
<1> QED BY <1>1, NotReading, StepOfOne

LEMMA BeginSticks == ASSUME IInv, SInv, NEW r \in Requests, Begin(r) PROVE SInv'
<1> DEFINE q == req[r]
           n == [q EXCEPT !.pc = "look", !.began = now, !.next = 1, !.healthy = {}]
<1>1. q \in Request /\ now \in 0 .. MaxTime /\ Goes(r, n) /\ UNCHANGED <<now, sessions>>
  BY DEF IInv, TypeOK, Begin
<1>2. n.pc = "look" /\ n.began = now /\ n.next = 1 BY <1>1 DEF Request
<1>3. req'[r] = n BY <1>1 DEF Goes, IInv, TypeOK
<1> HIDE DEF n
<1>4. 1 .. 1 - 1 = {} /\ now <= now BY <1>1, PoolAssumption
<1>5. /\ req'[r].pc = "look" /\ req'[r].next = 1 /\ req'[r].began = now
      /\ now' = now
  BY <1>1, <1>2, <1>3
<1>6. Reading(req[r])' BY <1>4, <1>5 DEF Reading
<1>7. Step(r) BY DEF Step
<1> QED BY <1>1, <1>2, <1>6, <1>7, StepOfOne DEF UsesAccount

(* An account is left out only when its rest had not ended when the reader  *)
(* began: before the first rest has run out, none is found expired.         *)
LEMMA LookSticks == ASSUME IInv, SInv, NEW r \in Requests, Look(r) PROVE SInv'
<1> DEFINE q == req[r]
           a == q.next
           healthy == IF disabledUntil[a] = 0 THEN q.healthy \cup {a} ELSE q.healthy
           past == Past(r, healthy)
           clear == [q EXCEPT !.pc = "clear"]
<1>1. /\ q \in Request /\ q.pc = "look" /\ a \in 1 .. N /\ Reading(q) /\ Rests
      /\ now \in Nat /\ q.began \in Nat
      /\ disabledUntil \in [Accounts -> 0 .. MaxTime + Cooldown]
      /\ UNCHANGED <<now, sessions, disabledUntil>>
  BY PoolAssumption DEF IInv, TypeOK, Look, SInv, Good, Looks, Request
<1>2. a \in Accounts /\ disabledUntil[a] \in Nat BY <1>1, PoolAssumption DEF Accounts
<1>3. \/ Goes(r, past) /\ (disabledUntil[a] = 0 \/ q.began < disabledUntil[a])
      \/ Goes(r, clear) /\ disabledUntil[a] # 0 /\ ~ q.began < disabledUntil[a]
  <2>1. CASE disabledUntil[a] = 0 BY <2>1 DEF Look, Goes
  <2>2. CASE disabledUntil[a] # 0 /\ q.began < disabledUntil[a] BY <2>2 DEF Look, Goes
  <2>3. CASE disabledUntil[a] # 0 /\ ~ q.began < disabledUntil[a]
    BY <2>3 DEF Look, Goes
  <2> QED BY <2>1, <2>2, <2>3
<1>4. /\ past.pc = (IF a = N THEN "pick" ELSE "look") /\ past.next = a + 1
      /\ past.healthy = healthy /\ past.began = q.began
      /\ clear.pc = "clear" /\ clear.began = q.began
  BY <1>1 DEF Past, Request
<1>5. Step(r) BY DEF Step
<1>6. \A n : Goes(r, n) => req'[r] = n BY DEF Goes, IInv, TypeOK
<1>7. q.began <= now BY <1>1 DEF Reading
<1> HIDE DEF past, clear
<1>8. CASE Goes(r, past)
  <2>1. ASSUME Early, NEW b \in 1 .. a PROVE b \notin healthy => disabledUntil[b] # 0
    <3>1. CASE b = a BY <3>1
    <3>2. CASE b # a
      <4>1. b \in 1 .. a - 1 BY <3>2, <1>1
      <4> QED BY <4>1, <1>1, <2>1 DEF Reading, LeftOut
    <3> QED BY <3>1, <3>2
  <2> HIDE DEF healthy
  <2>2. past.pc = "look" => past.next - 1 = a BY <1>1, <1>4
  <2>3. past.pc = "pick" => Accounts = 1 .. a BY <1>1, <1>4 DEF Accounts
  <2>4. PICK p : p = past OBVIOUS
  <2>5. Reading(req[r])'
    <3>1. req'[r] = p BY <1>6, <1>8, <2>4
    <3>2. p.began <= now /\ p.pc # "clear" BY <1>1, <1>4, <1>7, <2>4
    <3>3. ASSUME Early, p.pc = "look" PROVE \A b \in 1 .. p.next - 1 : LeftOut(p, b)
      BY <1>4, <2>1, <2>2, <2>4, <3>3 DEF LeftOut
    <3>4. ASSUME Early, p.pc = "pick" PROVE \A b \in Accounts : LeftOut(p, b)
      BY <1>4, <2>1, <2>3, <2>4, <3>4 DEF LeftOut
    <3>5. Reading(p) BY <3>2, <3>3, <3>4 DEF Reading
    <3>6. Reading(p)' BY <1>1, <3>5 DEF Reading, LeftOut, Early
    <3> QED BY <3>1, <3>6 DEF Reading, LeftOut
  <2>6. past.pc \notin UsesAccount BY <1>4 DEF UsesAccount
  <2> QED BY <1>1, <1>5, <1>8, <2>5, <2>6, StepOfOne
<1>9. CASE Goes(r, clear) /\ disabledUntil[a] # 0 /\ ~ q.began < disabledUntil[a]
  <2>1. disabledUntil[a] >= Cooldown BY <1>1, <1>2, <1>9 DEF Rests
  <2>2. ~ Early BY <1>1, <1>2, <1>7, <1>9, <2>1, PoolAssumption DEF Early
  <2>3. req'[r].began = q.began /\ ~ Early' BY <1>1, <1>4, <1>6, <1>9, <2>2 DEF Early
  <2>4. Reading(req[r])' BY <1>1, <1>7, <2>3 DEF Reading
  <2>5. clear.pc \notin UsesAccount BY <1>4 DEF UsesAccount
  <2> QED BY <1>1, <1>5, <1>9, <2>4, <2>5, StepOfOne
<1> QED BY <1>3, <1>8, <1>9

LEMMA ClearSticks == ASSUME IInv, SInv, NEW r \in Requests, Clear(r) PROVE SInv'
<1> DEFINE q == req[r]
           a == q.next
           past == Past(r, q.healthy \cup {a})
<1>1. /\ q \in Request /\ q.pc = "clear" /\ Reading(q)
      /\ UNCHANGED <<now, sessions>> /\ Goes(r, past)
  BY DEF IInv, TypeOK, Clear, SInv
<1>2. past.pc \in {"look", "pick"} /\ past.began = q.began BY <1>1 DEF Past, Request
<1>3. req'[r] = past BY <1>1 DEF Goes, IInv, TypeOK
<1>4. Step(r) BY DEF Step
<1> HIDE DEF past
<1>5. Reading(req[r])' BY <1>1, <1>2, <1>3 DEF Reading, Early
<1> QED BY <1>1, <1>2, <1>4, <1>5, StepOfOne DEF UsesAccount

(* A session is bound anew only when its account was left out, which rests  *)
(* then, whoever may still use it.                                          *)
LEMMA PickSticks == ASSUME IInv, SInv, NEW r \in Requests, Pick(r) PROVE SInv'
<1> DEFINE q == req[r]
           s == Session[r]
           n(a) == [q EXCEPT !.pc = "count", !.account = a]
<1>1. /\ q \in Request /\ q.pc = "pick" /\ Reading(q)
      /\ req \in [Requests -> Request] /\ sessions \in [Sessions -> 0 .. N]
      /\ UNCHANGED <<now, disabledUntil>>
  BY DEF IInv, TypeOK, Pick, SInv
<1>2. Step(r) BY DEF Step
<1>3. CASE Goes(r, NoAccount(r)) /\ UNCHANGED sessions
  <2>1. /\ NoAccount(r).pc \in {"send", "done"} /\ NoAccount(r).account = 0
        /\ NoAccount(r).began = q.began
    BY <1>1 DEF NoAccount, Request
  <2> QED BY <1>2, <1>3, <2>1, QuietSticks
<1>4. ASSUME NEW a \in q.healthy, Goes(r, n(a)),
             IF Strategy = "sticky_session" /\ s # NoSession
             THEN Sticky(s, a, q.healthy) /\ sessions' = [sessions EXCEPT ![s] = a]
             ELSE UNCHANGED sessions
      PROVE  SInv'
  <2>1. /\ n(a).pc = "count" /\ n(a).account = a /\ n(a).began = q.began
    BY <1>1 DEF Request
  <2>2. \A t \in Requests : req'[t] = IF t = r THEN n(a) ELSE req[t]
    BY <1>1, <1>4 DEF Goes
  <2> HIDE DEF n
  <2>3. Rests' /\ Reading(req[r])' BY <1>1, <1>2, <1>4, <2>1, RestsGoOn, NotReading
  <2>4. \A t \in Requests \ {r} : Reading(req[t])' BY <1>2, <2>2, OthersRead
  <2>5. ASSUME NEW t \in Requests, Strategy = "sticky_session", Early,
               Session[t] # NoSession, req'[t].pc \in UsesAccount, req'[t].account # 0
        PROVE  req'[t].account = sessions'[Session[t]] \/ disabledUntil[req'[t].account] # 0
    <3>1. Session[t] \in Sessions /\ (s # NoSession => s \in Sessions)
      BY <2>5 DEF Sessions
    <3>2. CASE t = r BY <1>1, <1>4, <2>1, <2>2, <2>5, <3>1, <3>2
    <3>3. CASE t # r
      <4> DEFINE b == req[t].account
      <4>1. req'[t] = req[t] BY <2>2, <3>3
      <4>2. b = sessions[Session[t]] \/ disabledUntil[b] # 0
        BY <2>5, <4>1 DEF SInv, StickyOf, Stuck
      <4>3. b \in Accounts BY <2>5, <4>1, AccountOfPool
      <4>4. CASE s = NoSession \/ s # Session[t]
        <5>1. sessions'[Session[t]] = sessions[Session[t]] BY <1>1, <1>4, <2>5, <3>1, <4>4
        <5> QED BY <4>1, <4>2, <5>1
      <4>5. CASE s = Session[t] /\ s # NoSession
        <5>1. sessions'[s] = a /\ Sticky(s, a, q.healthy) BY <1>1, <1>4, <2>5, <3>1, <4>5
        <5>2. CASE b \in q.healthy
          <6>1. b = sessions[s] => a = b BY <5>1, <5>2 DEF Sticky
          <6> QED BY <4>1, <4>2, <4>5, <5>1, <6>1
        <5>3. CASE b \notin q.healthy
          BY <1>1, <2>5, <4>1, <4>3, <5>3 DEF Reading, LeftOut
        <5> QED BY <5>2, <5>3
      <4> QED BY <4>4, <4>5
    <3> QED BY <3>2, <3>3
  <2>6. \A t \in Requests : StickyOf(t)' BY <1>1, <2>5 DEF StickyOf, Stuck, Early
  <2> QED BY <2>3, <2>4, <2>6 DEF SInv
<1> HIDE DEF n
<1> QED BY <1>3, <1>4 DEF Pick, n

LEMMA RestSticks ==
  ASSUME IInv, SInv, NEW r \in Requests,
         \/ Start(r) \/ Count(r) \/ SelectAgain(r) \/ Settle(r) \/ Leave(r)
         \/ \E x \in Answers : Answer(r, x)
  PROVE  SInv'
<1> DEFINE q == req[r]
<1>1. q \in Request /\ UNCHANGED sessions
  BY DEF IInv, TypeOK, Start, Count, SelectAgain, Settle, Leave, Answer
<1> DEFINE Fits(n) == /\ n.pc \notin {"look", "clear", "pick"}
                      /\ n.began = q.began \/ n.began = 0
                      /\ \/ n.pc \notin UsesAccount \/ n.account = 0
                         \/ n.account = q.account /\ q.pc \in UsesAccount
<1>2. SUFFICES \E n : Goes(r, n) /\ Fits(n)
  <2>1. Start(r) \/ Step(r) BY DEF Step
  <2> QED BY <1>1, <2>1, QuietSticks
<1>3. CASE Start(r) \/ Leave(r)
  <2> DEFINE n == [Idle EXCEPT !.pc = "begin"]
  <2>1. Fits(Idle) /\ Fits(n) BY DEF Idle, UsesAccount
  <2>2. Goes(r, Idle) \/ Goes(r, n) BY <1>3 DEF Start, Leave
  <2> HIDE DEF n, Fits
  <2> QED BY <2>1, <2>2
<1>4. CASE Count(r)
  <2> DEFINE again == [q EXCEPT !.pc = "again"]
             send == [q EXCEPT !.pc = "send", !.tried = @ \cup {q.account}]
  <2>1. Fits(again) /\ Fits(send) BY <1>1, <1>4 DEF Count, UsesAccount, Request
  <2>2. Goes(r, IF q.account \in q.tried THEN again ELSE send) BY <1>4 DEF Count
  <2> HIDE DEF again, send, Fits
  <2> QED BY <2>1, <2>2
<1>5. CASE SelectAgain(r)
  <2> DEFINE n == [q EXCEPT !.tries = @ + 1, !.pc = "begin"]
  <2>1. Fits(n) /\ Fits(NoAccount(r))
    BY <1>1 DEF NoAccount, UsesAccount, Request
  <2>2. Goes(r, IF q.tries + 1 = N THEN NoAccount(r) ELSE n) BY <1>5 DEF SelectAgain
  <2> HIDE DEF n, Fits
  <2> QED BY <2>1, <2>2
<1>6. CASE \E x \in Answers : Answer(r, x)
  <2> PICK x \in Answers : Answer(r, x) BY <1>6
  <2> DEFINE rotate == [q EXCEPT !.pc = "begin", !.attempt = @ + 1, !.tries = 0,
                                 !.answer = x]
             settle == [q EXCEPT !.pc = "settle", !.answer = x]
  <2>1. q.pc = "send" /\ (Goes(r, rotate) \/ Goes(r, settle)) BY DEF Answer
  <2>2. Fits(rotate) /\ Fits(settle) BY <1>1, <2>1 DEF UsesAccount, Request
  <2> HIDE DEF rotate, settle, Fits
  <2> QED BY <2>1, <2>2
<1>7. CASE Settle(r)
  <2> DEFINE retry == [q EXCEPT !.pc = "begin", !.execution = @ + 1, !.attempt = 0,
                                !.tries = 0, !.tried = {}]
             end(o) == [q EXCEPT !.pc = "done", !.outcome = o]
  <2>1. (\E o : Goes(r, end(o))) \/ Goes(r, retry)
    <3>1. (\E o \in Outcomes : Ends(r, o)) \/ Goes(r, retry)
      BY <1>7 DEF Settle, Outcomes
    <3> QED BY <3>1 DEF Ends
  <2>2. Fits(retry) BY <1>1 DEF UsesAccount, Request
  <2>3. ASSUME NEW o PROVE Fits(end(o)) BY <1>1 DEF UsesAccount, Request
  <2> HIDE DEF retry, end, Fits
  <2> QED BY <2>1, <2>2, <2>3
<1> QED BY <1>3, <1>4, <1>5, <1>6, <1>7

LEMMA SticksInductive == IInv /\ SInv /\ [Next]_vars => SInv'
<1> SUFFICES ASSUME IInv, SInv, [Next]_vars PROVE SInv' OBVIOUS
<1>1. CASE Tick
  <2>1. now \in Nat /\ now' = now + 1 /\ UNCHANGED <<disabledUntil, sessions, req>>
    BY <1>1, PoolAssumption DEF Tick, IInv, TypeOK
  <2>2. Early' => Early BY <2>1, PoolAssumption DEF Early
  <2>3. \A r \in Requests : req[r].began \in Nat /\ Reading(req[r]) /\ StickyOf(r)
    BY PoolAssumption DEF IInv, TypeOK, Request, SInv
  <2>4. \A r \in Requests : req[r].began <= now' BY <2>1, <2>3 DEF Reading
  <2>5. \A r \in Requests : Reading(req[r])'
    BY <2>1, <2>2, <2>3, <2>4 DEF Reading, LeftOut
  <2>6. \A r \in Requests : StickyOf(r)' BY <2>1, <2>2, <2>3 DEF StickyOf, Stuck
  <2> QED BY <2>1, <2>5, <2>6 DEF SInv, Rests
<1>2. CASE UNCHANGED vars
  BY <1>2 DEF vars, SInv, Rests, Reading, LeftOut, StickyOf, Stuck, Early
<1>3. CASE Idling BY <1>2, <1>3 DEF Idling
<1>4. ASSUME NEW r \in Requests, Start(r) \/ Step(r) PROVE SInv'
  BY <1>4, BeginSticks, LookSticks, ClearSticks, PickSticks, RestSticks DEF Step
<1> QED BY <1>1, <1>2, <1>3, <1>4 DEF Next

LEMMA SticksInitially == Init => SInv
BY PoolAssumption DEF Init, SInv, Rests, Reading, StickyOf, Stuck, UsesAccount, Idle

(***************************************************************************)
(* For any number of sessions, requests and accounts: until the first rest *)
(* runs out, a request of a session uses the account that is bound or one  *)
(* that rests, though binding and selecting are separate steps             *)
(* (selectStickySession).                                                  *)
(***************************************************************************)
THEOREM SessionsKeepTheirAccount == Spec => []SessionsStick
<1>1. SInv => SessionsStick
  BY DEF SInv, StickyOf, Stuck, Early, UsesAccount, SessionsStick
<1> QED BY <1>1, Initially, Inductive, SticksInitially, SticksInductive, PTL DEF Spec

-------------------------------------------------------------------------------
(* Requests end *)

(* Where a request is between two selections, the last place being 0. *)
Place(q) == CASE q.pc = "begin"  -> 2 * N + 7
              [] q.pc = "look"   -> 2 * (N + 1 - q.next) + 6
              [] q.pc = "clear"  -> 2 * (N + 1 - q.next) + 5
              [] q.pc = "pick"   -> 5
              [] q.pc = "count"  -> 4
              [] q.pc = "again"  -> 3
              [] q.pc = "send"   -> 2
              [] q.pc = "settle" -> 1
              [] OTHER           -> 0

Live(q) == IF q.pc = "idle" THEN 0 ELSE IF q.pc = "done" THEN 1 ELSE 2

(* What is left of a request, the coarsest part first: executions, attempts  *)
(* of this one, selections of this attempt, and the way through one of them. *)
Remaining(q) == <<Live(q), Retries - q.execution, N - q.attempt, N - q.tries, Place(q)>>

Measures == [1 .. 5 -> Nat]
Less == {ss \in Nat \X Nat : ss[1] < ss[2]}
Smaller == LexProductOrdering(Less, Nat, 5)

Down(q, n) == <<Remaining(n), Remaining(q)>> \in Smaller

LEMMA LessWellFounded == IsWellFoundedOn(Less, Nat)
<1>1. Less = OpToRel(<, Nat) BY SMT DEF Less, OpToRel
<1> QED BY <1>1, NatLessThanWellFounded, Zenon

(* There is no endless sequence of measures each of which is smaller than the *)
(* one before it: with StepsUseUp, no request goes on forever.                *)
THEOREM NoEndlessDescent == IsWellFoundedOn(Smaller, Measures)
BY LessWellFounded, WFLexProductOrdering, Zenon DEF Smaller, Measures

LEMMA Lexicographic ==
  ASSUME NEW a \in Nat, NEW b \in Nat, NEW c \in Nat, NEW d \in Nat, NEW e \in Nat,
         NEW a2 \in Nat, NEW b2 \in Nat, NEW c2 \in Nat, NEW d2 \in Nat, NEW e2 \in Nat,
         \/ a2 < a
         \/ a2 = a /\ b2 < b
         \/ a2 = a /\ b2 = b /\ c2 < c
         \/ a2 = a /\ b2 = b /\ c2 = c /\ d2 < d
         \/ a2 = a /\ b2 = b /\ c2 = c /\ d2 = d /\ e2 < e
  PROVE  <<<<a2, b2, c2, d2, e2>>, <<a, b, c, d, e>>>> \in Smaller
<1> DEFINE s == <<a2, b2, c2, d2, e2>>
           t == <<a, b, c, d, e>>
<1>1. s \in Measures /\ t \in Measures BY DEF Measures
<1>2. /\ s[1] = a2 /\ s[2] = b2 /\ s[3] = c2 /\ s[4] = d2 /\ s[5] = e2
      /\ t[1] = a /\ t[2] = b /\ t[3] = c /\ t[4] = d /\ t[5] = e
  OBVIOUS
<1> HIDE DEF s, t
<1>3. \E j \in 1 .. 5 : /\ \A i \in 1 .. (j - 1) : s[i] = t[i]
                        /\ s[j] < t[j] /\ s[j] \in Nat /\ t[j] \in Nat
  <2>1. CASE a2 < a BY <2>1, <1>2
  <2>2. CASE a2 = a /\ b2 < b BY <2>2, <1>2
  <2>3. CASE a2 = a /\ b2 = b /\ c2 < c BY <2>3, <1>2
  <2>4. CASE a2 = a /\ b2 = b /\ c2 = c /\ d2 < d BY <2>4, <1>2
  <2>5. CASE a2 = a /\ b2 = b /\ c2 = c /\ d2 = d /\ e2 < e BY <2>5, <1>2
  <2> QED BY <2>1, <2>2, <2>3, <2>4, <2>5
<1>4. PICK j \in 1 .. 5 : /\ \A i \in 1 .. (j - 1) : s[i] = t[i]
                          /\ <<s[j], t[j]>> \in Less
  BY <1>3 DEF Less
<1>5. <<s, t>> \in Smaller
  BY <1>1, <1>4 DEF Smaller, LexProductOrdering, Measures
<1> QED BY <1>5 DEF s, t

LEMMA PlaceIs ==
  ASSUME NEW q \in Request
  PROVE  /\ Place(q) \in Nat
         /\ q.pc = "begin" => Place(q) = 2 * N + 7
         /\ q.pc = "look" => Place(q) = 2 * (N + 1 - q.next) + 6
         /\ q.pc = "clear" => Place(q) = 2 * (N + 1 - q.next) + 5
         /\ q.pc = "pick" => Place(q) = 5
         /\ q.pc = "count" => Place(q) = 4
         /\ q.pc = "again" => Place(q) = 3
         /\ q.pc = "send" => Place(q) = 2
         /\ q.pc = "settle" => Place(q) = 1
<1>1. N \in Nat \ {0} /\ q.next \in 1 .. N + 1 /\ q.pc \in Steps
  BY PoolAssumption DEF Request
<1> QED BY <1>1 DEF Place, Steps

(* A request goes down when it uses up an execution, an attempt, a selection *)
(* or a place, and nothing coarser comes back.                               *)
LEMMA GoesDown ==
  ASSUME NEW q \in Request, NEW n \in Request,
         \/ Live(n) < Live(q)
         \/ Live(n) = Live(q) /\ n.execution > q.execution
         \/ Live(n) = Live(q) /\ n.execution = q.execution /\ n.attempt > q.attempt
         \/ /\ Live(n) = Live(q) /\ n.execution = q.execution /\ n.attempt = q.attempt
            /\ n.tries > q.tries
         \/ /\ Live(n) = Live(q) /\ n.execution = q.execution /\ n.attempt = q.attempt
            /\ n.tries = q.tries /\ Place(n) < Place(q)
  PROVE  Down(q, n)
<1>1. /\ N \in Nat \ {0} /\ Retries \in Nat
      /\ q.execution \in 0 .. Retries /\ n.execution \in 0 .. Retries
      /\ q.attempt \in 0 .. N - 1 /\ n.attempt \in 0 .. N - 1
      /\ q.tries \in 0 .. N - 1 /\ n.tries \in 0 .. N - 1
  BY PoolAssumption DEF Request
<1>2. Place(q) \in Nat /\ Place(n) \in Nat BY PlaceIs
<1>3. Live(q) \in Nat /\ Live(n) \in Nat BY DEF Live
<1>4. /\ Retries - q.execution \in Nat /\ Retries - n.execution \in Nat
      /\ N - q.attempt \in Nat /\ N - n.attempt \in Nat
      /\ N - q.tries \in Nat /\ N - n.tries \in Nat
  BY <1>1
<1>5. /\ n.execution > q.execution => Retries - n.execution < Retries - q.execution
      /\ n.attempt > q.attempt => N - n.attempt < N - q.attempt
      /\ n.tries > q.tries => N - n.tries < N - q.tries
  BY <1>1
<1>6. \/ Live(n) < Live(q)
      \/ Live(n) = Live(q) /\ Retries - n.execution < Retries - q.execution
      \/ /\ Live(n) = Live(q) /\ Retries - n.execution = Retries - q.execution
         /\ N - n.attempt < N - q.attempt
      \/ /\ Live(n) = Live(q) /\ Retries - n.execution = Retries - q.execution
         /\ N - n.attempt = N - q.attempt /\ N - n.tries < N - q.tries
      \/ /\ Live(n) = Live(q) /\ Retries - n.execution = Retries - q.execution
         /\ N - n.attempt = N - q.attempt /\ N - n.tries = N - q.tries
         /\ Place(n) < Place(q)
  BY <1>5
<1>7. <<<<Live(n), Retries - n.execution, N - n.attempt, N - n.tries, Place(n)>>,
        <<Live(q), Retries - q.execution, N - q.attempt, N - q.tries, Place(q)>>>> \in Smaller
  BY <1>2, <1>3, <1>4, <1>6, Lexicographic
<1> QED BY <1>7 DEF Down, Remaining

LEMMA PastGoesDown ==
  ASSUME IInv, NEW r \in Requests, req[r].pc \in {"look", "clear"}, NEW h \in SUBSET Accounts
  PROVE  Down(req[r], Past(r, h))
<1> DEFINE q == req[r]
           n == Past(r, h)
<1>1. q \in Request /\ Good(q) /\ n \in Request BY PastIs DEF IInv, TypeOK
<1>2. q.next \in 1 .. N /\ N \in Nat \ {0}
  BY <1>1, PoolAssumption DEF Good, Looks, Request
<1>3. /\ n.pc = IF q.next = N THEN "pick" ELSE "look"
      /\ n.next = q.next + 1 /\ n.execution = q.execution /\ n.attempt = q.attempt
      /\ n.tries = q.tries
  BY <1>1 DEF Past, Request
<1>4. Live(n) = Live(q) BY <1>3 DEF Live
<1> HIDE DEF q, n
<1>5. Place(q) >= 2 * (N + 1 - q.next) + 5 BY <1>1, <1>2, PlaceIs DEF q
<1>6. Place(n) < Place(q)
  <2>1. CASE q.next = N BY <1>1, <1>2, <1>3, <1>5, <2>1, PlaceIs
  <2>2. CASE q.next # N BY <1>1, <1>2, <1>3, <1>5, <2>2, PlaceIs
  <2> QED BY <2>1, <2>2
<1>7. Down(q, n) BY <1>1, <1>3, <1>4, <1>6, GoesDown
<1> QED BY <1>7 DEF q, n

LEMMA NoAccountGoesDown ==
  ASSUME IInv, NEW r \in Requests, req[r].pc \in {"pick", "again"}
  PROVE  Down(req[r], NoAccount(r))
<1> DEFINE q == req[r]
           n == NoAccount(r)
<1>1. q \in Request /\ n \in Request BY NoAccountIs DEF IInv, TypeOK
<1>2. /\ n.pc \in {"send", "done"} /\ n.execution = q.execution /\ n.attempt = q.attempt
      /\ n.tries = q.tries
  BY <1>1 DEF NoAccount, Request
<1>3. CASE n.pc = "done"
  <2>1. Live(n) < Live(q) BY <1>3 DEF Live
  <2> HIDE DEF q, n
  <2>2. Down(q, n) BY <1>1, <2>1, GoesDown
  <2> QED BY <2>2 DEF q, n
<1>4. CASE n.pc = "send"
  <2>1. Live(n) = Live(q) BY <1>4 DEF Live
  <2>2. Place(n) = 2 /\ Place(q) \in {3, 5} BY <1>1, <1>4, PlaceIs
  <2> HIDE DEF q, n
  <2>3. Down(q, n) BY <1>1, <1>2, <2>1, <2>2, GoesDown
  <2> QED BY <2>3 DEF q, n
<1> QED BY <1>2, <1>3, <1>4

LEMMA SelectionGoesDown ==
  ASSUME IInv, NEW r \in Requests,
         Begin(r) \/ Look(r) \/ Clear(r) \/ Pick(r) \/ Count(r) \/ SelectAgain(r)
  PROVE  Down(req[r], req'[r])
<1> DEFINE q == req[r]
<1>1. q \in Request /\ Good(q) /\ req \in [Requests -> Request] BY DEF IInv, TypeOK
<1>2. ASSUME NEW n, Goes(r, n) PROVE req'[r] = n BY <1>1, <1>2 DEF Goes
<1>3. req'[r] \in Request BY Inductive DEF IInv, TypeOK, Next, Step
<1>4. CASE Begin(r)
  <2> DEFINE n == [q EXCEPT !.pc = "look", !.began = now, !.next = 1, !.healthy = {}]
  <2>1. req'[r] = n /\ q.pc = "begin" BY <1>2, <1>4 DEF Begin
  <2>2. /\ n.pc = "look" /\ n.next = 1 /\ n.execution = q.execution
        /\ n.attempt = q.attempt /\ n.tries = q.tries
    BY <1>1 DEF Request
  <2>3. n \in Request BY <1>3, <2>1
  <2> HIDE DEF n, q
  <2>4. Live(n) = Live(q) BY <2>1, <2>2 DEF Live
  <2>5. Place(n) < Place(q)
    <3>1. Place(q) = 2 * N + 7 /\ Place(n) = 2 * (N + 1 - 1) + 6 BY <1>1, <2>1, <2>2, <2>3, PlaceIs
    <3> QED BY <3>1, PoolAssumption
  <2>6. Down(q, n) BY <1>1, <2>2, <2>3, <2>4, <2>5, GoesDown
  <2> QED BY <2>1, <2>6 DEF q
<1>5. CASE Look(r)
  <2> DEFINE n == [q EXCEPT !.pc = "clear"]
  <2>1. q.pc = "look" /\ q.healthy \in SUBSET Accounts /\ q.next \in Accounts
    BY <1>1, <1>5, PoolAssumption DEF Look, Good, Looks, Request, Accounts
  <2>2. \/ req'[r] = n
        \/ req'[r] = Past(r, q.healthy) \/ req'[r] = Past(r, q.healthy \cup {q.next})
    BY <1>2, <1>5 DEF Look
  <2>3. CASE req'[r] = n
    <3>1. /\ n.pc = "clear" /\ n.next = q.next /\ n.execution = q.execution
          /\ n.attempt = q.attempt /\ n.tries = q.tries
      BY <1>1 DEF Request
    <3>2. n \in Request /\ q.next \in 1 .. N + 1 BY <1>1, <1>3, <2>3 DEF Request
    <3> HIDE DEF n, q
    <3>3. Live(n) = Live(q) BY <2>1, <3>1 DEF Live
    <3>4. Place(q) = 2 * (N + 1 - q.next) + 6 BY <1>1, <2>1, PlaceIs
    <3>5. Place(n) = 2 * (N + 1 - q.next) + 5 BY <3>1, <3>2, PlaceIs
    <3>6. Place(n) < Place(q) BY <3>2, <3>4, <3>5, PoolAssumption
    <3>7. Down(q, n) BY <1>1, <3>1, <3>2, <3>3, <3>6, GoesDown
    <3> QED BY <2>3, <3>7 DEF q
  <2>4. CASE req'[r] = Past(r, q.healthy) BY <2>1, <2>4, PastGoesDown
  <2>5. CASE req'[r] = Past(r, q.healthy \cup {q.next})
    <3>1. q.healthy \cup {q.next} \in SUBSET Accounts BY <2>1
    <3> QED BY <2>1, <2>5, <3>1, PastGoesDown
  <2> QED BY <2>2, <2>3, <2>4, <2>5
<1>6. CASE Clear(r)
  <2>1. q.pc = "clear" /\ q.healthy \cup {q.next} \in SUBSET Accounts
    BY <1>1, <1>6, PoolAssumption DEF Clear, Good, Looks, Request, Accounts
  <2>2. req'[r] = Past(r, q.healthy \cup {q.next}) BY <1>2, <1>6 DEF Clear
  <2> QED BY <2>1, <2>2, PastGoesDown
<1>7. CASE Pick(r)
  <2> DEFINE n(a) == [q EXCEPT !.pc = "count", !.account = a]
  <2>1. q.pc = "pick" BY <1>7 DEF Pick
  <2>2. req'[r] = NoAccount(r) \/ \E a \in q.healthy : req'[r] = n(a) BY <1>2, <1>7 DEF Pick
  <2>3. CASE req'[r] = NoAccount(r) BY <2>1, <2>3, NoAccountGoesDown
  <2>4. ASSUME NEW a \in q.healthy, req'[r] = n(a) PROVE Down(q, req'[r])
    <3>1. /\ n(a).pc = "count" /\ n(a).execution = q.execution
          /\ n(a).attempt = q.attempt /\ n(a).tries = q.tries
      BY <1>1 DEF Request
    <3>2. n(a) \in Request BY <1>3, <2>4
    <3> HIDE DEF n, q
    <3>3. Live(n(a)) = Live(q) /\ Place(q) = 5 /\ Place(n(a)) = 4
      BY <1>1, <2>1, <3>1, <3>2, PlaceIs DEF Live
    <3>4. Down(q, n(a)) BY <1>1, <3>1, <3>2, <3>3, GoesDown
    <3> QED BY <2>4, <3>4
  <2> QED BY <2>2, <2>3, <2>4
<1>8. CASE Count(r)
  <2> DEFINE again == [q EXCEPT !.pc = "again"]
             send == [q EXCEPT !.pc = "send", !.tried = @ \cup {q.account}]
  <2>1. q.pc = "count" /\ req'[r] \in {again, send} BY <1>2, <1>8 DEF Count
  <2>2. PICK n : n = req'[r] OBVIOUS
  <2>3. /\ n.pc \in {"again", "send"} /\ n.execution = q.execution
        /\ n.attempt = q.attempt /\ n.tries = q.tries /\ n \in Request
    BY <1>1, <1>3, <2>1, <2>2 DEF Request
  <2> HIDE DEF q, again, send
  <2>4. Live(n) = Live(q) /\ Place(q) = 4 /\ Place(n) \in {2, 3}
    BY <1>1, <2>1, <2>3, PlaceIs DEF Live
  <2>5. Down(q, n) BY <1>1, <2>3, <2>4, GoesDown
  <2> QED BY <2>2, <2>5 DEF q
<1>9. CASE SelectAgain(r)
  <2> DEFINE n == [q EXCEPT !.tries = @ + 1, !.pc = "begin"]
  <2>1. q.pc = "again" /\ req'[r] \in {NoAccount(r), n} BY <1>2, <1>9 DEF SelectAgain
  <2>2. CASE req'[r] = NoAccount(r) BY <2>1, <2>2, NoAccountGoesDown
  <2>3. CASE req'[r] = n
    <3>1. /\ n.pc = "begin" /\ n.execution = q.execution
          /\ n.attempt = q.attempt /\ n.tries = q.tries + 1 /\ n \in Request
          /\ q.tries \in Nat
      BY <1>1, <1>3, <2>3, PoolAssumption DEF Request
    <3> HIDE DEF n, q
    <3>2. Live(n) = Live(q) BY <2>1, <3>1 DEF Live
    <3>3. Down(q, n) BY <1>1, <3>1, <3>2, GoesDown
    <3> QED BY <2>3, <3>3 DEF q
  <2> QED BY <2>1, <2>2, <2>3
<1> QED BY <1>4, <1>5, <1>6, <1>7, <1>8, <1>9

LEMMA CallGoesDown ==
  ASSUME IInv, NEW r \in Requests,
         (\E x \in Answers : Answer(r, x)) \/ Settle(r) \/ Leave(r)
  PROVE  Down(req[r], req'[r])
<1> DEFINE q == req[r]
<1>1. q \in Request /\ req \in [Requests -> Request] BY DEF IInv, TypeOK
<1>2. ASSUME NEW n, Goes(r, n) PROVE req'[r] = n BY <1>1, <1>2 DEF Goes
<1>3. PICK n : n = req'[r] OBVIOUS
<1>4. n \in Request BY <1>3, Inductive DEF IInv, TypeOK, Next, Step
<1>5. CASE \E x \in Answers : Answer(r, x)
  <2>1. PICK x \in Answers : Answer(r, x) BY <1>5
  <2> DEFINE rotate == [q EXCEPT !.pc = "begin", !.attempt = @ + 1, !.tries = 0,
                                 !.answer = x]
             settle == [q EXCEPT !.pc = "settle", !.answer = x]
  <2>2. q.pc = "send" /\ n \in {rotate, settle} BY <1>2, <1>3, <2>1 DEF Answer
  <2>3. /\ n.execution = q.execution /\ q.attempt \in Nat
        /\ \/ n.pc = "begin" /\ n.attempt = q.attempt + 1
           \/ n.pc = "settle" /\ n.attempt = q.attempt /\ n.tries = q.tries
    <3>1. q.attempt \in Nat BY <1>1, PoolAssumption DEF Request
    <3>2. /\ rotate.pc = "begin" /\ rotate.attempt = q.attempt + 1
          /\ rotate.execution = q.execution
      BY <1>1 DEF Request
    <3>3. /\ settle.pc = "settle" /\ settle.attempt = q.attempt
          /\ settle.tries = q.tries /\ settle.execution = q.execution
      BY <1>1 DEF Request
    <3> HIDE DEF q, rotate, settle
    <3> QED BY <2>2, <3>1, <3>2, <3>3
  <2> HIDE DEF q, rotate, settle
  <2>4. Live(n) = Live(q) /\ Place(q) = 2 /\ (n.pc = "settle" => Place(n) = 1)
    BY <1>1, <1>4, <2>2, <2>3, PlaceIs DEF Live
  <2>5. Down(q, n) BY <1>1, <1>4, <2>3, <2>4, GoesDown
  <2> QED BY <1>3, <2>5 DEF q
<1>6. CASE Settle(r)
  <2> DEFINE retry == [q EXCEPT !.pc = "begin", !.execution = @ + 1, !.attempt = 0,
                                !.tries = 0, !.tried = {}]
             end(o) == [q EXCEPT !.pc = "done", !.outcome = o]
  <2>1. q.pc = "settle" /\ (n = retry \/ \E o : n = end(o))
    BY <1>2, <1>3, <1>6 DEF Settle, Ends
  <2>2. q.execution \in Nat /\ (\/ n.pc = "begin" /\ n.execution = q.execution + 1
                                \/ n.pc = "done")
    <3>1. q.execution \in Nat BY <1>1, PoolAssumption DEF Request
    <3>2. retry.pc = "begin" /\ retry.execution = q.execution + 1 BY <1>1 DEF Request
    <3>3. \A o : end(o).pc = "done" BY <1>1 DEF Request
    <3> HIDE DEF q, retry, end
    <3> QED BY <2>1, <3>1, <3>2, <3>3
  <2> HIDE DEF q, retry, end
  <2>3. \/ Live(n) < Live(q)
        \/ Live(n) = Live(q) /\ n.execution > q.execution
    BY <2>1, <2>2 DEF Live
  <2>4. Down(q, n) BY <1>1, <1>4, <2>3, GoesDown
  <2> QED BY <1>3, <2>4 DEF q
<1>7. CASE Leave(r)
  <2>1. q.pc = "done" /\ n = Idle BY <1>2, <1>3, <1>7 DEF Leave
  <2>2. Live(n) < Live(q) BY <2>1 DEF Live, Idle
  <2> HIDE DEF q
  <2>3. Down(q, n) BY <1>1, <1>4, <2>2, GoesDown
  <2> QED BY <1>3, <2>3 DEF q
<1> QED BY <1>5, <1>6, <1>7

(* A request is moved by its own steps only. *)
LEMMA OwnSteps ==
  ASSUME IInv, [Next]_vars, NEW r \in Requests, req'[r] # req[r]
  PROVE  Start(r) \/ Step(r)
<1>1. req \in [Requests -> Request] BY DEF IInv, TypeOK
<1>2. req' # req OBVIOUS
<1>3. PICK s \in Requests : Start(s) \/ Step(s)
  BY <1>2 DEF Next, vars, Tick, Idling
<1>4. \E n : Goes(s, n)
  <2>1. CASE Start(s) \/ Leave(s) BY <2>1 DEF Start, Leave
  <2>2. CASE Begin(s) \/ Look(s) \/ Clear(s) BY <2>2 DEF Begin, Look, Clear
  <2>3. CASE Pick(s) BY <2>3 DEF Pick
  <2>4. CASE Count(s) \/ SelectAgain(s) BY <2>4 DEF Count, SelectAgain
  <2>5. CASE Settle(s) BY <2>5 DEF Settle, Ends
  <2>6. CASE \E x \in Answers : Answer(s, x) BY <2>6 DEF Answer
  <2> QED BY <1>3, <2>1, <2>2, <2>3, <2>4, <2>5, <2>6 DEF Step
<1>5. s = r BY <1>1, <1>4 DEF Goes
<1> QED BY <1>3, <1>5

UsesUp == \A r \in Requests : /\ Step(r) => Down(req[r], req'[r])
                              /\ req'[r] # req[r] => Start(r) \/ Step(r)

(* Every step of a request brings it nearer to its end, whatever is answered, *)
(* and no step of another one takes it back: for any pool and any number of   *)
(* requests that share it, selecting, rotating and retrying cannot go on      *)
(* forever (SelectAccountForRequest, selectUnusedPoolAccount, the loop of     *)
(* TransparentForwardNode.Execute, executeWithRetry).                         *)
THEOREM StepsUseUp == Spec => [][UsesUp]_vars
<1>1. IInv /\ [Next]_vars => [UsesUp]_vars
  BY SelectionGoesDown, CallGoesDown, OwnSteps DEF UsesUp, Step
<1>2. Init => IInv BY Initially
<1> QED BY <1>1, <1>2, Inductive, PTL DEF Spec

(* And none gets stuck: there is always an account to pick. *)

(* A set of numbers that is not empty has a least one. *)
LEMMA LeastOf ==
  ASSUME NEW S \in SUBSET Nat, S # {}
  PROVE  \E i \in S : \A j \in S : i <= j
<1>1. PICK i \in S : \A j \in S : ~ (<<j, i>> \in Less)
  BY LessWellFounded, WFMin, Zenon
<1>2. \A j \in S : ~ (j < i) BY <1>1 DEF Less
<1>3. \A j \in S : i <= j BY <1>2
<1> QED BY <1>3

(* Counts for their weights are compared as fractions are. *)
LEMMA Fractions ==
  ASSUME NEW x \in Nat, NEW y \in Nat, NEW z \in Nat,
         NEW u \in Nat \ {0}, NEW v \in Nat \ {0}, NEW t \in Nat \ {0},
         x * v < y * u, y * t <= z * v
  PROVE  x * t < z * u
<1>1. (x * v) * t < (y * u) * t
  <2>1. x * v \in Nat /\ y * u \in Nat OBVIOUS
  <2> QED BY <2>1
<1>2. (y * t) * u <= (z * v) * u
  <2>1. y * t \in Nat /\ z * v \in Nat OBVIOUS
  <2> QED BY <2>1
<1>3. (x * t) * v < (z * u) * v BY <1>1, <1>2
<1>4. x * t \in Nat /\ z * u \in Nat OBVIOUS
<1> QED BY <1>3, <1>4

LEMMA OneLeastUsed ==
  ASSUME NEW h \in SUBSET Accounts, h # {},
         counters \in [Accounts -> Nat], NEW w \in [Accounts -> Nat \ {0}]
  PROVE  \E a \in h : LeastUsed(a, h, w)
<1> DEFINE H(k) == h \cap (1 .. k)
           S == {k \in 0 .. N : H(k) # {} /\ ~ \E a \in H(k) : LeastUsed(a, H(k), w)}
<1>1. N \in Nat /\ Accounts = 1 .. N BY PoolAssumption DEF Accounts
<1>2. S = {}
  <2> SUFFICES ASSUME S # {} PROVE FALSE OBVIOUS
  <2>1. PICK k \in S : \A j \in S : k <= j
    <3>1. S \in SUBSET Nat BY <1>1
    <3> HIDE DEF S
    <3> QED BY <3>1, LeastOf
  <2>2. k \in 0 .. N /\ H(k) # {} /\ ~ \E a \in H(k) : LeastUsed(a, H(k), w) BY <2>1
  <2>3. k # 0 /\ k - 1 \in 0 .. N /\ k \in Accounts BY <1>1, <2>2
  <2>4. k - 1 \notin S
    <3>1. k \in Nat /\ ~ (k <= k - 1) BY <1>1, <2>2
    <3> HIDE DEF S
    <3> QED BY <2>1, <3>1
  <2>5. H(k - 1) = {} \/ \E a \in H(k - 1) : LeastUsed(a, H(k - 1), w) BY <2>3, <2>4
  <2>6. \A b \in Accounts : b \in 1 .. k <=> b \in 1 .. k - 1 \/ b = k BY <1>1, <2>3
  <2>7. k \in h
    <3> SUFFICES ASSUME k \notin h PROVE FALSE OBVIOUS
    <3>1. H(k) = H(k - 1) BY <2>6
    <3> QED BY <2>2, <2>5, <3>1
  <2>8. H(k) = H(k - 1) \cup {k} BY <2>6, <2>7
  <2>9. CASE H(k - 1) = {}
    <3>1. LeastUsed(k, H(k), w) BY <2>3, <2>8, <2>9 DEF LeastUsed
    <3> QED BY <2>2, <2>8, <3>1
  <2>10. ASSUME NEW a \in H(k - 1), LeastUsed(a, H(k - 1), w) PROVE FALSE
    <3>1. a \in Accounts /\ a <= k /\ a \in H(k) BY <1>1, <2>3, <2>8
    <3>2. /\ counters[a] \in Nat /\ counters[k] \in Nat
          /\ w[a] \in Nat \ {0} /\ w[k] \in Nat \ {0}
      BY <2>3, <3>1
    <3>3. counters[a] * w[k] \in Nat /\ counters[k] * w[a] \in Nat BY <3>2
    <3>4. CASE counters[a] * w[k] <= counters[k] * w[a]
      <4>1. LeastUsed(a, H(k), w) BY <2>8, <2>10, <3>1, <3>3, <3>4 DEF LeastUsed
      <4> QED BY <2>2, <3>1, <4>1
    <3>5. CASE counters[k] * w[a] < counters[a] * w[k]
      <4>1. ASSUME NEW b \in H(k - 1) PROVE counters[k] * w[b] < counters[b] * w[k]
        <5>1. counters[b] \in Nat /\ w[b] \in Nat \ {0} OBVIOUS
        <5>2. counters[a] * w[b] \in Nat /\ counters[b] * w[a] \in Nat BY <3>2, <5>1
        <5>3. counters[a] * w[b] <= counters[b] * w[a]
          <6> HIDE DEF H
          <6>1. \/ counters[a] * w[b] < counters[b] * w[a]
                \/ counters[a] * w[b] = counters[b] * w[a] /\ a <= b
            BY <2>10, Zenon DEF LeastUsed
          <6> QED BY <5>2, <6>1
        <5> QED BY <3>2, <3>5, <5>1, <5>3, Fractions
      <4>2. LeastUsed(k, H(k), w)
        <5>1. counters[k] * w[k] = counters[k] * w[k] /\ k <= k BY <1>1, <2>2
        <5> HIDE DEF H
        <5> QED BY <2>8, <4>1, <5>1 DEF LeastUsed
      <4> QED BY <2>2, <2>7, <2>8, <4>2
    <3> QED BY <3>3, <3>4, <3>5
  <2> QED BY <2>5, <2>9, <2>10
<1>3. H(N) = h BY <1>1
<1>4. N \in 0 .. N BY <1>1
<1>5. H(N) = {} \/ \E a \in H(N) : LeastUsed(a, H(N), w)
  <2> HIDE DEF H
  <2> QED BY <1>2, <1>4
<1> QED BY <1>3, <1>5

(* Two accounts are never both the least used: the pick has no choice. *)
LEMMA OnlyOneLeastUsed ==
  ASSUME NEW h \in SUBSET Accounts,
         counters \in [Accounts -> Nat], NEW w \in [Accounts -> Nat \ {0}],
         NEW a \in h, NEW b \in h, LeastUsed(a, h, w), LeastUsed(b, h, w)
  PROVE  a = b
<1>1. /\ a \in Nat /\ b \in Nat /\ counters[a] \in Nat /\ counters[b] \in Nat
      /\ w[a] \in Nat /\ w[b] \in Nat
  BY PoolAssumption DEF Accounts
<1>2. counters[a] * w[b] \in Nat /\ counters[b] * w[a] \in Nat BY <1>1
<1> QED BY <1>1, <1>2 DEF LeastUsed

(* The account that Pick may take. *)
Choice(r, a) ==
  IF Strategy = "sticky_session" /\ Session[r] # NoSession
  THEN Sticky(Session[r], a, req[r].healthy)
  ELSE LeastUsed(a, req[r].healthy, Weight)

OneToPick ==
  \A r \in Requests : req[r].healthy # {} =>
      \E a \in req[r].healthy : /\ Choice(r, a)
                                /\ \A b \in req[r].healthy : Choice(r, b) => b = a

LEMMA OneChoice == IInv => OneToPick
<1> SUFFICES ASSUME IInv, NEW r \in Requests, req[r].healthy # {}
             PROVE  \E a \in req[r].healthy :
                        /\ Choice(r, a)
                        /\ \A b \in req[r].healthy : Choice(r, b) => b = a
  BY DEF OneToPick
<1> DEFINE h == req[r].healthy
<1>1. h \in SUBSET Accounts /\ h # {} /\ counters \in [Accounts -> Nat]
  BY DEF IInv, TypeOK, Request
<1>2. /\ Weight \in [Accounts -> Nat \ {0}] /\ Unweighted \in [Accounts -> Nat \ {0}]
  BY PoolAssumption DEF Unweighted
<1>3. ASSUME NEW w \in [Accounts -> Nat \ {0}]
      PROVE  \E a \in h : LeastUsed(a, h, w) /\ \A b \in h : LeastUsed(b, h, w) => b = a
  <2> HIDE DEF h
  <2> QED BY <1>1, OneLeastUsed, OnlyOneLeastUsed
<1>4. CASE Strategy = "sticky_session" /\ Session[r] # NoSession
  <2>1. CASE sessions[Session[r]] \in h BY <1>4, <2>1 DEF Choice, Sticky
  <2>2. CASE sessions[Session[r]] \notin h
    <3>1. \A a : Choice(r, a) <=> LeastUsed(a, h, Unweighted) BY <1>4, <2>2 DEF Choice, Sticky
    <3> QED BY <1>2, <1>3, <3>1
  <2> QED BY <2>1, <2>2
<1>5. CASE ~ (Strategy = "sticky_session" /\ Session[r] # NoSession)
  <2>1. \A a : Choice(r, a) <=> LeastUsed(a, h, Weight) BY <1>5 DEF Choice
  <2> QED BY <1>2, <1>3, <2>1
<1> QED BY <1>4, <1>5

(* Whenever some account is healthy, exactly one of them is the one to pick,  *)
(* for any weights, counts and sessions: selectRoundRobin and                 *)
(* selectStickySession always find an account and leave nothing to chance.    *)
THEOREM PickIsDetermined == Spec => []OneToPick
<1>1. Init => IInv BY Initially
<1> QED BY <1>1, Inductive, OneChoice, PTL DEF Spec

(* An answer is settled only when it was received. *)
Answered == \A r \in Requests : req[r].pc = "settle" => req[r].answer \in Answers

LEMMA SettlesAnswers ==
  ASSUME IInv, NEW r \in Requests, Start(r) \/ Step(r), req'[r].pc = "settle"
  PROVE  req'[r].answer \in Answers
<1> DEFINE q == req[r]
<1>1. q \in Request /\ req \in [Requests -> Request] BY DEF IInv, TypeOK
<1>2. ASSUME NEW n, Goes(r, n) PROVE req'[r] = n BY <1>1, <1>2 DEF Goes
<1>3. ~ Start(r) /\ ~ Leave(r)
  <2>1. Idle.pc # "settle" /\ [Idle EXCEPT !.pc = "begin"].pc # "settle" BY DEF Idle
  <2> QED BY <1>2, <2>1 DEF Start, Leave
<1>4. ~ Begin(r)
  <2>1. [q EXCEPT !.pc = "look", !.began = now, !.next = 1, !.healthy = {}].pc # "settle"
    BY <1>1 DEF Request
  <2> QED BY <1>2, <2>1 DEF Begin
<1>5. ~ Look(r) /\ ~ Clear(r)
  <2>1. \A h : Past(r, h).pc # "settle" BY <1>1 DEF Past, Request
  <2>2. [q EXCEPT !.pc = "clear"].pc # "settle" BY <1>1 DEF Request
  <2> QED BY <1>2, <2>1, <2>2 DEF Look, Clear
<1>6. ~ Pick(r) /\ ~ SelectAgain(r)
  <2>1. NoAccount(r).pc # "settle" BY <1>1 DEF NoAccount, Request
  <2>2. \A a : [q EXCEPT !.pc = "count", !.account = a].pc # "settle" BY <1>1 DEF Request
  <2>3. [q EXCEPT !.tries = @ + 1, !.pc = "begin"].pc # "settle" BY <1>1 DEF Request
  <2> QED BY <1>2, <2>1, <2>2, <2>3 DEF Pick, SelectAgain
<1>7. ~ Count(r)
  <2>1. [q EXCEPT !.pc = "again"].pc # "settle" BY <1>1 DEF Request
  <2>2. [q EXCEPT !.pc = "send", !.tried = @ \cup {q.account}].pc # "settle"
    BY <1>1 DEF Request
  <2> QED BY <1>2, <2>1, <2>2 DEF Count
<1>8. ~ Settle(r)
  <2>1. \A o : [q EXCEPT !.pc = "done", !.outcome = o].pc # "settle" BY <1>1 DEF Request
  <2>2. [q EXCEPT !.pc = "begin", !.execution = @ + 1, !.attempt = 0, !.tries = 0,
                  !.tried = {}].pc # "settle"
    BY <1>1 DEF Request
  <2> QED BY <1>2, <2>1, <2>2 DEF Settle, Ends
<1>9. PICK x \in Answers : Answer(r, x)
  BY <1>3, <1>4, <1>5, <1>6, <1>7, <1>8 DEF Step
<1>10. req'[r].answer = x
  <2>1. [q EXCEPT !.pc = "settle", !.answer = x].answer = x BY <1>1 DEF Request
  <2>2. [q EXCEPT !.pc = "begin", !.attempt = @ + 1, !.tries = 0, !.answer = x].answer = x
    BY <1>1 DEF Request
  <2> QED BY <1>2, <1>9, <2>1, <2>2 DEF Answer
<1> QED BY <1>9, <1>10

(* What a request's next step needs, wherever it is. *)
MayStep(r) ==
  LET q == req[r] IN
  \/ q.pc \in {"begin", "done"}
  \/ q.pc \in {"look", "clear"} /\ q.next \in Accounts
  \/ q.pc = "pick" /\ (q.healthy = {} \/ \E a \in q.healthy : Choice(r, a))
  \/ q.pc \in {"count", "again"} /\ q.account \in Accounts
  \/ q.pc = "send" /\ \E x \in Answers : x \in AllAnswers
  \/ q.pc = "settle" /\ q.answer \in {"ok", "denied", "bad"} \cup SystemFallback \cup Errors

GoesOn == \A r \in Requests : req[r].pc # "idle" => MayStep(r)

(* No request gets stuck before it is answered: whatever other requests put   *)
(* to rest, an account is found or the loop goes on without one, and every    *)
(* answer is settled one way or another (TransparentForwardNode.Execute).     *)
THEOREM NeverStuck == ASSUME Answers # {} PROVE Spec => []GoesOn
<1>1. Init => IInv /\ Answered BY Initially DEF Init, Idle, Answered
<1>2. IInv /\ Answered /\ [Next]_vars => Answered'
  BY SettlesAnswers, OwnSteps DEF Answered
<1>3. IInv /\ Answered => GoesOn
  <2> SUFFICES ASSUME IInv, Answered, NEW r \in Requests, req[r].pc # "idle"
               PROVE  MayStep(r)
    BY DEF GoesOn
  <2> DEFINE q == req[r]
  <2>1. q \in Request /\ Good(q) /\ q.pc \in Steps BY DEF IInv, TypeOK, Request
  <2>2. q.pc \in {"look", "clear"} => q.next \in Accounts
    BY <2>1, PoolAssumption DEF Good, Looks, Request, Accounts
  <2>3. q.pc \in {"count", "again"} => q.account \in Accounts BY <2>1 DEF Good, Holds
  <2>4. q.healthy = {} \/ \E a \in q.healthy : Choice(r, a) BY OneChoice DEF OneToPick
  <2>5. q.pc = "settle" => q.answer \in {"ok", "denied", "bad"} \cup SystemFallback \cup Errors
    BY PoolAssumption DEF Answered, AllAnswers, SystemFallback, Errors
  <2>6. \E x \in Answers : x \in AllAnswers BY PoolAssumption
  <2> QED BY <2>1, <2>2, <2>3, <2>4, <2>5, <2>6 DEF MayStep, Steps
<1> QED BY <1>1, <1>2, <1>3, Inductive, PTL DEF Spec
===============================================================================
