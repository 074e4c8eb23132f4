----------------------------- MODULE KeyRotation -----------------------------
(***************************************************************************)
(* A backend with several API keys (its account pool): how one request     *)
(* picks a key, goes on to another key when the upstream rejects it, and   *)
(* is executed again by the engine.  backend.AccountPoolSelector, shared   *)
(* by all requests, TransparentForwardNode.Execute and executeWithRetry.   *)
(*                                                                         *)
(* An account is its place in the pool; only enabled ones count, and the   *)
(* pool is not edited meanwhile.  An answer is what the code tells apart:  *)
(*   "ok"       a success with content      "empty"   a success without    *)
(*   "busy"     429 or 5xx                  "later"   429 "try again later"*)
(*   "denied"   a plain 401 or 403          "quota"   these, quota used up *)
(*   "payment"  402 that names a bill       "noModel" 404, unknown model   *)
(*   "bad"      another 400                 "lost"    a network error      *)
(*   "misread"  a 402 whose text names no bill, or a 400, 402 or 404 whose *)
(*              text speaks of a timeout or the network: the engine takes  *)
(*              it for an error that passes                                *)
(*   "cut"      an answer whose body or redirect breaks off                *)
(***************************************************************************)
EXTENDS Integers, FiniteSets

CONSTANTS N,             \* number of accounts in the pool
          Weight,        \* account -> its weight
          Requests,      \* requests that can run at a time
          Session,       \* request -> its session, or NoSession
          NoSession,
          Strategy,      \* "round_robin" or "sticky_session"
          Cooldown,      \* how long a rejected account rests
          Retries,       \* RetryConfig.MaxAttempts: executions after the first
          Answers,       \* what the upstream may answer
          MaxTime,       \* bound: the clock stops here
          MaxRequests    \* bound: requests that are ever made

Accounts == 1 .. N
Sessions == {Session[r] : r \in Requests} \ {NoSession}
AllAnswers == {"ok", "empty", "busy", "later", "denied", "quota", "payment",
               "noModel", "bad", "lost", "misread", "cut"}

ASSUME PoolAssumption ==
    /\ N \in Nat \ {0} /\ Weight \in [Accounts -> Nat \ {0}]
    /\ Cooldown \in Nat \ {0} /\ Retries \in Nat
    /\ MaxTime \in Nat /\ MaxRequests \in Nat
    /\ Strategy \in {"round_robin", "sticky_session"}
    /\ Answers \subseteq AllAnswers /\ IsFiniteSet(Requests)

VARIABLES now,            \* the clock
          disabledUntil,  \* account -> end of its rest, 0 without a record
          counters,       \* account -> times it was selected
          sessions,       \* session -> the account it is bound to, or 0
          req,            \* request -> where it is
          sends,          \* request -> account -> calls made with its key
          issued          \* requests made so far

vars == <<now, disabledUntil, counters, sessions, req, sends, issued>>

Steps == {"idle", "begin", "look", "clear", "pick", "count", "again",
          "send", "settle", "done"}
Outcomes == {"none", "served", "passed", "degraded", "failed", "blank"}

Request == [pc : Steps, execution : 0 .. Retries, attempt : 0 .. N - 1,
            tries : 0 .. N - 1, began : 0 .. MaxTime, next : 1 .. N + 1,
            healthy : SUBSET Accounts, account : 0 .. N, tried : SUBSET Accounts,
            answer : Answers \cup {"none"}, outcome : Outcomes]

TypeOK == /\ now \in 0 .. MaxTime
          /\ disabledUntil \in [Accounts -> 0 .. MaxTime + Cooldown]
          /\ counters \in [Accounts -> Nat]
          /\ sessions \in [Sessions -> 0 .. N]
          /\ req \in [Requests -> Request]
          /\ sends \in [Requests -> [Accounts -> Nat]]
          /\ issued \in 0 .. MaxRequests

Idle == [pc |-> "idle", execution |-> 0, attempt |-> 0, tries |-> 0, began |-> 0,
         next |-> 1, healthy |-> {}, account |-> 0, tried |-> {},
         answer |-> "none", outcome |-> "none"]

NoSends == [a \in Accounts |-> 0]

Init == /\ now = 0
        /\ disabledUntil = [a \in Accounts |-> 0]
        /\ counters = [a \in Accounts |-> 0]
        /\ sessions = [s \in Sessions |-> 0]
        /\ req = [r \in Requests |-> Idle]
        /\ sends = [r \in Requests |-> NoSends]
        /\ issued = 0

-------------------------------------------------------------------------------

Goes(r, change) == req' = [req EXCEPT ![r] = change]

(* The answers after which the node tries the next key (a 402 is not one). *)
Rotatable == {"busy", "later", "denied", "quota"}

DisableAccountTemporarily(a) ==
    disabledUntil' = [disabledUntil EXCEPT ![a] = now + Cooldown]

(* The attempt ends without an account to use.  The first one goes out     *)
(* with the backend's own key; a later one leaves the loop with the result *)
(* variables as they were declared, and an answer that was never received  *)
(* passes every check below the loop.                                      *)
NoAccount(r) ==
    IF req[r].attempt = 0
    THEN [req[r] EXCEPT !.account = 0, !.pc = "send"]
    ELSE [req[r] EXCEPT !.account = 0, !.pc = "done", !.outcome = "blank"]

Start(r) ==
    /\ req[r].pc = "idle" /\ issued < MaxRequests
    /\ issued' = issued + 1
    /\ Goes(r, [Idle EXCEPT !.pc = "begin"])
    /\ sends' = [sends EXCEPT ![r] = NoSends]
    /\ UNCHANGED <<now, disabledUntil, counters, sessions>>

(* SelectAccountForRequest: take the time once, then go over the accounts. *)
Begin(r) ==
    /\ req[r].pc = "begin"
    /\ Goes(r, [req[r] EXCEPT !.pc = "look", !.began = now, !.next = 1, !.healthy = {}])
    /\ UNCHANGED <<now, disabledUntil, counters, sessions, sends, issued>>

Past(r, healthy) ==
    [req[r] EXCEPT !.pc = IF req[r].next = N THEN "pick" ELSE "look",
                   !.next = @ + 1, !.healthy = healthy]

(* Fault: wait for an account that rests. *)
LookFault(r) ==
    LET a == req[r].next IN
    /\ req[r].pc = "look"
    /\ Goes(r, IF disabledUntil[a] = 0 THEN Past(r, req[r].healthy \cup {a})
               ELSE IF req[r].began < disabledUntil[a] THEN req[r]
               ELSE [req[r] EXCEPT !.pc = "clear"])
    /\ UNCHANGED <<now, disabledUntil, counters, sessions, sends, issued>>

(* Read one account's record under the read lock. *)
Look(r) ==
    LET a == req[r].next IN
    /\ req[r].pc = "look"
    /\ Goes(r, IF disabledUntil[a] = 0 THEN Past(r, req[r].healthy \cup {a})
               ELSE IF req[r].began < disabledUntil[a] THEN Past(r, req[r].healthy)
               ELSE [req[r] EXCEPT !.pc = "clear"])
    /\ UNCHANGED <<now, disabledUntil, counters, sessions, sends, issued>>

(* It had expired: delete it, under the write lock, as it is by now. *)
Clear(r) ==
    LET a == req[r].next IN
    /\ req[r].pc = "clear"
    /\ disabledUntil' = [disabledUntil EXCEPT ![a] = 0]
    /\ Goes(r, Past(r, req[r].healthy \cup {a}))
    /\ UNCHANGED <<now, counters, sessions, sends, issued>>

(* Fault: the first healthy account, whatever was counted. *)
LeastUsedFault(a, healthy, weight) == \A b \in healthy : a <= b

(* selectRoundRobin: the smallest count for its weight, the first of them. *)
LeastUsed(a, healthy, weight) ==
    \A b \in healthy : \/ counters[a] * weight[b] < counters[b] * weight[a]
                       \/ counters[a] * weight[b] = counters[b] * weight[a] /\ a <= b

Unweighted == [a \in Accounts |-> 1]

(* Fault: the session's account is not looked for among the healthy ones. *)
StickyFault(s, a, healthy) == LeastUsed(a, healthy, Unweighted)

(* selectStickySession: the account the session is bound to while that is  *)
(* healthy, or else the least used one, to which it is bound from now on.  *)
Sticky(s, a, healthy) ==
    IF sessions[s] \in healthy THEN a = sessions[s]
    ELSE LeastUsed(a, healthy, Unweighted)

Pick(r) ==
    LET s == Session[r]
        healthy == req[r].healthy IN
    /\ req[r].pc = "pick"
    /\ \/ /\ healthy = {}
          /\ Goes(r, NoAccount(r))
          /\ UNCHANGED sessions
       \/ \E a \in healthy :
             /\ Goes(r, [req[r] EXCEPT !.pc = "count", !.account = a])
             /\ IF Strategy = "sticky_session" /\ s # NoSession
                THEN /\ Sticky(s, a, healthy)
                     /\ sessions' = [sessions EXCEPT ![s] = a]
                ELSE /\ LeastUsed(a, healthy, Weight)
                     /\ UNCHANGED sessions
    /\ UNCHANGED <<now, disabledUntil, counters, sends, issued>>

(* Fault: an account is used again without a look at the ones tried. *)
CountFault(r) ==
    LET a == req[r].account IN
    /\ req[r].pc = "count"
    /\ counters' = [counters EXCEPT ![a] = @ + 1]
    /\ Goes(r, [req[r] EXCEPT !.pc = "send", !.tried = @ \cup {a}])
    /\ UNCHANGED <<now, disabledUntil, sessions, sends, issued>>

(* Count the selection, and use the account if this execution has not yet. *)
Count(r) ==
    LET a == req[r].account IN
    /\ req[r].pc = "count"
    /\ counters' = [counters EXCEPT ![a] = @ + 1]
    /\ Goes(r, IF a \in req[r].tried THEN [req[r] EXCEPT !.pc = "again"]
               ELSE [req[r] EXCEPT !.pc = "send", !.tried = @ \cup {a}])
    /\ UNCHANGED <<now, disabledUntil, sessions, sends, issued>>

(* selectUnusedPoolAccount: it was tried before, so rest it and select     *)
(* again, as many times as there are accounts.                             *)
SelectAgain(r) ==
    /\ req[r].pc = "again"
    /\ DisableAccountTemporarily(req[r].account)
    /\ Goes(r, IF req[r].tries + 1 = N THEN NoAccount(r)
               ELSE [req[r] EXCEPT !.tries = @ + 1, !.pc = "begin"])
    /\ UNCHANGED <<now, counters, sessions, sends, issued>>

-------------------------------------------------------------------------------

(* Fault: rotate after the last attempt as well. *)
AnswerFault(r, x) ==
    LET a == req[r].account IN
    /\ req[r].pc = "send"
    /\ IF a = 0 THEN UNCHANGED sends ELSE sends' = [sends EXCEPT ![r][a] = @ + 1]
    /\ IF a # 0 /\ x \in Rotatable \cup {"lost"}
       THEN /\ DisableAccountTemporarily(a)
            /\ Goes(r, [req[r] EXCEPT !.pc = "begin", !.attempt = @ + 1, !.tries = 0,
                                      !.answer = x])
       ELSE /\ UNCHANGED disabledUntil
            /\ Goes(r, [req[r] EXCEPT !.pc = "settle", !.answer = x])
    /\ UNCHANGED <<now, counters, sessions, issued>>

(* The upstream answers.  With keys left the account is put to rest and    *)
(* the next attempt begins, otherwise the loop is over with this answer.   *)
Answer(r, x) ==
    LET a == req[r].account IN
    /\ req[r].pc = "send"
    /\ IF a = 0 THEN UNCHANGED sends ELSE sends' = [sends EXCEPT ![r][a] = @ + 1]
    /\ IF a # 0 /\ req[r].attempt < N - 1 /\ x \in Rotatable \cup {"lost"}
       THEN /\ DisableAccountTemporarily(a)
            /\ Goes(r, [req[r] EXCEPT !.pc = "begin", !.attempt = @ + 1, !.tries = 0,
                                      !.answer = x])
       ELSE /\ UNCHANGED disabledUntil
            /\ Goes(r, [req[r] EXCEPT !.pc = "settle", !.answer = x])
    /\ UNCHANGED <<now, counters, sessions, issued>>

(* Fault: the error does not say that the pool is exhausted. *)
PoolExhaustedFault(r) == FALSE

(* The pool counts as exhausted when the last answer is a rotatable one. *)
PoolExhausted(r) == req[r].tried # {} /\ req[r].answer \in Rotatable

(* Of these the node makes an error: quota and model errors unless the     *)
(* system's fallback model answers, then the codes that are retried.  What *)
(* is left is passed on to the client, or an error by the form of its body.*)
SystemFallback == {"quota", "payment", "noModel", "misread"}
Errors == SystemFallback \cup {"busy", "later", "empty", "lost", "cut"}

Ends(r, outcome) == Goes(r, [req[r] EXCEPT !.pc = "done", !.outcome = outcome])

(* What the engine executes again: executeWithRetry, classifyNodeError.  A *)
(* 402 is one of these unless its text names a bill.                       *)
IsRetryable(r) == /\ ~ PoolExhausted(r)
                  /\ req[r].answer \in {"busy", "later", "empty", "lost", "cut",
                                        "misread"}

(* A broken connection ends the request at once if its text is unknown.    *)
Settle(r) ==
    LET x == req[r].answer IN
    /\ req[r].pc = "settle"
    /\ \/ x = "ok" /\ Ends(r, "served")
       \/ x \in {"denied", "bad"} /\ Ends(r, "passed")
       \/ x \in {"denied", "bad", "lost", "cut"} /\ Ends(r, "failed")
       \/ x \in SystemFallback /\ Ends(r, "degraded")
       \/ /\ x \in Errors
          /\ IF IsRetryable(r) /\ req[r].execution < Retries
             THEN Goes(r, [req[r] EXCEPT !.pc = "begin", !.execution = @ + 1,
                                         !.attempt = 0, !.tries = 0, !.tried = {}])
             ELSE Ends(r, "failed")
    /\ UNCHANGED <<now, disabledUntil, counters, sessions, sends, issued>>

(* The answer is delivered, and another request may come. *)
Leave(r) == /\ req[r].pc = "done"
            /\ Goes(r, Idle)
            /\ UNCHANGED <<now, disabledUntil, counters, sessions, sends, issued>>

Tick == /\ now < MaxTime
        /\ now' = now + 1
        /\ UNCHANGED <<disabledUntil, counters, sessions, req, sends, issued>>

Step(r) == \/ Begin(r) \/ Look(r) \/ Clear(r) \/ Pick(r) \/ Count(r)
           \/ SelectAgain(r) \/ Settle(r) \/ Leave(r)
           \/ \E x \in Answers : Answer(r, x)

(* The bounds are used up, and the server is idle. *)
Idling == /\ now = MaxTime /\ issued = MaxRequests
          /\ \A r \in Requests : req[r].pc = "idle"
          /\ UNCHANGED vars

Next == Tick \/ Idling \/ \E r \in Requests : Start(r) \/ Step(r)

Spec == Init /\ [][Next]_vars

(* A request's goroutine runs, and a call to the upstream ends at the      *)
(* latest with the node's timeout.                                         *)
FairSpec == Spec /\ \A r \in Requests : WF_vars(Step(r))

-------------------------------------------------------------------------------

(***************************************************************************)
(* A pool is declared exhausted only when every one of its accounts was    *)
(* tried, however the requests that share the pool interleave and whatever *)
(* they put to rest meanwhile.                                             *)
(***************************************************************************)
ExhaustedMeansAllTried ==
    \A r \in Requests : req[r].pc = "settle" /\ PoolExhausted(r) =>
        req[r].tried = Accounts

(***************************************************************************)
(* Keys are not multiplied by retries: while every answer either ends the  *)
(* request or rests its key, no account is used twice for one request,     *)
(* though its rest may be over, or lost, before the request is.  (After an *)
(* answer without a body, and after a 402 that names no bill, the engine   *)
(* starts over with every key.)                                            *)
(***************************************************************************)
AnsweredOnceEach ==
    \A r \in Requests, a \in Accounts : sends[r][a] <= 1

(***************************************************************************)
(* Load follows the weights: while no account rests, an account is ahead   *)
(* of another by no more than what requests picked at the same time.       *)
(***************************************************************************)
LoadFollowsWeights ==
    (\A a \in Accounts : disabledUntil[a] = 0) =>
        \A a, b \in Accounts :
            counters[a] * Weight[b] <=
                counters[b] * Weight[a] + Cardinality(Requests) * Weight[b]

(***************************************************************************)
(* Sessions are sticky: a request, one that raced to bind its session      *)
(* included, uses the account the session is bound to or one that has been *)
(* put to rest.  (Said of the time in which no rest runs out, when an      *)
(* account that was put to rest still is.)                                 *)
(***************************************************************************)
SessionsStick ==
    Strategy = "sticky_session" /\ now < Cooldown =>
        \A r \in Requests :
            /\ Session[r] # NoSession
            /\ req[r].pc \in {"count", "again", "send", "settle"}
            /\ req[r].account # 0
            => \/ req[r].account = sessions[Session[r]]
               \/ disabledUntil[req[r].account] # 0

(***************************************************************************)
(* Every request is answered: selecting, rotating and retrying all end.    *)
(***************************************************************************)
EveryRequestEnds ==
    \A r \in Requests : req[r].pc # "idle" ~> req[r].pc = "done"
===============================================================================
