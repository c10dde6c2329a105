----------------------------- MODULE Dispatcher -----------------------------
(***************************************************************************)
(* Tool calls on their way to the Allegro API: dispatch_with_resilience in *)
(* src/dispatcher.rs, its 401/429/5xx rules and the budget all calls share.*)
(*                                                                         *)
(* One action per await of the loop.  auth.token() and auth.refresh_now()  *)
(* are one step each, that may fail (AllegroAuth looks inside them), and   *)
(* the budget is the quota per minute that RateBudget implements.  The API *)
(* is the environment: it may answer anything, and what it may have done   *)
(* before answering follows from the status, as HTTP has it.               *)
(***************************************************************************)
EXTENDS Integers, FiniteSets, Functions

CONSTANTS
    Calls,            \* tool calls
    MAX_429_RETRIES,
    MAX_5XX_RETRIES,
    Cap,              \* rate_limit_rpm; 0 turns the budget off
    MaxMinute         \* bound on the minutes that pass

ASSUME DispatcherAssumption ==
    /\ IsFiniteSet(Calls)
    /\ MAX_429_RETRIES \in Nat
    /\ MAX_5XX_RETRIES \in Nat
    /\ Cap \in Nat
    /\ MaxMinute \in Nat

Statuses == {"2xx", "401", "429", "5xx", "4xx"}
Methods  == {"idempotent", "other", "unsupported"}

\* DispatchError's variants, and success.
Outcomes == {"ok", "Auth", "Bad", "BudgetExceeded", "Unreachable",
             "RateLimited", "Server", "Client"}

VARIABLES
    pc,           \* where each call is in dispatch_with_resilience
    method,       \* the tool's method
    retries_429, retries_5xx, sends, refreshed,   \* the loop's variables
    status,       \* the last answer's status
    outcome,      \* what the call returned
    paid,         \* history: budget units the call acquired
    wire,         \* history: requests it put on the wire
    answers,      \* history: how many answers of each status it got
    effects,      \* history: how often the API carried the request out
    minute, used  \* the shared budget

loop    == <<retries_429, retries_5xx, sends, refreshed>>
budget  == <<minute, used>>
history == <<paid, wire, answers, effects>>
vars    == <<pc, method, loop, status, outcome, budget, history>>

None == "none"

TypeOK ==
    /\ pc \in [Calls -> {"idle", "token", "acquire", "send", "refresh", "backoff",
                         "body", "done"}]
    /\ method \in [Calls -> Methods]
    /\ retries_429 \in [Calls -> 0 .. MAX_429_RETRIES]
    /\ retries_5xx \in [Calls -> 0 .. MAX_5XX_RETRIES]
    /\ sends \in [Calls -> Nat]
    /\ refreshed \in [Calls -> BOOLEAN]
    /\ status \in [Calls -> Statuses \cup {None}]
    /\ outcome \in [Calls -> Outcomes \cup {None}]
    /\ paid \in [Calls -> Nat]
    /\ wire \in [Calls -> Nat]
    /\ answers \in [Calls -> [Statuses -> Nat]]
    /\ effects \in [Calls -> Nat]
    /\ minute \in Nat
    /\ used \in 0 .. Cap

Init ==
    /\ pc = [c \in Calls |-> "idle"]
    /\ method \in [Calls -> Methods]
    /\ retries_429 = [c \in Calls |-> 0]
    /\ retries_5xx = [c \in Calls |-> 0]
    /\ sends = [c \in Calls |-> 0]
    /\ refreshed = [c \in Calls |-> FALSE]
    /\ status = [c \in Calls |-> None]
    /\ outcome = [c \in Calls |-> None]
    /\ paid = [c \in Calls |-> 0]
    /\ wire = [c \in Calls |-> 0]
    /\ answers = [c \in Calls |-> [s \in Statuses |-> 0]]
    /\ effects = [c \in Calls |-> 0]
    /\ minute = 0
    /\ used = 0

Goto(c, from, to) == pc[c] = from /\ pc' = [pc EXCEPT ![c] = to]

Return(c, from, result) ==
    /\ Goto(c, from, "done")
    /\ outcome' = [outcome EXCEPT ![c] = result]

(***************************************************************************)
(* Before the loop.                                                        *)
(***************************************************************************)
Begin(c) ==
    /\ Goto(c, "idle", "token")
    /\ UNCHANGED <<method, loop, status, outcome, budget, history>>

\* auth.token(); the method is parsed once the token is there.
Token(c) ==
    /\ \/ /\ method[c] # "unsupported"
          /\ Goto(c, "token", "acquire")
          /\ outcome' = outcome
       \/ method[c] = "unsupported" /\ Return(c, "token", "Bad")
    /\ UNCHANGED <<method, loop, status, budget, history>>

TokenFails(c) ==
    /\ Return(c, "token", "Auth")
    /\ UNCHANGED <<method, loop, status, budget, history>>

(***************************************************************************)
(* The loop: acquire, send, decide on the status.                          *)
(***************************************************************************)
\* What a request costs: nothing when there is no budget.
Unit == IF Cap = 0 THEN 0 ELSE 1

Acquire(c) ==
    /\ Goto(c, "acquire", "send")
    /\ Cap = 0 \/ used < Cap
    /\ used' = used + Unit
    /\ paid' = [paid EXCEPT ![c] = @ + Unit]
    /\ UNCHANGED <<method, loop, status, outcome, minute, wire, answers, effects>>

\* Mutant of AcquireFails: no one is refused, however full the quota.
AcquireFailsNever(c) ==
    /\ Cap > 0 /\ used > Cap
    /\ Return(c, "acquire", "BudgetExceeded")
    /\ UNCHANGED <<method, loop, status, budget, history>>

AcquireFails(c) ==
    /\ Cap > 0 /\ used = Cap
    /\ Return(c, "acquire", "BudgetExceeded")
    /\ UNCHANGED <<method, loop, status, budget, history>>

\* What the API may have done before an answer of each kind.
Effect(s) ==
    CASE s = "2xx" -> {1}
      [] s = "5xx" -> {0, 1}
      [] s \in {"401", "429", "4xx"} -> {0}

Sent(c, done) ==
    /\ wire' = [wire EXCEPT ![c] = @ + 1]
    /\ \E n \in done : effects' = [effects EXCEPT ![c] = @ + n]

\* An answer of status s, counted before anything is decided on it.
Answered(c, s) ==
    /\ Sent(c, Effect(s))
    /\ sends' = [sends EXCEPT ![c] = @ + 1]
    /\ status' = [status EXCEPT ![c] = s]
    /\ answers' = [answers EXCEPT ![c][s] = @ + 1]
    /\ UNCHANGED <<method, paid, budget>>

\* The connection failed: nobody knows whether the request arrived.
Lost(c) ==
    /\ Return(c, "send", "Unreachable")
    /\ Sent(c, {0, 1})
    /\ UNCHANGED <<method, loop, status, answers, paid, budget>>

\* Mutants of Retried: one 429 retry too many or too few, a retry of any method,
\* a refresh at every 401.
RetriedOneMore(c, s) ==
    \/ s = "401" /\ ~refreshed[c]
    \/ s = "429" /\ retries_429[c] <= MAX_429_RETRIES
    \/ s = "5xx" /\ retries_5xx[c] < MAX_5XX_RETRIES /\ method[c] = "idempotent"
RetriedLess(c, s) ==
    \/ s = "401" /\ ~refreshed[c]
    \/ s = "429" /\ retries_429[c] + 1 < MAX_429_RETRIES
    \/ s = "5xx" /\ retries_5xx[c] < MAX_5XX_RETRIES /\ method[c] = "idempotent"
RetriedAnyMethod(c, s) ==
    \/ s = "401" /\ ~refreshed[c]
    \/ s = "429" /\ retries_429[c] < MAX_429_RETRIES
    \/ s = "5xx" /\ retries_5xx[c] < MAX_5XX_RETRIES
RetriedEvery401(c, s) ==
    \/ s = "401"
    \/ s = "429" /\ retries_429[c] < MAX_429_RETRIES
    \/ s = "5xx" /\ retries_5xx[c] < MAX_5XX_RETRIES /\ method[c] = "idempotent"

\* The answers the loop goes round for: the first 401, a 429 to any method, a
\* 5xx to an idempotent one.
Retried(c, s) ==
    \/ s = "401" /\ ~refreshed[c]
    \/ s = "429" /\ retries_429[c] < MAX_429_RETRIES
    \/ s = "5xx" /\ retries_5xx[c] < MAX_5XX_RETRIES /\ method[c] = "idempotent"

\* The first 401: refresh the token, once per dispatch.
Unauthorized(c) ==
    /\ Retried(c, "401")
    /\ Goto(c, "send", "refresh")
    /\ Answered(c, "401")
    /\ refreshed' = [refreshed EXCEPT ![c] = TRUE]
    /\ UNCHANGED <<outcome, retries_429, retries_5xx>>

\* Mutant of Refreshed: the re-send is not paid for.
RefreshedUnpaid(c) ==
    /\ Goto(c, "refresh", "send")
    /\ UNCHANGED <<method, loop, status, outcome, budget, history>>

\* auth.refresh_now(); the re-send goes through the budget again.
Refreshed(c) ==
    /\ Goto(c, "refresh", "acquire")
    /\ UNCHANGED <<method, loop, status, outcome, budget, history>>

RefreshFails(c) ==
    /\ Return(c, "refresh", "Auth")
    /\ UNCHANGED <<method, loop, status, budget, history>>

\* A 429 backs off and retries, any method.
RateLimited(c) ==
    /\ Retried(c, "429")
    /\ Goto(c, "send", "backoff")
    /\ Answered(c, "429")
    /\ retries_429' = [retries_429 EXCEPT ![c] = @ + 1]
    /\ UNCHANGED <<outcome, retries_5xx, refreshed>>

\* A 5xx retries an idempotent method.
ServerError(c) ==
    /\ Retried(c, "5xx")
    /\ Goto(c, "send", "backoff")
    /\ Answered(c, "5xx")
    /\ retries_5xx' = [retries_5xx EXCEPT ![c] = @ + 1]
    /\ UNCHANGED <<outcome, retries_429, refreshed>>

BackoffEnds(c) ==
    /\ Goto(c, "backoff", "acquire")
    /\ UNCHANGED <<method, loop, status, outcome, budget, history>>

\* Any other answer is the last one: read its body, then return.
LastAnswer(c, s) ==
    /\ ~Retried(c, s)
    /\ Goto(c, "send", "body")
    /\ Answered(c, s)
    /\ UNCHANGED <<outcome, retries_429, retries_5xx, refreshed>>

ResultOf(s) ==
    CASE s = "2xx" -> "ok"
      [] s = "429" -> "RateLimited"
      [] s = "5xx" -> "Server"
      [] s \in {"401", "4xx"} -> "Client"

BodyRead(c) ==
    /\ Return(c, "body", ResultOf(status[c]))
    /\ UNCHANGED <<method, loop, status, budget, history>>

BodyLost(c) ==
    /\ Return(c, "body", "Unreachable")
    /\ UNCHANGED <<method, loop, status, budget, history>>

\* The clock's next minute: the quota starts over.
Turn ==
    /\ Cap > 0
    /\ minute < MaxMinute
    /\ minute' = minute + 1
    /\ used' = 0
    /\ UNCHANGED <<pc, method, loop, status, outcome, history>>

Step(c) ==
    \/ Token(c) \/ TokenFails(c)
    \/ Acquire(c) \/ AcquireFails(c)
    \/ Lost(c) \/ Unauthorized(c) \/ RateLimited(c) \/ ServerError(c)
    \/ \E s \in Statuses : LastAnswer(c, s)
    \/ Refreshed(c) \/ RefreshFails(c) \/ BackoffEnds(c)
    \/ BodyRead(c) \/ BodyLost(c)

Next == Turn \/ \E c \in Calls : Begin(c) \/ Step(c)

Spec == Init /\ [][Next]_vars

\* Every await ends: the token calls as AllegroAuth shows, acquire() as
\* RateBudget shows, a sleep by the timer, a request by an answer or an error.
FairSpec == Spec /\ \A c \in Calls : WF_vars(Step(c))

(***************************************************************************)
(* Properties.                                                             *)
(***************************************************************************)
MaxSends == 2 + MAX_429_RETRIES + MAX_5XX_RETRIES

\* Whatever mix of 401s, 429s and 5xxs the API answers, a tool call sends one
\* request, its retries and one re-send, and no more.
SendsAreBounded == \A c \in Calls : wire[c] <= MaxSends

\* A request that is not idempotent is carried out at most once.
NoDuplicateEffect == \A c \in Calls : method[c] = "other" => effects[c] <= 1

\* Every request on the wire was paid for, retries and re-sends included.
EverySendIsPaid == \A c \in Calls : Cap > 0 => wire[c] <= paid[c]

\* All calls together stay within the quota of the minutes so far.
QuotaBoundsSends == Cap > 0 => SumFunction(wire) <= Cap * (minute + 1)

\* A call gives up only when its retries are used up: a report of 429, 401 or
\* 5xx comes after as many such answers as the policy allows.
GivesUpLast ==
    \A c \in Calls :
        /\ outcome[c] = "RateLimited" => answers[c]["429"] = MAX_429_RETRIES + 1
        /\ outcome[c] = "Server" /\ method[c] = "idempotent"
               => answers[c]["5xx"] = MAX_5XX_RETRIES + 1
        /\ outcome[c] = "Client" /\ status[c] = "401" => answers[c]["401"] = 2

\* RateLimited reports the number of requests made (its attempts field).
AttemptsAreSends ==
    \A c \in Calls : outcome[c] \in {"RateLimited", "Server", "Client", "ok"}
                        => sends[c] = wire[c]

\* A tool call that has begun returns.
DispatchEnds == \A c \in Calls : pc[c] = "token" ~> pc[c] = "done"
=============================================================================
