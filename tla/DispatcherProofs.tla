-------------------------- MODULE DispatcherProofs --------------------------
(* Theorems about Dispatcher and Exchange, for every set of calls, cap and *)
(* retry limits.                                                           *)
EXTENDS Exchange, FiniteSetTheorems, WellFoundedInduction, TLAPS

(***************************************************************************)
(* The inductive invariant, one call at a time.                            *)
(***************************************************************************)
Refreshes(c) == IF refreshed[c] THEN 1 ELSE 0

\* In the loop, each request made so far is accounted for by a retry counter.
LoopInv(c) ==
    pc[c] \notin {"body", "done"} =>
        /\ outcome[c] = None
        /\ sends[c] = wire[c]
        /\ wire[c] = retries_429[c] + retries_5xx[c] + Refreshes(c)
        /\ answers[c]["429"] = retries_429[c]
        /\ answers[c]["5xx"] = retries_5xx[c]
        /\ answers[c]["401"] = Refreshes(c)

\* The last answer is one the loop does not go round for.
LastInv(c) ==
    pc[c] = "body" \/ outcome[c] \in {"ok", "RateLimited", "Server", "Client"} =>
        /\ sends[c] = wire[c]
        /\ status[c] \in Statuses
        /\ status[c] = "429" => answers[c]["429"] = MAX_429_RETRIES + 1
        /\ status[c] = "5xx" /\ method[c] = "idempotent"
               => answers[c]["5xx"] = MAX_5XX_RETRIES + 1
        /\ status[c] = "401" => answers[c]["401"] = 2

ResultInv(c) ==
    /\ outcome[c] = "RateLimited" => status[c] = "429"
    /\ outcome[c] = "Server" => status[c] = "5xx"
    /\ pc[c] = "body" => outcome[c] = None

BoundInv(c) == wire[c] <= 1 + retries_429[c] + retries_5xx[c] + Refreshes(c)

PaidInv(c) == Cap > 0 => IF pc[c] = "send" THEN wire[c] + 1 <= paid[c]
                                           ELSE wire[c] <= paid[c]

\* A request that is not idempotent is sent again only when it had no effect.
EffectInv(c) ==
    method[c] = "other" =>
        /\ effects[c] <= 1
        /\ pc[c] \notin {"body", "done"} => effects[c] = 0

CallInv(c) == /\ LoopInv(c) /\ LastInv(c) /\ ResultInv(c)
              /\ BoundInv(c) /\ PaidInv(c) /\ EffectInv(c)

IInv == TypeOK /\ \A c \in Calls : CallInv(c)

(***************************************************************************)
(* Types.                                                                  *)
(***************************************************************************)
Labels == {"idle", "token", "acquire", "send", "refresh", "backoff", "body", "done"}

\* The invariant holds before any call.
LEMMA InitIInv == Init => IInv
<1> SUFFICES ASSUME Init PROVE IInv
  OBVIOUS
<1>1. TypeOK
  BY DispatcherAssumption DEF Init, TypeOK, Methods, Statuses
<1>2. ASSUME NEW c \in Calls PROVE CallInv(c)
  BY DispatcherAssumption
  DEF Init, CallInv, LoopInv, LastInv, ResultInv, BoundInv, PaidInv, EffectInv, Refreshes,
      Statuses, None
<1> QED
  BY <1>1, <1>2 DEF IInv

\* An answer keeps the types of what it records.
LEMMA AnsweredType ==
  ASSUME TypeOK, NEW c \in Calls, NEW s \in Statuses, Answered(c, s)
  PROVE  /\ wire' = [wire EXCEPT ![c] = @ + 1]
         /\ sends' = [sends EXCEPT ![c] = @ + 1]
         /\ status' = [status EXCEPT ![c] = s]
         /\ answers'[c][s] = answers[c][s] + 1
         /\ \A z \in Statuses : z # s => answers'[c][z] = answers[c][z]
         /\ \A d \in Calls : d # c => answers'[d] = answers[d] /\ effects'[d] = effects[d]
         /\ effects'[c] \in {effects[c], effects[c] + 1}
         /\ s \in {"401", "429", "4xx"} => effects'[c] = effects[c]
         /\ answers' \in [Calls -> [Statuses -> Nat]]
         /\ effects' \in [Calls -> Nat]
         /\ wire' \in [Calls -> Nat] /\ sends' \in [Calls -> Nat]
         /\ status' \in [Calls -> Statuses \cup {None}]
         /\ UNCHANGED <<method, paid, budget>>
<1>1. /\ wire' = [wire EXCEPT ![c] = @ + 1]
      /\ sends' = [sends EXCEPT ![c] = @ + 1]
      /\ status' = [status EXCEPT ![c] = s]
      /\ UNCHANGED <<method, paid, budget>>
  BY DEF Answered, Sent
<1>2. /\ answers' = [answers EXCEPT ![c] = [answers[c] EXCEPT ![s] = answers[c][s] + 1]]
      /\ answers[c] \in [Statuses -> Nat]
      /\ answers \in [Calls -> [Statuses -> Nat]]
  BY DEF Answered, TypeOK
<1>3. [answers[c] EXCEPT ![s] = answers[c][s] + 1] \in [Statuses -> Nat]
  BY <1>2
<1>4. /\ answers' \in [Calls -> [Statuses -> Nat]]
      /\ answers'[c] = [answers[c] EXCEPT ![s] = answers[c][s] + 1]
      /\ \A d \in Calls : d # c => answers'[d] = answers[d]
  BY <1>2, <1>3
<1>5. /\ answers'[c][s] = answers[c][s] + 1
      /\ \A z \in Statuses : z # s => answers'[c][z] = answers[c][z]
  BY <1>2, <1>4
<1>6. Effect(s) \subseteq {0, 1} /\ (s \in {"401", "429", "4xx"} => Effect(s) = {0})
  BY DEF Effect, Statuses
<1>7. PICK n \in Effect(s) : effects' = [effects EXCEPT ![c] = @ + n]
  BY DEF Answered, Sent
<1>8. /\ effects \in [Calls -> Nat] /\ n \in {0, 1}
      /\ s \in {"401", "429", "4xx"} => n = 0
  BY <1>6, <1>7 DEF TypeOK
<1>9. /\ effects' \in [Calls -> Nat]
      /\ effects'[c] \in {effects[c], effects[c] + 1}
      /\ s \in {"401", "429", "4xx"} => effects'[c] = effects[c]
      /\ \A d \in Calls : d # c => effects'[d] = effects[d]
  BY ONLY <1>7, <1>8, c \in Calls
<1>10. /\ wire' \in [Calls -> Nat] /\ sends' \in [Calls -> Nat]
       /\ status' \in [Calls -> Statuses \cup {None}]
  BY <1>1 DEF TypeOK
<1> QED
  BY <1>1, <1>4, <1>5, <1>9, <1>10

\* Moving on, and returning.
LEMMA GotoType ==
  ASSUME TypeOK, NEW c \in Calls, NEW from, NEW to \in Labels, Goto(c, from, to)
  PROVE  /\ pc[c] = from /\ pc'[c] = to
         /\ pc' \in [Calls -> Labels]
         /\ \A d \in Calls : d # c => pc'[d] = pc[d]
  BY DEF TypeOK, Goto, Labels

\* A call that returns keeps the types and leaves the others alone.
LEMMA ReturnType ==
  ASSUME TypeOK, NEW c \in Calls, NEW from, NEW result \in Outcomes, Return(c, from, result)
  PROVE  /\ pc[c] = from /\ pc'[c] = "done" /\ outcome'[c] = result
         /\ pc' \in [Calls -> Labels]
         /\ outcome' \in [Calls -> Outcomes \cup {None}]
         /\ \A d \in Calls : d # c => pc'[d] = pc[d] /\ outcome'[d] = outcome[d]
<1>1. Goto(c, from, "done") /\ outcome' = [outcome EXCEPT ![c] = result]
  BY DEF Return
<1>2. outcome \in [Calls -> Outcomes \cup {None}]
  BY DEF TypeOK
<1> QED
  BY <1>1, <1>2, GotoType DEF Labels

(***************************************************************************)
(* One call's step leaves the other calls alone.                           *)
(***************************************************************************)
SameCall(d) ==
    /\ pc'[d] = pc[d] /\ method'[d] = method[d] /\ outcome'[d] = outcome[d]
    /\ retries_429'[d] = retries_429[d] /\ retries_5xx'[d] = retries_5xx[d]
    /\ refreshed'[d] = refreshed[d] /\ sends'[d] = sends[d] /\ status'[d] = status[d]
    /\ paid'[d] = paid[d] /\ wire'[d] = wire[d] /\ answers'[d] = answers[d]
    /\ effects'[d] = effects[d]

\* A call that nothing happened to keeps its part of the invariant.
LEMMA SameCallKeeps ==
  ASSUME NEW d \in Calls, CallInv(d), SameCall(d)
  PROVE  CallInv(d)'
  BY DEF CallInv, SameCall, LoopInv, LastInv, ResultInv, BoundInv, PaidInv, EffectInv,
         Refreshes

(***************************************************************************)
(* The actions.                                                            *)
(***************************************************************************)
\* What each action has to show.
Kept(c) == TypeOK' /\ CallInv(c)' /\ \A d \in Calls : d # c => SameCall(d)

\* Steps that only move on: the waits that end well, and Begin.
LEMMA MovesKeep ==
  ASSUME TypeOK, NEW c \in Calls, CallInv(c),
         Begin(c) \/ Refreshed(c) \/ BackoffEnds(c)
         \/ (Token(c) /\ method[c] # "unsupported")
  PROVE  Kept(c)
<1>1. PICK from \in {"idle", "token", "refresh", "backoff"}, to \in {"token", "acquire"} :
        Goto(c, from, to)
  BY DEF Begin, Refreshed, BackoffEnds, Token
<1>2. UNCHANGED <<method, outcome, retries_429, retries_5xx, sends, refreshed, status,
                  minute, used, paid, wire, answers, effects>>
  BY DEF Begin, Refreshed, BackoffEnds, Token, loop, budget, history
<1>3. /\ pc[c] = from /\ pc'[c] = to /\ pc' \in [Calls -> Labels]
      /\ \A d \in Calls : d # c => pc'[d] = pc[d]
  BY <1>1, GotoType DEF Labels
<1>4. TypeOK'
  BY <1>2, <1>3 DEF TypeOK, Labels
<1>5. CallInv(c)'
  BY <1>2, <1>3 DEF CallInv, LoopInv, LastInv, ResultInv, BoundInv, PaidInv, EffectInv,
                    Refreshes
<1> QED
  BY <1>2, <1>3, <1>4, <1>5 DEF Kept, SameCall

\* Steps that return without an answer of the API.
LEMMA FailuresKeep ==
  ASSUME TypeOK, NEW c \in Calls, CallInv(c),
         TokenFails(c) \/ AcquireFails(c) \/ RefreshFails(c) \/ BodyLost(c)
         \/ (Token(c) /\ method[c] = "unsupported")
  PROVE  Kept(c)
<1>1. PICK from \in {"token", "acquire", "refresh", "body"},
           result \in {"Auth", "Bad", "BudgetExceeded", "Unreachable"} :
        Return(c, from, result)
  BY DEF TokenFails, AcquireFails, RefreshFails, BodyLost, Token
<1>2. UNCHANGED <<method, retries_429, retries_5xx, sends, refreshed, status,
                  minute, used, paid, wire, answers, effects>>
  BY DEF TokenFails, AcquireFails, RefreshFails, BodyLost, Token, loop, budget, history
<1>3. /\ pc[c] = from /\ pc'[c] = "done" /\ outcome'[c] = result
      /\ pc' \in [Calls -> Labels] /\ outcome' \in [Calls -> Outcomes \cup {None}]
      /\ \A d \in Calls : d # c => pc'[d] = pc[d] /\ outcome'[d] = outcome[d]
  BY <1>1, ReturnType DEF Outcomes
<1>4. TypeOK'
  BY <1>2, <1>3 DEF TypeOK, Labels
<1>5. CallInv(c)'
  BY <1>2, <1>3 DEF CallInv, LoopInv, LastInv, ResultInv, BoundInv, PaidInv, EffectInv,
                    Refreshes
<1> QED
  BY <1>2, <1>3, <1>4, <1>5 DEF Kept, SameCall

\* A unit of the budget is taken.
LEMMA AcquireKeeps ==
  ASSUME TypeOK, NEW c \in Calls, CallInv(c), Acquire(c)
  PROVE  Kept(c)
<1>1. Goto(c, "acquire", "send")
      /\ UNCHANGED <<method, outcome, retries_429, retries_5xx, sends, refreshed, status,
                     minute, wire, answers, effects>>
  BY DEF Acquire, loop
<1>2. /\ pc[c] = "acquire" /\ pc'[c] = "send" /\ pc' \in [Calls -> Labels]
      /\ \A d \in Calls : d # c => pc'[d] = pc[d]
  BY <1>1, GotoType DEF Labels
<1>3. /\ paid' \in [Calls -> Nat] /\ used' \in 0 .. Cap
      /\ Cap > 0 => paid'[c] = paid[c] + 1
      /\ \A d \in Calls : d # c => paid'[d] = paid[d]
  <2>1. paid \in [Calls -> Nat] /\ used \in Int /\ 0 <= used /\ used <= Cap /\ Cap \in Nat
    BY DispatcherAssumption DEF TypeOK
  <2>2. /\ Cap = 0 \/ used < Cap
        /\ used' = used + Unit
        /\ paid' = [paid EXCEPT ![c] = @ + Unit]
    BY DEF Acquire
  <2>3. CASE Cap = 0
    BY <2>1, <2>2, <2>3 DEF Unit
  <2>4. CASE Cap # 0
    BY <2>1, <2>2, <2>4 DEF Unit
  <2> QED
    BY <2>3, <2>4
<1>4. TypeOK'
  BY <1>1, <1>2, <1>3 DEF TypeOK, Labels
<1>5. wire[c] \in Nat /\ paid[c] \in Nat
  BY DEF TypeOK
<1>6. CallInv(c)'
  BY <1>1, <1>2, <1>3, <1>5 DEF CallInv, LoopInv, LastInv, ResultInv, BoundInv, PaidInv,
                    EffectInv, Refreshes
<1> QED
  BY <1>1, <1>2, <1>3, <1>4, <1>6 DEF Kept, SameCall

\* The connection is lost: the call returns.
LEMMA LostKeeps ==
  ASSUME TypeOK, NEW c \in Calls, CallInv(c), Lost(c)
  PROVE  Kept(c)
<1>1. Return(c, "send", "Unreachable")
      /\ UNCHANGED <<method, retries_429, retries_5xx, sends, refreshed, status, answers,
                     paid, minute, used>>
  BY DEF Lost, loop, budget
<1>2. /\ pc[c] = "send" /\ pc'[c] = "done" /\ outcome'[c] = "Unreachable"
      /\ pc' \in [Calls -> Labels] /\ outcome' \in [Calls -> Outcomes \cup {None}]
      /\ \A d \in Calls : d # c => pc'[d] = pc[d] /\ outcome'[d] = outcome[d]
  BY <1>1, ReturnType DEF Outcomes
<1>3. /\ wire' \in [Calls -> Nat] /\ wire'[c] = wire[c] + 1
      /\ \A d \in Calls : d # c => wire'[d] = wire[d]
  BY DEF Lost, Sent, TypeOK
<1>4. /\ effects' \in [Calls -> Nat] /\ effects'[c] \in {effects[c], effects[c] + 1}
      /\ \A d \in Calls : d # c => effects'[d] = effects[d]
  BY DEF Lost, Sent, TypeOK
<1>5. TypeOK'
  BY <1>1, <1>2, <1>3, <1>4 DEF TypeOK, Labels
<1>6. /\ wire[c] \in Nat /\ paid[c] \in Nat /\ effects[c] \in Nat
      /\ retries_429[c] \in Nat /\ retries_5xx[c] \in Nat
  BY DispatcherAssumption DEF TypeOK
<1>7. CallInv(c)'
  BY <1>1, <1>2, <1>3, <1>4, <1>6 DEF CallInv, LoopInv, LastInv, ResultInv, BoundInv,
                    PaidInv, EffectInv, Refreshes
<1> QED
  BY <1>1, <1>2, <1>3, <1>4, <1>5, <1>7 DEF Kept, SameCall

\* What an answer of status s leaves to prove, whichever way the loop goes on.
LEMMA RetriesKeep ==
  ASSUME TypeOK, NEW c \in Calls, CallInv(c),
         Unauthorized(c) \/ RateLimited(c) \/ ServerError(c)
  PROVE  Kept(c)
<1>1. PICK s \in {"401", "429", "5xx"}, to \in {"refresh", "backoff"} :
        Goto(c, "send", to) /\ Answered(c, s) /\ Retried(c, s)
        /\ retries_429' = (IF s = "429" THEN [retries_429 EXCEPT ![c] = @ + 1]
                                        ELSE retries_429)
        /\ retries_5xx' = (IF s = "5xx" THEN [retries_5xx EXCEPT ![c] = @ + 1]
                                        ELSE retries_5xx)
        /\ refreshed' = (IF s = "401" THEN [refreshed EXCEPT ![c] = TRUE] ELSE refreshed)
        /\ UNCHANGED outcome
  <2>1. CASE Unauthorized(c)
    BY <2>1 DEF Unauthorized
  <2>2. CASE RateLimited(c)
    BY <2>2 DEF RateLimited
  <2>3. CASE ServerError(c)
    BY <2>3 DEF ServerError
  <2> QED
    BY <2>1, <2>2, <2>3
<1>2. s \in Statuses
  BY DEF Statuses
<1>3. /\ pc[c] = "send" /\ pc'[c] = to /\ pc' \in [Calls -> Labels]
      /\ \A d \in Calls : d # c => pc'[d] = pc[d]
  BY <1>1, GotoType DEF Labels
<1>4. /\ wire' = [wire EXCEPT ![c] = @ + 1]
      /\ sends' = [sends EXCEPT ![c] = @ + 1]
      /\ status' = [status EXCEPT ![c] = s]
      /\ answers'[c][s] = answers[c][s] + 1
      /\ \A z \in Statuses : z # s => answers'[c][z] = answers[c][z]
      /\ \A d \in Calls : d # c => answers'[d] = answers[d] /\ effects'[d] = effects[d]
      /\ effects'[c] \in {effects[c], effects[c] + 1}
      /\ s \in {"401", "429", "4xx"} => effects'[c] = effects[c]
      /\ answers' \in [Calls -> [Statuses -> Nat]]
      /\ effects' \in [Calls -> Nat]
      /\ wire' \in [Calls -> Nat] /\ sends' \in [Calls -> Nat]
      /\ status' \in [Calls -> Statuses \cup {None}]
      /\ UNCHANGED <<method, paid, minute, used>>
  BY <1>1, <1>2, AnsweredType DEF budget
<1>5. /\ retries_429 \in [Calls -> 0 .. MAX_429_RETRIES]
      /\ retries_5xx \in [Calls -> 0 .. MAX_5XX_RETRIES]
      /\ refreshed \in [Calls -> BOOLEAN]
      /\ MAX_429_RETRIES \in Nat /\ MAX_5XX_RETRIES \in Nat
      /\ wire \in [Calls -> Nat] /\ sends \in [Calls -> Nat] /\ paid \in [Calls -> Nat]
      /\ effects \in [Calls -> Nat] /\ status \in [Calls -> Statuses \cup {None}]
      /\ answers \in [Calls -> [Statuses -> Nat]]
  BY DispatcherAssumption DEF TypeOK
<1>6. /\ s = "401" => ~refreshed[c]
      /\ s = "429" => retries_429[c] < MAX_429_RETRIES
      /\ s = "5xx" => retries_5xx[c] < MAX_5XX_RETRIES /\ method[c] = "idempotent"
  BY <1>1 DEF Retried
<1>7. /\ retries_429' \in [Calls -> 0 .. MAX_429_RETRIES]
      /\ retries_5xx' \in [Calls -> 0 .. MAX_5XX_RETRIES]
      /\ refreshed' \in [Calls -> BOOLEAN]
      /\ \A d \in Calls : d # c => /\ retries_429'[d] = retries_429[d]
                                   /\ retries_5xx'[d] = retries_5xx[d]
                                   /\ refreshed'[d] = refreshed[d]
  BY ONLY <1>1, <1>5, <1>6, c \in Calls
<1>8. TypeOK'
  BY <1>1, <1>3, <1>4, <1>7 DEF TypeOK, Labels
<1>9. /\ retries_429'[c] = retries_429[c] + (IF s = "429" THEN 1 ELSE 0)
      /\ retries_5xx'[c] = retries_5xx[c] + (IF s = "5xx" THEN 1 ELSE 0)
      /\ Refreshes(c)' = Refreshes(c) + (IF s = "401" THEN 1 ELSE 0)
  BY <1>1, <1>5, <1>6 DEF Refreshes
<1>10. /\ wire'[c] = wire[c] + 1 /\ sends'[c] = sends[c] + 1
       /\ wire[c] \in Nat /\ sends[c] \in Nat /\ paid[c] \in Nat /\ effects[c] \in Nat
       /\ retries_429[c] \in Nat /\ retries_5xx[c] \in Nat /\ Refreshes(c) \in Nat
       /\ {"401", "429", "5xx"} \subseteq Statuses
       /\ outcome'[c] = outcome[c] /\ paid'[c] = paid[c] /\ method'[c] = method[c]
  BY <1>1, <1>4, <1>5 DEF Refreshes, Statuses
<1>11. LoopInv(c)'
  <2>1. /\ outcome[c] = None /\ sends[c] = wire[c]
        /\ wire[c] = retries_429[c] + retries_5xx[c] + Refreshes(c)
        /\ answers[c]["429"] = retries_429[c]
        /\ answers[c]["5xx"] = retries_5xx[c]
        /\ answers[c]["401"] = Refreshes(c)
    BY <1>3 DEF CallInv, LoopInv
  <2>2. /\ answers'[c]["429"] = answers[c]["429"] + (IF s = "429" THEN 1 ELSE 0)
        /\ answers'[c]["5xx"] = answers[c]["5xx"] + (IF s = "5xx" THEN 1 ELSE 0)
        /\ answers'[c]["401"] = answers[c]["401"] + (IF s = "401" THEN 1 ELSE 0)
    <3>1. answers[c]["429"] \in Nat /\ answers[c]["5xx"] \in Nat /\ answers[c]["401"] \in Nat
      BY <1>5, <1>10
    <3> QED
      BY ONLY <3>1, <1>1, <1>4, <1>10
  <2> QED
    BY <2>1, <2>2, <1>9, <1>10 DEF LoopInv
<1>12. LastInv(c)' /\ ResultInv(c)'
  BY <1>3, <1>10 DEF CallInv, LoopInv, LastInv, ResultInv, None
<1>13. BoundInv(c)'
  <2>1. wire[c] = retries_429[c] + retries_5xx[c] + Refreshes(c)
    BY <1>3 DEF CallInv, LoopInv
  <2> QED
    BY <2>1, <1>9, <1>10 DEF BoundInv
<1>14. PaidInv(c)'
  BY <1>3, <1>10 DEF CallInv, PaidInv
<1>15. EffectInv(c)'
  <2>1. CASE s = "5xx"
    BY <2>1, <1>6, <1>10 DEF EffectInv
  <2>2. CASE s # "5xx"
    <3>1. effects'[c] = effects[c]
      BY <2>2, <1>4
    <3> QED
      BY <3>1, <1>3, <1>10 DEF CallInv, EffectInv
  <2> QED
    BY <2>1, <2>2
<1>16. \A d \in Calls : d # c => SameCall(d)
  BY <1>1, <1>3, <1>4, <1>7 DEF SameCall
<1> QED
  BY <1>8, <1>11, <1>12, <1>13, <1>14, <1>15, <1>16 DEF Kept, CallInv

\* An answer that is not retried.
LEMMA LastAnswerKeeps ==
  ASSUME TypeOK, NEW c \in Calls, CallInv(c), NEW s \in Statuses, LastAnswer(c, s)
  PROVE  Kept(c)
<1>1. Goto(c, "send", "body") /\ Answered(c, s) /\ ~Retried(c, s)
      /\ UNCHANGED <<outcome, retries_429, retries_5xx, refreshed>>
  BY DEF LastAnswer
<1>2. /\ pc[c] = "send" /\ pc'[c] = "body" /\ pc' \in [Calls -> Labels]
      /\ \A d \in Calls : d # c => pc'[d] = pc[d]
  BY <1>1, GotoType DEF Labels
<1>3. /\ wire' = [wire EXCEPT ![c] = @ + 1]
      /\ sends' = [sends EXCEPT ![c] = @ + 1]
      /\ status' = [status EXCEPT ![c] = s]
      /\ answers'[c][s] = answers[c][s] + 1
      /\ \A d \in Calls : d # c => answers'[d] = answers[d] /\ effects'[d] = effects[d]
      /\ effects'[c] \in {effects[c], effects[c] + 1}
      /\ answers' \in [Calls -> [Statuses -> Nat]]
      /\ effects' \in [Calls -> Nat]
      /\ wire' \in [Calls -> Nat] /\ sends' \in [Calls -> Nat]
      /\ status' \in [Calls -> Statuses \cup {None}]
      /\ UNCHANGED <<method, paid, minute, used>>
  BY <1>1, AnsweredType DEF budget
<1>4. TypeOK'
  BY <1>1, <1>2, <1>3 DEF TypeOK, Labels
<1>5. /\ wire'[c] = wire[c] + 1 /\ sends'[c] = sends[c] + 1 /\ status'[c] = s
      /\ wire[c] \in Nat /\ sends[c] \in Nat /\ paid[c] \in Nat /\ effects[c] \in Nat
      /\ retries_429[c] \in 0 .. MAX_429_RETRIES /\ retries_5xx[c] \in 0 .. MAX_5XX_RETRIES
      /\ MAX_429_RETRIES \in Nat /\ MAX_5XX_RETRIES \in Nat
      /\ refreshed[c] \in BOOLEAN
  BY <1>3, DispatcherAssumption DEF TypeOK
<1>6. /\ outcome[c] = None /\ sends[c] = wire[c]
      /\ wire[c] = retries_429[c] + retries_5xx[c] + Refreshes(c)
      /\ answers[c]["429"] = retries_429[c]
      /\ answers[c]["5xx"] = retries_5xx[c]
      /\ answers[c]["401"] = Refreshes(c)
  BY <1>2 DEF CallInv, LoopInv
<1>7. /\ s = "401" => refreshed[c]
      /\ s = "429" => retries_429[c] = MAX_429_RETRIES
      /\ s = "5xx" => retries_5xx[c] = MAX_5XX_RETRIES \/ method[c] # "idempotent"
  BY <1>1, <1>5 DEF Retried
<1>8. LoopInv(c)' /\ ResultInv(c)'
  BY <1>1, <1>2, <1>6 DEF LoopInv, ResultInv, None
<1>9. LastInv(c)'
  <2>1. s = "429" => answers'[c]["429"] = MAX_429_RETRIES + 1
    BY <1>3, <1>6, <1>7
  <2>2. s = "5xx" /\ method'[c] = "idempotent" => answers'[c]["5xx"] = MAX_5XX_RETRIES + 1
    BY <1>3, <1>6, <1>7
  <2>3. s = "401" => answers'[c]["401"] = 2
    BY <1>3, <1>6, <1>7 DEF Refreshes
  <2> QED
    BY <2>1, <2>2, <2>3, <1>5, <1>6 DEF LastInv
<1>10. BoundInv(c)'
  BY <1>1, <1>5, <1>6 DEF BoundInv, Refreshes
<1>11. PaidInv(c)'
  BY <1>2, <1>3, <1>5 DEF CallInv, PaidInv
<1>12. EffectInv(c)'
  BY <1>2, <1>3, <1>5 DEF CallInv, EffectInv
<1>13. \A d \in Calls : d # c => SameCall(d)
  BY <1>1, <1>2, <1>3 DEF SameCall
<1> QED
  BY <1>4, <1>8, <1>9, <1>10, <1>11, <1>12, <1>13 DEF Kept, CallInv

\* The body is read: the call returns.
LEMMA BodyReadKeeps ==
  ASSUME TypeOK, NEW c \in Calls, CallInv(c), BodyRead(c)
  PROVE  Kept(c)
<1>1. Return(c, "body", ResultOf(status[c]))
      /\ UNCHANGED <<method, retries_429, retries_5xx, sends, refreshed, status, minute,
                     used, paid, wire, answers, effects>>
  BY DEF BodyRead, loop, budget, history
<1>2. pc[c] = "body"
  BY <1>1 DEF Return, Goto
<1>3. status[c] \in Statuses
  BY <1>2 DEF CallInv, LastInv
<1>4. /\ ResultOf(status[c]) \in {"ok", "RateLimited", "Server", "Client"}
      /\ ResultOf(status[c]) = "RateLimited" => status[c] = "429"
      /\ ResultOf(status[c]) = "Server" => status[c] = "5xx"
  BY <1>3 DEF ResultOf, Statuses
<1>5. /\ pc'[c] = "done" /\ outcome'[c] = ResultOf(status[c])
      /\ pc' \in [Calls -> Labels] /\ outcome' \in [Calls -> Outcomes \cup {None}]
      /\ \A d \in Calls : d # c => pc'[d] = pc[d] /\ outcome'[d] = outcome[d]
  BY <1>1, <1>4, ReturnType DEF Outcomes
<1>6. TypeOK'
  BY <1>1, <1>5 DEF TypeOK, Labels
<1>7. CallInv(c)'
  BY <1>1, <1>2, <1>4, <1>5 DEF CallInv, LoopInv, LastInv, ResultInv, BoundInv, PaidInv,
                    EffectInv, Refreshes
<1> QED
  BY <1>1, <1>5, <1>6, <1>7 DEF Kept, SameCall

\* The minute turns.
LEMMA TurnKeeps == ASSUME IInv, Turn PROVE IInv'
<1>1. UNCHANGED <<pc, method, retries_429, retries_5xx, sends, refreshed, status, outcome,
                  paid, wire, answers, effects>>
      /\ minute' = minute + 1 /\ used' = 0
  BY DEF Turn, loop, history
<1>2. TypeOK'
  BY <1>1, DispatcherAssumption DEF IInv, TypeOK
<1>3. \A d \in Calls : SameCall(d)
  BY <1>1 DEF SameCall
<1> QED
  BY <1>2, <1>3, SameCallKeeps DEF IInv

\* A call's step keeps its own part, and touches no other call.
LEMMA StepKeeps ==
  ASSUME IInv, NEW c \in Calls, Begin(c) \/ Step(c)
  PROVE  Kept(c)
<1>1. TypeOK /\ CallInv(c)
  BY DEF IInv
<1>2. CASE Begin(c) \/ Refreshed(c) \/ BackoffEnds(c)
           \/ (Token(c) /\ method[c] # "unsupported")
  BY <1>1, <1>2, MovesKeep
<1>3. CASE TokenFails(c) \/ AcquireFails(c) \/ RefreshFails(c) \/ BodyLost(c)
           \/ (Token(c) /\ method[c] = "unsupported")
  BY <1>1, <1>3, FailuresKeep
<1>4. CASE Acquire(c) \/ Lost(c) \/ BodyRead(c)
  BY <1>1, <1>4, AcquireKeeps, LostKeeps, BodyReadKeeps
<1>5. CASE Unauthorized(c) \/ RateLimited(c) \/ ServerError(c)
  BY <1>1, <1>5, RetriesKeep
<1>6. CASE \E s \in Statuses : LastAnswer(c, s)
  BY <1>1, <1>6, LastAnswerKeeps
<1> QED
  BY <1>2, <1>3, <1>4, <1>5, <1>6 DEF Step

\* Every step keeps the invariant.
LEMMA NextKeepsIInv == IInv /\ [Next]_vars => IInv'
<1> SUFFICES ASSUME IInv, [Next]_vars PROVE IInv'
  OBVIOUS
<1>1. CASE Turn
  BY <1>1, TurnKeeps
<1>2. ASSUME NEW c \in Calls, Begin(c) \/ Step(c) PROVE IInv'
  BY <1>2, StepKeeps, SameCallKeeps DEF Kept, IInv
<1>3. CASE UNCHANGED vars
  <2>1. UNCHANGED <<pc, method, retries_429, retries_5xx, sends, refreshed, status, outcome,
                    minute, used, paid, wire, answers, effects>>
    BY <1>3 DEF vars, loop, budget, history
  <2>2. TypeOK' /\ \A d \in Calls : SameCall(d)
    BY <2>1 DEF IInv, TypeOK, SameCall
  <2> QED
    BY <2>2, SameCallKeeps DEF IInv
<1> QED
  BY <1>1, <1>2, <1>3 DEF Next

(***************************************************************************)
(* Sums over finite sets: what SumFunction of Functions returns.  Its fold *)
(* takes one element at a time out of the domain; the induction is over    *)
(* the subsets of the domain, as a set of them and not as an operator.     *)
(***************************************************************************)
OneOf(s) == CHOOSE x \in s : TRUE

\* it is the recursive function of the fold: the sum of f over each subset of S.
Sums(f, it, S) ==
    it = [s \in SUBSET S |-> IF s = {} THEN 0 ELSE f[OneOf(s)] + it[s \ {OneOf(s)}]]

\* A set of numbers with 0 in it, closed under successor, has every number.
LEMMA NatSetInduction ==
  ASSUME NEW G \in SUBSET Nat, 0 \in G, \A n \in Nat : n \in G => n + 1 \in G
  PROVE  G = Nat
<1> SUFFICES ASSUME Nat \ G # {} PROVE FALSE
  OBVIOUS
<1>1. PICK m \in Nat \ G : \A n \in Nat \ G : <<n, m>> \notin OpToRel(<, Nat)
  BY NatLessThanWellFounded, WFMin, Nat \ G \subseteq Nat
<1>2. \A n \in Nat \ G : ~(n < m)
  <2> SUFFICES ASSUME NEW n \in Nat \ G, n < m PROVE FALSE
    OBVIOUS
  <2>1. <<n, m>> \in OpToRel(<, Nat)
    BY DEF OpToRel
  <2> QED
    BY <1>1, <2>1
<1>3. m # 0 /\ m - 1 \in Nat /\ m - 1 < m
  OBVIOUS
<1>4. m - 1 \in G
  BY <1>2, <1>3
<1> QED
  BY <1>3, <1>4, (m - 1) + 1 = m

\* What holds of the empty set, and of a set when it holds of it without one
\* of its elements, holds of every subset of a finite set.
LEMMA SubsetInduction ==
  ASSUME NEW S, IsFiniteSet(S), NEW G \in SUBSET SUBSET S, {} \in G,
         \A s \in SUBSET S : s # {} /\ s \ {OneOf(s)} \in G => s \in G
  PROVE  G = SUBSET S
<1> SUFFICES ASSUME (SUBSET S) \ G # {} PROVE FALSE
  OBVIOUS
<1> DEFINE T == (SUBSET S) \ G
<1>1. IsWellFoundedOn(StrictSubsetOrdering(S), SUBSET S)
  <2>1. FiniteSubsetsOf(S) = SUBSET S
    BY FS_FiniteSubsetsOfFinite
  <2>2. IsWellFoundedOn(StrictSubsetOrdering(S), FiniteSubsetsOf(S))
    BY FS_StrictSubsetOrderingWellFounded
  <2> QED
    BY <2>1, <2>2
<1>2. PICK s \in T : \A t \in T : <<t, s>> \notin StrictSubsetOrdering(S)
  <2>1. T \subseteq SUBSET S /\ T # {}
    OBVIOUS
  <2> HIDE DEF T
  <2> QED
    BY ONLY <1>1, <2>1, WFMin
<1> DEFINE t == s \ {OneOf(s)}
<1>3. s # {}
  OBVIOUS
<1>4. OneOf(s) \in s
  BY <1>3 DEF OneOf
<1>5. t \in SUBSET S /\ t \subseteq s /\ t # s
  BY <1>4
<1>6. <<t, s>> \in StrictSubsetOrdering(S)
  BY <1>5 DEF StrictSubsetOrdering
<1>7. t \in G
  BY <1>2, <1>5, <1>6
<1> QED
  BY <1>3, <1>7

\* The fold's recursive function exists.
LEMMA SumsExist ==
  ASSUME NEW f, NEW S, IsFiniteSet(S)
  PROVE  \E it : Sums(f, it, S)
<1> DEFINE Small(n) == {s \in SUBSET S : Cardinality(s) <= n}
           Step1(it, s) == IF s = {} THEN 0 ELSE f[OneOf(s)] + it[s \ {OneOf(s)}]
           G == {n \in Nat : \E it : it = [s \in Small(n) |-> Step1(it, s)]}
<1>1. \A s \in SUBSET S : /\ IsFiniteSet(s) /\ Cardinality(s) \in Nat
                          /\ Cardinality(s) <= Cardinality(S)
                          /\ Cardinality(s) = 0 => s = {}
  BY FS_Subset, FS_CardinalityType, FS_EmptySet
<1>2. \A s \in SUBSET S : s # {} =>
        s \ {OneOf(s)} \in SUBSET S /\ Cardinality(s \ {OneOf(s)}) = Cardinality(s) - 1
  <2> SUFFICES ASSUME NEW s \in SUBSET S, s # {}
               PROVE  /\ s \ {OneOf(s)} \in SUBSET S
                      /\ Cardinality(s \ {OneOf(s)}) = Cardinality(s) - 1
    OBVIOUS
  <2>1. OneOf(s) \in s
    BY DEF OneOf
  <2> QED
    BY <1>1, <2>1, FS_RemoveElement
<1>3. 0 \in G
  <2> DEFINE g == [s \in Small(0) |-> 0]
  <2>1. \A s \in Small(0) : s = {}
    BY <1>1
  <2>2. g = [s \in Small(0) |-> Step1(g, s)]
    BY <2>1
  <2> QED
    BY <2>2
<1>4. \A n \in Nat : n \in G => n + 1 \in G
  <2> SUFFICES ASSUME NEW n \in Nat, n \in G PROVE n + 1 \in G
    OBVIOUS
  <2>1. PICK it : it = [s \in Small(n) |-> Step1(it, s)]
    OBVIOUS
  <2> DEFINE g == [s \in Small(n + 1) |-> Step1(it, s)]
  <2>2. \A s \in Small(n) : s \in Small(n + 1)
    BY <1>1
  <2>3. \A s \in Small(n) : g[s] = it[s]
    <3>1. \A s \in Small(n) : it[s] = Step1(it, s)
      BY <2>1
    <3> QED
      BY <2>2, <3>1
  <2>4. \A s \in Small(n + 1) : s # {} => s \ {OneOf(s)} \in Small(n)
    BY <1>1, <1>2
  <2>5. \A s \in Small(n + 1) : Step1(it, s) = Step1(g, s)
    BY <2>3, <2>4
  <2>6. g = [s \in Small(n + 1) |-> Step1(g, s)]
    BY <2>5
  <2>7. \E it1 : it1 = [s \in Small(n + 1) |-> Step1(it1, s)]
    <3> HIDE DEF g, Small, Step1
    <3> QED
      BY <2>6, Zenon
  <2> QED
    BY <2>7, n + 1 \in Nat
<1>5. G = Nat
  <2> HIDE DEF G
  <2>1. G \in SUBSET Nat
    BY DEF G
  <2> QED
    BY <1>3, <1>4, <2>1, NatSetInduction
<1>6. Cardinality(S) \in G
  BY <1>1, <1>5
<1>7. Small(Cardinality(S)) = SUBSET S
  BY <1>1
<1>8. PICK it : it = [s \in SUBSET S |-> Step1(it, s)]
  BY <1>6, <1>7
<1> QED
  BY <1>8 DEF Sums

\* What that recursive function says of each subset.
PartialSums(f, it, S) ==
    /\ it[{}] = 0
    /\ \A s \in SUBSET S : s # {} =>
          /\ OneOf(s) \in s
          /\ s \ {OneOf(s)} \in SUBSET S
          /\ it[s] = f[OneOf(s)] + it[s \ {OneOf(s)}]

\* The sum of a function over a finite domain, and its recursion.
LEMMA SumOf ==
  ASSUME NEW S, IsFiniteSet(S), NEW f \in [S -> Nat]
  PROVE  \E it : SumFunction(f) = it[S] /\ PartialSums(f, it, S)
<1> DEFINE it == CHOOSE g : Sums(f, g, S)
<1>1. Sums(f, it, S)
  BY SumsExist
<1>2. SumFunction(f) = it[S]
  <2>1. DOMAIN f = S
    OBVIOUS
  <2>2. SumFunction(f) = (CHOOSE g : Sums(f, g, DOMAIN f))[DOMAIN f]
    BY Zenon DEF Sums, OneOf, SumFunction, SumFunctionOnSet, FoldFunctionOnSet,
                 MapThenFoldSet
  <2> QED
    BY <2>1, <2>2
<1> HIDE DEF it
<1>3. it[{}] = 0
  BY <1>1 DEF Sums
<1>4. ASSUME NEW s \in SUBSET S, s # {}
      PROVE  /\ OneOf(s) \in s
             /\ s \ {OneOf(s)} \in SUBSET S
             /\ it[s] = f[OneOf(s)] + it[s \ {OneOf(s)}]
  <2>1. OneOf(s) \in s
    BY <1>4 DEF OneOf
  <2>2. it[s] = f[OneOf(s)] + it[s \ {OneOf(s)}]
    BY <1>1, <1>4 DEF Sums
  <2> QED
    BY <2>1, <2>2
<1> QED
  BY <1>2, <1>3, <1>4 DEF PartialSums

\* A sum of natural numbers is one.
LEMMA SumIsNat ==
  ASSUME NEW S, IsFiniteSet(S), NEW f \in [S -> Nat]
  PROVE  SumFunction(f) \in Nat
<1>1. PICK it : SumFunction(f) = it[S] /\ PartialSums(f, it, S)
  BY SumOf
<1> DEFINE G == {s \in SUBSET S : it[s] \in Nat}
<1>2. {} \in G /\ G \in SUBSET SUBSET S
  BY <1>1 DEF PartialSums
<1>3. \A s \in SUBSET S : s # {} /\ s \ {OneOf(s)} \in G => s \in G
  BY <1>1 DEF PartialSums
<1>4. G = SUBSET S
  <2> HIDE DEF G
  <2> QED
    BY <1>2, <1>3, SubsetInduction
<1>5. S \in G
  BY <1>4
<1> QED
  BY <1>1, <1>5

\* The sum of zeros is zero.
LEMMA SumOfZeros ==
  ASSUME NEW S, IsFiniteSet(S)
  PROVE  SumFunction([x \in S |-> 0]) = 0
<1> DEFINE f == [x \in S |-> 0]
<1>1. f \in [S -> Nat]
  OBVIOUS
<1>2. PICK it : SumFunction(f) = it[S] /\ PartialSums(f, it, S)
  BY <1>1, SumOf
<1> DEFINE G == {s \in SUBSET S : it[s] = 0}
<1>3. {} \in G /\ G \in SUBSET SUBSET S
  BY <1>2 DEF PartialSums
<1>4. \A s \in SUBSET S : s # {} /\ s \ {OneOf(s)} \in G => s \in G
  BY <1>2 DEF PartialSums
<1>5. G = SUBSET S
  <2> HIDE DEF G
  <2> QED
    BY <1>3, <1>4, SubsetInduction
<1>6. S \in G
  BY <1>5
<1> QED
  BY <1>2, <1>6

\* The larger function has the larger sum.
LEMMA SumMonotone ==
  ASSUME NEW S, IsFiniteSet(S), NEW f \in [S -> Nat], NEW g \in [S -> Nat],
         \A x \in S : f[x] <= g[x]
  PROVE  SumFunction(f) <= SumFunction(g)
<1>1. PICK it : SumFunction(f) = it[S] /\ PartialSums(f, it, S)
  BY SumOf
<1>2. PICK jt : SumFunction(g) = jt[S] /\ PartialSums(g, jt, S)
  BY SumOf
<1> DEFINE G == {s \in SUBSET S : it[s] \in Nat /\ jt[s] \in Nat /\ it[s] <= jt[s]}
<1>3. {} \in G /\ G \in SUBSET SUBSET S
  BY <1>1, <1>2 DEF PartialSums
<1>4. ASSUME NEW s \in SUBSET S, s # {}, s \ {OneOf(s)} \in G PROVE s \in G
  <2>1. /\ OneOf(s) \in S
        /\ it[s] = f[OneOf(s)] + it[s \ {OneOf(s)}]
        /\ jt[s] = g[OneOf(s)] + jt[s \ {OneOf(s)}]
    BY <1>1, <1>2, <1>4 DEF PartialSums
  <2>2. f[OneOf(s)] \in Nat /\ g[OneOf(s)] \in Nat /\ f[OneOf(s)] <= g[OneOf(s)]
    BY <2>1
  <2> QED
    BY <1>4, <2>1, <2>2
<1>5. G = SUBSET S
  <2> HIDE DEF G
  <2> QED
    BY <1>3, <1>4, SubsetInduction
<1>6. S \in G
  BY <1>5
<1> QED
  BY <1>1, <1>2, <1>6

\* One more at one place is one more in the sum.
LEMMA SumOfOneMore ==
  ASSUME NEW S, IsFiniteSet(S), NEW f \in [S -> Nat], NEW c \in S, NEW n \in Nat
  PROVE  SumFunction([f EXCEPT ![c] = @ + n]) = SumFunction(f) + n
<1> DEFINE g == [f EXCEPT ![c] = @ + n]
<1>1. /\ g \in [S -> Nat] /\ g[c] = f[c] + n
      /\ \A x \in S : x # c => g[x] = f[x]
  OBVIOUS
<1> HIDE DEF g
<1>2. PICK it : SumFunction(f) = it[S] /\ PartialSums(f, it, S)
  BY SumOf
<1>3. PICK jt : SumFunction(g) = jt[S] /\ PartialSums(g, jt, S)
  BY <1>1, SumOf
<1> DEFINE G == {s \in SUBSET S : /\ it[s] \in Nat /\ jt[s] \in Nat
                                  /\ jt[s] = it[s] + (IF c \in s THEN n ELSE 0)}
<1>4. {} \in G /\ G \in SUBSET SUBSET S
  BY <1>2, <1>3 DEF PartialSums
<1>5. ASSUME NEW s \in SUBSET S, s # {}, s \ {OneOf(s)} \in G PROVE s \in G
  <2>1. OneOf(s) \in s
    BY <1>5 DEF OneOf
  <2>2. /\ it[s] = f[OneOf(s)] + it[s \ {OneOf(s)}]
        /\ jt[s] = g[OneOf(s)] + jt[s \ {OneOf(s)}]
    BY <1>2, <1>3, <1>5 DEF PartialSums
  <2>3. /\ it[s \ {OneOf(s)}] \in Nat /\ jt[s \ {OneOf(s)}] \in Nat
        /\ f[OneOf(s)] \in Nat /\ g[OneOf(s)] \in Nat
    BY <1>1, <1>5, <2>1
  <2>4. CASE OneOf(s) = c
    <3>1. jt[s \ {OneOf(s)}] = it[s \ {OneOf(s)}]
      BY <1>5, <2>3, <2>4
    <3>2. c \in s
      BY <2>1, <2>4
    <3> QED
      BY <1>1, <2>2, <2>3, <2>4, <3>1, <3>2
  <2>5. CASE OneOf(s) # c
    <3>1. jt[s \ {OneOf(s)}] = it[s \ {OneOf(s)}] + (IF c \in s THEN n ELSE 0)
      BY <1>5, <2>5
    <3>2. g[OneOf(s)] = f[OneOf(s)]
      BY <1>1, <2>1, <2>5
    <3> QED
      BY <2>2, <2>3, <3>1, <3>2
  <2> QED
    BY <2>4, <2>5
<1>6. G = SUBSET S
  <2> HIDE DEF G
  <2> QED
    BY <1>4, <1>5, SubsetInduction
<1>7. S \in G
  BY <1>6
<1>8. SumFunction(g) = SumFunction(f) + n
  BY <1>2, <1>3, <1>7
<1> QED
  BY <1>8 DEF g

(***************************************************************************)
(* All calls together: what they acquired fits in the minutes so far.      *)
(***************************************************************************)
QuotaInv == Cap > 0 => SumFunction(paid) <= Cap * minute + used

\* Nothing is acquired at first.
LEMMA InitQuotaInv == Init => QuotaInv
<1> SUFFICES ASSUME Init, Cap > 0 PROVE SumFunction(paid) <= Cap * minute + used
  BY DEF QuotaInv
<1>1. SumFunction(paid) = 0
  BY SumOfZeros, DispatcherAssumption DEF Init
<1>2. Cap \in Nat /\ minute = 0 /\ used = 0
  BY DispatcherAssumption DEF Init
<1>3. Cap * minute = 0
  BY <1>2
<1> QED
  BY <1>1, <1>2, <1>3

\* An acquired unit counts in the quota that is used.
LEMMA AcquireQuotaInv ==
  ASSUME TypeOK, QuotaInv, NEW c \in Calls, Acquire(c)
  PROVE  QuotaInv'
<1> SUFFICES ASSUME Cap > 0 PROVE SumFunction(paid)' <= Cap * minute' + used'
  BY DEF QuotaInv
<1>1. /\ paid \in [Calls -> Nat] /\ used \in Nat /\ minute \in Nat /\ Cap \in Nat
      /\ IsFiniteSet(Calls)
  BY DispatcherAssumption DEF TypeOK
<1>2. paid' = [paid EXCEPT ![c] = @ + 1] /\ used' = used + 1 /\ minute' = minute
  <2>1. Unit = 1
    BY <1>1 DEF Unit
  <2> QED
    BY <2>1 DEF Acquire
<1>3. SumFunction([paid EXCEPT ![c] = @ + 1]) = SumFunction(paid) + 1
  BY <1>1, SumOfOneMore
<1>4. SumFunction(paid)' = SumFunction(paid) + 1
  BY <1>2, <1>3
<1>5. SumFunction(paid) \in Nat
  BY <1>1, SumIsNat
<1>6. SumFunction(paid) <= Cap * minute + used
  BY DEF QuotaInv
<1>7. Cap * minute \in Nat
  BY <1>1
<1> QED
  BY <1>1, <1>2, <1>4, <1>5, <1>6, <1>7

\* A new minute has room for all that the last one may still have used.
LEMMA TurnQuotaInv == ASSUME TypeOK, QuotaInv, Turn PROVE QuotaInv'
<1> SUFFICES ASSUME Cap > 0 PROVE SumFunction(paid)' <= Cap * minute' + used'
  BY DEF QuotaInv
<1>1. /\ paid \in [Calls -> Nat] /\ used \in 0 .. Cap /\ minute \in Nat /\ Cap \in Nat
      /\ IsFiniteSet(Calls)
  BY DispatcherAssumption DEF TypeOK
<1>2. paid' = paid /\ minute' = minute + 1 /\ used' = 0
  BY DEF Turn, history
<1>3. SumFunction(paid) \in Nat
  BY <1>1, SumIsNat
<1>4. SumFunction(paid)' = SumFunction(paid)
  BY <1>2
<1>5. SumFunction(paid) <= Cap * minute + used
  BY DEF QuotaInv
<1>6. Cap * (minute + 1) = Cap * minute + Cap /\ Cap * minute \in Nat
  BY <1>1
<1>7. Cap * minute' = Cap * minute + Cap
  BY <1>2, <1>6
<1> QED
  BY <1>1, <1>2, <1>3, <1>4, <1>5, <1>6, <1>7

\* No other step touches the quota.
LEMMA NextQuotaInv == TypeOK /\ QuotaInv /\ [Next]_vars => QuotaInv'
<1> SUFFICES ASSUME TypeOK, QuotaInv, [Next]_vars PROVE QuotaInv'
  OBVIOUS
<1>1. ASSUME UNCHANGED <<paid, minute, used>> PROVE QuotaInv'
  BY <1>1 DEF QuotaInv
<1>2. CASE Turn
  BY <1>2, TurnQuotaInv
<1>3. ASSUME NEW c \in Calls, Acquire(c) PROVE QuotaInv'
  BY <1>3, AcquireQuotaInv
<1>4. ASSUME NEW c \in Calls, Begin(c) \/ Step(c), ~Acquire(c)
      PROVE  UNCHANGED <<paid, minute, used>>
  <2>1. CASE Begin(c) \/ Token(c) \/ TokenFails(c) \/ AcquireFails(c) \/ Refreshed(c)
             \/ RefreshFails(c) \/ BackoffEnds(c) \/ BodyRead(c) \/ BodyLost(c)
    BY <2>1 DEF Begin, Token, TokenFails, AcquireFails, Refreshed, RefreshFails,
                BackoffEnds, BodyRead, BodyLost, budget, history
  <2>2. CASE Lost(c)
    BY <2>2 DEF Lost, budget
  <2>3. ASSUME NEW s \in Statuses, Answered(c, s) PROVE UNCHANGED <<paid, minute, used>>
    BY <2>3 DEF Answered, budget
  <2>4. CASE Unauthorized(c) \/ RateLimited(c) \/ ServerError(c)
    <3>1. {"401", "429", "5xx"} \subseteq Statuses
      BY DEF Statuses
    <3> QED
      BY <2>3, <2>4, <3>1 DEF Unauthorized, RateLimited, ServerError
  <2>5. CASE \E s \in Statuses : LastAnswer(c, s)
    BY <2>3, <2>5 DEF LastAnswer
  <2> QED
    BY <1>4, <2>1, <2>2, <2>4, <2>5 DEF Step
<1>5. CASE UNCHANGED vars
  BY <1>1, <1>5 DEF vars, budget, history
<1> QED
  BY <1>1, <1>2, <1>3, <1>4, <1>5 DEF Next

(***************************************************************************)
(* The theorems.                                                           *)
(***************************************************************************)
\* Every request, effect and answer of every call stays accounted for.
THEOREM Inductive == Spec => []IInv
  BY InitIInv, NextKeepsIInv, PTL DEF Spec

\* The dispatcher's state is well-typed: no retry counter passes its limit.
THEOREM TypeCorrect == Spec => []TypeOK
<1>1. IInv => TypeOK
  BY DEF IInv
<1> QED
  BY <1>1, Inductive, PTL

\* A tool call makes one request, its retries and one re-send at the most.
THEOREM SendsAreBoundedHolds == Spec => []SendsAreBounded
<1>1. IInv => SendsAreBounded
  <2> SUFFICES ASSUME IInv, NEW c \in Calls PROVE wire[c] <= MaxSends
    BY DEF SendsAreBounded
  <2>1. wire[c] <= 1 + retries_429[c] + retries_5xx[c] + Refreshes(c)
    BY DEF IInv, CallInv, BoundInv
  <2>2. /\ wire[c] \in Nat /\ Refreshes(c) \in {0, 1}
        /\ retries_429[c] \in 0 .. MAX_429_RETRIES /\ retries_5xx[c] \in 0 .. MAX_5XX_RETRIES
    BY DEF IInv, TypeOK, Refreshes
  <2> QED
    BY <2>1, <2>2, DispatcherAssumption DEF MaxSends
<1> QED
  BY <1>1, Inductive, PTL

\* The retries never make the API carry out a non-idempotent request twice.
THEOREM NoDuplicateEffectHolds == Spec => []NoDuplicateEffect
<1>1. IInv => NoDuplicateEffect
  BY DEF IInv, CallInv, EffectInv, NoDuplicateEffect
<1> QED
  BY <1>1, Inductive, PTL

\* No request leaves without a unit of the budget.
THEOREM EverySendIsPaidHolds == Spec => []EverySendIsPaid
<1>1. IInv => EverySendIsPaid
  <2> SUFFICES ASSUME IInv, NEW c \in Calls, Cap > 0 PROVE wire[c] <= paid[c]
    BY DEF EverySendIsPaid
  <2>1. wire[c] \in Nat /\ paid[c] \in Nat /\ PaidInv(c)
    BY DEF IInv, TypeOK, CallInv
  <2> QED
    BY <2>1 DEF PaidInv
<1> QED
  BY <1>1, Inductive, PTL

\* A 429, a 5xx or a 401 is reported when the policy's retries are used up.
THEOREM GivesUpLastHolds == Spec => []GivesUpLast
<1>1. IInv => GivesUpLast
  BY DEF IInv, CallInv, LastInv, ResultInv, GivesUpLast
<1> QED
  BY <1>1, Inductive, PTL

\* The attempts a report gives are the requests that were made.
THEOREM AttemptsAreSendsHolds == Spec => []AttemptsAreSends
<1>1. IInv => AttemptsAreSends
  BY DEF IInv, CallInv, LastInv, AttemptsAreSends
<1> QED
  BY <1>1, Inductive, PTL

(***************************************************************************)
(* Why a dispatch ends: each of its steps uses up a measure.  A round      *)
(* (acquire, send, wait) costs a retry or the refresh, and within a round  *)
(* the loop only goes forward.                                             *)
(***************************************************************************)
RoundsLeft(c) ==
    (MAX_429_RETRIES - retries_429[c]) + (MAX_5XX_RETRIES - retries_5xx[c])
        + (1 - Refreshes(c))

\* How many steps at most each place is from the end, but for further rounds.
Rank(label) ==
    CASE label = "idle" -> 6
      [] label = "token" -> 5
      [] label \in {"refresh", "backoff"} -> 4
      [] label = "acquire" -> 3
      [] label = "send" -> 2
      [] label = "body" -> 1
      [] label = "done" -> 0

StepsLeft(c) == 3 * RoundsLeft(c) + Rank(pc[c])

\* A step of the program either leaves a call alone or brings it nearer its end,
\* and no retry adds to what is left.
UsesUpSteps ==
    \A c \in Calls : SameCall(c) \/ StepsLeft(c)' < StepsLeft(c)

\* Three steps a round, as many rounds as there are requests, the first three steps
\* of a call, and the answer's body instead of a wait.
StepsBounded ==
    \A c \in Calls : StepsLeft(c) \in 0 .. 3 * MaxSends + 3

\* The measure is a number within the bound.
LEMMA MeasureType ==
  ASSUME TypeOK, NEW c \in Calls
  PROVE  /\ RoundsLeft(c) \in 0 .. MaxSends - 1
         /\ Rank(pc[c]) \in 0 .. 6
         /\ StepsLeft(c) \in 0 .. 3 * MaxSends + 3
<1>1. /\ retries_429[c] \in 0 .. MAX_429_RETRIES /\ MAX_429_RETRIES \in Nat
      /\ retries_5xx[c] \in 0 .. MAX_5XX_RETRIES /\ MAX_5XX_RETRIES \in Nat
      /\ Refreshes(c) \in 0 .. 1
  BY DispatcherAssumption DEF TypeOK, Refreshes
<1>2. RoundsLeft(c) \in 0 .. MaxSends - 1 /\ MaxSends \in Nat
  BY ONLY <1>1 DEF RoundsLeft, MaxSends
<1>3. Rank(pc[c]) \in 0 .. 6
  BY DEF TypeOK, Rank
<1> QED
  BY <1>2, <1>3 DEF StepsLeft

\* A call that moves forward, with its retries as they were, is nearer its end.
LEMMA ForwardUsesUp ==
  ASSUME TypeOK, NEW c \in Calls,
         UNCHANGED <<retries_429, retries_5xx, refreshed>>,
         Rank(pc'[c]) \in 0 .. 6, Rank(pc'[c]) < Rank(pc[c])
  PROVE  StepsLeft(c)' < StepsLeft(c)
<1>1. RoundsLeft(c)' = RoundsLeft(c)
  BY DEF RoundsLeft, Refreshes
<1>2. RoundsLeft(c) \in Int /\ Rank(pc[c]) \in 0 .. 6
  <2>1. MaxSends \in Nat
    BY DispatcherAssumption DEF MaxSends
  <2> QED
    BY <2>1, MeasureType
<1> QED
  BY <1>1, <1>2 DEF StepsLeft

\* A call that waits for another round has paid for it with a retry or the refresh.
LEMMA RetryUsesUp ==
  ASSUME TypeOK, NEW c \in Calls, Unauthorized(c) \/ RateLimited(c) \/ ServerError(c)
  PROVE  StepsLeft(c)' < StepsLeft(c)
<1>1. pc[c] = "send" /\ pc'[c] \in {"refresh", "backoff"}
  <2>1. PICK to \in {"refresh", "backoff"} : Goto(c, "send", to)
    BY DEF Unauthorized, RateLimited, ServerError
  <2> QED
    BY <2>1, GotoType DEF Labels
<1>2. /\ retries_429[c] \in 0 .. MAX_429_RETRIES /\ MAX_429_RETRIES \in Nat
      /\ retries_5xx[c] \in 0 .. MAX_5XX_RETRIES /\ MAX_5XX_RETRIES \in Nat
      /\ refreshed[c] \in BOOLEAN
      /\ retries_429 \in [Calls -> 0 .. MAX_429_RETRIES]
      /\ retries_5xx \in [Calls -> 0 .. MAX_5XX_RETRIES]
      /\ refreshed \in [Calls -> BOOLEAN]
  BY DispatcherAssumption DEF TypeOK
<1>3. RoundsLeft(c)' = RoundsLeft(c) - 1 /\ RoundsLeft(c) \in Int
  <2>1. CASE Unauthorized(c)
    <3>1. /\ ~refreshed[c] /\ refreshed'[c]
          /\ UNCHANGED <<retries_429, retries_5xx>>
      BY <2>1, <1>2 DEF Unauthorized, Retried
    <3> QED
      BY ONLY <3>1, <1>2 DEF RoundsLeft, Refreshes
  <2>2. CASE RateLimited(c)
    <3>1. /\ retries_429'[c] = retries_429[c] + 1
          /\ UNCHANGED <<refreshed, retries_5xx>>
      BY <2>2, <1>2 DEF RateLimited
    <3> QED
      BY ONLY <3>1, <1>2 DEF RoundsLeft, Refreshes
  <2>3. CASE ServerError(c)
    <3>1. /\ retries_5xx'[c] = retries_5xx[c] + 1
          /\ UNCHANGED <<refreshed, retries_429>>
      BY <2>3, <1>2 DEF ServerError
    <3> QED
      BY ONLY <3>1, <1>2 DEF RoundsLeft, Refreshes
  <2> QED
    BY <2>1, <2>2, <2>3
<1>4. Rank(pc[c]) = 2 /\ Rank(pc'[c]) = 4
  BY <1>1 DEF Rank
<1> QED
  BY <1>3, <1>4 DEF StepsLeft

\* Every step of a call uses up the measure.
LEMMA StepUsesUp ==
  ASSUME TypeOK, NEW c \in Calls, Begin(c) \/ Step(c)
  PROVE  StepsLeft(c)' < StepsLeft(c)
<1> DEFINE Before(label) == CASE label = "done" -> Labels \ {"idle", "done"}
                              [] label = "body" -> {"send"}
                              [] label = "send" -> {"acquire"}
                              [] label = "acquire" -> {"token", "refresh", "backoff"}
                              [] label = "token" -> {"idle"}
<1>1. ASSUME NEW to \in {"token", "acquire", "send", "body", "done"},
             NEW from \in Before(to), Goto(c, from, to),
             UNCHANGED <<retries_429, retries_5xx, refreshed>>
      PROVE  StepsLeft(c)' < StepsLeft(c)
  <2>1. pc[c] = from /\ pc'[c] = to
    BY <1>1, GotoType DEF Labels
  <2>2. Rank(to) \in 0 .. 6 /\ Rank(to) < Rank(from)
    BY <1>1 DEF Rank, Labels
  <2> QED
    BY <2>1, <2>2, <1>1, ForwardUsesUp
<1> HIDE DEF Before
<1>2. CASE Begin(c) \/ Refreshed(c) \/ BackoffEnds(c) \/ Acquire(c)
           \/ \E s \in Statuses : LastAnswer(c, s)
  <2>1. UNCHANGED <<retries_429, retries_5xx, refreshed>>
    BY <1>2 DEF Begin, Refreshed, BackoffEnds, Acquire, LastAnswer, loop
  <2>2. \E to \in {"token", "acquire", "send", "body", "done"} : \E from \in Before(to) :
            Goto(c, from, to)
    BY <1>2 DEF Begin, Refreshed, BackoffEnds, Acquire, LastAnswer, Before
  <2> QED
    BY <2>1, <2>2, <1>1
<1>3. CASE TokenFails(c) \/ AcquireFails(c) \/ RefreshFails(c) \/ Lost(c)
           \/ BodyRead(c) \/ BodyLost(c)
  <2>1. UNCHANGED <<retries_429, retries_5xx, refreshed>>
    BY <1>3 DEF TokenFails, AcquireFails, RefreshFails, Lost, BodyRead, BodyLost, loop
  <2>2. \E from \in {"token", "acquire", "refresh", "send", "body"} : Goto(c, from, "done")
    BY <1>3 DEF TokenFails, AcquireFails, RefreshFails, Lost, BodyRead, BodyLost, Return
  <2>3. {"token", "acquire", "refresh", "send", "body"} \subseteq Before("done")
    BY DEF Before, Labels
  <2> QED
    BY <2>1, <2>2, <2>3, <1>1
<1>4. CASE Token(c)
  <2>1. UNCHANGED <<retries_429, retries_5xx, refreshed>>
    BY <1>4 DEF Token, loop
  <2>2. Goto(c, "token", "acquire") \/ Goto(c, "token", "done")
    BY <1>4 DEF Token, Return
  <2>3. "token" \in Before("acquire") /\ "token" \in Before("done")
    BY DEF Before, Labels
  <2> QED
    BY <2>1, <2>2, <2>3, <1>1
<1>5. CASE Unauthorized(c) \/ RateLimited(c) \/ ServerError(c)
  BY <1>5, RetryUsesUp
<1> QED
  BY <1>2, <1>3, <1>4, <1>5 DEF Step

\* However the API answers, a tool call makes a bounded number of steps: what is left
\* of it is never more than the retry limits allow, and each of its steps (no step of
\* the others, no turn of the minute) takes some of it away.  That it takes them is the
\* fairness of FairSpec.
THEOREM DispatchUsesUpSteps == Spec => []StepsBounded /\ [][UsesUpSteps]_vars
<1>1. TypeOK => StepsBounded
  BY MeasureType DEF StepsBounded
<1>2. IInv /\ [Next]_vars => [UsesUpSteps]_vars
  <2> SUFFICES ASSUME IInv, Next PROVE UsesUpSteps
    OBVIOUS
  <2>1. CASE Turn
    BY <2>1 DEF Turn, loop, history, UsesUpSteps, SameCall
  <2>2. ASSUME NEW c \in Calls, Begin(c) \/ Step(c) PROVE UsesUpSteps
    <3>1. \A d \in Calls : d # c => SameCall(d)
      BY <2>2, StepKeeps DEF Kept
    <3>2. StepsLeft(c)' < StepsLeft(c)
      BY <2>2, StepUsesUp DEF IInv
    <3> QED
      BY <3>1, <3>2 DEF UsesUpSteps
  <2> QED
    BY <2>1, <2>2 DEF Next
<1> QED
  BY <1>1, <1>2, TypeCorrect, Inductive, PTL DEF Spec

\* However many calls run at a time, and whatever they are answered, what they
\* put on the wire stays within the quota of the minutes so far.
THEOREM QuotaBoundsSendsHolds == Spec => []QuotaBoundsSends
<1>1. Spec => []QuotaInv
  BY InitQuotaInv, NextQuotaInv, TypeCorrect, PTL DEF Spec
<1>2. IInv /\ QuotaInv => QuotaBoundsSends
  <2> SUFFICES ASSUME IInv, QuotaInv, Cap > 0
               PROVE  SumFunction(wire) <= Cap * (minute + 1)
    BY DEF QuotaBoundsSends
  <2>1. /\ wire \in [Calls -> Nat] /\ paid \in [Calls -> Nat]
        /\ used \in 0 .. Cap /\ minute \in Nat /\ Cap \in Nat /\ IsFiniteSet(Calls)
    BY DispatcherAssumption DEF IInv, TypeOK
  <2>2. \A c \in Calls : wire[c] <= paid[c]
    <3> SUFFICES ASSUME NEW c \in Calls PROVE wire[c] <= paid[c]
      OBVIOUS
    <3>1. PaidInv(c) /\ wire[c] \in Nat /\ paid[c] \in Nat
      BY <2>1 DEF IInv, CallInv
    <3> QED
      BY <3>1 DEF PaidInv
  <2>3. SumFunction(wire) <= SumFunction(paid)
    BY <2>1, <2>2, SumMonotone
  <2>4. SumFunction(wire) \in Nat /\ SumFunction(paid) \in Nat
    BY <2>1, SumIsNat
  <2>5. SumFunction(paid) <= Cap * minute + used
    BY DEF QuotaInv
  <2>6. Cap * (minute + 1) = Cap * minute + Cap /\ Cap * minute \in Nat
    BY <2>1
  <2> QED
    BY <2>1, <2>3, <2>4, <2>5, <2>6
<1> QED
  BY <1>1, <1>2, Inductive, PTL

(***************************************************************************)
(* Exchange: its steps are Dispatcher's.                                   *)
(***************************************************************************)
\* A call's step in Exchange is its step in Dispatcher.
LEMMA ExStepStep == ASSUME NEW c \in Calls, ExStep(c) PROVE Begin(c) \/ Step(c)
<1>1. CASE ExAnswer(c)
  BY <1>1 DEF ExAnswer, Step
<1> QED
  BY <1>1 DEF ExStep, ExBegin, ExToken, ExAuthFails, ExAcquire, ExAcquireFails,
              ExUnreachable, ExRefreshed, ExBackoffEnds, ExBodyRead, Step

\* Every step of Exchange is a step of Dispatcher, or leaves it alone.
LEMMA ExchangeStep == ASSUME [ExchangeNext]_exchangeVars PROVE [Next]_vars
<1>1. CASE ExTurn
  BY <1>1 DEF ExTurn, Next
<1>2. ASSUME NEW c \in Calls, ExStep(c) PROVE Begin(c) \/ Step(c)
  BY <1>2, ExStepStep
<1>3. CASE UNCHANGED exchangeVars
  BY <1>3 DEF exchangeVars
<1> QED
  BY <1>1, <1>2, <1>3 DEF ExchangeNext, Next

\* Looking at times, headers and reports adds nothing to what a call may do.
THEOREM ExchangeImplementsDispatcher == ExchangeSpec => Spec
<1>1. ExchangeInit => Init
  BY DEF ExchangeInit
<1> QED
  BY <1>1, ExchangeStep, PTL DEF ExchangeSpec, Spec

\* So the dispatcher's invariant holds of it.
LEMMA ExchangeInductive == ExchangeSpec => []IInv
  BY ExchangeImplementsDispatcher, Inductive, PTL

(***************************************************************************)
(* What a report tells: until the call returns, the parsed answer is that  *)
(* of the headers that came last.                                          *)
(***************************************************************************)
DataDomains ==
    /\ DOMAIN left = Calls /\ DOMAIN answer = Calls /\ DOMAIN report = Calls
    /\ DOMAIN asked = Calls /\ DOMAIN full = Calls /\ DOMAIN revoked = Calls

AnswerInv(c) ==
    pc[c] # "done" =>
        /\ answer[c].trace = ExtractTraceId(asked[c].trace)
        /\ answer[c].retry_after = ParseRetryAfter(asked[c].retry_after)

\* The last answer of a 5xx came after the retries.
CountInv(c) ==
    pc[c] = "body" /\ status[c] = "5xx" => answers[c]["5xx"] = retries_5xx[c] + 1

ToldInv(c) ==
    /\ outcome[c] \in {"RateLimited", "Server", "Client"} =>
        /\ report[c].kind = outcome[c]
        /\ report[c].trace = ExtractTraceId(asked[c].trace)
        /\ outcome[c] = "RateLimited" =>
               /\ report[c].count = wire[c]
               /\ report[c].retry_after = ParseRetryAfter(asked[c].retry_after)
        /\ outcome[c] = "Server" => report[c].count = answers[c]["5xx"] - 1
    /\ outcome[c] = "Auth" =>
        report[c].trace = IF report[c].error \in OwnErrors THEN None
                          ELSE ExtractTraceId(asked[c].trace)

ReportInv == DataDomains /\ \A c \in Calls : AnswerInv(c) /\ CountInv(c) /\ ToldInv(c)

\* A step of another call leaves a call's data alone.
SameData(d) ==
    /\ left'[d] = left[d] /\ answer'[d] = answer[d] /\ report'[d] = report[d]
    /\ asked'[d] = asked[d] /\ full'[d] = full[d] /\ revoked'[d] = revoked[d]

\* The headers that arrive are those the answer is parsed from.
LEMMA ArrivesHeaders ==
  ASSUME NEW c \in Calls, NEW s, Arrives(c, s)
  PROVE  /\ \E trace \in TraceIds, after \in RetryAftersOf(s) :
               LET headers == [trace |-> trace, retry_after |-> after]
               IN  /\ asked' = [asked EXCEPT ![c] = headers]
                   /\ answer' = [answer EXCEPT ![c] = Parse(c, headers)]
         /\ revoked' = [revoked EXCEPT ![c] = @ \/ (s = "401" /\ left[c] > 0)]
         /\ left' = left /\ report' = report /\ full' = full
<1>1. \E trace \in TraceIds, after \in RetryAftersOf(s) :
        LET headers == [trace |-> trace, retry_after |-> after]
        IN  /\ asked' = [asked EXCEPT ![c] = headers]
            /\ answer' = [answer EXCEPT ![c] = Parse(c, headers)]
  BY Zenon DEF Arrives
<1>2. revoked' = [revoked EXCEPT ![c] = @ \/ (s = "401" /\ left[c] > 0)]
  BY Zenon DEF Arrives
<1>3. left' = left /\ report' = report /\ full' = full
  BY Zenon DEF Arrives
<1> QED
  BY <1>1, <1>2, <1>3, Zenon

\* One call's step: the domains stay, and so do the others' data.
LEMMA ExStepFrames ==
  ASSUME DataDomains, NEW c \in Calls, ExStep(c)
  PROVE  DataDomains' /\ \A d \in Calls : d # c => SameData(d)
<1> USE DEF DataDomains, SameData
<1>1. CASE ExBegin(c)
  BY <1>1 DEF ExBegin, dataVars
<1>2. CASE ExToken(c)
  <2>1. PICK ms \in TokenLives : left' = [left EXCEPT ![c] = ms]
    BY <1>2 DEF ExToken
  <2>2. UNCHANGED <<answer, asked, full, revoked>>
    BY <1>2 DEF ExToken
  <2>3. report' = report \/ \E r : report' = [report EXCEPT ![c] = r]
    BY <1>2 DEF ExToken, Tell
  <2> QED
    BY <2>1, <2>2, <2>3
<1>3. CASE ExAuthFails(c)
  <2>1. UNCHANGED <<left, answer, full, revoked>>
    BY <1>3 DEF ExAuthFails
  <2>2. \E r : report' = [report EXCEPT ![c] = r]
    BY <1>3 DEF ExAuthFails, Tell
  <2>3. asked' = asked \/ \E h : asked' = [asked EXCEPT ![c] = h]
    BY <1>3 DEF ExAuthFails
  <2> QED
    BY <2>1, <2>2, <2>3
<1>4. CASE ExAcquire(c)
  BY <1>4 DEF ExAcquire, Passes
<1>5. CASE ExAcquireFails(c)
  BY <1>5 DEF ExAcquireFails, Tell
<1>6. CASE ExUnreachable(c)
  BY <1>6 DEF ExUnreachable, Tell
<1>7. CASE ExAnswer(c)
  <2>1. PICK s \in Statuses \cup {"401", "429", "5xx"} : Arrives(c, s)
    BY <1>7 DEF ExAnswer
  <2>2. left' = left /\ report' = report /\ full' = full
    BY <2>1, ArrivesHeaders, Zenon
  <2>3. revoked' = [revoked EXCEPT ![c] = @ \/ (s = "401" /\ left[c] > 0)]
    BY <2>1, ArrivesHeaders, Zenon
  <2>4. PICK trace \in TraceIds, after \in RetryAftersOf(s) :
          LET headers == [trace |-> trace, retry_after |-> after]
          IN  /\ asked' = [asked EXCEPT ![c] = headers]
              /\ answer' = [answer EXCEPT ![c] = Parse(c, headers)]
    BY <2>1, ArrivesHeaders, Zenon
  <2>5. \A d \in Calls : d # c => revoked'[d] = revoked[d]
    BY <2>3, Zenon
  <2>6. DOMAIN revoked' = Calls
    BY <2>3, Zenon
  <2>7. DOMAIN asked' = Calls /\ DOMAIN answer' = Calls
    BY <2>4
  <2>8. \A d \in Calls : d # c => asked'[d] = asked[d] /\ answer'[d] = answer[d]
    BY <2>4
  <2> HIDE <2>3, <2>4
  <2> QED
    BY <2>2, <2>5, <2>6, <2>7, <2>8
<1>8. CASE ExRefreshed(c)
  BY <1>8 DEF ExRefreshed
<1>9. CASE ExBackoffEnds(c)
  BY <1>9 DEF ExBackoffEnds, Passes
<1>10. CASE ExBodyRead(c)
  BY <1>10 DEF ExBodyRead, Tell
<1> QED
  BY <1>1, <1>2, <1>3, <1>4, <1>5, <1>6, <1>7, <1>8, <1>9, <1>10 DEF ExStep

\* An answer that arrives is parsed from its own headers.
LEMMA ArrivesAnswer ==
  ASSUME DataDomains, NEW c \in Calls, NEW s, Arrives(c, s)
  PROVE  /\ answer'[c].trace = ExtractTraceId(asked'[c].trace)
         /\ answer'[c].retry_after = ParseRetryAfter(asked'[c].retry_after)
<1>1. PICK trace \in TraceIds, after \in RetryAftersOf(s) :
        LET headers == [trace |-> trace, retry_after |-> after]
        IN  /\ asked' = [asked EXCEPT ![c] = headers]
            /\ answer' = [answer EXCEPT ![c] = Parse(c, headers)]
  BY ArrivesHeaders, Zenon
<1>2. /\ asked'[c] = [trace |-> trace, retry_after |-> after]
      /\ answer'[c] = [trace |-> ExtractTraceId(trace), retry_after |-> ParseRetryAfter(after)]
  BY <1>1 DEF DataDomains, Parse
<1> QED
  BY <1>2

\* A call that nothing happened to keeps what it has to tell.
LEMMA SameCallTells ==
  ASSUME NEW d \in Calls, AnswerInv(d), CountInv(d), ToldInv(d), SameCall(d), SameData(d)
  PROVE  AnswerInv(d)' /\ CountInv(d)' /\ ToldInv(d)'
<1>1. AnswerInv(d)'
  BY DEF AnswerInv, SameCall, SameData, ExtractTraceId
<1>2. CountInv(d)'
  BY DEF CountInv, SameCall
<1>3. ToldInv(d)'
  BY DEF ToldInv, SameCall, SameData, ExtractTraceId
<1> QED
  BY <1>1, <1>2, <1>3

\* What a finished call is told, by its last status.
LEMMA ToldFields ==
  ASSUME NEW c \in Calls, NEW body, status[c] \in {"401", "429", "5xx", "4xx"}
  PROVE  /\ Told(c, body).kind = ResultOf(status[c])
         /\ Told(c, body).trace = answer[c].trace
         /\ status[c] = "429" => /\ Told(c, body).count = sends[c]
                                 /\ Told(c, body).retry_after = answer[c].retry_after
         /\ status[c] = "5xx" => Told(c, body).count = retries_5xx[c]
<1>1. CASE status[c] = "429"
  BY <1>1 DEF Told, ResultOf
<1>2. CASE status[c] = "5xx"
  BY <1>2 DEF Told, ResultOf
<1>3. CASE status[c] \in {"401", "4xx"}
  BY <1>3 DEF Told, ResultOf
<1> QED
  BY <1>1, <1>2, <1>3

\* The call a step is about can still tell of its last answer.
LEMMA CallTells ==
  ASSUME IInv, DataDomains, NEW c \in Calls, ExStep(c),
         AnswerInv(c), CountInv(c), ToldInv(c)
  PROVE  AnswerInv(c)' /\ CountInv(c)' /\ ToldInv(c)'
<1>1. /\ TypeOK /\ CallInv(c)
      /\ pc \in [Calls -> Labels] /\ outcome \in [Calls -> Outcomes \cup {None}]
      /\ status \in [Calls -> Statuses \cup {None}]
  BY DEF IInv, TypeOK, Labels
<1>2. pc[c] \notin {"body", "done"} => outcome[c] = None
  BY <1>1 DEF CallInv, LoopInv
<1>3. None \notin {"RateLimited", "Server", "Client", "Auth"}
  BY DEF None
\* Steps that tell nothing of an answer.
<1>4. ASSUME UNCHANGED <<outcome, status, answer, report, asked, answers, retries_5xx>>,
             pc[c] \notin {"body", "done"}, pc'[c] # "body"
      PROVE  AnswerInv(c)' /\ CountInv(c)' /\ ToldInv(c)'
  <2>1. AnswerInv(c)'
    BY <1>4 DEF AnswerInv, ExtractTraceId
  <2> QED
    BY <2>1, <1>2, <1>3, <1>4 DEF CountInv, ToldInv
<1>5. ASSUME pc'[c] = "done", outcome'[c] \in {"Bad", "BudgetExceeded", "Unreachable"}
      PROVE  AnswerInv(c)' /\ CountInv(c)' /\ ToldInv(c)'
  BY <1>5 DEF AnswerInv, CountInv, ToldInv
<1>6. CASE ExBegin(c)
  <2>1. Goto(c, "idle", "token")
        /\ UNCHANGED <<outcome, status, answer, report, asked, answers, retries_5xx>>
    BY <1>6 DEF ExBegin, Begin, loop, history, dataVars
  <2> QED
    BY <1>1, <1>4, <2>1, GotoType DEF Labels
<1>7. CASE ExToken(c)
  <2>1. CASE method[c] = "unsupported"
    <3>1. Return(c, "token", "Bad")
      BY <1>7, <2>1 DEF ExToken, Token
    <3> QED
      BY <1>1, <1>5, <3>1, ReturnType DEF Outcomes
  <2>2. CASE method[c] # "unsupported"
    <3>1. Goto(c, "token", "acquire")
          /\ UNCHANGED <<outcome, status, answer, report, asked, answers, retries_5xx>>
      BY <1>7, <2>2 DEF ExToken, Token, loop, history
    <3> QED
      BY <1>1, <1>4, <3>1, GotoType DEF Labels
  <2> QED
    BY <2>1, <2>2
<1>8. CASE ExAuthFails(c)
  <2>1. PICK from \in {"token", "refresh"} : Return(c, from, "Auth")
    BY <1>8 DEF ExAuthFails, TokenFails, RefreshFails
  <2>2. pc'[c] = "done" /\ outcome'[c] = "Auth"
    BY <1>1, <2>1, ReturnType DEF Outcomes
  <2>3. report'[c].trace = IF report'[c].error \in OwnErrors THEN None
                           ELSE ExtractTraceId(asked'[c].trace)
    <3>1. CASE \E error \in OwnErrors :
                 report' = [report EXCEPT ![c] = AuthReport([error |-> error])]
      BY <3>1 DEF DataDomains, AuthReport
    <3>2. CASE \E s \in {"429", "4xx", "5xx"}, trace \in TraceIds, after \in RetryAfters :
                 LET headers == [trace |-> trace, retry_after |-> after]
                 IN  /\ report' = [report EXCEPT ![c] = AuthReport(TokenError(s, headers))]
                     /\ asked' = [asked EXCEPT ![c] = headers]
      <4>1. PICK s \in {"429", "4xx", "5xx"}, trace \in TraceIds, after \in RetryAfters :
              LET headers == [trace |-> trace, retry_after |-> after]
              IN  /\ report' = [report EXCEPT ![c] = AuthReport(TokenError(s, headers))]
                  /\ asked' = [asked EXCEPT ![c] = headers]
        BY <3>2
      <4> DEFINE headers == [trace |-> trace, retry_after |-> after]
      <4>2. report'[c] = AuthReport(TokenError(s, headers)) /\ asked'[c] = headers
        BY <4>1 DEF DataDomains
      <4>3. /\ TokenError(s, headers).error \in {"TokenMintRateLimited", "TokenEndpoint"}
            /\ TokenError(s, headers).trace = ExtractTraceId(trace)
        <5>1. CASE s = "429"
          BY <5>1 DEF TokenError
        <5>2. CASE s # "429"
          BY <5>2 DEF TokenError
        <5> QED
          BY <5>1, <5>2
      <4>4. /\ report'[c].error = TokenError(s, headers).error
            /\ report'[c].trace = IF TokenError(s, headers).error \in OwnErrors THEN None
                                  ELSE TokenError(s, headers).trace
        BY <4>2 DEF AuthReport
      <4>5. asked'[c].trace = trace
        BY <4>2
      <4>6. TokenError(s, headers).error \notin OwnErrors
        BY <4>3 DEF OwnErrors
      <4> QED
        BY <4>3, <4>4, <4>5, <4>6
    <3> QED
      BY <1>8, <3>1, <3>2, Zenon DEF ExAuthFails, Tell
  <2> QED
    BY <2>2, <2>3 DEF AnswerInv, CountInv, ToldInv, ExtractTraceId
<1>9. CASE ExAcquire(c)
  <2>1. Goto(c, "acquire", "send")
        /\ UNCHANGED <<outcome, status, answer, report, asked, answers, retries_5xx>>
    BY <1>9 DEF ExAcquire, Acquire, loop
  <2> QED
    BY <1>1, <1>4, <2>1, GotoType DEF Labels
<1>10. CASE ExAcquireFails(c)
  <2>1. Return(c, "acquire", "BudgetExceeded")
    BY <1>10 DEF ExAcquireFails, AcquireFails
  <2> QED
    BY <1>1, <1>5, <2>1, ReturnType DEF Outcomes
<1>11. CASE ExUnreachable(c)
  <2>1. PICK from \in {"send", "body"} : Return(c, from, "Unreachable")
    BY <1>11 DEF ExUnreachable, Lost, BodyLost
  <2> QED
    BY <1>1, <1>5, <2>1, ReturnType DEF Outcomes
<1>12. CASE ExAnswer(c)
  <2>1. PICK s \in Statuses, to \in {"refresh", "backoff", "body"} :
          /\ Arrives(c, s) /\ Answered(c, s) /\ Goto(c, "send", to) /\ outcome' = outcome
          /\ to = "body" => UNCHANGED retries_5xx
    <3>1. {"401", "429", "5xx"} \subseteq Statuses
      BY DEF Statuses
    <3>2. CASE Unauthorized(c) /\ Arrives(c, "401")
      BY <3>1, <3>2 DEF Unauthorized
    <3>3. CASE RateLimited(c) /\ Arrives(c, "429")
      BY <3>1, <3>3 DEF RateLimited
    <3>4. CASE ServerError(c) /\ Arrives(c, "5xx")
      BY <3>1, <3>4 DEF ServerError
    <3>5. CASE \E s \in Statuses : LastAnswer(c, s) /\ Arrives(c, s)
      BY <3>5 DEF LastAnswer
    <3> QED
      BY <1>12, <3>2, <3>3, <3>4, <3>5 DEF ExAnswer
  <2>2. pc[c] = "send" /\ pc'[c] = to
    BY <1>1, <2>1, GotoType DEF Labels
  <2>3. outcome'[c] = None
    BY <1>2, <2>1, <2>2
  <2>4. AnswerInv(c)'
    BY <2>1, ArrivesAnswer DEF AnswerInv, ExtractTraceId
  <2>5. status'[c] = s /\ answers'[c][s] = answers[c][s] + 1
    BY <1>1, <2>1, AnsweredType DEF TypeOK
  <2>6. answers[c]["5xx"] = retries_5xx[c]
    BY <1>1, <2>2 DEF CallInv, LoopInv
  <2>7. CountInv(c)'
    BY <2>1, <2>2, <2>5, <2>6 DEF CountInv
  <2> QED
    BY <1>3, <2>3, <2>4, <2>7 DEF ToldInv
<1>13. CASE ExRefreshed(c)
  <2>1. Goto(c, "refresh", "acquire")
        /\ UNCHANGED <<outcome, status, answer, report, asked, answers, retries_5xx>>
    BY <1>13 DEF ExRefreshed, Refreshed, loop, history
  <2> QED
    BY <1>1, <1>4, <2>1, GotoType DEF Labels
<1>14. CASE ExBackoffEnds(c)
  <2>1. Goto(c, "backoff", "acquire")
        /\ UNCHANGED <<outcome, status, answer, report, asked, answers, retries_5xx>>
    BY <1>14 DEF ExBackoffEnds, BackoffEnds, loop, history
  <2> QED
    BY <1>1, <1>4, <2>1, GotoType DEF Labels
<1>15. CASE ExBodyRead(c)
  <2>1. /\ Return(c, "body", ResultOf(status[c]))
        /\ UNCHANGED <<status, answer, asked, answers, wire, retries_5xx>>
    BY <1>15 DEF ExBodyRead, BodyRead, loop, history
  <2>2. pc[c] = "body"
    BY <2>1 DEF Return, Goto
  <2>3. status[c] \in Statuses /\ sends[c] = wire[c]
    BY <1>1, <2>2 DEF CallInv, LastInv
  <2>4. ResultOf(status[c]) \in Outcomes
    BY <2>3 DEF ResultOf, Statuses, Outcomes
  <2>5. pc'[c] = "done" /\ outcome'[c] = ResultOf(status[c])
    BY <1>1, <2>1, <2>4, ReturnType
  <2>6. PICK body \in Bodies : report' = [report EXCEPT ![c] = Told(c, body)]
    BY <1>15 DEF ExBodyRead, Tell
  <2>7. report'[c] = Told(c, body)
    BY <2>6 DEF DataDomains
  <2>8. CASE status[c] = "2xx"
    BY <2>5, <2>8 DEF AnswerInv, CountInv, ToldInv, ResultOf
  <2>9. CASE status[c] # "2xx"
    <3>1. status[c] \in {"401", "429", "5xx", "4xx"}
      BY <2>3, <2>9 DEF Statuses
    <3>2. /\ report'[c].kind = ResultOf(status[c])
          /\ report'[c].trace = answer[c].trace
          /\ status[c] = "429" => /\ report'[c].count = sends[c]
                                  /\ report'[c].retry_after = answer[c].retry_after
          /\ status[c] = "5xx" => report'[c].count = retries_5xx[c]
      BY <2>7, <3>1, ToldFields
    <3>3. /\ answer[c].trace = ExtractTraceId(asked[c].trace)
          /\ answer[c].retry_after = ParseRetryAfter(asked[c].retry_after)
      BY <2>2 DEF AnswerInv
    <3>4. status[c] = "5xx" => retries_5xx[c] = answers[c]["5xx"] - 1
      <4>1. answers[c]["5xx"] \in Nat /\ retries_5xx[c] \in Nat
        BY <1>1, DispatcherAssumption DEF TypeOK, Statuses
      <4> QED
        BY <2>2, <4>1 DEF CountInv
    <3>5. /\ ResultOf(status[c]) # "Auth"
          /\ ResultOf(status[c]) = "RateLimited" => status[c] = "429"
          /\ ResultOf(status[c]) = "Server" => status[c] = "5xx"
      BY <3>1 DEF ResultOf
    <3> QED
      BY <2>1, <2>3, <2>5, <3>2, <3>3, <3>4, <3>5
      DEF AnswerInv, CountInv, ToldInv, ExtractTraceId
  <2> QED
    BY <2>8, <2>9
<1> QED
  BY <1>6, <1>7, <1>8, <1>9, <1>10, <1>11, <1>12, <1>13, <1>14, <1>15 DEF ExStep

\* A step of Exchange that is not a call's leaves everything it tells alone.
LEMMA ExchangeKeepsReportInv ==
  IInv /\ ReportInv /\ [ExchangeNext]_exchangeVars => ReportInv'
<1> SUFFICES ASSUME IInv, ReportInv, [ExchangeNext]_exchangeVars PROVE ReportInv'
  OBVIOUS
<1>1. ASSUME UNCHANGED <<pc, method, loop, status, outcome, history, dataVars>>
      PROVE  ReportInv'
  <2>1. DataDomains'
    BY <1>1 DEF ReportInv, DataDomains, dataVars
  <2>2. \A d \in Calls : SameCall(d) /\ SameData(d)
    BY <1>1 DEF SameCall, SameData, loop, history, dataVars
  <2> QED
    BY <2>1, <2>2, SameCallTells DEF ReportInv
<1>2. CASE ExTurn
  BY <1>1, <1>2 DEF ExTurn, Turn
<1>3. CASE UNCHANGED exchangeVars
  BY <1>1, <1>3 DEF exchangeVars, vars
<1>4. ASSUME NEW c \in Calls, ExStep(c) PROVE ReportInv'
  <2>1. DataDomains' /\ \A d \in Calls : d # c => SameData(d)
    BY <1>4, ExStepFrames DEF ReportInv
  <2>2. Begin(c) \/ Step(c)
    BY <1>4, ExStepStep
  <2>3. \A d \in Calls : d # c => SameCall(d)
    BY <2>2, StepKeeps DEF Kept
  <2>4. AnswerInv(c)' /\ CountInv(c)' /\ ToldInv(c)'
    BY <1>4, CallTells DEF ReportInv
  <2>5. \A d \in Calls : d # c => AnswerInv(d)' /\ CountInv(d)' /\ ToldInv(d)'
    BY <2>1, <2>3, SameCallTells DEF ReportInv
  <2> QED
    BY <2>1, <2>4, <2>5 DEF ReportInv
<1> QED
  BY <1>2, <1>3, <1>4 DEF ExchangeNext

\* At first there is no answer and nothing to tell.
LEMMA InitReportInv == ExchangeInit => ReportInv
<1> SUFFICES ASSUME ExchangeInit PROVE ReportInv
  OBVIOUS
<1>1. DataDomains
  BY DEF ExchangeInit, DataDomains
<1>2. ASSUME NEW c \in Calls PROVE AnswerInv(c) /\ CountInv(c) /\ ToldInv(c)
  <2>1. pc[c] = "idle" /\ outcome[c] = None
    BY DEF ExchangeInit, Init
  <2>2. answer[c] = NoAnswer /\ asked[c] = NoHeaders
    BY DEF ExchangeInit
  <2>3. AnswerInv(c)
    BY <2>2 DEF AnswerInv, NoAnswer, NoHeaders, ExtractTraceId, ParseRetryAfter, None
  <2> QED
    BY <2>1, <2>3 DEF CountInv, ToldInv, None
<1> QED
  BY <1>1, <1>2 DEF ReportInv

\* A report is about the last answer the call got, with that answer's trace and
\* delay and the right count of requests or retries.
THEOREM ReportTellsLastAnswerHolds == ExchangeSpec => []ReportTellsLastAnswer
<1>1. ExchangeSpec => []ReportInv
  BY InitReportInv, ExchangeKeepsReportInv, ExchangeInductive, PTL DEF ExchangeSpec
<1>2. ReportInv => ReportTellsLastAnswer
  BY DEF ReportInv, ToldInv, ReportTellsLastAnswer
<1> QED
  BY <1>1, <1>2, PTL

(***************************************************************************)
(* A token's life: what the call may still wait, in its retries, in its    *)
(* backoff and for the budget, is less than what its token has left.       *)
(***************************************************************************)
\* What the call still has in front of it where it is, but for its retries.
Pending(c, wait, after429, after5xx) ==
    IF pc[c] = "acquire" THEN wait
    ELSE IF pc[c] = "backoff" THEN wait + (IF status[c] = "429" THEN after429 ELSE after5xx)
    ELSE 0

Reserve(c, wait, after429, after5xx) ==
    Pending(c, wait, after429, after5xx)
        + (MAX_429_RETRIES - retries_429[c]) * (wait + after429)
        + (MAX_5XX_RETRIES - retries_5xx[c]) * (wait + after5xx)

BackoffInv(c) ==
    pc[c] = "backoff" =>
        \/ status[c] = "429" /\ retries_429[c] \in 1 .. MAX_429_RETRIES
        \/ status[c] = "5xx" /\ retries_5xx[c] \in 1 .. MAX_5XX_RETRIES

ClockInv(c) ==
    /\ left[c] \in Nat
    /\ answer[c].retry_after \in Nat \cup {NoDelay}

ExpiredInv(c) ==
    (pc[c] = "body" \/ outcome[c] = "Client") /\ status[c] = "401" => revoked[c] \/ ~full[c]

EnoughInv(c, wait, after429, after5xx) ==
    /\ pc[c] \in {"idle", "token"} => ~full[c]
    /\ full[c] /\ pc[c] \in {"acquire", "send", "backoff"}
           => left[c] > Reserve(c, wait, after429, after5xx)

LifeInv(c, wait, after429, after5xx) ==
    /\ BackoffInv(c) /\ ClockInv(c) /\ ExpiredInv(c)
    /\ EnoughInv(c, wait, after429, after5xx)

ExpiryInv(wait, after429, after5xx) ==
    DataDomains /\ \A c \in Calls : LifeInv(c, wait, after429, after5xx)

\* One factor less.
LEMMA OneRetryLess ==
  ASSUME NEW k \in Nat, NEW n \in Nat, k < n, NEW x \in Nat
  PROVE  (n - k) * x = x + (n - (k + 1)) * x /\ (n - (k + 1)) * x \in Nat
<1> DEFINE m == n - (k + 1)
<1>1. m \in Nat /\ n - k = m + 1
  OBVIOUS
<1>2. (m + 1) * x = x + m * x /\ m * x \in Nat
  BY <1>1
<1> QED
  BY <1>1, <1>2

\* What is left of the retries takes no more than all of them.
LEMMA RetriesLeft ==
  ASSUME NEW k \in Nat, NEW n \in Nat, k <= n, NEW x \in Nat
  PROVE  (n - k) * x \in Nat /\ (n - k) * x <= n * x
<1> DEFINE m == n - k
<1>1. m \in Nat /\ n = m + k
  OBVIOUS
<1>2. (m + k) * x = m * x + k * x /\ m * x \in Nat /\ k * x \in Nat
  BY <1>1
<1> QED
  BY <1>1, <1>2

\* The reserve in numbers.
LEMMA ReserveType ==
  ASSUME TypeOK, NEW c \in Calls, NEW wait \in Nat, NEW after429 \in Nat, NEW after5xx \in Nat
  PROVE  /\ (MAX_429_RETRIES - retries_429[c]) * (wait + after429) \in Nat
         /\ (MAX_5XX_RETRIES - retries_5xx[c]) * (wait + after5xx) \in Nat
         /\ (MAX_429_RETRIES - retries_429[c]) * (wait + after429)
                <= MAX_429_RETRIES * (wait + after429)
         /\ (MAX_5XX_RETRIES - retries_5xx[c]) * (wait + after5xx)
                <= MAX_5XX_RETRIES * (wait + after5xx)
         /\ MAX_429_RETRIES * (wait + after429) \in Nat
         /\ MAX_5XX_RETRIES * (wait + after5xx) \in Nat
         /\ Pending(c, wait, after429, after5xx) \in Nat
         /\ Reserve(c, wait, after429, after5xx) \in Nat
<1>1. /\ MAX_429_RETRIES \in Nat /\ MAX_5XX_RETRIES \in Nat
      /\ retries_429[c] \in Nat /\ retries_429[c] <= MAX_429_RETRIES
      /\ retries_5xx[c] \in Nat /\ retries_5xx[c] <= MAX_5XX_RETRIES
      /\ wait + after429 \in Nat /\ wait + after5xx \in Nat
  BY DispatcherAssumption DEF TypeOK
<1>2. /\ (MAX_429_RETRIES - retries_429[c]) * (wait + after429) \in Nat
      /\ (MAX_429_RETRIES - retries_429[c]) * (wait + after429)
             <= MAX_429_RETRIES * (wait + after429)
  BY <1>1, RetriesLeft
<1>3. /\ (MAX_5XX_RETRIES - retries_5xx[c]) * (wait + after5xx) \in Nat
      /\ (MAX_5XX_RETRIES - retries_5xx[c]) * (wait + after5xx)
             <= MAX_5XX_RETRIES * (wait + after5xx)
  BY <1>1, RetriesLeft
<1>4. /\ MAX_429_RETRIES * (wait + after429) \in Nat
      /\ MAX_5XX_RETRIES * (wait + after5xx) \in Nat
  BY <1>1
<1>5. Pending(c, wait, after429, after5xx) \in Nat
  BY DEF Pending
<1> QED
  BY <1>2, <1>3, <1>4, <1>5 DEF Reserve

\* A Retry-After is a delay, or none.
LEMMA ParsedDelay ==
  ASSUME NEW value \in {<<"absent">>, <<"garbage">>}
                       \cup ({"seconds"} \X Nat) \cup ({"date"} \X Int)
  PROVE  ParseRetryAfter(value) \in Nat \cup {NoDelay}
<1>1. RETRY_AFTER_CAP \in Nat
  BY ExchangeAssumption
<1>2. CASE value \in {<<"absent">>, <<"garbage">>}
  BY <1>2 DEF ParseRetryAfter
<1>3. CASE value \in {"seconds"} \X Nat
  BY <1>1, <1>3 DEF ParseRetryAfter, Smaller
<1>4. CASE value \in {"date"} \X Int
  BY <1>1, <1>4 DEF ParseRetryAfter, Smaller, Minus
<1> QED
  BY <1>2, <1>3, <1>4

\* So is the one of the answer that arrives.
LEMMA ArrivesDelay ==
  ASSUME DataDomains, NEW c \in Calls, NEW s, Arrives(c, s)
  PROVE  answer'[c].retry_after \in Nat \cup {NoDelay}
<1>1. PICK trace \in TraceIds, after \in RetryAftersOf(s) :
        LET headers == [trace |-> trace, retry_after |-> after]
        IN  answer' = [answer EXCEPT ![c] = Parse(c, headers)]
  BY ArrivesHeaders
<1>2. answer'[c].retry_after = ParseRetryAfter(after)
  BY <1>1 DEF DataDomains, Parse
<1>3. 4 * RETRY_AFTER_CAP \in Nat
  BY ExchangeAssumption
<1>4. after \in {<<"absent">>, <<"garbage">>} \cup ({"seconds"} \X Nat) \cup ({"date"} \X Int)
  BY <1>1, <1>3, ExchangeAssumption DEF RetryAftersOf
<1> QED
  BY <1>2, <1>4, ParsedDelay

\* What a backoff takes.
LEMMA DelaysFit ==
  ASSUME TypeOK, NEW c \in Calls, BackoffInv(c), ClockInv(c), pc[c] = "backoff",
         NEW wait, NEW after429, NEW after5xx, RetriesFit(wait, after429, after5xx),
         NEW ms \in Delays(c)
  PROVE  ms \in Nat /\ ms <= (IF status[c] = "429" THEN after429 ELSE after5xx)
<1>1. /\ RETRY_AFTER_CAP \in Nat /\ RETRY_AFTER_CAP <= after429
      /\ after429 \in Nat /\ after5xx \in Nat
      /\ \A n \in 1 .. MAX_429_RETRIES, j \in Jitters : Exponential(n) + j \in 0 .. after429
      /\ \A n \in 1 .. MAX_5XX_RETRIES, j \in Jitters : Exponential(n) + j \in 0 .. after5xx
  BY ExchangeAssumption DEF RetriesFit
<1>2. CASE status[c] = "429" /\ answer[c].retry_after # NoDelay
  <2>1. ms = Smaller(answer[c].retry_after, RETRY_AFTER_CAP)
    BY <1>2 DEF Delays
  <2>2. answer[c].retry_after \in Nat
    BY <1>2 DEF ClockInv
  <2> QED
    BY <1>1, <1>2, <2>1, <2>2 DEF Smaller
<1>3. CASE status[c] = "429" /\ answer[c].retry_after = NoDelay
  <2>1. PICK j \in Jitters : ms = Exponential(retries_429[c]) + j
    BY <1>3 DEF Delays
  <2>2. retries_429[c] \in 1 .. MAX_429_RETRIES
    BY <1>3 DEF BackoffInv
  <2>3. ms \in 0 .. after429
    BY <1>1, <2>1, <2>2
  <2> QED
    BY <1>1, <1>3, <2>3
<1>4. CASE status[c] # "429"
  <2>1. PICK j \in Jitters : ms = Exponential(retries_5xx[c]) + j
    BY <1>4 DEF Delays
  <2>2. retries_5xx[c] \in 1 .. MAX_5XX_RETRIES
    BY <1>4 DEF BackoffInv
  <2>3. ms \in 0 .. after5xx
    BY <1>1, <2>1, <2>2
  <2> QED
    BY <1>1, <1>4, <2>3
<1> QED
  BY <1>2, <1>3, <1>4

\* A call that nothing happened to keeps its reserve.
LEMMA SameCallLives ==
  ASSUME NEW d \in Calls, NEW wait, NEW after429, NEW after5xx,
         LifeInv(d, wait, after429, after5xx), SameCall(d), SameData(d)
  PROVE  LifeInv(d, wait, after429, after5xx)'
<1>1. BackoffInv(d)' /\ ClockInv(d)' /\ ExpiredInv(d)'
  BY DEF LifeInv, BackoffInv, ClockInv, ExpiredInv, SameCall, SameData
<1>2. Reserve(d, wait, after429, after5xx)' = Reserve(d, wait, after429, after5xx)
  BY DEF Reserve, Pending, SameCall
<1>3. EnoughInv(d, wait, after429, after5xx)'
  BY <1>2 DEF LifeInv, EnoughInv, SameCall, SameData
<1> QED
  BY <1>1, <1>3 DEF LifeInv

\* The call a step is about keeps its reserve.
LEMMA CallLives ==
  ASSUME IInv, DataDomains, NEW c \in Calls, ExStep(c), TypeOK',
         NEW wait, NEW after429, NEW after5xx, RetriesFit(wait, after429, after5xx),
         LifeInv(c, wait, after429, after5xx)
  PROVE  LifeInv(c, wait, after429, after5xx)'
<1> DEFINE Left429 == (MAX_429_RETRIES - retries_429[c]) * (wait + after429)
           Left5xx == (MAX_5XX_RETRIES - retries_5xx[c]) * (wait + after5xx)
<1>1. /\ TypeOK /\ CallInv(c)
      /\ pc \in [Calls -> Labels] /\ outcome \in [Calls -> Outcomes \cup {None}]
      /\ status \in [Calls -> Statuses \cup {None}]
  BY DEF IInv, TypeOK, Labels
<1>2. pc[c] \notin {"body", "done"} => outcome[c] = None
  BY <1>1 DEF CallInv, LoopInv
<1>3. /\ wait \in Nat /\ after429 \in Nat /\ after5xx \in Nat
      /\ \A ms \in Waits : ms \in Nat /\ ms <= wait
      /\ FULL_LIFETIME \in Nat
      /\ wait + MAX_429_RETRIES * (wait + after429) + MAX_5XX_RETRIES * (wait + after5xx)
             < FULL_LIFETIME
  BY ExchangeAssumption DEF RetriesFit
<1>4. /\ Left429 \in Nat /\ Left5xx \in Nat
      /\ Left429 <= MAX_429_RETRIES * (wait + after429)
      /\ Left5xx <= MAX_5XX_RETRIES * (wait + after5xx)
      /\ MAX_429_RETRIES * (wait + after429) \in Nat
      /\ MAX_5XX_RETRIES * (wait + after5xx) \in Nat
  BY <1>1, <1>3, ReserveType
<1>5. Reserve(c, wait, after429, after5xx)
          = Pending(c, wait, after429, after5xx) + Left429 + Left5xx
  BY DEF Reserve
<1>6. BackoffInv(c) /\ ClockInv(c) /\ ExpiredInv(c) /\ EnoughInv(c, wait, after429, after5xx)
  BY DEF LifeInv
<1>7. left[c] \in Nat
  BY <1>6 DEF ClockInv
<1> HIDE DEF Left429, Left5xx
\* A step that returns without an answer, or moves to where nothing is claimed.
<1>8. ASSUME pc'[c] = "done", outcome'[c] # "Client", UNCHANGED <<left, answer>>
      PROVE  LifeInv(c, wait, after429, after5xx)'
  BY <1>6, <1>8 DEF LifeInv, BackoffInv, ClockInv, ExpiredInv, EnoughInv
\* A step to "acquire" or "send".
<1>9. ASSUME pc'[c] \in {"acquire", "send"}, outcome'[c] = None,
             UNCHANGED <<answer, retries_429, retries_5xx>>,
             left'[c] \in Nat,
             full'[c] => left'[c] > (IF pc'[c] = "acquire" THEN wait ELSE 0) + Left429 + Left5xx
      PROVE  LifeInv(c, wait, after429, after5xx)'
  <2>1. BackoffInv(c)' /\ ExpiredInv(c)'
    BY <1>9 DEF BackoffInv, ExpiredInv, None
  <2>2. ClockInv(c)'
    BY <1>6, <1>9 DEF ClockInv
  <2>3. Reserve(c, wait, after429, after5xx)'
            = (IF pc'[c] = "acquire" THEN wait ELSE 0) + Left429 + Left5xx
    BY <1>9 DEF Reserve, Pending, Left429, Left5xx
  <2>4. EnoughInv(c, wait, after429, after5xx)'
    BY <1>9, <2>3 DEF EnoughInv
  <2> QED
    BY <2>1, <2>2, <2>4 DEF LifeInv
<1>10. CASE ExBegin(c)
  <2>1. Goto(c, "idle", "token") /\ UNCHANGED <<outcome, status, left, answer, full, revoked>>
    BY <1>10 DEF ExBegin, Begin, dataVars
  <2>2. pc[c] = "idle" /\ pc'[c] = "token"
    BY <1>1, <2>1, GotoType DEF Labels
  <2>3. outcome'[c] = None /\ ~full[c]
    BY <1>2, <1>6, <2>1, <2>2 DEF EnoughInv
  <2> QED
    BY <1>6, <2>1, <2>2, <2>3
    DEF LifeInv, BackoffInv, ClockInv, ExpiredInv, EnoughInv, None
<1>11. CASE ExToken(c)
  <2>1. PICK ms \in TokenLives : left' = [left EXCEPT ![c] = ms]
    BY <1>11 DEF ExToken
  <2>2. left'[c] \in Nat
    BY <2>1, ExchangeAssumption DEF DataDomains
  <2>3. UNCHANGED <<answer, full, retries_429, retries_5xx>>
    BY <1>11 DEF ExToken, Token, loop
  <2>4. pc[c] = "token" /\ ~full[c]
    BY <1>6, <1>11 DEF ExToken, Token, Goto, Return, EnoughInv
  <2>5. CASE method[c] = "unsupported"
    <3>1. Return(c, "token", "Bad")
      BY <1>11, <2>5 DEF ExToken, Token
    <3>2. pc'[c] = "done" /\ outcome'[c] = "Bad"
      BY <1>1, <3>1, ReturnType DEF Outcomes
    <3> QED
      BY <1>6, <2>2, <2>3, <3>2 DEF LifeInv, BackoffInv, ClockInv, ExpiredInv, EnoughInv
  <2>6. CASE method[c] # "unsupported"
    <3>1. Goto(c, "token", "acquire") /\ outcome' = outcome
      BY <1>11, <2>6 DEF ExToken, Token
    <3>2. pc'[c] = "acquire" /\ outcome'[c] = None
      BY <1>1, <1>2, <2>4, <3>1, GotoType DEF Labels
    <3> QED
      BY <1>9, <2>2, <2>3, <2>4, <3>2
  <2> QED
    BY <2>5, <2>6
<1>12. CASE ExAuthFails(c)
  <2>1. PICK from \in {"token", "refresh"} : Return(c, from, "Auth")
    BY <1>12 DEF ExAuthFails, TokenFails, RefreshFails
  <2>2. pc'[c] = "done" /\ outcome'[c] = "Auth"
    BY <1>1, <2>1, ReturnType DEF Outcomes
  <2>3. UNCHANGED <<left, answer>>
    BY <1>12, Zenon DEF ExAuthFails
  <2> QED
    BY <1>8, <2>2, <2>3
<1>13. CASE ExAcquire(c)
  <2>1. Goto(c, "acquire", "send")
        /\ UNCHANGED <<outcome, answer, full, retries_429, retries_5xx>>
    BY <1>13 DEF ExAcquire, Acquire, loop
  <2>2. pc[c] = "acquire" /\ pc'[c] = "send" /\ outcome'[c] = None
    BY <1>1, <1>2, <2>1, GotoType DEF Labels
  <2>3. PICK ms \in Waits : left' = [left EXCEPT ![c] = Minus(@, ms)]
    BY <1>13 DEF ExAcquire, Passes
  <2>4. left'[c] = Minus(left[c], ms)
    BY <2>3 DEF DataDomains
  <2>5. left'[c] \in Nat /\ (full[c] => left'[c] > Left429 + Left5xx)
    <3>1. full[c] => left[c] > wait + Left429 + Left5xx
      BY <1>5, <1>6, <2>2 DEF EnoughInv, Pending
    <3> QED
      BY <1>3, <1>4, <1>7, <2>4, <3>1 DEF Minus
  <2> QED
    BY <1>4, <1>9, <2>1, <2>2, <2>5
<1>14. CASE ExAcquireFails(c)
  <2>1. Return(c, "acquire", "BudgetExceeded") /\ UNCHANGED <<left, answer>>
    BY <1>14 DEF ExAcquireFails, AcquireFails
  <2> QED
    BY <1>1, <1>8, <2>1, ReturnType DEF Outcomes
<1>15. CASE ExUnreachable(c)
  <2>1. UNCHANGED <<left, answer>>
    BY <1>15 DEF ExUnreachable
  <2>2. PICK from \in {"send", "body"} : Return(c, from, "Unreachable")
    BY <1>15 DEF ExUnreachable, Lost, BodyLost
  <2> QED
    BY <1>1, <1>8, <2>1, <2>2, ReturnType DEF Outcomes
<1>16. CASE ExAnswer(c)
  <2>1. PICK s \in Statuses : Arrives(c, s) /\ Answered(c, s)
    <3>1. {"401", "429", "5xx"} \subseteq Statuses
      BY DEF Statuses
    <3> QED
      BY <1>16, <3>1 DEF ExAnswer, Unauthorized, RateLimited, ServerError, LastAnswer
  <2>2. pc[c] = "send" /\ outcome' = outcome
    BY <1>16 DEF ExAnswer, Unauthorized, RateLimited, ServerError, LastAnswer, Goto
  <2>3. /\ revoked' = [revoked EXCEPT ![c] = @ \/ (s = "401" /\ left[c] > 0)]
        /\ left' = left /\ full' = full
    BY <2>1, ArrivesHeaders, Zenon
  <2>4. ClockInv(c)'
    BY <1>7, <2>1, <2>3, ArrivesDelay DEF ClockInv
  <2>5. full[c] => left[c] > Left429 + Left5xx
    <3>1. Pending(c, wait, after429, after5xx) = 0
      BY <2>2 DEF Pending
    <3> QED
      BY <1>4, <1>5, <1>6, <2>2, <3>1 DEF EnoughInv
  <2>6. status'[c] = s /\ outcome'[c] = None
    BY <1>1, <1>2, <2>1, <2>2, AnsweredType
  <2>7. CASE Unauthorized(c)
    <3>1. pc'[c] = "refresh"
      BY <1>1, <2>7, GotoType DEF Unauthorized, Labels
    <3> QED
      BY <2>4, <2>6, <3>1 DEF LifeInv, BackoffInv, ExpiredInv, EnoughInv, None
  <2>8. CASE RateLimited(c)
    <3>1. pc'[c] = "backoff" /\ retries_5xx' = retries_5xx
      BY <1>1, <2>8, GotoType DEF RateLimited, Labels
    <3>2. retries_429'[c] = retries_429[c] + 1 /\ retries_429[c] < MAX_429_RETRIES
      BY <1>1, <2>8 DEF RateLimited, Retried, TypeOK
    <3>3. status'[c] = "429"
      BY <1>1, <2>8, AnsweredType DEF RateLimited, Statuses
    <3>4. retries_429[c] \in Nat /\ MAX_429_RETRIES \in Nat /\ wait + after429 \in Nat
      BY <1>1, <1>3, DispatcherAssumption DEF TypeOK
    <3>5. BackoffInv(c)' /\ ExpiredInv(c)'
      BY <2>6, <3>1, <3>2, <3>3, <3>4 DEF BackoffInv, ExpiredInv, None
    <3>6. Left429 = (wait + after429)
                        + (MAX_429_RETRIES - (retries_429[c] + 1)) * (wait + after429)
      BY <3>2, <3>4, OneRetryLess DEF Left429
    <3>7. Reserve(c, wait, after429, after5xx)' = Left429 + Left5xx
      <4>1. (MAX_429_RETRIES - (retries_429[c] + 1)) * (wait + after429) \in Nat
        BY <3>2, <3>4, OneRetryLess
      <4>2. Reserve(c, wait, after429, after5xx)'
                = (wait + after429)
                    + (MAX_429_RETRIES - (retries_429[c] + 1)) * (wait + after429) + Left5xx
        BY <3>1, <3>2, <3>3 DEF Reserve, Pending, Left5xx
      <4> QED
        BY <1>3, <1>4, <3>6, <4>1, <4>2
    <3>8. EnoughInv(c, wait, after429, after5xx)'
      BY <2>3, <2>5, <3>1, <3>7 DEF EnoughInv
    <3> QED
      BY <2>4, <3>5, <3>8 DEF LifeInv
  <2>9. CASE ServerError(c)
    <3>1. pc'[c] = "backoff" /\ retries_429' = retries_429
      BY <1>1, <2>9, GotoType DEF ServerError, Labels
    <3>2. retries_5xx'[c] = retries_5xx[c] + 1 /\ retries_5xx[c] < MAX_5XX_RETRIES
      BY <1>1, <2>9 DEF ServerError, Retried, TypeOK
    <3>3. status'[c] = "5xx"
      BY <1>1, <2>9, AnsweredType DEF ServerError, Statuses
    <3>4. retries_5xx[c] \in Nat /\ MAX_5XX_RETRIES \in Nat /\ wait + after5xx \in Nat
      BY <1>1, <1>3, DispatcherAssumption DEF TypeOK
    <3>5. BackoffInv(c)' /\ ExpiredInv(c)'
      BY <2>6, <3>1, <3>2, <3>3, <3>4 DEF BackoffInv, ExpiredInv, None
    <3>6. Left5xx = (wait + after5xx)
                        + (MAX_5XX_RETRIES - (retries_5xx[c] + 1)) * (wait + after5xx)
      BY <3>2, <3>4, OneRetryLess DEF Left5xx
    <3>7. Reserve(c, wait, after429, after5xx)' = Left429 + Left5xx
      <4>1. (MAX_5XX_RETRIES - (retries_5xx[c] + 1)) * (wait + after5xx) \in Nat
        BY <3>2, <3>4, OneRetryLess
      <4>2. Reserve(c, wait, after429, after5xx)'
                = (wait + after5xx) + Left429
                    + (MAX_5XX_RETRIES - (retries_5xx[c] + 1)) * (wait + after5xx)
        BY <3>1, <3>2, <3>3 DEF Reserve, Pending, Left429
      <4> QED
        BY <1>3, <1>4, <3>6, <4>1, <4>2
    <3>8. EnoughInv(c, wait, after429, after5xx)'
      BY <2>3, <2>5, <3>1, <3>7 DEF EnoughInv
    <3> QED
      BY <2>4, <3>5, <3>8 DEF LifeInv
  <2>10. CASE \E z \in Statuses : LastAnswer(c, z) /\ Arrives(c, z)
    <3>1. PICK z \in Statuses : LastAnswer(c, z) /\ Arrives(c, z)
      BY <2>10
    <3>2. pc'[c] = "body" /\ status'[c] = z
      BY <1>1, <3>1, GotoType, AnsweredType DEF LastAnswer, Labels
    <3>3. z = "401" /\ full[c] => revoked'[c]
      <4> SUFFICES ASSUME z = "401", full[c] PROVE revoked'[c]
        OBVIOUS
      <4>1. left[c] > 0
        BY <1>4, <1>7, <2>5
      <4>2. revoked' = [revoked EXCEPT ![c] = @ \/ (z = "401" /\ left[c] > 0)]
        BY <3>1, ArrivesHeaders, Zenon
      <4>3. revoked'[c] = (revoked[c] \/ (z = "401" /\ left[c] > 0))
        BY <4>2, Zenon DEF DataDomains
      <4> QED
        BY <4>1, <4>3, Zenon
    <3>4. ExpiredInv(c)'
      BY <2>3, <3>2, <3>3, Zenon DEF ExpiredInv
    <3>5. BackoffInv(c)' /\ EnoughInv(c, wait, after429, after5xx)'
      BY <3>2 DEF BackoffInv, EnoughInv
    <3> QED
      BY <2>4, <3>4, <3>5 DEF LifeInv
  <2> QED
    BY <1>16, <2>7, <2>8, <2>9, <2>10 DEF ExAnswer
<1>17. CASE ExRefreshed(c)
  <2>1. Goto(c, "refresh", "acquire") /\ UNCHANGED <<outcome, answer, retries_429, retries_5xx>>
    BY <1>17 DEF ExRefreshed, Refreshed, loop
  <2>2. PICK ms \in TokenLives : /\ left' = [left EXCEPT ![c] = ms]
                                 /\ full' = [full EXCEPT ![c] = ms >= FULL_LIFETIME]
    BY <1>17, Zenon DEF ExRefreshed
  <2>3. left'[c] = ms /\ ms \in Nat
    BY <2>2, ExchangeAssumption, Zenon DEF DataDomains
  <2>4. full'[c] = (ms >= FULL_LIFETIME)
    BY <2>2, Zenon DEF DataDomains
  <2>5. ms >= FULL_LIFETIME => ms > wait + Left429 + Left5xx
    BY <1>3, <1>4, <2>3
  <2>6. full'[c] => left'[c] > wait + Left429 + Left5xx
    BY <2>3, <2>4, <2>5, Zenon
  <2>7. pc[c] = "refresh" /\ pc'[c] = "acquire" /\ outcome'[c] = None
    BY <1>1, <1>2, <2>1, GotoType DEF Labels
  <2> HIDE <2>2, <2>4
  <2> QED
    BY <1>9, <2>1, <2>3, <2>6, <2>7
<1>18. CASE ExBackoffEnds(c)
  <2>1. Goto(c, "backoff", "acquire")
        /\ UNCHANGED <<outcome, answer, full, retries_429, retries_5xx>>
    BY <1>18 DEF ExBackoffEnds, BackoffEnds, loop
  <2>2. pc[c] = "backoff" /\ pc'[c] = "acquire" /\ outcome'[c] = None
    BY <1>1, <1>2, <2>1, GotoType DEF Labels
  <2>3. PICK ms \in Delays(c) : left' = [left EXCEPT ![c] = Minus(@, ms)]
    BY <1>18 DEF ExBackoffEnds, Passes
  <2>4. left'[c] = Minus(left[c], ms)
    BY <2>3 DEF DataDomains
  <2> DEFINE after == IF status[c] = "429" THEN after429 ELSE after5xx
  <2>5. ms \in Nat /\ ms <= after /\ after \in Nat
    BY <1>1, <1>3, <1>6, <2>2, <2>3, DelaysFit
  <2>6. full[c] => left[c] > wait + after + Left429 + Left5xx
    <3>1. Pending(c, wait, after429, after5xx) = wait + after
      BY <2>2 DEF Pending
    <3> HIDE DEF after
    <3> QED
      BY <1>3, <1>4, <1>5, <1>6, <2>2, <2>5, <3>1 DEF EnoughInv
  <2> HIDE DEF after
  <2>7. left'[c] \in Nat /\ (full[c] => left'[c] > wait + Left429 + Left5xx)
    BY <1>3, <1>4, <1>7, <2>4, <2>5, <2>6 DEF Minus
  <2> QED
    BY <1>9, <2>1, <2>2, <2>7
<1>19. CASE ExBodyRead(c)
  <2>1. /\ Return(c, "body", ResultOf(status[c]))
        /\ UNCHANGED <<status, left, answer, full, revoked>>
    BY <1>19 DEF ExBodyRead, BodyRead
  <2>2. pc[c] = "body"
    BY <2>1 DEF Return, Goto
  <2>3. pc'[c] = "done"
    BY <1>1, <2>1 DEF Return, Goto
  <2> QED
    BY <1>6, <2>1, <2>2, <2>3 DEF LifeInv, BackoffInv, ClockInv, ExpiredInv, EnoughInv
<1> QED
  BY <1>10, <1>11, <1>12, <1>13, <1>14, <1>15, <1>16, <1>17, <1>18, <1>19 DEF ExStep

\* Every step keeps every call's reserve.
LEMMA ExchangeKeepsExpiryInv ==
  ASSUME NEW wait, NEW after429, NEW after5xx, RetriesFit(wait, after429, after5xx),
         IInv, IInv', ExpiryInv(wait, after429, after5xx), [ExchangeNext]_exchangeVars
  PROVE  ExpiryInv(wait, after429, after5xx)'
<1>1. ASSUME UNCHANGED <<pc, method, loop, status, outcome, history, dataVars>>
      PROVE  ExpiryInv(wait, after429, after5xx)'
  <2>1. DataDomains'
    BY <1>1 DEF ExpiryInv, DataDomains, dataVars
  <2>2. \A d \in Calls : SameCall(d) /\ SameData(d)
    BY <1>1 DEF SameCall, SameData, loop, history, dataVars
  <2> QED
    BY <2>1, <2>2, SameCallLives DEF ExpiryInv
<1>2. CASE ExTurn
  BY <1>1, <1>2 DEF ExTurn, Turn
<1>3. CASE UNCHANGED exchangeVars
  BY <1>1, <1>3 DEF exchangeVars, vars
<1>4. ASSUME NEW c \in Calls, ExStep(c) PROVE ExpiryInv(wait, after429, after5xx)'
  <2>1. DataDomains' /\ \A d \in Calls : d # c => SameData(d)
    BY <1>4, ExStepFrames DEF ExpiryInv
  <2>2. \A d \in Calls : d # c => SameCall(d)
    BY <1>4, ExStepStep, StepKeeps DEF Kept
  <2>3. LifeInv(c, wait, after429, after5xx)'
    BY <1>4, CallLives DEF ExpiryInv, IInv
  <2>4. \A d \in Calls : d # c => LifeInv(d, wait, after429, after5xx)'
    BY <2>1, <2>2, SameCallLives DEF ExpiryInv
  <2> QED
    BY <2>1, <2>3, <2>4 DEF ExpiryInv
<1> QED
  BY <1>2, <1>3, <1>4 DEF ExchangeNext

\* At first no call has a token.
LEMMA InitExpiryInv ==
  ASSUME NEW wait, NEW after429, NEW after5xx, ExchangeInit
  PROVE  ExpiryInv(wait, after429, after5xx)
<1>1. DataDomains
  BY DEF ExchangeInit, DataDomains
<1>2. ASSUME NEW c \in Calls PROVE LifeInv(c, wait, after429, after5xx)
  <2>1. pc[c] = "idle" /\ outcome[c] = None
    BY DEF ExchangeInit, Init
  <2>2. answer[c] = NoAnswer /\ left[c] = 0 /\ ~full[c]
    BY DEF ExchangeInit
  <2> QED
    BY <2>1, <2>2
    DEF LifeInv, BackoffInv, ClockInv, ExpiredInv, EnoughInv, NoAnswer, None
<1> QED
  BY <1>1, <1>2 DEF ExpiryInv

\* When the waits of a call fit in the life of a full token, a token that the
\* refresh gave a full life is still alive at the last retry: a 401 is reported
\* only of a token that was revoked, or that the refresh gave less to live.
THEOREM ExpiryCostsOneRefreshHolds ==
  ASSUME NEW wait, NEW after429, NEW after5xx, RetriesFit(wait, after429, after5xx)
  PROVE  ExchangeSpec => []ExpiryCostsOneRefresh
<1>1. ExchangeInit => ExpiryInv(wait, after429, after5xx)
  BY InitExpiryInv
<1>2. IInv /\ IInv' /\ ExpiryInv(wait, after429, after5xx) /\ [ExchangeNext]_exchangeVars
        => ExpiryInv(wait, after429, after5xx)'
  BY ExchangeKeepsExpiryInv
<1>3. ExpiryInv(wait, after429, after5xx) => ExpiryCostsOneRefresh
  BY DEF ExpiryInv, LifeInv, ExpiredInv, ExpiryCostsOneRefresh
<1> QED
  BY <1>1, <1>2, <1>3, ExchangeInductive, PTL DEF ExchangeSpec
=============================================================================
