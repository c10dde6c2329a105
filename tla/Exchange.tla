------------------------------ MODULE Exchange ------------------------------
(***************************************************************************)
(* What Dispatcher leaves out of a tool call: the time it takes, the life  *)
(* its token has left, the headers and the body of the answers, and the    *)
(* report it ends with (BackoffPolicy, parse_retry_after, DispatchError    *)
(* and render_auth_error in src/resilience.rs).                            *)
(*                                                                         *)
(* Every action is Dispatcher's action of that name and what happens to    *)
(* the data in it.  Time is in milliseconds and passes where the call      *)
(* sleeps or waits for the budget; a request that takes long is a token    *)
(* that had less to live.  The API answers 401 to a token that is dead,    *)
(* and may revoke one that is not.                                         *)
(***************************************************************************)
EXTENDS Dispatcher

CONSTANTS
    BACKOFF_BASE, BACKOFF_MAX,
    Jitters,            \* jitters it may draw
    RETRY_AFTER_CAP,
    Waits,              \* how long it may wait for the budget
    FULL_LIFETIME,      \* the least a token should live: MIN_LIFETIME_SECS
    TokenLives,       \* what may be left of a token token() or refresh_now() returns
    TraceIds,           \* values of the header Trace-Id; "binary" is no text
    RetryAfters         \* values of the header Retry-After, see ParseRetryAfter

ASSUME ExchangeAssumption ==
    /\ {BACKOFF_BASE, BACKOFF_MAX, RETRY_AFTER_CAP, FULL_LIFETIME} \subseteq Nat
    /\ Jitters \subseteq Nat /\ Waits \subseteq Nat /\ TokenLives \subseteq Nat
    /\ RetryAfters \subseteq {<<"absent">>, <<"garbage">>}
                              \cup ({"seconds"} \X Nat) \cup ({"date"} \X Int)

VARIABLES
    left,       \* how long the call's token will live
    answer,     \* trace_id and retry_after of the last answer
    report,     \* what the MCP client is told
    asked,      \* history: the headers the last answer really carried, the
                \* API's or the token endpoint's
    full,       \* history: the refresh gave a token of FULL_LIFETIME
    revoked     \* history: the API refused a token that was not dead

dataVars == <<left, answer, report, asked, full, revoked>>
exchangeVars == <<vars, dataVars>>

NoDelay == -1
NoAnswer == [trace |-> None, retry_after |-> NoDelay]
NoHeaders == [trace |-> None, retry_after |-> <<"absent">>]
NoReport == [kind |-> None]

Smaller(m, n) == IF m < n THEN m ELSE n
Minus(m, n) == IF m < n THEN 0 ELSE m - n

(***************************************************************************)
(* Headers and delays.                                                     *)
(***************************************************************************)
\* A value is <<"absent">>, <<"garbage">> (blank, no text, neither form),
\* <<"seconds", n>>, or <<"date", n>> for the moment n from now, n < 0 for
\* one that has passed.
ParseRetryAfter(value) ==
    CASE value[1] \in {"absent", "garbage"} -> NoDelay
      [] value[1] = "seconds" -> Smaller(value[2], RETRY_AFTER_CAP)
      [] value[1] = "date" -> Smaller(Minus(value[2], 0), RETRY_AFTER_CAP)

ExtractTraceId(value) == IF value = "binary" THEN None ELSE value

\* Mutant of Parse: a header that is not there leaves the last one in place.
ParseKeeping(c, headers) ==
    [trace |-> IF ExtractTraceId(headers.trace) = None THEN answer[c].trace
               ELSE ExtractTraceId(headers.trace),
     retry_after |-> ParseRetryAfter(headers.retry_after)]

Parse(c, headers) ==
    [trace |-> ExtractTraceId(headers.trace),
     retry_after |-> ParseRetryAfter(headers.retry_after)]

\* The bounded shift keeps a large retry number from overflowing.
Exponential(n) == Smaller(BACKOFF_BASE * 2 ^ Smaller(n - 1, 16), BACKOFF_MAX)

\* Mutant of Delays: the header is obeyed however far off it is.
DelaysUncapped(c) ==
    IF status[c] = "429" /\ answer[c].retry_after # NoDelay
    THEN {Minus(asked[c].retry_after[2], 0)}
    ELSE {Exponential(1) + j : j \in Jitters}

\* delay_for: what the server asks for, or the backoff of this retry; the
\* retry of a 5xx does not look at the header.
Delays(c) ==
    IF status[c] = "429" /\ answer[c].retry_after # NoDelay
    THEN {Smaller(answer[c].retry_after, RETRY_AFTER_CAP)}
    ELSE LET n == IF status[c] = "429" THEN retries_429[c] ELSE retries_5xx[c]
         IN  {Exponential(n) + j : j \in Jitters}

\* How long the code makes a call wait, at the budget and after each status,
\* and that all its retries together take less than a token should live.
RetriesFit(wait, after429, after5xx) ==
    /\ {wait, after429, after5xx} \subseteq Nat
    /\ \A ms \in Waits : ms <= wait
    /\ RETRY_AFTER_CAP <= after429
    /\ \A n \in 1 .. MAX_429_RETRIES, j \in Jitters : Exponential(n) + j \in 0 .. after429
    /\ \A n \in 1 .. MAX_5XX_RETRIES, j \in Jitters : Exponential(n) + j \in 0 .. after5xx
    /\ wait + MAX_429_RETRIES * (wait + after429) + MAX_5XX_RETRIES * (wait + after5xx)
           < FULL_LIFETIME

\* Time goes by for the token.
Passes(c, ms) == left' = [left EXCEPT ![c] = Minus(@, ms)]

(***************************************************************************)
(* Reports.                                                                *)
(***************************************************************************)
Tell(c, r) == report' = [report EXCEPT ![c] = r]

\* parse_allegro_errors: a body of the documented shape with a text for the
\* user, or anything else.
Bodies == {"theirs", "none"}

\* The report of an answer: its count is the sends of a 429 and the retries of
\* a 5xx, and its text for the user the API's own where there is one.
Told(c, body) ==
    CASE status[c] = "2xx" -> [kind |-> "body"]
      [] status[c] = "429" -> [kind |-> "RateLimited", trace |-> answer[c].trace,
                               retry_after |-> answer[c].retry_after, count |-> sends[c],
                               user |-> "ours"]
      [] status[c] = "5xx" -> [kind |-> "Server", trace |-> answer[c].trace,
                               retry_after |-> NoDelay, count |-> retries_5xx[c],
                               user |-> "ours"]
      [] OTHER -> [kind |-> "Client", trace |-> answer[c].trace,
                   retry_after |-> NoDelay, count |-> 0,
                   user |-> IF body = "theirs" THEN "theirs" ELSE "ours"]

\* A call that gets no answer, or no permission, has no answer to tell of.
Untold(kind) == [kind |-> kind, trace |-> None]

\* The errors of the token manager that no answer of the token endpoint is
\* behind, or whose answer is dropped: a rejected refresh token is only
\* ReauthRequired.
OwnErrors == {"Http", "ReauthRequired", "StoreIo", "StoreVersion", "EnvMismatch"}

\* read_token_error.
TokenError(s, headers) ==
    IF s = "429"
    THEN [error |-> "TokenMintRateLimited", trace |-> ExtractTraceId(headers.trace),
          retry_after |-> ParseRetryAfter(headers.retry_after)]
    ELSE [error |-> "TokenEndpoint", trace |-> ExtractTraceId(headers.trace)]

\* render_auth_error: of these it tells the trace, and never a delay.
AuthReport(e) ==
    [kind |-> "Auth", error |-> e.error,
     trace |-> IF e.error \in OwnErrors THEN None ELSE e.trace]

(***************************************************************************)
(* Dispatcher's actions, and what happens to the data.                     *)
(***************************************************************************)
ExchangeInit ==
    /\ Init
    /\ left = [c \in Calls |-> 0]
    /\ answer = [c \in Calls |-> NoAnswer]
    /\ report = [c \in Calls |-> NoReport]
    /\ asked = [c \in Calls |-> NoHeaders]
    /\ full = [c \in Calls |-> FALSE]
    /\ revoked = [c \in Calls |-> FALSE]

ExBegin(c) == Begin(c) /\ UNCHANGED dataVars

ExToken(c) ==
    /\ Token(c)
    /\ \E ms \in TokenLives : left' = [left EXCEPT ![c] = ms]
    /\ IF method[c] = "unsupported" THEN Tell(c, Untold("Bad")) ELSE UNCHANGED report
    /\ UNCHANGED <<answer, asked, full, revoked>>

ExAuthFails(c) ==
    /\ TokenFails(c) \/ RefreshFails(c)
    /\ \/ \E error \in OwnErrors : Tell(c, AuthReport([error |-> error])) /\ UNCHANGED asked
       \/ \E s \in {"429", "4xx", "5xx"}, trace \in TraceIds, after \in RetryAfters :
             LET headers == [trace |-> trace, retry_after |-> after]
             IN  Tell(c, AuthReport(TokenError(s, headers))) /\ asked' = [asked EXCEPT ![c] = headers]
    /\ UNCHANGED <<left, answer, full, revoked>>

ExAcquire(c) ==
    /\ Acquire(c)
    /\ \E ms \in Waits : Passes(c, ms)
    /\ UNCHANGED <<answer, report, asked, full, revoked>>

ExAcquireFails(c) ==
    /\ AcquireFails(c)
    /\ Tell(c, Untold("BudgetExceeded"))
    /\ UNCHANGED <<left, answer, asked, full, revoked>>

ExUnreachable(c) ==
    /\ Lost(c) \/ BodyLost(c)
    /\ Tell(c, Untold("Unreachable"))
    /\ UNCHANGED <<left, answer, asked, full, revoked>>

\* On an answer other than a 429 the header is read, and not obeyed.
RetryAftersOf(s) ==
    IF s = "429" THEN RetryAfters
    ELSE {<<"absent">>, <<"seconds", 4 * RETRY_AFTER_CAP>>}

\* An answer arrives: its headers are read before anything is decided on it.
\* A dead token gets a 401, unless the API is too busy to look at it.
Arrives(c, s) ==
    /\ s \in {"2xx", "4xx"} => left[c] > 0
    /\ revoked' = [revoked EXCEPT ![c] = @ \/ (s = "401" /\ left[c] > 0)]
    /\ \E trace \in TraceIds, after \in RetryAftersOf(s) :
           LET headers == [trace |-> trace, retry_after |-> after]
           IN  /\ asked' = [asked EXCEPT ![c] = headers]
               /\ answer' = [answer EXCEPT ![c] = Parse(c, headers)]
    /\ UNCHANGED <<left, report, full>>

ExAnswer(c) ==
    \/ Unauthorized(c) /\ Arrives(c, "401")
    \/ RateLimited(c) /\ Arrives(c, "429")
    \/ ServerError(c) /\ Arrives(c, "5xx")
    \/ \E s \in Statuses : LastAnswer(c, s) /\ Arrives(c, s)

ExRefreshed(c) ==
    /\ Refreshed(c)
    /\ \E ms \in TokenLives : /\ left' = [left EXCEPT ![c] = ms]
                                /\ full' = [full EXCEPT ![c] = ms >= FULL_LIFETIME]
    /\ UNCHANGED <<answer, report, asked, revoked>>

ExBackoffEnds(c) ==
    /\ BackoffEnds(c)
    /\ \E ms \in Delays(c) : Passes(c, ms)
    /\ UNCHANGED <<answer, report, asked, full, revoked>>

ExBodyRead(c) ==
    /\ BodyRead(c)
    /\ \E body \in Bodies : Tell(c, Told(c, body))
    /\ UNCHANGED <<left, answer, asked, full, revoked>>

ExTurn == Turn /\ UNCHANGED dataVars

ExStep(c) ==
    \/ ExBegin(c) \/ ExToken(c) \/ ExAuthFails(c) \/ ExAcquire(c) \/ ExAcquireFails(c)
    \/ ExUnreachable(c) \/ ExAnswer(c) \/ ExRefreshed(c) \/ ExBackoffEnds(c) \/ ExBodyRead(c)

ExchangeNext == ExTurn \/ \E c \in Calls : ExStep(c)

ExchangeSpec == ExchangeInit /\ [][ExchangeNext]_exchangeVars

(***************************************************************************)
(* Properties.                                                             *)
(***************************************************************************)
\* "one 401-refresh per dispatch": a token that dies while the call backs off
\* costs it one refresh and no more.  However the server spaces the retries, a
\* call reports a 401 only if the API revoked a token or the refresh gave one
\* that would not live for FULL_LIFETIME.
ExpiryCostsOneRefresh ==
    \A c \in Calls : outcome[c] = "Client" /\ status[c] = "401" => revoked[c] \/ ~full[c]

\* DispatchError ("from the LAST 429", "total API sends"): a report tells of the
\* last answer and of no earlier one, and counts what was on the wire; one of
\* a failed authorization never has the trace of the API's answers.
ReportTellsLastAnswer ==
    \A c \in Calls :
        /\ outcome[c] \in {"RateLimited", "Server", "Client"} =>
            /\ report[c].kind = outcome[c]
            /\ report[c].trace = ExtractTraceId(asked[c].trace)
            /\ outcome[c] = "RateLimited" =>
                   /\ report[c].count = wire[c]
                   /\ report[c].retry_after = ParseRetryAfter(asked[c].retry_after)
            /\ outcome[c] = "Server" => report[c].count = answers[c]["5xx"] - 1
        /\ outcome[c] = "Auth" =>
            report[c].trace = IF report[c].error \in OwnErrors THEN None
                              ELSE ExtractTraceId(asked[c].trace)
=============================================================================
