# A verification project for allegro-mcp

TLA+ models of `allegro-mcp` (an MCP server that turns the Allegro REST API into
tools), the TLC runs that check them and the TLAPS proofs about them. Paths are
relative to the repository's root; every action's lines are in `PROJECT.json`
under `map`.

## 1. Inventory

| Part | Source | State it keeps | Operations |
|---|---|---|---|
| Token manager `AllegroAuth` | `src/auth/mod.rs` | the cached token (`RwLock`), the one-shot flag `force_refresh` | `token`, `refresh_now`, `invalidate`, `install_tokens`, `status` |
| Token store | `src/auth/token_store.rs` | `tokens.json`: a token pair, its dates, a pending device grant | `load`, `save_tokens`, `save_pending`, `clear`, `clear_pending`, `write_atomic` |
| Device login | `src/auth/device.rs`, `run_auth_device` in `src/main.rs` | `PollState`: interval, deadline, transient failures | request a code, save it, poll, save the tokens |
| Startup policy | `run_device_startup_policy` in `src/main.rs`, `src/http_server.rs` | the background poll | restore, resume a pending grant, or exit |
| Rate budget | `src/resilience.rs` | a ring of 60 per-second counters and the last second, behind a mutex | `acquire`, `advance` |
| Dispatcher | `src/dispatcher.rs` | the loop's variables of each tool call: retry counters, sends, refreshed | `dispatch_with_resilience` |
| Backoff, error reports | `src/resilience.rs` | the jitter's generator | `delay_for`, `sleep`, `report` |
| HTTP transport | `src/http_server.rs` | the server token | `/mcp`, `/health`, `/auth/status`, the bearer gate |
| MCP handler | `src/server.rs` | read-only handles on the parts above | `list_tools`, `call_tool` |
| Schema pipeline | `src/schema/` | the cached `swagger.yaml` and its hash | fetch, detect drift, write and read the cache, parse |
| Tool registry | `src/tool_registry/` | the tools built at startup | build, resolve references, deduplicate ids |
| Configuration, HTTP clients, entry | `src/config.rs`, `src/http.rs`, `src/main.rs`, `src/lib.rs` | none after startup | merge, build clients, wire |

How they interact. `call_tool` runs `dispatch_with_resilience` on the task of its
request. Every dispatch of a process shares one `AllegroAuth` (the token, and on
a 401 `refresh_now`) and one `RateBudget`. `AllegroAuth` and the startup policy's
background poll share the token file with each other, and with `auth device`
runs and other server processes on the same volume; there is no lock across
processes. The auth server and the API are outside.

What is hard: refresh tokens are single use, so concurrency, a crash or a lost
answer at the wrong step costs the authorization; the file is read, decided upon
across awaits and written by several processes; the cache lock is held over
network calls with many early returns; three retry rules share one loop and one
budget; the budget counts in clock seconds, with boundaries. `PROJECT.json` lists
each hazard at its line under `hazards`, with the property that covers it or a
note on why none does.

What makes each part correct, in a sentence each:

- token manager: one resolution at a time, the file before the cache, no spent
  refresh token presented, no live one wiped, no rejected token handed back, and
  every call returns;
- token store: a reader finds the old or the new contents, whole;
- device login: a code that can still be approved survives every interruption,
  the newest pair is lost to no order of runs and refreshes that do not write over
  each other, and a run ends;
- startup: a pending grant that can still be approved is resumed; a server begins
  to listen with a token or a grant; no token leaves its environment;
- configuration: every setting comes from the highest layer that has it, and nothing
  is sent before the effective settings are legal;
- token lifetimes: no long-lived token is handed out dead, and no short-lived one is
  refreshed in a loop;
- rate budget: no more than the cap per minute, and nobody refused below it;
- dispatcher: bounded sends, all of them paid for, no effect twice, no early
  surrender, one refresh that lasts for the whole call, and a report of its last answer;
- schema pipeline: no state of the cache costs a server a good document, and an
  undisturbed write heals whatever was left there;
- tool registry: every tool can be called by its name, the input schema asks for what
  the path needs, and resolving references ends, hides nothing and calls nothing
  circular that is not; a request asks for a version its operation declares.

## 2. Modules

| Module | What it is |
|---|---|
| `AllegroAuth` | the token manager of one process with its file, the startup policy and the part of the dispatcher that drives it |
| `MinuteQuota` | abstract: a quota of `Cap` grants per clock minute |
| `RateBudget` | the ring and `acquire()`; implements `MinuteQuota` |
| `Dispatcher` | tool calls through the retry loop, on the quota `RateBudget` implements |
| `Exchange` | extends `Dispatcher` by time, the life of the token, headers and reports |
| `TokenLifetime` | how long a token is handed out: guard, clamp and the three clocks |
| `Startup` | the process from its flags, variables and files to serving, over restarts: configuration, clients, the policy, the transport, `auth device` |
| `DeviceLogin` | the login command, killed and rerun, beside a serving process that refreshes or wipes the same file |
| `AtomicRegister` | abstract: a register whose writes take effect in one step or not at all |
| `WriteAtomic` | the system calls of `write_atomic`; implements `AtomicRegister` |
| `SchemaCache` | how a starting server gets the OpenAPI document, with the cache several servers share |
| `RefResolver` | `resolve_schema` and its helpers, the recursion as a stack of calls |
| `ToolRegistry` | building tools, their names, schemas and versions, and the request made of a call |
| `*Proofs` | the theorems about the module they are named after; `RegistryProofs` is about `RefResolver` and `ToolRegistry`, `ProcessProofs` about `Startup` and `TokenLifetime` |
| `MC*` | the instances and symmetry sets for TLC |

Mutants (`...Dropped`, `...OneMore` and the like) stand before the definition they
vary. `MCRegistry` (`RefResolver` and `ToolRegistry`) and `MCProcess` (`Startup`, `TokenLifetime`,
`Exchange`) check modules that share no state in one run: a behaviour belongs to one of them
and leaves the variables of the others alone.

No specification uses the mutants; replacing the definition by its mutant makes
the property listed in `PROJECT.json` fail.

### AllegroAuth

`Tasks` are the concurrent users of the shared `AllegroAuth`. A step boundary is
an await or a lock operation, so `token()` is `ReadCache`, `WriteLock`, then the
chain `TakeForce`, `Load`, `GrantRotates | GrantRejected | GrantTransient`,
`Reload`, `Wipe`, `Persist`, `Seed` (or `Fetch`, `Seed` in client_credentials
mode), and `refresh_now` is `SetForce`, `Invalidate`, then the same. `lock` is the
write half of the cache's `RwLock`; the read half is one step, since no await is
under it. `frame` holds the locals: the pair, the refresh token presented, `forced`
and `stored_is_live`. The file is `store`; `save_tokens` replaces the whole
envelope, `clear` removes it. Time is abstract: `CacheAges` makes `is_valid()` false,
`StoreAges` takes the stored pair from live to expired to older than 89 days.

The environment: the auth server rotates a usable refresh token, rejects one that
is not, and may fail or lose its answer either way; it may stop honouring a pair,
the API may start to refuse one; the process may crash at any step and start
again. With `Faults` each file operation may fail. `saved`, `spent`, `rejected` and
`excused` are history.

`FreshAfter401` has one exception, `excused`: a forced resolution that could not
get a new pair (transient answer, no refresh token, I/O error) hands the stored
token back by design, and its flag is the one all callers share. `FreshAfter401` and
`FlagHasTaker` hold while no background poll runs; with one, `install_tokens` seeds the
cache behind the lock, and a task can leave `refresh_now` through the fast path with the
flag still set (`AuthResumeRace`).

### RateBudget and MinuteQuota

A counter is represented by the set of requests it counts; `window_total` is the
cardinality. The clock has `TicksPerSecond` ticks in a second and `WINDOW_BUCKETS`
seconds in a minute (60 in the code: the bucket count and the divisor of the minute
test are the same number). The mutex section of `acquire()` is one action
(`Acquired`, `Retry` or `Exceeded`), the sleep any number of ticks. The clock does
not step back.

The refinement maps the quota's minute to `minute_of(last_second)` and its used
requests to the union of the buckets: a granted request whose minute is new replaces
the set, which is what the reset of the ring amounts to.

### Dispatcher

One action per await of the loop. `auth.token()` and `refresh_now()` are one step
that may fail, `acquire` takes a unit of the quota or is refused when it is full
(`Turn` is the next minute), and the API answers with any status: `2xx`, `401`, `429`,
`5xx`, or `4xx` for every other one. `Effect` says what the API may have done
before it answered: a 2xx did, a 5xx or a lost connection may have, a 401, 429 or
other 4xx did not, which is the code's own reasoning for its retry rules. `LastAnswer` is
every answer that is not `Retried`; then the body is read or lost.

### DeviceLogin

`Start` is the decision to resume or to ask for a code, `Request`, `LoadTokens` and
`WritePending` are the request and the two halves of `save_pending`, `CheckDeadline`
and the `Poll...` actions the loop, `SaveTokens` the end. `Kill` may come between any
two. The serving process is the file's side of `resolve_device_token`: `ServerLoads`, the grant
(`ServerRotates`, `ServerRejected` with the second look at the file), `ServerSaves` or `ServerClears`.
`grant` is what the auth server knows of a code, `fate` what it knows of a pair, which the user
may revoke. `latest`, `raced` and a run's `streak` are history: a race is a write of the file by one
process while another is committed to one. `LiveCodeOnDisk` is about runs without a serving process, because
that one drops a pending grant whenever it saves or wipes.

### WriteAtomic and AtomicRegister

Names refer to files: the destination, and one temporary name per process id
(`TmpName`). A process holds a handle on the file it created, which may have lost its
name. `create_new` fails when the name is taken, and, as in the code, the cleanup
after any error removes the temporary name, whoever made it. Every system call may fail
and a process may die between two of them. Initially there may be leftovers of
killed processes. Directory creation and permissions are left out. A crash is of
the process: what the disk keeps after a power loss is not modelled.

### SchemaCache

A server goes from `Start` through `LoadFile`, or `Fetched | FetchRetry | FetchFails`, then
`Drift` and the system calls of `write_cache`, or `ReadCache`, to `Parse`; any call of
`write_cache` may fail (`CacheError`), any server may be killed. `fs::write` truncates and
then writes, so other servers can read an empty or a partial file. Documents are good
(`parse_bytes` accepts them) or bad; the body of a redirect that is not followed, which `error_for_status` lets through, is a bad one. `Torn` is whatever a write that was cut short or mixed with
another leaves: YAML cut at a line may still parse, so `Parse` may accept it. The
hash file holds the document hashed. `newest`, `alone` and `clean` are history: they say which write of
the cache had it to itself and that nobody has touched it since. A file source is a choice at the
start, not a constant, so a run mixes both.

### RefResolver

A document is a function from some of the names under `components.schemas` to a schema, represented by
the set of names it refers to, or to a reference. `stack` holds the calls of `schema_to_value`
with what is left of their schemas; `Enter`, `Circular` and `Leave` are `resolve_schema`,
`NotFound`, `Found`, `Cycle` and `Chain` the outcomes of `resolve_ref_string`, whose position in a
chain is `at`. Any order of the references of a schema is allowed. A reference that
does not begin with `#/components/schemas/` is a name the document does not have.

### ToolRegistry

`Build` is `build_one_tool` for the next operation: the id, made unique by `deduplicate_id`, and
the listed and the required properties. An id is its parts between underscores, so that an
operation called `a_2` collides with the second `a`. A header or cookie parameter behaves like a
query parameter here and has no declaration of its own. `Call` is `call_tool` up to the request:
the first tool of that name, the holes of the path filled from the arguments, and what becomes of
the rest. Arguments are any set of names, since nothing checks them against the schema.
An operation's body and responses carry the media types of their content maps in the document's
order, and only those `resolve_response_ref` finds; `AcceptOf` is the scan of
`extract_accept_media_type`, the stable sort as the least place of the least rank.

### Exchange

Every action is the one of `Dispatcher` it is named after and what happens to the data: `left` is the
life of the token in milliseconds, which passes in the backoff (`Delays`) and while waiting for the budget
(`Waits`); `answer` is what `dispatch_with_resilience` parsed of the last headers, `report` what the client is told.
A request takes no time of its own: one that is slow is a token that had less to live. The API answers
401 to a dead token and may refuse a live one (`revoked`). The values of the headers include a date in
the past, garbage, and a delay past the ceiling; constants are the code's, in milliseconds.
Errors of the token manager are those without an answer (`OwnErrors`) and those of `read_token_error`.

### TokenLifetime

`cached.ends` is an `Instant`, `stored.ends` an epoch second and `dies` the server's time; `Suspend` stops
the first clock, `SetClock` moves the second, `Restart` loses the cache. A resolution is one step: its failures and its
races are `AllegroAuth`'s. `steady` says that the clocks have agreed since the newest token was
issued, which the properties assume and the code cannot do without.

### Startup

An input is a command, its flags, the environment and the config documents; a layer is a function from
the keys it sets to a few telling values (`"blank"`, `"bad"`, `" yes "` with white space around it). `Load` is `Config::load`: the document found by
`Discovered`, then `Overlay` and `Merge` (the variables that `apply_env` trims by `Trimmed`), validated, the User-Agent as a sequence of tokens against its
grammar. `BuildClients`, `LoadSchema`, the policy, `StartupCheck` and `Bind` follow `main` in its order; each may
fail as the code may. A token, and a code, is known by the environment it was issued for, a request by its host, its headers
and what it carries. A resumed grant is polled for from the policy on, beside the eager check and the bind (`ResumeEnds`);
it may lapse before the port is bound, so `ServesAuthorized` asks for a token or a poll that was started. Every process starts with any input, on the files the earlier ones left.

## 3. Runs

Passing runs:

| Run | Instance | What it shows |
|---|---|---|
| `AuthServing` | 2 tasks, 2 pairs, 1 pending grant, device mode, file faults | single flight, disk first, no double spend, no wipe of a live pair, no needless re-authorization |
| `AuthLiveness` | 2 tasks, 2 pairs, no pending grant, both flows, fairness | no rejected token back, no stray flag, and every `token()` and `refresh_now()` ends |
| `RateBudget` | 4 calls, cap 2, minutes of 3 seconds of 2 ticks, fairness | exact ring, no refusal below the cap, refinement of the quota, and every `acquire()` returns |
| `Dispatch` | 2 calls, cap 3, 2 minutes, one retry of each kind, fairness | no duplicate effect, bounded sends within the quota, no early surrender, and every call returns |
| `Login` | one run of the command at a time, 2 codes, 2 pairs, with or without a serving process, fairness | a live code stays on disk, the newest pair is kept where nobody writes over anybody, a run ends |
| `WriteAtomic` | 2 processes with ids of their own, 4 files | never torn, a leftover fails one write, refinement |
| `Registry` | every document over 3 names; up to 3 of 40 operations whose ids are `a` or `a_2` | references: true placeholders, nothing hidden, and an end but for the chains of `RefChain`; tools: names resolve, arguments arrive, versions fit |
| `SchemaCache` | 2 servers, 3 starts, 2 good documents and a bad one, fairness | an undisturbed write heals the cache, a good document is served, every start ends |
| `Process` | 10,156 inputs for the first start and 28 for two more; clocks of 10 ticks; one call with the code's constants | settings from their highest layer, an exact gate, no token abroad, an authorized server; no dead token, no refresh loop; one refresh lasts, reports of the last answer |

Runs that must find a violation, each of a sentence in the repository (quoted
under `findings`):

| Run | What the code does |
|---|---|
| `AuthResumeRace` | `install_tokens` seeds the cache late: a token already rejected comes back from `refresh_now` |
| `LoginGivesUp` | transient failures are counted over the whole poll: a run gives up after failures that were not consecutive |
| `RefChain` | a chain of references between components is not remembered: one that runs into a cycle from outside is followed for ever |

Other places where the models, following the code, differ from its comments (no
run of their own):

- the budget's window is the clock's minute (`resilience.rs:653`), so around a boundary 60 s can see twice
  the cap; `README.md:148` says "Client-side sliding 60 s window": `advance` clears the ring when `minute_of`
  changes;
- a rejected refresh token removes the whole file, a pending grant in it included
  (`auth/mod.rs:557`), and startup then exits as if there were none, where `README.md:103` and
  `main.rs:458` promise to resume it: `Wipe`, then `Bail`;
- `save_pending` writes back tokens it read before (`token_store.rs:230`), over a pair a serving process
  has rotated meanwhile, where `token_store.rs:223` says "preserving any already-granted tokens"; and
  `clear()` (`auth/mod.rs:557`) wipes a pair saved after the second look: `NewestPairKept` of `DeviceLogin` holds only with
  its `~raced`;
- the temporary name is unique per process id only (`token_store.rs:330`), and the cleanup removes it
  whoever made it; two containers that share the volume (`README.md:126`) both have id 1, and a partial
  file can be renamed into place, where `token_store.rs:289` says atomically: with one id for both
  processes TLC finds `NeverTorn` violated;
- a download is cached before it is parsed (`schema/mod.rs:78`), so a bad one replaces the cached
  copy, which `cache.rs:43` calls the "last good schema": `WriteYaml` comes before `Parse`;
- beside a `body` argument a request that is not GET or HEAD drops its remaining query and header
  arguments (`dispatcher.rs:224`), and an operation without a request body but with a query
  parameter called `body` sends it as the payload, which the comment at `dispatcher.rs:225` rules out: `Payload`;
- a retry that finds the budget full ends in `BudgetExceeded`, "request never sent"
  (`resilience.rs:142`, `:374`), after earlier sends of the same call
  (`dispatcher.rs:265`): `AcquireFails` is enabled with `wire` above 0;
- a login that was told its code is void leaves it in the file (`main.rs:299`), and the
  rerun that `main.rs:328` asks for polls the same code: `PollRefused` leaves
  `store.pending` alone, and `Start` resumes it until it lapses;
- a rotation by a serving process drops a live pending grant (`token_store.rs:218`), where
  `README.md:90` promises that a rerun resumes it: `ServerSaves`;
- a blank `ALLEGRO_MCP_SERVER_TOKEN`, which `docker-compose.yml:14` passes on when it is unset, is a token no request
  can show (`http_server.rs:149`), where `README.md:65` has the gate off by default; a blank
  `ALLEGRO_MCP_ALLOWED_HOSTS` allows every host, which `http_server.rs:53` says only of `*`: `Admitted`;
- a blank `ALLEGRO_MCP_SCHEMA_URL` shadows the file's source and cannot be loaded (`config.rs:488`), where other
  blank variables are ignored: `TakeUrl`, `LoadSchema`;
- a `Retry-After` past the ceiling is cut to 30 s and retried, where `resilience.rs:13` says "past the ceiling we fail cleanly
  instead": `Delays`;
- the health check knows `$PORT` only (`main.rs:571`), so with `--port` it asks another port, where `main.rs:566` says the same:
  `ProbePort`, and the condition in `HighestLayerWins`;
- `auth device` stops at a file of the other environment or a corrupt one, where `token_store.rs:151` says that it overwrites
  it on success anyway: `LoginFails`;
- reports of a lost body and of `ReauthRequired` have no Trace-Id, although there was an answer, where `resilience.rs:203`
  says every error report: `Untold`, `OwnErrors`;
- a JSON payload is labelled with a response's version when the body declares none (`dispatcher.rs:93`): `ContentType`.

Bounds. Two tasks are the least for every race of `AllegroAuth` (one resolves, one
waits, is rejected or sneaks in); with two pairs a pair is loaded, or installed by
the background poll, and rotated once, and a crash falls anywhere in it. What two
pairs leave out is a rotation by the grant that the stale-store guard retries, which needs
a third; its rejection, its transient answer and the wipe after it do happen, and
the proved properties hold for any number. `RateBudget` starts at the beginning, in
the middle and at the end of a minute and passes a boundary (`MaxTick` bounds the
clock); with cap 2 and four calls a full minute is followed by a full one, and some
calls are refused; `AcquireWait` is one tick more than a second, as in the code.
`Dispatch` retries each kind of answer once (the code: 3 and 3), so that all kinds mix within
one call; `MaxMinute` bounds the minutes. `Login` has a code for a killed
run and another for its successor, a pair for each of two writers; a third pair makes the run ten times
as slow and shows nothing else. Two runs of the command at once are in the module and not in
the run, where every race of the file is between a run and the serving process. `MAX_TRANSIENT_ERRORS` is 2 instead of 5.
`WriteAtomic` needs a file for the destination, two leftovers or two under way, and one
spare; `MaxFailures` caps the history counter above the bound the property states.
`Registry` has three names: the shortest chain that misses
its own cycle needs two, a shared (not circular) reference three; three tools let
a repeated id meet the number it would be given; the versions are declared in the body, in an error before or after
the success, in two successes out of order, in the default response. `SchemaCache` has three starts, so that a
writer is killed, another server falls back on what it left, and one heals it; `MAX_RETRIES` is the code's.
`Process`: `Startup`'s inputs are families that vary the settings meeting in one decision (the source of the
schema in all layers; which document is read and what is wrong with it; each variable over a document; every User-Agent two edits away from
a good one; commands, flow, environment and token file; port, bearer token and hosts), and `MaxStarts` of three
lets a login, a start under other flags and a third one meet. `TokenLifetime` has the code's ratio of guard and clamp (1 to 2), lifetimes below, at and
above the clamp, and a `Horizon` longer than two of them. `Exchange` has the code's constants, since its property is arithmetic of
those: three delays of 30 s, one of 0.75 s and six waits of 1.15 s are less than 120 s.
Symmetry is used in runs without liveness only, on sets the specification
treats alike.

Deadlock is checked for `AllegroAuth`, whose server never stops. The other models
stop where their bound says so: all calls returned, the clock at its bound, all codes used,
no unused file, every server started as often as it may, the schema resolved, the call made.

Fairness. `AllegroAuth`: tokio's `RwLock` is fair (first in, first out), so lock
steps have strong fairness, and a task's other steps weak fairness; this assumes
that an HTTP request ends, which the client itself does not enforce. `RateBudget`: the clock goes
on and a sleeping call wakes. `Dispatcher`: each await ends. `DeviceLogin`: the same,
and every code's lifetime ends. `RefResolver`: the function runs. `SchemaCache`: requests, system calls and
awaits come back. `Process` states none, having no liveness property. A crash, a fault or an answer of one particular kind
is never assumed.

## 4. Proofs

Each `*Proofs` module proves, for all values of the constants that satisfy the
named assumption, an inductive invariant and from it the
theorems below. Every safety property of section 3 is proved. TLC checked the properties, and the candidate invariants, on the small instances first. Type invariants,
`CapPerMinute`, `DepthBounded` and `PathFilled` are proved and in no run of their own (`PathFilled` is a
part of `ArgumentsArrive`).

- `AllegroAuthProofs`: `TypeCorrect`, `SingleFlightHolds`, `PersistedBeforeUseHolds`,
  `NoDoubleSpendHolds`. `SavedInv` says that what is on its way to the cache is
  already in the file's history. `SpentInv` says that a refresh token being presented
  came from the file and is unspent, that the file never holds a spent one, and that a
  granted pair not yet saved is in one place only; it needs `SingleFlight`, since
  two tasks past the lock could present the same token.
- `AllegroAuthProofs`, the file: `PairInvariant`, `WipesOnlyDeadPairHolds`, `ReauthOnlyWhenNeededHolds`. A background poll is started only
  by a resolution that found nothing to refresh, so while a poll may still replace the file no resolution is working on a pair (`SharedPair`), and a task
  that presents or wipes a pair has the file's (`TaskPair`). The retry of a rejected grant with a newer
  file is therefore unreachable with one process; its cause is another process, which `DeviceLogin` models.
- `AllegroAuthProofs`, forced refreshes: `FlagHasTakerHolds`, `FreshAfter401Holds`, both under `[]NoLateSeed`: no background poll is between
  saving its pair and seeding the cache. Without it they are false (`AuthResumeRace`), and an installation that
  starts without a pending grant satisfies it, which `NoLateSeedHolds` proves and `FreshWithoutGrant` puts together. `FlagInv` says who will take a set flag;
  `FreshInv` that for a caller owed a new pair (`Owed`) the rejected one is out of the file, or a resolution that will
  replace it is on its way (`Coming`), and that neither the cache nor a resolution about to fill it has it (`Gone`).
- `RateBudgetProofs`: `TypeCorrect`, `CapPerMinuteHolds`, `BucketsAreExactHolds`,
  `RefusedOnlyWhenFullHolds`, `QuotaImplemented`. The ring is exactly the grants of the
  minute of `last_second`, and no grant is later than `last_second`, so that clearing
  strictly between the old and the new second clears nothing but empty buckets
  (`RotationIsExact`, from `SecondsOfMinutes` and `BucketsInOrder` about div and mod).
- `DispatcherProofs`: `TypeCorrect`, `SendsAreBoundedHolds`, `NoDuplicateEffectHolds`,
  `EverySendIsPaidHolds`, `GivesUpLastHolds`, `AttemptsAreSendsHolds` (no request without a unit of the budget,
  and the reported attempts are the requests: proved, in no run). In the loop the
  requests made equal the retries and refreshes counted, each answer count equals its retry counter,
  and a request that is not idempotent has had no effect so far.
- `DispatcherProofs`, the part of `DispatchEnds` that is a safety property: `DispatchUsesUpSteps`. `StepsLeft` (three steps for each retry or refresh
  still allowed, and the way to the end of the round) never exceeds `3 * MaxSends + 3`; each step of a call lowers it and no other step touches it.
- `DispatcherProofs`, all calls together: `QuotaBoundsSendsHolds`. `QuotaInv` bounds the units paid by the granted minutes and the current one's. The sum is a fold over the
  set of calls, about which the library has no theorem; `SubsetInduction` is induction over the subsets of a finite set, from the well-foundedness of
  the strict subset ordering, stated for a *set* of subsets instead of a predicate, and gives what is needed (`SumMonotone`, `SumOfOneMore`).
- `DispatcherProofs`, `Exchange`: `ExchangeImplementsDispatcher` (so every theorem about `Dispatcher` is one about `Exchange`),
  `ReportTellsLastAnswerHolds` (`ReportInv`: the parsed answer is that of the last headers, with the counts of the loop) and `ExpiryCostsOneRefreshHolds`. The last
  has a hypothesis about time, `RetriesFit`: the waits for the budget, the delays of all retries and what each of them may add
  fit into the life of a fresh token. The code's constants meet it (`MCRetriesFit`, which every run of `Process` evaluates: 1150 ms is `acquire_wait` and the last poll of 50 ms). `LifeInv` adds up what a token must still live
  for from the retries that are left (`Reserve`).
- `WriteAtomicProofs`: `NeverTornHolds`, `RegisterImplemented`, both under `DistinctPids`
  (without it they fail, see section 3), as is `StaleFileFailsOnceHolds` (a process that has failed on a stale name has removed it, and nobody
  else creates one of that name: `StaleInv`), and `FileStaysHolds`, which needs neither
  that nor the invariant. A writing process's temporary
  name refers to its own file, complete before the rename, and no two names share one.
- `SchemaCacheProofs`: `TypeCorrect`, `CacheIsNewestHolds`, `GoodDocumentServesHolds`. A server in `alone` is
  the only one writing and the file is its own document once it is past `WriteYaml` (`AloneInv`); while `clean`,
  nobody is writing (`CleanInv`); a server that got a good document never takes the way of the cache (`HandInv`).
- `RegistryProofs`, the resolver: `TypeCorrect`, `DepthBoundedHolds`, `CircularIsRealHolds`, `NothingHiddenHolds`. The
  references of the stack are distinct and are `visited` (`Distinct`); every inner call is for a name below the
  outer ones (`Nested`), so a visited name met again is below itself; a name is looked up or pending as soon
  as one that refers to it was looked up (`Kept`), and only names reachable from the root are (`Within`). Reachability
  is the least closed set, so nothing is proved by induction over paths. The depth is the pigeonhole
  principle.
- `RegistryProofs`, the tools: `NamesResolveHolds`, `PathFilledHolds`, `ArgumentsArriveHolds`, `VersionFitsHolds`. Among as many numbers as there
  are ids and one more, one is free (`SomeSuffixFree`), so `deduplicate_id` ends with an id nobody has; ids of tools are
  distinct, and a request is always that of a listed tool, which is `Tool` of its operation. The response scanned first
  is a success if any success declares a version, because its rank is below 300 (`ScannedFacts`).
- `DeviceLoginProofs`: `TypeCorrect`, `NewestPairKeptHolds`, `LiveCodeOnDiskHolds`. While no two writers have met, a writer
  holds what is in the file or replaces something older (`WritersInv`): what `save_pending` read is still there when it
  writes, and a serving process about to wipe has seen its own dead pair there, or nothing. That the newest pair is not the
  one it replaces comes from `KnownInv`: a pair that is granted was in nobody's hands. A code becomes live only once the file
  has it, and nothing is live while a run is before that write (`CodeInv`); this one is for one run at a time (`OneRun`),
  since a second run's code replaces the first's.
- `ProcessProofs`: `NeverHandedOutDeadHolds`, `NoRefreshLoopHolds`, `TokensStayHomeHolds`, `ServesAuthorizedHolds`. Under
  `LifetimeAssumption` (`GUARD < MIN_LIFETIME <= 2 * GUARD`, which 60 s and 120 s meet): on clocks that agree the file's date is where the grant put it
  (`StoredInv`), and a cached long-lived token outlives itself by less than `MIN_LIFETIME - GUARD` (`CachedInv`), so the guard covers it. Under
  `InputAssumption` (a command and its flags, named sources of the schema, User-Agents of any length over the tokens): a file's tokens and code are of its label (`HomeInv`), so a load that
  checks the label cannot leave the environment; between the policy and the bind there is a token, or a poll for a grant was started.
- `ProcessProofs`, the settings: `HighestLayerWinsHolds`, `GateIsExactHolds`, over the same assumption. What three merges make of a key is computed key by
  key (`MergeValues`, `EnvValues`, `MergedValues`) and compared with the first layer that has it (`ExpectedValues`), the two keys of the source together
  (`ExpectedSources`). `AgentFormat` shows that `validate_user_agent` takes exactly the documented format, for a sequence of any length: the first mark and the first
  slash are least elements of sets of positions, so no induction is needed. `GateInv` carries this through the process: past the gate its
  settings are those of its input, and everything sent carries them.

Only model-checked: the liveness properties (`ResolutionEnds`, `AcquireEnds`, `DispatchEnds`, `LoginEnds`, `EndsUnlessChainLoops`, `StartEnds`), since liveness under fairness and `ENABLED` are out of the
prover's reach. The library's induction theorems take an operator and cannot be used; where a proof needed induction it is about sets
(`SubsetInduction`, `SomeSuffixFree`, `LeastOf`).

## 5. Plan

In this order:

1. done: the modules of section 2 and the proofs of section 4;
2. proofs: for each other liveness property, that its steps use up a measure, as `DispatchUsesUpSteps` does (what is left to fairness is that they are taken);
3. two server processes and a login on one file at the grain of `WriteAtomic`; a `RateBudget` whose clock may step back.

Not modelled, with reasons: the wording of errors, logs and banners; percent
encoding and the JSON of the input schemas (data transformations without state); the reading parts
(`status`, `/health`, `/auth/status`, `schema stats`, `tools list`); parsing of TOML and
YAML; the version number of the token file (a load that fails like any other), file modes, `clear_pending` (nobody calls it);
TLS, HTTP and MCP protocol handling (libraries); timeouts of requests, which the clients do not set; Docker and CI files.
