---------------------------- MODULE AllegroAuth ----------------------------
(***************************************************************************)
(* The token manager of one server process (src/auth/mod.rs), the token    *)
(* file it persists to (src/auth/token_store.rs) and the device-mode       *)
(* startup policy (src/main.rs).                                           *)
(*                                                                         *)
(* Tasks are the concurrent users of the shared AllegroAuth: the startup   *)
(* call of token() and the tool dispatches.  An await or a lock operation  *)
(* of the code is a step boundary here; what the code does between two of  *)
(* them is one action.  The cache's RwLock is "lock": a reader's critical  *)
(* section contains no await, so reading is one step enabled while no      *)
(* writer holds the lock.                                                  *)
(*                                                                         *)
(* A pair stands for an access token with the refresh token granted along  *)
(* with it (none for a pair of "bare").  The authorization server and the  *)
(* API are external: a refresh token is single use, a 4xx answer is given  *)
(* only to a refresh token the server no longer honours, and the API may   *)
(* start to reject any issued access token with a 401.                     *)
(***************************************************************************)
CONSTANTS
    Tasks,   \* callers of token() and refresh_now()
    Pairs,   \* token pairs the authorization server can issue
    Codes,   \* device grants (device_code)
    None,    \* Option::None
    Faults   \* TRUE: an operation on the token file may return an I/O error

ASSUME AuthAssumption ==
    /\ None \notin Tasks \cup Pairs \cup Codes
    /\ Faults \in BOOLEAN

VARIABLES
    store,          \* tokens.json: the tokens, their age, the pending grant
    cache,          \* AllegroAuth::cache: a pair and what is_valid() answers
    lock,           \* the task that holds the cache's write lock, or None
    force_refresh,  \* AllegroAuth::force_refresh
    pc,             \* where each task is
    frame,          \* the local variables of each task
    phase,          \* the process: "down", "starting" or "serving"
    resume,         \* the background poll spawned by the startup policy
    mode,           \* FlowMode: the authorization flow of the installation
    issued,         \* auth server: pairs granted so far
    usable,         \* auth server: pairs whose refresh token it still honours
    bare,           \* auth server: pairs granted without a refresh token
    refused,        \* API: pairs whose access token it answers with a 401
    waiting,        \* auth server: device grants it may still approve
    lapsed,         \* device grants whose stored expiry has passed
    saved,          \* history: pairs that have been in the file
    spent           \* history: pairs whose successor has been persisted

tokenVars  == <<store, cache, lock, force_refresh>>
taskVars   == <<pc, frame, phase, resume, mode>>
serverVars == <<issued, usable, bare, refused, waiting, lapsed>>
history    == <<saved, spent>>
vars == <<tokenVars, taskVars, serverVars, history>>

(***************************************************************************)
(* State.                                                                  *)
(***************************************************************************)
\* FlowMode: client_credentials, unless there is a token store.
Modes == {"device", "client_credentials"}

Ages == {"live", "expired", "old"}  \* > 60 s left; refreshable; > 89 days

Labels == {"idle", "set_force", "invalidate", "read_cache", "write_lock",
           "take_force", "load", "grant", "reload", "retry_grant", "persist",
           "wipe", "fetch", "seed", "have", "failed"}

\* The labels of token() at which the write lock is held.
Locked == {"take_force", "load", "grant", "reload", "retry_grant", "persist",
           "wipe", "fetch", "seed"}

Frames == [tok       : Pairs \cup {None},  \* pair loaded, granted or returned
           rt        : Pairs \cup {None},  \* refresh token presented
           forced    : BOOLEAN,            \* this resolution took the flag
           live      : BOOLEAN,            \* stored_is_live
           why       : {"none", "reauth", "error"},
           refreshed : BOOLEAN,            \* the dispatch's one 401 refresh
           rejected  : Pairs \cup {None},  \* history: pair the 401 was for
           excused   : BOOLEAN]            \* history: see Excuse

NewFrame == [tok |-> None, rt |-> None, forced |-> FALSE, live |-> FALSE,
             why |-> "none", refreshed |-> FALSE, rejected |-> None,
             excused |-> FALSE]

NoCache == [pair |-> None, valid |-> FALSE]
NoFile  == [tokens |-> None, age |-> "live", pending |-> None]
NoPoll  == [at |-> "none", code |-> None, pair |-> None]

Stores == [tokens : Pairs \cup {None}, age : Ages,
           pending : Codes \cup {None}]

TypeOK ==
    /\ store \in Stores
    /\ cache \in [pair : Pairs \cup {None}, valid : BOOLEAN]
    /\ lock \in Tasks \cup {None}
    /\ force_refresh \in BOOLEAN
    /\ pc \in [Tasks -> Labels]
    /\ frame \in [Tasks -> Frames]
    /\ phase \in {"down", "starting", "serving"}
    /\ resume \in [at : {"none", "poll", "persist", "seed"},
                   code : Codes \cup {None}, pair : Pairs \cup {None}]
    /\ mode \in Modes
    /\ issued \subseteq Pairs
    /\ usable \subseteq Pairs
    /\ bare \subseteq Pairs
    /\ refused \subseteq Pairs
    /\ waiting \subseteq Codes
    /\ lapsed \subseteq Codes
    /\ saved \subseteq Pairs
    /\ spent \subseteq Pairs

\* The process is down.  The file, if there is one, holds the pair of an
\* earlier run and perhaps a pending grant.
Init ==
    /\ mode \in Modes
    /\ store \in Stores
    /\ store.tokens = None => store.age = "live"
    /\ mode = "client_credentials" => store = NoFile
    /\ cache = NoCache
    /\ lock = None
    /\ force_refresh = FALSE
    /\ pc = [t \in Tasks |-> "idle"]
    /\ frame = [t \in Tasks |-> NewFrame]
    /\ phase = "down"
    /\ resume = NoPoll
    /\ issued = {store.tokens} \ {None}
    /\ bare \in SUBSET issued
    /\ usable \in SUBSET (issued \ bare)
    /\ refused \in SUBSET issued
    /\ waiting \in SUBSET ({store.pending} \ {None})
    /\ lapsed = {}
    /\ saved = {store.tokens} \ {None}
    /\ spent = {}

(***************************************************************************)
(* Helpers.                                                                *)
(***************************************************************************)
Goto(t, label) == pc' = [pc EXCEPT ![t] = label]

\* A resolution that took the forced-refresh flag ends without a new pair: a
\* transient answer, nothing to refresh, or an I/O error.
Excuse(t, f) ==
    IF f[t].forced
    THEN [u \in Tasks |-> [f[u] EXCEPT !.excused = f[u].rejected # None]]
    ELSE f

\* The locals of the resolution go out of scope when token() returns.
Leave(f, t, p) == [f EXCEPT ![t] = [@ EXCEPT !.tok = p, !.rt = None,
                                             !.forced = FALSE, !.live = FALSE]]

\* Mutant of Fail: an early return that leaves the lock held.
FailKeepsLock(t, why) ==
    /\ Goto(t, "failed")
    /\ lock' = lock
    /\ frame' = [frame EXCEPT ![t].why = why]

\* token() returns an error: the guard is dropped, the cache left as it is.
Fail(t, why) ==
    /\ Goto(t, "failed")
    /\ lock' = None
    /\ frame' = [Leave(Excuse(t, frame), t, None) EXCEPT ![t].why = why]

HasRefresh(p) == p # None /\ p \notin bare

\* Mutant of Refreshable: the access token's expiry stands in for the age.
RefreshableWhileLive(s) == HasRefresh(s.tokens) /\ s.age = "live"

\* The stored pair has a refresh token inside the 89-day heuristic.
Refreshable(s) == HasRefresh(s.tokens) /\ s.age # "old"

\* The token endpoint grants pair n.
Issue(n) ==
    /\ n \in Pairs \ issued
    /\ issued' = issued \cup {n}
    /\ bare' \in {bare, bare \cup {n}}

\* TokenStore::save_tokens: the whole envelope, without a pending grant.
SaveTokens(p) ==
    /\ store' = [tokens |-> p, age |-> "live", pending |-> None]
    /\ saved' = saved \cup {p}

(***************************************************************************)
(* AllegroAuth::refresh_now: flag, invalidate(), token().                  *)
(***************************************************************************)
SetForce(t) ==
    /\ pc[t] = "set_force"
    /\ force_refresh' = TRUE
    /\ Goto(t, "invalidate")
    /\ UNCHANGED <<store, cache, lock, frame, phase, resume, mode, serverVars, history>>

\* Mutant of Invalidate: the cached entry survives.
InvalidateNothing(t) ==
    /\ pc[t] = "invalidate"
    /\ lock = None
    /\ Goto(t, "read_cache")
    /\ UNCHANGED <<tokenVars, frame, phase, resume, mode, serverVars, history>>

Invalidate(t) ==
    /\ pc[t] = "invalidate"
    /\ lock = None
    /\ cache' = NoCache
    /\ Goto(t, "read_cache")
    /\ UNCHANGED <<store, lock, force_refresh, frame, phase, resume, mode, serverVars, history>>

\* Mutant of RefreshNow: the cache is dropped before the flag is set.
RefreshNowFlagLast(t) ==
    \/ /\ pc[t] = "set_force"
       /\ lock = None
       /\ cache' = NoCache
       /\ Goto(t, "invalidate")
       /\ UNCHANGED <<store, lock, force_refresh, frame, phase, resume, mode, serverVars, history>>
    \/ /\ pc[t] = "invalidate"
       /\ force_refresh' = TRUE
       /\ Goto(t, "read_cache")
       /\ UNCHANGED <<store, cache, lock, frame, phase, resume, mode, serverVars, history>>

RefreshNow(t) == SetForce(t) \/ Invalidate(t)

(***************************************************************************)
(* AllegroAuth::token.                                                     *)
(***************************************************************************)
\* Fast path under the read lock.
ReadCache(t) ==
    /\ pc[t] = "read_cache"
    /\ lock = None
    /\ \/ /\ cache.valid
          /\ frame' = [frame EXCEPT ![t].tok = cache.pair]
          /\ Goto(t, "have")
       \/ /\ ~cache.valid
          /\ Goto(t, "write_lock")
          /\ UNCHANGED frame
    /\ UNCHANGED <<tokenVars, phase, resume, mode, serverVars, history>>

\* Mutant of WriteLock: the guard is dropped right after the double check.
WriteLockDropped(t) ==
    /\ pc[t] = "write_lock"
    /\ lock = None
    /\ ~cache.valid
    /\ Goto(t, IF mode = "device" THEN "take_force" ELSE "fetch")
    /\ UNCHANGED <<tokenVars, frame, phase, resume, mode, serverVars, history>>

\* Write lock and double check.
WriteLock(t) ==
    /\ pc[t] = "write_lock"
    /\ lock = None
    /\ \/ /\ cache.valid
          /\ frame' = [frame EXCEPT ![t].tok = cache.pair]
          /\ Goto(t, "have")
          /\ UNCHANGED lock
       \/ /\ ~cache.valid
          /\ lock' = t
          /\ Goto(t, IF mode = "device" THEN "take_force" ELSE "fetch")
          /\ UNCHANGED frame
    /\ UNCHANGED <<store, cache, force_refresh, phase, resume, mode, serverVars, history>>

\* The guarded assignment to the cache and the release of the lock.
Seed(t) ==
    /\ pc[t] = "seed"
    /\ cache' = [pair |-> frame[t].tok, valid |-> TRUE]
    /\ lock' = None
    /\ frame' = Leave(frame, t, frame[t].tok)
    /\ Goto(t, "have")
    /\ UNCHANGED <<store, force_refresh, phase, resume, mode, serverVars, history>>

\* fetch_token: the client_credentials grant.
Fetch(t) ==
    /\ pc[t] = "fetch"
    /\ \/ \E n \in Pairs :
             /\ Issue(n)
             /\ frame' = [frame EXCEPT ![t].tok = n]
             /\ Goto(t, "seed")
             /\ UNCHANGED lock
       \/ /\ Fail(t, "error")
          /\ UNCHANGED <<issued, bare>>
    /\ UNCHANGED <<store, cache, force_refresh, phase, resume, mode, usable, refused,
                   waiting, lapsed, history>>

(***************************************************************************)
(* resolve_device_token, entered with the write lock held.                 *)
(***************************************************************************)
\* Mutant of TakeForce: the flag is read, not swapped.
TakeForceNoReset(t) ==
    /\ pc[t] = "take_force"
    /\ frame' = [frame EXCEPT ![t].forced = force_refresh]
    /\ Goto(t, "load")
    /\ UNCHANGED <<tokenVars, phase, resume, mode, serverVars, history>>

TakeForce(t) ==
    /\ pc[t] = "take_force"
    /\ frame' = [frame EXCEPT ![t].forced = force_refresh]
    /\ force_refresh' = FALSE
    /\ Goto(t, "load")
    /\ UNCHANGED <<store, cache, lock, phase, resume, mode, serverVars, history>>

\* store.load() and every decision taken before the first await.
Load(t) ==
    LET live   == store.age = "live"
        forced == frame[t].forced
        Loaded == [frame EXCEPT ![t] = [@ EXCEPT !.tok = store.tokens, !.live = live]]
    IN
    /\ pc[t] = "load"
    /\ \/ /\ store.tokens = None
          /\ Fail(t, "reauth")
       \/ /\ store.tokens # None
          /\ ~forced /\ live
          /\ frame' = Loaded
          /\ Goto(t, "seed")
          /\ UNCHANGED lock
       \/ /\ forced \/ ~live
          /\ Refreshable(store)
          /\ frame' = [Loaded EXCEPT ![t].rt = store.tokens]
          /\ Goto(t, "grant")
          /\ UNCHANGED lock
       \/ /\ store.tokens # None /\ ~Refreshable(store)
          /\ forced /\ live
          /\ frame' = Excuse(t, Loaded)
          /\ Goto(t, "seed")
          /\ UNCHANGED lock
       \/ /\ store.tokens # None /\ ~Refreshable(store)
          /\ ~live
          /\ Fail(t, "reauth")
       \/ /\ Faults
          /\ Fail(t, "error")
    /\ UNCHANGED <<store, cache, force_refresh, phase, resume, mode, serverVars, history>>

\* A 2xx answer to refresh_grant: the server rotates the pair.
GrantRotates(t) ==
    /\ pc[t] \in {"grant", "retry_grant"}
    /\ frame[t].rt \in usable
    /\ \E n \in Pairs :
          /\ Issue(n)
          /\ usable' = (usable \ {frame[t].rt}) \cup ({n} \ bare')
          /\ frame' = [frame EXCEPT ![t].tok = n]
    /\ Goto(t, "persist")
    /\ UNCHANGED <<tokenVars, phase, resume, mode, refused, waiting, lapsed, history>>

\* Mutant of GrantRejected: a 429 counts as a definitive rejection.
GrantRejected429(t) ==
    /\ pc[t] \in {"grant", "retry_grant"}
    /\ Goto(t, IF pc[t] = "grant" THEN "reload" ELSE "wipe")
    /\ UNCHANGED <<tokenVars, frame, phase, resume, mode, serverVars, history>>

\* A 4xx answer other than 429: is_definitive_rejection.
GrantRejected(t) ==
    /\ pc[t] \in {"grant", "retry_grant"}
    /\ frame[t].rt \notin usable
    /\ Goto(t, IF pc[t] = "grant" THEN "reload" ELSE "wipe")
    /\ UNCHANGED <<tokenVars, frame, phase, resume, mode, serverVars, history>>

\* 429, 5xx, a transport error or an unreadable body: transient.  The server
\* may have rotated the pair before the answer was lost.
GrantTransient(t) ==
    /\ pc[t] \in {"grant", "retry_grant"}
    /\ \/ UNCHANGED <<issued, bare, usable>>
       \/ /\ frame[t].rt \in usable
          /\ \E n \in Pairs :
                /\ Issue(n)
                /\ usable' = (usable \ {frame[t].rt}) \cup ({n} \ bare')
    /\ IF pc[t] = "grant" /\ frame[t].forced /\ frame[t].live
       THEN /\ Goto(t, "seed")
            /\ frame' = Excuse(t, frame)
            /\ UNCHANGED lock
       ELSE Fail(t, "error")
    /\ UNCHANGED <<store, cache, force_refresh, phase, resume, mode, refused, waiting,
                   lapsed, history>>

\* The stale-store guard: reload, retry once with a newer refresh token.
Reload(t) ==
    LET newer == HasRefresh(store.tokens) /\ store.tokens # frame[t].rt
    IN
    /\ pc[t] = "reload"
    /\ \/ /\ newer
          /\ frame' = [frame EXCEPT ![t].rt = store.tokens]
          /\ Goto(t, "retry_grant")
          /\ UNCHANGED lock
       \/ /\ ~newer
          /\ Goto(t, "wipe")
          /\ UNCHANGED <<frame, lock>>
       \/ /\ Faults
          /\ Fail(t, "error")
    /\ UNCHANGED <<store, cache, force_refresh, phase, resume, mode, serverVars, history>>

\* Mutant of Wipe: a removed file is left as a value no load can read.
WipeToNothing(t) ==
    /\ pc[t] = "wipe"
    /\ store' = None
    /\ Fail(t, "reauth")
    /\ UNCHANGED <<cache, force_refresh, phase, resume, mode, serverVars, history>>

\* store.clear(): the file is removed, whatever it holds by now.
Wipe(t) ==
    /\ pc[t] = "wipe"
    /\ \/ /\ store' = NoFile
          /\ Fail(t, "reauth")
       \/ /\ Faults
          /\ Fail(t, "error")
          /\ UNCHANGED store
    /\ UNCHANGED <<cache, force_refresh, phase, resume, mode, serverVars, history>>

\* Mutant of Persist: the file keeps the old refresh token beside the new expiry.
PersistKeepsOld(t) ==
    /\ pc[t] = "persist"
    /\ store' = [store EXCEPT !.age = "live"]
    /\ saved' = saved \cup {frame[t].tok}
    /\ spent' = spent \cup {frame[t].rt}
    /\ Goto(t, "seed")
    /\ UNCHANGED <<lock, frame, cache, force_refresh, phase, resume, mode, serverVars>>

\* save_tokens of the rotated pair, before the cache is touched.
Persist(t) ==
    /\ pc[t] = "persist"
    /\ \/ /\ SaveTokens(frame[t].tok)
          /\ spent' = spent \cup {frame[t].rt}
          /\ Goto(t, "seed")
          /\ UNCHANGED <<lock, frame>>
       \/ /\ Faults
          /\ Fail(t, "error")
          /\ UNCHANGED <<store, history>>
    /\ UNCHANGED <<cache, force_refresh, phase, resume, mode, serverVars>>

(***************************************************************************)
(* Startup.  In device mode run_device_startup_policy calls token() and    *)
(* decides; in client_credentials mode the HTTP transport calls token()    *)
(* and the stdio transport serves at once.                                 *)
(***************************************************************************)
StartUp(t) ==
    /\ phase = "down"
    /\ pc[t] = "idle"
    /\ \/ /\ phase' = "starting"
          /\ Goto(t, "read_cache")
       \/ /\ mode = "client_credentials"
          /\ phase' = "serving"
          /\ UNCHANGED pc
    /\ UNCHANGED <<tokenVars, frame, resume, mode, serverVars, history>>

PendingLive == store.pending # None /\ store.pending \notin lapsed

Return(t) ==
    /\ Goto(t, "idle")
    /\ frame' = [frame EXCEPT ![t] = NewFrame]

Restored(t) ==
    /\ phase = "starting"
    /\ pc[t] = "have"
    /\ Return(t)
    /\ phase' = "serving"
    /\ UNCHANGED <<tokenVars, resume, mode, serverVars, history>>

\* ReauthRequired: reload the file and resume an unexpired pending grant.
ResumePending(t) ==
    /\ phase = "starting"
    /\ pc[t] = "failed" /\ frame[t].why = "reauth"
    /\ PendingLive
    /\ Return(t)
    /\ phase' = "serving"
    /\ resume' = [NoPoll EXCEPT !.at = "poll", !.code = store.pending]
    /\ UNCHANGED <<tokenVars, mode, serverVars, history>>

\* The process exits: no pending grant, another error, or the reload fails.
Bail(t) ==
    /\ phase = "starting"
    /\ pc[t] = "failed"
    /\ frame[t].why = "error" \/ ~PendingLive \/ Faults
    /\ Return(t)
    /\ phase' = "down"
    /\ UNCHANGED <<tokenVars, resume, mode, serverVars, history>>

\* Mutant of ResumeApproved: install_tokens seeds the cache without a save.
ResumeApprovedUnsaved ==
    /\ resume.at = "poll" /\ resume.code \in waiting
    /\ waiting' = waiting \ {resume.code}
    /\ \E n \in Pairs :
          /\ Issue(n)
          /\ usable' = usable \cup ({n} \ bare')
          /\ resume' = [resume EXCEPT !.at = "seed", !.pair = n]
    /\ UNCHANGED <<tokenVars, pc, frame, phase, mode, refused, lapsed, history>>

\* The background poll is approved, and install_tokens persists the pair and
\* then seeds the cache, without the lock in between.
ResumeApproved ==
    /\ resume.at = "poll" /\ resume.code \in waiting
    /\ waiting' = waiting \ {resume.code}
    /\ \E n \in Pairs :
          /\ Issue(n)
          /\ usable' = usable \cup ({n} \ bare')
          /\ resume' = [resume EXCEPT !.at = "persist", !.pair = n]
    /\ UNCHANGED <<tokenVars, pc, frame, phase, mode, refused, lapsed, history>>

ResumePersist ==
    /\ resume.at = "persist"
    /\ \/ /\ SaveTokens(resume.pair)
          /\ resume' = [resume EXCEPT !.at = "seed"]
       \/ /\ Faults
          /\ resume' = NoPoll
          /\ UNCHANGED <<store, saved>>
    /\ UNCHANGED <<cache, lock, force_refresh, pc, frame, phase, mode, serverVars, spent>>

ResumeSeed ==
    /\ resume.at = "seed"
    /\ lock = None
    /\ cache' = [pair |-> resume.pair, valid |-> TRUE]
    /\ resume' = NoPoll
    /\ UNCHANGED <<store, lock, force_refresh, pc, frame, phase, mode, serverVars, history>>

\* Denied, expired, or five transient failures: logged, never retried.
ResumeFails ==
    /\ resume.at = "poll"
    /\ resume' = NoPoll
    /\ UNCHANGED <<tokenVars, pc, frame, phase, mode, serverVars, history>>

(***************************************************************************)
(* dispatch_with_resilience, as far as it drives the token manager.        *)
(***************************************************************************)
Dispatch(t) ==
    /\ phase = "serving"
    /\ pc[t] = "idle"
    /\ Goto(t, "read_cache")
    /\ UNCHANGED <<tokenVars, frame, phase, resume, mode, serverVars, history>>

\* Any answer of the API but a 401 that can still trigger a refresh, or the
\* authentication error token() returned, ends the dispatch.
EndDispatch(t) ==
    /\ phase = "serving"
    /\ \/ pc[t] = "failed"
       \/ pc[t] = "have" /\ (frame[t].tok \notin refused \/ frame[t].refreshed)
    /\ Return(t)
    /\ UNCHANGED <<tokenVars, phase, resume, mode, serverVars, history>>

\* The first 401 of a dispatch: refresh_now.
Unauthorized(t) ==
    /\ phase = "serving"
    /\ pc[t] = "have"
    /\ frame[t].tok \in refused
    /\ ~frame[t].refreshed
    /\ Goto(t, "set_force")
    /\ frame' = [frame EXCEPT ![t] = [NewFrame EXCEPT !.refreshed = TRUE,
                                                      !.rejected = frame[t].tok]]
    /\ UNCHANGED <<tokenVars, phase, resume, mode, serverVars, history>>

(***************************************************************************)
(* The environment.                                                        *)
(***************************************************************************)
\* The API stops accepting an access token: expiry, password change, unlink.
RefuseAccess(p) ==
    /\ p \in issued \ refused
    /\ refused' = refused \cup {p}
    /\ UNCHANGED <<tokenVars, taskVars, issued, usable, bare, waiting, lapsed, history>>

\* The authorization server stops honouring a refresh token.
RefuseRefresh(p) ==
    /\ p \in usable
    /\ usable' = usable \ {p}
    /\ UNCHANGED <<tokenVars, taskVars, issued, bare, refused, waiting, lapsed, history>>

\* The user denies a grant, or its lifetime ends.
GrantEnds(c) ==
    /\ c \notin lapsed
    /\ c \in waiting \/ c = store.pending
    /\ waiting' = waiting \ {c}
    /\ lapsed' \in {lapsed, lapsed \cup {c}}
    /\ UNCHANGED <<tokenVars, taskVars, issued, usable, bare, refused, history>>

\* Time passes for the cached entry (Instant) and for the file (epoch).
CacheAges ==
    /\ cache.valid
    /\ cache' = [cache EXCEPT !.valid = FALSE]
    /\ UNCHANGED <<store, lock, force_refresh, taskVars, serverVars, history>>

StoreAges ==
    /\ store.tokens # None /\ store.age # "old"
    /\ store' = [store EXCEPT !.age = IF @ = "live" THEN "expired" ELSE "old"]
    /\ UNCHANGED <<cache, lock, force_refresh, taskVars, serverVars, history>>

\* The process is killed, or stops.  Only the file survives.
Crash ==
    /\ phase # "down"
    /\ cache' = NoCache
    /\ lock' = None
    /\ force_refresh' = FALSE
    /\ pc' = [t \in Tasks |-> "idle"]
    /\ frame' = [t \in Tasks |-> NewFrame]
    /\ phase' = "down"
    /\ resume' = NoPoll
    /\ UNCHANGED <<store, mode, serverVars, history>>

(***************************************************************************)
(* Specification.                                                          *)
(***************************************************************************)
Token(t) ==
    \/ ReadCache(t) \/ WriteLock(t) \/ Seed(t) \/ Fetch(t)
    \/ TakeForce(t) \/ Load(t)
    \/ GrantRotates(t) \/ GrantRejected(t) \/ GrantTransient(t)
    \/ Reload(t) \/ Wipe(t) \/ Persist(t)

Caller(t) ==
    \/ StartUp(t) \/ Restored(t) \/ ResumePending(t) \/ Bail(t)
    \/ Dispatch(t) \/ EndDispatch(t) \/ Unauthorized(t)
    \/ RefreshNow(t)

Resume == ResumeApproved \/ ResumePersist \/ ResumeSeed \/ ResumeFails

Environment ==
    \/ \E p \in Pairs : RefuseAccess(p) \/ RefuseRefresh(p)
    \/ \E c \in Codes : GrantEnds(c)
    \/ CacheAges \/ StoreAges

Next ==
    \/ \E t \in Tasks : Token(t) \/ Caller(t)
    \/ Resume
    \/ Environment
    \/ Crash

Spec == Init /\ [][Next]_vars

(***************************************************************************)
(* Fairness.  tokio schedules every ready task and its RwLock queues        *)
(* waiters first in, first out, so a task that waits for the lock is not    *)
(* passed over for ever (SF); the token endpoint is assumed to answer or    *)
(* the connection to break (the client has no timeout of its own).          *)
(***************************************************************************)
LockStep(t) == Invalidate(t) \/ ReadCache(t) \/ WriteLock(t)

OwnStep(t) ==
    \/ Seed(t) \/ Fetch(t) \/ TakeForce(t) \/ Load(t)
    \/ GrantRotates(t) \/ GrantRejected(t) \/ GrantTransient(t)
    \/ Reload(t) \/ Wipe(t) \/ Persist(t)
    \/ Restored(t) \/ ResumePending(t) \/ Bail(t)
    \/ EndDispatch(t) \/ Unauthorized(t) \/ SetForce(t)

Fairness == \A t \in Tasks : SF_vars(LockStep(t)) /\ WF_vars(OwnStep(t))

FairSpec == Spec /\ Fairness

(***************************************************************************)
(* Properties.                                                             *)
(***************************************************************************)
\* token(): the write lock makes resolution single flight.  Whoever is past
\* it holds it, so no two tasks present a refresh token at the same time.
SingleFlight ==
    \A t \in Tasks : pc[t] \in Locked <=> lock = t

\* resolve_device_token: "disk goes first".  No token reaches the cache or a
\* caller unless its pair has been in the file.
PersistedBeforeUse ==
    mode = "device" =>
        /\ cache.pair # None => cache.pair \in saved
        /\ \A t \in Tasks : pc[t] = "have" => frame[t].tok \in saved

\* A refresh token whose successor this process has persisted is never
\* presented again, whatever the interleaving of callers, crashes and the
\* background resume.
NoDoubleSpend ==
    \A t \in Tasks : pc[t] \in {"grant", "retry_grant"} => frame[t].rt \notin spent

\* resolve_device_token clears the file only when the refresh token in it is
\* dead: never on a transient answer, never a pair that could still be used.
WipesOnlyDeadPair ==
    [][store.tokens # None /\ store'.tokens = None
        => store.tokens \notin usable]_vars

\* ReauthRequired is answered only when the file offers no refresh token that
\* the 89-day heuristic admits and the server still honours.
ReauthOnlyWhenNeeded ==
    [][\A t \in Tasks :
          frame[t].why = "none" /\ frame'[t].why = "reauth"
            => store.tokens \notin usable \/ store.age = "old"]_vars

\* refresh_now: after a 401 the caller is not handed the rejected token again
\* unless a forced resolution that ran since ended without a new pair.
FreshAfter401 ==
    \A t \in Tasks :
        pc[t] = "have" /\ frame[t].rejected # None
            => frame[t].tok # frame[t].rejected \/ frame[t].excused

\* resolve_device_token: "exactly one resolution honors" the flag.  A flag
\* that is set has a refresh_now caller still on its way to consume it, so
\* none is left over to force a rotation nobody asked for.  (As FreshAfter401,
\* this holds while no background poll seeds the cache behind the lock.)
FlagHasTaker ==
    mode = "device" /\ force_refresh =>
        \E t \in Tasks : /\ frame[t].refreshed
                         /\ pc[t] \in {"invalidate", "read_cache",
                                       "write_lock", "take_force"}

\* Every call of token() and refresh_now() ends, with a token or an error,
\* unless the process is killed first.
ResolutionEnds ==
    \A t \in Tasks :
        pc[t] \in {"set_force", "read_cache"} ~> pc[t] \in {"have", "failed", "idle"}
=============================================================================
