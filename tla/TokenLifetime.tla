--------------------------- MODULE TokenLifetime ---------------------------
(***************************************************************************)
(* How long an access token is handed out: CachedToken::is_valid, the      *)
(* lifetimes that token() and resolve_device_token work out, and           *)
(* clamp_expires_in (src/auth/mod.rs), on the clocks they read.            *)
(*                                                                         *)
(* The cache compares Instants, which stop while the host is suspended and *)
(* mean nothing to the next process; the file compares epoch seconds       *)
(* (epoch_now), which may be set.  The server counts real seconds.  This   *)
(* is the device flow without its 401s and failures, which AllegroAuth     *)
(* has: a resolution is one step here.                                     *)
(***************************************************************************)
EXTENDS Naturals

CONSTANTS
    GUARD,          \* 60 s: the least a token must have left
    MIN_LIFETIME,   \* 120 s: clamp_expires_in
    Lifetimes,      \* what expires_in may say
    Jumps,          \* how far the epoch clock may be set forward or back
    Horizon         \* bound on the time that passes

ASSUME LifetimeAssumption ==
    /\ GUARD \in Nat \ {0}
    /\ MIN_LIFETIME \in Nat
    /\ GUARD < MIN_LIFETIME /\ MIN_LIFETIME <= 2 * GUARD
    /\ Lifetimes \subseteq Nat
    /\ Jumps \subseteq Nat
    /\ Horizon \in Nat

VARIABLES
    real,       \* the server's clock
    instant,    \* the process's monotonic clock
    epoch,      \* the host's epoch clock
    cached,     \* the cached token
    stored,     \* the token of the file
    handed,     \* the token that token() has just returned
    fetched,    \* history: when the newest token was issued
    steady      \* history: the clocks have agreed since it was issued

lifetimeVars == <<real, instant, epoch, cached, stored, handed, fetched, steady>>

\* A token with the server's time of death, the lifetime it was issued with,
\* and the end of its life as whoever keeps it sees it.
NoToken == [dies |-> 0, life |-> 0, ends |-> 0]

IsToken == [dies : Nat, life : Nat, ends : Nat]

LifetimeTypeOK ==
    /\ real \in Nat /\ instant \in Nat /\ epoch \in Nat
    /\ cached \in IsToken /\ stored \in IsToken /\ handed \in IsToken
    /\ fetched \in Nat
    /\ steady \in BOOLEAN

\* The epoch begins well above 0, so that the clock can be set back.
LifetimeInit ==
    /\ real = 0 /\ instant = 0 /\ epoch = 2 * MIN_LIFETIME
    /\ cached = NoToken /\ stored = NoToken /\ handed = NoToken
    /\ fetched = 0
    /\ steady = TRUE

\* clamp_expires_in, and its mutants: nothing is clamped, too much is.
Unclamped(n) == n
ClampedHigh(n) == IF n < 4 * MIN_LIFETIME THEN 4 * MIN_LIFETIME ELSE n
Clamped(n) == IF n < MIN_LIFETIME THEN MIN_LIFETIME ELSE n

\* CachedToken::is_valid: more than GUARD seconds are left.
CacheValid == cached.ends > instant + GUARD

\* now < expires_at_epoch.saturating_sub(60).
StoreValid == stored.ends > GUARD /\ epoch < stored.ends - GUARD

\* The cache keeps whatever is handed out for the lifetime it is given.
HandOut(t, effective) ==
    /\ cached' = [t EXCEPT !.ends = instant + effective]
    /\ handed' = t

\* token() finds the cached token valid.
FromCache ==
    /\ CacheValid
    /\ handed' = cached
    /\ UNCHANGED <<real, instant, epoch, cached, stored, fetched, steady>>

\* The file's token is alive: its remaining seconds are clamped once more.
FromStore ==
    /\ ~CacheValid /\ StoreValid
    /\ HandOut(stored, Clamped(stored.ends - epoch))
    /\ UNCHANGED <<real, instant, epoch, stored, fetched, steady>>

\* A grant gives a token of lifetime n; it is saved, then cached.
FromGrant(n) ==
    /\ ~CacheValid /\ ~StoreValid
    /\ LET t == [dies |-> real + n, life |-> n, ends |-> epoch + Clamped(n)]
       IN  stored' = t /\ HandOut(t, Clamped(n))
    /\ fetched' = real
    /\ steady' = TRUE
    /\ UNCHANGED <<real, instant, epoch>>

\* A second passes everywhere, or only outside a suspended host.
Tick ==
    /\ real < Horizon
    /\ real' = real + 1 /\ instant' = instant + 1 /\ epoch' = epoch + 1
    /\ handed' = NoToken
    /\ UNCHANGED <<cached, stored, fetched, steady>>

Suspend ==
    /\ real < Horizon
    /\ real' = real + 1 /\ epoch' = epoch + 1
    /\ handed' = NoToken
    /\ steady' = FALSE
    /\ UNCHANGED <<instant, cached, stored, fetched>>

\* Within that second the host's clock is set.
SetClock(n) ==
    /\ real < Horizon /\ steady
    /\ real' = real + 1 /\ instant' = instant + 1
    /\ epoch' \in {epoch + n} \cup (IF epoch >= n THEN {epoch - n} ELSE {})
    /\ handed' = NoToken
    /\ steady' = FALSE
    /\ UNCHANGED <<cached, stored, fetched>>

\* A new process: the file is all it has.
Restart ==
    /\ cached' = NoToken
    /\ handed' = NoToken
    /\ UNCHANGED <<real, instant, epoch, stored, fetched, steady>>

Resolve == FromCache \/ FromStore \/ \E n \in Lifetimes : FromGrant(n)

LifetimeNext == Resolve \/ Tick \/ Suspend \/ Restart \/ \E n \in Jumps : SetClock(n)

LifetimeSpec == LifetimeInit /\ [][LifetimeNext]_lifetimeVars

(***************************************************************************)
(* Properties.                                                             *)
(***************************************************************************)
\* token(): while the clocks agree, however often the process is restarted, a
\* token of at least MIN_LIFETIME is alive whenever it is handed out.  The
\* clamp keeps a nearly dead stored token for GUARD seconds and no longer,
\* because MIN_LIFETIME <= 2 * GUARD.
NeverHandedOutDead ==
    steady /\ handed # NoToken /\ handed.life >= MIN_LIFETIME => real < handed.dies

\* clamp_expires_in: whatever lifetimes the server gives, two grants are at
\* least MIN_LIFETIME - GUARD apart while the clocks agree, over restarts too.
NoRefreshLoop ==
    [][stored' # stored /\ stored # NoToken /\ steady
           => real >= fetched + (MIN_LIFETIME - GUARD)]_lifetimeVars
=============================================================================
