----------------------------- MODULE RateBudget -----------------------------
(***************************************************************************)
(* The client-side request budget shared by every dispatch of the process  *)
(* (RateBudget in src/resilience.rs): a ring of per-second counters behind *)
(* a mutex, and acquire(), which polls it until its deadline.              *)
(*                                                                         *)
(* A counter is represented by the set of requests it counts, so that what *)
(* the ring holds can be compared with what was granted when.  The mutex   *)
(* section of acquire() is one action; the 50 ms sleep between attempts    *)
(* lets any number of ticks pass, late wake-ups included.                  *)
(***************************************************************************)
EXTENDS Integers, FiniteSets

CONSTANTS
    Requests,        \* calls of acquire()
    Cap,             \* rate_limit_rpm
    WINDOW_BUCKETS,  \* seconds in a minute (60 in the code)
    TicksPerSecond,  \* resolution of the clock
    AcquireWait,     \* acquire_wait in ticks: a little more than a second
    Start,           \* clock readings, in ticks, at which the process starts
    MaxTick          \* bound on the clock

ASSUME BudgetAssumption ==
    /\ IsFiniteSet(Requests)
    /\ Cap \in Nat \ {0}
    /\ WINDOW_BUCKETS \in Nat \ {0}
    /\ TicksPerSecond \in Nat \ {0}
    /\ AcquireWait \in Nat
    /\ Start \subseteq Nat
    /\ MaxTick \in Nat

VARIABLES
    now,          \* the clock, in ticks
    buckets,      \* the ring: bucket i counts second s with s % 60 = i
    last_second,  \* BudgetState::last_second
    status,       \* of each call of acquire()
    deadline,     \* of each call of acquire(), 0 when it has returned
    grantedAt     \* history: the second in which a request was granted

vars == <<now, buckets, last_second, status, deadline, grantedAt>>

None == -1
Slots == 0 .. WINDOW_BUCKETS - 1

epoch_second == now \div TicksPerSecond
minute_of(s) == s \div WINDOW_BUCKETS

\* The ring is never dated ahead of the clock, whose readings only grow here.
TypeOK ==
    /\ now \in Nat
    /\ buckets \in [Slots -> SUBSET Requests]
    /\ last_second \in 0 .. epoch_second
    /\ status \in [Requests -> {"idle", "waiting", "granted", "exceeded"}]
    /\ deadline \in [Requests -> Nat]
    /\ grantedAt \in [Requests -> Nat \cup {None}]

Init ==
    /\ now \in Start
    /\ buckets = [i \in Slots |-> {}]
    /\ last_second = 0
    /\ status = [r \in Requests |-> "idle"]
    /\ deadline = [r \in Requests |-> 0]
    /\ grantedAt = [r \in Requests |-> None]

bucket_index(s) == s % WINDOW_BUCKETS

\* Mutant of advance: no reset when the minute changes.
advance_no_reset(ring, last, s) ==
    [i \in Slots |-> IF s > last /\ bucket_index(last) < i /\ i < bucket_index(s)
                     THEN {} ELSE ring[i]]

\* The ring as of second s: emptied when the minute changed, otherwise
\* cleared strictly between the last second's bucket and this one's.
advance(ring, last, s) ==
    IF s <= last THEN ring
    ELSE [i \in Slots |->
            IF \/ minute_of(s) # minute_of(last)
               \/ bucket_index(last) < i /\ i < bucket_index(s)
            THEN {} ELSE ring[i]]

counted(ring) == UNION {ring[i] : i \in Slots}

window_total(ring) == Cardinality(counted(ring))

Call(r) ==
    /\ status[r] = "idle"
    /\ now + AcquireWait <= MaxTick
    /\ status' = [status EXCEPT ![r] = "waiting"]
    /\ deadline' = [deadline EXCEPT ![r] = now + AcquireWait]
    /\ UNCHANGED <<now, buckets, last_second, grantedAt>>

\* One pass of the loop in acquire().
Rotated == advance(buckets, last_second, epoch_second)

\* Mutant of Rotate: the ring is dated one second ahead.
RotateAhead == last_second' = epoch_second + 1

Rotate == last_second' = IF epoch_second > last_second THEN epoch_second ELSE last_second

\* Mutants of HasRoom: one request too many, one too few.
HasRoomForOneMore == window_total(Rotated) <= Cap
HasRoomForOneLess == window_total(Rotated) < Cap - 1

HasRoom == window_total(Rotated) < Cap

\* Mutant of Acquired: the request goes out but is not counted.
AcquiredUncounted(r) ==
    /\ status[r] = "waiting"
    /\ HasRoom
    /\ Rotate
    /\ buckets' = Rotated
    /\ status' = [status EXCEPT ![r] = "granted"]
    /\ grantedAt' = [grantedAt EXCEPT ![r] = epoch_second]
    /\ deadline' = [deadline EXCEPT ![r] = 0]
    /\ UNCHANGED now

Acquired(r) ==
    /\ status[r] = "waiting"
    /\ HasRoom
    /\ Rotate
    /\ buckets' = [Rotated EXCEPT ![bucket_index(epoch_second)] = @ \cup {r}]
    /\ status' = [status EXCEPT ![r] = "granted"]
    /\ grantedAt' = [grantedAt EXCEPT ![r] = epoch_second]
    /\ deadline' = [deadline EXCEPT ![r] = 0]
    /\ UNCHANGED now

\* The window is full: sleep and try again, or give up after the deadline.
Retry(r) ==
    /\ status[r] = "waiting"
    /\ ~HasRoom
    /\ now < deadline[r]
    /\ Rotate
    /\ buckets' = Rotated
    /\ UNCHANGED <<now, status, deadline, grantedAt>>

\* Mutant of Exceeded: the call sleeps once more, whatever the deadline.
ExceededNever(r) == Retry(r) /\ now > deadline[r]

Exceeded(r) ==
    /\ status[r] = "waiting"
    /\ ~HasRoom
    /\ now >= deadline[r]
    /\ Rotate
    /\ buckets' = Rotated
    /\ status' = [status EXCEPT ![r] = "exceeded"]
    /\ deadline' = [deadline EXCEPT ![r] = 0]
    /\ UNCHANGED <<now, grantedAt>>

Tick ==
    /\ now < MaxTick
    /\ now' = now + 1
    /\ UNCHANGED <<buckets, last_second, status, deadline, grantedAt>>

Attempt(r) == Acquired(r) \/ Retry(r) \/ Exceeded(r)

Next == Tick \/ \E r \in Requests : Call(r) \/ Attempt(r)

Spec == Init /\ [][Next]_vars

\* The clock goes on, and a sleeping call is woken: past its deadline, the
\* attempt that follows ends it one way or the other.
FairSpec == Spec /\ WF_vars(Tick)
                 /\ \A r \in Requests : WF_vars(Acquired(r) \/ Exceeded(r))

(***************************************************************************)
(* Properties.                                                             *)
(***************************************************************************)
\* The requests granted in one minute of the clock.
GrantedIn(m) == {r \in Requests : grantedAt[r] # None /\ minute_of(grantedAt[r]) = m}

\* acquire(): no minute of the clock sees more than Cap grants, whatever the
\* order in which callers wake up and however late.
CapPerMinute ==
    \A r \in Requests :
        grantedAt[r] # None => Cardinality(GrantedIn(minute_of(grantedAt[r]))) <= Cap

\* Each bucket holds the grants of its second of the current minute, no others:
\* no call is counted twice, forgotten early or carried into the next minute.
BucketsAreExact ==
    \A i \in Slots :
        buckets[i] = {r \in GrantedIn(minute_of(last_second)) :
                         bucket_index(grantedAt[r]) = i}

\* A call fails only when this very minute has used up the cap: no stale count
\* of an earlier minute, nor of a call that was refused, holds anyone up.
RefusedOnlyWhenFull ==
    [][\A r \in Requests :
          status[r] = "waiting" /\ status'[r] = "exceeded"
            => Cardinality(GrantedIn(minute_of(epoch_second))) >= Cap]_vars

\* Every call of acquire() ends.
AcquireEnds ==
    \A r \in Requests : status[r] = "waiting" ~> status[r] \in {"granted", "exceeded"}

\* The ring implements the quota per clock minute.
Quota == INSTANCE MinuteQuota
         WITH minute <- minute_of(last_second), used <- counted(buckets)

ImplementsQuota == Quota!QuotaSpec
=============================================================================
