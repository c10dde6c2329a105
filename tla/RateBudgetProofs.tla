-------------------------- MODULE RateBudgetProofs --------------------------
(* Theorems about RateBudget, for every cap, clock and set of requests.     *)
EXTENDS RateBudget, FiniteSetTheorems, TLAPS

(***************************************************************************)
(* Seconds, minutes and buckets.                                           *)
(***************************************************************************)
\* A second lies in one bucket of one minute, and the ring repeats every minute.
LEMMA SecondsOfMinutes ==
  ASSUME NEW s \in Nat
  PROVE  /\ minute_of(s) \in Nat
         /\ bucket_index(s) \in Slots
         /\ s = WINDOW_BUCKETS * minute_of(s) + bucket_index(s)
<1> WINDOW_BUCKETS \in Nat \ {0}
  BY BudgetAssumption
<1> QED
  BY DEF minute_of, bucket_index, Slots

\* Within a minute, later seconds have later buckets.
LEMMA BucketsInOrder ==
  ASSUME NEW s \in Nat, NEW l \in Nat, l <= s, minute_of(l) = minute_of(s)
  PROVE  bucket_index(l) <= bucket_index(s)
<1> DEFINE m == WINDOW_BUCKETS * minute_of(s)
<1>1. s = m + bucket_index(s) /\ l = m + bucket_index(l)
  BY SecondsOfMinutes
<1>2. bucket_index(s) \in Int /\ bucket_index(l) \in Int /\ m \in Int
  BY SecondsOfMinutes, BudgetAssumption DEF Slots
<1> HIDE DEF m
<1> QED
  BY <1>1, <1>2

\* Minutes do not go back.
LEMMA MinutesInOrder ==
  ASSUME NEW s \in Nat, NEW l \in Nat, l <= s
  PROVE  minute_of(l) <= minute_of(s)
<1> DEFINE B == WINDOW_BUCKETS
           a == minute_of(l)
           b == minute_of(s)
<1>1. /\ B \in Nat \ {0} /\ a \in Nat /\ b \in Nat
      /\ bucket_index(s) \in 0 .. B - 1 /\ bucket_index(l) \in 0 .. B - 1
  BY SecondsOfMinutes, BudgetAssumption DEF Slots
<1>2. B * a + bucket_index(l) <= B * b + bucket_index(s)
  BY SecondsOfMinutes
<1>3. SUFFICES ASSUME b + 1 <= a PROVE FALSE
  BY <1>1
<1>4. B * (b + 1) <= B * a
  <2> HIDE DEF B, a, b
  <2>1. PICK k \in Nat : a = b + 1 + k
    <3>1. a - (b + 1) \in Nat /\ a = b + 1 + (a - (b + 1))
      BY <1>1, <1>3
    <3> QED
      BY <3>1
  <2>2. B * a = B * (b + 1) + B * k /\ B * k \in Nat /\ B * (b + 1) \in Nat
    BY <2>1, <1>1
  <2> QED
    BY <2>2
<1>5. B * (b + 1) = B * b + B /\ B * b \in Nat /\ B * a \in Nat
  BY <1>1
<1> HIDE DEF B, a, b
<1> QED
  BY <1>1, <1>2, <1>4, <1>5

(***************************************************************************)
(* The inductive invariant: the ring is exactly the grants of the minute   *)
(* it is dated in, and no grant is later than that date.                   *)
(***************************************************************************)
GrantsAreDated == \A r \in Requests : grantedAt[r] # None => grantedAt[r] <= last_second

OnlyReturnedAreGranted == \A r \in Requests : grantedAt[r] # None => status[r] = "granted"

WithinCap == \A m \in Nat : Cardinality(GrantedIn(m)) <= Cap

IInv ==
    /\ TypeOK
    /\ GrantsAreDated
    /\ OnlyReturnedAreGranted
    /\ BucketsAreExact
    /\ WithinCap

\* The clock's second is a number.
LEMMA EpochSecond == ASSUME now \in Nat PROVE epoch_second \in Nat
  BY BudgetAssumption DEF epoch_second

\* The grants of one minute are a finite set.
LEMMA GrantedInFinite ==
  ASSUME NEW m PROVE GrantedIn(m) \subseteq Requests /\ IsFiniteSet(GrantedIn(m))
<1>1. GrantedIn(m) \subseteq Requests
  BY DEF GrantedIn
<1> QED
  BY <1>1, FS_Subset, BudgetAssumption

\* An exact ring counts the grants of its minute.
LEMMA CountedIsGranted ==
  ASSUME TypeOK, BucketsAreExact
  PROVE  counted(buckets) = GrantedIn(minute_of(last_second))
<1> DEFINE G == GrantedIn(minute_of(last_second))
<1>1. counted(buckets) \subseteq G
  BY DEF BucketsAreExact, counted
<1>2. ASSUME NEW r \in G PROVE r \in counted(buckets)
  <2>1. r \in Requests /\ grantedAt[r] # None /\ grantedAt[r] \in Nat
    BY <1>2 DEF GrantedIn, TypeOK
  <2>2. bucket_index(grantedAt[r]) \in Slots
    BY <2>1, SecondsOfMinutes
  <2>3. r \in buckets[bucket_index(grantedAt[r])]
    BY <2>2, <1>2 DEF BucketsAreExact
  <2> QED
    BY <2>2, <2>3 DEF counted
<1> QED
  BY <1>1, <1>2

\* Rotating an exact ring to second s makes it the exact ring of s.
LEMMA RotationIsExact ==
  ASSUME IInv
  PROVE  /\ Rotated \in [Slots -> SUBSET Requests]
         /\ \A i \in Slots :
               Rotated[i] = {r \in GrantedIn(minute_of(epoch_second)) :
                                bucket_index(grantedAt[r]) = i}
<1> DEFINE s == epoch_second
           l == last_second
<1>1. s \in Nat /\ l \in Nat /\ l <= s
  BY EpochSecond DEF IInv, TypeOK
<1>2. buckets \in [Slots -> SUBSET Requests]
  BY DEF IInv, TypeOK
<1>3. \A i \in Slots : buckets[i] = {r \in GrantedIn(minute_of(l)) :
                                        bucket_index(grantedAt[r]) = i}
  BY DEF IInv, BucketsAreExact
<1>4. \A r \in Requests : grantedAt[r] # None => grantedAt[r] \in Nat /\ grantedAt[r] <= l
  BY DEF IInv, TypeOK, GrantsAreDated
<1>5. CASE s <= l
  <2>1. epoch_second = last_second
    BY <1>1, <1>5
  <2>2. Rotated = buckets
    BY <1>5 DEF Rotated, advance
  <2> QED
    BY <1>2, <1>3, <2>1, <2>2
<1>6. CASE s > l /\ minute_of(s) # minute_of(l)
  <2>1. Rotated = [i \in Slots |-> {}]
    BY <1>1, <1>6 DEF Rotated, advance
  <2>2. ASSUME NEW r \in GrantedIn(minute_of(s)) PROVE FALSE
    <3>1. r \in Requests /\ grantedAt[r] # None /\ minute_of(grantedAt[r]) = minute_of(s)
      BY <2>2 DEF GrantedIn
    <3>2. minute_of(grantedAt[r]) <= minute_of(l) /\ minute_of(l) <= minute_of(s)
      BY <3>1, <1>1, <1>4, MinutesInOrder
    <3>3. minute_of(l) \in Nat /\ minute_of(s) \in Nat
      BY <1>1, SecondsOfMinutes
    <3> QED
      BY ONLY <3>1, <3>2, <3>3, <1>6
  <2> QED
    BY <2>1, <2>2
<1>7. CASE s > l /\ minute_of(s) = minute_of(l)
  <2>1. Rotated = [i \in Slots |-> IF bucket_index(l) < i /\ i < bucket_index(s)
                                   THEN {} ELSE buckets[i]]
    BY <1>1, <1>7 DEF Rotated, advance
  <2>2. ASSUME NEW i \in Slots, bucket_index(l) < i,
               NEW r \in GrantedIn(minute_of(s)), bucket_index(grantedAt[r]) = i
        PROVE  FALSE
    <3>1. r \in Requests /\ grantedAt[r] # None /\ minute_of(grantedAt[r]) = minute_of(s)
      BY <2>2 DEF GrantedIn
    <3>2. grantedAt[r] \in Nat /\ grantedAt[r] <= l
      BY <3>1, <1>4
    <3>3. bucket_index(grantedAt[r]) <= bucket_index(l)
      BY <3>1, <3>2, <1>1, <1>7, BucketsInOrder
    <3>4. bucket_index(grantedAt[r]) \in Int /\ bucket_index(l) \in Int
      BY <3>2, <1>1, SecondsOfMinutes DEF Slots
    <3> QED
      BY <3>3, <3>4, <2>2
  <2>3. \A i \in Slots : bucket_index(l) < i =>
           {r \in GrantedIn(minute_of(s)) : bucket_index(grantedAt[r]) = i} = {}
    BY <2>2
  <2>4. Rotated \in [Slots -> SUBSET Requests]
    BY <2>1, <1>2
  <2>5. ASSUME NEW i \in Slots
        PROVE  Rotated[i] = {r \in GrantedIn(minute_of(s)) : bucket_index(grantedAt[r]) = i}
    <3>1. CASE bucket_index(l) < i /\ i < bucket_index(s)
      BY <2>1, <2>3, <3>1
    <3>2. CASE ~(bucket_index(l) < i /\ i < bucket_index(s))
      BY <2>1, <1>3, <1>7, <3>2
    <3> QED
      BY <3>1, <3>2
  <2> QED
    BY <2>4, <2>5
<1> QED
  BY <1>1, <1>5, <1>6, <1>7

\* The total that acquire() compares with the cap.
LEMMA RotatedTotal ==
  ASSUME IInv
  PROVE  counted(Rotated) = GrantedIn(minute_of(epoch_second))
<1> DEFINE s == epoch_second
<1>1. \A i \in Slots : Rotated[i] = {r \in GrantedIn(minute_of(s)) :
                                        bucket_index(grantedAt[r]) = i}
  BY RotationIsExact
<1>2. counted(Rotated) \subseteq GrantedIn(minute_of(s))
  BY <1>1 DEF counted
<1>3. ASSUME NEW r \in GrantedIn(minute_of(s)) PROVE r \in counted(Rotated)
  <2>1. r \in Requests /\ grantedAt[r] # None /\ grantedAt[r] \in Nat
    BY <1>3 DEF GrantedIn, IInv, TypeOK
  <2>2. bucket_index(grantedAt[r]) \in Slots
    BY <2>1, SecondsOfMinutes
  <2>3. r \in Rotated[bucket_index(grantedAt[r])]
    BY <2>2, <1>1
  <2> QED
    BY <2>2, <2>3 DEF counted
<1> QED
  BY <1>2, <1>3

\* Dating the ring leaves it no later than the clock.
LEMMA RotateDates ==
  ASSUME IInv, Rotate
  PROVE  last_second' = epoch_second /\ epoch_second \in Nat /\ last_second <= epoch_second
<1>1. epoch_second \in Nat
  BY EpochSecond DEF IInv, TypeOK
<1> QED
  BY <1>1 DEF IInv, TypeOK, Rotate

\* The invariant holds of a new budget.
LEMMA InitIInv == Init => IInv
<1> SUFFICES ASSUME Init PROVE IInv
  OBVIOUS
<1>1. TypeOK
  <2>1. now \in Nat /\ epoch_second \in Nat
    BY EpochSecond, BudgetAssumption DEF Init
  <2> QED
    BY <2>1 DEF Init, TypeOK, None
<1>2. \A m \in Nat : GrantedIn(m) = {}
  BY DEF Init, GrantedIn
<1>3. BucketsAreExact
  <2>1. minute_of(last_second) \in Nat
    BY SecondsOfMinutes DEF Init
  <2> QED
    BY <1>2, <2>1 DEF Init, BucketsAreExact
<1>4. WithinCap
  BY <1>2, FS_EmptySet, BudgetAssumption DEF WithinCap
<1> QED
  BY <1>1, <1>3, <1>4 DEF Init, IInv, GrantsAreDated, OnlyReturnedAreGranted

\* What an attempt that grants does to the sets the invariant speaks of.
LEMMA GrantCounts ==
  ASSUME IInv, NEW r \in Requests, Acquired(r)
  PROVE  /\ r \notin GrantedIn(minute_of(epoch_second))
         /\ grantedAt' = [grantedAt EXCEPT ![r] = epoch_second]
         /\ \A m : GrantedIn(m)' = IF m = minute_of(epoch_second)
                                   THEN GrantedIn(m) \cup {r} ELSE GrantedIn(m)
<1>1. grantedAt[r] = None
  BY DEF IInv, OnlyReturnedAreGranted, Acquired
<1>2. epoch_second \in Nat /\ epoch_second # None
  BY EpochSecond DEF IInv, TypeOK, None
<1>3. grantedAt' = [grantedAt EXCEPT ![r] = epoch_second]
      /\ grantedAt \in [Requests -> Nat \cup {None}]
  BY DEF Acquired, IInv, TypeOK
<1>4. grantedAt'[r] = epoch_second /\ \A q \in Requests \ {r} : grantedAt'[q] = grantedAt[q]
  BY <1>3
<1> QED
  BY <1>1, <1>2, <1>3, <1>4 DEF GrantedIn, minute_of

\* A grant keeps the invariant.
LEMMA AcquiredKeepsIInv ==
  ASSUME IInv, NEW r \in Requests, Acquired(r)
  PROVE  IInv'
<1> DEFINE s == epoch_second
<1>1. last_second' = s /\ s \in Nat /\ last_second <= s /\ now' = now
  BY RotateDates DEF Acquired
<1>2. epoch_second' = s
  BY <1>1 DEF epoch_second
<1>3. /\ grantedAt' = [grantedAt EXCEPT ![r] = s]
      /\ grantedAt \in [Requests -> Nat \cup {None}]
      /\ grantedAt'[r] = s
      /\ \A q \in Requests \ {r} : grantedAt'[q] = grantedAt[q]
  BY GrantCounts DEF IInv, TypeOK
<1>4. bucket_index(s) \in Slots /\ minute_of(s) \in Nat
  BY <1>1, SecondsOfMinutes
<1>5. /\ buckets' = [Rotated EXCEPT ![bucket_index(s)] = @ \cup {r}]
      /\ Rotated \in [Slots -> SUBSET Requests]
      /\ \A i \in Slots : Rotated[i] = {q \in GrantedIn(minute_of(s)) :
                                           bucket_index(grantedAt[q]) = i}
  BY RotationIsExact DEF Acquired
<1>6. TypeOK'
  <2>1. buckets' \in [Slots -> SUBSET Requests]
    BY <1>4, <1>5
  <2>2. last_second' \in 0 .. epoch_second'
    BY <1>1, <1>2
  <2>3. status' \in [Requests -> {"idle", "waiting", "granted", "exceeded"}]
        /\ deadline' \in [Requests -> Nat]
    BY DEF Acquired, IInv, TypeOK
  <2>4. grantedAt' \in [Requests -> Nat \cup {None}]
    BY <1>1, <1>3
  <2> QED
    BY <1>1, <2>1, <2>2, <2>3, <2>4 DEF IInv, TypeOK
<1>7. GrantsAreDated'
  <2> SUFFICES ASSUME NEW q \in Requests, grantedAt'[q] # None
               PROVE  grantedAt'[q] <= s
    BY <1>1 DEF GrantsAreDated
  <2>1. CASE q = r
    BY <2>1, <1>1, <1>3
  <2>2. CASE q # r
    <3>1. grantedAt[q] \in Nat /\ grantedAt[q] <= last_second /\ last_second \in Nat
      BY <2>2, <1>3 DEF IInv, TypeOK, GrantsAreDated
    <3> QED
      BY <3>1, <2>2, <1>1, <1>3
  <2> QED
    BY <2>1, <2>2
<1>8. OnlyReturnedAreGranted'
  BY <1>3 DEF Acquired, IInv, TypeOK, OnlyReturnedAreGranted
<1>9. BucketsAreExact'
  <2>1. minute_of(last_second)' = minute_of(s)
    BY <1>1 DEF minute_of
  <2>2. GrantedIn(minute_of(last_second))' = GrantedIn(minute_of(s)) \cup {r}
    <3>1. GrantedIn(minute_of(last_second))' =
             {q \in Requests : grantedAt'[q] # None /\ minute_of(grantedAt'[q]) = minute_of(s)}
      BY <2>1 DEF GrantedIn, minute_of
    <3>2. \A m : GrantedIn(m)' =
             {q \in Requests : grantedAt'[q] # None /\ minute_of(grantedAt'[q]) = m}
      BY DEF GrantedIn, minute_of
    <3>3. \A m : m = minute_of(s) => GrantedIn(m)' = GrantedIn(m) \cup {r}
      BY GrantCounts
    <3> QED
      BY <3>1, <3>2, <3>3
  <2>3. r \notin GrantedIn(minute_of(s))
    BY GrantCounts
  <2>4. ASSUME NEW i \in Slots
        PROVE  buckets'[i] = {q \in GrantedIn(minute_of(s)) \cup {r} :
                                 bucket_index(grantedAt'[q]) = i}
    <3>1. \A q \in GrantedIn(minute_of(s)) : grantedAt'[q] = grantedAt[q]
      BY <1>3, <2>3 DEF GrantedIn
    <3>2. CASE i = bucket_index(s)
      <4>1. buckets'[i] = {q \in GrantedIn(minute_of(s)) : bucket_index(grantedAt[q]) = i}
                             \cup {r}
        BY <3>2, <1>4, <1>5
      <4>2. bucket_index(grantedAt'[r]) = i
        BY <3>2, <1>3
      <4> QED
        BY ONLY <4>1, <4>2, <3>1
    <3>3. CASE i # bucket_index(s)
      <4>1. buckets'[i] = {q \in GrantedIn(minute_of(s)) : bucket_index(grantedAt[q]) = i}
        BY <3>3, <1>4, <1>5
      <4>2. bucket_index(grantedAt'[r]) # i
        BY <3>3, <1>3
      <4> HIDE DEF s
      <4> QED
        BY ONLY <4>1, <4>2, <3>1
    <3> QED
      BY <3>2, <3>3
  <2>5. ASSUME NEW i \in Slots
        PROVE  buckets'[i] = {q \in GrantedIn(minute_of(last_second))' :
                                 bucket_index(grantedAt'[q]) = i}
    BY <2>2, <2>4
  <2> QED
    BY <2>5 DEF BucketsAreExact, bucket_index
<1>10. WithinCap'
  <2> SUFFICES ASSUME NEW m \in Nat PROVE Cardinality(GrantedIn(m)') <= Cap
    BY DEF WithinCap
  <2>1. CASE m # minute_of(s)
    BY <2>1, GrantCounts DEF IInv, WithinCap
  <2>2. CASE m = minute_of(s)
    <3>1. Cardinality(GrantedIn(m)) < Cap
      BY <2>2, RotatedTotal DEF Acquired, HasRoom, window_total
    <3>2. GrantedIn(m)' = GrantedIn(m) \cup {r} /\ r \notin GrantedIn(m)
      BY <2>2, GrantCounts
    <3>3. Cardinality(GrantedIn(m)) \in Nat
          /\ Cardinality(GrantedIn(m) \cup {r}) = Cardinality(GrantedIn(m)) + 1
      BY <3>2, GrantedInFinite, FS_AddElement, FS_CardinalityType
    <3> QED
      BY <3>1, <3>2, <3>3, BudgetAssumption
  <2> QED
    BY <2>1, <2>2
<1> QED
  BY <1>6, <1>7, <1>8, <1>9, <1>10 DEF IInv

\* An attempt that is refused only rotates the ring.
LEMMA RefusedKeepsIInv ==
  ASSUME IInv, NEW r \in Requests, Retry(r) \/ Exceeded(r)
  PROVE  IInv'
<1> DEFINE s == epoch_second
<1>1. /\ last_second' = s /\ s \in Nat /\ last_second <= s
      /\ now' = now /\ grantedAt' = grantedAt /\ buckets' = Rotated
  BY RotateDates DEF Retry, Exceeded
<1>2. epoch_second' = s
  BY <1>1 DEF epoch_second
<1>3. \A m : GrantedIn(m)' = GrantedIn(m)
  BY <1>1 DEF GrantedIn, minute_of
<1>4. TypeOK'
  <2>1. buckets' \in [Slots -> SUBSET Requests]
    BY <1>1, RotationIsExact
  <2>2. last_second' \in 0 .. epoch_second'
    BY <1>1, <1>2
  <2>3. status' \in [Requests -> {"idle", "waiting", "granted", "exceeded"}]
        /\ deadline' \in [Requests -> Nat]
    BY DEF Retry, Exceeded, IInv, TypeOK
  <2> QED
    BY <1>1, <2>1, <2>2, <2>3 DEF IInv, TypeOK
<1>5. GrantsAreDated'
  <2> SUFFICES ASSUME NEW q \in Requests, grantedAt[q] # None
               PROVE  grantedAt[q] <= s
    BY <1>1 DEF GrantsAreDated
  <2>1. grantedAt[q] \in Nat /\ grantedAt[q] <= last_second /\ last_second \in Nat
    BY DEF IInv, TypeOK, GrantsAreDated
  <2> QED
    BY <2>1, <1>1
<1>6. OnlyReturnedAreGranted'
  <2>1. status[r] = "waiting" /\ grantedAt[r] = None
    BY DEF Retry, Exceeded, IInv, OnlyReturnedAreGranted
  <2> QED
    BY <2>1, <1>1 DEF Retry, Exceeded, IInv, TypeOK, OnlyReturnedAreGranted
<1>7. BucketsAreExact'
  <2>1. minute_of(last_second)' = minute_of(s)
    BY <1>1 DEF minute_of
  <2>2. GrantedIn(minute_of(last_second))' = GrantedIn(minute_of(s))
    BY <2>1, <1>1 DEF GrantedIn, minute_of
  <2> QED
    BY <2>2, <1>1, RotationIsExact DEF BucketsAreExact, bucket_index
<1>8. WithinCap'
  BY <1>3 DEF IInv, WithinCap
<1> QED
  BY <1>4, <1>5, <1>6, <1>7, <1>8 DEF IInv

\* A new call keeps the invariant.
LEMMA CallKeepsIInv ==
  ASSUME IInv, NEW r \in Requests, Call(r)
  PROVE  IInv'
<1>1. UNCHANGED <<now, buckets, last_second, grantedAt>> /\ now + AcquireWait \in Nat
  BY BudgetAssumption DEF Call, IInv, TypeOK
<1>2. TypeOK'
  BY <1>1 DEF Call, IInv, TypeOK, epoch_second
<1>3. GrantsAreDated' /\ BucketsAreExact' /\ WithinCap'
  BY <1>1 DEF IInv, GrantsAreDated, BucketsAreExact, WithinCap, GrantedIn, minute_of,
              bucket_index
<1>4. OnlyReturnedAreGranted'
  <2>1. status[r] = "idle" /\ grantedAt[r] = None
    BY DEF Call, IInv, OnlyReturnedAreGranted
  <2> QED
    BY <2>1, <1>1 DEF Call, IInv, TypeOK, OnlyReturnedAreGranted
<1> QED
  BY <1>2, <1>3, <1>4 DEF IInv

\* The clock's tick keeps the invariant.
LEMMA TickKeepsIInv ==
  ASSUME IInv, Tick
  PROVE  IInv'
<1>1. now \in Nat /\ now' = now + 1
      /\ UNCHANGED <<buckets, last_second, status, deadline, grantedAt>>
  BY DEF Tick, IInv, TypeOK
<1>2. epoch_second \in Nat /\ epoch_second' \in Nat /\ epoch_second <= epoch_second'
  BY <1>1, BudgetAssumption DEF epoch_second
<1>3. last_second' \in 0 .. epoch_second'
  BY <1>1, <1>2 DEF IInv, TypeOK
<1>4. TypeOK'
  BY <1>1, <1>3 DEF IInv, TypeOK
<1>5. GrantsAreDated' /\ BucketsAreExact' /\ WithinCap' /\ OnlyReturnedAreGranted'
  BY <1>1 DEF IInv, GrantsAreDated, BucketsAreExact, WithinCap, OnlyReturnedAreGranted,
              GrantedIn, minute_of, bucket_index
<1> QED
  BY <1>4, <1>5 DEF IInv

\* Every step keeps the invariant.
LEMMA NextKeepsIInv == IInv /\ [Next]_vars => IInv'
<1> SUFFICES ASSUME IInv, [Next]_vars PROVE IInv'
  OBVIOUS
<1>1. CASE Tick
  BY <1>1, TickKeepsIInv
<1>2. CASE \E r \in Requests : Call(r)
  BY <1>2, CallKeepsIInv
<1>3. CASE \E r \in Requests : Attempt(r)
  BY <1>3, AcquiredKeepsIInv, RefusedKeepsIInv DEF Attempt
<1>4. CASE UNCHANGED vars
  <2>1. UNCHANGED <<now, buckets, last_second, status, deadline, grantedAt>>
    BY <1>4 DEF vars
  <2> QED
    BY <2>1 DEF IInv, TypeOK, GrantsAreDated, BucketsAreExact, WithinCap,
                OnlyReturnedAreGranted, GrantedIn, minute_of, bucket_index, epoch_second
<1> QED
  BY <1>1, <1>2, <1>3, <1>4 DEF Next

(***************************************************************************)
(* The theorems.                                                           *)
(***************************************************************************)
\* The ring, however its rotations interleave with waiting callers, stays exact.
THEOREM Inductive == Spec => []IInv
<1> QED
  BY InitIInv, NextKeepsIInv, PTL DEF Spec

\* RateBudget's state is well-typed, and never dated ahead of the clock.
THEOREM TypeCorrect == Spec => []TypeOK
<1>1. IInv => TypeOK
  BY DEF IInv
<1> QED
  BY <1>1, Inductive, PTL

\* acquire() grants no more than the cap in any minute of the clock.
THEOREM CapPerMinuteHolds == Spec => []CapPerMinute
<1>1. IInv => CapPerMinute
  <2> SUFFICES ASSUME IInv, NEW r \in Requests, grantedAt[r] # None
               PROVE  Cardinality(GrantedIn(minute_of(grantedAt[r]))) <= Cap
    BY DEF CapPerMinute
  <2>1. minute_of(grantedAt[r]) \in Nat
    BY SecondsOfMinutes DEF IInv, TypeOK
  <2> QED
    BY <2>1 DEF IInv, WithinCap
<1> QED
  BY <1>1, Inductive, PTL

\* Each bucket counts exactly the grants of its second of the current minute.
THEOREM BucketsAreExactHolds == Spec => []BucketsAreExact
<1>1. IInv => BucketsAreExact
  BY DEF IInv
<1> QED
  BY <1>1, Inductive, PTL

\* A call gives up only when the minute it gives up in has used the cap.
THEOREM RefusedOnlyWhenFullHolds == Spec => RefusedOnlyWhenFull
<1> DEFINE A == \A r \in Requests :
                  status[r] = "waiting" /\ status'[r] = "exceeded"
                    => Cardinality(GrantedIn(minute_of(epoch_second))) >= Cap
<1>1. IInv /\ [Next]_vars => [A]_vars
  <2> SUFFICES ASSUME IInv, Next, NEW r \in Requests,
                      status[r] = "waiting", status'[r] = "exceeded"
               PROVE  Cardinality(GrantedIn(minute_of(epoch_second))) >= Cap
    OBVIOUS
  <2>1. status \in [Requests -> {"idle", "waiting", "granted", "exceeded"}]
    BY DEF IInv, TypeOK
  <2>2. Exceeded(r)
    BY <2>1 DEF Next, Tick, Call, Attempt, Acquired, Retry, Exceeded
  <2>3. ~(Cardinality(GrantedIn(minute_of(epoch_second))) < Cap)
    BY <2>2, RotatedTotal DEF Exceeded, HasRoom, window_total
  <2>4. Cardinality(GrantedIn(minute_of(epoch_second))) \in Nat
    BY GrantedInFinite, FS_CardinalityType
  <2> QED
    BY <2>3, <2>4, BudgetAssumption
<1>2. Spec => [][A]_vars
  BY <1>1, Inductive, PTL DEF Spec
<1> QED
  BY <1>2 DEF RefusedOnlyWhenFull

(***************************************************************************)
(* The ring implements the quota per clock minute.                         *)
(***************************************************************************)
LEMMA InitMapsToQuota == Init => Quota!QuotaInit
<1> SUFFICES ASSUME Init PROVE minute_of(last_second) = 0 /\ counted(buckets) = {}
  BY DEF Quota!QuotaInit
<1>1. minute_of(last_second) = 0
  BY BudgetAssumption DEF Init, minute_of
<1> QED
  BY <1>1 DEF Init, counted

\* No grant precedes the first attempt of a minute.
LEMMA LaterMinuteIsEmpty ==
  ASSUME IInv, minute_of(epoch_second) # minute_of(last_second)
  PROVE  GrantedIn(minute_of(epoch_second)) = {}
<1> DEFINE s == epoch_second
<1>1. s \in Nat /\ last_second \in Nat /\ last_second <= s
  BY EpochSecond DEF IInv, TypeOK
<1>2. minute_of(s) \in Nat /\ minute_of(last_second) \in Nat
      /\ minute_of(last_second) <= minute_of(s)
  BY <1>1, SecondsOfMinutes, MinutesInOrder
<1> SUFFICES ASSUME NEW r \in GrantedIn(minute_of(s)) PROVE FALSE
  OBVIOUS
<1>3. r \in Requests /\ grantedAt[r] # None /\ minute_of(grantedAt[r]) = minute_of(s)
  BY DEF GrantedIn
<1>4. grantedAt[r] \in Nat /\ grantedAt[r] <= last_second
  BY <1>3 DEF IInv, TypeOK, GrantsAreDated
<1>5. minute_of(grantedAt[r]) <= minute_of(last_second)
  BY <1>1, <1>4, MinutesInOrder
<1> QED
  BY ONLY <1>2, <1>3, <1>5, minute_of(epoch_second) # minute_of(last_second)

\* Every step is a step of the quota or leaves it alone.
LEMMA StepMapsToQuota == IInv /\ IInv' /\ [Next]_vars => [Quota!QuotaNext]_(Quota!qvars)
<1> DEFINE s == epoch_second
           l == last_second
<1> SUFFICES ASSUME IInv, IInv', [Next]_vars
             PROVE  \/ Quota!QuotaNext
                    \/ /\ minute_of(last_second)' = minute_of(last_second)
                       /\ counted(buckets)' = counted(buckets)
  BY DEF Quota!qvars
<1>1. counted(buckets) = GrantedIn(minute_of(l))
  BY CountedIsGranted DEF IInv
<1>2. counted(buckets)' = GrantedIn(minute_of(last_second))'
  <2>1. (TypeOK /\ BucketsAreExact => counted(buckets) = GrantedIn(minute_of(last_second)))'
    BY CountedIsGranted, PTL
  <2> QED
    BY <2>1 DEF IInv
<1>3. CASE UNCHANGED <<buckets, last_second>>
  BY <1>3 DEF counted, minute_of
<1>4. ASSUME NEW r \in Requests, Acquired(r) PROVE Quota!QuotaNext
  <2>1. last_second' = s /\ s \in Nat /\ l \in Nat /\ l <= s
    BY <1>4, RotateDates DEF Acquired, IInv, TypeOK
  <2>2. minute_of(last_second)' = minute_of(s)
    BY <2>1 DEF minute_of
  <2>3. counted(buckets)' = GrantedIn(minute_of(s)) \cup {r}
    <3>1. GrantedIn(minute_of(last_second))' =
             {q \in Requests : grantedAt'[q] # None /\ minute_of(grantedAt'[q]) = minute_of(s)}
      BY <2>2 DEF GrantedIn, minute_of
    <3>2. \A m : GrantedIn(m)' =
             {q \in Requests : grantedAt'[q] # None /\ minute_of(grantedAt'[q]) = m}
      BY DEF GrantedIn, minute_of
    <3>3. \A m : m = minute_of(s) => GrantedIn(m)' = GrantedIn(m) \cup {r}
      BY <1>4, GrantCounts
    <3> QED
      BY <3>1, <3>2, <3>3, <1>2
  <2>4. CASE minute_of(s) = minute_of(l)
    <3>1. r \notin counted(buckets) /\ counted(buckets)' = counted(buckets) \cup {r}
      BY <1>1, <1>4, <2>3, <2>4, GrantCounts
    <3>2. Cardinality(counted(buckets)) < Cap
      BY <1>1, <1>4, <2>4, RotatedTotal DEF Acquired, HasRoom, window_total
    <3>3. Quota!Cardinality(counted(buckets)) = Cardinality(counted(buckets))
      BY DEF Quota!Cardinality, Cardinality
    <3> QED
      BY <3>1, <3>2, <3>3, <2>2, <2>4 DEF Quota!QuotaNext, Quota!Grant
  <2>5. CASE minute_of(s) # minute_of(l)
    <3>1. counted(buckets)' = {r}
      BY <2>3, <2>5, LaterMinuteIsEmpty
    <3>2. minute_of(s) \in Nat /\ minute_of(s) > minute_of(l)
      BY <2>1, <2>5, SecondsOfMinutes, MinutesInOrder
    <3> QED
      BY <3>1, <3>2, <2>2 DEF Quota!QuotaNext, Quota!Grant
  <2> QED
    BY <2>4, <2>5
<1>5. ASSUME NEW r \in Requests, Retry(r) \/ Exceeded(r)
      PROVE  minute_of(last_second)' = minute_of(l) /\ counted(buckets)' = counted(buckets)
  <2>1. last_second' = s /\ grantedAt' = grantedAt
    BY <1>5, RotateDates DEF Retry, Exceeded
  <2>2. minute_of(s) = minute_of(l)
    <3>1. ~(Cardinality(GrantedIn(minute_of(s))) < Cap)
      BY <1>5, RotatedTotal DEF Retry, Exceeded, HasRoom, window_total
    <3>2. GrantedIn(minute_of(s)) # {}
      BY <3>1, FS_EmptySet, BudgetAssumption
    <3> QED
      BY <3>2, LaterMinuteIsEmpty
  <2>3. minute_of(last_second)' = minute_of(l)
    BY <2>1, <2>2 DEF minute_of
  <2>4. GrantedIn(minute_of(last_second))' = GrantedIn(minute_of(l))
    BY <2>1, <2>3 DEF GrantedIn, minute_of
  <2> QED
    BY <2>3, <2>4, <1>1, <1>2
<1>6. CASE Tick \/ (\E r \in Requests : Call(r)) \/ UNCHANGED vars
  BY <1>3, <1>6 DEF Tick, Call, vars
<1> QED
  BY <1>4, <1>5, <1>6 DEF Next, Attempt

\* acquire(), its rotating ring and its retries implement MinuteQuota.
THEOREM QuotaImplemented == Spec => ImplementsQuota
<1>1. Spec => [][Quota!QuotaNext]_(Quota!qvars)
  BY Inductive, StepMapsToQuota, PTL DEF Spec
<1>2. Spec => Quota!QuotaInit
  BY InitMapsToQuota DEF Spec
<1> QED
  BY <1>1, <1>2 DEF ImplementsQuota, Quota!QuotaSpec
=============================================================================
