------------------------- MODULE AllegroAuthProofs -------------------------
(* Theorems about AllegroAuth, for every set of tasks, pairs and grants.    *)
EXTENDS AllegroAuth, TLAPS

(***************************************************************************)
(* The inductive invariant.                                                *)
(***************************************************************************)
\* What is in the cache, or on its way there, is in the file's history.
SavedInv ==
    /\ cache.valid => cache.pair # None
    /\ store.tokens # None => store.tokens \in saved
    /\ resume.at = "seed" => resume.pair \in saved
    /\ mode = "device" =>
        /\ cache.pair # None => cache.pair \in saved
        /\ \A t \in Tasks :
            /\ pc[t] # "fetch"
            /\ pc[t] \in {"grant", "seed", "have"} => frame[t].tok \in saved
    /\ \A t \in Tasks : pc[t] \in {"grant", "seed"} => frame[t].tok # None

\* A refresh token that is or may be presented comes from the file, its
\* successor has not reached the file, and a granted pair not yet persisted
\* is in one place only.
SpentInv ==
    /\ spent \subseteq saved
    /\ saved \subseteq issued
    /\ store.tokens \notin spent
    /\ resume.at = "persist" => resume.pair \in issued \ saved
    /\ \A t \in Tasks :
        /\ pc[t] \in {"grant", "retry_grant", "persist"} =>
               frame[t].rt \in saved \ spent
        /\ pc[t] = "persist" =>
               /\ frame[t].tok \in issued \ saved
               /\ resume.at = "persist" => resume.pair # frame[t].tok

IInv == TypeOK /\ SingleFlight /\ SavedInv /\ SpentInv

(***************************************************************************)
(* Type correctness.                                                       *)
(***************************************************************************)
LEMMA InitTypeOK == Init => TypeOK
<1> SUFFICES ASSUME Init PROVE TypeOK
  OBVIOUS
<1>1. frame \in [Tasks -> Frames]
  BY DEF Init, Frames, NewFrame
<1>2. store \in Stores /\ cache \in [pair : Pairs \cup {None}, valid : BOOLEAN]
  BY DEF Init, NoCache
<1>3. resume \in [at : {"none", "poll", "persist", "seed"},
                  code : Codes \cup {None}, pair : Pairs \cup {None}]
  BY DEF Init, NoPoll
<1>4. store.tokens \in Pairs \cup {None} /\ store.pending \in Codes \cup {None}
  BY <1>2 DEF Stores
<1>5. pc \in [Tasks -> Labels]
  BY DEF Init, Labels
<1> QED
  BY <1>1, <1>2, <1>3, <1>4, <1>5 DEF Init, TypeOK

\* Returning from token() and excusing the waiting callers keep the frames'
\* type and change no field but their own.
LEMMA LeaveType ==
  ASSUME NEW f \in [Tasks -> Frames], NEW t \in Tasks, NEW p \in Pairs \cup {None}
  PROVE  /\ Leave(f, t, p) \in [Tasks -> Frames]
         /\ Leave(f, t, p)[t].tok = p
         /\ \A u \in Tasks : u # t => Leave(f, t, p)[u] = f[u]
<1> DEFINE g == [f[t] EXCEPT !.tok = p, !.rt = None, !.forced = FALSE, !.live = FALSE]
<1>1. f[t] \in Frames
  OBVIOUS
<1>2. g \in Frames /\ g.tok = p
  BY <1>1 DEF Frames
<1>3. Leave(f, t, p) = [f EXCEPT ![t] = g]
  BY DEF Leave
<1> QED
  BY <1>2, <1>3

\* Marking every frame that holds a rejected pair excused changes no token or refresh token.
LEMMA ExcuseType ==
  ASSUME NEW f \in [Tasks -> Frames], NEW t \in Tasks
  PROVE  /\ Excuse(t, f) \in [Tasks -> Frames]
         /\ \A u \in Tasks : /\ Excuse(t, f)[u].tok = f[u].tok
                             /\ Excuse(t, f)[u].rt = f[u].rt
<1> DEFINE e(u) == [f[u] EXCEPT !.excused = f[u].rejected # None]
<1>1. \A u \in Tasks : f[u] \in Frames
  OBVIOUS
<1>2. \A u \in Tasks : e(u) \in Frames /\ e(u).tok = f[u].tok /\ e(u).rt = f[u].rt
  BY <1>1 DEF Frames
<1>3. CASE f[t].forced
  <2>1. Excuse(t, f) = [u \in Tasks |-> e(u)]
    BY <1>3 DEF Excuse
  <2> QED
    BY <1>2, <2>1
<1>4. CASE ~f[t].forced
  BY <1>4 DEF Excuse
<1> QED
  BY <1>3, <1>4

\* A task that fails leaves the others' tokens and refresh tokens alone.
LEMMA FailType ==
  ASSUME frame \in [Tasks -> Frames], NEW t \in Tasks,
         NEW why \in {"reauth", "error"}, Fail(t, why)
  PROVE  /\ frame' \in [Tasks -> Frames]
         /\ \A u \in Tasks : u # t => /\ frame'[u].tok = frame[u].tok
                                      /\ frame'[u].rt = frame[u].rt
<1> DEFINE e == Excuse(t, frame)
           l == Leave(e, t, None)
<1>1. e \in [Tasks -> Frames]
  BY ExcuseType
<1>2. /\ l \in [Tasks -> Frames]
      /\ \A u \in Tasks : u # t => l[u] = e[u]
  BY <1>1, LeaveType
<1>3. frame' = [l EXCEPT ![t].why = why]
  BY DEF Fail
<1>4. [l[t] EXCEPT !.why = why] \in Frames
  BY <1>2 DEF Frames
<1>5. frame' = [l EXCEPT ![t] = [l[t] EXCEPT !.why = why]]
  BY <1>3
<1> HIDE DEF e, l
<1>6. frame' \in [Tasks -> Frames] /\ \A u \in Tasks : u # t => frame'[u] = l[u]
  BY <1>2, <1>4, <1>5
<1> QED
  BY <1>2, <1>6, ExcuseType DEF e

\* Setting one local variable, or the two that Load sets.
LEMMA SetTok ==
  ASSUME NEW f \in [Tasks -> Frames], NEW t \in Tasks, NEW p \in Pairs \cup {None}
  PROVE  /\ [f EXCEPT ![t].tok = p] \in [Tasks -> Frames]
         /\ [f EXCEPT ![t].tok = p][t].tok = p
         /\ [f EXCEPT ![t].tok = p][t].rt = f[t].rt
         /\ \A u \in Tasks : u # t => [f EXCEPT ![t].tok = p][u] = f[u]
<1> DEFINE g == [f[t] EXCEPT !.tok = p]
<1>1. g \in Frames /\ g.tok = p /\ g.rt = f[t].rt
  BY f[t] \in Frames DEF Frames
<1> QED
  BY <1>1

\* The refresh token presented is set.
LEMMA SetRt ==
  ASSUME NEW f \in [Tasks -> Frames], NEW t \in Tasks, NEW p \in Pairs \cup {None}
  PROVE  /\ [f EXCEPT ![t].rt = p] \in [Tasks -> Frames]
         /\ [f EXCEPT ![t].rt = p][t].rt = p
         /\ [f EXCEPT ![t].rt = p][t].tok = f[t].tok
         /\ \A u \in Tasks : u # t => [f EXCEPT ![t].rt = p][u] = f[u]
<1> DEFINE g == [f[t] EXCEPT !.rt = p]
<1>1. g \in Frames /\ g.rt = p /\ g.tok = f[t].tok
  BY f[t] \in Frames DEF Frames
<1> QED
  BY <1>1

\* The forced-refresh local is set.
LEMMA SetForced ==
  ASSUME NEW f \in [Tasks -> Frames], NEW t \in Tasks, NEW b \in BOOLEAN
  PROVE  /\ [f EXCEPT ![t].forced = b] \in [Tasks -> Frames]
         /\ \A u \in Tasks : /\ [f EXCEPT ![t].forced = b][u].tok = f[u].tok
                             /\ [f EXCEPT ![t].forced = b][u].rt = f[u].rt
<1> DEFINE g == [f[t] EXCEPT !.forced = b]
<1>1. g \in Frames /\ g.tok = f[t].tok /\ g.rt = f[t].rt
  BY f[t] \in Frames DEF Frames
<1> QED
  BY <1>1

\* The two locals that Load sets.
LEMMA SetLoaded ==
  ASSUME NEW f \in [Tasks -> Frames], NEW t \in Tasks, NEW p \in Pairs \cup {None},
         NEW b \in BOOLEAN
  PROVE  LET l == [f EXCEPT ![t] = [@ EXCEPT !.tok = p, !.live = b]]
         IN  /\ l \in [Tasks -> Frames]
             /\ l[t].tok = p
             /\ \A u \in Tasks : u # t => l[u] = f[u]
<1> DEFINE g == [f[t] EXCEPT !.tok = p, !.live = b]
<1>1. g \in Frames /\ g.tok = p
  BY f[t] \in Frames DEF Frames
<1> QED
  BY <1>1

\* The components of records of the right type have the right type.
LEMMA FieldTypes ==
  ASSUME TypeOK
  PROVE  /\ cache.pair \in Pairs \cup {None} /\ cache.valid \in BOOLEAN
         /\ store.tokens \in Pairs \cup {None} /\ store.age \in Ages
         /\ store.pending \in Codes \cup {None}
         /\ resume.pair \in Pairs \cup {None} /\ resume.code \in Codes \cup {None}
         /\ \A t \in Tasks : /\ frame[t] \in Frames
                             /\ frame[t].tok \in Pairs \cup {None}
                             /\ frame[t].rt \in Pairs \cup {None}
<1>1. \A t \in Tasks : frame[t] \in Frames
  BY DEF TypeOK
<1> QED
  BY <1>1 DEF TypeOK, Stores, Frames

\* Every step keeps the types.
LEMMA NextTypeOK == TypeOK /\ SpentInv /\ [Next]_vars => TypeOK'
<1> SUFFICES ASSUME TypeOK, SpentInv, [Next]_vars PROVE TypeOK'
  OBVIOUS
<1>a. /\ NewFrame \in Frames
      /\ \A p \in Pairs \cup {None} :
            [NewFrame EXCEPT !.refreshed = TRUE, !.rejected = p] \in Frames
  BY DEF NewFrame, Frames
<1>b. NoCache \in [pair : Pairs \cup {None}, valid : BOOLEAN]
  BY DEF NoCache
<1>c. NoFile \in Stores
  BY DEF NoFile, Stores, Ages
<1>f. frame \in [Tasks -> Frames]
  BY DEF TypeOK
<1>g. cache.pair \in Pairs \cup {None}
  BY FieldTypes
<1> USE DEF TypeOK, tokenVars, taskVars, serverVars, history, vars, Goto, Labels
<1>1. ASSUME NEW t \in Tasks, Token(t) PROVE TypeOK'
  <2>1. CASE ReadCache(t)
    <3>1. frame' \in [Tasks -> Frames]
      BY ONLY <2>1, <1>f, <1>g, SetTok, t \in Tasks DEF ReadCache
    <3> QED
      BY <2>1, <3>1 DEF ReadCache
  <2>2. CASE WriteLock(t)
    <3>1. frame' \in [Tasks -> Frames]
      BY ONLY <2>2, <1>f, <1>g, SetTok, t \in Tasks DEF WriteLock
    <3> QED
      BY <2>2, <3>1 DEF WriteLock
  <2>3. CASE Seed(t)
    <3>1. frame' \in [Tasks -> Frames]
      BY <2>3, FieldTypes, LeaveType DEF Seed
    <3> QED
      BY <2>3, <3>1, FieldTypes DEF Seed
  <2>4. CASE Fetch(t)
    <3>1. frame' \in [Tasks -> Frames]
      BY <2>4, <1>f, SetTok, FailType DEF Fetch
    <3> QED
      BY <2>4, <3>1 DEF Fetch, Issue, Fail
  <2>5. CASE TakeForce(t)
    BY <2>5, SetForced DEF TakeForce
  <2>6. CASE Load(t)
    <3> DEFINE loaded == [frame EXCEPT ![t] = [@ EXCEPT !.tok = store.tokens,
                                                        !.live = store.age = "live"]]
    <3>0. (store.age = "live") \in BOOLEAN /\ store.tokens \in Pairs \cup {None}
      BY FieldTypes
    <3>1. loaded \in [Tasks -> Frames]
      BY ONLY <3>0, <1>f, SetLoaded, t \in Tasks
    <3>2. /\ [loaded EXCEPT ![t].rt = store.tokens] \in [Tasks -> Frames]
          /\ Excuse(t, loaded) \in [Tasks -> Frames]
      BY ONLY <3>0, <3>1, SetRt, ExcuseType, t \in Tasks
    <3> HIDE DEF loaded
    <3>3. \/ frame' = loaded
          \/ frame' = [loaded EXCEPT ![t].rt = store.tokens]
          \/ frame' = Excuse(t, loaded)
          \/ Fail(t, "reauth") \/ Fail(t, "error")
      BY <2>6 DEF Load, loaded
    <3>4. frame' \in [Tasks -> Frames]
      BY ONLY <1>f, <3>1, <3>2, <3>3, FailType, t \in Tasks
    <3> QED
      BY <2>6, <3>4, SMTT(60) DEF Load, Fail
  <2>7. CASE GrantRotates(t)
    <3>1. frame' \in [Tasks -> Frames]
      BY <2>7, <1>f, SetTok DEF GrantRotates, Issue
    <3> QED
      BY <2>7, <3>1 DEF GrantRotates, Issue
  <2>8. CASE GrantRejected(t)
    BY <2>8 DEF GrantRejected
  <2>9. CASE GrantTransient(t)
    <3>1. frame' \in [Tasks -> Frames]
      BY <2>9, <1>f, FailType, ExcuseType DEF GrantTransient
    <3> QED
      BY <2>9, <3>1, SMTT(60) DEF GrantTransient, Issue, Fail
  <2>10. CASE Reload(t)
    <3>0. store.tokens \in Pairs \cup {None}
      BY FieldTypes
    <3>1. frame' \in [Tasks -> Frames]
      BY ONLY <2>10, <1>f, <3>0, SetRt, FailType, t \in Tasks DEF Reload
    <3> QED
      BY <2>10, <3>1 DEF Reload, Fail
  <2>11. CASE Wipe(t)
    <3>1. frame' \in [Tasks -> Frames]
      BY <2>11, <1>f, FailType DEF Wipe
    <3> QED
      BY <2>11, <3>1, <1>c DEF Wipe, Fail
  <2>12. CASE Persist(t)
    <3>1. frame' \in [Tasks -> Frames]
      BY <2>12, <1>f, FailType DEF Persist
    <3>2. frame[t].tok \in Pairs /\ frame[t].rt \in Pairs
      BY <2>12 DEF Persist, SpentInv
    <3>3. [tokens |-> frame[t].tok, age |-> "live", pending |-> None] \in Stores
      BY <3>2 DEF Stores, Ages
    <3> QED
      BY <2>12, <3>1, <3>2, <3>3 DEF Persist, SaveTokens, Fail
  <2> QED
    BY <1>1, <2>1, <2>2, <2>3, <2>4, <2>5, <2>6, <2>7, <2>8, <2>9, <2>10,
       <2>11, <2>12 DEF Token
<1>2. ASSUME NEW t \in Tasks, Caller(t) PROVE TypeOK'
  <2>1. CASE StartUp(t)
    BY <2>1 DEF StartUp
  <2>2. CASE Restored(t)
    BY <2>2, <1>a DEF Restored, Return
  <2>3. CASE ResumePending(t)
    <3>1. [NoPoll EXCEPT !.at = "poll", !.code = store.pending]
             \in [at : {"none", "poll", "persist", "seed"},
                  code : Codes \cup {None}, pair : Pairs \cup {None}]
      BY FieldTypes DEF NoPoll
    <3> QED
      BY <2>3, <1>a, <3>1 DEF ResumePending, Return
  <2>4. CASE Bail(t)
    BY <2>4, <1>a DEF Bail, Return
  <2>5. CASE Dispatch(t)
    BY <2>5 DEF Dispatch
  <2>6. CASE EndDispatch(t)
    BY <2>6, <1>a DEF EndDispatch, Return
  <2>7. CASE Unauthorized(t)
    <3>1. frame' \in [Tasks -> Frames]
      BY <2>7, <1>a, <1>f, FieldTypes DEF Unauthorized
    <3> QED
      BY <2>7, <3>1 DEF Unauthorized
  <2>8. CASE SetForce(t)
    BY <2>8 DEF SetForce
  <2>9. CASE Invalidate(t)
    BY <2>9, <1>b DEF Invalidate
  <2> QED
    BY <1>2, <2>1, <2>2, <2>3, <2>4, <2>5, <2>6, <2>7, <2>8, <2>9 DEF Caller, RefreshNow
<1>3. ASSUME Resume PROVE TypeOK'
  <2>p. NoPoll \in [at : {"none", "poll", "persist", "seed"},
                    code : Codes \cup {None}, pair : Pairs \cup {None}]
    BY DEF NoPoll
  <2>1. CASE ResumeApproved
    BY <2>1 DEF ResumeApproved, Issue
  <2>2. CASE ResumePersist
    <3>1. resume.pair \in Pairs
      BY <2>2 DEF ResumePersist, SpentInv
    <3>2. [tokens |-> resume.pair, age |-> "live", pending |-> None] \in Stores
      BY <3>1 DEF Stores, Ages
    <3> QED
      BY <2>2, <2>p, <3>1, <3>2 DEF ResumePersist, SaveTokens
  <2>3. CASE ResumeSeed
    BY <2>3, <2>p, FieldTypes DEF ResumeSeed
  <2>4. CASE ResumeFails
    BY <2>4, <2>p DEF ResumeFails
  <2> QED
    BY <1>3, <2>1, <2>2, <2>3, <2>4 DEF Resume
<1>4. ASSUME Environment PROVE TypeOK'
  <2>1. CASE StoreAges
    <3>1. store' \in Stores
      BY <2>1, FieldTypes DEF StoreAges, Stores, Ages
    <3> QED
      BY <2>1, <3>1 DEF StoreAges
  <2>2. CASE CacheAges
    BY <2>2 DEF CacheAges
  <2>3. ASSUME NEW p \in Pairs, RefuseAccess(p) \/ RefuseRefresh(p) PROVE TypeOK'
    BY <2>3 DEF RefuseAccess, RefuseRefresh
  <2>4. ASSUME NEW c \in Codes, GrantEnds(c) PROVE TypeOK'
    BY <2>4 DEF GrantEnds
  <2> QED
    BY <1>4, <2>1, <2>2, <2>3, <2>4 DEF Environment
<1>5. CASE Crash
  BY <1>5, <1>a, <1>b DEF Crash, NoPoll
<1>6. CASE UNCHANGED vars
  BY <1>6
<1> QED
  BY <1>1, <1>2, <1>3, <1>4, <1>5, <1>6 DEF Next

(***************************************************************************)
(* The write lock.                                                         *)
(***************************************************************************)
LEMMA NextSingleFlight == TypeOK /\ SingleFlight /\ [Next]_vars => SingleFlight'
<1> SUFFICES ASSUME TypeOK, SingleFlight, [Next]_vars PROVE SingleFlight'
  OBVIOUS
<1>a. pc \in [Tasks -> Labels] /\ lock \in Tasks \cup {None} /\ None \notin Tasks
  BY AuthAssumption DEF TypeOK
<1>b. \A t \in Tasks : pc[t] \in Locked <=> lock = t
  BY DEF SingleFlight
<1> USE DEF SingleFlight, Locked, Goto, Fail, Return, tokenVars, taskVars, serverVars, history, vars
<1>1. ASSUME NEW t \in Tasks, Token(t) PROVE SingleFlight'
  <2>1. CASE ReadCache(t)
    BY ONLY <1>a, <1>b, <2>1, t \in Tasks DEF ReadCache
  <2>2. CASE WriteLock(t)
    BY ONLY <1>a, <1>b, <2>2, t \in Tasks DEF WriteLock
  <2>3. CASE Seed(t)
    BY ONLY <1>a, <1>b, <2>3, t \in Tasks DEF Seed
  <2>4. CASE Fetch(t)
    BY ONLY <1>a, <1>b, <2>4, t \in Tasks DEF Fetch
  <2>5. CASE TakeForce(t)
    BY ONLY <1>a, <1>b, <2>5, t \in Tasks DEF TakeForce
  <2>6. CASE Load(t)
    BY ONLY <1>a, <1>b, <2>6, t \in Tasks DEF Load
  <2>7. CASE GrantRotates(t)
    BY ONLY <1>a, <1>b, <2>7, t \in Tasks DEF GrantRotates
  <2>8. CASE GrantRejected(t)
    BY ONLY <1>a, <1>b, <2>8, t \in Tasks DEF GrantRejected
  <2>9. CASE GrantTransient(t)
    BY ONLY <1>a, <1>b, <2>9, t \in Tasks DEF GrantTransient
  <2>10. CASE Reload(t)
    BY ONLY <1>a, <1>b, <2>10, t \in Tasks DEF Reload
  <2>11. CASE Wipe(t)
    BY ONLY <1>a, <1>b, <2>11, t \in Tasks DEF Wipe
  <2>12. CASE Persist(t)
    BY ONLY <1>a, <1>b, <2>12, t \in Tasks DEF Persist
  <2> QED
    BY <1>1, <2>1, <2>2, <2>3, <2>4, <2>5, <2>6, <2>7, <2>8, <2>9, <2>10,
       <2>11, <2>12 DEF Token
<1>2. ASSUME NEW t \in Tasks, Caller(t) PROVE SingleFlight'
  BY ONLY <1>a, <1>b, <1>2, t \in Tasks
  DEF Caller, StartUp, Restored, ResumePending, Bail, Dispatch, EndDispatch,
      Unauthorized, RefreshNow, SetForce, Invalidate
<1>3. CASE Resume \/ Environment \/ UNCHANGED vars
  BY ONLY <1>a, <1>b, <1>3
  DEF Resume, ResumeApproved, ResumePersist, ResumeSeed, ResumeFails,
      Environment, RefuseAccess, RefuseRefresh, GrantEnds, CacheAges, StoreAges
<1>4. CASE Crash
  BY ONLY <1>a, <1>b, <1>4 DEF Crash
<1> QED
  BY <1>1, <1>2, <1>3, <1>4 DEF Next

(***************************************************************************)
(* A step of one task leaves the control and the pairs of the others alone. *)
(***************************************************************************)
OthersKeep(t) ==
    \A u \in Tasks : u # t => /\ pc'[u] = pc[u]
                              /\ frame'[u].tok = frame[u].tok
                              /\ frame'[u].rt = frame[u].rt

\* A step of one task leaves the others' places, tokens and refresh tokens alone.
LEMMA StepOfOneTask ==
  ASSUME TypeOK, NEW t \in Tasks, Token(t) \/ Caller(t)
  PROVE  OthersKeep(t)
<1>a. pc \in [Tasks -> Labels] /\ frame \in [Tasks -> Frames]
  BY DEF TypeOK
<1>b. /\ cache.pair \in Pairs \cup {None}
      /\ store.tokens \in Pairs \cup {None}
      /\ frame[t].tok \in Pairs \cup {None}
  BY FieldTypes
<1> USE DEF OthersKeep, Goto
<1>1. CASE ReadCache(t)
  BY ONLY <1>1, <1>a, <1>b, SetTok, t \in Tasks DEF ReadCache
<1>2. CASE WriteLock(t)
  BY ONLY <1>2, <1>a, <1>b, SetTok, t \in Tasks DEF WriteLock
<1>3. CASE Seed(t)
  BY ONLY <1>3, <1>a, <1>b, LeaveType, t \in Tasks DEF Seed
<1>4. CASE Fetch(t)
  <2>1. \A u \in Tasks : u # t => pc'[u] = pc[u]
    BY ONLY <1>4, <1>a, t \in Tasks DEF Fetch, Fail
  <2> QED
    BY ONLY <2>1, <1>4, <1>a, SetTok, FailType, t \in Tasks DEF Fetch, Issue
<1>5. CASE TakeForce(t)
  <2>1. \A u \in Tasks : u # t => pc'[u] = pc[u]
    BY ONLY <1>5, <1>a, t \in Tasks DEF TakeForce
  <2>2. force_refresh \in BOOLEAN
    BY DEF TypeOK
  <2> QED
    BY ONLY <2>1, <2>2, <1>5, <1>a, SetForced, t \in Tasks DEF TakeForce
<1>6. CASE Load(t)
  <2> DEFINE loaded == [frame EXCEPT ![t] = [@ EXCEPT !.tok = store.tokens,
                                                      !.live = store.age = "live"]]
  <2>1. \A u \in Tasks : u # t => pc'[u] = pc[u]
    BY ONLY <1>6, <1>a, t \in Tasks DEF Load, Fail
  <2>2. (store.age = "live") \in BOOLEAN
    OBVIOUS
  <2>3. loaded \in [Tasks -> Frames] /\ \A u \in Tasks : u # t => loaded[u] = frame[u]
    BY ONLY <2>2, <1>a, <1>b, SetLoaded, t \in Tasks
  <2>4. \/ frame' = loaded
        \/ frame' = [loaded EXCEPT ![t].rt = store.tokens]
        \/ frame' = Excuse(t, loaded)
        \/ Fail(t, "reauth") \/ Fail(t, "error")
    BY ONLY <1>6 DEF Load
  <2> HIDE DEF loaded
  <2> QED
    BY ONLY <2>1, <2>3, <2>4, <1>a, <1>b, SetRt, ExcuseType, FailType, t \in Tasks
<1>7. CASE GrantRotates(t)
  BY ONLY <1>7, <1>a, SetTok, t \in Tasks DEF GrantRotates, Issue
<1>8. CASE GrantRejected(t)
  BY ONLY <1>8, <1>a, t \in Tasks DEF GrantRejected
<1>9. CASE GrantTransient(t)
  <2>1. \A u \in Tasks : u # t => pc'[u] = pc[u]
    BY ONLY <1>9, <1>a, t \in Tasks DEF GrantTransient, Fail
  <2> QED
    BY ONLY <2>1, <1>9, <1>a, ExcuseType, FailType, t \in Tasks DEF GrantTransient
<1>10. CASE Reload(t)
  <2>1. \A u \in Tasks : u # t => pc'[u] = pc[u]
    BY ONLY <1>10, <1>a, t \in Tasks DEF Reload, Fail
  <2> QED
    BY ONLY <2>1, <1>10, <1>a, <1>b, SetRt, FailType, t \in Tasks DEF Reload
<1>11. CASE Wipe(t)
  <2>1. \A u \in Tasks : u # t => pc'[u] = pc[u]
    BY ONLY <1>11, <1>a, t \in Tasks DEF Wipe, Fail
  <2> QED
    BY ONLY <2>1, <1>11, <1>a, FailType, t \in Tasks DEF Wipe
<1>12. CASE Persist(t)
  <2>1. \A u \in Tasks : u # t => pc'[u] = pc[u]
    BY ONLY <1>12, <1>a, t \in Tasks DEF Persist, Fail
  <2> QED
    BY ONLY <2>1, <1>12, <1>a, FailType, t \in Tasks DEF Persist
<1>13. CASE Caller(t)
  BY ONLY <1>13, <1>a, t \in Tasks
  DEF Caller, StartUp, Restored, ResumePending, Bail, Dispatch, EndDispatch,
      Unauthorized, RefreshNow, SetForce, Invalidate, Return
<1> QED
  BY <1>1, <1>2, <1>3, <1>4, <1>5, <1>6, <1>7, <1>8, <1>9, <1>10, <1>11,
     <1>12, <1>13 DEF Token

(***************************************************************************)
(* Disk before cache.                                                      *)
(***************************************************************************)
\* The part of SavedInv that speaks of one task.
TaskSaved(t) ==
    /\ mode = "device" =>
        /\ pc[t] # "fetch"
        /\ pc[t] \in {"grant", "seed", "have"} => frame[t].tok \in saved
    /\ pc[t] \in {"grant", "seed"} => frame[t].tok # None

\* A step of t that keeps the file's history keeps SavedInv if it does so for
\* the shared state and for t.
LEMMA SavedOfOneTask ==
  ASSUME IInv, NEW t \in Tasks, Token(t) \/ Caller(t),
         mode' = mode,
         saved \subseteq saved',
         (cache.valid => cache.pair # None)',
         (store.tokens # None => store.tokens \in saved)',
         (resume.at = "seed" => resume.pair \in saved)',
         (mode = "device" => (cache.pair # None => cache.pair \in saved))',
         TaskSaved(t)'
  PROVE  SavedInv'
<1>1. OthersKeep(t)
  BY StepOfOneTask DEF IInv
<1>2. \A u \in Tasks : TaskSaved(u)'
  BY <1>1 DEF IInv, SavedInv, TaskSaved, OthersKeep
<1> QED
  BY <1>2 DEF SavedInv, TaskSaved

\* Every step keeps SavedInv.
LEMMA NextSavedInv == IInv /\ [Next]_vars => SavedInv'
<1> SUFFICES ASSUME IInv, [Next]_vars PROVE SavedInv'
  OBVIOUS
<1>a. /\ pc \in [Tasks -> Labels] /\ frame \in [Tasks -> Frames]
      /\ None \notin Pairs
      /\ saved \subseteq Pairs
      /\ mode \in Modes
      /\ cache.pair \in Pairs \cup {None}
      /\ store.tokens \in Pairs \cup {None}
      /\ \A t \in Tasks : frame[t].tok \in Pairs \cup {None}
  BY AuthAssumption, FieldTypes DEF IInv, TypeOK
<1>c. \A t \in Tasks : frame[t] \in Frames
  BY <1>a
<1>b. /\ cache.valid => cache.pair # None
      /\ store.tokens # None => store.tokens \in saved
      /\ resume.at = "seed" => resume.pair \in saved
      /\ mode = "device" => (cache.pair # None => cache.pair \in saved)
      /\ \A t \in Tasks : TaskSaved(t)
  BY DEF IInv, SavedInv, TaskSaved
<1> USE DEF TaskSaved, Goto, tokenVars, taskVars, serverVars, history, vars
<1>1. ASSUME NEW t \in Tasks, Token(t) PROVE SavedInv'
  <2> DEFINE goal ==
        /\ mode' = mode
        /\ saved \subseteq saved'
        /\ (cache.valid => cache.pair # None)'
        /\ (store.tokens # None => store.tokens \in saved)'
        /\ (resume.at = "seed" => resume.pair \in saved)'
        /\ (mode = "device" => (cache.pair # None => cache.pair \in saved))'
        /\ TaskSaved(t)'
  <2>1. CASE ReadCache(t)
    <3>0. pc'[t] = "have" => cache.valid /\ frame'[t].tok = cache.pair
      BY ONLY <1>a, <1>c, <2>1, t \in Tasks DEF ReadCache, Frames
    <3>1. goal
      BY ONLY <1>a, <1>b, <2>1, <3>0, t \in Tasks DEF ReadCache
    <3> QED
      BY <1>1, <3>1, SavedOfOneTask
  <2>2. CASE WriteLock(t)
    <3>0. pc'[t] = "have" => cache.valid /\ frame'[t].tok = cache.pair
      BY ONLY <1>a, <1>c, <2>2, t \in Tasks DEF WriteLock, Frames
    <3>1. goal
      BY ONLY <1>a, <1>b, <2>2, <3>0, t \in Tasks DEF WriteLock
    <3> QED
      BY <1>1, <3>1, SavedOfOneTask
  <2>3. CASE Seed(t)
    <3>1. frame'[t].tok = frame[t].tok
      BY ONLY <1>a, <2>3, LeaveType, t \in Tasks DEF Seed
    <3>2. goal
      BY ONLY <1>a, <1>b, <2>3, <3>1, t \in Tasks DEF Seed
    <3> QED
      BY <1>1, <3>2, SavedOfOneTask
  <2>4. CASE Fetch(t)
    <3>0. pc'[t] = "seed" => frame'[t].tok \in Pairs
      BY ONLY <1>a, <1>c, <2>4, t \in Tasks DEF Fetch, Issue, Fail, Frames
    <3>1. goal
      BY ONLY <1>a, <1>b, <2>4, <3>0, t \in Tasks DEF Fetch, Fail
    <3> QED
      BY <1>1, <3>1, SavedOfOneTask
  <2>5. CASE TakeForce(t)
    <3>1. goal
      BY ONLY <1>a, <1>b, <2>5, t \in Tasks DEF TakeForce
    <3> QED
      BY <1>1, <3>1, SavedOfOneTask
  <2>6. CASE Load(t)
    <3> DEFINE loaded == [frame EXCEPT ![t] = [@ EXCEPT !.tok = store.tokens,
                                                        !.live = store.age = "live"]]
    <3>0. (store.age = "live") \in BOOLEAN
      OBVIOUS
    <3>b. loaded[t].tok = store.tokens
      BY ONLY <1>a, <1>c, t \in Tasks DEF Frames
    <3>1. loaded \in [Tasks -> Frames] /\ loaded[t].tok = store.tokens
      BY ONLY <3>0, <3>b, <1>a, SetLoaded, t \in Tasks
    <3>2. \/ frame' = loaded
          \/ frame' = [loaded EXCEPT ![t].rt = store.tokens]
          \/ frame' = Excuse(t, loaded)
          \/ pc'[t] = "failed"
      BY ONLY <1>a, <2>6, t \in Tasks DEF Load, Fail
    <3> HIDE DEF loaded
    <3>a. /\ [loaded EXCEPT ![t].rt = store.tokens][t].tok = store.tokens
          /\ Excuse(t, loaded)[t].tok = store.tokens
      <4>1. loaded[t] \in Frames
        BY ONLY <3>1, t \in Tasks
      <4>2. [loaded EXCEPT ![t].rt = store.tokens][t].tok = store.tokens
        BY ONLY <4>1, <3>1, t \in Tasks DEF Frames
      <4>3. Excuse(t, loaded)[t].tok = store.tokens
        BY ONLY <3>1, ExcuseType, t \in Tasks
      <4> QED
        BY ONLY <4>2, <4>3
    <3>3. frame'[t].tok = store.tokens \/ pc'[t] = "failed"
      BY ONLY <3>1, <3>2, <3>a
    <3>4. pc'[t] \in {"seed", "grant"} => store.tokens # None
      BY ONLY <1>a, <2>6, t \in Tasks DEF Load, Fail, Refreshable, HasRefresh
    <3>5. goal
      BY ONLY <1>a, <1>b, <2>6, <3>3, <3>4, t \in Tasks DEF Load, Fail
    <3> QED
      BY <1>1, <3>5, SavedOfOneTask
  <2>7. CASE GrantRotates(t)
    <3>1. goal
      BY ONLY <1>a, <1>b, <2>7, t \in Tasks DEF GrantRotates
    <3> QED
      BY <1>1, <3>1, SavedOfOneTask
  <2>8. CASE GrantRejected(t)
    <3>1. goal
      BY ONLY <1>a, <1>b, <2>8, t \in Tasks DEF GrantRejected
    <3> QED
      BY <1>1, <3>1, SavedOfOneTask
  <2>9. CASE GrantTransient(t)
    <3>1. \/ pc'[t] = "failed"
          \/ pc[t] = "grant" /\ frame'[t].tok = frame[t].tok
      BY ONLY <1>a, <2>9, ExcuseType, t \in Tasks DEF GrantTransient, Fail
    <3>2. goal
      BY ONLY <1>a, <1>b, <2>9, <3>1, t \in Tasks DEF GrantTransient, Fail
    <3> QED
      BY <1>1, <3>2, SavedOfOneTask
  <2>10. CASE Reload(t)
    <3>1. goal
      BY ONLY <1>a, <1>b, <2>10, t \in Tasks DEF Reload, Fail
    <3> QED
      BY <1>1, <3>1, SavedOfOneTask
  <2>11. CASE Wipe(t)
    <3>1. goal
      BY ONLY <1>a, <1>b, <2>11, t \in Tasks DEF Wipe, Fail, NoFile
    <3> QED
      BY <1>1, <3>1, SavedOfOneTask
  <2>12. CASE Persist(t)
    <3>0. frame[t].tok \in Pairs
      BY <2>12 DEF Persist, IInv, SpentInv, TypeOK
    <3>1. goal
      BY ONLY <1>a, <1>b, <2>12, <3>0, t \in Tasks DEF Persist, Fail, SaveTokens
    <3> QED
      BY <1>1, <3>1, SavedOfOneTask
  <2> QED
    BY <1>1, <2>1, <2>2, <2>3, <2>4, <2>5, <2>6, <2>7, <2>8, <2>9, <2>10,
       <2>11, <2>12 DEF Token
<1>2. ASSUME NEW t \in Tasks, Caller(t) PROVE SavedInv'
  <2>1. /\ mode' = mode
        /\ saved \subseteq saved'
        /\ (cache.valid => cache.pair # None)'
        /\ (store.tokens # None => store.tokens \in saved)'
        /\ (mode = "device" => (cache.pair # None => cache.pair \in saved))'
        /\ TaskSaved(t)'
    BY ONLY <1>a, <1>b, <1>2, t \in Tasks
    DEF Caller, StartUp, Restored, ResumePending, Bail, Dispatch, EndDispatch,
        Unauthorized, RefreshNow, SetForce, Invalidate, Return, NoCache
  <2>r. resume \in [at : {"none", "poll", "persist", "seed"},
                    code : Codes \cup {None}, pair : Pairs \cup {None}]
    BY DEF IInv, TypeOK
  <2>s. saved' = saved /\ (resume' = resume \/ ResumePending(t))
    BY ONLY <1>2
    DEF Caller, StartUp, Restored, Bail, Dispatch, EndDispatch, Unauthorized,
        RefreshNow, SetForce, Invalidate, ResumePending
  <2>t. ResumePending(t) => resume'.at = "poll"
    BY ONLY <1>a DEF ResumePending, NoPoll
  <2>2. (resume.at = "seed" => resume.pair \in saved)'
    BY ONLY <1>b, <2>s, <2>t
  <2> QED
    BY <1>2, <2>1, <2>2, SavedOfOneTask
<1>3. CASE Resume
  <2>1. resume \in [at : {"none", "poll", "persist", "seed"},
                    code : Codes \cup {None}, pair : Pairs \cup {None}]
    BY DEF IInv, TypeOK
  <2>2. resume.at = "persist" => resume.pair \in Pairs
    BY DEF IInv, SpentInv, TypeOK
  <2>3. UNCHANGED <<pc, frame, mode>> /\ saved \subseteq saved'
    BY ONLY <1>3
    DEF Resume, ResumeApproved, ResumePersist, ResumeSeed, ResumeFails, SaveTokens
  <2>4. \A t \in Tasks : TaskSaved(t)'
    BY ONLY <1>b, <2>3
  <2>5. CASE ResumeApproved
    BY ONLY <1>a, <1>b, <2>1, <2>4, <2>5 DEF ResumeApproved, SavedInv
  <2>6. CASE ResumePersist
    BY ONLY <1>a, <1>b, <2>1, <2>2, <2>4, <2>6
    DEF ResumePersist, SaveTokens, NoPoll, SavedInv
  <2>7. CASE ResumeSeed
    BY ONLY <1>a, <1>b, <2>1, <2>4, <2>7 DEF ResumeSeed, NoPoll, SavedInv
  <2>8. CASE ResumeFails
    BY ONLY <1>a, <1>b, <2>4, <2>8 DEF ResumeFails, NoPoll, SavedInv
  <2> QED
    BY <1>3, <2>5, <2>6, <2>7, <2>8 DEF Resume
<1>4. CASE Environment
  <2>1. (store.tokens)' = store.tokens
    BY <1>4
    DEF Environment, RefuseAccess, RefuseRefresh, GrantEnds, CacheAges, StoreAges,
        IInv, TypeOK, Stores
  <2>2. cache' = cache \/ (cache'.pair = cache.pair /\ cache'.valid = FALSE)
    BY <1>4
    DEF Environment, RefuseAccess, RefuseRefresh, GrantEnds, CacheAges, StoreAges,
        IInv, TypeOK
  <2>3. UNCHANGED <<pc, frame, resume, mode, saved>>
    BY ONLY <1>4
    DEF Environment, RefuseAccess, RefuseRefresh, GrantEnds, CacheAges, StoreAges
  <2> QED
    BY ONLY <1>b, <2>1, <2>2, <2>3 DEF SavedInv
<1>5. CASE Crash
  BY ONLY <1>a, <1>b, <1>5 DEF Crash, SavedInv, NoCache, NoPoll
<1>6. CASE UNCHANGED vars
  BY ONLY <1>b, <1>6 DEF SavedInv
<1> QED
  BY <1>1, <1>2, <1>3, <1>4, <1>5, <1>6 DEF Next

(***************************************************************************)
(* No refresh token is presented twice.                                    *)
(***************************************************************************)
\* The part of SpentInv that speaks of one task.
TaskSpent(t) ==
    /\ pc[t] \in {"grant", "retry_grant", "persist"} => frame[t].rt \in saved \ spent
    /\ pc[t] = "persist" =>
           /\ frame[t].tok \in issued \ saved
           /\ resume.at = "persist" => resume.pair # frame[t].tok

\* The file, the background poll and the histories of SpentInv.
SharedSpent ==
    /\ spent \subseteq saved
    /\ saved \subseteq issued
    /\ store.tokens \notin spent
    /\ resume.at = "persist" => resume.pair \in issued \ saved

\* A step of t that writes neither the histories nor a new pending save keeps
\* SpentInv for the other tasks.
LEMMA SpentOfOneTask ==
  ASSUME IInv, NEW t \in Tasks, Token(t) \/ Caller(t),
         UNCHANGED <<saved, spent>>, issued \subseteq issued',
         resume' = resume \/ resume'.at # "persist",
         SharedSpent', TaskSpent(t)'
  PROVE  SpentInv'
<1>1. OthersKeep(t)
  BY StepOfOneTask DEF IInv
<1>2. \A u \in Tasks : TaskSpent(u)'
  BY <1>1 DEF IInv, SpentInv, TaskSpent, OthersKeep
<1> QED
  BY <1>2 DEF SpentInv, TaskSpent, SharedSpent

\* Every step keeps SpentInv.
LEMMA NextSpentInv == IInv /\ [Next]_vars => SpentInv'
<1> SUFFICES ASSUME IInv, [Next]_vars PROVE SpentInv'
  OBVIOUS
<1>a. /\ pc \in [Tasks -> Labels] /\ frame \in [Tasks -> Frames]
      /\ None \notin Pairs /\ issued \subseteq Pairs
      /\ \A t \in Tasks : frame[t] \in Frames
      /\ \A t \in Tasks : frame[t].tok \in Pairs \cup {None}
      /\ resume \in [at : {"none", "poll", "persist", "seed"},
                     code : Codes \cup {None}, pair : Pairs \cup {None}]
  BY AuthAssumption, FieldTypes DEF IInv, TypeOK
<1>b. SharedSpent /\ \A t \in Tasks : TaskSpent(t)
  BY DEF IInv, SpentInv, SharedSpent, TaskSpent
<1>c. store.tokens # None => store.tokens \in saved \ spent
  BY <1>b DEF IInv, SavedInv, SharedSpent
<1>d. None \notin spent
  BY <1>a, <1>b DEF SharedSpent
<1> USE DEF TaskSpent, SharedSpent, Goto, tokenVars, taskVars, serverVars, history, vars
<1>1. ASSUME NEW t \in Tasks, Token(t) PROVE SpentInv'
  <2> DEFINE goal ==
        /\ UNCHANGED <<saved, spent>>
        /\ issued \subseteq issued'
        /\ resume' = resume
        /\ SharedSpent'
        /\ TaskSpent(t)'
  <2>a. goal => SpentInv'
    BY <1>1, SpentOfOneTask
  <2> HIDE DEF goal
  <2>1. CASE ReadCache(t)
    <3>1. goal
      BY ONLY <1>a, <1>b, <2>1, t \in Tasks DEF goal, ReadCache
    <3> QED
      BY <2>a, <3>1
  <2>2. CASE WriteLock(t)
    <3>1. goal
      BY ONLY <1>a, <1>b, <2>2, t \in Tasks DEF goal, WriteLock
    <3> QED
      BY <2>a, <3>1
  <2>3. CASE Seed(t)
    <3>1. goal
      BY ONLY <1>a, <1>b, <2>3, t \in Tasks DEF goal, Seed
    <3> QED
      BY <2>a, <3>1
  <2>4. CASE Fetch(t)
    <3>1. goal
      BY ONLY <1>a, <1>b, <2>4, t \in Tasks DEF goal, Fetch, Issue, Fail
    <3> QED
      BY <2>a, <3>1
  <2>5. CASE TakeForce(t)
    <3>1. goal
      BY ONLY <1>a, <1>b, <2>5, t \in Tasks DEF goal, TakeForce
    <3> QED
      BY <2>a, <3>1
  <2>6. CASE Load(t)
    <3> DEFINE loaded == [frame EXCEPT ![t] = [@ EXCEPT !.tok = store.tokens,
                                                        !.live = store.age = "live"]]
    <3>1. pc'[t] = "grant" => /\ frame' = [loaded EXCEPT ![t].rt = store.tokens]
                              /\ store.tokens # None
      BY ONLY <1>a, <2>6, t \in Tasks DEF Load, Fail, Refreshable, HasRefresh
    <3>2. [loaded EXCEPT ![t].rt = store.tokens][t].rt = store.tokens
      BY ONLY <1>a, t \in Tasks DEF Frames
    <3>3. pc'[t] = "grant" => frame'[t].rt = store.tokens /\ store.tokens # None
      BY ONLY <3>1, <3>2
    <3>4. pc'[t] \in {"grant", "seed", "failed"}
      BY ONLY <1>a, <2>6, t \in Tasks DEF Load, Fail
    <3>5. UNCHANGED <<saved, spent, issued, resume, store>>
      BY ONLY <2>6 DEF Load
    <3>6. goal
      BY ONLY <1>b, <1>c, <3>3, <3>4, <3>5 DEF goal
    <3> QED
      BY <2>a, <3>6
  <2>7. CASE GrantRotates(t)
    <3>1. PICK n \in Pairs \ issued : /\ issued' = issued \cup {n}
                                      /\ frame' = [frame EXCEPT ![t].tok = n]
      BY ONLY <2>7 DEF GrantRotates, Issue
    <3>2. frame'[t].tok = n /\ frame'[t].rt = frame[t].rt
      BY ONLY <1>a, <3>1, t \in Tasks DEF Frames
    <3>3. /\ UNCHANGED <<saved, spent, resume, store>>
          /\ pc[t] \in {"grant", "retry_grant"} /\ pc'[t] = "persist"
      BY ONLY <1>a, <2>7, t \in Tasks DEF GrantRotates
    <3>4. goal
      BY ONLY <1>b, <3>1, <3>2, <3>3, t \in Tasks DEF goal
    <3> QED
      BY <2>a, <3>4
  <2>8. CASE GrantRejected(t)
    <3>1. goal
      BY ONLY <1>a, <1>b, <2>8, t \in Tasks DEF goal, GrantRejected
    <3> QED
      BY <2>a, <3>1
  <2>9. CASE GrantTransient(t)
    <3>1. goal
      BY ONLY <1>a, <1>b, <2>9, t \in Tasks DEF goal, GrantTransient, Issue, Fail
    <3> QED
      BY <2>a, <3>1
  <2>10. CASE Reload(t)
    <3>1. pc'[t] = "retry_grant" => /\ frame' = [frame EXCEPT ![t].rt = store.tokens]
                                    /\ store.tokens # None
      BY ONLY <1>a, <2>10, t \in Tasks DEF Reload, Fail, HasRefresh
    <3>2. [frame EXCEPT ![t].rt = store.tokens][t].rt = store.tokens
      BY ONLY <1>a, t \in Tasks DEF Frames
    <3>3. pc'[t] = "retry_grant" => frame'[t].rt = store.tokens /\ store.tokens # None
      BY ONLY <3>1, <3>2
    <3>4. /\ pc'[t] \in {"retry_grant", "wipe", "failed"}
          /\ UNCHANGED <<saved, spent, issued, resume, store>>
      BY ONLY <1>a, <2>10, t \in Tasks DEF Reload, Fail
    <3>5. goal
      BY ONLY <1>b, <1>c, <3>3, <3>4 DEF goal
    <3> QED
      BY <2>a, <3>5
  <2>11. CASE Wipe(t)
    <3>1. goal
      BY ONLY <1>a, <1>b, <1>d, <2>11, t \in Tasks DEF goal, Wipe, Fail, NoFile
    <3> QED
      BY <2>a, <3>1
  <2>12. CASE Persist(t)
    <3>1. OthersKeep(t)
      BY <1>1, StepOfOneTask DEF IInv
    <3>2. \A u \in Tasks : u # t => pc'[u] \notin {"grant", "retry_grant", "persist"}
      BY <2>12, <3>1 DEF OthersKeep, IInv, SingleFlight, Persist, Locked
    <3>3. /\ pc[t] = "persist" /\ pc'[t] \in {"seed", "failed"}
          /\ UNCHANGED <<issued, resume>>
      BY ONLY <1>a, <2>12, t \in Tasks DEF Persist, Fail
    <3>4. \A u \in Tasks : TaskSpent(u)'
      BY ONLY <3>2, <3>3
    <3>5. \/ /\ store'.tokens = frame[t].tok
             /\ saved' = saved \cup {frame[t].tok}
             /\ spent' = spent \cup {frame[t].rt}
          \/ UNCHANGED <<store, saved, spent>>
      BY ONLY <2>12 DEF Persist, SaveTokens
    <3>6. SharedSpent'
      BY ONLY <1>b, <3>3, <3>5, t \in Tasks
    <3> QED
      BY <3>4, <3>6 DEF SpentInv
  <2> QED
    BY <1>1, <2>1, <2>2, <2>3, <2>4, <2>5, <2>6, <2>7, <2>8, <2>9, <2>10,
       <2>11, <2>12 DEF Token
<1>2. ASSUME NEW t \in Tasks, Caller(t) PROVE SpentInv'
  <2>1. /\ UNCHANGED <<saved, spent, issued, store>>
        /\ resume' = resume \/ ResumePending(t)
        /\ pc'[t] \notin {"grant", "retry_grant", "persist"}
    BY ONLY <1>a, <1>2, t \in Tasks
    DEF Caller, StartUp, Restored, Bail, Dispatch, EndDispatch, Unauthorized,
        RefreshNow, SetForce, Invalidate, ResumePending, Return
  <2>2. ResumePending(t) => resume'.at = "poll"
    BY ONLY <1>a DEF ResumePending, NoPoll
  <2>3. SharedSpent' /\ TaskSpent(t)'
    BY ONLY <1>b, <2>1, <2>2
  <2> QED
    BY <1>2, <2>1, <2>2, <2>3, SpentOfOneTask
<1>3. CASE Resume
  <2>1. CASE ResumeApproved
    <3>1. PICK n \in Pairs \ issued :
             /\ issued' = issued \cup {n}
             /\ resume' = [resume EXCEPT !.at = "persist", !.pair = n]
      BY ONLY <2>1 DEF ResumeApproved, Issue
    <3>2. resume'.pair = n
      BY ONLY <1>a, <3>1
    <3>3. UNCHANGED <<store, saved, spent, pc, frame>>
      BY ONLY <2>1 DEF ResumeApproved
    <3>4. SharedSpent' /\ \A t \in Tasks : TaskSpent(t)'
      BY ONLY <1>b, <3>1, <3>2, <3>3
    <3> QED
      BY <3>4 DEF SpentInv
  <2>2. CASE ResumePersist
    <3>1. /\ UNCHANGED <<pc, frame, issued, spent>>
          /\ resume.at = "persist" /\ resume'.at # "persist"
      BY ONLY <1>a, <2>2 DEF ResumePersist, NoPoll
    <3>2. \/ store'.tokens = resume.pair /\ saved' = saved \cup {resume.pair}
          \/ UNCHANGED <<store, saved>>
      BY ONLY <2>2 DEF ResumePersist, SaveTokens
    <3>3. SharedSpent' /\ \A t \in Tasks : TaskSpent(t)'
      BY ONLY <1>b, <3>1, <3>2
    <3> QED
      BY <3>3 DEF SpentInv
  <2>3. CASE ResumeSeed \/ ResumeFails
    <3>1. /\ UNCHANGED <<store, pc, frame, issued, saved, spent>>
          /\ resume'.at # "persist"
      BY ONLY <2>3 DEF ResumeSeed, ResumeFails, NoPoll
    <3>2. SharedSpent' /\ \A t \in Tasks : TaskSpent(t)'
      BY ONLY <1>b, <3>1
    <3> QED
      BY <3>2 DEF SpentInv
  <2> QED
    BY <1>3, <2>1, <2>2, <2>3 DEF Resume
<1>4. CASE Environment
  <2>1. (store.tokens)' = store.tokens
    BY <1>4
    DEF Environment, RefuseAccess, RefuseRefresh, GrantEnds, CacheAges, StoreAges,
        IInv, TypeOK, Stores
  <2>2. UNCHANGED <<pc, frame, resume, issued, saved, spent>>
    BY ONLY <1>4
    DEF Environment, RefuseAccess, RefuseRefresh, GrantEnds, CacheAges, StoreAges
  <2>3. SharedSpent' /\ \A t \in Tasks : TaskSpent(t)'
    BY ONLY <1>b, <2>1, <2>2
  <2> QED
    BY <2>3 DEF SpentInv
<1>5. CASE Crash
  <2>1. SharedSpent' /\ \A t \in Tasks : TaskSpent(t)'
    BY ONLY <1>a, <1>b, <1>5 DEF Crash, NoPoll
  <2> QED
    BY <2>1 DEF SpentInv
<1>6. CASE UNCHANGED vars
  BY ONLY <1>b, <1>6 DEF SpentInv
<1> QED
  BY <1>1, <1>2, <1>3, <1>4, <1>5, <1>6 DEF Next

(***************************************************************************)
(* The theorems.                                                           *)
(***************************************************************************)
LEMMA InitIInv == Init => IInv
<1> SUFFICES ASSUME Init PROVE IInv
  OBVIOUS
<1>1. TypeOK
  BY InitTypeOK
<1>2. SingleFlight
  BY AuthAssumption DEF Init, SingleFlight, Locked
<1>3. store.tokens # None => store.tokens \in saved
  BY DEF Init
<1>4. SavedInv
  BY <1>3 DEF Init, SavedInv, NoCache, NoPoll
<1>5. SpentInv
  BY DEF Init, SpentInv, NoPoll
<1> QED
  BY <1>1, <1>2, <1>4, <1>5 DEF IInv

\* Every step keeps the inductive invariant.
LEMMA NextIInv == IInv /\ [Next]_vars => IInv'
  BY NextTypeOK, NextSingleFlight, NextSavedInv, NextSpentInv DEF IInv

\* The inductive invariant holds in every reachable state.
THEOREM Inductive == Spec => []IInv
  BY InitIInv, NextIInv, PTL DEF Spec

\* Every variable keeps its type.
THEOREM TypeCorrect == Spec => []TypeOK
<1>1. IInv => TypeOK
  BY DEF IInv
<1> QED
  BY <1>1, Inductive, PTL

\* token(): one resolution at a time, however many callers there are.
THEOREM SingleFlightHolds == Spec => []SingleFlight
<1>1. IInv => SingleFlight
  BY DEF IInv
<1> QED
  BY <1>1, Inductive, PTL

\* "Disk goes first": no token reaches the cache or a caller before the file.
THEOREM PersistedBeforeUseHolds == Spec => []PersistedBeforeUse
<1>1. IInv => PersistedBeforeUse
  BY DEF IInv, SavedInv, PersistedBeforeUse
<1> QED
  BY <1>1, Inductive, PTL

\* A refresh token whose successor was persisted is not presented again.
THEOREM NoDoubleSpendHolds == Spec => []NoDoubleSpend
<1>1. IInv => NoDoubleSpend
  BY DEF IInv, SpentInv, NoDoubleSpend
<1> QED
  BY <1>1, Inductive, PTL

(***************************************************************************)
(* What a step of token() does to the history in the frames.               *)
(***************************************************************************)
\* What the dispatch remembers across the resolutions it asks for.
SameHistory(f, g) == /\ f.refreshed = g.refreshed
                     /\ f.rejected = g.rejected

\* A frame is excused, or there is no rejected pair to be excused for.
Absolved(f) == f.rejected # None => f.excused

\* A step of token() by t keeps every frame's refreshed and rejected, takes no
\* excuse back, and leaves the flag and the error of the others alone.
FrameStep(t) ==
    /\ \A u \in Tasks : /\ SameHistory(frame'[u], frame[u])
                        /\ Absolved(frame[u]) => Absolved(frame'[u])
                        /\ u # t => /\ frame'[u].forced = frame[u].forced
                                    /\ frame'[u].why = frame[u].why
    /\ frame'[t].why = frame[t].why \/ pc'[t] = "failed"

\* Excusing changes a frame's excuse alone, and leaves nothing to excuse.
LEMMA ExcuseFields ==
  ASSUME NEW f \in [Tasks -> Frames], NEW t \in Tasks
  PROVE  \A u \in Tasks :
            /\ SameHistory(Excuse(t, f)[u], f[u])
            /\ Excuse(t, f)[u].forced = f[u].forced
            /\ Excuse(t, f)[u].why = f[u].why
            /\ Absolved(f[u]) \/ f[t].forced => Absolved(Excuse(t, f)[u])
<1> USE DEF SameHistory, Absolved
<1> DEFINE e(u) == [f[u] EXCEPT !.excused = f[u].rejected # None]
<1>1. \A u \in Tasks : f[u] \in Frames
  OBVIOUS
<1>2. \A u \in Tasks : /\ SameHistory(e(u), f[u])
                       /\ e(u).forced = f[u].forced
                       /\ e(u).why = f[u].why
                       /\ Absolved(e(u))
  BY <1>1 DEF Frames
<1>3. CASE f[t].forced
  <2>1. Excuse(t, f) = [u \in Tasks |-> e(u)]
    BY <1>3 DEF Excuse
  <2> QED
    BY <1>2, <2>1
<1>4. CASE ~f[t].forced
  BY <1>4 DEF Excuse
<1> QED
  BY <1>3, <1>4

\* Leaving token() keeps the history and the error.
LEMMA LeaveFields ==
  ASSUME NEW f \in [Tasks -> Frames], NEW t \in Tasks, NEW p \in Pairs \cup {None}
  PROVE  /\ SameHistory(Leave(f, t, p)[t], f[t])
         /\ Leave(f, t, p)[t].excused = f[t].excused
         /\ Leave(f, t, p)[t].why = f[t].why
<1> USE DEF SameHistory, Absolved
<1> DEFINE g == [f[t] EXCEPT !.tok = p, !.rt = None, !.forced = FALSE, !.live = FALSE]
<1>1. f[t] \in Frames
  OBVIOUS
<1>2. SameHistory(g, f[t]) /\ g.excused = f[t].excused /\ g.why = f[t].why
  BY <1>1 DEF Frames
<1>3. Leave(f, t, p) = [f EXCEPT ![t] = g]
  BY DEF Leave
<1> HIDE DEF g
<1> QED
  BY <1>2, <1>3

\* A task that fails sets its own error; a forced one leaves nobody to excuse.
LEMMA FailFields ==
  ASSUME frame \in [Tasks -> Frames], pc \in [Tasks -> Labels], NEW t \in Tasks,
         NEW why \in {"reauth", "error"}, Fail(t, why)
  PROVE  /\ FrameStep(t)
         /\ frame'[t].why = why
         /\ pc'[t] = "failed"
         /\ frame[t].forced => \A u \in Tasks : Absolved(frame'[u])
<1> USE DEF SameHistory, Absolved
<1> DEFINE e == Excuse(t, frame)
           l == Leave(e, t, None)
<1>1. e \in [Tasks -> Frames]
  BY ExcuseType
<1>2. /\ l \in [Tasks -> Frames]
      /\ \A u \in Tasks : u # t => l[u] = e[u]
  BY <1>1, LeaveType
<1>3. SameHistory(l[t], e[t]) /\ l[t].excused = e[t].excused
  BY <1>1, LeaveFields
<1>4. \A u \in Tasks : /\ SameHistory(e[u], frame[u])
                       /\ e[u].forced = frame[u].forced
                       /\ e[u].why = frame[u].why
                       /\ Absolved(frame[u]) \/ frame[t].forced => Absolved(e[u])
  BY ExcuseFields
<1>5. frame' = [l EXCEPT ![t].why = why] /\ pc' = [pc EXCEPT ![t] = "failed"]
  BY DEF Fail, Goto
<1> HIDE DEF e, l
<1>6. /\ SameHistory(frame'[t], l[t]) /\ frame'[t].excused = l[t].excused
      /\ frame'[t].why = why
      /\ \A u \in Tasks : u # t => frame'[u] = l[u]
  BY <1>2, <1>5 DEF Frames
<1>7. SameHistory(frame'[t], frame[t]) /\ frame'[t].excused = e[t].excused
  BY <1>3, <1>4, <1>6
<1>8. Absolved(frame[t]) \/ frame[t].forced => Absolved(frame'[t])
  BY <1>3, <1>4, <1>6
<1>9. \A u \in Tasks : u # t =>
         /\ SameHistory(frame'[u], frame[u])
         /\ frame'[u].forced = frame[u].forced
         /\ frame'[u].why = frame[u].why
         /\ Absolved(frame[u]) \/ frame[t].forced => Absolved(frame'[u])
  BY <1>2, <1>4, <1>6
<1>10. pc'[t] = "failed"
  BY <1>5
<1>11. \A u \in Tasks : /\ SameHistory(frame'[u], frame[u])
                        /\ Absolved(frame[u]) \/ frame[t].forced => Absolved(frame'[u])
  BY <1>7, <1>8, <1>9
<1> QED
  BY <1>6, <1>9, <1>10, <1>11 DEF FrameStep

\* Every step of token() is such a step.
LEMMA TokenFrames ==
  ASSUME TypeOK, NEW t \in Tasks, Token(t)
  PROVE  FrameStep(t)
<1> USE DEF SameHistory, Absolved
<1>a. pc \in [Tasks -> Labels] /\ frame \in [Tasks -> Frames]
  BY DEF TypeOK
<1>b. /\ cache.pair \in Pairs \cup {None}
      /\ store.tokens \in Pairs \cup {None}
      /\ frame[t].tok \in Pairs \cup {None}
      /\ force_refresh \in BOOLEAN
  BY FieldTypes DEF TypeOK
<1>c. \A why \in {"reauth", "error"} : Fail(t, why) => FrameStep(t)
  BY <1>a, FailFields
<1>d. frame' = frame => FrameStep(t)
  BY DEF FrameStep
<1>1. ASSUME NEW p, frame' = [frame EXCEPT ![t].tok = p] PROVE FrameStep(t)
  BY <1>a, <1>1 DEF Frames, FrameStep
<1>2. CASE ReadCache(t)
  BY ONLY <1>1, <1>2, <1>d DEF ReadCache
<1>3. CASE WriteLock(t)
  BY ONLY <1>1, <1>3, <1>d DEF WriteLock
<1>4. CASE Seed(t)
  <2>1. frame' = Leave(frame, t, frame[t].tok)
    BY <1>4 DEF Seed
  <2>2. /\ \A u \in Tasks : u # t => frame'[u] = frame[u]
        /\ SameHistory(frame'[t], frame[t])
        /\ frame'[t].excused = frame[t].excused
        /\ frame'[t].why = frame[t].why
    BY ONLY <2>1, <1>a, <1>b, LeaveType, LeaveFields, t \in Tasks
  <2> QED
    BY ONLY <2>2, t \in Tasks DEF FrameStep
<1>5. CASE Fetch(t)
  BY ONLY <1>1, <1>5, <1>c DEF Fetch
<1>6. CASE TakeForce(t)
  <2>1. frame' = [frame EXCEPT ![t].forced = force_refresh]
    BY <1>6 DEF TakeForce
  <2> QED
    BY <1>a, <2>1 DEF Frames, FrameStep
<1>7. CASE Load(t)
  <2> DEFINE loaded == [frame EXCEPT ![t] = [@ EXCEPT !.tok = store.tokens,
                                                      !.live = store.age = "live"]]
  <2>1. (store.age = "live") \in BOOLEAN
    OBVIOUS
  <2>2. loaded \in [Tasks -> Frames] /\ \A u \in Tasks : u # t => loaded[u] = frame[u]
    BY ONLY <2>1, <1>a, <1>b, SetLoaded, t \in Tasks
  <2>3. /\ SameHistory(loaded[t], frame[t]) /\ loaded[t].excused = frame[t].excused
        /\ loaded[t].why = frame[t].why /\ loaded[t].forced = frame[t].forced
    BY <1>a DEF Frames
  <2>4. \/ frame' = loaded
        \/ frame' = [loaded EXCEPT ![t].rt = store.tokens]
        \/ frame' = Excuse(t, loaded)
        \/ Fail(t, "reauth") \/ Fail(t, "error")
    BY ONLY <1>7 DEF Load
  <2> HIDE DEF loaded
  <2>5. CASE frame' = loaded
    BY ONLY <2>2, <2>3, <2>5, t \in Tasks DEF FrameStep
  <2>6. CASE frame' = [loaded EXCEPT ![t].rt = store.tokens]
    <3>1. /\ SameHistory(frame'[t], loaded[t]) /\ frame'[t].excused = loaded[t].excused
          /\ frame'[t].why = loaded[t].why
          /\ \A u \in Tasks : u # t => frame'[u] = loaded[u]
      BY ONLY <2>2, <2>6, t \in Tasks DEF Frames
    <3> QED
      BY ONLY <2>2, <2>3, <3>1, t \in Tasks DEF FrameStep
  <2>7. CASE frame' = Excuse(t, loaded)
    <3>1. \A u \in Tasks : /\ SameHistory(frame'[u], loaded[u])
                           /\ frame'[u].forced = loaded[u].forced
                           /\ frame'[u].why = loaded[u].why
                           /\ Absolved(loaded[u]) => Absolved(frame'[u])
      BY ONLY <2>2, <2>7, ExcuseFields, t \in Tasks
    <3> QED
      BY ONLY <2>2, <2>3, <3>1, t \in Tasks DEF FrameStep
  <2> QED
    BY <2>4, <2>5, <2>6, <2>7, <1>c
<1>8. CASE GrantRotates(t)
  BY ONLY <1>1, <1>8 DEF GrantRotates
<1>9. CASE GrantRejected(t)
  BY ONLY <1>9, <1>d DEF GrantRejected
<1>10. CASE GrantTransient(t)
  <2>1. frame' = Excuse(t, frame) \/ Fail(t, "error")
    BY ONLY <1>10 DEF GrantTransient
  <2>2. CASE frame' = Excuse(t, frame)
    <3>1. \A u \in Tasks : /\ SameHistory(frame'[u], frame[u])
                           /\ frame'[u].forced = frame[u].forced
                           /\ frame'[u].why = frame[u].why
                           /\ Absolved(frame[u]) => Absolved(frame'[u])
      BY ONLY <1>a, <2>2, ExcuseFields, t \in Tasks
    <3> QED
      BY ONLY <3>1, t \in Tasks DEF FrameStep
  <2> QED
    BY <2>1, <2>2, <1>c
<1>11. CASE Reload(t)
  <2>1. ASSUME frame' = [frame EXCEPT ![t].rt = store.tokens] PROVE FrameStep(t)
    BY <1>a, <2>1 DEF Frames, FrameStep
  <2> QED
    BY ONLY <1>11, <2>1, <1>c, <1>d DEF Reload
<1>12. CASE Wipe(t)
  BY ONLY <1>12, <1>c DEF Wipe
<1>13. CASE Persist(t)
  BY ONLY <1>13, <1>c, <1>d DEF Persist
<1> QED
  BY <1>2, <1>3, <1>4, <1>5, <1>6, <1>7, <1>8, <1>9, <1>10, <1>11, <1>12, <1>13
  DEF Token

(***************************************************************************)
(* Only a dead pair is wiped, and re-authentication is asked for only when  *)
(* it is needed.                                                           *)
(***************************************************************************)
\* The labels of a resolution that works on the pair it loaded.
Working == {"grant", "reload", "retry_grant", "persist", "wipe"}

\* What holds of the background poll, the process and the authorization
\* server.  A poll is started only where the file offers nothing to refresh,
\* so no resolution works on a pair while the poll may still replace the file.
SharedPair ==
    /\ usable \subseteq issued \ bare
    /\ phase # "serving" => resume.at = "none"
    /\ phase = "down" => \A t \in Tasks : pc[t] = "idle"
    /\ phase = "starting" =>
          \A t, u \in Tasks : pc[t] # "idle" /\ pc[u] # "idle" => t = u
    /\ resume.at \in {"poll", "persist"} =>
          ~Refreshable(store) /\ \A t \in Tasks : pc[t] \notin Working

\* What holds of one task.  The refresh token it presents is still the one in
\* the file, and once the server has rejected it, it stays dead.
TaskPair(t) ==
    /\ phase = "starting" /\ pc[t] = "failed" /\ frame[t].why = "reauth" =>
           ~Refreshable(store)
    /\ pc[t] \in {"grant", "reload", "retry_grant"} => store.tokens = frame[t].rt
    /\ pc[t] = "reload" => frame[t].rt \notin usable
    /\ pc[t] = "wipe" => store.tokens \notin usable

PairInv == SharedPair /\ \A t \in Tasks : TaskPair(t)

\* A pair that could not be refreshed cannot be refreshed later, unless the
\* file is rewritten.
LEMMA StaysUnrefreshable ==
  ASSUME ~Refreshable(store), store'.tokens = store.tokens,
         store.age = "old" => store'.age = "old", bare \subseteq bare'
  PROVE  (~Refreshable(store))'
BY DEF Refreshable, HasRefresh

\* What a step of token() changes outside the frames and the lock.
LEMMA TokenShared ==
  ASSUME IInv, NEW t \in Tasks, Token(t)
  PROVE  /\ UNCHANGED <<phase, resume, mode, refused>>
         /\ pc[t] \in Locked \cup {"read_cache", "write_lock"}
         /\ issued \subseteq issued' /\ bare \subseteq bare'
         /\ pc[t] \notin {"persist", "wipe"} => store' = store
         /\ pc[t] \in {"read_cache", "write_lock"} => UNCHANGED <<store, usable, issued>>
<1>a. pc \in [Tasks -> Labels]
  BY DEF IInv, TypeOK
<1> QED
  BY ONLY <1>a, Token(t), t \in Tasks
  DEF Token, ReadCache, WriteLock, Seed, Fetch, TakeForce, Load, GrantRotates,
      GrantRejected, GrantTransient, Reload, Wipe, Persist, Issue, Locked, Goto,
      tokenVars, serverVars, history

\* A step of token() by one task does not disturb what holds of the others.
LEMMA OthersPair ==
  ASSUME IInv, PairInv, NEW t \in Tasks, Token(t)
  PROVE  \A u \in Tasks : u # t => TaskPair(u)'
<1>1. OthersKeep(t)
  BY StepOfOneTask DEF IInv
<1>2. \A u \in Tasks : u # t => frame'[u].why = frame[u].why
  BY TokenFrames DEF IInv, FrameStep
<1>3. /\ UNCHANGED phase
      /\ pc[t] \in Locked \cup {"read_cache", "write_lock"}
      /\ pc[t] \in {"read_cache", "write_lock"} => UNCHANGED <<store, usable>>
  BY TokenShared
<1>4. \A u \in Tasks : u # t /\ phase = "starting" => pc[u] = "idle"
  BY <1>3 DEF PairInv, SharedPair, Locked
<1>5. ASSUME NEW u \in Tasks, u # t PROVE TaskPair(u)'
  <2>1. CASE pc[t] \in Locked
    <3>1. pc'[u] = pc[u] /\ pc[u] \notin Locked
      BY <1>1, <2>1, <1>5 DEF OthersKeep, IInv, SingleFlight
    <3> QED
      BY <1>3, <1>4, <1>5, <3>1 DEF TaskPair, Locked
  <2>2. CASE pc[t] \in {"read_cache", "write_lock"}
    <3>1. TaskPair(u)
      BY DEF PairInv
    <3> QED
      BY <1>1, <1>3, <1>4, <1>5, <2>2, <3>1 DEF TaskPair, OthersKeep
  <2> QED
    BY <1>3, <2>1, <2>2
<1> QED
  BY <1>5

\* Every step of token() keeps PairInv.
LEMMA TokenPair ==
  ASSUME IInv, PairInv, NEW t \in Tasks, Token(t)
  PROVE  PairInv'
<1>a. /\ pc \in [Tasks -> Labels] /\ frame \in [Tasks -> Frames]
      /\ None \notin Pairs /\ usable \subseteq Pairs
      /\ store.tokens \in Pairs \cup {None}
      /\ frame[t] \in Frames
  BY AuthAssumption, FieldTypes DEF IInv, TypeOK
<1>b. TaskPair(t) /\ SharedPair
  BY DEF PairInv
<1>c. store.tokens # None => store.tokens \in issued
  BY DEF IInv, SavedInv, SpentInv
<1>d. None \notin usable
  BY <1>a
<1>e. \A why \in {"reauth", "error"} : Fail(t, why) => frame'[t].why = why /\ pc'[t] = "failed"
  BY <1>a, FailFields
<1>f. pc' = [pc EXCEPT ![t] = pc'[t]]
  BY ONLY <1>a, Token(t), t \in Tasks
  DEF Token, ReadCache, WriteLock, Seed, Fetch, TakeForce, Load, GrantRotates,
      GrantRejected, GrantTransient, Reload, Wipe, Persist, Fail, Goto
<1>g. usable \subseteq issued \ bare
  BY <1>b DEF SharedPair
<1> DEFINE goal == /\ usable' \subseteq issued' \ bare'
                   /\ pc'[t] \in Working => pc[t] \in Working \/ Refreshable(store)
                   /\ TaskPair(t)'
<1> HIDE DEF goal
<1> USE DEF Goto, Labels, TaskPair, Working, tokenVars, taskVars, serverVars, history
<1>1. ASSUME ReadCache(t) PROVE goal
  BY ONLY <1>a, <1>g, <1>1, t \in Tasks DEF goal, ReadCache
<1>2. ASSUME WriteLock(t) PROVE goal
  BY ONLY <1>a, <1>g, <1>2, t \in Tasks DEF goal, WriteLock
<1>3. ASSUME Seed(t) PROVE goal
  BY ONLY <1>a, <1>g, <1>3, t \in Tasks DEF goal, Seed
<1>4. ASSUME Fetch(t) PROVE goal
  <2>1. pc'[t] = "seed" \/ (pc'[t] = "failed" /\ frame'[t].why = "error")
    BY ONLY <1>a, <1>e, <1>4, t \in Tasks DEF Fetch
  <2>2. usable' \subseteq issued' \ bare'
    BY ONLY <1>g, <1>4 DEF Fetch, Issue
  <2> QED
    BY ONLY <2>1, <2>2 DEF goal
<1>5. ASSUME TakeForce(t) PROVE goal
  BY ONLY <1>a, <1>g, <1>5, t \in Tasks DEF goal, TakeForce
<1>6. ASSUME Load(t) PROVE goal
  <2> DEFINE loaded == [frame EXCEPT ![t] = [@ EXCEPT !.tok = store.tokens,
                                                      !.live = store.age = "live"]]
  <2>1. UNCHANGED <<store, usable, issued, bare>>
    BY ONLY <1>6 DEF Load
  <2>2. \/ /\ pc'[t] = "grant" /\ Refreshable(store)
           /\ frame' = [loaded EXCEPT ![t].rt = store.tokens]
        \/ pc'[t] = "seed"
        \/ pc'[t] = "failed" /\ frame'[t].why = "error"
        \/ pc'[t] = "failed" /\ ~Refreshable(store)
    BY ONLY <1>a, <1>e, <1>6, t \in Tasks DEF Load, Refreshable, HasRefresh
  <2>3. [loaded EXCEPT ![t].rt = store.tokens][t].rt = store.tokens
    BY ONLY <1>a, t \in Tasks DEF Frames
  <2>4. pc'[t] = "grant" => Refreshable(store) /\ frame'[t].rt = store.tokens
    BY ONLY <2>2, <2>3
  <2>5. ~Refreshable(store) => (~Refreshable(store))'
    BY ONLY <2>1 DEF Refreshable, HasRefresh
  <2> QED
    BY ONLY <1>g, <2>1, <2>2, <2>4, <2>5 DEF goal
<1>7. ASSUME GrantRotates(t) PROVE goal
  BY ONLY <1>a, <1>g, <1>7, t \in Tasks DEF goal, GrantRotates, Issue
<1>8. ASSUME GrantRejected(t) PROVE goal
  BY ONLY <1>a, <1>b, <1>g, <1>8, t \in Tasks DEF goal, GrantRejected
<1>9. ASSUME GrantTransient(t) PROVE goal
  <2>1. pc'[t] = "seed" \/ (pc'[t] = "failed" /\ frame'[t].why = "error")
    BY ONLY <1>a, <1>e, <1>9, t \in Tasks DEF GrantTransient
  <2>2. usable' \subseteq issued' \ bare'
    BY ONLY <1>g, <1>9 DEF GrantTransient, Issue
  <2> QED
    BY ONLY <2>1, <2>2 DEF goal
<1>10. ASSUME Reload(t) PROVE goal
  <2>1. pc[t] = "reload" /\ UNCHANGED <<store, usable, issued, bare>>
    BY ONLY <1>10 DEF Reload
  <2>2. \/ pc'[t] = "wipe" /\ ~(HasRefresh(store.tokens) /\ store.tokens # frame[t].rt)
        \/ pc'[t] = "failed" /\ frame'[t].why = "error"
    BY ONLY <1>a, <1>b, <1>e, <1>10, t \in Tasks DEF Reload
  <2>3. store.tokens \notin usable
    BY ONLY <1>b, <2>1
  <2> QED
    BY ONLY <1>g, <2>1, <2>2, <2>3 DEF goal
<1>11. ASSUME Wipe(t) PROVE goal
  <2>1. /\ pc[t] = "wipe" /\ UNCHANGED <<usable, issued, bare>> /\ pc'[t] = "failed"
        /\ \/ store'.tokens = None
           \/ frame'[t].why = "error"
    BY ONLY <1>a, <1>e, <1>11, t \in Tasks DEF Wipe, NoFile
  <2>2. store'.tokens = None => (~Refreshable(store))'
    BY DEF Refreshable, HasRefresh
  <2> QED
    BY ONLY <1>g, <2>1, <2>2 DEF goal
<1>12. ASSUME Persist(t) PROVE goal
  <2>1. /\ pc[t] = "persist" /\ UNCHANGED <<usable, issued, bare>>
        /\ pc'[t] = "seed" \/ (pc'[t] = "failed" /\ frame'[t].why = "error")
    BY ONLY <1>a, <1>e, <1>12, t \in Tasks DEF Persist
  <2> QED
    BY ONLY <1>g, <2>1 DEF goal
<1>13. goal
  BY <1>1, <1>2, <1>3, <1>4, <1>5, <1>6, <1>7, <1>8, <1>9, <1>10, <1>11, <1>12 DEF Token
<1>14. SharedPair'
  <2>1. UNCHANGED <<phase, resume>> /\ bare \subseteq bare' /\ pc[t] # "idle"
    BY TokenShared DEF Locked
  <2>2. \A u \in Tasks : u # t => pc'[u] = pc[u]
    BY ONLY <1>a, <1>f
  <2>3. resume.at \in {"poll", "persist"} => pc[t] \notin Working /\ ~Refreshable(store)
    BY <1>b DEF SharedPair
  <2>4. resume.at \in {"poll", "persist"} => (~Refreshable(store))'
    <3>1. pc[t] \notin Working => store' = store
      BY TokenShared
    <3> QED
      BY <2>1, <2>3, <3>1, StaysUnrefreshable
  <2> QED
    BY ONLY <1>b, <1>13, <2>1, <2>2, <2>3, <2>4, t \in Tasks DEF SharedPair, goal
<1> QED
  BY <1>13, <1>14, OthersPair DEF PairInv, goal

\* Every step of a caller keeps PairInv.
LEMMA CallerPair ==
  ASSUME IInv, PairInv, NEW t \in Tasks, Caller(t)
  PROVE  PairInv'
<1>a. pc \in [Tasks -> Labels] /\ frame \in [Tasks -> Frames]
  BY DEF IInv, TypeOK
<1>b. SharedPair /\ \A u \in Tasks : TaskPair(u)
  BY DEF PairInv
<1>1. UNCHANGED <<store, usable, issued, bare>>
  BY ONLY Caller(t)
  DEF Caller, StartUp, Restored, ResumePending, Bail, Dispatch, EndDispatch, Unauthorized,
      RefreshNow, SetForce, Invalidate, tokenVars, serverVars
<1>2. (~Refreshable(store))' <=> ~Refreshable(store)
  BY <1>1 DEF Refreshable, HasRefresh
<1>3. /\ pc'[t] \notin Working \cup {"failed"}
      /\ \A u \in Tasks : u # t => pc'[u] = pc[u] /\ frame'[u] = frame[u]
  BY ONLY <1>a, Caller(t), t \in Tasks
  DEF Caller, StartUp, Restored, ResumePending, Bail, Dispatch, EndDispatch, Unauthorized,
      RefreshNow, SetForce, Invalidate, Return, Goto, Working
<1>4. \/ UNCHANGED <<phase, resume>> /\ pc[t] # "idle"
      \/ UNCHANGED <<phase, resume>> /\ phase = "serving"
      \/ UNCHANGED resume /\ phase = "down" /\ phase' \in {"starting", "serving"}
      \/ UNCHANGED resume /\ phase = "starting" /\ phase' = "serving"
      \/ UNCHANGED resume /\ phase = "starting" /\ phase' = "down"
                          /\ pc[t] # "idle" /\ pc'[t] = "idle"
      \/ /\ phase = "starting" /\ phase' = "serving"
         /\ pc[t] = "failed" /\ frame[t].why = "reauth"
         /\ pc'[t] = "idle"
  BY ONLY <1>a, Caller(t), t \in Tasks
  DEF Caller, StartUp, Restored, ResumePending, Bail, Dispatch, EndDispatch, Unauthorized,
      RefreshNow, SetForce, Invalidate, Return, Goto
<1>5. \A u \in Tasks : TaskPair(u)'
  <2>1. ASSUME NEW u \in Tasks, u # t PROVE TaskPair(u)'
    <3>1. phase' = "starting" /\ pc[u] = "failed" => phase = "starting"
      BY <1>4, <1>b DEF SharedPair
    <3> QED
      BY <1>b, <1>1, <1>2, <1>3, <2>1, <3>1 DEF TaskPair
  <2>2. TaskPair(t)'
    BY <1>3 DEF TaskPair, Working
  <2> QED
    BY <2>1, <2>2
<1>6. SharedPair'
  <2>1. phase' # "serving" => resume'.at = "none"
    BY <1>4, <1>b DEF SharedPair
  <2>2. phase' = "down" => \A u \in Tasks : pc'[u] = "idle"
    BY <1>4, <1>3, <1>b DEF SharedPair
  <2>3. phase' = "starting" =>
          \A u, v \in Tasks : pc'[u] # "idle" /\ pc'[v] # "idle" => u = v
    BY <1>4, <1>3, <1>b DEF SharedPair
  <2>4. resume'.at \in {"poll", "persist"} =>
          ~Refreshable(store) /\ \A u \in Tasks : pc'[u] \notin Working
    <3>1. CASE UNCHANGED resume
      BY <1>3, <1>b, <3>1 DEF SharedPair
    <3>2. CASE phase = "starting" /\ pc[t] = "failed" /\ frame[t].why = "reauth"
      BY <1>3, <1>b, <3>2 DEF SharedPair, TaskPair, Working
    <3> QED
      BY <1>4, <3>1, <3>2
  <2> QED
    BY <1>1, <1>2, <1>b, <2>1, <2>2, <2>3, <2>4 DEF SharedPair
<1> QED
  BY <1>5, <1>6 DEF PairInv


\* Every step keeps PairInv.
LEMMA NextPairInv == IInv /\ PairInv /\ [Next]_vars => PairInv'
<1> SUFFICES ASSUME IInv, PairInv, [Next]_vars PROVE PairInv'
  OBVIOUS
<1>a. /\ resume \in [at : {"none", "poll", "persist", "seed"},
                     code : Codes \cup {None}, pair : Pairs \cup {None}]
      /\ store \in Stores
  BY DEF IInv, TypeOK
<1>b. SharedPair /\ \A t \in Tasks : TaskPair(t)
  BY DEF PairInv
<1>c. store.tokens # None => store.tokens \in issued
  BY DEF IInv, SavedInv, SpentInv
<1>d. None \notin usable
  BY AuthAssumption DEF IInv, TypeOK
<1>1. CASE Resume
  <2>1. UNCHANGED <<phase, pc, frame>>
    BY ONLY <1>1 DEF Resume, ResumeApproved, ResumePersist, ResumeSeed, ResumeFails, tokenVars
  <2>2. phase # "serving" => resume.at = "none"
    BY <1>b DEF SharedPair
  <2>3. phase = "serving"
    BY ONLY <1>1, <2>2 DEF Resume, ResumeApproved, ResumePersist, ResumeSeed, ResumeFails
  <2>4. CASE ResumeApproved
    <3>1. PICK n \in Pairs \ issued :
             /\ issued' = issued \cup {n}
             /\ bare' \in {bare, bare \cup {n}}
             /\ usable' = usable \cup ({n} \ bare')
      BY ONLY <2>4 DEF ResumeApproved, Issue
    <3>2. UNCHANGED store /\ resume.at = "poll"
      BY ONLY <2>4 DEF ResumeApproved, tokenVars
    <3>3. ~Refreshable(store) /\ \A t \in Tasks : pc[t] \notin Working
      BY <1>b, <3>2 DEF SharedPair
    <3>4. (~Refreshable(store))'
      BY <3>1, <3>2, <3>3, StaysUnrefreshable
    <3>5. usable' \subseteq issued' \ bare'
      BY <1>b, <3>1 DEF SharedPair
    <3> QED
      BY <2>1, <2>3, <3>3, <3>4, <3>5 DEF PairInv, SharedPair, TaskPair, Working
  <2>5. CASE ResumePersist
    <3>1. UNCHANGED <<usable, issued, bare>> /\ resume.at = "persist"
      BY ONLY <2>5 DEF ResumePersist, serverVars
    <3>2. resume'.at \notin {"poll", "persist"}
      BY ONLY <1>a, <2>5 DEF ResumePersist, NoPoll
    <3>3. \A t \in Tasks : pc[t] \notin Working
      BY <1>b, <3>1 DEF SharedPair
    <3> QED
      BY <1>b, <2>1, <2>3, <3>1, <3>2, <3>3 DEF PairInv, SharedPair, TaskPair, Working
  <2>6. CASE ResumeSeed \/ ResumeFails
    <3>1. UNCHANGED <<store, usable, issued, bare>> /\ resume'.at = "none"
      BY ONLY <2>6 DEF ResumeSeed, ResumeFails, tokenVars, serverVars, NoPoll
    <3>2. (~Refreshable(store))' <=> ~Refreshable(store)
      BY <3>1 DEF Refreshable, HasRefresh
    <3> QED
      BY <1>b, <2>1, <2>3, <3>1, <3>2 DEF PairInv, SharedPair, TaskPair, Working
  <2> QED
    BY <1>1, <2>4, <2>5, <2>6 DEF Resume
<1>2. CASE Environment
  <2>1. /\ UNCHANGED <<phase, pc, frame, resume, issued, bare>> /\ usable' \subseteq usable
        /\ store' = store \/ StoreAges
    BY ONLY <1>2
    DEF Environment, RefuseAccess, RefuseRefresh, GrantEnds, CacheAges, StoreAges,
        taskVars, serverVars, tokenVars
  <2>2. store'.tokens = store.tokens /\ (store.age = "old" => store'.age = "old")
    BY ONLY <1>a, <2>1 DEF StoreAges, Stores
  <2>3. ~Refreshable(store) => (~Refreshable(store))'
    BY <2>1, <2>2, StaysUnrefreshable
  <2> QED
    BY <1>b, <2>1, <2>2, <2>3 DEF PairInv, SharedPair, TaskPair
<1>3. CASE Crash
  <2>1. /\ \A t \in Tasks : pc'[t] = "idle"
        /\ resume'.at = "none" /\ phase' = "down" /\ UNCHANGED <<usable, issued, bare>>
    BY ONLY <1>3 DEF Crash, NoPoll, serverVars
  <2> QED
    BY <1>b, <2>1 DEF PairInv, SharedPair, TaskPair
<1>4. CASE UNCHANGED vars
  <2>1. (~Refreshable(store))' <=> ~Refreshable(store)
    BY <1>4 DEF Refreshable, HasRefresh, vars, tokenVars, serverVars
  <2> QED
    BY <1>b, <1>4, <2>1
    DEF PairInv, SharedPair, TaskPair, vars, tokenVars, taskVars, serverVars
<1> QED
  BY <1>1, <1>2, <1>3, <1>4, TokenPair, CallerPair DEF Next

\* PairInv holds initially.
LEMMA InitPairInv == Init => PairInv
<1> SUFFICES ASSUME Init PROVE PairInv
  OBVIOUS
<1>1. \A t \in Tasks : pc[t] = "idle"
  BY DEF Init
<1>2. usable \subseteq issued \ bare /\ phase = "down" /\ resume.at = "none"
  BY DEF Init, NoPoll
<1> QED
  BY ONLY <1>1, <1>2 DEF PairInv, SharedPair, TaskPair

\* A step that takes the tokens out of the file found a dead pair there.
LEMMA WipeStep ==
  ASSUME IInv, PairInv, [Next]_vars, store.tokens # None, store'.tokens = None
  PROVE  store.tokens \notin usable
<1>a. store \in Stores /\ None \notin Pairs /\ issued \subseteq Pairs
  BY AuthAssumption DEF IInv, TypeOK
<1>b. SpentInv
  BY DEF IInv
<1>c. resume.at = "persist" => resume.pair # None
  BY ONLY <1>a, <1>b DEF SpentInv
<1>1. ASSUME NEW t \in Tasks, Token(t) PROVE store.tokens \notin usable
  <2>1. store' # store
    OBVIOUS
  <2>2. pc[t] \in {"persist", "wipe"}
    BY <1>1, <2>1, TokenShared
  <2>3. pc[t] = "persist" => frame[t].tok # None
    BY <1>a DEF IInv, SpentInv, TypeOK
  <2>4. pc[t] = "persist" => store'.tokens \in {store.tokens, frame[t].tok}
    BY ONLY <1>1
    DEF Token, ReadCache, WriteLock, Seed, Fetch, TakeForce, Load, GrantRotates,
        GrantRejected, GrantTransient, Reload, Wipe, Persist, SaveTokens, tokenVars
  <2>5. TaskPair(t)
    BY DEF PairInv
  <2> QED
    BY <2>2, <2>3, <2>4, <2>5 DEF TaskPair
<1>2. ASSUME NEW t \in Tasks, Caller(t) PROVE UNCHANGED store
  BY ONLY <1>2
  DEF Caller, StartUp, Restored, ResumePending, Bail, Dispatch, EndDispatch, Unauthorized,
      RefreshNow, SetForce, Invalidate, tokenVars
<1>3. CASE Resume
  <2>1. store'.tokens = store.tokens \/ (resume.at = "persist" /\ store'.tokens = resume.pair)
    <3>1. ResumeApproved \/ ResumeSeed \/ ResumeFails => UNCHANGED store
      BY DEF ResumeApproved, ResumeSeed, ResumeFails, tokenVars
    <3>2. ResumePersist =>
            /\ resume.at = "persist"
            /\ UNCHANGED store \/ store'.tokens = resume.pair
      BY DEF ResumePersist, SaveTokens
    <3> QED
      BY <1>3, <3>1, <3>2 DEF Resume
  <2> QED
    BY <1>c, <2>1
<1>4. CASE Environment \/ Crash \/ UNCHANGED vars
  <2>1. store'.tokens = store.tokens
    BY ONLY <1>a, <1>4
    DEF Environment, RefuseAccess, RefuseRefresh, GrantEnds, CacheAges, StoreAges, Crash,
        Stores, vars, tokenVars
  <2> QED
    BY <2>1
<1> QED
  BY <1>1, <1>2, <1>3, <1>4 DEF Next

\* A step that answers ReauthRequired found no refresh token worth presenting.
LEMMA ReauthStep ==
  ASSUME IInv, PairInv, [Next]_vars, NEW t \in Tasks,
         frame[t].why = "none", frame'[t].why = "reauth"
  PROVE  store.tokens \notin usable \/ store.age = "old"
<1>a. /\ pc \in [Tasks -> Labels] /\ frame \in [Tasks -> Frames]
      /\ None \notin usable
  BY AuthAssumption DEF IInv, TypeOK
<1>b. usable \subseteq issued \ bare /\ TaskPair(t)
  BY DEF PairInv, SharedPair
<1>1. CASE Token(t)
  <2>1. FrameStep(t)
    BY <1>1, TokenFrames DEF IInv
  <2>2. pc'[t] = "failed"
    BY <2>1 DEF FrameStep
  <2>3. Fail(t, "error") => frame'[t].why = "error"
    BY <1>a, FailFields
  <2>4. \/ /\ pc[t] = "load"
           /\ store.tokens = None \/ ~Refreshable(store)
        \/ pc[t] = "wipe"
    BY ONLY <1>1, <2>2, <2>3, <1>a, frame'[t].why = "reauth", t \in Tasks
    DEF Token, ReadCache, WriteLock, Seed, Fetch, TakeForce, Load, GrantRotates,
        GrantRejected, GrantTransient, Reload, Wipe, Persist, Goto
  <2> QED
    BY <1>a, <1>b, <2>4 DEF TaskPair, Refreshable, HasRefresh
<1>2. ASSUME NEW u \in Tasks, u # t, Token(u) PROVE FALSE
  BY <1>2, TokenFrames DEF IInv, FrameStep
<1>3. ASSUME NEW u \in Tasks, Caller(u) PROVE FALSE
  <2>1. \/ frame'[t] = frame[t]
        \/ frame'[t] = NewFrame
        \/ frame'[t] = [NewFrame EXCEPT !.refreshed = TRUE, !.rejected = frame[u].tok]
    BY ONLY <1>3, <1>a, t \in Tasks
    DEF Caller, StartUp, Restored, ResumePending, Bail, Dispatch, EndDispatch, Unauthorized,
        RefreshNow, SetForce, Invalidate, Return
  <2>2. NewFrame.why = "none"
    BY DEF NewFrame
  <2>3. [NewFrame EXCEPT !.refreshed = TRUE, !.rejected = frame[u].tok].why = "none"
    BY DEF NewFrame
  <2> QED
    BY <2>1, <2>2, <2>3
<1>4. CASE Resume \/ Environment \/ UNCHANGED vars
  <2>1. UNCHANGED frame
    BY ONLY <1>4
    DEF Resume, ResumeApproved, ResumePersist, ResumeSeed, ResumeFails, Environment,
        RefuseAccess, RefuseRefresh, GrantEnds, CacheAges, StoreAges, vars, taskVars
  <2> QED
    BY <2>1
<1>5. CASE Crash
  <2>1. frame'[t].why = "none"
    BY ONLY <1>5, t \in Tasks DEF Crash, NewFrame
  <2> QED
    BY <2>1
<1> QED
  BY <1>1, <1>2, <1>3, <1>4, <1>5 DEF Next

\* PairInv holds in every reachable state.
THEOREM PairInvariant == Spec => []PairInv
BY InitPairInv, NextPairInv, Inductive, PTL DEF Spec

\* The token file is cleared only of a pair the server no longer honours.
THEOREM WipesOnlyDeadPairHolds == Spec => WipesOnlyDeadPair
<1>1. IInv /\ PairInv /\ [Next]_vars
        => [store.tokens # None /\ store'.tokens = None => store.tokens \notin usable]_vars
  BY WipeStep
<1> QED
  BY <1>1, Inductive, PairInvariant, PTL DEF Spec, WipesOnlyDeadPair

\* Re-authentication is asked for only when the file has nothing to offer.
THEOREM ReauthOnlyWhenNeededHolds == Spec => ReauthOnlyWhenNeeded
<1>1. IInv /\ PairInv /\ [Next]_vars
        => [\A t \in Tasks :
              frame[t].why = "none" /\ frame'[t].why = "reauth"
                => store.tokens \notin usable \/ store.age = "old"]_vars
  BY ReauthStep
<1> QED
  BY <1>1, Inductive, PairInvariant, PTL DEF Spec, ReauthOnlyWhenNeeded

(***************************************************************************)
(* Forced refreshes.  Both properties below hold while no background poll  *)
(* seeds the cache: that write is not ordered with the resolutions, and    *)
(* run AuthResumeRace shows what it does to refresh_now.                   *)
(***************************************************************************)
NoLateSeed == resume.at # "seed"

\* The labels at which a resolution that took the flag has yet to redeem it.
Renewing == {"load", "grant", "reload", "retry_grant", "persist", "wipe"}

\* A set flag has somebody to take it: a caller that has yet to drop the
\* cache, or one on its way to the lock past an empty cache that nobody is
\* about to fill.
Claimed ==
    \/ \E t \in Tasks : pc[t] = "invalidate"
    \/ /\ ~cache.valid
       /\ \E t \in Tasks : /\ frame[t].refreshed
                           /\ pc[t] \in {"read_cache", "write_lock", "take_force"}
       /\ \A t \in Tasks : pc[t] \notin Renewing \cup {"seed"}

\* The strengthening of FlagHasTaker, with the labels each mode never reaches.
FlagInv ==
    /\ \A t \in Tasks : /\ pc[t] \in {"set_force", "invalidate"} => frame[t].refreshed
                        /\ mode # "device" => pc[t] \notin Renewing \cup {"take_force"}
    /\ mode = "device" /\ force_refresh => Claimed

\* Every step that is not the background poll's seeding keeps FlagInv.
LEMMA NextFlagInv == IInv /\ FlagInv /\ NoLateSeed /\ [Next]_vars => FlagInv'
<1> SUFFICES ASSUME IInv, FlagInv, NoLateSeed, [Next]_vars PROVE FlagInv'
  OBVIOUS
<1>a. /\ pc \in [Tasks -> Labels] /\ frame \in [Tasks -> Frames]
      /\ cache \in [pair : Pairs \cup {None}, valid : BOOLEAN]
  BY DEF IInv, TypeOK
<1>b. \A t \in Tasks : /\ pc[t] \in {"set_force", "invalidate"} => frame[t].refreshed
                       /\ mode # "device" => pc[t] \notin Renewing \cup {"take_force"}
  BY DEF FlagInv
<1>c. mode = "device" /\ force_refresh => Claimed
  BY DEF FlagInv
<1>1. ASSUME NEW t \in Tasks, Token(t) PROVE FlagInv'
  <2>1. /\ mode' = mode /\ (force_refresh' => force_refresh /\ pc[t] # "take_force")
        /\ pc[t] \in Locked \cup {"read_cache", "write_lock"}
        /\ pc'[t] \notin {"set_force", "invalidate"}
        /\ mode # "device" /\ pc'[t] \in Renewing \cup {"take_force"}
              => pc[t] \in Renewing \cup {"take_force"}
    BY ONLY <1>1, <1>a, t \in Tasks
    DEF Token, ReadCache, WriteLock, Seed, Fetch, TakeForce, Load, GrantRotates,
        GrantRejected, GrantTransient, Reload, Wipe, Persist, Fail, Goto, Locked, Renewing,
        tokenVars
  <2>2. \A u \in Tasks : u # t => pc'[u] = pc[u]
    BY <1>1, StepOfOneTask DEF OthersKeep, IInv
  <2>3. \A u \in Tasks : frame'[u].refreshed = frame[u].refreshed
    BY <1>1, TokenFrames DEF FrameStep, SameHistory, IInv
  <2>4. ASSUME mode = "device", force_refresh' PROVE Claimed'
    <3>1. CASE \E u \in Tasks : pc[u] = "invalidate"
      BY <2>1, <2>2, <3>1 DEF Claimed, Locked
    <3>2. CASE /\ ~cache.valid
               /\ \E u \in Tasks : /\ frame[u].refreshed
                                   /\ pc[u] \in {"read_cache", "write_lock", "take_force"}
               /\ \A u \in Tasks : pc[u] \notin Renewing \cup {"seed"}
      <4>1. pc[t] \in {"read_cache", "write_lock"}
        BY <2>1, <2>4, <3>2 DEF Locked, Renewing, IInv, SavedInv
      <4>2. cache' = cache /\ pc'[t] \in {"write_lock", "take_force"}
        BY ONLY <1>1, <1>a, <2>4, <3>2, <4>1, t \in Tasks
        DEF Token, ReadCache, WriteLock, Seed, Fetch, TakeForce, Load, GrantRotates,
            GrantRejected, GrantTransient, Reload, Wipe, Persist, Goto, tokenVars
      <4> QED
        BY <2>2, <2>3, <3>2, <4>1, <4>2 DEF Claimed, Renewing
    <3> QED
      BY <1>c, <2>1, <2>4, <3>1, <3>2 DEF Claimed
  <2> QED
    BY <1>b, <2>1, <2>2, <2>3, <2>4 DEF FlagInv
<1>2. ASSUME NEW t \in Tasks, Caller(t) PROVE FlagInv'
  <2>1. /\ mode' = mode
        /\ \A u \in Tasks : u # t => pc'[u] = pc[u] /\ frame'[u] = frame[u]
        /\ pc'[t] \notin Renewing \cup {"take_force", "seed"}
    BY ONLY <1>2, <1>a, t \in Tasks
    DEF Caller, StartUp, Restored, ResumePending, Bail, Dispatch, EndDispatch, Unauthorized,
        RefreshNow, SetForce, Invalidate, Return, Goto, Renewing
  <2>2. CASE SetForce(t)
    <3>1. pc[t] = "set_force" /\ pc'[t] = "invalidate" /\ frame' = frame
      BY ONLY <2>2, <1>a, t \in Tasks DEF SetForce, Goto
    <3> QED
      BY <1>b, <2>1, <3>1 DEF FlagInv, Claimed
  <2>3. CASE Invalidate(t)
    <3>1. /\ pc[t] = "invalidate" /\ pc'[t] = "read_cache" /\ frame' = frame
          /\ cache'.valid = FALSE /\ lock = None
      BY ONLY <2>3, <1>a, t \in Tasks DEF Invalidate, Goto, NoCache
    <3>2. \A u \in Tasks : pc[u] \notin Locked
      BY <3>1, AuthAssumption DEF IInv, SingleFlight
    <3> QED
      BY <1>b, <2>1, <3>1, <3>2 DEF FlagInv, Claimed, Locked, Renewing
  <2>4. CASE ~SetForce(t) /\ ~Invalidate(t)
    <3>1. /\ UNCHANGED <<cache, force_refresh>>
          /\ pc[t] \in {"idle", "have", "failed"} /\ pc'[t] # "invalidate"
          /\ pc'[t] = "set_force" => Unauthorized(t)
      BY ONLY <1>2, <2>4, <1>a, t \in Tasks
      DEF Caller, StartUp, Restored, ResumePending, Bail, Dispatch, EndDispatch,
          Unauthorized, RefreshNow, Return, Goto, tokenVars
    <3>2. Unauthorized(t) => frame'[t].refreshed
      BY ONLY <1>a, t \in Tasks DEF Unauthorized, NewFrame
    <3>3. Claimed => Claimed'
      BY <2>1, <3>1 DEF Claimed
    <3> QED
      BY <1>b, <1>c, <2>1, <3>1, <3>2, <3>3 DEF FlagInv
  <2> QED
    BY <2>2, <2>3, <2>4
<1>3. CASE Resume
  <2>1. UNCHANGED <<cache, force_refresh, pc, frame, mode>>
    <3>1. ~ResumeSeed
      BY DEF NoLateSeed, ResumeSeed
    <3>2. /\ ResumeApproved => UNCHANGED <<cache, force_refresh, pc, frame, mode>>
          /\ ResumePersist => UNCHANGED <<cache, force_refresh, pc, frame, mode>>
          /\ ResumeFails => UNCHANGED <<cache, force_refresh, pc, frame, mode>>
      BY DEF ResumeApproved, ResumePersist, ResumeFails, tokenVars
    <3> QED
      BY <1>3, <3>1, <3>2 DEF Resume
  <2> QED
    BY <2>1 DEF FlagInv, Claimed
<1>4. CASE Environment
  <2>1. UNCHANGED <<force_refresh, pc, frame, mode>> /\ (cache'.valid => cache.valid)
    BY ONLY <1>4, <1>a
    DEF Environment, RefuseAccess, RefuseRefresh, GrantEnds, CacheAges, StoreAges, tokenVars,
        taskVars
  <2> QED
    BY <2>1 DEF FlagInv, Claimed
<1>5. CASE Crash
  <2>1. force_refresh' = FALSE /\ \A t \in Tasks : pc'[t] = "idle"
    BY ONLY <1>5 DEF Crash
  <2> QED
    BY <2>1 DEF FlagInv, Renewing
<1>6. CASE UNCHANGED vars
  BY <1>6 DEF FlagInv, Claimed, vars, tokenVars, taskVars
<1> QED
  BY <1>1, <1>2, <1>3, <1>4, <1>5, <1>6 DEF Next

\* FlagInv holds initially: the flag is clear and every task is idle.
LEMMA InitFlagInv == Init => FlagInv
BY DEF Init, FlagInv, Renewing

\* While no background poll seeds the cache, a set flag has a taker: no
\* rotation is left over that nobody asked for.
THEOREM FlagHasTakerHolds == Spec /\ []NoLateSeed => []FlagHasTaker
<1>1. FlagInv => FlagHasTaker
  BY DEF FlagInv, Claimed, FlagHasTaker
<1> QED
  BY <1>1, InitFlagInv, NextFlagInv, Inductive, PTL DEF Spec

\* A forced resolution stays forced until it persists a new pair, or ends
\* with every caller that waits for one excused.
LEMMA ForcedStep ==
  ASSUME TypeOK, NEW t \in Tasks, Token(t), pc[t] \in Renewing, frame[t].forced
  PROVE  \/ pc'[t] \in Renewing /\ frame'[t].forced
         \/ \A u \in Tasks : Absolved(frame'[u])
         \/ /\ pc[t] = "persist" /\ pc'[t] = "seed"
            /\ store'.tokens = frame[t].tok
<1>a. pc \in [Tasks -> Labels] /\ frame \in [Tasks -> Frames]
  BY DEF TypeOK
<1>b. store.tokens \in Pairs \cup {None}
  BY FieldTypes
<1> DEFINE excused == \A u \in Tasks : Absolved(frame'[u])
           stays == pc'[t] \in Renewing /\ frame'[t].forced
           done == /\ pc[t] = "persist" /\ pc'[t] = "seed"
                   /\ store'.tokens = frame[t].tok
<1>c. ASSUME NEW why \in {"reauth", "error"}, Fail(t, why) PROVE excused
  BY <1>a, <1>c, FailFields
<1> HIDE DEF excused
<1>1. CASE Load(t)
  <2> DEFINE loaded == [frame EXCEPT ![t] = [@ EXCEPT !.tok = store.tokens,
                                                      !.live = store.age = "live"]]
  <2>1. \/ frame' = [loaded EXCEPT ![t].rt = store.tokens] /\ pc'[t] = "grant"
        \/ frame' = Excuse(t, loaded)
        \/ Fail(t, "reauth") \/ Fail(t, "error")
    BY ONLY <1>1, <1>a, frame[t].forced, t \in Tasks DEF Load, Goto
  <2>2. (store.age = "live") \in BOOLEAN
    OBVIOUS
  <2>3. loaded \in [Tasks -> Frames]
    BY ONLY <2>2, <1>a, <1>b, SetLoaded, t \in Tasks
  <2>4. loaded[t].forced = frame[t].forced
    BY ONLY <1>a, t \in Tasks DEF Frames
  <2> HIDE DEF loaded
  <2>5. [loaded EXCEPT ![t].rt = store.tokens][t].forced = loaded[t].forced
    BY ONLY <2>3, t \in Tasks DEF Frames
  <2>6. \A u \in Tasks : loaded[t].forced => Absolved(Excuse(t, loaded)[u])
    BY ONLY <2>3, ExcuseFields, t \in Tasks
  <2>7. CASE frame' = Excuse(t, loaded)
    BY <2>4, <2>6, <2>7 DEF excused
  <2>8. CASE frame' = [loaded EXCEPT ![t].rt = store.tokens] /\ pc'[t] = "grant"
    BY <2>4, <2>5, <2>8 DEF Renewing
  <2> QED
    BY <1>c, <2>1, <2>7, <2>8 DEF excused
<1>2. CASE GrantRotates(t)
  <2>1. pc'[t] = "persist" /\ \E n \in Pairs : frame' = [frame EXCEPT ![t].tok = n]
    BY ONLY <1>2, <1>a, t \in Tasks DEF GrantRotates, Goto
  <2>2. frame'[t].forced = frame[t].forced
    BY ONLY <2>1, <1>a, t \in Tasks DEF Frames
  <2> QED
    BY <2>1, <2>2 DEF Renewing
<1>3. CASE GrantRejected(t)
  BY ONLY <1>3, <1>a, frame[t].forced, t \in Tasks DEF GrantRejected, Goto, Renewing
<1>4. CASE GrantTransient(t)
  <2>1. frame' = Excuse(t, frame) \/ Fail(t, "error")
    BY ONLY <1>4 DEF GrantTransient
  <2>2. \A u \in Tasks : Absolved(Excuse(t, frame)[u])
    BY ONLY <1>a, ExcuseFields, frame[t].forced, t \in Tasks
  <2> QED
    BY <1>c, <2>1, <2>2 DEF excused
<1>5. CASE Reload(t)
  <2>1. \/ frame' = [frame EXCEPT ![t].rt = store.tokens] /\ pc'[t] = "retry_grant"
        \/ frame' = frame /\ pc'[t] = "wipe"
        \/ Fail(t, "error")
    BY ONLY <1>5, <1>a, t \in Tasks DEF Reload, Goto
  <2>2. [frame EXCEPT ![t].rt = store.tokens][t].forced = frame[t].forced
    BY ONLY <1>a, t \in Tasks DEF Frames
  <2> QED
    BY <1>c, <2>1, <2>2 DEF excused, Renewing
<1>6. CASE Wipe(t)
  <2>1. Fail(t, "reauth") \/ Fail(t, "error")
    BY ONLY <1>6 DEF Wipe
  <2> QED
    BY <1>c, <2>1 DEF excused
<1>7. CASE Persist(t)
  <2>1. done \/ Fail(t, "error")
    BY ONLY <1>7, <1>a, t \in Tasks DEF Persist, SaveTokens, Goto
  <2> QED
    BY <1>c, <2>1 DEF excused
<1>8. pc[t] \in Renewing /\ Token(t) =>
        Load(t) \/ GrantRotates(t) \/ GrantRejected(t) \/ GrantTransient(t)
          \/ Reload(t) \/ Wipe(t) \/ Persist(t)
  BY DEF Token, Renewing, ReadCache, WriteLock, Seed, Fetch, TakeForce
<1> QED
  BY <1>1, <1>2, <1>3, <1>4, <1>5, <1>6, <1>7, <1>8

\* Where the pair that is about to be cached comes from.
LEMMA SeedStep ==
  ASSUME TypeOK, NEW t \in Tasks, Token(t), pc'[t] = "seed"
  PROVE  \/ pc[t] = "load" /\ ~frame[t].forced /\ frame'[t].tok = store.tokens
         \/ \A u \in Tasks : Absolved(frame'[u])
         \/ pc[t] = "persist" /\ frame' = frame
         \/ pc[t] = "fetch" /\ frame'[t].tok \in Pairs \ issued
<1>a. pc \in [Tasks -> Labels] /\ frame \in [Tasks -> Frames]
  BY DEF TypeOK
<1>b. store.tokens \in Pairs \cup {None}
  BY FieldTypes
<1>1. CASE Load(t)
  <2> DEFINE loaded == [frame EXCEPT ![t] = [@ EXCEPT !.tok = store.tokens,
                                                      !.live = store.age = "live"]]
  <2>1. \/ frame' = loaded /\ ~frame[t].forced
        \/ frame' = Excuse(t, loaded) /\ frame[t].forced
    BY ONLY <1>1, <1>a, pc'[t] = "seed", t \in Tasks DEF Load, Fail, Goto
  <2>2. (store.age = "live") \in BOOLEAN
    OBVIOUS
  <2>3. loaded \in [Tasks -> Frames]
    BY ONLY <2>2, <1>a, <1>b, SetLoaded, t \in Tasks
  <2>4. loaded[t].forced = frame[t].forced /\ loaded[t].tok = store.tokens
    BY ONLY <1>a, t \in Tasks DEF Frames
  <2>5. pc[t] = "load"
    BY ONLY <1>1 DEF Load
  <2> HIDE DEF loaded
  <2>6. \A u \in Tasks : loaded[t].forced => Absolved(Excuse(t, loaded)[u])
    BY ONLY <2>3, ExcuseFields, t \in Tasks
  <2> QED
    BY <2>1, <2>4, <2>5, <2>6
<1>2. CASE GrantTransient(t)
  <2>1. frame' = Excuse(t, frame) /\ frame[t].forced
    BY ONLY <1>2, <1>a, pc'[t] = "seed", t \in Tasks DEF GrantTransient, Fail, Goto
  <2>2. \A u \in Tasks : Absolved(Excuse(t, frame)[u])
    BY ONLY <1>a, <2>1, ExcuseFields, t \in Tasks
  <2> QED
    BY <2>1, <2>2
<1>3. CASE Persist(t)
  BY ONLY <1>3, <1>a, pc'[t] = "seed", t \in Tasks DEF Persist, Fail, Goto
<1>4. CASE Fetch(t)
  <2>1. pc[t] = "fetch" /\ \E n \in Pairs \ issued : frame' = [frame EXCEPT ![t].tok = n]
    BY ONLY <1>4, <1>a, pc'[t] = "seed", t \in Tasks DEF Fetch, Fail, Issue, Goto
  <2> QED
    BY ONLY <2>1, <1>a, t \in Tasks DEF Frames
<1>5. Load(t) \/ GrantTransient(t) \/ Persist(t) \/ Fetch(t)
  BY ONLY <1>a, Token(t), pc'[t] = "seed", t \in Tasks
  DEF Token, ReadCache, WriteLock, Seed, TakeForce, GrantRotates, GrantRejected, Reload,
      Wipe, Fail, Goto, tokenVars
<1> QED
  BY <1>1, <1>2, <1>3, <1>4, <1>5

\* The pairs in the cache, in flight and rejected were all granted, and in
\* device mode a rejected one was in the file.
IssuedInv ==
    /\ cache.pair # None => cache.pair \in issued
    /\ \A t \in Tasks :
        /\ pc[t] \in {"grant", "seed", "have"} /\ frame[t].tok # None =>
               frame[t].tok \in issued
        /\ frame[t].rejected # None =>
               /\ frame[t].rejected \in issued
               /\ mode = "device" => frame[t].rejected \in saved

\* A caller of refresh_now that has set the flag and is not excused.
Owed(t) == ~Absolved(frame[t]) /\ pc[t] # "set_force"

\* Its rejected pair r is on its way out: the flag is set, a resolution that
\* took the flag is at work, or the file no longer holds r.
Coming(r) ==
    \/ force_refresh
    \/ \E u \in Tasks : frame[u].forced /\ pc[u] \in Renewing
    \/ store.tokens # r

\* Neither the cache nor a resolution about to fill it holds r.
Gone(r) ==
    /\ cache.valid => cache.pair # r
    /\ \A u \in Tasks :
        /\ pc[u] = "seed" => frame[u].tok # r
        /\ pc[u] = "load" /\ ~frame[u].forced => store.tokens # r

\* The strengthening of FreshAfter401.
TaskFresh(t) ==
    Owed(t) =>
        /\ mode = "device" => Coming(frame[t].rejected)
        /\ pc[t] # "invalidate" => Gone(frame[t].rejected)
        /\ pc[t] = "have" => frame[t].tok # frame[t].rejected

FreshInv == IssuedInv /\ \A t \in Tasks : TaskFresh(t)

\* A step of token() keeps IssuedInv.
LEMMA TokenIssued ==
  ASSUME IInv, IssuedInv, NEW t \in Tasks, Token(t)
  PROVE  IssuedInv'
<1>a. pc \in [Tasks -> Labels] /\ frame \in [Tasks -> Frames] /\ frame[t] \in Frames
  BY DEF IInv, TypeOK
<1>b. /\ store.tokens \in Pairs \cup {None}
      /\ store.tokens # None => store.tokens \in issued
      /\ cache.valid => cache.pair # None
      /\ cache.pair \in Pairs \cup {None} /\ frame[t].tok \in Pairs \cup {None}
  BY FieldTypes DEF IInv, SavedInv, SpentInv
<1>c. /\ UNCHANGED mode
      /\ pc[t] \in Locked \cup {"read_cache", "write_lock"}
      /\ issued \subseteq issued'
  BY TokenShared
<1>d. saved \subseteq saved'
  BY ONLY Token(t)
  DEF Token, ReadCache, WriteLock, Seed, Fetch, TakeForce, Load, GrantRotates,
      GrantRejected, GrantTransient, Reload, Wipe, Persist, SaveTokens, history
<1>e. OthersKeep(t)
  BY StepOfOneTask DEF IInv
<1>f. \A u \in Tasks : frame'[u].rejected = frame[u].rejected
  BY TokenFrames DEF IInv, FrameStep, SameHistory
<1>g. Fail(t, "reauth") \/ Fail(t, "error") => pc'[t] = "failed"
  BY ONLY <1>a, t \in Tasks DEF Fail, Goto
<1>1. cache'.pair = cache.pair \/ (pc[t] = "seed" /\ cache'.pair = frame[t].tok)
  <2>1. Seed(t) => pc[t] = "seed" /\ cache'.pair = frame[t].tok
    BY DEF Seed
  <2>2. ~Seed(t) => UNCHANGED cache
    BY ONLY Token(t)
    DEF Token, ReadCache, WriteLock, Fetch, TakeForce, Load, GrantRotates, GrantRejected,
        GrantTransient, Reload, Wipe, Persist, tokenVars
  <2> QED
    BY <2>1, <2>2
<1>2. pc'[t] = "have" =>
         \/ frame'[t].tok = cache.pair
         \/ pc[t] = "seed" /\ frame'[t].tok = frame[t].tok
  <2>1. ReadCache(t) \/ WriteLock(t) =>
          (pc'[t] = "have" => frame'[t].tok = cache.pair)
    BY ONLY <1>a, t \in Tasks DEF ReadCache, WriteLock, Goto, Frames
  <2>2. Seed(t) => pc[t] = "seed" /\ frame'[t].tok = frame[t].tok
    BY ONLY <1>a, <1>b, LeaveType, t \in Tasks DEF Seed
  <2>3. pc'[t] = "have" => ReadCache(t) \/ WriteLock(t) \/ Seed(t)
    BY ONLY <1>a, Token(t), t \in Tasks
    DEF Token, Fetch, TakeForce, Load, GrantRotates, GrantRejected, GrantTransient, Reload,
        Wipe, Persist, Fail, Goto
  <2> QED
    BY <2>1, <2>2, <2>3
<1>3. pc'[t] = "grant" => frame'[t].tok = store.tokens
  <2>1. ASSUME Load(t), pc'[t] = "grant" PROVE frame'[t].tok = store.tokens
    <3> DEFINE loaded == [frame EXCEPT ![t] = [@ EXCEPT !.tok = store.tokens,
                                                        !.live = store.age = "live"]]
    <3>1. \/ frame' = [loaded EXCEPT ![t].rt = store.tokens]
          \/ pc'[t] = "seed"
          \/ Fail(t, "reauth") \/ Fail(t, "error")
      BY ONLY <1>a, <2>1, t \in Tasks DEF Load, Goto
    <3>2. (store.age = "live") \in BOOLEAN
      OBVIOUS
    <3>3. loaded \in [Tasks -> Frames]
      BY ONLY <3>2, <1>a, <1>b, SetLoaded, t \in Tasks
    <3>4. loaded[t].tok = store.tokens
      BY ONLY <1>a, t \in Tasks DEF Frames
    <3> HIDE DEF loaded
    <3> QED
      BY ONLY <1>g, <2>1, <3>1, <3>3, <3>4, t \in Tasks DEF Frames
  <2>2. pc'[t] = "grant" => Load(t)
    BY ONLY <1>a, Token(t), t \in Tasks
    DEF Token, ReadCache, WriteLock, Seed, Fetch, TakeForce, GrantRotates, GrantRejected,
        GrantTransient, Reload, Wipe, Persist, Fail, Goto
  <2> QED
    BY <2>1, <2>2
<1>4. pc'[t] = "seed" /\ frame'[t].tok # None => frame'[t].tok \in issued'
  <2>1. CASE Load(t)
    <3>1. pc'[t] = "seed" => frame'[t].tok = store.tokens
      <4> DEFINE loaded == [frame EXCEPT ![t] = [@ EXCEPT !.tok = store.tokens,
                                                          !.live = store.age = "live"]]
      <4>1. \/ frame' = loaded \/ frame' = Excuse(t, loaded)
            \/ pc'[t] = "grant"
            \/ Fail(t, "reauth") \/ Fail(t, "error")
        BY ONLY <1>a, <2>1, t \in Tasks DEF Load, Goto
      <4>2. (store.age = "live") \in BOOLEAN
        OBVIOUS
      <4>3. loaded \in [Tasks -> Frames]
        BY ONLY <4>2, <1>a, <1>b, SetLoaded, t \in Tasks
      <4>4. loaded[t].tok = store.tokens
        BY ONLY <1>a, t \in Tasks DEF Frames
      <4> HIDE DEF loaded
      <4> QED
        BY ONLY <1>g, <4>1, <4>3, <4>4, ExcuseType, t \in Tasks
    <3> QED
      BY <1>b, <1>c, <3>1
  <2>2. CASE GrantTransient(t)
    <3>1. pc'[t] = "seed" => pc[t] = "grant" /\ frame'[t].tok = frame[t].tok
      BY ONLY <1>a, <2>2, ExcuseType, t \in Tasks DEF GrantTransient, Fail, Goto
    <3> QED
      BY <1>c, <3>1 DEF IssuedInv
  <2>3. CASE Persist(t)
    <3>1. pc'[t] = "seed" => pc[t] = "persist" /\ frame' = frame
      BY ONLY <1>a, <2>3, t \in Tasks DEF Persist, Fail, Goto
    <3> QED
      BY <1>c, <3>1 DEF IInv, SpentInv
  <2>4. CASE Fetch(t)
    <3>1. pc'[t] = "seed" =>
            \E n \in Pairs : /\ frame' = [frame EXCEPT ![t].tok = n]
                             /\ issued' = issued \cup {n}
      BY ONLY <1>a, <2>4, t \in Tasks DEF Fetch, Fail, Issue, Goto
    <3> QED
      BY ONLY <3>1, <1>a, t \in Tasks DEF Frames
  <2>5. pc'[t] = "seed" => Load(t) \/ GrantTransient(t) \/ Persist(t) \/ Fetch(t)
    BY ONLY <1>a, Token(t), t \in Tasks
    DEF Token, ReadCache, WriteLock, Seed, TakeForce, GrantRotates, GrantRejected, Reload,
        Wipe, Fail, Goto, tokenVars
  <2> QED
    BY <2>1, <2>2, <2>3, <2>4, <2>5
<1>5. (cache.pair # None => cache.pair \in issued)'
  BY <1>1, <1>c DEF IssuedInv
<1>6. /\ pc'[t] \in {"grant", "seed", "have"} /\ frame'[t].tok # None
            => frame'[t].tok \in issued'
  BY <1>2, <1>3, <1>4, <1>b, <1>c DEF IssuedInv
<1>7. \A u \in Tasks : pc'[u] \in {"grant", "seed", "have"} /\ frame'[u].tok # None
                          => frame'[u].tok \in issued'
  BY <1>6, <1>c, <1>e DEF IssuedInv, OthersKeep
<1> QED
  BY <1>5, <1>7, <1>c, <1>d, <1>f DEF IssuedInv

\* A step of token() brings no rejected pair back.
LEMMA TokenFresh ==
  ASSUME IInv, FlagInv, FreshInv, NEW t \in Tasks, Token(t), NEW v \in Tasks
  PROVE  TaskFresh(v)'
<1> DEFINE r == frame[v].rejected
<1>a. pc \in [Tasks -> Labels] /\ frame \in [Tasks -> Frames]
  BY DEF IInv, TypeOK
<1>b. FrameStep(t) /\ OthersKeep(t)
  BY TokenFrames, StepOfOneTask DEF IInv
<1>c. frame'[v].rejected = r /\ (~Absolved(frame'[v]) => ~Absolved(frame[v]))
  BY <1>b DEF FrameStep, SameHistory
<1>d. \A u \in Tasks : u # t => /\ pc'[u] = pc[u]
                                /\ frame'[u].tok = frame[u].tok
                                /\ frame'[u].forced = frame[u].forced
  BY <1>b DEF FrameStep, OthersKeep
<1>e. pc[t] \in Locked \cup {"read_cache", "write_lock"} /\ mode' = mode
  BY TokenShared
<1>f. pc'[t] \notin {"set_force", "invalidate"}
  BY ONLY <1>a, Token(t), t \in Tasks
  DEF Token, ReadCache, WriteLock, Seed, Fetch, TakeForce, Load, GrantRotates,
      GrantRejected, GrantTransient, Reload, Wipe, Persist, Fail, Goto
<1>g. TaskFresh(v) /\ IssuedInv
  BY DEF FreshInv
<1>h. force_refresh \in BOOLEAN
  BY DEF IInv, TypeOK
<1> SUFFICES ASSUME Owed(v)'
             PROVE  /\ mode = "device" => Coming(r)'
                    /\ pc'[v] # "invalidate" => Gone(r)'
                    /\ pc'[v] = "have" => frame'[v].tok # r
  BY <1>c, <1>e DEF TaskFresh
<1>1. ~Absolved(frame'[v]) /\ r # None /\ Owed(v)
  BY <1>c, <1>d, <1>e DEF Owed, Absolved, Locked
<1>2. r \in issued /\ (mode = "device" => r \in saved)
  BY <1>1, <1>g DEF IssuedInv
<1>3. /\ mode = "device" => Coming(r)
      /\ pc[v] # "invalidate" => Gone(r)
  BY <1>1, <1>g DEF TaskFresh
<1>4. mode # "device" => pc[t] \notin Renewing \cup {"take_force"}
  BY DEF FlagInv
<1>5. pc[t] = "persist" => frame[t].tok # r
  BY <1>2, <1>4 DEF IInv, SpentInv, Renewing
<1>6. mode = "device" /\ store.tokens # r => store'.tokens # r
  <2>1. pc[t] \notin {"persist", "wipe"} => store' = store
    BY TokenShared
  <2>2. CASE pc[t] = "persist"
    <3>1. store'.tokens \in {store.tokens, frame[t].tok}
      BY ONLY Token(t), <2>2
      DEF Token, ReadCache, WriteLock, Seed, Fetch, TakeForce, Load, GrantRotates,
          GrantRejected, GrantTransient, Reload, Wipe, Persist, SaveTokens, tokenVars
    <3> QED
      BY <1>5, <2>2, <3>1
  <2>3. CASE pc[t] = "wipe"
    <3>1. store'.tokens \in {store.tokens, None}
      BY ONLY Token(t), <2>3
      DEF Token, ReadCache, WriteLock, Seed, Fetch, TakeForce, Load, GrantRotates,
          GrantRejected, GrantTransient, Reload, Wipe, Persist, NoFile, tokenVars
    <3> QED
      BY <1>1, <3>1
  <2> QED
    BY <2>1, <2>2, <2>3
<1>7. pc[t] = "take_force" =>
        /\ pc'[t] = "load" /\ frame'[t].forced = force_refresh
        /\ store' = store
  <2>1. pc[t] = "take_force" => TakeForce(t)
    BY ONLY Token(t)
    DEF Token, ReadCache, WriteLock, Seed, Fetch, Load, GrantRotates, GrantRejected,
        GrantTransient, Reload, Wipe, Persist
  <2>2. TakeForce(t) => /\ pc'[t] = "load" /\ frame'[t].forced = force_refresh
                        /\ store' = store
    BY ONLY <1>a, t \in Tasks DEF TakeForce, Frames, Goto
  <2> QED
    BY <2>1, <2>2
<1>8. pc[t] # "take_force" => force_refresh' = force_refresh
  BY ONLY Token(t)
  DEF Token, ReadCache, WriteLock, Seed, Fetch, TakeForce, Load, GrantRotates,
      GrantRejected, GrantTransient, Reload, Wipe, Persist, tokenVars
<1>9. \A u \in Tasks : pc[t] \in Locked /\ pc[u] \in Locked => u = t
  BY DEF IInv, SingleFlight
<1>10. mode = "device" => Coming(r)'
  <2> SUFFICES ASSUME mode = "device" PROVE Coming(r)'
    OBVIOUS
  <2>1. CASE force_refresh
    <3>1. CASE pc[t] = "take_force"
      <4>1. frame'[t].forced /\ pc'[t] \in Renewing
        BY <1>7, <2>1, <3>1 DEF Renewing
      <4> QED
        BY <4>1 DEF Coming
    <3>2. CASE pc[t] # "take_force"
      BY <1>8, <2>1, <3>2 DEF Coming
    <3> QED
      BY <3>1, <3>2
  <2>2. ASSUME NEW u \in Tasks, frame[u].forced, pc[u] \in Renewing PROVE Coming(r)'
    <3>1. CASE u # t
      BY <1>c, <1>d, <2>2, <3>1 DEF Coming
    <3>2. CASE u = t
      <4>1. \/ pc'[t] \in Renewing /\ frame'[t].forced
            \/ pc[t] = "persist" /\ store'.tokens = frame[t].tok
        BY <1>1, <2>2, <3>2, ForcedStep DEF IInv
      <4> QED
        BY <1>c, <1>5, <3>2, <4>1 DEF Coming
    <3> QED
      BY <3>1, <3>2
  <2>3. CASE store.tokens # r
    BY <1>c, <1>6, <2>3 DEF Coming
  <2> QED
    BY <1>3, <2>1, <2>2, <2>3 DEF Coming
<1>11. pc'[v] # "invalidate" => Gone(r)'
  <2> SUFFICES ASSUME pc'[v] # "invalidate" PROVE Gone(r)'
    OBVIOUS
  <2>1. Gone(r)
    BY <1>3, <1>d, <1>e DEF Locked
  <2>2. cache'.valid => cache'.pair # r
    <3>1. Seed(t) => pc[t] = "seed" /\ cache'.pair = frame[t].tok
      BY DEF Seed
    <3>2. ~Seed(t) => UNCHANGED cache
      BY ONLY Token(t)
      DEF Token, ReadCache, WriteLock, Fetch, TakeForce, Load, GrantRotates, GrantRejected,
          GrantTransient, Reload, Wipe, Persist, tokenVars
    <3> QED
      BY <2>1, <3>1, <3>2 DEF Gone
  <2>3. ASSUME NEW u \in Tasks, pc'[u] = "seed" PROVE frame'[u].tok # r
    <3>1. CASE u # t
      BY <1>d, <2>1, <2>3, <3>1 DEF Gone
    <3>2. CASE u = t
      <4>1. \/ pc[t] = "load" /\ ~frame[t].forced /\ frame'[t].tok = store.tokens
            \/ pc[t] = "persist" /\ frame' = frame
            \/ frame'[t].tok \notin issued
        BY <1>1, <2>3, <3>2, SeedStep DEF IInv
      <4> QED
        BY <1>2, <1>5, <2>1, <3>2, <4>1 DEF Gone
    <3> QED
      BY <3>1, <3>2
  <2>4. ASSUME NEW u \in Tasks, pc'[u] = "load", ~frame'[u].forced
        PROVE  store'.tokens # r
    <3>1. CASE u # t
      <4>1. pc[u] = "load" /\ store.tokens # r /\ mode = "device"
        BY <1>d, <2>1, <2>4, <3>1 DEF Gone, FlagInv, Renewing
      <4> QED
        BY <1>6, <4>1
    <3>2. CASE u = t
      <4>1. pc[t] = "take_force"
        BY ONLY <1>a, Token(t), t \in Tasks, <2>4, <3>2
        DEF Token, ReadCache, WriteLock, Seed, Fetch, Load, TakeForce, GrantRotates,
            GrantRejected, GrantTransient, Reload, Wipe, Persist, Fail, Goto
      <4>2. mode = "device" /\ ~force_refresh /\ store' = store
        BY <1>4, <1>7, <2>4, <3>2, <4>1
      <4>3. \A w \in Tasks : pc[w] \notin Renewing
        BY <1>9, <4>1 DEF Locked, Renewing
      <4>4. Coming(r) => store.tokens # r
        BY <4>2, <4>3 DEF Coming
      <4> QED
        BY <1>3, <4>2, <4>4
    <3> QED
      BY <3>1, <3>2
  <2> QED
    BY <1>c, <2>2, <2>3, <2>4 DEF Gone
<1>12. pc'[v] = "have" => frame'[v].tok # r
  <2>1. CASE v # t
    BY <1>1, <1>d, <1>g, <2>1 DEF TaskFresh
  <2>2. CASE v = t
    <3>1. Gone(r)
      BY <1>3, <1>e, <2>2 DEF Locked
    <3>2. pc'[t] = "have" =>
            \/ cache.valid /\ frame'[t].tok = cache.pair
            \/ pc[t] = "seed" /\ frame'[t].tok = frame[t].tok
      <4>1. ReadCache(t) \/ WriteLock(t) =>
              (pc'[t] = "have" => cache.valid /\ frame'[t].tok = cache.pair)
        BY ONLY <1>a, t \in Tasks DEF ReadCache, WriteLock, Goto, Frames
      <4>2. Seed(t) => pc[t] = "seed" /\ frame'[t].tok = frame[t].tok
        BY <1>a, FieldTypes, LeaveType DEF Seed, IInv
      <4>3. pc'[t] = "have" => ReadCache(t) \/ WriteLock(t) \/ Seed(t)
        BY ONLY <1>a, Token(t), t \in Tasks
        DEF Token, Fetch, TakeForce, Load, GrantRotates, GrantRejected, GrantTransient,
            Reload, Wipe, Persist, Fail, Goto
      <4> QED
        BY <4>1, <4>2, <4>3
    <3> QED
      BY <2>2, <3>1, <3>2 DEF Gone
  <2> QED
    BY <2>1, <2>2
<1> QED
  BY <1>10, <1>11, <1>12

\* A step of a caller keeps FreshInv.
LEMMA CallerFresh ==
  ASSUME IInv, FreshInv, NEW t \in Tasks, Caller(t)
  PROVE  FreshInv'
<1>a. /\ pc \in [Tasks -> Labels] /\ frame \in [Tasks -> Frames]
      /\ refused \subseteq Pairs /\ None \notin Pairs
  BY AuthAssumption DEF IInv, TypeOK
<1>b. /\ UNCHANGED <<store, issued, saved, mode>>
      /\ \A u \in Tasks : u # t => pc'[u] = pc[u] /\ frame'[u] = frame[u]
      /\ pc'[t] \in {"idle", "read_cache", "set_force", "invalidate"}
  BY ONLY Caller(t), <1>a, t \in Tasks
  DEF Caller, StartUp, Restored, ResumePending, Bail, Dispatch, EndDispatch, Unauthorized,
      RefreshNow, SetForce, Invalidate, Return, Goto, tokenVars, serverVars, history
<1>c. IssuedInv /\ \A u \in Tasks : TaskFresh(u)
  BY DEF FreshInv
<1>1. CASE SetForce(t)
  <2>1. /\ pc'[t] = "invalidate" /\ force_refresh' = TRUE
        /\ UNCHANGED <<frame, cache>>
    BY ONLY <1>1, <1>a, t \in Tasks DEF SetForce, Goto
  <2>2. \A r : Coming(r)'
    BY <2>1 DEF Coming
  <2>3. ASSUME NEW u \in Tasks PROVE TaskFresh(u)'
    <3>1. CASE u = t
      BY <2>1, <2>2, <3>1 DEF TaskFresh
    <3>2. CASE u # t
      <4>1. TaskFresh(u) /\ (Owed(u)' => Owed(u))
        BY <1>b, <1>c, <2>1, <3>2 DEF Owed
      <4>2. Gone(frame[u].rejected) => Gone(frame[u].rejected)'
        BY <1>b, <2>1 DEF Gone
      <4> QED
        BY <1>b, <2>1, <2>2, <3>2, <4>1, <4>2 DEF TaskFresh
    <3> QED
      BY <3>1, <3>2
  <2> QED
    BY <1>b, <1>c, <2>1, <2>3 DEF FreshInv, IssuedInv
<1>2. CASE Invalidate(t)
  <2>1. /\ pc[t] = "invalidate" /\ pc'[t] = "read_cache" /\ frame' = frame
        /\ cache'.valid = FALSE /\ cache'.pair = None /\ lock = None
        /\ UNCHANGED force_refresh
    BY ONLY <1>2, <1>a, t \in Tasks DEF Invalidate, Goto, NoCache
  <2>2. \A u \in Tasks : pc'[u] \notin {"seed", "load"}
    BY <1>b, <2>1, AuthAssumption DEF IInv, SingleFlight, Locked
  <2>3. \A r : Gone(r)'
    BY <2>1, <2>2 DEF Gone
  <2>4. \A r : Coming(r) => Coming(r)'
    BY <1>b, <2>1 DEF Coming, Renewing
  <2>5. ASSUME NEW u \in Tasks PROVE TaskFresh(u)'
    <3>1. TaskFresh(u) /\ (Owed(u)' => Owed(u))
      BY <1>b, <1>c, <2>1 DEF Owed
    <3>2. pc'[u] = "have" => pc[u] = "have"
      BY <1>b, <2>1
    <3>3. Coming(frame[u].rejected) => Coming(frame[u].rejected)'
      BY <2>1, <2>4
    <3> QED
      BY <1>b, <2>1, <2>3, <3>1, <3>2, <3>3 DEF TaskFresh
  <2> QED
    BY <1>b, <1>c, <2>1, <2>5 DEF FreshInv, IssuedInv
<1>3. CASE ~SetForce(t) /\ ~Invalidate(t)
  <2>1. /\ UNCHANGED <<cache, force_refresh>>
        /\ pc[t] \in {"idle", "have", "failed"}
        /\ \/ frame'[t] = frame[t] /\ pc[t] = "idle" /\ pc'[t] \in {"idle", "read_cache"}
           \/ frame'[t] = NewFrame /\ pc'[t] = "idle"
           \/ /\ pc[t] = "have" /\ pc'[t] = "set_force" /\ frame[t].tok \in refused
              /\ frame'[t] = [NewFrame EXCEPT !.refreshed = TRUE, !.rejected = frame[t].tok]
    BY ONLY Caller(t), <1>3, <1>a, t \in Tasks
    DEF Caller, StartUp, Restored, ResumePending, Bail, Dispatch, EndDispatch, Unauthorized,
        RefreshNow, Return, Goto, tokenVars
  <2>2. NewFrame.rejected = None
    BY DEF NewFrame
  <2>3. [NewFrame EXCEPT !.refreshed = TRUE, !.rejected = frame[t].tok].rejected = frame[t].tok
    BY DEF NewFrame
  <2>4. IssuedInv'
    <3>1. pc[t] = "have" /\ frame[t].tok \in refused =>
             /\ frame[t].tok \in issued
             /\ mode = "device" => frame[t].tok \in saved
      BY <1>a, <1>c DEF IssuedInv, IInv, SavedInv
    <3>2. frame'[t].rejected # None =>
             /\ frame'[t].rejected \in issued
             /\ mode = "device" => frame'[t].rejected \in saved
      BY <1>c, <2>1, <2>2, <2>3, <3>1 DEF IssuedInv
    <3> QED
      BY <1>b, <1>c, <2>1, <3>2 DEF IssuedInv
  <2>5. \A r : (Coming(r) => Coming(r)') /\ (Gone(r) => Gone(r)')
    BY <1>b, <2>1 DEF Coming, Gone, Renewing
  <2>6. ASSUME NEW u \in Tasks PROVE TaskFresh(u)'
    <3>0. TaskFresh(u)
      BY <1>c
    <3>1. CASE u # t
      <4>1. Owed(u)' => Owed(u)
        BY <1>b, <3>1 DEF Owed
      <4>2. /\ Coming(frame[u].rejected) => Coming(frame[u].rejected)'
            /\ Gone(frame[u].rejected) => Gone(frame[u].rejected)'
        BY <1>b, <2>5, <3>1
      <4> QED
        BY <1>b, <3>0, <3>1, <4>1, <4>2 DEF TaskFresh
    <3>2. CASE u = t
      <4>1. CASE frame'[t] = frame[t] /\ pc[t] = "idle" /\ pc'[t] \in {"idle", "read_cache"}
        <5>1. /\ Coming(frame[t].rejected) => Coming(frame[t].rejected)'
              /\ Gone(frame[t].rejected) => Gone(frame[t].rejected)'
          BY <2>5, <4>1
        <5>2. Owed(t)' => Owed(t)
          BY <4>1 DEF Owed
        <5> QED
          BY <1>b, <3>0, <3>2, <4>1, <5>1, <5>2 DEF TaskFresh
      <4>2. CASE frame'[t] = NewFrame
        BY <2>2, <3>2, <4>2 DEF TaskFresh, Owed, Absolved
      <4>3. CASE pc'[t] = "set_force"
        BY <3>2, <4>3 DEF TaskFresh, Owed
      <4> QED
        BY <2>1, <4>1, <4>2, <4>3
    <3> QED
      BY <3>1, <3>2
  <2> QED
    BY <2>4, <2>6 DEF FreshInv
<1> QED
  BY <1>1, <1>2, <1>3

\* Every step that is not the background poll's seeding keeps FreshInv.
LEMMA NextFreshInv ==
  IInv /\ FlagInv /\ FreshInv /\ NoLateSeed /\ [Next]_vars => FreshInv'
<1> SUFFICES ASSUME IInv, FlagInv, FreshInv, NoLateSeed, [Next]_vars PROVE FreshInv'
  OBVIOUS
<1>a. /\ cache \in [pair : Pairs \cup {None}, valid : BOOLEAN]
      /\ store \in Stores
  BY DEF IInv, TypeOK
<1>b. IssuedInv /\ \A u \in Tasks : TaskFresh(u)
  BY DEF FreshInv
<1>1. ASSUME NEW t \in Tasks, Token(t) PROVE FreshInv'
  BY <1>1, <1>b, TokenIssued, TokenFresh DEF FreshInv
<1>2. ASSUME NEW t \in Tasks, Caller(t) PROVE FreshInv'
  BY <1>2, CallerFresh
<1>3. CASE Resume
  <2>1. ~ResumeSeed
    BY DEF NoLateSeed, ResumeSeed
  <2>2. /\ ResumeApproved => /\ UNCHANGED <<store, saved>> /\ issued \subseteq issued'
                             /\ UNCHANGED <<cache, force_refresh, pc, frame, mode>>
        /\ ResumeFails => UNCHANGED <<store, saved, issued, cache, force_refresh, pc, frame, mode>>
    BY DEF ResumeApproved, ResumeFails, Issue, tokenVars, serverVars, history
  <2>3. ResumePersist =>
          /\ resume.at = "persist" /\ issued' = issued /\ saved \subseteq saved'
          /\ store' = store \/ store'.tokens = resume.pair
          /\ UNCHANGED <<cache, force_refresh, pc, frame, mode>>
    BY DEF ResumePersist, SaveTokens, serverVars
  <2>4. /\ UNCHANGED <<cache, force_refresh, pc, frame, mode>>
        /\ issued \subseteq issued' /\ saved \subseteq saved'
        /\ store' = store \/ store'.tokens \in issued \ saved
    <3>1. resume.at = "persist" => resume.pair \in issued \ saved
      BY DEF IInv, SpentInv
    <3> QED
      BY <1>3, <2>1, <2>2, <2>3, <3>1 DEF Resume
  <2>5. \A p \in saved : store.tokens # p => store'.tokens # p
    BY <2>4
  <2>6. ASSUME NEW u \in Tasks PROVE TaskFresh(u)'
    <3> DEFINE r == frame[u].rejected
    <3>1. Owed(u)' => Owed(u) /\ r # None
      BY <2>4 DEF Owed, Absolved
    <3>2. mode = "device" /\ r # None => r \in saved
      BY <1>b DEF IssuedInv
    <3>3. mode = "device" /\ r # None /\ Coming(r) => Coming(r)'
      BY <2>4, <2>5, <3>2 DEF Coming
    <3>4. r # None /\ Gone(r) => Gone(r)'
      <4>1. \A w \in Tasks : pc[w] = "load" => mode = "device"
        BY DEF FlagInv, Renewing
      <4> QED
        BY <2>4, <2>5, <3>2, <4>1 DEF Gone
    <3> QED
      BY <1>b, <2>4, <3>1, <3>3, <3>4 DEF TaskFresh
  <2>7. IssuedInv'
    BY <1>b, <2>4 DEF IssuedInv
  <2> QED
    BY <2>6, <2>7 DEF FreshInv
<1>4. CASE Environment
  <2>1. UNCHANGED <<force_refresh, pc, frame, mode, issued, saved>>
    BY ONLY <1>4
    DEF Environment, RefuseAccess, RefuseRefresh, GrantEnds, CacheAges, StoreAges, tokenVars,
        taskVars, serverVars, history
  <2>2. /\ store'.tokens = store.tokens
        /\ cache'.pair = cache.pair /\ (cache'.valid => cache.valid)
    BY ONLY <1>4, <1>a
    DEF Environment, RefuseAccess, RefuseRefresh, GrantEnds, CacheAges, StoreAges, tokenVars,
        Stores
  <2>3. \A r : (Coming(r) => Coming(r)') /\ (Gone(r) => Gone(r)')
    BY <2>1, <2>2 DEF Coming, Gone
  <2>4. ASSUME NEW u \in Tasks PROVE TaskFresh(u)'
    <3>1. /\ Coming(frame[u].rejected) => Coming(frame[u].rejected)'
          /\ Gone(frame[u].rejected) => Gone(frame[u].rejected)'
      BY <2>1, <2>3
    <3> QED
      BY <1>b, <2>1, <3>1 DEF TaskFresh, Owed
  <2> QED
    BY <1>b, <2>1, <2>2, <2>4 DEF FreshInv, IssuedInv
<1>5. CASE Crash
  <2>1. /\ cache'.pair = None /\ UNCHANGED issued
        /\ \A t \in Tasks : pc'[t] = "idle" /\ frame'[t] = NewFrame
    BY ONLY <1>5 DEF Crash, NoCache, serverVars
  <2>2. NewFrame.rejected = None
    BY DEF NewFrame
  <2> QED
    BY <2>1, <2>2 DEF FreshInv, IssuedInv, TaskFresh, Owed, Absolved
<1>6. CASE UNCHANGED vars
  <2>1. UNCHANGED <<store, cache, force_refresh, pc, frame, mode, issued, saved>>
    BY <1>6 DEF vars, tokenVars, taskVars, serverVars, history
  <2>2. \A r : (Coming(r) => Coming(r)') /\ (Gone(r) => Gone(r)')
    BY <2>1 DEF Coming, Gone
  <2>3. ASSUME NEW u \in Tasks PROVE TaskFresh(u)'
    <3>1. /\ Coming(frame[u].rejected) => Coming(frame[u].rejected)'
          /\ Gone(frame[u].rejected) => Gone(frame[u].rejected)'
      BY <2>1, <2>2
    <3> QED
      BY <1>b, <2>1, <3>1 DEF TaskFresh, Owed
  <2> QED
    BY <1>b, <2>1, <2>3 DEF FreshInv, IssuedInv
<1> QED
  BY <1>1, <1>2, <1>3, <1>4, <1>5, <1>6 DEF Next

\* FreshInv holds initially: nothing is cached and nobody has been rejected.
LEMMA InitFreshInv == Init => FreshInv
<1> SUFFICES ASSUME Init PROVE FreshInv
  OBVIOUS
<1>1. /\ cache.pair = None
      /\ \A t \in Tasks : pc[t] = "idle" /\ frame[t] = NewFrame
  BY DEF Init, NoCache
<1>2. NewFrame.rejected = None
  BY DEF NewFrame
<1> QED
  BY ONLY <1>1, <1>2 DEF FreshInv, IssuedInv, TaskFresh, Owed, Absolved

\* While no background poll seeds the cache, refresh_now never hands a caller
\* the token its 401 was for, unless a forced resolution ended without a pair.
THEOREM FreshAfter401Holds == Spec /\ []NoLateSeed => []FreshAfter401
<1>1. FreshInv => FreshAfter401
  BY DEF FreshInv, TaskFresh, Owed, Absolved, FreshAfter401
<1>2. Spec /\ []NoLateSeed => []FlagInv
  BY InitFlagInv, NextFlagInv, Inductive, PTL DEF Spec
<1> QED
  BY <1>1, <1>2, InitFreshInv, NextFreshInv, Inductive, PTL DEF Spec

(***************************************************************************)
(* Who satisfies that hypothesis: an installation without a pending grant. *)
(***************************************************************************)
NoGrant == store.pending = None /\ resume = NoPoll

\* A server never adds a grant to the file, and polls only for one it finds there.
LEMMA NextNoGrant == TypeOK /\ NoGrant /\ [Next]_vars => NoGrant'
<1> SUFFICES ASSUME TypeOK, NoGrant, [Next]_vars PROVE NoGrant'
  OBVIOUS
<1>1. resume.at = "none"
  BY DEF NoGrant, NoPoll
<1>2. ASSUME NEW t \in Tasks, Token(t) PROVE NoGrant'
  <2>1. resume' = resume
    BY ONLY <1>2
    DEF Token, ReadCache, WriteLock, Seed, Fetch, TakeForce, Load, GrantRotates,
        GrantRejected, GrantTransient, Reload, Wipe, Persist, tokenVars
  <2>2. store' = store \/ Wipe(t) \/ Persist(t)
    BY ONLY <1>2
    DEF Token, ReadCache, WriteLock, Seed, Fetch, TakeForce, Load, GrantRotates,
        GrantRejected, GrantTransient, Reload, tokenVars
  <2>3. store'.pending \in {store.pending, None}
    BY ONLY <2>2 DEF Wipe, Persist, SaveTokens, NoFile
  <2> QED
    BY <2>1, <2>3 DEF NoGrant
<1>3. ASSUME NEW t \in Tasks, Caller(t) PROVE NoGrant'
  <2>1. ~ResumePending(t)
    BY DEF ResumePending, PendingLive, NoGrant
  <2>2. UNCHANGED <<store, resume>>
    BY ONLY <1>3, <2>1
    DEF Caller, StartUp, Restored, Bail, Dispatch, EndDispatch, Unauthorized, RefreshNow,
        SetForce, Invalidate, tokenVars
  <2> QED
    BY <2>2 DEF NoGrant
<1>4. CASE Resume
  BY <1>1, <1>4 DEF Resume, ResumeApproved, ResumePersist, ResumeSeed, ResumeFails
<1>5. CASE Environment
  <2>1. resume' = resume /\ (store' = store \/ StoreAges)
    BY ONLY <1>5
    DEF Environment, RefuseAccess, RefuseRefresh, GrantEnds, CacheAges, tokenVars, taskVars,
        StoreAges
  <2>2. store \in Stores
    BY DEF TypeOK
  <2>3. store'.pending = store.pending
    BY ONLY <2>1, <2>2 DEF StoreAges, Stores
  <2> QED
    BY <2>1, <2>3 DEF NoGrant
<1>6. CASE Crash
  BY <1>6 DEF Crash, NoGrant
<1>7. CASE UNCHANGED vars
  BY <1>7 DEF NoGrant, vars, tokenVars, taskVars
<1> QED
  BY <1>2, <1>3, <1>4, <1>5, <1>6, <1>7 DEF Next

\* The hypothesis of the two theorems above, for an installation that starts
\* without a pending grant.
THEOREM NoLateSeedHolds == Spec /\ store.pending = None => []NoLateSeed
<1>1. Init /\ store.pending = None => NoGrant
  BY DEF Init, NoGrant
<1>2. NoGrant => NoLateSeed
  BY DEF NoGrant, NoPoll, NoLateSeed
<1>3. Spec => []TypeOK
  BY TypeCorrect
<1> QED
  BY <1>1, <1>2, <1>3, NextNoGrant, PTL DEF Spec

\* An installation without a pending grant never hands a caller the token its
\* 401 was for, and never rotates a pair that nobody asked for.
THEOREM FreshWithoutGrant ==
  Spec /\ store.pending = None => []FreshAfter401 /\ []FlagHasTaker
BY NoLateSeedHolds, FreshAfter401Holds, FlagHasTakerHolds, PTL
=============================================================================
