------------------------- MODULE DeviceLoginProofs -------------------------
(***************************************************************************)
(* Theorems about DeviceLogin, for any number of runs of the command,      *)
(* codes and pairs: the types, the newest pair is kept unless two writers  *)
(* met, and, where one run at a time has the file to itself, a live code   *)
(* is on disk.                                                             *)
(***************************************************************************)
EXTENDS DeviceLogin, TLAPS

RunSet ==
    [at : {"off", "request", "load", "write", "check", "post", "save"},
     code : Codes \cup {None}, tokens : Pairs \cup {None},
     transient : 0 .. MAX_TRANSIENT_ERRORS - 1, streak : 0 .. MAX_TRANSIENT_ERRORS,
     result : Results]

\* A streak is part of the failures counted.
StreakInv == \A i \in Runs : ~At(i, "off") => run[i].streak <= run[i].transient

Busy == {"grant", "again", "save", "clear"}

TypeInv ==
    /\ TypeOK /\ StreakInv
    /\ \A i \in Runs : ~(At(i, "off") \/ At(i, "request")) => run[i].code \in Codes
    /\ \A i \in Runs : At(i, "save") => run[i].tokens \in Pairs
    /\ server.at \in Busy => server.pair \in Pairs

-----------------------------------------------------------------------------
\* Types.

\* What a step of run i is for the types: run i becomes r.
LEMMA RunBecomes ==
    ASSUME TypeOK, NEW i \in Runs, NEW r \in RunSet, run' = [run EXCEPT ![i] = r]
    PROVE  /\ run' \in [Runs -> RunSet]
           /\ run'[i] = r
           /\ \A j \in Runs : j # i => run'[j] = run[j]
BY DEF TypeOK, RunSet

\* A run that has ended, with any result and streak.
LEMMA IdleFacts ==
    /\ Idle \in RunSet /\ Idle.at = "off" /\ Idle.streak = 0 /\ Idle.transient = 0
    /\ \A result \in Results :
        [Idle EXCEPT !.result = result] \in RunSet
        /\ [Idle EXCEPT !.result = result].at = "off"
        /\ [Idle EXCEPT !.result = result].tokens = None
BY LoginAssumption DEF Idle, RunSet, Results

\* The invariant about the types holds initially.
LEMMA TypeBegins == Init => TypeInv
<1> SUFFICES ASSUME Init PROVE TypeInv
  OBVIOUS
<1>1. run \in [Runs -> RunSet] /\ \A i \in Runs : run[i].at = "off"
  BY IdleFacts DEF Init, Idle
<1>2. TypeOK
  BY <1>1 DEF Init, TypeOK, RunSet
<1> QED BY <1>1, <1>2 DEF Init, TypeInv, StreakInv, At, Busy

RunInv ==
    /\ run \in [Runs -> RunSet] /\ StreakInv
    /\ \A i \in Runs : ~(At(i, "off") \/ At(i, "request")) => run[i].code \in Codes
    /\ \A i \in Runs : At(i, "save") => run[i].tokens \in Pairs

\* A run becomes r, and r fits.
LEMMA RunFits ==
    ASSUME TypeInv, NEW i \in Runs, NEW r \in RunSet, run' = [run EXCEPT ![i] = r],
           r.at # "off" => r.streak <= r.transient,
           r.at \notin {"off", "request"} => r.code \in Codes,
           r.at = "save" => r.tokens \in Pairs
    PROVE  RunInv'
<1>1. /\ run' \in [Runs -> RunSet]
      /\ run'[i] = r
      /\ \A j \in Runs : j # i => run'[j] = run[j]
  BY RunBecomes DEF TypeInv
<1>2. StreakInv'
  BY <1>1 DEF TypeInv, StreakInv, At
<1> QED BY <1>1, <1>2 DEF TypeInv, RunInv, At

\* A run ends.
LEMMA ExitFits ==
    ASSUME TypeInv, NEW i \in Runs, NEW result \in Results, Exit(i, result)
    PROVE  RunInv'
<1> DEFINE r == [Idle EXCEPT !.result = result]
<1>1. r \in RunSet /\ r.at = "off"
  BY IdleFacts
<1>2. run' = [run EXCEPT ![i] = r]
  BY DEF Exit
<1> HIDE DEF r
<1> QED BY <1>1, <1>2, RunFits

\* A run goes on at another place with the same data.
LEMMA GotoFits ==
    ASSUME TypeInv, NEW i \in Runs, NEW label \in {"check", "post"}, At(i, "check") \/ At(i, "post"),
           Goto(i, label)
    PROVE  RunInv'
<1> DEFINE r == [run[i] EXCEPT !.at = label]
<1>1. r \in RunSet /\ r.at = label /\ r.code = run[i].code /\ r.streak = run[i].streak
      /\ r.transient = run[i].transient
  BY DEF TypeInv, TypeOK, RunSet
<1>2. run' = [run EXCEPT ![i] = r]
  BY DEF Goto
<1>3. r.streak <= r.transient /\ r.code \in Codes
  BY <1>1 DEF TypeInv, StreakInv, At
<1> HIDE DEF r
<1> QED BY <1>1, <1>2, <1>3, RunFits

\* A step of a run keeps the runs well typed.
LEMMA StepFits == ASSUME TypeInv, NEW i \in Runs, Start(i) \/ Step(i) \/ Kill(i) PROVE RunInv'
<1> USE LoginAssumption
<1>0. run[i] \in RunSet /\ store.tokens \in Pairs \cup {None} /\ store.pending \in Codes \cup {None}
  BY DEF TypeInv, TypeOK, RunSet
<1>1. CASE Start(i)
  <2> DEFINE r(at, code) == [Idle EXCEPT !.at = at, !.code = code]
  <2>1. ASSUME NEW at \in {"check", "request"}, NEW code \in Codes \cup {None},
               at = "check" => code \in Codes, run' = [run EXCEPT ![i] = r(at, code)]
        PROVE  RunInv'
    <3> DEFINE s == r(at, code)
    <3>1. s \in RunSet /\ s.streak = 0 /\ s.transient = 0 /\ s.at = at /\ s.code = code
      BY IdleFacts DEF RunSet
    <3>2. /\ s.at # "off" => s.streak <= s.transient
          /\ s.at \notin {"off", "request"} => s.code \in Codes
          /\ s.at # "save"
      BY <2>1, <3>1
    <3>3. run' = [run EXCEPT ![i] = s]
      BY <2>1
    <3> HIDE DEF s
    <3> QED BY <3>1, <3>2, <3>3, RunFits
  <2>2. CASE store.pending # None /\ store.pending \notin lapsed
    <3>1. run' = [run EXCEPT ![i] = r("check", store.pending)]
      BY <1>1, <2>2 DEF Start
    <3> QED BY <1>0, <2>1, <2>2, <3>1
  <2>3. CASE ~(store.pending # None /\ store.pending \notin lapsed)
    <3>1. run' = [run EXCEPT ![i] = r("request", None)]
      BY <1>1, <2>3 DEF Start
    <3> QED BY <1>0, <2>1, <2>3, <3>1
  <2> QED BY <2>2, <2>3
<1>2. ASSUME NEW c \in Codes, Request(i, c) PROVE RunInv'
  <2> DEFINE r == [run[i] EXCEPT !.at = "load", !.code = c]
  <2>1. r \in RunSet /\ r.at = "load" /\ r.code = c /\ r.streak <= r.transient
    BY <1>0, <1>2 DEF Request, At, RunSet, TypeInv, StreakInv
  <2>2. run' = [run EXCEPT ![i] = r]
    BY <1>2 DEF Request
  <2> HIDE DEF r
  <2> QED BY <2>1, <2>2, RunFits
<1>3. CASE Fails(i)
  BY <1>3, ExitFits DEF Fails, Results
<1>4. CASE LoadTokens(i)
  <2> DEFINE r == [run[i] EXCEPT !.at = "write", !.tokens = store.tokens]
  <2>1. r \in RunSet /\ r.at = "write" /\ r.code \in Codes /\ r.streak <= r.transient
    BY <1>0, <1>4 DEF LoadTokens, At, RunSet, TypeInv, StreakInv
  <2>2. run' = [run EXCEPT ![i] = r]
    BY <1>4 DEF LoadTokens
  <2> HIDE DEF r
  <2> QED BY <2>1, <2>2, RunFits
<1>5. CASE WritePending(i)
  <2> DEFINE r == [run[i] EXCEPT !.at = "check", !.tokens = None]
  <2>1. r \in RunSet /\ r.at = "check" /\ r.code \in Codes /\ r.streak <= r.transient
    BY <1>0, <1>5 DEF WritePending, At, RunSet, TypeInv, StreakInv
  <2>2. run' = [run EXCEPT ![i] = r]
    BY <1>5 DEF WritePending
  <2> HIDE DEF r
  <2> QED BY <2>1, <2>2, RunFits
<1>6. CASE CheckDeadline(i)
  <2>1. CASE run[i].code \in lapsed
    BY <1>6, <2>1, ExitFits DEF CheckDeadline, Results
  <2>2. CASE run[i].code \notin lapsed
    BY <1>6, <2>2, GotoFits DEF CheckDeadline
  <2> QED BY <2>1, <2>2
<1>7. CASE PollPending(i)
  <2> DEFINE r == [run[i] EXCEPT !.at = "check", !.streak = 0]
  <2>1. r \in RunSet /\ r.at = "check" /\ r.code \in Codes /\ r.streak <= r.transient
    <3>1. run[i].code \in Codes /\ 0 \in 0 .. MAX_TRANSIENT_ERRORS /\ 0 <= run[i].transient
      BY <1>0, <1>7 DEF PollPending, At, RunSet, TypeInv
    <3> QED BY <1>0, <3>1 DEF RunSet
  <2>2. run' = [run EXCEPT ![i] = r]
    BY <1>7 DEF PollPending
  <2> HIDE DEF r
  <2> QED BY <2>1, <2>2, RunFits
<1>8. ASSUME NEW p \in Pairs, PollToken(i, p) PROVE RunInv'
  <2> DEFINE r == [run[i] EXCEPT !.at = "save", !.tokens = p]
  <2>1. /\ r \in RunSet /\ r.at = "save" /\ r.code \in Codes /\ r.streak <= r.transient
        /\ r.tokens = p
    BY <1>0, <1>8 DEF PollToken, At, RunSet, TypeInv, StreakInv
  <2>2. run' = [run EXCEPT ![i] = r]
    BY <1>8 DEF PollToken
  <2> HIDE DEF r
  <2> QED BY <2>1, <2>2, RunFits
<1>9. CASE PollRefused(i)
  BY <1>9, ExitFits DEF PollRefused, Results
<1>10. CASE PollTransient(i)
  <2> DEFINE r == [run[i] EXCEPT !.at = "check", !.transient = run[i].transient + 1,
                                 !.streak = run[i].streak + 1]
             s == [Idle EXCEPT !.result = "network", !.streak = run[i].streak + 1]
  <2>1. run[i].streak <= run[i].transient /\ run[i].code \in Codes
    BY <1>10 DEF PollTransient, At, TypeInv, StreakInv
  <2>2. CASE run[i].transient + 1 >= MAX_TRANSIENT_ERRORS
    <3>0. run[i].streak + 1 \in 0 .. MAX_TRANSIENT_ERRORS
      BY <1>0, <2>1 DEF RunSet
    <3>1. s \in RunSet /\ s.at = "off"
      BY <3>0, IdleFacts DEF RunSet, Results
    <3>2. run' = [run EXCEPT ![i] = s]
      BY <1>10, <2>2 DEF PollTransient
    <3> HIDE DEF s
    <3> QED BY <3>1, <3>2, RunFits
  <2>3. CASE ~(run[i].transient + 1 >= MAX_TRANSIENT_ERRORS)
    <3>0. /\ run[i].transient + 1 \in 0 .. MAX_TRANSIENT_ERRORS - 1
          /\ run[i].streak + 1 \in 0 .. MAX_TRANSIENT_ERRORS
          /\ run[i].streak + 1 <= run[i].transient + 1
      BY <1>0, <2>1, <2>3 DEF RunSet
    <3>1. r \in RunSet /\ r.at = "check" /\ r.code \in Codes /\ r.streak <= r.transient
      BY <1>0, <2>1, <3>0 DEF RunSet
    <3>2. run' = [run EXCEPT ![i] = r]
      BY <1>10, <2>3 DEF PollTransient
    <3> HIDE DEF r
    <3> QED BY <3>1, <3>2, RunFits
  <2> QED BY <2>2, <2>3
<1>11. CASE SaveTokens(i) \/ SaveFails(i) \/ Kill(i)
  BY <1>11, ExitFits DEF SaveTokens, SaveFails, Kill, Results
<1> QED BY <1>1, <1>2, <1>3, <1>4, <1>5, <1>6, <1>7, <1>8, <1>9, <1>10, <1>11 DEF Step

\* A step of the serving process or of the environment does not touch the runs.
LEMMA EnvironmentFits == ASSUME TypeInv, Environment PROVE run' = run /\ RunInv'
<1>1. run' = run
  BY DEF Environment, Server, ServerLoads, ServerRejected, ServerSaves, ServerClears, ServerFails,
         ServerRotates, UserAnswers, Lapse, Revoke
<1> QED BY <1>1 DEF TypeInv, TypeOK, StreakInv, RunInv, RunSet, At

\* The types without the runs.
WorldInv ==
    /\ store \in [tokens : Pairs \cup {None}, pending : Codes \cup {None}]
    /\ grant \in [Codes -> {"fresh", "asked", "shown", "approved", "denied", "redeemed"}]
    /\ lapsed \subseteq Codes
    /\ server \in [at : {"absent", "idle", "grant", "again", "save", "clear"},
                   pair : Pairs \cup {None}]
    /\ fate \in [Pairs -> {"free", "alive", "dead", "lost"}]
    /\ latest \in Pairs \cup {None}
    /\ raced \in BOOLEAN
    /\ server.at \in Busy => server.pair \in Pairs

\* A step of a run keeps the types of the rest.
LEMMA StepKeepsWorld ==
    ASSUME TypeInv, NEW i \in Runs, Start(i) \/ Step(i) \/ Kill(i) PROVE WorldInv'
<1>0. /\ WorldInv /\ run[i].tokens \in Pairs \cup {None} /\ run[i].code \in Codes \cup {None}
      /\ ~(At(i, "off") \/ At(i, "request")) => run[i].code \in Codes
  BY DEF TypeInv, TypeOK, WorldInv
<1>1. CASE Start(i) \/ Fails(i) \/ LoadTokens(i) \/ CheckDeadline(i) \/ PollPending(i)
           \/ PollRefused(i)
  BY <1>0, <1>1 DEF Start, Fails, LoadTokens, CheckDeadline, PollPending, PollRefused, WorldInv,
                    world, past
<1>2. ASSUME NEW c \in Codes, Request(i, c) PROVE WorldInv'
  BY <1>0, <1>2 DEF Request, WorldInv, past
<1>3. CASE WritePending(i)
  BY <1>0, <1>3 DEF WritePending, Replace, WorldInv, At, Committed
<1>4. ASSUME NEW p \in Pairs, PollToken(i, p) PROVE WorldInv'
  BY <1>0, <1>4 DEF PollToken, Issue, WorldInv
<1>5. CASE PollTransient(i)
  <2>1. UNCHANGED <<store, server, lapsed, latest, raced>>
    BY <1>5 DEF PollTransient, past
  <2>2. CASE UNCHANGED <<grant, fate>>
    BY <1>0, <2>1, <2>2 DEF WorldInv
  <2>3. CASE /\ grant' = [grant EXCEPT ![run[i].code] = "redeemed"]
             /\ \E p \in Pairs : fate[p] = "free" /\ Lose(p)
    BY <1>0, <2>1, <2>3 DEF WorldInv, Lose
  <2> QED BY <1>5, <2>2, <2>3 DEF PollTransient
<1>6. CASE SaveTokens(i)
  BY <1>0, <1>6 DEF SaveTokens, Replace, WorldInv, world
<1>7. CASE SaveFails(i)
  BY <1>0, <1>7 DEF SaveFails, Lose, WorldInv, past
<1>8. CASE Kill(i)
  BY <1>0, <1>8 DEF Kill, Lose, WorldInv, past
<1> QED BY <1>1, <1>2, <1>3, <1>4, <1>5, <1>6, <1>7, <1>8 DEF Step

\* A step of the serving process or of the environment keeps them.
LEMMA EnvironmentKeepsWorld == ASSUME TypeInv, Environment PROVE WorldInv'
<1>0. WorldInv
  BY DEF TypeInv, TypeOK, WorldInv
<1> USE LoginAssumption
<1>1. CASE ServerLoads
  BY <1>0, <1>1 DEF ServerLoads, Serve, WorldInv, world, past, Busy
<1>2. ASSUME NEW p \in Pairs, ServerRotates(p) PROVE WorldInv'
  BY <1>0, <1>2 DEF ServerRotates, Serve, WorldInv, Busy
<1>3. CASE ServerRejected
  BY <1>0, <1>3 DEF ServerRejected, Serve, WorldInv, world, past, Busy
<1>4. CASE ServerSaves
  BY <1>0, <1>4 DEF ServerSaves, Serve, Replace, WorldInv, world, Busy
<1>5. CASE ServerClears
  BY <1>0, <1>5 DEF ServerClears, Serve, Replace, WorldInv, world, Busy
<1>6. CASE ServerFails
  BY <1>0, <1>6 DEF ServerFails, Serve, Lose, WorldInv, past, Busy
<1>7. ASSUME NEW c \in Codes, UserAnswers(c) \/ Lapse(c) PROVE WorldInv'
  BY <1>0, <1>7 DEF UserAnswers, Lapse, WorldInv, past
<1>8. ASSUME NEW p \in Pairs, Revoke(p) PROVE WorldInv'
  BY <1>0, <1>8 DEF Revoke, WorldInv, past
<1> QED BY <1>1, <1>2, <1>3, <1>4, <1>5, <1>6, <1>7, <1>8 DEF Environment, Server

\* Every step keeps the types.
LEMMA TypeKeeps == TypeInv /\ [Next]_vars => TypeInv'
<1> SUFFICES ASSUME TypeInv, [Next]_vars PROVE TypeInv'
  OBVIOUS
<1>1. TypeInv' <=> RunInv' /\ WorldInv'
  BY DEF TypeInv, TypeOK, RunInv, RunSet, WorldInv
<1>2. CASE Environment
  BY <1>1, <1>2, EnvironmentFits, EnvironmentKeepsWorld
<1>3. ASSUME NEW i \in Runs, Start(i) \/ Step(i) \/ Kill(i) PROVE TypeInv'
  BY <1>1, <1>3, StepFits, StepKeepsWorld
<1>4. CASE UNCHANGED vars
  BY <1>4 DEF vars, world, past, TypeInv, TypeOK, StreakInv, At
<1> QED BY <1>2, <1>3, <1>4 DEF Next

LEMMA TypeHolds == Spec => []TypeInv
BY TypeBegins, TypeKeeps, PTL DEF Spec

\* Every variable has its type in every state: in particular no counter of
\* failures passes MAX_TRANSIENT_ERRORS.
THEOREM TypeCorrect == Spec => []TypeOK
<1>1. TypeInv => TypeOK
  BY DEF TypeInv
<1> QED BY <1>1, TypeHolds, PTL

-----------------------------------------------------------------------------
\* The newest pair.

\* What a step of run i leaves of the runs.
LEMMA OthersKeep ==
    ASSUME TypeInv, NEW i \in Runs, Start(i) \/ Step(i) \/ Kill(i)
    PROVE  \A j \in Runs : j # i => run'[j] = run[j]
BY DEF TypeInv, TypeOK, Start, Step, Kill, Request, Fails, LoadTokens, WritePending, CheckDeadline,
       PollPending, PollToken, PollRefused, PollTransient, SaveTokens, SaveFails, Exit, Goto

\* Where a step takes run i, and with which pair and code.
LEMMA RunStep ==
    ASSUME TypeInv, NEW i \in Runs
    PROVE  /\ Start(i) => /\ run'[i].at \in {"check", "request"} /\ run'[i].tokens = None
                          /\ run'[i].at = "check" => store.pending # None
                                                     /\ run'[i].code = store.pending
                          /\ run'[i].at = "request" => \/ store.pending = None
                                                       \/ store.pending \in lapsed
           /\ \A c \in Codes : Request(i, c) => /\ run'[i].at = "load" /\ run'[i].code = c
                                                /\ run'[i].tokens = run[i].tokens
           /\ LoadTokens(i) => /\ run'[i].at = "write" /\ run'[i].tokens = store.tokens
                               /\ run'[i].code = run[i].code
           /\ WritePending(i) => /\ run'[i].at = "check" /\ run'[i].tokens = None
                                 /\ run'[i].code = run[i].code
           /\ PollPending(i) => /\ run'[i].at = "check" /\ run'[i].tokens = run[i].tokens
                                /\ run'[i].code = run[i].code
           /\ \A p \in Pairs : PollToken(i, p) => /\ run'[i].at = "save" /\ run'[i].tokens = p
                                                  /\ run'[i].code = run[i].code
           /\ \A result \in Results : Exit(i, result) => run'[i].at = "off" /\ run'[i].tokens = None
           /\ Goto(i, "post") => /\ run'[i].at = "post" /\ run'[i].tokens = run[i].tokens
                                 /\ run'[i].code = run[i].code
           /\ PollTransient(i) => \/ run'[i].at = "off" /\ run'[i].tokens = None
                                  \/ /\ run'[i].at = "check" /\ run'[i].tokens = run[i].tokens
                                     /\ run'[i].code = run[i].code
<1>0. /\ run \in [Runs -> RunSet] /\ run[i] \in RunSet
      /\ store.pending \in Codes \cup {None}
  BY DEF TypeInv, TypeOK, RunSet
<1>1. ASSUME Start(i)
      PROVE  /\ run'[i].at \in {"check", "request"} /\ run'[i].tokens = None
             /\ run'[i].at = "check" => store.pending # None /\ run'[i].code = store.pending
             /\ run'[i].at = "request" => store.pending = None \/ store.pending \in lapsed
  <2> DEFINE r(at, code) == [Idle EXCEPT !.at = at, !.code = code]
  <2>1. ASSUME NEW at, NEW code
        PROVE  r(at, code).at = at /\ r(at, code).code = code /\ r(at, code).tokens = None
    BY IdleFacts DEF RunSet, Idle
  <2>2. CASE store.pending # None /\ store.pending \notin lapsed
    <3>1. run'[i] = r("check", store.pending)
      BY <1>0, <1>1, <2>2 DEF Start
    <3> QED BY <2>1, <2>2, <3>1
  <2>3. CASE ~(store.pending # None /\ store.pending \notin lapsed)
    <3>1. run'[i] = r("request", None)
      BY <1>0, <1>1, <2>3 DEF Start
    <3> QED BY <2>1, <2>3, <3>1
  <2> QED BY <2>2, <2>3
<1>2. ASSUME NEW c \in Codes, Request(i, c)
      PROVE  run'[i].at = "load" /\ run'[i].code = c /\ run'[i].tokens = run[i].tokens
  BY <1>0, <1>2 DEF Request, RunSet
<1>3. ASSUME LoadTokens(i)
      PROVE  /\ run'[i].at = "write" /\ run'[i].tokens = store.tokens
             /\ run'[i].code = run[i].code
  BY <1>0, <1>3 DEF LoadTokens, RunSet
<1>4. ASSUME WritePending(i)
      PROVE  run'[i].at = "check" /\ run'[i].tokens = None /\ run'[i].code = run[i].code
  BY <1>0, <1>4 DEF WritePending, RunSet
<1>5. ASSUME PollPending(i)
      PROVE  run'[i].at = "check" /\ run'[i].tokens = run[i].tokens /\ run'[i].code = run[i].code
  BY <1>0, <1>5 DEF PollPending, RunSet
<1>6. ASSUME NEW p \in Pairs, PollToken(i, p)
      PROVE  run'[i].at = "save" /\ run'[i].tokens = p /\ run'[i].code = run[i].code
  BY <1>0, <1>6 DEF PollToken, RunSet
<1>7. ASSUME NEW result \in Results, Exit(i, result)
      PROVE  run'[i].at = "off" /\ run'[i].tokens = None
  BY <1>0, <1>7, IdleFacts DEF Exit
<1>8. ASSUME Goto(i, "post")
      PROVE  run'[i].at = "post" /\ run'[i].tokens = run[i].tokens /\ run'[i].code = run[i].code
  BY <1>0, <1>8 DEF Goto, RunSet
<1>9. ASSUME PollTransient(i)
      PROVE  \/ run'[i].at = "off" /\ run'[i].tokens = None
             \/ /\ run'[i].at = "check" /\ run'[i].tokens = run[i].tokens
                /\ run'[i].code = run[i].code
  <2>1. CASE run[i].transient + 1 >= MAX_TRANSIENT_ERRORS
    <3>1. run'[i] = [Idle EXCEPT !.result = "network", !.streak = run[i].streak + 1]
      BY <1>0, <1>9, <2>1 DEF PollTransient
    <3>2. Idle \in RunSet /\ Idle.at = "off" /\ Idle.tokens = None
      BY IdleFacts DEF Idle
    <3> QED BY <3>1, <3>2 DEF RunSet
  <2>2. CASE ~(run[i].transient + 1 >= MAX_TRANSIENT_ERRORS)
    BY <1>0, <1>9, <2>2 DEF PollTransient, RunSet
  <2> QED BY <2>1, <2>2
<1> QED BY <1>1, <1>2, <1>3, <1>4, <1>5, <1>6, <1>7, <1>8, <1>9

\* What a process holds has been issued.
KnownInv ==
    /\ store.tokens # None => fate[store.tokens] # "free"
    /\ latest # None => fate[latest] # "free"
    /\ \A i \in Runs : run[i].tokens # None => fate[run[i].tokens] # "free"
    /\ server.at \in Busy => fate[server.pair] # "free"

\* While no two writers have met, a writer holds what is in the file, or
\* replaces something older.
WritersInv ==
    ~raced =>
        /\ \A i \in Runs : At(i, "write") => run[i].tokens = store.tokens
        /\ \A i \in Runs : At(i, "save") /\ latest = store.tokens => run[i].tokens = latest
        /\ server.at = "save" /\ latest = store.tokens => server.pair = latest
        /\ server.at = "again" => server.pair = store.tokens
        /\ server.at = "clear" => store.tokens \in {None, server.pair} /\ fate[server.pair] # "alive"

KeptInv == KnownInv /\ WritersInv /\ NewestPairKept

\* What is issued stays so, and only a grant makes a pair alive.
LEMMA FateGrows ==
    ASSUME TypeInv, [Next]_vars
    PROVE  \A p \in Pairs : fate[p] # "free" =>
               fate'[p] # "free" /\ (fate'[p] = "alive" => fate[p] = "alive")
<1> SUFFICES ASSUME NEW p \in Pairs, fate[p] # "free"
             PROVE  fate'[p] # "free" /\ (fate'[p] = "alive" => fate[p] = "alive")
  OBVIOUS
<1>0. fate \in [Pairs -> {"free", "alive", "dead", "lost"}]
  BY DEF TypeInv, TypeOK
<1>1. CASE fate' = fate
  BY <1>1
<1>2. ASSUME NEW q \in Pairs, Issue(q)
      PROVE  fate'[p] # "free" /\ (fate'[p] = "alive" => fate[p] = "alive")
  BY <1>0, <1>2 DEF Issue
<1>3. ASSUME NEW q, Lose(q)
      PROVE  fate'[p] # "free" /\ (fate'[p] = "alive" => fate[p] = "alive")
  BY <1>0, <1>3 DEF Lose
<1>4. ASSUME NEW q \in Pairs, ServerRotates(q)
      PROVE  fate'[p] # "free" /\ (fate'[p] = "alive" => fate[p] = "alive")
  BY <1>0, <1>4 DEF ServerRotates
<1>5. ASSUME NEW q \in Pairs, Revoke(q)
      PROVE  fate'[p] # "free" /\ (fate'[p] = "alive" => fate[p] = "alive")
  BY <1>0, <1>5 DEF Revoke
<1>6. CASE Server
  BY <1>1, <1>3, <1>4, <1>6 DEF Server, ServerLoads, ServerRejected, ServerSaves, ServerClears,
                                ServerFails, world
<1>7. CASE Environment
  BY <1>1, <1>5, <1>6, <1>7 DEF Environment, UserAnswers, Lapse
<1>8. ASSUME NEW i \in Runs, Start(i) \/ Step(i) \/ Kill(i)
      PROVE  fate'[p] # "free" /\ (fate'[p] = "alive" => fate[p] = "alive")
  BY <1>1, <1>2, <1>3, <1>8
     DEF Start, Step, Kill, Request, Fails, LoadTokens, WritePending, CheckDeadline, PollPending,
         PollToken, PollRefused, PollTransient, SaveTokens, SaveFails, world
<1> QED BY <1>1, <1>7, <1>8 DEF Next, vars, world

\* A step of a run, or of the rest, keeps the pairs known.
LEMMA KnownKeeps == ASSUME TypeInv, TypeInv', KnownInv, [Next]_vars PROVE KnownInv'
<1> USE LoginAssumption
<1>0. /\ \A p \in Pairs : fate[p] # "free" => fate'[p] # "free"
      /\ store.tokens \in Pairs \cup {None} /\ latest \in Pairs \cup {None}
      /\ \A i \in Runs : run[i].tokens \in Pairs \cup {None}
      /\ server.at \in Busy => server.pair \in Pairs
      /\ fate \in [Pairs -> {"free", "alive", "dead", "lost"}]
  BY FateGrows DEF TypeInv, TypeOK
<1>1. ASSUME NEW i \in Runs, Start(i) \/ Step(i) \/ Kill(i) PROVE KnownInv'
  <2>1. \A j \in Runs : j # i => run'[j] = run[j]
    BY <1>1, OthersKeep
  <2>2. server' = server
    BY <1>1 DEF Start, Step, Kill, Request, Fails, LoadTokens, WritePending, CheckDeadline, PollPending,
                PollToken, PollRefused, PollTransient, SaveTokens, SaveFails
  <2>3. run'[i].tokens # None => fate'[run'[i].tokens] # "free"
    <3>1. CASE Start(i) \/ LoadTokens(i) \/ WritePending(i) \/ PollPending(i) \/ PollTransient(i)
      BY <1>0, <3>1, RunStep DEF KnownInv
    <3>2. ASSUME NEW p \in Pairs, PollToken(i, p)
          PROVE  run'[i].tokens # None => fate'[run'[i].tokens] # "free"
      BY <1>0, <3>2, RunStep DEF PollToken, Issue
    <3>3. CASE \E c \in Codes : Request(i, c)
      BY <1>0, <3>3, RunStep DEF KnownInv
    <3>4. CASE Fails(i) \/ PollRefused(i) \/ SaveTokens(i) \/ SaveFails(i) \/ Kill(i)
      BY <3>4, RunStep DEF Fails, PollRefused, SaveTokens, SaveFails, Kill, Results
    <3>5. CASE CheckDeadline(i)
      <4>1. CASE Exit(i, "expired")
        BY <4>1, RunStep DEF Results
      <4>2. CASE Goto(i, "post")
        BY <1>0, <4>2, RunStep DEF KnownInv
      <4> QED BY <3>5, <4>1, <4>2 DEF CheckDeadline
    <3> QED BY <1>1, <3>1, <3>2, <3>3, <3>4, <3>5 DEF Step
  <2>4. latest' # None => fate'[latest'] # "free"
    <3>1. CASE latest' = latest
      BY <1>0, <3>1 DEF KnownInv
    <3>2. ASSUME NEW p \in Pairs, PollToken(i, p) PROVE latest' # None => fate'[latest'] # "free"
      BY <1>0, <3>2 DEF PollToken, Issue
    <3> QED BY <1>1, <3>1, <3>2
            DEF Start, Step, Kill, Request, Fails, LoadTokens, WritePending, CheckDeadline,
                PollPending, PollRefused, PollTransient, SaveTokens, SaveFails, past
  <2>5. store'.tokens \in {store.tokens, run[i].tokens}
    BY <1>1 DEF Start, Step, Kill, Request, Fails, LoadTokens, WritePending, CheckDeadline,
                PollPending, PollToken, PollRefused, PollTransient, SaveTokens, SaveFails, Replace
  <2> QED BY <1>0, <2>1, <2>2, <2>3, <2>4, <2>5 DEF KnownInv
<1>2. CASE Environment
  <2>1. run' = run
    BY <1>2, EnvironmentFits
  <2>2. CASE ServerLoads
    BY <1>0, <2>1, <2>2 DEF ServerLoads, Serve, KnownInv, world, past
  <2>3. ASSUME NEW p \in Pairs, ServerRotates(p) PROVE KnownInv'
    <3>1. /\ server.at \in Busy /\ server.pair \in Pairs /\ server'.pair = p /\ latest' = p
          /\ store' = store /\ fate'[p] = "alive"
      BY <1>0, <2>3 DEF ServerRotates, Serve, Busy
    <3> QED BY <1>0, <2>1, <3>1 DEF KnownInv
  <2>4. CASE ServerRejected
    BY <1>0, <2>1, <2>4 DEF ServerRejected, Serve, KnownInv, world, past, Busy
  <2>5. CASE ServerSaves \/ ServerClears
    BY <1>0, <2>1, <2>5 DEF ServerSaves, ServerClears, Serve, Replace, KnownInv, world, Busy
  <2>6. CASE ServerFails
    BY <1>0, <2>1, <2>6 DEF ServerFails, Serve, KnownInv, past, Busy
  <2>7. CASE (\E c \in Codes : UserAnswers(c) \/ Lapse(c)) \/ \E p \in Pairs : Revoke(p)
    BY <1>0, <2>1, <2>7 DEF UserAnswers, Lapse, Revoke, KnownInv, past
  <2> QED BY <1>2, <2>2, <2>3, <2>4, <2>5, <2>6, <2>7 DEF Environment, Server
<1>3. CASE UNCHANGED vars
  BY <1>3 DEF vars, world, past, KnownInv
<1> QED BY <1>1, <1>2, <1>3 DEF Next

\* A step of a run that leaves the file, the pairs and the history alone.
LEMMA QuietStepKeeps ==
    ASSUME TypeInv, WritersInv, NewestPairKept, NEW i \in Runs, Start(i) \/ Step(i) \/ Kill(i),
           UNCHANGED <<store, server, fate, past>>, run'[i].at # "save", ~At(i, "save"),
           run'[i].at = "write" => run'[i].tokens = store.tokens
    PROVE  WritersInv' /\ NewestPairKept'
<1>1. \A j \in Runs : j # i => run'[j] = run[j]
  BY OthersKeep
<1>2. WritersInv'
  BY <1>1 DEF WritersInv, past, At
<1>3. NewestPairKept'
  BY <1>1 DEF NewestPairKept, past, At
<1> QED BY <1>2, <1>3

\* A run keeps the newest pair.
LEMMA RunsKeep ==
    ASSUME TypeInv, TypeInv', KnownInv, WritersInv, NewestPairKept,
           NEW i \in Runs, Start(i) \/ Step(i) \/ Kill(i)
    PROVE  WritersInv' /\ NewestPairKept'
<1> USE LoginAssumption
<1>0. /\ \A j \in Runs : j # i => run'[j] = run[j]
      /\ store.tokens \in Pairs \cup {None} /\ latest \in Pairs \cup {None}
      /\ \A j \in Runs : At(j, "save") => run[j].tokens \in Pairs
      /\ server.at \in Busy => server.pair \in Pairs
      /\ fate \in [Pairs -> {"free", "alive", "dead", "lost"}]
  BY OthersKeep DEF TypeInv, TypeOK
<1>1. CASE Start(i) \/ PollPending(i) \/ \E c \in Codes : Request(i, c)
  <2>1. /\ UNCHANGED <<store, server, fate, past>>
        /\ run'[i].at \notin {"save", "write"} /\ ~At(i, "save")
    BY <1>1, RunStep DEF Start, PollPending, Request, world, At
  <2> QED BY <1>1, <2>1, QuietStepKeeps DEF Step
<1>2. CASE Fails(i) \/ PollRefused(i)
  <2>1. /\ UNCHANGED <<store, server, fate, past>>
        /\ run'[i].at \notin {"save", "write"} /\ ~At(i, "save")
    BY <1>2, RunStep DEF Fails, PollRefused, world, At, Results
  <2> QED BY <1>2, <2>1, QuietStepKeeps DEF Step
<1>3. CASE LoadTokens(i)
  <2>1. /\ UNCHANGED <<store, server, fate, past>> /\ run'[i].at # "save" /\ ~At(i, "save")
        /\ run'[i].tokens = store.tokens
    BY <1>3, RunStep DEF LoadTokens, world, At
  <2> QED BY <1>3, <2>1, QuietStepKeeps DEF Step
<1>4. CASE CheckDeadline(i)
  <2>1. UNCHANGED <<store, server, fate, past>> /\ ~At(i, "save")
    BY <1>4 DEF CheckDeadline, world, At
  <2>2. run'[i].at \notin {"save", "write"}
    <3>1. CASE Exit(i, "expired")
      BY <3>1, RunStep DEF Results
    <3>2. CASE Goto(i, "post")
      BY <3>2, RunStep
    <3> QED BY <1>4, <3>1, <3>2 DEF CheckDeadline
  <2> QED BY <1>4, <2>1, <2>2, QuietStepKeeps DEF Step
<1>5. CASE PollTransient(i)
  <2>1. run'[i].at \notin {"save", "write"} /\ ~At(i, "save")
    BY <1>5, RunStep DEF PollTransient, At
  <2>2. UNCHANGED <<store, server, past>>
    BY <1>5 DEF PollTransient
  <2>3. CASE fate' = fate
    BY <1>5, <2>1, <2>2, <2>3, QuietStepKeeps DEF Step
  <2>4. CASE \E p \in Pairs : fate[p] = "free" /\ Lose(p)
    <3>1. \A p \in Pairs : fate'[p] = "alive" => fate[p] = "alive"
      BY <1>0, <2>4 DEF Lose
    <3>2. WritersInv'
      BY <1>0, <2>1, <2>2, <3>1 DEF WritersInv, past, At, Busy
    <3>3. NewestPairKept'
      BY <1>0, <2>1, <2>2, <3>1 DEF NewestPairKept, past, At
    <3> QED BY <3>2, <3>3
  <2> QED BY <1>5, <2>3, <2>4 DEF PollTransient
<1>6. CASE WritePending(i)
  <2>1. /\ UNCHANGED <<server, fate, latest>> /\ run'[i].at = "check" /\ At(i, "write")
        /\ store'.tokens = run[i].tokens
        /\ raced' = (raced \/ Committed \ {i} # {})
    BY <1>6, RunStep DEF WritePending, Replace
  <2>2. ~raced' => ~raced /\ store'.tokens = store.tokens
    BY <2>1 DEF WritersInv
  <2>3. WritersInv'
    BY <1>0, <2>1, <2>2 DEF WritersInv, At
  <2>4. NewestPairKept'
    BY <1>0, <2>1, <2>2 DEF NewestPairKept, At
  <2> QED BY <2>3, <2>4
<1>7. ASSUME NEW p \in Pairs, PollToken(i, p) PROVE WritersInv' /\ NewestPairKept'
  <2>1. /\ UNCHANGED <<store, server, raced>> /\ run'[i].at = "save" /\ run'[i].tokens = p
        /\ fate[p] = "free" /\ fate' = [fate EXCEPT ![p] = "alive"] /\ latest' = p
    BY <1>7, RunStep DEF PollToken, Issue
  <2>2. store'.tokens # latest'
    BY <1>0, <2>1 DEF KnownInv
  <2>3. WritersInv'
    BY <1>0, <2>1, <2>2 DEF WritersInv, At, KnownInv, Busy
  <2>4. NewestPairKept'
    BY <2>1 DEF NewestPairKept, At
  <2> QED BY <2>3, <2>4
<1>8. CASE SaveTokens(i)
  <2>1. /\ UNCHANGED <<server, fate, latest>> /\ run'[i].at = "off" /\ At(i, "save")
        /\ store'.tokens = run[i].tokens
        /\ raced' = (raced \/ Committed \ {i} # {})
    BY <1>8, RunStep DEF SaveTokens, Replace, world, Results
  <2>2. ~raced' => ~raced /\ Committed \subseteq {i}
    BY <2>1
  <2>3. ~raced' => /\ \A j \in Runs : j # i => ~At(j, "write") /\ ~At(j, "save")
                   /\ server.at \notin {"save", "again", "clear"}
    BY <2>2 DEF Committed
  <2> QED BY <1>0, <2>1, <2>2, <2>3 DEF WritersInv, NewestPairKept, At
<1>9. CASE SaveFails(i) \/ Kill(i)
  <2>1. /\ UNCHANGED <<store, server, past>> /\ run'[i].at = "off"
        /\ IF At(i, "save") THEN Lose(run[i].tokens) ELSE UNCHANGED fate
    BY <1>9, RunStep DEF SaveFails, Kill, Results
  <2>2. \A p \in Pairs : /\ fate'[p] = "alive" => fate[p] = "alive"
                         /\ At(i, "save") /\ p = run[i].tokens => fate'[p] # "alive"
    BY <1>0, <2>1 DEF Lose
  <2>3. WritersInv'
    BY <1>0, <2>1, <2>2 DEF WritersInv, past, At, Busy
  <2>4. NewestPairKept'
    BY <1>0, <2>1, <2>2 DEF NewestPairKept, past, At
  <2> QED BY <2>3, <2>4
<1> QED BY <1>1, <1>2, <1>3, <1>4, <1>5, <1>6, <1>7, <1>8, <1>9 DEF Step

\* So does the serving process, and the environment.
LEMMA ServerKeeps ==
    ASSUME TypeInv, TypeInv', KnownInv, WritersInv, NewestPairKept, Environment
    PROVE  WritersInv' /\ NewestPairKept'
<1> USE LoginAssumption
<1>0. /\ run' = run
      /\ store.tokens \in Pairs \cup {None} /\ latest \in Pairs \cup {None}
      /\ server.at \in Busy => server.pair \in Pairs
      /\ fate \in [Pairs -> {"free", "alive", "dead", "lost"}]
  BY EnvironmentFits DEF TypeInv, TypeOK
<1>1. CASE ServerLoads
  <2>1. UNCHANGED <<store, fate, latest, raced>> /\ server.at = "idle" /\ server'.at = "grant"
    BY <1>1 DEF ServerLoads, Serve, world, past
  <2> QED BY <1>0, <2>1 DEF WritersInv, NewestPairKept, At
<1>2. ASSUME NEW p \in Pairs, ServerRotates(p) PROVE WritersInv' /\ NewestPairKept'
  <2>1. /\ store' = store /\ server'.at = "save" /\ server'.pair = p /\ latest' = p
        /\ fate[p] = "free" /\ raced' => raced' \in BOOLEAN
        /\ ~raced' => ~raced
    BY <1>2 DEF ServerRotates, Serve
  <2>2. store'.tokens # latest'
    BY <1>0, <1>2, <2>1 DEF KnownInv, ServerRotates
  <2>3. WritersInv'
    BY <1>0, <2>1, <2>2 DEF WritersInv, At
  <2>4. NewestPairKept'
    BY <2>1 DEF NewestPairKept
  <2> QED BY <2>3, <2>4
<1>3. CASE ServerRejected
  <2>1. /\ UNCHANGED <<store, fate, latest, raced>> /\ fate[server.pair] # "alive"
        /\ server.at \in {"grant", "again"}
    BY <1>3 DEF ServerRejected, Serve, world, past
  <2>2. CASE store.tokens \in {None, server.pair} /\ Serve({"grant"}, "clear", server.pair)
    <3>1. server'.at = "clear" /\ server'.pair = server.pair
      BY <2>2 DEF Serve
    <3> QED BY <1>0, <2>1, <2>2, <3>1 DEF WritersInv, NewestPairKept, At
  <2>3. CASE Serve({"grant"}, "again", store.tokens)
    <3>1. server'.at = "again" /\ server'.pair = store.tokens
      BY <2>3 DEF Serve
    <3> QED BY <1>0, <2>1, <3>1 DEF WritersInv, NewestPairKept, At
  <2>4. CASE Serve({"again"}, "clear", server.pair)
    <3>1. server.at = "again" /\ server'.at = "clear" /\ server'.pair = server.pair
      BY <2>4 DEF Serve
    <3> QED BY <1>0, <2>1, <3>1 DEF WritersInv, NewestPairKept, At
  <2> QED BY <1>3, <2>2, <2>3, <2>4 DEF ServerRejected
<1>4. CASE ServerSaves
  <2>1. /\ UNCHANGED <<fate, latest>> /\ server.at = "save" /\ server'.at = "idle"
        /\ store'.tokens = server.pair
        /\ raced' = (raced \/ Committed \ {"server"} # {})
    BY <1>4 DEF ServerSaves, Serve, Replace, world
  <2>2. ~raced' => ~raced /\ \A i \in Runs : ~At(i, "write") /\ ~At(i, "save")
    BY <2>1 DEF Committed
  <2> QED BY <1>0, <2>1, <2>2 DEF WritersInv, NewestPairKept, At
<1>5. CASE ServerClears
  <2>1. /\ UNCHANGED <<fate, latest>> /\ server.at = "clear" /\ server'.at = "idle"
        /\ store'.tokens = None
        /\ raced' = (raced \/ Committed \ {"server"} # {})
    BY <1>5 DEF ServerClears, Serve, Replace, world
  <2>2. ~raced' => ~raced /\ \A i \in Runs : ~At(i, "write") /\ ~At(i, "save")
    BY <2>1 DEF Committed
  <2>3. ~raced' /\ latest # None /\ fate[latest] = "alive" => latest # store.tokens
    BY <2>1, <2>2 DEF WritersInv
  <2> QED BY <1>0, <2>1, <2>2, <2>3 DEF WritersInv, NewestPairKept, At
<1>6. CASE ServerFails
  <2>1. /\ UNCHANGED <<store, latest, raced>> /\ server'.at = "idle"
        /\ IF server.at = "save" THEN Lose(server.pair) ELSE UNCHANGED fate
        /\ server.at \in Busy
    BY <1>6 DEF ServerFails, Serve, past, Busy
  <2>2. \A p \in Pairs : /\ fate'[p] = "alive" => fate[p] = "alive"
                         /\ server.at = "save" /\ p = server.pair => fate'[p] # "alive"
    BY <1>0, <2>1 DEF Lose
  <2> QED BY <1>0, <2>1, <2>2 DEF WritersInv, NewestPairKept, At
<1>7. CASE (\E c \in Codes : UserAnswers(c) \/ Lapse(c)) \/ \E p \in Pairs : Revoke(p)
  <2>1. UNCHANGED <<store, server, latest, raced>>
    BY <1>7 DEF UserAnswers, Lapse, Revoke, past
  <2>2. \A p \in Pairs : fate'[p] = "alive" => fate[p] = "alive"
    BY <1>0, <1>7 DEF UserAnswers, Lapse, Revoke
  <2> QED BY <1>0, <2>1, <2>2 DEF WritersInv, NewestPairKept, At, Busy
<1> QED BY <1>1, <1>2, <1>3, <1>4, <1>5, <1>6, <1>7 DEF Environment, Server

\* Every step keeps the inductive invariant.
LEMMA KeptKeeps == TypeInv /\ TypeInv' /\ KeptInv /\ [Next]_vars => KeptInv'
<1> SUFFICES ASSUME TypeInv, TypeInv', KeptInv, [Next]_vars PROVE KeptInv'
  OBVIOUS
<1>1. KnownInv'
  BY KnownKeeps DEF KeptInv
<1>2. CASE Environment
  BY <1>1, <1>2, ServerKeeps DEF KeptInv
<1>3. ASSUME NEW i \in Runs, Start(i) \/ Step(i) \/ Kill(i) PROVE KeptInv'
  BY <1>1, <1>3, RunsKeep DEF KeptInv
<1>4. CASE UNCHANGED vars
  BY <1>1, <1>4 DEF vars, world, past, KeptInv, WritersInv, NewestPairKept, At
<1> QED BY <1>2, <1>3, <1>4 DEF Next

\* The newest pair is kept, however runs and refreshes follow one another and
\* end, unless a process wrote the file under another that was committed to
\* a write: the file is read again before it is wiped, and what save_pending
\* read is still there when it writes.
THEOREM NewestPairKeptHolds == Spec => []NewestPairKept
<1>1. Init => KeptInv
  <2> SUFFICES ASSUME Init PROVE KeptInv
    OBVIOUS
  <2>1. \A i \in Runs : run[i].at = "off" /\ run[i].tokens = None
    BY DEF Init, Idle
  <2>2. server.at \notin Busy /\ latest = store.tokens
    BY DEF Init, Busy
  <2>3. store.tokens # None => fate[store.tokens] = "alive"
    BY DEF Init
  <2> QED BY <2>1, <2>2, <2>3 DEF KeptInv, KnownInv, WritersInv, NewestPairKept, At, Busy
<1>2. KeptInv => NewestPairKept
  BY DEF KeptInv
<1> QED BY <1>1, <1>2, TypeHolds, KeptKeeps, PTL DEF Spec

-----------------------------------------------------------------------------
\* The live code, for one run at a time with the file to itself.

OneRun == \A i, j \in Runs : i = j

\* A code is live only after the file has it, and until the run that polls with
\* it is done.
CodeInv ==
    server.at = "absent" =>
        /\ LiveCodeOnDisk
        /\ \A i \in Runs :
            /\ run[i].at \in {"request", "load", "write"} => \A c \in Codes : ~Live(c)
            /\ run[i].at \in {"load", "write"} => grant[run[i].code] = "asked"
            /\ run[i].at \in {"check", "post", "save"} => store.pending = run[i].code
            /\ At(i, "save") => grant[run[i].code] = "redeemed"

\* The run goes back to its poll loop, or ends, and no code becomes live.
LEMMA PollKeepsCode ==
    ASSUME TypeInv, OneRun, CodeInv, NEW i \in Runs, Start(i) \/ Step(i) \/ Kill(i),
           UNCHANGED <<store, server, lapsed>>,
           \A c \in Codes : Live(c)' => Live(c),
           \/ run'[i].at = "off"
           \/ /\ run[i].at \in {"check", "post"} /\ run'[i].at \in {"check", "post"}
              /\ run'[i].code = run[i].code
    PROVE  CodeInv'
BY DEF OneRun, CodeInv, LiveCodeOnDisk, At

\* The only run keeps the live code on disk.
LEMMA RunKeepsCode ==
    ASSUME TypeInv, OneRun, CodeInv, NEW i \in Runs, Start(i) \/ Step(i) \/ Kill(i)
    PROVE  CodeInv'
<1> USE LoginAssumption
<1>0. /\ ~(At(i, "off") \/ At(i, "request")) => run[i].code \in Codes
      /\ store.pending \in Codes \cup {None}
      /\ grant \in [Codes -> {"fresh", "asked", "shown", "approved", "denied", "redeemed"}]
      /\ \A j \in Runs : j = i
  BY DEF TypeInv, TypeOK, OneRun
<1>1. CASE Start(i)
  <2>1. UNCHANGED <<store, server, grant, lapsed>>
    BY <1>1 DEF Start, world
  <2>2. \A c \in Codes : Live(c)' <=> Live(c)
    BY <2>1 DEF Live
  <2>3. CASE run'[i].at = "check" /\ run'[i].code = store.pending
    BY <1>0, <2>1, <2>2, <2>3 DEF CodeInv, LiveCodeOnDisk, At
  <2>4. CASE run'[i].at = "request" /\ (store.pending = None \/ store.pending \in lapsed)
    <3>1. server.at = "absent" => \A c \in Codes : ~Live(c)
      BY <1>0, <2>4 DEF CodeInv, LiveCodeOnDisk, Live
    <3> QED BY <1>0, <2>1, <2>2, <2>4, <3>1 DEF CodeInv, LiveCodeOnDisk, At
  <2> QED BY <1>1, <2>3, <2>4, RunStep
<1>2. ASSUME NEW c \in Codes, Request(i, c) PROVE CodeInv'
  <2>1. /\ UNCHANGED <<store, server, lapsed>> /\ run[i].at = "request"
        /\ run'[i].at = "load" /\ run'[i].code = c
        /\ grant' = [grant EXCEPT ![c] = "asked"]
    BY <1>2, RunStep DEF Request, At
  <2>2. \A d \in Codes : Live(d)' => Live(d)
    BY <1>0, <2>1 DEF Live
  <2> QED BY <1>0, <2>1, <2>2 DEF CodeInv, LiveCodeOnDisk, At
<1>3. CASE Fails(i) \/ PollRefused(i) \/ SaveFails(i) \/ Kill(i)
  <2>1. UNCHANGED <<store, server, grant, lapsed>> /\ run'[i].at = "off"
    BY <1>3, RunStep DEF Fails, PollRefused, SaveFails, Kill, world, Results
  <2>2. \A c \in Codes : Live(c)' => Live(c)
    BY <2>1 DEF Live
  <2> QED BY <1>3, <2>1, <2>2, PollKeepsCode DEF Step
<1>4. CASE LoadTokens(i)
  <2>1. /\ UNCHANGED <<store, server, grant, lapsed>> /\ run[i].at = "load"
        /\ run'[i].at = "write" /\ run'[i].code = run[i].code
    BY <1>4, RunStep DEF LoadTokens, At, world
  <2>2. \A c \in Codes : Live(c)' => Live(c)
    BY <2>1 DEF Live
  <2> QED BY <1>0, <2>1, <2>2 DEF CodeInv, LiveCodeOnDisk, At
<1>5. CASE WritePending(i)
  <2>1. /\ UNCHANGED <<server, lapsed>> /\ run[i].at = "write" /\ run[i].code \in Codes
        /\ run'[i].at = "check" /\ run'[i].code = run[i].code /\ store'.pending = run[i].code
        /\ grant' = [grant EXCEPT ![run[i].code] = "shown"]
    BY <1>0, <1>5, RunStep DEF WritePending, Replace, At
  <2>2. \A c \in Codes : Live(c)' => Live(c) \/ c = run[i].code
    BY <1>0, <2>1 DEF Live
  <2> QED BY <1>0, <2>1, <2>2 DEF CodeInv, LiveCodeOnDisk, At
<1>6. CASE CheckDeadline(i) \/ PollPending(i)
  <2>1. UNCHANGED <<store, server, grant, lapsed>> /\ run[i].at \in {"check", "post"}
    BY <1>6 DEF CheckDeadline, PollPending, world, At
  <2>2. \A c \in Codes : Live(c)' => Live(c)
    BY <2>1 DEF Live
  <2>3. \/ run'[i].at = "off"
        \/ run'[i].at \in {"check", "post"} /\ run'[i].code = run[i].code
    <3>1. CASE Exit(i, "expired")
      BY <3>1, RunStep DEF Results
    <3>2. CASE Goto(i, "post") \/ PollPending(i)
      BY <3>2, RunStep
    <3> QED BY <1>6, <3>1, <3>2 DEF CheckDeadline
  <2> QED BY <1>6, <2>1, <2>2, <2>3, PollKeepsCode DEF Step
<1>7. ASSUME NEW p \in Pairs, PollToken(i, p) PROVE CodeInv'
  <2>1. /\ UNCHANGED <<store, server, lapsed>> /\ run[i].at = "post" /\ run[i].code \in Codes
        /\ run'[i].at = "save" /\ run'[i].code = run[i].code
        /\ grant' = [grant EXCEPT ![run[i].code] = "redeemed"]
    BY <1>0, <1>7, RunStep DEF PollToken, At
  <2>2. \A c \in Codes : Live(c)' => Live(c)
    BY <1>0, <2>1 DEF Live
  <2> QED BY <1>0, <2>1, <2>2 DEF CodeInv, LiveCodeOnDisk, At
<1>8. CASE PollTransient(i)
  <2>1. /\ UNCHANGED <<store, server, lapsed>> /\ run[i].at = "post"
        /\ grant' = grant \/ grant' = [grant EXCEPT ![run[i].code] = "redeemed"]
    BY <1>8 DEF PollTransient, At
  <2>2. \A c \in Codes : Live(c)' => Live(c)
    BY <1>0, <2>1 DEF Live
  <2> QED BY <1>8, <2>1, <2>2, RunStep, PollKeepsCode DEF Step
<1>9. CASE SaveTokens(i)
  <2>1. /\ UNCHANGED <<server, grant, lapsed>> /\ run[i].at = "save" /\ run'[i].at = "off"
    BY <1>9, RunStep DEF SaveTokens, At, world, Results
  <2>2. server.at = "absent" => \A c \in Codes : ~Live(c)
    BY <1>0, <2>1 DEF CodeInv, LiveCodeOnDisk, Live, At
  <2>3. \A c \in Codes : Live(c)' => Live(c)
    BY <2>1 DEF Live
  <2> QED BY <1>0, <2>1, <2>2, <2>3 DEF CodeInv, LiveCodeOnDisk, At
<1> QED BY <1>1, <1>2, <1>3, <1>4, <1>5, <1>6, <1>7, <1>8, <1>9 DEF Step

\* Where no process serves, none begins to; the user and time make no code live.
LEMMA EnvironmentKeepsCode == ASSUME TypeInv, CodeInv, Environment PROVE CodeInv'
<1>1. CASE Server
  <2>1. server.at # "absent" /\ server'.at # "absent"
    BY <1>1 DEF Server, ServerLoads, ServerRejected, ServerSaves, ServerClears, ServerFails,
                ServerRotates, Serve
  <2> QED BY <2>1 DEF CodeInv
<1>2. CASE (\E c \in Codes : UserAnswers(c) \/ Lapse(c)) \/ \E p \in Pairs : Revoke(p)
  <2>1. /\ UNCHANGED <<store, run, server>>
        /\ \A c \in Codes : /\ Live(c)' => Live(c)
                            /\ grant[c] \in {"asked", "redeemed"} => grant'[c] = grant[c]
    BY <1>2 DEF UserAnswers, Lapse, Revoke, past, Live, TypeInv, TypeOK
  <2>2. \A i \in Runs : run[i].at \in {"load", "write", "save"} => run[i].code \in Codes
    BY DEF TypeInv, At
  <2> QED BY <2>1, <2>2 DEF CodeInv, LiveCodeOnDisk, At
<1> QED BY <1>1, <1>2 DEF Environment

\* With one run at a time and no serving process, a code the user may still be
\* answering is the pending grant of the file, wherever the run is killed.
THEOREM LiveCodeOnDiskHolds == OneRun /\ Spec => []LiveCodeOnDisk
<1> SUFFICES ASSUME OneRun PROVE Spec => []LiveCodeOnDisk
  OBVIOUS
<1>1. Init => CodeInv
  BY DEF Init, CodeInv, LiveCodeOnDisk, Live, At, Idle
<1>2. TypeInv /\ CodeInv /\ [Next]_vars => CodeInv'
  <2> SUFFICES ASSUME TypeInv, CodeInv, [Next]_vars PROVE CodeInv'
    OBVIOUS
  <2>1. CASE UNCHANGED vars
    BY <2>1 DEF vars, world, past, CodeInv, LiveCodeOnDisk, Live, At
  <2> QED BY <2>1, RunKeepsCode, EnvironmentKeepsCode DEF Next
<1>3. CodeInv => LiveCodeOnDisk
  BY DEF CodeInv, LiveCodeOnDisk
<1> QED BY <1>1, <1>2, <1>3, TypeHolds, PTL DEF Spec
=============================================================================
