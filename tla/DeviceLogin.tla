---------------------------- MODULE DeviceLogin ----------------------------
(***************************************************************************)
(* `allegro-mcp auth device`: the command that asks for a device code,     *)
(* keeps it in the token file, polls until the user has answered and saves *)
(* the tokens (run_auth_device in src/main.rs, the poll loop and PollState *)
(* in src/auth/device.rs, save_pending in src/auth/token_store.rs).        *)
(*                                                                         *)
(* A run may be killed at any step and started again, several may run at   *)
(* once, and a serving process may refresh the same file's tokens, or wipe *)
(* them, meanwhile (its side of resolve_device_token in src/auth/mod.rs;   *)
(* AllegroAuth has its tasks, its cache and its clocks).  The              *)
(* authorization server and the user are the environment.  Time is the set *)
(* of codes whose lifetime is over; the sleep between polls only lets      *)
(* other steps happen.                                                     *)
(***************************************************************************)
EXTENDS Naturals, FiniteSets

CONSTANTS
    Runs,                 \* processes running the command
    Codes,                \* device codes
    Pairs,                \* token pairs
    None,
    MAX_TRANSIENT_ERRORS

ASSUME LoginAssumption ==
    /\ IsFiniteSet(Pairs)
    /\ None \notin Codes \cup Pairs
    /\ "server" \notin Runs        \* it names the serving process in Committed
    /\ MAX_TRANSIENT_ERRORS \in Nat \ {0}

VARIABLES
    store,    \* the token file
    run,      \* the runs of the command
    grant,    \* what the authorization server knows of each code
    lapsed,   \* codes past their lifetime
    server,   \* the serving process and the pair it has in its hands
    fate,     \* what has become of each pair
    latest,   \* history: the newest pair a process received
    raced     \* history: a file was written on top of one nobody had read

world == <<grant, lapsed, fate>>
past  == <<latest, raced>>
vars  == <<store, run, server, world, past>>

Results == {"none", "ok", "denied", "expired", "network", "error"}

\* A run; its streak is history: the failures since it last got an answer.
Idle == [at |-> "off", code |-> None, tokens |-> None, transient |-> 0,
         streak |-> 0, result |-> "none"]

TypeOK ==
    /\ store \in [tokens : Pairs \cup {None}, pending : Codes \cup {None}]
    /\ run \in [Runs -> [at : {"off", "request", "load", "write", "check", "post", "save"},
                         code      : Codes \cup {None},
                         tokens    : Pairs \cup {None},  \* loaded, or to save
                         transient : 0 .. MAX_TRANSIENT_ERRORS - 1,
                         streak    : 0 .. MAX_TRANSIENT_ERRORS,
                         result    : Results]]
    /\ grant \in [Codes -> {"fresh", "asked", "shown", "approved", "denied", "redeemed"}]
    /\ lapsed \subseteq Codes
    /\ server \in [at : {"absent", "idle", "grant", "again", "save", "clear"},
                   pair : Pairs \cup {None}]
    /\ fate \in [Pairs -> {"free", "alive", "dead", "lost"}]
    /\ latest \in Pairs \cup {None}
    /\ raced \in BOOLEAN

\* The first run, with or without tokens from an earlier authorization.
Init ==
    /\ store \in [tokens : Pairs \cup {None}, pending : {None}]
    /\ run = [i \in Runs |-> Idle]
    /\ grant = [c \in Codes |-> "fresh"]
    /\ lapsed = {}
    /\ server \in [at : {"absent", "idle"}, pair : {None}]
    /\ fate = [p \in Pairs |-> IF p = store.tokens THEN "alive" ELSE "free"]
    /\ latest = store.tokens
    /\ raced = FALSE

At(i, label) == run[i].at = label

Goto(i, label) == run' = [run EXCEPT ![i].at = label]

\* A run ends: its process exits, and the result is what the user reads.
Exit(i, result) == run' = [run EXCEPT ![i] = [Idle EXCEPT !.result = result]]

\* A new pair leaves the authorization server.
Issue(p) == fate[p] = "free" /\ fate' = [fate EXCEPT ![p] = "alive"]

\* A pair is gone: killed, or not written, before it was in the file.
Lose(p) == fate' = [fate EXCEPT ![p] = "lost"]

\* Processes that will write what they know, whatever is in the file by then.
Committed ==
    {i \in Runs : At(i, "write") \/ At(i, "save")}
    \cup (IF server.at \in {"again", "save", "clear"} THEN {"server"} ELSE {})

\* Process w replaces the file.
Replace(w, file) ==
    /\ store' = file
    /\ raced' = (raced \/ Committed \ {w} # {})

(***************************************************************************)
(* The command.                                                            *)
(***************************************************************************)
\* An unexpired pending grant is resumed, else a new code is asked for.
Start(i) ==
    /\ At(i, "off")
    /\ LET resumed == store.pending # None /\ store.pending \notin lapsed IN
       run' = [run EXCEPT ![i] =
                  [Idle EXCEPT !.at   = IF resumed THEN "check" ELSE "request",
                               !.code = IF resumed THEN store.pending ELSE None]]
    /\ UNCHANGED <<store, server, world, past>>

Request(i, c) ==
    /\ At(i, "request")
    /\ grant[c] = "fresh"
    /\ grant' = [grant EXCEPT ![c] = "asked"]
    /\ run' = [run EXCEPT ![i].at = "load", ![i].code = c]
    /\ UNCHANGED <<store, server, lapsed, fate, past>>

\* The request for a code, or one of save_pending's file operations, fails.
Fails(i) ==
    /\ \/ At(i, "request") \/ At(i, "load") \/ At(i, "write")
    /\ Exit(i, "error")
    /\ UNCHANGED <<store, server, world, past>>

\* save_pending: read the file, to keep the tokens that are in it ...
LoadTokens(i) ==
    /\ At(i, "load")
    /\ run' = [run EXCEPT ![i].at = "write", ![i].tokens = store.tokens]
    /\ UNCHANGED <<store, server, world, past>>

\* Mutant of WritePending: the code is not saved.
WriteNothing(i) ==
    /\ At(i, "write")
    /\ grant' = [grant EXCEPT ![run[i].code] = "shown"]
    /\ run' = [run EXCEPT ![i].at = "check", ![i].tokens = None]
    /\ UNCHANGED <<store, server, lapsed, fate, past>>

\* ... and write it back with the code.  Then the banner shows the code.
WritePending(i) ==
    /\ At(i, "write")
    /\ Replace(i, [tokens |-> run[i].tokens, pending |-> run[i].code])
    /\ grant' = [grant EXCEPT ![run[i].code] = "shown"]
    /\ run' = [run EXCEPT ![i].at = "check", ![i].tokens = None]
    /\ UNCHANGED <<server, lapsed, fate, latest>>

\* Mutant of CheckDeadline: no deadline.
CheckNothing(i) ==
    /\ At(i, "check")
    /\ Goto(i, "post")
    /\ UNCHANGED <<store, server, world, past>>

\* The top of the poll loop: the deadline, then a sleep.
CheckDeadline(i) ==
    /\ At(i, "check")
    /\ IF run[i].code \in lapsed THEN Exit(i, "expired") ELSE Goto(i, "post")
    /\ UNCHANGED <<store, server, world, past>>

\* authorization_pending or slow_down, perhaps a little after the deadline;
\* PollState::advance leaves the number of transient errors as it is.
PollPending(i) ==
    /\ At(i, "post")
    /\ grant[run[i].code] = "shown"
    /\ run' = [run EXCEPT ![i].at = "check", ![i].streak = 0]
    /\ UNCHANGED <<store, server, world, past>>

\* The token, once per code.
PollToken(i, p) ==
    /\ At(i, "post")
    /\ grant[run[i].code] = "approved" /\ run[i].code \notin lapsed
    /\ grant' = [grant EXCEPT ![run[i].code] = "redeemed"]
    /\ Issue(p)
    /\ latest' = p
    /\ run' = [run EXCEPT ![i].at = "save", ![i].tokens = p]
    /\ UNCHANGED <<store, server, lapsed, raced>>

\* access_denied, or any other 4xx: the code is void.
PollRefused(i) ==
    /\ At(i, "post")
    /\ \/ grant[run[i].code] = "denied" /\ Exit(i, "denied")
       \/ (grant[run[i].code] = "redeemed" \/ run[i].code \in lapsed) /\ Exit(i, "expired")
    /\ UNCHANGED <<store, server, world, past>>

\* A 429, a 5xx, a body that does not parse or no answer at all; when it was
\* the token that did not arrive, the code is redeemed all the same.
PollTransient(i) ==
    /\ At(i, "post")
    /\ LET c == run[i].code
           n == run[i].transient + 1
       IN  /\ IF n >= MAX_TRANSIENT_ERRORS
              THEN run' = [run EXCEPT ![i] = [Idle EXCEPT !.result = "network",
                                                          !.streak = run[i].streak + 1]]
              ELSE run' = [run EXCEPT ![i].at = "check", ![i].transient = n,
                                      ![i].streak = @ + 1]
           /\ \/ UNCHANGED <<grant, fate>>
              \/ /\ grant[c] = "approved" /\ c \notin lapsed
                 /\ grant' = [grant EXCEPT ![c] = "redeemed"]
                 /\ \E p \in Pairs : fate[p] = "free" /\ Lose(p)
    /\ UNCHANGED <<store, server, lapsed, past>>

\* save_tokens: the pair replaces the whole envelope.
SaveTokens(i) ==
    /\ At(i, "save")
    /\ Replace(i, [tokens |-> run[i].tokens, pending |-> None])
    /\ Exit(i, "ok")
    /\ UNCHANGED <<server, world, latest>>

SaveFails(i) ==
    /\ At(i, "save")
    /\ Lose(run[i].tokens)
    /\ Exit(i, "error")
    /\ UNCHANGED <<store, server, grant, lapsed, past>>

\* The process is killed.
Kill(i) ==
    /\ ~At(i, "off")
    /\ IF At(i, "save") THEN Lose(run[i].tokens) ELSE UNCHANGED fate
    /\ Exit(i, "none")
    /\ UNCHANGED <<store, server, grant, lapsed, past>>

(***************************************************************************)
(* The serving process refreshes the pair of the file.                     *)
(***************************************************************************)
Serve(from, to, pair) ==
    /\ server.at \in from
    /\ server' = [at |-> to, pair |-> pair]

ServerLoads ==
    /\ store.tokens # None
    /\ Serve({"idle"}, "grant", store.tokens)
    /\ UNCHANGED <<store, run, world, past>>

\* The refresh grant spends the pair and gives the next one.  It is a race
\* when the file holds another pair by now, that this one will replace.
ServerRotates(p) ==
    /\ Serve({"grant", "again"}, "save", p)
    /\ fate[server.pair] = "alive" /\ fate[p] = "free"
    /\ fate' = [fate EXCEPT ![server.pair] = "dead", ![p] = "alive"]
    /\ latest' = p
    /\ raced' = (raced \/ store.tokens # server.pair)
    /\ UNCHANGED <<store, run, grant, lapsed>>

\* Mutant of ServerRejected: the file is not read again.
ServerRejectedAtOnce ==
    /\ Serve({"grant", "again"}, "clear", server.pair)
    /\ fate[server.pair] # "alive"
    /\ UNCHANGED <<store, run, world, past>>

\* A definitive rejection: read the file again, and try once more with the
\* pair that another process has put there.
ServerRejected ==
    /\ \/ /\ store.tokens \in {None, server.pair}
          /\ Serve({"grant"}, "clear", server.pair)
       \/ /\ store.tokens \notin {None, server.pair}
          /\ Serve({"grant"}, "again", store.tokens)
       \/ Serve({"again"}, "clear", server.pair)
    /\ fate[server.pair] # "alive"
    /\ UNCHANGED <<store, run, world, past>>

\* save_tokens drops whatever pending grant there is, clear() the whole file.
ServerSaves ==
    /\ Serve({"save"}, "idle", None)
    /\ Replace("server", [tokens |-> server.pair, pending |-> None])
    /\ UNCHANGED <<run, world, latest>>

ServerClears ==
    /\ Serve({"clear"}, "idle", None)
    /\ Replace("server", [tokens |-> None, pending |-> None])
    /\ UNCHANGED <<run, world, latest>>

\* No answer, a file operation that fails, or the process is killed.
ServerFails ==
    /\ Serve({"grant", "again", "save", "clear"}, "idle", None)
    /\ IF server.at = "save" THEN Lose(server.pair) ELSE UNCHANGED fate
    /\ UNCHANGED <<store, run, grant, lapsed, past>>

Server ==
    \/ ServerLoads \/ ServerRejected \/ ServerSaves \/ ServerClears \/ ServerFails
    \/ \E p \in Pairs : ServerRotates(p)

(***************************************************************************)
(* The user and time.                                                      *)
(***************************************************************************)
UserAnswers(c) ==
    /\ grant[c] = "shown" /\ c \notin lapsed
    /\ \E answer \in {"approved", "denied"} : grant' = [grant EXCEPT ![c] = answer]
    /\ UNCHANGED <<store, run, server, lapsed, fate, past>>

Lapse(c) ==
    /\ grant[c] # "fresh" /\ c \notin lapsed
    /\ lapsed' = lapsed \cup {c}
    /\ UNCHANGED <<store, run, server, grant, fate, past>>

\* The user revokes the authorization, or its refresh token grows too old.
Revoke(p) ==
    /\ fate[p] = "alive"
    /\ fate' = [fate EXCEPT ![p] = "dead"]
    /\ UNCHANGED <<store, run, server, grant, lapsed, past>>

Step(i) ==
    \/ \E c \in Codes : Request(i, c)
    \/ Fails(i) \/ LoadTokens(i) \/ WritePending(i)
    \/ CheckDeadline(i) \/ PollPending(i) \/ PollRefused(i) \/ PollTransient(i)
    \/ \E p \in Pairs : PollToken(i, p)
    \/ SaveTokens(i) \/ SaveFails(i)

Environment ==
    \/ Server
    \/ \E c \in Codes : UserAnswers(c) \/ Lapse(c)
    \/ \E p \in Pairs : Revoke(p)

Next == Environment \/ \E i \in Runs : Start(i) \/ Step(i) \/ Kill(i)

Spec == Init /\ [][Next]_vars

\* A run goes on: every sleep and every request ends.  Codes die in the end.
FairSpec == Spec /\ (\A i \in Runs : WF_vars(Step(i))) /\ \A c \in Codes : WF_vars(Lapse(c))

(***************************************************************************)
(* Properties.                                                             *)
(***************************************************************************)
Live(c) == grant[c] \in {"shown", "approved"} /\ c \notin lapsed

\* run_auth_device: however often it is killed or fails, a code the user may
\* still be answering is the file's pending grant, for the next run to resume.
\* (A serving process that saves or wipes the tokens drops the grant.)
LiveCodeOnDisk == server.at = "absent" => \A c \in Codes : Live(c) => store.pending = c

\* save_pending, save_tokens and the stale-store guard: whatever runs of the
\* command and refreshes of the serving process follow one another, and however
\* each of them ends, the newest pair is in the file or on its way there as long
\* as the authorization server honours it.  It is lost only by a kill or a failed
\* write, or when a process writes the file while another is committed to one.
NewestPairKept ==
    ~raced /\ latest # None /\ fate[latest] = "alive" =>
        \/ latest = store.tokens
        \/ server.at = "save" /\ latest = server.pair
        \/ \E i \in Runs : At(i, "save") /\ run[i].tokens = latest

\* MAX_TRANSIENT_ERRORS ("consecutive transient failures"): a run that gave up
\* on the network saw that many failures one after the other.
GivesUpAfterStreak ==
    \A i \in Runs : run[i].result = "network" => run[i].streak = MAX_TRANSIENT_ERRORS

\* A run of the command ends.
LoginEnds == \A i \in Runs : ~At(i, "off") ~> At(i, "off")
=============================================================================
