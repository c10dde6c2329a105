--------------------------- MODULE ProcessProofs ---------------------------
(***************************************************************************)
(* Theorems about Startup and TokenLifetime: for every set of inputs and   *)
(* restarts the highest layer wins, the validation gate is exact, tokens   *)
(* and codes stay in their environment and a server begins authorized; for *)
(* every guard, clamp and lifetime a long-lived token is never handed out  *)
(* dead and grants are spaced.                                             *)
(***************************************************************************)
EXTENDS Startup, TokenLifetime, SequenceTheorems, WellFoundedInduction, TLAPS

(***************************************************************************)
(* TokenLifetime.                                                          *)
(***************************************************************************)
\* The file has the newest token; on clocks that agree its end is where the
\* grant put it.
StoredInv ==
    stored # NoToken =>
        /\ stored.dies = fetched + stored.life
        /\ steady => stored.ends + real = epoch + fetched + Clamped(stored.life)

\* The cache may outlive the token by less than MIN_LIFETIME - GUARD.
CachedInv ==
    cached # NoToken /\ steady /\ cached.life >= MIN_LIFETIME =>
        cached.ends + real + GUARD < instant + cached.dies + MIN_LIFETIME

LifetimeInv == LifetimeTypeOK /\ StoredInv /\ CachedInv /\ NeverHandedOutDead

\* What clamp_expires_in returns.
LEMMA ClampedFacts ==
    ASSUME NEW n \in Nat
    PROVE  /\ Clamped(n) \in Nat
           /\ Clamped(n) >= MIN_LIFETIME
           /\ n >= MIN_LIFETIME => Clamped(n) = n
           /\ n < MIN_LIFETIME => Clamped(n) = MIN_LIFETIME
BY LifetimeAssumption DEF Clamped

\* The invariant holds before any token.
LEMMA LifetimeBegins == LifetimeInit => LifetimeInv
BY LifetimeAssumption
   DEF LifetimeInit, LifetimeInv, LifetimeTypeOK, StoredInv, CachedInv, NeverHandedOutDead,
       NoToken, IsToken

\* The cached token is alive while the cache is valid.
LEMMA FromCacheKeeps == LifetimeInv /\ FromCache => LifetimeInv'
<1> SUFFICES ASSUME LifetimeInv, FromCache PROVE LifetimeInv'
  OBVIOUS
<1> USE LifetimeAssumption
<1>1. LifetimeTypeOK' /\ StoredInv' /\ CachedInv'
  BY DEF LifetimeInv, FromCache, LifetimeTypeOK, StoredInv, CachedInv
<1>2. NeverHandedOutDead'
  <2> SUFFICES ASSUME steady, cached.life >= MIN_LIFETIME PROVE real < cached.dies
    BY DEF NeverHandedOutDead, FromCache
  <2>1. cached # NoToken
    BY DEF FromCache, CacheValid, NoToken, LifetimeInv, LifetimeTypeOK
  <2>2. cached.ends + real + GUARD < instant + cached.dies + MIN_LIFETIME
    BY <2>1 DEF LifetimeInv, CachedInv
  <2> QED
    BY <2>2 DEF FromCache, CacheValid, LifetimeInv, LifetimeTypeOK, IsToken
<1> QED BY <1>1, <1>2 DEF LifetimeInv

\* A stored token has more than GUARD left when it is restored; the clamp adds
\* less than MIN_LIFETIME - GUARD to that.
LEMMA FromStoreKeeps == LifetimeInv /\ FromStore => LifetimeInv'
<1> SUFFICES ASSUME LifetimeInv, FromStore PROVE LifetimeInv'
  OBVIOUS
<1> USE LifetimeAssumption
<1> DEFINE remaining == stored.ends - epoch
<1>1. /\ stored \in IsToken /\ remaining \in Nat /\ remaining > GUARD
      /\ real \in Nat /\ instant \in Nat /\ epoch \in Nat /\ fetched \in Nat
  BY DEF FromStore, StoreValid, LifetimeInv, LifetimeTypeOK, IsToken
<1>2. stored # NoToken
  BY DEF FromStore, StoreValid, NoToken
<1>3. Clamped(remaining) \in Nat
  BY <1>1, ClampedFacts
<1>4. cached' = [stored EXCEPT !.ends = instant + Clamped(remaining)] /\ handed' = stored
  BY DEF FromStore, HandOut
<1>5. /\ cached' \in IsToken
      /\ cached'.ends = instant + Clamped(remaining)
      /\ cached'.dies = stored.dies /\ cached'.life = stored.life
  BY <1>1, <1>3, <1>4 DEF IsToken
<1>6. LifetimeTypeOK' /\ StoredInv'
  BY <1>1, <1>4, <1>5 DEF LifetimeInv, FromStore, LifetimeTypeOK, StoredInv
<1>7. ASSUME steady, stored.life >= MIN_LIFETIME PROVE stored.dies = real + remaining
  <2>1. Clamped(stored.life) = stored.life
    BY <1>1, <1>7, ClampedFacts DEF IsToken
  <2>2. /\ stored.dies = fetched + stored.life
        /\ stored.ends + real = epoch + fetched + stored.life
    BY <1>2, <1>7, <2>1 DEF LifetimeInv, StoredInv
  <2> QED BY <1>1, <2>2 DEF IsToken
<1>8. CachedInv'
  <2> SUFFICES ASSUME steady, stored.life >= MIN_LIFETIME
               PROVE  cached'.ends + real + GUARD < instant + cached'.dies + MIN_LIFETIME
    BY <1>5 DEF CachedInv, FromStore
  <2>1. stored.dies = real + remaining
    BY <1>7
  <2>2. CASE remaining < MIN_LIFETIME
    BY <1>1, <1>5, <2>1, <2>2, ClampedFacts
  <2>3. CASE remaining >= MIN_LIFETIME
    BY <1>1, <1>5, <2>1, <2>3, ClampedFacts
  <2> QED BY <1>1, <2>2, <2>3
<1>9. NeverHandedOutDead'
  BY <1>1, <1>4, <1>7 DEF NeverHandedOutDead, FromStore
<1> QED BY <1>6, <1>8, <1>9 DEF LifetimeInv

\* A token just granted has its whole life before it.
LEMMA FromGrantKeeps ==
    ASSUME LifetimeInv, NEW n \in Lifetimes, FromGrant(n)
    PROVE  LifetimeInv'
<1> USE LifetimeAssumption
<1> DEFINE t == [dies |-> real + n, life |-> n, ends |-> epoch + Clamped(n)]
<1>1. /\ n \in Nat /\ Clamped(n) \in Nat
      /\ real \in Nat /\ instant \in Nat /\ epoch \in Nat
  BY ClampedFacts DEF LifetimeInv, LifetimeTypeOK
<1>2. /\ stored' = t /\ handed' = t /\ cached' = [t EXCEPT !.ends = instant + Clamped(n)]
      /\ fetched' = real /\ steady' = TRUE /\ UNCHANGED <<real, instant, epoch>>
  BY DEF FromGrant, HandOut
<1>3. /\ cached' \in IsToken /\ cached'.dies = real + n /\ cached'.life = n
      /\ cached'.ends = instant + Clamped(n)
  BY <1>1, <1>2 DEF IsToken
<1>4. LifetimeTypeOK'
  BY <1>1, <1>2, <1>3 DEF LifetimeTypeOK, IsToken
<1>5. StoredInv'
  BY <1>1, <1>2 DEF StoredInv, Clamped
<1>6. CachedInv'
  BY <1>1, <1>2, <1>3, ClampedFacts DEF CachedInv
<1>7. NeverHandedOutDead'
  BY <1>1, <1>2 DEF NeverHandedOutDead
<1> QED BY <1>4, <1>5, <1>6, <1>7 DEF LifetimeInv

\* Time and restarts: nothing is handed out, and where the clocks agree they
\* move together.
LEMMA ClocksKeep ==
    ASSUME LifetimeInv, Tick \/ Suspend \/ Restart \/ \E n \in Jumps : SetClock(n)
    PROVE  LifetimeInv'
<1> USE LifetimeAssumption
<1>1. /\ real \in Nat /\ instant \in Nat /\ epoch \in Nat /\ fetched \in Nat
      /\ stored \in IsToken /\ cached \in IsToken
      /\ NoToken \in IsToken
  BY DEF LifetimeInv, LifetimeTypeOK, IsToken, NoToken
<1>2. CASE Tick
  <2>1. LifetimeTypeOK' /\ NeverHandedOutDead'
    BY <1>1, <1>2 DEF LifetimeInv, LifetimeTypeOK, NeverHandedOutDead, Tick
  <2>2. Clamped(stored.life) \in Nat
    BY <1>1, ClampedFacts DEF IsToken
  <2>3. StoredInv'
    BY <1>1, <1>2, <2>2 DEF LifetimeInv, StoredInv, Tick, IsToken
  <2>4. CachedInv'
    BY <1>1, <1>2 DEF LifetimeInv, CachedInv, Tick, IsToken
  <2> QED BY <2>1, <2>3, <2>4 DEF LifetimeInv
<1>3. CASE Suspend
  <2>1. LifetimeTypeOK'
    <3>1. steady' \in BOOLEAN /\ handed' \in IsToken
      BY <1>1, <1>3, Zenon DEF Suspend
    <3>2. real' \in Nat /\ epoch' \in Nat
      BY <1>1, <1>3 DEF Suspend
    <3> QED BY <1>1, <1>3, <3>1, <3>2, Zenon DEF LifetimeTypeOK, Suspend
  <2>2. StoredInv' /\ CachedInv' /\ NeverHandedOutDead'
    BY <1>3 DEF LifetimeInv, StoredInv, CachedInv, NeverHandedOutDead, Suspend
  <2> QED BY <2>1, <2>2 DEF LifetimeInv
<1>4. CASE Restart
  BY <1>1, <1>4 DEF LifetimeInv, LifetimeTypeOK, StoredInv, CachedInv, NeverHandedOutDead,
                    Restart
<1>5. ASSUME NEW n \in Jumps, SetClock(n) PROVE LifetimeInv'
  <2>1. epoch' \in Nat
    BY <1>1, <1>5 DEF SetClock
  <2>2. LifetimeTypeOK'
    <3>1. steady' \in BOOLEAN /\ handed' \in IsToken
      BY <1>1, <1>5, Zenon DEF SetClock
    <3>2. real' \in Nat /\ instant' \in Nat
      BY <1>1, <1>5 DEF SetClock
    <3> QED BY <1>1, <1>5, <2>1, <3>1, <3>2, Zenon DEF LifetimeTypeOK, SetClock
  <2>3. StoredInv' /\ CachedInv' /\ NeverHandedOutDead'
    BY <1>5 DEF LifetimeInv, StoredInv, CachedInv, NeverHandedOutDead, SetClock
  <2> QED BY <2>2, <2>3 DEF LifetimeInv
<1> QED BY <1>2, <1>3, <1>4, <1>5

\* LifetimeInv holds in every reachable state.
THEOREM LifetimeInductive == LifetimeSpec => []LifetimeInv
<1>1. LifetimeInv /\ [LifetimeNext]_lifetimeVars => LifetimeInv'
  <2> SUFFICES ASSUME LifetimeInv, [LifetimeNext]_lifetimeVars PROVE LifetimeInv'
    OBVIOUS
  <2>1. CASE UNCHANGED lifetimeVars
    BY <2>1 DEF lifetimeVars, LifetimeInv, LifetimeTypeOK, StoredInv, CachedInv,
                NeverHandedOutDead
  <2> QED
    BY <2>1, FromCacheKeeps, FromStoreKeeps, FromGrantKeeps, ClocksKeep
    DEF LifetimeNext, Resolve
<1> QED BY LifetimeBegins, <1>1, PTL DEF LifetimeSpec

\* token() hands out no dead token that was issued for MIN_LIFETIME or more,
\* as long as the clocks agree.
THEOREM NeverHandedOutDeadHolds == LifetimeSpec => []NeverHandedOutDead
<1>1. LifetimeInv => NeverHandedOutDead
  BY DEF LifetimeInv
<1> QED BY LifetimeInductive, <1>1, PTL

\* Two grants are at least MIN_LIFETIME - GUARD apart while the clocks agree.
THEOREM NoRefreshLoopHolds == LifetimeSpec => NoRefreshLoop
<1> DEFINE Spaced == stored' # stored /\ stored # NoToken /\ steady
                         => real >= fetched + (MIN_LIFETIME - GUARD)
<1>1. ASSUME LifetimeInv, [LifetimeNext]_lifetimeVars PROVE Spaced
  <2> SUFFICES ASSUME stored' # stored, stored # NoToken, steady
               PROVE  real >= fetched + (MIN_LIFETIME - GUARD)
    OBVIOUS
  <2>1. PICK n \in Lifetimes : FromGrant(n)
    BY <1>1 DEF LifetimeNext, Resolve, FromCache, FromStore, Tick, Suspend, Restart,
                SetClock, lifetimeVars
  <2>2. /\ real \in Nat /\ epoch \in Nat /\ fetched \in Nat /\ stored \in IsToken
        /\ stored.ends \in Nat /\ stored.life \in Nat
    BY <1>1 DEF LifetimeInv, LifetimeTypeOK, IsToken
  <2>3. Clamped(stored.life) \in Nat /\ Clamped(stored.life) >= MIN_LIFETIME
    BY <2>2, ClampedFacts
  <2>4. stored.ends + real = epoch + fetched + Clamped(stored.life)
    BY <1>1 DEF LifetimeInv, StoredInv
  <2>5. stored.ends <= epoch + GUARD
    BY <2>1, <2>2, LifetimeAssumption DEF FromGrant, StoreValid
  <2> QED BY <2>2, <2>3, <2>4, <2>5, LifetimeAssumption
<1>2. LifetimeInv /\ [LifetimeNext]_lifetimeVars => [Spaced]_lifetimeVars
  BY <1>1
<1> QED BY LifetimeInductive, <1>2, PTL DEF LifetimeSpec, NoRefreshLoop

(***************************************************************************)
(* Startup: tokens stay home.                                              *)
(***************************************************************************)
\* A file that has a label of an environment holds what belongs there, and one
\* that has none holds nothing.
HomeFile == {f \in [label   : Environments \cup {"absent", "corrupt"},
                    tokens  : Environments \cup {"none"},
                    pending : Environments \cup {"none"}] :
                /\ f.tokens \in {"none", f.label}
                /\ f.pending \in {"none", f.label}}

FilesInv == files \in [Paths -> HomeFile]

\* What the process holds is of its own environment.
HeldInv ==
    /\ token \in {"none", EnvOf(cfg)}
    /\ polling \in {"none", "over", EnvOf(cfg)}
    /\ polling = "over" => stage \in {"check", "bind", "serving", "exit", "off"}

\* Stages with the settings of the input, and those that may open the file.
Configured == {"clients", "schema", "login", "poll", "policy", "check", "bind", "serving"}
Opening == Configured \ {"clients", "schema"}

Opens == input.command \notin {"stats", "list"}

\* Before its settings are there a process holds nothing; then its token file is
\* one of Paths, if it has use for one.
StageInv ==
    /\ stage = "load" => input \in Inputs \cup Restarts /\ token = "none" /\ polling = "none"
    /\ stage \in Configured /\ Opens => TokenPath(input, cfg) \in Paths
    /\ stage \in Opening => Opens

HomeInv == FilesInv /\ HeldInv /\ StageInv /\ TokensStayHome

\* The environment of a process is one of the two, and no other word.
LEMMA EnvFacts ==
    \A s : /\ EnvOf(s) \in Environments /\ EnvOf(s) \notin {"none", "over"}
           /\ Environments \cap {"none", "over"} = {}
BY DEF EnvOf, Environments

\* A file labelled with an environment, that holds what belongs there, is at home.
LEMMA HomeFileFacts ==
    /\ Absent \in HomeFile
    /\ [Absent EXCEPT !.label = "corrupt"] \in HomeFile
    /\ SavedTokens \in HomeFile
    /\ \A t \in {"none", EnvOf(cfg)} :
           [label |-> EnvOf(cfg), tokens |-> t, pending |-> EnvOf(cfg)] \in HomeFile
BY EnvFacts DEF HomeFile, Absent, SavedTokens, Environments

\* The file of a process that opens one; what is loaded is of its environment.
LEMMA FileFacts ==
    ASSUME HomeInv, stage \in Opening
    PROVE  /\ TokenPath(input, cfg) \in Paths
           /\ File \in HomeFile
           /\ Loadable(File, cfg) => /\ File.tokens \in {"none", EnvOf(cfg)}
                                     /\ File.pending \in {"none", EnvOf(cfg)}
<1>1. TokenPath(input, cfg) \in Paths
  BY DEF HomeInv, StageInv, Opening
<1>2. File \in HomeFile
  BY <1>1 DEF HomeInv, FilesInv, File
<1> QED BY <1>1, <1>2 DEF Loadable, HomeFile, Environments

\* Writing a file that is at home.
LEMMA WriteKeeps ==
    ASSUME FilesInv, NEW f \in HomeFile, Write(f)
    PROVE  FilesInv'
BY DEF FilesInv, Write

\* Sending what is of the process's environment.
LEMMA SendKeeps ==
    ASSUME TokensStayHome, NEW host, NEW carries \in {"none", EnvOf(cfg)}, Send(host, carries)
    PROVE  TokensStayHome'
BY DEF TokensStayHome, Send, Request

\* Nothing is held or sent before the first process.
LEMMA HomeBegins == StartupInit => HomeInv
<1> SUFFICES ASSUME StartupInit PROVE HomeInv
  OBVIOUS
<1>1. FilesInv
  BY HomeFileFacts DEF StartupInit, FilesInv
<1> QED
  BY <1>1 DEF StartupInit, HomeInv, HeldInv, StageInv, TokensStayHome, Configured, Opening

\* A process begins with nothing.
LEMMA BootKeeps ==
    ASSUME HomeInv, NEW i \in Inputs \cup Restarts, Boot(i)
    PROVE  HomeInv'
<1>1. FilesInv'
  BY DEF HomeInv, FilesInv, Boot
<1> QED
  BY <1>1 DEF HomeInv, HeldInv, StageInv, TokensStayHome, Configured, Opening, Boot, Move

\* The settings come before any token.
LEMMA LoadKeeps == HomeInv /\ Load => HomeInv'
<1> SUFFICES ASSUME HomeInv, Load PROVE HomeInv'
  OBVIOUS
<1>1. FilesInv' /\ TokensStayHome'
  BY DEF HomeInv, FilesInv, TokensStayHome, Load
<1>2. /\ input \in Inputs \cup Restarts /\ token = "none" /\ polling = "none"
      /\ UNCHANGED <<input, token, polling>>
  BY DEF HomeInv, StageInv, Load
<1>3. HeldInv'
  BY <1>2 DEF HeldInv
<1>4. CASE Loads(input) /\ Valid(Merged(input))
  <2>1. stage' = "clients" /\ cfg' = Merged(input)
    BY <1>4 DEF Load, Move
  <2>2. Opens => TokenPath(input, Merged(input)) \in Paths
    BY <1>2, <1>4, InputAssumption DEF Opens
  <2>3. StageInv'
    BY <1>2, <2>1, <2>2 DEF StageInv, Opens, TokenPath, Opening
  <2> QED BY <1>1, <1>3, <2>3 DEF HomeInv
<1>5. CASE ~(Loads(input) /\ Valid(Merged(input)))
  BY <1>1, <1>3, <1>5 DEF HomeInv, StageInv, Load, Move, Configured, Opening
<1> QED BY <1>4, <1>5

\* A step keeps the stages' part if it leaves the settings and goes on to a stage
\* that opens the token file only from one, or when the command has use for it.
LEMMA StageKeeps ==
    ASSUME HomeInv, UNCHANGED <<input, cfg>>, stage \in Configured, stage' # "load",
           stage' \in Opening => Opens
    PROVE  StageInv'
BY DEF HomeInv, StageInv, TokenPath, Opens, Opening

\* Up to the schema nothing is carried and no file is opened.
LEMMA SchemaKeeps == HomeInv /\ (BuildClients \/ LoadSchema) => HomeInv'
<1> SUFFICES ASSUME HomeInv, BuildClients \/ LoadSchema PROVE HomeInv'
  OBVIOUS
<1>1. FilesInv' /\ HeldInv'
  BY DEF HomeInv, FilesInv, HeldInv, BuildClients, LoadSchema
<1>2. TokensStayHome'
  BY SendKeeps DEF HomeInv, TokensStayHome, BuildClients, LoadSchema
<1>3. StageInv'
  BY StageKeeps DEF BuildClients, LoadSchema, Move, Opens, Opening, Configured
<1> QED BY <1>1, <1>2, <1>3 DEF HomeInv

\* The login command: what it resumes is of its environment, as is what it saves.
LEMMA LoginKeeps ==
    HomeInv /\ (LoginResumes \/ LoginRequests \/ LoginFails \/ LoginPolls) => HomeInv'
<1> SUFFICES ASSUME HomeInv, LoginResumes \/ LoginRequests \/ LoginFails \/ LoginPolls
             PROVE  HomeInv'
  OBVIOUS
<1>1. stage \in Opening /\ stage' # "load" /\ UNCHANGED <<input, cfg, token>>
  BY DEF LoginResumes, LoginRequests, LoginFails, LoginPolls, Move, Opening, Configured
<1>2. StageInv'
  BY <1>1, StageKeeps DEF HomeInv, StageInv, Opening
<1>3. HeldInv'
  BY <1>1, EnvFacts, FileFacts
  DEF HomeInv, HeldInv, LoginResumes, LoginRequests, LoginFails, LoginPolls, Move
<1>4. TokensStayHome'
  BY <1>1, SendKeeps
  DEF HomeInv, HeldInv, TokensStayHome, LoginResumes, LoginRequests, LoginFails, LoginPolls
<1>5. FilesInv'
  BY <1>1, FileFacts, HomeFileFacts, WriteKeeps
  DEF HomeInv, FilesInv, LoginResumes, LoginRequests, LoginFails, LoginPolls
<1> QED BY <1>2, <1>3, <1>4, <1>5 DEF HomeInv

\* The startup policy: it restores, refreshes, wipes or resumes its own file.
LEMMA PolicyKeeps ==
    HomeInv /\ (NoPolicy \/ Restore \/ RestoreFails \/ ResumeGrant \/ NoAuthorization)
        => HomeInv'
<1> SUFFICES ASSUME HomeInv,
                    NoPolicy \/ Restore \/ RestoreFails \/ ResumeGrant \/ NoAuthorization
             PROVE  HomeInv'
  OBVIOUS
<1>1. stage \in Opening /\ stage' # "load" /\ UNCHANGED <<input, cfg>>
  BY DEF NoPolicy, Restore, RestoreFails, ResumeGrant, NoAuthorization, Move, AfterPolicy,
         Opening, Configured
<1>2. StageInv'
  BY <1>1, StageKeeps DEF HomeInv, StageInv, Opening
<1>3. HeldInv'
  BY <1>1, EnvFacts, FileFacts
  DEF HomeInv, HeldInv, NoPolicy, Restore, RestoreFails, ResumeGrant, NoAuthorization, Move
<1>4. TokensStayHome'
  BY <1>1, FileFacts, SendKeeps
  DEF HomeInv, TokensStayHome, NoPolicy, Restore, RestoreFails, ResumeGrant, NoAuthorization
<1>5. FilesInv'
  BY <1>1, HomeFileFacts, WriteKeeps
  DEF HomeInv, FilesInv, NoPolicy, Restore, RestoreFails, ResumeGrant, NoAuthorization
<1> QED BY <1>2, <1>3, <1>4, <1>5 DEF HomeInv

\* A server sends what it holds.
LEMMA ServingKeeps == HomeInv /\ (StartupCheck \/ Bind \/ Serving) => HomeInv'
<1> SUFFICES ASSUME HomeInv, StartupCheck \/ Bind \/ Serving PROVE HomeInv'
  OBVIOUS
<1>1. stage \in Opening /\ stage' # "load" /\ UNCHANGED <<input, cfg>>
  BY DEF StartupCheck, Bind, Serving, ToolCall, FirstToken, ResumeEnds, Move, Opening,
         Configured
<1>2. StageInv'
  BY <1>1, StageKeeps DEF HomeInv, StageInv, Opening
<1>3. HeldInv'
  BY <1>1, EnvFacts
  DEF HomeInv, HeldInv, StartupCheck, Bind, Serving, ToolCall, FirstToken, ResumeEnds, Move
<1>4. TokensStayHome'
  BY <1>1, EnvFacts, SendKeeps
  DEF HomeInv, HeldInv, TokensStayHome, StartupCheck, Bind, Serving, ToolCall, FirstToken,
      ResumeEnds
<1>5. FilesInv'
  BY <1>1, HomeFileFacts, WriteKeeps
  DEF HomeInv, FilesInv, StartupCheck, Bind, Serving, ToolCall, FirstToken, ResumeEnds
<1> QED BY <1>2, <1>3, <1>4, <1>5 DEF HomeInv

\* The end of a process leaves the files.
LEMMA ExitKeeps == HomeInv /\ Exit => HomeInv'
BY DEF HomeInv, FilesInv, HeldInv, StageInv, TokensStayHome, Exit, Move, Configured, Opening

\* HomeInv holds in every reachable state.
THEOREM HomeInductive == StartupSpec => []HomeInv
<1>1. HomeInv /\ [StartupNext]_startVars => HomeInv'
  <2> SUFFICES ASSUME HomeInv, [StartupNext]_startVars PROVE HomeInv'
    OBVIOUS
  <2>1. CASE UNCHANGED startVars
    BY <2>1 DEF startVars, HomeInv, FilesInv, HeldInv, StageInv, TokensStayHome, Opens,
                TokenPath
  <2> QED
    BY <2>1, BootKeeps, LoadKeeps, SchemaKeeps, LoginKeeps, PolicyKeeps, ServingKeeps,
       ExitKeeps
    DEF StartupNext
<1> QED BY HomeBegins, <1>1, PTL DEF StartupSpec

\* Over all restarts, whatever the flags, no token and no code is ever sent to a
\* host of the other environment.
THEOREM TokensStayHomeHolds == StartupSpec => []TokensStayHome
<1>1. HomeInv => TokensStayHome
  BY DEF HomeInv
<1> QED BY HomeInductive, <1>1, PTL

(***************************************************************************)
(* Startup: a server begins authorized.                                    *)
(***************************************************************************)
\* Past the policy the device flow has a token or has polled, past the eager check
\* the other flow has a token.
AuthorizedInv ==
    /\ stage \in {"check", "bind"} /\ DeviceFlow => token # "none" \/ polling # "none"
    /\ stage = "bind" /\ ~DeviceFlow => token # "none"

\* No step reaches the stages past the policy without an authorization.
LEMMA AuthorizedKeeps == AuthorizedInv /\ [StartupNext]_startVars => AuthorizedInv'
<1> SUFFICES ASSUME AuthorizedInv, [StartupNext]_startVars PROVE AuthorizedInv'
  OBVIOUS
<1> USE DEF AuthorizedInv, DeviceFlow
<1>1. CASE UNCHANGED startVars
  BY <1>1 DEF startVars
<1>2. ASSUME NEW i, Boot(i) PROVE AuthorizedInv'
  BY <1>2 DEF Boot, Move
<1>3. CASE Load \/ BuildClients \/ LoadSchema
  BY <1>3 DEF Load, BuildClients, LoadSchema, Move
<1>4. CASE LoginResumes \/ LoginRequests \/ LoginFails \/ LoginPolls
  BY <1>4 DEF LoginResumes, LoginRequests, LoginFails, LoginPolls, Move
<1>5. CASE NoPolicy \/ Restore \/ RestoreFails \/ ResumeGrant \/ NoAuthorization
  BY <1>5, EnvFacts
  DEF NoPolicy, Restore, RestoreFails, ResumeGrant, NoAuthorization, Move, AfterPolicy
<1>6. CASE StartupCheck \/ Bind
  BY <1>6, EnvFacts DEF StartupCheck, Bind, Move
<1>7. CASE Serving \/ Exit
  BY <1>7, EnvFacts DEF Serving, ToolCall, FirstToken, ResumeEnds, Exit, Move
<1> QED BY <1>1, <1>2, <1>3, <1>4, <1>5, <1>6, <1>7 DEF StartupNext

\* A process that begins to serve HTTP has a token or has begun to poll for one.
THEOREM ServesAuthorizedHolds == StartupSpec => ServesAuthorized
<1>1. StartupInit => AuthorizedInv
  BY DEF StartupInit, AuthorizedInv
<1>2. AuthorizedInv /\ stage = "bind" /\ stage' = "serving"
          => token # "none" \/ polling # "none"
  BY DEF AuthorizedInv
<1> QED BY <1>1, <1>2, AuthorizedKeeps, PTL DEF StartupSpec, ServesAuthorized

(***************************************************************************)
(* Startup: the User-Agent's grammar.                                      *)
(***************************************************************************)
\* Some numbers have a least one.
LEMMA LeastOf ==
    ASSUME NEW S \in SUBSET Nat, S # {}
    PROVE  Least(S) \in S /\ \A l \in S : Least(S) <= l
<1>1. PICK m \in S : \A l \in S : <<l, m>> \notin OpToRel(<, Nat)
  BY NatLessThanWellFounded, WFMin
<1>2. \A l \in S : m <= l
  <2> SUFFICES ASSUME NEW l \in S, l < m PROVE FALSE
    OBVIOUS
  <2>1. <<l, m>> \in OpToRel(<, Nat)
    BY DEF OpToRel
  <2> QED BY <1>1, <2>1
<1> QED BY <1>2 DEF Least

\* Numbers up to a bound have a greatest one.
LEMMA GreatestOf ==
    ASSUME NEW n \in Nat, NEW S \in SUBSET (1 .. n), S # {}
    PROVE  \E m \in S : \A l \in S : m >= l
<1> DEFINE Gaps == {n - k : k \in S}
<1>1. Gaps \in SUBSET Nat /\ Gaps # {}
  <2>1. \A k \in S : n - k \in Nat
    OBVIOUS
  <2>2. PICK k \in S : TRUE
    OBVIOUS
  <2>3. n - k \in Gaps
    BY <2>2
  <2>4. \A x \in Gaps : x \in Nat
    BY <2>1
  <2> QED BY <2>3, <2>4, Zenon
<1> DEFINE g == Least(Gaps)
<1>2. g \in Gaps /\ \A l \in Gaps : g <= l
  <2> HIDE DEF Gaps
  <2> QED BY <1>1, LeastOf
<1> HIDE DEF g
<1>3. PICK m \in S : n - m = g
  BY <1>2
<1>4. \A l \in S : n - m <= n - l
  <2> SUFFICES ASSUME NEW l \in S PROVE n - m <= n - l
    OBVIOUS
  <2>1. n - l \in Gaps
    OBVIOUS
  <2> HIDE DEF Gaps
  <2> QED BY <1>2, <1>3, <2>1
<1>5. \A l \in S : l \in Nat
  OBVIOUS
<1> HIDE DEF Gaps
<1> QED BY ONLY <1>4, <1>5, n \in Nat, m \in S

\* Trimming leaves a sequence of tokens.
LEMMA TrimAgentType ==
    ASSUME NEW ua \in Seq(AgentTokens)
    PROVE  TrimAgent(ua) \in Seq(AgentTokens)
<1> DEFINE inner == {k \in 1 .. Len(ua) : ua[k] # "space"}
           last == CHOOSE k \in inner : \A l \in inner : k >= l
<1>1. CASE inner = {}
  BY <1>1, EmptySeq DEF TrimAgent
<1>2. CASE inner # {}
  <2>1. Len(ua) \in Nat /\ \A k \in 1 .. Len(ua) : ua[k] \in AgentTokens
    BY LenProperties
  <2>2. inner \in SUBSET Nat /\ inner \in SUBSET (1 .. Len(ua))
    BY <2>1
  <2>3. Least(inner) \in inner
    BY <1>2, <2>2, LeastOf
  <2>4. last \in inner
    <3>1. \E m \in inner : \A l \in inner : m >= l
      BY ONLY <1>2, <2>1, <2>2, GreatestOf
    <3> QED BY <3>1
  <2>5. TrimAgent(ua) = SubSeq(ua, Least(inner), last)
    BY <1>2 DEF TrimAgent
  <2>6. /\ Least(inner) \in 1 .. Len(ua) /\ last \in 1 .. Len(ua)
    BY <2>3, <2>4
  <2> HIDE DEF inner, last
  <2>7. SubSeq(ua, Least(inner), last) \in Seq(AgentTokens)
    BY <2>1, <2>6, SubSeqProperties
  <2> QED BY <2>5, <2>7
<1> QED BY <1>1, <1>2

\* The default has nothing to trim.
LEMMA DefaultAgentStays ==
    DefaultAgent \in Seq(AgentTokens) /\ TrimAgent(DefaultAgent) = DefaultAgent
<1>1. DefaultAgent \in Seq(AgentTokens) /\ Len(DefaultAgent) = 8
  BY DEF DefaultAgent, AgentTokens
<1> DEFINE inner == {k \in 1 .. 8 : DefaultAgent[k] # "space"}
           last == CHOOSE k \in inner : \A l \in inner : k >= l
<1>2. 1 \in inner /\ 8 \in inner /\ inner \in SUBSET (1 .. 8) /\ inner \in SUBSET Nat
  BY DEF DefaultAgent
<1>3. Least(inner) = 1
  BY <1>2, LeastOf
<1>4. last = 8
  <2>1. \A l \in inner : 8 >= l
    BY <1>2
  <2>2. last \in inner /\ \A l \in inner : last >= l
    BY <1>2, <2>1
  <2>3. last >= 8 /\ last \in 1 .. 8
    BY <1>2, <2>2
  <2> HIDE DEF last, inner
  <2> QED BY <2>3
<1>5. TrimAgent(DefaultAgent) = SubSeq(DefaultAgent, Least(inner), last)
  BY <1>1, <1>2 DEF TrimAgent
<1>6. TrimAgent(DefaultAgent) = SubSeq(DefaultAgent, 1, Len(DefaultAgent))
  BY <1>1, <1>3, <1>4, <1>5
<1> QED BY <1>1, <1>6, SubSeqFull

\* A stretch of one token, and of five.
LEMMA StretchOfOne ==
    ASSUME NEW ua \in Seq(AgentTokens), NEW a \in Nat, NEW b \in Nat
    PROVE  SubSeq(ua, a + 1, b - 1) = <<"v">> <=> b = a + 2 /\ ua[a + 1] = "v"
<1> DEFINE s == SubSeq(ua, a + 1, b - 1)
<1>0. a + 1 \in Int /\ b - 1 \in Int
  OBVIOUS
<1>1. s = [i \in 1 .. b - 1 - a |-> ua[i + a]]
  OBVIOUS
<1>2. <<"v">> = [i \in 1 .. 1 |-> "v"]
  OBVIOUS
<1>3. ASSUME s = <<"v">> PROVE b = a + 2 /\ ua[a + 1] = "v"
  <2>1. DOMAIN s = 1 .. b - 1 - a
    BY <1>1
  <2>2. DOMAIN s = 1 .. 1 /\ s[1] = "v"
    BY <1>2, <1>3
  <2>3. 1 .. b - 1 - a = 1 .. 1
    BY <2>1, <2>2
  <2>4. b - 1 - a = 1
    BY <2>3, 1 \in 1 .. 1, 2 \notin 1 .. 1
  <2>5. s[1] = ua[1 + a]
    BY <1>1, <2>4
  <2> QED BY <2>2, <2>4, <2>5
<1>4. ASSUME b = a + 2, ua[a + 1] = "v" PROVE s = <<"v">>
  <2>1. b - 1 - a = 1
    BY <1>4
  <2>2. s = [i \in 1 .. 1 |-> ua[i + a]]
    BY <1>1, <2>1
  <2>3. \A i \in 1 .. 1 : ua[i + a] = "v"
    BY <1>4
  <2> HIDE DEF s
  <2> QED BY <1>2, <2>2, <2>3
<1> QED BY <1>3, <1>4

LEMMA StretchOfFive ==
    ASSUME NEW ua \in Seq(AgentTokens), NEW k \in Nat
    PROVE  SubSeq(ua, k + 1, k + 5) = <<"/", "v", "space", "(+", "h">>
               <=> /\ ua[k + 1] = "/" /\ ua[k + 2] = "v" /\ ua[k + 3] = "space"
                   /\ ua[k + 4] = "(+" /\ ua[k + 5] = "h"
<1> DEFINE s == SubSeq(ua, k + 1, k + 5)
           five == <<"/", "v", "space", "(+", "h">>
<1>1. s = [i \in 1 .. 5 |-> ua[i + k]]
  OBVIOUS
<1>2. \A i \in 1 .. 5 : s[i] = ua[k + i]
  BY <1>1
<1>3. five = [i \in 1 .. 5 |-> five[i]]
  OBVIOUS
<1>4. five[1] = "/" /\ five[2] = "v" /\ five[3] = "space" /\ five[4] = "(+" /\ five[5] = "h"
  OBVIOUS
<1>5. s = five <=> \A i \in 1 .. 5 : s[i] = five[i]
  <2> HIDE DEF five
  <2> QED BY <1>1, <1>3
<1>6. 1 .. 5 = {1, 2, 3, 4, 5}
  OBVIOUS
<1> HIDE DEF s, five
<1>7. (\A i \in 1 .. 5 : s[i] = five[i])
          <=> s[1] = five[1] /\ s[2] = five[2] /\ s[3] = five[3] /\ s[4] = five[4] /\ s[5] = five[5]
  BY <1>6
<1>8. s[1] = ua[k + 1] /\ s[2] = ua[k + 2] /\ s[3] = ua[k + 3] /\ s[4] = ua[k + 4] /\ s[5] = ua[k + 5]
  BY <1>2, <1>6
<1>9. s = five <=> /\ ua[k + 1] = "/" /\ ua[k + 2] = "v" /\ ua[k + 3] = "space"
                   /\ ua[k + 4] = "(+" /\ ua[k + 5] = "h"
  BY ONLY <1>4, <1>5, <1>7, <1>8
<1> QED BY <1>9 DEF s, five

\* validate_user_agent takes exactly AppName/Version (+URL), whatever its length.
LEMMA AgentFormat ==
    ASSUME NEW ua \in Seq(AgentTokens)
    PROVE  ValidUserAgent(ua) <=> Format(ua)
<1> DEFINE n == Len(ua)
           marks == {k \in 1 .. n - 1 : ua[k] = "space" /\ ua[k + 1] = "(+"}
           slashes == {k \in 1 .. n : ua[k] \in {"/", "h"}}
           marker == Least(marks)
           slash == Least(slashes)
<1>1. n \in Nat
  BY LenProperties
<1>2. marks \in SUBSET Nat /\ slashes \in SUBSET Nat
  OBVIOUS
<1>3. ASSUME ValidUserAgent(ua) PROVE Format(ua)
  <2>1. /\ marks # {} /\ ua[n] = ")" /\ slashes # {}
        /\ slash < marker /\ slash > 1
        /\ \A k \in 1 .. slash - 1 : ua[k] \in {"n", "v"}
        /\ ua[slash] = "/" /\ SubSeq(ua, slash + 1, marker - 1) = <<"v">>
        /\ marker + 2 < n - 1 /\ ua[marker + 2] = "h"
    BY <1>3 DEF ValidUserAgent, WellFormed
  <2>2. \A k, l \in 1 .. n : ua[k] # "!" /\ (ua[k] = "space" /\ ua[l] = "space" => k = l)
    BY <1>3 DEF ValidUserAgent
  <2>3. marker \in marks /\ slash \in slashes
    BY <1>2, <2>1, LeastOf
  <2>4. /\ marker \in 1 .. n - 1 /\ ua[marker] = "space" /\ ua[marker + 1] = "(+"
        /\ slash \in 1 .. n
    BY <2>3
  <2> HIDE DEF marker, slash, n
  <2>5. marker \in Nat /\ slash \in Nat
    BY <1>1, <2>4
  <2>6. marker = slash + 2 /\ ua[slash + 1] = "v"
    BY <2>1, <2>5, StretchOfOne
  <2> DEFINE k == slash - 1
  <2>7. /\ k \in 1 .. n /\ k + 6 < n
        /\ slash = k + 1 /\ slash + 1 = k + 2 /\ marker = k + 3
        /\ marker + 1 = k + 4 /\ marker + 2 = k + 5
    BY <1>1, <2>1, <2>4, <2>5, <2>6
  <2>8. SubSeq(ua, k + 1, k + 5) = <<"/", "v", "space", "(+", "h">>
    <3>1. /\ ua[k + 1] = "/" /\ ua[k + 2] = "v" /\ ua[k + 3] = "space"
          /\ ua[k + 4] = "(+" /\ ua[k + 5] = "h"
      BY <2>1, <2>4, <2>6, <2>7
    <3>2. k \in Nat
      BY <1>1, <2>7
    <3> HIDE DEF k
    <3> QED BY <3>1, <3>2, StretchOfFive
  <2>9. \A l \in k + 6 .. n : ua[l] \notin {"space", "!"}
    <3> SUFFICES ASSUME NEW l \in k + 6 .. n PROVE ua[l] \notin {"space", "!"}
      OBVIOUS
    <3>1. l \in 1 .. n /\ l # marker /\ marker \in 1 .. n
      BY <1>1, <2>7, <2>4, <2>5
    <3> QED BY <2>2, <2>4, <3>1
  <2>10. \A l \in 1 .. k : ua[l] \in {"n", "v"}
    BY <2>1
  <2> HIDE DEF k
  <2> QED BY <2>1, <2>7, <2>8, <2>9, <2>10 DEF Format, n
<1>4. ASSUME Format(ua) PROVE ValidUserAgent(ua)
  <2>1. PICK k \in 1 .. n : /\ k + 6 < n /\ ua[n] = ")"
                            /\ \A l \in 1 .. k : ua[l] \in {"n", "v"}
                            /\ SubSeq(ua, k + 1, k + 5) = <<"/", "v", "space", "(+", "h">>
                            /\ \A l \in k + 6 .. n : ua[l] \notin {"space", "!"}
    BY <1>4 DEF Format
  <2>2. k \in Nat /\ k >= 1
    BY <1>1
  <2>3. /\ ua[k + 1] = "/" /\ ua[k + 2] = "v" /\ ua[k + 3] = "space"
        /\ ua[k + 4] = "(+" /\ ua[k + 5] = "h"
    BY <2>1, <2>2, StretchOfFive
  <2>4. \A l \in 1 .. n : l \in 1 .. k \/ l \in {k + 1, k + 2, k + 3, k + 4, k + 5}
                          \/ l \in k + 6 .. n
    BY <1>1, <2>2
  <2>5. \A l \in 1 .. n : ua[l] # "!" /\ (ua[l] = "space" => l = k + 3)
    BY <2>1, <2>3, <2>4
  <2>6. k + 3 \in marks /\ \A l \in marks : l = k + 3
    BY <1>1, <2>1, <2>2, <2>3, <2>5
  <2>7. marker = k + 3
    BY <1>2, <2>6, LeastOf
  <2>8. k + 1 \in slashes /\ \A l \in slashes : k + 1 <= l
    <3>1. k + 1 \in slashes
      BY <1>1, <2>1, <2>2, <2>3
    <3>2. ASSUME NEW l \in slashes PROVE k + 1 <= l
      <4>1. l \in 1 .. n /\ ua[l] \in {"/", "h"}
        OBVIOUS
      <4>2. l \notin 1 .. k
        BY <2>1, <4>1
      <4> QED BY <1>1, <2>2, <4>1, <4>2
    <3> QED BY <3>1, <3>2
  <2>9. slash = k + 1
    <3>1. slash \in slashes /\ \A l \in slashes : slash <= l
      BY <1>2, <2>8, LeastOf
    <3>2. slash <= k + 1 /\ k + 1 <= slash /\ slash \in Nat
      BY <1>2, <2>8, <3>1
    <3> HIDE DEF slash, slashes
    <3> QED BY <2>2, <3>2
  <2> HIDE DEF marker, slash
  <2>10. SubSeq(ua, slash + 1, marker - 1) = <<"v">>
    <3>1. slash \in Nat /\ marker \in Nat /\ marker = slash + 2 /\ slash + 1 = k + 2
      BY <2>2, <2>7, <2>9
    <3> QED BY <2>3, <3>1, StretchOfOne
  <2>11. /\ slash < marker /\ slash > 1 /\ slash - 1 = k
         /\ marker + 2 < n - 1 /\ marker + 2 = k + 5
    BY <1>1, <2>1, <2>2, <2>7, <2>9
  <2>12. marks # {} /\ slashes # {}
    BY <2>6, <2>8
  <2>13. WellFormed(ua)
    <3> HIDE DEF n, marks, slashes
    <3>1. /\ marks # {} /\ ua[n] = ")" /\ slashes # {}
          /\ slash < marker /\ slash > 1
          /\ \A l \in 1 .. slash - 1 : ua[l] \in {"n", "v"}
          /\ ua[slash] = "/" /\ SubSeq(ua, slash + 1, marker - 1) = <<"v">>
          /\ marker + 2 < n - 1 /\ ua[marker + 2] = "h"
      BY <2>1, <2>3, <2>9, <2>10, <2>11, <2>12
    <3> QED BY ONLY <3>1 DEF WellFormed, marker, slash, marks, slashes, n
  <2> QED BY <2>5, <2>13 DEF ValidUserAgent
<1> QED BY <1>3, <1>4

(***************************************************************************)
(* Startup: the highest layer wins.                                        *)
(***************************************************************************)
\* The inputs InputAssumption is about, and the layer of the config file.
GoodInput(i) ==
    /\ Written(i.cli) /\ Written(i.env)
    /\ \A slot \in DOMAIN i.docs : Written(i.docs[slot])

Document(i) == IF Discovered(i) = "none" THEN << >> ELSE i.docs[Discovered(i)]

IsSettings(s) == s = [k \in Keys |-> s[k]]

SourceKeys == {"schema_url", "schema_file"}

LEMMA GoodInputs == \A i \in Inputs \cup Restarts : GoodInput(i)
BY InputAssumption DEF GoodInput

\* The three layers, and which of them is the highest with one of the keys.
LEMMA HighestLayer ==
    ASSUME NEW i, NEW keys
    PROVE  /\ CliKeys(i.cli) \cap keys # {}
                  => Highest(i, keys) = [k \in CliKeys(i.cli) |-> i.cli[k]]
           /\ CliKeys(i.cli) \cap keys = {} /\ EnvKeys(i.env) \cap keys # {}
                  => Highest(i, keys) = [k \in EnvKeys(i.env) |-> Tolerated(i.env, k)]
           /\ (CliKeys(i.cli) \cup EnvKeys(i.env)) \cap keys = {}
                  /\ DOMAIN Document(i) \cap keys # {}
                  => Highest(i, keys) = Document(i)
           /\ (CliKeys(i.cli) \cup EnvKeys(i.env)) \cap keys = {}
                  /\ DOMAIN Document(i) \cap keys = {}
                  => Highest(i, keys) = << >>
<1> DEFINE cli == [k \in CliKeys(i.cli) |-> i.cli[k]]
           env == [k \in EnvKeys(i.env) |-> Tolerated(i.env, k)]
           doc == Document(i)
           layers == Layers(i)
           having == {n \in 1 .. 3 : DOMAIN layers[n] \cap keys # {}}
<1>1. layers[1] = cli /\ layers[2] = env /\ layers[3] = doc
  BY DEF Layers, Document
<1>2. DOMAIN cli = CliKeys(i.cli) /\ DOMAIN env = EnvKeys(i.env)
  OBVIOUS
<1>3. Highest(i, keys) = IF having = {} THEN << >> ELSE layers[Least(having)]
  BY DEF Highest
<1> HIDE DEF cli, env, doc, layers
<1>4. /\ 1 \in having <=> CliKeys(i.cli) \cap keys # {}
      /\ 2 \in having <=> EnvKeys(i.env) \cap keys # {}
      /\ 3 \in having <=> DOMAIN doc \cap keys # {}
  BY <1>1, <1>2
<1>5. having \in SUBSET {1, 2, 3} /\ having \in SUBSET Nat
  OBVIOUS
<1> HIDE DEF having
<1>6. having # {} => Least(having) \in having /\ \A l \in having : Least(having) <= l
  BY <1>5, LeastOf
<1> DEFINE least == Least(having)
<1> HIDE DEF least
<1>7. having # {} => least \in having /\ \A l \in having : least <= l
  BY <1>6 DEF least
<1>8. /\ 1 \in having => least = 1
      /\ 1 \notin having /\ 2 \in having => least = 2
      /\ 1 \notin having /\ 2 \notin having /\ 3 \in having => least = 3
      /\ 1 \notin having /\ 2 \notin having /\ 3 \notin having => having = {}
  <2>1. \A l \in having : l = 1 \/ l = 2 \/ l = 3
    BY <1>5
  <2>2. having # {} => (least = 1 \/ least = 2 \/ least = 3)
    BY <1>7, <2>1
  <2> QED BY <1>7, <2>1, <2>2
<1>9. /\ 1 \in having => Highest(i, keys) = cli
      /\ 1 \notin having /\ 2 \in having => Highest(i, keys) = env
      /\ 1 \notin having /\ 2 \notin having /\ 3 \in having => Highest(i, keys) = doc
      /\ 1 \notin having /\ 2 \notin having /\ 3 \notin having => Highest(i, keys) = << >>
  BY <1>1, <1>3, <1>8 DEF least
<1>10. (CliKeys(i.cli) \cup EnvKeys(i.env)) \cap keys = {}
           => CliKeys(i.cli) \cap keys = {} /\ EnvKeys(i.env) \cap keys = {}
  OBVIOUS
<1> QED BY ONLY <1>4, <1>9, <1>10 DEF cli, env, doc

\* What a layer makes of the settings under it, key by key.
LEMMA MergeValues ==
    ASSUME NEW s, NEW layer, NEW keys
    PROVE  /\ IsSettings(Merge(s, layer, keys))
           /\ \A k \in Keys \ SourceKeys :
                  Merge(s, layer, keys)[k] = IF k \in keys THEN layer[k] ELSE s[k]
           /\ Merge(s, layer, keys).schema_file =
                  IF "schema_file" \in keys THEN layer.schema_file
                  ELSE IF "schema_url" \in keys THEN "none" ELSE s.schema_file
           /\ Merge(s, layer, keys).schema_url =
                  IF "schema_file" \in keys THEN "none"
                  ELSE IF "schema_url" \in keys THEN layer.schema_url ELSE s.schema_url
<1> DEFINE a == Overlay(s, layer, keys \ SourceKeys)
           b == TakeUrl(a, layer, keys)
           c == TakeFile(b, layer, keys)
<1>0. "schema_url" \in Keys /\ "schema_file" \in Keys
  BY DEF Keys
<1>1. /\ a = [k \in Keys |-> a[k]]
      /\ \A k \in Keys : a[k] = IF k \in keys \ SourceKeys THEN layer[k] ELSE s[k]
  BY DEF Overlay
<1>2. a.schema_url = s.schema_url /\ a.schema_file = s.schema_file
  BY <1>0, <1>1 DEF SourceKeys
<1> HIDE DEF a
<1>3. /\ b = [k \in Keys |-> b[k]]
      /\ \A k \in Keys \ SourceKeys : b[k] = a[k]
      /\ b.schema_url = IF "schema_url" \in keys THEN layer.schema_url ELSE a.schema_url
      /\ b.schema_file = IF "schema_url" \in keys THEN "none" ELSE a.schema_file
  BY <1>0, <1>1 DEF TakeUrl, SourceKeys
<1> HIDE DEF b
<1>4. /\ c = [k \in Keys |-> c[k]]
      /\ \A k \in Keys \ SourceKeys : c[k] = b[k]
      /\ c.schema_file = IF "schema_file" \in keys THEN layer.schema_file ELSE b.schema_file
      /\ c.schema_url = IF "schema_file" \in keys THEN "none" ELSE b.schema_url
  BY <1>0, <1>3 DEF TakeFile, SourceKeys
<1>5. c = Merge(s, layer, keys)
  BY DEF Merge, a, b, SourceKeys
<1> HIDE DEF c
<1>6. \A k \in Keys \ SourceKeys : c[k] = IF k \in keys THEN layer[k] ELSE s[k]
  BY <1>1, <1>3, <1>4
<1>7. IsSettings(c)
  BY <1>4 DEF IsSettings
<1> QED BY <1>2, <1>3, <1>4, <1>5, <1>6, <1>7

\* What the file makes of the defaults.
LEMMA FileValues ==
    ASSUME NEW i
    PROVE  \A k \in Keys : FileSettings(i)[k] =
               IF k \in DOMAIN Document(i) THEN Document(i)[k] ELSE Defaults[k]
<1>1. CASE Discovered(i) = "none"
  <2>1. Document(i) = << >> /\ DOMAIN Document(i) = {}
    BY <1>1 DEF Document
  <2> QED BY <1>1, <2>1 DEF FileSettings
<1>2. CASE Discovered(i) # "none"
  <2>1. Document(i) = i.docs[Discovered(i)]
    BY <1>2 DEF Document
  <2> QED BY <1>2, <2>1 DEF FileSettings, Overlay
<1> QED BY <1>1, <1>2

\* What the environment makes of the file's settings.
LEMMA EnvValues ==
    ASSUME NEW i
    PROVE  /\ \A k \in Keys \ SourceKeys :
                  EnvSettings(i)[k] = IF k \in EnvKeys(i.env) THEN Tolerated(i.env, k)
                                      ELSE FileSettings(i)[k]
           /\ EnvSettings(i).schema_file =
                  IF "schema_file" \in EnvKeys(i.env) THEN i.env.schema_file
                  ELSE IF "schema_url" \in EnvKeys(i.env) THEN "none"
                       ELSE FileSettings(i).schema_file
           /\ EnvSettings(i).schema_url =
                  IF "schema_file" \in EnvKeys(i.env) THEN "none"
                  ELSE IF "schema_url" \in EnvKeys(i.env) THEN i.env.schema_url
                       ELSE FileSettings(i).schema_url
<1> DEFINE s == FileSettings(i)
           env == Trimmed(i.env)
           E == EnvKeys(i.env)
<1>1. EnvSettings(i) = Merge(s, env, E)
  BY DEF EnvSettings
<1>2. \A k \in E : env[k] = Tolerated(i.env, k)
  BY DEF Trimmed, Tolerated, TrimmedKeys, EnvKeys, Keys
<1>3. /\ "schema_file" \in E => env.schema_file = i.env.schema_file
      /\ "schema_url" \in E => env.schema_url = i.env.schema_url
  BY <1>2 DEF Tolerated
<1> HIDE DEF s, env, E
<1>4. \A k \in Keys \ SourceKeys : Merge(s, env, E)[k] = IF k \in E THEN env[k] ELSE s[k]
  BY MergeValues
<1>5. /\ Merge(s, env, E).schema_file =
             IF "schema_file" \in E THEN env.schema_file
             ELSE IF "schema_url" \in E THEN "none" ELSE s.schema_file
      /\ Merge(s, env, E).schema_url =
             IF "schema_file" \in E THEN "none"
             ELSE IF "schema_url" \in E THEN env.schema_url ELSE s.schema_url
  BY MergeValues
<1>6. \A k \in Keys \ SourceKeys :
          EnvSettings(i)[k] = IF k \in E THEN Tolerated(i.env, k) ELSE s[k]
  BY <1>1, <1>2, <1>4
<1>7. /\ EnvSettings(i).schema_file =
             IF "schema_file" \in E THEN i.env.schema_file
             ELSE IF "schema_url" \in E THEN "none" ELSE s.schema_file
      /\ EnvSettings(i).schema_url =
             IF "schema_file" \in E THEN "none"
             ELSE IF "schema_url" \in E THEN i.env.schema_url ELSE s.schema_url
  BY <1>1, <1>3, <1>5
<1> QED BY <1>6, <1>7 DEF s, E

\* What the flags make of them, and trimming the User-Agent.
LEMMA MergedValues ==
    ASSUME NEW i
    PROVE  /\ \A k \in Keys \ (SourceKeys \cup {"user_agent"}) :
                  Merged(i)[k] = IF k \in CliKeys(i.cli) THEN i.cli[k] ELSE EnvSettings(i)[k]
           /\ Merged(i).user_agent =
                  TrimAgent(IF "user_agent" \in CliKeys(i.cli) THEN i.cli.user_agent
                            ELSE EnvSettings(i).user_agent)
           /\ \A k \in SourceKeys :
                  Merged(i)[k] = Merge(EnvSettings(i), i.cli, CliKeys(i.cli))[k]
<1> DEFINE s == Merge(EnvSettings(i), i.cli, CliKeys(i.cli))
           m == Merged(i)
<1>1. /\ IsSettings(s)
      /\ \A k \in Keys \ SourceKeys :
             s[k] = IF k \in CliKeys(i.cli) THEN i.cli[k] ELSE EnvSettings(i)[k]
  BY MergeValues
<1>2. m = [s EXCEPT !.user_agent = TrimAgent(s.user_agent)]
  BY DEF Merged
<1>3. "user_agent" \in Keys /\ "user_agent" \notin SourceKeys /\ SourceKeys \subseteq Keys
  BY DEF Keys, SourceKeys
<1> HIDE DEF s, m
<1>4. m = [[k \in Keys |-> s[k]] EXCEPT !.user_agent = TrimAgent(s.user_agent)]
  BY <1>1, <1>2 DEF IsSettings
<1>5. \A k \in Keys : m[k] = IF k = "user_agent" THEN TrimAgent(s.user_agent) ELSE s[k]
  BY <1>4
<1>6. /\ \A k \in Keys \ (SourceKeys \cup {"user_agent"}) :
             m[k] = IF k \in CliKeys(i.cli) THEN i.cli[k] ELSE EnvSettings(i)[k]
      /\ \A k \in SourceKeys : m[k] = s[k]
  BY <1>1, <1>3, <1>5
<1>7. m.user_agent = TrimAgent(IF "user_agent" \in CliKeys(i.cli) THEN i.cli.user_agent
                               ELSE EnvSettings(i).user_agent)
  <2>1. m.user_agent = TrimAgent(s.user_agent)
    BY <1>3, <1>5
  <2>2. s.user_agent = IF "user_agent" \in CliKeys(i.cli) THEN i.cli.user_agent
                       ELSE EnvSettings(i).user_agent
    BY <1>1, <1>3
  <2> QED BY <2>1, <2>2
<1> QED BY <1>6, <1>7 DEF m, s

\* The first layer that has a key gives its value.
LEMMA ExpectedValues ==
    ASSUME NEW i, NEW k \in Keys \ SourceKeys
    PROVE  Merged(i)[k] = Expected(i, k)
<1> DEFINE cli == [l \in CliKeys(i.cli) |-> i.cli[l]]
           env == [l \in EnvKeys(i.env) |-> Tolerated(i.env, l)]
           doc == Document(i)
           layer == Highest(i, {k})
           value == IF k \in CliKeys(i.cli) THEN i.cli[k]
                    ELSE IF k \in EnvKeys(i.env) THEN Tolerated(i.env, k)
                         ELSE IF k \in DOMAIN doc THEN doc[k] ELSE Defaults[k]
<1>1. Merged(i)[k] = IF k = "user_agent" THEN TrimAgent(value) ELSE value
  <2> DEFINE e == EnvSettings(i)[k]
  <2>1. k \in Keys /\ FileSettings(i)[k] = IF k \in DOMAIN doc THEN doc[k] ELSE Defaults[k]
    BY FileValues
  <2>2. e = IF k \in EnvKeys(i.env)
            THEN Tolerated(i.env, k)
            ELSE FileSettings(i)[k]
    BY EnvValues
  <2>3. value = IF k \in CliKeys(i.cli) THEN i.cli[k] ELSE e
    <3> HIDE DEF e, doc
    <3> QED BY ONLY <2>1, <2>2
  <2>4. k # "user_agent" => Merged(i)[k] = IF k \in CliKeys(i.cli) THEN i.cli[k] ELSE e
    BY MergedValues
  <2>5. k = "user_agent" =>
            Merged(i)[k] = TrimAgent(IF k \in CliKeys(i.cli) THEN i.cli[k] ELSE e)
    BY MergedValues
  <2> HIDE DEF e, value
  <2> QED BY <2>3, <2>4, <2>5
<1>2. Expected(i, k) = CASE ~Has(layer, k) -> Defaults[k]
                         [] k = "user_agent" /\ Has(layer, k) -> TrimAgent(layer[k])
                         [] OTHER -> layer[k]
  BY DEF Expected
<1>3. CASE k \in CliKeys(i.cli)
  <2>1. layer = cli
    BY <1>3, HighestLayer
  <2>2. Has(layer, k) /\ layer[k] = value
    BY <1>3, <2>1 DEF Has
  <2> HIDE DEF layer, value
  <2> QED BY <1>1, <1>2, <2>2
<1>4. CASE k \notin CliKeys(i.cli) /\ k \in EnvKeys(i.env)
  <2>1. layer = env
    BY <1>4, HighestLayer
  <2>2. Has(layer, k) /\ layer[k] = value
    BY <1>4, <2>1 DEF Has
  <2> HIDE DEF layer, value
  <2> QED BY <1>1, <1>2, <2>2
<1>5. CASE k \notin CliKeys(i.cli) /\ k \notin EnvKeys(i.env) /\ k \in DOMAIN doc
  <2>1. layer = doc
    BY <1>5, HighestLayer
  <2>2. Has(layer, k) /\ layer[k] = value
    BY <1>5, <2>1 DEF Has
  <2> HIDE DEF layer, value
  <2> QED BY <1>1, <1>2, <2>2
<1>6. CASE k \notin CliKeys(i.cli) /\ k \notin EnvKeys(i.env) /\ k \notin DOMAIN doc
  <2>1. layer = << >>
    BY <1>6, HighestLayer
  <2>2. ~Has(layer, k)
    BY <2>1 DEF Has
  <2>3. value = Defaults[k] /\ (k = "user_agent" => Defaults[k] = DefaultAgent)
    BY <1>6 DEF Defaults, Keys
  <2> HIDE DEF layer, value
  <2> QED BY <1>1, <1>2, <2>2, <2>3, DefaultAgentStays
<1> QED BY <1>3, <1>4, <1>5, <1>6

\* No layer has a source without a name.
LEMMA LayersWritten ==
    ASSUME NEW i, GoodInput(i), Loads(i)
    PROVE  Written(i.cli) /\ Written(i.env) /\ Written(Document(i))
<1>1. CASE Discovered(i) = "none"
  <2>1. Document(i) = << >> /\ DOMAIN Document(i) = {}
    BY <1>1 DEF Document
  <2> QED BY <2>1 DEF GoodInput, Written, Has
<1>2. CASE Discovered(i) # "none"
  BY <1>2 DEF GoodInput, Loads, Has, Document
<1> QED BY <1>1, <1>2

\* Across the layers the two keys are one setting, the source of the schema.
LEMMA ExpectedSources ==
    ASSUME NEW i, GoodInput(i), Loads(i)
    PROVE  Source(Merged(i)) = ExpectedSource(i)
<1> DEFINE C == CliKeys(i.cli)
           E == EnvKeys(i.env)
           doc == Document(i)
           D == DOMAIN doc
           layer == Highest(i, SourceKeys)
           file == Merged(i).schema_file
           url == Merged(i).schema_url
           envFile == EnvSettings(i).schema_file
           envUrl == EnvSettings(i).schema_url
           fileUrl == FileSettings(i).schema_url
           fileFile == FileSettings(i).schema_file
<1>1. /\ file = IF "schema_file" \in C THEN i.cli.schema_file
                ELSE IF "schema_url" \in C THEN "none" ELSE envFile
      /\ url = IF "schema_file" \in C THEN "none"
               ELSE IF "schema_url" \in C THEN i.cli.schema_url ELSE envUrl
  <2> DEFINE s == EnvSettings(i)
             m == Merge(s, i.cli, C)
  <2>1. file = m.schema_file /\ url = m.schema_url
    BY MergedValues DEF SourceKeys
  <2>2. /\ m.schema_file = IF "schema_file" \in C THEN i.cli.schema_file
                           ELSE IF "schema_url" \in C THEN "none" ELSE s.schema_file
        /\ m.schema_url = IF "schema_file" \in C THEN "none"
                          ELSE IF "schema_url" \in C THEN i.cli.schema_url ELSE s.schema_url
    <3> HIDE DEF s, C
    <3> QED BY MergeValues
  <2> QED BY ONLY <2>1, <2>2
<1>2. /\ envFile = IF "schema_file" \in E THEN i.env.schema_file
                   ELSE IF "schema_url" \in E THEN "none" ELSE fileFile
      /\ envUrl = IF "schema_file" \in E THEN "none"
                  ELSE IF "schema_url" \in E THEN i.env.schema_url ELSE fileUrl
  BY EnvValues
<1>3. /\ fileFile = IF "schema_file" \in D THEN doc.schema_file ELSE "none"
      /\ fileUrl = IF "schema_url" \in D THEN doc.schema_url ELSE "none"
  BY FileValues DEF Keys, Defaults
<1>4. /\ "schema_file" \in C => i.cli.schema_file # "none"
      /\ "schema_url" \in C => i.cli.schema_url # "none"
      /\ "schema_file" \in E => i.env.schema_file # "none"
      /\ "schema_url" \in E => i.env.schema_url # "none"
      /\ "schema_file" \in D => doc.schema_file # "none"
      /\ "schema_url" \in D => doc.schema_url # "none"
  BY LayersWritten DEF Written, Has, CliKeys, EnvKeys
<1>5. Source(Merged(i)) = IF file # "none" THEN <<"file", file>>
                          ELSE IF url # "none" THEN <<"url", url>> ELSE <<"url", "default">>
  BY DEF Source
<1>6. ExpectedSource(i) =
          IF "schema_file" \in DOMAIN layer THEN <<"file", layer.schema_file>>
          ELSE IF "schema_url" \in DOMAIN layer THEN <<"url", layer.schema_url>>
          ELSE <<"url", "default">>
  BY DEF ExpectedSource, Has, SourceKeys
<1>7. \A S : S \cap SourceKeys # {} <=> "schema_file" \in S \/ "schema_url" \in S
  BY DEF SourceKeys
<1> HIDE DEF file, url, envFile, envUrl, fileUrl, fileFile
<1>8. CASE C \cap SourceKeys # {}
  <2>1. layer = [k \in C |-> i.cli[k]]
    BY <1>8, HighestLayer
  <2> HIDE DEF layer, C
  <2>2. DOMAIN layer = C /\ \A k \in C : layer[k] = i.cli[k]
    BY <2>1
  <2> QED BY <1>1, <1>4, <1>5, <1>6, <1>7, <1>8, <2>2
<1>9. CASE C \cap SourceKeys = {} /\ E \cap SourceKeys # {}
  <2>1. layer = [k \in E |-> Tolerated(i.env, k)]
    BY <1>9, HighestLayer
  <2>2. file = envFile /\ url = envUrl
    BY <1>1, <1>7, <1>9
  <2> HIDE DEF layer, C, E
  <2>3. /\ DOMAIN layer = E
        /\ \A k \in E \cap SourceKeys : layer[k] = i.env[k]
    BY <2>1 DEF Tolerated, SourceKeys
  <2> QED BY <1>2, <1>4, <1>5, <1>6, <1>7, <1>9, <2>2, <2>3 DEF SourceKeys
<1>10. CASE (C \cup E) \cap SourceKeys = {} /\ D \cap SourceKeys # {}
  <2>1. layer = doc
    BY <1>10, HighestLayer
  <2>2. file = fileFile /\ url = fileUrl
    BY <1>1, <1>2, <1>7, <1>10
  <2> HIDE DEF layer, C, E, doc
  <2> QED BY <1>3, <1>4, <1>5, <1>6, <1>7, <1>10, <2>1, <2>2
<1>11. CASE (C \cup E) \cap SourceKeys = {} /\ D \cap SourceKeys = {}
  <2>1. layer = << >>
    BY <1>11, HighestLayer
  <2>2. file = "none" /\ url = "none"
    BY <1>1, <1>2, <1>3, <1>7, <1>11
  <2>3. DOMAIN layer = {}
    BY <2>1
  <2> HIDE DEF layer
  <2> QED BY <1>5, <1>6, <2>2, <2>3
<1> QED BY <1>8, <1>9, <1>10, <1>11

\* The settings of an input hold a sequence of tokens.
LEMMA MergedAgent ==
    ASSUME NEW i, GoodInput(i), Loads(i)
    PROVE  Merged(i).user_agent \in Seq(AgentTokens)
<1> DEFINE env == EnvSettings(i).user_agent
           doc == Document(i)
<1>0. "user_agent" \in Keys \ SourceKeys /\ Defaults["user_agent"] = DefaultAgent
  BY DEF Keys, SourceKeys, Defaults
<1>1. env = IF "user_agent" \in EnvKeys(i.env) THEN i.env.user_agent
            ELSE IF "user_agent" \in DOMAIN doc THEN doc.user_agent ELSE DefaultAgent
  BY <1>0, EnvValues, FileValues DEF Tolerated
<1>2. /\ "user_agent" \in CliKeys(i.cli) => i.cli.user_agent \in Seq(AgentTokens)
      /\ "user_agent" \in EnvKeys(i.env) => i.env.user_agent \in Seq(AgentTokens)
      /\ "user_agent" \in DOMAIN doc => doc.user_agent \in Seq(AgentTokens)
  BY LayersWritten DEF Written, Has, CliKeys, EnvKeys
<1>3. env \in Seq(AgentTokens)
  BY <1>1, <1>2, DefaultAgentStays
<1> HIDE DEF env
<1> DEFINE ua == IF "user_agent" \in CliKeys(i.cli) THEN i.cli.user_agent ELSE env
<1>4. ua \in Seq(AgentTokens)
  BY <1>2, <1>3
<1>5. Merged(i).user_agent = TrimAgent(ua)
  BY MergedValues DEF env
<1> HIDE DEF ua
<1> QED BY <1>4, <1>5, TrimAgentType

\* Config::load and build_client turn away exactly the inputs that are not legal.
LEMMA LegalInputs ==
    ASSUME NEW i, GoodInput(i)
    PROVE  Legal(i) <=> Loads(i) /\ Valid(Merged(i)) /\ Merged(i).accept_language # "bad"
<1>1. CASE ~Loads(i)
  BY <1>1 DEF Legal
<1>2. CASE Loads(i)
  <2>1. /\ Merged(i).user_agent = Expected(i, "user_agent")
        /\ Merged(i).scopes = Expected(i, "scopes")
        /\ Merged(i).rate_limit = Expected(i, "rate_limit")
        /\ Merged(i).accept_language = Expected(i, "accept_language")
    BY ExpectedValues DEF Keys, SourceKeys
  <2>2. ValidUserAgent(Merged(i).user_agent) <=> Format(Expected(i, "user_agent"))
    BY <1>2, <2>1, MergedAgent, AgentFormat
  <2> QED BY <1>2, <2>1, <2>2 DEF Legal, Valid
<1> QED BY <1>1, <1>2

\* A process whose settings are those of its input, which got past the gate.
Settled ==
    /\ input \in Inputs \cup Restarts
    /\ Loads(input) /\ Valid(Merged(input))
    /\ cfg = Merged(input)

Past == stage \notin {"off", "load", "refused"}

\* What is served and sent comes from settings that stay as they were merged.
GateInv ==
    /\ stage = "load" => input \in Inputs \cup Restarts /\ sent = {}
    /\ stage = "refused" => ~Legal(input)
    /\ Past => Settled
    /\ Past /\ stage # "clients" => cfg.accept_language # "bad"
    /\ sent # {} => Settled /\ cfg.accept_language # "bad"
    /\ \A r \in sent : r.user_agent = cfg.user_agent
    /\ listening # "none" => listening = ServerPort(input)

\* Sending with the client that carries the settings.
LEMMA SendGated ==
    ASSUME GateInv, Past, stage # "clients", NEW host, NEW carries, Send(host, carries),
           UNCHANGED <<input, cfg>>
    PROVE  /\ sent' # {} => Settled' /\ cfg'.accept_language # "bad"
           /\ \A r \in sent' : r.user_agent = cfg'.user_agent
BY DEF GateInv, Send, Request, Settled

\* A step past the clients that leaves the settings, and sends, if at all, with
\* them.
LEMMA PastKeeps ==
    ASSUME GateInv, Past, stage # "clients", UNCHANGED <<input, cfg, listening>>,
           stage' \notin {"load", "refused"},
           UNCHANGED sent \/ \E host, carries : Send(host, carries)
    PROVE  GateInv'
<1>1. /\ sent' # {} => Settled' /\ cfg'.accept_language # "bad"
      /\ \A r \in sent' : r.user_agent = cfg'.user_agent
  BY SendGated DEF GateInv, Settled
<1>2. Settled' /\ cfg'.accept_language # "bad"
  BY DEF GateInv, Settled
<1>3. listening' # "none" => listening' = ServerPort(input)'
  BY DEF GateInv, ServerPort
<1> QED BY <1>1, <1>2, <1>3 DEF GateInv

LEMMA GateBegins == StartupInit => GateInv
BY DEF StartupInit, GateInv, Past

\* Boot and Load: a new input, and the gate.
LEMMA BootGates ==
    ASSUME NEW i \in Inputs \cup Restarts, Boot(i)
    PROVE  GateInv'
BY DEF Boot, Move, GateInv, Past

LEMMA LoadGates == GateInv /\ Load => GateInv'
<1> SUFFICES ASSUME GateInv, Load PROVE GateInv'
  OBVIOUS
<1>1. /\ input \in Inputs \cup Restarts /\ sent = {} /\ GoodInput(input)
      /\ UNCHANGED <<input, sent, listening>>
  BY GoodInputs DEF GateInv, Load
<1>2. listening' # "none" => listening' = ServerPort(input)'
  BY <1>1 DEF GateInv, ServerPort
<1>3. CASE Loads(input) /\ Valid(Merged(input))
  <2>1. stage' = "clients" /\ cfg' = Merged(input)
    BY <1>3 DEF Load, Move
  <2>2. Settled'
    BY <1>1, <1>3, <2>1 DEF Settled
  <2> QED BY <1>1, <1>2, <2>1, <2>2 DEF GateInv, Past
<1>4. CASE ~(Loads(input) /\ Valid(Merged(input)))
  <2>1. stage' = "refused"
    BY <1>4 DEF Load, Move
  <2>2. ~Legal(input)
    BY <1>1, <1>4, LegalInputs
  <2>3. ~Legal(input)'
    BY <1>1, <2>2
  <2> QED BY <1>1, <1>2, <2>1, <2>3 DEF GateInv, Past
<1> QED BY <1>3, <1>4

\* The clients refuse an Accept-Language that is no header value.
LEMMA ClientsGate == GateInv /\ BuildClients => GateInv'
<1> SUFFICES ASSUME GateInv, BuildClients PROVE GateInv'
  OBVIOUS
<1>1. /\ Settled /\ GoodInput(input)
      /\ UNCHANGED <<input, cfg, sent, listening>> /\ stage = "clients"
  BY GoodInputs DEF GateInv, Past, Settled, BuildClients
<1>2. /\ Settled' /\ (listening' # "none" => listening' = ServerPort(input)')
      /\ sent' # {} => cfg'.accept_language # "bad"
      /\ \A r \in sent' : r.user_agent = cfg'.user_agent
  BY <1>1 DEF GateInv, Settled, ServerPort
<1>3. CASE cfg.accept_language = "bad"
  <2>1. stage' = "refused"
    BY <1>3 DEF BuildClients, Move
  <2>2. ~Legal(input)
    BY <1>1, <1>3, LegalInputs DEF Settled
  <2>3. ~Legal(input)'
    BY <1>1, <2>2
  <2> QED BY <1>2, <2>1, <2>3 DEF GateInv, Past
<1>4. CASE cfg.accept_language # "bad"
  <2>1. stage' \in {"schema", "login", "exit"}
    BY <1>4 DEF BuildClients, Move
  <2> QED BY <1>1, <1>2, <1>4, <2>1 DEF GateInv, Past
<1> QED BY <1>3, <1>4

\* GateInv holds in every reachable state.
THEOREM GateInductive == StartupSpec => []GateInv
<1>1. GateInv /\ [StartupNext]_startVars => GateInv'
  <2> SUFFICES ASSUME GateInv, [StartupNext]_startVars PROVE GateInv'
    OBVIOUS
  <2>1. CASE UNCHANGED startVars
    BY <2>1 DEF startVars, GateInv, Past, Settled
  <2>2. CASE LoadSchema \/ LoginResumes \/ LoginRequests \/ LoginFails \/ LoginPolls
    BY <2>2, PastKeeps
    DEF LoadSchema, LoginResumes, LoginRequests, LoginFails, LoginPolls, Past, Move
  <2>3. CASE NoPolicy \/ Restore \/ RestoreFails \/ ResumeGrant \/ NoAuthorization
    BY <2>3, PastKeeps
    DEF NoPolicy, Restore, RestoreFails, ResumeGrant, NoAuthorization, AfterPolicy, Past, Move
  <2>4. CASE StartupCheck \/ Serving
    BY <2>4, PastKeeps DEF StartupCheck, Serving, ToolCall, FirstToken, ResumeEnds, Past, Move
  <2>5. CASE Bind
    <3>1. Past /\ stage # "clients" /\ stage' \in {"serving", "exit"}
          /\ UNCHANGED <<input, cfg, sent>>
          /\ (listening' = listening \/ listening' = ServerPort(input))
      BY <2>5 DEF Bind, Past, Move
    <3>2. listening' # "none" => listening' = ServerPort(input)'
      BY <3>1 DEF GateInv, ServerPort
    <3> QED BY <3>1, <3>2 DEF GateInv, Past, Settled
  <2>6. CASE Exit
    <3>1. stage' = "off" /\ listening' = "none" /\ UNCHANGED <<input, cfg, sent>>
      BY <2>6 DEF Exit, Move
    <3> QED BY <3>1 DEF GateInv, Past, Settled
  <2> QED
    BY <2>1, <2>2, <2>3, <2>4, <2>5, <2>6, BootGates, LoadGates, ClientsGate DEF StartupNext
<1> QED BY GateBegins, <1>1, PTL DEF StartupSpec

\* For any inputs, every setting is the one of the highest layer that has it, the
\* schema comes from the highest layer that names a source, and the health check
\* asks the server's port.
THEOREM HighestLayerWinsHolds == StartupSpec => []HighestLayerWins
<1>1. ASSUME GateInv PROVE HighestLayerWins
  <2>1. Past => /\ \A k \in Keys \ {"schema_url", "schema_file"} : cfg[k] = Expected(input, k)
                /\ Source(cfg) = ExpectedSource(input)
    BY <1>1, GoodInputs, ExpectedValues, ExpectedSources DEF GateInv, Settled, SourceKeys
  <2>2. listening # "none" /\ ~Has(input.cli, "port") => ProbePort(input) = listening
    BY <1>1 DEF GateInv, ServerPort, ProbePort
  <2> QED BY <2>1, <2>2 DEF HighestLayerWins, Past
<1> QED BY GateInductive, <1>1, PTL

\* For any inputs, User-Agents of any length among them, nothing is sent under
\* settings that are not legal and no legal settings are turned away.
THEOREM GateIsExactHolds == StartupSpec => []GateIsExact
<1>1. ASSUME GateInv PROVE GateIsExact
  <2>1. stage = "refused" => ~Legal(input)
    BY <1>1 DEF GateInv
  <2>2. ASSUME sent # {}
        PROVE  Legal(input) /\ \A r \in sent : Format(r.user_agent)
    <3>1. /\ GoodInput(input) /\ Loads(input) /\ Valid(Merged(input)) /\ cfg = Merged(input)
          /\ cfg.accept_language # "bad"
      BY <1>1, <2>2, GoodInputs DEF GateInv, Settled
    <3>2. Legal(input)
      BY <3>1, LegalInputs
    <3>3. cfg.user_agent \in Seq(AgentTokens) /\ ValidUserAgent(cfg.user_agent)
      BY <3>1, MergedAgent DEF Valid
    <3>4. Format(cfg.user_agent)
      BY <3>3, AgentFormat
    <3> QED BY <1>1, <3>2, <3>4 DEF GateInv
  <2> QED BY <2>1, <2>2 DEF GateIsExact
<1> QED BY GateInductive, <1>1, PTL

=============================================================================
