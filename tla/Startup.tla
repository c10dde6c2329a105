------------------------------ MODULE Startup ------------------------------
(***************************************************************************)
(* One process of allegro-mcp from its command line to its requests: the   *)
(* configuration pipeline (src/config.rs), the HTTP clients (src/http.rs), *)
(* main, the login command and the startup policy (src/main.rs), and the   *)
(* HTTP transport with its health check (src/http_server.rs).              *)
(*                                                                         *)
(* The process may be killed at any step and started again with another    *)
(* command line, environment and files; the token files are what stays.    *)
(* The downloads, the token endpoint and the user answer as they like, so  *)
(* retries (Dispatcher, SchemaCache), token rotation (AllegroAuth) and the *)
(* poll loop (DeviceLogin) are one step here.                              *)
(*                                                                         *)
(* An input has the command, the flags, the variables and the config files *)
(* that exist, the last three as partial functions from a key to a value.  *)
(* A value is any good value of the key, or "blank", "bad" (it does not    *)
(* parse, or no header or scope may hold it) or "high" (a rate limit of    *)
(* 9000 and more), or one of these with white space around it, " yes ".    *)
(* A User-Agent is a sequence of tokens: see below.                        *)
(***************************************************************************)
EXTENDS Naturals, Sequences

CONSTANTS
    Inputs,       \* what the first process may be started with
    Restarts,     \* what the later ones may be started with
    MaxStarts,    \* bound: processes started one after the other
    Paths         \* token files, one of them "default"

ASSUME StartupAssumption == MaxStarts \in Nat /\ "default" \in Paths

VARIABLES
    input,      \* what the process was started with
    stage,      \* how far it has come
    cfg,        \* the settings merged so far: struct Config
    token,      \* the environment of the cached access token, or "none"
    polling,    \* the environment of the grant it polls for, "over" when that
                \* has ended, or "none"
    listening,  \* the port it serves HTTP on, or "none"
    sent,       \* the requests it has sent
    files,      \* the token files
    starts      \* processes started so far

startVars == <<input, stage, cfg, token, polling, listening, sent, files, starts>>

Environments == {"production", "sandbox"}

\* The commands (the health check is not one of them: see ProbePort) and the
\* flags each of them takes.
Commands == {"serve", "stdio", "device", "stats", "list"}
Flags(command) ==
    {"sandbox", "schema_url", "schema_file", "config", "user_agent", "port"}
    \cup IF command = "device" THEN {"token_path"} ELSE {}

(***************************************************************************)
(* The configuration pipeline.                                             *)
(***************************************************************************)
Keys == {"sandbox", "user_agent", "accept_language", "schema_url", "schema_file",
         "auth_flow", "scopes", "token_path", "rate_limit"}

DefaultAgent == <<"n", "/", "v", "space", "(+", "h", "n", ")">>

Defaults ==
    [k \in Keys |-> CASE k = "sandbox" -> "no"
                      [] k = "user_agent" -> DefaultAgent
                      [] k = "auth_flow" -> "client_credentials"
                      [] k \in {"schema_url", "schema_file"} -> "none"
                      [] OTHER -> "default"]

Has(layer, k) == k \in DOMAIN layer

\* The least of some numbers.
Least(S) == CHOOSE k \in S : \A l \in S : k <= l

\* discover_path: an explicit path counts whether or not the file exists.
Slots == <<"flag", "variable", "cwd", "user">>

Named(i, slot) ==
    \/ slot = "flag" /\ Has(i.cli, "config")
    \/ slot = "variable" /\ Has(i.env, "config") /\ i.env.config # "blank"
    \/ slot \in {"cwd", "user"} /\ Has(i.docs, slot)

Discovered(i) ==
    LET named == {n \in 1 .. 4 : Named(i, Slots[n])}
    IN  IF named = {} THEN "none" ELSE Slots[Least(named)]

\* trim(), of the values that come with white space around them.
Trim(v) ==
    CASE v = " yes " -> "yes"
      [] v = " device_code " -> "device_code"
      [] v = " 10 " -> "10"
      [] v = " high " -> "high"
      [] v = " p " -> "p"
      [] v = " plain " -> "plain"
      [] OTHER -> v

\* What serde refuses: a key it does not know, a value of another type.  It
\* trims nothing.
Parses(doc) ==
    /\ DOMAIN doc \subseteq Keys
    /\ \A k \in {"sandbox", "auth_flow", "rate_limit"} :
           Has(doc, k) => doc[k] \notin {"blank", "bad"} /\ Trim(doc[k]) = doc[k]

\* What apply_env refuses, and what it takes for unset.
EnvParses(env) ==
    /\ \A k \in {"sandbox", "rate_limit"} : Has(env, k) => env[k] \notin {"blank", "bad"}
    /\ Has(env, "auth_flow") => env.auth_flow # "bad"

Ignored(env, k) == k \in {"token_path", "auth_flow"} /\ env[k] = "blank"

EnvKeys(env) == {k \in DOMAIN env \cap (Keys \ {"scopes"}) : ~Ignored(env, k)}
CliKeys(cli) == DOMAIN cli \cap {"sandbox", "user_agent", "schema_url", "schema_file"}

\* apply_env trims these before it parses or keeps them; a source of the
\* schema is taken as it is, and a User-Agent is trimmed after the merge.
TrimmedKeys == {"sandbox", "accept_language", "token_path", "auth_flow", "rate_limit"}

\* Mutant of Trimmed: all but the flag of the environment.
TrimmedButSandbox(env) ==
    [k \in DOMAIN env |-> IF k \in TrimmedKeys \ {"sandbox"} THEN Trim(env[k]) ELSE env[k]]

Trimmed(env) == [k \in DOMAIN env |-> IF k \in TrimmedKeys THEN Trim(env[k]) ELSE env[k]]

Overlay(s, layer, keys) == [k \in Keys |-> IF k \in keys THEN layer[k] ELSE s[k]]

\* A source of the schema shadows the other source of every lower layer, and
\* the file comes last so that it wins within a layer.
TakeUrl(s, layer, keys) ==
    IF "schema_url" \in keys
    THEN [s EXCEPT !.schema_url = layer.schema_url, !.schema_file = "none"] ELSE s
TakeFile(s, layer, keys) ==
    IF "schema_file" \in keys
    THEN [s EXCEPT !.schema_file = layer.schema_file, !.schema_url = "none"] ELSE s

\* Mutant of Merge: the url comes last.
MergeFileFirst(s, layer, keys) ==
    TakeUrl(TakeFile(Overlay(s, layer, keys \ {"schema_url", "schema_file"}), layer, keys),
            layer, keys)

Merge(s, layer, keys) ==
    TakeFile(TakeUrl(Overlay(s, layer, keys \ {"schema_url", "schema_file"}), layer, keys),
             layer, keys)

(***************************************************************************)
(* validate_user_agent.  The tokens: "n" visible characters other than     *)
(* / ( ) +, "N" more than 64 of them, "v" a semantic version, "/", "(+",   *)
(* ")", "space", "h" the scheme http:// or https:// (it has slashes too),  *)
(* "!" a control character or one outside ASCII.                           *)
(***************************************************************************)
AgentTokens == {"n", "N", "v", "/", "(+", ")", "space", "h", "!"}

TrimAgent(ua) ==
    LET inner == {k \in 1 .. Len(ua) : ua[k] # "space"}
        first == Least(inner)
        last  == CHOOSE k \in inner : \A l \in inner : k >= l
    IN  IF inner = {} THEN << >> ELSE SubSeq(ua, first, last)

\* Name, version and URL, split at the first " (+" and the first slash.
WellFormed(ua) ==
    LET n == Len(ua)
        marks == {k \in 1 .. n - 1 : ua[k] = "space" /\ ua[k + 1] = "(+"}
        slashes == {k \in 1 .. n : ua[k] \in {"/", "h"}}
        marker == Least(marks)
        slash == Least(slashes)
    IN  /\ marks # {} /\ ua[n] = ")" /\ slashes # {}
        /\ slash < marker /\ slash > 1
        /\ \A k \in 1 .. slash - 1 : ua[k] \in {"n", "v"}
        /\ ua[slash] = "/" /\ SubSeq(ua, slash + 1, marker - 1) = <<"v">>
        /\ marker + 2 < n - 1 /\ ua[marker + 2] = "h"

\* Mutant of ValidUserAgent: the structure only.
LooseUserAgent(ua) == WellFormed(ua)

\* The structure, and one space only.
ValidUserAgent(ua) ==
    /\ WellFormed(ua)
    /\ \A k, l \in 1 .. Len(ua) : ua[k] # "!" /\ (ua[k] = "space" /\ ua[l] = "space" => k = l)

\* Config::validate.
Valid(s) ==
    /\ ValidUserAgent(s.user_agent)
    /\ s.scopes \notin {"blank", "bad"}
    /\ s.rate_limit # "high"

\* Config::load, up to the merge: what the file, the environment and the
\* flags make of the defaults.
FileSettings(i) ==
    IF Discovered(i) = "none" THEN Defaults
    ELSE Overlay(Defaults, i.docs[Discovered(i)], DOMAIN i.docs[Discovered(i)])

EnvSettings(i) == Merge(FileSettings(i), Trimmed(i.env), EnvKeys(i.env))

Merged(i) ==
    LET s == Merge(EnvSettings(i), i.cli, CliKeys(i.cli))
    IN  [s EXCEPT !.user_agent = TrimAgent(s.user_agent)]

Loads(i) ==
    /\ Discovered(i) # "none" => Has(i.docs, Discovered(i)) /\ Parses(i.docs[Discovered(i)])
    /\ EnvParses(i.env)

(***************************************************************************)
(* What a running process derives from its settings.                       *)
(***************************************************************************)
\* The one flag that swaps both hosts, and labels the token file.
EnvOf(s) == IF s.sandbox = "yes" THEN "sandbox" ELSE "production"

Source(s) ==
    CASE s.schema_file # "none" -> <<"file", s.schema_file>>
      [] s.schema_file = "none" /\ s.schema_url # "none" -> <<"url", s.schema_url>>
      [] OTHER -> <<"url", "default">>

\* $PORT, unless it is not a number.
EnvPort(env) == IF Has(env, "port") /\ env.port \notin {"blank", "bad"} THEN env.port ELSE "8080"

ServerPort(i) == IF Has(i.cli, "port") THEN i.cli.port ELSE EnvPort(i.env)
ProbePort(i) == EnvPort(i.env)

TokenPath(i, s) ==
    IF i.command = "device" /\ Has(i.cli, "token_path") THEN i.cli.token_path ELSE s.token_path

\* A User-Agent is a sequence of tokens, and a source of the schema has a name.
Written(layer) ==
    /\ Has(layer, "user_agent") => layer.user_agent \in Seq(AgentTokens)
    /\ \A k \in {"schema_url", "schema_file"} : Has(layer, k) => layer[k] # "none"

\* The inputs are command lines clap accepts, and the commands that open a
\* token file are given one of Paths.
ASSUME InputAssumption ==
    \A i \in Inputs \cup Restarts :
        /\ i.command \in Commands /\ DOMAIN i.cli \subseteq Flags(i.command)
        /\ Written(i.cli) /\ Written(i.env) /\ \A slot \in DOMAIN i.docs : Written(i.docs[slot])
        /\ Loads(i) /\ i.command \notin {"stats", "list"} => TokenPath(i, Merged(i)) \in Paths

\* The token file: its label, and the environments of what it holds.
Absent == [label |-> "absent", tokens |-> "none", pending |-> "none"]

\* Mutant of Loadable: the label is not compared.
LoadableAny(f, s) == f.label # "corrupt"

\* TokenStore::load: an absent file is empty, a foreign or corrupt one an error.
Loadable(f, s) == f.label \in {"absent", EnvOf(s)}

File == files[TokenPath(input, cfg)]

Write(f) == files' = [files EXCEPT ![TokenPath(input, cfg)] = f]

SavedTokens == [label |-> EnvOf(cfg), tokens |-> EnvOf(cfg), pending |-> "none"]

\* A request, by a client that carries the configured headers.
Request(host, carries) ==
    [host |-> host, env |-> EnvOf(cfg), carries |-> carries,
     user_agent |-> cfg.user_agent, accept_language |-> cfg.accept_language]

Send(host, carries) == sent' = sent \cup {Request(host, carries)}

Move(label) == stage' = label

(***************************************************************************)
(* main: from the command line to the command.                             *)
(***************************************************************************)
StartupInit ==
    /\ input = [command |-> "stats", cli |-> << >>, env |-> << >>, docs |-> << >>]
    /\ stage = "off"
    /\ cfg = Defaults
    /\ token = "none" /\ polling = "none" /\ listening = "none"
    /\ sent = {}
    /\ starts = 0
    /\ \/ files = [p \in Paths |-> Absent]
       \/ files = [p \in Paths |-> [Absent EXCEPT !.label = "corrupt"]]

Boot(i) ==
    /\ stage = "off" /\ starts < MaxStarts
    /\ input' = i
    /\ Move("load")
    /\ cfg' = Defaults
    /\ token' = "none" /\ polling' = "none" /\ listening' = "none"
    /\ sent' = {}
    /\ starts' = starts + 1
    /\ UNCHANGED files

\* Config::load: nothing has been sent yet when it refuses.
Load ==
    /\ stage = "load"
    /\ IF Loads(input) /\ Valid(Merged(input)) THEN Move("clients") /\ cfg' = Merged(input)
       ELSE Move("refused") /\ UNCHANGED cfg
    /\ UNCHANGED <<input, token, polling, listening, sent, files, starts>>

\* build_client refuses an Accept-Language that is no header value.
\* Only then does the command look for its credentials.
BuildClients ==
    /\ stage = "clients"
    /\ Move(CASE cfg.accept_language = "bad" -> "refused"
              [] cfg.accept_language # "bad" /\ input.command \in {"stats", "list"} -> "schema"
              [] cfg.accept_language # "bad" /\ input.command = "device" ->
                     IF Has(input.env, "credentials") THEN "login" ELSE "exit"
              [] OTHER -> IF Has(input.env, "credentials") THEN "schema" ELSE "exit")
    /\ UNCHANGED <<input, cfg, token, polling, listening, sent, files, starts>>

\* A blank path or URL is a source like any other, and fails.
LoadSchema ==
    /\ stage = "schema"
    /\ IF Source(cfg)[1] = "url" THEN Send("schema", "none") ELSE UNCHANGED sent
    /\ \/ Move("exit")
       \/ /\ Source(cfg)[2] # "blank"
          /\ Move(IF input.command \in {"stats", "list"} THEN "done" ELSE "policy")
    /\ UNCHANGED <<input, cfg, token, polling, listening, files, starts>>

(***************************************************************************)
(* run_auth_device.                                                        *)
(***************************************************************************)
LoginResumes ==
    /\ stage = "login"
    /\ Loadable(File, cfg) /\ File.pending # "none"
    /\ polling' = File.pending
    /\ Move("poll")
    /\ UNCHANGED <<input, cfg, token, listening, sent, files, starts>>

\* No pending grant, or its time is over: a new code, kept beside the tokens.
LoginRequests ==
    /\ stage = "login"
    /\ Loadable(File, cfg)
    /\ Send("auth", "none")
    /\ Write([label |-> EnvOf(cfg), tokens |-> File.tokens, pending |-> EnvOf(cfg)])
    /\ polling' = EnvOf(cfg)
    /\ Move("poll")
    /\ UNCHANGED <<input, cfg, token, listening, starts>>

\* The file cannot be loaded, no code is issued, or the file cannot be written.
LoginFails ==
    /\ stage = "login"
    /\ IF Loadable(File, cfg) THEN Send("auth", "none") ELSE UNCHANGED sent
    /\ Move("exit")
    /\ UNCHANGED <<input, cfg, token, polling, listening, files, starts>>

LoginPolls ==
    /\ stage = "poll"
    /\ Send("auth", polling)
    /\ \/ Move("done") /\ Write(SavedTokens)
       \/ Move("exit") /\ UNCHANGED files
    /\ UNCHANGED <<input, cfg, token, polling, listening, starts>>

(***************************************************************************)
(* build_allegro_server: the startup policy of the device flow.            *)
(***************************************************************************)
AfterPolicy == IF input.command = "serve" THEN "check" ELSE "serving"

DeviceFlow == cfg.auth_flow = "device_code"

NoPolicy ==
    /\ stage = "policy" /\ ~DeviceFlow
    /\ Move(AfterPolicy)
    /\ UNCHANGED <<input, cfg, token, polling, listening, sent, files, starts>>

\* The stored access token is alive, or a refresh grant gives the next pair.
Restore ==
    /\ stage = "policy" /\ DeviceFlow
    /\ Loadable(File, cfg) /\ File.tokens # "none"
    /\ \/ token' = File.tokens /\ UNCHANGED <<sent, files>>
       \/ token' = EnvOf(cfg) /\ Send("auth", File.tokens) /\ Write(SavedTokens)
    /\ Move(AfterPolicy)
    /\ UNCHANGED <<input, cfg, polling, listening, starts>>

\* The refresh token is refused, which wipes the file, or there is no answer.
RestoreFails ==
    /\ stage = "policy" /\ DeviceFlow
    /\ Loadable(File, cfg) /\ File.tokens # "none"
    /\ Send("auth", File.tokens)
    /\ Write(Absent) \/ UNCHANGED files
    /\ Move("exit")
    /\ UNCHANGED <<input, cfg, token, polling, listening, starts>>

\* No tokens that could be used, but a grant the user may still approve.
ResumeGrant ==
    /\ stage = "policy" /\ DeviceFlow
    /\ Loadable(File, cfg) /\ File.pending # "none"
    /\ polling' = File.pending
    /\ Move(AfterPolicy)
    /\ UNCHANGED <<input, cfg, token, listening, sent, files, starts>>

\* Mutant of NoAuthorization: it starts without any.
NoAuthorizationStarts ==
    /\ stage = "policy" /\ DeviceFlow
    /\ Move(AfterPolicy)
    /\ UNCHANGED <<input, cfg, token, polling, listening, sent, files, starts>>

\* Nothing that could be used, or a file that cannot be loaded.
NoAuthorization ==
    /\ stage = "policy" /\ DeviceFlow
    /\ Move("exit")
    /\ UNCHANGED <<input, cfg, token, polling, listening, sent, files, starts>>

(***************************************************************************)
(* run_http_server, and what a server does afterwards.                     *)
(***************************************************************************)
\* The eager check: the device flow's is a look at the cache, never a grant.
StartupCheck ==
    /\ stage = "check"
    /\ IF DeviceFlow THEN Move("bind") /\ UNCHANGED <<token, sent>>
       ELSE /\ Send("auth", "none")
            /\ \/ Move("bind") /\ token' = EnvOf(cfg)
               \/ Move("exit") /\ UNCHANGED token
    /\ UNCHANGED <<input, cfg, polling, listening, files, starts>>

Bind ==
    /\ stage = "bind"
    /\ \/ Move("serving") /\ listening' = ServerPort(input)
       \/ Move("exit") /\ UNCHANGED listening
    /\ UNCHANGED <<input, cfg, token, polling, sent, files, starts>>

\* bearer_auth and the list of allowed hosts, in front of /mcp; "blank" is
\* the token no request can show, and a list that is empty allows every host.
Admitted(env, bearer, host) ==
    /\ Has(env, "server_token") => bearer = env.server_token
    /\ IF Has(env, "allowed_hosts")
       THEN env.allowed_hosts \in {"*", "blank", host} ELSE host = "localhost"

ToolCall(bearer, host) ==
    /\ stage = "serving"
    /\ input.command = "serve" => Admitted(input.env, bearer, host)
    /\ token # "none" /\ Send("api", token)
    /\ UNCHANGED <<input, stage, cfg, token, polling, listening, files, starts>>

\* Over stdio the first call gets the application token, or an error.
FirstToken ==
    /\ stage = "serving" /\ ~DeviceFlow /\ token = "none"
    /\ Send("auth", "none")
    /\ token' \in {"none", EnvOf(cfg)}
    /\ UNCHANGED <<input, stage, cfg, polling, listening, files, starts>>

\* The resumed grant, polled for by a task that runs beside all this: approved,
\* and the tokens installed, or over, its deadline perhaps before any request.
ResumeEnds ==
    /\ stage \in {"check", "bind", "serving"} /\ polling \in Environments
    /\ polling' = "over"
    /\ \/ Send("auth", polling) /\ Write(SavedTokens) /\ token' = EnvOf(cfg)
       \/ (Send("auth", polling) \/ UNCHANGED sent) /\ UNCHANGED <<files, token>>
    /\ UNCHANGED <<input, stage, cfg, listening, starts>>

\* The process is killed, or has ended.
Exit ==
    /\ stage # "off"
    /\ Move("off")
    /\ listening' = "none"
    /\ UNCHANGED <<input, cfg, token, polling, sent, files, starts>>

Serving ==
    \/ \E bearer \in {"none", "right", "wrong"}, host \in {"localhost", "proxy"} :
           ToolCall(bearer, host)
    \/ FirstToken \/ ResumeEnds

StartupNext ==
    \/ \E i \in IF starts = 0 THEN Inputs ELSE Restarts : Boot(i)
    \/ Load \/ BuildClients \/ LoadSchema
    \/ LoginResumes \/ LoginRequests \/ LoginFails \/ LoginPolls
    \/ NoPolicy \/ Restore \/ RestoreFails \/ ResumeGrant \/ NoAuthorization
    \/ StartupCheck \/ Bind \/ Serving \/ Exit

StartupSpec == StartupInit /\ [][StartupNext]_startVars

(***************************************************************************)
(* Properties.                                                             *)
(***************************************************************************)
\* A setting in a variable, white space around it tolerated.
Tolerated(env, k) ==
    IF k \in {"user_agent", "schema_url", "schema_file"} THEN env[k] ELSE Trim(env[k])

\* The documented layers, highest first, each with the keys it really sets.
Layers(i) ==
    << [k \in CliKeys(i.cli) |-> i.cli[k]],
       [k \in EnvKeys(i.env) |-> Tolerated(i.env, k)],
       IF Discovered(i) = "none" THEN << >> ELSE i.docs[Discovered(i)] >>

\* The highest of them that has one of the keys.
Highest(i, keys) ==
    LET having == {n \in 1 .. 3 : DOMAIN Layers(i)[n] \cap keys # {}}
    IN  IF having = {} THEN << >> ELSE Layers(i)[Least(having)]

Expected(i, k) ==
    LET layer == Highest(i, {k})
    IN  CASE ~Has(layer, k) -> Defaults[k]
          [] k = "user_agent" /\ Has(layer, k) -> TrimAgent(layer[k])
          [] OTHER -> layer[k]

ExpectedSource(i) ==
    LET layer == Highest(i, {"schema_url", "schema_file"})
    IN  CASE Has(layer, "schema_file") -> <<"file", layer.schema_file>>
          [] Has(layer, "schema_url") /\ ~Has(layer, "schema_file") -> <<"url", layer.schema_url>>
          [] OTHER -> <<"url", "default">>

\* AppName/Version (+URL), as Allegro asks for.
Format(ua) ==
    LET n == Len(ua)
    IN  \E k \in 1 .. n : /\ k + 6 < n /\ ua[n] = ")"
                          /\ \A l \in 1 .. k : ua[l] \in {"n", "v"}
                          /\ SubSeq(ua, k + 1, k + 5) = <<"/", "v", "space", "(+", "h">>
                          /\ \A l \in k + 6 .. n : ua[l] \notin {"space", "!"}

Legal(i) ==
    /\ Loads(i)
    /\ Format(Expected(i, "user_agent"))
    /\ Expected(i, "scopes") \notin {"blank", "bad"}
    /\ Expected(i, "rate_limit") # "high"
    /\ Expected(i, "accept_language") # "bad"

\* Config::load ("CLI > env > file > defaults"): every setting is the one of
\* the highest layer that has it, and the schema comes from the highest layer
\* that names a source, from its file if it names both.  The health check, that
\* sees no flag, asks the port the server listens on if no flag gave it.
HighestLayerWins ==
    /\ stage \notin {"off", "load", "refused"} =>
        /\ \A k \in Keys \ {"schema_url", "schema_file"} : cfg[k] = Expected(input, k)
        /\ Source(cfg) = ExpectedSource(input)
    /\ listening # "none" /\ ~Has(input.cli, "port") => ProbePort(input) = listening

\* The validation gate: nothing leaves a process whose effective settings are
\* not legal, and no process with legal settings is turned away.
GateIsExact ==
    /\ stage = "refused" => ~Legal(input)
    /\ sent # {} => Legal(input)
    /\ \A r \in sent : Format(r.user_agent)

\* api_base_url, auth_base_url, TokenStore::load: over all restarts, with
\* whatever flags, a token or a device code of one environment is never sent
\* to a host of the other.
TokensStayHome == \A r \in sent : r.carries \in {"none", r.env}

\* run_device_startup_policy, the eager check: a process begins to serve
\* HTTP with a token, or with a grant whose poll it started, which may have
\* ended meanwhile.
ServesAuthorized ==
    [][stage = "bind" /\ stage' = "serving" => token # "none" \/ polling # "none"]_startVars
=============================================================================
