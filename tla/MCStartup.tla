----------------------------- MODULE MCStartup -----------------------------
(***************************************************************************)
(* Startup on a small instance: the inputs are families, each of which     *)
(* varies the settings that meet in one decision of the code.              *)
(***************************************************************************)
EXTENDS Startup, FiniteSets, Functions, SequencesExt, TLC

Quiet == [command |-> "stats", cli |-> << >>, env |-> << >>, docs |-> << >>]

\* The partial functions on keys that give each one of its values.
Partial(keys, values) == UNION {[d -> values] : d \in SUBSET keys}

\* The source of the schema, in every combination of layers.
SchemaInputs ==
    {[Quiet EXCEPT !.cli = c, !.env = e, !.docs = "cwd" :> d] :
        c \in Partial({"schema_url", "schema_file"}, {"c"}),
        e \in Partial({"schema_url", "schema_file"}, {"e", "blank"}),
        d \in Partial({"schema_url", "schema_file"}, {"d"})}

\* Which config file is read, and what makes it unreadable.
DocValues == {"plain" :> "x", "sandbox" :> "yes", "sandbox" :> "bad", "auth_flow" :> "bad",
              "rate_limit" :> "high", "rate_limit" :> "bad", "scopes" :> "blank",
              "accept_language" :> " plain ", "accept_language" :> "bad",
              "auth_flow" :> " device_code "}
DocInputs ==
    {[Quiet EXCEPT !.cli = c, !.env = e, !.docs = d] :
        c \in Partial({"config"}, {"x"}),
        e \in Partial({"config"}, {"x", "blank"}),
        d \in {<< >>, "cwd" :> ("sandbox" :> "yes"),
               "user" :> ("rate_limit" :> "10") @@ "cwd" :> ("rate_limit" :> "20"),
               "flag" :> ("rate_limit" :> "10") @@ "cwd" :> ("rate_limit" :> "20"),
               "variable" :> ("scopes" :> "s") @@ "user" :> ("scopes" :> "bad")}}
    \cup {[Quiet EXCEPT !.docs = "user" :> d] : d \in DocValues}

\* One setting in the environment over one in the file.
EnvValues ==
    ({"sandbox", "accept_language", "auth_flow", "token_path", "rate_limit"}
        \X {"blank", "bad"})
    \cup {<<"sandbox", " yes ">>, <<"accept_language", " plain ">>,
          <<"auth_flow", " device_code ">>, <<"token_path", " p ">>,
          <<"rate_limit", " 10 ">>, <<"rate_limit", " high ">>}
EnvInputs ==
    {[Quiet EXCEPT !.env = v[1] :> v[2], !.docs = "cwd" :> d] :
        v \in EnvValues,
        d \in {<< >>, "auth_flow" :> "device_code", "token_path" :> "d",
               "accept_language" :> "plain", "rate_limit" :> "high"}}

\* Every User-Agent two edits of one token away from a good one.
Edits(ua) ==
    {RemoveAt(ua, k) : k \in 1 .. Len(ua)}
    \cup {ReplaceAt(ua, k, t) : k \in 1 .. Len(ua), t \in AgentTokens}
    \cup {InsertAt(ua, k, t) : k \in 1 .. Len(ua) + 1, t \in AgentTokens}
AgentInputs ==
    {[Quiet EXCEPT !.env = "user_agent" :> ua] :
        ua \in {<< >>} \cup UNION {Edits(e) : e \in Edits(DefaultAgent)}}
    \cup {[Quiet EXCEPT !.cli = "user_agent" :> DefaultAgent, !.env = "user_agent" :> <<"!">>]}

\* The commands, over environment, flow, token file and credentials.
TokenInputs ==
    {[command |-> c[1], cli |-> c[2], env |-> e @@ "credentials" :> "set", docs |-> << >>] :
        c \in {"serve", "stdio", "device"} \X {<< >>, "sandbox" :> "yes"}
              \cup {<<"device", "token_path" :> "p">>},
        e \in {<< >>} \cup {"auth_flow" :> "device_code", "sandbox" :> " yes ",
                            "token_path" :> " p " @@ "auth_flow" :> " device_code "}}

\* The server: credentials, port, bearer token, hosts.
ServerInputs ==
    {[command |-> c, cli |-> f, env |-> e, docs |-> << >>] :
        c \in {"serve", "device", "list"},
        f \in {<< >>, "port" :> "80"},
        e \in {<< >>} \cup
              {g @@ h @@ "credentials" :> "set" :
                  g \in Partial({"port"}, {"90", "blank", "bad"}),
                  h \in Partial({"server_token"}, {"right", "blank"})
                        \cup Partial({"allowed_hosts"}, {"*", "proxy"})}}

MCInputs == SchemaInputs \cup DocInputs \cup EnvInputs \cup AgentInputs
            \cup TokenInputs \cup ServerInputs
=============================================================================
