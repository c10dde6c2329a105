----------------------------- MODULE MCRegistry -----------------------------
(***************************************************************************)
(* RefResolver and ToolRegistry, one at a time: a behaviour either         *)
(* resolves the references of a schema or builds tools and calls them, and *)
(* leaves the other module's variables as they began.                      *)
(***************************************************************************)
EXTENDS RefResolver, ToolRegistry

CONSTANTS a, v1, v2, v3, plain

Declared(name, in, required, resolves) ==
    [name |-> name, in |-> in, required |-> required, resolves |-> resolves]

Shapes ==
    {{}, {Declared("x", "path", FALSE, TRUE)}, {Declared("x", "path", TRUE, FALSE)},
     {Declared("x", "path", TRUE, TRUE), Declared("body", "query", FALSE, TRUE)}}

Operation(base, method, params, body) ==
    [base |-> base, method |-> method, holes |-> {"x"}, params |-> params, body |-> body,
     content |-> << >>, responses |-> << >>, default |-> << >>]

Response(status, content) == [status |-> status, content |-> content]

\* Every way to declare versions: in the body, in an error before the success
\* or after it, in two successes out of order, in the default response.
Media(content, responses, default) ==
    [Operation(<<a>>, "post", {}, "required") EXCEPT
        !.content = content, !.responses = responses, !.default = default]

MediaOperations ==
    {Media(<<plain>>, responses, default) :
        responses \in {<< >>, <<Response(404, <<v2>>)>>,
                      <<Response(404, <<v2>>), Response(201, <<plain, v3>>)>>,
                      <<Response(0, <<v2>>), Response(204, <<v3>>), Response(200, <<v1, v2>>)>>},
        default \in {<< >>, <<v3>>}}
    \cup {Media(<<plain, v1>>, <<Response(200, <<v2>>)>>, << >>)}

\* Operations of every shape whose id is a, and one whose id is a_2.
MCOperations ==
    {Operation(<<a>>, method, params, body) :
        method \in {"get", "post"}, params \in Shapes, body \in BodyKinds}
    \cup {Operation(<<a, 2>>, "get", {}, "none")}
    \cup MediaOperations

VARIABLE part

registryVars == <<vars, toolVars, part>>

RegistryInit ==
    /\ part \in {"references", "tools"}
    /\ Init /\ ToolsInit
    /\ part = "tools" => schemas = << >> /\ root = {}

RegistryNext ==
    \/ part = "references" /\ Next /\ UNCHANGED <<toolVars, part>>
    \/ part = "tools" /\ ToolsNext /\ UNCHANGED <<vars, part>>

RegistrySpec == RegistryInit /\ [][RegistryNext]_registryVars /\ WF_vars(Next)
=============================================================================
