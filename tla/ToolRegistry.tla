---------------------------- MODULE ToolRegistry ----------------------------
(***************************************************************************)
(* src/tool_registry/builder.rs makes a tool of every operation of the     *)
(* document, schema_builder.rs its input schema; server.rs finds the tool  *)
(* a client calls by its name, dispatcher.rs shapes the request from the   *)
(* tool and the arguments.  An id is its parts between underscores: a_2 is *)
(* <<a, 2>>, whether the document calls it that or deduplicate_id does.    *)
(***************************************************************************)
EXTENDS Naturals, Sequences, FiniteSets

CONSTANTS
    Words,      \* the parts of ids that are not numbers
    Operations, \* the operations a document may hold
    Params,     \* names of parameters and arguments, "body" among them
    Types,      \* media types
    Versions,   \* the versioned ones, application/vnd.allegro.*+json
    NoVersion,  \* None: the default Accept, and no Content-Type of ours
    MaxTools,   \* bound: operations in the document
    NoRequest

\* A parameter: where it goes, the flag of the document (false when the
\* document leaves it out), and whether resolve_parameter_ref finds it.
Declarations ==
    [name : Params, in : {"path", "query"}, required : BOOLEAN, resolves : BOOLEAN]
\* A request body that is a reference nobody resolves is optional too.
BodyKinds == {"none", "optional", "required"}

\* A response that resolves: its status, 0 for a range like 4XX, and the media
\* types of its content in the order of the document.
Responses == [status : Nat, content : Seq(Types)]

ASSUME RegistryAssumption ==
    /\ "body" \in Params /\ NoRequest \notin Params /\ MaxTools \in Nat
    /\ \A op \in Operations :
        /\ op.base \in Seq(Words \cup Nat)
        /\ op.holes \subseteq Params /\ op.params \subseteq Declarations
        /\ op.method \in {"get", "post"} /\ op.body \in BodyKinds
        /\ op.responses \in Seq(Responses)
        /\ {op.content, op.default} \subseteq Seq(Types)
    /\ Versions \subseteq Types /\ NoVersion \notin Types

VARIABLES
    document,   \* the operations built so far, in the order of the paths
    tools,      \* the registry's tools, in the same order
    seen_ids,   \* the set deduplicate_id looks in
    request     \* the request of the call under way, or NoRequest

toolVars == <<document, tools, seen_ids, request>>

ToolsInit ==
    /\ document = <<>> /\ tools = <<>> /\ seen_ids = {}
    /\ request = NoRequest

-----------------------------------------------------------------------------
\* build_tools.

Least(T) == CHOOSE n \in T : \A m \in T : n <= m

Suffixed(base, seen) ==
    Append(base, Least({n \in 2 .. Cardinality(seen) + 2 : Append(base, n) \notin seen}))

deduplicate_id(base, seen) == IF base \in seen THEN Suffixed(base, seen) ELSE base

\* Parameters that cannot be resolved are left out.
Listed(op) == {p \in op.params : p.resolves}
NamesOf(decls) == {p.name : p \in decls}

Properties(op) == NamesOf(Listed(op)) \cup (IF op.body = "none" THEN {} ELSE {"body"})

\* Mutant of IsRequired: the document's flag counts for a path parameter.
IsRequiredByFlag(p) == p.required

\* extract_parameter_parts.
IsRequired(p) == p.in = "path" \/ p.required

Required(op) ==
    NamesOf({p \in Listed(op) : IsRequired(p)}) \cup (IF op.body = "required" THEN {"body"} ELSE {})

\* The places of a content map that hold a versioned type, and the first.
Versioned(content) == {k \in DOMAIN content : content[k] \in Versions}
FirstVersion(content) == content[Least(Versioned(content))]

\* The responses that have one.
Declaring(op) == {k \in DOMAIN op.responses : Versioned(op.responses[k].content) # {}}

\* 2xx codes first and in their order, all others after them as they come.
Rank(response) == IF response.status \in 200 .. 299 THEN response.status ELSE 300

\* Mutant of Scanned: the responses as they come.
ScannedUnsorted(op) == Least(Declaring(op))

\* The first of them, after the stable sort.
Scanned(op) ==
    LET best == Least({Rank(op.responses[k]) : k \in Declaring(op)})
    IN  Least({k \in Declaring(op) : Rank(op.responses[k]) = best})

\* extract_accept_media_type: the request body, the responses, the default one.
AcceptOf(op) ==
    CASE Versioned(op.content) # {} -> FirstVersion(op.content)
      [] Versioned(op.content) = {} /\ Declaring(op) # {} ->
             FirstVersion(op.responses[Scanned(op)].content)
      [] Versioned(op.content) = {} /\ Declaring(op) = {} /\ Versioned(op.default) # {} ->
             FirstVersion(op.default)
      [] OTHER -> NoVersion

Tool(op, id) ==
    [id |-> id, method |-> op.method, holes |-> op.holes, accept |-> AcceptOf(op),
     properties |-> Properties(op), required |-> Required(op)]

\* Mutant of Build: the name is remembered without its suffix.
BuildRemembersBase(op) ==
    LET id == deduplicate_id(op.base, seen_ids) IN
    /\ request = NoRequest /\ Len(tools) < MaxTools
    /\ seen_ids' = seen_ids \cup {op.base}
    /\ tools' = Append(tools, Tool(op, id))
    /\ document' = Append(document, op)
    /\ UNCHANGED request

\* build_one_tool.
Build(op) ==
    LET id == deduplicate_id(op.base, seen_ids) IN
    /\ request = NoRequest /\ Len(tools) < MaxTools
    /\ seen_ids' = seen_ids \cup {id}
    /\ tools' = Append(tools, Tool(op, id))
    /\ document' = Append(document, op)
    /\ UNCHANGED request

-----------------------------------------------------------------------------
\* call_tool.

\* get_tool_by_name: the first tool of that name.
Named(id) == {i \in DOMAIN tools : tools[i].id = id}
First(id) == Least(Named(id))

\* Mutant of Payload: body is reserved in every request.
PayloadAlwaysReserved(tool, rest) ==
    IF "body" \in rest THEN [kind |-> "body", arguments |-> {"body"}]
    ELSE [kind |-> IF tool.method = "get" THEN "query" ELSE "json", arguments |-> rest]

\* What becomes of the arguments that are not in the path.
Payload(tool, rest) ==
    IF tool.method = "get" THEN [kind |-> "query", arguments |-> rest]
    ELSE IF "body" \in rest THEN [kind |-> "body", arguments |-> {"body"}]
    ELSE [kind |-> "json", arguments |-> rest]

\* with_versioned_content_type: a payload that is JSON goes out as the version
\* that is asked for, whether the body declares it or a response does.
ContentType(tool) == IF tool.method = "get" THEN NoVersion ELSE tool.accept

\* substitute_path_params: a hole without an argument stays as it is.
Request(i, args) ==
    LET consumed == tools[i].holes \cap args IN
    [tool |-> i, arguments |-> args, path |-> consumed,
     payload |-> Payload(tools[i], args \ consumed),
     accept |-> tools[i].accept, content_type |-> ContentType(tools[i])]

\* Nothing checks the arguments against the schema: they may be any.
Call(id, args) ==
    /\ request = NoRequest /\ Named(id) # {}
    /\ request' = Request(First(id), args)
    /\ UNCHANGED <<document, tools, seen_ids>>

\* tool_def_to_rmcp: what the list says of a tool beside its schema.
ReadOnly(tool) == tool.method = "get"

Ids == {tools[i].id : i \in DOMAIN tools}

ToolsNext ==
    \/ \E op \in Operations : Build(op)
    \/ \E id \in Ids, args \in SUBSET Params : Call(id, args)

ToolsSpec == ToolsInit /\ [][ToolsNext]_toolVars

-----------------------------------------------------------------------------
\* A client that keeps to the input schema of the tool it calls.
Obedient(tool, args) == tool.required \subseteq args /\ args \subseteq tool.properties

\* Types of the variables.
ToolsTypeOK ==
    /\ document \in Seq(Operations) /\ Len(document) <= MaxTools
    /\ Len(tools) = Len(document)
    /\ \A i \in DOMAIN tools :
        /\ tools[i].required \subseteq tools[i].properties
        /\ tools[i].properties \subseteq Params
    /\ seen_ids = Ids
    /\ request = NoRequest \/ request.tool \in DOMAIN tools

\* The name of every listed tool finds that tool and no other, whatever
\* operation ids the document repeats or numbers itself.
NamesResolve == \A i \in DOMAIN tools : First(tools[i].id) = i

\* A call that keeps to the schema leaves no hole in the path that the
\* operation declares a parameter for, a required flag or none.
PathFilled ==
    request # NoRequest /\ Obedient(tools[request.tool], request.arguments) =>
        LET op == document[request.tool] IN
        \A p \in Listed(op) : p.in = "path" /\ p.name \in op.holes => p.name \in request.path

\* dispatch_with_resilience: every argument arrives.  An obedient call fills
\* the path; an argument goes out once, in the path or behind it, and none is
\* lost except beside a body: those are neither in the query nor in the JSON.
\* Exactly the tools that are listed as read-only send nothing but a query.
ArgumentsArrive ==
    /\ PathFilled
    /\ request # NoRequest =>
        /\ request.path \cap request.payload.arguments = {}
        /\ request.payload.kind # "body" =>
            request.path \cup request.payload.arguments = request.arguments
        /\ ReadOnly(tools[request.tool]) <=> request.payload.kind = "query"

\* extract_accept_media_type: a request is of a version its operation declares,
\* if it declares one at all.  What is sent is never labelled with a version
\* the body does not have while it has one, and what is asked for is never the
\* version of an error while the body or a success has one.
VersionFits ==
    request # NoRequest =>
        LET op == document[request.tool]
            Has(content) == \E k \in Versioned(content) : request.accept = content[k]
            successes == {k \in Declaring(op) : op.responses[k].status \in 200 .. 299}
        IN  /\ Versioned(op.content) # {} =>
                Has(op.content) /\ request.content_type \in {NoVersion, request.accept}
            /\ Versioned(op.content) = {} /\ successes # {} =>
                \E k \in successes : Has(op.responses[k].content)
            /\ Declaring(op) # {} \/ Versioned(op.default) # {} => request.accept \in Versions
=============================================================================
