----------------------------- MODULE RefResolver -----------------------------
(***************************************************************************)
(* src/tool_registry/ref_resolver.rs: resolve_schema inlines every         *)
(* reference to a component schema in the schema of a parameter or a body, *)
(* and puts a placeholder for one that is circular or unresolvable.  The   *)
(* recursion is written with an explicit stack.  A schema is the set of    *)
(* the names it refers to: the order in which a JSON tree lists them, and  *)
(* one listed twice, make no difference to the properties below.           *)
(***************************************************************************)
EXTENDS Naturals, Sequences, FiniteSets

CONSTANTS
    Names,      \* the names under #/components/schemas that occur in the document
    None

ASSUME NamesAssumption == IsFiniteSet(Names) /\ None \notin Names

VARIABLES
    schemas,    \* components.schemas, defined for some of the names
    root,       \* the names the schema being resolved refers to
    stack,      \* the calls under way, innermost last; the first is the root's
    visited,    \* the set the code passes down
    at,         \* the name resolve_ref_string is looking up, or None
    looked,     \* history: the names looked up so far
    circular    \* history: the references replaced by the circular placeholder

doc  == <<schemas, root>>
vars == <<schemas, root, stack, visited, at, looked, circular>>

\* A component is a schema, or a reference to another component.
Item(refs) == [kind |-> "item", refs |-> refs]
Alias(to)  == [kind |-> "alias", refs |-> {to}]
Component  == {Item(refs) : refs \in SUBSET Names} \cup {Alias(n) : n \in Names}
Documents  == UNION {[known -> Component] : known \in SUBSET Names}

\* One call of schema_to_value: the reference it expands (None for the
\* root) and the references in its schema that are still to be resolved.
Frame(ref, todo) == [ref |-> ref, todo |-> todo]
Frames == {Frame(ref, todo) : ref \in Names \cup {None}, todo \in SUBSET Names}
Top    == stack[Len(stack)]
Caller(s) == SubSeq(s, 1, Len(s) - 1)

Init ==
    /\ schemas \in Documents
    /\ root \in SUBSET Names
    /\ stack = <<Frame(None, root)>>
    /\ visited = {} /\ at = None
    /\ looked = {} /\ circular = {}

-----------------------------------------------------------------------------
\* The walk over a schema.

Walking == at = None

\* The innermost schema with ref taken off its list.
Without(ref) == Append(Caller(stack), Frame(Top.ref, Top.todo \ {ref}))

\* Mutant of Circular: it abandons the rest of the schema.
CircularAbandons(ref) ==
    /\ Walking /\ ref \in Top.todo /\ ref \in visited
    /\ stack' = Append(Caller(stack), Frame(Top.ref, {}))
    /\ circular' = circular \cup {ref}
    /\ UNCHANGED <<doc, visited, at, looked>>

Circular(ref) ==
    /\ Walking /\ ref \in Top.todo /\ ref \in visited
    /\ stack' = Without(ref)
    /\ circular' = circular \cup {ref}
    /\ UNCHANGED <<doc, visited, at, looked>>

\* Mutant of Enter: the reference is not remembered.
EnterUnmarked(ref) ==
    /\ Walking /\ ref \in Top.todo /\ ref \notin visited
    /\ stack' = Append(Without(ref), Frame(ref, {}))
    /\ at' = ref
    /\ UNCHANGED <<doc, visited, looked, circular>>

Enter(ref) ==
    /\ Walking /\ ref \in Top.todo /\ ref \notin visited
    /\ visited' = visited \cup {ref}
    /\ stack' = Append(Without(ref), Frame(ref, {}))
    /\ at' = ref
    /\ UNCHANGED <<doc, looked, circular>>

\* Mutant of Leave: a reference once visited stays visited.
LeaveMarked ==
    /\ Walking /\ Len(stack) > 1 /\ Top.todo = {}
    /\ stack' = Caller(stack)
    /\ UNCHANGED <<doc, visited, at, looked, circular>>

\* Mutant of Leave: the root schema's call returns as if it had a caller.
LeaveRoot ==
    /\ Walking /\ Top.todo = {}
    /\ visited' = visited \ {Top.ref}
    /\ stack' = Caller(stack)
    /\ UNCHANGED <<doc, at, looked, circular>>

Leave ==
    /\ Walking /\ Len(stack) > 1 /\ Top.todo = {}
    /\ visited' = visited \ {Top.ref}
    /\ stack' = Caller(stack)
    /\ UNCHANGED <<doc, at, looked, circular>>

-----------------------------------------------------------------------------
\* resolve_ref_string, for the reference of the innermost call.

Known(n)   == n \in DOMAIN schemas
IsAlias(n) == Known(n) /\ schemas[n].kind = "alias"
Target(n)  == CHOOSE m \in schemas[n].refs : TRUE

Lookup ==
    /\ at # None
    /\ looked' = looked \cup {at}

NotFound ==
    /\ Lookup /\ ~Known(at)
    /\ at' = None
    /\ UNCHANGED <<doc, stack, visited, circular>>

Found ==
    /\ Lookup /\ Known(at) /\ ~IsAlias(at)
    /\ stack' = Append(Caller(stack), Frame(Top.ref, schemas[at].refs))
    /\ at' = None
    /\ UNCHANGED <<doc, visited, circular>>

Cycle ==
    /\ Lookup /\ IsAlias(at) /\ Target(at) \in visited
    /\ circular' = circular \cup {Top.ref}
    /\ at' = None
    /\ UNCHANGED <<doc, stack, visited>>

\* Mutant of Chain: the chain is followed without looking at visited.
ChainUnguarded ==
    /\ Lookup /\ IsAlias(at)
    /\ at' = Target(at)
    /\ UNCHANGED <<doc, stack, visited, circular>>

Chain ==
    /\ Lookup /\ IsAlias(at) /\ Target(at) \notin visited
    /\ at' = Target(at)
    /\ UNCHANGED <<doc, stack, visited, circular>>

Next ==
    \/ \E ref \in Names : Circular(ref) \/ Enter(ref)
    \/ Leave \/ NotFound \/ Found \/ Cycle \/ Chain

Spec     == Init /\ [][Next]_vars
FairSpec == Spec /\ WF_vars(Next)

-----------------------------------------------------------------------------
\* The reference graph of the document.

Done == Walking /\ Len(stack) = 1 /\ Top.todo = {}

Closed(set) == \A n \in set \cap DOMAIN schemas : schemas[n].refs \subseteq set

\* The names that from leads to, from itself included.
ReachableFrom(from) ==
    {n \in Names : \A set \in SUBSET Names : from \subseteq set /\ Closed(set) => n \in set}

OnCycle(n) == Known(n) /\ n \in ReachableFrom(schemas[n].refs)

\* The aliases that lead nowhere but into a cycle of aliases.  A set of
\* aliases closed under Target holds a cycle.
Endless == UNION {set \in SUBSET Names : \A n \in set : IsAlias(n) /\ Target(n) \in set}

\* A chain of aliases enters a cycle of aliases from outside it.
ChainEntersCycle == \E n \in Endless : ~OnCycle(n)

-----------------------------------------------------------------------------
\* Types of the variables.
TypeOK ==
    /\ schemas \in Documents
    /\ root \in SUBSET Names
    /\ stack \in Seq(Frames) /\ Len(stack) >= 1
    /\ visited \in SUBSET Names
    /\ at \in Names \cup {None}
    /\ looked \in SUBSET Names
    /\ circular \in SUBSET Names

\* No reference is expanded inside its own expansion, and visited holds
\* the references being expanded and no other, so that the recursion is no
\* deeper than the document has names.
DepthBounded ==
    /\ \A i, j \in 2 .. Len(stack) : stack[i].ref = stack[j].ref => i = j
    /\ visited = {stack[i].ref : i \in 2 .. Len(stack)}
    /\ Len(stack) <= Cardinality(Names) + 1

\* The circular placeholder stands only where expansion would never end: a
\* name that two branches share is expanded in both.
CircularIsReal == \A n \in circular : OnCycle(n)

\* When the result is complete, every name the schema leads to has been
\* looked up: no part of an input schema is lost behind a placeholder, an
\* unknown name or a chain.
NothingHidden == Done => looked = ReachableFrom(root)

\* The resolution ends, unless a chain of component references runs into a
\* cycle of component references that it is not part of.
EndsUnlessChainLoops == ~ChainEntersCycle => <>Done

\* What the comment of resolve_ref_string says: "The `visited` set
\* prevents infinite loops on chained cycles".
ResolutionEnds == <>Done
=============================================================================
