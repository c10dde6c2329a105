--------------------------- MODULE RegistryProofs ---------------------------
(***************************************************************************)
(* Theorems about RefResolver and ToolRegistry.                            *)
(*                                                                         *)
(* For any finite set of names and any document over them: the recursion   *)
(* is no deeper than the document has names, the circular placeholder      *)
(* stands only where expansion would never end, and nothing the schema     *)
(* leads to is left out.                                                   *)
(*                                                                         *)
(* For documents of any size and operations of any shape: names resolve,   *)
(* obedient calls fill the path, arguments arrive, versions fit.           *)
(***************************************************************************)
EXTENDS RefResolver, ToolRegistry, FiniteSetTheorems, SequenceTheorems,
        WellFoundedInduction, TLAPS

(***************************************************************************)
(* RefResolver.                                                            *)
(***************************************************************************)
\* Reachability with the components as a parameter.
ClosedIn(sch, set) == \A n \in set \cap DOMAIN sch : sch[n].refs \subseteq set
ReachIn(sch, from) ==
    {n \in Names : \A set \in SUBSET Names : from \subseteq set /\ ClosedIn(sch, set) => n \in set}
\* What a name leads to, in one step or more.
Below(sch, n) == IF n \in DOMAIN sch THEN ReachIn(sch, sch[n].refs) ELSE {}

-----------------------------------------------------------------------------
\* Documents, reachability and the stack.

\* A document maps names to sets of names; an alias holds exactly its target.
LEMMA DocumentFacts ==
    ASSUME NEW sch \in Documents
    PROVE  /\ DOMAIN sch \subseteq Names
           /\ \A n \in DOMAIN sch : sch[n].refs \subseteq Names
           /\ \A n \in DOMAIN sch :
                sch[n].kind = "alias" => \E m \in Names : sch[n].refs = {m}
<1>1. PICK known \in SUBSET Names : sch \in [known -> Component]
    BY DEF Documents
<1>2. ASSUME NEW n \in known
      PROVE  /\ sch[n].refs \subseteq Names
             /\ sch[n].kind = "alias" => \E m \in Names : sch[n].refs = {m}
    <2>1. sch[n] \in Component
        BY <1>1, <1>2
    <2>2. CASE \E refs \in SUBSET Names : sch[n] = Item(refs)
        BY <2>2 DEF Item
    <2>3. CASE \E m \in Names : sch[n] = Alias(m)
        BY <2>3 DEF Alias
    <2> QED BY <2>1, <2>2, <2>3 DEF Component
<1> QED BY <1>1, <1>2

\* What is reachable contains its source and is closed.
LEMMA ReachIsClosed ==
    ASSUME NEW sch \in Documents, NEW from \in SUBSET Names
    PROVE  /\ from \subseteq ReachIn(sch, from)
           /\ ClosedIn(sch, ReachIn(sch, from))
<1>1. from \subseteq ReachIn(sch, from)
    BY DEF ReachIn
<1>2. ASSUME NEW n \in ReachIn(sch, from) \cap DOMAIN sch, NEW m \in sch[n].refs
      PROVE  m \in ReachIn(sch, from)
    <2>1. m \in Names
        BY <1>2, DocumentFacts
    <2>2. ASSUME NEW set \in SUBSET Names, from \subseteq set, ClosedIn(sch, set)
          PROVE  m \in set
        <3>1. n \in set
            BY <1>2, <2>2 DEF ReachIn
        <3> QED BY <1>2, <2>2, <3>1 DEF ClosedIn
    <2> QED BY <2>1, <2>2 DEF ReachIn
<1> QED BY <1>1, <1>2 DEF ClosedIn

\* And it is the least such set.
LEMMA ReachIsLeast ==
    ASSUME NEW sch, NEW from, NEW set \in SUBSET Names,
           from \subseteq set, ClosedIn(sch, set)
    PROVE  ReachIn(sch, from) \subseteq set
BY DEF ReachIn

\* Below is transitive, and what is reachable is closed under it.
LEMMA BelowFacts ==
    ASSUME NEW sch \in Documents
    PROVE  /\ \A n : Below(sch, n) \subseteq Names
           /\ \A n \in DOMAIN sch : sch[n].refs \subseteq Below(sch, n)
           /\ \A n : \A m \in Below(sch, n) : Below(sch, m) \subseteq Below(sch, n)
           /\ \A from \in SUBSET Names :
                \A m \in ReachIn(sch, from) : Below(sch, m) \subseteq ReachIn(sch, from)
<1>1. \A n : Below(sch, n) \subseteq Names
    BY DEF Below, ReachIn
<1>2. \A n \in DOMAIN sch : sch[n].refs \subseteq Below(sch, n)
    BY DocumentFacts, ReachIsClosed DEF Below
<1>3. ASSUME NEW from \in SUBSET Names, NEW m \in ReachIn(sch, from)
      PROVE  Below(sch, m) \subseteq ReachIn(sch, from)
    <2>1. CASE m \in DOMAIN sch
        <3>1. sch[m].refs \subseteq ReachIn(sch, from) /\ ClosedIn(sch, ReachIn(sch, from))
            BY <1>3, <2>1, ReachIsClosed DEF ClosedIn
        <3>2. ReachIn(sch, from) \in SUBSET Names
            BY DEF ReachIn
        <3> QED BY <2>1, <3>1, <3>2, ReachIsLeast DEF Below
    <2>2. CASE m \notin DOMAIN sch
        BY <2>2 DEF Below
    <2> QED BY <2>1, <2>2
<1>4. ASSUME NEW n, NEW m \in Below(sch, n)
      PROVE  Below(sch, m) \subseteq Below(sch, n)
    <2>1. n \in DOMAIN sch /\ Below(sch, n) = ReachIn(sch, sch[n].refs)
        BY <1>4 DEF Below
    <2> QED BY <1>3, <1>4, <2>1, DocumentFacts
<1> QED BY <1>1, <1>2, <1>3, <1>4

-----------------------------------------------------------------------------
\* The inductive invariant, over a stack s of length k.

\* Only the root's call has no reference; while one is looked up, its call
\* has nothing to resolve yet.
Shape(s, k, a) ==
    /\ \A i \in 1 .. k : s[i] \in Frames
    /\ s[1].ref = None
    /\ \A i \in 2 .. k : s[i].ref \in Names
    /\ a # None => k > 1 /\ s[k].todo = {}

Distinct(s, k, vis) ==
    /\ \A i, j \in 2 .. k : s[i].ref = s[j].ref => i = j
    /\ vis = {s[i].ref : i \in 2 .. k}

\* An inner call, and what it has still to resolve, is below the outer ones.
Nested(sch, s, k, a) ==
    /\ \A i \in 2 .. k : \A j \in i + 1 .. k : s[j].ref \in Below(sch, s[i].ref)
    /\ \A i \in 2 .. k : s[i].todo \subseteq Below(sch, s[i].ref)
    /\ a # None => a = s[k].ref \/ a \in Below(sch, s[k].ref)

\* What is still to be looked up.
Pending(s, k, a) == {n \in Names : n = a \/ \E i \in 1 .. k : n \in s[i].todo}

\* Nothing is forgotten.
Kept(sch, rt, s, k, vis, a, lk) ==
    /\ rt \subseteq lk \cup Pending(s, k, a)
    /\ \A n \in lk \cap DOMAIN sch : sch[n].refs \subseteq lk \cup Pending(s, k, a)
    /\ vis \subseteq lk \cup {a}

\* Nothing is made up.
Within(sch, rt, s, k, a, lk) == lk \cup Pending(s, k, a) \subseteq ReachIn(sch, rt)

Sound(sch, rt, s, k, vis, a, lk) ==
    /\ Shape(s, k, a) /\ Distinct(s, k, vis) /\ Nested(sch, s, k, a)
    /\ Kept(sch, rt, s, k, vis, a, lk) /\ Within(sch, rt, s, k, a, lk)

IInv ==
    /\ TypeOK
    /\ Sound(schemas, root, stack, Len(stack), visited, at, looked)
    /\ CircularIsReal

\* What a frame is made of.
LEMMA FrameFacts ==
    /\ \A ref, todo : Frame(ref, todo).ref = ref /\ Frame(ref, todo).todo = todo
    /\ \A ref \in Names \cup {None}, todo \in SUBSET Names : Frame(ref, todo) \in Frames
    /\ \A f \in Frames : f.ref \in Names \cup {None} /\ f.todo \in SUBSET Names
BY DEF Frames, Frame

\* A list with an entry at its end replaced by one that asks for less.
LEMMA LessToDo ==
    ASSUME NEW s, NEW t, NEW k \in Nat,
           \A i \in 1 .. k - 1 : t[i] = s[i],
           t[k].ref = s[k].ref, t[k].todo \subseteq s[k].todo
    PROVE  \A i \in 1 .. k : t[i].ref = s[i].ref /\ t[i].todo \subseteq s[i].todo
<1>1. ASSUME NEW i \in 1 .. k
      PROVE  t[i].ref = s[i].ref /\ t[i].todo \subseteq s[i].todo
    <2>1. CASE i = k
        BY <2>1
    <2>2. CASE i \in 1 .. k - 1
        <3>1. t[i] = s[i]
            BY <2>2
        <3> QED BY ONLY <3>1, Zenon
    <2> QED BY <2>1, <2>2
<1> QED BY <1>1

-----------------------------------------------------------------------------
\* The steps, on Sound.

\* A reference of the innermost call that is being expanded is on a cycle.
LEMMA ExpandedIsOnCycle ==
    ASSUME NEW sch \in Documents, NEW s, NEW k \in Nat, NEW vis, NEW ref \in Names,
           Shape(s, k, None), Distinct(s, k, vis), Nested(sch, s, k, None), k >= 1,
           ref \in vis, ref \in s[k].todo
    PROVE  ref \in Below(sch, ref)
<1>1. PICK i \in 2 .. k : ref = s[i].ref
    BY DEF Distinct
<1>2. ref \in Below(sch, s[k].ref)
    BY <1>1 DEF Nested
<1>3. CASE i = k
    BY <1>1, <1>2, <1>3
<1>4. CASE i # k
    <2>1. s[k].ref \in Below(sch, s[i].ref)
        BY <1>4 DEF Nested
    <2> QED BY <1>1, <1>2, <2>1, BelowFacts
<1> QED BY <1>3, <1>4

\* A chain that comes back to a reference being expanded started on a cycle.
LEMMA ChainIsOnCycle ==
    ASSUME NEW sch \in Documents, NEW s, NEW k \in Nat, NEW vis, NEW a \in Names, NEW m,
           Shape(s, k, a), Distinct(s, k, vis), Nested(sch, s, k, a), a # None, k >= 1,
           a \in DOMAIN sch, m \in sch[a].refs, m \in vis
    PROVE  s[k].ref \in Below(sch, s[k].ref)
<1>1. PICK i \in 2 .. k : m = s[i].ref
    BY DEF Distinct
<1>2. m \in Below(sch, a)
    BY BelowFacts
<1>3. m \in Below(sch, s[k].ref)
    BY <1>2, BelowFacts DEF Nested
<1>4. CASE i = k
    BY <1>1, <1>3, <1>4
<1>5. CASE i # k
    <2>1. s[k].ref \in Below(sch, m)
        BY <1>1, <1>5 DEF Nested
    <2> QED BY <1>3, <2>1, BelowFacts
<1> QED BY <1>4, <1>5

\* A circular reference is taken off the innermost list.
LEMMA CircularSound ==
    ASSUME NEW sch \in Documents, NEW rt, NEW s, NEW t, NEW k \in Nat, NEW vis, NEW lk,
           NEW ref \in Names,
           k >= 1, Sound(sch, rt, s, k, vis, None, lk), ref \in vis,
           \A i \in 1 .. k - 1 : t[i] = s[i],
           t[k] = Frame(s[k].ref, s[k].todo \ {ref})
    PROVE  Sound(sch, rt, t, k, vis, None, lk)
<1> USE DEF Sound
<1>1. s[k] \in Frames /\ t[k].ref = s[k].ref /\ t[k].todo = s[k].todo \ {ref}
    BY DEF Shape, Frame
<1>2. \A i \in 1 .. k : t[i].ref = s[i].ref /\ t[i].todo \subseteq s[i].todo
    BY <1>1, LessToDo
<1>3. t[k] \in Frames
    <2>1. s[k].ref \in Names \cup {None} /\ s[k].todo \ {ref} \in SUBSET Names
        BY <1>1, FrameFacts
    <2> QED BY <2>1, FrameFacts
<1>4. Shape(t, k, None)
    BY <1>2, <1>3 DEF Shape
<1>5. Distinct(t, k, vis)
    BY <1>2 DEF Distinct
<1>6. Nested(sch, t, k, None)
    BY <1>2 DEF Nested
<1>7. ref \in lk
    BY NamesAssumption DEF Kept
<1>8. Pending(t, k, None) \subseteq Pending(s, k, None)
    BY <1>2 DEF Pending
<1>9. Pending(s, k, None) \subseteq Pending(t, k, None) \cup {ref}
    BY <1>1 DEF Pending
<1> QED BY <1>4, <1>5, <1>6, <1>7, <1>8, <1>9 DEF Kept, Within

\* A call for a reference of the innermost list.
LEMMA EnterSound ==
    ASSUME NEW sch \in Documents, NEW rt, NEW s, NEW t, NEW k \in Nat, NEW vis, NEW lk,
           NEW ref \in Names,
           k >= 1, Sound(sch, rt, s, k, vis, None, lk), ref \notin vis, ref \in s[k].todo,
           \A i \in 1 .. k - 1 : t[i] = s[i],
           t[k] = Frame(s[k].ref, s[k].todo \ {ref}),
           t[k + 1] = Frame(ref, {})
    PROVE  Sound(sch, rt, t, k + 1, vis \cup {ref}, ref, lk)
<1> USE DEF Sound
<1>1. s[k] \in Frames /\ t[k].ref = s[k].ref /\ t[k].todo = s[k].todo \ {ref}
    BY DEF Shape, Frame
<1>2. t[k + 1].ref = ref /\ t[k + 1].todo = {}
    BY DEF Frame
<1>3. \A i \in 1 .. k : t[i].ref = s[i].ref /\ t[i].todo \subseteq s[i].todo
    BY <1>1, LessToDo
<1>4. t[k] \in Frames /\ t[k + 1] \in Frames
    <2>1. s[k].ref \in Names \cup {None} /\ s[k].todo \ {ref} \in SUBSET Names
        BY <1>1, FrameFacts
    <2> QED BY <2>1, FrameFacts
<1>5. Shape(t, k + 1, ref)
    BY <1>2, <1>3, <1>4 DEF Shape
<1>6. Distinct(t, k + 1, vis \cup {ref})
    <2>1. \A i \in 2 .. k : t[i].ref \in vis
        BY <1>3 DEF Distinct
    <2>2. \A i, j \in 2 .. k : t[i].ref = t[j].ref => i = j
        BY <1>3 DEF Distinct
    <2>3. \A i, j \in 2 .. k + 1 : t[i].ref = t[j].ref => i = j
        BY <1>2, <2>1, <2>2
    <2>4. vis = {t[i].ref : i \in 2 .. k}
        BY <1>3 DEF Distinct
    <2>5. vis \cup {ref} = {t[i].ref : i \in 2 .. k + 1}
        BY <1>2, <2>4
    <2> QED BY <2>3, <2>5 DEF Distinct
<1>7. Nested(sch, t, k + 1, ref)
    <2>1. \A i \in 2 .. k : ref \in Below(sch, s[i].ref)
        <3>1. ASSUME NEW i \in 2 .. k
              PROVE  ref \in Below(sch, s[i].ref)
            <4>1. ref \in Below(sch, s[k].ref)
                BY DEF Nested
            <4>2. i = k \/ s[k].ref \in Below(sch, s[i].ref)
                BY DEF Nested
            <4> QED BY <4>1, <4>2, BelowFacts
        <3> QED BY <3>1
    <2>2. \A i \in 2 .. k + 1 : \A j \in i + 1 .. k + 1 : t[j].ref \in Below(sch, t[i].ref)
        BY <1>2, <1>3, <2>1 DEF Nested
    <2>3. \A i \in 2 .. k + 1 : t[i].todo \subseteq Below(sch, t[i].ref)
        BY <1>2, <1>3 DEF Nested
    <2> QED BY <1>2, <2>2, <2>3 DEF Nested
<1>8. Pending(t, k + 1, ref) = Pending(s, k, None)
    <2>1. ASSUME NEW n \in Pending(t, k + 1, ref)
          PROVE  n \in Pending(s, k, None)
        BY <1>2, <1>3, <2>1 DEF Pending
    <2>2. ASSUME NEW n \in Pending(s, k, None)
          PROVE  n \in Pending(t, k + 1, ref)
        <3>1. n \in Names /\ n # None
            BY <2>2, NamesAssumption DEF Pending
        <3>2. PICK i \in 1 .. k : n \in s[i].todo
            BY <2>2, <3>1 DEF Pending
        <3>3. n = ref \/ n \in t[i].todo
            BY <1>1, <3>2
        <3> QED BY <3>1, <3>3 DEF Pending
    <2> QED BY <2>1, <2>2
<1>9. Kept(sch, rt, t, k + 1, vis \cup {ref}, ref, lk)
    <2>1. vis \subseteq lk
        BY NamesAssumption DEF Kept, Shape, Distinct
    <2> QED BY <1>8, <2>1 DEF Kept
<1> QED BY <1>5, <1>6, <1>7, <1>8, <1>9 DEF Within

\* The innermost call returns.
LEMMA LeaveSound ==
    ASSUME NEW sch \in Documents, NEW rt, NEW s, NEW t, NEW k \in Nat, NEW vis, NEW lk,
           k > 1, Sound(sch, rt, s, k, vis, None, lk), s[k].todo = {},
           \A i \in 1 .. k - 1 : t[i] = s[i]
    PROVE  Sound(sch, rt, t, k - 1, vis \ {s[k].ref}, None, lk)
<1> USE DEF Sound
<1>1. k - 1 \in Nat /\ k - 1 >= 1
    OBVIOUS
<1>2. Shape(t, k - 1, None)
    BY DEF Shape
<1>3. Distinct(t, k - 1, vis \ {s[k].ref})
    <2>1. \A i, j \in 2 .. k - 1 : t[i].ref = t[j].ref => i = j
        BY DEF Distinct
    <2>2. vis \ {s[k].ref} = {s[i].ref : i \in 2 .. k - 1}
        BY DEF Distinct
    <2>3. {s[i].ref : i \in 2 .. k - 1} = {t[i].ref : i \in 2 .. k - 1}
        OBVIOUS
    <2> QED BY <2>1, <2>2, <2>3 DEF Distinct
<1>4. Nested(sch, t, k - 1, None)
    BY DEF Nested
<1>5. Pending(t, k - 1, None) = Pending(s, k, None)
    BY DEF Pending
<1>6. Kept(sch, rt, t, k - 1, vis \ {s[k].ref}, None, lk)
    BY <1>5 DEF Kept
<1> QED BY <1>2, <1>3, <1>4, <1>5, <1>6 DEF Within

\* The name in hand is looked up, and leads nowhere or back.
LEMMA LookupSound ==
    ASSUME NEW sch \in Documents, NEW rt, NEW s, NEW k \in Nat, NEW vis, NEW lk,
           NEW a \in Names,
           k >= 1, Sound(sch, rt, s, k, vis, a, lk),
           a \notin DOMAIN sch \/ sch[a].refs \subseteq vis
    PROVE  Sound(sch, rt, s, k, vis, None, lk \cup {a})
<1> USE DEF Sound
<1>1. Shape(s, k, None) /\ Nested(sch, s, k, None)
    BY DEF Shape, Nested
<1>2. Pending(s, k, a) = Pending(s, k, None) \cup {a}
    BY NamesAssumption DEF Pending
<1>3. Kept(sch, rt, s, k, vis, None, lk \cup {a})
    BY <1>2 DEF Kept
<1> QED BY <1>1, <1>2, <1>3 DEF Within

\* It is a reference, which is followed.
LEMMA ChainSound ==
    ASSUME NEW sch \in Documents, NEW rt, NEW s, NEW k \in Nat, NEW vis, NEW lk,
           NEW a \in Names, NEW m \in Names,
           k >= 1, Sound(sch, rt, s, k, vis, a, lk), a # None,
           a \in DOMAIN sch, sch[a].refs = {m}, rt \in SUBSET Names
    PROVE  Sound(sch, rt, s, k, vis, m, lk \cup {a})
<1> USE DEF Sound
<1>1. Shape(s, k, m)
    BY DEF Shape
<1>2. m \in Below(sch, a)
    BY BelowFacts
<1>3. m \in Below(sch, s[k].ref)
    BY <1>2, BelowFacts DEF Nested
<1>4. Nested(sch, s, k, m)
    BY <1>3 DEF Nested
<1>5. /\ Pending(s, k, a) \subseteq Pending(s, k, m) \cup {a}
      /\ Pending(s, k, m) \subseteq Pending(s, k, a) \cup {m}
      /\ a \in Pending(s, k, a) /\ m \in Pending(s, k, m)
    BY DEF Pending
<1>6. Kept(sch, rt, s, k, vis, m, lk \cup {a})
    BY <1>5 DEF Kept
<1>7. m \in ReachIn(sch, rt)
    BY <1>2, <1>5, BelowFacts DEF Within
<1> QED BY <1>1, <1>4, <1>5, <1>6, <1>7 DEF Within

\* It is a schema, which the innermost call goes through.
LEMMA FoundSound ==
    ASSUME NEW sch \in Documents, NEW rt, NEW s, NEW t, NEW k \in Nat, NEW vis, NEW lk,
           NEW a \in Names,
           k >= 1, Sound(sch, rt, s, k, vis, a, lk), a # None,
           a \in DOMAIN sch, rt \in SUBSET Names,
           \A i \in 1 .. k - 1 : t[i] = s[i],
           t[k] = Frame(s[k].ref, sch[a].refs)
    PROVE  Sound(sch, rt, t, k, vis, None, lk \cup {a})
<1> USE DEF Sound
<1>1. k > 1 /\ s[k] \in Frames /\ s[k].todo = {} /\ sch[a].refs \in SUBSET Names
    BY DocumentFacts DEF Shape
<1>2. t[k].ref = s[k].ref /\ t[k].todo = sch[a].refs
    BY FrameFacts
<1>3. \A i \in 1 .. k : t[i].ref = s[i].ref
    BY <1>2
<1>4. \A i \in 1 .. k - 1 : t[i].todo = s[i].todo
    OBVIOUS
<1>5. t[k] \in Frames
    BY <1>1, FrameFacts
<1>6. Shape(t, k, None)
    BY <1>3, <1>5 DEF Shape
<1>7. Distinct(t, k, vis)
    BY <1>3 DEF Distinct
<1>8. sch[a].refs \subseteq Below(sch, a)
    BY BelowFacts
<1>9. sch[a].refs \subseteq Below(sch, s[k].ref)
    BY <1>8, BelowFacts DEF Nested
<1>10. Nested(sch, t, k, None)
    <2>1. \A i \in 2 .. k : \A j \in i + 1 .. k : t[j].ref \in Below(sch, t[i].ref)
        BY <1>3 DEF Nested
    <2>2. \A i \in 2 .. k : t[i].todo \subseteq Below(sch, t[i].ref)
        BY <1>2, <1>3, <1>4, <1>9 DEF Nested
    <2> QED BY <2>1, <2>2 DEF Nested
<1>11. /\ Pending(s, k, a) \subseteq Pending(t, k, None) \cup {a}
       /\ Pending(t, k, None) \subseteq Pending(s, k, a) \cup sch[a].refs
       /\ a \in Pending(s, k, a) /\ sch[a].refs \subseteq Pending(t, k, None)
    <2>1. ASSUME NEW n \in Pending(s, k, a), n # a
          PROVE  n \in Pending(t, k, None)
        <3>1. PICK i \in 1 .. k : n \in s[i].todo
            BY <2>1 DEF Pending
        <3>2. n \in t[i].todo
            BY <1>1, <1>4, <3>1
        <3> QED BY <2>1, <3>2 DEF Pending
    <2>2. ASSUME NEW n \in Pending(t, k, None)
          PROVE  n \in Pending(s, k, a) \cup sch[a].refs
        <3>1. n \in Names /\ n # None
            BY <2>2, NamesAssumption DEF Pending
        <3>2. PICK i \in 1 .. k : n \in t[i].todo
            BY <2>2, <3>1 DEF Pending
        <3>3. n \in s[i].todo \/ n \in sch[a].refs
            BY <1>2, <1>4, <3>2
        <3> QED BY <3>1, <3>3 DEF Pending
    <2>3. a \in Pending(s, k, a)
        BY DEF Pending
    <2>4. sch[a].refs \subseteq Pending(t, k, None)
        BY <1>1, <1>2 DEF Pending
    <2> QED BY <2>1, <2>2, <2>3, <2>4
<1>12. Kept(sch, rt, t, k, vis, None, lk \cup {a})
    BY <1>11 DEF Kept
<1>13. sch[a].refs \subseteq ReachIn(sch, rt)
    BY <1>8, <1>11, BelowFacts DEF Within
<1> QED BY <1>6, <1>7, <1>10, <1>11, <1>12, <1>13 DEF Within

-----------------------------------------------------------------------------
\* The stack's operations.

\* A stack that is not empty has one frame or more.
LEMMA OneOrMore == \A n \in Nat : n >= 1 => n = 1 \/ n > 1
OBVIOUS

\* Without its top a stack is one shorter and otherwise the same.
LEMMA Popped ==
    ASSUME NEW s \in Seq(Frames), Len(s) >= 1
    PROVE  /\ Caller(s) \in Seq(Frames)
           /\ Len(Caller(s)) = Len(s) - 1
           /\ \A i \in 1 .. Len(s) - 1 : Caller(s)[i] = s[i]
<1>1. CASE Len(s) > 1
    BY <1>1 DEF Caller
<1>2. CASE Len(s) = 1
    <2>1. SubSeq(s, 1, 0) = << >>
        BY SubSeqEmpty
    <2> QED BY <1>2, <2>1 DEF Caller
<1>3. Len(s) \in Nat
    OBVIOUS
<1> QED BY <1>1, <1>2, <1>3, OneOrMore, Zenon

\* A frame pushed on a stack leaves the rest of it alone.
LEMMA Pushed ==
    ASSUME NEW s \in Seq(Frames), NEW f \in Frames
    PROVE  /\ Append(s, f) \in Seq(Frames)
           /\ Len(Append(s, f)) = Len(s) + 1
           /\ Append(s, f)[Len(s) + 1] = f
           /\ \A i \in 1 .. Len(s) : Append(s, f)[i] = s[i]
OBVIOUS

\* So does a frame put in the place of the top.
LEMMA Replaced ==
    ASSUME NEW s \in Seq(Frames), Len(s) >= 1, NEW f \in Frames
    PROVE  /\ Append(Caller(s), f) \in Seq(Frames)
           /\ Len(Append(Caller(s), f)) = Len(s)
           /\ Append(Caller(s), f)[Len(s)] = f
           /\ \A i \in 1 .. Len(s) - 1 : Append(Caller(s), f)[i] = s[i]
<1> DEFINE c == Caller(s)
<1>1. c \in Seq(Frames) /\ Len(c) = Len(s) - 1 /\ \A i \in 1 .. Len(s) - 1 : c[i] = s[i]
    BY Popped
<1> HIDE DEF c
<1>2. /\ Append(c, f) \in Seq(Frames)
      /\ Len(Append(c, f)) = Len(c) + 1
      /\ Append(c, f)[Len(c) + 1] = f
      /\ \A i \in 1 .. Len(c) : Append(c, f)[i] = c[i]
    BY <1>1, Pushed
<1>3. Len(s) \in Nat
    OBVIOUS
<1> QED BY <1>1, <1>2, <1>3 DEF c

-----------------------------------------------------------------------------
\* The invariant is inductive.

\* The invariant's parts, as the steps use them.
LEMMA Unfolded ==
    ASSUME IInv
    PROVE  /\ schemas \in Documents /\ root \in SUBSET Names
           /\ stack \in Seq(Frames) /\ Len(stack) \in Nat /\ Len(stack) >= 1
           /\ Top \in Frames /\ Top = stack[Len(stack)]
           /\ Top.ref \in Names \cup {None} /\ Top.todo \in SUBSET Names
           /\ visited \in SUBSET Names /\ at \in Names \cup {None}
           /\ looked \in SUBSET Names /\ circular \in SUBSET Names
           /\ Sound(schemas, root, stack, Len(stack), visited, at, looked)
<1>1. stack \in Seq(Frames) /\ Len(stack) >= 1 /\ Len(stack) \in Nat
    BY DEF IInv, TypeOK
<1>2. Top \in Frames
    <2>1. Shape(stack, Len(stack), at)
        BY DEF IInv, Sound
    <2> QED BY <1>1, <2>1 DEF Shape, Top
<1> QED BY <1>1, <1>2, FrameFacts DEF IInv, TypeOK, Top

\* A name on a cycle is one below itself.
LEMMA CycleIsBelow ==
    \A n \in Names : OnCycle(n) <=> n \in Below(schemas, n)
BY DEF OnCycle, Known, ReachableFrom, Closed, Below, ReachIn, ClosedIn

\* A component that is a reference holds its target and nothing else.
LEMMA AliasFacts ==
    ASSUME schemas \in Documents, NEW n \in Names, IsAlias(n)
    PROVE  n \in DOMAIN schemas /\ Target(n) \in Names /\ schemas[n].refs = {Target(n)}
<1>1. PICK m \in Names : schemas[n].refs = {m}
    BY DocumentFacts DEF IsAlias, Known
<1> QED BY <1>1 DEF IsAlias, Known, Target

\* A step that leaves the placeholders alone keeps CircularIsReal.
LEMMA CircularKept ==
    ASSUME IInv, schemas' = schemas, circular' = circular
    PROVE  CircularIsReal'
BY DEF IInv, CircularIsReal, OnCycle, Known, ReachableFrom, Closed

\* Neither does one that adds a name that is on a cycle.
LEMMA CircularGrows ==
    ASSUME IInv, schemas' = schemas, NEW ref, circular' = circular \cup {ref}, OnCycle(ref)
    PROVE  CircularIsReal'
BY DEF IInv, CircularIsReal, OnCycle, Known, ReachableFrom, Closed

\* A fresh call of resolve_schema satisfies the invariant.
LEMMA InitSound == Init => IInv
<1> SUFFICES ASSUME Init PROVE IInv
    OBVIOUS
<1>1. schemas \in Documents /\ root \in SUBSET Names /\ Frame(None, root) \in Frames
    BY FrameFacts DEF Init
<1>2. stack \in Seq(Frames) /\ Len(stack) = 1 /\ stack[1] = Frame(None, root)
    BY <1>1 DEF Init
<1>3. stack[1].ref = None /\ stack[1].todo = root
    BY <1>2, FrameFacts
<1>4. TypeOK
    BY <1>1, <1>2 DEF Init, TypeOK
<1>5. Shape(stack, 1, None) /\ Distinct(stack, 1, {}) /\ Nested(schemas, stack, 1, None)
    BY <1>1, <1>2, <1>3 DEF Shape, Distinct, Nested
<1>6. Pending(stack, 1, None) = root
    BY <1>1, <1>3, NamesAssumption DEF Pending
<1>7. root \subseteq ReachIn(schemas, root)
    BY <1>1, ReachIsClosed
<1>8. Sound(schemas, root, stack, 1, {}, None, {})
    BY <1>5, <1>6, <1>7 DEF Sound, Kept, Within
<1> QED BY <1>2, <1>4, <1>8 DEF Init, IInv, CircularIsReal

\* A circular reference replaced keeps the invariant.
LEMMA CircularKeeps ==
    ASSUME IInv, NEW ref \in Names, Circular(ref)
    PROVE  IInv'
<1> DEFINE f == Frame(Top.ref, Top.todo \ {ref})
<1>1. f \in Frames
    BY Unfolded, FrameFacts
<1>2. stack' = Append(Caller(stack), f) /\ UNCHANGED <<schemas, root, visited, at, looked>>
    BY DEF Circular, Without, doc
<1>3. at = None /\ ref \in visited /\ ref \in Top.todo /\ circular' = circular \cup {ref}
    BY DEF Circular, Walking
<1>4. /\ stack' \in Seq(Frames) /\ Len(stack') = Len(stack) /\ stack'[Len(stack)] = f
      /\ \A i \in 1 .. Len(stack) - 1 : stack'[i] = stack[i]
    BY <1>1, <1>2, Unfolded, Replaced
<1>5. Sound(schemas, root, stack', Len(stack), visited, None, looked)
    BY <1>3, <1>4, Unfolded, CircularSound
<1>6. OnCycle(ref)
    <2>1. ref \in Below(schemas, ref)
        BY <1>3, Unfolded, ExpandedIsOnCycle DEF Sound
    <2> QED BY <2>1, CycleIsBelow
<1>7. CircularIsReal'
    BY <1>2, <1>3, <1>6, CircularGrows
<1>8. TypeOK'
    BY <1>2, <1>3, <1>4, Unfolded DEF TypeOK
<1> QED BY <1>2, <1>3, <1>4, <1>5, <1>7, <1>8 DEF IInv

\* A reference entered keeps the invariant.
LEMMA EnterKeeps ==
    ASSUME IInv, NEW ref \in Names, Enter(ref)
    PROVE  IInv'
<1> DEFINE f == Frame(Top.ref, Top.todo \ {ref})
           mid == Append(Caller(stack), f)
<1>1. f \in Frames /\ Frame(ref, {}) \in Frames
    BY Unfolded, FrameFacts
<1>2. /\ stack' = Append(mid, Frame(ref, {}))
      /\ at' = ref /\ visited' = visited \cup {ref}
      /\ UNCHANGED <<schemas, root, looked, circular>>
    BY DEF Enter, Without, doc
<1>3. at = None /\ ref \notin visited /\ ref \in Top.todo
    BY DEF Enter, Walking
<1>4. /\ mid \in Seq(Frames) /\ Len(mid) = Len(stack) /\ mid[Len(stack)] = f
      /\ \A i \in 1 .. Len(stack) - 1 : mid[i] = stack[i]
    BY <1>1, Unfolded, Replaced
<1> HIDE DEF mid
<1>5. /\ stack' \in Seq(Frames) /\ Len(stack') = Len(mid) + 1
      /\ stack'[Len(mid) + 1] = Frame(ref, {})
      /\ \A i \in 1 .. Len(mid) : stack'[i] = mid[i]
    BY <1>1, <1>2, <1>4, Pushed
<1>6. /\ Len(stack') = Len(stack) + 1
      /\ stack'[Len(stack) + 1] = Frame(ref, {}) /\ stack'[Len(stack)] = f
      /\ \A i \in 1 .. Len(stack) - 1 : stack'[i] = stack[i]
    BY <1>4, <1>5, Unfolded
<1>7. Sound(schemas, root, stack', Len(stack) + 1, visited \cup {ref}, ref, looked)
    BY <1>3, <1>6, Unfolded, EnterSound
<1>8. CircularIsReal'
    BY ONLY IInv, <1>2, CircularKept
<1>9. TypeOK'
    BY <1>2, <1>5, <1>6, Unfolded DEF TypeOK
<1> QED BY <1>2, <1>6, <1>7, <1>8, <1>9 DEF IInv

\* A call that returns keeps the invariant.
LEMMA LeaveKeeps ==
    ASSUME IInv, Leave
    PROVE  IInv'
<1>1. /\ stack' = Caller(stack) /\ visited' = visited \ {Top.ref}
      /\ UNCHANGED <<schemas, root, at, looked, circular>>
    BY DEF Leave, doc
<1>2. at = None /\ Len(stack) > 1 /\ Top.todo = {}
    BY DEF Leave, Walking
<1>3. /\ stack' \in Seq(Frames) /\ Len(stack') = Len(stack) - 1
      /\ \A i \in 1 .. Len(stack) - 1 : stack'[i] = stack[i]
    BY <1>1, Unfolded, Popped
<1>4. Sound(schemas, root, stack', Len(stack) - 1, visited \ {Top.ref}, None, looked)
    BY <1>2, <1>3, Unfolded, LeaveSound
<1>5. CircularIsReal'
    BY ONLY IInv, <1>1, CircularKept
<1>6. TypeOK'
    BY <1>1, <1>2, <1>3, Unfolded DEF TypeOK
<1> QED BY <1>1, <1>2, <1>3, <1>4, <1>5, <1>6 DEF IInv

\* A name not found keeps the invariant.
LEMMA NotFoundKeeps ==
    ASSUME IInv, NotFound
    PROVE  IInv'
<1>1. /\ at \in Names /\ at \notin DOMAIN schemas
      /\ at' = None /\ looked' = looked \cup {at}
      /\ UNCHANGED <<schemas, root, stack, visited, circular>>
    BY Unfolded DEF NotFound, Lookup, Known, doc
<1>2. Sound(schemas, root, stack, Len(stack), visited, None, looked \cup {at})
    BY <1>1, Unfolded, LookupSound
<1>3. CircularIsReal'
    BY ONLY IInv, <1>1, CircularKept
<1>4. TypeOK'
    BY <1>1, Unfolded DEF TypeOK
<1> QED BY <1>1, <1>2, <1>3, <1>4 DEF IInv

\* A schema found keeps the invariant.
LEMMA FoundKeeps ==
    ASSUME IInv, Found
    PROVE  IInv'
<1> DEFINE f == Frame(Top.ref, schemas[at].refs)
<1>1. /\ at \in Names /\ at \in DOMAIN schemas /\ at # None
      /\ at' = None /\ looked' = looked \cup {at}
      /\ stack' = Append(Caller(stack), f)
      /\ UNCHANGED <<schemas, root, visited, circular>>
    BY Unfolded DEF Found, Lookup, Known, doc
<1>2. f \in Frames
    BY <1>1, Unfolded, FrameFacts, DocumentFacts
<1>3. /\ stack' \in Seq(Frames) /\ Len(stack') = Len(stack) /\ stack'[Len(stack)] = f
      /\ \A i \in 1 .. Len(stack) - 1 : stack'[i] = stack[i]
    BY <1>1, <1>2, Unfolded, Replaced
<1>4. Sound(schemas, root, stack', Len(stack), visited, None, looked \cup {at})
    BY <1>1, <1>3, Unfolded, FoundSound
<1>5. CircularIsReal'
    BY ONLY IInv, <1>1, CircularKept
<1>6. TypeOK'
    BY <1>1, <1>3, Unfolded DEF TypeOK
<1> QED BY <1>1, <1>3, <1>4, <1>5, <1>6 DEF IInv

\* A chain that comes back keeps the invariant.
LEMMA CycleKeeps ==
    ASSUME IInv, Cycle
    PROVE  IInv'
<1>1. /\ at \in Names /\ at # None /\ IsAlias(at) /\ Target(at) \in visited
      /\ at' = None /\ looked' = looked \cup {at} /\ circular' = circular \cup {Top.ref}
      /\ UNCHANGED <<schemas, root, stack, visited>>
    BY Unfolded DEF Cycle, Lookup, doc
<1>2. at \in DOMAIN schemas /\ schemas[at].refs = {Target(at)}
    BY <1>1, Unfolded, AliasFacts
<1>3. Sound(schemas, root, stack, Len(stack), visited, None, looked \cup {at})
    BY <1>1, <1>2, Unfolded, LookupSound
<1>4. Top.ref \in Names /\ OnCycle(Top.ref)
    <2>1. Top.ref \in Names
        BY <1>1, Unfolded DEF Sound, Shape
    <2>2. Top.ref \in Below(schemas, Top.ref)
        BY <1>1, <1>2, Unfolded, ChainIsOnCycle DEF Sound
    <2> QED BY <2>1, <2>2, CycleIsBelow
<1>5. CircularIsReal'
    BY <1>1, <1>4, CircularGrows
<1>6. TypeOK'
    BY <1>1, <1>4, Unfolded DEF TypeOK
<1> QED BY <1>1, <1>3, <1>5, <1>6 DEF IInv

\* A chain followed keeps the invariant.
LEMMA ChainKeeps ==
    ASSUME IInv, Chain
    PROVE  IInv'
<1>1. /\ at \in Names /\ at # None /\ IsAlias(at)
      /\ at' = Target(at) /\ looked' = looked \cup {at}
      /\ UNCHANGED <<schemas, root, stack, visited, circular>>
    BY Unfolded DEF Chain, Lookup, doc
<1>2. at \in DOMAIN schemas /\ Target(at) \in Names /\ schemas[at].refs = {Target(at)}
    BY <1>1, Unfolded, AliasFacts
<1>3. Sound(schemas, root, stack, Len(stack), visited, Target(at), looked \cup {at})
    BY <1>1, <1>2, Unfolded, ChainSound
<1>4. CircularIsReal'
    BY ONLY IInv, <1>1, CircularKept
<1>5. TypeOK'
    BY <1>1, <1>2, Unfolded DEF TypeOK
<1> QED BY <1>1, <1>3, <1>4, <1>5 DEF IInv

\* IInv holds in every reachable state.
THEOREM Inductive == Spec => []IInv
<1>1. IInv /\ [Next]_vars => IInv'
    <2> SUFFICES ASSUME IInv, [Next]_vars PROVE IInv'
        OBVIOUS
    <2>1. ASSUME NEW ref \in Names, Circular(ref) PROVE IInv'
        BY <2>1, CircularKeeps
    <2>2. ASSUME NEW ref \in Names, Enter(ref) PROVE IInv'
        BY <2>2, EnterKeeps
    <2>3. CASE UNCHANGED vars
        <3>1. IInv' = IInv
            BY <2>3 DEF vars, doc, IInv, TypeOK, CircularIsReal, OnCycle, Known, ReachableFrom,
                Closed, Sound
        <3> QED BY <3>1
    <2> QED BY <2>1, <2>2, <2>3, LeaveKeeps, NotFoundKeeps, FoundKeeps, CycleKeeps, ChainKeeps
        DEF Next
<1> QED BY InitSound, <1>1, PTL DEF Spec

-----------------------------------------------------------------------------
\* What follows from it.

\* The types of the variables.
THEOREM TypeCorrect == Spec => []TypeOK
<1>1. IInv => TypeOK
    BY DEF IInv
<1> QED BY <1>1, Inductive, PTL

\* The recursion expands no reference inside its own expansion, and is no
\* deeper than the document has names.
THEOREM DepthBoundedHolds == Spec => []DepthBounded
<1>1. ASSUME IInv PROVE DepthBounded
    <2> DEFINE k == Len(stack)
    <2>1. k \in Nat /\ k >= 1 /\ Shape(stack, k, at) /\ Distinct(stack, k, visited)
        BY <1>1, Unfolded DEF Sound
    <2> HIDE DEF k
    <2>2. k <= Cardinality(Names) + 1
        <3> DEFINE g == [i \in 2 .. k |-> stack[i].ref]
        <3>1. IsFiniteSet(2 .. k) /\ Cardinality(2 .. k) = k - 1
            BY <2>1, FS_Interval
        <3>2. IsFiniteSet(Names) /\ Cardinality(Names) \in Nat
            BY NamesAssumption, FS_CardinalityType
        <3>3. g \in [2 .. k -> Names]
            BY <2>1 DEF Shape
        <3>4. \A i, j \in 2 .. k : g[i] = g[j] => i = j
            BY <2>1 DEF Distinct
        <3> HIDE DEF g
        <3>5. ASSUME Cardinality(Names) < Cardinality(2 .. k) PROVE FALSE
            <4>1. \E i, j \in 2 .. k : i # j /\ g[i] = g[j]
                BY ONLY <3>1, <3>2, <3>3, <3>5, FS_PigeonHole, Zenon
            <4> QED BY <3>4, <4>1
        <3> QED BY <2>1, <3>1, <3>2, <3>5
    <2> QED BY <2>1, <2>2 DEF Distinct, DepthBounded, k
<1> QED BY <1>1, Inductive, PTL

\* The circular placeholder stands only on a cycle.
THEOREM CircularIsRealHolds == Spec => []CircularIsReal
<1>1. IInv => CircularIsReal
    BY DEF IInv
<1> QED BY <1>1, Inductive, PTL

\* A complete result has looked up exactly what the schema leads to.
THEOREM NothingHiddenHolds == Spec => []NothingHidden
<1>1. ASSUME IInv, Done PROVE looked = ReachableFrom(root)
    <2>1. Len(stack) = 1 /\ at = None /\ stack[1].todo = {}
        BY <1>1 DEF Done, Walking, Top
    <2>2. Sound(schemas, root, stack, 1, visited, None, looked) /\ looked \in SUBSET Names
        BY <1>1, <2>1, Unfolded
    <2>3. Pending(stack, 1, None) = {}
        BY <2>1, NamesAssumption DEF Pending
    <2>4. root \subseteq looked /\ ClosedIn(schemas, looked) /\ looked \subseteq ReachIn(schemas, root)
        BY <2>2, <2>3 DEF Sound, Kept, Within, ClosedIn
    <2>5. looked = ReachIn(schemas, root)
        BY <2>2, <2>4, ReachIsLeast
    <2> QED BY <2>5 DEF ReachIn, ClosedIn, ReachableFrom, Closed
<1>2. IInv => NothingHidden
    BY <1>1 DEF NothingHidden
<1> QED BY <1>2, Inductive, PTL

(***************************************************************************)
(* ToolRegistry.                                                           *)
(***************************************************************************)
IdSet == Seq(Words \cup Nat)

-----------------------------------------------------------------------------
\* deduplicate_id.

\* A set of numbers that is not empty has a least element.
LEMMA LeastNumber ==
    ASSUME NEW T \in SUBSET Nat, T # {}
    PROVE  Least(T) \in T /\ \A m \in T : Least(T) <= m
<1>1. PICK n \in T : \A m \in T : ~(<<m, n>> \in OpToRel(<, Nat))
    BY NatLessThanWellFounded, WFMin
<1>2. \A m \in T : ~(m < n)
    BY <1>1 DEF OpToRel
<1>3. \E k \in T : \A m \in T : k <= m
    BY <1>2
<1> QED BY <1>3 DEF Least

\* Ids that differ in their number differ.
LEMMA SuffixesDiffer ==
    ASSUME NEW base \in IdSet, NEW m \in Nat, NEW n \in Nat,
           Append(base, m) = Append(base, n)
    PROVE  m = n
<1>1. Len(base) \in Nat /\ Append(base, m)[Len(base) + 1] = m /\ Append(base, n)[Len(base) + 1] = n
    BY DEF IdSet
<1> QED BY <1>1

\* Among one number more than there are ids, one gives an id that is free.
LEMMA SomeSuffixFree ==
    ASSUME NEW base \in IdSet, NEW seen, IsFiniteSet(seen)
    PROVE  \E n \in 2 .. Cardinality(seen) + 2 : Append(base, n) \notin seen
<1> SUFFICES ASSUME \A n \in 2 .. Cardinality(seen) + 2 : Append(base, n) \in seen
             PROVE  FALSE
    OBVIOUS
<1> DEFINE c == Cardinality(seen)
           f == [n \in 2 .. c + 2 |-> Append(base, n)]
<1>1. c \in Nat
    BY FS_CardinalityType
<1> HIDE DEF c
<1>2. IsFiniteSet(2 .. c + 2) /\ Cardinality(2 .. c + 2) = c + 1
    BY <1>1, FS_Interval
<1>3. Cardinality(seen) < Cardinality(2 .. c + 2)
    BY <1>1, <1>2 DEF c
<1>4. f \in [2 .. c + 2 -> seen]
    BY DEF c
<1>5. \A m, n \in 2 .. c + 2 : f[m] = f[n] => m = n
    BY <1>1, SuffixesDiffer
<1> HIDE DEF f
<1>6. \E m, n \in 2 .. c + 2 : m # n /\ f[m] = f[n]
    BY ONLY <1>2, <1>3, <1>4, IsFiniteSet(seen), FS_PigeonHole, Zenon
<1> QED BY <1>5, <1>6

\* The id deduplicate_id returns is new.
LEMMA Deduplicated ==
    ASSUME NEW base \in IdSet, NEW seen, IsFiniteSet(seen)
    PROVE  deduplicate_id(base, seen) \in IdSet \ seen
<1> DEFINE free == {n \in 2 .. Cardinality(seen) + 2 : Append(base, n) \notin seen}
           n == Least(free)
<1>1. Cardinality(seen) \in Nat
    BY FS_CardinalityType
<1>2. free # {} /\ free \in SUBSET Nat
    BY <1>1, SomeSuffixFree
<1>3. n \in free
    <2> HIDE DEF free
    <2> QED BY <1>2, LeastNumber
<1>5. n \in Nat /\ Append(base, n) \notin seen
    BY <1>2, <1>3
<1>6. Suffixed(base, seen) = Append(base, n)
    BY DEF Suffixed
<1> HIDE DEF n
<1>7. Append(base, n) \in IdSet
    BY <1>5 DEF IdSet
<1> QED BY <1>5, <1>6, <1>7 DEF deduplicate_id

-----------------------------------------------------------------------------
\* The inductive invariant.

ToolSet ==
    [id : IdSet, method : {"get", "post"}, holes : SUBSET Params,
     accept : Versions \cup {NoVersion},
     properties : SUBSET Params, required : SUBSET Params]

Shaped ==
    /\ document \in Seq(Operations) /\ tools \in Seq(ToolSet)
    /\ Len(document) = Len(tools) /\ Len(tools) <= MaxTools

\* seen_ids is what the tools are called, and no two are called the same.
Fresh ==
    /\ IsFiniteSet(seen_ids)
    /\ seen_ids = {tools[i].id : i \in 1 .. Len(tools)}
    /\ \A i, j \in 1 .. Len(tools) : tools[i].id = tools[j].id => i = j

\* Each tool is its operation's.
Faithful == \A i \in 1 .. Len(tools) : tools[i] = Tool(document[i], tools[i].id)

Called ==
    request # NoRequest =>
        \E i \in 1 .. Len(tools), args \in SUBSET Params : request = Request(i, args)

ToolsInv == Shaped /\ Fresh /\ Faithful /\ Called

-----------------------------------------------------------------------------
\* The invariant is inductive.

\* A sequence and the same with an element appended.
LEMMA Appended ==
    ASSUME NEW S, NEW s \in Seq(S), NEW e \in S
    PROVE  /\ Append(s, e) \in Seq(S)
           /\ Len(s) \in Nat
           /\ Len(Append(s, e)) = Len(s) + 1
           /\ Append(s, e)[Len(s) + 1] = e
           /\ \A i \in 1 .. Len(s) : Append(s, e)[i] = s[i] /\ s[i] \in S
OBVIOUS

\* The place of the first versioned type of a content map.
LEMMA FirstVersionFacts ==
    ASSUME NEW content \in Seq(Types), Versioned(content) # {}
    PROVE  /\ Least(Versioned(content)) \in Versioned(content)
           /\ FirstVersion(content) \in Versions
<1>1. Versioned(content) \in SUBSET Nat
    BY DEF Versioned
<1>2. Least(Versioned(content)) \in Versioned(content)
    BY <1>1, LeastNumber
<1> QED BY <1>2 DEF FirstVersion, Versioned

\* The response that is scanned first, which is a success if any is declared.
LEMMA ScannedFacts ==
    ASSUME NEW op \in Operations, Declaring(op) # {}
    PROVE  /\ Scanned(op) \in Declaring(op)
           /\ \A k \in Declaring(op) :
                  op.responses[k].status \in 200 .. 299
                      => op.responses[Scanned(op)].status \in 200 .. 299
<1> DEFINE ranks == {Rank(op.responses[k]) : k \in Declaring(op)}
           first == {k \in Declaring(op) : Rank(op.responses[k]) = Least(ranks)}
<1>1. Declaring(op) \in SUBSET Nat
    BY RegistryAssumption DEF Declaring
<1>2. \A k \in Declaring(op) : op.responses[k].status \in Nat
    <2>1. op.responses \in Seq(Responses)
        BY RegistryAssumption
    <2>2. \A k \in DOMAIN op.responses : op.responses[k] \in Responses
        BY <2>1
    <2> QED BY <2>2 DEF Declaring, Responses
<1>3. \A k \in Declaring(op) : Rank(op.responses[k]) \in Nat
    BY <1>2 DEF Rank
<1>4. ranks \in SUBSET Nat /\ ranks # {}
    BY <1>3
<1>5. Least(ranks) \in ranks /\ \A m \in ranks : Least(ranks) <= m
    <2> HIDE DEF ranks
    <2> QED BY <1>4, LeastNumber
<1>6. first \in SUBSET Nat /\ first # {}
    BY <1>1, <1>5
<1>7. Least(first) \in first
    <2> HIDE DEF first
    <2> QED BY <1>6, LeastNumber
<1>8. Scanned(op) = Least(first)
    BY DEF Scanned
<1>9. Scanned(op) \in Declaring(op) /\ Rank(op.responses[Scanned(op)]) = Least(ranks)
    BY <1>7, <1>8
<1>10. ASSUME NEW k \in Declaring(op), op.responses[k].status \in 200 .. 299
       PROVE  op.responses[Scanned(op)].status \in 200 .. 299
    <2>1. Rank(op.responses[Scanned(op)]) <= Rank(op.responses[k])
        BY <1>5, <1>9
    <2>2. Rank(op.responses[k]) < 300
        BY <1>10 DEF Rank
    <2> QED BY <1>3, <1>9, <2>1, <2>2 DEF Rank
<1> QED BY <1>9, <1>10

\* The version an operation is asked in, as the document gives it.
LEMMA AcceptFacts ==
    ASSUME NEW op \in Operations
    PROVE  /\ AcceptOf(op) \in Versions \cup {NoVersion}
           /\ Versioned(op.content) # {} =>
                  \E k \in Versioned(op.content) : AcceptOf(op) = op.content[k]
           /\ Versioned(op.content) = {} /\ Declaring(op) # {} =>
                  \E k \in Versioned(op.responses[Scanned(op)].content) :
                      AcceptOf(op) = op.responses[Scanned(op)].content[k]
           /\ Declaring(op) # {} \/ Versioned(op.default) # {} => AcceptOf(op) \in Versions
<1>1. op.content \in Seq(Types) /\ op.default \in Seq(Types) /\ op.responses \in Seq(Responses)
    BY RegistryAssumption
<1>2. CASE Versioned(op.content) # {}
    <2>1. AcceptOf(op) = FirstVersion(op.content)
        BY <1>2 DEF AcceptOf
    <2> QED BY <1>1, <1>2, <2>1, FirstVersionFacts DEF FirstVersion
<1>3. CASE Versioned(op.content) = {} /\ Declaring(op) # {}
    <2> DEFINE content == op.responses[Scanned(op)].content
    <2>1. Scanned(op) \in Declaring(op)
        BY <1>3, ScannedFacts
    <2>2. content \in Seq(Types) /\ Versioned(content) # {}
        <3>1. Scanned(op) \in DOMAIN op.responses /\ Versioned(content) # {}
            BY <2>1 DEF Declaring
        <3>2. op.responses[Scanned(op)] \in Responses
            BY <1>1, <3>1
        <3> QED BY <3>1, <3>2 DEF Responses
    <2>3. AcceptOf(op) = FirstVersion(content)
        BY <1>3 DEF AcceptOf
    <2> HIDE DEF content
    <2>4. AcceptOf(op) \in Versions /\ \E k \in Versioned(content) : AcceptOf(op) = content[k]
        BY <2>2, <2>3, FirstVersionFacts DEF FirstVersion
    <2> QED BY <1>3, <2>4 DEF content
<1>4. CASE Versioned(op.content) = {} /\ Declaring(op) = {} /\ Versioned(op.default) # {}
    <2>1. AcceptOf(op) = FirstVersion(op.default)
        BY <1>4 DEF AcceptOf
    <2> QED BY <1>1, <1>4, <2>1, FirstVersionFacts
<1>5. CASE Versioned(op.content) = {} /\ Declaring(op) = {} /\ Versioned(op.default) = {}
    BY <1>5 DEF AcceptOf
<1> QED BY <1>2, <1>3, <1>4, <1>5

\* A tool has the fields of a tool, and lists every parameter it requires.
LEMMA ToolFacts ==
    ASSUME NEW op \in Operations, NEW id \in IdSet
    PROVE  /\ Tool(op, id) \in ToolSet /\ Tool(op, id).id = id
           /\ Tool(op, id).method = op.method /\ Tool(op, id).holes = op.holes
           /\ Tool(op, id).accept = AcceptOf(op)
           /\ Tool(op, id).properties = Properties(op) /\ Tool(op, id).required = Required(op)
           /\ Required(op) \subseteq Properties(op) /\ Properties(op) \subseteq Params
<1>1. /\ op.holes \subseteq Params /\ op.params \subseteq Declarations
      /\ op.method \in {"get", "post"} /\ op.body \in BodyKinds /\ "body" \in Params
    BY RegistryAssumption
<1>2. NamesOf(Listed(op)) \subseteq Params
    BY <1>1 DEF NamesOf, Listed, Declarations
<1>3. Properties(op) \subseteq Params
    BY <1>1, <1>2 DEF Properties
<1>4. Required(op) \subseteq Properties(op)
    BY DEF Required, Properties, NamesOf
<1>5. AcceptOf(op) \in Versions \cup {NoVersion}
    BY AcceptFacts
<1> QED BY <1>1, <1>3, <1>4, <1>5 DEF Tool, ToolSet

\* An empty registry satisfies it.
LEMMA InitFresh == ToolsInit => ToolsInv
<1> SUFFICES ASSUME ToolsInit PROVE ToolsInv
    OBVIOUS
<1>1. document = << >> /\ tools = << >> /\ seen_ids = {} /\ request = NoRequest
    BY DEF ToolsInit
<1>2. MaxTools \in Nat
    BY RegistryAssumption
<1>3. Shaped /\ Faithful /\ Called
    BY <1>1, <1>2 DEF Shaped, Faithful, Called
<1>4. Fresh
    BY <1>1, FS_EmptySet DEF Fresh
<1> QED BY <1>3, <1>4 DEF ToolsInv

\* Building a tool keeps the invariant: its name is new.
LEMMA BuildKeeps ==
    ASSUME ToolsInv, NEW op \in Operations, Build(op)
    PROVE  ToolsInv'
<1> DEFINE id == deduplicate_id(op.base, seen_ids)
           tool == Tool(op, id)
           n == Len(tools)
<1>1. /\ request = NoRequest /\ n < MaxTools /\ seen_ids' = seen_ids \cup {id}
      /\ tools' = Append(tools, tool) /\ document' = Append(document, op)
      /\ request' = NoRequest
    BY DEF Build
<1>2. op.base \in IdSet /\ MaxTools \in Nat
    BY RegistryAssumption DEF IdSet
<1>3. id \in IdSet /\ id \notin seen_ids
    BY <1>2, Deduplicated DEF ToolsInv, Fresh
<1> HIDE DEF id
<1>4. tool \in ToolSet /\ tool.id = id
    BY <1>3, ToolFacts
<1>5. tool = Tool(op, id)
    OBVIOUS
<1> HIDE DEF tool
<1>6. /\ tools' \in Seq(ToolSet) /\ n \in Nat /\ Len(tools') = n + 1 /\ tools'[n + 1] = tool
      /\ \A i \in 1 .. n : tools'[i] = tools[i]
    BY <1>1, <1>4, Appended DEF ToolsInv, Shaped
<1>7. /\ document' \in Seq(Operations) /\ Len(document') = n + 1 /\ document'[n + 1] = op
      /\ \A i \in 1 .. n : document'[i] = document[i]
    BY <1>1, Appended DEF ToolsInv, Shaped
<1>8. /\ \A i \in 1 .. n : tools[i].id \in seen_ids
      /\ seen_ids = {tools[i].id : i \in 1 .. n} /\ IsFiniteSet(seen_ids)
      /\ \A i, j \in 1 .. n : tools[i].id = tools[j].id => i = j
      /\ \A i \in 1 .. n : tools[i] = Tool(document[i], tools[i].id)
    BY DEF ToolsInv, Fresh, Faithful
<1> HIDE DEF n
<1>9. Shaped'
    BY <1>1, <1>2, <1>6, <1>7 DEF Shaped
<1>10. Fresh'
    <2>1. IsFiniteSet(seen_ids')
        BY <1>1, <1>8, FS_AddElement
    <2>2. seen_ids' = {tools'[i].id : i \in 1 .. n + 1}
        BY <1>1, <1>4, <1>6, <1>8
    <2>3. \A i, j \in 1 .. n + 1 : tools'[i].id = tools'[j].id => i = j
        BY <1>3, <1>4, <1>6, <1>8
    <2> QED BY <1>6, <2>1, <2>2, <2>3 DEF Fresh
<1>11. Faithful'
    <2>1. ASSUME NEW i \in 1 .. n + 1
          PROVE  tools'[i] = Tool(document'[i], tools'[i].id)
        <3>1. CASE i = n + 1
            BY <1>4, <1>5, <1>6, <1>7, <3>1
        <3>2. CASE i \in 1 .. n
            BY <1>6, <1>7, <1>8, <3>2
        <3> QED BY <1>6, <3>1, <3>2
    <2>2. \A i \in 1 .. n + 1 : tools'[i] = Tool(document'[i], tools'[i].id)
        BY <2>1
    <2> QED BY <1>6, <2>2 DEF Faithful, Tool
<1>12. Called'
    BY <1>1 DEF Called
<1> QED BY <1>9, <1>10, <1>11, <1>12 DEF ToolsInv

\* So does a call, which leaves the registry alone.
LEMMA CallKeeps ==
    ASSUME ToolsInv, NEW id, NEW args \in SUBSET Params, Call(id, args)
    PROVE  ToolsInv'
<1>1. UNCHANGED <<document, tools, seen_ids>> /\ request' = Request(First(id), args)
    BY DEF Call
<1>2. tools \in Seq(ToolSet) /\ Named(id) # {}
    BY DEF Call, ToolsInv, Shaped
<1>3. First(id) \in 1 .. Len(tools)
    <2>1. Named(id) \in SUBSET Nat /\ Named(id) \subseteq 1 .. Len(tools)
        BY <1>2 DEF Named
    <2>2. Least(Named(id)) \in Named(id)
        BY <1>2, <2>1, LeastNumber
    <2> QED BY <2>1, <2>2 DEF First
<1>4. Called'
    BY <1>1, <1>3 DEF Called, Request, ContentType
<1>5. Shaped' /\ Fresh' /\ Faithful'
    BY <1>1 DEF ToolsInv, Shaped, Fresh, Faithful
<1> QED BY <1>4, <1>5 DEF ToolsInv

\* ToolsInv holds in every reachable state.
THEOREM ToolsInductive == ToolsSpec => []ToolsInv
<1>1. ToolsInv /\ [ToolsNext]_toolVars => ToolsInv'
    <2> SUFFICES ASSUME ToolsInv, [ToolsNext]_toolVars PROVE ToolsInv'
        OBVIOUS
    <2>1. CASE UNCHANGED toolVars
        BY <2>1 DEF toolVars, ToolsInv, Shaped, Fresh, Faithful, Called, Request
    <2> QED BY <2>1, BuildKeeps, CallKeeps DEF ToolsNext
<1> QED BY InitFresh, <1>1, PTL DEF ToolsSpec

-----------------------------------------------------------------------------
\* What follows from it.

\* A call's request, from the tool it is for.
LEMMA RequestFacts ==
    ASSUME ToolsInv, request # NoRequest
    PROVE  \E i \in 1 .. Len(tools), args \in SUBSET Params :
               /\ request = Request(i, args)
               /\ request.tool = i /\ request.arguments = args
               /\ request.path = tools[i].holes \cap args
               /\ request.payload = Payload(tools[i], args \ (tools[i].holes \cap args))
               /\ document[i] \in Operations
               /\ tools[i].method = document[i].method /\ tools[i].holes = document[i].holes
               /\ tools[i].required = Required(document[i])
               /\ request.accept = AcceptOf(document[i])
               /\ request.content_type \in {NoVersion, request.accept}
<1>1. PICK i \in 1 .. Len(tools), args \in SUBSET Params : request = Request(i, args)
    BY DEF ToolsInv, Called
<1>2. /\ request.tool = i /\ request.arguments = args
      /\ request.path = tools[i].holes \cap args
      /\ request.payload = Payload(tools[i], args \ (tools[i].holes \cap args))
      /\ request.accept = tools[i].accept
      /\ request.content_type = ContentType(tools[i])
    BY <1>1 DEF Request
<1>3. tools[i] \in ToolSet /\ document[i] \in Operations
    BY DEF ToolsInv, Shaped
<1>4. tools[i] = Tool(document[i], tools[i].id) /\ tools[i].id \in IdSet
    BY <1>3 DEF ToolsInv, Faithful, ToolSet
<1>5. /\ tools[i].method = document[i].method /\ tools[i].holes = document[i].holes
      /\ tools[i].required = Required(document[i])
      /\ tools[i].accept = AcceptOf(document[i])
    BY <1>3, <1>4, ToolFacts
<1>6. request.content_type \in {NoVersion, request.accept}
    BY <1>2 DEF ContentType
<1> QED BY <1>1, <1>2, <1>3, <1>5, <1>6

\* The name of every listed tool finds that tool.
THEOREM NamesResolveHolds == ToolsSpec => []NamesResolve
<1>1. ASSUME ToolsInv, NEW i \in DOMAIN tools PROVE First(tools[i].id) = i
    <2>1. tools \in Seq(ToolSet) /\ i \in 1 .. Len(tools) /\ Len(tools) \in Nat
        BY <1>1 DEF ToolsInv, Shaped
    <2>2. Named(tools[i].id) = {i}
        BY <1>1, <2>1 DEF Named, ToolsInv, Fresh
    <2>3. Least(Named(tools[i].id)) \in Named(tools[i].id)
        BY <2>1, <2>2, LeastNumber
    <2> QED BY <2>2, <2>3 DEF First
<1>2. ToolsInv => NamesResolve
    BY <1>1 DEF NamesResolve
<1> QED BY <1>2, ToolsInductive, PTL

\* A call that keeps to the schema fills the path.
THEOREM PathFilledHolds == ToolsSpec => []PathFilled
<1>1. ASSUME ToolsInv, request # NoRequest, Obedient(tools[request.tool], request.arguments),
             NEW p \in Listed(document[request.tool]),
             p.in = "path", p.name \in document[request.tool].holes
      PROVE  p.name \in request.path
    <2>1. PICK i \in 1 .. Len(tools), args \in SUBSET Params :
               /\ request.tool = i /\ request.arguments = args
               /\ request.path = tools[i].holes \cap args
               /\ tools[i].holes = document[i].holes
               /\ tools[i].required = Required(document[i])
        BY <1>1, RequestFacts
    <2>2. p.name \in Required(document[i])
        BY <1>1, <2>1 DEF Required, NamesOf, IsRequired
    <2> QED BY <1>1, <2>1, <2>2 DEF Obedient
<1>2. ToolsInv => PathFilled
    BY <1>1 DEF PathFilled
<1> QED BY <1>2, ToolsInductive, PTL

\* No argument is sent twice, and none is lost except beside a body.
THEOREM ArgumentsArriveHolds == ToolsSpec => []ArgumentsArrive
<1>1. ASSUME ToolsInv, request # NoRequest
      PROVE  /\ request.path \cap request.payload.arguments = {}
             /\ request.payload.kind # "body" =>
                    request.path \cup request.payload.arguments = request.arguments
             /\ ReadOnly(tools[request.tool]) <=> request.payload.kind = "query"
    <2>1. PICK i \in 1 .. Len(tools), args \in SUBSET Params :
               /\ request.tool = i /\ request.arguments = args
               /\ request.path = tools[i].holes \cap args
               /\ request.payload = Payload(tools[i], args \ (tools[i].holes \cap args))
        BY <1>1, RequestFacts
    <2> DEFINE rest == args \ (tools[i].holes \cap args)
    <2>2. request.path \cap rest = {} /\ request.path \cup rest = request.arguments
        BY <2>1
    <2>3. CASE tools[i].method = "get"
        <3>1. request.payload = [kind |-> "query", arguments |-> rest]
            BY <2>1, <2>3 DEF Payload
        <3>2. request.payload.kind = "query" /\ request.payload.arguments = rest
            BY <3>1
        <3> QED BY <2>1, <2>2, <2>3, <3>2 DEF ReadOnly
    <2>4. CASE tools[i].method # "get" /\ "body" \in rest
        <3>1. request.payload = [kind |-> "body", arguments |-> {"body"}]
            BY <2>1, <2>4 DEF Payload
        <3>2. request.payload.kind = "body" /\ request.payload.arguments = {"body"}
            BY <3>1
        <3>3. request.path \cap {"body"} = {}
            BY <2>2, <2>4
        <3>4. ~ReadOnly(tools[request.tool])
            BY <2>1, <2>4 DEF ReadOnly
        <3> QED BY <3>2, <3>3, <3>4
    <2>5. CASE tools[i].method # "get" /\ "body" \notin rest
        <3>1. request.payload = [kind |-> "json", arguments |-> rest]
            BY <2>1, <2>5 DEF Payload
        <3>2. request.payload.kind = "json" /\ request.payload.arguments = rest
            BY <3>1
        <3> QED BY <2>1, <2>2, <2>5, <3>2 DEF ReadOnly
    <2> QED BY <2>3, <2>4, <2>5
<1>2. ToolsInv /\ PathFilled => ArgumentsArrive
    BY <1>1 DEF ArgumentsArrive
<1> QED BY <1>2, PathFilledHolds, ToolsInductive, PTL

\* A request is of a version its operation declares, and the right one.
THEOREM VersionFitsHolds == ToolsSpec => []VersionFits
<1>1. ASSUME ToolsInv, request # NoRequest PROVE VersionFits
    <2>1. PICK i \in 1 .. Len(tools) :
               /\ request.tool = i /\ document[i] \in Operations
               /\ request.accept = AcceptOf(document[i])
               /\ request.content_type \in {NoVersion, request.accept}
        BY <1>1, RequestFacts
    <2> DEFINE op == document[i]
               successes == {k \in Declaring(op) : op.responses[k].status \in 200 .. 299}
    <2>2. Versioned(op.content) # {} =>
              \E k \in Versioned(op.content) : request.accept = op.content[k]
        BY <2>1, AcceptFacts
    <2>3. ASSUME Versioned(op.content) = {}, successes # {}
          PROVE  \E k \in successes : \E l \in Versioned(op.responses[k].content) :
                     request.accept = op.responses[k].content[l]
        <3>1. Scanned(op) \in successes
            BY <2>1, <2>3, ScannedFacts
        <3>2. \E l \in Versioned(op.responses[Scanned(op)].content) :
                  request.accept = op.responses[Scanned(op)].content[l]
            BY <2>1, <2>3, AcceptFacts
        <3> QED BY <3>1, <3>2
    <2>4. Declaring(op) # {} \/ Versioned(op.default) # {} => request.accept \in Versions
        BY <2>1, AcceptFacts
    <2> QED BY <2>1, <2>2, <2>3, <2>4 DEF VersionFits
<1>2. ToolsInv => VersionFits
    BY <1>1 DEF VersionFits
<1> QED BY <1>2, ToolsInductive, PTL
=============================================================================
