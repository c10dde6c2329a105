--------------------------- MODULE AtomicRegister ---------------------------
(***************************************************************************)
(* What write_atomic() promises: a file that holds nothing or one whole    *)
(* value, which a write replaces in one step or not at all.                *)
(***************************************************************************)
CONSTANTS Procs, Values, None

VARIABLES
    value,  \* what a reader of the file finds
    op      \* the value each process is writing, or None

rvars == <<value, op>>

RegInit == value \in Values \cup {None} /\ op = [p \in Procs |-> None]

Begin(p) == /\ op[p] = None
            /\ \E v \in Values : op' = [op EXCEPT ![p] = v]
            /\ UNCHANGED value

\* A write takes effect, or fails without a trace, or dies with its process.
Put(p)  == /\ op[p] # None
           /\ value' = op[p]
           /\ op' = [op EXCEPT ![p] = None]

Fail(p) == /\ op[p] # None
           /\ op' = [op EXCEPT ![p] = None]
           /\ UNCHANGED value

RegNext == \E p \in Procs : Begin(p) \/ Put(p) \/ Fail(p)

RegSpec == RegInit /\ [][RegNext]_rvars
=============================================================================
