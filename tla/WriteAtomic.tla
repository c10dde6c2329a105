----------------------------- MODULE WriteAtomic -----------------------------
(***************************************************************************)
(* The token file's atomic write: write_atomic() in                        *)
(* src/auth/token_store.rs, run by processes that share a directory.       *)
(*                                                                         *)
(* The directory maps names to files (inodes): the destination, and one    *)
(* temporary name per process id.  A file written through an open handle   *)
(* may have lost its name to another process meanwhile.  A process may be  *)
(* killed between two system calls, any of which may fail.                 *)
(***************************************************************************)
EXTENDS Naturals, FiniteSets

CONSTANTS
    Procs,   \* processes
    Pids,    \* process ids
    PidOf,   \* the id of each process, which containers need not keep apart
    Values,  \* contents
    Files,   \* inodes
    None

ASSUME WriteAssumption ==
    /\ PidOf \in [Procs -> Pids]
    /\ None \notin Values \cup Files

VARIABLES
    path,     \* the file at the destination
    tmp,      \* the file at each temporary name
    content,  \* of each file; None while it is not written completely
    writer,   \* each process's call of write_atomic
    failures  \* history: calls in a row that failed with no failing system call

vars == <<path, tmp, content, writer, failures>>

NotWriting == [at |-> "idle", value |-> None, file |-> None]

MaxFailures == 3

TypeOK ==
    /\ path \in Files \cup {None}
    /\ tmp \in [Pids -> Files \cup {None}]
    /\ content \in [Files -> Values \cup {None}]
    /\ writer \in [Procs -> [at : {"idle", "open", "fill", "rename", "cleanup"},
                             value : Values \cup {None}, file : Files \cup {None}]]
    /\ failures \in [Procs -> 0 .. MaxFailures]

\* There may be a token file, and a temporary file of a killed process.
Init ==
    /\ content \in [Files -> Values \cup {None}]
    /\ path \in {f \in Files : content[f] # None} \cup {None}
    /\ tmp \in [Pids -> Files \cup {None}]
    /\ \A i \in Pids : tmp[i] # None => tmp[i] # path /\ \A j \in Pids \ {i} : tmp[j] # tmp[i]
    /\ writer = [p \in Procs |-> NotWriting]
    /\ failures = [p \in Procs |-> 0]

At(p, label) == writer[p].at = label

\* Mutant of TmpName: one temporary name for all processes.
SharedName(p) == CHOOSE i \in Pids : TRUE

TmpName(p) == PidOf[p]

Write(p, v) ==
    /\ At(p, "idle")
    /\ writer' = [writer EXCEPT ![p] = [at |-> "open", value |-> v, file |-> None]]
    /\ UNCHANGED <<path, tmp, content, failures>>

\* A file that no name and no handle refers to.
Unused(f) ==
    /\ f # path
    /\ \A i \in Pids : tmp[i] # f
    /\ \A p \in Procs : writer[p].file # f

\* create_new: the name must be free.
Open(p, f) ==
    /\ At(p, "open")
    /\ tmp[TmpName(p)] = None
    /\ Unused(f)
    /\ tmp' = [tmp EXCEPT ![TmpName(p)] = f]
    /\ content' = [content EXCEPT ![f] = None]
    /\ writer' = [writer EXCEPT ![p].at = "fill", ![p].file = f]
    /\ UNCHANGED <<path, failures>>

NameTaken(p) ==
    /\ At(p, "open")
    /\ tmp[TmpName(p)] # None
    /\ writer' = [writer EXCEPT ![p].at = "cleanup"]
    /\ failures' = [failures EXCEPT ![p] = IF @ < MaxFailures THEN @ + 1 ELSE @]
    /\ UNCHANGED <<path, tmp, content>>

\* Mutant of Fill: the rename does not wait for the contents.
FillNothing(p) ==
    /\ At(p, "fill")
    /\ writer' = [writer EXCEPT ![p].at = "rename"]
    /\ UNCHANGED <<path, tmp, content, failures>>

\* write_all and sync_all.
Fill(p) ==
    /\ At(p, "fill")
    /\ content' = [content EXCEPT ![writer[p].file] = writer[p].value]
    /\ writer' = [writer EXCEPT ![p].at = "rename"]
    /\ UNCHANGED <<path, tmp, failures>>

\* rename moves whatever file the temporary name refers to by now, if any.
Rename(p) ==
    /\ At(p, "rename")
    /\ IF tmp[TmpName(p)] = None
       THEN /\ writer' = [writer EXCEPT ![p].at = "cleanup"]
            /\ failures' = [failures EXCEPT ![p] = IF @ < MaxFailures THEN @ + 1 ELSE @]
            /\ UNCHANGED <<path, tmp>>
       ELSE /\ path' = tmp[TmpName(p)]
            /\ tmp' = [tmp EXCEPT ![TmpName(p)] = None]
            /\ writer' = [writer EXCEPT ![p] = NotWriting]
            /\ failures' = [failures EXCEPT ![p] = 0]
    /\ UNCHANGED content

\* A system call fails.
IoFails(p) ==
    /\ At(p, "open") \/ At(p, "fill") \/ At(p, "rename")
    /\ writer' = [writer EXCEPT ![p].at = "cleanup"]
    /\ failures' = [failures EXCEPT ![p] = 0]
    /\ UNCHANGED <<path, tmp, content>>

\* Mutant of Cleanup: the temporary file stays.
CleanupNothing(p) ==
    /\ At(p, "cleanup")
    /\ writer' = [writer EXCEPT ![p] = NotWriting]
    /\ UNCHANGED <<path, tmp, content, failures>>

\* remove_file, then the error is returned.
Cleanup(p) ==
    /\ At(p, "cleanup")
    /\ tmp' = [tmp EXCEPT ![TmpName(p)] = None]
    /\ writer' = [writer EXCEPT ![p] = NotWriting]
    /\ UNCHANGED <<path, content, failures>>

\* A failure of remove_file itself is ignored.
CleanupFails(p) ==
    /\ At(p, "cleanup")
    /\ writer' = [writer EXCEPT ![p] = NotWriting]
    /\ failures' = [failures EXCEPT ![p] = 0]
    /\ UNCHANGED <<path, tmp, content>>

\* The process is killed, and a new one takes its place under the same id.
Kill(p) ==
    /\ ~At(p, "idle")
    /\ writer' = [writer EXCEPT ![p] = NotWriting]
    /\ failures' = [failures EXCEPT ![p] = 0]
    /\ UNCHANGED <<path, tmp, content>>

Call(p) ==
    \/ \E v \in Values : Write(p, v)
    \/ \E f \in Files : Open(p, f)
    \/ NameTaken(p) \/ Fill(p) \/ Rename(p) \/ IoFails(p)
    \/ Cleanup(p) \/ CleanupFails(p)

Next == \E p \in Procs : Call(p) \/ Kill(p)

Spec == Init /\ [][Next]_vars

(***************************************************************************)
(* Properties.                                                             *)
(***************************************************************************)
DistinctPids == \A p, q \in Procs : PidOf[p] = PidOf[q] => p = q

\* write_atomic: what is at the destination is always one whole value.
NeverTorn == path # None => content[path] # None

\* write_atomic: once there is a token file, no reader ever finds it missing,
\* even when processes get in each other's way.
FileNeverVanishes == [][path # None => path' # None]_vars

\* A temporary file that a killed process left behind fails one write and is
\* cleaned up by it: no process is kept from saving for good.
StaleFileFailsOnce == \A p \in Procs : failures[p] <= 1

\* Processes with ids of their own get an atomic register.
Register == INSTANCE AtomicRegister
            WITH value <- IF path = None THEN None ELSE content[path],
                 op    <- [p \in Procs |-> IF writer[p].at = "cleanup" THEN None
                                           ELSE writer[p].value]

ImplementsRegister == Register!RegSpec
=============================================================================
