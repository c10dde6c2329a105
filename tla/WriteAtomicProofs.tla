-------------------------- MODULE WriteAtomicProofs --------------------------
(* Theorems about WriteAtomic, for every directory and set of processes     *)
(* with ids of their own.                                                   *)
EXTENDS WriteAtomic, TLAPS

(***************************************************************************)
(* The inductive invariant.                                                *)
(***************************************************************************)
\* A name refers to a file no other name refers to.
NamesApart ==
    \A i \in Pids : tmp[i] # None => /\ tmp[i] # path
                                     /\ \A j \in Pids : tmp[j] = tmp[i] => i = j

\* A process that writes has its file under its name, complete before the rename.
OwnFile ==
    \A p \in Procs :
        /\ writer[p].at \in {"fill", "rename"} =>
               /\ writer[p].file # None
               /\ tmp[TmpName(p)] = writer[p].file
        /\ writer[p].at = "rename" => content[writer[p].file] = writer[p].value
        /\ writer[p].at # "idle" => writer[p].value # None
        /\ writer[p].at = "idle" => writer[p].value = None

IInv == TypeOK /\ NamesApart /\ OwnFile /\ NeverTorn

Calls == [at : {"idle", "open", "fill", "rename", "cleanup"},
          value : Values \cup {None}, file : Files \cup {None}]

\* The invariant holds before any write.
LEMMA InitIInv == Init => IInv
<1> SUFFICES ASSUME Init PROVE IInv
  OBVIOUS
<1>1. NotWriting \in Calls
  BY DEF NotWriting, Calls
<1>2. writer \in [Procs -> Calls]
  BY <1>1 DEF Init
<1>3. failures \in [Procs -> 0 .. MaxFailures]
  BY DEF Init, MaxFailures
<1>4. TypeOK
  BY <1>2, <1>3 DEF Init, TypeOK, Calls
<1>5. NamesApart
  BY DEF Init, NamesApart
<1>6. OwnFile
  BY DEF Init, OwnFile, NotWriting
<1>7. NeverTorn
  BY DEF Init, NeverTorn
<1> QED
  BY <1>4, <1>5, <1>6, <1>7 DEF IInv

\* What the steps have in common.
LEMMA Facts ==
  ASSUME TypeOK
  PROVE  /\ writer \in [Procs -> Calls]
         /\ \A p \in Procs : /\ writer[p] \in Calls
                             /\ TmpName(p) \in Pids
                             /\ writer[p].value \in Values \cup {None}
                             /\ writer[p].file \in Files \cup {None}
         /\ NotWriting \in Calls
<1>1. writer \in [Procs -> Calls] /\ NotWriting \in Calls
  BY DEF TypeOK, Calls, NotWriting
<1> QED
  BY <1>1, WriteAssumption DEF Calls, TmpName

\* With ids of their own, no process finds its temporary name gone.
LEMMA RenameMoves ==
  ASSUME IInv, NEW p \in Procs, Rename(p)
  PROVE  /\ tmp[TmpName(p)] # None
         /\ path' = tmp[TmpName(p)]
         /\ tmp' = [tmp EXCEPT ![TmpName(p)] = None]
         /\ writer' = [writer EXCEPT ![p] = NotWriting]
         /\ failures' = [failures EXCEPT ![p] = 0]
         /\ UNCHANGED content
         /\ At(p, "rename")
<1>1. tmp[TmpName(p)] # None
  BY DEF Rename, At, IInv, OwnFile
<1> QED
  BY <1>1 DEF Rename

\* Two processes' temporary names differ.
LEMMA NamesDiffer ==
  ASSUME DistinctPids, NEW p \in Procs, NEW q \in Procs, p # q
  PROVE  TmpName(p) # TmpName(q)
  BY DEF DistinctPids, TmpName

\* A call's bookkeeping: the type of failures, and of a call moved on.
LEMMA FailuresType ==
  ASSUME TypeOK, NEW p \in Procs, NEW n \in 0 .. MaxFailures,
         failures' \in {failures, [failures EXCEPT ![p] = n]}
  PROVE  failures' \in [Procs -> 0 .. MaxFailures]
  BY DEF TypeOK

\* A writer that moves on keeps its value and its file.
LEMMA MovedType ==
  ASSUME TypeOK, NEW p \in Procs, NEW label \in {"fill", "rename", "cleanup"},
         writer' = [writer EXCEPT ![p].at = label]
  PROVE  /\ writer' \in [Procs -> Calls]
         /\ writer'[p].at = label /\ writer'[p].value = writer[p].value
         /\ writer'[p].file = writer[p].file
         /\ \A q \in Procs : q # p => writer'[q] = writer[q]
<1>1. writer \in [Procs -> Calls] /\ writer[p] \in Calls
  BY Facts
<1>2. writer' = [writer EXCEPT ![p] = [writer[p] EXCEPT !.at = label]]
  BY <1>1
<1>3. [writer[p] EXCEPT !.at = label] \in Calls
  BY <1>1 DEF Calls
<1>4. /\ [writer[p] EXCEPT !.at = label].at = label
      /\ [writer[p] EXCEPT !.at = label].value = writer[p].value
      /\ [writer[p] EXCEPT !.at = label].file = writer[p].file
  BY <1>1 DEF Calls
<1> QED
  BY <1>1, <1>2, <1>3, <1>4

\* A writer that is finished leaves the others alone.
LEMMA ResetType ==
  ASSUME TypeOK, NEW p \in Procs, writer' = [writer EXCEPT ![p] = NotWriting]
  PROVE  /\ writer' \in [Procs -> Calls] /\ writer'[p] = NotWriting
         /\ \A q \in Procs : q # p => writer'[q] = writer[q]
  BY Facts

\* A step that touches no name and no file keeps the invariant.
LEMMA SameTmp ==
  ASSUME IInv, NEW p \in Procs, UNCHANGED <<path, tmp, content>>,
         writer' \in [Procs -> Calls], failures' \in [Procs -> 0 .. MaxFailures],
         \A q \in Procs : q # p => writer'[q] = writer[q],
         \/ writer'[p] = NotWriting
         \/ /\ writer'[p].at \in {"open", "cleanup"}
            /\ writer'[p].value \in Values
  PROVE  IInv'
<1>1. TypeOK'
  BY DEF IInv, TypeOK, Calls
<1>2. NamesApart' /\ NeverTorn'
  BY DEF IInv, NamesApart, NeverTorn
<1>3. OwnFile'
  BY WriteAssumption DEF IInv, OwnFile, NotWriting, TmpName
<1> QED
  BY <1>1, <1>2, <1>3 DEF IInv

\* With process ids of their own, every step keeps the invariant.
LEMMA NextKeepsIInv == DistinctPids /\ IInv /\ [Next]_vars => IInv'
<1> SUFFICES ASSUME DistinctPids, IInv, [Next]_vars PROVE IInv'
  OBVIOUS
<1>t. TypeOK
  BY DEF IInv
<1>1. ASSUME NEW p \in Procs, NEW v \in Values, Write(p, v) PROVE IInv'
  <2> DEFINE new == [at |-> "open", value |-> v, file |-> None]
  <2>1. new \in Calls /\ new.at = "open" /\ new.value = v
    BY DEF Calls
  <2>2. writer' = [writer EXCEPT ![p] = new] /\ UNCHANGED <<path, tmp, content, failures>>
    BY <1>1 DEF Write
  <2>3. writer' \in [Procs -> Calls] /\ writer'[p] = new
        /\ \A q \in Procs : q # p => writer'[q] = writer[q]
    BY <2>1, <2>2, <1>t, Facts
  <2>4. failures' \in [Procs -> 0 .. MaxFailures]
    BY <2>2, <1>t DEF TypeOK
  <2> QED
    BY <2>1, <2>2, <2>3, <2>4, SameTmp
<1>2. ASSUME NEW p \in Procs, NameTaken(p) \/ IoFails(p) PROVE IInv'
  <2>1. writer' = [writer EXCEPT ![p].at = "cleanup"] /\ UNCHANGED <<path, tmp, content>>
        /\ writer[p].at # "idle"
    BY <1>2 DEF NameTaken, IoFails, At
  <2>2. failures' \in [Procs -> 0 .. MaxFailures]
    BY <1>2, <1>t DEF NameTaken, IoFails, TypeOK, MaxFailures
  <2>3. writer[p].value \in Values
    BY <2>1, <1>t, Facts DEF IInv, OwnFile
  <2> QED
    BY <2>1, <2>2, <2>3, <1>t, MovedType, SameTmp
<1>3. ASSUME NEW p \in Procs, CleanupFails(p) \/ Kill(p) PROVE IInv'
  <2>1. writer' = [writer EXCEPT ![p] = NotWriting] /\ UNCHANGED <<path, tmp, content>>
    BY <1>3 DEF CleanupFails, Kill
  <2>2. failures' \in [Procs -> 0 .. MaxFailures]
    BY <1>3, <1>t DEF CleanupFails, Kill, TypeOK, MaxFailures
  <2> QED
    BY <2>1, <2>2, <1>t, ResetType, SameTmp
<1>4. ASSUME NEW p \in Procs, NEW f \in Files, Open(p, f) PROVE IInv'
  <2> DEFINE n == TmpName(p)
  <2>1. /\ tmp[n] = None /\ n \in Pids /\ Unused(f) /\ f # None
        /\ tmp' = [tmp EXCEPT ![n] = f] /\ tmp \in [Pids -> Files \cup {None}]
        /\ content' = [content EXCEPT ![f] = None]
        /\ content \in [Files -> Values \cup {None}]
        /\ UNCHANGED <<path, failures>>
    BY <1>4, <1>t, Facts, WriteAssumption DEF Open, TypeOK
  <2>2. /\ tmp' \in [Pids -> Files \cup {None}] /\ tmp'[n] = f
        /\ \A i \in Pids : i # n => tmp'[i] = tmp[i]
        /\ content' \in [Files -> Values \cup {None}]
        /\ \A g \in Files : g # f => content'[g] = content[g]
    BY <2>1
  <2>3. /\ writer' \in [Procs -> Calls]
        /\ writer'[p].at = "fill" /\ writer'[p].value = writer[p].value
        /\ writer'[p].file = f
        /\ \A q \in Procs : q # p => writer'[q] = writer[q]
    <3> DEFINE new == [writer[p] EXCEPT !.at = "fill", !.file = f]
    <3>1. writer[p] \in Calls /\ writer \in [Procs -> Calls]
      BY <1>t, Facts
    <3>2. writer' = [writer EXCEPT ![p] = new]
      BY <1>4, <3>1 DEF Open
    <3>3. new \in Calls /\ new.at = "fill" /\ new.value = writer[p].value /\ new.file = f
      BY <3>1 DEF Calls
    <3> HIDE DEF new
    <3> QED
      BY <3>1, <3>2, <3>3
  <2>4. TypeOK'
    BY <2>1, <2>2, <2>3, <1>t DEF TypeOK, Calls
  <2>5. NamesApart'
    BY <2>1, <2>2 DEF IInv, NamesApart, Unused
  <2>6. writer[p].value # None /\ writer[p].at = "open"
    BY <1>4 DEF Open, At, IInv, OwnFile
  <2>7. OwnFile'
    <3> SUFFICES ASSUME NEW q \in Procs
                 PROVE  /\ writer'[q].at \in {"fill", "rename"} =>
                               writer'[q].file # None /\ tmp'[TmpName(q)] = writer'[q].file
                        /\ writer'[q].at = "rename" =>
                               content'[writer'[q].file] = writer'[q].value
                        /\ writer'[q].at # "idle" => writer'[q].value # None
                        /\ writer'[q].at = "idle" => writer'[q].value = None
      BY DEF OwnFile, TmpName
    <3>1. CASE q = p
      BY <3>1, <2>1, <2>2, <2>3, <2>6
    <3>2. CASE q # p
      <4>1. writer'[q] = writer[q] /\ TmpName(q) # n /\ TmpName(q) \in Pids
        BY <3>2, <2>3, NamesDiffer, <1>t, Facts
      <4>2. writer[q].file # f /\ writer[q].file \in Files \cup {None}
        BY <2>1, <1>t, Facts DEF Unused
      <4> QED
        BY <4>1, <4>2, <2>2 DEF IInv, OwnFile
    <3> QED
      BY <3>1, <3>2
  <2>8. NeverTorn'
    BY <2>1, <2>2, <1>t DEF IInv, NeverTorn, Unused, TypeOK
  <2> QED
    BY <2>4, <2>5, <2>7, <2>8 DEF IInv
<1>5. ASSUME NEW p \in Procs, Fill(p) PROVE IInv'
  <2> DEFINE f == writer[p].file
  <2>1. /\ writer[p].at = "fill" /\ f # None /\ f \in Files /\ tmp[TmpName(p)] = f
        /\ writer[p].value \in Values /\ TmpName(p) \in Pids
    BY <1>5, <1>t, Facts DEF Fill, At, IInv, OwnFile
  <2>2. /\ content' = [content EXCEPT ![f] = writer[p].value]
        /\ content \in [Files -> Values \cup {None}]
        /\ UNCHANGED <<path, tmp, failures>>
        /\ writer' = [writer EXCEPT ![p].at = "rename"]
    BY <1>5, <1>t DEF Fill, TypeOK
  <2>3. /\ content' \in [Files -> Values \cup {None}] /\ content'[f] = writer[p].value
        /\ \A g \in Files : g # f => content'[g] = content[g]
    BY <2>1, <2>2
  <2>4. /\ writer' \in [Procs -> Calls]
        /\ writer'[p].at = "rename" /\ writer'[p].value = writer[p].value
        /\ writer'[p].file = f
        /\ \A q \in Procs : q # p => writer'[q] = writer[q]
    BY <2>2, <1>t, MovedType
  <2>5. TypeOK'
    BY <2>2, <2>3, <2>4, <1>t DEF TypeOK, Calls
  <2>6. NamesApart'
    BY <2>2 DEF IInv, NamesApart
  <2>7. OwnFile'
    <3> SUFFICES ASSUME NEW q \in Procs
                 PROVE  /\ writer'[q].at \in {"fill", "rename"} =>
                               writer'[q].file # None /\ tmp[TmpName(q)] = writer'[q].file
                        /\ writer'[q].at = "rename" =>
                               content'[writer'[q].file] = writer'[q].value
                        /\ writer'[q].at # "idle" => writer'[q].value # None
                        /\ writer'[q].at = "idle" => writer'[q].value = None
      BY <2>2 DEF OwnFile, TmpName
    <3>1. CASE q = p
      BY <3>1, <2>1, <2>3, <2>4, WriteAssumption
    <3>2. CASE q # p
      <4>1. writer'[q] = writer[q] /\ TmpName(q) # TmpName(p) /\ TmpName(q) \in Pids
        BY <3>2, <2>4, NamesDiffer, <1>t, Facts
      <4>2. writer[q].at = "rename" => writer[q].file \in Files /\ writer[q].file # f
        BY <4>1, <2>1, <1>t, Facts DEF IInv, OwnFile, NamesApart
      <4> QED
        BY <4>1, <4>2, <2>3 DEF IInv, OwnFile
    <3> QED
      BY <3>1, <3>2
  <2>8. NeverTorn'
    BY <2>1, <2>2, <2>3, <1>t, WriteAssumption DEF IInv, NeverTorn, TypeOK
  <2> QED
    BY <2>5, <2>6, <2>7, <2>8 DEF IInv
<1>6. ASSUME NEW p \in Procs, Rename(p) \/ Cleanup(p) PROVE IInv'
  <2> DEFINE n == TmpName(p)
  <2>1. /\ n \in Pids /\ tmp \in [Pids -> Files \cup {None}]
        /\ tmp' = [tmp EXCEPT ![n] = None]
        /\ writer' = [writer EXCEPT ![p] = NotWriting]
        /\ UNCHANGED content
        /\ path' = path \/ (Rename(p) /\ path' = tmp[n] /\ tmp[n] # None)
    BY <1>6, <1>t, Facts, RenameMoves DEF Cleanup, TypeOK
  <2>2. /\ tmp' \in [Pids -> Files \cup {None}] /\ tmp'[n] = None
        /\ \A i \in Pids : i # n => tmp'[i] = tmp[i]
    BY <2>1
  <2>3. /\ writer' \in [Procs -> Calls] /\ writer'[p] = NotWriting
        /\ \A q \in Procs : q # p => writer'[q] = writer[q]
    BY <2>1, <1>t, ResetType
  <2>4. failures' \in [Procs -> 0 .. MaxFailures]
    BY <1>6, <1>t, RenameMoves DEF Cleanup, TypeOK, MaxFailures
  <2>5. TypeOK'
    BY <2>1, <2>2, <2>3, <2>4, <1>t DEF TypeOK, Calls
  <2>6. NamesApart'
    BY <2>1, <2>2 DEF IInv, NamesApart
  <2>7. OwnFile'
    <3> SUFFICES ASSUME NEW q \in Procs
                 PROVE  /\ writer'[q].at \in {"fill", "rename"} =>
                               writer'[q].file # None /\ tmp'[TmpName(q)] = writer'[q].file
                        /\ writer'[q].at = "rename" =>
                               content[writer'[q].file] = writer'[q].value
                        /\ writer'[q].at # "idle" => writer'[q].value # None
                        /\ writer'[q].at = "idle" => writer'[q].value = None
      BY <2>1 DEF OwnFile, TmpName
    <3>1. CASE q = p
      BY <3>1, <2>3 DEF NotWriting
    <3>2. CASE q # p
      <4>1. writer'[q] = writer[q] /\ TmpName(q) # n /\ TmpName(q) \in Pids
        BY <3>2, <2>3, NamesDiffer, <1>t, Facts
      <4> QED
        BY <4>1, <2>2 DEF IInv, OwnFile
    <3> QED
      BY <3>1, <3>2
  <2>8. NeverTorn'
    <3>1. CASE path' = path
      BY <3>1, <2>1 DEF IInv, NeverTorn
    <3>2. CASE Rename(p) /\ path' = tmp[n] /\ tmp[n] # None
      <4>1. content[tmp[n]] = writer[p].value /\ writer[p].value # None
        BY <3>2, RenameMoves DEF At, IInv, OwnFile
      <4> QED
        BY <4>1, <3>2, <2>1 DEF NeverTorn
    <3> QED
      BY <3>1, <3>2, <2>1
  <2> QED
    BY <2>5, <2>6, <2>7, <2>8 DEF IInv
<1>7. CASE UNCHANGED vars
  <2>1. UNCHANGED <<path, tmp, content, writer, failures>>
    BY <1>7 DEF vars
  <2> QED
    BY <2>1 DEF IInv, TypeOK, NamesApart, OwnFile, NeverTorn, TmpName
<1> QED
  BY <1>1, <1>2, <1>3, <1>4, <1>5, <1>6, <1>7 DEF Next, Call

(***************************************************************************)
(* Refinement.                                                             *)
(***************************************************************************)
Value == IF path = None THEN None ELSE content[path]
OpOf(w) == IF w.at = "cleanup" THEN None ELSE w.value
Op    == [p \in Procs |-> OpOf(writer[p])]

\* Before any write the register has its first value.
LEMMA InitMapsToRegister == Init => Register!RegInit
<1> SUFFICES ASSUME Init PROVE Value \in Values \cup {None} /\ Op = [p \in Procs |-> None]
  BY DEF Register!RegInit, Value, Op, OpOf
<1> QED
  BY DEF Init, NotWriting, Value, Op, OpOf

\* One process's operation changes: what it was and what it becomes.
LEMMA OpChange ==
  ASSUME TypeOK, NEW p \in Procs, NEW v,
         \A q \in Procs : q # p => writer'[q] = writer[q],
         OpOf(writer'[p]) = v
  PROVE  Op' = [Op EXCEPT ![p] = v]
  BY DEF Op, OpOf

\* Every step is a step of the register or leaves it alone.
LEMMA StepMapsToRegister ==
  DistinctPids /\ IInv /\ [Next]_vars => [Register!RegNext]_(Register!rvars)
<1> SUFFICES ASSUME DistinctPids, IInv, [Next]_vars
             PROVE  \/ \E p \in Procs : \/ /\ Op[p] = None /\ Value' = Value
                                           /\ \E v \in Values : Op' = [Op EXCEPT ![p] = v]
                                        \/ /\ Op[p] # None /\ Value' = Op[p]
                                           /\ Op' = [Op EXCEPT ![p] = None]
                                        \/ /\ Op[p] # None /\ Value' = Value
                                           /\ Op' = [Op EXCEPT ![p] = None]
                    \/ Value' = Value /\ Op' = Op
  BY DEF Register!RegNext, Register!rvars, Register!Begin, Register!Put, Register!Fail,
         Value, Op, OpOf
<1>t. TypeOK
  BY DEF IInv
<1>o. \A p \in Procs : Op[p] = OpOf(writer[p])
  BY DEF Op
<1>s. ASSUME NEW p \in Procs, \A q \in Procs : q # p => writer'[q] = writer[q],
             OpOf(writer'[p]) = OpOf(writer[p])
      PROVE  Op' = Op
  BY <1>s DEF Op
<1>1. ASSUME NEW p \in Procs, NEW v \in Values, Write(p, v)
      PROVE  /\ Op[p] = None /\ Value' = Value
             /\ Op' = [Op EXCEPT ![p] = v]
  <2> DEFINE new == [at |-> "open", value |-> v, file |-> None]
  <2>1. writer' = [writer EXCEPT ![p] = new] /\ UNCHANGED <<path, content>>
        /\ writer[p].at = "idle"
    BY <1>1 DEF Write, At
  <2>2. writer'[p] = new /\ \A q \in Procs : q # p => writer'[q] = writer[q]
    BY <2>1, <1>t, Facts
  <2>3. OpOf(writer'[p]) = v
    BY <2>2 DEF OpOf
  <2>4. Op[p] = None
    BY <2>1, <1>o DEF IInv, OwnFile, OpOf
  <2> QED
    BY <2>1, <2>2, <2>3, <2>4, <1>t, OpChange DEF Value
<1>2. ASSUME NEW p \in Procs, NameTaken(p) \/ IoFails(p)
      PROVE  Op[p] # None /\ Value' = Value /\ Op' = [Op EXCEPT ![p] = None]
  <2>1. writer' = [writer EXCEPT ![p].at = "cleanup"] /\ UNCHANGED <<path, content>>
        /\ writer[p].at \in {"open", "fill", "rename"}
    BY <1>2 DEF NameTaken, IoFails, At
  <2>2. writer'[p].at = "cleanup" /\ \A q \in Procs : q # p => writer'[q] = writer[q]
    BY <2>1, <1>t, MovedType
  <2>3. OpOf(writer'[p]) = None
    BY <2>2 DEF OpOf
  <2>4. Op[p] # None
    BY <2>1, <1>o DEF IInv, OwnFile, OpOf
  <2> QED
    BY <2>1, <2>2, <2>3, <2>4, <1>t, OpChange DEF Value
<1>3. ASSUME NEW p \in Procs, Kill(p)
      PROVE  /\ Value' = Value
             /\ \/ Op[p] # None /\ Op' = [Op EXCEPT ![p] = None]
                \/ Op' = Op
  <2>1. writer' = [writer EXCEPT ![p] = NotWriting] /\ UNCHANGED <<path, content>>
    BY <1>3 DEF Kill
  <2>2. writer'[p] = NotWriting /\ \A q \in Procs : q # p => writer'[q] = writer[q]
    BY <2>1, <1>t, ResetType
  <2>3. OpOf(writer'[p]) = None
    BY <2>2 DEF OpOf, NotWriting
  <2>4. CASE Op[p] = None
    BY <2>1, <2>2, <2>3, <2>4, <1>o, <1>s DEF Value
  <2>5. CASE Op[p] # None
    BY <2>1, <2>2, <2>3, <2>5, <1>t, OpChange DEF Value
  <2> QED
    BY <2>4, <2>5
<1>4. ASSUME NEW p \in Procs, Cleanup(p) \/ CleanupFails(p)
      PROVE  Value' = Value /\ Op' = Op
  <2>1. writer' = [writer EXCEPT ![p] = NotWriting] /\ UNCHANGED <<path, content>>
        /\ writer[p].at = "cleanup"
    BY <1>4 DEF Cleanup, CleanupFails, At
  <2>2. writer'[p] = NotWriting /\ \A q \in Procs : q # p => writer'[q] = writer[q]
    BY <2>1, <1>t, ResetType
  <2>3. OpOf(writer'[p]) = OpOf(writer[p])
    BY <2>1, <2>2 DEF OpOf, NotWriting
  <2> QED
    BY <2>1, <2>2, <2>3, <1>s DEF Value
<1>5. ASSUME NEW p \in Procs, NEW f \in Files, Open(p, f)
      PROVE  Value' = Value /\ Op' = Op
  <2>1. /\ writer[p].at = "open" /\ f # path /\ path' = path
        /\ content' = [content EXCEPT ![f] = None]
        /\ content \in [Files -> Values \cup {None}] /\ path \in Files \cup {None}
        /\ writer[p] \in Calls /\ writer \in [Procs -> Calls]
    BY <1>5, <1>t, Facts DEF Open, At, Unused, TypeOK
  <2>2. Value' = Value
    BY <2>1 DEF Value
  <2> DEFINE new == [writer[p] EXCEPT !.at = "fill", !.file = f]
  <2>3. writer' = [writer EXCEPT ![p] = new]
    BY <1>5, <2>1 DEF Open
  <2>4. new.at = "fill" /\ new.value = writer[p].value
    BY <2>1 DEF Calls
  <2> HIDE DEF new
  <2>5. writer'[p] = new /\ \A q \in Procs : q # p => writer'[q] = writer[q]
    BY <2>1, <2>3
  <2>6. OpOf(writer'[p]) = OpOf(writer[p])
    BY <2>1, <2>4, <2>5 DEF OpOf
  <2> QED
    BY <2>2, <2>5, <2>6, <1>s
<1>6. ASSUME NEW p \in Procs, Fill(p)
      PROVE  Value' = Value /\ Op' = Op
  <2> DEFINE f == writer[p].file
  <2>1. /\ writer[p].at = "fill" /\ path' = path
        /\ content' = [content EXCEPT ![f] = writer[p].value]
        /\ writer' = [writer EXCEPT ![p].at = "rename"]
    BY <1>6 DEF Fill, At
  <2>2. f # path \/ path = None
    BY <2>1, <1>t, Facts DEF IInv, OwnFile, NamesApart
  <2>3. path # None => path \in Files /\ content'[path] = content[path]
    BY <2>1, <2>2, <1>t DEF TypeOK
  <2>4. Value' = Value
    BY <2>1, <2>3 DEF Value
  <2>5. writer'[p].at = "rename" /\ writer'[p].value = writer[p].value
        /\ \A q \in Procs : q # p => writer'[q] = writer[q]
    BY <2>1, <1>t, MovedType
  <2>6. OpOf(writer'[p]) = OpOf(writer[p])
    BY <2>1, <2>5 DEF OpOf
  <2> QED
    BY <2>4, <2>5, <2>6, <1>s
<1>7. ASSUME NEW p \in Procs, Rename(p)
      PROVE  Op[p] # None /\ Value' = Op[p] /\ Op' = [Op EXCEPT ![p] = None]
  <2>1. /\ writer[p].at = "rename" /\ path' = tmp[TmpName(p)] /\ path' # None
        /\ content' = content /\ writer' = [writer EXCEPT ![p] = NotWriting]
    BY <1>7, RenameMoves DEF At
  <2>2. content[path'] = writer[p].value /\ writer[p].value # None
    BY <2>1 DEF IInv, OwnFile
  <2>3. Op[p] = writer[p].value
    BY <2>1, <1>o DEF OpOf
  <2>4. writer'[p] = NotWriting /\ \A q \in Procs : q # p => writer'[q] = writer[q]
    BY <2>1, <1>t, ResetType
  <2>5. OpOf(writer'[p]) = None
    BY <2>4 DEF OpOf, NotWriting
  <2>6. Value' = content[path']
    BY <2>1 DEF Value
  <2> QED
    BY <2>2, <2>3, <2>4, <2>5, <2>6, <1>t, OpChange
<1>8. CASE UNCHANGED vars
  BY <1>8 DEF vars, Value, Op
<1> QED
  BY <1>1, <1>2, <1>3, <1>4, <1>5, <1>6, <1>7, <1>8 DEF Next, Call

(***************************************************************************)
(* A stale temporary file: after a call that failed on it, the name is     *)
(* free until the process takes it itself.                                 *)
(***************************************************************************)
StaleInv(p) ==
    /\ failures[p] \in {0, 1}
    /\ failures[p] = 1 /\ writer[p].at \in {"idle", "open"} => tmp[TmpName(p)] = None

\* One process's step leaves the names and the failures of the others alone.
LEMMA OthersStale ==
  ASSUME DistinctPids, TypeOK, NEW p \in Procs, NEW q \in Procs, q # p,
         Call(p) \/ Kill(p), StaleInv(q)
  PROVE  StaleInv(q)'
<1>1. tmp'[TmpName(q)] = tmp[TmpName(q)]
  <2>1. TmpName(p) # TmpName(q) /\ TmpName(q) \in Pids
    BY NamesDiffer, Facts
  <2>2. tmp \in [Pids -> Files \cup {None}]
    BY DEF TypeOK
  <2>3. tmp' = tmp \/ \E f : tmp' = [tmp EXCEPT ![TmpName(p)] = f]
    BY DEF Call, Kill, Write, Open, NameTaken, Fill, Rename, IoFails, Cleanup, CleanupFails
  <2> QED
    BY <2>1, <2>2, <2>3
<1>2. writer'[q] = writer[q]
  <2>1. writer \in [Procs -> Calls]
    BY Facts
  <2>2. \E w : writer' = [writer EXCEPT ![p] = w]
    BY DEF Call, Kill, Write, Open, NameTaken, Fill, Rename, IoFails, Cleanup, CleanupFails
  <2> QED
    BY <2>1, <2>2
<1>3. failures'[q] = failures[q]
  <2>1. failures \in [Procs -> 0 .. MaxFailures]
    BY DEF TypeOK
  <2>2. failures' = failures \/ \E n : failures' = [failures EXCEPT ![p] = n]
    BY DEF Call, Kill, Write, Open, NameTaken, Fill, Rename, IoFails, Cleanup, CleanupFails
  <2> QED
    BY <2>1, <2>2
<1> QED
  BY <1>1, <1>2, <1>3 DEF StaleInv, TmpName

\* The process that steps: it fails on a taken name at most once in a row.
LEMMA OwnStale ==
  ASSUME IInv, NEW p \in Procs, Call(p) \/ Kill(p), StaleInv(p)
  PROVE  StaleInv(p)'
<1>1. /\ TypeOK /\ TmpName(p) \in Pids
      /\ tmp \in [Pids -> Files \cup {None}]
      /\ failures \in [Procs -> 0 .. MaxFailures]
  BY Facts DEF IInv, TypeOK
<1>2. TmpName(p)' = TmpName(p)
  BY DEF TmpName
<1>3. ASSUME failures'[p] = 0 PROVE StaleInv(p)'
  BY <1>3 DEF StaleInv
<1>4. ASSUME NEW v \in Values, Write(p, v) PROVE StaleInv(p)'
  BY <1>2, <1>4 DEF Write, At, StaleInv
<1>5. ASSUME NEW f \in Files, Open(p, f) PROVE StaleInv(p)'
  <2>1. writer'[p].at = "fill" /\ failures' = failures
    <3> DEFINE new == [writer[p] EXCEPT !.at = "fill", !.file = f]
    <3>1. writer[p] \in Calls /\ writer \in [Procs -> Calls]
      BY <1>1, Facts
    <3>2. writer' = [writer EXCEPT ![p] = new] /\ failures' = failures
      BY <1>5, <3>1 DEF Open
    <3>3. new.at = "fill"
      BY <3>1 DEF Calls
    <3> HIDE DEF new
    <3> QED
      BY <3>1, <3>2, <3>3
  <2> QED
    BY <2>1 DEF StaleInv
<1>6. CASE NameTaken(p)
  <2>1. failures[p] = 0
    BY <1>6 DEF NameTaken, At, StaleInv
  <2>2. failures'[p] = 1
    BY <1>1, <1>6, <2>1 DEF NameTaken, MaxFailures
  <2>3. writer'[p].at = "cleanup"
    BY <1>1, <1>6, MovedType DEF NameTaken
  <2> QED
    BY <2>2, <2>3 DEF StaleInv
<1>7. CASE Fill(p)
  <2>1. writer'[p].at = "rename" /\ failures' = failures
    BY <1>1, <1>7, MovedType DEF Fill
  <2> QED
    BY <2>1 DEF StaleInv
<1>8. CASE Rename(p)
  BY <1>1, <1>3, <1>8, RenameMoves
<1>9. CASE IoFails(p) \/ CleanupFails(p) \/ Kill(p)
  BY <1>1, <1>3, <1>9 DEF IoFails, CleanupFails, Kill
<1>10. CASE Cleanup(p)
  <2>1. tmp'[TmpName(p)] = None /\ failures' = failures
    BY <1>1, <1>10 DEF Cleanup
  <2> QED
    BY <1>2, <2>1 DEF StaleInv
<1> QED
  BY <1>4, <1>5, <1>6, <1>7, <1>8, <1>9, <1>10 DEF Call

\* So every step keeps it.
LEMMA NextKeepsStaleInv ==
  DistinctPids /\ IInv /\ (\A p \in Procs : StaleInv(p)) /\ [Next]_vars
      => (\A p \in Procs : StaleInv(p))'
<1> SUFFICES ASSUME DistinctPids, IInv, \A p \in Procs : StaleInv(p), [Next]_vars
             PROVE  (\A p \in Procs : StaleInv(p))'
  OBVIOUS
<1>1. CASE UNCHANGED vars
  BY <1>1 DEF vars, StaleInv, TmpName
<1>2. ASSUME NEW p \in Procs, Call(p) \/ Kill(p) PROVE (\A q \in Procs : StaleInv(q))'
  BY <1>2, OwnStale, OthersStale DEF IInv
<1> QED
  BY <1>1, <1>2 DEF Next

(***************************************************************************)
(* The theorems.                                                           *)
(***************************************************************************)
\* Processes with ids of their own keep their temporary files apart.
THEOREM Inductive == DistinctPids /\ Spec => []IInv
<1>1. DistinctPids => (IInv /\ [Next]_vars => IInv')
  BY NextKeepsIInv
<1>2. ASSUME DistinctPids PROVE Spec => []IInv
  BY <1>1, <1>2, InitIInv, PTL DEF Spec
<1> QED
  BY <1>2

\* write_atomic's state is well-typed, and the file is never torn.
THEOREM NeverTornHolds == DistinctPids /\ Spec => [](TypeOK /\ NeverTorn)
<1>1. IInv => TypeOK /\ NeverTorn
  BY DEF IInv
<1>2. ASSUME DistinctPids PROVE Spec => [](TypeOK /\ NeverTorn)
  <2>1. Spec => []IInv
    BY <1>2, Inductive
  <2> QED
    BY <1>1, <2>1, PTL
<1> QED
  BY <1>2

\* Rename replaces the file in one step: no reader finds it missing, even when
\* processes share an id.
THEOREM FileStaysHolds == Spec => FileNeverVanishes
<1>1. [Next]_vars => [path # None => path' # None]_vars
  <2> SUFFICES ASSUME Next, path # None PROVE path' # None
    BY DEF vars
  <2>1. ASSUME NEW p \in Procs, Rename(p) PROVE path' # None
    BY <2>1 DEF Rename
  <2>2. ASSUME NEW p \in Procs, Call(p) \/ Kill(p), ~Rename(p) PROVE path' = path
    BY <2>2 DEF Call, Kill, Write, Open, NameTaken, Fill, IoFails, Cleanup, CleanupFails
  <2> QED
    BY <2>1, <2>2 DEF Next
<1> QED
  BY <1>1, PTL DEF Spec, FileNeverVanishes

\* create_new, fsync, rename and the clean-up on errors implement a register
\* written atomically, whatever fails and whoever is killed.
THEOREM RegisterImplemented == DistinctPids /\ Spec => ImplementsRegister
<1>1. ASSUME DistinctPids PROVE Spec => [][Register!RegNext]_(Register!rvars)
  <2>1. Spec => []IInv
    BY <1>1, Inductive
  <2>2. IInv /\ [Next]_vars => [Register!RegNext]_(Register!rvars)
    BY <1>1, StepMapsToRegister
  <2> QED
    BY <2>1, <2>2, PTL DEF Spec
<1>2. Spec => Register!RegInit
  BY InitMapsToRegister DEF Spec
<1> QED
  BY <1>1, <1>2 DEF ImplementsRegister, Register!RegSpec

\* A temporary file that a killed process left behind fails the next write with
\* its name, is removed by it, and fails no other.
THEOREM StaleFileFailsOnceHolds == DistinctPids /\ Spec => []StaleFileFailsOnce
<1>1. ASSUME DistinctPids PROVE Spec => []StaleFileFailsOnce
  <2>1. Init => \A p \in Procs : StaleInv(p)
    BY DEF Init, StaleInv
  <2>2. IInv /\ (\A p \in Procs : StaleInv(p)) /\ [Next]_vars
            => (\A p \in Procs : StaleInv(p))'
    BY <1>1, NextKeepsStaleInv
  <2>3. Spec => []IInv
    BY <1>1, Inductive
  <2>4. (\A p \in Procs : StaleInv(p)) => StaleFileFailsOnce
    BY DEF StaleInv, StaleFileFailsOnce
  <2> QED
    BY <2>1, <2>2, <2>3, <2>4, PTL DEF Spec
<1> QED
  BY <1>1
=============================================================================
