-------------------------- MODULE SchemaCacheProofs --------------------------
(***************************************************************************)
(* Proofs about SchemaCache, for any servers, documents, limits and        *)
(* kills.  The inductive invariant says who may be writing the cache and   *)
(* what a writer that has it to itself has put there so far.               *)
(***************************************************************************)
EXTENDS SchemaCache, TLAPS

\* The only server writing since it opened the file.
AloneInv ==
    \A s \in alone :
        /\ pc[s] \in Writing
        /\ \A w \in Servers : pc[w] \in Writing => w = s
        /\ pc[s] \in {"OpenSha", "WriteSha"} => yaml = bytes[s]

\* The cache is as the last write left it: nobody is at it.
CleanInv ==
    clean =>
        /\ \A w \in Servers : pc[w] \notin Writing
        /\ newest # None => yaml = newest /\ sha = newest

\* What a server has in hand, by the place it is at.
HandInv ==
    \A s \in Servers :
        /\ pc[s] \in {"Drift", "CreateDir", "OpenYaml"} \cup Writing => bytes[s] \in Docs
        /\ got[s] \in Good =>
            /\ pc[s] \notin {"Fetch", "ReadCache", "Failed"}
            /\ bytes[s] = got[s]

IInv == TypeOK /\ AloneInv /\ CleanInv /\ HandInv

\* The invariant holds before any start.
LEMMA InitIInv == Init => IInv
BY SchemaAssumption
   DEF Init, IInv, TypeOK, AloneInv, CleanInv, HandInv, Running, Writing, Stopped, Docs

\* Steps that leave the disk alone and enter or leave no writing section.
LEMMA QuietStep ==
    ASSUME IInv, NEW s \in Servers, UNCHANGED disk,
           pc[s] \notin Writing, pc' = [pc EXCEPT ![s] = pc'[s]], pc'[s] \notin Writing,
           \A w \in Servers : w # s => bytes'[w] = bytes[w]
    PROVE  AloneInv' /\ CleanInv'
<1>1. pc \in [Servers -> Running \cup Stopped \cup {"Serving"}] /\ alone \subseteq Servers
  BY DEF IInv, TypeOK
<1>2. \A w \in Servers : w # s => pc'[w] = pc[w]
  BY <1>1
<1>3. s \notin alone
  BY DEF IInv, AloneInv
<1>4. AloneInv'
  BY <1>1, <1>2, <1>3 DEF IInv, AloneInv, disk
<1>5. CleanInv'
  BY <1>1, <1>2 DEF IInv, CleanInv, disk
<1> QED BY <1>4, <1>5

\* A start keeps the invariant.
LEMMA StartStep == ASSUME IInv, NEW s \in Servers, Start(s) PROVE IInv'
<1>1. TypeOK'
  BY SchemaAssumption DEF IInv, TypeOK, Start, disk, Running, Stopped
<1>2. pc[s] \notin Writing /\ pc' = [pc EXCEPT ![s] = pc'[s]] /\ pc'[s] \notin Writing
  BY DEF IInv, TypeOK, Start, Writing, Stopped
<1>3. \A w \in Servers : w # s => bytes'[w] = bytes[w]
  BY DEF IInv, TypeOK, Start
<1>4. UNCHANGED disk
  BY DEF Start
<1>5. AloneInv' /\ CleanInv'
  BY <1>2, <1>3, <1>4, QuietStep
<1>6. HandInv'
  BY SchemaAssumption DEF IInv, TypeOK, HandInv, Start, Writing, Stopped, Docs
<1> QED BY <1>1, <1>5, <1>6 DEF IInv

\* The steps of a start that do not write the cache.
Quiet(s) ==
    LoadFile(s) \/ Fetched(s) \/ FetchRetry(s) \/ FetchFails(s)
        \/ ReadCache(s) \/ Drift(s) \/ Parse(s) \/ CreateDir(s)

\* A step that does not write the cache keeps the invariant.
LEMMA QuietIInv == ASSUME IInv, NEW s \in Servers, Quiet(s) PROVE IInv'
<1> USE DEF IInv, TypeOK
<1>1. TypeOK'
  <2>1. CASE LoadFile(s)
    BY <2>1, SchemaAssumption DEF LoadFile, Goto, Obtain, disk, Running, Stopped
  <2>2. CASE Fetched(s)
    BY <2>2, SchemaAssumption DEF Fetched, Goto, Obtain, disk, Running, Stopped
  <2>3. CASE FetchRetry(s)
    BY <2>3, SchemaAssumption DEF FetchRetry, disk, Running, Stopped
  <2>4. CASE FetchFails(s)
    BY <2>4, SchemaAssumption DEF FetchFails, Goto, disk, Running, Stopped
  <2>5. CASE ReadCache(s)
    BY <2>5, SchemaAssumption DEF ReadCache, Goto, disk, Running, Stopped
  <2>6. CASE Drift(s)
    BY <2>6, SchemaAssumption DEF Drift, Goto, disk, Running, Stopped
  <2>7. CASE Parse(s)
    BY <2>7, SchemaAssumption DEF Parse, Goto, disk, Running, Stopped
  <2>8. CASE CreateDir(s)
    BY <2>8, SchemaAssumption DEF CreateDir, Goto, disk, Running, Stopped
  <2> QED BY <2>1, <2>2, <2>3, <2>4, <2>5, <2>6, <2>7, <2>8 DEF Quiet
<1>2. pc[s] \notin Writing /\ pc' = [pc EXCEPT ![s] = pc'[s]] /\ pc'[s] \notin Writing
  BY DEF Quiet, LoadFile, Fetched, FetchRetry, FetchFails, ReadCache, Drift, Parse, CreateDir,
         Goto, Writing
<1>3. UNCHANGED disk /\ \A w \in Servers : w # s => bytes'[w] = bytes[w]
  BY DEF Quiet, LoadFile, Fetched, FetchRetry, FetchFails, ReadCache, Drift, Parse, CreateDir,
         Goto, Obtain
<1>4. AloneInv' /\ CleanInv'
  BY <1>2, <1>3, QuietStep
<1>5. HandInv'
  <2>1. CASE LoadFile(s)
    BY <2>1, SchemaAssumption DEF LoadFile, Goto, Obtain, HandInv, Writing, Docs
  <2>2. CASE Fetched(s)
    BY <2>2, SchemaAssumption DEF Fetched, Goto, Obtain, HandInv, Writing, Docs
  <2>3. CASE FetchRetry(s)
    BY <2>3 DEF FetchRetry, HandInv
  <2>4. CASE FetchFails(s)
    BY <2>4 DEF FetchFails, Goto, HandInv, Writing
  <2>5. CASE ReadCache(s)
    BY <2>5 DEF ReadCache, Goto, HandInv, Writing
  <2>6. CASE Drift(s)
    BY <2>6 DEF Drift, Goto, HandInv, Writing
  <2>7. CASE Parse(s)
    BY <2>7, SchemaAssumption DEF Parse, Goto, HandInv, Writing, Docs
  <2>8. CASE CreateDir(s)
    BY <2>8 DEF CreateDir, Goto, HandInv, Writing
  <2> QED BY <2>1, <2>2, <2>3, <2>4, <2>5, <2>6, <2>7, <2>8 DEF Quiet
<1> QED BY <1>1, <1>4, <1>5

\* The schema file is opened and emptied.
LEMMA OpenYamlStep == ASSUME IInv, NEW s \in Servers, OpenYaml(s) PROVE IInv'
<1> USE DEF IInv, TypeOK, OpenYaml, Goto
<1>1. TypeOK'
  BY SchemaAssumption DEF Running, Writing, Stopped
<1>2. AloneInv'
  BY DEF AloneInv, Writing
<1>3. CleanInv'
  BY DEF CleanInv
<1>4. HandInv'
  BY DEF HandInv, Writing
<1> QED BY <1>1, <1>2, <1>3, <1>4

\* The schema file is written.
LEMMA WriteYamlStep == ASSUME IInv, NEW s \in Servers, WriteYaml(s) PROVE IInv'
<1> USE DEF IInv, TypeOK, WriteYaml, Goto
<1>1. TypeOK'
  BY SchemaAssumption DEF HandInv, Running, Writing, Stopped
<1>2. AloneInv'
  BY DEF AloneInv, Writing
<1>3. CleanInv'
  BY DEF CleanInv, Writing
<1>4. HandInv'
  BY DEF HandInv, Writing
<1> QED BY <1>1, <1>2, <1>3, <1>4

\* The hash file is opened and emptied.
LEMMA OpenShaStep == ASSUME IInv, NEW s \in Servers, OpenSha(s) PROVE IInv'
<1> USE DEF IInv, TypeOK, OpenSha, Goto
<1>1. TypeOK'
  BY SchemaAssumption DEF Running, Writing, Stopped
<1>2. AloneInv'
  BY DEF AloneInv, Writing
<1>3. CleanInv'
  BY DEF CleanInv, Writing
<1>4. HandInv'
  BY DEF HandInv, Writing
<1> QED BY <1>1, <1>2, <1>3, <1>4

\* The hash is written: the cache is the writer's.
LEMMA WriteShaStep == ASSUME IInv, NEW s \in Servers, WriteSha(s) PROVE IInv'
<1> USE DEF IInv, TypeOK, WriteSha, Goto
<1>1. TypeOK'
  BY SchemaAssumption DEF HandInv, Running, Writing, Stopped
<1>2. AloneInv'
  BY DEF AloneInv, Writing
<1>3. CleanInv'
  BY DEF CleanInv, AloneInv, Writing
<1>4. HandInv'
  BY DEF HandInv, Writing
<1> QED BY <1>1, <1>2, <1>3, <1>4

\* CacheError and Kill: the server leaves, whatever it was writing.
LEMMA CutStep ==
    ASSUME IInv, NEW s \in Servers, CutShort(s), UNCHANGED <<attempt, bytes, got, starts>>,
           NEW place \in {"Parse", "Down"}, pc' = [pc EXCEPT ![s] = place],
           pc[s] \in Running \cup {"Serving"},
           place = "Parse" => pc[s] \in Writing \cup {"CreateDir", "OpenYaml"}
    PROVE  IInv'
<1> USE DEF IInv, TypeOK, CutShort
<1>1. TypeOK'
  BY SchemaAssumption DEF Running, Stopped
<1>2. AloneInv'
  BY DEF AloneInv, Writing
<1>3. CleanInv'
  BY DEF CleanInv, Writing
<1>4. HandInv'
  BY DEF HandInv, Writing
<1> QED BY <1>1, <1>2, <1>3, <1>4

\* A call of write_cache fails.
LEMMA CacheErrorStep == ASSUME IInv, NEW s \in Servers, CacheError(s) PROVE IInv'
<1>1. CutShort(s) /\ UNCHANGED <<attempt, bytes, got, starts>>
  BY DEF CacheError
<1>2. pc' = [pc EXCEPT ![s] = "Parse"] /\ pc[s] \in Writing \cup {"CreateDir", "OpenYaml"}
  BY DEF CacheError
<1>3. pc[s] \in Running \cup {"Serving"}
  BY <1>2 DEF Running
<1> QED BY <1>1, <1>2, <1>3, CutStep

\* A server is killed.
LEMMA KillStep == ASSUME IInv, NEW s \in Servers, Kill(s) PROVE IInv'
<1>1. CutShort(s) /\ UNCHANGED <<attempt, bytes, got, starts>>
  BY DEF Kill
<1>2. pc' = [pc EXCEPT ![s] = "Down"] /\ pc[s] \in Running \cup {"Serving"}
  BY DEF Kill
<1> QED BY <1>1, <1>2, CutStep

\* Every step keeps the invariant.
LEMMA NextIInv == ASSUME IInv, [Next]_vars PROVE IInv'
<1>1. ASSUME NEW s \in Servers, Start(s) PROVE IInv'
  BY <1>1, StartStep
<1>2. ASSUME NEW s \in Servers, Load(s) PROVE IInv'
  <2>1. CASE Quiet(s)
    BY <2>1, QuietIInv
  <2>2. CASE OpenYaml(s)
    BY <2>2, OpenYamlStep
  <2>3. CASE WriteYaml(s)
    BY <2>3, WriteYamlStep
  <2>4. CASE OpenSha(s)
    BY <2>4, OpenShaStep
  <2>5. CASE WriteSha(s)
    BY <2>5, WriteShaStep
  <2>6. CASE CacheError(s)
    BY <2>6, CacheErrorStep
  <2> QED
    BY <1>2, <2>1, <2>2, <2>3, <2>4, <2>5, <2>6 DEF Load, Fetch, WriteCache, Quiet
<1>3. ASSUME NEW s \in Servers, Kill(s) PROVE IInv'
  BY <1>3, KillStep
<1>4. CASE UNCHANGED vars
  BY <1>4
     DEF vars, server, disk, IInv, TypeOK, AloneInv, CleanInv, HandInv
<1> QED BY <1>1, <1>2, <1>3, <1>4 DEF Next

\* IInv is an invariant.
THEOREM Inductive == Spec => []IInv
BY InitIInv, NextIInv, PTL DEF Spec

-----------------------------------------------------------------------------
\* Types of the variables of the schema pipeline, for any servers and documents.
THEOREM TypeCorrect == Spec => []TypeOK
<1>1. IInv => TypeOK
  BY DEF IInv
<1> QED BY <1>1, Inductive, PTL

\* An undisturbed write_cache leaves the file and its hash at the document it
\* wrote, whatever kills, errors and other servers came before it.
THEOREM CacheIsNewestHolds == Spec => []CacheIsNewest
<1>1. IInv => CacheIsNewest
  BY DEF IInv, CleanInv, CacheIsNewest
<1> QED BY <1>1, Inductive, PTL

\* load_with_client: whoever gets a good document serves it, whatever happens
\* to the cache.
THEOREM GoodDocumentServesHolds == Spec => []GoodDocumentServes
<1>1. IInv => GoodDocumentServes
  BY DEF IInv, HandInv, GoodDocumentServes
<1> QED BY <1>1, Inductive, PTL
=============================================================================
