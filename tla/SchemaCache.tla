----------------------------- MODULE SchemaCache -----------------------------
(***************************************************************************)
(* src/schema: a starting server gets the OpenAPI document from a file or  *)
(* from its URL.  A download is written to a cache on disk, which stands   *)
(* in for the URL when it cannot be fetched.  Servers that share the cache *)
(* directory (a volume, a home directory) run beside each other, and any   *)
(* of them may die between two system calls.                               *)
(***************************************************************************)
EXTENDS Naturals

CONSTANTS
    Servers,
    Good,           \* documents that parse_bytes accepts
    Bad,            \* and those it rejects: an error page, another version
    MAX_RETRIES,
    MaxStarts,      \* bound: how often a server is started
    None, Empty, Torn

Docs == Good \cup Bad

ASSUME SchemaAssumption ==
    /\ Good \cap Bad = {} /\ {None, Empty, Torn} \cap Docs = {}
    /\ None # Empty /\ None # Torn /\ Empty # Torn
    /\ MAX_RETRIES \in Nat /\ MaxStarts \in Nat

VARIABLES
    pc,         \* where each server is
    attempt,    \* the fetch loop's counter
    bytes,      \* the bytes each server has in hand, or None
    yaml,       \* swagger.yaml: None (no such file), Empty, Torn, or a document
    sha,        \* swagger.yaml.sha256, by the document hashed; Empty if absent
    starts,     \* how often servers were started
    got,        \* history: the document each server fetched or read from its file
    newest,     \* history: the document whose write_cache was the last to finish
    alone,      \* history: the servers writing the cache with nobody else since
    clean       \* history: nothing has touched the cache since newest was
                \*   written, and that write had the cache to itself

server == <<pc, attempt, bytes, got, starts>>
disk   == <<yaml, sha, newest, alone, clean>>
vars   == <<server, disk>>

Writing  == {"WriteYaml", "OpenSha", "WriteSha"}
Running  == Writing \cup {"Fetch", "Drift", "CreateDir", "OpenYaml", "ReadCache", "Parse"}
Stopped  == {"Down", "Failed"}

Init ==
    /\ pc = [s \in Servers |-> "Down"]
    /\ attempt = [s \in Servers |-> 0]
    /\ bytes = [s \in Servers |-> None]
    /\ got = [s \in Servers |-> None]
    /\ starts = 0
    /\ yaml = None /\ sha = Empty
    /\ newest = None /\ alone = {} /\ clean = TRUE

Goto(s, from, to) == pc[s] = from /\ pc' = [pc EXCEPT ![s] = to]

Obtain(s, doc) ==
    /\ bytes' = [bytes EXCEPT ![s] = doc]
    /\ got' = [got EXCEPT ![s] = doc]

-----------------------------------------------------------------------------
\* load_with_client.

Start(s) ==
    /\ pc[s] \in Stopped /\ starts < MaxStarts
    /\ starts' = starts + 1
    /\ pc' = [pc EXCEPT ![s] = "Fetch"]
    /\ attempt' = [attempt EXCEPT ![s] = 0]
    /\ bytes' = [bytes EXCEPT ![s] = None]
    /\ got' = [got EXCEPT ![s] = None]
    /\ UNCHANGED disk

\* SchemaSource::File: the file is read, or is not there.
LoadFile(s) ==
    /\ pc[s] = "Fetch" /\ attempt[s] = 0
    /\ \/ \E doc \in Docs : Obtain(s, doc) /\ Goto(s, "Fetch", "Parse")
       \/ Goto(s, "Fetch", "Failed") /\ UNCHANGED <<bytes, got>>
    /\ UNCHANGED <<attempt, starts, disk>>

\* fetch_bytes_with_client: a 2xx answer with its body.
Fetched(s) ==
    /\ Goto(s, "Fetch", "Drift")
    /\ \E doc \in Docs : Obtain(s, doc)
    /\ UNCHANGED <<attempt, starts, disk>>

\* Mutant of FetchRetry: the loop starts over when the attempts are used.
FetchRetryForEver(s) ==
    /\ pc[s] = "Fetch"
    /\ attempt' = [attempt EXCEPT ![s] = IF @ < MAX_RETRIES THEN @ + 1 ELSE 0]
    /\ UNCHANGED <<pc, bytes, got, starts, disk>>

\* Mutant of FetchRetry: one attempt too many.
FetchRetryOneMore(s) ==
    /\ pc[s] = "Fetch" /\ attempt[s] <= MAX_RETRIES
    /\ attempt' = [attempt EXCEPT ![s] = @ + 1]
    /\ UNCHANGED <<pc, bytes, got, starts, disk>>

\* A timeout or a failed connection, with an attempt left.
FetchRetry(s) ==
    /\ pc[s] = "Fetch" /\ attempt[s] < MAX_RETRIES
    /\ attempt' = [attempt EXCEPT ![s] = @ + 1]
    /\ UNCHANGED <<pc, bytes, got, starts, disk>>

\* Another error, a status other than 2xx or a lost body at once, or the
\* timeout of the last attempt.
FetchFails(s) ==
    /\ Goto(s, "Fetch", "ReadCache")
    /\ UNCHANGED <<attempt, bytes, got, starts, disk>>

\* read_cache, while somebody may be writing: the file is read, or it is not there
\* or cannot be read.
ReadCache(s) ==
    /\ \/ Goto(s, "ReadCache", "Failed") /\ UNCHANGED bytes
       \/ /\ yaml # None
          /\ Goto(s, "ReadCache", "Parse")
          /\ \E b \in {yaml, Torn} :
                /\ b = Torn /\ yaml # Torn => \E w \in Servers : pc[w] = "WriteYaml"
                /\ bytes' = [bytes EXCEPT ![s] = b]
    /\ UNCHANGED <<attempt, got, starts, disk>>

\* detect_drift only warns.
Drift(s) ==
    /\ Goto(s, "Drift", "CreateDir")
    /\ UNCHANGED <<attempt, bytes, got, starts, disk>>

\* parse_bytes: a document cut short may still be YAML, with fewer paths.
Parse(s) ==
    /\ \/ bytes[s] \in Good \cup {Torn} /\ Goto(s, "Parse", "Serving")
       \/ bytes[s] \in Bad \cup {Torn, Empty} /\ Goto(s, "Parse", "Failed")
    /\ UNCHANGED <<attempt, bytes, got, starts, disk>>

-----------------------------------------------------------------------------
\* write_cache, one system call after the other.

CreateDir(s) ==
    /\ Goto(s, "CreateDir", "OpenYaml")
    /\ UNCHANGED <<attempt, bytes, got, starts, disk>>

\* fs::write opens and truncates, then writes.
OpenYaml(s) ==
    /\ Goto(s, "OpenYaml", "WriteYaml")
    /\ yaml' = Empty
    /\ alone' = IF \E w \in Servers : pc[w] \in Writing THEN {} ELSE {s}
    /\ clean' = FALSE
    /\ UNCHANGED <<attempt, bytes, got, starts, sha, newest>>

\* Two writers at once may leave a mixture.
WriteYaml(s) ==
    /\ Goto(s, "WriteYaml", "OpenSha")
    /\ yaml' \in {bytes[s]} \cup (IF s \in alone THEN {} ELSE {Torn})
    /\ UNCHANGED <<attempt, bytes, got, starts, sha, newest, alone, clean>>

OpenSha(s) ==
    /\ Goto(s, "OpenSha", "WriteSha")
    /\ sha' = Empty
    /\ UNCHANGED <<attempt, bytes, got, starts, yaml, newest, alone, clean>>

\* Mutant of WriteSha: the hash of a known schema is kept.
WriteShaOnce(s) ==
    /\ Goto(s, "WriteSha", "Parse")
    /\ sha' = IF newest = None THEN bytes[s] ELSE newest
    /\ newest' = bytes[s]
    /\ clean' = (s \in alone)
    /\ alone' = alone \ {s}
    /\ UNCHANGED <<attempt, bytes, got, starts, yaml>>

\* Every hash is as long as any other: the last one written stands.
WriteSha(s) ==
    /\ Goto(s, "WriteSha", "Parse")
    /\ sha' = bytes[s]
    /\ newest' = bytes[s]
    /\ clean' = (s \in alone)
    /\ alone' = alone \ {s}
    /\ UNCHANGED <<attempt, bytes, got, starts, yaml>>

\* A write that is cut short.
CutShort(s) ==
    /\ \/ pc[s] = "WriteYaml" /\ yaml' \in {yaml, Torn} /\ UNCHANGED sha
       \/ pc[s] = "WriteSha" /\ sha' \in {sha, Torn} /\ UNCHANGED yaml
       \/ pc[s] \notin {"WriteYaml", "WriteSha"} /\ UNCHANGED <<yaml, sha>>
    /\ alone' = alone \ {s}
    /\ UNCHANGED <<newest, clean>>

\* Mutant of CacheError: the error ends the start.
CacheErrorFatal(s) ==
    /\ pc[s] \in Writing \cup {"CreateDir", "OpenYaml"}
    /\ pc' = [pc EXCEPT ![s] = "Failed"]
    /\ CutShort(s)
    /\ UNCHANGED <<attempt, bytes, got, starts>>

\* Any call of write_cache may fail, with a part written or nothing: a
\* warning, and the document in hand is parsed.
CacheError(s) ==
    /\ pc[s] \in Writing \cup {"CreateDir", "OpenYaml"}
    /\ pc' = [pc EXCEPT ![s] = "Parse"]
    /\ CutShort(s)
    /\ UNCHANGED <<attempt, bytes, got, starts>>

\* The process is killed, at any point.
Kill(s) ==
    /\ pc[s] \in Running \cup {"Serving"}
    /\ pc' = [pc EXCEPT ![s] = "Down"]
    /\ CutShort(s)
    /\ UNCHANGED <<attempt, bytes, got, starts>>

Fetch(s) == Fetched(s) \/ FetchRetry(s) \/ FetchFails(s)
WriteCache(s) ==
    CreateDir(s) \/ OpenYaml(s) \/ WriteYaml(s) \/ OpenSha(s) \/ WriteSha(s) \/ CacheError(s)
Load(s) == LoadFile(s) \/ Fetch(s) \/ Drift(s) \/ WriteCache(s) \/ ReadCache(s) \/ Parse(s)

Next == \E s \in Servers : Start(s) \/ Load(s) \/ Kill(s)

Spec     == Init /\ [][Next]_vars
\* Every request, call and await of a start comes back.
FairSpec == Spec /\ \A s \in Servers : WF_vars(Load(s))

-----------------------------------------------------------------------------
\* Types of the variables.
TypeOK ==
    /\ pc \in [Servers -> Running \cup Stopped \cup {"Serving"}]
    /\ attempt \in [Servers -> 0 .. MAX_RETRIES]
    /\ bytes \in [Servers -> Docs \cup {None, Empty, Torn}]
    /\ got \in [Servers -> Docs \cup {None}]
    /\ starts \in 0 .. MaxStarts
    /\ yaml \in Docs \cup {None, Empty, Torn}
    /\ sha \in Docs \cup {Empty, Torn}
    /\ newest \in Docs \cup {None}
    /\ alone \in SUBSET Servers
    /\ clean \in BOOLEAN

\* A write of the cache that nobody disturbed heals whatever crashes,
\* errors and other servers left before it: the file is the document it
\* wrote, and the hash that drift is judged by is that document's.
CacheIsNewest == clean /\ newest # None => yaml = newest /\ sha = newest

\* Trouble with the cache never costs a start: a server that got a good
\* document serves that very document, whatever state the cache is in and
\* whichever of its system calls fail.
GoodDocumentServes ==
    \A s \in Servers :
        got[s] \in Good =>
            /\ pc[s] # "Failed"
            /\ pc[s] = "Serving" => bytes[s] = got[s]

\* Every start comes to an end: the server serves, reports an error, or is
\* killed.
StartEnds == \A s \in Servers : pc[s] \in Running ~> pc[s] \notin Running
=============================================================================
