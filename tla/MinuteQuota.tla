---------------------------- MODULE MinuteQuota ----------------------------
(***************************************************************************)
(* What the client-side rate budget promises: a quota of Cap grants per    *)
(* clock minute.  RateBudget implements it.                                *)
(***************************************************************************)
EXTENDS Naturals, FiniteSets

CONSTANTS Requests, Cap

VARIABLES
    minute,  \* the minute the quota is counted in
    used     \* the requests granted in that minute

qvars == <<minute, used>>

QuotaInit == minute = 0 /\ used = {}

\* A request is granted in the current minute or opens a later one.
Grant(r) ==
    \/ /\ r \notin used
       /\ Cardinality(used) < Cap
       /\ used' = used \cup {r}
       /\ minute' = minute
    \/ /\ used' = {r}
       /\ minute' \in Nat /\ minute' > minute

\* Nothing else touches the quota: a refusal leaves it as it is.
QuotaNext == \E r \in Requests : Grant(r)

QuotaSpec == QuotaInit /\ [][QuotaNext]_qvars
=============================================================================
