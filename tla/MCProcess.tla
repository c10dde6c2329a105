----------------------------- MODULE MCProcess -----------------------------
(***************************************************************************)
(* Startup, TokenLifetime and Exchange, one at a time: a behaviour starts  *)
(* processes, ages tokens or makes a tool call, and leaves the variables   *)
(* of the other two modules as they began.                                 *)
(***************************************************************************)
EXTENDS MCStartup, TokenLifetime, Exchange

MCRetryAfters == {<<"absent">>, <<"garbage">>, <<"seconds", 120000>>, <<"date", -5000>>}

\* The limits of the code are ones the theorem about expired tokens is about.
ASSUME MCRetriesFit == RetriesFit(1150, RETRY_AFTER_CAP, BACKOFF_BASE + 249)

VARIABLE part

processVars == <<startVars, lifetimeVars, exchangeVars, part>>

ProcessInit ==
    /\ part \in {"startup", "lifetime", "exchange"}
    /\ StartupInit /\ LifetimeInit /\ ExchangeInit
    /\ part # "startup" => files = [p \in Paths |-> Absent]
    /\ part # "exchange" => method = [c \in Calls |-> "idempotent"]

ProcessNext ==
    \/ part = "startup" /\ StartupNext /\ UNCHANGED <<lifetimeVars, exchangeVars, part>>
    \/ part = "lifetime" /\ LifetimeNext /\ UNCHANGED <<startVars, exchangeVars, part>>
    \/ part = "exchange" /\ ExchangeNext /\ UNCHANGED <<startVars, lifetimeVars, part>>

ProcessSpec == ProcessInit /\ [][ProcessNext]_processVars
=============================================================================
