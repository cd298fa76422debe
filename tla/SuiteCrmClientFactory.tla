------------------------ MODULE SuiteCrmClientFactory ------------------------
(***************************************************************************)
(* suitecrm_client_factory.py: the clients that the request threads use to *)
(* talk to SuiteCRM.  One private client holds the access token and is     *)
(* refreshed under a lock; get_client checks the token's age before it     *)
(* takes the lock and again when it has it.                                *)
(*                                                                         *)
(* Time is counted in ticks.  A token is known by the time at which        *)
(* SuiteCRM stops taking it.                                               *)
(***************************************************************************)
EXTENDS Naturals, Integers

CONSTANTS
    Threads,        \* threads of the pool that call get_client
    Lifetime,       \* expires_in of the tokens SuiteCRM gives
    Margins,        \* _buffer_seconds plus the jitter drawn at a refresh
    MaxStall,       \* longest time between two steps of a call
    MaxTime         \* bound of the model: the clock stops here

NoThread == "no_thread"

ASSUME FactoryAssumption ==
    /\ NoThread \notin Threads
    /\ Lifetime \in Nat /\ MaxStall \in Nat /\ MaxTime \in Nat
    /\ Margins \subseteq Nat

\* A stalled thread must not outlive what the refresh sets aside for it.
ASSUME StallAssumption ==
    /\ \A m \in Margins : 2 * MaxStall <= m
    /\ 3 * MaxStall < Lifetime

VARIABLES
    now,            \* time.time()
    validUntil,     \* end of the private client's token, 0 before there is one
    expiresAt,      \* _expires_at
    lock,           \* the thread that holds _lock, or NoThread
    pc,             \* pc[t]: the next step of t in get_client
    stall,          \* stall[t]: time since the last step of t
    client          \* client[t]: the client t works with

factoryVars == <<now, validUntil, expiresAt, lock, pc, stall, client>>

Steps == {"idle", "check", "lock", "recheck", "fetch", "set_expiry", "release", "make", "using"}

Clients == {"none", "new", "private"}

TypeOK ==
    /\ now \in Nat
    /\ validUntil \in Nat
    /\ expiresAt \in Int
    /\ lock \in Threads \cup {NoThread}
    /\ pc \in [Threads -> Steps]
    /\ stall \in [Threads -> Nat]
    /\ client \in [Threads -> Clients]

\* _expires_at = 0 and no token, so that the first call fetches one.
Init ==
    /\ now = 1
    /\ validUntil = 0
    /\ expiresAt = 0
    /\ lock = NoThread
    /\ pc = [t \in Threads |-> "idle"]
    /\ stall = [t \in Threads |-> 0]
    /\ client = [t \in Threads |-> "none"]

-----------------------------------------------------------------------------

\* export_access_token() is not None and time.time() < _expires_at
TokenOk == validUntil # 0 /\ now < expiresAt

Goto(t, step) ==
    /\ pc' = [pc EXCEPT ![t] = step]
    /\ stall' = [stall EXCEPT ![t] = 0]

Call(t) ==
    /\ pc[t] = "idle"
    /\ Goto(t, "check")
    /\ UNCHANGED <<now, validUntil, expiresAt, lock, client>>

Check(t) ==
    /\ pc[t] = "check"
    /\ Goto(t, IF TokenOk THEN "make" ELSE "lock")
    /\ UNCHANGED <<now, validUntil, expiresAt, lock, client>>

Acquire(t) ==
    /\ pc[t] = "lock"
    /\ lock = NoThread
    /\ lock' = t
    /\ Goto(t, "recheck")
    /\ UNCHANGED <<now, validUntil, expiresAt, client>>

\* Mutant: the token is refreshed without a second look at it.
NoSecondLook(t) == FALSE

\* Someone else has refreshed the token since this thread looked at it.
RefreshedMeanwhile(t) == TokenOk

\* The private client itself is returned, and the lock released, when the
\* token has been refreshed meanwhile.
Recheck(t) ==
    /\ pc[t] = "recheck"
    /\ \/ /\ RefreshedMeanwhile(t)
          /\ client' = [client EXCEPT ![t] = "private"]
          /\ lock' = NoThread
          /\ Goto(t, "using")
       \/ /\ ~RefreshedMeanwhile(t)
          /\ Goto(t, "fetch")
          /\ UNCHANGED <<lock, client>>
    /\ UNCHANGED <<now, validUntil, expiresAt>>

\* Mutant: an exception leaves the lock taken.
LockAfterRaiseKept == lock

\* The with block releases the lock whichever way it is left.
LockAfterRaise == NoThread

Fetch(t) ==
    /\ pc[t] = "fetch"
    /\ validUntil' = now + Lifetime
    /\ Goto(t, "set_expiry")
    /\ UNCHANGED <<now, expiresAt, lock, client>>

\* fetch_access_token raises: the request gets a 500, the old token stays.
FetchRaises(t) ==
    /\ pc[t] = "fetch"
    /\ lock' = LockAfterRaise
    /\ Goto(t, "idle")
    /\ UNCHANGED <<now, validUntil, expiresAt, client>>

\* Mutant: nothing is set aside for slow callers.
ExpiryWithoutMargin(margin) == now + Lifetime

Expiry(margin) == now + Lifetime - margin

SetExpiry(t) ==
    /\ pc[t] = "set_expiry"
    /\ \E margin \in Margins : expiresAt' = Expiry(margin)
    /\ Goto(t, "release")
    /\ UNCHANGED <<now, validUntil, lock, client>>

Release(t) ==
    /\ pc[t] = "release"
    /\ lock' = NoThread
    /\ Goto(t, "make")
    /\ UNCHANGED <<now, validUntil, expiresAt, client>>

\* _get_new_suitecrm_client: a client with the token of this moment.
MakeClient(t) ==
    /\ pc[t] = "make"
    /\ client' = [client EXCEPT ![t] = "new"]
    /\ Goto(t, "using")
    /\ UNCHANGED <<now, validUntil, expiresAt, lock>>

\* The handler has no more use for its client.
Drop(t) ==
    /\ pc[t] = "using"
    /\ client' = [client EXCEPT ![t] = "none"]
    /\ Goto(t, "idle")
    /\ UNCHANGED <<now, validUntil, expiresAt, lock>>

\* Threads that wait for the lock, or are not in get_client, may take any time.
Waiting(t) == pc[t] \in {"idle", "check", "lock", "using"}

Tick ==
    /\ now < MaxTime
    /\ \A t \in Threads : Waiting(t) \/ stall[t] < MaxStall
    /\ now' = now + 1
    /\ stall' = [t \in Threads |-> IF Waiting(t) THEN 0 ELSE stall[t] + 1]
    /\ UNCHANGED <<validUntil, expiresAt, lock, pc, client>>

InCall(t) ==
    \/ Check(t) \/ Acquire(t) \/ Recheck(t) \/ Fetch(t) \/ FetchRaises(t)
    \/ SetExpiry(t) \/ Release(t) \/ MakeClient(t)

Next == Tick \/ \E t \in Threads : Call(t) \/ InCall(t) \/ Drop(t)

Spec == Init /\ [][Next]_factoryVars

\* A thread of the pool goes on running, so long as it does not wait.
FairSpec == Spec /\ \A t \in Threads : WF_factoryVars(InCall(t))

-----------------------------------------------------------------------------

\* ACTION PROPERTY.  A client is only made from, and the private one only handed
\* out with, a token that SuiteCRM still takes, though the token may get old
\* between the look at the clock and the making of the client, and
\* _expires_at is counted from after the fetch and not from the token's issue.
HandedOutTokenIsValid ==
    [][\A t \in Threads :
        client'[t] # client[t] /\ client'[t] # "none" => now < validUntil]_factoryVars

\* ACTION PROPERTY.  The token is fetched only when the cached one will not
\* do: threads that found it old at the same time cause one refresh.
OneRefresh == [][validUntil' # validUntil => ~TokenOk]_factoryVars

\* SAFETY.  get_client "Gets a new SuiteCRM client" (line 45; "check that the
\* clients are different instances", test_suitecrm_client_factory.py:108): no
\* two threads work with the same one.
ClientsAreDistinct ==
    \A t1, t2 \in Threads : client[t1] = "private" /\ client[t2] = "private" => t1 = t2

\* LIVENESS.  Whoever takes the lock gives it back, a failed refresh included.
LockIsReleased == lock # NoThread ~> lock = NoThread

-----------------------------------------------------------------------------
(* The inductive strengthening of the above.                               *)

InLock == {"recheck", "fetch", "set_expiry", "release"}

LockHeld == \A t \in Threads : pc[t] \in InLock <=> lock = t

Stalls == \A t \in Threads : stall[t] <= MaxStall

\* _expires_at leaves a caller time to make its client; a fetch only ever
\* moves the end of the token on.
ExpiryIsSafe ==
    /\ \/ expiresAt + MaxStall <= validUntil
       \/ validUntil = 0 /\ expiresAt = 0
    /\ validUntil <= now + Lifetime

\* How far the clock can have come since the fetch, or since the last check.
FreshAfterFetch ==
    \A t \in Threads :
        /\ pc[t] = "set_expiry" => now <= validUntil - Lifetime + stall[t]
        /\ pc[t] = "release" => now <= validUntil - Lifetime + MaxStall + stall[t]
        /\ pc[t] = "make" => now < validUntil - MaxStall + stall[t]

\* Only the holder of the lock could make the token good again.
StaleAtFetch == \A t \in Threads : pc[t] = "fetch" => ~TokenOk

TokenInv ==
    TypeOK /\ LockHeld /\ Stalls /\ ExpiryIsSafe /\ FreshAfterFetch /\ StaleAtFetch
=============================================================================
