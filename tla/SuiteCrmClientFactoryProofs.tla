--------------------- MODULE SuiteCrmClientFactoryProofs ---------------------
(***************************************************************************)
(* For any number of threads, any token lifetime and any clock: the token  *)
(* a client is made with is valid, and no refresh is made for nothing.     *)
(***************************************************************************)
EXTENDS SuiteCrmClientFactory, TLAPS

LEMMA InitToken == Init => TokenInv
BY FactoryAssumption, StallAssumption
   DEF Init, TokenInv, TypeOK, LockHeld, InLock, Stalls, ExpiryIsSafe, FreshAfterFetch,
       StaleAtFetch, TokenOk, Steps, Clients

LEMMA NextType ==
    ASSUME TypeOK, [Next]_factoryVars
    PROVE  TypeOK'
<1> USE FactoryAssumption DEF TypeOK, Goto, Steps, Clients
<1>1. CASE Tick
    BY <1>1 DEF Tick
<1>2. ASSUME NEW t \in Threads, Call(t) \/ Check(t) \/ Acquire(t) \/ Recheck(t) \/ Release(t)
                                  \/ MakeClient(t) \/ Drop(t)
      PROVE  TypeOK'
    BY <1>2 DEF Call, Check, Acquire, Recheck, Release, MakeClient, Drop
<1>3. ASSUME NEW t \in Threads, Fetch(t) \/ FetchRaises(t) \/ SetExpiry(t)
      PROVE  TypeOK'
    BY <1>3 DEF Fetch, FetchRaises, SetExpiry, LockAfterRaise, Expiry
<1>4. CASE UNCHANGED factoryVars
    BY <1>4 DEF factoryVars
<1> QED  BY <1>1, <1>2, <1>3, <1>4 DEF Next, InCall

LEMMA NextLock ==
    ASSUME TypeOK, LockHeld, [Next]_factoryVars
    PROVE  LockHeld'
<1> USE FactoryAssumption DEF TypeOK, LockHeld, InLock, Goto, Steps
<1>1. CASE Tick
    BY <1>1 DEF Tick
<1>2. ASSUME NEW t \in Threads, Call(t) \/ Check(t) \/ Acquire(t) \/ Release(t)
                                  \/ MakeClient(t) \/ Drop(t)
      PROVE  LockHeld'
    BY <1>2 DEF Call, Check, Acquire, Release, MakeClient, Drop
<1>3. ASSUME NEW t \in Threads, Recheck(t) \/ Fetch(t) \/ FetchRaises(t) \/ SetExpiry(t)
      PROVE  LockHeld'
    BY <1>3 DEF Recheck, Fetch, FetchRaises, SetExpiry, LockAfterRaise
<1>4. CASE UNCHANGED factoryVars
    BY <1>4 DEF factoryVars
<1> QED  BY <1>1, <1>2, <1>3, <1>4 DEF Next, InCall

LEMMA NextStalls ==
    ASSUME TypeOK, Stalls, [Next]_factoryVars
    PROVE  Stalls'
<1> USE FactoryAssumption DEF TypeOK, Stalls, Goto
<1>1. CASE Tick
    BY <1>1 DEF Tick
<1>2. ASSUME NEW t \in Threads, Call(t) \/ InCall(t) \/ Drop(t)
      PROVE  Stalls'
    BY <1>2 DEF InCall, Call, Check, Acquire, Recheck, Fetch, FetchRaises, SetExpiry, Release,
       MakeClient, Drop
<1>3. CASE UNCHANGED factoryVars
    BY <1>3 DEF factoryVars
<1> QED  BY <1>1, <1>2, <1>3 DEF Next

\* The margins are what makes the time of the next refresh a safe one.
LEMMA NextExpiry ==
    ASSUME TokenInv, [Next]_factoryVars
    PROVE  ExpiryIsSafe'
<1> USE FactoryAssumption, StallAssumption DEF TokenInv, TypeOK, ExpiryIsSafe
<1>1. CASE Tick
    BY <1>1 DEF Tick
<1>2. ASSUME NEW t \in Threads, Fetch(t)
      PROVE  ExpiryIsSafe'
    BY <1>2 DEF Fetch
<1>3. ASSUME NEW t \in Threads, SetExpiry(t)
      PROVE  ExpiryIsSafe'
    <2>1. PICK margin \in Margins : expiresAt' = now + Lifetime - margin
        BY <1>3 DEF SetExpiry, Expiry
    <2>2. now <= validUntil - Lifetime + MaxStall
        BY <1>3 DEF SetExpiry, FreshAfterFetch, Stalls
    <2>3. margin \in Nat /\ 2 * MaxStall <= margin
        OBVIOUS
    <2>4. expiresAt' + MaxStall <= validUntil
        BY <2>1, <2>2, <2>3
    <2> QED  BY <1>3, <2>4 DEF SetExpiry
<1>4. ASSUME NEW t \in Threads, Call(t) \/ Check(t) \/ Acquire(t) \/ Recheck(t) \/ FetchRaises(t)
                                  \/ Release(t) \/ MakeClient(t) \/ Drop(t)
      PROVE  ExpiryIsSafe'
    BY <1>4 DEF Call, Check, Acquire, Recheck, FetchRaises, Release, MakeClient, Drop
<1>5. CASE UNCHANGED factoryVars
    BY <1>5 DEF factoryVars
<1> QED  BY <1>1, <1>2, <1>3, <1>4, <1>5 DEF Next, InCall

\* What one thread's step leaves of another thread's reckoning.
LEMMA NextFresh ==
    ASSUME TokenInv, [Next]_factoryVars
    PROVE  FreshAfterFetch'
<1> USE FactoryAssumption, StallAssumption DEF TokenInv, TypeOK, FreshAfterFetch, Goto, Steps
<1>1. CASE Tick
    BY <1>1 DEF Tick, Waiting
<1>2. ASSUME NEW t \in Threads, Check(t)
      PROVE  FreshAfterFetch'
    BY <1>2 DEF Check, TokenOk, ExpiryIsSafe
<1>3. ASSUME NEW t \in Threads, Fetch(t)
      PROVE  FreshAfterFetch'
    <2>1. \A u \in Threads : u # t => pc[u] \notin {"set_expiry", "release"}
        BY <1>3 DEF Fetch, LockHeld, InLock
    <2>2. validUntil <= validUntil' /\ validUntil' = now + Lifetime
        BY <1>3 DEF Fetch, ExpiryIsSafe
    <2> QED  BY <1>3, <2>1, <2>2 DEF Fetch
<1>4. ASSUME NEW t \in Threads, SetExpiry(t)
      PROVE  FreshAfterFetch'
    BY <1>4 DEF SetExpiry, Stalls
<1>5. ASSUME NEW t \in Threads, Release(t)
      PROVE  FreshAfterFetch'
    BY <1>5 DEF Release, Stalls
<1>6. ASSUME NEW t \in Threads, Call(t) \/ Acquire(t) \/ Recheck(t) \/ FetchRaises(t)
                                  \/ MakeClient(t) \/ Drop(t)
      PROVE  FreshAfterFetch'
    BY <1>6 DEF Call, Acquire, Recheck, FetchRaises, MakeClient, Drop
<1>7. CASE UNCHANGED factoryVars
    BY <1>7 DEF factoryVars
<1> QED  BY <1>1, <1>2, <1>3, <1>4, <1>5, <1>6, <1>7 DEF Next, InCall

LEMMA NextStale ==
    ASSUME TokenInv, [Next]_factoryVars
    PROVE  StaleAtFetch'
<1> USE FactoryAssumption DEF TokenInv, TypeOK, StaleAtFetch, TokenOk, Goto, Steps
<1>1. CASE Tick
    BY <1>1 DEF Tick
<1>2. ASSUME NEW t \in Threads, Fetch(t) \/ SetExpiry(t)
      PROVE  StaleAtFetch'
    <2>1. \A u \in Threads : u # t => pc[u] # "fetch"
        BY <1>2 DEF Fetch, SetExpiry, LockHeld, InLock
    <2> QED  BY <1>2, <2>1 DEF Fetch, SetExpiry
<1>3. ASSUME NEW t \in Threads, Recheck(t)
      PROVE  StaleAtFetch'
    BY <1>3 DEF Recheck, RefreshedMeanwhile
<1>4. ASSUME NEW t \in Threads, Call(t) \/ Check(t) \/ Acquire(t) \/ FetchRaises(t)
                                  \/ Release(t) \/ MakeClient(t) \/ Drop(t)
      PROVE  StaleAtFetch'
    BY <1>4 DEF Call, Check, Acquire, FetchRaises, Release, MakeClient, Drop
<1>5. CASE UNCHANGED factoryVars
    BY <1>5 DEF factoryVars
<1> QED  BY <1>1, <1>2, <1>3, <1>4, <1>5 DEF Next, InCall

\* The token cache keeps its invariant: one thread at most has the lock, none
\* stalls for longer than assumed, and the expiry time that the threads
\* compare with lies far enough before the end of the token.
THEOREM TokenInvariant == Spec => []TokenInv
<1>1. TokenInv /\ [Next]_factoryVars => TokenInv'
    BY NextType, NextLock, NextStalls, NextExpiry, NextFresh, NextStale DEF TokenInv
<1> QED  BY InitToken, <1>1, PTL DEF Spec

LEMMA HandedOutStep ==
    ASSUME TokenInv, Next, NEW t \in Threads, client'[t] # client[t], client'[t] # "none"
    PROVE  now < validUntil
<1> USE FactoryAssumption DEF TokenInv, TypeOK
<1>1. MakeClient(t) \/ (Recheck(t) /\ RefreshedMeanwhile(t))
    BY DEF Next, InCall, Tick, Call, Check, Acquire, Recheck, Fetch, FetchRaises, SetExpiry,
       Release, MakeClient, Drop
<1>2. CASE MakeClient(t)
    BY <1>2 DEF MakeClient, FreshAfterFetch, Stalls
<1>3. CASE Recheck(t) /\ RefreshedMeanwhile(t)
    BY <1>3 DEF RefreshedMeanwhile, TokenOk, ExpiryIsSafe
<1> QED  BY <1>1, <1>2, <1>3

\* Every client is made with a token SuiteCRM still takes, and so is the
\* private one handed to a thread that waited, if no step of get_client stalls
\* for more than half the least margin or a third of the token's lifetime.
THEOREM HandedOutTokensAreValid == Spec => HandedOutTokenIsValid
<1>1. TokenInv /\ [Next]_factoryVars =>
        [\A t \in Threads :
            client'[t] # client[t] /\ client'[t] # "none" => now < validUntil]_factoryVars
    BY HandedOutStep
<1> QED  BY <1>1, TokenInvariant, PTL DEF Spec, HandedOutTokenIsValid

\* Threads that find the token old together fetch one new token between them.
THEOREM NoNeedlessRefresh == Spec => OneRefresh
<1>1. TokenInv /\ [Next]_factoryVars => [validUntil' # validUntil => ~TokenOk]_factoryVars
    <2> SUFFICES ASSUME TokenInv, Next, validUntil' # validUntil PROVE ~TokenOk
        OBVIOUS
    <2>1. PICK t \in Threads : Fetch(t)
        BY DEF Next, InCall, Tick, Call, Check, Acquire, Recheck, FetchRaises, SetExpiry, Release,
           MakeClient, Drop
    <2> QED  BY <2>1 DEF TokenInv, StaleAtFetch, Fetch
<1> QED  BY <1>1, TokenInvariant, PTL DEF Spec, OneRefresh
=============================================================================
