----------------------- MODULE ConnectionLimitsProofs -----------------------
(***************************************************************************)
(* The semaphores of the API process never lose or make up a permit, and   *)
(* therefore implement BranchQuota; the token sets of                      *)
(* DistributedBranchLimiter tell the truth about who is connected, though  *)
(* that they limit anything does not follow, and is not true.  For any     *)
(* number of executions of either kind, branches, permits and crashes.     *)
(***************************************************************************)
EXTENDS ConnectionLimits, FiniteSetTheorems, TLAPS

\* What each half of the proof needs of TypeOK.
LocalTypes == PlacesOK /\ SemaphoresOK
RedisTypes == PlacesOK /\ TokensOK

\* The types and PermitsBalance together: neither is inductive alone, since only the
\* balance bounds what a release adds.
SemaphoreInv == LocalTypes /\ PermitsBalance

\* Executions in the API process and in the workers keep to the places of their kind.
LEMMA PlacesStep == PlacesOK /\ [Next]_vars => PlacesOK'
  <1> SUFFICES ASSUME PlacesOK, [Next]_vars PROVE PlacesOK'
    OBVIOUS
  <1> USE LimiterAssumption DEF PlacesOK, LocalPlaces, RedisPlaces
  <1>1. CASE UNCHANGED vars
    BY <1>1 DEF vars, semaphores, redis
  <1>2. ASSUME NEW e \in Executions, LocalStep(e) PROVE PlacesOK'
    BY <1>2 DEF LocalStep, Enter, ReturnEarly, Claim, AcquireBranch, ReleaseBranch, Return
  <1>3. ASSUME NEW e \in Executions, Acquire(e) PROVE PlacesOK'
    BY <1>3 DEF Acquire, CheckGlobal, CheckBranch, Register, Timeout
  <1>4. ASSUME NEW e \in Executions, Release(e) \/ Crash(e) PROVE PlacesOK'
    BY <1>4 DEF Release, Crash, Distributed
  <1>5. CASE ExpireGlobal \/ \E b \in Branches : ExpireBranch(b)
    BY <1>5 DEF ExpireGlobal, ExpireBranch
  <1> QED
    BY <1>1, <1>2, <1>3, <1>4, <1>5 DEF Next

\* A step of an execution in a worker, or the expiry of a key, is nothing to the
\* executions of the API process.
LEMMA RedisIsApart ==
  ASSUME PlacesOK,
         \/ \E e \in Executions : Acquire(e) \/ Release(e) \/ Crash(e)
         \/ ExpireGlobal \/ \E b \in Branches : ExpireBranch(b)
  PROVE  \A i \in InProcess : pc'[i] = pc[i]
  <1> USE LimiterAssumption DEF PlacesOK, LocalPlaces, RedisPlaces
  <1>1. ASSUME NEW e \in Executions, Acquire(e) PROVE \A i \in InProcess : pc'[i] = pc[i]
    BY <1>1 DEF Acquire, CheckGlobal, CheckBranch, Register, Timeout
  <1>2. ASSUME NEW e \in Executions, Release(e) \/ Crash(e)
        PROVE  \A i \in InProcess : pc'[i] = pc[i]
    BY <1>2 DEF Release, Crash, Distributed
  <1>3. CASE ExpireGlobal \/ \E b \in Branches : ExpireBranch(b)
    BY <1>3 DEF ExpireGlobal, ExpireBranch
  <1> QED
    BY <1>1, <1>2, <1>3

\* A set of executions is finite, and one execution more or less changes its size by one.
LEMMA ExecutionSets ==
  ASSUME NEW S \in SUBSET Executions
  PROVE  /\ IsFiniteSet(S)
         /\ Cardinality(S) \in Nat
         /\ \A e \in Executions \ S : Cardinality(S \cup {e}) = Cardinality(S) + 1
         /\ \A e \in S : Cardinality(S \ {e}) = Cardinality(S) - 1
  <1>1. IsFiniteSet(S)
    BY LimiterAssumption, FS_Subset
  <1>2. Cardinality(S) \in Nat
    BY <1>1, FS_CardinalityType
  <1>3. \A e \in Executions \ S : Cardinality(S \cup {e}) = Cardinality(S) + 1
    BY <1>1, FS_AddElement
  <1>4. \A e \in S : Cardinality(S \ {e}) = Cardinality(S) - 1
    BY <1>1, FS_RemoveElement
  <1> QED
    BY <1>1, <1>2, <1>3, <1>4

\* The initial values of the semaphores are the limits, and no execution holds anything.
LEMMA SemaphoreInit == Init => SemaphoreInv
  <1> SUFFICES ASSUME Init PROVE SemaphoreInv
    OBVIOUS
  <1>1. LocalTypes
    BY LimiterAssumption DEF Init, LocalTypes, PlacesOK, SemaphoresOK, LocalPlaces,
       RedisPlaces
  <1>2. InSlot = {} /\ \A b \in Branches : OnBranch(b) = {}
    BY LimiterAssumption DEF Init, InSlot, OnBranch
  <1>3. Cardinality({}) = 0
    BY FS_EmptySet
  <1>4. PermitsBalance
    BY <1>2, <1>3, LimiterAssumption DEF Init, PermitsBalance
  <1> QED
    BY <1>1, <1>4 DEF SemaphoreInv

\* Every step moves a permit between a semaphore and one execution.
LEMMA SemaphoreStep == SemaphoreInv /\ [Next]_vars => SemaphoreInv'
  <1> SUFFICES ASSUME SemaphoreInv, [Next]_vars PROVE SemaphoreInv'
    OBVIOUS
  <1> USE LimiterAssumption
  <1>1. /\ LocalTypes /\ PermitsBalance
        /\ InSlot \in SUBSET Executions
        /\ \A b \in Branches : OnBranch(b) \in SUBSET Executions
    BY LimiterAssumption DEF SemaphoreInv, InSlot, OnBranch
  <1>2. ASSUME slots' \in Int, permits' \in [Branches -> Int], slots' >= 0,
               \A b \in Branches : permits'[b] >= 0, PermitsBalance'
        PROVE  slots' \in 0..GlobalMax /\ permits' \in [Branches -> 0..PerBranch]
    <2>1. InSlot' \in SUBSET Executions /\ \A b \in Branches : OnBranch(b)' \in SUBSET Executions
      BY DEF InSlot, OnBranch
    <2>2. Cardinality(InSlot') \in Nat
      BY <2>1, ExecutionSets
    <2>3. \A b \in Branches : Cardinality(OnBranch(b)') \in Nat
      BY <2>1, ExecutionSets
    <2>4. slots' \in 0..GlobalMax
      BY <1>2, <2>2 DEF PermitsBalance
    <2>5. ASSUME NEW b \in Branches PROVE permits'[b] \in 0..PerBranch
      <3>1. permits'[b] + Cardinality(OnBranch(b)') = PerBranch /\ permits'[b] \in Int
        BY <1>2 DEF PermitsBalance
      <3> QED
        BY <1>2, <2>3, <3>1
    <2> QED
      BY <1>2, <2>4, <2>5
  <1>3. CASE UNCHANGED vars
    BY <1>1, <1>3 DEF SemaphoreInv, LocalTypes, PlacesOK, SemaphoresOK, LocalPlaces,
       RedisPlaces, PermitsBalance, InSlot, OnBranch,
           vars, semaphores, redis
  <1>4. ASSUME NEW e \in Executions, Enter(e) PROVE SemaphoreInv'
    <2>1. /\ InSlot' = InSlot \cup {e} /\ e \notin InSlot
          /\ \A b \in Branches : OnBranch(b)' = OnBranch(b)
      BY <1>1, <1>4 DEF Enter, InSlot, OnBranch, LocalTypes, PlacesOK, SemaphoresOK,
         LocalPlaces, RedisPlaces
    <2>2. Cardinality(InSlot') = Cardinality(InSlot) + 1 /\ Cardinality(InSlot) \in Nat
      BY <1>1, <2>1, ExecutionSets
    <2>3. PermitsBalance'
      BY <1>1, <1>4, <2>1, <2>2 DEF Enter, PermitsBalance, LocalTypes, PlacesOK,
         SemaphoresOK, LocalPlaces, RedisPlaces
    <2>4. LocalTypes'
      BY <1>1, <1>4 DEF Enter, LocalTypes, PlacesOK, SemaphoresOK, LocalPlaces, RedisPlaces
    <2> QED
      BY <2>3, <2>4 DEF SemaphoreInv
  <1>5. ASSUME NEW e \in Executions, ReturnEarly(e) \/ Return(e) PROVE SemaphoreInv'
    <2>1. InSlot' = InSlot \ {e} /\ e \in InSlot /\ \A b \in Branches : OnBranch(b)' = OnBranch(b)
      BY <1>1, <1>5 DEF ReturnEarly, Return, InSlot, OnBranch, LocalTypes, PlacesOK,
         SemaphoresOK, LocalPlaces, RedisPlaces
    <2>2. Cardinality(InSlot') = Cardinality(InSlot) - 1 /\ Cardinality(InSlot) \in Nat
      BY <1>1, <2>1, ExecutionSets
    <2>3. slots' = slots + 1 /\ permits' = permits
      BY <1>5 DEF ReturnEarly, Return
    <2>4. PermitsBalance'
      BY <1>1, <2>1, <2>2, <2>3 DEF PermitsBalance, LocalTypes, PlacesOK, SemaphoresOK,
         LocalPlaces, RedisPlaces
    <2>5. PlacesOK'
      BY <1>1, <1>5 DEF ReturnEarly, Return, LocalTypes, PlacesOK, SemaphoresOK,
         LocalPlaces, RedisPlaces
    <2>6. slots' \in Int /\ slots' >= 0 /\ permits' \in [Branches -> Int]
          /\ \A b \in Branches : permits'[b] >= 0
      BY <1>1, <2>3 DEF LocalTypes, PlacesOK, SemaphoresOK, LocalPlaces, RedisPlaces
    <2> QED
      BY <1>2, <2>4, <2>5, <2>6 DEF SemaphoreInv, LocalTypes, PlacesOK, SemaphoresOK,
         LocalPlaces, RedisPlaces
  <1>6. ASSUME NEW e \in Executions, Claim(e) PROVE SemaphoreInv'
    <2>1. InSlot' = InSlot /\ \A b \in Branches : OnBranch(b)' = OnBranch(b)
      BY <1>1, <1>6 DEF Claim, InSlot, OnBranch, LocalTypes, PlacesOK, SemaphoresOK,
         LocalPlaces, RedisPlaces
    <2>2. PermitsBalance'
      BY <1>1, <1>6, <2>1 DEF Claim, PermitsBalance, semaphores
    <2>3. LocalTypes'
      BY <1>1, <1>6 DEF Claim, semaphores, LocalTypes, PlacesOK, SemaphoresOK, LocalPlaces,
         RedisPlaces
    <2> QED
      BY <2>2, <2>3 DEF SemaphoreInv
  <1>7. ASSUME NEW e \in Executions, AcquireBranch(e) PROVE SemaphoreInv'
    <2> DEFINE own == BranchOf[e]
    <2>1. /\ own \in Branches /\ e \notin OnBranch(own)
          /\ InSlot' = InSlot
          /\ OnBranch(own)' = OnBranch(own) \cup {e}
          /\ \A b \in Branches \ {own} : OnBranch(b)' = OnBranch(b)
      BY <1>1, <1>7 DEF AcquireBranch, InSlot, OnBranch, LocalTypes, PlacesOK,
         SemaphoresOK, LocalPlaces, RedisPlaces
    <2>2. Cardinality(OnBranch(own)') = Cardinality(OnBranch(own)) + 1
          /\ Cardinality(OnBranch(own)) \in Nat
      BY <1>1, <2>1, ExecutionSets
    <2>3. permits'[own] = permits[own] - 1 /\ permits[own] > 0 /\ slots' = slots
          /\ \A b \in Branches \ {own} : permits'[b] = permits[b]
      BY <1>1, <1>7, <2>1 DEF AcquireBranch, LocalTypes, PlacesOK, SemaphoresOK,
         LocalPlaces, RedisPlaces
    <2>4. LocalTypes'
      BY <1>1, <1>7 DEF AcquireBranch, LocalTypes, PlacesOK, SemaphoresOK, LocalPlaces,
         RedisPlaces
    <2>5. permits[own] + Cardinality(OnBranch(own)) = PerBranch /\ permits[own] \in Int
      BY <1>1, <2>1 DEF PermitsBalance, LocalTypes, PlacesOK, SemaphoresOK, LocalPlaces,
         RedisPlaces
    <2>6. permits'[own] + Cardinality(OnBranch(own)') = PerBranch
      BY <2>2, <2>3, <2>5
    <2>7. PermitsBalance'
      BY <1>1, <2>1, <2>3, <2>6 DEF PermitsBalance
    <2> QED
      BY <2>4, <2>7 DEF SemaphoreInv
  <1>8. ASSUME NEW e \in Executions, ReleaseBranch(e) PROVE SemaphoreInv'
    <2> DEFINE own == BranchOf[e]
    <2>1. /\ own \in Branches /\ e \in OnBranch(own)
          /\ InSlot' = InSlot
          /\ OnBranch(own)' = OnBranch(own) \ {e}
          /\ \A b \in Branches \ {own} : OnBranch(b)' = OnBranch(b)
      BY <1>1, <1>8 DEF ReleaseBranch, InSlot, OnBranch, LocalTypes, PlacesOK,
         SemaphoresOK, LocalPlaces, RedisPlaces
    <2>2. Cardinality(OnBranch(own)') = Cardinality(OnBranch(own)) - 1
          /\ Cardinality(OnBranch(own)) \in Nat
      BY <1>1, <2>1, ExecutionSets
    <2>3. permits'[own] = permits[own] + 1 /\ slots' = slots
          /\ \A b \in Branches \ {own} : permits'[b] = permits[b]
      BY <1>1, <1>8, <2>1 DEF ReleaseBranch, LocalTypes, PlacesOK, SemaphoresOK,
         LocalPlaces, RedisPlaces
    <2>4. permits[own] + Cardinality(OnBranch(own)) = PerBranch /\ permits[own] \in Int
      BY <1>1, <2>1 DEF PermitsBalance, LocalTypes, PlacesOK, SemaphoresOK, LocalPlaces,
         RedisPlaces
    <2>5. permits'[own] + Cardinality(OnBranch(own)') = PerBranch
      BY <2>2, <2>3, <2>4
    <2>6. PermitsBalance'
      BY <1>1, <2>1, <2>3, <2>5 DEF PermitsBalance
    <2>7. /\ permits' \in [Branches -> Int] /\ slots' \in Int /\ slots' >= 0
          /\ \A b \in Branches : permits'[b] >= 0
      BY <1>1, <1>8, <2>1, <2>3 DEF ReleaseBranch, LocalTypes, PlacesOK, SemaphoresOK,
         LocalPlaces, RedisPlaces
    <2>8. PlacesOK'
      BY <1>1, <1>8 DEF ReleaseBranch, LocalTypes, PlacesOK, SemaphoresOK, LocalPlaces,
         RedisPlaces
    <2> QED
      BY <1>2, <2>6, <2>7, <2>8 DEF SemaphoreInv, LocalTypes, PlacesOK, SemaphoresOK,
         LocalPlaces, RedisPlaces
  <1>9. CASE \/ \E e \in Executions : Acquire(e) \/ Release(e) \/ Crash(e)
            \/ ExpireGlobal \/ \E b \in Branches : ExpireBranch(b)
    <2>1. \A i \in InProcess : pc'[i] = pc[i]
      BY <1>1, <1>9, RedisIsApart DEF LocalTypes
    <2>2. UNCHANGED semaphores
      BY <1>9 DEF Acquire, CheckGlobal, CheckBranch, Register, Timeout, Release, Crash,
                  ExpireGlobal, ExpireBranch
    <2>3. InSlot' = InSlot /\ \A b \in Branches : OnBranch(b)' = OnBranch(b)
      BY <2>1 DEF InSlot, OnBranch
    <2>4. PlacesOK'
      BY <1>1, PlacesStep DEF LocalTypes
    <2> QED
      BY <1>1, <2>2, <2>3, <2>4
      DEF SemaphoreInv, LocalTypes, SemaphoresOK, semaphores, PermitsBalance
  <1> QED
    BY <1>3, <1>4, <1>5, <1>6, <1>7, <1>8, <1>9 DEF Next, LocalStep

\* Whatever executions do and however they end, semaphores and executions together hold
\* exactly the limits: no execution can starve because a permit was lost.
THEOREM PermitsAreKept == Spec => []PermitsBalance
  <1>1. Init => SemaphoreInv
    BY SemaphoreInit
  <1>2. SemaphoreInv /\ [Next]_vars => SemaphoreInv'
    BY SemaphoreStep
  <1>3. SemaphoreInv => PermitsBalance
    BY DEF SemaphoreInv
  <1> QED
    BY <1>1, <1>2, <1>3, PTL DEF Spec

\* The Cardinality that BranchQuota's instance brings with it is the same operator.
LEMMA QuotaCardinality == \A S : Quota!Cardinality(S) = Cardinality(S)
  BY DEF Quota!Cardinality, Cardinality

\* Taking the branch's permit is a Connect of BranchQuota, giving it back a Disconnect,
\* and every other step leaves the connections alone.
LEMMA QuotaStep == SemaphoreInv /\ [Next]_vars => [Quota!Next]_Connected
  <1> SUFFICES ASSUME SemaphoreInv, [Next]_vars PROVE [Quota!Next]_Connected
    OBVIOUS
  <1> USE LimiterAssumption
  <1>1. LocalTypes /\ PermitsBalance
    BY DEF SemaphoreInv
  <1>2. CASE UNCHANGED vars
    BY <1>2 DEF vars, semaphores, redis, Connected
  <1>3. ASSUME NEW e \in Executions, Enter(e) \/ ReturnEarly(e) \/ Claim(e) \/ Return(e)
        PROVE  Connected' = Connected
    BY <1>1, <1>3 DEF Enter, ReturnEarly, Claim, Return, Connected, LocalTypes, PlacesOK,
       SemaphoresOK, LocalPlaces, RedisPlaces
  <1>4. ASSUME NEW e \in Executions, AcquireBranch(e) PROVE Quota!Connect(e)
    <2>1. /\ e \notin Connected /\ Connected' = Connected \cup {e}
          /\ Connected \in SUBSET Executions /\ InSlot \in SUBSET Executions
          /\ Connected \cup {e} \subseteq InSlot
      BY <1>1, <1>4 DEF AcquireBranch, Connected, InSlot, LocalTypes, PlacesOK,
         SemaphoresOK, LocalPlaces, RedisPlaces
    <2>2. Cardinality(Connected) < GlobalMax
      <3>1. Cardinality(Connected \cup {e}) = Cardinality(Connected) + 1
            /\ Cardinality(Connected) \in Nat
        BY <2>1, ExecutionSets
      <3>2. Cardinality(Connected \cup {e}) <= Cardinality(InSlot)
        BY <2>1, ExecutionSets, FS_Subset
      <3>3. Cardinality(InSlot) \in Nat
        BY <2>1, ExecutionSets
      <3> QED
        BY <1>1, <3>1, <3>2, <3>3 DEF PermitsBalance, LocalTypes, PlacesOK, SemaphoresOK,
           LocalPlaces, RedisPlaces
    <2>3. Cardinality(Quota!Neighbours(e)) < PerBranch
      <3>1. Quota!Neighbours(e) = OnBranch(BranchOf[e]) /\ BranchOf[e] \in Branches
        BY DEF Quota!Neighbours, OnBranch, Connected
      <3>2. permits[BranchOf[e]] + Cardinality(OnBranch(BranchOf[e])) = PerBranch
            /\ permits[BranchOf[e]] \in Nat /\ permits[BranchOf[e]] > 0
        BY <1>1, <1>4, <3>1 DEF AcquireBranch, PermitsBalance, LocalTypes, PlacesOK,
           SemaphoresOK, LocalPlaces, RedisPlaces
      <3>3. OnBranch(BranchOf[e]) \in SUBSET Executions
        BY DEF OnBranch
      <3>4. Cardinality(OnBranch(BranchOf[e])) \in Nat
        BY <3>3, ExecutionSets
      <3> QED
        BY <3>1, <3>2, <3>4
    <2> QED
      BY <2>1, <2>2, <2>3, QuotaCardinality DEF Quota!Connect
  <1>5. ASSUME NEW e \in Executions, ReleaseBranch(e) PROVE Quota!Disconnect(e)
    BY <1>1, <1>5 DEF ReleaseBranch, Connected, LocalTypes, PlacesOK, SemaphoresOK,
       LocalPlaces, RedisPlaces, Quota!Disconnect
  <1>6. CASE \/ \E e \in Executions : Acquire(e) \/ Release(e) \/ Crash(e)
            \/ ExpireGlobal \/ \E b \in Branches : ExpireBranch(b)
    BY <1>1, <1>6, RedisIsApart DEF LocalTypes, Connected
  <1>7. \A e \in Executions : AcquireBranch(e) \/ ReleaseBranch(e) => e \in InProcess
    BY <1>1 DEF AcquireBranch, ReleaseBranch, LocalTypes, PlacesOK, LocalPlaces, RedisPlaces
  <1> QED
    BY <1>7, <1>2, <1>3, <1>4, <1>5, <1>6 DEF Next, LocalStep, Quota!Next

\* The in-process limiter implements BranchQuota: at no time are more than GlobalMax
\* executions connected, or more than PerBranch to the cashiers of one branch.
THEOREM QuotaIsKept == Spec => KeepsQuota
  <1>1. Init => Quota!Init
    BY LimiterAssumption DEF Init, Connected, Quota!Init
  <1>2. SemaphoreInv /\ [Next]_vars => [Quota!Next]_Connected
    BY QuotaStep
  <1>3. Init => SemaphoreInv
    BY SemaphoreInit
  <1>4. SemaphoreInv /\ [Next]_vars => SemaphoreInv'
    BY SemaphoreStep
  <1> QED
    BY <1>1, <1>2, <1>3, <1>4, PTL DEF Spec, KeepsQuota, Quota!Spec
-----------------------------------------------------------------------------
\* An execution whose acquire() returned True works or has released; a token never comes
\* from the future, and is in the set of its own branch only.
Acquired == \A e \in acquired : pc[e] \in {"network", "returned"}

TokensInSets == globalSet \cup UNION {branchSet[b] : b \in Branches}

NoFutureToken == \A t \in TokensInSets : t[2] <= crashes[t[1]]

OwnBranch == \A b \in Branches : \A t \in branchSet[b] : BranchOf[t[1]] = b

TokenInv == RedisTypes /\ Acquired /\ NoFutureToken /\ OwnBranch /\ TokensTellTruth

\* A token of an execution is one of its two sets' elements, and its own.
LEMMA TokenType ==
  ASSUME RedisTypes, NEW e \in Executions
  PROVE  /\ Token(e) \in Executions \X (0..MaxCrashes)
         /\ Token(e)[1] = e /\ Token(e)[2] = crashes[e]
         /\ BranchOf[e] \in Branches
  BY LimiterAssumption DEF RedisTypes, PlacesOK, TokensOK, LocalPlaces, RedisPlaces,
     Distributed, Token

\* Nothing is taken at the start.
LEMMA TokenInit == Init => TokenInv
  BY LimiterAssumption
  DEF Init, TokenInv, RedisTypes, PlacesOK, TokensOK, LocalPlaces, RedisPlaces,
      Distributed, Acquired, NoFutureToken, OwnBranch, TokensInSets,
      TokensTellTruth, Token

\* Steps that only move an execution towards the network, without a slot.
LEMMA WaitingStep ==
  ASSUME TokenInv, NEW e \in Executions, CheckGlobal(e) \/ CheckBranch(e) \/ Timeout(e)
  PROVE  TokenInv'
  <1>1. e \notin acquired
    BY DEF TokenInv, Acquired, CheckGlobal, CheckBranch, Timeout
  <1>2. /\ PlacesOK'
        /\ \A f \in Executions \ {e} : pc'[f] = pc[f]
        /\ UNCHANGED <<acquired, globalSet, branchSet, lapsed, crashes>>
    BY DEF TokenInv, RedisTypes, PlacesOK, TokensOK, LocalPlaces, RedisPlaces, Distributed,
           CheckGlobal, CheckBranch, Timeout, redis
  <1>3. RedisTypes' /\ Acquired' /\ NoFutureToken' /\ OwnBranch'
    BY <1>1, <1>2 DEF TokenInv, RedisTypes, PlacesOK, TokensOK, LocalPlaces, RedisPlaces,
       Distributed, Acquired, NoFutureToken, OwnBranch, TokensInSets
  <1>4. TokensTellTruth'
    BY <1>1, <1>2 DEF TokenInv, RedisTypes, PlacesOK, TokensOK, LocalPlaces, RedisPlaces,
       Distributed, TokensTellTruth, Token
  <1> QED
    BY <1>3, <1>4 DEF TokenInv

\* Registering puts the token where TokensTellTruth looks for it.
LEMMA RegisterStep ==
  ASSUME TokenInv, NEW e \in Executions, Register(e)
  PROVE  TokenInv'
  <1> DEFINE own == BranchOf[e]
  <1>1. /\ RedisTypes
        /\ Token(e) \in Executions \X (0..MaxCrashes)
        /\ Token(e)[1] = e /\ Token(e)[2] = crashes[e]
        /\ own \in Branches /\ crashes[e] \in Nat
    BY TokenType DEF TokenInv, RedisTypes, PlacesOK, TokensOK, LocalPlaces, RedisPlaces,
       Distributed
  <1>2. /\ globalSet' = globalSet \cup {Token(e)}
        /\ branchSet'[own] = branchSet[own] \cup {Token(e)}
        /\ \A b \in Branches \ {own} : branchSet'[b] = branchSet[b]
        /\ acquired' = acquired \cup {e}
        /\ pc'[e] = "network" /\ \A f \in Executions \ {e} : pc'[f] = pc[f]
        /\ UNCHANGED <<lapsed, crashes>>
    BY <1>1 DEF Register, RedisTypes, PlacesOK, TokensOK, LocalPlaces, RedisPlaces,
       Distributed
  <1>3. RedisTypes'
    BY <1>1, <1>2 DEF Register, RedisTypes, PlacesOK, TokensOK, LocalPlaces, RedisPlaces,
       Distributed
  <1>4. Acquired' /\ OwnBranch'
    BY <1>1, <1>2 DEF TokenInv, RedisTypes, PlacesOK, TokensOK, LocalPlaces, RedisPlaces,
       Distributed, Acquired, OwnBranch
  <1>5. TokensInSets' = TokensInSets \cup {Token(e)}
    BY <1>1, <1>2 DEF TokensInSets
  <1>6. NoFutureToken'
    BY <1>1, <1>2, <1>5 DEF TokenInv, NoFutureToken
  <1>7. \A f \in Executions : Token(f)' = Token(f)
    BY <1>2 DEF Token
  <1>8. ASSUME NEW f \in acquired' \ lapsed', pc'[f] = "network"
        PROVE  Token(f)' \in globalSet' \cap branchSet'[BranchOf[f]]
    <2>1. CASE f = e
      BY <1>2, <1>7, <2>1
    <2>2. CASE f # e
      <3>1. Token(f) \in globalSet \cap branchSet[BranchOf[f]] /\ BranchOf[f] \in Branches
            /\ f \in Executions
        BY <1>1, <1>2, <1>8, <2>2, LimiterAssumption DEF TokenInv, RedisTypes, PlacesOK,
           TokensOK, LocalPlaces, RedisPlaces, Distributed, TokensTellTruth
      <3> QED
        BY <1>2, <1>7, <3>1
    <2> QED
      BY <2>1, <2>2
  <1>9. ASSUME NEW t \in TokensInSets'
        PROVE  t[2] < crashes'[t[1]] \/ (t[1] \in acquired' /\ pc'[t[1]] = "network")
    BY <1>1, <1>2, <1>5, <1>9 DEF TokenInv, RedisTypes, PlacesOK, TokensOK, LocalPlaces,
       RedisPlaces, Distributed, TokensTellTruth, TokensInSets
  <1>10. TokensTellTruth'
    BY <1>8, <1>9 DEF TokensTellTruth, TokensInSets
  <1> QED
    BY <1>3, <1>4, <1>6, <1>10 DEF TokenInv

\* Releasing takes the execution's own token out of both sets, and nobody else's.
LEMMA ReleaseStep ==
  ASSUME TokenInv, NEW e \in Executions, Release(e)
  PROVE  TokenInv'
  <1>1. /\ RedisTypes
        /\ Token(e)[1] = e /\ Token(e)[2] = crashes[e]
        /\ BranchOf[e] \in Branches
    BY TokenType DEF TokenInv
  <1>2. /\ globalSet' \subseteq globalSet
        /\ \A b \in Branches : branchSet'[b] \subseteq branchSet[b]
        /\ globalSet \ {Token(e)} \subseteq globalSet'
        /\ \A b \in Branches : branchSet[b] \ {Token(e)} \subseteq branchSet'[b]
        /\ e \in acquired => /\ Token(e) \notin globalSet'
                             /\ Token(e) \notin branchSet'[BranchOf[e]]
        /\ pc'[e] = "returned" /\ \A f \in Executions \ {e} : pc'[f] = pc[f]
        /\ UNCHANGED <<acquired, lapsed, crashes>>
    BY <1>1 DEF Release, RedisTypes, PlacesOK, TokensOK, LocalPlaces, RedisPlaces,
       Distributed
  <1>3. RedisTypes'
    BY <1>1 DEF Release, RedisTypes, PlacesOK, TokensOK, LocalPlaces, RedisPlaces,
       Distributed
  <1>4. Acquired' /\ OwnBranch'
    BY <1>1, <1>2 DEF TokenInv, RedisTypes, PlacesOK, TokensOK, LocalPlaces, RedisPlaces,
       Distributed, Acquired, OwnBranch
  <1>5. TokensInSets' \subseteq TokensInSets
    BY <1>2 DEF TokensInSets
  <1>6. NoFutureToken'
    BY <1>2, <1>5 DEF TokenInv, NoFutureToken
  <1>7. \A f \in Executions : Token(f)' = Token(f)
    BY <1>2 DEF Token
  <1>8. ASSUME NEW f \in acquired' \ lapsed', pc'[f] = "network"
        PROVE  Token(f)' \in globalSet' \cap branchSet'[BranchOf[f]]
    <2>1. f \in Executions /\ f # e /\ BranchOf[f] \in Branches
      BY <1>1, <1>2, <1>8, LimiterAssumption DEF RedisTypes, PlacesOK, TokensOK,
         LocalPlaces, RedisPlaces, Distributed
    <2>2. Token(f) \in globalSet \cap branchSet[BranchOf[f]]
      BY <1>2, <1>8, <2>1 DEF TokenInv, TokensTellTruth
    <2>3. Token(f) # Token(e)
      BY <2>1 DEF Token
    <2> QED
      BY <1>2, <1>7, <2>1, <2>2, <2>3
  <1>9. ASSUME NEW t \in TokensInSets'
        PROVE  t[2] < crashes'[t[1]] \/ (t[1] \in acquired' /\ pc'[t[1]] = "network")
    <2>1. t \in TokensInSets /\ t \in Executions \X (0..MaxCrashes)
      BY <1>1, <1>5, <1>9 DEF RedisTypes, PlacesOK, TokensOK, LocalPlaces, RedisPlaces,
         Distributed, TokensInSets
    <2>2. t[2] < crashes[t[1]] \/ (t[1] \in acquired /\ pc[t[1]] = "network")
      BY <2>1 DEF TokenInv, TokensTellTruth, TokensInSets
    <2>3. CASE t[1] # e
      BY <1>2, <2>1, <2>2, <2>3
    <2>4. CASE t[1] = e /\ e \in acquired
      <3>1. t # Token(e)
        <4>1. CASE t \in globalSet'
          BY <1>2, <2>4, <4>1
        <4>2. CASE \E b \in Branches : t \in branchSet'[b]
          BY <1>2, <2>4, <4>2 DEF TokenInv, OwnBranch
        <4> QED
          BY <4>1, <4>2 DEF TokensInSets
      <3>2. t[2] # crashes[e]
        BY <2>1, <2>4, <3>1 DEF Token
      <3>3. t[2] <= crashes[e] /\ t[2] \in Nat /\ crashes[e] \in Nat
        BY <1>1, <2>1, <2>4 DEF TokenInv, NoFutureToken, RedisTypes, PlacesOK, TokensOK,
           LocalPlaces, RedisPlaces, Distributed
      <3> QED
        BY <1>2, <2>4, <3>2, <3>3
    <2>5. CASE t[1] = e /\ e \notin acquired
      BY <1>2, <2>2, <2>5
    <2> QED
      BY <2>3, <2>4, <2>5
  <1>10. TokensTellTruth'
    BY <1>8, <1>9 DEF TokensTellTruth, TokensInSets
  <1> QED
    BY <1>3, <1>4, <1>6, <1>10 DEF TokenInv

\* A key that expires takes tokens away, and lapsed remembers whose.
LEMMA ExpiryStep ==
  ASSUME TokenInv, ExpireGlobal \/ \E b \in Branches : ExpireBranch(b)
  PROVE  TokenInv'
  <1>1. /\ RedisTypes
        /\ UNCHANGED <<pc, acquired, crashes>>
        /\ globalSet' \subseteq globalSet
        /\ \A b \in Branches : branchSet'[b] \subseteq branchSet[b]
        /\ lapsed \subseteq lapsed' /\ lapsed' \subseteq Executions
    BY DEF TokenInv, RedisTypes, PlacesOK, TokensOK, LocalPlaces, RedisPlaces, Distributed,
       ExpireGlobal, ExpireBranch
  <1>2. RedisTypes'
    BY <1>1 DEF ExpireGlobal, ExpireBranch, RedisTypes, PlacesOK, TokensOK, LocalPlaces,
       RedisPlaces, Distributed
  <1>3. TokensInSets' \subseteq TokensInSets
    BY <1>1 DEF TokensInSets
  <1>4. Acquired' /\ NoFutureToken' /\ OwnBranch'
    BY <1>1, <1>3 DEF TokenInv, Acquired, NoFutureToken, OwnBranch
  <1>5. ASSUME NEW f \in acquired' \ lapsed', pc'[f] = "network"
        PROVE  Token(f)' \in globalSet' \cap branchSet'[BranchOf[f]]
    <2>1. /\ f \in Executions /\ BranchOf[f] \in Branches /\ Token(f)' = Token(f)
          /\ Token(f) \in globalSet \cap branchSet[BranchOf[f]]
      BY <1>1, <1>5, LimiterAssumption DEF TokenInv, RedisTypes, PlacesOK, TokensOK,
         LocalPlaces, RedisPlaces, Distributed, TokensTellTruth, Token
    <2>2. ~ExpireGlobal
      BY <1>5, <2>1 DEF ExpireGlobal
    <2>3. PICK b \in Branches : ExpireBranch(b)
      BY <2>2
    <2>4. b # BranchOf[f]
      BY <1>5, <2>1, <2>3 DEF ExpireBranch
    <2> QED
      BY <1>1, <2>1, <2>3, <2>4 DEF ExpireBranch, RedisTypes, PlacesOK, TokensOK,
         LocalPlaces, RedisPlaces, Distributed
  <1>6. TokensTellTruth'
    BY <1>1, <1>3, <1>5 DEF TokenInv, TokensTellTruth, TokensInSets
  <1> QED
    BY <1>2, <1>4, <1>6 DEF TokenInv

\* A crash leaves the token behind as one of the past, and the execution starts over.
LEMMA CrashStep ==
  ASSUME TokenInv, NEW e \in Executions, Crash(e)
  PROVE  TokenInv'
  <1>1. /\ RedisTypes
        /\ crashes'[e] = crashes[e] + 1
        /\ \A f \in Executions \ {e} : crashes'[f] = crashes[f] /\ pc'[f] = pc[f]
        /\ \A f \in Executions : crashes[f] \in Nat /\ crashes'[f] >= crashes[f]
        /\ acquired' = acquired \ {e} /\ lapsed' = lapsed \ {e}
        /\ UNCHANGED <<globalSet, branchSet>>
    BY DEF TokenInv, RedisTypes, PlacesOK, TokensOK, LocalPlaces, RedisPlaces, Distributed,
       Crash
  <1>2. RedisTypes'
    BY <1>1, LimiterAssumption DEF Crash, RedisTypes, PlacesOK, TokensOK, LocalPlaces,
       RedisPlaces, Distributed
  <1>3. Acquired' /\ OwnBranch'
    BY <1>1 DEF TokenInv, RedisTypes, PlacesOK, TokensOK, LocalPlaces, RedisPlaces,
       Distributed, Acquired, OwnBranch
  <1>4. \A t \in TokensInSets' : t \in TokensInSets /\ t[1] \in Executions /\ t[2] \in Nat
    BY <1>1 DEF TokensInSets, RedisTypes, PlacesOK, TokensOK, LocalPlaces, RedisPlaces,
       Distributed
  <1>5. \A t \in TokensInSets : t[2] <= crashes[t[1]]
    BY DEF TokenInv, NoFutureToken
  <1>6. NoFutureToken'
    BY <1>1, <1>2, <1>4, <1>5 DEF NoFutureToken, RedisTypes, PlacesOK, TokensOK,
       LocalPlaces, RedisPlaces, Distributed
  <1>7. ASSUME NEW f \in acquired' \ lapsed', pc'[f] = "network"
        PROVE  Token(f)' \in globalSet' \cap branchSet'[BranchOf[f]]
    <2>1. f \in Executions /\ f # e /\ f \in acquired \ lapsed
      BY <1>1, <1>7 DEF RedisTypes, PlacesOK, TokensOK, LocalPlaces, RedisPlaces,
         Distributed
    <2>2. Token(f)' = Token(f) /\ pc[f] = "network"
      BY <1>1, <1>7, <2>1 DEF Token
    <2> QED
      BY <1>1, <2>1, <2>2 DEF TokenInv, TokensTellTruth
  <1>8. ASSUME NEW t \in TokensInSets'
        PROVE  t[2] < crashes'[t[1]] \/ (t[1] \in acquired' /\ pc'[t[1]] = "network")
    <2>1. t \in TokensInSets /\ t[1] \in Executions /\ t[2] \in Nat /\ t[2] <= crashes[t[1]]
      BY <1>4, <1>5
    <2>2. t[2] < crashes[t[1]] \/ (t[1] \in acquired /\ pc[t[1]] = "network")
      BY <2>1 DEF TokenInv, TokensTellTruth, TokensInSets
    <2>3. CASE t[1] = e
      BY <1>1, <2>1, <2>3
    <2>4. CASE t[1] # e
      BY <1>1, <2>1, <2>2, <2>4
    <2> QED
      BY <2>3, <2>4
  <1>9. TokensTellTruth'
    BY <1>7, <1>8 DEF TokensTellTruth, TokensInSets
  <1> QED
    BY <1>2, <1>3, <1>6, <1>9 DEF TokenInv

\* A step of an execution in the API process touches no token and no execution that has one.
LEMMA LocalIsApart ==
  ASSUME TokenInv, NEW e \in Executions, LocalStep(e)
  PROVE  TokenInv'
  <1>1. /\ e \in InProcess
        /\ pc' \in [Executions -> LocalPlaces \cup RedisPlaces]
        /\ \A f \in Executions \ {e} : pc'[f] = pc[f]
        /\ UNCHANGED redis
    BY DEF TokenInv, RedisTypes, PlacesOK, LocalPlaces, RedisPlaces, LocalStep, Enter,
           ReturnEarly, Claim, AcquireBranch, ReleaseBranch, Return
  <1>2. e \notin acquired /\ acquired \subseteq Executions
    BY <1>1 DEF TokenInv, RedisTypes, TokensOK, Distributed
  <1>3. \A f \in acquired : pc'[f] = pc[f]
    BY <1>1, <1>2
  <1>4. PlacesOK'
    BY PlacesStep DEF TokenInv, RedisTypes, Next
  <1>5. RedisTypes' /\ Acquired' /\ NoFutureToken' /\ OwnBranch'
    BY <1>1, <1>3, <1>4
    DEF TokenInv, RedisTypes, TokensOK, Acquired, NoFutureToken, OwnBranch, TokensInSets,
        redis
  <1>6. TokensTellTruth'
    BY <1>1, <1>3 DEF TokenInv, TokensTellTruth, Token, redis
  <1> QED
    BY <1>5, <1>6 DEF TokenInv

\* Every step keeps the invariant.
LEMMA TokenStep == TokenInv /\ [Next]_vars => TokenInv'
  <1> SUFFICES ASSUME TokenInv, [Next]_vars PROVE TokenInv'
    OBVIOUS
  <1>1. CASE UNCHANGED vars
    BY <1>1
    DEF vars, semaphores, redis, TokenInv, RedisTypes, PlacesOK, TokensOK, LocalPlaces,
        RedisPlaces, Distributed, Acquired, NoFutureToken, OwnBranch, TokensInSets,
        TokensTellTruth, Token
  <1>2. ASSUME NEW e \in Executions, Acquire(e) \/ Release(e) \/ Crash(e)
        PROVE  TokenInv'
    BY <1>2, WaitingStep, RegisterStep, ReleaseStep, CrashStep DEF Acquire
  <1>3. CASE ExpireGlobal \/ \E b \in Branches : ExpireBranch(b)
    BY <1>3, ExpiryStep
  <1>4. ASSUME NEW e \in Executions, LocalStep(e) PROVE TokenInv'
    BY <1>4, LocalIsApart
  <1> QED
    BY <1>1, <1>2, <1>3, <1>4 DEF Next

\* An execution that took a slot is in both token sets until it releases it or a key
\* expires, and a token in a set belongs to such an execution or to a dead process.
THEOREM SetsTellTruth == Spec => []TokensTellTruth
  <1>1. Init => TokenInv
    BY TokenInit
  <1>2. TokenInv /\ [Next]_vars => TokenInv'
    BY TokenStep
  <1>3. TokenInv => TokensTellTruth
    BY DEF TokenInv
  <1> QED
    BY <1>1, <1>2, <1>3, PTL DEF Spec
\* Type correctness, from the two invariants.
THEOREM TypesAreKept == Spec => []TypeOK
  <1>1. Init => SemaphoreInv /\ TokenInv
    BY SemaphoreInit, TokenInit
  <1>2. SemaphoreInv /\ TokenInv /\ [Next]_vars => (SemaphoreInv /\ TokenInv)'
    BY SemaphoreStep, TokenStep
  <1>3. SemaphoreInv /\ TokenInv => TypeOK
    BY DEF SemaphoreInv, LocalTypes, TokenInv, RedisTypes, TypeOK
  <1> QED
    BY <1>1, <1>2, <1>3, PTL DEF Spec
=============================================================================
