-------------------------- MODULE ConnectionLimits --------------------------
(***************************************************************************)
(* The two limits on SSH connections in workers/main.py.  Executions that  *)
(* run in the API process, when Redis is absent, take asyncio semaphores:  *)
(* one for the process before Phase 1, kept while they wait for the one of *)
(* their branch.  Executions in the worker processes use                   *)
(* DistributedBranchLimiter (concurrency_limiter.py): two Redis sets of    *)
(* tokens, read one after the other and then written in one pipeline, with *)
(* an expiry that every registration renews.  Neither counts the other's.  *)
(***************************************************************************)
EXTENDS Naturals, FiniteSets

CONSTANTS
  Executions,  \* the executions of cashier jobs
  InProcess,   \* those launched as background tasks of the API
  Branches,
  BranchOf,    \* the branch of each execution's cashier
  GlobalMax,   \* settings.WORKER_CONCURRENCY
  PerBranch,   \* settings.MAX_CONCURRENT_PER_BRANCH
  Events,      \* what may happen: "timeout", "expiry", "crash"
  MaxCrashes   \* bound on crashes of a worker process

ASSUME LimiterAssumption ==
  /\ IsFiniteSet(Executions) /\ InProcess \subseteq Executions
  /\ BranchOf \in [Executions -> Branches]
  /\ GlobalMax \in Nat \ {0} /\ PerBranch \in Nat \ {0}
  /\ Events \subseteq {"timeout", "expiry", "crash"}
  /\ MaxCrashes \in Nat

VARIABLES
  pc,          \* where each execution is
  slots,       \* the value of the API process's semaphore
  permits,     \* the value of the semaphore of each branch in the API process
  acquired,    \* the executions whose acquire() has returned True
  globalSet,   \* the tokens in sem:global_workers
  branchSet,   \* the tokens in each sem:branch:<id>
  lapsed,      \* history: the executions whose token has expired with its key
  crashes      \* how many processes have crashed under an execution

semaphores == <<slots, permits>>
redis == <<acquired, globalSet, branchSet, lapsed, crashes>>
vars == <<pc, semaphores, redis>>

Distributed == Executions \ InProcess

\* uuid4 in __init__: an execution that is delivered again has a new token.
Token(e) == <<e, crashes[e]>>

Init ==
  /\ pc = [e \in Executions |-> IF e \in InProcess THEN "launched" ELSE "check_global"]
  /\ slots = GlobalMax
  /\ permits = [b \in Branches |-> PerBranch]
  /\ acquired = {}
  /\ globalSet = {}
  /\ branchSet = [b \in Branches |-> {}]
  /\ lapsed = {}
  /\ crashes = [e \in Executions |-> 0]
-----------------------------------------------------------------------------
(* An execution in the API process. *)

\* async with get_in_process_limiter(): ...
Enter(e) ==
  /\ pc[e] = "launched" /\ slots > 0
  /\ pc' = [pc EXCEPT ![e] = "phase1"]
  /\ slots' = slots - 1
  /\ UNCHANGED <<permits, redis>>

\* mutant: the branch's permit is given back even if it was not taken
ReturnEarlyReleasing(e) ==
  /\ pc[e] = "phase1"
  /\ pc' = [pc EXCEPT ![e] = "returned"]
  /\ slots' = slots + 1
  /\ permits' = [permits EXCEPT ![BranchOf[e]] = @ + 1]
  /\ UNCHANGED redis

\* Phase 1 returns or raises before the branch's semaphore: no job, cashier or block.
ReturnEarly(e) ==
  /\ pc[e] = "phase1"
  /\ pc' = [pc EXCEPT ![e] = "returned"]
  /\ slots' = slots + 1
  /\ UNCHANGED <<permits, redis>>

\* Phase 1 has marked the job RUNNING; the branch's semaphore is next.
Claim(e) ==
  /\ pc[e] = "phase1"
  /\ pc' = [pc EXCEPT ![e] = "waiting"]
  /\ UNCHANGED <<semaphores, redis>>

\* mutant: the coroutine of acquire() is created and not awaited
AcquireBranchUnawaited(e) ==
  /\ pc[e] = "waiting"
  /\ pc' = [pc EXCEPT ![e] = "network"]
  /\ UNCHANGED <<semaphores, redis>>

\* await branch_sem.acquire()
AcquireBranch(e) ==
  /\ pc[e] = "waiting" /\ permits[BranchOf[e]] > 0
  /\ pc' = [pc EXCEPT ![e] = "network"]
  /\ permits' = [permits EXCEPT ![BranchOf[e]] = @ - 1]
  /\ UNCHANGED <<slots, redis>>

\* mutant: an execution that fails does not come to the release
ReleaseBranchSometimes(e) ==
  /\ e \in InProcess /\ pc[e] = "network"
  /\ pc' = [pc EXCEPT ![e] = "phase3"]
  /\ \/ permits' = [permits EXCEPT ![BranchOf[e]] = @ + 1]
     \/ UNCHANGED permits
  /\ UNCHANGED <<slots, redis>>

\* The finally of Phase 2, reached by every outcome of the work on the cashier.
ReleaseBranch(e) ==
  /\ e \in InProcess /\ pc[e] = "network"
  /\ pc' = [pc EXCEPT ![e] = "phase3"]
  /\ permits' = [permits EXCEPT ![BranchOf[e]] = @ + 1]
  /\ UNCHANGED <<slots, redis>>

\* Phase 3 has committed or raised, and the async with ends.
Return(e) ==
  /\ pc[e] = "phase3"
  /\ pc' = [pc EXCEPT ![e] = "returned"]
  /\ slots' = slots + 1
  /\ UNCHANGED <<permits, redis>>

LocalStep(e) ==
  \/ Enter(e) \/ ReturnEarly(e) \/ Claim(e)
  \/ AcquireBranch(e) \/ ReleaseBranch(e) \/ Return(e)
-----------------------------------------------------------------------------
(* An execution in a worker process. *)

\* scard(global_key); when the pool is full the loop sleeps and starts over.
CheckGlobal(e) ==
  /\ pc[e] = "check_global"
  /\ Cardinality(globalSet) < GlobalMax
  /\ pc' = [pc EXCEPT ![e] = "check_branch"]
  /\ UNCHANGED <<semaphores, redis>>

\* scard(branch_key); when the branch is full the loop sleeps and starts over.
CheckBranch(e) ==
  /\ pc[e] = "check_branch"
  /\ pc' = [pc EXCEPT ![e] = IF Cardinality(branchSet[BranchOf[e]]) < PerBranch
                             THEN "register" ELSE "check_global"]
  /\ UNCHANGED <<semaphores, redis>>

\* The pipeline, a transaction: both sadd, and both keys live another 120 s.
Register(e) ==
  /\ pc[e] = "register"
  /\ globalSet' = globalSet \cup {Token(e)}
  /\ branchSet' = [branchSet EXCEPT ![BranchOf[e]] = @ \cup {Token(e)}]
  /\ acquired' = acquired \cup {e}
  /\ pc' = [pc EXCEPT ![e] = "network"]
  /\ UNCHANGED <<semaphores, lapsed, crashes>>

\* mutant: an execution that gets no slot in time is never run
TimeoutDrops(e) ==
  /\ "timeout" \in Events
  /\ pc[e] = "check_global"
  /\ pc' = [pc EXCEPT ![e] = "dropped"]
  /\ UNCHANGED <<semaphores, redis>>

\* The loop ends when it starts over after 45 s: acquire() returns False, and the caller
\* logs it and goes on to the network.
Timeout(e) ==
  /\ "timeout" \in Events
  /\ pc[e] = "check_global"
  /\ pc' = [pc EXCEPT ![e] = "network"]
  /\ UNCHANGED <<semaphores, redis>>

\* mutant: release removes the token from the branch's set only
ReleaseBranchOnly(e) ==
  /\ e \in Distributed /\ pc[e] = "network"
  /\ branchSet' = [branchSet EXCEPT ![BranchOf[e]] = @ \ {Token(e)}]
  /\ pc' = [pc EXCEPT ![e] = "returned"]
  /\ UNCHANGED <<semaphores, acquired, globalSet, lapsed, crashes>>

\* The finally of Phase 2: both srem, if acquire() had returned True.
Release(e) ==
  /\ e \in Distributed /\ pc[e] = "network"
  /\ globalSet' = IF e \in acquired THEN globalSet \ {Token(e)} ELSE globalSet
  /\ branchSet' = IF e \in acquired
                  THEN [branchSet EXCEPT ![BranchOf[e]] = @ \ {Token(e)}] ELSE branchSet
  /\ pc' = [pc EXCEPT ![e] = "returned"]
  /\ UNCHANGED <<semaphores, acquired, lapsed, crashes>>

\* The process of an execution dies, and ARQ delivers the job again; the token stays.
Crash(e) ==
  /\ "crash" \in Events /\ e \in Distributed
  /\ crashes[e] < MaxCrashes
  /\ pc[e] # "returned"
  /\ crashes' = [crashes EXCEPT ![e] = @ + 1]
  /\ pc' = [pc EXCEPT ![e] = "check_global"]
  /\ acquired' = acquired \ {e}
  /\ lapsed' = lapsed \ {e}
  /\ UNCHANGED <<semaphores, globalSet, branchSet>>

Acquire(e) == CheckGlobal(e) \/ CheckBranch(e) \/ Register(e) \/ Timeout(e)

\* A key whose last registration is 120 s old goes, with the tokens of executions that
\* are still at work: job_timeout lets them run for 180 s.
ExpireGlobal ==
  /\ "expiry" \in Events
  /\ globalSet # {}
  /\ lapsed' = lapsed \cup {e \in Executions : Token(e) \in globalSet}
  /\ globalSet' = {}
  /\ UNCHANGED <<pc, semaphores, acquired, branchSet, crashes>>

ExpireBranch(b) ==
  /\ "expiry" \in Events
  /\ branchSet[b] # {}
  /\ lapsed' = lapsed \cup {e \in Executions : Token(e) \in branchSet[b]}
  /\ branchSet' = [branchSet EXCEPT ![b] = {}]
  /\ UNCHANGED <<pc, semaphores, acquired, globalSet, crashes>>

Next ==
  \/ \E e \in Executions : LocalStep(e) \/ Acquire(e) \/ Release(e) \/ Crash(e)
  \/ ExpireGlobal
  \/ \E b \in Branches : ExpireBranch(b)

Spec == Init /\ [][Next]_vars

\* asyncio resumes every task that is ready, semaphores wake their waiters, and acquire()
\* is bounded by its timeout; keys need not expire and processes need not crash.
FairSpec == Spec /\ \A e \in Executions :
  /\ WF_vars(LocalStep(e))
  /\ WF_vars(CheckGlobal(e) \/ CheckBranch(e) \/ Register(e))
  /\ WF_vars(Release(e))
  /\ SF_vars(Timeout(e))
-----------------------------------------------------------------------------
InSlot      == {e \in InProcess : pc[e] \in {"phase1", "waiting", "network", "phase3"}}
OnBranch(b) == {e \in InProcess : pc[e] = "network" /\ BranchOf[e] = b}
Connected   == {e \in InProcess : pc[e] = "network"}

LocalPlaces == {"launched", "phase1", "waiting", "network", "phase3", "returned"}
RedisPlaces == {"check_global", "check_branch", "register", "network", "returned"}

PlacesOK ==
  /\ pc \in [Executions -> LocalPlaces \cup RedisPlaces]
  /\ \A e \in Executions : pc[e] \in IF e \in InProcess THEN LocalPlaces ELSE RedisPlaces

SemaphoresOK ==
  /\ slots \in 0..GlobalMax
  /\ permits \in [Branches -> 0..PerBranch]

TokensOK ==
  /\ acquired \subseteq Distributed /\ lapsed \subseteq Executions
  /\ globalSet \subseteq Executions \X (0..MaxCrashes)
  /\ branchSet \in [Branches -> SUBSET (Executions \X (0..MaxCrashes))]
  /\ crashes \in [Executions -> 0..MaxCrashes]

TypeOK == PlacesOK /\ SemaphoresOK /\ TokensOK

\* No permit is lost and none is made up: what the semaphores have left and what the
\* executions hold always add up to the limits, whichever way executions end.
PermitsBalance ==
  /\ slots + Cardinality(InSlot) = GlobalMax
  /\ \A b \in Branches : permits[b] + Cardinality(OnBranch(b)) = PerBranch

\* The semaphores keep the promise of a limiter, BranchQuota: the API process never has
\* more than GlobalMax connections, nor more than PerBranch to one branch.
Quota == INSTANCE BranchQuota WITH Executions <- InProcess, connected <- Connected
KeepsQuota == Quota!Spec

\* The sets tell who is connected: an execution that took a slot is in both sets until it
\* releases it, unless a key has expired, whatever the others release; and a token that
\* is in a set belongs to such an execution, or to one that died with its process.
TokensTellTruth ==
  /\ \A e \in acquired \ lapsed : pc[e] = "network" =>
       Token(e) \in globalSet \cap branchSet[BranchOf[e]]
  /\ \A t \in globalSet \cup UNION {branchSet[b] : b \in Branches} :
       t[2] < crashes[t[1]] \/ (t[1] \in acquired /\ pc[t[1]] = "network")

\* The docstring and the plan: at most PerBranch SSH connections per branch.
BranchWithinLimit ==
  \A b \in Branches :
    Cardinality({e \in Distributed : pc[e] = "network" /\ BranchOf[e] = b}) <= PerBranch

\* Every execution returns: slots held by executions that wait for a crowded branch never
\* block everybody, and the tokens that dead processes leave in the sets cost an
\* execution its slot, not its turn.
AllReturn == <>(\A e \in Executions : pc[e] = "returned")
=============================================================================
