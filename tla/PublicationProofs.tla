-------------------------- MODULE PublicationProofs --------------------------
(***************************************************************************)
(* Theorems about Publication, and about Publication with its history, for *)
(* every set of jobs, slots and requests and for every event: what Phase 3 *)
(* decides from is truthful, nothing is stranded, a job that nothing has   *)
(* doubled has one owner, and a batch that nothing has disturbed is exact. *)
(***************************************************************************)
EXTENDS PublicationHistory, FiniteSetTheorems, TLAPS

-----------------------------------------------------------------------------
(* Cardinalities of sets of jobs and of slots are natural numbers, and grow *)
(* with the set.                                                            *)
LEMMA JobCount ==
  ASSUME NEW S \in SUBSET Jobs
  PROVE  IsFiniteSet(S) /\ Cardinality(S) \in Nat
BY PublicationAssumption, FS_Subset, FS_CardinalityType

\* More jobs, a larger count.
LEMMA JobCountMonotone ==
  ASSUME NEW S \in SUBSET Jobs, NEW T \in SUBSET Jobs, S \subseteq T
  PROVE  Cardinality(S) <= Cardinality(T)
BY JobCount, FS_Subset

\* The worker slots of any kind can be counted.
LEMMA SlotCount ==
  ASSUME NEW S \in SUBSET Workers
  PROVE  Cardinality(S) \in Nat
BY PublicationAssumption, FS_Subset, FS_CardinalityType

\* What an idle slot and an idle request hold is well-typed.
LEMMA IdleType == Idle \in Execution /\ IdleClient \in Request
BY DEF Idle, IdleClient, Execution, Request, NoTally, JobStatus, BatchStatus, Final,
       Outcome, Delivered, Undelivered

\* A fresh execution is well-typed and holds what it is given.
LEMMA ExecutingType ==
  ASSUME NEW j \in Jobs, NEW l \in BOOLEAN,
         NEW pc \in {"refuse", "claim", "network", "done"}
  PROVE  /\ Executing(pc, j, l) \in Execution
         /\ Executing(pc, j, l).pc = pc
         /\ Executing(pc, j, l).job = j
         /\ Executing(pc, j, l).local = l
BY IdleType DEF Executing, Execution

\* An idle slot executes nothing, for nobody.
LEMMA IdleFields == Idle.pc = "idle" /\ Idle.local = FALSE
BY DEF Idle

\* What a returning coroutine leaves in its slot: nothing, or an execution ARQ records.
LEMMA ReturnedType ==
  ASSUME NEW j \in Jobs, NEW l \in BOOLEAN
  PROVE  /\ Returned(j, l) \in Execution
         /\ Returned(j, l).pc \in {"idle", "done"}
         /\ Returned(j, l).pc # "idle" => Returned(j, l).job = j
<1>1. Returned(j, TRUE) = Idle /\ Returned(j, FALSE) = Executing("done", j, FALSE)
  BY DEF Returned
<1>2. CASE l = TRUE
  BY <1>1, <1>2, IdleType, IdleFields
<1>3. CASE l = FALSE
  <2>1. Executing("done", j, FALSE) \in Execution /\ Executing("done", j, FALSE).pc = "done"
        /\ Executing("done", j, FALSE).job = j
    BY ExecutingType
  <2>2. QED
    BY <1>1, <1>3, <2>1
<1>4. QED
  BY <1>2, <1>3

\* Counters are numbers, whatever Phase 3 has loaded.
LEMMA TallyType ==
  ASSUME NEW view
  PROVE  Tally(view) \in [Column -> Nat]
<1>1. ASSUME NEW c \in Column
      PROVE  {j \in Jobs : view[j] # "ABSENT"} \in SUBSET Jobs
             /\ {j \in Jobs : view[j] = c} \in SUBSET Jobs
  OBVIOUS
<1>2. QED
  BY <1>1, JobCount DEF Tally, Count

\* The verdict is a batch status, whatever Phase 3 has loaded.
LEMMA VerdictType ==
  ASSUME NEW view, NEW loaded \in BatchStatus
  PROVE  Verdict(view, loaded) \in BatchStatus
BY DEF Verdict, BatchStatus, Final

-----------------------------------------------------------------------------
(* TypeOK is inductive. *)
LEMMA TypeInit == Init => TypeOK
<1> SUFFICES ASSUME Init PROVE TypeOK
  OBVIOUS
<1>1. Cardinality(Jobs) \in Nat
  BY JobCount
<1> QED
  BY IdleType DEF Init, TypeOK, JobStatus, BatchStatus, NoTally, Final

\* What Phase 1 leaves in the slot: an execution to claim or to refuse the job, or
\* nothing if the job's row is gone.
LEMMA LoadedType ==
  ASSUME TypeOK, NEW j \in Jobs, NEW l \in BOOLEAN
  PROVE  /\ Loaded(j, l) \in Execution
         /\ j \notin Rows => Loaded(j, l) = Returned(j, l)
         /\ j \in Rows => /\ Loaded(j, l).pc = IF block THEN "claim" ELSE "refuse"
                          /\ Loaded(j, l).job = j
                          /\ Loaded(j, l).local = l
<1>1. CASE j \notin Rows
  BY <1>1, ReturnedType DEF Loaded
<1>2. CASE j \in Rows
  <2> DEFINE pc == IF block THEN "claim" ELSE "refuse"
             e == Executing(pc, j, l)
  <2>1. e \in Execution /\ e.pc = pc /\ e.job = j /\ e.local = l
    BY ExecutingType
  <2>2. Loaded(j, l) = [e EXCEPT !.saw = status[j], !.sawAttempt = attempt[j],
                                 !.sawBatch = batch]
    BY <1>2 DEF Loaded
  <2>3. status[j] \in JobStatus /\ attempt[j] \in Nat /\ batch \in BatchStatus
    BY DEF TypeOK
  <2> HIDE DEF e
  <2>4. QED
    BY <1>2, <2>1, <2>2, <2>3 DEF Execution
<1>3. QED
  BY <1>1, <1>2

\* A step that only replaces the execution of one slot.
LEMMA SlotUpdate ==
  ASSUME TypeOK, SlotsHoldJobs, NEW w \in Workers, NEW e \in Execution,
         e.pc # "idle" => e.job \in Jobs,
         run' = [run EXCEPT ![w] = e]
  PROVE  run' \in [Workers -> Execution] /\ SlotsHoldJobs'
BY DEF TypeOK, SlotsHoldJobs

\* A coroutine that returns leaves its slot well-formed.
LEMMA SlotReturns ==
  ASSUME TypeOK, SlotsHoldJobs, NEW w \in Workers, run[w].pc # "idle",
         run' = [run EXCEPT ![w] = Returned(run[w].job, run[w].local)]
  PROVE  run' \in [Workers -> Execution] /\ SlotsHoldJobs'
<1>1. run[w].job \in Jobs /\ run[w].local \in BOOLEAN
  BY DEF TypeOK, SlotsHoldJobs, Execution
<1>2. QED
  BY <1>1, ReturnedType, SlotUpdate

\* The history of job j grows by an outcome.
LEMMA EvidenceType ==
  ASSUME TypeOK, NEW j \in Jobs, NEW o \in Outcome,
         evidence' = [evidence EXCEPT ![j] = @ \cup {o}]
  PROVE  evidence' \in [Jobs -> SUBSET Outcome]
<1>1. evidence[j] \cup {o} \in SUBSET Outcome
  BY DEF TypeOK
<1>2. QED
  BY <1>1 DEF TypeOK

\* A fault that happens is counted.
LEMMA FaultIsCounted ==
  ASSUME TypeOK, NEW kind \in FaultKinds, Fault(kind)
  PROVE  faults' \in [FaultKinds -> Nat] /\ faults'[kind] # 0
BY DEF TypeOK, Fault

\* Every step keeps the types, and every busy slot holds a job.
LEMMA TypeStep ==
  ASSUME TypeOK, SlotsHoldJobs, [Next]_vars
  PROVE  TypeOK' /\ SlotsHoldJobs'
<1> DEFINE TypeOKS == TypeOK /\ SlotsHoldJobs
<1> USE DEF TypeOK, SlotsHoldJobs
<1>1. ASSUME NEW c \in Clients, Dispatch(c) PROVE TypeOKS'
  BY <1>1, JobCount DEF Dispatch, EnqueueAll, Request, JobStatus, BatchStatus, NoTally, Column
<1>2. ASSUME NEW c \in Clients, Enqueue(c) PROVE TypeOKS'
  <2>1. PICK k \in client[c].todo :
          /\ queue' = [queue EXCEPT ![k] = @ + 1]
          /\ client' = [client EXCEPT ![c] = IF client[c].todo = {k} THEN IdleClient
                          ELSE [client[c] EXCEPT !.todo = client[c].todo \ {k}]]
    BY <1>2 DEF Enqueue
  <2>2. [client[c] EXCEPT !.todo = client[c].todo \ {k}] \in Request
    BY DEF Request
  <2>3. client' \in [Clients -> Request]
    BY <2>1, <2>2, IdleType
  <2>4. queue' \in [Jobs -> Nat]
    <3>1. k \in Jobs
      BY DEF Request
    <3>2. QED
      BY <2>1, <3>1
  <2>5. UNCHANGED <<block, status, attempt, batch, counter, tasks, run, evidence, faults,
                     retries>>
    BY <1>2 DEF Enqueue
  <2>6. QED
    BY <2>3, <2>4, <2>5
<1>3. ASSUME NEW c \in Clients, Fallback(c) PROVE TypeOKS'
  BY <1>3, IdleType DEF Fallback
<1>4. ASSUME NEW c \in Clients, RetryLoad(c) PROVE TypeOKS'
  BY <1>4 DEF RetryLoad, Retryable, Request
<1>5. ASSUME NEW c \in Clients, RetryCommit(c) PROVE TypeOKS'
  BY <1>5 DEF RetryCommit, EnqueueAll, Request, JobStatus, BatchStatus
<1>6. ASSUME NEW c \in Clients, RetryFails(c) PROVE TypeOKS'
  BY <1>6, IdleType DEF RetryFails
<1>7. ASSUME NEW w \in Workers, NEW j \in Jobs, NEW l \in BOOLEAN, Start(w, j, l)
      PROVE  TypeOKS'
  <2>1. Loaded(j, l) \in Execution /\ (Loaded(j, l).pc # "idle" => Loaded(j, l).job \in Jobs)
    BY LoadedType, ReturnedType
  <2>2. run' \in [Workers -> Execution] /\ SlotsHoldJobs'
    BY <1>7, <2>1, SlotUpdate DEF Start
  <2>3. queue' \in [Jobs -> Nat] /\ tasks' \in [Jobs -> Nat]
    <3>1. CASE l
      BY <1>7, <3>1 DEF Start
    <3>2. CASE ~l
      BY <1>7, <3>2 DEF Start
    <3>3. QED
      BY <3>1, <3>2
  <2>4. QED
    BY <1>7, <2>2, <2>3 DEF Start
<1>8. ASSUME NEW w \in Workers, Refuse(w) PROVE TypeOKS'
  <2>1. run[w].job \in Jobs /\ run[w].local \in BOOLEAN
    BY <1>8 DEF Refuse, Execution
  <2>2. "FAILED" \in Outcome /\ "FAILED" \in JobStatus
    BY DEF JobStatus, Outcome, Undelivered
  <2>3. status' \in [Jobs -> JobStatus]
    BY <1>8, <2>1, <2>2 DEF Refuse
  <2>4. evidence' \in [Jobs -> SUBSET Outcome]
    BY <1>8, <2>1, <2>2, EvidenceType DEF Refuse
  <2>5. run' \in [Workers -> Execution] /\ SlotsHoldJobs'
    BY <1>8, SlotReturns DEF Refuse
  <2>6. QED
    BY <1>8, <2>3, <2>4, <2>5 DEF Refuse
<1>9. ASSUME NEW w \in Workers, Claim(w) PROVE TypeOKS'
  <2>1. run[w].job \in Jobs /\ run[w].local \in BOOLEAN /\ run[w].sawAttempt \in Nat
    BY <1>9 DEF Claim, Execution
  <2>2. QED
    BY <1>9, <2>1, ExecutingType DEF Claim, JobStatus, BatchStatus
<1>10. ASSUME NEW w \in Workers, NEW o \in Results, Publish(w, o) PROVE TypeOKS'
  <2>1. o \in Outcome
    BY PublicationAssumption DEF Outcome, Delivered, Undelivered
  <2>2. run[w].job \in Jobs
    BY <1>10 DEF Publish
  <2>3. evidence' \in [Jobs -> SUBSET Outcome]
    BY <1>10, <2>1, <2>2, EvidenceType DEF Publish
  <2>4. [run[w] EXCEPT !.pc = "report", !.outcome = o] \in Execution
        /\ [run[w] EXCEPT !.pc = "report", !.outcome = o].job = run[w].job
    BY <2>1 DEF Execution
  <2>5. run' \in [Workers -> Execution] /\ SlotsHoldJobs'
    BY <1>10, <2>2, <2>4, SlotUpdate DEF Publish
  <2>6. QED
    BY <1>10, <2>3, <2>5 DEF Publish
<1>11. ASSUME NEW w \in Workers, Report(w) PROVE TypeOKS'
  <2> DEFINE j == run[w].job
             view == View(j, run[w].outcome)
             new == Tally(view)
             dirty == {c \in Column : new[c] # counter[c]}
             verdict == Verdict(view, batch)
             tally == [c \in Column |-> IF c \in dirty THEN new[c] ELSE 0]
             written == IF verdict = batch THEN "NONE" ELSE verdict
  <2>1. new \in [Column -> Nat] /\ verdict \in BatchStatus
    BY TallyType, VerdictType
  <2>2. tally \in [Column -> Nat] /\ written \in BatchStatus /\ dirty \in SUBSET Column
    BY <2>1 DEF BatchStatus
  <2>3. j \in Jobs /\ status[j] \in JobStatus
    BY <1>11 DEF Report
  <2> DEFINE e == [run[w] EXCEPT !.pc = "commit", !.saw = status[j], !.dirty = dirty,
                                 !.tally = tally, !.verdict = written]
  <2>4. run' = [run EXCEPT ![w] = e]
    BY <1>11 DEF Report
  <2> HIDE DEF view, new, dirty, verdict, tally, written
  <2>5. e \in Execution /\ e.job = j
    BY <2>2, <2>3 DEF Execution
  <2>6. run' \in [Workers -> Execution] /\ SlotsHoldJobs'
    BY <2>3, <2>4, <2>5, SlotUpdate
  <2>7. QED
    BY <1>11, <2>6 DEF Report
<1>12. ASSUME NEW w \in Workers, ReportFails(w) \/ RowGone(w) PROVE TypeOKS'
  <2>1. run' \in [Workers -> Execution] /\ SlotsHoldJobs'
    BY <1>12, SlotReturns DEF ReportFails, RowGone
  <2>2. QED
    BY <1>12, <2>1 DEF ReportFails, RowGone
<1>13. ASSUME NEW w \in Workers, Commit(w) PROVE TypeOKS'
  <2>1. /\ run[w].job \in Jobs
        /\ run[w].outcome \in JobStatus /\ run[w].tally \in [Column -> Nat]
        /\ run[w].verdict \in BatchStatus
    BY <1>13 DEF Commit, Execution, JobStatus
  <2>2. status' \in [Jobs -> JobStatus] /\ batch' \in BatchStatus
    BY <1>13, <2>1 DEF Commit
  <2>3. counter' \in [Column -> Nat]
    BY <1>13, <2>1 DEF Commit
  <2>4. run' \in [Workers -> Execution] /\ SlotsHoldJobs'
    BY <1>13, SlotReturns DEF Commit
  <2>5. QED
    BY <1>13, <2>2, <2>3, <2>4 DEF Commit
<1>14. ASSUME NEW w \in Workers, Finish(w) \/ Abandon(w) PROVE TypeOKS'
  <2>1. faults' \in [FaultKinds -> Nat]
    BY <1>14, FaultIsCounted DEF Finish, Abandon, FaultKinds
  <2>2. QED
    BY <1>14, <2>1, IdleType, IdleFields DEF Finish, Abandon
<1>15. ASSUME DeleteBlock PROVE TypeOKS'
  BY <1>15 DEF DeleteBlock
<1>16. ASSUME NEW j \in Jobs, DeleteCashier(j) PROVE TypeOKS'
  BY <1>16 DEF DeleteCashier, JobStatus
<1>17. ASSUME WorkerCrash PROVE TypeOKS'
  <2>1. \A j \in Jobs : Redeliver(j) \in Nat
    BY SlotCount DEF Redeliver
  <2>2. faults' \in [FaultKinds -> Nat]
    BY <1>17, FaultIsCounted DEF WorkerCrash, FaultKinds
  <2>3. QED
    BY <1>17, <2>1, <2>2, IdleType, IdleFields DEF WorkerCrash
<1>18. ASSUME ApiCrash PROVE TypeOKS'
  <2>1. faults' \in [FaultKinds -> Nat]
    BY <1>18, FaultIsCounted DEF ApiCrash, FaultKinds
  <2>2. QED
    BY <1>18, <2>1, IdleType, IdleFields DEF ApiCrash
<1>19. ASSUME UNCHANGED vars PROVE TypeOKS'
  BY <1>19 DEF vars
<1>20. QED
  BY <1>1, <1>2, <1>3, <1>4, <1>5, <1>6, <1>7, <1>8, <1>9, <1>10, <1>11, <1>12, <1>13,
     <1>14, <1>15, <1>16, <1>17, <1>18, <1>19
     DEF Next, ApiStep, WorkerStep, Advance, Environment

\* Every variable keeps its type and every busy slot holds a job of the batch, for
\* every fleet, number of slots and sequence of faults.
THEOREM TypeCorrect == Spec => [](TypeOK /\ SlotsHoldJobs)
<1>1. Init => TypeOK /\ SlotsHoldJobs
  BY TypeInit, IdleFields DEF Init, SlotsHoldJobs
<1>2. TypeOK /\ SlotsHoldJobs /\ [Next]_vars => (TypeOK /\ SlotsHoldJobs)'
  BY TypeStep
<1>3. QED
  BY <1>1, <1>2, PTL DEF Spec
-----------------------------------------------------------------------------
(* What a step may do to the history, the rows, the batch and the slots.      *)

\* No step forgets an outcome.
LEMMA EvidenceGrows ==
  ASSUME TypeOK, SlotsHoldJobs, [Next]_vars
  PROVE  \A j \in Jobs : evidence[j] \subseteq evidence'[j]
<1>1. ASSUME NEW w \in Workers, Refuse(w) PROVE \A j \in Jobs : evidence[j] \subseteq evidence'[j]
  BY <1>1 DEF Refuse, TypeOK, SlotsHoldJobs
<1>2. ASSUME NEW w \in Workers, NEW o \in Results, Publish(w, o)
      PROVE  \A j \in Jobs : evidence[j] \subseteq evidence'[j]
  BY <1>2 DEF Publish, TypeOK, SlotsHoldJobs
<1>3. CASE UNCHANGED evidence
  BY <1>3
<1>4. QED
  BY <1>1, <1>2, <1>3
     DEF Next, ApiStep, WorkerStep, Advance, Environment, vars, Dispatch, Enqueue, Fallback,
         RetryLoad, RetryCommit, RetryFails, Start, Claim, Report, ReportFails, Commit,
         Finish, RowGone, DeleteBlock, DeleteCashier, Abandon, WorkerCrash, ApiCrash

\* A job's row changes at the dispatch, by a transaction that finds no Phase 3 holding
\* it, or by the Phase 3 that holds it.
RowWritten(j) ==
  \/ batch = "NONE"
  \/ /\ j \in Rows /\ ~Locked({j})
     /\ status'[j] \in Outcome => status'[j] \in evidence'[j]
  \/ \E w \in Workers : /\ Commit(w) /\ run[w].job = j
                        /\ run[w].saw # "ABSENT" /\ status'[j] = run[w].outcome

\* A job's row changes only by the steps that RowWritten lists.
LEMMA RowChange ==
  ASSUME TypeOK, SlotsHoldJobs, [Next]_vars, NEW j \in Jobs, status'[j] # status[j]
  PROVE  RowWritten(j)
<1> USE DEF TypeOK, SlotsHoldJobs
<1>1. ASSUME NEW c \in Clients, Dispatch(c) PROVE RowWritten(j)
  BY <1>1 DEF Dispatch, RowWritten
<1>2. ASSUME NEW c \in Clients, RetryCommit(c) PROVE RowWritten(j)
  <2>1. j \in client[c].all /\ status'[j] = "PENDING"
    BY <1>2 DEF RetryCommit
  <2>2. j \in Rows /\ ~Locked({j})
    BY <1>2, <2>1 DEF RetryCommit, Locked
  <2>3. QED
    BY <2>1, <2>2 DEF RowWritten, Outcome, Delivered, Undelivered
<1>3. ASSUME NEW w \in Workers, Refuse(w) PROVE RowWritten(j)
  <2>1. j = run[w].job /\ status'[j] = "FAILED" /\ "FAILED" \in evidence'[j]
    BY <1>3 DEF Refuse
  <2>2. QED
    BY <1>3, <2>1 DEF Refuse, RowWritten
<1>4. ASSUME NEW w \in Workers, Claim(w) PROVE RowWritten(j)
  <2>1. j = run[w].job /\ status'[j] = "RUNNING"
    BY <1>4 DEF Claim
  <2>2. QED
    BY <1>4, <2>1 DEF Claim, RowWritten, Outcome, Delivered, Undelivered
<1>5. ASSUME NEW w \in Workers, Commit(w) PROVE RowWritten(j)
  BY <1>5 DEF Commit, RowWritten
<1>6. ASSUME NEW k \in Jobs, DeleteCashier(k) PROVE RowWritten(j)
  <2>1. j = k /\ status'[j] = "ABSENT"
    BY <1>6 DEF DeleteCashier
  <2>2. QED
    BY <1>6, <2>1 DEF DeleteCashier, RowWritten, Outcome, Delivered, Undelivered
<1>7. CASE UNCHANGED status
  BY <1>7
<1>8. QED
  BY <1>1, <1>2, <1>3, <1>4, <1>5, <1>6, <1>7
     DEF Next, ApiStep, WorkerStep, Advance, Environment, vars, Enqueue, Fallback,
         RetryLoad, RetryFails, Start, Publish, Report, ReportFails,
         Finish, RowGone, DeleteBlock, Abandon, WorkerCrash, ApiCrash

\* The batch's status changes to an open one, or to the verdict a Phase 3 brings.
LEMMA BatchChange ==
  ASSUME [Next]_vars, batch' # batch
  PROVE  \/ batch' \in {"PENDING", "RUNNING"}
         \/ \E w \in Workers : Commit(w) /\ run[w].verdict # "NONE" /\ batch' = run[w].verdict
<1>1. CASE UNCHANGED batch
  BY <1>1
<1>2. QED
  BY <1>1 DEF Next, ApiStep, WorkerStep, Advance, Environment, vars, Dispatch, Enqueue,
         Fallback, RetryLoad, RetryCommit, RetryFails, Start, Refuse, Claim, Publish, Report,
         ReportFails, Commit, Finish, RowGone, DeleteBlock, DeleteCashier, Abandon,
         WorkerCrash, ApiCrash

\* What Phase 3 has loaded and computed when it comes to its commit.
LEMMA ReportLeaves ==
  ASSUME TypeOK, SlotsHoldJobs, NEW w \in Workers, Report(w)
  PROVE  LET j == run[w].job
             new == Tally(View(j, run[w].outcome))
             verdict == Verdict(View(j, run[w].outcome), batch)
         IN  /\ j \in Jobs
             /\ run'[w].pc = "commit"
             /\ run'[w].job = j
             /\ run'[w].outcome = run[w].outcome
             /\ run'[w].saw = status[j]
             /\ run'[w].verdict \in {"NONE", verdict}
             /\ verdict = batch => run'[w].verdict = "NONE"
             /\ \A c \in Column : run'[w].tally[c] \in {0, new[c]}
             /\ \A v \in Workers : v # w => run'[v] = run[v]
<1> DEFINE j == run[w].job
           new == Tally(View(j, run[w].outcome))
           verdict == Verdict(View(j, run[w].outcome), batch)
           dirty == {c \in Column : new[c] # counter[c]}
           tally == [c \in Column |-> IF c \in dirty THEN new[c] ELSE 0]
           written == IF verdict = batch THEN "NONE" ELSE verdict
           e == [run[w] EXCEPT !.pc = "commit", !.saw = status[j], !.dirty = dirty,
                               !.tally = tally, !.verdict = written]
<1>1. run[w] \in Execution /\ j \in Jobs
  BY DEF Report, TypeOK, SlotsHoldJobs
<1>2. run' = [run EXCEPT ![w] = e]
  BY DEF Report
<1>3. \A c \in Column : tally[c] \in {0, new[c]}
  OBVIOUS
<1> HIDE DEF j, new, verdict, dirty, tally, written
<1>4. /\ e.pc = "commit" /\ e.job = run[w].job /\ e.outcome = run[w].outcome
      /\ e.saw = status[j] /\ e.verdict = written /\ e.tally = tally
  BY <1>1 DEF Execution
<1> HIDE DEF e
<1>5. run'[w] = e /\ \A v \in Workers : v # w => run'[v] = run[v]
  BY <1>2 DEF TypeOK
<1>6. QED
  BY <1>1, <1>3, <1>4, <1>5 DEF j, new, verdict, written

\* An execution in Phase 3 has been there, has just ended its network phase, or has
\* just loaded the jobs of the batch.
LEMMA SlotChange ==
  ASSUME TypeOK, SlotsHoldJobs, [Next]_vars,
         NEW v \in Workers, run'[v].pc \in {"report", "commit"}
  PROVE  \/ run'[v] = run[v] /\ ~Commit(v)
         \/ \E o \in Results : Publish(v, o)
         \/ Report(v)
<1> DEFINE P == \/ run'[v] = run[v] /\ ~Commit(v)
                \/ \E o \in Results : Publish(v, o)
                \/ Report(v)
<1> USE DEF TypeOK, SlotsHoldJobs
<1>1. ASSUME NEW w \in Workers, NEW e \in Execution, e.pc \notin {"report", "commit"},
             run' = [run EXCEPT ![w] = e]
      PROVE  v # w /\ run'[v] = run[v]
  BY <1>1
<1>2. ASSUME NEW w \in Workers, run[w].pc # "idle",
             run' = [run EXCEPT ![w] = Returned(run[w].job, run[w].local)]
      PROVE  v # w /\ run'[v] = run[v]
  <2>1. run[w].job \in Jobs /\ run[w].local \in BOOLEAN
    BY <1>2 DEF Execution
  <2>2. QED
    BY <1>1, <1>2, <2>1, ReturnedType
<1>3. ASSUME NEW w \in Workers, NEW j \in Jobs, NEW l \in BOOLEAN, Start(w, j, l)
      PROVE  run'[v] = run[v] /\ UNCHANGED status
  <2>1. Loaded(j, l) \in Execution /\ Loaded(j, l).pc \notin {"report", "commit"}
    BY LoadedType, ReturnedType
  <2>2. QED
    BY <1>1, <1>3, <2>1 DEF Start
<1>4. ASSUME NEW w \in Workers, Claim(w) PROVE run'[v] = run[v]
  <2>1. run[w].job \in Jobs /\ run[w].local \in BOOLEAN
    BY <1>4 DEF Claim, Execution
  <2>2. QED
    BY <1>1, <1>4, <2>1, ExecutingType DEF Claim
<1>5. ASSUME run'[v] = run[v] PROVE P
  BY <1>5, <1>2 DEF Commit
<1>6. ASSUME NEW w \in Workers, Refuse(w) \/ ReportFails(w) \/ RowGone(w) \/ Commit(w) PROVE P
  BY <1>6, <1>2, <1>5 DEF Refuse, ReportFails, RowGone, Commit
<1>7. ASSUME NEW w \in Workers, Finish(w) \/ Abandon(w) PROVE P
  BY <1>7, <1>1, <1>5, IdleType, IdleFields DEF Finish, Abandon
<1>8. ASSUME NEW w \in Workers, NEW o \in Results, Publish(w, o) PROVE P
  <2>1. v # w => run'[v] = run[v]
    BY <1>8 DEF Publish
  <2>2. QED
    BY <1>5, <1>8, <2>1
<1>9. ASSUME NEW w \in Workers, Report(w) PROVE P
  <2>1. v # w => run'[v] = run[v]
    BY <1>9 DEF Report
  <2>2. QED
    BY <1>5, <1>9, <2>1
<1>10. ASSUME WorkerCrash \/ ApiCrash PROVE P
  <2>1. run'[v] = run[v] \/ run'[v] = Idle
    BY <1>10 DEF WorkerCrash, ApiCrash
  <2>2. QED
    BY <1>5, <2>1, IdleFields
<1>11. CASE UNCHANGED run
  BY <1>5, <1>11
<1>12. QED
  BY <1>3, <1>4, <1>5, <1>6, <1>7, <1>8, <1>9, <1>10, <1>11
     DEF Next, ApiStep, WorkerStep, Advance, Environment, vars, Dispatch, Enqueue,
         Fallback, RetryLoad, RetryCommit, RetryFails, DeleteBlock, DeleteCashier
-----------------------------------------------------------------------------
(* TruthfulPhase3 is inductive. *)

\* Before the dispatch nothing runs, and only the dispatch ends that.
LEMMA NothingStep ==
  ASSUME TypeOK, NothingBeforeDispatch, [Next]_vars
  PROVE  NothingBeforeDispatch'
<1> SUFFICES ASSUME batch' = "NONE" PROVE NothingBeforeDispatch'
  BY DEF NothingBeforeDispatch
<1>1. batch = "NONE"
  BY BatchChange
<1>2. /\ \A c \in Clients : client[c].pc = "idle"
      /\ \A j \in Jobs : queue[j] = 0 /\ tasks[j] = 0
      /\ \A w \in Workers : run[w].pc = "idle"
  BY <1>1 DEF NothingBeforeDispatch
<1>3. CASE UNCHANGED <<client, queue, tasks, run>>
  BY <1>2, <1>3 DEF NothingBeforeDispatch
<1>4. CASE ApiCrash
  <2>1. IdleClient.pc = "idle"
    BY DEF IdleClient
  <2>2. QED
    BY <1>2, <1>4, <2>1, IdleFields DEF ApiCrash, NothingBeforeDispatch
<1>5. ASSUME NEW c \in Clients, ApiStep(c) PROVE FALSE
  BY <1>1, <1>2, <1>5 DEF ApiStep, Dispatch, Enqueue, Fallback, RetryLoad, RetryCommit, RetryFails
<1>6. ASSUME NEW w \in Workers, WorkerStep(w) \/ Abandon(w) PROVE FALSE
  <2>1. ASSUME NEW j \in Jobs, NEW l \in BOOLEAN, Start(w, j, l) PROVE FALSE
    <3>1. tasks[j] > 0 \/ queue[j] > 0
      BY <2>1 DEF Start
    <3>2. QED
      BY <1>2, <3>1
  <2>2. ASSUME Advance(w) \/ Abandon(w) PROVE FALSE
    BY <1>2, <2>2 DEF Advance, Refuse, Claim, Publish, Report, ReportFails, Commit, Finish,
                      RowGone, Abandon, Busy
  <2>3. QED
    BY <1>6, <2>1, <2>2 DEF WorkerStep
<1>7. CASE WorkerCrash
  BY <1>2, <1>7 DEF WorkerCrash, Busy
<1>8. QED
  BY <1>3, <1>4, <1>5, <1>6, <1>7 DEF Next, Environment, vars, DeleteBlock, DeleteCashier

\* What is reported, and then committed, was produced by an execution of the job.
LEMMA TruthStep ==
  ASSUME TypeOK, SlotsHoldJobs, NothingBeforeDispatch, JobsTruthful, ReportsTruthful,
         [Next]_vars
  PROVE  JobsTruthful' /\ ReportsTruthful'
<1>1. ASSUME NEW j \in Jobs, status'[j] \in Outcome PROVE status'[j] \in evidence'[j]
  <2>1. CASE status'[j] = status[j]
    BY <1>1, <2>1, EvidenceGrows DEF JobsTruthful
  <2>2. CASE status'[j] # status[j] /\ batch = "NONE"
    <3>1. \A w \in Workers : run[w].pc = "idle"
      BY <2>2 DEF NothingBeforeDispatch
    <3>2. \A c \in Clients : client[c].pc = "idle"
      BY <2>2 DEF NothingBeforeDispatch
    <3>3. \/ \E c \in Clients : Dispatch(c)
          \/ \E k \in Jobs : DeleteCashier(k)
      BY <2>2, <3>1, <3>2
         DEF Next, ApiStep, WorkerStep, Advance, Environment, vars, Enqueue, Fallback,
             RetryLoad, RetryCommit, RetryFails, Start, Refuse, Claim, Publish, Report,
             ReportFails, Commit, Finish, RowGone, DeleteBlock, Abandon, WorkerCrash, ApiCrash
    <3>4. status'[j] \in {"PENDING", "ABSENT"}
      BY <2>2, <3>3 DEF Dispatch, DeleteCashier, TypeOK
    <3>5. QED
      BY <1>1, <3>4 DEF Outcome, Delivered, Undelivered
  <2>3. CASE status'[j] # status[j] /\ batch # "NONE"
    <3>1. \/ status'[j] \in evidence'[j]
          \/ \E w \in Workers : /\ Commit(w) /\ run[w].job = j
                                /\ status'[j] = run[w].outcome
      BY <1>1, <2>3, RowChange DEF RowWritten
    <3>2. ASSUME NEW w \in Workers, Commit(w), run[w].job = j, status'[j] = run[w].outcome
          PROVE  status'[j] \in evidence'[j]
      BY <3>2, EvidenceGrows DEF Commit, ReportsTruthful
    <3>3. QED
      BY <3>1, <3>2
  <2>4. QED
    BY <2>1, <2>2, <2>3
<1>2. ASSUME NEW v \in Workers, run'[v].pc \in {"report", "commit"}
      PROVE  run'[v].outcome \in evidence'[run'[v].job]
  <2>1. CASE run'[v] = run[v]
    <3>1. run[v].job \in Jobs /\ run[v].outcome \in evidence[run[v].job]
      BY <1>2, <2>1 DEF SlotsHoldJobs, ReportsTruthful
    <3>2. QED
      BY <2>1, <3>1, EvidenceGrows
  <2>2. ASSUME NEW o \in Results, Publish(v, o)
        PROVE  run'[v].outcome \in evidence'[run'[v].job]
    <3>1. run[v].job \in Jobs /\ run[v] \in Execution
      BY <2>2 DEF Publish, SlotsHoldJobs, TypeOK
    <3>2. run'[v] = [run[v] EXCEPT !.pc = "report", !.outcome = o]
      BY <2>2 DEF Publish, TypeOK
    <3>3. run'[v].outcome = o /\ run'[v].job = run[v].job
      BY <3>1, <3>2 DEF Execution
    <3>4. QED
      BY <2>2, <3>1, <3>3 DEF Publish, TypeOK
  <2>3. CASE Report(v)
    <3>1. run[v].job \in Jobs /\ run[v].outcome \in evidence[run[v].job]
      BY <2>3 DEF Report, SlotsHoldJobs, ReportsTruthful
    <3>2. run'[v].outcome = run[v].outcome /\ run'[v].job = run[v].job
      BY <2>3, ReportLeaves
    <3>3. QED
      BY <3>1, <3>2, EvidenceGrows
  <2>4. QED
    BY <1>2, <2>1, <2>2, <2>3, SlotChange
<1>3. QED
  BY <1>1, <1>2 DEF JobsTruthful, ReportsTruthful

\* Phase 3 holds the row it is about to write, alone.
LEMMA RowStep ==
  ASSUME TypeOK, SlotsHoldJobs, NothingBeforeDispatch, RowHeld, RowExclusive, [Next]_vars
  PROVE  RowHeld' /\ RowExclusive'
<1>1. ASSUME NEW v \in Workers, run[v].pc = "commit", ~Commit(v)
      PROVE  status'[run[v].job] = status[run[v].job]
  <2> DEFINE j == run[v].job
  <2>1. j \in Jobs /\ status[j] = run[v].saw /\ batch # "NONE"
    BY <1>1 DEF SlotsHoldJobs, RowHeld, NothingBeforeDispatch
  <2>2. CASE run[v].saw = "ABSENT"
    <3>1. j \notin Rows
      BY <2>1, <2>2 DEF Rows
    <3>2. ASSUME NEW w \in Workers, Commit(w), run[w].job = j, run[w].saw # "ABSENT"
          PROVE  FALSE
      BY <2>1, <2>2, <3>2 DEF Commit, RowHeld
    <3>3. QED
      BY <2>1, <3>1, <3>2, RowChange DEF RowWritten
  <2>3. CASE run[v].saw # "ABSENT"
    <3>1. Locked({j})
      BY <1>1, <2>3 DEF Locked
    <3>2. ASSUME NEW w \in Workers, Commit(w), run[w].job = j PROVE FALSE
      BY <1>1, <2>3, <3>2 DEF Commit, RowExclusive
    <3>3. QED
      BY <2>1, <3>1, <3>2, RowChange DEF RowWritten
  <2>4. QED
    BY <2>2, <2>3
<1>2. ASSUME NEW v \in Workers, run'[v].pc = "commit"
      PROVE  (run'[v] = run[v] /\ ~Commit(v)) \/ Report(v)
  <2>1. ASSUME NEW o \in Results, Publish(v, o) PROVE FALSE
    <3>1. run[v] \in Execution /\ run'[v] = [run[v] EXCEPT !.pc = "report", !.outcome = o]
      BY <2>1 DEF Publish, TypeOK
    <3>2. run'[v].pc = "report"
      BY <3>1 DEF Execution
    <3>3. QED
      BY <1>2, <3>2
  <2>2. QED
    BY <1>2, <2>1, SlotChange
<1>3. RowHeld'
  <2> SUFFICES ASSUME NEW v \in Workers, run'[v].pc = "commit"
               PROVE  status'[run'[v].job] = run'[v].saw
    BY DEF RowHeld
  <2>1. CASE run'[v] = run[v] /\ ~Commit(v)
    BY <1>1, <2>1 DEF RowHeld
  <2>2. CASE Report(v)
    BY <2>2, ReportLeaves DEF Report
  <2>3. QED
    BY <1>2, <2>1, <2>2
<1>4. RowExclusive'
  <2> SUFFICES ASSUME NEW v \in Workers, NEW w \in Workers,
                      run'[v].pc = "commit", run'[w].pc = "commit",
                      run'[v].job = run'[w].job, run'[v].saw # "ABSENT", v # w
               PROVE  FALSE
    BY DEF RowExclusive
  <2>1. CASE run'[v] = run[v] /\ run'[w] = run[w]
    BY <2>1 DEF RowExclusive
  <2>2. CASE Report(v)
    <3>1. run'[w] = run[w] /\ run[w].pc = "commit" /\ run[w].job = run[v].job
      BY <2>2, ReportLeaves
    <3>2. ~Locked({run[v].job}) /\ run'[v].saw = status[run[v].job]
      BY <2>2, ReportLeaves DEF Report
    <3>3. run[w].saw = "ABSENT"
      BY <3>1, <3>2 DEF Locked
    <3>4. QED
      BY <3>1, <3>2, <3>3 DEF RowHeld
  <2>3. CASE Report(w)
    <3>1. run'[v] = run[v] /\ run[v].pc = "commit" /\ run[v].job = run[w].job
      BY <2>3, ReportLeaves
    <3>2. ~Locked({run[w].job})
      BY <2>3 DEF Report
    <3>3. QED
      BY <3>1, <3>2 DEF Locked
  <2>4. QED
    BY <1>2, <2>1, <2>2, <2>3
<1>5. QED
  BY <1>3, <1>4

\* The verdict Phase 3 computes is justified by the rows it reads and its own report.
LEMMA VerdictTruthful ==
  ASSUME TypeOK, JobsTruthful, NEW j \in Jobs, NEW o \in Outcome, o \in evidence[j],
         ~Unsettled(View(j, o))
  PROVE  Justified(Verdict(View(j, o), batch))
<1> DEFINE view == View(j, o)
<1>1. ASSUME NEW k \in Jobs
      PROVE  /\ view[k] \in JobStatus
             /\ view[k] \in Outcome => view[k] \in evidence[k]
             /\ k \in Rows => view[k] # "ABSENT"
             /\ view[k] # "ABSENT" => k \in Rows
  BY DEF View, Rows, JobsTruthful, TypeOK, JobStatus, Outcome, Delivered, Undelivered
<1> HIDE DEF view
<1>2. ASSUME NEW k \in Rows PROVE k \in Jobs /\ view[k] \in evidence[k] /\ view[k] \in Outcome
  <2>1. k \in Jobs
    BY DEF Rows
  <2>2. view[k] \notin {"PENDING", "RUNNING", "ABSENT"}
    BY <1>1, <2>1 DEF Unsettled, view
  <2>3. QED
    BY <1>1, <2>1, <2>2 DEF JobStatus
<1>3. \A k \in Jobs : view[k] \in Delivered => k \in EverDelivered
  BY <1>1 DEF EverDelivered, Outcome
<1>4. \A k \in Jobs : view[k] \in Undelivered => k \in EverMissed
  BY <1>1 DEF EverMissed, Outcome
<1>5. CASE \A k \in Jobs : view[k] \notin Undelivered
  <2>1. Verdict(view, batch) = "SUCCESS"
    BY <1>5 DEF Verdict, view
  <2>2. Rows \subseteq EverDelivered
    BY <1>2, <1>3, <1>5 DEF Outcome
  <2>3. QED
    BY <2>1, <2>2 DEF Justified, view
<1>6. CASE (\E k \in Jobs : view[k] \in Undelivered) /\ (\E k \in Jobs : view[k] \in Delivered)
  <2>1. Verdict(view, batch) = "PARTIAL"
    BY <1>6 DEF Verdict, view
  <2>2. Rows \subseteq EverDelivered \cup EverMissed
    BY <1>2, <1>3, <1>4 DEF Outcome
  <2>3. EverDelivered # {} /\ EverMissed # {}
    BY <1>3, <1>4, <1>6
  <2>4. QED
    BY <2>1, <2>2, <2>3 DEF Justified, view
<1>7. CASE (\E k \in Jobs : view[k] \in Undelivered) /\ (\A k \in Jobs : view[k] \notin Delivered)
  <2>1. Verdict(view, batch) = "FAILED"
    BY <1>7 DEF Verdict, view
  <2>2. Rows \subseteq EverMissed
    BY <1>2, <1>4, <1>7 DEF Outcome
  <2>3. QED
    BY <2>1, <2>2 DEF Justified, view
<1>8. QED
  BY <1>5, <1>6, <1>7

\* The verdict is justified by the rows and the history after the step.
StillJustified(verdict) ==
  /\ verdict = "SUCCESS" => Rows' \subseteq EverDelivered'
  /\ verdict = "FAILED"  => Rows' \subseteq EverMissed'
  /\ verdict = "PARTIAL" => /\ Rows' \subseteq EverDelivered' \cup EverMissed'
                            /\ EverDelivered' # {} /\ EverMissed' # {}

\* A justified verdict stays justified: history only grows, rows only disappear.
LEMMA JustifiedStable ==
  ASSUME TypeOK, SlotsHoldJobs, NothingBeforeDispatch, RowHeld, [Next]_vars, batch # "NONE",
         NEW verdict, Justified(verdict)
  PROVE  StillJustified(verdict)
<1>1. Rows' \subseteq Rows
  <2>1. ASSUME NEW j \in Jobs, status[j] = "ABSENT" PROVE status'[j] = "ABSENT"
    <3>1. ASSUME NEW w \in Workers, Commit(w), run[w].job = j, run[w].saw # "ABSENT"
          PROVE  FALSE
      BY <2>1, <3>1 DEF Commit, RowHeld
    <3>2. QED
      BY <2>1, <3>1, RowChange DEF RowWritten, Rows
  <2>2. QED
    BY <2>1 DEF Rows
<1>2. EverDelivered \subseteq EverDelivered' /\ EverMissed \subseteq EverMissed'
  BY EvidenceGrows DEF EverDelivered, EverMissed
<1>3. QED
  BY <1>1, <1>2 DEF Justified, StillJustified

\* Every verdict on its way to the batch, and the one in it, is justified.
LEMMA VerdictStep ==
  ASSUME TypeOK, TruthfulPhase3, [Next]_vars
  PROVE  VerdictsJustified' /\ BatchVerdictJustified'
<1> USE DEF TruthfulPhase3
<1>1. \A open \in {"NONE", "PENDING", "RUNNING"} : StillJustified(open)
  BY DEF StillJustified
<1>2. ASSUME NEW v \in Workers, run'[v].pc = "commit" PROVE StillJustified(run'[v].verdict)
  <2>1. CASE run'[v] = run[v]
    <3>1. batch # "NONE" /\ Justified(run[v].verdict)
      BY <1>2, <2>1 DEF NothingBeforeDispatch, VerdictsJustified
    <3>2. QED
      BY <2>1, <3>1, JustifiedStable
  <2>2. ASSUME NEW o \in Results, Publish(v, o) PROVE FALSE
    <3>1. run[v] \in Execution /\ run'[v] = [run[v] EXCEPT !.pc = "report", !.outcome = o]
      BY <2>2 DEF Publish, TypeOK
    <3>2. run'[v].pc = "report"
      BY <3>1 DEF Execution
    <3>3. QED
      BY <1>2, <3>2
  <2>3. CASE Report(v)
    <3> DEFINE j == run[v].job
               o == run[v].outcome
               verdict == Verdict(View(j, o), batch)
    <3>1. /\ j \in Jobs /\ o \in Outcome /\ o \in evidence[j] /\ batch # "NONE"
      BY <2>3 DEF Report, SlotsHoldJobs, ReportsTruthful, TypeOK, Execution,
                  NothingBeforeDispatch
    <3>2. run'[v].verdict \in {"NONE", verdict} /\ (verdict = batch => run'[v].verdict = "NONE")
      BY <2>3, ReportLeaves
    <3>3. CASE run'[v].verdict = "NONE"
      BY <1>1, <3>3
    <3>4. CASE run'[v].verdict = verdict /\ verdict # batch
      <4>1. ~Unsettled(View(j, o))
        BY <3>4 DEF Verdict
      <4>2. Justified(verdict)
        BY <3>1, <4>1, VerdictTruthful
      <4>3. QED
        BY <3>1, <3>4, <4>2, JustifiedStable
    <3>5. QED
      BY <3>2, <3>3, <3>4
  <2>4. QED
    BY <1>2, <2>1, <2>2, <2>3, SlotChange
<1>3. StillJustified(batch')
  <2>1. CASE batch' = batch /\ batch # "NONE"
    BY <2>1, JustifiedStable DEF BatchVerdictJustified
  <2>2. CASE batch' = batch /\ batch = "NONE"
    BY <1>1, <2>2
  <2>3. CASE batch' \in {"PENDING", "RUNNING"}
    BY <1>1, <2>3
  <2>4. ASSUME NEW w \in Workers, Commit(w), batch' = run[w].verdict PROVE StillJustified(batch')
    <3>1. batch # "NONE" /\ Justified(run[w].verdict)
      BY <2>4 DEF Commit, NothingBeforeDispatch, VerdictsJustified
    <3>2. QED
      BY <2>4, <3>1, JustifiedStable
  <2>5. QED
    BY <2>1, <2>2, <2>3, <2>4, BatchChange
<1>4. QED
  BY <1>2, <1>3 DEF VerdictsJustified, BatchVerdictJustified, Justified, StillJustified

\* A batch's status is justified by what executions of its jobs have produced, for every
\* fleet, number of slots and requests, and whatever faults and retries occur: the
\* commits of several Phase 3s, each computed from its own view, cannot make the batch
\* claim a delivery that never happened.
THEOREM VerdictsAreJustified == Spec => [](TruthfulPhase3 /\ BatchVerdictJustified)
<1> DEFINE IInv == TypeOK /\ TruthfulPhase3
<1>1. Init => IInv
  <2> SUFFICES ASSUME Init PROVE IInv
    OBVIOUS
  <2>1. \A w \in Workers : run[w].pc = "idle"
    BY IdleFields DEF Init
  <2>2. \A j \in Jobs : status[j] = "ABSENT" /\ queue[j] = 0 /\ tasks[j] = 0
    BY DEF Init
  <2>3. \A c \in Clients : client[c].pc = "idle"
    BY DEF Init, IdleClient
  <2>4. batch = "NONE"
    BY DEF Init
  <2>5. QED
    BY <2>1, <2>2, <2>3, <2>4, TypeInit
       DEF TruthfulPhase3, SlotsHoldJobs, NothingBeforeDispatch, JobsTruthful,
           ReportsTruthful, RowHeld, RowExclusive, VerdictsJustified,
           BatchVerdictJustified, Justified, Outcome, Delivered, Undelivered
<1>2. IInv /\ [Next]_vars => IInv'
  <2> SUFFICES ASSUME IInv, [Next]_vars PROVE IInv'
    OBVIOUS
  <2>1. TypeOK' /\ SlotsHoldJobs'
    BY TypeStep DEF TruthfulPhase3
  <2>2. NothingBeforeDispatch'
    BY NothingStep DEF TruthfulPhase3
  <2>3. JobsTruthful' /\ ReportsTruthful'
    BY TruthStep DEF TruthfulPhase3
  <2>4. RowHeld' /\ RowExclusive'
    BY RowStep DEF TruthfulPhase3
  <2>5. VerdictsJustified' /\ BatchVerdictJustified'
    BY VerdictStep
  <2>6. QED
    BY <2>1, <2>2, <2>3, <2>4, <2>5 DEF TruthfulPhase3
<1>3. IInv => TruthfulPhase3 /\ BatchVerdictJustified
  BY DEF TruthfulPhase3
<1>4. QED
  BY <1>1, <1>2, <1>3, PTL DEF Spec

\* A Phase 3 decides from truthful rows and reports and holds the row that it writes.
THEOREM Phase3IsTruthful == Spec => []TruthfulPhase3
  BY VerdictsAreJustified, PTL

-----------------------------------------------------------------------------
(* CountersNeverOverstate. *)

\* What a Phase 3 is about to write never exceeds the history either.
Produced(o) == Cardinality({j \in Jobs : o \in evidence[j]})

TalliesNeverOverstate ==
  \A w \in Workers : run[w].pc = "commit" => \A o \in Outcome : run[w].tally[o] <= Produced(o)

\* The jobs an execution has reported an outcome for only become more.
LEMMA ProducedGrows ==
  ASSUME TypeOK, SlotsHoldJobs, [Next]_vars, NEW o \in Outcome
  PROVE  Produced(o) \in Nat /\ Produced(o)' \in Nat /\ Produced(o) <= Produced(o)'
<1> DEFINE S == {j \in Jobs : o \in evidence[j]}
           T == {j \in Jobs : o \in evidence'[j]}
<1>1. S \in SUBSET Jobs /\ T \in SUBSET Jobs /\ S \subseteq T
  BY EvidenceGrows
<1>2. Cardinality(S) \in Nat /\ Cardinality(T) \in Nat /\ Cardinality(S) <= Cardinality(T)
  BY <1>1, JobCount, JobCountMonotone
<1>3. QED
  BY <1>2 DEF Produced

\* The counters Phase 3 computes count rows, and every row's outcome was produced.
LEMMA TallyTruthful ==
  ASSUME TypeOK, JobsTruthful, NEW j \in Jobs, NEW r \in Outcome, r \in evidence[j],
         NEW o \in Outcome
  PROVE  Tally(View(j, r))[o] <= Produced(o)
<1> DEFINE view == View(j, r)
           S == {k \in Jobs : view[k] = o}
           T == {k \in Jobs : o \in evidence[k]}
<1>1. S \in SUBSET Jobs /\ T \in SUBSET Jobs /\ S \subseteq T
  BY DEF View, JobsTruthful, TypeOK
<1>2. Cardinality(S) <= Cardinality(T)
  BY <1>1, JobCountMonotone
<1>3. o \in Column /\ o # "TOTAL"
  BY DEF Column, Outcome, Delivered, Undelivered
<1>4. Tally(view)[o] = Cardinality(S)
  BY <1>3 DEF Tally, Count
<1>5. QED
  BY <1>2, <1>4 DEF Produced

\* Every step keeps the counters, committed and about to be, within what was reported.
LEMMA CounterStep ==
  ASSUME TypeOK, TruthfulPhase3, TalliesNeverOverstate, CountersNeverOverstate, [Next]_vars
  PROVE  TalliesNeverOverstate' /\ CountersNeverOverstate'
<1> USE DEF TruthfulPhase3
<1>1. ASSUME NEW v \in Workers, run'[v].pc = "commit", NEW o \in Outcome
      PROVE  run'[v].tally[o] <= Produced(o)'
  <2>1. CASE run'[v] = run[v]
    <3>1. run[v].tally[o] \in Nat /\ run[v].tally[o] <= Produced(o)
      BY <1>1, <2>1 DEF TalliesNeverOverstate, TypeOK, Execution, Column
    <3>2. QED
      BY <2>1, <3>1, ProducedGrows
  <2>2. ASSUME NEW q \in Results, Publish(v, q) PROVE FALSE
    <3>1. run[v] \in Execution /\ run'[v] = [run[v] EXCEPT !.pc = "report", !.outcome = q]
      BY <2>2 DEF Publish, TypeOK
    <3>2. run'[v].pc = "report"
      BY <3>1 DEF Execution
    <3>3. QED
      BY <1>1, <3>2
  <2>3. CASE Report(v)
    <3> DEFINE j == run[v].job
               r == run[v].outcome
    <3>1. j \in Jobs /\ r \in Outcome /\ r \in evidence[j]
      BY <2>3 DEF Report, SlotsHoldJobs, ReportsTruthful, TypeOK, Execution
    <3>2. o \in Column /\ Tally(View(j, r)) \in [Column -> Nat]
      BY TallyType DEF Column
    <3>3. run'[v].tally[o] \in {0, Tally(View(j, r))[o]}
      BY <2>3, <3>2, ReportLeaves
    <3>4. Tally(View(j, r))[o] <= Produced(o)
      BY <3>1, TallyTruthful
    <3>5. QED
      BY <3>2, <3>3, <3>4, ProducedGrows
  <2>4. QED
    BY <1>1, <2>1, <2>2, <2>3, SlotChange
<1>2. ASSUME NEW o \in Outcome PROVE counter'[o] <= Produced(o)'
  <2>1. o \in Column /\ o # "TOTAL" /\ counter[o] \in Nat /\ counter[o] <= Produced(o)
    BY DEF Column, Outcome, Delivered, Undelivered, TypeOK, CountersNeverOverstate, Produced
  <2>2. CASE counter'[o] = counter[o]
    BY <2>1, <2>2, ProducedGrows
  <2>3. ASSUME NEW c \in Clients, Dispatch(c) PROVE counter'[o] = 0
    BY <2>1, <2>3 DEF Dispatch, NoTally
  <2>4. ASSUME NEW w \in Workers, Commit(w)
        PROVE  counter'[o] = counter[o] \/ counter'[o] = run[w].tally[o]
    BY <2>1, <2>4 DEF Commit
  <2>5. ASSUME NEW w \in Workers, Commit(w), counter'[o] = run[w].tally[o]
        PROVE  counter'[o] <= Produced(o)'
    <3>1. run[w].tally[o] \in Nat /\ run[w].tally[o] <= Produced(o)
      BY <2>1, <2>5 DEF Commit, TalliesNeverOverstate, TypeOK, Execution
    <3>2. QED
      BY <2>5, <3>1, ProducedGrows
  <2>6. \/ UNCHANGED counter
        \/ \E c \in Clients : Dispatch(c)
        \/ \E w \in Workers : Commit(w)
    BY DEF Next, ApiStep, WorkerStep, Advance, Environment, vars, Enqueue, Fallback,
           RetryLoad, RetryCommit, RetryFails, Start, Refuse, Claim, Publish, Report,
           ReportFails, Finish, RowGone, DeleteBlock, DeleteCashier, Abandon, WorkerCrash,
           ApiCrash
  <2>7. QED
    BY <2>2, <2>3, <2>4, <2>5, <2>6, ProducedGrows
<1>3. QED
  BY <1>1, <1>2 DEF TalliesNeverOverstate, CountersNeverOverstate, Produced

\* The lost updates of overlapping Phase 3s only ever make the batch's counters too low:
\* none exceeds the number of cashiers for which that outcome was produced.
THEOREM CountersAreSound == Spec => []CountersNeverOverstate
<1> DEFINE IInv == TalliesNeverOverstate /\ CountersNeverOverstate
<1>1. Init => IInv
  <2> SUFFICES ASSUME Init PROVE IInv
    OBVIOUS
  <2>1. \A w \in Workers : run[w].pc = "idle"
    BY IdleFields DEF Init
  <2>2. ASSUME NEW o \in Outcome PROVE counter[o] <= Cardinality({j \in Jobs : o \in evidence[j]})
    <3>1. counter[o] = 0
      BY DEF Init, NoTally, Column
    <3>2. Cardinality({j \in Jobs : o \in evidence[j]}) \in Nat
      BY JobCount
    <3>3. QED
      BY <3>1, <3>2
  <2>3. QED
    BY <2>1, <2>2 DEF TalliesNeverOverstate, CountersNeverOverstate
<1>2. TypeOK /\ SlotsHoldJobs /\ TruthfulPhase3 /\ IInv /\ [Next]_vars => IInv'
  BY CounterStep
<1>3. IInv => CountersNeverOverstate
  OBVIOUS
<1>4. QED
  BY <1>1, <1>2, <1>3, TypeCorrect, VerdictsAreJustified, PTL DEF Spec

-----------------------------------------------------------------------------
(* NoLostWork. *)

Carrying == {"claim", "network", "report", "commit"}

\* While the block exists no execution is refused, and a request falls back on every
\* job it has not pushed.
NothingRefused ==
  /\ block
  /\ \A w \in Workers : run[w].pc # "refuse"
  /\ \A c \in Clients : client[c].pc = "enqueue" => client[c].todo \subseteq client[c].all

\* What shelters a state sheltered the states before it.
LEMMA ShelteredBefore ==
  ASSUME TypeOK, [Next]_vars, Sheltered' PROVE Sheltered
<1>1. block' => block
  BY DEF Next, ApiStep, WorkerStep, Advance, Environment, vars, Dispatch, Enqueue, Fallback,
         RetryLoad, RetryCommit, RetryFails, Start, Refuse, Claim, Publish, Report,
         ReportFails, Commit, Finish, RowGone, DeleteBlock, DeleteCashier, Abandon,
         WorkerCrash, ApiCrash
<1>2. UNCHANGED faults \/ \E kind \in FaultKinds : Fault(kind)
  BY DEF Next, ApiStep, WorkerStep, Advance, Environment, vars, Dispatch, Enqueue, Fallback,
         RetryLoad, RetryCommit, RetryFails, Start, Refuse, Claim, Publish, Report,
         ReportFails, Commit, Finish, RowGone, DeleteBlock, DeleteCashier, Abandon,
         WorkerCrash, ApiCrash, FaultKinds
<1>3. ASSUME NEW kind \in FaultKinds, Fault(kind)
      PROVE  /\ faults["api_crash"] <= faults'["api_crash"]
             /\ faults["abandon"] <= faults'["abandon"]
  BY <1>3 DEF TypeOK, Fault, FaultKinds
<1>4. faults["api_crash"] \in Nat /\ faults["abandon"] \in Nat
  BY DEF TypeOK, FaultKinds
<1>5. QED
  BY <1>1, <1>2, <1>3, <1>4 DEF Sheltered

\* While the template exists no execution refuses its job.
LEMMA RefusedStep ==
  ASSUME Sheltered', TypeOK, SlotsHoldJobs, NothingRefused, [Next]_vars
  PROVE  NothingRefused'
<1>1. block'
  BY DEF Sheltered
<1>2. ASSUME NEW v \in Workers PROVE run'[v].pc # "refuse"
  <2> USE DEF TypeOK, SlotsHoldJobs
  <2>1. CASE run'[v] = run[v]
    BY <2>1 DEF NothingRefused
  <2>2. ASSUME NEW w \in Workers, NEW e \in Execution, e.pc # "refuse",
               run' = [run EXCEPT ![w] = e]
        PROVE  run'[v].pc # "refuse"
    BY <2>1, <2>2
  <2>3. ASSUME NEW w \in Workers, run[w].pc # "idle",
               run' = [run EXCEPT ![w] = Returned(run[w].job, run[w].local)]
        PROVE  run'[v].pc # "refuse"
    <3>1. run[w].job \in Jobs /\ run[w].local \in BOOLEAN
      BY <2>3 DEF Execution
    <3>2. QED
      BY <2>2, <2>3, <3>1, ReturnedType
  <2>4. ASSUME NEW w \in Workers, NEW j \in Jobs, NEW l \in BOOLEAN, Start(w, j, l)
        PROVE  run'[v].pc # "refuse"
    <3>1. Loaded(j, l) \in Execution /\ Loaded(j, l).pc # "refuse"
      BY LoadedType, ReturnedType DEF NothingRefused
    <3>2. QED
      BY <2>2, <2>4, <3>1 DEF Start
  <2>5. ASSUME NEW w \in Workers, Claim(w) PROVE run'[v].pc # "refuse"
    <3>1. run[w].job \in Jobs /\ run[w].local \in BOOLEAN
      BY <2>5 DEF Claim, Execution
    <3> DEFINE e == Executing("network", run[w].job, run[w].local)
    <3>2. e \in Execution /\ e.pc = "network"
      BY <3>1, ExecutingType
    <3>3. run' = [run EXCEPT ![w] = e]
      BY <2>5 DEF Claim
    <3> HIDE DEF e
    <3>4. QED
      BY <2>2, <3>2, <3>3
  <2>6. ASSUME NEW w \in Workers, Refuse(w) \/ ReportFails(w) \/ RowGone(w) \/ Commit(w)
        PROVE  run'[v].pc # "refuse"
    BY <2>6, <2>3 DEF Refuse, ReportFails, RowGone, Commit
  <2>7. ASSUME NEW w \in Workers, Finish(w) \/ Abandon(w) PROVE run'[v].pc # "refuse"
    BY <2>7, <2>2, IdleType, IdleFields DEF Finish, Abandon
  <2>8. ASSUME NEW w \in Workers, NEW o \in Results, Publish(w, o) PROVE run'[v].pc # "refuse"
    <3>1. o \in Outcome
      BY PublicationAssumption DEF Outcome, Delivered, Undelivered
    <3>2. /\ [run[w] EXCEPT !.pc = "report", !.outcome = o] \in Execution
          /\ [run[w] EXCEPT !.pc = "report", !.outcome = o].pc # "refuse"
      BY <3>1 DEF Execution
    <3>3. QED
      BY <2>2, <2>8, <3>2 DEF Publish
  <2>9. ASSUME NEW w \in Workers, Report(w) PROVE run'[v].pc # "refuse"
    <3>1. run'[w].pc = "commit" /\ (v # w => run'[v] = run[v])
      BY <2>9, ReportLeaves
    <3>2. QED
      BY <2>1, <3>1
  <2>10. ASSUME WorkerCrash \/ ApiCrash PROVE run'[v].pc # "refuse"
    <3>1. run'[v] = run[v] \/ run'[v] = Idle
      BY <2>10 DEF WorkerCrash, ApiCrash
    <3>2. QED
      BY <2>1, <3>1, IdleFields
  <2>11. CASE UNCHANGED run
    BY <2>1, <2>11
  <2>12. QED
    BY <2>4, <2>5, <2>6, <2>7, <2>8, <2>9, <2>10, <2>11
       DEF Next, ApiStep, WorkerStep, Advance, Environment, vars, Dispatch, Enqueue,
           Fallback, RetryLoad, RetryCommit, RetryFails, DeleteBlock, DeleteCashier
<1>3. ASSUME NEW d \in Clients, client'[d].pc = "enqueue"
      PROVE  client'[d].todo \subseteq client'[d].all
  <2> USE DEF TypeOK, NothingRefused
  <2>1. IdleClient.pc = "idle"
    BY DEF IdleClient
  <2>2. CASE client'[d] = client[d]
    BY <1>3, <2>2
  <2>3. ASSUME NEW c \in Clients, Dispatch(c) \/ RetryCommit(c) \/ RetryLoad(c)
        PROVE  client'[d].todo \subseteq client'[d].all
    <3>1. CASE d = c
      <4>1. CASE Dispatch(c)
        BY <3>1, <4>1 DEF Dispatch, EnqueueAll
      <4>2. CASE RetryCommit(c)
        BY <3>1, <4>2 DEF RetryCommit, EnqueueAll
      <4>3. CASE RetryLoad(c)
        BY <1>3, <3>1, <4>3 DEF RetryLoad
      <4>4. QED
        BY <2>3, <4>1, <4>2, <4>3
    <3>2. CASE d # c
      BY <2>2, <2>3, <3>2 DEF Dispatch, RetryCommit, RetryLoad, EnqueueAll
    <3>3. QED
      BY <3>1, <3>2
  <2>4. ASSUME NEW c \in Clients, Fallback(c) \/ RetryFails(c)
        PROVE  client'[d].todo \subseteq client'[d].all
    BY <1>3, <2>1, <2>2, <2>4 DEF Fallback, RetryFails
  <2>5. ASSUME NEW c \in Clients, Enqueue(c)
        PROVE  client'[d].todo \subseteq client'[d].all
    <3>1. PICK k \in client[c].todo :
            client' = [client EXCEPT ![c] = IF client[c].todo = {k} THEN IdleClient
                         ELSE [client[c] EXCEPT !.todo = client[c].todo \ {k}]]
      BY <2>5 DEF Enqueue
    <3>2. CASE d = c /\ client[c].todo # {k}
      <4>1. client'[d] = [client[c] EXCEPT !.todo = client[c].todo \ {k}]
        BY <3>1, <3>2
      <4>2. client'[d].todo = client[c].todo \ {k} /\ client'[d].all = client[c].all
        BY <4>1 DEF Request
      <4>3. QED
        BY <2>5, <3>2, <4>2 DEF Enqueue
    <3>3. CASE d = c /\ client[c].todo = {k}
      BY <1>3, <2>1, <3>1, <3>3
    <3>4. CASE d # c
      BY <2>2, <3>1, <3>4
    <3>5. QED
      BY <3>2, <3>3, <3>4
  <2>6. CASE ApiCrash
    BY <1>3, <2>1, <2>6 DEF ApiCrash
  <2>7. CASE UNCHANGED client
    BY <2>2, <2>7
  <2>8. QED
    BY <2>3, <2>4, <2>5, <2>6, <2>7
       DEF Next, ApiStep, WorkerStep, Advance, Environment, vars, Start, Refuse, Claim,
           Publish, Report, ReportFails, Commit, Finish, RowGone, DeleteBlock, DeleteCashier,
           Abandon, WorkerCrash
<1>4. QED
  BY <1>1, <1>2, <1>3 DEF NothingRefused

\* A step of one slot leaves job j carried unless that slot was the one to carry it.
LEMMA CarriedBesides ==
  ASSUME TypeOK, NEW j \in Jobs, Carried(j), NEW w \in Workers, NEW e,
         UNCHANGED <<client, queue, tasks>>, run' = [run EXCEPT ![w] = e],
         run[w].job = j /\ run[w].pc \in Carrying => e.job = j /\ e.pc \in Carrying
  PROVE  Carried(j)'
BY DEF TypeOK, Carried, Carrying

\* After every step an open job has somebody who carries it.
LEMMA CarriedStep ==
  ASSUME Sheltered', TypeOK, TruthfulPhase3, NothingRefused, [Next]_vars,
         \A k \in Jobs : Open(k) => Carried(k),
         NEW j \in Jobs, Open(j)'
  PROVE  Carried(j)'
<1> USE DEF TypeOK
<1>1. status[j] = status'[j] => Carried(j)
  BY DEF Open
<1>2. ASSUME NEW c \in Clients, Dispatch(c) PROVE Carried(j)'
  BY <1>2 DEF Dispatch, EnqueueAll, Carried
<1>3. ASSUME NEW c \in Clients, Enqueue(c) PROVE Carried(j)'
  <2>1. PICK k \in client[c].todo :
          /\ queue' = [queue EXCEPT ![k] = @ + 1]
          /\ client' = [client EXCEPT ![c] = IF client[c].todo = {k} THEN IdleClient
                          ELSE [client[c] EXCEPT !.todo = client[c].todo \ {k}]]
    BY <1>3 DEF Enqueue
  <2>2. client[c] \in Request /\ k \in Jobs
    BY DEF Request
  <2>3. CASE j = k
    BY <2>1, <2>2, <2>3 DEF Carried
  <2>4. CASE j # k /\ j \in client[c].todo
    <3>1. client'[c] = [client[c] EXCEPT !.todo = client[c].todo \ {k}]
      BY <2>1, <2>4
    <3>2. client'[c].pc = client[c].pc /\ client'[c].todo = client[c].todo \ {k}
      BY <2>2, <3>1 DEF Request
    <3>3. QED
      BY <1>3, <2>4, <3>2 DEF Enqueue, Carried
  <2>5. CASE j # k /\ j \notin client[c].todo
    BY <1>1, <1>3, <2>1, <2>5 DEF Enqueue, Carried
  <2>6. QED
    BY <2>3, <2>4, <2>5
<1>4. ASSUME NEW c \in Clients, Fallback(c) PROVE Carried(j)'
  <2>1. CASE j \in client[c].todo
    BY <1>4, <2>1 DEF Fallback, Carried, NothingRefused
  <2>2. CASE j \notin client[c].todo
    BY <1>1, <1>4, <2>2 DEF Fallback, Carried
  <2>3. QED
    BY <2>1, <2>2
<1>5. ASSUME NEW c \in Clients, RetryLoad(c) \/ RetryFails(c) PROVE Carried(j)'
  BY <1>1, <1>5 DEF RetryLoad, RetryFails, Carried
<1>6. ASSUME NEW c \in Clients, RetryCommit(c) PROVE Carried(j)'
  <2>1. CASE j \in client[c].all
    BY <1>6, <2>1 DEF RetryCommit, EnqueueAll, Carried
  <2>2. CASE j \notin client[c].all
    BY <1>1, <1>6, <2>2 DEF RetryCommit, EnqueueAll, Carried
  <2>3. QED
    BY <2>1, <2>2
<1>7. ASSUME NEW w \in Workers, NEW k \in Jobs, NEW l \in BOOLEAN, Start(w, k, l)
      PROVE  Carried(j)'
  <2>1. /\ run[w].pc = "idle" /\ UNCHANGED <<client, status>>
        /\ run' = [run EXCEPT ![w] = Loaded(k, l)]
    BY <1>7 DEF Start
  <2>2. CASE j = k
    <3>1. j \in Rows
      BY <2>1 DEF Open, Rows
    <3>2. Loaded(j, l).pc = "claim" /\ Loaded(j, l).job = j
      BY <3>1, LoadedType DEF NothingRefused
    <3>3. QED
      BY <2>1, <2>2, <3>2 DEF Carried
  <2>3. CASE j # k
    <3>1. queue'[j] = queue[j] /\ tasks'[j] = tasks[j]
      <4>1. CASE l
        BY <1>7, <2>3, <4>1 DEF Start
      <4>2. CASE ~l
        BY <1>7, <2>3, <4>2 DEF Start
      <4>3. QED
        BY <4>1, <4>2
    <3>2. QED
      BY <1>1, <2>1, <3>1 DEF Carried
  <2>4. QED
    BY <2>2, <2>3
<1>8. ASSUME NEW w \in Workers, Claim(w) PROVE Carried(j)'
  <2> DEFINE e == Executing("network", run[w].job, run[w].local)
  <2>1. run[w].job \in Jobs /\ run[w].local \in BOOLEAN
    BY <1>8 DEF Claim, TruthfulPhase3, SlotsHoldJobs, Execution
  <2>2. e.pc = "network" /\ e.job = run[w].job
    BY <2>1, ExecutingType
  <2>3. run' = [run EXCEPT ![w] = e]
    BY <1>8 DEF Claim
  <2> HIDE DEF e
  <2>4. CASE j = run[w].job
    BY <2>2, <2>3, <2>4 DEF Carried
  <2>5. CASE j # run[w].job
    <3>1. Carried(j)
      BY <1>1, <1>8, <2>5 DEF Claim
    <3>2. QED
      BY <1>8, <2>3, <2>5, <3>1, CarriedBesides DEF Claim
  <2>6. QED
    BY <2>4, <2>5
<1>9. ASSUME NEW w \in Workers, NEW o \in Results, Publish(w, o) PROVE Carried(j)'
  <2> DEFINE e == [run[w] EXCEPT !.pc = "report", !.outcome = o]
  <2>1. e.pc = "report" /\ e.job = run[w].job
    BY DEF Execution
  <2>2. run' = [run EXCEPT ![w] = e]
    BY <1>9 DEF Publish
  <2> HIDE DEF e
  <2>3. QED
    <3>1. Carried(j) /\ UNCHANGED <<client, queue, tasks>> /\ run[w].pc = "network"
      BY <1>1, <1>9 DEF Publish
    <3>2. e.pc \in Carrying
      BY <2>1 DEF Carrying
    <3>3. QED
      BY <2>1, <2>2, <3>1, <3>2, CarriedBesides
<1>10. ASSUME NEW w \in Workers, Report(w) PROVE Carried(j)'
  <2>1. /\ run'[w].pc = "commit" /\ run'[w].job = run[w].job
        /\ \A v \in Workers : v # w => run'[v] = run[v]
    BY <1>10, ReportLeaves DEF TruthfulPhase3
  <2>2. QED
    BY <1>1, <1>10, <2>1 DEF Report, Carried
<1>11. ASSUME NEW w \in Workers, Commit(w) PROVE Carried(j)'
  <2>1. CASE j = run[w].job
    <3>1. status[j] = run[w].saw /\ run[w].outcome \in Outcome
      BY <1>11, <2>1 DEF Commit, TruthfulPhase3, RowHeld, Execution
    <3>2. status'[j] \in Outcome \cup {"ABSENT"}
      BY <1>11, <2>1, <3>1 DEF Commit
    <3>3. QED
      BY <3>2 DEF Open, Outcome, Delivered, Undelivered
  <2>2. CASE j # run[w].job
    <3>1. Carried(j)
      BY <1>1, <1>11, <2>2 DEF Commit
    <3>2. QED
      BY <1>11, <2>2, <3>1, CarriedBesides DEF Commit
  <2>3. QED
    BY <2>1, <2>2
<1>12. ASSUME NEW w \in Workers, RowGone(w) PROVE Carried(j)'
  <2>1. Carried(j) /\ j # run[w].job
    BY <1>1, <1>12 DEF RowGone, Rows, Open
  <2>2. QED
    BY <1>12, <2>1, CarriedBesides DEF RowGone
<1>13. ASSUME NEW w \in Workers, Finish(w) PROVE Carried(j)'
  BY <1>1, <1>13, CarriedBesides DEF Finish, Carrying
<1>14. ASSUME NEW k \in Jobs, DeleteCashier(k) PROVE Carried(j)'
  <2>1. j # k
    BY <1>14 DEF DeleteCashier, Open
  <2>2. QED
    BY <1>1, <1>14, <2>1 DEF DeleteCashier, Carried
<1>15. CASE WorkerCrash
  <2>1. Carried(j) /\ Redeliver(j) \in Nat /\ Redeliver(j) >= queue[j] /\ queue'[j] = Redeliver(j)
    BY <1>1, <1>15, SlotCount DEF WorkerCrash, Redeliver
  <2>2. ASSUME NEW w \in Workers, run[w].job = j, run[w].pc \in Carrying, ~run[w].local
        PROVE  queue'[j] > 0
    <3> DEFINE S == {v \in Workers : Busy(v) /\ ~run[v].local /\ run[v].job = j}
    <3>1. w \in S /\ S \in SUBSET Workers
      BY <2>2 DEF Busy, Carrying
    <3>2. IsFiniteSet(S) /\ S # {}
      BY <3>1, PublicationAssumption, FS_Subset
    <3>3. Cardinality(S) \in Nat /\ Cardinality(S) # 0
      BY <3>2, FS_CardinalityType, FS_EmptySet
    <3>4. QED
      BY <2>1, <3>3 DEF Redeliver
  <2>3. QED
    BY <1>15, <2>1, <2>2 DEF WorkerCrash, Carried, Carrying
<1>16. CASE UNCHANGED vars
  BY <1>1, <1>16 DEF vars, Carried
<1>17. ASSUME NEW w \in Workers PROVE ~Refuse(w) /\ ~ReportFails(w) /\ ~Abandon(w)
  <2>1. ~Refuse(w) /\ ~ReportFails(w)
    BY DEF Refuse, ReportFails, NothingRefused
  <2>2. ~Abandon(w)
    BY FaultIsCounted DEF Abandon, Sheltered, FaultKinds
  <2>3. QED
    BY <2>1, <2>2
<1>18. ~DeleteBlock /\ ~ApiCrash
  BY FaultIsCounted DEF DeleteBlock, ApiCrash, Sheltered, FaultKinds
<1>19. QED
  BY <1>2, <1>3, <1>4, <1>5, <1>6, <1>7, <1>8, <1>9, <1>10, <1>11, <1>12, <1>13, <1>14,
     <1>15, <1>16, <1>17, <1>18 DEF Next, ApiStep, WorkerStep, Advance, Environment

\* Sheltered, nothing is refused and every open job is carried.
ShelterHolds == Sheltered => NothingRefused /\ \A j \in Jobs : Open(j) => Carried(j)

\* It is inductive.
LEMMA ShelterAlwaysHolds == Spec => []ShelterHolds
<1>1. Init => ShelterHolds
  <2> SUFFICES ASSUME Init PROVE ShelterHolds
    OBVIOUS
  <2>1. \A w \in Workers : run[w].pc = "idle"
    BY IdleFields DEF Init
  <2>2. \A c \in Clients : client[c].pc = "idle"
    BY DEF Init, IdleClient
  <2>3. QED
    BY <2>1, <2>2 DEF Init, NothingRefused, Open, ShelterHolds
<1>2. TypeOK /\ SlotsHoldJobs /\ TruthfulPhase3 /\ ShelterHolds /\ [Next]_vars => ShelterHolds'
  BY ShelteredBefore, RefusedStep, CarriedStep DEF ShelterHolds
<1>3. QED
  BY <1>1, <1>2, TypeCorrect, VerdictsAreJustified, PTL DEF Spec

\* Unless the API process dies, an execution is abandoned or the block is deleted, no job
\* is left open with nobody to finish it: not by a Redis that fails before or in the
\* middle of the enqueueing, by a worker process that dies, by duplicated deliveries, by
\* retries that overlap executions or by cashiers that are deleted.
THEOREM NothingIsStranded == Spec => []NoLostWork
<1>1. ShelterHolds => NoLostWork
  BY DEF ShelterHolds, NoLostWork
<1>2. QED
  BY <1>1, ShelterAlwaysHolds, PTL

-----------------------------------------------------------------------------
(* SingleDelivery, DeliveredNotReprocessed. *)

\* A request is about to push job j, or has loaded it to retry it; a slot is executing it.
Pushing(c, j)  == client[c].pc = "enqueue" /\ j \in client[c].todo
Retrying(c, j) == client[c].pc = "retry" /\ j \in client[c].all
Working(w, j)  == run[w].job = j /\ run[w].pc # "done"

\* The row of a job agrees with how far the slot that executes it has come, unless the
\* cashier was deleted.
InStep(w, j) ==
  /\ run[w].pc # "idle"
  /\ run[w].pc \in {"claim", "refuse"} => /\ run[w].saw \in {"PENDING", "RUNNING"}
                                          /\ status[j] \in {run[w].saw, "ABSENT"}
  /\ run[w].pc \in {"network", "report", "commit"} => status[j] \in {"RUNNING", "ABSENT"}

\* Job j has at most one owner, a queue, a request or a slot, which agrees with its row,
\* and at most one retry has loaded it, while it has none.
OneOwner(j) ==
  /\ queue[j] + tasks[j] <= 1
  /\ queue[j] + tasks[j] = 1 => /\ status[j] \in {"PENDING", "RUNNING", "ABSENT"}
                                /\ \A c \in Clients : ~Pushing(c, j)
                                /\ \A w \in Workers : ~Working(w, j)
  /\ \A c \in Clients : Pushing(c, j) => /\ status[j] \in {"PENDING", "ABSENT"}
                                         /\ \A d \in Clients : Pushing(d, j) => d = c
                                         /\ \A w \in Workers : ~Working(w, j)
  /\ \A w \in Workers : Working(w, j) => /\ InStep(w, j)
                                         /\ \A v \in Workers : Working(v, j) => v = w
  /\ \A c \in Clients : Retrying(c, j) => /\ status[j] \in Undelivered \cup {"ABSENT"}
                                          /\ \A d \in Clients : Retrying(d, j) => d = c

\* The jobs that nothing has doubled have one owner; nothing happens before the dispatch.
OwnersSole == \A j \in Jobs \ doubled : OneOwner(j)
BlankBefore == batch = "NONE" => Rows = {} /\ doubled = {} /\ EverDelivered = {}

\* What Phase 1 leaves of a job that waited: an execution in step with it, or nothing.
LEMMA LoadedInStep ==
  ASSUME TypeOK, NEW j \in Jobs, NEW l \in BOOLEAN,
         status[j] \in {"PENDING", "RUNNING", "ABSENT"}
  PROVE  \/ Loaded(j, l).pc = "done" \/ Loaded(j, l).job \notin Jobs
         \/ /\ Loaded(j, l).pc \in {"claim", "refuse"} /\ Loaded(j, l).job = j
            /\ Loaded(j, l).saw = status[j] /\ status[j] # "ABSENT"
<1>1. CASE j \notin Rows
  <2>1. Loaded(j, l) = Returned(j, l)
    BY <1>1, LoadedType
  <2>2. Returned(j, TRUE) = Idle /\ Returned(j, FALSE) = Executing("done", j, FALSE)
    BY DEF Returned
  <2>3. Executing("done", j, FALSE).pc = "done"
    BY ExecutingType
  <2>4. Idle.job \notin Jobs
    BY PublicationAssumption DEF Idle
  <2>5. CASE l = TRUE
    BY <2>1, <2>2, <2>4, <2>5
  <2>6. CASE l = FALSE
    BY <2>1, <2>2, <2>3, <2>6
  <2> QED
    BY <2>5, <2>6
<1>2. CASE j \in Rows
  <2> DEFINE pc == IF block THEN "claim" ELSE "refuse"
             e == Executing(pc, j, l)
  <2>1. e \in Execution
    BY ExecutingType
  <2>2. Loaded(j, l) = [e EXCEPT !.saw = status[j], !.sawAttempt = attempt[j],
                                 !.sawBatch = batch]
    BY <1>2 DEF Loaded
  <2> HIDE DEF e
  <2>3. Loaded(j, l).saw = status[j]
    BY <2>1, <2>2 DEF Execution
  <2>4. status[j] # "ABSENT"
    BY <1>2 DEF Rows
  <2> QED
    BY <1>2, <2>3, <2>4, LoadedType
<1> QED
  BY <1>1, <1>2

\* What a returned coroutine leaves is no execution of a job.
LEMMA ReturnedWorks ==
  ASSUME NEW k \in Jobs, NEW l \in BOOLEAN
  PROVE  Returned(k, l).pc = "done" \/ Returned(k, l).job \notin Jobs
<1>1. Returned(k, TRUE) = Idle /\ Returned(k, FALSE) = Executing("done", k, FALSE)
  BY DEF Returned
<1>2. Executing("done", k, FALSE).pc = "done"
  BY ExecutingType
<1>3. Idle.job \notin Jobs
  BY PublicationAssumption DEF Idle
<1>4. CASE l = TRUE
  BY <1>1, <1>3, <1>4
<1>5. CASE l = FALSE
  BY <1>1, <1>2, <1>5
<1> QED
  BY <1>4, <1>5

\* A step of a slot that writes only the row of the job it executes, and leaves behind
\* an execution that goes on with that job, in step with its row, or none.
LEMMA SlotKeepsOwner ==
  ASSUME TypeOK, NEW j \in Jobs, OneOwner(j), NEW w \in Workers, NEW e,
         UNCHANGED <<client, queue, tasks>>, run' = [run EXCEPT ![w] = e],
         status'[j] = status[j] \/ (Working(w, j) /\ status[j] # "ABSENT"),
         e.pc = "done" \/ e.job # j \/ (Working(w, j) /\ InStep(w, j)')
  PROVE  OneOwner(j)'
<1> USE DEF OneOwner
<1>1. run'[w] = e /\ \A v \in Workers : v # w => run'[v] = run[v]
  BY DEF TypeOK
<1>2. \A v \in Workers : Working(v, j)' => Working(v, j)
  BY <1>1 DEF Working
<1>3. \A c \in Clients : /\ Pushing(c, j)' <=> Pushing(c, j)
                         /\ Retrying(c, j)' <=> Retrying(c, j)
  BY DEF Pushing, Retrying
<1>4. (queue[j] + tasks[j] <= 1)'
  OBVIOUS
<1>5. CASE status'[j] = status[j]
  <2>1. \A v \in Workers : v # w /\ Working(v, j)' => InStep(v, j)'
    BY <1>1, <1>2, <1>5 DEF InStep
  <2>2. Working(w, j)' => InStep(w, j)'
    BY <1>1 DEF Working
  <2> QED
    BY <1>2, <1>3, <1>4, <1>5, <2>1, <2>2
<1>6. CASE Working(w, j) /\ status[j] # "ABSENT"
  <2>1. status[j] \in {"PENDING", "RUNNING"}
    <3>1. InStep(w, j)
      BY <1>6
    <3>2. run[w].pc \in {"refuse", "claim", "network", "report", "commit"}
      BY <1>6, <3>1 DEF TypeOK, Execution, Working, InStep
    <3> QED
      BY <1>6, <3>1, <3>2 DEF InStep
  <2>2. queue'[j] + tasks'[j] # 1 /\ \A c \in Clients : ~Pushing(c, j)'
    BY <1>3, <1>6
  <2>3. \A v \in Workers : Working(v, j)' => v = w
    BY <1>2, <1>6
  <2>4. \A c \in Clients : ~Retrying(c, j)'
    BY <1>3, <2>1 DEF Undelivered
  <2>5. Working(w, j)' => InStep(w, j)'
    BY <1>1 DEF Working
  <2> QED
    BY <1>4, <2>2, <2>3, <2>4, <2>5
<1> QED
  BY <1>5, <1>6

\* No step of an execution gives its job a second owner.
LEMMA AdvanceKeepsOwner ==
  ASSUME TypeOK, TruthfulPhase3, NEW j \in Jobs, OneOwner(j),
         NEW w \in Workers, Advance(w) \/ Abandon(w)
  PROVE  OneOwner(j)'
<1> DEFINE k == run[w].job
<1> USE DEF TypeOK
<1>1. run[w].pc # "idle"
  BY DEF Advance, Refuse, Claim, RowGone, Publish, Report, ReportFails, Commit, Finish,
         Abandon, Busy
<1>2. k \in Jobs /\ run[w].local \in BOOLEAN /\ run[w] \in Execution
  BY <1>1 DEF TruthfulPhase3, SlotsHoldJobs, Execution
<1>3. ASSUME run' = [run EXCEPT ![w] = Returned(k, run[w].local)],
             status'[j] = status[j] \/ (Working(w, j) /\ status[j] # "ABSENT"),
             UNCHANGED <<client, queue, tasks>>
      PROVE  OneOwner(j)'
  BY <1>2, <1>3, ReturnedWorks, SlotKeepsOwner
<1>4. ASSUME NEW e, run' = [run EXCEPT ![w] = e], e.job = k,
             run[w].pc # "done", j = k => InStep(w, j)',
             status'[j] = status[j] \/ (j = k /\ status[j] # "ABSENT"),
             UNCHANGED <<client, queue, tasks>>
      PROVE  OneOwner(j)'
  <2>1. j = k => Working(w, j)
    BY <1>4 DEF Working
  <2> QED
    BY <1>4, <2>1, SlotKeepsOwner
<1>5. CASE Refuse(w)
  <2>1. status'[j] = status[j] \/ (Working(w, j) /\ status[j] # "ABSENT")
    BY <1>2, <1>5 DEF Refuse, Working, Rows
  <2> QED
    BY <1>3, <1>5, <2>1 DEF Refuse
<1>6. CASE Claim(w)
  <2> DEFINE e == Executing("network", k, run[w].local)
  <2>1. e.job = k /\ e.pc = "network"
    BY <1>2, ExecutingType
  <2>2. run' = [run EXCEPT ![w] = e]
    BY <1>6 DEF Claim
  <2> HIDE DEF e
  <2>3. j = k => InStep(w, j)'
    <3> SUFFICES ASSUME j = k PROVE InStep(w, j)'
      OBVIOUS
    <3>1. Working(w, j)
      BY <1>6 DEF Working, Claim
    <3>2. run[w].saw \in {"PENDING", "RUNNING"} /\ status[j] \in {run[w].saw, "ABSENT"}
      BY <1>6, <3>1 DEF OneOwner, InStep, Claim
    <3>3. status'[j] = "RUNNING"
      BY <1>6, <3>2 DEF Claim, Rows
    <3>4. run'[w] = e
      BY <2>2
    <3> QED
      BY <2>1, <3>3, <3>4 DEF InStep
  <2>4. status'[j] = status[j] \/ (j = k /\ status[j] # "ABSENT")
    BY <1>2, <1>6 DEF Claim, Rows
  <2> QED
    BY <1>4, <1>6, <2>1, <2>2, <2>3, <2>4 DEF Claim
<1>7. ASSUME RowGone(w) \/ ReportFails(w) PROVE OneOwner(j)'
  BY <1>3, <1>7 DEF RowGone, ReportFails
<1>8. ASSUME NEW o \in Results, Publish(w, o) PROVE OneOwner(j)'
  <2> DEFINE e == [run[w] EXCEPT !.pc = "report", !.outcome = o]
  <2>1. e.job = k /\ e.pc = "report"
    BY <1>2 DEF Execution
  <2>2. run' = [run EXCEPT ![w] = e]
    BY <1>8 DEF Publish
  <2> HIDE DEF e
  <2>3. j = k => InStep(w, j)'
    <3> SUFFICES ASSUME j = k PROVE InStep(w, j)'
      OBVIOUS
    <3>1. Working(w, j)
      BY <1>8 DEF Working, Publish
    <3>2. status[j] \in {"RUNNING", "ABSENT"}
      BY <1>8, <3>1 DEF OneOwner, InStep, Publish
    <3>3. run'[w] = e
      BY <2>2
    <3> QED
      BY <1>8, <2>1, <3>2, <3>3 DEF InStep, Publish
  <2> QED
    BY <1>4, <1>8, <2>1, <2>2, <2>3 DEF Publish
<1>9. CASE Report(w)
  <2>1. PICK e : run' = [run EXCEPT ![w] = e]
    BY <1>9 DEF Report
  <2>2. run'[w] = e
    BY <2>1
  <2>3. e.job = k /\ e.pc = "commit"
    BY <1>9, <2>2, ReportLeaves DEF TruthfulPhase3
  <2>4. j = k => InStep(w, j)'
    <3> SUFFICES ASSUME j = k PROVE InStep(w, j)'
      OBVIOUS
    <3>1. Working(w, j)
      BY <1>9 DEF Working, Report
    <3>2. status[j] \in {"RUNNING", "ABSENT"}
      BY <1>9, <3>1 DEF OneOwner, InStep, Report
    <3> QED
      BY <1>9, <2>2, <2>3, <3>2 DEF InStep, Report
  <2> QED
    BY <1>4, <1>9, <2>1, <2>3, <2>4 DEF Report
<1>10. CASE Commit(w)
  <2>1. status[k] = run[w].saw
    BY <1>10 DEF Commit, TruthfulPhase3, RowHeld
  <2>2. status'[j] = status[j] \/ (Working(w, j) /\ status[j] # "ABSENT")
    BY <1>2, <1>10, <2>1 DEF Commit, Working
  <2> QED
    BY <1>3, <1>10, <2>2 DEF Commit
<1>11. ASSUME Finish(w) \/ Abandon(w) PROVE OneOwner(j)'
  <2>1. Idle.job # j
    BY PublicationAssumption DEF Idle
  <2> QED
    BY <1>11, <2>1, SlotKeepsOwner DEF Finish, Abandon
<1> QED
  BY <1>5, <1>6, <1>7, <1>8, <1>9, <1>10, <1>11 DEF Advance

\* A slot that takes a delivery becomes its one owner.
LEMMA StartKeepsOwner ==
  ASSUME TypeOK, NEW j \in Jobs, OneOwner(j),
         NEW w \in Workers, NEW k \in Jobs, NEW l \in BOOLEAN, Start(w, k, l)
  PROVE  OneOwner(j)'
<1> USE DEF TypeOK
<1>1. run'[w] = Loaded(k, l) /\ \A v \in Workers : v # w => run'[v] = run[v]
  BY DEF Start
<1>2. UNCHANGED <<status, client>>
  BY DEF Start
<1>3. CASE j = k
  <2>1. queue[j] + tasks[j] = 1 /\ queue'[j] + tasks'[j] = 0
    <3>1. queue[j] \in Nat /\ tasks[j] \in Nat /\ queue[j] + tasks[j] <= 1
      BY DEF OneOwner
    <3>2. CASE l = TRUE
      <4>1. tasks[j] > 0 /\ tasks' = [tasks EXCEPT ![j] = @ - 1] /\ queue' = queue
        BY <1>3, <3>2 DEF Start
      <4>2. tasks'[j] = tasks[j] - 1
        BY <4>1
      <4> QED
        BY <3>1, <4>1, <4>2
    <3>3. CASE l = FALSE
      <4>1. queue[j] > 0 /\ queue' = [queue EXCEPT ![j] = @ - 1] /\ tasks' = tasks
        BY <1>3, <3>3 DEF Start
      <4>2. queue'[j] = queue[j] - 1
        BY <4>1
      <4> QED
        BY <3>1, <4>1, <4>2
    <3> QED
      BY <3>2, <3>3
  <2>2. /\ status[j] \in {"PENDING", "RUNNING", "ABSENT"}
        /\ \A c \in Clients : ~Pushing(c, j)
        /\ \A v \in Workers : ~Working(v, j)
    BY <2>1 DEF OneOwner
  <2>3. \A v \in Workers : Working(v, j)' => v = w
    BY <1>1, <2>2 DEF Working
  <2>4. Working(w, j)' => InStep(w, j)'
    BY <1>1, <1>2, <1>3, <2>2, LoadedInStep DEF Working, InStep
  <2>5. \A c \in Clients : ~Pushing(c, j)' /\ (Retrying(c, j)' <=> Retrying(c, j))
    BY <1>2, <2>2 DEF Pushing, Retrying
  <2> QED
    BY <1>2, <2>1, <2>3, <2>4, <2>5 DEF OneOwner
<1>4. CASE j # k
  <2>1. queue'[j] = queue[j] /\ tasks'[j] = tasks[j]
    BY <1>4 DEF Start
  <2>2. Loaded(k, l).pc = "done" \/ Loaded(k, l).job # j
    <3>1. CASE k \in Rows
      BY <1>4, <3>1, LoadedType
    <3>2. CASE k \notin Rows
      BY <3>2, LoadedType, ReturnedWorks
    <3> QED
      BY <3>1, <3>2
  <2>3. \A v \in Workers : Working(v, j)' => v # w /\ Working(v, j)
    BY <1>1, <2>2 DEF Working
  <2>4. \A v \in Workers : Working(v, j)' => InStep(v, j)'
    BY <1>1, <1>2, <2>3 DEF OneOwner, InStep
  <2>5. \A c \in Clients : /\ Pushing(c, j)' <=> Pushing(c, j)
                           /\ Retrying(c, j)' <=> Retrying(c, j)
    BY <1>2 DEF Pushing, Retrying
  <2> QED
    BY <1>2, <2>1, <2>3, <2>4, <2>5 DEF OneOwner
<1> QED
  BY <1>3, <1>4

\* A request owns what it has yet to push, and a retry that commits becomes the owner of
\* jobs that have none, unless the step doubles them.
LEMMA RequestKeepsOwner ==
  ASSUME TypeOK, NothingBeforeDispatch,
         NEW j \in Jobs, OneOwner(j), ~Doubling(j), NEW c \in Clients, ApiStep(c)
  PROVE  OneOwner(j)'
<1> USE DEF TypeOK
<1>1. run' = run /\ \A w \in Workers : Working(w, j)' <=> Working(w, j)
  BY DEF ApiStep, Dispatch, Enqueue, Fallback, RetryLoad, RetryCommit, RetryFails, Working
<1>2. \A d \in Clients : d # c => client'[d] = client[d]
  BY DEF ApiStep, Dispatch, Enqueue, Fallback, RetryLoad, RetryCommit, RetryFails, EnqueueAll
<1>3. ASSUME status'[j] = status[j] PROVE \A w \in Workers : Working(w, j)' => InStep(w, j)'
  BY <1>1, <1>3 DEF OneOwner, InStep
<1>4. CASE Dispatch(c)
  <2>1. /\ queue[j] = 0 /\ tasks[j] = 0 /\ \A w \in Workers : run[w].pc = "idle"
        /\ \A d \in Clients : client[d].pc = "idle"
    BY <1>4 DEF Dispatch, NothingBeforeDispatch
  <2>2. /\ \A w \in Workers : ~Working(w, j)
        /\ \A d \in Clients : ~Pushing(d, j) /\ ~Retrying(d, j)
    BY <2>1 DEF OneOwner, InStep, Pushing, Retrying
  <2>3. status'[j] = "PENDING" /\ queue'[j] = 0 /\ tasks'[j] = 0
    BY <1>4, <2>1 DEF Dispatch
  <2>4. ~Retrying(c, j)'
    BY <1>4 DEF Dispatch, EnqueueAll, Retrying
  <2> QED
    BY <1>1, <1>2, <2>2, <2>3, <2>4 DEF OneOwner, Pushing, Retrying
<1>5. CASE Enqueue(c)
  <2>1. PICK k \in client[c].todo :
          /\ queue' = [queue EXCEPT ![k] = @ + 1]
          /\ client' = [client EXCEPT ![c] = IF client[c].todo = {k} THEN IdleClient
                          ELSE [client[c] EXCEPT !.todo = client[c].todo \ {k}]]
    BY <1>5 DEF Enqueue
  <2>2. status' = status /\ tasks' = tasks /\ client[c].pc = "enqueue" /\ k \in Jobs
    BY <1>5 DEF Enqueue, Request
  <2>3. /\ client'[c].pc \in {"enqueue", "idle"}
        /\ client'[c].pc = "enqueue" => client'[c].todo = client[c].todo \ {k}
    <3>1. CASE client[c].todo = {k}
      BY <2>1, <3>1 DEF IdleClient
    <3>2. CASE client[c].todo # {k}
      <4>1. client'[c] = [client[c] EXCEPT !.todo = client[c].todo \ {k}]
        BY <2>1, <3>2
      <4> QED
        BY <2>2, <4>1 DEF Request
    <3> QED
      BY <3>1, <3>2
  <2>4. ~Retrying(c, j)'
    BY <2>3 DEF Retrying
  <2>5. CASE j = k
    <3>1. Pushing(c, j)
      BY <2>2, <2>5 DEF Pushing
    <3>2. /\ status[j] \in {"PENDING", "ABSENT"} /\ \A w \in Workers : ~Working(w, j)
          /\ queue[j] + tasks[j] = 0
      BY <3>1 DEF OneOwner
    <3>3. queue'[j] + tasks'[j] = 1
      BY <2>1, <2>2, <2>5, <3>2
    <3>4. \A d \in Clients : ~Pushing(d, j)'
      <4>1. ~Pushing(c, j)'
        BY <2>3, <2>5 DEF Pushing
      <4> QED
        BY <1>2, <3>1, <4>1 DEF OneOwner, Pushing
    <3>5. \A d \in Clients : Retrying(d, j)' => Retrying(d, j)
      BY <1>2, <2>4 DEF Retrying
    <3> QED
      BY <1>1, <2>2, <3>2, <3>3, <3>4, <3>5 DEF OneOwner
  <2>6. CASE j # k
    <3>1. queue'[j] = queue[j] /\ tasks'[j] = tasks[j]
      BY <2>1, <2>2, <2>6
    <3>2. Pushing(c, j)' => Pushing(c, j)
      BY <2>2, <2>3 DEF Pushing
    <3>3. \A d \in Clients :
            /\ (Pushing(d, j)' => Pushing(d, j))
            /\ (Retrying(d, j)' => Retrying(d, j))
      BY <1>2, <2>4, <3>2 DEF Pushing, Retrying
    <3> QED
      BY <1>1, <1>3, <2>2, <3>1, <3>3 DEF OneOwner
  <2> QED
    BY <2>5, <2>6
<1>6. CASE Fallback(c)
  <2>1. client[c].pc = "enqueue" /\ client'[c].pc = "idle" /\ queue' = queue /\ status' = status
    BY <1>6 DEF Fallback, IdleClient
  <2>2. \A d \in Clients :
          /\ (Pushing(d, j)' => d # c /\ Pushing(d, j))
          /\ (Retrying(d, j)' => Retrying(d, j))
    BY <1>2, <2>1 DEF Pushing, Retrying
  <2>3. CASE j \in client[c].all
    <3>1. Pushing(c, j)
      BY <1>6, <2>1, <2>3 DEF Pushing, Doubling
    <3>2. /\ status[j] \in {"PENDING", "ABSENT"} /\ \A w \in Workers : ~Working(w, j)
          /\ \A d \in Clients : Pushing(d, j) => d = c
          /\ queue[j] + tasks[j] = 0
      BY <3>1 DEF OneOwner
    <3>3. queue'[j] + tasks'[j] = 1
      BY <1>6, <2>1, <2>3, <3>2 DEF Fallback
    <3> QED
      BY <1>1, <2>1, <2>2, <3>2, <3>3 DEF OneOwner
  <2>4. CASE j \notin client[c].all
    <3>1. tasks'[j] = tasks[j]
      BY <1>6, <2>4 DEF Fallback
    <3> QED
      BY <1>1, <1>3, <2>1, <2>2, <3>1 DEF OneOwner
  <2> QED
    BY <2>3, <2>4
<1>7. CASE RetryLoad(c)
  <2>1. client'[c].pc = "retry" /\ client'[c].all = Retryable
    BY <1>7 DEF RetryLoad
  <2>2. UNCHANGED <<status, queue, tasks>>
    BY <1>7 DEF RetryLoad
  <2>3. \A d \in Clients : Pushing(d, j)' => Pushing(d, j)
    BY <1>2, <2>1 DEF Pushing
  <2>4. j \in Retryable => status[j] \in Undelivered
    BY DEF Retryable
  <2>5. \A d, e \in Clients : Retrying(d, j)' /\ Retrying(e, j)' => d = e
    BY DEF Doubling, TwiceRetried, Retrying
  <2>6. \A d \in Clients : Retrying(d, j)' => status[j] \in Undelivered \cup {"ABSENT"}
    BY <1>2, <2>1, <2>4 DEF Retrying, OneOwner
  <2> QED
    BY <1>1, <1>3, <2>2, <2>3, <2>5, <2>6 DEF OneOwner
<1>8. CASE RetryCommit(c)
  <2>1. /\ client[c].pc = "retry" /\ client'[c].pc = "enqueue"
        /\ client'[c].todo = client[c].all /\ UNCHANGED <<queue, tasks>>
    BY <1>8 DEF RetryCommit, EnqueueAll
  <2>2. ~Retrying(c, j)'
    BY <2>1 DEF Retrying
  <2>3. CASE j \in client[c].all
    <3>1. Retrying(c, j)
      BY <2>1, <2>3 DEF Retrying
    <3>2. status[j] \in Undelivered /\ \A d \in Clients : Retrying(d, j) => d = c
      BY <1>8, <2>3, <3>1 DEF OneOwner, RetryCommit, Rows
    <3>3. queue[j] + tasks[j] # 1 /\ \A d \in Clients : ~Pushing(d, j)
      BY <3>2 DEF OneOwner, Undelivered
    <3>4. \A w \in Workers : ~Working(w, j)
      <4> SUFFICES ASSUME NEW w \in Workers, Working(w, j) PROVE FALSE
        OBVIOUS
      <4>1. InStep(w, j)
        BY DEF OneOwner
      <4>2. run[w].pc \in {"refuse", "claim", "network", "report", "commit"}
        BY <4>1 DEF Execution, Working, InStep
      <4> QED
        BY <3>2, <4>1, <4>2 DEF InStep, Undelivered
    <3>5. status'[j] = "PENDING"
      BY <1>8, <2>3 DEF RetryCommit
    <3>6. \A d \in Clients : ~Retrying(d, j)' /\ (Pushing(d, j)' => d = c)
      BY <1>2, <2>2, <3>2, <3>3 DEF Pushing, Retrying
    <3> QED
      BY <1>1, <2>1, <3>3, <3>4, <3>5, <3>6 DEF OneOwner
  <2>4. CASE j \notin client[c].all
    <3>1. status'[j] = status[j]
      BY <1>8, <2>4 DEF RetryCommit
    <3>2. ~Pushing(c, j)'
      BY <2>1, <2>4 DEF Pushing
    <3>3. \A d \in Clients :
            /\ (Pushing(d, j)' => Pushing(d, j))
            /\ (Retrying(d, j)' => Retrying(d, j))
      BY <1>2, <2>2, <3>2 DEF Pushing, Retrying
    <3> QED
      BY <1>1, <1>3, <2>1, <3>1, <3>3 DEF OneOwner
  <2> QED
    BY <2>3, <2>4
<1>9. CASE RetryFails(c)
  <2>1. client'[c].pc = "idle" /\ UNCHANGED <<status, queue, tasks>>
    BY <1>9 DEF RetryFails, IdleClient
  <2>2. \A d \in Clients : (Pushing(d, j)' => Pushing(d, j)) /\ (Retrying(d, j)' => Retrying(d, j))
    BY <1>2, <2>1 DEF Pushing, Retrying
  <2> QED
    BY <1>1, <1>3, <2>1, <2>2 DEF OneOwner
<1> QED
  BY <1>4, <1>5, <1>6, <1>7, <1>8, <1>9 DEF ApiStep

\* Deleted blocks and cashiers, and an API that dies, take owners away at most; a worker
\* that dies gives the job of a slot back to the queue.
LEMMA EnvironmentKeepsOwner ==
  ASSUME TypeOK, NEW j \in Jobs, OneOwner(j),
         DeleteBlock \/ (\E k \in Jobs : DeleteCashier(k)) \/ ApiCrash \/ WorkerCrash,
         ~Doubling(j)
  PROVE  OneOwner(j)'
<1> USE DEF TypeOK
<1>1. CASE DeleteBlock
  BY <1>1 DEF DeleteBlock, OneOwner, Pushing, Retrying, Working, InStep
<1>2. ASSUME NEW k \in Jobs, DeleteCashier(k) PROVE OneOwner(j)'
  <2>1. status'[j] \in {status[j], "ABSENT"} /\ UNCHANGED <<client, queue, tasks, run>>
    BY <1>2 DEF DeleteCashier
  <2> QED
    BY <2>1 DEF OneOwner, Pushing, Retrying, Working, InStep
<1>3. CASE ApiCrash
  <2>1. /\ \A c \in Clients : client'[c].pc = "idle"
        /\ queue' = queue /\ status' = status /\ tasks'[j] = 0
    BY <1>3 DEF ApiCrash, IdleClient
  <2>2. \A w \in Workers : run'[w] = run[w] \/ run'[w].job # j
    <3>1. Idle.job # j
      BY PublicationAssumption DEF Idle
    <3> QED
      BY <1>3, <3>1 DEF ApiCrash
  <2>3. \A w \in Workers : Working(w, j)' => Working(w, j) /\ InStep(w, j)'
    BY <2>1, <2>2 DEF OneOwner, Working, InStep
  <2>4. \A c \in Clients : ~Pushing(c, j)' /\ ~Retrying(c, j)'
    BY <2>1 DEF Pushing, Retrying
  <2>5. /\ queue'[j] + tasks'[j] <= 1
        /\ queue'[j] + tasks'[j] = 1 => queue[j] + tasks[j] = 1
    BY <2>1 DEF OneOwner
  <2> QED
    BY <2>1, <2>3, <2>4, <2>5 DEF OneOwner
<1>4. CASE WorkerCrash
  <2> DEFINE H == {w \in Workers : Busy(w) /\ ~run[w].local /\ run[w].job = j}
  <2>1. /\ UNCHANGED <<status, client, tasks>> /\ queue'[j] = queue[j] + Cardinality(H)
        /\ run' = [w \in Workers |-> IF run[w].local THEN run[w] ELSE Idle]
    BY <1>4 DEF WorkerCrash, Redeliver
  <2>2. \A w \in H : Working(w, j)
    BY <1>4 DEF Doubling, Working
  <2>3. \A w \in Workers : Working(w, j)' => w \notin H /\ Working(w, j) /\ run'[w] = run[w]
    <3>1. Idle.job # j
      BY PublicationAssumption DEF Idle
    <3> QED
      BY <2>1, <3>1 DEF Working
  <2>4. \A w \in Workers : Working(w, j)' => InStep(w, j)'
    BY <2>1, <2>3 DEF OneOwner, InStep
  <2>5. \A c \in Clients :
          /\ (Pushing(c, j)' <=> Pushing(c, j))
          /\ (Retrying(c, j)' <=> Retrying(c, j))
    BY <2>1 DEF Pushing, Retrying
  <2>6. H \subseteq Workers
    OBVIOUS
  <2> HIDE DEF H
  <2>7. CASE H = {}
    <3>1. queue'[j] = queue[j]
      BY <2>1, <2>7, FS_EmptySet
    <3> QED
      BY <2>1, <2>3, <2>4, <2>5, <3>1 DEF OneOwner
  <2>8. CASE H # {}
    <3>1. PICK w \in H : TRUE
      BY <2>8
    <3>2. w \in Workers /\ Working(w, j) /\ \A v \in Workers : Working(v, j) => v = w
      BY <2>2, <2>6, <3>1 DEF OneOwner
    <3>3. H = {w}
      BY <2>2, <2>6, <3>1, <3>2
    <3>4. Cardinality(H) = 1
      BY <3>3, FS_Singleton
    <3>5. queue[j] + tasks[j] # 1 /\ \A c \in Clients : ~Pushing(c, j)
      BY <3>2 DEF OneOwner
    <3>6. queue'[j] + tasks'[j] = 1
      BY <2>1, <3>4, <3>5 DEF OneOwner
    <3>7. \A v \in Workers : ~Working(v, j)'
      BY <2>3, <3>1, <3>2
    <3>8. status[j] \in {"PENDING", "RUNNING", "ABSENT"}
      <4>1. InStep(w, j)
        BY <3>2 DEF OneOwner
      <4>2. run[w].pc \in {"refuse", "claim", "network", "report", "commit"}
        BY <3>2, <4>1 DEF Execution, Working, InStep
      <4> QED
        BY <4>1, <4>2 DEF InStep
    <3> QED
      BY <2>1, <2>5, <3>5, <3>6, <3>7, <3>8 DEF OneOwner
  <2> QED
    BY <2>7, <2>8
<1> QED
  BY <1>1, <1>2, <1>3, <1>4

\* A step leaves every job it does not double one owner at most.
LEMMA OwnerStep ==
  ASSUME TypeOK, TruthfulPhase3, [Next]_vars, NEW j \in Jobs, OneOwner(j),
         ~Doubling(j) \/ UNCHANGED vars
  PROVE  OneOwner(j)'
<1>1. CASE UNCHANGED vars
  BY <1>1 DEF vars, OneOwner, Pushing, Retrying, Working, InStep
<1>2. ASSUME NEW c \in Clients, ApiStep(c), ~Doubling(j) PROVE OneOwner(j)'
  BY <1>2, RequestKeepsOwner DEF TruthfulPhase3
<1>3. ASSUME NEW w \in Workers, WorkerStep(w) \/ Abandon(w) PROVE OneOwner(j)'
  BY <1>3, StartKeepsOwner, AdvanceKeepsOwner DEF WorkerStep
<1> QED
  BY <1>1, <1>2, <1>3, EnvironmentKeepsOwner DEF Next, Environment

\* The dispatch is the first step to write a row, and nothing is doubled before it.
LEMMA BlankStep ==
  ASSUME TypeOK, NothingBeforeDispatch, BlankBefore, Next, Record
  PROVE  BlankBefore'
<1> SUFFICES ASSUME batch' = "NONE"
             PROVE  Rows' = {} /\ doubled' = {} /\ EverDelivered' = {}
  BY DEF BlankBefore
<1>1. batch = "NONE" \/ \E w \in Workers : run[w].verdict # "NONE" /\ batch' = run[w].verdict
  BY BatchChange
<1>2. batch = "NONE"
  BY <1>1
<1>3. /\ Rows = {} /\ doubled = {} /\ EverDelivered = {}
      /\ \A c \in Clients : client[c].pc = "idle"
      /\ \A w \in Workers : run[w].pc = "idle"
  BY <1>2 DEF BlankBefore, NothingBeforeDispatch
<1>4. ASSUME NEW c \in Clients, ApiStep(c) PROVE FALSE
  BY <1>2, <1>3, <1>4 DEF ApiStep, Dispatch, Enqueue, Fallback, RetryLoad, RetryCommit,
                          RetryFails
<1>5. ASSUME NEW w \in Workers, Advance(w) PROVE FALSE
  BY <1>3, <1>5 DEF Advance, Refuse, Claim, RowGone, Publish, Report, ReportFails, Commit,
                    Finish
<1>6. ASSUME NEW w \in Workers, NEW j \in Jobs, NEW l \in BOOLEAN, Start(w, j, l)
      PROVE  UNCHANGED <<status, evidence, client>>
  BY <1>6 DEF Start
<1>7. ASSUME NEW k \in Jobs, DeleteCashier(k) PROVE FALSE
  BY <1>3, <1>7 DEF DeleteCashier
<1>8. /\ UNCHANGED <<status, evidence>>
      /\ client' = client \/ \A c \in Clients : client'[c].pc = "idle"
  BY <1>4, <1>5, <1>6, <1>7
     DEF Next, WorkerStep, Environment, DeleteBlock, Abandon, WorkerCrash, ApiCrash, IdleClient
<1>9. \A c \in Clients : client'[c].pc = "idle"
  BY <1>3, <1>8
<1>10. ASSUME NEW j \in Jobs PROVE ~Doubling(j)
  BY <1>3, <1>9 DEF Doubling, TwiceRetried, Fallback
<1> QED
  BY <1>3, <1>8, <1>10 DEF Rows, EverDelivered, Record

\* A job with one owner is delivered at most once.
LEMMA OneOwnerDelivers ==
  ASSUME TypeOK, NEW j \in Jobs, OneOwner(j)
  PROVE  Deliveries(j) <= 1
<1> DEFINE P == {c \in Clients : client[c].pc = "enqueue" /\ j \in client[c].todo}
           H == {w \in Workers : run[w].job = j /\ run[w].pc # "done"}
<1>1. /\ \A c \in Clients : c \in P <=> Pushing(c, j)
      /\ \A w \in Workers : w \in H <=> Working(w, j)
  BY DEF Pushing, Working
<1>2. P = {} \/ \E c \in Clients : P = {c}
  BY <1>1 DEF OneOwner
<1>3. H = {} \/ \E w \in Workers : H = {w}
  BY <1>1 DEF OneOwner
<1>4. queue[j] \in Nat /\ tasks[j] \in Nat /\ queue[j] + tasks[j] \in {0, 1}
  BY DEF TypeOK, OneOwner
<1>5. /\ queue[j] + tasks[j] = 1 => P = {} /\ H = {}
      /\ P # {} => H = {}
  BY <1>1 DEF OneOwner
<1>6. Deliveries(j) = queue[j] + tasks[j] + Cardinality(P) + Cardinality(H)
  BY DEF Deliveries
<1> HIDE DEF P, H
<1>7. Cardinality(P) = (IF P = {} THEN 0 ELSE 1) /\ Cardinality(H) = (IF H = {} THEN 0 ELSE 1)
  BY <1>2, <1>3, FS_EmptySet, FS_Singleton
<1> QED
  BY <1>4, <1>5, <1>6, <1>7

\* A job with one owner that reports deliveries leaves its outcome only for a retry of a
\* job that missed.
LEMMA DeliveredStays ==
  ASSUME TypeOK, NothingBeforeDispatch, BlankBefore, [Next]_vars,
         NEW j \in Jobs, OneOwner(j), status[j] \in Delivered
  PROVE  status'[j] \notin {"PENDING", "RUNNING"}
<1>1. status[j] \notin {"ABSENT", "PENDING", "RUNNING"} \cup Undelivered
  BY DEF Delivered, Undelivered
<1>2. ASSUME NEW c \in Clients, Dispatch(c) PROVE FALSE
  BY <1>1, <1>2 DEF Dispatch, BlankBefore, Rows
<1>3. ASSUME NEW c \in Clients, RetryCommit(c) PROVE status'[j] = status[j]
  BY <1>1, <1>3 DEF RetryCommit, OneOwner, Retrying
<1>4. ASSUME NEW w \in Workers, Claim(w) PROVE status'[j] = status[j]
  <2>1. run[w].job # j
    BY <1>1, <1>4 DEF Claim, OneOwner, Working, InStep, Rows
  <2> QED
    BY <1>4, <2>1 DEF Claim
<1>5. ASSUME NEW w \in Workers, Refuse(w) PROVE status'[j] \in {status[j], "FAILED"}
  BY <1>5 DEF Refuse, TypeOK
<1>6. ASSUME NEW w \in Workers, Commit(w) PROVE status'[j] \in {status[j]} \cup Outcome
  BY <1>6 DEF Commit, TypeOK, Execution
<1>7. ASSUME NEW k \in Jobs, DeleteCashier(k) PROVE status'[j] \in {status[j], "ABSENT"}
  BY <1>7 DEF DeleteCashier, TypeOK
<1>8. CASE UNCHANGED status
  BY <1>1, <1>8
<1> QED
  BY <1>1, <1>2, <1>3, <1>4, <1>5, <1>6, <1>7, <1>8
     DEF Outcome, Delivered, Undelivered,
         Next, ApiStep, WorkerStep, Advance, Environment, vars, Enqueue, Fallback,
         RetryLoad, RetryFails, Start, Publish, Report, ReportFails,
         Finish, RowGone, DeleteBlock, Abandon, WorkerCrash, ApiCrash

\* The history watches: its steps are those of the publication.
LEMMA HistoryWatches == HistorySpec => Spec
<1>1. HistoryInit => Init
  BY DEF HistoryInit
<1>2. [HistoryNext]_historyVars => [Next]_vars
  BY DEF HistoryNext, historyVars
<1> QED
  BY <1>1, <1>2, PTL DEF HistorySpec, Spec

\* The invariant behind the three theorems.
LEMMA OwnersAreSole == HistorySpec => [](OwnersSole /\ BlankBefore)
<1>1. HistoryInit => OwnersSole /\ BlankBefore
  <2> SUFFICES ASSUME HistoryInit PROVE OwnersSole /\ BlankBefore
    OBVIOUS
  <2>1. Init /\ doubled = {} /\ \A c \in Clients : client[c].pc = "idle"
    BY DEF HistoryInit, Init, IdleClient
  <2>2. ASSUME NEW j \in Jobs PROVE OneOwner(j)
    <3>1. Idle.job # j
      BY PublicationAssumption DEF Idle
    <3>2. \A w \in Workers : ~Working(w, j)
      BY <2>1, <3>1 DEF Init, Working
    <3> QED
      BY <2>1, <3>2 DEF Init, OneOwner, Pushing, Retrying
  <2>3. BlankBefore
    BY <2>1 DEF Init, BlankBefore, Rows, EverDelivered
  <2> QED
    BY <2>2, <2>3 DEF OwnersSole
<1>2. TypeOK /\ TruthfulPhase3 /\ OwnersSole /\ BlankBefore /\ [HistoryNext]_historyVars
      => (OwnersSole /\ BlankBefore)'
  <2> SUFFICES ASSUME TypeOK, TruthfulPhase3, OwnersSole, BlankBefore,
                      [HistoryNext]_historyVars
               PROVE  OwnersSole' /\ BlankBefore'
    OBVIOUS
  <2>1. CASE HistoryNext
    <3>1. BlankBefore'
      BY <2>1, BlankStep DEF HistoryNext, TruthfulPhase3
    <3>2. ASSUME NEW j \in Jobs, j \notin doubled' PROVE OneOwner(j)'
      <4>1. j \notin doubled /\ ~Doubling(j)
        BY <2>1, <3>2 DEF HistoryNext, Record
      <4> QED
        BY <2>1, <4>1, OwnerStep DEF HistoryNext, OwnersSole
    <3> QED
      BY <3>1, <3>2 DEF OwnersSole
  <2>2. CASE UNCHANGED historyVars
    <3>1. UNCHANGED vars /\ doubled' = doubled
      BY <2>2 DEF historyVars
    <3>2. \A j \in Jobs \ doubled : OneOwner(j)'
      BY <3>1, OwnerStep DEF OwnersSole
    <3>3. BlankBefore'
      BY <3>1 DEF vars, BlankBefore, Rows, EverDelivered
    <3> QED
      BY <3>1, <3>2, <3>3 DEF OwnersSole
  <2> QED
    BY <2>1, <2>2
<1> QED
  BY <1>1, <1>2, HistoryWatches, TypeCorrect, Phase3IsTruthful, PTL DEF HistorySpec

\* A job that no overlapping retries, no failure of Redis in the middle of the loop and no
\* worker that died too late have doubled never has two deliveries, whatever the number of
\* slots and of requests and whatever else fails.
THEOREM OneDeliveryAtATime == HistorySpec => []SingleDelivery
<1>1. TypeOK /\ OwnersSole => SingleDelivery
  BY OneOwnerDelivers DEF OwnersSole, SingleDelivery
<1> QED
  BY <1>1, OwnersAreSole, HistoryWatches, TypeCorrect, PTL

\* For such a job no step takes it back to PENDING or RUNNING once it is delivered.
THEOREM DeliveredIsFinal == HistorySpec => DeliveredNotReprocessed
<1> DEFINE Stays == \A j \in Jobs \ doubled : status[j] \in Delivered =>
                      status'[j] \notin {"PENDING", "RUNNING"}
<1>1. TypeOK /\ TruthfulPhase3 /\ OwnersSole /\ BlankBefore /\ [HistoryNext]_historyVars
      => [Stays]_historyVars
  BY DeliveredStays DEF TruthfulPhase3, OwnersSole, HistoryNext
<1> QED
  BY <1>1, OwnersAreSole, HistoryWatches, TypeCorrect, Phase3IsTruthful, PTL
     DEF HistorySpec, DeliveredNotReprocessed

-----------------------------------------------------------------------------
(* ImplementsLifecycle. *)

\* Every other step of a request, and every step of a slot, doubles no job.
LEMMA HistoryStill ==
  ASSUME TypeOK, OwnersSole, Record, UNCHANGED faults,
         client' = client \/ \E c \in Clients : Dispatch(c) \/ RetryCommit(c)
  PROVE  doubled' = doubled
<1> SUFFICES ASSUME NEW j \in Jobs, Doubling(j), j \notin doubled PROVE FALSE
  BY DEF Record
<1>1. \A c \in Clients : \/ client'[c] = client[c]
                         \/ client[c].pc # "enqueue" /\ client'[c].pc = "enqueue"
  BY DEF Dispatch, RetryCommit, EnqueueAll, TypeOK
<1>2. ~TwiceRetried(j)'
  <2> SUFFICES ASSUME NEW c \in Clients, NEW d \in Clients, c # d,
                      client'[c].pc = "retry", j \in client'[c].all,
                      client'[d].pc = "retry", j \in client'[d].all
               PROVE  FALSE
    BY DEF TwiceRetried
  <2>1. Retrying(c, j) /\ Retrying(d, j)
    BY <1>1 DEF Retrying
  <2> QED
    BY <2>1 DEF OwnersSole, OneOwner
<1>3. ~\E c \in Clients : Fallback(c)
  <2> SUFFICES ASSUME NEW c \in Clients, Fallback(c) PROVE FALSE
    OBVIOUS
  <2>1. client[c].pc = "enqueue" /\ client'[c].pc = "idle"
    BY DEF Fallback, IdleClient, TypeOK
  <2> QED
    BY <1>1, <2>1
<1>4. ~WorkerCrash
  BY DEF WorkerCrash, Fault, TypeOK, FaultKinds
<1> QED
  BY <1>2, <1>3, <1>4 DEF Doubling

\* What the plan sees of a row that changes.
LEMMA PlannedChange ==
  ASSUME TypeOK, doubled' = doubled, NEW k \in Jobs, NEW s, status' = [status EXCEPT ![k] = s]
  PROVE  Planned' = IF k \in doubled THEN Planned ELSE [Planned EXCEPT ![k] = s]
BY DEF Planned, TypeOK

\* A job counts as shown from the first execution of it that ends so.
LEMMA ShownGrows ==
  ASSUME TypeOK, doubled' = doubled, Rows' = Rows, NEW k \in Jobs, NEW o \in Outcome,
         evidence' = [evidence EXCEPT ![k] = @ \cup {o}]
  PROVE  Shown' = IF o \in Delivered /\ k \in Rows \ doubled THEN Shown \cup {k} ELSE Shown
<1>1. \A j \in Jobs : evidence'[j] = IF j = k THEN evidence[k] \cup {o} ELSE evidence[j]
  BY DEF TypeOK
<1>2. \A j \in Jobs : evidence'[j] \cap Delivered # {} <=>
        evidence[j] \cap Delivered # {} \/ (j = k /\ o \in Delivered)
  BY <1>1
<1>3. EverDelivered' = IF o \in Delivered THEN EverDelivered \cup {k} ELSE EverDelivered
  BY <1>2 DEF EverDelivered
<1> QED
  BY <1>3 DEF Shown

\* The row of a slot's job, unless the job is doubled.
LEMMA SlotOwnsRow ==
  ASSUME TypeOK, TruthfulPhase3, OwnersSole, NEW w \in Workers,
         run[w].pc \notin {"idle", "done"}
  PROVE  /\ run[w].job \in Jobs /\ run[w] \in Execution
         /\ run[w].job \notin doubled => InStep(w, run[w].job)
<1>1. run[w].job \in Jobs /\ run[w] \in Execution
  BY DEF TruthfulPhase3, SlotsHoldJobs, TypeOK
<1>2. Working(w, run[w].job)
  BY DEF Working
<1> QED
  BY <1>1, <1>2 DEF OwnersSole, OneOwner

\* Every step is a step of the lifecycle, or changes nothing it shows.
LEMMA LifecycleStep ==
  ASSUME TypeOK, TruthfulPhase3, OwnersSole, BlankBefore, [HistoryNext]_historyVars
  PROVE  [Lifecycle!Next]_<<Planned, Shown>>
<1> USE DEF TypeOK
<1> DEFINE Goal == [Lifecycle!Next]_<<Planned, Shown>>
<1>1. CASE UNCHANGED historyVars
  BY <1>1 DEF historyVars, vars, Planned, Shown, EverDelivered, Rows
<1> SUFFICES ASSUME Next, Record PROVE Goal
  BY <1>1 DEF HistoryNext
<1>2. CASE UNCHANGED <<status, evidence>>
  <2>1. doubled' = doubled \cup (doubled' \cap Jobs)
    BY DEF Record
  <2>2. /\ Planned' = [j \in Jobs |-> IF j \in doubled' \cap Jobs THEN "RELEASED" ELSE Planned[j]]
        /\ Shown' = Shown \ (doubled' \cap Jobs)
    BY <1>2, <2>1 DEF Planned, Shown, EverDelivered, Rows
  <2>3. Lifecycle!Release(doubled' \cap Jobs)
    BY <2>2 DEF Lifecycle!Release
  <2> QED
    BY <2>3 DEF Lifecycle!Next
<1>3. ASSUME NEW c \in Clients, Dispatch(c) PROVE Goal
  <2>1. doubled' = doubled
    BY <1>3, HistoryStill DEF Dispatch
  <2>2. Rows = {} /\ doubled = {} /\ EverDelivered = {} /\ EverDelivered' = EverDelivered
    BY <1>3 DEF Dispatch, BlankBefore, EverDelivered
  <2>3. Lifecycle!Launch
    BY <1>3, <2>1, <2>2 DEF Dispatch, Rows, Lifecycle!Launch, Planned, Shown
  <2> QED
    BY <2>3 DEF Lifecycle!Next
<1>4. ASSUME NEW c \in Clients, RetryCommit(c) PROVE Goal
  <2> DEFINE S == client[c].all \ doubled
  <2>1. doubled' = doubled
    BY <1>4, HistoryStill DEF RetryCommit
  <2>2. client[c].all \subseteq Rows /\ client[c].pc = "retry" /\ S \subseteq Jobs
    BY <1>4 DEF RetryCommit, Rows
  <2>3. \A j \in S : Planned[j] \in Lifecycle!Missed
    <3> SUFFICES ASSUME NEW j \in S PROVE Planned[j] \in Lifecycle!Missed
      OBVIOUS
    <3>1. Retrying(c, j) /\ status[j] # "ABSENT" /\ j \in Jobs \ doubled
      BY <2>2 DEF Retrying, Rows
    <3>2. status[j] \in Undelivered
      BY <3>1 DEF OwnersSole, OneOwner
    <3> QED
      BY <3>1, <3>2 DEF Planned, Lifecycle!Missed, Undelivered
  <2>4. status' = [j \in Jobs |-> IF j \in client[c].all THEN "PENDING" ELSE status[j]]
    BY <1>4 DEF RetryCommit
  <2>5. Planned' = [j \in Jobs |-> IF j \in S THEN "PENDING" ELSE Planned[j]]
    BY <2>1, <2>4 DEF Planned
  <2>6. Shown' = Shown
    <3>1. Rows' = Rows
      BY <2>2, <2>4 DEF Rows
    <3>2. evidence' = evidence
      BY <1>4 DEF RetryCommit
    <3> QED
      BY <2>1, <3>1, <3>2 DEF Shown, EverDelivered
  <2>7. Lifecycle!RetryMissed
    BY <2>2, <2>3, <2>5, <2>6 DEF Lifecycle!RetryMissed
  <2> QED
    BY <2>7 DEF Lifecycle!Next
<1>5. ASSUME NEW w \in Workers, Refuse(w) PROVE Goal
  <2> DEFINE j == run[w].job
  <2>1. doubled' = doubled
    BY <1>5, HistoryStill DEF Refuse
  <2>2. j \in Jobs /\ (j \notin doubled => InStep(w, j))
    BY <1>5, SlotOwnsRow DEF Refuse
  <2>3. PICK s : s # "ABSENT" /\ status' = [status EXCEPT ![j] = s]
                 /\ (run[w].saw # "FAILED" => s = "FAILED")
    BY <1>5, <2>2 DEF Refuse, Rows
  <2>4. Shown' = Shown
    <3>1. Rows' = Rows
      BY <1>5, <2>2, <2>3 DEF Refuse, Rows
    <3>2. "FAILED" \in Outcome /\ "FAILED" \notin Delivered
      BY DEF Outcome, Delivered, Undelivered
    <3>3. evidence' = [evidence EXCEPT ![j] = @ \cup {"FAILED"}]
      BY <1>5 DEF Refuse
    <3> QED
      BY <2>1, <2>2, <3>1, <3>2, <3>3, ShownGrows
  <2>5. CASE j \in doubled
    BY <2>1, <2>2, <2>3, <2>4, <2>5, PlannedChange
  <2>6. CASE j \notin doubled
    <3>1. status[j] = run[w].saw /\ run[w].saw \in {"PENDING", "RUNNING"}
      BY <1>5, <2>2, <2>6 DEF Refuse, InStep, Rows
    <3>2. Planned' = [Planned EXCEPT ![j] = "FAILED"] /\ Planned[j] \in {"PENDING", "RUNNING"}
      <4>1. s = "FAILED"
        BY <2>3, <3>1
      <4>2. Planned[j] \in {"PENDING", "RUNNING"}
        BY <2>2, <2>6, <3>1 DEF Planned
      <4> QED
        BY <2>1, <2>2, <2>3, <2>6, <4>1, <4>2, PlannedChange
    <3>3. Lifecycle!Decline(j) \/ Lifecycle!Settle(j, "FAILED")
      BY <2>4, <3>2 DEF Lifecycle!Decline, Lifecycle!Settle, Lifecycle!Reached
    <3> QED
      BY <2>2, <3>3 DEF Lifecycle!Next, Lifecycle!Missed
  <2> QED
    BY <2>5, <2>6
<1>6. ASSUME NEW w \in Workers, Claim(w) PROVE Goal
  <2> DEFINE j == run[w].job
  <2>1. doubled' = doubled
    BY <1>6, HistoryStill DEF Claim
  <2>2. j \in Jobs /\ j \in Rows /\ (j \notin doubled => InStep(w, j))
    BY <1>6, SlotOwnsRow DEF Claim
  <2>3. PICK s : s # "ABSENT" /\ status' = [status EXCEPT ![j] = s]
                 /\ (run[w].saw # "RUNNING" => s = "RUNNING")
                 /\ (run[w].saw = "RUNNING" => s = status[j])
    BY <1>6, <2>2 DEF Claim, Rows
  <2>4. Shown' = Shown
    <3>1. Rows' = Rows
      BY <2>2, <2>3 DEF Rows
    <3>2. evidence' = evidence
      BY <1>6 DEF Claim
    <3> QED
      BY <2>1, <3>1, <3>2 DEF Shown, EverDelivered
  <2>5. CASE j \in doubled
    BY <2>1, <2>2, <2>3, <2>4, <2>5, PlannedChange
  <2>6. CASE j \notin doubled
    <3>1. status[j] = run[w].saw /\ run[w].saw \in {"PENDING", "RUNNING"}
      BY <1>6, <2>2, <2>6 DEF Claim, InStep, Rows
    <3>2. Planned' = [Planned EXCEPT ![j] = "RUNNING"] /\ Planned[j] = run[w].saw
      <4>1. s = "RUNNING"
        BY <2>3, <3>1
      <4>2. Planned[j] = run[w].saw
        BY <2>2, <2>6, <3>1 DEF Planned
      <4> QED
        BY <2>1, <2>2, <2>3, <2>6, <4>1, <4>2, PlannedChange
    <3>3. Planned' = Planned \/ Lifecycle!Take(j)
      <4>1. CASE run[w].saw = "RUNNING"
        <5>1. Planned = [Planned EXCEPT ![j] = "RUNNING"]
          BY <2>2, <3>2, <4>1 DEF Planned
        <5> QED
          BY <3>2, <5>1
      <4>2. CASE run[w].saw = "PENDING"
        BY <2>4, <3>2, <4>2 DEF Lifecycle!Take
      <4> QED
        BY <3>1, <4>1, <4>2
    <3> QED
      BY <2>2, <2>4, <3>3 DEF Lifecycle!Next
  <2> QED
    BY <2>5, <2>6
<1>7. ASSUME NEW w \in Workers, NEW o \in Results, Publish(w, o) PROVE Goal
  <2> DEFINE j == run[w].job
  <2>1. doubled' = doubled
    BY <1>7, HistoryStill DEF Publish
  <2>2. j \in Jobs /\ (j \notin doubled => InStep(w, j))
    BY <1>7, SlotOwnsRow DEF Publish
  <2>3. o \in Outcome
    BY PublicationAssumption DEF Outcome, Delivered, Undelivered
  <2>4. status' = status /\ evidence' = [evidence EXCEPT ![j] = @ \cup {o}]
    BY <1>7 DEF Publish
  <2>5. Rows' = Rows /\ Planned' = Planned
    BY <2>1, <2>4 DEF Rows, Planned
  <2>6. Shown' = IF o \in Delivered /\ j \in Rows \ doubled THEN Shown \cup {j} ELSE Shown
    BY <2>1, <2>2, <2>3, <2>4, <2>5, ShownGrows
  <2>7. CASE o \in Delivered /\ j \in Rows \ doubled
    <3>1. Planned[j] = "RUNNING"
      BY <1>7, <2>2, <2>7 DEF Planned, InStep, Publish, Rows
    <3>2. Lifecycle!Deliver(j)
      BY <2>5, <2>6, <2>7, <3>1 DEF Lifecycle!Deliver
    <3> QED
      BY <2>2, <3>2 DEF Lifecycle!Next
  <2>8. CASE ~(o \in Delivered /\ j \in Rows \ doubled)
    BY <2>5, <2>6, <2>8
  <2> QED
    BY <2>7, <2>8
<1>8. ASSUME NEW w \in Workers, Commit(w) PROVE Goal
  <2> DEFINE j == run[w].job
             o == run[w].outcome
  <2>1. doubled' = doubled /\ evidence' = evidence
    BY <1>8, HistoryStill DEF Commit
  <2>2. j \in Jobs /\ o \in Outcome /\ (j \notin doubled => InStep(w, j)) /\ o # "ABSENT"
    BY <1>8, SlotOwnsRow DEF Commit, Execution, Outcome, Delivered, Undelivered
  <2>3. status[j] = run[w].saw
    BY <1>8 DEF Commit, TruthfulPhase3, RowHeld
  <2>4. /\ j \in Rows => status' = [status EXCEPT ![j] = o]
        /\ j \notin Rows => status' = status
    BY <1>8, <2>2, <2>3 DEF Commit, Rows
  <2>5. Rows' = Rows
    BY <2>2, <2>4 DEF Rows
  <2>6. Shown' = Shown
    BY <2>1, <2>5 DEF Shown, EverDelivered
  <2>7. CASE j \in doubled \/ j \notin Rows
    <3>1. Planned' = Planned
      BY <2>1, <2>2, <2>4, <2>7, PlannedChange DEF Planned
    <3> QED
      BY <2>6, <3>1
  <2>8. CASE j \in Rows \ doubled
    <3>1. Planned' = [Planned EXCEPT ![j] = o]
      BY <2>1, <2>2, <2>4, <2>8, PlannedChange
    <3>2. Planned[j] = "RUNNING"
      BY <1>8, <2>2, <2>8 DEF Planned, InStep, Commit, Rows
    <3>3. o \in Delivered => j \in Shown
      BY <1>8, <2>2, <2>8 DEF Commit, TruthfulPhase3, ReportsTruthful, EverDelivered, Shown
    <3>4. Delivered = Lifecycle!Reached /\ Outcome = Lifecycle!Reached \cup Lifecycle!Missed
      BY DEF Delivered, Undelivered, Outcome, Lifecycle!Reached, Lifecycle!Missed
    <3>5. Lifecycle!Settle(j, o)
      BY <2>6, <3>1, <3>2, <3>3, <3>4 DEF Lifecycle!Settle
    <3> QED
      BY <2>2, <3>4, <3>5 DEF Lifecycle!Next
  <2> QED
    BY <2>7, <2>8
<1>9. ASSUME NEW k \in Jobs, DeleteCashier(k) PROVE Goal
  <2>1. doubled' = doubled /\ evidence' = evidence
    BY <1>9, HistoryStill DEF DeleteCashier
  <2>2. status' = [status EXCEPT ![k] = "ABSENT"]
    BY <1>9 DEF DeleteCashier
  <2>3. Rows' = Rows \ {k}
    BY <2>2 DEF Rows
  <2>4. Shown' = Shown \ {k}
    BY <2>1, <2>3 DEF Shown, EverDelivered
  <2>5. CASE k \in doubled
    <3>1. Planned' = Planned /\ k \notin Shown
      BY <2>1, <2>2, <2>5, PlannedChange DEF Shown
    <3> QED
      BY <2>4, <3>1
  <2>6. CASE k \notin doubled
    <3>1. Planned' = [Planned EXCEPT ![k] = "ABSENT"]
      BY <2>1, <2>2, <2>6, PlannedChange
    <3>2. Planned[k] # "RELEASED"
      BY <2>6 DEF Planned, JobStatus, Outcome, Delivered, Undelivered
    <3>3. Lifecycle!Remove(k)
      BY <2>4, <3>1 DEF Lifecycle!Remove
    <3> QED
      BY <3>2, <3>3 DEF Lifecycle!Next
  <2> QED
    BY <2>5, <2>6
<1> HIDE DEF Goal
<1> QED
  BY <1>2, <1>3, <1>4, <1>5, <1>6, <1>7, <1>8, <1>9
     DEF Next, ApiStep, WorkerStep, Advance, Environment, Enqueue, Fallback,
         RetryLoad, RetryFails, Start, Report, ReportFails, Finish, RowGone, DeleteBlock,
         Abandon, WorkerCrash, ApiCrash

\* The program implements the lifecycle its plan describes, for any number of jobs, slots
\* and requests and whatever fails: a job goes from PENDING over RUNNING to its outcome,
\* counts as delivered only after it was, and leaves its outcome for a retry only, until
\* its cashier is deleted or something doubles the job.
THEOREM PublicationImplementsLifecycle == HistorySpec => ImplementsLifecycle
<1>1. HistoryInit => Lifecycle!Init
  BY DEF HistoryInit, Init, Lifecycle!Init, Planned, Shown, EverDelivered
<1>2. TypeOK /\ TruthfulPhase3 /\ (OwnersSole /\ BlankBefore) /\ [HistoryNext]_historyVars
      => [Lifecycle!Next]_<<Planned, Shown>>
  BY LifecycleStep
<1> QED
  BY <1>1, <1>2, OwnersAreSole, HistoryWatches, TypeCorrect, Phase3IsTruthful, PTL
     DEF HistorySpec, ImplementsLifecycle, Lifecycle!Spec

-----------------------------------------------------------------------------
(* QuiescentBatchExact. *)

\* A retry takes at least one job, and Phase 3 writes final statuses only.
RetriesSome   == \A c \in Clients : client[c].pc = "retry" => client[c].all # {}
VerdictsFinal == \A w \in Workers : run[w].pc = "commit" => run[w].verdict \in Final \cup {"NONE"}

\* The batch leaves PENDING with the first of its jobs: an execution that loads a running
\* job does not load a pending batch.
BatchLeads ==
  /\ batch = "PENDING" => \A j \in Jobs : status[j] # "RUNNING"
  /\ \A w \in Workers : run[w].pc = "claim" =>
       /\ batch = "PENDING" => run[w].sawBatch = "PENDING"
       /\ run[w].saw = "RUNNING" => run[w].sawBatch # "PENDING"

Settled(view) == \A j \in Jobs : view[j] \in Outcome

\* The view a Phase 3 is about to commit, if its job's row is the only one to change, and
\* what its commit makes of the batch's columns.
Committed(w)        == [status EXCEPT ![run[w].job] = run[w].outcome]
CommittedBatch(w)   == IF run[w].verdict = "NONE" THEN batch ELSE run[w].verdict
CommittedCounter(w) == [c \in Column |-> IF c \in run[w].dirty THEN run[w].tally[c]
                                         ELSE counter[c]]

Exact(view, b, n) == b = Verdict(view, b) /\ n = Tally(view)

\* The batch's row tells of its settled jobs, now and after the commit under way, which is
\* the only one.
SettledExact == batch # "NONE" /\ Settled(status) => Exact(status, batch, counter)
CommitExact  == \A w \in Workers : run[w].pc = "commit" /\ Settled(Committed(w)) =>
  Exact(Committed(w), CommittedBatch(w), CommittedCounter(w))
CalmExact == ~Disturbed => ~TwoCommitting /\ SettledExact /\ CommitExact

\* A verdict on settled jobs is final and owes nothing to the status the batch had.
LEMMA SettledVerdict ==
  ASSUME NEW view, Settled(view), NEW a, NEW b
  PROVE  /\ Verdict(view, a) \in Final
         /\ Verdict(view, a) = Verdict(view, b)
<1>1. ~Unsettled(view)
  BY DEF Settled, Unsettled, Outcome, Delivered, Undelivered
<1> QED
  BY <1>1 DEF Verdict, Final

\* What a Phase 3 has computed is exact for the view it is about to commit.
LEMMA ReportIsExact ==
  ASSUME TypeOK, SlotsHoldJobs, NEW w \in Workers, Report(w), Rows = Jobs,
         Settled(Committed(w)')
  PROVE  Exact(Committed(w)', CommittedBatch(w)', CommittedCounter(w)')
<1> DEFINE j == run[w].job
           view == View(j, run[w].outcome)
           new == Tally(view)
           verdict == Verdict(view, batch)
           dirty == {c \in Column : new[c] # counter[c]}
           tally == [c \in Column |-> IF c \in dirty THEN new[c] ELSE 0]
           written == IF verdict = batch THEN "NONE" ELSE verdict
           e == [run[w] EXCEPT !.pc = "commit", !.saw = status[j], !.dirty = dirty,
                               !.tally = tally, !.verdict = written]
<1>1. run[w] \in Execution /\ j \in Jobs
  BY DEF Report, TypeOK, SlotsHoldJobs
<1>2. run' = [run EXCEPT ![w] = e] /\ UNCHANGED <<status, batch, counter>>
  BY DEF Report
<1>3. view = [status EXCEPT ![j] = run[w].outcome]
  BY <1>1 DEF View
<1>4. new \in [Column -> Nat] /\ new = Tally(view)
  BY TallyType
<1>5. \A c \in Column : (IF c \in dirty THEN tally[c] ELSE counter[c]) = new[c]
  OBVIOUS
<1>6. written = (IF verdict = batch THEN "NONE" ELSE verdict) /\ verdict = Verdict(view, batch)
  OBVIOUS
<1> HIDE DEF j, view, new, verdict, dirty, tally, written
<1>7. /\ e.job = run[w].job /\ e.outcome = run[w].outcome
      /\ e.dirty = dirty /\ e.tally = tally /\ e.verdict = written
  BY <1>1 DEF Execution
<1> HIDE DEF e
<1>8. run'[w] = e
  BY <1>2 DEF TypeOK
<1>9. Committed(w)' = view
  BY <1>2, <1>3, <1>7, <1>8 DEF Committed, j
<1>10. CommittedCounter(w)' = new
  BY <1>2, <1>4, <1>5, <1>7, <1>8 DEF CommittedCounter
<1>11. verdict \in Final /\ \A b : Verdict(view, b) = verdict
  BY <1>6, <1>9, SettledVerdict
<1>12. CommittedBatch(w)' = verdict
  BY <1>2, <1>6, <1>7, <1>8, <1>11 DEF CommittedBatch, Final
<1> QED
  BY <1>4, <1>9, <1>10, <1>11, <1>12 DEF Exact

\* No step of an execution leads back to its claim.
LEMMA AdvancePastClaim ==
  ASSUME TypeOK, SlotsHoldJobs, NEW w \in Workers, Advance(w) \/ Abandon(w)
  PROVE  run'[w].pc # "claim"
<1> USE DEF TypeOK
<1>1. run[w].pc # "idle"
  BY DEF Advance, Refuse, Claim, RowGone, Publish, Report, ReportFails, Commit, Finish,
         Abandon, Busy
<1>2. run[w].job \in Jobs /\ run[w].local \in BOOLEAN /\ run[w] \in Execution
  BY <1>1 DEF SlotsHoldJobs, Execution
<1>3. ASSUME run' = [run EXCEPT ![w] = Returned(run[w].job, run[w].local)]
      PROVE  run'[w].pc # "claim"
  BY <1>2, <1>3, ReturnedType
<1>4. CASE Refuse(w) \/ RowGone(w) \/ ReportFails(w) \/ Commit(w)
  BY <1>3, <1>4 DEF Refuse, RowGone, ReportFails, Commit
<1>5. CASE Claim(w)
  <2>1. Executing("network", run[w].job, run[w].local).pc = "network"
    BY <1>2, ExecutingType
  <2>2. run'[w] = Executing("network", run[w].job, run[w].local)
    BY <1>5 DEF Claim
  <2> QED
    BY <2>1, <2>2
<1>6. ASSUME NEW o \in Results, Publish(w, o) PROVE run'[w].pc # "claim"
  <2>1. run'[w] = [run[w] EXCEPT !.pc = "report", !.outcome = o]
    BY <1>6 DEF Publish
  <2> QED
    BY <1>2, <2>1 DEF Execution
<1>7. CASE Report(w)
  BY <1>7, ReportLeaves
<1>8. CASE Finish(w) \/ Abandon(w)
  BY <1>8, IdleFields DEF Finish, Abandon
<1> QED
  BY <1>4, <1>5, <1>6, <1>7, <1>8 DEF Advance

\* A retry that is loaded takes some job.
LEMMA RetriesSomeStep ==
  ASSUME TypeOK, RetriesSome, [Next]_vars PROVE RetriesSome'
<1> SUFFICES ASSUME NEW d \in Clients, client'[d].pc = "retry" PROVE client'[d].all # {}
  BY DEF RetriesSome
<1> USE DEF TypeOK
<1>1. IdleClient.pc = "idle"
  BY DEF IdleClient
<1>2. CASE client'[d] = client[d]
  BY <1>2 DEF RetriesSome
<1>3. ASSUME NEW c \in Clients, RetryLoad(c) PROVE client'[d].all # {}
  <2>1. CASE d = c
    BY <1>3, <2>1 DEF RetryLoad
  <2>2. CASE d # c
    BY <1>2, <1>3, <2>2 DEF RetryLoad
  <2> QED
    BY <2>1, <2>2
<1>4. ASSUME NEW c \in Clients, Dispatch(c) \/ RetryCommit(c) PROVE client'[d].all # {}
  <2>1. d # c
    BY <1>4 DEF Dispatch, RetryCommit, EnqueueAll
  <2> QED
    BY <1>2, <1>4, <2>1 DEF Dispatch, RetryCommit, EnqueueAll
<1>5. ASSUME NEW c \in Clients, Fallback(c) \/ RetryFails(c) PROVE client'[d].all # {}
  BY <1>1, <1>2, <1>5 DEF Fallback, RetryFails
<1>6. ASSUME NEW c \in Clients, Enqueue(c) PROVE client'[d].all # {}
  <2>1. PICK k \in client[c].todo :
          client' = [client EXCEPT ![c] = IF client[c].todo = {k} THEN IdleClient
                       ELSE [client[c] EXCEPT !.todo = client[c].todo \ {k}]]
    BY <1>6 DEF Enqueue
  <2>2. [client[c] EXCEPT !.todo = client[c].todo \ {k}].pc = "enqueue"
    BY <1>6 DEF Enqueue, Request
  <2>3. d # c
    BY <1>1, <2>1, <2>2
  <2> QED
    BY <1>2, <2>1, <2>3
<1>7. CASE ApiCrash
  BY <1>1, <1>7 DEF ApiCrash
<1>8. CASE UNCHANGED client
  BY <1>2, <1>8
<1> QED
  BY <1>3, <1>4, <1>5, <1>6, <1>7, <1>8
     DEF Next, ApiStep, WorkerStep, Advance, Environment, vars, Start, Refuse, Claim,
         Publish, Report, ReportFails, Commit, Finish, RowGone, DeleteBlock, DeleteCashier,
         Abandon, WorkerCrash

\* A committed retry leaves a job open that no Phase 3 was holding.
LEMMA RetryReopens ==
  ASSUME TypeOK, RowHeld, RetriesSome, NEW c \in Clients, RetryCommit(c)
  PROVE  \E k \in Jobs : /\ status'[k] = "PENDING"
                         /\ \A w \in Workers : run[w].pc = "commit" => run[w].job # k
<1>1. PICK k \in client[c].all : TRUE
  BY DEF RetryCommit, RetriesSome
<1>2. k \in Jobs /\ status[k] # "ABSENT" /\ status'[k] = "PENDING"
  BY <1>1 DEF RetryCommit, Rows, TypeOK, Request
<1>3. \A w \in Workers : run[w].pc = "commit" => run[w].job # k
  BY <1>1, <1>2 DEF RetryCommit, Locked, RowHeld
<1> QED
  BY <1>2, <1>3

\* Phase 3 writes a final status, or leaves the batch as it has loaded it.
LEMMA VerdictsFinalStep ==
  ASSUME TypeOK, SlotsHoldJobs, VerdictsFinal, [Next]_vars PROVE VerdictsFinal'
<1> SUFFICES ASSUME NEW v \in Workers, run'[v].pc = "commit"
             PROVE  run'[v].verdict \in Final \cup {"NONE"}
  BY DEF VerdictsFinal
<1>1. CASE run'[v] = run[v]
  BY <1>1 DEF VerdictsFinal
<1>2. ASSUME NEW o \in Results, Publish(v, o) PROVE FALSE
  <2>1. run[v] \in Execution /\ run'[v] = [run[v] EXCEPT !.pc = "report", !.outcome = o]
    BY <1>2 DEF Publish, TypeOK
  <2> QED
    BY <2>1 DEF Execution
<1>3. CASE Report(v)
  <2> DEFINE verdict == Verdict(View(run[v].job, run[v].outcome), batch)
  <2>1. run'[v].verdict \in {"NONE", verdict} /\ (verdict = batch => run'[v].verdict = "NONE")
    BY <1>3, ReportLeaves
  <2>2. verdict = batch \/ verdict \in Final
    BY DEF Verdict, Final
  <2> QED
    BY <2>1, <2>2
<1> QED
  BY <1>1, <1>2, <1>3, SlotChange

\* A claim waits as it was loaded, or has just been loaded.
LEMMA ClaimChange ==
  ASSUME TypeOK, SlotsHoldJobs, [Next]_vars, NEW v \in Workers, run'[v].pc = "claim"
  PROVE  \/ run'[v] = run[v]
         \/ /\ UNCHANGED <<status, batch>> /\ run'[v].sawBatch = batch
            /\ \E j \in Jobs : run'[v].saw = status[j]
<1> USE DEF TypeOK
<1> DEFINE New == /\ UNCHANGED <<status, batch>> /\ run'[v].sawBatch = batch
                  /\ \E j \in Jobs : run'[v].saw = status[j]
<1>1. ~Advance(v) /\ ~Abandon(v)
  BY AdvancePastClaim
<1>2. ASSUME NEW w \in Workers, Advance(w) \/ Abandon(w) PROVE run'[v] = run[v]
  <2>1. w # v
    BY <1>1, <1>2
  <2> QED
    BY <1>2, <2>1 DEF Advance, Refuse, Claim, RowGone, Publish, Report, ReportFails, Commit,
                      Finish, Abandon
<1>3. ASSUME NEW w \in Workers, NEW j \in Jobs, NEW l \in BOOLEAN, Start(w, j, l)
      PROVE  run'[v] = run[v] \/ New
  <2>1. CASE w # v
    BY <1>3, <2>1 DEF Start
  <2>2. CASE w = v
    <3>1. run'[v] = Loaded(j, l) /\ UNCHANGED <<status, batch>>
      BY <1>3, <2>2 DEF Start
    <3>2. j \in Rows
      BY <3>1, LoadedType, ReturnedType
    <3> DEFINE pc == IF block THEN "claim" ELSE "refuse"
               e == Executing(pc, j, l)
    <3>3. e \in Execution
      BY ExecutingType
    <3>4. Loaded(j, l) = [e EXCEPT !.saw = status[j], !.sawAttempt = attempt[j],
                                   !.sawBatch = batch]
      BY <3>2 DEF Loaded
    <3> HIDE DEF e
    <3>5. Loaded(j, l).saw = status[j] /\ Loaded(j, l).sawBatch = batch
      BY <3>3, <3>4 DEF Execution
    <3> QED
      BY <3>1, <3>5
  <2> QED
    BY <2>1, <2>2
<1>4. ASSUME WorkerCrash \/ ApiCrash PROVE run'[v] = run[v]
  <2>1. run'[v] = run[v] \/ run'[v] = Idle
    BY <1>4 DEF WorkerCrash, ApiCrash
  <2> QED
    BY <2>1, IdleFields
<1>5. ASSUME UNCHANGED vars PROVE run'[v] = run[v]
  BY <1>5 DEF vars
<1>6. ASSUME NEW c \in Clients, ApiStep(c) PROVE run'[v] = run[v]
  BY <1>6 DEF ApiStep, Dispatch, Enqueue, Fallback, RetryLoad, RetryCommit, RetryFails
<1>7. ASSUME DeleteBlock \/ \E k \in Jobs : DeleteCashier(k) PROVE run'[v] = run[v]
  BY <1>7 DEF DeleteBlock, DeleteCashier
<1> HIDE DEF New
<1>8. ASSUME NEW w \in Workers, WorkerStep(w) PROVE run'[v] = run[v] \/ New
  BY <1>2, <1>3, <1>8 DEF WorkerStep
<1>9. run'[v] = run[v] \/ New
  BY <1>2, <1>4, <1>5, <1>6, <1>7, <1>8 DEF Next, Environment
<1> QED
  BY <1>9 DEF New

\* The columns of the batch and the rows of its jobs change at the dispatch, at a retry,
\* at a claim, at a refusal, with a deleted cashier or at the commit of a Phase 3.
LEMMA BatchWriters ==
  ASSUME [Next]_vars
  PROVE  \/ UNCHANGED <<status, batch, counter>>
         \/ \E c \in Clients : Dispatch(c) \/ RetryCommit(c)
         \/ \E w \in Workers : Claim(w) \/ Refuse(w) \/ Commit(w)
         \/ \E k \in Jobs : DeleteCashier(k)
BY DEF Next, ApiStep, WorkerStep, Advance, Environment, vars, Enqueue, Fallback, RetryLoad,
       RetryFails, Start, Publish, Report, ReportFails, Finish, RowGone, DeleteBlock,
       Abandon, WorkerCrash, ApiCrash

\* No batch becomes PENDING but by its dispatch.
LEMMA PendingBefore ==
  ASSUME TypeOK, VerdictsFinal, [Next]_vars, batch' = "PENDING"
  PROVE  batch = "PENDING" \/ \E c \in Clients : Dispatch(c)
<1>1. ASSUME NEW c \in Clients, RetryCommit(c) PROVE batch = "PENDING"
  BY <1>1 DEF RetryCommit
<1>2. ASSUME NEW w \in Workers, Claim(w) \/ Refuse(w) PROVE batch = "PENDING"
  BY <1>2 DEF Claim, Refuse
<1>3. ASSUME NEW w \in Workers, Commit(w) PROVE batch = "PENDING"
  BY <1>3 DEF Commit, VerdictsFinal, Final
<1>4. ASSUME NEW k \in Jobs, DeleteCashier(k) PROVE batch = "PENDING"
  BY <1>4 DEF DeleteCashier
<1> QED
  BY <1>1, <1>2, <1>3, <1>4, BatchWriters

\* The batch leads its jobs.
LEMMA BatchLeadsStep ==
  ASSUME TypeOK, TruthfulPhase3, VerdictsFinal, BatchLeads, [Next]_vars
  PROVE  BatchLeads'
<1> USE DEF TypeOK
<1>1. SlotsHoldJobs /\ NothingBeforeDispatch
  BY DEF TruthfulPhase3
<1>2. ASSUME batch' = "PENDING", NEW j \in Jobs PROVE status'[j] # "RUNNING"
  <2>1. ASSUME NEW c \in Clients, Dispatch(c) PROVE status'[j] # "RUNNING"
    BY <2>1 DEF Dispatch
  <2>2. CASE batch = "PENDING"
    <3>1. status[j] # "RUNNING"
      BY <2>2 DEF BatchLeads
    <3>2. ASSUME NEW c \in Clients, RetryCommit(c) PROVE status'[j] # "RUNNING"
      BY <3>1, <3>2 DEF RetryCommit
    <3>3. ASSUME NEW w \in Workers, Claim(w) PROVE FALSE
      BY <1>2, <2>2, <3>3 DEF Claim, BatchLeads
    <3>4. ASSUME NEW w \in Workers, Refuse(w) PROVE status'[j] # "RUNNING"
      BY <3>1, <3>4 DEF Refuse
    <3>5. ASSUME NEW w \in Workers, Commit(w) PROVE status'[j] # "RUNNING"
      <4>1. run[w].outcome # "RUNNING"
        BY DEF Execution, Outcome, Delivered, Undelivered
      <4> QED
        BY <3>1, <3>5, <4>1 DEF Commit
    <3>6. ASSUME NEW k \in Jobs, DeleteCashier(k) PROVE status'[j] # "RUNNING"
      BY <3>1, <3>6 DEF DeleteCashier
    <3> QED
      BY <2>1, <3>1, <3>2, <3>3, <3>4, <3>5, <3>6, BatchWriters
  <2> QED
    BY <1>2, <2>1, <2>2, PendingBefore
<1>3. ASSUME NEW v \in Workers, run'[v].pc = "claim"
      PROVE  /\ batch' = "PENDING" => run'[v].sawBatch = "PENDING"
             /\ run'[v].saw = "RUNNING" => run'[v].sawBatch # "PENDING"
  <2>1. CASE run'[v] = run[v]
    <3>1. run[v].pc = "claim" /\ batch # "NONE"
      BY <1>1, <1>3, <2>1 DEF NothingBeforeDispatch
    <3>2. ~\E c \in Clients : Dispatch(c)
      BY <3>1 DEF Dispatch
    <3> QED
      BY <2>1, <3>1, <3>2, PendingBefore DEF BatchLeads
  <2>2. CASE UNCHANGED <<status, batch>> /\ run'[v].sawBatch = batch
             /\ (\E j \in Jobs : run'[v].saw = status[j])
    BY <2>2 DEF BatchLeads
  <2> QED
    BY <1>1, <1>3, <2>1, <2>2, ClaimChange
<1> QED
  BY <1>2, <1>3 DEF BatchLeads

\* The claim of a job that was loaded running changes no row that a Phase 3 reads.
LEMMA ClaimQuiet ==
  ASSUME TypeOK, SlotsHoldJobs, BatchLeads, NEW w \in Workers, Claim(w),
         run[w].saw = "RUNNING"
  PROVE  UNCHANGED <<status, batch, counter>>
<1>1. run[w].pc = "claim" /\ run[w].job \in Jobs
  BY DEF Claim, SlotsHoldJobs
<1>2. status' = status
  BY <1>1 DEF Claim, TypeOK
<1>3. run[w].sawBatch # "PENDING"
  BY <1>1 DEF BatchLeads
<1> QED
  BY <1>2, <1>3 DEF Claim

\* What disturbs a batch disturbs it for good.
LEMMA DisturbedBefore ==
  ASSUME TypeOK, TruthfulPhase3, [HistoryNext]_historyVars, ~Disturbed'
  PROVE  ~Disturbed
<1>1. [Next]_vars
  BY DEF HistoryNext, historyVars
<1>2. overlapped => overlapped'
  BY DEF HistoryNext, historyVars, Record
<1>3. Sheltered
  BY <1>1, ShelteredBefore DEF Disturbed
<1>4. ASSUME batch # "NONE", NEW j \in Jobs, status[j] = "ABSENT" PROVE FALSE
  <2>1. batch' # "NONE"
    BY <1>1, <1>4, BatchChange
  <2>2. ~RowWritten(j)
    BY <1>4 DEF RowWritten, Rows, Commit, TruthfulPhase3, RowHeld
  <2>3. status'[j] = "ABSENT"
    BY <1>1, <1>4, <2>2, RowChange DEF TruthfulPhase3
  <2> QED
    BY <2>1, <2>3 DEF Disturbed, Rows
<1>5. batch # "NONE" => Rows = Jobs
  BY <1>4 DEF Rows
<1> QED
  BY <1>2, <1>3, <1>5 DEF Disturbed

\* While no two executions are in Phase 3, whoever changes what the one there has loaded
\* leaves a job open.
LEMMA CommitExactStep ==
  ASSUME TypeOK, TruthfulPhase3, NothingRefused, batch # "NONE" => Rows = Jobs,
         RetriesSome, BatchLeads, CommitExact, ~TwoCommitting, ~TwoCommitting', [Next]_vars,
         ~\E k \in Jobs : DeleteCashier(k)
  PROVE  CommitExact'
<1> SUFFICES ASSUME NEW v \in Workers, run'[v].pc = "commit", Settled(Committed(v)')
             PROVE  Exact(Committed(v)', CommittedBatch(v)', CommittedCounter(v)')
  BY DEF CommitExact
<1> USE DEF TypeOK
<1>1. SlotsHoldJobs /\ NothingBeforeDispatch /\ RowHeld
  BY DEF TruthfulPhase3
<1>2. (run'[v] = run[v] /\ ~Commit(v)) \/ Report(v)
  <2>1. ASSUME NEW o \in Results, Publish(v, o) PROVE FALSE
    <3>1. run[v] \in Execution /\ run'[v] = [run[v] EXCEPT !.pc = "report", !.outcome = o]
      BY <2>1 DEF Publish
    <3> QED
      BY <3>1 DEF Execution
  <2> QED
    BY <1>1, <2>1, SlotChange
<1>3. CASE Report(v)
  <2>1. Rows = Jobs
    BY <1>1, <1>3 DEF Report, NothingBeforeDispatch
  <2> QED
    BY <1>1, <1>3, <2>1, ReportIsExact
<1>4. CASE run'[v] = run[v] /\ ~Commit(v)
  <2>1. run[v].pc = "commit" /\ run[v].job \in Jobs /\ batch # "NONE"
    BY <1>1, <1>4 DEF SlotsHoldJobs, NothingBeforeDispatch
  <2>2. CASE UNCHANGED <<status, batch, counter>>
    <3>1. /\ Committed(v)' = Committed(v) /\ CommittedBatch(v)' = CommittedBatch(v)
          /\ CommittedCounter(v)' = CommittedCounter(v)
      BY <1>4, <2>2 DEF Committed, CommittedBatch, CommittedCounter
    <3> QED
      BY <2>1, <3>1 DEF CommitExact
  <2>3. ASSUME NEW c \in Clients, Dispatch(c) PROVE FALSE
    BY <2>1, <2>3 DEF Dispatch
  <2>4. ASSUME NEW k \in Jobs, k # run[v].job, status'[k] \in {"PENDING", "RUNNING"} PROVE FALSE
    <3>1. Committed(v)'[k] = status'[k] \/ k \notin DOMAIN status'
      BY <1>4, <2>4 DEF Committed
    <3>2. DOMAIN status' = Jobs
      BY DEF Next, ApiStep, WorkerStep, Advance, Environment, vars, Dispatch, Enqueue,
             Fallback, RetryLoad, RetryCommit, RetryFails, Start, Refuse, Claim, Publish,
             Report, ReportFails, Commit, Finish, RowGone, DeleteBlock, DeleteCashier,
             Abandon, WorkerCrash, ApiCrash
    <3> QED
      BY <2>4, <3>1, <3>2 DEF Settled, Outcome, Delivered, Undelivered
  <2>5. ASSUME NEW c \in Clients, RetryCommit(c) PROVE FALSE
    <3>1. PICK k \in Jobs : status'[k] = "PENDING" /\ run[v].job # k
      BY <1>1, <2>1, <2>5, RetryReopens
    <3> QED
      BY <2>4, <3>1
  <2>6. ASSUME NEW w \in Workers, Claim(w), run[w].saw # "RUNNING" PROVE FALSE
    <3>1. run[w].job \in Jobs /\ ~Locked({run[w].job})
      BY <1>1, <2>6 DEF Claim, SlotsHoldJobs
    <3>2. status'[run[w].job] = "RUNNING"
      BY <2>6, <3>1 DEF Claim
    <3>3. run[v].saw # "ABSENT"
      BY <1>1, <2>1 DEF RowHeld, Rows
    <3>4. run[w].job # run[v].job
      BY <2>1, <3>1, <3>3 DEF Locked
    <3> QED
      BY <2>4, <3>1, <3>2, <3>4
  <2>7. ASSUME NEW w \in Workers, Claim(w), run[w].saw = "RUNNING"
        PROVE  UNCHANGED <<status, batch, counter>>
    BY <1>1, <2>7, ClaimQuiet
  <2>8. ASSUME NEW w \in Workers, Refuse(w) PROVE FALSE
    BY <2>8 DEF Refuse, NothingRefused
  <2>9. ASSUME NEW w \in Workers, Commit(w) PROVE FALSE
    BY <1>4, <2>1, <2>9 DEF Commit, TwoCommitting
  <2> QED
    BY <2>2, <2>3, <2>5, <2>6, <2>7, <2>8, <2>9, BatchWriters
<1> QED
  BY <1>2, <1>3, <1>4

\* The last job to settle settles the batch, exactly.
LEMMA SettledExactStep ==
  ASSUME TypeOK, TruthfulPhase3, NothingRefused, batch # "NONE" => Rows = Jobs,
         RetriesSome, BatchLeads, CommitExact, SettledExact, [Next]_vars,
         ~\E k \in Jobs : DeleteCashier(k)
  PROVE  SettledExact'
<1> SUFFICES ASSUME batch' # "NONE", Settled(status')
             PROVE  Exact(status', batch', counter')
  BY DEF SettledExact
<1> USE DEF TypeOK
<1>1. SlotsHoldJobs /\ NothingBeforeDispatch /\ RowHeld
  BY DEF TruthfulPhase3
<1>2. \A k \in Jobs : status'[k] \notin {"PENDING", "RUNNING"}
  BY DEF Settled, Outcome, Delivered, Undelivered
<1>3. CASE UNCHANGED <<status, batch, counter>>
  BY <1>3 DEF SettledExact
<1>4. ASSUME NEW c \in Clients, Dispatch(c) PROVE FALSE
  BY <1>2, <1>4, PublicationAssumption DEF Dispatch
<1>5. ASSUME NEW c \in Clients, RetryCommit(c) PROVE FALSE
  BY <1>1, <1>2, <1>5, RetryReopens
<1>6. ASSUME NEW w \in Workers, Claim(w) PROVE UNCHANGED <<status, batch, counter>>
  <2>1. CASE run[w].saw = "RUNNING"
    BY <1>1, <1>6, <2>1, ClaimQuiet
  <2>2. CASE run[w].saw # "RUNNING"
    <3>1. run[w].job \in Jobs /\ status'[run[w].job] = "RUNNING"
      BY <1>1, <1>6, <2>2 DEF Claim, SlotsHoldJobs
    <3> QED
      BY <1>2, <3>1
  <2> QED
    BY <2>1, <2>2
<1>7. ASSUME NEW w \in Workers, Refuse(w) PROVE FALSE
  BY <1>7 DEF Refuse, NothingRefused
<1>8. ASSUME NEW w \in Workers, Commit(w) PROVE Exact(status', batch', counter')
  <2> DEFINE j == run[w].job
  <2>1. j \in Jobs /\ status[j] = run[w].saw /\ batch # "NONE"
    BY <1>1, <1>8 DEF Commit, SlotsHoldJobs, RowHeld, NothingBeforeDispatch
  <2>2. run[w].saw # "ABSENT"
    BY <2>1 DEF Rows
  <2>3. status' = Committed(w)
    BY <1>8, <2>1, <2>2 DEF Commit, Committed
  <2>4. batch' = CommittedBatch(w) /\ counter' = CommittedCounter(w)
    BY <1>8 DEF Commit, CommittedBatch, CommittedCounter
  <2>5. run[w].pc = "commit"
    BY <1>8 DEF Commit
  <2> QED
    BY <2>3, <2>4, <2>5 DEF CommitExact
<1> QED
  BY <1>3, <1>4, <1>5, <1>6, <1>7, <1>8, BatchWriters

\* An undisturbed batch stays exact.
LEMMA CalmExactStep ==
  ASSUME TypeOK, TruthfulPhase3, ShelterHolds, BlankBefore, RetriesSome, BatchLeads,
         CalmExact, [HistoryNext]_historyVars
  PROVE  CalmExact'
<1> SUFFICES ASSUME ~Disturbed' PROVE (~TwoCommitting /\ SettledExact /\ CommitExact)'
  BY DEF CalmExact
<1>1. ~Disturbed /\ Sheltered /\ NothingRefused /\ (batch # "NONE" => Rows = Jobs)
  BY DisturbedBefore DEF Disturbed, ShelterHolds
<1>2. ~TwoCommitting /\ SettledExact /\ CommitExact
  BY <1>1 DEF CalmExact
<1>3. CASE UNCHANGED historyVars
  BY <1>2, <1>3 DEF historyVars, vars, TwoCommitting, SettledExact, CommitExact, Committed,
                    CommittedBatch, CommittedCounter
<1>4. CASE HistoryNext
  <2>1. Next /\ ~TwoCommitting'
    BY <1>4 DEF HistoryNext, Record, Disturbed
  <2>2. ~\E k \in Jobs : DeleteCashier(k)
    <3> SUFFICES ASSUME NEW k \in Jobs, DeleteCashier(k) PROVE FALSE
      OBVIOUS
    <3>1. batch' # "NONE" /\ k \notin Rows'
      BY DEF DeleteCashier, BlankBefore, Rows, TypeOK
    <3> QED
      BY <3>1 DEF Disturbed
  <2> QED
    BY <1>1, <1>2, <2>1, <2>2, CommitExactStep, SettledExactStep
<1> QED
  BY <1>3, <1>4

\* What is left to say when nothing is left to do.
LEMMA NothingLeft ==
  ASSUME TypeOK, ShelterHolds, CalmExact
  PROVE  QuiescentBatchExact
<1> SUFFICES ASSUME Quiescent, ~Disturbed
             PROVE  batch \in Final /\ Exact(status, batch, counter)
  BY DEF QuiescentBatchExact, Exact
<1>1. ASSUME NEW j \in Jobs PROVE ~Carried(j)
  BY DEF Quiescent, Carried
<1>2. ASSUME NEW j \in Jobs PROVE status[j] \in Outcome
  <2>1. ~Open(j)
    BY <1>1 DEF ShelterHolds, Disturbed
  <2>2. status[j] # "ABSENT"
    BY DEF Quiescent, Disturbed, Rows
  <2> QED
    BY <2>1, <2>2 DEF TypeOK, JobStatus, Open
<1>3. Settled(status) /\ batch # "NONE"
  BY <1>2 DEF Settled, Quiescent
<1>4. Exact(status, batch, counter)
  BY <1>3 DEF CalmExact, SettledExact
<1> QED
  BY <1>3, <1>4, SettledVerdict DEF Exact

\* Whatever the number of slots, of requests and of jobs: once nothing is left to do for a
\* batch no two of whose Phase 3s overlapped, and which has lost neither its template nor
\* a cashier, an execution or the API, the batch is finished, its status is the one its
\* jobs call for and its counters are exact, in spite of retries that overlap each other
\* or a Phase 3, of duplicated deliveries and of workers that die.
THEOREM QuietBatchIsExact == HistorySpec => []QuiescentBatchExact
<1> DEFINE IInv == RetriesSome /\ VerdictsFinal /\ BatchLeads /\ CalmExact
<1>1. HistoryInit => IInv
  <2> SUFFICES ASSUME HistoryInit PROVE IInv
    OBVIOUS
  <2>1. /\ \A w \in Workers : run[w].pc = "idle"
        /\ \A c \in Clients : client[c].pc = "idle"
        /\ batch = "NONE"
    BY IdleFields DEF HistoryInit, Init, IdleClient
  <2> QED
    BY <2>1 DEF RetriesSome, VerdictsFinal, BatchLeads, CalmExact, SettledExact, CommitExact,
                TwoCommitting
<1>2. ShelterHolds /\ TypeOK /\ TruthfulPhase3 /\ (OwnersSole /\ BlankBefore) /\ IInv
      /\ [HistoryNext]_historyVars => IInv'
  <2> SUFFICES ASSUME ShelterHolds, TypeOK, TruthfulPhase3, BlankBefore, IInv,
                      [HistoryNext]_historyVars
               PROVE  IInv'
    OBVIOUS
  <2>1. SlotsHoldJobs /\ [Next]_vars
    BY DEF TruthfulPhase3, HistoryNext, historyVars
  <2>2. RetriesSome' /\ VerdictsFinal' /\ BatchLeads'
    BY <2>1, RetriesSomeStep, VerdictsFinalStep, BatchLeadsStep
  <2>3. CalmExact'
    BY CalmExactStep
  <2> QED
    BY <2>2, <2>3
<1>3. ShelterHolds /\ TypeOK /\ IInv => QuiescentBatchExact
  BY NothingLeft
<1> HIDE DEF IInv
<1>4. HistorySpec => []IInv
  BY <1>1, <1>2, OwnersAreSole, HistoryWatches, ShelterAlwaysHolds, TypeCorrect,
     Phase3IsTruthful, PTL DEF HistorySpec
<1> QED
  BY <1>3, <1>4, HistoryWatches, ShelterAlwaysHolds, TypeCorrect, PTL
=============================================================================
