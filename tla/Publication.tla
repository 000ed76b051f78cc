---------------------------- MODULE Publication ----------------------------
(***************************************************************************)
(* One publication batch of the control center: the API process that       *)
(* creates it, enqueues its jobs and retries them (orchestrator.py), and   *)
(* the worker slots that execute the jobs (workers/main.py), over a        *)
(* PostgreSQL database that runs every transaction in READ COMMITTED.      *)
(*                                                                         *)
(* Each transaction of the code is two steps: what it loads, and the       *)
(* commit that writes.  The ORM writes only the columns whose value        *)
(* differs from the one it loaded, so a commit merges into whatever other  *)
(* transactions wrote in between.  The network phase of a worker is one    *)
(* step that ends in an outcome; module SceneUpdate opens it.              *)
(***************************************************************************)
EXTENDS Naturals, FiniteSets

CONSTANTS
  Jobs,        \* the publication jobs of the batch, one per target cashier
  Workers,     \* the slots that execute jobs (ARQ max_jobs, in-process limiter)
  Clients,     \* API requests that may be in progress at the same time
  NoJob,       \* the job of an idle slot
  Results,     \* the outcomes the network phase may end in
  Events,      \* the operator's and the environment's events that may occur
  MaxFaults,   \* bound on crashes and abandoned executions
  MaxRetries   \* bound on the operator's retry requests

FaultKinds == {"worker_crash", "api_crash", "abandon"}
AllEvents == {"delete_block", "delete_cashier", "redis_down", "mid_loop_failure"} \cup FaultKinds

ASSUME PublicationAssumption ==
  /\ IsFiniteSet(Jobs) /\ Jobs # {}
  /\ IsFiniteSet(Workers)
  /\ NoJob \notin Jobs
  /\ Events \subseteq AllEvents
  /\ Results \subseteq {"SUCCESS", "PUBLISHED_AWAITING_RESTART", "FAILED", "OFFLINE"}
  /\ MaxFaults \in Nat /\ MaxRetries \in Nat

VARIABLES
  block,     \* TRUE while the advertising block's row exists
  status,    \* PublicationJob.status of each job, "ABSENT" when it has no row
  attempt,   \* PublicationJob.current_attempt
  batch,     \* PublicationBatch.status
  counter,   \* the counters of the PublicationBatch row
  client,    \* what each API request is doing
  queue,     \* deliveries of each job waiting in Redis
  tasks,     \* deliveries of each job waiting as asyncio tasks of the API
  run,       \* the execution in each worker slot
  evidence,  \* history: the outcomes executions of each job have produced
  faults,    \* how many faults of each kind have happened
  retries    \* how many retries have been requested

vars == <<block, status, attempt, batch, counter, client, queue, tasks, run,
          evidence, faults, retries>>

Delivered   == {"SUCCESS", "PUBLISHED_AWAITING_RESTART"}
Undelivered == {"FAILED", "OFFLINE"}
Outcome     == Delivered \cup Undelivered
JobStatus   == Outcome \cup {"ABSENT", "PENDING", "RUNNING"}
Final       == {"SUCCESS", "PARTIAL", "FAILED"}
BatchStatus == Final \cup {"NONE", "PENDING", "RUNNING"}
Column      == Outcome \cup {"TOTAL"}

Rows == {j \in Jobs : status[j] # "ABSENT"}

(***************************************************************************)
(* The counters and the batch status Phase 3 computes from a view of the   *)
(* statuses of all the jobs of the batch.                                  *)
(***************************************************************************)
Count(view, o) == Cardinality({j \in Jobs : view[j] = o})

\* mutant: whatever is not delivered counts as failed
TallyRestFailed(view) ==
  [c \in Column |-> IF c = "TOTAL" THEN Cardinality(Jobs)
                    ELSE IF c = "FAILED" THEN Cardinality({j \in Jobs : view[j] \notin Delivered})
                    ELSE Count(view, c)]

Tally(view) ==
  [c \in Column |-> IF c = "TOTAL" THEN Cardinality({j \in Jobs : view[j] # "ABSENT"})
                    ELSE Count(view, c)]

\* mutant: a job that still waits in the queue does not hold the batch open
UnsettledRunningOnly(view) == \E j \in Jobs : view[j] = "RUNNING"

\* mutant: an OFFLINE job holds the batch open, as if its retry were scheduled
UnsettledOffline(view) == \E j \in Jobs : view[j] \in {"PENDING", "RUNNING", "OFFLINE"}

Unsettled(view) == \E j \in Jobs : view[j] \in {"PENDING", "RUNNING"}

\* mutant: a uniform batch takes over the status of its jobs
VerdictCopiesJobs(view, loaded) ==
  IF Unsettled(view) THEN loaded
  ELSE IF \E o \in Outcome : \A j \in Jobs : view[j] = o
       THEN view[CHOOSE j \in Jobs : TRUE] ELSE "PARTIAL"

Verdict(view, loaded) ==
  IF Unsettled(view) THEN loaded
  ELSE IF \A j \in Jobs : view[j] \notin Undelivered THEN "SUCCESS"
  ELSE IF \E j \in Jobs : view[j] \in Delivered THEN "PARTIAL"
  ELSE "FAILED"

(***************************************************************************)
(* Executions.  `saw*` is what Phase 1 loaded, `dirty`, `tally` and        *)
(* `verdict` are the batch columns a Phase 3 is about to write.            *)
(***************************************************************************)
Execution ==
  [pc : {"idle", "refuse", "claim", "network", "report", "commit", "done"},
   job : Jobs \cup {NoJob}, local : BOOLEAN, saw : JobStatus, sawAttempt : Nat,
   sawBatch : BatchStatus, outcome : Outcome, dirty : SUBSET Column,
   tally : [Column -> Nat], verdict : BatchStatus]

Request == [pc : {"idle", "enqueue", "retry"}, todo : SUBSET Jobs, all : SUBSET Jobs,
            sawBatch : BatchStatus]

NoTally == [c \in Column |-> 0]

Idle == [pc |-> "idle", job |-> NoJob, local |-> FALSE, saw |-> "ABSENT",
         sawAttempt |-> 0, sawBatch |-> "NONE", outcome |-> "FAILED",
         dirty |-> {}, tally |-> NoTally, verdict |-> "NONE"]

Executing(pc, j, isLocal) == [Idle EXCEPT !.pc = pc, !.job = j, !.local = isLocal]

\* The coroutine returns: a task of the API just ends, ARQ has yet to record it.
Returned(j, isLocal) == IF isLocal THEN Idle ELSE Executing("done", j, FALSE)

IdleClient == [pc |-> "idle", todo |-> {}, all |-> {}, sawBatch |-> "NONE"]

Init ==
  /\ block = TRUE
  /\ status = [j \in Jobs |-> "ABSENT"]
  /\ attempt = [j \in Jobs |-> 0]
  /\ batch = "NONE"
  /\ counter = NoTally
  /\ client = [c \in Clients |-> IdleClient]
  /\ queue = [j \in Jobs |-> 0]
  /\ tasks = [j \in Jobs |-> 0]
  /\ run = [w \in Workers |-> Idle]
  /\ evidence = [j \in Jobs |-> {}]
  /\ faults = [k \in FaultKinds |-> 0]
  /\ retries = 0

\* mutant: Phase 3 writes the job's row only at its commit, and locks nothing before
LockedNothing(S) == FALSE

\* The UPDATE that Phase 3's query flushes locks the job's row until its commit.
Locked(S) ==
  \E w \in Workers : run[w].pc = "commit" /\ run[w].saw # "ABSENT" /\ run[w].job \in S

(***************************************************************************)
(* The API: dispatch_publication and retry_failed_jobs.                    *)
(***************************************************************************)
EnqueueAll(c, S) ==
  client' = [client EXCEPT ![c] = [pc |-> "enqueue", todo |-> S, all |-> S,
                                   sawBatch |-> "NONE"]]

\* Creates the batch and its jobs; without a block the request is refused.
Dispatch(c) ==
  /\ client[c].pc = "idle"
  /\ batch = "NONE"
  /\ block
  /\ batch' = "PENDING"
  /\ status' = [j \in Jobs |-> "PENDING"]
  /\ counter' = [NoTally EXCEPT !["TOTAL"] = Cardinality(Jobs)]
  /\ EnqueueAll(c, Jobs)
  /\ UNCHANGED <<block, attempt, queue, tasks, run, evidence, faults, retries>>

\* The loop over create_pool's connection: one enqueue_job call.
Enqueue(c) ==
  /\ client[c].pc = "enqueue"
  /\ \E j \in client[c].todo :
       /\ queue' = [queue EXCEPT ![j] = @ + 1]
       /\ client' = [client EXCEPT ![c] =
                       IF client[c].todo = {j} THEN IdleClient
                       ELSE [client[c] EXCEPT !.todo = client[c].todo \ {j}]]
  /\ UNCHANGED <<block, status, attempt, batch, counter, tasks, run, evidence,
                 faults, retries>>

\* Redis fails before or in the middle of the loop: the handler launches every
\* job of the request as a task of the API process, the pushed ones too.
Fallback(c) ==
  /\ client[c].pc = "enqueue"
  /\ \/ "redis_down" \in Events /\ client[c].todo = client[c].all
     \/ "mid_loop_failure" \in Events /\ client[c].todo # client[c].all
  /\ tasks' = [j \in Jobs |-> IF j \in client[c].all THEN tasks[j] + 1 ELSE tasks[j]]
  /\ client' = [client EXCEPT ![c] = IdleClient]
  /\ UNCHANGED <<block, status, attempt, batch, counter, queue, run, evidence,
                 faults, retries>>

\* mutant: the retry also takes jobs that look stuck in RUNNING
RetryableOrRunning == {j \in Jobs : status[j] \in Undelivered \cup {"RUNNING"}}

\* mutant: the retry takes every job that has ended
RetryableEnded == {j \in Jobs : status[j] \in Outcome}

Retryable == {j \in Jobs : status[j] \in Undelivered}

\* retry_failed_jobs loads the batch and the FAILED and OFFLINE jobs.
RetryLoad(c) ==
  /\ client[c].pc = "idle"
  /\ batch # "NONE"
  /\ retries < MaxRetries
  /\ Retryable # {}
  /\ retries' = retries + 1
  /\ client' = [client EXCEPT ![c] = [pc |-> "retry", todo |-> {}, all |-> Retryable,
                                      sawBatch |-> batch]]
  /\ UNCHANGED <<block, status, attempt, batch, counter, queue, tasks, run, evidence,
                 faults>>

\* mutant: only the jobs that are still to be retried at the commit are enqueued
RetryCommitRequeries(c) ==
  /\ client[c].pc = "retry"
  /\ client[c].all \subseteq Rows
  /\ ~Locked(client[c].all)
  /\ status' = [j \in Jobs |-> IF j \in client[c].all THEN "PENDING" ELSE status[j]]
  /\ attempt' = [j \in Jobs |-> IF j \in client[c].all THEN 0 ELSE attempt[j]]
  /\ batch' = IF client[c].sawBatch = "RUNNING" THEN batch ELSE "RUNNING"
  /\ EnqueueAll(c, client[c].all \cap Retryable)
  /\ UNCHANGED <<block, counter, queue, tasks, run, evidence, faults, retries>>

\* Its commit resets the loaded jobs and the batch, whatever happened to them since.
RetryCommit(c) ==
  /\ client[c].pc = "retry"
  /\ client[c].all \subseteq Rows
  /\ ~Locked(client[c].all)
  /\ status' = [j \in Jobs |-> IF j \in client[c].all THEN "PENDING" ELSE status[j]]
  /\ attempt' = [j \in Jobs |-> IF j \in client[c].all THEN 0 ELSE attempt[j]]
  /\ batch' = IF client[c].sawBatch = "RUNNING" THEN batch ELSE "RUNNING"
  /\ EnqueueAll(c, client[c].all)
  /\ UNCHANGED <<block, counter, queue, tasks, run, evidence, faults, retries>>

\* An UPDATE of a row that is gone raises, and the request ends with an error.
RetryFails(c) ==
  /\ client[c].pc = "retry"
  /\ ~(client[c].all \subseteq Rows)
  /\ client' = [client EXCEPT ![c] = IdleClient]
  /\ UNCHANGED <<block, status, attempt, batch, counter, queue, tasks, run, evidence,
                 faults, retries>>

(***************************************************************************)
(* Phase 1 of an execution: load, then mark the job RUNNING.               *)
(***************************************************************************)
Loaded(j, isLocal) ==
  IF j \notin Rows THEN Returned(j, isLocal)
  ELSE [Executing(IF block THEN "claim" ELSE "refuse", j, isLocal) EXCEPT
          !.saw = status[j], !.sawAttempt = attempt[j], !.sawBatch = batch]

Start(w, j, isLocal) ==
  /\ run[w].pc = "idle"
  /\ IF isLocal THEN /\ tasks[j] > 0
                     /\ tasks' = [tasks EXCEPT ![j] = @ - 1]
                     /\ UNCHANGED queue
                ELSE /\ queue[j] > 0
                     /\ queue' = [queue EXCEPT ![j] = @ - 1]
                     /\ UNCHANGED tasks
  /\ run' = [run EXCEPT ![w] = Loaded(j, isLocal)]
  /\ UNCHANGED <<block, status, attempt, batch, counter, client, evidence, faults, retries>>

\* The early return for a job whose block is gone: the batch is left as it is.
Refuse(w) ==
  LET j == run[w].job IN
  /\ run[w].pc = "refuse"
  /\ j \in Rows /\ ~Locked({j})
  /\ status' = [status EXCEPT ![j] = IF run[w].saw = "FAILED" THEN @ ELSE "FAILED"]
  /\ evidence' = [evidence EXCEPT ![j] = @ \cup {"FAILED"}]
  /\ run' = [run EXCEPT ![w] = Returned(j, run[w].local)]
  /\ UNCHANGED <<block, attempt, batch, counter, client, queue, tasks, faults, retries>>

\* The commit that takes the job to RUNNING, and a PENDING batch with it.
Claim(w) ==
  LET j == run[w].job IN
  /\ run[w].pc = "claim"
  /\ j \in Rows /\ ~Locked({j})
  /\ status' = [status EXCEPT ![j] = IF run[w].saw = "RUNNING" THEN @ ELSE "RUNNING"]
  /\ attempt' = [attempt EXCEPT ![j] = run[w].sawAttempt + 1]
  /\ batch' = IF run[w].sawBatch = "PENDING" THEN "RUNNING" ELSE batch
  /\ run' = [run EXCEPT ![w] = Executing("network", j, run[w].local)]
  /\ UNCHANGED <<block, counter, client, queue, tasks, evidence, faults, retries>>

(***************************************************************************)
(* Phase 2: the work on the cashier.  A delivered outcome means that the   *)
(* scene was written and read back.                                        *)
(***************************************************************************)
Publish(w, o) ==
  /\ run[w].pc = "network"
  /\ evidence' = [evidence EXCEPT ![run[w].job] = @ \cup {o}]
  /\ run' = [run EXCEPT ![w] = [run[w] EXCEPT !.pc = "report", !.outcome = o]]
  /\ UNCHANGED <<block, status, attempt, batch, counter, client, queue, tasks, faults, retries>>

(***************************************************************************)
(* Phase 3: flush the job's result, load all the jobs of the batch, and    *)
(* commit the result with the counters computed from that view.            *)
(***************************************************************************)
\* mutant: autoflush is off, and the query does not see the worker's own result
ViewUnflushed(j, o) == status

View(j, o) == IF j \in Rows THEN [status EXCEPT ![j] = o] ELSE status

Report(w) ==
  LET j == run[w].job
      view == View(j, run[w].outcome)
      new == Tally(view)
      dirty == {c \in Column : new[c] # counter[c]}
      verdict == Verdict(view, batch)
  IN
  /\ run[w].pc = "report"
  /\ ~Locked({j})
  \* the cashier's new current block must exist: its foreign key is checked here
  /\ run[w].outcome \in Delivered /\ j \in Rows => block
  /\ run' = [run EXCEPT ![w] = [run[w] EXCEPT
                !.pc = "commit", !.saw = status[j], !.dirty = dirty,
                !.tally = [c \in Column |-> IF c \in dirty THEN new[c] ELSE 0],
                !.verdict = IF verdict = batch THEN "NONE" ELSE verdict]]
  /\ UNCHANGED <<block, status, attempt, batch, counter, client, queue, tasks, evidence,
                 faults, retries>>

\* A delivered result cannot be recorded once the block is deleted: the flush
\* raises on the foreign key, and nothing of Phase 3 is written.
ReportFails(w) ==
  /\ run[w].pc = "report"
  /\ ~Locked({run[w].job})
  /\ run[w].outcome \in Delivered /\ run[w].job \in Rows /\ ~block
  /\ run' = [run EXCEPT ![w] = Returned(run[w].job, run[w].local)]
  /\ UNCHANGED <<block, status, attempt, batch, counter, client, queue, tasks, evidence,
                 faults, retries>>

Commit(w) ==
  LET r == run[w] IN
  /\ r.pc = "commit"
  /\ status' = [status EXCEPT ![r.job] = IF r.saw \in {"ABSENT", r.outcome} THEN @ ELSE r.outcome]
  /\ counter' = [c \in Column |-> IF c \in r.dirty THEN r.tally[c] ELSE counter[c]]
  /\ batch' = IF r.verdict = "NONE" THEN batch ELSE r.verdict
  /\ run' = [run EXCEPT ![w] = Returned(r.job, r.local)]
  /\ UNCHANGED <<block, attempt, client, queue, tasks, evidence, faults, retries>>

\* ARQ records the result of the coroutine and forgets the delivery.
Finish(w) ==
  /\ run[w].pc = "done"
  /\ run' = [run EXCEPT ![w] = Idle]
  /\ UNCHANGED <<block, status, attempt, batch, counter, client, queue, tasks, evidence,
                 faults, retries>>

\* A claim or a refusal whose row was deleted since it was loaded raises.
RowGone(w) ==
  /\ run[w].pc \in {"claim", "refuse"}
  /\ run[w].job \notin Rows
  /\ run' = [run EXCEPT ![w] = Returned(run[w].job, run[w].local)]
  /\ UNCHANGED <<block, status, attempt, batch, counter, client, queue, tasks, evidence,
                 faults, retries>>

(***************************************************************************)
(* Other operators and the environment.                                    *)
(***************************************************************************)
DeleteBlock ==
  /\ "delete_block" \in Events
  /\ block
  /\ ~Locked(Jobs)
  /\ block' = FALSE
  /\ UNCHANGED <<status, attempt, batch, counter, client, queue, tasks, run, evidence,
                 faults, retries>>

\* Deleting a cashier deletes its jobs (ON DELETE CASCADE).
DeleteCashier(j) ==
  /\ "delete_cashier" \in Events
  /\ j \in Rows /\ ~Locked({j})
  /\ status' = [status EXCEPT ![j] = "ABSENT"]
  /\ UNCHANGED <<block, attempt, batch, counter, client, queue, tasks, run, evidence,
                 faults, retries>>

Fault(kind) ==
  /\ kind \in Events
  /\ faults["worker_crash"] + faults["api_crash"] + faults["abandon"] < MaxFaults
  /\ faults' = [faults EXCEPT ![kind] = @ + 1]

Busy(w) == run[w].pc # "idle"

\* ARQ cancels a job at job_timeout, or the database or Redis raises in it: the
\* execution ends where it is, its open transaction rolls back, nothing retries it.
Abandon(w) ==
  /\ Fault("abandon")
  /\ Busy(w)
  /\ run' = [run EXCEPT ![w] = Idle]
  /\ UNCHANGED <<block, status, attempt, batch, counter, client, queue, tasks, evidence,
                 retries>>

\* mutant: a delivery is acknowledged when it is taken, not when it returns
RedeliverNothing(j) == queue[j]

Redeliver(j) ==
  queue[j] + Cardinality({w \in Workers : Busy(w) /\ ~run[w].local /\ run[w].job = j})

\* The worker process dies or is redeployed: ARQ delivers its unfinished jobs again.
WorkerCrash ==
  /\ Fault("worker_crash")
  /\ \E w \in Workers : Busy(w) /\ ~run[w].local
  /\ queue' = [j \in Jobs |-> Redeliver(j)]
  /\ run' = [w \in Workers |-> IF run[w].local THEN run[w] ELSE Idle]
  /\ UNCHANGED <<block, status, attempt, batch, counter, client, tasks, evidence, retries>>

\* The API process dies with its requests, its tasks and the executions in it.
ApiCrash ==
  /\ Fault("api_crash")
  /\ client' = [c \in Clients |-> IdleClient]
  /\ tasks' = [j \in Jobs |-> 0]
  /\ run' = [w \in Workers |-> IF run[w].local THEN Idle ELSE run[w]]
  /\ UNCHANGED <<block, status, attempt, batch, counter, queue, evidence, retries>>

ApiStep(c) ==
  Dispatch(c) \/ Enqueue(c) \/ Fallback(c) \/ RetryLoad(c) \/ RetryCommit(c) \/ RetryFails(c)

Advance(w) ==
  \/ Refuse(w) \/ Claim(w) \/ RowGone(w)
  \/ \E o \in Results : Publish(w, o)
  \/ Report(w) \/ ReportFails(w) \/ Commit(w) \/ Finish(w)

WorkerStep(w) ==
  \/ \E j \in Jobs, isLocal \in BOOLEAN : Start(w, j, isLocal)
  \/ Advance(w)

Environment ==
  \/ DeleteBlock
  \/ \E j \in Jobs : DeleteCashier(j)
  \/ \E w \in Workers : Abandon(w)
  \/ WorkerCrash
  \/ ApiCrash

Next ==
  \/ \E c \in Clients : ApiStep(c)
  \/ \E w \in Workers : WorkerStep(w)
  \/ Environment

Spec == Init /\ [][Next]_vars

\* A started request runs to its end and every slot goes on executing: the event
\* loops run each ready task, and each network call of an execution has a timeout.
\* Nobody has to send a request, and no fault has to happen.
FairSpec ==
  /\ Spec
  /\ \A c \in Clients : WF_vars(Enqueue(c) \/ RetryCommit(c) \/ RetryFails(c))
  /\ \A w \in Workers : WF_vars(WorkerStep(w))
-----------------------------------------------------------------------------
(***************************************************************************)
(* Properties.                                                             *)
(***************************************************************************)

\* Every variable keeps its shape; the execution records stay within the values
\* the code can put in them.
TypeOK ==
  /\ block \in BOOLEAN
  /\ status \in [Jobs -> JobStatus]
  /\ attempt \in [Jobs -> Nat]
  /\ batch \in BatchStatus
  /\ counter \in [Column -> Nat]
  /\ client \in [Clients -> Request]
  /\ queue \in [Jobs -> Nat]
  /\ tasks \in [Jobs -> Nat]
  /\ run \in [Workers -> Execution]
  /\ evidence \in [Jobs -> SUBSET Outcome]
  /\ faults \in [FaultKinds -> Nat] /\ retries \in Nat

\* The executions that ever ended undelivered, or delivered, for a job.
EverDelivered == {j \in Jobs : evidence[j] \cap Delivered # {}}
EverMissed    == {j \in Jobs : evidence[j] \cap Undelivered # {}}

\* A verdict tells the truth about what happened on the cashiers: SUCCESS
\* means that every remaining cashier got the content at some time, FAILED that each
\* of them missed it at some time, PARTIAL that each was tried, one delivered and one
\* missed.  BatchVerdictJustified: the batch's status, computed from the committed rows
\* and the worker's own uncommitted one, is justified while retries, duplicates and
\* crashes go on.
Justified(verdict) ==
  /\ verdict = "SUCCESS" => Rows \subseteq EverDelivered
  /\ verdict = "FAILED"  => Rows \subseteq EverMissed
  /\ verdict = "PARTIAL" => /\ Rows \subseteq EverDelivered \cup EverMissed
                            /\ EverDelivered # {} /\ EverMissed # {}

BatchVerdictJustified == Justified(batch)

\* No counter of the batch exceeds the number of cashiers for which an execution
\* ever produced that outcome, however the commits of several workers merge.
CountersNeverOverstate ==
  \A o \in Outcome : counter[o] <= Cardinality({j \in Jobs : o \in evidence[j]})

\* The parts that make BatchVerdictJustified inductive.
SlotsHoldJobs         == \A w \in Workers : run[w].pc # "idle" => run[w].job \in Jobs
NothingBeforeDispatch ==
  batch = "NONE" => /\ \A c \in Clients : client[c].pc = "idle"
                    /\ \A j \in Jobs : queue[j] = 0 /\ tasks[j] = 0
                    /\ \A w \in Workers : run[w].pc = "idle"
JobsTruthful    == \A j \in Jobs : status[j] \in Outcome => status[j] \in evidence[j]
ReportsTruthful == \A w \in Workers :
  run[w].pc \in {"report", "commit"} => run[w].outcome \in evidence[run[w].job]
\* From Phase 3's flush to its commit the job's row stays as Phase 3 loaded it, ...
RowHeld == \A w \in Workers : run[w].pc = "commit" => status[run[w].job] = run[w].saw
\* ... because one Phase 3 at a time holds it.
RowExclusive == \A v, w \in Workers :
  /\ run[v].pc = "commit" /\ run[w].pc = "commit" /\ run[v].job = run[w].job
  /\ run[v].saw # "ABSENT"
  => v = w
VerdictsJustified == \A w \in Workers : run[w].pc = "commit" => Justified(run[w].verdict)

\* Phase 3 decides from truthful rows and reports, holding the row it writes: the
\* inductive invariant of BatchVerdictJustified.
TruthfulPhase3 ==
  /\ SlotsHoldJobs /\ NothingBeforeDispatch
  /\ JobsTruthful /\ ReportsTruthful
  /\ RowHeld /\ RowExclusive
  /\ VerdictsJustified /\ BatchVerdictJustified

\* Who still has to bring job j to an outcome: a delivery in Redis, a task, a request
\* that is enqueueing it, or a slot that is executing it.
Carried(j) ==
  \/ queue[j] > 0
  \/ tasks[j] > 0
  \/ \E c \in Clients : client[c].pc = "enqueue" /\ j \in client[c].todo
  \/ \E w \in Workers : run[w].job = j /\ run[w].pc \in {"claim", "network", "report", "commit"}

Open(j) == status[j] \in {"PENDING", "RUNNING"}

\* The API lives, no execution is abandoned and the block exists.
Sheltered == block /\ faults["api_crash"] = 0 /\ faults["abandon"] = 0

\* No job stays open with nobody left to finish it: duplicated deliveries, retries
\* from stale reads, deleted cashiers, a Redis that fails in the middle of the loop and
\* redelivery after a worker crash never strand a job.  A crash of the API, an abandoned
\* execution and a deleted block do.
NoLostWork == Sheltered => \A j \in Jobs : Open(j) => Carried(j)

\* The executions of j there are or will be: deliveries, tasks, calls to come, busy slots.
Deliveries(j) ==
  queue[j] + tasks[j]
  + Cardinality({c \in Clients : client[c].pc = "enqueue" /\ j \in client[c].todo})
  + Cardinality({w \in Workers : run[w].job = j /\ run[w].pc # "done"})

\* Nothing is left to do for the batch.
Quiescent ==
  /\ batch # "NONE"
  /\ \A c \in Clients : client[c].pc = "idle"
  /\ \A j \in Jobs : queue[j] = 0 /\ tasks[j] = 0
  /\ \A w \in Workers : run[w].pc \in {"idle", "done"}

\* Only the executions of distinct jobs overlap: FR-PUB-005.3 for the batch status.
QuiescentBatchFinal == Quiescent => batch \in Final

\* FR-PUB-005.2: what happens to the template in the CMS does not alter what a batch in
\* flight delivers: on a fleet where every execution that reaches its cashier delivers,
\* every job of the batch ends up delivered.
SnapshotShieldsDelivery ==
  Results \subseteq Delivered /\ Quiescent => \A j \in Rows : status[j] \in Delivered

\* The plan's lifecycle: an OFFLINE job is queued for another attempt.
OfflineIsQueued == Quiescent => \A j \in Jobs : status[j] # "OFFLINE"

\* FR-PUB-005.4, as it is written: a cashier whose job succeeded is not processed again.
DeliveredStaysDelivered ==
  [][\A j \in Jobs : status[j] \in Delivered => status'[j] \notin {"PENDING", "RUNNING"}]_vars
=============================================================================
