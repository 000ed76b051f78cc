------------------------- MODULE PublicationHistory -------------------------
(***************************************************************************)
(* Publication with the history its strongest properties speak of: which   *)
(* jobs have come to be delivered twice, and whether two executions have   *)
(* been in Phase 3 at once.  Neither variable is read by a step.           *)
(*                                                                         *)
(* The code takes no lock on a job and does not look at its status before  *)
(* it executes it.  The history names every way in which that matters:     *)
(* the properties hold, for any number of requests, slots and faults,      *)
(* except for the jobs and the batches to which it has happened.           *)
(***************************************************************************)
EXTENDS Publication

VARIABLES
  doubled,     \* the jobs that something has given a second delivery
  overlapped   \* TRUE once two executions were in Phase 3 at the same time

historyVars == <<vars, doubled, overlapped>>

\* Two retries that overlap have both loaded the job (nothing locks its row).
TwiceRetried(j) ==
  \E c, d \in Clients : /\ c # d
                        /\ client[c].pc = "retry" /\ j \in client[c].all
                        /\ client[d].pc = "retry" /\ j \in client[d].all

\* The steps after which a job may be executed twice: the second of two overlapping
\* retries loads it, Redis fails after it was pushed and the fallback runs it too, or the
\* worker dies after its last commit and before ARQ has recorded that it returned.
Doubling(j) ==
  \/ TwiceRetried(j)'
  \/ \E c \in Clients : Fallback(c) /\ j \in client[c].all \ client[c].todo
  \/ WorkerCrash /\ \E w \in Workers : run[w].pc = "done" /\ run[w].job = j

TwoCommitting ==
  \E v, w \in Workers : v # w /\ run[v].pc = "commit" /\ run[w].pc = "commit"

Record ==
  /\ doubled' = doubled \cup {j \in Jobs : Doubling(j)}
  /\ overlapped' = (overlapped \/ TwoCommitting')

HistoryInit == Init /\ doubled = {} /\ overlapped = FALSE
HistoryNext == Next /\ Record
HistorySpec == HistoryInit /\ [][HistoryNext]_historyVars

\* With the fairness of FairSpec.
FairHistorySpec ==
  /\ HistorySpec
  /\ \A c \in Clients : WF_historyVars((Enqueue(c) \/ RetryCommit(c) \/ RetryFails(c)) /\ Record)
  /\ \A w \in Workers : WF_historyVars(WorkerStep(w) /\ Record)
-----------------------------------------------------------------------------
\* A job that nothing has doubled has at most one delivery, in the queue, as a task, in a
\* request or in a slot: nothing else can put two workers on one cashier for it.
SingleDelivery == \A j \in Jobs \ doubled : Deliveries(j) <= 1

\* FR-PUB-005.4 for the jobs that nothing has doubled: a cashier whose job succeeded is
\* never processed again, neither by the operator's retry nor by another execution.
DeliveredNotReprocessed ==
  [][\A j \in Jobs \ doubled :
       status[j] \in Delivered => status'[j] \notin {"PENDING", "RUNNING"}]_historyVars

\* Something has kept the batch from being settled by its last execution: an overlap, or
\* the loss of its template, of a cashier, of an execution or of the API.
Disturbed == overlapped \/ ~Sheltered \/ (batch # "NONE" /\ Rows # Jobs)

\* Once nothing is left to do for a batch none of whose Phase 3s overlapped, and which has
\* lost neither its template nor a cashier, an execution or the API, the batch is finished,
\* its status is the one its jobs call for and its counters are exact (FR-PUB-005.3).
QuiescentBatchExact ==
  Quiescent /\ ~Disturbed =>
    /\ batch \in Final
    /\ batch = Verdict(status, batch)
    /\ counter = Tally(status)

\* A dispatched batch ends up finished, and again after each retry, unless it is disturbed.
EventuallyFinal == (batch # "NONE") ~> (batch \in Final \/ Disturbed)

\* The program implements the lifecycle its plan describes, PublicationLifecycle: a job
\* leaves it with its cashier, or when it is doubled.
Planned   == [j \in Jobs |-> IF j \in doubled THEN "RELEASED" ELSE status[j]]
Shown     == (EverDelivered \cap Rows) \ doubled
Lifecycle == INSTANCE PublicationLifecycle WITH status <- Planned, delivered <- Shown
ImplementsLifecycle == Lifecycle!Spec
=============================================================================
