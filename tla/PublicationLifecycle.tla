------------------------ MODULE PublicationLifecycle ------------------------
(***************************************************************************)
(* What a batch promises of each of its jobs, without workers, queues or   *)
(* transactions: the lifecycle of the implementation plan, in which a      *)
(* worker owns a job from PENDING to its outcome, a job is reported        *)
(* delivered only if the content reached the cashier, and an outcome is    *)
(* only ever left by an operator's retry of a job that missed.             *)
(***************************************************************************)
CONSTANT Jobs

VARIABLES
  status,     \* the state of each job
  delivered   \* the jobs whose cashier has shown the content

Reached == {"SUCCESS", "PUBLISHED_AWAITING_RESTART"}
Missed  == {"FAILED", "OFFLINE"}

Init ==
  /\ status = [j \in Jobs |-> "ABSENT"]
  /\ delivered = {}

Launch ==
  /\ \A j \in Jobs : status[j] = "ABSENT"
  /\ status' = [j \in Jobs |-> "PENDING"]
  /\ UNCHANGED delivered

Take(j) ==
  /\ status[j] = "PENDING"
  /\ status' = [status EXCEPT ![j] = "RUNNING"]
  /\ UNCHANGED delivered

Deliver(j) ==
  /\ status[j] = "RUNNING"
  /\ delivered' = delivered \cup {j}
  /\ UNCHANGED status

Settle(j, o) ==
  /\ status[j] = "RUNNING"
  /\ o \in Reached => j \in delivered
  /\ status' = [status EXCEPT ![j] = o]
  /\ UNCHANGED delivered

\* A job that cannot be attempted any more fails without being taken.
Decline(j) ==
  /\ status[j] = "PENDING"
  /\ status' = [status EXCEPT ![j] = "FAILED"]
  /\ UNCHANGED delivered

\* A job goes with its cashier.
Remove(j) ==
  /\ status' = [status EXCEPT ![j] = "ABSENT"]
  /\ delivered' = delivered \ {j}

\* Jobs that have come to be executed twice leave the plan, for good.
Release(S) ==
  /\ status' = [j \in Jobs |-> IF j \in S THEN "RELEASED" ELSE status[j]]
  /\ delivered' = delivered \ S

RetryMissed ==
  /\ \E S \in SUBSET {j \in Jobs : status[j] \in Missed} :
       status' = [j \in Jobs |-> IF j \in S THEN "PENDING" ELSE status[j]]
  /\ UNCHANGED delivered

Next ==
  \/ Launch
  \/ \E j \in Jobs : Take(j) \/ Deliver(j) \/ Decline(j)
  \/ \E j \in Jobs : status[j] # "RELEASED" /\ Remove(j)
  \/ \E S \in SUBSET Jobs : Release(S)
  \/ \E j \in Jobs, o \in Reached \cup Missed : Settle(j, o)
  \/ RetryMissed

Spec == Init /\ [][Next]_<<status, delivered>>
=============================================================================
