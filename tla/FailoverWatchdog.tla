--------------------------- MODULE FailoverWatchdog ---------------------------
(***************************************************************************)
(* failover_watchdog.py: a standby service (two docker containers) runs    *)
(* while the master cannot be reached.  The loop counts checks that fail   *)
(* or succeed in a row and starts or stops the standby; so do the calls of *)
(* the webhook, each in a thread of its own.  The lock is held for the     *)
(* counters and the flag, not for the docker commands.                     *)
(***************************************************************************)
EXTENDS Naturals

CONSTANTS
  FailThreshold,     \* failed checks in a row that start the standby
  RecoveryThreshold, \* successful ones in a row that stop it
  Handlers,          \* the threads of the webhook's server
  MaxCalls,          \* bound on the calls
  MaxMishaps         \* bound on commands that fail, crashes and wrong answers

ASSUME FailoverAssumption ==
  /\ FailThreshold \in Nat \ {0}
  /\ RecoveryThreshold \in Nat \ {0}
  /\ "loop" \notin Handlers
  /\ MaxCalls \in Nat
  /\ MaxMishaps \in Nat

Threads == Handlers \cup {"loop"}

VARIABLES
  reachable,      \* the master can be reached
  probe,          \* the answer of check_master, until it is counted
  failures,       \* consecutive_failures, up to FailThreshold
  successes,      \* consecutive_successes, up to RecoveryThreshold
  failoverActive, \* the flag
  running,        \* the containers run
  at,             \* what each thread is at
  calls, mishaps, \* the calls and mishaps so far
  crossed         \* history: a start met a stop, or the containers went unnoticed

watchdogState == <<probe, failures, successes, failoverActive>>
failoverVars == <<reachable, watchdogState, running, at, calls, mishaps, crossed>>

FailoverInit ==
  /\ reachable = TRUE
  /\ probe = "none"
  /\ failures = 0
  /\ successes = 0
  /\ failoverActive = FALSE
  /\ running = FALSE
  /\ at = [t \in Threads |-> "idle"]
  /\ calls = 0
  /\ mishaps = 0
  /\ crossed = FALSE

Mishap == mishaps < MaxMishaps /\ mishaps' = mishaps + 1

UpTo(n, bound) == IF n < bound THEN n ELSE bound

\* A thread turns to "start" or "stop" while another is at the opposite.
Meets(t, what) == \E u \in Threads \ {t} :
  at[u] \in (IF what = "start" THEN {"stop", "stopped"} ELSE {"start", "started"})

Turn(t, what) ==
  /\ at' = [at EXCEPT ![t] = what]
  /\ crossed' = (crossed \/ Meets(t, what))

MasterChanges ==
  /\ reachable' = ~reachable
  /\ UNCHANGED <<watchdogState, running, at, calls, mishaps, crossed>>

\* A master that answers with an error, or too late, counts as one that does not.
CheckMaster ==
  /\ at["loop"] = "idle"
  /\ probe = "none"
  /\ \/ probe' = (IF reachable THEN "ok" ELSE "failed") /\ mishaps' = mishaps
     \/ probe' = "failed" /\ Mishap
  /\ UNCHANGED <<reachable, failures, successes, failoverActive, running, at, calls, crossed>>

\* mutants: only the check that reaches the threshold starts the standby; the standby is
\* only stopped by the process that has started it.
ShouldStartOnce(looks) == failures + 1 = FailThreshold /\ ~failoverActive /\ ~looks
ShouldStopOwn(looks) == successes + 1 >= RecoveryThreshold /\ failoverActive

ShouldStart(looks) == failures + 1 >= FailThreshold /\ ~failoverActive /\ ~looks
ShouldStop(looks) == successes + 1 >= RecoveryThreshold /\ (failoverActive \/ looks)

\* What docker says of the containers, which counts as no when the command fails.
IsLocalJiraRunning(looks) == \/ looks = running /\ mishaps' = mishaps
                             \/ looks = FALSE /\ Mishap

\* One round of the loop, under the lock.
Decides(looks) ==
  IF probe = "ok"
    THEN /\ successes' = UpTo(successes + 1, RecoveryThreshold)
         /\ failures' = 0
         /\ IF ShouldStop(looks) THEN Turn("loop", "stop") ELSE UNCHANGED <<at, crossed>>
    ELSE /\ failures' = UpTo(failures + 1, FailThreshold)
         /\ successes' = 0
         /\ IF ShouldStart(looks) THEN Turn("loop", "start") ELSE UNCHANGED <<at, crossed>>

WatchdogLoop ==
  /\ probe # "none"
  /\ probe' = "none"
  /\ \E looks \in BOOLEAN : IsLocalJiraRunning(looks) /\ Decides(looks)
  /\ UNCHANGED <<reachable, failoverActive, running, calls>>

\* A webhook that says down or up, or a manual start or stop.
DoPost(h, what) ==
  /\ at[h] = "idle"
  /\ calls < MaxCalls
  /\ calls' = calls + 1
  /\ Turn(h, what)
  /\ UNCHANGED <<reachable, watchdogState, running, mishaps>>

\* A command that fails may have done its work, or part of it.
DockerStart(t) ==
  /\ at[t] = "start"
  /\ \/ running' = TRUE /\ at' = [at EXCEPT ![t] = "started"] /\ mishaps' = mishaps
     \/ running' \in {running, TRUE} /\ at' = [at EXCEPT ![t] = "idle"] /\ Mishap
  /\ UNCHANGED <<reachable, watchdogState, calls, crossed>>

DockerStop(t) ==
  /\ at[t] = "stop"
  /\ \/ /\ running' = FALSE /\ at' = [at EXCEPT ![t] = "stopped"] /\ mishaps' = mishaps
        /\ crossed' = crossed
     \/ /\ running' \in {running, FALSE} /\ at' = [at EXCEPT ![t] = "idle"] /\ Mishap
        /\ crossed' = (crossed \/ running' # running)
  /\ UNCHANGED <<reachable, watchdogState, calls>>

StartLocalJira(t) ==
  /\ at[t] = "started"
  /\ at' = [at EXCEPT ![t] = "idle"]
  /\ failoverActive' = TRUE
  /\ UNCHANGED <<reachable, probe, failures, successes, running, calls, mishaps, crossed>>

\* mutant: the flag is left as it is.
StopLocalJiraOnly(t) ==
  /\ at[t] = "stopped"
  /\ at' = [at EXCEPT ![t] = "idle"]
  /\ UNCHANGED <<reachable, watchdogState, running, calls, mishaps, crossed>>

StopLocalJira(t) ==
  /\ at[t] = "stopped"
  /\ at' = [at EXCEPT ![t] = "idle"]
  /\ failoverActive' = FALSE
  /\ UNCHANGED <<reachable, probe, failures, successes, running, calls, mishaps, crossed>>

\* The containers die, or the watchdog is started anew and remembers nothing.
ContainersDie ==
  /\ running
  /\ Mishap
  /\ running' = FALSE
  /\ crossed' = TRUE
  /\ UNCHANGED <<reachable, watchdogState, at, calls>>

RestartWatchdog ==
  /\ Mishap
  /\ probe' = "none"
  /\ failures' = 0
  /\ successes' = 0
  /\ failoverActive' = FALSE
  /\ at' = [t \in Threads |-> "idle"]
  /\ UNCHANGED <<reachable, running, calls, crossed>>

Works(t) == DockerStart(t) \/ DockerStop(t) \/ StartLocalJira(t) \/ StopLocalJira(t)

FailoverNext ==
  \/ MasterChanges \/ CheckMaster \/ WatchdogLoop \/ ContainersDie \/ RestartWatchdog
  \/ \E h \in Handlers, what \in {"start", "stop"} : DoPost(h, what)
  \/ \E t \in Threads : Works(t)

\* The loop goes on for ever and a command ends within its timeout.
FailoverFairness ==
  /\ WF_failoverVars(CheckMaster)
  /\ WF_failoverVars(WatchdogLoop)
  /\ \A t \in Threads : WF_failoverVars(Works(t))

FailoverSpec == FailoverInit /\ [][FailoverNext]_failoverVars /\ FailoverFairness

-----------------------------------------------------------------------------
(* Properties.                                                             *)

FailoverTypeOK ==
  /\ reachable \in BOOLEAN
  /\ probe \in {"none", "ok", "failed"}
  /\ failures \in 0..FailThreshold
  /\ successes \in 0..RecoveryThreshold
  /\ failoverActive \in BOOLEAN
  /\ running \in BOOLEAN
  /\ at \in [Threads -> {"idle", "start", "started", "stop", "stopped"}]
  /\ calls \in 0..MaxCalls
  /\ mishaps \in 0..MaxMishaps
  /\ crossed \in BOOLEAN

\* The flag that keeps the loop from starting the standby is not up without the standby
\* while no thread is at it: unless a start and a stop ran at once, the containers died, or
\* a stop that was reported as failed had stopped them.
FlagTells ==
  (~crossed /\ \A t \in Threads : at[t] = "idle") => (failoverActive => running)

\* When the master stays away, the standby ends up running, whatever commands failed before
\* and whatever the webhook said, with the exceptions of FlagTells.
TakesOver == (<>[]~reachable /\ []~crossed) => <>[]running

\* When the master is back to stay, the standby ends up stopped, whatever happened before:
\* the two do not go on working side by side.
StandsDown == <>[]reachable => <>[]~running
=============================================================================
