---------------------------- MODULE BranchQuota ----------------------------
(***************************************************************************)
(* What a limiter of SSH connections promises, without semaphores, tokens  *)
(* or processes: at most GlobalMax executions are connected at a time, and *)
(* at most PerBranch of them to the cashiers of one branch.                *)
(***************************************************************************)
EXTENDS Naturals, FiniteSets

CONSTANTS Executions, BranchOf, GlobalMax, PerBranch

VARIABLE connected   \* the executions that are connected to their cashier

Neighbours(e) == {f \in connected : BranchOf[f] = BranchOf[e]}

Init == connected = {}

Connect(e) ==
  /\ e \notin connected
  /\ Cardinality(connected) < GlobalMax
  /\ Cardinality(Neighbours(e)) < PerBranch
  /\ connected' = connected \cup {e}

Disconnect(e) ==
  /\ e \in connected
  /\ connected' = connected \ {e}

Next == \E e \in Executions : Connect(e) \/ Disconnect(e)

Spec == Init /\ [][Next]_connected
=============================================================================
