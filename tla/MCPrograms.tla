------------------------------ MODULE MCPrograms ------------------------------
(***************************************************************************)
(* The smaller programs of the repository, each with the instance that TLC *)
(* checks.  They share no state, so that a behaviour is of one of them:    *)
(* "focus" says which, and the others stay as they begin.                  *)
(***************************************************************************)
EXTENDS FailoverWatchdog, DeploymentScript, AdPlans, CashierFleet, TemplateEditing, DoorBot,
        FiscalMonitor, FiniteSets, TLC

CONSTANTS k1, k3, f1, f2, m1, m2, a1, a2

VARIABLE focus

MCSizeOf == k1 :> 1 @@ k3 :> 2
MCAreaOf == [b \in Blocks |-> IF b \in {f1, f2} THEN "FULL_SCREEN" ELSE "MODE32_PROMO"]
MCChoices == {<<a2, a1>>}

Foci == {"failover", "script", "plans", "fleet", "editing", "bot", "monitor"}

Init ==
  /\ focus \in Foci
  /\ FailoverInit /\ ScriptInit /\ PlansInit /\ FleetInit /\ EditingInit /\ BotInit /\ MonitorInit
  /\ focus # "script" => row = NoRow

vars == <<focus, failoverVars, scriptVars, planVars, fleetVars, editVars, botVars, monitorVars>>

Next ==
  \/ /\ focus = "failover"
     /\ FailoverNext
     /\ UNCHANGED <<focus, scriptVars, planVars, fleetVars, editVars, botVars, monitorVars>>
  \/ /\ focus = "script"
     /\ ScriptNext
     /\ UNCHANGED <<focus, failoverVars, planVars, fleetVars, editVars, botVars, monitorVars>>
  \/ /\ focus = "plans"
     /\ PlansNext
     /\ UNCHANGED <<focus, failoverVars, scriptVars, fleetVars, editVars, botVars, monitorVars>>
  \/ /\ focus = "fleet"
     /\ FleetNext
     /\ UNCHANGED <<focus, failoverVars, scriptVars, planVars, editVars, botVars, monitorVars>>
  \/ /\ focus = "editing"
     /\ EditingNext
     /\ UNCHANGED <<focus, failoverVars, scriptVars, planVars, fleetVars, botVars, monitorVars>>
  \/ /\ focus = "bot"
     /\ BotNext
     /\ UNCHANGED <<focus, failoverVars, scriptVars, planVars, fleetVars, editVars, monitorVars>>
  \/ /\ focus = "monitor"
     /\ MonitorNext
     /\ UNCHANGED <<focus, failoverVars, scriptVars, planVars, fleetVars, editVars, botVars>>

\* The fairness of the watchdog; the other programs have no liveness property.
Fairness ==
  /\ WF_failoverVars(focus = "failover" /\ CheckMaster)
  /\ WF_failoverVars(focus = "failover" /\ WatchdogLoop)
  /\ \A t \in Threads : WF_failoverVars(focus = "failover" /\ Works(t))

Spec == Init /\ [][Next]_vars /\ Fairness

\* The jobs of the fleet, and the loops and the requests that have read and not yet written.
AtWork ==
  LET beats == {p \in Apis : beat[p] # NoBeat}
      reading == {p \in Apis : schedule[p].state = "read"}
      busy == {j \in Jobs : jobs[j] # Idle}
      asked == {c \in Cashiers : probing[c] # "no"}
  IN  Cardinality(beats) + Cardinality(reading) + Cardinality(busy) + Cardinality(asked)
        + (IF window = NoWindow THEN 0 ELSE 1)

\* A region or a branch is not as at first; no loop looks at them.
Moved == regions # Regions \/ \E m, n \in Branches : branches[m] # branches[n]

\* Where the properties have exceptions for good, the states after are not looked at.
Looked == /\ focus = "script" => single
          /\ focus = "plans" => raced = {}
          /\ focus = "fleet" => AtWork <= IF Moved THEN 0 ELSE 2
=============================================================================
