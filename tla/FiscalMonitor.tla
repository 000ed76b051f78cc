---------------------------- MODULE FiscalMonitor ----------------------------
(***************************************************************************)
(* fiscal_monitor.py: operators start, stop and restart the fiscal service *)
(* of a cash desk through sc.exe, each call a process of its own, while    *)
(* the web page scans all desks.  A command only asks: the service then    *)
(* stops or starts in its own time, or fails to.                           *)
(***************************************************************************)
EXTENDS Naturals

CONSTANTS
  Desks, Operators,
  MaxCommands  \* bound on the operators' calls

ASSUME MonitorAssumption == MaxCommands \in Nat

VARIABLES
  services,   \* the state of each desk's service, its start type, and which start it is from
  online,     \* the desks that answer
  operators,  \* what each operator's process is at
  commands,   \* the calls so far
  scan,       \* the page's scan: the desks that were pinged and are still to be asked
  scanCache,  \* the page's report
  renewed     \* history: restarts reported as done, with the start before and the one after

monitorVars == <<services, online, operators, commands, scan, scanCache, renewed>>

Ready == [at |-> "ready"]

MonitorInit ==
  /\ services = [d \in Desks |-> [state |-> "running", auto |-> FALSE, from |-> 1]]
  /\ online = Desks
  /\ operators = [o \in Operators |-> Ready]
  /\ commands = 0
  /\ scan = [at |-> "idle"]
  /\ scanCache = [d \in Desks |-> "offline"]
  /\ renewed = {}

-----------------------------------------------------------------------------
(* The desk: what sc.exe asks for, and what comes of it.                   *)

\* A pending service becomes what was asked; one that starts may fail, one that runs may die.
ServiceMoves(d) ==
  /\ \/ /\ services[d].state = "stop_pending"
        /\ services' = [services EXCEPT ![d].state = "stopped"]
     \/ /\ services[d].state = "start_pending"
        /\ services' = [services EXCEPT ![d].state = "running"]
     \/ /\ services[d].state \in {"start_pending", "running"}
        /\ services' = [services EXCEPT ![d].state = "stopped"]
  /\ UNCHANGED <<online, operators, commands, scan, scanCache, renewed>>

DeskChanges(d) ==
  /\ online' = IF d \in online THEN online \ {d} ELSE online \cup {d}
  /\ UNCHANGED <<services, operators, commands, scan, scanCache, renewed>>

\* The service after "sc stop".
Stopping(s) == IF s.state = "running" THEN [s EXCEPT !.state = "stop_pending"] ELSE s

\* The code of "sc start": a service that is on its way, either way, counts as running.
StartCode(s) == IF s.state = "stopped" THEN 0 ELSE 1056
Starting(s) == IF s.state = "stopped" THEN [s EXCEPT !.state = "start_pending", !.from = @ + 1]
                 ELSE s

-----------------------------------------------------------------------------
(* control_remote_service.                                                 *)

Calls(o, d, action) ==
  /\ operators[o] = Ready
  /\ commands < MaxCommands
  /\ commands' = commands + 1
  /\ operators' = [operators EXCEPT ![o] = [at |-> action, desk |-> d, was |-> services[d].from]]
  /\ UNCHANGED <<services, online, scan, scanCache, renewed>>

\* mutant: as for a start, a service that runs already is a success.
StartsOrRuns(code) == code \in {0, 1056}

\* A restart is done only if the service has been started by it.
Restarted(code) == code = 0

Ends(o) == operators' = [operators EXCEPT ![o] = Ready]

\* A command that cannot be sent changes nothing; one that times out ends the process, and may
\* have been carried out.
Stops(o) ==
  LET d == operators[o].desk IN
  /\ operators[o].at \in {"stop", "restart"}
  /\ \/ /\ d \in online
        /\ services' = [services EXCEPT ![d] = Stopping(@)]
        /\ IF operators[o].at = "restart"
             THEN operators' = [operators EXCEPT ![o].at = "start_again"]
             ELSE Ends(o)
     \/ /\ services' \in {services, [services EXCEPT ![d] = Stopping(@)]}
        /\ Ends(o)
     \/ /\ operators[o].at = "restart"
        /\ operators' = [operators EXCEPT ![o].at = "start_again"]
        /\ UNCHANGED services
  /\ UNCHANGED <<online, commands, scan, scanCache, renewed>>

\* After a second and a half, whatever the service has made of the stop.
Starts(o) ==
  LET d == operators[o].desk IN
  /\ operators[o].at \in {"start", "start_again"}
  /\ \/ /\ d \in online
        /\ services' = [services EXCEPT ![d] = Starting(@)]
        /\ renewed' = IF operators[o].at = "start_again" /\ Restarted(StartCode(services[d]))
                        THEN renewed \cup {<<operators[o].was, services'[d].from>>} ELSE renewed
     \/ /\ services' \in {services, [services EXCEPT ![d] = Starting(@)]}
        /\ UNCHANGED renewed
  /\ Ends(o)
  /\ UNCHANGED <<online, commands, scan, scanCache>>

\* "sc config ... start= auto"
Configures(o) ==
  /\ operators[o].at = "auto"
  /\ services' \in {services, [services EXCEPT ![operators[o].desk].auto = TRUE]}
  /\ Ends(o)
  /\ UNCHANGED <<online, commands, scan, scanCache, renewed>>

-----------------------------------------------------------------------------
(* The scan: all desks are pinged, those that answer are asked.            *)

TriggerRescan ==
  /\ scan.at = "idle"
  /\ scan' = [at |-> "asking", asked |-> online, found |-> [d \in {} |-> ""]]
  /\ UNCHANGED <<services, online, operators, commands, scanCache, renewed>>

\* What the query of a desk reports: the state, that it timed out, or, for any error but a
\* refusal, that the service is not installed.
ServiceDetails(d) ==
  IF d \in online THEN {services[d].state, "timeout"} ELSE {"not installed", "timeout"}

InspectCashDesk(d) ==
  /\ scan.at = "asking"
  /\ d \in scan.asked \ DOMAIN scan.found
  /\ \E status \in ServiceDetails(d) \cup (IF d \in online THEN {} ELSE {"offline"}) :
       scan' = [scan EXCEPT !.found = [e \in DOMAIN @ \cup {d} |-> IF e = d THEN status ELSE @[e]]]
  /\ UNCHANGED <<services, online, operators, commands, scanCache, renewed>>

ScanNetwork ==
  /\ scan.at = "asking"
  /\ scan.asked = DOMAIN scan.found
  /\ scanCache' = [d \in Desks |-> IF d \in scan.asked THEN scan.found[d] ELSE "offline"]
  /\ scan' = [at |-> "idle"]
  /\ UNCHANGED <<services, online, operators, commands, renewed>>

MonitorNext ==
  \/ \E d \in Desks : ServiceMoves(d) \/ DeskChanges(d) \/ InspectCashDesk(d)
  \/ \E o \in Operators, d \in Desks, action \in {"start", "stop", "restart", "auto"} :
       Calls(o, d, action)
  \/ \E o \in Operators : Stops(o) \/ Starts(o) \/ Configures(o)
  \/ TriggerRescan \/ ScanNetwork

MonitorSpec == MonitorInit /\ [][MonitorNext]_monitorVars

-----------------------------------------------------------------------------
(* Properties.                                                             *)

\* A restart that is reported as done has left a service of a later start than the one there
\* was when it was called, also when others start or stop the service in between.
RestartsRenew == \A r \in renewed : r[2] > r[1]
=============================================================================
