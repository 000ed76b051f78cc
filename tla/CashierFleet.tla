----------------------------- MODULE CashierFleet -----------------------------
(***************************************************************************)
(* The rows of regions, branches and cashiers, and everybody who writes a  *)
(* cashier's row: the editors (api/v1/topology.py), the heartbeat and the  *)
(* watchdog of schedules of each API process, the maintenance window, and  *)
(* the worker's report of a publication.  Each reads the row, waits for a  *)
(* cashier, and writes what it has decided, or finds that the row is gone. *)
(* A publication is a job that modules Publication and SceneUpdate have in *)
(* detail.                                                                 *)
(***************************************************************************)
EXTENDS Naturals

CONSTANTS
  Cashiers, Branches, Regions, Blocks,
  AreaOf,     \* the display area of each template
  Jobs,       \* the slots for publications
  Apis,       \* the processes of the API, each with a heartbeat and a watchdog of schedules
  NoBlock,    \* no template, no branch, no region
  MaxTurns    \* bound on the changes from outside

ASSUME FleetAssumption ==
  /\ AreaOf \in [Blocks -> {"FULL_SCREEN", "MODE32_PROMO"}]
  /\ \A a \in {"FULL_SCREEN", "MODE32_PROMO"} : \E b \in Blocks : AreaOf[b] = a
  /\ NoBlock \notin Blocks \cup Branches \cup Regions
  /\ Branches # {} /\ Regions # {}
  /\ MaxTurns \in Nat

VARIABLES
  regions,   \* the regions there are
  branches,  \* each branch's region
  windows,   \* the branches with a maintenance window
  cashiers,  \* the cashiers' rows
  templates, \* the templates there are
  scenes,    \* the template each area of each cashier's database shows
  waiting,   \* the cashiers whose front shows an older one until it is reloaded
  probing,   \* the status an editor's request has read before it asks the cashier
  beat,      \* the statuses each heartbeat has read, and whether one of the rows is gone
  window,    \* the cashiers the maintenance cycle goes through, and whether a row is gone
  schedule,  \* what each watchdog of schedules has read: default and current templates
  jobs,      \* the publications under way
  turns,     \* changes from outside so far
  voided,    \* history: cashiers whose row was written by one that had read it too early,
             \* asked by hand, or failed to publish, since they wait
  unserved   \* history: the areas of cashiers whose last publication failed, met another one
             \* or was not sent, whose template was deleted, or which showed a template
             \* already when their row was created (a row that was deleted and is back)

loops == <<probing, beat, window, schedule>>
topology == <<regions, branches, windows>>
fleetVars == <<topology, cashiers, templates, scenes, waiting, loops,
               jobs, turns, voided, unserved>>

Areas == {"FULL_SCREEN", "MODE32_PROMO"}
NoRowYet == [branch |-> NoBlock, enabled |-> FALSE, status |-> "UNKNOWN",
             current |-> [a \in Areas |-> NoBlock]]
Idle == [state |-> "idle"]
NoBeat == [read |-> [c \in {} |-> "no"], gone |-> FALSE]
NoWindow == [due |-> {}, gone |-> FALSE]
Known(c) == cashiers[c].branch # NoBlock
Enabled(c) == Known(c) /\ cashiers[c].enabled
\* One template of each area is the default (module TemplateEditing has how).
DefaultOf(a) == CHOOSE b \in Blocks : AreaOf[b] = a

\* A fleet in use: every branch in one region, every cashier in one branch, where it shows
\* the default of each area.
FleetInit ==
  /\ regions = Regions
  /\ branches = [n \in Branches |-> CHOOSE r \in Regions : TRUE]
  /\ windows = Branches
  /\ cashiers = [c \in Cashiers |->
       [branch |-> CHOOSE n \in Branches : TRUE, enabled |-> TRUE, status |-> "UNKNOWN",
        current |-> [a \in Areas |-> DefaultOf(a)]]]
  /\ scenes = [c \in Cashiers |-> [a \in Areas |-> DefaultOf(a)]]
  /\ templates = Blocks
  /\ waiting = {}
  /\ probing = [c \in Cashiers |-> "no"]
  /\ beat = [p \in Apis |-> NoBeat]
  /\ window = NoWindow
  /\ schedule = [p \in Apis |-> Idle]
  /\ jobs = [j \in Jobs |-> Idle]
  /\ turns = 0
  /\ voided = {}
  /\ unserved = {}

Changes == turns < MaxTurns /\ turns' = turns + 1

-----------------------------------------------------------------------------
(* A front that is started anew shows what the database says.              *)

FrontStarts(c) ==
  /\ c \in waiting
  /\ waiting' = waiting \ {c}
  /\ UNCHANGED <<topology, cashiers, templates, scenes, loops, jobs, turns, voided,
                 unserved>>

-----------------------------------------------------------------------------
(* The editors.                                                            *)

EditsRow == /\ Changes
            /\ UNCHANGED <<scenes, waiting, beat, window, schedule, jobs>>

CreateRegion(r) ==
  /\ EditsRow
  /\ r \notin regions
  /\ regions' = regions \cup {r}
  /\ UNCHANGED <<branches, windows, cashiers, templates, probing, voided, unserved>>

DeleteRegion(r) ==
  /\ EditsRow
  /\ r \in regions
  /\ \A n \in Branches : branches[n] # r
  /\ regions' = regions \ {r}
  /\ UNCHANGED <<branches, windows, cashiers, templates, probing, voided, unserved>>

\* The window comes with a commit of its own.
CreateBranch(n, r) ==
  /\ EditsRow
  /\ branches[n] = NoBlock /\ r \in regions
  /\ branches' = [branches EXCEPT ![n] = r]
  /\ windows' \in {windows, windows \cup {n}}
  /\ UNCHANGED <<regions, cashiers, templates, probing, voided, unserved>>

UpdateBranch(n, r) ==
  /\ EditsRow
  /\ branches[n] \notin {NoBlock, r} /\ r \in regions
  /\ branches' = [branches EXCEPT ![n] = r]
  /\ UNCHANGED <<regions, windows, cashiers, templates, probing, voided, unserved>>

DeleteBranch(n) ==
  /\ EditsRow
  /\ branches[n] # NoBlock
  /\ \A c \in Cashiers : cashiers[c].branch # n
  /\ branches' = [branches EXCEPT ![n] = NoBlock]
  /\ windows' = windows \ {n}
  /\ UNCHANGED <<regions, cashiers, templates, probing, voided, unserved>>

CreateCashier(c, n) ==
  /\ EditsRow
  /\ ~Known(c) /\ branches[n] # NoBlock
  /\ cashiers' = [cashiers EXCEPT ![c] = [NoRowYet EXCEPT !.branch = n, !.enabled = TRUE]]
  /\ probing' = [probing EXCEPT ![c] = "UNKNOWN"]
  /\ voided' = voided \cup {c}
  /\ unserved' = unserved \cup ({c} \X {a \in Areas : scenes[c][a] # NoBlock})
  /\ UNCHANGED <<topology, templates>>

\* Without a new address.
UpdateCashier(c, n, enabled) ==
  /\ EditsRow
  /\ Known(c) /\ branches[n] # NoBlock
  /\ cashiers' = [cashiers EXCEPT ![c].branch = n, ![c].enabled = enabled]
  /\ UNCHANGED <<topology, templates, probing, voided, unserved>>

\* A new address is tried at once; so is a cashier whose connection is tested.
AsksCashier(c) ==
  /\ EditsRow
  /\ Known(c) /\ probing[c] = "no"
  /\ probing' = [probing EXCEPT ![c] = cashiers[c].status]
  /\ UNCHANGED <<topology, cashiers, templates, voided, unserved>>

Publishing(c) == {k \in Jobs : jobs[k] # Idle /\ jobs[k].cashier = c}
Without(f, c) == [d \in DOMAIN f \ {c} |-> f[d]]

\* The jobs' rows go with the cashier's (ON DELETE CASCADE); those who have read the row
\* have one that is gone.  What the cashier shows stays.
DeleteCashier(c) ==
  /\ Changes
  /\ Known(c)
  /\ cashiers' = [cashiers EXCEPT ![c] = NoRowYet]
  /\ probing' = [probing EXCEPT ![c] = "no"]
  /\ beat' = [p \in Apis |-> IF c \in DOMAIN beat[p].read
                 THEN [read |-> Without(beat[p].read, c), gone |-> TRUE] ELSE beat[p]]
  /\ window' = IF c \in window.due THEN [due |-> window.due \ {c}, gone |-> TRUE] ELSE window
  /\ schedule' = [p \in Apis |-> IF schedule[p].state = "read"
                     THEN [schedule[p] EXCEPT !.current = Without(schedule[p].current, c)]
                     ELSE schedule[p]]
  /\ jobs' = [k \in Jobs |-> IF k \in Publishing(c)
                 THEN [jobs[k] EXCEPT !.row = FALSE, !.alone = FALSE] ELSE jobs[k]]
  /\ UNCHANGED <<topology, templates, scenes, waiting, voided, unserved>>

\* The template goes and with it what the rows say of it; the cashiers' screens stay.
DeleteTemplate(b) ==
  LET showing == {c \in Cashiers : cashiers[c].current[AreaOf[b]] = b} IN
  /\ EditsRow
  /\ b \in templates
  /\ templates' = templates \ {b}
  /\ cashiers' = [c \in Cashiers |-> IF c \in showing
                    THEN [cashiers[c] EXCEPT !.current[AreaOf[b]] = NoBlock] ELSE cashiers[c]]
  /\ unserved' = unserved \cup (showing \X {AreaOf[b]})
  /\ UNCHANGED <<topology, probing, voided>>

\* What a writer commits is a value that differs from the one it has read.
Sets(c, read, status) ==
  [cashiers[c] EXCEPT !.status = IF status = read THEN cashiers[c].status ELSE status]

\* The answer to an editor's request, which commits what else the request asks for.
FinishProbe(c, n, enabled) ==
  /\ Known(c) /\ probing[c] # "no"
  /\ branches[n] # NoBlock
  /\ \E status \in {"OFFLINE", "SUCCESS"} :
       cashiers' = [cashiers EXCEPT ![c] = [Sets(c, probing[c], status) EXCEPT
                                              !.branch = n, !.enabled = enabled]]
  /\ probing' = [probing EXCEPT ![c] = "no"]
  /\ voided' = voided \cup {c}
  /\ UNCHANGED <<topology, templates, scenes, waiting, beat, window, schedule, jobs,
                 turns, unserved>>

-----------------------------------------------------------------------------
(* The heartbeat.                                                          *)

\* mutant: every answer counts.
ProbeAll(status, online) == IF online THEN "SUCCESS" ELSE "OFFLINE"

ProbeAndUpdate(status, online) ==
  CASE online /\ status \in {"OFFLINE", "UNKNOWN"} -> "SUCCESS"
    [] ~online /\ status \in {"SUCCESS", "UNKNOWN"} -> "OFFLINE"
    [] OTHER -> status

BeatReads(p) ==
  /\ beat[p] = NoBeat
  /\ beat' = [beat EXCEPT ![p].read =
                [c \in {d \in Cashiers : Enabled(d)} |-> cashiers[c].status]]
  /\ UNCHANGED <<topology, cashiers, templates, scenes, waiting, probing, window,
                 schedule, jobs, turns, voided, unserved>>

\* The cycle commits the rows together: if it has to write one that is gone, none is written.
BeatWrites(p) ==
  LET read == beat[p].read IN
  /\ beat[p] # NoBeat
  /\ \/ /\ \E online \in SUBSET DOMAIN read :
             cashiers' = [c \in Cashiers |-> IF c \in DOMAIN read
                            THEN Sets(c, read[c], ProbeAndUpdate(read[c], c \in online))
                            ELSE cashiers[c]]
        /\ voided' = voided \cup {c \in DOMAIN read : read[c] # cashiers[c].status}
     \/ beat[p].gone /\ UNCHANGED <<cashiers, voided>>
  /\ beat' = [beat EXCEPT ![p] = NoBeat]
  /\ UNCHANGED <<topology, templates, scenes, waiting, probing, window, schedule,
                 jobs, turns, unserved>>

-----------------------------------------------------------------------------
(* The maintenance window.                                                 *)

\* Those whose branch's window is open.
WindowReads ==
  /\ window = NoWindow
  /\ \E due \in SUBSET {c \in Cashiers : /\ Enabled(c) /\ cashiers[c].branch \in windows
                                          /\ cashiers[c].status = "PUBLISHED_AWAITING_RESTART"} :
       window' = [due |-> due, gone |-> FALSE]
  /\ UNCHANGED <<topology, cashiers, templates, scenes, waiting, probing, beat,
                 schedule, jobs, turns, voided, unserved>>

\* Whatever becomes of the reload, the adapter says that it succeeded; one commit.
WindowWrites ==
  /\ window # NoWindow
  /\ \E reloaded \in SUBSET window.due :
       /\ waiting' = waiting \ reloaded
       /\ \/ /\ voided' = voided \cup (window.due \ reloaded)
             /\ cashiers' = [c \in Cashiers |-> IF c \in window.due
                               THEN [cashiers[c] EXCEPT !.status = "SUCCESS"] ELSE cashiers[c]]
          \/ window.gone /\ UNCHANGED <<cashiers, voided>>
  /\ window' = NoWindow
  /\ UNCHANGED <<topology, templates, scenes, probing, beat, schedule, jobs, turns,
                 unserved>>

-----------------------------------------------------------------------------
(* Publications.                                                           *)

\* "row" says that the job's row is there.  "alone" is history: no other publication to the
\* cashier has been under way meanwhile.
Enqueue(j, c, b) ==
  /\ jobs[j] = Idle
  /\ jobs' = [k \in Jobs |->
       IF k = j THEN [state |-> "queued", cashier |-> c, block |-> b, outcome |-> "none",
                      row |-> TRUE, alone |-> Publishing(c) = {}]
         ELSE IF k \in Publishing(c) THEN [jobs[k] EXCEPT !.alone = FALSE] ELSE jobs[k]]

Publish(j, c, b) ==
  /\ Changes
  /\ Enabled(c) /\ b \in templates
  /\ Enqueue(j, c, b)
  /\ UNCHANGED <<topology, cashiers, templates, scenes, waiting, loops, voided,
                 unserved>>

\* The worker writes the scene and has the front reload it, or one of the two fails.
Work(j) ==
  LET c == jobs[j].cashier IN
  /\ jobs[j].state = "queued"
  /\ \E outcome \in {"SUCCESS", "PUBLISHED_AWAITING_RESTART", "FAILED", "OFFLINE"} :
       LET written == outcome \in {"SUCCESS", "PUBLISHED_AWAITING_RESTART"} IN
       /\ written => jobs[j].block \in templates
       /\ jobs' = [jobs EXCEPT ![j].state = "worked", ![j].outcome = outcome]
       /\ scenes' = IF written THEN [scenes EXCEPT ![c][AreaOf[jobs[j].block]] = jobs[j].block]
                     ELSE scenes
       /\ waiting' = CASE outcome = "SUCCESS" -> waiting \ {c}
                       [] outcome = "PUBLISHED_AWAITING_RESTART" -> waiting \cup {c}
                       [] OTHER -> waiting
  /\ UNCHANGED <<topology, cashiers, templates, loops, turns, voided,
                 unserved>>

\* Phase 1 finds no job: the cashier was deleted before.
Drops(j) ==
  /\ jobs[j].state = "queued" /\ ~jobs[j].row
  /\ jobs' = [jobs EXCEPT ![j] = Idle]
  /\ UNCHANGED <<topology, cashiers, templates, scenes, waiting, loops, turns, voided,
                 unserved>>

\* mutant: a scene that waits for a restart is not recorded.
RecordsSuccess(outcome) == outcome = "SUCCESS"

Records(outcome) == outcome \in {"SUCCESS", "PUBLISHED_AWAITING_RESTART"}

\* Phase 3; a template deleted in the meantime fails the commit, and of a cashier that was
\* deleted there is nothing to write.
Reports(j) ==
  LET c == jobs[j].cashier
      area == AreaOf[jobs[j].block]
      shown == jobs[j].outcome \notin {"FAILED", "OFFLINE"}
      alone == jobs[j].alone IN
  /\ jobs[j].state = "worked"
  /\ jobs' = [jobs EXCEPT ![j] = Idle]
  /\ \/ /\ jobs[j].row
        /\ Records(jobs[j].outcome) => jobs[j].block \in templates
        /\ cashiers' = [cashiers EXCEPT ![c].status = jobs[j].outcome,
             ![c].current[area] = IF Records(jobs[j].outcome) THEN jobs[j].block
                                    ELSE cashiers[c].current[area]]
        /\ voided' = IF jobs[j].outcome = "PUBLISHED_AWAITING_RESTART" /\ alone
                       THEN voided \ {c} ELSE voided \cup {c}
        /\ unserved' = IF shown /\ alone THEN unserved \ {<<c, area>>}
                         ELSE unserved \cup {<<c, area>>}
     \/ /\ ~jobs[j].row \/ (Records(jobs[j].outcome) /\ jobs[j].block \notin templates)
        /\ voided' = voided \cup {c}
        /\ unserved' = unserved \cup {<<c, area>>}
        /\ UNCHANGED cashiers
  /\ UNCHANGED <<topology, templates, scenes, waiting, loops, turns>>

-----------------------------------------------------------------------------
(* The watchdog of schedules.                                              *)

ScheduleReads(p) ==
  /\ schedule[p].state = "idle"
  /\ schedule' = [schedule EXCEPT ![p] = [state |-> "read",
       default |-> [a \in Areas |-> IF DefaultOf(a) \in templates THEN DefaultOf(a) ELSE NoBlock],
       current |-> [c \in {e \in Cashiers : Enabled(e)} |-> cashiers[c].current]]]
  /\ UNCHANGED <<topology, cashiers, templates, scenes, waiting, probing,
                 beat, window, jobs, turns, voided, unserved>>

\* The areas whose template, if its time is over, gives way to the default.
Replaceable(seen, c) == {a \in Areas :
  /\ seen.current[c][a] \in templates
  /\ seen.default[a] \notin {NoBlock, seen.current[c][a]}}

\* The row names the defaults before they are delivered.
Reverts(seen, c, over) == cashiers' = [cashiers EXCEPT ![c].current =
  [a \in Areas |-> IF a \in over THEN seen.default[a] ELSE cashiers[c].current[a]]]

\* One publication for both areas.
PublishedArea(over) == IF "FULL_SCREEN" \in over THEN "FULL_SCREEN" ELSE "MODE32_PROMO"

\* One cashier of the cycle, the time of whose templates "over" has run out: it is published
\* to, or that fails and is only logged.  An error, as the commit for a row that is gone, ends
\* the cycle: nothing is done for the cashiers left.
ScheduleWrites(p, c) ==
  LET seen == schedule[p] IN
  /\ seen.state = "read"
  /\ c \in DOMAIN seen.current
  /\ \/ UNCHANGED <<cashiers, jobs, unserved>>
     \/ \E over \in (SUBSET Replaceable(seen, c)) \ {{}} :
          /\ \A a \in over : seen.default[a] \in templates
          /\ Reverts(seen, c, over)
          /\ \/ /\ \E j \in Jobs : Enqueue(j, c, seen.default[PublishedArea(over)])
                /\ unserved' = unserved \cup ({c} \X (over \ {PublishedArea(over)}))
             \/ /\ unserved' = unserved \cup ({c} \X over)
                /\ UNCHANGED jobs
  /\ schedule' = [schedule EXCEPT ![p] =
       IF DOMAIN seen.current = {c} THEN Idle
         ELSE [seen EXCEPT !.current = Without(seen.current, c)]]
  /\ UNCHANGED <<topology, templates, scenes, waiting, probing, beat, window, turns, voided>>

ScheduleEnds(p) ==
  /\ schedule[p].state = "read"
  /\ DOMAIN schedule[p].current = {}
  /\ schedule' = [schedule EXCEPT ![p] = Idle]
  /\ UNCHANGED <<topology, cashiers, templates, scenes, waiting, probing, beat, window,
                 jobs, turns, voided, unserved>>

FleetNext ==
  \/ \E r \in Regions : CreateRegion(r) \/ DeleteRegion(r)
  \/ \E n \in Branches, r \in Regions : CreateBranch(n, r) \/ UpdateBranch(n, r)
  \/ \E n \in Branches : DeleteBranch(n)
  \/ \E c \in Cashiers, n \in Branches : CreateCashier(c, n)
  \/ \E c \in Cashiers, n \in Branches, enabled \in BOOLEAN :
       UpdateCashier(c, n, enabled) \/ FinishProbe(c, n, enabled)
  \/ \E c \in Cashiers : AsksCashier(c) \/ DeleteCashier(c) \/ FrontStarts(c)
  \/ \E b \in Blocks : DeleteTemplate(b)
  \/ \E p \in Apis : \/ BeatReads(p) \/ BeatWrites(p) \/ ScheduleReads(p) \/ ScheduleEnds(p)
                     \/ \E c \in Cashiers : ScheduleWrites(p, c)
  \/ WindowReads \/ WindowWrites
  \/ \E j \in Jobs, c \in Cashiers, b \in Blocks : Publish(j, c, b)
  \/ \E j \in Jobs : Work(j) \/ Drops(j) \/ Reports(j)

FleetSpec == FleetInit /\ [][FleetNext]_fleetVars

-----------------------------------------------------------------------------
(* Properties.                                                             *)

UnderPublication == {jobs[j].cashier : j \in {k \in Jobs : jobs[k] # Idle}}

\* A cashier whose front waits for its restart says so, so that the maintenance window finds
\* it, unless its row has been written by a writer that had read it too early, an editor's
\* request, a later publication, or a maintenance cycle whose reload had failed.
RestartIsKept ==
  \A c \in waiting \ (voided \cup UnderPublication) :
    Known(c) => cashiers[c].status = "PUBLISHED_AWAITING_RESTART"

\* The row names the template that each area of the cashier's database shows, unless a
\* publication is under way, has failed or was not sent, the template was deleted, or the row
\* was deleted and created anew: also after a watchdog has put the default there before it is
\* delivered, and after the cashier was deleted under a publication.
RowTellsScene ==
  \A c \in Cashiers \ UnderPublication, a \in Areas :
    Known(c) /\ <<c, a>> \notin unserved => cashiers[c].current[a] = scenes[c][a]

\* What the rows of the fleet say is so: of restarts that are due, and of what is shown.
RowsHold == RestartIsKept /\ RowTellsScene
=============================================================================
