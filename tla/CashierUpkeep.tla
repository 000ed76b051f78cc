---------------------------- MODULE CashierUpkeep ----------------------------
(***************************************************************************)
(* The scripts by which an operator looks after GuestScreen at a cashier:  *)
(* check_and_fix_all_guestscreen.py, full_network_fix_and_audit.py,        *)
(* install_dotnet8_and_fix_all.py, update_all_guestscreen.py and           *)
(* remediate_guestscreen.py.  Each serves a cashier in a thread of its     *)
(* own; runs of several may overlap, and the control center publishes      *)
(* meanwhile.  Three of them edit the cashier's gs.db on a copy, at one    *)
(* path of the operator's machine, and write the whole copy back.          *)
(*                                                                         *)
(* A remote command may end without being carried out: no script looks at  *)
(* the exit codes.                                                         *)
(***************************************************************************)
EXTENDS Naturals

CONSTANTS
  Visits,     \* the threads that come to this cashier
  NoFile, Blank, Torn,
  MaxScenes,  \* bound on the publications
  MaxLapses   \* bound on commands that are not carried out, and threads that are cut off

ASSUME UpkeepAssumption ==
  /\ NoFile \notin Nat /\ Blank \notin Nat /\ Torn \notin Nat
  /\ MaxScenes \in Nat /\ MaxLapses \in Nat

VARIABLES
  loggedOn,             \* the cashier's user has a desktop
  apps,                 \* the processes: <<program, session>>
  version, runtime,     \* of GuestScreen and .NET on the cashier's disk
  setups,               \* installers that run
  gsdb, published,      \* the scene in gs.db, and as last published
  temp,                 \* the operator's gs_fix_<ip>.db
  visits,               \* what each thread is at
  lapses,
  spoilt,               \* history: something from which the scripts do not protect gs.db
  left,                 \* history: the copy is known to have been left behind
  excused               \* history: something from which they do not protect the desktop

upkeepVars == <<loggedOn, apps, version, runtime, setups, gsdb, published, temp, visits,
                lapses, spoilt, left, excused>>
cashierVars == <<loggedOn, apps, version, runtime, setups, gsdb, published>>

Scripts == {"fix", "audit", "rollout", "update", "remediate"}
Programs == {"GuestScreen", "Watcher"}
Desk(program) == <<program, "desk">>
Hidden(program) == <<program, "hidden">>
AtDesk == {p \in Programs : Desk(p) \in apps}

Away == [at |-> "away"]

UpkeepInit ==
  /\ loggedOn \in BOOLEAN
  /\ apps \in {{}, {Desk(p) : p \in Programs}} /\ (apps # {} => loggedOn)
  /\ version \in {"old", "new"} /\ runtime \in BOOLEAN
  /\ setups = {}
  /\ gsdb = 0 /\ published = 0
  /\ temp = NoFile
  /\ visits = [v \in Visits |-> Away]
  /\ lapses = 0
  /\ spoilt = FALSE /\ left = FALSE /\ excused = FALSE

IsAt(v, at) == visits[v].at = at
Proceeds(v, at) == visits' = [visits EXCEPT ![v].at = at]
Carried == UNCHANGED <<lapses, excused>>
Lapses == lapses < MaxLapses /\ lapses' = lapses + 1

\* From the copy of gs.db to the end of the removal of the copy.
CopySteps == {"copied", "edits", "edited", "removes"}
InCopy(v) == visits[v].at \in CopySteps

-----------------------------------------------------------------------------
(* The cashier and the control center, as the scripts meet them.           *)

\* A publication writes its scene into gs.db.
PublishesScene ==
  /\ published < MaxScenes
  /\ published' = published + 1
  /\ gsdb' = published + 1
  /\ spoilt' = (spoilt \/ left \/ \E v \in Visits : InCopy(v))
  /\ UNCHANGED <<loggedOn, apps, version, runtime, setups, temp, visits, lapses, left, excused>>

\* At a logon the shortcuts in Startup start both programs, where a script has put them there.
LogsOn ==
  /\ ~loggedOn
  /\ loggedOn' = TRUE
  /\ apps' \in {apps, apps \cup {Desk(p) : p \in Programs}}
  /\ excused' = TRUE
  /\ UNCHANGED <<version, runtime, setups, gsdb, published, temp, visits, lapses, spoilt, left>>

\* GuestScreen may end by itself; a Watcher of its session starts it again.
ScreenEnds(session) ==
  /\ apps' = apps \ {<<"GuestScreen", session>>}
  /\ UNCHANGED <<loggedOn, version, runtime, setups, gsdb, published, temp, visits, lapses,
                 spoilt, left, excused>>

WatcherStarts(session) ==
  /\ <<"Watcher", session>> \in apps
  /\ apps' = apps \cup {<<"GuestScreen", session>>}
  /\ UNCHANGED <<loggedOn, version, runtime, setups, gsdb, published, temp, visits, lapses,
                 spoilt, left, excused>>

SetupEnds(setup) ==
  /\ setup \in setups
  /\ setups' = setups \ {setup}
  /\ runtime' \in IF setup = "runtime" THEN {runtime, TRUE} ELSE {runtime}
  /\ version' \in IF setup = "screen" THEN {version, "new"} ELSE {version}
  /\ UNCHANGED <<loggedOn, apps, gsdb, published, temp, visits, lapses, spoilt, left, excused>>

\* What is left after one listing is terminated in any order: a Watcher that comes later in the
\* list than its GuestScreen may have started it again.
AfterKill == SUBSET {<<"GuestScreen", s>> : s \in {t \in {"desk", "hidden"} :
                                                     <<"Watcher", t>> \in apps}}

-----------------------------------------------------------------------------
(* Steps that the scripts share.                                           *)

\* A thread is started for a cashier that answers.
Comes(v, script) ==
  /\ visits[v] = Away
  /\ visits' = [visits EXCEPT ![v] = [script |-> script, at |-> "inspects", needs |-> FALSE,
                                         seen |-> {}]]
  /\ excused' = (excused \/ script = "update")
  /\ UNCHANGED <<cashierVars, temp, lapses, spoilt, left>>

\* The cashier has a folder UCS\GuestScreen; where there is none, the scripts end here.
Inspects(v, needs, needed, otherwise) ==
  /\ IsAt(v, "inspects")
  /\ visits' = [visits EXCEPT ![v].at = IF needs THEN needed ELSE otherwise, ![v].needs = needs]
  /\ UNCHANGED <<cashierVars, temp, lapses, spoilt, left, excused>>

StopsApps(v) ==
  /\ IsAt(v, "stops")
  /\ \/ apps' \in AfterKill /\ Carried
     \/ apps' = apps /\ Lapses /\ excused' = TRUE
  /\ Proceeds(v, "installs")
  /\ UNCHANGED <<loggedOn, version, runtime, setups, gsdb, published, temp, spoilt, left>>

\* The installers are started, and waited for by the clock only.
Installs(v, new, next) ==
  /\ IsAt(v, "installs")
  /\ \/ setups' = setups \cup new /\ UNCHANGED lapses
     \/ setups' = setups /\ Lapses
  /\ Proceeds(v, next)
  /\ UNCHANGED <<loggedOn, apps, version, runtime, gsdb, published, temp, spoilt, left, excused>>

\* Copy-Item gs.db to the copy.  Its exit code is not looked at; a timeout raises.
CopiesScene(v) ==
  /\ IsAt(v, "copies")
  /\ \/ temp' = gsdb /\ Proceeds(v, "copied") /\ UNCHANGED <<lapses, left>>
     \/ temp' = temp /\ Proceeds(v, "copied") /\ Lapses /\ UNCHANGED left
     \/ temp' \in {temp, gsdb, Torn} /\ Proceeds(v, "looks") /\ Lapses /\ left' = (temp' # NoFile)
  /\ UNCHANGED <<cashierVars, spoilt, excused>>

\* os.path.exists(temp_db).
FindsCopy(v) ==
  /\ IsAt(v, "copied")
  /\ Proceeds(v, IF temp = NoFile THEN "looks" ELSE "edits")
  /\ UNCHANGED <<cashierVars, temp, lapses, spoilt, left, excused>>

\* sqlite3 makes an empty file where another thread has removed the copy, and finds no table there;
\* in a part of a copy it may.
EditsCopy(v) ==
  /\ IsAt(v, "edits")
  /\ temp' = IF temp = NoFile THEN Blank ELSE temp
  /\ \/ temp' # Blank /\ Proceeds(v, "edited") /\ UNCHANGED left
     \/ temp' \in {Blank, Torn} /\ Proceeds(v, "looks") /\ left' = TRUE
  /\ UNCHANGED <<cashierVars, lapses, spoilt, excused>>

\* Copy-Item of the copy to gs.db: likewise.
CopiesBack(v) ==
  /\ IsAt(v, "edited")
  /\ \/ /\ temp # NoFile /\ gsdb' = temp /\ Proceeds(v, "removes")
        /\ spoilt' = (spoilt \/ temp \in {Blank, Torn})
        /\ UNCHANGED <<lapses, left>>
     \/ gsdb' = gsdb /\ Proceeds(v, "removes") /\ Lapses /\ UNCHANGED <<left, spoilt>>
     \/ gsdb' \in {gsdb, Torn} /\ Proceeds(v, "looks") /\ Lapses
        /\ left' = (temp # NoFile) /\ spoilt' = TRUE
  /\ UNCHANGED <<loggedOn, apps, version, runtime, setups, published, temp, excused>>

\* mutant: the copy stays where it is.
KeepsCopy(v) ==
  /\ IsAt(v, "removes")
  /\ Proceeds(v, "looks")
  /\ UNCHANGED <<cashierVars, temp, left, lapses, spoilt, excused>>

\* os.remove(temp_db); an error is passed over.
RemovesCopy(v) ==
  /\ IsAt(v, "removes")
  /\ Proceeds(v, "looks")
  /\ \/ temp' = NoFile /\ left' = FALSE /\ UNCHANGED lapses
     \/ temp' = temp /\ left' = (temp # NoFile) /\ Lapses
  /\ UNCHANGED <<cashierVars, spoilt, excused>>

FixesSettings(v) ==
  CopiesScene(v) \/ FindsCopy(v) \/ EditsCopy(v) \/ CopiesBack(v) \/ RemovesCopy(v)

\* Are both programs in a session of a user?  A command that fails says nothing: no restart.
Looks(v, always) ==
  /\ IsAt(v, "looks")
  /\ \/ Proceeds(v, IF always \/ AtDesk # Programs THEN "kills" ELSE "away") /\ Carried
     \/ Proceeds(v, IF always THEN "kills" ELSE "away") /\ Lapses /\ excused' = TRUE
  /\ UNCHANGED <<cashierVars, temp, spoilt, left>>

Kills(v) ==
  /\ IsAt(v, "kills")
  /\ \/ apps' \in AfterKill /\ Carried
     \/ apps' = apps /\ Lapses /\ excused' = TRUE
  /\ Proceeds(v, "screen")
  /\ UNCHANGED <<loggedOn, version, runtime, setups, gsdb, published, temp, spoilt, left>>

\* Through WMI: in the session of no user.
StartsHidden(program) == apps \cup {Hidden(program)}

\* A task with an InteractiveToken runs if the user is logged on.
StartedAtDesk(program) == IF loggedOn THEN apps \cup {Desk(program)} ELSE apps

StartsAtDesk(v, at, program, next) ==
  /\ IsAt(v, at)
  /\ \/ apps' = StartedAtDesk(program) /\ Carried
     \/ apps' = apps /\ Lapses /\ excused' = TRUE
  /\ Proceeds(v, next)
  /\ UNCHANGED <<loggedOn, version, runtime, setups, gsdb, published, temp, spoilt, left>>

\* "GuestScreen_UI", then "Watcher_UI".
RestartsAtDesk(v) ==
  \/ Kills(v)
  \/ StartsAtDesk(v, "screen", "GuestScreen", "watcher")
  \/ StartsAtDesk(v, "watcher", "Watcher", "away")

-----------------------------------------------------------------------------
(* The scripts.                                                            *)

Serves(v, script) == visits[v] # Away /\ visits[v].at # "away" /\ visits[v].script = script

CheckAndFixInstalls(v) ==
  \/ Inspects(v, version = "old", "stops", "copies")
  \/ StopsApps(v)
  \/ Installs(v, {"runtime", "screen"}, "copies")

CheckAndFixShows(v) == FixesSettings(v) \/ Looks(v, visits[v].needs) \/ RestartsAtDesk(v)

FixAndAuditInstalls(v) ==
  \/ Inspects(v, ~runtime \/ version = "old", "stops", "copies")
  \/ StopsApps(v)
  \/ Installs(v, {"runtime"} \cup (IF version = "old" THEN {"screen"} ELSE {}), "copies")

FixAndAuditShows(v) == FixesSettings(v) \/ Looks(v, visits[v].needs) \/ RestartsAtDesk(v)

\* .NET is installed by a task of the system, which is polled for; the restart is not asked for.
RolloutInstalls(v) ==
  \/ Inspects(v, ~runtime, "installs", "copies")
  \/ Installs(v, {"runtime"}, "copies")

RolloutShows(v) == FixesSettings(v) \/ Looks(v, TRUE) \/ RestartsAtDesk(v)

\* The Watchers are terminated before the GuestScreens are listed.
UpdateStops(v) ==
  /\ IsAt(v, "stops")
  /\ \/ apps' = {} /\ UNCHANGED lapses
     \/ apps' = apps /\ Lapses
  /\ Proceeds(v, "installs")
  /\ UNCHANGED <<loggedOn, version, runtime, setups, gsdb, published, temp, spoilt, left, excused>>

\* A setup that runs on once the version is new is terminated, after 15 seconds.
UpdateWaits(v) ==
  /\ IsAt(v, "waits")
  /\ setups' \in IF version = "new" THEN {setups, setups \ {"screen"}} ELSE {setups}
  /\ Proceeds(v, "starts")
  /\ UNCHANGED <<loggedOn, apps, version, runtime, gsdb, published, temp, lapses, spoilt, left,
                 excused>>

\* Both are started where no user sees them; the next logon starts GuestScreen at the desk.
UpdateStarts(v) ==
  /\ IsAt(v, "starts")
  /\ \/ apps' = apps \cup {Hidden(p) : p \in Programs} /\ UNCHANGED lapses
     \/ apps' \in {apps, StartsHidden("GuestScreen")} /\ Lapses
  /\ Proceeds(v, "away")
  /\ UNCHANGED <<loggedOn, version, runtime, setups, gsdb, published, temp, spoilt, left, excused>>

UpdateKassa(v) ==
  \/ Inspects(v, TRUE, "stops", "stops")
  \/ UpdateStops(v)
  \/ Installs(v, {"runtime", "screen"}, "waits")
  \/ UpdateWaits(v)
  \/ UpdateStarts(v)

\* get_remote_processes; where it fails, the thread ends, or goes on as if nothing ran.
Lists(v) ==
  /\ IsAt(v, "inspects")
  /\ \/ /\ visits' = [visits EXCEPT ![v] =
             [@ EXCEPT !.at = "rekills", !.needs = loggedOn, !.seen = apps]]
        /\ UNCHANGED lapses
     \/ Proceeds(v, "away") /\ Lapses
  /\ excused' = (excused \/ lapses' # lapses)
  /\ UNCHANGED <<cashierVars, temp, spoilt, left>>

\* Those of no user are terminated, if they can be, and the processes are listed again.
KillsHidden(v) ==
  /\ IsAt(v, "rekills")
  /\ apps' \in {apps, apps \ {Hidden(p) : p \in Programs}}
  /\ \E seen \in {apps', {}} :
       visits' = [visits EXCEPT ![v].at = IF visits[v].needs THEN "rescreen" ELSE "away",
                              ![v].seen = seen]
  /\ UNCHANGED <<loggedOn, version, runtime, setups, gsdb, published, temp, lapses, spoilt, left,
                 excused>>

\* Either program is started at the desk where it was not seen there.
Relaunches(v, at, program, next) ==
  \/ Desk(program) \notin visits[v].seen /\ StartsAtDesk(v, at, program, next)
  \/ /\ IsAt(v, at) /\ Desk(program) \in visits[v].seen
     /\ Proceeds(v, next)
     /\ UNCHANGED <<cashierVars, temp, lapses, spoilt, left, excused>>

RemediateCashier(v) ==
  \/ Lists(v)
  \/ KillsHidden(v)
  \/ Relaunches(v, "rescreen", "GuestScreen", "rewatcher")
  \/ Relaunches(v, "rewatcher", "Watcher", "away")

\* An error that ends the thread, or the end of the script.
IsCutOff(v) ==
  /\ visits[v].at # "away" /\ Lapses
  /\ Proceeds(v, "away")
  /\ left' = (left \/ (temp # NoFile /\ InCopy(v)))
  /\ excused' = TRUE
  /\ UNCHANGED <<cashierVars, temp, spoilt>>

UpkeepNext ==
  \/ PublishesScene \/ LogsOn
  \/ \E s \in {"desk", "hidden"} : ScreenEnds(s) \/ WatcherStarts(s)
  \/ \E setup \in {"runtime", "screen"} : SetupEnds(setup)
  \/ \E v \in Visits :
       \/ \E script \in Scripts : Comes(v, script)
       \/ Serves(v, "fix") /\ (CheckAndFixInstalls(v) \/ CheckAndFixShows(v))
       \/ Serves(v, "audit") /\ (FixAndAuditInstalls(v) \/ FixAndAuditShows(v))
       \/ Serves(v, "rollout") /\ (RolloutInstalls(v) \/ RolloutShows(v))
       \/ Serves(v, "update") /\ UpdateKassa(v)
       \/ Serves(v, "remediate") /\ RemediateCashier(v)
       \/ IsCutOff(v)

UpkeepSpec == UpkeepInit /\ [][UpkeepNext]_upkeepVars

-----------------------------------------------------------------------------

Spots == {"away", "inspects", "stops", "installs", "copies", "looks", "kills", "screen", "watcher",
          "waits", "starts", "rekills", "rescreen", "rewatcher"} \cup CopySteps
Apps == Programs \X {"desk", "hidden"}
Stays == [script : Scripts, at : Spots, needs : BOOLEAN, seen : SUBSET Apps]
Scenes == Nat \cup {Blank, Torn}

\* Whatever scripts run, gs.db is a file and what runs are the two programs.
UpkeepTypeOK ==
  /\ loggedOn \in BOOLEAN /\ apps \subseteq Apps
  /\ version \in {"old", "new"} /\ runtime \in BOOLEAN /\ setups \subseteq {"runtime", "screen"}
  /\ gsdb \in Scenes /\ published \in 0..MaxScenes
  /\ temp \in Scenes \cup {NoFile}
  /\ visits \in [Visits -> {Away} \cup Stays]
  /\ lapses \in 0..MaxLapses
  /\ spoilt \in BOOLEAN /\ left \in BOOLEAN /\ excused \in BOOLEAN

\* The scene last published is the one in gs.db, though copies of gs.db fail unnoticed and threads
\* share the path of the copy: unless it was published while a thread worked on the copy or a copy
\* had been left behind, or a copy back was interrupted or was of a broken copy.
SceneSurvives == ~spoilt => gsdb = published

\* Once no thread is at the cashier, a script that was there leaves the Watcher at the desk, which
\* brings GuestScreen back: also where one terminates what another has just started.
DeskIsWatched ==
  /\ \A v \in Visits : visits[v].at = "away"
  /\ \E v \in Visits : visits[v] # Away
  /\ ~excused /\ loggedOn
  => Desk("Watcher") \in apps

\* The scripts leave a cashier as it should be: its gs.db and its desk.
UpkeepHolds == SceneSurvives /\ DeskIsWatched
=============================================================================
