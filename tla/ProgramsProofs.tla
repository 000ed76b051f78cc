--------------------------- MODULE ProgramsProofs ---------------------------
(***************************************************************************)
(* The programs around the fleet.  The flag of the watchdog tells the      *)
(* truth about the containers; what a process of the deployment script     *)
(* says of the files and the scene is so; the door bot keeps its main      *)
(* administrator and does what its buttons say; and a restart that the     *)
(* fiscal monitor reports is one: for any threads, processes, chats and    *)
(* operators, and any mishaps.                                             *)
(***************************************************************************)
EXTENDS FailoverWatchdog, DeploymentScript, DoorBot, FiscalMonitor, FiniteSetTheorems, TLAPS

-----------------------------------------------------------------------------
(* The flag of the failover watchdog: FailoverWatchdog.                    *)

AtStart(t) == at[t] \in {"start", "started"}
AtStop(t) == at[t] \in {"stop", "stopped"}

\* As long as no start has met a stop: none does, a start that was carried out has its
\* containers, and the flag is up without containers only until the stop takes it down.
FlagInv ==
  /\ probe # "none" => at["loop"] = "idle"
  /\ ~crossed =>
       /\ \A t, u \in Threads : ~(AtStart(t) /\ AtStop(u))
       /\ \A t \in Threads : at[t] = "started" => running
       /\ failoverActive /\ ~running => \E t \in Threads : at[t] = "stopped"

FailoverInv == FailoverTypeOK /\ FlagInv

\* The flag and the counters begin low, and nobody is at the containers.
LEMMA FailoverStarts == FailoverInit => FailoverInv
  <1> SUFFICES ASSUME FailoverInit PROVE FailoverInv
    OBVIOUS
  <1>1. /\ failures \in 0..FailThreshold /\ successes \in 0..RecoveryThreshold
        /\ calls \in 0..MaxCalls /\ mishaps \in 0..MaxMishaps
    BY FailoverAssumption DEF FailoverInit
  <1>2. FailoverTypeOK
    BY <1>1 DEF FailoverInit, FailoverTypeOK
  <1>3. FlagInv
    BY DEF FailoverInit, FlagInv, Threads, AtStart, AtStop
  <1> QED
    BY <1>2, <1>3 DEF FailoverInv

\* A counter that is counted up to its bound stays within it.
LEMMA UpToBounds == ASSUME NEW n \in Nat, NEW bound \in Nat PROVE UpTo(n, bound) \in 0..bound
  BY DEF UpTo

\* A mishap stays within the bound.
LEMMA MishapTyped ==
  FailoverTypeOK /\ (Mishap \/ mishaps' = mishaps) => mishaps' \in 0..MaxMishaps
  BY FailoverAssumption DEF FailoverTypeOK, Mishap

\* A thread that turns to the containers from elsewhere keeps the starts and stops apart, or it
\* is noted.
LEMMA TurnKeeps ==
  ASSUME FailoverInv, NEW t \in Threads, at[t] = "idle", NEW what \in {"start", "stop"},
         Turn(t, what), UNCHANGED <<running, failoverActive>>, t = "loop" => probe' = "none",
         t # "loop" => probe' = probe
  PROVE  /\ at' \in [Threads -> {"idle", "start", "started", "stop", "stopped"}]
         /\ crossed' \in BOOLEAN
         /\ FlagInv'
  <1>1. /\ at \in [Threads -> {"idle", "start", "started", "stop", "stopped"}]
        /\ crossed \in BOOLEAN /\ FlagInv
    BY DEF FailoverInv, FailoverTypeOK
  <1>2. /\ at'[t] = what /\ \A u \in Threads \ {t} : at'[u] = at[u]
        /\ at' \in [Threads -> {"idle", "start", "started", "stop", "stopped"}]
    BY <1>1 DEF Turn
  <1>3. crossed' \in BOOLEAN
    BY <1>1 DEF Turn
  <1>4. probe' # "none" => at'["loop"] = "idle"
    BY <1>1, <1>2 DEF FlagInv, Threads
  <1>5. ASSUME ~crossed' PROVE \A u, w \in Threads : ~(AtStart(u)' /\ AtStop(w)')
    <2>1. ~crossed /\ ~Meets(t, what)
      BY <1>5 DEF Turn
    <2>2. \A u, w \in Threads : ~(AtStart(u) /\ AtStop(w))
      BY <1>1, <2>1 DEF FlagInv
    <2>3. CASE what = "start"
      <3>1. \A w \in Threads : ~AtStop(w)'
        BY <1>2, <2>1, <2>3 DEF Meets, AtStop
      <3> QED
        BY <3>1
    <2>4. CASE what = "stop"
      <3>1. \A u \in Threads : ~AtStart(u)'
        BY <1>2, <2>1, <2>4 DEF Meets, AtStart
      <3> QED
        BY <3>1
    <2> QED
      BY <2>3, <2>4
  <1>6. ASSUME ~crossed'
        PROVE  /\ \A u \in Threads : at'[u] = "started" => running'
               /\ failoverActive' /\ ~running' => \E u \in Threads : at'[u] = "stopped"
    <2>1. ~crossed
      BY <1>6 DEF Turn
    <2> QED
      BY <1>1, <1>2, <2>1 DEF FlagInv
  <1> QED
    BY <1>2, <1>3, <1>4, <1>5, <1>6 DEF FlagInv

\* What a thread does at the containers, once it is there.
LEMMA WorkKeeps ==
  ASSUME FailoverInv, NEW t \in Threads, Works(t)
  PROVE  FailoverInv'
  <1>1. /\ at \in [Threads -> {"idle", "start", "started", "stop", "stopped"}]
        /\ running \in BOOLEAN /\ failoverActive \in BOOLEAN /\ crossed \in BOOLEAN
        /\ FailoverTypeOK /\ FlagInv
    BY DEF FailoverInv, FailoverTypeOK
  <1>2. PICK to \in {"idle", "started", "stopped"} : at' = [at EXCEPT ![t] = to]
    BY DEF Works, DockerStart, DockerStop, StartLocalJira, StopLocalJira
  <1>3. /\ at'[t] = to /\ \A u \in Threads \ {t} : at'[u] = at[u]
        /\ at' \in [Threads -> {"idle", "start", "started", "stop", "stopped"}]
    BY <1>1, <1>2
  <1>4. /\ UNCHANGED <<reachable, probe, failures, successes, calls>>
        /\ Mishap \/ mishaps' = mishaps
        /\ running' \in BOOLEAN /\ failoverActive' \in BOOLEAN /\ crossed' \in BOOLEAN
    BY <1>1 DEF Works, DockerStart, DockerStop, StartLocalJira, StopLocalJira, watchdogState
  <1>5. FailoverTypeOK'
    BY <1>1, <1>3, <1>4, MishapTyped DEF FailoverTypeOK
  <1>6. probe' # "none" => at'["loop"] = "idle"
    <2>1. at[t] # "idle"
      BY DEF Works, DockerStart, DockerStop, StartLocalJira, StopLocalJira
    <2>2. "loop" \in Threads
      BY DEF Threads
    <2> QED
      BY <1>1, <1>3, <1>4, <2>1, <2>2 DEF FlagInv
  <1>7. ASSUME ~crossed'
        PROVE  /\ \A u, w \in Threads : ~(AtStart(u)' /\ AtStop(w)')
               /\ \A u \in Threads : at'[u] = "started" => running'
               /\ failoverActive' /\ ~running' => \E u \in Threads : at'[u] = "stopped"
    <2>1. ~crossed
      BY <1>1, <1>7 DEF Works, DockerStart, DockerStop, StartLocalJira, StopLocalJira
    <2>2. /\ \A u, w \in Threads : ~(AtStart(u) /\ AtStop(w))
          /\ \A u \in Threads : at[u] = "started" => running
          /\ failoverActive /\ ~running => \E u \in Threads : at[u] = "stopped"
      BY <1>1, <2>1 DEF FlagInv
    <2>3. CASE DockerStart(t)
      <3>1. at[t] = "start" /\ to \in {"started", "idle"} /\ failoverActive' = failoverActive
            /\ (to = "started" => running') /\ (running => running')
        BY <1>1, <1>2, <2>3 DEF DockerStart, watchdogState
      <3> QED
        BY <1>3, <2>2, <3>1 DEF AtStart, AtStop
    <2>4. CASE DockerStop(t)
      <3>1. at[t] = "stop" /\ to \in {"stopped", "idle"} /\ failoverActive' = failoverActive
            /\ (to = "idle" => running' = running)
        BY <1>1, <1>3, <1>7, <2>4 DEF DockerStop, watchdogState
      <3>2. \A u \in Threads : ~AtStart(u)
        BY <2>2, <3>1 DEF AtStop
      <3> QED
        BY <1>3, <2>2, <3>1, <3>2 DEF AtStart, AtStop
    <2>5. CASE StartLocalJira(t)
      <3>1. at[t] = "started" /\ to = "idle" /\ running' = running
        BY <1>1, <1>3, <2>5 DEF StartLocalJira
      <3> QED
        BY <1>3, <2>2, <3>1 DEF AtStart, AtStop
    <2>6. CASE StopLocalJira(t)
      <3>1. at[t] = "stopped" /\ to = "idle" /\ running' = running /\ ~failoverActive'
        BY <1>1, <1>3, <2>6 DEF StopLocalJira
      <3> QED
        BY <1>3, <2>2, <3>1 DEF AtStart, AtStop
    <2> QED
      BY <2>3, <2>4, <2>5, <2>6 DEF Works
  <1> QED
    BY <1>5, <1>6, <1>7 DEF FailoverInv, FlagInv

\* A round of the loop counts the answer, and may turn to the containers.
LEMMA LoopKeeps == FailoverInv /\ WatchdogLoop => FailoverInv'
  <1> SUFFICES ASSUME FailoverInv, WatchdogLoop PROVE FailoverInv'
    OBVIOUS
  <1>1. PICK looks \in BOOLEAN : IsLocalJiraRunning(looks) /\ Decides(looks)
    BY DEF WatchdogLoop
  <1>2. FailoverTypeOK /\ FlagInv /\ failures \in Nat /\ successes \in Nat
    BY DEF FailoverInv, FailoverTypeOK
  <1>3. at["loop"] = "idle" /\ "loop" \in Threads
    BY <1>2 DEF WatchdogLoop, FlagInv, Threads
  <1>4. /\ failures' \in 0..FailThreshold /\ successes' \in 0..RecoveryThreshold
    BY <1>1, <1>2, UpToBounds, FailoverAssumption DEF Decides
  <1>5. /\ probe' = "none" /\ UNCHANGED <<reachable, failoverActive, running, calls>>
        /\ Mishap \/ mishaps' = mishaps
    BY <1>1 DEF WatchdogLoop, IsLocalJiraRunning
  <1>6. mishaps' \in 0..MaxMishaps
    BY <1>2, <1>5, MishapTyped
  <1>7. CASE UNCHANGED <<at, crossed>>
    <2>1. FailoverTypeOK'
      BY <1>2, <1>4, <1>5, <1>6, <1>7 DEF FailoverTypeOK
    <2>2. FlagInv'
      BY <1>2, <1>5, <1>7 DEF FlagInv, AtStart, AtStop
    <2> QED
      BY <2>1, <2>2 DEF FailoverInv
  <1>8. ASSUME NEW what \in {"start", "stop"}, Turn("loop", what) PROVE FailoverInv'
    <2>1. /\ at' \in [Threads -> {"idle", "start", "started", "stop", "stopped"}]
          /\ crossed' \in BOOLEAN /\ FlagInv'
      BY <1>3, <1>5, <1>8, TurnKeeps
    <2> QED
      BY <1>2, <1>4, <1>5, <1>6, <2>1 DEF FailoverTypeOK, FailoverInv
  <1> QED
    BY <1>1, <1>7, <1>8 DEF Decides

\* Every step keeps the flag true.
LEMMA FailoverStep == FailoverInv /\ [FailoverNext]_failoverVars => FailoverInv'
  <1> SUFFICES ASSUME FailoverInv, [FailoverNext]_failoverVars PROVE FailoverInv'
    OBVIOUS
  <1>a. FailoverTypeOK /\ FlagInv
    BY DEF FailoverInv
  <1>1. CASE MasterChanges
    BY <1>1, <1>a
    DEF MasterChanges, watchdogState, FailoverInv, FailoverTypeOK, FlagInv, AtStart, AtStop
  <1>2. CASE CheckMaster
    <2>1. mishaps' \in 0..MaxMishaps
      BY <1>2, <1>a, MishapTyped DEF CheckMaster
    <2> QED
      BY <1>2, <1>a, <2>1 DEF CheckMaster, FailoverInv, FailoverTypeOK, FlagInv, AtStart, AtStop
  <1>3. CASE ContainersDie
    <2>1. mishaps' \in 0..MaxMishaps
      BY <1>3, <1>a, MishapTyped DEF ContainersDie
    <2> QED
      BY <1>3, <1>a, <2>1 DEF ContainersDie, watchdogState, FailoverInv, FailoverTypeOK, FlagInv
  <1>4. CASE RestartWatchdog
    <2>1. mishaps' \in 0..MaxMishaps
      BY <1>4, <1>a, MishapTyped DEF RestartWatchdog
    <2>a. 0 \in 0..FailThreshold /\ 0 \in 0..RecoveryThreshold
      BY FailoverAssumption
    <2>b. /\ failures' \in 0..FailThreshold /\ successes' \in 0..RecoveryThreshold
          /\ at' \in [Threads -> {"idle", "start", "started", "stop", "stopped"}]
      BY <1>4, <2>a DEF RestartWatchdog
    <2>c. probe' \in {"none", "ok", "failed"} /\ failoverActive' \in BOOLEAN
      BY <1>4 DEF RestartWatchdog
    <2>2. FailoverTypeOK'
      BY <1>4, <1>a, <2>1, <2>b, <2>c DEF RestartWatchdog, FailoverTypeOK
    <2>3. FlagInv'
      BY <1>4 DEF RestartWatchdog, FlagInv, AtStart, AtStop, Threads
    <2> QED
      BY <2>2, <2>3 DEF FailoverInv
  <1>5. ASSUME NEW h \in Handlers, NEW what \in {"start", "stop"}, DoPost(h, what)
        PROVE  FailoverInv'
    <2>1. h \in Threads /\ h # "loop"
      BY FailoverAssumption DEF Threads
    <2>2. /\ at' \in [Threads -> {"idle", "start", "started", "stop", "stopped"}]
          /\ crossed' \in BOOLEAN /\ FlagInv'
      BY <1>5, <2>1, TurnKeeps DEF DoPost, watchdogState
    <2>3. calls' \in 0..MaxCalls
      BY <1>5, <1>a, FailoverAssumption DEF DoPost, FailoverTypeOK
    <2> QED
      BY <1>5, <1>a, <2>2, <2>3 DEF DoPost, watchdogState, FailoverInv, FailoverTypeOK
  <1>6. CASE UNCHANGED failoverVars
    BY <1>6, <1>a
    DEF failoverVars, watchdogState, FailoverInv, FailoverTypeOK, FlagInv, AtStart, AtStop
  <1> QED
    BY <1>1, <1>2, <1>3, <1>4, <1>5, <1>6, WorkKeeps, LoopKeeps DEF FailoverNext

\* Unless a start met a stop, the containers died or a failed stop had stopped them, the flag is
\* up only with the standby, once no thread is at it: for any thresholds and any threads.
THEOREM FlagAlwaysTells == FailoverSpec => []FlagTells
  <1>1. FailoverInv => FlagTells
    BY DEF FailoverInv, FlagInv, FlagTells
  <1> QED
    BY <1>1, FailoverStarts, FailoverStep, PTL DEF FailoverSpec

-----------------------------------------------------------------------------
(* The summary of the deployment script: DeploymentScript.                 *)

ScriptRows == {OtherScene, NoRow} \cup {Scene(fs) : fs \in SUBSET Files}
Held == [Files -> Contents \cup {Nothing}]
BeforeUpdate == {"handshake", "inventory", "scene", "stage", "hash", "move", "snapshot", "update"}
AfterUpdate == {"touch", "stable", "readback"}
ProcessRecords ==
  [pc : {"none", "ended", "rollback"} \cup BeforeUpdate \cup AfterUpdate,
   outcome : {"none", "SUCCESS", "NO_OP", "FAILED", "ROLLED_BACK", "ROLLBACK_FAILED"},
   wanted : SUBSET Files, sha : Held, send : SUBSET Files, staged : Held,
   initial : ScriptRows \cup {Unknown}, same : BOOLEAN, blank : BOOLEAN]

\* What is rolled back to is a row that was read.
Processes == {p \in ProcessRecords : p.pc = "rollback" => p.initial \notin {Unknown, NoRow}}

ScriptTypeOK ==
  /\ mediaDir \in Held /\ uploads \in Held
  /\ row \in ScriptRows
  /\ runs \in [Runs -> Processes]
  /\ lastRun \in Runs \cup {Nothing}

RightSize(rec, f) == uploads[f] # Nothing /\ SizeOf[uploads[f]] = SizeOf[rec.sha[f]]

\* The file that is not sent is there in its size, the one that was is the server's.
FileTells(rec, f) == RightSize(rec, f) /\ (f \in rec.send => uploads[f] = rec.sha[f])

\* What a process that nobody disturbs has brought about, by where it is.
Progress(rec) ==
  /\ rec.pc \in BeforeUpdate \cup AfterUpdate \cup {"rollback"} => rec.outcome = "none"
  /\ rec.pc \in BeforeUpdate => row = rowThen
  /\ rec.pc \in BeforeUpdate => \A f \in rec.wanted : rec.sha[f] # Nothing
  /\ rec.pc \in {"scene", "stage", "hash", "move"} =>
       \A f \in rec.wanted \ (rec.send \cup missed) : RightSize(rec, f)
  /\ rec.pc = "move" => \A f \in rec.send : rec.staged[f] = rec.sha[f]
  /\ rec.pc \in {"snapshot", "update"} \cup AfterUpdate =>
       \A f \in rec.wanted \ missed : FileTells(rec, f)
  /\ rec.send \subseteq rec.wanted
  /\ rec.initial # Unknown => rec.initial = rowThen
  /\ row = NoRow <=> rowThen = NoRow

\* While the process that began last is alone, it is the only one to act.
AloneInv ==
  single => /\ \A o \in Runs \ {lastRun} : ~Active(o)
            /\ lastRun # Nothing => Progress(runs[lastRun])

ScriptInv == ScriptTypeOK /\ AloneInv /\ ScriptTells

\* What a process asks of the files and the row while it is alone, by the outcome it has said.
Said(r, rec) ==
  /\ rec.outcome \in {"SUCCESS", "NO_OP"} =>
       row = Scene(rec.wanted) /\ \A f \in rec.wanted \ missed : FileTells(rec, f)
  /\ rec.outcome \in {"FAILED", "ROLLED_BACK"} =>
       row = rowThen \/ rec.initial = Unknown \/ r \in unrolled

\* What a process has brought about is its files' and rows' matter alone.
SameTask(e, rec) ==
  /\ e.outcome = rec.outcome /\ e.wanted = rec.wanted /\ e.sha = rec.sha /\ e.send = rec.send
  /\ e.staged = rec.staged /\ e.initial = rec.initial

\* Rows of the four kinds are told apart by them.
LEMMA RowsApart ==
  /\ \A s \in ScriptRows \cup {Unknown} : s.kind \in {"unknown", "none"} <=> s \in {Unknown, NoRow}
  /\ Unknown \notin ScriptRows
  /\ \A fs \in SUBSET Files : Scene(fs) \in ScriptRows /\ Scene(fs) \notin {Unknown, NoRow}
  <1>1. /\ Unknown.kind = "unknown" /\ NoRow.kind = "none" /\ OtherScene.kind = "other"
        /\ \A fs \in SUBSET Files : Scene(fs).kind = "scene"
    BY DEF Unknown, NoRow, OtherScene, Scene
  <1>2. \A s \in ScriptRows \cup {Unknown} :
          s \in {Unknown, NoRow, OtherScene} \/ \E fs \in SUBSET Files : s = Scene(fs)
    BY DEF ScriptRows
  <1>3. \A s \in ScriptRows : s.kind # "unknown"
    BY <1>1 DEF ScriptRows
  <1>4. \A fs \in SUBSET Files : Scene(fs) \in ScriptRows
    BY DEF ScriptRows
  <1> QED
    BY <1>1, <1>2, <1>3, <1>4

\* What a script leaves in the row: it is there as before, and holds what was to be written.
LEMMA ScriptSetsRow ==
  ASSUME ScriptTypeOK, NEW s \in ScriptRows, s # NoRow, RunSqliteScript(s)
  PROVE  row' \in ScriptRows /\ (row' = NoRow <=> row = NoRow) /\ (row # NoRow => row' = s)
  BY DEF RunSqliteScript, ScriptTypeOK

\* The record that every process is made from.
LEMMA NotYetTyped ==
  /\ NotYet \in ProcessRecords /\ NotYet.pc = "none" /\ NotYet.outcome = "none"
  /\ NotYet.send = {} /\ NotYet.initial = Unknown
  <1>1. [f \in Files |-> Nothing] \in Held
    BY DEF Held
  <1> QED
    BY <1>1 DEF NotYet, ProcessRecords

\* A process that ends keeps what it has read.
LEMMA EndsTyped ==
  ASSUME NEW rec \in Processes,
         NEW outcome \in {"SUCCESS", "NO_OP", "FAILED", "ROLLED_BACK", "ROLLBACK_FAILED"}
  PROVE  \E e \in Processes :
           /\ e = Over(rec, outcome) /\ e.pc = "ended" /\ e.outcome = outcome
           /\ e.wanted = rec.wanted /\ e.sha = rec.sha /\ e.send = rec.send
           /\ e.initial = rec.initial
  <1> DEFINE e == Over(rec, outcome)
  <1>1. /\ rec.wanted \in SUBSET Files /\ rec.sha \in Held /\ rec.send \in SUBSET Files
        /\ rec.initial \in ScriptRows \cup {Unknown}
    BY DEF Processes, ProcessRecords
  <1>2. /\ e \in ProcessRecords /\ e.pc = "ended" /\ e.outcome = outcome /\ e.wanted = rec.wanted
        /\ e.sha = rec.sha /\ e.send = rec.send /\ e.initial = rec.initial
    BY <1>1, NotYetTyped DEF Over, ProcessRecords
  <1>3. e \in Processes
    BY <1>2 DEF Processes
  <1> QED
    BY <1>2, <1>3

\* While a process is alone, what the others write is nothing: only its own record counts.
LEMMA OnlyAlone ==
  ASSUME ScriptInv, NEW r \in Runs, Active(r), NEW e \in Processes, runs' = [runs EXCEPT ![r] = e],
         mediaDir' \in Held, uploads' \in Held, row' \in ScriptRows,
         UNCHANGED <<lastRun, single>>,
         single /\ lastRun = r => Progress(e)' /\ Said(r, e)'
  PROVE  ScriptInv'
  <1>1. /\ runs \in [Runs -> Processes] /\ lastRun \in Runs \cup {Nothing} /\ Nothing \notin Runs
        /\ AloneInv
    BY ScriptAssumption DEF ScriptInv, ScriptTypeOK
  <1>2. runs'[r] = e /\ (\A o \in Runs \ {r} : runs'[o] = runs[o]) /\ runs' \in [Runs -> Processes]
    BY <1>1
  <1>3. ScriptTypeOK'
    BY <1>1, <1>2 DEF ScriptTypeOK
  <1>4. CASE single
    <2>1. lastRun = r
      BY <1>1, <1>4 DEF AloneInv
    <2>2. \A o \in Runs \ {lastRun} : ~Active(o)'
      BY <1>1, <1>2, <1>4, <2>1 DEF AloneInv, Active
    <2>3. Progress(e)' /\ Said(r, e)'
      BY <1>4, <2>1
    <2>4. AloneInv'
      BY <1>2, <2>1, <2>2, <2>3 DEF AloneInv
    <2>5. ScriptDoneIsShown'
      BY <1>2, <2>1, <2>3 DEF ScriptDoneIsShown, Said, FileTells, RightSize
    <2>6. ScriptFailureUndone'
      BY <1>2, <2>1, <2>3 DEF ScriptFailureUndone, Said
    <2> QED
      BY <1>3, <2>4, <2>5, <2>6 DEF ScriptInv, ScriptTells
  <1>5. CASE ~single
    BY <1>3, <1>5 DEF ScriptInv, AloneInv, ScriptTells, ScriptDoneIsShown, ScriptFailureUndone
  <1> QED
    BY <1>4, <1>5

\* What holds of a process that is about to step.
LEMMA AloneHas ==
  ASSUME ScriptInv, NEW r \in Runs
  PROVE  /\ runs[r] \in Processes
         /\ single /\ lastRun = r => Progress(runs[r])
         /\ mediaDir \in Held /\ uploads \in Held /\ row \in ScriptRows
  BY ScriptAssumption DEF ScriptInv, ScriptTypeOK, AloneInv

\* A process that raises: a row that was read is put back, any other is as it was.
LEMMA ThrowKeeps ==
  ASSUME ScriptInv, NEW r \in Runs,
         runs[r].pc \in BeforeUpdate \cup AfterUpdate, Throw(r),
         row' \in ScriptRows,
         mediaDir' \in Held, uploads' \in Held,
         UNCHANGED <<lastRun, single, rowThen, unrolled>>,
         single /\ lastRun = r => (row' = NoRow <=> rowThen = NoRow)
  PROVE  ScriptInv'
  <1>1. PICK rec \in Processes : rec = runs[r] /\ (single /\ lastRun = r => Progress(rec))
    BY AloneHas
  <1>2. /\ Active(r) /\ runs' = [runs EXCEPT ![r] = Rolled(rec)]
        /\ rec.pc \in BeforeUpdate \cup AfterUpdate
    BY <1>1 DEF Active, Throw, Becomes, BeforeUpdate, AfterUpdate
  <1>3. rec.initial \in ScriptRows \cup {Unknown}
    BY DEF Processes, ProcessRecords
  <1>4. CASE rec.initial \in {Unknown, NoRow}
    <2>1. PICK e \in Processes :
            /\ e = Over(rec, "FAILED") /\ e.pc = "ended" /\ e.outcome = "FAILED"
            /\ e.wanted = rec.wanted /\ e.sha = rec.sha /\ e.send = rec.send
            /\ e.initial = rec.initial
      BY EndsTyped
    <2>2. Rolled(rec) = e
      BY <1>3, <1>4, <2>1, RowsApart DEF Rolled
    <2>3. ASSUME single, lastRun = r PROVE Progress(e)' /\ Said(r, e)'
      <3>1. Progress(rec)
        BY <1>1, <2>3
      <3>2. rec.initial = Unknown \/ (rowThen = NoRow /\ row' = NoRow)
        BY <1>4, <2>3, <3>1 DEF Progress
      <3>3. Progress(e)'
        BY <2>1, <2>3, <3>1 DEF Progress, BeforeUpdate, AfterUpdate
      <3>4. Said(r, e)'
        BY <2>1, <3>2 DEF Said
      <3> QED
        BY <3>3, <3>4
    <2> QED
      BY <1>2, <2>2, <2>3, OnlyAlone
  <1>5. CASE rec.initial \notin {Unknown, NoRow}
    <2>1. PICK e \in Processes :
            /\ e = [rec EXCEPT !.pc = "rollback"] /\ e.pc = "rollback" /\ SameTask(e, rec)
      <3> DEFINE e == [rec EXCEPT !.pc = "rollback"]
      <3>1. e \in ProcessRecords /\ e.pc = "rollback" /\ SameTask(e, rec)
        BY DEF Processes, ProcessRecords, SameTask
      <3>2. e \in Processes
        BY <1>5, <3>1 DEF Processes, SameTask
      <3> QED
        BY <3>1, <3>2
    <2>2. Rolled(rec) = e
      BY <1>3, <1>5, <2>1, RowsApart DEF Rolled
    <2>3. ASSUME single, lastRun = r PROVE Progress(e)' /\ Said(r, e)'
      <3>1. Progress(rec) /\ rec.outcome = "none"
        BY <1>1, <1>2, <2>3 DEF Progress
      <3>2. Progress(e)'
        BY <1>5, <2>1, <2>3, <3>1 DEF Progress, SameTask, BeforeUpdate, AfterUpdate
      <3>3. Said(r, e)'
        BY <2>1, <3>1 DEF Said, SameTask
      <3> QED
        BY <3>2, <3>3
    <2> QED
      BY <1>2, <2>2, <2>3, OnlyAlone
  <1> QED
    BY <1>4, <1>5

\* Raising where nothing is written.
LEMMA ThrowStays ==
  ASSUME ScriptInv, NEW r \in Runs,
         runs[r].pc \in BeforeUpdate \cup AfterUpdate, Throw(r),
         UNCHANGED <<scriptFiles, lastRun, single, rowThen, unrolled>>
  PROVE  ScriptInv'
  <1>1. /\ mediaDir \in Held /\ uploads \in Held /\ row \in ScriptRows
        /\ single /\ lastRun = r => Progress(runs[r])
    BY AloneHas
  <1>2. UNCHANGED <<mediaDir, uploads, row>>
    BY DEF scriptFiles
  <1> QED
    BY <1>1, <1>2, ThrowKeeps DEF Progress

\* A step that goes on without writing files or the row.
LEMMA GoesOn ==
  ASSUME ScriptInv, NEW r \in Runs, Active(r), NEW e \in Processes, Becomes(r, e),
         UNCHANGED <<scriptFiles, scriptHistory>>,
         single /\ lastRun = r => (Progress(runs[r]) => Progress(e) /\ Said(r, e))
  PROVE  ScriptInv'
  <1>1. /\ mediaDir \in Held /\ uploads \in Held /\ row \in ScriptRows
        /\ single /\ lastRun = r => Progress(runs[r])
    BY AloneHas
  <1>2. UNCHANGED <<mediaDir, uploads, row, lastRun, rowThen, single, missed, unrolled>>
    BY DEF scriptFiles, scriptHistory
  <1>3. ASSUME single, lastRun = r PROVE Progress(e)' /\ Said(r, e)'
    BY <1>1, <1>2, <1>3 DEF Progress, Said, FileTells, RightSize
  <1> QED
    BY <1>1, <1>2, <1>3, OnlyAlone DEF Becomes

\* A step that needs an answer.
LEMMA RequiresKeeps ==
  ASSUME ScriptInv, NEW r \in Runs, NEW pc \in BeforeUpdate \cup AfterUpdate,
         NEW holds \in BOOLEAN, NEW e \in Processes,
         Requires(r, pc, holds, e),
         single /\ lastRun = r /\ holds => (Progress(runs[r]) => Progress(e) /\ Said(r, e))
  PROVE  ScriptInv'
  <1>1. /\ runs[r].pc = pc /\ UNCHANGED <<scriptFiles, scriptHistory>>
        /\ (holds /\ Becomes(r, e)) \/ Throw(r)
    BY DEF Requires
  <1>2. CASE holds /\ Becomes(r, e)
    <2>1. Active(r)
      BY <1>1 DEF Active, BeforeUpdate, AfterUpdate
    <2> QED
      BY <1>1, <1>2, <2>1, GoesOn
  <1>3. CASE Throw(r)
    BY <1>1, <1>3, ThrowStays DEF scriptHistory
  <1> QED
    BY <1>1, <1>2, <1>3

\* A process that moves on keeps what it has brought about.
LEMMA StepsOn ==
  ASSUME NEW rec \in Processes, NEW pc \in BeforeUpdate \cup AfterUpdate
  PROVE  \E e \in Processes : e = [rec EXCEPT !.pc = pc] /\ e.pc = pc /\ SameTask(e, rec)
  <1> DEFINE e == [rec EXCEPT !.pc = pc]
  <1>1. e \in ProcessRecords /\ e.pc = pc /\ SameTask(e, rec)
    BY DEF Processes, ProcessRecords, SameTask
  <1>2. pc # "rollback"
    BY DEF BeforeUpdate, AfterUpdate
  <1>3. e \in Processes
    BY <1>1, <1>2 DEF Processes
  <1> QED
    BY <1>1, <1>3

-----------------------------------------------------------------------------
(* The steps of a deployment.                                              *)

\* Steps 1 and 2.
LEMMA LaunchKeeps ==
  ASSUME ScriptInv, NEW r \in Runs, NEW wanted \in SUBSET Files, Launch(r, wanted)
  PROVE  ScriptInv'
  <1> DEFINE rec == [NotYet EXCEPT !.pc = "handshake", !.wanted = wanted, !.sha = mediaDir]
             fits == wanted # {} /\ \A f \in wanted : mediaDir[f] # Nothing
  <1>1. /\ mediaDir \in Held /\ uploads \in Held /\ row \in ScriptRows
        /\ runs \in [Runs -> Processes] /\ Nothing \notin Runs
    BY ScriptAssumption DEF ScriptInv, ScriptTypeOK
  <1>2. /\ rec \in ProcessRecords /\ rec.pc = "handshake" /\ rec.outcome = "none"
        /\ rec.wanted = wanted /\ rec.sha = mediaDir /\ rec.send = {} /\ rec.initial = Unknown
    BY <1>1, NotYetTyped DEF ProcessRecords, BeforeUpdate
  <1>3. /\ runs' = [runs EXCEPT ![r] = IF fits THEN rec ELSE Over(rec, "FAILED")]
        /\ lastRun' = r /\ rowThen' = row
        /\ single' = (\A o \in Runs : ~Active(o))
        /\ UNCHANGED <<mediaDir, uploads, row, missed, unrolled>>
    BY DEF Launch, Becomes, scriptFiles
  <1> HIDE DEF rec
  <1>4. rec \in Processes
    BY <1>2 DEF Processes
  <1>5. \E e \in Processes :
          /\ e = (IF fits THEN rec ELSE Over(rec, "FAILED"))
          /\ e.wanted = wanted /\ e.sha = mediaDir /\ e.send = {}
          /\ e.initial = Unknown
          /\ \/ fits /\ e.pc = "handshake" /\ e.outcome = "none"
             \/ ~fits /\ e.pc = "ended" /\ e.outcome = "FAILED"
    <2>1. CASE fits
      BY <1>2, <1>4, <2>1
    <2>2. CASE ~fits
      <3>1. PICK e \in Processes :
              /\ e = Over(rec, "FAILED") /\ e.pc = "ended" /\ e.outcome = "FAILED"
              /\ e.wanted = rec.wanted /\ e.sha = rec.sha /\ e.send = rec.send
              /\ e.initial = rec.initial
        BY <1>4, EndsTyped
      <3> QED
        BY <1>2, <2>2, <3>1
    <2> QED
      BY <2>1, <2>2
  <1>6. PICK e \in Processes :
          /\ runs' = [runs EXCEPT ![r] = e]
          /\ e.wanted = wanted /\ e.sha = mediaDir /\ e.send = {}
          /\ e.initial = Unknown
          /\ \/ fits /\ e.pc = "handshake" /\ e.outcome = "none"
             \/ ~fits /\ e.pc = "ended" /\ e.outcome = "FAILED"
    BY <1>3, <1>5
  <1>7. /\ runs'[r] = e /\ (\A o \in Runs \ {r} : runs'[o] = runs[o])
        /\ runs' \in [Runs -> Processes]
    BY <1>1, <1>3, <1>6
  <1>8. ScriptTypeOK'
    BY <1>1, <1>3, <1>7 DEF ScriptTypeOK
  <1>9. Progress(e)' /\ Said(r, e)'
    BY <1>3, <1>6 DEF Progress, Said, BeforeUpdate, AfterUpdate
  <1>10. AloneInv'
    BY <1>3, <1>7, <1>9 DEF AloneInv, Active
  <1>11. ScriptTells'
    BY <1>3, <1>7, <1>9
    DEF ScriptTells, ScriptDoneIsShown, ScriptFailureUndone, Said, FileTells, RightSize
  <1> QED
    BY <1>8, <1>10, <1>11 DEF ScriptInv

\* Steps 3, 13, 14 and 16: nothing is written.
LEMMA LooksKeep ==
  ASSUME ScriptInv, NEW r \in Runs,
         InspectProcess(r) \/ TouchSyncVersion(r) \/ ReadRowBack(r) \/ VerifyHashes(r)
  PROVE  ScriptInv'
  <1>1. PICK rec \in Processes : rec = runs[r]
    BY AloneHas
  <1>2. CASE InspectProcess(r)
    <2>1. PICK e \in Processes :
            e = [rec EXCEPT !.pc = "inventory"] /\ e.pc = "inventory" /\ SameTask(e, rec)
      BY StepsOn DEF BeforeUpdate
    <2>2. Requires(r, "handshake", TRUE, e) /\ rec.pc = "handshake"
      BY <1>1, <1>2, <2>1 DEF InspectProcess, Requires
    <2>3. Progress(rec) => Progress(e) /\ Said(r, e)
      BY <2>1, <2>2 DEF Progress, Said, SameTask, BeforeUpdate, AfterUpdate
    <2>4. "handshake" \in BeforeUpdate
      BY DEF BeforeUpdate
    <2> QED
      BY <1>1, <2>2, <2>3, <2>4, RequiresKeeps
  <1>3. CASE TouchSyncVersion(r)
    <2>1. PICK e \in Processes :
            e = [rec EXCEPT !.pc = "stable"] /\ e.pc = "stable" /\ SameTask(e, rec)
      BY StepsOn DEF AfterUpdate
    <2>2. Requires(r, "touch", TRUE, e) /\ rec.pc = "touch"
      BY <1>1, <1>3, <2>1 DEF TouchSyncVersion, Requires
    <2>3. Progress(rec) => Progress(e) /\ Said(r, e)
      BY <2>1, <2>2
      DEF Progress, Said, SameTask, BeforeUpdate, AfterUpdate, FileTells, RightSize
    <2>4. "touch" \in AfterUpdate
      BY DEF AfterUpdate
    <2> QED
      BY <1>1, <2>2, <2>3, <2>4, RequiresKeeps
  <1>4. CASE ReadRowBack(r)
    <2> DEFINE holds == row = Scene(rec.wanted)
    <2>1. PICK e \in Processes :
            /\ e = Over(rec, "SUCCESS") /\ e.pc = "ended" /\ e.outcome = "SUCCESS"
            /\ e.wanted = rec.wanted /\ e.sha = rec.sha /\ e.send = rec.send
            /\ e.initial = rec.initial
      BY EndsTyped
    <2>2. Requires(r, "readback", holds, e) /\ rec.pc = "readback" /\ holds \in BOOLEAN
      BY <1>1, <1>4, <2>1 DEF ReadRowBack, Requires
    <2>3. holds => (Progress(rec) => Progress(e) /\ Said(r, e))
      BY <2>1, <2>2 DEF Progress, Said, BeforeUpdate, AfterUpdate, FileTells, RightSize
    <2>4. "readback" \in AfterUpdate
      BY DEF AfterUpdate
    <2> HIDE DEF holds
    <2> QED
      BY <1>1, <2>2, <2>3, <2>4, RequiresKeeps
  <1>5. CASE VerifyHashes(r)
    <2>1. PICK e \in Processes :
            e = [rec EXCEPT !.pc = "move"] /\ e.pc = "move" /\ SameTask(e, rec)
      BY StepsOn DEF BeforeUpdate
    <2>2. /\ Requires(r, "hash", HashesAgree(rec), e) /\ rec.pc = "hash"
          /\ HashesAgree(rec) \in BOOLEAN
      BY <1>1, <1>5, <2>1 DEF VerifyHashes, Requires, HashesAgree
    <2>3. HashesAgree(rec) => (Progress(rec) => Progress(e) /\ Said(r, e))
      BY <2>1, <2>2 DEF Progress, Said, SameTask, BeforeUpdate, AfterUpdate, RightSize, HashesAgree
    <2>4. "hash" \in BeforeUpdate
      BY DEF BeforeUpdate
    <2> QED
      BY <1>1, <2>2, <2>3, <2>4, RequiresKeeps
  <1> QED
    BY <1>2, <1>3, <1>4, <1>5

\* Steps 4 and 5: what is not sent is on the cashbox in its size.
LEMMA InventoryKeeps ==
  ASSUME ScriptInv, NEW r \in Runs, GetInventory(r)
  PROVE  ScriptInv'
  <1> PICK rec \in Processes : rec = runs[r]
    BY AloneHas
  <1> DEFINE Next4(send) == [rec EXCEPT !.pc = "scene", !.send = send]
  <1>1. rec.pc = "inventory" /\ UNCHANGED <<scriptFiles, scriptHistory>>
    BY DEF GetInventory
  <1>2. CASE Throw(r)
    BY <1>1, <1>2, ThrowStays DEF BeforeUpdate, scriptHistory
  <1>3. ASSUME NEW send \in SUBSET rec.wanted, Becomes(r, Next4(send)),
               \A f \in rec.wanted \ send : RightSize(rec, f)
        PROVE  ScriptInv'
    <2>1. PICK e \in Processes :
            /\ e = Next4(send) /\ e.pc = "scene" /\ e.send = send /\ e.wanted = rec.wanted
            /\ e.sha = rec.sha /\ e.initial = rec.initial /\ e.outcome = rec.outcome
      <3> DEFINE d == Next4(send)
      <3>1. d \in ProcessRecords /\ d.pc = "scene"
               /\ d.initial = rec.initial /\ d.wanted = rec.wanted /\ d.sha = rec.sha
               /\ d.send = send /\ d.outcome = rec.outcome
        BY <1>3 DEF Processes, ProcessRecords, BeforeUpdate
      <3>2. d \in Processes
        BY <3>1 DEF Processes
      <3> QED
        BY <3>1, <3>2
    <2>2. Progress(rec) => Progress(e) /\ Said(r, e)
      BY <1>1, <1>3, <2>1 DEF Progress, Said, BeforeUpdate, AfterUpdate, RightSize
    <2>3. Active(r)
      BY <1>1 DEF Active
    <2>4. Becomes(r, e)
      BY <1>3, <2>1
    <2> QED
      BY <1>1, <2>1, <2>2, <2>3, <2>4, GoesOn
  <1>4. /\ DiffBySize(rec, uploads) \in SUBSET rec.wanted
        /\ \A f \in rec.wanted \ DiffBySize(rec, uploads) : RightSize(rec, f)
    BY DEF DiffBySize, RightSize
  <1>5. \/ Throw(r) \/ Becomes(r, Next4(DiffBySize(rec, uploads))) \/ Becomes(r, Next4(rec.wanted))
    BY DEF GetInventory
  <1> HIDE DEF Next4
  <1> QED
    BY <1>2, <1>3, <1>4, <1>5

\* The row as it is read, or the answer of a query that failed.
LEMMA RowKeeps ==
  ASSUME ScriptInv, NEW r \in Runs, ReadRow(r)
  PROVE  ScriptInv'
  <1> PICK rec \in Processes : rec = runs[r]
    BY AloneHas
  <1> DEFINE Noted(s) == [rec EXCEPT !.initial = s]
             Next5(s) == [rec EXCEPT !.initial = s, !.pc = "stage"]
  <1>1. /\ rec.pc = "scene" /\ UNCHANGED <<scriptFiles, scriptHistory>>
        /\ row \in ScriptRows
    BY AloneHas DEF ReadRow
  <1>2. Active(r)
    BY <1>1 DEF Active
  <1>3. CASE Throw(r)
    BY <1>1, <1>3, ThrowStays DEF BeforeUpdate, scriptHistory
  <1>4. ASSUME NEW s \in {row, Unknown}, rec.send = {}, s = Scene(rec.wanted),
               Becomes(r, Over(Noted(s), "NO_OP"))
        PROVE  ScriptInv'
    <2>1. s = row
      BY <1>1, <1>4, RowsApart DEF Processes, ProcessRecords
    <2>2. PICK n \in Processes :
            /\ n = Noted(s) /\ n.initial = row /\ n.wanted = rec.wanted
            /\ n.sha = rec.sha /\ n.send = rec.send
      <3> DEFINE d == Noted(s)
      <3>1. d \in ProcessRecords /\ d.pc = "scene"
               /\ d.initial = row /\ d.wanted = rec.wanted /\ d.sha = rec.sha
               /\ d.send = rec.send /\ d.outcome = rec.outcome
        BY <1>1, <2>1 DEF Processes, ProcessRecords
      <3>2. d \in Processes
        BY <3>1 DEF Processes
      <3> QED
        BY <3>1, <3>2
    <2>3. PICK e \in Processes :
            /\ e = Over(n, "NO_OP") /\ e.pc = "ended" /\ e.outcome = "NO_OP"
            /\ e.wanted = n.wanted /\ e.sha = n.sha /\ e.send = n.send
            /\ e.initial = n.initial
      BY EndsTyped
    <2>4. Becomes(r, e)
      BY <1>4, <2>2, <2>3
    <2>5. ASSUME Progress(rec) PROVE Progress(e) /\ Said(r, e)
      <3>1. row = rowThen /\ e.send = {} /\ e.initial = row /\ e.wanted = rec.wanted
            /\ e.sha = rec.sha
        BY <1>1, <1>4, <2>2, <2>3, <2>5 DEF Progress, BeforeUpdate
      <3>2. \A f \in rec.wanted \ missed : RightSize(rec, f)
        BY <1>1, <1>4, <2>5 DEF Progress
      <3>3. Progress(e)
        BY <2>3, <2>5, <3>1 DEF Progress, BeforeUpdate, AfterUpdate
      <3>4. Said(r, e)
        BY <1>4, <2>1, <2>3, <3>1, <3>2 DEF Said, RightSize, FileTells
      <3> QED
        BY <3>3, <3>4
    <2> QED
      BY <1>1, <1>2, <2>3, <2>4, <2>5, GoesOn
  <1>5. ASSUME NEW s \in {row, Unknown}, Becomes(r, Next5(s))
        PROVE  ScriptInv'
    <2>1. PICK e \in Processes :
            /\ e = Next5(s) /\ e.pc = "stage" /\ e.initial = s /\ e.wanted = rec.wanted
            /\ e.sha = rec.sha /\ e.send = rec.send /\ e.outcome = rec.outcome
      <3> DEFINE d == Next5(s)
      <3>1. d \in ProcessRecords /\ d.pc = "stage"
               /\ d.initial = s /\ d.wanted = rec.wanted /\ d.sha = rec.sha
               /\ d.send = rec.send /\ d.outcome = rec.outcome
        BY <1>1, <1>5 DEF Processes, ProcessRecords, BeforeUpdate
      <3>2. d \in Processes
        BY <3>1 DEF Processes
      <3> QED
        BY <3>1, <3>2
    <2>2. Becomes(r, e)
      BY <1>5, <2>1
    <2>3. Progress(rec) => Progress(e) /\ Said(r, e)
      BY <1>1, <1>5, <2>1 DEF Progress, Said, BeforeUpdate, AfterUpdate, RightSize
    <2> QED
      BY <1>1, <1>2, <2>1, <2>2, <2>3, GoesOn
  <1>6. \/ Throw(r)
        \/ \E s \in {row, Unknown} :
             \/ rec.send = {} /\ s = Scene(rec.wanted) /\ Becomes(r, Over(Noted(s), "NO_OP"))
             \/ Becomes(r, Next5(s))
    BY DEF ReadRow
  <1> HIDE DEF Next5, Noted
  <1> QED
    BY <1>3, <1>4, <1>5, <1>6

\* Step 6.
LEMMA StageKeeps ==
  ASSUME ScriptInv, NEW r \in Runs, StageFiles(r)
  PROVE  ScriptInv'
  <1>1. PICK rec \in Processes : rec = runs[r]
    BY AloneHas
  <1> DEFINE copies == [f \in Files |-> IF f \in rec.send THEN mediaDir[f] ELSE Nothing]
             pc == IF rec.send = {} THEN "snapshot" ELSE "hash"
  <1>2. copies \in Held /\ pc \in BeforeUpdate
    BY AloneHas DEF Held, BeforeUpdate
  <1>3. Requires(r, "stage", TRUE, [rec EXCEPT !.pc = pc, !.staged = copies]) /\ rec.pc = "stage"
    BY <1>1 DEF StageFiles, Requires
  <1>5. (pc = "snapshot" /\ rec.send = {}) \/ pc = "hash"
    OBVIOUS
  <1> HIDE DEF pc, copies
  <1>4. PICK e \in Processes :
          /\ e = [rec EXCEPT !.pc = pc, !.staged = copies] /\ e.pc = pc
          /\ e.initial = rec.initial /\ e.wanted = rec.wanted
          /\ e.sha = rec.sha /\ e.send = rec.send /\ e.outcome = rec.outcome
    <2> DEFINE d == [rec EXCEPT !.pc = pc, !.staged = copies]
    <2>1. d \in ProcessRecords /\ d.pc = pc
             /\ d.initial = rec.initial /\ d.wanted = rec.wanted /\ d.sha = rec.sha
             /\ d.send = rec.send /\ d.outcome = rec.outcome
      BY <1>2 DEF Processes, ProcessRecords
    <2>2. d \in Processes
      BY <1>5, <2>1 DEF Processes
    <2> QED
      BY <2>1, <2>2
  <1>6. Progress(rec) => Progress(e) /\ Said(r, e)
    BY <1>3, <1>4, <1>5 DEF Progress, Said, BeforeUpdate, AfterUpdate, RightSize, FileTells
  <1>7. "stage" \in BeforeUpdate
    BY DEF BeforeUpdate
  <1> QED
    BY <1>1, <1>3, <1>4, <1>6, <1>7, RequiresKeeps

\* Step 8: what is not moved is noted.
LEMMA MoveKeeps ==
  ASSUME ScriptInv, NEW r \in Runs, MoveFiles(r)
  PROVE  ScriptInv'
  <1>1. PICK rec \in Processes :
          rec = runs[r] /\ (single /\ lastRun = r => Progress(rec)) /\ rec.pc = "move"
    BY AloneHas DEF MoveFiles
  <1>0. PICK e \in Processes : e = [rec EXCEPT !.pc = "snapshot"] /\ e.pc = "snapshot"
                               /\ SameTask(e, rec)
    BY StepsOn DEF BeforeUpdate
  <1>9. mediaDir \in Held /\ uploads \in Held /\ row \in ScriptRows
    BY AloneHas
  <1>2. PICK moved \in SUBSET rec.send :
          /\ uploads' = [f \in Files |-> IF f \in moved THEN rec.staged[f] ELSE uploads[f]]
          /\ missed' = (missed \ rec.send) \cup (rec.send \ moved)
          /\ Becomes(r, e) \/ Throw(r)
    BY <1>0, <1>1 DEF MoveFiles
  <1>3. UNCHANGED <<mediaDir, row, lastRun, rowThen, single, unrolled>>
    BY DEF MoveFiles
  <1>4. uploads' \in Held /\ rec.send \subseteq Files /\ rec.wanted \subseteq Files
    BY <1>9, <1>2 DEF Processes, ProcessRecords, Held
  <1>5. CASE Throw(r)
    BY <1>1, <1>3, <1>4, <1>5, <1>9, ThrowKeeps DEF BeforeUpdate, Progress
  <1>6. CASE Becomes(r, e)
    <2>2. Active(r) /\ runs' = [runs EXCEPT ![r] = e]
      BY <1>1, <1>6 DEF Active, Becomes
    <2>3. ASSUME single, lastRun = r PROVE Progress(e)' /\ Said(r, e)'
      <3>1. Progress(rec) /\ rec.outcome = "none" /\ rec.send \subseteq rec.wanted
        BY <1>1, <2>3 DEF Progress, BeforeUpdate
      <3>2. ASSUME NEW f \in rec.wanted \ missed' PROVE FileTells(rec, f)'
        <4>1. CASE f \in rec.send
          <5>1. uploads'[f] = rec.staged[f]
            BY <1>2, <1>4, <3>2, <4>1
          <5>2. rec.staged[f] = rec.sha[f] /\ rec.sha[f] # Nothing
            BY <1>1, <3>1, <4>1, <3>2 DEF Progress, BeforeUpdate
          <5> QED
            BY <5>1, <5>2 DEF FileTells, RightSize
        <4>2. CASE f \notin rec.send
          <5>1. uploads'[f] = uploads[f] /\ f \notin missed
            BY <1>2, <1>4, <3>2, <4>2
          <5>2. RightSize(rec, f)
            BY <1>1, <3>1, <3>2, <4>2, <5>1 DEF Progress
          <5> QED
            BY <4>2, <5>1, <5>2 DEF FileTells, RightSize
        <4> QED
          BY <4>1, <4>2
      <3>3. Progress(e)'
        BY <1>1, <1>3, <1>0, <3>1, <3>2
        DEF Progress, SameTask, BeforeUpdate, AfterUpdate, FileTells, RightSize
      <3>4. Said(r, e)'
        BY <1>0, <3>1 DEF Said, SameTask
      <3> QED
        BY <3>3, <3>4
    <2> QED
      BY <1>3, <1>4, <1>9, <2>2, <2>3, OnlyAlone
  <1> QED
    BY <1>2, <1>5, <1>6

\* Steps 9 and 15, and what happens to GuestScreen meanwhile.
LEMMA WatchesKeep ==
  ASSUME ScriptInv, NEW r \in Runs, TakeBaseline(r) \/ VerifyStable(r) \/ Disturb(r)
  PROVE  ScriptInv'
  <1> PICK rec \in Processes : rec = runs[r]
    BY AloneHas
  <1>1. UNCHANGED <<scriptFiles, scriptHistory>>
    BY DEF TakeBaseline, VerifyStable, Disturb
  <1>2. /\ rec.pc \in BeforeUpdate \cup AfterUpdate
        /\ \/ Throw(r)
           \/ /\ rec.pc = "snapshot"
              /\ Becomes(r, [rec EXCEPT !.pc = "update"])
           \/ /\ rec.pc = "snapshot"
              /\ Becomes(r, [rec EXCEPT !.pc = "update", !.blank = TRUE])
           \/ rec.pc = "stable" /\ Becomes(r, [rec EXCEPT !.pc = "readback"])
           \/ Becomes(r, [rec EXCEPT !.same = FALSE])
    BY DEF TakeBaseline, VerifyStable, Disturb, BeforeUpdate, AfterUpdate
  <1>3. Active(r)
    BY <1>2 DEF Active, BeforeUpdate, AfterUpdate
  <1>4. CASE Throw(r)
    BY <1>1, <1>2, <1>4, ThrowStays DEF scriptHistory
  <1>5. ASSUME NEW e \in Processes, SameTask(e, rec), Becomes(r, e),
               \/ rec.pc = "snapshot" /\ e.pc = "update"
               \/ rec.pc = "stable" /\ e.pc = "readback"
               \/ e.pc = rec.pc
        PROVE  ScriptInv'
    <2>1. Progress(rec) => Progress(e) /\ Said(r, e)
      BY <1>2, <1>5 DEF Progress, Said, SameTask, BeforeUpdate, AfterUpdate, FileTells, RightSize
    <2> QED
      BY <1>1, <1>3, <1>5, <2>1, GoesOn
  <1>6. CASE rec.pc = "snapshot" /\ Becomes(r, [rec EXCEPT !.pc = "update"])
    <2>1. PICK e \in Processes :
            e = [rec EXCEPT !.pc = "update"] /\ e.pc = "update" /\ SameTask(e, rec)
      BY StepsOn DEF BeforeUpdate
    <2> QED
      BY <1>5, <1>6, <2>1
  <1>7. CASE rec.pc = "snapshot" /\ Becomes(r, [rec EXCEPT !.pc = "update", !.blank = TRUE])
    <2>1. PICK e \in Processes :
            /\ e = [rec EXCEPT !.pc = "update", !.blank = TRUE] /\ e.pc = "update"
            /\ SameTask(e, rec)
      <3> DEFINE d == [rec EXCEPT !.pc = "update", !.blank = TRUE]
      <3>1. d \in ProcessRecords /\ d.pc = "update" /\ SameTask(d, rec)
        BY DEF Processes, ProcessRecords, SameTask, BeforeUpdate
      <3>2. d \in Processes
        BY <3>1 DEF Processes
      <3> QED
        BY <3>1, <3>2
    <2> QED
      BY <1>5, <1>7, <2>1
  <1>8. CASE rec.pc = "stable" /\ Becomes(r, [rec EXCEPT !.pc = "readback"])
    <2>1. PICK e \in Processes :
            e = [rec EXCEPT !.pc = "readback"] /\ e.pc = "readback" /\ SameTask(e, rec)
      BY StepsOn DEF AfterUpdate
    <2> QED
      BY <1>5, <1>8, <2>1
  <1>9. CASE Becomes(r, [rec EXCEPT !.same = FALSE])
    <2>1. PICK e \in Processes :
            e = [rec EXCEPT !.same = FALSE] /\ e.pc = rec.pc /\ SameTask(e, rec)
      <3> DEFINE d == [rec EXCEPT !.same = FALSE]
      <3>1. d \in ProcessRecords /\ d.pc = rec.pc /\ SameTask(d, rec)
        BY DEF Processes, ProcessRecords, SameTask
      <3>2. d \in Processes
        BY <3>1 DEF Processes, SameTask
      <3> QED
        BY <3>1, <3>2
    <2> QED
      BY <1>5, <1>9, <2>1
  <1> QED
    BY <1>2, <1>4, <1>6, <1>7, <1>8, <1>9

\* Steps 11 and 12.
LEMMA UpdateKeeps ==
  ASSUME ScriptInv, NEW r \in Runs, UpdateRow(r)
  PROVE  ScriptInv'
  <1>1. PICK rec \in Processes :
          rec = runs[r] /\ (single /\ lastRun = r => Progress(rec)) /\ rec.pc = "update"
    BY AloneHas DEF UpdateRow
  <1>7. PICK e \in Processes :
          e = [rec EXCEPT !.pc = "touch"] /\ e.pc = "touch" /\ SameTask(e, rec)
    BY StepsOn DEF AfterUpdate
  <1>8. mediaDir \in Held /\ uploads \in Held /\ row \in ScriptRows /\ ScriptTypeOK
    BY AloneHas DEF ScriptInv
  <1>2. UNCHANGED <<mediaDir, uploads, lastRun, rowThen, single, missed, unrolled>>
    BY DEF UpdateRow, scriptHistory
  <1>3. Scene(rec.wanted) \in ScriptRows /\ Scene(rec.wanted) # NoRow
    BY RowsApart DEF Processes, ProcessRecords
  <1>4. row' \in ScriptRows /\ (row' = NoRow <=> row = NoRow)
    BY <1>1, <1>3, <1>8, ScriptSetsRow DEF UpdateRow
  <1>5. CASE Throw(r)
    BY <1>1, <1>2, <1>4, <1>5, <1>8, ThrowKeeps DEF BeforeUpdate, Progress
  <1>6. CASE Becomes(r, e)
    <2>2. Active(r) /\ runs' = [runs EXCEPT ![r] = e]
      BY <1>1, <1>6 DEF Active, Becomes
    <2>3. ASSUME single, lastRun = r PROVE Progress(e)' /\ Said(r, e)'
      BY <1>1, <1>2, <1>4, <1>7, <2>3
      DEF Progress, Said, SameTask, BeforeUpdate, AfterUpdate, FileTells, RightSize
    <2> QED
      BY <1>2, <1>4, <1>8, <2>2, <2>3, OnlyAlone
  <1> QED
    BY <1>1, <1>5, <1>6, <1>7 DEF UpdateRow

\* The rollback: the row that was read is there again, or a command has failed.
LEMMA RollbackKeeps ==
  ASSUME ScriptInv, NEW r \in Runs, Rollback(r)
  PROVE  ScriptInv'
  <1>1. PICK rec \in Processes :
          rec = runs[r] /\ (single /\ lastRun = r => Progress(rec)) /\ rec.pc = "rollback"
    BY AloneHas DEF Rollback
  <1>10. mediaDir \in Held /\ uploads \in Held /\ row \in ScriptRows /\ ScriptTypeOK
    BY AloneHas DEF ScriptInv
  <1>2. UNCHANGED <<mediaDir, uploads, lastRun, rowThen, single, missed>>
    BY DEF Rollback
  <1>3. PICK o \in {"ROLLED_BACK", "ROLLBACK_FAILED"} : runs' = [runs EXCEPT ![r] = Over(rec, o)]
    BY <1>1 DEF Rollback, Becomes
  <1>4. PICK e \in Processes :
          /\ e = Over(rec, o) /\ e.pc = "ended" /\ e.outcome = o /\ e.wanted = rec.wanted
          /\ e.sha = rec.sha /\ e.send = rec.send /\ e.initial = rec.initial
    BY EndsTyped
  <1>5. Active(r) /\ runs' = [runs EXCEPT ![r] = e]
    BY <1>1, <1>3, <1>4 DEF Active
  <1>6. row' \in {row, rec.initial} /\ (row = NoRow => row' = row)
    BY <1>1 DEF Rollback, RunSqliteScript
  <1>7. rec.initial \in ScriptRows \ {NoRow}
    BY <1>1, RowsApart DEF Processes, ProcessRecords
  <1>8. row' \in ScriptRows /\ (row' = NoRow <=> row = NoRow)
    BY <1>10, <1>6, <1>7
  <1>9. ASSUME single, lastRun = r PROVE Progress(e)' /\ Said(r, e)'
    <2>1. Progress(rec) /\ rec.initial = rowThen
      BY <1>1, <1>7, <1>9, RowsApart DEF Progress
    <2>2. row' = rec.initial \/ r \in unrolled'
      BY <1>1, <1>7, <2>1 DEF Rollback, RunSqliteScript, Progress
    <2>3. Progress(e)'
      BY <1>2, <1>4, <1>8, <1>9, <2>1 DEF Progress, BeforeUpdate, AfterUpdate
    <2>4. Said(r, e)'
      BY <1>2, <1>4, <2>1, <2>2 DEF Said
    <2> QED
      BY <2>3, <2>4
  <1> QED
    BY <1>2, <1>4, <1>5, <1>8, <1>9, <1>10, OnlyAlone

\* Every step of every process keeps what a process that is alone has brought about.
LEMMA ScriptStep == ScriptInv /\ [ScriptNext]_scriptVars => ScriptInv'
  <1> SUFFICES ASSUME ScriptInv, [ScriptNext]_scriptVars PROVE ScriptInv'
    OBVIOUS
  <1>1. CASE UNCHANGED <<uploads, row, runs, lastRun, rowThen, single, missed, unrolled>>
             /\ mediaDir' \in Held
    BY <1>1
    DEF ScriptInv, ScriptTypeOK, AloneInv, Active, Progress, FileTells, RightSize, ScriptTells,
        ScriptDoneIsShown, ScriptFailureUndone
  <1>2. ASSUME NEW f \in Files, NEW c \in Contents, PutMedia(f, c) PROVE ScriptInv'
    <2>1. mediaDir' \in Held
      BY <1>2 DEF PutMedia, ScriptInv, ScriptTypeOK, Held
    <2> QED
      BY <1>1, <1>2, <2>1 DEF PutMedia
  <1>3. CASE NewSetting
    BY <1>1, <1>3 DEF NewSetting, scriptHistory, ScriptInv, ScriptTypeOK
  <1>4. CASE UNCHANGED scriptVars
    BY <1>1, <1>4 DEF scriptVars, scriptFiles, scriptHistory, ScriptInv, ScriptTypeOK
  <1> QED
    BY <1>2, <1>3, <1>4, LaunchKeeps, LooksKeep, InventoryKeeps, RowKeeps, StageKeeps, MoveKeeps,
       WatchesKeep, UpdateKeeps, RollbackKeeps DEF ScriptNext, ExecuteDeployment

\* For any files, processes and failures: what the last process says of the files and of the row
\* is so, if it ran alone, but for the moves and the rollback that the script does not look at.
THEOREM ScriptAlwaysTells == ScriptSpec => []ScriptTells
  <1>1. ScriptInit => ScriptInv
    <2> SUFFICES ASSUME ScriptInit PROVE ScriptInv
      OBVIOUS
    <2>1. [f \in Files |-> Nothing] \in Held
      BY DEF Held
    <2>2. NotYet \in Processes /\ NotYet.pc = "none"
      BY <2>1 DEF NotYet, Processes, ProcessRecords
    <2>3. ScriptTypeOK
      BY <2>1, <2>2 DEF ScriptInit, ScriptTypeOK, ScriptRows
    <2>4. AloneInv
      BY <2>2 DEF ScriptInit, AloneInv, Active
    <2>5. ScriptTells
      BY DEF ScriptInit, ScriptTells, ScriptDoneIsShown, ScriptFailureUndone
    <2> QED
      BY <2>3, <2>4, <2>5 DEF ScriptInv
  <1>2. ScriptInv => ScriptTells
    BY DEF ScriptInv
  <1> QED
    BY <1>1, <1>2, ScriptStep, PTL DEF ScriptSpec

-----------------------------------------------------------------------------
(* What the door bot answers: DoorBot.                                     *)

MemberRows == [role : {"none", "user", "admin"}, active : BOOLEAN]
Cards == [of : Ids, active : BOOLEAN]
Waits == {[kind |-> "nothing"], [kind |-> "id"]} \cup [kind : {"name", "rename"}, of : Ids]

BotTypeOK ==
  /\ members \in [Ids -> MemberRows]
  /\ cards \in [Chats -> SUBSET Cards]
  /\ expects \in [Chats -> Waits]
  /\ DOMAIN modes = Doors /\ DOMAIN told = Doors

\* A card that counts as up to date shows its member's activity.
CardsInv == \A u \in Chats : \A k \in cards[u] : k.active = members[k.of].active

BotInv == BotTypeOK /\ CardsInv /\ BotIsTrue

-----------------------------------------------------------------------------

\* A member's card is about the row it is built from.
LEMMA CardShows ==
  ASSUME NEW t \in Ids, NEW r \in MemberRows
  PROVE  Card(t, r) \in Cards /\ Card(t, r).of = t /\ Card(t, r).active = r.active
  BY DEF Card, Cards, MemberRows

\* What an update that leaves the doors alone has to keep.
LEMMA DoorsStay ==
  ASSUME BotInv, UNCHANGED doorVars, members' \in [Ids -> MemberRows],
         cards' \in [Chats -> SUBSET Cards], CardsInv', MainIsKept', misled' = misled,
         expects' \in [Chats -> Waits]
  PROVE  BotInv'
  <1>1. BotTypeOK' /\ BotIsTrue'
    BY DEF BotInv, BotTypeOK, BotIsTrue, ButtonsTell, DoorsAsTold, doorVars
  <1> QED
    BY <1>1 DEF BotInv

\* What a chat's next text is taken for.
LEMMA SaysTyped ==
  ASSUME BotInv, NEW u \in Chats,
         expects' = expects \/ \E e \in Waits : Says(u, e)
  PROVE  expects' \in [Chats -> Waits]
  BY DEF BotInv, BotTypeOK, Says

\* An update that may show a card, and changes no row.
LEMMA LooksKeeps ==
  ASSUME BotInv, NEW u \in Chats, UNCHANGED <<members, misled, doorVars>>,
         UNCHANGED cards \/ \E t \in Ids : ShowsCard(u, t),
         expects' = expects \/ \E e \in Waits : Says(u, e)
  PROVE  BotInv'
  <1>1. /\ members \in [Ids -> MemberRows] /\ cards \in [Chats -> SUBSET Cards]
        /\ MainIsKept /\ CardsInv
    BY DEF BotInv, BotTypeOK, BotIsTrue
  <1>2. MainIsKept'
    BY <1>1 DEF MainIsKept, InTable
  <1>3. CASE UNCHANGED cards
    <2>1. CardsInv'
      BY <1>1, <1>3 DEF CardsInv
    <2> QED
      BY <1>1, <1>2, <1>3, <2>1, SaysTyped, DoorsStay
  <1>4. ASSUME NEW t \in Ids, cards' = [cards EXCEPT ![u] = @ \cup {Card(t, members[t])}]
        PROVE  BotInv'
    <2>1. /\ Card(t, members[t]) \in Cards /\ Card(t, members[t]).of = t
          /\ Card(t, members[t]).active = members[t].active
      BY <1>1, CardShows
    <2>2. cards' \in [Chats -> SUBSET Cards]
      BY <1>1, <1>4, <2>1
    <2>3. \A c \in Chats : \A k \in cards'[c] :
            k \in cards[c] \/ k = Card(t, members[t])
      BY <1>1, <1>4
    <2>4. CardsInv'
      BY <1>1, <2>1, <2>3 DEF CardsInv
    <2> QED
      BY <1>1, <1>2, <2>2, <2>4, SaysTyped, DoorsStay
  <1> QED
    BY <1>3, <1>4 DEF ShowsCard

\* The row of a member changes: the cards that show another activity count as outdated.
LEMMA ChangeKeeps ==
  ASSUME BotInv, NEW u \in Chats, NEW t \in Ids, NEW r \in MemberRows,
         SetsMember(u, t, r, {}) \/ SetsMember(u, t, r, {Card(t, r)}),
         t = Main => r.role # "none" /\ r.active,
         UNCHANGED <<misled, doorVars>>, expects' = expects \/ Says(u, [kind |-> "nothing"])
  PROVE  BotInv'
  <1>1. /\ members \in [Ids -> MemberRows] /\ cards \in [Chats -> SUBSET Cards]
        /\ MainIsKept /\ CardsInv
    BY DEF BotInv, BotTypeOK, BotIsTrue
  <1>2. /\ members' = [members EXCEPT ![t] = r]
        /\ \A c \in Chats : \A k \in cards'[c] :
             \/ k = Card(t, r)
             \/ k \in cards[c] /\ (k.of = t => r.active = members[t].active)
        /\ DOMAIN cards' = Chats
    BY DEF SetsMember
  <1>3. /\ members' \in [Ids -> MemberRows] /\ members'[t] = r
        /\ \A i \in Ids \ {t} : members'[i] = members[i]
    BY <1>1, <1>2
  <1>4. MainIsKept'
    BY <1>1, <1>3, BotAssumption DEF MainIsKept, InTable
  <1>5. ASSUME NEW c \in Chats, NEW k \in cards'[c]
        PROVE  k \in Cards /\ k.active = members'[k.of].active
    <2>1. CASE k = Card(t, r)
      BY <1>3, <2>1, CardShows
    <2>2. CASE k \in cards[c] /\ (k.of = t => r.active = members[t].active)
      <3>1. k \in Cards /\ k.active = members[k.of].active /\ k.of \in Ids
        BY <1>1, <2>2 DEF CardsInv, Cards
      <3> QED
        BY <1>3, <2>2, <3>1
    <2> QED
      BY <1>2, <2>1, <2>2
  <1>6. cards' = [c \in Chats |-> cards'[c]]
    BY DEF SetsMember
  <1>7. cards' \in [Chats -> SUBSET Cards] /\ CardsInv'
    BY <1>5, <1>6 DEF CardsInv
  <1>8. [kind |-> "nothing"] \in Waits
    BY DEF Waits
  <1> QED
    BY <1>3, <1>4, <1>7, <1>8, SaysTyped, DoorsStay

\* What a new user and one who is deleted become, and what a chat may wait for.
LEMMA NewRows ==
  /\ [role |-> "user", active |-> TRUE] \in MemberRows
  /\ [role |-> "user", active |-> TRUE].role # "none"
  /\ [role |-> "user", active |-> TRUE].active
  /\ Nobody \in MemberRows
  /\ [kind |-> "nothing"] \in Waits /\ [kind |-> "id"] \in Waits
  /\ \A t \in Ids : [kind |-> "name", of |-> t] \in Waits /\ [kind |-> "rename", of |-> t] \in Waits
  BY DEF MemberRows, Nobody, Waits

\* Texts: a number, a number and a name, or another text.
LEMMA TextKeeps ==
  ASSUME BotInv, NEW u \in Chats, NEW id \in Ids, TextMessageHandler(u, id)
  PROVE  BotInv'
  <1>1. expects[u].kind \in {"name", "rename"} => expects[u].of \in Ids
    BY DEF BotInv, BotTypeOK, Waits
  <1>2. UNCHANGED <<misled, doorVars>>
    BY DEF TextMessageHandler
  <1>3. CASE AddUser(u, id) /\ Says(u, [kind |-> "nothing"])
    BY <1>2, <1>3, NewRows, ChangeKeeps DEF AddUser
  <1>4. CASE Says(u, [kind |-> "name", of |-> id]) /\ UNCHANGED <<members, cards>>
    BY <1>2, <1>4, NewRows, LooksKeeps
  <1>5. CASE /\ expects[u].kind = "name" /\ Says(u, [kind |-> "nothing"])
             /\ AddUser(u, expects[u].of)
    BY <1>1, <1>2, <1>5, NewRows, ChangeKeeps DEF AddUser
  <1>6. CASE /\ expects[u].kind = "rename" /\ Says(u, [kind |-> "nothing"])
             /\ ShowsCard(u, expects[u].of) /\ UNCHANGED members
    <2>1. PICK t \in Ids : ShowsCard(u, t)
      BY <1>1, <1>6
    <2> QED
      BY <1>2, <1>6, <2>1, NewRows, LooksKeeps
  <1> QED
    BY <1>3, <1>4, <1>5, <1>6 DEF TextMessageHandler

\* The commands and the buttons that at most show a card.
LEMMA ButtonsKeep ==
  ASSUME BotInv, NEW u \in Chats, NEW t \in Ids,
         \/ StartHandler(u) \/ AdminMenu(u) \/ ViewUser(u, t)
         \/ AddUserPrompt(u) \/ RenamePrompt(u, t)
  PROVE  BotInv'
  <1>1. /\ UNCHANGED <<members, misled, doorVars>>
        /\ \E e \in Waits : Says(u, e)
        /\ UNCHANGED cards \/ ShowsCard(u, t)
    BY NewRows DEF StartHandler, AdminMenu, ViewUser, AddUserPrompt, RenamePrompt, tableVars
  <1> QED
    BY <1>1, LooksKeeps

\* The commands and the buttons that add, change or delete a member: a toggle finds the activity
\* that an up-to-date card shows.
LEMMA ChangesKeep ==
  ASSUME BotInv, NEW u \in Chats, NEW t \in Ids, NEW role \in {"user", "admin"},
         \/ AdminAddUserCmd(u, t) \/ AdminDelUserCmd(u, t)
         \/ RoleUser(u, t, role) \/ ToggleUser(u, t) \/ DeleteExecute(u, t)
  PROVE  BotInv'
  <1>1. members \in [Ids -> MemberRows] /\ CardsInv
    BY DEF BotInv, BotTypeOK
  <1>2. CASE AdminAddUserCmd(u, t)
    BY <1>2, NewRows, ChangeKeeps DEF AdminAddUserCmd, AddUser
  <1>3. CASE AdminDelUserCmd(u, t) \/ DeleteExecute(u, t)
    BY <1>3, NewRows, ChangeKeeps DEF AdminDelUserCmd, DeleteExecute, Changeable
  <1>4. CASE RoleUser(u, t, role)
    <2> DEFINE r == [members[t] EXCEPT !.role = role]
    <2>1. r \in MemberRows
      BY <1>1 DEF MemberRows
    <2>2. /\ SetsMember(u, t, r, {}) \/ SetsMember(u, t, r, {Card(t, r)})
          /\ t # Main /\ UNCHANGED <<misled, doorVars, expects>>
      BY <1>4 DEF RoleUser, ChangesMember, Changeable
    <2> HIDE DEF r
    <2> QED
      BY <2>1, <2>2, ChangeKeeps
  <1>5. CASE ToggleUser(u, t)
    <2> DEFINE r == [members[t] EXCEPT !.active = ~members[t].active]
    <2>1. r \in MemberRows
      BY <1>1 DEF MemberRows
    <2>2. /\ SetsMember(u, t, r, {}) \/ SetsMember(u, t, r, {Card(t, r)})
          /\ t # Main /\ UNCHANGED <<doorVars, expects>>
      BY <1>5 DEF ToggleUser, ChangesMember, Changeable
    <2>3. misled' = misled
      BY <1>1, <1>5 DEF ToggleUser, CardsInv
    <2> HIDE DEF r
    <2> QED
      BY <2>1, <2>2, <2>3, ChangeKeeps
  <1> QED
    BY <1>2, <1>3, <1>4, <1>5

\* The doors: a command that was reported as failed is noted when it is carried out after all.
LEMMA DoorsKeep ==
  ASSUME BotInv, NEW u \in Chats, NEW d \in Doors, NEW cmd, NEW outcome,
         SendDoorCommand(u, d, cmd, outcome) \/ LateCommand(d, cmd)
  PROVE  BotInv'
  <1>1. UNCHANGED <<members, cards, expects, misled>>
    BY DEF SendDoorCommand, LateCommand, tableVars
  <1>2. /\ DOMAIN modes = Doors /\ DOMAIN told = Doors
        /\ \A e \in Doors \ unanswered : modes[e] = told[e]
    BY DEF BotInv, BotTypeOK, BotIsTrue, DoorsAsTold
  <1>3. /\ DOMAIN modes' = Doors /\ DOMAIN told' = Doors
        /\ \A e \in Doors \ unanswered' : modes'[e] = told'[e]
    <2>1. CASE LateCommand(d, cmd)
      BY <1>2, <2>1 DEF LateCommand
    <2>2. CASE SendDoorCommand(u, d, cmd, outcome) /\ outcome = "200"
      BY <1>2, <2>2 DEF SendDoorCommand, Succeeded, After
    <2>3. CASE SendDoorCommand(u, d, cmd, outcome) /\ outcome # "200"
      BY <1>2, <2>3 DEF SendDoorCommand, Succeeded
    <2> QED
      BY <2>1, <2>2, <2>3
  <1> QED
    BY <1>1, <1>3 DEF BotInv, BotTypeOK, CardsInv, BotIsTrue, MainIsKept, InTable, ButtonsTell,
                      DoorsAsTold

\* Every update keeps the table, the cards and the doors as they are told.
LEMMA BotStep == BotInv /\ [BotNext]_botVars => BotInv'
  <1> SUFFICES ASSUME BotInv, [BotNext]_botVars PROVE BotInv'
    OBVIOUS
  <1>1. CASE UNCHANGED botVars
    BY <1>1 DEF botVars, doorVars, tableVars, BotInv, BotTypeOK, CardsInv, BotIsTrue,
                MainIsKept, InTable, ButtonsTell, DoorsAsTold
  <1>2. Main \in Ids /\ Main \in Chats /\ "user" \in {"user", "admin"}
    BY BotAssumption
  <1>3. ASSUME NEW u \in Chats, StartHandler(u) \/ AdminMenu(u) \/ AddUserPrompt(u)
        PROVE  BotInv'
    BY <1>2, <1>3, ButtonsKeep
  <1>4. ASSUME NEW u \in Chats, NEW t \in Ids,
               \/ AdminAddUserCmd(u, t) \/ AdminDelUserCmd(u, t) \/ TextMessageHandler(u, t)
               \/ ViewUser(u, t) \/ RenamePrompt(u, t) \/ ToggleUser(u, t) \/ DeleteExecute(u, t)
        PROVE  BotInv'
    BY <1>2, <1>4, TextKeeps, ButtonsKeep, ChangesKeep
  <1>5. ASSUME NEW u \in Chats, NEW t \in Ids, NEW role \in {"user", "admin"}, RoleUser(u, t, role)
        PROVE  BotInv'
    BY <1>5, ChangesKeep
  <1>6. ASSUME NEW d \in Doors, NEW cmd, LateCommand(d, cmd) PROVE BotInv'
    BY <1>2, <1>6, DoorsKeep
  <1>7. ASSUME NEW u \in Chats, NEW d \in Doors, NEW cmd, NEW outcome,
               SendDoorCommand(u, d, cmd, outcome)
        PROVE  BotInv'
    BY <1>7, DoorsKeep
  <1> QED
    BY <1>1, <1>3, <1>4, <1>5, <1>6, <1>7 DEF BotNext

\* For any chats, members, doors and updates, in any order, with any of the buttons shown so far:
\* the main administrator is kept, no toggle does the opposite of what an up-to-date card says,
\* and a door is in the mode that was told, unless it has carried out a command reported as failed.
THEOREM BotStaysTrue == BotSpec => []BotIsTrue
  <1>1. BotInit => BotInv
    <2> SUFFICES ASSUME BotInit PROVE BotInv
      OBVIOUS
    <2>1. BotTypeOK
      BY DEF BotInit, BotTypeOK, MemberRows, Cards, Waits
    <2>2. CardsInv
      BY DEF BotInit, CardsInv
    <2>3. BotIsTrue
      BY BotAssumption DEF BotInit, BotIsTrue, MainIsKept, InTable, ButtonsTell, DoorsAsTold
    <2> QED
      BY <2>1, <2>2, <2>3 DEF BotInv
  <1>2. BotInv => BotIsTrue
    BY DEF BotInv
  <1> QED
    BY <1>1, <1>2, BotStep, PTL DEF BotSpec

-----------------------------------------------------------------------------
(* The restarts of the fiscal monitor: FiscalMonitor.                      *)

ServiceStates == {"running", "stop_pending", "stopped", "start_pending"}
Commands == [at : {"start", "stop", "restart", "auto", "start_again"}, desk : Desks, was : Nat]

\* Starts are only ever counted up: an operator's call began with no later start than the
\* desk's service is from now.
RestartsInv ==
  /\ services \in [Desks -> [state : ServiceStates, auto : BOOLEAN, from : Nat]]
  /\ operators \in [Operators -> {Ready} \cup Commands]
  /\ \A o \in Operators :
       operators[o] # Ready => operators[o].was <= services[operators[o].desk].from
  /\ RestartsRenew

\* A service counts its starts up, and a start that counts gives it a new one.
LEMMA StartsCountUp ==
  ASSUME NEW s \in [state : ServiceStates, auto : BOOLEAN, from : Nat]
  PROVE  /\ Stopping(s) \in [state : ServiceStates, auto : BOOLEAN, from : Nat]
         /\ Stopping(s).from = s.from
         /\ Starting(s) \in [state : ServiceStates, auto : BOOLEAN, from : Nat]
         /\ Starting(s).from >= s.from
         /\ Restarted(StartCode(s)) => Starting(s).from > s.from
  <1>1. CASE s.state = "stopped"
    <2> DEFINE e == [s EXCEPT !.state = "start_pending", !.from = s.from + 1]
    <2>1. Starting(s) = e /\ Stopping(s) = s
      BY <1>1 DEF Starting, Stopping
    <2>2. s.from \in Nat /\ s.from + 1 \in Nat /\ s.from + 1 > s.from
      OBVIOUS
    <2>3. e \in [state : ServiceStates, auto : BOOLEAN, from : Nat] /\ e.from = s.from + 1
      BY <2>2 DEF ServiceStates
    <2> HIDE DEF e
    <2> QED
      BY <2>1, <2>2, <2>3
  <1>2. CASE s.state # "stopped"
    <2> DEFINE e == [s EXCEPT !.state = "stop_pending"]
    <2>1. Starting(s) = s /\ StartCode(s) = 1056
      BY <1>2 DEF Starting, StartCode
    <2>2. Stopping(s) = s \/ Stopping(s) = e
      BY DEF Stopping
    <2>3. e \in [state : ServiceStates, auto : BOOLEAN, from : Nat] /\ e.from = s.from
      BY DEF ServiceStates
    <2> HIDE DEF e
    <2> QED
      BY <2>1, <2>2, <2>3 DEF Restarted
  <1> QED
    BY <1>1, <1>2

\* Whoever moves one desk's service counts no start down, and what operators wait for stays.
LEMMA DeskKeeps ==
  ASSUME RestartsInv, NEW d \in Desks,
         NEW s \in [state : ServiceStates, auto : BOOLEAN, from : Nat],
         s.from >= services[d].from, services' = [services EXCEPT ![d] = s]
  PROVE  /\ services' \in [Desks -> [state : ServiceStates, auto : BOOLEAN, from : Nat]]
         /\ services'[d] = s
         /\ \A e \in Desks : services'[e].from >= services[e].from
  BY DEF RestartsInv

\* What was not later than an earlier start is not later than a later one.
LEMMA Later == ASSUME NEW x \in Nat, NEW y \in Nat, NEW z \in Nat, x <= y, y <= z PROVE x <= z
  OBVIOUS

\* An operator goes on, or ends.
LEMMA OperatorKeeps ==
  ASSUME RestartsInv, NEW o \in Operators, operators[o] # Ready,
         services' \in [Desks -> [state : ServiceStates, auto : BOOLEAN, from : Nat]],
         \A e \in Desks : services'[e].from >= services[e].from,
         \/ operators' = operators
         \/ operators' = [operators EXCEPT ![o] = Ready]
         \/ operators' = [operators EXCEPT ![o].at = "start_again"]
  PROVE  /\ operators' \in [Operators -> {Ready} \cup Commands]
         /\ \A p \in Operators :
              operators'[p] # Ready => operators'[p].was <= services'[operators'[p].desk].from
  <1>1. /\ operators \in [Operators -> {Ready} \cup Commands]
        /\ services \in [Desks -> [state : ServiceStates, auto : BOOLEAN, from : Nat]]
        /\ \A p \in Operators :
             operators[p] # Ready => operators[p].was <= services[operators[p].desk].from
    BY DEF RestartsInv
  <1>2. ASSUME NEW p \in Operators, operators[p] # Ready
        PROVE  /\ operators[p] \in Commands /\ operators[p].desk \in Desks
               /\ operators[p].was \in Nat
               /\ operators[p].was <= services'[operators[p].desk].from
    <2>1. operators[p] \in Commands /\ operators[p].desk \in Desks /\ operators[p].was \in Nat
      BY <1>1, <1>2 DEF Commands
    <2>2. /\ services[operators[p].desk].from \in Nat /\ services'[operators[p].desk].from \in Nat
          /\ services'[operators[p].desk].from >= services[operators[p].desk].from
      BY <1>1, <2>1
    <2>3. operators[p].was <= services[operators[p].desk].from
      BY <1>1, <1>2
    <2>5. operators[p].was <= services'[operators[p].desk].from
      BY <2>1, <2>2, <2>3, Later
    <2> QED
      BY <2>1, <2>5
  <1> DEFINE e == [operators[o] EXCEPT !.at = "start_again"]
  <1>3. e \in Commands /\ e.desk = operators[o].desk /\ e.was = operators[o].was
    BY <1>2 DEF Commands
  <1>4. PICK n \in {operators[o], Ready, e} : operators' = [operators EXCEPT ![o] = n]
    BY <1>1
  <1> HIDE DEF e
  <1>5. operators'[o] = n /\ \A p \in Operators \ {o} : operators'[p] = operators[p]
    BY <1>1, <1>4
  <1>6. operators' \in [Operators -> {Ready} \cup Commands]
    BY <1>1, <1>3, <1>4
  <1>7. ASSUME NEW p \in Operators, operators'[p] # Ready
        PROVE  operators'[p].was <= services'[operators'[p].desk].from
    <2>1. CASE p = o
      BY <1>2, <1>3, <1>5, <1>7, <2>1
    <2>2. CASE p # o
      BY <1>2, <1>5, <1>7, <2>2
    <2> QED
      BY <2>1, <2>2
  <1> QED
    BY <1>6, <1>7

\* Every step keeps a restart's promise.
LEMMA RestartsStep == RestartsInv /\ [MonitorNext]_monitorVars => RestartsInv'
  <1> SUFFICES ASSUME RestartsInv, [MonitorNext]_monitorVars PROVE RestartsInv'
    OBVIOUS
  <1>a. /\ services \in [Desks -> [state : ServiceStates, auto : BOOLEAN, from : Nat]]
        /\ operators \in [Operators -> {Ready} \cup Commands]
        /\ \A o \in Operators :
             operators[o] # Ready => operators[o].was <= services[operators[o].desk].from
        /\ RestartsRenew
    BY DEF RestartsInv
  <1>b. ASSUME NEW o \in Operators, operators[o] # Ready
        PROVE  /\ operators[o].desk \in Desks /\ operators[o].was \in Nat
               /\ services[operators[o].desk]
                    \in [state : ServiceStates, auto : BOOLEAN, from : Nat]
               /\ operators[o].was <= services[operators[o].desk].from
    BY <1>a, <1>b DEF Commands
  <1>1. CASE UNCHANGED <<services, operators, renewed>>
    BY <1>1 DEF RestartsInv, RestartsRenew
  <1>2. ASSUME NEW d \in Desks, ServiceMoves(d) PROVE RestartsInv'
    <2>1. PICK state \in ServiceStates : services' = [services EXCEPT ![d].state = state]
      BY <1>2 DEF ServiceMoves, ServiceStates
    <2> DEFINE s == [services[d] EXCEPT !.state = state]
    <2>2. /\ s \in [state : ServiceStates, auto : BOOLEAN, from : Nat] /\ s.from = services[d].from
          /\ services' = [services EXCEPT ![d] = s]
      BY <1>a, <2>1
    <2> HIDE DEF s
    <2>3. /\ services' \in [Desks -> [state : ServiceStates, auto : BOOLEAN, from : Nat]]
          /\ \A e \in Desks : services'[e].from = services[e].from
      BY <1>a, <2>2
    <2>4. UNCHANGED <<operators, renewed>>
      BY <1>2 DEF ServiceMoves
    <2>5. \A o \in Operators :
            operators[o] # Ready => operators[o].was <= services'[operators[o].desk].from
      BY <1>a, <1>b, <2>3
    <2> QED
      BY <1>a, <2>3, <2>4, <2>5 DEF RestartsInv, RestartsRenew
  <1>3. ASSUME NEW o \in Operators, NEW d \in Desks,
               NEW action \in {"start", "stop", "restart", "auto"}, Calls(o, d, action)
        PROVE  RestartsInv'
    <2> DEFINE e == [at |-> action, desk |-> d, was |-> services[d].from]
    <2>1. e \in Commands /\ e.desk = d /\ e.was = services[d].from /\ services[d].from \in Nat
      BY <1>a DEF Commands
    <2>2. operators' = [operators EXCEPT ![o] = e] /\ UNCHANGED <<services, renewed>>
      BY <1>3 DEF Calls
    <2> HIDE DEF e
    <2>3. operators' \in [Operators -> {Ready} \cup Commands]
      BY <1>a, <2>1, <2>2
    <2>4. \A p \in Operators :
            operators'[p] # Ready => operators'[p].was <= services'[operators'[p].desk].from
      BY <1>a, <2>1, <2>2
    <2> QED
      BY <1>a, <2>2, <2>3, <2>4 DEF RestartsInv, RestartsRenew
  <1>4. ASSUME NEW o \in Operators, Stops(o) PROVE RestartsInv'
    <2> DEFINE d == operators[o].desk
    <2>0. operators[o].at \in {"stop", "restart"}
      BY <1>4 DEF Stops
    <2>1. operators[o] # Ready
      BY <2>0 DEF Ready
    <2>2. d \in Desks /\ services[d] \in [state : ServiceStates, auto : BOOLEAN, from : Nat]
      BY <1>b, <2>1
    <2>3. services' = services \/ services' = [services EXCEPT ![d] = Stopping(services[d])]
      BY <1>4 DEF Stops
    <2>4. \/ operators' = [operators EXCEPT ![o] = Ready]
          \/ operators' = [operators EXCEPT ![o].at = "start_again"]
      BY <1>4 DEF Stops, Ends
    <2> HIDE DEF d
    <2>5. /\ services' \in [Desks -> [state : ServiceStates, auto : BOOLEAN, from : Nat]]
          /\ \A e \in Desks : services'[e].from >= services[e].from
      BY <1>a, <2>2, <2>3, StartsCountUp
    <2>6. /\ operators' \in [Operators -> {Ready} \cup Commands]
          /\ \A p \in Operators :
               operators'[p] # Ready => operators'[p].was <= services'[operators'[p].desk].from
      BY <2>1, <2>4, <2>5, OperatorKeeps
    <2>7. UNCHANGED renewed
      BY <1>4 DEF Stops
    <2> QED
      BY <1>a, <2>5, <2>6, <2>7 DEF RestartsInv, RestartsRenew
  <1>5. ASSUME NEW o \in Operators, Starts(o) PROVE RestartsInv'
    <2> DEFINE d == operators[o].desk
    <2>0. operators[o].at \in {"start", "start_again"}
      BY <1>5 DEF Starts
    <2>1. operators[o] # Ready
      BY <2>0 DEF Ready
    <2>2. /\ d \in Desks /\ services[d] \in [state : ServiceStates, auto : BOOLEAN, from : Nat]
          /\ operators[o].was \in Nat /\ operators[o].was <= services[d].from
      BY <1>b, <2>1
    <2>3. services' = services \/ services' = [services EXCEPT ![d] = Starting(services[d])]
      BY <1>5 DEF Starts
    <2>4. operators' = [operators EXCEPT ![o] = Ready]
      BY <1>5 DEF Starts, Ends
    <2>5. \/ renewed' = renewed
          \/ /\ services' = [services EXCEPT ![d] = Starting(services[d])]
             /\ Restarted(StartCode(services[d]))
             /\ renewed' = renewed \cup {<<operators[o].was, services'[d].from>>}
      BY <1>5 DEF Starts
    <2> HIDE DEF d
    <2>6. /\ services' \in [Desks -> [state : ServiceStates, auto : BOOLEAN, from : Nat]]
          /\ \A e \in Desks : services'[e].from >= services[e].from
      BY <1>a, <2>2, <2>3, StartsCountUp
    <2>7. /\ operators' \in [Operators -> {Ready} \cup Commands]
          /\ \A p \in Operators :
               operators'[p] # Ready => operators'[p].was <= services'[operators'[p].desk].from
      BY <2>1, <2>4, <2>6, OperatorKeeps
    <2>8. RestartsRenew'
      <3>1. CASE renewed' = renewed
        BY <1>a, <3>1 DEF RestartsRenew
      <3>2. CASE renewed' # renewed
        <4>1. services'[d] = Starting(services[d])
          BY <1>a, <2>2, <2>5, <3>2
        <4>2. services'[d].from > services[d].from /\ services'[d].from \in Nat
              /\ services[d].from \in Nat
          BY <2>2, <2>5, <3>2, <4>1, StartsCountUp
        <4>3. services'[d].from > operators[o].was
          BY <2>2, <4>2
        <4> QED
          BY <1>a, <2>5, <3>2, <4>3 DEF RestartsRenew
      <3> QED
        BY <3>1, <3>2
    <2> QED
      BY <2>6, <2>7, <2>8 DEF RestartsInv
  <1>6. ASSUME NEW o \in Operators, Configures(o) PROVE RestartsInv'
    <2> DEFINE d == operators[o].desk
               s == [services[d] EXCEPT !.auto = TRUE]
    <2>1. operators[o] # Ready
      BY <1>6 DEF Configures, Ready
    <2>2. d \in Desks /\ services[d] \in [state : ServiceStates, auto : BOOLEAN, from : Nat]
      BY <1>b, <2>1
    <2>3. s \in [state : ServiceStates, auto : BOOLEAN, from : Nat] /\ s.from = services[d].from
      BY <2>2
    <2>4. services' = services \/ services' = [services EXCEPT ![d] = s]
      BY <1>6 DEF Configures
    <2>5. operators' = [operators EXCEPT ![o] = Ready] /\ UNCHANGED renewed
      BY <1>6 DEF Configures, Ends
    <2> HIDE DEF s, d
    <2>6. /\ services' \in [Desks -> [state : ServiceStates, auto : BOOLEAN, from : Nat]]
          /\ \A e \in Desks : services'[e].from >= services[e].from
      BY <1>a, <2>2, <2>3, <2>4
    <2>7. /\ operators' \in [Operators -> {Ready} \cup Commands]
          /\ \A p \in Operators :
               operators'[p] # Ready => operators'[p].was <= services'[operators'[p].desk].from
      BY <2>1, <2>5, <2>6, OperatorKeeps
    <2> QED
      BY <1>a, <2>5, <2>6, <2>7 DEF RestartsInv, RestartsRenew
  <1> QED
    BY <1>1, <1>2, <1>3, <1>4, <1>5, <1>6
    DEF MonitorNext, monitorVars, DeskChanges, InspectCashDesk, TriggerRescan, ScanNetwork

\* However operators, scans and services interleave, and whatever times out: a restart that is
\* reported as done has left a service of a later start than the one it was called on.
THEOREM RestartsAlwaysRenew == MonitorSpec => []RestartsRenew
  <1>1. MonitorInit => RestartsInv
    BY DEF MonitorInit, RestartsInv, RestartsRenew, ServiceStates
  <1>2. RestartsInv => RestartsRenew
    BY DEF RestartsInv
  <1> QED
    BY <1>1, <1>2, RestartsStep, PTL DEF MonitorSpec
=============================================================================
