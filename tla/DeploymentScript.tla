--------------------------- MODULE DeploymentScript ---------------------------
(***************************************************************************)
(* deployment_orchestrator.py: a process of its own for each deployment of *)
(* one mode to one cashbox, with ssh and scp.  It resembles the 17 steps   *)
(* of module Deployment and differs where it matters: files are compared   *)
(* by size, a query that fails counts as one without an answer, and the   *)
(* rollback does not look at its results.                                  *)
(***************************************************************************)
EXTENDS Naturals

CONSTANTS
  Runs,      \* the processes
  Files,     \* the file names
  Contents,  \* what a file may hold
  Sizes,     \* the sizes
  SizeOf,    \* the size of each content
  Nothing,   \* no content, no process
  MaxErrors, \* bound on the commands that fail
  MaxPuts    \* bound on the files put on the server

ASSUME ScriptAssumption ==
  /\ SizeOf \in [Contents -> Sizes]
  /\ Nothing \notin Contents \cup Runs
  /\ MaxErrors \in Nat
  /\ MaxPuts \in Nat

VARIABLES
  mediaDir, \* the server's files
  uploads,  \* the cashbox's files
  row,      \* the mode's row of gs.db: the files it names, other content, or no row
  strange,  \* the settings hold a key the script does not know
  runs,     \* the processes
  errors,   \* the commands that failed so far
  puts,     \* the files put on the server so far
  lastRun,  \* history: the run that began last
  rowThen,  \* history: the row when it began
  single,   \* history: no other process was active since
  missed,   \* history: files whose move failed unnoticed
  unrolled  \* history: processes whose rollback failed unnoticed

scriptFiles == <<mediaDir, uploads, row, strange, puts>>
scriptHistory == <<lastRun, rowThen, single, missed, unrolled>>
scriptVars == <<scriptFiles, runs, errors, scriptHistory>>

Scene(files) == [kind |-> "scene", files |-> files]
OtherScene == [kind |-> "other", files |-> {}]
NoRow == [kind |-> "none", files |-> {}]
Unknown == [kind |-> "unknown", files |-> {}] \* the query failed: an empty answer

\* "sha" is what step 2 found in the server's files, "send" what is to be sent, "initial"
\* the row as read in step 5, "same" that process and tables are as they were read, "blank"
\* that the settings read as empty.
NotYet == [pc |-> "none", outcome |-> "none", wanted |-> {}, sha |-> [f \in Files |-> Nothing],
           send |-> {}, staged |-> [f \in Files |-> Nothing], initial |-> Unknown,
           same |-> TRUE, blank |-> FALSE]

Over(r, outcome) == [NotYet EXCEPT !.pc = "ended", !.outcome = outcome, !.wanted = r.wanted,
                                   !.sha = r.sha, !.send = r.send, !.initial = r.initial]

Active(r) == runs[r].pc \notin {"none", "ended"}

ScriptInit ==
  /\ mediaDir = [f \in Files |-> Nothing]
  /\ uploads = [f \in Files |-> Nothing]
  /\ row \in {OtherScene, NoRow}
  /\ strange = FALSE
  /\ runs = [r \in Runs |-> NotYet]
  /\ errors = 0
  /\ puts = 0
  /\ lastRun = Nothing
  /\ rowThen = row
  /\ single = TRUE
  /\ missed = {}
  /\ unrolled = {}

Error == errors < MaxErrors /\ errors' = errors + 1
Fine  == errors' = errors

PutMedia(f, c) ==
  /\ puts < MaxPuts
  /\ puts' = puts + 1
  /\ mediaDir[f] # c
  /\ mediaDir' = [mediaDir EXCEPT ![f] = c]
  /\ UNCHANGED <<uploads, row, strange, runs, errors, lastRun, rowThen, single, missed, unrolled>>

\* mutant: what the database has committed is not rolled back.
RolledUncommitted(rec) ==
  IF rec.initial.kind \in {"unknown", "none"} \/ rec.pc \in {"touch", "stable", "readback"}
    THEN Over(rec, "FAILED") ELSE [rec EXCEPT !.pc = "rollback"]

\* The exception handler: a row that was read is written back, whether or not it was changed.
Rolled(rec) == IF rec.initial.kind \in {"unknown", "none"} THEN Over(rec, "FAILED")
                 ELSE [rec EXCEPT !.pc = "rollback"]

Becomes(r, rec) == runs' = [runs EXCEPT ![r] = rec]
Throw(r) == Becomes(r, Rolled(runs[r]))

\* A step that needs an answer: it moves on if what it finds holds, and raises if not.
Requires(r, pc, holds, next) ==
  /\ runs[r].pc = pc
  /\ \/ Fine /\ holds /\ Becomes(r, next)
     \/ Fine /\ ~holds /\ Throw(r)
     \/ Error /\ Throw(r)
  /\ UNCHANGED <<scriptFiles, scriptHistory>>

\* Steps 1 and 2: the configuration names files, and the server has them.
Launch(r, wanted) ==
  LET rec == [NotYet EXCEPT !.pc = "handshake", !.wanted = wanted, !.sha = mediaDir] IN
  /\ runs[r].pc = "none"
  /\ Becomes(r, IF wanted # {} /\ \A f \in wanted : mediaDir[f] # Nothing
                  THEN rec ELSE Over(rec, "FAILED"))
  /\ lastRun' = r
  /\ rowThen' = row
  /\ single' = (\A o \in Runs : ~Active(o))
  /\ UNCHANGED <<scriptFiles, errors, missed, unrolled>>

\* Step 3.
InspectProcess(r) ==
  Requires(r, "handshake", TRUE, [runs[r] EXCEPT !.pc = "inventory"])

\* mutant: the files that are there are never replaced.
DiffByName(rec, listed) == {f \in rec.wanted : listed[f] = Nothing}

\* Step 5: a file is sent if it is not listed, or listed with another size.
DiffBySize(rec, listed) ==
  {f \in rec.wanted : listed[f] = Nothing \/ SizeOf[listed[f]] # SizeOf[rec.sha[f]]}

\* Step 4: a listing that fails is an empty one; one that takes too long raises.
GetInventory(r) ==
  /\ runs[r].pc = "inventory"
  /\ \/ Fine /\ Becomes(r, [runs[r] EXCEPT !.pc = "scene", !.send = DiffBySize(runs[r], uploads)])
     \/ Error /\ Becomes(r, [runs[r] EXCEPT !.pc = "scene", !.send = runs[r].wanted])
     \/ Error /\ Throw(r)
  /\ UNCHANGED <<scriptFiles, scriptHistory>>

\* run_sqlite_query: a query that fails has an empty answer.
RunSqliteQuery(answer) == \/ Fine /\ answer = row
                          \/ Error /\ answer = Unknown

ReadRow(r) ==
  LET rec == runs[r] IN
  /\ rec.pc = "scene"
  /\ \/ \E s \in {row, Unknown} :
          /\ RunSqliteQuery(s)
          /\ Becomes(r, IF rec.send = {} /\ s = Scene(rec.wanted)
                          THEN Over([rec EXCEPT !.initial = s], "NO_OP")
                          ELSE [rec EXCEPT !.initial = s, !.pc = "stage"])
     \/ Error /\ Throw(r)
  /\ UNCHANGED <<scriptFiles, scriptHistory>>

\* Step 6: the files as the server has them now.
StageFiles(r) ==
  LET rec == runs[r] IN
  Requires(r, "stage", TRUE,
    [rec EXCEPT !.pc = IF rec.send = {} THEN "snapshot" ELSE "hash",
                !.staged = [f \in Files |-> IF f \in rec.send THEN mediaDir[f] ELSE Nothing]])

\* Step 7, with the hashes of step 2.
HashesAgree(rec) == \A f \in rec.send : rec.staged[f] = rec.sha[f]

VerifyHashes(r) == Requires(r, "hash", HashesAgree(runs[r]), [runs[r] EXCEPT !.pc = "move"])

\* Step 8, one command for all files: what it fails to move passes unnoticed.
MoveFiles(r) ==
  LET rec == runs[r]
      Move(fs) == uploads' = [f \in Files |-> IF f \in fs THEN rec.staged[f] ELSE uploads[f]] IN
  /\ rec.pc = "move"
  /\ \/ Fine /\ Move(rec.send) /\ missed' = missed \ rec.send
        /\ Becomes(r, [rec EXCEPT !.pc = "snapshot"])
     \/ \E moved \in SUBSET rec.send :
          /\ Error /\ Move(moved) /\ missed' = (missed \ rec.send) \cup (rec.send \ moved)
          /\ Becomes(r, [rec EXCEPT !.pc = "snapshot"]) \/ Throw(r)
  /\ UNCHANGED <<mediaDir, row, strange, puts, lastRun, rowThen, single, unrolled>>

\* Step 9: the tables and the settings, which read as empty if the query fails.
TakeBaseline(r) ==
  /\ runs[r].pc = "snapshot"
  /\ \/ Fine /\ Becomes(r, [runs[r] EXCEPT !.pc = "update"])
     \/ Error /\ Becomes(r, [runs[r] EXCEPT !.pc = "update", !.blank = TRUE])
     \/ Error /\ Throw(r)
  /\ UNCHANGED <<scriptFiles, scriptHistory>>

\* The script sets a row that is there; one that is reported as failed may have done so.
RunSqliteScript(s) == row' = IF row = NoRow THEN row ELSE s

\* Steps 11 and 12: the script, and a look that there is a row.
UpdateRow(r) ==
  LET rec == runs[r] IN
  /\ rec.pc = "update"
  /\ \/ Fine /\ RunSqliteScript(Scene(rec.wanted)) /\ row # NoRow
        /\ Becomes(r, [rec EXCEPT !.pc = "touch"])
     \/ Fine /\ row = NoRow /\ row' = row /\ Throw(r)
     \/ Error /\ (row' = row \/ RunSqliteScript(Scene(rec.wanted))) /\ Throw(r)
  /\ UNCHANGED <<mediaDir, uploads, strange, puts, scriptHistory>>

\* Steps 13 and 14.
TouchSyncVersion(r) == Requires(r, "touch", TRUE, [runs[r] EXCEPT !.pc = "stable"])

\* Settings that cannot be read are as before if they could not be read then either.
VerifySettings(rec, blank) == rec.blank = blank /\ (blank \/ ~strange)

\* Step 15: process, tables and protected settings are as before, and no key is unknown.
VerifyStable(r) ==
  LET rec == runs[r]
      Passes(blank) == IF rec.same /\ VerifySettings(rec, blank)
                         THEN Becomes(r, [rec EXCEPT !.pc = "readback"]) ELSE Throw(r) IN
  /\ rec.pc = "stable"
  /\ (Fine /\ Passes(FALSE)) \/ (Error /\ (Passes(TRUE) \/ Throw(r)))
  /\ UNCHANGED <<scriptFiles, scriptHistory>>

\* Steps 16 and 17.
ReadRowBack(r) ==
  Requires(r, "readback", row = Scene(runs[r].wanted), Over(runs[r], "SUCCESS"))

\* A script that does not arrive or fails is not noticed, only a command that does not end
\* in time is.
Rollback(r) ==
  LET rec == runs[r] IN
  /\ rec.pc = "rollback"
  /\ \/ Fine /\ RunSqliteScript(rec.initial) /\ Becomes(r, Over(rec, "ROLLED_BACK"))
        /\ unrolled' = unrolled
     \/ /\ Error
        /\ row' = row \/ RunSqliteScript(rec.initial)
        /\ \E o \in {"ROLLED_BACK", "ROLLBACK_FAILED"} : Becomes(r, Over(rec, o))
        /\ unrolled' = unrolled \cup {r}
  /\ UNCHANGED <<mediaDir, uploads, strange, puts, lastRun, rowThen, single, missed>>

\* GuestScreen is started anew after step 3, or its tables change after step 9.
Disturb(r) ==
  /\ runs[r].pc \in {"inventory", "scene", "stage", "hash", "move", "snapshot", "update",
                     "touch", "stable"}
  /\ Becomes(r, [runs[r] EXCEPT !.same = FALSE])
  /\ UNCHANGED <<scriptFiles, errors, scriptHistory>>

\* A version of GuestScreen brings a setting the script has not heard of.
NewSetting ==
  /\ ~strange
  /\ strange' = TRUE
  /\ UNCHANGED <<mediaDir, uploads, row, puts, runs, errors, scriptHistory>>

ExecuteDeployment(r) ==
  \/ InspectProcess(r) \/ GetInventory(r) \/ ReadRow(r) \/ StageFiles(r) \/ VerifyHashes(r)
  \/ MoveFiles(r) \/ TakeBaseline(r) \/ UpdateRow(r) \/ TouchSyncVersion(r)
  \/ VerifyStable(r) \/ ReadRowBack(r) \/ Rollback(r)

ScriptNext ==
  \/ \E f \in Files, c \in Contents : PutMedia(f, c)
  \/ \E r \in Runs, wanted \in SUBSET Files : Launch(r, wanted)
  \/ \E r \in Runs : ExecuteDeployment(r) \/ Disturb(r)
  \/ NewSetting

ScriptSpec == ScriptInit /\ [][ScriptNext]_scriptVars

-----------------------------------------------------------------------------
(* Properties.                                                             *)

\* The last process said SUCCESS or NO_OP and ran alone: the row names its files and the
\* cashbox has them as they were on the server when it began, but for a move that failed
\* unnoticed; a file that was not sent is only known to be of the right size.
ScriptDoneIsShown ==
  LET rec == runs[lastRun] IN
  (lastRun # Nothing /\ rec.outcome \in {"SUCCESS", "NO_OP"} /\ single)
    => /\ row = Scene(rec.wanted)
       /\ \A f \in rec.wanted \ missed :
            /\ uploads[f] # Nothing /\ SizeOf[uploads[f]] = SizeOf[rec.sha[f]]
            /\ f \in rec.send => uploads[f] = rec.sha[f]

\* The last process said ROLLED_BACK, or failed without a word of a rollback, and ran alone:
\* the row is as it was, unless it could not be read before the update or a command of the
\* rollback failed, which the script does not look at.
ScriptFailureUndone ==
  LET rec == runs[lastRun] IN
  (lastRun # Nothing /\ rec.outcome \in {"FAILED", "ROLLED_BACK"} /\ single)
    => row = rowThen \/ rec.initial = Unknown \/ lastRun \in unrolled

\* What a process says is so: of the files and the row when it is DONE, of the row when it is not.
ScriptTells == ScriptDoneIsShown /\ ScriptFailureUndone
=============================================================================
