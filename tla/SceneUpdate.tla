---------------------------- MODULE SceneUpdate ----------------------------
(***************************************************************************)
(* Phase 2 of the executions (workers/main.py) that work on one cashier,   *)
(* through the adapter (adapters/ssh_adapter.py): upload the media, find   *)
(* the scene that the screen shows, read it, overwrite it, verify it, and  *)
(* roll it back if something failed.  Nothing keeps two executions of the  *)
(* same cashier apart, and a script that SSH has given up on may still run *)
(* on the cashier.  Phase 3's record of what the cashier shows closes each *)
(* execution.                                                              *)
(*                                                                         *)
(* A scene's row is the playlist it shows; the rows of scenes.Raw that     *)
(* matter are the one the cashier's scenario shows and the default one.    *)
(***************************************************************************)
EXTENDS Naturals, FiniteSets

CONSTANTS
  Executions,
  Contents,    \* what a scene can show
  NoContent,   \* a scene that could not be read; a cashier without publications
  PayloadOf,   \* the content each execution publishes
  Factory,     \* what the rows show before the first publication
  ActiveRow,   \* the row that the cashier's scenario shows
  Twins,       \* TRUE for the full-screen pair, which update_scene keeps equal
  Events,      \* what may happen besides calls that fail
  MaxLate      \* bound on orphaned scripts at a time; a further one dies

Rows == {"default", "bound"}
AllEvents == {"overlap", "read_error", "resolve_error", "quiet_error", "timeout", "crash",
              "cancel", "record_error"}

ASSUME SceneAssumption ==
  /\ NoContent \notin Contents
  /\ PayloadOf \in [Executions -> Contents]
  /\ Factory \in [Rows -> Contents]
  /\ ActiveRow \in Rows
  /\ Twins \in BOOLEAN
  /\ Events \subseteq AllEvents
  /\ MaxLate \in Nat

VARIABLES
  row,       \* scenes.Raw of the two rows in the cashier's gs.db
  media,     \* the contents whose files are all on the cashier
  exec,      \* the executions
  late,      \* scripts that run on the cashier although nobody waits for them
  recorded,  \* cashier.current_content_version: the content last published
  course     \* history: how undisturbed the behaviour has been

vars == <<row, media, exec, late, recorded, course>>

\* A course is "plain" while executions follow each other and every failure is reported;
\* "silent" after a failure that the code cannot see, or a delivery that Phase 3 could not
\* record; "mixed" once executions have overlapped, or one has been cut off.
Courses == {"plain", "silent", "mixed"}

Silenced == IF course = "plain" THEN "silent" ELSE course

\* goal: the script being run publishes or restores; err: it has reported an error;
\* mark: "dirty" from its first script until a scene is verified or restored.
Fresh == [pc |-> "ready", target |-> "default", prior |-> NoContent, goal |-> "publish",
          err |-> FALSE, delivered |-> FALSE, mark |-> "clean"]

Init ==
  /\ row = Factory
  /\ media = {Factory[r] : r \in Rows}
  /\ exec = [x \in Executions |-> Fresh]
  /\ late = {}
  /\ recorded = NoContent
  /\ course = "plain"

Active(x) == exec[x].pc \notin {"ready", "done"}

At(x, pc) == exec[x].pc = pc

Goto(x, pc) == exec' = [exec EXCEPT ![x].pc = pc]

\* The coroutine is over: what is left of it is its outcome.
End(x) == exec' = [exec EXCEPT ![x] =
  [Fresh EXCEPT !.pc = "done", !.delivered = exec[x].delivered, !.mark = exec[x].mark]]

Start(x) ==
  /\ At(x, "ready")
  /\ \/ /\ ~\E y \in Executions : Active(y)
        /\ UNCHANGED course
     \/ /\ "overlap" \in Events /\ \E y \in Executions : Active(y)
        /\ course' = "mixed"
  /\ Goto(x, "connect")
  /\ UNCHANGED <<row, media, late, recorded>>

\* connect, inspect, backup_database: they fail, or nothing of the scene changes.
Prepare(x) ==
  /\ At(x, "connect")
  /\ Goto(x, "upload") \/ Goto(x, "record")
  /\ UNCHANGED <<row, media, late, recorded, course>>

\* mutant: the result of the upload is not looked at
UploadUnchecked(x) ==
  /\ At(x, "upload")
  /\ media' \in {media, media \cup {PayloadOf[x]}}
  /\ Goto(x, "resolve")
  /\ UNCHANGED <<row, late, recorded, course>>

Upload(x) ==
  /\ At(x, "upload")
  /\ \/ /\ media' = media \cup {PayloadOf[x]}
        /\ Goto(x, "resolve")
     \/ /\ UNCHANGED media
        /\ Goto(x, "record")
  /\ UNCHANGED <<row, late, recorded, course>>

\* get_active_scene_guid_for_mode; if the scenario cannot be read, the default row.
Resolve(x) ==
  /\ At(x, "resolve")
  /\ \E r \in {ActiveRow} \cup (IF "resolve_error" \in Events THEN {"default"} ELSE {}) :
       /\ exec' = [exec EXCEPT ![x].pc = "read", ![x].target = r]
       /\ course' = IF r = ActiveRow \/ Twins THEN course ELSE Silenced
  /\ UNCHANGED <<row, media, late, recorded>>

\* get_current_scene_raw: None when the read fails, and the update goes on without it.
ReadPrior(x) ==
  /\ At(x, "read")
  /\ \E c \in {row[exec[x].target]} \cup (IF "read_error" \in Events THEN {NoContent} ELSE {}) :
       exec' = [exec EXCEPT ![x].pc = "write", ![x].prior = c]
  /\ UNCHANGED <<row, media, late, recorded, course>>

(***************************************************************************)
(* update_scene and rollback_scene run the same script: one UPDATE of the  *)
(* target row and, for the twins, one of the other; each commits by itself,*)
(* and sqlite3 goes on with the second when the first failed.              *)
(***************************************************************************)
ToWrite(x) == IF exec[x].goal = "publish" THEN PayloadOf[x] ELSE exec[x].prior

Other(r) == CHOOSE s \in Rows : s # r

\* One UPDATE, which may fail; some versions of sqlite3.exe word the error so that the
\* script does not recognise it and still prints DONE.
Statement(x, r, next) ==
  \/ /\ row' = [row EXCEPT ![r] = ToWrite(x)]
     /\ exec' = [exec EXCEPT ![x].pc = next, ![x].mark = "dirty"]
     /\ UNCHANGED course
  \/ /\ UNCHANGED row
     /\ \E err \in {TRUE} \cup (IF "quiet_error" \in Events THEN {exec[x].err} ELSE {}) :
          /\ exec' = [exec EXCEPT ![x].pc = next, ![x].mark = "dirty", ![x].err = err]
          /\ course' = IF err THEN course ELSE Silenced

Write(x) ==
  /\ At(x, "write")
  /\ Statement(x, exec[x].target, IF Twins THEN "sync" ELSE "reply")
  /\ UNCHANGED <<media, late, recorded>>

Sync(x) ==
  /\ At(x, "sync")
  /\ Statement(x, Other(exec[x].target), "reply")
  /\ UNCHANGED <<media, late, recorded>>

\* mutant: the rollback does not check that there is a prior scene
GiveUpBlindly(e) ==
  IF e.goal = "publish" THEN [e EXCEPT !.pc = "write", !.goal = "restore", !.err = FALSE]
  ELSE [e EXCEPT !.pc = "record"]

\* A failed update or verification rolls back if the prior scene is known; the
\* rollback's own result is not looked at.
GiveUp(e) ==
  IF e.goal = "publish" /\ e.prior # NoContent
  THEN [e EXCEPT !.pc = "write", !.goal = "restore", !.err = FALSE]
  ELSE [e EXCEPT !.pc = "record"]

\* mutant: a script that printed DONE is taken for a delivered scene
ReplyUnverified(x) ==
  /\ At(x, "reply")
  /\ exec' = [exec EXCEPT ![x] =
       IF exec[x].goal = "restore" THEN [@ EXCEPT !.pc = "record"]
       ELSE IF exec[x].err THEN GiveUp(@)
       ELSE [@ EXCEPT !.pc = "refresh"]]
  /\ UNCHANGED <<row, media, late, recorded, course>>

\* The script's answer arrives.
Reply(x) ==
  /\ At(x, "reply")
  /\ exec' = [exec EXCEPT ![x] =
       IF exec[x].err THEN GiveUp(@)
       ELSE IF exec[x].goal = "restore" THEN [@ EXCEPT !.pc = "record", !.mark = "clean"]
       ELSE [@ EXCEPT !.pc = "verify"]]
  /\ UNCHANGED <<row, media, late, recorded, course>>

InScript(x) == exec[x].pc \in {"write", "sync"}

Unfinished(x) ==
  [content |-> ToWrite(x),
   rows |-> IF At(x, "sync") THEN {Other(exec[x].target)}
            ELSE IF Twins THEN Rows ELSE {exec[x].target}]

LeaveScript(x) ==
  late' = IF Cardinality(late) < MaxLate THEN late \cup {Unfinished(x)} ELSE late

\* The command times out, or the connection is lost: SSH stops waiting, the script does
\* not stop.  A lost connection runs the script once more (the model does not count), and
\* what the first run reported is not heard.
ScriptOrphaned(x) ==
  /\ "timeout" \in Events
  /\ InScript(x)
  /\ LeaveScript(x)
  /\ exec' = [exec EXCEPT ![x] = LET e == [@ EXCEPT !.mark = "dirty"] IN GiveUp(e)]
       \/ exec' = [exec EXCEPT ![x].pc = "write", ![x].mark = "dirty", ![x].err = FALSE]
  /\ course' = "mixed"
  /\ UNCHANGED <<row, media, recorded>>

\* An orphaned script finishes, or dies.
LateScript(l) ==
  /\ late' = late \ {l}
  /\ \/ row' = [r \in Rows |-> IF r \in l.rows THEN l.content ELSE row[r]]
     \/ UNCHANGED row
  /\ UNCHANGED <<media, exec, recorded, course>>

\* verify: a scene that cannot be read does not match.
Verify(x) ==
  /\ At(x, "verify")
  /\ \/ /\ row[exec[x].target] = PayloadOf[x]
        /\ exec' = [exec EXCEPT ![x].pc = "refresh", ![x].mark = "clean"]
     \/ /\ row[exec[x].target] # PayloadOf[x] \/ "read_error" \in Events
        /\ exec' = [exec EXCEPT ![x] = GiveUp(@)]
  /\ UNCHANGED <<row, media, late, recorded, course>>

\* refresh never fails: SUCCESS or PUBLISHED_AWAITING_RESTART.
Refresh(x) ==
  /\ At(x, "refresh")
  /\ exec' = [exec EXCEPT ![x].pc = "record", ![x].delivered = TRUE]
  /\ UNCHANGED <<row, media, late, recorded, course>>

\* mutant: the record is written whatever the outcome
RecordAlways(x) ==
  /\ At(x, "record")
  /\ recorded' = PayloadOf[x]
  /\ End(x)
  /\ UNCHANGED <<row, media, late, course>>

\* Phase 3.  If its commit fails (the template was deleted meanwhile, the database is lost),
\* what a delivered execution shows is recorded nowhere.
Record(x) ==
  /\ At(x, "record")
  /\ \/ /\ recorded' = IF exec[x].delivered THEN PayloadOf[x] ELSE recorded
        /\ UNCHANGED course
     \/ /\ "record_error" \in Events
        /\ course' = IF exec[x].delivered THEN Silenced ELSE course
        /\ UNCHANGED recorded
  /\ End(x)
  /\ UNCHANGED <<row, media, late>>

\* The execution ends where it is; a script it was waiting for runs on.
Stop(x, next) ==
  /\ Active(x)
  /\ IF InScript(x) THEN LeaveScript(x) ELSE UNCHANGED late
  /\ exec' = [exec EXCEPT ![x] = [Fresh EXCEPT
       !.pc = next, !.mark = IF InScript(x) THEN "dirty" ELSE exec[x].mark]]
  /\ course' = "mixed"
  /\ UNCHANGED <<row, media, recorded>>

\* The worker dies, and ARQ delivers the job again.
Crash(x) == "crash" \in Events /\ Stop(x, "connect")

\* ARQ cancels the job at job_timeout: no handler of Phase 2 catches that.
Cancel(x) == "cancel" \in Events /\ Stop(x, "done")

Step(x) ==
  \/ Start(x) \/ Prepare(x) \/ Upload(x) \/ Resolve(x) \/ ReadPrior(x)
  \/ Write(x) \/ Sync(x) \/ Reply(x) \/ ScriptOrphaned(x)
  \/ Verify(x) \/ Refresh(x) \/ Record(x) \/ Crash(x) \/ Cancel(x)

Next == (\E x \in Executions : Step(x)) \/ (\E l \in late : LateScript(l))

Spec == Init /\ [][Next]_vars
-----------------------------------------------------------------------------
\* The rows always hold a content: no path writes a scene that could not be read.
TypeOK ==
  /\ row \in [Rows -> Contents]
  /\ media \subseteq Contents
  /\ exec \in [Executions ->
       [pc : {"ready", "connect", "upload", "resolve", "read", "write", "sync", "reply",
              "verify", "refresh", "record", "done"},
        target : Rows, prior : Contents \cup {NoContent}, goal : {"publish", "restore"},
        err : BOOLEAN, delivered : BOOLEAN, mark : {"clean", "dirty"}]]
  /\ late \subseteq [content : Contents, rows : SUBSET Rows]
  /\ recorded \in Contents \cup {NoContent}
  /\ course \in Courses

\* Whatever a scene shows, in any row and at any time, its files are on the cashier:
\* interleaved executions, rollbacks and late scripts never show a missing file.
ScenesHaveMedia == \A r \in Rows : row[r] \in media

\* What makes ScenesHaveMedia inductive: everything that can still be written is on the
\* cashier, in an execution's hands, remembered for a rollback, or in a late script.
PayloadsHaveMedia == \A x \in Executions :
  exec[x].pc \in {"resolve", "read", "write", "sync", "reply", "verify"} => PayloadOf[x] \in media
PriorsHaveMedia == \A x \in Executions : exec[x].prior \in media \cup {NoContent}
RestoresAreKnown == \A x \in Executions : exec[x].goal = "restore" =>
  exec[x].prior # NoContent /\ exec[x].pc \in {"write", "sync", "reply", "record"}
LateHaveMedia == \A l \in late : l.content \in media

\* The inductive invariant of ScenesHaveMedia.
MediaInv ==
  /\ ScenesHaveMedia
  /\ PayloadsHaveMedia /\ PriorsHaveMedia /\ RestoresAreKnown /\ LateHaveMedia

\* While executions of a cashier do not overlap and none is cut off, one that says it
\* delivered leaves its content in the row it wrote until Phase 3 has recorded it, even if
\* failures go unseen: verification sees what the script's answer does not say.
DeliveredIsShown ==
  course # "mixed" =>
    \A x \in Executions :
      At(x, "record") /\ exec[x].delivered => row[exec[x].target] = PayloadOf[x]

Quiet == late = {} /\ \A x \in Executions : ~Active(x)

\* The plan, 4.1: a cashier goes on showing the content last published successfully
\* until the next publication, which either succeeds or restores it.  Executions that
\* know that they could not restore the scene are excused.
LastPublishedIsShown ==
  Quiet /\ recorded # NoContent /\ (\A x \in Executions : exec[x].mark = "clean")
  => row[ActiveRow] = recorded

\* It is so on a plain course: one execution after the other, any of whose calls may fail.
PlainlyShown == course = "plain" => LastPublishedIsShown

\* The plan, 4.2: an execution that fails after it wrote has been rolled back.
FailedMeansRolledBack ==
  \A x \in Executions : At(x, "done") /\ ~exec[x].delivered => exec[x].mark = "clean"
=============================================================================
