------------------------- MODULE SceneUpdateProofs -------------------------
(***************************************************************************)
(* However many executions interleave on a cashier, whatever fails, and    *)
(* however late orphaned scripts land, no scene ever shows a content whose *)
(* files are not there; and while executions follow each other, the scene  *)
(* shows what was last published.  For any executions, contents, payloads  *)
(* and events.                                                             *)
(***************************************************************************)
EXTENDS SceneUpdate, TLAPS

\* Type invariant and media invariant need each other: the type of what a rollback
\* writes is the invariant that only known scenes are restored.
SceneInv == TypeOK /\ MediaInv

\* Rows has two elements, so the other one exists.
LEMMA OtherRow == \A r \in Rows : Other(r) \in Rows
  BY DEF Other, Rows

\* What a script writes is a content whose files are on the cashier.
LEMMA WritesKnownContent ==
  ASSUME TypeOK, MediaInv, NEW x \in Executions, exec[x].pc \in {"write", "sync"}
  PROVE  ToWrite(x) \in Contents /\ ToWrite(x) \in media
  BY SceneAssumption
  DEF TypeOK, MediaInv, PayloadsHaveMedia, PriorsHaveMedia, RestoresAreKnown, ToWrite

\* What a script has left to do is a late script of known content.
LEMMA UnfinishedKnown ==
  ASSUME TypeOK, MediaInv, NEW x \in Executions, InScript(x)
  PROVE  /\ Unfinished(x) \in [content : Contents, rows : SUBSET Rows]
         /\ Unfinished(x).content \in media
  <1>1. ToWrite(x) \in Contents /\ ToWrite(x) \in media
    BY WritesKnownContent DEF InScript
  <1>2. exec[x].target \in Rows /\ Other(exec[x].target) \in Rows
    BY OtherRow DEF TypeOK
  <1> QED
    BY <1>1, <1>2 DEF Unfinished

\* Whatever the bound on late scripts does, the set stays one of known contents.
LEMMA LeaveKnown ==
  ASSUME TypeOK, MediaInv, NEW x \in Executions, InScript(x), LeaveScript(x)
  PROVE  late' \subseteq [content : Contents, rows : SUBSET Rows]
         /\ \A l \in late' : l.content \in media
  BY UnfinishedKnown DEF LeaveScript, TypeOK, MediaInv, LateHaveMedia

\* The shape and the knowledge of one execution's record.
Shaped(e) == e \in
  [pc : {"ready", "connect", "upload", "resolve", "read", "write", "sync", "reply",
         "verify", "refresh", "record", "done"},
   target : Rows, prior : Contents \cup {NoContent}, goal : {"publish", "restore"},
   err : BOOLEAN, delivered : BOOLEAN, mark : {"clean", "dirty"}]

Knows(e, x) ==
  /\ e.pc \in {"resolve", "read", "write", "sync", "reply", "verify"} => PayloadOf[x] \in media
  /\ e.prior \in media \cup {NoContent}
  /\ e.goal = "restore" => e.prior # NoContent /\ e.pc \in {"write", "sync", "reply", "record"}

\* A step that changes only one execution's record, to a known one, keeps the invariant.
LEMMA OneExecution ==
  ASSUME SceneInv, NEW x \in Executions, NEW e,
         exec' = [exec EXCEPT ![x] = e], Shaped(e), Knows(e, x),
         UNCHANGED <<row, media, recorded>>, course' \in Courses,
         late' \subseteq [content : Contents, rows : SUBSET Rows],
         \A l \in late' : l.content \in media
  PROVE  SceneInv'
  BY DEF SceneInv, TypeOK, MediaInv, ScenesHaveMedia, PayloadsHaveMedia, PriorsHaveMedia,
         RestoresAreKnown, LateHaveMedia, Shaped, Knows

\* Every execution's record is known while the invariant holds.
LEMMA ExecutionKnown ==
  ASSUME SceneInv, NEW x \in Executions
  PROVE  Shaped(exec[x]) /\ Knows(exec[x], x)
  BY DEF SceneInv, TypeOK, MediaInv, PayloadsHaveMedia, PriorsHaveMedia, RestoresAreKnown,
         Shaped, Knows

\* Giving up leads to a restore only of a known scene.
LEMMA GiveUpKnown ==
  ASSUME NEW x \in Executions, NEW e, Shaped(e), Knows(e, x), PayloadOf[x] \in media
  PROVE  Shaped(GiveUp(e)) /\ Knows(GiveUp(e), x)
  BY DEF GiveUp, Shaped, Knows

\* The factory's contents are on the cashier, and no execution has begun.
LEMMA SceneInit == Init => SceneInv
  BY SceneAssumption
  DEF Init, SceneInv, TypeOK, MediaInv, ScenesHaveMedia, PayloadsHaveMedia, PriorsHaveMedia,
      RestoresAreKnown, LateHaveMedia, Fresh, Rows, Courses

\* The history only takes the values it is meant to.
LEMMA CourseStep ==
  ASSUME course \in Courses, NEW x \in Executions, Step(x)
  PROVE  course' \in Courses
  <1> USE DEF Courses, Silenced
  <1>1. CASE Start(x) \/ Prepare(x) \/ Upload(x) \/ Resolve(x) \/ ReadPrior(x)
    BY <1>1 DEF Start, Prepare, Upload, Resolve, ReadPrior
  <1>2. CASE Write(x) \/ Sync(x)
    BY <1>2 DEF Write, Sync, Statement
  <1>3. CASE Reply(x) \/ ScriptOrphaned(x) \/ Verify(x) \/ Refresh(x) \/ Record(x)
    BY <1>3 DEF Reply, ScriptOrphaned, Verify, Refresh, Record
  <1>4. CASE Crash(x) \/ Cancel(x)
    BY <1>4 DEF Crash, Cancel, Stop
  <1> QED
    BY <1>1, <1>2, <1>3, <1>4 DEF Step

\* Steps that change one execution and, at most, the history of what it saw.
LEMMA QuietStep ==
  ASSUME SceneInv, NEW x \in Executions,
         \/ Prepare(x) \/ Resolve(x) \/ ReadPrior(x) \/ Reply(x) \/ Verify(x) \/ Refresh(x)
  PROVE  SceneInv'
  <1> DEFINE e0 == exec[x]
  <1>0. course' \in Courses
    BY CourseStep DEF SceneInv, TypeOK, Step
  <1>1. Shaped(e0) /\ Knows(e0, x)
    BY ExecutionKnown
  <1>2. /\ UNCHANGED <<row, media, late, recorded>>
        /\ late' \subseteq [content : Contents, rows : SUBSET Rows]
        /\ \A l \in late' : l.content \in media
    BY DEF Prepare, Resolve, ReadPrior, Reply, Verify, Refresh, SceneInv, TypeOK, MediaInv,
           LateHaveMedia
  <1>3. ASSUME NEW e, exec' = [exec EXCEPT ![x] = e], Shaped(e), Knows(e, x)
        PROVE  SceneInv'
    BY <1>2, <1>3, <1>0, OneExecution
  <1>4. CASE Prepare(x)
    <2>1. PICK pc \in {"upload", "record"} : exec' = [exec EXCEPT ![x] = [e0 EXCEPT !.pc = pc]]
      BY <1>4 DEF Prepare, Goto
    <2> DEFINE e == [e0 EXCEPT !.pc = pc]
    <2>2. e0.pc = "connect"
      BY <1>4 DEF Prepare, At
    <2>3. Shaped(e) /\ Knows(e, x)
      BY <1>1, <2>2 DEF Shaped, Knows
    <2> QED
      BY <1>3, <2>1, <2>3
  <1>5. CASE Resolve(x)
    <2>1. PICK r \in Rows : exec' = [exec EXCEPT ![x] = [e0 EXCEPT !.pc = "read", !.target = r]]
      BY <1>5, SceneAssumption DEF Resolve, Rows
    <2> DEFINE e == [e0 EXCEPT !.pc = "read", !.target = r]
    <2>2. e0.pc = "resolve"
      BY <1>5 DEF Resolve, At
    <2>3. Shaped(e) /\ Knows(e, x)
      BY <1>1, <2>2 DEF Shaped, Knows
    <2> QED
      BY <1>3, <2>1, <2>3
  <1>6. CASE ReadPrior(x)
    <2>1. e0.pc = "read" /\ e0.target \in Rows
      BY <1>1, <1>6 DEF ReadPrior, At, Shaped
    <2>2. row[e0.target] \in Contents \cap media
      BY <2>1 DEF SceneInv, TypeOK, MediaInv, ScenesHaveMedia
    <2>3. PICK c \in (Contents \cap media) \cup {NoContent} :
            exec' = [exec EXCEPT ![x] = [e0 EXCEPT !.pc = "write", !.prior = c]]
      BY <1>6, <2>2 DEF ReadPrior
    <2> DEFINE e == [e0 EXCEPT !.pc = "write", !.prior = c]
    <2>4. Shaped(e) /\ Knows(e, x)
      BY <1>1, <2>1 DEF Shaped, Knows
    <2> QED
      BY <1>3, <2>3, <2>4
  <1>7. CASE Reply(x)
    <2>1. e0.pc = "reply" /\ PayloadOf[x] \in media
      BY <1>1, <1>7 DEF Reply, At, Knows
    <2>2. CASE e0.err
      <3>1. Shaped(GiveUp(e0)) /\ Knows(GiveUp(e0), x)
        BY <1>1, <2>1, GiveUpKnown
      <3>2. exec' = [exec EXCEPT ![x] = GiveUp(e0)]
        BY <1>7, <2>2 DEF Reply
      <3> QED
        BY <1>3, <3>1, <3>2
    <2>3. CASE ~e0.err /\ e0.goal = "restore"
      <3> DEFINE e == [e0 EXCEPT !.pc = "record", !.mark = "clean"]
      <3>1. Shaped(e) /\ Knows(e, x)
        BY <1>1, <2>1 DEF Shaped, Knows
      <3>2. exec' = [exec EXCEPT ![x] = e]
        BY <1>7, <2>3 DEF Reply
      <3> QED
        BY <1>3, <3>1, <3>2
    <2>4. CASE ~e0.err /\ e0.goal # "restore"
      <3> DEFINE e == [e0 EXCEPT !.pc = "verify"]
      <3>1. Shaped(e) /\ Knows(e, x)
        BY <1>1, <2>1, <2>4 DEF Shaped, Knows
      <3>2. exec' = [exec EXCEPT ![x] = e]
        BY <1>7, <2>4 DEF Reply
      <3> QED
        BY <1>3, <3>1, <3>2
    <2> QED
      BY <2>2, <2>3, <2>4
  <1>8. CASE Verify(x)
    <2>1. e0.pc = "verify" /\ PayloadOf[x] \in media
      BY <1>1, <1>8 DEF Verify, At, Knows
    <2> DEFINE e == [e0 EXCEPT !.pc = "refresh", !.mark = "clean"]
    <2>2. Shaped(e) /\ Knows(e, x)
      BY <1>1, <2>1 DEF Shaped, Knows
    <2>3. Shaped(GiveUp(e0)) /\ Knows(GiveUp(e0), x)
      BY <1>1, <2>1, GiveUpKnown
    <2>4. exec' = [exec EXCEPT ![x] = e] \/ exec' = [exec EXCEPT ![x] = GiveUp(e0)]
      BY <1>8 DEF Verify
    <2> QED
      BY <1>3, <2>2, <2>3, <2>4
  <1>9. CASE Refresh(x)
    <2> DEFINE e == [e0 EXCEPT !.pc = "record", !.delivered = TRUE]
    <2>1. e0.pc = "refresh"
      BY <1>9 DEF Refresh, At
    <2>2. Shaped(e) /\ Knows(e, x)
      BY <1>1, <2>1 DEF Shaped, Knows
    <2>3. exec' = [exec EXCEPT ![x] = e]
      BY <1>9 DEF Refresh
    <2> QED
      BY <1>3, <2>2, <2>3
  <1> QED
    BY <1>4, <1>5, <1>6, <1>7, <1>8, <1>9

\* Steps that change one execution's record and the scripts left on the cashier.
LEMMA LeavingStep ==
  ASSUME SceneInv, NEW x \in Executions, ScriptOrphaned(x) \/ Crash(x) \/ Cancel(x)
  PROVE  SceneInv'
  <1> DEFINE e0 == exec[x]
  <1>0. course' \in Courses
    BY CourseStep DEF SceneInv, TypeOK, Step
  <1>1. Shaped(e0) /\ Knows(e0, x) /\ TypeOK /\ MediaInv
    BY ExecutionKnown DEF SceneInv
  <1>2. late' \subseteq [content : Contents, rows : SUBSET Rows]
        /\ \A l \in late' : l.content \in media
    <2>1. (InScript(x) /\ LeaveScript(x)) \/ late' = late
      BY DEF ScriptOrphaned, Crash, Cancel, Stop
    <2> QED
      BY <1>1, <2>1, LeaveKnown DEF TypeOK, MediaInv, LateHaveMedia
  <1>3. UNCHANGED <<row, media, recorded>>
    BY DEF ScriptOrphaned, Crash, Cancel, Stop
  <1>4. ASSUME NEW e, exec' = [exec EXCEPT ![x] = e], Shaped(e), Knows(e, x)
        PROVE  SceneInv'
    BY <1>2, <1>3, <1>4, <1>0, OneExecution
  <1>5. CASE ScriptOrphaned(x)
    <2>1. e0.pc \in {"write", "sync"} /\ PayloadOf[x] \in media
      BY <1>1, <1>5 DEF ScriptOrphaned, InScript, Knows
    <2> DEFINE d == [e0 EXCEPT !.mark = "dirty"]
               w == [e0 EXCEPT !.pc = "write", !.mark = "dirty", !.err = FALSE]
    <2>2. Shaped(d) /\ Knows(d, x)
      BY <1>1 DEF Shaped, Knows
    <2>3. Shaped(GiveUp(d)) /\ Knows(GiveUp(d), x)
      BY <2>1, <2>2, GiveUpKnown
    <2>4. Shaped(w) /\ Knows(w, x)
      BY <1>1, <2>1 DEF Shaped, Knows
    <2>5. exec' = [exec EXCEPT ![x] = GiveUp(d)] \/ exec' = [exec EXCEPT ![x] = w]
      BY <1>5 DEF ScriptOrphaned
    <2> QED
      BY <1>4, <2>3, <2>4, <2>5
  <1>6. CASE Crash(x) \/ Cancel(x)
    <2>1. PICK next \in {"connect", "done"} : Stop(x, next)
      BY <1>6 DEF Crash, Cancel
    <2> DEFINE e == [Fresh EXCEPT !.pc = next, !.mark = IF InScript(x) THEN "dirty" ELSE e0.mark]
    <2>2. exec' = [exec EXCEPT ![x] = e]
      BY <2>1 DEF Stop
    <2>3. Shaped(e) /\ Knows(e, x)
      BY <1>1 DEF Shaped, Knows, Fresh, Rows
    <2> QED
      BY <1>4, <2>2, <2>3
  <1> QED
    BY <1>5, <1>6

\* Start, Upload and Record change one execution and one other variable, and only Upload
\* the media, which it adds to.
LEMMA OuterStep ==
  ASSUME SceneInv, NEW x \in Executions, Start(x) \/ Upload(x) \/ Record(x)
  PROVE  SceneInv'
  <1> DEFINE e0 == exec[x]
  <1>0. course' \in Courses
    BY CourseStep DEF SceneInv, TypeOK, Step
  <1>1. Shaped(e0) /\ Knows(e0, x) /\ TypeOK /\ MediaInv
    BY ExecutionKnown DEF SceneInv
  <1>2. CASE Start(x)
    <2>1. /\ exec' = [exec EXCEPT ![x] = [e0 EXCEPT !.pc = "connect"]] /\ e0.pc = "ready"
          /\ UNCHANGED <<row, media, late, recorded>>
      BY <1>2 DEF Start, Goto, At
    <2>2. Shaped([e0 EXCEPT !.pc = "connect"]) /\ Knows([e0 EXCEPT !.pc = "connect"], x)
      BY <1>1, <2>1 DEF Shaped, Knows
    <2>3. row[ActiveRow] \in Contents
      BY <1>1, SceneAssumption DEF TypeOK
    <2> QED
      BY <1>0, <1>1, <2>1, <2>2, <2>3
      DEF SceneInv, TypeOK, MediaInv, ScenesHaveMedia, PayloadsHaveMedia, PriorsHaveMedia,
          RestoresAreKnown, LateHaveMedia, Shaped, Knows
  <1>3. CASE Upload(x)
    <2>1. /\ e0.pc = "upload"
          /\ UNCHANGED <<row, late, recorded>>
          /\ \/ /\ media' = media \cup {PayloadOf[x]}
                /\ exec' = [exec EXCEPT ![x] = [e0 EXCEPT !.pc = "resolve"]]
             \/ /\ media' = media
                /\ exec' = [exec EXCEPT ![x] = [e0 EXCEPT !.pc = "record"]]
      BY <1>3 DEF Upload, Goto, At
    <2>2. Shaped([e0 EXCEPT !.pc = "resolve"]) /\ Shaped([e0 EXCEPT !.pc = "record"])
      BY <1>1 DEF Shaped
    <2>3. media \subseteq media' /\ media' \subseteq Contents
      BY <1>1, <2>1, SceneAssumption DEF TypeOK
    <2>4. e0.goal # "restore"
      BY <1>1, <2>1 DEF Knows
    <2>5. TypeOK'
      BY <1>0, <1>1, <2>1, <2>2, <2>3 DEF TypeOK, Shaped
    <2>6. ScenesHaveMedia' /\ LateHaveMedia'
      BY <1>1, <2>1, <2>3 DEF MediaInv, ScenesHaveMedia, LateHaveMedia
    <2>7. ASSUME NEW y \in Executions PROVE Knows(exec[y], y)'
      <3>1. CASE y = x
        <4>1. \/ exec'[x] = [e0 EXCEPT !.pc = "resolve"] /\ PayloadOf[x] \in media'
              \/ exec'[x] = [e0 EXCEPT !.pc = "record"]
          BY <1>1, <2>1 DEF TypeOK
        <4> QED
          BY <1>1, <2>3, <2>4, <3>1, <4>1 DEF Knows, Shaped
      <3>2. CASE y # x
        <4>1. exec'[y] = exec[y]
          BY <1>1, <2>1, <3>2 DEF TypeOK
        <4>2. Knows(exec[y], y)
          BY ExecutionKnown
        <4> QED
          BY <2>3, <4>1, <4>2 DEF Knows
      <3> QED
        BY <3>1, <3>2
    <2>8. PriorsHaveMedia' /\ RestoresAreKnown' /\ PayloadsHaveMedia'
      BY <2>7 DEF Knows, PriorsHaveMedia, RestoresAreKnown, PayloadsHaveMedia
    <2> QED
      BY <2>5, <2>6, <2>8 DEF SceneInv, MediaInv
  <1>4. CASE Record(x)
    <2> DEFINE e == [Fresh EXCEPT !.pc = "done", !.delivered = e0.delivered, !.mark = e0.mark]
    <2>0. recorded' \in {recorded, PayloadOf[x]} /\ course' \in {course, Silenced}
      BY <1>4 DEF Record
    <2> HIDE DEF e
    <2>1. /\ exec' = [exec EXCEPT ![x] = e]
          /\ recorded' \in Contents \cup {NoContent}
          /\ course' \in Courses
          /\ UNCHANGED <<row, media, late>>
      <3>1. recorded' \in Contents \cup {NoContent} /\ course' \in Courses
        BY <1>1, <2>0, SceneAssumption DEF TypeOK, Silenced, Courses
      <3> QED
        BY <1>4, <3>1 DEF Record, End, e
    <2> USE DEF e
    <2>2. Shaped(e) /\ Knows(e, x)
      BY <1>1 DEF Shaped, Knows, Fresh, Rows
    <2>3. TypeOK'
      BY <1>0, <1>1, <2>1, <2>2 DEF TypeOK, Shaped
    <2>4. ScenesHaveMedia' /\ LateHaveMedia'
      BY <1>1, <2>1 DEF MediaInv, ScenesHaveMedia, LateHaveMedia
    <2>5. \A y \in Executions : exec'[y] = IF y = x THEN e ELSE exec[y]
      BY <1>1, <2>1 DEF TypeOK
    <2>6. ASSUME NEW y \in Executions PROVE Knows(exec'[y], y)
      BY <2>2, <2>5, ExecutionKnown
    <2>7. PayloadsHaveMedia' /\ PriorsHaveMedia' /\ RestoresAreKnown'
      BY <2>1, <2>6 DEF Knows, PayloadsHaveMedia, PriorsHaveMedia, RestoresAreKnown
    <2> QED
      BY <2>3, <2>4, <2>7 DEF SceneInv, MediaInv
  <1> QED
    BY <1>2, <1>3, <1>4

\* A statement of a script writes known content into one row, or nothing.
LEMMA ScriptStep ==
  ASSUME SceneInv, NEW x \in Executions, Write(x) \/ Sync(x)
  PROVE  SceneInv'
  <1> DEFINE e0 == exec[x]
  <1>0. course' \in Courses
    BY CourseStep DEF SceneInv, TypeOK, Step
  <1>1. Shaped(e0) /\ Knows(e0, x) /\ TypeOK /\ MediaInv
    BY ExecutionKnown DEF SceneInv
  <1>2. e0.pc \in {"write", "sync"} /\ UNCHANGED <<media, late, recorded>>
    BY DEF Write, Sync, At
  <1>3. ToWrite(x) \in Contents /\ ToWrite(x) \in media
    BY <1>1, <1>2, WritesKnownContent
  <1>4. PICK r \in Rows, next \in {"sync", "reply"} : Statement(x, r, next)
    BY <1>1, OtherRow DEF Write, Sync, Shaped
  <1>5. PICK err \in BOOLEAN :
          exec' = [exec EXCEPT ![x] = [e0 EXCEPT !.pc = next, !.mark = "dirty", !.err = err]]
    <2>1. CASE exec' = [exec EXCEPT ![x].pc = next, ![x].mark = "dirty"]
      <3>1. [e0 EXCEPT !.pc = next, !.mark = "dirty"]
            = [e0 EXCEPT !.pc = next, !.mark = "dirty", !.err = e0.err] /\ e0.err \in BOOLEAN
        BY <1>1 DEF Shaped
      <3> QED
        BY <2>1, <3>1
    <2>2. ASSUME NEW err \in {TRUE, e0.err},
                 exec' = [exec EXCEPT ![x].pc = next, ![x].mark = "dirty", ![x].err = err]
          PROVE  \E b \in BOOLEAN :
                   exec' = [exec EXCEPT ![x] = [e0 EXCEPT !.pc = next, !.mark = "dirty", !.err = b]]
      <3>1. err \in BOOLEAN
        BY <1>1 DEF Shaped
      <3> QED
        BY <2>2, <3>1
    <2> QED
      BY <1>4, <2>1, <2>2 DEF Statement
  <1>6. row' = row \/ row' = [row EXCEPT ![r] = ToWrite(x)]
    BY <1>4 DEF Statement
  <1> DEFINE e == [e0 EXCEPT !.pc = next, !.mark = "dirty", !.err = err]
  <1>7. Shaped(e) /\ Knows(e, x)
    BY <1>1, <1>2 DEF Shaped, Knows
  <1>8. row' \in [Rows -> Contents] /\ ScenesHaveMedia'
    BY <1>1, <1>2, <1>3, <1>6 DEF TypeOK, MediaInv, ScenesHaveMedia
  <1>9. TypeOK'
    BY <1>0, <1>1, <1>2, <1>5, <1>7, <1>8 DEF TypeOK, Shaped
  <1>10. \A y \in Executions : exec'[y] = IF y = x THEN e ELSE exec[y]
    BY <1>1, <1>5 DEF TypeOK
  <1>11. ASSUME NEW y \in Executions PROVE Knows(exec'[y], y)
    BY <1>7, <1>10, ExecutionKnown
  <1>12. PayloadsHaveMedia' /\ PriorsHaveMedia' /\ RestoresAreKnown' /\ LateHaveMedia'
    BY <1>1, <1>2, <1>11
    DEF MediaInv, PayloadsHaveMedia, PriorsHaveMedia, RestoresAreKnown, LateHaveMedia, Knows
  <1> QED
    BY <1>8, <1>9, <1>12 DEF SceneInv, MediaInv

\* A late script writes the content it was left with.
LEMMA LateStep ==
  ASSUME SceneInv, NEW l \in late, LateScript(l)
  PROVE  SceneInv'
  <1>1. l.content \in Contents \cap media
    BY DEF SceneInv, TypeOK, MediaInv, LateHaveMedia
  <1>2. row' \in [Rows -> Contents] /\ \A r \in Rows : row'[r] \in media
    BY <1>1 DEF LateScript, SceneInv, TypeOK, MediaInv, ScenesHaveMedia
  <1> QED
    BY <1>2
    DEF LateScript, SceneInv, TypeOK, MediaInv, ScenesHaveMedia, PayloadsHaveMedia,
        PriorsHaveMedia, RestoresAreKnown, LateHaveMedia

\* Every step keeps the invariant.
LEMMA SceneStep == SceneInv /\ [Next]_vars => SceneInv'
  <1> SUFFICES ASSUME SceneInv, [Next]_vars PROVE SceneInv'
    OBVIOUS
  <1>1. CASE UNCHANGED vars
    BY <1>1
    DEF vars, SceneInv, TypeOK, MediaInv, ScenesHaveMedia, PayloadsHaveMedia,
        PriorsHaveMedia, RestoresAreKnown, LateHaveMedia
  <1>2. ASSUME NEW x \in Executions, Step(x) PROVE SceneInv'
    BY <1>2, QuietStep, LeavingStep, OuterStep, ScriptStep DEF Step
  <1>3. ASSUME NEW l \in late, LateScript(l) PROVE SceneInv'
    BY <1>3, LateStep
  <1> QED
    BY <1>1, <1>2, <1>3 DEF Next

\* The rows always hold a content, never a scene that could not be read, and whatever a
\* scene shows has its files on the cashier.
THEOREM ScenesAreShowable == Spec => [](TypeOK /\ ScenesHaveMedia /\ MediaInv)
  <1>1. Init => SceneInv
    BY SceneInit
  <1>2. SceneInv /\ [Next]_vars => SceneInv'
    BY SceneStep
  <1>3. SceneInv => TypeOK /\ ScenesHaveMedia /\ MediaInv
    BY DEF SceneInv, MediaInv
  <1> QED
    BY <1>1, <1>2, <1>3, PTL DEF Spec

\* Rows hold contents, executions what their handlers can leave, and late scripts contents.
THEOREM SceneTypesHold == Spec => []TypeOK
  BY ScenesAreShowable, PTL
-----------------------------------------------------------------------------
(* What executions that follow each other leave on the screen.             *)

\* Nobody else can write, and what an execution is about to call delivered is in its row.
Alone == late = {} /\ \A x, y \in Executions : Active(x) /\ Active(y) => x = y

Delivers(x) ==
  /\ exec[x].delivered => exec[x].pc \in {"record", "done"}
  /\ exec[x].pc = "refresh" \/ (exec[x].pc = "record" /\ exec[x].delivered)
       => row[exec[x].target] = PayloadOf[x]

AloneInv == course # "mixed" => Alone /\ \A x \in Executions : Delivers(x)

\* The rows that publications keep equal to what was published.
ShownRows == IF Twins THEN Rows ELSE {ActiveRow}
Shows(c) == \A r \in ShownRows : row[r] = c

\* Every execution but x left the scene in a state it knows, after some publication.
Settled(x) == recorded # NoContent /\ \A y \in Executions \ {x} : exec[y].mark = "clean"

\* What an execution knows of the scene, from place to place: before its first script, in a
\* script, and after.
Untouched(x) == exec[x].mark = "clean" /\ (Settled(x) => Shows(recorded))

Remembers(x) ==
  /\ exec[x].target \in ShownRows
  /\ exec[x].prior # NoContent /\ Settled(x) => exec[x].prior = recorded

Knowing(x) ==
  LET e == exec[x] IN
  /\ e.pc \in {"ready", "connect", "upload", "resolve", "read"} => e.mark = "clean"
  /\ e.pc \in {"connect", "upload", "resolve", "read"} => Untouched(x)
  /\ e.pc = "read" => e.target \in ShownRows
  /\ e.pc \in {"write", "sync", "reply", "verify"} => Remembers(x)
  /\ e.pc = "write" /\ e.goal = "publish" => Untouched(x)
  /\ e.pc \in {"sync", "reply", "verify"} => e.mark = "dirty"
  /\ e.pc = "sync" => Twins /\ (~e.err => row[e.target] = ToWrite(x))
  /\ e.pc = "reply" /\ ~e.err => Shows(ToWrite(x))
  /\ e.pc = "verify" => Shows(PayloadOf[x])
  /\ e.pc = "refresh" \/ (e.pc = "record" /\ e.delivered) => e.mark = "clean" /\ Shows(PayloadOf[x])
  /\ e.pc = "record" /\ ~e.delivered /\ e.mark = "clean" => Untouched(x)

AtRest ==
  (\A x \in Executions : ~Active(x) /\ exec[x].mark = "clean") /\ recorded # NoContent
    => Shows(recorded)

PlainInv == course = "plain" => AtRest /\ \A x \in Executions : Knowing(x)

CourseInv == AloneInv /\ PlainInv

\* Between two steps of one execution the others do not matter: they are not active, and the
\* invariant says of them only what their own record says.
LEMMA Focus ==
  ASSUME SceneInv, CourseInv, NEW x \in Executions, NEW e,
         exec' = [exec EXCEPT ![x] = e], late' = late,
         Active(x) \/ \A y \in Executions : ~Active(y),
         course' = course \/ (course' = "silent" /\ course = "plain"),
         course' # "mixed" => Delivers(x)',
         course' = "plain" => Knowing(x)',
         course' = "plain" /\ e.pc \in {"ready", "done"} => AtRest'
  PROVE  CourseInv'
  <1>1. \A y \in Executions : exec'[y] = IF y = x THEN e ELSE exec[y]
    BY DEF SceneInv, TypeOK
  <1>2. ASSUME course' # "mixed" PROVE \A y \in Executions \ {x} : ~Active(y)
    BY <1>2 DEF CourseInv, AloneInv, Alone
  <1>3. ASSUME course' # "mixed" PROVE Alone'
    <2>1. late' = {}
      BY <1>3 DEF CourseInv, AloneInv, Alone
    <2>2. \A y \in Executions \ {x} : ~Active(y)'
      BY <1>1, <1>2, <1>3 DEF Active
    <2> QED
      BY <2>1, <2>2 DEF Alone
  <1>4. ASSUME course' # "mixed", NEW y \in Executions PROVE Delivers(y)'
    <2>1. CASE y = x
      BY <1>4, <2>1
    <2>2. CASE y # x
      <3>1. exec'[y] = exec[y] /\ exec[y].pc \in {"ready", "done"}
        BY <1>1, <1>2, <1>4, <2>2 DEF Active
      <3>2. Delivers(y)
        BY <1>4 DEF CourseInv, AloneInv
      <3> QED
        BY <3>1, <3>2 DEF Delivers
    <2> QED
      BY <2>1, <2>2
  <1>5. ASSUME course' = "plain", NEW y \in Executions PROVE Knowing(y)'
    <2>1. CASE y = x
      BY <1>5, <2>1
    <2>2. CASE y # x
      <3>1. exec'[y] = exec[y] /\ exec[y].pc \in {"ready", "done"}
        BY <1>1, <1>2, <1>5, <2>2 DEF Active
      <3>2. Knowing(y)
        BY <1>5 DEF CourseInv, PlainInv
      <3>3. exec[y].pc = "ready" => exec[y].mark = "clean"
        BY <3>2 DEF Knowing
      <3> QED
        BY <3>1, <3>3 DEF Knowing
    <2> QED
      BY <2>1, <2>2
  <1>6. ASSUME course' = "plain" PROVE AtRest'
    <2>1. CASE e.pc \in {"ready", "done"}
      BY <1>6, <2>1
    <2>2. CASE e.pc \notin {"ready", "done"}
      BY <1>1, <2>2 DEF AtRest, Active
    <2> QED
      BY <2>1, <2>2
  <1> QED
    BY <1>3, <1>4, <1>5, <1>6 DEF CourseInv, AloneInv, PlainInv

\* A step that leaves rows and record alone leaves what an execution can know of them.
LEMMA SameScene ==
  ASSUME SceneInv, NEW x \in Executions, NEW e, exec' = [exec EXCEPT ![x] = e],
         UNCHANGED <<row, recorded>>
  PROVE  /\ exec'[x] = e
         /\ Settled(x)' <=> Settled(x)
         /\ \A c : Shows(c)' <=> Shows(c)
  <1>1. \A y \in Executions : exec'[y] = IF y = x THEN e ELSE exec[y]
    BY DEF SceneInv, TypeOK
  <1> QED
    BY <1>1 DEF Settled, Shows

\* At rest, an execution that has not begun knows what the next publication needs.
LEMMA CourseStart ==
  ASSUME SceneInv, CourseInv, NEW x \in Executions, Start(x)
  PROVE  CourseInv'
  <1> DEFINE e == [exec[x] EXCEPT !.pc = "connect"]
  <1>1. exec' = [exec EXCEPT ![x] = e] /\ exec[x].pc = "ready" /\ UNCHANGED <<row, late, recorded>>
    BY DEF Start, Goto, At
  <1>2. /\ Shaped(exec[x]) /\ e.pc = "connect"
        /\ e.mark = exec[x].mark /\ e.delivered = exec[x].delivered
    BY ExecutionKnown DEF Shaped
  <1>3. exec'[x] = e /\ (Settled(x)' <=> Settled(x)) /\ \A c : Shows(c)' <=> Shows(c)
    BY <1>1, SameScene
  <1>4. CASE course' = "mixed"
    BY <1>4 DEF CourseInv, AloneInv, PlainInv
  <1>5. CASE course' = course /\ \A y \in Executions : ~Active(y)
    <2>1. course # "mixed" => Delivers(x)'
      BY <1>1, <1>2, <1>3 DEF CourseInv, AloneInv, Delivers
    <2>2. ASSUME course = "plain" PROVE Knowing(x)'
      <3>1. AtRest /\ Knowing(x)
        BY <2>2 DEF CourseInv, PlainInv
      <3>2. e.mark = "clean"
        BY <1>1, <1>2, <3>1 DEF Knowing
      <3>3. Settled(x) => Shows(recorded)
        BY <1>2, <1>5, <3>1, <3>2 DEF AtRest, Settled
      <3> QED
        BY <1>1, <1>2, <1>3, <3>2, <3>3 DEF Knowing, Untouched
    <2> QED
      BY <1>1, <1>2, <1>5, <2>1, <2>2, Focus
  <1> QED
    BY <1>4, <1>5 DEF Start

\* Steps that prepare the publication do not touch the scene.
LEMMA CoursePrepare ==
  ASSUME SceneInv, CourseInv, NEW x \in Executions,
         Prepare(x) \/ Upload(x) \/ Resolve(x) \/ ReadPrior(x)
  PROVE  CourseInv'
  <1>1. PICK e : /\ exec' = [exec EXCEPT ![x] = e]
                 /\ \/ /\ \E pc \in {"upload", "resolve", "record"} : e = [exec[x] EXCEPT !.pc = pc]
                       /\ exec[x].pc \in {"connect", "upload"} /\ course' = course
                    \/ \E r \in Rows :
                         /\ exec[x].pc = "resolve"
                         /\ e = [exec[x] EXCEPT !.pc = "read", !.target = r]
                         /\ \/ course' = course /\ r \in ShownRows
                            \/ course' = Silenced
                    \/ \E c \in {row[exec[x].target], NoContent} :
                         /\ exec[x].pc = "read"
                         /\ e = [exec[x] EXCEPT !.pc = "write", !.prior = c]
                         /\ course' = course
    <2>1. CASE Prepare(x) \/ Upload(x)
      BY <2>1 DEF Prepare, Upload, Goto, At
    <2>2. CASE Resolve(x)
      <3>1. PICK r \in Rows :
              /\ exec' = [exec EXCEPT ![x].pc = "read", ![x].target = r]
              /\ course' = IF r = ActiveRow \/ Twins THEN course ELSE Silenced
        BY <2>2, SceneAssumption DEF Resolve, Rows
      <3>2. exec' = [exec EXCEPT ![x] = [exec[x] EXCEPT !.pc = "read", !.target = r]]
        BY <3>1
      <3>3. (course' = course /\ r \in ShownRows) \/ course' = Silenced
        BY <3>1 DEF ShownRows
      <3>4. exec[x].pc = "resolve"
        BY <2>2 DEF Resolve, At
      <3> QED
        BY <3>2, <3>3, <3>4
    <2>3. CASE ReadPrior(x)
      <3>1. exec[x].pc = "read" /\ course' = course
        BY <2>3 DEF ReadPrior, At
      <3>2. PICK c \in {row[exec[x].target], NoContent} :
              exec' = [exec EXCEPT ![x].pc = "write", ![x].prior = c]
        BY <2>3 DEF ReadPrior
      <3>3. exec' = [exec EXCEPT ![x] = [exec[x] EXCEPT !.pc = "write", !.prior = c]]
        BY <3>2
      <3> QED
        BY <3>1, <3>3
    <2> QED
      BY <2>1, <2>2, <2>3
  <1>2. UNCHANGED <<row, late, recorded>>
    BY DEF Prepare, Upload, Resolve, ReadPrior
  <1>3. exec'[x] = e /\ (Settled(x)' <=> Settled(x)) /\ \A c : Shows(c)' <=> Shows(c)
    BY <1>1, <1>2, SameScene
  <1>4. Shaped(exec[x]) /\ Knows(exec[x], x)
    BY ExecutionKnown
  <1>5. /\ e.mark = exec[x].mark /\ e.delivered = exec[x].delivered /\ e.goal = "publish"
        /\ e.pc \in {"upload", "resolve", "record", "read", "write"}
    BY <1>1, <1>4 DEF Shaped, Knows
  <1>6. Active(x) /\ exec[x].pc \in {"connect", "upload", "resolve", "read"}
    BY <1>1 DEF Active
  <1>7. course' = course \/ (course' = "silent" /\ course = "plain")
    BY <1>1 DEF Silenced
  <1>8. ASSUME course' # "mixed" PROVE Delivers(x)'
    <2>1. ~exec[x].delivered
      BY <1>6, <1>7, <1>8 DEF CourseInv, AloneInv, Delivers
    <2> QED
      BY <1>3, <1>5, <2>1 DEF Delivers
  <1>9. ASSUME course' = "plain" PROVE Knowing(x)'
    <2>1. course = "plain" /\ Silenced = "silent"
      BY <1>7, <1>9 DEF Silenced
    <2>2. Untouched(x) /\ (exec[x].pc = "read" => exec[x].target \in ShownRows)
      BY <1>6, <2>1 DEF CourseInv, PlainInv, Knowing
    <2>3. Untouched(x)' /\ e.mark = "clean" /\ ~e.delivered
      <3>1. ~exec[x].delivered
        BY <1>6, <2>1 DEF CourseInv, AloneInv, Delivers
      <3> QED
        BY <1>2, <1>3, <1>5, <2>2, <3>1 DEF Untouched
    <2>4. e.pc = "read" => e.target \in ShownRows
      BY <1>1, <1>4, <1>9, <2>1 DEF Shaped
    <2>5. e.pc = "write" => Remembers(x)'
      <3>1. SUFFICES ASSUME e.pc = "write" PROVE Remembers(x)'
        OBVIOUS
      <3>2. exec[x].pc = "read" /\ e.target = exec[x].target
            /\ e.prior \in {row[exec[x].target], NoContent}
        BY <1>1, <1>4, <3>1 DEF Shaped
      <3>3. Settled(x) => row[exec[x].target] = recorded
        BY <2>2, <3>2 DEF Untouched, Shows
      <3> QED
        BY <1>2, <1>3, <2>2, <3>2, <3>3 DEF Remembers
    <2> QED
      BY <1>3, <1>5, <2>3, <2>4, <2>5 DEF Knowing
  <1> QED
    BY <1>1, <1>2, <1>5, <1>6, <1>7, <1>8, <1>9, Focus

\* The answer of a script, and the verification, lead on to what the rows show, or to the
\* restoring of what the execution remembers.
LEMMA CourseAnswer ==
  ASSUME SceneInv, CourseInv, NEW x \in Executions, Reply(x) \/ Verify(x) \/ Refresh(x)
  PROVE  CourseInv'
  <1> DEFINE f == exec[x]
  <1>1. Shaped(f) /\ Knows(f, x)
    BY ExecutionKnown
  <1>2. UNCHANGED <<row, late, recorded, course>> /\ f.pc \in {"reply", "verify", "refresh"}
    BY DEF Reply, Verify, Refresh, At
  <1>3. Active(x)
    BY <1>2 DEF Active
  <1>4. ASSUME NEW e, exec' = [exec EXCEPT ![x] = e], e.pc \notin {"ready", "done"},
               course # "mixed" => Delivers(x)', course = "plain" => Knowing(x)'
        PROVE  CourseInv'
    BY <1>2, <1>3, <1>4, Focus
  <1>5. course # "mixed" => ~f.delivered
    BY <1>2 DEF CourseInv, AloneInv, Delivers
  <1>6. course = "plain" => Knowing(x)
    BY DEF CourseInv, PlainInv
  <1>7. ASSUME exec' = [exec EXCEPT ![x] = GiveUp(f)], f.pc \in {"reply", "verify"}
        PROVE  CourseInv'
    <2> DEFINE g == GiveUp(f)
    <2>1. exec'[x] = g /\ (Settled(x)' <=> Settled(x)) /\ \A c : Shows(c)' <=> Shows(c)
      BY <1>2, <1>7, SameScene
    <2>2. /\ g.mark = f.mark /\ g.delivered = f.delivered
          /\ g.prior = f.prior /\ g.target = f.target
          /\ g.pc = "record" \/ (g.pc = "write" /\ g.goal = "restore")
      BY <1>1 DEF GiveUp, Shaped
    <2>3. course # "mixed" => Delivers(x)'
      BY <1>5, <2>1, <2>2 DEF Delivers
    <2>4. ASSUME course = "plain" PROVE Knowing(x)'
      <3>1. f.mark = "dirty" /\ Remembers(x) /\ ~f.delivered
        BY <1>5, <1>6, <1>7, <2>4 DEF Knowing
      <3>2. Remembers(x)'
        BY <1>2, <2>1, <2>2, <3>1 DEF Remembers
      <3> QED
        BY <2>1, <2>2, <3>1, <3>2 DEF Knowing
    <2>5. g.pc \notin {"ready", "done"}
      BY <2>2
    <2> QED
      BY <1>4, <1>7, <2>3, <2>4, <2>5
  <1>8. CASE Reply(x)
    <2>0. f.pc = "reply"
      BY <1>8 DEF Reply, At
    <2>1. CASE f.err
      BY <1>7, <1>8, <2>0, <2>1 DEF Reply
    <2>2. CASE ~f.err /\ f.goal = "restore"
      <3> DEFINE e == [f EXCEPT !.pc = "record", !.mark = "clean"]
      <3>1. exec' = [exec EXCEPT ![x] = e]
        BY <1>8, <2>2 DEF Reply
      <3>2. exec'[x] = e /\ (Settled(x)' <=> Settled(x)) /\ \A c : Shows(c)' <=> Shows(c)
        BY <1>2, <3>1, SameScene
      <3>3. e.pc = "record" /\ e.mark = "clean" /\ e.delivered = f.delivered
        BY <1>1 DEF Shaped
      <3>4. course # "mixed" => Delivers(x)'
        BY <1>5, <3>2, <3>3 DEF Delivers
      <3>5. ASSUME course = "plain" PROVE Knowing(x)'
        <4>1. Remembers(x) /\ Shows(ToWrite(x)) /\ ToWrite(x) = f.prior /\ f.prior # NoContent
          BY <1>1, <1>6, <2>0, <2>2, <3>5 DEF Knowing, ToWrite, Knows
        <4>2. Settled(x) => Shows(recorded)
          BY <4>1 DEF Remembers
        <4>3. Untouched(x)'
          BY <1>2, <3>2, <3>3, <4>2 DEF Untouched
        <4> QED
          BY <1>5, <3>2, <3>3, <3>5, <4>3 DEF Knowing
      <3> QED
        BY <1>4, <3>1, <3>3, <3>4, <3>5
    <2>3. CASE ~f.err /\ f.goal # "restore"
      <3> DEFINE e == [f EXCEPT !.pc = "verify"]
      <3>1. exec' = [exec EXCEPT ![x] = e]
        BY <1>8, <2>3 DEF Reply
      <3>2. exec'[x] = e /\ (Settled(x)' <=> Settled(x)) /\ \A c : Shows(c)' <=> Shows(c)
        BY <1>2, <3>1, SameScene
      <3>3. /\ e.pc = "verify" /\ e.mark = f.mark /\ e.delivered = f.delivered
            /\ e.prior = f.prior /\ e.target = f.target /\ f.goal = "publish"
        BY <1>1, <2>3 DEF Shaped
      <3>4. course # "mixed" => Delivers(x)'
        BY <1>5, <3>2, <3>3 DEF Delivers
      <3>5. ASSUME course = "plain" PROVE Knowing(x)'
        <4>1. Remembers(x) /\ Shows(ToWrite(x)) /\ ToWrite(x) = PayloadOf[x] /\ f.mark = "dirty"
          BY <1>6, <2>0, <2>3, <3>3, <3>5 DEF Knowing, ToWrite
        <4>2. Remembers(x)' /\ Shows(PayloadOf[x])'
          BY <1>2, <3>2, <3>3, <4>1 DEF Remembers
        <4> QED
          BY <3>2, <3>3, <4>1, <4>2 DEF Knowing
      <3> QED
        BY <1>4, <3>1, <3>3, <3>4, <3>5
    <2> QED
      BY <2>1, <2>2, <2>3
  <1>9. CASE Verify(x)
    <2>0. f.pc = "verify"
      BY <1>9 DEF Verify, At
    <2>1. CASE exec' = [exec EXCEPT ![x] = GiveUp(f)]
      BY <1>7, <2>0, <2>1
    <2>2. CASE row[f.target] = PayloadOf[x]
               /\ exec' = [exec EXCEPT ![x] = [f EXCEPT !.pc = "refresh", !.mark = "clean"]]
      <3> DEFINE e == [f EXCEPT !.pc = "refresh", !.mark = "clean"]
      <3>2. exec'[x] = e /\ (Settled(x)' <=> Settled(x)) /\ \A c : Shows(c)' <=> Shows(c)
        BY <1>2, <2>2, SameScene
      <3>3. /\ e.pc = "refresh" /\ e.mark = "clean" /\ e.delivered = f.delivered
            /\ e.target = f.target
        BY <1>1 DEF Shaped
      <3>4. course # "mixed" => Delivers(x)'
        BY <1>2, <1>5, <2>2, <3>2, <3>3 DEF Delivers
      <3>5. ASSUME course = "plain" PROVE Knowing(x)'
        <4>1. Shows(PayloadOf[x])
          BY <1>6, <2>0, <3>5 DEF Knowing
        <4>2. Shows(PayloadOf[x])'
          BY <3>2, <4>1
        <4> QED
          BY <3>2, <3>3, <4>2 DEF Knowing
      <3> QED
        BY <1>4, <2>2, <3>3, <3>4, <3>5
    <2> QED
      BY <1>9, <2>1, <2>2 DEF Verify
  <1>10. CASE Refresh(x)
    <2> DEFINE e == [f EXCEPT !.pc = "record", !.delivered = TRUE]
    <2>0. f.pc = "refresh" /\ exec' = [exec EXCEPT ![x] = e]
      BY <1>10 DEF Refresh, At
    <2>2. exec'[x] = e /\ (Settled(x)' <=> Settled(x)) /\ \A c : Shows(c)' <=> Shows(c)
      BY <1>2, <2>0, SameScene
    <2>3. e.pc = "record" /\ e.mark = f.mark /\ e.delivered /\ e.target = f.target
      BY <1>1 DEF Shaped
    <2>4. course # "mixed" => Delivers(x)'
      BY <1>2, <2>0, <2>2, <2>3 DEF Delivers, CourseInv, AloneInv
    <2>5. ASSUME course = "plain" PROVE Knowing(x)'
      <3>1. f.mark = "clean" /\ Shows(PayloadOf[x])
        BY <1>6, <2>0, <2>5 DEF Knowing
      <3>2. Shows(PayloadOf[x])'
        BY <2>2, <3>1
      <3> QED
        BY <2>2, <2>3, <3>1, <3>2 DEF Knowing
    <2> QED
      BY <1>4, <2>0, <2>3, <2>4, <2>5
  <1> QED
    BY <1>8, <1>9, <1>10

\* A script that has reported no error has written what it was to write, in every row that
\* publications keep equal.
LEMMA CourseScript ==
  ASSUME SceneInv, CourseInv, NEW x \in Executions, Write(x) \/ Sync(x)
  PROVE  CourseInv'
  <1> DEFINE f == exec[x]
             next == IF Write(x) /\ Twins THEN "sync" ELSE "reply"
             r == IF Write(x) THEN f.target ELSE Other(f.target)
  <1>1. Shaped(f) /\ UNCHANGED <<late, recorded>>
    BY ExecutionKnown DEF Write, Sync
  <1>2. /\ Statement(x, r, next)
        /\ \/ Write(x) /\ f.pc = "write"
           \/ ~Write(x) /\ f.pc = "sync"
    BY DEF Write, Sync, At
  <1>3. Active(x) /\ row \in [Rows -> Contents] /\ f.target \in Rows /\ r \in Rows
    BY <1>1, <1>2, OtherRow DEF Active, SceneInv, TypeOK, Shaped
  <1>4. PICK e : /\ exec' = [exec EXCEPT ![x] = e]
                 /\ e.pc = next /\ e.mark = "dirty" /\ e.delivered = f.delivered
                 /\ e.target = f.target /\ e.prior = f.prior /\ e.goal = f.goal
                 /\ \/ /\ row' = [row EXCEPT ![r] = ToWrite(x)] /\ course' = course
                       /\ e.err = f.err
                    \/ UNCHANGED row /\ course' = course /\ e.err
                    \/ UNCHANGED row /\ course' = Silenced
    <2>1. CASE row' = [row EXCEPT ![r] = ToWrite(x)] /\ UNCHANGED course
               /\ exec' = [exec EXCEPT ![x].pc = next, ![x].mark = "dirty"]
      <3> DEFINE e == [f EXCEPT !.pc = next, !.mark = "dirty"]
      <3>1. exec' = [exec EXCEPT ![x] = e]
        BY <2>1
      <3>2. /\ e.pc = next /\ e.mark = "dirty" /\ e.delivered = f.delivered
            /\ e.target = f.target /\ e.prior = f.prior /\ e.goal = f.goal /\ e.err = f.err
        BY <1>1 DEF Shaped
      <3> QED
        BY <2>1, <3>1, <3>2
    <2>2. ASSUME NEW err, UNCHANGED row, course' = IF err THEN course ELSE Silenced,
                 exec' = [exec EXCEPT ![x].pc = next, ![x].mark = "dirty", ![x].err = err],
                 err \in BOOLEAN
          PROVE  \E e : /\ exec' = [exec EXCEPT ![x] = e]
                        /\ e.pc = next /\ e.mark = "dirty" /\ e.delivered = f.delivered
                        /\ e.target = f.target /\ e.prior = f.prior /\ e.goal = f.goal
                        /\ \/ course' = course /\ e.err
                           \/ course' = Silenced
      <3> DEFINE e == [f EXCEPT !.pc = next, !.mark = "dirty", !.err = err]
      <3>1. exec' = [exec EXCEPT ![x] = e]
        BY <2>2
      <3>2. /\ e.pc = next /\ e.mark = "dirty" /\ e.delivered = f.delivered
            /\ e.target = f.target /\ e.prior = f.prior /\ e.goal = f.goal /\ e.err = err
        BY <1>1 DEF Shaped
      <3>3. (course' = course /\ err) \/ course' = Silenced
        BY <2>2
      <3> QED
        BY <3>1, <3>2, <3>3
    <2>3. f.err \in BOOLEAN
      BY <1>1 DEF Shaped
    <2> QED
      BY <1>2, <2>1, <2>2, <2>3 DEF Statement
  <1>5. exec'[x] = e /\ (Settled(x)' <=> Settled(x)) /\ ToWrite(x)' = ToWrite(x)
    <2>1. \A y \in Executions : exec'[y] = IF y = x THEN e ELSE exec[y]
      BY <1>4 DEF SceneInv, TypeOK
    <2> QED
      BY <1>1, <1>4, <2>1 DEF Settled, ToWrite
  <1>6. course' = course \/ (course' = "silent" /\ course = "plain")
    BY <1>4 DEF Silenced
  <1>7. e.pc \in {"sync", "reply"}
    BY <1>4
  <1>8. ASSUME course' # "mixed" PROVE Delivers(x)'
    <2>1. ~f.delivered
      BY <1>2, <1>6, <1>8 DEF CourseInv, AloneInv, Delivers
    <2> QED
      BY <1>4, <1>5, <1>7, <2>1 DEF Delivers
  <1>9. ASSUME course' = "plain" PROVE Knowing(x)'
    <2>1. course = "plain" /\ Silenced # "plain"
      BY <1>6, <1>9 DEF Silenced
    <2>2. Remembers(x) /\ (f.pc = "sync" => Twins /\ (~f.err => row[f.target] = ToWrite(x)))
      BY <1>2, <2>1 DEF CourseInv, PlainInv, Knowing
    <2>3. Remembers(x)'
      BY <1>1, <1>4, <1>5, <2>2 DEF Remembers
    <2>4. ~e.err => row' = [row EXCEPT ![r] = ToWrite(x)] /\ ~f.err
      BY <1>4, <1>9, <2>1
    <2>5. e.pc = "sync" => Twins /\ (~e.err => row'[e.target] = ToWrite(x))
      BY <1>2, <1>3, <1>4, <2>4
    <2>6. e.pc = "reply" /\ ~e.err => Shows(ToWrite(x))'
      <3>1. SUFFICES ASSUME e.pc = "reply", ~e.err, NEW s \in ShownRows
                     PROVE  row'[s] = ToWrite(x)
        BY <1>5 DEF Shows
      <3>2. CASE f.pc = "write"
        <4>1. ~Twins /\ s = f.target /\ r = f.target
          BY <1>2, <1>4, <2>2, <3>1, <3>2 DEF Remembers, ShownRows
        <4> QED
          BY <1>3, <2>4, <3>1, <4>1
      <3>3. CASE f.pc = "sync"
        <4>1. s \in Rows /\ r = Other(f.target)
          BY <1>2, <2>2, <3>1, <3>3 DEF ShownRows
        <4>2. s = f.target \/ s = r
          BY <1>3, <4>1 DEF Rows, Other
        <4> QED
          BY <1>3, <2>2, <2>4, <3>1, <3>3, <4>1, <4>2
      <3> QED
        BY <1>2, <3>2, <3>3
    <2> QED
      BY <1>4, <1>5, <1>7, <2>3, <2>5, <2>6 DEF Knowing
  <1>10. e.pc \notin {"ready", "done"}
    BY <1>7
  <1> QED
    BY <1>1, <1>3, <1>4, <1>6, <1>8, <1>9, <1>10, Focus

\* The record closes an execution: the scene shows what is recorded now, or what was before.
\* A delivery that is not recorded ends the plain course.
LEMMA CourseRecord ==
  ASSUME SceneInv, CourseInv, NEW x \in Executions, Record(x)
  PROVE  CourseInv'
  <1> DEFINE f == exec[x]
             e == [Fresh EXCEPT !.pc = "done", !.delivered = f.delivered, !.mark = f.mark]
  <1>1. /\ exec' = [exec EXCEPT ![x] = e] /\ f.pc = "record"
        /\ \/ recorded' = IF f.delivered THEN PayloadOf[x] ELSE recorded
           \/ recorded' = recorded /\ (f.delivered => course' # "plain")
        /\ course' = course \/ (course' = "silent" /\ course = "plain")
        /\ UNCHANGED <<row, late>>
    BY DEF Record, End, At, Silenced
  <1>2. \A y \in Executions : exec'[y] = IF y = x THEN e ELSE exec[y]
    BY <1>1 DEF SceneInv, TypeOK
  <1>3. e.pc = "done" /\ e.delivered = f.delivered /\ e.mark = f.mark
    BY DEF Fresh
  <1>4. Delivers(x)' /\ Knowing(x)'
    BY <1>2, <1>3 DEF Delivers, Knowing
  <1>5. ASSUME course' = "plain" PROVE AtRest'
    <2>0. /\ course = "plain"
          /\ recorded' = IF f.delivered THEN PayloadOf[x] ELSE recorded
      BY <1>1, <1>5
    <2>1. SUFFICES ASSUME \A y \in Executions : exec'[y].mark = "clean", recorded' # NoContent
                   PROVE  \A s \in ShownRows : row[s] = recorded'
      BY <1>1 DEF AtRest, Shows
    <2>2. Knowing(x)
      BY <2>0 DEF CourseInv, PlainInv
    <2>3. CASE f.delivered
      BY <1>1, <2>0, <2>2, <2>3 DEF Knowing, Shows
    <2>4. CASE ~f.delivered
      <3>1. f.mark = "clean" /\ Settled(x) /\ recorded' = recorded
        BY <1>1, <1>2, <1>3, <2>0, <2>1, <2>4 DEF Settled
      <3>2. Shows(recorded)
        BY <1>1, <2>2, <2>4, <3>1 DEF Knowing, Untouched
      <3> QED
        BY <1>1, <3>1, <3>2 DEF Shows
    <2> QED
      BY <1>1, <2>3, <2>4
  <1>6. Active(x)
    BY <1>1 DEF Active
  <1> QED
    BY <1>1, <1>3, <1>4, <1>5, <1>6, Focus

\* Once executions have overlapped or one has been cut off, nothing is claimed.
LEMMA CourseCut ==
  ASSUME NEW x \in Executions, ScriptOrphaned(x) \/ Crash(x) \/ Cancel(x)
  PROVE  CourseInv'
  BY DEF ScriptOrphaned, Crash, Cancel, Stop, CourseInv, AloneInv, PlainInv

\* Nothing has happened yet.
LEMMA CourseInit == Init => CourseInv
  BY DEF Init, CourseInv, AloneInv, Alone, Delivers, PlainInv, AtRest, Knowing, Active, Fresh

\* Every step keeps what its course allows to say.
LEMMA CourseNext == SceneInv /\ CourseInv /\ [Next]_vars => CourseInv'
  <1> SUFFICES ASSUME SceneInv, CourseInv, [Next]_vars PROVE CourseInv'
    OBVIOUS
  <1>1. CASE UNCHANGED vars
    BY <1>1
    DEF vars, CourseInv, AloneInv, Alone, Delivers, PlainInv, AtRest, Knowing, Active,
        Untouched, Remembers, Settled, Shows, ToWrite
  <1>2. ASSUME NEW x \in Executions, Step(x) PROVE CourseInv'
    BY <1>2, CourseStart, CoursePrepare, CourseAnswer, CourseScript, CourseRecord, CourseCut
    DEF Step
  <1>3. ASSUME NEW l \in late, LateScript(l) PROVE CourseInv'
    <2>1. course' = "mixed"
      BY <1>3 DEF LateScript, CourseInv, AloneInv, Alone
    <2> QED
      BY <2>1 DEF CourseInv, AloneInv, PlainInv
  <1> QED
    BY <1>1, <1>2, <1>3 DEF Next

\* While the executions of a cashier do not overlap and none is cut off, one that says it
\* delivered has its content in the row it wrote, even where failures go unseen.
THEOREM DeliveredStays == Spec => []DeliveredIsShown
  <1>1. Init => SceneInv /\ CourseInv
    BY SceneInit, CourseInit
  <1>2. SceneInv /\ CourseInv /\ [Next]_vars => (SceneInv /\ CourseInv)'
    BY SceneStep, CourseNext
  <1>3. SceneInv /\ CourseInv => DeliveredIsShown
    BY DEF CourseInv, AloneInv, Delivers, DeliveredIsShown, At
  <1> QED
    BY <1>1, <1>2, <1>3, PTL DEF Spec

\* While every failure is reported as well, a cashier at rest shows what was last published
\* on it, on the row its scenario shows.
THEOREM LastStays == Spec => []PlainlyShown
  <1>1. Init => SceneInv /\ CourseInv
    BY SceneInit, CourseInit
  <1>2. SceneInv /\ CourseInv /\ [Next]_vars => (SceneInv /\ CourseInv)'
    BY SceneStep, CourseNext
  <1>3. SceneInv /\ CourseInv => PlainlyShown
    <2>1. ActiveRow \in ShownRows
      BY SceneAssumption DEF ShownRows
    <2> QED
      BY <2>1
      DEF CourseInv, PlainInv, AtRest, Shows, PlainlyShown, LastPublishedIsShown, Quiet
  <1> QED
    BY <1>1, <1>2, <1>3, PTL DEF Spec
=============================================================================
