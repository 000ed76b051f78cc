--------------------------- MODULE DeploymentProofs ---------------------------
(***************************************************************************)
(* However many deployments of one cashbox overlap, fail, die or have      *)
(* updates carried out late, every file a scene names is on the cashbox,   *)
(* unless its move failed unnoticed; and a deployment that nothing         *)
(* disturbs shows its configuration, or leaves the scenes as they were:    *)
(* for any deployments, configurations, media and names.                   *)
(***************************************************************************)
EXTENDS Deployment, TLAPS

\* The names of the files that are on the cashbox, or were lost in a move.
Have == {n \in Names : n \in lost \/ live[n] # None}

\* From step 5 on: media that are not to be sent are there.
Placing == {"read", "decide", "stage", "check", "promote", "write"}

\* What the row r of a deployment may rely on; "box" is its staging directory, "have" the names of
\* the files there are.
Fine(r, box, have) ==
  /\ r.pc # "none" => r.config \in Configs
  /\ \A m \in Modes : r.seen[m].names \subseteq have
  /\ r.pc \in Placing => \A a \in Wanted(r) \ r.need : NameOf[a] \in have
  /\ r.pc = "promote" => \A a \in r.need : box[NameOf[a]] = a
  /\ r.pc = "write" => r.need = {} /\ r.todo \subseteq ModesOf(r)
  /\ r.pc \in {"cleanup", "restore"} => \A m \in r.todo : r.seen[m].kind \in {"ads", "alien"}
  /\ r.pc = "restore" => r.todo # {}

FilesInv ==
  /\ \A m \in Modes : scene[m].names \subseteq Have
  /\ \A l \in late : l[2].names \subseteq Have
  /\ \A d \in Deployments : Fine(dep[d], staging[d], Have)

DeployInv == DeployTypeOK /\ FilesInv

-----------------------------------------------------------------------------
(* The operators.                                                          *)

\* A scene that was read and could be restored is one that the cashbox stores.
LEMMA KindStored ==
  ASSUME NEW s \in Stored \cup {Unread}, s.kind \in {"ads", "alien"}
  PROVE  s \in Stored
  BY DEF Unread, Odd

\* The scenes of a configuration are stored as they are, and need its media's files.
LEMMA DesiredStored ==
  ASSUME NEW c \in Configs, NEW m \in Modes
  PROVE  /\ DesiredScene(c, m) \in Stored
         /\ DesiredScene(c, m).names = NamesOf(Playlist[c][m])
         /\ Playlist[c][m] \subseteq Media
  <1>1. Playlist[c][m] \subseteq Media
    BY DeploymentAssumption
  <1>2. NamesOf(Playlist[c][m]) \subseteq Names
    BY <1>1, DeploymentAssumption DEF NamesOf
  <1> QED
    BY <1>1, <1>2 DEF DesiredScene, Stored, Ads

\* What a deployment wants is media.
LEMMA WantedMedia ==
  ASSUME NEW r \in Rows, r.config \in Configs
  PROVE  Wanted(r) \subseteq Media /\ ModesOf(r) \subseteq Modes
  <1>1. \A m \in Modes : Playlist[r.config][m] \subseteq Media
    BY DeploymentAssumption
  <1>2. ModesOf(r) \subseteq Modes
    BY DEF ModesOf, Modes
  <1> QED
    BY <1>1, <1>2 DEF Wanted

\* The media of a mode that a deployment writes are among those it wants.
LEMMA FirstWanted ==
  ASSUME NEW r \in Rows, r.config \in Configs, r.todo \subseteq ModesOf(r)
  PROVE  First(r.todo) \in Modes /\ Playlist[r.config][First(r.todo)] \subseteq Wanted(r)
  <1>1. First(r.todo) \in Modes
    BY DEF First, Modes
  <1>2. CASE First(r.todo) \in ModesOf(r)
    BY <1>1, <1>2 DEF Wanted
  <1>3. CASE First(r.todo) \notin ModesOf(r)
    <2>1. First(r.todo) = "split"
      BY <1>3 DEF First
    <2>2. Playlist[r.config]["split"] = {}
      BY <1>3, <2>1 DEF ModesOf, Modes
    <2> QED
      BY <1>1, <2>1, <2>2
  <1> QED
    BY <1>1, <1>2, <1>3

\* A row that ends is one of a deployment that is over.
LEMMA EndedRow ==
  ASSUME NEW r \in Rows, NEW status \in Statuses
  PROVE  /\ Ended(r, status) \in Rows /\ Ended(r, status).pc = "ended"
         /\ Ended(r, status).seen = r.seen /\ Ended(r, status).config = r.config
  BY DEF Ended, Rows, Pcs

\* Whatever there is, a row that has ended can rely on what its scenes name.
LEMMA EndedFine ==
  ASSUME NEW r \in Rows, NEW status \in Statuses, NEW box, NEW have, r.pc # "none",
         Fine(r, box, have)
  PROVE  \A other : Fine(Ended(r, status), other, have)
  BY EndedRow DEF Fine, Placing

\* After an exception only scenes that can be restored are to be restored.
LEMMA RaisedFine ==
  ASSUME NEW r \in Rows, NEW box, NEW have, r.pc # "none", Fine(r, box, have)
  PROVE  /\ Raised(r) \in Rows
         /\ \A other : Fine(Raised(r), other, have)
  <1>1. CASE Handler(r) = "ended"
    BY <1>1, EndedRow, EndedFine DEF Raised, Statuses
  <1>2. CASE Handler(r) # "ended"
    <2> DEFINE left == IF r.snapshot THEN Restorable(r) ELSE {}
               e == [r EXCEPT !.status = "FAILED", !.pc = Handler(r), !.need = {},
                              !.stable = FALSE, !.sealed = FALSE, !.todo = left]
    <2>1. Raised(r) = e
      BY <1>2 DEF Raised
    <2>2. Handler(r) \in {"cleanup", "restore"}
      BY <1>2 DEF Handler, BannerHandler
    <2>3. Handler(r) = "restore" => left # {}
      BY DEF Handler, BannerHandler
    <2>4. ModesOf(r) \subseteq Modes
      BY DEF ModesOf, Modes
    <2>5. left \subseteq Modes /\ \A m \in left : r.seen[m].kind \in {"ads", "alien"}
      BY <2>4 DEF Restorable
    <2> HIDE DEF left
    <2>6. /\ e \in Rows /\ e.pc = Handler(r) /\ e.todo = left /\ e.seen = r.seen
          /\ e.config = r.config
      BY <2>2, <2>5 DEF Rows, Pcs, Statuses
    <2> HIDE DEF e
    <2>7. \A other : Fine(e, other, have)
      BY <2>2, <2>3, <2>5, <2>6 DEF Fine, Placing
    <2> QED
      BY <2>1, <2>6, <2>7
  <1> QED
    BY <1>1, <1>2

-----------------------------------------------------------------------------
(* One step of one deployment.                                             *)

\* What a row relies on stays, while more files come to be there.
LEMMA Persists ==
  ASSUME NEW r \in Rows, NEW box, NEW have, NEW more, have \subseteq more, Fine(r, box, have)
  PROVE  Fine(r, box, more)
  BY DEF Fine

\* The deployment d becomes e, the scenes and late updates name what is there.
LEMMA OneDeployment ==
  ASSUME DeployInv, NEW d \in Deployments, NEW e \in Rows, dep' = [dep EXCEPT ![d] = e],
         Have \subseteq Have', \A c \in Deployments \ {d} : staging'[c] = staging[c],
         Fine(e, staging'[d], Have'),
         \/ scene' = scene
         \/ \E m \in Modes, s \in Stored : scene' = Updated(scene, m, s) /\ s.names \subseteq Have',
         \/ late' = late
         \/ \E m \in Modes, s \in Stored : late' = late \cup {<<m, s>>} /\ s.names \subseteq Have'
  PROVE  /\ FilesInv'
         /\ dep' \in [Deployments -> Rows]
         /\ scene' \in [Modes -> Stored]
         /\ late' \subseteq (Modes \X Stored)
  <1>1. /\ dep \in [Deployments -> Rows] /\ scene \in [Modes -> Stored]
        /\ late \subseteq (Modes \X Stored) /\ FilesInv
    BY DEF DeployInv, DeployTypeOK
  <1>2. dep'[d] = e /\ \A c \in Deployments \ {d} : dep'[c] = dep[c]
    BY <1>1
  <1>3. \A c \in Deployments : Fine(dep'[c], staging'[c], Have')
    <2> TAKE c \in Deployments
    <2>1. CASE c = d
      BY <1>2, <2>1
    <2>2. CASE c # d
      <3>1. dep[c] \in Rows /\ Fine(dep[c], staging[c], Have)
        BY <1>1 DEF FilesInv
      <3>2. Fine(dep[c], staging[c], Have')
        BY <3>1, Persists
      <3> QED
        BY <1>2, <2>2, <3>2
    <2> QED
      BY <2>1, <2>2
  <1>4. scene' \in [Modes -> Stored] /\ \A m \in Modes : scene'[m].names \subseteq Have'
    BY <1>1 DEF FilesInv, Updated
  <1>5. late' \subseteq (Modes \X Stored) /\ \A l \in late' : l[2].names \subseteq Have'
    BY <1>1 DEF FilesInv
  <1> QED
    BY <1>1, <1>2, <1>3, <1>4, <1>5 DEF FilesInv

\* The same for all variables.
LEMMA DeploymentKept ==
  ASSUME DeployInv, NEW d \in Deployments, NEW e \in Rows, dep' = [dep EXCEPT ![d] = e],
         Have \subseteq Have', \A c \in Deployments \ {d} : staging'[c] = staging[c],
         Fine(e, staging'[d], Have'),
         \/ scene' = scene
         \/ \E m \in Modes, s \in Stored : scene' = Updated(scene, m, s) /\ s.names \subseteq Have',
         \/ late' = late
         \/ \E m \in Modes, s \in Stored : late' = late \cup {<<m, s>>} /\ s.names \subseteq Have',
         staging' \in [Deployments -> [Names -> Media \cup {None}]],
         live' \in [Names -> Media \cup {None}], lost' \subseteq Names,
         UNCHANGED <<known, central>>, Fault \/ NoFault,
         actualVersion' \in Configs \cup {None}, last' \in Deployments \cup {None},
         before' \in [Modes -> Stored], alone' \in BOOLEAN, calm' \in BOOLEAN
  PROVE  DeployInv'
  <1>1. /\ FilesInv' /\ dep' \in [Deployments -> Rows] /\ scene' \in [Modes -> Stored]
        /\ late' \subseteq (Modes \X Stored)
    BY OneDeployment
  <1>2. DeployTypeOK
    BY DEF DeployInv
  <1>3. faults' \in 0..MaxFaults
    BY <1>2, DeploymentAssumption DEF DeployTypeOK, Fault, NoFault
  <1> QED
    BY <1>1, <1>2, <1>3 DEF DeployTypeOK, DeployInv

\* A step that touches no file.
LEMMA DeploymentWorks ==
  ASSUME DeployInv, NEW d \in Deployments, NEW e \in Rows, dep' = [dep EXCEPT ![d] = e],
         Fine(e, staging[d], Have),
         \/ scene' = scene
         \/ \E m \in Modes, s \in Stored : scene' = Updated(scene, m, s) /\ s.names \subseteq Have,
         \/ late' = late
         \/ \E m \in Modes, s \in Stored : late' = late \cup {<<m, s>>} /\ s.names \subseteq Have,
         UNCHANGED <<known, central, live, staging, last, before, alone, lost>>,
         Fault \/ NoFault, actualVersion' \in Configs \cup {None}, calm' \in BOOLEAN
  PROVE  DeployInv'
  <1>1. Have' = Have
    BY DEF Have
  <1>2. /\ staging' \in [Deployments -> [Names -> Media \cup {None}]]
        /\ live' \in [Names -> Media \cup {None}] /\ lost' \subseteq Names
        /\ last' \in Deployments \cup {None} /\ before' \in [Modes -> Stored] /\ alone' \in BOOLEAN
    BY DEF DeployInv, DeployTypeOK
  <1> QED
    BY <1>1, <1>2, DeploymentKept

\* The row of a deployment, as the invariant has it.
LEMMA RowKnown ==
  ASSUME DeployInv, NEW d \in Deployments
  PROVE  /\ dep[d] \in Rows /\ Fine(dep[d], staging[d], Have)
         /\ \A m \in Modes : scene[m] \in Stored /\ scene[m].names \subseteq Have
         /\ calm \in BOOLEAN /\ actualVersion \in Configs \cup {None}
  BY DEF DeployInv, DeployTypeOK, FilesInv

\* An exception, in a step that has touched no file.
LEMMA RaiseKeeps ==
  ASSUME DeployInv, NEW d \in Deployments, dep[d].pc # "none", Raise(d), Fault \/ NoFault,
         \/ scene' = scene
         \/ \E m \in Modes, s \in Stored : scene' = Updated(scene, m, s) /\ s.names \subseteq Have,
         \/ late' = late
         \/ \E m \in Modes, s \in Stored : late' = late \cup {<<m, s>>} /\ s.names \subseteq Have,
         UNCHANGED <<known, central, live, staging, actualVersion, last, before, alone, lost>>
  PROVE  DeployInv'
  <1>1. Raised(dep[d]) \in Rows /\ Fine(Raised(dep[d]), staging[d], Have)
    BY RowKnown, RaisedFine
  <1>2. dep' = [dep EXCEPT ![d] = Raised(dep[d])] /\ calm' \in BOOLEAN
    BY RowKnown DEF Raise
  <1>3. actualVersion' \in Configs \cup {None}
    BY RowKnown
  <1> QED
    BY <1>1, <1>2, <1>3, DeploymentWorks

\* A command that fails without effect.
LEMMA FailsKeeps ==
  ASSUME DeployInv, NEW d \in Deployments, dep[d].pc # "none", Fails(d)
  PROVE  DeployInv'
  BY RaiseKeeps DEF Fails, cashbox

-----------------------------------------------------------------------------
(* The steps.                                                              *)

\* Steps 1 and 2: a deployment of a configuration begins.
LEMMA StartKeeps ==
  ASSUME DeployInv, NEW d \in Deployments, NEW c \in Configs,
         NEW p \in {"playlist", "banner"}, Start(d, c, p)
  PROVE  DeployInv'
  <1> DEFINE r == [Fresh EXCEPT !.status = "RUNNING", !.pipeline = p, !.config = c,
                                !.had = actualVersion]
  <1>1. /\ r \in Rows /\ r.config = c /\ r.seen = [m \in Modes |-> Unread]
    BY RowKnown DEF Fresh, Rows, Pcs, Statuses
  <1> HIDE DEF r
  <1>2. [r EXCEPT !.pc = "connect"] \in Rows /\ Ended(r, "FAILED") \in Rows
    BY <1>1, EndedRow DEF Rows, Pcs, Statuses
  <1>3. Unread.names = {}
    BY DEF Unread, Odd
  <1>4. /\ [r EXCEPT !.pc = "connect"].pc = "connect" /\ [r EXCEPT !.pc = "connect"].config = c
        /\ [r EXCEPT !.pc = "connect"].seen = r.seen
        /\ Ended(r, "FAILED").pc = "ended" /\ Ended(r, "FAILED").config = c
        /\ Ended(r, "FAILED").seen = r.seen
    BY <1>1, EndedRow DEF Rows, Statuses
  <1>5. \A e \in {[r EXCEPT !.pc = "connect"], Ended(r, "FAILED")} : Fine(e, staging[d], Have)
    BY <1>1, <1>3, <1>4 DEF Fine, Placing
  <1>6. PICK e \in {[r EXCEPT !.pc = "connect"], Ended(r, "FAILED")} : dep' = [dep EXCEPT ![d] = e]
    BY DEF Start, r
  <1>7. /\ Fault \/ NoFault
        /\ UNCHANGED <<known, central, cashbox, actualVersion, lost>>
        /\ last' = d /\ before' = scene /\ alone' \in BOOLEAN /\ calm' \in BOOLEAN
    BY RowKnown DEF Start
  <1>8. Have' = Have
    BY <1>7 DEF Have, cashbox
  <1>9. /\ staging' \in [Deployments -> [Names -> Media \cup {None}]] /\ staging' = staging
        /\ live' \in [Names -> Media \cup {None}] /\ lost' \subseteq Names
        /\ before' \in [Modes -> Stored] /\ actualVersion' \in Configs \cup {None}
        /\ scene' = scene /\ late' = late
    BY <1>7 DEF DeployInv, DeployTypeOK, cashbox
  <1> QED
    BY <1>2, <1>5, <1>6, <1>7, <1>8, <1>9, DeploymentKept

\* Steps 3 and 4: what is not on the cashbox is to be sent.
LEMMA InventoryKeeps ==
  ASSUME DeployInv, NEW d \in Deployments, Connect(d) \/ Inventory(d)
  PROVE  DeployInv'
  <1> DEFINE r == dep[d]
  <1>1. r \in Rows /\ Fine(r, staging[d], Have)
    BY RowKnown
  <1>2. CASE Fails(d)
    BY <1>2, FailsKeeps DEF Connect, Inventory
  <1>3. CASE NoFault /\ Connect(d) /\ ~Fails(d)
    <2> DEFINE e == [r EXCEPT !.pc = "inventory", !.stable = TRUE]
    <2>1. /\ r.pc = "connect" /\ dep' = [dep EXCEPT ![d] = e]
          /\ UNCHANGED <<known, central, cashbox, actualVersion, history>>
      BY <1>3 DEF Connect
    <2> HIDE DEF r
    <2>2. e \in Rows /\ e.pc = "inventory" /\ e.config = r.config /\ e.seen = r.seen
      BY <1>1 DEF Rows, Pcs
    <2> HIDE DEF e
    <2>3. Fine(e, staging[d], Have)
      BY <1>1, <2>1, <2>2 DEF Fine, Placing, r
    <2> QED
      BY <1>3, <2>1, <2>2, <2>3, RowKnown, DeploymentWorks DEF cashbox, history
  <1>4. CASE NoFault /\ Inventory(d) /\ ~Fails(d)
    <2> DEFINE e == [r EXCEPT !.pc = "read", !.todo = ModesOf(r), !.need = MediaDiff(Wanted(r)),
                              !.sealed = TRUE]
    <2>1. /\ r.pc = "inventory" /\ dep' = [dep EXCEPT ![d] = e]
          /\ UNCHANGED <<known, central, cashbox, actualVersion, history>>
      BY <1>4 DEF Inventory
    <2> HIDE DEF r
    <2>2. r.config \in Configs
      BY <1>1, <2>1 DEF Fine, r
    <2>3. Wanted(r) \subseteq Media /\ ModesOf(r) \subseteq Modes
      BY <1>1, <2>2, WantedMedia
    <2>4. MediaDiff(Wanted(r)) \subseteq Wanted(r)
      BY DEF MediaDiff
    <2>5. \A a \in Wanted(r) \ MediaDiff(Wanted(r)) : NameOf[a] \in Have
      <3>1. \A a \in Wanted(r) \ MediaDiff(Wanted(r)) : NameOf[a] \in DOMAIN Listed
        BY DEF MediaDiff
      <3>2. DOMAIN Listed \subseteq Have
        BY DEF Listed, Have
      <3> QED
        BY <3>1, <3>2
    <2>6. /\ e \in Rows /\ e.pc = "read" /\ e.config = r.config /\ e.seen = r.seen
          /\ e.need = MediaDiff(Wanted(r)) /\ e.pipeline = r.pipeline
      BY <1>1, <2>3, <2>4 DEF Rows, Pcs
    <2> HIDE DEF e
    <2>7. Wanted(e) = Wanted(r)
      BY <2>6 DEF Wanted, ModesOf
    <2>8. Fine(e, staging[d], Have)
      BY <1>1, <2>1, <2>2, <2>5, <2>6, <2>7 DEF Fine, Placing
    <2> QED
      BY <1>4, <2>1, <2>6, <2>8, RowKnown, DeploymentWorks DEF cashbox, history
  <1> QED
    BY <1>2, <1>3, <1>4 DEF Connect, Inventory

\* Step 5: what is read of a scene is there; a deployment may have nothing to do.
LEMMA ReadKeeps ==
  ASSUME DeployInv, NEW d \in Deployments, Read(d) \/ Decide(d)
  PROVE  DeployInv'
  <1> DEFINE r == dep[d]
  <1>1. r \in Rows /\ Fine(r, staging[d], Have)
    BY RowKnown
  <1>2. CASE Read(d)
    <2> DEFINE m == First(r.todo)
               pc == IF r.todo = {m} THEN "decide" ELSE "read"
    <2>1. PICK s \in {scene[m], Unread} :
            dep' = [dep EXCEPT ![d].seen[m] = s, ![d].todo = @ \ {m}, ![d].pc = pc]
      BY <1>2 DEF Read
    <2>2. m \in Modes
      BY DEF First, Modes
    <2>3. s \in Stored \cup {Unread} /\ s.names \subseteq Have
      BY <2>2, RowKnown DEF Unread, Odd
    <2>4. /\ r.pc = "read" /\ (Fault \/ NoFault)
          /\ UNCHANGED <<known, central, cashbox, actualVersion, history>>
      BY <1>2 DEF Read
    <2> DEFINE e == [r EXCEPT !.seen = [r.seen EXCEPT ![m] = s], !.todo = r.todo \ {m}, !.pc = pc]
    <2>5. pc \in {"decide", "read"}
      OBVIOUS
    <2>6. dep' = [dep EXCEPT ![d] = e]
      BY <2>1
    <2> HIDE DEF r, m, pc
    <2>7. /\ e \in Rows /\ e.pc = pc /\ e.config = r.config /\ e.need = r.need
          /\ e.pipeline = r.pipeline /\ e.seen = [r.seen EXCEPT ![m] = s]
      BY <1>1, <2>2, <2>3, <2>5 DEF Rows, Pcs
    <2> HIDE DEF e
    <2>8. \A k \in Modes : e.seen[k].names \subseteq Have
      BY <1>1, <2>2, <2>3, <2>7 DEF Fine, Rows
    <2>9. Wanted(e) = Wanted(r)
      BY <2>7 DEF Wanted, ModesOf
    <2>10. Fine(e, staging[d], Have)
      BY <1>1, <2>4, <2>5, <2>7, <2>8, <2>9 DEF Fine, Placing
    <2> QED
      BY <2>4, <2>6, <2>7, <2>10, RowKnown, DeploymentWorks DEF cashbox, history
  <1>3. CASE Decide(d)
    <2>1. PICK e \in {Ended(r, "NO_OP"), [r EXCEPT !.pc = "stage"]} : dep' = [dep EXCEPT ![d] = e]
      BY <1>3 DEF Decide
    <2>2. /\ r.pc = "decide" /\ NoFault
          /\ UNCHANGED <<known, central, cashbox, actualVersion, history>>
      BY <1>3 DEF Decide, NoFault
    <2> HIDE DEF r
    <2>3. Ended(r, "NO_OP") \in Rows /\ Fine(Ended(r, "NO_OP"), staging[d], Have)
      BY <1>1, <2>2, EndedRow, EndedFine DEF Statuses
    <2> DEFINE f == [r EXCEPT !.pc = "stage"]
    <2>4. /\ f \in Rows /\ f.pc = "stage" /\ f.config = r.config /\ f.seen = r.seen
          /\ f.need = r.need /\ f.pipeline = r.pipeline
      BY <1>1 DEF Rows, Pcs
    <2> HIDE DEF f
    <2>5. Wanted(f) = Wanted(r)
      BY <2>4 DEF Wanted, ModesOf
    <2>6. Fine(f, staging[d], Have)
      BY <1>1, <2>2, <2>4, <2>5 DEF Fine, Placing
    <2>7. e \in Rows /\ Fine(e, staging[d], Have)
      BY <2>1, <2>3, <2>4, <2>6 DEF f
    <2> QED
      BY <2>1, <2>2, <2>7, RowKnown, DeploymentWorks DEF cashbox, history
  <1> QED
    BY <1>2, <1>3

\* Steps 6 and 7: what is to be promoted is staged, file by file as it should be.
LEMMA StageKeeps ==
  ASSUME DeployInv, NEW d \in Deployments, Stage(d) \/ Check(d)
  PROVE  DeployInv'
  <1> DEFINE r == dep[d]
  <1>1. r \in Rows /\ Fine(r, staging[d], Have)
    BY RowKnown
  <1>2. CASE Stage(d)
    <2>1. /\ r.pc = "stage" /\ (Fault \/ NoFault)
          /\ UNCHANGED <<known, central, live, scene, late, actualVersion>>
          /\ UNCHANGED <<last, before, alone, lost>> /\ calm' \in BOOLEAN
      BY <1>2, RowKnown DEF Stage, Raise
    <2>2. PICK names \in SUBSET NamesOf(r.need) : Sent(d, names)
      BY <1>2 DEF Stage
    <2>3. /\ staging \in [Deployments -> [Names -> Media \cup {None}]]
          /\ central \in [Names -> Media \cup {None}]
      BY DEF DeployInv, DeployTypeOK
    <2>4. /\ staging' \in [Deployments -> [Names -> Media \cup {None}]]
          /\ \A c \in Deployments \ {d} : staging'[c] = staging[c]
      BY <2>2, <2>3 DEF Sent
    <2>5. Have' = Have
      BY <2>1 DEF Have
    <2>6. /\ live' \in [Names -> Media \cup {None}] /\ lost' \subseteq Names
          /\ last' \in Deployments \cup {None} /\ before' \in [Modes -> Stored]
          /\ alone' \in BOOLEAN /\ actualVersion' \in Configs \cup {None}
      BY <2>1 DEF DeployInv, DeployTypeOK
    <2>7. CASE Goto(d, "check")
      <3> DEFINE e == [r EXCEPT !.pc = "check"]
      <3>1. dep' = [dep EXCEPT ![d] = e]
        BY <2>7 DEF Goto
      <3> HIDE DEF r
      <3>2. /\ e \in Rows /\ e.pc = "check" /\ e.config = r.config /\ e.seen = r.seen
            /\ e.need = r.need /\ e.pipeline = r.pipeline
        BY <1>1 DEF Rows, Pcs
      <3> HIDE DEF e
      <3>3. Wanted(e) = Wanted(r)
        BY <3>2 DEF Wanted, ModesOf
      <3>4. Fine(e, staging'[d], Have)
        BY <1>1, <2>1, <3>2, <3>3 DEF Fine, Placing
      <3> QED
        BY <2>1, <2>4, <2>5, <2>6, <3>1, <3>2, <3>4, DeploymentKept
    <2>8. CASE Raise(d)
      <3>1. Raised(r) \in Rows /\ Fine(Raised(r), staging'[d], Have)
        BY <1>1, <2>1, RaisedFine
      <3>2. dep' = [dep EXCEPT ![d] = Raised(r)]
        BY <2>8 DEF Raise
      <3> QED
        BY <2>1, <2>4, <2>5, <2>6, <3>1, <3>2, DeploymentKept
    <2> QED
      BY <1>2, <2>7, <2>8 DEF Stage
  <1>3. CASE Check(d)
    <2>1. r.pc = "check"
      BY <1>3 DEF Check
    <2>2. CASE Fails(d)
      BY <2>1, <2>2, FailsKeeps
    <2>3. ASSUME NoFault, Raise(d),
                 UNCHANGED <<known, central, cashbox, actualVersion, last, before, alone, lost>>
          PROVE  DeployInv'
      BY <2>1, <2>3, RaiseKeeps DEF cashbox
    <2>4. ASSUME NoFault, HashesMatch(d), Goto(d, "promote"), calm' = calm,
                 UNCHANGED <<known, central, cashbox, actualVersion, last, before, alone, lost>>
          PROVE  DeployInv'
      <3> DEFINE e == [r EXCEPT !.pc = "promote"]
      <3>1. dep' = [dep EXCEPT ![d] = e]
        BY <2>4 DEF Goto
      <3>2. \A a \in r.need : staging[d][NameOf[a]] = a
        BY <2>4 DEF HashesMatch, StagedHash
      <3> HIDE DEF r
      <3>3. /\ e \in Rows /\ e.pc = "promote" /\ e.config = r.config /\ e.seen = r.seen
            /\ e.need = r.need /\ e.pipeline = r.pipeline
        BY <1>1 DEF Rows, Pcs
      <3> HIDE DEF e
      <3>4. Wanted(e) = Wanted(r)
        BY <3>3 DEF Wanted, ModesOf
      <3>5. Fine(e, staging[d], Have)
        BY <1>1, <2>1, <3>2, <3>3, <3>4 DEF Fine, Placing
      <3> QED
        BY <2>4, <3>1, <3>3, <3>5, RowKnown, DeploymentWorks DEF cashbox
    <2> QED
      BY <1>3, <2>2, <2>3, <2>4 DEF Check
  <1> QED
    BY <1>2, <1>3

\* Step 8: a staged file comes to be there, or is lost; then step 9.
LEMMA PromoteKeeps ==
  ASSUME DeployInv, NEW d \in Deployments, (\E a \in Media : Promote(d, a)) \/ TakeSnapshot(d)
  PROVE  DeployInv'
  <1> DEFINE r == dep[d]
  <1>1. r \in Rows /\ Fine(r, staging[d], Have)
    BY RowKnown
  <1>t. /\ staging \in [Deployments -> [Names -> Media \cup {None}]]
        /\ live \in [Names -> Media \cup {None}] /\ lost \subseteq Names
        /\ last \in Deployments \cup {None} /\ before \in [Modes -> Stored] /\ alone \in BOOLEAN
        /\ calm \in BOOLEAN /\ actualVersion \in Configs \cup {None}
    BY DEF DeployInv, DeployTypeOK
  <1>2. ASSUME NEW a \in Media, Promote(d, a), ~Fails(d) PROVE DeployInv'
    <2> DEFINE n == NameOf[a]
               e == [r EXCEPT !.need = r.need \ {a}]
    <2>1. /\ r.pc = "promote" /\ a \in r.need /\ (Fault \/ NoFault)
          /\ dep' = [dep EXCEPT ![d] = e]
          /\ UNCHANGED <<known, central, scene, late, actualVersion, last, before, alone, calm>>
      BY <1>2 DEF Promote, cashbox
    <2>2. n \in Names /\ a # None
      BY DeploymentAssumption
    <2>3. staging[d][n] = a
      BY <1>1, <2>1 DEF Fine
    <2> HIDE DEF r
    <2>4. /\ e \in Rows /\ e.pc = "promote" /\ e.config = r.config /\ e.seen = r.seen
          /\ e.need = r.need \ {a} /\ e.pipeline = r.pipeline
      BY <1>1, <2>1 DEF Rows
    <2> HIDE DEF e
    <2>5. Wanted(e) = Wanted(r)
      BY <2>4 DEF Wanted, ModesOf
    <2>6. /\ live' \in [Names -> Media \cup {None}] /\ lost' \subseteq Names
          /\ staging' \in [Deployments -> [Names -> Media \cup {None}]]
          /\ \A c \in Deployments \ {d} : staging'[c] = staging[c]
          /\ \A k \in Names \ {n} : /\ staging'[d][k] = staging[d][k]
                                    /\ live'[k] = live[k] /\ (k \in lost' <=> k \in lost)
          /\ n \in lost' \/ live'[n] # None
      <3>1. CASE StagingMove(d, a) /\ lost' = lost \ {n}
        BY <1>t, <2>2, <2>3, <3>1 DEF StagingMove
      <3>2. CASE UNCHANGED <<live, staging>> /\ lost' = lost \cup {n}
        BY <1>t, <2>2, <3>2
      <3> QED
        BY <1>2, <3>1, <3>2 DEF Promote, cashbox
    <2>7. Have \subseteq Have' /\ n \in Have'
      BY <2>2, <2>6 DEF Have
    <2>8. \A b \in r.need \ {a} : NameOf[b] # n /\ NameOf[b] \in Names /\ staging[d][NameOf[b]] = b
      BY <1>1, <2>1, <2>3, DeploymentAssumption DEF Fine, Rows
    <2>9. Fine(e, staging'[d], Have')
      BY <1>1, <2>1, <2>4, <2>5, <2>6, <2>7, <2>8 DEF Fine, Placing
    <2> QED
      BY <1>t, <2>1, <2>4, <2>6, <2>7, <2>9, DeploymentKept
  <1>3. ASSUME Fails(d), \E a \in Media : Promote(d, a) PROVE DeployInv'
    BY <1>3, FailsKeeps DEF Promote
  <1>4. CASE TakeSnapshot(d)
    <2> DEFINE e == [r EXCEPT !.pc = "write", !.snapshot = TRUE, !.todo = ModesOf(r)]
    <2>1. /\ r.pc = "promote" /\ r.need = {} /\ NoFault /\ dep' = [dep EXCEPT ![d] = e]
          /\ UNCHANGED <<known, central, cashbox, actualVersion, history>>
      BY <1>4 DEF TakeSnapshot, NoFault
    <2> HIDE DEF r
    <2>2. r.config \in Configs
      BY <1>1, <2>1 DEF Fine
    <2>3. /\ e \in Rows /\ e.pc = "write" /\ e.config = r.config /\ e.seen = r.seen
          /\ e.need = r.need /\ e.pipeline = r.pipeline /\ e.todo = ModesOf(r)
      BY <1>1, <2>2, WantedMedia DEF Rows, Pcs
    <2> HIDE DEF e
    <2>4. Wanted(e) = Wanted(r) /\ ModesOf(e) = ModesOf(r)
      BY <2>3 DEF Wanted, ModesOf
    <2>5. Fine(e, staging[d], Have)
      BY <1>1, <2>1, <2>3, <2>4 DEF Fine, Placing
    <2> QED
      BY <2>1, <2>3, <2>5, RowKnown, DeploymentWorks DEF cashbox, history
  <1> QED
    BY <1>2, <1>3, <1>4

\* Steps 11 and 12: what a scene comes to name has been placed.
LEMMA WriteKeeps ==
  ASSUME DeployInv, NEW d \in Deployments, Write(d)
  PROVE  DeployInv'
  <1> DEFINE r == dep[d]
             m == First(r.todo)
             s == DesiredScene(r.config, m)
             after == IF r.pipeline = "banner" THEN "seal" ELSE "reload"
             pc == IF r.todo = {m} THEN after ELSE "write"
             e == [r EXCEPT !.todo = r.todo \ {m}, !.pc = pc]
  <1>1. r \in Rows /\ Fine(r, staging[d], Have)
    BY RowKnown
  <1>2. r.pc = "write" /\ r.config \in Configs /\ r.need = {} /\ r.todo \subseteq ModesOf(r)
    BY <1>1 DEF Write, Fine
  <1>3. UNCHANGED <<known, central, live, staging, actualVersion, last, before, alone, lost>>
    BY DEF Write
  <1>4. \/ NoFault /\ UpdateDone(m, s) /\ calm' = calm /\ dep' = [dep EXCEPT ![d] = e]
        \/ Fault /\ UpdateFails(m, s) /\ Raise(d)
    BY DEF Write
  <1>5. pc \in {"seal", "reload", "write"}
    OBVIOUS
  <1> HIDE DEF r, m, pc
  <1>6. m \in Modes /\ Playlist[r.config][m] \subseteq Wanted(r)
    BY <1>1, <1>2, FirstWanted DEF m
  <1>7. s \in Stored /\ s.names \subseteq Have
    BY <1>1, <1>2, <1>6, DesiredStored DEF Fine, Placing, NamesOf
  <1>8. /\ e \in Rows /\ e.pc = pc /\ e.config = r.config /\ e.seen = r.seen
        /\ e.need = r.need /\ e.pipeline = r.pipeline /\ e.todo \subseteq r.todo
    BY <1>1, <1>5 DEF Rows, Pcs
  <1> HIDE DEF e, s
  <1>9. Wanted(e) = Wanted(r) /\ ModesOf(e) = ModesOf(r)
    BY <1>8 DEF Wanted, ModesOf
  <1>10. Fine(e, staging[d], Have)
    BY <1>1, <1>2, <1>5, <1>8, <1>9 DEF Fine, Placing
  <1>11. CASE NoFault /\ UpdateDone(m, s) /\ calm' = calm /\ dep' = [dep EXCEPT ![d] = e]
    BY <1>3, <1>6, <1>7, <1>8, <1>10, <1>11, RowKnown, DeploymentWorks DEF UpdateDone
  <1>12. CASE Fault /\ UpdateFails(m, s) /\ Raise(d)
    <2>1. dep[d].pc # "none"
      BY <1>2 DEF r
    <2> QED
      BY <1>3, <1>6, <1>7, <1>12, <2>1, RaiseKeeps DEF UpdateFails
  <1> QED
    BY <1>4, <1>11, <1>12

\* A check: its deployment goes on as row, or an exception is raised.
LEMMA GateKeeps ==
  ASSUME DeployInv, NEW d \in Deployments, NEW pc \in Pcs \ {"none"}, NEW holds \in BOOLEAN,
         NEW row \in Rows, Fine(row, staging[d], Have), Gate(d, pc, holds, row)
  PROVE  DeployInv'
  <1>1. dep[d].pc = pc /\ pc # "none"
    BY DEF Gate
  <1>2. CASE Fails(d)
    BY <1>1, <1>2, FailsKeeps
  <1>3. CASE /\ NoFault /\ dep' = [dep EXCEPT ![d] = row] /\ calm' = calm
             /\ UNCHANGED <<known, central, cashbox, actualVersion, last, before, alone, lost>>
    BY <1>3, RowKnown, DeploymentWorks DEF cashbox
  <1>4. CASE /\ NoFault /\ Raise(d)
             /\ UNCHANGED <<known, central, cashbox, actualVersion, last, before, alone, lost>>
    BY <1>1, <1>4, RaiseKeeps DEF cashbox
  <1> QED
    BY <1>2, <1>3, <1>4 DEF Gate

\* Steps 12 to 15 only look.
LEMMA ChecksKeep ==
  ASSUME DeployInv, NEW d \in Deployments,
         VerifyBoundary(d) \/ TouchReload(d) \/ VerifyStability(d)
  PROVE  DeployInv'
  <1> DEFINE r == dep[d]
             status == IF r.status = "RUNNING" /\ r.pipeline = "playlist"
                         THEN "VERIFYING" ELSE r.status
             e == [r EXCEPT !.pc = "reload"]
             f == [r EXCEPT !.pc = "verify", !.status = status]
             g == [r EXCEPT !.pc = "readback", !.todo = ModesOf(r)]
  <1>1. r \in Rows /\ Fine(r, staging[d], Have) /\ r.pc \in {"seal", "reload", "verify"}
    BY RowKnown DEF VerifyBoundary, TouchReload, VerifyStability, Gate
  <1>2. \/ Gate(d, "seal", r.sealed, e)
        \/ Gate(d, "reload", TRUE, f)
        \/ Gate(d, "verify", r.stable, g)
    BY DEF VerifyBoundary, TouchReload, VerifyStability, Unmodified, SameProcess
  <1> HIDE DEF r
  <1>3. r.config \in Configs
    BY <1>1 DEF Fine
  <1>4. status \in Statuses
    BY <1>1 DEF Rows, Statuses
  <1> HIDE DEF status
  <1>5. /\ e \in Rows /\ e.pc = "reload" /\ e.config = r.config /\ e.seen = r.seen
        /\ f \in Rows /\ f.pc = "verify" /\ f.config = r.config /\ f.seen = r.seen
    BY <1>1, <1>4 DEF Rows, Pcs
  <1>6. g \in Rows /\ g.pc = "readback" /\ g.config = r.config /\ g.seen = r.seen
    BY <1>1, <1>3, WantedMedia DEF Rows, Pcs
  <1>7. r.sealed \in BOOLEAN /\ r.stable \in BOOLEAN
    BY <1>1 DEF Rows
  <1> HIDE DEF e, f, g
  <1>8. Fine(e, staging[d], Have) /\ Fine(f, staging[d], Have) /\ Fine(g, staging[d], Have)
    BY <1>1, <1>5, <1>6 DEF Fine, Placing
  <1> QED
    BY <1>2, <1>5, <1>6, <1>7, <1>8, GateKeeps DEF Pcs

\* Steps 16 and 17 read, and record the version.
LEMMA ReadBackKeeps ==
  ASSUME DeployInv, NEW d \in Deployments, ReadBack(d)
  PROVE  DeployInv'
  <1> DEFINE r == dep[d]
             m == First(r.todo)
             e == [r EXCEPT !.todo = r.todo \ {m}]
  <1>1. r \in Rows /\ Fine(r, staging[d], Have) /\ r.pc = "readback"
    BY RowKnown DEF ReadBack
  <1>2. CASE Fails(d)
    BY <1>1, <1>2, FailsKeeps
  <1>3. ASSUME NoFault, UNCHANGED <<known, central, cashbox, last, before, alone, lost>>,
               Raise(d), actualVersion' = actualVersion
        PROVE  DeployInv'
    BY <1>1, <1>3, RaiseKeeps DEF cashbox
  <1>4. ASSUME NoFault, UNCHANGED <<known, central, cashbox, last, before, alone, lost>>,
               dep' = [dep EXCEPT ![d] = e], UNCHANGED <<actualVersion, calm>>
        PROVE  DeployInv'
    <2> HIDE DEF r, m
    <2>1. /\ e \in Rows /\ e.pc = "readback" /\ e.config = r.config /\ e.seen = r.seen
      BY <1>1 DEF Rows
    <2> HIDE DEF e
    <2>2. Fine(e, staging[d], Have)
      BY <1>1, <2>1 DEF Fine, Placing
    <2> QED
      BY <1>4, <2>1, <2>2, RowKnown, DeploymentWorks DEF cashbox
  <1>5. ASSUME NoFault, UNCHANGED <<known, central, cashbox, last, before, alone, lost>>,
               dep' = [dep EXCEPT ![d] = Ended(r, "SUCCESS")], actualVersion' = Recorded(r),
               calm' = (calm /\ (r.pipeline = "banner" => Playlist[r.config]["full"] = {}))
        PROVE  DeployInv'
    <2> HIDE DEF r, m, e
    <2>1. Ended(r, "SUCCESS") \in Rows /\ Fine(Ended(r, "SUCCESS"), staging[d], Have)
      BY <1>1, EndedRow, EndedFine DEF Statuses
    <2>2. Recorded(r) \in Configs \cup {None} /\ calm' \in BOOLEAN
      BY <1>1, <1>5, RowKnown DEF Recorded, Fine
    <2> QED
      BY <1>5, <2>1, <2>2, DeploymentWorks DEF cashbox
  <1> QED
    BY <1>2, <1>3, <1>4, <1>5 DEF ReadBack

-----------------------------------------------------------------------------
(* The handler, and what happens around a deployment.                      *)

\* A deployment that is over, in a step that has touched no file.
LEMMA EndKeeps ==
  ASSUME DeployInv, NEW d \in Deployments, dep[d].pc # "none", NEW status \in Statuses,
         dep' = [dep EXCEPT ![d] = Ended(dep[d], status)], Fault \/ NoFault,
         scene' = scene,
         \/ late' = late
         \/ \E m \in Modes, s \in Stored : late' = late \cup {<<m, s>>} /\ s.names \subseteq Have,
         UNCHANGED <<known, central, live, staging, actualVersion, last, before, alone, lost>>,
         calm' \in BOOLEAN
  PROVE  DeployInv'
  <1>1. Ended(dep[d], status) \in Rows /\ Fine(Ended(dep[d], status), staging[d], Have)
    BY RowKnown, EndedRow, EndedFine
  <1>2. actualVersion' \in Configs \cup {None}
    BY RowKnown
  <1> QED
    BY <1>1, <1>2, DeploymentWorks

\* The staging directory is emptied; what can be restored still can.
LEMMA CleanupKeeps ==
  ASSUME DeployInv, NEW d \in Deployments, Cleanup(d)
  PROVE  DeployInv'
  <1> DEFINE r == dep[d]
             pc == IF r.todo = {} THEN "resume" ELSE "restore"
             e == [r EXCEPT !.status = "ROLLING_BACK", !.pc = pc]
  <1>1. r \in Rows /\ Fine(r, staging[d], Have) /\ r.pc = "cleanup"
    BY RowKnown DEF Cleanup
  <1>2. /\ Fault \/ NoFault
        /\ UNCHANGED <<known, central, live, scene, late, actualVersion, history>>
        /\ Purged(d) \/ staging' = staging
    BY DEF Cleanup
  <1>3. PICK f \in {Ended(r, "FAILED"), e} : dep' = [dep EXCEPT ![d] = f]
    BY DEF Cleanup
  <1>4. pc \in {"resume", "restore"} /\ (pc = "restore" => r.todo # {})
    OBVIOUS
  <1> HIDE DEF r, pc
  <1>5. /\ e \in Rows /\ e.pc = pc /\ e.config = r.config /\ e.seen = r.seen /\ e.todo = r.todo
    BY <1>1, <1>4 DEF Rows, Pcs, Statuses
  <1> HIDE DEF e
  <1>6. Fine(e, staging'[d], Have)
    BY <1>1, <1>4, <1>5 DEF Fine, Placing
  <1>7. Ended(r, "FAILED") \in Rows /\ Fine(Ended(r, "FAILED"), staging'[d], Have)
    BY <1>1, EndedRow, EndedFine DEF Statuses
  <1>8. f \in Rows /\ Fine(f, staging'[d], Have)
    BY <1>3, <1>5, <1>6, <1>7
  <1>9. /\ staging' \in [Deployments -> [Names -> Media \cup {None}]]
        /\ \A c \in Deployments \ {d} : staging'[c] = staging[c]
    BY <1>2 DEF Purged, DeployInv, DeployTypeOK
  <1>10. /\ live' \in [Names -> Media \cup {None}] /\ lost' \subseteq Names
         /\ last' \in Deployments \cup {None} /\ before' \in [Modes -> Stored]
         /\ alone' \in BOOLEAN /\ calm' \in BOOLEAN /\ actualVersion' \in Configs \cup {None}
    BY <1>2 DEF DeployInv, DeployTypeOK, history
  <1>11. Have' = Have
    BY <1>2 DEF Have, history
  <1> QED
    BY <1>2, <1>3, <1>8, <1>9, <1>10, <1>11, DeploymentKept

\* A scene that is restored names what it named, all of which is there.
LEMMA RestoreKeeps ==
  ASSUME DeployInv, NEW d \in Deployments, Restore(d) \/ Resume(d)
  PROVE  DeployInv'
  <1> DEFINE r == dep[d]
             m == First(r.todo)
             pc == IF r.todo = {m} THEN "resume" ELSE "restore"
             e == [r EXCEPT !.todo = r.todo \ {m}, !.pc = pc]
  <1>1. r \in Rows /\ Fine(r, staging[d], Have) /\ calm \in BOOLEAN
    BY RowKnown
  <1>2. ASSUME GiveUp(d), r.pc # "none", Fault \/ NoFault, scene' = scene,
               \/ late' = late
               \/ \E k \in Modes, s \in Stored :
                    late' = late \cup {<<k, s>>} /\ s.names \subseteq Have,
               UNCHANGED <<known, central, live, staging, actualVersion, last, before, alone, lost>>
        PROVE  DeployInv'
    <2>1. PICK status \in {"FAILED_MANUAL_INTERVENTION", "FAILED"} :
            dep' = [dep EXCEPT ![d] = Ended(dep[d], status)]
      BY <1>2 DEF GiveUp
    <2>2. calm' \in BOOLEAN /\ status \in Statuses
      BY <1>2, <2>1 DEF GiveUp, Statuses
    <2> QED
      BY <1>2, <2>1, <2>2, EndKeeps
  <1>3. CASE Restore(d)
    <2>1. /\ r.pc = "restore"
          /\ UNCHANGED <<known, central, live, staging, actualVersion, last, before, alone, lost>>
      BY <1>3 DEF Restore
    <2>2. \/ NoFault /\ UpdateDone(m, r.seen[m]) /\ calm' = calm /\ dep' = [dep EXCEPT ![d] = e]
          \/ NoFault /\ scene' = scene /\ late' = late /\ GiveUp(d)
          \/ Fault /\ UpdateFails(m, r.seen[m]) /\ GiveUp(d)
      BY <1>3 DEF Restore
    <2>3. m \in r.todo /\ m \in Modes
      BY <1>1, <2>1 DEF Fine, First, Rows, Modes
    <2>4. r.seen[m] \in Stored /\ r.seen[m].names \subseteq Have
      BY <1>1, <2>1, <2>3, KindStored DEF Fine, Rows
    <2>5. pc \in {"resume", "restore"} /\ (pc = "restore" => r.todo # {m})
      OBVIOUS
    <2>6. CASE NoFault /\ UpdateDone(m, r.seen[m]) /\ calm' = calm /\ dep' = [dep EXCEPT ![d] = e]
      <3> HIDE DEF r, m, pc
      <3>1. /\ e \in Rows /\ e.pc = pc /\ e.config = r.config /\ e.seen = r.seen
            /\ e.todo = r.todo \ {m}
        BY <1>1, <2>5 DEF Rows, Pcs
      <3> HIDE DEF e
      <3>2. Fine(e, staging[d], Have)
        BY <1>1, <2>1, <2>3, <2>5, <3>1 DEF Fine, Placing
      <3> QED
        BY <2>1, <2>3, <2>4, <2>6, <3>1, <3>2, RowKnown, DeploymentWorks DEF UpdateDone
    <2>7. CASE NoFault /\ scene' = scene /\ late' = late /\ GiveUp(d)
      BY <1>2, <2>1, <2>7
    <2>8. CASE Fault /\ UpdateFails(m, r.seen[m]) /\ GiveUp(d)
      BY <1>2, <2>1, <2>3, <2>4, <2>8 DEF UpdateFails
    <2> QED
      BY <2>2, <2>6, <2>7, <2>8
  <1>4. CASE Resume(d)
    <2>1. /\ r.pc = "resume"
          /\ UNCHANGED <<known, central, cashbox, actualVersion, last, before, alone, lost>>
          /\ \/ /\ NoFault /\ calm' = calm
                /\ \E status \in {"ROLLED_BACK", "FAILED"} :
                     dep' = [dep EXCEPT ![d] = Ended(dep[d], status)]
             \/ Fault /\ GiveUp(d)
      BY <1>4 DEF Resume
    <2>2. CASE NoFault /\ calm' = calm
      BY <1>1, <1>2, <2>1, <2>2, EndKeeps DEF cashbox, Statuses
    <2>3. CASE Fault /\ GiveUp(d)
      BY <1>2, <2>1, <2>3 DEF cashbox
    <2> QED
      BY <2>1, <2>2, <2>3
  <1> QED
    BY <1>3, <1>4

\* A late update is of a scene whose files are there.
LEMMA LandKeeps ==
  ASSUME DeployInv, NEW l \in late, Land(l)
  PROVE  DeployInv'
  <1>1. DeployTypeOK /\ FilesInv
    BY DEF DeployInv
  <1>2. l[1] \in Modes /\ l[2] \in Stored /\ l[2].names \subseteq Have
    BY <1>1 DEF DeployTypeOK, FilesInv
  <1>3. scene' \in [Modes -> Stored] /\ \A m \in Modes : scene'[m].names \subseteq Have
    BY <1>1, <1>2 DEF Land, Updated, DeployTypeOK, FilesInv
  <1>4. Have' = Have
    BY DEF Land, Have
  <1>5. FilesInv'
    BY <1>1, <1>3, <1>4 DEF Land, FilesInv
  <1>6. DeployTypeOK'
    BY <1>1, <1>3 DEF Land, DeployTypeOK
  <1> QED
    BY <1>5, <1>6 DEF DeployInv

\* Uploads, restarts and settings touch nothing a deployment relies on here.
LEMMA AroundKeeps ==
  ASSUME DeployInv, (\E a \in Media : Upload(a)) \/ Restart \/ SettingsWritten
  PROVE  DeployInv'
  <1>1. DeployTypeOK /\ FilesInv
    BY DEF DeployInv
  <1>2. ASSUME NEW a \in Media, Upload(a) PROVE DeployInv'
    <2>1. Have' = Have
      BY <1>2 DEF Upload, Have, cashbox, history
    <2>2. FilesInv'
      BY <1>1, <1>2, <2>1 DEF Upload, FilesInv, cashbox
    <2>3. DeployTypeOK'
      BY <1>1, <1>2 DEF Upload, DeployTypeOK, cashbox, history
    <2> QED
      BY <2>2, <2>3 DEF DeployInv
  <1>3. CASE Restart \/ SettingsWritten
    <2>1. \A d \in Deployments :
            \E stable, sealed \in BOOLEAN :
              dep'[d] = [dep[d] EXCEPT !.stable = stable, !.sealed = sealed]
      <3> TAKE d \in Deployments
      <3>1. dep[d] \in Rows
        BY <1>1 DEF DeployTypeOK
      <3>2. CASE Restart
        BY <3>1, <3>2 DEF Restart, Rows
      <3>3. CASE SettingsWritten
        BY <3>1, <3>3 DEF SettingsWritten, Rows
      <3> QED
        BY <1>3, <3>2, <3>3
    <2>2. ASSUME NEW d \in Deployments
          PROVE  /\ dep'[d] \in Rows /\ dep'[d].pc = dep[d].pc /\ dep'[d].config = dep[d].config
                 /\ dep'[d].seen = dep[d].seen /\ dep'[d].need = dep[d].need
                 /\ dep'[d].todo = dep[d].todo /\ dep'[d].pipeline = dep[d].pipeline
      <3>1. dep[d] \in Rows
        BY <1>1 DEF DeployTypeOK
      <3>2. PICK stable, sealed \in BOOLEAN :
              dep'[d] = [dep[d] EXCEPT !.stable = stable, !.sealed = sealed]
        BY <2>1
      <3> QED
        BY <3>1, <3>2 DEF Rows
    <2>3. UNCHANGED <<known, central, cashbox, actualVersion, faults, history>>
      BY <1>3 DEF Restart, SettingsWritten
    <2>4. Have' = Have
      BY <2>3 DEF Have, cashbox, history
    <2>5. \A d \in Deployments : Fine(dep'[d], staging[d], Have)
      <3> TAKE d \in Deployments
      <3>1. Wanted(dep'[d]) = Wanted(dep[d]) /\ ModesOf(dep'[d]) = ModesOf(dep[d])
        BY <2>2 DEF Wanted, ModesOf
      <3>2. Fine(dep[d], staging[d], Have)
        BY <1>1 DEF FilesInv
      <3> QED
        BY <2>2, <3>1, <3>2 DEF Fine
    <2>6. FilesInv'
      BY <1>1, <2>3, <2>4, <2>5 DEF FilesInv, cashbox
    <2>7. dep' \in [Deployments -> Rows]
      BY <1>3, <2>2 DEF Restart, SettingsWritten
    <2>8. DeployTypeOK'
      BY <1>1, <2>3, <2>7 DEF DeployTypeOK, cashbox, history
    <2> QED
      BY <2>6, <2>8 DEF DeployInv
  <1> QED
    BY <1>2, <1>3

\* The process dies: the deployment is over as a row, and nothing goes on.
LEMMA DieKeeps ==
  ASSUME DeployInv, NEW d \in Deployments, Die(d)
  PROVE  DeployInv'
  <1> DEFINE r == dep[d]
             e == [Ended(r, r.status) EXCEPT !.pc = "dead"]
  <1>1. /\ r \in Rows /\ Fine(r, staging[d], Have) /\ r.pc # "none" /\ r.status \in Statuses
        /\ dep' = [dep EXCEPT ![d] = e]
    BY RowKnown DEF Die, Running, Rows
  <1> HIDE DEF r
  <1>2. /\ e \in Rows /\ e.pc = "dead" /\ e.seen = r.seen /\ e.config = r.config
    BY <1>1, EndedRow DEF Rows, Pcs
  <1> HIDE DEF e
  <1>3. Fine(e, staging[d], Have)
    BY <1>1, <1>2 DEF Fine, Placing
  <1> QED
    BY <1>1, <1>2, <1>3, RowKnown, DeploymentWorks DEF Die, cashbox

-----------------------------------------------------------------------------

\* The scenes there are at first name no files, and no deployment has begun.
LEMMA DeployStarts == Init => DeployInv
  <1> SUFFICES ASSUME Init PROVE DeployInv
    OBVIOUS
  <1>1. PICK f \in AtFirst : scene = f.scene /\ actualVersion = f.version
    BY DEF Init
  <1>2. /\ f.scene \in [Modes -> {Ads({}), Odd("alien"), Odd("garbage"), Odd("absent")}]
        /\ f.version \in Configs \cup {None}
    BY DeploymentAssumption
  <1>3. /\ {Ads({}), Odd("alien"), Odd("garbage"), Odd("absent")} \subseteq Stored
        /\ \A s \in {Ads({}), Odd("alien"), Odd("garbage"), Odd("absent"), Unread} : s.names = {}
    BY DEF Stored, Ads, Odd, Unread
  <1>4. scene \in [Modes -> Stored] /\ \A m \in Modes : scene[m].names \subseteq Have
    BY <1>1, <1>2, <1>3
  <1>5. Fresh \in Rows /\ Fresh.pc = "none" /\ \A m \in Modes : Fresh.seen[m].names = {}
    BY <1>3 DEF Fresh, Rows, Pcs, Statuses
  <1>6. \A d \in Deployments : Fine(dep[d], staging[d], Have)
    BY <1>5 DEF Init, Fine, Placing
  <1>7. FilesInv
    BY <1>4, <1>6 DEF Init, FilesInv
  <1>8. faults \in 0..MaxFaults /\ calm \in BOOLEAN
    BY DeploymentAssumption DEF Init
  <1>9. DeployTypeOK
    BY <1>1, <1>2, <1>4, <1>5, <1>8 DEF Init, DeployTypeOK
  <1> QED
    BY <1>7, <1>9 DEF DeployInv

\* Every step of either pipeline, and around them, leaves the files there are.
LEMMA DeployStep == DeployInv /\ [Next]_vars => DeployInv'
  <1> SUFFICES ASSUME DeployInv, [Next]_vars PROVE DeployInv'
    OBVIOUS
  <1>1. ASSUME NEW d \in Deployments, PlaylistStep(d) \/ BannerStep(d) PROVE DeployInv'
    BY <1>1, InventoryKeeps, ReadKeeps, StageKeeps, PromoteKeeps, WriteKeeps, ChecksKeep,
       ReadBackKeeps, CleanupKeeps, RestoreKeeps
    DEF PlaylistStep, BannerStep
  <1>2. CASE UNCHANGED vars
    <2>1. Have' = Have
      BY <1>2 DEF vars, cashbox, history, Have
    <2> QED
      BY <1>2, <2>1 DEF vars, cashbox, history, DeployInv, DeployTypeOK, FilesInv
  <1> QED
    BY <1>1, <1>2, StartKeeps, DieKeeps, LandKeeps, AroundKeeps DEF Next

\* The type invariant of the deployments: what a rollback writes is a scene the cashbox stores.
THEOREM DeployTypesHold == Spec => []DeployTypeOK
  BY DeployStarts, DeployStep, PTL DEF Spec, DeployInv

\* Whatever deployments overlap, die or are rolled back, and however late updates are carried
\* out: a file that a scene names is on the cashbox, unless its move failed unnoticed.
THEOREM ShownFilesAreThere == Spec => []ShownFilesExist
  <1>1. DeployInv => ShownFilesExist
    BY DEF DeployInv, DeployTypeOK, FilesInv, ShownFilesExist, Have, Stored, Ads, Odd
  <1> QED
    BY <1>1, DeployStarts, DeployStep, PTL DEF Spec
-----------------------------------------------------------------------------
(* What the last deployment leaves on the screen when nothing else touches it. *)

\* The steps before the scenes are written, those after, and those of the handler.
Prep == {"connect", "inventory", "read", "decide", "stage", "check", "promote"}
Post == {"seal", "reload", "verify", "readback"}
Undo == {"cleanup", "restore", "resume"}

Same(now, was, modes) == \A m \in modes : now[m] = was[m]

\* What the row r of the last deployment tells of the scenes now, and as they were when it
\* began.  A row that does not exist stays so, and what was read was there.
RowsKnown(r, now, was) == \A m \in Modes :
  /\ now[m].kind = "absent" <=> was[m].kind = "absent"
  /\ r.seen[m] \in {was[m], Unread}

ScenesKnown(r, now, was) ==
  /\ r.pc # "none"
  /\ r.pc \in Prep => ~r.snapshot /\ ModesOf(r) # {}
  /\ r.pc = "write" => r.todo # {}
  /\ r.pc \in {"write", "restore", "resume"} \cup Post => r.snapshot
  /\ r.snapshot => Same(now, was, Modes \ ModesOf(r))
  /\ ~r.snapshot /\ r.pc \in Prep \cup {"cleanup"} => Same(now, was, Modes)
  /\ r.pc = "cleanup" => r.todo = IF r.snapshot THEN Restorable(r) ELSE {}
  /\ r.pc \in {"restore", "resume"} => Same(now, was, Restorable(r) \ r.todo)
  /\ r.pc = "restore" => r.todo \subseteq Restorable(r)
  /\ r.pc = "resume" => r.todo = {}

\* ... once it is over without success.
FailureKnown(r, now, was) ==
  /\ r.pc = "ended" /\ r.pipeline = "playlist" /\ r.status = "FAILED" => Same(now, was, Modes)
  /\ r.pc = "ended" /\ r.status = "ROLLED_BACK" =>
       Same(now, was, Modes \ ModesOf(r)) /\ Same(now, was, Restorable(r))

Done(r) == r.status \in {"SUCCESS", "NO_OP"}

\* What it tells of the files, and of the scenes it is to show.
DoneKnown(r, now, files, gone) ==
  /\ Done(r) => r.pc = "ended"
  /\ Distinct(r) /\ (Done(r) \/ r.pc \in Placing \cup Post) =>
       \A a \in Wanted(r) \ r.need : files[NameOf[a]] = a \/ NameOf[a] \in gone
  /\ r.pc \in Placing => r.need \subseteq Wanted(r)
  /\ Done(r) \/ r.pc \in Post => r.need = {}
  /\ r.pc = "readback" => \A m \in ModesOf(r) \ r.todo : now[m] = DesiredScene(r.config, m)
  /\ r.status = "SUCCESS" => \A m \in ModesOf(r) : now[m] = DesiredScene(r.config, m)
  /\ r.status = "NO_OP" =>
       \A m \in ModesOf(r) : r.seen[m] = Unread \/ now[m] = DesiredScene(r.config, m)

\* The scenes are those of the version.
OnRecord(rows, version) ==
  version # None =>
    \A m \in Modes : Playlist[version][m] # {} => rows[m] = DesiredScene(version, m)

\* What it tells of the version on record while every deployment could answer for its scenes.
CalmKnown(r, now, was, version) ==
  /\ r.pc # "dead"
  /\ r.pc # "ended" => r.had = version /\ OnRecord(was, version)
  /\ r.pc = "ended" => OnRecord(now, version)
  /\ r.snapshot /\ r.pc \in Undo => Restorable(r) = ModesOf(r)

Known(r, now, was, files, gone, version, quiet) ==
  /\ RowsKnown(r, now, was) /\ ScenesKnown(r, now, was) /\ FailureKnown(r, now, was)
  /\ DoneKnown(r, now, files, gone)
  /\ quiet => CalmKnown(r, now, was, version)

ShownInv ==
  /\ calm => alone
  /\ alone =>
       /\ \A d \in Deployments \ {last} : ~Running(d)
       /\ last = None => (calm => OnRecord(scene, actualVersion))
       /\ last # None => Known(dep[last], scene, before, live, lost, actualVersion, calm)

-----------------------------------------------------------------------------
(* One step of the last deployment.                                        *)

\* What a row is about depends on its configuration and pipeline only.
LEMMA SameWork ==
  ASSUME NEW r, NEW e, e.config = r.config, e.pipeline = r.pipeline
  PROVE  /\ ModesOf(e) = ModesOf(r) /\ Wanted(e) = Wanted(r) /\ (Distinct(e) <=> Distinct(r))
         /\ e.seen = r.seen => Restorable(e) = Restorable(r)
  <1>1. ModesOf(e) = ModesOf(r)
    BY DEF ModesOf
  <1>2. Wanted(e) = Wanted(r)
    BY <1>1 DEF Wanted
  <1> QED
    BY <1>1, <1>2 DEF Distinct, Restorable

\* What is left of a row that is over.
LEMMA EndedIs ==
  ASSUME NEW r \in Rows, NEW status
  PROVE  /\ Ended(r, status).pc = "ended" /\ Ended(r, status).status = status
         /\ Ended(r, status).config = r.config /\ Ended(r, status).pipeline = r.pipeline
         /\ Ended(r, status).seen = r.seen /\ Ended(r, status).need = {}
         /\ Ended(r, status).todo = {} /\ ~Ended(r, status).snapshot
  BY DEF Ended, Rows

\* Only the last deployment can take a step while nothing else touches the scenes.
LEMMA OnlyLast ==
  ASSUME DeployInv, ShownInv, NEW d \in Deployments, NEW e, dep' = [dep EXCEPT ![d] = e],
         Running(d), UNCHANGED <<last, before, alone>>, calm' => calm,
         Known(dep[d], scene, before, live, lost, actualVersion, calm)
           => Known(e, scene', before, live', lost', actualVersion', calm')
  PROVE  ShownInv'
  <1>1. \A c \in Deployments : dep'[c] = IF c = d THEN e ELSE dep[c]
    BY DEF DeployInv, DeployTypeOK
  <1>2. SUFFICES ASSUME alone PROVE ShownInv'
    BY DEF ShownInv
  <1>3. last = d /\ last # None /\ \A c \in Deployments \ {d} : ~Running(c)
    BY <1>2, DeploymentAssumption DEF ShownInv
  <1>4. Known(e, scene', before, live', lost', actualVersion', calm')
    BY <1>2, <1>3 DEF ShownInv
  <1>5. \A c \in Deployments \ {last'} : ~Running(c)'
    BY <1>1, <1>3 DEF Running
  <1>6. Known(dep[last], scene, before, live, lost, actualVersion, calm)'
    BY <1>1, <1>3, <1>4
  <1> QED
    BY <1>2, <1>3, <1>5, <1>6 DEF ShownInv

\* A deployment that fails before it has written anything leaves the scenes alone; later it
\* remembers those it can restore.
LEMMA RaisedKnown ==
  ASSUME NEW r \in Rows, r.pc \in Prep \cup {"write"} \cup Post,
         NEW now, NEW was, NEW files, NEW gone, NEW version,
         NEW quiet \in BOOLEAN, NEW more \in BOOLEAN,
         Known(r, now, was, files, gone, version, quiet), more => quiet /\ ~Unrestored(r)
  PROVE  Known(Raised(r), now, was, files, gone, version, more)
  <1> DEFINE e == Raised(r)
             left == IF r.snapshot THEN Restorable(r) ELSE {}
  <1>1. /\ ~r.snapshot => Same(now, was, Modes)
        /\ r.snapshot => Same(now, was, Modes \ ModesOf(r))
        /\ more /\ r.snapshot => Restorable(r) = ModesOf(r)
        /\ more => r.had = version /\ OnRecord(was, version)
    BY DEF Known, ScenesKnown, CalmKnown, Unrestored, Prep, Post
  <1>2. CASE Handler(r) = "ended"
    <2>1. /\ e.pc = "ended" /\ e.status = "FAILED" /\ e.config = r.config
          /\ e.pipeline = r.pipeline /\ e.seen = r.seen /\ e.need = {} /\ ~e.snapshot
      BY <1>2, EndedIs DEF Raised
    <2>2. r.pipeline # "playlist" /\ (r.snapshot => Restorable(r) = {})
      BY <1>2 DEF Handler, BannerHandler
    <2>0. e = Raised(r)
      OBVIOUS
    <2>3. more => Same(now, was, Modes)
      BY <1>1, <2>2 DEF Same
    <2>4. more => OnRecord(now, version)
      BY <1>1, <2>3 DEF OnRecord, Same
    <2> HIDE DEF e
    <2>5. RowsKnown(e, now, was) /\ ScenesKnown(e, now, was) /\ FailureKnown(e, now, was)
      BY <2>1, <2>2 DEF Known, RowsKnown, ScenesKnown, FailureKnown, Prep, Post
    <2>6. DoneKnown(e, now, files, gone) /\ (more => CalmKnown(e, now, was, version))
      BY <2>1, <2>4 DEF DoneKnown, CalmKnown, Done, Prep, Post, Placing, Undo
    <2> QED
      BY <2>0, <2>5, <2>6 DEF Known
  <1>3. CASE Handler(r) # "ended"
    <2>1. /\ e.status = "FAILED" /\ e.config = r.config /\ e.pipeline = r.pipeline
          /\ e.seen = r.seen /\ e.had = r.had /\ e.snapshot = r.snapshot /\ e.todo = left
          /\ e.pc = Handler(r)
      BY <1>3 DEF Raised, Rows
    <2>0. e = Raised(r)
      OBVIOUS
    <2>2. e.pc \in {"cleanup", "restore"} /\ (e.pc = "restore" => r.snapshot)
      BY <1>3, <2>1 DEF Handler, BannerHandler
    <2> HIDE DEF e
    <2>3. ModesOf(e) = ModesOf(r) /\ Restorable(e) = Restorable(r)
      BY <2>1, SameWork
    <2>4. RowsKnown(e, now, was)
      BY <2>1 DEF Known, RowsKnown
    <2>5. ScenesKnown(e, now, was)
      BY <1>1, <2>1, <2>2, <2>3 DEF ScenesKnown, Prep, Post, Same
    <2>6. FailureKnown(e, now, was) /\ DoneKnown(e, now, files, gone)
      BY <2>1, <2>2 DEF FailureKnown, DoneKnown, Done, Prep, Post, Placing
    <2>7. more => CalmKnown(e, now, was, version)
      BY <1>1, <2>1, <2>2, <2>3 DEF CalmKnown
    <2> QED
      BY <2>0, <2>4, <2>5, <2>6, <2>7 DEF Known
  <1> QED
    BY <1>2, <1>3

\* An exception.
LEMMA RaiseShows ==
  ASSUME DeployInv, ShownInv, NEW d \in Deployments, dep[d].pc \in Prep \cup {"write"} \cup Post,
         Raise(d), UNCHANGED <<scene, live, lost, actualVersion, last, before, alone>>
  PROVE  ShownInv'
  <1>1. dep[d] \in Rows
    BY RowKnown
  <1>2. dep' = [dep EXCEPT ![d] = Raised(dep[d])] /\ (calm' => calm /\ ~Unrestored(dep[d]))
    BY DEF Raise
  <1>3. Running(d)
    BY DEF Running, Prep, Post
  <1>4. calm \in BOOLEAN /\ calm' \in BOOLEAN
    BY RowKnown DEF Raise
  <1>5. Known(dep[d], scene, before, live, lost, actualVersion, calm)
          => Known(Raised(dep[d]), scene', before, live', lost', actualVersion', calm')
    BY <1>1, <1>2, <1>4, RaisedKnown
  <1> QED
    BY <1>2, <1>3, <1>5, OnlyLast

\* A command that fails without effect.
LEMMA FailsShow ==
  ASSUME DeployInv, ShownInv, NEW d \in Deployments, dep[d].pc \in Prep \cup {"write"} \cup Post,
         Fails(d)
  PROVE  ShownInv'
  BY RaiseShows DEF Fails, cashbox

\* A row that moves on to its next step, while the scenes stay.
LEMMA MovesOn ==
  ASSUME NEW r \in Rows, NEW e, NEW now, NEW was, NEW files, NEW gone, NEW version,
         NEW quiet \in BOOLEAN, NEW files2, NEW gone2,
         Known(r, now, was, files, gone, version, quiet),
         r.pc \in Prep \cup {"write"} \cup Post, e.pc \in Prep \cup {"write"} \cup Post,
         e.config = r.config, e.pipeline = r.pipeline, e.had = r.had, ~Done(e),
         e.pc \in Prep => r.pc \in Prep /\ ~e.snapshot,
         e.pc \notin Prep => e.snapshot, e.pc = "write" => e.todo # {},
         e.pc \in Placing => e.need \subseteq Wanted(r),
         \A m \in Modes : e.seen[m] = r.seen[m] \/ e.seen[m] \in {was[m], Unread},
         Distinct(r) /\ e.pc \in Placing \cup Post =>
           \A a \in Wanted(r) \ e.need : files2[NameOf[a]] = a \/ NameOf[a] \in gone2,
         e.pc \in Post => e.need = {},
         e.pc = "readback" => \A m \in ModesOf(r) \ e.todo : now[m] = DesiredScene(r.config, m)
  PROVE  Known(e, now, was, files2, gone2, version, quiet)
  <1>1. ModesOf(e) = ModesOf(r) /\ Wanted(e) = Wanted(r) /\ (Distinct(e) <=> Distinct(r))
    BY SameWork
  <1>2. RowsKnown(e, now, was)
    BY DEF Known, RowsKnown
  <1>3. /\ r.pc \in Prep => Same(now, was, Modes)
        /\ Same(now, was, Modes \ ModesOf(r))
    BY DEF Known, ScenesKnown, Prep, Post, Same
  <1>4. ScenesKnown(e, now, was)
    BY <1>1, <1>3 DEF Known, ScenesKnown, Prep, Post
  <1>5. FailureKnown(e, now, was)
    BY DEF FailureKnown, Prep, Post
  <1>6. DoneKnown(e, now, files2, gone2)
    BY <1>1 DEF DoneKnown, Done
  <1>7. quiet => CalmKnown(e, now, was, version)
    BY DEF Known, CalmKnown, Prep, Post, Undo
  <1> QED
    BY <1>2, <1>4, <1>5, <1>6, <1>7 DEF Known

\* The same for the last deployment, when its step touches neither scenes nor files.
LEMMA MovesShow ==
  ASSUME DeployInv, ShownInv, NEW d \in Deployments, NEW e, dep' = [dep EXCEPT ![d] = e],
         UNCHANGED <<scene, live, lost, actualVersion, last, before, alone, calm>>,
         dep[d].pc \in Prep \cup {"write"} \cup Post, e.pc \in Prep \cup {"write"} \cup Post,
         e.config = dep[d].config, e.pipeline = dep[d].pipeline, e.had = dep[d].had,
         e.status \in {dep[d].status, "RUNNING", "VERIFYING"},
         e.pc \in Prep => dep[d].pc \in Prep /\ (~dep[d].snapshot => ~e.snapshot),
         e.pc \notin Prep => e.snapshot \/ (dep[d].pc \notin Prep /\ e.snapshot = dep[d].snapshot),
         \A m \in Modes : e.seen[m] = dep[d].seen[m] \/ e.seen[m] \in {scene[m], Unread},
         dep[d].pc \in Prep \/ e.seen = dep[d].seen,
         \/ dep[d].pc \in Placing \cup Post /\ e.need = dep[d].need
         \/ e.need = MediaDiff(Wanted(dep[d]))
         \/ e.pc \notin Placing \cup Post,
         dep[d].pc \in Post => e.pc \in Post,
         e.pc \in Post => e.need = dep[d].need /\ dep[d].pc \in Post,
         e.pc = "write" => dep[d].pc \in Prep /\ e.todo = ModesOf(dep[d]),
         e.pc = "readback" => \/ e.todo = ModesOf(dep[d])
                              \/ /\ dep[d].pc = "readback"
                                 /\ \A m \in dep[d].todo \ e.todo :
                                      scene[m] = DesiredScene(dep[d].config, m)
  PROVE  ShownInv'
  <1> DEFINE r == dep[d]
  <1>1. r \in Rows /\ calm \in BOOLEAN /\ Fine(r, staging[d], Have)
    BY RowKnown
  <1>2. Running(d) /\ r.config \in Configs
    BY <1>1 DEF Running, Prep, Post, Fine
  <1>3. ASSUME Known(r, scene, before, live, lost, actualVersion, calm)
        PROVE  Known(e, scene, before, live, lost, actualVersion, calm)
    <2> HIDE DEF r
    <2>1. ~Done(r)
      BY <1>3 DEF r, Known, DoneKnown, Prep, Post
    <2>2. ~Done(e)
      BY <2>1 DEF Done, r
    <2>3. (r.pc \in Prep => ~r.snapshot) /\ (r.pc \in {"write"} \cup Post => r.snapshot)
      BY <1>3 DEF Known, ScenesKnown
    <2>4. (e.pc \in Prep => r.pc \in Prep /\ ~e.snapshot) /\ (e.pc \notin Prep => e.snapshot)
      BY <2>3 DEF r
    <2>5. \A m \in Modes : e.seen[m] = r.seen[m] \/ e.seen[m] \in {before[m], Unread}
      <3>1. r.pc \in Prep => Same(scene, before, Modes)
        BY <1>3, <2>3 DEF Known, ScenesKnown
      <3> QED
        BY <3>1 DEF r, Same
    <2>6. ASSUME Distinct(r), e.pc \in Placing \cup Post, NEW a \in Wanted(r) \ e.need
          PROVE  live[NameOf[a]] = a \/ NameOf[a] \in lost
      <3>1. CASE r.pc \in Placing \cup Post /\ e.need = r.need
        BY <1>3, <2>6, <3>1 DEF Known, DoneKnown
      <3>2. CASE e.need = MediaDiff(Wanted(r))
        <4>1. a \in Media /\ NameOf[a] \in Names
          BY <1>1, <1>2, <2>6, WantedMedia, DeploymentAssumption DEF r
        <4> QED
          BY <2>6, <3>2, <4>1 DEF MediaDiff, Listed
      <3> QED
        BY <2>6, <3>1, <3>2 DEF r
    <2>7. ASSUME e.pc = "readback", NEW m \in ModesOf(r) \ e.todo
          PROVE  scene[m] = DesiredScene(r.config, m)
      BY <1>3, <2>7 DEF r, Known, DoneKnown
    <2>8. /\ e.config = r.config /\ e.pipeline = r.pipeline /\ e.had = r.had
          /\ r.pc \in Prep \cup {"write"} \cup Post /\ r \in Rows /\ calm \in BOOLEAN
      BY <1>1 DEF r
    <2>9. e.pc \in Post => e.need = {}
      BY <1>3 DEF r, Known, DoneKnown
    <2>10. e.pc = "write" => e.todo # {}
      BY <1>3 DEF r, Known, ScenesKnown
    <2>11. e.pc \in Placing => e.need \subseteq Wanted(r)
      <3>1. MediaDiff(Wanted(r)) \subseteq Wanted(r)
        BY DEF MediaDiff
      <3> QED
        BY <1>3, <2>8, <3>1 DEF r, Known, DoneKnown, Placing, Prep, Post
    <2> QED
      BY <1>3, <2>2, <2>4, <2>5, <2>6, <2>7, <2>8, <2>9, <2>10, <2>11, MovesOn
  <1> QED
    BY <1>2, <1>3, OnlyLast

\* Steps 3 to 9 leave the scenes alone, and what they read of them was there.
LEMMA PrepareShows ==
  ASSUME DeployInv, ShownInv, NEW d \in Deployments,
         Connect(d) \/ Inventory(d) \/ Read(d) \/ Stage(d) \/ Check(d) \/ TakeSnapshot(d)
  PROVE  ShownInv'
  <1> DEFINE r == dep[d]
  <1>1. r \in Rows
    BY RowKnown
  <1>2. CASE Connect(d)
    <2> DEFINE e == [r EXCEPT !.pc = "inventory", !.stable = TRUE]
    <2>1. r.pc = "connect"
      BY <1>2 DEF Connect
    <2>2. CASE Fails(d)
      BY <2>1, <2>2, FailsShow DEF Prep
    <2>3. CASE dep' = [dep EXCEPT ![d] = e]
               /\ UNCHANGED <<known, central, cashbox, actualVersion, history>>
      <3>1. /\ e.pc = "inventory" /\ e.config = r.config /\ e.pipeline = r.pipeline
            /\ e.had = r.had /\ e.status = r.status /\ e.snapshot = r.snapshot /\ e.seen = r.seen
        BY <1>1 DEF Rows
      <3> HIDE DEF e
      <3> QED
        BY <2>1, <2>3, <3>1, MovesShow DEF Prep, Post, Placing, cashbox, history
    <2> QED
      BY <1>2, <2>2, <2>3 DEF Connect
  <1>3. CASE Inventory(d)
    <2> DEFINE e == [r EXCEPT !.pc = "read", !.todo = ModesOf(r), !.need = MediaDiff(Wanted(r)),
                              !.sealed = TRUE]
    <2>1. r.pc = "inventory"
      BY <1>3 DEF Inventory
    <2>2. CASE Fails(d)
      BY <2>1, <2>2, FailsShow DEF Prep
    <2>3. CASE dep' = [dep EXCEPT ![d] = e]
               /\ UNCHANGED <<known, central, cashbox, actualVersion, history>>
      <3>1. /\ e.pc = "read" /\ e.config = r.config /\ e.pipeline = r.pipeline
            /\ e.had = r.had /\ e.status = r.status /\ e.snapshot = r.snapshot /\ e.seen = r.seen
            /\ e.need = MediaDiff(Wanted(r))
        BY <1>1 DEF Rows
      <3> HIDE DEF e
      <3> QED
        BY <2>1, <2>3, <3>1, MovesShow DEF Prep, Post, Placing, cashbox, history
    <2> QED
      BY <1>3, <2>2, <2>3 DEF Inventory
  <1>4. CASE Read(d)
    <2> DEFINE m == First(r.todo)
               pc == IF r.todo = {m} THEN "decide" ELSE "read"
    <2>1. r.pc = "read" /\ UNCHANGED <<known, central, cashbox, actualVersion, history>>
      BY <1>4 DEF Read
    <2>2. m \in Modes
      BY DEF First, Modes
    <2>3. PICK s \in {scene[m], Unread} :
            dep' = [dep EXCEPT ![d].seen[m] = s, ![d].todo = @ \ {m}, ![d].pc = pc]
      BY <1>4 DEF Read
    <2> DEFINE e == [r EXCEPT !.seen[m] = s, !.todo = r.todo \ {m}, !.pc = pc]
    <2>4. dep' = [dep EXCEPT ![d] = e]
      BY <2>3
    <2>5. pc \in {"decide", "read"}
      OBVIOUS
    <2> HIDE DEF m, pc
    <2>6. /\ e.pc = pc /\ e.config = r.config /\ e.pipeline = r.pipeline
          /\ e.had = r.had /\ e.status = r.status /\ e.snapshot = r.snapshot /\ e.need = r.need
          /\ \A k \in Modes : e.seen[k] = IF k = m THEN s ELSE r.seen[k]
      BY <1>1, <2>2 DEF Rows
    <2>7. \A k \in Modes : e.seen[k] = r.seen[k] \/ e.seen[k] \in {scene[k], Unread}
      BY <2>3, <2>6
    <2> HIDE DEF e
    <2>8. /\ e.pc \in {"decide", "read"} /\ UNCHANGED <<scene, live, lost, actualVersion>>
          /\ UNCHANGED <<last, before, alone, calm>>
      BY <2>1, <2>5, <2>6 DEF cashbox, history
    <2> QED
      BY <2>1, <2>4, <2>6, <2>7, <2>8, MovesShow DEF Prep, Post, Placing
  <1>5. CASE Stage(d)
    <2>1. /\ r.pc = "stage"
          /\ UNCHANGED <<known, central, live, scene, late, actualVersion>>
          /\ UNCHANGED <<last, before, alone, lost>>
      BY <1>5 DEF Stage
    <2>2. CASE Raise(d)
      BY <2>1, <2>2, RaiseShows DEF Prep
    <2>3. CASE Goto(d, "check") /\ calm' = calm
      <3> DEFINE e == [r EXCEPT !.pc = "check"]
      <3>1. /\ e.pc = "check" /\ e.config = r.config /\ e.pipeline = r.pipeline
            /\ e.had = r.had /\ e.status = r.status /\ e.snapshot = r.snapshot /\ e.seen = r.seen
            /\ e.need = r.need
        BY <1>1 DEF Rows
      <3>2. dep' = [dep EXCEPT ![d] = e]
        BY <2>3 DEF Goto
      <3> HIDE DEF e
      <3> QED
        BY <2>1, <2>3, <3>1, <3>2, MovesShow DEF Prep, Post, Placing
    <2> QED
      BY <1>5, <2>2, <2>3 DEF Stage
  <1>6. CASE Check(d)
    <2>1. /\ r.pc = "check"
      BY <1>6 DEF Check
    <2>2. CASE Fails(d)
      BY <2>1, <2>2, FailsShow DEF Prep
    <2>3. CASE /\ Raise(d)
               /\ UNCHANGED <<known, central, cashbox, actualVersion, last, before, alone, lost>>
      BY <2>1, <2>3, RaiseShows DEF Prep, cashbox
    <2>4. CASE Goto(d, "promote") /\ calm' = calm
               /\ UNCHANGED <<known, central, cashbox, actualVersion, last, before, alone, lost>>
      <3> DEFINE e == [r EXCEPT !.pc = "promote"]
      <3>1. /\ e.pc = "promote" /\ e.config = r.config /\ e.pipeline = r.pipeline
            /\ e.had = r.had /\ e.status = r.status /\ e.snapshot = r.snapshot /\ e.seen = r.seen
            /\ e.need = r.need
        BY <1>1 DEF Rows
      <3>2. dep' = [dep EXCEPT ![d] = e]
        BY <2>4 DEF Goto
      <3> HIDE DEF e
      <3> QED
        BY <2>1, <2>4, <3>1, <3>2, MovesShow DEF Prep, Post, Placing, cashbox
    <2> QED
      BY <1>6, <2>2, <2>3, <2>4 DEF Check
  <1>7. CASE TakeSnapshot(d)
    <2> DEFINE e == [r EXCEPT !.pc = "write", !.snapshot = TRUE, !.todo = ModesOf(r)]
    <2>1. /\ r.pc = "promote" /\ dep' = [dep EXCEPT ![d] = e]
          /\ UNCHANGED <<known, central, cashbox, actualVersion, faults, history>>
      BY <1>7 DEF TakeSnapshot
    <2>2. /\ e.pc = "write" /\ e.config = r.config /\ e.pipeline = r.pipeline
          /\ e.had = r.had /\ e.status = r.status /\ e.snapshot /\ e.seen = r.seen
          /\ e.need = r.need /\ e.todo = ModesOf(r)
      BY <1>1 DEF Rows
    <2> HIDE DEF e
    <2> QED
      BY <2>1, <2>2, MovesShow DEF Prep, Post, Placing, cashbox, history
  <1> QED
    BY <1>2, <1>3, <1>4, <1>5, <1>6, <1>7

\* A deployment with nothing to do changes nothing.
LEMMA DecideShows ==
  ASSUME DeployInv, ShownInv, NEW d \in Deployments, Decide(d)
  PROVE  ShownInv'
  <1> DEFINE r == dep[d]
  <1>1. /\ r \in Rows /\ r.pc = "decide"
        /\ UNCHANGED <<known, central, cashbox, actualVersion, faults, history>>
    BY RowKnown DEF Decide
  <1>2. CASE ~IsIdempotentNoop(r)
    <2> DEFINE e == [r EXCEPT !.pc = "stage"]
    <2>1. dep' = [dep EXCEPT ![d] = e]
      BY <1>2 DEF Decide
    <2>2. /\ e.pc = "stage" /\ e.config = r.config /\ e.pipeline = r.pipeline
          /\ e.had = r.had /\ e.status = r.status /\ e.snapshot = r.snapshot /\ e.seen = r.seen
          /\ e.need = r.need
      BY <1>1 DEF Rows
    <2> HIDE DEF e
    <2> QED
      BY <1>1, <2>1, <2>2, MovesShow DEF Prep, Post, Placing, cashbox, history
  <1>3. CASE IsIdempotentNoop(r)
    <2> DEFINE e == Ended(r, "NO_OP")
    <2>1. dep' = [dep EXCEPT ![d] = e] /\ Running(d)
      BY <1>1, <1>3 DEF Decide, Running
    <2>2. /\ e.pc = "ended" /\ e.status = "NO_OP" /\ e.config = r.config
          /\ e.pipeline = r.pipeline /\ e.seen = r.seen /\ e.need = {} /\ ~e.snapshot
      BY <1>1, EndedIs
    <2>3. r.need = {} /\ \A m \in ModesOf(r) : r.seen[m] \in {Unread, DesiredScene(r.config, m)}
      BY <1>3 DEF IsIdempotentNoop
    <2> HIDE DEF e
    <2>4. /\ ModesOf(e) = ModesOf(r) /\ Wanted(e) = Wanted(r) /\ (Distinct(e) <=> Distinct(r))
          /\ ModesOf(r) \subseteq Modes
      BY <2>2, SameWork DEF ModesOf, Modes
    <2>5. ASSUME Known(r, scene, before, live, lost, actualVersion, calm)
          PROVE  Known(e, scene, before, live, lost, actualVersion, calm)
      <3>1. Same(scene, before, Modes) /\ RowsKnown(r, scene, before)
        BY <1>1, <2>5 DEF Known, ScenesKnown, Prep
      <3>2. RowsKnown(e, scene, before) /\ ScenesKnown(e, scene, before)
            /\ FailureKnown(e, scene, before)
        BY <2>2, <3>1 DEF RowsKnown, ScenesKnown, FailureKnown, Prep, Post
      <3>3. \A m \in ModesOf(r) : r.seen[m] = Unread \/ scene[m] = DesiredScene(r.config, m)
        BY <2>3, <2>4, <3>1 DEF RowsKnown, Same
      <3>4. DoneKnown(e, scene, live, lost)
        BY <1>1, <2>2, <2>3, <2>4, <2>5, <3>3 DEF Known, DoneKnown, Done, Prep, Post, Placing
      <3>5. calm => CalmKnown(e, scene, before, actualVersion)
        BY <1>1, <2>2, <2>5, <3>1 DEF Known, CalmKnown, OnRecord, Same
      <3> QED
        BY <3>2, <3>4, <3>5 DEF Known
    <2> QED
      BY <1>1, <2>1, <2>5, OnlyLast DEF cashbox, history
  <1> QED
    BY <1>2, <1>3

\* A file that was moved is the one wanted, if names tell the files apart.
LEMMA PromoteShows ==
  ASSUME DeployInv, ShownInv, NEW d \in Deployments, NEW a \in Media, Promote(d, a)
  PROVE  ShownInv'
  <1> DEFINE r == dep[d]
             e == [r EXCEPT !.need = r.need \ {a}]
  <1>1. r \in Rows /\ r.pc = "promote" /\ a \in r.need /\ calm \in BOOLEAN
        /\ staging[d][NameOf[a]] = a /\ NameOf[a] \in Names /\ live \in [Names -> Media \cup {None}]
    BY RowKnown, DeploymentAssumption DEF Promote, Fine, DeployInv, DeployTypeOK
  <1>2. Running(d) /\ r.config \in Configs
    BY <1>1, RowKnown DEF Running, Fine
  <1>3. CASE Fails(d)
    BY <1>1, <1>3, FailsShow DEF Prep
  <1>4. CASE /\ dep' = [dep EXCEPT ![d] = e]
             /\ UNCHANGED <<scene, actualVersion, last, before, alone, calm>>
             /\ \/ live' = [live EXCEPT ![NameOf[a]] = a] /\ lost' = lost \ {NameOf[a]}
                \/ live' = live /\ lost' = lost \cup {NameOf[a]}
    <2>1. /\ e.pc = "promote" /\ e.config = r.config /\ e.pipeline = r.pipeline
          /\ e.had = r.had /\ e.status = r.status /\ e.snapshot = r.snapshot /\ e.seen = r.seen
          /\ e.need = r.need \ {a}
      BY <1>1 DEF Rows
    <2> HIDE DEF e
    <2>2. ASSUME Known(r, scene, before, live, lost, actualVersion, calm)
          PROVE  Known(e, scene, before, live', lost', actualVersion, calm)
      <3> HIDE DEF r
      <3>1. ~Done(e) /\ ~e.snapshot /\ r.need \subseteq Wanted(r)
        BY <1>1, <2>1, <2>2 DEF Known, ScenesKnown, DoneKnown, Done, Prep, Placing
      <3>2. ASSUME Distinct(r), NEW b \in Wanted(r) \ e.need
            PROVE  live'[NameOf[b]] = b \/ NameOf[b] \in lost'
        <4>1. CASE b = a
          BY <1>1, <1>4, <4>1
        <4>2. CASE b # a
          <5>1. live[NameOf[b]] = b \/ NameOf[b] \in lost
            BY <1>1, <2>1, <2>2, <3>2, <4>2 DEF Known, DoneKnown, Placing
          <5>2. NameOf[b] # NameOf[a]
            BY <1>1, <3>1, <3>2, <4>2 DEF Distinct
          <5>3. NameOf[b] \in Names
            BY <1>1, <1>2, <3>2, WantedMedia, DeploymentAssumption DEF r
          <5> QED
            BY <1>1, <1>4, <5>1, <5>2, <5>3
        <4> QED
          BY <4>1, <4>2
      <3> QED
        BY <1>1, <2>1, <2>2, <3>1, <3>2, MovesOn DEF Prep, Post, Placing
    <2> QED
      BY <1>2, <1>4, <2>2, OnlyLast
  <1>5. \/ NoFault /\ StagingMove(d, a) /\ lost' = lost \ {NameOf[a]}
           /\ dep' = [dep EXCEPT ![d] = e]
           /\ UNCHANGED <<known, central, scene, late, actualVersion, last, before, alone, calm>>
        \/ Fault /\ lost' = lost \cup {NameOf[a]}
           /\ dep' = [dep EXCEPT ![d] = e]
           /\ UNCHANGED <<known, central, cashbox, actualVersion, last, before, alone, calm>>
        \/ Fails(d)
    BY DEF Promote
  <1> QED
    BY <1>1, <1>3, <1>4, <1>5 DEF StagingMove, cashbox

\* Between the updates and the reading back nothing changes.
LEMMA ChecksShow ==
  ASSUME DeployInv, ShownInv, NEW d \in Deployments,
         VerifyBoundary(d) \/ TouchReload(d) \/ VerifyStability(d)
  PROVE  ShownInv'
  <1> DEFINE r == dep[d]
             s == IF r.status = "RUNNING" /\ r.pipeline = "playlist" THEN "VERIFYING" ELSE r.status
             e == [r EXCEPT !.pc = "reload"]
             f == [r EXCEPT !.pc = "verify", !.status = s]
             g == [r EXCEPT !.pc = "readback", !.todo = ModesOf(r)]
  <1>1. r \in Rows /\ r.pc \in {"seal", "reload", "verify"}
    BY RowKnown DEF VerifyBoundary, TouchReload, VerifyStability, Gate
  <1>2. CASE Fails(d)
    BY <1>1, <1>2, FailsShow DEF Post
  <1>3. CASE /\ Raise(d)
             /\ UNCHANGED <<known, central, cashbox, actualVersion, last, before, alone, lost>>
    BY <1>1, <1>3, RaiseShows DEF Post, cashbox
  <1>4. ASSUME NEW h \in {e, f, g}, dep' = [dep EXCEPT ![d] = h], calm' = calm,
               UNCHANGED <<known, central, cashbox, actualVersion, last, before, alone, lost>>
        PROVE  ShownInv'
    <2>1. s \in {r.status, "VERIFYING"}
      OBVIOUS
    <2> HIDE DEF s
    <2>2. /\ h.pc \in {"reload", "verify", "readback"} /\ h.config = r.config
          /\ h.pipeline = r.pipeline /\ h.had = r.had /\ h.status \in {r.status, "VERIFYING"}
          /\ h.snapshot = r.snapshot /\ h.seen = r.seen /\ h.need = r.need
          /\ h.pc = "readback" => h.todo = ModesOf(r)
      BY <1>1, <1>4, <2>1 DEF Rows
    <2> HIDE DEF e, f, g
    <2> QED
      BY <1>1, <1>4, <2>2, MovesShow DEF Prep, Post, Placing, cashbox
  <1>5. \/ Fails(d)
        \/ /\ Raise(d)
           /\ UNCHANGED <<known, central, cashbox, actualVersion, last, before, alone, lost>>
        \/ /\ dep' \in {[dep EXCEPT ![d] = h] : h \in {e, f, g}} /\ calm' = calm
           /\ UNCHANGED <<known, central, cashbox, actualVersion, last, before, alone, lost>>
    BY DEF VerifyBoundary, TouchReload, VerifyStability, Gate
  <1> HIDE DEF e, f, g
  <1> QED
    BY <1>2, <1>3, <1>4, <1>5

\* An update leaves the other row alone, and a row that does not exist.
LEMMA UpdatedRow ==
  ASSUME NEW rows, NEW m \in Modes, NEW s, rows \in [Modes -> Stored], s.kind = "ads"
  PROVE  /\ \A k \in Modes \ {m} : Updated(rows, m, s)[k] = rows[k]
         /\ \A k \in Modes : Updated(rows, m, s)[k].kind = "absent" <=> rows[k].kind = "absent"
         /\ rows[m].kind # "absent" => Updated(rows, m, s)[m] = s
  BY DEF Updated

\* The scenes written are those of the deployment's modes.
LEMMA WriteShows ==
  ASSUME DeployInv, ShownInv, NEW d \in Deployments, Write(d)
  PROVE  ShownInv'
  <1> DEFINE r == dep[d]
             m == First(r.todo)
             s == DesiredScene(r.config, m)
             pc == IF r.todo = {m} THEN (IF r.pipeline = "banner" THEN "seal" ELSE "reload")
                                   ELSE "write"
             e == [r EXCEPT !.todo = r.todo \ {m}, !.pc = pc]
  <1>1. /\ r \in Rows /\ r.pc = "write" /\ r.need = {} /\ r.todo \subseteq ModesOf(r)
        /\ scene \in [Modes -> Stored] /\ calm \in BOOLEAN
        /\ UNCHANGED <<known, central, live, staging, actualVersion, last, before, alone, lost>>
    BY RowKnown DEF Write, Fine, DeployInv, DeployTypeOK
  <1>2. CASE scene' = scene /\ Raise(d)
    BY <1>1, <1>2, RaiseShows
  <1>3. CASE UpdateDone(m, s) /\ calm' = calm /\ dep' = [dep EXCEPT ![d] = e]
    <2>1. m \in Modes /\ s.kind = "ads" /\ scene' = Updated(scene, m, s)
      BY <1>3 DEF UpdateDone, ParseScene, First, Modes
    <2>2. /\ pc \in {"seal", "reload", "write"} /\ (pc = "write" => r.todo # {m})
          /\ r.todo # {} => m \in r.todo
      BY <1>1 DEF First, Rows, Modes
    <2> HIDE DEF pc, m
    <2>3. /\ e.pc = pc /\ e.config = r.config /\ e.pipeline = r.pipeline /\ e.had = r.had
          /\ e.status = r.status /\ e.snapshot = r.snapshot /\ e.seen = r.seen
          /\ e.need = r.need /\ e.todo = r.todo \ {m}
      BY <1>1 DEF Rows
    <2> HIDE DEF e, s
    <2>4. /\ ModesOf(e) = ModesOf(r) /\ Wanted(e) = Wanted(r) /\ (Distinct(e) <=> Distinct(r))
      BY <2>3, SameWork
    <2>5. /\ \A k \in Modes \ {m} : scene'[k] = scene[k]
          /\ \A k \in Modes : scene'[k].kind = "absent" <=> scene[k].kind = "absent"
      BY <1>1, <2>1, UpdatedRow
    <2>6. ASSUME Known(r, scene, before, live, lost, actualVersion, calm)
          PROVE  Known(e, scene', before, live, lost, actualVersion, calm)
      <3>1. r.todo # {} /\ r.snapshot /\ Same(scene, before, Modes \ ModesOf(r))
        BY <1>1, <2>6 DEF Known, ScenesKnown
      <3>2. m \in ModesOf(r) /\ Same(scene', before, Modes \ ModesOf(r))
        BY <1>1, <2>2, <2>5, <3>1 DEF Same
      <3>3. RowsKnown(e, scene', before)
        BY <2>3, <2>5, <2>6 DEF Known, RowsKnown
      <3>4. ScenesKnown(e, scene', before)
        BY <2>2, <2>3, <2>4, <3>1, <3>2 DEF ScenesKnown, Prep, Post
      <3>5. FailureKnown(e, scene', before)
        BY <2>2, <2>3 DEF FailureKnown
      <3>6. DoneKnown(e, scene', live, lost)
        BY <1>1, <2>2, <2>3, <2>4, <2>6 DEF Known, DoneKnown, Done, Prep, Post, Placing
      <3>7. calm => CalmKnown(e, scene', before, actualVersion)
        BY <1>1, <2>2, <2>3, <2>6 DEF Known, CalmKnown, Undo
      <3> QED
        BY <3>3, <3>4, <3>5, <3>6, <3>7 DEF Known
    <2>7. Running(d)
      BY <1>1 DEF Running
    <2> QED
      BY <1>1, <1>3, <2>6, <2>7, OnlyLast
  <1> QED
    BY <1>2, <1>3 DEF Write, UpdateFails

\* Success is announced when every scene has been read back.
LEMMA ReadBackShows ==
  ASSUME DeployInv, ShownInv, NEW d \in Deployments, ReadBack(d)
  PROVE  ShownInv'
  <1> DEFINE r == dep[d]
             m == First(r.todo)
             e == [r EXCEPT !.todo = r.todo \ {m}]
             f == Ended(r, "SUCCESS")
  <1>1. /\ r \in Rows /\ r.pc = "readback" /\ Running(d) /\ r.config \in Configs
        /\ calm \in BOOLEAN
    BY RowKnown DEF ReadBack, Running, Fine
  <1>2. CASE Fails(d)
    BY <1>1, <1>2, FailsShow DEF Post
  <1>3. CASE /\ Raise(d) /\ actualVersion' = actualVersion
             /\ UNCHANGED <<known, central, cashbox, last, before, alone, lost>>
    BY <1>1, <1>3, RaiseShows DEF Post, cashbox
  <1>4. CASE /\ Matches(r, m) /\ dep' = [dep EXCEPT ![d] = e]
             /\ UNCHANGED <<known, central, cashbox, actualVersion>>
             /\ UNCHANGED <<last, before, alone, lost, calm>>
    <2>1. scene[m] = DesiredScene(r.config, m)
      BY <1>4 DEF Matches
    <2> HIDE DEF m
    <2>2. /\ e.pc = "readback" /\ e.config = r.config /\ e.pipeline = r.pipeline /\ e.had = r.had
          /\ e.status = r.status /\ e.snapshot = r.snapshot /\ e.seen = r.seen
          /\ e.need = r.need /\ e.todo = r.todo \ {m}
      BY <1>1 DEF Rows
    <2> HIDE DEF e
    <2> QED
      BY <1>1, <1>4, <2>1, <2>2, MovesShow DEF Prep, Post, Placing, cashbox
  <1>5. CASE /\ Matches(r, m) /\ r.todo = {m} /\ dep' = [dep EXCEPT ![d] = f]
             /\ actualVersion' = Recorded(r)
             /\ calm' = (calm /\ (r.pipeline = "banner" => Playlist[r.config]["full"] = {}))
             /\ UNCHANGED <<known, central, cashbox, last, before, alone, lost>>
    <2>1. scene[m] = DesiredScene(r.config, m) /\ r.todo = {m}
      BY <1>5 DEF Matches
    <2> HIDE DEF m
    <2>2. /\ f.pc = "ended" /\ f.status = "SUCCESS" /\ f.config = r.config
          /\ f.pipeline = r.pipeline /\ f.seen = r.seen /\ f.need = {} /\ ~f.snapshot
      BY <1>1, EndedIs
    <2> HIDE DEF f
    <2>3. /\ ModesOf(f) = ModesOf(r) /\ Wanted(f) = Wanted(r) /\ (Distinct(f) <=> Distinct(r))
      BY <2>2, SameWork
    <2>4. ASSUME Known(r, scene, before, live, lost, actualVersion, calm)
          PROVE  Known(f, scene, before, live, lost, actualVersion', calm')
      <3>1. \A k \in ModesOf(r) : scene[k] = DesiredScene(r.config, k)
        BY <1>1, <2>1, <2>4 DEF Known, DoneKnown
      <3>2. RowsKnown(f, scene, before) /\ ScenesKnown(f, scene, before)
            /\ FailureKnown(f, scene, before)
        BY <2>2, <2>4 DEF Known, RowsKnown, ScenesKnown, FailureKnown, Prep, Post
      <3>3. DoneKnown(f, scene, live, lost)
        BY <1>1, <2>2, <2>3, <2>4, <3>1 DEF Known, DoneKnown, Done, Prep, Post, Placing
      <3>4. ASSUME calm' PROVE CalmKnown(f, scene, before, actualVersion')
        <4>1. calm /\ (r.pipeline = "banner" => Playlist[r.config]["full"] = {})
          BY <1>5, <3>4
        <4>2. actualVersion' = r.config
          BY <1>1, <1>5, <2>4, <4>1 DEF Known, CalmKnown, Recorded
        <4>3. \A k \in Modes : Playlist[r.config][k] # {} => k \in ModesOf(r)
          BY <1>1, <4>1 DEF ModesOf, Modes, Rows
        <4> QED
          BY <2>2, <3>1, <4>2, <4>3 DEF CalmKnown, OnRecord
      <3> QED
        BY <3>2, <3>3, <3>4 DEF Known
    <2>5. scene' = scene /\ live' = live /\ (calm' => calm)
      BY <1>5 DEF cashbox
    <2> QED
      BY <1>1, <1>5, <2>4, <2>5, OnlyLast
  <1> QED
    BY <1>2, <1>3, <1>4, <1>5 DEF ReadBack

\* Without a snapshot there is nothing to restore, for nothing was written.
LEMMA CleanupShows ==
  ASSUME DeployInv, ShownInv, NEW d \in Deployments, Cleanup(d)
  PROVE  ShownInv'
  <1> DEFINE r == dep[d]
             pc == IF r.todo = {} THEN "resume" ELSE "restore"
             e == [r EXCEPT !.status = "ROLLING_BACK", !.pc = pc]
             f == Ended(r, "FAILED")
  <1>1. /\ r \in Rows /\ r.pc = "cleanup" /\ Running(d) /\ calm \in BOOLEAN
        /\ UNCHANGED <<known, central, live, scene, late, actualVersion, history>>
    BY RowKnown DEF Cleanup, Running
  <1>2. CASE ~r.snapshot
    <2>1. dep' = [dep EXCEPT ![d] = f]
      BY <1>2 DEF Cleanup
    <2>2. f.pc = "ended" /\ f.status = "FAILED" /\ f.seen = r.seen /\ f.need = {} /\ ~f.snapshot
      BY <1>1, EndedIs
    <2> HIDE DEF f
    <2>3. ASSUME Known(r, scene, before, live, lost, actualVersion, calm)
          PROVE  Known(f, scene, before, live, lost, actualVersion, calm)
      <3>1. Same(scene, before, Modes) /\ RowsKnown(r, scene, before)
        BY <1>1, <1>2, <2>3 DEF Known, ScenesKnown
      <3>2. RowsKnown(f, scene, before) /\ ScenesKnown(f, scene, before)
            /\ FailureKnown(f, scene, before)
        BY <2>2, <3>1 DEF RowsKnown, ScenesKnown, FailureKnown, Prep, Post
      <3>3. DoneKnown(f, scene, live, lost)
        BY <2>2 DEF DoneKnown, Done, Post, Placing
      <3>4. calm => CalmKnown(f, scene, before, actualVersion)
        BY <1>1, <2>2, <2>3, <3>1 DEF Known, CalmKnown, OnRecord, Same
      <3> QED
        BY <3>2, <3>3, <3>4 DEF Known
    <2> QED
      BY <1>1, <2>1, <2>3, OnlyLast DEF history
  <1>3. CASE r.snapshot
    <2>1. dep' = [dep EXCEPT ![d] = e]
      BY <1>3 DEF Cleanup
    <2>2. pc \in {"resume", "restore"} /\ (pc = "resume" => r.todo = {})
      OBVIOUS
    <2> HIDE DEF pc
    <2>3. /\ e.pc = pc /\ e.status = "ROLLING_BACK" /\ e.config = r.config
          /\ e.pipeline = r.pipeline /\ e.had = r.had /\ e.snapshot /\ e.seen = r.seen
          /\ e.todo = r.todo
      BY <1>1, <1>3 DEF Rows
    <2> HIDE DEF e
    <2>4. ModesOf(e) = ModesOf(r) /\ Restorable(e) = Restorable(r)
      BY <2>3, SameWork
    <2>5. ASSUME Known(r, scene, before, live, lost, actualVersion, calm)
          PROVE  Known(e, scene, before, live, lost, actualVersion, calm)
      <3>1. r.todo = Restorable(r) /\ Same(scene, before, Modes \ ModesOf(r))
        BY <1>1, <1>3, <2>5 DEF Known, ScenesKnown
      <3>2. RowsKnown(e, scene, before) /\ FailureKnown(e, scene, before)
        BY <2>2, <2>3, <2>5 DEF Known, RowsKnown, FailureKnown
      <3>3. ScenesKnown(e, scene, before)
        BY <2>2, <2>3, <2>4, <3>1 DEF ScenesKnown, Prep, Post, Same
      <3>4. DoneKnown(e, scene, live, lost)
        BY <2>2, <2>3 DEF DoneKnown, Done, Post, Placing
      <3>5. calm => CalmKnown(e, scene, before, actualVersion)
        BY <1>1, <1>3, <2>2, <2>3, <2>4, <2>5 DEF Known, CalmKnown, Undo
      <3> QED
        BY <3>2, <3>3, <3>4, <3>5 DEF Known
    <2> QED
      BY <1>1, <2>1, <2>5, OnlyLast DEF history
  <1> QED
    BY <1>2, <1>3

\* Of a deployment that is over, or dead, without success nothing is said but by its status.
LEMMA StoppedKnown ==
  ASSUME NEW r \in Rows, NEW e, NEW now, NEW was, NEW files, NEW gone, NEW version,
         NEW quiet \in BOOLEAN, Known(r, now, was, files, gone, version, quiet),
         e.pc \in {"ended", "dead"}, ~Done(e), ~e.snapshot, e.seen = r.seen, e.pc = "ended" =>
           \/ e.status \notin {"FAILED", "ROLLED_BACK"}
           \/ e.status = "FAILED" /\ e.pipeline = "banner"
  PROVE  Known(e, now, was, files, gone, version, FALSE)
  BY DEF Known, RowsKnown, ScenesKnown, FailureKnown, DoneKnown, Prep, Post, Placing, Done

\* A rollback that is given up, and a process that dies, answer for nothing more.
LEMMA StopShows ==
  ASSUME DeployInv, ShownInv, NEW d \in Deployments, Running(d),
         \/ GiveUp(d)
         \/ /\ dep' = [dep EXCEPT ![d] = [Ended(@, @.status) EXCEPT !.pc = "dead"]]
            /\ calm' = FALSE,
         UNCHANGED <<scene, live, lost, actualVersion, last, before, alone>>
  PROVE  ShownInv'
  <1> DEFINE r == dep[d]
             s == IF r.pipeline = "playlist" THEN "FAILED_MANUAL_INTERVENTION" ELSE "FAILED"
             f == Ended(r, s)
             g == [Ended(r, r.status) EXCEPT !.pc = "dead"]
  <1>1. r \in Rows /\ calm' = FALSE /\ calm \in BOOLEAN /\ r.pc # "ended"
    BY RowKnown DEF GiveUp, Running
  <1>2. /\ f.pc = "ended" /\ f.status = s /\ f.pipeline = r.pipeline /\ f.seen = r.seen
        /\ ~f.snapshot
    BY <1>1, EndedIs
  <1>3. /\ g.pc = "dead" /\ g.status = r.status /\ g.seen = r.seen /\ ~g.snapshot
    BY <1>1 DEF Ended, Rows
  <1>4. /\ s \in {"FAILED", "FAILED_MANUAL_INTERVENTION"}
        /\ s = "FAILED" => r.pipeline = "banner"
    BY <1>1 DEF Rows
  <1>5. PICK e \in {f, g} : dep' = [dep EXCEPT ![d] = e]
    BY DEF GiveUp
  <1> HIDE DEF r, f, g, s
  <1>6. ASSUME Known(r, scene, before, live, lost, actualVersion, calm)
        PROVE  Known(e, scene, before, live, lost, actualVersion, FALSE)
    <2>1. ~Done(r)
      BY <1>1, <1>6 DEF Known, DoneKnown
    <2>2. ~Done(e)
      BY <1>2, <1>3, <1>4, <1>5, <2>1 DEF Done
    <2> QED
      BY <1>1, <1>2, <1>3, <1>4, <1>5, <1>6, <2>2, StoppedKnown
  <1> QED
    BY <1>1, <1>5, <1>6, OnlyLast DEF r

\* What was read is what was there when the deployment began, and so is what is restored.
LEMMA RestoreShows ==
  ASSUME DeployInv, ShownInv, NEW d \in Deployments, Restore(d)
  PROVE  ShownInv'
  <1> DEFINE r == dep[d]
             m == First(r.todo)
             pc == IF r.todo = {m} THEN "resume" ELSE "restore"
             e == [r EXCEPT !.todo = r.todo \ {m}, !.pc = pc]
  <1>1. /\ r \in Rows /\ r.pc = "restore" /\ Running(d) /\ calm \in BOOLEAN
        /\ scene \in [Modes -> Stored] /\ r.todo # {}
        /\ UNCHANGED <<known, central, live, staging, actualVersion, last, before, alone, lost>>
    BY RowKnown DEF Restore, Running, Fine, DeployInv, DeployTypeOK
  <1>2. CASE scene' = scene /\ GiveUp(d)
    BY <1>1, <1>2, StopShows
  <1>3. CASE UpdateDone(m, r.seen[m]) /\ calm' = calm /\ dep' = [dep EXCEPT ![d] = e]
    <2>1. r.seen[m].kind = "ads" /\ scene' = Updated(scene, m, r.seen[m])
      BY <1>3 DEF UpdateDone, ParseScene
    <2>2. /\ pc \in {"resume", "restore"} /\ (pc = "resume" => r.todo = {m})
          /\ m \in r.todo /\ m \in Modes
      BY <1>1 DEF First, Rows, Modes
    <2> HIDE DEF pc, m
    <2>3. /\ e.pc = pc /\ e.config = r.config /\ e.pipeline = r.pipeline /\ e.had = r.had
          /\ e.status = r.status /\ e.snapshot = r.snapshot /\ e.seen = r.seen
          /\ e.todo = r.todo \ {m}
      BY <1>1 DEF Rows
    <2> HIDE DEF e
    <2>4. ModesOf(e) = ModesOf(r) /\ Restorable(e) = Restorable(r)
      BY <2>3, SameWork
    <2>5. /\ \A k \in Modes \ {m} : scene'[k] = scene[k]
          /\ \A k \in Modes : scene'[k].kind = "absent" <=> scene[k].kind = "absent"
          /\ scene[m].kind # "absent" => scene'[m] = r.seen[m]
      BY <1>1, <2>1, <2>2, UpdatedRow
    <2>6. ASSUME Known(r, scene, before, live, lost, actualVersion, calm)
          PROVE  Known(e, scene', before, live, lost, actualVersion, calm)
      <3>1. /\ r.todo \subseteq Restorable(r) /\ r.snapshot
            /\ Same(scene, before, Modes \ ModesOf(r))
            /\ Same(scene, before, Restorable(r) \ r.todo)
        BY <1>1, <2>6 DEF Known, ScenesKnown
      <3>2. Unread.kind # "ads"
        BY DEF Unread, Odd
      <3>3. r.seen[m] = before[m] /\ scene[m].kind # "absent"
        BY <2>1, <2>2, <2>6, <3>2 DEF Known, RowsKnown
      <3>4. m \in ModesOf(r) /\ Restorable(r) \subseteq ModesOf(r) /\ ModesOf(r) \subseteq Modes
        BY <2>2, <3>1 DEF Restorable, ModesOf, Modes
      <3>5. /\ Same(scene', before, Modes \ ModesOf(r))
            /\ Same(scene', before, Restorable(r) \ (r.todo \ {m}))
        BY <2>5, <3>1, <3>3, <3>4 DEF Same
      <3>6. RowsKnown(e, scene', before) /\ FailureKnown(e, scene', before)
        BY <2>2, <2>3, <2>5, <2>6 DEF Known, RowsKnown, FailureKnown
      <3>7. ScenesKnown(e, scene', before)
        BY <2>2, <2>3, <2>4, <3>1, <3>5 DEF ScenesKnown, Prep, Post
      <3>8. DoneKnown(e, scene', live, lost)
        BY <1>1, <2>2, <2>3, <2>6 DEF Known, DoneKnown, Done, Post, Placing
      <3>9. calm => CalmKnown(e, scene', before, actualVersion)
        BY <1>1, <2>2, <2>3, <2>4, <2>6 DEF Known, CalmKnown, Undo
      <3> QED
        BY <3>6, <3>7, <3>8, <3>9 DEF Known
    <2> QED
      BY <1>1, <1>3, <2>6, OnlyLast
  <1> QED
    BY <1>2, <1>3 DEF Restore, UpdateFails

\* The rollback is over when everything that could be restored has been.
LEMMA ResumeShows ==
  ASSUME DeployInv, ShownInv, NEW d \in Deployments, Resume(d)
  PROVE  ShownInv'
  <1> DEFINE r == dep[d]
             s == IF r.pipeline = "playlist" THEN "ROLLED_BACK" ELSE "FAILED"
             f == Ended(r, s)
  <1>1. /\ r \in Rows /\ r.pc = "resume" /\ Running(d) /\ calm \in BOOLEAN
        /\ UNCHANGED <<known, central, cashbox, actualVersion, last, before, alone, lost>>
    BY RowKnown DEF Resume, Running
  <1>2. CASE GiveUp(d)
    BY <1>1, <1>2, StopShows DEF cashbox
  <1>3. CASE calm' = calm /\ dep' = [dep EXCEPT ![d] = f]
    <2>1. s \in {"ROLLED_BACK", "FAILED"} /\ (s = "FAILED" => r.pipeline # "playlist")
      OBVIOUS
    <2>2. /\ f.pc = "ended" /\ f.status = s /\ f.config = r.config /\ f.pipeline = r.pipeline
          /\ f.seen = r.seen /\ ~f.snapshot
      BY <1>1, EndedIs
    <2> HIDE DEF f, s
    <2>3. ModesOf(f) = ModesOf(r) /\ Restorable(f) = Restorable(r)
      BY <2>2, SameWork
    <2>4. ASSUME Known(r, scene, before, live, lost, actualVersion, calm)
          PROVE  Known(f, scene, before, live, lost, actualVersion, calm)
      <3>1. /\ r.snapshot /\ Same(scene, before, Modes \ ModesOf(r))
            /\ Same(scene, before, Restorable(r))
        BY <1>1, <2>4 DEF Known, ScenesKnown, Same
      <3>2. RowsKnown(f, scene, before) /\ ScenesKnown(f, scene, before)
        BY <2>2, <2>4 DEF Known, RowsKnown, ScenesKnown, Prep, Post
      <3>3. FailureKnown(f, scene, before)
        BY <2>1, <2>2, <2>3, <3>1 DEF FailureKnown
      <3>4. DoneKnown(f, scene, live, lost)
        BY <2>1, <2>2 DEF DoneKnown, Done, Post, Placing
      <3>5. ASSUME calm PROVE CalmKnown(f, scene, before, actualVersion)
        <4>1. Restorable(r) = ModesOf(r) /\ OnRecord(before, actualVersion)
          BY <1>1, <2>4, <3>1, <3>5 DEF Known, CalmKnown, Undo
        <4>2. Same(scene, before, Modes)
          BY <3>1, <4>1 DEF Same
        <4>3. OnRecord(scene, actualVersion)
          BY <4>1, <4>2 DEF OnRecord, Same
        <4> QED
          BY <2>2, <4>3 DEF CalmKnown
      <3> QED
        BY <3>2, <3>3, <3>4, <3>5 DEF Known
    <2> QED
      BY <1>1, <1>3, <2>4, OnlyLast DEF cashbox
  <1> QED
    BY <1>2, <1>3 DEF Resume

-----------------------------------------------------------------------------

\* While no deployment is running, and each could answer for its scenes, they are those of
\* the version on record.
LEMMA RestOnRecord ==
  ASSUME ShownInv, calm, \A d \in Deployments : ~Running(d), last \in Deployments \cup {None}
  PROVE  OnRecord(scene, actualVersion)
  <1>1. CASE last = None
    BY <1>1 DEF ShownInv
  <1>2. CASE last # None
    <2>1. dep[last].pc \in {"none", "ended", "dead"}
      BY <1>2 DEF Running
    <2>2. Known(dep[last], scene, before, live, lost, actualVersion, calm)
      BY <1>2 DEF ShownInv
    <2> QED
      BY <2>1, <2>2 DEF Known, ScenesKnown, CalmKnown
  <1> QED
    BY <1>1, <1>2

\* A deployment that begins finds the scenes as they are.
LEMMA StartShows ==
  ASSUME DeployInv, ShownInv, NEW d \in Deployments, NEW c \in Configs,
         NEW p \in {"playlist", "banner"}, Start(d, c, p)
  PROVE  ShownInv'
  <1> DEFINE r == [Fresh EXCEPT !.status = "RUNNING", !.pipeline = p, !.config = c,
                                !.had = actualVersion]
             e == [r EXCEPT !.pc = "connect"]
             f == Ended(r, "FAILED")
  <1>1. /\ last' = d /\ before' = scene /\ alone' = (\A b \in Deployments : ~Running(b))
        /\ calm' = (calm /\ alone') /\ UNCHANGED <<scene, live, lost, actualVersion>>
        /\ last \in Deployments \cup {None}
    BY DEF Start, cashbox, DeployInv, DeployTypeOK
  <1>2. PICK h \in {e, f} : dep' = [dep EXCEPT ![d] = h] /\ (h = f \/ ~Invalid(r))
    BY DEF Start
  <1>3. /\ r.pipeline = p /\ r.config = c /\ r.had = actualVersion /\ r.status = "RUNNING"
        /\ r.seen = [m \in Modes |-> Unread] /\ ~r.snapshot /\ r.need = {} /\ r \in Rows
    BY RowKnown DEF Fresh, Rows, Pcs, Statuses
  <1> HIDE DEF r
  <1>4. /\ e.pc = "connect" /\ e.status = "RUNNING" /\ e.had = actualVersion /\ e.seen = r.seen
        /\ ~e.snapshot /\ e.need = {} /\ e.config = r.config /\ e.pipeline = r.pipeline
    BY <1>3 DEF Rows
  <1>5. /\ f.pc = "ended" /\ f.status = "FAILED" /\ f.seen = r.seen /\ ~f.snapshot
    BY <1>3, EndedIs
  <1> HIDE DEF e, f
  <1>6. ASSUME ~Invalid(r) PROVE ModesOf(e) # {}
    <2>1. ModesOf(e) = ModesOf(r)
      BY <1>4, SameWork
    <2>2. r.pipeline = "banner" => "split" \in ModesOf(r)
      BY DEF ModesOf
    <2> QED
      BY <1>6, <2>1, <2>2 DEF Invalid
  <1>7. ASSUME calm' PROVE OnRecord(scene, actualVersion)
    BY <1>1, <1>7, RestOnRecord
  <1>8. Same(scene, scene, Modes)
    BY DEF Same
  <1>9. RowsKnown(h, scene, scene)
    BY <1>2, <1>3, <1>4, <1>5 DEF RowsKnown
  <1>10. ScenesKnown(h, scene, scene) /\ FailureKnown(h, scene, scene)
    BY <1>2, <1>4, <1>5, <1>6, <1>8 DEF ScenesKnown, FailureKnown, Prep, Post
  <1>11. DoneKnown(h, scene, live, lost)
    BY <1>2, <1>4, <1>5 DEF DoneKnown, Done, Post, Placing
  <1>12. calm' => CalmKnown(h, scene, scene, actualVersion)
    BY <1>2, <1>4, <1>5, <1>7 DEF CalmKnown, Undo
  <1>13. Known(h, scene, scene, live, lost, actualVersion, calm')
    BY <1>9, <1>10, <1>11, <1>12 DEF Known
  <1>14. \A b \in Deployments : dep'[b] = IF b = d THEN h ELSE dep[b]
    BY <1>2 DEF DeployInv, DeployTypeOK
  <1>15. calm' => alone'
    BY <1>1
  <1>16. alone' => \A b \in Deployments \ {d} : ~Running(b)'
    BY <1>1, <1>14 DEF Running
  <1>17. Known(dep[last], scene, before, live, lost, actualVersion, calm)'
    BY <1>1, <1>13, <1>14
  <1>18. last' # None
    BY <1>1, DeploymentAssumption
  <1> QED
    BY <1>1, <1>15, <1>16, <1>17, <1>18 DEF ShownInv

\* Uploads, restarts and settings are nothing a row tells of.
LEMMA AroundShows ==
  ASSUME DeployInv, ShownInv, (\E a \in Media : Upload(a)) \/ Restart \/ SettingsWritten
  PROVE  ShownInv'
  <1>1. CASE \E a \in Media : Upload(a)
    BY <1>1 DEF Upload, cashbox, history, ShownInv, Running
  <1>2. CASE Restart \/ SettingsWritten
    <2>1. UNCHANGED <<known, central, cashbox, actualVersion, faults, history>>
      BY <1>2 DEF Restart, SettingsWritten
    <2>2. ASSUME NEW d \in Deployments
          PROVE  /\ dep'[d].pc = dep[d].pc /\ dep'[d].config = dep[d].config
                 /\ dep'[d].seen = dep[d].seen /\ dep'[d].need = dep[d].need
                 /\ dep'[d].todo = dep[d].todo /\ dep'[d].pipeline = dep[d].pipeline
                 /\ dep'[d].status = dep[d].status /\ dep'[d].had = dep[d].had
                 /\ dep'[d].snapshot = dep[d].snapshot
      <3>1. dep[d] \in Rows
        BY RowKnown
      <3>2. CASE Restart
        BY <3>1, <3>2 DEF Restart, Rows
      <3>3. CASE SettingsWritten
        BY <3>1, <3>3 DEF SettingsWritten, Rows
      <3> QED
        BY <1>2, <3>2, <3>3
    <2>3. \A d \in Deployments : Running(d)' <=> Running(d)
      BY <2>2 DEF Running
    <2>4. ASSUME NEW d \in Deployments,
                 Known(dep[d], scene, before, live, lost, actualVersion, calm)
          PROVE  Known(dep'[d], scene, before, live, lost, actualVersion, calm)
      <3> DEFINE r == dep[d]
                 e == dep'[d]
      <3>1. /\ e.pc = r.pc /\ e.config = r.config /\ e.seen = r.seen /\ e.need = r.need
            /\ e.todo = r.todo /\ e.pipeline = r.pipeline /\ e.status = r.status
            /\ e.had = r.had /\ e.snapshot = r.snapshot
        BY <2>2
      <3>2. Known(r, scene, before, live, lost, actualVersion, calm)
        BY <2>4
      <3> HIDE DEF r, e
      <3>3. /\ ModesOf(e) = ModesOf(r) /\ Wanted(e) = Wanted(r) /\ (Distinct(e) <=> Distinct(r))
            /\ Restorable(e) = Restorable(r)
        BY <3>1, SameWork
      <3>4. RowsKnown(e, scene, before) /\ ScenesKnown(e, scene, before)
            /\ FailureKnown(e, scene, before)
        BY <3>1, <3>2, <3>3 DEF Known, RowsKnown, ScenesKnown, FailureKnown
      <3>5. DoneKnown(e, scene, live, lost) /\ (calm => CalmKnown(e, scene, before, actualVersion))
        BY <3>1, <3>2, <3>3 DEF Known, DoneKnown, CalmKnown, Done
      <3>6. Known(e, scene, before, live, lost, actualVersion, calm)
        BY <3>4, <3>5 DEF Known
      <3> QED
        BY <3>6 DEF e
    <2>5. last \in Deployments \cup {None}
      BY DEF DeployInv, DeployTypeOK
    <2> QED
      BY <2>1, <2>3, <2>4, <2>5 DEF ShownInv, cashbox, history
  <1> QED
    BY <1>1, <1>2

\* Nothing has been deployed, and no version is on record unless nothing is claimed of it.
LEMMA ShownStarts == Init => ShownInv
  <1> SUFFICES ASSUME Init PROVE ShownInv
    OBVIOUS
  <1>1. alone /\ last = None /\ \A d \in Deployments : ~Running(d)
    BY DEF Init, Running, Fresh
  <1>2. calm => actualVersion = None
    BY DEF Init
  <1> QED
    BY <1>1, <1>2 DEF ShownInv, OnRecord

\* Every step keeps what the last deployment tells of the screen.
LEMMA ShownStep == DeployInv /\ ShownInv /\ [Next]_vars => ShownInv'
  <1> SUFFICES ASSUME DeployInv, ShownInv, [Next]_vars PROVE ShownInv'
    OBVIOUS
  <1>1. ASSUME NEW d \in Deployments, PlaylistStep(d) \/ BannerStep(d) PROVE ShownInv'
    BY <1>1, PrepareShows, DecideShows, PromoteShows, WriteShows, ChecksShow, ReadBackShows,
       CleanupShows, RestoreShows, ResumeShows
    DEF PlaylistStep, BannerStep
  <1>2. ASSUME NEW d \in Deployments, Die(d) PROVE ShownInv'
    BY <1>2, StopShows DEF Die, cashbox
  <1>3. ASSUME NEW l \in late, Land(l) PROVE ShownInv'
    BY <1>3 DEF Land, ShownInv
  <1>4. CASE UNCHANGED vars
    BY <1>4 DEF vars, cashbox, history, ShownInv, Running
  <1> QED
    BY <1>1, <1>2, <1>3, <1>4, StartShows, AroundShows DEF Next

\* A deployment that says it is done, and that nothing disturbed, shows its configuration:
\* the scenes and the files, if names tell the files apart.
THEOREM DoneStaysShown == Spec => []DoneIsShown
  <1>1. ASSUME DeployInv, ShownInv PROVE DoneIsShown
    <2> DEFINE r == dep[last]
    <2>1. SUFFICES ASSUME last # None, r.status \in {"SUCCESS", "NO_OP"}, alone, Distinct(r),
                          NamesOf(Wanted(r)) \cap lost = {},
                          r.status = "NO_OP" => \A m \in ModesOf(r) : r.seen[m] # Unread
                   PROVE  Shown(r)
      BY DEF DoneIsShown
    <2>2. DoneKnown(r, scene, live, lost)
      BY <1>1, <2>1 DEF ShownInv, Known
    <2> HIDE DEF r
    <2>3. \A m \in ModesOf(r) : scene[m] = DesiredScene(r.config, m)
      BY <2>1, <2>2 DEF DoneKnown
    <2>4. ASSUME NEW m \in ModesOf(r), NEW a \in Playlist[r.config][m]
          PROVE  live[NameOf[a]] = a
      <3>1. a \in Wanted(r) /\ NameOf[a] \in NamesOf(Wanted(r))
        BY <2>4 DEF Wanted, NamesOf
      <3> QED
        BY <2>1, <2>2, <3>1 DEF DoneKnown, Done
    <2> QED
      BY <2>3, <2>4 DEF Shown
  <1> QED
    BY <1>1, DeployStarts, DeployStep, ShownStarts, ShownStep, PTL DEF Spec

\* A deployment that failed, and that nothing disturbed, left the scenes as it found them, but
\* for a row that it could not read or that held no JSON.
THEOREM FailureKeepsScenes == Spec => []FailureLeavesScenes
  <1>1. ASSUME DeployInv, ShownInv PROVE FailureLeavesScenes
    <2> DEFINE r == dep[last]
    <2>1. SUFFICES ASSUME last # None, r.pc = "ended", r.pipeline = "playlist",
                          r.status \in {"FAILED", "ROLLED_BACK"}, alone, NEW m \in Modes,
                          scene[m] # before[m]
                   PROVE  r.status = "ROLLED_BACK" /\ m \in ModesOf(r)
                          /\ r.seen[m].kind \in {"unread", "garbage"}
      BY DEF FailureLeavesScenes
    <2>2. RowsKnown(r, scene, before) /\ FailureKnown(r, scene, before)
      BY <1>1, <2>1 DEF ShownInv, Known
    <2>3. scene[m] \in Stored /\ before[m] \in Stored
      BY <1>1 DEF DeployInv, DeployTypeOK
    <2> HIDE DEF r
    <2>4. r.status = "ROLLED_BACK" /\ m \in ModesOf(r) /\ m \notin Restorable(r)
      BY <2>1, <2>2 DEF FailureKnown, Same
    <2>5. r.seen[m].kind \notin {"ads", "alien"}
      BY <2>4 DEF Restorable
    <2>6. CASE r.seen[m] = Unread
      BY <2>4, <2>6 DEF Unread, Odd
    <2>7. CASE r.seen[m] = before[m]
      <3>1. \A s \in Stored : s.kind = "absent" => s = Odd("absent")
        BY DEF Stored, Ads, Odd
      <3>2. before[m].kind # "absent"
        BY <2>1, <2>2, <2>3, <3>1 DEF RowsKnown
      <3> QED
        BY <2>3, <2>4, <2>5, <2>7, <3>2 DEF Stored, Ads, Odd
    <2> QED
      BY <2>2, <2>6, <2>7 DEF RowsKnown
  <1> QED
    BY <1>1, DeployStarts, DeployStep, ShownStarts, ShownStep, PTL DEF Spec

\* As long as every deployment could answer for the scenes it left, the version on record is
\* the one on the screen.
THEOREM VersionStaysShown == Spec => []VersionIsShown
  <1>1. ASSUME DeployInv, ShownInv PROVE VersionIsShown
    <2>1. last \in Deployments \cup {None}
      BY <1>1 DEF DeployInv, DeployTypeOK
    <2> QED
      BY <1>1, <2>1, RestOnRecord DEF VersionIsShown, OnRecord
  <1> QED
    BY <1>1, DeployStarts, DeployStep, ShownStarts, ShownStep, PTL DEF Spec
=============================================================================
