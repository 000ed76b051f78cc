------------------------------ MODULE Deployment ------------------------------
(***************************************************************************)
(* The single-cashbox backend (backend/src): the deployments of one        *)
(* cashbox.  A deployment brings the playlists of a configuration to the   *)
(* cashbox: the 17 steps of services/deployment_service.py ("playlist"),   *)
(* or the steps of services/split_deploy_service.py, which brings a single *)
(* banner for the 50/50 mode ("banner").                                   *)
(*                                                                         *)
(* An action is one command sent to the cashbox with the local work that   *)
(* follows it; any number of deployments interleave, since nothing takes   *)
(* the advisory lock of core/database.py.  Progress rows and the session,  *)
(* which the caller commits, are left out.                                 *)
(***************************************************************************)
EXTENDS Naturals, FiniteSets

CONSTANTS
  Deployments, \* the deployments that may be run
  Configs,     \* the versions of the configuration (ad_configurations)
  Media,       \* the media assets; each stands for its content too (sha256)
  Names,       \* the file names
  NameOf,      \* the file name of each media asset; several may share one
  Playlist,    \* the media of each configuration's playlist in each mode
  AtFirst,     \* the scenes there may be at first, with the version on record: that of an
               \* installation that is gone, if any
  None,        \* no version, no file
  MaxFaults    \* bound on the commands that fail and the processes that die

Modes == {"full", "split"}

VARIABLES
  known,         \* media_assets: the media that were uploaded
  central,       \* the server's storage: the content under each file name
  live,          \* the cashbox's uploads directory
  staging,       \* its staging directory, for each deployment
  scene,         \* the two advertising rows of gs.db
  actualVersion, \* cashbox.actual_version
  dep,           \* the deployments
  late,          \* updates that timed out and may still be carried out
  faults,        \* the faults so far
  last,          \* history: the deployment that began last
  before,        \* history: the scenes when it began
  alone,         \* history: nothing else has touched the scenes since
  lost,          \* history: names of files whose move failed unnoticed
  calm           \* history: every deployment so far left a scene it can answer for

cashbox == <<live, staging, scene, late>>
history == <<last, before, alone, lost, calm>>
vars == <<known, central, cashbox, actualVersion, dep, faults, history>>

\* A scene names files if it follows the schema ("ads"); otherwise it is JSON of another
\* shape, no JSON, a row that does not exist, or one that could not be read.
Ads(names) == [kind |-> "ads", names |-> names]
Odd(kind)  == [kind |-> kind, names |-> {}]
Unread     == Odd("unread")
Stored == {Ads(ns) : ns \in SUBSET Names} \cup {Odd(k) : k \in {"alien", "garbage", "absent"}}

ASSUME DeploymentAssumption ==
  /\ NameOf \in [Media -> Names]
  /\ Playlist \in [Configs -> [Modes -> SUBSET Media]]
  /\ AtFirst \subseteq [scene : [Modes -> {Ads({}), Odd("alien"), Odd("garbage"), Odd("absent")}],
                        version : Configs \cup {None}]
  /\ None \notin Media \cup Configs \cup Deployments
  /\ MaxFaults \in Nat

Statuses == {"PENDING", "RUNNING", "VERIFYING", "SUCCESS", "NO_OP", "FAILED", "ROLLING_BACK",
             "ROLLED_BACK", "CANCELLED", "FAILED_MANUAL_INTERVENTION"}

Pcs == {"none", "connect", "inventory", "read", "decide", "stage", "check", "promote",
        "write", "seal", "reload", "verify", "readback",
        "cleanup", "restore", "resume", "ended", "dead"}

\* A deployment: "todo" is what is left of the step's modes, "need" the media to send,
\* "had" the version on record when it began, "seen" the scenes read in step 5,
\* "stable" that the process is the one of step 3, "sealed" that the other tables are as in
\* step 4, "snapshot" that step 9 was passed.
Fresh == [pc |-> "none", status |-> "PENDING", pipeline |-> "playlist", config |-> None,
          had |-> None, todo |-> {}, need |-> {}, seen |-> [m \in Modes |-> Unread],
          stable |-> FALSE, sealed |-> FALSE, snapshot |-> FALSE]

\* A deployment that is over keeps its status; what it worked with is gone.
Ended(r, status) == [r EXCEPT !.pc = "ended", !.status = status, !.had = None, !.todo = {},
                              !.need = {}, !.stable = FALSE, !.sealed = FALSE, !.snapshot = FALSE]

\* The modes a deployment is about and the media it wants there.
ModesOf(r) == IF r.pipeline = "banner" THEN {"split"}
                ELSE {m \in Modes : Playlist[r.config][m] # {}}
Wanted(r)  == UNION {Playlist[r.config][m] : m \in ModesOf(r)}
NamesOf(set) == {NameOf[a] : a \in set}

\* Full before split, wherever a step goes through the modes.
First(todo) == IF "full" \in todo THEN "full" ELSE "split"

Running(d) == dep[d].pc \notin {"none", "ended", "dead"}

Init ==
  /\ known = {}
  /\ central = [n \in Names |-> None]
  /\ live = [n \in Names |-> None]
  /\ staging = [d \in Deployments |-> [n \in Names |-> None]]
  /\ \E f \in AtFirst : scene = f.scene /\ actualVersion = f.version
  /\ dep = [d \in Deployments |-> Fresh]
  /\ late = {}
  /\ faults = 0
  /\ last = None
  /\ before = scene
  /\ alone = TRUE
  /\ lost = {}
  /\ calm = (actualVersion = None)

Fault   == faults < MaxFaults /\ faults' = faults + 1
NoFault == faults' = faults

-----------------------------------------------------------------------------
(* The media library of this backend.                                      *)

\* A file is stored under its name, over the one another media asset may have there; a
\* content that is known already is not stored again.
Upload(a) ==
  /\ a \notin known
  /\ known' = known \cup {a}
  /\ central' = [central EXCEPT ![NameOf[a]] = a]
  /\ UNCHANGED <<cashbox, actualVersion, dep, faults, history>>

-----------------------------------------------------------------------------
(* The scenes.                                                             *)

DesiredScene(c, m) == Ads(NamesOf(Playlist[c][m]))

\* Only a scene that follows the schema can be written.
ParseScene(s) == s.kind = "ads"

\* A row that does not exist is not created.
Updated(rows, m, s) == IF rows[m].kind = "absent" THEN rows ELSE [rows EXCEPT ![m] = s]

\* An update that is refused, or meets a locked database four times, has no effect; one
\* that times out may be carried out later.
UpdateDone(m, s)  == ParseScene(s) /\ scene' = Updated(scene, m, s) /\ late' = late
UpdateFails(m, s) == scene' = scene /\ (late' = late \/ late' = late \cup {<<m, s>>})

Land(l) ==
  /\ late' = late \ {l}
  /\ scene' = Updated(scene, l[1], l[2])
  /\ alone' = FALSE
  /\ calm' = FALSE
  /\ UNCHANGED <<known, central, live, staging, actualVersion, dep, faults, last, before, lost>>

\* mutant: a scene that is not one of ours is not restored.
RestorableAds(r) == {m \in ModesOf(r) : r.seen[m].kind = "ads"}

\* What step 9 can restore: a scene that was read and is JSON.
Restorable(r) == {m \in ModesOf(r) : r.seen[m].kind \in {"ads", "alien"}}

-----------------------------------------------------------------------------
(* Failing.                                                                *)

Goto(d, pc) == dep' = [dep EXCEPT ![d].pc = pc]

\* Where the handler of an exception begins.  The 17 steps clean up first.  The banner
\* restores its scene, if it can, and calls a cleanup that does not exist.
BannerHandler(r) == IF r.snapshot /\ Restorable(r) # {} THEN "restore" ELSE "ended"

Handler(r) == IF r.pipeline = "playlist" THEN "cleanup" ELSE BannerHandler(r)

Raised(r) ==
  IF Handler(r) = "ended" THEN Ended(r, "FAILED")
    ELSE [r EXCEPT !.status = "FAILED", !.pc = Handler(r), !.need = {},
                   !.stable = FALSE, !.sealed = FALSE,
                   !.todo = IF r.snapshot THEN Restorable(r) ELSE {}]

\* The configuration's old scene is not put back.
Unrestored(r) == r.snapshot /\ Restorable(r) # ModesOf(r)

Raise(d) ==
  /\ dep' = [dep EXCEPT ![d] = Raised(dep[d])]
  /\ calm' = (calm /\ ~Unrestored(dep[d]))

\* A command without effect that fails.
Fails(d) ==
  /\ Fault
  /\ Raise(d)
  /\ UNCHANGED <<known, central, cashbox, actualVersion, last, before, alone, lost>>

-----------------------------------------------------------------------------
(* The steps.                                                              *)

\* Steps 1 and 2.
InvalidBanner(r) == Cardinality(Playlist[r.config]["split"]) # 1

Invalid(r) == IF r.pipeline = "banner" THEN InvalidBanner(r) ELSE ModesOf(r) = {}

Start(d, c, pipeline) ==
  LET r == [Fresh EXCEPT !.status = "RUNNING", !.pipeline = pipeline, !.config = c,
                     !.had = actualVersion] IN
  /\ dep[d].pc = "none"
  /\ Playlist[c]["full"] \cup Playlist[c]["split"] \subseteq known
  /\ IF Invalid(r)
       THEN NoFault /\ dep' = [dep EXCEPT ![d] = Ended(r, "FAILED")]
       ELSE \/ NoFault /\ dep' = [dep EXCEPT ![d] = [r EXCEPT !.pc = "connect"]]
            \/ Fault /\ dep' = [dep EXCEPT ![d] = Ended(r, "FAILED")]
  /\ last' = d
  /\ before' = scene
  /\ alone' = (\A e \in Deployments : ~Running(e))
  /\ calm' = (calm /\ alone')
  /\ UNCHANGED <<known, central, cashbox, actualVersion, lost>>

\* Step 3: the connection, the ping and the process the screen runs in.
Connect(d) ==
  /\ dep[d].pc = "connect"
  /\ \/ /\ NoFault
        /\ dep' = [dep EXCEPT ![d].pc = "inventory", ![d].stable = TRUE]
        /\ UNCHANGED <<known, central, cashbox, actualVersion, history>>
     \/ Fails(d)

\* mutant: a file that is not there yet is not sent.
OutdatedOnly(wanted) == {a \in wanted : live[NameOf[a]] \notin {a, None}}

\* The listing of the uploads directory: the files there with their hashes.
Listed == [n \in {k \in Names : live[k] # None} |-> live[n]]

\* Step 4 and the comparison of step 5: a file is there, missing or outdated.
MediaDiff(wanted) ==
  LET missing  == {a \in wanted : NameOf[a] \notin DOMAIN Listed}
      outdated == {a \in wanted \ missing : Listed[NameOf[a]] # a} IN
  missing \cup outdated

Inventory(d) ==
  /\ dep[d].pc = "inventory"
  /\ \/ /\ NoFault
        /\ dep' = [dep EXCEPT ![d].pc = "read", ![d].todo = ModesOf(dep[d]),
                              ![d].need = MediaDiff(Wanted(dep[d])), ![d].sealed = TRUE]
        /\ UNCHANGED <<known, central, cashbox, actualVersion, history>>
     \/ Fails(d)

\* Step 5: a read that fails is taken for none.
Read(d) ==
  LET r == dep[d]
      m == First(r.todo)
      Got(s) == dep' = [dep EXCEPT ![d].seen[m] = s, ![d].todo = @ \ {m},
                                   ![d].pc = IF r.todo = {m} THEN "decide" ELSE "read"] IN
  /\ r.pc = "read"
  /\ \/ NoFault /\ Got(scene[m])
     \/ Fault /\ Got(Unread)
  /\ UNCHANGED <<known, central, cashbox, actualVersion, history>>

\* mutant: a scene that differs does not matter when version and files agree.
NoopByVersion(r) == r.had = r.config /\ r.need = {}

\* A scene that was not read is taken to match.
IsIdempotentNoop(r) ==
  /\ r.had = r.config
  /\ r.need = {}
  /\ \A m \in ModesOf(r) : r.seen[m] \in {Unread, DesiredScene(r.config, m)}

Decide(d) ==
  LET r == dep[d] IN
  /\ r.pc = "decide"
  /\ dep' = [dep EXCEPT ![d] = IF IsIdempotentNoop(r)
                                 THEN Ended(r, "NO_OP")
                                 ELSE [r EXCEPT !.pc = "stage"]]
  /\ UNCHANGED <<known, central, cashbox, actualVersion, faults, history>>

Sent(d, names) ==
  staging' = [staging EXCEPT ![d] = [n \in Names |-> IF n \in names THEN central[n] ELSE @[n]]]

\* Step 6: the missing and outdated files, as the server has them now.
Stage(d) ==
  LET r == dep[d] IN
  /\ r.pc = "stage"
  /\ \/ NoFault /\ Sent(d, NamesOf(r.need)) /\ Goto(d, "check") /\ calm' = calm
     \/ Fault /\ (\E names \in SUBSET NamesOf(r.need) : Sent(d, names)) /\ Raise(d)
  /\ UNCHANGED <<known, central, live, scene, late, actualVersion, last, before, alone, lost>>

\* Step 7.
StagedHash(d, n) == staging[d][n]

HashesMatch(d) == \A a \in dep[d].need : StagedHash(d, NameOf[a]) = a

Check(d) ==
  /\ dep[d].pc = "check"
  /\ \/ /\ NoFault
        /\ IF HashesMatch(d) THEN Goto(d, "promote") /\ calm' = calm ELSE Raise(d)
        /\ UNCHANGED <<known, central, cashbox, actualVersion, last, before, alone, lost>>
     \/ Fails(d)

\* Step 8: one file after the other.  The exit status is that of the command after the
\* move, so that a move that fails (a file in use) may pass unnoticed.
StagingMove(d, a) ==
  /\ live' = [live EXCEPT ![NameOf[a]] = staging[d][NameOf[a]]]
  /\ staging' = [staging EXCEPT ![d][NameOf[a]] = None]

Promote(d, a) ==
  /\ dep[d].pc = "promote"
  /\ a \in dep[d].need
  /\ \/ /\ NoFault /\ StagingMove(d, a) /\ lost' = lost \ {NameOf[a]}
        /\ dep' = [dep EXCEPT ![d].need = @ \ {a}]
        /\ UNCHANGED <<known, central, scene, late, actualVersion, last, before, alone, calm>>
     \/ /\ Fault /\ lost' = lost \cup {NameOf[a]}
        /\ dep' = [dep EXCEPT ![d].need = @ \ {a}]
        /\ UNCHANGED <<known, central, cashbox, actualVersion, last, before, alone, calm>>
     \/ Fails(d)

\* Steps 9 and 10: the scenes of step 5 are kept for the rollback.
TakeSnapshot(d) ==
  /\ dep[d].pc = "promote"
  /\ dep[d].need = {}
  /\ dep' = [dep EXCEPT ![d].pc = "write", ![d].snapshot = TRUE, ![d].todo = ModesOf(dep[d])]
  /\ UNCHANGED <<known, central, cashbox, actualVersion, faults, history>>

\* Steps 11 and 12: two updates, each a transaction of its own.
Write(d) ==
  LET r == dep[d]
      m == First(r.todo)
      s == DesiredScene(r.config, m)
      after == IF r.pipeline = "banner" THEN "seal" ELSE "reload" IN
  /\ r.pc = "write"
  /\ \/ /\ NoFault /\ UpdateDone(m, s) /\ calm' = calm
        /\ dep' = [dep EXCEPT ![d].todo = @ \ {m},
                              ![d].pc = IF r.todo = {m} THEN after ELSE "write"]
     \/ Fault /\ UpdateFails(m, s) /\ Raise(d)
  /\ UNCHANGED <<known, central, live, staging, actualVersion, last, before, alone, lost>>

\* A check that raises when it does not hold; "changes" is the deployment's row after it.
Gate(d, pc, holds, row) ==
  /\ dep[d].pc = pc
  /\ \/ /\ NoFault
        /\ IF holds THEN dep' = [dep EXCEPT ![d] = row] /\ calm' = calm ELSE Raise(d)
        /\ UNCHANGED <<known, central, cashbox, actualVersion, last, before, alone, lost>>
     \/ Fails(d)

Unmodified(r) == r.sealed

\* The banner's step 12: the tables that are not about advertising.
VerifyBoundary(d) == Gate(d, "seal", Unmodified(dep[d]), [dep[d] EXCEPT !.pc = "reload"])

\* Step 13.  The 17 steps are in VERIFYING from here.
TouchReload(d) ==
  Gate(d, "reload", TRUE,
       [dep[d] EXCEPT !.pc = "verify",
                      !.status = IF @ = "RUNNING" /\ dep[d].pipeline = "playlist"
                                   THEN "VERIFYING" ELSE @])

SameProcess(r) == r.stable

\* Steps 14 and 15.
VerifyStability(d) ==
  Gate(d, "verify", SameProcess(dep[d]),
       [dep[d] EXCEPT !.pc = "readback", !.todo = ModesOf(dep[d])])

\* mutant: what is in the row does not matter.
MatchesAlways(r, m) == m \in ModesOf(r)

Matches(r, m) == scene[m] = DesiredScene(r.config, m)

\* The version is an attribute of the row read at the beginning: nothing is written when it
\* is the one that was read.
Recorded(r) == IF r.had = r.config THEN actualVersion ELSE r.config

\* Steps 16 and 17.  A banner's version stands for the whole configuration.
ReadBack(d) ==
  LET r == dep[d]
      m == First(r.todo) IN
  /\ r.pc = "readback"
  /\ \/ /\ NoFault
        /\ IF ~Matches(r, m)
             THEN Raise(d) /\ actualVersion' = actualVersion
             ELSE IF r.todo # {m}
               THEN /\ dep' = [dep EXCEPT ![d].todo = @ \ {m}]
                    /\ UNCHANGED <<actualVersion, calm>>
               ELSE /\ dep' = [dep EXCEPT ![d] = Ended(r, "SUCCESS")]
                    /\ actualVersion' = Recorded(r)
                    /\ calm' = (calm /\ (r.pipeline = "banner" => Playlist[r.config]["full"] = {}))
        /\ UNCHANGED <<known, central, cashbox, last, before, alone, lost>>
     \/ Fails(d)

-----------------------------------------------------------------------------
(* The handler of an exception.                                            *)

Purged(d) == staging' = [staging EXCEPT ![d] = [n \in Names |-> None]]

\* Errors of the removal are swallowed.
Cleanup(d) ==
  LET r == dep[d] IN
  /\ r.pc = "cleanup"
  /\ \/ NoFault /\ Purged(d)
     \/ Fault /\ staging' = staging
  /\ dep' = [dep EXCEPT ![d] =
       IF ~r.snapshot THEN Ended(r, "FAILED")
         ELSE [r EXCEPT !.status = "ROLLING_BACK",
                        !.pc = IF r.todo = {} THEN "resume" ELSE "restore"]]
  /\ UNCHANGED <<known, central, live, scene, late, actualVersion, history>>

\* mutant: a status the table does not know.
GiveUpAlone(d) ==
  /\ dep' = [dep EXCEPT ![d] = Ended(@, "MANUAL_INTERVENTION")]
  /\ calm' = FALSE

\* A rollback that fails: the 17 steps ask for help, the banner stays FAILED.
GiveUp(d) ==
  /\ dep' = [dep EXCEPT ![d] =
       Ended(@, IF @.pipeline = "playlist" THEN "FAILED_MANUAL_INTERVENTION" ELSE "FAILED")]
  /\ calm' = FALSE

Restore(d) ==
  LET r == dep[d]
      m == First(r.todo) IN
  /\ r.pc = "restore"
  /\ \/ /\ NoFault /\ UpdateDone(m, r.seen[m]) /\ calm' = calm
        /\ dep' = [dep EXCEPT ![d].todo = @ \ {m},
                              ![d].pc = IF r.todo = {m} THEN "resume" ELSE "restore"]
     \/ /\ NoFault /\ ~ParseScene(r.seen[m]) /\ scene' = scene /\ late' = late
        /\ GiveUp(d)
     \/ Fault /\ UpdateFails(m, r.seen[m]) /\ GiveUp(d)
  /\ UNCHANGED <<known, central, live, staging, actualVersion, last, before, alone, lost>>

Resume(d) ==
  /\ dep[d].pc = "resume"
  /\ \/ /\ NoFault /\ calm' = calm
        /\ dep' = [dep EXCEPT ![d] =
             Ended(@, IF @.pipeline = "playlist" THEN "ROLLED_BACK" ELSE "FAILED")]
     \/ Fault /\ GiveUp(d)
  /\ UNCHANGED <<known, central, cashbox, actualVersion, last, before, alone, lost>>

-----------------------------------------------------------------------------
(* What happens around a deployment.                                       *)

\* The server's process dies: nothing goes on with the deployment.
Die(d) ==
  /\ Running(d)
  /\ Fault
  /\ dep' = [dep EXCEPT ![d] = [Ended(@, @.status) EXCEPT !.pc = "dead"]]
  /\ calm' = FALSE
  /\ UNCHANGED <<known, central, cashbox, actualVersion, last, before, alone, lost>>

\* GuestScreen is started anew, or writes one of its settings.
Restart ==
  /\ dep' = [d \in Deployments |-> [dep[d] EXCEPT !.stable = @ /\ ~Running(d)]]
  /\ UNCHANGED <<known, central, cashbox, actualVersion, faults, history>>

SettingsWritten ==
  /\ dep' = [d \in Deployments |-> [dep[d] EXCEPT !.sealed = @ /\ ~Running(d)]]
  /\ UNCHANGED <<known, central, cashbox, actualVersion, faults, history>>

\* The 17 steps, and their handler.
PlaylistStep(d) ==
  /\ dep[d].pipeline = "playlist"
  /\ \/ Connect(d) \/ Inventory(d) \/ Read(d) \/ Decide(d) \/ Stage(d) \/ Check(d)
     \/ \E a \in Media : Promote(d, a)
     \/ TakeSnapshot(d) \/ Write(d) \/ TouchReload(d) \/ VerifyStability(d) \/ ReadBack(d)
     \/ Cleanup(d) \/ Restore(d) \/ Resume(d)

\* The banner checks the other tables besides, and does not clean up.
BannerStep(d) ==
  /\ dep[d].pipeline = "banner"
  /\ \/ Connect(d) \/ Inventory(d) \/ Read(d) \/ Decide(d) \/ Stage(d) \/ Check(d)
     \/ \E a \in Media : Promote(d, a)
     \/ TakeSnapshot(d) \/ Write(d) \/ VerifyBoundary(d) \/ TouchReload(d)
     \/ VerifyStability(d) \/ ReadBack(d)
     \/ Restore(d) \/ Resume(d)

Next ==
  \/ \E a \in Media : Upload(a)
  \/ \E d \in Deployments, c \in Configs, p \in {"playlist", "banner"} : Start(d, c, p)
  \/ \E d \in Deployments : PlaylistStep(d) \/ BannerStep(d) \/ Die(d)
  \/ \E l \in late : Land(l)
  \/ Restart
  \/ SettingsWritten

Spec == Init /\ [][Next]_vars

-----------------------------------------------------------------------------
(* Properties.                                                             *)

Rows == [pc : Pcs, status : Statuses, pipeline : {"playlist", "banner"},
         config : Configs \cup {None}, had : Configs \cup {None}, todo : SUBSET Modes,
         need : SUBSET Media, seen : [Modes -> Stored \cup {Unread}], stable : BOOLEAN,
         sealed : BOOLEAN, snapshot : BOOLEAN]

DeployTypeOK ==
  /\ known \subseteq Media
  /\ central \in [Names -> Media \cup {None}]
  /\ live \in [Names -> Media \cup {None}]
  /\ staging \in [Deployments -> [Names -> Media \cup {None}]]
  /\ scene \in [Modes -> Stored]
  /\ actualVersion \in Configs \cup {None}
  /\ dep \in [Deployments -> Rows]
  /\ late \subseteq (Modes \X Stored)
  /\ faults \in 0..MaxFaults
  /\ last \in Deployments \cup {None}
  /\ before \in [Modes -> Stored]
  /\ alone \in BOOLEAN
  /\ lost \subseteq Names
  /\ calm \in BOOLEAN

\* Whatever deployments overlap, die, or have updates carried out late: a file that a scene
\* names is on the cashbox, unless its move failed unnoticed.  No update is sent before
\* the files of step 6 are in place, and a rollback only brings back what was shown.
ShownFilesExist ==
  \A m \in Modes : \A n \in scene[m].names \ lost : live[n] # None

\* Files of one name are told apart.
Distinct(r) == \A a, b \in Wanted(r) : NameOf[a] = NameOf[b] => a = b

Shown(r) == \A m \in ModesOf(r) :
  /\ scene[m] = DesiredScene(r.config, m)
  /\ \A a \in Playlist[r.config][m] : live[NameOf[a]] = a

\* The last deployment ended as SUCCESS or NO_OP, and nothing else touched the scenes: the
\* scenes and files are the configuration's, if its files can be told apart by name, no
\* move was lost and, for a NO_OP, the scenes were read.
DoneIsShown ==
  LET r == dep[last] IN
  /\ last # None
  /\ r.status \in {"SUCCESS", "NO_OP"}
  /\ alone
  /\ Distinct(r)
  /\ NamesOf(Wanted(r)) \cap lost = {}
  /\ r.status = "NO_OP" => \A m \in ModesOf(r) : r.seen[m] # Unread
  => Shown(r)

\* The last deployment failed, and nothing else touched the scenes: they are as they were
\* when it began, but for a row that was not read or not JSON and could not be restored.
FailureLeavesScenes ==
  LET r == dep[last] IN
  /\ last # None
  /\ r.pc = "ended"
  /\ r.pipeline = "playlist"
  /\ r.status \in {"FAILED", "ROLLED_BACK"}
  /\ alone
  => \A m \in Modes :
       \/ scene[m] = before[m]
       \/ /\ r.status = "ROLLED_BACK"
          /\ m \in ModesOf(r)
          /\ r.seen[m].kind \in {"unread", "garbage"}

\* After any number of deployments, done or rolled back, the version on record is the one
\* on the screen: as long as no two overlapped, none died or could not restore a scene,
\* no update came late, and no banner stood for a configuration with a full playlist.
VersionIsShown ==
  (calm /\ actualVersion # None /\ \A d \in Deployments : ~Running(d))
    => \A m \in Modes : Playlist[actualVersion][m] # {}
                           => scene[m] = DesiredScene(actualVersion, m)
=============================================================================
