---------------------------- MODULE MediaLibrary ----------------------------
(***************************************************************************)
(* The media library and the templates that use it: the handlers of        *)
(* api/v1/media.py and api/v1/advertising_blocks.py that add, replace and  *)
(* delete assets or link them to templates, the reference count of         *)
(* services/media_gc.py, and the snapshot that a publication takes.        *)
(*                                                                         *)
(* Files are addressed by their content, so that several assets may share  *)
(* one.  A handler runs in steps, one from each await to the next that     *)
(* matters, and any number of handlers interleave; the database locks no   *)
(* row between them.  A template's playlist is the set of its assets.      *)
(***************************************************************************)
EXTENDS Naturals, FiniteSets

CONSTANTS
  Assets,      \* the identifiers of rows of media_assets
  Files,       \* the contents a file can have (stored_name, s3_key, sha256)
  Blocks,      \* the identifiers of templates (advertising_blocks)
  Requests,    \* the API calls that may be in progress at a time
  None,        \* no asset, file or template
  MaxDispatches \* bound on the publications that take a snapshot

ASSUME LibraryAssumption ==
  /\ None \notin Assets \cup Files \cup Blocks
  /\ MaxDispatches \in Nat

VARIABLES
  asset,       \* media_assets: "unused", "active" or "deleted" (is_deleted)
  file,        \* the file of each asset that has a row
  disk,        \* the files in the storage directories
  block,       \* advertising_blocks: "unused", "live" or "gone"
  playlist,    \* playlist_items: the assets of each template
  snapshots,   \* the dispatched batches' snapshots, each the files it names
  req,         \* the calls in progress
  spoilt,      \* history: assets and files that met a race or a failed write
  leaky        \* history: files left behind by a lost update, a dead call or a failed removal

vars == <<asset, file, disk, block, playlist, snapshots, req, spoilt, leaky>>

Active == {a \in Assets : asset[a] = "active"}
Live   == {b \in Blocks : block[b] = "live"}
UsersOf(f) == {a \in Active : file[a] = f}
BlocksWith(a) == {b \in Blocks : a \in playlist[b]}

\* A call: the asset it works on, the file it has stored, the file it may remove, the
\* template it updates, the assets it links, and the templates it unlinks from.
Idle == [pc |-> "idle", asset |-> None, file |-> None, old |-> None, block |-> None,
         links |-> {}, from |-> {}]

Calls == [pc : {"idle", "storing", "replacing", "unlinking", "marking", "counting",
                "removing", "creating", "updating"},
          asset : Assets \cup {None}, file : Files \cup {None}, old : Files \cup {None},
          block : Blocks \cup {None}, links : SUBSET Assets, from : SUBSET Blocks]

Begin(r, call) == req[r].pc = "idle" /\ req' = [req EXCEPT ![r] = call]
At(r, pc)      == req[r].pc = pc
End(r)         == req' = [req EXCEPT ![r] = Idle]

-----------------------------------------------------------------------------
(* Races: a file stored for one call while another is about to remove it,  *)
(* an asset linked by one call while another is about to delete it.        *)

Stored(r)    == IF req[r].pc \in {"storing", "replacing"} THEN {req[r].file} ELSE {}
Condemned(r) == IF req[r].pc \in {"counting", "removing"} THEN {req[r].old} ELSE {}
Linked(r)    == IF req[r].pc \in {"creating", "updating"} THEN req[r].links ELSE {}
Doomed(r)    == IF req[r].pc \in {"unlinking", "marking"} THEN {req[r].asset} ELSE {}

Clashes ==
  {x \in Assets \cup Files : \E r, q \in Requests :
     x \in (Stored(r) \cap Condemned(q)) \cup (Linked(r) \cap Doomed(q))}

Spoil(failed) == spoilt' = spoilt \cup Clashes' \cup failed

Init ==
  /\ asset = [a \in Assets |-> "unused"]
  /\ file = [a \in Assets |-> None]
  /\ disk = {}
  /\ block = [b \in Blocks |-> "unused"]
  /\ playlist = [b \in Blocks |-> {}]
  /\ snapshots = {}
  /\ req = [r \in Requests |-> Idle]
  /\ spoilt = {}
  /\ leaky = {}

-----------------------------------------------------------------------------
(* Uploading and replacing.  A write that fails is swallowed.              *)

Write(f) ==
  \/ disk' = disk \cup {f} /\ Spoil({})
  \/ disk' = disk \ {f} /\ Spoil({f})

\* An upload stores nothing when an active asset has the content already, and writes
\* no file that exists.
Upload(r, f) ==
  /\ UsersOf(f) = {}
  /\ Begin(r, [Idle EXCEPT !.pc = "storing", !.file = f])
  /\ IF f \in disk THEN disk' = disk /\ Spoil({}) ELSE Write(f)
  /\ UNCHANGED <<asset, file, block, playlist, snapshots, leaky>>

CommitUpload(r, a) ==
  /\ At(r, "storing")
  /\ asset[a] = "unused"
  /\ asset' = [asset EXCEPT ![a] = "active"]
  /\ file' = [file EXCEPT ![a] = req[r].file]
  /\ End(r)
  /\ Spoil({})
  /\ UNCHANGED <<disk, block, playlist, snapshots, leaky>>

Replace(r, a, f) ==
  /\ a \in Active
  /\ Begin(r, [Idle EXCEPT !.pc = "replacing", !.asset = a, !.file = f, !.old = file[a]])
  /\ Write(f)
  /\ UNCHANGED <<asset, file, block, playlist, snapshots, leaky>>

\* mutant: the replaced file is forgotten.
CommitReplaceOnly(r) ==
  LET c == req[r] IN
  /\ At(r, "replacing")
  /\ file' = [file EXCEPT ![c.asset] = c.file]
  /\ End(r)
  /\ Spoil({})
  /\ UNCHANGED <<asset, disk, block, playlist, snapshots, leaky>>

\* The commit writes the columns that the call changed, whatever the row has become.
Stale(r) == LET c == req[r] IN asset[c.asset] # "active" \/ file[c.asset] # c.old

CommitReplace(r) ==
  LET c == req[r] IN
  /\ At(r, "replacing")
  /\ IF c.file # c.old
       THEN /\ file' = [file EXCEPT ![c.asset] = c.file]
            /\ req' = [req EXCEPT ![r].pc = "counting", ![r].file = None]
       ELSE /\ file' = file
            /\ End(r)
  /\ leaky' = IF Stale(r) THEN leaky \cup {file[c.asset], c.file} ELSE leaky
  /\ Spoil({})
  /\ UNCHANGED <<asset, disk, block, playlist, snapshots>>

-----------------------------------------------------------------------------
(* Deleting: refused while a template uses the asset, unless it is forced, *)
(* when the items that were found are deleted first.                       *)

Delete(r, a, force) ==
  /\ a \in Active
  /\ BlocksWith(a) = {} \/ force
  /\ Begin(r, [Idle EXCEPT !.pc = IF BlocksWith(a) = {} THEN "marking" ELSE "unlinking",
                           !.asset = a, !.old = file[a], !.from = BlocksWith(a)])
  /\ Spoil({})
  /\ UNCHANGED <<asset, file, disk, block, playlist, snapshots, leaky>>

Unlink(r) ==
  LET c == req[r] IN
  /\ At(r, "unlinking")
  /\ playlist' = [b \in Blocks |-> IF b \in c.from THEN playlist[b] \ {c.asset}
                                                   ELSE playlist[b]]
  /\ req' = [req EXCEPT ![r].pc = "marking", ![r].from = {}]
  /\ Spoil({})
  /\ UNCHANGED <<asset, file, disk, block, snapshots, leaky>>

MarkDeleted(r) ==
  LET c == req[r] IN
  /\ At(r, "marking")
  /\ asset' = [asset EXCEPT ![c.asset] = "deleted"]
  /\ req' = [req EXCEPT ![r].pc = "counting"]
  /\ leaky' = IF file[c.asset] # c.old THEN leaky \cup {file[c.asset]} ELSE leaky
  /\ Spoil({})
  /\ UNCHANGED <<file, disk, block, playlist, snapshots>>

\* mutant: remove the file without counting.
CountNothing(r) ==
  /\ At(r, "counting")
  /\ req' = [req EXCEPT ![r].pc = "removing"]
  /\ Spoil({})
  /\ UNCHANGED <<asset, file, disk, block, playlist, snapshots, leaky>>

\* get_s3_reference_count: the other active assets with the file; snapshots do not count.
Count(r) ==
  LET c == req[r] IN
  /\ At(r, "counting")
  /\ IF UsersOf(c.old) \subseteq {c.asset}
       THEN req' = [req EXCEPT ![r].pc = "removing"]
       ELSE End(r)
  /\ Spoil({})
  /\ UNCHANGED <<asset, file, disk, block, playlist, snapshots, leaky>>

\* A removal that fails is logged, and the file stays.
Remove(r) ==
  LET old == req[r].old IN
  /\ At(r, "removing")
  /\ \/ disk' = disk \ {old} /\ leaky' = leaky \ {old}
     \/ disk' = disk /\ leaky' = leaky \cup (disk \cap {old})
  /\ End(r)
  /\ Spoil({})
  /\ UNCHANGED <<asset, file, block, playlist, snapshots>>

-----------------------------------------------------------------------------
(* Templates.  Creating and updating check every asset, duplicating does   *)
(* not; the rows are written later, in one commit.                         *)

Create(r, links) ==
  /\ links # {} /\ links \subseteq Active
  /\ Begin(r, [Idle EXCEPT !.pc = "creating", !.links = links])
  /\ Spoil({})
  /\ UNCHANGED <<asset, file, disk, block, playlist, snapshots, leaky>>

Duplicate(r, source) ==
  /\ source \in Live
  /\ Begin(r, [Idle EXCEPT !.pc = "creating", !.links = playlist[source]])
  /\ Spoil({})
  /\ UNCHANGED <<asset, file, disk, block, playlist, snapshots, leaky>>

CommitCreate(r, b) ==
  /\ At(r, "creating")
  /\ block[b] = "unused"
  /\ block' = [block EXCEPT ![b] = "live"]
  /\ playlist' = [playlist EXCEPT ![b] = req[r].links]
  /\ End(r)
  /\ Spoil({})
  /\ UNCHANGED <<asset, file, disk, snapshots, leaky>>

\* mutant: the assets are not checked.
UpdateUnchecked(r, b, links) ==
  /\ b \in Live
  /\ links # {} /\ \A a \in links : asset[a] # "unused"
  /\ Begin(r, [Idle EXCEPT !.pc = "updating", !.block = b, !.links = links])
  /\ Spoil({})
  /\ UNCHANGED <<asset, file, disk, block, playlist, snapshots, leaky>>

Update(r, b, links) ==
  /\ b \in Live
  /\ links # {} /\ links \subseteq Active
  /\ Begin(r, [Idle EXCEPT !.pc = "updating", !.block = b, !.links = links])
  /\ Spoil({})
  /\ UNCHANGED <<asset, file, disk, block, playlist, snapshots, leaky>>

\* The update replaces the items, so that a forced deletion which had found the former
\* ones does not reach the new ones.
CommitUpdate(r) ==
  LET c == req[r] IN
  /\ At(r, "updating")
  /\ c.block \in Live
  /\ playlist' = [playlist EXCEPT ![c.block] = c.links]
  /\ req' = [q \in Requests |->
               IF q = r THEN Idle ELSE [req[q] EXCEPT !.from = @ \ {c.block}]]
  /\ Spoil({})
  /\ UNCHANGED <<asset, file, disk, block, snapshots, leaky>>

\* mutant: the items are not deleted with their template.
DeleteBlockOnly(b) ==
  /\ b \in Live
  /\ block' = [block EXCEPT ![b] = "gone"]
  /\ UNCHANGED <<asset, file, disk, playlist, snapshots, req, spoilt, leaky>>

DeleteBlock(b) ==
  /\ b \in Live
  /\ block' = [block EXCEPT ![b] = "gone"]
  /\ playlist' = [playlist EXCEPT ![b] = {}]
  /\ UNCHANGED <<asset, file, disk, snapshots, req, spoilt, leaky>>

Dispatch(b) ==
  /\ b \in Live
  /\ Cardinality(snapshots) < MaxDispatches
  /\ snapshots' = snapshots \cup {{file[a] : a \in playlist[b]}}
  /\ UNCHANGED <<asset, file, disk, block, playlist, req, spoilt, leaky>>

\* An exception, a lost database or the end of the process: the transaction is rolled
\* back, what was written to the disk stays there.
Fail(r) ==
  /\ ~At(r, "idle")
  /\ leaky' = leaky \cup Stored(r) \cup Condemned(r)
  /\ End(r)
  /\ Spoil({})
  /\ UNCHANGED <<asset, file, disk, block, playlist, snapshots>>

-----------------------------------------------------------------------------
Step(r) ==
  \/ \E f \in Files : Upload(r, f)
  \/ \E a \in Assets : CommitUpload(r, a)
  \/ \E a \in Assets, f \in Files : Replace(r, a, f)
  \/ CommitReplace(r)
  \/ \E a \in Assets, force \in BOOLEAN : Delete(r, a, force)
  \/ Unlink(r)
  \/ MarkDeleted(r)
  \/ Count(r)
  \/ Remove(r)
  \/ \E links \in SUBSET Assets : Create(r, links)
  \/ \E b \in Blocks : Duplicate(r, b)
  \/ \E b \in Blocks : CommitCreate(r, b)
  \/ \E b \in Blocks, links \in SUBSET Assets : Update(r, b, links)
  \/ CommitUpdate(r)
  \/ Fail(r)

Next ==
  \/ \E r \in Requests : Step(r)
  \/ \E b \in Blocks : DeleteBlock(b) \/ Dispatch(b)

Spec == Init /\ [][Next]_vars

-----------------------------------------------------------------------------
\* The types: a row's file is a file, and only live templates have items.
TypeOK ==
  /\ asset \in [Assets -> {"unused", "active", "deleted"}]
  /\ file \in [Assets -> Files \cup {None}]
  /\ \A a \in Assets : (asset[a] = "unused") <=> (file[a] = None)
  /\ disk \subseteq Files
  /\ block \in [Blocks -> {"unused", "live", "gone"}]
  /\ playlist \in [Blocks -> SUBSET Assets]
  /\ \A b \in Blocks \ Live : playlist[b] = {}
  /\ snapshots \subseteq SUBSET Files
  /\ req \in [Requests -> Calls]
  /\ spoilt \subseteq Assets \cup Files
  /\ leaky \subseteq Files

\* However assets share files, and whatever sequence of uploads, replacements and
\* deletions has run, the file of an active asset is on the disk; races and failed
\* writes, which spoil a file, are the only exceptions (the reference count).
ActiveFilesKept == \A a \in Active : file[a] \in disk \cup spoilt

\* A template never shows a deleted asset, although deletion checks the templates and
\* the templates check the asset in transactions of their own: only an asset that met
\* the two at once is excepted.
LinkedAreActive == \A b \in Blocks : playlist[b] \subseteq Active \cup spoilt

\* No file is left behind: a file on the disk belongs to an active asset or to a call in
\* progress, unless an update was lost, a call died or its removal failed (each count
\* follows its commit, so that of several deletions the last one removes the file).
NothingLeaks ==
  \A f \in disk : \/ UsersOf(f) # {}
                  \/ \E r \in Requests : f \in Stored(r) \cup Condemned(r)
                  \/ f \in leaky

\* spec.md FR-MED-010: a file is removed only when neither an asset nor the snapshot of
\* a publication refers to it.
ReferencedFilesKept == UNION snapshots \subseteq disk \cup spoilt
=============================================================================
