------------------------------- MODULE AdPlans -------------------------------
(***************************************************************************)
(* The registry of the single-cashbox backend: playlists, numbered         *)
(* configurations, cashboxes and their groups, and which configuration is  *)
(* assigned to what (services/config_service.py, playlist_service.py,      *)
(* playlist_compiler.py, cashbox_service.py, cashbox_status_service.py).   *)
(* The operations that read, decide and write are sessions of two steps:   *)
(* what they have read, and the commit.  The others are one step.          *)
(***************************************************************************)
EXTENDS Naturals, Sequences, FiniteSets

CONSTANTS
  Cashboxes, Groups, Playlists, Sessions,
  None,        \* no group, no playlist
  MaxVersions, \* bound on the configurations
  MaxWrites    \* bound on the writes

ASSUME PlansAssumption ==
  /\ None \notin Cashboxes \cup Groups \cup Playlists
  /\ Cashboxes \cap Groups = {} /\ Groups # {} /\ Playlists # {}
  /\ MaxVersions \in Nat /\ MaxWrites \in Nat

VARIABLES
  playlists,      \* the mode of each playlist and the order of its items; <<>> if absent
  configurations, \* the playlists of each version
  assignments,    \* the version assigned to a cashbox or group, and by which write
  boxes,          \* the cashboxes' rows
  groups,         \* the groups there are
  sessions,       \* what each open session has read
  writes,         \* the writes so far
  since,          \* history: the write that last put a cashbox into its group or set its
                  \* desired version by hand
  raced           \* history: cashboxes and groups two sessions were at at once

planRows == <<playlists, configurations, assignments, boxes, groups>>
planVars == <<planRows, sessions, writes, since, raced>>

AdModes == {"FULL", "SPLIT"}
Statuses == {"ACTIVE", "OFFLINE"}
Unregistered == [group |-> None, desired |-> 0, actual |-> 0, status |-> "none"]
Closed == [op |-> "none"]

Registered(c) == boxes[c].status # "none"
Members(g) == {c \in Cashboxes : boxes[c].group = g}

\* A registry that is in use: one group, and nothing assigned yet.
PlansInit ==
  /\ playlists = [p \in Playlists |-> <<"FULL", <<1, 2>>>>]
  /\ configurations = <<[m \in AdModes |-> IF m = "FULL" THEN CHOOSE p \in Playlists : TRUE
                                             ELSE None]>>
  /\ assignments = {}
  /\ groups = {CHOOSE g \in Groups : TRUE}
  /\ boxes = [c \in Cashboxes |-> [group |-> CHOOSE g \in Groups : TRUE, desired |-> 0,
                                   actual |-> 0, status |-> "ACTIVE"]]
  /\ sessions = [s \in Sessions |-> Closed]
  /\ writes = 0
  /\ since = [c \in Cashboxes |-> 0]
  /\ raced = {}

\* What a session is about: a cashbox, or a group and the members it has read.
Concerns(s) == CASE sessions[s].op = "cashbox" -> {sessions[s].target}
                 [] sessions[s].op = "group" -> {sessions[s].target} \cup DOMAIN sessions[s].read
                 [] OTHER -> {}

UnderWay == UNION {Concerns(s) : s \in Sessions}

Writes == writes < MaxWrites /\ writes' = writes + 1

\* A row changed under sessions that have read it.
Crosses(things) == raced' = raced \cup (things \cap UnderWay)

-----------------------------------------------------------------------------
(* Playlists and configurations.                                           *)

\* A playlist of one banner or of slides, all of the size its mode asks for.
CreatePlaylist(p, mode, items) ==
  /\ playlists[p] = <<>>
  /\ Writes
  /\ playlists' = [playlists EXCEPT ![p] = <<mode, items>>]
  /\ UNCHANGED <<configurations, assignments, boxes, groups, sessions, since, raced>>

\* The positions go below zero first and to 0, 1, ... then, all in one transaction.
ReorderPlaylistItems(p, items) ==
  /\ playlists[p] # <<>>
  /\ Len(items) = Len(playlists[p][2]) /\ items # playlists[p][2]
  /\ Writes
  /\ playlists' = [playlists EXCEPT ![p][2] = items]
  /\ UNCHANGED <<configurations, assignments, boxes, groups, sessions, since, raced>>

\* A configuration that has the playlist is left without.
DeletePlaylist(p) ==
  /\ playlists[p] # <<>>
  /\ Writes
  /\ playlists' = [playlists EXCEPT ![p] = <<>>]
  /\ configurations' = [v \in DOMAIN configurations |->
       [m \in AdModes |-> IF configurations[v][m] = p THEN None ELSE configurations[v][m]]]
  /\ UNCHANGED <<assignments, boxes, groups, sessions, since, raced>>

Suits(p, mode) == p # None => playlists[p] # <<>> /\ playlists[p][1] = mode

CreateConfiguration(s, lists) ==
  /\ sessions[s] = Closed
  /\ Len(configurations) < MaxVersions
  /\ \E m \in AdModes : lists[m] # None
  /\ \A m \in AdModes : Suits(lists[m], m)
  /\ sessions' = [sessions EXCEPT ![s] =
       [op |-> "create", version |-> Len(configurations) + 1, lists |-> lists]]
  /\ UNCHANGED <<planRows, writes, since, raced>>

\* The version is unique and the playlists are references: a session that read too early
\* fails and changes nothing.
CommitConfiguration(s) ==
  LET job == sessions[s] IN
  /\ job.op = "create"
  /\ IF /\ job.version = Len(configurations) + 1
        /\ \A m \in AdModes : Suits(job.lists[m], m)
       THEN Writes /\ configurations' = Append(configurations, job.lists)
       ELSE UNCHANGED <<configurations, writes>>
  /\ sessions' = [sessions EXCEPT ![s] = Closed]
  /\ UNCHANGED <<playlists, assignments, boxes, groups, since, raced>>

-----------------------------------------------------------------------------
(* Assignments.                                                            *)

\* What an assignment reads: the target's assignments and the rows it is to change.
Reads(s, op, target, rows, version) ==
  /\ sessions[s] = Closed
  /\ version \in DOMAIN configurations
  /\ sessions' = [sessions EXCEPT ![s] =
       [op |-> op, target |-> target, version |-> version,
        seen |-> {a \in assignments : a.target = target},
        read |-> [c \in rows |-> boxes[c].desired]]]
  /\ UNCHANGED <<planRows, writes, since, raced>>

AssignToCashbox(s, c, v) == Registered(c) /\ Reads(s, "cashbox", c, {c}, v)

AssignToGroup(s, g, v) == g \in groups /\ Reads(s, "group", g, Members(g), v)

\* mutant: a cashbox with an assignment of its own keeps what it has.
DesiresOwn(job, c) == \/ job.read[c] = job.version
                      \/ job.op = "group" /\ \E a \in assignments : a.target = c

\* A value that is what was read is not written.
Unwritten(job, c) == job.read[c] = job.version

Exists(target) == IF target \in Cashboxes THEN Registered(target) ELSE target \in groups

\* The session removes the assignments it has seen, adds its own and sets the desired
\* versions; it fails if what it refers to or changes is gone.
CommitAssignment(s) ==
  LET job == sessions[s]
      others == UNION {Concerns(o) : o \in Sessions \ {s}}
      written == {c \in DOMAIN job.read : ~Unwritten(job, c)} IN
  /\ job.op \in {"cashbox", "group"}
  /\ IF Exists(job.target) /\ \A c \in written : Registered(c)
       THEN /\ Writes
            /\ assignments' = (assignments \ job.seen) \cup
                 {[version |-> job.version, target |-> job.target, at |-> writes + 1]}
            /\ boxes' = [c \in Cashboxes |-> IF c \in written
                           THEN [boxes[c] EXCEPT !.desired = job.version] ELSE boxes[c]]
            /\ raced' = raced \cup (Concerns(s) \cap others)
       ELSE UNCHANGED <<assignments, boxes, writes, raced>>
  /\ sessions' = [sessions EXCEPT ![s] = Closed]
  /\ UNCHANGED <<playlists, configurations, groups, since>>

-----------------------------------------------------------------------------
(* Groups and cashboxes.                                                   *)

CreateGroup(g) ==
  /\ g \notin groups
  /\ Writes
  /\ groups' = groups \cup {g}
  /\ UNCHANGED <<playlists, configurations, assignments, boxes, sessions, since, raced>>

\* Its assignments go with it, its cashboxes stay.
DeleteGroup(g) ==
  /\ g \in groups
  /\ Writes
  /\ groups' = groups \ {g}
  /\ assignments' = {a \in assignments : a.target # g}
  /\ boxes' = [c \in Cashboxes |-> IF c \in Members(g) THEN [boxes[c] EXCEPT !.group = None]
                                     ELSE boxes[c]]
  /\ since' = [c \in Cashboxes |-> IF c \in Members(g) THEN writes + 1 ELSE since[c]]
  /\ Crosses(Members(g) \cup {g})
  /\ UNCHANGED <<playlists, configurations, sessions>>

\* A new row desires version 0, whatever is assigned to its group.
CreateCashbox(c, g) ==
  /\ ~Registered(c)
  /\ g \in groups \cup {None}
  /\ Writes
  /\ boxes' = [boxes EXCEPT ![c] = [group |-> g, desired |-> 0, actual |-> 0,
                                    status |-> "ACTIVE"]]
  /\ since' = [since EXCEPT ![c] = writes + 1]
  /\ Crosses({c, g})
  /\ UNCHANGED <<playlists, configurations, assignments, groups, sessions>>

\* A group is only ever replaced by another one, and the desired version stays.
UpdateCashbox(c, g) ==
  /\ Registered(c)
  /\ g \in groups \ {boxes[c].group}
  /\ Writes
  /\ boxes' = [boxes EXCEPT ![c].group = g]
  /\ since' = [since EXCEPT ![c] = writes + 1]
  /\ Crosses({c, g})
  /\ UNCHANGED <<playlists, configurations, assignments, groups, sessions>>

DeleteCashbox(c) ==
  /\ Registered(c)
  /\ Writes
  /\ boxes' = [boxes EXCEPT ![c] = Unregistered]
  /\ assignments' = {a \in assignments : a.target # c}
  /\ Crosses({c})
  /\ UNCHANGED <<playlists, configurations, groups, sessions, since>>

UpdateStatus(c, status) ==
  /\ Registered(c)
  /\ status # boxes[c].status
  /\ Writes
  /\ boxes' = [boxes EXCEPT ![c].status = status]
  /\ UNCHANGED <<playlists, configurations, assignments, groups, sessions, since, raced>>

UpdateDesiredVersion(c, v) ==
  /\ Registered(c)
  /\ v # boxes[c].desired
  /\ Writes
  /\ boxes' = [boxes EXCEPT ![c].desired = v]
  /\ since' = [since EXCEPT ![c] = writes + 1]
  /\ Crosses({c})
  /\ UNCHANGED <<playlists, configurations, assignments, groups, sessions>>

RecordDeploymentSuccess(c, v) ==
  /\ Registered(c)
  /\ v # boxes[c].actual
  /\ Writes
  /\ boxes' = [boxes EXCEPT ![c].actual = v]
  /\ UNCHANGED <<playlists, configurations, assignments, groups, sessions, since, raced>>

Orders == {<<1>>, <<1, 2>>, <<2, 1>>}

PlansNext ==
  \/ \E p \in Playlists, mode \in AdModes, items \in {<<1>>, <<1, 2>>} :
       CreatePlaylist(p, mode, items)
  \/ \E p \in Playlists, items \in Orders : ReorderPlaylistItems(p, items)
  \/ \E p \in Playlists : DeletePlaylist(p)
  \/ \E s \in Sessions, lists \in [AdModes -> Playlists \cup {None}] :
       CreateConfiguration(s, lists)
  \/ \E s \in Sessions : CommitConfiguration(s) \/ CommitAssignment(s)
  \/ \E s \in Sessions, c \in Cashboxes, v \in 1..MaxVersions : AssignToCashbox(s, c, v)
  \/ \E s \in Sessions, g \in Groups, v \in 1..MaxVersions : AssignToGroup(s, g, v)
  \/ \E g \in Groups : CreateGroup(g) \/ DeleteGroup(g)
  \/ \E c \in Cashboxes, g \in Groups \cup {None} : CreateCashbox(c, g) \/ UpdateCashbox(c, g)
  \/ \E c \in Cashboxes : DeleteCashbox(c)
  \/ \E c \in Cashboxes, status \in Statuses : UpdateStatus(c, status)
  \/ \E c \in Cashboxes, v \in 0..MaxVersions :
       UpdateDesiredVersion(c, v) \/ RecordDeploymentSuccess(c, v)

PlansSpec == PlansInit /\ [][PlansNext]_planVars

-----------------------------------------------------------------------------
(* Properties.                                                             *)

\* The assignments of a cashbox or its group since it came to the group.
Applies(c) == {a \in assignments : a.target \in {c, boxes[c].group} /\ a.at > since[c]}

\* A cashbox desires the version that was assigned last, to it or to its group, since it
\* came to the group or was given a version by hand, unless sessions met at the cashbox or
\* the group; and it has one assignment of its own at most.
DesiredIsAssigned ==
  \A c \in Cashboxes : (Registered(c) /\ {c, boxes[c].group} \cap raced = {}) =>
    /\ \A a \in Applies(c) : (\A b \in Applies(c) : b.at <= a.at) => boxes[c].desired = a.version
    /\ Cardinality({a \in assignments : a.target = c}) <= 1
=============================================================================
