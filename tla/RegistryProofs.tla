--------------------------- MODULE RegistryProofs ---------------------------
(***************************************************************************)
(* The registry of the fleet.  A cashbox desires what was assigned last; a *)
(* cashier's row tells of a restart that is due and of what is shown; and  *)
(* the items, versions and defaults of templates survive editors that work *)
(* at once: for any cashboxes, cashiers, templates, sessions and editors,  *)
(* but where the state says that two met.                                  *)
(***************************************************************************)
EXTENDS AdPlans, CashierFleet, TemplateEditing, FiniteSetTheorems, TLAPS

-----------------------------------------------------------------------------
(* What is desired was assigned: AdPlans.                                  *)

Targets == Cashboxes \cup Groups
Assigned == [version : Nat, target : Targets, at : Nat]
Boxes == [group : Groups \cup {None}, desired : Nat, actual : Nat, status : Statuses \cup {"none"}]
Assigns(job) == job.op \in {"cashbox", "group"}

PlansTypeOK ==
  /\ writes \in Nat
  /\ assignments \subseteq Assigned
  /\ boxes \in [Cashboxes -> Boxes]
  /\ since \in [Cashboxes -> Nat]
  /\ groups \subseteq Groups
  /\ DOMAIN sessions = Sessions

\* Every write has its number: none is yet to come.
NumbersInv ==
  /\ \A a \in assignments : a.at <= writes
  /\ \A c \in Cashboxes : since[c] <= writes

\* A cashbox that two sessions did not meet at has one assignment, one that is gone has none.
SinglesInv ==
  \A a \in assignments : a.target \in Cashboxes =>
    /\ Registered(a.target)
    /\ a.target \notin raced => \A b \in assignments : b.target = a.target => b = a

\* What a session that assigns has read still holds, but for what another one was at as well.
ReadHolds(job) ==
  /\ job.version \in Nat
  /\ DOMAIN job.read \subseteq Cashboxes
  /\ \A a \in job.seen : a.target = job.target
  /\ job.target \notin raced => job.seen = {a \in assignments : a.target = job.target}
  /\ \A c \in DOMAIN job.read \ raced : job.read[c] = boxes[c].desired
  /\ \/ job.op = "cashbox" /\ job.target \in Cashboxes /\ DOMAIN job.read = {job.target}
     \/ /\ job.op = "group" /\ job.target \in Groups
        /\ job.target \notin raced => Members(job.target) \subseteq DOMAIN job.read
        /\ \A c \in DOMAIN job.read \ raced : boxes[c].group = job.target

ReadsInv == \A s \in Sessions : Assigns(sessions[s]) => ReadHolds(sessions[s])

\* What DesiredIsAssigned says of a cashbox's desired version.
LastIsDesired(c) ==
  (Registered(c) /\ {c, boxes[c].group} \cap raced = {}) =>
    \A a \in Applies(c) : (\A b \in Applies(c) : b.at <= a.at) => boxes[c].desired = a.version

DesiredInv == \A c \in Cashboxes : LastIsDesired(c)

PlansInv == PlansTypeOK /\ NumbersInv /\ SinglesInv /\ ReadsInv /\ DesiredInv

\* A session that assigns is about its target and the rows it has read.
LEMMA ConcernsAre ==
  ASSUME PlansInv, NEW s \in Sessions, Assigns(sessions[s])
  PROVE  /\ ReadHolds(sessions[s])
         /\ Concerns(s) = {sessions[s].target} \cup DOMAIN sessions[s].read
         /\ Concerns(s) \subseteq UnderWay
  <1>1. ReadHolds(sessions[s])
    BY DEF PlansInv, ReadsInv
  <1>2. Concerns(s) = {sessions[s].target} \cup DOMAIN sessions[s].read
    <2>1. CASE sessions[s].op = "cashbox"
      BY <1>1, <2>1 DEF ReadHolds, Concerns
    <2>2. CASE sessions[s].op = "group"
      BY <2>2 DEF Concerns
    <2> QED
      BY <2>1, <2>2 DEF Assigns
  <1>3. Concerns(s) \subseteq UnderWay
    BY DEF UnderWay
  <1> QED
    BY <1>1, <1>2, <1>3

\* A write of rows by one who reads nothing first: what it touches is noted for the sessions
\* under way, and a cashbox that it touches has no assignment that applies yet.
LEMMA RowsStep ==
  ASSUME PlansInv, NEW things,
         sessions' = sessions, writes' = writes + 1, raced' = raced \cup (things \cap UnderWay),
         assignments' \subseteq assignments, groups' \subseteq Groups,
         boxes' \in [Cashboxes -> Boxes], since' \in [Cashboxes -> Nat],
         \A a \in assignments \ assignments' : a.target \in things,
         \A a \in assignments' : a.target \in Cashboxes => boxes'[a.target].status # "none",
         \A c \in Cashboxes :
           \/ /\ boxes'[c].desired = boxes[c].desired /\ boxes'[c].group = boxes[c].group
              /\ since'[c] = since[c] /\ (boxes'[c].status = "none" <=> boxes[c].status = "none")
              /\ \A a \in assignments \ assignments' : a.target \notin {c, boxes[c].group}
           \/ /\ c \in things /\ boxes'[c].group \in things \cup {None, boxes[c].group}
              /\ \/ since'[c] = writes + 1
                 \/ boxes'[c].status = "none" /\ since'[c] = since[c]
  PROVE  PlansInv'
  <1>1. /\ writes \in Nat /\ assignments \subseteq Assigned /\ DOMAIN sessions = Sessions
        /\ \A a \in assignments : a.at \in Nat /\ a.at <= writes
        /\ \A c \in Cashboxes : since[c] \in Nat /\ since[c] <= writes
        /\ None \notin Cashboxes \cup Groups /\ Cashboxes \cap Groups = {}
    BY PlansAssumption DEF PlansInv, PlansTypeOK, NumbersInv, Assigned
  <1>2. PlansTypeOK'
    BY <1>1 DEF PlansTypeOK
  <1>3. NumbersInv'
    BY <1>1 DEF NumbersInv
  <1>4. SinglesInv'
    BY DEF PlansInv, SinglesInv, Registered
  <1>5. ReadsInv'
    <2> SUFFICES ASSUME NEW s \in Sessions, Assigns(sessions[s]) PROVE ReadHolds(sessions[s])'
      BY DEF ReadsInv, Assigns
    <2>1. PICK job : job = sessions[s]
      OBVIOUS
    <2>2. /\ ReadHolds(job) /\ Concerns(s) = {job.target} \cup DOMAIN job.read
          /\ Concerns(s) \subseteq UnderWay
      BY <2>1, ConcernsAre
    <2>3. \A x \in Concerns(s) \ raced' : x \notin raced \cup things
      BY <2>2
    <2>4. job.target \notin raced' => job.seen = {a \in assignments' : a.target = job.target}
      BY <2>2, <2>3 DEF ReadHolds
    <2>5. \A c \in DOMAIN job.read \ raced' :
            job.read[c] = boxes'[c].desired /\ boxes'[c].group = boxes[c].group
      BY <2>2, <2>3 DEF ReadHolds
    <2>6. job.op = "group" /\ job.target \in Groups /\ job.target \notin raced'
            => Members(job.target)' \subseteq DOMAIN job.read
      BY <1>1, <2>2, <2>3 DEF ReadHolds, Members
    <2>7. ReadHolds(job)'
      BY <2>2, <2>4, <2>5, <2>6 DEF ReadHolds
    <2> QED
      BY <2>1, <2>7
  <1>6. DesiredInv'
    <2> SUFFICES ASSUME NEW c \in Cashboxes PROVE LastIsDesired(c)'
      BY DEF DesiredInv
    <2>1. LastIsDesired(c)
      BY DEF PlansInv, DesiredInv
    <2>2. CASE since'[c] = writes + 1
      <3>1. Applies(c)' = {}
        BY <1>1, <2>2 DEF Applies
      <3> QED
        BY <3>1 DEF LastIsDesired
    <2>3. CASE boxes'[c].status = "none"
      BY <2>3 DEF LastIsDesired, Registered
    <2>4. CASE /\ boxes'[c].desired = boxes[c].desired /\ boxes'[c].group = boxes[c].group
               /\ since'[c] = since[c]
               /\ (boxes'[c].status = "none" <=> boxes[c].status = "none")
               /\ \A a \in assignments \ assignments' : a.target \notin {c, boxes[c].group}
      <3>1. Applies(c)' = Applies(c)
        BY <2>4 DEF Applies
      <3> QED
        BY <2>1, <2>4, <3>1 DEF LastIsDesired, Registered
    <2> QED
      BY <2>2, <2>3, <2>4
  <1> QED
    BY <1>2, <1>3, <1>4, <1>5, <1>6 DEF PlansInv

\* A session opens or closes, and no row that is spoken of changes.
LEMMA SessionStep ==
  ASSUME PlansInv, NEW s \in Sessions, NEW job, sessions' = [sessions EXCEPT ![s] = job],
         Assigns(job) => ReadHolds(job), writes' \in {writes, writes + 1},
         UNCHANGED <<assignments, boxes, groups, since, raced>>
  PROVE  PlansInv'
  <1>1. /\ writes \in Nat /\ assignments \subseteq Assigned /\ DOMAIN sessions = Sessions
        /\ \A a \in assignments : a.at \in Nat /\ a.at <= writes
        /\ \A c \in Cashboxes : since[c] \in Nat /\ since[c] <= writes
    BY DEF PlansInv, PlansTypeOK, NumbersInv, Assigned
  <1>2. PlansTypeOK'
    BY <1>1 DEF PlansInv, PlansTypeOK
  <1>3. NumbersInv'
    BY <1>1 DEF NumbersInv
  <1>4. SinglesInv' /\ DesiredInv'
    BY DEF PlansInv, SinglesInv, DesiredInv, LastIsDesired, Applies, Registered
  <1>5. ReadsInv'
    <2> SUFFICES ASSUME NEW o \in Sessions, Assigns(sessions'[o]) PROVE ReadHolds(sessions[o])'
      BY DEF ReadsInv, Assigns
    <2>1. PICK held : held = sessions'[o]
      OBVIOUS
    <2>2. held = IF o = s THEN job ELSE sessions[o]
      BY <1>1, <2>1
    <2>3. ReadHolds(held)
      BY <2>1, <2>2 DEF PlansInv, ReadsInv
    <2>4. ReadHolds(held)'
      BY <2>3 DEF ReadHolds, Members
    <2> QED
      BY <2>1, <2>4
  <1> QED
    BY <1>2, <1>3, <1>4, <1>5 DEF PlansInv

\* An assignment is begun with what the rows hold.
LEMMA ReadsKeep ==
  ASSUME PlansInv, NEW s \in Sessions, NEW v \in Nat,
         \/ \E c \in Cashboxes : AssignToCashbox(s, c, v)
         \/ \E g \in Groups : AssignToGroup(s, g, v)
  PROVE  PlansInv'
  <1>1. PICK op, target, rows :
          /\ Reads(s, op, target, rows, v)
          /\ \/ op = "cashbox" /\ target \in Cashboxes /\ rows = {target}
             \/ op = "group" /\ target \in Groups /\ rows = Members(target)
    BY DEF AssignToCashbox, AssignToGroup
  <1>2. PICK job :
          job = [op |-> op, target |-> target, version |-> v,
                 seen |-> {a \in assignments : a.target = target},
                 read |-> [c \in rows |-> boxes[c].desired]]
    OBVIOUS
  <1>3. /\ job.op = op /\ job.target = target /\ job.version = v
        /\ job.seen = {a \in assignments : a.target = target}
        /\ job.read = [c \in rows |-> boxes[c].desired]
    BY <1>2
  <1>4. rows \subseteq Cashboxes /\ (op = "group" => \A c \in rows : boxes[c].group = target)
    BY <1>1 DEF Members
  <1>5. ReadHolds(job)
    BY <1>1, <1>3, <1>4 DEF ReadHolds
  <1>6. /\ sessions' = [sessions EXCEPT ![s] = job]
        /\ UNCHANGED <<assignments, boxes, groups, since, raced, writes>>
    BY <1>1, <1>2 DEF Reads, planRows
  <1> QED
    BY <1>5, <1>6, SessionStep

\* The commit: its assignment is the last one that applies to its target and, if that is a
\* group, to the members that it has read; and they desire its version then.
LEMMA CommitKeeps ==
  ASSUME PlansInv, NEW s \in Sessions, CommitAssignment(s)
  PROVE  PlansInv'
  <1>1. PICK job : job = sessions[s] /\ Assigns(job)
    BY DEF CommitAssignment, Assigns
  <1>2. /\ ReadHolds(job) /\ Concerns(s) = {job.target} \cup DOMAIN job.read
    BY <1>1, ConcernsAre
  <1>3. sessions' = [sessions EXCEPT ![s] = Closed] /\ UNCHANGED <<groups, since>>
    BY DEF CommitAssignment
  <1>4. ~Assigns(Closed)
    BY DEF Assigns, Closed
  <1>5. CASE UNCHANGED <<assignments, boxes, writes, raced>>
    BY <1>3, <1>4, <1>5, SessionStep
  <1> DEFINE others == UNION {Concerns(o) : o \in Sessions \ {s}}
             written == {c \in DOMAIN job.read : job.read[c] # job.version}
             new == [version |-> job.version, target |-> job.target, at |-> writes + 1]
  <1>6. CASE /\ Exists(job.target) /\ \A c \in written : Registered(c)
             /\ writes' = writes + 1
             /\ assignments' = (assignments \ job.seen) \cup {new}
             /\ boxes' = [c \in Cashboxes |-> IF c \in written
                            THEN [boxes[c] EXCEPT !.desired = job.version] ELSE boxes[c]]
             /\ raced' = raced \cup (Concerns(s) \cap others)
    <2>1. /\ writes \in Nat /\ assignments \subseteq Assigned /\ DOMAIN sessions = Sessions
          /\ \A a \in assignments : a.at \in Nat /\ a.at <= writes
          /\ \A c \in Cashboxes : since[c] \in Nat /\ since[c] <= writes /\ boxes[c] \in Boxes
          /\ None \notin Cashboxes \cup Groups /\ Cashboxes \cap Groups = {}
      BY PlansAssumption DEF PlansInv, PlansTypeOK, NumbersInv, Assigned
    <2>2. /\ job.version \in Nat /\ job.target \in Targets /\ written \subseteq Cashboxes
      BY <1>2 DEF ReadHolds, Targets
    <2>3. /\ new \in Assigned /\ new.at = writes + 1 /\ new.target = job.target
          /\ new.version = job.version
      BY <2>1, <2>2 DEF Assigned
    <2>4. \A c \in Cashboxes :
            /\ boxes'[c] \in Boxes /\ boxes'[c].group = boxes[c].group
            /\ boxes'[c].status = boxes[c].status
            /\ boxes'[c].desired = IF c \in written THEN job.version ELSE boxes[c].desired
      BY <1>6, <2>1, <2>2 DEF Boxes
    <2> HIDE DEF written, new, others
    <2>5. PlansTypeOK'
      <3>1. boxes' \in [Cashboxes -> Boxes]
        BY <1>6, <2>4
      <3> QED
        BY <1>3, <1>6, <2>1, <2>3, <3>1 DEF PlansInv, PlansTypeOK
    <2>6. NumbersInv'
      BY <1>3, <1>6, <2>1, <2>3 DEF NumbersInv
    <2>7. SinglesInv'
      <3>1. job.target \in Cashboxes => Registered(job.target)
        BY <1>6 DEF Exists
      <3>2. job.target \notin raced' => \A a \in assignments' : a.target = job.target => a = new
        BY <1>2, <1>6 DEF ReadHolds
      <3> QED
        BY <1>6, <2>3, <2>4, <3>1, <3>2 DEF PlansInv, SinglesInv, Registered
    <2>8. ReadsInv'
      <3> SUFFICES ASSUME NEW o \in Sessions, Assigns(sessions'[o]) PROVE ReadHolds(sessions[o])'
        BY DEF ReadsInv, Assigns
      <3>1. o # s /\ sessions'[o] = sessions[o]
        BY <1>3, <1>4, <2>1
      <3>2. PICK held : held = sessions[o] /\ held = sessions'[o]
        BY <3>1
      <3>3. ReadHolds(held) /\ Concerns(o) = {held.target} \cup DOMAIN held.read
        BY <3>2, ConcernsAre
      <3>4. Concerns(o) \subseteq others
        BY <3>1 DEF others
      <3>5. \A x \in Concerns(o) \ raced' :
              x \notin raced /\ x # job.target /\ x \notin DOMAIN job.read
        BY <1>2, <1>6, <3>4
      <3>6. held.target \notin raced' =>
              held.seen = {a \in assignments' : a.target = held.target}
        BY <1>2, <1>6, <2>3, <3>3, <3>5 DEF ReadHolds
      <3>7. \A c \in DOMAIN held.read \ raced' :
              held.read[c] = boxes'[c].desired /\ boxes'[c].group = boxes[c].group
        BY <2>4, <3>3, <3>5 DEF ReadHolds, written
      <3>8. \A g \in Groups : Members(g)' = Members(g)
        BY <2>4 DEF Members
      <3>9. ReadHolds(held)'
        BY <1>6, <3>3, <3>6, <3>7, <3>8 DEF ReadHolds
      <3> QED
        BY <3>2, <3>9
    <2>9. DesiredInv'
      <3> SUFFICES ASSUME NEW c \in Cashboxes, Registered(c)',
                          {c, boxes'[c].group} \cap raced' = {},
                          NEW a \in Applies(c)', \A b \in Applies(c)' : b.at <= a.at
                   PROVE  boxes'[c].desired = a.version
        BY DEF DesiredInv, LastIsDesired
      <3>1. /\ {c, boxes[c].group} \cap raced = {} /\ Registered(c) /\ c \notin raced
            /\ boxes[c].group \notin raced /\ boxes[c].group \in Groups \cup {None}
        BY <1>6, <2>1, <2>4 DEF Registered, Boxes
      <3>2. CASE job.target \in {c, boxes[c].group}
        <4>1. new \in Applies(c)'
          BY <1>3, <1>6, <2>1, <2>3, <2>4, <3>2 DEF Applies
        <4>2. a = new
          BY <1>6, <2>1, <2>3, <4>1 DEF Applies
        <4>3. c \in DOMAIN job.read
          BY <1>2, <2>1, <3>1, <3>2 DEF ReadHolds, Members
        <4>4. job.read[c] = boxes[c].desired
          BY <1>2, <3>1, <4>3 DEF ReadHolds
        <4> QED
          BY <2>3, <2>4, <4>2, <4>3, <4>4 DEF written
      <3>3. CASE job.target \notin {c, boxes[c].group}
        <4>1. Applies(c)' = Applies(c)
          BY <1>2, <1>3, <1>6, <2>3, <2>4, <3>3 DEF Applies, ReadHolds
        <4>2. c \notin written
          BY <1>2, <3>1, <3>3 DEF ReadHolds, written
        <4> QED
          BY <2>4, <3>1, <4>1, <4>2 DEF PlansInv, DesiredInv, LastIsDesired
      <3> QED
        BY <3>2, <3>3
    <2> QED
      BY <2>5, <2>6, <2>7, <2>8, <2>9 DEF PlansInv
  <1> QED
    BY <1>1, <1>5, <1>6 DEF CommitAssignment, Writes, Unwritten

\* A row in another group is a row.
LEMMA GroupFits ==
  ASSUME NEW b \in Boxes, NEW g \in Groups \cup {None}
  PROVE  \E e \in Boxes : /\ e = [b EXCEPT !.group = g]
                          /\ e.group = g /\ e.status = b.status
  <1>1. [b EXCEPT !.group = g] \in Boxes
    BY DEF Boxes, Statuses
  <1>2. PICK e : e = [b EXCEPT !.group = g]
    OBVIOUS
  <1>3. e.group = g /\ e.status = b.status
    BY <1>2 DEF Boxes, Statuses
  <1> QED
    BY <1>1, <1>2, <1>3

\* So is one that desires another version,
LEMMA DesiredFits ==
  ASSUME NEW b \in Boxes, NEW v \in Nat
  PROVE  \E e \in Boxes : /\ e = [b EXCEPT !.desired = v]
                          /\ e.group = b.group /\ e.status = b.status
  <1>1. [b EXCEPT !.desired = v] \in Boxes
    BY DEF Boxes, Statuses
  <1>2. PICK e : e = [b EXCEPT !.desired = v]
    OBVIOUS
  <1>3. e.group = b.group /\ e.status = b.status
    BY <1>2 DEF Boxes, Statuses
  <1> QED
    BY <1>1, <1>2, <1>3

\* one that shows another version,
LEMMA ActualFits ==
  ASSUME NEW b \in Boxes, NEW v \in Nat
  PROVE  \E e \in Boxes : /\ e = [b EXCEPT !.actual = v]
                          /\ e.group = b.group /\ e.desired = b.desired /\ e.status = b.status
  <1>1. [b EXCEPT !.actual = v] \in Boxes
    BY DEF Boxes, Statuses
  <1>2. PICK e : e = [b EXCEPT !.actual = v]
    OBVIOUS
  <1>3. e.group = b.group /\ e.desired = b.desired /\ e.status = b.status
    BY <1>2 DEF Boxes, Statuses
  <1> QED
    BY <1>1, <1>2, <1>3

\* and one of another status.
LEMMA StatusFits ==
  ASSUME NEW b \in Boxes, NEW status \in Statuses
  PROVE  \E e \in Boxes : /\ e = [b EXCEPT !.status = status]
                          /\ e.group = b.group /\ e.desired = b.desired /\ e.status # "none"
  <1>1. [b EXCEPT !.status = status] \in Boxes
    BY DEF Boxes, Statuses
  <1>2. PICK e : e = [b EXCEPT !.status = status]
    OBVIOUS
  <1>3. e.group = b.group /\ e.desired = b.desired /\ e.status # "none"
    BY <1>2 DEF Boxes, Statuses
  <1> QED
    BY <1>1, <1>2, <1>3

\* The writes of groups and cashboxes.
LEMMA BoxesKeep ==
  ASSUME PlansInv,
         \/ \E g \in Groups : CreateGroup(g) \/ DeleteGroup(g)
         \/ \E c \in Cashboxes, g \in Groups \cup {None} :
              CreateCashbox(c, g) \/ UpdateCashbox(c, g)
         \/ \E c \in Cashboxes : DeleteCashbox(c)
         \/ \E c \in Cashboxes, status \in Statuses : UpdateStatus(c, status)
         \/ \E c \in Cashboxes, v \in 0..MaxVersions :
              UpdateDesiredVersion(c, v) \/ RecordDeploymentSuccess(c, v)
  PROVE  PlansInv'
  <1>1. /\ writes \in Nat /\ groups \subseteq Groups /\ MaxVersions \in Nat
        /\ boxes \in [Cashboxes -> Boxes] /\ since \in [Cashboxes -> Nat]
        /\ \A c \in Cashboxes : boxes[c] \in Boxes
        /\ "none" \notin Statuses /\ "ACTIVE" \in Statuses
        /\ \A a \in assignments : a.target \in Cashboxes => boxes[a.target].status # "none"
        /\ \A a \in assignments : a.target \in Cashboxes \cup Groups
        /\ None \notin Cashboxes \cup Groups /\ Cashboxes \cap Groups = {}
    BY PlansAssumption
    DEF PlansInv, PlansTypeOK, Statuses, SinglesInv, Registered, Assigned, Targets
  <1>2. ASSUME NEW g \in Groups, CreateGroup(g) PROVE PlansInv'
    <2>1. raced' = raced \cup ({} \cap UnderWay)
      BY <1>2 DEF CreateGroup
    <2> QED
      BY <1>1, <1>2, <2>1, RowsStep DEF CreateGroup, Writes
  <1>3. ASSUME NEW g \in Groups, DeleteGroup(g) PROVE PlansInv'
    <2>1. \A c \in Cashboxes :
            /\ boxes'[c] \in Boxes /\ boxes'[c].status = boxes[c].status
            /\ boxes'[c].desired = boxes[c].desired
            /\ boxes'[c].group = IF c \in Members(g) THEN None ELSE boxes[c].group
            /\ since'[c] = IF c \in Members(g) THEN writes + 1 ELSE since[c]
      BY <1>1, <1>3 DEF DeleteGroup, Boxes
    <2>2. boxes' \in [Cashboxes -> Boxes] /\ since' \in [Cashboxes -> Nat]
      BY <1>1, <1>3, <2>1 DEF DeleteGroup
    <2>3. \A a \in assignments \ assignments' : a.target = g
      BY <1>3 DEF DeleteGroup
    <2>4. \A c \in Cashboxes \ Members(g) : g \notin {c, boxes[c].group}
      BY <1>1 DEF Members
    <2>8. PICK things : things = Members(g) \cup {g}
      OBVIOUS
    <2>5. /\ raced' = raced \cup (things \cap UnderWay)
          /\ sessions' = sessions /\ writes' = writes + 1
          /\ assignments' \subseteq assignments /\ groups' \subseteq Groups
      BY <1>1, <1>3, <2>8 DEF DeleteGroup, Crosses, Writes
    <2>6. \A c \in Cashboxes :
           \/ /\ boxes'[c].desired = boxes[c].desired /\ boxes'[c].group = boxes[c].group
              /\ since'[c] = since[c] /\ (boxes'[c].status = "none" <=> boxes[c].status = "none")
              /\ \A a \in assignments \ assignments' : a.target \notin {c, boxes[c].group}
           \/ /\ c \in things
              /\ boxes'[c].group \in things \cup {None, boxes[c].group}
              /\ \/ since'[c] = writes + 1
                 \/ boxes'[c].status = "none" /\ since'[c] = since[c]
      BY <2>1, <2>3, <2>4, <2>8
    <2>7. \A a \in assignments' : a.target \in Cashboxes => boxes'[a.target].status # "none"
      BY <1>1, <2>1, <2>5
    <2>9. \A a \in assignments \ assignments' : a.target \in things
      BY <2>3, <2>8
    <2> QED
      BY <2>2, <2>5, <2>6, <2>7, <2>9, RowsStep
  <1>4. ASSUME NEW c \in Cashboxes, NEW e \in Boxes, boxes' = [boxes EXCEPT ![c] = e],
               NEW things, c \in things, e.group \in things \cup {None, boxes[c].group},
               sessions' = sessions, writes' = writes + 1, groups' = groups,
               raced' = raced \cup (things \cap UnderWay),
               \/ /\ since' = [since EXCEPT ![c] = writes + 1] /\ assignments' = assignments
                  /\ e.status # "none"
               \/ /\ e.status = "none" /\ since' = since
                  /\ assignments' = {a \in assignments : a.target # c}
        PROVE  PlansInv'
    <2>1. \A d \in Cashboxes : boxes'[d] = (IF d = c THEN e ELSE boxes[d]) /\ boxes'[d] \in Boxes
      BY <1>1, <1>4
    <2>2. boxes' \in [Cashboxes -> Boxes] /\ since' \in [Cashboxes -> Nat]
      BY <1>1, <1>4
    <2>3. \A d \in Cashboxes \ {c} : since'[d] = since[d]
      BY <1>1, <1>4
    <2>4. since'[c] = writes + 1 \/ (boxes'[c].status = "none" /\ since'[c] = since[c])
      BY <1>1, <1>4, <2>1
    <2>5. /\ assignments' \subseteq assignments
          /\ \A a \in assignments \ assignments' : a.target = c
          /\ \A a \in assignments' : a.target \in Cashboxes => boxes'[a.target].status # "none"
      BY <1>1, <1>4, <2>1
    <2>6. \A d \in Cashboxes \ {c} : c \notin {d, boxes[d].group}
      BY <1>1 DEF Boxes
    <2>7. \A d \in Cashboxes :
           \/ /\ boxes'[d].desired = boxes[d].desired /\ boxes'[d].group = boxes[d].group
              /\ since'[d] = since[d] /\ (boxes'[d].status = "none" <=> boxes[d].status = "none")
              /\ \A a \in assignments \ assignments' : a.target \notin {d, boxes[d].group}
           \/ /\ d \in things /\ boxes'[d].group \in things \cup {None, boxes[d].group}
              /\ \/ since'[d] = writes + 1
                 \/ boxes'[d].status = "none" /\ since'[d] = since[d]
      BY <1>4, <2>1, <2>3, <2>4, <2>5, <2>6
    <2> QED
      BY <1>1, <1>4, <2>2, <2>5, <2>7, RowsStep
  <1>5. ASSUME NEW c \in Cashboxes, NEW g \in Groups \cup {None}, CreateCashbox(c, g)
        PROVE  PlansInv'
    <2>3. [group |-> g, desired |-> 0, actual |-> 0, status |-> "ACTIVE"] \in Boxes
      BY DEF Boxes, Statuses
    <2>1. PICK e \in Boxes :
            /\ e = [group |-> g, desired |-> 0, actual |-> 0, status |-> "ACTIVE"]
            /\ e.group = g /\ e.status # "none"
      BY <2>3
    <2>4. PICK things : things = {c, g}
      OBVIOUS
    <2>2. raced' = raced \cup (things \cap UnderWay) /\ c \in things /\ g \in things
      BY <1>5, <2>4 DEF CreateCashbox, Crosses
    <2> QED
      BY <1>4, <1>5, <2>1, <2>2 DEF CreateCashbox, Writes
  <1>6. ASSUME NEW c \in Cashboxes, NEW g \in Groups \cup {None}, UpdateCashbox(c, g)
        PROVE  PlansInv'
    <2>1. PICK e \in Boxes :
            e = [boxes[c] EXCEPT !.group = g] /\ e.group = g /\ e.status = boxes[c].status
      <3> boxes[c] \in Boxes
        BY <1>1
      <3> QED
        BY GroupFits
    <2>2. boxes' = [boxes EXCEPT ![c] = e] /\ boxes[c].status # "none"
      BY <1>1, <1>6, <2>1 DEF UpdateCashbox, Registered
    <2>4. PICK things : things = {c, g}
      OBVIOUS
    <2>3. raced' = raced \cup (things \cap UnderWay) /\ c \in things /\ g \in things
      BY <1>6, <2>4 DEF UpdateCashbox, Crosses
    <2>5. /\ sessions' = sessions /\ writes' = writes + 1 /\ groups' = groups
          /\ since' = [since EXCEPT ![c] = writes + 1] /\ assignments' = assignments
      BY <1>6 DEF UpdateCashbox, Writes
    <2>6. e.status # "none" /\ e.group \in things
      BY <2>1, <2>2, <2>3
    <2> QED
      BY <1>4, <2>2, <2>3, <2>5, <2>6
  <1>7. ASSUME NEW c \in Cashboxes, DeleteCashbox(c) PROVE PlansInv'
    <2>1. Unregistered \in Boxes /\ Unregistered.group = None /\ Unregistered.status = "none"
      BY DEF Boxes, Unregistered
    <2> QED
      BY <1>4, <1>7, <2>1 DEF DeleteCashbox, Crosses, Writes
  <1>8. ASSUME NEW c \in Cashboxes, NEW v \in 0..MaxVersions, UpdateDesiredVersion(c, v)
        PROVE  PlansInv'
    <2>1. PICK e \in Boxes : /\ e = [boxes[c] EXCEPT !.desired = v] /\ e.group = boxes[c].group
                             /\ e.status = boxes[c].status
      <3> boxes[c] \in Boxes /\ v \in Nat
        BY <1>1
      <3> QED
        BY DesiredFits
    <2>2. boxes' = [boxes EXCEPT ![c] = e] /\ boxes[c].status # "none"
      BY <1>1, <1>8, <2>1 DEF UpdateDesiredVersion, Registered
    <2> QED
      BY <1>4, <1>8, <2>1, <2>2 DEF UpdateDesiredVersion, Crosses, Writes
  <1>9. ASSUME NEW c \in Cashboxes, NEW e \in Boxes, boxes' = [boxes EXCEPT ![c] = e],
               e.group = boxes[c].group, e.desired = boxes[c].desired,
               e.status # "none", boxes[c].status # "none", writes' = writes + 1,
               UNCHANGED <<assignments, groups, sessions, since, raced>>
        PROVE  PlansInv'
    <2>1. \A d \in Cashboxes : boxes'[d] = IF d = c THEN e ELSE boxes[d]
      BY <1>1, <1>9
    <2>2. boxes' \in [Cashboxes -> Boxes] /\ raced' = raced \cup ({} \cap UnderWay)
      BY <1>1, <1>9
    <2> QED
      BY <1>1, <1>9, <2>1, <2>2, RowsStep
  <1>10. ASSUME NEW c \in Cashboxes, NEW status \in Statuses, UpdateStatus(c, status)
         PROVE  PlansInv'
    <2>1. PICK e \in Boxes : /\ e = [boxes[c] EXCEPT !.status = status]
                             /\ e.group = boxes[c].group /\ e.desired = boxes[c].desired
                             /\ e.status # "none"
      <3> boxes[c] \in Boxes
        BY <1>1
      <3> QED
        BY StatusFits
    <2>2. boxes' = [boxes EXCEPT ![c] = e] /\ boxes[c].status # "none"
      BY <1>1, <1>10, <2>1 DEF UpdateStatus, Registered
    <2> QED
      BY <1>9, <1>10, <2>1, <2>2 DEF UpdateStatus, Writes
  <1>11. ASSUME NEW c \in Cashboxes, NEW v \in 0..MaxVersions, RecordDeploymentSuccess(c, v)
         PROVE  PlansInv'
    <2>1. PICK e \in Boxes : /\ e = [boxes[c] EXCEPT !.actual = v]
                             /\ e.group = boxes[c].group /\ e.desired = boxes[c].desired
                             /\ e.status = boxes[c].status
      <3> boxes[c] \in Boxes /\ v \in Nat
        BY <1>1
      <3> QED
        BY ActualFits
    <2>2. boxes' = [boxes EXCEPT ![c] = e] /\ boxes[c].status # "none"
      BY <1>1, <1>11, <2>1 DEF RecordDeploymentSuccess, Registered
    <2> QED
      BY <1>9, <1>11, <2>1, <2>2 DEF RecordDeploymentSuccess, Writes
  <1> QED
    BY <1>2, <1>3, <1>5, <1>6, <1>7, <1>8, <1>10, <1>11

\* Playlists and configurations: no row of the assignments changes.
LEMMA ListsKeep ==
  ASSUME PlansInv,
         \/ \E p \in Playlists, mode \in AdModes, items \in {<< 1 >>, <<1, 2>>} :
              CreatePlaylist(p, mode, items)
         \/ \E p \in Playlists, items \in Orders : ReorderPlaylistItems(p, items)
         \/ \E p \in Playlists : DeletePlaylist(p)
         \/ \E s \in Sessions, lists \in [AdModes -> Playlists \cup {None}] :
              CreateConfiguration(s, lists)
         \/ \E s \in Sessions : CommitConfiguration(s)
  PROVE  PlansInv'
  <1>1. CASE /\ UNCHANGED <<assignments, boxes, groups, sessions, since, raced>>
             /\ writes' = writes + 1
    <2>1. /\ boxes \in [Cashboxes -> Boxes] /\ since \in [Cashboxes -> Nat]
          /\ groups \subseteq Groups
          /\ \A a \in assignments : a.target \in Cashboxes => boxes[a.target].status # "none"
      BY DEF PlansInv, PlansTypeOK, SinglesInv, Registered
    <2>2. raced' = raced \cup ({} \cap UnderWay)
      BY <1>1
    <2> QED
      BY <1>1, <2>1, <2>2, RowsStep
  <1>2. ASSUME NEW s \in Sessions, NEW lists, CreateConfiguration(s, lists) PROVE PlansInv'
    <2>1. PICK job : job = [op |-> "create", version |-> Len(configurations) + 1, lists |-> lists]
      OBVIOUS
    <2>2. ~Assigns(job)
      BY <2>1 DEF Assigns
    <2> QED
      BY <1>2, <2>1, <2>2, SessionStep DEF CreateConfiguration, planRows
  <1>3. ASSUME NEW s \in Sessions, CommitConfiguration(s) PROVE PlansInv'
    <2>1. ~Assigns(Closed)
      BY DEF Assigns, Closed
    <2>2. /\ sessions' = [sessions EXCEPT ![s] = Closed] /\ writes' \in {writes, writes + 1}
          /\ UNCHANGED <<assignments, boxes, groups, since, raced>>
      BY <1>3 DEF CommitConfiguration, Writes
    <2> QED
      BY <2>1, <2>2, SessionStep
  <1> QED
    BY <1>1, <1>2, <1>3 DEF CreatePlaylist, ReorderPlaylistItems, DeletePlaylist, Writes

\* No step of the registry breaks it.
LEMMA PlansStep == PlansInv /\ [PlansNext]_planVars => PlansInv'
  <1> SUFFICES ASSUME PlansInv, [PlansNext]_planVars PROVE PlansInv'
    OBVIOUS
  <1>1. CASE UNCHANGED planVars
    <2>1. UNCHANGED <<assignments, boxes, groups, sessions, since, raced, writes>>
      BY <1>1 DEF planVars, planRows
    <2> QED
      BY <2>1
      DEF PlansInv, PlansTypeOK, NumbersInv, SinglesInv, ReadsInv, ReadHolds, Members, DesiredInv,
          LastIsDesired, Applies, Registered
  <1>2. CASE PlansNext
    <2>1. 1..MaxVersions \subseteq Nat
      BY PlansAssumption
    <2> QED
      BY <1>2, <2>1, ReadsKeep, CommitKeeps, BoxesKeep, ListsKeep DEF PlansNext
  <1> QED
    BY <1>1, <1>2

\* For any registry: a cashbox desires what was assigned last, to it or its group, since it came
\* to the group or was given a version by hand, unless sessions met there; and it has one
\* assignment of its own at most.
THEOREM DesiredStaysAssigned == PlansSpec => []DesiredIsAssigned
  <1>1. PlansInit => PlansInv
    <2> SUFFICES ASSUME PlansInit PROVE PlansInv
      OBVIOUS
    <2>1. (CHOOSE g \in Groups : TRUE) \in Groups
      BY PlansAssumption
    <2> DEFINE group == CHOOSE g \in Groups : TRUE
               box == [group |-> group, desired |-> 0, actual |-> 0, status |-> "ACTIVE"]
    <2>6. box \in Boxes
      BY <2>1 DEF Boxes, Statuses
    <2> HIDE DEF group
    <2>7. boxes = [c \in Cashboxes |-> box] /\ groups = {group}
      BY DEF PlansInit, group
    <2> HIDE DEF box
    <2>2. PlansTypeOK
      BY <2>1, <2>6, <2>7 DEF PlansInit, PlansTypeOK, group
    <2>3. NumbersInv /\ SinglesInv
      BY DEF PlansInit, NumbersInv, SinglesInv
    <2>4. ReadsInv
      BY DEF PlansInit, ReadsInv, Assigns, Closed
    <2>5. DesiredInv
      BY DEF PlansInit, DesiredInv, LastIsDesired, Applies
    <2> QED
      BY <2>2, <2>3, <2>4, <2>5 DEF PlansInv
  <1>2. PlansInv => DesiredIsAssigned
    <2> SUFFICES ASSUME PlansInv, NEW c \in Cashboxes, Registered(c),
                        {c, boxes[c].group} \cap raced = {}
                 PROVE  /\ \A a \in Applies(c) : (\A b \in Applies(c) : b.at <= a.at)
                             => boxes[c].desired = a.version
                        /\ Cardinality({a \in assignments : a.target = c}) <= 1
      BY DEF DesiredIsAssigned
    <2>1. \A a \in Applies(c) : (\A b \in Applies(c) : b.at <= a.at)
            => boxes[c].desired = a.version
      BY DEF PlansInv, DesiredInv, LastIsDesired
    <2>6. PICK own : own = {a \in assignments : a.target = c}
      OBVIOUS
    <2>2. \A a, b \in own : a = b
      BY <2>6 DEF PlansInv, SinglesInv
    <2>3. Cardinality(own) \in {0, 1}
      <3>1. CASE own = {}
        BY <3>1, FS_EmptySet
      <3>2. CASE own # {}
        <4>1. PICK a : a \in own
          BY <3>2
        <4>2. own = {a}
          BY <2>2, <4>1
        <4> QED
          BY <4>2, FS_Singleton
      <3> QED
        BY <3>1, <3>2
    <2>5. Cardinality(own) <= 1
      BY <2>3
    <2> QED
      BY <2>1, <2>5, <2>6
  <1> QED
    BY <1>1, <1>2, PlansStep, PTL DEF PlansSpec

-----------------------------------------------------------------------------
(* The rows of the fleet: CashierFleet.                                    *)

Shown == [Areas -> Blocks \cup {NoBlock}]
RowStatuses == {"UNKNOWN", "OFFLINE", "SUCCESS", "FAILED", "PUBLISHED_AWAITING_RESTART"}
Outcomes == {"SUCCESS", "PUBLISHED_AWAITING_RESTART", "FAILED", "OFFLINE"}
CashierRows == [branch : Branches \cup {NoBlock}, enabled : BOOLEAN, status : RowStatuses,
                current : Shown]
Publications ==
  [state : {"queued", "worked"}, cashier : Cashiers, block : Blocks,
   outcome : Outcomes \cup {"none"}, row : BOOLEAN, alone : BOOLEAN]

FleetTypeOK ==
  /\ cashiers \in [Cashiers -> CashierRows]
  /\ templates \subseteq Blocks
  /\ scenes \in [Cashiers -> Shown]
  /\ jobs \in [Jobs -> {Idle} \cup Publications]
  /\ waiting \subseteq Cashiers

Busy(j) == jobs[j] # Idle
Deleted == {c \in Cashiers : ~Known(c)}

\* A publication whose row went with its cashier: the cashier has no row, or its row is known.
OrphansInv ==
  \A j \in Jobs : Busy(j) /\ ~jobs[j].row => jobs[j].cashier \in Deleted \cup voided

\* What a watchdog of schedules has read: each default is of its area.
DefaultsFit(seen) ==
  seen.state = "read" =>
    \A a \in Areas : seen.default[a] # NoBlock => AreaOf[seen.default[a]] = a

ScheduleInv ==
  /\ DOMAIN schedule = Apis
  /\ \A p \in Apis : DefaultsFit(schedule[p])

\* A publication that met no other has its template in the scene.
AloneJobsInv ==
  /\ \A j, k \in Jobs :
       j # k /\ Busy(j) /\ Busy(k) /\ jobs[j].cashier = jobs[k].cashier => ~jobs[j].alone
  /\ \A j \in Jobs : Busy(j) /\ jobs[j].state = "worked" =>
       /\ jobs[j].outcome # "none"
       /\ jobs[j].alone /\ Records(jobs[j].outcome) =>
            scenes[jobs[j].cashier][AreaOf[jobs[j].block]] = jobs[j].block

\* A publication that will say what it did to the area, or is to name its template there.
WillTell(j, c, a) ==
  /\ Busy(j) /\ jobs[j].cashier = c /\ AreaOf[jobs[j].block] = a
  /\ jobs[j].row \/ jobs[j].state = "worked"

\* The row names what is shown, or there is a publication to the area, or it is known.
Told(c, a) ==
  Known(c) => \/ cashiers[c].current[a] = scenes[c][a]
              \/ <<c, a>> \in unserved
              \/ \E j \in Jobs : WillTell(j, c, a)

TellsInv == \A c \in Cashiers, a \in Areas : Told(c, a)

FleetInv ==
  FleetTypeOK /\ OrphansInv /\ ScheduleInv /\ AloneJobsInv /\ TellsInv /\ RestartIsKept


\* A publication under way has the fields of one.
LEMMA JobTyped ==
  ASSUME FleetInv, NEW j \in Jobs
  PROVE  /\ Busy(j) => jobs[j] \in Publications
         /\ Busy(j) => /\ jobs[j].cashier \in Cashiers /\ jobs[j].block \in Blocks
                       /\ AreaOf[jobs[j].block] \in Areas
         /\ ~Busy(j) => jobs[j].state = "idle"
  <1>1. jobs[j] \in {Idle} \cup Publications
    BY DEF FleetInv, FleetTypeOK
  <1>2. \A b \in Blocks : AreaOf[b] \in Areas
    BY FleetAssumption DEF Areas
  <1> QED
    BY <1>1, <1>2 DEF Publications, Busy, Idle

\* Rows are written, and neither a scene nor a publication changes: what a row names of its areas
\* stays or is emptied, and a cashier that waits keeps its status or is known.
LEMMA RowsKept ==
  ASSUME FleetInv, UNCHANGED <<scenes, schedule, jobs>>, templates' \subseteq Blocks,
         cashiers' \in [Cashiers -> CashierRows], waiting' \subseteq waiting,
         voided \subseteq voided', unserved \subseteq unserved',
         \A c \in Cashiers : Known(c)' => Known(c) \/ c \in voided',
         \A c \in Cashiers, a \in Areas :
           \/ cashiers'[c].current[a] = cashiers[c].current[a] /\ (Known(c)' => Known(c))
           \/ cashiers'[c].current[a] = NoBlock
                /\ (scenes[c][a] = NoBlock \/ <<c, a>> \in unserved'),
         \A c \in waiting' :
           \/ c \in voided'
           \/ ~Known(c)'
           \/ Known(c) /\ (cashiers[c].status = "PUBLISHED_AWAITING_RESTART"
                             => cashiers'[c].status = "PUBLISHED_AWAITING_RESTART")
  PROVE  FleetInv'
  <1>1. FleetTypeOK'
    BY DEF FleetInv, FleetTypeOK
  <1>2. OrphansInv'
    BY JobTyped DEF FleetInv, OrphansInv, Deleted, Known, Busy
  <1>3. ScheduleInv'
    BY DEF FleetInv, ScheduleInv
  <1>4. AloneJobsInv'
    BY DEF FleetInv, AloneJobsInv, Busy
  <1>5. TellsInv'
    <2> SUFFICES ASSUME NEW c \in Cashiers, NEW a \in Areas PROVE Told(c, a)'
      BY DEF TellsInv
    <2>1. Told(c, a)
      BY DEF FleetInv, TellsInv
    <2> QED
      BY <2>1 DEF Told, WillTell, Busy, Known
  <1>6. RestartIsKept'
    <2>1. UnderPublication' = UnderPublication
      BY DEF UnderPublication
    <2> QED
      BY <2>1 DEF FleetInv, RestartIsKept
  <1> QED
    BY <1>1, <1>2, <1>3, <1>4, <1>5, <1>6 DEF FleetInv

\* A publication begins, and the row may name what it is to bring or what is not sent.
LEMMA StartKeeps ==
  ASSUME FleetInv, NEW j \in Jobs, NEW c \in Cashiers, NEW b \in Blocks, Enqueue(j, c, b),
         UNCHANGED <<templates, scenes, waiting, voided>>,
         unserved \subseteq unserved', cashiers' \in [Cashiers -> CashierRows],
         \A d \in Cashiers : /\ cashiers'[d].branch = cashiers[d].branch
                             /\ cashiers'[d].status = cashiers[d].status,
         \A d \in Cashiers, a \in Areas :
           \/ cashiers'[d].current[a] = cashiers[d].current[a]
           \/ d = c /\ (a = AreaOf[b] \/ <<c, a>> \in unserved'),
         ScheduleInv'
  PROVE  FleetInv'
  <1>1. /\ ~Busy(j)
        /\ jobs' = [k \in Jobs |->
             IF k = j THEN [state |-> "queued", cashier |-> c, block |-> b, outcome |-> "none",
                            row |-> TRUE, alone |-> Publishing(c) = {}]
               ELSE IF k \in Publishing(c) THEN [jobs[k] EXCEPT !.alone = FALSE] ELSE jobs[k]]
    BY DEF Enqueue, Busy
  <1>2. PICK e \in Publications :
          /\ jobs'[j] = e /\ e.cashier = c /\ e.block = b /\ e.state = "queued" /\ e.row
          /\ e.alone => Publishing(c) = {}
    <2>1. jobs'[j] = [state |-> "queued", cashier |-> c, block |-> b, outcome |-> "none",
                      row |-> TRUE, alone |-> Publishing(c) = {}]
      BY <1>1
    <2>2. PICK own \in BOOLEAN : own = (Publishing(c) = {})
      OBVIOUS
    <2> DEFINE d == [state |-> "queued", cashier |-> c, block |-> b, outcome |-> "none",
                     row |-> TRUE, alone |-> own]
    <2>3. jobs'[j] = d
      BY <2>1, <2>2
    <2>4. /\ d \in Publications /\ d.cashier = c /\ d.block = b /\ d.state = "queued"
          /\ d.alone = own /\ d.row
      BY <2>2 DEF Publications
    <2> HIDE DEF d
    <2> QED
      BY <2>2, <2>3, <2>4
  <1>3. ASSUME NEW k \in Jobs, k # j
        PROVE  /\ jobs'[k] \in {Idle} \cup Publications
               /\ Busy(k)' <=> Busy(k)
               /\ Busy(k) => /\ jobs'[k].cashier = jobs[k].cashier
                             /\ jobs'[k].block = jobs[k].block
                             /\ jobs'[k].state = jobs[k].state
                             /\ jobs'[k].outcome = jobs[k].outcome
                             /\ jobs'[k].row = jobs[k].row
                             /\ jobs'[k].alone => jobs[k].alone
                             /\ jobs[k].cashier = c => ~jobs'[k].alone
    <2>1. CASE k \in Publishing(c)
      <3>1. Busy(k) /\ jobs[k] \in Publications
        BY <2>1, JobTyped DEF Publishing, Busy
      <3>2. jobs'[k] = [jobs[k] EXCEPT !.alone = FALSE]
        BY <1>1, <1>3, <2>1
      <3>3. /\ jobs'[k] \in Publications /\ jobs'[k].cashier = jobs[k].cashier
            /\ jobs'[k].block = jobs[k].block /\ jobs'[k].state = jobs[k].state
            /\ jobs'[k].outcome = jobs[k].outcome /\ jobs'[k].row = jobs[k].row /\ ~jobs'[k].alone
        BY <3>1, <3>2 DEF Publications
      <3>4. jobs'[k].state # "idle"
        BY <3>3 DEF Publications
      <3> QED
        BY <3>1, <3>3, <3>4 DEF Busy, Idle
    <2>2. CASE k \notin Publishing(c)
      <3>1. jobs'[k] = jobs[k] /\ jobs[k] \in {Idle} \cup Publications
        BY <1>1, <1>3, <2>2 DEF FleetInv, FleetTypeOK
      <3> QED
        BY <2>2, <3>1 DEF Publishing, Busy
    <2> QED
      BY <2>1, <2>2
  <1>4. Busy(j)'
    <2>1. e.state # Idle.state
      BY <1>2 DEF Idle
    <2> QED
      BY <1>2, <2>1 DEF Busy
  <1>5. FleetTypeOK'
    <2>1. jobs' \in [Jobs -> {Idle} \cup Publications]
      <3>1. \A k \in Jobs : jobs'[k] \in {Idle} \cup Publications
        BY <1>2, <1>3
      <3> QED
        BY <1>1, <3>1
    <2> QED
      BY <2>1 DEF FleetInv, FleetTypeOK
  <1>6. OrphansInv'
    <2> SUFFICES ASSUME NEW k \in Jobs, Busy(k)', ~jobs'[k].row
                 PROVE  jobs'[k].cashier \in (Deleted \cup voided)'
      BY DEF OrphansInv
    <2>1. k # j
      BY <1>2
    <2>2. Busy(k) /\ ~jobs[k].row /\ jobs'[k].cashier = jobs[k].cashier
          /\ jobs[k].cashier \in Cashiers
      BY <1>3, <2>1, JobTyped
    <2> QED
      BY <2>2 DEF FleetInv, OrphansInv, Deleted, Known
  <1>7. AloneJobsInv'
    <2>1. \A k, l \in Jobs : k # l /\ Busy(k)' /\ Busy(l)' /\ jobs'[k].cashier = jobs'[l].cashier
            => ~jobs'[k].alone
      <3>1. \A k \in Jobs : k # j /\ Busy(k) /\ jobs[k].cashier = c => k \in Publishing(c)
        BY DEF Publishing, Busy
      <3> QED
        BY <1>2, <1>3, <3>1 DEF FleetInv, AloneJobsInv
    <2>2. \A k \in Jobs : Busy(k)' /\ jobs'[k].state = "worked" =>
            /\ jobs'[k].outcome # "none"
            /\ jobs'[k].alone /\ Records(jobs'[k].outcome) =>
                 scenes'[jobs'[k].cashier][AreaOf[jobs'[k].block]] = jobs'[k].block
      BY <1>2, <1>3 DEF FleetInv, AloneJobsInv
    <2> QED
      BY <2>1, <2>2 DEF AloneJobsInv, Records
  <1>8. TellsInv'
    <2> SUFFICES ASSUME NEW d \in Cashiers, NEW a \in Areas PROVE Told(d, a)'
      BY DEF TellsInv
    <2>1. Told(d, a)
      BY DEF FleetInv, TellsInv
    <2>2. CASE \E k \in Jobs : WillTell(k, d, a)
      <3>1. PICK k \in Jobs : WillTell(k, d, a)
        BY <2>2
      <3>2. WillTell(k, d, a)'
        BY <1>1, <1>3, <3>1 DEF WillTell
      <3> QED
        BY <3>2 DEF Told
    <2>3. CASE <<d, a>> \in unserved'
      BY <2>3 DEF Told
    <2>4. CASE d = c /\ a = AreaOf[b]
      BY <1>2, <1>4, <2>4 DEF Told, WillTell
    <2>5. CASE cashiers'[d].current[a] = cashiers[d].current[a]
      BY <2>1, <2>2, <2>3, <2>5 DEF Told, Known
    <2> QED
      BY <2>3, <2>4, <2>5
  <1>9. RestartIsKept'
    <2>1. UnderPublication \subseteq UnderPublication'
      <3>1. \A k \in Jobs : Busy(k) => Busy(k)' /\ jobs'[k].cashier = jobs[k].cashier
        BY <1>1, <1>3
      <3> QED
        BY <3>1 DEF UnderPublication, Busy
    <2>2. waiting \subseteq Cashiers
      BY DEF FleetInv, FleetTypeOK
    <2> QED
      BY <2>1, <2>2 DEF FleetInv, RestartIsKept, Known
  <1> QED
    BY <1>5, <1>6, <1>7, <1>8, <1>9 DEF FleetInv

\* The worker has done its part: the scene of a publication that is alone shows its template.
LEMMA WorkKeeps ==
  ASSUME FleetInv, NEW j \in Jobs, Work(j)
  PROVE  FleetInv'
  <1>1. PICK job \in Publications :
          /\ job = jobs[j] /\ job.state = "queued" /\ job.cashier \in Cashiers
          /\ job.block \in Blocks /\ AreaOf[job.block] \in Areas /\ Busy(j)
    BY JobTyped DEF Work
  <1>2. PICK outcome \in Outcomes :
          /\ jobs' = [jobs EXCEPT ![j].state = "worked", ![j].outcome = outcome]
          /\ scenes' = IF Records(outcome)
                         THEN [scenes EXCEPT ![job.cashier][AreaOf[job.block]] = job.block]
                         ELSE scenes
          /\ waiting' \subseteq waiting \cup {job.cashier}
    BY <1>1 DEF Work, Outcomes, Records
  <1>3. UNCHANGED <<cashiers, templates, schedule, voided, unserved>>
    BY DEF Work, loops
  <1>4. /\ jobs \in [Jobs -> {Idle} \cup Publications] /\ scenes \in [Cashiers -> Shown]
        /\ waiting \subseteq Cashiers
    BY DEF FleetInv, FleetTypeOK
  <1>5. PICK e \in Publications :
          /\ jobs' = [jobs EXCEPT ![j] = e] /\ e.state = "worked" /\ e.outcome = outcome
          /\ e.cashier = job.cashier /\ e.block = job.block /\ e.alone = job.alone
          /\ e.row = job.row
    <2> DEFINE d == [job EXCEPT !.state = "worked", !.outcome = outcome]
    <2>1. d \in Publications /\ d.state = "worked" /\ d.outcome = outcome
          /\ d.cashier = job.cashier /\ d.block = job.block /\ d.alone = job.alone
          /\ d.row = job.row
      BY DEF Publications
    <2>2. jobs' = [jobs EXCEPT ![j] = d]
      BY <1>1, <1>2, <1>4
    <2> QED
      BY <2>1, <2>2
  <1>6. jobs'[j] = e /\ (\A k \in Jobs \ {j} : jobs'[k] = jobs[k])
        /\ jobs' \in [Jobs -> {Idle} \cup Publications]
    BY <1>4, <1>5
  <1>7. Busy(j)' /\ (\A k \in Jobs : Busy(k)' <=> Busy(k))
    <2>1. e.state # Idle.state
      BY <1>5 DEF Idle
    <2> QED
      BY <1>1, <1>6, <2>1 DEF Busy
  <1>8. /\ scenes' \in [Cashiers -> Shown]
        /\ \A c \in Cashiers, a \in Areas :
             <<c, a>> # <<job.cashier, AreaOf[job.block]>> => scenes'[c][a] = scenes[c][a]
        /\ Records(outcome) => scenes'[job.cashier][AreaOf[job.block]] = job.block
    <2>1. CASE Records(outcome)
      <3>1. scenes' = [scenes EXCEPT ![job.cashier] =
                         [scenes[job.cashier] EXCEPT ![AreaOf[job.block]] = job.block]]
        BY <1>2, <2>1
      <3>2. scenes[job.cashier] \in Shown
        BY <1>1, <1>4
      <3>3. [scenes[job.cashier] EXCEPT ![AreaOf[job.block]] = job.block] \in Shown
        BY <1>1, <3>2 DEF Shown
      <3> QED
        BY <1>1, <1>4, <3>1, <3>2, <3>3 DEF Shown
    <2>2. CASE ~Records(outcome)
      BY <1>2, <1>4, <2>2
    <2> QED
      BY <2>1, <2>2
  <1>9. FleetTypeOK'
    BY <1>1, <1>2, <1>3, <1>4, <1>6, <1>8 DEF FleetInv, FleetTypeOK
  <1>11. OrphansInv'
    BY <1>1, <1>3, <1>5, <1>6, <1>7 DEF FleetInv, OrphansInv, Deleted, Known
  <1>12. ScheduleInv'
    BY <1>3 DEF FleetInv, ScheduleInv
  <1>13. AloneJobsInv'
    <2>1. \A k, l \in Jobs : k # l /\ Busy(k)' /\ Busy(l)' /\ jobs'[k].cashier = jobs'[l].cashier
            => ~jobs'[k].alone
      BY <1>1, <1>5, <1>6, <1>7 DEF FleetInv, AloneJobsInv
    <2>2. ASSUME NEW k \in Jobs, Busy(k)', jobs'[k].state = "worked"
          PROVE  /\ jobs'[k].outcome # "none"
                 /\ jobs'[k].alone /\ Records(jobs'[k].outcome) =>
                      scenes'[jobs'[k].cashier][AreaOf[jobs'[k].block]] = jobs'[k].block
      <3>1. CASE k = j
        BY <1>2, <1>5, <1>6, <1>8, <3>1 DEF Outcomes
      <3>2. CASE k # j
        <4>1. /\ jobs'[k] = jobs[k] /\ Busy(k)
              /\ jobs[k].cashier \in Cashiers /\ AreaOf[jobs[k].block] \in Areas
          BY <1>6, <1>7, <2>2, <3>2, JobTyped
        <4>2. jobs[k].alone => jobs[k].cashier # job.cashier
          BY <1>1, <3>2, <4>1 DEF FleetInv, AloneJobsInv
        <4>3. jobs[k].alone => scenes'[jobs[k].cashier][AreaOf[jobs[k].block]]
                                 = scenes[jobs[k].cashier][AreaOf[jobs[k].block]]
          BY <1>8, <4>1, <4>2
        <4> QED
          BY <2>2, <4>1, <4>3 DEF FleetInv, AloneJobsInv
      <3> QED
        BY <3>1, <3>2
    <2> QED
      BY <2>1, <2>2 DEF AloneJobsInv, Records
  <1>14. TellsInv'
    <2> SUFFICES ASSUME NEW c \in Cashiers, NEW a \in Areas PROVE Told(c, a)'
      BY DEF TellsInv
    <2>1. Told(c, a)
      BY DEF FleetInv, TellsInv
    <2>2. CASE c = job.cashier /\ a = AreaOf[job.block]
      BY <1>5, <1>6, <1>7, <2>2 DEF Told, WillTell
    <2>3. CASE ~(c = job.cashier /\ a = AreaOf[job.block])
      <3>1. scenes'[c][a] = scenes[c][a]
        BY <1>8, <2>3
      <3>2. CASE \E k \in Jobs : WillTell(k, c, a)
        BY <1>1, <1>6, <1>7, <2>3, <3>2 DEF Told, WillTell
      <3> QED
        BY <1>3, <2>1, <3>1, <3>2 DEF Told, Known
    <2> QED
      BY <2>2, <2>3
  <1>15. RestartIsKept'
    <2>1. UnderPublication' = UnderPublication /\ job.cashier \in UnderPublication
      BY <1>1, <1>5, <1>6, <1>7 DEF UnderPublication, Busy
    <2> QED
      BY <1>2, <1>3, <2>1 DEF FleetInv, RestartIsKept, Known
  <1> QED
    BY <1>9, <1>11, <1>12, <1>13, <1>14, <1>15 DEF FleetInv

\* The report: the row of a publication that is alone names what the scene shows.
LEMMA ReportsKeep ==
  ASSUME FleetInv, NEW j \in Jobs, Reports(j)
  PROVE  FleetInv'
  <1>1. PICK job \in Publications :
          /\ job = jobs[j] /\ job.state = "worked" /\ job.cashier \in Cashiers
          /\ job.block \in Blocks /\ AreaOf[job.block] \in Areas /\ Busy(j)
    BY JobTyped DEF Reports
  <1>2. PICK c \in Cashiers, area \in Areas : c = job.cashier /\ area = AreaOf[job.block]
    BY <1>1
  <1>3. /\ job.outcome \in Outcomes
        /\ job.alone /\ Records(job.outcome) => scenes[c][area] = job.block
    BY <1>1, <1>2 DEF FleetInv, AloneJobsInv, Publications
  <1>4. /\ UNCHANGED <<templates, scenes, waiting, schedule>>
        /\ jobs' = [jobs EXCEPT ![j] = Idle]
    BY DEF Reports, loops
  <1>5. /\ jobs \in [Jobs -> {Idle} \cup Publications] /\ scenes \in [Cashiers -> Shown]
        /\ waiting \subseteq Cashiers /\ cashiers \in [Cashiers -> CashierRows]
        /\ cashiers[c] \in CashierRows /\ cashiers[c].current \in Shown
    BY <1>1, <1>2 DEF FleetInv, FleetTypeOK, CashierRows
  <1>6. jobs'[j] = Idle /\ (\A k \in Jobs \ {j} : jobs'[k] = jobs[k])
        /\ jobs' \in [Jobs -> {Idle} \cup Publications]
    BY <1>4, <1>5
  <1>7. PICK rest \in CashierRows :
          /\ cashiers' = [cashiers EXCEPT ![c] = rest] /\ rest.branch = cashiers[c].branch
          /\ \A a \in Areas \ {area} : rest.current[a] = cashiers[c].current[a]
          /\ \/ /\ rest.status = job.outcome
                /\ rest.current[area] = IF Records(job.outcome) THEN job.block
                                          ELSE cashiers[c].current[area]
                /\ voided' = IF job.outcome = "PUBLISHED_AWAITING_RESTART" /\ job.alone
                               THEN voided \ {c} ELSE voided \cup {c}
                /\ unserved' = IF Records(job.outcome) /\ job.alone
                                 THEN unserved \ {<<c, area>>} ELSE unserved \cup {<<c, area>>}
             \/ /\ rest = cashiers[c]
                /\ voided' = voided \cup {c}
                /\ unserved' = unserved \cup {<<c, area>>}
    <2> DEFINE named == IF Records(job.outcome) THEN job.block ELSE cashiers[c].current[area]
    <2>1. CASE /\ cashiers' = [cashiers EXCEPT ![c].status = job.outcome,
                                               ![c].current[area] = named]
               /\ voided' = IF job.outcome = "PUBLISHED_AWAITING_RESTART" /\ job.alone
                              THEN voided \ {c} ELSE voided \cup {c}
               /\ unserved' = IF Records(job.outcome) /\ job.alone
                                THEN unserved \ {<<c, area>>} ELSE unserved \cup {<<c, area>>}
      <3>1. named \in Blocks \cup {NoBlock}
        BY <1>1, <1>2, <1>5 DEF Shown
      <3> HIDE DEF named
      <3>2. PICK screens \in Shown :
              /\ screens = [cashiers[c].current EXCEPT ![area] = named]
              /\ screens[area] = named
              /\ \A a \in Areas \ {area} : screens[a] = cashiers[c].current[a]
        <4>1. PICK was \in Shown : was = cashiers[c].current
          BY <1>5
        <4>2. [was EXCEPT ![area] = named] \in Shown
          BY <3>1 DEF Shown
        <4> QED
          BY <4>1, <4>2 DEF Shown
      <3> DEFINE d == [cashiers[c] EXCEPT !.status = job.outcome, !.current = screens]
      <3>3. /\ d \in CashierRows /\ d.status = job.outcome /\ d.current = screens
            /\ d.branch = cashiers[c].branch
        BY <1>3, <1>5 DEF CashierRows, Outcomes, RowStatuses
      <3>4. cashiers' = [cashiers EXCEPT ![c] = d]
        BY <1>5, <2>1, <3>2 DEF CashierRows
      <3> HIDE DEF d
      <3> QED
        BY <2>1, <3>2, <3>3, <3>4 DEF named
    <2>2. CASE cashiers' = cashiers /\ voided' = voided \cup {c}
               /\ unserved' = unserved \cup {<<c, area>>}
      <3>1. cashiers' = [cashiers EXCEPT ![c] = cashiers[c]]
        BY <1>5, <2>2
      <3> QED
        BY <1>5, <2>2, <3>1
    <2>3. job.outcome \notin {"FAILED", "OFFLINE"} <=> Records(job.outcome)
      BY <1>3 DEF Outcomes, Records
    <2> QED
      BY <1>1, <1>2, <2>1, <2>2, <2>3 DEF Reports
  <1>8. /\ cashiers' \in [Cashiers -> CashierRows] /\ cashiers'[c] = rest
        /\ \A d \in Cashiers \ {c} : cashiers'[d] = cashiers[d]
    BY <1>5, <1>7
  <1>9. ~Busy(j)' /\ (\A k \in Jobs \ {j} : Busy(k)' <=> Busy(k))
    BY <1>6 DEF Busy
  <1>10. FleetTypeOK'
    BY <1>4, <1>5, <1>6, <1>8 DEF FleetInv, FleetTypeOK
  <1>11. OrphansInv'
    <2> SUFFICES ASSUME NEW k \in Jobs, Busy(k)', ~jobs'[k].row
                 PROVE  jobs'[k].cashier \in (Deleted \cup voided)'
      BY DEF OrphansInv
    <2>1. /\ k # j /\ Busy(k) /\ jobs'[k] = jobs[k] /\ jobs[k].cashier \in Cashiers
          /\ jobs[k].cashier \in Deleted \cup voided
      BY <1>6, <1>9, JobTyped DEF FleetInv, OrphansInv, Deleted, Known
    <2>2. cashiers'[jobs[k].cashier].branch # NoBlock <=> Known(jobs[k].cashier)
      BY <1>7, <1>8, <2>1 DEF Known
    <2>3. jobs[k].cashier = c => ~job.alone
      BY <1>1, <1>2, <2>1 DEF FleetInv, AloneJobsInv
    <2> QED
      BY <1>7, <2>1, <2>2, <2>3 DEF Deleted, Known
  <1>12. ScheduleInv'
    BY <1>4 DEF FleetInv, ScheduleInv
  <1>13. AloneJobsInv'
    BY <1>4, <1>6, <1>9 DEF FleetInv, AloneJobsInv
  <1>14. TellsInv'
    <2> SUFFICES ASSUME NEW d \in Cashiers, NEW a \in Areas PROVE Told(d, a)'
      BY DEF TellsInv
    <2>1. Told(d, a)
      BY DEF FleetInv, TellsInv
    <2>2. CASE d = c /\ a = area
      BY <1>3, <1>4, <1>7, <1>8, <2>2 DEF Told
    <2>3. CASE ~(d = c /\ a = area)
      <3>1. cashiers'[d].current[a] = cashiers[d].current[a]
        BY <1>7, <1>8, <2>3
      <3>2. <<d, a>> \in unserved => <<d, a>> \in unserved'
        BY <1>7, <2>3
      <3>3. CASE \E k \in Jobs : WillTell(k, d, a)
        <4>1. PICK k \in Jobs : WillTell(k, d, a)
          BY <3>3
        <4>2. k # j
          BY <1>1, <1>2, <2>3, <4>1 DEF WillTell
        <4> QED
          BY <1>6, <1>9, <4>1, <4>2 DEF Told, WillTell
      <3>4. Known(d)' <=> Known(d)
        BY <1>7, <1>8 DEF Known
      <3> QED
        BY <1>4, <2>1, <3>1, <3>2, <3>3, <3>4 DEF Told
    <2> QED
      BY <2>2, <2>3
  <1>15. RestartIsKept'
    <2>1. UnderPublication \subseteq UnderPublication' \cup {c}
      BY <1>1, <1>2, <1>6, <1>9 DEF UnderPublication, Busy
    <2>2. ASSUME NEW d \in waiting', d \notin voided', d \notin UnderPublication', Known(d)'
          PROVE  cashiers'[d].status = "PUBLISHED_AWAITING_RESTART"
      <3>1. CASE d = c
        BY <1>7, <1>8, <2>2, <3>1
      <3>2. CASE d # c
        <4>1. /\ d \in waiting /\ d \in Cashiers /\ d \notin voided
              /\ d \notin UnderPublication /\ cashiers'[d] = cashiers[d]
          BY <1>4, <1>5, <1>7, <1>8, <2>1, <2>2, <3>2
        <4> QED
          BY <2>2, <4>1 DEF FleetInv, RestartIsKept, Known
      <3> QED
        BY <3>1, <3>2
    <2> QED
      BY <2>2 DEF RestartIsKept
  <1> QED
    BY <1>10, <1>11, <1>12, <1>13, <1>14, <1>15 DEF FleetInv

\* A job is dropped whose row went with its cashier: a row that is there since is known.
LEMMA DropsKeep ==
  ASSUME FleetInv, NEW j \in Jobs, Drops(j)
  PROVE  FleetInv'
  <1>1. /\ UNCHANGED <<cashiers, templates, scenes, waiting, schedule, voided, unserved>>
        /\ jobs[j].state = "queued" /\ ~jobs[j].row /\ Busy(j)
        /\ jobs' = [jobs EXCEPT ![j] = Idle] /\ jobs \in [Jobs -> {Idle} \cup Publications]
    BY JobTyped DEF Drops, loops, FleetInv, FleetTypeOK
  <1>2. /\ ~Busy(j)' /\ jobs' \in [Jobs -> {Idle} \cup Publications]
        /\ \A k \in Jobs \ {j} : jobs'[k] = jobs[k] /\ (Busy(k)' <=> Busy(k))
    BY <1>1 DEF Busy
  <1>3. FleetTypeOK' /\ ScheduleInv'
    BY <1>1, <1>2 DEF FleetInv, FleetTypeOK, ScheduleInv
  <1>4. OrphansInv' /\ AloneJobsInv'
    BY <1>1, <1>2 DEF FleetInv, OrphansInv, Deleted, Known, AloneJobsInv, Known
  <1>5. TellsInv'
    <2> SUFFICES ASSUME NEW c \in Cashiers, NEW a \in Areas PROVE Told(c, a)'
      BY DEF TellsInv
    <2>1. Told(c, a)
      BY DEF FleetInv, TellsInv
    <2>2. \A k \in Jobs : WillTell(k, c, a) => WillTell(k, c, a)'
      BY <1>1, <1>2 DEF WillTell
    <2> QED
      BY <1>1, <2>1, <2>2 DEF Told, Known
  <1>6. RestartIsKept'
    <2> SUFFICES ASSUME NEW c \in waiting, c \notin voided, c \notin UnderPublication', Known(c)
                 PROVE  cashiers[c].status = "PUBLISHED_AWAITING_RESTART"
      BY <1>1 DEF RestartIsKept, Known
    <2>1. jobs[j].cashier # c
      BY <1>1 DEF FleetInv, OrphansInv, Deleted, Known
    <2>2. c \notin UnderPublication
      <3> SUFFICES ASSUME NEW k \in Jobs, Busy(k), jobs[k].cashier = c PROVE FALSE
        BY DEF UnderPublication, Busy
      <3>1. k # j /\ jobs'[k].cashier = c /\ Busy(k)'
        BY <1>2, <2>1
      <3> QED
        BY <3>1 DEF UnderPublication, Busy
    <2> QED
      BY <2>2 DEF FleetInv, RestartIsKept
  <1> QED
    BY <1>3, <1>4, <1>5, <1>6 DEF FleetInv

\* The rows that the watchdog of schedules reads.
LEMMA ScheduleReadsKeep ==
  ASSUME FleetInv, NEW p \in Apis, ScheduleReads(p) \/ ScheduleEnds(p)
  PROVE  FleetInv'
  <1>1. UNCHANGED <<cashiers, templates, scenes, waiting, jobs, voided, unserved>>
    BY DEF ScheduleReads, ScheduleEnds
  <1>2. ScheduleInv'
    <2>1. \A a \in Areas : AreaOf[DefaultOf(a)] = a
      BY FleetAssumption DEF Areas, DefaultOf
    <2> DEFINE none == [a \in Areas |->
                          IF DefaultOf(a) \in templates THEN DefaultOf(a) ELSE NoBlock]
               what == [state |-> "read", default |-> none,
                        current |-> [c \in {e \in Cashiers : Enabled(e)} |-> cashiers[c].current]]
    <2>2. /\ what.default = none
          /\ \A a \in Areas : none[a] # NoBlock => AreaOf[none[a]] = a
      BY <2>1
    <2>3. DefaultsFit(Idle) /\ DefaultsFit(what)
      BY <2>2 DEF DefaultsFit, Idle
    <2>4. schedule' = [schedule EXCEPT ![p] = Idle] \/ schedule' = [schedule EXCEPT ![p] = what]
      BY DEF ScheduleReads, ScheduleEnds
    <2> HIDE DEF what
    <2> QED
      BY <2>3, <2>4 DEF FleetInv, ScheduleInv
  <1> QED
    BY <1>1, <1>2
    DEF FleetInv, FleetTypeOK, OrphansInv, Deleted, AloneJobsInv, TellsInv, Told, WillTell,
        RestartIsKept,
        UnderPublication, Busy, Known

\* One cashier of the schedules' cycle: the row names the defaults before they are delivered.
LEMMA ScheduleWritesKeep ==
  ASSUME FleetInv, NEW p \in Apis, NEW c \in Cashiers, ScheduleWrites(p, c)
  PROVE  FleetInv'
  <1> DEFINE seen == schedule[p]
  <1>1. /\ seen.state = "read" /\ UNCHANGED <<templates, scenes, waiting, voided>>
        /\ DefaultsFit(seen)
    BY DEF ScheduleWrites, FleetInv, ScheduleInv
  <1>2. ScheduleInv'
    <2> DEFINE left == [seen EXCEPT !.current = Without(seen.current, c)]
    <2>1. DefaultsFit(Idle)
      BY DEF DefaultsFit, Idle
    <2>2. left.state = seen.state /\ left.default = seen.default
      OBVIOUS
    <2>3. DefaultsFit(left)
      BY <1>1, <2>2 DEF DefaultsFit
    <2>4. schedule' = [schedule EXCEPT ![p] = Idle] \/ schedule' = [schedule EXCEPT ![p] = left]
      BY DEF ScheduleWrites
    <2> HIDE DEF left
    <2> QED
      BY <2>1, <2>3, <2>4 DEF FleetInv, ScheduleInv
  <1>3. CASE UNCHANGED <<cashiers, jobs, unserved>>
    BY <1>1, <1>2, <1>3
    DEF FleetInv, FleetTypeOK, OrphansInv, Deleted, AloneJobsInv, TellsInv, Told, WillTell,
        RestartIsKept,
        UnderPublication, Busy, Known
  <1>4. ASSUME NEW over \in (SUBSET Replaceable(seen, c)) \ {{}},
               \A a \in over : seen.default[a] \in templates,
               Reverts(seen, c, over),
               \/ /\ \E j \in Jobs : Enqueue(j, c, seen.default[PublishedArea(over)])
                  /\ unserved' = unserved \cup ({c} \X (over \ {PublishedArea(over)}))
               \/ /\ unserved' = unserved \cup ({c} \X over)
                  /\ UNCHANGED jobs
        PROVE  FleetInv'
    <2>8. unserved \subseteq unserved' /\ over # {}
      BY <1>4
    <2>1. /\ cashiers \in [Cashiers -> CashierRows] /\ templates \subseteq Blocks
          /\ cashiers[c] \in CashierRows /\ cashiers[c].current \in Shown /\ NoBlock \notin Blocks
      BY FleetAssumption DEF FleetInv, FleetTypeOK, CashierRows
    <2>2. /\ over \subseteq Areas
          /\ \A a \in over : /\ seen.current[c][a] \in templates
                             /\ seen.default[a] \in Blocks
                             /\ AreaOf[seen.default[a]] = a
      BY <1>1, <1>4, <2>1 DEF Replaceable, DefaultsFit
    <2>4. PICK rest \in CashierRows :
            /\ cashiers' = [cashiers EXCEPT ![c] = rest] /\ rest.branch = cashiers[c].branch
            /\ rest.status = cashiers[c].status
            /\ \A a \in Areas \ over : rest.current[a] = cashiers[c].current[a]
      <3> DEFINE screens == [a \in Areas |-> IF a \in over THEN seen.default[a]
                                               ELSE cashiers[c].current[a]]
                 d == [cashiers[c] EXCEPT !.current = screens]
      <3>1. screens \in Shown
        BY <2>1, <2>2 DEF Shown
      <3>2. \A a \in Areas \ over : screens[a] = cashiers[c].current[a]
        OBVIOUS
      <3>3. cashiers' = [cashiers EXCEPT ![c] = d]
        BY <1>4, <2>1 DEF Reverts
      <3> HIDE DEF screens
      <3>4. /\ d \in CashierRows /\ d.current = screens /\ d.branch = cashiers[c].branch
            /\ d.status = cashiers[c].status
        BY <2>1, <3>1 DEF CashierRows
      <3> QED
        BY <3>2, <3>3, <3>4
    <2>5. /\ cashiers' \in [Cashiers -> CashierRows]
          /\ \A d \in Cashiers : /\ cashiers'[d].branch = cashiers[d].branch
                                 /\ cashiers'[d].status = cashiers[d].status
          /\ \A d \in Cashiers, a \in Areas :
               cashiers'[d].current[a] = cashiers[d].current[a] \/ (d = c /\ a \in over)
      BY <2>1, <2>4
    <2>6. ASSUME NEW j \in Jobs, Enqueue(j, c, seen.default[PublishedArea(over)]),
                 unserved' = unserved \cup ({c} \X (over \ {PublishedArea(over)}))
          PROVE  FleetInv'
      <3>1. PublishedArea(over) \in over
        BY <1>4, <2>2 DEF PublishedArea, Areas
      <3>2. PICK b \in Blocks :
              b = seen.default[PublishedArea(over)] /\ AreaOf[b] = PublishedArea(over)
        BY <2>2, <3>1
      <3>3. \A d \in Cashiers, a \in Areas :
              \/ cashiers'[d].current[a] = cashiers[d].current[a]
              \/ d = c /\ (a = AreaOf[b] \/ <<c, a>> \in unserved')
        BY <2>5, <2>6, <3>2
      <3> QED
        BY <1>1, <1>2, <1>4, <2>5, <2>6, <2>8, <3>2, <3>3, StartKeeps
    <2>7. CASE /\ unserved' = unserved \cup ({c} \X over)
               /\ UNCHANGED jobs
      <3>1. FleetTypeOK' /\ AloneJobsInv'
        BY <1>1, <2>5, <2>7 DEF FleetInv, FleetTypeOK, AloneJobsInv, Busy
      <3>2. OrphansInv'
        BY <1>1, <2>5, <2>7, JobTyped DEF FleetInv, OrphansInv, Deleted, Known, Busy, Known
      <3>3. TellsInv'
        <4> SUFFICES ASSUME NEW d \in Cashiers, NEW a \in Areas PROVE Told(d, a)'
          BY DEF TellsInv
        <4>1. Told(d, a)
          BY DEF FleetInv, TellsInv
        <4>2. CASE d = c /\ a \in over
          BY <2>7, <4>2 DEF Told
        <4>3. CASE ~(d = c /\ a \in over)
          <5>1. cashiers'[d].current[a] = cashiers[d].current[a]
            BY <2>5, <4>3
          <5> QED
            BY <1>1, <2>5, <2>7, <4>1, <5>1 DEF Told, WillTell, Busy, Known
        <4> QED
          BY <4>2, <4>3
      <3>4. RestartIsKept'
        <4>1. UnderPublication' = UnderPublication /\ waiting \subseteq Cashiers
          BY <2>7 DEF UnderPublication, FleetInv, FleetTypeOK
        <4> QED
          BY <1>1, <2>5, <4>1 DEF FleetInv, RestartIsKept, Known
      <3> QED
        BY <1>2, <3>1, <3>2, <3>3, <3>4 DEF FleetInv
    <2> QED
      BY <1>4, <2>6, <2>7
  <1> QED
    <2>1. CASE UNCHANGED <<cashiers, jobs, unserved>>
      BY <1>3, <2>1
    <2>2. CASE ~UNCHANGED <<cashiers, jobs, unserved>>
      <3>1. PICK over \in (SUBSET Replaceable(seen, c)) \ {{}} :
              /\ \A a \in over : seen.default[a] \in templates
              /\ Reverts(seen, c, over)
              /\ \/ /\ \E j \in Jobs : Enqueue(j, c, seen.default[PublishedArea(over)])
                    /\ unserved' = unserved \cup ({c} \X (over \ {PublishedArea(over)}))
                 \/ /\ unserved' = unserved \cup ({c} \X over)
                    /\ UNCHANGED jobs
        BY <2>2 DEF ScheduleWrites
      <3> QED
        BY <1>4, <3>1
    <2> QED
      BY <2>1, <2>2

\* A cashier is deleted, and with its row those of its jobs.
LEMMA CashierDeleted ==
  ASSUME FleetInv, NEW c \in Cashiers, DeleteCashier(c)
  PROVE  FleetInv'
  <1>1. /\ cashiers' = [cashiers EXCEPT ![c] = NoRowYet]
        /\ jobs' = [k \in Jobs |-> IF k \in Publishing(c)
             THEN [jobs[k] EXCEPT !.row = FALSE, !.alone = FALSE] ELSE jobs[k]]
        /\ UNCHANGED <<templates, scenes, waiting, voided, unserved>>
    BY DEF DeleteCashier
  <1>2. /\ cashiers \in [Cashiers -> CashierRows] /\ jobs \in [Jobs -> {Idle} \cup Publications]
        /\ waiting \subseteq Cashiers /\ NoRowYet \in CashierRows
        /\ NoRowYet.branch = NoBlock
    BY DEF FleetInv, FleetTypeOK, NoRowYet, CashierRows, RowStatuses, Shown
  <1>3. /\ ~Known(c)' /\ \A d \in Cashiers \ {c} : cashiers'[d] = cashiers[d]
        /\ cashiers' \in [Cashiers -> CashierRows]
    BY <1>1, <1>2 DEF Known
  <1>4. ASSUME NEW k \in Jobs
        PROVE  /\ jobs'[k] \in {Idle} \cup Publications /\ (Busy(k)' <=> Busy(k))
               /\ Busy(k) => /\ jobs'[k].cashier = jobs[k].cashier
                             /\ jobs'[k].block = jobs[k].block
                             /\ jobs'[k].state = jobs[k].state
                             /\ jobs'[k].outcome = jobs[k].outcome
                             /\ jobs'[k].alone => jobs[k].alone
                             /\ jobs[k].cashier # c => jobs'[k] = jobs[k]
    <2>1. CASE k \in Publishing(c)
      <3>1. Busy(k) /\ jobs[k] \in Publications /\ jobs[k].cashier = c
        BY <2>1, JobTyped DEF Publishing, Busy
      <3> DEFINE e == [jobs[k] EXCEPT !.row = FALSE, !.alone = FALSE]
      <3>2. jobs'[k] = e
        BY <1>1, <2>1
      <3>3. /\ e \in Publications /\ e.cashier = jobs[k].cashier /\ e.block = jobs[k].block
            /\ e.state = jobs[k].state /\ e.outcome = jobs[k].outcome /\ ~e.alone
        BY <3>1 DEF Publications
      <3> HIDE DEF e
      <3>4. e.state # Idle.state
        BY <3>3 DEF Publications, Idle
      <3> QED
        BY <3>1, <3>2, <3>3, <3>4 DEF Busy
    <2>2. CASE k \notin Publishing(c)
      <3>1. jobs'[k] = jobs[k]
        BY <1>1, <2>2
      <3> QED
        BY <1>2, <3>1 DEF Busy
    <2> QED
      BY <2>1, <2>2
  <1>5. FleetTypeOK'
    <2>1. jobs' \in [Jobs -> {Idle} \cup Publications]
      BY <1>1, <1>4
    <2> QED
      BY <1>1, <1>3, <2>1 DEF FleetInv, FleetTypeOK
  <1>6. OrphansInv'
    <2> SUFFICES ASSUME NEW k \in Jobs, Busy(k)', ~jobs'[k].row
                 PROVE  jobs'[k].cashier \in (Deleted \cup voided)'
      BY DEF OrphansInv
    <2>1. Busy(k) /\ jobs'[k].cashier = jobs[k].cashier /\ jobs[k].cashier \in Cashiers
      BY <1>4, JobTyped
    <2>2. CASE jobs[k].cashier = c
      BY <1>3, <2>1, <2>2 DEF Deleted, Known
    <2>3. CASE jobs[k].cashier # c
      <3>1. ~jobs[k].row /\ cashiers'[jobs[k].cashier] = cashiers[jobs[k].cashier]
        BY <1>3, <1>4, <2>1, <2>3
      <3>2. jobs[k].cashier \in Deleted \cup voided
        BY <2>1, <3>1 DEF FleetInv, OrphansInv
      <3>3. PICK d \in Cashiers : d = jobs[k].cashier
        BY <2>1
      <3>4. d \in Deleted \cup voided /\ cashiers'[d] = cashiers[d] /\ voided' = voided
        BY <1>1, <3>1, <3>2, <3>3
      <3>5. d \in (Deleted \cup voided)'
        BY <3>4 DEF Deleted, Known
      <3> QED
        BY <2>1, <3>3, <3>5
    <2> QED
      BY <2>2, <2>3
  <1>7. ScheduleInv'
    <2>1. schedule' = [p \in Apis |-> IF schedule[p].state = "read"
                         THEN [schedule[p] EXCEPT !.current = Without(schedule[p].current, c)]
                         ELSE schedule[p]]
      BY DEF DeleteCashier
    <2> SUFFICES ASSUME NEW p \in Apis PROVE DefaultsFit(schedule'[p])
      BY <2>1 DEF ScheduleInv, DefaultsFit
    <2> DEFINE left == [schedule[p] EXCEPT !.current = Without(schedule[p].current, c)]
    <2>2. left.state = schedule[p].state /\ left.default = schedule[p].default
      OBVIOUS
    <2>3. schedule'[p] = left \/ schedule'[p] = schedule[p]
      BY <2>1
    <2> HIDE DEF left
    <2> QED
      BY <2>2, <2>3 DEF FleetInv, ScheduleInv, DefaultsFit
  <1>8. AloneJobsInv'
    <2>1. \A k, l \in Jobs : k # l /\ Busy(k)' /\ Busy(l)' /\ jobs'[k].cashier = jobs'[l].cashier
            => ~jobs'[k].alone
      BY <1>4 DEF FleetInv, AloneJobsInv
    <2>2. ASSUME NEW k \in Jobs, Busy(k)', jobs'[k].state = "worked"
          PROVE  /\ jobs'[k].outcome # "none"
                 /\ jobs'[k].alone /\ Records(jobs'[k].outcome) =>
                      scenes'[jobs'[k].cashier][AreaOf[jobs'[k].block]] = jobs'[k].block
      <3>1. /\ Busy(k) /\ jobs[k].state = "worked" /\ jobs'[k].outcome = jobs[k].outcome
            /\ jobs'[k].cashier = jobs[k].cashier /\ jobs'[k].block = jobs[k].block
            /\ jobs'[k].alone => jobs[k].alone
        BY <1>4, <2>2
      <3>2. /\ jobs[k].outcome # "none"
            /\ jobs[k].alone /\ Records(jobs[k].outcome) =>
                 scenes[jobs[k].cashier][AreaOf[jobs[k].block]] = jobs[k].block
        BY <3>1 DEF FleetInv, AloneJobsInv
      <3> QED
        BY <1>1, <3>1, <3>2
    <2> QED
      BY <2>1, <2>2 DEF AloneJobsInv, Records
  <1>9. TellsInv'
    <2> SUFFICES ASSUME NEW d \in Cashiers, NEW a \in Areas, d # c PROVE Told(d, a)'
      BY <1>3 DEF TellsInv, Told
    <2>1. Told(d, a) /\ cashiers'[d] = cashiers[d]
      BY <1>3 DEF FleetInv, TellsInv
    <2>2. \A k \in Jobs : WillTell(k, d, a) => WillTell(k, d, a)'
      BY <1>4 DEF WillTell
    <2> QED
      BY <1>1, <2>1, <2>2 DEF Told, Known
  <1>10. RestartIsKept'
    <2>1. UnderPublication \subseteq UnderPublication'
      BY <1>4 DEF UnderPublication, Busy
    <2>2. ASSUME NEW d \in waiting, d \notin voided, d \notin UnderPublication', Known(d)'
          PROVE  cashiers'[d].status = "PUBLISHED_AWAITING_RESTART"
      <3>1. d # c /\ d \in Cashiers /\ cashiers'[d] = cashiers[d]
        BY <1>2, <1>3, <2>2
      <3> QED
        BY <2>1, <2>2, <3>1 DEF FleetInv, RestartIsKept, Known
    <2> QED
      BY <1>1, <2>2 DEF RestartIsKept
  <1> QED
    BY <1>5, <1>6, <1>7, <1>8, <1>9, <1>10 DEF FleetInv

\* The rows of regions, branches and cashiers, as the editors write them.
LEMMA EditorsKeep ==
  ASSUME FleetInv,
         \/ \E r \in Regions : CreateRegion(r) \/ DeleteRegion(r)
         \/ \E n \in Branches, r \in Regions : CreateBranch(n, r) \/ UpdateBranch(n, r)
         \/ \E n \in Branches : DeleteBranch(n)
         \/ \E c \in Cashiers, n \in Branches : CreateCashier(c, n)
         \/ \E c \in Cashiers, n \in Branches, enabled \in BOOLEAN :
              UpdateCashier(c, n, enabled) \/ FinishProbe(c, n, enabled)
         \/ \E c \in Cashiers : AsksCashier(c) \/ DeleteCashier(c)
         \/ \E b \in Blocks : DeleteTemplate(b)
  PROVE  FleetInv'
  <1>1. /\ cashiers \in [Cashiers -> CashierRows] /\ templates \subseteq Blocks
        /\ waiting \subseteq Cashiers /\ NoBlock \notin Blocks \cup Branches
        /\ \A c \in Cashiers : cashiers[c] \in CashierRows
    BY FleetAssumption DEF FleetInv, FleetTypeOK
  <1>2. NoRowYet \in CashierRows /\ NoRowYet.branch = NoBlock
        /\ \A a \in Areas : NoRowYet.current[a] = NoBlock
    BY DEF NoRowYet, CashierRows, RowStatuses, Shown
  <1>3. CASE UNCHANGED <<scenes, schedule, jobs, templates, cashiers, waiting, voided,
                         unserved>>
    BY <1>1, <1>3, RowsKept DEF Known
  \* One row is written, and names what it did.
  <1>4. ASSUME NEW c \in Cashiers, NEW e \in CashierRows, cashiers' = [cashiers EXCEPT ![c] = e],
               UNCHANGED <<scenes, schedule, jobs, templates, waiting, unserved>>,
               voided \subseteq voided', Known(c), e.branch # NoBlock,
               \A a \in Areas : e.current[a] = cashiers[c].current[a],
               c \in voided' \/ e.status = cashiers[c].status
        PROVE  FleetInv'
    <2>1. cashiers'[c] = e /\ \A d \in Cashiers \ {c} : cashiers'[d] = cashiers[d]
      BY <1>1, <1>4
    <2>2. cashiers' \in [Cashiers -> CashierRows]
      BY <1>1, <1>4
    <2>3. \A d \in Cashiers : Known(d)' <=> Known(d)
      BY <1>1, <1>4, <2>1 DEF Known
    <2>4. \A d \in Cashiers, a \in Areas : cashiers'[d].current[a] = cashiers[d].current[a]
      BY <1>4, <2>1
    <2>5. \A d \in waiting' :
           \/ d \in voided'
           \/ ~Known(d)'
           \/ Known(d) /\ (cashiers[d].status = "PUBLISHED_AWAITING_RESTART"
                             => cashiers'[d].status = "PUBLISHED_AWAITING_RESTART")
      BY <1>1, <1>4, <2>1, <2>3
    <2> QED
      BY <1>1, <1>4, <2>2, <2>3, <2>4, <2>5, RowsKept
  \* A new row names nothing, and what the cashier shows already is known.
  <1>5. ASSUME NEW c \in Cashiers, NEW n \in Branches, CreateCashier(c, n) PROVE FleetInv'
    <2>1. PICK e \in CashierRows :
            /\ cashiers' = [cashiers EXCEPT ![c] = e] /\ e.branch = n
            /\ \A a \in Areas : e.current[a] = NoBlock
      <3> DEFINE d == [NoRowYet EXCEPT !.branch = n, !.enabled = TRUE]
      <3>1. d \in CashierRows /\ d.branch = n /\ d.current = NoRowYet.current
        BY <1>2 DEF CashierRows
      <3>2. cashiers' = [cashiers EXCEPT ![c] = d]
        BY <1>5 DEF CreateCashier
      <3> HIDE DEF d
      <3> QED
        BY <1>2, <3>1, <3>2
    <2>2. /\ UNCHANGED <<scenes, schedule, jobs, templates, waiting>>
          /\ voided \subseteq voided' /\ c \in voided'
          /\ unserved' = unserved \cup ({c} \X {a \in Areas : scenes[c][a] # NoBlock})
      BY <1>5 DEF CreateCashier, EditsRow
    <2>3. cashiers'[c] = e /\ \A d \in Cashiers \ {c} : cashiers'[d] = cashiers[d]
      BY <1>1, <2>1
    <2>4. cashiers' \in [Cashiers -> CashierRows]
      BY <1>1, <2>1
    <2>5. \A d \in Cashiers \ {c} : Known(d)' <=> Known(d)
      BY <2>3 DEF Known
    <2>6. \A d \in Cashiers, a \in Areas :
           \/ cashiers'[d].current[a] = cashiers[d].current[a] /\ (Known(d)' => Known(d))
           \/ cashiers'[d].current[a] = NoBlock
                /\ (scenes[d][a] = NoBlock \/ <<d, a>> \in unserved')
      BY <2>1, <2>2, <2>3, <2>5
    <2>7. \A d \in waiting' :
           \/ d \in voided'
           \/ ~Known(d)'
           \/ Known(d) /\ (cashiers[d].status = "PUBLISHED_AWAITING_RESTART"
                             => cashiers'[d].status = "PUBLISHED_AWAITING_RESTART")
      BY <1>1, <2>2, <2>3, <2>5
    <2>8. unserved \subseteq unserved' /\ templates' \subseteq Blocks
          /\ \A d \in Cashiers : Known(d)' => Known(d) \/ d \in voided'
      BY <1>1, <2>2, <2>5
    <2> QED
      BY <2>2, <2>4, <2>6, <2>7, <2>8, RowsKept
  <1>6. ASSUME NEW c \in Cashiers, NEW n \in Branches, NEW enabled \in BOOLEAN,
               UpdateCashier(c, n, enabled)
        PROVE  FleetInv'
    <2>1. PICK e \in CashierRows :
            /\ cashiers' = [cashiers EXCEPT ![c] = e] /\ e.branch = n
            /\ e.status = cashiers[c].status /\ e.current = cashiers[c].current
      <3> DEFINE d == [cashiers[c] EXCEPT !.branch = n, !.enabled = enabled]
      <3>1. /\ d \in CashierRows /\ d.branch = n /\ d.current = cashiers[c].current
            /\ d.status = cashiers[c].status
        BY <1>1 DEF CashierRows
      <3>2. cashiers' = [cashiers EXCEPT ![c] = d]
        BY <1>1, <1>6 DEF UpdateCashier
      <3> HIDE DEF d
      <3> QED
        BY <3>1, <3>2
    <2>2. /\ UNCHANGED <<scenes, schedule, jobs, templates, waiting, unserved>>
          /\ voided \subseteq voided' /\ Known(c) /\ e.branch # NoBlock
          /\ \A a \in Areas : e.current[a] = cashiers[c].current[a]
      BY <1>1, <1>6, <2>1 DEF UpdateCashier, EditsRow
    <2>4. cashiers' = [cashiers EXCEPT ![c] = e] /\ e.status = cashiers[c].status
      BY <2>1
    <2> QED
      BY <1>4, <2>2, <2>4
  <1>7. ASSUME NEW c \in Cashiers, NEW n \in Branches, NEW enabled \in BOOLEAN,
               FinishProbe(c, n, enabled)
        PROVE  FleetInv'
    <2>1. PICK e \in CashierRows :
            /\ cashiers' = [cashiers EXCEPT ![c] = e] /\ e.branch = n
            /\ e.current = cashiers[c].current
      <3>1. PICK status \in {"OFFLINE", "SUCCESS"} :
              cashiers' = [cashiers EXCEPT ![c] = [Sets(c, probing[c], status) EXCEPT
                                                     !.branch = n, !.enabled = enabled]]
        BY <1>7 DEF FinishProbe
      <3> DEFINE d == [Sets(c, probing[c], status) EXCEPT !.branch = n, !.enabled = enabled]
      <3>2. d \in CashierRows /\ d.branch = n /\ d.current = cashiers[c].current
        BY <1>1 DEF CashierRows, Sets, RowStatuses
      <3> HIDE DEF d
      <3> QED
        BY <3>1, <3>2 DEF d
    <2>2. /\ UNCHANGED <<scenes, schedule, jobs, templates, waiting, unserved>>
          /\ voided \subseteq voided' /\ c \in voided' /\ e.branch # NoBlock
          /\ Known(c)
          /\ \A a \in Areas : e.current[a] = cashiers[c].current[a]
      BY <1>1, <1>7, <2>1 DEF FinishProbe
    <2>4. cashiers' = [cashiers EXCEPT ![c] = e]
      BY <2>1
    <2> QED
      BY <1>4, <2>2, <2>4
  <1>8. ASSUME NEW c \in Cashiers, DeleteCashier(c) PROVE FleetInv'
    BY <1>8, CashierDeleted
  <1>9. ASSUME NEW b \in Blocks, DeleteTemplate(b) PROVE FleetInv'
    <2> DEFINE showing == {c \in Cashiers : cashiers[c].current[AreaOf[b]] = b}
    <2>1. AreaOf[b] \in Areas
      BY FleetAssumption DEF Areas
    <2>2. ASSUME NEW c \in Cashiers
          PROVE  /\ cashiers'[c] \in CashierRows /\ cashiers'[c].branch = cashiers[c].branch
                 /\ cashiers'[c].status = cashiers[c].status
                 /\ \A a \in Areas :
                      \/ cashiers'[c].current[a] = cashiers[c].current[a]
                      \/ cashiers'[c].current[a] = NoBlock /\ <<c, a>> \in unserved'
      <3>1. CASE c \in showing
        <4>1. PICK was \in Shown : was = cashiers[c].current
          BY <1>1 DEF CashierRows
        <4> DEFINE left == [was EXCEPT ![AreaOf[b]] = NoBlock]
        <4>2. /\ left \in Shown /\ left[AreaOf[b]] = NoBlock
              /\ \A a \in Areas \ {AreaOf[b]} : left[a] = was[a]
          BY <2>1 DEF Shown
        <4>3. cashiers'[c] = [cashiers[c] EXCEPT !.current = left]
          BY <1>1, <1>9, <3>1, <4>1 DEF DeleteTemplate
        <4> HIDE DEF left
        <4>4. /\ cashiers'[c] \in CashierRows /\ cashiers'[c].branch = cashiers[c].branch
              /\ cashiers'[c].status = cashiers[c].status /\ cashiers'[c].current = left
          BY <1>1, <4>2, <4>3 DEF CashierRows
        <4>5. <<c, AreaOf[b]>> \in unserved'
          BY <1>9, <3>1 DEF DeleteTemplate
        <4> QED
          BY <4>1, <4>2, <4>4, <4>5
      <3>2. CASE c \notin showing
        BY <1>1, <1>9, <3>2 DEF DeleteTemplate
      <3> QED
        BY <3>1, <3>2
    <2>3. cashiers' \in [Cashiers -> CashierRows]
      <3>1. cashiers' = [c \in Cashiers |-> cashiers'[c]]
        BY <1>9 DEF DeleteTemplate
      <3> QED
        BY <2>2, <3>1
    <2>4. /\ UNCHANGED <<scenes, schedule, jobs, waiting, voided>>
          /\ templates' \subseteq Blocks /\ unserved \subseteq unserved'
      BY <1>1, <1>9 DEF DeleteTemplate, EditsRow
    <2>5. \A c \in Cashiers : Known(c)' <=> Known(c)
      BY <2>2 DEF Known
    <2>6. \A c \in waiting' :
           \/ c \in voided'
           \/ ~Known(c)'
           \/ Known(c) /\ (cashiers[c].status = "PUBLISHED_AWAITING_RESTART"
                             => cashiers'[c].status = "PUBLISHED_AWAITING_RESTART")
      BY <1>1, <2>2, <2>4, <2>5
    <2> QED
      BY <1>1, <2>2, <2>3, <2>4, <2>5, <2>6, RowsKept
  <1> QED
    BY <1>3, <1>5, <1>6, <1>7, <1>8, <1>9
    DEF CreateRegion, DeleteRegion, CreateBranch, UpdateBranch, DeleteBranch, AsksCashier, EditsRow

\* The heartbeat and the maintenance window: a status that was read too early is known, and one
\* that waits for a restart is only set by the reload.
LEMMA CyclesKeep ==
  ASSUME FleetInv, \/ \E p \in Apis : BeatReads(p) \/ BeatWrites(p)
                   \/ WindowReads \/ WindowWrites
                   \/ \E c \in Cashiers : FrontStarts(c)
  PROVE  FleetInv'
  <1>1. /\ cashiers \in [Cashiers -> CashierRows] /\ templates \subseteq Blocks
        /\ waiting \subseteq Cashiers
        /\ \A c \in Cashiers : cashiers[c] \in CashierRows
    BY DEF FleetInv, FleetTypeOK
  <1>2. CASE /\ UNCHANGED <<scenes, schedule, jobs, templates, cashiers, unserved>>
             /\ voided' = voided /\ waiting' \subseteq waiting
    BY <1>1, <1>2, RowsKept DEF Known
  \* Only statuses are written.
  <1>3. ASSUME UNCHANGED <<scenes, schedule, jobs, templates, unserved>>,
               cashiers' = [c \in Cashiers |-> cashiers'[c]],
               waiting' \subseteq waiting, voided \subseteq voided',
               \A c \in Cashiers : \E status \in RowStatuses :
                 /\ cashiers'[c] = [cashiers[c] EXCEPT !.status = status]
                 /\ (c \in waiting' /\ c \notin voided'
                       /\ cashiers[c].status = "PUBLISHED_AWAITING_RESTART"
                         => status = "PUBLISHED_AWAITING_RESTART")
        PROVE  FleetInv'
    <2>1. \A c \in Cashiers :
            /\ cashiers'[c] \in CashierRows /\ cashiers'[c].branch = cashiers[c].branch
            /\ cashiers'[c].current = cashiers[c].current
            /\ (c \in waiting' /\ c \notin voided'
                  /\ cashiers[c].status = "PUBLISHED_AWAITING_RESTART"
                    => cashiers'[c].status = "PUBLISHED_AWAITING_RESTART")
      <3> TAKE c \in Cashiers
      <3>1. PICK status \in RowStatuses :
              /\ cashiers'[c] = [cashiers[c] EXCEPT !.status = status]
              /\ (c \in waiting' /\ c \notin voided'
                    /\ cashiers[c].status = "PUBLISHED_AWAITING_RESTART"
                      => status = "PUBLISHED_AWAITING_RESTART")
        BY <1>3
      <3> QED
        BY <1>1, <3>1 DEF CashierRows
    <2>2. cashiers' \in [Cashiers -> CashierRows]
      BY <1>3, <2>1
    <2>3. \A c \in Cashiers : Known(c)' <=> Known(c)
      BY <2>1 DEF Known
    <2> QED
      BY <1>1, <1>3, <2>1, <2>2, <2>3, RowsKept
  <1>4. ASSUME NEW p \in Apis, BeatWrites(p) PROVE FleetInv'
    <2> DEFINE read == beat[p].read
    <2>1. UNCHANGED <<scenes, schedule, jobs, templates, unserved, waiting>>
      BY <1>4 DEF BeatWrites
    <2>2. CASE UNCHANGED <<cashiers, voided>>
      BY <1>2, <2>1, <2>2
    <2>3. ASSUME NEW online,
                 cashiers' = [c \in Cashiers |-> IF c \in DOMAIN read
                               THEN Sets(c, read[c], ProbeAndUpdate(read[c], c \in online))
                               ELSE cashiers[c]],
                 voided' = voided \cup {c \in DOMAIN read : read[c] # cashiers[c].status}
          PROVE  FleetInv'
      <3>1. ASSUME NEW c \in Cashiers
            PROVE  \E status \in RowStatuses :
                     /\ cashiers'[c] = [cashiers[c] EXCEPT !.status = status]
                     /\ (c \in waiting' /\ c \notin voided'
                           /\ cashiers[c].status = "PUBLISHED_AWAITING_RESTART"
                             => status = "PUBLISHED_AWAITING_RESTART")
        <4>1. cashiers[c].status \in RowStatuses
          BY <1>1 DEF CashierRows
        <4>2. CASE c \in DOMAIN read
          <5> DEFINE new == ProbeAndUpdate(read[c], c \in online)
                     set == IF new = read[c] THEN cashiers[c].status ELSE new
          <5>1. new \in {"SUCCESS", "OFFLINE", read[c]}
            BY DEF ProbeAndUpdate
          <5>2. read[c] = "PUBLISHED_AWAITING_RESTART" => new = read[c]
            BY DEF ProbeAndUpdate
          <5>3. cashiers'[c] = [cashiers[c] EXCEPT !.status = set]
            BY <2>3, <4>2 DEF Sets
          <5> HIDE DEF new
          <5>4. set \in RowStatuses
            BY <4>1, <5>1 DEF RowStatuses
          <5>5. c \notin voided' /\ cashiers[c].status = "PUBLISHED_AWAITING_RESTART"
                  => set = "PUBLISHED_AWAITING_RESTART"
            BY <2>3, <4>2, <5>2
          <5> HIDE DEF set
          <5> QED
            BY <5>3, <5>4, <5>5
        <4>3. CASE c \notin DOMAIN read
          <5>1. cashiers'[c] = [cashiers[c] EXCEPT !.status = cashiers[c].status]
            BY <1>1, <2>3, <4>3 DEF CashierRows
          <5> QED
            BY <4>1, <5>1
        <4> QED
          BY <4>2, <4>3
      <3>2. cashiers' = [c \in Cashiers |-> cashiers'[c]]
        BY <2>3
      <3> QED
        BY <1>3, <2>1, <2>3, <3>1, <3>2
    <2> QED
      BY <1>4, <2>2, <2>3 DEF BeatWrites
  <1>5. CASE WindowWrites
    <2>1. UNCHANGED <<scenes, schedule, jobs, templates, unserved>>
      BY <1>5 DEF WindowWrites
    <2>2. PICK reloaded \in SUBSET window.due :
            /\ waiting' = waiting \ reloaded
            /\ \/ /\ voided' = voided \cup (window.due \ reloaded)
                  /\ cashiers' = [c \in Cashiers |-> IF c \in window.due
                                    THEN [cashiers[c] EXCEPT !.status = "SUCCESS"] ELSE cashiers[c]]
               \/ UNCHANGED <<cashiers, voided>>
      BY <1>5 DEF WindowWrites
    <2>3. CASE UNCHANGED <<cashiers, voided>>
      BY <1>2, <2>1, <2>2, <2>3
    <2>4. CASE /\ voided' = voided \cup (window.due \ reloaded)
               /\ cashiers' = [c \in Cashiers |-> IF c \in window.due
                                 THEN [cashiers[c] EXCEPT !.status = "SUCCESS"] ELSE cashiers[c]]
      <3>1. ASSUME NEW c \in Cashiers
            PROVE  \E status \in RowStatuses :
                     /\ cashiers'[c] = [cashiers[c] EXCEPT !.status = status]
                     /\ (c \in waiting' /\ c \notin voided'
                           /\ cashiers[c].status = "PUBLISHED_AWAITING_RESTART"
                             => status = "PUBLISHED_AWAITING_RESTART")
        <4>1. CASE c \in window.due
          <5>1. /\ cashiers'[c] = [cashiers[c] EXCEPT !.status = "SUCCESS"]
                /\ "SUCCESS" \in RowStatuses
            BY <2>4, <4>1 DEF RowStatuses
          <5> QED
            BY <2>2, <2>4, <4>1, <5>1
        <4>2. CASE c \notin window.due
          <5>1. cashiers[c].status \in RowStatuses
                /\ cashiers'[c] = [cashiers[c] EXCEPT !.status = cashiers[c].status]
            BY <1>1, <2>4, <4>2 DEF CashierRows
          <5> QED
            BY <5>1
        <4> QED
          BY <4>1, <4>2
      <3>2. cashiers' = [c \in Cashiers |-> cashiers'[c]]
        BY <2>4
      <3>3. waiting' \subseteq waiting /\ voided \subseteq voided'
        BY <2>2, <2>4
      <3> QED
        BY <1>3, <2>1, <3>1, <3>2, <3>3
    <2> QED
      BY <2>2, <2>3, <2>4
  <1> QED
    BY <1>2, <1>4, <1>5 DEF BeatReads, WindowReads, FrontStarts, loops

\* No step of the fleet breaks it.
LEMMA FleetStep == FleetInv /\ [FleetNext]_fleetVars => FleetInv'
  <1> SUFFICES ASSUME FleetInv, [FleetNext]_fleetVars PROVE FleetInv'
    OBVIOUS
  <1>1. CASE UNCHANGED fleetVars
    <2>1. UNCHANGED <<cashiers, templates, scenes, waiting, schedule, jobs, voided, unserved>>
      BY <1>1 DEF fleetVars, loops
    <2> QED
      BY <2>1
      DEF FleetInv, FleetTypeOK, OrphansInv, Deleted, ScheduleInv, DefaultsFit, AloneJobsInv,
          TellsInv,
          Told, WillTell, RestartIsKept, UnderPublication, Busy, Known
  <1>2. ASSUME NEW j \in Jobs, NEW c \in Cashiers, NEW b \in Blocks, Publish(j, c, b)
        PROVE  FleetInv'
    <2>1. ScheduleInv'
      BY <1>2 DEF Publish, Enqueue, loops, FleetInv, ScheduleInv
    <2>2. cashiers' \in [Cashiers -> CashierRows]
      BY <1>2 DEF Publish, FleetInv, FleetTypeOK
    <2> QED
      BY <1>2, <2>1, <2>2, StartKeeps DEF Publish
  <1> QED
    BY <1>1, <1>2, WorkKeeps, ReportsKeep, DropsKeep, ScheduleReadsKeep, ScheduleWritesKeep,
       EditorsKeep, CyclesKeep
    DEF FleetNext

\* For any fleet: a cashier whose front waits for its restart says so, and a row names what is
\* shown, but for what is known to have come between.
THEOREM FleetRowsHold == FleetSpec => []RowsHold
  <1>1. FleetInit => FleetInv
    <2> SUFFICES ASSUME FleetInit PROVE FleetInv
      OBVIOUS
    <2>1. PICK n \in Branches : n = CHOOSE m \in Branches : TRUE
      BY FleetAssumption
    <2>2. \A a \in Areas : DefaultOf(a) \in Blocks
      BY FleetAssumption DEF Areas, DefaultOf
    <2> DEFINE shown == [a \in Areas |-> DefaultOf(a)]
               first == [branch |-> n, enabled |-> TRUE, status |-> "UNKNOWN", current |-> shown]
    <2>3. shown \in Shown
      BY <2>2 DEF Shown
    <2>4. cashiers = [c \in Cashiers |-> first] /\ scenes = [c \in Cashiers |-> shown]
      BY <2>1 DEF FleetInit
    <2> HIDE DEF shown
    <2>5. first \in CashierRows /\ first.current = shown
      BY <2>3 DEF CashierRows, RowStatuses
    <2> HIDE DEF first
    <2>6. FleetTypeOK
      BY <2>3, <2>4, <2>5 DEF FleetInit, FleetTypeOK
    <2>7. TellsInv
      BY <2>4, <2>5 DEF TellsInv, Told
    <2>8. ScheduleInv
      BY DEF FleetInit, ScheduleInv, DefaultsFit, Idle
    <2>9. OrphansInv /\ AloneJobsInv /\ RestartIsKept
      BY DEF FleetInit, OrphansInv, Deleted, Known, AloneJobsInv, Busy, RestartIsKept
    <2> QED
      BY <2>6, <2>7, <2>8, <2>9 DEF FleetInv
  <1>2. FleetInv => RowsHold
    BY DEF FleetInv, RowsHold, RowTellsScene, TellsInv, Told, WillTell, UnderPublication, Busy
  <1> QED
    BY <1>1, <1>2, FleetStep, PTL DEF FleetSpec

-----------------------------------------------------------------------------
(* Concurrent editors: TemplateEditing.                                    *)

DraftRows == [zone : Zones \cup {"none"}, default : BOOLEAN, version : Nat, last : Nat]
IsItem(s) == s[1] \in Nat /\ s[3] \in Nat

\* Items at the places 0, 1, ..., one at each, all of one update.
Places(items) == {s[1] : s \in items}
Whole(items) ==
  /\ \E n \in Nat : Places(items) = 0 .. n - 1
  /\ \A x, y \in items : x[1] = y[1] => x = y
  /\ \A x, y \in items : x[3] = y[3]

EditingTypeOK ==
  /\ drafts \in [Templates -> DraftRows]
  /\ DOMAIN slides = Templates
  /\ DOMAIN editors = Editors
  /\ edits \in Nat

\* A template that is gone has no items; every item is of an update that has been, and the
\* items are whole unless some went by force.
ItemsInv ==
  \A t \in Templates :
    /\ ~There(t) => drafts[t] = Absent /\ slides[t] = {}
    /\ \A s \in slides[t] : IsItem(s) /\ s[3] <= edits
    /\ t \notin cut => Whole(slides[t])

OneDefaultInv ==
  \A u, t \in Templates :
    (/\ drafts[u].default /\ drafts[t].default
     /\ drafts[u].zone = drafts[t].zone /\ drafts[t].zone \in Zones \ unsettled) => u = t

New(r) == r.kind \in {"create", "copy"}

\* What an editor has fetched is no newer than the row.
FetchHolds(r) ==
  /\ r.on \in Templates /\ r.version \in Nat
  /\ There(r.on) /\ r.on \notin overlapped =>
       /\ r.version <= drafts[r.on].version
       /\ r.version = drafts[r.on].version => r.last = drafts[r.on].last

RequestTyped(r) ==
  /\ r.kind \in {"update", "default", "create", "copy"}
  /\ r.on \in Templates /\ r.copies \in Templates
  /\ r.row \in DraftRows /\ r.assets \in Seq(Assets) /\ r.zone \in Zones
  /\ r.default \in {"leave", "set", "unset"} /\ r.based \in BOOLEAN
  /\ r.default # "set" => r.others = {}
  /\ New(r) => r.row = Absent /\ ~There(r.on) /\ ~r.based

\* The items that a request has read are all of its row, or none of them is there any more.
ItemsKnown(r) ==
  /\ \A s \in r.items : IsItem(s) /\ s[3] <= edits
  /\ r.kind = "copy" => r.assets = <<>> /\ (r.copies \notin cut => Whole(r.items))
  /\ ~New(r) => r.copies = r.on
  /\ ~New(r) /\ r.on \notin cut => slides[r.on] = r.items \/ slides[r.on] \cap r.items = {}

\* A request is on the row that it has read, unless another one overlapped it.
VersionKnown(r) ==
  ~New(r) /\ There(r.on) /\ r.on \notin overlapped =>
    /\ r.row.version = drafts[r.on].version
    /\ r.based => r.last = drafts[r.on].last

\* What settles a default knows the defaults of its area and its own row.
DefaultsKnown(r) ==
  Settles(r) =>
    /\ r.default = "set" /\ r.zone \notin unsettled
         => DefaultsIn(r.zone) \ {r.on} \subseteq r.others
    /\ drafts[r.on].zone \in {r.row.zone, "none"} \cup unsettled
    /\ ~r.row.default /\ drafts[r.on].default => r.zone \in unsettled

EditorHolds(r) ==
  \/ r = Free
  \/ r.at = "fetched" /\ FetchHolds(r)
  \/ r.at = "checked" /\ RequestTyped(r) /\ ItemsKnown(r) /\ VersionKnown(r) /\ DefaultsKnown(r)

EditorsInv == \A e \in Editors : EditorHolds(editors[e])

\* Whoever makes a row is the only one at it.
NewInv ==
  \A e, f \in Editors :
    e # f /\ editors[e].at = "checked" /\ New(editors[e]) /\ editors[f] # Free
      => editors[f].on # editors[e].on

EditsInv ==
  /\ EditingTypeOK /\ ItemsInv /\ OneDefaultInv /\ EditorsInv /\ NewInv
  /\ lost \subseteq overlapped

\* The rows after a commit.
Lands(r) ==
  /\ There(r.on) <=> r.kind \in {"update", "default"}
  /\ drafts' = [u \in Templates |->
       IF u = r.on THEN Written(r) ELSE [drafts[u] EXCEPT !.default = @ /\ ~Unsets(u, r)]]

\* The items that a commit keeps, and those that it adds.
Kept(r) == IF r.assets = <<>> THEN slides[r.on] ELSE slides[r.on] \ r.items
Added(r) == IF r.kind = "copy" THEN {<<s[1], s[2], edits + 1>> : s \in r.items}
              ELSE Slides(r.assets, edits + 1)

\* New items are whole, all of the commit that adds them; a sequence that is not empty gives
\* an item at the place 0, the empty one gives none.
LEMMA NewItemsWhole ==
  ASSUME NEW assets \in Seq(Assets), NEW by \in Nat
  PROVE  /\ Whole(Slides(assets, by))
         /\ \A s \in Slides(assets, by) : IsItem(s) /\ s[3] = by
         /\ assets # <<>> => \E s \in Slides(assets, by) : s[1] = 0
         /\ assets = <<>> => Slides(assets, by) = {}
  <1>1. PICK n \in Nat : n = Len(assets) /\ DOMAIN assets = 1 .. n
    OBVIOUS
  <1>2. \A i \in DOMAIN assets : i - 1 \in Nat /\ i - 1 \in 0 .. n - 1
    BY <1>1
  <1>3. \A s \in Slides(assets, by) : IsItem(s) /\ s[3] = by
    BY <1>2 DEF Slides, IsItem
  <1>4. Places(Slides(assets, by)) = 0 .. n - 1
    <2>1. Places(Slides(assets, by)) \subseteq 0 .. n - 1
      BY <1>2 DEF Slides, Places
    <2>2. ASSUME NEW i \in 0 .. n - 1 PROVE i \in Places(Slides(assets, by))
      <3>1. i + 1 \in DOMAIN assets /\ (i + 1) - 1 = i
        BY <1>1
      <3>2. <<(i + 1) - 1, assets[i + 1], by>> \in Slides(assets, by)
        BY <3>1 DEF Slides
      <3> QED
        BY <3>1, <3>2 DEF Places
    <2> QED
      BY <2>1, <2>2
  <1>5. \A x, y \in Slides(assets, by) : x[1] = y[1] => x = y
    <2> SUFFICES ASSUME NEW i \in DOMAIN assets, NEW j \in DOMAIN assets, i - 1 = j - 1
                 PROVE  i = j
      BY DEF Slides
    <2> QED
      BY <1>1
  <1>6. assets # <<>> => \E s \in Slides(assets, by) : s[1] = 0
    <2> SUFFICES ASSUME assets # <<>> PROVE \E s \in Slides(assets, by) : s[1] = 0
      OBVIOUS
    <2>1. 1 \in DOMAIN assets
      BY <1>1
    <2>2. <<1 - 1, assets[1], by>> \in Slides(assets, by)
      BY <2>1 DEF Slides
    <2> QED
      BY <2>2
  <1>7. assets = <<>> => Slides(assets, by) = {}
    BY DEF Slides
  <1> QED
    BY <1>3, <1>4, <1>5, <1>6, <1>7 DEF Whole

\* The items of a copy are as whole as those that were read.
LEMMA CopiesWhole ==
  ASSUME NEW items, NEW by \in Nat, \A s \in items : IsItem(s)
  PROVE  /\ Whole(items) => Whole({<<s[1], s[2], by>> : s \in items})
         /\ \A x \in {<<s[1], s[2], by>> : s \in items} : IsItem(x) /\ x[3] = by
  <1>1. \A x \in {<<s[1], s[2], by>> : s \in items} : IsItem(x) /\ x[3] = by
    BY DEF IsItem
  <1>2. PICK copies : copies = {<<s[1], s[2], by>> : s \in items}
    OBVIOUS
  <1>3. \A x \in copies : \E s \in items : x = <<s[1], s[2], by>>
    BY <1>2
  <1>4. \A s \in items : <<s[1], s[2], by>> \in copies
    BY <1>2
  <1>5. Places(copies) = Places(items)
    <2>1. ASSUME NEW x \in copies PROVE x[1] \in Places(items)
      BY <1>3 DEF Places
    <2>2. ASSUME NEW s \in items PROVE s[1] \in Places(copies)
      <3>1. <<s[1], s[2], by>>[1] = s[1]
        OBVIOUS
      <3> QED
        BY <1>4, <3>1 DEF Places
    <2> QED
      BY <2>1, <2>2 DEF Places
  <1>6. Whole(items) => Whole(copies)
    <2> SUFFICES ASSUME Whole(items) PROVE Whole(copies)
      OBVIOUS
    <2>1. \E n \in Nat : Places(copies) = 0 .. n - 1
      BY <1>5 DEF Whole
    <2>2. ASSUME NEW x \in copies, NEW y \in copies, x[1] = y[1] PROVE x = y
      <3>1. PICK s \in items : x = <<s[1], s[2], by>>
        BY <1>3
      <3>2. PICK v \in items : y = <<v[1], v[2], by>>
        BY <1>3
      <3>3. s = v
        BY <2>2, <3>1, <3>2 DEF Whole
      <3> QED
        BY <3>1, <3>2, <3>3
    <2>3. \A x, y \in copies : x[3] = y[3]
      BY <1>3
    <2> QED
      BY <2>1, <2>2, <2>3 DEF Whole
  <1> QED
    BY <1>1, <1>2, <1>6

\* An editor goes to another state, and no row changes.
LEMMA EditorStep ==
  ASSUME EditsInv, NEW e \in Editors, NEW r, editors' = [editors EXCEPT ![e] = r],
         UNCHANGED <<draftVars, edits, cut, overlapped, lost, unsettled>>,
         EditorHolds(r),
         r # Free => \A f \in Editors \ {e} : editors[f] # Free /\
             ((r.at = "checked" /\ New(r)) \/ (editors[f].at = "checked" /\ New(editors[f])))
               => editors[f].on # r.on
  PROVE  EditsInv'
  <1>1. /\ DOMAIN editors = Editors
        /\ \A f \in Editors : editors'[f] = IF f = e THEN r ELSE editors[f]
    BY DEF EditsInv, EditingTypeOK
  <1>2. EditingTypeOK' /\ ItemsInv' /\ OneDefaultInv' /\ (lost \subseteq overlapped)'
    BY <1>1 DEF EditsInv, EditingTypeOK, ItemsInv, OneDefaultInv, There, draftVars
  <1>3. EditorsInv'
    <2> SUFFICES ASSUME NEW f \in Editors PROVE EditorHolds(editors[f])'
      BY DEF EditorsInv
    <2>1. PICK held : held = editors'[f]
      OBVIOUS
    <2>2. EditorHolds(held)
      BY <1>1, <2>1 DEF EditsInv, EditorsInv
    <2>3. EditorHolds(held)'
      BY <2>2 DEF EditorHolds, FetchHolds, RequestTyped, ItemsKnown, VersionKnown,
        DefaultsKnown, DefaultsIn, There, New, Settles, draftVars
    <2> QED
      BY <2>1, <2>3
  <1>4. NewInv'
    <2> SUFFICES ASSUME NEW g \in Editors, NEW f \in Editors, g # f,
                        editors'[g].at = "checked", New(editors'[g]), editors'[f] # Free
                 PROVE  editors'[f].on # editors'[g].on
      BY DEF NewInv, New
    <2>1. CASE g = e
      <3>1. r # Free
        BY <1>1, <2>1 DEF Free
      <3>2. f # e /\ editors'[g] = r /\ editors'[f] = editors[f]
        BY <1>1, <2>1
      <3>3. r.at = "checked" /\ New(r) /\ editors[f] # Free
        BY <3>2 DEF New
      <3>4. editors[f].on # r.on
        BY <3>1, <3>2, <3>3
      <3> QED
        BY <3>2, <3>4
    <2>2. CASE f = e
      <3>1. editors[g] # Free
        BY <1>1, <2>2 DEF Free
      <3> QED
        BY <1>1, <2>2, <3>1
    <2>3. CASE g # e /\ f # e
      BY <1>1, <2>3 DEF EditsInv, NewInv
    <2> QED
      BY <2>1, <2>2, <2>3
  <1> QED
    BY <1>2, <1>3, <1>4 DEF EditsInv

\* A request is based on what the rows hold when it passes its checks.
LEMMA FreshRequest ==
  ASSUME EditsInv, NEW r, r.at = "checked", RequestTyped(r), r.row = drafts[r.on],
         ~New(r) => There(r.on) /\ r.copies = r.on,
         r.items = {}, r.kind = "copy" => r.assets = <<>>,
         r.default = "set" => r.others = DefaultsIn(r.zone) \ {r.on},
         r.based /\ There(r.on) /\ r.on \notin overlapped => r.last = drafts[r.on].last
  PROVE  EditorHolds(r)
  <1>1. ItemsKnown(r)
    <2>1. Places({}) = 0 .. 0 - 1
      BY DEF Places
    <2>2. Whole(r.items)
      BY <2>1 DEF Whole
    <2> QED
      BY <2>2 DEF ItemsKnown, New
  <1>2. VersionKnown(r)
    BY DEF VersionKnown
  <1>3. DefaultsKnown(r)
    BY DEF DefaultsKnown
  <1> QED
    BY <1>1, <1>2, <1>3 DEF EditorHolds

\* Nobody else makes the row of a request on a row that is there.
LEMMA NobodyMakes ==
  ASSUME EditsInv, NEW e \in Editors, NEW t, There(t),
         editors[e].at = "checked", New(editors[e])
  PROVE  editors[e].on # t
  <1>1. PICK r : r = editors[e]
    OBVIOUS
  <1>2. EditorHolds(r) /\ r.at = "checked" /\ New(r)
    BY <1>1 DEF EditsInv, EditorsInv, New
  <1>3. ~There(r.on)
    BY <1>2 DEF EditorHolds, RequestTyped, Free
  <1> QED
    BY <1>1, <1>3

\* An editor fetches the row as it is.
LEMMA FetchKeeps ==
  ASSUME EditsInv, NEW e \in Editors, NEW t \in Templates, GetBlock(e, t)
  PROVE  EditsInv'
  <1>1. PICK r : r = [at |-> "fetched", on |-> t, version |-> drafts[t].version,
                      last |-> drafts[t].last]
    OBVIOUS
  <1>2. /\ r.at = "fetched" /\ r.on = t
        /\ r.version = drafts[t].version /\ r.last = drafts[t].last
    BY <1>1
  <1>3. drafts[t] \in DraftRows /\ drafts[t].version \in Nat
    BY DEF EditsInv, EditingTypeOK, DraftRows
  <1>4. EditorHolds(r)
    BY <1>2, <1>3 DEF EditorHolds, FetchHolds
  <1>5. \A f \in Editors : editors[f].at = "checked" /\ New(editors[f]) => editors[f].on # t
    BY NobodyMakes DEF GetBlock
  <1>6. /\ editors' = [editors EXCEPT ![e] = r]
        /\ UNCHANGED <<draftVars, edits, cut, overlapped, lost, unsettled>>
    BY <1>1 DEF GetBlock
  <1> QED
    BY <1>2, <1>4, <1>5, <1>6, EditorStep

\* An editor is done.
LEMMA FreeKeeps ==
  ASSUME EditsInv, NEW e \in Editors, editors' = [editors EXCEPT ![e] = Free],
         UNCHANGED <<draftVars, edits, cut, overlapped, lost, unsettled>>
  PROVE  EditsInv'
  <1>1. EditorHolds(Free)
    BY DEF EditorHolds
  <1> QED
    BY <1>1, EditorStep

\* An update carries what its editor has fetched.
LEMMA UpdateKeeps ==
  ASSUME EditsInv, NEW e \in Editors, NEW assets \in Seq(Assets), NEW zone \in Zones,
         NEW default \in {"leave", "set", "unset"}, HandleUpdateBlock(e, assets, zone, default)
  PROVE  EditsInv'
  <1>1. PICK t : t = editors[e].on
    OBVIOUS
  <1>2. PICK held : held = editors[e]
    OBVIOUS
  <1>3. held.at = "fetched" /\ held.on = t /\ There(t)
    BY <1>1, <1>2 DEF HandleUpdateBlock
  <1>4. FetchHolds(held)
    BY <1>2, <1>3 DEF EditsInv, EditorsInv, EditorHolds, Free
  <1>5. PICK base : base = Request("update", t, zone, default)
    OBVIOUS
  <1>6. PICK based \in BOOLEAN :
          /\ based => SameVersion(e)
          /\ Sends(e, [base EXCEPT !.assets = assets, !.based = based, !.last = held.last])
    BY <1>1, <1>2, <1>5 DEF HandleUpdateBlock
  <1>7. PICK r : r = [base EXCEPT !.assets = assets, !.based = based, !.last = held.last]
    OBVIOUS
  <1>8. /\ base.at = "checked" /\ base.kind = "update" /\ base.on = t /\ base.row = drafts[t]
        /\ base.items = {} /\ base.zone = zone /\ base.default = default
        /\ base.copies = t
        /\ base.others = IF default = "set" THEN DefaultsIn(zone) \ {t} ELSE {}
        /\ DOMAIN base = {"at", "kind", "on", "row", "items", "assets", "zone", "default",
                          "based", "last", "copies", "others", "read"}
    BY <1>5 DEF Request
  <1>9. /\ r.at = "checked" /\ r.kind = "update" /\ r.on = t /\ r.row = drafts[t]
        /\ r.items = {} /\ r.assets = assets /\ r.zone = zone /\ r.default = default
        /\ r.based = based /\ r.last = held.last /\ r.copies = t
        /\ r.others = IF default = "set" THEN DefaultsIn(zone) \ {t} ELSE {}
    BY <1>7, <1>8
  <1>10. ~New(r)
    BY <1>9 DEF New
  <1>11. RequestTyped(r)
    <2>1. t \in Templates
      BY <1>3, <1>4 DEF FetchHolds
    <2>2. drafts[t] \in DraftRows
      BY <2>1 DEF EditsInv, EditingTypeOK
    <2> QED
      BY <1>9, <1>10, <2>1, <2>2 DEF RequestTyped
  <1>12. r.based /\ There(r.on) /\ r.on \notin overlapped => r.last = drafts[r.on].last
    BY <1>2, <1>3, <1>4, <1>6, <1>9 DEF FetchHolds, SameVersion
  <1>13. EditorHolds(r)
    BY <1>3, <1>9, <1>10, <1>11, <1>12, FreshRequest
  <1>14. \A f \in Editors : editors[f].at = "checked" /\ New(editors[f]) => editors[f].on # t
    BY <1>3, NobodyMakes
  <1>15. /\ editors' = [editors EXCEPT ![e] = r]
         /\ UNCHANGED <<draftVars, edits, cut, overlapped, lost, unsettled>>
    BY <1>6, <1>7 DEF Sends
  <1> QED
    BY <1>9, <1>10, <1>13, <1>14, <1>15, EditorStep

\* The default of an area is set for a row that is there.
LEMMA DefaultKeeps ==
  ASSUME EditsInv, NEW e \in Editors, NEW t \in Templates, SetDefault(e, t)
  PROVE  EditsInv'
  <1>1. PICK r : r = Request("default", t, drafts[t].zone, "set")
    OBVIOUS
  <1>2. There(t) /\ drafts[t] \in DraftRows /\ drafts[t].zone \in Zones
    BY DEF SetDefault, There, EditsInv, EditingTypeOK, DraftRows
  <1>3. /\ r.at = "checked" /\ r.kind = "default" /\ r.on = t /\ r.row = drafts[t]
        /\ r.items = {} /\ r.assets = <<>> /\ r.zone = drafts[t].zone
        /\ r.default = "set" /\ r.based = FALSE /\ r.copies = t
        /\ r.others = DefaultsIn(r.zone) \ {t}
    BY <1>1 DEF Request
  <1>4. ~New(r)
    BY <1>3 DEF New
  <1>5. RequestTyped(r)
    <2>1. r.assets \in Seq(Assets)
      BY <1>3
    <2> QED
      BY <1>2, <1>3, <1>4, <2>1 DEF RequestTyped
  <1>6. EditorHolds(r)
    BY <1>2, <1>3, <1>4, <1>5, FreshRequest
  <1>7. \A f \in Editors : editors[f].at = "checked" /\ New(editors[f]) => editors[f].on # t
    BY <1>2, NobodyMakes
  <1>8. /\ editors' = [editors EXCEPT ![e] = r]
        /\ UNCHANGED <<draftVars, edits, cut, overlapped, lost, unsettled>>
    BY <1>1 DEF SetDefault, Sends
  <1> QED
    BY <1>3, <1>4, <1>6, <1>7, <1>8, EditorStep

\* A new template is made of a choice of assets.
LEMMA CreateKeeps ==
  ASSUME EditsInv, NEW e \in Editors, NEW t \in Templates, NEW assets \in Seq(Assets),
         NEW zone \in Zones, NEW default \in {"leave", "set"},
         CreateBlock(e, t, assets, zone, default)
  PROVE  EditsInv'
  <1>1. PICK base : base = Request("create", t, zone, default)
    OBVIOUS
  <1>2. PICK r : r = [base EXCEPT !.assets = assets]
    OBVIOUS
  <1>3. ~There(t) /\ drafts[t] = Absent /\ drafts[t] \in DraftRows
    BY DEF CreateBlock, NewRow, EditsInv, ItemsInv, EditingTypeOK
  <1>4. /\ base.at = "checked" /\ base.kind = "create" /\ base.on = t /\ base.row = drafts[t]
        /\ base.items = {} /\ base.zone = zone /\ base.default = default
        /\ base.based = FALSE /\ base.copies = t
        /\ base.others = IF default = "set" THEN DefaultsIn(zone) \ {t} ELSE {}
        /\ DOMAIN base = {"at", "kind", "on", "row", "items", "assets", "zone", "default",
                          "based", "last", "copies", "others", "read"}
    BY <1>1 DEF Request
  <1>5. /\ r.at = "checked" /\ r.kind = "create" /\ r.on = t /\ r.row = drafts[t]
        /\ r.items = {} /\ r.assets = assets /\ r.zone = zone /\ r.default = default
        /\ r.based = FALSE /\ r.copies = t
        /\ r.others = IF default = "set" THEN DefaultsIn(zone) \ {t} ELSE {}
    BY <1>2, <1>4
  <1>6. New(r)
    BY <1>5 DEF New
  <1>7. RequestTyped(r)
    BY <1>3, <1>5, <1>6 DEF RequestTyped
  <1>8. EditorHolds(r)
    BY <1>5, <1>6, <1>7, FreshRequest
  <1>9. \A f \in Editors : editors[f] # Free => editors[f].on # t
    BY DEF CreateBlock, NewRow
  <1>10. /\ editors' = [editors EXCEPT ![e] = r]
         /\ UNCHANGED <<draftVars, edits, cut, overlapped, lost, unsettled>>
    BY <1>1, <1>2 DEF CreateBlock, Sends
  <1> QED
    BY <1>5, <1>8, <1>9, <1>10, EditorStep

\* A copy is made of the items that its source has.
LEMMA CopyKeeps ==
  ASSUME EditsInv, NEW e \in Editors, NEW t \in Templates, NEW source \in Templates,
         DuplicateBlock(e, t, source)
  PROVE  EditsInv'
  <1>1. PICK base : base = Request("copy", t, drafts[source].zone, "leave")
    OBVIOUS
  <1>2. PICK r : r = [base EXCEPT !.copies = source]
    OBVIOUS
  <1>3. /\ ~There(t) /\ drafts[t] = Absent /\ drafts[t] \in DraftRows
        /\ drafts[source].zone \in Zones
    BY DEF DuplicateBlock, NewRow, There, EditsInv, ItemsInv, EditingTypeOK, DraftRows
  <1>4. /\ base.at = "checked" /\ base.kind = "copy" /\ base.on = t /\ base.row = drafts[t]
        /\ base.items = {}
        /\ base.assets = <<>> /\ base.zone = drafts[source].zone /\ base.default = "leave"
        /\ base.based = FALSE /\ base.others = {}
        /\ DOMAIN base = {"at", "kind", "on", "row", "items", "assets", "zone", "default",
                          "based", "last", "copies", "others", "read"}
    BY <1>1 DEF Request
  <1>5. /\ r.at = "checked" /\ r.kind = "copy" /\ r.on = t /\ r.row = drafts[t]
        /\ r.items = {} /\ r.assets = <<>> /\ r.zone = drafts[source].zone
        /\ r.default = "leave" /\ r.based = FALSE /\ r.copies = source /\ r.others = {}
    BY <1>2, <1>4
  <1>6. New(r)
    BY <1>5 DEF New
  <1>7. RequestTyped(r)
    <2>1. r.assets \in Seq(Assets)
      BY <1>5
    <2> QED
      BY <1>3, <1>5, <1>6, <2>1 DEF RequestTyped
  <1>8. EditorHolds(r)
    BY <1>5, <1>6, <1>7, FreshRequest
  <1>9. \A f \in Editors : editors[f] # Free => editors[f].on # t
    BY DEF DuplicateBlock, NewRow
  <1>10. /\ editors' = [editors EXCEPT ![e] = r]
         /\ UNCHANGED <<draftVars, edits, cut, overlapped, lost, unsettled>>
    BY <1>1, <1>2 DEF DuplicateBlock, Sends
  <1> QED
    BY <1>5, <1>8, <1>9, <1>10, EditorStep

\* The items that a request replaces or copies are those of a row that it knows.
LEMMA SelectKeeps ==
  ASSUME EditsInv, NEW e \in Editors, SelectItems(e)
  PROVE  EditsInv'
  <1>1. PICK o : o = editors[e]
    OBVIOUS
  <1>2. PICK r : r = [o EXCEPT !.items = slides[o.copies], !.read = TRUE]
    OBVIOUS
  <1>3. o.at = "checked"
    BY <1>1 DEF SelectItems
  <1>4. RequestTyped(o) /\ ItemsKnown(o) /\ VersionKnown(o) /\ DefaultsKnown(o)
    BY <1>1, <1>3 DEF EditsInv, EditorsInv, EditorHolds, Free
  <1>5. /\ r.at = "checked" /\ r.kind = o.kind /\ r.on = o.on /\ r.row = o.row
        /\ r.assets = o.assets /\ r.zone = o.zone /\ r.default = o.default
        /\ r.based = o.based /\ r.last = o.last /\ r.copies = o.copies /\ r.others = o.others
    BY <1>2, <1>3
  <1>6. r.items = slides[o.copies] \/ r.items = o.items
    BY <1>2
  <1>7. RequestTyped(r) /\ VersionKnown(r) /\ DefaultsKnown(r)
    BY <1>4, <1>5 DEF RequestTyped, VersionKnown, DefaultsKnown, Settles, New
  <1>8. ItemsKnown(r)
    <2>1. CASE r.items = o.items
      BY <1>4, <1>5, <2>1 DEF ItemsKnown, New
    <2>2. CASE r.items = slides[o.copies]
      <3>1. o.copies \in Templates
        BY <1>4 DEF RequestTyped
      <3>2. /\ \A s \in r.items : IsItem(s) /\ s[3] <= edits
            /\ o.copies \notin cut => Whole(r.items)
        BY <2>2, <3>1 DEF EditsInv, ItemsInv
      <3> QED
        BY <1>4, <1>5, <2>2, <3>2 DEF ItemsKnown, New
    <2> QED
      BY <1>6, <2>1, <2>2
  <1>9. EditorHolds(r)
    BY <1>5, <1>7, <1>8 DEF EditorHolds
  <1>10. \A f \in Editors \ {e} : editors[f] # Free /\
             ((r.at = "checked" /\ New(r)) \/ (editors[f].at = "checked" /\ New(editors[f])))
               => editors[f].on # r.on
    <2>1. o # Free
      BY <1>3 DEF Free
    <2> QED
      BY <1>1, <1>3, <1>5, <2>1 DEF EditsInv, NewInv, New
  <1>11. /\ editors' = [editors EXCEPT ![e] = r]
         /\ UNCHANGED <<draftVars, edits, cut, overlapped, lost, unsettled>>
    BY <1>1, <1>2 DEF SelectItems, Sends
  <1> QED
    BY <1>9, <1>10, <1>11, EditorStep

\* A template goes with its items.
LEMMA DeleteKeeps ==
  ASSUME EditsInv, NEW t \in Templates, DeleteBlock(t)
  PROVE  EditsInv'
  <1>1. /\ There(t) /\ edits' = edits + 1 /\ edits \in Nat
        /\ \A u \in Templates : drafts'[u] = IF u = t THEN Absent ELSE drafts[u]
        /\ \A u \in Templates : slides'[u] = IF u = t THEN {} ELSE slides[u]
        /\ UNCHANGED <<library, editors, cut, overlapped, lost, unsettled>>
    BY DEF DeleteBlock, Edits, EditsInv, EditingTypeOK
  <1>2. Absent \in DraftRows /\ Absent.zone = "none" /\ Absent.default = FALSE
    BY DEF Absent, DraftRows
  <1>3. EditingTypeOK'
    BY <1>1, <1>2 DEF DeleteBlock, EditsInv, EditingTypeOK
  <1>4. ItemsInv'
    <2> SUFFICES ASSUME NEW u \in Templates
                 PROVE  /\ ~There(u)' => drafts'[u] = Absent /\ slides'[u] = {}
                        /\ \A s \in slides'[u] : IsItem(s) /\ s[3] <= edits'
                        /\ u \notin cut' => Whole(slides'[u])
      BY DEF ItemsInv, There, IsItem, Whole, Places
    <2>1. CASE u = t
      <3>1. Places({}) = 0 .. 0 - 1
        BY DEF Places
      <3>2. Whole({})
        BY <3>1 DEF Whole
      <3> QED
        BY <1>1, <1>2, <2>1, <3>2 DEF There
    <2>2. CASE u # t
      <3>1. \A s \in slides[u] : IsItem(s) /\ s[3] <= edits /\ s[3] \in Nat
        BY DEF EditsInv, ItemsInv, IsItem
      <3>2. \A s \in slides[u] : s[3] <= edits + 1
        BY <1>1, <3>1
      <3> QED
        BY <1>1, <2>2, <3>1, <3>2 DEF EditsInv, ItemsInv, There
    <2> QED
      BY <2>1, <2>2
  <1>5. OneDefaultInv' /\ NewInv' /\ (lost \subseteq overlapped)'
    BY <1>1, <1>2 DEF EditsInv, OneDefaultInv, NewInv, New
  <1>6. EditorsInv'
    <2> SUFFICES ASSUME NEW f \in Editors PROVE EditorHolds(editors[f])'
      BY DEF EditorsInv
    <2>1. PICK o : o = editors[f]
      OBVIOUS
    <2>2. EditorHolds(o)
      BY <2>1 DEF EditsInv, EditorsInv
    <2>3. CASE o = Free
      BY <1>1, <2>1, <2>3 DEF EditorHolds, Free
    <2>4. CASE o.at = "fetched" /\ FetchHolds(o)
      <3>1. FetchHolds(o)'
        BY <1>1, <1>2, <2>4 DEF FetchHolds, There
      <3> QED
        BY <1>1, <2>1, <2>4, <3>1 DEF EditorHolds
    <2>5. CASE /\ o.at = "checked" /\ RequestTyped(o) /\ ItemsKnown(o)
               /\ VersionKnown(o) /\ DefaultsKnown(o)
      <3>1. o.on \in Templates
        BY <2>5 DEF RequestTyped
      <3>2. RequestTyped(o)'
        BY <1>1, <1>2, <2>5 DEF RequestTyped, There, New
      <3>3. ItemsKnown(o)'
        <4>1. \A s \in o.items : IsItem(s) /\ s[3] <= edits'
          <5>1. \A s \in o.items : IsItem(s) /\ s[3] <= edits /\ s[3] \in Nat
            BY <2>5 DEF ItemsKnown, IsItem
          <5> QED
            BY <1>1, <5>1
        <4> QED
          BY <1>1, <2>5, <3>1, <4>1 DEF ItemsKnown, New
      <3>4. VersionKnown(o)'
        BY <1>1, <1>2, <2>5, <3>1 DEF VersionKnown, There, New
      <3>5. DefaultsKnown(o)'
        BY <1>1, <1>2, <2>5, <3>1 DEF DefaultsKnown, DefaultsIn, Settles
      <3> QED
        BY <1>1, <2>1, <2>5, <3>2, <3>3, <3>4, <3>5 DEF EditorHolds
    <2> QED
      BY <2>2, <2>3, <2>4, <2>5 DEF EditorHolds
  <1> QED
    BY <1>3, <1>4, <1>5, <1>6 DEF EditsInv

\* A file goes with the items that show it, and the templates they were in are noted.
LEMMA MediaKeeps ==
  ASSUME EditsInv, NEW a, NEW force, DeleteMediaAsset(a, force)
  PROVE  EditsInv'
  <1>1. /\ edits' = edits + 1 /\ edits \in Nat /\ cut \subseteq cut'
        /\ slides' = [u \in Templates |-> {s \in slides[u] : s[2] # a}]
        /\ \A u \in Templates : slides'[u] \subseteq slides[u]
        /\ UNCHANGED <<drafts, editors, overlapped, lost, unsettled>>
    BY DEF DeleteMediaAsset, Edits, EditsInv, EditingTypeOK
  <1>2. \A u \in Templates \ cut' : slides'[u] = slides[u]
    BY DEF DeleteMediaAsset
  <1>3. EditingTypeOK'
    BY <1>1 DEF EditsInv, EditingTypeOK
  <1>4. ItemsInv'
    <2> SUFFICES ASSUME NEW u \in Templates
                 PROVE  /\ ~There(u) => drafts[u] = Absent /\ slides'[u] = {}
                        /\ \A s \in slides'[u] : IsItem(s) /\ s[3] <= edits'
                        /\ u \notin cut' => Whole(slides'[u])
      BY <1>1 DEF ItemsInv, There, IsItem, Whole, Places
    <2>1. \A s \in slides[u] : IsItem(s) /\ s[3] <= edits /\ s[3] \in Nat
      BY DEF EditsInv, ItemsInv, IsItem
    <2>2. \A s \in slides[u] : s[3] <= edits + 1
      BY <1>1, <2>1
    <2> QED
      BY <1>1, <1>2, <2>1, <2>2 DEF EditsInv, ItemsInv
  <1>5. OneDefaultInv' /\ NewInv' /\ (lost \subseteq overlapped)'
    BY <1>1 DEF EditsInv, OneDefaultInv, NewInv, New
  <1>6. EditorsInv'
    <2> SUFFICES ASSUME NEW f \in Editors PROVE EditorHolds(editors[f])'
      BY DEF EditorsInv
    <2>1. PICK o : o = editors[f]
      OBVIOUS
    <2>2. EditorHolds(o)
      BY <2>1 DEF EditsInv, EditorsInv
    <2>3. CASE o = Free \/ (o.at = "fetched" /\ FetchHolds(o))
      BY <1>1, <2>1, <2>3 DEF EditorHolds, FetchHolds, There, Free
    <2>4. CASE /\ o.at = "checked" /\ RequestTyped(o) /\ ItemsKnown(o)
               /\ VersionKnown(o) /\ DefaultsKnown(o)
      <3>1. RequestTyped(o)' /\ VersionKnown(o)' /\ DefaultsKnown(o)'
        BY <1>1, <2>4 DEF RequestTyped, VersionKnown, DefaultsKnown, DefaultsIn, There, New, Settles
      <3>2. \A s \in o.items : IsItem(s) /\ s[3] <= edits'
        <4>1. \A s \in o.items : IsItem(s) /\ s[3] <= edits /\ s[3] \in Nat
          BY <2>4 DEF ItemsKnown, IsItem
        <4> QED
          BY <1>1, <4>1
      <3>3. o.on \in Templates
        BY <2>4 DEF RequestTyped
      <3>4. ItemsKnown(o)'
        BY <1>1, <1>2, <2>4, <3>2, <3>3 DEF ItemsKnown, New
      <3> QED
        BY <1>1, <2>1, <2>4, <3>1, <3>4 DEF EditorHolds
    <2> QED
      BY <2>2, <2>3, <2>4 DEF EditorHolds
  <1> QED
    BY <1>3, <1>4, <1>5, <1>6 DEF EditsInv

\* What a commit does to the rows: its own row is there afterwards, of the other ones only
\* defaults go.
LEMMA RowsCommitted ==
  ASSUME EditsInv, NEW r, RequestTyped(r), NEW t, t = r.on,
         Lands(r)
  PROVE  /\ t \in Templates /\ (New(r) <=> ~There(t))
         /\ drafts' \in [Templates -> DraftRows]
         /\ \A u \in Templates \ {t} :
              /\ drafts'[u].zone = drafts[u].zone /\ drafts'[u].version = drafts[u].version
              /\ drafts'[u].last = drafts[u].last
              /\ drafts'[u].default <=> drafts[u].default /\ u \notin r.others
              /\ ~There(u) => drafts'[u] = Absent
         /\ drafts'[t] = Written(r) /\ There(t)'
         /\ ~Settles(r) => /\ drafts'[t].zone = drafts[t].zone
                           /\ drafts'[t].default => drafts[t].default
                           /\ \A u \in Templates : drafts'[u].default => drafts[u].default
         /\ drafts'[t].zone = IF r.zone = r.row.zone THEN drafts[t].zone ELSE r.zone
  <1>20. /\ There(t) <=> r.kind \in {"update", "default"}
         /\ drafts' = [u \in Templates |->
              IF u = t THEN Written(r) ELSE [drafts[u] EXCEPT !.default = @ /\ ~Unsets(u, r)]]
    BY DEF Lands
  <1>1. /\ t \in Templates /\ drafts[t] \in DraftRows /\ r.row \in DraftRows /\ edits \in Nat
        /\ \A u \in Templates : drafts[u] \in DraftRows
        /\ r.zone \in Zones /\ "none" \notin Zones
    BY DEF RequestTyped, EditsInv, EditingTypeOK, Zones
  <1>2. New(r) <=> ~There(t)
    BY <1>20 DEF RequestTyped, New
  <1>3. PICK w : w = Written(r)
    OBVIOUS
  <1>4. /\ w.zone = IF r.zone = r.row.zone THEN drafts[t].zone ELSE r.zone
        /\ w.version = IF r.kind = "default" THEN drafts[t].version ELSE r.row.version + 1
        /\ w.last = IF r.kind = "default" THEN drafts[t].last ELSE edits + 1
    BY <1>3 DEF Written
  <1>5. w \in DraftRows
    <2>1. PICK wanted \in BOOLEAN :
            wanted = IF r.default = "leave" THEN r.row.default ELSE r.default = "set"
      BY <1>1 DEF DraftRows
    <2>2. PICK default \in BOOLEAN :
            default = IF wanted = r.row.default THEN drafts[t].default ELSE wanted
      BY <1>1 DEF DraftRows
    <2>3. w.default = default
      BY <1>3, <2>1, <2>2 DEF Written
    <2>4. /\ w.zone \in Zones \cup {"none"} /\ w.version \in Nat /\ w.last \in Nat
          /\ w = [zone |-> w.zone, default |-> w.default, version |-> w.version, last |-> w.last]
      BY <1>1, <1>3, <1>4 DEF Written, DraftRows
    <2> QED
      BY <2>3, <2>4 DEF DraftRows
  <1>6. w.zone # "none"
    <2>1. CASE There(t)
      BY <1>1, <1>4, <2>1 DEF There
    <2>2. CASE ~There(t)
      BY <1>1, <1>2, <1>4, <2>2 DEF RequestTyped, Absent
    <2> QED
      BY <2>1, <2>2
  <1>7. ~Settles(r) => w.zone = drafts[t].zone /\ (w.default => drafts[t].default)
    <2> SUFFICES ASSUME ~Settles(r)
                 PROVE  w.zone = drafts[t].zone /\ (w.default => drafts[t].default)
      OBVIOUS
    <2>1. r.default \in {"leave", "unset"} /\ r.zone = r.row.zone
      BY DEF Settles, RequestTyped
    <2>2. CASE r.default = "leave"
      BY <1>3, <1>4, <2>1, <2>2 DEF Written
    <2>3. CASE r.default = "unset"
      BY <1>3, <1>4, <2>1, <2>3 DEF Written
    <2> QED
      BY <2>1, <2>2, <2>3
  <1>8. ASSUME NEW u \in Templates \ {t}
        PROVE  /\ drafts'[u] \in DraftRows
               /\ drafts'[u].zone = drafts[u].zone /\ drafts'[u].version = drafts[u].version
               /\ drafts'[u].last = drafts[u].last
               /\ drafts'[u].default <=> drafts[u].default /\ u \notin r.others
               /\ ~There(u) => drafts'[u] = Absent
    <2>1. PICK row : row = drafts[u]
      OBVIOUS
    <2>2. row \in DraftRows
      BY <1>1, <2>1
    <2>3. PICK default \in BOOLEAN : default = (row.default /\ u \notin r.others)
      OBVIOUS
    <2>4. drafts'[u] = [row EXCEPT !.default = default]
      BY <1>20, <2>1, <2>3 DEF Unsets
    <2>5. /\ drafts'[u] \in DraftRows
          /\ drafts'[u].zone = row.zone /\ drafts'[u].version = row.version
          /\ drafts'[u].last = row.last /\ drafts'[u].default = default
      BY <2>2, <2>4 DEF DraftRows
    <2>6. ~There(u) => drafts'[u] = Absent
      <3> SUFFICES ASSUME ~There(u) PROVE drafts'[u] = Absent
        OBVIOUS
      <3>1. row = Absent
        BY <2>1 DEF EditsInv, ItemsInv
      <3>2. default = FALSE
        BY <2>3, <3>1 DEF Absent
      <3> QED
        BY <2>4, <3>1, <3>2 DEF Absent
    <2> QED
      BY <2>1, <2>3, <2>5, <2>6
  <1>9. drafts'[t] = w
    BY <1>1, <1>3, <1>20
  <1>10. drafts' \in [Templates -> DraftRows]
    BY <1>5, <1>8, <1>9, <1>20
  <1>11. ~Settles(r) => \A u \in Templates : drafts'[u].default => drafts[u].default
    BY <1>7, <1>8, <1>9
  <1> QED
    BY <1>1, <1>2, <1>3, <1>4, <1>6, <1>7, <1>8, <1>9, <1>10, <1>11 DEF There

\* The items after a commit are those that were there or those of the commit, and are whole
\* unless some went by force.
LEMMA ItemsCommitted ==
  ASSUME EditsInv, NEW r, RequestTyped(r), ItemsKnown(r), NEW t, t = r.on,
         There(t) <=> r.kind \in {"update", "default"},
         NEW kept, kept = Kept(r),
         NEW added, added = Added(r),
         UniqueOrder(kept, added),
         cut' = IF r.copies \in cut THEN cut \cup {t} ELSE cut
  PROVE  /\ \A s \in kept \cup added : IsItem(s) /\ s[3] <= edits + 1
         /\ t \notin cut' =>
              /\ Whole(kept \cup added)
              /\ kept \cup added = slides[t] \/ \A s \in kept \cup added : s[3] = edits + 1
  <1>7. kept = IF r.assets = <<>> THEN slides[t] ELSE slides[t] \ r.items
    BY DEF Kept
  <1>1. /\ t \in Templates /\ edits \in Nat /\ edits + 1 \in Nat /\ r.assets \in Seq(Assets)
        /\ New(r) <=> ~There(t)
    BY DEF RequestTyped, New, EditsInv, EditingTypeOK
  <1>2. /\ ~There(t) => slides[t] = {}
        /\ \A s \in slides[t] : IsItem(s) /\ s[3] <= edits
        /\ t \notin cut => Whole(slides[t])
    BY <1>1 DEF EditsInv, ItemsInv
  <1>3. \A s \in kept : IsItem(s) /\ s[3] <= edits + 1
    <2>1. \A s \in slides[t] : IsItem(s) /\ s[3] <= edits + 1
      BY <1>1, <1>2 DEF IsItem
    <2> QED
      BY <1>7, <2>1
  <1>6. PICK by \in Nat : by = edits + 1
    BY <1>1
  <1>4. CASE r.kind = "copy"
    <2>1. /\ kept = {} /\ added = {<<s[1], s[2], by>> : s \in r.items}
      BY <1>1, <1>2, <1>4, <1>6, <1>7 DEF New, Added
    <2>2. \A s \in r.items : IsItem(s)
      BY DEF ItemsKnown
    <2>3. /\ Whole(r.items) => Whole(added)
          /\ \A s \in added : IsItem(s) /\ s[3] = by
      <3>1. PICK items : items = r.items
        OBVIOUS
      <3>2. \A s \in items : IsItem(s)
        BY <2>2, <3>1
      <3>3. /\ Whole(items) => Whole({<<s[1], s[2], by>> : s \in items})
            /\ \A x \in {<<s[1], s[2], by>> : s \in items} : IsItem(x) /\ x[3] = by
        BY <3>2, CopiesWhole
      <3>4. added = {<<s[1], s[2], by>> : s \in items}
        BY <2>1, <3>1
      <3> QED
        BY <3>1, <3>3, <3>4
    <2>4. kept \cup added = added
      BY <2>1
    <2>5. t \notin cut' => Whole(r.items)
      BY <1>4 DEF ItemsKnown
    <2>6. \A s \in added : s[3] <= edits + 1
      BY <1>6, <2>3
    <2> QED
      BY <1>6, <2>3, <2>4, <2>5, <2>6
  <1>5. CASE r.kind # "copy"
    <2>1. added = Slides(r.assets, by)
      BY <1>5, <1>6 DEF Added
    <2>2. /\ Whole(added) /\ \A s \in added : IsItem(s) /\ s[3] = by
          /\ r.assets # <<>> => \E s \in added : s[1] = 0
          /\ r.assets = <<>> => added = {}
      <3>1. PICK assets \in Seq(Assets) : assets = r.assets
        BY <1>1
      <3>2. PICK slid : slid = Slides(assets, by)
        OBVIOUS
      <3>3. /\ Whole(slid) /\ \A s \in slid : IsItem(s) /\ s[3] = by
            /\ assets # <<>> => \E s \in slid : s[1] = 0
            /\ assets = <<>> => slid = {}
        BY <3>2, NewItemsWhole
      <3>4. added = slid
        BY <2>1, <3>1, <3>2
      <3> QED
        BY <3>1, <3>3, <3>4
    <2>3. \A s \in added : s[3] <= edits + 1
      BY <1>6, <2>2
    <2>4. cut \subseteq cut'
      OBVIOUS
    <2>5. CASE r.assets = <<>>
      <3>1. kept \cup added = slides[t]
        BY <1>7, <2>2, <2>5
      <3> QED
        BY <1>2, <1>3, <2>2, <2>3, <2>4, <3>1
    <2>6. CASE r.assets # <<>>
      <3>1. t \notin cut => kept = {}
        <4> SUFFICES ASSUME t \notin cut PROVE kept = {}
          OBVIOUS
        <4>1. CASE ~There(t)
          BY <1>2, <1>7, <2>6, <4>1
        <4>2. CASE There(t) /\ slides[t] = r.items
          BY <1>7, <2>6, <4>2
        <4>3. CASE There(t) /\ slides[t] \cap r.items = {}
          <5>1. kept = slides[t]
            BY <1>7, <2>6, <4>3
          <5>2. ASSUME slides[t] # {} PROVE FALSE
            <6>1. PICK n \in Nat : Places(slides[t]) = 0 .. n - 1
              BY <1>2 DEF Whole
            <6>2. PICK s \in slides[t] : s[1] \in 0 .. n - 1
              BY <5>2, <6>1 DEF Places
            <6>3. 0 \in 0 .. n - 1
              BY <6>2
            <6>4. \E x \in slides[t] : x[1] = 0
              BY <6>1, <6>3 DEF Places
            <6> QED
              BY <2>2, <2>6, <5>1, <6>4 DEF UniqueOrder
          <5> QED
            BY <5>1, <5>2
        <4> QED
          BY <1>1, <4>1, <4>2, <4>3 DEF ItemsKnown
      <3>2. t \notin cut' => kept \cup added = added
        BY <2>4, <3>1
      <3> QED
        BY <1>3, <1>6, <2>2, <2>3, <3>2
    <2> QED
      BY <2>5, <2>6
  <1> QED
    BY <1>4, <1>5

\* Whoever sets a default knows what holds its area, unless that is noted: no area comes to
\* two defaults.
LEMMA DefaultsCommitted ==
  ASSUME EditsInv, NEW r, RequestTyped(r), DefaultsKnown(r), NEW t, t = r.on,
         Lands(r),
         unsettled \subseteq unsettled',
         Settles(r) /\ r.default = "leave" /\ r.row.default => r.zone \in unsettled'
  PROVE  OneDefaultInv'
  <1>1. /\ t \in Templates
        /\ \A u \in Templates \ {t} :
             /\ drafts'[u].zone = drafts[u].zone
             /\ drafts'[u].default <=> drafts[u].default /\ u \notin r.others
        /\ drafts'[t] = Written(r)
        /\ ~Settles(r) => /\ drafts'[t].zone = drafts[t].zone
                          /\ drafts'[t].default => drafts[t].default
        /\ drafts'[t].zone = IF r.zone = r.row.zone THEN drafts[t].zone ELSE r.zone
    BY RowsCommitted
  <1>2. drafts'[t].default =>
          \/ r.default = "set"
          \/ r.default = "leave" /\ (r.row.default \/ drafts[t].default)
          \/ r.default = "unset" /\ ~r.row.default /\ drafts[t].default
    <2>1. r.row.default \in BOOLEAN /\ r.default \in {"leave", "set", "unset"}
      BY DEF RequestTyped, DraftRows
    <2>2. PICK wanted \in BOOLEAN :
            wanted = IF r.default = "leave" THEN r.row.default ELSE r.default = "set"
      BY <2>1
    <2>3. drafts'[t].default = IF wanted = r.row.default THEN drafts[t].default ELSE wanted
      BY <1>1, <2>2 DEF Written
    <2> QED
      BY <2>1, <2>2, <2>3
  <1>3. \A u \in Templates \ {t} :
          /\ drafts'[u].default /\ drafts'[t].default /\ Settles(r)
          => drafts'[u].zone # drafts'[t].zone \/ drafts'[t].zone \notin Zones \ unsettled'
    <2> SUFFICES ASSUME NEW u \in Templates \ {t}, drafts'[u].default, drafts'[t].default,
                        Settles(r), drafts'[u].zone = drafts'[t].zone,
                        drafts'[t].zone \in Zones \ unsettled'
                 PROVE  FALSE
      OBVIOUS
    <2>1. PICK zone \in Zones \ unsettled' :
            /\ zone = drafts'[t].zone /\ zone = drafts[u].zone
            /\ drafts[u].default /\ u \notin r.others
      BY <1>1
    <2>2. CASE r.zone = r.row.zone
      <3>1. r.default = "set" /\ zone = drafts[t].zone
        BY <1>1, <2>1, <2>2 DEF Settles
      <3>2. zone = r.zone
        BY <2>1, <2>2, <3>1 DEF DefaultsKnown, Zones
      <3>3. u \in DefaultsIn(r.zone) \ {t}
        BY <2>1, <3>2 DEF DefaultsIn
      <3> QED
        BY <2>1, <3>1, <3>2, <3>3 DEF DefaultsKnown
    <2>3. CASE r.zone # r.row.zone
      <3>1. zone = r.zone /\ zone \notin unsettled
        BY <1>1, <2>1, <2>3
      <3>2. r.default # "set"
        BY <2>1, <3>1 DEF DefaultsKnown, DefaultsIn
      <3>3. r.row.default \/ ~drafts[t].default
        BY <3>1 DEF DefaultsKnown
      <3> QED
        BY <1>2, <2>1, <3>1, <3>2, <3>3
    <2> QED
      BY <2>2, <2>3
  <1> SUFFICES ASSUME NEW u \in Templates, NEW v \in Templates, drafts'[u].default,
                      drafts'[v].default, drafts'[u].zone = drafts'[v].zone,
                      drafts'[v].zone \in Zones \ unsettled', u # v
               PROVE  FALSE
    BY DEF OneDefaultInv
  <1>4. CASE Settles(r) /\ (u = t \/ v = t)
    BY <1>3, <1>4
  <1>5. CASE ~Settles(r) \/ (u # t /\ v # t)
    BY <1>1, <1>5 DEF EditsInv, OneDefaultInv
  <1> QED
    BY <1>4, <1>5

\* What another editor has fetched or read is still so after a commit, unless the overlap of
\* the two is noted.
LEMMA OthersHold ==
  ASSUME EditsInv, NEW r, RequestTyped(r), VersionKnown(r), NEW t, t = r.on, Lands(r),
         NEW o, EditorHolds(o), o # Free,
         \A u \in Templates \ {t} : slides'[u] = slides[u],
         t \notin cut' => slides'[t] = slides[t] \/ \A s \in slides'[t] : s[3] = edits + 1,
         edits' = edits + 1, cut \subseteq cut', overlapped \subseteq overlapped',
         unsettled \subseteq unsettled', o.on = t => ~New(r),
         o.at = "checked" /\ o.on = t => t \in overlapped' /\ ~New(o),
         o.at = "checked" /\ Settles(o) /\ Settles(r)
           => ZonesOf(r) \cup ZonesOf(o) \subseteq unsettled'
  PROVE  EditorHolds(o)'
  <1>1. /\ t \in Templates /\ (New(r) <=> ~There(t))
        /\ \A u \in Templates \ {t} :
             /\ drafts'[u].zone = drafts[u].zone /\ drafts'[u].version = drafts[u].version
             /\ drafts'[u].last = drafts[u].last
             /\ drafts'[u].default => drafts[u].default
        /\ drafts'[t] = Written(r) /\ There(t)'
        /\ ~Settles(r) => /\ drafts'[t].zone = drafts[t].zone
                          /\ \A u \in Templates : drafts'[u].default => drafts[u].default
        /\ drafts'[t].zone = IF r.zone = r.row.zone THEN drafts[t].zone ELSE r.zone
    BY RowsCommitted
  <1>2. edits \in Nat /\ r.row.version \in Nat
    BY DEF EditsInv, EditingTypeOK, RequestTyped, DraftRows
  <1>3. CASE o.at = "fetched" /\ FetchHolds(o)
    <2>1. FetchHolds(o)'
      <3>1. CASE o.on # t
        BY <1>1, <1>3, <3>1 DEF FetchHolds, There
      <3>2. CASE o.on = t
        <4> SUFFICES ASSUME t \notin overlapped'
                     PROVE  /\ o.version <= drafts'[t].version
                            /\ o.version = drafts'[t].version => o.last = drafts'[t].last
          BY <1>3, <3>2 DEF FetchHolds
        <4>1. /\ There(t) /\ t \notin overlapped /\ o.version \in Nat
              /\ o.version <= drafts[t].version
              /\ o.version = drafts[t].version => o.last = drafts[t].last
          BY <1>1, <1>3, <3>2 DEF FetchHolds
        <4>2. r.row.version = drafts[t].version
          BY <1>1, <4>1 DEF VersionKnown
        <4>3. CASE r.kind = "default"
          <5>1. drafts'[t].version = drafts[t].version /\ drafts'[t].last = drafts[t].last
            BY <1>1, <4>3 DEF Written
          <5> QED
            BY <4>1, <5>1
        <4>4. CASE r.kind # "default"
          <5>1. drafts'[t].version = drafts[t].version + 1
            BY <1>1, <4>2, <4>4 DEF Written
          <5> QED
            BY <1>2, <4>1, <4>2, <5>1
        <4> QED
          BY <4>3, <4>4
      <3> QED
        BY <3>1, <3>2
    <2> QED
      BY <1>3, <2>1 DEF EditorHolds
  <1>4. CASE /\ o.at = "checked" /\ RequestTyped(o) /\ ItemsKnown(o)
             /\ VersionKnown(o) /\ DefaultsKnown(o)
    <2>1. o.on \in Templates
      BY <1>4 DEF RequestTyped
    <2>2. RequestTyped(o)'
      BY <1>1, <1>4, <2>1 DEF RequestTyped, There, New
    <2>3. ItemsKnown(o)'
      <3>1. \A s \in o.items : IsItem(s) /\ s[3] <= edits /\ s[3] \in Nat
        BY <1>4 DEF ItemsKnown, IsItem
      <3>2. \A s \in o.items : s[3] <= edits' /\ s[3] # edits + 1
        BY <1>2, <3>1
      <3>3. ~New(o) /\ o.on \notin cut' =>
              slides'[o.on] = o.items \/ slides'[o.on] \cap o.items = {}
        BY <1>4, <2>1, <3>2 DEF ItemsKnown
      <3> QED
        BY <1>4, <3>1, <3>2, <3>3 DEF ItemsKnown, New, IsItem, Whole, Places
    <2>4. VersionKnown(o)'
      BY <1>1, <1>4, <2>1 DEF VersionKnown, There, New
    <2>5. DefaultsKnown(o)'
      <3> SUFFICES ASSUME Settles(o)
                   PROVE  /\ o.default = "set" /\ o.zone \notin unsettled'
                               => DefaultsIn(o.zone)' \ {o.on} \subseteq o.others
                          /\ drafts'[o.on].zone \in {o.row.zone, "none"} \cup unsettled'
                          /\ ~o.row.default /\ drafts'[o.on].default => o.zone \in unsettled'
        BY DEF DefaultsKnown, Settles, DefaultsIn
      <3>1. /\ o.default = "set" /\ o.zone \notin unsettled
                 => DefaultsIn(o.zone) \ {o.on} \subseteq o.others
            /\ drafts[o.on].zone \in {o.row.zone, "none"} \cup unsettled
            /\ ~o.row.default /\ drafts[o.on].default => o.zone \in unsettled
        BY <1>4 DEF DefaultsKnown
      <3>2. CASE Settles(r)
        <4>1. o.zone \in unsettled' /\ r.zone \in unsettled'
          BY <1>4, <3>2 DEF ZonesOf
        <4>2. drafts'[o.on].zone \in {drafts[o.on].zone} \cup unsettled'
          BY <1>1, <2>1, <4>1
        <4> QED
          BY <3>1, <4>1, <4>2
      <3>3. CASE ~Settles(r)
        <4>1. /\ \A u \in Templates : drafts'[u].zone = drafts[u].zone
              /\ \A u \in Templates : drafts'[u].default => drafts[u].default
          BY <1>1, <3>3
        <4>2. DefaultsIn(o.zone)' \subseteq DefaultsIn(o.zone)
          BY <4>1 DEF DefaultsIn
        <4> QED
          BY <2>1, <3>1, <4>1, <4>2
      <3> QED
        BY <3>2, <3>3
    <2> QED
      BY <1>4, <2>2, <2>3, <2>4, <2>5 DEF EditorHolds
  <1> QED
    BY <1>3, <1>4 DEF EditorHolds

\* A commit writes the row and the items, and unsets the other defaults it has read; or it
\* fails and leaves all as it was.
LEMMA UpdateCommitted ==
  ASSUME EditsInv, NEW e \in Editors, Commit(e)
  PROVE  EditsInv'
  <1>1. PICK r : r = editors[e]
    OBVIOUS
  <1>2. PICK t : t = r.on
    OBVIOUS
  <1>3. PICK kept : kept = Kept(r)
    OBVIOUS
  <1>4. PICK added : added = Added(r)
    OBVIOUS
  <1>5. r.at = "checked" /\ editors' = [editors EXCEPT ![e] = Free] /\ UNCHANGED library
    BY <1>1 DEF Commit
  <1>6. CASE UNCHANGED <<drafts, slides, edits, cut, overlapped, lost, unsettled>>
    BY <1>5, <1>6, FreeKeeps DEF draftVars
  <1>7. CASE /\ There(t) <=> r.kind \in {"update", "default"}
             /\ UniqueOrder(kept, added)
             /\ Edits
             /\ drafts' = [u \in Templates |->
                  IF u = t THEN Written(r) ELSE [drafts[u] EXCEPT !.default = @ /\ ~Unsets(u, r)]]
             /\ slides' = [slides EXCEPT ![t] = kept \cup added]
             /\ cut' = IF r.copies \in cut THEN cut \cup {t} ELSE cut
             /\ overlapped' = IF \E o \in Beside(e) : o.on = t THEN overlapped \cup {t}
                                ELSE overlapped
             /\ lost' = IF r.based /\ r.last # drafts[t].last THEN lost \cup {t} ELSE lost
             /\ unsettled' = unsettled \cup Unsettled(e, r)
    <2>1. RequestTyped(r) /\ ItemsKnown(r) /\ VersionKnown(r) /\ DefaultsKnown(r)
      BY <1>1, <1>5 DEF EditsInv, EditorsInv, EditorHolds, Free
    <2>2. Lands(r)
      BY <1>2, <1>7 DEF Lands
    <2>3. /\ t \in Templates /\ (New(r) <=> ~There(t))
          /\ drafts' \in [Templates -> DraftRows]
          /\ \A u \in Templates \ {t} :
               /\ drafts'[u].zone = drafts[u].zone
               /\ ~There(u) => drafts'[u] = Absent
          /\ There(t)'
      BY <1>2, <2>1, <2>2, RowsCommitted
    <2>4. /\ \A s \in kept \cup added : IsItem(s) /\ s[3] <= edits + 1
          /\ t \notin cut' =>
               /\ Whole(kept \cup added)
               /\ kept \cup added = slides[t] \/ \A s \in kept \cup added : s[3] = edits + 1
      <3>1. There(t) <=> r.kind \in {"update", "default"}
        BY <1>7
      <3>2. UniqueOrder(kept, added) /\ cut' = IF r.copies \in cut THEN cut \cup {t} ELSE cut
        BY <1>7
      <3> QED
        BY <1>2, <1>3, <1>4, <2>1, <3>1, <3>2, ItemsCommitted
    <2>5. /\ DOMAIN slides = Templates /\ DOMAIN editors = Editors /\ edits \in Nat
          /\ edits' = edits + 1
      BY <1>7 DEF EditsInv, EditingTypeOK, Edits
    <2>6. /\ slides'[t] = kept \cup added
          /\ \A u \in Templates \ {t} : slides'[u] = slides[u]
      BY <1>7, <2>3, <2>5
    <2>7. cut \subseteq cut' /\ overlapped \subseteq overlapped' /\ unsettled \subseteq unsettled'
      BY <1>7
    <2>8. EditingTypeOK'
      BY <1>5, <1>7, <2>3, <2>5 DEF EditingTypeOK
    <2>9. ItemsInv'
      <3> SUFFICES ASSUME NEW u \in Templates
                   PROVE  /\ ~There(u)' => drafts'[u] = Absent /\ slides'[u] = {}
                          /\ \A s \in slides'[u] : IsItem(s) /\ s[3] <= edits'
                          /\ u \notin cut' => Whole(slides'[u])
        BY DEF ItemsInv, There, IsItem, Whole, Places
      <3>1. CASE u = t
        BY <2>3, <2>4, <2>5, <2>6, <3>1
      <3>2. CASE u # t
        <4>1. \A s \in slides[u] : IsItem(s) /\ s[3] <= edits /\ s[3] \in Nat
          BY DEF EditsInv, ItemsInv, IsItem
        <4>2. \A s \in slides[u] : s[3] <= edits + 1
          BY <2>5, <4>1
        <4>3. There(u)' <=> There(u)
          BY <2>3, <3>2 DEF There
        <4>4. /\ ~There(u) => slides[u] = {}
              /\ u \notin cut => Whole(slides[u])
          BY DEF EditsInv, ItemsInv
        <4> QED
          BY <2>3, <2>5, <2>6, <2>7, <3>2, <4>1, <4>2, <4>3, <4>4
      <3> QED
        BY <3>1, <3>2
    <2>10. OneDefaultInv'
      <3>1. Settles(r) /\ r.default = "leave" /\ r.row.default => r.zone \in unsettled'
        BY <1>7 DEF Unsettled
      <3> QED
        BY <1>2, <2>1, <2>2, <2>7, <3>1, DefaultsCommitted
    <2>11. NewInv'
      BY <1>5, <2>5 DEF EditsInv, NewInv, New, Free
    <2>12. (lost \subseteq overlapped)'
      <3>1. r.based /\ r.last # drafts[t].last => t \in overlapped
        BY <1>2, <2>1, <2>3 DEF RequestTyped, VersionKnown
      <3> QED
        BY <1>7, <2>7, <3>1 DEF EditsInv
    <2>13. EditorsInv'
      <3> SUFFICES ASSUME NEW f \in Editors PROVE EditorHolds(editors[f])'
        BY DEF EditorsInv
      <3>1. PICK o : o = editors[f]
        OBVIOUS
      <3>2. CASE f = e \/ o = Free
        <4>1. editors'[f] = Free
          BY <1>5, <2>5, <3>1, <3>2
        <4> QED
          BY <4>1 DEF EditorHolds, Free
      <3>3. CASE f # e /\ o # Free
        <4>1. EditorHolds(o)
          BY <3>1 DEF EditsInv, EditorsInv
        <4>2. editors'[f] = o
          BY <1>5, <2>5, <3>1, <3>3
        <4>3. o.on = t => ~New(r)
          BY <1>1, <1>2, <1>5, <3>1, <3>3 DEF EditsInv, NewInv, New
        <4>4. o.at = "checked" => o \in Beside(e)
          BY <3>1, <3>3 DEF Beside
        <4>5. o.at = "checked" /\ o.on = t => t \in overlapped' /\ ~New(o)
          <5>1. o.at = "checked" /\ New(o) => o.on # t
            <6>1. r # Free
              BY <1>5 DEF Free
            <6> QED
              BY <1>1, <1>2, <3>1, <3>3, <6>1 DEF EditsInv, NewInv, New
          <5> QED
            BY <1>7, <4>4, <5>1
        <4>6. o.at = "checked" /\ Settles(o) /\ Settles(r)
                => ZonesOf(r) \cup ZonesOf(o) \subseteq unsettled'
          BY <1>7, <4>4 DEF Unsettled
        <4>7. t \notin cut' => slides'[t] = slides[t] \/ \A s \in slides'[t] : s[3] = edits + 1
          BY <2>4, <2>6
        <4>8. EditorHolds(o)'
          BY <1>2, <2>1, <2>2, <2>5, <2>6, <2>7, <3>3, <4>1, <4>3, <4>5, <4>6, <4>7, OthersHold
        <4> QED
          BY <4>2, <4>8
      <3> QED
        BY <3>2, <3>3
    <2> QED
      BY <2>8, <2>9, <2>10, <2>11, <2>12, <2>13 DEF EditsInv
  <1> QED
    BY <1>1, <1>2, <1>3, <1>4, <1>6, <1>7 DEF Commit, Kept, Added

\* Whole items are counted by their places.
LEMMA WholeCounts ==
  ASSUME NEW items, Whole(items)
  PROVE  Places(items) = 0 .. Cardinality(items) - 1
  <1>1. PICK n \in Nat : Places(items) = 0 .. n - 1
    BY DEF Whole
  <1> DEFINE Item(i) == CHOOSE s \in items : s[1] = i - 1
  <1>2. \A i \in 1 .. n : Item(i) \in items /\ Item(i)[1] = i - 1
    <2> SUFFICES ASSUME NEW i \in 1 .. n PROVE \E s \in items : s[1] = i - 1
      OBVIOUS
    <2>1. i - 1 \in 0 .. n - 1
      OBVIOUS
    <2> QED
      BY <1>1, <2>1 DEF Places
  <1>3. \A s \in items : \E i \in 1 .. n : s[1] = i - 1
    <2> SUFFICES ASSUME NEW s \in items PROVE \E i \in 1 .. n : s[1] = i - 1
      OBVIOUS
    <2>1. s[1] \in 0 .. n - 1
      BY <1>1 DEF Places
    <2>2. s[1] + 1 \in 1 .. n /\ s[1] = (s[1] + 1) - 1
      BY <2>1
    <2> QED
      BY <2>2
  <1> DEFINE f == [i \in 1 .. n |-> Item(i)]
  <1>4. f \in [1 .. n -> items]
    BY <1>2
  <1>5. \A i, j \in 1 .. n : f[i] = f[j] => i = j
    <2> SUFFICES ASSUME NEW i \in 1 .. n, NEW j \in 1 .. n, f[i] = f[j] PROVE i = j
      OBVIOUS
    <2>1. i - 1 = j - 1
      BY <1>2
    <2> QED
      BY <2>1
  <1>6. \A s \in items : \E i \in 1 .. n : f[i] = s
    <2> SUFFICES ASSUME NEW s \in items PROVE \E i \in 1 .. n : f[i] = s
      OBVIOUS
    <2>1. PICK i \in 1 .. n : s[1] = i - 1
      BY <1>3
    <2>2. Item(i) = s
      <3>1. Item(i) \in items /\ Item(i)[1] = s[1]
        BY <1>2, <2>1
      <3> QED
        BY <3>1 DEF Whole
    <2> QED
      BY <2>2
  <1> HIDE DEF f
  <1>7. f \in Bijection(1 .. n, items)
    BY <1>4, <1>5, <1>6 DEF Bijection, Injection, Surjection, IsInjective
  <1>8. Cardinality(items) = n
    BY <1>7, FS_CountingElements DEF ExistsBijection
  <1> QED
    BY <1>1, <1>8

\* Every step of the editors and of the deletions.
LEMMA EditsStep == EditsInv /\ [EditingNext]_editVars => EditsInv'
  <1> SUFFICES ASSUME EditsInv, [EditingNext]_editVars PROVE EditsInv'
    OBVIOUS
  <1>1. Choices \subseteq Seq(Assets) /\ <<>> \in Seq(Assets)
    BY EditingAssumption
  <1>2. ASSUME NEW e \in Editors, NEW t \in Templates, GetBlock(e, t) \/ SetDefault(e, t)
        PROVE  EditsInv'
    BY <1>2, FetchKeeps, DefaultKeeps
  <1>3. ASSUME NEW e \in Editors, NEW assets \in Choices \cup {<<>>}, NEW zone \in Zones,
               NEW default \in {"leave", "set", "unset"},
               HandleUpdateBlock(e, assets, zone, default)
        PROVE  EditsInv'
    BY <1>1, <1>3, UpdateKeeps
  <1>4. ASSUME NEW e \in Editors, NEW assets \in Choices, UpdatePlaylist(e, assets)
        PROVE  EditsInv'
    <2>1. PICK t : t = editors[e].on
      OBVIOUS
    <2>2. PICK held : held = editors[e]
      OBVIOUS
    <2>3. held.at = "fetched" /\ There(t)
      BY <1>4, <2>1, <2>2 DEF UpdatePlaylist, HandleUpdateBlock
    <2>4. t \in Templates
      BY <2>1, <2>2, <2>3 DEF EditsInv, EditorsInv, EditorHolds, FetchHolds, Free
    <2>5. drafts[t].zone \in Zones
      BY <2>3, <2>4 DEF EditsInv, EditingTypeOK, DraftRows, There
    <2>6. HandleUpdateBlock(e, assets, drafts[t].zone, "leave")
      BY <1>4, <2>1 DEF UpdatePlaylist
    <2> QED
      BY <1>1, <2>5, <2>6, UpdateKeeps
  <1>5. ASSUME NEW e \in Editors, NEW t \in Templates, NEW assets \in Choices, NEW zone \in Zones,
               NEW default \in {"leave", "set"}, CreateBlock(e, t, assets, zone, default)
        PROVE  EditsInv'
    BY <1>1, <1>5, CreateKeeps
  <1>6. ASSUME NEW e \in Editors, NEW t \in Templates, NEW source \in Templates,
               DuplicateBlock(e, t, source)
        PROVE  EditsInv'
    BY <1>6, CopyKeeps
  <1>7. ASSUME NEW e \in Editors, SelectItems(e) \/ Commit(e) \/ Leaves(e)
        PROVE  EditsInv'
    BY <1>7, SelectKeeps, UpdateCommitted, FreeKeeps DEF Leaves
  <1>8. ASSUME NEW t \in Templates, DeleteBlock(t)
        PROVE  EditsInv'
    BY <1>8, DeleteKeeps
  <1>9. ASSUME NEW a \in Assets, NEW force \in BOOLEAN, DeleteMediaAsset(a, force)
        PROVE  EditsInv'
    BY <1>9, MediaKeeps
  <1>10. CASE UNCHANGED editVars
    <2>1. /\ UNCHANGED <<drafts, slides, library, editors, edits>>
          /\ UNCHANGED <<cut, overlapped, lost, unsettled>>
      BY <1>10 DEF editVars, draftVars
    <2>2. EditingTypeOK' /\ ItemsInv' /\ OneDefaultInv' /\ NewInv' /\ (lost \subseteq overlapped)'
      BY <2>1 DEF EditsInv, EditingTypeOK, ItemsInv, OneDefaultInv, NewInv, New, There
    <2>3. EditorsInv'
      <3> SUFFICES ASSUME NEW f \in Editors PROVE EditorHolds(editors[f])'
        BY DEF EditorsInv
      <3>1. EditorHolds(editors[f])
        BY DEF EditsInv, EditorsInv
      <3> QED
        BY <2>1, <3>1 DEF EditorHolds, FetchHolds, RequestTyped, ItemsKnown, VersionKnown,
          DefaultsKnown, DefaultsIn, There, New, Settles
    <2> QED
      BY <2>2, <2>3 DEF EditsInv
  <1> QED
    BY <1>2, <1>3, <1>4, <1>5, <1>6, <1>7, <1>8, <1>9, <1>10 DEF EditingNext

\* For any editors: but where a forced deletion took items, the items of a template have the
\* places 0, 1, ... and are of one update; nobody overwrites an update they have not seen but
\* where two requests overlapped; and an area has one default but where that is noted.
THEOREM EditingAlwaysHolds == EditingSpec => []EditsHold
  <1>1. EditingInit => EditsInv
    <2> SUFFICES ASSUME EditingInit PROVE EditsInv
      OBVIOUS
    <2>1. PICK first : first = CHOOSE t \in Templates : TRUE
      OBVIOUS
    <2>2. PICK a : a = CHOOSE x \in Assets : TRUE
      OBVIOUS
    <2>3. PICK row : row = [zone |-> "FULL_SCREEN", default |-> TRUE, version |-> 1, last |-> 0]
      OBVIOUS
    <2>4. /\ row \in DraftRows /\ row.zone = "FULL_SCREEN"
          /\ Absent \in DraftRows /\ Absent.zone = "none" /\ Absent.default = FALSE
      BY <2>3 DEF DraftRows, Zones, Absent
    <2>5. PICK items : items = {<<0, a, 0>>}
      OBVIOUS
    <2>6. /\ drafts = [t \in Templates |-> IF t = first THEN row ELSE Absent]
          /\ slides = [t \in Templates |-> IF t = first THEN items ELSE {}]
          /\ editors = [e \in Editors |-> Free]
          /\ edits = 0 /\ lost = {}
      <3>1. Slides(<<a>>, 0) = items
        BY <2>5 DEF Slides
      <3> QED
        BY <2>1, <2>2, <2>3, <3>1 DEF EditingInit
    <2>7. EditingTypeOK
      BY <2>4, <2>6 DEF EditingTypeOK
    <2>8. ItemsInv
      <3>1. \A s \in items : IsItem(s) /\ s[3] <= 0
        BY <2>5 DEF IsItem
      <3>2. Places(items) = 0 .. 1 - 1 /\ Places({}) = 0 .. 0 - 1
        BY <2>5 DEF Places
      <3>3. Whole(items) /\ Whole({})
        BY <2>5, <3>2 DEF Whole
      <3> QED
        BY <2>4, <2>6, <3>1, <3>3 DEF ItemsInv, There
    <2>9. OneDefaultInv /\ NewInv
      BY <2>4, <2>6 DEF OneDefaultInv, NewInv, Free
    <2>10. EditorsInv
      BY <2>6 DEF EditorsInv, EditorHolds
    <2> QED
      BY <2>6, <2>7, <2>8, <2>9, <2>10 DEF EditsInv
  <1>2. EditsInv => EditsHold
    <2> SUFFICES ASSUME EditsInv PROVE EditsHold
      OBVIOUS
    <2>1. ASSUME NEW S, \A x, y \in S : x = y PROVE Cardinality(S) <= 1
      <3>1. CASE S = {}
        BY <3>1, FS_EmptySet
      <3>2. CASE S # {}
        <4>1. PICK x : x \in S
          BY <3>2
        <4>2. S = {x}
          BY <2>1, <4>1
        <4>3. Cardinality(S) = 1
          BY <4>2, FS_Singleton
        <4> QED
          BY <4>3
      <3> QED
        BY <3>1, <3>2
    <2>2. PlaylistWhole
      <3> SUFFICES ASSUME NEW t \in Templates \ cut
                   PROVE  /\ {s[1] : s \in slides[t]} = 0 .. Cardinality(slides[t]) - 1
                          /\ Cardinality({s[3] : s \in slides[t]}) <= 1
        BY DEF PlaylistWhole
      <3>1. Whole(slides[t])
        BY DEF EditsInv, ItemsInv
      <3>2. {s[1] : s \in slides[t]} = 0 .. Cardinality(slides[t]) - 1
        BY <3>1, WholeCounts DEF Places
      <3>3. PICK commits : commits = {s[3] : s \in slides[t]}
        OBVIOUS
      <3>4. \A x, y \in commits : x = y
        BY <3>1, <3>3 DEF Whole
      <3>5. Cardinality(commits) <= 1
        BY <2>1, <3>4
      <3> QED
        BY <3>2, <3>3, <3>5
    <2>3. NoLostUpdate
      BY DEF EditsInv, NoLostUpdate
    <2>4. OneDefault
      <3> SUFFICES ASSUME NEW zone \in Zones \ unsettled
                   PROVE  Cardinality(DefaultsIn(zone)) <= 1
        BY DEF OneDefault
      <3>1. PICK defaults : defaults = DefaultsIn(zone)
        OBVIOUS
      <3>2. \A x, y \in defaults : x = y
        BY <3>1 DEF EditsInv, OneDefaultInv, DefaultsIn
      <3>3. Cardinality(defaults) <= 1
        BY <2>1, <3>2
      <3> QED
        BY <3>1, <3>3
    <2> QED
      BY <2>2, <2>3, <2>4 DEF EditsHold
  <1> QED
    BY <1>1, <1>2, EditsStep, PTL DEF EditingSpec
=============================================================================
