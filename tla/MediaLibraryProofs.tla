------------------------- MODULE MediaLibraryProofs -------------------------
(***************************************************************************)
(* Proofs about MediaLibrary, for any sets of assets, files, templates and *)
(* calls: its types, that the files of active assets are kept, and that    *)
(* templates show active assets only.                                      *)
(***************************************************************************)
EXTENDS MediaLibrary, TLAPS

\* What each call in progress holds, and what any link refers to: rows that exist.
Rows == {a \in Assets : asset[a] # "unused"}

CallHolds(c, rows) ==
  /\ c.pc \in {"storing", "replacing"} => c.file \in Files
  /\ c.pc \in {"replacing", "unlinking", "marking", "counting", "removing"} =>
       c.asset \in rows /\ c.old \in Files
  /\ c.pc = "updating" => c.block \in Blocks
  /\ c.links \subseteq rows

CallsHold == \A r \in Requests : CallHolds(req[r], Rows)

LinksExist == \A b \in Blocks : playlist[b] \subseteq Rows

TypeInv == TypeOK /\ CallsHold /\ LinksExist

\* Every race is on record.
ClashesNoted == Clashes \subseteq spoilt

\* What a call has stored is on the disk.
StoredKept ==
  \A r \in Requests :
    req[r].pc \in {"storing", "replacing"} => req[r].file \in disk \cup spoilt

\* A file that a call removes has no user, and one that it counts is not used by the
\* asset which the count leaves out.
RemovedUnused ==
  \A r \in Requests :
    /\ req[r].pc = "removing" =>
         \A a \in Assets : asset[a] = "active" /\ file[a] = req[r].old => req[r].old \in spoilt
    /\ req[r].pc = "counting" =>
         \A a \in Assets : a = req[r].asset /\ asset[a] = "active" /\ file[a] = req[r].old
                             => req[r].old \in spoilt

FileInv == ClashesNoted /\ ActiveFilesKept /\ StoredKept /\ RemovedUnused

\* What a call links is active.
LinkedKept ==
  \A r \in Requests :
    req[r].pc \in {"creating", "updating"} => req[r].links \subseteq Active \cup spoilt

\* An asset that a call marks as deleted is on no template, and one that it unlinks only
\* on those that it has found.
DeletedUnlinked ==
  \A r \in Requests, b \in Blocks :
    /\ req[r].pc = "marking" /\ req[r].asset \in playlist[b] => req[r].asset \in spoilt
    /\ req[r].pc = "unlinking" /\ req[r].asset \in playlist[b] =>
         b \in req[r].from \/ req[r].asset \in spoilt

LinkInv == ClashesNoted /\ LinkedAreActive /\ LinkedKept /\ DeletedUnlinked

-----------------------------------------------------------------------------
(* Types.                                                                  *)

\* The history stays one of assets and files.
LEMMA SpoiltTyped ==
  ASSUME TypeInv, NEW X \in SUBSET Files, Spoil(X)
  PROVE  spoilt' \subseteq Assets \cup Files
  BY DEF Spoil, Clashes, TypeInv, TypeOK

\* An idle call holds nothing.
LEMMA IdleTyped ==
  Idle \in Calls /\ Idle.pc = "idle" /\ CallHolds(Idle, Rows) /\ CallHolds(Idle, Rows')
  BY DEF Idle, Calls, CallHolds

\* A step that changes one call, to one that holds rows that exist, keeps the others'.
LEMMA OneCall ==
  ASSUME TypeInv, NEW r \in Requests, NEW c \in Calls, req' = [req EXCEPT ![r] = c],
         Rows \subseteq Rows', CallHolds(c, Rows')
  PROVE  req' \in [Requests -> Calls] /\ CallsHold'
  <1>1. req \in [Requests -> Calls] /\ CallsHold
    BY DEF TypeInv, TypeOK
  <1>2. req' \in [Requests -> Calls]
    BY <1>1
  <1>3. ASSUME NEW q \in Requests PROVE CallHolds(req'[q], Rows')
    BY <1>1 DEF CallsHold, CallHolds
  <1> QED
    BY <1>2, <1>3 DEF CallsHold

\* Types are inductive: initially.
LEMMA TypeInit == Init => TypeInv
  BY IdleTyped, LibraryAssumption
  DEF Init, TypeInv, TypeOK, CallsHold, LinksExist, Rows, Live

\* Types are inductive: every step of a call.
LEMMA TypeStep ==
  ASSUME TypeInv, NEW r \in Requests, Step(r)
  PROVE  TypeInv'
  <1> USE LibraryAssumption
  <1>0. /\ req \in [Requests -> Calls] /\ CallHolds(req[r], Rows)
        /\ \A a \in Rows : a \in Assets /\ file[a] \in Files
        /\ Active \subseteq Rows
    BY DEF TypeInv, TypeOK, CallsHold, Rows, Active
  <1>1. ASSUME NEW f \in Files, Upload(r, f) PROVE TypeInv'
    <2> DEFINE c == [Idle EXCEPT !.pc = "storing", !.file = f]
    <2>1. req' = [req EXCEPT ![r] = c]
      BY <1>1, <1>0 DEF Upload, Begin
    <2>2. Rows \subseteq Rows'
      BY <1>1 DEF Upload, Rows, TypeInv, TypeOK
    <2>3. c \in Calls
      BY <1>1, <1>0, IdleTyped DEF Upload, At, Idle, Calls, CallHolds, TypeInv, TypeOK
    <2>4. CallHolds(c, Rows')
      BY <1>1, <1>0, <2>2, IdleTyped DEF Upload, At, Idle, Calls, CallHolds, TypeInv,
         LinksExist
    <2>5. req' \in [Requests -> Calls] /\ CallsHold'
      BY <2>1, <2>2, <2>3, <2>4, OneCall
    <2>6. spoilt' \subseteq Assets \cup Files
      BY <1>1, SpoiltTyped DEF Upload, Write
    <2> QED
      BY <1>1, <1>0, <2>5, <2>6 DEF Upload, Write, At, Active, Live, Rows, CallHolds,
         Calls, Stored, Condemned, TypeInv, TypeOK, LinksExist
  <1>2. ASSUME NEW a \in Assets, CommitUpload(r, a) PROVE TypeInv'
    <2> DEFINE c == Idle
    <2>1. req' = [req EXCEPT ![r] = c]
      BY <1>2, <1>0 DEF CommitUpload, End
    <2>2. Rows \subseteq Rows'
      BY <1>2 DEF CommitUpload, Rows, TypeInv, TypeOK
    <2>3. c \in Calls
      BY <1>2, <1>0, IdleTyped DEF CommitUpload, At, Idle, Calls, CallHolds, TypeInv, TypeOK
    <2>4. CallHolds(c, Rows')
      BY <1>2, <1>0, <2>2, IdleTyped DEF CommitUpload, At, Idle, Calls, CallHolds, TypeInv,
         LinksExist
    <2>5. req' \in [Requests -> Calls] /\ CallsHold'
      BY <2>1, <2>2, <2>3, <2>4, OneCall
    <2>6. spoilt' \subseteq Assets \cup Files
      BY <1>2, SpoiltTyped DEF CommitUpload
    <2> QED
      BY <1>2, <1>0, <2>5, <2>6 DEF CommitUpload, At, Active, Live, Rows, CallHolds, Calls,
         Stored, Condemned, TypeInv, TypeOK, LinksExist
  <1>3. ASSUME NEW a \in Assets, NEW f \in Files, Replace(r, a, f) PROVE TypeInv'
    <2> DEFINE c == [Idle EXCEPT !.pc = "replacing", !.asset = a, !.file = f, !.old = file[a]]
    <2>1. req' = [req EXCEPT ![r] = c]
      BY <1>3, <1>0 DEF Replace, Begin
    <2>2. Rows \subseteq Rows'
      BY <1>3 DEF Replace, Rows, TypeInv, TypeOK
    <2>3. c \in Calls
      BY <1>3, <1>0, IdleTyped DEF Replace, At, Idle, Calls, CallHolds, TypeInv, TypeOK
    <2>4. CallHolds(c, Rows')
      BY <1>3, <1>0, <2>2, IdleTyped DEF Replace, At, Idle, Calls, CallHolds, TypeInv,
         LinksExist
    <2>5. req' \in [Requests -> Calls] /\ CallsHold'
      BY <2>1, <2>2, <2>3, <2>4, OneCall
    <2>6. spoilt' \subseteq Assets \cup Files
      BY <1>3, SpoiltTyped DEF Replace, Write
    <2> QED
      BY <1>3, <1>0, <2>5, <2>6 DEF Replace, Write, At, Active, Live, Rows, CallHolds,
         Calls, Stored, Condemned, TypeInv, TypeOK, LinksExist
  <1>4. ASSUME CommitReplace(r) PROVE TypeInv'
    <2> DEFINE c == IF req[r].file # req[r].old
                    THEN [req[r] EXCEPT !.pc = "counting", !.file = None] ELSE Idle
    <2>1. req' = [req EXCEPT ![r] = c]
      BY <1>4, <1>0 DEF CommitReplace, End
    <2>2. Rows \subseteq Rows'
      BY <1>4 DEF CommitReplace, Rows, TypeInv, TypeOK
    <2>3. c \in Calls
      BY <1>4, <1>0, IdleTyped DEF CommitReplace, At, Idle, Calls, CallHolds, TypeInv,
         TypeOK
    <2>4. CallHolds(c, Rows')
      BY <1>4, <1>0, <2>2, IdleTyped DEF CommitReplace, At, Idle, Calls, CallHolds,
         TypeInv, LinksExist
    <2>5. req' \in [Requests -> Calls] /\ CallsHold'
      BY <2>1, <2>2, <2>3, <2>4, OneCall
    <2>6. spoilt' \subseteq Assets \cup Files
      BY <1>4, SpoiltTyped DEF CommitReplace
    <2> QED
      BY <1>4, <1>0, <2>5, <2>6 DEF CommitReplace, Stale, At, Active, Live, Rows,
         CallHolds, Calls, Stored, Condemned, TypeInv, TypeOK, LinksExist
  <1>5. ASSUME NEW a \in Assets, NEW force \in BOOLEAN, Delete(r, a, force) PROVE TypeInv'
    <2> DEFINE c == [Idle EXCEPT !.pc = IF BlocksWith(a) = {} THEN "marking" ELSE "unlinking",
                         !.asset = a, !.old = file[a], !.from = BlocksWith(a)]
    <2>1. req' = [req EXCEPT ![r] = c]
      BY <1>5, <1>0 DEF Delete, Begin
    <2>2. Rows \subseteq Rows'
      BY <1>5 DEF Delete, Rows, TypeInv, TypeOK
    <2>3. c \in Calls
      BY <1>5, <1>0, IdleTyped DEF Delete, At, Idle, Calls, CallHolds, TypeInv, TypeOK,
         BlocksWith
    <2>4. CallHolds(c, Rows')
      BY <1>5, <1>0, <2>2, IdleTyped DEF Delete, At, Idle, Calls, CallHolds, TypeInv,
         LinksExist
    <2>5. req' \in [Requests -> Calls] /\ CallsHold'
      BY <2>1, <2>2, <2>3, <2>4, OneCall
    <2>6. spoilt' \subseteq Assets \cup Files
      BY <1>5, SpoiltTyped DEF Delete
    <2> QED
      BY <1>5, <1>0, <2>5, <2>6 DEF Delete, At, Active, Live, Rows, CallHolds, Calls,
         Stored, Condemned, TypeInv, TypeOK, LinksExist
  <1>6. ASSUME Unlink(r) PROVE TypeInv'
    <2> DEFINE c == [req[r] EXCEPT !.pc = "marking", !.from = {}]
    <2>1. req' = [req EXCEPT ![r] = c]
      BY <1>6, <1>0 DEF Unlink
    <2>2. Rows \subseteq Rows'
      BY <1>6 DEF Unlink, Rows, TypeInv, TypeOK
    <2>3. c \in Calls
      BY <1>0 DEF Calls
    <2>4. CallHolds(c, Rows')
      BY <1>6, <1>0, <2>2, IdleTyped DEF Unlink, At, Idle, Calls, CallHolds, TypeInv,
         LinksExist
    <2>5. req' \in [Requests -> Calls] /\ CallsHold'
      BY <2>1, <2>2, <2>3, <2>4, OneCall
    <2>6. spoilt' \subseteq Assets \cup Files
      BY <1>6, SpoiltTyped DEF Unlink
    <2> QED
      BY <1>6, <1>0, <2>5, <2>6 DEF Unlink, At, Active, Live, Rows, CallHolds, Calls,
         Stored, Condemned, TypeInv, TypeOK, LinksExist
  <1>7. ASSUME MarkDeleted(r) PROVE TypeInv'
    <2> DEFINE c == [req[r] EXCEPT !.pc = "counting"]
    <2>1. req' = [req EXCEPT ![r] = c]
      BY <1>7, <1>0 DEF MarkDeleted
    <2>2. Rows \subseteq Rows'
      BY <1>7 DEF MarkDeleted, Rows, TypeInv, TypeOK
    <2>3. c \in Calls
      BY <1>7, <1>0, IdleTyped DEF MarkDeleted, At, Idle, Calls, CallHolds, TypeInv, TypeOK
    <2>4. CallHolds(c, Rows')
      BY <1>7, <1>0, <2>2, IdleTyped DEF MarkDeleted, At, Idle, Calls, CallHolds, TypeInv,
         LinksExist
    <2>5. req' \in [Requests -> Calls] /\ CallsHold'
      BY <2>1, <2>2, <2>3, <2>4, OneCall
    <2>6. spoilt' \subseteq Assets \cup Files
      BY <1>7, SpoiltTyped DEF MarkDeleted
    <2> QED
      BY <1>7, <1>0, <2>5, <2>6 DEF MarkDeleted, At, Active, Live, Rows, CallHolds, Calls,
         Stored, Condemned, TypeInv, TypeOK, LinksExist
  <1>8. ASSUME Count(r) PROVE TypeInv'
    <2> DEFINE c == IF UsersOf(req[r].old) \subseteq {req[r].asset}
           THEN [req[r] EXCEPT !.pc = "removing"] ELSE Idle
    <2>1. req' = [req EXCEPT ![r] = c]
      BY <1>8, <1>0 DEF Count, End
    <2>2. Rows \subseteq Rows'
      BY <1>8 DEF Count, Rows, TypeInv, TypeOK
    <2>3. c \in Calls
      BY <1>0, IdleTyped DEF Calls
    <2>4. CallHolds(c, Rows')
      BY <1>8, <1>0, <2>2, IdleTyped DEF Count, At, Idle, Calls, CallHolds, TypeInv,
         LinksExist
    <2>5. req' \in [Requests -> Calls] /\ CallsHold'
      BY <2>1, <2>2, <2>3, <2>4, OneCall
    <2>6. spoilt' \subseteq Assets \cup Files
      BY <1>8, SpoiltTyped DEF Count
    <2> QED
      BY <1>8, <1>0, <2>5, <2>6 DEF Count, At, Active, Live, Rows, CallHolds, Calls,
         Stored, Condemned, TypeInv, TypeOK, LinksExist
  <1>9. ASSUME Remove(r) PROVE TypeInv'
    <2> DEFINE c == Idle
    <2>1. req' = [req EXCEPT ![r] = c]
      BY <1>9, <1>0 DEF Remove, End
    <2>2. Rows \subseteq Rows'
      BY <1>9 DEF Remove, Rows, TypeInv, TypeOK
    <2>3. c \in Calls
      BY <1>9, <1>0, IdleTyped DEF Remove, At, Idle, Calls, CallHolds, TypeInv, TypeOK
    <2>4. CallHolds(c, Rows')
      BY <1>9, <1>0, <2>2, IdleTyped DEF Remove, At, Idle, Calls, CallHolds, TypeInv,
         LinksExist
    <2>5. req' \in [Requests -> Calls] /\ CallsHold'
      BY <2>1, <2>2, <2>3, <2>4, OneCall
    <2>6. spoilt' \subseteq Assets \cup Files
      BY <1>9, SpoiltTyped DEF Remove
    <2> QED
      BY <1>9, <1>0, <2>5, <2>6 DEF Remove, At, Active, Live, Rows, CallHolds, Calls,
         Stored, Condemned, TypeInv, TypeOK, LinksExist
  <1>10. ASSUME NEW links \in SUBSET Assets, Create(r, links) PROVE TypeInv'
    <2> DEFINE c == [Idle EXCEPT !.pc = "creating", !.links = links]
    <2>1. req' = [req EXCEPT ![r] = c]
      BY <1>10, <1>0 DEF Create, Begin
    <2>2. Rows \subseteq Rows'
      BY <1>10 DEF Create, Rows, TypeInv, TypeOK
    <2>3. c \in Calls
      BY <1>10, <1>0, IdleTyped DEF Create, At, Idle, Calls, CallHolds, TypeInv, TypeOK
    <2>4. CallHolds(c, Rows')
      BY <1>10, <1>0, <2>2, IdleTyped DEF Create, At, Idle, Calls, CallHolds, TypeInv,
         LinksExist
    <2>5. req' \in [Requests -> Calls] /\ CallsHold'
      BY <2>1, <2>2, <2>3, <2>4, OneCall
    <2>6. spoilt' \subseteq Assets \cup Files
      BY <1>10, SpoiltTyped DEF Create
    <2> QED
      BY <1>10, <1>0, <2>5, <2>6 DEF Create, At, Active, Live, Rows, CallHolds, Calls,
         Stored, Condemned, TypeInv, TypeOK, LinksExist
  <1>11. ASSUME NEW b \in Blocks, Duplicate(r, b) PROVE TypeInv'
    <2> DEFINE c == [Idle EXCEPT !.pc = "creating", !.links = playlist[b]]
    <2>1. req' = [req EXCEPT ![r] = c]
      BY <1>11, <1>0 DEF Duplicate, Begin
    <2>2. Rows \subseteq Rows'
      BY <1>11 DEF Duplicate, Rows, TypeInv, TypeOK
    <2>3. c \in Calls
      BY <1>11, <1>0, IdleTyped DEF Duplicate, At, Idle, Calls, CallHolds, TypeInv, TypeOK
    <2>4. CallHolds(c, Rows')
      BY <1>11, <1>0, <2>2, IdleTyped DEF Duplicate, At, Idle, Calls, CallHolds, TypeInv,
         LinksExist
    <2>5. req' \in [Requests -> Calls] /\ CallsHold'
      BY <2>1, <2>2, <2>3, <2>4, OneCall
    <2>6. spoilt' \subseteq Assets \cup Files
      BY <1>11, SpoiltTyped DEF Duplicate
    <2> QED
      BY <1>11, <1>0, <2>5, <2>6 DEF Duplicate, At, Active, Live, Rows, CallHolds, Calls,
         Stored, Condemned, TypeInv, TypeOK, LinksExist
  <1>12. ASSUME NEW b \in Blocks, CommitCreate(r, b) PROVE TypeInv'
    <2> DEFINE c == Idle
    <2>1. req' = [req EXCEPT ![r] = c]
      BY <1>12, <1>0 DEF CommitCreate, End
    <2>2. Rows \subseteq Rows'
      BY <1>12 DEF CommitCreate, Rows, TypeInv, TypeOK
    <2>3. c \in Calls
      BY <1>12, <1>0, IdleTyped DEF CommitCreate, At, Idle, Calls, CallHolds, TypeInv,
         TypeOK
    <2>4. CallHolds(c, Rows')
      BY <1>12, <1>0, <2>2, IdleTyped DEF CommitCreate, At, Idle, Calls, CallHolds,
         TypeInv, LinksExist
    <2>5. req' \in [Requests -> Calls] /\ CallsHold'
      BY <2>1, <2>2, <2>3, <2>4, OneCall
    <2>6. spoilt' \subseteq Assets \cup Files
      BY <1>12, SpoiltTyped DEF CommitCreate
    <2> QED
      BY <1>12, <1>0, <2>5, <2>6 DEF CommitCreate, At, Active, Live, Rows, CallHolds,
         Calls, Stored, Condemned, TypeInv, TypeOK, LinksExist
  <1>13. ASSUME NEW b \in Blocks, NEW links \in SUBSET Assets, Update(r, b, links)
         PROVE TypeInv'
    <2> DEFINE c == [Idle EXCEPT !.pc = "updating", !.block = b, !.links = links]
    <2>1. req' = [req EXCEPT ![r] = c]
      BY <1>13, <1>0 DEF Update, Begin
    <2>2. Rows \subseteq Rows'
      BY <1>13 DEF Update, Rows, TypeInv, TypeOK
    <2>3. c \in Calls
      BY <1>13, <1>0, IdleTyped DEF Update, At, Idle, Calls, CallHolds, TypeInv, TypeOK
    <2>4. CallHolds(c, Rows')
      BY <1>13, <1>0, <2>2, IdleTyped DEF Update, At, Idle, Calls, CallHolds, TypeInv,
         LinksExist
    <2>5. req' \in [Requests -> Calls] /\ CallsHold'
      BY <2>1, <2>2, <2>3, <2>4, OneCall
    <2>6. spoilt' \subseteq Assets \cup Files
      BY <1>13, SpoiltTyped DEF Update
    <2> QED
      BY <1>13, <1>0, <2>5, <2>6 DEF Update, At, Active, Live, Rows, CallHolds, Calls,
         Stored, Condemned, TypeInv, TypeOK, LinksExist
  <1>14. ASSUME CommitUpdate(r) PROVE TypeInv'
    <2>1. req' \in [Requests -> Calls] /\ CallsHold'
      BY <1>14, <1>0, IdleTyped DEF CommitUpdate, TypeInv, CallsHold, CallHolds, Calls, Rows
    <2>2. playlist' \in [Blocks -> SUBSET Assets] /\ LinksExist'
      <3>1. req[r].links \subseteq Rows /\ Rows \subseteq Assets /\ Rows' = Rows
        BY <1>14, <1>0 DEF CommitUpdate, CallHolds, Rows
      <3>2. playlist' = [playlist EXCEPT ![req[r].block] = req[r].links]
        BY <1>14 DEF CommitUpdate
      <3>3. playlist \in [Blocks -> SUBSET Assets] /\ LinksExist
        BY DEF TypeInv, TypeOK
      <3> QED
        BY <3>1, <3>2, <3>3 DEF LinksExist
    <2>3. \A b \in Blocks \ Live' : playlist'[b] = {}
      BY <1>14 DEF CommitUpdate, TypeInv, TypeOK, Live
    <2>6. spoilt' \subseteq Assets \cup Files
      BY <1>14, SpoiltTyped DEF CommitUpdate
    <2> QED
      BY <1>14, <1>0, <2>1, <2>2, <2>3, <2>6 DEF CommitUpdate, At, Active, Live, Rows,
         CallHolds, Calls, Stored, Condemned, TypeInv, TypeOK, LinksExist
  <1>15. ASSUME Fail(r) PROVE TypeInv'
    <2> DEFINE c == Idle
    <2>1. req' = [req EXCEPT ![r] = c]
      BY <1>15, <1>0 DEF Fail, End
    <2>2. Rows \subseteq Rows'
      BY <1>15 DEF Fail, Rows, TypeInv, TypeOK
    <2>3. c \in Calls
      BY <1>15, <1>0, IdleTyped DEF Fail, At, Idle, Calls, CallHolds, TypeInv, TypeOK
    <2>4. CallHolds(c, Rows')
      BY <1>15, <1>0, <2>2, IdleTyped DEF Fail, At, Idle, Calls, CallHolds, TypeInv,
         LinksExist
    <2>5. req' \in [Requests -> Calls] /\ CallsHold'
      BY <2>1, <2>2, <2>3, <2>4, OneCall
    <2>6. spoilt' \subseteq Assets \cup Files
      BY <1>15, SpoiltTyped DEF Fail
    <2> QED
      BY <1>15, <1>0, <2>5, <2>6 DEF Fail, At, Active, Live, Rows, CallHolds, Calls,
         Stored, Condemned, TypeInv, TypeOK, LinksExist
  <1> QED
    BY <1>1, <1>2, <1>3, <1>4, <1>5, <1>6, <1>7, <1>8, <1>9, <1>10, <1>11, <1>12,
       <1>13, <1>14, <1>15 DEF Step

\* Types are inductive: every step.
LEMMA TypeNext == TypeInv /\ [Next]_vars => TypeInv'
  <1> SUFFICES ASSUME TypeInv, [Next]_vars PROVE TypeInv'
    OBVIOUS
  <1>1. CASE \E r \in Requests : Step(r)
    BY <1>1, TypeStep
  <1>2. ASSUME NEW b \in Blocks, DeleteBlock(b) PROVE TypeInv'
    BY <1>2 DEF DeleteBlock, TypeInv, TypeOK, CallsHold, LinksExist, Rows, Live
  <1>3. ASSUME NEW b \in Blocks, Dispatch(b) PROVE TypeInv'
    <2>1. {file[a] : a \in playlist[b]} \subseteq Files
      BY DEF TypeInv, TypeOK, LinksExist, Rows
    <2> QED
      BY <1>3, <2>1 DEF Dispatch, TypeInv, TypeOK, CallsHold, LinksExist, Rows, Live
  <1>4. CASE UNCHANGED vars
    BY <1>4 DEF vars, TypeInv, TypeOK, CallsHold, LinksExist, Rows, Live
  <1> QED
    BY <1>1, <1>2, <1>3, <1>4 DEF Next

\* In every reachable state the rows, files, templates, snapshots and calls have their
\* types (all handlers of the library).
THEOREM TypesHold == Spec => []TypeOK
  <1>1. TypeInv => TypeOK
    BY DEF TypeInv
  <1> QED
    BY TypeInit, TypeNext, <1>1, PTL DEF Spec

-----------------------------------------------------------------------------
(* The reference count.                                                    *)

\* History only grows, and every race of the new state is in it.
LEMMA Spoils ==
  ASSUME NEW X, Spoil(X)
  PROVE  spoilt \subseteq spoilt' /\ Clashes' \subseteq spoilt'
  BY DEF Spoil

\* A file stored for one call and held for removal by another is spoilt.
LEMMA FileClash ==
  ASSUME TypeInv, ClashesNoted, NEW r \in Requests, NEW q \in Requests,
         req[r].pc \in {"storing", "replacing"}, req[q].pc \in {"counting", "removing"},
         req[r].file = req[q].old
  PROVE  req[r].file \in spoilt
  BY DEF TypeInv, CallsHold, CallHolds, ClashesNoted, Clashes, Stored, Condemned

\* A step that touches neither rows nor files, and starts neither to store nor to remove.
LEMMA FileQuiet ==
  ASSUME FileInv, UNCHANGED <<asset, file, disk>>,
         spoilt \subseteq spoilt', Clashes' \subseteq spoilt',
         \A q \in Requests :
           req'[q].pc \in {"storing", "replacing", "counting", "removing"} =>
             /\ req'[q].pc = req[q].pc /\ req'[q].asset = req[q].asset
             /\ req'[q].file = req[q].file /\ req'[q].old = req[q].old
  PROVE  FileInv'
  BY DEF FileInv, ClashesNoted, ActiveFilesKept, StoredKept, RemovedUnused, Active

\* Every step of a call keeps the files.
LEMMA FileStep ==
  ASSUME TypeInv, FileInv, NEW r \in Requests, Step(r)
  PROVE  FileInv'
  <1>0. req \in [Requests -> Calls] /\ CallHolds(req[r], Rows)
    BY DEF TypeInv, TypeOK, CallsHold
  <1>1. ASSUME NEW f \in Files, Upload(r, f) PROVE FileInv'
    <2>1. spoilt \subseteq spoilt' /\ Clashes' \subseteq spoilt'
      BY <1>1, Spoils DEF Upload, Write
    <2> DEFINE c == [Idle EXCEPT !.pc = "storing", !.file = f]
    <2>2. req' = [req EXCEPT ![r] = c] /\ c.pc \in {"storing", "replacing"} /\ c.file = f
      BY <1>1, <1>0 DEF Upload, Begin, Idle
    <2>3. disk \cup spoilt \subseteq disk' \cup spoilt' /\ f \in disk' \cup spoilt'
      BY <1>1 DEF Upload, Write, Spoil
    <2>4. c.file \in disk' \cup spoilt' /\ UNCHANGED <<asset, file>>
      BY <1>1, <2>2, <2>3 DEF Upload
    <2> HIDE DEF c
    <2> QED
      BY <1>0, <2>1, <2>2, <2>3, <2>4 DEF FileInv, ClashesNoted, ActiveFilesKept,
         StoredKept, RemovedUnused, Active
  <1>2. ASSUME NEW a \in Assets, CommitUpload(r, a) PROVE FileInv'
    <2>1. spoilt \subseteq spoilt' /\ Clashes' \subseteq spoilt'
      BY <1>2, Spoils DEF CommitUpload
    <2>2. ActiveFilesKept'
      BY <1>2, <1>0, <2>1, FileClash DEF CommitUpload, At, End, FileInv, ClashesNoted,
         ActiveFilesKept, StoredKept, RemovedUnused, Active, UsersOf, TypeInv, TypeOK
    <2>3. StoredKept'
      BY <1>2, <1>0, <2>1, FileClash DEF CommitUpload, At, End, Idle, FileInv,
         ClashesNoted, ActiveFilesKept, StoredKept, RemovedUnused
    <2>4. RemovedUnused'
      BY <1>2, <1>0, <2>1, FileClash
      DEF CommitUpload, At, End, Idle, FileInv, ClashesNoted, ActiveFilesKept, StoredKept,
          RemovedUnused, Active, UsersOf, TypeInv, TypeOK, CallsHold, CallHolds, Rows
    <2> QED
      BY <2>1, <2>2, <2>3, <2>4 DEF FileInv, ClashesNoted
  <1>3. ASSUME NEW a \in Assets, NEW f \in Files, Replace(r, a, f) PROVE FileInv'
    <2>1. spoilt \subseteq spoilt' /\ Clashes' \subseteq spoilt'
      BY <1>3, Spoils DEF Replace, Write
    <2> DEFINE c == [Idle EXCEPT !.pc = "replacing", !.asset = a, !.file = f, !.old = file[a]]
    <2>2. req' = [req EXCEPT ![r] = c] /\ c.pc \in {"storing", "replacing"} /\ c.file = f
      BY <1>3, <1>0 DEF Replace, Begin, Idle
    <2>3. disk \cup spoilt \subseteq disk' \cup spoilt' /\ f \in disk' \cup spoilt'
      BY <1>3 DEF Replace, Write, Spoil
    <2>4. c.file \in disk' \cup spoilt' /\ UNCHANGED <<asset, file>>
      BY <1>3, <2>2, <2>3 DEF Replace
    <2> HIDE DEF c
    <2> QED
      BY <1>0, <2>1, <2>2, <2>3, <2>4 DEF FileInv, ClashesNoted, ActiveFilesKept,
         StoredKept, RemovedUnused, Active
  <1>4. ASSUME CommitReplace(r) PROVE FileInv'
    <2>1. spoilt \subseteq spoilt' /\ Clashes' \subseteq spoilt'
      BY <1>4, Spoils DEF CommitReplace
    <2>2. UNCHANGED <<asset, disk>> /\ req[r].pc = "replacing" /\ req[r].asset \in Rows
      BY <1>4, <1>0 DEF CommitReplace, At, CallHolds
    <2>3. CASE req[r].file # req[r].old
      <3> DEFINE c == [req[r] EXCEPT !.pc = "counting", !.file = None]
      <3>1. /\ req' = [req EXCEPT ![r] = c] /\ c.pc = "counting"
            /\ c.asset = req[r].asset /\ c.old = req[r].old
        BY <1>4, <1>0, <2>3 DEF CommitReplace, Calls
      <3> HIDE DEF c
      <3>2. /\ file' = [file EXCEPT ![req[r].asset] = req[r].file]
            /\ file \in [Assets -> Files \cup {None}] /\ req[r].file \in disk \cup spoilt
        BY <1>4, <2>2, <2>3 DEF CommitReplace, TypeInv, TypeOK, FileInv, StoredKept
      <3>3. ActiveFilesKept' /\ StoredKept'
        BY <1>0, <2>1, <2>2, <3>1, <3>2 DEF FileInv, ActiveFilesKept, StoredKept, Active,
           Rows
      <3>4. ASSUME NEW q \in Requests, NEW a \in Assets,
                   \/ req'[q].pc = "removing"
                   \/ req'[q].pc = "counting" /\ a = req'[q].asset,
                   asset'[a] = "active", file'[a] = req'[q].old
            PROVE  req'[q].old \in spoilt'
        <4>1. CASE q = r
          BY <1>0, <2>3, <3>1, <3>2, <3>4, <4>1
        <4>2. CASE q # r /\ a = req[r].asset
          BY <1>0, <2>1, <2>2, <3>1, <3>2, <3>4, <4>2, FileClash DEF FileInv
        <4>3. CASE q # r /\ a # req[r].asset
          BY <1>0, <2>1, <2>2, <3>1, <3>2, <3>4, <4>3 DEF FileInv, RemovedUnused
        <4> QED
          BY <4>1, <4>2, <4>3
      <3>5. RemovedUnused'
        BY ONLY <3>4 DEF RemovedUnused
      <3> QED
        BY <2>1, <3>3, <3>5 DEF FileInv, ClashesNoted
    <2>4. CASE req[r].file = req[r].old
      <3>1. req' = [req EXCEPT ![r] = Idle] /\ Idle.pc = "idle" /\ file' = file
        BY <1>4, <2>4, IdleTyped DEF CommitReplace, End
      <3>2. \A q \in Requests : req'[q].pc \in {"storing", "replacing", "counting",
            "removing"}
              => req'[q] = req[q]
        BY <1>0, <3>1
      <3> QED
        BY <2>1, <2>2, <3>1, <3>2, FileQuiet
    <2> QED
      BY <2>3, <2>4
  <1>5. ASSUME NEW a \in Assets, NEW force \in BOOLEAN, Delete(r, a, force) PROVE FileInv'
    <2>1. spoilt \subseteq spoilt' /\ Clashes' \subseteq spoilt'
      BY <1>5, Spoils DEF Delete
    <2>2. \A q \in Requests :
            req'[q].pc \in {"storing", "replacing", "counting", "removing"} =>
              /\ req'[q].pc = req[q].pc /\ req'[q].asset = req[q].asset
              /\ req'[q].file = req[q].file /\ req'[q].old = req[q].old
      BY <1>5, <1>0 DEF Delete, Begin, Idle, At
    <2> QED
      BY <1>5, <2>1, <2>2, FileQuiet DEF Delete
  <1>6. ASSUME Unlink(r) PROVE FileInv'
    <2>1. spoilt \subseteq spoilt' /\ Clashes' \subseteq spoilt'
      BY <1>6, Spoils DEF Unlink
    <2>2. \A q \in Requests :
            req'[q].pc \in {"storing", "replacing", "counting", "removing"} =>
              /\ req'[q].pc = req[q].pc /\ req'[q].asset = req[q].asset
              /\ req'[q].file = req[q].file /\ req'[q].old = req[q].old
      BY <1>6, <1>0 DEF Unlink, At, Calls
    <2> QED
      BY <1>6, <2>1, <2>2, FileQuiet DEF Unlink
  <1>7. ASSUME MarkDeleted(r) PROVE FileInv'
    <2>1. spoilt \subseteq spoilt' /\ Clashes' \subseteq spoilt'
      BY <1>7, Spoils DEF MarkDeleted
    <2>2. ActiveFilesKept'
      BY <1>7, <1>0, <2>1, FileClash DEF MarkDeleted, At, End, FileInv, ClashesNoted,
         ActiveFilesKept, StoredKept, RemovedUnused, Active, UsersOf, TypeInv, TypeOK
    <2>3. StoredKept'
      BY <1>7, <1>0, <2>1, FileClash DEF MarkDeleted, At, End, Idle, FileInv, ClashesNoted,
         ActiveFilesKept, StoredKept, RemovedUnused
    <2>4. RemovedUnused'
      BY <1>7, <1>0, <2>1, FileClash
      DEF MarkDeleted, At, End, Idle, FileInv, ClashesNoted, ActiveFilesKept, StoredKept,
          RemovedUnused, Active, UsersOf, TypeInv, TypeOK, CallsHold, CallHolds, Rows
    <2> QED
      BY <2>1, <2>2, <2>3, <2>4 DEF FileInv, ClashesNoted
  <1>8. ASSUME Count(r) PROVE FileInv'
    <2>1. spoilt \subseteq spoilt' /\ Clashes' \subseteq spoilt'
      BY <1>8, Spoils DEF Count
    <2>2. UNCHANGED <<asset, file, disk>> /\ req[r].pc = "counting"
      BY <1>8 DEF Count, At
    <2>3. CASE UsersOf(req[r].old) \subseteq {req[r].asset}
      <3> DEFINE c == [req[r] EXCEPT !.pc = "removing"]
      <3>1. req' = [req EXCEPT ![r] = c] /\ c.pc = "removing" /\ c.old = req[r].old
        BY <1>8, <1>0, <2>3 DEF Count, Calls
      <3> HIDE DEF c
      <3>2. \A a \in Assets : asset[a] = "active" /\ file[a] = c.old => c.old \in spoilt
        BY <1>0, <2>2, <2>3, <3>1 DEF UsersOf, Active, FileInv, RemovedUnused
      <3> QED
        BY <1>0, <2>1, <2>2, <3>1, <3>2 DEF FileInv, ClashesNoted, ActiveFilesKept,
           StoredKept, RemovedUnused, Active
    <2>4. CASE ~(UsersOf(req[r].old) \subseteq {req[r].asset})
      <3>1. req' = [req EXCEPT ![r] = Idle] /\ Idle.pc = "idle"
        BY <1>8, <2>4, IdleTyped DEF Count, End
      <3>2. \A q \in Requests : req'[q].pc \in {"storing", "replacing", "counting",
            "removing"}
              => req'[q] = req[q]
        BY <1>0, <3>1
      <3> QED
        BY <2>1, <2>2, <3>1, <3>2, FileQuiet
    <2> QED
      BY <2>3, <2>4
  <1>9. ASSUME Remove(r) PROVE FileInv'
    <2>1. spoilt \subseteq spoilt' /\ Clashes' \subseteq spoilt'
      BY <1>9, Spoils DEF Remove
    <2>2. ActiveFilesKept'
      BY <1>9, <1>0, <2>1, FileClash DEF Remove, At, End, FileInv, ClashesNoted,
         ActiveFilesKept, StoredKept, RemovedUnused, Active, UsersOf, TypeInv, TypeOK
    <2>3. StoredKept'
      BY <1>9, <1>0, <2>1, FileClash DEF Remove, At, End, Idle, FileInv, ClashesNoted,
         ActiveFilesKept, StoredKept, RemovedUnused
    <2>4. RemovedUnused'
      BY <1>9, <1>0, <2>1, FileClash
      DEF Remove, At, End, Idle, FileInv, ClashesNoted, ActiveFilesKept, StoredKept,
          RemovedUnused, Active, UsersOf, TypeInv, TypeOK, CallsHold, CallHolds, Rows
    <2> QED
      BY <2>1, <2>2, <2>3, <2>4 DEF FileInv, ClashesNoted
  <1>10. ASSUME NEW links \in SUBSET Assets, Create(r, links) PROVE FileInv'
    <2>1. spoilt \subseteq spoilt' /\ Clashes' \subseteq spoilt'
      BY <1>10, Spoils DEF Create
    <2>2. \A q \in Requests :
            req'[q].pc \in {"storing", "replacing", "counting", "removing"} =>
              /\ req'[q].pc = req[q].pc /\ req'[q].asset = req[q].asset
              /\ req'[q].file = req[q].file /\ req'[q].old = req[q].old
      BY <1>10, <1>0 DEF Create, Begin, Idle, At
    <2> QED
      BY <1>10, <2>1, <2>2, FileQuiet DEF Create
  <1>11. ASSUME NEW b \in Blocks, Duplicate(r, b) PROVE FileInv'
    <2>1. spoilt \subseteq spoilt' /\ Clashes' \subseteq spoilt'
      BY <1>11, Spoils DEF Duplicate
    <2>2. \A q \in Requests :
            req'[q].pc \in {"storing", "replacing", "counting", "removing"} =>
              /\ req'[q].pc = req[q].pc /\ req'[q].asset = req[q].asset
              /\ req'[q].file = req[q].file /\ req'[q].old = req[q].old
      BY <1>11, <1>0 DEF Duplicate, Begin, Idle, At
    <2> QED
      BY <1>11, <2>1, <2>2, FileQuiet DEF Duplicate
  <1>12. ASSUME NEW b \in Blocks, CommitCreate(r, b) PROVE FileInv'
    <2>1. spoilt \subseteq spoilt' /\ Clashes' \subseteq spoilt'
      BY <1>12, Spoils DEF CommitCreate
    <2>2. \A q \in Requests :
            req'[q].pc \in {"storing", "replacing", "counting", "removing"} =>
              /\ req'[q].pc = req[q].pc /\ req'[q].asset = req[q].asset
              /\ req'[q].file = req[q].file /\ req'[q].old = req[q].old
      BY <1>12, <1>0 DEF CommitCreate, End, Idle, At
    <2> QED
      BY <1>12, <2>1, <2>2, FileQuiet DEF CommitCreate
  <1>13. ASSUME NEW b \in Blocks, NEW links \in SUBSET Assets, Update(r, b, links)
         PROVE FileInv'
    <2>1. spoilt \subseteq spoilt' /\ Clashes' \subseteq spoilt'
      BY <1>13, Spoils DEF Update
    <2>2. \A q \in Requests :
            req'[q].pc \in {"storing", "replacing", "counting", "removing"} =>
              /\ req'[q].pc = req[q].pc /\ req'[q].asset = req[q].asset
              /\ req'[q].file = req[q].file /\ req'[q].old = req[q].old
      BY <1>13, <1>0 DEF Update, Begin, Idle, At
    <2> QED
      BY <1>13, <2>1, <2>2, FileQuiet DEF Update
  <1>14. ASSUME CommitUpdate(r) PROVE FileInv'
    <2>1. spoilt \subseteq spoilt' /\ Clashes' \subseteq spoilt'
      BY <1>14, Spoils DEF CommitUpdate
    <2>2. \A q \in Requests :
            req'[q].pc \in {"storing", "replacing", "counting", "removing"} =>
              /\ req'[q].pc = req[q].pc /\ req'[q].asset = req[q].asset
              /\ req'[q].file = req[q].file /\ req'[q].old = req[q].old
      BY <1>14, <1>0 DEF CommitUpdate, Idle, At, Calls
    <2> QED
      BY <1>14, <2>1, <2>2, FileQuiet DEF CommitUpdate
  <1>15. ASSUME Fail(r) PROVE FileInv'
    <2>1. spoilt \subseteq spoilt' /\ Clashes' \subseteq spoilt'
      BY <1>15, Spoils DEF Fail
    <2>2. \A q \in Requests :
            req'[q].pc \in {"storing", "replacing", "counting", "removing"} =>
              /\ req'[q].pc = req[q].pc /\ req'[q].asset = req[q].asset
              /\ req'[q].file = req[q].file /\ req'[q].old = req[q].old
      BY <1>15, <1>0 DEF Fail, End, Idle, At
    <2> QED
      BY <1>15, <2>1, <2>2, FileQuiet DEF Fail
  <1> QED
    BY <1>1, <1>2, <1>3, <1>4, <1>5, <1>6, <1>7, <1>8, <1>9, <1>10, <1>11, <1>12,
       <1>13, <1>14, <1>15 DEF Step

\* The invariant of the reference count is inductive.
LEMMA FileNext == TypeInv /\ FileInv /\ [Next]_vars => FileInv'
  <1> SUFFICES ASSUME TypeInv, FileInv, [Next]_vars PROVE FileInv'
    OBVIOUS
  <1>1. CASE \E r \in Requests : Step(r)
    BY <1>1, FileStep
  <1>2. CASE UNCHANGED <<asset, file, disk, req, spoilt>>
    <2>1. Clashes' = Clashes
      BY <1>2 DEF Clashes, Stored, Condemned, Linked, Doomed
    <2> QED
      BY <1>2, <2>1, FileQuiet DEF FileInv, ClashesNoted
  <1> QED
    BY <1>1, <1>2 DEF Next, DeleteBlock, Dispatch, vars

\* Whatever calls interleave, fail or die, the file of an active asset is on the disk,
\* except for files that met a race or a failed write (upload, replacement, deletion and
\* the reference count between them).
THEOREM FilesAreKept == Spec => []ActiveFilesKept
  <1>1. Init => FileInv
    BY IdleTyped DEF Init, FileInv, ClashesNoted, ActiveFilesKept, StoredKept,
       RemovedUnused,
       Active, Clashes, Stored, Condemned, Linked, Doomed
  <1>2. FileInv => ActiveFilesKept
    BY DEF FileInv
  <1> QED
    BY TypeInit, TypeNext, FileNext, <1>1, <1>2, PTL DEF Spec

-----------------------------------------------------------------------------
(* Templates and deletions.                                                *)

\* An asset linked by one call and deleted by another is spoilt.
LEMMA LinkClash ==
  ASSUME TypeInv, ClashesNoted, NEW r \in Requests, NEW q \in Requests,
         req[r].pc \in {"creating", "updating"}, req[q].pc \in {"unlinking", "marking"},
         req[q].asset \in req[r].links
  PROVE  req[q].asset \in spoilt
  BY DEF TypeInv, CallsHold, CallHolds, ClashesNoted, Clashes, Linked, Doomed, Rows

\* A step that deletes no asset, links none, and leaves the deletions as they are.
LEMMA LinkQuiet ==
  ASSUME TypeInv, LinkInv, Active \subseteq Active',
         spoilt \subseteq spoilt', Clashes' \subseteq spoilt',
         \A b \in Blocks : playlist'[b] \subseteq playlist[b],
         \A q \in Requests :
           req'[q].pc \in {"creating", "updating", "marking", "unlinking"} => req'[q] = req[q]
  PROVE  LinkInv'
  BY DEF LinkInv, ClashesNoted, LinkedAreActive, LinkedKept, DeletedUnlinked

\* A step that begins a call which links assets that are active or spoilt.
LEMMA LinkBegun ==
  ASSUME TypeInv, LinkInv, NEW r \in Requests, UNCHANGED <<asset, playlist>>,
         spoilt \subseteq spoilt', Clashes' \subseteq spoilt',
         req'[r].pc \in {"creating", "updating"}, req'[r].links \subseteq Active \cup spoilt,
         \A q \in Requests : q # r => req'[q] = req[q]
  PROVE  LinkInv'
  BY DEF LinkInv, ClashesNoted, LinkedAreActive, LinkedKept, DeletedUnlinked, Active

\* Every step of a call keeps the templates on active assets.
LEMMA LinkStep ==
  ASSUME TypeInv, LinkInv, NEW r \in Requests, Step(r)
  PROVE  LinkInv'
  <1>0. req \in [Requests -> Calls] /\ CallHolds(req[r], Rows)
    BY DEF TypeInv, TypeOK, CallsHold
  <1>1. ASSUME NEW f \in Files, Upload(r, f) PROVE LinkInv'
    <2>1. spoilt \subseteq spoilt' /\ Clashes' \subseteq spoilt'
      BY <1>1, Spoils DEF Upload, Write
    <2>2. Active \subseteq Active' /\ playlist' = playlist
      BY <1>1 DEF Upload, Active, TypeInv, TypeOK
    <2>3. \A q \in Requests :
            req'[q].pc \in {"creating", "updating", "marking", "unlinking"} => req'[q] = req[q]
      BY <1>1, <1>0 DEF Upload, Begin, At, Idle
    <2> QED
      BY <2>1, <2>2, <2>3, LinkQuiet
  <1>2. ASSUME NEW a \in Assets, CommitUpload(r, a) PROVE LinkInv'
    <2>1. spoilt \subseteq spoilt' /\ Clashes' \subseteq spoilt'
      BY <1>2, Spoils DEF CommitUpload
    <2>2. Active \subseteq Active' /\ playlist' = playlist
      BY <1>2 DEF CommitUpload, Active, TypeInv, TypeOK
    <2>3. \A q \in Requests :
            req'[q].pc \in {"creating", "updating", "marking", "unlinking"} => req'[q] = req[q]
      BY <1>2, <1>0 DEF CommitUpload, End, At, Idle
    <2> QED
      BY <2>1, <2>2, <2>3, LinkQuiet
  <1>3. ASSUME NEW a \in Assets, NEW f \in Files, Replace(r, a, f) PROVE LinkInv'
    <2>1. spoilt \subseteq spoilt' /\ Clashes' \subseteq spoilt'
      BY <1>3, Spoils DEF Replace, Write
    <2>2. Active \subseteq Active' /\ playlist' = playlist
      BY <1>3 DEF Replace, Active, TypeInv, TypeOK
    <2>3. \A q \in Requests :
            req'[q].pc \in {"creating", "updating", "marking", "unlinking"} => req'[q] = req[q]
      BY <1>3, <1>0 DEF Replace, Begin, At, Idle
    <2> QED
      BY <2>1, <2>2, <2>3, LinkQuiet
  <1>4. ASSUME CommitReplace(r) PROVE LinkInv'
    <2>1. spoilt \subseteq spoilt' /\ Clashes' \subseteq spoilt'
      BY <1>4, Spoils DEF CommitReplace
    <2>2. Active \subseteq Active' /\ playlist' = playlist
      BY <1>4 DEF CommitReplace, Active, TypeInv, TypeOK
    <2>3. \A q \in Requests :
            req'[q].pc \in {"creating", "updating", "marking", "unlinking"} => req'[q] = req[q]
      BY <1>4, <1>0 DEF CommitReplace, End, At, Idle, Calls
    <2> QED
      BY <2>1, <2>2, <2>3, LinkQuiet
  <1>5. ASSUME NEW a \in Assets, NEW force \in BOOLEAN, Delete(r, a, force) PROVE LinkInv'
    <2>1. spoilt \subseteq spoilt' /\ Clashes' \subseteq spoilt'
      BY <1>5, Spoils DEF Delete
    <2>2. UNCHANGED <<asset, playlist>> /\ \A q \in Requests : q # r => req'[q] = req[q]
      BY <1>5, <1>0 DEF Delete, Begin
    <2>3. /\ req'[r].pc = IF BlocksWith(a) = {} THEN "marking" ELSE "unlinking"
          /\ req'[r].asset = a /\ req'[r].from = BlocksWith(a)
      BY <1>5, <1>0 DEF Delete, Begin, Idle
    <2> QED
      BY <2>1, <2>2, <2>3 DEF LinkInv, ClashesNoted, LinkedAreActive, LinkedKept,
         DeletedUnlinked, Active, BlocksWith
  <1>6. ASSUME Unlink(r) PROVE LinkInv'
    <2>1. spoilt \subseteq spoilt' /\ Clashes' \subseteq spoilt'
      BY <1>6, Spoils DEF Unlink
    <2>2. Active' = Active /\ req[r].pc = "unlinking"
      BY <1>6 DEF Unlink, At, Active
    <2>3. ASSUME NEW b \in Blocks
          PROVE  /\ playlist'[b] \subseteq playlist[b]
                 /\ b \in req[r].from => req[r].asset \notin playlist'[b]
      BY <1>6 DEF Unlink, TypeInv, TypeOK
    <2>4. /\ req'[r].pc = "marking" /\ req'[r].asset = req[r].asset
          /\ \A q \in Requests : q # r => req'[q] = req[q]
      BY <1>6, <1>0 DEF Unlink, Calls
    <2>5. LinkedAreActive'
      BY <2>1, <2>2, <2>3 DEF LinkInv, LinkedAreActive
    <2>6. LinkedKept'
      BY <2>1, <2>2, <2>4 DEF LinkInv, LinkedKept
    <2>7. DeletedUnlinked'
      BY <2>1, <2>2, <2>3, <2>4 DEF LinkInv, DeletedUnlinked
    <2> QED
      BY <2>1, <2>5, <2>6, <2>7 DEF LinkInv, ClashesNoted
  <1>7. ASSUME MarkDeleted(r) PROVE LinkInv'
    <2>1. spoilt \subseteq spoilt' /\ Clashes' \subseteq spoilt'
      BY <1>7, Spoils DEF MarkDeleted
    <2>2. /\ UNCHANGED playlist /\ Active \ {req[r].asset} \subseteq Active'
          /\ req[r].pc = "marking"
      BY <1>7 DEF MarkDeleted, At, Active, TypeInv, TypeOK
    <2>3. /\ req'[r].pc = "counting" /\ \A q \in Requests : q # r => req'[q] = req[q]
      BY <1>7, <1>0 DEF MarkDeleted, Calls
    <2>4. ASSUME NEW q \in Requests, req[q].pc \in {"creating", "updating"},
                 req[r].asset \in req[q].links
          PROVE  req[r].asset \in spoilt
      BY <2>2, <2>4, LinkClash DEF LinkInv
    <2> QED
      BY <2>1, <2>2, <2>3, <2>4 DEF LinkInv, ClashesNoted, LinkedAreActive, LinkedKept,
         DeletedUnlinked
  <1>8. ASSUME Count(r) PROVE LinkInv'
    <2>1. spoilt \subseteq spoilt' /\ Clashes' \subseteq spoilt'
      BY <1>8, Spoils DEF Count
    <2>2. Active \subseteq Active' /\ playlist' = playlist
      BY <1>8 DEF Count, Active, TypeInv, TypeOK
    <2>3. \A q \in Requests :
            req'[q].pc \in {"creating", "updating", "marking", "unlinking"} => req'[q] = req[q]
      BY <1>8, <1>0 DEF Count, End, At, Idle, Calls
    <2> QED
      BY <2>1, <2>2, <2>3, LinkQuiet
  <1>9. ASSUME Remove(r) PROVE LinkInv'
    <2>1. spoilt \subseteq spoilt' /\ Clashes' \subseteq spoilt'
      BY <1>9, Spoils DEF Remove
    <2>2. Active \subseteq Active' /\ playlist' = playlist
      BY <1>9 DEF Remove, Active, TypeInv, TypeOK
    <2>3. \A q \in Requests :
            req'[q].pc \in {"creating", "updating", "marking", "unlinking"} => req'[q] = req[q]
      BY <1>9, <1>0 DEF Remove, End, At, Idle
    <2> QED
      BY <2>1, <2>2, <2>3, LinkQuiet
  <1>10. ASSUME NEW links \in SUBSET Assets, Create(r, links) PROVE LinkInv'
    <2>1. spoilt \subseteq spoilt' /\ Clashes' \subseteq spoilt'
      BY <1>10, Spoils DEF Create
    <2>2. /\ req'[r].pc \in {"creating", "updating"} /\ req'[r].links = links
          /\ \A q \in Requests : q # r => req'[q] = req[q]
      BY <1>10, <1>0 DEF Create, Begin, Idle
    <2>3. links \subseteq Active \cup spoilt /\ UNCHANGED <<asset, playlist>>
      BY <1>10 DEF Create, LinkInv, LinkedAreActive
    <2> QED
      BY <2>1, <2>2, <2>3, LinkBegun
  <1>11. ASSUME NEW b \in Blocks, Duplicate(r, b) PROVE LinkInv'
    <2>1. spoilt \subseteq spoilt' /\ Clashes' \subseteq spoilt'
      BY <1>11, Spoils DEF Duplicate
    <2>2. /\ req'[r].pc \in {"creating", "updating"} /\ req'[r].links = playlist[b]
          /\ \A q \in Requests : q # r => req'[q] = req[q]
      BY <1>11, <1>0 DEF Duplicate, Begin, Idle
    <2>3. playlist[b] \subseteq Active \cup spoilt /\ UNCHANGED <<asset, playlist>>
      BY <1>11 DEF Duplicate, LinkInv, LinkedAreActive
    <2> QED
      BY <2>1, <2>2, <2>3, LinkBegun
  <1>12. ASSUME NEW b \in Blocks, CommitCreate(r, b) PROVE LinkInv'
    <2>1. spoilt \subseteq spoilt' /\ Clashes' \subseteq spoilt'
      BY <1>12, Spoils DEF CommitCreate
    <2>2. /\ UNCHANGED asset /\ req[r].pc = "creating" /\ req'[r].pc = "idle"
          /\ \A q \in Requests : q # r => req'[q] = req[q]
      BY <1>12, <1>0, IdleTyped DEF CommitCreate, At, End
    <2>3. /\ playlist'[b] = req[r].links
          /\ \A d \in Blocks : d # b => playlist'[d] = playlist[d]
      BY <1>12 DEF CommitCreate, TypeInv, TypeOK
    <2>4. ASSUME NEW q \in Requests, req[q].pc \in {"marking", "unlinking"},
                 req[q].asset \in playlist'[b]
          PROVE  req[q].asset \in spoilt
      BY <2>2, <2>3, <2>4, LinkClash DEF LinkInv
    <2> QED
      BY <2>1, <2>2, <2>3, <2>4 DEF LinkInv, ClashesNoted, LinkedAreActive, LinkedKept,
         DeletedUnlinked, Active
  <1>13. ASSUME NEW b \in Blocks, NEW links \in SUBSET Assets, Update(r, b, links)
         PROVE LinkInv'
    <2>1. spoilt \subseteq spoilt' /\ Clashes' \subseteq spoilt'
      BY <1>13, Spoils DEF Update
    <2>2. /\ req'[r].pc \in {"creating", "updating"} /\ req'[r].links = links
          /\ \A q \in Requests : q # r => req'[q] = req[q]
      BY <1>13, <1>0 DEF Update, Begin, Idle
    <2>3. links \subseteq Active \cup spoilt /\ UNCHANGED <<asset, playlist>>
      BY <1>13 DEF Update, LinkInv, LinkedAreActive
    <2> QED
      BY <2>1, <2>2, <2>3, LinkBegun
  <1>14. ASSUME CommitUpdate(r) PROVE LinkInv'
    <2>1. spoilt \subseteq spoilt' /\ Clashes' \subseteq spoilt'
      BY <1>14, Spoils DEF CommitUpdate
    <2> DEFINE b == req[r].block
    <2>2. /\ UNCHANGED asset /\ req[r].pc = "updating" /\ req'[r].pc = "idle"
          /\ \A q \in Requests : q # r =>
               /\ req'[q].pc = req[q].pc /\ req'[q].asset = req[q].asset
               /\ req'[q].links = req[q].links /\ req'[q].from = req[q].from \ {b}
      BY <1>14, <1>0, IdleTyped DEF CommitUpdate, At, Calls
    <2>3. /\ b \in Blocks /\ playlist'[b] = req[r].links
          /\ \A d \in Blocks : d # b => playlist'[d] = playlist[d]
      BY <1>14 DEF CommitUpdate, TypeInv, TypeOK, Live
    <2> HIDE DEF b
    <2>4. ASSUME NEW q \in Requests, req[q].pc \in {"marking", "unlinking"},
                 req[q].asset \in playlist'[b]
          PROVE  req[q].asset \in spoilt
      BY <2>2, <2>3, <2>4, LinkClash DEF LinkInv
    <2>5. LinkedAreActive' /\ LinkedKept'
      BY <2>1, <2>2, <2>3 DEF LinkInv, ClashesNoted, LinkedAreActive, LinkedKept,
         DeletedUnlinked, Active
    <2>6. DeletedUnlinked'
      BY <2>1, <2>2, <2>3, <2>4 DEF LinkInv, DeletedUnlinked
    <2> QED
      BY <2>1, <2>5, <2>6 DEF LinkInv, ClashesNoted
  <1>15. ASSUME Fail(r) PROVE LinkInv'
    <2>1. spoilt \subseteq spoilt' /\ Clashes' \subseteq spoilt'
      BY <1>15, Spoils DEF Fail
    <2>2. Active \subseteq Active' /\ playlist' = playlist
      BY <1>15 DEF Fail, Active, TypeInv, TypeOK
    <2>3. \A q \in Requests :
            req'[q].pc \in {"creating", "updating", "marking", "unlinking"} => req'[q] = req[q]
      BY <1>15, <1>0 DEF Fail, End, At, Idle
    <2> QED
      BY <2>1, <2>2, <2>3, LinkQuiet
  <1> QED
    BY <1>1, <1>2, <1>3, <1>4, <1>5, <1>6, <1>7, <1>8, <1>9, <1>10, <1>11, <1>12,
       <1>13, <1>14, <1>15 DEF Step

\* The invariant of links and deletions is inductive.
LEMMA LinkNext == TypeInv /\ LinkInv /\ [Next]_vars => LinkInv'
  <1> SUFFICES ASSUME TypeInv, LinkInv, [Next]_vars PROVE LinkInv'
    OBVIOUS
  <1>1. CASE \E r \in Requests : Step(r)
    BY <1>1, LinkStep
  <1>2. CASE /\ UNCHANGED <<asset, req, spoilt>>
             /\ \A b \in Blocks : playlist'[b] \subseteq playlist[b]
    <2>1. Clashes' = Clashes /\ Active' = Active
      BY <1>2 DEF Clashes, Stored, Condemned, Linked, Doomed, Active
    <2> QED
      BY <1>2, <2>1, LinkQuiet DEF LinkInv, ClashesNoted
  <1> QED
    BY <1>1, <1>2 DEF Next, DeleteBlock, Dispatch, vars, TypeInv, TypeOK

\* Whatever calls interleave, fail or die, a template shows active assets only, except
\* for assets that were linked and deleted at the same time (the dependency check of a
\* deletion and the checks of creating and updating a template).
THEOREM TemplatesShowActive == Spec => []LinkedAreActive
  <1>1. Init => LinkInv
    BY IdleTyped DEF Init, LinkInv, ClashesNoted, LinkedAreActive, LinkedKept,
       DeletedUnlinked, Clashes, Stored, Condemned, Linked, Doomed
  <1>2. LinkInv => LinkedAreActive
    BY DEF LinkInv
  <1> QED
    BY TypeInit, TypeNext, LinkNext, <1>1, <1>2, PTL DEF Spec

-----------------------------------------------------------------------------
(* Leaks.                                                                  *)

\* A step that adds no file, takes no user away, and leaves alone what calls hold.
LEMMA LeakQuiet ==
  ASSUME NothingLeaks, disk' \subseteq disk, leaky \subseteq leaky',
         \A f \in disk : UsersOf(f) \subseteq UsersOf(f)',
         \A q \in Requests : Stored(q) \subseteq Stored(q)' /\ Condemned(q) \subseteq Condemned(q)'
  PROVE  NothingLeaks'
  BY DEF NothingLeaks

\* Every step of a call accounts for the files on the disk.
LEMMA LeakStep ==
  ASSUME TypeInv, NothingLeaks, NEW r \in Requests, Step(r)
  PROVE  NothingLeaks'
  <1> USE DEF Stored, Condemned
  <1>0. req \in [Requests -> Calls] /\ CallHolds(req[r], Rows)
    BY DEF TypeInv, TypeOK, CallsHold
  <1>1. ASSUME NEW g \in Files, Upload(r, g) PROVE NothingLeaks'
    <2>1. UNCHANGED <<asset, file,
          leaky>> /\ disk' \subseteq disk \cup {g} /\ req[r].pc = "idle"
      BY <1>1 DEF Upload, Begin, Write
    <2>2. /\ req'[r].pc \in {"storing", "replacing"} /\ req'[r].file = g
          /\ \A q \in Requests : q # r => req'[q] = req[q]
      BY <1>1, <1>0 DEF Upload, Begin, Idle
    <2> QED
      BY <2>1, <2>2 DEF NothingLeaks, UsersOf, Active
  <1>2. ASSUME NEW a \in Assets, CommitUpload(r, a) PROVE NothingLeaks'
    <2>1. /\ UNCHANGED <<disk, leaky>> /\ req[r].pc = "storing"
          /\ asset'[a] = "active" /\ file'[a] = req[r].file
          /\ \A d \in Active : asset'[d] = "active" /\ file'[d] = file[d]
      BY <1>2 DEF CommitUpload, At, Active, TypeInv, TypeOK
    <2>2. \A q \in Requests : q # r => req'[q] = req[q]
      BY <1>2, <1>0 DEF CommitUpload, End
    <2> QED
      BY <2>1, <2>2 DEF NothingLeaks, UsersOf, Active
  <1>3. ASSUME NEW a \in Assets, NEW g \in Files, Replace(r, a, g) PROVE NothingLeaks'
    <2>1. UNCHANGED <<asset, file,
          leaky>> /\ disk' \subseteq disk \cup {g} /\ req[r].pc = "idle"
      BY <1>3 DEF Replace, Begin, Write
    <2>2. /\ req'[r].pc \in {"storing", "replacing"} /\ req'[r].file = g
          /\ \A q \in Requests : q # r => req'[q] = req[q]
      BY <1>3, <1>0 DEF Replace, Begin, Idle
    <2> QED
      BY <2>1, <2>2 DEF NothingLeaks, UsersOf, Active
  <1>4. ASSUME CommitReplace(r) PROVE NothingLeaks'
    <2> DEFINE a == req[r].asset
    <2>1. /\ UNCHANGED <<asset, disk>> /\ req[r].pc = "replacing" /\ a \in Rows
          /\ \A d \in Active : d # a => file'[d] = file[d]
      BY <1>4, <1>0 DEF CommitReplace, At, CallHolds, Active, Rows, TypeInv, TypeOK
    <2>2. \A q \in Requests : q # r => req'[q] = req[q]
      BY <1>4, <1>0 DEF CommitReplace, End
    <2>3. leaky \subseteq leaky' /\ (Stale(r) => file[a] \in leaky' /\ req[r].file \in leaky')
      BY <1>4 DEF CommitReplace
    <2>4. CASE req[r].file # req[r].old
      <3>1. /\ req'[r].pc = "counting" /\ req'[r].old = req[r].old
            /\ file'[a] = req[r].file
        BY <1>4, <1>0, <2>1, <2>4 DEF CommitReplace, Calls, Rows, TypeInv, TypeOK
      <3> QED
        BY <2>1, <2>2, <2>3, <3>1 DEF NothingLeaks, UsersOf, Active, Stale, Rows
    <2>5. CASE req[r].file = req[r].old
      <3>1. file' = file
        BY <1>4, <2>5 DEF CommitReplace
      <3> QED
        BY <2>1, <2>2, <2>3, <2>5, <3>1 DEF NothingLeaks, UsersOf, Active, Stale, Rows
    <2> QED
      BY <2>4, <2>5
  <1>5. ASSUME NEW a \in Assets, NEW force \in BOOLEAN, Delete(r, a, force)
        PROVE NothingLeaks'
    <2>1. UNCHANGED <<asset, file, disk, leaky>>
      BY <1>5 DEF Delete
    <2>2. \A q \in Requests :
            req[q].pc \in {"storing", "replacing", "counting", "removing"} =>
              /\ req'[q].pc = req[q].pc
              /\ req'[q].file = req[q].file /\ req'[q].old = req[q].old
      BY <1>5, <1>0 DEF Delete, Begin, At, Calls
    <2>3. \A q \in Requests : Stored(q) \subseteq Stored(q)' /\ Condemned(q) \subseteq Condemned(q)'
      BY <2>2
    <2>4. \A f \in disk : UsersOf(f) \subseteq UsersOf(f)'
      BY <2>1 DEF UsersOf, Active
    <2> QED
      BY <2>1, <2>3, <2>4, LeakQuiet
  <1>6. ASSUME Unlink(r) PROVE NothingLeaks'
    <2>1. UNCHANGED <<asset, file, disk, leaky>>
      BY <1>6 DEF Unlink
    <2>2. \A q \in Requests :
            req[q].pc \in {"storing", "replacing", "counting", "removing"} =>
              /\ req'[q].pc = req[q].pc
              /\ req'[q].file = req[q].file /\ req'[q].old = req[q].old
      BY <1>6, <1>0 DEF Unlink, At, Calls
    <2>3. \A q \in Requests : Stored(q) \subseteq Stored(q)' /\ Condemned(q) \subseteq Condemned(q)'
      BY <2>2
    <2>4. \A f \in disk : UsersOf(f) \subseteq UsersOf(f)'
      BY <2>1 DEF UsersOf, Active
    <2> QED
      BY <2>1, <2>3, <2>4, LeakQuiet
  <1>7. ASSUME MarkDeleted(r) PROVE NothingLeaks'
    <2>1. /\ UNCHANGED <<file, disk>> /\ req[r].pc = "marking"
          /\ Active \ {req[r].asset} \subseteq Active'
          /\ leaky \subseteq leaky'
          /\ file[req[r].asset] # req[r].old => file[req[r].asset] \in leaky'
      BY <1>7 DEF MarkDeleted, At, Active, TypeInv, TypeOK
    <2>2. /\ req'[r].pc = "counting" /\ req'[r].old = req[r].old
          /\ \A q \in Requests : q # r => req'[q] = req[q]
      BY <1>7, <1>0 DEF MarkDeleted, Calls
    <2> QED
      BY <2>1, <2>2 DEF NothingLeaks, UsersOf
  <1>8. ASSUME Count(r) PROVE NothingLeaks'
    <2>1. UNCHANGED <<asset, file, disk, leaky>> /\ req[r].pc = "counting"
      BY <1>8 DEF Count, At
    <2>2. /\ \A q \in Requests : q # r => req'[q] = req[q]
          /\ \/ req'[r].pc = "removing" /\ req'[r].old = req[r].old
             \/ UsersOf(req[r].old) # {}
      BY <1>8, <1>0 DEF Count, End, Calls
    <2>3. \A f \in disk : UsersOf(f)' = UsersOf(f)
      BY <2>1 DEF UsersOf, Active
    <2> QED
      BY <2>1, <2>2, <2>3 DEF NothingLeaks
  <1>9. ASSUME Remove(r) PROVE NothingLeaks'
    <2>1. /\ UNCHANGED <<asset, file>> /\ req[r].pc = "removing"
          /\ \/ disk' = disk \ {req[r].old} /\ leaky' = leaky \ {req[r].old}
             \/ disk' = disk /\ leaky' = leaky \cup (disk \cap {req[r].old})
      BY <1>9 DEF Remove, At
    <2>2. \A q \in Requests : q # r => req'[q] = req[q]
      BY <1>9, <1>0 DEF Remove, End
    <2>3. \A f \in disk' : f \in disk /\ (f \in leaky' \/ f # req[r].old)
      BY <2>1
    <2>4. \A f \in disk' : f \in leaky => f \in leaky'
      BY <2>1
    <2> QED
      BY <2>1, <2>2, <2>3, <2>4 DEF NothingLeaks, UsersOf, Active
  <1>10. ASSUME NEW links \in SUBSET Assets, Create(r, links) PROVE NothingLeaks'
    <2>1. UNCHANGED <<asset, file, disk, leaky>>
      BY <1>10 DEF Create
    <2>2. \A q \in Requests :
            req[q].pc \in {"storing", "replacing", "counting", "removing"} =>
              /\ req'[q].pc = req[q].pc
              /\ req'[q].file = req[q].file /\ req'[q].old = req[q].old
      BY <1>10, <1>0 DEF Create, Begin, At, Calls
    <2>3. \A q \in Requests : Stored(q) \subseteq Stored(q)' /\ Condemned(q) \subseteq Condemned(q)'
      BY <2>2
    <2>4. \A f \in disk : UsersOf(f) \subseteq UsersOf(f)'
      BY <2>1 DEF UsersOf, Active
    <2> QED
      BY <2>1, <2>3, <2>4, LeakQuiet
  <1>11. ASSUME NEW b \in Blocks, Duplicate(r, b) PROVE NothingLeaks'
    <2>1. UNCHANGED <<asset, file, disk, leaky>>
      BY <1>11 DEF Duplicate
    <2>2. \A q \in Requests :
            req[q].pc \in {"storing", "replacing", "counting", "removing"} =>
              /\ req'[q].pc = req[q].pc
              /\ req'[q].file = req[q].file /\ req'[q].old = req[q].old
      BY <1>11, <1>0 DEF Duplicate, Begin, At, Calls
    <2>3. \A q \in Requests : Stored(q) \subseteq Stored(q)' /\ Condemned(q) \subseteq Condemned(q)'
      BY <2>2
    <2>4. \A f \in disk : UsersOf(f) \subseteq UsersOf(f)'
      BY <2>1 DEF UsersOf, Active
    <2> QED
      BY <2>1, <2>3, <2>4, LeakQuiet
  <1>12. ASSUME NEW b \in Blocks, CommitCreate(r, b) PROVE NothingLeaks'
    <2>1. UNCHANGED <<asset, file, disk, leaky>>
      BY <1>12 DEF CommitCreate
    <2>2. \A q \in Requests :
            req[q].pc \in {"storing", "replacing", "counting", "removing"} =>
              /\ req'[q].pc = req[q].pc
              /\ req'[q].file = req[q].file /\ req'[q].old = req[q].old
      BY <1>12, <1>0 DEF CommitCreate, End, At, Calls
    <2>3. \A q \in Requests : Stored(q) \subseteq Stored(q)' /\ Condemned(q) \subseteq Condemned(q)'
      BY <2>2
    <2>4. \A f \in disk : UsersOf(f) \subseteq UsersOf(f)'
      BY <2>1 DEF UsersOf, Active
    <2> QED
      BY <2>1, <2>3, <2>4, LeakQuiet
  <1>13. ASSUME NEW b \in Blocks, NEW links \in SUBSET Assets, Update(r, b, links)
         PROVE NothingLeaks'
    <2>1. UNCHANGED <<asset, file, disk, leaky>>
      BY <1>13 DEF Update
    <2>2. \A q \in Requests :
            req[q].pc \in {"storing", "replacing", "counting", "removing"} =>
              /\ req'[q].pc = req[q].pc
              /\ req'[q].file = req[q].file /\ req'[q].old = req[q].old
      BY <1>13, <1>0 DEF Update, Begin, At, Calls
    <2>3. \A q \in Requests : Stored(q) \subseteq Stored(q)' /\ Condemned(q) \subseteq Condemned(q)'
      BY <2>2
    <2>4. \A f \in disk : UsersOf(f) \subseteq UsersOf(f)'
      BY <2>1 DEF UsersOf, Active
    <2> QED
      BY <2>1, <2>3, <2>4, LeakQuiet
  <1>14. ASSUME CommitUpdate(r) PROVE NothingLeaks'
    <2>1. UNCHANGED <<asset, file, disk, leaky>>
      BY <1>14 DEF CommitUpdate
    <2>2. \A q \in Requests :
            req[q].pc \in {"storing", "replacing", "counting", "removing"} =>
              /\ req'[q].pc = req[q].pc
              /\ req'[q].file = req[q].file /\ req'[q].old = req[q].old
      BY <1>14, <1>0 DEF CommitUpdate, At, Calls
    <2>3. \A q \in Requests : Stored(q) \subseteq Stored(q)' /\ Condemned(q) \subseteq Condemned(q)'
      BY <2>2
    <2>4. \A f \in disk : UsersOf(f) \subseteq UsersOf(f)'
      BY <2>1 DEF UsersOf, Active
    <2> QED
      BY <2>1, <2>3, <2>4, LeakQuiet
  <1>15. ASSUME Fail(r) PROVE NothingLeaks'
    <2>1. UNCHANGED <<asset, file, disk>> /\ leaky' = leaky \cup Stored(r) \cup Condemned(r)
      BY <1>15 DEF Fail
    <2>2. \A q \in Requests : q # r => req'[q] = req[q]
      BY <1>15, <1>0 DEF Fail, End
    <2> QED
      BY <2>1, <2>2 DEF NothingLeaks, UsersOf, Active
  <1> QED
    BY <1>1, <1>2, <1>3, <1>4, <1>5, <1>6, <1>7, <1>8, <1>9, <1>10, <1>11, <1>12,
       <1>13, <1>14, <1>15 DEF Step

\* A file on the disk belongs to an active asset or to a call in progress, unless an
\* update was lost, a call died or a removal failed: of interleaved deletions and
\* replacements the last one removes the file (commit before count).
THEOREM FilesDoNotLeak == Spec => []NothingLeaks
  <1>1. Init => NothingLeaks
    BY DEF Init, NothingLeaks
  <1>2. TypeInv /\ NothingLeaks /\ [Next]_vars => NothingLeaks'
    <2> SUFFICES ASSUME TypeInv, NothingLeaks, [Next]_vars PROVE NothingLeaks'
      OBVIOUS
    <2>1. CASE \E r \in Requests : Step(r)
      BY <2>1, LeakStep
    <2>2. CASE UNCHANGED <<asset, file, disk, req, leaky>>
      BY <2>2 DEF NothingLeaks, UsersOf, Active, Stored, Condemned
    <2> QED
      BY <2>1, <2>2 DEF Next, DeleteBlock, Dispatch, vars
  <1> QED
    BY TypeInit, TypeNext, <1>1, <1>2, PTL DEF Spec
=============================================================================
