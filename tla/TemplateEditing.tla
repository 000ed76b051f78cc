--------------------------- MODULE TemplateEditing ---------------------------
(***************************************************************************)
(* Editors of advertising templates (api/v1/advertising_blocks.py) and the *)
(* forced deletion of a media file (api/v1/media.py).  An editor fetches   *)
(* a template and sends a request that may carry the version it has        *)
(* fetched; the request reads the row and checks, reads the items that it  *)
(* is about, and commits: three steps, between which others come.          *)
(***************************************************************************)
EXTENDS Naturals, Sequences, FiniteSets

CONSTANTS
  Templates, Editors, Assets,
  Choices,    \* the sequences of assets an editor may ask for
  MaxEdits    \* bound on the commits

ASSUME EditingAssumption == Choices \subseteq Seq(Assets) /\ MaxEdits \in Nat

VARIABLES
  drafts,     \* the templates' rows; "last" is history: the update that wrote it last
  slides,     \* the items of each template: place, asset, and the commit they are from
  library,    \* the assets that are not deleted
  editors,    \* what each editor is at
  edits,      \* the commits so far
  cut,        \* history: templates a forced deletion took items from, and their copies
  overlapped, \* history: templates updated while another request had been checked
  lost,       \* history: templates with an update by one who had not seen the one before
  unsettled   \* history: areas with defaults set at once, or that a default was moved to

draftVars == <<drafts, slides, library>>
editVars == <<draftVars, editors, edits, cut, overlapped, lost, unsettled>>

Zones == {"FULL_SCREEN", "MODE32_PROMO"}
Absent == [zone |-> "none", default |-> FALSE, version |-> 0, last |-> 0]
Free == [at |-> "free"]
There(t) == drafts[t].zone # "none"
DefaultsIn(zone) == {t \in Templates : drafts[t].zone = zone /\ drafts[t].default}

\* New items are numbered from 0.
Slides(assets, by) == {<<i - 1, assets[i], by>> : i \in DOMAIN assets}

\* One template with one item, the default of its area.
EditingInit ==
  LET first == CHOOSE t \in Templates : TRUE IN
  /\ drafts = [t \in Templates |-> IF t = first THEN [zone |-> "FULL_SCREEN", default |-> TRUE,
                                                     version |-> 1, last |-> 0]
                                     ELSE Absent]
  /\ slides = [t \in Templates |-> IF t = first THEN Slides(<<CHOOSE a \in Assets : TRUE>>, 0)
                                     ELSE {}]
  /\ library = Assets
  /\ editors = [e \in Editors |-> Free]
  /\ edits = 0
  /\ cut = {}
  /\ overlapped = {}
  /\ lost = {}
  /\ unsettled = {}

Edits == edits < MaxEdits /\ edits' = edits + 1

\* An editor begins while there is a commit left for each that has begun.
Begins(e) == /\ editors[e] = Free
             /\ edits + Cardinality({f \in Editors : editors[f] # Free}) < MaxEdits

-----------------------------------------------------------------------------
(* An editor's request, up to its commit.                                  *)

\* What the editor will send is based on what it fetches.
GetBlock(e, t) ==
  /\ Begins(e)
  /\ There(t)
  /\ editors' = [editors EXCEPT ![e] =
       [at |-> "fetched", on |-> t, version |-> drafts[t].version, last |-> drafts[t].last]]
  /\ UNCHANGED <<draftVars, edits, cut, overlapped, lost, unsettled>>

\* A request that has passed its checks: what it has read, and what it will write.  It has not
\* read any items yet.
Request(kind, t, zone, default) ==
  [at |-> "checked", kind |-> kind, on |-> t, row |-> drafts[t], items |-> {}, read |-> FALSE,
   assets |-> <<>>, zone |-> zone, default |-> default, based |-> FALSE, last |-> 0, copies |-> t,
   others |-> IF default = "set" THEN DefaultsIn(zone) \ {t} ELSE {}]

Sends(e, request) ==
  /\ editors' = [editors EXCEPT ![e] = request]
  /\ UNCHANGED <<draftVars, edits, cut, overlapped, lost, unsettled>>

\* mutant: the version is not compared.
AnyVersion(e) == TRUE

\* The concurrency check, for a request that carries a version.
SameVersion(e) == editors[e].version = drafts[editors[e].on].version

\* An update of the items, the area and the default, or of some of them, with or without a
\* version.
HandleUpdateBlock(e, assets, zone, default) ==
  LET t == editors[e].on IN
  /\ editors[e].at = "fetched"
  /\ There(t)
  /\ \A i \in DOMAIN assets : assets[i] \in library
  /\ \E based \in BOOLEAN :
       /\ based => SameVersion(e)
       /\ Sends(e, [Request("update", t, zone, default) EXCEPT
                      !.assets = assets, !.based = based, !.last = editors[e].last])

\* The endpoint for items alone.
UpdatePlaylist(e, assets) ==
  /\ editors[e].at = "fetched"
  /\ HandleUpdateBlock(e, assets, drafts[editors[e].on].zone, "leave")

SetDefault(e, t) ==
  /\ Begins(e)
  /\ There(t)
  /\ Sends(e, Request("default", t, drafts[t].zone, "set"))

\* A new row has an identity of its own.
NewRow(e, t) ==
  /\ Begins(e)
  /\ ~There(t)
  /\ \A f \in Editors : /\ editors[f] # Free => editors[f].on # t
                        /\ editors[f].at = "checked" => editors[f].copies # t

CreateBlock(e, t, assets, zone, default) ==
  /\ NewRow(e, t)
  /\ \A i \in DOMAIN assets : assets[i] \in library
  /\ Sends(e, [Request("create", t, zone, default) EXCEPT !.assets = assets])

DuplicateBlock(e, t, source) ==
  /\ NewRow(e, t)
  /\ There(source)
  /\ Sends(e, [Request("copy", t, drafts[source].zone, "leave") EXCEPT !.copies = source])

\* Items that are to be replaced or copied are read after the assets have been checked.
ReadsItems(r) == r.kind = "copy" \/ (r.kind = "update" /\ r.assets # <<>>)

SelectItems(e) ==
  LET r == editors[e] IN
  /\ r.at = "checked"
  /\ ReadsItems(r) /\ ~r.read
  /\ Sends(e, [r EXCEPT !.items = slides[r.copies], !.read = TRUE])

-----------------------------------------------------------------------------
(* The commit.                                                             *)

Beside(e) == {editors[f] : f \in {g \in Editors \ {e} : editors[g].at = "checked"}}

\* mutant: the table takes two items at one place.
AnyOrder(kept, added) == TRUE

\* The table's constraint.
UniqueOrder(kept, added) == \A i \in kept, j \in added : i[1] # j[1]

\* mutant: the other defaults are left alone.
UnsetsNone(t, r) == FALSE

\* The other defaults that the request has read.
Unsets(t, r) == t \in r.others

\* What the row holds afterwards: a column whose value is the one that was read is not written,
\* the version is one more than the one that was read.
Written(r) ==
  LET now == drafts[r.on]
      default == IF r.default = "leave" THEN r.row.default ELSE r.default = "set" IN
  [zone    |-> IF r.zone = r.row.zone THEN now.zone ELSE r.zone,
   default |-> IF default = r.row.default THEN now.default ELSE default,
   version |-> IF r.kind = "default" THEN now.version ELSE r.row.version + 1,
   last    |-> IF r.kind = "default" THEN now.last ELSE edits + 1]

\* Requests that set defaults or move a template, at once; or one that brings its default
\* along to another area.
Settles(r) == r.default = "set" \/ r.zone # r.row.zone

ZonesOf(r) == {r.zone, r.row.zone}

Unsettled(e, r) ==
  IF ~Settles(r) THEN {}
  ELSE (IF r.default = "leave" /\ r.row.default THEN {r.zone} ELSE {}) \cup
       UNION {ZonesOf(r) \cup ZonesOf(o) : o \in {p \in Beside(e) : Settles(p)}}

Commit(e) ==
  LET r == editors[e]
      t == r.on
      kept == IF r.assets = <<>> THEN slides[t] ELSE slides[t] \ r.items
      added == IF r.kind = "copy" THEN {<<s[1], s[2], edits + 1>> : s \in r.items}
                 ELSE Slides(r.assets, edits + 1) IN
  /\ r.at = "checked"
  /\ ReadsItems(r) => r.read
  /\ \/ /\ There(t) <=> r.kind \in {"update", "default"}
        /\ UniqueOrder(kept, added)
        /\ Edits
        /\ drafts' = [u \in Templates |-> IF u = t THEN Written(r)
                        ELSE [drafts[u] EXCEPT !.default = @ /\ ~Unsets(u, r)]]
        /\ slides' = [slides EXCEPT ![t] = kept \cup added]
        /\ cut' = IF r.copies \in cut THEN cut \cup {t} ELSE cut
        /\ overlapped' = IF \E o \in Beside(e) : o.on = t THEN overlapped \cup {t} ELSE overlapped
        /\ lost' = IF r.based /\ r.last # drafts[t].last THEN lost \cup {t} ELSE lost
        /\ unsettled' = unsettled \cup Unsettled(e, r)
     \/ /\ ~(There(t) <=> r.kind \in {"update", "default"}) \/ ~UniqueOrder(kept, added)
        /\ UNCHANGED <<drafts, slides, edits, cut, overlapped, lost, unsettled>>
  /\ editors' = [editors EXCEPT ![e] = Free]
  /\ UNCHANGED library

\* A request that is refused, or never sent.
Leaves(e) ==
  /\ editors[e].at = "fetched"
  /\ editors' = [editors EXCEPT ![e] = Free]
  /\ UNCHANGED <<draftVars, edits, cut, overlapped, lost, unsettled>>

-----------------------------------------------------------------------------
(* Deletions.                                                              *)

DeleteBlock(t) ==
  /\ There(t)
  /\ Edits
  /\ drafts' = [drafts EXCEPT ![t] = Absent]
  /\ slides' = [slides EXCEPT ![t] = {}]
  /\ UNCHANGED <<library, editors, cut, overlapped, lost, unsettled>>

\* A file in use goes, with the items that show it, only when that is forced.
DeleteMediaAsset(a, force) ==
  LET showing == {t \in Templates : \E s \in slides[t] : s[2] = a} IN
  /\ a \in library
  /\ showing # {} => force
  /\ Edits
  /\ slides' = [t \in Templates |-> {s \in slides[t] : s[2] # a}]
  /\ library' = library \ {a}
  /\ cut' = cut \cup showing
  /\ UNCHANGED <<drafts, editors, overlapped, lost, unsettled>>

EditingNext ==
  \/ \E e \in Editors, t \in Templates : GetBlock(e, t) \/ SetDefault(e, t)
  \/ \E e \in Editors, assets \in Choices \cup {<<>>}, zone \in Zones,
        default \in {"leave", "set", "unset"} : HandleUpdateBlock(e, assets, zone, default)
  \/ \E e \in Editors, assets \in Choices : UpdatePlaylist(e, assets)
  \/ \E e \in Editors, t \in Templates, assets \in Choices, zone \in Zones,
        default \in {"leave", "set"} : CreateBlock(e, t, assets, zone, default)
  \/ \E e \in Editors, t \in Templates, source \in Templates : DuplicateBlock(e, t, source)
  \/ \E e \in Editors : SelectItems(e) \/ Commit(e) \/ Leaves(e)
  \/ \E t \in Templates : DeleteBlock(t)
  \/ \E a \in Assets, force \in BOOLEAN : DeleteMediaAsset(a, force)

EditingSpec == EditingInit /\ [][EditingNext]_editVars

-----------------------------------------------------------------------------
(* Properties.                                                             *)

\* The items of a template have the places 0, 1, ... and are of one update, unless files were
\* deleted by force.
PlaylistWhole == \A t \in Templates \ cut : There(t) =>
  /\ {s[1] : s \in slides[t]} = 0 .. Cardinality(slides[t]) - 1
  /\ Cardinality({s[3] : s \in slides[t]}) <= 1

\* Nobody overwrites by version an update that they have not seen, unless two requests on the
\* template overlapped.
NoLostUpdate == lost \subseteq overlapped

\* An area has one default at most, unless two were set at once or one came from another area.
OneDefault == \A zone \in Zones \ unsettled : Cardinality(DefaultsIn(zone)) <= 1

\* What concurrent editors may rely on: the three together.
EditsHold == PlaylistWhole /\ NoLostUpdate /\ OneDefault
=============================================================================
