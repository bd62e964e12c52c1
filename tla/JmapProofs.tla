----------------------------- MODULE JmapProofs -----------------------------
(***************************************************************************)
(* Proofs about the mutable JMAP state: for any emails, mailboxes, patches *)
(* and edits, any number of Email/sets at once and a Mailbox/set, with     *)
(* projections, rebuilds and wipes among them.                             *)
(*                                                                         *)
(* The four properties share one invariant (JmapInv), because what one     *)
(* store will hold is decided by what the others hold now: every copy of   *)
(* an overlay that a call, a refresh or the rebuild carries is the overlay *)
(* or is marked old (CopiesOK), rows that do not show it have a refresh    *)
(* coming (ConvergingOK), what is owed is in whatever may be written next  *)
(* (FlagsOK), and so is a mailbox that both catalogs have (ShownOK).       *)
(***************************************************************************)
EXTENDS JmapState, TLAPS, WellFoundedInduction

-----------------------------------------------------------------------------
(* JMAP mail state: the invariant *)

Catalogs == [Custom -> Entries \cup {NoEntry}]
States == (SUBSET Marks) \cup {NoEntry}
Refreshes == [at : {"none", "queued", "read"}, snap : States, old : BOOLEAN]
Rebuilds == [at : {"idle", "failed", "walk", "loaded", "catalog"}, todo : SUBSET Emails,
             email : Emails \cup {NoEntry}, snap : States, cat : Catalogs, old : BOOLEAN]

StoredTypes ==
    /\ overlay \in [Emails -> States] /\ members \in [Emails -> States]
    /\ cursor \in Catalogs /\ rows \in Catalogs /\ buried \in SUBSET Custom
EsetTypes == eset \in [Handlers -> EmailSets \cup {NoEntry}]
MsetTypes == mset \in MailboxSets \cup {NoEntry}
RefreshTypes == due \in SUBSET Emails /\ pend \in [Emails -> Refreshes]
RebuildTypes == rb \in Rebuilds /\ (rb.at = "loaded" => rb.email \in Emails)
HistoryTypes ==
    /\ owed \in [Emails -> SUBSET Marks] /\ behind \in BOOLEAN
    /\ outdated \in SUBSET Emails /\ excused \in SUBSET Emails /\ stranded \in SUBSET Emails

JmapTypes == StoredTypes /\ EsetTypes /\ MsetTypes /\ RefreshTypes /\ RebuildTypes /\ HistoryTypes

\* Both catalogs are well formed, and so is every copy of one on its way to the
\* other; what was acknowledged is in FILESTORE's, and in QUERY's unless that is
\* behind.
CatalogsOK ==
    /\ wellFormed(cursor) /\ wellFormed(rows)
    /\ acked \subseteq live(cursor)
    /\ behind \/ acked \subseteq live(rows)
    /\ mset # NoEntry =>
          /\ wellFormed(mset.draft)
          /\ mset.at = "written" => cursor = mset.draft
          /\ mset.at # "written" => mset.risky \/ acked \subseteq live(mset.draft)
    /\ rb.at = "catalog" => wellFormed(rb.cat) /\ (rb.old \/ rb.cat = cursor)

\* A copy of an email's overlay, in a call, a refresh or the rebuild, is the
\* overlay or is marked old; and an email without overlay has default rows only.
CallCopy(h) == eset[h] # NoEntry =>
    /\ eset[h].at = "read" => ~eset[h].old
    /\ eset[h].at = "written" =>
          overlay[eset[h].email] # NoEntry /\ (eset[h].old \/ eset[h].update = overlay[eset[h].email])
PendCopy(e) == pend[e].at = "read" =>
    /\ pend[e].old \/ pend[e].snap = overlay[e]
    /\ overlay[e] = NoEntry => pend[e].snap = NoEntry
RebuildCopy == rb.at = "loaded" =>
    /\ rb.old \/ rb.snap = overlay[rb.email]
    /\ overlay[rb.email] = NoEntry => rb.snap = NoEntry
Untouched(e) == overlay[e] = NoEntry => members[e] \in {NoEntry, Defaults}

CopiesOK ==
    /\ \A h \in Handlers : CallCopy(h)
    /\ \A e \in Emails : PendCopy(e) /\ Untouched(e)
    /\ RebuildCopy

\* A rebuild that gets to the end has projected every email.
Projected(e) == e \in rb.todo \/ (rb.at = "loaded" /\ rb.email = e) \/ members[e] # NoEntry
RebuildOK ==
    /\ rb.at \in {"walk", "loaded", "catalog"} => \A e \in Emails : Projected(e)
    /\ rb.at = "catalog" => rb.todo = {}
    /\ rebuilt => \A e \in Emails : members[e] # NoEntry

\* A refresh of the email that will read its latest overlay, or has.
coming(e) == e \in due \/ pend[e].at = "queued" \/ (pend[e].at = "read" /\ ~pend[e].old)

\* The rows of an email that is not excused show its overlay, or a refresh is on
\* its way; and nothing older will be written over them.
Converging(e) ==
    /\ members[e] \in {NoEntry, current(e)} \/ coming(e)
    /\ \A h \in Handlers : eset[h] # NoEntry /\ eset[h].email = e => ~eset[h].old
    /\ rb.at = "loaded" /\ rb.email = e => ~rb.old
    /\ pend[e].at = "read" /\ pend[e].old => e \in due

ConvergingOK == \A e \in Emails : e \notin excused => Converging(e)

withdrawn(p) == p.off \cup UNION p.replace

\* What is owed is in the overlay, in rows that are not outdated, and in what a
\* running Email/set with a current view of the email is about to write; and its
\* mailboxes are in both catalogs.
OwedStored(e) == owed[e] # {} => overlay[e] # NoEntry /\ owed[e] \subseteq overlay[e]
OwedNamed(e) ==
    /\ owed[e] \subseteq Keywords \cup live(cursor)
    /\ behind \/ owed[e] \subseteq Keywords \cup live(rows)
OwedShown(e) == e \in outdated \/ members[e] = NoEntry \/ owed[e] \subseteq members[e]
CallKeeps(h) == eset[h] # NoEntry =>
    /\ eset[h].patch.on \ eset[h].patch.off \subseteq eset[h].update
    /\ eset[h].at = "read" /\ ~eset[h].stale =>
          owed[eset[h].email] \ withdrawn(eset[h].patch) \subseteq eset[h].update

FlagsOK ==
    /\ \A e \in Emails : OwedStored(e) /\ OwedNamed(e) /\ OwedShown(e)
    /\ \A h \in Handlers : CallKeeps(h)

\* The states that an email's rows hold or may come to hold.
reach(e) ==
    {current(e)} \cup (IF e \in outdated THEN {} ELSE {members[e]} \ {NoEntry})
    \cup {eset[h].update : h \in {g \in Handlers : eset[g] # NoEntry /\ eset[g].email = e}}

\* Some mailbox of the state is in the catalog.
shown(s, cat) == s \cap (System \cup live(cat)) # {}

\* Every such state of an email that is not stranded has a mailbox in both
\* catalogs, and keeps one through the Mailbox/set that is running.
lasting(s) ==
    /\ shown(s, cursor)
    /\ behind \/ shown(s, rows)
    /\ mset # NoEntry /\ mset.at # "written" /\ ~mset.risky => shown(s, mset.draft)
    /\ mset # NoEntry /\ mset.at = "counted" => s \cap Custom \subseteq mset.full
ShownOK == \A e \in Emails \ stranded : \A s \in reach(e) : lasting(s)

JmapInv ==
    /\ JmapTypes /\ CatalogsOK /\ CopiesOK /\ RebuildOK /\ ConvergingOK /\ FlagsOK /\ ShownOK

-----------------------------------------------------------------------------
(* Types *)

\* What a patch makes of a set of marks is a set of marks.
LEMMA PatchTypes ==
    ASSUME NEW s \in SUBSET Marks, NEW p \in Patches
    PROVE  applyJMAPBoolMap(s, p) \in SUBSET Marks
<1>1. p.on \subseteq Marks
  BY JmapStateAssumption
<1> QED BY Zenon, <1>1 DEF applyJMAPBoolMap

\* A projection writes a set of marks.
LEMMA SeededTypes ==
    ASSUME JmapTypes, NEW e \in Emails, NEW snap \in States
    PROVE  seeded(e, snap) \in SUBSET Marks
<1>1. members[e] \in SUBSET Marks \/ members[e] = NoEntry
  BY Zenon DEF JmapTypes, StoredTypes, States
<1>2. snap \in SUBSET Marks \/ snap = NoEntry
  BY Zenon DEF States
<1>3. Defaults \in SUBSET Marks
  BY JmapStateAssumption DEF Marks, Boxes
<1> QED BY Zenon, <1>1, <1>2, <1>3 DEF seeded

\* The catalog there is at first and the one of an empty database are catalogs.
LEMMA InitialTypes == Initial \in Catalogs /\ noCatalog \in Catalogs
  BY Zenon, JmapStateAssumption DEF Catalogs, noCatalog

\* Mailbox/set keeps the types, provided that its edits make catalogs.
LEMMA MailboxSetTypes ==
    ASSUME JmapTypes, mset # NoEntry => edited \subseteq Catalogs, MailboxSet
    PROVE  JmapTypes'
<1> USE DEF JmapTypes, overlayVars, queryVars, refreshVars, catalogAux, emailAux
<1>1. CASE JMAPMailboxes
  <2>1. MsetTypes'
    BY <1>1 DEF JMAPMailboxes, MsetTypes, MailboxSets, StoredTypes, HistoryTypes, Catalogs
  <2> QED BY Zenon, <1>1, <2>1 DEF JMAPMailboxes, StoredTypes, EsetTypes, RefreshTypes, RebuildTypes, HistoryTypes
<1>2. CASE JMAPMailboxEmailCounts
  <2>1. MsetTypes'
    BY Zenon, <1>2 DEF JMAPMailboxEmailCounts, MsetTypes, MailboxSets
  <2>2. HistoryTypes'
    BY Zenon, <1>2 DEF JMAPMailboxEmailCounts, HistoryTypes
  <2> QED BY Zenon, <1>2, <2>1, <2>2 DEF JMAPMailboxEmailCounts, StoredTypes, EsetTypes, RefreshTypes, RebuildTypes
<1>3. CASE WriteSourceCursor
  <2>1. PICK cat \in edited :
          /\ cursor' = cat
          /\ mset' = [mset EXCEPT !.at = "written", !.draft = cat, !.full = {}]
          /\ owed' = [e \in Emails |-> owed[e] \ (Custom \ live(cat))]
    BY Zenon, <1>3 DEF WriteSourceCursor
  <2>2. mset # NoEntry /\ cat \in Catalogs
    BY Zenon, <1>3 DEF WriteSourceCursor
  <2>3. MsetTypes'
    BY Zenon, <2>1, <2>2 DEF MsetTypes, MailboxSets, Catalogs
  <2>4. HistoryTypes'
    <3>1. owed' \in [Emails -> SUBSET Marks]
      BY Zenon, <2>1 DEF HistoryTypes
    <3>2. stranded' \in SUBSET Emails /\ UNCHANGED <<outdated, excused, behind>>
      BY Zenon, <1>3 DEF WriteSourceCursor, HistoryTypes
    <3> QED BY Zenon, <3>1, <3>2 DEF HistoryTypes
  <2>5. RebuildTypes'
    BY Zenon, <1>3 DEF WriteSourceCursor, RebuildTypes, Rebuilds
  <2>6. StoredTypes'
    BY Zenon, <1>3, <2>1, <2>2 DEF WriteSourceCursor, StoredTypes
  <2> QED BY Zenon, <1>3, <2>3, <2>4, <2>5, <2>6 DEF WriteSourceCursor, EsetTypes, RefreshTypes
<1>4. CASE UpdateJMAPMailboxCatalog
  <2>1. mset \in MailboxSets /\ mset' = NoEntry
    BY Zenon, <1>4 DEF UpdateJMAPMailboxCatalog, MsetTypes
  <2>2. mset.draft \in Catalogs
    BY Zenon, <2>1 DEF MailboxSets, Catalogs
  <2>3. rows' \in Catalogs /\ buried' \in SUBSET Custom
    BY Zenon, <1>4, <2>2 DEF UpdateJMAPMailboxCatalog, projectCatalog, StoredTypes, live
  <2>4. StoredTypes'
    BY Zenon, <1>4, <2>3 DEF UpdateJMAPMailboxCatalog, StoredTypes
  <2> QED BY Zenon, <1>4, <2>1, <2>4 DEF UpdateJMAPMailboxCatalog, MsetTypes, EsetTypes, RefreshTypes, RebuildTypes, HistoryTypes
<1>5. CASE mailboxSetFails
  BY Zenon, <1>5 DEF mailboxSetFails, StoredTypes, MsetTypes, EsetTypes, RefreshTypes, RebuildTypes, HistoryTypes
<1> QED BY Zenon, <1>1, <1>2, <1>3, <1>4, <1>5 DEF MailboxSet

\* Changing the fields of a call, a refresh or the rebuild keeps its type.
LEMMA FieldTypes ==
    /\ \A r \in EmailSets : [r EXCEPT !.at = "written"] \in EmailSets /\ [r EXCEPT !.old = TRUE] \in EmailSets
                            /\ [r EXCEPT !.stale = TRUE] \in EmailSets
    /\ \A r \in Refreshes, b \in BOOLEAN : [r EXCEPT !.old = b] \in Refreshes
    /\ \A r \in Refreshes : [r EXCEPT !.at = "queued"] \in Refreshes
    /\ \A r \in Rebuilds, b \in BOOLEAN : [r EXCEPT !.old = b] \in Rebuilds
    /\ noRefresh \in Refreshes
    /\ noRebuild \in Rebuilds
<1>1. noRefresh \in Refreshes
  BY Zenon DEF noRefresh, Refreshes, States
<1>2. noRebuild \in Rebuilds
  BY Zenon, InitialTypes DEF noRebuild, Rebuilds, States
<1>3. \A r \in EmailSets : [r EXCEPT !.at = "written"] \in EmailSets /\ [r EXCEPT !.old = TRUE] \in EmailSets
                           /\ [r EXCEPT !.stale = TRUE] \in EmailSets
  BY Zenon DEF EmailSets
<1>4. /\ \A r \in Refreshes, b \in BOOLEAN : [r EXCEPT !.old = b] \in Refreshes
      /\ \A r \in Refreshes : [r EXCEPT !.at = "queued"] \in Refreshes
  BY Zenon DEF Refreshes
<1>5. \A r \in Rebuilds, b \in BOOLEAN : [r EXCEPT !.old = b] \in Rebuilds
  BY DEF Rebuilds
<1> QED BY Zenon, <1>1, <1>2, <1>3, <1>4, <1>5

\* Email/set keeps the types.
LEMMA EmailSetTypes ==
    ASSUME JmapTypes, NEW h \in Handlers, EmailSet(h)
    PROVE  JmapTypes'
<1> USE DEF JmapTypes, overlayVars, queryVars, refreshVars, catalogAux, emailAux
<1>1. ASSUME NEW e \in Emails, NEW p \in Patches, JMAPEmailStates(h, e, p) PROVE JmapTypes'
  <2> DEFINE update == applyJMAPBoolMap(visible(members[e]), p)
  <2>1. members[e] \in SUBSET Marks
    BY Zenon, <1>1 DEF JMAPEmailStates, StoredTypes, States
  <2>2. update \in SUBSET Marks
    BY Zenon, <2>1, PatchTypes DEF visible
  <2>3. eset' = [eset EXCEPT ![h] =
               [at |-> "read", email |-> e, patch |-> p, update |-> update, old |-> FALSE,
                stale |-> behind \/ e \in outdated]]
    BY Zenon, <1>1 DEF JMAPEmailStates
  <2>4. (behind \/ e \in outdated) \in BOOLEAN
    BY Zenon
  <2> HIDE DEF update
  <2>5. EsetTypes'
    BY Zenon, <2>2, <2>3, <2>4 DEF EsetTypes, EmailSets
  <2>6. stranded' \in SUBSET Emails
    BY Zenon, <1>1 DEF JMAPEmailStates, HistoryTypes
  <2> QED BY Zenon, <1>1, <2>5, <2>6 DEF JMAPEmailStates, StoredTypes, MsetTypes, RefreshTypes, RebuildTypes, HistoryTypes
<1>2. CASE WriteOverlays(h)
  <2>1. eset[h] \in EmailSets
    BY Zenon, <1>2 DEF WriteOverlays, EsetTypes
  <2>2. PICK e \in Emails : e = eset[h].email
    BY Zenon, <2>1 DEF EmailSets
  <2>3. eset[h].update \in SUBSET Marks
    BY Zenon, <2>1 DEF EmailSets
  <2>4. StoredTypes'
    BY Zenon, <1>2, <2>2, <2>3 DEF WriteOverlays, StoredTypes, States
  <2>5. EsetTypes'
    BY Zenon, <1>2, <2>1, FieldTypes DEF WriteOverlays, EsetTypes, others
  <2>6. RefreshTypes'
    BY Zenon, <1>2, <2>2, FieldTypes DEF WriteOverlays, RefreshTypes, noticed
  <2>7. RebuildTypes'
    BY Zenon, <1>2 DEF WriteOverlays, RebuildTypes, Rebuilds
  <2>8. HistoryTypes'
    BY Zenon, <1>2, <2>2 DEF WriteOverlays, HistoryTypes
  <2> QED BY Zenon, <1>2, <2>4, <2>5, <2>6, <2>7, <2>8 DEF WriteOverlays, MsetTypes
<1>3. CASE UpdateJMAPEmailState(h)
  <2>1. eset[h] \in EmailSets
    BY Zenon, <1>3 DEF UpdateJMAPEmailState, EsetTypes
  <2>2. PICK e \in Emails : e = eset[h].email
    BY Zenon, <2>1 DEF EmailSets
  <2>3. eset[h].update \in SUBSET Marks /\ eset[h].patch.on \in SUBSET Marks
    BY Zenon, <2>1, JmapStateAssumption DEF EmailSets
  <2>4. StoredTypes'
    BY Zenon, <1>3, <2>2, <2>3 DEF UpdateJMAPEmailState, StoredTypes, States, written
  <2>5. EsetTypes'
    BY Zenon, <1>3, FieldTypes DEF UpdateJMAPEmailState, EsetTypes, others
  <2>6. HistoryTypes'
    <3>1. \/ owed' = owed
          \/ \E x \in SUBSET Marks : owed' = [owed EXCEPT ![e] = @ \cup x]
      <4>1. eset[h].patch.on \ eset[h].patch.off \subseteq Marks /\ {} \subseteq Marks
        BY Zenon, <2>3
      <4> QED BY Zenon, <1>3, <2>2, <4>1 DEF UpdateJMAPEmailState
    <3>2. owed' \in [Emails -> SUBSET Marks]
      BY Zenon, <3>1 DEF HistoryTypes
    <3>3. UNCHANGED <<behind, excused>>
      BY Zenon, <1>3 DEF UpdateJMAPEmailState
    <3>4. /\ outdated' = outdated \/ outdated' = outdated \cup {e} \/ outdated' = outdated \ {e}
          /\ stranded' = stranded \/ stranded' = stranded \cup {e}
      BY Zenon, <1>3, <2>2 DEF UpdateJMAPEmailState, written
    <3>5. outdated' \in SUBSET Emails
      BY Zenon, <3>4 DEF HistoryTypes
    <3>6. stranded' \in SUBSET Emails
      BY Zenon, <3>4 DEF HistoryTypes
    <3> QED BY Zenon, <3>2, <3>3, <3>5, <3>6 DEF HistoryTypes
  <2> QED BY Zenon, <1>3, <2>4, <2>5, <2>6 DEF UpdateJMAPEmailState, MsetTypes, RefreshTypes, RebuildTypes
<1>4. CASE emailSetFails(h)
  <2>1. EsetTypes'
    BY Zenon, <1>4 DEF emailSetFails, EsetTypes
  <2> QED BY Zenon, <1>4, <2>1 DEF emailSetFails, StoredTypes, MsetTypes, RefreshTypes, RebuildTypes, HistoryTypes
<1> QED BY Zenon, <1>1, <1>2, <1>3, <1>4 DEF EmailSet

\* The projection worker keeps the types.
LEMMA RefreshStepTypes ==
    ASSUME JmapTypes, NEW e \in Emails, Refresh(e)
    PROVE  JmapTypes'
<1> USE DEF JmapTypes, overlayVars, queryVars, refreshVars, catalogAux, emailAux
<1>1. CASE objectChanged(e)
  BY Zenon, <1>1 DEF objectChanged, StoredTypes, EsetTypes, MsetTypes, RefreshTypes, RebuildTypes, HistoryTypes
<1>2. CASE NotifyObjectsChanged(e)
  <2>1. RefreshTypes'
    <3>1. pend[e] \in Refreshes
      BY Zenon DEF RefreshTypes
    <3>2. pend' = pend \/ pend' = [pend EXCEPT ![e] = [pend[e] EXCEPT !.at = "queued"]]
      BY Zenon, <1>2 DEF NotifyObjectsChanged
    <3> QED BY Zenon, <1>2, <3>1, <3>2, FieldTypes DEF NotifyObjectsChanged, RefreshTypes
  <2>2. HistoryTypes'
    BY Zenon, <1>2 DEF NotifyObjectsChanged, HistoryTypes
  <2> QED BY Zenon, <1>2, <2>1, <2>2 DEF NotifyObjectsChanged, StoredTypes, EsetTypes, MsetTypes, RebuildTypes
<1>3. CASE ProjectionObject(e)
  <2>1. [at |-> "read", snap |-> overlay[e], old |-> FALSE] \in Refreshes
    BY Zenon DEF Refreshes, StoredTypes
  <2>2. RefreshTypes'
    BY Zenon, <1>3, <2>1 DEF ProjectionObject, RefreshTypes
  <2> QED BY Zenon, <1>3, <2>2 DEF ProjectionObject, StoredTypes, EsetTypes, MsetTypes, RebuildTypes, HistoryTypes
<1>4. CASE ProjectObject(e)
  <2>1. pend[e].snap \in States
    BY Zenon DEF RefreshTypes, Refreshes
  <2>2. seeded(e, pend[e].snap) \in States
    BY Zenon, <2>1, SeededTypes DEF States
  <2>3. StoredTypes'
    BY Zenon, <1>4, <2>2 DEF ProjectObject, written, StoredTypes
  <2>4. RefreshTypes'
    BY Zenon, <1>4, FieldTypes DEF ProjectObject, RefreshTypes
  <2>5. HistoryTypes'
    BY Zenon, <1>4 DEF ProjectObject, written, HistoryTypes
  <2> QED BY Zenon, <1>4, <2>3, <2>4, <2>5 DEF ProjectObject, EsetTypes, MsetTypes, RebuildTypes
<1>5. CASE noticeLost(e)
  BY Zenon, <1>5 DEF noticeLost, StoredTypes, EsetTypes, MsetTypes, RefreshTypes, RebuildTypes, HistoryTypes
<1>6. CASE refreshFails(e)
  <2>1. RefreshTypes'
    BY Zenon, <1>6, FieldTypes DEF refreshFails, RefreshTypes
  <2> QED BY Zenon, <1>6, <2>1 DEF refreshFails, StoredTypes, EsetTypes, MsetTypes, RebuildTypes, HistoryTypes
<1> QED BY Zenon, <1>1, <1>2, <1>3, <1>4, <1>5, <1>6 DEF Refresh

\* Rebuild and a wipe of QUERY keep the types.
LEMMA RebuildStepTypes ==
    ASSUME JmapTypes, Rebuild \/ wipe
    PROVE  JmapTypes'
<1> USE DEF JmapTypes, overlayVars, queryVars, refreshVars, catalogAux, emailAux
<1>1. CASE truncate
  <2>1. StoredTypes'
    BY Zenon, <1>1 DEF truncate, StoredTypes, States
  <2>2. RebuildTypes'
    BY Zenon, <1>1, FieldTypes DEF truncate, RebuildTypes, Rebuilds
  <2> QED BY Zenon, <1>1, <2>1, <2>2 DEF truncate, EsetTypes, MsetTypes, RefreshTypes, HistoryTypes
<1>2. ASSUME NEW e \in Emails, walkProjection(e) PROVE JmapTypes'
  <2>1. overlay[e] \in States
    BY Zenon DEF StoredTypes
  <2>2. RebuildTypes'
    BY Zenon, <1>2, <2>1 DEF walkProjection, RebuildTypes, Rebuilds
  <2> QED BY Zenon, <1>2, <2>2 DEF walkProjection, StoredTypes, EsetTypes, MsetTypes, RefreshTypes, HistoryTypes
<1>3. CASE projectIndexObject
  <2>1. rb.email \in Emails /\ rb.snap \in States
    BY Zenon, <1>3 DEF projectIndexObject, RebuildTypes, Rebuilds
  <2>2. seeded(rb.email, rb.snap) \in States
    BY Zenon, <2>1, SeededTypes DEF States
  <2>3. StoredTypes'
    BY Zenon, <1>3, <2>1, <2>2 DEF projectIndexObject, written, StoredTypes
  <2>4. RebuildTypes'
    <3>1. CASE rb' = [rb EXCEPT !.at = "walk", !.email = NoEntry, !.snap = NoEntry, !.old = FALSE]
      BY Zenon, <3>1 DEF RebuildTypes, Rebuilds, States
    <3>2. CASE rb' = [noRebuild EXCEPT !.at = "failed"]
      BY <3>2, FieldTypes DEF RebuildTypes, Rebuilds
    <3> QED BY Zenon, <1>3, <3>1, <3>2 DEF projectIndexObject
  <2>5. HistoryTypes'
    BY Zenon, <1>3, <2>1 DEF projectIndexObject, written, HistoryTypes
  <2> QED BY Zenon, <1>3, <2>3, <2>4, <2>5 DEF projectIndexObject, EsetTypes, MsetTypes, RefreshTypes
<1>4. CASE walkSourceCursors
  <2>1. RebuildTypes'
    BY Zenon, <1>4 DEF walkSourceCursors, RebuildTypes, Rebuilds, StoredTypes
  <2> QED BY Zenon, <1>4, <2>1 DEF walkSourceCursors, StoredTypes, EsetTypes, MsetTypes, RefreshTypes, HistoryTypes
<1>5. CASE ProjectSourceCursor
  <2>1. rb.cat \in Catalogs /\ rb.old \in BOOLEAN
    BY Zenon DEF RebuildTypes, Rebuilds
  <2>2. StoredTypes'
    BY Zenon, <1>5, <2>1 DEF ProjectSourceCursor, projectCatalog, live, StoredTypes
  <2>3. RebuildTypes'
    <3>1. CASE rb' = noRebuild
      BY Zenon, <3>1, FieldTypes DEF RebuildTypes, noRebuild
    <3>2. CASE rb' = [noRebuild EXCEPT !.at = "failed"]
      BY <3>2, FieldTypes DEF RebuildTypes, Rebuilds
    <3> QED BY Zenon, <1>5, <3>1, <3>2 DEF ProjectSourceCursor
  <2>4. HistoryTypes'
    BY Zenon, <1>5, <2>1 DEF ProjectSourceCursor, HistoryTypes
  <2> QED BY Zenon, <1>5, <2>2, <2>3, <2>4 DEF ProjectSourceCursor, EsetTypes, MsetTypes, RefreshTypes
<1>6. CASE wipe
  <2>1. StoredTypes'
    BY Zenon, <1>6, InitialTypes DEF wipe, StoredTypes, States
  <2>2. EsetTypes' /\ MsetTypes' /\ HistoryTypes'
    BY Zenon, <1>6 DEF wipe, EsetTypes, MsetTypes, HistoryTypes
  <2>3. RefreshTypes'
    <3>1. \A e \in Emails : [noRefresh EXCEPT !.at = IF pend[e].at = "none" THEN "none" ELSE "queued"] \in Refreshes
      BY Zenon DEF noRefresh, Refreshes, States
    <3> QED BY Zenon, <1>6, <3>1 DEF wipe, RefreshTypes
  <2> QED BY Zenon, <1>6, <2>1, <2>2, <2>3 DEF wipe, RebuildTypes
<1> QED BY Zenon, <1>1, <1>2, <1>3, <1>4, <1>5, <1>6 DEF Rebuild

-----------------------------------------------------------------------------
(* The edits of a Mailbox/set *)

Following(ds) == ds \cup edits(ds)

\* The drafts after k edits at most, as a function that satisfies the equation of
\* drafts up to k.
DraftsTo(k, f) == f = [n \in 0 .. k |-> IF n = 0 THEN {unedited} ELSE Following(f[n - 1])]

\* Two numbers not in the order of < are in the order of <= the other way round.
LEMMA LessOrNot ==
    ASSUME NEW m \in Nat, NEW n \in Nat, ~(<<m, n>> \in {ss \in Nat \X Nat : ss[1] < ss[2]})
    PROVE  n <= m
  OBVIOUS

\* A non-empty set of numbers has a least member.
LEMMA Least ==
    ASSUME NEW S \in SUBSET Nat, S # {}
    PROVE  \E n \in S : \A m \in S : n <= m
<1>1. PICK n \in S : \A m \in S : ~(<<m, n>> \in OpToRel(<, Nat))
  BY Zenon, WFMin, NatLessThanWellFounded
<1>2. \A m \in S : ~(<<m, n>> \in {ss \in Nat \X Nat : ss[1] < ss[2]})
  BY Zenon, <1>1 DEF OpToRel
<1> QED BY Zenon, <1>2, LessOrNot

\* There is such a function for every k.
LEMMA DraftsExist == ASSUME NEW k \in Nat PROVE \E f : DraftsTo(k, f)
<1> DEFINE Bad == {n \in Nat : ~\E f : DraftsTo(n, f)}
<1> SUFFICES ASSUME Bad # {} PROVE FALSE
  BY Zenon
<1>1. PICK n \in Bad : \A m \in Bad : n <= m
  <2>1. Bad \in SUBSET Nat
    BY Zenon
  <2> QED BY Zenon, <2>1, Least
<1>2. n # 0
  <2> SUFFICES DraftsTo(0, [i \in 0 .. 0 |-> {unedited}])
    BY Zenon, <1>1
  <2> QED BY DEF DraftsTo
<1>3. n - 1 \in Nat /\ ~(n <= n - 1) /\ n \in Nat
  BY <1>1, <1>2
<1>4. n - 1 \notin Bad
  BY Zenon, <1>1, <1>3
<1>5. PICK f : DraftsTo(n - 1, f)
  BY Zenon, <1>3, <1>4
<1> DEFINE g == [i \in 0 .. n |-> IF i = n THEN Following(f[n - 1]) ELSE f[i]]
<1>6. DraftsTo(n, g)
  <2> SUFFICES ASSUME NEW i \in 0 .. n
               PROVE  g[i] = IF i = 0 THEN {unedited} ELSE Following(g[i - 1])
    BY Zenon DEF DraftsTo
  <2>1. CASE i = n
    <3>1. n - 1 \in 0 .. n /\ n - 1 # n /\ i # 0
      BY <1>2, <1>3, <2>1
    <3>2. g[i - 1] = f[n - 1]
      BY Zenon, <2>1, <3>1
    <3> QED BY Zenon, <2>1, <3>1, <3>2
  <2>2. CASE i # n
    <3>1. i \in 0 .. n - 1 /\ (i # 0 => i - 1 \in 0 .. n /\ i - 1 # n)
      BY <1>3, <2>2
    <3>2. f[i] = IF i = 0 THEN {unedited} ELSE Following(f[i - 1])
      BY Zenon, <1>5, <3>1 DEF DraftsTo
    <3>3. g[i] = f[i] /\ (i # 0 => g[i - 1] = f[i - 1])
      BY Zenon, <2>2, <3>1
    <3> QED BY Zenon, <3>2, <3>3
  <2> QED BY Zenon, <2>1, <2>2
<1> QED BY Zenon, <1>1, <1>6

\* drafts satisfies the equation that defines it.
LEMMA DraftsEquation == DraftsTo(MaxEdits, drafts)
<1>1. drafts = CHOOSE f : f = [n \in 0 .. MaxEdits |-> IF n = 0 THEN {unedited} ELSE f[n - 1] \cup edits(f[n - 1])]
  BY Zenon DEF drafts
<1>2. MaxEdits \in Nat
  BY JmapStateAssumption
<1> QED BY Zenon, <1>1, <1>2, DraftsExist DEF DraftsTo, Following

\* A create keeps the catalog well formed: the new mailbox has no children yet, so
\* it closes no cycle.
LEMMA CreateKeeps ==
    ASSUME NEW cat \in Catalogs, wellFormed(cat), NEW m \in Custom, NEW entry \in Entries,
           cat[m] = NoEntry, parentExists(cat, entry.parent), nameAvailable(cat, m, entry)
    PROVE  /\ [cat EXCEPT ![m] = entry] \in Catalogs
           /\ wellFormed([cat EXCEPT ![m] = entry])
           /\ live(cat) \subseteq live([cat EXCEPT ![m] = entry])
<1> DEFINE new == [cat EXCEPT ![m] = entry]
<1>1. new \in Catalogs
  BY Zenon DEF Catalogs
<1>2. new[m] = entry /\ \A n \in Custom \ {m} : new[n] = cat[n]
  BY Zenon DEF Catalogs
<1>3. entry # NoEntry
  BY Zenon, JmapStateAssumption
<1> HIDE DEF new
<1>4. live(new) = live(cat) \cup {m} /\ m \notin live(cat)
  <2>1. \A n \in Custom : n \in live(new) <=> n \in live(cat) \/ n = m
    BY Zenon, <1>2, <1>3 DEF live
  <2> QED BY Zenon, <2>1 DEF live
<1>5. ASSUME NEW n \in live(new)
      PROVE  parentExists(new, new[n].parent) /\ nameAvailable(new, n, new[n])
  <2>1. parentExists(new, new[n].parent)
    BY Zenon, <1>2, <1>4, <1>5 DEF wellFormed, parentExists, live
  <2>2. ASSUME NEW x \in Custom \ {n} PROVE new[x] # new[n]
    BY Zenon, <1>2, <1>4, <1>5 DEF wellFormed, nameAvailable, live
  <2>3. new[n].parent = Top => new[n].name \notin System
    BY Zenon, <1>2, <1>4, <1>5 DEF wellFormed, nameAvailable, live
  <2> QED BY Zenon, <2>1, <2>2, <2>3 DEF nameAvailable
<1>6. ASSUME NEW n \in live(new), NEW S \in SUBSET Custom, n \in S,
             \A x \in S : new[x] # NoEntry /\ new[x].parent \in S
      PROVE  FALSE
  <2>1. ASSUME NEW x \in S PROVE x \in live(new) /\ new[x].parent # m
    <3>1. x \in live(new)
      BY Zenon, <1>6 DEF live
    <3>2. m \notin System \cup {Top} \cup live(cat)
      BY Zenon, <1>4, JmapStateAssumption
    <3>3. parentExists(cat, new[x].parent)
      BY Zenon, <3>1, <1>2, <1>4 DEF wellFormed, live
    <3> QED BY Zenon, <3>1, <3>2, <3>3 DEF parentExists
  <2>2. PICK y \in S \ {m} : TRUE
    <3>1. n \in S /\ new[n].parent \in S /\ new[n].parent # m
      BY Zenon, <1>6, <2>1
    <3>2. n \in S \ {m} \/ new[n].parent \in S \ {m}
      BY Zenon, <3>1
    <3> QED BY Zenon, <3>2
  <2>3. \A x \in S \ {m} : cat[x] # NoEntry /\ cat[x].parent \in S \ {m}
    BY Zenon, <1>2, <1>6, <2>1
  <2>4. y \in live(cat) /\ S \ {m} \in SUBSET Custom
    BY Zenon, <2>2, <2>3 DEF live
  <2>5. parentCycle(cat, y)
    BY Zenon, <2>2, <2>3, <2>4 DEF parentCycle
  <2> QED BY Zenon, <2>4, <2>5 DEF wellFormed
<1>7. \A n \in live(new) : ~parentCycle(new, n)
  BY Zenon, <1>6 DEF parentCycle
<1>8. wellFormed(new) /\ live(cat) \subseteq live(new)
  BY Zenon, <1>4, <1>5, <1>7 DEF wellFormed
<1> QED BY Zenon, <1>1, <1>8 DEF new

\* An update keeps it well formed: hasJMAPMailboxParentCycle looks for a cycle
\* through the mailbox that moves, and any new one goes through it.
LEMMA UpdateKeeps ==
    ASSUME NEW cat \in Catalogs, wellFormed(cat), NEW m \in live(cat), NEW entry \in Entries,
           parentExists(cat, entry.parent), nameAvailable(cat, m, entry),
           ~parentCycle([cat EXCEPT ![m] = entry], m)
    PROVE  /\ [cat EXCEPT ![m] = entry] \in Catalogs
           /\ wellFormed([cat EXCEPT ![m] = entry])
           /\ live(cat) \subseteq live([cat EXCEPT ![m] = entry])
<1> DEFINE new == [cat EXCEPT ![m] = entry]
<1>0. m \in Custom
  BY Zenon DEF live
<1>1. new \in Catalogs
  BY Zenon, <1>0 DEF Catalogs
<1>2. new[m] = entry /\ \A n \in Custom \ {m} : new[n] = cat[n]
  BY Zenon, <1>0 DEF Catalogs
<1>3. entry # NoEntry
  BY Zenon, JmapStateAssumption
<1>9. ~parentCycle(new, m)
  BY Zenon
<1> HIDE DEF new
<1>4. live(new) = live(cat)
  BY Zenon, <1>0, <1>2, <1>3 DEF live
<1>5. ASSUME NEW n \in live(new)
      PROVE  parentExists(new, new[n].parent) /\ nameAvailable(new, n, new[n])
  <2>1. parentExists(new, new[n].parent)
    BY Zenon, <1>2, <1>4, <1>5 DEF wellFormed, parentExists, live
  <2>2. ASSUME NEW x \in Custom \ {n} PROVE new[x] # new[n]
    BY Zenon, <1>2, <1>4, <1>5 DEF wellFormed, nameAvailable, live
  <2>3. new[n].parent = Top => new[n].name \notin System
    BY Zenon, <1>2, <1>4, <1>5 DEF wellFormed, nameAvailable, live
  <2> QED BY Zenon, <2>1, <2>2, <2>3 DEF nameAvailable
<1>6. ASSUME NEW n \in live(new), NEW S \in SUBSET Custom, n \in S,
             \A x \in S : new[x] # NoEntry /\ new[x].parent \in S
      PROVE  FALSE
  <2>1. m \notin S
    BY Zenon, <1>6, <1>9 DEF parentCycle
  <2>2. \A x \in S : cat[x] # NoEntry /\ cat[x].parent \in S
    BY Zenon, <1>2, <1>6, <2>1
  <2>3. parentCycle(cat, n)
    BY Zenon, <1>6, <2>2 DEF parentCycle
  <2> QED BY Zenon, <1>4, <2>3 DEF wellFormed
<1>7. \A n \in live(new) : ~parentCycle(new, n)
  BY Zenon, <1>6 DEF parentCycle
<1>8. wellFormed(new) /\ live(cat) \subseteq live(new)
  BY Zenon, <1>4, <1>5, <1>7 DEF wellFormed
<1> QED BY Zenon, <1>1, <1>8 DEF new

\* A destroy keeps it well formed: the mailbox has no children, and only it goes.
LEMMA DestroyKeeps ==
    ASSUME NEW cat \in Catalogs, wellFormed(cat), NEW m \in live(cat),
           \A n \in live(cat) : cat[n].parent # m
    PROVE  /\ [cat EXCEPT ![m] = NoEntry] \in Catalogs
           /\ wellFormed([cat EXCEPT ![m] = NoEntry])
           /\ live(cat) \ {m} \subseteq live([cat EXCEPT ![m] = NoEntry])
<1> DEFINE new == [cat EXCEPT ![m] = NoEntry]
<1>0. m \in Custom
  BY Zenon DEF live
<1>1. new \in Catalogs
  BY Zenon, <1>0 DEF Catalogs
<1>2. new[m] = NoEntry /\ \A n \in Custom \ {m} : new[n] = cat[n]
  BY Zenon, <1>0 DEF Catalogs
<1> HIDE DEF new
<1>4. live(new) = live(cat) \ {m}
  BY Zenon, <1>0, <1>2 DEF live
<1>5. ASSUME NEW n \in live(new)
      PROVE  parentExists(new, new[n].parent) /\ nameAvailable(new, n, new[n])
  <2>0. n \in Custom \ {m} /\ n \in live(cat) /\ new[n] = cat[n]
    BY Zenon, <1>2, <1>4, <1>5 DEF live
  <2>1. parentExists(new, new[n].parent)
    BY Zenon, <1>4, <2>0 DEF wellFormed, parentExists
  <2>2. ASSUME NEW x \in Custom \ {n} PROVE new[x] # new[n]
    BY Zenon, <1>2, <2>0 DEF wellFormed, nameAvailable, live
  <2>3. new[n].parent = Top => new[n].name \notin System
    BY Zenon, <2>0 DEF wellFormed, nameAvailable
  <2> QED BY Zenon, <2>1, <2>2, <2>3 DEF nameAvailable
<1>6. ASSUME NEW n \in live(new), NEW S \in SUBSET Custom, n \in S,
             \A x \in S : new[x] # NoEntry /\ new[x].parent \in S
      PROVE  FALSE
  <2>1. m \notin S
    BY Zenon, <1>2, <1>6
  <2>2. \A x \in S : cat[x] # NoEntry /\ cat[x].parent \in S
    BY Zenon, <1>2, <1>6, <2>1
  <2>3. parentCycle(cat, n)
    BY Zenon, <1>6, <2>2 DEF parentCycle
  <2> QED BY Zenon, <1>4, <2>3 DEF wellFormed
<1>7. \A n \in live(new) : ~parentCycle(new, n)
  BY Zenon, <1>6 DEF parentCycle
<1>8. wellFormed(new) /\ live(cat) \ {m} \subseteq live(new)
  BY Zenon, <1>4, <1>5, <1>7 DEF wellFormed
<1> QED BY Zenon, <1>1, <1>8 DEF new

\* What every draft of a Mailbox/set is: a well-formed catalog that still has the
\* mailboxes with mail.
DraftOK(d) ==
    d.cat \in Catalogs /\ wellFormed(d.cat) /\ live(mset.draft) \cap mset.full \subseteq live(d.cat)

\* The parts of a pair.
LEMMA PairParts == ASSUME NEW A, NEW B, NEW c \in A \X B PROVE c[1] \in A /\ c[2] \in B
  BY Zenon

\* Each edit keeps a draft so.
LEMMA EditKeeps ==
    ASSUME NEW d, DraftOK(d), NEW x \in creates(d) \cup updates(d) \cup destroys(d)
    PROVE  DraftOK(x)
<1>1. CASE x \in creates(d)
  <2>1. PICK c \in (Custom \ d.edited) \X Entries :
          /\ x = change(d, 0, c[1], c[2])
          /\ d.cat[c[1]] = NoEntry
          /\ parentExists(d.cat, c[2].parent)
          /\ nameAvailable(d.cat, c[1], c[2])
    BY Zenon, <1>1 DEF creates
  <2>2. c[1] \in Custom /\ c[2] \in Entries
    BY Zenon, <2>1, PairParts
  <2>3. PICK m \in Custom, entry \in Entries :
          /\ x = change(d, 0, m, entry)
          /\ d.cat[m] = NoEntry
          /\ parentExists(d.cat, entry.parent)
          /\ nameAvailable(d.cat, m, entry)
    BY Zenon, <2>1, <2>2
  <2>4. x.cat = [d.cat EXCEPT ![m] = entry]
    BY Zenon, <2>3 DEF change
  <2>5. d.cat \in Catalogs /\ wellFormed(d.cat)
    BY Zenon DEF DraftOK
  <2>6. x.cat \in Catalogs /\ wellFormed(x.cat) /\ live(d.cat) \subseteq live(x.cat)
    BY <2>3, <2>4, <2>5, CreateKeeps
  <2> QED BY Zenon, <2>6 DEF DraftOK
<1>2. CASE x \in updates(d)
  <2>1. PICK c \in (live(d.cat) \ d.edited) \X Entries :
          /\ x = change(d, 1, c[1], c[2])
          /\ parentExists(d.cat, c[2].parent)
          /\ nameAvailable(d.cat, c[1], c[2])
          /\ ~parentCycle([d.cat EXCEPT ![c[1]] = c[2]], c[1])
    BY Zenon, <1>2 DEF updates
  <2>2. c[1] \in live(d.cat) /\ c[2] \in Entries
    BY Zenon, <2>1, PairParts
  <2>3. PICK m \in live(d.cat), entry \in Entries :
          /\ x = change(d, 1, m, entry)
          /\ parentExists(d.cat, entry.parent)
          /\ nameAvailable(d.cat, m, entry)
          /\ ~parentCycle([d.cat EXCEPT ![m] = entry], m)
    BY Zenon, <2>1, <2>2
  <2>4. x.cat = [d.cat EXCEPT ![m] = entry]
    BY Zenon, <2>3 DEF change
  <2>5. d.cat \in Catalogs /\ wellFormed(d.cat)
    BY Zenon DEF DraftOK
  <2>6. x.cat \in Catalogs /\ wellFormed(x.cat) /\ live(d.cat) \subseteq live(x.cat)
    BY <2>3, <2>4, <2>5, UpdateKeeps
  <2> QED BY Zenon, <2>6 DEF DraftOK
<1>3. CASE x \in destroys(d)
  <2>1. PICK m \in live(d.cat) \ (d.edited \cup mset.full) :
          /\ x = change(d, 2, m, NoEntry)
          /\ \A n \in live(d.cat) : d.cat[n].parent # m
    BY Zenon, <1>3 DEF destroys
  <2>2. x.cat = [d.cat EXCEPT ![m] = NoEntry]
    BY Zenon, <2>1 DEF change
  <2> QED BY Zenon, <2>1, <2>2, DestroyKeeps DEF DraftOK
<1> QED BY Zenon, <1>1, <1>2, <1>3

\* The catalogs a Mailbox/set may write are well formed and keep the mailboxes
\* that had mail, however many edits it makes.
LEMMA EditedKept ==
    ASSUME mset.draft \in Catalogs, wellFormed(mset.draft), NEW cat \in edited
    PROVE  cat \in Catalogs /\ wellFormed(cat) /\ live(mset.draft) \cap mset.full \subseteq live(cat)
<1> DEFINE Bad == {n \in 0 .. MaxEdits : \E d \in drafts[n] : ~DraftOK(d)}
<1>1. MaxEdits \in Nat
  BY Zenon, JmapStateAssumption
<1>2. \A n \in 0 .. MaxEdits : drafts[n] = IF n = 0 THEN {unedited} ELSE Following(drafts[n - 1])
  BY Zenon, DraftsEquation DEF DraftsTo
<1>3. ASSUME Bad # {} PROVE FALSE
  <2>1. Bad \in SUBSET Nat
    BY <1>1
  <2>2. PICK n \in Bad : \A m \in Bad : n <= m
    BY Zenon, <1>3, <2>1, Least
  <2>3. PICK d \in drafts[n] : ~DraftOK(d)
    BY Zenon, <2>2
  <2>4. n # 0
    <3>1. unedited.cat = mset.draft
      BY Zenon DEF unedited
    <3>2. DraftOK(unedited)
      BY Zenon, <3>1 DEF DraftOK
    <3> QED BY Zenon, <1>2, <2>2, <2>3, <3>2
  <2>5. n - 1 \in 0 .. MaxEdits /\ ~(n <= n - 1)
    BY <1>1, <2>2, <2>4
  <2>6. \A y \in drafts[n - 1] : DraftOK(y)
    BY Zenon, <2>2, <2>5
  <2>7. d \in drafts[n - 1] \/ \E y \in drafts[n - 1] : d \in creates(y) \cup updates(y) \cup destroys(y)
    <3>1. drafts[n] = drafts[n - 1] \cup edits(drafts[n - 1])
      BY Zenon, <1>2, <2>2, <2>4 DEF Following
    <3> QED BY <2>3, <3>1 DEF edits
  <2> QED BY Zenon, <2>3, <2>6, <2>7, EditKeeps
<1>4. MaxEdits \in 0 .. MaxEdits
  BY <1>1
<1>5. PICK d \in drafts[MaxEdits] : cat = d.cat
  BY Zenon DEF edited
<1>6. DraftOK(d)
  BY Zenon, <1>3, <1>4, <1>5
<1> QED BY Zenon, <1>5, <1>6 DEF DraftOK

-----------------------------------------------------------------------------
(* What the steps do to the calls, the refreshes and the rebuild *)

\* The rebuild goes from one place to the next.
LEMMA RebuildMoves ==
    ASSUME JmapTypes
    PROVE  /\ truncate => rb'.at = "walk" /\ rb'.todo = Emails
           /\ \A e \in Emails : walkProjection(e) =>
                 /\ rb'.at = "loaded" /\ rb'.email = e /\ rb'.snap = overlay[e]
                 /\ ~rb'.old /\ rb'.todo = rb.todo \ {e}
           /\ projectIndexObject /\ projectable(rb.snap) => rb'.at = "walk" /\ rb'.todo = rb.todo
           /\ projectIndexObject /\ ~projectable(rb.snap) => rb'.at = "failed"
           /\ walkSourceCursors => rb'.at = "catalog" /\ rb'.cat = cursor /\ ~rb'.old /\ rb'.todo = {}
           /\ ProjectSourceCursor => rb'.at \in {"idle", "failed"}
<1>1. rb \in Rebuilds
  BY Zenon DEF JmapTypes, RebuildTypes
<1>2. truncate => rb'.at = "walk" /\ rb'.todo = Emails
  BY Zenon DEF truncate, noRebuild
<1>3. \A e \in Emails : walkProjection(e) =>
        /\ rb'.at = "loaded" /\ rb'.email = e /\ rb'.snap = overlay[e]
        /\ ~rb'.old /\ rb'.todo = rb.todo \ {e}
  BY <1>1 DEF walkProjection, Rebuilds
<1>4. projectIndexObject /\ projectable(rb.snap) => rb'.at = "walk" /\ rb'.todo = rb.todo
  BY Zenon, <1>1 DEF projectIndexObject, Rebuilds
<1>5. projectIndexObject /\ ~projectable(rb.snap) => rb'.at = "failed"
  BY Zenon DEF projectIndexObject, noRebuild
<1>6. walkSourceCursors => rb'.at = "catalog" /\ rb'.cat = cursor /\ ~rb'.old /\ rb'.todo = {}
  BY Zenon, <1>1 DEF walkSourceCursors, Rebuilds
<1>7. ProjectSourceCursor => rb'.at \in {"idle", "failed"}
  BY DEF ProjectSourceCursor, noRebuild
<1> QED BY Zenon, <1>2, <1>3, <1>4, <1>5, <1>6, <1>7

\* A write to FILESTORE only makes old what the rebuild has read of it.
LEMMA RebuildAges ==
    ASSUME JmapTypes
    PROVE  /\ \A h \in Handlers : WriteOverlays(h) =>
                 /\ rb'.at = rb.at /\ rb'.todo = rb.todo /\ rb'.email = rb.email
                 /\ rb'.snap = rb.snap /\ rb'.cat = rb.cat
                 /\ rb'.old <=> rb.old \/ (rb.at = "loaded" /\ rb.email = eset[h].email)
           /\ WriteSourceCursor =>
                 /\ rb'.at = rb.at /\ rb'.todo = rb.todo /\ rb'.email = rb.email
                 /\ rb'.snap = rb.snap /\ rb'.cat = rb.cat
                 /\ rb'.old <=> rb.old \/ rb.at = "catalog"
<1>1. rb \in Rebuilds
  BY Zenon DEF JmapTypes, RebuildTypes
<1>2. ASSUME NEW b \in BOOLEAN, rb' = [rb EXCEPT !.old = @ \/ b]
      PROVE  /\ rb'.at = rb.at /\ rb'.todo = rb.todo /\ rb'.email = rb.email
             /\ rb'.snap = rb.snap /\ rb'.cat = rb.cat
             /\ rb'.old <=> rb.old \/ b
  BY Zenon, <1>1, <1>2 DEF Rebuilds
<1>3. ASSUME NEW h \in Handlers, WriteOverlays(h)
      PROVE  /\ rb'.at = rb.at /\ rb'.todo = rb.todo /\ rb'.email = rb.email
             /\ rb'.snap = rb.snap /\ rb'.cat = rb.cat
             /\ rb'.old <=> rb.old \/ (rb.at = "loaded" /\ rb.email = eset[h].email)
  BY Zenon, <1>2, <1>3 DEF WriteOverlays
<1>4. ASSUME WriteSourceCursor
      PROVE  /\ rb'.at = rb.at /\ rb'.todo = rb.todo /\ rb'.email = rb.email
             /\ rb'.snap = rb.snap /\ rb'.cat = rb.cat
             /\ rb'.old <=> rb.old \/ rb.at = "catalog"
  BY Zenon, <1>2, <1>4 DEF WriteSourceCursor
<1> QED BY Zenon, <1>3, <1>4

\* A Mailbox/set goes from one place to the next.
LEMMA MsetMoves ==
    ASSUME JmapTypes
    PROVE  /\ JMAPMailboxes =>
                 mset'.at = "read" /\ mset'.draft = rows /\ (mset'.risky <=> behind)
           /\ JMAPMailboxEmailCounts =>
                 /\ mset # NoEntry /\ mset.at = "read" /\ mset'.at = "counted"
                 /\ mset'.draft = mset.draft /\ (mset'.risky <=> mset.risky)
                 /\ mset'.full = {m \in Custom : \E e \in Emails : members[e] # NoEntry /\ m \in members[e]}
           /\ WriteSourceCursor =>
                 /\ mset # NoEntry /\ mset.at = "counted" /\ cursor' \in edited
                 /\ mset'.at = "written" /\ mset'.draft = cursor'
<1>1. mset # NoEntry => mset \in MailboxSets
  BY Zenon DEF JmapTypes, MsetTypes
<1>2. JMAPMailboxes => mset'.at = "read" /\ mset'.draft = rows /\ (mset'.risky <=> behind)
  BY DEF JMAPMailboxes
<1>3. JMAPMailboxEmailCounts =>
        /\ mset # NoEntry /\ mset.at = "read" /\ mset'.at = "counted"
        /\ mset'.draft = mset.draft /\ (mset'.risky <=> mset.risky)
        /\ mset'.full = {m \in Custom : \E e \in Emails : members[e] # NoEntry /\ m \in members[e]}
  BY Zenon, <1>1 DEF JMAPMailboxEmailCounts, MailboxSets
<1>4. ASSUME WriteSourceCursor
      PROVE  /\ mset # NoEntry /\ mset.at = "counted" /\ cursor' \in edited
             /\ mset'.at = "written" /\ mset'.draft = cursor'
  <2>1. PICK cat \in edited : cursor' = cat /\ mset' = [mset EXCEPT !.at = "written", !.draft = cat, !.full = {}]
    BY Zenon, <1>4 DEF WriteSourceCursor
  <2>2. mset # NoEntry /\ mset.at = "counted"
    BY Zenon, <1>4 DEF WriteSourceCursor
  <2> QED BY <1>1, <2>1, <2>2 DEF MailboxSets
<1> QED BY Zenon, <1>2, <1>3, <1>4

\* An Email/set starts with what it has read.
LEMMA EsetReads ==
    ASSUME JmapTypes, NEW h \in Handlers, NEW e \in Emails, NEW p \in Patches, JMAPEmailStates(h, e, p)
    PROVE  /\ eset[h] = NoEntry
           /\ eset'[h] # NoEntry => /\ eset'[h].at = "read" /\ eset'[h].email = e /\ eset'[h].patch = p
                                    /\ eset'[h].update = applyJMAPBoolMap(visible(members[e]), p)
                                    /\ ~eset'[h].old /\ (eset'[h].stale <=> behind \/ e \in outdated)
           /\ \A g \in Handlers \ {h} : eset'[g] = eset[g]
<1> DEFINE update == applyJMAPBoolMap(visible(members[e]), p)
<1> DEFINE call == [at |-> "read", email |-> e, patch |-> p, update |-> update, old |-> FALSE,
                    stale |-> behind \/ e \in outdated]
<1>1. eset[h] = NoEntry /\ eset' = [eset EXCEPT ![h] = call]
  BY Zenon DEF JMAPEmailStates
<1>2. call.at = "read" /\ call.email = e /\ call.patch = p /\ call.update = update
      /\ ~call.old /\ (call.stale <=> behind \/ e \in outdated)
  BY Zenon
<1> HIDE DEF call
<1>3. eset'[h] = call /\ \A g \in Handlers \ {h} : eset'[g] = eset[g]
  BY Zenon, <1>1 DEF JmapTypes, EsetTypes
<1> QED BY Zenon, <1>1, <1>2, <1>3

\* What an Email/set keeps when another one marks it.
sameCall(g) ==
    /\ eset[g] # NoEntry
    /\ eset'[g].email = eset[g].email /\ eset'[g].patch = eset[g].patch /\ eset'[g].update = eset[g].update

\* WriteOverlays makes old what the other Email/sets of the email have written.
LEMMA EsetWrites ==
    ASSUME JmapTypes, NEW h \in Handlers, WriteOverlays(h)
    PROVE  /\ eset[h] \in EmailSets /\ eset[h] # NoEntry /\ eset[h].at = "read"
           /\ sameCall(h) /\ eset'[h].at = "written" /\ (eset'[h].old <=> eset[h].old)
           /\ \A g \in Handlers \ {h} :
                 \/ eset'[g] = eset[g] /\ g \notin others(h, eset[h].email, "written")
                 \/ /\ g \in others(h, eset[h].email, "written") /\ sameCall(g)
                    /\ eset'[g].at = "written" /\ eset'[g].old
<1>1. eset[h] \in EmailSets /\ eset[h] # NoEntry /\ eset[h].at = "read"
  BY Zenon DEF WriteOverlays, JmapTypes, EsetTypes
<1>2. \A g \in Handlers : eset'[g] =
        IF g = h THEN [eset[g] EXCEPT !.at = "written"]
        ELSE IF g \in others(h, eset[h].email, "written") THEN [eset[g] EXCEPT !.old = TRUE] ELSE eset[g]
  BY Zenon DEF WriteOverlays
<1>3. sameCall(h) /\ eset'[h].at = "written" /\ (eset'[h].old <=> eset[h].old)
  BY Zenon, <1>1, <1>2 DEF EmailSets, sameCall
<1>4. ASSUME NEW g \in Handlers \ {h}, g \in others(h, eset[h].email, "written")
      PROVE  sameCall(g) /\ eset'[g].at = "written" /\ eset'[g].old
  <2>1. eset[g] # NoEntry /\ eset[g].at = "written"
    BY Zenon, <1>4 DEF others
  <2>2. eset[g] \in EmailSets
    BY Zenon, <2>1 DEF JmapTypes, EsetTypes
  <2>3. eset'[g] = [eset[g] EXCEPT !.old = TRUE]
    BY Zenon, <1>2, <1>4
  <2> QED BY <2>1, <2>2, <2>3 DEF EmailSets, sameCall
<1> QED BY Zenon, <1>1, <1>2, <1>3, <1>4

\* UpdateJMAPEmailState ends the call; if it wrote, what others have read is stale.
LEMMA EsetEnds ==
    ASSUME JmapTypes, NEW h \in Handlers, UpdateJMAPEmailState(h) \/ emailSetFails(h)
    PROVE  /\ eset[h] \in EmailSets /\ eset[h] # NoEntry /\ eset'[h] = NoEntry
           /\ \A g \in Handlers \ {h} :
                 \/ eset'[g] = eset[g]
                 \/ /\ g \in others(h, eset[h].email, "read") /\ sameCall(g) /\ eset'[g].at = "read"
                    /\ eset'[g].stale /\ (eset'[g].old <=> eset[g].old)
<1>1. eset[h] \in EmailSets /\ eset[h] # NoEntry
  BY Zenon DEF UpdateJMAPEmailState, emailSetFails, JmapTypes, EsetTypes
<1>2. eset'[h] = NoEntry /\ \A g \in Handlers \ {h} :
        \/ eset'[g] = eset[g]
        \/ g \in others(h, eset[h].email, "read") /\ eset'[g] = [eset[g] EXCEPT !.stale = TRUE]
  BY Zenon DEF UpdateJMAPEmailState, emailSetFails, JmapTypes, EsetTypes
<1>3. ASSUME NEW g \in Handlers \ {h}, g \in others(h, eset[h].email, "read"),
             eset'[g] = [eset[g] EXCEPT !.stale = TRUE]
      PROVE  sameCall(g) /\ eset'[g].at = "read" /\ eset'[g].stale /\ (eset'[g].old <=> eset[g].old)
  <2>1. eset[g] # NoEntry /\ eset[g].at = "read"
    BY Zenon, <1>3 DEF others
  <2>2. eset[g] \in EmailSets
    BY Zenon, <2>1 DEF JmapTypes, EsetTypes
  <2> QED BY <1>3, <2>1, <2>2 DEF EmailSets, sameCall
<1> QED BY Zenon, <1>1, <1>2, <1>3

\* A refresh goes from one place to the next.
LEMMA PendMoves ==
    ASSUME JmapTypes, NEW e \in Emails
    PROVE  /\ NotifyObjectsChanged(e) =>
                 /\ \A x \in Emails \ {e} : pend'[x] = pend[x]
                 /\ IF pend[e].at = "none" THEN pend'[e].at = "queued" ELSE pend'[e] = pend[e]
           /\ ProjectionObject(e) =>
                 /\ \A x \in Emails \ {e} : pend'[x] = pend[x]
                 /\ pend'[e].at = "read" /\ pend'[e].snap = overlay[e] /\ ~pend'[e].old
           /\ ProjectObject(e) =>
                 /\ \A x \in Emails \ {e} : pend'[x] = pend[x]
                 /\ pend'[e].at = IF projectable(pend[e].snap) THEN "none" ELSE "queued"
           /\ refreshFails(e) =>
                 /\ \A x \in Emails \ {e} : pend'[x] = pend[x]
                 /\ pend'[e].at = "queued"
           /\ wipe => pend'[e].at = IF pend[e].at = "none" THEN "none" ELSE "queued"
<1>1. pend[e] \in Refreshes /\ pend \in [Emails -> Refreshes]
  BY Zenon DEF JmapTypes, RefreshTypes
<1>2. NotifyObjectsChanged(e) =>
        /\ \A x \in Emails \ {e} : pend'[x] = pend[x]
        /\ IF pend[e].at = "none" THEN pend'[e].at = "queued" ELSE pend'[e] = pend[e]
  BY <1>1 DEF NotifyObjectsChanged, Refreshes
<1>3. ProjectionObject(e) =>
        /\ \A x \in Emails \ {e} : pend'[x] = pend[x]
        /\ pend'[e].at = "read" /\ pend'[e].snap = overlay[e] /\ ~pend'[e].old
  BY <1>1 DEF ProjectionObject
<1>4. ProjectObject(e) =>
        /\ \A x \in Emails \ {e} : pend'[x] = pend[x]
        /\ pend'[e].at = IF projectable(pend[e].snap) THEN "none" ELSE "queued"
  BY <1>1 DEF ProjectObject, noRefresh
<1>5. wipe => pend'[e].at = IF pend[e].at = "none" THEN "none" ELSE "queued"
  BY <1>1 DEF wipe, noRefresh
<1>6. refreshFails(e) => (\A x \in Emails \ {e} : pend'[x] = pend[x]) /\ pend'[e].at = "queued"
  BY <1>1 DEF refreshFails, noRefresh
<1> QED BY Zenon, <1>2, <1>3, <1>4, <1>5, <1>6

\* WriteOverlays makes old what a refresh has read of the email.
LEMMA PendAges ==
    ASSUME JmapTypes, NEW h \in Handlers, WriteOverlays(h), NEW e \in Emails
    PROVE  /\ pend'[e].at = pend[e].at /\ pend'[e].snap = pend[e].snap
           /\ pend'[e].old <=> IF e = eset[h].email THEN pend[e].at = "read" ELSE pend[e].old
<1>1. pend[e] \in Refreshes /\ pend \in [Emails -> Refreshes]
  BY Zenon DEF JmapTypes, RefreshTypes
<1>2. pend' = [pend EXCEPT ![eset[h].email].old = (pend[eset[h].email].at = "read")]
  BY Zenon DEF WriteOverlays
<1>3. CASE e = eset[h].email
  <2>1. pend'[e] = [pend[e] EXCEPT !.old = (pend[e].at = "read")]
    BY Zenon, <1>1, <1>2, <1>3
  <2> QED BY Zenon, <1>1, <1>3, <2>1 DEF Refreshes
<1>4. CASE e # eset[h].email
  <2>1. pend'[e] = pend[e]
    BY Zenon, <1>1, <1>2, <1>4
  <2> QED BY Zenon, <1>4, <2>1
<1> QED BY Zenon, <1>3, <1>4

-----------------------------------------------------------------------------
(* The mailbox catalogs *)

\* Nothing happens to the catalogs or to the copies of them.
LEMMA CatalogsStay ==
    ASSUME CatalogsOK, UNCHANGED <<cursor, rows, acked, behind, mset>>,
           rb'.at = "catalog" => rb.at = "catalog" /\ rb'.cat = rb.cat /\ (rb'.old <=> rb.old)
    PROVE  CatalogsOK'
  BY Zenon DEF CatalogsOK

\* An empty catalog is well formed.
LEMMA EmptyWellFormed == wellFormed(noCatalog) /\ live(noCatalog) = {}
<1>1. live(noCatalog) = {}
  BY Zenon DEF live, noCatalog
<1> QED BY Zenon, <1>1 DEF wellFormed

\* Mailbox/set: what is acknowledged was in the catalog it read, and is in the one
\* it writes unless it is destroyed.
LEMMA MailboxSetCatalogs ==
    ASSUME JmapTypes, CatalogsOK, MailboxSet
    PROVE  CatalogsOK'
<1> USE DEF overlayVars, queryVars, catalogAux
<1>1. CASE JMAPMailboxes
  <2>1. UNCHANGED <<cursor, rows, acked, behind, rb>>
    BY Zenon, <1>1 DEF JMAPMailboxes
  <2>2. mset'.at = "read" /\ mset'.draft = rows /\ (mset'.risky <=> behind)
    BY Zenon, <1>1, MsetMoves
  <2>3. mset'.at # "written"
    BY <2>2
  <2> QED BY Zenon, <2>1, <2>2, <2>3 DEF CatalogsOK
<1>2. CASE JMAPMailboxEmailCounts
  <2>1. UNCHANGED <<cursor, rows, acked, behind, rb>>
    BY Zenon, <1>2 DEF JMAPMailboxEmailCounts
  <2>2. mset # NoEntry /\ mset.at # "written" /\ mset'.at # "written"
        /\ mset'.draft = mset.draft /\ (mset'.risky <=> mset.risky)
    BY <1>2, MsetMoves
  <2> QED BY Zenon, <2>1, <2>2 DEF CatalogsOK
<1>3. CASE WriteSourceCursor
  <2>1. UNCHANGED <<rows, behind>>
    BY Zenon, <1>3 DEF WriteSourceCursor
  <2>2. mset # NoEntry /\ mset.at # "written" /\ cursor' \in edited /\ mset'.at = "written"
        /\ mset'.draft = cursor'
    BY Zenon, <1>3, MsetMoves
  <2>3. mset.draft \in Catalogs /\ wellFormed(mset.draft)
    <3>1. mset \in MailboxSets
      BY Zenon, <2>2 DEF JmapTypes, MsetTypes
    <3>2. mset.draft \in Catalogs
      BY <3>1 DEF MailboxSets, Catalogs
    <3> QED BY Zenon, <2>2, <3>2 DEF CatalogsOK
  <2>4. wellFormed(cursor')
    BY Zenon, <2>2, <2>3, EditedKept
  <2>5. acked' = IF mset.risky THEN acked \cap live(cursor') ELSE acked \ (live(mset.draft) \ live(cursor'))
    BY Zenon, <1>3 DEF WriteSourceCursor
  <2>6. acked' \subseteq live(cursor') /\ acked' \subseteq acked
    BY Zenon, <2>2, <2>5 DEF CatalogsOK
  <2>7. rb'.at = "catalog" => rb.at = "catalog" /\ rb'.cat = rb.cat /\ rb'.old
    BY Zenon, <1>3, RebuildAges
  <2> QED BY Zenon, <2>1, <2>2, <2>4, <2>6, <2>7 DEF CatalogsOK
<1>4. CASE UpdateJMAPMailboxCatalog
  <2>1. mset # NoEntry /\ mset.at = "written" /\ mset' = NoEntry /\ UNCHANGED <<cursor, rb>>
    BY Zenon, <1>4 DEF UpdateJMAPMailboxCatalog
  <2>2. \/ rows' = mset.draft /\ acked' = live(mset.draft)
        \/ UNCHANGED <<rows, acked, behind>>
    BY Zenon, <1>4 DEF UpdateJMAPMailboxCatalog, projectCatalog
  <2>3. cursor = mset.draft
    BY Zenon, <2>1 DEF CatalogsOK
  <2> QED BY Zenon, <2>1, <2>2, <2>3 DEF CatalogsOK
<1>5. CASE mailboxSetFails
  BY Zenon, <1>5 DEF mailboxSetFails, CatalogsOK
<1> QED BY Zenon, <1>1, <1>2, <1>3, <1>4, <1>5 DEF MailboxSet

\* Rebuild: what it projects is the cursor, or QUERY is behind from then on.
LEMMA RebuildCatalogs ==
    ASSUME JmapTypes, CatalogsOK, Rebuild \/ wipe
    PROVE  CatalogsOK'
<1> USE DEF overlayVars, queryVars, catalogAux
<1>1. CASE truncate
  <2>1. rb'.at # "catalog"
    BY Zenon, <1>1, RebuildMoves
  <2>2. UNCHANGED <<cursor, rows, acked, behind, mset>>
    BY Zenon, <1>1 DEF truncate
  <2> QED BY Zenon, <2>1, <2>2, CatalogsStay
<1>2. ASSUME NEW e \in Emails, walkProjection(e) PROVE CatalogsOK'
  <2>1. rb'.at # "catalog"
    BY Zenon, <1>2, RebuildMoves
  <2>2. UNCHANGED <<cursor, rows, acked, behind, mset>>
    BY Zenon, <1>2 DEF walkProjection
  <2> QED BY Zenon, <2>1, <2>2, CatalogsStay
<1>3. CASE projectIndexObject
  <2>1. rb'.at # "catalog"
    BY Zenon, <1>3, RebuildMoves
  <2>2. UNCHANGED <<cursor, rows, acked, behind, mset>>
    BY Zenon, <1>3 DEF projectIndexObject
  <2> QED BY Zenon, <2>1, <2>2, CatalogsStay
<1>4. CASE walkSourceCursors
  <2>1. UNCHANGED <<cursor, rows, acked, behind, mset>>
    BY Zenon, <1>4 DEF walkSourceCursors
  <2>2. rb'.cat = cursor
    BY Zenon, <1>4, RebuildMoves
  <2> QED BY Zenon, <2>1, <2>2 DEF CatalogsOK
<1>5. CASE ProjectSourceCursor
  <2>1. rb.at = "catalog" /\ UNCHANGED <<cursor, acked, mset>>
    BY Zenon, <1>5 DEF ProjectSourceCursor
  <2>2. rb'.at # "catalog"
    BY Zenon, <1>5, RebuildMoves
  <2>3. \/ rows' = rb.cat /\ behind' = rb.old
        \/ UNCHANGED <<rows, behind>>
    BY Zenon, <1>5 DEF ProjectSourceCursor, projectCatalog
  <2>4. wellFormed(rb.cat) /\ (rb.old \/ rb.cat = cursor)
    BY Zenon, <2>1 DEF CatalogsOK
  <2> QED BY Zenon, <2>1, <2>2, <2>3, <2>4 DEF CatalogsOK
<1>6. CASE wipe
  <2>1. rb'.at # "catalog"
    BY Zenon, <1>6 DEF wipe
  <2>2. UNCHANGED <<cursor, acked>> /\ behind' = TRUE /\ mset' = NoEntry /\ rows' = noCatalog
    BY Zenon, <1>6 DEF wipe
  <2> QED BY Zenon, <2>1, <2>2, EmptyWellFormed DEF CatalogsOK
<1> QED BY Zenon, <1>1, <1>2, <1>3, <1>4, <1>5, <1>6 DEF Rebuild

\* No other step touches the catalogs.
LEMMA CatalogsStep ==
    ASSUME JmapTypes, CatalogsOK, JmapNext
    PROVE  CatalogsOK'
<1> USE DEF overlayVars, queryVars, catalogAux
<1>1. ASSUME NEW h \in Handlers, EmailSet(h) PROVE CatalogsOK'
  <2>1. UNCHANGED <<cursor, rows, acked, behind, mset>>
    BY Zenon, <1>1 DEF EmailSet, JMAPEmailStates, WriteOverlays, UpdateJMAPEmailState, emailSetFails
  <2>2. rb'.at = rb.at /\ rb'.cat = rb.cat /\ (rb.at = "catalog" => (rb'.old <=> rb.old))
    <3>1. CASE WriteOverlays(h)
      BY Zenon, <3>1, RebuildAges
    <3>2. CASE ~WriteOverlays(h)
      <4>1. rb' = rb
        BY Zenon, <1>1, <3>2 DEF EmailSet, JMAPEmailStates, UpdateJMAPEmailState, emailSetFails
      <4> QED BY Zenon, <4>1
    <3> QED BY Zenon, <3>1, <3>2
  <2> QED BY Zenon, <2>1, <2>2, CatalogsStay
<1>2. ASSUME NEW e \in Emails, Refresh(e) PROVE CatalogsOK'
  <2>1. UNCHANGED <<cursor, rows, acked, behind, mset, rb>>
    BY Zenon, <1>2 DEF Refresh, objectChanged, noticeLost, refreshFails, NotifyObjectsChanged, ProjectionObject, ProjectObject
  <2> QED BY Zenon, <2>1, CatalogsStay
<1> QED BY Zenon, <1>1, <1>2, MailboxSetCatalogs, RebuildCatalogs DEF JmapNext

-----------------------------------------------------------------------------
(* Copies of the overlays *)

\* Projecting the latest overlay shows it; without one, the defaults.
LEMMA SeededCurrent ==
    ASSUME NEW e \in Emails, Untouched(e)
    PROVE  seeded(e, overlay[e]) = current(e)
<1>1. CASE overlay[e] # NoEntry
  BY Zenon, <1>1 DEF seeded, current
<1>2. CASE overlay[e] = NoEntry
  <2>1. members[e] = NoEntry \/ members[e] = Defaults
    BY Zenon, <1>2 DEF Untouched
  <2>2. Defaults \cup (Defaults \cap Keywords) = Defaults
    BY Zenon
  <2> QED BY Zenon, <1>2, <2>1, <2>2 DEF seeded, current
<1> QED BY Zenon, <1>1, <1>2

\* Rows written from a copy: the email had an overlay, or gets the defaults.
LEMMA WrittenUntouched ==
    ASSUME JmapTypes, NEW e \in Emails, Untouched(e), NEW snap, overlay[e] = NoEntry => snap = NoEntry
    PROVE  overlay[e] = NoEntry => seeded(e, snap) = Defaults
  BY Zenon, SeededCurrent DEF current

\* Mailbox/set touches no copy.
LEMMA MailboxSetCopies ==
    ASSUME JmapTypes, CopiesOK, MailboxSet
    PROVE  CopiesOK'
<1>1. UNCHANGED <<overlay, members, eset, pend>>
  BY Zenon DEF MailboxSet, JMAPMailboxes, JMAPMailboxEmailCounts, WriteSourceCursor,
     UpdateJMAPMailboxCatalog, mailboxSetFails, overlayVars, queryVars, refreshVars
<1>2. rb'.at = rb.at /\ rb'.email = rb.email /\ rb'.snap = rb.snap /\ (rb.at = "loaded" => (rb'.old <=> rb.old))
  <2>1. CASE WriteSourceCursor
    BY Zenon, <2>1, RebuildAges
  <2>2. CASE ~WriteSourceCursor
    <3>1. rb' = rb
      BY Zenon, <2>2 DEF MailboxSet, JMAPMailboxes, JMAPMailboxEmailCounts,
         UpdateJMAPMailboxCatalog, mailboxSetFails
    <3> QED BY Zenon, <3>1
  <2> QED BY Zenon, <2>1, <2>2
<1>3. RebuildCopy'
  BY Zenon, <1>1, <1>2 DEF CopiesOK, RebuildCopy
<1>4. \A h \in Handlers : CallCopy(h)'
  BY Zenon, <1>1 DEF CopiesOK, CallCopy
<1>5. \A e \in Emails : PendCopy(e)' /\ Untouched(e)'
  BY Zenon, <1>1 DEF CopiesOK, PendCopy, Untouched
<1> QED BY Zenon, <1>3, <1>4, <1>5 DEF CopiesOK

\* Email/set: an overlay write makes every other copy old.
LEMMA EmailSetCopies ==
    ASSUME JmapTypes, CopiesOK, NEW h \in Handlers, EmailSet(h)
    PROVE  CopiesOK'
<1> USE DEF overlayVars, queryVars, refreshVars
<1>1. ASSUME NEW e \in Emails, NEW p \in Patches, JMAPEmailStates(h, e, p) PROVE CopiesOK'
  <2>1. UNCHANGED <<overlay, members, pend, rb>>
    BY Zenon, <1>1 DEF JMAPEmailStates
  <2>2. CallCopy(h)'
    <3>1. eset'[h] # NoEntry => eset'[h].at # "written" /\ ~eset'[h].old
      BY <1>1, EsetReads
    <3> QED BY Zenon, <3>1 DEF CallCopy
  <2>3. \A g \in Handlers \ {h} : CallCopy(g)'
    <3>1. \A g \in Handlers \ {h} : eset'[g] = eset[g]
      BY Zenon, <1>1, EsetReads
    <3> QED BY Zenon, <2>1, <3>1 DEF CopiesOK, CallCopy
  <2>4. \A x \in Emails : PendCopy(x)' /\ Untouched(x)'
    BY Zenon, <2>1 DEF CopiesOK, PendCopy, Untouched
  <2>5. RebuildCopy'
    BY Zenon, <2>1 DEF CopiesOK, RebuildCopy
  <2> QED BY Zenon, <2>2, <2>3, <2>4, <2>5 DEF CopiesOK
<1>2. CASE WriteOverlays(h)
  <2>1. eset[h] \in EmailSets /\ eset[h] # NoEntry /\ eset[h].at = "read"
    BY Zenon, <1>2, EsetWrites
  <2>2. PICK e \in Emails : e = eset[h].email
    BY Zenon, <2>1 DEF EmailSets
  <2>3. eset[h].update \in SUBSET Marks /\ eset[h].update # NoEntry
    BY Zenon, <2>1, JmapStateAssumption DEF EmailSets
  <2>4. /\ overlay'[e] = eset[h].update /\ \A x \in Emails \ {e} : overlay'[x] = overlay[x]
        /\ members' = members
    BY Zenon, <1>2, <2>2 DEF WriteOverlays, JmapTypes, StoredTypes
  <2>5. CallCopy(h)'
    <3>1. sameCall(h) /\ eset'[h].at # "read"
      BY <1>2, EsetWrites
    <3> QED BY Zenon, <2>2, <2>3, <2>4, <3>1 DEF CallCopy, sameCall
  <2>6. ASSUME NEW g \in Handlers \ {h} PROVE CallCopy(g)'
    <3>1. CASE g \in others(h, e, "written")
      <4>1. sameCall(g) /\ eset'[g].at # "read" /\ eset'[g].old
        BY Zenon, <1>2, <2>2, <3>1, EsetWrites
      <4>2. eset[g].email = e
        BY Zenon, <3>1 DEF others
      <4> QED BY Zenon, <2>3, <2>4, <4>1, <4>2 DEF CallCopy, sameCall
    <3>2. CASE g \notin others(h, e, "written")
      <4>1. eset'[g] = eset[g]
        BY Zenon, <1>2, <2>2, <3>2, EsetWrites
      <4>2. eset[g] # NoEntry => eset[g] \in EmailSets
        BY Zenon DEF JmapTypes, EsetTypes
      <4>3. eset[g] # NoEntry => eset[g].email \in Emails
        BY Zenon, <4>2 DEF EmailSets
      <4>4. eset[g] # NoEntry /\ eset[g].at = "written" => eset[g].email \in Emails \ {e}
        BY Zenon, <3>2, <4>3 DEF others
      <4> QED BY Zenon, <2>4, <4>1, <4>4 DEF CopiesOK, CallCopy
    <3> QED BY Zenon, <3>1, <3>2
  <2>7. ASSUME NEW x \in Emails PROVE PendCopy(x)' /\ Untouched(x)'
    <3>1. /\ pend'[x].at = pend[x].at /\ pend'[x].snap = pend[x].snap
          /\ pend'[x].old <=> IF x = e THEN pend[x].at = "read" ELSE pend[x].old
      BY Zenon, <1>2, <2>2, PendAges
    <3>2. CASE x = e
      BY Zenon, <2>3, <2>4, <3>1, <3>2 DEF PendCopy, Untouched
    <3>3. CASE x # e
      BY Zenon, <2>4, <3>1, <3>3 DEF CopiesOK, PendCopy, Untouched
    <3> QED BY Zenon, <3>2, <3>3
  <2>8. RebuildCopy'
    <3>1. /\ rb'.at = rb.at /\ rb'.email = rb.email /\ rb'.snap = rb.snap
          /\ rb'.old <=> rb.old \/ (rb.at = "loaded" /\ rb.email = e)
      BY Zenon, <1>2, <2>2, RebuildAges
    <3>2. rb.at = "loaded" => rb.email \in Emails
      BY Zenon DEF JmapTypes, RebuildTypes
    <3> QED BY Zenon, <2>3, <2>4, <3>1, <3>2 DEF CopiesOK, RebuildCopy
  <2> QED BY Zenon, <2>5, <2>6, <2>7, <2>8 DEF CopiesOK
<1>3. CASE UpdateJMAPEmailState(h) \/ emailSetFails(h)
  <2>1. UNCHANGED <<overlay, pend, rb>>
    BY Zenon, <1>3 DEF UpdateJMAPEmailState, emailSetFails
  <2>2. eset[h] \in EmailSets /\ eset[h] # NoEntry /\ eset'[h] = NoEntry
    BY Zenon, <1>3, EsetEnds
  <2>3. PICK e \in Emails : e = eset[h].email
    BY Zenon, <2>2 DEF EmailSets
  <2>4. ASSUME NEW g \in Handlers PROVE CallCopy(g)'
    <3>1. CASE eset'[g] = NoEntry \/ eset'[g] = eset[g]
      BY Zenon, <2>1, <3>1 DEF CopiesOK, CallCopy
    <3>2. CASE /\ g \in others(h, e, "read") /\ eset'[g].at = "read" /\ (eset'[g].old <=> eset[g].old)
      <4>1. eset[g] # NoEntry /\ eset[g].at = "read" /\ eset'[g].at # "written"
        BY <3>2 DEF others
      <4> QED BY Zenon, <3>2, <4>1 DEF CopiesOK, CallCopy
    <3> QED BY Zenon, <1>3, <2>2, <2>3, <3>1, <3>2, EsetEnds
  <2>5. \A x \in Emails : Untouched(x)'
    <3>1. \A x \in Emails : members'[x] = members[x] \/ (UpdateJMAPEmailState(h) /\ x = e)
      BY Zenon, <1>3, <2>3 DEF UpdateJMAPEmailState, emailSetFails, written, JmapTypes, StoredTypes
    <3>2. UpdateJMAPEmailState(h) => overlay[e] # NoEntry
      BY Zenon, <2>3 DEF UpdateJMAPEmailState, CopiesOK, CallCopy
    <3> QED BY Zenon, <2>1, <3>1, <3>2 DEF CopiesOK, Untouched
  <2>6. \A x \in Emails : PendCopy(x)'
    BY Zenon, <2>1 DEF CopiesOK, PendCopy
  <2>7. RebuildCopy'
    BY Zenon, <2>1 DEF CopiesOK, RebuildCopy
  <2> QED BY Zenon, <2>4, <2>5, <2>6, <2>7 DEF CopiesOK
<1> QED BY Zenon, <1>1, <1>2, <1>3 DEF EmailSet

\* The projection worker reads the latest overlay.
LEMMA RefreshCopies ==
    ASSUME JmapTypes, CopiesOK, NEW e \in Emails, Refresh(e)
    PROVE  CopiesOK'
<1>1. UNCHANGED <<overlay, eset, rb>>
  BY Zenon DEF Refresh, objectChanged, noticeLost, refreshFails, NotifyObjectsChanged, ProjectionObject, ProjectObject, overlayVars
<1>2. (\A h \in Handlers : CallCopy(h)') /\ RebuildCopy'
  BY Zenon, <1>1 DEF CopiesOK, CallCopy, RebuildCopy
<1>3. \A x \in Emails \ {e} : pend'[x] = pend[x] /\ members'[x] = members[x]
  <2>1. \A x \in Emails \ {e} : pend'[x] = pend[x]
    BY Zenon, PendMoves DEF Refresh, objectChanged, noticeLost
  <2> QED BY Zenon, <2>1 DEF Refresh, objectChanged, noticeLost, refreshFails, NotifyObjectsChanged, ProjectionObject,
       ProjectObject, written, queryVars, JmapTypes, StoredTypes
<1>4. \A x \in Emails \ {e} : PendCopy(x)' /\ Untouched(x)'
  BY Zenon, <1>1, <1>3 DEF CopiesOK, PendCopy, Untouched
<1>5. PendCopy(e)' /\ Untouched(e)'
  <2>1. CASE objectChanged(e)
    BY Zenon, <1>1, <2>1 DEF objectChanged, queryVars, CopiesOK, PendCopy, Untouched
  <2>2. CASE NotifyObjectsChanged(e)
    <3>1. members' = members /\ (pend'[e].at # "read" \/ pend'[e] = pend[e])
      BY <2>2, PendMoves DEF NotifyObjectsChanged, queryVars
    <3> QED BY Zenon, <1>1, <3>1 DEF CopiesOK, PendCopy, Untouched
  <2>3. CASE ProjectionObject(e)
    <3>1. members' = members /\ pend'[e].snap = overlay[e]
      BY Zenon, <2>3, PendMoves DEF ProjectionObject, queryVars
    <3> QED BY Zenon, <1>1, <3>1 DEF CopiesOK, PendCopy, Untouched
  <2>4. CASE ProjectObject(e)
    <3>1. pend'[e].at # "read"
      BY Zenon, <2>4, PendMoves
    <3>2. members'[e] = members[e] \/ members'[e] = seeded(e, pend[e].snap)
      BY Zenon, <2>4 DEF ProjectObject, written, JmapTypes, StoredTypes
    <3>3. overlay[e] = NoEntry => pend[e].snap = NoEntry
      BY Zenon, <2>4 DEF ProjectObject, CopiesOK, PendCopy
    <3>4. overlay[e] = NoEntry => seeded(e, pend[e].snap) = Defaults
      BY Zenon, <3>3, WrittenUntouched DEF CopiesOK
    <3> QED BY Zenon, <1>1, <3>1, <3>2, <3>4 DEF CopiesOK, PendCopy, Untouched
  <2>5. CASE noticeLost(e)
    BY Zenon, <1>1, <2>5 DEF noticeLost, queryVars, CopiesOK, PendCopy, Untouched
  <2>6. CASE refreshFails(e)
    <3>1. members' = members /\ pend'[e].at # "read"
      BY Zenon, <2>6, PendMoves DEF refreshFails, queryVars
    <3> QED BY Zenon, <1>1, <3>1 DEF CopiesOK, PendCopy, Untouched
  <2> QED BY Zenon, <2>1, <2>2, <2>3, <2>4, <2>5, <2>6 DEF Refresh
<1> QED BY Zenon, <1>2, <1>4, <1>5 DEF CopiesOK

\* So does Rebuild.
LEMMA RebuildCopies ==
    ASSUME JmapTypes, CopiesOK, Rebuild \/ wipe
    PROVE  CopiesOK'
<1> USE DEF overlayVars, queryVars, refreshVars
<1>1. overlay' = overlay
  BY Zenon DEF Rebuild, truncate, walkProjection, projectIndexObject, walkSourceCursors,
     ProjectSourceCursor, wipe
<1>2. \A h \in Handlers : CallCopy(h)'
  <2>1. \A h \in Handlers : eset'[h] = eset[h] \/ eset'[h] = NoEntry
    BY Zenon DEF Rebuild, truncate, walkProjection, projectIndexObject, walkSourceCursors,
       ProjectSourceCursor, wipe
  <2> QED BY Zenon, <1>1, <2>1 DEF CopiesOK, CallCopy
<1>3. \A e \in Emails : PendCopy(e)'
  <2>1. CASE wipe
    <3>1. \A e \in Emails : pend'[e].at # "read"
      BY <2>1, PendMoves
    <3> QED BY Zenon, <3>1 DEF PendCopy
  <2>2. CASE Rebuild
    <3>1. pend' = pend
      BY Zenon, <2>2 DEF Rebuild, truncate, walkProjection, projectIndexObject, walkSourceCursors,
         ProjectSourceCursor
    <3> QED BY Zenon, <1>1, <3>1 DEF CopiesOK, PendCopy
  <2> QED BY Zenon, <2>1, <2>2
<1>4. RebuildCopy'
  <2>1. CASE wipe
    BY Zenon, <1>1, <2>1 DEF wipe, CopiesOK, RebuildCopy
  <2>2. ASSUME NEW e \in Emails, walkProjection(e) PROVE RebuildCopy'
    <3>1. rb'.email = e /\ rb'.snap = overlay[e]
      BY Zenon, <2>2, RebuildMoves
    <3> QED BY Zenon, <1>1, <3>1 DEF RebuildCopy
  <2>3. CASE truncate \/ projectIndexObject \/ walkSourceCursors \/ ProjectSourceCursor
    <3>1. rb'.at # "loaded"
      BY <2>3, RebuildMoves
    <3> QED BY Zenon, <3>1 DEF RebuildCopy
  <2> QED BY Zenon, <2>1, <2>2, <2>3 DEF Rebuild
<1>5. \A e \in Emails : Untouched(e)'
  <2>1. CASE projectIndexObject
    <3>1. rb.email \in Emails /\ (overlay[rb.email] = NoEntry => rb.snap = NoEntry)
      BY Zenon, <2>1 DEF projectIndexObject, JmapTypes, RebuildTypes, CopiesOK, RebuildCopy
    <3>2. overlay[rb.email] = NoEntry => seeded(rb.email, rb.snap) = Defaults
      BY Zenon, <3>1, WrittenUntouched DEF CopiesOK
    <3>3. \A e \in Emails : members'[e] = members[e] \/ (e = rb.email /\ members'[e] = seeded(e, rb.snap))
      BY Zenon, <2>1, <3>1 DEF projectIndexObject, written, JmapTypes, StoredTypes
    <3> QED BY Zenon, <1>1, <3>2, <3>3 DEF CopiesOK, Untouched
  <2>2. CASE ~projectIndexObject
    <3>1. \A e \in Emails : members'[e] = members[e] \/ members'[e] = NoEntry
      BY Zenon, <2>2 DEF Rebuild, truncate, walkProjection, walkSourceCursors, ProjectSourceCursor, wipe
    <3> QED BY Zenon, <1>1, <3>1 DEF CopiesOK, Untouched
  <2> QED BY Zenon, <2>1, <2>2
<1> QED BY Zenon, <1>2, <1>3, <1>4, <1>5 DEF CopiesOK

\* Every step keeps the copies true.
LEMMA CopiesStep ==
    ASSUME JmapTypes, CopiesOK, JmapNext
    PROVE  CopiesOK'
  BY Zenon, MailboxSetCopies, EmailSetCopies, RefreshCopies, RebuildCopies DEF JmapNext

-----------------------------------------------------------------------------
(* Rebuild covers every email *)

\* Outside of truncations and wipes, an email that has a row keeps one.
LEMMA RowsStay ==
    ASSUME JmapTypes, MailboxSet \/ (\E h \in Handlers : EmailSet(h)) \/ (\E e \in Emails : Refresh(e))
                      \/ projectIndexObject, NEW x \in Emails, members[x] # NoEntry
    PROVE  members'[x] # NoEntry
<1> USE DEF overlayVars, queryVars, refreshVars
<1>1. CASE MailboxSet
  BY Zenon, <1>1 DEF MailboxSet, JMAPMailboxes, JMAPMailboxEmailCounts, WriteSourceCursor,
     UpdateJMAPMailboxCatalog, mailboxSetFails
<1>2. ASSUME NEW h \in Handlers, EmailSet(h) PROVE members'[x] # NoEntry
  <2>1. CASE UpdateJMAPEmailState(h)
    <3>1. eset[h] \in EmailSets
      BY Zenon, <2>1, EsetEnds
    <3>2. eset[h].update # NoEntry
      BY <3>1, JmapStateAssumption DEF EmailSets
    <3> QED BY Zenon, <2>1, <3>2 DEF UpdateJMAPEmailState, written, JmapTypes, StoredTypes
  <2>2. CASE ~UpdateJMAPEmailState(h)
    BY Zenon, <1>2, <2>2 DEF EmailSet, JMAPEmailStates, WriteOverlays, emailSetFails
  <2> QED BY Zenon, <2>1, <2>2
<1>3. ASSUME NEW e \in Emails, Refresh(e) PROVE members'[x] # NoEntry
  <2>1. CASE ProjectObject(e)
    <3>1. pend[e].snap \in States
      BY Zenon DEF JmapTypes, RefreshTypes, Refreshes
    <3>2. seeded(e, pend[e].snap) # NoEntry
      BY Zenon, <3>1, SeededTypes, JmapStateAssumption
    <3> QED BY Zenon, <2>1, <3>2 DEF ProjectObject, written, JmapTypes, StoredTypes
  <2>2. CASE ~ProjectObject(e)
    BY Zenon, <1>3, <2>2 DEF Refresh, objectChanged, noticeLost, refreshFails, NotifyObjectsChanged, ProjectionObject
  <2> QED BY Zenon, <2>1, <2>2
<1>4. CASE projectIndexObject
  <2>1. rb.snap \in States /\ rb.email \in Emails
    BY Zenon, <1>4 DEF projectIndexObject, JmapTypes, RebuildTypes, Rebuilds
  <2>2. seeded(rb.email, rb.snap) # NoEntry
    BY Zenon, <2>1, SeededTypes, JmapStateAssumption
  <2> QED BY Zenon, <1>4, <2>2 DEF projectIndexObject, written, JmapTypes, StoredTypes
<1> QED BY Zenon, <1>1, <1>2, <1>3, <1>4

\* While a rebuild runs, every email is still to be read, is loaded, or has a row.
LEMMA RebuildStep ==
    ASSUME JmapTypes, RebuildOK, JmapNext
    PROVE  RebuildOK'
<1>1. CASE MailboxSet \/ (\E h \in Handlers : EmailSet(h)) \/ (\E e \in Emails : Refresh(e))
  <2>1. \A x \in Emails : members[x] # NoEntry => members'[x] # NoEntry
    BY Zenon, <1>1, RowsStay
  <2>2. rb'.at = rb.at /\ rb'.todo = rb.todo /\ rb'.email = rb.email
    <3>1. CASE WriteSourceCursor \/ \E h \in Handlers : WriteOverlays(h)
      BY Zenon, <3>1, RebuildAges
    <3>2. CASE ~(WriteSourceCursor \/ \E h \in Handlers : WriteOverlays(h))
      <4>1. rb' = rb
        BY Zenon, <1>1, <3>2 DEF MailboxSet, JMAPMailboxes, JMAPMailboxEmailCounts,
           UpdateJMAPMailboxCatalog, mailboxSetFails, EmailSet, JMAPEmailStates, UpdateJMAPEmailState,
           emailSetFails, Refresh, objectChanged, noticeLost, refreshFails, NotifyObjectsChanged, ProjectionObject, ProjectObject
      <4> QED BY Zenon, <4>1
    <3> QED BY Zenon, <3>1, <3>2
  <2>3. rebuilt' = rebuilt
    <3>1. CASE MailboxSet
      BY Zenon, <3>1 DEF MailboxSet, JMAPMailboxes, JMAPMailboxEmailCounts, WriteSourceCursor,
         UpdateJMAPMailboxCatalog, mailboxSetFails
    <3>2. CASE \E h \in Handlers : EmailSet(h)
      BY Zenon, <3>2 DEF EmailSet, JMAPEmailStates, WriteOverlays, UpdateJMAPEmailState, emailSetFails
    <3>3. CASE \E e \in Emails : Refresh(e)
      BY Zenon, <3>3 DEF Refresh, objectChanged, noticeLost, refreshFails, NotifyObjectsChanged, ProjectionObject, ProjectObject
    <3> QED BY Zenon, <1>1, <3>1, <3>2, <3>3
  <2> QED BY Zenon, <2>1, <2>2, <2>3 DEF RebuildOK, Projected
<1>2. CASE truncate
  <2>1. rb'.at # "catalog" /\ rb'.todo = Emails /\ rebuilt' = FALSE
    BY <1>2, RebuildMoves DEF truncate
  <2> QED BY Zenon, <2>1 DEF RebuildOK, Projected
<1>3. ASSUME NEW e \in Emails, walkProjection(e) PROVE RebuildOK'
  <2>1. /\ rb.at # "loaded" /\ rb.at \in {"walk", "loaded", "catalog"} /\ rb'.at # "catalog"
        /\ rb'.at = "loaded" /\ rb'.email = e /\ rb'.todo = rb.todo \ {e}
        /\ UNCHANGED <<members, rebuilt>>
    BY Zenon, <1>3, RebuildMoves DEF walkProjection, queryVars
  <2> QED BY Zenon, <2>1 DEF RebuildOK, Projected
<1>4. CASE projectIndexObject
  <2>1. \A x \in Emails : members[x] # NoEntry => members'[x] # NoEntry
    BY Zenon, <1>4, RowsStay
  <2>2. rebuilt' = rebuilt /\ rb.at \in {"walk", "loaded", "catalog"}
    BY Zenon, <1>4 DEF projectIndexObject
  <2>3. CASE ~projectable(rb.snap)
    <3>1. rb'.at \notin {"walk", "loaded", "catalog"} /\ rb'.at # "catalog"
      BY <1>4, <2>3, RebuildMoves
    <3> QED BY Zenon, <2>1, <2>2, <3>1 DEF RebuildOK
  <2>4. CASE projectable(rb.snap)
    <3>1. rb'.at # "catalog" /\ rb'.todo = rb.todo
      BY Zenon, <1>4, <2>4, RebuildMoves
    <3>2. members'[rb.email] # NoEntry
      <4>1. rb.snap \in States /\ rb.email \in Emails
        BY Zenon, <1>4 DEF projectIndexObject, JmapTypes, RebuildTypes, Rebuilds
      <4>2. seeded(rb.email, rb.snap) # NoEntry
        BY Zenon, <4>1, SeededTypes, JmapStateAssumption
      <4> QED BY Zenon, <1>4, <2>4, <4>1, <4>2 DEF projectIndexObject, written, JmapTypes, StoredTypes
    <3> QED BY Zenon, <2>1, <2>2, <3>1, <3>2 DEF RebuildOK, Projected
  <2> QED BY Zenon, <2>3, <2>4
<1>5. CASE walkSourceCursors
  <2>1. /\ rb.at # "loaded" /\ rb.at \in {"walk", "loaded", "catalog"} /\ rb.todo = {}
        /\ rb'.todo = {} /\ UNCHANGED <<members, rebuilt>>
    BY <1>5, RebuildMoves DEF walkSourceCursors, queryVars
  <2> QED BY Zenon, <2>1 DEF RebuildOK, Projected
<1>6. CASE ProjectSourceCursor
  <2>1. /\ rb'.at \notin {"walk", "loaded", "catalog"} /\ rb'.at # "catalog" /\ members' = members
        /\ rb.at # "loaded" /\ rb.at \in {"walk", "loaded", "catalog"} /\ rb.at = "catalog"
    BY Zenon, <1>6, RebuildMoves DEF ProjectSourceCursor
  <2>2. \A e \in Emails : members[e] # NoEntry
    BY Zenon, <2>1 DEF RebuildOK, Projected
  <2> QED BY Zenon, <2>1, <2>2 DEF RebuildOK
<1>7. CASE wipe
  <2>1. rebuilt' = FALSE /\ rb'.at \notin {"walk", "loaded", "catalog"} /\ rb'.at # "catalog"
    BY <1>7 DEF wipe
  <2> QED BY Zenon, <2>1 DEF RebuildOK
<1> QED BY Zenon, <1>1, <1>2, <1>3, <1>4, <1>5, <1>6, <1>7 DEF JmapNext, Rebuild

-----------------------------------------------------------------------------
(* Convergence *)

\* What a step must not disturb of an email: its overlay stays, its rows become
\* nothing but the overlay, its refresh is not lost, and no copy gets old.
LEMMA ConvergingStays ==
    ASSUME NEW x \in Emails, Converging(x), overlay'[x] = overlay[x],
           members'[x] = members[x] \/ members'[x] = NoEntry \/ members'[x] = current(x),
           coming(x) => coming(x)' \/ members'[x] = current(x),
           \A h \in Handlers : eset'[h] # NoEntry /\ eset'[h].email = x /\ eset'[h].old =>
               eset[h] # NoEntry /\ eset[h].email = x /\ eset[h].old,
           rb'.at = "loaded" /\ rb'.email = x /\ rb'.old => rb.at = "loaded" /\ rb.email = x /\ rb.old,
           pend'[x].at = "read" /\ pend'[x].old => pend[x].at = "read" /\ pend[x].old,
           pend'[x].at = "read" /\ pend'[x].old /\ x \in due => x \in due'
    PROVE  Converging(x)'
<1>1. current(x)' = current(x)
  BY Zenon DEF current
<1>2. members'[x] \in {NoEntry, current(x)} \/ coming(x)'
  BY Zenon DEF Converging
<1>3. \A h \in Handlers : eset'[h] # NoEntry /\ eset'[h].email = x => ~eset'[h].old
  BY Zenon DEF Converging
<1>4. rb'.at = "loaded" /\ rb'.email = x => ~rb'.old
  BY Zenon DEF Converging
<1>5. pend'[x].at = "read" /\ pend'[x].old => x \in due'
  BY Zenon DEF Converging
<1> QED BY Zenon, <1>1, <1>2, <1>3, <1>4, <1>5 DEF Converging

\* Mailbox/set leaves the emails alone.
LEMMA MailboxSetConverging ==
    ASSUME JmapTypes, ConvergingOK, MailboxSet
    PROVE  ConvergingOK'
<1>1. UNCHANGED <<overlay, members, eset, pend, due, excused>>
  BY Zenon DEF MailboxSet, JMAPMailboxes, JMAPMailboxEmailCounts, WriteSourceCursor,
     UpdateJMAPMailboxCatalog, mailboxSetFails, overlayVars, queryVars, refreshVars, emailAux
<1>2. rb'.at = rb.at /\ rb'.email = rb.email /\ (rb.at = "loaded" => (rb'.old <=> rb.old))
  <2>1. CASE WriteSourceCursor
    BY Zenon, <2>1, RebuildAges
  <2>2. CASE ~WriteSourceCursor
    BY Zenon, <2>2 DEF MailboxSet, JMAPMailboxes, JMAPMailboxEmailCounts, UpdateJMAPMailboxCatalog, mailboxSetFails
  <2> QED BY Zenon, <2>1, <2>2
<1>3. ASSUME NEW x \in Emails, x \notin excused' PROVE Converging(x)'
  <2>1. coming(x)' <=> coming(x)
    BY Zenon, <1>1 DEF coming
  <2> QED BY Zenon, <1>1, <1>2, <1>3, <2>1, ConvergingStays DEF ConvergingOK
<1> QED BY Zenon, <1>3 DEF ConvergingOK

\* Email/set: the overlay that is written is noticed, and is what goes to the
\* rows; a call that was overtaken excuses the email.
LEMMA EmailSetConverging ==
    ASSUME JmapTypes, CopiesOK, ConvergingOK, NEW h \in Handlers, EmailSet(h)
    PROVE  ConvergingOK'
<1> USE DEF overlayVars, queryVars, refreshVars, emailAux
<1>1. ASSUME NEW e \in Emails, NEW p \in Patches, JMAPEmailStates(h, e, p) PROVE ConvergingOK'
  <2>1. UNCHANGED <<overlay, members, pend, due, rb, excused>>
    BY Zenon, <1>1 DEF JMAPEmailStates
  <2>2. ASSUME NEW x \in Emails, x \notin excused' PROVE Converging(x)'
    <3>1. coming(x)' <=> coming(x)
      BY Zenon, <2>1 DEF coming
    <3>2. \A g \in Handlers : eset'[g] = eset[g] \/ (eset'[g] # NoEntry => ~eset'[g].old)
      BY Zenon, <1>1, EsetReads
    <3> QED BY Zenon, <2>1, <2>2, <3>1, <3>2, ConvergingStays DEF ConvergingOK
  <2> QED BY Zenon, <2>2 DEF ConvergingOK
<1>2. CASE WriteOverlays(h)
  <2>1. eset[h] \in EmailSets /\ eset[h] # NoEntry /\ eset[h].at = "read"
    BY Zenon, <1>2, EsetWrites
  <2>2. PICK e \in Emails : e = eset[h].email
    BY Zenon, <2>1 DEF EmailSets
  <2>3. /\ \A x \in Emails \ {e} : overlay'[x] = overlay[x]
        /\ members' = members /\ due' = due \cup {e}
    BY Zenon, <1>2, <2>2 DEF WriteOverlays, noticed, JmapTypes, StoredTypes
  <2>4. /\ rb'.at = rb.at /\ rb'.email = rb.email
        /\ rb'.old <=> rb.old \/ (rb.at = "loaded" /\ rb.email = e)
    BY Zenon, <1>2, <2>2, RebuildAges
  <2>5. \A x \in Emails \ {e} : x \in excused' <=> x \in excused
    BY Zenon, <1>2, <2>2 DEF WriteOverlays
  <2>6. ASSUME NEW x \in Emails \ {e}, x \notin excused PROVE Converging(x)'
    <3>1. pend'[x].at = pend[x].at /\ (pend'[x].old <=> pend[x].old)
      BY Zenon, <1>2, <2>2, PendAges
    <3>2. coming(x)' <=> coming(x)
      BY Zenon, <2>3, <3>1 DEF coming
    <3>3. ASSUME NEW g \in Handlers, eset'[g] # NoEntry, eset'[g].email = x, eset'[g].old
          PROVE  eset[g] # NoEntry /\ eset[g].email = x /\ eset[g].old
      <4>1. CASE g = h
        BY Zenon, <1>2, <2>2, <3>3, <4>1, EsetWrites DEF sameCall
      <4>2. CASE g # h
        <5>1. g \in others(h, e, "written") /\ sameCall(g) => eset'[g].email = e
          BY Zenon DEF others, sameCall
        <5> QED BY Zenon, <1>2, <2>2, <3>3, <4>2, <5>1, EsetWrites
      <4> QED BY Zenon, <4>1, <4>2
    <3> QED BY Zenon, <2>3, <2>4, <2>6, <3>1, <3>2, <3>3, ConvergingStays DEF ConvergingOK
  <2>7. ASSUME e \notin excused' PROVE Converging(e)'
    <3>1. others(h, e, "written") = {} /\ ~(rb.at = "loaded" /\ rb.email = e)
      BY Zenon, <1>2, <2>2, <2>7 DEF WriteOverlays
    <3>2. ASSUME NEW g \in Handlers, eset'[g] # NoEntry, eset'[g].email = e PROVE ~eset'[g].old
      <4>1. CASE g = h
        BY Zenon, <1>2, <2>1, <4>1, EsetWrites DEF CopiesOK, CallCopy
      <4>2. CASE g # h
        <5>1. eset'[g] = eset[g]
          BY Zenon, <1>2, <2>2, <3>1, <4>2, EsetWrites
        <5>2. eset[g] \in EmailSets /\ eset[g] # NoEntry
          BY Zenon, <3>2, <5>1 DEF JmapTypes, EsetTypes
        <5>3. eset[g].at = "read" \/ eset[g].at = "written"
          BY Zenon, <5>2 DEF EmailSets
        <5>4. eset[g].at # "written"
          BY Zenon, <3>1, <3>2, <4>2, <5>1, <5>2 DEF others
        <5> QED BY Zenon, <5>1, <5>2, <5>3, <5>4 DEF CopiesOK, CallCopy
      <4> QED BY Zenon, <4>1, <4>2
    <3>3. e \in due' /\ coming(e)'
      BY Zenon, <2>3 DEF coming
    <3>4. ~(rb'.at = "loaded" /\ rb'.email = e)
      BY Zenon, <2>4, <3>1
    <3> QED BY Zenon, <3>2, <3>3, <3>4 DEF Converging
  <2> QED BY Zenon, <2>5, <2>6, <2>7 DEF ConvergingOK
<1>3. CASE UpdateJMAPEmailState(h) \/ emailSetFails(h)
  <2>1. UNCHANGED <<overlay, due, pend, rb, excused>>
    BY Zenon, <1>3 DEF UpdateJMAPEmailState, emailSetFails
  <2>2. eset[h] \in EmailSets /\ eset[h] # NoEntry /\ eset'[h] = NoEntry
    BY Zenon, <1>3, EsetEnds
  <2>3. ASSUME NEW x \in Emails, x \notin excused' PROVE Converging(x)'
    <3>1. coming(x)' <=> coming(x)
      BY Zenon, <2>1 DEF coming
    <3>2. Converging(x)
      BY Zenon, <2>1, <2>3 DEF ConvergingOK
    <3>3. members'[x] = members[x] \/ members'[x] = current(x)
      <4>1. members'[x] = members[x] \/ (eset[h].at = "written" /\ x = eset[h].email /\ members'[x] = eset[h].update)
        BY Zenon, <1>3 DEF UpdateJMAPEmailState, emailSetFails, written, JmapTypes, StoredTypes
      <4>2. x = eset[h].email => ~eset[h].old
        BY Zenon, <2>2, <3>2 DEF Converging
      <4> QED BY Zenon, <2>2, <4>1, <4>2 DEF CopiesOK, CallCopy, current
    <3>4. ASSUME NEW g \in Handlers, eset'[g] # NoEntry, eset'[g].email = x, eset'[g].old
          PROVE  eset[g] # NoEntry /\ eset[g].email = x /\ eset[g].old
      BY Zenon, <1>3, <2>2, <3>4, EsetEnds DEF sameCall, others
    <3> QED BY Zenon, <2>1, <3>1, <3>2, <3>3, <3>4, ConvergingStays
  <2> QED BY Zenon, <2>3 DEF ConvergingOK
<1> QED BY Zenon, <1>1, <1>2, <1>3 DEF EmailSet

\* A refresh writes the latest overlay, or another notice is on its way; a notice
\* that is lost, or is skipped for a refresh that has read an old overlay,
\* excuses the email.
LEMMA RefreshConverging ==
    ASSUME JmapTypes, CopiesOK, ConvergingOK, NEW e \in Emails, Refresh(e)
    PROVE  ConvergingOK'
<1> USE DEF overlayVars, queryVars, refreshVars, emailAux
<1>1. UNCHANGED <<overlay, eset, rb>>
  BY Zenon DEF Refresh, objectChanged, noticeLost, refreshFails, NotifyObjectsChanged, ProjectionObject, ProjectObject
<1>2. ASSUME NEW x \in Emails \ {e}, x \notin excused' PROVE Converging(x)'
  <2>1. pend'[x] = pend[x]
    BY Zenon, PendMoves DEF Refresh, objectChanged, noticeLost
  <2>2. members'[x] = members[x]
    BY Zenon DEF Refresh, objectChanged, noticeLost, refreshFails, NotifyObjectsChanged, ProjectionObject,
       ProjectObject, written, JmapTypes, StoredTypes
  <2>3. (x \in due' <=> x \in due) /\ x \notin excused
    BY Zenon, <1>2 DEF Refresh, objectChanged, noticeLost, refreshFails, NotifyObjectsChanged, ProjectionObject, ProjectObject
  <2>4. coming(x)' <=> coming(x)
    BY <2>1, <2>3 DEF coming
  <2> QED BY Zenon, <1>1, <2>1, <2>2, <2>3, <2>4, ConvergingStays DEF ConvergingOK
<1>3. ASSUME e \notin excused' PROVE Converging(e)'
  <2>1. CASE objectChanged(e)
    <3>1. UNCHANGED <<members, pend, excused>> /\ e \in due'
      BY Zenon, <2>1 DEF objectChanged
    <3>2. coming(e)'
      BY Zenon, <3>1 DEF coming
    <3> QED BY Zenon, <1>1, <1>3, <3>1, <3>2, ConvergingStays DEF ConvergingOK
  <2>2. CASE NotifyObjectsChanged(e)
    <3>1. members' = members /\ Converging(e)
      BY Zenon, <1>3, <2>2 DEF NotifyObjectsChanged, ConvergingOK
    <3>2. CASE pend[e].at = "none"
      <4>1. pend'[e].at = "queued" /\ pend'[e].at # "read"
        BY Zenon, <2>2, <3>2, PendMoves
      <4>2. coming(e)'
        BY Zenon, <4>1 DEF coming
      <4> QED BY Zenon, <1>1, <3>1, <4>1, <4>2, ConvergingStays
    <3>3. CASE pend[e].at # "none"
      <4>1. pend'[e] = pend[e] /\ ~pend[e].old
        BY Zenon, <1>3, <2>2, <3>3, PendMoves DEF NotifyObjectsChanged
      <4>2. pend[e] \in Refreshes
        BY Zenon DEF JmapTypes, RefreshTypes
      <4>3. pend[e].at = "queued" \/ pend[e].at = "read"
        BY Zenon, <3>3, <4>2 DEF Refreshes
      <4>4. coming(e)'
        BY <4>1, <4>3 DEF coming
      <4> QED BY Zenon, <1>1, <3>1, <4>1, <4>4, ConvergingStays
    <3> QED BY Zenon, <3>2, <3>3
  <2>3. CASE ProjectionObject(e)
    <3>1. members' = members /\ Converging(e)
      BY Zenon, <1>3, <2>3 DEF ProjectionObject, ConvergingOK
    <3>2. pend'[e].at = "read" /\ ~pend'[e].old
      BY Zenon, <2>3, PendMoves
    <3>3. coming(e)'
      BY Zenon, <3>2 DEF coming
    <3> QED BY Zenon, <1>1, <3>1, <3>2, <3>3, ConvergingStays
  <2>4. CASE ProjectObject(e)
    <3>1. due' = due /\ Converging(e) /\ pend[e].at = "read"
      BY Zenon, <1>3, <2>4 DEF ProjectObject, ConvergingOK
    <3>2. pend'[e].at # "read"
      BY Zenon, <2>4, PendMoves
    <3>3. CASE ~projectable(pend[e].snap)
      <4>1. members' = members
        BY Zenon, <2>4, <3>3 DEF ProjectObject
      <4>2. pend'[e].at = "queued"
        BY Zenon, <2>4, <3>3, PendMoves
      <4>3. coming(e)'
        BY Zenon, <4>2 DEF coming
      <4> QED BY Zenon, <1>1, <3>1, <3>2, <4>1, <4>3, ConvergingStays
    <3>4. CASE projectable(pend[e].snap) /\ pend[e].old
      <4>1. coming(e)'
        BY Zenon, <3>1, <3>4 DEF Converging, coming
      <4> QED BY Zenon, <1>1, <3>1, <3>2, <4>1 DEF Converging
    <3>5. CASE projectable(pend[e].snap) /\ ~pend[e].old
      <4>1. members'[e] = seeded(e, pend[e].snap)
        BY Zenon, <2>4, <3>5 DEF ProjectObject, written, JmapTypes, StoredTypes
      <4>2. members'[e] = current(e)
        BY Zenon, <3>1, <3>5, <4>1, SeededCurrent DEF CopiesOK, PendCopy
      <4> QED BY Zenon, <1>1, <3>1, <3>2, <4>2, ConvergingStays
    <3> QED BY Zenon, <3>3, <3>4, <3>5
  <2>5. CASE noticeLost(e)
    <3>1. UNCHANGED <<members, pend>> /\ Converging(e) /\ covered(e)
      BY Zenon, <1>3, <2>5 DEF noticeLost, ConvergingOK
    <3>2. members'[e] \in {NoEntry, current(e)'} \/ coming(e)'
      BY Zenon, <1>1, <3>1 DEF covered, coming, current
    <3>3. ~(pend'[e].at = "read" /\ pend'[e].old)
      BY <3>1 DEF covered
    <3> QED BY Zenon, <1>1, <3>1, <3>2, <3>3 DEF Converging
  <2>6. CASE refreshFails(e)
    <3>1. members' = members /\ Converging(e)
      BY Zenon, <1>3, <2>6 DEF refreshFails, ConvergingOK
    <3>2. pend'[e].at = "queued" /\ pend'[e].at # "read"
      BY Zenon, <2>6, PendMoves
    <3>3. coming(e)'
      BY Zenon, <3>2 DEF coming
    <3> QED BY Zenon, <1>1, <3>1, <3>2, <3>3, ConvergingStays
  <2> QED BY Zenon, <2>1, <2>2, <2>3, <2>4, <2>5, <2>6 DEF Refresh
<1> QED BY Zenon, <1>2, <1>3 DEF ConvergingOK

\* Rebuild writes the latest overlay, unless an Email/set has written since; a
\* wipe leaves no row.
LEMMA RebuildConverging ==
    ASSUME JmapTypes, CopiesOK, ConvergingOK, Rebuild \/ wipe
    PROVE  ConvergingOK'
<1> USE DEF overlayVars, queryVars, refreshVars, emailAux
<1>1. UNCHANGED <<overlay, due, excused>>
  BY Zenon DEF Rebuild, truncate, walkProjection, projectIndexObject, walkSourceCursors,
     ProjectSourceCursor, wipe
<1>2. \A h \in Handlers : eset'[h] = eset[h] \/ eset'[h] = NoEntry
  BY Zenon DEF Rebuild, truncate, walkProjection, projectIndexObject, walkSourceCursors,
     ProjectSourceCursor, wipe
<1>3. rb'.at = "loaded" => ~rb'.old \/ rb' = rb
  <2>1. CASE wipe
    BY Zenon, <2>1 DEF wipe
  <2>2. CASE \E e \in Emails : walkProjection(e)
    BY Zenon, <2>2, RebuildMoves
  <2>3. CASE truncate \/ projectIndexObject \/ walkSourceCursors \/ ProjectSourceCursor
    BY <2>3, RebuildMoves
  <2> QED BY Zenon, <2>1, <2>2, <2>3 DEF Rebuild
<1>4. ASSUME NEW x \in Emails, x \notin excused' PROVE Converging(x)'
  <2>1. Converging(x)
    BY Zenon, <1>1, <1>4 DEF ConvergingOK
  <2>2. /\ coming(x) => coming(x)'
        /\ pend'[x].at = "read" /\ pend'[x].old => pend[x].at = "read" /\ pend[x].old
    <3>1. CASE wipe
      <4>1. pend'[x].at # "read" /\ (pend[x].at # "none" => pend'[x].at = "queued")
        BY Zenon, <3>1, PendMoves
      <4>2. pend[x].at = "queued" \/ pend[x].at = "read" => pend[x].at # "none"
        BY Zenon
      <4> QED BY Zenon, <1>1, <4>1, <4>2 DEF coming
    <3>2. CASE Rebuild
      <4>1. pend' = pend
        BY Zenon, <3>2 DEF Rebuild, truncate, walkProjection, projectIndexObject, walkSourceCursors,
           ProjectSourceCursor
      <4> QED BY Zenon, <1>1, <4>1 DEF coming
    <3> QED BY Zenon, <3>1, <3>2
  <2>3. members'[x] = members[x] \/ members'[x] = NoEntry \/ members'[x] = current(x)
    <3>1. CASE projectIndexObject
      <4>1. members'[x] = members[x] \/ (x = rb.email /\ members'[x] = seeded(x, rb.snap))
        BY Zenon, <3>1 DEF projectIndexObject, written, JmapTypes, StoredTypes
      <4>2. x = rb.email => ~rb.old
        BY Zenon, <2>1, <3>1 DEF projectIndexObject, Converging
      <4>3. x = rb.email => rb.snap = overlay[x]
        BY Zenon, <3>1, <4>2 DEF projectIndexObject, CopiesOK, RebuildCopy
      <4> QED BY Zenon, <4>1, <4>3, SeededCurrent DEF CopiesOK
    <3>2. CASE ~projectIndexObject
      BY Zenon, <3>2 DEF Rebuild, truncate, walkProjection, walkSourceCursors, ProjectSourceCursor, wipe
    <3> QED BY Zenon, <3>1, <3>2
  <2> QED BY Zenon, <1>1, <1>2, <1>3, <2>1, <2>2, <2>3, ConvergingStays
<1> QED BY Zenon, <1>4 DEF ConvergingOK

\* Every step keeps the rows of the emails that are not excused converging.
LEMMA ConvergingStep ==
    ASSUME JmapTypes, CopiesOK, ConvergingOK, JmapNext
    PROVE  ConvergingOK'
  BY Zenon, MailboxSetConverging, EmailSetConverging, RefreshConverging, RebuildConverging DEF JmapNext

-----------------------------------------------------------------------------
(* What acknowledged Email/sets switched on *)

\* Email/set calls stay what they were while the email is owed no more.
LEMMA CallKeepsStays ==
    ASSUME NEW h \in Handlers, CallKeeps(h), eset'[h] = eset[h],
           eset[h] # NoEntry => owed'[eset[h].email] \subseteq owed[eset[h].email]
    PROVE  CallKeeps(h)'
  BY Zenon DEF CallKeeps, withdrawn

\* A mailbox that is owed is in QUERY's catalog as long as that does not change,
\* and when it becomes FILESTORE's.
LEMMA OwedNamedStays ==
    ASSUME NEW e \in Emails, OwedNamed(e), owed' = owed, live(cursor)' = live(cursor),
           \/ behind'
           \/ behind' = behind /\ live(rows)' = live(rows)
           \/ live(rows)' = live(cursor)
    PROVE  OwedNamed(e)'
<1>1. owed'[e] \subseteq Keywords \cup live(cursor)'
  BY Zenon DEF OwedNamed
<1>2. behind' \/ owed'[e] \subseteq Keywords \cup live(rows)'
  BY Zenon DEF OwedNamed
<1> QED BY Zenon, <1>1, <1>2 DEF OwedNamed

\* Mailbox/set: what is owed loses the mailboxes that it destroys.
LEMMA MailboxSetFlags ==
    ASSUME JmapTypes, CatalogsOK, FlagsOK, MailboxSet
    PROVE  FlagsOK'
<1> USE DEF overlayVars, queryVars, catalogAux, emailAux
<1>1. UNCHANGED <<overlay, members, eset, outdated>>
  BY Zenon DEF MailboxSet, JMAPMailboxes, JMAPMailboxEmailCounts, WriteSourceCursor,
     UpdateJMAPMailboxCatalog, mailboxSetFails
<1>2. CASE WriteSourceCursor
  <2>1. PICK cat \in edited : cursor' = cat /\ owed' = [e \in Emails |-> owed[e] \ (Custom \ live(cat))]
    BY Zenon, <1>2 DEF WriteSourceCursor
  <2>2. \A e \in Emails : owed'[e] = owed[e] \ (Custom \ live(cat))
    BY Zenon, <2>1
  <2>3. rows' = rows /\ behind' = behind
    BY Zenon, <1>2 DEF WriteSourceCursor
  <2>4. ASSUME NEW e \in Emails PROVE OwedStored(e)' /\ OwedNamed(e)' /\ OwedShown(e)'
    <3>1. OwedStored(e) /\ OwedNamed(e) /\ OwedShown(e)
      BY Zenon DEF FlagsOK
    <3>2. live(cursor) \subseteq Custom
      BY Zenon DEF live
    <3>3. owed'[e] \subseteq owed[e] /\ owed'[e] \subseteq Keywords \cup live(cat)
      BY Zenon, <2>2, <3>1, <3>2 DEF OwedNamed
    <3>4. OwedStored(e)'
      BY Zenon, <1>1, <3>1, <3>3 DEF OwedStored
    <3>5. OwedNamed(e)'
      <4>1. live(rows)' = live(rows) /\ live(cursor)' = live(cat)
        BY Zenon, <2>1, <2>3 DEF live
      <4> QED BY Zenon, <2>3, <3>1, <3>3, <4>1 DEF OwedNamed
    <3>6. OwedShown(e)'
      BY Zenon, <1>1, <3>1, <3>3 DEF OwedShown
    <3> QED BY Zenon, <3>4, <3>5, <3>6
  <2>5. ASSUME NEW h \in Handlers PROVE CallKeeps(h)'
    <3>1. eset[h] # NoEntry => eset[h].email \in Emails
      BY Zenon DEF JmapTypes, EsetTypes, EmailSets
    <3>2. eset[h] # NoEntry => owed'[eset[h].email] \subseteq owed[eset[h].email]
      BY Zenon, <2>2, <3>1
    <3> QED BY Zenon, <1>1, <3>2, CallKeepsStays DEF FlagsOK
  <2> QED BY Zenon, <2>4, <2>5 DEF FlagsOK
<1>3. CASE ~WriteSourceCursor
  <2>1. UNCHANGED <<cursor, owed>>
    BY Zenon, <1>3 DEF MailboxSet, JMAPMailboxes, JMAPMailboxEmailCounts, UpdateJMAPMailboxCatalog, mailboxSetFails
  <2>2. UNCHANGED <<rows, behind>> \/ rows' = cursor
    BY Zenon, <1>3 DEF MailboxSet, JMAPMailboxes, JMAPMailboxEmailCounts, UpdateJMAPMailboxCatalog,
       mailboxSetFails, projectCatalog, CatalogsOK
  <2>3. live(cursor)' = live(cursor) /\ (rows' = cursor => live(rows)' = live(cursor))
    BY Zenon, <2>1 DEF live
  <2>4. rows' = rows => live(rows)' = live(rows)
    BY Zenon DEF live
  <2>5. ASSUME NEW e \in Emails PROVE OwedStored(e)' /\ OwedNamed(e)' /\ OwedShown(e)'
    <3>1. OwedStored(e)' /\ OwedShown(e)'
      BY Zenon, <1>1, <2>1 DEF FlagsOK, OwedStored, OwedShown
    <3>2. OwedNamed(e)'
      BY Zenon, <2>1, <2>2, <2>3, <2>4, OwedNamedStays DEF FlagsOK
    <3> QED BY Zenon, <3>1, <3>2
  <2>6. \A h \in Handlers : CallKeeps(h)'
    BY Zenon, <1>1, <2>1 DEF FlagsOK, CallKeeps
  <2> QED BY Zenon, <2>5, <2>6 DEF FlagsOK
<1> QED BY Zenon, <1>2, <1>3

\* The rows that the worker and Rebuild write: what is owed is in them, unless
\* they come from an old overlay.
LEMMA WrittenShown ==
    ASSUME NEW e \in Emails, Untouched(e), OwedStored(e)
    PROVE  owed[e] \subseteq seeded(e, overlay[e])
<1>1. seeded(e, overlay[e]) = current(e)
  BY Zenon, SeededCurrent
<1> QED BY Zenon, <1>1 DEF OwedStored, current

\* The projection worker changes the rows only.
LEMMA RefreshFlags ==
    ASSUME JmapTypes, CopiesOK, FlagsOK, NEW e \in Emails, Refresh(e)
    PROVE  FlagsOK'
<1> USE DEF overlayVars, queryVars, catalogAux, emailAux
<1>1. UNCHANGED <<overlay, cursor, rows, eset, behind, owed>>
  BY Zenon DEF Refresh, objectChanged, noticeLost, refreshFails, NotifyObjectsChanged, ProjectionObject, ProjectObject
<1>2. \A x \in Emails : OwedStored(x)' /\ OwedNamed(x)'
  BY Zenon, <1>1 DEF FlagsOK, OwedStored, OwedNamed, live
<1>3. \A h \in Handlers : CallKeeps(h)'
  BY Zenon, <1>1 DEF FlagsOK, CallKeeps
<1>4. ASSUME NEW x \in Emails PROVE OwedShown(x)'
  <2>1. CASE /\ x = e /\ pend[e].at = "read" /\ members'[e] = seeded(e, pend[e].snap)
             /\ outdated' = IF pend[e].old THEN outdated \cup {e} ELSE outdated \ {e}
    <3>1. pend[e].old \/ pend[e].snap = overlay[e]
      BY Zenon, <2>1 DEF CopiesOK, PendCopy
    <3>2. owed[e] \subseteq seeded(e, overlay[e])
      BY Zenon, WrittenShown DEF FlagsOK, CopiesOK
    <3> QED BY Zenon, <1>1, <2>1, <3>1, <3>2 DEF OwedShown
  <2>2. CASE members'[x] = members[x] /\ (x \in outdated' <=> x \in outdated)
    BY Zenon, <1>1, <2>2 DEF FlagsOK, OwedShown
  <2>3. CASE ProjectObject(e)
    <3>1. CASE x = e
      <4>1. CASE projectable(pend[e].snap)
        BY Zenon, <2>1, <2>3, <3>1, <4>1 DEF ProjectObject, written, JmapTypes, StoredTypes
      <4>2. CASE ~projectable(pend[e].snap)
        BY Zenon, <2>2, <2>3, <4>2 DEF ProjectObject
      <4> QED BY Zenon, <4>1, <4>2
    <3>2. CASE x # e
      <4>1. members'[x] = members[x]
        BY Zenon, <2>3, <3>2 DEF ProjectObject, written, JmapTypes, StoredTypes
      <4>2. x \in outdated' <=> x \in outdated
        BY Zenon, <2>3, <3>2 DEF ProjectObject, written
      <4> QED BY Zenon, <2>2, <4>1, <4>2
    <3> QED BY Zenon, <3>1, <3>2
  <2>4. CASE ~ProjectObject(e)
    BY Zenon, <2>2, <2>4 DEF Refresh, objectChanged, noticeLost, refreshFails, NotifyObjectsChanged, ProjectionObject
  <2> QED BY Zenon, <2>3, <2>4
<1> QED BY Zenon, <1>2, <1>3, <1>4 DEF FlagsOK

\* Rebuild changes the rows and, from the latest catalog, the mailboxes; a wipe
\* ends every call.
LEMMA RebuildFlags ==
    ASSUME JmapTypes, CatalogsOK, CopiesOK, FlagsOK, Rebuild \/ wipe
    PROVE  FlagsOK'
<1> USE DEF overlayVars, queryVars, catalogAux, emailAux
<1>1. UNCHANGED <<overlay, cursor, owed>>
  BY Zenon DEF Rebuild, truncate, walkProjection, projectIndexObject, walkSourceCursors,
     ProjectSourceCursor, wipe
<1>2. \A h \in Handlers : CallKeeps(h)'
  <2>1. \A h \in Handlers : eset'[h] = eset[h] \/ eset'[h] = NoEntry
    BY Zenon DEF Rebuild, truncate, walkProjection, projectIndexObject, walkSourceCursors,
       ProjectSourceCursor, wipe
  <2> QED BY Zenon, <1>1, <2>1 DEF FlagsOK, CallKeeps
<1>3. \A x \in Emails : OwedStored(x)' /\ OwedNamed(x)'
  <2>1. UNCHANGED <<rows, behind>> \/ behind' \/ rows' = cursor
    BY Zenon DEF Rebuild, truncate, walkProjection, projectIndexObject, walkSourceCursors,
       ProjectSourceCursor, projectCatalog, wipe, CatalogsOK
  <2>2. live(cursor)' = live(cursor) /\ (rows' = cursor => live(rows)' = live(cursor))
    BY Zenon, <1>1 DEF live
  <2>3. rows' = rows => live(rows)' = live(rows)
    BY Zenon DEF live
  <2>4. ASSUME NEW x \in Emails PROVE OwedStored(x)' /\ OwedNamed(x)'
    <3>1. OwedStored(x)'
      BY Zenon, <1>1 DEF FlagsOK, OwedStored
    <3>2. OwedNamed(x)'
      BY Zenon, <1>1, <2>1, <2>2, <2>3, OwedNamedStays DEF FlagsOK
    <3> QED BY Zenon, <3>1, <3>2
  <2> QED BY Zenon, <2>4
<1>4. ASSUME NEW x \in Emails PROVE OwedShown(x)'
  <2>1. CASE /\ x = rb.email /\ rb.at = "loaded" /\ members'[x] = seeded(x, rb.snap)
             /\ outdated' = IF rb.old THEN outdated \cup {x} ELSE outdated \ {x}
    <3>1. rb.old \/ rb.snap = overlay[x]
      BY Zenon, <2>1 DEF CopiesOK, RebuildCopy
    <3>2. owed[x] \subseteq seeded(x, overlay[x])
      BY Zenon, WrittenShown DEF FlagsOK, CopiesOK
    <3> QED BY Zenon, <1>1, <2>1, <3>1, <3>2 DEF OwedShown
  <2>2. CASE (members'[x] = members[x] \/ members'[x] = NoEntry) /\ (x \in outdated' <=> x \in outdated)
    BY Zenon, <1>1, <2>2 DEF FlagsOK, OwedShown
  <2>3. CASE projectIndexObject
    BY Zenon, <2>1, <2>2, <2>3 DEF projectIndexObject, written, JmapTypes, StoredTypes
  <2>4. CASE ~projectIndexObject
    BY Zenon, <2>2, <2>4 DEF Rebuild, truncate, walkProjection, walkSourceCursors, ProjectSourceCursor, wipe
  <2> QED BY Zenon, <2>3, <2>4
<1> QED BY Zenon, <1>2, <1>3, <1>4 DEF FlagsOK

\* Email/set: a call that read current rows carries on what is owed; one that read
\* old rows settles for what it writes.
LEMMA EmailSetFlags ==
    ASSUME JmapTypes, CopiesOK, FlagsOK, NEW h \in Handlers, EmailSet(h)
    PROVE  FlagsOK'
<1> USE DEF overlayVars, queryVars, catalogAux, emailAux
<1>1. UNCHANGED <<cursor, rows, behind>>
  BY Zenon DEF EmailSet, JMAPEmailStates, WriteOverlays, UpdateJMAPEmailState, emailSetFails
<1>2. live(cursor)' = live(cursor) /\ live(rows)' = live(rows)
  BY Zenon, <1>1 DEF live
<1>3. ASSUME NEW e \in Emails, NEW p \in Patches, JMAPEmailStates(h, e, p) PROVE FlagsOK'
  <2>1. UNCHANGED <<overlay, members, owed, outdated>>
    BY Zenon, <1>3 DEF JMAPEmailStates
  <2>2. \A x \in Emails : OwedStored(x)' /\ OwedNamed(x)' /\ OwedShown(x)'
    BY Zenon, <1>1, <1>2, <2>1 DEF FlagsOK, OwedStored, OwedNamed, OwedShown
  <2>3. \A g \in Handlers \ {h} : CallKeeps(g)'
    <3>1. \A g \in Handlers \ {h} : eset'[g] = eset[g]
      BY Zenon, <1>3, EsetReads
    <3> QED BY Zenon, <2>1, <3>1 DEF FlagsOK, CallKeeps
  <2>4. CallKeeps(h)'
    <3>1. eset'[h] # NoEntry => /\ eset'[h].email = e /\ eset'[h].patch = p
                                /\ eset'[h].update = applyJMAPBoolMap(visible(members[e]), p)
                                /\ (eset'[h].stale <=> behind \/ e \in outdated)
      BY Zenon, <1>3, EsetReads
    <3>2. p.on \ p.off \subseteq applyJMAPBoolMap(visible(members[e]), p)
      BY Zenon DEF applyJMAPBoolMap
    <3>3. ASSUME ~behind, e \notin outdated
          PROVE  owed[e] \ withdrawn(p) \subseteq applyJMAPBoolMap(visible(members[e]), p)
      <4>1. owed[e] \subseteq members[e] /\ owed[e] \subseteq Keywords \cup live(rows)
        BY Zenon, <1>3, <3>3 DEF JMAPEmailStates, FlagsOK, OwedShown, OwedNamed
      <4>2. owed[e] \subseteq visible(members[e])
        BY Zenon, <4>1 DEF visible
      <4> QED BY Zenon, <4>2 DEF applyJMAPBoolMap, withdrawn
    <3> QED BY Zenon, <2>1, <3>1, <3>2, <3>3 DEF CallKeeps
  <2> QED BY Zenon, <2>2, <2>3, <2>4 DEF FlagsOK
<1>4. CASE WriteOverlays(h)
  <2>1. eset[h] \in EmailSets /\ eset[h] # NoEntry /\ eset[h].at = "read"
    BY Zenon, <1>4, EsetWrites
  <2>2. PICK e \in Emails : e = eset[h].email
    BY Zenon, <2>1 DEF EmailSets
  <2>3. eset[h].update \in SUBSET Marks /\ eset[h].update # NoEntry
    BY <2>1, JmapStateAssumption DEF EmailSets
  <2>4. /\ overlay'[e] = eset[h].update /\ \A x \in Emails \ {e} : overlay'[x] = overlay[x]
        /\ members' = members /\ outdated' = outdated
    BY Zenon, <1>4, <2>2 DEF WriteOverlays, JmapTypes, StoredTypes
  <2>5. /\ owed'[e] = (owed[e] \ withdrawn(eset[h].patch)) \cap (IF eset[h].stale THEN eset[h].update ELSE Marks)
        /\ \A x \in Emails \ {e} : owed'[x] = owed[x]
    BY Zenon, <1>4, <2>2 DEF WriteOverlays, withdrawn, JmapTypes, HistoryTypes
  <2>6. owed'[e] \subseteq eset[h].update
    BY Zenon, <2>1, <2>2, <2>5 DEF FlagsOK, CallKeeps
  <2>7. \A x \in Emails : owed'[x] \subseteq owed[x]
    BY Zenon, <2>5
  <2>8. ASSUME NEW x \in Emails PROVE OwedStored(x)' /\ OwedNamed(x)' /\ OwedShown(x)'
    <3>1. OwedStored(x)'
      <4>1. CASE x = e
        BY Zenon, <2>3, <2>4, <2>6, <4>1 DEF OwedStored
      <4>2. CASE x # e
        BY Zenon, <2>4, <2>5, <4>2 DEF FlagsOK, OwedStored
      <4> QED BY Zenon, <4>1, <4>2
    <3>2. OwedNamed(x)'
      BY Zenon, <1>1, <1>2, <2>7 DEF FlagsOK, OwedNamed
    <3>3. OwedShown(x)'
      BY Zenon, <2>4, <2>7 DEF FlagsOK, OwedShown
    <3> QED BY Zenon, <3>1, <3>2, <3>3
  <2>9. ASSUME NEW g \in Handlers PROVE CallKeeps(g)'
    <3>1. CASE sameCall(g) /\ eset'[g].at = "written"
      <4>1. eset'[g].at # "read"
        BY <3>1
      <4> QED BY Zenon, <3>1, <4>1 DEF FlagsOK, CallKeeps, sameCall
    <3>2. CASE eset'[g] = eset[g]
      <4>1. eset[g] # NoEntry => eset[g].email \in Emails
        BY DEF JmapTypes, EsetTypes, EmailSets
      <4> QED BY Zenon, <2>7, <3>2, <4>1, CallKeepsStays DEF FlagsOK
    <3> QED BY Zenon, <1>4, <3>1, <3>2, EsetWrites
  <2> QED BY Zenon, <2>8, <2>9 DEF FlagsOK
<1>5. CASE emailSetFails(h) \/ (UpdateJMAPEmailState(h) /\ owed' = owed /\ members' = members
                                /\ outdated' = outdated /\ eset' = [eset EXCEPT ![h] = NoEntry])
  <2>1. UNCHANGED <<overlay, members, owed, outdated>>
    BY Zenon, <1>5 DEF emailSetFails, UpdateJMAPEmailState
  <2>2. \A x \in Emails : OwedStored(x)' /\ OwedNamed(x)' /\ OwedShown(x)'
    BY Zenon, <1>1, <1>2, <2>1 DEF FlagsOK, OwedStored, OwedNamed, OwedShown
  <2>3. \A g \in Handlers : eset'[g] = NoEntry \/ eset'[g] = eset[g]
    BY Zenon, <1>5 DEF emailSetFails, JmapTypes, EsetTypes
  <2>4. \A g \in Handlers : CallKeeps(g)'
    BY Zenon, <2>1, <2>3 DEF FlagsOK, CallKeeps
  <2> QED BY Zenon, <2>2, <2>4 DEF FlagsOK
<1>6. CASE UpdateJMAPEmailState(h) /\ members[eset[h].email] # NoEntry /\ rowsExist(eset[h].update)
  <2>1. eset[h] \in EmailSets /\ eset[h] # NoEntry /\ eset[h].at = "written" /\ eset'[h] = NoEntry
    BY Zenon, <1>6, EsetEnds DEF UpdateJMAPEmailState
  <2>2. PICK e \in Emails : e = eset[h].email
    BY Zenon, <2>1 DEF EmailSets
  <2> DEFINE mine == IF eset[h].old THEN {} ELSE eset[h].patch.on \ eset[h].patch.off
             kept == Keywords \cup (live(cursor) \cap live(rows))
  <2>3. /\ overlay' = overlay
        /\ members'[e] = eset[h].update /\ \A x \in Emails \ {e} : members'[x] = members[x]
        /\ outdated' = IF eset[h].old THEN outdated \cup {e} ELSE outdated \ {e}
    BY Zenon, <1>6, <2>2 DEF UpdateJMAPEmailState, written, JmapTypes, StoredTypes
  <2>4. owed'[e] = owed[e] \cup (mine \cap kept) /\ \A x \in Emails \ {e} : owed'[x] = owed[x]
    BY Zenon, <1>6, <2>2 DEF UpdateJMAPEmailState, JmapTypes, HistoryTypes
  <2>5. overlay[e] # NoEntry /\ (eset[h].old \/ eset[h].update = overlay[e])
    BY Zenon, <2>1, <2>2 DEF CopiesOK, CallCopy
  <2>6. mine \subseteq overlay[e]
    BY Zenon, <2>1, <2>5 DEF FlagsOK, CallKeeps
  <2>7. owed'[e] \subseteq overlay[e]
    BY Zenon, <2>4, <2>6 DEF FlagsOK, OwedStored
  <2>8. OwedStored(e)' /\ OwedNamed(e)' /\ OwedShown(e)'
    <3>1. OwedStored(e)'
      BY Zenon, <2>3, <2>5, <2>7 DEF OwedStored
    <3>2. OwedNamed(e)'
      <4>1. owed'[e] \subseteq Keywords \cup live(cursor)
        BY Zenon, <2>4 DEF FlagsOK, OwedNamed
      <4>2. behind \/ owed'[e] \subseteq Keywords \cup live(rows)
        BY Zenon, <2>4 DEF FlagsOK, OwedNamed
      <4> QED BY Zenon, <1>1, <1>2, <4>1, <4>2 DEF OwedNamed
    <3>3. OwedShown(e)'
      BY Zenon, <2>3, <2>5, <2>7 DEF OwedShown
    <3> QED BY Zenon, <3>1, <3>2, <3>3
  <2>9. ASSUME NEW x \in Emails \ {e} PROVE OwedStored(x)' /\ OwedNamed(x)' /\ OwedShown(x)'
    <3>1. owed'[x] = owed[x] /\ members'[x] = members[x] /\ (x \in outdated' <=> x \in outdated)
      BY Zenon, <2>3, <2>4
    <3> QED BY Zenon, <1>1, <1>2, <2>3, <3>1 DEF FlagsOK, OwedStored, OwedNamed, OwedShown
  <2>10. ASSUME NEW g \in Handlers, g # h PROVE CallKeeps(g)'
    <3>1. CASE g \in others(h, e, "read")
      <4>1. eset'[g] = [eset[g] EXCEPT !.stale = TRUE]
        BY Zenon, <1>6, <2>2, <2>10, <3>1 DEF UpdateJMAPEmailState
      <4>2. eset[g] \in EmailSets /\ eset[g] # NoEntry
        BY Zenon, <3>1 DEF others, JmapTypes, EsetTypes
      <4>3. eset'[g].stale /\ sameCall(g)
        BY <4>1, <4>2 DEF EmailSets, sameCall
      <4> QED BY Zenon, <4>3 DEF FlagsOK, CallKeeps, sameCall
    <3>2. CASE g \notin others(h, e, "read")
      <4>1. eset'[g] = eset[g]
        BY Zenon, <1>6, <2>2, <2>10, <3>2 DEF UpdateJMAPEmailState
      <4>2. eset[g] # NoEntry => eset[g].email \in Emails
        BY Zenon DEF JmapTypes, EsetTypes, EmailSets
      <4>3. eset[g] # NoEntry /\ eset[g].at = "read" => eset[g].email \in Emails \ {e}
        BY Zenon, <2>10, <3>2, <4>2 DEF others
      <4> QED BY Zenon, <2>4, <4>1, <4>3 DEF FlagsOK, CallKeeps
    <3> QED BY Zenon, <3>1, <3>2
  <2>11. CallKeeps(h)'
    BY Zenon, <2>1 DEF CallKeeps
  <2> QED BY Zenon, <2>8, <2>9, <2>10, <2>11 DEF FlagsOK
<1> QED BY Zenon, <1>3, <1>4, <1>5, <1>6 DEF EmailSet, UpdateJMAPEmailState

\* Every step keeps what is owed.
LEMMA FlagsStep ==
    ASSUME JmapTypes, CatalogsOK, CopiesOK, FlagsOK, JmapNext
    PROVE  FlagsOK'
  BY Zenon, MailboxSetFlags, EmailSetFlags, RefreshFlags, RebuildFlags DEF JmapNext

-----------------------------------------------------------------------------
(* Emails and mailboxes *)

\* Where a state of an email is held.
LEMMA Reached ==
    ASSUME NEW e \in Emails, NEW s
    PROVE  s \in reach(e) <=>
              \/ s = current(e)
              \/ e \notin outdated /\ s = members[e] /\ s # NoEntry
              \/ \E h \in Handlers : eset[h] # NoEntry /\ eset[h].email = e /\ s = eset[h].update
  BY Zenon DEF reach

\* The same after a step.
LEMMA ReachedNext ==
    ASSUME NEW e \in Emails, NEW s \in reach(e)'
    PROVE  \/ s = current(e)'
           \/ e \notin outdated' /\ s = members'[e] /\ s # NoEntry
           \/ \E h \in Handlers : eset'[h] # NoEntry /\ eset'[h].email = e /\ s = eset'[h].update
  BY Zenon DEF reach

\* A state lasts as long as the catalogs and the Mailbox/set stay.
LEMMA LastingStays ==
    ASSUME UNCHANGED <<cursor, rows, behind, mset>>, NEW s, lasting(s)
    PROVE  lasting(s)'
  BY Zenon DEF lasting, shown, live

\* Where the catalogs stay, it is enough that no email gets another state.
LEMMA ShownStays ==
    ASSUME ShownOK, UNCHANGED <<cursor, rows, behind, mset>>, stranded \subseteq stranded',
           \A e \in Emails \ stranded' : \A s \in reach(e)' : s \in reach(e)
    PROVE  ShownOK'
  BY Zenon, LastingStays DEF ShownOK

\* A step that writes no rows and no overlay, and starts no call, gives no email
\* another state.
LEMMA ReachStays ==
    ASSUME NEW e \in Emails, overlay'[e] = overlay[e],
           e \notin outdated' /\ members'[e] # NoEntry =>
               members'[e] = current(e) \/ (e \notin outdated /\ members'[e] = members[e]),
           \A h \in Handlers : eset'[h] # NoEntry /\ eset'[h].email = e =>
               eset[h] # NoEntry /\ eset[h].email = e /\ eset'[h].update = eset[h].update,
           NEW s \in reach(e)'
    PROVE  s \in reach(e)
<1>1. current(e)' = current(e)
  BY Zenon DEF current
<1>2. CASE s = current(e)'
  BY Zenon, <1>1, <1>2, Reached
<1>3. CASE e \notin outdated' /\ s = members'[e] /\ s # NoEntry
  BY Zenon, <1>3, Reached
<1>4. CASE \E h \in Handlers : eset'[h] # NoEntry /\ eset'[h].email = e /\ s = eset'[h].update
  <2>1. PICK h \in Handlers : eset'[h] # NoEntry /\ eset'[h].email = e /\ s = eset'[h].update
    BY Zenon, <1>4
  <2>2. eset[h] # NoEntry /\ eset[h].email = e /\ eset'[h].update = eset[h].update
    BY Zenon, <2>1
  <2>3. s = eset[h].update
    BY Zenon, <2>1, <2>2
  <2> QED BY Zenon, <2>2, <2>3, Reached
<1> QED BY Zenon, <1>2, <1>3, <1>4, ReachedNext

\* Mailbox/set destroys no mailbox that holds mail when the emails are counted.
LEMMA MailboxSetShown ==
    ASSUME JmapTypes, CatalogsOK, ShownOK, MailboxSet
    PROVE  ShownOK'
<1> USE DEF overlayVars, queryVars, catalogAux, emailAux
<1>1. UNCHANGED <<overlay, members, eset, outdated>>
  BY Zenon DEF MailboxSet, JMAPMailboxes, JMAPMailboxEmailCounts, WriteSourceCursor,
     UpdateJMAPMailboxCatalog, mailboxSetFails
<1>2. \A e \in Emails : reach(e)' = reach(e)
  BY Zenon, <1>1 DEF reach, current
<1>3. stranded \subseteq stranded'
  BY Zenon DEF MailboxSet, JMAPMailboxes, JMAPMailboxEmailCounts, WriteSourceCursor,
     UpdateJMAPMailboxCatalog, mailboxSetFails, JmapTypes, HistoryTypes
<1>4. ASSUME NEW e \in Emails \ stranded', NEW s \in reach(e) PROVE lasting(s)'
  <2>1. lasting(s) /\ e \in Emails /\ e \notin stranded /\ e \notin stranded'
    BY Zenon, <1>3 DEF ShownOK
  <2>2. CASE JMAPMailboxes
    <3>1. UNCHANGED <<cursor, rows, behind>>
      BY Zenon, <2>2 DEF JMAPMailboxes
    <3>2. mset'.at # "counted" /\ mset'.draft = rows /\ (mset'.risky <=> behind)
      BY <2>2, MsetMoves
    <3> QED BY Zenon, <2>1, <3>1, <3>2 DEF lasting, shown, live
  <2>3. CASE JMAPMailboxEmailCounts
    <3>1. UNCHANGED <<cursor, rows, behind>>
      BY Zenon, <2>3 DEF JMAPMailboxEmailCounts
    <3>2. /\ mset # NoEntry /\ mset.at # "written" /\ mset'.draft = mset.draft /\ (mset'.risky <=> mset.risky)
          /\ mset'.full = {m \in Custom : \E x \in Emails : members[x] # NoEntry /\ m \in members[x]}
      BY Zenon, <2>3, MsetMoves
    <3>3. ~inFlight(e) /\ members[e] = current(e)
      BY Zenon, <2>1, <2>3 DEF JMAPMailboxEmailCounts
    <3>4. s = members[e]
      BY ZenonT(30), <3>3, Reached DEF inFlight
    <3>5. members[e] # NoEntry
      <4>1. Defaults \in SUBSET Marks
        BY JmapStateAssumption DEF Marks, Boxes
      <4> QED BY Zenon, <3>3, <4>1, JmapStateAssumption DEF current
    <3>6. s \cap Custom \subseteq mset'.full
      BY Zenon, <3>2, <3>4, <3>5
    <3> QED BY Zenon, <2>1, <3>1, <3>2, <3>6 DEF lasting, shown, live
  <2>4. CASE WriteSourceCursor
    <3>1. PICK cat \in edited : cursor' = cat
      BY Zenon, <2>4 DEF WriteSourceCursor
    <3>2. UNCHANGED <<rows, behind>> /\ mset # NoEntry /\ mset.at = "counted" /\ ~mset.risky
      BY Zenon, <2>1, <2>4 DEF WriteSourceCursor
    <3>3. mset'.at = "written" /\ mset'.at # "counted" /\ mset.at # "written"
      BY <2>4, <3>2, MsetMoves
    <3>4. shown(s, mset.draft) /\ s \cap Custom \subseteq mset.full
      BY Zenon, <2>1, <3>2, <3>3 DEF lasting
    <3>5. live(mset.draft) \cap mset.full \subseteq live(cat)
      <4>1. mset.draft \in Catalogs
        BY <3>2 DEF JmapTypes, MsetTypes, MailboxSets, Catalogs
      <4> QED BY Zenon, <3>2, <4>1, EditedKept DEF CatalogsOK
    <3>6. shown(s, cat)
      <4>1. live(mset.draft) \subseteq Custom
        BY Zenon DEF live
      <4> QED BY Zenon, <3>4, <3>5, <4>1 DEF shown
    <3>7. behind' \/ shown(s, rows)'
      BY Zenon, <2>1, <3>2 DEF lasting, shown, live
    <3>8. shown(s, cursor)'
      BY Zenon, <3>1, <3>6 DEF shown, live
    <3> QED BY Zenon, <3>3, <3>7, <3>8 DEF lasting
  <2>5. CASE UpdateJMAPMailboxCatalog \/ mailboxSetFails
    <3>1. cursor' = cursor /\ mset' = NoEntry
      BY Zenon, <2>5 DEF UpdateJMAPMailboxCatalog, mailboxSetFails
    <3>2. UNCHANGED <<rows, behind>> \/ rows' = cursor
      BY Zenon, <2>5 DEF UpdateJMAPMailboxCatalog, mailboxSetFails, projectCatalog, CatalogsOK
    <3> QED BY Zenon, <2>1, <3>1, <3>2 DEF lasting, shown, live
  <2> QED BY Zenon, <2>2, <2>3, <2>4, <2>5 DEF MailboxSet
<1> QED BY Zenon, <1>2, <1>4 DEF ShownOK

\* Email/set brings a state of its own into play only while no Mailbox/set runs,
\* with a mailbox that both catalogs have; or it strands the email.
LEMMA EmailSetShown ==
    ASSUME JmapTypes, ShownOK, NEW h \in Handlers, EmailSet(h)
    PROVE  ShownOK'
<1> USE DEF overlayVars, queryVars, catalogAux, emailAux
<1>1. UNCHANGED <<cursor, rows, behind, mset>>
  BY Zenon DEF EmailSet, JMAPEmailStates, WriteOverlays, UpdateJMAPEmailState, emailSetFails
<1>2. stranded \subseteq stranded'
  BY Zenon DEF EmailSet, JMAPEmailStates, WriteOverlays, UpdateJMAPEmailState, emailSetFails
<1>3. ASSUME NEW e \in Emails, NEW p \in Patches, JMAPEmailStates(h, e, p) PROVE ShownOK'
  <2> DEFINE update == applyJMAPBoolMap(visible(members[e]), p)
  <2>1. UNCHANGED <<overlay, members, outdated>>
    BY Zenon, <1>3 DEF JMAPEmailStates
  <2>2. /\ eset'[h] # NoEntry => eset'[h].email = e /\ eset'[h].update = update
        /\ \A g \in Handlers \ {h} : eset'[g] = eset[g]
    BY Zenon, <1>3, EsetReads
  <2>3. ASSUME NEW x \in Emails, NEW s \in reach(x)' PROVE s \in reach(x) \/ (x = e /\ s = update)
    <3>1. current(x)' = current(x)
      BY Zenon, <2>1 DEF current
    <3>2. CASE s = current(x)' \/ (x \notin outdated' /\ s = members'[x] /\ s # NoEntry)
      BY Zenon, <2>1, <3>1, <3>2, Reached
    <3>3. ASSUME NEW g \in Handlers, eset'[g] # NoEntry, eset'[g].email = x, s = eset'[g].update
          PROVE  s \in reach(x) \/ (x = e /\ s = update)
      BY Zenon, <2>2, <3>3, Reached
    <3> QED BY ZenonT(30), <3>2, <3>3, ReachedNext
  <2>4. e \notin stranded' => lasting(update)
    <3>1. SUFFICES ASSUME e \notin stranded' PROVE lasting(update)
      BY Zenon
    <3>2. mset = NoEntry /\ update \cap Custom \subseteq live(rows) \cap live(cursor) /\ update \cap Boxes # {}
      BY Zenon, <1>3, <3>1 DEF JMAPEmailStates
    <3>3. shown(update, cursor) /\ shown(update, rows)
      BY Zenon, <3>2 DEF shown, Boxes
    <3> QED BY Zenon, <3>2, <3>3 DEF lasting
  <2>5. ASSUME NEW x \in Emails \ stranded', NEW s \in reach(x)' PROVE lasting(s)'
    <3>1. lasting(s)
      BY Zenon, <1>2, <2>3, <2>4 DEF ShownOK
    <3> QED BY Zenon, <1>1, <3>1, LastingStays
  <2> QED BY Zenon, <2>5 DEF ShownOK
<1>4. CASE WriteOverlays(h)
  <2>1. eset[h] \in EmailSets /\ eset[h] # NoEntry
    BY Zenon, <1>4, EsetWrites
  <2>2. PICK e \in Emails : e = eset[h].email
    BY Zenon, <2>1 DEF EmailSets
  <2>3. eset[h].update # NoEntry
    BY <2>1, JmapStateAssumption DEF EmailSets
  <2>4. /\ overlay'[e] = eset[h].update /\ \A x \in Emails \ {e} : overlay'[x] = overlay[x]
        /\ UNCHANGED <<members, outdated>>
    BY Zenon, <1>4, <2>2 DEF WriteOverlays, JmapTypes, StoredTypes
  <2>5. \A g \in Handlers : eset'[g] = eset[g] \/ sameCall(g)
    BY Zenon, <1>4, EsetWrites
  <2>6. ASSUME NEW x \in Emails, NEW s \in reach(x)' PROVE s \in reach(x)
    <3>1. current(x)' = current(x) \/ (x = e /\ current(x)' = eset[h].update)
      BY Zenon, <2>3, <2>4 DEF current
    <3>2. CASE s = current(x)'
      BY Zenon, <2>1, <2>2, <3>1, <3>2, Reached
    <3>3. CASE x \notin outdated' /\ s = members'[x] /\ s # NoEntry
      BY Zenon, <2>4, <3>3, Reached
    <3>4. ASSUME NEW g \in Handlers, eset'[g] # NoEntry, eset'[g].email = x, s = eset'[g].update
          PROVE  s \in reach(x)
      <4>1. eset[g] # NoEntry /\ eset[g].email = x /\ s = eset[g].update
        BY Zenon, <2>5, <3>4 DEF sameCall
      <4> QED BY Zenon, <4>1, Reached
    <3> QED BY Zenon, <3>2, <3>3, <3>4, ReachedNext
  <2> QED BY Zenon, <1>1, <1>2, <2>6, ShownStays
<1>5. CASE UpdateJMAPEmailState(h) \/ emailSetFails(h)
  <2>1. eset[h] \in EmailSets /\ eset[h] # NoEntry /\ eset'[h] = NoEntry
    BY Zenon, <1>5, EsetEnds
  <2>2. overlay' = overlay
    BY Zenon, <1>5 DEF UpdateJMAPEmailState, emailSetFails
  <2>3. \A g \in Handlers : eset'[g] # NoEntry => eset'[g] = eset[g] \/ sameCall(g)
    BY Zenon, <1>5, <2>1, EsetEnds
  <2>4. \A x \in Emails : \/ members'[x] = members[x] /\ (x \in outdated' <=> x \in outdated)
                          \/ x = eset[h].email /\ members'[x] = eset[h].update
    <3>1. CASE emailSetFails(h) \/ (members' = members /\ outdated' = outdated)
      BY Zenon, <3>1 DEF emailSetFails
    <3>2. CASE written(eset[h].email, eset[h].update, eset[h].old)
      BY Zenon, <3>2 DEF written, JmapTypes, StoredTypes
    <3> QED BY Zenon, <1>5, <3>1, <3>2 DEF UpdateJMAPEmailState
  <2>5. ASSUME NEW x \in Emails, NEW s \in reach(x)' PROVE s \in reach(x)
    <3>1. CASE s = current(x)'
      BY Zenon, <2>2, <3>1, Reached DEF current
    <3>2. CASE x \notin outdated' /\ s = members'[x] /\ s # NoEntry
      BY Zenon, <2>1, <2>4, <3>2, Reached
    <3>3. ASSUME NEW g \in Handlers, eset'[g] # NoEntry, eset'[g].email = x, s = eset'[g].update
          PROVE  s \in reach(x)
      <4>1. eset[g] # NoEntry /\ eset[g].email = x /\ s = eset[g].update
        BY Zenon, <2>3, <3>3 DEF sameCall
      <4> QED BY Zenon, <4>1, Reached
    <3> QED BY ZenonT(30), <3>1, <3>2, <3>3, ReachedNext
  <2> QED BY Zenon, <1>1, <1>2, <2>5, ShownStays
<1> QED BY Zenon, <1>3, <1>4, <1>5 DEF EmailSet

\* Projections write what the overlay holds, or mark the rows outdated.
LEMMA ProjectedReach ==
    ASSUME JmapTypes, CopiesOK, NEW x \in Emails,
           \/ \E e \in Emails : Refresh(e)
           \/ truncate \/ (\E e \in Emails : walkProjection(e)) \/ projectIndexObject \/ walkSourceCursors,
           x \notin outdated', members'[x] # NoEntry
    PROVE  members'[x] = current(x) \/ (x \notin outdated /\ members'[x] = members[x])
<1> USE DEF queryVars, emailAux
<1>1. ASSUME NEW e \in Emails, ProjectObject(e), projectable(pend[e].snap)
      PROVE  members'[x] = current(x) \/ (x \notin outdated /\ members'[x] = members[x])
  <2>1. written(e, seeded(e, pend[e].snap), pend[e].old) /\ pend[e].at = "read"
    BY Zenon, <1>1 DEF ProjectObject
  <2>2. CASE x # e
    BY Zenon, <2>1, <2>2 DEF written, JmapTypes, StoredTypes
  <2>3. CASE x = e
    <3>1. ~pend[e].old /\ members'[e] = seeded(e, pend[e].snap)
      BY Zenon, <2>1, <2>3 DEF written, JmapTypes, StoredTypes
    <3>2. pend[e].snap = overlay[e] /\ Untouched(e)
      BY Zenon, <2>1, <3>1 DEF CopiesOK, PendCopy
    <3> QED BY Zenon, <2>3, <3>1, <3>2, SeededCurrent
  <2> QED BY Zenon, <2>2, <2>3
<1>2. ASSUME projectIndexObject, projectable(rb.snap)
      PROVE  members'[x] = current(x) \/ (x \notin outdated /\ members'[x] = members[x])
  <2>1. written(rb.email, seeded(rb.email, rb.snap), rb.old) /\ rb.at = "loaded"
    BY Zenon, <1>2 DEF projectIndexObject
  <2>2. CASE x # rb.email
    BY Zenon, <2>1, <2>2 DEF written, JmapTypes, StoredTypes
  <2>3. CASE x = rb.email
    <3>1. ~rb.old /\ members'[x] = seeded(x, rb.snap)
      BY Zenon, <2>1, <2>3 DEF written, JmapTypes, StoredTypes
    <3>2. rb.snap = overlay[x] /\ Untouched(x)
      BY Zenon, <2>1, <2>3, <3>1 DEF CopiesOK, RebuildCopy
    <3> QED BY Zenon, <3>1, <3>2, SeededCurrent
  <2> QED BY Zenon, <2>2, <2>3
<1>3. CASE truncate
  BY Zenon, <1>3 DEF truncate
<1>4. CASE UNCHANGED <<members, outdated>>
  BY Zenon, <1>4
<1> QED BY Zenon, <1>1, <1>2, <1>3, <1>4 DEF Refresh, objectChanged, noticeLost, refreshFails, NotifyObjectsChanged,
     ProjectionObject, ProjectObject, walkProjection, projectIndexObject, walkSourceCursors

\* The projection worker and Rebuild give no email another state; the catalog that
\* Rebuild projects is FILESTORE's, or leaves QUERY behind, as a wipe does.
LEMMA ProjectionShown ==
    ASSUME JmapTypes, CatalogsOK, CopiesOK, ShownOK, (\E e \in Emails : Refresh(e)) \/ Rebuild \/ wipe
    PROVE  ShownOK'
<1> USE DEF overlayVars, queryVars, catalogAux, emailAux
<1>1. UNCHANGED <<overlay, cursor, stranded>>
  BY Zenon DEF Refresh, objectChanged, noticeLost, refreshFails, NotifyObjectsChanged, ProjectionObject, ProjectObject,
     Rebuild, truncate, walkProjection, projectIndexObject, walkSourceCursors, ProjectSourceCursor, wipe
<1>2. \A h \in Handlers : eset'[h] = eset[h] \/ eset'[h] = NoEntry
  BY Zenon DEF Refresh, objectChanged, noticeLost, refreshFails, NotifyObjectsChanged, ProjectionObject, ProjectObject,
     Rebuild, truncate, walkProjection, projectIndexObject, walkSourceCursors, ProjectSourceCursor, wipe
<1>3. ASSUME NEW e \in Emails, NEW s \in reach(e)' PROVE s \in reach(e)
  <2>1. e \notin outdated' /\ members'[e] # NoEntry =>
          members'[e] = current(e) \/ (e \notin outdated /\ members'[e] = members[e])
    <3>1. CASE ProjectSourceCursor \/ wipe
      BY Zenon, <3>1 DEF ProjectSourceCursor, wipe
    <3> QED BY Zenon, <3>1, ProjectedReach DEF Rebuild
  <2> QED BY Zenon, <1>1, <1>2, <2>1, ReachStays
<1>4. \/ UNCHANGED <<rows, behind, mset>>
      \/ mset' = mset /\ (behind' \/ rows' = cursor)
      \/ mset' = NoEntry /\ behind'
  BY Zenon DEF Refresh, objectChanged, noticeLost, refreshFails, NotifyObjectsChanged, ProjectionObject, ProjectObject,
     Rebuild, truncate, walkProjection, projectIndexObject, walkSourceCursors, ProjectSourceCursor,
     projectCatalog, wipe, CatalogsOK
<1>5. ASSUME NEW s, lasting(s) PROVE lasting(s)'
  BY Zenon, <1>1, <1>4, <1>5 DEF lasting, shown, live
<1> QED BY Zenon, <1>1, <1>3, <1>5 DEF ShownOK

\* Every step leaves the emails that are not stranded in a mailbox.
LEMMA ShownStep ==
    ASSUME JmapTypes, CatalogsOK, CopiesOK, ShownOK, JmapNext
    PROVE  ShownOK'
  BY Zenon, MailboxSetShown, EmailSetShown, ProjectionShown DEF JmapNext

-----------------------------------------------------------------------------
(* The invariant holds *)

\* Every step keeps the types.
LEMMA TypesStep ==
    ASSUME JmapTypes, CatalogsOK, JmapNext
    PROVE  JmapTypes'
<1>1. mset # NoEntry => edited \subseteq Catalogs
  <2>1. mset # NoEntry => mset.draft \in Catalogs
    BY DEF JmapTypes, MsetTypes, MailboxSets, Catalogs
  <2> QED BY Zenon, <2>1, EditedKept DEF CatalogsOK
<1>2. CASE MailboxSet
  BY Zenon, <1>1, <1>2, MailboxSetTypes
<1>3. CASE \E h \in Handlers : EmailSet(h)
  BY Zenon, <1>3, EmailSetTypes
<1>4. CASE \E e \in Emails : Refresh(e)
  BY Zenon, <1>4, RefreshStepTypes
<1>5. CASE Rebuild \/ wipe
  BY Zenon, <1>5, RebuildStepTypes
<1> QED BY Zenon, <1>2, <1>3, <1>4, <1>5 DEF JmapNext

\* The initial state: no overlay, default rows, both catalogs the same.
LEMMA JmapInitInv == JmapInit => JmapInv
<1> SUFFICES ASSUME JmapInit PROVE JmapInv
  BY Zenon
<1>1. Defaults \in SUBSET Marks /\ Defaults # NoEntry
  BY Zenon, JmapStateAssumption DEF Marks, Boxes
<1>2. \A e \in Emails : overlay[e] = NoEntry /\ members[e] = Defaults /\ owed[e] = {}
  BY Zenon DEF JmapInit
<1>3. \A e \in Emails : pend[e].at # "read" /\ pend[e].at # "queued" /\ ~pend[e].old
  BY Zenon DEF JmapInit, noRefresh
<1>4. \A h \in Handlers : eset[h] = NoEntry
  BY Zenon DEF JmapInit
<1>5. rb.at \notin {"walk", "loaded", "catalog"} /\ rb.at # "catalog" /\ rb.at # "loaded"
  BY Zenon DEF JmapInit, noRebuild
<1>6. /\ mset = NoEntry /\ cursor = Initial /\ rows = Initial /\ acked = live(Initial)
      /\ outdated = {} /\ behind = FALSE
  BY Zenon DEF JmapInit
<1>7. JmapTypes
  <2>1. StoredTypes
    BY Zenon, <1>1, InitialTypes DEF JmapInit, StoredTypes, States
  <2>2. EsetTypes /\ MsetTypes
    BY Zenon DEF JmapInit, EsetTypes, MsetTypes
  <2>3. RefreshTypes
    BY Zenon DEF JmapInit, RefreshTypes, Refreshes, noRefresh, States
  <2>4. RebuildTypes
    BY Zenon, InitialTypes DEF JmapInit, RebuildTypes, Rebuilds, noRebuild, States
  <2>5. HistoryTypes
    BY Zenon DEF JmapInit, HistoryTypes
  <2> QED BY Zenon, <2>1, <2>2, <2>3, <2>4, <2>5 DEF JmapTypes
<1>8. CatalogsOK
  BY Zenon, <1>5, <1>6, InitialAssumption DEF CatalogsOK
<1>9. CopiesOK
  BY Zenon, <1>2, <1>3, <1>4, <1>5 DEF CopiesOK, CallCopy, PendCopy, RebuildCopy, Untouched
<1>10. RebuildOK
  BY Zenon, <1>1, <1>2, <1>5 DEF RebuildOK
<1>11. ConvergingOK
  BY Zenon, <1>2, <1>3, <1>4, <1>5 DEF ConvergingOK, Converging, current
<1>12. FlagsOK
  BY Zenon, <1>2, <1>4, <1>6 DEF FlagsOK, OwedStored, OwedNamed, OwedShown, CallKeeps
<1>13. ShownOK
  <2>1. ASSUME NEW e \in Emails, NEW s \in reach(e) PROVE lasting(s)
    <3>1. s = Defaults
      <4>1. current(e) = Defaults
        BY Zenon, <1>2 DEF current
      <4>2. s = current(e) \/ s = members[e]
        BY Zenon, <1>4, Reached
      <4> QED BY Zenon, <1>2, <4>1, <4>2
    <3>2. shown(s, Initial)
      BY Zenon, <3>1, JmapStateAssumption DEF shown
    <3> QED BY Zenon, <1>6, <3>2 DEF lasting
  <2> QED BY Zenon, <2>1 DEF ShownOK
<1> QED BY Zenon, <1>7, <1>8, <1>9, <1>10, <1>11, <1>12, <1>13 DEF JmapInv

\* A step that changes nothing keeps the invariant.
LEMMA JmapStutters == ASSUME JmapInv, UNCHANGED jmapVars PROVE JmapInv'
<1> USE DEF jmapVars, overlayVars, queryVars, refreshVars, catalogAux, emailAux
<1>1. JmapTypes'
  BY Zenon DEF JmapInv, JmapTypes, StoredTypes, EsetTypes, MsetTypes, RefreshTypes, RebuildTypes, HistoryTypes
<1>2. CatalogsOK'
  BY Zenon, CatalogsStay DEF JmapInv
<1>3. CopiesOK'
  BY Zenon DEF JmapInv, CopiesOK, CallCopy, PendCopy, RebuildCopy, Untouched
<1>4. RebuildOK'
  BY Zenon DEF JmapInv, RebuildOK, Projected
<1>5. ConvergingOK'
  BY Zenon DEF JmapInv, ConvergingOK, Converging, current, coming
<1>6. FlagsOK'
  BY Zenon DEF JmapInv, FlagsOK, OwedStored, OwedNamed, OwedShown, CallKeeps, live
<1>7. ShownOK'
  <2>1. \A e \in Emails : reach(e)' = reach(e)
    BY Zenon DEF reach, current
  <2> QED BY Zenon, <2>1, ShownStays DEF JmapInv
<1> QED BY Zenon, <1>1, <1>2, <1>3, <1>4, <1>5, <1>6, <1>7 DEF JmapInv

\* The invariant holds in every reachable state.
LEMMA JmapInvariance == JmapSpec => []JmapInv
<1>1. JmapInit => JmapInv
  BY Zenon, JmapInitInv
<1>2. JmapInv /\ [JmapNext]_jmapVars => JmapInv'
  <2>1. ASSUME JmapInv, JmapNext PROVE JmapInv'
    <3>1. JmapTypes /\ CatalogsOK /\ CopiesOK /\ RebuildOK /\ ConvergingOK /\ FlagsOK /\ ShownOK
      BY Zenon, <2>1 DEF JmapInv
    <3> QED BY Zenon, <2>1, <3>1, TypesStep, CatalogsStep, CopiesStep, RebuildStep, ConvergingStep,
         FlagsStep, ShownStep DEF JmapInv
  <2> QED BY Zenon, <2>1, JmapStutters
<1> QED BY PTL, <1>1, <1>2 DEF JmapSpec

\* UpdateJMAPMailboxes: a mailbox that a client was told exists stays in both
\* catalogs until a Mailbox/set destroys it, and both stay forests, for any number
\* of mailboxes, edits per call and emails, through failed calls, wipes and
\* rebuilds at any point.
THEOREM MailboxesAlwaysKept == JmapSpec => []AckedMailboxesKept
<1>1. JmapInv => AckedMailboxesKept
  BY Zenon DEF JmapInv, CatalogsOK, AckedMailboxesKept
<1> QED BY PTL, <1>1, JmapInvariance

\* UpdateJMAPEmailState, the projection worker and Rebuild: QUERY's rows of an
\* email that nothing is under way for show its overlay, for any number of emails
\* and of Email/set calls at once, whichever of them and of the refreshes fail,
\* unless writes of the email overlapped or its notice was lost or swallowed.
THEOREM EmailsAlwaysConverge == JmapSpec => []EmailsConverge
<1>1. ASSUME JmapInv PROVE EmailsConverge
  <2>1. ASSUME NEW e \in Emails, quiet(e), e \notin excused
        PROVE  members[e] = current(e) \/ (members[e] = NoEntry /\ ~rebuilt)
    <3>1. e \notin due /\ pend[e].at # "queued" /\ pend[e].at # "read"
      BY Zenon, <2>1 DEF quiet
    <3>2. members[e] \in {NoEntry, current(e)}
      BY Zenon, <1>1, <2>1, <3>1 DEF JmapInv, ConvergingOK, Converging, coming
    <3>3. rebuilt => members[e] # NoEntry
      BY Zenon, <1>1 DEF JmapInv, RebuildOK
    <3> QED BY Zenon, <3>2, <3>3
  <2> QED BY Zenon, <2>1 DEF EmailsConverge
<1> QED BY PTL, <1>1, JmapInvariance

\* UpdateJMAPEmailState: what an acknowledged Email/set switched on stays in the
\* overlay until it is withdrawn, for any number of calls at once, any patches and
\* any Mailbox/sets, failures and rebuilds between them.
THEOREM FlagsAlwaysKept == JmapSpec => []AckedFlagsKept
<1>1. JmapInv => AckedFlagsKept
  BY Zenon DEF JmapInv, FlagsOK, OwedStored, AckedFlagsKept
<1> QED BY PTL, <1>1, JmapInvariance

\* UpdateJMAPMailboxes and UpdateJMAPEmailState together: no email is left with
\* destroyed mailboxes only, for any number of emails and mailboxes and any edits
\* of a Mailbox/set.
THEOREM MailAlwaysVisible == JmapSpec => []MailStaysVisible
<1>1. ASSUME JmapInv PROVE MailStaysVisible
  <2>1. ASSUME NEW e \in Emails, members[e] # NoEntry, ~behind, e \notin stranded \cup outdated
        PROVE  visible(members[e]) \cap Boxes # {}
    <3>1. members[e] \in reach(e) /\ e \in Emails \ stranded
      BY Zenon, <2>1, Reached
    <3>2. shown(members[e], rows)
      BY Zenon, <1>1, <2>1, <3>1 DEF JmapInv, ShownOK, lasting
    <3>3. live(rows) \subseteq Custom
      BY Zenon DEF live
    <3> QED BY Zenon, <3>2, <3>3 DEF shown, visible, Boxes
  <2> QED BY Zenon, <2>1 DEF MailStaysVisible
<1> QED BY PTL, <1>1, JmapInvariance
=============================================================================
