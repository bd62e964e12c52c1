----------------------------- MODULE JmapState -----------------------------
(***************************************************************************)
(* Mutable JMAP mail state (internal/appsvc/services.go:                   *)
(* UpdateJMAPMailboxes, UpdateJMAPEmailState; internal/query/postgres:     *)
(* jmap.go, source_cursor.go, index.go RebuildReport).  FILESTORE holds    *)
(* the recovery state: an overlay per email and the mailbox catalog in a   *)
(* source cursor.  QUERY holds the serving rows.  Mailbox/set (one at a    *)
(* time) and Email/set (any number) read QUERY, write FILESTORE and then   *)
(* QUERY; the projection worker and Rebuild read FILESTORE and write QUERY *)
(* later.  Every one of these calls is a step of its own.                  *)
(***************************************************************************)
EXTENDS Integers

CONSTANTS
    Emails,
    Handlers,       \* Email/set calls that may run at the same time
    Custom,         \* ids of custom mailboxes, in catalog order
    System,         \* system mailboxes, under their own names
    Names,          \* names of custom mailboxes
    Parents,        \* where clients put them
    Keywords,
    Defaults,       \* mailboxes and keywords the source metadata seeds
    Patches,        \* the Email/set patches clients send
    Initial,        \* the mailboxes there are at first
    MaxEdits,       \* bound: accepted edits per Mailbox/set
    MaxEvents,      \* bound: requests, other writes, failures, wipes and rebuilds
    Top, NoEntry

Boxes == System \cup Custom
Marks == Boxes \cup Keywords
Entries == [name : Names, parent : Parents]

\* The calls in progress.
EmailSets == [at : {"read", "written"}, email : Emails, patch : Patches, update : SUBSET Marks,
              old : BOOLEAN, stale : BOOLEAN]
MailboxSets == [at : {"read", "counted", "written"}, draft : [Custom -> Entries \cup {NoEntry}],
                full : SUBSET Custom, risky : BOOLEAN]

ASSUME JmapStateAssumption ==
    /\ Custom \subseteq Nat /\ Custom \cap (System \cup {Top}) = {}
    /\ Parents \subseteq Boxes \cup {Top}
    /\ Defaults \subseteq System \cup Keywords /\ Defaults \cap System # {}
    /\ Patches \subseteq [on : SUBSET Marks, off : SUBSET Marks, replace : SUBSET {Boxes, Keywords}]
    /\ Initial \in [Custom -> Entries \cup {NoEntry}]
    /\ MaxEdits \in Nat /\ MaxEvents \in Nat
    /\ NoEntry \notin Entries /\ NoEntry \notin EmailSets /\ NoEntry \notin MailboxSets
    /\ \A s \in SUBSET Marks : s # NoEntry

VARIABLES
    overlay,    \* FILESTORE: each email's overlay, NoEntry before the first
    cursor,     \* FILESTORE: the mailbox catalog
    members,    \* QUERY: each email's mailboxes and keywords, NoEntry without a row
    rows,       \* QUERY: the live custom mailboxes
    buried,     \* QUERY: mailboxes whose row is marked destroyed
    eset,       \* the Email/set of each handler
    mset,       \* the Mailbox/set that holds jmapMailboxMu
    due,        \* emails with a change notice on its way to the scheduler
    pend,       \* the projection refresh of each email
    rb,         \* the Rebuild in progress
    events      \* how many of the bounded events happened

\* Auxiliary variables: they record history and restrict no step.
VARIABLES
    acked,      \* mailboxes a client was told exist
    behind,     \* QUERY's catalog was wiped, or projected from an old cursor
    owed,       \* what acknowledged Email/sets switched on, not withdrawn since;
                \* of the mailboxes, those that both catalogs had
    outdated,   \* emails whose rows were last written from an old overlay
    excused,    \* emails whose writes overlapped, or whose notice was lost or skipped
    stranded,   \* emails whose move overlapped a change of the catalog
    rebuilt     \* no truncation or wipe since the last complete Rebuild

overlayVars == <<overlay, cursor>>
queryVars == <<members, rows, buried>>
refreshVars == <<due, pend>>
catalogAux == <<acked, behind>>
emailAux == <<owed, outdated, excused, stranded>>
jmapVars == <<overlayVars, queryVars, eset, mset, refreshVars, rb, events, catalogAux,
              emailAux, rebuilt>>

noCatalog == [m \in Custom |-> NoEntry]
live(cat) == {m \in Custom : cat[m] # NoEntry}
noRefresh == [at |-> "none", snap |-> NoEntry, old |-> FALSE]
noRebuild == [at |-> "idle", todo |-> {}, email |-> NoEntry, snap |-> NoEntry, cat |-> noCatalog, old |-> FALSE]

JmapInit ==
    /\ overlay = [e \in Emails |-> NoEntry]
    /\ cursor = Initial
    /\ members = [e \in Emails |-> Defaults]
    /\ rows = Initial
    /\ buried = {}
    /\ eset = [h \in Handlers |-> NoEntry]
    /\ mset = NoEntry
    /\ due = {}
    /\ pend = [e \in Emails |-> noRefresh]
    /\ rb = noRebuild
    /\ events = 0
    /\ acked = live(Initial)
    /\ behind = FALSE
    /\ owed = [e \in Emails |-> {}]
    /\ outdated = {}
    /\ excused = {}
    /\ stranded = {}
    /\ rebuilt = TRUE

event ==
    /\ events < MaxEvents
    /\ events' = events + 1

-----------------------------------------------------------------------------
(* Mailbox catalogs *)

\* validateJMAPMailboxParent
parentExists(cat, p) == p \in System \cup {Top} \cup live(cat)

\* validateJMAPMailboxNameAvailable
nameAvailable(cat, m, entry) ==
    /\ \A n \in Custom \ {m} : cat[n] # entry
    /\ entry.parent = Top => entry.name \notin System

\* hasJMAPMailboxParentCycle: the walk up from m never ends.
parentCycle(cat, m) ==
    \E S \in SUBSET Custom : m \in S /\ \A x \in S : cat[x] # NoEntry /\ cat[x].parent \in S

\* normalizedJMAPMailboxCatalog
normalized(cat) == \A m \in live(cat) :
    /\ cat[m].parent # m
    /\ parentExists(cat, cat[m].parent)
    /\ \A n \in Custom \ {m} : cat[n] # cat[m]

\* The unique index on (parent, name): mailboxes are upserted one by one in
\* catalog order, each beside the rows that have not had their turn yet.
upsertable(cat) == \A m \in live(cat) :
    /\ cat[m].parent = Top => cat[m].name \notin System
    /\ \A n \in live(cat) : n > m => rows[n] # cat[m]

\* Mutated form of projectCatalog: the upsert does not clear the destroyed mark.
projectCatalogBuried(cat) ==
    /\ rows' = [m \in Custom |-> IF m \in buried THEN NoEntry ELSE cat[m]]
    /\ buried' = buried \cup (live(rows) \ live(cat))

\* projectJMAPMailboxCatalogTx: what is not in the catalog is marked destroyed.
projectCatalog(cat) ==
    /\ rows' = cat
    /\ buried' = (buried \cup live(rows)) \ live(cat)

-----------------------------------------------------------------------------
(* Mailbox/set: UpdateJMAPMailboxes *)

\* The lock is taken and the live mailboxes are read.
JMAPMailboxes ==
    /\ mset = NoEntry
    /\ event
    /\ mset' = [at |-> "read", draft |-> rows, full |-> {}, risky |-> behind]
    /\ UNCHANGED <<overlayVars, queryVars, eset, refreshVars, rb, catalogAux, emailAux, rebuilt>>

visible(s) == s \cap (System \cup live(rows) \cup Keywords)
current(e) == IF overlay[e] = NoEntry THEN Defaults ELSE overlay[e]
inFlight(e) == \E h \in Handlers : eset[h] # NoEntry /\ eset[h].email = e

\* The mailboxes that hold mail are read next.
JMAPMailboxEmailCounts ==
    /\ mset # NoEntry
    /\ mset.at = "read"
    /\ mset' = [mset EXCEPT !.at = "counted",
                            !.full = {m \in Custom : \E e \in Emails : members[e] # NoEntry /\ m \in members[e]}]
    /\ stranded' = stranded \cup {e \in Emails : inFlight(e) \/ members[e] # current(e)}
    /\ UNCHANGED <<overlayVars, queryVars, eset, refreshVars, rb, events, catalogAux, owed,
                   outdated, excused, rebuilt>>

\* A new mailbox gets an id that occurs nowhere.
fresh(m) ==
    /\ m \notin live(rows) \cup buried \cup live(cursor)
    /\ \A e \in Emails : overlay[e] = NoEntry \/ m \notin overlay[e]
    /\ \A h \in Handlers : eset[h] = NoEntry \/ m \notin eset[h].update

\* The edits of a request are applied to a draft one at a time, each checked
\* against the draft: creates first, then updates, then destroys.
change(d, stage, m, entry) ==
    [cat |-> [d.cat EXCEPT ![m] = entry], stage |-> stage, edited |-> d.edited \cup {m}]

creates(d) ==
    {change(d, 0, c[1], c[2]) : c \in {c \in (Custom \ d.edited) \X Entries :
        /\ d.stage = 0 /\ d.cat[c[1]] = NoEntry /\ fresh(c[1])
        /\ parentExists(d.cat, c[2].parent)
        /\ nameAvailable(d.cat, c[1], c[2])}}

updates(d) ==
    {change(d, 1, c[1], c[2]) : c \in {c \in (live(d.cat) \ d.edited) \X Entries :
        /\ d.stage <= 1
        /\ parentExists(d.cat, c[2].parent)
        /\ c[2].parent # c[1]
        /\ ~parentCycle([d.cat EXCEPT ![c[1]] = c[2]], c[1])
        /\ nameAvailable(d.cat, c[1], c[2])}}

\* Mutated form of destroys: only child mailboxes are checked for, not mail.
destroysFull(d) ==
    {change(d, 2, m, NoEntry) : m \in {c \in live(d.cat) \ d.edited :
        \A n \in live(d.cat) : d.cat[n].parent # c}}

destroys(d) ==
    {change(d, 2, m, NoEntry) : m \in {c \in live(d.cat) \ (d.edited \cup mset.full) :
        \A n \in live(d.cat) : d.cat[n].parent # c}}

\* The drafts that at most n accepted edits make of the catalog read.
unedited == [cat |-> mset.draft, stage |-> 0, edited |-> {}]
edits(ds) == UNION {creates(d) \cup updates(d) \cup destroys(d) : d \in ds}

drafts[n \in 0 .. MaxEdits] ==
    IF n = 0 THEN {unedited} ELSE drafts[n - 1] \cup edits(drafts[n - 1])

edited == {d.cat : d \in drafts[MaxEdits]}

\* The recovery catalog is written first.
WriteSourceCursor ==
    /\ mset # NoEntry
    /\ mset.at = "counted"
    /\ \E cat \in edited :
          LET destroyed == live(mset.draft) \ live(cat)
          IN  /\ cursor' = cat
              /\ mset' = [mset EXCEPT !.at = "written", !.draft = cat, !.full = {}]
              /\ acked' = IF mset.risky THEN acked \cap live(cat) ELSE acked \ destroyed
              /\ owed' = [e \in Emails |-> owed[e] \ (Custom \ live(cat))]
    /\ stranded' = IF mset.risky THEN Emails ELSE stranded
    /\ rb' = [rb EXCEPT !.old = @ \/ rb.at = "catalog"]
    /\ UNCHANGED <<overlay, queryVars, eset, refreshVars, events, behind, outdated, excused, rebuilt>>

\* QUERY takes the catalog, or rejects it and the call fails.
UpdateJMAPMailboxCatalog ==
    /\ mset # NoEntry
    /\ mset.at = "written"
    /\ mset' = NoEntry
    /\ IF normalized(mset.draft) /\ upsertable(mset.draft)
       THEN /\ projectCatalog(mset.draft)
            /\ acked' = live(mset.draft)
            /\ behind' = FALSE
       ELSE UNCHANGED <<rows, buried, catalogAux>>
    /\ UNCHANGED <<overlayVars, members, eset, refreshVars, rb, events, emailAux, rebuilt>>

\* The call ends early: a service does not answer, or the process dies.
mailboxSetFails ==
    /\ mset # NoEntry
    /\ event
    /\ mset' = NoEntry
    /\ UNCHANGED <<overlayVars, queryVars, eset, refreshVars, rb, catalogAux, emailAux, rebuilt>>

-----------------------------------------------------------------------------
(* Email/set: UpdateJMAPEmailState *)

\* Mutated form of applyJMAPBoolMap: a patch replaces what it does not name.
applyJMAPBoolMapReplacing(s, p) == p.on \ p.off

\* applyJMAPBoolMap on the mailboxes and on the keywords.
applyJMAPBoolMap(s, p) == ((s \ UNION p.replace) \cup p.on) \ p.off

\* The state is read; mailbox ids are not looked up, so a client may name a
\* mailbox that was destroyed, or one that QUERY has no row of.
JMAPEmailStates(h, e, p) ==
    LET update == applyJMAPBoolMap(visible(members[e]), p)
    IN  /\ eset[h] = NoEntry
        /\ members[e] # NoEntry
        /\ update \cap Boxes # {}
        /\ event
        /\ eset' = [eset EXCEPT ![h] =
               [at |-> "read", email |-> e, patch |-> p, update |-> update, old |-> FALSE,
                stale |-> behind \/ e \in outdated]]
        /\ stranded' = IF mset # NoEntry \/ ~(update \cap Custom \subseteq live(rows) \cap live(cursor))
                        THEN stranded \cup {e} ELSE stranded
        /\ UNCHANGED <<overlayVars, queryVars, mset, refreshVars, rb, catalogAux, owed,
                       outdated, excused, rebuilt>>

\* Handlers of e other than h that have come to a given point.
others(h, e, point) ==
    {g \in Handlers \ {h} : eset[g] # NoEntry /\ eset[g].email = e /\ eset[g].at = point}

\* Mutated form of noticed: an overlay write sends no notice.
noticedNever(e) == due

\* Every write to an object sends its notice, emitted after the write returns.
noticed(e) == due \cup {e}

\* The recovery overlay is written first; its notice will follow.  What others
\* have read or written of the email is old from here on.
WriteOverlays(h) ==
    /\ eset[h] # NoEntry
    /\ eset[h].at = "read"
    /\ LET e == eset[h].email
           p == eset[h].patch
           withdrawn == p.off \cup UNION p.replace
           late == others(h, e, "written")
           rebuilding == rb.at = "loaded" /\ rb.email = e
       IN  /\ overlay' = [overlay EXCEPT ![e] = eset[h].update]
           /\ due' = noticed(e)
           /\ eset' = [g \in Handlers |->
                  IF g = h THEN [eset[g] EXCEPT !.at = "written"]
                  ELSE IF g \in late THEN [eset[g] EXCEPT !.old = TRUE] ELSE eset[g]]
           /\ pend' = [pend EXCEPT ![e].old = (pend[e].at = "read")]
           /\ rb' = [rb EXCEPT !.old = @ \/ rebuilding]
           /\ owed' = [owed EXCEPT ![e] =
                  (@ \ withdrawn) \cap (IF eset[h].stale THEN eset[h].update ELSE Marks)]
           /\ excused' = IF late # {} \/ rebuilding THEN excused \cup {e} ELSE excused \ {e}
    /\ UNCHANGED <<cursor, queryVars, mset, events, catalogAux, outdated, stranded, rebuilt>>

\* The foreign key on mailbox ids: destroyed mailboxes still have their row.
rowsExist(s) == s \cap Custom \subseteq live(rows) \cup buried

\* Rows are written from a state that is the latest overlay, or an old one.
written(e, s, old) ==
    /\ members' = [members EXCEPT ![e] = s]
    /\ outdated' = IF old THEN outdated \cup {e} ELSE outdated \ {e}

\* QUERY takes the update, unless the row or a mailbox of it is not there.
UpdateJMAPEmailState(h) ==
    /\ eset[h] # NoEntry
    /\ eset[h].at = "written"
    /\ LET e == eset[h].email
           mine == IF eset[h].old THEN {} ELSE eset[h].patch.on \ eset[h].patch.off
           reads == others(h, e, "read")
       IN  IF members[e] # NoEntry /\ rowsExist(eset[h].update)
           THEN /\ written(e, eset[h].update, eset[h].old)
                /\ owed' = [owed EXCEPT ![e] = @ \cup (mine \cap (Keywords \cup (live(cursor) \cap live(rows))))]
                /\ eset' = [g \in Handlers |->
                       IF g = h THEN NoEntry
                       ELSE IF g \in reads THEN [eset[g] EXCEPT !.stale = TRUE] ELSE eset[g]]
                /\ stranded' = IF mset # NoEntry THEN stranded \cup {e} ELSE stranded
           ELSE /\ eset' = [eset EXCEPT ![h] = NoEntry]
                /\ UNCHANGED <<members, outdated, owed, stranded>>
    /\ UNCHANGED <<overlayVars, rows, buried, mset, refreshVars, rb, events, catalogAux,
                   excused, rebuilt>>

emailSetFails(h) ==
    /\ eset[h] # NoEntry
    /\ event
    /\ eset' = [eset EXCEPT ![h] = NoEntry]
    /\ UNCHANGED <<overlayVars, queryVars, mset, refreshVars, rb, catalogAux, emailAux, rebuilt>>

-----------------------------------------------------------------------------
(* Projection: the scheduler's refresh of one object, and Rebuild *)

\* Any other write to the email, an annotation for instance, is noticed too.
objectChanged(e) ==
    /\ event
    /\ e \notin due
    /\ due' = due \cup {e}
    /\ UNCHANGED <<overlayVars, queryVars, eset, mset, pend, rb, catalogAux, emailAux, rebuilt>>

\* Something else brings the overlay to the rows: they show it and nothing older
\* is on its way, or a refresh that is pending will read it, or has.
covered(e) ==
    \/ pend[e].at = "queued"
    \/ ~pend[e].old /\ (pend[e].at = "read" \/ members[e] \in {NoEntry, current(e)})

\* A notice is lost: the call fails, its message is not confirmed, or FILESTORE
\* dies before the call.
noticeLost(e) ==
    /\ event
    /\ e \in due
    /\ due' = due \ {e}
    /\ excused' = IF covered(e) THEN excused ELSE excused \cup {e}
    /\ UNCHANGED <<overlayVars, queryVars, eset, mset, pend, rb, catalogAux, owed,
                   outdated, stranded, rebuilt>>

\* A refresh that is pending swallows the notice.
NotifyObjectsChanged(e) ==
    /\ e \in due
    /\ due' = due \ {e}
    /\ IF pend[e].at = "none"
       THEN pend' = [pend EXCEPT ![e].at = "queued"] /\ UNCHANGED excused
       ELSE /\ pend' = pend
            /\ excused' = IF pend[e].old THEN excused \cup {e} ELSE excused
    /\ UNCHANGED <<overlayVars, queryVars, eset, mset, rb, events, catalogAux, owed,
                   outdated, stranded, rebuilt>>

ProjectionObject(e) ==
    /\ pend[e].at = "queued"
    /\ pend' = [pend EXCEPT ![e] = [at |-> "read", snap |-> overlay[e], old |-> FALSE]]
    /\ UNCHANGED <<overlayVars, queryVars, eset, mset, due, rb, events, catalogAux,
                   emailAux, rebuilt>>

\* seedJMAPEmailStateTx: an overlay replaces the rows; without one, defaults fill
\* in what has no row at all.
seeded(e, snap) ==
    IF snap # NoEntry THEN snap
    ELSE IF members[e] = NoEntry THEN Defaults
    ELSE IF members[e] \cap Keywords = {} THEN members[e] \cup (Defaults \cap Keywords)
    ELSE members[e]

projectable(snap) == snap = NoEntry \/ rowsExist(snap)

\* A projection that fails is redelivered; meanwhile the email stays pending.
ProjectObject(e) ==
    /\ pend[e].at = "read"
    /\ IF projectable(pend[e].snap)
       THEN /\ written(e, seeded(e, pend[e].snap), pend[e].old)
            /\ pend' = [pend EXCEPT ![e] = noRefresh]
       ELSE /\ pend' = [pend EXCEPT ![e] = [noRefresh EXCEPT !.at = "queued"]]
            /\ UNCHANGED <<members, outdated>>
    /\ UNCHANGED <<overlayVars, rows, buried, eset, mset, due, rb, events, catalogAux, owed,
                   excused, stranded, rebuilt>>

\* The refresh fails for another reason, or the scheduler dies with it.
refreshFails(e) ==
    /\ event
    /\ pend[e].at = "read"
    /\ pend' = [pend EXCEPT ![e] = [noRefresh EXCEPT !.at = "queued"]]
    /\ UNCHANGED <<overlayVars, queryVars, eset, mset, due, rb, catalogAux, emailAux, rebuilt>>

\* RebuildReport: the tables of objects are truncated, not those of mailboxes, ...
truncate ==
    /\ event
    /\ rb.at \in {"idle", "failed"}
    /\ members' = [e \in Emails |-> NoEntry]
    /\ rb' = [noRebuild EXCEPT !.at = "walk", !.todo = Emails]
    /\ rebuilt' = FALSE
    /\ UNCHANGED <<overlayVars, rows, buried, eset, mset, refreshVars, catalogAux, emailAux>>

\* ... every object is read ...
walkProjection(e) ==
    /\ rb.at = "walk"
    /\ e \in rb.todo
    /\ rb' = [rb EXCEPT !.at = "loaded", !.todo = @ \ {e}, !.email = e, !.snap = overlay[e], !.old = FALSE]
    /\ UNCHANGED <<overlayVars, queryVars, eset, mset, refreshVars, events, catalogAux,
                   emailAux, rebuilt>>

\* ... and projected, the first failure ending the rebuild; ...
projectIndexObject ==
    /\ rb.at = "loaded"
    /\ IF projectable(rb.snap)
       THEN /\ written(rb.email, seeded(rb.email, rb.snap), rb.old)
            /\ rb' = [rb EXCEPT !.at = "walk", !.email = NoEntry, !.snap = NoEntry, !.old = FALSE]
       ELSE /\ rb' = [noRebuild EXCEPT !.at = "failed"]
            /\ UNCHANGED <<members, outdated>>
    /\ UNCHANGED <<overlayVars, rows, buried, eset, mset, refreshVars, events, catalogAux,
                   owed, excused, stranded, rebuilt>>

\* ... then the source cursors are read ...
walkSourceCursors ==
    /\ rb.at = "walk"
    /\ rb.todo = {}
    /\ rb' = [rb EXCEPT !.at = "catalog", !.cat = cursor, !.old = FALSE]
    /\ UNCHANGED <<overlayVars, queryVars, eset, mset, refreshVars, events, catalogAux,
                   emailAux, rebuilt>>

\* ... and the mailbox catalog among them is projected.
ProjectSourceCursor ==
    /\ rb.at = "catalog"
    /\ IF normalized(rb.cat) /\ upsertable(rb.cat)
       THEN /\ projectCatalog(rb.cat)
            /\ rb' = noRebuild
            /\ behind' = rb.old
            /\ rebuilt' = TRUE
       ELSE /\ rb' = [noRebuild EXCEPT !.at = "failed"]
            /\ UNCHANGED <<rows, buried, behind, rebuilt>>
    /\ UNCHANGED <<overlayVars, members, eset, mset, refreshVars, events, acked, emailAux>>

\* QUERY is stopped, PostgreSQL wiped and its migrations run again: the calls in
\* progress fail, and a refresh is redelivered.
wipe ==
    /\ event
    /\ rb.at \in {"idle", "failed"}
    /\ members' = [e \in Emails |-> NoEntry]
    /\ rows' = noCatalog
    /\ buried' = {}
    /\ eset' = [h \in Handlers |-> NoEntry]
    /\ mset' = NoEntry
    /\ pend' = [e \in Emails |-> [noRefresh EXCEPT !.at = IF pend[e].at = "none" THEN "none" ELSE "queued"]]
    /\ behind' = TRUE
    /\ rebuilt' = FALSE
    /\ UNCHANGED <<overlayVars, due, rb, acked, emailAux>>

-----------------------------------------------------------------------------

MailboxSet ==
    \/ JMAPMailboxes
    \/ JMAPMailboxEmailCounts
    \/ WriteSourceCursor
    \/ UpdateJMAPMailboxCatalog
    \/ mailboxSetFails

EmailSet(h) ==
    \/ \E e \in Emails, p \in Patches : JMAPEmailStates(h, e, p)
    \/ WriteOverlays(h)
    \/ UpdateJMAPEmailState(h)
    \/ emailSetFails(h)

Refresh(e) ==
    \/ objectChanged(e)
    \/ noticeLost(e)
    \/ NotifyObjectsChanged(e)
    \/ ProjectionObject(e)
    \/ ProjectObject(e)
    \/ refreshFails(e)

Rebuild ==
    \/ truncate
    \/ \E e \in Emails : walkProjection(e)
    \/ projectIndexObject
    \/ walkSourceCursors
    \/ ProjectSourceCursor

JmapNext ==
    \/ MailboxSet
    \/ \E h \in Handlers : EmailSet(h)
    \/ \E e \in Emails : Refresh(e)
    \/ Rebuild
    \/ wipe

JmapSpec == JmapInit /\ [][JmapNext]_jmapVars

-----------------------------------------------------------------------------
(* Properties *)

wellFormed(cat) ==
    /\ \A m \in live(cat) : parentExists(cat, cat[m].parent) /\ nameAvailable(cat, m, cat[m])
    /\ \A m \in live(cat) : ~parentCycle(cat, m)

\* The mailboxes there are at first were made by Mailbox/set.
ASSUME InitialAssumption == wellFormed(Initial)

\* A mailbox that a client was told exists stays in FILESTORE's catalog and in
\* QUERY until a Mailbox/set destroys it.  Only QUERY losing its catalog (a wipe,
\* a rebuild from a cursor that was old when projected) hides it, and only a
\* Mailbox/set that starts from such a QUERY drops it for good.  And in both the
\* mailboxes form a forest with distinct names among siblings, through several
\* edits per Mailbox/set, failed calls, wipes and rebuilds.
AckedMailboxesKept ==
    /\ wellFormed(cursor) /\ wellFormed(rows)
    /\ acked \subseteq live(cursor)
    /\ behind \/ acked \subseteq live(rows)

quiet(e) == ~inFlight(e) /\ e \notin due /\ pend[e].at = "none" /\ rb.at \in {"idle", "failed"}

\* "Normal projection can later re-read FILESTORE and converge QUERY state": once
\* an email is quiet, QUERY shows its overlay, whichever Email/sets and refreshes
\* failed half-way, unless its latest overlay write overlapped another Email/set
\* or a rebuild, or its notice was lost on the way to the scheduler or swallowed
\* by a refresh that had read the email before.
EmailsConverge == \A e \in Emails : quiet(e) /\ e \notin excused =>
    members[e] = current(e) \/ (members[e] = NoEntry /\ ~rebuilt)

\* What an acknowledged Email/set switched on stays in FILESTORE's overlay until
\* a patch withdraws it or its mailbox is destroyed; a mailbox counts if both
\* catalogs have it at the time.  A later patch drops it only if it read rows that
\* were old: another Email/set was running, or a projection had written an old
\* overlay back.
AckedFlagsKept == \A e \in Emails :
    owed[e] # {} => overlay[e] # NoEntry /\ owed[e] \subseteq overlay[e]

\* "JMAP email must remain in at least one mailbox": an email is never left with
\* destroyed mailboxes only.  The exceptions: its rows come from an old overlay,
\* its overlay was not projected yet when the emails of the mailboxes were
\* counted, or its move met a Mailbox/set that ran at the same time or had failed
\* between its two writes.
MailStaysVisible == \A e \in Emails :
    members[e] # NoEntry /\ ~behind /\ e \notin stranded \cup outdated =>
        visible(members[e]) \cap Boxes # {}

\* "Deleting PostgreSQL and rebuilding QUERY from the FILESTORE data directory
\* must preserve custom folders, message mailbox membership": a rebuild succeeds.
RebuildRecovers == rb.at # "failed"
=============================================================================
