---------------------------- MODULE ObjectRecords ----------------------------
(***************************************************************************)
(* The records FILESTORE keeps about objects in its key space (Pebble):    *)
(* manifests, recipes, annotations, the index from source references to    *)
(* objects, the index from parts to compounds and the index of changes     *)
(* (internal/filestore: store.go, gc.go, source_ingest.go, projection.go,  *)
(* object_annotations.go, compound_parent_refresh.go).  Requests run       *)
(* concurrently.  Each reads, and then makes the calls that are left to    *)
(* it: `calls' holds them, first the next one.  A commitBatch writes its   *)
(* rows at once, a syncSink one by one, and a request may be cut off       *)
(* between any two calls, alone or by a crash that cuts off all of them.   *)
(***************************************************************************)
EXTENDS Integers, Sequences, FiniteSets, SequencesExt, FiniteSetsExt

CONSTANTS
    Singles,        \* objects with content of their own
    Wholes,         \* compound objects
    Refs,           \* source references: kind, name, external id, version
    SourceOf,       \* the source (kind and name) of each reference
    IdOf,           \* each reference without its version
    Analyzers,
    Clients,        \* concurrent requests
    InitialRows,    \* the key spaces the store may be opened with
    Lag,            \* bound: how long before its call an annotation was stamped
    MaxRequests,    \* bound on requests
    MaxCuts,        \* bound on the times requests are cut off
    Deleted,        \* the mark of a deleted key
    Nobody          \* the owner of a reference no object has

ASSUME RecordsAssumption ==
    /\ Lag \in Nat
    /\ MaxRequests \in Nat
    /\ MaxCuts \in Nat
    /\ Singles \cap Wholes = {}

VARIABLES
    rows,       \* the key space: keys that exist, and their values
    calls,      \* what each request has still to do
    clock,      \* time.Now, larger at every reading
    requests,   \* the number of requests so far
    cuts        \* the number of times requests were cut off

\* Auxiliary variables: they record history and restrict no step.
VARIABLES
    given,      \* facts written to a row and not deleted since
    owner,      \* the object that was last given each reference and has it still
    crossed     \* rows and facts that unguarded overlaps and cuts may have spoilt

history == <<given, owner, crossed>>
recordsVars == <<rows, calls, clock, requests, cuts, given, owner, crossed>>

Things == Singles \cup Wholes
Sources == {SourceOf[r] : r \in Refs}
has(key) == key \in DOMAIN rows
readManifest(d) == rows[<<"m", d>>]
references(d) == IF has(<<"m", d>>) THEN readManifest(d).prov ELSE {}
partsOf(d) == IF has(<<"m", d>>) THEN readManifest(d).parts ELSE {}
parentsOf(d) == IF has(<<"cp", d>>) THEN rows[<<"cp", d>>] ELSE {}
annotated(d) == {x \in Analyzers : has(<<"a", d, x>>)}

\* An item that a row was given, void once an object in `of' is deleted.
fact(key, item, of) == [key |-> key, item |-> item, of |-> of]

RecordsInit ==
    /\ rows \in InitialRows
    /\ calls = [c \in Clients |-> <<>>]
    /\ clock = 1
    /\ requests = 0
    /\ cuts = 0
    /\ given = {fact(<<"m", d>>, r, {d}) : <<d, r>> \in {p \in Things \X Refs : p[2] \in references(p[1])}}
    /\ owner = [r \in Refs |-> IF has(<<"si", r>>) THEN rows[<<"si", r>>] ELSE Nobody]
    /\ crossed = {}

-----------------------------------------------------------------------------
(* Calls: writes of a batch, and the steps that read before they write *)

set(key, val) == [key |-> key, val |-> val]
drop(key) == set(key, Deleted)

\* One commit of all the writes in ops; `by' is the operation it belongs to,
\* `gives' and `takes' the facts it adds to rows and removes.
rowsCommit(by, ops, gives, takes) ==
    [do |-> "commit", by |-> by, ops |-> ops, gives |-> gives, takes |-> takes]
\* syncSink: every write is a commit of its own.
eachSynced(by, ops) == [i \in DOMAIN ops |-> rowsCommit(by, <<ops[i]>>, {}, {})]
change(by, d, at) == [do |-> "change", by |-> by, d |-> d, at |-> at]
unlock(d) == [do |-> "unlock", d |-> d]

\* A request holds the manifest lock of an object while it has to unlock it.
locked(d) == \E c \in Clients : unlock(d) \in ToSet(calls[c])


\* Mutated form of recordProjectionChangeTo: the old key is deleted last.
recordProjectionChangeLast(d, at) ==
    LET latest == <<"pc-latest", d>>
    IN  <<set(<<"pc", d, at>>, at), set(latest, at)>>
        \o (IF has(latest) THEN <<drop(<<"pc", d, rows[latest]>>)>> ELSE <<>>)

recordProjectionChangeTo(d, at) ==
    LET latest == <<"pc-latest", d>>
    IN  (IF has(latest) THEN <<drop(<<"pc", d, rows[latest]>>)>> ELSE <<>>)
        \o <<set(<<"pc", d, at>>, at), set(latest, at)>>

recordSourceObjectIndexesTo(d, ref) == <<set(<<"si", ref>>, d), set(<<"sa", IdOf[ref]>>, d)>>

\* writeManifest: the row, then the change index, one synced write each.
writeManifest(by, d, manifest, gives, takes) ==
    <<rowsCommit(by, <<set(<<"m", d>>, manifest)>>, gives, takes), change(by, d, manifest.at)>>

\* writePackedAnnotation.
writePackedAnnotation(by, d, x, annotation, gives) ==
    <<rowsCommit(by, <<set(<<"a", d, x>>, annotation)>>, gives, {}), change(by, d, annotation.at)>>

\* Mutated form of rowsOwnedBy: whatever the rows point at.
rowsOfRefs(d, refs) ==
    {key \in {<<"si", r>> : r \in refs} \cup {<<"sa", IdOf[r]>> : r \in refs} : has(key)}

\* The keys of source and alias rows of refs that point at the object.
rowsOwnedBy(d, refs) ==
    {key \in {<<"si", r>> : r \in refs} \cup {<<"sa", IdOf[r]>> : r \in refs} : has(key) /\ rows[key] = d}

\* LookupSourceObject, with its fallback on the alias without the version.
lookupSourceObject(ref) ==
    LET si == <<"si", ref>>
        sa == <<"sa", IdOf[ref]>>
    IN  IF has(si) THEN IF ref \in references(rows[si]) THEN rows[si] ELSE Nobody
        ELSE IF has(sa) /\ \E r \in references(rows[sa]) : IdOf[r] = IdOf[ref] THEN rows[sa] ELSE Nobody

dropAll(keys) == FoldSet(LAMBDA key, ops : Append(ops, drop(key)), <<>>, keys)

-----------------------------------------------------------------------------
(* Requests: what each reads first, and the calls it makes of it *)

\* The clients whose next request can arrive, and those in a request.
waiting == {c \in Clients : calls[c] = <<>> /\ requests < MaxRequests}
busy == {c \in Clients : calls[c] # <<>>}

\* Request c arrives and is left with the calls in todo.
request(c, todo) ==
    /\ c \in waiting
    /\ requests' = requests + 1
    /\ calls' = [calls EXCEPT ![c] = todo]
    /\ clock' = clock + 1
    /\ UNCHANGED <<rows, cuts, history>>

\* mergeManifest and baseManifest; a manifest without a value has no items.
mergeManifest(d, refs, parts) ==
    IF has(<<"m", d>>)
    THEN [readManifest(d) EXCEPT !.prov = @ \cup refs, !.parts = @ \cup parts, !.at = clock]
    ELSE [prov |-> refs, parts |-> parts, over |-> {}, seen |-> {}, at |-> clock]

\* The rows of an object in one commit: manifest, recipe, changes, sources.
objectRows(d, recipe, manifest, ref) ==
    recipe \o <<set(<<"m", d>>, manifest)>>
    \o recordProjectionChangeTo(d, manifest.at) \o recordSourceObjectIndexesTo(d, ref)

recipeRow(d) == <<set(<<"r", d>>, d)>>
givesRef(d, ref) == {fact(<<"m", d>>, ref, {d})}

PutObject(c, d, ref) ==
    /\ ~locked(d)
    /\ request(c, <<rowsCommit("Put", objectRows(d, recipeRow(d), mergeManifest(d, {ref}, {}), ref),
                           givesRef(d, ref), {}),
                    unlock(d)>>)

\* writeObject takes no manifest lock, and stores the content of a compound
\* that it finds no recipe of; the parents of each part are recorded last.
PutCompoundObject(c, d, parts, ref) ==
    LET edges == SetToSeq(parts)
        recipe == IF has(<<"r", d>>) THEN <<>> ELSE recipeRow(d)
    IN  request(c, <<rowsCommit("PutCompound", objectRows(d, recipe, mergeManifest(d, {ref}, parts), ref),
                            givesRef(d, ref), {})>>
                   \o [i \in DOMAIN edges |-> [do |-> "edge", d |-> edges[i], p |-> d]])

\* Mutated form of AttachProvenance: without the manifest lock.
AttachProvenanceUnlocked(c, d, ref) ==
    /\ has(<<"m", d>>)
    /\ ref \notin references(d)
    /\ request(c, writeManifest("AttachProvenance", d, mergeManifest(d, {ref}, {}), givesRef(d, ref), {})
                  \o eachSynced("AttachProvenance", recordSourceObjectIndexesTo(d, ref)))

AttachProvenance(c, d, ref) ==
    /\ ~locked(d)
    /\ has(<<"m", d>>)
    /\ ref \notin references(d)
    /\ request(c, writeManifest("AttachProvenance", d, mergeManifest(d, {ref}, {}), givesRef(d, ref), {})
                  \o eachSynced("AttachProvenance", recordSourceObjectIndexesTo(d, ref))
                  \o <<unlock(d)>>)

WriteOverlays(c, d) ==
    /\ ~locked(d)
    /\ has(<<"m", d>>)
    /\ LET manifest == [readManifest(d) EXCEPT !.over = @ \cup {c}, !.at = clock]
       IN  request(c, writeManifest("WriteOverlays", d, manifest, {fact(<<"m", d>>, c, {d})}, {})
                      \o writePackedAnnotation("WriteOverlays", d, "overlays",
                                               [at |-> clock, data |-> manifest.over], {})
                      \o <<unlock(d)>>)

mergeAnnotation(d, x, c, at) ==
    [at |-> at, data |-> {c} \cup IF has(<<"a", d, x>>) THEN rows[<<"a", d, x>>].data ELSE {}]

\* The result of an analyzer, stamped at a time up to now.
WriteAnnotationRow(c, d, x, at) ==
    /\ has(<<"m", d>>)
    /\ request(c, writePackedAnnotation("WriteAnnotation", d, x, mergeAnnotation(d, x, c, at),
                                        {fact(<<"a", d, x>>, c, {d})})
                  \o <<[do |-> "parents", d |-> d]>>)

deletedKeys(d) ==
    {<<"m", d>>, <<"r", d>>, <<"cp", d>>} \cup rowsOwnedBy(d, references(d))
    \cup {<<"a", d, x>> : x \in annotated(d) \cup {"overlays"}}

\* DeleteObject takes no manifest lock.
DeleteObjectRows(c, d) ==
    /\ has(<<"m", d>>)
    /\ request(c, <<rowsCommit("DeleteObject", dropAll(deletedKeys(d)), {}, {})>>)

\* DeleteImport lists the objects of the source, then detaches one by one.
DeleteImport(c, source) ==
    LET found == SetToSeq({d \in Things : \E r \in references(d) : SourceOf[r] = source})
    IN  /\ found # <<>>
        /\ request(c, [i \in DOMAIN found |-> [do |-> "detach", d |-> found[i], source |-> source]])

\* When an object last changed, and the objects a walk of changes reports.
changedAt(d) ==
    Max({readManifest(d).at} \cup {rows[k].at : k \in {k \in DOMAIN rows : k[1] = "a" /\ k[2] = d}})
changedAfter(since) == {d \in Things : has(<<"m", d>>) /\ changedAt(d) > since}
indexedAfter(since) == {d \in Things : \E k \in DOMAIN rows : k[1] = "pc" /\ k[2] = d /\ k[3] > since}
walkChanged(since) ==
    IF indexedAfter(since) = {} THEN changedAfter(since) ELSE changedAfter(since) \cap indexedAfter(since)

\* A walk that finds no change in the index reads everything and mends it.
WalkChangedProjection(c, since) ==
    LET missing == SetToSeq(changedAfter(since))
    IN  /\ indexedAfter(since) = {}
        /\ missing # <<>>
        /\ request(c, [i \in DOMAIN missing |-> change("walk", missing[i], changedAt(missing[i]))])

-----------------------------------------------------------------------------
(* Steps *)

next(c) == Head(calls[c])
\* The call is done; an unlock that follows it is part of it.
after(c) ==
    LET rest == Tail(calls[c])
    IN  IF rest # <<>> /\ Head(rest).do = "unlock" THEN Tail(rest) ELSE rest
\* The call of c is replaced by others.
becomes(c, todo) == calls' = [calls EXCEPT ![c] = todo \o after(c)]

\* The key space after the writes of a batch, the last one to a key winning.
written(ops) ==
    LET keys == {ops[i].key : i \in DOMAIN ops}
        last(k) == ops[Max({i \in DOMAIN ops : ops[i].key = k})].val
    IN  [k \in {k \in DOMAIN rows \cup keys : k \in keys => last(k) # Deleted} |->
            IF k \in keys THEN last(k) ELSE rows[k]]

touches(call, key) == call.do = "commit" /\ \E i \in DOMAIN call.ops : call.ops[i].key = key
\* The operations that read and write a row without the manifest lock.
unguarded(by) == by \in {"PutCompound", "WriteAnnotation", "DeleteObject"}

\* What a commit of c may spoil because another request is half way.
overlaps(c) ==
    LET others == UNION {ToSet(calls[u]) : u \in Clients \ {c}}
        keys == {next(c).ops[i].key : i \in DOMAIN next(c).ops}
    IN  {k \in keys : /\ k[1] \in {"m", "a"}
                      /\ \E o \in others : touches(o, k) /\ (unguarded(o.by) \/ unguarded(next(c).by))}
        \cup {f.key : f \in {f \in next(c).gives : \E o \in others :
                                o.do = "refresh" /\ f.of = {o.d, o.k}}}
        \cup {<<"ref", r>> : r \in {r \in Refs : \E o \in others :
                                \/ touches(o, <<"si", r>>) /\ <<"si", r>> \in keys
                                \/ o.do = "unindex" /\ \E f \in next(c).gives : f.item = r /\ f.of = {o.d}}}
        \cup {<<"edge", p, k[2]>> : p \in Wholes, k \in {k \in keys : k[1] = "cp"}}

commitBatch(c) ==
    /\ next(c).do = "commit"
    /\ LET new == written(next(c).ops)
           lost == {d \in Things : has(<<"m", d>>) /\ <<"m", d>> \notin DOMAIN new}
           holds(d, r) == <<"m", d>> \in DOMAIN new /\ r \in new[<<"m", d>>].prov
       IN  /\ rows' = new
           /\ given' = ({f \in given : f.of \cap lost = {}} \ next(c).takes) \cup next(c).gives
           /\ owner' = [r \in Refs |->
                IF \E f \in next(c).gives : f.item = r THEN (CHOOSE f \in next(c).gives : f.item = r).key[2]
                ELSE IF owner[r] # Nobody /\ holds(owner[r], r) THEN owner[r] ELSE Nobody]
    /\ crossed' = crossed \cup overlaps(c)
    /\ becomes(c, <<>>)
    /\ UNCHANGED <<clock, requests, cuts>>

\* recordProjectionChangeTo with a syncSink: the previous key is read here.
recordChange(c) ==
    /\ next(c).do = "change"
    /\ LET d == next(c).d
           latest == <<"pc-latest", d>>
       IN  /\ calls' = [calls EXCEPT ![c] = eachSynced(next(c).by, recordProjectionChangeTo(d, next(c).at))
                                            \o Tail(calls[c])]
           /\ crossed' = IF has(latest) /\ rows[latest] > next(c).at
                         THEN crossed \cup {<<"changes", d>>} ELSE crossed
    /\ UNCHANGED <<rows, clock, requests, cuts, given, owner>>

\* mergeCompoundParentIndex, under a lock of its own.
mergeCompoundParentIndex(c) ==
    /\ next(c).do = "edge"
    /\ rows' = [k \in DOMAIN rows \cup {<<"cp", next(c).d>>} |->
                    IF k = <<"cp", next(c).d>> THEN parentsOf(next(c).d) \cup {next(c).p} ELSE rows[k]]
    /\ crossed' = crossed \ {<<"edge", next(c).p, next(c).d>>}
    /\ becomes(c, <<>>)
    /\ UNCHANGED <<clock, requests, cuts, given, owner>>

\* refreshIndexedParentsForSubobject: the analyses of the part are read once.
refreshParents(c) ==
    /\ next(c).do = "parents"
    /\ LET d == next(c).d
           parents == SetToSeq(IF annotated(d) = {} THEN {} ELSE parentsOf(d))
       IN  becomes(c, [i \in DOMAIN parents |->
                           [do |-> "refresh", d |-> parents[i], k |-> d, analyses |-> annotated(d)]])
    /\ UNCHANGED <<rows, clock, requests, cuts, history>>

\* refreshIndexedParentForSubobject.
refreshParent(c) ==
    /\ next(c).do = "refresh"
    /\ LET p == next(c).d
           k == next(c).k
           summary == {<<k, x>> : x \in next(c).analyses}
           manifest == [readManifest(p) EXCEPT !.seen = {s \in @ : s[1] # k} \cup summary, !.at = clock]
       IN  /\ ~locked(p)
           /\ becomes(c, IF k \in partsOf(p)
                         THEN writeManifest("refresh", p, manifest,
                                            {fact(<<"m", p>>, s, {p, k}) : s \in summary}, {}) \o <<unlock(p)>>
                         ELSE <<>>)
    /\ clock' = clock + 1
    /\ UNCHANGED <<rows, requests, cuts, history>>

\* The manifest is read again under its lock: an object with no other source
\* is deleted, any other loses the references, and then their rows.
detachSourceFromObject(c) ==
    /\ next(c).do = "detach"
    /\ LET d == next(c).d
           removed == {r \in references(d) : SourceOf[r] = next(c).source}
           trimmed == [readManifest(d) EXCEPT !.prov = @ \ removed, !.at = clock]
       IN  /\ ~locked(d)
           /\ becomes(c, IF removed = {} THEN <<>>
                         ELSE IF removed = references(d)
                         THEN <<rowsCommit("detach", dropAll(deletedKeys(d)), {}, {}), unlock(d)>>
                         ELSE writeManifest("detach", d, trimmed, {},
                                            {fact(<<"m", d>>, r, {d}) : r \in removed})
                              \o <<[do |-> "unindex", d |-> d, refs |-> removed], unlock(d)>>)
    /\ clock' = clock + 1
    /\ UNCHANGED <<rows, requests, cuts, history>>

\* Its last step: the rows of the removed references that still point at it.
dropIndexRows(c) ==
    /\ next(c).do = "unindex"
    /\ LET keys == rowsOwnedBy(next(c).d, next(c).refs)
       IN  IF keys = {} THEN becomes(c, <<>>)
           ELSE calls' = [calls EXCEPT ![c] = <<rowsCommit("detach", dropAll(keys), {}, {})>> \o Tail(@)]
    /\ UNCHANGED <<rows, clock, requests, cuts, history>>

\* What requests in S leave undone.
undone(S) ==
    LET left == UNION {ToSet(calls[c]) : c \in S}
    IN  {<<"ref", r>> : r \in {r \in Refs : \E o \in left : touches(o, <<"si", r>>)}}
        \cup {<<"edge", o.p, o.d>> : o \in {o \in left : o.do = "edge"}}
        \cup {<<"changes", o.d>> : o \in {o \in left : o.do = "change"}}
        \cup {<<"changes", d>> : d \in {d \in Things : \E o \in left : \E t \in 0 .. clock :
                                            touches(o, <<"pc", d, t>>)}}

\* A request fails between two calls, or the process stops and all do.
cutOff(S) ==
    /\ cuts < MaxCuts
    /\ \A c \in S : calls[c] # <<>>
    /\ cuts' = cuts + 1
    /\ calls' = [c \in Clients |-> IF c \in S THEN <<>> ELSE calls[c]]
    /\ crossed' = crossed \cup undone(S)
    /\ UNCHANGED <<rows, clock, requests, given, owner>>

requestStep(c) ==
    \/ \E d \in Singles, r \in Refs : PutObject(c, d, r)
    \/ \E d \in Wholes, r \in Refs, parts \in SUBSET Singles \ {{}} : PutCompoundObject(c, d, parts, r)
    \/ \E d \in Things, r \in Refs : AttachProvenance(c, d, r)
    \/ \E d \in Things : WriteOverlays(c, d) \/ DeleteObjectRows(c, d)
    \/ \E d \in Things, x \in Analyzers, lag \in 0 .. Lag : lag < clock /\ WriteAnnotationRow(c, d, x, clock - lag)
    \/ \E s \in Sources : DeleteImport(c, s)
    \/ \E since \in 0 .. clock : WalkChangedProjection(c, since)

callStep(c) ==
    \/ commitBatch(c) \/ recordChange(c) \/ mergeCompoundParentIndex(c)
    \/ refreshParents(c) \/ refreshParent(c) \/ detachSourceFromObject(c) \/ dropIndexRows(c)

RecordsNext ==
    \/ \E c \in waiting : requestStep(c)
    \/ \E c \in busy : callStep(c)
    \/ \E S \in SUBSET Clients \ {{}} : cutOff(S)

-----------------------------------------------------------------------------
(* Properties *)

pendingCalls == UNION {ToSet(calls[c]) : c \in Clients}

contents(key) ==
    IF key[1] = "m" THEN rows[key].prov \cup rows[key].over \cup rows[key].seen ELSE rows[key].data

\* A provenance reference, an overlay, a part's analysis or an analyzer's
\* result, once written, stays in its row until it is deleted: Put,
\* AttachProvenance, WriteOverlays, the refresh of parents and DeleteImport
\* "cannot lose each other's mutations" (store.go:120).  What two writers can
\* lose is a row that one of them read and wrote without the manifest lock
\* (PutCompound, WriteAnnotation, DeleteObject) while the other was half way,
\* or a parent's summary read before that of another refresh.
MutationsKept == \A f \in given : f.key \notin crossed => has(f.key) /\ f.item \in contents(f.key)

\* What is listed can be read: the manifest of an object has its recipe.
listedReadable == \A d \in Things : has(<<"m", d>>) /\ <<"m", d>> \notin crossed => has(<<"r", d>>)

\* The source index finds the object that was last given a reference and has
\* it still, once the request that gave it is through.
ownersFound ==
    \A r \in Refs :
        owner[r] # Nobody /\ <<"ref", r>> \notin crossed /\ ~(\E o \in pendingCalls : touches(o, <<"si", r>>))
            => lookupSourceObject(r) = owner[r]

\* A part knows every compound it is a part of, so its analyses reach them.
partsKnowParents ==
    \A p \in Wholes : \A k \in partsOf(p) :
        \/ <<"edge", p, k>> \in crossed
        \/ \E o \in pendingCalls : o.do = "edge" /\ o.p = p /\ o.d = k
        \/ p \in parentsOf(k)

\* The records agree with the manifests, whatever else is written, deleted or
\* detached meanwhile.  No locked writer brings back the manifest of an object
\* that DeleteImport deleted, without its recipe.  The source rows that another
\* object with the reference drops are those that "still point at this object".
\* The parents of a part are added to, not replaced.  The exceptions: a request
\* cut off between its commits (a repeated AttachProvenance finds nothing new
\* and leaves the index as it is, a repeated PutCompound mends it), a part that
\* is deleted, and an overlap with a PutCompound or DeleteObject, which take no
\* lock, or with the deletion of a source row that was read before.
RecordsAgree == listedReadable /\ ownersFound /\ partsKnowParents

\* A walk of the changes since any time reports every object that changed
\* after it, although it reads the index of changes only and each object has
\* one key there.  Not when a request was cut off before it wrote the key, nor
\* when an annotation stamped before the last change took its place.
ChangesFound ==
    \A since \in 0 .. clock : \A d \in changedAfter(since) :
        \/ d \in walkChanged(since)
        \/ <<"changes", d>> \in crossed
        \/ \E o \in pendingCalls : \/ o.do = "change" /\ o.d = d
                                   \/ o.do = "commit" /\ \E i \in DOMAIN o.ops :
                                         o.ops[i].key[1] = "pc" /\ o.ops[i].key[2] = d
=============================================================================
