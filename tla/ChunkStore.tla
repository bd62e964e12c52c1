----------------------------- MODULE ChunkStore -----------------------------
(***************************************************************************)
(* The content-addressed data tier of FILESTORE                            *)
(* (internal/filestore/chunkstore.go, commit_batch.go, store.go,           *)
(* object_annotations.go).  Object content is a set of chunks; each chunk  *)
(* is appended to an append-only pack file and located through a committed *)
(* chunk index (Pebble keys "c/").  A recipe ("r/") lists the chunks of a  *)
(* digest, a manifest ("m/") makes an object visible, and an annotation    *)
(* record ("a/") may refer to a payload stored as a recipe of its own.     *)
(*                                                                         *)
(* Three write paths are modelled, each from its first lookup to its last  *)
(* write: Put (batched, one commit), PutCompound (batched, skips content   *)
(* whose recipe exists) and WriteAnnotation with an externalised payload   *)
(* (unbatched, every write synced by itself).  Writers interleave at every *)
(* point where the code releases packMu, and the process may crash between *)
(* any two steps.  A chunk occupies one unit of pack space.                *)
(***************************************************************************)
EXTENDS Integers, Sequences, FiniteSets

CONSTANTS
    Chunks,       \* chunk hashes
    Files,        \* digests stored by Put
    Compounds,    \* digests stored by PutCompound
    Payloads,     \* digests of externalised annotation payloads
    Content,      \* the set of chunks each digest is split into
    Writers,      \* goroutines that write
    PackTarget,   \* packTargetBytes, in chunks
    MaxPack,      \* bound: highest pack id
    MaxTime,      \* bound: last tick of the clock
    MaxPut,       \* bound: ticks a write may stay in flight
    None, Torn

Objects == Files \cup Compounds
Digests == Objects \cup Payloads
PackIds == 0 .. MaxPack

ASSUME ChunkStoreAssumption ==
    /\ PackTarget \in Nat \ {0}
    /\ MaxPack \in Nat
    /\ MaxTime \in Nat
    /\ MaxPut \in Nat
    /\ \A d \in Digests : Content[d] \subseteq Chunks
    /\ Files \cap Compounds = {}
    /\ Objects \cap Payloads = {}
    /\ None \notin Chunks \cup Digests \cup Writers \cup Nat
    /\ Torn \notin Chunks

VARIABLES
    now,        \* time.Now()
    index,      \* "c/" rows: where each chunk is, and since when
    recipe,     \* "r/" rows: UpdatedAt of the recipe of each digest
    manifest,   \* "m/" rows: the objects that exist
    ann,        \* "a/" rows: the payload the annotation of an object refers to
    packs,      \* the bytes of every pack file; an absent file is empty
    synced,     \* how much of every pack file is known to be on disk
    active,     \* activePackKnown, activePackID, activePackSize
    packMu,     \* the holder of packMu between two steps
    pc, obj, tgt, seen, batch, stamp, begun    \* the state of each writer

metaVars == <<index, recipe, manifest, ann>>
packVars == <<packs, synced, active>>
writerVars == <<pc, obj, tgt, seen, batch, stamp, begun>>
storeVars == <<now, metaVars, packVars, packMu, writerVars>>

chunkIndexEntry == [pack : PackIds, off : Nat, at : Nat]
ASSUME NoneAssumption == None \notin chunkIndexEntry

noBatch == [c \in Chunks |-> None]

Init ==
    /\ now = 0
    /\ index = [c \in Chunks |-> None]
    /\ recipe = [d \in Digests |-> None]
    /\ manifest = {}
    /\ ann = [o \in Objects |-> None]
    /\ packs = [p \in PackIds |-> <<>>]
    /\ synced = [p \in PackIds |-> 0]
    /\ active = [known |-> FALSE, id |-> 0, size |-> 0]
    /\ packMu = None
    /\ pc = [w \in Writers |-> "idle"]
    /\ obj = [w \in Writers |-> None]
    /\ tgt = [w \in Writers |-> None]
    /\ seen = [w \in Writers |-> {}]
    /\ batch = [w \in Writers |-> noBatch]
    /\ stamp = [w \in Writers |-> None]
    /\ begun = [w \in Writers |-> 0]

-----------------------------------------------------------------------------
(* The active pack *)

existing == {p \in PackIds : packs[p] # <<>>}

\* activePack: the highest-numbered pack file, and its size.
activePack ==
    IF existing = {} THEN [id |-> 0, size |-> 0]
    ELSE LET top == CHOOSE p \in existing : \A q \in existing : q <= p
         IN  [id |-> top, size |-> Len(packs[top])]

\* cachedActivePack: the cached position, or a rescan when it is not known.
cachedActivePack ==
    IF active.known THEN [id |-> active.id, size |-> active.size] ELSE activePack

\* Where the next append is recorded: a full pack is sealed and the id advances.
nextSlot ==
    IF cachedActivePack.size >= PackTarget
    THEN [id |-> cachedActivePack.id + 1, size |-> 0]
    ELSE cachedActivePack

\* O_APPEND writes at the real end of the file, whatever offset is recorded.
appendToActivePackNoSync(b) ==
    /\ nextSlot.id \in PackIds
    /\ packs' = [packs EXCEPT ![nextSlot.id] = Append(@, b)]
    /\ active' = [known |-> TRUE, id |-> nextSlot.id, size |-> nextSlot.size + 1]

\* A write that fails part way leaves torn bytes and drops the cached position.
failedAppend ==
    /\ nextSlot.id \in PackIds
    /\ packs' = [packs EXCEPT ![nextSlot.id] = Append(@, Torn)]
    /\ active' = [known |-> FALSE, id |-> nextSlot.id, size |-> nextSlot.size]

-----------------------------------------------------------------------------
(* The writers *)

batched(w) == tgt[w] \in Objects
touchedPacks(w) == {batch[w][c].pack : c \in {c \in Chunks : batch[w][c] # None}}
missing(w) == Content[tgt[w]] \ seen[w]

\* A writer that is done, or gives up, drops its batch.
finish(w) ==
    /\ pc' = [pc EXCEPT ![w] = "idle"]
    /\ obj' = [obj EXCEPT ![w] = None]
    /\ tgt' = [tgt EXCEPT ![w] = None]
    /\ seen' = [seen EXCEPT ![w] = {}]
    /\ batch' = [batch EXCEPT ![w] = noBatch]
    /\ stamp' = [stamp EXCEPT ![w] = None]
    /\ begun' = [begun EXCEPT ![w] = 0]

start(w, o, d, at, step) ==
    /\ pc[w] = "idle"
    /\ pc' = [pc EXCEPT ![w] = step]
    /\ obj' = [obj EXCEPT ![w] = o]
    /\ tgt' = [tgt EXCEPT ![w] = d]
    /\ stamp' = [stamp EXCEPT ![w] = at]
    /\ begun' = [begun EXCEPT ![w] = now]
    /\ UNCHANGED <<now, metaVars, packVars, packMu, seen, batch>>

Put(w, d) == start(w, d, d, None, "chunks")

\* writeObject: content is stored only when the digest has no recipe yet.
PutCompound(w, d) ==
    IF recipe[d] # None
    THEN start(w, d, d, None, "commit")
    ELSE start(w, d, d, now, "chunks")

WriteAnnotation(w, o, p) ==
    /\ o \in manifest
    /\ start(w, o, p, now, "chunks")

\* An annotation small enough to be stored inline refers to no payload.
WriteInlineAnnotation(o) ==
    /\ o \in manifest
    /\ ann' = [ann EXCEPT ![o] = None]
    /\ UNCHANGED <<now, index, recipe, manifest, packVars, packMu, writerVars>>

\* lookupChunk finds a committed entry: the chunk is reused, nothing is written.
dedupHit(w, c) ==
    /\ pc[w] = "chunks"
    /\ c \in missing(w)
    /\ index[c] # None
    /\ seen' = [seen EXCEPT ![w] = @ \cup {c}]
    /\ UNCHANGED <<now, metaVars, packVars, packMu, pc, obj, tgt, batch, stamp, begun>>

\* A miss appends under packMu; the index entry waits in the commit batch.
storeChunkBatched(w, c) ==
    /\ pc[w] = "chunks"
    /\ batched(w)
    /\ c \in missing(w)
    /\ packMu = None
    /\ index[c] = None
    /\ appendToActivePackNoSync(c)
    /\ batch' = [batch EXCEPT ![w][c] =
                    [pack |-> nextSlot.id, off |-> nextSlot.size, at |-> now]]
    /\ seen' = [seen EXCEPT ![w] = @ \cup {c}]
    /\ UNCHANGED <<now, metaVars, synced, packMu, pc, obj, tgt, stamp, begun>>

\* storeChunk, the unbatched form: append, then fsync and index, under packMu.
storeChunk(w, c) ==
    /\ pc[w] = "chunks"
    /\ ~batched(w)
    /\ c \in missing(w)
    /\ packMu = None
    /\ index[c] = None
    /\ appendToActivePackNoSync(c)
    /\ packMu' = w
    /\ batch' = [batch EXCEPT ![w][c] =
                    [pack |-> nextSlot.id, off |-> nextSlot.size, at |-> now]]
    /\ pc' = [pc EXCEPT ![w] = "appended"]
    /\ UNCHANGED <<now, metaVars, synced, obj, tgt, seen, stamp, begun>>

syncTouchedPacks(ps) ==
    synced' = [p \in PackIds |-> IF p \in ps THEN Len(packs[p]) ELSE synced[p]]

\* Once the bytes are synced the index row is put and packMu released.
storeChunkIndexed(w) ==
    /\ pc[w] = "appended"
    /\ packMu' = None
    /\ touchedPacks(w) \subseteq existing
    /\ syncTouchedPacks(touchedPacks(w))
    /\ index' = [c \in Chunks |->
                    IF batch[w][c] # None THEN [batch[w][c] EXCEPT !.at = now] ELSE index[c]]
    /\ seen' = [seen EXCEPT ![w] = @ \cup {c \in Chunks : batch[w][c] # None}]
    /\ batch' = [batch EXCEPT ![w] = noBatch]
    /\ pc' = [pc EXCEPT ![w] = "chunks"]
    /\ UNCHANGED <<now, recipe, manifest, ann, packs, active, obj, tgt, stamp, begun>>

\* The fsync fails (a pack that is gone always does): the cached position is dropped.
storeChunkFailed(w) ==
    /\ pc[w] = "appended"
    /\ packMu' = None
    /\ active' = [active EXCEPT !.known = FALSE]
    /\ finish(w)
    /\ UNCHANGED <<now, metaVars, packs, synced>>

appendFails(w) ==
    /\ pc[w] = "chunks"
    /\ \E c \in missing(w) : index[c] = None
    /\ packMu = None
    /\ failedAppend
    /\ finish(w)
    /\ UNCHANGED <<now, metaVars, synced, packMu>>

\* Mutated form of sealRecipe: the recipe is sealed before the last chunk.
sealRecipeEarly(w) ==
    /\ pc[w] = "chunks"
    /\ batched(w)
    /\ stamp' = [stamp EXCEPT ![w] = IF tgt[w] \in Files THEN now ELSE @]
    /\ pc' = [pc EXCEPT ![w] = "commit"]
    /\ UNCHANGED <<now, metaVars, packVars, packMu, obj, tgt, seen, batch, begun>>

\* All chunks are stored: the recipe joins the batch (Put stamps it only now).
sealRecipe(w) ==
    /\ pc[w] = "chunks"
    /\ batched(w)
    /\ missing(w) = {}
    /\ stamp' = [stamp EXCEPT ![w] = IF tgt[w] \in Files THEN now ELSE @]
    /\ pc' = [pc EXCEPT ![w] = "commit"]
    /\ UNCHANGED <<now, metaVars, packVars, packMu, obj, tgt, seen, batch, begun>>

\* Mutated form of commitSync: the batch commits without the pack fsync.
commitSyncSkipped(w) ==
    /\ pc[w] = "commit"
    /\ touchedPacks(w) \subseteq existing
    /\ pc' = [pc EXCEPT ![w] = "synced"]
    /\ UNCHANGED <<now, metaVars, packVars, packMu, obj, tgt, seen, batch, stamp, begun>>

\* commit, first half: the packs the batch points into are made durable.  When
\* one is gone (ENOENT) only abort is left: the Put fails and drops its batch.
commitSync(w) ==
    /\ pc[w] = "commit"
    /\ touchedPacks(w) \subseteq existing
    /\ syncTouchedPacks(touchedPacks(w))
    /\ pc' = [pc EXCEPT ![w] = "synced"]
    /\ UNCHANGED <<now, metaVars, packs, active, packMu, obj, tgt, seen, batch, stamp, begun>>

\* commit, second half: index, recipe and manifest land in one atomic batch.
commit(w) ==
    /\ pc[w] = "synced"
    /\ index' = [c \in Chunks |-> IF batch[w][c] # None THEN batch[w][c] ELSE index[c]]
    /\ recipe' = [recipe EXCEPT ![tgt[w]] = IF stamp[w] # None THEN stamp[w] ELSE @]
    /\ manifest' = manifest \cup {obj[w]}
    /\ finish(w)
    /\ UNCHANGED <<now, ann, packVars, packMu>>

\* storeBlobContent ends with the recipe of the payload, committed by itself.
putRecipe(w) ==
    /\ pc[w] = "chunks"
    /\ ~batched(w)
    /\ missing(w) = {}
    /\ recipe' = [recipe EXCEPT ![tgt[w]] = stamp[w]]
    /\ pc' = [pc EXCEPT ![w] = "record"]
    /\ UNCHANGED <<now, index, manifest, ann, packVars, packMu,
                   obj, tgt, seen, batch, stamp, begun>>

\* writePackedAnnotation ends with the record that refers to the payload.
putAnnotation(w) ==
    /\ pc[w] = "record"
    /\ ann' = [ann EXCEPT ![obj[w]] = tgt[w]]
    /\ finish(w)
    /\ UNCHANGED <<now, index, recipe, manifest, packVars, packMu>>

\* A cancelled context or a call that fails ends a write at any point.
abort(w) ==
    /\ pc[w] # "idle"
    /\ packMu' = IF packMu = w THEN None ELSE packMu
    /\ finish(w)
    /\ UNCHANGED <<now, metaVars, packVars>>

\* Mutated form of DeleteObject: the object's chunks go too, shared or not.
DeleteObjectAndChunks(o) ==
    /\ manifest' = manifest \ {o}
    /\ recipe' = [recipe EXCEPT ![o] = None]
    /\ ann' = [ann EXCEPT ![o] = None]
    /\ index' = [c \in Chunks |-> IF c \in Content[o] THEN None ELSE index[c]]
    /\ UNCHANGED <<now, packVars, packMu, writerVars>>

\* DeleteObject drops the object's rows, those there are, in one batch; chunks
\* and payloads stay.
DeleteObject(o) ==
    /\ manifest' = manifest \ {o}
    /\ recipe' = [recipe EXCEPT ![o] = None]
    /\ ann' = [ann EXCEPT ![o] = None]
    /\ UNCHANGED <<now, index, packVars, packMu, writerVars>>

\* A crash keeps what was synced and any prefix of the rest, maybe torn.
crash ==
    /\ \E keep \in [PackIds -> 0 .. PackTarget], torn \in SUBSET PackIds :
          /\ \A p \in PackIds : keep[p] \in synced[p] .. Len(packs[p])
          /\ \A p \in torn : keep[p] < Len(packs[p])
          /\ packs' = [p \in PackIds |->
                 SubSeq(packs[p], 1, keep[p]) \o (IF p \in torn THEN <<Torn>> ELSE <<>>)]
    /\ active' = [known |-> FALSE, id |-> 0, size |-> 0]
    /\ packMu' = None
    /\ pc' = [w \in Writers |-> "idle"]
    /\ obj' = [w \in Writers |-> None]
    /\ tgt' = [w \in Writers |-> None]
    /\ seen' = [w \in Writers |-> {}]
    /\ batch' = [w \in Writers |-> noBatch]
    /\ stamp' = [w \in Writers |-> None]
    /\ begun' = [w \in Writers |-> 0]
    /\ UNCHANGED <<now, metaVars, synced>>

\* Time passes; no write is kept in flight longer than MaxPut ticks.
tick ==
    /\ now < MaxTime
    /\ \A w \in Writers : pc[w] # "idle" => now - begun[w] < MaxPut
    /\ now' = now + 1
    /\ UNCHANGED <<metaVars, packVars, packMu, writerVars>>

writerStep(w) ==
    \/ \E d \in Files : Put(w, d)
    \/ \E d \in Compounds : PutCompound(w, d)
    \/ \E o \in Objects, p \in Payloads : WriteAnnotation(w, o, p)
    \/ \E c \in Chunks : dedupHit(w, c) \/ storeChunkBatched(w, c) \/ storeChunk(w, c)
    \/ storeChunkIndexed(w)
    \/ storeChunkFailed(w)
    \/ appendFails(w)
    \/ sealRecipe(w)
    \/ commitSync(w)
    \/ commit(w)
    \/ putRecipe(w)
    \/ putAnnotation(w)
    \/ abort(w)

storeStep ==
    \/ \E w \in Writers : writerStep(w)
    \/ \E o \in Objects : DeleteObject(o) \/ WriteInlineAnnotation(o)
    \/ crash
    \/ tick

Spec == Init /\ [][storeStep]_storeVars

-----------------------------------------------------------------------------
(* Properties *)

steps == {"idle", "chunks", "appended", "commit", "synced", "record"}

\* The type of the committed rows, the pack files and the writers' state.
TypeOK ==
    /\ now \in Nat
    /\ index \in [Chunks -> chunkIndexEntry \cup {None}]
    /\ recipe \in [Digests -> Nat \cup {None}]
    /\ manifest \subseteq Objects
    /\ ann \in [Objects -> Payloads \cup {None}]
    /\ packs \in [PackIds -> Seq(Chunks \cup {Torn})]
    /\ synced \in [PackIds -> Nat]
    /\ active \in [known : BOOLEAN, id : PackIds, size : Nat]
    /\ packMu \in Writers \cup {None}
    /\ pc \in [Writers -> steps]
    /\ obj \in [Writers -> Objects \cup {None}]
    /\ tgt \in [Writers -> Digests \cup {None}]
    /\ seen \in [Writers -> SUBSET Chunks]
    /\ batch \in [Writers -> [Chunks -> chunkIndexEntry \cup {None}]]
    /\ stamp \in [Writers -> Nat \cup {None}]
    /\ begun \in [Writers -> Nat]

\* The bytes an entry points at are the chunk's.
placed(e, c) ==
    /\ e.off < Len(packs[e.pack])
    /\ packs[e.pack][e.off + 1] = c

\* They are also on disk.
durable(e, c) == placed(e, c) /\ e.off < synced[e.pack]

\* A crash never leaves an index entry that points at content that is not on
\* disk (the crash invariant of commitBatch), whichever writers were in flight.
IndexDurable == \A c \in Chunks : index[c] # None => durable(index[c], c)

\* Every committed recipe resolves: a Put lands whole or not at all, a payload
\* recipe only after its chunks, and a deduplicated chunk stays committed.
RecipesResolve == \A d \in Digests : recipe[d] # None =>
    \A c \in Content[d] : index[c] # None

\* A file object's manifest never stands without its recipe, and an annotation
\* record never refers to a payload that was not stored first.
RowsBacked ==
    /\ \A d \in Files \cap manifest : recipe[d] # None
    /\ \A o \in Objects : ann[o] # None => recipe[ann[o]] # None

\* The cached position of the active pack is authoritative once populated: it
\* is the highest pack and its real size, so recorded offsets are right.
ActivePackCached == active.known =>
    /\ active.size = Len(packs[active.id])
    /\ \A p \in PackIds : p > active.id => packs[p] = <<>>

\* Packs are sealed and never mutated: what was synced keeps its place, and a
\* pack with a later pack beside it never grows again.
PacksImmutable == [][\A p \in PackIds :
    /\ \A i \in 1 .. synced[p] : i \in DOMAIN packs'[p] /\ packs'[p][i] = packs[p][i]
    /\ (\E q \in existing : q > p) => Len(packs'[p]) <= Len(packs[p])]_storeVars

\* Where a writer in flight is: an object is written in a batch and a payload is
\* not, and it reaches the commit only with all of its content seen.
WriterShape(w) ==
    /\ pc[w] = "idle" => tgt[w] = None /\ seen[w] = {} /\ batch[w] = noBatch
    /\ pc[w] # "idle" => tgt[w] \in Digests /\ obj[w] \in Objects
    /\ tgt[w] \in Objects => obj[w] = tgt[w]
    /\ pc[w] \in {"commit", "synced"} => tgt[w] \in Objects
    /\ pc[w] \in {"appended", "record"} => tgt[w] \in Payloads
    /\ tgt[w] \in Payloads => stamp[w] # None
    /\ tgt[w] \in Payloads /\ pc[w] # "appended" => batch[w] = noBatch
    /\ pc[w] \in {"commit", "synced"} /\ tgt[w] \in Files => stamp[w] # None
    /\ pc[w] \in {"commit", "synced"} /\ stamp[w] # None => Content[tgt[w]] \subseteq seen[w]

\* What it holds: every chunk it has seen is committed or in its batch, the batch
\* locates bytes that are in the packs and, after the fsync, durable.
WriterOK(w) ==
    /\ WriterShape(w)
    /\ \A c \in seen[w] : index[c] # None \/ batch[w][c] # None
    /\ \A c \in Chunks : batch[w][c] # None => placed(batch[w][c], c)
    /\ pc[w] = "synced" =>
          \A c \in Chunks : batch[w][c] # None => durable(batch[w][c], c)
    /\ pc[w] = "record" => recipe[tgt[w]] # None

WriterInv == \A w \in Writers : WriterOK(w)

\* The invariant that is preserved by every step of the data tier: what is
\* committed is durable and closed, and what is in flight will be.
StoreInv ==
    /\ \A p \in PackIds : synced[p] <= Len(packs[p])
    /\ ActivePackCached
    /\ IndexDurable
    /\ RecipesResolve
    /\ RowsBacked
    /\ WriterInv

\* What a reader of the store relies on: the object's content can be rebuilt.
readable(d) ==
    /\ recipe[d] # None
    /\ \A c \in Content[d] : index[c] # None /\ durable(index[c], c)

\* The file objects a reader finds whole form an ObjectStore: they change one
\* at a time, by their own commit or delete, and never by a crash, a failed
\* write or a write to another object that shares their chunks.
Objs == INSTANCE ObjectStore WITH
            Digests <- Files,
            listed <- Files \cap manifest,
            stored <- {d \in Files \cap manifest : readable(d)}
ImplementsObjectStore == Objs!Spec
=============================================================================
