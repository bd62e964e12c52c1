-------------------------- MODULE ChunkStoreProofs --------------------------
(***************************************************************************)
(* Proofs about ChunkStore, for every set of chunks, digests and writers.  *)
(* First type correctness, where the next append goes, and how the         *)
(* writers' chunk appends, index rows and fsyncs preserve StoreInv; then   *)
(* the rest of the steps.  StoreInv is inductive relative to the type      *)
(* invariant, and implies the crash invariant; ChunkStore implements       *)
(* ObjectStore, and its packs are append-only.                             *)
(***************************************************************************)
EXTENDS ChunkStore, TLAPS, WellFoundedInduction

-----------------------------------------------------------------------------
(* Where the next append goes *)

\* A non-empty set of pack ids has a highest member: activePack's scan of the
\* directory always finds one when a pack exists.
LEMMA HighestPack ==
    ASSUME NEW S \in SUBSET PackIds, S # {}
    PROVE  \E p \in S : \A q \in S : q <= p
<1>1. MaxPack \in Nat
  BY Zenon, ChunkStoreAssumption
<1> DEFINE T == {n \in Nat : MaxPack - n \in S}
<1>2. T \subseteq Nat
  BY Zenon
<1>3. T # {}
  <2>1. PICK p \in S : TRUE
    BY Zenon
  <2>2. MaxPack - p \in Nat /\ MaxPack - (MaxPack - p) = p
    BY <1>1 DEF PackIds
  <2>3. MaxPack - p \in T
    BY Zenon, <2>1, <2>2
  <2> QED BY Zenon, <2>3
<1>4. PICK n \in T : \A m \in T : ~(<<m, n>> \in OpToRel(<, Nat))
  BY Zenon, <1>2, <1>3, WFMin, NatLessThanWellFounded
<1>5. ASSUME NEW m \in T PROVE n <= m
  <2>1. n \in Nat /\ m \in Nat
    BY Zenon
  <2>2. ~(m < n)
    <3>1. ~(<<m, n>> \in OpToRel(<, Nat))
      BY Zenon, <1>4
    <3>2. ~(<<m, n>> \in {ss \in Nat \X Nat : ss[1] < ss[2]})
      BY <3>1, Zenon DEF OpToRel
    <3> QED BY Zenon, <3>2, <2>1
  <2> QED BY <2>1, <2>2
<1>6. MaxPack - n \in S
  BY Zenon
<1>7. ASSUME NEW q \in S PROVE q <= MaxPack - n
  <2>1. MaxPack - q \in Nat /\ MaxPack - (MaxPack - q) = q
    BY <1>1 DEF PackIds
  <2>2. MaxPack - q \in T
    BY Zenon, <2>1
  <2>3. n <= MaxPack - q
    BY Zenon, <2>2, <1>5
  <2> QED BY <2>1, <2>3, <1>1 DEF PackIds
<1> QED BY Zenon, <1>6, <1>7

\* The scan returns a pack id and its real size, and no later pack exists.
LEMMA ActivePackScan ==
    ASSUME TypeOK
    PROVE  /\ activePack.id \in PackIds
           /\ activePack.size = Len(packs[activePack.id])
           /\ \A p \in PackIds : p > activePack.id => packs[p] = <<>>
           /\ existing # {} => activePack.id \in existing
<1>1. CASE existing = {}
  BY <1>1, ChunkStoreAssumption DEF activePack, existing, PackIds
<1>2. CASE existing # {}
  <2> DEFINE top == CHOOSE p \in existing : \A q \in existing : q <= p
  <2>1. existing \in SUBSET PackIds
    BY Zenon DEF existing
  <2>2. \E p \in existing : \A q \in existing : q <= p
    BY Zenon, <1>2, <2>1, HighestPack
  <2>3. top \in existing /\ \A q \in existing : q <= top
    BY Zenon, <2>2
  <2>4. activePack = [id |-> top, size |-> Len(packs[top])]
    BY Zenon, <1>2 DEF activePack
  <2>5. \A p \in PackIds : p > top => packs[p] = <<>>
    <3> HIDE DEF top
    <3> SUFFICES ASSUME NEW p \in PackIds, p > top, packs[p] # <<>> PROVE FALSE
      OBVIOUS
    <3>1. p \in existing
      BY Zenon DEF existing
    <3>2. p \in Nat /\ top \in Nat /\ p <= top
      BY <2>1, <2>3, <3>1 DEF PackIds
    <3> QED BY <3>2
  <2> QED BY Zenon, <2>1, <2>3, <2>4, <2>5
<1> QED BY Zenon, <1>1, <1>2

\* The recorded position of an append is the real end of the file it goes to,
\* and that file is the highest one.
LEMMA NextSlot ==
    ASSUME TypeOK, ActivePackCached, nextSlot.id \in PackIds
    PROVE  /\ nextSlot.size \in Nat
           /\ nextSlot.size = Len(packs[nextSlot.id])
           /\ \A p \in PackIds : p > nextSlot.id => packs[p] = <<>>
<1>1. /\ cachedActivePack.id \in PackIds
      /\ cachedActivePack.size = Len(packs[cachedActivePack.id])
      /\ \A p \in PackIds : p > cachedActivePack.id => packs[p] = <<>>
  BY Zenon, ActivePackScan DEF cachedActivePack, ActivePackCached, TypeOK
<1>2. \A p \in PackIds : packs[p] \in Seq(Chunks \cup {Torn}) /\ Len(packs[p]) \in Nat
  BY DEF TypeOK
<1>3. CASE cachedActivePack.size >= PackTarget
  <2>1. nextSlot.id = cachedActivePack.id + 1 /\ nextSlot.size = 0
    BY Zenon, <1>3 DEF nextSlot
  <2>2. packs[nextSlot.id] = <<>>
    BY <1>1, <2>1 DEF PackIds
  <2> QED BY <1>1, <2>1, <2>2 DEF PackIds
<1>4. CASE ~(cachedActivePack.size >= PackTarget)
  <2>1. nextSlot = cachedActivePack
    BY Zenon, <1>4 DEF nextSlot
  <2> QED BY Zenon, <1>1, <1>2, <2>1
<1> QED BY Zenon, <1>3, <1>4

-----------------------------------------------------------------------------
(* Type correctness *)

\* A buffered or committed entry at the next slot is an index entry.
LEMMA SlotEntry ==
    ASSUME TypeOK, nextSlot.id \in PackIds
    PROVE  [pack |-> nextSlot.id, off |-> nextSlot.size, at |-> now] \in chunkIndexEntry
<1>1. nextSlot.size \in Nat
  <2>1. cachedActivePack.size \in Nat
    BY SMTT(30), ActivePackScan DEF cachedActivePack, TypeOK
  <2> QED BY Zenon, <2>1 DEF nextSlot
<1> QED BY Zenon, <1>1 DEF TypeOK, chunkIndexEntry

\* The pack files and the cached position keep their type across an append.
LEMMA AppendType ==
    ASSUME TypeOK, NEW b \in Chunks \cup {Torn}, nextSlot.id \in PackIds
    PROVE  /\ [packs EXCEPT ![nextSlot.id] = Append(@, b)]
                \in [PackIds -> Seq(Chunks \cup {Torn})]
           /\ \A k \in BOOLEAN :
                [known |-> k, id |-> nextSlot.id, size |-> nextSlot.size + 1]
                    \in [known : BOOLEAN, id : PackIds, size : Nat]
           /\ \A k \in BOOLEAN :
                [known |-> k, id |-> nextSlot.id, size |-> nextSlot.size]
                    \in [known : BOOLEAN, id : PackIds, size : Nat]
<1>1. nextSlot.size \in Nat
  BY Zenon, SlotEntry DEF chunkIndexEntry
<1>2. packs \in [PackIds -> Seq(Chunks \cup {Torn})]
  BY Zenon DEF TypeOK
<1>3. Append(packs[nextSlot.id], b) \in Seq(Chunks \cup {Torn})
  BY <1>2
<1> QED BY <1>1, <1>2, <1>3

\* A writer that finishes leaves well-typed writer state behind.
LEMMA FinishType ==
    ASSUME TypeOK, NEW w \in Writers, finish(w)
    PROVE  /\ pc' \in [Writers -> steps]
           /\ obj' \in [Writers -> Objects \cup {None}]
           /\ tgt' \in [Writers -> Digests \cup {None}]
           /\ seen' \in [Writers -> SUBSET Chunks]
           /\ batch' \in [Writers -> [Chunks -> chunkIndexEntry \cup {None}]]
           /\ stamp' \in [Writers -> Nat \cup {None}]
           /\ begun' \in [Writers -> Nat]
  BY Zenon DEF TypeOK, finish, steps, noBatch

\* Every step of the data tier keeps the type invariant.
LEMMA TypeStep ==
    ASSUME TypeOK, \A w \in Writers : WriterShape(w), [storeStep]_storeVars
    PROVE  TypeOK'
<1> USE ChunkStoreAssumption
<1>1. ASSUME NEW w \in Writers, NEW o \in Objects, NEW d \in Digests,
             NEW at \in Nat \cup {None}, NEW step \in steps, start(w, o, d, at, step)
      PROVE  TypeOK'
  BY Zenon, <1>1 DEF TypeOK, start, metaVars, packVars
<1>2. ASSUME NEW w \in Writers, writerStep(w) PROVE TypeOK'
  <2>1. ASSUME NEW d \in Files, Put(w, d) PROVE TypeOK'
    BY Zenon, <2>1, <1>1 DEF Put, Objects, Digests, steps
  <2>2. ASSUME NEW d \in Compounds, PutCompound(w, d) PROVE TypeOK'
    BY Zenon, <2>2, <1>1 DEF PutCompound, Objects, Digests, steps, TypeOK
  <2>3. ASSUME NEW o \in Objects, NEW p \in Payloads, WriteAnnotation(w, o, p) PROVE TypeOK'
    BY Zenon, <2>3, <1>1 DEF WriteAnnotation, Digests, steps, TypeOK
  <2>4. ASSUME NEW c \in Chunks, dedupHit(w, c) PROVE TypeOK'
    BY Zenon, <2>4 DEF dedupHit, TypeOK, metaVars, packVars
  <2>5. ASSUME NEW c \in Chunks, storeChunkBatched(w, c) PROVE TypeOK'
    <3>1. nextSlot.id \in PackIds
      BY Zenon, <2>5 DEF storeChunkBatched, appendToActivePackNoSync
    <3>2. batch' \in [Writers -> [Chunks -> chunkIndexEntry \cup {None}]]
      BY Zenon, <2>5, <3>1, SlotEntry DEF storeChunkBatched, TypeOK
    <3>3. packs' \in [PackIds -> Seq(Chunks \cup {Torn})]
          /\ active' \in [known : BOOLEAN, id : PackIds, size : Nat]
      BY Zenon, <2>5, <3>1, AppendType DEF storeChunkBatched, appendToActivePackNoSync
    <3>4. seen' \in [Writers -> SUBSET Chunks]
      BY <2>5 DEF storeChunkBatched, TypeOK
    <3>5. UNCHANGED <<now, index, recipe, manifest, ann, synced, packMu, pc, obj, tgt,
                      stamp, begun>>
      BY Zenon, <2>5 DEF storeChunkBatched, metaVars
    <3> QED BY Zenon, <3>2, <3>3, <3>4, <3>5 DEF TypeOK
  <2>6. ASSUME NEW c \in Chunks, storeChunk(w, c) PROVE TypeOK'
    <3>1. nextSlot.id \in PackIds
      BY Zenon, <2>6 DEF storeChunk, appendToActivePackNoSync
    <3>2. batch' \in [Writers -> [Chunks -> chunkIndexEntry \cup {None}]]
      BY Zenon, <2>6, <3>1, SlotEntry DEF storeChunk, TypeOK
    <3>3. packs' \in [PackIds -> Seq(Chunks \cup {Torn})]
          /\ active' \in [known : BOOLEAN, id : PackIds, size : Nat]
      BY Zenon, <2>6, <3>1, AppendType DEF storeChunk, appendToActivePackNoSync
    <3> QED BY Zenon, <2>6, <3>2, <3>3 DEF storeChunk, TypeOK, metaVars, steps
  <2>7. CASE storeChunkIndexed(w)
    <3>1. ASSUME NEW c \in Chunks, batch[w][c] # None
          PROVE  [batch[w][c] EXCEPT !.at = now] \in chunkIndexEntry
      <4>1. batch[w][c] \in chunkIndexEntry /\ now \in Nat
        BY <3>1 DEF TypeOK
      <4> QED BY Zenon, <4>1 DEF chunkIndexEntry
    <3>2. index' \in [Chunks -> chunkIndexEntry \cup {None}]
      BY Zenon, <2>7, <3>1 DEF storeChunkIndexed, TypeOK
    <3>3. synced' \in [PackIds -> Nat]
      BY <2>7 DEF storeChunkIndexed, syncTouchedPacks, TypeOK
    <3> QED BY Zenon, <2>7, <3>2, <3>3 DEF storeChunkIndexed, TypeOK, noBatch, steps
  <2>8. CASE storeChunkFailed(w)
    BY Zenon, <2>8, FinishType DEF storeChunkFailed, TypeOK, metaVars
  <2>9. CASE appendFails(w)
    BY Zenon, <2>9, FinishType, AppendType DEF appendFails, failedAppend, TypeOK, metaVars
  <2>10. CASE sealRecipe(w)
    BY Zenon, <2>10 DEF sealRecipe, TypeOK, metaVars, packVars, steps
  <2>11. CASE commitSync(w)
    BY <2>11 DEF commitSync, syncTouchedPacks, TypeOK, metaVars, steps
  <2>13. CASE commit(w)
    <3>1. obj[w] \in Objects /\ tgt[w] \in Digests
      BY Zenon, <2>13 DEF commit, WriterShape
    <3>2. index' \in [Chunks -> chunkIndexEntry \cup {None}]
      BY <2>13 DEF commit, TypeOK
    <3>3. recipe' \in [Digests -> Nat \cup {None}]
      BY Zenon, <2>13, <3>1 DEF commit, TypeOK
    <3>4. manifest' \subseteq Objects
      BY Zenon, <2>13, <3>1 DEF commit, TypeOK
    <3>5. finish(w) /\ UNCHANGED <<now, ann, packs, synced, active, packMu>>
      BY <2>13 DEF commit, packVars
    <3> QED BY Zenon, <3>2, <3>3, <3>4, <3>5, FinishType DEF TypeOK
  <2>14. CASE putRecipe(w)
    BY Zenon, <2>14 DEF putRecipe, TypeOK, packVars, steps
  <2>15. CASE putAnnotation(w)
    <3>1. tgt[w] \in Payloads
      BY <2>15 DEF putAnnotation, WriterShape
    <3> QED BY Zenon, <2>15, <3>1, FinishType DEF putAnnotation, TypeOK, packVars
  <2>16. CASE abort(w)
    BY Zenon, <2>16, FinishType DEF abort, TypeOK, metaVars, packVars
  <2> QED BY Zenon, <1>2, <2>1, <2>2, <2>3, <2>4, <2>5, <2>6, <2>7, <2>8, <2>9, <2>10, <2>11,
             <2>13, <2>14, <2>15, <2>16 DEF writerStep
<1>3. ASSUME NEW o \in Objects, DeleteObject(o) PROVE TypeOK'
  BY Zenon, <1>3 DEF DeleteObject, TypeOK, packVars, writerVars
<1>4. ASSUME NEW o \in Objects, WriteInlineAnnotation(o) PROVE TypeOK'
  BY Zenon, <1>4 DEF WriteInlineAnnotation, TypeOK, packVars, writerVars
<1>5. CASE crash
  <2>1. PICK keep \in [PackIds -> 0 .. PackTarget], torn \in SUBSET PackIds :
          /\ \A p \in PackIds : keep[p] \in synced[p] .. Len(packs[p])
          /\ packs' = [p \in PackIds |->
                 SubSeq(packs[p], 1, keep[p]) \o (IF p \in torn THEN <<Torn>> ELSE <<>>)]
    BY Zenon, <1>5 DEF crash
  <2>2. ASSUME NEW p \in PackIds
        PROVE  SubSeq(packs[p], 1, keep[p]) \o (IF p \in torn THEN <<Torn>> ELSE <<>>)
                   \in Seq(Chunks \cup {Torn})
    <3>1. packs[p] \in Seq(Chunks \cup {Torn}) /\ keep[p] \in 0 .. Len(packs[p])
      BY <2>1 DEF TypeOK
    <3>2. SubSeq(packs[p], 1, keep[p]) \in Seq(Chunks \cup {Torn})
      BY <3>1
    <3>3. <<Torn>> \in Seq(Chunks \cup {Torn}) /\ <<>> \in Seq(Chunks \cup {Torn})
      OBVIOUS
    <3>4. ASSUME NEW s \in Seq(Chunks \cup {Torn}), NEW t \in Seq(Chunks \cup {Torn})
          PROVE  s \o t \in Seq(Chunks \cup {Torn})
      OBVIOUS
    <3> QED BY Zenon, <3>2, <3>3, <3>4
  <2>3. packs' \in [PackIds -> Seq(Chunks \cup {Torn})]
    BY Zenon, <2>1, <2>2
  <2>4. 0 \in PackIds
    BY DEF PackIds
  <2>5. /\ active' = [known |-> FALSE, id |-> 0, size |-> 0]
        /\ packMu' = None
        /\ pc' = [w \in Writers |-> "idle"]
        /\ obj' = [w \in Writers |-> None]
        /\ tgt' = [w \in Writers |-> None]
        /\ seen' = [w \in Writers |-> {}]
        /\ batch' = [w \in Writers |-> noBatch]
        /\ stamp' = [w \in Writers |-> None]
        /\ begun' = [w \in Writers |-> 0]
        /\ UNCHANGED <<now, metaVars, synced>>
    BY <1>5 DEF crash
  <2> QED BY Zenon, <2>3, <2>4, <2>5 DEF TypeOK, metaVars, steps, noBatch
<1>6. CASE tick
  BY <1>6 DEF tick, TypeOK, metaVars, packVars, writerVars
<1>7. CASE UNCHANGED storeVars
  BY Zenon, <1>7 DEF storeVars, TypeOK, metaVars, packVars, writerVars
<1> QED BY Zenon, <1>2, <1>3, <1>4, <1>5, <1>6, <1>7 DEF storeStep

-----------------------------------------------------------------------------
(* What a step leaves of the bytes, the rows and the other writers *)

\* The packs only grow: what is written stays where it is, and stays synced.
Grows == \A p \in PackIds :
    /\ Len(packs[p]) <= Len(packs'[p])
    /\ \A i \in 1 .. Len(packs[p]) : packs'[p][i] = packs[p][i]
    /\ synced[p] <= synced'[p]

\* What is known to be on disk is there, and the cached position is right.
PacksOK ==
    /\ \A p \in PackIds : synced[p] <= Len(packs[p])
    /\ ActivePackCached

\* No committed row is lost: chunk rows, and the recipes of payloads.
RowsKept ==
    /\ \A c \in Chunks : index[c] # None => index'[c] # None
    /\ \A d \in Payloads : recipe[d] # None => recipe'[d] # None

\* A step of one writer leaves the state of the other writers alone.
Same(u) ==
    /\ pc'[u] = pc[u] /\ obj'[u] = obj[u] /\ tgt'[u] = tgt[u]
    /\ seen'[u] = seen[u] /\ batch'[u] = batch[u] /\ stamp'[u] = stamp[u]

\* Entries stay placed, and durable, while the packs grow.
LEMMA GrowsKeeps ==
    ASSUME TypeOK, TypeOK', Grows, NEW e \in chunkIndexEntry, NEW c
    PROVE  /\ placed(e, c) => placed(e, c)'
           /\ durable(e, c) => durable(e, c)'
<1> DEFINE q == e.pack
           n == e.off
<1>1. q \in PackIds /\ n \in Nat
  BY Zenon DEF chunkIndexEntry
<1>2. /\ packs \in [PackIds -> Seq(Chunks \cup {Torn})]
      /\ packs' \in [PackIds -> Seq(Chunks \cup {Torn})]
      /\ synced \in [PackIds -> Nat] /\ synced' \in [PackIds -> Nat]
  BY Zenon DEF TypeOK
<1> HIDE DEF q, n
<1>3. /\ Len(packs[q]) \in Nat /\ Len(packs'[q]) \in Nat
      /\ synced[q] \in Nat /\ synced'[q] \in Nat
  BY <1>1, <1>2
<1>4. n < Len(packs[q]) => n < Len(packs'[q]) /\ packs'[q][n + 1] = packs[q][n + 1]
  BY <1>1, <1>3 DEF Grows
<1>5. n < synced[q] => n < synced'[q]
  BY <1>1, <1>3 DEF Grows
<1> QED BY Zenon, <1>4, <1>5 DEF placed, durable, q, n

\* A writer that takes no part in a step keeps its invariant.
LEMMA OthersKeep ==
    ASSUME TypeOK, TypeOK', WriterInv, Grows, RowsKept, NEW u \in Writers, Same(u)
    PROVE  WriterOK(u)'
<1>1. WriterOK(u)
  BY Zenon DEF WriterInv
<1>2. batch'[u] = batch[u] /\ pc'[u] = pc[u]
  BY Zenon DEF Same
<1>3. ASSUME NEW c \in Chunks, batch[u][c] # None
      PROVE  placed(batch[u][c], c)' /\ (pc[u] = "synced" => durable(batch[u][c], c)')
  <2>1. batch[u][c] \in chunkIndexEntry
    BY <1>3 DEF TypeOK
  <2>2. placed(batch[u][c], c) /\ (pc[u] = "synced" => durable(batch[u][c], c))
    BY Zenon, <1>1, <1>3 DEF WriterOK, WriterShape
  <2> QED BY Zenon, <1>2, <2>1, <2>2, GrowsKeeps DEF placed, durable
<1>4. /\ \A c \in Chunks : (batch[u][c] # None => placed(batch[u][c], c))'
      /\ pc'[u] = "synced" =>
            \A c \in Chunks : (batch[u][c] # None => durable(batch[u][c], c))'
  BY Zenon, <1>2, <1>3
<1>5. \A c \in seen'[u] : index'[c] # None \/ batch'[u][c] # None
  BY Zenon, <1>1 DEF WriterOK, WriterShape, Same, RowsKept, TypeOK
<1>6. pc'[u] = "record" => recipe'[tgt'[u]] # None
  BY Zenon, <1>1 DEF WriterOK, WriterShape, Same, RowsKept
<1> QED BY Zenon, <1>1, <1>4, <1>5, <1>6 DEF WriterOK, WriterShape, Same

\* The committed rows stay durable when no row changes and the packs grow.
LEMMA RowsStayDurable ==
    ASSUME TypeOK, TypeOK', IndexDurable, Grows, index' = index
    PROVE  IndexDurable'
<1>1. \A c \in Chunks : index[c] # None => index[c] \in chunkIndexEntry
  BY Zenon DEF TypeOK
<1> QED BY Zenon, <1>1, GrowsKeeps DEF IndexDurable, placed, durable

\* A step that leaves the rows and the packs alone keeps StoreInv if the writer
\* that takes it keeps its own part.
LEMMA QuietStep ==
    ASSUME TypeOK, TypeOK', StoreInv, UNCHANGED <<metaVars, packVars>>,
           NEW w \in Writers, WriterOK(w)', \A u \in Writers \ {w} : Same(u)
    PROVE  StoreInv'
<1>1. Grows
  BY DEF Grows, packVars, TypeOK
<1>2. RowsKept
  BY Zenon DEF RowsKept, metaVars
<1>3. WriterInv'
  BY Zenon, <1>1, <1>2, OthersKeep DEF StoreInv, WriterInv
<1>4. IndexDurable'
  BY Zenon, <1>1, RowsStayDurable DEF StoreInv, metaVars
<1> QED BY Zenon, <1>3, <1>4
    DEF StoreInv, metaVars, packVars, ActivePackCached, RecipesResolve, RowsBacked

\* A writer that has finished satisfies its invariant, whatever it held.
LEMMA FinishOK ==
    ASSUME TypeOK, NEW w \in Writers, finish(w)
    PROVE  WriterOK(w)' /\ \A u \in Writers \ {w} : Same(u)
<1>1. /\ pc'[w] = "idle" /\ obj'[w] = None /\ tgt'[w] = None
      /\ seen'[w] = {} /\ batch'[w] = noBatch /\ stamp'[w] = None
  BY Zenon DEF finish, TypeOK
<1>2. \A c \in Chunks : batch'[w][c] = None
  BY Zenon, <1>1 DEF noBatch
<1>3. None \notin Digests
  BY Zenon, ChunkStoreAssumption
<1>4. WriterOK(w)'
  BY Zenon, <1>1, <1>2, <1>3 DEF WriterOK, WriterShape, Digests, Objects
<1>5. \A u \in Writers \ {w} : Same(u)
  BY Zenon DEF finish, TypeOK, Same
<1> QED BY Zenon, <1>4, <1>5

\* The writer that starts satisfies its invariant: it holds nothing yet.
LEMMA StartOK ==
    ASSUME TypeOK, TypeOK', StoreInv, NEW w \in Writers, NEW o \in Objects, NEW d \in Digests,
           NEW at, NEW step \in {"chunks", "commit"}, start(w, o, d, at, step),
           d \in Objects => o = d,
           d \in Payloads => at # None /\ step = "chunks",
           step = "commit" => at = None /\ d \in Compounds
    PROVE  StoreInv'
<1>1. WriterOK(w) /\ pc[w] = "idle"
  BY Zenon DEF StoreInv, WriterInv, start
<1>2. seen[w] = {} /\ batch[w] = noBatch
  BY Zenon, <1>1 DEF WriterOK, WriterShape
<1>3. /\ pc'[w] = step /\ obj'[w] = o /\ tgt'[w] = d /\ stamp'[w] = at
      /\ seen'[w] = {} /\ batch'[w] = noBatch
  BY Zenon, <1>2 DEF start, TypeOK
<1>4. \A c \in Chunks : batch'[w][c] = None
  BY Zenon, <1>3 DEF noBatch
<1>5. WriterOK(w)'
  BY Zenon, <1>3, <1>4, ChunkStoreAssumption DEF WriterOK, WriterShape, Digests, Objects
<1>6. \A u \in Writers \ {w} : Same(u)
  BY DEF start, TypeOK, Same
<1>7. UNCHANGED <<metaVars, packVars>>
  BY Zenon DEF start
<1> QED BY Zenon, <1>5, <1>6, <1>7, QuietStep

\* An append leaves the packs grown by one unit at the recorded position, and
\* the cached position, if kept, right; the append of a repack is synced with it.
LEMMA AppendGrows ==
    ASSUME TypeOK, PacksOK, NEW b \in Chunks \cup {Torn}, nextSlot.id \in PackIds,
           synced' = synced \/ synced' = [synced EXCEPT ![nextSlot.id] = Len(packs'[nextSlot.id])],
           packs' = [packs EXCEPT ![nextSlot.id] = Append(@, b)],
           \/ active' = [known |-> TRUE, id |-> nextSlot.id, size |-> nextSlot.size + 1]
           \/ active'.known = FALSE
    PROVE  /\ Grows
           /\ PacksOK'
           /\ nextSlot.size < Len(packs'[nextSlot.id])
           /\ packs'[nextSlot.id][nextSlot.size + 1] = b
<1> DEFINE q == nextSlot.id
           n == nextSlot.size
<1>1. /\ n \in Nat /\ n = Len(packs[q])
      /\ \A p \in PackIds : p > q => packs[p] = <<>>
  BY Zenon, NextSlot DEF PacksOK
<1>2. /\ packs \in [PackIds -> Seq(Chunks \cup {Torn})]
      /\ synced \in [PackIds -> Nat]
      /\ \A p \in PackIds : synced[p] <= Len(packs[p])
  BY Zenon DEF TypeOK, PacksOK
<1>3. q \in PackIds /\ (synced' = synced \/ synced' = [synced EXCEPT ![q] = Len(packs'[q])])
  BY Zenon
<1>4. active' = [known |-> TRUE, id |-> q, size |-> n + 1] \/ active'.known = FALSE
  BY Zenon
<1>5. packs' = [packs EXCEPT ![q] = Append(@, b)]
  BY Zenon
<1> HIDE DEF q, n
<1>6. /\ Len(packs'[q]) = n + 1
      /\ packs'[q][n + 1] = b
      /\ \A i \in 1 .. n : packs'[q][i] = packs[q][i]
  BY <1>1, <1>2, <1>3, <1>5
<1>7. \A p \in PackIds : p # q => packs'[p] = packs[p]
  BY Zenon, <1>2, <1>5
<1>8. /\ synced[q] <= synced'[q] /\ synced'[q] <= n + 1
      /\ \A p \in PackIds : p # q => synced'[p] = synced[p]
  BY <1>1, <1>2, <1>3, <1>6
<1>9. Grows
  BY <1>1, <1>2, <1>6, <1>7, <1>8 DEF Grows
<1>10. ActivePackCached'
  BY <1>1, <1>3, <1>4, <1>6, <1>7 DEF ActivePackCached, PackIds
<1>11. \A p \in PackIds : synced'[p] <= Len(packs'[p])
  BY Zenon, <1>1, <1>2, <1>6, <1>7, <1>8
<1> QED BY <1>1, <1>6, <1>9, <1>10, <1>11 DEF q, n, PacksOK

\* A sync grows what is synced up to the real end of the packs it touches.
LEMMA SyncGrows ==
    ASSUME TypeOK, PacksOK, NEW ps, syncTouchedPacks(ps), packs' = packs
    PROVE  /\ Grows
           /\ \A p \in PackIds : synced'[p] <= Len(packs'[p])
           /\ \A p \in ps \cap PackIds : synced'[p] = Len(packs[p])
<1>1. /\ packs \in [PackIds -> Seq(Chunks \cup {Torn})]
      /\ synced \in [PackIds -> Nat]
      /\ \A p \in PackIds : synced[p] <= Len(packs[p])
  BY Zenon DEF TypeOK, PacksOK
<1>2. \A p \in PackIds : Len(packs[p]) \in Nat
  BY <1>1
<1>3. \A p \in PackIds : synced'[p] = IF p \in ps THEN Len(packs[p]) ELSE synced[p]
  BY Zenon DEF syncTouchedPacks
<1> QED BY <1>1, <1>2, <1>3 DEF Grows

\* A file cut after its first k units, with anything behind, keeps those units.
LEMMA CutSeq ==
    ASSUME NEW S, NEW s \in Seq(S), NEW t \in Seq(S), NEW k \in 0 .. Len(s)
    PROVE  /\ k <= Len(SubSeq(s, 1, k) \o t)
           /\ \A i \in 1 .. k : (SubSeq(s, 1, k) \o t)[i] = s[i]
<1>0. SubSeq(s, 1, k) \in Seq(S)
  <2>1. k \in Int /\ 1 \in Int /\ \A i \in 1 .. k : s[i] \in S
    OBVIOUS
  <2>2. SubSeq(s, 1, k) = [i \in 1 .. k |-> s[i]]
    OBVIOUS
  <2> QED BY <2>1, <2>2
<1>1. PICK h \in Seq(S) : h = SubSeq(s, 1, k)
  BY Zenon, <1>0
<1>2. Len(h) = k /\ \A i \in 1 .. k : h[i] = s[i]
  BY <1>1
<1>3. Len(h \o t) = Len(h) + Len(t) /\ Len(t) \in Nat
      /\ \A i \in 1 .. Len(h) : (h \o t)[i] = h[i]
  OBVIOUS
<1> QED BY <1>1, <1>2, <1>3

\* A crash cuts nothing that was synced, and drops the cached position: what the
\* index points at stays on disk.
LEMMA CrashBytes ==
    ASSUME TypeOK, TypeOK', IndexDurable, crash
    PROVE  PacksOK' /\ IndexDurable'
<1>1. PICK keep \in [PackIds -> 0 .. PackTarget], torn \in SUBSET PackIds :
        /\ \A p \in PackIds : keep[p] \in synced[p] .. Len(packs[p])
        /\ packs' = [p \in PackIds |->
               SubSeq(packs[p], 1, keep[p]) \o (IF p \in torn THEN <<Torn>> ELSE <<>>)]
  BY Zenon DEF crash
<1>2. index' = index /\ synced' = synced /\ active'.known = FALSE
  BY Zenon DEF crash, metaVars
<1>3. ASSUME NEW p \in PackIds
      PROVE  /\ synced[p] <= Len(packs'[p])
             /\ \A i \in 1 .. synced[p] : packs'[p][i] = packs[p][i]
  <2>1. packs[p] \in Seq(Chunks \cup {Torn}) /\ keep[p] \in 0 .. Len(packs[p])
        /\ synced[p] \in Nat /\ synced[p] <= keep[p]
    BY SMTT(30), <1>1 DEF TypeOK
  <2>2. PICK t \in Seq(Chunks \cup {Torn}) : packs'[p] = SubSeq(packs[p], 1, keep[p]) \o t
    <3>1. <<Torn>> \in Seq(Chunks \cup {Torn}) /\ <<>> \in Seq(Chunks \cup {Torn})
      OBVIOUS
    <3> QED BY Zenon, <1>1, <3>1
  <2>3. keep[p] <= Len(packs'[p]) /\ \A i \in 1 .. keep[p] : packs'[p][i] = packs[p][i]
    BY <2>1, <2>2, CutSeq
  <2>4. Len(packs'[p]) \in Nat
    BY DEF TypeOK
  <2> QED BY SMTT(30), <2>1, <2>3, <2>4
<1>4. IndexDurable'
  <2> SUFFICES ASSUME NEW c \in Chunks, index[c] # None PROVE durable(index[c], c)'
    BY Zenon, <1>2 DEF IndexDurable
  <2>1. index[c] \in chunkIndexEntry /\ durable(index[c], c)
    BY Zenon DEF TypeOK, IndexDurable
  <2>2. PICK q \in PackIds, n \in Nat : q = index[c].pack /\ n = index[c].off
    BY Zenon, <2>1 DEF chunkIndexEntry
  <2>3. n < synced[q] /\ packs[q][n + 1] = c
    BY Zenon, <2>1, <2>2 DEF durable, placed
  <2>4. packs' \in [PackIds -> Seq(Chunks \cup {Torn})] /\ synced \in [PackIds -> Nat]
    BY Zenon DEF TypeOK
  <2>5. Len(packs'[q]) \in Nat /\ synced[q] \in Nat
    BY <2>4
  <2>6. n < Len(packs'[q]) /\ packs'[q][n + 1] = c
    BY <1>3, <2>3, <2>5
  <2> QED BY Zenon, <1>2, <2>2, <2>3, <2>6 DEF durable, placed
<1>5. \A p \in PackIds : synced'[p] <= Len(packs'[p])
  BY Zenon, <1>2, <1>3
<1> QED BY Zenon, <1>2, <1>4, <1>5 DEF PacksOK, ActivePackCached

-----------------------------------------------------------------------------
(* Every step keeps StoreInv *)

\* A step of one writer keeps StoreInv if it keeps the packs, the rows and the
\* writer's own part.
LEMMA OneWriter ==
    ASSUME TypeOK, TypeOK', StoreInv, Grows, RowsKept, NEW w \in Writers,
           \A p \in PackIds : synced'[p] <= Len(packs'[p]), ActivePackCached',
           IndexDurable', RecipesResolve', RowsBacked',
           WriterOK(w)', \A u \in Writers \ {w} : Same(u)
    PROVE  StoreInv'
<1>1. WriterInv'
  BY Zenon, OthersKeep DEF StoreInv, WriterInv
<1> QED BY Zenon, <1>1 DEF StoreInv

\* storeChunkBatched and storeChunk: the entry the writer buffers is placed.
LEMMA AppendStep ==
    ASSUME TypeOK, TypeOK', StoreInv, NEW w \in Writers, NEW c \in Chunks,
           storeChunkBatched(w, c) \/ storeChunk(w, c)
    PROVE  StoreInv'
<1> DEFINE e == [pack |-> nextSlot.id, off |-> nextSlot.size, at |-> now]
<1>1. /\ nextSlot.id \in PackIds /\ UNCHANGED <<metaVars, synced>>
      /\ packs' = [packs EXCEPT ![nextSlot.id] = Append(@, c)]
      /\ active' = [known |-> TRUE, id |-> nextSlot.id, size |-> nextSlot.size + 1]
      /\ batch' = [batch EXCEPT ![w][c] = e]
      /\ obj' = obj /\ tgt' = tgt /\ stamp' = stamp /\ pc[w] = "chunks"
      /\ \/ /\ tgt[w] \in Objects /\ pc' = pc
            /\ seen' = [seen EXCEPT ![w] = @ \cup {c}]
         \/ /\ tgt[w] \notin Objects /\ pc' = [pc EXCEPT ![w] = "appended"]
            /\ seen' = seen
  BY Zenon DEF storeChunkBatched, storeChunk, appendToActivePackNoSync, batched
<1>2. /\ Grows /\ ActivePackCached'
      /\ \A p \in PackIds : synced'[p] <= Len(packs'[p])
      /\ nextSlot.size < Len(packs'[nextSlot.id])
      /\ packs'[nextSlot.id][nextSlot.size + 1] = c
  BY Zenon, <1>1, AppendGrows DEF StoreInv, PacksOK
<1>3. RowsKept
  BY Zenon, <1>1 DEF RowsKept, metaVars
<1>4. IndexDurable' /\ RecipesResolve' /\ RowsBacked'
  BY Zenon, <1>1, <1>2, RowsStayDurable DEF StoreInv, metaVars, RecipesResolve, RowsBacked
<1>5. \A u \in Writers \ {w} : Same(u)
  BY SMTT(30), <1>1 DEF Same, TypeOK
<1>6. WriterOK(w)'
  <2>1. WriterOK(w) /\ e \in chunkIndexEntry /\ e # None /\ None \notin Digests
    <3>1. e \in chunkIndexEntry
      BY Zenon, <1>1, SlotEntry
    <3>2. e # None
      BY Zenon, <3>1, NoneAssumption
    <3> QED BY Zenon, <3>1, <3>2, ChunkStoreAssumption DEF StoreInv, WriterInv
  <2> HIDE DEF e
  <2>2. /\ batch'[w][c] = e
        /\ \A x \in Chunks \ {c} : batch'[w][x] = batch[w][x]
    <3>1. batch \in [Writers -> [Chunks -> chunkIndexEntry \cup {None}]]
      BY Zenon DEF TypeOK
    <3>2. batch' = [batch EXCEPT ![w][c] = e]
      BY Zenon, <1>1
    <3>3. batch'[w] = [batch[w] EXCEPT ![c] = e]
      BY Zenon, <3>1, <3>2
    <3>4. DOMAIN batch[w] = Chunks
      BY Zenon, <3>1
    <3> QED BY Zenon, <3>3, <3>4
  <2> USE DEF e
  <2>3. ASSUME NEW x \in Chunks, batch'[w][x] # None PROVE placed(batch[w][x], x)'
    <3>1. CASE x = c
      BY <3>1, <2>2, <1>2 DEF placed
    <3>2. CASE x # c
      <4>1. batch'[w][x] = batch[w][x] /\ batch[w][x] \in chunkIndexEntry
        BY <3>2, <2>2, <2>3 DEF TypeOK
      <4>2. placed(batch[w][x], x)
        BY <4>1, <2>1, <2>3 DEF WriterOK, WriterShape
      <4> QED BY Zenon, <4>1, <4>2, <1>2, GrowsKeeps DEF placed
    <3> QED BY Zenon, <3>1, <3>2
  <2>4. \A x \in seen'[w] : index'[x] # None \/ batch'[w][x] # None
    <3>1. seen[w] \subseteq Chunks /\ index' = index /\ seen'[w] \subseteq seen[w] \cup {c}
      BY Zenon, <1>1 DEF metaVars, TypeOK
    <3>2. \A x \in seen[w] : index[x] # None \/ batch[w][x] # None
      BY Zenon, <2>1 DEF WriterOK, WriterShape
    <3>3. batch'[w][c] # None
      BY Zenon, <2>1, <2>2
    <3> QED BY Zenon, <3>1, <3>2, <3>3, <2>2
  <2>5. tgt[w] \notin Objects => tgt[w] \in Payloads
    BY Zenon, <1>1, <2>1 DEF WriterOK, WriterShape, Digests
  <2>6. tgt[w] \in Objects => tgt[w] \notin Payloads
    BY Zenon, ChunkStoreAssumption
  <2>7. pc'[w] = IF tgt[w] \in Objects THEN "chunks" ELSE "appended"
    BY Zenon, <1>1 DEF TypeOK
  <2> QED BY Zenon, <1>1, <2>1, <2>3, <2>4, <2>5, <2>6, <2>7 DEF WriterOK, WriterShape
<1> QED BY Zenon, <1>2, <1>3, <1>4, <1>5, <1>6, OneWriter

\* storeChunkIndexed: the row it puts points at bytes that were just synced.
LEMMA IndexStep ==
    ASSUME TypeOK, TypeOK', StoreInv, NEW w \in Writers, storeChunkIndexed(w)
    PROVE  StoreInv'
<1> USE DEF storeChunkIndexed
<1>1. /\ Grows
      /\ \A p \in PackIds : synced'[p] <= Len(packs'[p])
      /\ \A p \in touchedPacks(w) \cap PackIds : synced'[p] = Len(packs[p])
  BY Zenon, SyncGrows DEF StoreInv, PacksOK
<1>2. RowsKept
  <2>1. \A c \in Chunks : index'[c] # None \/ (batch[w][c] = None /\ index'[c] = index[c])
    <3>1. ASSUME NEW c \in Chunks, batch[w][c] # None PROVE index'[c] # None
      <4>1. batch[w][c] \in chunkIndexEntry /\ now \in Nat
        BY <3>1 DEF TypeOK
      <4>2. [batch[w][c] EXCEPT !.at = now] \in chunkIndexEntry
        BY Zenon, <4>1 DEF chunkIndexEntry
      <4> QED BY Zenon, <3>1, <4>2, NoneAssumption
    <3> QED BY Zenon, <3>1
  <2> QED BY Zenon, <2>1 DEF RowsKept
<1>3. WriterOK(w) /\ tgt[w] \in Payloads
  BY Zenon DEF StoreInv, WriterInv, WriterOK, WriterShape
<1>4. IndexDurable'
  <2> SUFFICES ASSUME NEW c \in Chunks, index'[c] # None PROVE durable(index[c], c)'
    BY Zenon DEF IndexDurable
  <2>1. CASE batch[w][c] = None
    <3>1. index'[c] = index[c] /\ index[c] \in chunkIndexEntry /\ durable(index[c], c)
      BY <2>1 DEF TypeOK, StoreInv, IndexDurable
    <3> QED BY Zenon, <3>1, <1>1, GrowsKeeps DEF durable, placed
  <2>2. CASE batch[w][c] # None
    <3> DEFINE e == batch[w][c]
    <3>1. e \in chunkIndexEntry /\ placed(e, c) /\ e.pack \in touchedPacks(w)
      BY <2>2, <1>3 DEF TypeOK, WriterOK, WriterShape, touchedPacks
    <3>2. index'[c] = [e EXCEPT !.at = now]
      BY Zenon, <2>2
    <3>3. index'[c].pack = e.pack /\ index'[c].off = e.off
      BY Zenon, <3>1, <3>2 DEF chunkIndexEntry
    <3>4. e.pack \in PackIds
      BY Zenon, <3>1 DEF chunkIndexEntry
    <3>5. synced'[e.pack] = Len(packs[e.pack])
      BY Zenon, <3>1, <3>4, <1>1
    <3> QED BY Zenon, <3>1, <3>3, <3>5 DEF durable, placed
  <2> QED BY Zenon, <2>1, <2>2
<1>5. RecipesResolve' /\ RowsBacked' /\ ActivePackCached'
  <2>1. RecipesResolve'
    BY Zenon, <1>2, ChunkStoreAssumption DEF StoreInv, RecipesResolve, RowsKept
  <2>2. RowsBacked' /\ ActivePackCached'
    BY Zenon DEF StoreInv, RowsBacked, ActivePackCached
  <2> QED BY Zenon, <2>1, <2>2
<1>6. WriterOK(w)'
  <2>1. /\ pc'[w] = "chunks" /\ batch'[w] = noBatch /\ \A c \in Chunks : batch'[w][c] = None
        /\ seen'[w] = seen[w] \cup {c \in Chunks : batch[w][c] # None}
    BY DEF TypeOK, noBatch
  <2>2. \A c \in Chunks : batch[w][c] # None => index'[c] # None
    <3> SUFFICES ASSUME NEW c \in Chunks, batch[w][c] # None PROVE index'[c] # None
      BY Zenon
    <3>1. batch[w][c] \in chunkIndexEntry /\ now \in Nat
      BY DEF TypeOK
    <3>2. [batch[w][c] EXCEPT !.at = now] \in chunkIndexEntry
      BY Zenon, <3>1 DEF chunkIndexEntry
    <3> QED BY Zenon, <3>2, NoneAssumption
  <2>3. \A c \in seen'[w] : index'[c] # None
    BY Zenon, <1>2, <1>3, <2>1, <2>2 DEF WriterOK, WriterShape, RowsKept, TypeOK
  <2>4. tgt[w] \notin Objects
    BY Zenon, <1>3, ChunkStoreAssumption
  <2> QED BY Zenon, <1>3, <2>1, <2>3, <2>4 DEF WriterOK, WriterShape
<1>7. \A u \in Writers \ {w} : Same(u)
  BY DEF Same, TypeOK
<1> QED BY Zenon, <1>1, <1>2, <1>4, <1>5, <1>6, <1>7, OneWriter

\* commitSync: the writer's batch becomes durable before it may commit.
LEMMA SyncStep ==
    ASSUME TypeOK, TypeOK', StoreInv, NEW w \in Writers, commitSync(w)
    PROVE  StoreInv'
<1> USE DEF commitSync
<1>1. /\ Grows
      /\ \A p \in PackIds : synced'[p] <= Len(packs'[p])
      /\ \A p \in touchedPacks(w) \cap PackIds : synced'[p] = Len(packs[p])
  BY Zenon, SyncGrows DEF StoreInv, PacksOK
<1>2. RowsKept
  BY Zenon DEF RowsKept, metaVars
<1>3. IndexDurable' /\ RecipesResolve' /\ RowsBacked' /\ ActivePackCached'
  BY Zenon, <1>1, RowsStayDurable
  DEF StoreInv, metaVars, RecipesResolve, RowsBacked, ActivePackCached
<1>4. WriterOK(w)'
  <2>1. WriterOK(w) /\ pc'[w] = "synced"
    BY Zenon DEF StoreInv, WriterInv, TypeOK
  <2>2. ASSUME NEW c \in Chunks, batch[w][c] # None
        PROVE  placed(batch[w][c], c)' /\ durable(batch[w][c], c)'
    <3> DEFINE e == batch[w][c]
    <3>1. e \in chunkIndexEntry /\ placed(e, c) /\ e.pack \in touchedPacks(w)
      <4>1. batch[w] \in [Chunks -> chunkIndexEntry \cup {None}]
        BY Zenon DEF TypeOK
      <4>2. e \in chunkIndexEntry
        BY Zenon, <2>2, <4>1
      <4>3. placed(e, c)
        BY Zenon, <2>2, <2>1 DEF WriterOK, WriterShape
      <4>4. e.pack \in touchedPacks(w)
        BY Zenon, <2>2 DEF touchedPacks
      <4> QED BY Zenon, <4>2, <4>3, <4>4
    <3>2. e.pack \in PackIds
      BY Zenon, <3>1 DEF chunkIndexEntry
    <3>3. synced'[e.pack] = Len(packs[e.pack])
      BY Zenon, <3>1, <3>2, <1>1
    <3> QED BY Zenon, <3>1, <3>3 DEF durable, placed
  <2> QED BY Zenon, <2>1, <2>2 DEF WriterOK, WriterShape, metaVars
<1>5. \A u \in Writers \ {w} : Same(u)
  BY Zenon DEF Same, TypeOK
<1> QED BY Zenon, <1>1, <1>2, <1>3, <1>4, <1>5, OneWriter

-----------------------------------------------------------------------------

\* commit: the batch that lands is durable and closed, so the rows stay so.
LEMMA CommitStep ==
    ASSUME TypeOK, TypeOK', StoreInv, NEW w \in Writers, commit(w)
    PROVE  StoreInv'
<1> USE DEF commit
<1>1. WriterOK(w) /\ pc[w] = "synced" /\ tgt[w] \in Objects /\ obj[w] = tgt[w]
  BY Zenon DEF StoreInv, WriterInv, WriterOK, WriterShape
<1>2. Grows
  BY DEF Grows, packVars, TypeOK
<1>3. \A c \in Chunks : /\ batch[w][c] # None => index'[c] = batch[w][c]
                        /\ batch[w][c] = None => index'[c] = index[c]
  BY Zenon DEF TypeOK
<1>4. RowsKept
  <2>1. \A d \in Payloads : recipe'[d] = recipe[d]
    BY Zenon, <1>1, ChunkStoreAssumption DEF TypeOK, Digests
  <2> QED BY Zenon, <1>3, <2>1 DEF RowsKept
<1>5. IndexDurable'
  <2> SUFFICES ASSUME NEW c \in Chunks, index'[c] # None PROVE durable(index[c], c)'
    BY Zenon DEF IndexDurable
  <2>1. durable(index'[c], c)
    BY Zenon, <1>1, <1>3 DEF WriterOK, WriterShape, StoreInv, IndexDurable
  <2> QED BY Zenon, <2>1 DEF durable, placed, packVars
<1>6. RecipesResolve'
  <2> SUFFICES ASSUME NEW d \in Digests, recipe'[d] # None, NEW c \in Content[d]
               PROVE  index'[c] # None
    BY Zenon DEF RecipesResolve
  <2>1. c \in Chunks
    BY Zenon, ChunkStoreAssumption
  <2>2. CASE d = tgt[w] /\ stamp[w] # None
    BY Zenon, <1>1, <1>3, <2>1, <2>2 DEF WriterOK, WriterShape
  <2>3. CASE d # tgt[w] \/ stamp[w] = None
    <3>1. recipe[d] # None
      BY Zenon, <2>3 DEF TypeOK
    <3> QED BY Zenon, <1>4, <2>1, <3>1 DEF StoreInv, RecipesResolve, RowsKept
  <2> QED BY Zenon, <2>2, <2>3
<1>7. RowsBacked'
  <2>1. ASSUME NEW d \in Files, d \in manifest' PROVE recipe'[d] # None
    <3>1. d \in Digests
      BY Zenon DEF Digests, Objects
    <3>2. CASE d = tgt[w]
      <4>1. stamp[w] # None
        BY Zenon, <1>1, <3>2 DEF WriterOK, WriterShape
      <4> QED BY Zenon, <3>1, <3>2, <4>1 DEF TypeOK
    <3>3. CASE d # tgt[w]
      <4>1. d \in manifest /\ recipe'[d] = recipe[d]
        BY <1>1, <2>1, <3>1, <3>3 DEF TypeOK
      <4> QED BY Zenon, <4>1 DEF StoreInv, RowsBacked
    <3> QED BY Zenon, <3>2, <3>3
  <2>2. ASSUME NEW o \in Objects, ann'[o] # None PROVE recipe'[ann'[o]] # None
    <3>1. ann'[o] = ann[o] /\ ann[o] \in Payloads
      BY Zenon, <2>2 DEF TypeOK
    <3> QED BY Zenon, <1>4, <2>2, <3>1 DEF StoreInv, RowsBacked, RowsKept
  <2> QED BY Zenon, <2>1, <2>2 DEF RowsBacked
<1>8. ActivePackCached' /\ \A p \in PackIds : synced'[p] <= Len(packs'[p])
  BY Zenon DEF StoreInv, ActivePackCached, packVars
<1> QED BY Zenon, <1>2, <1>4, <1>5, <1>6, <1>7, <1>8, FinishOK, OneWriter

\* putRecipe and putAnnotation: a payload's recipe follows its chunks, and the
\* record that refers to it follows the recipe.
LEMMA PayloadStep ==
    ASSUME TypeOK, TypeOK', StoreInv, NEW w \in Writers, putRecipe(w) \/ putAnnotation(w)
    PROVE  StoreInv'
<1>1. WriterOK(w)
  BY Zenon DEF StoreInv, WriterInv
<1>2. Grows /\ ActivePackCached' /\ \A p \in PackIds : synced'[p] <= Len(packs'[p])
  <2>1. packs' = packs /\ synced' = synced /\ active' = active
    BY Zenon DEF putRecipe, putAnnotation, packVars
  <2> QED BY <2>1 DEF Grows, TypeOK, StoreInv, ActivePackCached
<1>3. CASE putRecipe(w)
  <2> USE <1>3 DEF putRecipe
  <2>1. tgt[w] \in Payloads /\ stamp[w] # None
    BY Zenon, <1>1 DEF WriterOK, WriterShape, batched, Digests
  <2>2. recipe'[tgt[w]] # None /\ \A d \in Digests : d # tgt[w] => recipe'[d] = recipe[d]
    BY Zenon, <2>1 DEF TypeOK, Digests
  <2>3. RowsKept
    BY Zenon, <2>1, <2>2 DEF RowsKept, Digests
  <2>4. IndexDurable'
    BY Zenon, <1>2, RowsStayDurable DEF StoreInv
  <2>5. RecipesResolve'
    <3>1. \A c \in Content[tgt[w]] : index[c] # None
      <4>1. Content[tgt[w]] \subseteq seen[w] /\ Content[tgt[w]] \subseteq Chunks
        BY Zenon, <2>1, ChunkStoreAssumption DEF missing, Digests
      <4>2. \A c \in Chunks : batch[w][c] = None
        BY Zenon, <1>1, <2>1 DEF WriterOK, WriterShape, noBatch
      <4> QED BY Zenon, <1>1, <4>1, <4>2 DEF WriterOK, WriterShape
    <3> QED BY Zenon, <2>2, <3>1 DEF StoreInv, RecipesResolve
  <2>6. RowsBacked'
    <3>1. \A d \in Files : recipe'[d] = recipe[d]
      BY Zenon, <2>1, <2>2, ChunkStoreAssumption DEF Objects, Digests
    <3>2. \A o \in Objects : ann[o] # None => ann[o] \in Payloads
      BY Zenon DEF TypeOK
    <3> QED BY Zenon, <2>3, <3>1, <3>2 DEF StoreInv, RowsBacked, RowsKept
  <2>7. WriterOK(w)'
    <3>1. pc'[w] = "record" /\ batch[w] = noBatch
      BY Zenon, <1>1, <2>1 DEF TypeOK, WriterOK, WriterShape
    <3>2. tgt[w] \notin Objects
      BY Zenon, <2>1, ChunkStoreAssumption
    <3>3. \A c \in Chunks : batch[w][c] = None
      BY Zenon, <3>1 DEF noBatch
    <3> QED BY Zenon, <1>1, <2>1, <2>2, <3>1, <3>2, <3>3 DEF WriterOK, WriterShape
  <2>8. \A u \in Writers \ {w} : Same(u)
    BY Zenon DEF Same, TypeOK
  <2> QED BY Zenon, <1>2, <2>3, <2>4, <2>5, <2>6, <2>7, <2>8, OneWriter
<1>4. CASE putAnnotation(w)
  <2> USE <1>4 DEF putAnnotation
  <2>1. tgt[w] \in Payloads /\ recipe[tgt[w]] # None
    BY Zenon, <1>1 DEF WriterOK, WriterShape
  <2>2. RowsKept
    BY Zenon DEF RowsKept
  <2>3. IndexDurable' /\ RecipesResolve'
    BY Zenon, <1>2, RowsStayDurable DEF StoreInv, RecipesResolve
  <2>4. RowsBacked'
    BY Zenon, <2>1 DEF StoreInv, RowsBacked, TypeOK
  <2> QED BY Zenon, <1>2, <2>2, <2>3, <2>4, FinishOK, OneWriter
<1> QED BY Zenon, <1>3, <1>4

\* crash: whatever it cuts from the packs was not referenced by any row.
LEMMA CrashStep ==
    ASSUME TypeOK, TypeOK', StoreInv, crash
    PROVE  StoreInv'
<1>1. PacksOK' /\ IndexDurable'
  BY Zenon, CrashBytes DEF StoreInv
<1>2. /\ UNCHANGED <<index, recipe, manifest, ann>>
      /\ pc' = [w \in Writers |-> "idle"]
      /\ tgt' = [w \in Writers |-> None]
      /\ seen' = [w \in Writers |-> {}]
      /\ batch' = [w \in Writers |-> noBatch]
  BY Zenon DEF crash, metaVars
<1>3. WriterInv'
  <2> SUFFICES ASSUME NEW w \in Writers PROVE WriterOK(w)'
    BY Zenon DEF WriterInv
  <2>1. pc'[w] = "idle" /\ tgt'[w] = None /\ seen'[w] = {} /\ batch'[w] = noBatch
    BY Zenon, <1>2
  <2>2. \A c \in Chunks : batch'[w][c] = None
    BY Zenon, <2>1 DEF noBatch
  <2> QED BY Zenon, <2>1, <2>2, ChunkStoreAssumption DEF WriterOK, WriterShape, Digests
<1> QED BY Zenon, <1>1, <1>2, <1>3 DEF StoreInv, PacksOK, RecipesResolve, RowsBacked

\* DeleteObject and inline annotations: no row that stays loses its backing.
LEMMA DropStep ==
    ASSUME TypeOK, TypeOK', StoreInv, NEW o \in Objects,
           DeleteObject(o) \/ WriteInlineAnnotation(o)
    PROVE  StoreInv'
<1>1. /\ UNCHANGED <<index, packs, synced, active, pc, obj, tgt, seen, batch, stamp>>
      /\ ann' = [ann EXCEPT ![o] = None]
      /\ \/ manifest' = manifest /\ recipe' = recipe
         \/ manifest' = manifest \ {o} /\ recipe' = [recipe EXCEPT ![o] = None]
  BY Zenon DEF DeleteObject, WriteInlineAnnotation, packVars, writerVars
<1>2. Grows
  BY <1>1 DEF Grows, TypeOK
<1>3. \A d \in Digests : /\ recipe'[d] # None => recipe[d] # None
                         /\ d \in Payloads => recipe'[d] = recipe[d]
                         /\ d \in manifest' => recipe'[d] = recipe[d]
  BY <1>1, ChunkStoreAssumption DEF TypeOK
<1>4. RowsKept
  BY Zenon, <1>1, <1>3 DEF RowsKept, Digests
<1>5. WriterInv'
  BY Zenon, <1>1, <1>2, <1>4, OthersKeep DEF StoreInv, WriterInv, Same
<1>6. IndexDurable' /\ RecipesResolve' /\ ActivePackCached'
      /\ \A p \in PackIds : synced'[p] <= Len(packs'[p])
  BY Zenon, <1>1, <1>2, <1>3, RowsStayDurable DEF StoreInv, RecipesResolve, ActivePackCached
<1>7. RowsBacked'
  <2>1. \A d \in Files \cap manifest' : recipe'[d] # None
    BY Zenon, <1>1, <1>3 DEF StoreInv, RowsBacked, Digests, Objects
  <2>2. ASSUME NEW x \in Objects, ann'[x] # None PROVE recipe'[ann'[x]] # None
    <3>1. ann'[x] = ann[x] /\ ann[x] \in Payloads
      BY Zenon, <1>1, <2>2 DEF TypeOK
    <3> QED BY Zenon, <1>4, <2>2, <3>1 DEF StoreInv, RowsBacked, RowsKept
  <2> QED BY Zenon, <2>1, <2>2 DEF RowsBacked
<1> QED BY Zenon, <1>5, <1>6, <1>7 DEF StoreInv

\* StoreInv is inductive relative to the type invariant.
LEMMA StoreStep ==
    ASSUME TypeOK, StoreInv, [storeStep]_storeVars
    PROVE  TypeOK' /\ StoreInv'
<1>1. TypeOK'
  BY Zenon, TypeStep DEF StoreInv, WriterInv, WriterOK
<1>2. ASSUME NEW w \in Writers, writerStep(w) PROVE StoreInv'
  <2>1. ASSUME NEW d \in Files, Put(w, d) PROVE StoreInv'
    BY Zenon, <2>1, <1>1, StartOK, ChunkStoreAssumption DEF Put, Objects, Digests
  <2>2. ASSUME NEW d \in Compounds, PutCompound(w, d) PROVE StoreInv'
    BY Zenon, <2>2, <1>1, StartOK, ChunkStoreAssumption DEF PutCompound, Objects, Digests
  <2>3. ASSUME NEW o \in Objects, NEW p \in Payloads, WriteAnnotation(w, o, p)
        PROVE  StoreInv'
    <3>1. p \in Digests /\ p \notin Objects /\ now # None
      BY Zenon, ChunkStoreAssumption DEF Digests, TypeOK
    <3> QED BY Zenon, <2>3, <3>1, <1>1, StartOK DEF WriteAnnotation
  <2>4. ASSUME NEW c \in Chunks, dedupHit(w, c) PROVE StoreInv'
    <3>1. WriterOK(w)
      BY Zenon DEF StoreInv, WriterInv
    <3>2. /\ UNCHANGED <<metaVars, packVars>>
          /\ UNCHANGED <<pc, obj, tgt, batch, stamp>>
          /\ pc[w] = "chunks" /\ index[c] # None
          /\ seen' = [seen EXCEPT ![w] = @ \cup {c}]
      BY Zenon, <2>4 DEF dedupHit
    <3>3. seen'[w] = seen[w] \cup {c}
      BY Zenon, <3>2 DEF TypeOK
    <3>4. WriterOK(w)'
      BY Zenon, <3>1, <3>2, <3>3 DEF WriterOK, WriterShape, metaVars, packVars, placed
    <3>5. \A u \in Writers \ {w} : Same(u)
      BY Zenon, <3>2 DEF Same, TypeOK
    <3> QED BY Zenon, <1>1, <3>2, <3>4, <3>5, QuietStep
  <2>5. ASSUME NEW c \in Chunks, storeChunkBatched(w, c) \/ storeChunk(w, c) PROVE StoreInv'
    BY Zenon, <2>5, <1>1, AppendStep
  <2>6. CASE storeChunkIndexed(w)
    BY Zenon, <2>6, <1>1, IndexStep
  <2>7. CASE storeChunkFailed(w)
    <3>1. /\ UNCHANGED <<metaVars, packs, synced>> /\ active'.known = FALSE /\ finish(w)
      BY Zenon, <2>7 DEF storeChunkFailed, TypeOK
    <3>2. Grows /\ RowsKept /\ ActivePackCached'
          /\ \A p \in PackIds : synced'[p] <= Len(packs'[p])
      BY <3>1 DEF Grows, RowsKept, metaVars, TypeOK, ActivePackCached, StoreInv
    <3>3. IndexDurable' /\ RecipesResolve' /\ RowsBacked'
      BY Zenon, <1>1, <3>1, <3>2, RowsStayDurable DEF StoreInv, metaVars, RecipesResolve, RowsBacked
    <3> QED BY Zenon, <1>1, <3>1, <3>2, <3>3, FinishOK, OneWriter
  <2>8. CASE appendFails(w)
    <3>1. /\ nextSlot.id \in PackIds /\ UNCHANGED <<metaVars, synced>> /\ finish(w)
          /\ packs' = [packs EXCEPT ![nextSlot.id] = Append(@, Torn)]
          /\ active'.known = FALSE
      BY Zenon, <2>8 DEF appendFails, failedAppend
    <3>2. Grows /\ ActivePackCached' /\ \A p \in PackIds : synced'[p] <= Len(packs'[p])
      BY Zenon, <3>1, AppendGrows DEF StoreInv, PacksOK
    <3>3. RowsKept /\ IndexDurable' /\ RecipesResolve' /\ RowsBacked'
      BY Zenon, <1>1, <3>1, <3>2, RowsStayDurable
      DEF StoreInv, metaVars, RecipesResolve, RowsBacked, RowsKept
    <3> QED BY Zenon, <1>1, <3>1, <3>2, <3>3, FinishOK, OneWriter
  <2>9. CASE sealRecipe(w)
    <3>1. WriterOK(w)
      BY Zenon DEF StoreInv, WriterInv
    <3>2. /\ UNCHANGED <<metaVars, packVars>> /\ UNCHANGED <<obj, tgt, seen, batch>>
          /\ pc[w] = "chunks" /\ pc' = [pc EXCEPT ![w] = "commit"] /\ tgt[w] \in Objects
          /\ Content[tgt[w]] \subseteq seen[w]
          /\ stamp' = [stamp EXCEPT ![w] = IF tgt[w] \in Files THEN now ELSE @]
      BY Zenon, <2>9 DEF sealRecipe, batched, missing
    <3>3. /\ pc'[w] = "commit" /\ tgt[w] \notin Payloads
          /\ tgt[w] \in Files => stamp'[w] # None
      BY Zenon, <3>2, ChunkStoreAssumption DEF TypeOK
    <3>4. WriterOK(w)'
      BY Zenon, <3>1, <3>2, <3>3 DEF WriterOK, WriterShape, metaVars, packVars, placed
    <3>5. \A u \in Writers \ {w} : Same(u)
      BY Zenon, <3>2 DEF Same, TypeOK
    <3> QED BY Zenon, <1>1, <3>2, <3>4, <3>5, QuietStep
  <2>10. CASE commitSync(w)
    BY Zenon, <2>10, <1>1, SyncStep
  <2>11. CASE abort(w)
    <3>1. finish(w) /\ UNCHANGED <<metaVars, packVars>>
      BY Zenon, <2>11 DEF abort
    <3> QED BY Zenon, <1>1, <3>1, FinishOK, QuietStep
  <2>12. CASE commit(w)
    BY Zenon, <2>12, <1>1, CommitStep
  <2>13. CASE putRecipe(w) \/ putAnnotation(w)
    BY Zenon, <2>13, <1>1, PayloadStep
  <2> QED BY <1>2, <2>1, <2>2, <2>3, <2>4, <2>5, <2>6, <2>7, <2>8, <2>9, <2>10, <2>11,
             <2>12, <2>13 DEF writerStep
<1>3. ASSUME NEW o \in Objects, DeleteObject(o) \/ WriteInlineAnnotation(o) PROVE StoreInv'
  BY Zenon, <1>3, <1>1, DropStep
<1>4. CASE crash
  BY Zenon, <1>4, <1>1, CrashStep
<1>5. CASE tick \/ UNCHANGED storeVars
  <2>1. UNCHANGED <<metaVars, packVars, writerVars>>
    BY Zenon, <1>5 DEF tick, storeVars
  <2>2. Grows /\ RowsKept /\ \A u \in Writers : Same(u)
    BY <2>1 DEF Grows, RowsKept, Same, TypeOK, metaVars, packVars, writerVars
  <2>3. WriterInv'
    BY Zenon, <1>1, <2>2, OthersKeep DEF StoreInv, WriterInv
  <2>4. IndexDurable'
    BY Zenon, <1>1, <2>1, <2>2, RowsStayDurable DEF StoreInv, metaVars
  <2>5. RecipesResolve' /\ RowsBacked'
    BY Zenon, <2>1 DEF metaVars, StoreInv, RecipesResolve, RowsBacked
  <2>6. ActivePackCached' /\ \A p \in PackIds : synced'[p] <= Len(packs'[p])
    BY Zenon, <2>1 DEF packVars, StoreInv, ActivePackCached
  <2> QED BY Zenon, <1>1, <2>3, <2>4, <2>5, <2>6 DEF StoreInv
<1> QED BY Zenon, <1>1, <1>2, <1>3, <1>4, <1>5 DEF storeStep

-----------------------------------------------------------------------------
(* The theorems *)

\* StoreInv holds in every reachable state, with the type invariant it needs.
THEOREM StoreInvariant == Spec => [](TypeOK /\ StoreInv)
<1>1. Init => TypeOK /\ StoreInv
  <2> SUFFICES ASSUME Init PROVE TypeOK /\ StoreInv
    BY Zenon
  <2>1. TypeOK
    BY ChunkStoreAssumption DEF Init, TypeOK, steps, noBatch, PackIds
  <2>2. \A w \in Writers : WriterOK(w)
    BY Zenon, ChunkStoreAssumption DEF Init, WriterOK, WriterShape, noBatch, Digests
  <2>3. ActivePackCached /\ IndexDurable /\ RecipesResolve /\ RowsBacked
    BY Zenon, ChunkStoreAssumption
    DEF Init, ActivePackCached, IndexDurable, RecipesResolve, RowsBacked, Digests
  <2>4. \A p \in PackIds : synced[p] <= Len(packs[p])
    BY DEF Init
  <2> QED BY Zenon, <2>1, <2>2, <2>3, <2>4 DEF StoreInv, WriterInv
<1>2. TypeOK /\ StoreInv /\ [storeStep]_storeVars => (TypeOK /\ StoreInv)'
  BY StoreStep
<1> QED BY <1>1, <1>2, PTL DEF Spec

\* Type correctness of the data tier.
THEOREM TypeCorrect == Spec => []TypeOK
<1> QED BY StoreInvariant, PTL

\* The crash invariant of commitBatch, for any number of writers and crashes:
\* no chunk-index row ever points at content that is not on disk.
THEOREM CrashSafe == Spec => []IndexDurable
<1>1. StoreInv => IndexDurable
  BY DEF StoreInv
<1> QED BY <1>1, StoreInvariant, PTL

\* Every committed recipe resolves to committed chunks.
THEOREM RecipesAlwaysResolve == Spec => []RecipesResolve
<1>1. StoreInv => RecipesResolve
  BY DEF StoreInv
<1> QED BY <1>1, StoreInvariant, PTL

\* Manifests of file objects and annotation records never dangle.
THEOREM RowsAlwaysBacked == Spec => []RowsBacked
<1>1. StoreInv => RowsBacked
  BY DEF StoreInv
<1> QED BY <1>1, StoreInvariant, PTL

\* The in-memory position of the active pack is authoritative once populated.
THEOREM ActivePackAlwaysCached == Spec => []ActivePackCached
<1>1. StoreInv => ActivePackCached
  BY DEF StoreInv
<1> QED BY <1>1, StoreInvariant, PTL

-----------------------------------------------------------------------------
(* Refinement of ObjectStore *)

\* Under StoreInv every listed file object can be read back whole.
LEMMA ListedIsReadable ==
    ASSUME StoreInv
    PROVE  {d \in Files \cap manifest : readable(d)} = Files \cap manifest
<1> SUFFICES ASSUME NEW d \in Files, d \in manifest PROVE readable(d)
  BY Zenon
<1>1. d \in Digests /\ Content[d] \subseteq Chunks
  BY Zenon, ChunkStoreAssumption DEF Digests, Objects
<1> QED BY Zenon, <1>1 DEF StoreInv, RowsBacked, RecipesResolve, IndexDurable, readable

\* The listing changes by at most one object in a step: by a commit or a delete.
LEMMA ListingStep ==
    ASSUME TypeOK, StoreInv, [storeStep]_storeVars
    PROVE  \/ manifest' = manifest
           \/ \E o \in Objects : manifest' = manifest \cup {o} \/ manifest' = manifest \ {o}
<1>1. ASSUME NEW w \in Writers, commit(w)
      PROVE  \E o \in Objects : manifest' = manifest \cup {o}
  BY Zenon, <1>1 DEF commit, StoreInv, WriterInv, WriterOK, WriterShape
<1>2. ASSUME NEW o \in Objects, DeleteObject(o) PROVE manifest' = manifest \ {o}
  BY Zenon, <1>2 DEF DeleteObject
<1>3. ASSUME NEW w \in Writers, writerStep(w), ~commit(w) PROVE manifest' = manifest
  BY Zenon, <1>3 DEF writerStep, Put, PutCompound, WriteAnnotation, start, dedupHit,
     storeChunkBatched, storeChunk, storeChunkIndexed, storeChunkFailed, appendFails,
     sealRecipe, commitSync, putRecipe, putAnnotation, abort, metaVars
<1>4. ASSUME NEW o \in Objects, WriteInlineAnnotation(o) PROVE manifest' = manifest
  BY Zenon, <1>4 DEF WriteInlineAnnotation
<1>5. CASE crash \/ tick \/ UNCHANGED storeVars
  BY Zenon, <1>5 DEF crash, tick, storeVars, metaVars
<1> QED BY <1>1, <1>2, <1>3, <1>4, <1>5 DEF storeStep

\* The data tier implements ObjectStore: a crash, a failed write, or a write to
\* another object is a stutter for whoever lists and reads file objects.
THEOREM Refinement == Spec => ImplementsObjectStore
<1>1. Init => Objs!Init
  <2> SUFFICES ASSUME Init PROVE Objs!Init
    BY Zenon
  <2>1. manifest = {}
    BY Zenon DEF Init
  <2> QED BY Zenon, <2>1 DEF Objs!Init
<1>2. StoreInv => {d \in Files \cap manifest : readable(d)} = Files \cap manifest
  BY Zenon, ListedIsReadable
<1>3. (StoreInv => {d \in Files \cap manifest : readable(d)} = Files \cap manifest)'
  BY <1>2, PTL
<1>4. TypeOK /\ StoreInv /\ (TypeOK /\ StoreInv)' /\ [storeStep]_storeVars
        => [Objs!Next]_<<Files \cap manifest, {d \in Files \cap manifest : readable(d)}>>
  <2> SUFFICES ASSUME TypeOK, StoreInv, TypeOK', StoreInv', [storeStep]_storeVars
               PROVE  [Objs!Next]_<<Files \cap manifest,
                                    {d \in Files \cap manifest : readable(d)}>>
    BY Zenon
  <2>1. {d \in Files \cap manifest : readable(d)} = Files \cap manifest
    BY Zenon, ListedIsReadable
  <2>2. {d \in Files \cap manifest : readable(d)}' = (Files \cap manifest)'
    BY Zenon, <1>3
  <2>3. \/ Files \cap manifest' = Files \cap manifest
        \/ \E d \in Files : \/ Files \cap manifest' = (Files \cap manifest) \cup {d}
                            \/ Files \cap manifest' = (Files \cap manifest) \ {d}
    BY ListingStep, Zenon DEF Objects
  <2>4. CASE Files \cap manifest' = Files \cap manifest
    BY Zenon, <2>1, <2>2, <2>4
  <2>5. CASE \E d \in Files : \/ Files \cap manifest' = (Files \cap manifest) \cup {d}
                             \/ Files \cap manifest' = (Files \cap manifest) \ {d}
    BY Zenon, <2>1, <2>2, <2>5 DEF Objs!Next, Objs!Store, Objs!Remove
  <2> QED BY <2>3, <2>4, <2>5
<1> QED BY <1>1, <1>4, StoreInvariant, PTL DEF Spec, Objs!Spec, ImplementsObjectStore

-----------------------------------------------------------------------------
(* Packs are append-only, and sealed once a later pack exists *)

\* What PacksImmutable says of one pack in one step.
Immutable(p) ==
    /\ \A i \in 1 .. synced[p] : i \in DOMAIN packs'[p] /\ packs'[p][i] = packs[p][i]
    /\ (\E q \in existing : q > p) => Len(packs'[p]) <= Len(packs[p])

\* Only the highest pack is appended to, and only a crash shortens a pack.
LEMMA ImmutableStep ==
    ASSUME TypeOK, StoreInv, [storeStep]_storeVars
    PROVE  \A p \in PackIds : Immutable(p)
<1>1. TypeOK'
  BY Zenon, StoreStep
<1>2. /\ packs \in [PackIds -> Seq(Chunks \cup {Torn})]
      /\ packs' \in [PackIds -> Seq(Chunks \cup {Torn})]
      /\ synced \in [PackIds -> Nat]
      /\ \A p \in PackIds : synced[p] <= Len(packs[p])
  BY Zenon, <1>1 DEF TypeOK, StoreInv
<1>3. \A p \in PackIds : /\ Len(packs[p]) \in Nat /\ Len(packs'[p]) \in Nat
                         /\ DOMAIN packs[p] = 1 .. Len(packs[p])
                         /\ DOMAIN packs'[p] = 1 .. Len(packs'[p])
  BY <1>2
<1>4. CASE packs' = packs
  BY <1>2, <1>3, <1>4 DEF Immutable
<1>5. ASSUME NEW b \in Chunks \cup {Torn}, nextSlot.id \in PackIds,
             packs' = [packs EXCEPT ![nextSlot.id] = Append(@, b)]
      PROVE  \A p \in PackIds : Immutable(p)
  <2>1. \A q \in PackIds : q > nextSlot.id => packs[q] = <<>>
    BY Zenon, <1>5, NextSlot DEF StoreInv
  <2>2. \A p \in PackIds : p # nextSlot.id => packs'[p] = packs[p]
    BY Zenon, <1>2, <1>5
  <2>3. packs'[nextSlot.id] = Append(packs[nextSlot.id], b)
    BY Zenon, <1>2, <1>5
  <2>4. /\ Len(packs[nextSlot.id]) <= Len(packs'[nextSlot.id])
        /\ \A i \in 1 .. Len(packs[nextSlot.id]) :
              packs'[nextSlot.id][i] = packs[nextSlot.id][i]
    BY <1>2, <1>5, <2>3
  <2>5. \A q \in existing : ~(q > nextSlot.id)
    BY Zenon, <2>1 DEF existing
  <2> SUFFICES ASSUME NEW p \in PackIds PROVE Immutable(p)
    BY Zenon
  <2>6. CASE p = nextSlot.id
    BY <1>2, <1>3, <2>4, <2>5, <2>6 DEF Immutable
  <2>7. CASE p # nextSlot.id
    BY <1>2, <1>3, <2>2, <2>7 DEF Immutable
  <2> QED BY Zenon, <2>6, <2>7
<1>6. CASE crash
  <2>1. PICK keep \in [PackIds -> 0 .. PackTarget], torn \in SUBSET PackIds :
          /\ \A p \in PackIds : keep[p] \in synced[p] .. Len(packs[p])
          /\ \A p \in torn : keep[p] < Len(packs[p])
          /\ packs' = [p \in PackIds |->
                 SubSeq(packs[p], 1, keep[p]) \o (IF p \in torn THEN <<Torn>> ELSE <<>>)]
    BY Zenon, <1>6 DEF crash
  <2> SUFFICES ASSUME NEW p \in PackIds PROVE Immutable(p)
    BY Zenon
  <2>2. keep[p] \in 0 .. Len(packs[p]) /\ synced[p] <= keep[p] /\ keep[p] \in Nat
    BY <1>2, <1>3, <2>1
  <2>3. PICK t \in Seq(Chunks \cup {Torn}) :
          /\ packs'[p] = SubSeq(packs[p], 1, keep[p]) \o t
          /\ Len(t) \in Nat /\ keep[p] + Len(t) <= Len(packs[p])
    <3>1. /\ <<Torn>> \in Seq(Chunks \cup {Torn}) /\ Len(<<Torn>>) = 1
          /\ <<>> \in Seq(Chunks \cup {Torn}) /\ Len(<<>>) = 0
      OBVIOUS
    <3>2. CASE p \in torn
      <4>1. packs'[p] = SubSeq(packs[p], 1, keep[p]) \o <<Torn>>
        BY Zenon, <2>1, <3>2
      <4>2. keep[p] + 1 <= Len(packs[p])
        BY <1>3, <2>1, <2>2, <3>2
      <4> QED BY Zenon, <3>1, <4>1, <4>2
    <3>3. CASE p \notin torn
      <4>1. packs'[p] = SubSeq(packs[p], 1, keep[p]) \o <<>>
        BY Zenon, <2>1, <3>3
      <4>2. keep[p] + Len(<<>>) <= Len(packs[p]) /\ Len(<<>>) \in Nat
        BY <2>2, <1>3
      <4> QED BY Zenon, <3>1, <4>1, <4>2
    <3> QED BY Zenon, <3>2, <3>3
  <2>4. /\ keep[p] <= Len(packs'[p]) /\ Len(packs'[p]) = keep[p] + Len(t)
        /\ \A i \in 1 .. keep[p] : packs'[p][i] = packs[p][i]
    BY <1>2, <2>2, <2>3, CutSeq
  <2> QED BY <1>2, <1>3, <2>2, <2>3, <2>4 DEF Immutable
<1>7. ASSUME NEW w \in Writers, writerStep(w) PROVE \A p \in PackIds : Immutable(p)
  <2>1. ASSUME NEW c \in Chunks, storeChunkBatched(w, c) \/ storeChunk(w, c)
        PROVE  \A p \in PackIds : Immutable(p)
    BY Zenon, <2>1, <1>5 DEF storeChunkBatched, storeChunk, appendToActivePackNoSync
  <2>2. CASE appendFails(w)
    BY Zenon, <2>2, <1>5 DEF appendFails, failedAppend
  <2>3. CASE /\ ~appendFails(w)
             /\ \A c \in Chunks : ~storeChunkBatched(w, c) /\ ~storeChunk(w, c)
    <3>1. packs' = packs
      BY Zenon, <1>7, <2>3 DEF writerStep, Put, PutCompound, WriteAnnotation, start, dedupHit,
         storeChunkIndexed, storeChunkFailed, sealRecipe, commitSync, commit,
         putRecipe, putAnnotation, abort, packVars
    <3> QED BY Zenon, <3>1, <1>4
  <2> QED BY Zenon, <2>1, <2>2, <2>3
<1>8. CASE tick \/ UNCHANGED storeVars
  BY Zenon, <1>8, <1>4 DEF tick, storeVars, packVars
<1>9. ASSUME NEW o \in Objects, DeleteObject(o) \/ WriteInlineAnnotation(o)
      PROVE  \A p \in PackIds : Immutable(p)
  BY Zenon, <1>9, <1>4 DEF DeleteObject, WriteInlineAnnotation, packVars
<1> QED BY Zenon, <1>6, <1>7, <1>8, <1>9 DEF storeStep

\* Packs are sealed and never mutated, whatever interleaving of writers and
\* crashes the store goes through.
THEOREM PacksAreImmutable == Spec => PacksImmutable
<1>1. TypeOK /\ StoreInv /\ [storeStep]_storeVars
        => [\A p \in PackIds :
              /\ \A i \in 1 .. synced[p] : i \in DOMAIN packs'[p] /\ packs'[p][i] = packs[p][i]
              /\ (\E q \in existing : q > p) => Len(packs'[p]) <= Len(packs[p])]_storeVars
  BY ImmutableStep DEF Immutable
<1> QED BY <1>1, StoreInvariant, PTL DEF Spec, PacksImmutable
=============================================================================
