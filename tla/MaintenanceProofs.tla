-------------------------- MODULE MaintenanceProofs --------------------------
(***************************************************************************)
(* Type correctness of the store with its maintenance passes, and the      *)
(* passes beside the writers, for any content, any number of packs and     *)
(* writers and any interleaving of the steps of a pass with theirs.        *)
(*                                                                         *)
(* Repack: every row stays durable as long as the scan of the pass saw     *)
(* every row of the packs it visits.  RepackKeepsRows is not inductive: a  *)
(* pack is removed in one step, and that no row points into it by then     *)
(* takes the pass so far.  The packs still to be visited are sealed, since *)
(* appends go to the active pack or a later one and no writer holds a      *)
(* buffered entry of theirs, so the rows of the scan are all the rows      *)
(* there are (Sealed, Scanned).  Each is moved, its copy on disk before    *)
(* the row points to it (Moving, Copied).                                  *)
(*                                                                         *)
(* Gc: a grace period of twice the longest write keeps what a write stored *)
(* and every recipe that is needed.  Neither property is inductive.  What  *)
(* Gc condemned when it marked is swept and dropped later, so the          *)
(* invariant says what stays true of the condemned: no writer in flight    *)
(* stored a dead chunk, and nothing refers or is about to refer to an      *)
(* orphan (Doomed, Condemned).  That this holds at the mark is where the   *)
(* grace period comes in: everything a writer in flight relies on was      *)
(* stamped since the oldest write in flight at the time it was stamped     *)
(* began (Flight, Recorded).                                               *)
(***************************************************************************)
EXTENDS ChunkMaintenance, ChunkStoreProofs

-----------------------------------------------------------------------------
(* Types *)

Shapes == \A w \in Writers : WriterShape(w)

slots == [chunk : Chunks, pack : PackIds, off : Nat]
gcTypes == [start : Nat, live : SUBSET Chunks, dead : SUBSET Chunks, orphans : SUBSET Digests]
repackTypes == [active : PackIds, rows : [Chunks -> chunkIndexEntry \cup {None}],
                todo : SUBSET PackIds, pack : PackIds, move : SUBSET Chunks,
                slot : slots \cup {None}]

\* The types of the store and of what the passes and the histories hold.
MaintTypes ==
    /\ TypeOK
    /\ gc \in gcTypes
    /\ rp \in repackTypes
    /\ mpc = "point" => rp.slot \in slots
    /\ mpc \in {"move", "point"} => \A c \in rp.move : rp.rows[c] # None
    /\ hit \in [Writers -> SUBSET Chunks]
    /\ borrowed \in [Digests -> SUBSET Chunks]

-----------------------------------------------------------------------------
(* The writers' steps *)

\* Nothing of a writer's state changes.
Still(u) == Same(u) /\ begun'[u] = begun[u]

\* A writer that has finished is idle, and no other writer is touched.
LEMMA FinishShape ==
    ASSUME TypeOK, NEW w \in Writers, finish(w)
    PROVE  pc'[w] = "idle" /\ WriterShape(w)' /\ \A u \in Writers \ {w} : Still(u)
<1>1. /\ pc'[w] = "idle" /\ tgt'[w] = None /\ seen'[w] = {} /\ batch'[w] = noBatch
  BY Zenon DEF finish, TypeOK
<1>2. None \notin Digests
  BY Zenon, ChunkStoreAssumption
<1>3. WriterShape(w)'
  BY Zenon, <1>1, <1>2 DEF WriterShape, Digests, Objects
<1>4. \A u \in Writers \ {w} : Still(u)
  BY Zenon DEF finish, TypeOK, Same, Still
<1> QED BY Zenon, <1>1, <1>3, <1>4

\* A write that starts holds nothing yet.
LEMMA StartShape ==
    ASSUME TypeOK, Shapes, NEW w \in Writers, NEW o \in Objects, NEW d \in Digests,
           NEW at, NEW step \in {"chunks", "commit"}, start(w, o, d, at, step),
           d \in Objects => o = d,
           d \in Payloads => at # None /\ step = "chunks",
           step = "commit" => at = None /\ d \in Compounds
    PROVE  WriterShape(w)' /\ \A u \in Writers \ {w} : Still(u)
<1>1. seen[w] = {} /\ batch[w] = noBatch
  BY Zenon DEF Shapes, WriterShape, start
<1>2. /\ pc'[w] = step /\ obj'[w] = o /\ tgt'[w] = d /\ stamp'[w] = at
      /\ seen'[w] = {} /\ batch'[w] = noBatch
  BY Zenon, <1>1 DEF start, TypeOK
<1>3. WriterShape(w)'
  BY Zenon, <1>2, ChunkStoreAssumption DEF WriterShape, Digests, Objects
<1>4. \A u \in Writers \ {w} : Still(u)
  BY Zenon DEF start, TypeOK, Same, Still
<1> QED BY Zenon, <1>3, <1>4

\* A step of a writer keeps its shape and touches no other writer.
LEMMA ShapeStep ==
    ASSUME TypeOK, Shapes, NEW w \in Writers, writerStep(w)
    PROVE  Shapes' /\ \A u \in Writers \ {w} : Still(u)
<1> DEFINE Goal == WriterShape(w)' /\ \A u \in Writers \ {w} : Still(u)
<1> USE ChunkStoreAssumption
<1>s. SUFFICES Goal
  BY DEF Shapes, WriterShape, Still, Same
<1>0. WriterShape(w) /\ None \notin Digests
  BY Zenon DEF Shapes
<1>1. ASSUME NEW d \in Files, Put(w, d) PROVE Goal
  BY Zenon, <1>1, StartShape DEF Put, Objects, Digests
<1>2. ASSUME NEW d \in Compounds, PutCompound(w, d) PROVE Goal
  <2>1. d \in Objects /\ d \in Digests /\ d \notin Payloads
    BY Zenon DEF Objects, Digests
  <2> QED BY Zenon, <1>2, <2>1, StartShape DEF PutCompound
<1>3. ASSUME NEW o \in Objects, NEW p \in Payloads, WriteAnnotation(w, o, p) PROVE Goal
  <2>1. p \in Digests /\ p \notin Objects /\ now # None
    BY Zenon DEF Digests, TypeOK
  <2> QED BY Zenon, <1>3, <2>1, StartShape DEF WriteAnnotation
<1>4. ASSUME NEW c \in Chunks, dedupHit(w, c) PROVE Goal
  <2>1. /\ seen'[w] = seen[w] \cup {c} /\ pc[w] = "chunks"
        /\ UNCHANGED <<pc, obj, tgt, batch, stamp, begun>>
    BY Zenon, <1>4 DEF dedupHit, TypeOK
  <2>2. WriterShape(w)'
    BY Zenon, <1>0, <2>1 DEF WriterShape
  <2>3. \A u \in Writers \ {w} : Still(u)
    BY Zenon, <1>4, <2>1 DEF dedupHit, TypeOK, Same, Still
  <2> QED BY Zenon, <2>2, <2>3
<1>5. ASSUME NEW c \in Chunks, storeChunkBatched(w, c) PROVE Goal
  <2>1. /\ seen'[w] = seen[w] \cup {c} /\ pc[w] = "chunks" /\ tgt[w] \in Objects
        /\ UNCHANGED <<pc, obj, tgt, stamp, begun>>
    BY ZenonT(30), <1>5 DEF storeChunkBatched, TypeOK, batched
  <2>2. WriterShape(w)'
    BY Zenon, <1>0, <2>1 DEF WriterShape
  <2>3. \A u \in Writers \ {w} : Still(u)
    BY SMTT(30), <1>5, <2>1 DEF storeChunkBatched, TypeOK, Same, Still
  <2> QED BY Zenon, <2>2, <2>3
<1>6. ASSUME NEW c \in Chunks, storeChunk(w, c) PROVE Goal
  <2>1. /\ pc'[w] = "appended" /\ pc[w] = "chunks" /\ tgt[w] \notin Objects
        /\ UNCHANGED <<obj, tgt, seen, stamp, begun>>
    BY ZenonT(30), <1>6 DEF storeChunk, TypeOK, batched
  <2>2. tgt[w] \in Payloads
    BY Zenon, <1>0, <2>1 DEF WriterShape, Digests
  <2>3. WriterShape(w)'
    BY Zenon, <1>0, <2>1, <2>2 DEF WriterShape
  <2>4. \A u \in Writers \ {w} : pc'[u] = pc[u] /\ batch'[u] = batch[u]
    BY ZenonT(30), <1>6 DEF storeChunk, TypeOK
  <2>5. \A u \in Writers \ {w} : Still(u)
    BY Zenon, <2>1, <2>4 DEF Same, Still
  <2> QED BY Zenon, <2>3, <2>5
<1>7. CASE storeChunkIndexed(w)
  <2>1. /\ pc'[w] = "chunks" /\ pc[w] = "appended" /\ batch'[w] = noBatch
        /\ UNCHANGED <<obj, tgt, stamp, begun>>
    BY Zenon, <1>7 DEF storeChunkIndexed, TypeOK
  <2>2. WriterShape(w)'
    BY Zenon, <1>0, <2>1 DEF WriterShape
  <2>3. \A u \in Writers \ {w} : Still(u)
    BY Zenon, <1>7, <2>1 DEF storeChunkIndexed, TypeOK, Same, Still
  <2> QED BY Zenon, <2>2, <2>3
<1>8. CASE storeChunkFailed(w) \/ appendFails(w) \/ commit(w) \/ putAnnotation(w) \/ abort(w)
  <2>1. finish(w)
    BY Zenon, <1>8 DEF storeChunkFailed, appendFails, commit, putAnnotation, abort
  <2> QED BY Zenon, <2>1, FinishShape
<1>9. CASE sealRecipe(w)
  <2>1. /\ pc'[w] = "commit" /\ pc[w] = "chunks" /\ tgt[w] \in Objects
        /\ stamp'[w] = IF tgt[w] \in Files THEN now ELSE stamp[w]
        /\ Content[tgt[w]] \subseteq seen[w] /\ now # None
        /\ UNCHANGED <<obj, tgt, seen, batch, begun>>
    BY Zenon, <1>9 DEF sealRecipe, TypeOK, batched, missing
  <2>2. WriterShape(w)'
    BY Zenon, <1>0, <2>1 DEF WriterShape
  <2>3. \A u \in Writers \ {w} : Still(u)
    BY Zenon, <1>9, <2>1 DEF sealRecipe, TypeOK, Same, Still
  <2> QED BY Zenon, <2>2, <2>3
<1>10. CASE commitSync(w)
  <2>1. /\ pc'[w] = "synced" /\ pc[w] = "commit"
        /\ UNCHANGED <<obj, tgt, seen, batch, stamp, begun>>
    BY Zenon, <1>10 DEF commitSync, TypeOK
  <2>2. WriterShape(w)'
    BY Zenon, <1>0, <2>1 DEF WriterShape
  <2>3. \A u \in Writers \ {w} : Still(u)
    BY Zenon, <1>10, <2>1 DEF commitSync, TypeOK, Same, Still
  <2> QED BY Zenon, <2>2, <2>3
<1>11. CASE putRecipe(w)
  <2>1. /\ pc'[w] = "record" /\ pc[w] = "chunks" /\ tgt[w] \notin Objects
        /\ UNCHANGED <<obj, tgt, seen, batch, stamp, begun>>
    BY Zenon, <1>11 DEF putRecipe, TypeOK, batched
  <2>2. tgt[w] \in Payloads
    BY Zenon, <1>0, <2>1 DEF WriterShape, Digests
  <2>3. WriterShape(w)'
    BY Zenon, <1>0, <2>1, <2>2 DEF WriterShape
  <2>4. \A u \in Writers \ {w} : Still(u)
    BY Zenon, <1>11, <2>1 DEF putRecipe, TypeOK, Same, Still
  <2> QED BY Zenon, <2>3, <2>4
<1> QED BY Zenon, <1>1, <1>2, <1>3, <1>4, <1>5, <1>6, <1>7, <1>8, <1>9, <1>10, <1>11 DEF writerStep

-----------------------------------------------------------------------------
(* The passes and the steps of the store keep the types *)

\* A pass that has not begun, or is over, holds nothing.
LEMMA NoPass == noGc \in gcTypes /\ noRepack \in repackTypes
<1>1. 0 \in PackIds
  BY ChunkStoreAssumption DEF PackIds
<1> QED BY Zenon, <1>1 DEF noGc, noRepack, gcTypes, repackTypes, noBatch

\* The steps of Gc keep the types.
LEMMA GcTypes ==
    ASSUME MaintTypes, Shapes, gcMark \/ gcRescan \/ gcSweep \/ gcRecheck \/ gcDrop
    PROVE  MaintTypes'
<1> USE DEF gcTypes
<1>0. /\ gc \in gcTypes /\ TypeOK /\ rp \in repackTypes
      /\ hit \in [Writers -> SUBSET Chunks] /\ borrowed \in [Digests -> SUBSET Chunks]
  BY Zenon DEF MaintTypes
<1>1. UNCHANGED storeVars => TypeOK'
  BY Zenon, <1>0, TypeStep DEF Shapes
<1>2. CASE gcMark
  <2>1. \A ds \in SUBSET Digests : contentOf(ds) \in SUBSET Chunks
    BY Zenon, ChunkStoreAssumption DEF contentOf
  <2>2. now \in Nat
    BY Zenon, <1>0 DEF TypeOK
  <2>3. gc' \in gcTypes
    <3> DEFINE kept == {d \in recipes : d \in manifest \/ d \in annotationPayloads
                                         \/ recipe[d] >= cutoff}
               dead == {c \in Chunks : index[c] # None /\ index[c].at < cutoff}
    <3>1. kept \in SUBSET Digests /\ recipes \ kept \in SUBSET Digests /\ dead \in SUBSET Chunks
      BY Zenon DEF recipes
    <3>2. gc' = [start |-> now, live |-> contentOf(kept), dead |-> dead, orphans |-> recipes \ kept]
      BY Zenon, <1>2 DEF gcMark
    <3>3. contentOf(kept) \in SUBSET Chunks
      BY Zenon, <2>1, <3>1
    <3> HIDE DEF kept, dead
    <3> QED BY Zenon, <2>2, <3>1, <3>2, <3>3
  <2>4. mpc' = "rescan" /\ UNCHANGED <<storeVars, rp, auxVars>>
    BY Zenon, <1>2 DEF gcMark
  <2> QED BY Zenon, <1>0, <1>1, <2>3, <2>4 DEF MaintTypes, auxVars
<1>3. CASE gcRescan
  <2>1. gc' \in gcTypes
    BY Zenon, <1>0, <1>3 DEF gcRescan
  <2>2. mpc' = "sweep" /\ UNCHANGED <<storeVars, rp, auxVars>>
    BY Zenon, <1>3 DEF gcRescan
  <2> QED BY Zenon, <1>0, <1>1, <2>1, <2>2 DEF MaintTypes, auxVars
<1>4. CASE gcSweep
  <2>1. index' \in [Chunks -> chunkIndexEntry \cup {None}]
    BY Zenon, <1>0, <1>4 DEF gcSweep, TypeOK
  <2>2. TypeOK'
    BY Zenon, <1>0, <1>4, <2>1 DEF gcSweep, TypeOK, packVars, writerVars
  <2>3. borrowed' \in [Digests -> SUBSET Chunks]
    BY Zenon, <1>0, <1>4 DEF gcSweep
  <2>4. mpc' = "recheck" /\ UNCHANGED <<gc, rp, hit>>
    BY Zenon, <1>4 DEF gcSweep
  <2> QED BY Zenon, <1>0, <2>2, <2>3, <2>4 DEF MaintTypes
<1>5. CASE gcRecheck
  <2>1. gc' \in gcTypes
    BY Zenon, <1>0, <1>5 DEF gcRecheck
  <2>2. mpc' = "drop" /\ UNCHANGED <<storeVars, rp, auxVars>>
    BY Zenon, <1>5 DEF gcRecheck
  <2> QED BY Zenon, <1>0, <1>1, <2>1, <2>2 DEF MaintTypes, auxVars
<1>6. CASE gcDrop
  <2>1. recipe' \in [Digests -> Nat \cup {None}]
    BY Zenon, <1>0, <1>6 DEF gcDrop, TypeOK
  <2>2. TypeOK'
    BY Zenon, <1>0, <1>6, <2>1 DEF gcDrop, TypeOK, packVars, writerVars
  <2>3. borrowed' \in [Digests -> SUBSET Chunks]
    BY Zenon, <1>0, <1>6 DEF gcDrop
  <2>4. mpc' = "idle" /\ gc' = noGc /\ UNCHANGED <<rp, hit>>
    BY Zenon, <1>6 DEF gcDrop
  <2> QED BY Zenon, <1>0, <2>2, <2>3, <2>4, NoPass DEF MaintTypes
<1> QED BY Zenon, <1>2, <1>3, <1>4, <1>5, <1>6

\* The steps of Repack keep the types: a copy is of bytes that are there.
LEMMA RepackTypes ==
    ASSUME MaintTypes, Shapes,
           \/ repackBegin \/ repackScan \/ repackList
           \/ \E p \in PackIds : repackVisit(p)
           \/ \E c \in Chunks : repackCopy(c)
           \/ repackPoint \/ repackRemove \/ repackEnd \/ passFails
    PROVE  MaintTypes'
<1> DEFINE Held == gc \in gcTypes /\ hit \in [Writers -> SUBSET Chunks]
                    /\ borrowed \in [Digests -> SUBSET Chunks]
<1>0. TypeOK /\ rp \in repackTypes /\ Held
  BY Zenon DEF MaintTypes
<1>1. UNCHANGED storeVars => TypeOK'
  BY Zenon, <1>0, TypeStep DEF Shapes
<1>2. UNCHANGED <<gc, auxVars>> => Held'
  BY Zenon, <1>0 DEF auxVars
<1>3. CASE repackBegin
  <2>1. activePack.id \in PackIds
    BY Zenon, <1>0, ActivePackScan
  <2>2. rp' \in repackTypes
    BY Zenon, <1>3, <2>1, NoPass DEF repackBegin, repackTypes
  <2>3. mpc' = "scan" /\ UNCHANGED <<storeVars, gc, auxVars>>
    BY Zenon, <1>3 DEF repackBegin
  <2> QED BY Zenon, <1>1, <1>2, <2>2, <2>3 DEF MaintTypes
<1>4. CASE repackScan
  <2>1. index \in [Chunks -> chunkIndexEntry \cup {None}]
    BY Zenon, <1>0 DEF TypeOK
  <2>2. rp' \in repackTypes
    BY Zenon, <1>0, <1>4, <2>1 DEF repackScan, repackTypes
  <2>3. mpc' = "list" /\ UNCHANGED <<storeVars, gc, auxVars>>
    BY Zenon, <1>4 DEF repackScan
  <2> QED BY Zenon, <1>1, <1>2, <2>2, <2>3 DEF MaintTypes
<1>5. CASE repackList
  <2>1. rp' \in repackTypes
    BY Zenon, <1>0, <1>5 DEF repackList, repackTypes, existing
  <2>2. mpc' = "loop" /\ UNCHANGED <<storeVars, gc, hit, borrowed>>
    BY Zenon, <1>5 DEF repackList
  <2> QED BY Zenon, <1>0, <1>1, <2>1, <2>2 DEF MaintTypes
<1>6. ASSUME NEW p \in PackIds, repackVisit(p) PROVE MaintTypes'
  <2> DEFINE live == rowsIn(p, rp.rows)
  <2>1. live \in SUBSET Chunks /\ \A c \in live : rp.rows[c] # None
    BY Zenon DEF rowsIn
  <2>2. mpc = "loop" /\ UNCHANGED <<storeVars, gc, auxVars>>
    BY Zenon, <1>6 DEF repackVisit
  <2>3. \/ rp' = [rp EXCEPT !.todo = @ \ {p}] /\ mpc' = mpc
        \/ rp' = [rp EXCEPT !.pack = p, !.move = live] /\ mpc' = "move"
    BY Zenon, <1>6 DEF repackVisit
  <2> HIDE DEF live
  <2>4. rp' \in repackTypes /\ (mpc' \in {"move", "point"} => mpc' = "move" /\ rp'.move = live
                                                                /\ rp'.rows = rp.rows)
    BY ZenonT(30), <1>0, <2>1, <2>2, <2>3 DEF repackTypes
  <2> QED BY Zenon, <1>1, <1>2, <2>1, <2>2, <2>4 DEF MaintTypes
<1>7. ASSUME NEW c \in Chunks, repackCopy(c) PROVE MaintTypes'
  <2> DEFINE b == packs[rp.pack][rp.rows[c].off + 1]
             slot == [chunk |-> c, pack |-> nextSlot.id, off |-> nextSlot.size]
  <2>1. /\ mpc = "move" /\ c \in rp.move /\ nextSlot.id \in PackIds
        /\ rp.rows[c].off < Len(packs[rp.pack])
        /\ packs' = [packs EXCEPT ![nextSlot.id] = Append(@, b)]
        /\ active' = [known |-> TRUE, id |-> nextSlot.id, size |-> nextSlot.size + 1]
        /\ synced' = [synced EXCEPT ![nextSlot.id] = Len(packs'[nextSlot.id])]
        /\ rp' = [rp EXCEPT !.move = @ \ {c}, !.slot = slot]
        /\ mpc' = "point"
        /\ UNCHANGED <<now, metaVars, packMu, writerVars, gc, auxVars>>
    BY Zenon, <1>7 DEF repackCopy, appendToActivePackNoSync
  <2>2. rp.rows[c] \in chunkIndexEntry /\ rp.pack \in PackIds
    BY Zenon, <1>0, <2>1 DEF MaintTypes, repackTypes
  <2>3. b \in Chunks \cup {Torn}
    <3>1. packs[rp.pack] \in Seq(Chunks \cup {Torn}) /\ rp.rows[c].off \in Nat
      BY Zenon, <1>0, <2>2 DEF TypeOK, chunkIndexEntry
    <3> QED BY <2>1, <3>1
  <2> HIDE DEF b
  <2>4. /\ packs' \in [PackIds -> Seq(Chunks \cup {Torn})]
        /\ active' \in [known : BOOLEAN, id : PackIds, size : Nat]
    BY Zenon, <1>0, <2>1, <2>3, AppendType
  <2>5. synced' \in [PackIds -> Nat]
    BY SMTT(30), <1>0, <2>1, <2>4 DEF TypeOK
  <2>6. TypeOK'
    BY Zenon, <1>0, <2>1, <2>4, <2>5 DEF TypeOK, metaVars, writerVars
  <2>7. slot \in slots
    BY Zenon, <1>0, <2>1, SlotEntry DEF chunkIndexEntry, slots
  <2> HIDE DEF slot
  <2>8. rp' \in repackTypes /\ rp'.slot = slot /\ rp'.rows = rp.rows /\ rp'.move \subseteq rp.move
    BY Zenon, <1>0, <2>1, <2>7 DEF repackTypes
  <2> QED BY Zenon, <1>2, <2>1, <2>6, <2>7, <2>8 DEF MaintTypes
<1>8. CASE repackPoint
  <2> DEFINE c == rp.slot.chunk
             e == [pack |-> rp.slot.pack, off |-> rp.slot.off, at |-> now]
  <2>1. rp.slot \in slots /\ now \in Nat
    BY Zenon, <1>0, <1>8 DEF repackPoint, MaintTypes, TypeOK
  <2>2. c \in Chunks /\ e \in chunkIndexEntry
    BY Zenon, <2>1 DEF slots, chunkIndexEntry
  <2>3. index' = index \/ index' = [index EXCEPT ![c] = e]
    BY Zenon, <1>8 DEF repackPoint
  <2> HIDE DEF c, e
  <2>4. index' \in [Chunks -> chunkIndexEntry \cup {None}]
    BY Zenon, <1>0, <2>2, <2>3 DEF TypeOK
  <2>5. TypeOK'
    BY Zenon, <1>0, <1>8, <2>4 DEF repackPoint, TypeOK, packVars, writerVars
  <2>6. rp' \in repackTypes /\ rp'.rows = rp.rows /\ rp'.move = rp.move
    BY Zenon, <1>0, <1>8 DEF repackPoint, repackTypes
  <2>7. mpc = "point" /\ mpc' = "move" /\ UNCHANGED <<gc, auxVars>>
    BY Zenon, <1>8 DEF repackPoint
  <2> QED BY Zenon, <1>2, <2>5, <2>6, <2>7 DEF MaintTypes
<1>9. CASE repackRemove
  <2>1. packs' \in [PackIds -> Seq(Chunks \cup {Torn})] /\ synced' \in [PackIds -> Nat]
    <3>1. <<>> \in Seq(Chunks \cup {Torn}) /\ rp.pack \in PackIds
      BY <1>0 DEF repackTypes
    <3> QED BY Zenon, <1>0, <1>9, <3>1 DEF repackRemove, TypeOK
  <2>2. TypeOK'
    BY Zenon, <1>0, <1>9, <2>1 DEF repackRemove, TypeOK, metaVars, writerVars
  <2>3. rp' \in repackTypes
    BY Zenon, <1>0, <1>9 DEF repackRemove, repackTypes
  <2>4. mpc' = "loop" /\ UNCHANGED <<gc, auxVars>>
    BY Zenon, <1>9 DEF repackRemove
  <2> QED BY Zenon, <1>2, <2>2, <2>3, <2>4 DEF MaintTypes
<1>10. CASE repackEnd \/ passFails
  <2>1. mpc' = "idle" /\ rp' = noRepack /\ (gc' = gc \/ gc' = noGc) /\ UNCHANGED <<storeVars, auxVars>>
    BY Zenon, <1>10 DEF repackEnd, passFails
  <2>2. Held'
    BY Zenon, <1>0, <2>1, NoPass DEF auxVars
  <2> QED BY Zenon, <1>1, <2>1, <2>2, NoPass DEF MaintTypes
<1> QED BY Zenon, <1>3, <1>4, <1>5, <1>6, <1>7, <1>8, <1>9, <1>10

\* The steps of the store, with what the passes and the histories see of them,
\* keep the types.
LEMMA StoreTypes ==
    ASSUME MaintTypes, Shapes,
           \/ \E w \in Writers : maintWriter(w)
           \/ \E o \in Objects : maintDelete(o)
           \/ \E o \in Objects : WriteInlineAnnotation(o) /\ UNCHANGED <<maintVars, auxVars>>
           \/ maintCrash
           \/ tick /\ UNCHANGED <<maintVars, auxVars>>
    PROVE  MaintTypes'
<1>0. TypeOK /\ hit \in [Writers -> SUBSET Chunks] /\ borrowed \in [Digests -> SUBSET Chunks]
  BY Zenon DEF MaintTypes
<1>1. TypeOK'
  <2>1. storeStep
    BY Zenon DEF storeStep, maintWriter, maintDelete, maintCrash
  <2> QED BY Zenon, <1>0, <2>1, TypeStep DEF Shapes
<1>2. ASSUME NEW w \in Writers, maintWriter(w) PROVE MaintTypes'
  <2>1. mpc' = mpc /\ gc' = gc /\ rp' = rp
    BY Zenon, <1>2 DEF maintWriter, maintVars
  <2>2. hit' \in [Writers -> SUBSET Chunks]
    BY Zenon, <1>0, <1>1, <1>2 DEF maintWriter, TypeOK
  <2>3. borrowed' \in [Digests -> SUBSET Chunks]
    BY Zenon, <1>0, <1>2 DEF maintWriter
  <2> QED BY Zenon, <1>1, <2>1, <2>2, <2>3 DEF MaintTypes
<1>3. CASE maintCrash
  BY Zenon, <1>0, <1>1, <1>3, NoPass DEF maintCrash, MaintTypes
<1>4. ASSUME NEW o \in Objects, maintDelete(o) PROVE MaintTypes'
  <2>1. borrowed' \in [Digests -> SUBSET Chunks]
    BY Zenon, <1>0, <1>4 DEF maintDelete
  <2> QED BY Zenon, <1>1, <1>4, <2>1 DEF maintDelete, maintVars, MaintTypes
<1>5. CASE UNCHANGED <<maintVars, auxVars>>
  BY Zenon, <1>1, <1>5 DEF maintVars, auxVars, MaintTypes
<1> QED BY Zenon, <1>2, <1>3, <1>4, <1>5

\* Writers that are left alone, or that a crash has reset, keep their shape.
LEMMA ShapesKept ==
    ASSUME Shapes, UNCHANGED writerVars \/ crash
    PROVE  Shapes'
<1>1. CASE UNCHANGED writerVars
  BY Zenon, <1>1 DEF Shapes, WriterShape, writerVars
<1>2. CASE crash
  <2>1. None \notin Digests
    BY Zenon, ChunkStoreAssumption
  <2>2. ASSUME NEW w \in Writers PROVE WriterShape(w)'
    <3>1. pc'[w] = "idle" /\ tgt'[w] = None /\ seen'[w] = {} /\ batch'[w] = noBatch
      BY Zenon, <1>2 DEF crash
    <3> QED BY Zenon, <2>1, <3>1 DEF WriterShape, Digests, Objects
  <2> QED BY Zenon, <2>2 DEF Shapes
<1> QED BY Zenon, <1>1, <1>2

\* Every step of the store, of Gc and of Repack keeps the types and the shapes.
LEMMA NextTypes ==
    ASSUME MaintTypes, Shapes, [MaintNext]_vars
    PROVE  MaintTypes' /\ Shapes'
<1>1. ASSUME NEW w \in Writers, maintWriter(w) PROVE MaintTypes' /\ Shapes'
  BY Zenon, <1>1, StoreTypes, ShapeStep DEF maintWriter, MaintTypes
<1>2. CASE \/ \E o \in Objects : maintDelete(o)
           \/ \E o \in Objects : WriteInlineAnnotation(o) /\ UNCHANGED <<maintVars, auxVars>>
           \/ maintCrash
           \/ tick /\ UNCHANGED <<maintVars, auxVars>>
  <2>1. UNCHANGED writerVars \/ crash
    BY Zenon, <1>2 DEF maintDelete, DeleteObject, WriteInlineAnnotation, maintCrash, tick
  <2> QED BY Zenon, <1>2, <2>1, StoreTypes, ShapesKept
<1>3. CASE gcMark \/ gcRescan \/ gcSweep \/ gcRecheck \/ gcDrop
  <2>1. UNCHANGED writerVars
    BY Zenon, <1>3 DEF gcMark, gcRescan, gcSweep, gcRecheck, gcDrop, storeVars
  <2> QED BY Zenon, <1>3, <2>1, GcTypes, ShapesKept
<1>4. CASE \/ repackBegin \/ repackScan \/ repackList
           \/ \E p \in PackIds : repackVisit(p)
           \/ \E c \in Chunks : repackCopy(c)
           \/ repackPoint \/ repackRemove \/ repackEnd \/ passFails
  <2>1. UNCHANGED writerVars
    BY Zenon, <1>4 DEF repackBegin, repackScan, repackList, repackVisit, repackCopy, repackPoint,
       repackRemove, repackEnd, passFails, storeVars
  <2> QED BY Zenon, <1>4, <2>1, RepackTypes, ShapesKept
<1>5. CASE UNCHANGED vars
  <2>1. UNCHANGED <<storeVars, mpc, gc, rp, hit, borrowed>> /\ UNCHANGED writerVars
    BY Zenon, <1>5 DEF vars, storeVars, maintVars, auxVars
  <2>2. TypeOK'
    BY Zenon, <2>1, TypeStep DEF MaintTypes, Shapes
  <2> QED BY Zenon, <2>1, <2>2, ShapesKept DEF MaintTypes
<1> QED BY Zenon, <1>1, <1>2, <1>3, <1>4, <1>5 DEF MaintNext, maintStep

-----------------------------------------------------------------------------
(* Repack beside the writers: the invariant *)

\* What a writer has buffered is in the packs and, once it has synced, on disk.
BatchPlaced(w) == \A c \in Chunks : batch[w][c] # None =>
    /\ placed(batch[w][c], c)
    /\ pc[w] = "synced" => durable(batch[w][c], c)

\* What the store knows of its bytes is true.
Bytes ==
    /\ PacksOK
    /\ IndexDurable
    /\ \A w \in Writers : BatchPlaced(w)

visiting == mpc \in {"loop", "move", "point"}

\* The pack the pass took for the active one is there, so appends go to it or
\* to a later one.
Beyond == mpc = "scan" \/ mpc = "list" \/ visiting => packs[rp.active] # <<>>

\* The packs still to be visited are sealed: no writer has anything in them, and
\* the rows that point into them are the rows of the scan.
Sealed == visiting => \A p \in rp.todo :
    /\ p < rp.active
    /\ ~inFlight(p)
    /\ \A c \in rowsIn(p, index) : rp.rows[c] = index[c]

\* The rows of the scan are durable while their pack is.
Scanned == \A c \in Chunks :
    /\ rp.rows[c] # None
    /\ mpc = "list" \/ (visiting /\ rp.rows[c].pack \in rp.todo)
    => durable(rp.rows[c], c)

\* What still points into the pack that is being emptied will be moved.
Moving == mpc \in {"move", "point"} =>
    /\ rp.pack \in rp.todo
    /\ \A c \in rp.move : rp.rows[c] # None /\ rp.rows[c].pack = rp.pack
    /\ \A c \in rowsIn(rp.pack, index) : c \in rp.move \/ (mpc = "point" /\ c = rp.slot.chunk)

\* The copy is on disk, in a pack that is not visited, before the row is redirected.
Copied == mpc = "point" =>
    /\ rp.active <= rp.slot.pack
    /\ durable(rp.slot, rp.slot.chunk)

PassInv == Beyond /\ Sealed /\ Scanned /\ Moving /\ Copied

\* The inductive invariant behind RepackKeepsRows.
RepackInv == MaintTypes /\ Shapes /\ (unscanned \/ (Bytes /\ PassInv))

-----------------------------------------------------------------------------
(* What a step of a writer does to the bytes *)

\* A writer's buffer only loses entries in the step.
Fewer(u) ==
    /\ \A c \in Chunks : batch'[u][c] # None => batch'[u][c] = batch[u][c]
    /\ pc'[u] = "synced" => pc[u] = "synced"

\* A writer that finishes drops its buffer.
LEMMA FinishFewer ==
    ASSUME TypeOK, NEW w \in Writers, finish(w)
    PROVE  Fewer(w)
<1>1. pc'[w] = "idle" /\ batch'[w] = noBatch
  BY Zenon DEF finish, TypeOK
<1>2. pc'[w] # "synced"
  BY SMT, <1>1
<1>3. \A c \in Chunks : batch'[w][c] = None
  BY Zenon, <1>1 DEF noBatch
<1> QED BY Zenon, <1>2, <1>3 DEF Fewer

\* Entries that stay in a buffer stay placed while the packs grow.
LEMMA FewerKeeps ==
    ASSUME TypeOK, TypeOK', Grows, NEW u \in Writers, BatchPlaced(u), Fewer(u)
    PROVE  BatchPlaced(u)'
<1> SUFFICES ASSUME NEW c \in Chunks, batch'[u][c] # None
             PROVE  placed(batch[u][c], c)' /\ (pc'[u] = "synced" => durable(batch[u][c], c)')
  BY Zenon DEF BatchPlaced
<1>1. batch'[u][c] = batch[u][c] /\ batch[u][c] \in chunkIndexEntry
  BY DEF Fewer, TypeOK
<1>2. placed(batch[u][c], c) /\ (pc'[u] = "synced" => durable(batch[u][c], c))
  BY Zenon, <1>1 DEF BatchPlaced, Fewer
<1> QED BY ZenonT(30), <1>1, <1>2, GrowsKeeps DEF placed, durable

\* A new chunk row comes from the writer's buffer.
RowsFrom(w) == \A c \in Chunks :
    \/ index'[c] = index[c]
    \/ batch[w][c] # None /\ index'[c] # None /\ index'[c].pack = batch[w][c].pack

\* A new entry of a buffer is in the highest pack there is.
BuffersHigh == \A u \in Writers, c \in Chunks : batch'[u][c] # None =>
    \/ batch'[u][c] = batch[u][c]
    \/ \A p \in PackIds : p > batch'[u][c].pack => packs[p] = <<>>

\* Steps that leave the rows and the files alone.
LEMMA QuietBytes ==
    ASSUME TypeOK, TypeOK', Bytes, NEW w \in Writers, Fewer(w),
           \A u \in Writers \ {w} : Still(u),
           UNCHANGED <<index, packs, synced>>, active' = active \/ active'.known = FALSE
    PROVE  Bytes' /\ Grows /\ RowsFrom(w) /\ BuffersHigh
<1>1. Grows
  BY DEF Grows, TypeOK
<1>2. PacksOK'
  BY Zenon DEF Bytes, PacksOK, ActivePackCached
<1>3. \A u \in Writers : Fewer(u)
  BY Zenon DEF Fewer, Still, Same
<1>4. Bytes'
  BY Zenon, <1>1, <1>2, <1>3, FewerKeeps, RowsStayDurable DEF Bytes
<1> QED BY Zenon, <1>1, <1>3, <1>4 DEF RowsFrom, BuffersHigh, Fewer

\* A writer that appends a chunk buffers the entry of the bytes it has written.
LEMMA AppendBytes ==
    ASSUME TypeOK, TypeOK', Bytes, NEW w \in Writers, NEW c \in Chunks,
           \A u \in Writers \ {w} : Still(u), storeChunkBatched(w, c) \/ storeChunk(w, c)
    PROVE  Bytes' /\ Grows /\ RowsFrom(w) /\ BuffersHigh
<1> DEFINE e == [pack |-> nextSlot.id, off |-> nextSlot.size, at |-> now]
<1>1. /\ nextSlot.id \in PackIds /\ index' = index /\ synced' = synced
      /\ packs' = [packs EXCEPT ![nextSlot.id] = Append(@, c)]
      /\ active' = [known |-> TRUE, id |-> nextSlot.id, size |-> nextSlot.size + 1]
      /\ batch' = [batch EXCEPT ![w][c] = e]
      /\ pc'[w] # "synced"
  BY Zenon DEF storeChunkBatched, storeChunk, appendToActivePackNoSync, metaVars, TypeOK
<1>2. /\ Grows /\ PacksOK'
      /\ nextSlot.size < Len(packs'[nextSlot.id])
      /\ packs'[nextSlot.id][nextSlot.size + 1] = c
  BY Zenon, <1>1, AppendGrows DEF Bytes
<1>3. \A p \in PackIds : p > nextSlot.id => packs[p] = <<>>
  BY Zenon, <1>1, NextSlot DEF Bytes, PacksOK
<1>4. e.pack = nextSlot.id /\ e.off = nextSlot.size
  BY Zenon
<1> HIDE DEF e
<1>5. batch'[w][c] = e /\ \A x \in Chunks \ {c} : batch'[w][x] = batch[w][x]
  <2>1. batch \in [Writers -> [Chunks -> chunkIndexEntry \cup {None}]]
    BY Zenon DEF TypeOK
  <2>2. batch' = [batch EXCEPT ![w][c] = e]
    BY Zenon, <1>1
  <2>3. batch'[w] = [batch[w] EXCEPT ![c] = e]
    BY Zenon, <2>1, <2>2
  <2>4. DOMAIN batch[w] = Chunks
    BY Zenon, <2>1
  <2> QED BY Zenon, <2>3, <2>4
<1>6. \A u \in Writers \ {w} : Fewer(u)
  BY Zenon DEF Fewer, Still, Same
<1>7. BatchPlaced(w)'
  <2> SUFFICES ASSUME NEW x \in Chunks, batch'[w][x] # None PROVE placed(batch[w][x], x)'
    BY Zenon, <1>1 DEF BatchPlaced
  <2>1. CASE x = c
    BY Zenon, <1>2, <1>4, <1>5, <2>1 DEF placed
  <2>2. CASE x # c
    <3>1. batch'[w][x] = batch[w][x] /\ batch[w][x] \in chunkIndexEntry
      BY <1>5, <2>2 DEF TypeOK
    <3>2. placed(batch[w][x], x)
      BY Zenon, <3>1 DEF Bytes, BatchPlaced
    <3> QED BY Zenon, <1>2, <3>1, <3>2, GrowsKeeps DEF placed
  <2> QED BY Zenon, <2>1, <2>2
<1>8. Bytes'
  BY Zenon, <1>1, <1>2, <1>6, <1>7, FewerKeeps, RowsStayDurable DEF Bytes
<1>9. BuffersHigh
  BY Zenon, <1>3, <1>4, <1>5, <1>6 DEF BuffersHigh, Fewer
<1> QED BY Zenon, <1>1, <1>2, <1>8, <1>9 DEF RowsFrom
\* A writer that syncs what it touched has its buffer on disk.
LEMMA SyncBytes ==
    ASSUME TypeOK, TypeOK', Bytes, NEW w \in Writers, packs' = packs,
           syncTouchedPacks(touchedPacks(w)), NEW c \in Chunks, batch[w][c] # None,
           NEW e \in chunkIndexEntry, e.pack = batch[w][c].pack, e.off = batch[w][c].off
    PROVE  durable(e, c)'
<1>1. placed(e, c) /\ e.pack \in touchedPacks(w)
  <2>1. placed(batch[w][c], c)
    BY Zenon DEF Bytes, BatchPlaced
  <2>2. batch[w][c].pack \in touchedPacks(w)
    BY Zenon DEF touchedPacks
  <2> QED BY Zenon, <2>1, <2>2 DEF placed
<1>2. e.pack \in PackIds
  BY Zenon DEF chunkIndexEntry
<1>3. synced'[e.pack] = Len(packs[e.pack])
  BY Zenon, <1>1, <1>2, SyncGrows DEF Bytes
<1> QED BY Zenon, <1>1, <1>3 DEF durable, placed

\* storeChunkIndexed puts rows for bytes it has just synced.
LEMMA IndexBytes ==
    ASSUME TypeOK, TypeOK', Bytes, NEW w \in Writers, \A u \in Writers \ {w} : Still(u),
           storeChunkIndexed(w)
    PROVE  Bytes' /\ Grows /\ RowsFrom(w) /\ BuffersHigh
<1>1. /\ packs' = packs /\ active' = active /\ syncTouchedPacks(touchedPacks(w))
      /\ batch'[w] = noBatch /\ pc'[w] = "chunks"
      /\ index' = [c \in Chunks |->
                     IF batch[w][c] # None THEN [batch[w][c] EXCEPT !.at = now] ELSE index[c]]
  BY ZenonT(30) DEF storeChunkIndexed, TypeOK
<1>2. Grows /\ PacksOK'
  BY Zenon, <1>1, SyncGrows DEF Bytes, PacksOK, ActivePackCached
<1>3. \A u \in Writers : Fewer(u)
  <2>1. Fewer(w)
    BY Zenon, <1>1 DEF Fewer, noBatch
  <2>2. \A u \in Writers \ {w} : Fewer(u)
    BY Zenon DEF Fewer, Still, Same
  <2> QED BY Zenon, <2>1, <2>2
<1>4. ASSUME NEW c \in Chunks, batch[w][c] # None
      PROVE  /\ index'[c] \in chunkIndexEntry
             /\ index'[c].pack = batch[w][c].pack /\ index'[c].off = batch[w][c].off
  <2>1. batch[w][c] \in chunkIndexEntry /\ now \in Nat
    BY <1>4 DEF TypeOK
  <2>2. index'[c] = [batch[w][c] EXCEPT !.at = now]
    BY Zenon, <1>1, <1>4
  <2> QED BY Zenon, <2>1, <2>2 DEF chunkIndexEntry
<1>5. IndexDurable'
  <2> SUFFICES ASSUME NEW c \in Chunks, index'[c] # None PROVE durable(index[c], c)'
    BY Zenon DEF IndexDurable
  <2>1. CASE batch[w][c] = None
    <3>1. index'[c] = index[c] /\ index[c] \in chunkIndexEntry
      BY <1>1, <2>1 DEF TypeOK
    <3>2. durable(index[c], c)
      BY Zenon, <3>1 DEF Bytes, IndexDurable
    <3> QED BY Zenon, <1>2, <3>1, <3>2, GrowsKeeps DEF durable, placed
  <2>2. CASE batch[w][c] # None
    BY Zenon, <1>1, <1>4, <2>2, SyncBytes DEF durable, placed
  <2> QED BY Zenon, <2>1, <2>2
<1>6. Bytes'
  BY Zenon, <1>2, <1>3, <1>5, FewerKeeps DEF Bytes
<1>7. RowsFrom(w)
  BY Zenon, <1>1, <1>4, NoneAssumption DEF RowsFrom
<1> QED BY Zenon, <1>2, <1>3, <1>6, <1>7 DEF BuffersHigh, Fewer

\* commitSync leaves the whole buffer durable, and commit puts its entries.
LEMMA CommitBytes ==
    ASSUME TypeOK, TypeOK', Bytes, NEW w \in Writers, \A u \in Writers \ {w} : Still(u),
           commitSync(w) \/ commit(w)
    PROVE  Bytes' /\ Grows /\ RowsFrom(w) /\ BuffersHigh
<1>1. \A u \in Writers \ {w} : Fewer(u)
  BY Zenon DEF Fewer, Still, Same
<1>2. CASE commitSync(w)
  <2>1. /\ packs' = packs /\ active' = active /\ syncTouchedPacks(touchedPacks(w))
        /\ index' = index /\ batch' = batch
    BY Zenon, <1>2 DEF commitSync, metaVars
  <2>2. Grows /\ PacksOK'
    BY Zenon, <2>1, SyncGrows DEF Bytes, PacksOK, ActivePackCached
  <2>3. BatchPlaced(w)'
    <3> SUFFICES ASSUME NEW c \in Chunks, batch'[w][c] # None PROVE durable(batch[w][c], c)'
      BY Zenon DEF BatchPlaced, durable
    <3>1. batch'[w][c] = batch[w][c] /\ batch[w][c] \in chunkIndexEntry
      BY <2>1 DEF TypeOK
    <3> QED BY Zenon, <2>1, <3>1, SyncBytes DEF durable, placed
  <2>4. Bytes'
    BY Zenon, <1>1, <2>1, <2>2, <2>3, FewerKeeps, RowsStayDurable DEF Bytes
  <2> QED BY Zenon, <2>1, <2>2, <2>4 DEF RowsFrom, BuffersHigh
<1>3. CASE commit(w)
  <2>1. /\ pc[w] = "synced" /\ UNCHANGED <<packs, synced, active>> /\ finish(w)
        /\ index' = [c \in Chunks |-> IF batch[w][c] # None THEN batch[w][c] ELSE index[c]]
    BY Zenon, <1>3 DEF commit, packVars
  <2>2. Grows /\ PacksOK'
    BY <2>1 DEF Bytes, Grows, PacksOK, ActivePackCached, TypeOK
  <2>3. Fewer(w)
    BY Zenon, <2>1, FinishFewer
  <2>4. IndexDurable'
    BY Zenon, <2>1 DEF IndexDurable, Bytes, BatchPlaced, durable, placed
  <2>5. Bytes'
    BY Zenon, <1>1, <2>2, <2>3, <2>4, FewerKeeps DEF Bytes
  <2>6. RowsFrom(w)
    BY Zenon, <2>1 DEF RowsFrom
  <2> QED BY Zenon, <1>1, <2>2, <2>3, <2>5, <2>6 DEF BuffersHigh, Fewer
<1> QED BY Zenon, <1>2, <1>3

\* Whatever a writer does, what the store knows of its bytes stays true.
LEMMA WriterBytes ==
    ASSUME TypeOK, TypeOK', Shapes, Bytes, NEW w \in Writers, writerStep(w)
    PROVE  Bytes' /\ Grows /\ RowsFrom(w) /\ BuffersHigh
<1> DEFINE Goal == Bytes' /\ Grows /\ RowsFrom(w) /\ BuffersHigh
<1>0. \A u \in Writers \ {w} : Still(u)
  BY Zenon, ShapeStep
<1>1. ASSUME Fewer(w), UNCHANGED <<index, packs, synced>>, active' = active \/ active'.known = FALSE
      PROVE  Goal
  BY Zenon, <1>0, <1>1, QuietBytes
<1>2. ASSUME finish(w) PROVE Fewer(w)
  BY Zenon, <1>2, FinishFewer
<1>3. ASSUME NEW o, NEW d, NEW at, NEW step \in {"chunks", "commit"}, start(w, o, d, at, step)
      PROVE  Goal
  BY Zenon, <1>1, <1>3 DEF start, Fewer, TypeOK, metaVars, packVars
<1>4. CASE \/ \E d \in Files : Put(w, d)
           \/ \E d \in Compounds : PutCompound(w, d)
           \/ \E o \in Objects, p \in Payloads : WriteAnnotation(w, o, p)
  BY Zenon, <1>3, <1>4 DEF Put, PutCompound, WriteAnnotation
<1>5. ASSUME NEW c \in Chunks, dedupHit(w, c) PROVE Goal
  BY Zenon, <1>1, <1>5 DEF dedupHit, Fewer, metaVars, packVars
<1>6. ASSUME NEW c \in Chunks, storeChunkBatched(w, c) \/ storeChunk(w, c) PROVE Goal
  BY Zenon, <1>0, <1>6, AppendBytes
<1>7. CASE storeChunkIndexed(w)
  BY Zenon, <1>0, <1>7, IndexBytes
<1>8. CASE commitSync(w) \/ commit(w)
  BY Zenon, <1>0, <1>8, CommitBytes
<1>9. CASE storeChunkFailed(w) \/ putAnnotation(w) \/ abort(w)
  <2>1. /\ finish(w) /\ UNCHANGED <<index, packs, synced>>
        /\ active' = active \/ active' = [active EXCEPT !.known = FALSE]
    BY Zenon, <1>9 DEF storeChunkFailed, putAnnotation, abort, metaVars, packVars
  <2>2. active' = active \/ active'.known = FALSE
    BY <2>1 DEF TypeOK
  <2> QED BY Zenon, <1>1, <1>2, <2>1, <2>2
<1>10. CASE sealRecipe(w) \/ putRecipe(w)
  BY Zenon, <1>1, <1>10 DEF sealRecipe, putRecipe, Fewer, metaVars, packVars, TypeOK
<1>11. CASE appendFails(w)
  <2>1. /\ nextSlot.id \in PackIds /\ index' = index /\ synced' = synced /\ finish(w)
        /\ packs' = [packs EXCEPT ![nextSlot.id] = Append(@, Torn)]
        /\ active'.known = FALSE
    BY Zenon, <1>11 DEF appendFails, failedAppend, metaVars
  <2>2. Grows /\ PacksOK'
    BY Zenon, <2>1, AppendGrows DEF Bytes
  <2>3. \A u \in Writers : Fewer(u)
    BY Zenon, <1>0, <1>2, <2>1 DEF Fewer, Still, Same
  <2>4. Bytes'
    BY Zenon, <2>1, <2>2, <2>3, FewerKeeps, RowsStayDurable DEF Bytes
  <2> QED BY Zenon, <2>1, <2>2, <2>3, <2>4 DEF RowsFrom, BuffersHigh, Fewer
<1> QED BY Zenon, <1>4, <1>5, <1>6, <1>7, <1>8, <1>9, <1>10, <1>11 DEF writerStep
-----------------------------------------------------------------------------
(* The pass beside a step of the store *)

\* A step that lets the packs grow, puts no row into a pack still to be visited
\* and buffers nothing there leaves the pass what it needs.
LEMMA PassBeside ==
    ASSUME MaintTypes, MaintTypes', PassInv, Grows, mpc' = mpc, rp' = rp,
           visiting => \A p \in rp.todo :
               /\ ~inFlight(p)'
               /\ \A c \in Chunks : index'[c] # None /\ index'[c].pack = p => index'[c] = index[c]
    PROVE  PassInv'
<1>0. TypeOK /\ TypeOK' /\ rp \in repackTypes
  BY Zenon DEF MaintTypes
<1>1. visiting' = visiting
  BY Zenon DEF visiting
<1>2. ASSUME visiting, NEW p \in rp.todo
      PROVE  \A c \in rowsIn(p, index') : c \in rowsIn(p, index) /\ index'[c] = index[c]
  BY Zenon, <1>2 DEF rowsIn
<1>3. Beyond'
  <2> SUFFICES ASSUME packs[rp.active] # <<>> PROVE packs'[rp.active] # <<>>
    BY Zenon, <1>1 DEF Beyond, PassInv
  <2>1. rp.active \in PackIds
    BY Zenon, <1>0 DEF repackTypes
  <2>2. packs[rp.active] \in Seq(Chunks \cup {Torn}) /\ packs'[rp.active] \in Seq(Chunks \cup {Torn})
    BY Zenon, <1>0, <2>1 DEF TypeOK
  <2>3. Len(packs[rp.active]) <= Len(packs'[rp.active])
    BY Zenon, <2>1 DEF Grows
  <2> QED BY <2>2, <2>3
<1>4. Sealed'
  BY Zenon, <1>1, <1>2 DEF Sealed, PassInv
<1>5. Scanned'
  <2> SUFFICES ASSUME NEW c \in Chunks, rp.rows[c] # None, durable(rp.rows[c], c)
               PROVE  durable(rp.rows[c], c)'
    BY Zenon, <1>1 DEF Scanned, PassInv
  <2>1. rp.rows[c] \in chunkIndexEntry
    BY <1>0 DEF repackTypes
  <2> QED BY Zenon, <1>0, <2>1, GrowsKeeps DEF durable, placed
<1>6. Moving'
  BY Zenon, <1>2 DEF Moving, PassInv, visiting
<1>7. Copied'
  <2> SUFFICES ASSUME mpc = "point", durable(rp.slot, rp.slot.chunk)
               PROVE  durable(rp.slot, rp.slot.chunk)'
    BY Zenon DEF Copied, PassInv
  <2> DEFINE e == [pack |-> rp.slot.pack, off |-> rp.slot.off, at |-> 0]
  <2>1. rp.slot \in slots
    BY Zenon DEF MaintTypes
  <2>2. e \in chunkIndexEntry /\ e.pack = rp.slot.pack /\ e.off = rp.slot.off
    BY Zenon, <2>1 DEF slots, chunkIndexEntry
  <2> HIDE DEF e
  <2>3. durable(e, rp.slot.chunk)
    BY Zenon, <2>2 DEF durable, placed
  <2> QED BY Zenon, <1>0, <2>2, <2>3, GrowsKeeps DEF durable, placed
<1> QED BY Zenon, <1>3, <1>4, <1>5, <1>6, <1>7 DEF PassInv

\* A writer appends to the active pack of the pass or to a later one.
LEMMA WriterKeepsPass ==
    ASSUME MaintTypes, MaintTypes', Shapes, Bytes, PassInv, NEW w \in Writers, maintWriter(w)
    PROVE  Bytes' /\ PassInv'
<1>0. TypeOK /\ TypeOK' /\ rp \in repackTypes
  BY Zenon DEF MaintTypes
<1>1. Bytes' /\ Grows /\ RowsFrom(w) /\ BuffersHigh
  BY Zenon, <1>0, WriterBytes DEF maintWriter
<1>2. mpc' = mpc /\ rp' = rp
  BY Zenon DEF maintWriter, maintVars
<1>3. ASSUME visiting, NEW p \in rp.todo
      PROVE  /\ ~inFlight(p)'
             /\ \A c \in Chunks : index'[c] # None /\ index'[c].pack = p => index'[c] = index[c]
  <2>1. p \in PackIds /\ rp.active \in PackIds /\ p < rp.active /\ packs[rp.active] # <<>>
    BY Zenon, <1>0, <1>3 DEF repackTypes, PassInv, Sealed, Beyond
  <2>2. \A u \in Writers, c \in Chunks : batch[u][c] # None => batch[u][c].pack # p
    BY ZenonT(30), <1>3 DEF PassInv, Sealed, inFlight, touchedPacks
  <2>3. ASSUME NEW u \in Writers, NEW c \in Chunks, batch'[u][c] # None
        PROVE  batch'[u][c].pack # p
    <3>1. CASE batch'[u][c] = batch[u][c]
      BY Zenon, <2>2, <2>3, <3>1
    <3>2. CASE \A q \in PackIds : q > batch'[u][c].pack => packs[q] = <<>>
      <4>1. ~(rp.active > batch'[u][c].pack)
        BY Zenon, <2>1, <3>2
      <4> QED BY <2>1, <4>1 DEF PackIds
    <3> QED BY Zenon, <1>1, <2>3, <3>1, <3>2 DEF BuffersHigh
  <2>4. ~inFlight(p)'
    BY Zenon, <2>3 DEF inFlight, touchedPacks
  <2> QED BY Zenon, <1>1, <2>2, <2>4 DEF RowsFrom
<1> QED BY Zenon, <1>1, <1>2, <1>3, PassBeside

\* Steps that touch neither the packs nor what a writer has buffered, and that at
\* most drop chunk rows, keep the bytes and the pass.
LEMMA RowsDropped ==
    ASSUME MaintTypes, MaintTypes', Bytes, UNCHANGED <<packVars, writerVars>>,
           \A c \in Chunks : index'[c] = index[c] \/ index'[c] = None
    PROVE  Bytes' /\ (PassInv /\ mpc' = mpc /\ rp' = rp => PassInv')
<1>0. TypeOK /\ TypeOK'
  BY Zenon DEF MaintTypes
<1>1. UNCHANGED <<packs, synced, active, batch, pc>>
  BY Zenon DEF packVars, writerVars
<1>2. Grows
  BY <1>0, <1>1 DEF Grows, TypeOK
<1>3. PacksOK' /\ \A w \in Writers : BatchPlaced(w)'
  BY Zenon, <1>1 DEF Bytes, PacksOK, ActivePackCached, BatchPlaced, placed, durable
<1>4. IndexDurable'
  BY Zenon, <1>1 DEF Bytes, IndexDurable, durable, placed
<1>5. ASSUME PassInv, mpc' = mpc, rp' = rp PROVE PassInv'
  <2>1. visiting => \A p \in rp.todo :
               /\ ~inFlight(p)'
               /\ \A c \in Chunks : index'[c] # None /\ index'[c].pack = p => index'[c] = index[c]
    BY Zenon, <1>1, <1>5 DEF PassInv, Sealed, inFlight, touchedPacks
  <2> QED BY Zenon, <1>2, <1>5, <2>1, PassBeside
<1> QED BY Zenon, <1>3, <1>4, <1>5 DEF Bytes
-----------------------------------------------------------------------------
(* The steps of the passes *)

\* Between two passes, and in Gc, there is nothing to keep for Repack.
LEMMA NotRepacking ==
    ASSUME mpc' \notin {"scan", "list", "loop", "move", "point"}
    PROVE  PassInv'
  BY Zenon DEF PassInv, Beyond, Sealed, Scanned, Moving, Copied, visiting

\* Gc takes rows away, a crash what was not synced; neither goes on with a repack.
LEMMA EndOfPass ==
    ASSUME MaintTypes, MaintTypes', Bytes,
           \/ gcMark \/ gcRescan \/ gcSweep \/ gcRecheck \/ gcDrop
           \/ repackEnd \/ passFails \/ maintCrash
    PROVE  Bytes' /\ PassInv'
<1>1. mpc' \in {"rescan", "sweep", "recheck", "drop", "idle"}
  BY Zenon DEF gcMark, gcRescan, gcSweep, gcRecheck, gcDrop, repackEnd, passFails, maintCrash
<1>2. PassInv'
  BY Zenon, <1>1, NotRepacking
<1>3. CASE maintCrash
  <2>1. PacksOK' /\ IndexDurable'
    BY Zenon, <1>3, CrashBytes DEF maintCrash, MaintTypes, Bytes
  <2>2. \A w \in Writers : BatchPlaced(w)'
    BY Zenon, <1>3 DEF maintCrash, crash, BatchPlaced, noBatch
  <2> QED BY Zenon, <1>2, <2>1, <2>2 DEF Bytes
<1>4. CASE \/ gcMark \/ gcRescan \/ gcSweep \/ gcRecheck \/ gcDrop \/ repackEnd \/ passFails
  <2>1. /\ UNCHANGED <<packVars, writerVars>>
        /\ \A c \in Chunks : index'[c] = index[c] \/ index'[c] = None
    BY Zenon, <1>4 DEF gcMark, gcRescan, gcSweep, gcRecheck, gcDrop, repackEnd, passFails,
       storeVars, metaVars
  <2> QED BY Zenon, <1>2, <2>1, RowsDropped
<1> QED BY Zenon, <1>3, <1>4

\* The pass finds its active pack, the rows and the packs to visit; if the history
\* says the scan has seen everything, those packs are sealed.
LEMMA BeginKeeps ==
    ASSUME MaintTypes, MaintTypes', Bytes, PassInv, ~unscanned',
           repackBegin \/ repackScan \/ repackList
    PROVE  Bytes' /\ PassInv'
<1>0. TypeOK /\ rp \in repackTypes
  BY Zenon DEF MaintTypes
<1>1. UNCHANGED storeVars
  BY Zenon DEF repackBegin, repackScan, repackList
<1>2. UNCHANGED <<index, packs, synced, packVars, writerVars, batch>>
  BY Zenon, <1>1 DEF storeVars, metaVars, packVars, writerVars
<1>3. Bytes'
  BY Zenon, <1>2, RowsDropped
<1>4. CASE repackBegin
  <2>1. mpc' = "scan" /\ rp'.active = activePack.id /\ existing # {}
    BY Zenon, <1>4 DEF repackBegin, noRepack
  <2>2. packs[activePack.id] # <<>>
    BY Zenon, <1>0, <2>1, ActivePackScan DEF existing
  <2> QED BY Zenon, <1>2, <1>3, <2>1, <2>2
      DEF PassInv, Beyond, Sealed, Scanned, Moving, Copied, visiting
<1>5. CASE repackScan
  <2>1. mpc = "scan" /\ mpc' = "list" /\ rp'.active = rp.active /\ rp'.rows = index
    BY Zenon, <1>0, <1>5 DEF repackScan, repackTypes
  <2>2. Scanned'
    BY Zenon, <1>2, <2>1 DEF Scanned, Bytes, IndexDurable, durable, placed
  <2> QED BY Zenon, <1>2, <1>3, <2>1, <2>2 DEF PassInv, Beyond, Sealed, Moving, Copied, visiting
<1>6. CASE repackList
  <2>1. /\ mpc = "list" /\ mpc' = "loop" /\ rp'.active = rp.active /\ rp'.rows = rp.rows
        /\ rp'.todo = existing \ {rp.active}
    BY Zenon, <1>0, <1>6 DEF repackList, repackTypes
  <2>2. \A p \in existing \ {rp.active} :
          /\ ~(p > rp.active) /\ ~inFlight(p)
          /\ \A c \in rowsIn(p, index) : rp.rows[c] = index[c]
    BY Zenon, <1>6 DEF repackList
  <2>3. \A p \in existing \ {rp.active} : p < rp.active
    BY <1>0, <2>2 DEF existing, repackTypes, PackIds
  <2>4. Sealed'
    <3> SUFFICES ASSUME NEW p \in existing \ {rp.active}
                 PROVE  /\ p < rp.active /\ ~inFlight(p)'
                        /\ \A c \in rowsIn(p, index') : rp.rows[c] = index'[c]
      BY Zenon, <2>1 DEF Sealed
    <3>1. ~inFlight(p)'
      BY Zenon, <1>2, <2>2 DEF inFlight, touchedPacks
    <3> QED BY Zenon, <1>2, <2>2, <2>3, <3>1
  <2>5. Scanned'
    BY Zenon, <1>2, <2>1 DEF PassInv, Scanned, durable, placed
  <2>6. Beyond' /\ Moving' /\ Copied'
    BY Zenon, <1>2, <2>1 DEF PassInv, Beyond, Moving, Copied, visiting
  <2> QED BY Zenon, <1>3, <2>4, <2>5, <2>6 DEF PassInv
<1> QED BY Zenon, <1>4, <1>5, <1>6

\* A pack is skipped, or everything that points into it is on the list to move.
LEMMA VisitKeeps ==
    ASSUME MaintTypes, MaintTypes', Bytes, PassInv, NEW p \in PackIds, repackVisit(p)
    PROVE  Bytes' /\ PassInv'
<1> DEFINE live == rowsIn(p, rp.rows)
<1>0. rp \in repackTypes
  BY Zenon DEF MaintTypes
<1>1. /\ mpc = "loop" /\ p \in rp.todo /\ UNCHANGED storeVars
      /\ \/ rp' = [rp EXCEPT !.todo = @ \ {p}] /\ mpc' = mpc
         \/ rp' = [rp EXCEPT !.pack = p, !.move = live] /\ mpc' = "move"
  BY Zenon DEF repackVisit
<1>2. UNCHANGED <<index, packs, synced, packVars, writerVars, batch>>
  BY Zenon, <1>1 DEF storeVars, metaVars, packVars, writerVars
<1>3. Bytes'
  BY Zenon, <1>2, RowsDropped
<1> HIDE DEF live
<1>4. /\ rp'.active = rp.active /\ rp'.rows = rp.rows /\ rp'.todo \subseteq rp.todo
      /\ \/ mpc' = "loop"
         \/ mpc' = "move" /\ rp'.todo = rp.todo /\ rp'.pack = p /\ rp'.move = live
  BY Zenon, <1>0, <1>1 DEF repackTypes
<1>5. visiting /\ visiting'
  BY Zenon, <1>1, <1>4 DEF visiting
<1>6. Beyond' /\ Copied'
  BY Zenon, <1>2, <1>4, <1>5 DEF PassInv, Beyond, Copied
<1>7. Sealed'
  <2>1. \A q \in rp'.todo : q < rp.active /\ ~inFlight(q) /\ \A c \in rowsIn(q, index) : rp.rows[c] = index[c]
    BY Zenon, <1>4, <1>5 DEF PassInv, Sealed
  <2>2. index' = index /\ batch' = batch
    BY Zenon, <1>2
  <2>3. \A q : inFlight(q)' = inFlight(q) /\ rowsIn(q, index)' = rowsIn(q, index)
    BY Zenon, <2>2 DEF inFlight, touchedPacks, rowsIn
  <2> QED BY Zenon, <1>4, <2>1, <2>2, <2>3 DEF Sealed
<1>8. Scanned'
  BY Zenon, <1>2, <1>4, <1>5 DEF PassInv, Scanned, durable, placed
<1>9. Moving'
  <2> SUFFICES ASSUME mpc' = "move" PROVE Moving'
    BY Zenon, <1>4 DEF Moving
  <2>1. rp'.todo = rp.todo /\ rp'.pack = p /\ rp'.move = live
    BY Zenon, <1>4
  <2>2. \A c \in rowsIn(p, index) : c \in live
    BY Zenon, <1>1, <1>5 DEF live, rowsIn, PassInv, Sealed
  <2> QED BY Zenon, <1>1, <1>2, <1>4, <2>1, <2>2 DEF Moving, live, rowsIn
<1> QED BY Zenon, <1>3, <1>6, <1>7, <1>8, <1>9 DEF PassInv
\* The copy of a chunk: its bytes are on disk at the end of a pack that is not
\* visited, before anything points there.
LEMMA CopyKeeps ==
    ASSUME MaintTypes, MaintTypes', Bytes, PassInv, NEW c \in Chunks, repackCopy(c)
    PROVE  Bytes' /\ PassInv'
<1> DEFINE b == packs[rp.pack][rp.rows[c].off + 1]
           slot == [chunk |-> c, pack |-> nextSlot.id, off |-> nextSlot.size]
<1>0. TypeOK /\ TypeOK' /\ rp \in repackTypes
  BY Zenon DEF MaintTypes
<1>1. /\ mpc = "move" /\ c \in rp.move /\ nextSlot.id \in PackIds
      /\ packs' = [packs EXCEPT ![nextSlot.id] = Append(@, b)]
      /\ active' = [known |-> TRUE, id |-> nextSlot.id, size |-> nextSlot.size + 1]
      /\ synced' = [synced EXCEPT ![nextSlot.id] = Len(packs'[nextSlot.id])]
      /\ rp' = [rp EXCEPT !.move = @ \ {c}, !.slot = slot]
      /\ mpc' = "point"
      /\ UNCHANGED <<metaVars, writerVars>>
  BY Zenon DEF repackCopy, appendToActivePackNoSync
<1>2. b = c
  <2>1. rp.rows[c] # None /\ rp.rows[c].pack = rp.pack /\ rp.pack \in rp.todo
    BY Zenon, <1>1 DEF PassInv, Moving
  <2>2. durable(rp.rows[c], c)
    BY Zenon, <1>1, <2>1 DEF PassInv, Scanned, visiting
  <2> QED BY Zenon, <2>1, <2>2 DEF durable, placed
<1>3. /\ Grows /\ PacksOK'
      /\ nextSlot.size < Len(packs'[nextSlot.id])
      /\ packs'[nextSlot.id][nextSlot.size + 1] = c
  BY Zenon, <1>0, <1>1, <1>2, AppendGrows DEF Bytes
<1> HIDE DEF b
<1>4. /\ rp'.active = rp.active /\ rp'.rows = rp.rows /\ rp'.todo = rp.todo /\ rp'.pack = rp.pack
      /\ rp'.move = rp.move \ {c} /\ rp'.slot = slot
  BY Zenon, <1>0, <1>1 DEF repackTypes
<1>5. slot.chunk = c /\ slot.pack = nextSlot.id /\ slot.off = nextSlot.size
  BY Zenon
<1> HIDE DEF slot
<1>6. UNCHANGED <<index, batch, pc>>
  BY Zenon, <1>1 DEF metaVars, writerVars
<1>7. Bytes'
  <2>1. \A u \in Writers : Fewer(u)
    BY Zenon, <1>6 DEF Fewer
  <2> QED BY Zenon, <1>0, <1>3, <1>6, <2>1, FewerKeeps, RowsStayDurable DEF Bytes
<1>8. Beyond'
  <2>1. packs[rp.active] # <<>> /\ rp.active \in PackIds
    BY Zenon, <1>0, <1>1 DEF PassInv, Beyond, visiting, repackTypes
  <2>2. packs[rp.active] \in Seq(Chunks \cup {Torn}) /\ packs'[rp.active] \in Seq(Chunks \cup {Torn})
    BY Zenon, <1>0, <2>1 DEF TypeOK
  <2>3. Len(packs[rp.active]) <= Len(packs'[rp.active])
    BY Zenon, <1>3, <2>1 DEF Grows
  <2>4. packs'[rp.active] # <<>>
    BY <2>1, <2>2, <2>3
  <2> QED BY Zenon, <1>4, <2>4 DEF Beyond
<1>9. Sealed'
  <2> SUFFICES ASSUME NEW p \in rp.todo
               PROVE  /\ p < rp.active /\ ~inFlight(p)'
                      /\ \A x \in rowsIn(p, index') : rp.rows[x] = index'[x]
    BY Zenon, <1>4 DEF Sealed
  <2>1. /\ p < rp.active /\ ~inFlight(p)
        /\ \A x \in rowsIn(p, index) : rp.rows[x] = index[x]
    BY Zenon, <1>1 DEF PassInv, Sealed, visiting
  <2>2. ~inFlight(p)'
    BY Zenon, <1>6, <2>1 DEF inFlight, touchedPacks
  <2> QED BY Zenon, <1>6, <2>1, <2>2
<1>10. Scanned'
  <2> SUFFICES ASSUME NEW x \in Chunks, rp.rows[x] # None, durable(rp.rows[x], x)
               PROVE  durable(rp.rows[x], x)'
    BY Zenon, <1>1, <1>4 DEF Scanned, PassInv, visiting
  <2>1. rp.rows[x] \in chunkIndexEntry
    BY <1>0 DEF repackTypes
  <2> QED BY Zenon, <1>0, <1>3, <1>4, <2>1, GrowsKeeps DEF durable, placed
<1>11. Moving'
  BY Zenon, <1>1, <1>4, <1>5, <1>6 DEF PassInv, Moving, rowsIn
<1>12. Copied'
  <2>1. rp.active <= nextSlot.id
    <3>1. rp.active \in PackIds /\ packs[rp.active] # <<>>
      BY Zenon, <1>0, <1>1 DEF PassInv, Beyond, visiting, repackTypes
    <3>2. ~(rp.active > nextSlot.id)
      BY Zenon, <1>0, <1>1, <3>1, NextSlot DEF Bytes, PacksOK
    <3> QED BY <1>1, <3>1, <3>2 DEF PackIds
  <2>2. synced'[nextSlot.id] = Len(packs'[nextSlot.id])
    BY Zenon, <1>0, <1>1 DEF TypeOK
  <2> QED BY Zenon, <1>3, <1>4, <1>5, <2>1, <2>2 DEF Copied, durable, placed
<1> QED BY Zenon, <1>7, <1>8, <1>9, <1>10, <1>11, <1>12 DEF PassInv

\* The row of the copied chunk is redirected: it leaves the pack that is emptied.
LEMMA PointKeeps ==
    ASSUME MaintTypes, MaintTypes', Bytes, PassInv, repackPoint
    PROVE  Bytes' /\ PassInv'
<1> DEFINE c == rp.slot.chunk
           e == [pack |-> rp.slot.pack, off |-> rp.slot.off, at |-> now]
<1>0. TypeOK /\ TypeOK' /\ rp \in repackTypes /\ rp.slot \in slots
  BY Zenon DEF MaintTypes, repackPoint
<1>1. /\ mpc = "point" /\ mpc' = "move" /\ rp' = [rp EXCEPT !.slot = None]
      /\ index' = IF index[c] = None THEN index ELSE [index EXCEPT ![c] = e]
      /\ UNCHANGED <<packVars, writerVars>>
  BY Zenon DEF repackPoint
<1>2. UNCHANGED <<packs, synced, active, batch, pc>>
  BY Zenon, <1>1 DEF packVars, writerVars
<1>3. e.pack = rp.slot.pack /\ e.off = rp.slot.off /\ e # None /\ c \in Chunks
  <2>1. e \in chunkIndexEntry
    BY Zenon, <1>0 DEF slots, TypeOK, chunkIndexEntry
  <2> QED BY Zenon, <1>0, <2>1, NoneAssumption DEF slots
<1>4. durable(e, c)
  BY Zenon, <1>1, <1>3 DEF PassInv, Copied, durable, placed
<1>5. \A p \in rp.todo : e.pack # p
  <2> SUFFICES ASSUME NEW p \in rp.todo PROVE e.pack # p
    BY Zenon
  <2>1. p < rp.active /\ rp.active <= e.pack
    BY Zenon, <1>1, <1>3 DEF PassInv, Sealed, Copied, visiting
  <2>2. p \in PackIds /\ rp.active \in PackIds /\ e.pack \in PackIds
    BY Zenon, <1>0, <1>3 DEF repackTypes, slots
  <2> QED BY <2>1, <2>2 DEF PackIds
<1>6. /\ \A x \in Chunks : x # c => index'[x] = index[x]
      /\ index'[c] = None \/ index'[c] = e
  BY Zenon, <1>0, <1>1, <1>3 DEF TypeOK
<1> HIDE DEF c, e
<1>7. Bytes'
  <2>1. PacksOK' /\ \A u \in Writers : BatchPlaced(u)'
    BY Zenon, <1>2 DEF Bytes, PacksOK, ActivePackCached, BatchPlaced, placed, durable
  <2>2. IndexDurable'
    BY Zenon, <1>2, <1>4, <1>6 DEF Bytes, IndexDurable, durable, placed
  <2> QED BY Zenon, <2>1, <2>2 DEF Bytes
<1>8. /\ rp'.active = rp.active /\ rp'.rows = rp.rows /\ rp'.todo = rp.todo /\ rp'.pack = rp.pack
      /\ rp'.move = rp.move
  BY Zenon, <1>0, <1>1 DEF repackTypes
<1>9. ASSUME NEW p \in rp.todo, NEW x \in Chunks, index'[x] # None, index'[x].pack = p
      PROVE  x # c /\ index'[x] = index[x]
  BY Zenon, <1>5, <1>6, <1>9
<1>10. Beyond' /\ Scanned' /\ Copied'
  BY Zenon, <1>1, <1>2, <1>8 DEF PassInv, Beyond, Scanned, Copied, visiting, durable, placed
<1>11. Sealed'
  <2> SUFFICES ASSUME NEW p \in rp.todo
               PROVE  /\ p < rp.active /\ ~inFlight(p)'
                      /\ \A x \in rowsIn(p, index') : rp.rows[x] = index'[x]
    BY Zenon, <1>8 DEF Sealed
  <2>1. /\ p < rp.active /\ ~inFlight(p)
        /\ \A x \in rowsIn(p, index) : rp.rows[x] = index[x]
    BY Zenon, <1>1 DEF PassInv, Sealed, visiting
  <2>2. ~inFlight(p)'
    BY Zenon, <1>2, <2>1 DEF inFlight, touchedPacks
  <2> QED BY Zenon, <1>9, <2>1, <2>2 DEF rowsIn
<1>12. Moving'
  <2>1. rp.pack \in rp.todo
    BY Zenon, <1>1 DEF PassInv, Moving
  <2>2. \A x \in rowsIn(rp.pack, index') : x \in rowsIn(rp.pack, index) /\ x # c
    BY Zenon, <1>9, <2>1 DEF rowsIn
  <2> QED BY Zenon, <1>1, <1>8, <2>1, <2>2 DEF PassInv, Moving, c
<1> QED BY Zenon, <1>7, <1>10, <1>11, <1>12 DEF PassInv
\* A pack is removed when nothing points into it, in the index or in a buffer.
LEMMA RemoveKeeps ==
    ASSUME MaintTypes, MaintTypes', Bytes, PassInv, repackRemove
    PROVE  Bytes' /\ PassInv'
<1>0. TypeOK /\ TypeOK' /\ rp \in repackTypes
  BY Zenon DEF MaintTypes
<1>1. /\ mpc = "move" /\ rp.move = {} /\ mpc' = "loop"
      /\ packs' = [packs EXCEPT ![rp.pack] = <<>>]
      /\ synced' = [synced EXCEPT ![rp.pack] = 0]
      /\ rp' = [rp EXCEPT !.todo = @ \ {rp.pack}]
      /\ UNCHANGED <<metaVars, active, writerVars>>
  BY Zenon DEF repackRemove
<1>2. UNCHANGED <<index, active, batch, pc>>
  BY Zenon, <1>1 DEF metaVars, writerVars
<1>3. /\ rp.pack \in rp.todo /\ rp.pack \in PackIds /\ rp.active \in PackIds
      /\ rp.pack < rp.active /\ ~inFlight(rp.pack) /\ packs[rp.active] # <<>>
  BY Zenon, <1>0, <1>1 DEF PassInv, Moving, Sealed, Beyond, visiting, repackTypes
<1>4. /\ packs'[rp.pack] = <<>> /\ synced'[rp.pack] = 0
      /\ \A p \in PackIds : p # rp.pack => packs'[p] = packs[p] /\ synced'[p] = synced[p]
  BY Zenon, <1>0, <1>1, <1>3 DEF TypeOK
<1>5. \A e \in chunkIndexEntry, c \in Chunks : e.pack # rp.pack =>
        /\ placed(e, c) => placed(e, c)'
        /\ durable(e, c) => durable(e, c)'
  BY Zenon, <1>4 DEF placed, durable, chunkIndexEntry
<1>6. PacksOK'
  <2>1. \A p \in PackIds : synced'[p] <= Len(packs'[p])
    <3>1. \A p \in PackIds : p # rp.pack => synced'[p] <= Len(packs'[p])
      BY Zenon, <1>4 DEF Bytes, PacksOK
    <3> QED BY <1>4, <3>1
  <2>2. active.known => active.id # rp.pack
    <3>1. active.id \in PackIds
      BY Zenon, <1>0 DEF TypeOK
    <3>2. active.known => ~(rp.active > active.id)
      BY Zenon, <1>3 DEF Bytes, PacksOK, ActivePackCached
    <3> QED BY Zenon, <1>3, <3>1, <3>2 DEF PackIds
  <2>3. ActivePackCached'
    <3> SUFFICES ASSUME active.known
                 PROVE  /\ active.size = Len(packs'[active.id])
                        /\ \A p \in PackIds : p > active.id => packs'[p] = <<>>
      BY Zenon, <1>2 DEF ActivePackCached
    <3>1. active.id \in PackIds
      BY Zenon, <1>0 DEF TypeOK
    <3>2. active.size = Len(packs[active.id]) /\ \A p \in PackIds : p > active.id => packs[p] = <<>>
      BY Zenon DEF Bytes, PacksOK, ActivePackCached
    <3> QED BY Zenon, <1>4, <2>2, <3>1, <3>2
  <2> QED BY Zenon, <2>1, <2>3 DEF PacksOK
<1>7. IndexDurable'
  <2> SUFFICES ASSUME NEW c \in Chunks, index[c] # None PROVE durable(index[c], c)'
    BY Zenon, <1>2 DEF IndexDurable
  <2>1. index[c] \in chunkIndexEntry
    BY Zenon, <1>0 DEF TypeOK
  <2>2. index[c].pack # rp.pack
    BY Zenon, <1>1 DEF PassInv, Moving, rowsIn
  <2>3. durable(index[c], c)
    BY Zenon DEF Bytes, IndexDurable
  <2> QED BY Zenon, <1>2, <1>5, <2>1, <2>2, <2>3 DEF durable, placed
<1>8. ASSUME NEW w \in Writers PROVE BatchPlaced(w)'
  <2> SUFFICES ASSUME NEW c \in Chunks, batch[w][c] # None
               PROVE  placed(batch[w][c], c)' /\ (pc[w] = "synced" => durable(batch[w][c], c)')
    BY Zenon, <1>2 DEF BatchPlaced
  <2>1. batch[w][c] \in chunkIndexEntry
    BY <1>0 DEF TypeOK
  <2>2. batch[w][c].pack # rp.pack
    BY Zenon, <1>3 DEF inFlight, touchedPacks
  <2>3. placed(batch[w][c], c) /\ (pc[w] = "synced" => durable(batch[w][c], c))
    BY Zenon DEF Bytes, BatchPlaced
  <2> QED BY Zenon, <1>2, <1>5, <2>1, <2>2, <2>3 DEF durable, placed
<1>9. /\ rp'.active = rp.active /\ rp'.rows = rp.rows /\ rp'.todo = rp.todo \ {rp.pack}
  BY Zenon, <1>0, <1>1 DEF repackTypes
<1>10. Beyond'
  <2>1. rp.active # rp.pack
    BY <1>3 DEF PackIds
  <2> QED BY Zenon, <1>3, <1>4, <1>9, <2>1 DEF Beyond
<1>11. Sealed'
  <2> SUFFICES ASSUME NEW p \in rp.todo
               PROVE  /\ p < rp.active /\ ~inFlight(p)'
                      /\ \A x \in rowsIn(p, index') : rp.rows[x] = index'[x]
    BY Zenon, <1>9 DEF Sealed
  <2>1. /\ p < rp.active /\ ~inFlight(p)
        /\ \A x \in rowsIn(p, index) : rp.rows[x] = index[x]
    BY Zenon, <1>1 DEF PassInv, Sealed, visiting
  <2>2. ~inFlight(p)'
    BY Zenon, <1>2, <2>1 DEF inFlight, touchedPacks
  <2> QED BY Zenon, <1>2, <2>1, <2>2
<1>12. Scanned'
  <2> SUFFICES ASSUME NEW c \in Chunks, rp.rows[c] # None, rp.rows[c].pack \in rp.todo \ {rp.pack}
               PROVE  durable(rp.rows[c], c)'
    BY Zenon, <1>1, <1>9 DEF Scanned
  <2>1. rp.rows[c] \in chunkIndexEntry
    BY Zenon, <1>0 DEF repackTypes
  <2>2. durable(rp.rows[c], c)
    BY Zenon, <1>1 DEF PassInv, Scanned, visiting
  <2> QED BY Zenon, <1>5, <1>9, <2>1, <2>2 DEF durable, placed
<1>13. Moving' /\ Copied'
  BY Zenon, <1>1 DEF Moving, Copied
<1> QED BY Zenon, <1>6, <1>7, <1>8, <1>10, <1>11, <1>12, <1>13 DEF Bytes, PassInv

-----------------------------------------------------------------------------
(* The theorems about Repack *)

\* Every step of the store and of the passes keeps RepackInv.
LEMMA NextRepack ==
    ASSUME RepackInv, [MaintNext]_vars
    PROVE  RepackInv'
<1>0. MaintTypes /\ Shapes /\ MaintTypes' /\ Shapes'
  BY Zenon, NextTypes DEF RepackInv
<1> SUFFICES ASSUME ~unscanned' PROVE Bytes' /\ PassInv'
  BY Zenon, <1>0 DEF RepackInv
<1>1. unscanned => unscanned'
  BY Zenon DEF MaintNext, maintWriter, maintDelete, maintCrash, maintStep, gcMark, gcRescan,
     gcSweep, gcRecheck, gcDrop, repackBegin, repackScan, repackList, repackVisit, repackCopy,
     repackPoint, repackRemove, repackEnd, passFails, auxVars, vars
<1>2. Bytes /\ PassInv
  BY Zenon, <1>1 DEF RepackInv
<1>3. ASSUME NEW w \in Writers, maintWriter(w) PROVE Bytes' /\ PassInv'
  BY Zenon, <1>0, <1>2, <1>3, WriterKeepsPass
<1>4. CASE \/ \E o \in Objects : maintDelete(o)
           \/ \E o \in Objects : WriteInlineAnnotation(o) /\ UNCHANGED <<maintVars, auxVars>>
           \/ tick /\ UNCHANGED <<maintVars, auxVars>>
           \/ UNCHANGED vars
  <2>1. UNCHANGED <<packVars, writerVars>> /\ index' = index /\ mpc' = mpc /\ rp' = rp
    BY Zenon, <1>4 DEF maintDelete, DeleteObject, WriteInlineAnnotation, tick, vars, storeVars,
       metaVars, maintVars
  <2> QED BY Zenon, <1>0, <1>2, <2>1, RowsDropped
<1>5. CASE \/ gcMark \/ gcRescan \/ gcSweep \/ gcRecheck \/ gcDrop
           \/ repackEnd \/ passFails \/ maintCrash
  BY Zenon, <1>0, <1>2, <1>5, EndOfPass
<1>6. CASE repackBegin \/ repackScan \/ repackList
  BY Zenon, <1>0, <1>2, <1>6, BeginKeeps
<1>7. CASE \/ \E p \in PackIds : repackVisit(p)
           \/ \E c \in Chunks : repackCopy(c)
           \/ repackPoint \/ repackRemove
  BY Zenon, <1>0, <1>2, <1>7, VisitKeeps, CopyKeeps, PointKeeps, RemoveKeeps
<1> QED BY Zenon, <1>3, <1>4, <1>5, <1>6, <1>7 DEF MaintNext, maintStep

\* An empty store with no pass under way has the right types, and nothing to move.
LEMMA InitRepack ==
    ASSUME MaintInit
    PROVE  RepackInv
<1> USE DEF MaintInit, Init
<1>0. None \notin Digests /\ 0 \in PackIds /\ now \in Nat
  BY ChunkStoreAssumption DEF PackIds
<1>1. TypeOK
  BY <1>0 DEF TypeOK, steps, noBatch
<1>2. MaintTypes
  BY Zenon, <1>1, NoPass DEF MaintTypes
<1>3. Shapes
  BY Zenon, <1>0 DEF Shapes, WriterShape, Digests, Objects
<1>4. PacksOK
  BY DEF PacksOK, ActivePackCached
<1>5. Bytes
  BY Zenon, <1>4 DEF Bytes, IndexDurable, BatchPlaced, noBatch
<1>6. PassInv
  BY Zenon DEF PassInv, Beyond, Sealed, Scanned, Moving, Copied, visiting
<1> QED BY Zenon, <1>2, <1>3, <1>5, <1>6 DEF RepackInv

\* Repack is safe while the store serves, for any number of packs and writers and
\* any interleaving with writes, crashes and Gc: as long as its scan saw every row
\* of the packs it visits, rows stay durable and recorded offsets right.
THEOREM RepackSafe == MaintSpec => []RepackKeepsRows
<1>1. MaintInit => RepackInv
  BY Zenon, InitRepack
<1>2. RepackInv /\ [MaintNext]_vars => RepackInv'
  BY Zenon, NextRepack
<1>3. RepackInv => RepackKeepsRows
  BY Zenon DEF RepackInv, Bytes, PacksOK, RepackKeepsRows
<1> QED BY <1>1, <1>2, <1>3, PTL DEF MaintSpec

-----------------------------------------------------------------------------
(* Gc beside the writers: the invariant *)

\* The chunks a writer has appended itself, indexed already or not.
own(w) == {c \in Chunks : batch[w][c] # None} \cup (seen[w] \ hit[w])

\* A write in flight is not old, what it stored is held for it, and the rows of
\* those chunks are not older than a write that overlaps this one.
Flight(w) == pc[w] # "idle" =>
    /\ begun[w] <= now /\ now <= begun[w] + MaxPut
    /\ tgt[w] \in Payloads => stamp[w] = begun[w]
    /\ \A c \in Chunks : batch[w][c] # None => begun[w] <= batch[w][c].at
    /\ \A c \in seen[w] \ hit[w] : IF batched(w) THEN batch[w][c] # None ELSE index[c] # None
    /\ \A c \in own(w) : index[c] # None => begun[w] <= index[c].at + MaxPut

\* The recipe of a payload whose annotation record is still to be written.
Recorded(w) == pc[w] = "record" /\ tgt[w] \notin rewritten =>
    recipe[tgt[w]] # None /\ begun[w] <= recipe[tgt[w]] + MaxPut

\* Nothing refers to the payload, and no writer is about to.
unreferenced(p) ==
    /\ \A o \in Objects : ann[o] # p
    /\ \A w \in Writers : pc[w] = "record" => tgt[w] # p

\* The orphans of the pass.
Condemned == \A p \in gc.orphans :
    /\ p \in Payloads /\ recipe[p] # None
    /\ p \in rewritten \/ unreferenced(p)

\* The dead chunks of the pass, until they are swept.
Doomed == mpc \in {"rescan", "sweep"} =>
    /\ \A c \in gc.dead : index[c] # None /\ \A w \in Writers : c \notin own(w)
    /\ \A d \in recipes : \A c \in Content[d] \ borrowed[d] : c \in gc.dead =>
          d \in gc.orphans \/ (mpc = "rescan" /\ c \in gc.live)

\* An object's recipe does not outlive its manifest.
Owned == \A d \in Objects : recipe[d] # None => d \in manifest

\* The inductive invariant of the store with its maintenance passes.
MaintInv ==
    /\ MaintTypes
    /\ Shapes
    /\ \A w \in Writers : Flight(w) /\ Recorded(w)
    /\ Condemned
    /\ Doomed
    /\ Owned
    /\ GcKeepsRecipes
    /\ OwnChunksSurvive

\* A row is rewritten by a step only with a recent stamp.
RowsFresh == \A c \in Chunks :
    index'[c] = index[c] \/ (index'[c] # None /\ now <= index'[c].at + MaxPut)

\* The history of a writer's dedup hits, as maintWriter keeps it.
HitStep(w) == hit' = [hit EXCEPT ![w] =
    IF pc'[w] = "idle" THEN {}
    ELSE @ \cup {c \in seen'[w] \ seen[w] : batch[w][c] = None /\ batch'[w][c] = None}]

\* A writer that does not move keeps what it holds while the rows of its own
\* chunks are left alone or made younger.
LEMMA FlightKept ==
    ASSUME MaintTypes, TypeOK', NEW u \in Writers, Flight(u), Still(u), hit'[u] = hit[u],
           now' = now,
           \A c \in own(u) : index'[c] = index[c] \/ (index'[c] # None /\ now <= index'[c].at + MaxPut)
    PROVE  Flight(u)' /\ own(u)' = own(u)
<1>1. /\ pc'[u] = pc[u] /\ tgt'[u] = tgt[u] /\ seen'[u] = seen[u] /\ batch'[u] = batch[u]
      /\ stamp'[u] = stamp[u] /\ begun'[u] = begun[u]
  BY Zenon DEF Still, Same
<1>2. own(u)' = own(u)
  BY Zenon, <1>1 DEF own
<1>3. batched(u)' = batched(u)
  BY Zenon, <1>1 DEF batched
<1>4. ASSUME pc[u] # "idle" PROVE Flight(u)'
  <2>1. begun[u] \in Nat /\ now \in Nat /\ begun[u] <= now /\ MaxPut \in Nat
    BY Zenon, <1>4, ChunkStoreAssumption DEF Flight, MaintTypes, TypeOK
  <2>2. own(u) \subseteq Chunks /\ seen[u] \ hit[u] \subseteq own(u)
    BY Zenon DEF own, MaintTypes, TypeOK
  <2>3. \A c \in own(u) : index'[c] # None => begun[u] <= index'[c].at + MaxPut
    <3> SUFFICES ASSUME NEW c \in own(u), index'[c] # None
                 PROVE  begun[u] <= index'[c].at + MaxPut
      BY Zenon
    <3>1. index'[c] \in chunkIndexEntry
      BY Zenon, <2>2 DEF TypeOK
    <3>2. index'[c].at \in Nat
      BY Zenon, <3>1 DEF chunkIndexEntry
    <3> QED BY <1>4, <2>1, <3>2 DEF Flight
  <2>4. \A c \in seen[u] \ hit[u] : IF batched(u) THEN batch[u][c] # None ELSE index'[c] # None
    BY Zenon, <1>4, <2>2 DEF Flight
  <2> QED BY Zenon, <1>1, <1>2, <1>3, <1>4, <2>3, <2>4 DEF Flight
<1> QED BY Zenon, <1>1, <1>2, <1>4 DEF Flight

\* A writer's step writes only rows for what it has just appended.
LEMMA WriterRows ==
    ASSUME MaintTypes, Shapes, TypeOK', NEW w \in Writers, Flight(w), writerStep(w)
    PROVE  RowsFresh
<1>1. now \in Nat /\ MaxPut \in Nat
  BY Zenon, ChunkStoreAssumption DEF MaintTypes, TypeOK
<1>2. CASE storeChunkIndexed(w)
  <2> SUFFICES ASSUME NEW c \in Chunks, batch[w][c] # None
               PROVE  index'[c] # None /\ now <= index'[c].at + MaxPut
    BY Zenon, <1>2 DEF storeChunkIndexed, RowsFresh
  <2>1. batch[w][c] \in chunkIndexEntry /\ index'[c] = [batch[w][c] EXCEPT !.at = now]
    BY <1>2 DEF storeChunkIndexed, MaintTypes, TypeOK
  <2>2. index'[c] \in chunkIndexEntry /\ index'[c].at = now
    BY Zenon, <1>1, <2>1 DEF chunkIndexEntry
  <2> QED BY <1>1, <2>2, NoneAssumption
<1>3. CASE commit(w)
  <2> SUFFICES ASSUME NEW c \in Chunks, batch[w][c] # None
               PROVE  index'[c] # None /\ now <= index'[c].at + MaxPut
    BY Zenon, <1>3 DEF commit, RowsFresh
  <2>1. batch[w][c] \in chunkIndexEntry /\ index'[c] = batch[w][c] /\ begun[w] \in Nat
    BY Zenon, <1>3 DEF commit, MaintTypes, TypeOK
  <2>2. batch[w][c].at \in Nat
    BY Zenon, <2>1 DEF chunkIndexEntry
  <2>3. begun[w] <= batch[w][c].at /\ now <= begun[w] + MaxPut
    BY Zenon, <1>3 DEF commit, Flight
  <2> QED BY <1>1, <2>1, <2>2, <2>3
<1>4. CASE ~storeChunkIndexed(w) /\ ~commit(w)
  <2>1. index' = index
    BY Zenon, <1>4 DEF writerStep, Put, PutCompound, WriteAnnotation, start, dedupHit, storeChunkBatched,
                storeChunk, storeChunkFailed, appendFails, sealRecipe, commitSync, putRecipe,
                putAnnotation, abort, metaVars
  <2> QED BY Zenon, <2>1 DEF RowsFresh
<1> QED BY Zenon, <1>2, <1>3, <1>4

\* The writer itself: what it stores from now on is its own, and the row of a
\* chunk it stores was missing.
LEMMA WriterFlight ==
    ASSUME MaintTypes, Shapes, TypeOK', NEW w \in Writers, Flight(w), writerStep(w), HitStep(w)
    PROVE  /\ Flight(w)'
           /\ \A c \in own(w)' : c \in own(w) \/ index[c] = None
<1> DEFINE Goal == Flight(w)' /\ \A c \in own(w)' : c \in own(w) \/ index[c] = None
<1>0. /\ now \in Nat /\ MaxPut \in Nat /\ begun[w] \in Nat
      /\ batch \in [Writers -> [Chunks -> chunkIndexEntry \cup {None}]]
      /\ seen \in [Writers -> SUBSET Chunks] /\ hit[w] \subseteq Chunks
      /\ hit \in [Writers -> SUBSET Chunks]
      /\ WriterShape(w)
  BY Zenon, ChunkStoreAssumption DEF MaintTypes, TypeOK, Shapes
<1>1. ASSUME pc'[w] = "idle" PROVE Goal
  <2>1. batch'[w] = noBatch /\ seen'[w] = {}
    BY Zenon, <1>1, ShapeStep DEF MaintTypes, Shapes, WriterShape
  <2>2. own(w)' = {}
    BY Zenon, <2>1 DEF own, noBatch
  <2> QED BY Zenon, <1>1, <2>2 DEF Flight
<1>2. ASSUME NEW o, NEW d, NEW at, NEW step, start(w, o, d, at, step),
             d \in Payloads => at = now
      PROVE  Goal
  <2>1. batch'[w] = noBatch /\ seen'[w] = {} /\ begun'[w] = now /\ now' = now
        /\ tgt'[w] = d /\ stamp'[w] = at
    BY ZenonT(30), <1>2, <1>0 DEF start, WriterShape, MaintTypes, TypeOK
  <2>2. own(w)' = {} /\ \A c \in Chunks : batch'[w][c] = None
    BY Zenon, <2>1 DEF own, noBatch
  <2>3. begun'[w] <= now' /\ now' <= begun'[w] + MaxPut
    BY <1>0, <2>1
  <2>4. tgt'[w] \in Payloads => stamp'[w] = begun'[w]
    BY Zenon, <1>2, <2>1
  <2> QED BY Zenon, <2>1, <2>2, <2>3, <2>4 DEF Flight
<1>3. ASSUME NEW d \in Files, Put(w, d) PROVE Goal
  BY Zenon, <1>3, <1>2, ChunkStoreAssumption DEF Put, Objects
<1>4. ASSUME NEW d \in Compounds, PutCompound(w, d) PROVE Goal
  BY Zenon, <1>4, <1>2, ChunkStoreAssumption DEF PutCompound, Objects
<1>5. ASSUME NEW o \in Objects, NEW p \in Payloads, WriteAnnotation(w, o, p) PROVE Goal
  BY Zenon, <1>5, <1>2 DEF WriteAnnotation
<1>h. pc'[w] # "idle" => hit'[w] = hit[w] \cup
          {x \in seen'[w] \ seen[w] : batch[w][x] = None /\ batch'[w][x] = None}
  BY Zenon, <1>0 DEF HitStep
<1>6. ASSUME NEW c \in Chunks, dedupHit(w, c) PROVE Goal
  <2>1. /\ pc[w] = "chunks" /\ pc'[w] = "chunks" /\ seen'[w] = seen[w] \cup {c}
        /\ c \notin seen[w]
        /\ UNCHANGED <<now, index, tgt, batch, stamp, begun>>
    BY Zenon, <1>0, <1>6 DEF dedupHit, missing, metaVars
  <2>2. \A x \in seen'[w] \ hit'[w] : x \in seen[w] \ hit[w] \/ batch[w][x] # None
    BY Zenon, <1>h, <2>1
  <2>3. own(w)' \subseteq own(w)
    BY Zenon, <1>0, <2>1, <2>2 DEF own
  <2>4. tgt[w] \notin Objects => batch[w] = noBatch
    BY Zenon, <1>0, <2>1 DEF WriterShape, Digests
  <2>5. \A x \in seen'[w] \ hit'[w] : IF batched(w) THEN batch[w][x] # None ELSE index[x] # None
    <3> SUFFICES ASSUME NEW x \in seen'[w] \ hit'[w]
                 PROVE  IF batched(w) THEN batch[w][x] # None ELSE index[x] # None
      OBVIOUS
    <3>1. x \in Chunks
      BY Zenon, <1>0, <2>1
    <3>2. CASE x \in seen[w] \ hit[w]
      BY Zenon, <2>1, <3>2 DEF Flight
    <3>3. CASE batch[w][x] # None
      BY Zenon, <2>4, <3>1, <3>3 DEF noBatch, batched
    <3> QED BY Zenon, <2>2, <3>2, <3>3
  <2> QED BY Zenon, <2>1, <2>3, <2>5 DEF Flight, batched
<1>7. ASSUME NEW c \in Chunks, storeChunkBatched(w, c) \/ storeChunk(w, c) PROVE Goal
  <2> DEFINE e == [pack |-> nextSlot.id, off |-> nextSlot.size, at |-> now]
  <2>1. /\ pc[w] = "chunks" /\ pc'[w] # "idle" /\ index[c] = None
        /\ batch' = [batch EXCEPT ![w][c] = e] /\ e \in chunkIndexEntry
        /\ UNCHANGED <<now, index, tgt, stamp, begun>>
        /\ \/ seen'[w] = seen[w]
           \/ seen'[w] = seen[w] \cup {c} /\ tgt[w] \in Objects
    <3>1. e \in chunkIndexEntry
      BY Zenon, <1>7, SlotEntry DEF storeChunkBatched, storeChunk, appendToActivePackNoSync, MaintTypes
    <3>2. pc'[w] # "idle"
      BY Zenon, <1>7 DEF storeChunkBatched, storeChunk, MaintTypes, TypeOK
    <3> QED BY Zenon, <1>0, <1>7, <3>1, <3>2 DEF storeChunkBatched, storeChunk, metaVars, batched
  <2>2. e.at = now /\ e # None
    BY Zenon, <2>1, NoneAssumption
  <2> HIDE DEF e
  <2>3. batch'[w][c] = e /\ \A x \in Chunks \ {c} : batch'[w][x] = batch[w][x]
    BY Zenon, <1>0, <2>1
  <2>4. hit'[w] = hit[w]
    BY Zenon, <1>h, <2>1, <2>2, <2>3
  <2>5. own(w)' \subseteq own(w) \cup {c}
    BY Zenon, <1>0, <2>1, <2>3, <2>4 DEF own
  <2>6. \A x \in Chunks : batch'[w][x] # None => begun[w] <= batch'[w][x].at
    BY Zenon, <1>0, <2>1, <2>2, <2>3 DEF Flight
  <2>7. \A x \in seen'[w] \ hit'[w] : IF batched(w) THEN batch'[w][x] # None ELSE index[x] # None
    <3> SUFFICES ASSUME NEW x \in seen'[w] \ hit'[w]
                 PROVE  IF batched(w) THEN batch'[w][x] # None ELSE index[x] # None
      OBVIOUS
    <3>1. CASE x \in seen[w]
      <4>1. IF batched(w) THEN batch[w][x] # None ELSE index[x] # None
        BY Zenon, <2>1, <2>4, <3>1 DEF Flight
      <4> QED BY Zenon, <1>0, <2>2, <2>3, <3>1, <4>1
    <3>2. CASE x \notin seen[w]
      BY Zenon, <2>1, <2>2, <2>3, <3>2 DEF batched
    <3> QED BY Zenon, <3>1, <3>2
  <2>8. \A x \in own(w)' : index[x] # None => begun[w] <= index[x].at + MaxPut
    BY Zenon, <2>1, <2>5 DEF Flight
  <2> QED BY Zenon, <2>1, <2>5, <2>6, <2>7, <2>8 DEF Flight, batched
<1>8. CASE storeChunkIndexed(w)
  <2> DEFINE B == {c \in Chunks : batch[w][c] # None}
  <2>1. /\ pc[w] = "appended" /\ pc'[w] = "chunks" /\ seen'[w] = seen[w] \cup B
        /\ batch'[w] = noBatch /\ UNCHANGED <<now, tgt, stamp, begun>>
    BY ZenonT(30), <1>0, <1>8 DEF storeChunkIndexed, MaintTypes, TypeOK
  <2>2. hit'[w] = hit[w]
    BY Zenon, <1>h, <2>1
  <2>3. own(w)' \subseteq own(w) /\ own(w)' \subseteq Chunks /\ seen'[w] \ hit'[w] = own(w)'
    BY Zenon, <1>0, <2>1, <2>2 DEF own, noBatch
  <2>4. RowsFresh
    BY Zenon, WriterRows
  <2>5. tgt[w] \notin Objects
    BY Zenon, <1>0, <2>1, ChunkStoreAssumption DEF WriterShape
  <2>6. ASSUME NEW x \in own(w)' PROVE index'[x] # None /\ begun[w] <= index'[x].at + MaxPut
    <3>1. x \in Chunks /\ x \in own(w)
      BY Zenon, <2>3
    <3>2. CASE batch[w][x] # None
      <4>1. batch[w][x] \in chunkIndexEntry /\ index'[x] = [batch[w][x] EXCEPT !.at = now]
        BY Zenon, <1>0, <1>8, <3>1, <3>2 DEF storeChunkIndexed
      <4>2. index'[x] \in chunkIndexEntry /\ index'[x].at = now
        BY Zenon, <1>0, <4>1 DEF chunkIndexEntry
      <4>3. begun[w] <= now
        BY Zenon, <2>1 DEF Flight
      <4> QED BY <1>0, <4>2, <4>3, NoneAssumption
    <3>3. CASE batch[w][x] = None
      <4>1. index'[x] = index[x] /\ x \in seen[w] \ hit[w]
        BY Zenon, <1>8, <3>1, <3>3 DEF storeChunkIndexed, own
      <4> QED BY Zenon, <2>1, <2>5, <3>1, <4>1 DEF Flight, batched
    <3> QED BY Zenon, <3>2, <3>3
  <2>7. \A x \in Chunks : batch'[w][x] = None
    BY Zenon, <2>1 DEF noBatch
  <2>8. begun'[w] = begun[w] /\ ~batched(w)'
    BY Zenon, <2>1, <2>5 DEF batched
  <2> QED BY Zenon, <2>1, <2>3, <2>6, <2>7, <2>8 DEF Flight
<1>9. CASE sealRecipe(w) \/ commitSync(w) \/ putRecipe(w)
  <2>1. /\ pc[w] # "idle" /\ pc'[w] # "idle"
        /\ UNCHANGED <<now, index, seen, tgt, batch, begun>>
        /\ stamp'[w] = stamp[w] \/ tgt[w] \notin Payloads
    <3>1. pc[w] # "idle" /\ pc'[w] # "idle"
      BY Zenon, <1>9 DEF sealRecipe, commitSync, putRecipe, MaintTypes, TypeOK
    <3>2. stamp' = stamp \/ tgt[w] \notin Payloads
      BY Zenon, <1>9, ChunkStoreAssumption DEF sealRecipe, commitSync, putRecipe, batched
    <3> QED BY Zenon, <1>9, <3>1, <3>2 DEF sealRecipe, commitSync, putRecipe, metaVars
  <2>2. hit'[w] = hit[w]
    BY Zenon, <1>h, <2>1
  <2>3. own(w)' = own(w)
    BY Zenon, <2>1, <2>2 DEF own
  <2> QED BY Zenon, <2>1, <2>2, <2>3 DEF Flight, batched
<1>10. CASE storeChunkFailed(w) \/ appendFails(w) \/ commit(w) \/ putAnnotation(w) \/ abort(w)
  <2>1. finish(w)
    BY Zenon, <1>10 DEF storeChunkFailed, appendFails, commit, putAnnotation, abort
  <2> QED BY Zenon, <2>1, <1>1, FinishShape DEF MaintTypes
<1> QED BY Zenon, <1>3, <1>4, <1>5, <1>6, <1>7, <1>8, <1>9, <1>10 DEF writerStep

-----------------------------------------------------------------------------
(* A step of a writer keeps the invariant of Gc *)

\* What of the committed rows a step of a writer leaves alone.
LEMMA WriterFrame ==
    ASSUME TypeOK, NEW w \in Writers, writerStep(w)
    PROVE  /\ now' = now
           /\ ~commit(w) => manifest' = manifest
           /\ ~commit(w) /\ ~putRecipe(w) => recipe' = recipe
           /\ ~putAnnotation(w) => ann' = ann
           /\ pc'[w] = "record" => putRecipe(w)
<1> USE DEF metaVars
<1>1. ASSUME NEW o, NEW d, NEW at, NEW step \in {"chunks", "commit"}, start(w, o, d, at, step)
      PROVE  UNCHANGED <<now, manifest, recipe, ann>> /\ pc'[w] # "record"
  BY Zenon, <1>1 DEF start, TypeOK
<1>2. ASSUME finish(w) PROVE pc'[w] # "record"
  BY Zenon, <1>2 DEF finish, TypeOK
<1>3. CASE \/ \E d \in Files : Put(w, d)
           \/ \E d \in Compounds : PutCompound(w, d)
           \/ \E o \in Objects, p \in Payloads : WriteAnnotation(w, o, p)
  <2>1. ASSUME NEW d \in Files, Put(w, d)
        PROVE  UNCHANGED <<now, manifest, recipe, ann>> /\ pc'[w] # "record"
    BY Zenon, <1>1, <2>1 DEF Put
  <2>2. ASSUME NEW d \in Compounds, PutCompound(w, d)
        PROVE  UNCHANGED <<now, manifest, recipe, ann>> /\ pc'[w] # "record"
    BY Zenon, <1>1, <2>2 DEF PutCompound
  <2>3. ASSUME NEW o \in Objects, NEW p \in Payloads, WriteAnnotation(w, o, p)
        PROVE  UNCHANGED <<now, manifest, recipe, ann>> /\ pc'[w] # "record"
    BY Zenon, <1>1, <2>3 DEF WriteAnnotation
  <2> QED BY Zenon, <1>3, <2>1, <2>2, <2>3
<1>4. CASE \E c \in Chunks : dedupHit(w, c) \/ storeChunkBatched(w, c) \/ storeChunk(w, c)
  BY Zenon, <1>4 DEF dedupHit, storeChunkBatched, storeChunk, TypeOK
<1>5. CASE storeChunkIndexed(w) \/ sealRecipe(w) \/ commitSync(w)
  BY Zenon, <1>5 DEF storeChunkIndexed, sealRecipe, commitSync, TypeOK
<1>6. CASE storeChunkFailed(w) \/ appendFails(w) \/ abort(w) \/ commit(w) \/ putAnnotation(w)
  BY Zenon, <1>2, <1>6 DEF storeChunkFailed, appendFails, abort, commit, putAnnotation
<1>7. CASE putRecipe(w)
  BY Zenon, <1>7 DEF putRecipe
<1> QED BY Zenon, <1>3, <1>4, <1>5, <1>6, <1>7 DEF writerStep

\* The chunks that are a recipe's own after the step of a writer were so before,
\* or the writer stored them itself and they are committed by now.
LEMMA RecipeOwn ==
    ASSUME MaintTypes, Shapes, TypeOK', NEW w \in Writers, Flight(w), maintWriter(w),
           NEW d \in Digests, recipe'[d] # None, NEW c \in Content[d] \ borrowed'[d]
    PROVE  \/ c \in own(w) /\ index'[c] # None
           \/ d \in recipes /\ c \notin borrowed[d]
<1> DEFINE writes == (pc[w] = "synced" /\ commit(w) /\ stamp[w] # None) \/ putRecipe(w)
<1>1. borrowed'[d] = IF d = tgt[w] /\ writes
                     THEN IF recipe[d] = None THEN hit[w] ELSE borrowed[d] \cap hit[w]
                     ELSE borrowed[d]
  BY Zenon DEF maintWriter
<1>2. c \in Chunks /\ WriterShape(w) /\ recipe \in [Digests -> Nat \cup {None}]
  BY Zenon, ChunkStoreAssumption DEF Shapes, MaintTypes, TypeOK
<1>3. CASE ~(d = tgt[w] /\ writes)
  <2>1. writerStep(w)
    BY Zenon DEF maintWriter
  <2>2. recipe'[d] = recipe[d]
    <3>1. CASE commit(w)
      BY Zenon, <1>2, <1>3, <3>1 DEF commit
    <3>2. CASE putRecipe(w)
      BY Zenon, <1>2, <1>3, <3>2 DEF putRecipe
    <3>3. CASE ~commit(w) /\ ~putRecipe(w)
      BY Zenon, <2>1, <3>3, WriterFrame DEF MaintTypes
    <3> QED BY Zenon, <3>1, <3>2, <3>3
  <2> QED BY Zenon, <1>1, <1>3, <2>2 DEF recipes
<1>4. CASE d = tgt[w] /\ writes
  <2>1. c \notin hit[w] \/ (recipe[d] # None /\ c \notin borrowed[d])
    BY Zenon, <1>1, <1>4
  <2>2. ASSUME c \notin hit[w] PROVE c \in own(w) /\ index'[c] # None
    <3>1. CASE commit(w) /\ stamp[w] # None
      <4>1. pc[w] = "synced" /\ tgt[w] \in Objects /\ Content[tgt[w]] \subseteq seen[w]
        BY Zenon, <1>2, <3>1 DEF commit, WriterShape
      <4>2. c \in seen[w] \ hit[w]
        BY Zenon, <1>4, <2>2, <4>1
      <4>3. batch[w][c] # None
        BY Zenon, <4>1, <4>2 DEF Flight, batched
      <4> QED BY Zenon, <1>2, <3>1, <4>2, <4>3 DEF commit, own
    <3>2. CASE putRecipe(w)
      <4>1. pc[w] = "chunks" /\ tgt[w] \notin Objects /\ Content[tgt[w]] \subseteq seen[w]
            /\ index' = index
        BY Zenon, <3>2 DEF putRecipe, batched, missing
      <4>2. c \in seen[w] \ hit[w]
        BY Zenon, <1>4, <2>2, <4>1
      <4>3. index[c] # None
        BY Zenon, <4>1, <4>2 DEF Flight, batched
      <4> QED BY Zenon, <4>1, <4>2, <4>3 DEF own
    <3> QED BY Zenon, <1>4, <3>1, <3>2
  <2> QED BY Zenon, <2>1, <2>2 DEF recipes
<1> QED BY Zenon, <1>3, <1>4

\* A step of a writer keeps the invariant about chunks.
LEMMA WriterChunks ==
    ASSUME MaintInv, TypeOK', NEW w \in Writers, maintWriter(w)
    PROVE  (\A u \in Writers : Flight(u)') /\ Doomed' /\ OwnChunksSurvive'
<1>1. /\ MaintTypes /\ Shapes /\ TypeOK /\ \A u \in Writers : Flight(u)
      /\ Doomed /\ OwnChunksSurvive
  BY Zenon DEF MaintInv, MaintTypes
<1>2. writerStep(w) /\ HitStep(w) /\ mpc' = mpc /\ gc' = gc
  BY Zenon DEF maintWriter, HitStep, maintVars
<1>3. RowsFresh /\ now' = now /\ \A u \in Writers \ {w} : Still(u)
  BY Zenon, <1>1, <1>2, WriterRows, WriterFrame, ShapeStep
<1>4. Flight(w)' /\ \A c \in own(w)' : c \in own(w) \/ index[c] = None
  BY Zenon, <1>1, <1>2, WriterFlight
<1>5. ASSUME NEW u \in Writers \ {w} PROVE Flight(u)' /\ own(u)' = own(u)
  <2>1. hit'[u] = hit[u] /\ own(u) \subseteq Chunks
    BY Zenon, <1>1, <1>2 DEF HitStep, MaintTypes, own, TypeOK
  <2> QED BY Zenon, <1>1, <1>3, <2>1, FlightKept DEF RowsFresh
<1>6. \A c \in Chunks : index[c] # None => index'[c] # None
  BY Zenon, <1>3 DEF RowsFresh
<1>7. ASSUME NEW d \in Digests, recipe'[d] # None, NEW c \in Content[d] \ borrowed'[d]
      PROVE  \/ c \in own(w) /\ index'[c] # None
             \/ d \in recipes /\ c \notin borrowed[d]
  BY Zenon, <1>1, <1>7, RecipeOwn
<1>8. \A d \in Digests : Content[d] \subseteq Chunks
  BY Zenon, ChunkStoreAssumption
<1>9. OwnChunksSurvive'
  <2> SUFFICES ASSUME NEW d \in Digests, recipe'[d] # None, NEW c \in Content[d] \ borrowed'[d]
               PROVE  index'[c] # None
    BY Zenon DEF OwnChunksSurvive, recipes
  <2>1. CASE c \in own(w) /\ index'[c] # None
    BY Zenon, <2>1
  <2>2. CASE d \in recipes /\ c \notin borrowed[d]
    BY Zenon, <1>1, <1>6, <1>8, <2>2 DEF OwnChunksSurvive
  <2> QED BY Zenon, <1>7, <2>1, <2>2
<1>10. ASSUME mpc \in {"rescan", "sweep"} PROVE Doomed'
  <2>1. ASSUME NEW c \in gc.dead PROVE index'[c] # None /\ \A u \in Writers : c \notin own(u)'
    <3>1. index[c] # None /\ (\A u \in Writers : c \notin own(u)) /\ c \in Chunks
      BY Zenon, <1>1, <1>10 DEF Doomed, MaintTypes, gcTypes
    <3> QED BY Zenon, <1>4, <1>5, <1>6, <3>1
  <2>2. ASSUME NEW d \in Digests, recipe'[d] # None, NEW c \in Content[d] \ borrowed'[d],
               c \in gc.dead
        PROVE  d \in gc.orphans \/ (mpc = "rescan" /\ c \in gc.live)
    <3>1. c \notin own(w)
      BY Zenon, <1>1, <1>10, <2>2 DEF Doomed
    <3>2. d \in recipes /\ c \notin borrowed[d]
      BY Zenon, <1>7, <2>2, <3>1
    <3> QED BY Zenon, <1>1, <1>10, <2>2, <3>2 DEF Doomed
  <2> QED BY Zenon, <1>2, <2>1, <2>2 DEF Doomed, recipes
<1>11. Doomed'
  BY Zenon, <1>2, <1>10 DEF Doomed
<1> QED BY Zenon, <1>4, <1>5, <1>9, <1>11

\* A step of a writer keeps the invariant about recipes.  A payload recipe that is
\* written again gets the stamp of a write in flight, which is as young as any
\* other write in flight needs it; one of the orphans is remembered as rewritten.
LEMMA WriterRecipes ==
    ASSUME MaintInv, TypeOK', NEW w \in Writers, maintWriter(w)
    PROVE  (\A u \in Writers : Recorded(u)') /\ Condemned' /\ Owned' /\ GcKeepsRecipes'
<1>0. /\ MaintTypes /\ TypeOK /\ WriterShape(w) /\ \A u \in Writers : WriterShape(u)
      /\ \A u \in Writers : Flight(u) /\ Recorded(u)
      /\ Condemned /\ Owned /\ GcKeepsRecipes
      /\ now \in Nat /\ MaxPut \in Nat /\ begun \in [Writers -> Nat] /\ None \notin Nat
      /\ recipe \in [Digests -> Nat \cup {None}] /\ ann \in [Objects -> Payloads \cup {None}]
      /\ Objects \cap Payloads = {} /\ None \notin Payloads
  BY Zenon, ChunkStoreAssumption DEF MaintInv, MaintTypes, Shapes, TypeOK, Digests
<1>1. /\ writerStep(w) /\ gc' = gc
      /\ rewritten' = IF ~putRecipe(w) THEN rewritten
                      ELSE IF tgt[w] \in gc.orphans THEN rewritten \cup {tgt[w]}
                      ELSE rewritten \ {tgt[w]}
  BY Zenon DEF maintWriter, maintVars
<1>2. /\ \A u \in Writers \ {w} : pc'[u] = pc[u] /\ tgt'[u] = tgt[u] /\ begun'[u] = begun[u]
      /\ now' = now
      /\ ~commit(w) => manifest' = manifest
      /\ ~commit(w) /\ ~putRecipe(w) => recipe' = recipe
      /\ ~putAnnotation(w) => ann' = ann
      /\ pc'[w] = "record" => putRecipe(w)
  BY Zenon, <1>0, <1>1, WriterFrame, ShapeStep DEF Shapes, Still, Same
<1>3. CASE putRecipe(w)
  <2> DEFINE p == tgt[w]
  <2>1. /\ pc[w] = "chunks" /\ p \notin Objects /\ pc'[w] = "record" /\ tgt' = tgt /\ begun' = begun
        /\ UNCHANGED <<manifest, ann>>
        /\ recipe' = [recipe EXCEPT ![p] = stamp[w]]
    BY Zenon, <1>0, <1>3 DEF putRecipe, batched, TypeOK
  <2>2. p \in Payloads /\ p \in Digests
    BY Zenon, <1>0, <2>1 DEF WriterShape, Digests
  <2>3. stamp[w] = begun[w] /\ begun[w] \in Nat /\ begun[w] <= now /\ now <= begun[w] + MaxPut
    BY Zenon, <1>0, <2>1, <2>2 DEF Flight
  <2>4. recipe'[p] = begun[w] /\ \A d \in Digests \ {p} : recipe'[d] = recipe[d]
    BY Zenon, <1>0, <2>1, <2>2, <2>3
  <2>5. p \in gc.orphans => p \in rewritten'
    BY Zenon, <1>1, <1>3
  <2>6. \A x : x # p => (x \in rewritten' <=> x \in rewritten)
    BY Zenon, <1>1, <1>3
  <2> HIDE DEF p
  <2>7. ASSUME NEW u \in Writers PROVE Recorded(u)'
    <3> SUFFICES ASSUME pc'[u] = "record", tgt'[u] \notin rewritten'
                 PROVE  recipe'[tgt'[u]] # None /\ begun'[u] <= recipe'[tgt'[u]] + MaxPut
      BY Zenon DEF Recorded
    <3>1. CASE tgt[u] = p
      <4>1. begun[u] \in Nat /\ begun[u] <= now
        <5>1. u # w => pc[u] # "idle"
          BY Zenon, <1>2
        <5> QED BY Zenon, <1>0, <2>3, <5>1 DEF Flight
      <4> QED BY <1>0, <2>1, <2>3, <2>4, <3>1, <4>1
    <3>2. CASE tgt[u] # p
      <4>1. u # w /\ pc[u] = "record" /\ tgt[u] \notin rewritten
        BY Zenon, <1>2, <2>1, <2>6, <3>2 DEF p
      <4>2. tgt[u] \in Digests
        BY Zenon, <1>0, <4>1 DEF WriterShape
      <4> QED BY Zenon, <1>0, <2>1, <2>4, <3>2, <4>1, <4>2 DEF Recorded
    <3> QED BY Zenon, <3>1, <3>2
  <2>8. Condemned'
    <3> SUFFICES ASSUME NEW x \in gc.orphans
                 PROVE  x \in Payloads /\ recipe'[x] # None /\ (x \in rewritten' \/ unreferenced(x)')
      BY Zenon, <1>1 DEF Condemned
    <3>1. x \in Payloads /\ recipe[x] # None /\ (x \in rewritten \/ unreferenced(x)) /\ x \in Digests
      BY Zenon, <1>0 DEF Condemned, Digests
    <3>2. CASE x = p
      BY Zenon, <1>0, <2>3, <2>4, <2>5, <3>1, <3>2
    <3>3. CASE x # p
      <4>1. unreferenced(x) => unreferenced(x)'
        BY Zenon, <1>2, <2>1, <3>3 DEF unreferenced, p
      <4> QED BY Zenon, <2>4, <2>6, <3>1, <3>3, <4>1
    <3> QED BY Zenon, <3>2, <3>3
  <2>9. Owned'
    BY Zenon, <1>0, <2>1, <2>2, <2>4 DEF Owned, Digests
  <2>10. GcKeepsRecipes'
    <3>1. \A d \in Files \cap manifest' : recipe'[d] # None
      BY Zenon, <1>0, <2>1, <2>2, <2>4 DEF GcKeepsRecipes, Objects, Digests
    <3>2. ASSUME NEW o \in Objects, ann[o] # None, ann[o] \notin rewritten' PROVE recipe'[ann[o]] # None
      BY Zenon, <1>0, <2>3, <2>4, <2>6, <3>2 DEF GcKeepsRecipes, Digests
    <3> QED BY Zenon, <2>1, <3>1, <3>2 DEF GcKeepsRecipes
  <2> QED BY Zenon, <2>7, <2>8, <2>9, <2>10
<1>4. CASE ~putRecipe(w)
  <2>1. rewritten' = rewritten /\ pc'[w] # "record"
    BY Zenon, <1>1, <1>2, <1>4
  <2>2. /\ \A d \in Payloads : recipe'[d] = recipe[d]
        /\ Owned' /\ \A d \in Files \cap manifest' : recipe'[d] # None
    <3>1. CASE commit(w)
      <4>1. /\ pc[w] = "synced" /\ tgt[w] \in Objects /\ obj[w] = tgt[w]
            /\ tgt[w] \in Files => stamp[w] # None
            /\ manifest' = manifest \cup {obj[w]}
            /\ recipe' = [recipe EXCEPT ![tgt[w]] = IF stamp[w] # None THEN stamp[w] ELSE @]
        BY Zenon, <1>0, <3>1 DEF commit, WriterShape
      <4>2. /\ \A d \in Digests \ {tgt[w]} : recipe'[d] = recipe[d]
            /\ tgt[w] \in Files => recipe'[tgt[w]] # None
        BY Zenon, <1>0, <4>1 DEF Digests
      <4> QED BY Zenon, <1>0, <4>1, <4>2 DEF Owned, GcKeepsRecipes, Digests, Objects
    <3>2. CASE ~commit(w)
      BY Zenon, <1>0, <1>2, <1>4, <3>2 DEF Owned, GcKeepsRecipes
    <3> QED BY Zenon, <3>1, <3>2
  <2>3. ASSUME NEW u \in Writers PROVE Recorded(u)'
    <3> SUFFICES ASSUME pc'[u] = "record", tgt'[u] \notin rewritten'
                 PROVE  recipe'[tgt'[u]] # None /\ begun'[u] <= recipe'[tgt'[u]] + MaxPut
      BY Zenon DEF Recorded
    <3>1. u # w /\ pc[u] = "record" /\ tgt'[u] = tgt[u] /\ begun'[u] = begun[u]
      BY Zenon, <1>2, <2>1
    <3>2. tgt[u] \in Payloads
      BY Zenon, <1>0, <3>1 DEF WriterShape
    <3> QED BY Zenon, <1>0, <2>1, <2>2, <3>1, <3>2 DEF Recorded
  <2>4. \A o \in Objects : ann'[o] = ann[o] \/ (pc[w] = "record" /\ ann'[o] = tgt[w])
    <3>1. CASE putAnnotation(w)
      BY Zenon, <1>0, <3>1 DEF putAnnotation
    <3> QED BY Zenon, <1>2, <3>1
  <2>5. Condemned'
    <3> SUFFICES ASSUME NEW x \in gc.orphans
                 PROVE  x \in Payloads /\ recipe'[x] # None /\ (x \in rewritten' \/ unreferenced(x)')
      BY Zenon, <1>1 DEF Condemned
    <3>1. x \in Payloads /\ recipe[x] # None /\ (x \in rewritten \/ unreferenced(x))
      BY Zenon, <1>0 DEF Condemned
    <3>2. unreferenced(x) => unreferenced(x)'
      BY Zenon, <1>2, <2>1, <2>4 DEF unreferenced
    <3> QED BY Zenon, <2>1, <2>2, <3>1, <3>2
  <2>6. ASSUME NEW o \in Objects, ann'[o] # None, ann'[o] \notin rewritten
        PROVE  recipe'[ann'[o]] # None
    <3>1. CASE ann'[o] = ann[o]
      BY Zenon, <1>0, <2>2, <2>6, <3>1 DEF GcKeepsRecipes
    <3>2. CASE pc[w] = "record" /\ ann'[o] = tgt[w]
      <4>1. tgt[w] \in Payloads /\ recipe[tgt[w]] # None
        BY Zenon, <1>0, <2>6, <3>2 DEF WriterShape, Recorded
      <4> QED BY Zenon, <2>2, <3>2, <4>1
    <3> QED BY Zenon, <2>4, <3>1, <3>2
  <2> QED BY Zenon, <2>1, <2>2, <2>3, <2>5, <2>6 DEF GcKeepsRecipes
<1> QED BY Zenon, <1>3, <1>4

-----------------------------------------------------------------------------
(* Deletes, crashes and the clock *)

\* A step that leaves the writers alone keeps what they hold while the rows of
\* their own chunks are left alone or made younger.
LEMMA WritersKept ==
    ASSUME MaintInv, TypeOK', UNCHANGED <<now, writerVars, hit>>,
           \A u \in Writers : \A c \in own(u) :
               index'[c] = index[c] \/ (index'[c] # None /\ now <= index'[c].at + MaxPut)
    PROVE  Shapes' /\ \A u \in Writers : Flight(u)' /\ own(u)' = own(u)
<1>1. UNCHANGED <<pc, obj, tgt, seen, batch, stamp, begun>> /\ now' = now /\ hit' = hit
  BY Zenon DEF writerVars
<1>2. Shapes'
  BY Zenon, <1>1 DEF MaintInv, Shapes, WriterShape
<1>3. ASSUME NEW u \in Writers PROVE Flight(u)' /\ own(u)' = own(u)
  <2>1. Still(u) /\ hit'[u] = hit[u] /\ Flight(u) /\ MaintTypes
    BY Zenon, <1>1 DEF Still, Same, MaintInv
  <2> QED BY Zenon, <1>1, <2>1, FlightKept
<1> QED BY Zenon, <1>2, <1>3

\* DeleteObject and an inline annotation keep the invariant: they take away
\* references, and an object's own recipe with its manifest.
LEMMA DeleteKeeps ==
    ASSUME MaintInv, MaintTypes', NEW o \in Objects,
           maintDelete(o) \/ (WriteInlineAnnotation(o) /\ UNCHANGED <<maintVars, auxVars>>)
    PROVE  MaintInv'
<1>0. /\ \A u \in Writers : WriterShape(u) /\ Recorded(u)
      /\ Condemned /\ Doomed /\ Owned /\ GcKeepsRecipes /\ OwnChunksSurvive
      /\ recipe \in [Digests -> Nat \cup {None}] /\ ann \in [Objects -> Payloads \cup {None}]
      /\ borrowed \in [Digests -> SUBSET Chunks]
      /\ Objects \cap Payloads = {} /\ None \notin Payloads
  BY Zenon, ChunkStoreAssumption DEF MaintInv, MaintTypes, Shapes, TypeOK, Digests
<1>1. /\ UNCHANGED <<now, index, writerVars, hit, mpc, gc, rewritten>>
      /\ ann' = [ann EXCEPT ![o] = None]
  BY Zenon DEF maintDelete, DeleteObject, WriteInlineAnnotation, maintVars, auxVars
<1>2. /\ \A d \in Digests \ {o} : recipe'[d] = recipe[d] /\ borrowed'[d] = borrowed[d]
      /\ \/ recipe' = recipe /\ borrowed' = borrowed /\ manifest' = manifest
         \/ recipe'[o] = None /\ manifest' = manifest \ {o}
  BY Zenon, <1>0 DEF maintDelete, DeleteObject, WriteInlineAnnotation, auxVars, Digests
<1>3. Shapes' /\ \A u \in Writers : Flight(u)' /\ own(u)' = own(u)
  BY Zenon, <1>1, WritersKept DEF MaintTypes
<1>4. UNCHANGED <<pc, tgt, begun>>
  BY Zenon, <1>1 DEF writerVars
<1>5. /\ \A d \in Payloads : recipe'[d] = recipe[d]
      /\ \A d \in recipes' : d \in recipes /\ borrowed'[d] = borrowed[d]
  BY Zenon, <1>0, <1>2 DEF Digests, recipes
<1>6. \A x \in Objects : ann'[x] = ann[x] \/ ann'[x] = None
  BY Zenon, <1>0, <1>1
<1>7. \A u \in Writers : Recorded(u)'
  BY Zenon, <1>0, <1>1, <1>4, <1>5 DEF Recorded, WriterShape
<1>8. Condemned'
  <2> SUFFICES ASSUME NEW x \in gc.orphans
               PROVE  x \in Payloads /\ recipe'[x] # None /\ (x \in rewritten \/ unreferenced(x)')
    BY Zenon, <1>1 DEF Condemned
  <2>1. x \in Payloads /\ recipe[x] # None /\ (x \in rewritten \/ unreferenced(x))
    BY Zenon, <1>0 DEF Condemned
  <2>2. unreferenced(x) => unreferenced(x)'
    BY Zenon, <1>0, <1>4, <1>6, <2>1 DEF unreferenced
  <2> QED BY Zenon, <1>5, <2>1, <2>2
<1>9. Doomed'
  BY Zenon, <1>0, <1>1, <1>3, <1>5 DEF Doomed
<1>10. Owned' /\ GcKeepsRecipes'
  <2>1. Owned'
    BY Zenon, <1>0, <1>2 DEF Owned, Digests
  <2>2. \A d \in Files \cap manifest' : recipe'[d] # None
    BY Zenon, <1>0, <1>2 DEF GcKeepsRecipes, Objects, Digests
  <2>3. \A x \in Objects : ann'[x] # None /\ ann'[x] \notin rewritten => recipe'[ann'[x]] # None
    BY Zenon, <1>0, <1>5, <1>6 DEF GcKeepsRecipes
  <2> QED BY Zenon, <1>1, <2>1, <2>2, <2>3 DEF GcKeepsRecipes
<1>11. OwnChunksSurvive'
  BY Zenon, <1>0, <1>1, <1>5 DEF OwnChunksSurvive
<1> QED BY Zenon, <1>3, <1>7, <1>8, <1>9, <1>10, <1>11 DEF MaintInv

\* A crash ends the writes and the pass, and keeps every committed row.
LEMMA CrashKeeps ==
    ASSUME MaintInv, MaintTypes', maintCrash
    PROVE  MaintInv'
<1>1. /\ \A u \in Writers : /\ pc'[u] = "idle" /\ tgt'[u] = None
                            /\ seen'[u] = {} /\ batch'[u] = noBatch
      /\ mpc' = "idle" /\ gc'.orphans = {}
      /\ UNCHANGED <<index, recipe, manifest, ann, borrowed, rewritten>>
  BY Zenon DEF maintCrash, crash, metaVars, noGc
<1>2. None \notin Digests
  BY Zenon, ChunkStoreAssumption
<1>3. Shapes'
  BY Zenon, <1>1, <1>2 DEF Shapes, WriterShape, Digests, Objects
<1>4. \A u \in Writers : Flight(u)' /\ Recorded(u)'
  BY Zenon, <1>1 DEF Flight, Recorded
<1>5. Condemned' /\ Doomed'
  BY Zenon, <1>1 DEF Condemned, Doomed
<1>6. Owned' /\ GcKeepsRecipes' /\ OwnChunksSurvive'
  BY Zenon, <1>1 DEF MaintInv, Owned, GcKeepsRecipes, OwnChunksSurvive, recipes
<1> QED BY Zenon, <1>3, <1>4, <1>5, <1>6 DEF MaintInv

\* The clock advances only while no write in flight has used up its time.
LEMMA TickKeeps ==
    ASSUME MaintInv, MaintTypes', tick, UNCHANGED <<maintVars, auxVars>>
    PROVE  MaintInv'
<1>1. /\ now' = now + 1 /\ now \in Nat /\ MaxPut \in Nat /\ begun \in [Writers -> Nat]
      /\ \A u \in Writers : pc[u] # "idle" => now - begun[u] < MaxPut
      /\ UNCHANGED <<index, recipe, manifest, ann, pc, obj, tgt, seen, batch, stamp, begun>>
      /\ UNCHANGED <<mpc, gc, hit, borrowed, rewritten>>
  BY Zenon, ChunkStoreAssumption DEF tick, metaVars, writerVars, maintVars, auxVars, MaintInv, MaintTypes, TypeOK
<1>2. Shapes'
  BY Zenon, <1>1 DEF MaintInv, Shapes, WriterShape
<1>3. \A u \in Writers : own(u)' = own(u)
  BY Zenon, <1>1 DEF own
<1>4. ASSUME NEW u \in Writers PROVE Flight(u)' /\ Recorded(u)'
  <2>1. Flight(u) /\ Recorded(u) /\ begun[u] \in Nat
    BY Zenon, <1>1 DEF MaintInv
  <2>2. pc[u] # "idle" => begun[u] <= now + 1 /\ now + 1 <= begun[u] + MaxPut
    BY <1>1, <2>1 DEF Flight
  <2> QED BY Zenon, <1>1, <1>3, <2>1, <2>2 DEF Flight, Recorded, batched
<1>5. Condemned' /\ Doomed'
  BY Zenon, <1>1, <1>3 DEF MaintInv, Condemned, Doomed, unreferenced, recipes
<1>6. Owned' /\ GcKeepsRecipes' /\ OwnChunksSurvive'
  BY Zenon, <1>1 DEF MaintInv, Owned, GcKeepsRecipes, OwnChunksSurvive, recipes
<1> QED BY Zenon, <1>2, <1>4, <1>5, <1>6 DEF MaintInv

-----------------------------------------------------------------------------
(* The phases of Gc and of Repack *)

\* A step of a pass that changes no store and no history has to keep only what
\* the invariant says of the condemned.
LEMMA PassStep ==
    ASSUME MaintInv, MaintTypes', UNCHANGED <<storeVars, hit, borrowed, rewritten>>,
           Condemned', Doomed'
    PROVE  MaintInv'
<1>1. UNCHANGED <<now, index, recipe, manifest, ann, writerVars, hit, borrowed, rewritten, pc, tgt, begun>>
  BY Zenon DEF storeVars, metaVars, writerVars
<1>2. Shapes' /\ \A u \in Writers : Flight(u)'
  BY Zenon, <1>1, WritersKept DEF MaintTypes
<1>3. (\A u \in Writers : Recorded(u)') /\ Owned' /\ GcKeepsRecipes' /\ OwnChunksSurvive'
  BY Zenon, <1>1 DEF MaintInv, Recorded, Owned, GcKeepsRecipes, OwnChunksSurvive, recipes
<1> QED BY Zenon, <1>2, <1>3 DEF MaintInv

\* What Gc condemns when it marks: the grace period covers two writes, so neither
\* a chunk that a writer in flight stored nor a recipe that one is about to refer
\* to is old enough.
LEMMA MarkKeeps ==
    ASSUME 2 * MaxPut <= Grace, MaintInv, MaintTypes', gcMark
    PROVE  MaintInv'
<1> DEFINE kept == {d \in recipes : d \in manifest \/ d \in annotationPayloads
                                     \/ recipe[d] >= cutoff}
           dead == {c \in Chunks : index[c] # None /\ index[c].at < cutoff}
<1>1. /\ gc'.live = contentOf(kept) /\ gc'.dead = dead /\ gc'.orphans = recipes \ kept
      /\ mpc' = "rescan" /\ UNCHANGED <<storeVars, hit, borrowed, rewritten>>
  BY Zenon DEF gcMark, auxVars
<1>2. UNCHANGED <<now, index, recipe, manifest, ann, writerVars, pc, tgt>>
  BY Zenon, <1>1 DEF storeVars, metaVars, writerVars
<1>3. /\ now \in Nat /\ MaxPut \in Nat /\ Grace \in Nat /\ begun \in [Writers -> Nat]
      /\ index \in [Chunks -> chunkIndexEntry \cup {None}]
      /\ recipe \in [Digests -> Nat \cup {None}]
      /\ \A u \in Writers : WriterShape(u) /\ Flight(u) /\ Recorded(u)
      /\ Owned
  BY Zenon, ChunkStoreAssumption, MaintenanceAssumption DEF MaintInv, MaintTypes, TypeOK, Shapes
<1>4. \A u \in Writers : own(u)' = own(u)
  BY Zenon, <1>1, WritersKept, <1>2 DEF MaintTypes
<1>5. Condemned'
  <2> SUFFICES ASSUME NEW p \in recipes \ kept
               PROVE  p \in Payloads /\ recipe[p] # None /\ (p \in rewritten \/ unreferenced(p))
    BY Zenon, <1>1, <1>2 DEF Condemned, unreferenced
  <2>1. p \in Digests /\ recipe[p] # None /\ p \notin manifest /\ p \notin annotationPayloads
        /\ recipe[p] \in Nat /\ ~(recipe[p] >= now - Grace)
    BY Zenon, <1>3 DEF recipes, cutoff
  <2>2. p \in Payloads
    BY Zenon, <1>3, <2>1 DEF Owned, Digests
  <2>3. \A o \in Objects : ann[o] # p
    BY Zenon, <2>1, <2>2 DEF annotationPayloads
  <2>4. ASSUME p \notin rewritten, NEW u \in Writers, pc[u] = "record", tgt[u] = p PROVE FALSE
    <3>1. begun[u] \in Nat /\ begun[u] <= recipe[p] + MaxPut /\ now <= begun[u] + MaxPut
      BY Zenon, <1>3, <2>4 DEF Recorded, Flight
    <3> QED BY <1>3, <2>1, <3>1
  <2> QED BY Zenon, <2>1, <2>2, <2>3, <2>4 DEF unreferenced
<1>6. Doomed'
  <2>1. ASSUME NEW c \in dead, NEW u \in Writers, c \in own(u) PROVE FALSE
    <3>1. pc[u] # "idle"
      <4>1. pc[u] = "idle" => own(u) = {}
        BY <1>3 DEF WriterShape, own, noBatch
      <4> QED BY Zenon, <2>1, <4>1
    <3>2. index[c] \in chunkIndexEntry /\ index[c].at < now - Grace
      BY Zenon, <1>3 DEF cutoff
    <3>3. index[c].at \in Nat /\ begun[u] \in Nat
      BY Zenon, <1>3, <3>2 DEF chunkIndexEntry
    <3>4. begun[u] <= index[c].at + MaxPut /\ now <= begun[u] + MaxPut
      BY Zenon, <1>3, <2>1, <3>1 DEF Flight
    <3> QED BY <1>3, <3>2, <3>3, <3>4
  <2>2. \A d \in recipes : d \in recipes \ kept \/ Content[d] \subseteq contentOf(kept)
    BY Zenon DEF contentOf
  <2>3. recipes' = recipes
    BY Zenon, <1>2 DEF recipes
  <2>4. \A c \in dead : index[c] # None
    OBVIOUS
  <2> HIDE DEF kept, dead
  <2> QED BY Zenon, <1>1, <1>2, <1>4, <2>1, <2>2, <2>3, <2>4 DEF Doomed
<1> QED BY Zenon, <1>1, <1>5, <1>6, PassStep

\* The re-scan spares chunks, and condemns none.
LEMMA RescanKeeps ==
    ASSUME MaintInv, MaintTypes', gcRescan
    PROVE  MaintInv'
<1>1. /\ mpc = "rescan" /\ mpc' = "sweep" /\ UNCHANGED <<storeVars, hit, borrowed, rewritten>>
      /\ gc'.orphans = gc.orphans /\ gc'.dead \subseteq gc.dead \ gc.live
  BY Zenon DEF gcRescan, auxVars, MaintInv, MaintTypes, gcTypes
<1>2. UNCHANGED <<now, index, recipe, manifest, ann, writerVars, pc, tgt, hit>>
  BY Zenon, <1>1 DEF storeVars, metaVars, writerVars
<1>3. \A u \in Writers : own(u)' = own(u)
  BY Zenon, <1>2, WritersKept DEF MaintTypes
<1>4. Condemned'
  BY Zenon, <1>1, <1>2 DEF MaintInv, Condemned, unreferenced
<1>5. Doomed'
  BY <1>1, <1>2, <1>3 DEF MaintInv, Doomed, recipes
<1> QED BY Zenon, <1>1, <1>4, <1>5, PassStep

\* The sweep takes no chunk that a writer in flight stored, and none from a recipe
\* that is not an orphan.
LEMMA SweepKeeps ==
    ASSUME MaintInv, MaintTypes', gcSweep
    PROVE  MaintInv'
<1>1. /\ mpc = "sweep" /\ mpc' = "recheck" /\ gc' = gc
      /\ \A c \in Chunks : index'[c] = IF c \in gc.dead THEN None ELSE index[c]
      /\ \A d \in Digests : borrowed'[d] = IF d \in gc.orphans THEN borrowed[d] \cup gc.dead
                                           ELSE borrowed[d]
      /\ UNCHANGED <<now, recipe, manifest, ann, writerVars, pc, tgt, begun, hit, rewritten>>
  BY Zenon DEF gcSweep, writerVars
<1>2. \A u \in Writers : \A c \in own(u) : c \in Chunks /\ c \notin gc.dead
  BY Zenon, <1>1 DEF MaintInv, Doomed, own, MaintTypes, TypeOK
<1>3. Shapes' /\ \A u \in Writers : Flight(u)'
  <2>1. \A u \in Writers : \A c \in own(u) : index'[c] = index[c]
    BY Zenon, <1>1, <1>2
  <2> QED BY Zenon, <1>1, <2>1, WritersKept DEF MaintTypes
<1>4. (\A u \in Writers : Recorded(u)') /\ Condemned' /\ Owned' /\ GcKeepsRecipes'
  BY Zenon, <1>1 DEF MaintInv, Recorded, Condemned, unreferenced, Owned, GcKeepsRecipes
<1>5. OwnChunksSurvive'
  <2> SUFFICES ASSUME NEW d \in recipes, NEW c \in Content[d] \ borrowed'[d]
               PROVE  index'[c] # None
    BY Zenon, <1>1 DEF OwnChunksSurvive, recipes
  <2>1. d \in Digests /\ c \in Chunks
    BY Zenon, ChunkStoreAssumption DEF recipes
  <2>2. c \in Content[d] \ borrowed[d] /\ (d \in gc.orphans => c \notin gc.dead)
    BY Zenon, <1>1, <2>1
  <2>3. c \notin gc.dead /\ index[c] # None
    BY Zenon, <1>1, <2>2 DEF MaintInv, Doomed, OwnChunksSurvive
  <2> QED BY Zenon, <1>1, <2>1, <2>3
<1>6. Doomed'
  BY Zenon, <1>1 DEF Doomed
<1> QED BY Zenon, <1>3, <1>4, <1>5, <1>6 DEF MaintInv

\* Nothing that is needed goes with the orphans: nothing refers to them.
LEMMA DropKeeps ==
    ASSUME MaintInv, MaintTypes', gcDrop
    PROVE  MaintInv'
<1>1. /\ mpc' = "idle" /\ gc'.orphans = {}
      /\ \A d \in Digests : recipe'[d] = IF d \in gc.orphans THEN None ELSE recipe[d]
      /\ \A d \in Digests : d \notin gc.orphans => borrowed'[d] = borrowed[d]
      /\ UNCHANGED <<now, index, manifest, ann, writerVars, pc, tgt, begun, hit, rewritten>>
  BY Zenon DEF gcDrop, writerVars, noGc
<1>2. /\ \A u \in Writers : WriterShape(u) /\ Recorded(u)
      /\ Condemned /\ Owned /\ GcKeepsRecipes /\ OwnChunksSurvive
      /\ ann \in [Objects -> Payloads \cup {None}] /\ Objects \cap Payloads = {}
  BY Zenon, ChunkStoreAssumption DEF MaintInv, Shapes, MaintTypes, TypeOK
<1>3. Shapes' /\ \A u \in Writers : Flight(u)'
  BY Zenon, <1>1, WritersKept DEF MaintTypes
<1>4. ASSUME NEW u \in Writers PROVE Recorded(u)'
  <2> SUFFICES ASSUME pc[u] = "record", tgt[u] \notin rewritten
               PROVE  recipe'[tgt[u]] # None /\ begun[u] <= recipe'[tgt[u]] + MaxPut
    BY Zenon, <1>1 DEF Recorded
  <2>1. tgt[u] \in Digests /\ tgt[u] \notin gc.orphans
    BY Zenon, <1>2 DEF WriterShape, Condemned, unreferenced
  <2> QED BY Zenon, <1>1, <1>2, <2>1 DEF Recorded
<1>5. Condemned' /\ Doomed'
  BY Zenon, <1>1 DEF Condemned, Doomed
<1>6. Owned'
  BY Zenon, <1>1, <1>2 DEF Owned, Digests
<1>7. GcKeepsRecipes'
  <2>1. \A d \in Objects : d \in Digests /\ d \notin gc.orphans
    BY Zenon, <1>2 DEF Condemned, Digests
  <2>2. \A d \in Files \cap manifest' : recipe'[d] # None
    BY Zenon, <1>1, <1>2, <2>1 DEF GcKeepsRecipes, Objects
  <2>3. ASSUME NEW o \in Objects, ann[o] # None, ann[o] \notin rewritten
        PROVE  recipe'[ann[o]] # None
    <3>1. ann[o] \in Digests /\ ann[o] \notin gc.orphans
      BY Zenon, <1>2, <2>3 DEF Condemned, unreferenced, Digests
    <3> QED BY Zenon, <1>1, <1>2, <2>3, <3>1 DEF GcKeepsRecipes
  <2> QED BY Zenon, <1>1, <2>2, <2>3 DEF GcKeepsRecipes
<1>8. OwnChunksSurvive'
  <2>1. \A d \in recipes' : d \in recipes /\ borrowed'[d] = borrowed[d]
    BY Zenon, <1>1 DEF recipes
  <2> QED BY Zenon, <1>1, <1>2, <2>1 DEF OwnChunksSurvive
<1> QED BY Zenon, <1>3, <1>4, <1>5, <1>6, <1>7, <1>8 DEF MaintInv

\* Repack moves bytes, and redirects rows with the stamp of the moment.
LEMMA MoveKeeps ==
    ASSUME MaintInv, MaintTypes',
           repackPoint \/ repackRemove \/ \E c \in Chunks : repackCopy(c)
    PROVE  MaintInv'
<1>1. /\ mpc \notin {"rescan", "sweep"} /\ mpc' \notin {"rescan", "sweep"} /\ gc' = gc
      /\ UNCHANGED <<now, recipe, manifest, ann, writerVars, pc, tgt, begun>>
      /\ UNCHANGED <<hit, borrowed, rewritten>>
  BY Zenon DEF repackPoint, repackRemove, repackCopy, metaVars, writerVars, auxVars
<1>2. RowsFresh
  <2>1. CASE repackPoint
    <3> DEFINE c == rp.slot.chunk
               e == [pack |-> rp.slot.pack, off |-> rp.slot.off, at |-> now]
    <3>1. /\ index \in [Chunks -> chunkIndexEntry \cup {None}] /\ now \in Nat /\ MaxPut \in Nat
          /\ rp.slot \in slots
      BY Zenon, <2>1, ChunkStoreAssumption DEF MaintInv, MaintTypes, TypeOK, repackPoint
    <3>2. c \in Chunks /\ e \in chunkIndexEntry /\ e.at = now
      BY Zenon, <3>1 DEF slots, chunkIndexEntry
    <3>3. index' = index \/ index' = [index EXCEPT ![c] = e]
      BY Zenon, <2>1 DEF repackPoint
    <3> HIDE DEF c, e
    <3> QED BY SMTT(30), <3>1, <3>2, <3>3, NoneAssumption DEF RowsFresh
  <2>2. CASE index' = index
    BY Zenon, <2>2 DEF RowsFresh
  <2> QED BY Zenon, <2>1, <2>2 DEF repackRemove, repackCopy, metaVars
<1>3. Shapes' /\ \A u \in Writers : Flight(u)'
  <2>1. \A u \in Writers : own(u) \subseteq Chunks
    BY Zenon DEF own, MaintInv, MaintTypes, TypeOK
  <2> QED BY Zenon, <1>1, <1>2, <2>1, WritersKept DEF MaintTypes, RowsFresh
<1>4. (\A u \in Writers : Recorded(u)') /\ Condemned' /\ Owned' /\ GcKeepsRecipes'
  BY Zenon, <1>1 DEF MaintInv, Recorded, Condemned, unreferenced, Owned, GcKeepsRecipes
<1>5. Doomed'
  BY Zenon, <1>1 DEF Doomed
<1>6. OwnChunksSurvive'
  <2>1. recipes' = recipes /\ \A d \in recipes : Content[d] \subseteq Chunks
    BY Zenon, <1>1, ChunkStoreAssumption DEF recipes
  <2> QED BY Zenon, <1>1, <1>2, <2>1 DEF MaintInv, OwnChunksSurvive, RowsFresh
<1> QED BY Zenon, <1>3, <1>4, <1>5, <1>6 DEF MaintInv

\* The other steps of a pass only change what the pass knows.
LEMMA QuietPass ==
    ASSUME MaintInv, MaintTypes',
           \/ gcRecheck \/ repackBegin \/ repackScan \/ repackList \/ repackEnd \/ passFails
           \/ \E p \in PackIds : repackVisit(p)
    PROVE  MaintInv'
<1>1. UNCHANGED <<storeVars, hit, borrowed, rewritten>> /\ mpc' \notin {"rescan", "sweep"}
  BY Zenon DEF gcRecheck, repackBegin, repackScan, repackList, repackEnd, passFails, repackVisit, auxVars
<1>2. gc'.orphans \subseteq gc.orphans
  <2>1. CASE gcRecheck
    BY Zenon, <2>1 DEF gcRecheck, MaintInv, MaintTypes, gcTypes
  <2>2. CASE passFails
    BY Zenon, <2>2 DEF passFails, noGc
  <2>3. CASE gc' = gc
    BY Zenon, <2>3
  <2> QED BY Zenon, <2>1, <2>2, <2>3 DEF repackBegin, repackScan, repackList, repackEnd, repackVisit
<1>3. UNCHANGED <<recipe, ann, pc, tgt>>
  BY Zenon, <1>1 DEF storeVars, metaVars, writerVars
<1>4. Condemned'
  BY Zenon, <1>1, <1>2, <1>3 DEF MaintInv, Condemned, unreferenced
<1>5. Doomed'
  BY Zenon, <1>1 DEF Doomed
<1> QED BY Zenon, <1>1, <1>4, <1>5, PassStep

-----------------------------------------------------------------------------
(* The theorems about Gc *)

\* An empty store with no pass under way satisfies the invariant.
LEMMA InitMaint ==
    ASSUME MaintInit
    PROVE  MaintInv
<1>1. MaintTypes /\ Shapes
  BY Zenon, InitRepack DEF RepackInv
<1> USE DEF MaintInit, Init
<1>2. None \notin Digests
  BY Zenon, ChunkStoreAssumption
<1>3. \A w \in Writers : Flight(w) /\ Recorded(w)
  BY Zenon DEF Flight, Recorded
<1>4. Condemned /\ Doomed
  BY Zenon DEF Condemned, Doomed, noGc
<1>5. Owned /\ GcKeepsRecipes /\ OwnChunksSurvive
  BY Zenon, <1>2 DEF Owned, GcKeepsRecipes, OwnChunksSurvive, recipes, Digests
<1> QED BY Zenon, <1>1, <1>3, <1>4, <1>5 DEF MaintInv

\* Every step of the store, of Gc and of Repack keeps the invariant.
LEMMA NextMaint ==
    ASSUME 2 * MaxPut <= Grace, MaintInv, [MaintNext]_vars
    PROVE  MaintInv'
<1>0. MaintTypes /\ Shapes
  BY Zenon DEF MaintInv
<1>1. ASSUME NEW w \in Writers, maintWriter(w) PROVE MaintInv'
  <2>1. MaintTypes'
    BY Zenon, <1>0, <1>1, StoreTypes
  <2>2. Shapes' /\ TypeOK'
    BY Zenon, <1>0, <1>1, <2>1, ShapeStep DEF maintWriter, MaintTypes
  <2>3. (\A u \in Writers : Flight(u)') /\ Doomed' /\ OwnChunksSurvive'
    BY Zenon, <1>1, <2>2, WriterChunks
  <2>4. (\A u \in Writers : Recorded(u)') /\ Condemned' /\ Owned' /\ GcKeepsRecipes'
    BY Zenon, <1>1, <2>2, WriterRecipes
  <2> QED BY Zenon, <2>1, <2>2, <2>3, <2>4 DEF MaintInv
<1>2. ASSUME NEW o \in Objects,
             maintDelete(o) \/ (WriteInlineAnnotation(o) /\ UNCHANGED <<maintVars, auxVars>>)
      PROVE  MaintInv'
  BY Zenon, <1>0, <1>2, StoreTypes, DeleteKeeps
<1>3. CASE maintCrash
  BY Zenon, <1>0, <1>3, StoreTypes, CrashKeeps
<1>4. CASE tick /\ UNCHANGED <<maintVars, auxVars>>
  BY Zenon, <1>0, <1>4, StoreTypes, TickKeeps
<1>5. CASE gcMark \/ gcRescan \/ gcSweep \/ gcRecheck \/ gcDrop
  <2>1. MaintTypes'
    BY Zenon, <1>0, <1>5, GcTypes
  <2> QED BY Zenon, <1>5, <2>1, MarkKeeps, RescanKeeps, SweepKeeps, QuietPass, DropKeeps
<1>6. CASE \/ repackBegin \/ repackScan \/ repackList
           \/ \E p \in PackIds : repackVisit(p)
           \/ \E c \in Chunks : repackCopy(c)
           \/ repackPoint \/ repackRemove \/ repackEnd \/ passFails
  <2>1. MaintTypes'
    BY Zenon, <1>0, <1>6, RepackTypes
  <2> QED BY Zenon, <1>6, <2>1, QuietPass, MoveKeeps
<1>7. CASE UNCHANGED vars
  <2>1. UNCHANGED <<storeVars, mpc, gc, rp, hit, borrowed, rewritten>>
    BY Zenon, <1>7 DEF vars, maintVars, auxVars
  <2>2. MaintTypes'
    BY Zenon, <1>0, <2>1, TypeStep DEF MaintTypes, Shapes
  <2>3. UNCHANGED <<now, index, recipe, ann, writerVars, pc, tgt, hit>>
    BY Zenon, <2>1 DEF storeVars, metaVars, writerVars
  <2>4. \A u \in Writers : own(u)' = own(u)
    BY Zenon, <2>2, <2>3, WritersKept DEF MaintTypes
  <2>5. Condemned' /\ Doomed'
    BY Zenon, <2>1, <2>3, <2>4 DEF MaintInv, Condemned, Doomed, unreferenced, recipes
  <2> QED BY Zenon, <2>1, <2>2, <2>5, PassStep
<1> QED BY Zenon, <1>1, <1>2, <1>3, <1>4, <1>5, <1>6, <1>7 DEF MaintNext, maintStep

\* The grace period protects what a write stored: whatever the content, the number
\* of writers and the interleaving with Gc and Repack, a recipe loses a chunk its
\* own write stored only as an orphan, if a write takes at most half of the grace
\* period (gcGracePeriod).
THEOREM GraceProtectsWrites ==
    ASSUME 2 * MaxPut <= Grace
    PROVE  MaintSpec => []OwnChunksSurvive
<1>1. MaintInit => MaintInv
  BY Zenon, InitMaint
<1>2. MaintInv /\ [MaintNext]_vars => MaintInv'
  BY Zenon, NextMaint
<1>3. MaintInv => OwnChunksSurvive
  BY Zenon DEF MaintInv
<1> QED BY <1>1, <1>2, <1>3, PTL DEF MaintSpec

\* Gc drops no recipe that is needed, under the same condition: every file object
\* has its recipe, and so has every annotation whose payload was not written again
\* after Gc had condemned it.
THEOREM RecipesAlwaysKept ==
    ASSUME 2 * MaxPut <= Grace
    PROVE  MaintSpec => []GcKeepsRecipes
<1>1. MaintInit => MaintInv
  BY Zenon, InitMaint
<1>2. MaintInv /\ [MaintNext]_vars => MaintInv'
  BY Zenon, NextMaint
<1>3. MaintInv => GcKeepsRecipes
  BY Zenon DEF MaintInv
<1> QED BY <1>1, <1>2, <1>3, PTL DEF MaintSpec
=============================================================================
