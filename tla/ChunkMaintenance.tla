-------------------------- MODULE ChunkMaintenance --------------------------
(***************************************************************************)
(* The online maintenance passes of FILESTORE beside the writers of        *)
(* ChunkStore: Gc (internal/filestore/gc.go) drops chunk rows and recipes  *)
(* that nothing refers to, Repack (repack.go) copies the live chunks out   *)
(* of sealed packs and deletes the packs.  maintenanceMu lets one pass run *)
(* at a time; neither pass takes packMu around more than one append, and   *)
(* neither excludes writers, so every step of a pass interleaves with      *)
(* every step of every writer.                                             *)
(***************************************************************************)
EXTENDS ChunkStore

CONSTANTS
    Grace,      \* gcGracePeriod, in ticks
    Passes      \* the passes an operator runs: a subset of {"gc", "repack"}

ASSUME MaintenanceAssumption ==
    /\ Grace \in Nat
    /\ Passes \subseteq {"gc", "repack"}

VARIABLES
    mpc,        \* where the pass that holds maintenanceMu is
    gc,         \* what Gc has collected: its start, live and dead chunks, orphans
    rp          \* what Repack has collected: active pack, rows, packs to visit

\* Auxiliary variables: they record history and restrict no step.
VARIABLES
    hit,        \* the chunks each writer took from the index (dedup hits)
    borrowed,   \* the chunks a recipe only ever had as dedup hits, or lost as an orphan
    rewritten,  \* payloads whose recipe was written again while Gc had it as an orphan
    unscanned   \* some sealed pack held bytes that Repack's scan did not see

maintVars == <<mpc, gc, rp>>
auxVars == <<hit, borrowed, rewritten, unscanned>>
vars == <<storeVars, maintVars, auxVars>>

noGc == [start |-> 0, live |-> {}, dead |-> {}, orphans |-> {}]
noRepack == [active |-> 0, rows |-> noBatch, todo |-> {}, pack |-> 0, move |-> {}, slot |-> None]

MaintInit ==
    /\ Init
    /\ mpc = "idle"
    /\ gc = noGc
    /\ rp = noRepack
    /\ hit = [w \in Writers |-> {}]
    /\ borrowed = [d \in Digests |-> {}]
    /\ rewritten = {}
    /\ unscanned = FALSE

-----------------------------------------------------------------------------
(* Gc *)

\* Mutated form of cutoff: the grace period is not subtracted.
cutoffNow == now

cutoff == now - Grace
contentOf(ds) == UNION {Content[d] : d \in ds}
recipes == {d \in Digests : recipe[d] # None}
annotationPayloads == {ann[o] : o \in Objects} \cap Payloads

\* Mutated form of gcMark: a young recipe is not kept.
gcMarkYoung ==
    /\ "gc" \in Passes
    /\ mpc = "idle"
    /\ LET kept == {d \in recipes : \/ d \in manifest
                                    \/ d \in annotationPayloads}
       IN  gc' = [start |-> now,
                  live |-> contentOf(kept),
                  dead |-> {c \in Chunks : index[c] # None /\ index[c].at < cutoff},
                  orphans |-> recipes \ kept]
    /\ mpc' = "rescan"
    /\ UNCHANGED <<storeVars, rp, auxVars>>

\* Everything Gc reads from its snapshot: the recipes that are reachable or
\* young keep their chunks, the others are orphans, old chunks are candidates.
gcMark ==
    /\ "gc" \in Passes
    /\ mpc = "idle"
    /\ LET kept == {d \in recipes : \/ d \in manifest
                                    \/ d \in annotationPayloads
                                    \/ recipe[d] >= cutoff}
       IN  gc' = [start |-> now,
                  live |-> contentOf(kept),
                  dead |-> {c \in Chunks : index[c] # None /\ index[c].at < cutoff},
                  orphans |-> recipes \ kept]
    /\ mpc' = "rescan"
    /\ UNCHANGED <<storeVars, rp, auxVars>>

\* The live store is scanned again for recipes stamped since Gc started.
gcRescan ==
    /\ mpc = "rescan"
    /\ LET fresh == {d \in recipes : recipe[d] >= gc.start}
       IN  gc' = [gc EXCEPT !.dead = @ \ (gc.live \cup contentOf(fresh))]
    /\ mpc' = "sweep"
    /\ UNCHANGED <<storeVars, rp, auxVars>>

gcSweep ==
    /\ mpc = "sweep"
    /\ index' = [c \in Chunks |-> IF c \in gc.dead THEN None ELSE index[c]]
    /\ borrowed' = [d \in Digests |->
                       IF d \in gc.orphans THEN borrowed[d] \cup gc.dead ELSE borrowed[d]]
    /\ mpc' = "recheck"
    /\ UNCHANGED <<now, recipe, manifest, ann, packVars, packMu, writerVars, gc, rp,
                   hit, rewritten, unscanned>>

\* An orphan whose object manifest has appeared since is kept.
gcRecheck ==
    /\ mpc = "recheck"
    /\ gc' = [gc EXCEPT !.orphans = @ \ manifest]
    /\ mpc' = "drop"
    /\ UNCHANGED <<storeVars, rp, auxVars>>

gcDrop ==
    /\ mpc = "drop"
    /\ recipe' = [d \in Digests |-> IF d \in gc.orphans THEN None ELSE recipe[d]]
    /\ borrowed' = [d \in Digests |-> IF d \in gc.orphans THEN {} ELSE borrowed[d]]
    /\ mpc' = "idle"
    /\ gc' = noGc
    /\ UNCHANGED <<now, index, manifest, ann, packVars, packMu, writerVars, rp, hit, rewritten, unscanned>>

-----------------------------------------------------------------------------
(* Repack *)

\* The active pack is read from the directory and will be left alone.
repackBegin ==
    /\ "repack" \in Passes
    /\ mpc = "idle"
    /\ existing # {}
    /\ rp' = [noRepack EXCEPT !.active = activePack.id]
    /\ mpc' = "scan"
    /\ UNCHANGED <<storeVars, gc, auxVars>>

repackScan ==
    /\ mpc = "scan"
    /\ rp' = [rp EXCEPT !.rows = index]
    /\ mpc' = "list"
    /\ UNCHANGED <<storeVars, gc, auxVars>>

inFlight(p) == \E w \in Writers : p \in touchedPacks(w)
rowsIn(p, rows) == {c \in Chunks : rows[c] # None /\ rows[c].pack = p}

repackList ==
    /\ mpc = "list"
    /\ rp' = [rp EXCEPT !.todo = existing \ {rp.active}]
    /\ mpc' = "loop"
    /\ unscanned' = (unscanned \/ \E p \in existing \ {rp.active} :
                        \/ p > rp.active
                        \/ inFlight(p)
                        \/ \E c \in rowsIn(p, index) : rp.rows[c] # index[c])
    /\ UNCHANGED <<storeVars, gc, hit, borrowed, rewritten>>

\* Packs are visited in the order of their ids; a fully live one is left alone.
repackVisit(p) ==
    /\ mpc = "loop"
    /\ p \in rp.todo
    /\ \A q \in rp.todo : p <= q
    /\ LET live == rowsIn(p, rp.rows) IN
       IF live # {} /\ Cardinality(live) >= Len(packs[p])
       THEN /\ rp' = [rp EXCEPT !.todo = @ \ {p}]
            /\ mpc' = mpc
       ELSE /\ rp' = [rp EXCEPT !.pack = p, !.move = live]
            /\ mpc' = "move"
    /\ UNCHANGED <<storeVars, gc, auxVars>>

\* relocateLiveChunks: the raw bytes go to the active pack and are fsynced.
repackCopy(c) ==
    /\ mpc = "move"
    /\ c \in rp.move
    /\ packMu = None
    /\ rp.rows[c].off < Len(packs[rp.pack])
    /\ appendToActivePackNoSync(packs[rp.pack][rp.rows[c].off + 1])
    /\ synced' = [synced EXCEPT ![nextSlot.id] = Len(packs'[nextSlot.id])]
    /\ rp' = [rp EXCEPT !.move = @ \ {c},
                        !.slot = [chunk |-> c, pack |-> nextSlot.id, off |-> nextSlot.size]]
    /\ mpc' = "point"
    /\ UNCHANGED <<now, metaVars, packMu, writerVars, gc, auxVars>>

\* Mutated form of repackPoint: the copied chunk's row is not redirected.
repackPointForgotten ==
    /\ mpc = "point"
    /\ rp' = [rp EXCEPT !.slot = None]
    /\ mpc' = "move"
    /\ UNCHANGED <<now, metaVars, packVars, packMu, writerVars, gc, auxVars>>

\* The row is rewritten unless it is gone (then the copy is dead space).
repackPoint ==
    /\ mpc = "point"
    /\ LET c == rp.slot.chunk IN
       index' = IF index[c] = None THEN index
                ELSE [index EXCEPT ![c] =
                         [pack |-> rp.slot.pack, off |-> rp.slot.off, at |-> now]]
    /\ rp' = [rp EXCEPT !.slot = None]
    /\ mpc' = "move"
    /\ UNCHANGED <<now, recipe, manifest, ann, packVars, packMu, writerVars, gc, auxVars>>

repackRemove ==
    /\ mpc = "move"
    /\ rp.move = {}
    /\ packs' = [packs EXCEPT ![rp.pack] = <<>>]
    /\ synced' = [synced EXCEPT ![rp.pack] = 0]
    /\ rp' = [rp EXCEPT !.todo = @ \ {rp.pack}]
    /\ mpc' = "loop"
    /\ UNCHANGED <<now, metaVars, active, packMu, writerVars, gc, auxVars>>

repackEnd ==
    /\ mpc = "loop"
    /\ rp.todo = {}
    /\ rp' = noRepack
    /\ mpc' = "idle"
    /\ UNCHANGED <<storeVars, gc, auxVars>>

\* A pass that is cancelled, or fails, returns and releases maintenanceMu.
passFails ==
    /\ mpc # "idle"
    /\ mpc' = "idle"
    /\ gc' = noGc
    /\ rp' = noRepack
    /\ UNCHANGED <<storeVars, auxVars>>

-----------------------------------------------------------------------------
(* Composition *)

\* The writer's step, with the history of where its chunks came from.
maintWriter(w) ==
    /\ writerStep(w)
    /\ hit' = [hit EXCEPT ![w] =
                  IF pc'[w] = "idle" THEN {}
                  ELSE @ \cup {c \in seen'[w] \ seen[w] :
                                  batch[w][c] = None /\ batch'[w][c] = None}]
    /\ borrowed' = [d \in Digests |->
           IF d = tgt[w] /\ ((pc[w] = "synced" /\ commit(w) /\ stamp[w] # None) \/ putRecipe(w))
           THEN IF recipe[d] = None THEN hit[w] ELSE borrowed[d] \cap hit[w]
           ELSE borrowed[d]]
    /\ rewritten' = IF ~putRecipe(w) THEN rewritten
                    ELSE IF tgt[w] \in gc.orphans THEN rewritten \cup {tgt[w]}
                    ELSE rewritten \ {tgt[w]}
    /\ UNCHANGED <<maintVars, unscanned>>

maintDelete(o) ==
    /\ DeleteObject(o)
    /\ borrowed' = [borrowed EXCEPT ![o] = {}]
    /\ UNCHANGED <<maintVars, hit, rewritten, unscanned>>

maintCrash ==
    /\ crash
    /\ mpc' = "idle"
    /\ gc' = noGc
    /\ rp' = noRepack
    /\ hit' = [w \in Writers |-> {}]
    /\ UNCHANGED <<borrowed, rewritten, unscanned>>

maintStep ==
    \/ gcMark \/ gcRescan \/ gcSweep \/ gcRecheck \/ gcDrop
    \/ repackBegin \/ repackScan \/ repackList
    \/ \E p \in PackIds : repackVisit(p)
    \/ \E c \in Chunks : repackCopy(c)
    \/ repackPoint \/ repackRemove \/ repackEnd
    \/ passFails

MaintNext ==
    \/ \E w \in Writers : maintWriter(w)
    \/ \E o \in Objects : maintDelete(o)
    \/ \E o \in Objects : WriteInlineAnnotation(o) /\ UNCHANGED <<maintVars, auxVars>>
    \/ maintCrash
    \/ tick /\ UNCHANGED <<maintVars, auxVars>>
    \/ maintStep

MaintSpec == MaintInit /\ [][MaintNext]_vars

-----------------------------------------------------------------------------
(* Properties *)

\* gcGracePeriod does what it is for: no pass takes from a recipe a chunk that
\* its own write put into the store, however the write overlaps the pass, as long
\* as a write takes at most half of the grace period.  Only a recipe the pass
\* itself found to be an orphan loses its chunks, before it goes too.
OwnChunksSurvive == \A d \in recipes : \A c \in Content[d] \ borrowed[d] : index[c] # None

\* Gc never drops a recipe that is needed.  An object's recipe and manifest are
\* committed and deleted together, so only payload recipes become orphans, and
\* the payload of an annotation is young enough for the grace period until the
\* annotation record is there, and reachable after.  The exception is a payload
\* written again while its old row was waiting to be swept.
GcKeepsRecipes ==
    /\ \A d \in Files \cap manifest : recipe[d] # None
    /\ \A o \in Objects : ann[o] # None /\ ann[o] \notin rewritten => recipe[ann[o]] # None

\* Repack is safe while the store serves as long as the sealed packs held only
\* rows its scan saw: rows are redirected before a pack is removed, and the
\* position cached for the next append stays right.
RepackKeepsRows == unscanned \/ (IndexDurable /\ ActivePackCached)
=============================================================================
