---------------------------- MODULE MCChunkStore ----------------------------
(***************************************************************************)
(* Instances of ChunkStore for TLC.                                        *)
(***************************************************************************)
EXTENDS ChunkStore, TLC

CONSTANTS c1, c2, f1, k1, p1, w1, w2

\* A file, a compound envelope and an annotation payload that share its chunks.
SharedContent == f1 :> {c1} @@ k1 :> {c1, c2} @@ p1 :> {c1, c2}

\* The compound object and the payload are not stored in the same behaviour, the
\* packs hold at most three chunks (one full pack and a second one), and the
\* clock, which only Gc reads, ends the behaviour.
Bounds ==
    /\ \/ recipe[k1] = None /\ \A w \in Writers : tgt[w] # k1
       \/ recipe[p1] = None /\ \A w \in Writers : tgt[w] # p1
    /\ Len(packs[0]) + Len(packs[1]) <= 3
    /\ now = 0
Symmetry == Permutations(Writers)
=============================================================================
