------------------------- MODULE MCChunkMaintenance -------------------------
(***************************************************************************)
(* Instances of ChunkMaintenance for TLC.                                  *)
(***************************************************************************)
EXTENDS ChunkMaintenance, TLC

CONSTANTS c1, c2, f1, p1, w1, w2

\* A file and a payload that share their only chunk.
SharedContent == f1 :> {c1} @@ p1 :> {c1}
\* A file and a payload with a chunk each.
OwnContent == f1 :> {c1} @@ p1 :> {c2}
\* A file of two chunks, and a payload that shares one of them.
MixedContent == f1 :> {c1, c2} @@ p1 :> {c1}
Symmetry == Permutations(Writers)
=============================================================================
