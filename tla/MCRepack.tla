------------------------------ MODULE MCRepack ------------------------------
(***************************************************************************)
(* Instances for TLC of the two views of a repack, which share no state:   *)
(* ChunkMaintenance, with writers, crashes and the rows and bytes of the   *)
(* store, and PackCache, with readers and their file handles.  Each        *)
(* behaviour is of one of the two.                                         *)
(***************************************************************************)
EXTENDS MCChunkMaintenance, PackCache

VARIABLE subject    \* which of the two takes the steps

RepackInit ==
    /\ MaintInit /\ PackCacheInit
    /\ subject \in {"rows", "cache"}

rowsStep ==
    /\ subject = "rows"
    /\ MaintNext
    /\ UNCHANGED <<packCacheVars, subject>>

cacheStep ==
    /\ subject = "cache"
    /\ PackCacheNext
    /\ UNCHANGED <<vars, subject>>

RepackSpec == RepackInit /\ [][rowsStep \/ cacheStep]_<<vars, packCacheVars, subject>>
=============================================================================
