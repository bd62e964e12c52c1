--------------------------- MODULE MCAnalysisJobs ---------------------------
(***************************************************************************)
(* Instances of AnalysisJobs for TLC.  They check liveness, so that        *)
(* objects and workers are not declared symmetric.                         *)
(***************************************************************************)
EXTENDS AnalysisJobs
=============================================================================
