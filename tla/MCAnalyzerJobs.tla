--------------------------- MODULE MCAnalyzerJobs ---------------------------
(* Small instances of AnalyzerJobs for TLC.                                *)
EXTENDS AnalyzerJobs, TLC

CONSTANTS j1, j2, j3

MCCreatedAt == (j1 :> 1) @@ (j2 :> 2) @@ (j3 :> 3)
=============================================================================
