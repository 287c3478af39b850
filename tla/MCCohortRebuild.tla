--------------------------- MODULE MCCohortRebuild ---------------------------
(* TLC instances of CohortRebuild.                                         *)
EXTENDS CohortRebuild
=============================================================================
