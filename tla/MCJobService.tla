---------------------------- MODULE MCJobService ----------------------------
(* TLC instances of JobService.                                            *)
EXTENDS JobService
=============================================================================
