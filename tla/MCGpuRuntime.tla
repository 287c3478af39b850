---------------------------- MODULE MCGpuRuntime ----------------------------
(* TLC instances of GpuRuntime.                                            *)
EXTENDS GpuRuntime
=============================================================================
