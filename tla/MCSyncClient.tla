---------------------------- MODULE MCSyncClient ----------------------------
(***************************************************************************)
(* Instances of SyncClient for TLC.  The executions of deltaSync are       *)
(* interchangeable.                                                        *)
(***************************************************************************)
EXTENDS SyncClient, TLC

DeltaSymmetry == Permutations(Delta)
=============================================================================
