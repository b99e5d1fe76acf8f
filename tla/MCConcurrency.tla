---------------------------- MODULE MCConcurrency ----------------------------
(***************************************************************************)
(* Instances of Concurrency for TLC.                                       *)
(***************************************************************************)
EXTENDS Concurrency
=============================================================================
