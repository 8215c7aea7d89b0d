---------------------------- MODULE MCFiberQueue ----------------------------
(* FiberQueue with three bodies that may each park twice. *)
EXTENDS FiberQueue
=============================================================================
