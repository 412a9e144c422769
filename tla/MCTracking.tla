----------------------------- MODULE MCTracking -----------------------------
(***************************************************************************)
(* Tracking for TLC: the configurations choose the clients' addresses, the *)
(* callbacks and options they pass and how the engine behaves.             *)
(***************************************************************************)
EXTENDS Tracking

=============================================================================
