----------------------------- MODULE MCLifecycle -----------------------------
(* The instance of Lifecycle for TLC: every kind of request. *)
EXTENDS Lifecycle

AllOps == {"create", "enable", "disable", "check", "lookup"}
=============================================================================
