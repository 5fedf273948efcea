--------------------------- MODULE MCRobustCommand ---------------------------
(* Two connections fail and a wrapper is killed: enough for the command to  *)
(* be started twice, and for a waiter that nobody listens to.               *)
EXTENDS RobustCommand
=============================================================================
