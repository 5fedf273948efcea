--------------------------- MODULE MCIssueCommand ---------------------------
(* All the arguments, and up to three tries. *)
EXTENDS IssueCommand
=============================================================================
