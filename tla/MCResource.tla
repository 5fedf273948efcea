----------------------------- MODULE MCResource -----------------------------
(* One resource through up to two runs of the program; see the cfg files. *)
EXTENDS Resource
=============================================================================
