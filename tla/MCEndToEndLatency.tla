-------------------------- MODULE MCEndToEndLatency --------------------------
(* Three rounds: a message can be late or come again in two later ones.     *)
EXTENDS EndToEndLatency
=============================================================================
