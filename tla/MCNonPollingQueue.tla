------------------------- MODULE MCNonPollingQueue -------------------------
(* Two writers with two items each: signals collapse, and a Put can run in   *)
(* every gap of Get.                                                         *)
EXTENDS NonPollingQueue

=============================================================================
