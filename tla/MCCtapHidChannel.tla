-------------------------- MODULE MCCtapHidChannel --------------------------
(***************************************************************************)
(* Two applications, two requests of two reports each, responses of three  *)
(* reports, three channels so that one application can come back after a   *)
(* failure, one lost report.                                               *)
(***************************************************************************)
EXTENDS CtapHidChannel

CONSTANTS a1, a2, r1, r2
=============================================================================
