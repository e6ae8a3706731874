--------------------------- MODULE MCControllerFleet ---------------------------
(* Model-checking instance of ControllerFleet: see MCControllerFleet.cfg. *)
EXTENDS ControllerFleet
=============================================================================
