----------------------- MODULE MCControllerExecutions -----------------------
(* One node, one execution; two Controller processes, lost sessions, and    *)
(* operator decisions.                                                      *)
EXTENDS ControllerExecutions
=============================================================================
