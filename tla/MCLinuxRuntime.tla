--------------------------- MODULE MCLinuxRuntime ---------------------------
(* One execution, two helper connections: the one of a lost Agent and the next. *)
EXTENDS LinuxRuntime
=============================================================================
