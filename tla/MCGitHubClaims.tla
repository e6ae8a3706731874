--------------------------- MODULE MCGitHubClaims ---------------------------
(***************************************************************************)
(* GitHubClaims for TLC.                                                   *)
(***************************************************************************)
EXTENDS GitHubClaims
=============================================================================
