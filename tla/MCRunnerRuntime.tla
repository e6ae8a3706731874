-------------------------- MODULE MCRunnerRuntime --------------------------
(* Instances of RunnerRuntime for TLC: Managers are interchangeable, and so *)
(* are fence tokens.                                                        *)
EXTENDS RunnerRuntime, TLC

Symmetry == Permutations(Managers) \cup Permutations(Tokens)

=============================================================================
