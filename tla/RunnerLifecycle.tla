-------------------------- MODULE RunnerLifecycle --------------------------
(***************************************************************************)
(* What runner.Manager promises about one execution, whatever the number   *)
(* of Manager instances, crashes and ambiguous journal writes behind it:   *)
(* the durable state moves only along the lifecycle, the JIT configuration *)
(* starts at most one process, and a clean verdict means that no process   *)
(* is left.  RunnerRuntime is the detailed specification that implements   *)
(* this one; AgentCommands is built on it.                                 *)
(***************************************************************************)

VARIABLES
    record,     \* State of the journal record, "none" without a record
    rooted,     \* the record carries a WorkspaceRef
    live,       \* a process of the execution runs inside its containment
    started     \* history: the JIT configuration was handed to a process

vars == <<record, rooted, live, started>>

Init == record = "none" /\ rooted = FALSE /\ live = FALSE /\ started = FALSE

\* The moves of the durable state that leave rooted, live and started alone.
Moves ==
    [none           |-> {"preparing"},
     preparing      |-> {"failed", "cleaning", "cleanup_failed"},
     prepared       |-> {"starting", "cleaning", "cleanup_failed"},
     starting       |-> {"prepared", "running", "cleaning", "cleanup_failed"},
     running        |-> {"cleaning", "cleanup_failed"},
     cleaning       |-> {"released", "cleanup_failed"},
     released       |-> {"cleanup_failed"},
     failed         |-> {"cleanup_failed"},
     cleanup_failed |-> {}]

\* Move along the lifecycle.  A Start is only rolled back to Prepared while the
\* JIT configuration was not handed over, Running follows the hand-over, and
\* Released needs an identified workspace and an empty boundary.
Move(to) ==
    /\ to \in Moves[record]
    /\ to = "running" => started
    /\ record = "starting" /\ to = "prepared" => ~started
    /\ to = "released" => rooted /\ ~live
    /\ record' = to
    /\ UNCHANGED <<rooted, live, started>>

\* Preparing ends with an identified workspace.
Prepare ==
    /\ record = "preparing"
    /\ record' = "prepared" /\ rooted' = TRUE
    /\ UNCHANGED <<live, started>>

\* A failed Start forgets its workspace once that is removed and nothing runs.
FailStarted ==
    /\ record = "cleaning" /\ rooted /\ ~live
    /\ record' = "failed" /\ rooted' = FALSE
    /\ UNCHANGED <<live, started>>

\* The JIT configuration creates the process; an overlapping Manager may
\* already have claimed the teardown of this Start.
Launch ==
    /\ record \in {"starting", "cleaning", "cleanup_failed"}
    /\ ~started
    /\ started' = TRUE /\ live' \in BOOLEAN
    /\ UNCHANGED <<record, rooted>>

\* The process is stopped, or exits.
Exit ==
    /\ live
    /\ live' = FALSE
    /\ UNCHANGED <<record, rooted, started>>

Next ==
    \/ \E to \in DOMAIN Moves : Move(to)
    \/ Prepare \/ FailStarted \/ Launch \/ Exit

Spec == Init /\ [][Next]_vars
============================================================================
