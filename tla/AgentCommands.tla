--------------------------- MODULE AgentCommands ---------------------------
(***************************************************************************)
(* The Agent's command runtime (internal/app/agent_runner.go) over its     *)
(* SQLite journal (internal/store/agent*.go): command admission, execution,*)
(* the completion monitor, the lifecycle outbox and startup recovery, for  *)
(* one execution ID of one Agent process that crashes and restarts.        *)
(*                                                                         *)
(* The runner.Manager underneath is RunnerLifecycle, whose moves the calls *)
(* of this module take one by one, so a crash can fall between any two of  *)
(* them.  Commands, the monitor, the terminal acknowledgement and startup  *)
(* recovery exclude each other by the per-execution lock: the variable     *)
(* task is the work its holder is doing.                                   *)
(***************************************************************************)
EXTENDS Naturals, Sequences

CONSTANTS
    Commands,       \* commands of the execution the Controller can issue
    NoCommand,
    MaxCrashes,     \* bound: Agent process crashes
    MaxFaults       \* bound: SQLite and platform wait calls that report an error

ASSUME CommandAssumption ==
    /\ NoCommand \notin Commands
    /\ \A c \in Commands :
         /\ c.type \in {"prepare", "start", "cancel"}
         /\ c.epoch \in Nat
         /\ c.type = "prepare" => c.expects = "reserved"
         /\ c.type = "start"   => c.expects = "preparing"
         /\ c.type = "cancel"  => c.expects \in {"preparing", "running", "cleaning"}
ASSUME BoundAssumption == MaxCrashes \in Nat /\ MaxFaults \in Nat

VARIABLES
    record, rooted, live, started,  \* the Manager and its processes
    owns,           \* what the Manager's ownership maps hold for the record
    accepted,       \* command_replays: durably accepted commands
    maxEpoch,       \* max_controller_epoch
    observation,    \* execution_observations
    tombstone,      \* cleanup_tombstones has a row
    outbox,         \* execution_update_outbox in sequence order
    excluded,       \* the owner's exclusion set holds the execution's Target
    agent,          \* "down", "booting" or "up"
    degraded,       \* AgentCommandRuntime.monitorFailed
    monitor,        \* the completion monitor of the execution
    terminalAck,    \* terminalAcks holds the execution
    task,           \* work of the holder of the per-execution lock
    sent,           \* commands the Controller has put on the wire
    closed,         \* the Controller's execution reached Released or Failed
    crashes, faults

runner  == <<record, rooted, live, started>>
journal == <<accepted, maxEpoch, observation, tombstone, outbox>>
memory  == <<agent, degraded, monitor, terminalAck, owns>>
control == <<sent, closed>>
bounds  == <<crashes, faults>>
vars    == <<runner, journal, excluded, memory, task, control, bounds>>

Manager == INSTANCE RunnerLifecycle

---------------------------------------------------------------------------
(* Updates and their classification *)

CleanStates    == {"released", "failed"}
TerminalStates == CleanStates \cup {"cleanup_failed"}
DomainStates   == {"preparing", "running", "cleaning"} \cup TerminalStates
RunnerStates   == DomainStates \cup {"prepared", "starting"}

\* Error codes, one for each class the runtime treats differently: "failure"
\* stands for start_failed, platform_unavailable, cleanup_failed, journal_failed.
Codes == {"none", "conflict", "reconciliation", "quarantined", "failure",
          "target_excluded"}

Updates == [cmd : Commands, state : DomainStates, replayed : BOOLEAN, code : Codes]

\* runnerStateToDomain
Domain(s) == IF s \in {"prepared", "starting"} THEN "preparing" ELSE s

\* CanReachExecutionState on the states an Agent publishes.
CanReach(s, t) ==
    \/ s = t
    \/ s = "preparing" /\ t \in {"running", "cleaning"} \cup TerminalStates
    \/ s = "running"   /\ t \in {"cleaning"} \cup TerminalStates
    \/ s = "cleaning"  /\ t \in {"released", "cleanup_failed"}

\* ValidateExecutionResult: exactly the failed states carry a code.
ValidResult(u) == u.code # "none" <=> u.state \in {"failed", "cleanup_failed"}

\* stateError
StateError(s) ==
    CASE s = "cleanup_failed"                          -> "quarantined"
      [] s \in {"preparing", "starting", "cleaning"}   -> "reconciliation"
      [] s \in CleanStates                             -> "conflict"
      [] OTHER                                         -> "none"

Pending == {outbox[i] : i \in DOMAIN outbox}
AnyPending == outbox # <<>>          \* mutant: any queued update counts
TerminalPending == \E u \in Pending : u.state \in TerminalStates

---------------------------------------------------------------------------
(* The holder of the execution lock.  state = "unknown" is the empty       *)
(* Snapshot of a call that failed without an observation; cause is the     *)
(* error of the Start whose cleanup is running.                            *)

Idle == [who |-> "none", op |-> "none", cmd |-> NoCommand, replayed |-> FALSE,
         state |-> "unknown", err |-> "none", cause |-> "none"]

Work(who, op, c, replayed) ==
    [Idle EXCEPT !.who = who, !.op = op, !.cmd = c, !.replayed = replayed]

Op(op) == task' = [task EXCEPT !.op = op]

\* The Manager call ends with a Snapshot and an error.
Returned(state, err) ==
    task' = [task EXCEPT !.op = "returned", !.state = state, !.err = err]

\* The holder publishes this observation next.
Publish(state, err) ==
    task' = [task EXCEPT !.op = "publish", !.state = state, !.err = err]

Fault == faults < MaxFaults /\ faults' = faults + 1

NoMonitor == [phase |-> "none", cmd |-> NoCommand, replayed |-> FALSE]

\* startCompletionMonitor: a no-op while a monitor is registered.
StartMonitor ==
    monitor' = IF monitor.phase # "none" THEN monitor
               ELSE [phase |-> "wait", cmd |-> task.cmd, replayed |-> task.replayed]

---------------------------------------------------------------------------
(* Process lifetime *)

Exit ==
    /\ agent' = "down" /\ degraded' = FALSE
    /\ monitor' = NoMonitor /\ terminalAck' = FALSE /\ owns' = "nothing"
    /\ task' = Idle

\* The Agent process dies at any point.
Crash ==
    /\ agent # "down" /\ crashes < MaxCrashes
    /\ crashes' = crashes + 1
    /\ Exit
    /\ UNCHANGED <<runner, journal, excluded, control, faults>>

\* A degraded runtime refuses PendingUpdates: the session ends with
\* ErrAgentRuntimeDegraded and the process exits for the service manager.
DegradedExit ==
    /\ agent = "up" /\ degraded /\ task.who # "session"
    /\ Exit
    /\ UNCHANGED <<runner, journal, excluded, control, bounds>>

\* recoveryCommandPrecedes: the latest epoch, then Cancel over Start over Prepare.
Priority(c) == CASE c.type = "cancel" -> 3 [] c.type = "start" -> 2 [] OTHER -> 1
RecoveryCommand ==
    CHOOSE c \in accepted : \A d \in accepted :
        \/ d.epoch < c.epoch
        \/ d.epoch = c.epoch /\ Priority(d) <= Priority(c)

\* Start begins recoverStartup.  A journal that one table alone knows of is
\* refused: the process exits again.
Boot ==
    /\ agent = "down"
    /\ \/ /\ record = "none" /\ accepted = {}
          /\ agent' = "up"
          /\ UNCHANGED task
       \/ /\ record = "none" /\ accepted # {} /\ RecoveryCommand.type = "prepare"
          /\ agent' = "booting"
          /\ task' = [Work("boot", "publish", RecoveryCommand, TRUE)
                        EXCEPT !.state = "failed", !.err = "reconciliation"]
       \/ /\ record # "none" /\ accepted # {}
          /\ agent' = "booting"
          /\ task' = Work("boot", "recover", RecoveryCommand, TRUE)
    /\ UNCHANGED <<runner, journal, excluded, degraded, monitor, terminalAck, owns,
                   control, bounds>>

---------------------------------------------------------------------------
(* Manager calls *)

Calls == {"prepare", "preparing", "start", "starting", "failing", "destroy",
          "destroying", "recover"}

\* The steps that have touched the runtime and quarantine when they cannot
\* prove what they left.
TouchesRuntime == {"preparing", "starting", "failing", "destroying"}

\* The journal write a call would make next.
NextWrite ==
    \/ task.op = "prepare"    /\ Manager!Move("preparing")
    \/ task.op = "preparing"  /\ (Manager!Prepare \/ Manager!Move("failed"))
    \/ task.op = "start"      /\ Manager!Move("starting")
    \/ task.op = "starting"   /\ (Manager!Move("prepared") \/ Manager!Move("cleaning"))
    \/ task.op = "failing"    /\ Manager!FailStarted
    \/ task.op = "destroy"    /\ Manager!Move("cleaning")
    \/ task.op = "destroying" /\ Manager!Move("released")
    \/ task.op = "recover"    /\ record # "prepared" /\ Manager!Move("cleaning")
    \/ task.op \in TouchesRuntime /\ Manager!Move("cleanup_failed")

\* A journal error ends the call without an observation; the write it was
\* making may have been committed all the same.
CallFails ==
    /\ task.op \in Calls
    /\ Fault
    /\ UNCHANGED runner \/ NextWrite
    /\ \E err \in {"failure", "reconciliation"} : Returned("unknown", err)
    /\ UNCHANGED <<journal, excluded, memory, control, crashes>>

\* quarantine
Quarantine ==
    /\ task.op \in TouchesRuntime
    /\ Manager!Move("cleanup_failed")
    /\ owns' = "nothing"
    /\ Returned("cleanup_failed", "quarantined")
    /\ UNCHANGED <<journal, excluded, agent, degraded, monitor, terminalAck, control, bounds>>

\* EnsurePrepared: replay of an existing record, or the journal row first.
EnsurePrepared ==
    /\ task.op = "prepare"
    /\ \/ /\ record # "none"
          /\ UNCHANGED runner
          /\ \/ Returned(record, StateError(record))
             \/ record \in {"prepared", "starting", "running"}   \* workspace mismatch
                /\ Returned(record, "reconciliation")
       \/ record = "none" /\ Manager!Move("preparing") /\ Op("preparing")
       \/ \* the package cannot be materialized, ownership is unavailable
          record = "none" /\ UNCHANGED runner /\ Returned("unknown", "failure")
    /\ UNCHANGED <<journal, excluded, memory, control, bounds>>

PrepareRoot ==
    /\ task.op = "preparing"
    /\ \/ Manager!Prepare /\ Returned("prepared", "none")
       \/ Manager!Move("failed") /\ Returned("failed", "failure")
    /\ UNCHANGED <<journal, excluded, memory, control, bounds>>

\* EnsureRunning: only a Prepared record is claimed; an owned Running record
\* is the idempotent answer.
EnsureRunning ==
    /\ task.op = "start"
    /\ \/ record = "prepared" /\ Manager!Move("starting") /\ Op("starting")
       \/ /\ UNCHANGED runner
          /\ \/ record = "running" /\ owns = "running" /\ live /\ Returned("running", "none")
             \/ record \in {"prepared", "starting", "running"}
                /\ Returned(record, "reconciliation")
             \/ record \notin {"prepared", "running"}
                /\ Returned(record, StateError(record))
             \/ record = "prepared" /\ Returned("unknown", "failure")  \* no containment
    /\ UNCHANGED <<journal, excluded, memory, control, bounds>>

DeliverJIT ==
    /\ task.op = "starting" /\ record = "starting"
    /\ Manager!Launch
    /\ UNCHANGED <<journal, excluded, memory, task, control, bounds>>

\* Running is durable and owned; if the commit is reported as failed the
\* process is stopped as a failed Start.
CommitRunning ==
    /\ task.op = "starting" /\ Manager!Move("running")
    /\ \/ owns' = "running" /\ Returned("running", "none") /\ UNCHANGED faults
       \/ Fault /\ UNCHANGED <<task, owns>>
    /\ UNCHANGED <<journal, excluded, agent, degraded, monitor, terminalAck, control, crashes>>

\* JIT delivery refused before Start: back to Prepared, reported as an error.
\* A Start that lost its fence leaves Starting behind.
RollbackStart ==
    /\ task.op = "starting"
    /\ \/ Manager!Move("prepared") /\ Returned("unknown", "failure")
       \/ record = "starting" /\ ~started /\ UNCHANGED runner
          /\ Returned("unknown", "reconciliation")
    /\ UNCHANGED <<journal, excluded, memory, control, bounds>>

\* failStartedExecution: stop, claim Cleaning, remove the root, commit Failed.
FailStart ==
    /\ \/ /\ task.op = "starting" /\ record \in {"starting", "running"}
          /\ \/ live /\ Manager!Exit /\ UNCHANGED <<task, owns>>
             \/ ~live /\ Manager!Move("cleaning") /\ Op("failing") /\ owns' = "cleaning"
       \/ /\ task.op = "failing"
          /\ Manager!FailStarted
          /\ owns' = "nothing"
          /\ Returned("failed", "failure")
    /\ UNCHANGED <<journal, excluded, agent, degraded, monitor, terminalAck, control, bounds>>

\* Destroy: a terminal record answers; any other is claimed as Cleaning, and
\* a Cleaning record only by the Manager that already owns it.
Destroy ==
    /\ task.op = "destroy"
    /\ \/ /\ record \in TerminalStates \cup {"none"}
          /\ owns' = "nothing" /\ UNCHANGED runner
          /\ IF record = "none" THEN Returned("unknown", "failure")
             ELSE Returned(record, IF record \in CleanStates THEN "none" ELSE "quarantined")
       \/ record = "cleaning" /\ UNCHANGED <<runner, owns>>
          /\ IF owns = "cleaning" THEN Op("destroying") ELSE Returned(record, "reconciliation")
       \/ Manager!Move("cleaning") /\ owns' = "cleaning" /\ Op("destroying")
    /\ UNCHANGED <<journal, excluded, agent, degraded, monitor, terminalAck, control, bounds>>

\* Stop the boundary, then commit Released over a removed workspace.
Teardown ==
    /\ task.op = "destroying"
    /\ \/ live /\ Manager!Exit /\ UNCHANGED <<task, owns>>
       \/ Manager!Move("released") /\ owns' = "nothing" /\ Returned("released", "none")
    /\ UNCHANGED <<journal, excluded, agent, degraded, monitor, terminalAck, control, bounds>>

\* Recover: adopt Running, resume destructive intents, report the rest.
Recover ==
    /\ task.op = "recover"
    /\ \/ record \in CleanStates \cup {"prepared"} /\ Returned(record, "none")
          /\ UNCHANGED <<runner, owns>>
       \/ record = "cleanup_failed" /\ Returned(record, "quarantined")
          /\ UNCHANGED <<runner, owns>>
       \/ record = "running" /\ owns' = "running" /\ Returned("running", "none")
          /\ UNCHANGED runner
       \/ record \in {"preparing", "starting", "running"} /\ Manager!Move("cleaning")
          /\ owns' = "cleaning" /\ Op("destroying")
       \/ record = "cleaning" /\ owns' = "cleaning" /\ Op("destroying") /\ UNCHANGED runner
    /\ UNCHANGED <<journal, excluded, agent, degraded, monitor, terminalAck, control, bounds>>

---------------------------------------------------------------------------
(* What the holder does with the result of its call *)

\* The exact replay of a command whose runtime was already released.
ReplayDone == task.replayed /\ task.state = "released" /\ task.err = "conflict"

\* Execute after EnsurePrepared or a Cancel's Destroy.
ExecuteReturned ==
    /\ task.op = "returned" /\ task.who = "session" /\ task.cmd.type # "start"
    /\ Publish(task.state, IF ReplayDone THEN "none" ELSE task.err)
    /\ UNCHANGED <<runner, journal, excluded, memory, control, bounds>>

\* Execute after EnsureRunning: a live runner gains its completion owner
\* before anything is persisted.
StartSucceeded ==
    /\ task.op = "returned" /\ task.who = "session" /\ task.cmd.type = "start"
    /\ task.cause = "none"
    /\ task.err = "none" \/ ReplayDone
    /\ IF task.state = "running" THEN StartMonitor ELSE UNCHANGED monitor
    /\ Publish(task.state, "none")
    /\ UNCHANGED <<runner, journal, excluded, agent, degraded, terminalAck, owns, control, bounds>>

\* cleanupAfterFailedStart: a clean terminal record is reported as Failed, a
\* quarantined one as itself, and anything else is destroyed first.
CleanupAfterFailedStart(cause) ==
    IF record \in CleanStates \cup {"none"}
      THEN Publish("failed", cause)
      ELSE IF record = "cleanup_failed"
        THEN Publish("cleanup_failed", "quarantined")
        ELSE task' = [task EXCEPT !.op = "destroy", !.cause = cause]

StartFailed ==
    /\ task.op = "returned" /\ task.who = "session" /\ task.cmd.type = "start"
    /\ task.cause = "none" /\ task.err # "none"
    /\ ~ReplayDone
    /\ CleanupAfterFailedStart(task.err)
    /\ UNCHANGED <<runner, journal, excluded, memory, control, bounds>>

\* The Destroy of a failed Start ended: clean, or quarantined whatever it says.
StartCleanedUp ==
    /\ task.op = "returned" /\ task.who = "session" /\ task.cause # "none"
    /\ IF task.err = "none" THEN Publish("failed", task.cause)
                            ELSE Publish("cleanup_failed", "quarantined")
    /\ UNCHANGED <<runner, journal, excluded, memory, control, bounds>>

MonitorReturned ==
    /\ task.op = "returned" /\ task.who = "monitor"
    /\ Publish(task.state, task.err)
    /\ UNCHANGED <<runner, journal, excluded, memory, control, bounds>>

\* recoverStartup after Recover: resume a Cancel, drop a Prepared root whose
\* Start lost its secret, otherwise publish what survived.
UnfinishedStart ==                   \* mutant: an accepted Cancel is not resumed
    task.cmd.type = "start" /\ task.state = "prepared"
Unfinished ==
    \/ task.cmd.type = "cancel" /\ task.state \notin TerminalStates
    \/ task.cmd.type = "start" /\ task.state = "prepared"

BootReturned ==
    /\ task.op = "returned" /\ task.who = "boot"
    /\ IF Unfinished /\ task.cause = "none"
         THEN task' = [task EXCEPT !.op = "destroy", !.cause = "resumed"]
         ELSE Publish(task.state,
                 CASE task.state = "released" -> "none"
                   [] task.state = "failed" /\ task.err = "none" -> "reconciliation"
                   [] OTHER -> task.err)
    /\ UNCHANGED <<runner, journal, excluded, memory, control, bounds>>

---------------------------------------------------------------------------
(* persistLifecycleUpdate and CommitExecutionLifecycle *)

Update == [cmd |-> task.cmd, state |-> Domain(task.state),
           replayed |-> task.replayed, code |-> task.err]

\* recordObservationTx: an observation never regresses; the exact replay of a
\* queued update may meet a newer one and leaves it.
ObservationAllows(u) ==
    \/ observation = "none"
    \/ CanReach(observation, u.state)
    \/ u \in Pending /\ CanReach(u.state, observation)

\* Without an observation there is nothing to publish, and recovery leaves no
\* Start or Cancel in Preparing.
Committable(u) ==
    /\ task.state # "unknown"
    /\ task.who = "boot" /\ u.state = "preparing" => u.cmd.type = "prepare"
    /\ ValidResult(u) /\ ObservationAllows(u)

\* Observation, tombstone and outbox row in one transaction.
Commit(u) ==
    /\ observation' = IF observation = "none" \/ CanReach(observation, u.state)
                        THEN u.state ELSE observation
    /\ tombstone' = (tombstone \/ u.state = "cleanup_failed")
    /\ outbox' = IF u \in Pending THEN outbox ELSE Append(outbox, u)

\* pendingContainsRecoveryUpdate ignores the replayed flag.
RecoveryPending(u) ==
    \E v \in Pending : v.cmd = u.cmd /\ v.state = u.state /\ v.code = u.code

\* The holder is done: recovery opens the session, a monitor unregisters, and
\* the others release the lock.
Done ==
    /\ task' = Idle
    /\ IF task.who = "boot"
         THEN /\ agent' = "up"
              /\ IF task.state = "running" THEN StartMonitor ELSE UNCHANGED monitor
              /\ UNCHANGED terminalAck
         ELSE /\ UNCHANGED agent
              /\ IF task.who = "monitor"
                   THEN monitor' = NoMonitor /\ terminalAck' = FALSE
                   ELSE UNCHANGED <<monitor, terminalAck>>

PersistUpdate ==
    /\ task.op = "publish"
    /\ IF task.who = "boot" /\ RecoveryPending(Update)
         THEN UNCHANGED <<observation, tombstone, outbox>>
         ELSE Committable(Update) /\ Commit(Update)
    /\ Done
    /\ UNCHANGED <<runner, accepted, maxEpoch, excluded, degraded, owns, control, bounds>>

\* The update is refused, or its commit fails or stays ambiguous: recovery
\* exits the process, a command or a monitor degrades the runtime.
PersistFails ==
    /\ task.op = "publish"
    /\ ~(task.who = "boot" /\ RecoveryPending(Update))
    /\ \/ ~Committable(Update) /\ UNCHANGED <<observation, tombstone, outbox, faults>>
       \/ /\ Committable(Update) /\ Fault
          /\ Commit(Update) \/ UNCHANGED <<observation, tombstone, outbox>>
    /\ IF task.who = "boot"
         THEN Exit
         ELSE Done /\ degraded' = TRUE /\ UNCHANGED owns
    /\ UNCHANGED <<runner, accepted, maxEpoch, excluded, control, crashes>>

---------------------------------------------------------------------------
(* Admission *)

\* What the Controller sends, as long as it knows of no terminal result:
\* Prepare again until it went further, Start once and only after a Prepare
\* that ended in Preparing.  A reconciliation Cancel, for an execution it has
\* given up, may cross any update.
MayDeliver(c) ==
    \/ c.type = "cancel"
    \/ /\ ~closed /\ ~TerminalPending
       /\ \A d \in sent : d.type = "prepare"
       /\ c.type = "start" => observation = "preparing"

\* validateExpectedState: Inspect answers without an error and as expected.
ExpectedState(c) ==
    CASE c.type = "prepare" -> record = "none"
      [] c.type = "start"   -> record = "prepared"
      [] OTHER -> /\ Domain(record) = c.expects
                  /\ \/ record = "prepared"
                     \/ record = "running" /\ owns = "running" /\ live

\* A new command is recorded under the epoch fence before it is executed; an
\* exact replay skips every admission check.
Admissible(c) ==
    /\ c.type # "cancel" => ~degraded
    /\ ExpectedState(c)
    /\ c.epoch >= maxEpoch

Accept(c) ==
    /\ agent = "up" /\ task = Idle
    /\ MayDeliver(c)
    /\ sent' = sent \cup {c}
    /\ \/ /\ c \in accepted
          /\ task' = Work("session", "accepted", c, TRUE)
          /\ UNCHANGED <<accepted, maxEpoch, faults>>
       \/ /\ c \notin accepted /\ Admissible(c)
          /\ accepted' = accepted \cup {c}
          /\ maxEpoch' = c.epoch
          /\ \/ task' = Work("session", "accepted", c, FALSE) /\ UNCHANGED faults
             \/ Fault /\ UNCHANGED task          \* recorded, reported as failed
    /\ UNCHANGED <<runner, observation, tombstone, outbox, excluded, memory, closed, crashes>>

\* Execute: the exclusion set is read from the journal at the exec boundary,
\* and an unreadable set refuses the command too.
Execute ==
    /\ task.op = "accepted"
    /\ \/ /\ task.cmd.type = "cancel"
          /\ Op("destroy") /\ UNCHANGED faults
       \/ /\ task.cmd.type # "cancel" /\ ~excluded
          /\ Op(task.cmd.type) /\ UNCHANGED faults
       \/ /\ task.cmd.type # "cancel"
          /\ \E code \in {"target_excluded", "failure"} :
               /\ IF code = "failure" THEN Fault ELSE excluded /\ UNCHANGED faults
               /\ IF task.cmd.type = "prepare"
                    THEN Publish("failed", code)
                    ELSE CleanupAfterFailedStart(code)
    /\ UNCHANGED <<runner, journal, excluded, memory, control, crashes>>

---------------------------------------------------------------------------
(* Completion monitor *)

\* Wait returns: the boundary is empty, or it cannot be observed.
MonitorWake ==
    /\ agent = "up" /\ monitor.phase = "wait"
    /\ \/ (~live \/ record # "running") /\ UNCHANGED faults
       \/ Fault
    /\ monitor' = [monitor EXCEPT !.phase = "ready"]
    /\ UNCHANGED <<runner, journal, excluded, agent, degraded, terminalAck, owns, task,
                   control, crashes>>

\* Under the execution lock: another owner's terminal update, acknowledged or
\* still queued, ends the monitor; a terminal record is published; anything
\* else is destroyed.
MonitorComplete ==
    /\ agent = "up" /\ task = Idle /\ monitor.phase = "ready"
    /\ \/ /\ terminalAck \/ TerminalPending
          /\ monitor' = NoMonitor /\ terminalAck' = FALSE
          /\ UNCHANGED <<task, degraded, faults>>
       \/ /\ ~terminalAck
          /\ \/ ~TerminalPending /\ UNCHANGED <<degraded, faults>>
             \/ Fault /\ degraded' = TRUE         \* the outbox is unreadable
          /\ LET work(op) == Work("monitor", op, monitor.cmd, monitor.replayed)
             IN  task' = IF record \in TerminalStates
                          THEN [work("publish") EXCEPT !.state = record,
                                  !.err = IF record = "released" THEN "none"
                                          ELSE StateError(record)]
                          ELSE work("destroy")
          /\ UNCHANGED <<monitor, terminalAck>>
    /\ UNCHANGED <<runner, journal, excluded, agent, owns, control, crashes>>

---------------------------------------------------------------------------
(* Acknowledgement *)

\* pruneAcknowledgedTerminalExecution: refused while the outbox still holds
\* an update of the execution, or a tombstone exists.
Prunable == Len(outbox) = 1 /\ ~tombstone

PruneKeepsCommands ==                \* mutant: command_replays keeps its rows
    /\ outbox' = <<>> /\ observation' = "none"
    /\ record' = "none" /\ rooted' = FALSE
    /\ UNCHANGED <<live, started, accepted, maxEpoch, tombstone>>
Prune ==
    /\ outbox' = <<>> /\ accepted' = {} /\ observation' = "none"
    /\ record' = "none" /\ rooted' = FALSE
    /\ UNCHANGED <<live, started, maxEpoch, tombstone>>

\* The marker for a monitor that is still registered.
MarkAcknowledged == terminalAck' = (monitor.phase # "none")

\* The Controller recorded the oldest update and its ACK arrived.
Acknowledge ==
    /\ agent = "up" /\ task.who # "session" /\ outbox # <<>>
    /\ \/ /\ Head(outbox).state \notin TerminalStates
          /\ outbox' = Tail(outbox)
          /\ UNCHANGED <<runner, accepted, maxEpoch, observation, tombstone, terminalAck, closed>>
       \/ /\ Head(outbox).state = "cleanup_failed" /\ task = Idle
          /\ outbox' = Tail(outbox)
          /\ MarkAcknowledged
          /\ UNCHANGED <<runner, accepted, maxEpoch, observation, tombstone, closed>>
       \/ /\ Head(outbox).state \in CleanStates /\ task = Idle /\ Prunable
          /\ Prune
          /\ MarkAcknowledged
          /\ closed' = TRUE
    /\ UNCHANGED <<excluded, agent, degraded, monitor, owns, task, sent, bounds>>

\* A refused or failed acknowledgement ends the process.
AcknowledgeFails ==
    /\ agent = "up" /\ task.who # "session" /\ outbox # <<>>
    /\ \/ /\ Head(outbox).state \in CleanStates /\ task = Idle /\ ~Prunable
          /\ UNCHANGED faults
       \/ Fault
    /\ Exit
    /\ UNCHANGED <<runner, journal, excluded, control, crashes>>

---------------------------------------------------------------------------
(* Environment *)

\* The owner withdraws or returns the Target.
SetExclusion ==
    /\ excluded' = ~excluded
    /\ UNCHANGED <<runner, journal, memory, task, control, bounds>>

\* The job ends and the runner process with it.
ProcessExit ==
    /\ Manager!Exit
    /\ UNCHANGED <<journal, excluded, memory, task, control, bounds>>

Init ==
    /\ Manager!Init
    /\ owns = "nothing" /\ accepted = {} /\ maxEpoch = 0
    /\ observation = "none" /\ tombstone = FALSE /\ outbox = <<>>
    /\ excluded = FALSE
    /\ agent = "down" /\ degraded = FALSE
    /\ monitor = NoMonitor /\ terminalAck = FALSE
    /\ task = Idle
    /\ sent = {} /\ closed = FALSE
    /\ crashes = 0 /\ faults = 0

ManagerStep ==
    \/ CallFails \/ Quarantine \/ EnsurePrepared \/ PrepareRoot \/ EnsureRunning
    \/ DeliverJIT \/ CommitRunning \/ RollbackStart \/ FailStart
    \/ Destroy \/ Teardown \/ Recover

HolderStep ==
    \/ ExecuteReturned \/ StartSucceeded \/ StartFailed \/ StartCleanedUp
    \/ MonitorReturned \/ BootReturned \/ PersistUpdate \/ PersistFails \/ Execute

AgentStep ==
    \/ Boot \/ DegradedExit \/ ManagerStep \/ HolderStep
    \/ MonitorWake \/ MonitorComplete

Next ==
    \/ AgentStep \/ Crash
    \/ \E c \in Commands : Accept(c)
    \/ Acknowledge \/ AcknowledgeFails
    \/ SetExclusion \/ ProcessExit

Spec == Init /\ [][Next]_vars

\* The process is restarted by its service manager, its goroutines keep
\* running, a connected session drains the outbox, and a job ends.
Fairness ==
    /\ WF_vars(Boot) /\ WF_vars(DegradedExit)
    /\ WF_vars(ManagerStep) /\ WF_vars(HolderStep)
    /\ WF_vars(MonitorWake) /\ SF_vars(MonitorComplete)
    /\ WF_vars(ProcessExit)

FairSpec == Spec /\ Fairness

---------------------------------------------------------------------------
(* Correctness *)

\* Type correctness: the runner record, the tables of agent.db (command_replays,
\* observations, tombstones, outbox) and the state of AgentCommandRuntime.  The
\* outbox and the observation only hold states of the wire protocol.
TypeOK ==
    /\ record \in RunnerStates \cup {"none"}
    /\ rooted \in BOOLEAN /\ live \in BOOLEAN /\ started \in BOOLEAN
    /\ owns \in {"nothing", "running", "cleaning"}
    /\ accepted \subseteq Commands /\ sent \subseteq Commands
    /\ maxEpoch \in Nat
    /\ observation \in DomainStates \cup {"none"}
    /\ tombstone \in BOOLEAN /\ excluded \in BOOLEAN
    /\ outbox \in Seq(Updates)
    /\ agent \in {"down", "booting", "up"}
    /\ degraded \in BOOLEAN /\ terminalAck \in BOOLEAN /\ closed \in BOOLEAN
    /\ monitor \in [phase : {"none", "wait", "ready"},
                    cmd : Commands \cup {NoCommand}, replayed : BOOLEAN]
    /\ task \in [who : {"none", "session", "monitor", "boot"},
                 op : Calls \cup {"none", "accepted", "returned", "publish"},
                 cmd : Commands \cup {NoCommand}, replayed : BOOLEAN,
                 state : RunnerStates \cup {"unknown"},
                 err : Codes, cause : Codes \cup {"resumed"}]
    /\ crashes \in 0..MaxCrashes /\ faults \in 0..MaxFaults

\* The Controller releases the slot on a clean terminal update: while one is
\* queued no process of the execution is left.
TerminalUpdateHasNoProcess ==
    (\E u \in Pending : u.state \in CleanStates) => ~live

\* A process that nobody is working on has a completion monitor, unless the
\* node is quarantined or the runtime is about to restart.
MonitorOwnsRunner ==
    agent = "up" /\ task = Idle /\ live
        => monitor.phase # "none" \/ tombstone \/ degraded

\* A quarantined runtime is durably reported: the record never rests in
\* cleanup_failed without a tombstone the Controller is told of.
QuarantineReported ==
    agent = "up" /\ task = Idle /\ record = "cleanup_failed"
        => tombstone \/ degraded

\* A monitor whose record was pruned under it finds the marker of the
\* acknowledgement, so it never takes the absence for a failed cleanup.
PrunedMonitorIsMarked ==
    task = Idle /\ monitor.phase # "none" /\ record = "none" => terminalAck

\* The three tables recovery reads agree after every crash: a record has a
\* command it can be attributed to, and a command without record is a Prepare.
RecoveryHasAuthority ==
    /\ record # "none" => accepted # {}
    /\ record = "none" => \A c \in accepted : c.type = "prepare"

\* Recovery opens the session only over a settled record: an interrupted step
\* was undone, a Start that lost its secret has no root left, and a cancelled
\* runner is not adopted.
RecoverySettles ==
    [][agent = "booting" /\ agent' = "up" =>
         /\ record' \in {"none", "prepared", "running"} \cup TerminalStates
         /\ record' = "prepared" => \A c \in accepted' : c.type = "prepare"
         /\ record' = "running"  => \A c \in accepted' : c.type # "cancel"]_vars

\* A running execution is torn down once its job ends, whatever crashes and
\* whoever cancels it, or the node is quarantined.
RunningIsTornDown == record = "running" ~> record # "running" \/ tombstone

\* Between two holders of the execution the durable tables and the memory tell one
\* story: every process has a monitor, every quarantine a report, every pruned record a
\* marker, every record a command that recovery can attribute it to, and a clean
\* terminal update means there is no process.
TablesAgree ==
    /\ TypeOK
    /\ TerminalUpdateHasNoProcess
    /\ MonitorOwnsRunner
    /\ QuarantineReported
    /\ PrunedMonitorIsMarked
    /\ RecoveryHasAuthority

============================================================================
