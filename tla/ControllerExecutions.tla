------------------------ MODULE ControllerExecutions ------------------------
(***************************************************************************)
(* What the Controller knows about the executions of one node, kept twice: *)
(* durably in SQLite (internal/store/controller_agent.go) and in the       *)
(* process projection admission decides from                               *)
(* (internal/reconcile/controller.go).  Three actors change them: the      *)
(* Agent session, which commits a snapshot or an execution update and then *)
(* projects it; the claim coordinator, which commits a command, an adoption*)
(* or a failure and then projects it                                       *)
(* (internal/app/controller_reconcile_actions.go); and the operator.  A    *)
(* restart of the Controller loses the projection, and a lost session      *)
(* leaves the Agent's outbox to be sent again.                             *)
(*                                                                         *)
(* The Agent is the journal AgentCommands describes, moved one step per    *)
(* command: an observation for each execution, the commands it accepted,   *)
(* its cleanup tombstones and its FIFO outbox.                             *)
(***************************************************************************)
EXTENDS Naturals, Sequences, FiniteSets

CONSTANTS
    Exec,           \* execution IDs
    MaxEpoch,       \* bound: Controller starts
    MaxFaults       \* bound: restarts, lost sessions and journals, readiness and
                    \* operator changes, together

ASSUME ExecutionConstants ==
    /\ IsFiniteSet(Exec)
    /\ MaxEpoch \in Nat \ {0} /\ MaxFaults \in Nat

VARIABLES
    \* SQLite
    epoch,          \* metadata controller_epoch
    desired,        \* executions: state, "none" before the claim
    slots,          \* slot_reservations: executions that hold a slot
    issued,         \* agent_commands
    applied,        \* agent_execution_updates
    authority,      \* agent_snapshot_authority and the current snapshot tables
    seenStates,     \* agent_snapshot_observations
    admin,          \* node_administrative_states
    fence,          \* durable GitHub fence of each execution
    \* the process
    p,              \* reconcile.Controller: the node's projection
    sess,           \* Agent session and what its reader is doing
    drv,            \* claim coordinator: what it has committed but not projected
    \* the Agent
    a, outbox, wire, lost,
    mgmt,           \* operator change committed but not projected
    faults

store   == <<epoch, desired, slots, issued, applied, authority, seenStates, admin, fence>>
agent   == <<a, outbox, lost>>
bounds  == <<faults, mgmt>>
vars    == <<store, p, sess, drv, agent, wire, bounds>>

---------------------------------------------------------------------------
(* Execution states *)

Clean    == {"released", "failed"}
Active   == {"preparing", "running", "cleaning"}
States   == {"reserved"} \cup Active \cup Clean \cup {"cleanup_failed", "quarantined"}
Terminal == Clean \cup {"quarantined"}         \* terminalExecution
Reported == Terminal \cup {"cleanup_failed"}   \* terminalAgentExecutionObservation
Local    == Active \cup {"cleanup_failed"}     \* localRuntimeMayExist

\* CanReachExecutionState: validExecutionTransition closed under composition.
CanReach(s, t) ==
    \/ s = t
    \/ s = "reserved"       /\ t \in States
    \/ s = "preparing"      /\ t \in States \ {"reserved"}
    \/ s = "running"        /\ t \in States \ {"reserved", "preparing"}
    \/ s = "cleaning"       /\ t \in {"released", "cleanup_failed", "quarantined"}
    \/ s = "cleanup_failed" /\ t = "quarantined"

---------------------------------------------------------------------------
(* Snapshots, commands and updates.  The digest of a snapshot covers its   *)
(* journal and not its readiness; folding an update gives an observation a *)
(* Controller timestamp, so a folded snapshot has a digest of its own.     *)

Snapshot(m, cs, o, t, r) ==
    [max |-> m, cmds |-> cs, obs |-> o, tomb |-> t, ready |-> r, folded |-> FALSE]
Nothing  == [e \in Exec |-> "none"]
NoSnap   == Snapshot(0, {}, Nothing, {}, FALSE)
Digest(s) == [s EXCEPT !.ready = FALSE]
Journal(r) == Snapshot(a.max, a.cmds, a.obs, a.tomb, r)

Cmd(t, e, ep, x) ==
    [type |-> t, exec |-> e, epoch |-> ep, expects |-> x, at |-> "none", attempt |-> 0]
NoCmd == Cmd("none", 0, 0, "none")
\* deterministicCommandID: one Prepare for an execution whatever the epoch.
SameID(c, d) == c.type = d.type /\ c.exec = d.exec /\ (c.type = "prepare" \/ c = d)

Update(c, s, r) == [cmd |-> c, state |-> s, replayed |-> r]

\* agentCommandMayReport
NoFailedTeardown(c, s) ==            \* mutant: a Start may not report a failed teardown
    IF c.type = "prepare" THEN CanReach("preparing", s) ELSE s # "cleanup_failed"
MayReport(c, s) ==
    CASE c.type = "prepare" -> CanReach("preparing", s)
      [] c.type = "start"   -> s \in {"running", "cleaning"} \cup Reported
      [] c.type = "cancel"  -> s \in {"cleaning", "released", "cleanup_failed", "quarantined"}

---------------------------------------------------------------------------
(* reconcile.Controller *)

Action(k, e, x, o, s) ==
    [kind |-> k, exec |-> e, expects |-> x, observed |-> o, digest |-> Digest(s)]

\* githubFenceAction: what the durable provider fence asks for.
FenceAction(q, s, e) ==
    Action(IF q.fences[e] = "accepted" THEN "await_agent"
           ELSE IF \E c \in s.cmds : c.type = "start" /\ c.exec = e
                THEN "confirm_start" ELSE "observe_runner",
           e, "none", "none", s)

\* recoveryAction: only an issued Prepare is replayed, never a Start.
Recovery(q, s, e) ==
    LET d == q.execs[e] IN
    IF d \in {"reserved", "preparing"} /\ \E c \in q.cmds : c.type = "prepare" /\ c.exec = e
    THEN [act |-> {Action("replay", e, d, "none", s)}, blocked |-> FALSE]
    ELSE IF d = "reserved"
    THEN [act |-> {Action("issue_prepare", e, d, "none", s)}, blocked |-> FALSE]
    ELSE [act |-> {Action("destroy", e, d, "none", s)}, blocked |-> TRUE]

\* A closed or unknown execution that still has a runtime has to be destroyed.
OnlyRunning(o) == o = "running"      \* mutant: a teardown under way is overlooked
Leftover(o) == o \in Local

\* The body of the loop over desired executions in reconcileAgentSnapshotAt.
Plan(q, s, e) ==
    LET d     == q.execs[e]
        o     == s.obs[e]
        amb   == q.fences[e] # "none"
        fact  == IF amb THEN {FenceAction(q, s, e)} ELSE {}
        Take(acts, b, u) == [act |-> acts, blocked |-> b, uncertain |-> u]
        destroy == Action("destroy", e, d, o, s)
        persist == Action("quarantine", e, "none", "none", s)
    IN CASE d = "none" ->
              Take(IF Leftover(o) THEN {destroy} ELSE {}, Leftover(o), FALSE)
         [] d \in Terminal ->
              Take(fact \cup (IF Leftover(o) THEN {destroy} ELSE {}), Leftover(o), FALSE)
         [] d \notin Terminal \cup {"none"} /\ e \in s.tomb -> Take({persist}, FALSE, TRUE)
         [] d \notin Terminal \cup {"none"} /\ e \notin s.tomb
            /\ o \in {"cleanup_failed", "quarantined"} ->
              Take(fact \cup {persist}, FALSE, TRUE)
         [] OTHER ->
              IF o = d THEN Take(fact, FALSE, FALSE)
              ELSE IF o # "none" /\ CanReach(d, o)
              THEN Take(fact \cup {Action("adopt", e, d, o, s)}, FALSE, FALSE)
              ELSE IF o # "none" /\ ~CanReach(o, d) THEN Take(fact \cup {destroy}, TRUE, FALSE)
              ELSE IF amb THEN Take(fact, o # "none", FALSE)
              ELSE IF o # "none" \/ d \in {"reserved", "preparing"}
              THEN LET r == Recovery(q, s, e) IN Take(r.act, r.blocked, FALSE)
              ELSE IF d = "cleanup_failed" THEN Take({persist}, FALSE, TRUE)
              ELSE Take({destroy}, TRUE, FALSE)

\* The end of reconcileAgentSnapshotAt: the most restrictive condition wins.
Phase(state, uncertain, healthy, blocked, acts) ==
    CASE uncertain                                       -> "quarantined"
      [] ~uncertain /\ state = "revoked"                 -> "revoked"
      [] ~uncertain /\ state # "revoked" /\ ~healthy     -> "degraded"
      [] OTHER -> IF blocked THEN "reconciling"
                  ELSE IF state = "draining" THEN "draining"
                  ELSE IF acts # {} THEN "reconciling" ELSE "ready"

\* reconcileAgentSnapshotAt: the whole projection is derived again.
Reconcile(q, s) ==
    LET plans     == [e \in Exec |-> Plan(q, s, e)]
        acts      == UNION {plans[e].act : e \in Exec}
        uncertain == s.tomb # {} \/ \E e \in Exec : plans[e].uncertain
        blocked   == \E e \in Exec : plans[e].blocked
        state     == IF uncertain THEN "quarantined" ELSE q.admin
        phase     == Phase(state, uncertain, q.update /\ s.ready, blocked, acts)
    IN [q EXCEPT !.snap = s, !.seen = TRUE, !.actions = acts, !.admin = state,
                 !.phase = phase,
                 !.capable = ~blocked /\ phase \in {"draining", "reconciling", "ready"}]

\* Every Apply* derives the projection again from the retained snapshot, when
\* the node has been seen.
Refresh(q) == IF q.seen THEN Reconcile(q, q.snap) ELSE q
ApplyAgentReadiness(q, r)   == Refresh([q EXCEPT !.snap.ready = r])
ApplyIssuedCommand(q, c)    == Refresh([q EXCEPT !.cmds = @ \cup {c}])
ApplyGitHubFence(q, f)      == Refresh([q EXCEPT !.fences = f])
ApplyGitHubClaim(q, e)      == Refresh([q EXCEPT !.execs[e] = "reserved", !.res = @ \cup {e}])
ApplyDesiredExecution(q, e, s) ==                 \* refused when already passed
    IF ~CanReach(q.execs[e], s) THEN q
    ELSE Refresh([q EXCEPT !.execs[e] = s, !.res = IF s \in Terminal THEN @ \ {e} ELSE @])

\* Admission
AllowsRecovery(q) == q.seen /\ q.capable /\ q.admin = "active" /\ q.update
AllowsNewCapacity(q) ==
    /\ AllowsRecovery(q) /\ q.phase = "ready" /\ q.actions = {}
    /\ \A e \in Exec : q.execs[e] # "none" => q.fences[e] = "none"

\* Restore: every node starts offline, every reservation suppressed.
Restore(d, r, cs, f, ad, u) ==
    [fences |-> f, execs |-> d, res |-> r, cmds |-> cs, snap |-> NoSnap, seen |-> FALSE, update |-> u,
     admin |-> ad, phase |-> "offline", capable |-> FALSE, actions |-> {}]

\* Fold an update into the retained snapshot.
Fold(q, u) ==
    [q.snap EXCEPT !.cmds = @ \cup {u.cmd}, !.obs[u.cmd.exec] = u.state, !.folded = TRUE,
                   !.max = IF u.cmd.epoch > @ THEN u.cmd.epoch ELSE @]

---------------------------------------------------------------------------
Down(s)   == [link |-> s, snap |-> NoSnap, upd |-> Update(NoCmd, "none", FALSE)]
Idle      == [op |-> "idle", cmd |-> NoCmd, exec |-> 0, state |-> "none"]

Init ==
    /\ epoch = 1 /\ admin = "active"
    /\ desired = Nothing /\ seenStates = Nothing /\ fence = Nothing
    /\ slots = {} /\ issued = {} /\ applied = {}
    /\ authority = [snap |-> NoSnap, epoch |-> 0]
    /\ p = Restore(Nothing, {}, {}, Nothing, "active", TRUE)
    /\ sess = Down("down") /\ drv = Idle
    /\ a = [max |-> 0, cmds |-> {}, obs |-> Nothing, tomb |-> {}]
    /\ outbox = <<>> /\ wire = NoCmd /\ lost = {}
    /\ faults = 0 /\ mgmt = "none"

Fault == faults < MaxFaults /\ faults' = faults + 1

---------------------------------------------------------------------------
(* The session: snapshot, projection, updates, disconnect *)

\* The Agent answers the snapshot request; a command the last session wrote
\* was handled before or never arrives.  The broker starts no capture while a
\* command is in flight, so this snapshot decides every Start written before.
Connect ==
    /\ sess.link = "down" /\ drv.op \notin {"commit", "replay", "cancel", "send", "await"}
    /\ \E r \in BOOLEAN :
         /\ sess' = [Down("captured") EXCEPT !.snap = Journal(r)]
         /\ IF r THEN UNCHANGED faults ELSE Fault
    /\ wire' = NoCmd
    /\ fence' = [e \in Exec |-> IF fence[e] = "dispatching" THEN "observed" ELSE fence[e]]
    /\ UNCHANGED <<epoch, desired, slots, issued, applied, authority, seenStates, admin,
                   p, drv, agent, mgmt>>

\* recordSnapshotCommand / Observation and the epoch checks of RecordAgentSnapshot.
SnapshotAccepted(s) ==
    /\ admin # "revoked"
    /\ s.max <= epoch /\ s.max >= authority.snap.max
    /\ s.cmds \subseteq issued
    /\ \A e \in Exec : s.obs[e] # "none" =>
         /\ desired[e] # "none"
         /\ seenStates[e] # "none" => CanReach(seenStates[e], s.obs[e])

Uncertain(s) == s.tomb # {} \/ \E e \in Exec : s.obs[e] \in {"cleanup_failed", "quarantined"}

RecordAgentSnapshot ==
    /\ sess.link = "captured"
    /\ IF SnapshotAccepted(sess.snap)
       THEN /\ authority' = [snap |-> sess.snap, epoch |-> epoch]
            /\ seenStates' = [e \in Exec |-> IF sess.snap.obs[e] = "none" THEN seenStates[e]
                                             ELSE sess.snap.obs[e]]
            /\ admin' = IF Uncertain(sess.snap) THEN "quarantined" ELSE admin
            /\ sess' = [sess EXCEPT !.link = "recorded"]
       ELSE sess' = Down("down") /\ UNCHANGED <<authority, seenStates, admin>>
    /\ UNCHANGED <<epoch, desired, slots, issued, applied, fence, p, drv, agent, wire, bounds>>

\* ReconcileAgentSnapshot, then the session becomes the node's session.  Every
\* command the store knows has been projected: a capture waits for the dispatch.
ProjectSnapshot ==
    /\ sess.link = "recorded"
    /\ p' = Reconcile(p, sess.snap) /\ sess' = [sess EXCEPT !.link = "up"]
    /\ UNCHANGED <<store, drv, agent, wire, bounds>>

\* HandleAgentReadiness: the lease expires or is renewed; the store moves only
\* the readiness of the exact snapshot, then the projection is derived again.
HandleAgentReadiness ==
    /\ sess.link = "up" /\ Fault
    /\ LET r == ~authority.snap.ready IN
       IF admin # "revoked" /\ authority.epoch = epoch
          /\ Digest(authority.snap) = Digest(sess.snap) /\ p.seen
       THEN /\ authority' = [authority EXCEPT !.snap.ready = r]
            /\ p' = ApplyAgentReadiness(p, r)
            /\ UNCHANGED sess
       ELSE sess' = Down("closing") /\ UNCHANGED <<authority, p>>
    /\ UNCHANGED <<epoch, desired, slots, issued, applied, seenStates, admin, fence,
                   drv, agent, wire, mgmt>>

\* validateAgentExecutionUpdate .. the compare-and-swap of RecordAgentExecutionUpdate.
Reconciliation(c) == c.at # "none"
UpdateAccepted(u) ==
    LET d == desired[u.cmd.exec] IN
    /\ admin # "revoked" /\ u.cmd \in issued /\ MayReport(u.cmd, u.state)
    /\ IF Reconciliation(u.cmd)
       THEN d \in Clean /\ u.state \in {"cleaning"} \cup Reported
       ELSE d = u.state \/ CanReach(d, u.state)
    /\ u.state \in Terminal /\ ~Reconciliation(u.cmd) => u.cmd.exec \in slots

\* An Agent terminal state returns the slot; cleanup uncertainty keeps it.
FreesSlot(u) == u.state \in Terminal
RecordAgentExecutionUpdate ==
    /\ sess.link = "up" /\ outbox # <<>>
    /\ LET u == Head(outbox) e == u.cmd.exec IN
       IF u \in applied
       THEN sess' = [sess EXCEPT !.link = "project", !.upd = u]
            /\ UNCHANGED <<desired, slots, applied, admin>>
       ELSE IF ~UpdateAccepted(u)
       THEN sess' = Down("closing") /\ UNCHANGED <<desired, slots, applied, admin>>
       ELSE /\ desired' = IF Reconciliation(u.cmd) THEN desired
                          ELSE [desired EXCEPT ![e] = u.state]
            /\ slots' = IF FreesSlot(u) /\ ~Reconciliation(u.cmd) THEN slots \ {e} ELSE slots
            /\ admin' = IF u.state \in {"cleanup_failed", "quarantined"}
                        THEN "quarantined" ELSE admin
            /\ applied' = applied \cup {u}
            /\ sess' = [sess EXCEPT !.link = "project", !.upd = u]
    /\ UNCHANGED <<epoch, issued, authority, seenStates, fence, p, drv, agent, wire, bounds>>

\* ApplyExecutionUpdate
UpdateProjects(q, u) ==
    LET e == u.cmd.exec IN
    /\ u.cmd \in q.cmds
    /\ q.execs[e] = u.state \/ CanReach(q.execs[e], u.state)
    /\ q.seen => Fold(q, u).max <= epoch /\ Fold(q, u).cmds \subseteq q.cmds
Quarantines(q, u) ==
    IF u.state \in {"cleanup_failed", "quarantined"} THEN "quarantined" ELSE q.admin
ApplyExecutionUpdate(q, u) ==
    Refresh([q EXCEPT !.execs[u.cmd.exec] = u.state, !.snap = Fold(q, u),
                      !.res = IF u.state \in Terminal THEN @ \ {u.cmd.exec} ELSE @,
                      !.admin = Quarantines(q, u)])

\* ApplyReconciliationExecutionUpdate: teardown evidence moves the retained
\* observation and never the closed execution.
TeardownProjects(q, u) ==
    LET o == q.snap.obs[u.cmd.exec] IN
    /\ q.execs[u.cmd.exec] \in Terminal /\ u.cmd \in q.cmds /\ u.cmd.type = "cancel"
    /\ o = "none" \/ CanReach(o, u.state)
ApplyReconciliationExecutionUpdate(q, u) ==
    Refresh([q EXCEPT !.snap = Fold(q, u), !.admin = Quarantines(q, u)])

ProjectUpdate ==
    /\ sess.link = "project"
    /\ LET u == sess.upd
           ok == IF Reconciliation(u.cmd) THEN TeardownProjects(p, u) ELSE UpdateProjects(p, u)
       IN IF ok
          THEN /\ p' = IF Reconciliation(u.cmd) THEN ApplyReconciliationExecutionUpdate(p, u)
                       ELSE ApplyExecutionUpdate(p, u)
               /\ sess' = [sess EXCEPT !.link = "ack"]
          ELSE sess' = Down("closing") /\ UNCHANGED p
    /\ UNCHANGED <<store, drv, agent, wire, bounds>>

\* The acknowledgement: the Agent removes the update and forgets a finished
\* execution; the coordinator waiting for this command gets its answer.
Acknowledge ==
    /\ sess.link = "ack"
    /\ LET u == sess.upd e == u.cmd.exec IN
       /\ outbox' = Tail(outbox)
       /\ a' = IF u.state \in Clean /\ a.obs[e] \in Clean
               THEN [a EXCEPT !.obs[e] = "none",
                              !.cmds = {c \in @ : c.exec # e}]
               ELSE a
       /\ drv' = IF drv.op = "await" /\ drv.cmd = u.cmd
                 THEN [drv EXCEPT !.op = "answered", !.state = u.state] ELSE drv
       /\ sess' = [sess EXCEPT !.link = "up"]
    /\ UNCHANGED <<store, p, lost, wire, bounds>>

\* The connection is lost: what was being projected may or may not have been,
\* and the update is sent again.
LoseSession ==
    /\ sess.link \notin {"down", "closing"} /\ Fault
    /\ sess' = [sess EXCEPT !.link = IF @ \in {"captured", "recorded"} THEN "down" ELSE "closing"]
    /\ UNCHANGED <<store, p, drv, agent, wire, mgmt>>

\* HandleAgentDisconnect: readiness of the exact snapshot is revoked, then the
\* projection goes offline and keeps what it has seen.
Offline(q) == [q EXCEPT !.capable = FALSE, !.actions = {},
               !.phase = IF q.admin \in {"quarantined", "revoked", "draining"}
                         THEN q.admin ELSE "offline"]
HandleAgentDisconnect ==
    /\ sess.link = "closing"
    /\ sess' = Down("down")
    /\ IF admin # "revoked" /\ authority.epoch = epoch
          /\ Digest(authority.snap) = Digest(sess.snap)
       THEN authority' = [authority EXCEPT !.snap.ready = FALSE] /\ p' = Offline(p)
       ELSE UNCHANGED <<authority, p>>
    /\ UNCHANGED <<epoch, desired, slots, issued, applied, seenStates, admin, fence,
                   drv, agent, wire, bounds>>

---------------------------------------------------------------------------
(* The claim coordinator *)

Do(op, c, e, s) == drv' = [op |-> op, cmd |-> c, exec |-> e, state |-> s]
Online == sess.link \in {"up", "project", "ack"}
DurableReady == authority.snap.ready /\ authority.epoch = epoch
                /\ Digest(authority.snap) = Digest(sess.snap)

\* CommitGitHubMessage creates the claim, its execution and its reservation.
CommitClaim(e) ==
    /\ drv = Idle /\ desired[e] = "none" /\ slots = {} /\ admin = "active"
    /\ Online /\ DurableReady /\ AllowsNewCapacity(p)
    /\ desired' = [desired EXCEPT ![e] = "reserved"]
    /\ slots' = slots \cup {e}
    /\ Do("claim", NoCmd, e, "reserved")
    /\ UNCHANGED <<epoch, issued, applied, authority, seenStates, admin, fence,
                   p, sess, agent, wire, bounds>>

\* The projection takes the committed row.
ProjectDesired ==
    /\ drv.op \in {"claim", "desired"}
    /\ p' = IF drv.op = "claim" THEN ApplyGitHubClaim(p, drv.exec)
             ELSE ApplyDesiredExecution(p, drv.exec, drv.state)
    /\ drv' = Idle
    /\ UNCHANGED <<store, sess, agent, wire, bounds>>

\* requireRunnerAdmission
RunnerAdmission == Online /\ sess.snap.ready /\ DurableReady /\ AllowsRecovery(p)

\* driveNodeReconciliationAction comes first: the claim driver is reached only
\* when nothing is left but the actions it owns itself.
AlwaysHanded(e) == TRUE              \* mutant: the claim is driven whatever is pending
Handed(e) ==
    \A x \in p.actions :
        \/ x.kind \in {"issue_prepare", "confirm_start", "observe_runner", "await_agent"}
        \/ x.kind = "quarantine" /\ fence[e] # "none" /\ x.exec = e

\* The first Prepare of an execution.
SendPrepare(e) ==
    /\ drv = Idle /\ desired[e] = "reserved" /\ RunnerAdmission /\ Handed(e)
    /\ Do("commit", Cmd("prepare", e, epoch, "reserved"), e, "none")
    /\ UNCHANGED <<store, p, sess, agent, wire, bounds>>

\* generateAndStart: the fence is durable and projected before the Start.
SendStart(e) ==
    /\ drv = Idle /\ desired[e] = "preparing" /\ fence[e] = "none" /\ RunnerAdmission
    /\ Handed(e)
    /\ fence' = [fence EXCEPT ![e] = "dispatching"]
    /\ p' = ApplyGitHubFence(p, fence')
    /\ LET n == Cardinality({c \in issued : c.type = "start" /\ c.exec = e}) + 1 IN
       Do("commit", [Cmd("start", e, epoch, "preparing") EXCEPT !.attempt = n], e, "none")
    /\ UNCHANGED <<epoch, desired, slots, issued, applied, authority, seenStates, admin,
                   sess, agent, wire, bounds>>

\* A Start is proved absent only by a snapshot captured after it was written.
StartAbsent(e) == fence[e] = "observed" /\ Online

\* The provider fence is settled (GitHubClaims): the Start is proved accepted,
\* or proved absent by the snapshot and by GitHub, or its execution is over.
SettleFence(e) ==
    /\ drv = Idle /\ fence[e] # "none" /\ Handed(e)
    /\ \E x \in p.actions : x.exec = e /\ x.kind \in {"confirm_start", "observe_runner", "await_agent"}
    /\ LET starts == {c \in p.snap.cmds : c.type = "start" /\ c.exec = e} IN
       fence' = [fence EXCEPT ![e] =
         IF desired[e] \in Reported \cup {"running", "cleaning"} THEN "none"
         ELSE IF starts # {} THEN "accepted"
         ELSE IF StartAbsent(e) THEN "none" ELSE @]
    /\ fence' # fence
    /\ p' = ApplyGitHubFence(p, fence')
    /\ UNCHANGED <<epoch, desired, slots, issued, applied, authority, seenStates, admin,
                   sess, drv, agent, wire, bounds>>

\* replayPrepareAction and destroyOrFailAction send under the authority of the
\* snapshot the action was derived from.
ActionOf(e, k) == {x \in p.actions : x.exec = e /\ x.kind = k}
CurrentAction(x) == x.digest = Digest(sess.snap)
ReplayPrepare(e) ==
    /\ drv = Idle /\ Online
    /\ \E x \in ActionOf(e, "replay"), c \in issued :
         /\ CurrentAction(x) /\ c.type = "prepare" /\ c.exec = e
         /\ Do("replay", c, e, "none")
    /\ UNCHANGED <<store, p, sess, agent, wire, bounds>>

SendReconciliationCancel(e) ==
    /\ drv = Idle /\ Online
    /\ \E x \in ActionOf(e, "destroy") :
         /\ x.expects \in Clean /\ x.observed \in Active /\ CurrentAction(x)
         /\ Do("cancel", [Cmd("cancel", e, epoch, x.observed) EXCEPT !.at = x.observed],
               e, "none")
    /\ UNCHANGED <<store, p, sess, agent, wire, bounds>>

\* requireCurrentAgentSnapshotAuthority
CurrentAuthority(d) == Digest(authority.snap) = d /\ authority.epoch = epoch

\* CommitAgentCommand, CommitAgentReconciliationCommand and ReplayAgentCommand:
\* the row is durable before the command is written.
OrdinaryCommit(c) == admin = "active" /\ c.epoch = epoch /\ desired[c.exec] = c.expects
CancelCommit(c) ==
    /\ admin # "revoked" /\ c.epoch = epoch /\ CurrentAuthority(Digest(sess.snap))
    /\ desired[c.exec] \in Clean /\ authority.snap.obs[c.exec] = c.expects
ReplayCommit(c) == admin # "revoked" /\ c \in issued /\ CurrentAuthority(Digest(sess.snap))
CommitCommand ==
    /\ drv.op \in {"commit", "replay", "cancel"}
    /\ LET c == drv.cmd
           known == {d \in issued : SameID(c, d)}
           ok == CASE drv.op = "replay" -> ReplayCommit(c)
                   [] drv.op = "commit" -> IF known # {} THEN known = {c} ELSE OrdinaryCommit(c)
                   [] drv.op = "cancel" -> IF known # {} THEN known = {c} ELSE CancelCommit(c)
       IN IF Online /\ ok
          THEN issued' = issued \cup {c} /\ drv' = [drv EXCEPT !.op = "send"]
          ELSE drv' = Idle /\ UNCHANGED issued
    /\ UNCHANGED <<epoch, desired, slots, applied, authority, seenStates, admin, fence,
                   p, sess, agent, wire, bounds>>

\* ApplyIssuedCommand, then the write.
SendCommand ==
    /\ drv.op = "send"
    /\ p' = ApplyIssuedCommand(p, drv.cmd)
    /\ IF Online THEN wire' = drv.cmd /\ drv' = [drv EXCEPT !.op = "await"]
       ELSE drv' = Idle /\ UNCHANGED wire
    /\ UNCHANGED <<store, sess, agent, bounds>>

\* The first update for the command, or the end of its session.
CommandAnswered ==
    /\ \/ drv.op = "answered"
       \/ drv.op = "await" /\ ~Online
    /\ IF drv.op = "answered" /\ drv.cmd.type = "start" /\ drv.state = "running"
       THEN fence' = [fence EXCEPT ![drv.exec] = "none"]
            /\ p' = ApplyGitHubFence(p, fence')
       ELSE UNCHANGED <<fence, p>>
    /\ drv' = Idle
    /\ UNCHANGED <<epoch, desired, slots, issued, applied, authority, seenStates, admin,
                   sess, agent, wire, bounds>>

\* AdoptAgentSnapshotObservation; a terminal observation waits for its update.
AdoptObservation(e) ==
    /\ drv = Idle
    /\ \E x \in ActionOf(e, "adopt") :
         /\ CurrentAuthority(x.digest) /\ desired[e] = x.expects
         /\ authority.snap.obs[e] = x.observed /\ x.observed \notin Reported
         /\ CanReach(desired[e], x.observed)
         /\ desired' = [desired EXCEPT ![e] = x.observed]
         /\ Do("desired", NoCmd, e, x.observed)
    /\ UNCHANGED <<epoch, slots, issued, applied, authority, seenStates, admin, fence,
                   p, sess, agent, wire, bounds>>

\* FailDesiredExecutionFromSnapshot: the current snapshot has no runtime.
NotObserved(e) == authority.snap.obs[e] = "none"
FailDesired(e) ==
    /\ drv = Idle
    /\ \E x \in ActionOf(e, "destroy") :
         /\ x.observed = "none" /\ CurrentAuthority(x.digest)
         /\ desired[e] = x.expects /\ desired[e] \notin Terminal /\ NotObserved(e)
         /\ e \in slots
    /\ desired' = [desired EXCEPT ![e] = "failed"]
    /\ slots' = slots \ {e}
    /\ Do("desired", NoCmd, e, "failed")
    /\ UNCHANGED <<epoch, issued, applied, authority, seenStates, admin, fence,
                   p, sess, agent, wire, bounds>>

---------------------------------------------------------------------------
(* The Agent: accept a command, move the execution, publish *)

Report(c, s, r) ==
    LET u == Update(c, s, r) IN
    outbox' = IF \E i \in DOMAIN outbox : outbox[i] = u THEN outbox ELSE Append(outbox, u)
AgentHandles ==
    /\ wire # NoCmd
    /\ wire' = NoCmd
    /\ LET c == wire e == wire.exec IN
       \/ \* an exact replay answers with the current observation
          /\ c \in a.cmds /\ a.obs[e] # "none"
          /\ Report(c, a.obs[e], TRUE) /\ UNCHANGED <<a, sess>>
       \/ \* accepted: journaled and observed before it is published
          /\ c \notin a.cmds /\ c.epoch >= a.max
          /\ a.obs[e] = IF c.expects = "reserved" THEN "none" ELSE c.expects
          /\ \E s \in CASE c.type = "prepare" -> {"preparing", "failed"}
                        [] c.type = "start"   -> {"running", "failed"}
                        [] c.type = "cancel"  -> {"cleaning"} :
               /\ a' = [a EXCEPT !.cmds = @ \cup {c}, !.max = c.epoch, !.obs[e] = s]
               /\ Report(c, s, FALSE)
          /\ UNCHANGED sess
       \/ \* refused: the Agent ends the session
          /\ c \notin a.cmds
          /\ c.epoch < a.max \/ a.obs[e] # IF c.expects = "reserved" THEN "none" ELSE c.expects
          /\ sess' = IF Online THEN Down("closing") ELSE sess
          /\ UNCHANGED <<a, outbox>>
    /\ UNCHANGED <<store, p, drv, lost, bounds>>

\* The runner ends and is torn down, under the command that owns it last; a
\* teardown that cannot journal its end is published as Cleaning.
AgentMoves(e) ==
    /\ a.obs[e] \in {"running", "cleaning"}
    /\ \E c \in a.cmds, s \in {"cleaning", "released", "cleanup_failed"} :
         /\ c.exec = e /\ c.type \in {"start", "cancel"}
         /\ \A d \in a.cmds : d.exec = e /\ d.type = "cancel" => c.type = "cancel"
         /\ a.obs[e] # s
         /\ a' = [a EXCEPT !.obs[e] = s,
                           !.tomb = IF s = "cleanup_failed" THEN @ \cup {e} ELSE @]
         /\ Report(c, s, FALSE)
    /\ UNCHANGED <<store, p, sess, drv, wire, lost, bounds>>

\* The Agent comes up on an empty journal (its database was removed), and
\* later on the old one again.
AgentStateLost ==
    /\ sess.link = "down" /\ lost = {} /\ wire = NoCmd /\ Fault
    /\ a.max > 0
    /\ lost' = {[journal |-> a, queue |-> outbox]}
    /\ a' = [max |-> 0, cmds |-> {}, obs |-> Nothing, tomb |-> {}] /\ outbox' = <<>>
    /\ UNCHANGED <<store, p, sess, drv, wire, mgmt>>
AgentStateBack ==
    /\ sess.link = "down" /\ wire = NoCmd /\ a.max = 0 /\ lost # {}
    /\ \E l \in lost : l.journal # a /\ a' = l.journal /\ outbox' = l.queue
    /\ lost' = {[journal |-> a, queue |-> <<>>]}
    /\ UNCHANGED <<store, p, sess, drv, wire, bounds>>

---------------------------------------------------------------------------
(* Operator, release feed, restart *)

\* SetNodeAdministrativeStateWithAudit: only a draining node resumes, only an
\* active one drains, and revocation ends the session.
SetNodeAdministrativeState ==
    /\ Fault /\ mgmt = "none"
    /\ \E next \in {"active", "draining", "revoked"} :
         /\ CASE next = "active"   -> admin = "draining"
              [] next = "draining" -> admin = "active"
              [] next = "revoked"  -> admin # "revoked"
         /\ admin' = next /\ mgmt' = next
         /\ sess' = IF next # "revoked" THEN sess
                    ELSE IF Online THEN [sess EXCEPT !.link = "closing"] ELSE Down("down")
    /\ UNCHANGED <<epoch, desired, slots, issued, applied, authority, seenStates, fence,
                   p, drv, agent, wire>>

\* SetAdministrativeState: a fresh snapshot is needed before capacity returns;
\* a node quarantined meanwhile is not made active.
ProjectAdministrativeState ==
    /\ mgmt # "none" /\ mgmt' = "none"
    /\ p' = IF p.admin = "revoked" \/ (p.admin = "quarantined" /\ mgmt = "active") THEN p
            ELSE [p EXCEPT !.admin = mgmt, !.capable = FALSE, !.actions = {}, !.seen = FALSE,
                           !.phase = IF mgmt = "active" THEN "reconciling" ELSE mgmt]
    /\ UNCHANGED <<store, sess, drv, agent, wire, faults>>

\* AllowsAdmissionAt: the runner release the node pins goes out of date.
RunnerUpdateExpires ==
    /\ Fault
    /\ p.update /\ p' = [p EXCEPT !.update = FALSE]
    /\ UNCHANGED <<store, sess, drv, agent, wire, mgmt>>

\* AdvanceEpoch, then RestoreRestart from what SQLite holds.
Restart ==
    /\ epoch < MaxEpoch /\ epoch' = epoch + 1 /\ Fault
    /\ p' = Restore(desired, slots, issued, fence, admin, TRUE)
    /\ sess' = Down("down") /\ drv' = Idle /\ mgmt' = "none"
    /\ UNCHANGED <<desired, slots, issued, applied, authority, seenStates, admin, fence,
                   agent, wire>>

---------------------------------------------------------------------------
Session == Connect \/ RecordAgentSnapshot \/ ProjectSnapshot \/ RecordAgentExecutionUpdate
           \/ ProjectUpdate \/ Acknowledge \/ HandleAgentDisconnect
Commits(e) == CommitClaim(e) \/ SendPrepare(e) \/ SendStart(e) \/ SettleFence(e)
              \/ ReplayPrepare(e) \/ SendReconciliationCancel(e)
              \/ AdoptObservation(e) \/ FailDesired(e)
Coordinator == ProjectDesired \/ CommitCommand \/ SendCommand \/ CommandAnswered
Faults == LoseSession \/ AgentStateLost \/ AgentStateBack \/ Restart
Operator == SetNodeAdministrativeState \/ ProjectAdministrativeState \/ RunnerUpdateExpires
            \/ HandleAgentReadiness
Next == Session \/ (\E e \in Exec : Commits(e) \/ AgentMoves(e)) \/ Coordinator
        \/ AgentHandles \/ Faults \/ Operator

\* A running Controller and a running Agent make progress: each is a loop that
\* reconnects, reads its session and drives the next claim.
Fairness ==
    /\ WF_vars(Session) /\ WF_vars(Coordinator) /\ WF_vars(AgentHandles)
    /\ \A e \in Exec : WF_vars(AgentMoves(e))
Spec == Init /\ [][Next]_vars /\ Fairness

---------------------------------------------------------------------------
(* Properties *)

\* Rows, projection, session and coordinator have the values the code gives them.
TypeOK ==
    /\ epoch \in 1..MaxEpoch
    /\ desired \in [Exec -> States \cup {"none"}] /\ slots \subseteq Exec
    /\ p.execs \in [Exec -> States \cup {"none"}] /\ p.res \subseteq Exec
    /\ {admin, p.admin} \subseteq {"active", "draining", "quarantined", "revoked"}
    /\ fence \in [Exec -> {"none", "dispatching", "observed", "accepted"}]
    /\ sess.link \in {"down", "captured", "recorded", "up", "project", "ack", "closing"}
    /\ drv.op \in {"idle", "claim", "desired", "commit", "replay", "cancel", "send",
                   "await", "answered"}

\* Whatever order updates, adoptions and failures are committed in, and however
\* often an update is delivered again, a restart can restore what is stored:
\* restoreDesired refuses a terminal execution that holds a slot and an open
\* one that holds none.
RestoreAccepts == slots = {e \in Exec : desired[e] \notin Terminal \cup {"none"}}

\* How far along an execution is.
Order == [s \in States |->
    CASE s = "reserved" -> 1 [] s = "preparing" -> 2 [] s = "running" -> 3
      [] s = "cleaning" -> 4 [] s = "cleanup_failed" -> 5 [] OTHER -> 6]

\* The process projection never runs ahead of SQLite: it has not moved an
\* execution past its row, and it has not returned a slot that the store still
\* holds, although each change is projected after its commit by another step.
ProjectionFollowsStore ==
    /\ \A e \in Exec : p.execs[e] # "none" =>
         /\ Order[p.execs[e]] <= Order[desired[e]]
         /\ p.execs[e] \in Terminal => p.execs[e] = desired[e]
    /\ drv.op # "claim" => slots \subseteq p.res

\* No new claim is admitted while the connected Agent still has the local runtime
\* it reported of an execution whose slot is free again (it was failed while
\* the Agent's journal was missing, and the journal returned): the leftover keeps
\* the node out of capacity until its teardown is reported.
NoCapacityOverLeftover ==
    (\E e \in Exec : desired[e] # "none" /\ e \notin p.res \cup slots
                     /\ sess.snap.obs[e] \in Local /\ a.obs[e] \in Local)
        => ~(Online /\ DurableReady /\ AllowsNewCapacity(p))

\* A Prepare sent again in a later session or by a later Controller process never
\* reaches an Agent for an execution that is already under way or over: it would
\* build a second workspace for it.
PrepareOnlyOpen ==
    [][lost = {} /\ wire.type = "prepare" /\ wire \in a'.cmds \ a.cmds =>
         desired[wire.exec] \in {"reserved", "preparing"}]_vars

\* Desired state only moves forward, and an execution that has ended keeps its
\* verdict: a duplicated, late or reordered update never reopens it.
VerdictStands ==
    [][\A e \in Exec : desired[e] # "none" =>
         /\ Order[desired[e]] <= Order[desired'[e]]
         /\ desired[e] \in Terminal => desired'[e] = desired[e]]_vars

\* A slot is returned only when the Agent has ended the execution or the newest
\* snapshot of the node knows no runtime of it, although that snapshot, the
\* decision taken from it and the update that ends the execution are steps of
\* different actors and sessions.
FreedSlotHasEvidence ==
    [][\A e \in slots \ slots' : a.obs[e] \in Active => authority.snap.obs[e] = "none"]_vars

\* The Agent's next update tells of a state the Controller is already past.
Overtaken == outbox # <<>>
             /\ Order[desired[Head(outbox).cmd.exec]] > Order[Head(outbox).state]

\* Every execution update the Agent queues is recorded and acknowledged, however
\* many sessions and Controller processes it takes, unless the node is revoked,
\* its journal was replaced, or the Controller adopted a later observation from a
\* snapshot before it read the update the Agent queued first.
UpdatesDrain ==
    outbox # <<>> ~> (outbox = <<>> \/ admin = "revoked" \/ lost # {} \/ Overtaken)

\* The store can be restored, the projection stays behind it, and neither offers
\* capacity over a runtime that is still there.
ViewsAgree ==
    /\ TypeOK
    /\ RestoreAccepts
    /\ ProjectionFollowsStore
    /\ NoCapacityOverLeftover

\* What a commit may do to an execution: never reopen it, never return its slot without
\* evidence, never send a Prepare for one that is under way or over.
CommitsAreJustified == VerdictStands /\ FreedSlotHasEvidence /\ PrepareOnlyOpen

=============================================================================
