---------------------------- MODULE GitHubClaims ----------------------------
(***************************************************************************)
(* One GitHub claim, from the offer or the assigned demand that creates it *)
(* to the runner that serves it: the Controller's durable rows             *)
(* (store/controller_github.go), the coordinator that drives them between  *)
(* provider calls (app/controller_runner.go), the Agent of the one slot    *)
(* that carries the claim, and GitHub.                                     *)
(*                                                                         *)
(* The coordinator's lifecycle lock (driveMu) makes one drive step or one  *)
(* message commit run at a time, so pc is one process; a crash may fall    *)
(* between any two of its transactions and provider calls, and raises the  *)
(* Controller epoch.  The Agent, the delivery of its updates, its          *)
(* reconnects and GitHub interleave freely with it.                        *)
(*                                                                         *)
(* An execution is named by the queue message it was created from, a JIT   *)
(* attempt by its number, and the runner an attempt's request registers,   *)
(* like the Start command that carries it, by the attempt.                 *)
(***************************************************************************)
EXTENDS Integers, Sequences, FiniteSets

CONSTANTS Drains,       \* whether an operator drains and resumes the node
          MaxEpoch,     \* bound on Controller starts
          MaxMessages,  \* bound on JobAvailable messages
          MaxAttempts,  \* bound on JIT attempts
          MaxFailures   \* bound on provider session transitions

ASSUME ClaimConstants ==
    /\ Drains \in BOOLEAN
    /\ MaxEpoch \in Nat \ {0} /\ MaxMessages \in Nat \ {0}
    /\ MaxAttempts \in Nat \ {0} /\ MaxFailures \in Nat

VARIABLES
    epoch,      \* controller_epoch
    msgs,       \* github_queue_messages committed for this job
    claim,      \* the github_job_claims row
    exec,       \* executions.state by execution
    slot,       \* the execution in slot_reservations, 0 for a free slot
    node,       \* node_administrative_states
    acquire,    \* the current github_acquire_attempts row
    jit,        \* github_jit_attempts
    auth,       \* the github_jit_snapshot_authority row of the current attempt
    intent,     \* replacement execution of github_unpicked_requeue_intents
    picked,     \* runners with pickup evidence in github_message_jobs
    prep,       \* epoch of the issued Prepare of the claim's execution
    issued,     \* attempts whose Start is in agent_commands
    hist,       \* agent_execution_updates of each Start
    snap,       \* agent_snapshot_authority and the current snapshot rows
    gen,        \* github session transition generation
    pc, loc,    \* the coordinator's position and what it read on the way
    calls,      \* AcquireJobs requests sent to GitHub
    agent,      \* the Agent's journal for the slot
    outbox,     \* its updates not yet acknowledged
    net,        \* a Start on the wire
    runner      \* GitHub's registration of each attempt's runner

store    == <<claim, exec, slot, node, acquire, jit, auth, intent, prep>>
agentVars == <<agent, outbox, net>>
evidence == <<picked, issued, hist, snap>>
vars == <<epoch, msgs, store, evidence, gen, pc, loc, calls, agentVars, runner>>

Execs    == 1..MaxMessages
Attempts == 1..MaxAttempts

CleanEnds == {"released", "failed"}
Ends      == CleanEnds \cup {"cleanup_failed", "quarantined"}
RunStates == {"none", "reserved", "preparing", "running", "cleaning"} \cup Ends

ClaimStates == {"none", "pending", "acquire_ambiguous", "acquired", "preparing",
    "prepare_failed", "jit_intent", "jit_generation_ambiguous", "jit_generated",
    "start_dispatching", "start_ambiguous", "running", "reconciliation_required"}
JITStates == {"none", "intent", "generation_ambiguous", "generated",
    "start_dispatching", "start_ambiguous", "agent_accepted", "started",
    "removal_pending", "reconciled_absent"}
Kinds == {"ambiguity", "lost_jit", "unpicked_requeue"}

\* A row of github_jit_attempts: start says that the attempt has a start_command_id.
Attempt(s, e, r, st) == [state |-> s, epoch |-> e, runner |-> r, start |-> st]
NoAttempt == Attempt("none", 0, 0, FALSE)

\* github_jit_snapshot_authority: the decision is its kind and its stage; ripe
\* says that GitHubRunnerAbsenceConfirmationDelay has passed since it was written.
Authority(k, s, v, e, g) ==
    [kind |-> k, stage |-> s, snap |-> v, epoch |-> e, gen |-> g, ripe |-> FALSE]
View(s) == [exec |-> s.exec, start |-> s.start, obs |-> s.obs]   \* its digest
NoView == [exec |-> 0, start |-> 0, obs |-> "none"]
NoAuthority == Authority("none", "none", NoView, 0, 0)

\* What a reconciliation reads before it asks GitHub, and the runner GitHub names.
Read(v, g, id) == [snap |-> v, gen |-> g, id |-> id]
NoRead == Read(NoView, 0, 0)

Idle == [exec |-> 0, start |-> 0, obs |-> "none"]

TypeOK ==
    /\ epoch \in 1..MaxEpoch /\ msgs \in 0..MaxMessages /\ gen \in 1..(MaxFailures + 1)
    /\ claim \in [state : ClaimStates, exec : 0..MaxMessages, attempt : 0..MaxAttempts,
                  assigned : BOOLEAN]
    /\ exec \in [Execs -> RunStates] /\ slot \in 0..MaxMessages
    /\ node \in {"active", "draining", "quarantined"}
    /\ acquire \in [n : 0..MaxMessages, epoch : 0..MaxEpoch, msg : 0..MaxMessages,
           state : {"none", "pending", "reconciled_pending", "dispatching", "acquired"}]
    /\ jit \in [Attempts -> [state : JITStates, epoch : 0..MaxEpoch,
                             runner : 0..MaxAttempts, start : BOOLEAN]]
    /\ auth.kind \in {"none", "agent_accepted", "generation"} \cup Kinds
    /\ auth.stage \in {"none", "issued", "absence"}
    /\ intent \in 0..MaxMessages /\ picked \subseteq Attempts /\ issued \subseteq Attempts
    /\ prep \in 0..MaxEpoch
    /\ hist \in [Attempts -> [ran : BOOLEAN, end : {"none"} \cup Ends]]
    /\ pc \in {"idle", "acquiring", "preparing", "generating", "generated",
               "dispatching", "sent", "present", "absent", "removing", "stopped"}
    /\ agent \in [exec : 0..MaxMessages, start : 0..MaxAttempts, obs : RunStates]
    /\ net \in 0..MaxAttempts
    /\ runner \in [Attempts -> {"none", "requested", "idle", "busy", "served", "removed"}]

Init ==
    /\ epoch = 1 /\ msgs = 0 /\ gen = 1
    /\ claim = [state |-> "none", exec |-> 0, attempt |-> 0, assigned |-> FALSE]
    /\ exec = [e \in Execs |-> "none"] /\ slot = 0 /\ node = "active"
    /\ acquire = [n |-> 0, epoch |-> 0, msg |-> 0, state |-> "none"]
    /\ jit = [a \in Attempts |-> NoAttempt] /\ auth = NoAuthority /\ intent = 0
    /\ picked = {} /\ issued = {} /\ prep = 0
    /\ hist = [a \in Attempts |-> [ran |-> FALSE, end |-> "none"]]
    /\ snap = [epoch |-> 0, exec |-> 0, start |-> 0, obs |-> "none"]
    /\ pc = "idle" /\ loc = NoRead /\ calls = 0
    /\ agent = Idle /\ outbox = <<>> /\ net = 0
    /\ runner = [a \in Attempts |-> "none"]
-----------------------------------------------------------------------------
(* What a transaction reads *)

\* The claim's execution, its current attempt and that attempt's history.
cur  == claim.attempt
run  == claim.exec
Has  == cur > 0
SetClaim(s) == claim' = [claim EXCEPT !.state = s]

\* CanReachExecutionState
Reaches(s, t) ==
    \/ s = t
    \/ s = "reserved"  /\ t \in {"preparing", "running", "cleaning"} \cup Ends
    \/ s = "preparing" /\ t \in {"running", "cleaning"} \cup Ends
    \/ s = "running"   /\ t \in {"cleaning"} \cup Ends
    \/ s = "cleaning"  /\ t \in {"released", "cleanup_failed", "quarantined"}
    \/ s = "cleanup_failed" /\ t = "quarantined"

\* githubSlotAvailable and, in this epoch's snapshot, githubPollClaimAuthorityCurrent.
SlotAvailable == node = "active" /\ slot = 0 /\ intent = 0
AuthorityCurrent == snap.epoch = epoch
Admission == SlotAvailable /\ AuthorityCurrent

\* requireActiveGitHubClaimLease
ActiveLease == node = "active" /\ slot = run /\ run > 0

\* readGitHubReconciliationFences fails on an acquire ambiguity that owns an attempt.
FencesReadable == claim.state = "acquire_ambiguous" => cur = 0

FenceStates == {"jit_intent", "jit_generation_ambiguous", "jit_generated",
    "start_dispatching", "start_ambiguous", "reconciliation_required"}
Fenced == claim.state \in FenceStates /\ Has /\ jit[cur].state # "reconciled_absent"

\* The current snapshot holds the exact Start, or observes the claim's execution.
Accepted == Has /\ jit[cur].start /\ snap.start = cur
Observed == snap.exec = run /\ run > 0
\* exactStartHasDurableRuntimeHistory and exactStartDurableTerminalUpdate
Started  == Has /\ jit[cur].start /\ hist[cur].ran
Ended    == Has /\ jit[cur].start /\ hist[cur].end # "none"
\* loadIssuedAgentCommand: an attempt that names a Start must find it issued.
StartIssued == jit[cur].start => cur \in issued

\* unpickedRunnerRequeueReadiness
RequeueReadiness ==
    IF \/ ~(claim.state \in {"running", "reconciliation_required"} /\ Has)
       \/ jit[cur].state # "started"
    THEN "none"
    ELSE IF ~Started THEN "error"
    ELSE IF cur \in picked THEN "none"
    ELSE IF exec[run] \in {"running", "cleaning", "cleanup_failed", "quarantined"} THEN "await"
    ELSE IF exec[run] \in CleanEnds /\ hist[cur].end = exec[run] THEN "ready"
    ELSE "error"

\* lostJITClaimAwaitingAvailability
LostAwaiting ==
    /\ claim.state = "reconciliation_required" /\ exec[run] \in CleanEnds
    /\ Has /\ jit[cur].state = "reconciled_absent"

\* The node's reconciliation actions come before every drive: an observation the
\* desired state can reach is adopted first, and a terminal one is waited for.
AdoptionDue == Observed /\ snap.obs # exec[run] /\ Reaches(exec[run], snap.obs)
               /\ snap.obs # "cleanup_failed" /\ exec[run] \notin CleanEnds

\* loadGitHubUnpickedRequeueIntent: an intent is read back only beside the claim and
\* the attempt it was created for.
IntentReadable ==
    intent > 0 => /\ claim.state = "reconciliation_required" /\ Has
                  /\ jit[cur].state \in {"started", "removal_pending"}

\* GitHubPendingClaimDispatchReady, which a coordinator asks once, before its first
\* poll: the acquire attempt must rest on the message the claim names as its source,
\* and a replacement is only dispatched for an attempt that was proven absent and
\* lost its identity.
PendingShape ==
    claim.state = "pending" =>
        \/ acquire.state = "pending"
        \/ /\ acquire.state = "reconciled_pending" /\ acquire.n >= 2 /\ Has
           /\ jit[cur].state = "reconciled_absent"
           /\ jit[cur].runner = 0 /\ ~jit[cur].start
SourceNamed == claim.state = "pending" => acquire.msg = run
PendingReadable == SourceNamed /\ PendingShape
Driving == pc = "idle" /\ FencesReadable /\ AuthorityCurrent /\ ~AdoptionDue
-----------------------------------------------------------------------------
(* Queue messages *)

\* insertGitHubSlotClaim, and the replacement execution of a re-armed claim.  Only
\* an assigned-demand claim is acquired from the start.  The execution is also the
\* claim's source_message_id.
Reserve(e, s) ==
    /\ exec' = [exec EXCEPT ![e] = "reserved"] /\ slot' = e /\ prep' = 0
    /\ claim' = [claim EXCEPT !.state = s, !.exec = e, !.assigned = (s = "acquired")]

\* The next github_acquire_attempts row, with the message m that is its evidence.
NextAcquire(s, m) ==
    acquire' = [n |-> acquire.n + 1, epoch |-> epoch, msg |-> m, state |-> s]

\* loadCurrentGitHubAcquireAttempt, in the state a claim that left it behind has.
AcquireSettled == acquire.state = "acquired"

\* insertGitHubSlotClaim and the first acquire attempt, for a job without a claim.
ClaimOffer(e) ==
    /\ claim.state = "none" /\ Admission
    /\ Reserve(e, "pending") /\ NextAcquire("pending", e)
    /\ UNCHANGED intent

\* createGitHubUnpickedRequeueIntent: the runner ended without a pickup and the job
\* is offered again; the replacement is only named until the old runner is gone.
CreateRequeueIntent(e) ==
    /\ claim.state # "none" /\ intent = 0 /\ RequeueReadiness = "ready" /\ Admission
    /\ AcquireSettled /\ exec[e] = "none"
    /\ intent' = e /\ SetClaim("reconciliation_required")
    /\ UNCHANGED <<exec, slot, acquire, prep>>

\* rearmLostJITFromMessage: the lost attempt's execution no longer owns the slot.
RearmLostJIT(e) ==
    /\ claim.state # "none" /\ LostAwaiting /\ Admission /\ AcquireSettled /\ slot # run
    /\ Reserve(e, "pending") /\ NextAcquire("pending", e)
    /\ UNCHANGED intent

\* rearmGitHubAcquireFromMessage: the attempt rests on the fresh message e, and the
\* claim keeps the source message it has.
RearmAcquire(e) ==
    /\ claim.state = "acquire_ambiguous" /\ acquire.state = "dispatching"
    /\ SetClaim("pending") /\ NextAcquire("pending", e)
    /\ UNCHANGED <<exec, slot, intent, prep>>

\* The offer is already answered: by an intent for the same job
\* (requireCompatibleGitHubRequeueEvent), or by a claim on its way.
KnownOffer ==
    /\ claim.state \notin {"none", "acquire_ambiguous"} /\ ~LostAwaiting
    /\ intent > 0 \/ RequeueReadiness = "none"
    /\ UNCHANGED <<claim, exec, slot, acquire, intent, prep>>

\* CommitGitHubQueueMessage with a fresh JobAvailable for this job.  A commit that
\* the code aborts leaves the message to be redelivered and is no step here.
CommitMessage ==
    /\ pc = "idle" /\ FencesReadable /\ IntentReadable
    /\ ~claim.assigned /\ msgs < MaxMessages
    /\ msgs' = msgs + 1
    /\ \/ ClaimOffer(msgs + 1) \/ CreateRequeueIntent(msgs + 1) \/ RearmLostJIT(msgs + 1)
       \/ RearmAcquire(msgs + 1) \/ KnownOffer
    /\ UNCHANGED <<epoch, evidence, gen, pc, loc, calls, agentVars, runner, node, jit, auth>>

\* A JobStarted or JobCompleted message commits pickup evidence for its runner.
CommitPickup ==
    /\ pc = "idle" /\ FencesReadable
    /\ \E a \in Attempts \ picked :
          runner[a] \in {"busy", "served"} /\ picked' = picked \cup {a}
    /\ UNCHANGED <<epoch, msgs, store, issued, hist, snap, gen, pc, loc, calls,
                   agentVars, runner>>

\* ReconcileGitHubAssignedDemand: one job is assigned and no claim serves it yet.
ReconcileAssignedDemand ==
    /\ pc = "idle" /\ claim.state = "none" /\ Admission
    /\ Reserve(1, "acquired")
    /\ UNCHANGED <<epoch, msgs, evidence, gen, pc, loc, calls, agentVars, runner,
                   node, acquire, jit, auth, intent>>
-----------------------------------------------------------------------------
(* driveNext: the claim's own lifecycle.  Each step ends where the code leaves *)
(* a transaction or waits for an answer.                                       *)

\* Mutant: an acquire without an answer is sent again.
RetryAmbiguous ==
    claim.state \in {"pending", "acquire_ambiguous"} /\ acquire.state # "acquired"
AcquireReady ==
    claim.state = "pending" /\ acquire.state \in {"pending", "reconciled_pending"}

\* BeginGitHubAcquire, then the AcquireJobs request
BeginAcquire ==
    /\ Driving /\ AcquireReady /\ exec[run] = "reserved" /\ ActiveLease
    /\ acquire' = [acquire EXCEPT !.state = "dispatching", !.epoch = epoch]
    /\ SetClaim("acquire_ambiguous") /\ pc' = "acquiring" /\ calls' = calls + 1
    /\ UNCHANGED <<epoch, msgs, evidence, gen, loc, agentVars, runner,
                   exec, slot, node, jit, auth, intent, prep>>

\* MarkGitHubAcquired, or an answer that leaves the claim ambiguous
AcquireAnswered ==
    /\ pc = "acquiring" /\ pc' = "idle"
    /\ \/ /\ acquire.epoch = epoch /\ acquire.state = "dispatching"
          /\ claim.state = "acquire_ambiguous"
          /\ acquire' = [acquire EXCEPT !.state = "acquired"] /\ SetClaim("acquired")
       \/ UNCHANGED <<claim, acquire>>
    /\ UNCHANGED <<epoch, msgs, evidence, gen, loc, calls, agentVars, runner,
                   exec, slot, node, jit, auth, intent, prep>>

\* SendPrepare: CommitAgentCommand accepts the Prepare when it is new or is exactly
\* the one issued; its identity holds the epoch, its ID only the execution.
SendPrepare ==
    /\ Driving /\ claim.state = "acquired" /\ node = "active"
    /\ \/ prep = 0 /\ exec[run] = "reserved"
       \/ prep = epoch
    /\ prep' = epoch /\ pc' = "preparing"
    /\ UNCHANGED <<epoch, msgs, evidence, gen, loc, calls, agentVars, runner,
                   claim, exec, slot, node, acquire, jit, auth, intent>>

\* The Agent carries the Prepare out, once, and its update advances the desired
\* state; a Prepare that fails frees the slot.
AgentPrepared ==
    /\ exec[run] = "reserved"
    /\ \/ /\ agent.exec \in {0, run} /\ agent.obs \in {"none", "preparing"}
          /\ agent' = [Idle EXCEPT !.exec = run, !.obs = "preparing"]
          /\ exec' = [exec EXCEPT ![run] = "preparing"] /\ UNCHANGED slot
       \/ /\ agent.exec = 0 /\ UNCHANGED agent
          /\ exec' = [exec EXCEPT ![run] = "failed"] /\ slot' = 0

PrepareDone ==
    /\ pc = "preparing" /\ AgentPrepared
    /\ UNCHANGED <<epoch, msgs, evidence, gen, pc, loc, calls, outbox, net, runner,
                   claim, node, acquire, jit, auth, intent, prep>>

\* MarkGitHubPreparing and MarkGitHubPrepareFailed, or no answer
PrepareAnswered ==
    /\ pc = "preparing" /\ pc' = "idle"
    /\ \/ exec[run] = "preparing" /\ SetClaim("preparing")
       \/ exec[run] = "failed" /\ SetClaim("prepare_failed")
       \/ UNCHANGED claim
    /\ UNCHANGED <<epoch, msgs, evidence, gen, loc, calls, agentVars, runner,
                   exec, slot, node, acquire, jit, auth, intent, prep>>

\* replayPrepareAction: a snapshot without the execution has the issued Prepare
\* replayed, under the epoch that issued it.
ReplayPrepare ==
    /\ pc = "idle" /\ FencesReadable /\ AuthorityCurrent /\ ~Observed /\ ~Fenced
    /\ prep > 0 /\ AgentPrepared
    /\ UNCHANGED <<epoch, msgs, evidence, gen, pc, loc, calls, outbox, net, runner,
                   claim, node, acquire, jit, auth, intent, prep>>

\* BeginGitHubJITAttempt, then the GenerateJITConfig request
BeginJITAttempt ==
    /\ Driving /\ claim.state = "preparing" /\ exec[run] = "preparing" /\ ActiveLease
    /\ cur < MaxAttempts
    /\ jit' = [jit EXCEPT ![cur + 1] = Attempt("intent", epoch, 0, FALSE)]
    /\ claim' = [claim EXCEPT !.state = "jit_intent", !.attempt = cur + 1]
    /\ pc' = "generating" /\ runner' = [runner EXCEPT ![cur + 1] = "requested"]
    /\ UNCHANGED <<epoch, msgs, evidence, gen, loc, calls, agentVars,
                   exec, slot, node, acquire, auth, intent, prep>>

\* transitionGitHubJIT
Move(j, s) == jit' = [jit EXCEPT ![cur] = j] /\ SetClaim(s)
To(s) == [jit[cur] EXCEPT !.state = s]

\* MarkGitHubJITGenerated, or MarkGitHubJITGenerationAmbiguous
GenerateAnswered ==
    /\ pc = "generating"
    /\ \/ /\ runner[cur] = "idle" /\ pc' = "generated"
          /\ Move(Attempt("generated", epoch, cur, TRUE), "jit_generated")
       \/ pc' = "idle" /\ Move(To("generation_ambiguous"), "jit_generation_ambiguous")
    /\ UNCHANGED <<epoch, msgs, evidence, gen, loc, calls, agentVars, runner,
                   exec, slot, node, acquire, auth, intent, prep>>

\* BeginGitHubStartDispatch
BeginStartDispatch ==
    /\ pc = "generated"
    /\ \/ /\ exec[run] = "preparing" /\ ActiveLease /\ pc' = "dispatching"
          /\ Move(To("start_dispatching"), "start_dispatching")
       \/ /\ ~(exec[run] = "preparing" /\ ActiveLease) /\ pc' = "idle"
          /\ UNCHANGED <<jit, claim>>
    /\ UNCHANGED <<epoch, msgs, evidence, gen, loc, calls, agentVars, runner,
                   exec, slot, node, acquire, auth, intent, prep>>

\* SendStart commits the Start and writes it, or finds the precondition stale or no
\* session to write it to.
SendStart ==
    /\ pc = "dispatching"
    /\ \/ /\ node = "active" /\ exec[run] = "preparing"
          /\ pc' = "sent" /\ issued' = issued \cup {cur} /\ net' = cur
          /\ UNCHANGED <<jit, claim>>
       \/ /\ pc' = "idle" /\ Move(To("start_ambiguous"), "start_ambiguous")
          /\ UNCHANGED <<issued, net>>
    /\ UNCHANGED <<epoch, msgs, picked, hist, snap, gen, loc, calls, agent, outbox,
                   runner, exec, slot, node, acquire, auth, intent, prep>>

\* markGitHubStarted on the Running update, or MarkGitHubStartAmbiguous
StartAnswered ==
    /\ pc = "sent" /\ pc' = "idle"
    /\ \/ /\ Started
          /\ Move(To("started"), IF exec[run] = "running" THEN "running"
                                                        ELSE "reconciliation_required")
       \/ Move(To("start_ambiguous"), "start_ambiguous")
    /\ UNCHANGED <<epoch, msgs, evidence, gen, loc, calls, agentVars, runner,
                   exec, slot, node, acquire, auth, intent, prep>>

\* adoptObservationAction and AdoptAgentSnapshotObservation
AdoptObservation ==
    /\ pc = "idle" /\ AuthorityCurrent /\ AdoptionDue /\ snap.obs \notin Ends
    /\ exec' = [exec EXCEPT ![run] = snap.obs]
    /\ UNCHANGED <<epoch, msgs, evidence, gen, pc, loc, calls, agentVars, runner,
                   claim, slot, node, acquire, jit, auth, intent, prep>>
-----------------------------------------------------------------------------
(* reconcileJITAttempt *)

\* Only a later epoch, or a committed requeue intent, may reconcile an attempt;
\* GitHubUnpickedRequeueIntent refuses the negative key of an assigned-demand claim.
Reconciling ==
    /\ Driving /\ Fenced /\ ~claim.assigned /\ IntentReadable
    /\ epoch > jit[cur].epoch \/ intent > 0
MayHaveStarted == {"start_dispatching", "start_ambiguous", "agent_accepted", "started"}

\* ReconcileGitHubJITPrunedHistory: the Agent pruned a Start that is known to have run.
PrunedHistory ==
    /\ jit[cur].state \in MayHaveStarted /\ StartIssued /\ ~Accepted /\ ~Observed
    /\ Ended => exec[run] = hist[cur].end
PrunedStart == intent = 0 /\ PrunedHistory /\ Started

\* MarkGitHubJITObservedStarted for the observation of the current snapshot
ObservedStart ==
    /\ intent = 0 /\ Accepted /\ Observed /\ StartIssued
    /\ jit[cur].state \in MayHaveStarted
    /\ \/ snap.obs \in {"running", "cleaning"} /\ Reaches(exec[run], snap.obs)
       \/ snap.obs \in Ends /\ Started /\ (Ended => hist[cur].end = snap.obs /\ exec[run] = snap.obs)

\* The terminal update of a Start that has no runtime history: the JIT value was lost.
LostJIT ==
    /\ intent = 0 /\ Ended /\ ~Started
    /\ \/ PrunedHistory
       \/ Accepted /\ Observed /\ snap.obs = hist[cur].end /\ exec[run] = snap.obs

ResolveStarted ==
    /\ Reconciling /\ (PrunedStart \/ ObservedStart)
    /\ Move(To("started"),
            IF ObservedStart /\ snap.obs = "cleaning" THEN "reconciliation_required"
                                                      ELSE "running")
    /\ exec' = IF ObservedStart /\ snap.obs \notin Ends
               THEN [exec EXCEPT ![run] = snap.obs] ELSE exec
    /\ auth' = NoAuthority
    /\ UNCHANGED <<epoch, msgs, evidence, gen, pc, loc, calls, agentVars, runner,
                   slot, node, acquire, intent, prep>>

\* MarkGitHubJITAgentAccepted
ResolveAccepted ==
    /\ Reconciling /\ intent = 0 /\ Accepted /\ StartIssued
    /\ jit[cur].state \in {"start_dispatching", "start_ambiguous"}
    /\ Observed => snap.obs = "preparing"
    /\ Move(To("agent_accepted"), "reconciliation_required")
    /\ auth' = Authority("agent_accepted", "none", View(snap), epoch, 0)
    /\ UNCHANGED <<epoch, msgs, evidence, gen, pc, loc, calls, agentVars, runner,
                   exec, slot, node, acquire, intent, prep>>

\* providerCleanupRequired: a requeue intent or a lost JIT value settles nothing at
\* the Agent, only the registration is left to be given up.
CleanupRequired == intent > 0 \/ LostJIT

\* ResolveGitHubFence leaves the provider to be asked.
ProviderDecides ==
    \/ CleanupRequired
    \/ /\ ~Accepted /\ jit[cur].state \notin {"agent_accepted", "started"}
       /\ jit[cur].state \in MayHaveStarted => StartIssued /\ ~Started /\ ~Ended
       /\ Observed => snap.obs = "preparing"

Registered(a) == runner[a] \in {"idle", "busy"}
\* QueryRunner by name; an attempt that knows its runner's ID accepts no other.
Answers == {a \in Attempts : Registered(a)}

QueryRunner ==
    /\ Reconciling /\ ProviderDecides /\ ~PrunedStart /\ ~ObservedStart
    /\ \/ /\ Answers = {} /\ pc' = "absent"
          /\ loc' = Read(View(snap), gen, 0) /\ UNCHANGED gen
       \/ /\ \E a \in Answers : jit[cur].runner \in {0, a} /\
                pc' = "present" /\ loc' = Read(View(snap), gen, a)
          /\ UNCHANGED gen
       \/ gen <= MaxFailures /\ gen' = gen + 1 /\ UNCHANGED <<pc, loc>>
    /\ UNCHANGED <<epoch, msgs, store, evidence, calls, agentVars, runner>>

\* classifyAgentRunnerRemovalAuthority: what the Agent's snapshot and the updates of
\* the Start say of an attempt without a requeue intent.
AgentRemovalKind ==
    CASE ~StartIssued -> "refused"
      [] StartIssued /\ Accepted ->
           IF /\ Observed /\ snap.obs \in Ends /\ ~Started /\ jit[cur].state # "started"
              /\ Ended /\ hist[cur].end = snap.obs /\ exec[run] \in {"preparing", snap.obs}
           THEN "lost_jit" ELSE "refused"
      [] StartIssued /\ ~Accepted ->
           IF Started THEN "refused"
           ELSE IF ~Ended
                THEN IF Observed => snap.obs = "preparing" THEN "ambiguity" ELSE "refused"
                ELSE IF ~Observed /\ exec[run] = hist[cur].end THEN "lost_jit" ELSE "refused"

\* classifyGitHubRunnerRemovalAuthority
RemovalKind ==
    IF intent = 0 THEN AgentRemovalKind
    ELSE IF /\ IntentReadable /\ exec[run] \in CleanEnds
            /\ Started /\ hist[cur].end = exec[run]
            /\ IF Observed THEN snap.obs = exec[run] ELSE ~Accepted
         THEN "unpicked_requeue" ELSE "refused"

\* The authority every decision needs: the snapshot and the session that were read
\* are still current, and the owning epoch acts only on a requeue intent.
Current ==
    /\ AuthorityCurrent /\ View(snap) = loc.snap /\ gen = loc.gen
    /\ RemovalKind # "refused"
    /\ epoch = jit[cur].epoch => RemovalKind = "unpicked_requeue"

\* MarkGitHubJITRemovalPending
PickedUpRemoved == Current           \* mutant: late pickup evidence is not read
RemovalAllowed ==
    Current /\ ~(RemovalKind = "unpicked_requeue" /\ pc = "present" /\ cur \in picked)

\* A registration that was found is removed; one that is gone, but was known, is put
\* under removal first, so that its absence is read again.
RemovalDue ==
    \/ pc = "present"
    \/ pc = "absent" /\ jit[cur].runner # 0 /\ jit[cur].state # "removal_pending"
MarkRemovalPending ==
    /\ RemovalDue
    /\ \/ /\ RemovalAllowed
          /\ Move([To("removal_pending") EXCEPT
                     !.runner = IF jit[cur].runner = 0 THEN loc.id ELSE @],
                  "reconciliation_required")
          /\ auth' = Authority(RemovalKind, IF pc = "present" THEN "issued" ELSE "absence",
                               View(snap), epoch, gen)
          /\ \/ pc = "present" /\ pc' = "removing" /\ UNCHANGED loc
             \/ pc = "absent" /\ pc' = "idle" /\ loc' = NoRead
       \/ ~RemovalAllowed /\ pc' = "idle" /\ loc' = NoRead /\ UNCHANGED <<jit, claim, auth>>
    /\ UNCHANGED <<epoch, msgs, evidence, gen, calls, agentVars, runner,
                   exec, slot, node, acquire, intent, prep>>

\* RemoveRunner: GitHub deletes an idle registration and refuses a busy one.
RemoveRunner ==
    /\ pc = "removing" /\ pc' = "idle" /\ loc' = NoRead
    /\ \/ runner[loc.id] = "idle" /\ runner' = [runner EXCEPT ![loc.id] = "removed"]
          /\ UNCHANGED gen
       \/ gen <= MaxFailures /\ gen' = gen + 1 /\ UNCHANGED runner
       \/ runner[loc.id] = "busy" /\ UNCHANGED <<gen, runner>>
    /\ UNCHANGED <<epoch, msgs, store, evidence, calls, agentVars>>
-----------------------------------------------------------------------------
(* MarkGitHubJITReconciledAbsent *)

Unborn == jit[cur].state \in {"intent", "generation_ambiguous"}

IgnoredPickup == FALSE               \* mutant: pickup evidence is not read again
LatePickup == cur \in picked

\* The lease a terminal execution must have given up, or a failed cleanup kept, and
\* the free slot and settled acquire a replacement needs.
Confirmable ==
    CASE RemovalKind = "lost_jit" ->
           IF exec[run] = "preparing" \/ hist[cur].end = "cleanup_failed"
           THEN slot = run ELSE slot # run
      [] RemovalKind = "unpicked_requeue" ->
           slot = 0 /\ (LatePickup \/ AcquireSettled)
      [] OTHER -> TRUE

\* The absence of a runner that was never seen is read again under the same authority.
SameRemoval ==                       \* mutant: compared with a removal's decision
    auth.kind = "ambiguity" /\ auth.snap = View(snap) /\ auth.epoch = epoch
SameGeneration ==
    auth.kind = "generation" /\ auth.snap = View(snap) /\ auth.epoch = epoch

NoDelay == TRUE                      \* mutant: the second read confirms at once
DelayElapsed == auth.ripe

\* An absence read under the stored authority: it is the first one after the DELETE
\* or in this provider session, it confirms an earlier one, or it has to wait.
DecisionVerdict(kind) ==
    CASE auth.kind # kind -> "refused"
      [] auth.kind = kind /\ (auth.stage = "issued" \/ auth.gen # gen) -> "first"
      [] OTHER -> IF ~DelayElapsed THEN "wait"
                  ELSE IF Confirmable THEN "confirmed" ELSE "refused"

\* What this absence observation does to the stored authority.  A snapshot that
\* pruned the ended Start rotates the authority of a removal that rests on the end.
AbsenceVerdict ==
    LET rotates == RemovalKind # "ambiguity" /\ auth.kind = RemovalKind
    IN  CASE ~Current -> "refused"
          [] Current /\ Unborn ->
               IF SameGeneration THEN DecisionVerdict("generation") ELSE "first"
          [] Current /\ ~Unborn ->
               IF auth.epoch # epoch THEN "refused"
               ELSE IF auth.snap = View(snap) THEN DecisionVerdict(RemovalKind)
               ELSE IF rotates THEN "first" ELSE "refused"

\* Mutant: the attempt keeps the identity of the runner that is gone.
StaysNamed == [jit[cur] EXCEPT !.state = "reconciled_absent"]
Absent == Attempt("reconciled_absent", jit[cur].epoch, 0, FALSE)
Clear  == jit' = [jit EXCEPT ![cur] = Absent] /\ auth' = NoAuthority

\* The ambiguous attempt is over and the claim may make another one.
ConfirmAmbiguity ==
    /\ RemovalKind = "ambiguity" /\ Clear /\ SetClaim("preparing")
    /\ UNCHANGED <<exec, slot, node, acquire, intent, prep>>

\* The lost attempt ends its execution; the claim waits for a fresh offer.
ConfirmLostJIT ==
    /\ RemovalKind = "lost_jit" /\ Clear /\ SetClaim("reconciliation_required")
    /\ exec' = [exec EXCEPT ![run] = hist[cur].end]
    /\ slot' = IF hist[cur].end # "cleanup_failed" /\ slot = run THEN 0 ELSE slot
    /\ node' = IF hist[cur].end \in CleanEnds THEN node ELSE "quarantined"
    /\ UNCHANGED <<acquire, intent, prep>>

\* finalizeGitHubUnpickedRequeue: the replacement becomes the claim's execution, or a
\* late pickup discards it.
ClaimReplacement ==
    /\ ~LatePickup /\ Reserve(intent, "pending")
    /\ NextAcquire("reconciled_pending", intent)
DiscardReplacement ==
    LatePickup /\ SetClaim("running") /\ UNCHANGED <<exec, slot, acquire, prep>>
ConfirmRequeue ==
    /\ RemovalKind = "unpicked_requeue" /\ Clear /\ intent' = 0
    /\ ClaimReplacement \/ DiscardReplacement
    /\ UNCHANGED node

MarkReconciledAbsent ==
    /\ pc = "absent" /\ pc' = "idle" /\ loc' = NoRead
    /\ Unborn \/ jit[cur].state = "removal_pending"
    /\ \/ AbsenceVerdict = "confirmed" /\ (ConfirmAmbiguity \/ ConfirmLostJIT \/ ConfirmRequeue)
       \/ /\ AbsenceVerdict = "first"
          /\ auth' = Authority(IF Unborn THEN "generation" ELSE RemovalKind, "absence",
                               View(snap), epoch, gen)
          /\ UNCHANGED <<claim, exec, slot, node, acquire, jit, intent, prep>>
       \/ AbsenceVerdict \in {"wait", "refused"} /\ UNCHANGED store
    /\ UNCHANGED <<epoch, msgs, evidence, gen, calls, agentVars, runner>>

\* The confirmation delay passes.  A generation request the Controller gave up on
\* is assumed to have reached GitHub, or to be lost, by then, and before the query
\* whose answer the delay lets confirm.
DelayPasses ==
    /\ auth.stage = "absence" /\ ~auth.ripe /\ runner[cur] # "requested" /\ pc # "absent"
    /\ auth' = [auth EXCEPT !.ripe = TRUE]
    /\ UNCHANGED <<epoch, msgs, evidence, gen, pc, loc, calls, agentVars, runner,
                   claim, exec, slot, node, acquire, jit, intent, prep>>
-----------------------------------------------------------------------------
(* The Agent, its session, and GitHub *)

AgentAccepts ==
    /\ net > 0 /\ agent.obs = "preparing" /\ agent.start = 0
    /\ agent' = [agent EXCEPT !.start = net] /\ net' = 0
    /\ UNCHANGED <<epoch, msgs, store, evidence, gen, pc, loc, calls, outbox, runner>>

Report(s) ==
    /\ agent' = [agent EXCEPT !.obs = s]
    /\ outbox' = Append(outbox, [start |-> agent.start, state |-> s])

\* The runner starts, or a restarted Agent finds the JIT value lost and cleans up.
AgentStarts ==
    /\ agent.start > 0 /\ agent.obs = "preparing"
    /\ \E s \in {"running", "released", "cleanup_failed"} : Report(s)
    /\ UNCHANGED <<epoch, msgs, store, evidence, gen, pc, loc, calls, net, runner>>

\* The runner exits, whether or not it served a job, and the Agent cleans up.
AgentCleans ==
    /\ agent.obs = "running" /\ agent' = [agent EXCEPT !.obs = "cleaning"]
    /\ UNCHANGED <<epoch, msgs, store, evidence, gen, pc, loc, calls, outbox, net, runner>>

AgentEnds ==
    /\ agent.obs = "cleaning" /\ \E s \in {"released", "cleanup_failed"} : Report(s)
    /\ UNCHANGED <<epoch, msgs, store, evidence, gen, pc, loc, calls, net, runner>>

\* A new session: the snapshot becomes the current authority, and what the old
\* session still carried is gone.  A tombstone quarantines the node with it.  The
\* broker refuses a snapshot while a command of the node is in flight.
AgentReconnects ==
    /\ pc \notin {"preparing", "sent"}
    /\ snap' = [epoch |-> epoch, exec |-> agent.exec, start |-> agent.start, obs |-> agent.obs]
    /\ snap' # snap \/ net > 0
    /\ net' = 0 /\ node' = IF agent.obs = "cleanup_failed" THEN "quarantined" ELSE node
    /\ UNCHANGED <<epoch, msgs, picked, issued, hist, gen, pc, loc, calls, agent, outbox,
                   runner, claim, exec, slot, acquire, jit, auth, intent, prep>>

FreesSlot(s) == s \in CleanEnds

\* RecordAgentExecutionUpdate, and the acknowledgement that lets the Agent prune.
RecordUpdate ==
    /\ outbox # <<>> /\ AuthorityCurrent
    /\ LET u == Head(outbox)
           e == agent.exec
       IN  /\ Reaches(exec[e], u.state)
           /\ u.state \in CleanEnds => slot = e
           /\ exec' = [exec EXCEPT ![e] = u.state]
           /\ hist' = [hist EXCEPT ![u.start] =
                  IF u.state = "running" THEN [@ EXCEPT !.ran = TRUE]
                                         ELSE [@ EXCEPT !.end = u.state]]
           /\ slot' = IF FreesSlot(u.state) THEN 0 ELSE slot
           /\ node' = IF u.state = "cleanup_failed" THEN "quarantined" ELSE node
           /\ agent' = IF u.state \in CleanEnds THEN Idle ELSE agent
    /\ outbox' = Tail(outbox)
    /\ UNCHANGED <<epoch, msgs, picked, issued, snap, gen, pc, loc, calls, net, runner,
                   claim, acquire, jit, auth, intent, prep>>

\* GitHub registers the runner of a request, or never does.
RequestLands ==
    /\ \E a \in Attempts : runner[a] = "requested" /\
          \E s \in {"idle", "removed"} : runner' = [runner EXCEPT ![a] = s]
    /\ UNCHANGED <<epoch, msgs, store, evidence, gen, pc, loc, calls, agentVars>>

\* A registered runner whose process is up picks the job up.
RunnerPicksUp ==
    /\ agent.obs = "running" /\ runner[agent.start] = "idle"
    /\ runner' = [runner EXCEPT ![agent.start] = "busy"]
    /\ UNCHANGED <<epoch, msgs, store, evidence, gen, pc, loc, calls, agentVars>>

\* GitHub notices that a runner's job is over and drops its registration.
JobCompletes ==
    /\ \E a \in Attempts : /\ runner[a] = "busy"
                           /\ ~(agent.start = a /\ agent.obs = "running")
                           /\ runner' = [runner EXCEPT ![a] = "served"]
    /\ UNCHANGED <<epoch, msgs, store, evidence, gen, pc, loc, calls, agentVars>>

\* SetNodeAdministrativeStateWithAudit: an operator drains the node and resumes it.
SetNodeAdministrativeState ==
    /\ Drains
    /\ \/ node = "active" /\ node' = "draining"
       \/ node = "draining" /\ node' = "active"
    /\ UNCHANGED <<epoch, msgs, evidence, gen, pc, loc, calls, agentVars, runner,
                   claim, exec, slot, acquire, jit, auth, intent, prep>>

\* The Controller stops between two steps; its next start owns the next epoch, and its
\* coordinator ends at once when recoveryWorkBeforeInitialPoll cannot read its rows.
Restart ==
    /\ epoch < MaxEpoch /\ epoch' = epoch + 1 /\ loc' = NoRead
    /\ pc' = IF FencesReadable /\ PendingReadable THEN "idle" ELSE "stopped"
    /\ UNCHANGED <<msgs, store, evidence, gen, calls, agentVars, runner>>
-----------------------------------------------------------------------------
Lifecycle == BeginAcquire \/ AcquireAnswered \/ SendPrepare \/ PrepareDone
             \/ PrepareAnswered \/ ReplayPrepare \/ BeginJITAttempt \/ GenerateAnswered
             \/ BeginStartDispatch \/ SendStart \/ StartAnswered \/ AdoptObservation
Reconcile == ResolveStarted \/ ResolveAccepted \/ QueryRunner \/ MarkRemovalPending
             \/ RemoveRunner \/ MarkReconciledAbsent
Messages  == CommitMessage \/ CommitPickup \/ ReconcileAssignedDemand
Agent     == AgentAccepts \/ AgentStarts \/ AgentCleans \/ AgentEnds
Next == Messages \/ Lifecycle \/ Reconcile \/ DelayPasses \/ Agent
        \/ AgentReconnects \/ RecordUpdate \/ RequestLands \/ RunnerPicksUp \/ JobCompletes
        \/ SetNodeAdministrativeState \/ Restart

\* The coordinator's loop keeps driving, the Agent's tasks run, a session is
\* established with every new Controller epoch and drains the outbox, time passes
\* between two absence queries (the loop waits for it), and GitHub settles every
\* request.
SessionEstablished == snap.epoch # epoch /\ AgentReconnects
Fairness ==
    /\ WF_vars(Lifecycle) /\ WF_vars(Reconcile) /\ SF_vars(DelayPasses)
    /\ WF_vars(Agent) /\ WF_vars(SessionEstablished) /\ WF_vars(RecordUpdate)
    /\ WF_vars(RequestLands)

Spec == Init /\ [][Next]_vars /\ Fairness

-----------------------------------------------------------------------------
(* Properties *)

Live(a) == runner[a] \in {"requested", "idle", "busy"}

\* At most one runner of the job is registered, or about to be, at GitHub: an
\* attempt is followed by another only after BeginGitHubJITAttempt's predecessor
\* was proven absent, late generation requests included.
OneRegistration ==
    \A a, b \in Attempts : Live(a) /\ Live(b) => a = b

\* A Start that is on the wire, or that the Agent holds and has not run to its end,
\* belongs to the claim's current attempt and that attempt is not declared absent:
\* reconciliation never gives a registration up under a runner that may yet start.
OneLiveStart ==
    /\ net > 0 => net = cur /\ jit[cur].state # "reconciled_absent"
    /\ agent.start > 0 /\ agent.obs \in {"preparing", "running", "cleaning"} =>
          agent.start = cur /\ jit[cur].state # "reconciled_absent"

\* The slot stays leased to the execution whose runtime the Agent still holds, through
\* every restart, adoption and requeue: capacity is never promised twice.
SlotHeldWhileLive ==
    agent.obs \in {"preparing", "running", "cleaning", "cleanup_failed"} => slot = agent.exec

\* A DELETE is never sent for a runner that is up or that has evidence of having
\* picked the job up, however late the evidence is committed: the message commits
\* and the drive share driveMu for this.
RemovalSparesPickedUp ==
    pc = "removing" => /\ loc.id \notin picked
                       /\ ~(agent.start = loc.id /\ agent.obs = "running")

\* What a restart reads back is consistent: readGitHubReconciliationFences and
\* validateRestartGitHubJITAttempt accept every fence the transactions leave behind.
FencesConsistent ==
    Fenced =>
        /\ jit[cur].epoch \in 1..epoch
        /\ jit[cur].state # "none"
        /\ jit[cur].state \in {"agent_accepted", "started", "removal_pending"} =>
              claim.state = "reconciliation_required"
        /\ jit[cur].state \in {"start_dispatching", "start_ambiguous"} =>
              claim.state = jit[cur].state
        /\ jit[cur].state = "intent" => claim.state = "jit_intent"
        /\ jit[cur].state = "generation_ambiguous" =>
              claim.state = "jit_generation_ambiguous"
        /\ jit[cur].state = "generated" => claim.state = "jit_generated"
        /\ jit[cur].state \in {"intent", "generation_ambiguous"} <=> jit[cur].runner = 0
        /\ jit[cur].start => jit[cur].runner = cur

\* A pending claim is refused at a start only when a fresh offer re-armed its ambiguous
\* acquire and the attempt has not been sent since: its evidence is then a later
\* message than the claim's source.
RearmedAcquire == acquire.state = "pending" /\ acquire.msg > run

\* Whatever a crash leaves behind, the rows of a requeue are read back: the intent
\* beside the attempt it is for, and its replacement only once that attempt is gone.
\* A row that is refused stops the coordinator of the Target at every start.
RecoveryReadable ==
    /\ IntentReadable
    /\ claim.state = "pending" => PendingReadable \/ RearmedAcquire

\* Every AcquireJobs request is backed by a JobAvailable message of its own: an
\* ambiguous acquire is retried only on fresh evidence.
AcquireNeedsFreshOffer == calls <= msgs

\* The claim moves to a replacement execution only when the old attempt's runner is
\* gone from GitHub, no pickup evidence exists for it and its execution is over.
ReplacementOnlyAfterAbsence ==
    [][claim'.exec # claim.exec /\ run # 0 =>
          /\ ~Has \/ (~Live(cur) /\ cur \notin picked)
          /\ exec[run] \in CleanEnds]_vars

AbandonedGeneration(a) == Fenced /\ cur = a /\ Unborn /\ epoch > jit[a].epoch
SettledGeneration(a) == jit[a].state \notin {"intent", "generation_ambiguous"}

\* A generation ambiguity of an earlier epoch is eventually settled: the runner is
\* found and put under removal, or it is confirmed absent.  (An assigned-demand
\* claim's is not: Reconciling refuses its key.)
AmbiguityResolves ==
    \A a \in Attempts :
        (AbandonedGeneration(a) /\ ~claim.assigned) ~> SettledGeneration(a)

\* A runner that may yet start, or that has the job, is left alone: neither its
\* registration nor its attempt nor its slot is given up under it.
RunnersAreSpared == OneLiveStart /\ SlotHeldWhileLive /\ RemovalSparesPickedUp

\* The rows that a crash between two transactions leaves are rows the next Controller
\* process reads back, with two exceptions that the code refuses at every start: the
\* pending claim of a re-armed acquire (RearmedAcquire), and an ambiguous acquire of a
\* claim that has had an attempt (FencesReadable).
RestartReads ==
    /\ TypeOK
    /\ FencesConsistent
    /\ RecoveryReadable

=============================================================================
