------------------------------ MODULE GitHubPoll ------------------------------
(***************************************************************************)
(* The runner coordinator of one GitHub Target                             *)
(* (internal/app/controller_runner.go): it advertises the capacity of the  *)
(* Target's nodes in a long poll, commits the message before deleting it   *)
(* from GitHub's queue (internal/github/adapter.go), lets the poll's       *)
(* captured authority claim one node's slot                                *)
(* (internal/store/controller_github.go) and drives the claims it has.     *)
(* Freshness of the session and of the runner release                      *)
(* (internal/store/controller_freshness.go,                                *)
(* internal/reconcile/runner_update.go) gates capacity.  What driving does *)
(* between acquiring a job and a running process is GitHubClaims; here one *)
(* step of it passes or fails as a whole.                                  *)
(***************************************************************************)
EXTENDS Integers, Sequences, FiniteSets

CONSTANTS
    Nodes,          \* candidate nodes in their stable order: 1..n
    Jobs,           \* runner requests; message j of the queue offers job j: 1..k
    Window,         \* GitHubRunnerUpdateWindow
    MaxTime,        \* bound: clock
    MaxEvents       \* bound: failures, restarts, changes of nodes, policy and release

ASSUME PollConstants ==
    /\ IsFiniteSet(Nodes) /\ IsFiniteSet(Jobs)
    /\ Nodes # {}           \* else ErrControllerRunnerNoCandidate, and no poll
    /\ Nodes = 1..Cardinality(Nodes) /\ Jobs = 1..Cardinality(Jobs)
    /\ Window \in Nat \ {0} /\ MaxTime \in Nat /\ MaxEvents \in Nat

DemandKey == -1     \* allocateGitHubDemandClaimKey: below every request ID; bound: one
Keys      == Jobs \cup {DemandKey}
Foreign   == 0 - 2  \* a slot reserved by another Target's claim
Free      == 0

VARIABLES
    db,             \* the Controller's database
    mem,            \* what broker and reconciler hold of each node in memory
    audit,          \* ManagementAuditHealthy
    gh,             \* GitHub: the messages in the scale set's queue, which it delivers
                    \* in their order, and its assigned jobs
    now,
    co,             \* the coordinator with its poller
    events

vars == <<db, mem, audit, gh, now, co, events>>

---------------------------------------------------------------------------
Offline   == [on |-> FALSE, ready |-> FALSE, rev |-> 0]
NoAuth    == [rev |-> 0, pol |-> "auto", gen |-> 0, epoch |-> 0, rel |-> 0, until |-> 0,
              agent |-> [rev |-> 0, ready |-> FALSE, epoch |-> 0]]
NoScope   == [node |-> 0, claimable |-> FALSE, auth |-> NoAuth]
NoBinding == [node |-> 0, enabled |-> FALSE]
Closed    == [pc |-> "closed", pol |-> "auto", i |-> 1, scope |-> NoScope, adv |-> 0, cut |-> FALSE,
              aud |-> FALSE, recheck |-> 0, drive |-> FALSE, msg |-> 0, last |-> 0,
              bind |-> NoBinding, moved |-> FALSE]

\* The Controller has just started: policy and release as an earlier run left them.
Init ==
    /\ \E pol \in {"auto", "pinned"} :
          db = [sess |-> [fresh |-> "unknown", gen |-> 0],
                rel |-> IF pol = "auto" THEN [fresh |-> "unknown", gen |-> 0, cur |-> TRUE, at |-> 0, obs |-> 0]
                        ELSE [fresh |-> "fresh", gen |-> 1, cur |-> FALSE, at |-> 0, obs |-> 0],
                prof |-> [pol |-> pol, rev |-> 1],
                agent |-> [n \in Nodes |-> [rev |-> 0, ready |-> FALSE, epoch |-> 0]],
                active |-> [n \in Nodes |-> TRUE], slot |-> [n \in Nodes |-> Free],
                claims |-> <<>>, demand |-> 0, epoch |-> 1]
    /\ mem = [n \in Nodes |-> Offline]
    /\ audit = TRUE
    /\ gh = [queue |-> {}, sent |-> 0, assigned |-> 0]
    /\ now = 0
    /\ co = Closed
    /\ events = 0

\* clearPollScope: nothing of a poll survives it but the acknowledged message.
Leave(pc, drive) ==
    [Closed EXCEPT !.pc = pc, !.drive = drive, !.pol = co.pol, !.last = co.last, !.moved = co.moved]
Exit == [Closed EXCEPT !.moved = co.moved]

\* A bounded event of the environment.
Event == events < MaxEvents /\ events' = events + 1

---------------------------------------------------------------------------
(* Freshness *)

\* mutant: a session that has failed once never becomes fresh again.
FirstSuccess(s) == IF s.gen = 0 THEN [fresh |-> "fresh", gen |-> 1] ELSE s

SessionSuccess(s) == [fresh |-> "fresh", gen |-> IF s.fresh = "fresh" THEN s.gen ELSE s.gen + 1]

SessionFailure(s) ==
    IF s.gen = 0 THEN [fresh |-> "unknown", gen |-> 1]
    ELSE IF s.fresh = "fresh" THEN [fresh |-> "stale", gen |-> s.gen + 1] ELSE s

\* RunnerUpdateStatus.AllowsAdmissionAt of EvaluateRunnerUpdate: a pinned runner is
\* admitted while the release was observed within the window and is either the
\* latest or not superseded for longer than the window.
Allowed(pol) ==
    \/ pol = "auto"
    \/ /\ db.rel.fresh = "fresh" /\ now < db.rel.obs + Window
       /\ db.rel.cur \/ now < db.rel.at + Window

Earliest(a, b) == IF a = 0 THEN b ELSE IF b = 0 THEN a ELSE IF a < b THEN a ELSE b

\* runnerUpdateRecheckAt; 0 is the zero time.
RecheckAt(pol) ==
    IF pol = "auto" \/ ~Allowed(pol) THEN 0
    ELSE Earliest(db.rel.obs + Window, IF db.rel.cur THEN 0 ELSE db.rel.at + Window)

---------------------------------------------------------------------------
(* Candidates and the authority a poll captures *)

ClaimOf(k)  == {i \in 1..Len(db.claims) : db.claims[i].key = k}
Claimed(k)  == ClaimOf(k) # {}
OwnerOf(k)  == db.claims[CHOOSE i \in ClaimOf(k) : TRUE].node
Actionable  == {i \in 1..Len(db.claims) : db.claims[i].st \in {"pending", "acquired"}}
NextClaim   == CHOOSE i \in Actionable : \A j \in Actionable : i <= j
ActiveCount == Cardinality({i \in 1..Len(db.claims) : db.claims[i].st # "done"})

SlotAvailable(n) == db.active[n] /\ db.slot[n] = Free

\* Reconciler.Admission(n).AllowsNewCapacity and AllowsRecovery: the node's last
\* projected snapshot is ready and the node is administratively active.
Admits(n) == mem[n].on /\ mem[n].ready /\ db.active[n]

DurableReady(n) == db.agent[n].ready /\ db.agent[n].epoch = db.epoch
SameSnapshot(n) == mem[n].rev = db.agent[n].rev

\* readGitHubPollState: one read transaction.
PollState(n) ==
    [rev |-> db.prof.rev, pol |-> db.prof.pol, gen |-> db.sess.gen, epoch |-> db.epoch,
     rel |-> IF db.prof.pol = "pinned" THEN db.rel.gen ELSE 0, agent |-> db.agent[n],
     until |-> RecheckAt(db.prof.pol)]

Capacity(n, healthy) ==
    IF /\ SlotAvailable(n) /\ healthy /\ Admits(n) /\ DurableReady(n) /\ SameSnapshot(n)
       /\ db.sess.fresh = "fresh" /\ Allowed(db.prof.pol)
    THEN 1 ELSE 0

\* mutant: the commit trusts the agent evidence the poll started with.
TrustAgent(a, n) ==
    /\ a.agent.ready /\ a.rev = db.prof.rev /\ a.pol = db.prof.pol /\ a.gen = db.sess.gen
    /\ a.epoch = db.epoch /\ db.sess.fresh = "fresh"
    /\ a.pol = "pinned" => a.rel = db.rel.gen /\ db.rel.fresh = "fresh" /\ now < a.until

\* githubPollClaimAuthorityCurrent: nothing the poll relied on has moved.
AuthorityCurrent(a, n) ==
    /\ a.agent.ready /\ a.agent.epoch = a.epoch
    /\ [a EXCEPT !.until = 0] = [PollState(n) EXCEPT !.until = 0]
    /\ db.sess.fresh = "fresh"
    /\ a.pol = "pinned" => db.rel.fresh = "fresh" /\ now < a.until

---------------------------------------------------------------------------
(* The coordinator: opening, choosing a node, polling *)

\* mutant: the changes are watched from the long poll on.
WatchesPoll(c) == c.pc \in {"poll", "healthy", "commit", "ack", "await"}

Watching(c) == c.pc \in {"eval", "poll", "healthy", "commit", "ack", "await"}

\* A reconciler or readiness change closes the channels an evaluation has captured.
Signal(c) == IF Watching(c) THEN [c EXCEPT !.cut = TRUE] ELSE c

\* What cancels the poll's context.
Invalidated(c) == c.cut \/ (c.aud /\ ~audit) \/ (c.recheck # 0 /\ now >= c.recheck)

\* NewControllerRunnerCoordinator and recoveryWorkBeforeInitialPoll: acquired work is
\* driven before the first poll, pending work waits for its message.
Open ==
    /\ co.pc = "closed"
    /\ co' = [Closed EXCEPT !.pc = "loop", !.pol = db.prof.pol, !.moved = co.moved,
                  !.drive = Actionable # {} /\ db.claims[NextClaim].st = "acquired"]
    /\ UNCHANGED <<db, mem, audit, gh, now, events>>

Takes(n, cap, c) == n = 1 \/ (cap = 1 /\ ~c.scope.claimable)

\* The first usable node in candidate order gives the poll its authority, or the first
\* candidate when there is none; what GitHub is told is the sum.  After the last candidate
\* Poller.PollOnce records the session's statistics and enters the long poll.
Evaluate(c) ==
    LET n == c.i
        cap == Capacity(n, c.aud)
        last == n + 1 \notin Nodes
    IN  IF db.prof.pol # c.pol                  \* ErrControllerRunnerConfig
        THEN co' = Exit /\ UNCHANGED db
        ELSE /\ co' = [c EXCEPT !.i = n + 1, !.adv = @ + cap, !.pc = IF last THEN "poll" ELSE "eval",
                          !.recheck = Earliest(@, RecheckAt(c.pol)),
                          !.scope = IF Takes(n, cap, c) THEN [node |-> n, claimable |-> cap = 1, auth |-> PollState(n)]
                                    ELSE @]
             /\ db' = [db EXCEPT !.demand = IF last THEN gh.assigned ELSE @]

\* pollOnce: audit health is read before the candidates are.
EvaluateCandidate ==
    /\ \/ co.pc = "loop" /\ ~co.drive /\ Evaluate([Leave("eval", FALSE) EXCEPT !.aud = audit])
       \/ co.pc = "eval" /\ Evaluate(co)
    /\ UNCHANGED <<mem, audit, gh, now, events>>

PollDelivers ==
    /\ co.pc = "poll"
    /\ \E m \in gh.queue : /\ m > co.last /\ \A k \in gh.queue : m <= k
                          /\ co' = [co EXCEPT !.pc = "healthy", !.msg = m]
    /\ UNCHANGED <<db, mem, audit, gh, now, events>>

PollEmpty ==
    /\ co.pc = "poll"
    /\ co' = [co EXCEPT !.pc = "healthy"]
    /\ UNCHANGED <<db, mem, audit, gh, now, events>>

\* A provider failure is persisted before the retry delay; if that fails the
\* coordinator returns.
ProviderFails(drive) ==
    \/ /\ co' = Leave("retry", drive)
       /\ db' = [db EXCEPT !.sess = SessionFailure(@)]
    \/ co' = Exit /\ UNCHANGED db

PollFails ==
    /\ co.pc = "poll" /\ Event
    /\ ProviderFails(co.drive)
    /\ UNCHANGED <<mem, audit, gh, now>>

\* The cancelled operation is not a provider failure: capacity is evaluated again, and
\* claims that already exist are driven first.
Reevaluate == Leave("loop", TRUE)

Interrupted ==
    /\ co.pc \in {"poll", "healthy"} \/ (co.pc = "commit" /\ co.msg # 0)
    /\ Invalidated(co)
    /\ co' = Reevaluate
    /\ UNCHANGED <<db, mem, audit, gh, now, events>>

---------------------------------------------------------------------------
(* Committing what the poll returned *)

\* mutant: a redelivered message is bound to the node the new poll selected.
SelectedNode(m) == co.scope.node

\* existingClaimNode: redelivery keeps the node that owns the claim.
BindingNode(m) ==
    IF Claimed(m) THEN OwnerOf(m) ELSE co.scope.node

ClaimEnabled(n) == co.scope.claimable /\ co.scope.node = n /\ Admits(n)

\* CommitSessionDemand of the refreshed snapshot and CommitSessionHealthy; then the part
\* of CommitMessage, or of reconcileAssignedDemandForPoll for an empty poll (msg = 0),
\* that reads memory before its transaction.  An invalidated empty poll ends here.
Refreshed(d) == [db EXCEPT !.sess = SessionSuccess(@), !.demand = d]

\* Without a healthy audit log an empty poll drives on and a message is
\* ErrControllerRunnerAdmission.
Bound(n) ==
    IF audit THEN [co EXCEPT !.pc = "commit", !.bind = [node |-> n, enabled |-> ClaimEnabled(n)]]
    ELSE IF co.msg = 0 THEN Leave("drive", co.drive)
    ELSE Exit

CommitHealthy ==
    /\ co.pc = "healthy"
    /\ \E d \in {db.demand, gh.assigned} : db' = Refreshed(d)
    /\ co' = IF co.msg = 0 /\ Invalidated(co) THEN Reevaluate
             ELSE Bound(IF co.msg = 0 THEN co.scope.node ELSE BindingNode(co.msg))
    /\ UNCHANGED <<mem, audit, gh, now, events>>

StoreFails ==
    /\ co.pc \in {"healthy", "commit"} /\ Event
    /\ co' = Exit
    /\ UNCHANGED <<db, mem, audit, gh, now>>

MayClaim(b) == b.enabled /\ SlotAvailable(b.node) /\ AuthorityCurrent(co.scope.auth, b.node)

\* insertGitHubSlotClaim: claim, execution and reservation in one transaction.
Insert(d, k, st) ==
    [d EXCEPT !.slot[co.bind.node] = k,
              !.claims = Append(@, [key |-> k, node |-> co.bind.node, st |-> st])]

\* reconcileGitHubAssignedDemand: raise the active claims to the assigned count.
DemandDue == db.demand > ActiveCount /\ MayClaim(co.bind) /\ ~Claimed(DemandKey)
WithDemand(d) == IF DemandDue THEN Insert(d, DemandKey, "acquired") ELSE d

\* ErrGitHubAvailableUnclaimed keeps the message on GitHub's queue.
AfterCommit(claimed) == IF claimed THEN "ack" ELSE "retry"

\* CommitGitHubQueueMessage and the projection of its claim, which closes the channel
\* this poll watches.
CommitMessage ==
    /\ co.pc = "commit" /\ co.msg # 0
    /\ LET m == co.msg
       IN  \/ /\ ~audit
              /\ co' = Exit /\ UNCHANGED db
           \/ /\ audit /\ Claimed(m)            \* another binding is ErrReplayMismatch
              /\ UNCHANGED db
              /\ co' = IF OwnerOf(m) = co.bind.node
                       THEN [co EXCEPT !.pc = "ack", !.cut = @ \/ mem[co.bind.node].rev # 0]
                       ELSE [Exit EXCEPT !.moved = TRUE]
           \/ /\ audit /\ ~Claimed(m) /\ MayClaim(co.bind)
              /\ db' = Insert(db, m, "pending")
              /\ co' = [co EXCEPT !.pc = "ack", !.cut = TRUE]
           \/ /\ audit /\ ~Claimed(m) /\ ~MayClaim(co.bind)
              /\ db' = WithDemand(db)
              /\ co' = IF AfterCommit(FALSE) = "ack" THEN [co EXCEPT !.pc = "ack"] ELSE Leave("retry", co.drive)
    /\ UNCHANGED <<mem, audit, gh, now, events>>

\* ReconcileGitHubAssignedDemand of an empty poll.
CommitDemand ==
    /\ co.pc = "commit" /\ co.msg = 0
    /\ IF DemandDue /\ ~audit
       THEN co' = Exit /\ UNCHANGED db
       ELSE co' = Leave("drive", co.drive) /\ db' = WithDemand(db)
    /\ UNCHANGED <<mem, audit, gh, now, events>>

\* DeleteMessage succeeds; the poll's invalidation is looked at afterwards.
Acknowledge ==
    /\ co.pc = "ack"
    /\ gh' = [gh EXCEPT !.queue = @ \ {co.msg}]
    /\ co' = IF Invalidated(co) THEN [Reevaluate EXCEPT !.last = co.msg]
             ELSE [Leave("drive", co.drive) EXCEPT !.last = co.msg]
    /\ UNCHANGED <<db, mem, audit, now, events>>

\* DeleteMessage runs under the poll's context: cancelled, the message may or may not
\* have been deleted.
AckCancelled ==
    /\ co.pc = "ack" /\ Invalidated(co)
    /\ gh' \in {gh, [gh EXCEPT !.queue = @ \ {co.msg}]}
    /\ co' = Reevaluate
    /\ UNCHANGED <<db, mem, audit, now, events>>

AckFails ==
    /\ co.pc = "ack" /\ Event
    /\ gh' \in {gh, [gh EXCEPT !.queue = @ \ {co.msg}]}
    /\ ProviderFails(co.drive)
    /\ UNCHANGED <<mem, audit, now>>

---------------------------------------------------------------------------
(* Driving claims *)

Driving     == co.pc = "drive" \/ (co.pc = "loop" /\ co.drive)
Claim       == db.claims[NextClaim]
Recoverable == Admits(Claim.node)
Admitted    == db.sess.fresh = "fresh" /\ Allowed(db.prof.pol)
Drives      == /\ Actionable # {} /\ audit /\ Recoverable /\ db.prof.pol = co.pol /\ Admitted
               /\ DurableReady(Claim.node) /\ SameSnapshot(Claim.node)

\* After a poll another actionable claim is driven at once; a drive before the poll is
\* followed by the poll.
Advance(st) ==
    /\ db' = [db EXCEPT !.claims[NextClaim].st = st]
    /\ co' = Leave("loop", co.pc = "drive" /\ (st = "acquired" \/ Cardinality(Actionable) > 1))

DriveNothing ==
    /\ Driving /\ Actionable = {}
    /\ co' = Leave("loop", FALSE)
    /\ UNCHANGED <<db, mem, audit, gh, now, events>>

\* acquire, prepare, generateAndStart: as far as the next wait for the Agent.
DriveClaim ==
    /\ Driving /\ Drives
    /\ \E st \in {"acquired", "started"} : Claim.st # st /\ Advance(st)
    /\ UNCHANGED <<mem, audit, gh, now, events>>

DriveFails ==
    /\ Driving /\ Drives /\ Event
    /\ ProviderFails(TRUE)
    /\ UNCHANGED <<mem, audit, gh, now>>

\* requireRunnerAdmission refuses: ErrControllerRunnerAdmission returns to polling,
\* ErrAgentOffline waits for readiness, a changed policy ends the coordinator.
DriveRefused ==
    /\ Driving /\ Actionable # {} /\ ~Drives
    /\ co' = IF ~audit THEN Leave("loop", FALSE)
             ELSE IF ~Recoverable THEN Leave("await", TRUE)
             ELSE IF db.prof.pol # co.pol THEN Exit
             ELSE IF ~Admitted THEN Leave("loop", FALSE)
             ELSE Leave("await", TRUE)
    /\ UNCHANGED <<db, mem, audit, gh, now, events>>

\* waitForRunnerReadiness: any candidate that is ready, or any change, ends the wait.
AwaitReadiness ==
    /\ co.pc = "await"
    /\ co.cut \/ \E n \in Nodes : Admits(n)
    /\ co' = Leave("loop", TRUE)
    /\ UNCHANGED <<db, mem, audit, gh, now, events>>

\* waitForProviderRetry
RetryElapses ==
    /\ co.pc = "retry"
    /\ co' = Leave("loop", co.drive)
    /\ UNCHANGED <<db, mem, audit, gh, now, events>>

---------------------------------------------------------------------------
(* The environment *)

\* GitHub offers the next job, or counts an assigned one.
NewJob ==
    /\ gh.sent < Cardinality(Jobs)
    /\ gh' = [gh EXCEPT !.sent = @ + 1, !.queue = @ \cup {gh.sent + 1}]
    /\ UNCHANGED <<db, mem, audit, now, co, events>>

AssignJob ==
    /\ Event
    /\ gh' = [gh EXCEPT !.assigned = 1 - @]
    /\ UNCHANGED <<db, mem, audit, now, co>>

\* The Agent's terminal update releases the reservation.
JobEnds(i) ==
    /\ i \in 1..Len(db.claims) /\ db.claims[i].st = "started"
    /\ db' = [db EXCEPT !.claims[i].st = "done", !.slot[db.claims[i].node] = Free]
    /\ co' = Signal(co)
    /\ UNCHANGED <<mem, audit, gh, now, events>>

\* The first snapshot of a Controller epoch.
AgentConnects(n) ==
    /\ db.agent[n].epoch # db.epoch
    /\ db' = [db EXCEPT !.agent[n] = [rev |-> @.rev + 1, ready |-> TRUE, epoch |-> db.epoch]]
    /\ mem' = [mem EXCEPT ![n] = [on |-> TRUE, ready |-> TRUE, rev |-> db.agent[n].rev + 1]]
    /\ co' = Signal(co)
    /\ UNCHANGED <<audit, gh, now, events>>

\* A later session's snapshot becomes durable, then is projected; a lost session is
\* projected, then recorded.
AgentStored(n, ready) ==
    /\ db.agent[n].epoch = db.epoch /\ Event
    /\ db' = [db EXCEPT !.agent[n] = [rev |-> @.rev + 1, ready |-> ready, epoch |-> db.epoch]]
    /\ UNCHANGED <<mem, audit, gh, now, co>>

AgentProjected(n) ==
    /\ db.agent[n].epoch = db.epoch /\ db.agent[n].rev > mem[n].rev
    /\ mem' = [mem EXCEPT ![n] = [on |-> TRUE, ready |-> db.agent[n].ready, rev |-> db.agent[n].rev]]
    /\ co' = Signal(co)
    /\ UNCHANGED <<db, audit, gh, now, events>>

AgentLost(n) ==
    /\ mem[n].on /\ Event
    /\ mem' = [mem EXCEPT ![n].on = FALSE, ![n].ready = FALSE]
    /\ co' = Signal(co)
    /\ UNCHANGED <<db, audit, gh, now>>

DisconnectRecorded(n) ==
    /\ ~mem[n].on /\ mem[n].rev # 0 /\ SameSnapshot(n) /\ db.agent[n].ready
    /\ db' = [db EXCEPT !.agent[n].ready = FALSE]
    /\ UNCHANGED <<mem, audit, gh, now, co, events>>

SetNodeAdministrativeState(n) ==
    /\ Event
    /\ db' = [db EXCEPT !.active[n] = ~@]
    /\ co' = Signal(co)
    /\ UNCHANGED <<mem, audit, gh, now>>

\* Another Target's coordinator claims the node's slot, or its job ends.
OtherTarget(n) ==
    /\ db.slot[n] \in {Free, Foreign} /\ Event
    /\ db.slot[n] = Free => Admits(n)
    /\ db' = [db EXCEPT !.slot[n] = IF @ = Free THEN Foreign ELSE Free]
    /\ co' = Signal(co)
    /\ UNCHANGED <<mem, audit, gh, now>>

ConfigureRunnerProfile ==
    /\ Event
    /\ db' = [db EXCEPT !.prof = [pol |-> IF @.pol = "auto" THEN "pinned" ELSE "auto", rev |-> @.rev + 1]]
    /\ UNCHANGED <<mem, audit, gh, now, co>>

\* RefreshGitHubRunnerRelease: a release never gets older; only a change of it, or of
\* its freshness, is a new generation.
ReleaseObserved(cur, at) ==
    LET r == db.rel IN
    /\ Event /\ at \in r.at..now /\ (r.gen # 0 /\ ~r.cur => ~cur)
    /\ db' = [db EXCEPT !.rel = [fresh |-> "fresh", cur |-> cur, at |-> at, obs |-> now,
                  gen |-> IF r.fresh = "fresh" /\ r.cur = cur /\ r.at = at THEN r.gen ELSE r.gen + 1]]
    /\ UNCHANGED <<mem, audit, gh, now, co>>

ReleaseFails ==
    LET r == db.rel IN
    /\ Event /\ (r.gen = 0 \/ r.fresh = "fresh")
    /\ db' = [db EXCEPT !.rel = IF r.gen = 0 THEN [r EXCEPT !.gen = 1]
                                ELSE [r EXCEPT !.fresh = "stale", !.gen = r.gen + 1]]
    /\ UNCHANGED <<mem, audit, gh, now, co>>

Tick ==
    /\ now < MaxTime /\ now' = now + 1 /\ Event
    /\ UNCHANGED <<db, mem, audit, gh, co>>

AuditDegrades ==
    /\ audit /\ Event
    /\ audit' = FALSE
    /\ UNCHANGED <<db, mem, gh, now, co>>

\* The fleet cancels the coordinator and closes its session.
Stop ==
    /\ co.pc # "closed" /\ Event
    /\ co' = Exit
    /\ UNCHANGED <<db, mem, audit, gh, now>>

Restart ==
    /\ Event
    /\ db' = [db EXCEPT !.epoch = @ + 1]
    /\ mem' = [n \in Nodes |-> Offline]
    /\ audit' = TRUE
    /\ co' = Exit
    /\ UNCHANGED <<gh, now>>

---------------------------------------------------------------------------
Coordinator ==
    \/ Open \/ EvaluateCandidate \/ PollEmpty \/ PollDelivers
    \/ Interrupted \/ CommitHealthy \/ CommitMessage \/ CommitDemand \/ Acknowledge
    \/ AckCancelled \/ DriveNothing \/ DriveClaim \/ DriveRefused \/ AwaitReadiness \/ RetryElapses

Faults ==
    \/ PollFails \/ StoreFails \/ AckFails \/ DriveFails \/ AuditDegrades \/ Stop \/ Restart

Environment ==
    \/ NewJob \/ AssignJob \/ Tick \/ ReleaseFails \/ ConfigureRunnerProfile
    \/ \E cur \in BOOLEAN, at \in 0..MaxTime : ReleaseObserved(cur, at)
    \/ \E n \in Nodes : \/ \E r \in BOOLEAN : AgentStored(n, r)
                         \/ AgentConnects(n) \/ AgentProjected(n) \/ AgentLost(n) \/ DisconnectRecorded(n)
                         \/ SetNodeAdministrativeState(n) \/ OtherTarget(n)
    \/ \E i \in 1..Cardinality(Keys) : JobEnds(i)

Next == Coordinator \/ Faults \/ Environment

\* Each step of the coordinator is its goroutine's next statement or a timer; the
\* interruption is delivered by goroutines that wait on the watched channels, and GitHub
\* ends a long poll.  It delivers a queued message in one of the polls, a job ends, and the deletion of a
\* message is not cancelled every time.
Fairness ==
    /\ WF_vars(Open \/ EvaluateCandidate)
    /\ WF_vars(Interrupted \/ PollEmpty)
    /\ WF_vars(CommitHealthy \/ CommitMessage \/ CommitDemand)
    /\ WF_vars(DriveNothing \/ DriveClaim \/ DriveRefused \/ AwaitReadiness \/ RetryElapses)
    /\ SF_vars(PollDelivers)
    /\ SF_vars(Acknowledge)
    /\ \A i \in 1..Cardinality(Keys) : WF_vars(JobEnds(i))

Spec == Init /\ [][Next]_vars /\ Fairness

---------------------------------------------------------------------------
(* Properties *)

Pcs == {"closed", "loop", "eval", "poll", "healthy", "commit", "ack", "drive", "retry", "await"}

\* Every row and every captured value has its type, and the coordinator is never past the
\* selection of a node without one.
TypeOK ==
    /\ db.sess.fresh \in {"unknown", "fresh", "stale"} /\ db.rel.fresh \in {"unknown", "fresh", "stale"}
    /\ db.rel.at <= db.rel.obs /\ db.rel.obs <= now /\ now \in 0..MaxTime
    /\ \A i \in 1..Len(db.claims) : /\ db.claims[i].key \in Keys /\ db.claims[i].node \in Nodes
                                    /\ db.claims[i].st \in {"pending", "acquired", "started", "done"}
    /\ db.demand \in 0..1 /\ events \in 0..MaxEvents
    /\ co.pc \in Pcs /\ co.adv \in 0..Cardinality(Nodes)
    /\ co.pc \in {"poll", "healthy", "commit", "ack"} => co.scope.node \in Nodes

\* No job is lost: a message GitHub no longer holds has its job in a durable claim, over
\* every cancellation, failed deletion, restart and change of node (commit before
\* acknowledgement in Poller.PollOnce and CommitGitHubQueueMessage).
DeletedIsClaimed ==
    \A j \in 1..gh.sent : j \in gh.queue \/ Claimed(j)

\* One claim per job and one job per slot, however often a message is delivered.
OneClaim ==
    \A i, j \in 1..Len(db.claims) :
        i # j => /\ db.claims[i].key # db.claims[j].key
                 /\ db.claims[i].st # "done" /\ db.claims[j].st # "done"
                        => db.claims[i].node # db.claims[j].node

\* Redelivery is never refused as a replay with another binding, whichever node the
\* current poll has selected (existingClaimNode).
RedeliveryKeepsNode == ~co.moved

\* At the moment a claim is created its node's Agent is durably ready in this Controller
\* epoch, the node is active, the session fresh, the audit log healthy and a pinned
\* runner inside its window, although the poll's authority was captured before a long
\* poll (githubPollClaimAuthorityCurrent).
ClaimUnderAuthority ==
    [][Len(db'.claims) > Len(db.claims) =>
        LET n == db'.claims[Len(db'.claims)].node IN
        /\ db.agent[n].ready /\ db.agent[n].epoch = db.epoch /\ db.active[n] /\ db.slot[n] = Free
        /\ db.sess.fresh = "fresh" /\ audit
        /\ db.prof.pol = "pinned" =>
              /\ db.rel.fresh = "fresh" /\ now < db.rel.obs + Window
              /\ db.rel.cur \/ now < db.rel.at + Window]_vars

\* Capacity still on offer: some node could take a job by what memory, clock and audit
\* say.
Offerable ==
    /\ audit
    /\ \E n \in Nodes : mem[n].on /\ mem[n].ready /\ db.active[n] /\ db.slot[n] = Free
    /\ co.recheck # 0 => now < co.recheck

\* A long poll that advertises capacity nobody has any more has been cancelled: a lost or
\* drained node, a slot another Target took, a degraded audit log or a passed runner
\* deadline reaches it even when it happens while the candidates are still being
\* evaluated (pollOnce).
WithdrawnOfferIsCut ==
    co.pc = "poll" /\ co.adv > 0 /\ ~Offerable =>
        co.cut \/ (co.aud /\ ~audit) \/ (co.recheck # 0 /\ now >= co.recheck)

NodesUp ==
    /\ audit /\ (db.prof.pol = "auto" \/ (db.rel.fresh = "fresh" /\ now < db.rel.obs + Window
                                          /\ (db.rel.cur \/ now < db.rel.at + Window)))
    /\ \A n \in Nodes : /\ mem[n].on /\ mem[n].ready /\ db.active[n] /\ db.slot[n] # Foreign
                        /\ db.agent[n].ready /\ db.agent[n].epoch = db.epoch /\ mem[n].rev = db.agent[n].rev

\* When the nodes stay usable every job GitHub queues is claimed and its runner started:
\* a stale session, an interrupted poll, a message that could not be claimed or
\* acknowledged and a coordinator that ended only delay it (Run).
JobsAreServed ==
    <>[]NodesUp =>
        \A j \in Jobs : (gh.sent >= j) ~> (\E i \in 1..Len(db.claims) :
                                                 db.claims[i].key = j /\ db.claims[i].st \in {"started", "done"})

\* Messages, claims and slots correspond over every redelivery.
ClaimsMatchMessages ==
    /\ TypeOK
    /\ DeletedIsClaimed
    /\ OneClaim
    /\ RedeliveryKeepsNode

=============================================================================
