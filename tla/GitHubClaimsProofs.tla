------------------------- MODULE GitHubClaimsProofs -------------------------
(***************************************************************************)
(* The claim, its JIT attempts and its runners, for every number of        *)
(* messages, attempts, epochs and failures.  Two invariants carry the      *)
(* theorems: Backed counts the JobAvailable messages that pay for the      *)
(* AcquireJobs requests; ClaimInv relates the claim to its attempt's row,  *)
(* both to the coordinator's position and to GitHub's registrations, and   *)
(* all of them to what the Agent holds, reports and has been sent.  An     *)
(* action's effect is stated first (SetClaimEffect, MoveEffect ...), then  *)
(* what a part of the state that stays alone keeps (RowsKept, RunKept ...) *)
(* and then one lemma per action.                                          *)
(***************************************************************************)
EXTENDS GitHubClaims, TLAPS

\* An acquire attempt that has not been sent yet, and a requeue intent that will
\* make one, each keep a message in reserve: this is what makes the count inductive.
Due    == IF acquire.state \in {"pending", "reconciled_pending"} THEN 1 ELSE 0
Queued == IF intent > 0 THEN 1 ELSE 0

Backed ==
    /\ msgs \in Nat /\ calls \in Nat /\ intent \in Nat /\ "state" \in DOMAIN acquire
    /\ calls + Due + Queued <= msgs

ledger == <<msgs, calls, acquire, intent>>

LEMMA LedgerUntouched == ASSUME Backed, UNCHANGED ledger PROVE Backed'
BY DEF Backed, Due, Queued, ledger

\* A new acquire attempt takes the place of the message or the intent that asked
\* for it.
LEMMA Rearmed ==
    ASSUME Backed, NEW s, NEW m, NextAcquire(s, m), UNCHANGED calls,
           \/ msgs' = msgs + 1 /\ UNCHANGED intent
           \/ UNCHANGED msgs /\ intent > 0 /\ intent' = 0
    PROVE  Backed'
BY DEF Backed, Due, Queued, NextAcquire

\* CommitMessage
LEMMA MessageBacked == ASSUME Backed, CommitMessage PROVE Backed'
<1> USE DEF CommitMessage, ClaimOffer, CreateRequeueIntent, RearmLostJIT, RearmAcquire,
            KnownOffer
<1>1. calls' = calls /\ msgs' = msgs + 1
  OBVIOUS
<1>2. CASE NextAcquire("pending", msgs + 1) /\ UNCHANGED intent
  BY <1>1, <1>2, Rearmed
<1>3. CASE intent = 0 /\ intent' = msgs + 1 /\ UNCHANGED acquire
  BY <1>1, <1>3 DEF Backed, Due, Queued
<1>4. CASE UNCHANGED <<acquire, intent>>
  BY <1>1, <1>4 DEF Backed, Due, Queued
<1> QED
  BY <1>2, <1>3, <1>4

\* BeginGitHubAcquire spends the reserve of the attempt it sends.
LEMMA AcquireBacked == ASSUME Backed, BeginAcquire PROVE Backed'
BY DEF BeginAcquire, AcquireReady, Backed, Due, Queued

\* MarkGitHubAcquired
LEMMA AnswerBacked == ASSUME Backed, AcquireAnswered PROVE Backed'
BY DEF AcquireAnswered, Backed, Due, Queued

\* Only a requeue intent classifies a removal as a requeue.
LEMMA RequeueHasIntent ==
    ASSUME Backed, RemovalKind = "unpicked_requeue" PROVE intent > 0
BY DEF RemovalKind, AgentRemovalKind, Backed

\* finalizeGitHubUnpickedRequeue, and the other outcomes of an absence
LEMMA AbsenceBacked == ASSUME Backed, MarkReconciledAbsent PROVE Backed'
<1>1. calls' = calls /\ msgs' = msgs
  BY DEF MarkReconciledAbsent
<1>2. CASE ConfirmAmbiguity
  BY <1>1, <1>2, LedgerUntouched DEF ConfirmAmbiguity, ledger
<1>3. CASE ConfirmLostJIT
  BY <1>1, <1>3, LedgerUntouched DEF ConfirmLostJIT, ledger
<1>4. CASE ConfirmRequeue
  <2>1. intent > 0 /\ intent' = 0
    BY <1>4, RequeueHasIntent DEF ConfirmRequeue
  <2>2. CASE UNCHANGED acquire
    BY <1>1, <2>1, <2>2 DEF Backed, Due, Queued
  <2>3. CASE NextAcquire("reconciled_pending", intent)
    BY <1>1, <2>1, <2>3, Rearmed
  <2> QED
    BY <1>4, <2>2, <2>3 DEF ConfirmRequeue, ClaimReplacement, DiscardReplacement
<1>5. CASE UNCHANGED <<acquire, intent>>
  BY <1>1, <1>5, LedgerUntouched DEF ledger
<1> QED
  BY <1>2, <1>3, <1>4, <1>5 DEF MarkReconciledAbsent, store

LEMMA StepBacked == ASSUME Backed, [Next]_vars PROVE Backed'
<1>1. CASE UNCHANGED vars
  BY <1>1, LedgerUntouched DEF vars, store, ledger
<1>2. CASE Messages
  <2>1. CASE CommitPickup
    BY <2>1, LedgerUntouched DEF CommitPickup, store, ledger
  <2>2. CASE ReconcileAssignedDemand
    BY <2>2, LedgerUntouched DEF ReconcileAssignedDemand, ledger
  <2> QED
    BY <1>2, <2>1, <2>2, MessageBacked DEF Messages
<1>3. CASE Lifecycle
  <2>1. CASE SendPrepare \/ PrepareDone \/ PrepareAnswered \/ ReplayPrepare
    BY <2>1, LedgerUntouched
       DEF SendPrepare, PrepareDone, PrepareAnswered, ReplayPrepare, ledger
  <2>2. CASE BeginJITAttempt \/ GenerateAnswered \/ BeginStartDispatch
    BY <2>2, LedgerUntouched
       DEF BeginJITAttempt, GenerateAnswered, BeginStartDispatch, ledger
  <2>3. CASE SendStart \/ StartAnswered \/ AdoptObservation
    BY <2>3, LedgerUntouched DEF SendStart, StartAnswered, AdoptObservation, ledger
  <2> QED
    BY <1>3, <2>1, <2>2, <2>3, AcquireBacked, AnswerBacked DEF Lifecycle
<1>4. CASE Reconcile
  <2>1. CASE ResolveStarted \/ ResolveAccepted
    BY <2>1, LedgerUntouched DEF ResolveStarted, ResolveAccepted, ledger
  <2>2. CASE QueryRunner \/ MarkRemovalPending \/ RemoveRunner
    BY <2>2, LedgerUntouched
       DEF QueryRunner, MarkRemovalPending, RemoveRunner, store, ledger
  <2> QED
    BY <1>4, <2>1, <2>2, AbsenceBacked DEF Reconcile
<1>5. CASE DelayPasses
  BY <1>5, LedgerUntouched DEF DelayPasses, ledger
<1>6. CASE Agent
  BY <1>6, LedgerUntouched
     DEF Agent, AgentAccepts, AgentStarts, AgentCleans, AgentEnds, store, ledger
<1>7. CASE AgentReconnects \/ RecordUpdate \/ SetNodeAdministrativeState
  BY <1>7, LedgerUntouched
     DEF AgentReconnects, RecordUpdate, SetNodeAdministrativeState, ledger
<1>8. CASE RequestLands \/ RunnerPicksUp \/ JobCompletes \/ Restart
  BY <1>8, LedgerUntouched
     DEF RequestLands, RunnerPicksUp, JobCompletes, Restart, store, ledger
<1> QED
  BY <1>1, <1>2, <1>3, <1>4, <1>5, <1>6, <1>7, <1>8 DEF Next

\* An AcquireJobs request is never sent twice for one JobAvailable message, through
\* every crash, re-arm and requeue: BeginGitHubAcquire only sends an attempt that
\* a message has created.
THEOREM AcquiresAreBacked == Spec => []AcquireNeedsFreshOffer
<1>1. Init => Backed
  BY DEF Init, Backed, Due, Queued
<1>2. Backed /\ [Next]_vars => Backed'
  BY StepBacked
<1>3. Backed => AcquireNeedsFreshOffer
  BY DEF Backed, Due, Queued, AcquireNeedsFreshOffer
<1> QED
  BY <1>1, <1>2, <1>3, PTL DEF Spec
-----------------------------------------------------------------------------
(* The invariant of the claim *)

Views     == [exec : 0..MaxMessages, start : 0..MaxAttempts, obs : RunStates]
Snapshots == [epoch : 0..MaxEpoch, exec : 0..MaxMessages, start : 0..MaxAttempts,
              obs : RunStates]
AuthKinds == {"none", "agent_accepted", "generation"} \cup Kinds
Stages    == {"none", "issued", "absence"}
Auths     == [kind : AuthKinds, stage : Stages, snap : Views,
              epoch : 0..MaxEpoch, gen : 0..(MaxFailures + 1), ripe : BOOLEAN]
Reads     == [snap : Views, gen : 0..(MaxFailures + 1), id : 0..MaxAttempts]
Updates   == [start : 0..MaxAttempts, state : {"running", "released", "cleanup_failed"}]
Claims    == [state : ClaimStates, exec : 0..MaxMessages, attempt : 0..MaxAttempts,
              assigned : BOOLEAN]
Rows      == [state : JITStates, epoch : 0..MaxEpoch, runner : 0..MaxAttempts,
              start : BOOLEAN]
Acquires  == [n : 0..MaxMessages, epoch : 0..MaxEpoch, msg : 0..MaxMessages,
              state : {"none", "pending", "reconciled_pending", "dispatching", "acquired"}]
Histories == [ran : BOOLEAN, end : {"none"} \cup Ends]
Positions == {"idle", "acquiring", "preparing", "generating", "generated",
              "dispatching", "sent", "present", "absent", "removing", "stopped"}
Regs      == {"none", "requested", "idle", "busy", "served", "removed"}

StoreTyped ==
    /\ claim \in Claims /\ exec \in [Execs -> RunStates] /\ slot \in 0..MaxMessages
    /\ node \in {"active", "draining", "quarantined"} /\ acquire \in Acquires
    /\ jit \in [Attempts -> Rows] /\ auth \in Auths /\ intent \in 0..MaxMessages
    /\ prep \in 0..MaxEpoch
CoreTyped ==
    /\ epoch \in 1..MaxEpoch /\ msgs \in 0..MaxMessages /\ gen \in 1..(MaxFailures + 1)
    /\ pc \in Positions /\ loc \in Reads
    /\ runner \in [Attempts -> Regs] /\ picked \subseteq Attempts
AgentTyped ==
    /\ issued \subseteq Attempts /\ hist \in [Attempts -> Histories] /\ snap \in Snapshots
    /\ agent \in Views /\ outbox \in Seq(Updates) /\ net \in 0..MaxAttempts
Typed == StoreTyped /\ CoreTyped /\ AgentTyped

st   == claim.state
row  == jit[cur]
Gone == Has /\ row.state = "reconciled_absent"

\* A claim that is before its next JIT attempt.
Early == {"none", "pending", "acquire_ambiguous", "acquired", "preparing", "prepare_failed"}

\* Whether the claim has an execution and an attempt, and that an attempt is followed
\* by another only once it is gone.
ClaimShape ==
    /\ st = "none" => run = 0 /\ cur = 0 /\ prep = 0
    /\ st # "none" => run > 0
    /\ st \in Early /\ Has => Gone
    /\ st \notin Early => Has

\* The two rows that transitionGitHubJIT writes together.
Paired ==
    /\ st = "jit_intent" => row.state = "intent"
    /\ st = "jit_generation_ambiguous" => row.state = "generation_ambiguous"
    /\ st = "jit_generated" => row.state = "generated"
    /\ st \in {"start_dispatching", "start_ambiguous"} => row.state = st
    /\ st = "running" => row.state \in {"started", "reconciled_absent"}
    /\ st = "reconciliation_required" =>
          row.state \in {"agent_accepted", "removal_pending", "started", "reconciled_absent"}

Nameless == {"intent", "generation_ambiguous", "reconciled_absent"}
Named    == {"generated", "start_dispatching", "start_ambiguous", "agent_accepted", "started"}

\* What an attempt knows of its runner and of its Start in each of its states.
RowShape ==
    Has => /\ row.state # "none" /\ row.epoch \in 1..epoch
           /\ row.state \in Nameless => row.runner = 0 /\ ~row.start
           /\ row.state \in Named => row.runner = cur /\ row.start
           /\ row.state = "removal_pending" =>
                 row.runner # 0 /\ (row.start => row.runner = cur)

\* A requeue keeps a message in reserve for the acquire attempt it will make.
Requeue ==
    /\ IntentReadable /\ PendingShape
    /\ acquire.state # "none" => acquire.n >= 1
    /\ acquire.n + Queued <= msgs /\ intent <= msgs

RowInv == ClaimShape /\ Paired /\ RowShape /\ Requeue

\* What the coordinator's position says of the rows.
PcShape ==
    /\ pc = "preparing" => st = "acquired"
    /\ pc = "generating" => st = "jit_intent" /\ row.epoch = epoch
    /\ pc = "generated" => st = "jit_generated" /\ row.epoch = epoch
    /\ pc \in {"dispatching", "sent"} => st = "start_dispatching" /\ row.epoch = epoch
    /\ pc \in {"present", "absent", "removing"} => Fenced

\* An absence that waits for its confirmation is of an attempt that is not gone.
AuthorityShape ==
    /\ auth.stage # "none" => st \notin Early /\ ~Gone
    /\ auth.ripe => auth.stage = "absence"

\* Only the current attempt's runner is registered, and not once the attempt is gone;
\* an absence that a confirmation rests on was read after the last request had landed.
Registration ==
    /\ \A a \in Attempts : Live(a) => a = cur
    /\ Gone => ~Live(cur)
    /\ auth.ripe => runner[cur] # "requested"
    /\ pc = "absent" /\ auth.ripe => ~Live(cur)

CoordInv == PcShape /\ AuthorityShape /\ Registration

\* The Agent's journal.
AgentShape ==
    /\ agent.obs \in {"none", "preparing", "running", "cleaning", "released", "cleanup_failed"}
    /\ agent.obs = "none" => agent.exec = 0 /\ agent.start = 0
    /\ agent.obs # "none" => agent.exec > 0
    /\ agent.obs \in {"running", "cleaning", "released", "cleanup_failed"} => agent.start > 0

\* A Start exists, anywhere, only after the current or an earlier attempt issued it.
Issue ==
    /\ net > 0 => net \in issued
    /\ agent.start > 0 => agent.start \in issued
    /\ \A a \in Attempts : hist[a].ran \/ hist[a].end # "none" => a \in issued
    /\ \A a \in issued : a <= cur
    /\ Has /\ cur \in issued => row.start \/ Gone
    /\ pc \in {"generating", "generated", "dispatching"} => cur \notin issued

\* A Start on the wire is the current attempt's and nothing is known of it yet; it
\* does not outlive the session, so a later epoch's snapshot has replaced it.
Fresh ==
    /\ snap.epoch <= epoch
    /\ net > 0 => /\ net = cur /\ ~Gone /\ agent.start # net
                  /\ ~hist[net].ran /\ hist[net].end = "none"
                  /\ snap.epoch = epoch => row.epoch = epoch

\* The update that ended the runtime is acknowledged, and the failed cleanup keeps it.
Tombstone == agent.obs = "cleanup_failed" /\ outbox = <<>>

\* The Start the Agent holds is the current attempt's, which is not gone, and the
\* snapshot of a later epoch than the attempt's holds it as well.
Holding ==
    agent.start > 0 =>
        \/ /\ agent.start = cur /\ ~Gone /\ agent.exec = run
           /\ snap.epoch = epoch /\ epoch > row.epoch => snap.start = cur
        \/ Tombstone

\* The terminal update of a Start is the last thing the Agent says of it, and the
\* execution's state is the one it reported.
EndShape ==
    /\ \A a \in Attempts : hist[a].end # "none" => agent.start # a \/ Tombstone
    /\ Has /\ ~Gone /\ hist[cur].end # "none" => exec[run] = hist[cur].end

Occupied == {"preparing", "running", "cleaning", "cleanup_failed"}
SlotShape ==
    /\ slot \in {0, run}
    /\ \A e \in Execs : exec[e] = "reserved" => slot = e
    /\ agent.obs \in Occupied => slot = agent.exec

\* The outbox holds at most the Running update and after it the terminal one.
OutboxShape ==
    /\ \A i \in 1..Len(outbox) :
          /\ outbox[i].start = agent.start /\ agent.start > 0
          /\ outbox[i].state \in {"running", agent.obs}
          /\ outbox[i].state = "running" => i = 1
          /\ outbox[i].state # "running" => i = Len(outbox)
    /\ agent.obs \in {"none", "preparing"} => outbox = <<>>
    /\ agent.obs = "cleaning" => \A i \in 1..Len(outbox) : outbox[i].state = "running"

\* A runner that has, or had, the job ran, and the Controller knows or will be told.
RunShown(a) ==
    hist[a].ran \/ (agent.start = a /\ outbox # <<>> /\ outbox[1].state = "running")
Serving(a) == runner[a] \in {"busy", "served"}
RanShape ==
    /\ \A a \in Attempts : Serving(a) => RunShown(a)
    /\ agent.obs \in {"running", "cleaning"} => RunShown(agent.start)
    /\ \A a \in picked : Serving(a)
    /\ Gone /\ st = "reconciliation_required" => ~Serving(cur)

\* A DELETE is on its way only for a runner that is over, or never was.
Removing ==
    /\ pc \in {"present", "removing"} => loc.id = cur
    /\ pc = "removing" => /\ cur \notin picked /\ net = 0
                          /\ agent.start = cur => agent.obs \in Ends

RunInv == /\ AgentShape /\ Issue /\ Fresh /\ Holding /\ EndShape /\ SlotShape
          /\ OutboxShape /\ RanShape /\ Removing
ClaimInv == Typed /\ RowInv /\ CoordInv /\ RunInv

-----------------------------------------------------------------------------
(* What the invariant promises *)

LEMMA TypedTypeOK == ASSUME Typed PROVE TypeOK
  BY DEF Typed, StoreTyped, CoreTyped, AgentTyped, TypeOK, Claims, Rows, Acquires, Auths,
     AuthKinds, Stages, Histories, Positions, Regs, Views

LEMMA CurIs == ASSUME Typed PROVE cur \in 0..MaxAttempts /\ run \in 0..MaxMessages
                                  /\ (Has => cur \in Attempts) /\ (run > 0 => run \in Execs)
  BY DEF Typed, StoreTyped, Claims, cur, run, Has, Attempts, Execs

LEMMA EpochIs ==
  ASSUME Typed PROVE epoch \in Nat /\ epoch \in 0..MaxEpoch /\ msgs \in Nat /\ gen \in Nat
  BY ClaimConstants DEF Typed, CoreTyped

LEMMA RowIs ==
  ASSUME Typed, Has
  PROVE  /\ row \in Rows /\ row.state \in JITStates /\ row.epoch \in 0..MaxEpoch
         /\ row.runner \in 0..MaxAttempts /\ row.start \in BOOLEAN
  BY CurIs DEF Typed, StoreTyped, Rows, row

\* The acquire attempt of a pending claim rests on the claim's source message, or on a
\* later one that re-armed it; an execution is named by a message that was committed.
Sourced ==
    /\ ~claim.assigned => run <= msgs
    /\ st = "pending" => /\ acquire.msg >= run
                         /\ acquire.state = "reconciled_pending" => acquire.msg = run

\* Every fence a restart finds is one its readers accept.
LEMMA ReadsBack == ASSUME ClaimInv, Sourced PROVE RestartReads
<1> USE DEF ClaimInv
<1>1. TypeOK
  BY TypedTypeOK
<1>2. FencesConsistent
  <2> SUFFICES ASSUME Fenced PROVE FencesConsistent
    BY DEF FencesConsistent
  <2>1. Has /\ st \in FenceStates /\ row.state # "reconciled_absent"
    BY DEF Fenced, st, row
  <2>2. Paired /\ RowShape /\ row \in Rows /\ cur # 0
    BY <2>1, RowIs, CurIs DEF RowInv, Has
  <2>3. /\ row.state \in {"agent_accepted", "started", "removal_pending"} =>
             st = "reconciliation_required"
        /\ row.state \in {"start_dispatching", "start_ambiguous"} => st = row.state
        /\ row.state = "intent" => st = "jit_intent"
        /\ row.state = "generation_ambiguous" => st = "jit_generation_ambiguous"
        /\ row.state = "generated" => st = "jit_generated"
    BY <2>1, <2>2 DEF Paired, FenceStates
  <2>4. row.state \in {"intent", "generation_ambiguous"} <=> row.runner = 0
    BY <2>1, <2>2 DEF RowShape, Rows, JITStates, Nameless, Named
  <2>5. row.state # "none" /\ row.epoch \in 1..epoch /\ (row.start => row.runner = cur)
    BY <2>1, <2>2 DEF RowShape, Rows, JITStates, Nameless, Named
  <2> QED
    BY <2>3, <2>4, <2>5 DEF FencesConsistent, st, row
<1>3. IntentReadable /\ PendingShape
  BY DEF RowInv, Requeue
<1>4. ASSUME claim.state = "pending" PROVE PendingReadable \/ RearmedAcquire
  <2>1. acquire.msg \in Nat /\ run \in Nat
    BY ClaimConstants, CurIs DEF Typed, StoreTyped, Acquires
  <2>2. acquire.msg = run \/ acquire.msg > run
    BY <1>4, <2>1 DEF Sourced, st
  <2>3. CASE acquire.msg = run
    BY <1>3, <2>3 DEF PendingReadable, SourceNamed
  <2>4. CASE acquire.msg > run
    <3>1. acquire.state # "reconciled_pending"
      BY <1>4, <2>1, <2>4 DEF Sourced, st
    <3> QED
      BY <1>3, <1>4, <2>4, <3>1 DEF PendingShape, RearmedAcquire
  <2> QED
    BY <2>2, <2>3, <2>4
<1> QED
  BY <1>1, <1>2, <1>3, <1>4 DEF RestartReads, RecoveryReadable

\* A runner that may yet start, or that has the job, keeps what it needs.
LEMMA Spares == ASSUME ClaimInv PROVE RunnersAreSpared
<1> USE DEF ClaimInv, RunInv
<1>1. OneLiveStart
  <2>1. net > 0 => net = cur /\ row.state # "reconciled_absent"
    BY CurIs DEF Fresh, Gone, Has, Typed, AgentTyped
  <2>2. agent.start > 0 /\ agent.obs \in {"preparing", "running", "cleaning"} =>
           agent.start = cur /\ row.state # "reconciled_absent"
    BY DEF Holding, Tombstone, Gone, Has
  <2> QED
    BY <2>1, <2>2 DEF OneLiveStart, row
<1>2. SlotHeldWhileLive
  BY DEF SlotShape, SlotHeldWhileLive, Occupied
<1>3. RemovalSparesPickedUp
  BY DEF Removing, RemovalSparesPickedUp, Ends, CleanEnds
<1> QED
  BY <1>1, <1>2, <1>3 DEF RunnersAreSpared

LEMMA Registers == ASSUME ClaimInv PROVE OneRegistration
  BY DEF ClaimInv, CoordInv, Registration, OneRegistration

LEMMA InvInit == ASSUME Init PROVE ClaimInv
<1> USE ClaimConstants DEF Init
<1>1. Typed
  BY DEF Typed, StoreTyped, CoreTyped, AgentTyped, Claims, Acquires, Rows, Auths, Histories,
     Positions, Regs, Views, Snapshots, Reads, Execs, Attempts, RunStates, Ends, CleanEnds,
     ClaimStates, JITStates, Kinds, NoAttempt, Attempt, NoAuthority, Authority, NoView, NoRead,
     Read, Idle, AuthKinds, Stages
<1>2. ~Has /\ run = 0 /\ st = "none" /\ ~Gone
  BY DEF Has, cur, run, st, Gone
<1>3. RowInv
  BY <1>2 DEF RowInv, ClaimShape, Paired, RowShape, Requeue, IntentReadable, PendingShape,
     Queued, Early, cur, st
<1>4. CoordInv
  BY <1>2 DEF CoordInv, PcShape, AuthorityShape, Registration, NoAuthority, Authority, Live
<1>5. RunInv
  BY <1>2 DEF RunInv, AgentShape, Issue, Fresh, Holding, EndShape, SlotShape, OutboxShape,
     RanShape, Removing, Idle, Attempts, Serving, Execs, Occupied
<1> QED
  BY <1>1, <1>3, <1>4, <1>5 DEF ClaimInv

-----------------------------------------------------------------------------
(* What the steps write *)

LEMMA ToFields ==
  ASSUME Typed, Has, NEW s \in JITStates
  PROVE  /\ To(s) \in Rows /\ To(s).state = s /\ To(s).epoch = row.epoch
         /\ To(s).runner = row.runner /\ To(s).start = row.start
  BY RowIs DEF To, row, Rows

\* MarkGitHubJITRemovalPending's row
Pending(id) == [To("removal_pending") EXCEPT !.runner = IF jit[cur].runner = 0 THEN id ELSE @]
LEMMA PendingFields ==
  ASSUME Typed, Has, NEW id \in 0..MaxAttempts
  PROVE  /\ Pending(id) \in Rows /\ Pending(id).state = "removal_pending"
         /\ Pending(id).epoch = row.epoch /\ Pending(id).start = row.start
         /\ Pending(id).runner = IF row.runner = 0 THEN id ELSE row.runner
<1> DEFINE t == To("removal_pending")
<1>1. /\ t \in Rows /\ t.state = "removal_pending" /\ t.epoch = row.epoch
      /\ t.runner = row.runner /\ t.start = row.start
  BY ToFields DEF JITStates
<1>2. Pending(id) = [t EXCEPT !.runner = IF row.runner = 0 THEN id ELSE t.runner]
  BY DEF Pending, row
<1> HIDE DEF t
<1> QED
  BY <1>1, <1>2 DEF Rows

LEMMA AuthorityFields ==
  ASSUME NEW k \in AuthKinds, NEW s \in Stages, NEW v \in Views, NEW e \in 0..MaxEpoch,
         NEW g \in 0..(MaxFailures + 1)
  PROVE  /\ Authority(k, s, v, e, g) \in Auths /\ ~Authority(k, s, v, e, g).ripe
         /\ Authority(k, s, v, e, g).kind = k /\ Authority(k, s, v, e, g).stage = s
  BY DEF Authority, Auths

LEMMA NoAuthorityFields ==
  NoAuthority \in Auths /\ NoAuthority.stage = "none" /\ ~NoAuthority.ripe
  BY ClaimConstants DEF NoAuthority, Authority, Auths, AuthKinds, Stages, NoView, Views,
     RunStates

LEMMA ReadFields ==
  ASSUME NEW v \in Views, NEW g \in 0..(MaxFailures + 1), NEW id \in 0..MaxAttempts
  PROVE  Read(v, g, id) \in Reads /\ Read(v, g, id).id = id
  BY DEF Read, Reads

LEMMA NoReadFields == NoRead \in Reads
  BY ClaimConstants, ReadFields DEF NoRead, NoView, Views, RunStates

LEMMA ViewIs == ASSUME Typed PROVE View(snap) \in Views
  BY DEF Typed, AgentTyped, Snapshots, View, Views

\* A transition of the claim alone.
LEMMA SetClaimEffect ==
  ASSUME Typed, NEW s \in ClaimStates, SetClaim(s)
  PROVE  claim' \in Claims /\ st' = s /\ cur' = cur /\ run' = run
  BY DEF Typed, StoreTyped, Claims, SetClaim, st, cur, run

\* A transition of the claim and its attempt.
LEMMA MoveEffect ==
  ASSUME Typed, Has, NEW j \in Rows, NEW s \in ClaimStates, Move(j, s)
  PROVE  /\ claim' \in Claims /\ jit' \in [Attempts -> Rows]
         /\ st' = s /\ cur' = cur /\ run' = run /\ Has' /\ row' = j
<1>1. claim' \in Claims /\ st' = s /\ cur' = cur /\ run' = run
  BY SetClaimEffect DEF Move
<1>2. jit' \in [Attempts -> Rows] /\ jit'[cur] = j
  BY CurIs DEF Move, Typed, StoreTyped
<1> QED
  BY <1>1, <1>2 DEF row, Has

\* The execution that takes the claim and the slot.
LEMMA ReserveEffect ==
  ASSUME Typed, NEW e \in Execs, NEW s \in ClaimStates, Reserve(e, s)
  PROVE  /\ claim' \in Claims /\ exec' \in [Execs -> RunStates]
         /\ st' = s /\ cur' = cur /\ run' = e /\ slot' = e /\ prep' = 0
         /\ exec'[e] = "reserved" /\ \A x \in Execs \ {e} : exec'[x] = exec[x]
<1>1. claim' \in Claims /\ st' = s /\ cur' = cur /\ run' = e
  <2> DEFINE b == s = "acquired"
  <2>1. b \in BOOLEAN /\ e \in 0..MaxMessages /\ claim \in Claims
    BY DEF Typed, StoreTyped, Execs
  <2>2. claim' = [claim EXCEPT !.state = s, !.exec = e, !.assigned = b]
    BY DEF Reserve
  <2> HIDE DEF b
  <2> QED
    BY <2>1, <2>2 DEF Claims, st, cur, run
<1>2. /\ exec' \in [Execs -> RunStates]
      /\ exec'[e] = "reserved" /\ \A x \in Execs \ {e} : exec'[x] = exec[x]
  BY DEF Typed, StoreTyped, Reserve, RunStates
<1> QED
  BY <1>1, <1>2 DEF Reserve

LEMMA NextAcquireEffect ==
  ASSUME Typed, NEW s \in {"pending", "reconciled_pending"}, acquire.n + 1 <= MaxMessages,
         NEW m \in 0..MaxMessages, NextAcquire(s, m)
  PROVE  acquire' \in Acquires /\ acquire'.n = acquire.n + 1 /\ acquire'.state = s
<1>1. acquire.n \in 0..MaxMessages /\ epoch \in 0..MaxEpoch
  BY ClaimConstants DEF Typed, StoreTyped, CoreTyped, Acquires
<1>2. acquire.n + 1 \in 0..MaxMessages
  BY <1>1, ClaimConstants
<1> QED
  BY <1>1, <1>2 DEF Acquires, NextAcquire

-----------------------------------------------------------------------------
(* What a step that leaves a part of the state alone leaves of the invariant *)

LEMMA Same ==
  ASSUME UNCHANGED <<claim, jit>>
  PROVE  /\ st' = st /\ cur' = cur /\ run' = run /\ row' = row
         /\ Has' = Has /\ Gone' = Gone /\ Fenced' = Fenced
  BY DEF st, cur, run, row, Has, Gone, Fenced

LEMMA ClaimSame == ASSUME UNCHANGED claim PROVE st' = st /\ cur' = cur /\ run' = run
  BY DEF st, cur, run

\* The rows read back the same when only the epoch or the count of messages advances.
LEMMA RowsKept ==
  ASSUME Typed, Typed', RowInv, UNCHANGED <<claim, jit, acquire, intent, prep>>,
         epoch' >= epoch, msgs' >= msgs
  PROVE  RowInv'
<1>1. ClaimShape' /\ Paired'
  BY Same DEF RowInv, ClaimShape, Paired
<1>2. RowShape'
  <2>1. ASSUME Has, row.epoch \in 1..epoch PROVE row.epoch \in 1..epoch'
    BY <2>1, ClaimConstants DEF Typed, CoreTyped
  <2> QED
    BY <2>1, Same DEF RowInv, RowShape
<1>3. Requeue'
  <2>1. IntentReadable' /\ PendingShape'
    BY Same DEF RowInv, Requeue, IntentReadable, PendingShape, st, row
  <2>2. acquire.n \in Nat /\ Queued \in Nat /\ Queued' = Queued /\ intent \in Nat
    BY DEF Typed, StoreTyped, Acquires, Queued
  <2> QED
    BY <2>1, <2>2 DEF RowInv, Requeue, Typed, CoreTyped
<1> QED
  BY <1>1, <1>2, <1>3 DEF RowInv

LEMMA PcKept ==
  ASSUME PcShape, UNCHANGED <<claim, jit>>,
         UNCHANGED <<pc, epoch>> \/ pc' \in {"idle", "acquiring"}
  PROVE  PcShape'
  BY Same DEF PcShape

LEMMA AuthorityKept ==
  ASSUME AuthorityShape, UNCHANGED auth, st \notin Early => st' \notin Early, Gone' => Gone
  PROVE  AuthorityShape'
  BY DEF AuthorityShape

LEMMA NoStage ==
  ASSUME auth'.stage = "none", ~auth'.ripe PROVE AuthorityShape'
  BY DEF AuthorityShape

LEMMA RegistrationKept ==
  ASSUME Registration, cur' = cur, Gone' => Gone, UNCHANGED runner, auth'.ripe => auth.ripe,
         pc' = pc \/ pc' # "absent"
  PROVE  Registration'
  BY DEF Registration, Live

\* A step of the coordinator that keeps the attempt and what is known of its Start.
Quiet ==
  /\ cur' = cur /\ run' = run /\ (Gone' <=> Gone)
  /\ Has => row'.epoch = row.epoch /\ (row.start => row'.start)
  /\ UNCHANGED <<epoch, evidence, agentVars, slot, runner>>

\* The execution's state is left alone, or follows an observation it can reach.
Adopted ==
  \/ UNCHANGED exec
  \/ \E o \in {"preparing", "running", "cleaning"} :
        Reaches(exec[run], o) /\ run \in Execs /\ exec' = [exec EXCEPT ![run] = o]

\* It has no observation to follow once the Agent has reported the end.
LEMMA AdoptedEnds ==
  ASSUME Typed, RunInv, Quiet, Adopted
  PROVE  EndShape' /\ SlotShape'
<1> USE DEF RunInv, Quiet, evidence, agentVars
<1>1. CASE UNCHANGED exec
  BY <1>1 DEF EndShape, SlotShape, Tombstone, Has
<1>2. ASSUME NEW o \in {"preparing", "running", "cleaning"}, Reaches(exec[run], o),
             run \in Execs, exec' = [exec EXCEPT ![run] = o]
      PROVE  EndShape' /\ SlotShape'
  <2>1. exec'[run] = o /\ \A x \in Execs \ {run} : exec'[x] = exec[x]
    BY <1>2 DEF Typed, StoreTyped
  <2>2. exec[run] \notin Ends
    BY <1>2 DEF Reaches, Ends, CleanEnds
  <2>3. Has /\ ~Gone => hist[cur].end = "none"
    BY <2>2, CurIs DEF EndShape, Typed, AgentTyped, Histories
  <2>4. EndShape'
    BY <2>3 DEF EndShape, Tombstone, Has
  <2>5. SlotShape'
    BY <2>1 DEF SlotShape
  <2> QED
    BY <2>4, <2>5
<1> QED
  BY <1>1, <1>2 DEF Adopted

LEMMA RunKept ==
  ASSUME Typed, RunInv, Quiet, Adopted, Removing',
         Gone /\ st' = "reconciliation_required" => st = "reconciliation_required",
         pc' \in {"generating", "generated", "dispatching"} => cur \notin issued
  PROVE  RunInv'
<1> USE DEF RunInv, Quiet, evidence, agentVars
<1>1. AgentShape' /\ OutboxShape'
  BY DEF AgentShape, OutboxShape
<1>2. Issue'
  BY DEF Issue, Has
<1>3. Fresh'
  <2> SUFFICES ASSUME net > 0 PROVE Fresh'
    BY DEF Fresh
  <2>1. net = cur /\ Has
    BY DEF Fresh, Has
  <2> QED
    BY <2>1 DEF Fresh
<1>4. Holding'
  <2> SUFFICES ASSUME agent.start > 0 PROVE Holding'
    BY DEF Holding
  <2>1. CASE Tombstone
    BY <2>1 DEF Holding, Tombstone
  <2>2. CASE agent.start = cur
    BY <2>1, <2>2 DEF Holding, Tombstone, Has
  <2> QED
    BY <2>1, <2>2 DEF Holding
<1>5. EndShape' /\ SlotShape'
  BY AdoptedEnds
<1>6. RanShape'
  BY DEF RanShape, RunShown, Serving
<1> QED
  BY <1>1, <1>2, <1>3, <1>4, <1>5, <1>6

LEMMA NotRemoving ==
  ASSUME pc' \notin {"present", "removing"} PROVE Removing'
  BY DEF Removing

LEMMA StoreTypedKept ==
  ASSUME StoreTyped, UNCHANGED store PROVE StoreTyped'
  BY DEF StoreTyped, store

-----------------------------------------------------------------------------
(* Queue messages *)

\* Before the first attempt, and once the last one is gone, no Start is about.
LEMMA Vacant ==
  ASSUME Typed, RunInv, ~Has \/ Gone
  PROVE  net = 0 /\ (agent.start > 0 => Tombstone)
<1>1. net = 0
  BY DEF RunInv, Fresh, Typed, AgentTyped, Has
<1>2. agent.start > 0 => Tombstone
  BY DEF RunInv, Holding, Has
<1> QED
  BY <1>1, <1>2

\* A free slot is not the Agent's.
LEMMA SlotFree ==
  ASSUME Typed, RunInv, slot = 0, agent.start > 0 => Tombstone
  PROVE  agent.obs = "none" /\ agent.start = 0
<1>1. agent.obs \notin Occupied
  BY DEF RunInv, SlotShape, AgentShape, Occupied
<1>2. agent.start \in Nat /\ ~(agent.start > 0)
  BY <1>1 DEF Typed, AgentTyped, Views, Tombstone, Occupied
<1> QED
  BY <1>1, <1>2 DEF RunInv, AgentShape, Occupied

\* A free slot is taken by an execution of a claim without a live attempt.
LEMMA ReserveRuns ==
  ASSUME Typed, RunInv, slot = 0, net = 0, agent.start > 0 => Tombstone,
         NEW e \in Execs, NEW s \in {"pending", "acquired"}, Reserve(e, s),
         Has' => Gone', UNCHANGED <<epoch, evidence, agentVars, runner>>, pc' = "idle"
  PROVE  RunInv'
<1>1. /\ st' = s /\ cur' = cur /\ run' = e /\ slot' = e
      /\ exec'[e] = "reserved" /\ \A x \in Execs \ {e} : exec'[x] = exec[x]
  BY ReserveEffect DEF ClaimStates
<1>2. agent.obs = "none" /\ agent.start = 0
  BY SlotFree
<1> USE DEF RunInv, evidence, agentVars
<1>3. AgentShape' /\ OutboxShape'
  BY DEF AgentShape, OutboxShape
<1>4. Issue'
  BY <1>1 DEF Issue
<1>5. Fresh' /\ Holding'
  BY <1>2 DEF Fresh, Holding
<1>6. EndShape'
  BY <1>1, <1>2 DEF EndShape, Tombstone, Attempts
<1>7. SlotShape'
  BY <1>1, <1>2 DEF SlotShape, Occupied, Execs
<1>8. RanShape' /\ Removing'
  BY <1>1, <1>2 DEF RanShape, RunShown, Serving, Removing
<1> QED
  BY <1>3, <1>4, <1>5, <1>6, <1>7, <1>8

\* So the rows and the coordinator.
LEMMA ReserveRows ==
  ASSUME Typed, NEW e \in Execs, NEW s \in {"pending", "acquired"}, Reserve(e, s),
         Has' => Gone', RowShape', Requeue'
  PROVE  RowInv'
<1>1. st' = s /\ cur' = cur /\ run' = e
  BY ReserveEffect DEF ClaimStates
<1> QED
  BY <1>1 DEF RowInv, ClaimShape, Paired, Early, Execs

\* The current attempt's row is not touched.
LEMMA RowShapeKept ==
  ASSUME RowInv, cur' = cur, UNCHANGED <<jit, epoch>> PROVE RowShape' /\ Gone' = Gone /\ Has' = Has
  BY DEF RowInv, RowShape, Gone, Has, row

LEMMA MessageTyped ==
  ASSUME Typed, msgs < MaxMessages, msgs' = msgs + 1,
         UNCHANGED <<epoch, evidence, gen, pc, loc, agentVars, runner>>
  PROVE  CoreTyped' /\ AgentTyped' /\ msgs + 1 \in Execs
<1>1. msgs + 1 \in Execs /\ msgs' \in 0..MaxMessages
  BY ClaimConstants DEF Typed, CoreTyped, Execs
<1>2. CoreTyped'
  BY <1>1 DEF Typed, CoreTyped, evidence
<1>3. AgentTyped'
  BY DEF Typed, AgentTyped, evidence, agentVars
<1> QED
  BY <1>1, <1>2, <1>3

\* The counts of a commit that makes an acquire attempt, or names a replacement.
LEMMA AcquireCounted ==
  ASSUME Typed, Requeue, intent = 0, msgs < MaxMessages
  PROVE  acquire.n \in Nat /\ acquire.n + 1 <= MaxMessages /\ acquire.n + 1 <= msgs + 1
<1>1. acquire.n \in Nat /\ msgs \in Nat /\ MaxMessages \in Nat
  BY ClaimConstants DEF Typed, StoreTyped, CoreTyped, Acquires
<1>2. acquire.n <= msgs
  BY <1>1 DEF Requeue, Queued
<1> QED
  BY <1>1, <1>2

LEMMA NewAcquire ==
  ASSUME Typed, Requeue, intent = 0, msgs < MaxMessages, msgs' = msgs + 1, UNCHANGED intent,
         NextAcquire("pending", msgs + 1), st' = "pending"
  PROVE  acquire' \in Acquires /\ Requeue'
<1>1. acquire.n \in Nat /\ acquire.n + 1 <= MaxMessages /\ acquire.n + 1 <= msgs + 1
  BY AcquireCounted
<1>2. acquire' \in Acquires /\ acquire'.n = acquire.n + 1 /\ acquire'.state = "pending"
  <2>1. msgs + 1 \in 0..MaxMessages
    BY ClaimConstants DEF Typed, CoreTyped
  <2> QED
    BY <1>1, <2>1, NextAcquireEffect
<1>3. IntentReadable' /\ PendingShape' /\ Queued' = 0
  BY <1>2 DEF IntentReadable, PendingShape, Queued, st
<1> QED
  BY <1>1, <1>2, <1>3, ClaimConstants DEF Requeue, Typed, CoreTyped

\* ClaimOffer and RearmLostJIT: a fresh execution takes the free slot.
LEMMA FreshExecution ==
  ASSUME ClaimInv, msgs < MaxMessages, msgs' = msgs + 1, pc = "idle", slot = 0, intent = 0,
         ~Has \/ Gone, st \in Early \/ Gone,
         Reserve(msgs + 1, "pending"), NextAcquire("pending", msgs + 1),
         UNCHANGED <<intent, node, jit, auth>>,
         UNCHANGED <<epoch, evidence, gen, pc, loc, agentVars, runner>>
  PROVE  ClaimInv'
<1> USE DEF ClaimInv
<1>1. CoreTyped' /\ AgentTyped' /\ msgs + 1 \in Execs
  BY MessageTyped
<1>2. /\ claim' \in Claims /\ exec' \in [Execs -> RunStates] /\ st' = "pending" /\ cur' = cur
      /\ slot' = msgs + 1 /\ prep' = 0
  BY <1>1, ReserveEffect DEF ClaimStates
<1>3. acquire' \in Acquires /\ Requeue'
  BY <1>2, NewAcquire DEF RowInv
<1>4. Typed'
  BY <1>1, <1>2, <1>3, ClaimConstants DEF Typed, StoreTyped, Execs
<1>5. RowShape' /\ Gone' = Gone /\ Has' = Has
  BY <1>2, RowShapeKept
<1>6. RowInv'
  BY <1>1, <1>3, <1>5, ReserveRows
<1>7. auth.stage = "none" /\ ~auth.ripe
  BY DEF CoordInv, AuthorityShape
<1>8. CoordInv'
  <2>1. PcShape'
    BY DEF PcShape
  <2>2. AuthorityShape'
    BY <1>7, NoStage
  <2>3. Registration'
    BY <1>2, <1>5, RegistrationKept DEF CoordInv
  <2> QED
    BY <2>1, <2>2, <2>3 DEF CoordInv
<1>9. RunInv'
  <2>1. net = 0 /\ (agent.start > 0 => Tombstone)
    BY Vacant
  <2> QED
    BY <1>1, <1>5, <2>1, ReserveRuns
<1> QED
  BY <1>4, <1>6, <1>8, <1>9

\* RequeueReadiness answers ready only for a runner that ended without a pickup.
LEMMA ReadyMeans ==
  ASSUME RequeueReadiness = "ready"
  PROVE  Has /\ row.state = "started" /\ st \in {"running", "reconciliation_required"}
  BY DEF RequeueReadiness, st, row

\* createGitHubUnpickedRequeueIntent
LEMMA IntentStep ==
  ASSUME ClaimInv, msgs < MaxMessages, msgs' = msgs + 1, pc = "idle",
         CreateRequeueIntent(msgs + 1),
         UNCHANGED <<epoch, evidence, gen, pc, loc, agentVars, runner, node, jit, auth>>
  PROVE  ClaimInv'
<1> USE DEF ClaimInv
<1>1. CoreTyped' /\ AgentTyped' /\ msgs + 1 \in Execs
  BY MessageTyped
<1>2. /\ claim' \in Claims /\ st' = "reconciliation_required" /\ cur' = cur /\ run' = run
      /\ intent = 0 /\ intent' = msgs + 1 /\ UNCHANGED <<exec, slot, acquire, prep>>
  BY SetClaimEffect DEF CreateRequeueIntent, ClaimStates
<1>3. Has /\ row.state = "started" /\ st \in {"running", "reconciliation_required"}
  BY ReadyMeans DEF CreateRequeueIntent
<1>4. Typed'
  BY <1>1, <1>2 DEF Typed, StoreTyped, Execs
<1>5. row' = row /\ Has' /\ ~Gone /\ ~Gone'
  BY <1>2, <1>3 DEF row, Has, Gone
<1>6. RowInv'
  <2>1. ClaimShape' /\ Paired'
    BY <1>2, <1>3, <1>5 DEF RowInv, ClaimShape, Paired, Early
  <2>2. RowShape'
    BY <1>2, <1>3, <1>5 DEF RowInv, RowShape
  <2>3. IntentReadable' /\ PendingShape'
    BY <1>2, <1>3, <1>5 DEF IntentReadable, PendingShape, st, row
  <2>4. acquire.n \in Nat /\ acquire.n + 1 <= msgs + 1
    BY <1>2, AcquireCounted DEF RowInv
  <2>5. Requeue'
    BY <1>2, <2>3, <2>4, ClaimConstants DEF RowInv, Requeue, Queued, Typed, CoreTyped
  <2> QED
    BY <2>1, <2>2, <2>5 DEF RowInv
<1>7. CoordInv'
  <2>1. PcShape'
    BY DEF PcShape
  <2>2. AuthorityShape'
    BY <1>2, <1>5, AuthorityKept DEF CoordInv, Early
  <2>3. Registration'
    BY <1>2, <1>5, RegistrationKept DEF CoordInv
  <2> QED
    BY <2>1, <2>2, <2>3 DEF CoordInv
<1>8. RunInv'
  <2>1. Quiet
    BY <1>2, <1>5 DEF Quiet, evidence, agentVars
  <2> QED
    BY <1>2, <1>5, <2>1, RunKept, NotRemoving DEF Adopted
<1> QED
  BY <1>4, <1>6, <1>7, <1>8

\* rearmGitHubAcquireFromMessage
LEMMA RearmStep ==
  ASSUME ClaimInv, msgs < MaxMessages, msgs' = msgs + 1, pc = "idle", RearmAcquire(msgs + 1),
         UNCHANGED <<epoch, evidence, gen, pc, loc, agentVars, runner, node, jit, auth>>
  PROVE  ClaimInv'
<1> USE DEF ClaimInv
<1>1. CoreTyped' /\ AgentTyped'
  BY MessageTyped
<1>2. /\ claim' \in Claims /\ st' = "pending" /\ cur' = cur /\ run' = run
      /\ st = "acquire_ambiguous" /\ NextAcquire("pending", msgs + 1)
      /\ UNCHANGED <<exec, slot, intent, prep>>
  BY SetClaimEffect DEF RearmAcquire, ClaimStates, st
<1>3. intent = 0
  BY <1>2 DEF RowInv, Requeue, IntentReadable, Typed, StoreTyped, st
<1>4. acquire' \in Acquires /\ Requeue'
  BY <1>2, <1>3, NewAcquire DEF RowInv
<1>5. Typed'
  BY <1>1, <1>2, <1>4 DEF Typed, StoreTyped
<1>6. row' = row /\ Has' = Has /\ Gone' = Gone
  BY <1>2 DEF row, Has, Gone
<1>7. RowInv'
  <2>1. ClaimShape' /\ Paired' /\ RowShape'
    BY <1>2, <1>6 DEF RowInv, ClaimShape, Paired, RowShape, Early
  <2> QED
    BY <1>4, <2>1 DEF RowInv
<1>8. CoordInv'
  <2>1. PcShape'
    BY DEF PcShape
  <2>2. AuthorityShape'
    BY <1>2, <1>6 DEF CoordInv, AuthorityShape, Early
  <2>3. Registration'
    BY <1>2, <1>6, RegistrationKept DEF CoordInv
  <2> QED
    BY <2>1, <2>2, <2>3 DEF CoordInv
<1>9. RunInv'
  <2>1. Quiet
    BY <1>2, <1>6 DEF Quiet, evidence, agentVars
  <2> QED
    BY <1>2, <2>1, RunKept, NotRemoving DEF Adopted
<1> QED
  BY <1>5, <1>7, <1>8, <1>9

\* A step that leaves the claim, its attempt and everything of the runtime alone.
LEMMA StillStep ==
  ASSUME ClaimInv, Typed', UNCHANGED <<claim, jit, acquire, intent, prep, auth>>,
         UNCHANGED <<epoch, evidence, agentVars, exec, slot, runner>>, msgs' >= msgs,
         UNCHANGED <<pc, loc>> \/ pc' = "idle"
  PROVE  ClaimInv'
<1> USE DEF ClaimInv
<1>1. /\ st' = st /\ cur' = cur /\ run' = run /\ row' = row
      /\ Has' = Has /\ Gone' = Gone /\ Fenced' = Fenced
  BY Same
<1>2. RowInv'
  BY RowsKept, ClaimConstants DEF Typed, CoreTyped
<1>3. CoordInv'
  <2>1. PcShape'
    BY PcKept DEF CoordInv
  <2>2. AuthorityShape'
    BY <1>1, AuthorityKept DEF CoordInv
  <2>3. Registration'
    BY <1>1, RegistrationKept DEF CoordInv
  <2> QED
    BY <2>1, <2>2, <2>3 DEF CoordInv
<1>4. RunInv'
  <2>1. Quiet
    BY <1>1 DEF Quiet
  <2>2. Removing'
    BY <1>1, NotRemoving DEF RunInv, Removing, evidence, agentVars
  <2>3. pc' \in {"generating", "generated", "dispatching"} => cur \notin issued
    BY DEF RunInv, Issue
  <2> QED
    BY <1>1, <2>1, <2>2, <2>3, RunKept DEF Adopted
<1> QED
  BY <1>2, <1>3, <1>4

\* CommitMessage
LEMMA MessageStep == ASSUME ClaimInv, CommitMessage PROVE ClaimInv'
<1> USE DEF ClaimInv
<1>1. /\ msgs < MaxMessages /\ msgs' = msgs + 1 /\ pc = "idle"
      /\ UNCHANGED <<epoch, evidence, gen, pc, loc, agentVars, runner, node, jit, auth>>
  BY DEF CommitMessage
<1>2. CASE ClaimOffer(msgs + 1)
  <2>1. /\ st = "none" /\ slot = 0 /\ intent = 0 /\ Reserve(msgs + 1, "pending")
        /\ NextAcquire("pending", msgs + 1) /\ UNCHANGED intent
    BY <1>2 DEF ClaimOffer, Admission, SlotAvailable, st
  <2>2. ~Has
    BY <2>1 DEF RowInv, ClaimShape, Has
  <2> QED
    BY <1>1, <2>1, <2>2, FreshExecution DEF Early
<1>3. CASE RearmLostJIT(msgs + 1)
  <2>1. /\ Gone /\ slot = 0 /\ intent = 0 /\ Reserve(msgs + 1, "pending")
        /\ NextAcquire("pending", msgs + 1) /\ UNCHANGED intent
    BY <1>3 DEF RearmLostJIT, LostAwaiting, Admission, SlotAvailable, Gone, row
  <2> QED
    BY <1>1, <2>1, FreshExecution
<1>4. CASE CreateRequeueIntent(msgs + 1)
  BY <1>1, <1>4, IntentStep
<1>5. CASE RearmAcquire(msgs + 1)
  BY <1>1, <1>5, RearmStep
<1>6. CASE KnownOffer
  <2>1. UNCHANGED <<claim, exec, slot, acquire, intent, prep>>
    BY <1>6 DEF KnownOffer
  <2>2. Typed' /\ msgs' >= msgs
    BY <1>1, <2>1, MessageTyped DEF Typed, StoreTyped, CoreTyped
  <2> QED
    BY <1>1, <2>1, <2>2, StillStep
<1> QED
  BY <1>2, <1>3, <1>4, <1>5, <1>6 DEF CommitMessage

\* A JobStarted or JobCompleted message
LEMMA PickupStep == ASSUME ClaimInv, CommitPickup PROVE ClaimInv'
<1> USE DEF ClaimInv
<1>1. PICK a \in Attempts : Serving(a) /\ picked' = picked \cup {a}
  BY DEF CommitPickup, Serving
<1>2. /\ pc = "idle" /\ pc' = pc /\ UNCHANGED <<epoch, msgs, issued, hist, snap, gen, loc, runner>>
      /\ UNCHANGED <<claim, exec, slot, node, acquire, jit, auth, intent, prep>>
      /\ UNCHANGED <<agent, outbox, net>>
  BY DEF CommitPickup, store, agentVars
<1>3. /\ st' = st /\ cur' = cur /\ run' = run /\ row' = row
      /\ Has' = Has /\ Gone' = Gone /\ Fenced' = Fenced
  BY <1>2, Same
<1>4. Typed'
  BY <1>1, <1>2 DEF Typed, StoreTyped, CoreTyped, AgentTyped
<1>5. RowInv'
  BY <1>2, <1>4, RowsKept, ClaimConstants DEF Typed, CoreTyped
<1>6. CoordInv'
  BY <1>2, <1>3, PcKept, AuthorityKept, RegistrationKept DEF CoordInv
<1>7. RunInv'
  <2> USE DEF RunInv
  <2>1. AgentShape' /\ OutboxShape' /\ Issue' /\ SlotShape'
    BY <1>2, <1>3 DEF AgentShape, OutboxShape, Issue, SlotShape
  <2>2. Fresh' /\ Holding' /\ EndShape'
    BY <1>2, <1>3 DEF Fresh, Holding, EndShape, Tombstone
  <2>3. RanShape'
    BY <1>1, <1>2, <1>3 DEF RanShape, RunShown, Serving
  <2> QED
    BY <1>2, <2>1, <2>2, <2>3, NotRemoving
<1> QED
  BY <1>4, <1>5, <1>6, <1>7

\* ReconcileGitHubAssignedDemand
LEMMA DemandStep == ASSUME ClaimInv, ReconcileAssignedDemand PROVE ClaimInv'
<1> USE DEF ClaimInv
<1>1. /\ st = "none" /\ slot = 0 /\ intent = 0 /\ Reserve(1, "acquired") /\ pc = "idle"
      /\ UNCHANGED <<epoch, msgs, evidence, gen, pc, loc, agentVars, runner>>
      /\ UNCHANGED <<node, acquire, jit, auth, intent>>
  BY DEF ReconcileAssignedDemand, Admission, SlotAvailable, st
<1>2. 1 \in Execs /\ ~Has
  BY <1>1, ClaimConstants DEF Execs, RowInv, ClaimShape, Has
<1>3. /\ claim' \in Claims /\ exec' \in [Execs -> RunStates] /\ st' = "acquired" /\ cur' = cur
      /\ slot' = 1 /\ prep' = 0
  BY <1>1, <1>2, ReserveEffect DEF ClaimStates
<1>4. Typed'
  BY <1>1, <1>2, <1>3, ClaimConstants
     DEF Typed, StoreTyped, CoreTyped, AgentTyped, Execs, evidence, agentVars
<1>5. RowShape' /\ Gone' = Gone /\ Has' = Has
  BY <1>1, <1>3, RowShapeKept
<1>6. RowInv'
  <2>1. Requeue'
    BY <1>1, <1>3 DEF RowInv, Requeue, IntentReadable, PendingShape, Queued, st
  <2> QED
    BY <1>1, <1>2, <1>5, <2>1, ReserveRows
<1>7. CoordInv'
  <2>1. auth.stage = "none" /\ ~auth.ripe
    BY <1>1 DEF CoordInv, AuthorityShape, Early
  <2>2. PcShape' /\ AuthorityShape'
    BY <1>1, <2>1, NoStage DEF PcShape
  <2>3. Registration'
    BY <1>1, <1>3, <1>5, RegistrationKept DEF CoordInv
  <2> QED
    BY <2>2, <2>3 DEF CoordInv
<1>8. RunInv'
  <2>1. net = 0 /\ (agent.start > 0 => Tombstone)
    BY <1>2, Vacant
  <2> QED
    BY <1>1, <1>2, <1>5, <2>1, ReserveRuns
<1> QED
  BY <1>4, <1>6, <1>7, <1>8

-----------------------------------------------------------------------------
(* The lifecycle of the claim *)

\* The claim moves before its next attempt.
LEMMA EarlyStep ==
  ASSUME ClaimInv, Typed', st \in Early \ {"none"}, st' \in Early \ {"none"},
         cur' = cur, run' = run, UNCHANGED <<jit, auth, intent>>, Requeue',
         pc' \in {"idle", "acquiring", "preparing"}, pc' = "preparing" => st' = "acquired",
         UNCHANGED <<epoch, evidence, agentVars, exec, slot, runner>>
  PROVE  ClaimInv'
<1> USE DEF ClaimInv
<1>1. row' = row /\ Has' = Has /\ Gone' = Gone
  BY DEF row, Has, Gone
<1>2. RowInv'
  BY <1>1 DEF RowInv, ClaimShape, Paired, RowShape, Early
<1>3. CoordInv'
  <2>1. PcShape' /\ AuthorityShape'
    BY <1>1 DEF CoordInv, PcShape, AuthorityShape
  <2>2. Registration'
    BY <1>1, RegistrationKept DEF CoordInv
  <2> QED
    BY <2>1, <2>2 DEF CoordInv
<1>4. RunInv'
  <2>1. Quiet
    BY <1>1 DEF Quiet
  <2> QED
    BY <2>1, RunKept, NotRemoving DEF Early, Adopted
<1> QED
  BY <1>2, <1>3, <1>4

\* BeginGitHubAcquire
LEMMA AcquireStep == ASSUME ClaimInv, BeginAcquire PROVE ClaimInv'
<1> USE DEF ClaimInv
<1>1. /\ st = "pending" /\ pc' = "acquiring" /\ SetClaim("acquire_ambiguous")
      /\ acquire' = [acquire EXCEPT !.state = "dispatching", !.epoch = epoch]
      /\ UNCHANGED <<epoch, msgs, evidence, gen, loc, agentVars, runner>>
      /\ UNCHANGED <<exec, slot, node, jit, auth, intent, prep>>
      /\ acquire.state \in {"pending", "reconciled_pending"}
  BY DEF BeginAcquire, AcquireReady, st
<1>2. claim' \in Claims /\ st' = "acquire_ambiguous" /\ cur' = cur /\ run' = run
  BY <1>1, SetClaimEffect DEF ClaimStates
<1>3. acquire' \in Acquires /\ acquire'.n = acquire.n
  <2>1. acquire \in Acquires /\ epoch \in 0..MaxEpoch
    BY EpochIs DEF Typed, StoreTyped
  <2> QED
    BY <1>1, <2>1 DEF Acquires
<1>4. Typed'
  BY <1>1, <1>2, <1>3
     DEF Typed, StoreTyped, CoreTyped, AgentTyped, Positions, evidence, agentVars
<1>5. Requeue'
  <2>1. intent = 0 /\ acquire.n >= 1
    BY <1>1 DEF RowInv, Requeue, IntentReadable, Typed, StoreTyped, st
  <2> QED
    BY <1>1, <1>2, <1>3, <2>1 DEF RowInv, Requeue, IntentReadable, PendingShape, Queued, st
<1> QED
  BY <1>1, <1>2, <1>4, <1>5, EarlyStep DEF Early

\* MarkGitHubAcquired
LEMMA AcquiredStep == ASSUME ClaimInv, AcquireAnswered PROVE ClaimInv'
<1> USE DEF ClaimInv
<1>1. /\ pc' = "idle" /\ UNCHANGED <<epoch, msgs, evidence, gen, loc, agentVars, runner>>
      /\ UNCHANGED <<exec, slot, node, jit, auth, intent, prep>>
  BY DEF AcquireAnswered
<1>2. CASE UNCHANGED <<claim, acquire>>
  <2>1. Typed' /\ msgs' >= msgs
    BY <1>1, <1>2, ClaimConstants
       DEF Typed, StoreTyped, CoreTyped, AgentTyped, Positions, evidence, agentVars
  <2> QED
    BY <1>1, <1>2, <2>1, StillStep
<1>3. CASE /\ st = "acquire_ambiguous" /\ SetClaim("acquired") /\ acquire.state = "dispatching"
           /\ acquire' = [acquire EXCEPT !.state = "acquired"]
  <2>1. claim' \in Claims /\ st' = "acquired" /\ cur' = cur /\ run' = run
    BY <1>3, SetClaimEffect DEF ClaimStates
  <2>2. acquire' \in Acquires /\ acquire'.n = acquire.n
    BY <1>3 DEF Typed, StoreTyped, Acquires
  <2>3. Typed'
    BY <1>1, <2>1, <2>2
       DEF Typed, StoreTyped, CoreTyped, AgentTyped, Positions, evidence, agentVars
  <2>4. Requeue'
    <3>1. intent = 0 /\ acquire.n >= 1
      BY <1>3 DEF RowInv, Requeue, IntentReadable, Typed, StoreTyped, st
    <3> QED
      BY <1>1, <2>1, <2>2, <3>1
         DEF RowInv, Requeue, IntentReadable, PendingShape, Queued, st
  <2> QED
    BY <1>1, <1>3, <2>1, <2>3, <2>4, EarlyStep DEF Early
<1> QED
  BY <1>2, <1>3 DEF AcquireAnswered, st

\* A claim without a pending acquire has nothing to requeue before its next attempt.
LEMMA RequeueKept ==
  ASSUME Requeue, UNCHANGED <<acquire, intent, msgs>>, intent = 0, st' # "pending"
  PROVE  Requeue'
  BY DEF Requeue, IntentReadable, PendingShape, Queued, st

\* SendPrepare
LEMMA SendPrepareStep == ASSUME ClaimInv, SendPrepare PROVE ClaimInv'
<1> USE DEF ClaimInv
<1>1. /\ st = "acquired" /\ prep' = epoch /\ pc' = "preparing"
      /\ UNCHANGED <<epoch, msgs, evidence, gen, loc, agentVars, runner>>
      /\ UNCHANGED <<claim, exec, slot, node, acquire, jit, auth, intent>>
  BY DEF SendPrepare, st
<1>2. st' = st /\ cur' = cur /\ run' = run
  BY <1>1, ClaimSame
<1>3. Typed'
  BY <1>1 DEF Typed, StoreTyped, CoreTyped, AgentTyped, Positions, evidence, agentVars
<1>4. Requeue'
  <2>1. intent = 0
    BY <1>1 DEF RowInv, Requeue, IntentReadable, Typed, StoreTyped, st
  <2> QED
    BY <1>1, <1>2, <2>1, RequeueKept DEF RowInv
<1> QED
  BY <1>1, <1>2, <1>3, <1>4, EarlyStep DEF Early

\* MarkGitHubPreparing and MarkGitHubPrepareFailed
LEMMA PrepareAnsweredStep == ASSUME ClaimInv, PrepareAnswered PROVE ClaimInv'
<1> USE DEF ClaimInv
<1>1. /\ pc = "preparing" /\ pc' = "idle"
      /\ UNCHANGED <<epoch, msgs, evidence, gen, loc, agentVars, runner>>
      /\ UNCHANGED <<exec, slot, node, acquire, jit, auth, intent, prep>>
  BY DEF PrepareAnswered
<1>2. st = "acquired" /\ intent = 0
  BY <1>1 DEF CoordInv, PcShape, RowInv, Requeue, IntentReadable, Typed, StoreTyped, st
<1>3. /\ claim' \in Claims /\ cur' = cur /\ run' = run
      /\ st' \in {"acquired", "preparing", "prepare_failed"}
  <2>1. CASE UNCHANGED claim
    BY <1>2, <2>1, ClaimSame DEF Typed, StoreTyped
  <2>2. ASSUME NEW s \in {"preparing", "prepare_failed"}, SetClaim(s)
        PROVE  claim' \in Claims /\ cur' = cur /\ run' = run /\ st' = s
    BY <2>2, SetClaimEffect DEF ClaimStates
  <2> QED
    BY <2>1, <2>2 DEF PrepareAnswered
<1>4. Typed'
  BY <1>1, <1>3
     DEF Typed, StoreTyped, CoreTyped, AgentTyped, Positions, evidence, agentVars
<1>5. Requeue'
  BY <1>1, <1>2, <1>3, RequeueKept DEF RowInv
<1> QED
  BY <1>1, <1>2, <1>3, <1>4, <1>5, EarlyStep DEF Early

\* The Agent carries a Prepare out, in PrepareDone and in ReplayPrepare.
LEMMA AgentPreparedStep ==
  ASSUME ClaimInv, AgentPrepared, run \in Execs,
         UNCHANGED <<epoch, msgs, evidence, gen, pc, loc, outbox, net, runner>>,
         UNCHANGED <<claim, node, acquire, jit, auth, intent, prep>>
  PROVE  ClaimInv'
<1> USE DEF ClaimInv
<1>0. /\ st' = st /\ cur' = cur /\ run' = run /\ row' = row
      /\ Has' = Has /\ Gone' = Gone /\ Fenced' = Fenced
  BY Same
<1>1. PICK s \in {"preparing", "failed"} :
         /\ exec' = [exec EXCEPT ![run] = s]
         /\ \/ /\ s = "preparing" /\ agent.obs \in {"none", "preparing"} /\ UNCHANGED slot
               /\ agent' = [Idle EXCEPT !.exec = run, !.obs = "preparing"]
            \/ s = "failed" /\ agent.exec = 0 /\ UNCHANGED agent /\ slot' = 0
  BY DEF AgentPrepared
<1>2. exec[run] = "reserved" /\ slot = run /\ run > 0
  BY DEF AgentPrepared, RunInv, SlotShape, Execs
<1>3. /\ exec' \in [Execs -> RunStates] /\ exec'[run] = s
      /\ \A x \in Execs \ {run} : exec'[x] = exec[x]
  BY <1>1 DEF Typed, StoreTyped, RunStates, Ends, CleanEnds
<1>4. \/ /\ s = "preparing" /\ slot' = slot /\ agent' \in Views /\ agent'.exec = run
         /\ agent'.start = 0 /\ agent'.obs = "preparing"
      \/ /\ s = "failed" /\ agent' = agent /\ agent.obs = "none" /\ agent.start = 0 /\ slot' = 0
  <2>1. Idle \in Views /\ Idle.start = 0 /\ run \in 0..MaxMessages
    BY CurIs, ClaimConstants DEF Idle, Views, RunStates
  <2>2. [Idle EXCEPT !.exec = run, !.obs = "preparing"] \in
           {v \in Views : v.exec = run /\ v.start = 0 /\ v.obs = "preparing"}
    BY <2>1 DEF Views, RunStates
  <2>3. agent.exec = 0 => agent.obs = "none" /\ agent.start = 0
    BY DEF RunInv, AgentShape
  <2> QED
    BY <1>1, <2>1, <2>2, <2>3
<1>5. Typed'
  BY <1>3, <1>4, ClaimConstants DEF Typed, StoreTyped, CoreTyped, AgentTyped, evidence
<1>6. RowInv'
  BY <1>5, EpochIs, RowsKept
<1>7. CoordInv'
  BY <1>0, PcKept, AuthorityKept, RegistrationKept DEF CoordInv
<1>8. RunInv'
  <2> USE DEF RunInv
  <2>0. outbox = <<>> /\ agent'.start = 0 /\ agent'.obs \in {"none", "preparing"}
    BY <1>1, <1>4 DEF OutboxShape
  <2>1. AgentShape' /\ OutboxShape'
    BY <1>2, <1>4, <2>0 DEF AgentShape, OutboxShape
  <2>2. Issue' /\ Fresh' /\ Holding'
    BY <1>0, <2>0 DEF Issue, Fresh, Holding, evidence
  <2>3. EndShape'
    <3>1. Has /\ ~Gone => hist[cur].end = "none"
      BY <1>2, CurIs DEF EndShape, Typed, AgentTyped, Histories, Ends, CleanEnds
    <3> QED
      BY <1>0, <2>0, <3>1 DEF EndShape, evidence, Attempts
  <2>4. SlotShape'
    BY <1>0, <1>2, <1>3, <1>4 DEF SlotShape, Occupied
  <2>5. RanShape'
    BY <1>0, <2>0 DEF RanShape, RunShown, Serving, evidence
  <2>6. Removing'
    BY <1>0, <1>2, <2>0, CurIs DEF Removing, Has, evidence, CoordInv, PcShape, Fenced
  <2> QED
    BY <2>1, <2>2, <2>3, <2>4, <2>5, <2>6
<1> QED
  BY <1>5, <1>6, <1>7, <1>8

LEMMA PrepareDoneStep == ASSUME ClaimInv, PrepareDone PROVE ClaimInv'
<1>1. run \in Execs
  BY CurIs DEF PrepareDone, ClaimInv, CoordInv, PcShape, RowInv, ClaimShape
<1> QED
  BY <1>1, AgentPreparedStep DEF PrepareDone

\* replayPrepareAction
LEMMA ReplayPrepareStep == ASSUME ClaimInv, ReplayPrepare PROVE ClaimInv'
<1>1. run \in Execs
  BY CurIs DEF ReplayPrepare, ClaimInv, RowInv, ClaimShape
<1> QED
  BY <1>1, AgentPreparedStep DEF ReplayPrepare

\* BeginGitHubJITAttempt: the attempt before is gone, with its registration.
LEMMA JITAttemptStep == ASSUME ClaimInv, BeginJITAttempt PROVE ClaimInv'
<1> USE DEF ClaimInv
<1> DEFINE new == cur + 1
<1>1. /\ st = "preparing" /\ cur < MaxAttempts /\ pc' = "generating"
      /\ jit' = [jit EXCEPT ![new] = Attempt("intent", epoch, 0, FALSE)]
      /\ claim' = [claim EXCEPT !.state = "jit_intent", !.attempt = new]
      /\ runner' = [runner EXCEPT ![new] = "requested"]
      /\ UNCHANGED <<epoch, msgs, evidence, gen, loc, agentVars>>
      /\ UNCHANGED <<exec, slot, node, acquire, auth, intent, prep>>
  BY DEF BeginJITAttempt, st
<1>2. new \in Attempts /\ new > 0 /\ cur \in Nat
  BY <1>1, CurIs, ClaimConstants DEF Attempts
<1> HIDE DEF new
<1>3. claim' \in Claims /\ st' = "jit_intent" /\ cur' = new /\ run' = run
  <2>1. claim \in Claims /\ new \in 0..MaxAttempts
    BY <1>2 DEF Typed, StoreTyped, Attempts
  <2>2. claim' = [claim EXCEPT !.state = "jit_intent", !.attempt = new]
    BY <1>1
  <2> QED
    BY <2>1, <2>2 DEF Claims, ClaimStates, st, cur, run
<1>4. /\ jit' \in [Attempts -> Rows] /\ row'.state = "intent" /\ row'.epoch = epoch
      /\ row'.runner = 0 /\ row'.start = FALSE /\ Has' /\ ~Gone'
  <2> DEFINE j == Attempt("intent", epoch, 0, FALSE)
  <2>1. j \in Rows /\ j.state = "intent" /\ j.epoch = epoch /\ j.runner = 0 /\ j.start = FALSE
    <3>1. "intent" \in JITStates /\ epoch \in 0..MaxEpoch /\ 0 \in 0..MaxAttempts
      BY EpochIs, ClaimConstants DEF JITStates
    <3> QED
      BY <3>1 DEF Attempt, Rows
  <2>2. jit' = [jit EXCEPT ![new] = j]
    BY <1>1
  <2> HIDE DEF j
  <2>3. jit' \in [Attempts -> Rows] /\ jit'[new] = j
    BY <1>2, <2>1, <2>2 DEF Typed, StoreTyped
  <2> QED
    BY <1>2, <1>3, <2>1, <2>3 DEF row, Has, Gone
<1>5. /\ runner' \in [Attempts -> Regs] /\ runner'[new] = "requested"
      /\ \A a \in Attempts \ {new} : runner'[a] = runner[a]
  BY <1>1, <1>2 DEF Typed, CoreTyped, Regs
<1>6. Typed'
  BY <1>1, <1>3, <1>4, <1>5
     DEF Typed, StoreTyped, CoreTyped, AgentTyped, Positions, evidence, agentVars
<1>7. (~Has \/ Gone) /\ st \in Early /\ run > 0
  BY <1>1 DEF RowInv, ClaimShape, Early
<1>8. RowInv'
  <2>1. ClaimShape' /\ Paired'
    BY <1>3, <1>4, <1>7 DEF ClaimShape, Paired, Early
  <2>2. RowShape'
    BY <1>1, <1>4, ClaimConstants DEF RowShape, Nameless, Named, Typed, CoreTyped
  <2>3. intent = 0
    BY <1>1 DEF RowInv, Requeue, IntentReadable, Typed, StoreTyped, st
  <2> QED
    BY <1>1, <1>3, <2>1, <2>2, <2>3, RequeueKept DEF RowInv
<1>9. \A a \in Attempts : ~Live(a)
  BY <1>2, <1>7, CurIs DEF CoordInv, Registration, Has, Attempts
<1>10. CoordInv'
  <2>1. PcShape'
    BY <1>1, <1>3, <1>4 DEF PcShape
  <2>2. auth.stage = "none" /\ ~auth.ripe
    BY <1>7 DEF CoordInv, AuthorityShape
  <2>3. AuthorityShape' /\ ~auth'.ripe
    BY <1>1, <2>2, NoStage
  <2>4. Registration'
    BY <1>3, <1>4, <1>5, <1>9, <2>3 DEF Registration, Live
  <2> QED
    BY <2>1, <2>3, <2>4 DEF CoordInv
<1>11. RunInv'
  <2> USE DEF RunInv
  <2>0. /\ net = 0 /\ (agent.start > 0 => Tombstone) /\ new \notin issued
        /\ UNCHANGED <<agent, outbox, net, issued, hist, snap, picked, epoch, exec, slot>>
    <3>1. new \notin issued
      BY <1>2 DEF Issue, new
    <3> QED
      BY <1>1, <1>7, <3>1, Vacant DEF evidence, agentVars
  <2>1. AgentShape' /\ OutboxShape'
    BY <2>0 DEF AgentShape, OutboxShape
  <2>2. Issue'
    <3>1. \A a \in issued : a <= new
      BY <1>2 DEF Issue, new, Typed, AgentTyped, Attempts
    <3> QED
      BY <1>3, <2>0, <3>1 DEF Issue
  <2>3. Fresh' /\ Holding'
    BY <2>0 DEF Fresh, Holding, Tombstone
  <2>4. EndShape'
    <3>1. hist[new].end = "none"
      BY <1>2, <2>0 DEF Issue
    <3> QED
      BY <1>3, <2>0, <3>1 DEF EndShape, Tombstone
  <2>5. SlotShape'
    BY <1>3, <2>0 DEF SlotShape
  <2>6. RanShape'
    <3>1. ~RunShown(new)
      BY <1>2, <2>0 DEF RunShown, Issue
    <3>2. new \notin picked
      BY <1>2, <3>1 DEF RanShape
    <3>3. \A a \in Attempts : RunShown(a)' = RunShown(a)
      BY <2>0 DEF RunShown
    <3>4. \A a \in Attempts : Serving(a)' => Serving(a)
      BY <1>5 DEF Serving
    <3>5. \A a \in picked : Serving(a)'
      BY <1>5, <3>2 DEF RanShape, Serving, Typed, CoreTyped
    <3>6. agent.obs \in {"running", "cleaning"} => RunShown(agent.start)'
      BY <2>0 DEF RanShape, RunShown
    <3> QED
      BY <1>4, <2>0, <3>3, <3>4, <3>5, <3>6 DEF RanShape
  <2> QED
    BY <1>1, <2>1, <2>2, <2>3, <2>4, <2>5, <2>6, NotRemoving
<1> QED
  BY <1>6, <1>8, <1>10, <1>11

\* The attempt moves on with the claim and stays one that is not gone.
LEMMA MoveStep ==
  ASSUME ClaimInv, Has, ~Gone, NEW j \in Rows, NEW s \in ClaimStates \ Early, Move(j, s),
         j.state # "reconciled_absent", j.epoch = row.epoch, row.start => j.start,
         Paired', RowShape', Removing', PcShape', AuthorityShape', Adopted,
         \/ UNCHANGED intent /\ intent = 0
         \/ /\ UNCHANGED intent /\ s = "reconciliation_required"
            /\ j.state \in {"started", "removal_pending"},
         auth' \in Auths, auth'.ripe => auth.ripe, pc' \in Positions \ {"absent"}, loc' \in Reads,
         pc' \in {"generating", "generated", "dispatching"} => cur \notin issued,
         UNCHANGED <<epoch, msgs, evidence, gen, agentVars, runner, slot, node, acquire, prep>>
  PROVE  ClaimInv'
<1> USE DEF ClaimInv
<1>1. /\ claim' \in Claims /\ jit' \in [Attempts -> Rows]
      /\ st' = s /\ cur' = cur /\ run' = run /\ Has' /\ row' = j
  BY MoveEffect
<1>2. ~Gone'
  BY <1>1 DEF Gone
<1>3. Typed'
  <2>1. exec' \in [Execs -> RunStates]
    BY DEF Adopted, Typed, StoreTyped, RunStates
  <2> QED
    BY <1>1, <2>1 DEF Typed, StoreTyped, CoreTyped, AgentTyped, evidence, agentVars
<1>4. RowInv'
  <2>1. run > 0 /\ s # "none"
    BY CurIs DEF RowInv, ClaimShape, Has, Early
  <2>2. ClaimShape'
    BY <1>1, <2>1 DEF ClaimShape
  <2>3. IntentReadable' /\ PendingShape' /\ intent' = intent
    BY <1>1 DEF IntentReadable, PendingShape, st, row, Early
  <2>4. Requeue'
    BY <2>3 DEF RowInv, Requeue, Queued
  <2> QED
    BY <2>2, <2>4 DEF RowInv
<1>5. Registration'
  BY <1>1, <1>2, RegistrationKept DEF CoordInv
<1>6. RunInv'
  <2>1. Quiet
    BY <1>1, <1>2 DEF Quiet
  <2> QED
    BY <2>1, RunKept
<1> QED
  BY <1>3, <1>4, <1>5, <1>6 DEF CoordInv

\* The rows of a position between two transactions of the drive.
LEMMA AtPosition ==
  ASSUME ClaimInv, pc \in {"generating", "generated", "dispatching", "sent"}
  PROVE  /\ Has /\ ~Gone /\ st \notin Early /\ intent = 0 /\ row.epoch = epoch /\ epoch \in 1..epoch
         /\ cur \in Attempts /\ epoch \in 0..MaxEpoch
         /\ pc = "generating" => row.state = "intent"
         /\ pc # "generating" => row.runner = cur /\ row.start
         /\ pc # "sent" => cur \notin issued
<1> USE DEF ClaimInv
<1>1. /\ st \in {"jit_intent", "jit_generated", "start_dispatching"} /\ row.epoch = epoch
      /\ pc = "generating" <=> st = "jit_intent"
  BY DEF CoordInv, PcShape
<1>2. Has /\ st \notin Early
  BY <1>1 DEF RowInv, ClaimShape, Early
<1>3. /\ row.state \in {"intent", "generated", "start_dispatching"}
      /\ st = "jit_intent" <=> row.state = "intent"
  BY <1>1 DEF RowInv, Paired
<1>4. intent = 0
  BY <1>1 DEF RowInv, Requeue, IntentReadable, Typed, StoreTyped, st
<1>5. epoch \in 1..epoch /\ epoch \in 0..MaxEpoch
  BY ClaimConstants DEF Typed, CoreTyped
<1>6. pc # "generating" => row.runner = cur /\ row.start
  BY <1>1, <1>2, <1>3 DEF RowInv, RowShape, Named
<1>7. pc # "sent" => cur \notin issued
  BY DEF RunInv, Issue
<1> QED
  BY <1>1, <1>2, <1>3, <1>4, <1>5, <1>6, <1>7, CurIs DEF Gone

\* An authority of the attempt stays one of it.
LEMMA AuthorityMoved ==
  ASSUME AuthorityShape, UNCHANGED auth, st' \notin Early, ~Gone' PROVE AuthorityShape'
  BY DEF AuthorityShape

LEMMA MovedRow ==
  ASSUME Typed, Has, NEW j \in Rows, NEW s \in ClaimStates, Move(j, s), UNCHANGED epoch,
         row.epoch \in 1..epoch, j.epoch = row.epoch,
         \/ j.state \in Nameless /\ j.runner = 0 /\ ~j.start
         \/ j.state \in Named /\ j.runner = cur /\ j.start
  PROVE  RowShape'
<1>1. row' = j /\ cur' = cur /\ epoch' = epoch
  BY MoveEffect
<1> QED
  BY <1>1 DEF RowShape, Nameless, Named

\* MarkGitHubJITGenerated and MarkGitHubJITGenerationAmbiguous
LEMMA GenerateStep == ASSUME ClaimInv, GenerateAnswered PROVE ClaimInv'
<1> USE DEF ClaimInv
<1>1. /\ pc = "generating" /\ UNCHANGED <<epoch, msgs, evidence, gen, loc, agentVars, runner>>
      /\ UNCHANGED <<exec, slot, node, acquire, auth, intent, prep>>
  BY DEF GenerateAnswered
<1>2. /\ Has /\ ~Gone /\ intent = 0 /\ row.epoch = epoch /\ row.state = "intent"
      /\ cur \in Attempts /\ epoch \in 0..MaxEpoch /\ epoch \in 1..epoch /\ cur \notin issued
  BY <1>1, AtPosition
<1>3. ~row.start /\ row.runner = 0
  BY <1>2 DEF RowInv, RowShape, Nameless
<1>4. PICK j, s, p : /\ Move(j, s) /\ pc' = p
                     /\ \/ /\ j = Attempt("generated", epoch, cur, TRUE)
                           /\ s = "jit_generated" /\ p = "generated"
                        \/ /\ j = To("generation_ambiguous")
                           /\ s = "jit_generation_ambiguous" /\ p = "idle"
  BY DEF GenerateAnswered
<1>5. /\ j \in Rows /\ j.epoch = row.epoch
      /\ \/ /\ s = "jit_generated" /\ p = "generated"
            /\ j.state = "generated" /\ j.runner = cur /\ j.start = TRUE
         \/ /\ s = "jit_generation_ambiguous" /\ p = "idle"
            /\ j.state = "generation_ambiguous" /\ j.runner = 0 /\ ~j.start
  <2>1. CASE j = Attempt("generated", epoch, cur, TRUE) /\ s = "jit_generated" /\ p = "generated"
    BY <1>2, <2>1 DEF Attempt, Rows, JITStates, Attempts
  <2>2. CASE /\ j = To("generation_ambiguous") /\ s = "jit_generation_ambiguous" /\ p = "idle"
    BY <1>2, <1>3, <2>2, ToFields DEF JITStates
  <2> QED
    BY <1>4, <2>1, <2>2
<1>6. s \in ClaimStates \ Early /\ j.state # "reconciled_absent"
  BY <1>5 DEF ClaimStates, Early
<1>7. st' = s /\ row' = j /\ Has'
  BY <1>2, <1>4, <1>5, <1>6, MoveEffect
<1>8. Paired' /\ PcShape'
  BY <1>1, <1>2, <1>4, <1>5, <1>7 DEF Paired, PcShape
<1>9. RowShape'
  BY <1>1, <1>2, <1>4, <1>5, <1>6, MovedRow DEF Nameless, Named
<1>10. AuthorityShape'
  BY <1>1, <1>6, <1>7, AuthorityMoved DEF CoordInv, Gone
<1>11. Removing' /\ Adopted /\ pc' \in Positions \ {"absent"}
  BY <1>1, <1>4, <1>5, NotRemoving DEF Adopted, Positions
<1>12. auth' \in Auths /\ loc' \in Reads
  BY <1>1 DEF Typed, StoreTyped, CoreTyped
<1> QED
  BY <1>1, <1>2, <1>3, <1>4, <1>5, <1>6, <1>8, <1>9, <1>10, <1>11, <1>12, MoveStep

\* BeginGitHubStartDispatch
LEMMA DispatchStep == ASSUME ClaimInv, BeginStartDispatch PROVE ClaimInv'
<1> USE DEF ClaimInv
<1>1. /\ pc = "generated" /\ UNCHANGED <<epoch, msgs, evidence, gen, loc, agentVars, runner>>
      /\ UNCHANGED <<exec, slot, node, acquire, auth, intent, prep>>
  BY DEF BeginStartDispatch
<1>2. CASE pc' = "dispatching" /\ Move(To("start_dispatching"), "start_dispatching")
  <2>1. /\ Has /\ ~Gone /\ intent = 0 /\ row.epoch = epoch /\ row.runner = cur /\ row.start
        /\ epoch \in 1..epoch /\ cur \notin issued
    BY <1>1, AtPosition
  <2> DEFINE j == To("start_dispatching")
  <2>2. /\ j \in Rows /\ j.state = "start_dispatching" /\ j.epoch = row.epoch
        /\ j.runner = row.runner /\ j.start = row.start /\ Move(j, "start_dispatching")
    BY <1>2, <2>1, ToFields DEF JITStates
  <2> HIDE DEF j
  <2>3. "start_dispatching" \in ClaimStates \ Early
    BY DEF ClaimStates, Early
  <2>4. st' = "start_dispatching" /\ row' = j /\ Has'
    BY <2>1, <2>2, <2>3, MoveEffect
  <2>5. Paired' /\ PcShape'
    BY <1>1, <1>2, <2>1, <2>2, <2>4 DEF Paired, PcShape
  <2>6. RowShape'
    BY <1>1, <2>1, <2>2, <2>3, MovedRow DEF Named
  <2>7. AuthorityShape'
    BY <1>1, <2>2, <2>3, <2>4, AuthorityMoved DEF CoordInv, Gone
  <2>8. Removing' /\ Adopted /\ pc' \in Positions \ {"absent"}
    BY <1>1, <1>2, NotRemoving DEF Adopted, Positions
  <2>9. auth' \in Auths /\ loc' \in Reads
    BY <1>1 DEF Typed, StoreTyped, CoreTyped
  <2> QED
    BY <1>1, <2>1, <2>2, <2>3, <2>5, <2>6, <2>7, <2>8, <2>9, MoveStep
<1>3. CASE pc' = "idle" /\ UNCHANGED <<jit, claim>>
  <2>1. Typed' /\ msgs' >= msgs
    BY <1>1, <1>3, EpochIs
       DEF Typed, StoreTyped, CoreTyped, AgentTyped, Positions, evidence, agentVars
  <2> QED
    BY <1>1, <1>3, <2>1, StillStep
<1> QED
  BY <1>2, <1>3 DEF BeginStartDispatch

\* A transition of an attempt whose runner and Start are known, back to the idle loop.
LEMMA NamedStep ==
  ASSUME ClaimInv, Has, ~Gone, row.runner = cur, row.start, intent = 0, pc' = "idle",
         NEW x \in Named, NEW s \in {"start_ambiguous", "running", "reconciliation_required"},
         Move(To(x), s),
         \/ s = "start_ambiguous" /\ x = "start_ambiguous"
         \/ s = "running" /\ x = "started"
         \/ s = "reconciliation_required" /\ x \in {"agent_accepted", "started"},
         UNCHANGED auth \/ (auth' \in Auths /\ auth'.stage = "none" /\ ~auth'.ripe), Adopted,
         UNCHANGED <<epoch, msgs, evidence, gen, loc, agentVars, runner>>,
         UNCHANGED <<slot, node, acquire, intent, prep>>
  PROVE  ClaimInv'
<1> USE DEF ClaimInv
<1> DEFINE j == To(x)
<1>1. /\ j \in Rows /\ j.state = x /\ j.epoch = row.epoch /\ j.runner = cur
      /\ j.start = row.start /\ Move(j, s)
  BY ToFields DEF JITStates, Named
<1> HIDE DEF j
<1>2. s \in ClaimStates \ Early /\ x # "reconciled_absent"
  BY DEF ClaimStates, Early
<1>3. st' = s /\ row' = j /\ Has' /\ ~Gone'
  BY <1>1, <1>2, MoveEffect DEF Gone
<1>4. Paired' /\ PcShape'
  BY <1>1, <1>3 DEF Paired, PcShape
<1>5. RowShape'
  <2>1. row.epoch \in 1..epoch
    BY DEF RowInv, RowShape
  <2> QED
    BY <1>1, <1>2, <2>1, MovedRow
<1>6. AuthorityShape'
  BY <1>2, <1>3, AuthorityMoved, NoStage DEF CoordInv
<1>7. auth' \in Auths /\ loc' \in Reads /\ (auth'.ripe => auth.ripe)
  BY DEF Typed, StoreTyped, CoreTyped
<1>8. Removing' /\ pc' \in Positions \ {"absent"}
  BY NotRemoving DEF Positions
<1> QED
  BY <1>1, <1>2, <1>4, <1>5, <1>6, <1>7, <1>8, MoveStep

\* SendStart: the Start is issued once, by the epoch that owns the attempt.
LEMMA SendStartStep == ASSUME ClaimInv, SendStart PROVE ClaimInv'
<1> USE DEF ClaimInv
<1>1. /\ pc = "dispatching" /\ UNCHANGED <<epoch, msgs, picked, hist, snap, gen, loc, agent>>
      /\ UNCHANGED <<outbox, runner, exec, slot, node, acquire, auth, intent, prep>>
  BY DEF SendStart
<1>2. /\ Has /\ ~Gone /\ intent = 0 /\ row.epoch = epoch /\ row.runner = cur /\ row.start
      /\ cur \in Attempts /\ cur \notin issued
  BY <1>1, AtPosition
<1>3. CASE /\ pc' = "idle" /\ Move(To("start_ambiguous"), "start_ambiguous")
           /\ UNCHANGED <<issued, net>>
  BY <1>1, <1>2, <1>3, NamedStep DEF Named, Adopted, evidence, agentVars
<1>4. CASE /\ pc' = "sent" /\ issued' = issued \cup {cur} /\ net' = cur
           /\ UNCHANGED <<jit, claim>>
  <2>1. /\ st' = st /\ cur' = cur /\ run' = run /\ row' = row
        /\ Has' = Has /\ Gone' = Gone /\ Fenced' = Fenced
    BY <1>4, Same
  <2>2. Typed'
    BY <1>1, <1>2, <1>4, CurIs DEF Typed, StoreTyped, CoreTyped, AgentTyped, Positions
  <2>3. RowInv'
    BY <1>1, <1>4, <2>2, EpochIs, RowsKept
  <2>4. CoordInv'
    <3>1. PcShape'
      BY <1>1, <1>4, <2>1 DEF CoordInv, PcShape
    <3>2. AuthorityShape' /\ Registration'
      BY <1>1, <1>4, <2>1, AuthorityKept, RegistrationKept DEF CoordInv
    <3> QED
      BY <3>1, <3>2 DEF CoordInv
  <2>5. RunInv'
    <3> USE DEF RunInv
    <3>1. AgentShape' /\ OutboxShape' /\ SlotShape'
      BY <1>1, <2>1 DEF AgentShape, OutboxShape, SlotShape
    <3>2. Issue'
      BY <1>1, <1>2, <1>4, <2>1, CurIs DEF Issue
    <3>3. agent.start # cur /\ ~hist[cur].ran /\ hist[cur].end = "none"
      BY <1>2 DEF Issue, Has
    <3>4. Fresh' /\ Holding'
      BY <1>1, <1>2, <1>4, <2>1, <3>3 DEF Fresh, Holding, Tombstone
    <3>5. EndShape' /\ RanShape'
      BY <1>1, <2>1 DEF EndShape, RanShape, RunShown, Serving, Tombstone
    <3> QED
      BY <1>4, <3>1, <3>2, <3>4, <3>5, NotRemoving
  <2> QED
    BY <2>2, <2>3, <2>4, <2>5
<1> QED
  BY <1>3, <1>4 DEF SendStart

\* markGitHubStarted and MarkGitHubStartAmbiguous
LEMMA StartAnsweredStep == ASSUME ClaimInv, StartAnswered PROVE ClaimInv'
<1>1. /\ pc = "sent" /\ pc' = "idle"
      /\ UNCHANGED <<epoch, msgs, evidence, gen, loc, agentVars, runner>>
      /\ UNCHANGED <<exec, slot, node, acquire, auth, intent, prep>>
  BY DEF StartAnswered
<1>2. Has /\ ~Gone /\ intent = 0 /\ row.runner = cur /\ row.start
  BY <1>1, AtPosition
<1>3. PICK x \in {"started", "start_ambiguous"},
           s \in {"running", "reconciliation_required", "start_ambiguous"} :
         Move(To(x), s) /\ (x = "start_ambiguous" <=> s = "start_ambiguous")
  BY DEF StartAnswered
<1> QED
  BY <1>1, <1>2, <1>3, NamedStep DEF Named, Adopted

\* adoptObservationAction
LEMMA AdoptStep == ASSUME ClaimInv, AdoptObservation PROVE ClaimInv'
<1> USE DEF ClaimInv
<1>1. /\ pc = "idle" /\ snap.obs \notin Ends /\ exec' = [exec EXCEPT ![run] = snap.obs]
      /\ Observed /\ snap.obs # exec[run] /\ Reaches(exec[run], snap.obs)
      /\ UNCHANGED <<epoch, msgs, evidence, gen, pc, loc, agentVars, runner>>
      /\ UNCHANGED <<claim, slot, node, acquire, jit, auth, intent, prep>>
  BY DEF AdoptObservation, AdoptionDue
<1>2. run \in Execs /\ snap.obs \in {"preparing", "running", "cleaning"}
  <2>1. snap.obs \in RunStates
    BY DEF Typed, AgentTyped, Snapshots
  <2> QED
    BY <1>1, <2>1, CurIs DEF RunStates, Reaches, Observed
<1>3. Adopted
  BY <1>1, <1>2 DEF Adopted
<1>4. /\ st' = st /\ cur' = cur /\ run' = run /\ row' = row
      /\ Has' = Has /\ Gone' = Gone /\ Fenced' = Fenced
  BY <1>1, Same
<1>5. Typed'
  <2>1. exec' \in [Execs -> RunStates]
    BY <1>1, <1>2 DEF Typed, StoreTyped, RunStates
  <2> QED
    BY <1>1, <2>1 DEF Typed, StoreTyped, CoreTyped, AgentTyped, evidence, agentVars
<1>6. RowInv'
  BY <1>1, <1>5, EpochIs, RowsKept
<1>7. CoordInv'
  BY <1>1, <1>4, PcKept, AuthorityKept, RegistrationKept DEF CoordInv
<1>8. RunInv'
  <2>1. Quiet
    BY <1>1, <1>4 DEF Quiet
  <2> QED
    BY <1>1, <1>3, <1>4, <2>1, RunKept, NotRemoving
<1> QED
  BY <1>5, <1>6, <1>7, <1>8

-----------------------------------------------------------------------------
(* Reconciliation *)

LEMMA FencedIs ==
  ASSUME ClaimInv, Fenced
  PROVE  /\ Has /\ ~Gone /\ st \notin Early /\ cur \in Attempts /\ run \in Execs
         /\ row.epoch \in 1..epoch
         /\ row.state \in MayHaveStarted => row.runner = cur /\ row.start
<1> USE DEF ClaimInv
<1>1. Has /\ ~Gone /\ st \notin Early
  BY DEF Fenced, Gone, FenceStates, Early, st, row
<1>2. run > 0 /\ row.epoch \in 1..epoch
  BY <1>1 DEF RowInv, ClaimShape, RowShape, Early
<1>3. row.state \in MayHaveStarted => row.runner = cur /\ row.start
  BY <1>1 DEF RowInv, RowShape, MayHaveStarted, Named
<1> QED
  BY <1>1, <1>2, <1>3, CurIs

\* ReconcileGitHubJITPrunedHistory and MarkGitHubJITObservedStarted
LEMMA ResolveStartedStep == ASSUME ClaimInv, ResolveStarted PROVE ClaimInv'
<1>1. /\ Fenced /\ pc = "idle" /\ intent = 0 /\ auth' = NoAuthority
      /\ UNCHANGED <<epoch, msgs, evidence, gen, pc, loc, agentVars, runner>>
      /\ UNCHANGED <<slot, node, acquire, intent, prep>> /\ row.state \in MayHaveStarted
  BY DEF ResolveStarted, Reconciling, Driving, PrunedStart, ObservedStart, PrunedHistory, row
<1>2. PICK s \in {"running", "reconciliation_required"} : Move(To("started"), s)
  BY DEF ResolveStarted
<1>3. Has /\ ~Gone /\ run \in Execs /\ row.runner = cur /\ row.start
  BY <1>1, FencedIs
<1>4. Adopted
  <2>1. CASE ObservedStart /\ snap.obs \notin Ends
    <3>1. snap.obs \in {"running", "cleaning"} /\ Reaches(exec[run], snap.obs)
      BY <2>1 DEF ObservedStart
    <3> QED
      BY <1>3, <2>1, <3>1 DEF ResolveStarted, Adopted
  <2>2. CASE ~(ObservedStart /\ snap.obs \notin Ends)
    BY <2>2 DEF ResolveStarted, Adopted
  <2> QED
    BY <2>1, <2>2
<1> QED
  BY <1>1, <1>2, <1>3, <1>4, NamedStep, NoAuthorityFields DEF Named

\* MarkGitHubJITAgentAccepted
LEMMA ResolveAcceptedStep == ASSUME ClaimInv, ResolveAccepted PROVE ClaimInv'
<1>1. /\ Fenced /\ pc = "idle" /\ intent = 0
      /\ auth' = Authority("agent_accepted", "none", View(snap), epoch, 0)
      /\ Move(To("agent_accepted"), "reconciliation_required")
      /\ UNCHANGED <<epoch, msgs, evidence, gen, pc, loc, agentVars, runner>>
      /\ UNCHANGED <<exec, slot, node, acquire, intent, prep>> /\ row.state \in MayHaveStarted
  BY DEF ResolveAccepted, Reconciling, Driving, MayHaveStarted, row
<1>2. Has /\ ~Gone /\ row.runner = cur /\ row.start
  BY <1>1, FencedIs
<1>3. auth' \in Auths /\ auth'.stage = "none" /\ ~auth'.ripe
  <2>1. View(snap) \in Views /\ epoch \in 0..MaxEpoch /\ 0 \in 0..(MaxFailures + 1)
    BY ViewIs, EpochIs, ClaimConstants DEF ClaimInv
  <2> QED
    BY <1>1, <2>1, AuthorityFields DEF AuthKinds, Stages
<1> QED
  BY <1>1, <1>2, <1>3, NamedStep DEF Named, Adopted

\* What each classification of a removal rests on.
LEMMA KindMeans ==
  /\ RemovalKind \in Kinds \cup {"refused"}
  /\ RemovalKind = "unpicked_requeue" =>
        intent # 0 /\ exec[run] \in CleanEnds /\ Started /\ hist[cur].end = exec[run]
  /\ RemovalKind = "lost_jit" => intent = 0 /\ Ended /\ ~Started
  /\ RemovalKind = "ambiguity" => intent = 0 /\ ~Accepted /\ ~Started /\ ~Ended
<1>1. /\ AgentRemovalKind \in {"refused", "lost_jit", "ambiguity"}
      /\ AgentRemovalKind = "lost_jit" => Ended /\ ~Started
      /\ AgentRemovalKind = "ambiguity" => ~Accepted /\ ~Started /\ ~Ended
  <2>1. CASE ~StartIssued
    BY <2>1 DEF AgentRemovalKind
  <2>2. CASE StartIssued /\ Accepted
    BY <2>2 DEF AgentRemovalKind
  <2>3. CASE StartIssued /\ ~Accepted
    BY <2>3 DEF AgentRemovalKind
  <2> QED
    BY <2>1, <2>2, <2>3
<1> QED
  BY <1>1 DEF RemovalKind, Kinds

\* A Start whose end is known is neither on the wire nor held, but as a tombstone.
LEMMA EndedIsOver ==
  ASSUME ClaimInv, Has, hist[cur].end # "none"
  PROVE  net = 0 /\ (agent.start = cur => Tombstone)
<1> USE DEF ClaimInv
<1>1. net = 0
  BY CurIs DEF RunInv, Fresh, Typed, AgentTyped
<1>2. agent.start = cur => Tombstone
  BY CurIs DEF RunInv, EndShape
<1> QED
  BY <1>1, <1>2

\* A Start that a later epoch's current snapshot does not hold never came and never will.
LEMMA UnacceptedIsOver ==
  ASSUME ClaimInv, Fenced, AuthorityCurrent, epoch > row.epoch, ~Accepted
  PROVE  net = 0 /\ (agent.start = cur => Tombstone)
<1> USE DEF ClaimInv
<1>0. Has /\ ~Gone /\ row.epoch \in 1..epoch /\ epoch \in Nat
  BY FencedIs, EpochIs
<1>1. net = 0
  BY <1>0 DEF RunInv, Fresh, Typed, AgentTyped, AuthorityCurrent
<1>2. ASSUME agent.start = cur, ~Tombstone PROVE FALSE
  <2>1. agent.start > 0 /\ cur \in issued
    BY <1>0, <1>2 DEF RunInv, Issue, Has
  <2>2. snap.start = cur
    BY <1>2, <2>1 DEF RunInv, Holding, AuthorityCurrent
  <2>3. row.start
    BY <1>0, <2>1 DEF RunInv, Issue
  <2> QED
    BY <1>0, <2>2, <2>3 DEF Accepted, row
<1> QED
  BY <1>1, <1>2

\* What the authority of a removal or an absence guarantees: no Start of the attempt
\* is about, and its runner has the job only if a requeue says that it ran to its end.
LEMMA CurrentMeans ==
  ASSUME ClaimInv, Fenced, Current
  PROVE  /\ net = 0 /\ (agent.start = cur => Tombstone)
         /\ RemovalKind # "unpicked_requeue" => intent = 0 /\ ~Serving(cur)
<1> USE DEF ClaimInv
<1>0. Has /\ ~Gone /\ cur \in Attempts /\ row.epoch \in 1..epoch /\ epoch \in Nat
  BY FencedIs, EpochIs
<1>1. CASE RemovalKind = "unpicked_requeue"
  <2>1. hist[cur].end # "none"
    BY <1>1, KindMeans DEF CleanEnds
  <2> QED
    BY <1>0, <1>1, <2>1, EndedIsOver
<1>2. CASE RemovalKind = "lost_jit"
  <2>1. Ended /\ ~Started /\ intent = 0
    BY <1>2, KindMeans
  <2>2. hist[cur].end # "none" /\ ~hist[cur].ran
    BY <2>1 DEF Ended, Started
  <2>3. net = 0 /\ (agent.start = cur => Tombstone)
    BY <1>0, <2>2, EndedIsOver
  <2>4. ~Serving(cur)
    BY <1>0, <2>2, <2>3 DEF RunInv, RanShape, RunShown, Tombstone
  <2> QED
    BY <2>1, <2>3, <2>4
<1>3. CASE RemovalKind = "ambiguity"
  <2>1. ~Accepted /\ ~Started /\ intent = 0
    BY <1>3, KindMeans
  <2>2. AuthorityCurrent /\ epoch > row.epoch
    BY <1>0, <1>3 DEF Current, row
  <2>3. net = 0 /\ (agent.start = cur => Tombstone)
    BY <2>1, <2>2, UnacceptedIsOver
  <2>4. ~hist[cur].ran
    <3>1. ASSUME hist[cur].ran PROVE row.start
      BY <1>0, <3>1 DEF RunInv, Issue
    <3> QED
      BY <1>0, <2>1, <3>1 DEF Started, row
  <2>5. ~Serving(cur)
    BY <1>0, <2>3, <2>4 DEF RunInv, RanShape, RunShown, Tombstone
  <2> QED
    BY <2>1, <2>3, <2>5
<1> QED
  BY <1>1, <1>2, <1>3, KindMeans DEF Current, Kinds

\* QueryRunner
LEMMA QueryStep == ASSUME ClaimInv, QueryRunner PROVE ClaimInv'
<1> USE DEF ClaimInv
<1>1. /\ Fenced /\ pc = "idle"
      /\ UNCHANGED <<epoch, msgs, evidence, agentVars, runner>>
      /\ UNCHANGED <<claim, exec, slot, node, acquire, jit, auth, intent, prep>>
  BY DEF QueryRunner, Reconciling, Driving, store
<1>2. /\ st' = st /\ cur' = cur /\ run' = run /\ row' = row
      /\ Has' = Has /\ Gone' = Gone /\ Fenced' = Fenced
  BY <1>1, Same
<1>3. \/ /\ pc' = "absent" /\ loc' \in Reads /\ gen' = gen /\ \A a \in Attempts : ~Registered(a)
      \/ /\ pc' = "present" /\ loc' \in Reads /\ gen' = gen /\ loc'.id = cur
      \/ /\ pc' = "idle" /\ loc' = loc /\ gen' \in 1..(MaxFailures + 1)
  <2>0. View(snap) \in Views /\ gen \in 0..(MaxFailures + 1) /\ 0 \in 0..MaxAttempts
    BY ViewIs, ClaimConstants DEF Typed, CoreTyped
  <2>1. CASE Answers = {} /\ pc' = "absent" /\ loc' = Read(View(snap), gen, 0) /\ UNCHANGED gen
    BY <2>0, <2>1, ReadFields DEF Answers
  <2>2. ASSUME NEW a \in Answers, pc' = "present", loc' = Read(View(snap), gen, a), UNCHANGED gen
        PROVE  pc' = "present" /\ loc' \in Reads /\ gen' = gen /\ loc'.id = cur
    <3>1. a \in Attempts /\ a \in 0..MaxAttempts /\ Live(a)
      BY DEF Answers, Registered, Live, Attempts
    <3>2. a = cur
      BY <3>1 DEF CoordInv, Registration
    <3> QED
      BY <2>0, <2>2, <3>1, <3>2, ReadFields
  <2>3. CASE gen <= MaxFailures /\ gen' = gen + 1 /\ UNCHANGED <<pc, loc>>
    BY <1>1, <2>3, ClaimConstants DEF Typed, CoreTyped
  <2> QED
    BY <2>1, <2>2, <2>3 DEF QueryRunner
<1>4. Typed'
  BY <1>1, <1>3 DEF Typed, StoreTyped, CoreTyped, AgentTyped, Positions, evidence, agentVars
<1>5. RowInv'
  BY <1>1, <1>4, EpochIs, RowsKept
<1>6. CoordInv'
  <2>1. PcShape'
    BY <1>1, <1>2, <1>3 DEF PcShape
  <2>2. AuthorityShape'
    BY <1>1, <1>2, AuthorityKept DEF CoordInv
  <2>3. Registration'
    <3>1. CASE pc' = "absent" /\ \A a \in Attempts : ~Registered(a)
      <4>1. cur \in Attempts
        BY <1>1, FencedIs
      <4> QED
        BY <1>1, <1>2, <3>1, <4>1 DEF CoordInv, Registration, Registered, Live
    <3> QED
      BY <1>1, <1>2, <1>3, <3>1, RegistrationKept DEF CoordInv
  <2> QED
    BY <2>1, <2>2, <2>3 DEF CoordInv
<1>7. RunInv'
  <2>1. Quiet /\ Adopted
    BY <1>1, <1>2 DEF Quiet, Adopted
  <2>2. Removing' /\ pc' \notin {"generating", "generated", "dispatching"}
    BY <1>2, <1>3 DEF Removing
  <2> QED
    BY <1>2, <2>1, <2>2, RunKept
<1> QED
  BY <1>4, <1>5, <1>6, <1>7

\* The absence that puts a known registration under removal, or its presence.
LEMMA RemovalMeans ==
  ASSUME MarkRemovalPending
  PROVE  /\ pc \in {"present", "absent"} /\ (pc = "absent" => row.runner # 0)
         /\ UNCHANGED <<epoch, msgs, evidence, gen, agentVars, runner>>
         /\ UNCHANGED <<exec, slot, node, acquire, intent, prep>>
         /\ \/ /\ RemovalAllowed /\ Move(Pending(loc.id), "reconciliation_required")
               /\ \E g \in {"issued", "absence"} :
                     auth' = Authority(RemovalKind, g, View(snap), epoch, gen)
               /\ \/ pc = "present" /\ pc' = "removing" /\ UNCHANGED loc
                  \/ pc' = "idle" /\ loc' = NoRead
            \/ pc' = "idle" /\ loc' = NoRead /\ UNCHANGED <<jit, claim, auth>>
  BY DEF MarkRemovalPending, RemovalDue, Pending, row

\* MarkGitHubJITRemovalPending
LEMMA RemovalStep == ASSUME ClaimInv, MarkRemovalPending PROVE ClaimInv'
<1> USE DEF ClaimInv
<1>1. /\ pc \in {"present", "absent"} /\ (pc = "absent" => row.runner # 0)
      /\ UNCHANGED <<epoch, msgs, evidence, gen, agentVars, runner>>
      /\ UNCHANGED <<exec, slot, node, acquire, intent, prep>>
  BY RemovalMeans
<1>2. Fenced
  BY <1>1 DEF CoordInv, PcShape
<1>3. /\ Has /\ ~Gone /\ cur \in Attempts /\ row.epoch \in 1..epoch /\ row.state # "none"
      /\ row.start => row.runner = cur
  <2>1. Has /\ ~Gone /\ cur \in Attempts /\ row.epoch \in 1..epoch /\ row.state # "none"
    BY <1>2, FencedIs DEF RowInv, RowShape
  <2>2. row.start => row.runner = cur
    BY <2>1, RowIs DEF RowInv, RowShape, Nameless, Named, JITStates
  <2> QED
    BY <2>1, <2>2
<1>4. CASE pc' = "idle" /\ loc' = NoRead /\ UNCHANGED <<jit, claim, auth>>
  <2>1. Typed' /\ msgs' >= msgs
    BY <1>1, <1>4, EpochIs, NoReadFields
       DEF Typed, StoreTyped, CoreTyped, AgentTyped, Positions, evidence, agentVars
  <2> QED
    BY <1>1, <1>4, <2>1, StillStep
<1>5. ASSUME RemovalAllowed, Move(Pending(loc.id), "reconciliation_required"),
             NEW g \in {"issued", "absence"},
             auth' = Authority(RemovalKind, g, View(snap), epoch, gen),
             \/ pc = "present" /\ pc' = "removing" /\ UNCHANGED loc
             \/ pc' = "idle" /\ loc' = NoRead
      PROVE  ClaimInv'
  <2> DEFINE j == Pending(loc.id)
  <2>1. /\ j \in Rows /\ j.state = "removal_pending" /\ j.epoch = row.epoch
        /\ j.start = row.start /\ Move(j, "reconciliation_required")
        /\ j.runner = IF row.runner = 0 THEN loc.id ELSE row.runner
    <3>1. loc.id \in 0..MaxAttempts
      BY DEF Typed, CoreTyped, Reads
    <3> QED
      BY <1>3, <1>5, <3>1, PendingFields
  <2> HIDE DEF j
  <2>2. j.runner # 0 /\ (j.start => j.runner = cur)
    <3>1. pc = "present" => loc.id = cur
      BY DEF RunInv, Removing
    <3> QED
      BY <1>1, <1>3, <2>1, <3>1, CurIs DEF Has
  <2>3. "reconciliation_required" \in ClaimStates \ Early
    BY DEF ClaimStates, Early
  <2>4. st' = "reconciliation_required" /\ row' = j /\ Has' /\ ~Gone' /\ cur' = cur
    BY <1>3, <2>1, <2>3, MoveEffect DEF Gone
  <2>5. Paired' /\ RowShape'
    BY <1>1, <1>3, <2>1, <2>2, <2>4 DEF Paired, RowShape, Nameless, Named
  <2>6. Current
    BY <1>5 DEF RemovalAllowed
  <2>7. auth' \in Auths /\ auth'.stage = g /\ ~auth'.ripe
    <3>1. RemovalKind \in AuthKinds /\ g \in Stages /\ View(snap) \in Views
          /\ epoch \in 0..MaxEpoch /\ gen \in 0..(MaxFailures + 1)
      BY <2>6, KindMeans, ViewIs, EpochIs, ClaimConstants
         DEF Current, AuthKinds, Stages, Typed, CoreTyped
    <3> QED
      BY <1>5, <3>1, AuthorityFields
  <2>8. AuthorityShape'
    BY <2>3, <2>4, <2>7 DEF AuthorityShape
  <2>9. PcShape'
    BY <1>5, <2>1, <2>4 DEF PcShape, Fenced, FenceStates, st, row
  <2>10. Removing'
    <3>1. CASE pc' = "removing" /\ pc = "present" /\ UNCHANGED loc
      <4>1. net = 0 /\ (agent.start = cur => Tombstone)
        BY <1>2, <2>6, CurrentMeans
      <4>2. cur \notin picked
        BY <1>2, <1>3, <1>5, <2>6, <3>1, CurrentMeans DEF RemovalAllowed, RunInv, RanShape
      <4>3. loc.id = cur
        BY <3>1 DEF RunInv, Removing
      <4> QED
        BY <1>1, <2>4, <3>1, <4>1, <4>2, <4>3
           DEF Removing, Tombstone, Ends, evidence, agentVars
    <3> QED
      BY <1>5, <3>1, NotRemoving
  <2>11. Adopted /\ pc' \in Positions \ {"absent"} /\ loc' \in Reads
    BY <1>1, <1>5, NoReadFields DEF Adopted, Positions, Typed, CoreTyped
  <2>12. pc' \notin {"generating", "generated", "dispatching"}
    BY <1>5
  <2> QED
    BY <1>1, <1>3, <2>1, <2>3, <2>5, <2>7, <2>8, <2>9, <2>10, <2>11, <2>12, MoveStep
<1> QED
  BY <1>4, <1>5, RemovalMeans

\* A registration that changes hands at GitHub is never a new one, and one that has
\* the job belongs to a runner that is known to run, or will be.
LEMMA RegisterStep ==
  ASSUME ClaimInv, NEW a \in Attempts, NEW r \in Regs \ {"requested"},
         runner' = [runner EXCEPT ![a] = r], r \in {"idle", "busy"} => Live(a),
         Serving(a) => r \in {"busy", "served"},
         r \in {"busy", "served"} => Serving(a) \/ (RunShown(a) /\ Live(a)),
         UNCHANGED <<epoch, msgs, evidence, gen, agentVars>>, UNCHANGED store,
         UNCHANGED <<pc, loc>> \/ (pc' = "idle" /\ loc' = NoRead)
  PROVE  ClaimInv'
<1> USE DEF ClaimInv
<1>1. UNCHANGED <<claim, exec, slot, node, acquire, jit, auth, intent, prep>>
  BY DEF store
<1>2. /\ st' = st /\ cur' = cur /\ run' = run /\ row' = row
      /\ Has' = Has /\ Gone' = Gone /\ Fenced' = Fenced
  BY <1>1, Same
<1>3. /\ runner' \in [Attempts -> Regs] /\ runner'[a] = r
      /\ \A x \in Attempts \ {a} : runner'[x] = runner[x]
  BY DEF Typed, CoreTyped
<1>4. Typed'
  BY <1>1, <1>3, NoReadFields
     DEF Typed, StoreTyped, CoreTyped, AgentTyped, Positions, evidence, agentVars
<1>5. RowInv'
  BY <1>1, <1>4, EpochIs, RowsKept
<1>6. \A x \in Attempts : /\ runner'[x] \in {"requested", "idle", "busy"} => Live(x)
                          /\ runner'[x] = "requested" => runner[x] = "requested"
  BY <1>3 DEF Live
<1>7. CoordInv'
  <2>1. PcShape' /\ AuthorityShape'
    BY <1>1, <1>2, PcKept, AuthorityKept DEF CoordInv
  <2>2. Has => cur \in Attempts
    BY CurIs
  <2>3. auth.ripe => Has
    BY DEF CoordInv, AuthorityShape, RowInv, ClaimShape
  <2>4. Registration'
    <3>1. \A x \in Attempts : runner'[x] \in {"requested", "idle", "busy"} => x = cur
      BY <1>6 DEF CoordInv, Registration
    <3>2. Gone => runner'[cur] \notin {"requested", "idle", "busy"}
      BY <1>6, <2>2 DEF CoordInv, Registration, Gone
    <3>3. auth.ripe => runner'[cur] # "requested"
      BY <1>6, <2>2, <2>3 DEF CoordInv, Registration
    <3>4. pc' = "absent" /\ auth.ripe => runner'[cur] \notin {"requested", "idle", "busy"}
      BY <1>6, <2>2, <2>3 DEF CoordInv, Registration
    <3> QED
      BY <1>1, <1>2, <3>1, <3>2, <3>3, <3>4 DEF Registration, Live
  <2> QED
    BY <2>1, <2>4 DEF CoordInv
<1>8. RunInv'
  <2> USE DEF RunInv
  <2>1. AgentShape' /\ OutboxShape' /\ Issue' /\ SlotShape'
    BY <1>1, <1>2 DEF AgentShape, OutboxShape, Issue, SlotShape, evidence, agentVars
  <2>2. Fresh' /\ Holding' /\ EndShape'
    BY <1>1, <1>2 DEF Fresh, Holding, EndShape, Tombstone, evidence, agentVars
  <2>3. Removing'
    BY <1>2, NotRemoving DEF Removing, evidence, agentVars
  <2>4. RanShape'
    <3>1. \A x \in Attempts : RunShown(x)' = RunShown(x)
      BY DEF RunShown, evidence, agentVars
    <3>2. \A x \in Attempts : Serving(x)' => RunShown(x)'
      BY <1>3, <3>1 DEF RanShape, Serving
    <3>3. \A x \in picked : Serving(x)'
      BY <1>3 DEF RanShape, Serving, Typed, CoreTyped
    <3>4. Gone /\ st = "reconciliation_required" => runner'[cur] \notin {"busy", "served"}
      <4>1. ASSUME Gone, st = "reconciliation_required" PROVE runner'[cur] \notin {"busy", "served"}
        <5>1. cur \in Attempts /\ ~Serving(cur) /\ ~Live(cur)
          BY <4>1, CurIs DEF RanShape, CoordInv, Registration, Gone
        <5> QED
          BY <1>3, <5>1 DEF Serving
      <4> QED
        BY <4>1
    <3>5. agent.obs \in {"running", "cleaning"} => RunShown(agent.start)'
      BY DEF RanShape, RunShown, evidence, agentVars
    <3> QED
      BY <1>2, <3>2, <3>3, <3>4, <3>5 DEF RanShape, Serving, evidence, agentVars
  <2> QED
    BY <2>1, <2>2, <2>3, <2>4
<1> QED
  BY <1>4, <1>5, <1>7, <1>8

\* RemoveRunner
LEMMA RemoveStep == ASSUME ClaimInv, RemoveRunner PROVE ClaimInv'
<1> USE DEF ClaimInv
<1>1. /\ pc = "removing" /\ pc' = "idle" /\ loc' = NoRead
      /\ UNCHANGED <<epoch, msgs, evidence, agentVars>> /\ UNCHANGED store
  BY DEF RemoveRunner
<1>2. loc.id \in Attempts
  BY <1>1, FencedIs DEF CoordInv, PcShape, RunInv, Removing
<1>3. CASE /\ runner[loc.id] = "idle" /\ runner' = [runner EXCEPT ![loc.id] = "removed"]
           /\ UNCHANGED gen
  BY <1>1, <1>2, <1>3, RegisterStep DEF Regs, Serving
<1>4. CASE UNCHANGED runner /\ gen' \in 1..(MaxFailures + 1)
  <2>1. UNCHANGED <<claim, exec, slot, node, acquire, jit, auth, intent, prep>>
    BY <1>1 DEF store
  <2>2. Typed' /\ msgs' >= msgs
    BY <1>1, <1>4, <2>1, EpochIs, NoReadFields
       DEF Typed, StoreTyped, CoreTyped, AgentTyped, Positions, evidence, agentVars
  <2> QED
    BY <1>1, <1>4, <2>1, <2>2, StillStep
<1>5. gen \in 1..(MaxFailures + 1) /\ (gen <= MaxFailures => gen + 1 \in 1..(MaxFailures + 1))
  BY ClaimConstants DEF Typed, CoreTyped
<1> QED
  BY <1>3, <1>4, <1>5 DEF RemoveRunner

\* A confirmation rests on the current authority, on an absence that was read after
\* the delay, and on the lease of the execution.
LEMMA VerdictMeans ==
  /\ AbsenceVerdict = "confirmed" => Current /\ auth.ripe /\ Confirmable
  /\ AbsenceVerdict = "first" => Current
<1>1. ASSUME NEW k, DecisionVerdict(k) = "confirmed" PROVE auth.ripe /\ Confirmable
  <2>1. CASE auth.kind # k
    BY <1>1, <2>1 DEF DecisionVerdict
  <2>2. CASE auth.kind = k /\ (auth.stage = "issued" \/ auth.gen # gen)
    BY <1>1, <2>2 DEF DecisionVerdict
  <2>3. CASE auth.kind = k /\ ~(auth.stage = "issued" \/ auth.gen # gen)
    BY <1>1, <2>3 DEF DecisionVerdict, DelayElapsed
  <2> QED
    BY <2>1, <2>2, <2>3
<1>2. CASE ~Current
  BY <1>2 DEF AbsenceVerdict
<1>3. CASE Current /\ Unborn
  BY <1>1, <1>3 DEF AbsenceVerdict
<1>4. CASE Current /\ ~Unborn
  BY <1>1, <1>4 DEF AbsenceVerdict
<1> QED
  BY <1>2, <1>3, <1>4

\* The attempt loses its runner and its Start.
LEMMA ClearEffect ==
  ASSUME Typed, Has, Clear, cur' = cur
  PROVE  /\ jit' \in [Attempts -> Rows] /\ row'.state = "reconciled_absent"
         /\ row'.epoch = row.epoch /\ row'.runner = 0 /\ row'.start = FALSE /\ Has' /\ Gone'
         /\ auth' = NoAuthority
<1>1. Absent \in Rows /\ Absent.state = "reconciled_absent" /\ Absent.epoch = row.epoch
      /\ Absent.runner = 0 /\ Absent.start = FALSE
  <2>1. row.epoch \in 0..MaxEpoch /\ 0 \in 0..MaxAttempts
    BY RowIs, ClaimConstants
  <2> QED
    BY <2>1 DEF Absent, Attempt, Rows, JITStates, row
<1>2. jit' \in [Attempts -> Rows] /\ jit'[cur] = Absent
  BY <1>1, CurIs DEF Clear, Typed, StoreTyped
<1> QED
  BY <1>1, <1>2 DEF Clear, row, Has, Gone

\* Nothing runs for an attempt that is declared absent.
LEMMA GoneRuns ==
  ASSUME Typed, RunInv, cur' = cur, run' = run, Gone', net = 0, agent.start = cur => Tombstone,
         st' = "reconciliation_required" => ~Serving(cur), pc' = "idle",
         UNCHANGED <<epoch, evidence, agentVars, exec, slot, runner>>
  PROVE  RunInv'
<1> USE DEF RunInv, evidence, agentVars
<1>1. AgentShape' /\ OutboxShape' /\ SlotShape'
  BY DEF AgentShape, OutboxShape, SlotShape
<1>2. Issue' /\ Fresh' /\ Holding'
  BY DEF Issue, Fresh, Holding, Tombstone
<1>3. EndShape' /\ RanShape'
  BY DEF EndShape, RanShape, RunShown, Serving, Tombstone
<1> QED
  BY <1>1, <1>2, <1>3, NotRemoving

\* The registration of an attempt that is declared absent is gone.
LEMMA GoneRegistration ==
  ASSUME CoordInv, cur' = cur, auth' = NoAuthority, pc = "absent", auth.ripe, pc' = "idle",
         UNCHANGED runner
  PROVE  CoordInv'
<1>1. ~auth'.ripe /\ AuthorityShape' /\ PcShape'
  BY NoAuthorityFields, NoStage DEF PcShape
<1>2. Registration'
  BY <1>1 DEF CoordInv, Registration, Live
<1> QED
  BY <1>1, <1>2 DEF CoordInv

\* The confirmed absence of the current attempt, whatever the claim becomes of it.
LEMMA ConfirmedIs ==
  ASSUME ClaimInv, pc = "absent", AbsenceVerdict = "confirmed"
  PROVE  /\ Fenced /\ Current /\ auth.ripe /\ Confirmable /\ ~Live(cur)
         /\ Has /\ ~Gone /\ cur \in Attempts /\ run \in Execs /\ row.epoch \in 1..epoch
         /\ net = 0 /\ (agent.start = cur => Tombstone) /\ (agent.start > 0 => Tombstone)
<1> USE DEF ClaimInv
<1>1. Fenced
  BY DEF CoordInv, PcShape
<1>2. Current /\ auth.ripe /\ Confirmable
  BY VerdictMeans
<1>3. ~Live(cur)
  BY <1>2 DEF CoordInv, Registration
<1>4. net = 0 /\ (agent.start = cur => Tombstone)
  BY <1>1, <1>2, CurrentMeans
<1>5. agent.start > 0 => Tombstone
  BY <1>4 DEF RunInv, Holding
<1> QED
  BY <1>1, <1>2, <1>3, <1>4, <1>5, FencedIs

\* The row of an attempt that is gone.
LEMMA GoneRow ==
  ASSUME row'.state = "reconciled_absent", row'.epoch \in 1..epoch', row'.runner = 0,
         row'.start = FALSE
  PROVE  RowShape'
  BY DEF RowShape, Nameless, Named

\* A confirmation that leaves the claim with its execution.
LEMMA GoneStep ==
  ASSUME ClaimInv, pc = "absent", AbsenceVerdict = "confirmed", Clear, pc' = "idle",
         NEW s \in {"preparing", "running", "reconciliation_required"}, SetClaim(s),
         s = "reconciliation_required" => ~Serving(cur), intent' = 0, loc' = NoRead,
         node' \in {"active", "draining", "quarantined"},
         UNCHANGED <<exec, slot, acquire, prep>>,
         UNCHANGED <<epoch, msgs, evidence, gen, agentVars, runner>>
  PROVE  ClaimInv'
<1> USE DEF ClaimInv
<1>1. /\ Has /\ run \in Execs /\ row.epoch \in 1..epoch /\ auth.ripe
      /\ net = 0 /\ (agent.start = cur => Tombstone)
  BY ConfirmedIs
<1>2. claim' \in Claims /\ st' = s /\ cur' = cur /\ run' = run
  BY SetClaimEffect DEF ClaimStates
<1>3. /\ jit' \in [Attempts -> Rows] /\ row'.state = "reconciled_absent"
      /\ row'.epoch = row.epoch /\ row'.runner = 0 /\ row'.start = FALSE /\ Has' /\ Gone'
      /\ auth' = NoAuthority
  BY <1>1, <1>2, ClearEffect
<1>4. Typed'
  BY <1>2, <1>3, NoAuthorityFields, NoReadFields, ClaimConstants
     DEF Typed, StoreTyped, CoreTyped, AgentTyped, Positions, evidence, agentVars
<1>5. RowInv'
  <2>1. ClaimShape' /\ Paired'
    BY <1>1, <1>2, <1>3 DEF ClaimShape, Paired, Early, Execs
  <2>2. RowShape'
    BY <1>1, <1>3, GoneRow
  <2>3. Requeue'
    <3>1. acquire.n \in Nat /\ msgs \in Nat /\ Queued \in Nat /\ Queued' = 0
      BY EpochIs DEF Typed, StoreTyped, Acquires, Queued
    <3> QED
      BY <1>2, <3>1 DEF RowInv, Requeue, IntentReadable, PendingShape, st
  <2> QED
    BY <2>1, <2>2, <2>3 DEF RowInv
<1>6. CoordInv'
  BY <1>1, <1>2, <1>3, GoneRegistration
<1>7. RunInv'
  BY <1>1, <1>2, <1>3, GoneRuns
<1> QED
  BY <1>4, <1>5, <1>6, <1>7

\* The lost attempt's execution has ended before, and the Agent's slot is its own.
LEMMA LostJITStep ==
  ASSUME ClaimInv, pc = "absent", AbsenceVerdict = "confirmed", ConfirmLostJIT, pc' = "idle",
         loc' = NoRead, UNCHANGED <<epoch, msgs, evidence, gen, agentVars, runner>>
  PROVE  ClaimInv'
<1> USE DEF ClaimInv
<1>1. /\ RemovalKind = "lost_jit" /\ Clear /\ SetClaim("reconciliation_required")
      /\ exec' = [exec EXCEPT ![run] = hist[cur].end]
      /\ slot' = IF hist[cur].end # "cleanup_failed" /\ slot = run THEN 0 ELSE slot
      /\ node' \in {"active", "draining", "quarantined"} /\ UNCHANGED <<acquire, intent, prep>>
  BY DEF ConfirmLostJIT, Typed, StoreTyped
<1>2. Fenced /\ Current /\ Confirmable /\ Has /\ ~Gone /\ cur \in Attempts /\ run \in Execs
  BY ConfirmedIs
<1>3. hist[cur].end \in Ends /\ exec[run] = hist[cur].end
  <2>1. hist[cur].end # "none"
    BY <1>1, KindMeans DEF Ended
  <2> QED
    BY <1>2, <2>1 DEF RunInv, EndShape, Typed, AgentTyped, Histories
<1>4. slot' = slot
  <2>1. hist[cur].end # "cleanup_failed" => slot # run
    BY <1>1, <1>2, <1>3 DEF Confirmable, Ends, CleanEnds
  <2> QED
    BY <1>1, <2>1
<1>5. exec' = exec
  BY <1>1, <1>2, <1>3 DEF Typed, StoreTyped
<1>6. intent = 0 /\ ~Serving(cur)
  BY <1>1, <1>2, CurrentMeans
<1> QED
  BY <1>1, <1>4, <1>5, <1>6, GoneStep

\* finalizeGitHubUnpickedRequeue: the replacement takes the free slot.
LEMMA ReplacementStep ==
  ASSUME ClaimInv, pc = "absent", AbsenceVerdict = "confirmed",
         RemovalKind = "unpicked_requeue", Clear, intent' = 0, ClaimReplacement,
         pc' = "idle", loc' = NoRead, UNCHANGED node,
         UNCHANGED <<epoch, msgs, evidence, gen, agentVars, runner>>
  PROVE  ClaimInv'
<1> USE DEF ClaimInv
<1>1. Reserve(intent, "pending") /\ NextAcquire("reconciled_pending", intent)
      /\ ~LatePickup
  BY DEF ClaimReplacement
<1>2. /\ Confirmable /\ Has /\ row.epoch \in 1..epoch /\ auth.ripe
      /\ net = 0 /\ (agent.start > 0 => Tombstone)
  BY ConfirmedIs
<1>3. slot = 0 /\ acquire.state = "acquired"
  BY <1>1, <1>2 DEF Confirmable, AcquireSettled
<1>4. intent \in Execs
  BY KindMeans, ClaimConstants DEF Typed, StoreTyped, Execs
<1>5. /\ claim' \in Claims /\ exec' \in [Execs -> RunStates] /\ st' = "pending" /\ cur' = cur
      /\ slot' = intent /\ prep' = 0
  BY <1>1, <1>4, ReserveEffect DEF ClaimStates
<1>6. /\ jit' \in [Attempts -> Rows] /\ row'.state = "reconciled_absent"
      /\ row'.epoch = row.epoch /\ row'.runner = 0 /\ row'.start = FALSE /\ Has' /\ Gone'
      /\ auth' = NoAuthority
  BY <1>2, <1>5, ClearEffect
<1>7. /\ acquire.n \in Nat /\ acquire.n >= 1 /\ acquire.n + 1 <= msgs /\ msgs \in Nat
      /\ acquire.n + 1 <= MaxMessages
  <2>1. acquire.n \in Nat /\ msgs \in Nat /\ msgs <= MaxMessages /\ MaxMessages \in Nat
    BY ClaimConstants DEF Typed, StoreTyped, CoreTyped, Acquires
  <2>2. Queued = 1
    BY <1>4 DEF Queued, Execs
  <2>3. acquire.n + Queued <= msgs /\ acquire.n >= 1
    BY <1>3 DEF RowInv, Requeue
  <2> QED
    BY <2>1, <2>2, <2>3
<1>8. acquire' \in Acquires /\ acquire'.n = acquire.n + 1 /\ acquire'.state = "reconciled_pending"
  BY <1>1, <1>7, NextAcquireEffect DEF Typed, StoreTyped
<1>9. Typed'
  BY <1>4, <1>5, <1>6, <1>8, NoAuthorityFields, NoReadFields, ClaimConstants
     DEF Typed, StoreTyped, CoreTyped, AgentTyped, Positions, Execs, evidence, agentVars
<1>10. RowInv'
  <2>1. RowShape'
    BY <1>2, <1>6, GoneRow
  <2>2. IntentReadable' /\ Queued' = 0
    BY DEF IntentReadable, Queued
  <2>3. PendingShape'
    BY <1>6, <1>7, <1>8 DEF PendingShape, row
  <2>4. Requeue'
    BY <1>7, <1>8, <2>2, <2>3 DEF Requeue
  <2> QED
    BY <1>1, <1>4, <1>6, <2>1, <2>4, ReserveRows
<1>11. CoordInv'
  BY <1>2, <1>5, <1>6, GoneRegistration
<1>12. RunInv'
  BY <1>1, <1>2, <1>3, <1>4, <1>6, ReserveRuns
<1> QED
  BY <1>9, <1>10, <1>11, <1>12

\* MarkGitHubJITReconciledAbsent
LEMMA AbsentStep == ASSUME ClaimInv, MarkReconciledAbsent PROVE ClaimInv'
<1> USE DEF ClaimInv
<1>1. /\ pc = "absent" /\ pc' = "idle" /\ loc' = NoRead
      /\ UNCHANGED <<epoch, msgs, evidence, gen, agentVars, runner>>
  BY DEF MarkReconciledAbsent
<1>2. Fenced
  BY <1>1 DEF CoordInv, PcShape
<1>3. CASE AbsenceVerdict = "confirmed" /\ ConfirmAmbiguity
  <2>1. /\ RemovalKind = "ambiguity" /\ Clear /\ SetClaim("preparing")
        /\ UNCHANGED <<exec, slot, node, acquire, intent, prep>>
    BY <1>3 DEF ConfirmAmbiguity
  <2>2. intent' = 0 /\ node' \in {"active", "draining", "quarantined"}
    BY <2>1, KindMeans DEF Typed, StoreTyped
  <2> QED
    BY <1>1, <1>3, <2>1, <2>2, GoneStep
<1>4. CASE AbsenceVerdict = "confirmed" /\ ConfirmLostJIT
  BY <1>1, <1>4, LostJITStep
<1>5. CASE AbsenceVerdict = "confirmed" /\ ConfirmRequeue
  <2>1. RemovalKind = "unpicked_requeue" /\ Clear /\ intent' = 0 /\ UNCHANGED node
    BY <1>5 DEF ConfirmRequeue
  <2>2. CASE ClaimReplacement
    BY <1>1, <1>5, <2>1, <2>2, ReplacementStep
  <2>3. CASE DiscardReplacement
    <3>1. SetClaim("running") /\ UNCHANGED <<exec, slot, acquire, prep>>
      BY <2>3 DEF DiscardReplacement
    <3>2. node' \in {"active", "draining", "quarantined"}
      BY <2>1 DEF Typed, StoreTyped
    <3> QED
      BY <1>1, <1>5, <2>1, <3>1, <3>2, GoneStep
  <2> QED
    BY <1>5, <2>2, <2>3 DEF ConfirmRequeue
<1>6. CASE UNCHANGED store
  <2>1. UNCHANGED <<claim, exec, slot, node, acquire, jit, auth, intent, prep>>
    BY <1>6 DEF store
  <2>2. Typed' /\ msgs' >= msgs
    BY <1>1, <2>1, EpochIs, NoReadFields
       DEF Typed, StoreTyped, CoreTyped, AgentTyped, Positions, evidence, agentVars
  <2> QED
    BY <1>1, <2>1, <2>2, StillStep
<1>7. ASSUME AbsenceVerdict = "first", NEW k \in {"generation", RemovalKind},
             auth' = Authority(k, "absence", View(snap), epoch, gen),
             UNCHANGED <<claim, exec, slot, node, acquire, jit, intent, prep>>
      PROVE  ClaimInv'
  <2>1. /\ st' = st /\ cur' = cur /\ run' = run /\ row' = row
        /\ Has' = Has /\ Gone' = Gone /\ Fenced' = Fenced
    BY <1>7, Same
  <2>2. auth' \in Auths /\ ~auth'.ripe
    <3>1. k \in AuthKinds /\ "absence" \in Stages /\ View(snap) \in Views
          /\ epoch \in 0..MaxEpoch /\ gen \in 0..(MaxFailures + 1)
      BY <1>7, VerdictMeans, KindMeans, ViewIs, EpochIs, ClaimConstants
         DEF Current, AuthKinds, Stages, Typed, CoreTyped
    <3> QED
      BY <1>7, <3>1, AuthorityFields
  <2>3. Typed'
    BY <1>1, <1>7, <2>2, NoReadFields
       DEF Typed, StoreTyped, CoreTyped, AgentTyped, Positions, evidence, agentVars
  <2>4. RowInv'
    BY <1>1, <1>7, <2>3, EpochIs, RowsKept
  <2>5. CoordInv'
    <3>1. PcShape' /\ Registration'
      BY <1>1, <1>7, <2>1, <2>2, PcKept, RegistrationKept DEF CoordInv
    <3>2. AuthorityShape'
      BY <1>2, <2>1, <2>2, FencedIs DEF AuthorityShape
    <3> QED
      BY <3>1, <3>2 DEF CoordInv
  <2>6. RunInv'
    <3>1. Quiet /\ Adopted
      BY <1>1, <1>7, <2>1 DEF Quiet, Adopted
    <3> QED
      BY <1>1, <2>1, <3>1, RunKept, NotRemoving
  <2> QED
    BY <2>3, <2>4, <2>5, <2>6
<1>8. \/ AbsenceVerdict = "confirmed" /\ (ConfirmAmbiguity \/ ConfirmLostJIT \/ ConfirmRequeue)
      \/ /\ AbsenceVerdict = "first"
         /\ \E k \in {"generation", RemovalKind} :
               auth' = Authority(k, "absence", View(snap), epoch, gen)
         /\ UNCHANGED <<claim, exec, slot, node, acquire, jit, intent, prep>>
      \/ UNCHANGED store
  BY DEF MarkReconciledAbsent
<1> QED
  BY <1>3, <1>4, <1>5, <1>6, <1>7, <1>8

\* The confirmation delay passes after the last request has landed.
LEMMA DelayStep == ASSUME ClaimInv, DelayPasses PROVE ClaimInv'
<1> USE DEF ClaimInv
<1>1. /\ auth.stage = "absence" /\ runner[cur] # "requested" /\ pc # "absent"
      /\ auth' = [auth EXCEPT !.ripe = TRUE]
      /\ UNCHANGED <<epoch, msgs, evidence, gen, pc, loc, agentVars, runner>>
      /\ UNCHANGED <<claim, exec, slot, node, acquire, jit, intent, prep>>
  BY DEF DelayPasses
<1>2. /\ st' = st /\ cur' = cur /\ run' = run /\ row' = row
      /\ Has' = Has /\ Gone' = Gone /\ Fenced' = Fenced
  BY <1>1, Same
<1>3. auth' \in Auths /\ auth'.stage = auth.stage /\ auth'.ripe
  BY <1>1 DEF Typed, StoreTyped, Auths
<1>4. Typed'
  BY <1>1, <1>3 DEF Typed, StoreTyped, CoreTyped, AgentTyped, evidence, agentVars
<1>5. RowInv'
  BY <1>1, <1>4, EpochIs, RowsKept
<1>6. CoordInv'
  <2>1. PcShape'
    BY <1>1, PcKept DEF CoordInv
  <2>2. AuthorityShape'
    BY <1>1, <1>2, <1>3 DEF CoordInv, AuthorityShape
  <2>3. Registration'
    BY <1>1, <1>2 DEF CoordInv, Registration, Live
  <2> QED
    BY <2>1, <2>2, <2>3 DEF CoordInv
<1>7. RunInv'
  <2>1. Quiet /\ Adopted
    BY <1>1, <1>2 DEF Quiet, Adopted
  <2>2. Removing'
    BY <1>1, <1>2 DEF RunInv, Removing, evidence, agentVars
  <2> QED
    BY <1>1, <1>2, <2>1, <2>2, RunKept DEF RunInv, Issue
<1> QED
  BY <1>4, <1>5, <1>6, <1>7

-----------------------------------------------------------------------------
(* The Agent, its session, and GitHub *)

\* The claim's rows and registrations do not depend on the Agent's side.
LEMMA StoreStill ==
  ASSUME ClaimInv, Typed', UNCHANGED <<claim, jit, acquire, intent, prep, auth>>,
         UNCHANGED <<epoch, msgs, pc, runner>>
  PROVE  RowInv' /\ CoordInv'
<1> USE DEF ClaimInv
<1>1. st' = st /\ cur' = cur /\ Gone' = Gone
  BY Same
<1>2. RowInv'
  BY EpochIs, RowsKept
<1>3. CoordInv'
  BY <1>1, PcKept, AuthorityKept, RegistrationKept DEF CoordInv
<1> QED
  BY <1>2, <1>3

\* A Start on the wire is accepted by the Agent that holds the prepared execution.
LEMMA AcceptsStep == ASSUME ClaimInv, AgentAccepts PROVE ClaimInv'
<1> USE DEF ClaimInv
<1>1. /\ net > 0 /\ agent.obs = "preparing" /\ agent.start = 0
      /\ agent' = [agent EXCEPT !.start = net] /\ net' = 0
      /\ UNCHANGED <<epoch, msgs, evidence, gen, pc, loc, outbox, runner>>
      /\ UNCHANGED <<claim, exec, slot, node, acquire, jit, auth, intent, prep>>
  BY DEF AgentAccepts, store
<1>2. /\ st' = st /\ cur' = cur /\ run' = run /\ row' = row
      /\ Has' = Has /\ Gone' = Gone /\ Fenced' = Fenced
  BY <1>1, Same
<1>3. /\ agent' \in Views /\ agent'.start = net /\ agent'.exec = agent.exec
      /\ agent'.obs = "preparing"
  BY <1>1 DEF Typed, AgentTyped, Views
<1>4. Typed'
  BY <1>1, <1>3, ClaimConstants DEF Typed, StoreTyped, CoreTyped, AgentTyped, evidence
<1>5. RowInv' /\ CoordInv'
  BY <1>1, <1>4, StoreStill
<1>6. RunInv'
  <2> USE DEF RunInv, evidence
  <2>1. net = cur /\ ~Gone /\ ~hist[net].ran /\ hist[net].end = "none"
        /\ (snap.epoch = epoch => row.epoch = epoch) /\ outbox = <<>> /\ net \in issued
    BY <1>1 DEF Fresh, OutboxShape, Issue
  <2>2. agent.exec = run
    BY <1>1 DEF SlotShape, AgentShape, Occupied
  <2>3. AgentShape' /\ OutboxShape'
    BY <1>1, <1>3, <2>1 DEF AgentShape, OutboxShape
  <2>4. Issue' /\ Fresh'
    BY <1>1, <1>2, <1>3, <2>1 DEF Issue, Fresh
  <2>5. Holding'
    <3>1. ~(epoch > row.epoch /\ snap.epoch = epoch)
      BY <2>1, EpochIs
    <3> QED
      BY <1>1, <1>2, <1>3, <2>1, <2>2, <3>1 DEF Holding
  <2>6. EndShape'
    BY <1>1, <1>2, <1>3, <2>1 DEF EndShape, Tombstone
  <2>7. SlotShape'
    BY <1>1, <1>2, <1>3 DEF SlotShape, Occupied
  <2>8. RanShape'
    BY <1>1, <1>2, <1>3, <2>1 DEF RanShape, RunShown, Serving
  <2>9. Removing'
    BY <1>1, <1>2 DEF Removing
  <2> QED
    BY <2>3, <2>4, <2>5, <2>6, <2>7, <2>8, <2>9
<1> QED
  BY <1>4, <1>5, <1>6

\* What the Agent reports is appended to its outbox.
LEMMA ReportEffect ==
  ASSUME Typed, NEW s \in {"running", "released", "cleanup_failed"}, Report(s)
  PROVE  /\ agent' \in Views /\ agent'.start = agent.start /\ agent'.exec = agent.exec
         /\ agent'.obs = s /\ outbox' \in Seq(Updates) /\ Len(outbox) \in Nat
         /\ Len(outbox') = Len(outbox) + 1 /\ outbox' # <<>>
         /\ outbox'[Len(outbox')].state = s /\ outbox'[Len(outbox')].start = agent.start
         /\ \A i \in 1..Len(outbox) : outbox'[i] = outbox[i]
<1>1. agent \in Views /\ outbox \in Seq(Updates)
  BY DEF Typed, AgentTyped
<1>2. /\ agent' \in Views /\ agent'.start = agent.start /\ agent'.exec = agent.exec
      /\ agent'.obs = s
  BY <1>1 DEF Report, Views, RunStates, Ends, CleanEnds
<1> DEFINE u == [start |-> agent.start, state |-> s]
<1>3. u \in Updates /\ u.start = agent.start /\ u.state = s /\ outbox' = Append(outbox, u)
  BY <1>1 DEF Report, Updates, Views
<1> HIDE DEF u
<1>4. /\ outbox' \in Seq(Updates) /\ Len(outbox) \in Nat /\ Len(outbox') = Len(outbox) + 1
      /\ outbox'[Len(outbox')] = u /\ \A i \in 1..Len(outbox) : outbox'[i] = outbox[i]
  BY <1>1, <1>3
<1>5. outbox' # <<>>
  BY <1>4
<1> QED
  BY <1>2, <1>3, <1>4, <1>5

\* The Agent moves on with the Start it holds.
LEMMA AgentMoves ==
  ASSUME ClaimInv, Typed', agent.obs \in {"preparing", "running", "cleaning"}, agent.start > 0,
         agent'.start = agent.start, agent'.exec = agent.exec,
         agent'.obs \in {"running", "cleaning", "released", "cleanup_failed"},
         OutboxShape', agent'.obs = "cleanup_failed" => outbox' # <<>>,
         \A a \in Attempts : RunShown(a) => RunShown(a)',
         agent'.obs \in {"running", "cleaning"} => RunShown(agent.start)',
         UNCHANGED <<epoch, msgs, evidence, gen, pc, loc, net, runner>>, UNCHANGED store
  PROVE  ClaimInv'
<1> USE DEF ClaimInv
<1>1. UNCHANGED <<claim, exec, slot, node, acquire, jit, auth, intent, prep>>
  BY DEF store
<1>2. /\ st' = st /\ cur' = cur /\ run' = run /\ row' = row
      /\ Has' = Has /\ Gone' = Gone /\ Fenced' = Fenced
  BY <1>1, Same
<1>3. RowInv' /\ CoordInv'
  BY <1>1, StoreStill
<1>4. RunInv'
  <2> USE DEF RunInv, evidence
  <2>1. agent.start = cur /\ ~Tombstone /\ cur \in Attempts
    BY CurIs DEF Holding, Tombstone, Has
  <2>2. AgentShape'
    BY DEF AgentShape
  <2>3. Issue' /\ Fresh'
    BY <1>1, <1>2 DEF Issue, Fresh
  <2>4. Holding'
    BY <1>2, <2>1 DEF Holding
  <2>5. EndShape'
    BY <1>1, <1>2, <2>1 DEF EndShape
  <2>6. SlotShape'
    BY <1>1, <1>2 DEF SlotShape, Occupied
  <2>7. RanShape'
    BY <1>1, <1>2 DEF RanShape, Serving
  <2>8. Removing'
    BY <1>2, <2>1 DEF Removing, Ends, CleanEnds
  <2> QED
    BY <2>2, <2>3, <2>4, <2>5, <2>6, <2>7, <2>8
<1> QED
  BY <1>3, <1>4

LEMMA StartsStep == ASSUME ClaimInv, AgentStarts PROVE ClaimInv'
<1> USE DEF ClaimInv
<1>1. /\ agent.start > 0 /\ agent.obs = "preparing"
      /\ UNCHANGED <<epoch, msgs, evidence, gen, pc, loc, net, runner>> /\ UNCHANGED store
  BY DEF AgentStarts
<1>2. PICK s \in {"running", "released", "cleanup_failed"} : Report(s)
  BY DEF AgentStarts
<1>3. /\ agent' \in Views /\ agent'.start = agent.start /\ agent'.exec = agent.exec
      /\ agent'.obs = s /\ outbox' \in Seq(Updates)
      /\ Len(outbox') = Len(outbox) + 1 /\ outbox' # <<>>
      /\ outbox'[Len(outbox')].state = s /\ outbox'[Len(outbox')].start = agent.start
  BY <1>2, ReportEffect
<1>4. outbox = <<>> /\ Len(outbox') = 1
  BY <1>1, <1>3 DEF RunInv, OutboxShape
<1>5. Typed'
  BY <1>1, <1>3, StoreTypedKept DEF Typed, CoreTyped, AgentTyped, evidence
<1>6. OutboxShape'
  BY <1>1, <1>2, <1>3, <1>4 DEF OutboxShape
<1>7. \A a \in Attempts : RunShown(a) => RunShown(a)'
  BY <1>1, <1>4 DEF RunShown, evidence
<1>8. s = "running" => RunShown(agent.start)'
  BY <1>1, <1>3, <1>4 DEF RunShown
<1> QED
  BY <1>1, <1>2, <1>3, <1>5, <1>6, <1>7, <1>8, AgentMoves

LEMMA CleansStep == ASSUME ClaimInv, AgentCleans PROVE ClaimInv'
<1> USE DEF ClaimInv
<1>1. /\ agent.obs = "running" /\ agent' = [agent EXCEPT !.obs = "cleaning"] /\ outbox' = outbox
      /\ UNCHANGED <<epoch, msgs, evidence, gen, pc, loc, net, runner>> /\ UNCHANGED store
  BY DEF AgentCleans
<1>2. /\ agent' \in Views /\ agent'.start = agent.start /\ agent'.exec = agent.exec
      /\ agent'.obs = "cleaning"
  BY <1>1 DEF Typed, AgentTyped, Views, RunStates
<1>3. agent.start > 0 /\ RunShown(agent.start)
  BY <1>1 DEF RunInv, AgentShape, RanShape
<1>4. Typed'
  BY <1>1, <1>2, StoreTypedKept DEF Typed, CoreTyped, AgentTyped, evidence
<1>5. OutboxShape'
  BY <1>1, <1>2 DEF RunInv, OutboxShape
<1>6. (\A a \in Attempts : RunShown(a) => RunShown(a)') /\ RunShown(agent.start)'
  BY <1>1, <1>2, <1>3 DEF RunShown, evidence
<1> QED
  BY <1>1, <1>2, <1>3, <1>4, <1>5, <1>6, AgentMoves

LEMMA EndsStep == ASSUME ClaimInv, AgentEnds PROVE ClaimInv'
<1> USE DEF ClaimInv
<1>1. /\ agent.obs = "cleaning"
      /\ UNCHANGED <<epoch, msgs, evidence, gen, pc, loc, net, runner>> /\ UNCHANGED store
  BY DEF AgentEnds
<1>2. PICK s \in {"released", "cleanup_failed"} : Report(s)
  BY DEF AgentEnds
<1>3. /\ agent' \in Views /\ agent'.start = agent.start /\ agent'.exec = agent.exec
      /\ agent'.obs = s /\ outbox' \in Seq(Updates) /\ Len(outbox) \in Nat
      /\ Len(outbox') = Len(outbox) + 1 /\ outbox' # <<>>
      /\ outbox'[Len(outbox')].state = s /\ outbox'[Len(outbox')].start = agent.start
      /\ \A i \in 1..Len(outbox) : outbox'[i] = outbox[i]
  BY <1>2, ReportEffect
<1>4. agent.start > 0
  BY <1>1 DEF RunInv, AgentShape
<1>5. Typed'
  BY <1>1, <1>3, StoreTypedKept DEF Typed, CoreTyped, AgentTyped, evidence
<1>6. \A i \in 1..Len(outbox) : outbox'[i].start = agent.start /\ outbox'[i].state = "running" /\ i = 1
  BY <1>1, <1>3 DEF RunInv, OutboxShape
<1>7. OutboxShape'
  <2>1. ASSUME NEW i \in 1..Len(outbox')
        PROVE  /\ outbox'[i].start = agent'.start /\ agent'.start > 0
               /\ outbox'[i].state \in {"running", agent'.obs}
               /\ outbox'[i].state = "running" => i = 1
               /\ outbox'[i].state # "running" => i = Len(outbox')
    <3>1. CASE i \in 1..Len(outbox)
      BY <1>3, <1>4, <1>6, <3>1
    <3>2. CASE i = Len(outbox')
      BY <1>2, <1>3, <1>4, <3>2
    <3> QED
      BY <1>3, <3>1, <3>2
  <2> QED
    BY <1>2, <1>3, <2>1 DEF OutboxShape
<1>8. \A a \in Attempts : RunShown(a) => RunShown(a)'
  <2>1. outbox # <<>> => outbox'[1] = outbox[1]
    <3>1. outbox # <<>> => 1 \in 1..Len(outbox)
      BY DEF Typed, AgentTyped
    <3> QED
      BY <1>3, <3>1
  <2> QED
    BY <1>1, <1>3, <2>1 DEF RunShown, evidence
<1> QED
  BY <1>1, <1>2, <1>3, <1>4, <1>5, <1>7, <1>8, AgentMoves

\* A new session, whose snapshot replaces what the old one still carried.
LEMMA ReconnectsStep == ASSUME ClaimInv, AgentReconnects PROVE ClaimInv'
<1> USE DEF ClaimInv
<1>1. /\ snap' = [epoch |-> epoch, exec |-> agent.exec, start |-> agent.start, obs |-> agent.obs]
      /\ net' = 0 /\ node' \in {node, "quarantined"}
      /\ UNCHANGED <<epoch, msgs, picked, issued, hist, gen, pc, loc, agent, outbox, runner>>
      /\ UNCHANGED <<claim, exec, slot, acquire, jit, auth, intent, prep>>
  BY DEF AgentReconnects
<1>2. /\ st' = st /\ cur' = cur /\ run' = run /\ row' = row
      /\ Has' = Has /\ Gone' = Gone /\ Fenced' = Fenced
  BY <1>1, Same
<1>3. snap' \in Snapshots /\ snap'.epoch = epoch /\ snap'.start = agent.start
  BY <1>1, EpochIs DEF Typed, AgentTyped, Views, Snapshots
<1>4. Typed'
  BY <1>1, <1>3, ClaimConstants DEF Typed, StoreTyped, CoreTyped, AgentTyped
<1>5. RowInv' /\ CoordInv'
  BY <1>1, <1>4, StoreStill
<1>6. RunInv'
  <2> USE DEF RunInv
  <2>1. AgentShape' /\ OutboxShape' /\ SlotShape'
    BY <1>1, <1>2 DEF AgentShape, OutboxShape, SlotShape
  <2>2. Issue' /\ Fresh'
    BY <1>1, <1>2, <1>3, EpochIs DEF Issue, Fresh
  <2>3. Holding'
    BY <1>1, <1>2, <1>3 DEF Holding, Tombstone
  <2>4. EndShape' /\ RanShape'
    BY <1>1, <1>2 DEF EndShape, RanShape, RunShown, Serving, Tombstone
  <2>5. Removing'
    BY <1>1, <1>2 DEF Removing
  <2> QED
    BY <2>1, <2>2, <2>3, <2>4, <2>5
<1> QED
  BY <1>4, <1>5, <1>6

\* What RecordUpdate does with the oldest update of the current attempt's Start.
LEMMA UpdateEffect ==
  ASSUME ClaimInv, RecordUpdate
  PROVE  \E s \in {"running", "released", "cleanup_failed"} :
           /\ outbox # <<>> /\ s = outbox[1].state /\ agent.start = cur /\ ~Gone /\ Has
           /\ agent.exec = run /\ cur \in Attempts /\ run \in Execs /\ cur \in issued
           /\ s \in {"running", agent.obs}
           /\ s # "running" => Len(outbox) = 1
           /\ exec' = [exec EXCEPT ![run] = s] /\ outbox' = Tail(outbox)
           /\ s = "released" => slot = run /\ slot' = 0 /\ agent' = Idle
           /\ s # "released" => slot' = slot /\ agent' = agent
           /\ hist' \in [Attempts -> Histories]
           /\ \A a \in Attempts \ {cur} : hist'[a] = hist[a]
           /\ s = "running" => hist'[cur].ran /\ hist'[cur].end = hist[cur].end
           /\ s # "running" => hist'[cur].ran = hist[cur].ran /\ hist'[cur].end = s
           /\ node' \in {node, "quarantined"}
           /\ UNCHANGED <<epoch, msgs, picked, issued, snap, gen, pc, loc, net, runner>>
           /\ UNCHANGED <<claim, acquire, jit, auth, intent, prep>>
<1> USE DEF ClaimInv
<1> DEFINE u == Head(outbox)
<1>1. /\ outbox # <<>> /\ u = outbox[1] /\ u.state \in {"running", "released", "cleanup_failed"}
      /\ 1 \in 1..Len(outbox)
  <2>1. outbox \in Seq(Updates) /\ outbox # <<>>
    BY DEF RecordUpdate, Typed, AgentTyped
  <2>2. u = outbox[1] /\ 1 \in 1..Len(outbox) /\ outbox[1] \in Updates
    BY <2>1
  <2> QED
    BY <2>1, <2>2 DEF Updates
<1>2. /\ u.start = agent.start /\ agent.start > 0 /\ u.state \in {"running", agent.obs}
      /\ u.state # "running" => Len(outbox) = 1
  BY <1>1 DEF RunInv, OutboxShape
<1>3. agent.start = cur /\ ~Gone /\ Has /\ agent.exec = run /\ cur \in Attempts /\ cur \in issued
  BY <1>1, <1>2, CurIs DEF RunInv, Holding, Tombstone, Issue, Has
<1>4. run \in Execs
  BY <1>3, CurIs DEF RowInv, ClaimShape, Has
<1>5. /\ exec' = [exec EXCEPT ![run] = u.state] /\ outbox' = Tail(outbox)
      /\ u.state \in CleanEnds => slot = run
      /\ slot' = IF u.state \in CleanEnds THEN 0 ELSE slot
      /\ agent' = IF u.state \in CleanEnds THEN Idle ELSE agent
      /\ node' \in {node, "quarantined"}
      /\ hist' = [hist EXCEPT ![cur] = IF u.state = "running" THEN [hist[cur] EXCEPT !.ran = TRUE]
                                             ELSE [hist[cur] EXCEPT !.end = u.state]]
      /\ UNCHANGED <<epoch, msgs, picked, issued, snap, gen, pc, loc, net, runner>>
      /\ UNCHANGED <<claim, acquire, jit, auth, intent, prep>>
  BY <1>2, <1>3 DEF RecordUpdate, FreesSlot
<1> HIDE DEF u
<1> DEFINE h == IF u.state = "running" THEN [hist[cur] EXCEPT !.ran = TRUE]
                                       ELSE [hist[cur] EXCEPT !.end = u.state]
<1>6. hist \in [Attempts -> Histories] /\ hist[cur] \in Histories
  BY <1>3 DEF Typed, AgentTyped
<1>7. /\ h \in Histories
      /\ u.state = "running" => h.ran /\ h.end = hist[cur].end
      /\ u.state # "running" => h.ran = hist[cur].ran /\ h.end = u.state
  BY <1>1, <1>6 DEF Histories, Ends, CleanEnds
<1>8. hist' = [hist EXCEPT ![cur] = h]
  BY <1>5
<1> HIDE DEF h
<1>9. hist' \in [Attempts -> Histories] /\ hist'[cur] = h
      /\ \A a \in Attempts \ {cur} : hist'[a] = hist[a]
  BY <1>3, <1>6, <1>7, <1>8
<1>10. u.state \in CleanEnds <=> u.state = "released"
  BY <1>1 DEF CleanEnds
<1> QED
  BY <1>1, <1>2, <1>3, <1>4, <1>5, <1>7, <1>9, <1>10

\* RecordAgentExecutionUpdate
LEMMA UpdateStep == ASSUME ClaimInv, RecordUpdate PROVE ClaimInv'
<1> USE DEF ClaimInv
<1>1. PICK s \in {"running", "released", "cleanup_failed"} :
           /\ outbox # <<>> /\ s = outbox[1].state /\ agent.start = cur /\ ~Gone /\ Has
           /\ agent.exec = run /\ cur \in Attempts /\ run \in Execs /\ cur \in issued
           /\ s \in {"running", agent.obs}
           /\ s # "running" => Len(outbox) = 1
           /\ exec' = [exec EXCEPT ![run] = s] /\ outbox' = Tail(outbox)
           /\ s = "released" => slot = run /\ slot' = 0 /\ agent' = Idle
           /\ s # "released" => slot' = slot /\ agent' = agent
           /\ hist' \in [Attempts -> Histories]
           /\ \A a \in Attempts \ {cur} : hist'[a] = hist[a]
           /\ s = "running" => hist'[cur].ran /\ hist'[cur].end = hist[cur].end
           /\ s # "running" => hist'[cur].ran = hist[cur].ran /\ hist'[cur].end = s
           /\ node' \in {node, "quarantined"}
           /\ UNCHANGED <<epoch, msgs, picked, issued, snap, gen, pc, loc, net, runner>>
           /\ UNCHANGED <<claim, acquire, jit, auth, intent, prep>>
  BY UpdateEffect
<1>2. /\ st' = st /\ cur' = cur /\ run' = run /\ row' = row
      /\ Has' = Has /\ Gone' = Gone /\ Fenced' = Fenced
  BY <1>1, Same
<1>3. Idle \in Views /\ Idle.start = 0 /\ Idle.exec = 0 /\ Idle.obs = "none"
  BY ClaimConstants DEF Idle, Views, RunStates
<1>4. /\ exec' \in [Execs -> RunStates] /\ exec'[run] = s
      /\ \A x \in Execs \ {run} : exec'[x] = exec[x]
  BY <1>1 DEF Typed, StoreTyped, RunStates, Ends, CleanEnds
<1>5. /\ outbox' \in Seq(Updates) /\ Len(outbox') = Len(outbox) - 1 /\ Len(outbox) \in Nat
      /\ \A i \in 1..Len(outbox') : outbox'[i] = outbox[i + 1] /\ i + 1 \in 1..Len(outbox)
      /\ Len(outbox) = 1 => outbox' = <<>>
  <2>1. outbox \in Seq(Updates) /\ outbox # <<>> /\ outbox' = Tail(outbox)
    BY <1>1 DEF Typed, AgentTyped
  <2> QED
    BY <2>1
<1>6. Typed'
  <2>1. slot' \in 0..MaxMessages /\ node' \in {"active", "draining", "quarantined"}
    BY <1>1, ClaimConstants DEF Typed, StoreTyped
  <2>2. agent' \in Views
    BY <1>1, <1>3 DEF Typed, AgentTyped
  <2>3. StoreTyped'
    BY <1>1, <1>4, <2>1 DEF Typed, StoreTyped
  <2>4. CoreTyped'
    BY <1>1 DEF Typed, CoreTyped
  <2>5. AgentTyped'
    BY <1>1, <1>5, <2>2 DEF Typed, AgentTyped
  <2> QED
    BY <2>3, <2>4, <2>5 DEF Typed
<1>7. RowInv' /\ CoordInv'
  BY <1>1, <1>6, StoreStill
<1>8. net = 0 /\ hist[cur].end = "none" /\ agent.start > 0
  <2>1. hist[cur].end = "none"
    BY <1>1 DEF RunInv, EndShape, Tombstone
  <2>2. net = 0 /\ agent.start > 0
    BY <1>1 DEF RunInv, Fresh, Typed, AgentTyped, Has
  <2> QED
    BY <2>1, <2>2
<1>9. outbox' # <<>> => agent.obs \notin {"none", "preparing", "running", "cleaning"}
  <2>1. ASSUME outbox' # <<>> PROVE Len(outbox) >= 2 /\ 2 \in 1..Len(outbox)
    <3>1. Len(outbox') # 0
      BY <1>5, <2>1
    <3> QED
      BY <1>5, <3>1
  <2>2. ASSUME outbox' # <<>> PROVE outbox[2].state # "running"
    BY <2>1, <2>2 DEF RunInv, OutboxShape
  <2>3. outbox' # <<>> => outbox[2].state = agent.obs
    BY <2>1, <2>2 DEF RunInv, OutboxShape
  <2>4. outbox' # <<>> => outbox[2].state \in {"running", "released", "cleanup_failed"}
    <3>1. outbox' # <<>> => outbox[2] \in Updates
      BY <2>1 DEF Typed, AgentTyped
    <3> QED
      BY <3>1 DEF Updates
  <2> QED
    BY <2>2, <2>3, <2>4
<1>10. RunInv'
  <2> USE DEF RunInv
  <2>1. AgentShape'
    BY <1>1, <1>3 DEF AgentShape
  <2>2. OutboxShape'
    <3>1. CASE s # "running"
      <4>1. outbox' = <<>>
        BY <1>1, <1>5, <3>1
      <4> QED
        BY <4>1 DEF OutboxShape
    <3>2. CASE s = "running"
      <4>1. ASSUME NEW i \in 1..Len(outbox')
            PROVE  /\ outbox'[i].start = agent.start
                   /\ outbox'[i].state \in {"running", agent.obs}
                   /\ outbox'[i].state # "running" /\ i = Len(outbox')
        <5>1. outbox'[i] = outbox[i + 1] /\ i + 1 \in 1..Len(outbox) /\ i + 1 # 1
          BY <1>5
        <5>2. /\ outbox[i + 1].start = agent.start
              /\ outbox[i + 1].state \in {"running", agent.obs}
              /\ outbox[i + 1].state # "running" /\ i + 1 = Len(outbox)
          BY <5>1 DEF OutboxShape
        <5> QED
          BY <1>5, <5>1, <5>2
      <4>2. agent' = agent
        BY <1>1, <3>2
      <4>3. agent.obs \in {"none", "preparing", "cleaning"} => outbox' = <<>>
        BY <1>9
      <4> QED
        BY <1>8, <4>1, <4>2, <4>3 DEF OutboxShape
    <3> QED
      BY <3>1, <3>2
  <2>3. Issue'
    <3>1. \A a \in Attempts : hist'[a].ran \/ hist'[a].end # "none" => a \in issued
      BY <1>1 DEF Issue
    <3>2. agent'.start > 0 => agent'.start \in issued
      BY <1>1, <1>3
    <3> QED
      BY <1>1, <1>2, <3>1, <3>2 DEF Issue
  <2>4. Fresh'
    BY <1>1, <1>2, <1>8 DEF Fresh
  <2>5. Holding'
    <3>1. CASE s = "released"
      BY <1>1, <1>3, <3>1 DEF Holding
    <3>2. CASE s # "released"
      <4>1. snap.epoch = epoch /\ epoch > row.epoch => snap.start = cur
        BY <1>1, <1>8 DEF Holding, Tombstone
      <4> QED
        BY <1>1, <1>2, <3>2, <4>1 DEF Holding
    <3> QED
      BY <3>1, <3>2
  <2>6. EndShape'
    <3>1. \A a \in Attempts \ {cur} : agent'.start # a
      BY <1>1, <1>3 DEF Attempts
    <3>2. hist'[cur].end # "none" => agent'.start # cur \/ Tombstone'
      <4>1. CASE s = "cleanup_failed"
        BY <1>1, <1>5, <4>1 DEF Tombstone
      <4>2. CASE s # "cleanup_failed"
        BY <1>1, <1>3, <1>8, <4>2 DEF Attempts
      <4> QED
        BY <4>1, <4>2
    <3>3. hist'[cur].end # "none" => exec'[run] = hist'[cur].end
      BY <1>1, <1>4, <1>8
    <3> QED
      BY <1>2, <3>1, <3>2, <3>3 DEF EndShape
  <2>7. SlotShape'
    <3>1. \A x \in Execs : exec'[x] = "reserved" => slot = x /\ x # run
      BY <1>4 DEF SlotShape
    <3>2. CASE s = "released"
      BY <1>1, <1>2, <1>3, <3>1, <3>2 DEF SlotShape, Occupied
    <3>3. CASE s # "released"
      BY <1>1, <1>2, <3>1, <3>3 DEF SlotShape
    <3> QED
      BY <3>2, <3>3
  <2>8. RanShape'
    <3>1. ASSUME NEW a \in Attempts, RunShown(a) PROVE hist'[a].ran
      <4>1. CASE a = cur
        BY <1>1, <3>1, <4>1 DEF RunShown
      <4>2. CASE a # cur
        BY <1>1, <3>1, <4>2 DEF RunShown
      <4> QED
        BY <4>1, <4>2
    <3>2. \A a \in Attempts : Serving(a)' => RunShown(a)'
      BY <1>1, <3>1 DEF RanShape, Serving, RunShown
    <3>3. agent'.obs \in {"running", "cleaning"} => agent' = agent /\ hist'[cur].ran
      BY <1>1, <1>3, <3>1 DEF RanShape
    <3> QED
      BY <1>1, <1>2, <3>2, <3>3 DEF RanShape, Serving, RunShown
  <2>9. Removing'
    <3>1. agent'.start = cur => agent' = agent
      BY <1>1, <1>3 DEF Attempts
    <3> QED
      BY <1>1, <1>2, <3>1 DEF Removing
  <2> QED
    BY <2>1, <2>2, <2>3, <2>4, <2>5, <2>6, <2>7, <2>8, <2>9
<1> QED
  BY <1>6, <1>7, <1>10

\* GitHub's own steps
LEMMA GitHubSteps == ASSUME ClaimInv, RequestLands \/ RunnerPicksUp \/ JobCompletes PROVE ClaimInv'
<1>0. /\ UNCHANGED <<epoch, msgs, evidence, gen, agentVars>> /\ UNCHANGED store
      /\ UNCHANGED <<pc, loc>>
  BY DEF RequestLands, RunnerPicksUp, JobCompletes
<1>1. CASE RequestLands
  <2>1. PICK a \in Attempts, r \in {"idle", "removed"} :
           runner[a] = "requested" /\ runner' = [runner EXCEPT ![a] = r]
    BY <1>1 DEF RequestLands
  <2> QED
    BY <1>0, <2>1, RegisterStep DEF Regs, Live, Serving
<1>2. CASE RunnerPicksUp
  <2>1. /\ agent.obs = "running" /\ runner[agent.start] = "idle"
        /\ runner' = [runner EXCEPT ![agent.start] = "busy"]
    BY <1>2 DEF RunnerPicksUp
  <2>2. agent.start \in Attempts /\ RunShown(agent.start)
    BY <2>1 DEF ClaimInv, RunInv, AgentShape, RanShape, Typed, AgentTyped, Views, Attempts
  <2> QED
    BY <1>0, <2>1, <2>2, RegisterStep DEF Regs, Live, Serving
<1>3. CASE JobCompletes
  <2>1. PICK a \in Attempts : runner[a] = "busy" /\ runner' = [runner EXCEPT ![a] = "served"]
    BY <1>3 DEF JobCompletes
  <2> QED
    BY <1>0, <2>1, RegisterStep DEF Regs, Serving
<1> QED
  BY <1>1, <1>2, <1>3

\* SetNodeAdministrativeStateWithAudit
LEMMA NodeStep == ASSUME ClaimInv, SetNodeAdministrativeState PROVE ClaimInv'
<1>1. /\ node' \in {"active", "draining"}
      /\ UNCHANGED <<epoch, msgs, evidence, gen, pc, loc, agentVars, runner>>
      /\ UNCHANGED <<claim, exec, slot, acquire, jit, auth, intent, prep>>
  BY DEF SetNodeAdministrativeState
<1>2. Typed' /\ msgs' >= msgs
  BY <1>1, EpochIs
     DEF ClaimInv, Typed, StoreTyped, CoreTyped, AgentTyped, evidence, agentVars
<1> QED
  BY <1>1, <1>2, StillStep

\* A crash leaves the rows, and a snapshot that is no longer current.
LEMMA RestartStep == ASSUME ClaimInv, Restart PROVE ClaimInv'
<1> USE DEF ClaimInv
<1>1. /\ epoch < MaxEpoch /\ epoch' = epoch + 1 /\ loc' = NoRead
      /\ pc' \in {"idle", "stopped"} /\ UNCHANGED <<msgs, evidence, gen, agentVars, runner>>
      /\ UNCHANGED <<claim, exec, slot, node, acquire, jit, auth, intent, prep>>
  BY DEF Restart, store
<1>2. /\ st' = st /\ cur' = cur /\ run' = run /\ row' = row
      /\ Has' = Has /\ Gone' = Gone /\ Fenced' = Fenced
  BY <1>1, Same
<1>3. epoch' \in 1..MaxEpoch /\ epoch \in Nat
  BY <1>1, ClaimConstants DEF Typed, CoreTyped
<1>4. Typed'
  BY <1>1, <1>3, NoReadFields
     DEF Typed, StoreTyped, CoreTyped, AgentTyped, Positions, evidence, agentVars
<1>5. RowInv'
  BY <1>1, <1>3, <1>4, EpochIs, RowsKept
<1>6. CoordInv'
  <2>1. PcShape'
    BY <1>1 DEF PcShape
  <2> QED
    BY <1>1, <1>2, <2>1, AuthorityKept, RegistrationKept DEF CoordInv
<1>7. RunInv'
  <2> USE DEF RunInv, evidence, agentVars
  <2>1. AgentShape' /\ OutboxShape' /\ SlotShape' /\ Issue'
    BY <1>1, <1>2 DEF AgentShape, OutboxShape, SlotShape, Issue
  <2>2. snap.epoch \in Nat /\ snap.epoch <= epoch
    BY DEF Fresh, Typed, AgentTyped, Snapshots
  <2>3. snap'.epoch <= epoch' /\ snap'.epoch # epoch'
    BY <1>1, <1>3, <2>2
  <2>4. Fresh' /\ Holding'
    BY <1>1, <1>2, <2>3 DEF Fresh, Holding, Tombstone
  <2>5. EndShape' /\ RanShape'
    BY <1>1, <1>2 DEF EndShape, RanShape, RunShown, Serving, Tombstone
  <2> QED
    BY <1>1, <2>1, <2>4, <2>5, NotRemoving
<1> QED
  BY <1>4, <1>5, <1>6, <1>7

LEMMA InvStep == ASSUME ClaimInv, [Next]_vars PROVE ClaimInv'
<1>1. CASE UNCHANGED vars
  <2>1. /\ UNCHANGED <<epoch, msgs, evidence, gen, pc, loc, agentVars, runner>>
        /\ UNCHANGED <<claim, exec, slot, node, acquire, jit, auth, intent, prep>>
    BY <1>1 DEF vars, store
  <2>2. Typed' /\ msgs' >= msgs
    BY <2>1, EpochIs
       DEF ClaimInv, Typed, StoreTyped, CoreTyped, AgentTyped, evidence, agentVars
  <2> QED
    BY <2>1, <2>2, StillStep
<1>2. CASE Messages
  BY <1>2, MessageStep, PickupStep, DemandStep DEF Messages
<1>3. CASE Lifecycle
  BY <1>3, AcquireStep, AcquiredStep, SendPrepareStep, PrepareDoneStep, PrepareAnsweredStep,
     ReplayPrepareStep, JITAttemptStep, GenerateStep, DispatchStep, SendStartStep,
     StartAnsweredStep, AdoptStep DEF Lifecycle
<1>4. CASE Reconcile
  BY <1>4, ResolveStartedStep, ResolveAcceptedStep, QueryStep, RemovalStep, RemoveStep,
     AbsentStep DEF Reconcile
<1>5. CASE Agent
  BY <1>5, AcceptsStep, StartsStep, CleansStep, EndsStep DEF Agent
<1> QED
  BY <1>1, <1>2, <1>3, <1>4, <1>5, DelayStep, ReconnectsStep, UpdateStep, GitHubSteps,
     NodeStep, RestartStep DEF Next

-----------------------------------------------------------------------------
(* The message an acquire attempt rests on *)

\* A step that leaves the claim its execution, and does not make it pending again.
LEMMA SourceKept ==
  ASSUME ClaimInv, ClaimInv', Sourced, msgs' >= msgs,
         claim'.exec = claim.exec, claim'.assigned = claim.assigned,
         \/ claim'.state # "pending"
         \/ claim'.state = claim.state /\ UNCHANGED acquire
  PROVE  Sourced'
<1>1. run' = run /\ run \in Nat /\ msgs \in Nat /\ msgs' \in Nat
  BY CurIs, EpochIs, ClaimConstants DEF ClaimInv, run, Typed, CoreTyped
<1>2. ~claim'.assigned => run' <= msgs'
  BY <1>1 DEF Sourced
<1>3. st' = "pending" => st = "pending" /\ acquire' = acquire
  BY DEF st
<1> QED
  BY <1>1, <1>2, <1>3 DEF Sourced

LEMMA SetClaimKeeps ==
  ASSUME Typed, NEW s, SetClaim(s)
  PROVE  claim'.exec = claim.exec /\ claim'.assigned = claim.assigned /\ claim'.state = s
  BY DEF Typed, StoreTyped, Claims, SetClaim

\* A reservation names the claim's execution by the message the attempt rests on.
LEMMA SourceReserved ==
  ASSUME ClaimInv, NEW e \in Nat, NEW s, Reserve(e, "pending"), NextAcquire(s, e), e <= msgs'
  PROVE  Sourced'
<1>1. run' = e /\ acquire'.msg = e
  BY DEF ClaimInv, Typed, StoreTyped, Claims, Reserve, NextAcquire, run
<1> QED
  BY <1>1 DEF Sourced

LEMMA MessageSourced ==
  ASSUME ClaimInv, ClaimInv', Sourced, CommitMessage PROVE Sourced'
<1>1. msgs' = msgs + 1 /\ msgs \in Nat /\ msgs + 1 \in Nat /\ msgs' >= msgs
      /\ msgs + 1 <= msgs' /\ ~claim.assigned
  BY EpochIs DEF ClaimInv, CommitMessage
<1>2. CASE ClaimOffer(msgs + 1) \/ RearmLostJIT(msgs + 1)
  BY <1>1, <1>2, SourceReserved DEF ClaimOffer, RearmLostJIT
<1>3. CASE CreateRequeueIntent(msgs + 1)
  BY <1>1, <1>3, SetClaimKeeps, SourceKept DEF CreateRequeueIntent, ClaimInv
<1>4. CASE RearmAcquire(msgs + 1)
  <2>1. claim'.exec = claim.exec /\ acquire'.msg = msgs + 1 /\ acquire'.state = "pending"
    BY <1>4, SetClaimKeeps DEF RearmAcquire, NextAcquire, ClaimInv
  <2>2. run' = run /\ run \in Nat /\ run <= msgs
    BY <1>1, <2>1, CurIs DEF run, ClaimInv, Sourced
  <2> QED
    BY <1>1, <2>1, <2>2 DEF Sourced
<1>5. CASE KnownOffer
  BY <1>1, <1>5, SourceKept DEF KnownOffer
<1> QED
  BY <1>2, <1>3, <1>4, <1>5 DEF CommitMessage

LEMMA LifecycleSourced ==
  ASSUME ClaimInv, ClaimInv', Sourced, Lifecycle PROVE Sourced'
<1> USE DEF ClaimInv
<1>1. msgs' = msgs /\ msgs' >= msgs
  <2>0. msgs >= msgs
    BY EpochIs
  <2>1. CASE BeginAcquire \/ AcquireAnswered \/ SendPrepare \/ PrepareDone \/ PrepareAnswered
    BY <2>0, <2>1 DEF BeginAcquire, AcquireAnswered, SendPrepare, PrepareDone, PrepareAnswered
  <2>2. CASE ReplayPrepare \/ BeginJITAttempt \/ GenerateAnswered \/ BeginStartDispatch
    BY <2>0, <2>2 DEF ReplayPrepare, BeginJITAttempt, GenerateAnswered, BeginStartDispatch
  <2>3. CASE SendStart \/ StartAnswered \/ AdoptObservation
    BY <2>0, <2>3 DEF SendStart, StartAnswered, AdoptObservation
  <2> QED
    BY <2>1, <2>2, <2>3 DEF Lifecycle
<1>2. CASE BeginAcquire \/ AcquireAnswered
  BY <1>1, <1>2, SetClaimKeeps, SourceKept DEF BeginAcquire, AcquireAnswered
<1>3. CASE SendPrepare \/ PrepareDone \/ ReplayPrepare \/ AdoptObservation
  BY <1>1, <1>3, SourceKept DEF SendPrepare, PrepareDone, ReplayPrepare, AdoptObservation
<1>4. CASE PrepareAnswered
  BY <1>1, <1>4, SetClaimKeeps, SourceKept DEF PrepareAnswered
<1>5. CASE BeginJITAttempt
  <2>1. /\ claim'.exec = claim.exec /\ claim'.assigned = claim.assigned
        /\ claim'.state = "jit_intent"
    BY <1>5 DEF BeginJITAttempt, Typed, StoreTyped, Claims
  <2> QED
    BY <1>1, <2>1, SourceKept
<1>6. CASE SetClaim("jit_generated") \/ SetClaim("jit_generation_ambiguous")
           \/ SetClaim("start_dispatching") \/ SetClaim("start_ambiguous")
           \/ SetClaim("running") \/ SetClaim("reconciliation_required")
  BY <1>1, <1>6, SetClaimKeeps, SourceKept
<1>7. CASE UNCHANGED <<claim, acquire>>
  BY <1>1, <1>7, SourceKept
<1>8. CASE GenerateAnswered \/ BeginStartDispatch
  BY <1>6, <1>7, <1>8 DEF GenerateAnswered, BeginStartDispatch, Move
<1>9. CASE SendStart \/ StartAnswered
  BY <1>6, <1>7, <1>9 DEF SendStart, StartAnswered, Move
<1> QED
  BY <1>2, <1>3, <1>4, <1>5, <1>8, <1>9 DEF Lifecycle

LEMMA AbsenceSourced ==
  ASSUME ClaimInv, ClaimInv', Sourced, MarkReconciledAbsent PROVE Sourced'
<1> USE DEF ClaimInv
<1>1. msgs' = msgs /\ msgs' >= msgs
  BY EpochIs DEF MarkReconciledAbsent
<1>2. CASE ConfirmAmbiguity \/ ConfirmLostJIT
  BY <1>1, <1>2, SetClaimKeeps, SourceKept DEF ConfirmAmbiguity, ConfirmLostJIT
<1>3. CASE ConfirmRequeue /\ ClaimReplacement
  <2>1. intent \in Nat /\ intent <= msgs'
    BY <1>1, ClaimConstants DEF Typed, StoreTyped, RowInv, Requeue
  <2> QED
    BY <1>3, <2>1, SourceReserved DEF ClaimReplacement
<1>4. CASE ConfirmRequeue /\ DiscardReplacement
  BY <1>1, <1>4, SetClaimKeeps, SourceKept DEF DiscardReplacement
<1>5. CASE UNCHANGED <<claim, acquire>>
  BY <1>1, <1>5, SourceKept
<1> QED
  BY <1>2, <1>3, <1>4, <1>5 DEF MarkReconciledAbsent, ConfirmRequeue, store

LEMMA ReconcileSourced ==
  ASSUME ClaimInv, ClaimInv', Sourced, Reconcile PROVE Sourced'
<1> USE DEF ClaimInv
<1>1. CASE ResolveStarted \/ ResolveAccepted
  <2>1. msgs' = msgs /\ msgs' >= msgs
    BY <1>1, EpochIs DEF ResolveStarted, ResolveAccepted
  <2> QED
    BY <1>1, <2>1, SetClaimKeeps, SourceKept DEF ResolveStarted, ResolveAccepted, Move
<1>2. CASE QueryRunner \/ RemoveRunner
  <2>1. msgs' = msgs /\ msgs' >= msgs
    BY <1>2, EpochIs DEF QueryRunner, RemoveRunner
  <2> QED
    BY <1>2, <2>1, SourceKept DEF QueryRunner, RemoveRunner, store
<1>3. CASE MarkRemovalPending
  <2>1. msgs' = msgs /\ msgs' >= msgs
    BY <1>3, EpochIs DEF MarkRemovalPending
  <2> QED
    BY <1>3, <2>1, SetClaimKeeps, SourceKept DEF MarkRemovalPending, Move, store
<1> QED
  BY <1>1, <1>2, <1>3, AbsenceSourced DEF Reconcile

LEMMA SourcedStep ==
  ASSUME ClaimInv, ClaimInv', Sourced, [Next]_vars PROVE Sourced'
<1>1. msgs >= msgs
  BY EpochIs DEF ClaimInv
<1>2. CASE ReconcileAssignedDemand
  BY <1>2 DEF ReconcileAssignedDemand, Reserve, Sourced, st, ClaimInv, Typed, StoreTyped, Claims
<1>3. CASE DelayPasses \/ AgentReconnects \/ RecordUpdate \/ SetNodeAdministrativeState
  BY <1>1, <1>3, SourceKept
     DEF DelayPasses, AgentReconnects, RecordUpdate, SetNodeAdministrativeState
<1>4. CASE Agent
  BY <1>1, <1>4, SourceKept
     DEF Agent, AgentAccepts, AgentStarts, AgentCleans, AgentEnds, store
<1>5. CASE RequestLands \/ RunnerPicksUp \/ JobCompletes \/ Restart \/ CommitPickup
  BY <1>1, <1>5, SourceKept
     DEF RequestLands, RunnerPicksUp, JobCompletes, Restart, CommitPickup, store
<1>6. CASE UNCHANGED vars
  BY <1>1, <1>6, SourceKept DEF vars, store
<1> QED
  BY <1>2, <1>3, <1>4, <1>5, <1>6, MessageSourced, LifecycleSourced, ReconcileSourced
     DEF Next, Messages

-----------------------------------------------------------------------------
(* The theorems *)

\* A transition that does not reserve an execution leaves the claim with its own.
LEMMA SameExecution ==
  ASSUME Typed, NEW s, SetClaim(s)
  PROVE  claim'.exec = claim.exec
  BY DEF Typed, StoreTyped, Claims, SetClaim

LEMMA MessageMoves ==
  ASSUME ClaimInv, CommitMessage, claim'.exec # claim.exec
  PROVE  run = 0 \/ LostAwaiting
<1>1. CASE \E e \in {msgs + 1} : ClaimOffer(e)
  BY <1>1 DEF ClaimInv, RowInv, ClaimShape, ClaimOffer, st
<1>2. CASE \E e \in {msgs + 1} : RearmLostJIT(e)
  BY <1>2 DEF RearmLostJIT
<1>3. ~CreateRequeueIntent(msgs + 1) /\ ~RearmAcquire(msgs + 1) /\ ~KnownOffer
  BY SameExecution DEF ClaimInv, CreateRequeueIntent, RearmAcquire, KnownOffer
<1> QED
  BY <1>1, <1>2, <1>3 DEF CommitMessage

\* The lost attempt is gone, and its runner had no job.
LEMMA LostIsGone ==
  ASSUME ClaimInv, LostAwaiting
  PROVE  ~Live(cur) /\ cur \notin picked /\ exec[run] \in CleanEnds
<1>1. Gone /\ st = "reconciliation_required" /\ exec[run] \in CleanEnds
  BY DEF LostAwaiting, Gone, st, row
<1>2. ~Live(cur)
  BY <1>1 DEF ClaimInv, CoordInv, Registration
<1>3. ~Serving(cur) /\ (cur \in picked => Serving(cur))
  BY <1>1 DEF ClaimInv, RunInv, RanShape
<1> QED
  BY <1>1, <1>2, <1>3

LEMMA AbsenceMoves ==
  ASSUME ClaimInv, MarkReconciledAbsent, claim'.exec # claim.exec
  PROVE  ~Live(cur) /\ cur \notin picked /\ exec[run] \in CleanEnds
<1>1. ~ConfirmAmbiguity /\ ~ConfirmLostJIT /\ ~DiscardReplacement /\ ~(UNCHANGED claim)
  BY SameExecution DEF ClaimInv, ConfirmAmbiguity, ConfirmLostJIT, DiscardReplacement
<1>2. pc = "absent" /\ AbsenceVerdict = "confirmed" /\ ConfirmRequeue
  BY <1>1 DEF MarkReconciledAbsent, store
<1>3. ~LatePickup /\ RemovalKind = "unpicked_requeue"
  BY <1>1, <1>2 DEF ConfirmRequeue, ClaimReplacement
<1> QED
  BY <1>2, <1>3, ConfirmedIs, KindMeans DEF LatePickup

\* No other step moves the claim to another execution.
LEMMA LifecycleMoves == ASSUME ClaimInv, Lifecycle PROVE claim'.exec = claim.exec
<1> USE DEF ClaimInv
<1>1. CASE BeginAcquire \/ AcquireAnswered
  BY <1>1, SameExecution DEF BeginAcquire, AcquireAnswered
<1>2. CASE SendPrepare \/ PrepareDone \/ PrepareAnswered \/ ReplayPrepare
  BY <1>2, SameExecution DEF SendPrepare, PrepareDone, PrepareAnswered, ReplayPrepare
<1>3. CASE BeginJITAttempt
  BY <1>3 DEF BeginJITAttempt, Typed, StoreTyped, Claims
<1>4. CASE GenerateAnswered \/ BeginStartDispatch
  BY <1>4, SameExecution DEF GenerateAnswered, BeginStartDispatch, Move, store
<1>5. CASE SendStart \/ StartAnswered \/ AdoptObservation
  BY <1>5, SameExecution DEF SendStart, StartAnswered, AdoptObservation, Move, store
<1> QED
  BY <1>1, <1>2, <1>3, <1>4, <1>5 DEF Lifecycle

LEMMA ReconcileMoves ==
  ASSUME ClaimInv, Reconcile PROVE claim'.exec = claim.exec \/ MarkReconciledAbsent
<1> USE DEF ClaimInv
<1>1. CASE ResolveStarted \/ ResolveAccepted
  BY <1>1, SameExecution DEF ResolveStarted, ResolveAccepted, Move
<1>2. CASE QueryRunner \/ RemoveRunner
  BY <1>2 DEF QueryRunner, RemoveRunner, store
<1>3. CASE MarkRemovalPending
  BY <1>3, SameExecution DEF MarkRemovalPending, Move, store
<1> QED
  BY <1>1, <1>2, <1>3 DEF Reconcile

LEMMA OtherMoves ==
  ASSUME \/ DelayPasses \/ Agent \/ AgentReconnects \/ RecordUpdate \/ RequestLands
         \/ RunnerPicksUp \/ JobCompletes \/ SetNodeAdministrativeState \/ Restart
         \/ CommitPickup \/ UNCHANGED vars
  PROVE  claim'.exec = claim.exec
<1>1. CASE Agent
  BY <1>1 DEF Agent, AgentAccepts, AgentStarts, AgentCleans, AgentEnds, store
<1>2. CASE DelayPasses \/ AgentReconnects \/ RecordUpdate \/ SetNodeAdministrativeState
  BY <1>2 DEF DelayPasses, AgentReconnects, RecordUpdate, SetNodeAdministrativeState, store
<1>3. CASE RequestLands \/ RunnerPicksUp \/ JobCompletes \/ Restart \/ CommitPickup
  BY <1>3 DEF RequestLands, RunnerPicksUp, JobCompletes, Restart, CommitPickup, store
<1>4. CASE UNCHANGED vars
  BY <1>4 DEF vars, store
<1> QED
  BY <1>1, <1>2, <1>3, <1>4

LEMMA ReplacementMoves ==
  ASSUME ClaimInv, [Next]_vars, claim'.exec # claim.exec, run # 0
  PROVE  ~Live(cur) /\ cur \notin picked /\ exec[run] \in CleanEnds
<1>1. ~ReconcileAssignedDemand
  BY DEF ReconcileAssignedDemand, ClaimInv, RowInv, ClaimShape, st
<1>2. CommitMessage \/ MarkReconciledAbsent
  BY <1>1, LifecycleMoves, ReconcileMoves, OtherMoves DEF Next, Messages
<1> QED
  BY <1>2, MessageMoves, LostIsGone, AbsenceMoves

\* The invariant above holds throughout, from the first start of the Controller on.
THEOREM ClaimInvariant == Spec => []ClaimInv
<1>1. Init => ClaimInv
  BY InvInit
<1>2. ClaimInv /\ [Next]_vars => ClaimInv'
  BY InvStep
<1> QED
  BY <1>1, <1>2, PTL DEF Spec

\* At most one runner of the job is registered at GitHub: BeginGitHubJITAttempt is
\* reached only once the confirmed absence of the attempt before it was committed,
\* and no generation request of that attempt is still on its way by then.
THEOREM RunnerIsUnique == Spec => []OneRegistration
<1>1. ClaimInv => OneRegistration
  BY Registers
<1> QED
  BY <1>1, ClaimInvariant, PTL

\* The Controller may stop after any transaction: the next start's reads of the claim,
\* the attempt, the acquire row and the requeue intent find no pair they refuse, except
\* a pending claim whose ambiguous acquire was re-armed by a later message.
THEOREM StoreReadsBack == Spec => []RestartReads
<1>1. Init => ClaimInv /\ Sourced
  BY InvInit DEF Init, Sourced, run, st
<1>2. ClaimInv /\ Sourced /\ [Next]_vars => ClaimInv' /\ Sourced'
  BY InvStep, SourcedStep
<1>3. ClaimInv /\ Sourced => RestartReads
  BY ReadsBack
<1> QED
  BY <1>1, <1>2, <1>3, PTL DEF Spec

\* Whatever the Agent may yet start or still runs is the current attempt's, which the
\* coordinator has not declared absent, and holds the slot; a DELETE is never on its
\* way for a runner that is up or that a committed message says has the job.
THEOREM RunnersKeepTheirJobs == Spec => []RunnersAreSpared
<1>1. ClaimInv => RunnersAreSpared
  BY Spares
<1> QED
  BY <1>1, ClaimInvariant, PTL

\* Only rearmLostJITFromMessage and finalizeGitHubUnpickedRequeue give a claim another
\* execution, both for a runner that is gone, was not picked up and whose execution ended.
THEOREM ReplacementIsLate == Spec => ReplacementOnlyAfterAbsence
<1>1. ClaimInv /\ [Next]_vars =>
        [claim'.exec # claim.exec /\ run # 0 =>
            /\ ~Has \/ (~Live(cur) /\ cur \notin picked)
            /\ exec[run] \in CleanEnds]_vars
  BY ReplacementMoves
<1> QED
  BY <1>1, ClaimInvariant, PTL DEF Spec, ReplacementOnlyAfterAbsence
=============================================================================
