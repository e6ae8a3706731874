--------------------- MODULE ControllerExecutionsProofs ---------------------
(***************************************************************************)
(* What the store, the projection and the Agent may not disagree on, and   *)
(* what a commit may not do to an execution, proved for any number of      *)
(* executions, Controller starts and faults.                               *)
(*                                                                         *)
(* The store and the projection: an open row has a slot, and the           *)
(* projection is behind the row or about to take it (Rows, Driving); an    *)
(* update that was recorded is not ahead of the row either, so projecting  *)
(* it late or again does no harm (Applied, Reading).                       *)
(*                                                                         *)
(* The Agent: what it has queued it has reached, and it forgets an         *)
(* execution only when the projection has its end (Queues), so an update   *)
(* that frees a slot is of a runtime that is gone.  A journal that was     *)
(* never lost knows whatever was seen of it (Evidence), and what the       *)
(* projection retains while a session is up is the Agent's, up to the      *)
(* command it awaits (Captured, Followed): hence a Prepare is under way    *)
(* only to an Agent that has nothing of its execution (Prepares).          *)
(*                                                                         *)
(* What ties the last part to admission is that the actions and the        *)
(* capability of the projection are those its own fields give              *)
(* (DerivedOf): reconcileAgentSnapshotAt is run again by every change.     *)
(***************************************************************************)
EXTENDS ControllerExecutions, FiniteSetTheorems, TLAPS

---------------------------------------------------------------------------
(* Types *)

Statuses    == States \cup {"none"}
AgentStates == {"preparing", "running", "cleaning", "released", "failed", "cleanup_failed"}
Observed    == AgentStates \cup {"none"}
Admins      == {"active", "draining", "quarantined", "revoked"}
Fences      == {"none", "dispatching", "observed", "accepted"}
Links       == {"down", "captured", "recorded", "up", "project", "ack", "closing"}
Phases      == {"quarantined", "revoked", "degraded", "reconciling", "draining", "ready", "offline"}
Kinds       == {"await_agent", "confirm_start", "observe_runner", "replay", "issue_prepare",
                "destroy", "quarantine", "adopt"}
Sendings    == {"commit", "replay", "cancel", "send", "await", "answered"}
Ops         == Sendings \cup {"idle", "claim", "desired"}

Shape(c) ==
    CASE c.type = "prepare" -> c.expects = "reserved"
      [] c.type = "start"   -> c.expects = "preparing"
      [] OTHER              -> c.expects \in Active
Commands ==
    {c \in [type : {"prepare", "start", "cancel"}, exec : Exec, epoch : Nat, expects : States,
            at : Observed, attempt : Nat] : Shape(c)}
Snaps    == [max : Nat, cmds : SUBSET Commands, obs : [Exec -> Observed], tomb : SUBSET Exec,
             ready : BOOLEAN, folded : BOOLEAN]
Updates  == [cmd : Commands, state : AgentStates, replayed : BOOLEAN]
Actions  == [kind : Kinds, exec : Exec, expects : Statuses, observed : Observed, digest : Snaps]
Projs    == [fences : [Exec -> Fences], execs : [Exec -> Statuses], res : SUBSET Exec,
             cmds : SUBSET Commands, snap : Snaps, seen : BOOLEAN, update : BOOLEAN,
             admin : Admins, phase : Phases, capable : BOOLEAN, actions : SUBSET Actions]
Journals == [max : Nat, cmds : SUBSET Commands, obs : [Exec -> Observed], tomb : SUBSET Exec]
Losses   == [journal : Journals, queue : Seq(Updates)]
NoUpdate == Update(NoCmd, "none", FALSE)

StoreTyped ==
    /\ epoch \in 1..MaxEpoch /\ desired \in [Exec -> Statuses] /\ slots \subseteq Exec
    /\ issued \subseteq Commands /\ IsFiniteSet(issued) /\ applied \subseteq Updates
    /\ authority \in [snap : Snaps, epoch : Nat]
    /\ seenStates \in [Exec -> Observed] /\ admin \in Admins /\ fence \in [Exec -> Fences]
SessionTyped ==
    /\ sess \in [link : Links, snap : Snaps, upd : Updates \cup {NoUpdate}]
    /\ sess.link \in {"project", "ack"} => sess.upd \in Updates
DriverTyped ==
    /\ drv \in [op : Ops, cmd : Commands \cup {NoCmd}, exec : Exec \cup {0}, state : Statuses]
    /\ drv.op \in Sendings => drv.cmd \in Commands
    /\ drv.op \in {"claim", "desired"} => drv.exec \in Exec /\ drv.state \in States
AgentTyped ==
    /\ a \in Journals /\ outbox \in Seq(Updates) /\ wire \in Commands \cup {NoCmd}
    /\ lost \subseteq Losses
Typed ==
    /\ StoreTyped /\ p \in Projs /\ SessionTyped /\ DriverTyped /\ AgentTyped
    /\ mgmt \in {"none", "active", "draining", "revoked"}

---------------------------------------------------------------------------
(* The projection is the one its own fields give *)

Acts(q, s) == UNION {Plan(q, s, e).act : e \in Exec}

Plain(q) == q.actions = {} /\ ~q.capable
DerivedOf(q) ==
    \/ Plain(q)
    \/ /\ q.seen /\ q.actions = Acts(q, q.snap)
       /\ q.capable => \A e \in Exec : ~Plan(q, q.snap, e).blocked /\ ~Plan(q, q.snap, e).uncertain

LEMMA DigestTyped == ASSUME NEW s \in Snaps PROVE Digest(s) \in Snaps /\ Digest(s).obs = s.obs
BY DEF Digest, Snaps

LEMMA ActionTyped ==
    ASSUME NEW k \in Kinds, NEW e \in Exec, NEW x \in Statuses, NEW o \in Observed, NEW s \in Snaps
    PROVE  /\ Action(k, e, x, o, s) \in Actions
           /\ Action(k, e, x, o, s).kind = k /\ Action(k, e, x, o, s).exec = e
           /\ Action(k, e, x, o, s).expects = x /\ Action(k, e, x, o, s).observed = o
           /\ Action(k, e, x, o, s).digest = Digest(s)
BY DigestTyped DEF Action, Actions

\* What an action of a plan says of the plan's execution.
Says(q, s, e, x) ==
    /\ x \in Actions /\ x.exec = e /\ x.digest = Digest(s)
    /\ x.kind = "adopt" => x.observed = s.obs[e] /\ s.obs[e] # "none"
    /\ x.kind = "replay" => q.execs[e] \in {"reserved", "preparing"} /\ s.obs[e] = "none"
    /\ x.kind = "destroy" => x.expects = q.execs[e] /\ q.execs[e] # "reserved"

LEMMA PlanSays ==
    ASSUME NEW q \in Projs, NEW s \in Snaps, NEW e \in Exec, NEW x \in Plan(q, s, e).act
    PROVE  Says(q, s, e, x)
<1> DEFINE d == q.execs[e]
           o == s.obs[e]
<1>1. d \in Statuses /\ o \in Observed BY DEF Projs, Snaps
<1>2. \/ x = FenceAction(q, s, e)
      \/ x = Action("destroy", e, d, o, s) /\ d # "reserved"
      \/ x = Action("quarantine", e, "none", "none", s)
      \/ x = Action("adopt", e, d, o, s) /\ o # "none"
      \/ x \in Recovery(q, s, e).act /\ ~CanReach(d, o) /\ (o # "none" => CanReach(o, d))
         /\ (o # "none" \/ d \in {"reserved", "preparing"})
  BY <1>1, SMTT(60) DEF Plan, Statuses, States, Terminal, Clean, Active, Observed, AgentStates, CanReach, Leftover, Local
<1>3. CASE x = FenceAction(q, s, e)
  <2>1. \E k \in {"await_agent", "confirm_start", "observe_runner"} :
          x = Action(k, e, "none", "none", s)
    BY <1>3 DEF FenceAction
  <2> QED BY <2>1, ActionTyped DEF Says, Kinds, Statuses, Observed
<1>4. CASE x = Action("destroy", e, d, o, s) /\ d # "reserved"
  BY <1>1, <1>4, ActionTyped DEF Says, Kinds
<1>5. CASE x = Action("quarantine", e, "none", "none", s)
  BY <1>5, ActionTyped DEF Says, Kinds, Statuses, Observed
<1>6. CASE x = Action("adopt", e, d, o, s) /\ o # "none"
  BY <1>1, <1>6, ActionTyped DEF Says, Kinds
<1>7. CASE /\ x \in Recovery(q, s, e).act /\ ~CanReach(d, o) /\ (o # "none" => CanReach(o, d))
           /\ (o # "none" \/ d \in {"reserved", "preparing"})
  <2>1. \/ x = Action("replay", e, d, "none", s) /\ d \in {"reserved", "preparing"}
        \/ x = Action("issue_prepare", e, d, "none", s)
        \/ x = Action("destroy", e, d, "none", s) /\ d # "reserved"
    BY <1>7 DEF Recovery
  <2>2. d \in {"reserved", "preparing"} => o = "none"
    BY <1>1, <1>7 DEF CanReach, States, Observed, AgentStates, Active, Clean
  <2>3. "none" \in Observed BY DEF Observed
  <2> QED BY <1>1, <2>1, <2>2, <2>3, ActionTyped DEF Says, Kinds
<1> QED BY <1>2, <1>3, <1>4, <1>5, <1>6, <1>7

LEMMA PlanBlocks ==
    ASSUME NEW q \in Projs, NEW s \in Snaps, NEW e \in Exec,
           q.execs[e] \in Terminal \cup {"none"}, s.obs[e] \in Local
    PROVE  Plan(q, s, e).blocked
BY DEF Plan, Leftover, Terminal, Clean

LEMMA PlanAdopts ==
    ASSUME NEW q \in Projs, NEW s \in Snaps, NEW e \in Exec,
           q.execs[e] = "reserved", s.obs[e] # "none", ~Plan(q, s, e).uncertain
    PROVE  \E x \in Plan(q, s, e).act : x.kind = "adopt"
<1>1. s.obs[e] \in AgentStates BY DEF Snaps, Observed
<1>2. e \notin s.tomb BY DEF Plan, Terminal, Clean
<1>3. s.obs[e] # "cleanup_failed" BY <1>2 DEF Plan, Terminal, Clean
<1>4. Action("adopt", e, "reserved", s.obs[e], s) \in Plan(q, s, e).act
  BY <1>1, <1>2, <1>3 DEF Plan, Terminal, Clean, CanReach, States, AgentStates, Active
<1>5. Action("adopt", e, "reserved", s.obs[e], s).kind = "adopt" BY DEF Action
<1> QED BY <1>4, <1>5

\* A plan is of the execution, its fence and the commands.
LEMMA PlanSame ==
    ASSUME NEW q, NEW r, NEW s, NEW e \in Exec,
           r.execs = q.execs, r.fences = q.fences, r.cmds = q.cmds
    PROVE  Plan(r, s, e) = Plan(q, s, e)
<1>1. FenceAction(r, s, e) = FenceAction(q, s, e) BY DEF FenceAction
<1>2. Recovery(r, s, e) = Recovery(q, s, e) BY DEF Recovery
<1> QED BY <1>1, <1>2 DEF Plan

\* reconcileAgentSnapshotAt derives the projection and leaves the rest of it alone.
LEMMA ReconcileDoes ==
    ASSUME NEW q \in Projs, NEW s \in Snaps
    PROVE  LET r == Reconcile(q, s) IN
           /\ r \in Projs /\ DerivedOf(r) /\ r.seen
           /\ r.execs = q.execs /\ r.res = q.res /\ r.cmds = q.cmds /\ r.fences = q.fences
           /\ r.snap = s
<1> DEFINE r == Reconcile(q, s)
           acts == UNION {Plan(q, s, e).act : e \in Exec}
<1>1. acts \subseteq Actions BY PlanSays DEF Says
<1>2. PICK state \in Admins, phase \in Phases, capable \in BOOLEAN :
        /\ r = [q EXCEPT !.snap = s, !.seen = TRUE, !.actions = acts, !.admin = state,
                         !.phase = phase, !.capable = capable]
        /\ capable => \A e \in Exec : ~Plan(q, s, e).blocked /\ ~Plan(q, s, e).uncertain
  <2> DEFINE plans == [e \in Exec |-> Plan(q, s, e)]
             all == UNION {plans[e].act : e \in Exec}
             uncertain == s.tomb # {} \/ \E e \in Exec : plans[e].uncertain
             blocked == \E e \in Exec : plans[e].blocked
             state == IF uncertain THEN "quarantined" ELSE q.admin
             phase == Phase(state, uncertain, q.update /\ s.ready, blocked, all)
             capable == ~blocked /\ phase \in {"draining", "reconciling", "ready"}
  <2>1. all = acts OBVIOUS
  <2>2. r = [q EXCEPT !.snap = s, !.seen = TRUE, !.actions = all, !.admin = state,
                      !.phase = phase, !.capable = capable]
    BY DEF Reconcile
  <2>3. state \in Admins BY DEF Projs, Admins
  <2>4. phase \in Phases /\ (uncertain => phase = "quarantined")
    BY DEF Phase, Phases
  <2>5. capable \in BOOLEAN OBVIOUS
  <2>6. capable => \A e \in Exec : ~Plan(q, s, e).blocked /\ ~Plan(q, s, e).uncertain BY <2>4
  <2> HIDE DEF all, state, phase, capable, r, acts
  <2> QED BY <2>1, <2>2, <2>3, <2>4, <2>5, <2>6
<1> HIDE DEF r, acts
<1>3. /\ r \in Projs /\ r.seen /\ r.actions = acts /\ r.snap = s
      /\ r.execs = q.execs /\ r.res = q.res /\ r.cmds = q.cmds /\ r.fences = q.fences
      /\ r.capable => \A e \in Exec : ~Plan(q, s, e).blocked /\ ~Plan(q, s, e).uncertain
  BY <1>1, <1>2 DEF Projs
<1>4. \A e \in Exec : Plan(r, s, e) = Plan(q, s, e)
  BY <1>3, PlanSame
<1>5. acts = UNION {Plan(r, s, e).act : e \in Exec} BY <1>4 DEF acts
<1>6. DerivedOf(r) BY <1>3, <1>4, <1>5 DEF DerivedOf, Acts
<1> QED BY <1>3, <1>6 DEF r

\* The projection still has the same executions, slots and observations.
Same(q, r) ==
    /\ r \in Projs /\ DerivedOf(r)
    /\ r.execs = q.execs /\ r.res = q.res /\ r.snap.obs = q.snap.obs

LEMMA RefreshSame == ASSUME NEW q \in Projs, q.seen \/ Plain(q) PROVE Same(q, Refresh(q))
<1>1. CASE q.seen
  <2>1. q.snap \in Snaps BY DEF Projs
  <2>2. Refresh(q) = Reconcile(q, q.snap) BY <1>1 DEF Refresh
  <2> QED BY <2>1, <2>2, ReconcileDoes DEF Same
<1>2. CASE ~q.seen BY <1>2 DEF Refresh, Same, DerivedOf
<1> QED BY <1>1, <1>2

LEMMA ReadySame ==
    ASSUME NEW q \in Projs, DerivedOf(q), NEW r \in BOOLEAN PROVE Same(q, ApplyAgentReadiness(q, r))
<1>1. PICK x : x = [q EXCEPT !.snap.ready = r] OBVIOUS
<1>2. x \in Projs /\ x.execs = q.execs /\ x.res = q.res /\ x.snap.obs = q.snap.obs
      /\ x.seen = q.seen /\ x.actions = q.actions /\ x.capable = q.capable
  BY <1>1 DEF Projs, Snaps
<1>3. x.seen \/ Plain(x) BY <1>2 DEF DerivedOf, Plain
<1>4. Same(x, Refresh(x)) BY <1>2, <1>3, RefreshSame
<1> QED BY <1>1, <1>2, <1>4 DEF Same, ApplyAgentReadiness

LEMMA CommandSame ==
    ASSUME NEW q \in Projs, DerivedOf(q), NEW c \in Commands PROVE Same(q, ApplyIssuedCommand(q, c))
<1>1. PICK x : x = [q EXCEPT !.cmds = @ \cup {c}] OBVIOUS
<1>2. x \in Projs /\ x.execs = q.execs /\ x.res = q.res /\ x.snap = q.snap
      /\ x.seen = q.seen /\ x.actions = q.actions /\ x.capable = q.capable
  BY <1>1 DEF Projs
<1>3. x.seen \/ Plain(x) BY <1>2 DEF DerivedOf, Plain
<1>4. Same(x, Refresh(x)) BY <1>2, <1>3, RefreshSame
<1> QED BY <1>1, <1>2, <1>4 DEF Same, ApplyIssuedCommand

LEMMA FenceSame ==
    ASSUME NEW q \in Projs, DerivedOf(q), NEW f \in [Exec -> Fences] PROVE Same(q, ApplyGitHubFence(q, f))
<1>1. PICK x : x = [q EXCEPT !.fences = f] OBVIOUS
<1>2. x \in Projs /\ x.execs = q.execs /\ x.res = q.res /\ x.snap = q.snap
      /\ x.seen = q.seen /\ x.actions = q.actions /\ x.capable = q.capable
  BY <1>1 DEF Projs
<1>3. x.seen \/ Plain(x) BY <1>2 DEF DerivedOf, Plain
<1>4. Same(x, Refresh(x)) BY <1>2, <1>3, RefreshSame
<1> QED BY <1>1, <1>2, <1>4 DEF Same, ApplyGitHubFence

LEMMA OfflineSame == ASSUME NEW q \in Projs PROVE Same(q, Offline(q))
BY DEF Same, Offline, DerivedOf, Plain, Projs, Phases, Admins

LEMMA AdminSame ==
    ASSUME NEW q \in Projs, NEW m \in {"active", "draining", "revoked"}
    PROVE  Same(q, [q EXCEPT !.admin = m, !.capable = FALSE, !.actions = {}, !.seen = FALSE,
                             !.phase = IF m = "active" THEN "reconciling" ELSE m])
BY DEF Same, DerivedOf, Plain, Projs, Phases, Admins

LEMMA UpdateSame ==
    ASSUME NEW q \in Projs, DerivedOf(q) PROVE Same(q, [q EXCEPT !.update = FALSE])
<1>1. PICK x : x = [q EXCEPT !.update = FALSE] OBVIOUS
<1>2. x \in Projs /\ x.execs = q.execs /\ x.res = q.res /\ x.snap = q.snap /\ x.cmds = q.cmds
      /\ x.fences = q.fences /\ x.seen = q.seen /\ x.actions = q.actions /\ x.capable = q.capable
  BY <1>1 DEF Projs
<1>3. \A e \in Exec : Plan(x, x.snap, e) = Plan(q, q.snap, e) BY <1>2, PlanSame
<1>4. Acts(x, x.snap) = Acts(q, q.snap) BY <1>3 DEF Acts
<1> QED BY <1>1, <1>2, <1>3, <1>4 DEF Same, DerivedOf, Plain

LEMMA ClaimMoves ==
    ASSUME NEW q \in Projs, DerivedOf(q), NEW e \in Exec
    PROVE  LET r == ApplyGitHubClaim(q, e) IN
           /\ r \in Projs /\ DerivedOf(r)
           /\ r.execs = [q.execs EXCEPT ![e] = "reserved"] /\ r.res = q.res \cup {e}
           /\ r.snap.obs = q.snap.obs
<1>1. PICK x : x = [q EXCEPT !.execs[e] = "reserved", !.res = @ \cup {e}] OBVIOUS
<1>2. x \in Projs /\ x.execs = [q.execs EXCEPT ![e] = "reserved"] /\ x.res = q.res \cup {e}
      /\ x.snap = q.snap /\ x.seen = q.seen /\ x.actions = q.actions /\ x.capable = q.capable
  BY <1>1 DEF Projs, Statuses, States
<1>3. x.seen \/ Plain(x) BY <1>2 DEF DerivedOf, Plain
<1>4. Same(x, Refresh(x)) BY <1>2, <1>3, RefreshSame
<1> QED BY <1>1, <1>2, <1>4 DEF Same, ApplyGitHubClaim

\* The projection has taken the row of an execution.
Reaches(q, r, e, s) ==
    /\ r \in Projs /\ DerivedOf(r) /\ CanReach(q.execs[e], s)
    /\ r.execs = [q.execs EXCEPT ![e] = s]
    /\ r.res = IF s \in Terminal THEN q.res \ {e} ELSE q.res
    /\ r.snap.obs = q.snap.obs

LEMMA DesiredMoves ==
    ASSUME NEW q \in Projs, DerivedOf(q), NEW e \in Exec, NEW s \in States
    PROVE  LET r == ApplyDesiredExecution(q, e, s) IN r = q \/ Reaches(q, r, e, s)
<1>1. PICK x : x = [q EXCEPT !.execs[e] = s, !.res = IF s \in Terminal THEN @ \ {e} ELSE @] OBVIOUS
<1>2. x \in Projs /\ x.execs = [q.execs EXCEPT ![e] = s]
      /\ x.res = (IF s \in Terminal THEN q.res \ {e} ELSE q.res)
      /\ x.snap = q.snap /\ x.seen = q.seen /\ x.actions = q.actions /\ x.capable = q.capable
  BY <1>1 DEF Projs, Statuses
<1>3. x.seen \/ Plain(x) BY <1>2 DEF DerivedOf, Plain
<1>4. Same(x, Refresh(x)) BY <1>2, <1>3, RefreshSame
<1> QED BY <1>1, <1>2, <1>4 DEF Same, ApplyDesiredExecution, Reaches

LEMMA FoldTyped ==
    ASSUME NEW q \in Projs, NEW u \in Updates
    PROVE  Fold(q, u) \in Snaps /\ Fold(q, u).obs = [q.snap.obs EXCEPT ![u.cmd.exec] = u.state]
<1>1. q.snap \in Snaps BY DEF Projs
<1>2. PICK s \in Snaps : s = q.snap BY <1>1
<1>3. u.cmd \in Commands /\ u.cmd.exec \in Exec /\ u.cmd.epoch \in Nat /\ u.state \in Observed
  BY DEF Updates, Commands, Observed
<1> QED BY <1>2, <1>3 DEF Fold, Snaps

LEMMA QuarantinesTyped == ASSUME NEW q \in Projs, NEW u PROVE Quarantines(q, u) \in Admins
BY DEF Quarantines, Projs, Admins

LEMMA UpdateMoves ==
    ASSUME NEW q \in Projs, DerivedOf(q), NEW u \in Updates
    PROVE  LET r == ApplyExecutionUpdate(q, u) e == u.cmd.exec IN
           /\ r \in Projs /\ DerivedOf(r)
           /\ r.execs = [q.execs EXCEPT ![e] = u.state]
           /\ r.res = IF u.state \in Terminal THEN q.res \ {e} ELSE q.res
           /\ r.snap.obs = [q.snap.obs EXCEPT ![e] = u.state]
<1>1. PICK x : x = [q EXCEPT !.execs[u.cmd.exec] = u.state, !.snap = Fold(q, u),
                             !.res = IF u.state \in Terminal THEN @ \ {u.cmd.exec} ELSE @,
                             !.admin = Quarantines(q, u)]
  OBVIOUS
<1>2. u.cmd.exec \in Exec /\ u.state \in Statuses
  BY DEF Updates, Commands, AgentStates, Statuses, States, Active, Clean
<1>3. x \in Projs /\ x.execs = [q.execs EXCEPT ![u.cmd.exec] = u.state]
      /\ x.res = (IF u.state \in Terminal THEN q.res \ {u.cmd.exec} ELSE q.res)
      /\ x.snap = Fold(q, u) /\ x.seen = q.seen /\ x.actions = q.actions /\ x.capable = q.capable
  BY <1>1, <1>2, FoldTyped, QuarantinesTyped DEF Projs
<1>4. x.seen \/ Plain(x) BY <1>3 DEF DerivedOf, Plain
<1>5. Same(x, Refresh(x)) BY <1>3, <1>4, RefreshSame
<1> QED BY <1>1, <1>3, <1>5, FoldTyped DEF Same, ApplyExecutionUpdate

LEMMA TeardownMoves ==
    ASSUME NEW q \in Projs, DerivedOf(q), NEW u \in Updates
    PROVE  LET r == ApplyReconciliationExecutionUpdate(q, u) IN
           /\ r \in Projs /\ DerivedOf(r)
           /\ r.execs = q.execs /\ r.res = q.res
           /\ r.snap.obs = [q.snap.obs EXCEPT ![u.cmd.exec] = u.state]
<1>1. PICK x : x = [q EXCEPT !.snap = Fold(q, u), !.admin = Quarantines(q, u)] OBVIOUS
<1>2. x \in Projs /\ x.execs = q.execs /\ x.res = q.res
      /\ x.snap = Fold(q, u) /\ x.seen = q.seen /\ x.actions = q.actions /\ x.capable = q.capable
  BY <1>1, FoldTyped, QuarantinesTyped DEF Projs
<1>3. x.seen \/ Plain(x) BY <1>2 DEF DerivedOf, Plain
<1>4. Same(x, Refresh(x)) BY <1>2, <1>3, RefreshSame
<1> QED BY <1>1, <1>2, <1>4, FoldTyped DEF Same, ApplyReconciliationExecutionUpdate

---------------------------------------------------------------------------
(* The inductive invariant *)

\* The order of the states, as far as a row may go.
Precedes(s, t) ==
    \/ s = t /\ s \in States
    \/ s = "reserved"  /\ t \in States
    \/ s = "preparing" /\ t \in States \ {"reserved"}
    \/ s = "running"   /\ t \in States \ {"reserved", "preparing"}
    \/ s \in {"cleaning", "cleanup_failed"} /\ t \in Terminal \cup {"cleanup_failed"}

\* An open row has a slot; the projection is behind the row, knows it unless its claim is
\* still to be projected, and has the slot of what it takes for open.
Claiming(e) == drv.op = "claim" /\ drv.exec = e
Row(e) ==
    /\ e \in slots <=> desired[e] \notin Terminal \cup {"none"}
    /\ p.execs[e] # "none" => Precedes(p.execs[e], desired[e])
    /\ desired[e] # "none" => p.execs[e] # "none" \/ Claiming(e)
    /\ p.execs[e] \notin Terminal \cup {"none"} => e \in p.res
    /\ e \in slots => e \in p.res \/ Claiming(e)
Rows == \A e \in Exec : Row(e)

\* What is committed and not projected yet is not ahead of the row, and neither is an
\* update that was recorded.
Driving ==
    /\ drv.op \in {"claim", "desired"} => Precedes(drv.state, desired[drv.exec])
    /\ drv.op = "claim" => drv.state = "reserved" /\ p.execs[drv.exec] = "none"
Recorded(u) ==
    IF Reconciliation(u.cmd) THEN desired[u.cmd.exec] \in Clean
                             ELSE Precedes(u.state, desired[u.cmd.exec])
Applied == \A u \in applied : Recorded(u)

\* The reader works on the head of the outbox, and acknowledges what is projected.
Reading ==
    /\ sess.link \in {"project", "ack"} =>
         sess.upd \in applied /\ outbox # <<>> /\ Head(outbox) = sess.upd
    /\ sess.link = "ack" =>
         /\ p.snap.obs[sess.upd.cmd.exec] # "none"
         /\ sess.upd.state \in Clean => p.execs[sess.upd.cmd.exec] \in Terminal

\* The Agent is at or past the states it has queued, and forgets an execution only when
\* the projection has its end; so is a journal that was lost.
Queued(q) == {q[i] : i \in DOMAIN q}
Queue(j, q) == \A u \in Queued(q) :
    IF j.obs[u.cmd.exec] = "none" THEN p.execs[u.cmd.exec] \in Terminal
                                  ELSE CanReach(u.state, j.obs[u.cmd.exec])
Queues == Queue(a, outbox) /\ \A l \in lost : Queue(l.journal, l.queue)

\* A Prepare is under way only to an Agent that has nothing of the execution.
Blank(e) == a.obs[e] = "none" /\ \A u \in Queued(outbox) : u.cmd.exec # e
Sending  == drv.op \in {"commit", "replay", "cancel", "send"} /\ drv.cmd.type = "prepare"
Unsent(e) == Blank(e) /\ (lost = {} => desired[e] = "reserved")
Prepares ==
    /\ Online /\ Sending => /\ Unsent(drv.cmd.exec) /\ sess.snap.obs[drv.cmd.exec] = "none"
                            /\ wire.type # "prepare"
    /\ wire.type = "prepare" => Unsent(wire.exec)
    /\ Online /\ wire.type = "prepare" =>
         drv.op = "await" /\ drv.cmd = wire /\ sess.snap.obs[wire.exec] = "none"

\* Nothing is sent between the capture of a snapshot and its projection.
Captured ==
    sess.link \in {"captured", "recorded"} =>
        /\ wire = NoCmd /\ drv.op \notin {"commit", "replay", "cancel", "send", "await"}
        /\ \A e \in Exec : sess.snap.obs[e] = "none" => a.obs[e] = "none"

\* What the projection has of the Agent while the session is up.
Follows(e) ==
    /\ p.snap.obs[e] = "none" => sess.snap.obs[e] = "none"
    /\ p.snap.obs[e] = "none" => a.obs[e] = "none" \/ (drv.op = "await" /\ drv.cmd.exec = e)
    /\ sess.snap.obs[e] \in Local => p.snap.obs[e] \in Local \/ a.obs[e] \notin Local
Followed == Online => \A e \in Exec : Follows(e)

\* A journal that was never lost knows what was seen of it.
Lived(e) == a.obs[e] # "none" \/ p.execs[e] \in Terminal
Seen(e) ==
    /\ desired[e] \notin {"none", "reserved"} => Lived(e)
    /\ sess.snap.obs[e] # "none" => Lived(e)
    /\ authority.snap.obs[e] # "none" => Lived(e)
Evidence == lost = {} => \A e \in Exec : Seen(e)

ExecutionsInv ==
    /\ Typed /\ DerivedOf(p) /\ Rows /\ Driving /\ Applied /\ Reading /\ Queues
    /\ Prepares /\ Captured /\ Followed /\ Evidence

---------------------------------------------------------------------------
(* Facts about the operators *)

LEMMA ReachPrecedes ==
    ASSUME NEW s \in Statuses, NEW t \in States, CanReach(s, t) PROVE s # "none" /\ Precedes(s, t)
BY DEF CanReach, Precedes, States, Statuses, Terminal, Clean, Active

LEMMA PrecedesTrans ==
    ASSUME NEW s, NEW t, NEW u, Precedes(s, t), Precedes(t, u) PROVE Precedes(s, u)
BY DEF Precedes, States, Terminal, Clean, Active

LEMMA PrecedesOf ==
    ASSUME NEW s, NEW t, Precedes(s, t)
    PROVE  s \in States /\ t \in States /\ (s \in Terminal => t = s) /\ (t = "reserved" => s = "reserved")
BY DEF Precedes, States, Terminal, Clean, Active

LEMMA PrecedesOrder ==
    ASSUME NEW s, NEW t, Precedes(s, t) PROVE Order[s] <= Order[t]
BY DEF Precedes, Order, States, Terminal, Clean, Active

LEMMA CommandFields ==
    ASSUME NEW c \in Commands
    PROVE  /\ c.type \in {"prepare", "start", "cancel"} /\ c.exec \in Exec /\ c.epoch \in Nat
           /\ c # NoCmd
           /\ c.type = "prepare" => c.expects = "reserved"
           /\ c.type = "start" => c.expects = "preparing"
           /\ c.type = "cancel" => c.expects \in Active
BY DEF Commands, Shape, NoCmd, Cmd

LEMMA UpdateFields ==
    ASSUME NEW u \in Updates
    PROVE  u.cmd \in Commands /\ u.cmd.exec \in Exec /\ u.state \in AgentStates /\ u.state \in States
BY CommandFields DEF Updates, AgentStates, States, Active, Clean

LEMMA QueueFacts ==
    ASSUME NEW q \in Seq(Updates)
    PROVE  /\ Queued(q) \subseteq Updates
           /\ q # <<>> => Head(q) \in Queued(q) /\ Tail(q) \in Seq(Updates) /\ Queued(Tail(q)) \subseteq Queued(q)
<1>1. Queued(q) \subseteq Updates BY DEF Queued
<1>2. ASSUME q # <<>> PROVE Head(q) \in Queued(q) /\ Tail(q) \in Seq(Updates)
  BY <1>2 DEF Queued
<1>3. ASSUME q # <<>> PROVE Queued(Tail(q)) \subseteq Queued(q)
  <2>1. \A i \in DOMAIN Tail(q) : i + 1 \in DOMAIN q /\ Tail(q)[i] = q[i + 1] BY <1>3
  <2> QED BY <2>1 DEF Queued
<1> QED BY <1>1, <1>2, <1>3

LEMMA ReportDoes ==
    ASSUME outbox \in Seq(Updates), NEW c \in Commands, NEW s \in AgentStates, NEW r \in BOOLEAN,
           Report(c, s, r)
    PROVE  /\ outbox' \in Seq(Updates) /\ Queued(outbox') \subseteq Queued(outbox) \cup {Update(c, s, r)}
           /\ Update(c, s, r) \in Updates /\ Update(c, s, r).cmd = c /\ Update(c, s, r).state = s
           /\ outbox # <<>> => outbox' # <<>> /\ Head(outbox') = Head(outbox)
<1>1. Update(c, s, r) \in Updates /\ Update(c, s, r).cmd = c /\ Update(c, s, r).state = s
  BY DEF Update, Updates
<1>2. PICK u \in Updates : u = Update(c, s, r) BY <1>1
<1>3. outbox' = outbox \/ outbox' = Append(outbox, u) BY <1>2 DEF Report
<1>4. Queued(Append(outbox, u)) \subseteq Queued(outbox) \cup {u}
  <2>1. \A i \in DOMAIN Append(outbox, u) : Append(outbox, u)[i] = u \/ (i \in DOMAIN outbox /\ Append(outbox, u)[i] = outbox[i])
    OBVIOUS
  <2> QED BY <2>1 DEF Queued
<1>5. Append(outbox, u) \in Seq(Updates) OBVIOUS
<1>6. outbox # <<>> => Append(outbox, u) # <<>> /\ Head(Append(outbox, u)) = Head(outbox) OBVIOUS
<1> QED BY <1>1, <1>2, <1>3, <1>4, <1>5, <1>6

---------------------------------------------------------------------------
(* Types *)

LEMMA SnapTyped ==
    /\ NoSnap \in Snaps /\ NoUpdate \in {NoUpdate} /\ Nothing \in [Exec -> Observed]
    /\ Nothing \in [Exec -> Statuses] /\ Nothing \in [Exec -> Fences]
BY DEF NoSnap, Snapshot, Snaps, Nothing, Observed, Statuses, Fences

LEMMA JournalTyped == ASSUME Typed, NEW r \in BOOLEAN PROVE Journal(r) \in Snaps /\ Journal(r).obs = a.obs
BY DEF Typed, AgentTyped, Journals, Journal, Snapshot, Snaps

LEMMA DownTyped ==
    ASSUME NEW l \in {"down", "captured", "closing"}
    PROVE  /\ Down(l) \in [link : Links, snap : Snaps, upd : Updates \cup {NoUpdate}]
           /\ Down(l).link = l /\ Down(l).snap = NoSnap
BY SnapTyped DEF Down, Links, NoUpdate

LEMMA IdleTyped ==
    Idle \in [op : Ops, cmd : Commands \cup {NoCmd}, exec : Exec \cup {0}, state : Statuses] /\ Idle.op = "idle"
BY DEF Idle, Ops, Statuses

\* The Controller starts with nothing, and from what SQLite holds.
LEMMA RestoreTyped ==
    ASSUME NEW d \in [Exec -> Statuses], NEW r \in SUBSET Exec, NEW cs \in SUBSET Commands,
           NEW f \in [Exec -> Fences], NEW ad \in Admins
    PROVE  Restore(d, r, cs, f, ad, TRUE) \in Projs
BY SnapTyped DEF Restore, Projs, Phases

LEMMA ReadinessTyped ==
    ASSUME NEW x \in [snap : Snaps, epoch : Nat], NEW r \in BOOLEAN
    PROVE  /\ [x EXCEPT !.snap.ready = r] \in [snap : Snaps, epoch : Nat]
           /\ [x EXCEPT !.snap.ready = r].snap.obs = x.snap.obs
BY DEF Snaps

LEMMA InitTyped == ASSUME Init PROVE Typed
<1>1. StoreTyped
  <2>1. IsFiniteSet({}) BY FS_EmptySet
  <2>2. 1 \in 1..MaxEpoch BY ExecutionConstants
  <2> QED BY <2>1, <2>2, SnapTyped DEF Init, StoreTyped, Admins
<1>2. p \in Projs BY RestoreTyped, SnapTyped DEF Init, Admins
<1>3. SessionTyped BY DownTyped DEF Init, SessionTyped
<1>4. DriverTyped BY IdleTyped DEF Init, DriverTyped, Sendings
<1>5. AgentTyped BY SnapTyped DEF Init, AgentTyped, Journals
<1> QED BY <1>1, <1>2, <1>3, <1>4, <1>5 DEF Typed, Init

LEMMA SessionTypes ==
    ASSUME ExecutionsInv, Session PROVE Typed'
<1> USE DEF Typed
<1>0. Typed BY DEF ExecutionsInv
<1>1. CASE Connect
  <2>1. PICK r \in BOOLEAN : sess' = [Down("captured") EXCEPT !.snap = Journal(r)] BY <1>1 DEF Connect
  <2>2. SessionTyped' BY <1>0, <2>1, DownTyped, JournalTyped DEF SessionTyped, Links
  <2>3. StoreTyped' BY <1>0, <1>1 DEF Connect, StoreTyped, Fences
  <2>4. AgentTyped' BY <1>0, <1>1 DEF Connect, AgentTyped, agent
  <2> QED BY <1>0, <1>1, <2>2, <2>3, <2>4 DEF Connect, DriverTyped
<1>2. CASE RecordAgentSnapshot
  <2>1. SessionTyped' BY <1>0, <1>2, DownTyped DEF RecordAgentSnapshot, SessionTyped, Links
  <2>2. StoreTyped' BY <1>0, <1>2 DEF RecordAgentSnapshot, StoreTyped, SessionTyped, Snaps, Admins
  <2> QED BY <1>0, <1>2, <2>1, <2>2 DEF RecordAgentSnapshot, DriverTyped, AgentTyped, agent, bounds
<1>3. CASE ProjectSnapshot
  <2>1. sess.snap \in Snaps BY <1>0 DEF SessionTyped
  <2>2. p' \in Projs BY <1>0, <1>3, <2>1, ReconcileDoes DEF ProjectSnapshot
  <2>3. SessionTyped' BY <1>0, <1>3 DEF ProjectSnapshot, SessionTyped, Links
  <2> QED BY <1>0, <1>3, <2>2, <2>3 DEF ProjectSnapshot, StoreTyped, store, DriverTyped, AgentTyped, agent, bounds
<1>4. CASE RecordAgentExecutionUpdate
  <2>1. Head(outbox) \in Updates BY <1>0, <1>4, QueueFacts DEF RecordAgentExecutionUpdate, AgentTyped
  <2>2. PICK u \in Updates : u = Head(outbox) BY <2>1
  <2>3. u.cmd.exec \in Exec /\ u.state \in Statuses BY UpdateFields DEF Statuses
  <2>4. SessionTyped' BY <1>0, <1>4, <2>2, DownTyped DEF RecordAgentExecutionUpdate, SessionTyped, Links
  <2>5. /\ desired' \in {desired, [desired EXCEPT ![u.cmd.exec] = u.state]}
        /\ slots' \subseteq slots /\ admin' \in {admin, "quarantined"}
        /\ applied' \in {applied, applied \cup {u}}
    BY <1>4, <2>2 DEF RecordAgentExecutionUpdate
  <2>6. StoreTyped' BY <1>0, <1>4, <2>3, <2>5 DEF RecordAgentExecutionUpdate, StoreTyped, Admins
  <2> QED BY <1>0, <1>4, <2>4, <2>6 DEF RecordAgentExecutionUpdate, DriverTyped, AgentTyped, agent, bounds
<1>5. CASE ProjectUpdate
  <2>1. sess.upd \in Updates BY <1>0, <1>5 DEF ProjectUpdate, SessionTyped
  <2>2. p' \in Projs
    <3>1. PICK u \in Updates : u = sess.upd BY <2>1
    <3>2. p' \in {p, ApplyExecutionUpdate(p, u), ApplyReconciliationExecutionUpdate(p, u)}
      BY <1>5, <3>1 DEF ProjectUpdate
    <3>3. DerivedOf(p) BY DEF ExecutionsInv
    <3>4. ApplyExecutionUpdate(p, u) \in Projs BY <1>0, <3>3, UpdateMoves
    <3>5. ApplyReconciliationExecutionUpdate(p, u) \in Projs BY <1>0, <3>3, TeardownMoves
    <3> QED BY <1>0, <3>2, <3>4, <3>5
  <2>3. SessionTyped' BY <1>0, <1>5, DownTyped DEF ProjectUpdate, SessionTyped, Links
  <2> QED BY <1>0, <1>5, <2>2, <2>3 DEF ProjectUpdate, StoreTyped, store, DriverTyped, AgentTyped, agent, bounds
<1>6. CASE Acknowledge
  <2>1. sess.upd \in Updates /\ outbox # <<>>
    BY <1>0, <1>6 DEF Acknowledge, SessionTyped, ExecutionsInv, Reading
  <2>2. PICK u \in Updates : u = sess.upd BY <2>1
  <2>3. u.cmd.exec \in Exec /\ u.state \in Statuses BY UpdateFields DEF Statuses
  <2>4. outbox' \in Seq(Updates) BY <1>0, <1>6, <2>1, QueueFacts DEF Acknowledge, AgentTyped
  <2>5. a' \in Journals BY <1>0, <1>6, <2>2, <2>3 DEF Acknowledge, AgentTyped, Journals, Observed
  <2>6. AgentTyped' BY <1>0, <1>6, <2>4, <2>5 DEF Acknowledge, AgentTyped
  <2>7. DriverTyped'
    <3>1. drv' = drv \/ (drv.op = "await" /\ drv' = [drv EXCEPT !.op = "answered", !.state = u.state])
      BY <1>6, <2>2 DEF Acknowledge
    <3> QED BY <1>0, <2>3, <3>1 DEF DriverTyped, Sendings, Ops
  <2>8. SessionTyped' BY <1>0, <1>6 DEF Acknowledge, SessionTyped, Links
  <2> QED BY <1>0, <1>6, <2>6, <2>7, <2>8 DEF Acknowledge, StoreTyped, store, bounds
<1>7. CASE HandleAgentDisconnect
  <2>1. SessionTyped' BY <1>7, DownTyped DEF HandleAgentDisconnect, SessionTyped
  <2>2. p' \in Projs BY <1>0, <1>7, OfflineSame DEF HandleAgentDisconnect, Same
  <2>3. authority' \in {authority, [authority EXCEPT !.snap.ready = FALSE]}
    BY <1>7 DEF HandleAgentDisconnect
  <2>4. authority' \in [snap : Snaps, epoch : Nat] BY <1>0, <2>3, ReadinessTyped DEF StoreTyped
  <2>5. StoreTyped' BY <1>0, <1>7, <2>4 DEF HandleAgentDisconnect, StoreTyped
  <2> QED BY <1>0, <1>7, <2>1, <2>2, <2>5 DEF HandleAgentDisconnect, DriverTyped, AgentTyped, agent, bounds
<1> QED BY <1>1, <1>2, <1>3, <1>4, <1>5, <1>6, <1>7 DEF Session

LEMMA PrepareTyped ==
    ASSUME NEW e \in Exec, NEW ep \in Nat
    PROVE  LET c == Cmd("prepare", e, ep, "reserved") IN c \in Commands /\ c.exec = e /\ c.type = "prepare"
BY DEF Cmd, Commands, Shape, States, Observed

LEMMA StartTyped ==
    ASSUME NEW e \in Exec, NEW ep \in Nat, NEW n \in Nat
    PROVE  LET c == [Cmd("start", e, ep, "preparing") EXCEPT !.attempt = n] IN
           c \in Commands /\ c.exec = e /\ c.type = "start"
BY DEF Cmd, Commands, Shape, States, Active, Observed

LEMMA CancelTyped ==
    ASSUME NEW e \in Exec, NEW ep \in Nat, NEW o \in Active
    PROVE  LET c == [Cmd("cancel", e, ep, o) EXCEPT !.at = o] IN
           c \in Commands /\ c.exec = e /\ c.type = "cancel"
BY DEF Cmd, Commands, Shape, States, Active, Observed, AgentStates

\* An action of the projection is of the plan that its fields give.
LEMMA ActionOfPlan ==
    ASSUME ExecutionsInv, NEW x \in p.actions
    PROVE  x \in Actions /\ p.seen /\ Says(p, p.snap, x.exec, x)
<1>1. p \in Projs /\ p.snap \in Snaps /\ DerivedOf(p) BY DEF ExecutionsInv, Typed, Projs
<1>2. p.seen /\ x \in Acts(p, p.snap) BY <1>1 DEF DerivedOf, Plain
<1>3. PICK e \in Exec : x \in Plan(p, p.snap, e).act BY <1>2 DEF Acts
<1>4. Says(p, p.snap, e, x) BY <1>1, <1>3, PlanSays
<1> QED BY <1>2, <1>4 DEF Says

LEMMA CommitTypes ==
    ASSUME ExecutionsInv, NEW e \in Exec, Commits(e) PROVE Typed'
<1> USE DEF Typed
<1>0. Typed /\ epoch \in Nat /\ DerivedOf(p) BY ExecutionConstants DEF ExecutionsInv, StoreTyped
<1>1. CASE CommitClaim(e)
  <2>1. DriverTyped' BY <1>1 DEF CommitClaim, Do, DriverTyped, Ops, Sendings, States, Statuses
  <2>2. StoreTyped' BY <1>0, <1>1 DEF CommitClaim, StoreTyped, Statuses, States
  <2> QED BY <1>0, <1>1, <2>1, <2>2 DEF CommitClaim, SessionTyped, AgentTyped, agent, bounds
<1>2. CASE SendPrepare(e)
  <2>1. Cmd("prepare", e, epoch, "reserved") \in Commands BY <1>0, PrepareTyped
  <2>2. DriverTyped' BY <1>2, <2>1 DEF SendPrepare, Do, DriverTyped, Ops, Sendings, Statuses
  <2> QED BY <1>0, <1>2, <2>2 DEF SendPrepare, StoreTyped, store, SessionTyped, AgentTyped, agent, bounds
<1>3. CASE SendStart(e)
  <2>1. PICK n : /\ n = Cardinality({c \in issued : c.type = "start" /\ c.exec = e}) + 1
                 /\ Do("commit", [Cmd("start", e, epoch, "preparing") EXCEPT !.attempt = n], e, "none")
    BY <1>3 DEF SendStart
  <2>2. n \in Nat
    <3>1. IsFiniteSet(issued) BY <1>0 DEF StoreTyped
    <3>2. IsFiniteSet({c \in issued : c.type = "start" /\ c.exec = e}) BY <3>1, FS_Subset
    <3>3. Cardinality({c \in issued : c.type = "start" /\ c.exec = e}) \in Nat BY <3>2, FS_CardinalityType
    <3> QED BY <2>1, <3>3
  <2>3. DriverTyped'
    <3>1. [Cmd("start", e, epoch, "preparing") EXCEPT !.attempt = n] \in Commands BY <1>0, <2>2, StartTyped
    <3> QED BY <2>1, <3>1 DEF Do, DriverTyped, Ops, Sendings, Statuses
  <2>4. fence' \in [Exec -> Fences] BY <1>0, <1>3 DEF SendStart, StoreTyped, Fences
  <2>5. p' \in Projs BY <1>0, <1>3, <2>4, FenceSame DEF SendStart, Same
  <2>6. StoreTyped' BY <1>0, <1>3, <2>4 DEF SendStart, StoreTyped
  <2> QED BY <1>0, <1>3, <2>3, <2>5, <2>6 DEF SendStart, SessionTyped, AgentTyped, agent, bounds
<1>4. CASE SettleFence(e)
  <2>1. fence' \in [Exec -> Fences] BY <1>0, <1>4 DEF SettleFence, StoreTyped, Fences
  <2>2. p' \in Projs BY <1>0, <1>4, <2>1, FenceSame DEF SettleFence, Same
  <2>3. StoreTyped' BY <1>0, <1>4, <2>1 DEF SettleFence, StoreTyped
  <2> QED BY <1>0, <1>4, <2>2, <2>3 DEF SettleFence, DriverTyped, SessionTyped, AgentTyped, agent, bounds
<1>5. CASE ReplayPrepare(e)
  <2>1. PICK c \in issued : Do("replay", c, e, "none") BY <1>5 DEF ReplayPrepare
  <2>2. DriverTyped' BY <1>0, <2>1 DEF Do, DriverTyped, StoreTyped, Ops, Sendings, Statuses
  <2> QED BY <1>0, <1>5, <2>2 DEF ReplayPrepare, StoreTyped, store, SessionTyped, AgentTyped, agent, bounds
<1>6. CASE SendReconciliationCancel(e)
  <2>1. PICK o \in Active : Do("cancel", [Cmd("cancel", e, epoch, o) EXCEPT !.at = o], e, "none")
    BY <1>6 DEF SendReconciliationCancel
  <2>2. DriverTyped'
    <3>1. [Cmd("cancel", e, epoch, o) EXCEPT !.at = o] \in Commands BY <1>0, CancelTyped
    <3> QED BY <2>1, <3>1 DEF Do, DriverTyped, Ops, Sendings, Statuses
  <2> QED BY <1>0, <1>6, <2>2 DEF SendReconciliationCancel, StoreTyped, store, SessionTyped, AgentTyped, agent, bounds
<1>7. CASE AdoptObservation(e)
  <2>1. PICK x \in ActionOf(e, "adopt") : /\ desired' = [desired EXCEPT ![e] = x.observed]
                                          /\ Do("desired", NoCmd, e, x.observed)
    BY <1>7 DEF AdoptObservation
  <2>2. x.observed \in States
    <3>1. x \in p.actions /\ x.kind = "adopt" BY DEF ActionOf
    <3>2. x \in Actions /\ x.observed # "none" BY <3>1, ActionOfPlan DEF Says
    <3> QED BY <3>2 DEF Actions, Observed, AgentStates, States, Active, Clean
  <2>3. DriverTyped' BY <2>1, <2>2 DEF Do, DriverTyped, Ops, Sendings, Statuses
  <2>4. StoreTyped' BY <1>0, <1>7, <2>1, <2>2 DEF AdoptObservation, StoreTyped, Statuses
  <2> QED BY <1>0, <1>7, <2>3, <2>4 DEF AdoptObservation, SessionTyped, AgentTyped, agent, bounds
<1>8. CASE FailDesired(e)
  <2>1. DriverTyped' BY <1>8 DEF FailDesired, Do, DriverTyped, Ops, Sendings, States, Clean, Statuses
  <2>2. StoreTyped' BY <1>0, <1>8 DEF FailDesired, StoreTyped, Statuses, States, Clean
  <2> QED BY <1>0, <1>8, <2>1, <2>2 DEF FailDesired, SessionTyped, AgentTyped, agent, bounds
<1> QED BY <1>1, <1>2, <1>3, <1>4, <1>5, <1>6, <1>7, <1>8 DEF Commits

LEMMA CoordinatorTypes ==
    ASSUME ExecutionsInv, Coordinator PROVE Typed'
<1> USE DEF Typed
<1>0. Typed /\ DerivedOf(p) BY DEF ExecutionsInv
<1>1. CASE ProjectDesired
  <2>1. drv.exec \in Exec /\ drv.state \in States BY <1>0, <1>1 DEF ProjectDesired, DriverTyped
  <2>2. PICK e \in Exec, s \in States : e = drv.exec /\ s = drv.state BY <2>1
  <2>3. p' \in {ApplyGitHubClaim(p, e), ApplyDesiredExecution(p, e, s)} BY <1>1, <2>2 DEF ProjectDesired
  <2>4. ApplyGitHubClaim(p, e) \in Projs BY <1>0, ClaimMoves
  <2>5. ApplyDesiredExecution(p, e, s) \in Projs BY <1>0, DesiredMoves DEF Reaches
  <2>6. p' \in Projs BY <2>3, <2>4, <2>5
  <2>7. DriverTyped' BY <1>1, IdleTyped DEF ProjectDesired, DriverTyped, Sendings
  <2> QED BY <1>0, <1>1, <2>6, <2>7 DEF ProjectDesired, StoreTyped, store, SessionTyped, AgentTyped, agent, bounds
<1>2. CASE CommitCommand
  <2>1. drv.cmd \in Commands BY <1>0, <1>2 DEF CommitCommand, DriverTyped, Sendings
  <2>2. PICK c \in Commands : c = drv.cmd BY <2>1
  <2>3. issued' \in {issued, issued \cup {c}} /\ drv' \in {Idle, [drv EXCEPT !.op = "send"]}
    BY <1>2, <2>2 DEF CommitCommand
  <2>4. IsFiniteSet(issued \cup {c}) BY <1>0, FS_AddElement DEF StoreTyped
  <2>5. StoreTyped' BY <1>0, <1>2, <2>3, <2>4 DEF CommitCommand, StoreTyped
  <2>6. DriverTyped' BY <1>0, <2>1, <2>3, IdleTyped DEF DriverTyped, Sendings, Ops
  <2> QED BY <1>0, <1>2, <2>5, <2>6 DEF CommitCommand, SessionTyped, AgentTyped, agent, bounds
<1>3. CASE SendCommand
  <2>1. drv.cmd \in Commands BY <1>0, <1>3 DEF SendCommand, DriverTyped, Sendings
  <2>2. p' \in Projs BY <1>0, <1>3, <2>1, CommandSame DEF SendCommand, Same
  <2>3. wire' \in {wire, drv.cmd} /\ drv' \in {Idle, [drv EXCEPT !.op = "await"]} BY <1>3 DEF SendCommand
  <2>4. DriverTyped' BY <1>0, <2>1, <2>3, IdleTyped DEF DriverTyped, Sendings, Ops
  <2>5. AgentTyped' BY <1>0, <1>3, <2>1, <2>3 DEF SendCommand, AgentTyped, agent
  <2> QED BY <1>0, <1>3, <2>2, <2>4, <2>5 DEF SendCommand, StoreTyped, store, SessionTyped, bounds
<1>4. CASE CommandAnswered
  <2>1. fence' \in [Exec -> Fences] BY <1>0, <1>4 DEF CommandAnswered, StoreTyped, Fences
  <2>2. p' \in Projs BY <1>0, <1>4, <2>1, FenceSame DEF CommandAnswered, Same
  <2>3. DriverTyped' BY <1>4, IdleTyped DEF CommandAnswered, DriverTyped, Sendings
  <2>4. StoreTyped' BY <1>0, <1>4, <2>1 DEF CommandAnswered, StoreTyped
  <2> QED BY <1>0, <1>4, <2>2, <2>3, <2>4 DEF CommandAnswered, SessionTyped, AgentTyped, agent, bounds
<1> QED BY <1>1, <1>2, <1>3, <1>4 DEF Coordinator

\* The Agent takes a command it does not have.
Accepts(c, s) ==
    /\ c \notin a.cmds
    /\ a.obs[c.exec] = IF c.expects = "reserved" THEN "none" ELSE c.expects
    /\ s \in CASE c.type = "prepare" -> {"preparing", "failed"}
               [] c.type = "start"   -> {"running", "failed"}
               [] c.type = "cancel"  -> {"cleaning"}
    /\ a' = [a EXCEPT !.cmds = @ \cup {c}, !.max = c.epoch, !.obs[c.exec] = s]
    /\ Report(c, s, FALSE) /\ sess' = sess

LEMMA AgentHandlesDoes ==
    ASSUME Typed, AgentHandles
    PROVE  /\ wire \in Commands
           /\ \/ a.obs[wire.exec] \in AgentStates /\ Report(wire, a.obs[wire.exec], TRUE) /\ a' = a /\ sess' = sess
              \/ \E s \in AgentStates : Accepts(wire, s)
              \/ a' = a /\ outbox' = outbox /\ sess' \in {sess, Down("closing")}
<1>1. wire \in Commands BY DEF Typed, AgentTyped, AgentHandles
<1>2. wire.exec \in Exec /\ wire.type \in {"prepare", "start", "cancel"} BY <1>1, CommandFields
<1>3. a.obs[wire.exec] \in Observed BY <1>2 DEF Typed, AgentTyped, Journals
<1>4. \A s \in CASE wire.type = "prepare" -> {"preparing", "failed"}
                 [] wire.type = "start"   -> {"running", "failed"}
                 [] wire.type = "cancel"  -> {"cleaning"} : s \in AgentStates
  BY <1>2 DEF AgentStates
<1> QED BY <1>1, <1>3, <1>4 DEF AgentHandles, Accepts, Observed

\* The runner moves on, under a command of its execution.
Moves(e, c, s) ==
    /\ c \in Commands /\ c.exec = e /\ s \in {"cleaning", "released", "cleanup_failed"}
    /\ a.obs[e] \in {"running", "cleaning"} /\ a.obs[e] # s
    /\ a' = [a EXCEPT !.obs[e] = s, !.tomb = IF s = "cleanup_failed" THEN @ \cup {e} ELSE @]
    /\ Report(c, s, FALSE)

LEMMA AgentMovesDoes ==
    ASSUME Typed, NEW e \in Exec, AgentMoves(e) PROVE \E c, s : Moves(e, c, s)
BY DEF AgentMoves, Moves, Typed, AgentTyped, Journals

LEMMA AgentTypes ==
    ASSUME ExecutionsInv, AgentHandles \/ \E e \in Exec : AgentMoves(e) PROVE Typed'
<1> USE DEF Typed
<1>0. Typed BY DEF ExecutionsInv
<1>1. CASE AgentHandles
  <2>1. wire \in Commands /\ wire.exec \in Exec /\ wire.epoch \in Nat BY <1>0, <1>1, AgentHandlesDoes, CommandFields
  <2>2. PICK c \in Commands : c = wire BY <2>1
  <2>3. a' \in Journals /\ outbox' \in Seq(Updates) /\ sess' \in {sess, Down("closing")}
    <3>1. CASE a.obs[c.exec] \in AgentStates /\ Report(c, a.obs[c.exec], TRUE) /\ a' = a /\ sess' = sess
      BY <1>0, <3>1, ReportDoes DEF AgentTyped
    <3>2. CASE \E s \in AgentStates : Accepts(c, s)
      <4>1. PICK s \in AgentStates : Accepts(c, s) BY <3>2
      <4>2. a' \in Journals BY <1>0, <2>1, <2>2, <4>1 DEF Accepts, AgentTyped, Journals, Observed
      <4> QED BY <1>0, <4>1, <4>2, ReportDoes DEF Accepts, AgentTyped
    <3>3. CASE a' = a /\ outbox' = outbox /\ sess' \in {sess, Down("closing")} BY <1>0, <3>3 DEF AgentTyped
    <3> QED BY <1>0, <1>1, <2>2, <3>1, <3>2, <3>3, AgentHandlesDoes
  <2>4. SessionTyped' BY <1>0, <2>3, DownTyped DEF SessionTyped
  <2>5. AgentTyped' BY <1>0, <1>1, <2>3 DEF AgentHandles, AgentTyped
  <2> QED BY <1>0, <1>1, <2>4, <2>5 DEF AgentHandles, StoreTyped, store, DriverTyped, bounds
<1>2. CASE \E e \in Exec : AgentMoves(e)
  <2>1. PICK e \in Exec : AgentMoves(e) BY <1>2
  <2>2. PICK c, s : Moves(e, c, s) BY <1>0, <2>1, AgentMovesDoes
  <2>3. s \in AgentStates BY <2>2 DEF Moves, AgentStates
  <2>4. outbox' \in Seq(Updates) BY <1>0, <2>2, <2>3, ReportDoes DEF Moves, AgentTyped
  <2>5. a' \in Journals BY <1>0, <2>2, <2>3 DEF Moves, AgentTyped, Journals, Observed
  <2>6. AgentTyped' BY <1>0, <2>1, <2>4, <2>5 DEF AgentMoves, AgentTyped
  <2> QED BY <1>0, <2>1, <2>6 DEF AgentMoves, StoreTyped, store, SessionTyped, DriverTyped, bounds
<1> QED BY <1>1, <1>2

LEMMA FaultTypes ==
    ASSUME ExecutionsInv, Faults \/ Operator PROVE Typed'
<1> USE DEF Typed
<1>0. Typed /\ DerivedOf(p) BY DEF ExecutionsInv
<1>1. CASE LoseSession
  <2>1. SessionTyped' BY <1>0, <1>1 DEF LoseSession, SessionTyped, Links
  <2> QED BY <1>0, <1>1, <2>1 DEF LoseSession, StoreTyped, store, DriverTyped, AgentTyped, agent
<1>2. CASE AgentStateLost
  <2>1. AgentTyped' BY <1>0, <1>2, SnapTyped DEF AgentStateLost, AgentTyped, Losses, Journals
  <2> QED BY <1>0, <1>2, <2>1 DEF AgentStateLost, StoreTyped, store, DriverTyped, SessionTyped
<1>3. CASE AgentStateBack
  <2>1. AgentTyped' BY <1>0, <1>3 DEF AgentStateBack, AgentTyped, Losses
  <2> QED BY <1>0, <1>3, <2>1 DEF AgentStateBack, StoreTyped, store, DriverTyped, SessionTyped, bounds
<1>4. CASE Restart
  <2>1. p' \in Projs BY <1>0, <1>4, RestoreTyped DEF Restart, StoreTyped
  <2>2. StoreTyped' BY <1>0, <1>4, ExecutionConstants DEF Restart, StoreTyped
  <2>3. SessionTyped' BY <1>4, DownTyped DEF Restart, SessionTyped
  <2>4. DriverTyped' BY <1>4, IdleTyped DEF Restart, DriverTyped, Sendings
  <2> QED BY <1>0, <1>4, <2>1, <2>2, <2>3, <2>4 DEF Restart, AgentTyped, agent
<1>5. CASE SetNodeAdministrativeState
  <2>1. PICK next \in {"active", "draining", "revoked"} :
          /\ admin' = next /\ mgmt' = next
          /\ sess' \in {sess, [sess EXCEPT !.link = "closing"], Down("down")}
    BY <1>5 DEF SetNodeAdministrativeState
  <2>2. SessionTyped' BY <1>0, <2>1, DownTyped DEF SessionTyped, Links
  <2>3. StoreTyped' BY <1>0, <1>5, <2>1 DEF SetNodeAdministrativeState, StoreTyped, Admins
  <2> QED BY <1>0, <1>5, <2>1, <2>2, <2>3 DEF SetNodeAdministrativeState, DriverTyped, AgentTyped, agent
<1>6. CASE ProjectAdministrativeState
  <2>1. p' \in Projs BY <1>0, <1>6, AdminSame DEF ProjectAdministrativeState, Same
  <2> QED BY <1>0, <1>6, <2>1 DEF ProjectAdministrativeState, StoreTyped, store, DriverTyped, SessionTyped, AgentTyped, agent
<1>7. CASE RunnerUpdateExpires
  <2>1. p' \in Projs BY <1>0, <1>7, UpdateSame DEF RunnerUpdateExpires, Same
  <2> QED BY <1>0, <1>7, <2>1 DEF RunnerUpdateExpires, StoreTyped, store, DriverTyped, SessionTyped, AgentTyped, agent
<1>8. CASE HandleAgentReadiness
  <2>1. PICK r \in BOOLEAN : /\ p' \in {p, ApplyAgentReadiness(p, r)}
                             /\ authority' \in {authority, [authority EXCEPT !.snap.ready = r]}
                             /\ sess' \in {sess, Down("closing")}
    BY <1>8 DEF HandleAgentReadiness
  <2>2. p' \in Projs BY <1>0, <2>1, ReadySame DEF Same
  <2>3. authority' \in [snap : Snaps, epoch : Nat] BY <1>0, <2>1, ReadinessTyped DEF StoreTyped
  <2>4. StoreTyped' BY <1>0, <1>8, <2>3 DEF HandleAgentReadiness, StoreTyped
  <2>5. SessionTyped' BY <1>0, <2>1, DownTyped DEF SessionTyped
  <2> QED BY <1>0, <1>8, <2>2, <2>4, <2>5 DEF HandleAgentReadiness, DriverTyped, AgentTyped, agent
<1> QED BY <1>1, <1>2, <1>3, <1>4, <1>5, <1>6, <1>7, <1>8 DEF Faults, Operator

LEMMA NextTyped == ASSUME ExecutionsInv, Next PROVE Typed'
BY SessionTypes, CommitTypes, CoordinatorTypes, AgentTypes, FaultTypes DEF Next

---------------------------------------------------------------------------
(* What keeps the parts of the invariant *)

Ended(e) == p.execs[e] \in Terminal => p'.execs[e] \in Terminal

LEMMA RowsKeep ==
    ASSUME Typed, Rows, Driving, Applied, p'.execs = p.execs, p'.res = p.res,
           UNCHANGED <<desired, slots, applied>>,
           drv' = drv \/ (drv.op # "claim" /\ drv'.op \notin {"claim", "desired"})
    PROVE  Rows' /\ Driving' /\ Applied'
<1>1. Rows' BY DEF Rows, Row, Claiming
<1>2. Driving' BY DEF Driving
<1>3. Applied' BY DEF Applied, Recorded
<1> QED BY <1>1, <1>2, <1>3

LEMMA ReadingKeep ==
    ASSUME Typed, Reading, applied \subseteq applied', p'.snap.obs = p.snap.obs,
           sess'.link \in {"project", "ack"} => sess'.link = sess.link /\ sess'.upd = sess.upd,
           outbox # <<>> => outbox' # <<>> /\ Head(outbox') = Head(outbox),
           \A e \in Exec : Ended(e)
    PROVE  Reading'
<1>1. sess.link \in {"project", "ack"} => sess.upd \in Updates BY DEF Typed, SessionTyped
<1>2. sess.link \in {"project", "ack"} => sess.upd.cmd.exec \in Exec BY <1>1, UpdateFields
<1> QED BY <1>2 DEF Reading, Ended

LEMMA QueueKeeps ==
    ASSUME NEW j, NEW q \in Seq(Updates), Queue(j, q), \A e \in Exec : Ended(e)
    PROVE  \A u \in Queued(q) :
             IF j.obs[u.cmd.exec] = "none" THEN p'.execs[u.cmd.exec] \in Terminal
                                           ELSE CanReach(u.state, j.obs[u.cmd.exec])
BY QueueFacts, UpdateFields DEF Queue, Ended

LEMMA LostKeep ==
    ASSUME Typed, Queues, UNCHANGED lost, \A e \in Exec : Ended(e)
    PROVE  \A l \in lost' : Queue(l.journal, l.queue)'
<1> SUFFICES ASSUME NEW l \in lost PROVE Queue(l.journal, l.queue)' OBVIOUS
<1>1. l.queue \in Seq(Updates) BY DEF Typed, AgentTyped, Losses
<1>2. Queue(l.journal, l.queue) BY DEF Queues
<1> QED BY <1>1, <1>2, QueueKeeps DEF Queue, Queued

LEMMA QueuesKeep ==
    ASSUME Typed, Queues, UNCHANGED <<a, outbox, lost>>, \A e \in Exec : Ended(e)
    PROVE  Queues'
<1>1. outbox \in Seq(Updates) /\ Queue(a, outbox) BY DEF Typed, AgentTyped, Queues
<1>2. Queue(a, outbox)' BY <1>1, QueueKeeps DEF Queue, Queued
<1> QED BY <1>2, LostKeep DEF Queues

LEMMA PreparesKeep ==
    ASSUME Typed, Prepares, UNCHANGED wire, \A e \in Exec : Unsent(e) => Unsent(e)',
           Online' => Online /\ sess'.snap = sess.snap,
           drv' = drv \/ /\ Sending' => Sending /\ drv'.cmd = drv.cmd
                         /\ drv.op = "await" => ~Online' \/ wire.type # "prepare"
    PROVE  Prepares'
<1>1. \A e \in Exec : Unsent(e) => Unsent(e)' OBVIOUS
<1>2. Sending => drv.cmd.exec \in Exec BY CommandFields DEF Sending, Typed, DriverTyped, Sendings
<1>3. wire.type = "prepare" => wire.exec \in Exec
  BY CommandFields DEF Typed, AgentTyped, NoCmd, Cmd
<1>4. wire'.type = "prepare" => Unsent(wire.exec)' BY <1>1, <1>3 DEF Prepares
<1>5. drv' = drv => Prepares' BY <1>1, <1>2, <1>4 DEF Prepares, Sending
<1>6. drv' # drv => Prepares' BY <1>1, <1>2, <1>4 DEF Prepares
<1> QED BY <1>5, <1>6

LEMMA CapturedKeep ==
    ASSUME Captured,
           sess'.link \in {"captured", "recorded"} =>
               /\ sess.link \in {"captured", "recorded"} /\ sess'.snap = sess.snap /\ wire' = wire
               /\ drv'.op = drv.op \/ drv'.op \notin {"commit", "replay", "cancel", "send", "await"}
               /\ \A e \in Exec : a.obs[e] = "none" => a'.obs[e] = "none"
    PROVE  Captured'
BY DEF Captured

LEMMA FollowedKeep ==
    ASSUME Followed,
           Online' => /\ Online /\ sess'.snap = sess.snap /\ p'.snap.obs = p.snap.obs /\ a'.obs = a.obs
                      /\ drv.op = "await" => drv'.op = "await" /\ drv'.cmd = drv.cmd
    PROVE  Followed'
BY DEF Followed, Follows

LEMMA EvidenceKeep ==
    ASSUME Evidence, lost' = {} => lost = {}, \A e \in Exec : Lived(e) => Lived(e)',
           \A e \in Exec : desired'[e] \notin {"none", "reserved"} => desired[e] \notin {"none", "reserved"},
           \A e \in Exec : sess'.snap.obs[e] # "none" => sess.snap.obs[e] # "none",
           \A e \in Exec : authority'.snap.obs[e] # "none" => authority.snap.obs[e] # "none"
    PROVE  Evidence'
BY DEF Evidence, Seen

\* A step that only redraws the projection, ends a session or moves the coordinator on.
Calm ==
    /\ Same(p, p') /\ UNCHANGED <<desired, slots, applied, a, outbox, lost, wire>>
    /\ authority'.snap.obs = authority.snap.obs
    /\ sess' = sess \/ (sess'.link \in {"down", "closing"} /\ sess'.snap \in {sess.snap, NoSnap})
    /\ drv' = drv \/ /\ drv.op # "claim" /\ drv'.op \notin {"claim", "desired"}
                     /\ Sending' => Sending /\ drv'.cmd = drv.cmd
                     /\ drv.op = "await" => ~Online'
                     /\ sess.link \in {"captured", "recorded"} =>
                          drv'.op \notin {"commit", "replay", "cancel", "send", "await"}

LEMMA NothingSeen == \A e \in Exec : NoSnap.obs[e] = "none"
BY DEF NoSnap, Snapshot, Nothing

LEMMA CalmKeeps == ASSUME ExecutionsInv, Typed', Calm PROVE ExecutionsInv'
<1> USE DEF ExecutionsInv
<1>1. Same(p, p') /\ \A e \in Exec : Ended(e) BY DEF Calm, Same, Ended
<1>2. Online' => Online /\ sess' = sess BY DEF Calm, Online
<1>3. Rows' /\ Driving' /\ Applied' BY <1>1, RowsKeep DEF Calm, Same
<1>4. Reading' BY <1>1, ReadingKeep DEF Calm, Same
<1>5. Queues' BY <1>1, QueuesKeep DEF Calm
<1>6. Prepares'
  <2>1. \A e \in Exec : Unsent(e) => Unsent(e)' BY DEF Calm, Unsent, Blank, Queued
  <2>2. drv' = drv \/ /\ Sending' => Sending /\ drv'.cmd = drv.cmd
                      /\ drv.op = "await" => ~Online'
    BY DEF Calm
  <2> QED BY <1>2, <2>1, <2>2, PreparesKeep DEF Calm
<1>7. Captured' BY CapturedKeep DEF Calm
<1>8. Followed' BY <1>1, <1>2, FollowedKeep DEF Calm, Same
<1>9. Evidence'
  <2>1. \A e \in Exec : Lived(e) => Lived(e)' BY <1>1 DEF Calm, Lived, Ended
  <2>2. \A e \in Exec : sess'.snap.obs[e] # "none" => sess.snap.obs[e] # "none" BY NothingSeen DEF Calm
  <2> QED BY <2>1, <2>2, EvidenceKeep DEF Calm
<1> QED BY <1>1, <1>3, <1>4, <1>5, <1>6, <1>7, <1>8, <1>9 DEF Same

LEMMA SameSelf == ASSUME ExecutionsInv PROVE Same(p, p)
BY DEF ExecutionsInv, Typed, Same

LEMMA DisconnectCalm == ASSUME ExecutionsInv, HandleAgentDisconnect PROVE Calm
<1>1. p \in Projs /\ authority \in [snap : Snaps, epoch : Nat] BY DEF ExecutionsInv, Typed, StoreTyped
<1>2. p' \in {p, Offline(p)} /\ authority' \in {authority, [authority EXCEPT !.snap.ready = FALSE]}
  BY DEF HandleAgentDisconnect
<1>3. Same(p, p') BY <1>1, <1>2, OfflineSame, SameSelf
<1>4. authority'.snap.obs = authority.snap.obs BY <1>1, <1>2, ReadinessTyped
<1> QED BY <1>3, <1>4, DownTyped DEF HandleAgentDisconnect, Calm, agent, bounds

LEMMA SendStartCalm == ASSUME ExecutionsInv, NEW e \in Exec, SendStart(e) PROVE Calm
<1>1. p \in Projs /\ DerivedOf(p) /\ fence' \in [Exec -> Fences] /\ epoch \in Nat /\ IsFiniteSet(issued)
  BY ExecutionConstants DEF ExecutionsInv, Typed, StoreTyped, SendStart, Fences
<1>2. Same(p, p') BY <1>1, FenceSame DEF SendStart
<1>3. drv'.op = "commit" /\ drv'.cmd.type = "start" /\ drv.op = "idle" BY DEF SendStart, Do, Cmd, Idle
<1>4. sess.link \notin {"captured", "recorded"} BY DEF SendStart, RunnerAdmission, Online
<1> QED BY <1>2, <1>3, <1>4 DEF SendStart, Calm, Sending, agent, bounds

LEMMA SettleFenceCalm == ASSUME ExecutionsInv, NEW e \in Exec, SettleFence(e) PROVE Calm
<1>1. p \in Projs /\ DerivedOf(p) /\ fence' \in [Exec -> Fences]
  BY DEF ExecutionsInv, Typed, StoreTyped, SettleFence, Fences
<1>2. Same(p, p') BY <1>1, FenceSame DEF SettleFence
<1> QED BY <1>2 DEF SettleFence, Calm, agent, bounds

LEMMA CancelCalm == ASSUME ExecutionsInv, NEW e \in Exec, SendReconciliationCancel(e) PROVE Calm
<1>1. drv'.op = "cancel" /\ drv'.cmd.type = "cancel" /\ drv.op = "idle"
  BY DEF SendReconciliationCancel, Do, Cmd, Idle
<1>2. sess.link \notin {"captured", "recorded"} BY DEF SendReconciliationCancel, Online
<1> QED BY <1>1, <1>2, SameSelf DEF SendReconciliationCancel, Calm, Sending, store, agent, bounds

LEMMA CommitCommandCalm == ASSUME ExecutionsInv, CommitCommand PROVE Calm
<1>1. drv.op \in {"commit", "replay", "cancel"} /\ drv' \in {Idle, [drv EXCEPT !.op = "send"]}
  BY DEF CommitCommand
<1>2. drv \in [op : Ops, cmd : Commands \cup {NoCmd}, exec : Exec \cup {0}, state : Statuses]
  BY DEF ExecutionsInv, Typed, DriverTyped
<1>3. sess.link \notin {"captured", "recorded"} BY <1>1 DEF ExecutionsInv, Captured
<1>4. drv'.op \in {"idle", "send"} /\ (Sending' => Sending /\ drv'.cmd = drv.cmd)
  BY <1>1, <1>2, IdleTyped DEF Sending
<1> QED BY <1>1, <1>3, <1>4, SameSelf DEF CommitCommand, Calm, agent, bounds

LEMMA CommandAnsweredCalm == ASSUME ExecutionsInv, CommandAnswered PROVE Calm
<1>1. p \in Projs /\ DerivedOf(p) /\ fence' \in [Exec -> Fences]
  BY DEF ExecutionsInv, Typed, StoreTyped, CommandAnswered, Fences
<1>2. Same(p, p') BY <1>1, FenceSame, SameSelf DEF CommandAnswered
<1>3. drv'.op = "idle" /\ ~Sending' BY IdleTyped DEF CommandAnswered, Sending
<1>4. drv.op = "await" => ~Online' BY DEF CommandAnswered, Online
<1> QED BY <1>2, <1>3, <1>4 DEF CommandAnswered, Calm, agent, bounds

LEMMA LoseSessionCalm == ASSUME ExecutionsInv, LoseSession PROVE Calm
<1>1. sess'.link \in {"down", "closing"} /\ sess'.snap = sess.snap
  BY DEF LoseSession, ExecutionsInv, Typed, SessionTyped
<1> QED BY <1>1, SameSelf DEF LoseSession, Calm, store, agent

LEMMA OperatorCalm == ASSUME ExecutionsInv, Operator PROVE Calm
<1>0. p \in Projs /\ DerivedOf(p) BY DEF ExecutionsInv, Typed
<1>1. CASE SetNodeAdministrativeState
  <2>1. sess' \in {sess, [sess EXCEPT !.link = "closing"], Down("down")} BY <1>1 DEF SetNodeAdministrativeState
  <2>2. sess' = sess \/ (sess'.link \in {"down", "closing"} /\ sess'.snap \in {sess.snap, NoSnap})
    BY <2>1, DownTyped DEF ExecutionsInv, Typed, SessionTyped
  <2> QED BY <1>1, <2>2, SameSelf DEF SetNodeAdministrativeState, Calm, agent
<1>2. CASE ProjectAdministrativeState
  <2>1. mgmt \in {"active", "draining", "revoked"} BY <1>2 DEF ExecutionsInv, Typed, ProjectAdministrativeState
  <2>2. Same(p, p') BY <1>0, <1>2, <2>1, AdminSame, SameSelf DEF ProjectAdministrativeState
  <2> QED BY <1>2, <2>2 DEF ProjectAdministrativeState, Calm, store, agent
<1>3. CASE RunnerUpdateExpires
  BY <1>0, <1>3, UpdateSame DEF RunnerUpdateExpires, Calm, store, agent
<1>4. CASE HandleAgentReadiness
  <2>1. PICK r \in BOOLEAN : /\ p' \in {p, ApplyAgentReadiness(p, r)}
                             /\ authority' \in {authority, [authority EXCEPT !.snap.ready = r]}
                             /\ sess' \in {sess, Down("closing")}
    BY <1>4 DEF HandleAgentReadiness
  <2>2. Same(p, p') BY <1>0, <2>1, ReadySame, SameSelf
  <2>3. authority'.snap.obs = authority.snap.obs BY <2>1, ReadinessTyped DEF ExecutionsInv, Typed, StoreTyped
  <2> QED BY <1>4, <2>1, <2>2, <2>3, DownTyped DEF HandleAgentReadiness, Calm, agent
<1> QED BY <1>1, <1>2, <1>3, <1>4 DEF Operator

LEMMA StutterKeeps == ASSUME ExecutionsInv, UNCHANGED vars PROVE ExecutionsInv'
<1>1. Calm BY SameSelf DEF vars, store, agent, bounds, Calm
<1>2. Typed' BY DEF vars, store, agent, bounds, ExecutionsInv, Typed, StoreTyped, SessionTyped, DriverTyped, AgentTyped
<1> QED BY <1>1, <1>2, CalmKeeps

---------------------------------------------------------------------------
(* The session *)

LEMMA AllEnded == ASSUME p'.execs = p.execs PROVE \A e \in Exec : Ended(e)
BY DEF Ended

LEMMA ConnectKeeps == ASSUME ExecutionsInv, Typed', Connect PROVE ExecutionsInv'
<1> USE DEF ExecutionsInv
<1>0. UNCHANGED <<desired, slots, applied, authority, p, drv, a, outbox, lost>> /\ wire' = NoCmd
  BY DEF Connect, agent
<1>1. PICK r \in BOOLEAN : sess' = [Down("captured") EXCEPT !.snap = Journal(r)] BY DEF Connect
<1>2. sess'.link = "captured" /\ sess'.snap.obs = a.obs BY <1>1, DownTyped, JournalTyped
<1>3. Rows' /\ Driving' /\ Applied' BY <1>0, RowsKeep
<1>4. Reading' BY <1>2 DEF Reading
<1>5. Queues' BY <1>0, AllEnded, QueuesKeep
<1>6. Prepares' BY <1>0, <1>2 DEF Prepares, Online, NoCmd, Cmd
<1>7. Captured' BY <1>0, <1>2 DEF Captured, Connect
<1>8. Followed' BY <1>2 DEF Followed, Online
<1>9. Evidence' BY <1>0, <1>2 DEF Evidence, Seen, Lived
<1> QED BY <1>0, <1>3, <1>4, <1>5, <1>6, <1>7, <1>8, <1>9

LEMMA RecordSnapshotKeeps == ASSUME ExecutionsInv, Typed', RecordAgentSnapshot PROVE ExecutionsInv'
<1> USE DEF ExecutionsInv
<1>0. UNCHANGED <<desired, slots, applied, p, drv, a, outbox, lost, wire>> BY DEF RecordAgentSnapshot, agent
<1>1. sess.link = "captured" BY DEF RecordAgentSnapshot
<1>2. \/ sess'.link = "recorded" /\ sess'.snap = sess.snap
      \/ sess'.link = "down" /\ sess'.snap = NoSnap
  BY DownTyped DEF RecordAgentSnapshot, Typed, SessionTyped
<1>3. authority'.snap \in {authority.snap, sess.snap} BY DEF RecordAgentSnapshot
<1>4. ~Online' /\ sess'.link \notin {"project", "ack"} BY <1>2 DEF Online
<1>5. Rows' /\ Driving' /\ Applied' BY <1>0, RowsKeep
<1>6. Reading' BY <1>4 DEF Reading
<1>7. Queues' BY <1>0, AllEnded, QueuesKeep
<1>8. Prepares'
  <2>1. \A e \in Exec : Unsent(e) => Unsent(e)' BY <1>0 DEF Unsent, Blank, Queued
  <2> QED BY <1>0, <1>4, <2>1, PreparesKeep
<1>9. Captured' BY <1>0, <1>1, <1>2 DEF Captured
<1>10. Followed' BY <1>4 DEF Followed
<1>11. Evidence' BY <1>0, <1>2, <1>3, NothingSeen DEF Evidence, Seen, Lived
<1> QED BY <1>0, <1>5, <1>6, <1>7, <1>8, <1>9, <1>10, <1>11

LEMMA ProjectSnapshotKeeps == ASSUME ExecutionsInv, Typed', ProjectSnapshot PROVE ExecutionsInv'
<1> USE DEF ExecutionsInv
<1>0. UNCHANGED <<desired, slots, applied, authority, drv, a, outbox, lost, wire>> BY DEF ProjectSnapshot, store, agent
<1>1. p \in Projs /\ sess.snap \in Snaps BY DEF Typed, SessionTyped
<1>2. /\ DerivedOf(p') /\ p'.execs = p.execs /\ p'.res = p.res /\ p'.snap = sess.snap
  BY <1>1, ReconcileDoes DEF ProjectSnapshot
<1>3. sess.link = "recorded" /\ sess'.link = "up" /\ sess'.snap = sess.snap
  BY DEF ProjectSnapshot, Typed, SessionTyped
<1>4. /\ wire = NoCmd /\ drv.op \notin {"commit", "replay", "cancel", "send", "await"}
      /\ \A e \in Exec : sess.snap.obs[e] = "none" => a.obs[e] = "none"
  BY <1>3 DEF Captured
<1>5. Rows' /\ Driving' /\ Applied' BY <1>0, <1>2, RowsKeep
<1>6. Reading' BY <1>3 DEF Reading
<1>7. Queues' BY <1>0, <1>2, AllEnded, QueuesKeep
<1>8. Prepares' BY <1>0, <1>4 DEF Prepares, Sending, NoCmd, Cmd
<1>9. Captured' BY <1>3 DEF Captured
<1>10. Followed' BY <1>0, <1>2, <1>3, <1>4 DEF Followed, Follows
<1>11. Evidence' BY <1>0, <1>2, <1>3 DEF Evidence, Seen, Lived
<1> QED BY <1>2, <1>5, <1>6, <1>7, <1>8, <1>9, <1>10, <1>11

\* Rows go forward.
LEMMA Advances ==
    ASSUME Typed, Driving, Applied, NEW e \in Exec, NEW t \in States,
           desired' = [desired EXCEPT ![e] = t], desired[e] # "none" => Precedes(desired[e], t)
    PROVE  /\ \A u \in applied : Recorded(u)'
           /\ drv.op \in {"claim", "desired"} => Precedes(drv.state, desired'[drv.exec])
<1>1. \A x \in Exec : desired[x] \in States => Precedes(desired[x], desired'[x])
  BY DEF Typed, StoreTyped, Precedes, Statuses, States, Active, Clean
<1>2. \A x \in Exec : \A s : Precedes(s, desired[x]) => Precedes(s, desired'[x])
  BY <1>1, PrecedesTrans, PrecedesOf
<1>3. \A x \in Exec : desired[x] \in Clean => desired'[x] \in Clean
  BY <1>1, PrecedesOf DEF Clean, Terminal, States
<1>4. ASSUME NEW u \in applied PROVE Recorded(u)'
  <2>1. u.cmd.exec \in Exec BY UpdateFields DEF Typed, StoreTyped
  <2> QED BY <1>2, <1>3, <2>1 DEF Applied, Recorded
<1>5. drv.op \in {"claim", "desired"} => drv.exec \in Exec BY DEF Typed, DriverTyped
<1> QED BY <1>2, <1>4, <1>5 DEF Driving

\* A step that moves the row of an execution on, for what the Agent or its snapshot says.
Moved(e, t) ==
    /\ desired' = [desired EXCEPT ![e] = t]
    /\ desired[e] # "none" => Precedes(desired[e], t)
    /\ slots' = IF t \in Terminal THEN slots \ {e} ELSE slots \cup {e}
    /\ t # "reserved" /\ lost = {} => Lived(e) /\ ~Unsent(e)
    /\ UNCHANGED <<p, a, outbox, lost, wire, authority>>
    /\ sess' = sess \/ (sess.link = "up" /\ sess'.link = "project" /\ sess'.snap = sess.snap)
    /\ \/ drv' = drv /\ desired[e] # "none"
       \/ /\ drv.op = "idle" /\ drv'.exec = e /\ drv'.state = t
          /\ \/ drv'.op = "desired" /\ desired[e] # "none"
             \/ drv'.op = "claim" /\ desired[e] = "none" /\ t = "reserved"

LEMMA MovedKeeps ==
    ASSUME ExecutionsInv, Typed', NEW e \in Exec, NEW t \in States, Moved(e, t), Reading',
           \A u \in applied' \ applied : Recorded(u)'
    PROVE  ExecutionsInv'
<1> USE DEF ExecutionsInv
<1>0. desired \in [Exec -> Statuses] /\ slots \subseteq Exec BY DEF Typed, StoreTyped
<1>1. desired'[e] = t /\ \A x \in Exec \ {e} : desired'[x] = desired[x] BY <1>0 DEF Moved
<1>2. UNCHANGED <<p, a, outbox, lost, wire, authority>> BY DEF Moved
<1>3. (Online' => Online) /\ sess'.snap = sess.snap BY DEF Moved, Online
<1>4. /\ \A u \in applied : Recorded(u)'
      /\ drv.op \in {"claim", "desired"} => Precedes(drv.state, desired'[drv.exec])
  BY Advances DEF Moved
<1>5. Rows'
  <2> SUFFICES ASSUME NEW x \in Exec PROVE Row(x)' BY DEF Rows
  <2>1. Row(x) BY DEF Rows
  <2>2. CASE x # e
    <3>1. Claiming(x) => Claiming(x)' BY <2>2 DEF Moved, Claiming
    <3>2. x \in slots' <=> x \in slots BY <2>2 DEF Moved
    <3> QED BY <1>1, <1>2, <2>1, <2>2, <3>1, <3>2 DEF Row
  <2>3. CASE x = e
    <3>1. x \in slots' <=> t \notin Terminal \cup {"none"} BY <2>3 DEF Moved, States, Terminal, Active, Clean
    <3>2. p.execs[x] # "none" => Precedes(p.execs[x], t)
      BY <2>1, <2>3, PrecedesTrans, PrecedesOf DEF Row, Moved, States, Active, Clean
    <3>3. Claiming(x) => Claiming(x)' BY <2>3 DEF Moved, Claiming
    <3>4. p.execs[x] # "none" \/ Claiming(x)' BY <2>1, <2>3, <3>3 DEF Row, Moved, Claiming
    <3>5. p.execs[x] # "none" /\ x \in slots' => x \in p.res
      BY <2>1, <2>3, <3>1, <3>2, PrecedesOf DEF Row
    <3> QED BY <1>1, <1>2, <2>1, <2>3, <3>1, <3>2, <3>4, <3>5 DEF Row
  <2> QED BY <2>2, <2>3
<1>6. Driving'
  <2>1. desired[e] = "none" => p.execs[e] = "none"
    BY PrecedesOf DEF Rows, Row, States, Active, Clean
  <2>2. Precedes(t, t) BY DEF Precedes
  <2> QED BY <1>1, <1>2, <1>4, <2>1, <2>2 DEF Driving, Moved
<1>7. Applied' BY <1>4 DEF Applied
<1>8. Queues' BY <1>2, AllEnded, QueuesKeep
<1>9. Prepares'
  <2>1. \A x \in Exec : Unsent(x) => Unsent(x)'
    <3>1. \A x \in Exec : Blank(x) => Blank(x)' BY <1>2 DEF Blank, Queued
    <3>2. Unsent(e) /\ lost = {} => t = "reserved" BY DEF Moved
    <3> QED BY <1>1, <1>2, <3>1, <3>2 DEF Unsent
  <2> QED BY <1>2, <1>3, <2>1, PreparesKeep DEF Moved, Sending
<1>10. Captured' BY CapturedKeep DEF Moved
<1>11. Followed' BY <1>2, <1>3, FollowedKeep DEF Moved
<1>12. Evidence'
  <2>1. lost = {} /\ t \notin {"none", "reserved"} => Lived(e) BY DEF Moved
  <2> QED BY <1>1, <1>2, <1>3, <2>1 DEF Evidence, Seen, Lived
<1> QED BY <1>2, <1>5, <1>6, <1>7, <1>8, <1>9, <1>10, <1>11, <1>12

\* The reader records the head of the outbox, again or for the first time, or closes.
LEMMA RecordUpdateMoves ==
    ASSUME ExecutionsInv, RecordAgentExecutionUpdate
    PROVE  \/ Calm
           \/ \E e \in Exec, t \in States :
                /\ Moved(e, t) /\ Reading' /\ \A u \in applied' \ applied : Recorded(u)'
                /\ e \in slots \ slots' => a.obs[e] \notin Active
<1> USE DEF ExecutionsInv
<1>0. UNCHANGED <<p, drv, a, outbox, lost, wire, authority>> /\ sess.link = "up" /\ outbox # <<>>
  BY DEF RecordAgentExecutionUpdate, agent
<1>1. outbox \in Seq(Updates) BY DEF Typed, AgentTyped
<1>2. Head(outbox) \in Queued(outbox) /\ Head(outbox) \in Updates BY <1>0, <1>1, QueueFacts
<1>3. PICK u \in Updates : u = Head(outbox) BY <1>2
<1>4. PICK e \in Exec : e = u.cmd.exec BY UpdateFields
<1>5. u.state \in States BY UpdateFields
<1>6. Lived(e) /\ ~Blank(e)
  BY <1>2, <1>3, <1>4 DEF Queues, Queue, Lived, Blank
<1>7. /\ desired \in [Exec -> Statuses] /\ slots \subseteq Exec
      /\ sess \in [link : Links, snap : Snaps, upd : Updates \cup {NoUpdate}]
  BY DEF Typed, StoreTyped, SessionTyped
<1>8. CASE sess' = Down("closing") /\ UNCHANGED <<desired, slots, applied>>
  BY <1>0, <1>8, DownTyped, SameSelf DEF Calm
<1>9. CASE ~(sess' = Down("closing") /\ UNCHANGED <<desired, slots, applied>>)
  <2>1. /\ sess' = [sess EXCEPT !.link = "project", !.upd = u]
        /\ \/ u \in applied /\ UNCHANGED <<desired, slots, applied>>
           \/ /\ UpdateAccepted(u) /\ applied' = applied \cup {u}
              /\ desired' = IF Reconciliation(u.cmd) THEN desired ELSE [desired EXCEPT ![e] = u.state]
              /\ slots' = IF u.state \in Terminal /\ ~Reconciliation(u.cmd) THEN slots \ {e} ELSE slots
    BY <1>3, <1>4, <1>9 DEF RecordAgentExecutionUpdate, FreesSlot
  <2>2. sess'.link = "project" /\ sess'.upd = u /\ sess'.snap = sess.snap BY <1>7, <2>1
  <2>3. applied' = applied \cup {u} /\ applied \subseteq applied' BY <2>1
  <2>4. Reading' BY <1>0, <1>3, <2>2, <2>3 DEF Reading
  <2>5. e \in slots <=> desired[e] \notin Terminal \cup {"none"} BY DEF Rows, Row
  <2>6. \E t \in States :
          /\ desired' = [desired EXCEPT ![e] = t] /\ desired[e] # "none" /\ Precedes(desired[e], t)
          /\ slots' = IF t \in Terminal THEN slots \ {e} ELSE slots \cup {e}
          /\ IF Reconciliation(u.cmd) THEN t \in Clean ELSE Precedes(u.state, t)
    <3>1. CASE u \in applied /\ UNCHANGED <<desired, slots, applied>>
      <4>1. Recorded(u) BY <3>1 DEF Applied
      <4>2. desired[e] \in States BY <1>4, <4>1, PrecedesOf DEF Recorded, States
      <4>3. Precedes(desired[e], desired[e]) BY <4>2 DEF Precedes
      <4>4. slots' = IF desired[e] \in Terminal THEN slots \ {e} ELSE slots \cup {e}
        BY <2>5, <3>1, <4>2 DEF States, Active, Clean
      <4>5. desired' = [desired EXCEPT ![e] = desired[e]] BY <1>7, <3>1
      <4> QED BY <1>4, <4>1, <4>2, <4>3, <4>4, <4>5 DEF Recorded, States, Active, Clean
    <3>2. CASE UpdateAccepted(u) /\ Reconciliation(u.cmd) /\ desired' = desired /\ slots' = slots
      <4>1. desired[e] \in Clean BY <1>4, <3>2 DEF UpdateAccepted
      <4>2. desired[e] \in States /\ Precedes(desired[e], desired[e]) BY <4>1 DEF Precedes, States
      <4>3. slots' = IF desired[e] \in Terminal THEN slots \ {e} ELSE slots \cup {e}
        BY <2>5, <3>2, <4>1 DEF Terminal
      <4>4. desired' = [desired EXCEPT ![e] = desired[e]] BY <1>7, <3>2
      <4> QED BY <3>2, <4>1, <4>2, <4>3, <4>4 DEF States, Active, Clean
    <3>3. CASE /\ UpdateAccepted(u) /\ ~Reconciliation(u.cmd) /\ desired' = [desired EXCEPT ![e] = u.state]
               /\ slots' = IF u.state \in Terminal THEN slots \ {e} ELSE slots
      <4>1. desired[e] \in Statuses /\ CanReach(desired[e], u.state)
        BY <1>4, <1>7, <3>3 DEF UpdateAccepted, CanReach
      <4>2. desired[e] # "none" /\ Precedes(desired[e], u.state) BY <1>5, <4>1, ReachPrecedes
      <4>3. u.state \notin Terminal => desired[e] \notin Terminal BY <4>2, PrecedesOf
      <4>4. slots' = IF u.state \in Terminal THEN slots \ {e} ELSE slots \cup {e}
        BY <2>5, <3>3, <4>2, <4>3
      <4>5. Precedes(u.state, u.state) BY <1>5 DEF Precedes
      <4> QED BY <1>5, <3>3, <4>2, <4>4, <4>5
    <3> QED BY <2>1, <3>1, <3>2, <3>3
  <2>7. PICK t \in States :
          /\ desired' = [desired EXCEPT ![e] = t] /\ desired[e] # "none" /\ Precedes(desired[e], t)
          /\ slots' = IF t \in Terminal THEN slots \ {e} ELSE slots \cup {e}
          /\ IF Reconciliation(u.cmd) THEN t \in Clean ELSE Precedes(u.state, t)
    BY <2>6
  <2>8. Moved(e, t) BY <1>0, <1>6, <2>2, <2>7 DEF Moved, Unsent
  <2>9. Recorded(u)' BY <1>4, <1>7, <2>7 DEF Recorded
  <2>10. e \in slots \ slots' => a.obs[e] \notin Active
    <3>1. a.obs[e] = "none" \/ CanReach(u.state, a.obs[e]) BY <1>2, <1>3, <1>4 DEF Queues, Queue
    <3>2. e \in slots \ slots' => u.state \in Terminal BY <2>1
    <3> QED BY <3>1, <3>2 DEF CanReach, Terminal, Active, Clean
  <2> QED BY <2>3, <2>4, <2>8, <2>9, <2>10
<1> QED BY <1>8, <1>9

LEMMA RecordUpdateKeeps == ASSUME ExecutionsInv, Typed', RecordAgentExecutionUpdate PROVE ExecutionsInv'
BY RecordUpdateMoves, CalmKeeps, MovedKeeps

\* The projection follows the row of an execution, or an update of it.
LEMMA RowsProject ==
    ASSUME Typed, Rows, Driving, Applied, NEW e \in Exec, NEW t \in States,
           UNCHANGED <<desired, slots, applied>>, p'.execs = [p.execs EXCEPT ![e] = t],
           p'.res = IF t \in Terminal THEN p.res \ {e} ELSE p.res,
           CanReach(p.execs[e], t), Precedes(t, desired[e]),
           drv' = drv \/ (drv.op # "claim" /\ drv'.op \notin {"claim", "desired"})
    PROVE  Rows' /\ Driving' /\ Applied' /\ \A x \in Exec : Ended(x)
<1>0. p.execs \in [Exec -> Statuses] BY DEF Typed, Projs
<1>1. p'.execs[e] = t /\ \A x \in Exec \ {e} : p'.execs[x] = p.execs[x] BY <1>0
<1>2. p.execs[e] # "none" /\ Precedes(p.execs[e], t) BY <1>0, ReachPrecedes
<1>3. Rows'
  <2> SUFFICES ASSUME NEW x \in Exec PROVE Row(x)' BY DEF Rows
  <2>1. Row(x) BY DEF Rows
  <2>2. Claiming(x) => Claiming(x)' BY DEF Claiming
  <2>3. CASE x # e
    <3>1. x \in p'.res <=> x \in p.res BY <2>3
    <3> QED BY <1>1, <2>1, <2>2, <2>3, <3>1 DEF Row
  <2>4. CASE x = e
    <3>1. p.execs[x] \in Terminal => t = p.execs[x] BY <1>2, <2>4, PrecedesOf
    <3>2. t \in Terminal => desired[x] = t BY <2>4, PrecedesOf
    <3>3. x \in p'.res <=> x \in p.res /\ t \notin Terminal BY <2>4
    <3>4. t # "none" BY DEF States, Active, Clean
    <3>5. x \in slots => x \in p.res \/ Claiming(x)' BY <2>1, <2>2 DEF Row
    <3>6. t \in Terminal => x \notin slots BY <2>1, <3>2 DEF Row
    <3>7. t \notin Terminal => x \in p.res BY <1>2, <2>1, <2>4, <3>1 DEF Row
    <3> QED BY <1>1, <1>2, <2>1, <2>4, <3>1, <3>2, <3>3, <3>4, <3>5, <3>6, <3>7 DEF Row
  <2> QED BY <2>3, <2>4
<1>4. Driving' BY <1>1, <1>2 DEF Driving, Typed, DriverTyped
<1>5. Applied' BY DEF Applied, Recorded
<1>6. \A x \in Exec : Ended(x) BY <1>1, <1>2, PrecedesOf DEF Ended
<1> QED BY <1>3, <1>4, <1>5, <1>6

LEMMA ProjectUpdateKeeps == ASSUME ExecutionsInv, Typed', ProjectUpdate PROVE ExecutionsInv'
<1> USE DEF ExecutionsInv
<1>0. UNCHANGED <<desired, slots, applied, authority, drv, a, outbox, lost, wire>> /\ sess.link = "project"
  BY DEF ProjectUpdate, store, agent
<1>1. /\ sess.upd \in Updates /\ sess.upd \in applied /\ outbox # <<>> /\ Head(outbox) = sess.upd
      /\ outbox \in Seq(Updates) /\ p \in Projs /\ DerivedOf(p)
  BY <1>0 DEF Typed, SessionTyped, AgentTyped, Reading
<1>2. PICK u \in Updates : u = sess.upd BY <1>1
<1>3. PICK e \in Exec : e = u.cmd.exec BY UpdateFields
<1>4. u.state \in AgentStates /\ u.state \in States /\ u \in Queued(outbox) BY <1>1, <1>2, UpdateFields, QueueFacts
<1>5. CASE sess' = Down("closing") /\ UNCHANGED p
  <2>1. Calm BY <1>0, <1>5, DownTyped, SameSelf DEF Calm
  <2> QED BY <2>1, CalmKeeps
<1>6. CASE ~(sess' = Down("closing") /\ UNCHANGED p)
  <2>1. /\ sess' = [sess EXCEPT !.link = "ack"]
        /\ IF Reconciliation(u.cmd) THEN TeardownProjects(p, u) ELSE UpdateProjects(p, u)
        /\ p' = IF Reconciliation(u.cmd) THEN ApplyReconciliationExecutionUpdate(p, u)
                ELSE ApplyExecutionUpdate(p, u)
    BY <1>2, <1>6 DEF ProjectUpdate
  <2>2. sess'.link = "ack" /\ sess'.snap = sess.snap /\ sess'.upd = u
    BY <1>2, <2>1 DEF Typed, SessionTyped
  <2>3. /\ Rows' /\ Driving' /\ Applied' /\ (\A x \in Exec : Ended(x)) /\ DerivedOf(p')
        /\ p'.snap.obs = [p.snap.obs EXCEPT ![e] = u.state]
        /\ u.state \in Clean => p'.execs[e] \in Terminal
    <3>1. CASE Reconciliation(u.cmd)
      <4>1. DerivedOf(p') /\ p'.execs = p.execs /\ p'.res = p.res /\ p'.snap.obs = [p.snap.obs EXCEPT ![e] = u.state]
        BY <1>1, <1>3, <2>1, <3>1, TeardownMoves
      <4>2. p.execs[e] \in Terminal BY <1>3, <2>1, <3>1 DEF TeardownProjects
      <4> QED BY <1>0, <4>1, <4>2, RowsKeep, AllEnded
    <3>2. CASE ~Reconciliation(u.cmd)
      <4>1. /\ DerivedOf(p') /\ p'.execs = [p.execs EXCEPT ![e] = u.state]
            /\ p'.res = IF u.state \in Terminal THEN p.res \ {e} ELSE p.res
            /\ p'.snap.obs = [p.snap.obs EXCEPT ![e] = u.state]
        BY <1>1, <1>3, <2>1, <3>2, UpdateMoves
      <4>2. CanReach(p.execs[e], u.state) BY <1>3, <2>1, <3>2 DEF UpdateProjects, CanReach
      <4>3. Precedes(u.state, desired[e]) BY <1>1, <1>2, <1>3, <3>2 DEF Applied, Recorded
      <4>4. p'.execs[e] = u.state BY <4>1 DEF Typed, Projs
      <4> QED BY <1>0, <1>4, <4>1, <4>2, <4>3, <4>4, RowsProject DEF Terminal
    <3> QED BY <3>1, <3>2
  <2>4. p'.snap.obs[e] = u.state /\ \A x \in Exec \ {e} : p'.snap.obs[x] = p.snap.obs[x]
    BY <1>1, <2>3 DEF Projs, Snaps
  <2>5. u.state # "none" BY <1>4 DEF AgentStates
  <2>6. Reading' BY <1>0, <1>1, <1>2, <1>3, <2>2, <2>3, <2>4, <2>5 DEF Reading
  <2>7. Queues' BY <1>0, <2>3, QueuesKeep
  <2>8. Online /\ Online' BY <1>0, <2>2 DEF Online
  <2>9. Prepares'
    <3>1. \A x \in Exec : Unsent(x) => Unsent(x)' BY <1>0 DEF Unsent, Blank, Queued
    <3> QED BY <1>0, <2>2, <2>8, <3>1, PreparesKeep
  <2>10. Captured' BY <2>2 DEF Captured
  <2>11. Followed'
    <3>1. u.state \in Local \/ a.obs[e] \notin Local
      <4>1. a.obs[e] = "none" \/ CanReach(u.state, a.obs[e]) BY <1>3, <1>4 DEF Queues, Queue
      <4> QED BY <1>4, <4>1 DEF CanReach, AgentStates, Local, Active
    <3>2. \A x \in Exec : Follows(x) BY <2>8 DEF Followed
    <3>3. \A x \in Exec : Follows(x)' BY <1>0, <2>2, <2>4, <2>5, <3>1, <3>2 DEF Follows
    <3> QED BY <3>3 DEF Followed
  <2>12. Evidence'
    <3>1. \A x \in Exec : Lived(x) => Lived(x)' BY <1>0, <2>3 DEF Lived, Ended
    <3> QED BY <1>0, <2>2, <3>1, EvidenceKeep
  <2> QED BY <2>3, <2>6, <2>7, <2>9, <2>10, <2>11, <2>12
<1> QED BY <1>5, <1>6

LEMMA ProjectDesiredKeeps == ASSUME ExecutionsInv, Typed', ProjectDesired PROVE ExecutionsInv'
<1> USE DEF ExecutionsInv
<1>0. /\ UNCHANGED <<desired, slots, applied, authority, sess, a, outbox, lost, wire>>
      /\ drv.op \in {"claim", "desired"} /\ drv' = Idle
  BY DEF ProjectDesired, store, agent
<1>1. drv'.op = "idle" BY <1>0, IdleTyped
<1>2. drv.exec \in Exec /\ drv.state \in States /\ p \in Projs /\ DerivedOf(p) BY <1>0 DEF Typed, DriverTyped
<1>3. PICK e \in Exec, t \in States : e = drv.exec /\ t = drv.state BY <1>2
<1>4. Precedes(t, desired[e]) BY <1>0, <1>3 DEF Driving
<1>5. Rows' /\ Driving' /\ Applied' /\ (\A x \in Exec : Ended(x)) /\ DerivedOf(p') /\ p'.snap.obs = p.snap.obs
  <2>1. CASE drv.op = "claim"
    <3>1. p' = ApplyGitHubClaim(p, e) BY <1>3, <2>1 DEF ProjectDesired
    <3>2. /\ DerivedOf(p') /\ p'.execs = [p.execs EXCEPT ![e] = "reserved"] /\ p'.res = p.res \cup {e}
          /\ p'.snap.obs = p.snap.obs
      BY <1>2, <3>1, ClaimMoves
    <3>3. t = "reserved" /\ p.execs[e] = "none" BY <1>3, <2>1 DEF Driving
    <3>4. p'.execs[e] = "reserved" /\ \A x \in Exec \ {e} : p'.execs[x] = p.execs[x] BY <3>2 DEF Typed, Projs
    <3>5. Rows'
      <4> SUFFICES ASSUME NEW x \in Exec PROVE Row(x)' BY DEF Rows
      <4>1. Row(x) /\ (Claiming(x) => x = e) BY <1>3 DEF Rows, Claiming
      <4>2. CASE x # e BY <1>0, <3>2, <3>4, <4>1, <4>2 DEF Row
      <4>3. CASE x = e BY <1>0, <1>4, <3>2, <3>3, <3>4, <4>1, <4>3 DEF Row
      <4> QED BY <4>2, <4>3
    <3>6. Driving' /\ Applied' BY <1>0, <1>1 DEF Driving, Applied, Recorded
    <3>7. \A x \in Exec : Ended(x) BY <3>3, <3>4 DEF Ended, Terminal, Clean
    <3> QED BY <3>2, <3>5, <3>6, <3>7
  <2>2. CASE drv.op = "desired"
    <3>1. p' = ApplyDesiredExecution(p, e, t) BY <1>3, <2>2 DEF ProjectDesired
    <3>2. CASE p' = p BY <1>0, <1>1, <1>2, <2>2, <3>2, RowsKeep, AllEnded
    <3>3. CASE Reaches(p, p', e, t)
      <4>1. /\ CanReach(p.execs[e], t) /\ p'.execs = [p.execs EXCEPT ![e] = t]
            /\ p'.res = IF t \in Terminal THEN p.res \ {e} ELSE p.res
        BY <3>3 DEF Reaches
      <4>2. DerivedOf(p') /\ p'.snap.obs = p.snap.obs BY <3>3 DEF Reaches
      <4> QED BY <1>0, <1>1, <1>4, <2>2, <4>1, <4>2, RowsProject
    <3> QED BY <1>2, <3>1, <3>2, <3>3, DesiredMoves
  <2> QED BY <1>0, <2>1, <2>2
<1>6. Reading' BY <1>0, <1>5, ReadingKeep
<1>7. Queues' BY <1>0, <1>5, QueuesKeep
<1>8. Prepares'
  <2>1. \A x \in Exec : Unsent(x) => Unsent(x)' BY <1>0 DEF Unsent, Blank, Queued
  <2> QED BY <1>0, <1>1, <2>1, PreparesKeep DEF Sending, Online
<1>9. Captured' BY <1>0, <1>1, CapturedKeep
<1>10. Followed' BY <1>0, <1>5, FollowedKeep DEF Online
<1>11. Evidence'
  <2>1. \A x \in Exec : Lived(x) => Lived(x)' BY <1>0, <1>5 DEF Lived, Ended
  <2> QED BY <1>0, <2>1, EvidenceKeep
<1> QED BY <1>5, <1>6, <1>7, <1>8, <1>9, <1>10, <1>11

LEMMA AcknowledgeKeeps == ASSUME ExecutionsInv, Typed', Acknowledge PROVE ExecutionsInv'
<1> USE DEF ExecutionsInv
<1>0. UNCHANGED <<desired, slots, applied, authority, p, lost, wire>> /\ sess.link = "ack"
  BY DEF Acknowledge, store
<1>1. /\ sess.upd \in Updates /\ outbox # <<>> /\ Head(outbox) = sess.upd /\ outbox \in Seq(Updates)
      /\ p.snap.obs[sess.upd.cmd.exec] # "none"
      /\ sess.upd.state \in Clean => p.execs[sess.upd.cmd.exec] \in Terminal
  BY <1>0 DEF Typed, SessionTyped, AgentTyped, Reading
<1>2. PICK u \in Updates : u = sess.upd BY <1>1
<1>3. PICK e \in Exec : e = u.cmd.exec BY UpdateFields
<1>4. outbox' = Tail(outbox) /\ u \in Queued(outbox) /\ Queued(outbox') \subseteq Queued(outbox)
      /\ Queued(outbox) \subseteq Updates
  BY <1>1, <1>2, QueueFacts DEF Acknowledge
<1>5. /\ \A x \in Exec : a'.obs[x] = a.obs[x] \/ a'.obs[x] = "none"
      /\ a' = a \/ (/\ p.execs[e] \in Terminal /\ \A x \in Exec \ {e} : a'.obs[x] = a.obs[x])
  <2>1. a' = a \/ (u.state \in Clean /\ a' = [a EXCEPT !.obs[e] = "none", !.cmds = {c \in @ : c.exec # e}])
    BY <1>2, <1>3 DEF Acknowledge
  <2>2. CASE a' = a BY <2>2
  <2>3. CASE u.state \in Clean /\ a' = [a EXCEPT !.obs[e] = "none", !.cmds = {c \in @ : c.exec # e}]
    <3>1. PICK cs : a' = [a EXCEPT !.obs[e] = "none", !.cmds = cs] BY <2>3
    <3>2. a'.obs[e] = "none" /\ \A x \in Exec \ {e} : a'.obs[x] = a.obs[x]
      BY <3>1 DEF Typed, AgentTyped, Journals
    <3> QED BY <1>1, <1>2, <1>3, <2>3, <3>2
  <2> QED BY <2>1, <2>2, <2>3
<1>6. drv' = drv \/ (drv.op = "await" /\ drv.cmd = u.cmd /\ drv'.op = "answered")
  <2>1. drv' = drv \/ (drv.op = "await" /\ drv.cmd = u.cmd /\ drv' = [drv EXCEPT !.op = "answered", !.state = u.state])
    BY <1>2 DEF Acknowledge
  <2> QED BY <2>1 DEF Typed, DriverTyped
<1>7. sess'.link = "up" /\ sess'.snap = sess.snap /\ Online /\ Online'
  BY <1>0 DEF Acknowledge, Typed, SessionTyped, Online
<1>8. Rows' /\ Driving' /\ Applied' BY <1>0, <1>6, RowsKeep
<1>9. Reading' BY <1>7 DEF Reading
<1>10. Queues'
  <2>1. ASSUME NEW v \in Queued(outbox')
        PROVE  IF a'.obs[v.cmd.exec] = "none" THEN p'.execs[v.cmd.exec] \in Terminal
                                              ELSE CanReach(v.state, a'.obs[v.cmd.exec])
    <3>1. v \in Queued(outbox) /\ v.cmd.exec \in Exec BY <1>4, UpdateFields
    <3>2. IF a.obs[v.cmd.exec] = "none" THEN p.execs[v.cmd.exec] \in Terminal
                                        ELSE CanReach(v.state, a.obs[v.cmd.exec])
      BY <3>1 DEF Queues, Queue
    <3> QED BY <1>0, <1>5, <3>1, <3>2
  <2>2. Queue(a, outbox)' BY <2>1 DEF Queue, Queued
  <2> QED BY <1>0, <2>2, AllEnded, LostKeep DEF Queues
<1>11. Prepares'
  <2>1. \A x \in Exec : Unsent(x) => Unsent(x)' BY <1>0, <1>4, <1>5 DEF Unsent, Blank, Queued
  <2>2. wire.type = "prepare" => Blank(wire.exec) /\ drv.op = "await" /\ drv.cmd = wire
    BY <1>7 DEF Prepares, Unsent
  <2>3. wire.type = "prepare" => drv.cmd # u.cmd BY <1>4, <2>2 DEF Blank
  <2>4. drv' # drv => wire.type # "prepare" /\ ~Sending' BY <1>6, <2>3 DEF Sending
  <2> QED BY <1>0, <1>7, <2>1, <2>4, PreparesKeep
<1>12. Captured' BY <1>7 DEF Captured
<1>13. Followed'
  <2> SUFFICES ASSUME NEW x \in Exec PROVE Follows(x)' BY DEF Followed
  <2>1. Follows(x) BY <1>7 DEF Followed
  <2>2. p.snap.obs[x] = "none" => x # e BY <1>1, <1>2, <1>3
  <2>3. a'.obs[x] \in Local => a'.obs[x] = a.obs[x] BY <1>5 DEF Local, Active
  <2>4. p.snap.obs[x] = "none" => a'.obs[x] = "none" \/ (drv'.op = "await" /\ drv'.cmd.exec = x)
    BY <1>3, <1>5, <1>6, <2>1, <2>2 DEF Follows
  <2> QED BY <1>0, <1>7, <2>1, <2>3, <2>4 DEF Follows
<1>14. Evidence'
  <2>1. \A x \in Exec : Lived(x) => Lived(x)' BY <1>0, <1>5 DEF Lived
  <2> QED BY <1>0, <1>7, <2>1, EvidenceKeep
<1> QED BY <1>0, <1>8, <1>9, <1>10, <1>11, <1>12, <1>13, <1>14

---------------------------------------------------------------------------
(* The coordinator *)

LEMMA ReadingStays ==
    ASSUME ExecutionsInv, UNCHANGED <<sess, p, outbox>>, applied' = applied PROVE Reading'
BY AllEnded, ReadingKeep DEF ExecutionsInv

LEMMA ClaimRow == ASSUME NEW e \in Exec, CommitClaim(e) PROVE Moved(e, "reserved")
<1>1. drv.op = "idle" /\ drv'.op = "claim" /\ drv'.exec = e /\ drv'.state = "reserved"
  BY DEF CommitClaim, Idle, Do
<1> QED BY <1>1 DEF CommitClaim, Moved, Terminal, Clean, agent

LEMMA ClaimKeeps == ASSUME ExecutionsInv, Typed', NEW e \in Exec, CommitClaim(e) PROVE ExecutionsInv'
<1>1. Moved(e, "reserved") BY ClaimRow
<1>2. UNCHANGED <<sess, p, outbox, applied>> BY DEF CommitClaim, agent
<1>3. "reserved" \in States BY DEF States
<1> QED BY <1>1, <1>2, <1>3, ReadingStays, MovedKeeps

LEMMA AdoptMoves ==
    ASSUME ExecutionsInv, NEW e \in Exec, AdoptObservation(e)
    PROVE  \E t \in States : Moved(e, t) /\ slots' = slots
<1> USE DEF ExecutionsInv
<1>0. UNCHANGED <<slots, applied, authority, p, sess, a, outbox, lost, wire>> /\ drv = Idle
  BY DEF AdoptObservation, agent
<1>1. PICK x \in ActionOf(e, "adopt") :
        /\ authority.snap.obs[e] = x.observed /\ x.observed \notin Reported
        /\ CanReach(desired[e], x.observed) /\ desired' = [desired EXCEPT ![e] = x.observed]
        /\ Do("desired", NoCmd, e, x.observed)
  BY DEF AdoptObservation
<1>2. x \in Actions /\ x.observed # "none"
  <2>1. x \in p.actions /\ x.kind = "adopt" BY DEF ActionOf
  <2> QED BY <2>1, ActionOfPlan DEF Says
<1>3. PICK t \in States : t = x.observed BY <1>2 DEF Actions, Observed, AgentStates, States, Active, Clean
<1>4. t \notin Terminal BY <1>1, <1>3 DEF Reported
<1>5. desired[e] # "none" /\ Precedes(desired[e], t)
  BY <1>1, <1>3, ReachPrecedes DEF Typed, StoreTyped
<1>6. desired[e] \notin Terminal BY <1>4, <1>5, PrecedesOf
<1>7. Row(e) /\ e \in slots BY <1>5, <1>6 DEF Rows, Row
<1>8. lost = {} => Lived(e) /\ ~Unsent(e)
  <2>1. lost = {} => Lived(e) BY <1>1, <1>2 DEF Evidence, Seen
  <2>2. p.execs[e] \notin Terminal BY <1>6, <1>7, PrecedesOf DEF Row, Terminal, Clean
  <2> QED BY <2>1, <2>2 DEF Lived, Unsent, Blank
<1>9. drv.op = "idle" /\ drv'.op = "desired" /\ drv'.exec = e /\ drv'.state = t
  BY <1>0, <1>1, <1>3, IdleTyped DEF Do
<1>10. Moved(e, t) BY <1>0, <1>1, <1>3, <1>4, <1>5, <1>7, <1>8, <1>9 DEF Moved
<1> QED BY <1>0, <1>10

LEMMA AdoptKeeps == ASSUME ExecutionsInv, Typed', NEW e \in Exec, AdoptObservation(e) PROVE ExecutionsInv'
<1>1. UNCHANGED <<sess, p, outbox, applied>> BY DEF AdoptObservation, agent
<1> QED BY <1>1, AdoptMoves, ReadingStays, MovedKeeps

LEMMA FailMoves == ASSUME ExecutionsInv, NEW e \in Exec, FailDesired(e) PROVE Moved(e, "failed")
<1> USE DEF ExecutionsInv
<1>0. /\ UNCHANGED <<applied, authority, p, sess, a, outbox, lost, wire>> /\ drv = Idle
      /\ desired' = [desired EXCEPT ![e] = "failed"] /\ slots' = slots \ {e}
      /\ Do("desired", NoCmd, e, "failed") /\ e \in slots
  BY DEF FailDesired, agent
<1>1. PICK x \in ActionOf(e, "destroy") : desired[e] = x.expects BY DEF FailDesired
<1>2. desired[e] # "reserved"
  <2>1. x \in p.actions /\ x.kind = "destroy" /\ x.exec = e BY DEF ActionOf
  <2> QED BY <1>1, <2>1, ActionOfPlan DEF Says
<1>3. desired[e] \in States \ Terminal
  BY <1>0 DEF Rows, Row, Typed, StoreTyped, Statuses
<1>4. Precedes(desired[e], "failed") BY <1>3 DEF Precedes, States, Terminal, Active, Clean
<1>5. "failed" \in States /\ "failed" \in Terminal BY DEF States, Terminal, Clean
<1>6. desired[e] # "none" BY <1>3 DEF States, Active, Clean
<1>7. lost = {} => Lived(e) /\ ~Unsent(e) BY <1>2, <1>6 DEF Evidence, Seen, Unsent
<1>8. drv.op = "idle" /\ drv'.op = "desired" /\ drv'.exec = e /\ drv'.state = "failed"
  BY <1>0, IdleTyped DEF Do
<1> QED BY <1>0, <1>4, <1>5, <1>6, <1>7, <1>8 DEF Moved

LEMMA FailKeeps == ASSUME ExecutionsInv, Typed', NEW e \in Exec, FailDesired(e) PROVE ExecutionsInv'
<1>1. UNCHANGED <<sess, p, outbox, applied>> /\ "failed" \in States BY DEF FailDesired, agent, States, Clean
<1> QED BY <1>1, FailMoves, ReadingStays, MovedKeeps

\* A Prepare is decided on only when the Agent has nothing of the execution.
LEMMA PrepareFits ==
    ASSUME ExecutionsInv, NEW e \in Exec, Online, drv = Idle, p.snap.obs[e] = "none",
           p.execs[e] \in {"reserved", "preparing"}
    PROVE  Unsent(e) /\ sess.snap.obs[e] = "none" /\ wire.type # "prepare"
<1> USE DEF ExecutionsInv
<1>1. drv.op = "idle" BY IdleTyped
<1>2. a.obs[e] = "none" /\ sess.snap.obs[e] = "none" BY <1>1 DEF Followed, Follows
<1>3. p.execs[e] \notin Terminal /\ p.execs[e] # "none" BY DEF Terminal, Clean
<1>4. Blank(e) BY <1>2, <1>3 DEF Blank, Queues, Queue
<1>5. desired[e] # "none" BY <1>3, PrecedesOf DEF Rows, Row, States, Active, Clean
<1>6. lost = {} => desired[e] = "reserved" BY <1>2, <1>3, <1>5 DEF Evidence, Seen, Lived
<1> QED BY <1>1, <1>2, <1>4, <1>6 DEF Unsent, Prepares

LEMMA DecideKeeps ==
    ASSUME ExecutionsInv, Typed', NEW e \in Exec, Online, drv = Idle, Unsent(e),
           sess.snap.obs[e] = "none", wire.type # "prepare",
           drv'.op \in {"commit", "replay"}, drv'.cmd.exec = e,
           UNCHANGED <<desired, slots, applied, authority, p, sess, a, outbox, lost, wire>>
    PROVE  ExecutionsInv'
<1> USE DEF ExecutionsInv
<1>1. drv.op = "idle" BY IdleTyped
<1>2. Rows' /\ Driving' /\ Applied' BY <1>1, RowsKeep
<1>3. Reading' BY ReadingStays
<1>4. Queues' BY AllEnded, QueuesKeep
<1>5. Prepares'
  <2>1. Unsent(e)' BY DEF Unsent, Blank, Queued
  <2> QED BY <2>1 DEF Prepares
<1>6. Captured' BY DEF Captured, Online
<1>7. Followed' BY <1>1, FollowedKeep
<1>8. Evidence' BY EvidenceKeep DEF Lived
<1> QED BY <1>2, <1>3, <1>4, <1>5, <1>6, <1>7, <1>8

LEMMA SendPrepareKeeps == ASSUME ExecutionsInv, Typed', NEW e \in Exec, SendPrepare(e) PROVE ExecutionsInv'
<1> USE DEF ExecutionsInv
<1>0. /\ UNCHANGED <<desired, slots, applied, authority, p, sess, a, outbox, lost, wire>>
      /\ drv = Idle /\ desired[e] = "reserved" /\ Online /\ Handed(e) /\ p.capable
      /\ drv' = [op |-> "commit", cmd |-> Cmd("prepare", e, epoch, "reserved"), exec |-> e, state |-> "none"]
  BY DEF SendPrepare, Do, RunnerAdmission, AllowsRecovery, store, agent
<1>1. p.execs[e] = "reserved"
  <2>1. ~Claiming(e) BY <1>0, IdleTyped DEF Claiming
  <2>2. p.execs[e] # "none" /\ Precedes(p.execs[e], "reserved") BY <1>0, <2>1 DEF Rows, Row
  <2> QED BY <2>2, PrecedesOf
<1>2. p.snap.obs[e] = "none"
  <2>1. p \in Projs /\ p.snap \in Snaps BY DEF Typed, Projs
  <2>2. p.actions = Acts(p, p.snap) /\ ~Plan(p, p.snap, e).uncertain BY <1>0 DEF DerivedOf, Plain
  <2>3. ASSUME p.snap.obs[e] # "none" PROVE FALSE
    <3>1. PICK x \in Plan(p, p.snap, e).act : x.kind = "adopt" BY <1>1, <2>1, <2>2, <2>3, PlanAdopts
    <3>2. x \in p.actions BY <2>2 DEF Acts
    <3> QED BY <1>0, <3>1, <3>2 DEF Handed
  <2> QED BY <2>3
<1>3. Unsent(e) /\ sess.snap.obs[e] = "none" /\ wire.type # "prepare" BY <1>0, <1>1, <1>2, PrepareFits
<1>4. drv'.op = "commit" /\ drv'.cmd.exec = e BY <1>0 DEF Cmd
<1> QED BY <1>0, <1>3, <1>4, DecideKeeps

LEMMA ReplayPrepareKeeps == ASSUME ExecutionsInv, Typed', NEW e \in Exec, ReplayPrepare(e) PROVE ExecutionsInv'
<1>0. /\ UNCHANGED <<desired, slots, applied, authority, p, sess, a, outbox, lost, wire>>
      /\ drv = Idle /\ Online
  BY DEF ReplayPrepare, store, agent
<1>1. PICK x \in ActionOf(e, "replay"), c \in issued : c.type = "prepare" /\ c.exec = e /\ Do("replay", c, e, "none")
  BY DEF ReplayPrepare
<1>2. p.execs[e] \in {"reserved", "preparing"} /\ p.snap.obs[e] = "none"
  <2>1. x \in p.actions /\ x.kind = "replay" /\ x.exec = e BY DEF ActionOf
  <2> QED BY <2>1, ActionOfPlan DEF Says
<1>3. Unsent(e) /\ sess.snap.obs[e] = "none" /\ wire.type # "prepare" BY <1>0, <1>2, PrepareFits
<1>4. drv'.op = "replay" /\ drv'.cmd.exec = e BY <1>1 DEF Do
<1> QED BY <1>0, <1>3, <1>4, DecideKeeps

LEMMA SendCommandKeeps == ASSUME ExecutionsInv, Typed', SendCommand PROVE ExecutionsInv'
<1> USE DEF ExecutionsInv
<1>0. UNCHANGED <<desired, slots, applied, authority, sess, a, outbox, lost>> /\ drv.op = "send"
  BY DEF SendCommand, store, agent
<1>1. drv.cmd \in Commands /\ p \in Projs /\ DerivedOf(p) BY <1>0 DEF Typed, DriverTyped, Sendings
<1>2. Same(p, p') BY <1>1, CommandSame DEF SendCommand
<1>3. CASE ~Online
  <2>1. drv' = Idle /\ wire' = wire BY <1>3 DEF SendCommand
  <2>2. drv'.op = "idle" BY <2>1, IdleTyped
  <2>3. Calm BY <1>0, <1>2, <2>1, <2>2 DEF Calm, Sending
  <2> QED BY <2>3, CalmKeeps
<1>4. CASE Online
  <2>1. wire' = drv.cmd /\ drv' = [drv EXCEPT !.op = "await"] BY <1>4 DEF SendCommand
  <2>2. drv'.op = "await" /\ drv'.cmd = drv.cmd BY <2>1 DEF Typed, DriverTyped
  <2>3. p'.execs = p.execs /\ p'.res = p.res /\ p'.snap.obs = p.snap.obs /\ DerivedOf(p') BY <1>2 DEF Same
  <2>4. Online' BY <1>0, <1>4 DEF Online
  <2>5. Rows' /\ Driving' /\ Applied' BY <1>0, <2>2, <2>3, RowsKeep
  <2>6. Reading' BY <1>0, <2>3, AllEnded, ReadingKeep
  <2>7. Queues' BY <1>0, <2>3, AllEnded, QueuesKeep
  <2>8. Prepares'
    <3>1. drv.cmd.type = "prepare" => Unsent(drv.cmd.exec) /\ sess.snap.obs[drv.cmd.exec] = "none"
      BY <1>0, <1>4 DEF Prepares, Sending
    <3>2. Unsent(drv.cmd.exec) => Unsent(wire.exec)' BY <1>0, <2>1 DEF Unsent, Blank, Queued
    <3> QED BY <1>0, <2>1, <2>2, <3>1, <3>2 DEF Prepares, Sending
  <2>9. Captured' BY <2>4 DEF Captured, Online
  <2>10. Followed' BY <1>0, <1>4, <2>3, FollowedKeep
  <2>11. Evidence' BY <1>0, <2>3, EvidenceKeep DEF Lived
  <2> QED BY <2>3, <2>5, <2>6, <2>7, <2>8, <2>9, <2>10, <2>11
<1> QED BY <1>3, <1>4

---------------------------------------------------------------------------
(* The Agent, and faults *)

LEMMA CanReachTrans ==
    ASSUME NEW s, NEW t, NEW u, CanReach(s, t), CanReach(t, u) PROVE CanReach(s, u)
BY DEF CanReach, States, Active, Clean

LEMMA ReportQueues ==
    ASSUME outbox \in Seq(Updates), NEW c \in Commands, NEW s \in AgentStates, NEW r \in BOOLEAN,
           Report(c, s, r)
    PROVE  /\ \A v \in Queued(outbox') : v \in Queued(outbox) \/ (v.cmd.exec = c.exec /\ v.state = s)
           /\ outbox # <<>> => outbox' # <<>> /\ Head(outbox') = Head(outbox)
<1>1. PICK u : u = Update(c, s, r) OBVIOUS
<1>2. Queued(outbox') \subseteq Queued(outbox) \cup {u} /\ u.cmd = c /\ u.state = s BY <1>1, ReportDoes
<1>3. outbox # <<>> => outbox' # <<>> /\ Head(outbox') = Head(outbox) BY ReportDoes
<1> QED BY <1>2, <1>3

\* A step of the Agent: it observes a state of an execution and queues it.
Stepped(e, s) ==
    /\ a'.obs = [a.obs EXCEPT ![e] = s]
    /\ \A v \in Queued(outbox') : v \in Queued(outbox) \/ (v.cmd.exec = e /\ v.state = s)
    /\ outbox # <<>> => outbox' # <<>> /\ Head(outbox') = Head(outbox)
    /\ a.obs[e] # "none" => CanReach(a.obs[e], s) /\ (s \in Local => a.obs[e] \in Local)
    /\ a.obs[e] = "none" => wire.type = "prepare" /\ wire.exec = e /\ wire' = NoCmd
    /\ wire' \in {wire, NoCmd}
    /\ UNCHANGED <<desired, slots, applied, authority, p, sess, drv, lost>>

LEMMA SteppedKeeps ==
    ASSUME ExecutionsInv, Typed', NEW e \in Exec, NEW s \in AgentStates, Stepped(e, s)
    PROVE  ExecutionsInv'
<1> USE DEF ExecutionsInv
<1>0. UNCHANGED <<desired, slots, applied, authority, p, sess, drv, lost>> BY DEF Stepped
<1>1. a'.obs[e] = s /\ \A x \in Exec \ {e} : a'.obs[x] = a.obs[x]
  BY DEF Stepped, Typed, AgentTyped, Journals
<1>2. s # "none" /\ outbox \in Seq(Updates) /\ outbox' \in Seq(Updates) BY DEF AgentStates, Typed, AgentTyped
<1>3. wire' = NoCmd => wire'.type # "prepare" BY DEF NoCmd, Cmd
<1>4. Rows' /\ Driving' /\ Applied' BY <1>0, RowsKeep
<1>5. Reading' BY <1>0, AllEnded, ReadingKeep DEF Stepped
<1>6. Queues'
  <2>1. ASSUME NEW v \in Queued(outbox')
        PROVE  IF a'.obs[v.cmd.exec] = "none" THEN p'.execs[v.cmd.exec] \in Terminal
                                              ELSE CanReach(v.state, a'.obs[v.cmd.exec])
    <3>1. v.cmd.exec \in Exec BY <1>2, QueueFacts, UpdateFields
    <3>2. CASE v.cmd.exec = e /\ v.state = s BY <1>1, <1>2, <3>2 DEF CanReach
    <3>3. CASE v \in Queued(outbox)
      <4>1. IF a.obs[v.cmd.exec] = "none" THEN p.execs[v.cmd.exec] \in Terminal
                                          ELSE CanReach(v.state, a.obs[v.cmd.exec])
        BY <3>3 DEF Queues, Queue
      <4>2. CASE v.cmd.exec # e BY <1>0, <1>1, <3>1, <4>1, <4>2
      <4>3. CASE v.cmd.exec = e
        <5>1. a.obs[e] # "none"
          BY <3>3, <4>3 DEF Stepped, Prepares, Unsent, Blank
        <5>2. CanReach(v.state, s) BY <4>1, <4>3, <5>1, CanReachTrans DEF Stepped
        <5> QED BY <1>1, <1>2, <4>3, <5>2
      <4> QED BY <4>2, <4>3
    <3> QED BY <3>2, <3>3 DEF Stepped
  <2>2. Queue(a, outbox)' BY <2>1 DEF Queue, Queued
  <2> QED BY <1>0, <2>2, AllEnded, LostKeep DEF Queues
<1>7. Prepares'
  <2>1. \A x \in Exec : Unsent(x) /\ x # e => Unsent(x)'
    <3>1. \A x \in Exec : Blank(x) /\ x # e => Blank(x)' BY <1>1 DEF Stepped, Blank, Queued
    <3> QED BY <1>0, <3>1 DEF Unsent
  <2>2. Unsent(e) => wire.type = "prepare" /\ wire' = NoCmd BY DEF Unsent, Blank, Stepped
  <2>3. Sending => drv.cmd.exec \in Exec BY CommandFields DEF Sending, Typed, DriverTyped, Sendings
  <2>4. wire.type = "prepare" => wire.exec \in Exec BY CommandFields DEF Typed, AgentTyped, NoCmd, Cmd
  <2>5. Online /\ Sending =>
          /\ Unsent(drv.cmd.exec)' /\ sess.snap.obs[drv.cmd.exec] = "none" /\ wire'.type # "prepare"
    BY <1>3, <2>1, <2>2, <2>3 DEF Prepares, Stepped
  <2>6. wire'.type = "prepare" => wire' = wire /\ Unsent(wire.exec)'
    BY <1>3, <2>1, <2>2, <2>4 DEF Prepares, Stepped
  <2> QED BY <1>0, <2>5, <2>6 DEF Prepares, Sending, Online
<1>8. Captured'
  <2>1. sess.link \in {"captured", "recorded"} => a.obs[e] # "none" BY <1>3 DEF Captured, Stepped, NoCmd, Cmd
  <2> QED BY <1>0, <1>1, <2>1 DEF Captured, Stepped
<1>9. Followed'
  <2> SUFFICES ASSUME Online, NEW x \in Exec PROVE Follows(x)' BY <1>0 DEF Followed, Online
  <2>1. Follows(x) BY DEF Followed
  <2>2. CASE x # e BY <1>0, <1>1, <2>1, <2>2 DEF Follows
  <2>3. CASE x = e
    <3>1. CASE a.obs[e] # "none" BY <1>0, <1>1, <2>1, <2>3, <3>1 DEF Follows, Stepped
    <3>2. CASE a.obs[e] = "none"
      <4>1. drv.op = "await" /\ drv.cmd.exec = e /\ sess.snap.obs[e] = "none" BY <3>2 DEF Stepped, Prepares
      <4> QED BY <1>0, <2>1, <2>3, <4>1 DEF Follows, Local, Active
    <3> QED BY <3>1, <3>2
  <2> QED BY <2>2, <2>3
<1>10. Evidence'
  <2>1. \A x \in Exec : Lived(x) => Lived(x)' BY <1>0, <1>1, <1>2 DEF Lived
  <2> QED BY <1>0, <2>1, EvidenceKeep
<1> QED BY <1>0, <1>4, <1>5, <1>6, <1>7, <1>8, <1>9, <1>10

LEMMA AgentHandlesKeeps == ASSUME ExecutionsInv, Typed', AgentHandles PROVE ExecutionsInv'
<1> USE DEF ExecutionsInv
<1>0. UNCHANGED <<desired, slots, applied, authority, p, drv, lost>> /\ wire' = NoCmd
  BY DEF AgentHandles, store
<1>1. wire \in Commands /\ outbox \in Seq(Updates) BY AgentHandlesDoes DEF Typed, AgentTyped
<1>2. PICK c \in Commands : c = wire BY <1>1
<1>3. PICK e \in Exec : e = c.exec BY CommandFields
<1>4. CASE a.obs[e] \in AgentStates /\ Report(c, a.obs[e], TRUE) /\ a' = a /\ sess' = sess
  <2>1. PICK s \in AgentStates : s = a.obs[e] BY <1>4
  <2>2. Report(c, s, TRUE) BY <1>4, <2>1
  <2>3. /\ \A v \in Queued(outbox') : v \in Queued(outbox) \/ (v.cmd.exec = e /\ v.state = s)
        /\ outbox # <<>> => outbox' # <<>> /\ Head(outbox') = Head(outbox)
    BY <1>1, <1>3, <2>2, ReportQueues
  <2>4. a'.obs = [a.obs EXCEPT ![e] = s] BY <1>4, <2>1 DEF Typed, AgentTyped, Journals
  <2>5. s # "none" /\ CanReach(s, s) BY DEF AgentStates, CanReach
  <2>6. Stepped(e, s) BY <1>0, <1>4, <2>1, <2>3, <2>4, <2>5 DEF Stepped
  <2> QED BY <2>6, SteppedKeeps
<1>5. CASE \E s \in AgentStates : Accepts(c, s)
  <2>1. PICK s \in AgentStates : Accepts(c, s) BY <1>5
  <2>2. Report(c, s, FALSE) /\ sess' = sess BY <2>1 DEF Accepts
  <2>3. /\ \A v \in Queued(outbox') : v \in Queued(outbox) \/ (v.cmd.exec = e /\ v.state = s)
        /\ outbox # <<>> => outbox' # <<>> /\ Head(outbox') = Head(outbox)
    BY <1>1, <1>3, <2>2, ReportQueues
  <2>4. a'.obs = [a.obs EXCEPT ![e] = s] BY <1>3, <2>1 DEF Accepts, Typed, AgentTyped, Journals
  <2>5. c.type = "prepare" => a.obs[e] = "none" BY <1>3, <2>1, CommandFields DEF Accepts
  <2>6. c.type # "prepare" => /\ a.obs[e] \in Active /\ CanReach(a.obs[e], s)
    <3>1. c.type = "start" => a.obs[e] = "preparing" /\ s \in {"running", "failed"}
      BY <1>3, <2>1, CommandFields DEF Accepts
    <3>2. c.type = "cancel" => a.obs[e] \in Active /\ s = "cleaning"
      <4>1. "reserved" \notin Active BY DEF Active
      <4> QED BY <1>3, <2>1, <4>1, CommandFields DEF Accepts
    <3> QED BY <3>1, <3>2, CommandFields DEF Active, CanReach, States, Clean
  <2>7. a.obs[e] # "none" => CanReach(a.obs[e], s) /\ a.obs[e] \in Local BY <2>5, <2>6 DEF Local
  <2>8. a.obs[e] = "none" => c.type = "prepare" BY <2>6 DEF Active
  <2>9. Stepped(e, s) BY <1>0, <1>2, <1>3, <2>2, <2>3, <2>4, <2>7, <2>8 DEF Stepped
  <2> QED BY <2>9, SteppedKeeps
<1>6. CASE a' = a /\ outbox' = outbox /\ sess' \in {sess, Down("closing")}
  <2>1. sess' = sess \/ (sess'.link = "closing" /\ sess'.snap = NoSnap) BY <1>6, DownTyped
  <2>2. Rows' /\ Driving' /\ Applied' BY <1>0, RowsKeep
  <2>3. Reading' BY <1>0, <1>6, <2>1, AllEnded, ReadingKeep
  <2>4. Queues' BY <1>0, <1>6, AllEnded, QueuesKeep
  <2>5. Prepares'
    <3>1. \A x \in Exec : Unsent(x) => Unsent(x)' BY <1>0, <1>6 DEF Unsent, Blank, Queued
    <3>2. Sending => drv.cmd.exec \in Exec BY CommandFields DEF Sending, Typed, DriverTyped, Sendings
    <3>3. wire'.type # "prepare" BY <1>0 DEF NoCmd, Cmd
    <3>4. Online' => Online /\ sess' = sess BY <2>1 DEF Online
    <3> QED BY <1>0, <3>1, <3>2, <3>3, <3>4 DEF Prepares, Sending
  <2>6. Captured' BY <1>1, <2>1, CommandFields DEF Captured
  <2>7. Followed' BY <1>0, <1>6, <2>1, FollowedKeep DEF Online
  <2>8. Evidence'
    <3>1. \A x \in Exec : sess'.snap.obs[x] # "none" => sess.snap.obs[x] # "none" BY <2>1, NothingSeen
    <3> QED BY <1>0, <1>6, <3>1, EvidenceKeep DEF Lived
  <2> QED BY <1>0, <2>2, <2>3, <2>4, <2>5, <2>6, <2>7, <2>8
<1> QED BY <1>2, <1>3, <1>4, <1>5, <1>6, AgentHandlesDoes

LEMMA AgentMovesKeeps == ASSUME ExecutionsInv, Typed', NEW e \in Exec, AgentMoves(e) PROVE ExecutionsInv'
<1> USE DEF ExecutionsInv
<1>0. UNCHANGED <<desired, slots, applied, authority, p, sess, drv, wire, lost>> BY DEF AgentMoves, store
<1>1. PICK c, s : Moves(e, c, s) BY AgentMovesDoes
<1>2. c \in Commands /\ c.exec = e /\ s \in AgentStates /\ Report(c, s, FALSE)
  BY <1>1 DEF Moves, AgentStates
<1>3. outbox \in Seq(Updates) BY DEF Typed, AgentTyped
<1>4. /\ \A v \in Queued(outbox') : v \in Queued(outbox) \/ (v.cmd.exec = e /\ v.state = s)
      /\ outbox # <<>> => outbox' # <<>> /\ Head(outbox') = Head(outbox)
  BY <1>2, <1>3, ReportQueues
<1>5. a'.obs = [a.obs EXCEPT ![e] = s] BY <1>1 DEF Moves, Typed, AgentTyped, Journals
<1>6. a.obs[e] # "none" /\ a.obs[e] \in Local /\ CanReach(a.obs[e], s)
  BY <1>1 DEF Moves, Local, Active, CanReach, States, Clean
<1>7. Stepped(e, s) BY <1>0, <1>4, <1>5, <1>6 DEF Stepped
<1> QED BY <1>2, <1>7, SteppedKeeps

LEMMA LostKeeps == ASSUME ExecutionsInv, Typed', AgentStateLost PROVE ExecutionsInv'
<1> USE DEF ExecutionsInv
<1>0. /\ UNCHANGED <<desired, slots, applied, authority, p, sess, drv, wire>> /\ sess.link = "down"
      /\ wire = NoCmd /\ outbox' = <<>> /\ lost' = {[journal |-> a, queue |-> outbox]}
  BY DEF AgentStateLost, store
<1>1. Rows' /\ Driving' /\ Applied' BY <1>0, RowsKeep
<1>2. Queues'
  <2>1. Queued(outbox') = {} BY <1>0 DEF Queued
  <2>2. Queue(a, outbox)' BY <2>1 DEF Queue, Queued
  <2>3. \A l \in lost' : Queue(l.journal, l.queue)' BY <1>0 DEF Queues, Queue, Queued
  <2> QED BY <2>2, <2>3 DEF Queues
<1>3. Reading' /\ Captured' BY <1>0 DEF Reading, Captured
<1>4. Prepares' BY <1>0 DEF Prepares, Online, NoCmd, Cmd
<1>5. Followed' BY <1>0 DEF Followed, Online
<1>6. Evidence' BY <1>0 DEF Evidence
<1> QED BY <1>0, <1>1, <1>2, <1>3, <1>4, <1>5, <1>6

LEMMA BackKeeps == ASSUME ExecutionsInv, Typed', AgentStateBack PROVE ExecutionsInv'
<1> USE DEF ExecutionsInv
<1>0. /\ UNCHANGED <<desired, slots, applied, authority, p, sess, drv, wire>> /\ sess.link = "down"
      /\ wire = NoCmd /\ lost' = {[journal |-> a, queue |-> <<>>]}
  BY DEF AgentStateBack, store, bounds
<1>1. PICK l \in lost : a' = l.journal /\ outbox' = l.queue BY DEF AgentStateBack
<1>2. Rows' /\ Driving' /\ Applied' BY <1>0, RowsKeep
<1>3. Queues'
  <2>1. Queue(a, outbox)' BY <1>0, <1>1 DEF Queues, Queue, Queued
  <2>2. Queued(<<>>) = {} BY DEF Queued
  <2>3. \A m \in lost' : Queue(m.journal, m.queue)' BY <1>0, <2>2 DEF Queue, Queued
  <2> QED BY <2>1, <2>3 DEF Queues
<1>4. Reading' /\ Captured' BY <1>0 DEF Reading, Captured
<1>5. Prepares' BY <1>0 DEF Prepares, Online, NoCmd, Cmd
<1>6. Followed' BY <1>0 DEF Followed, Online
<1>7. Evidence' BY <1>0 DEF Evidence
<1> QED BY <1>0, <1>2, <1>3, <1>4, <1>5, <1>6, <1>7

LEMMA RestartKeeps == ASSUME ExecutionsInv, Typed', Restart PROVE ExecutionsInv'
<1> USE DEF ExecutionsInv
<1>0. /\ UNCHANGED <<desired, slots, applied, authority, a, outbox, lost, wire>>
      /\ sess' = Down("down") /\ drv' = Idle
  BY DEF Restart, agent
<1>1. DerivedOf(p') /\ p'.execs = desired /\ p'.res = slots
  BY DEF Restart, Restore, DerivedOf, Plain
<1>2. sess'.link = "down" /\ sess'.snap = NoSnap /\ ~Online' /\ drv'.op = "idle"
  BY <1>0, DownTyped, IdleTyped DEF Online
<1>3. \A e \in Exec : Ended(e) BY <1>1, PrecedesOf DEF Ended, Rows, Row, Terminal, Clean
<1>4. Rows'
  <2> SUFFICES ASSUME NEW e \in Exec PROVE Row(e)' BY DEF Rows
  <2>1. desired[e] # "none" => Precedes(desired[e], desired[e])
    BY DEF Typed, StoreTyped, Statuses, Precedes
  <2> QED BY <1>0, <1>1, <2>1 DEF Rows, Row
<1>5. Driving' /\ Applied' BY <1>0, <1>2 DEF Driving, Applied, Recorded
<1>6. Reading' /\ Captured' BY <1>2 DEF Reading, Captured
<1>7. Queues' BY <1>0, <1>3, QueuesKeep
<1>8. Prepares'
  <2>1. \A x \in Exec : Unsent(x) => Unsent(x)' BY <1>0 DEF Unsent, Blank, Queued
  <2> QED BY <1>0, <1>2, <2>1, PreparesKeep DEF Sending
<1>9. Followed' BY <1>2 DEF Followed
<1>10. Evidence'
  <2>1. \A x \in Exec : Lived(x) => Lived(x)' BY <1>0, <1>3 DEF Lived, Ended
  <2> QED BY <1>0, <1>2, <2>1, NothingSeen, EvidenceKeep
<1> QED BY <1>1, <1>4, <1>5, <1>6, <1>7, <1>8, <1>9, <1>10

---------------------------------------------------------------------------
(* The invariant holds *)

LEMMA InitInv == ASSUME Init PROVE ExecutionsInv
<1>1. Typed BY InitTyped
<1>2. DerivedOf(p) /\ p.execs = Nothing /\ p.res = {} /\ p.snap = NoSnap
  BY DEF Init, Restore, DerivedOf, Plain
<1>3. /\ \A e \in Exec : Nothing[e] = "none"
      /\ sess.link = "down" /\ sess.snap = NoSnap /\ drv.op = "idle" /\ wire.type # "prepare"
  BY DownTyped, IdleTyped DEF Init, Nothing, NoCmd, Cmd
<1>4. Rows BY <1>2, <1>3 DEF Rows, Row, Init
<1>5. Driving /\ Applied BY <1>3 DEF Driving, Applied, Init
<1>6. Reading /\ Captured /\ Followed BY <1>3 DEF Reading, Captured, Followed, Online
<1>7. Queues
  <2>1. Queued(outbox) = {} /\ lost = {} BY DEF Queued, Init
  <2> QED BY <2>1 DEF Queues, Queue
<1>8. Prepares BY <1>3 DEF Prepares, Sending
<1>9. Evidence BY <1>3, NothingSeen DEF Evidence, Seen, Init
<1> QED BY <1>1, <1>2, <1>4, <1>5, <1>6, <1>7, <1>8, <1>9 DEF ExecutionsInv

LEMMA NextKeeps == ASSUME ExecutionsInv, Next PROVE ExecutionsInv'
<1>0. Typed' BY NextTyped
<1>1. CASE Session
  BY <1>0, <1>1, ConnectKeeps, RecordSnapshotKeeps, ProjectSnapshotKeeps, RecordUpdateKeeps,
     ProjectUpdateKeeps, AcknowledgeKeeps, DisconnectCalm, CalmKeeps DEF Session
<1>2. ASSUME NEW e \in Exec, Commits(e) PROVE ExecutionsInv'
  BY <1>0, <1>2, ClaimKeeps, SendPrepareKeeps, SendStartCalm, SettleFenceCalm, ReplayPrepareKeeps,
     CancelCalm, AdoptKeeps, FailKeeps, CalmKeeps DEF Commits
<1>3. ASSUME NEW e \in Exec, AgentMoves(e) PROVE ExecutionsInv' BY <1>0, <1>3, AgentMovesKeeps
<1>4. CASE Coordinator
  BY <1>0, <1>4, ProjectDesiredKeeps, CommitCommandCalm, SendCommandKeeps, CommandAnsweredCalm,
     CalmKeeps DEF Coordinator
<1>5. CASE AgentHandles BY <1>0, <1>5, AgentHandlesKeeps
<1>6. CASE Faults BY <1>0, <1>6, LoseSessionCalm, CalmKeeps, LostKeeps, BackKeeps, RestartKeeps DEF Faults
<1>7. CASE Operator BY <1>0, <1>7, OperatorCalm, CalmKeeps
<1> QED BY <1>1, <1>2, <1>3, <1>4, <1>5, <1>6, <1>7 DEF Next

\* The four commits that move a row, and everything else.
LEMMA RowMoves ==
    ASSUME Next
    PROVE  \/ UNCHANGED <<desired, slots>>
           \/ RecordAgentExecutionUpdate
           \/ \E e \in Exec : CommitClaim(e) \/ AdoptObservation(e) \/ FailDesired(e)
<1>1. CASE Session
  BY <1>1 DEF Session, Connect, RecordAgentSnapshot, ProjectSnapshot, ProjectUpdate, Acknowledge,
              HandleAgentDisconnect, store
<1>2. ASSUME NEW e \in Exec, Commits(e)
      PROVE  UNCHANGED <<desired, slots>> \/ CommitClaim(e) \/ AdoptObservation(e) \/ FailDesired(e)
  BY <1>2 DEF Commits, SendPrepare, SendStart, SettleFence, ReplayPrepare, SendReconciliationCancel, store
<1>3. ASSUME NEW e \in Exec, AgentMoves(e) PROVE UNCHANGED <<desired, slots>> BY <1>3 DEF AgentMoves, store
<1>4. CASE Coordinator
  BY <1>4 DEF Coordinator, ProjectDesired, CommitCommand, SendCommand, CommandAnswered, store
<1>5. CASE AgentHandles BY <1>5 DEF AgentHandles, store
<1>6. CASE Faults BY <1>6 DEF Faults, LoseSession, AgentStateLost, AgentStateBack, Restart, store
<1>7. CASE Operator
  BY <1>7 DEF Operator, SetNodeAdministrativeState, ProjectAdministrativeState, RunnerUpdateExpires,
              HandleAgentReadiness, store
<1> QED BY <1>1, <1>2, <1>3, <1>4, <1>5, <1>6, <1>7 DEF Next

\* A commit moves a row forward, and frees its slot only with evidence.
LEMMA CommitJustified ==
    ASSUME ExecutionsInv, Next
    PROVE  /\ \A x \in Exec : desired[x] # "none" => Precedes(desired[x], desired'[x])
           /\ \A x \in slots \ slots' : a.obs[x] \in Active => authority.snap.obs[x] = "none"
<1>0. desired \in [Exec -> Statuses] /\ slots \subseteq Exec BY DEF ExecutionsInv, Typed, StoreTyped
<1>1. \A x \in Exec : desired[x] # "none" => Precedes(desired[x], desired[x])
  BY <1>0 DEF Statuses, Precedes
<1>2. ASSUME NEW e \in Exec, NEW t \in States, Moved(e, t)
      PROVE  /\ \A x \in Exec : desired[x] # "none" => Precedes(desired[x], desired'[x])
             /\ slots \ slots' \subseteq {e}
  BY <1>0, <1>1, <1>2 DEF Moved
<1>3. CASE UNCHANGED <<desired, slots>> BY <1>1, <1>3
<1>4. CASE RecordAgentExecutionUpdate
  <2>1. CASE Calm BY <1>1, <2>1 DEF Calm
  <2>2. CASE \E e \in Exec, t \in States : Moved(e, t) /\ (e \in slots \ slots' => a.obs[e] \notin Active)
    BY <1>2, <2>2
  <2> QED BY <1>4, <2>1, <2>2, RecordUpdateMoves
<1>5. ASSUME NEW e \in Exec, CommitClaim(e)
      PROVE  /\ \A x \in Exec : desired[x] # "none" => Precedes(desired[x], desired'[x])
             /\ slots \ slots' = {}
  <2>1. slots \subseteq slots' BY <1>5 DEF CommitClaim
  <2>2. "reserved" \in States BY DEF States
  <2> QED BY <1>2, <1>5, <2>1, <2>2, ClaimRow
<1>6. ASSUME NEW e \in Exec, AdoptObservation(e)
      PROVE  /\ \A x \in Exec : desired[x] # "none" => Precedes(desired[x], desired'[x])
             /\ slots \ slots' = {}
  BY <1>2, <1>6, AdoptMoves
<1>7. ASSUME NEW e \in Exec, FailDesired(e)
      PROVE  /\ \A x \in Exec : desired[x] # "none" => Precedes(desired[x], desired'[x])
             /\ slots \ slots' \subseteq {e} /\ authority.snap.obs[e] = "none"
  <2>1. "failed" \in States BY DEF States, Clean
  <2>2. authority.snap.obs[e] = "none" BY <1>7 DEF FailDesired, NotObserved
  <2> QED BY <1>2, <1>7, <2>1, <2>2, FailMoves
<1> QED BY <1>3, <1>4, <1>5, <1>6, <1>7, RowMoves

LEMMA InvViews == ASSUME ExecutionsInv PROVE ViewsAgree
<1> USE DEF ExecutionsInv
<1>1. TypeOK
  BY DEF TypeOK, Typed, StoreTyped, SessionTyped, DriverTyped, Projs, Statuses, Admins, Fences, Links, Ops, Sendings
<1>2. RestoreAccepts
  BY DEF RestoreAccepts, Rows, Row, Typed, StoreTyped
<1>3. ProjectionFollowsStore
  <2>1. ASSUME NEW e \in Exec, p.execs[e] # "none"
        PROVE  /\ Order[p.execs[e]] <= Order[desired[e]]
               /\ p.execs[e] \in Terminal => p.execs[e] = desired[e]
    <3>1. Precedes(p.execs[e], desired[e]) BY <2>1 DEF Rows, Row
    <3> QED BY <3>1, PrecedesOrder, PrecedesOf
  <2>2. drv.op # "claim" => slots \subseteq p.res BY DEF Rows, Row, Claiming, Typed, StoreTyped
  <2> QED BY <2>1, <2>2 DEF ProjectionFollowsStore
<1>4. NoCapacityOverLeftover
  <2> SUFFICES ASSUME NEW e \in Exec, e \notin p.res, sess.snap.obs[e] \in Local, a.obs[e] \in Local,
                      Online, p.capable
               PROVE  FALSE
    BY DEF NoCapacityOverLeftover, AllowsNewCapacity, AllowsRecovery
  <2>1. p.execs[e] \in Terminal \cup {"none"} BY DEF Rows, Row
  <2>2. p.snap.obs[e] \in Local BY DEF Followed, Follows
  <2>3. p \in Projs /\ p.snap \in Snaps BY DEF Typed, Projs
  <2>4. Plan(p, p.snap, e).blocked BY <2>1, <2>2, <2>3, PlanBlocks
  <2> QED BY <2>4 DEF DerivedOf, Plain
<1> QED BY <1>1, <1>2, <1>3, <1>4 DEF ViewsAgree

LEMMA Invariant == Spec => []ExecutionsInv
<1>1. Init => ExecutionsInv BY InitInv
<1>2. ExecutionsInv /\ [Next]_vars => ExecutionsInv' BY NextKeeps, StutterKeeps
<1> QED BY <1>1, <1>2, PTL DEF Spec

\* However updates, snapshots, commits, their projections, restarts and lost sessions
\* interleave, SQLite can be restored (RestoreAccepts), reconcile.Controller never runs ahead
\* of it (ProjectionFollowsStore), and no claim is admitted over a runtime the Agent still has
\* (NoCapacityOverLeftover), for any number of executions, Controller starts and faults.
THEOREM StoreAndProjectionAgree == Spec => []ViewsAgree
<1>1. ExecutionsInv => ViewsAgree BY InvViews
<1> QED BY <1>1, Invariant, PTL

\* RecordAgentExecutionUpdate, AdoptAgentSnapshotObservation, FailDesiredExecutionFromSnapshot
\* and CommitGitHubMessage never reopen an execution and never free a slot the Agent may still
\* use; a Prepare is accepted only for an execution that is still open.
THEOREM CommitsJustified == Spec => CommitsAreJustified
<1>1. ASSUME ExecutionsInv, [Next]_vars
      PROVE  [\A e \in Exec : desired[e] # "none" =>
                 /\ Order[desired[e]] <= Order[desired'[e]]
                 /\ desired[e] \in Terminal => desired'[e] = desired[e]]_vars
  <2>1. CASE UNCHANGED vars BY <2>1
  <2>2. CASE Next
    <3>1. \A x \in Exec : desired[x] # "none" => Precedes(desired[x], desired'[x]) BY <1>1, <2>2, CommitJustified
    <3> QED BY <3>1, PrecedesOrder, PrecedesOf
  <2> QED BY <1>1, <2>1, <2>2
<1>2. ASSUME ExecutionsInv, [Next]_vars
      PROVE  [\A e \in slots \ slots' : a.obs[e] \in Active => authority.snap.obs[e] = "none"]_vars
  BY <1>2, CommitJustified
<1>3. ASSUME ExecutionsInv, [Next]_vars
      PROVE  [lost = {} /\ wire.type = "prepare" /\ wire \in a'.cmds \ a.cmds =>
                 desired[wire.exec] \in {"reserved", "preparing"}]_vars
  BY <1>3 DEF ExecutionsInv, Prepares, Unsent
<1> QED BY <1>1, <1>2, <1>3, Invariant, PTL
    DEF Spec, CommitsAreJustified, VerdictStands, FreedSlotHasEvidence, PrepareOnlyOpen

=============================================================================
