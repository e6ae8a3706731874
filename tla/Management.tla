------------------------------ MODULE Management ------------------------------
(***************************************************************************)
(* The management plane of the Controller: the configuration document and  *)
(* its revision (internal/store/management.go), the requests of the        *)
(* administrators (internal/app/management_api.go), join codes and the     *)
(* enrollment of Agents (internal/enroll, internal/store/enroll.go) and the *)
(* in-memory node projection the scheduler reads                           *)
(* (internal/reconcile/controller.go), with the Targets a document adds,   *)
(* which are provisioned at GitHub (internal/github/authority.go) before   *)
(* the document is committed.                                              *)
(*                                                                         *)
(* Every SQLite transaction is one step.  What a request does between two  *)
(* transactions, and between a commit and its projection into memory, is a *)
(* step of its own: only mutationMu keeps two administrators' requests     *)
(* apart, and enrollments, quarantines and sessions do not take it.        *)
(***************************************************************************)
EXTENDS Naturals, FiniteSets

CONSTANTS
    Admins,         \* clients of the management API
    Agents,         \* machines joining
    Codes,          \* join codes
    Reqs,           \* enrollment requests under way at one time
    Targets,        \* GitHub Targets of the documents
    Repos,          \* the Targets of repository scope
    MaxEpoch,       \* bound: Controller processes
    MaxRequests,    \* bound: administrators' mutations
    MaxEvents       \* bound: crashes, timeouts, failures, quarantines

ASSUME ManagementConstants ==
    /\ Admins \subseteq Nat \ {0} /\ Agents \subseteq Nat \ {0} /\ Codes \subseteq Nat \ {0}
    /\ IsFiniteSet(Agents) /\ IsFiniteSet(Codes) /\ Targets \subseteq Nat \ {0}
    /\ Repos \subseteq Targets
    /\ MaxEpoch \in Nat \ {0} /\ MaxRequests \in Nat /\ MaxEvents \in Nat

Nodes == 1..(Cardinality(Codes) + 1)

VARIABLES
    db,             \* SQLite: epoch, rev, nodes, toks, replay, tgts, pol, claims, intent
    mem,            \* the process: up, audit (auditHealthy), healthy
                    \*   (managementProjectionHealthy), lock (mutationMu), nodes; unmarked:
                    \*   whether a MarkManagementTargetCommitted has failed in it
    adm,            \* administrators' requests
    enr,            \* enrollment requests in the Controller
    ag,             \* the Agents' persisted configuration and join command
    ses,            \* one authenticated session per node
    quar,           \* nodes whose durable quarantine is not projected yet
    gh,             \* scale sets and owned runner groups at GitHub
    given,          \* codes handed out, and those whose cancellation succeeded
    n_              \* counters of the bounds

mvars == <<db, mem, adm, enr, ag, ses, quar, gh, given, n_>>

---------------------------------------------------------------------------
NoNode == [adm |-> "none", cred |-> 0, max |-> 0, key |-> 0, code |-> 0]
NoProj == [adm |-> "none", cred |-> 0, max |-> 0]
NoDoc  == [max |-> [n \in Nodes |-> 0], tgts |-> {}, pol |-> [t \in Targets |-> 0]]
NoTops == [n \in Nodes |-> NoProj]
Rest   == [pc |-> "idle", op |-> "none", rev |-> 0, base |-> NoDoc, doc |-> NoDoc,
           n |-> 0, t |-> 0, top |-> NoTops]
Free   == [pc |-> "idle", a |-> 0, k |-> 0, c |-> 0, n |-> 0, from |-> "none", top |-> NoProj]

Down == [up |-> FALSE, audit |-> FALSE, healthy |-> FALSE, lock |-> 0, nodes |-> NoTops,
         unmarked |-> FALSE]
Serving(nodes) == [up |-> TRUE, audit |-> TRUE, healthy |-> TRUE, lock |-> 0, nodes |-> nodes,
                   unmarked |-> FALSE]

\* InitController mints the first join code, for epoch one, before any serve.
Init ==
    /\ db = [epoch |-> 0, rev |-> 1, nodes |-> [n \in Nodes |-> NoNode],
             toks |-> [c \in Codes |-> IF c = 1 THEN 1 ELSE 0],
             replay |-> [c \in Codes |-> 0], tgts |-> {}, claims |-> {},
             pol |-> [t \in Targets |-> 0],
             intent |-> [t \in Targets |-> "none"]]
    /\ mem = Down
    /\ adm = [a \in Admins |-> Rest]
    /\ enr = [r \in Reqs |-> Free]
    /\ ag = [a \in Agents |-> [pc |-> "idle", key |-> a, code |-> 0, node |-> 0, r |-> 0]]
    /\ ses = [n \in Nodes |-> "none"]
    /\ quar = {}
    /\ gh = [sets |-> {}, groups |-> {}]
    /\ given = [out |-> Codes \cap {1}, cancelled |-> {}]
    /\ n_ = [req |-> 0, ev |-> 0]

Event == n_.ev < MaxEvents /\ n_' = [n_ EXCEPT !.ev = @ + 1]

At(x, pc) == [x EXCEPT !.pc = pc]       \* a request that goes on

Enrolled == {n \in Nodes : db.nodes[n] # NoNode}
\* readRestartNodeTopology: what one node's rows say.
Topology(n) == [adm |-> db.nodes[n].adm, cred |-> db.nodes[n].cred, max |-> db.nodes[n].max]
\* readManagementConfiguration
Document == [max |-> [n \in Nodes |-> db.nodes[n].max], tgts |-> db.tgts, pol |-> db.pol]

---------------------------------------------------------------------------
(* The in-memory projection *)

\* restoreNodes: the projection of a restart snapshot.
Restored == [n \in Nodes |-> IF n \in Enrolled THEN Topology(n) ELSE NoProj]

\* EnsureRestartNode over a topology, in node order: absent nodes are added until
\* the first node whose retained authority differs, which is an error.
Differs(top)  == {n \in Nodes : /\ top[n] # NoProj /\ mem.nodes[n] # NoProj
                                /\ mem.nodes[n] # top[n]}
EnsureRestartNodes(top) ==
    [n \in Nodes |-> IF mem.nodes[n] = NoProj /\ ~\E b \in Differs(top) : b < n
                     THEN top[n] ELSE mem.nodes[n]]

WithNodes(m, nodes)   == [m EXCEPT !.nodes = nodes]
Standing(m, n, state) == [m EXCEPT !.nodes[n].adm = state]

MarkManagementProjectionUnavailable(m) == [m EXCEPT !.healthy = FALSE]

\* SetAdministrativeState(next, cleanupRemediated = false)
SetRefused(now, next) ==
    \/ now = "none"
    \/ now = "revoked" /\ next # "revoked"
    \/ now = "quarantined" /\ next = "active"
SetAdministrativeState(m, n, next) ==
    IF SetRefused(m.nodes[n].adm, next)
    THEN MarkManagementProjectionUnavailable(m)
    ELSE Standing(m, n, next)

\* ApplyNodeConfigurations: the document must name the projection's nodes exactly.
ApplyNodeConfigurations(m, doc) ==
    IF \A n \in Nodes : (doc.max[n] = 0) <=> (m.nodes[n] = NoProj)
    THEN WithNodes(m, [n \in Nodes |-> [m.nodes[n] EXCEPT !.max = doc.max[n]]])
    ELSE MarkManagementProjectionUnavailable(m)

---------------------------------------------------------------------------
(* The process *)

\* AdvanceEpoch deletes unused codes except at the first serve; replay rows stay.
TokensAfterStart == IF db.epoch > 0 THEN [c \in Codes |-> 0] ELSE db.toks

Advanced(d) == [d EXCEPT !.epoch = @ + 1, !.toks = TokensAfterStart]

\* OpenController(activate): AdvanceEpoch, then RestoreRestart from the snapshot.
StartController ==
    /\ ~mem.up /\ db.epoch < MaxEpoch
    /\ db' = Advanced(db)
    /\ mem' = Serving(Restored)
    /\ UNCHANGED <<adm, enr, ag, ses, quar, gh, given, n_>>

\* The process dies: requests, sessions and the projection are gone, SQLite and
\* what GitHub created are not.
Crash ==
    /\ mem.up /\ db.epoch < MaxEpoch /\ Event
    /\ mem' = Down
    /\ adm' = [a \in Admins |-> Rest] /\ enr' = [r \in Reqs |-> Free]
    /\ ses' = [n \in Nodes |-> "none"] /\ quar' = {}
    /\ UNCHANGED <<db, ag, gh, given>>

\* The audited commit takes the gate and looks at the audit's health again.
\* mutant: only the check at the operation's entry counts
CommitAnyway == TRUE
AuditGate == mem.audit
Degraded(m) == [m EXCEPT !.audit = FALSE]

---------------------------------------------------------------------------
(* Join codes *)

\* The row of a code: the epoch it was made in, 0 when there is none.
Bound(d, c, epoch) == [d EXCEPT !.toks[c] = epoch]

HandedOut(c) == [given EXCEPT !.out = @ \cup {c}]
Withdrawn(c) == [given EXCEPT !.cancelled = @ \cup {c}]

\* CreateTokenWithAudit, epoch-bound
CreateJoinCode(c) ==
    /\ mem.up /\ c \notin given.out
    /\ IF AuditGate
       THEN /\ db' = Bound(db, c, db.epoch)
            /\ given' = HandedOut(c)
       ELSE UNCHANGED <<db, given>>
    /\ UNCHANGED <<mem, adm, enr, ag, ses, quar, gh, n_>>

\* The insert or the commit of an audited token operation fails: nothing is stored.
TokenAuditFails ==
    /\ mem.up /\ mem.audit /\ Event
    /\ mem' = Degraded(mem)
    /\ UNCHANGED <<db, adm, enr, ag, ses, quar, gh, given>>

Cancels(c) == db.toks[c] # 0

\* CancelTokenWithAudit removes an unconsumed row, else ErrTokenNotFound.
CancelJoinCode(c) ==
    /\ mem.up /\ c \in given.out
    /\ AuditGate /\ Cancels(c)
    /\ db' = Bound(db, c, 0)
    /\ given' = Withdrawn(c)
    /\ UNCHANGED <<mem, adm, enr, ag, ses, quar, gh, n_>>

---------------------------------------------------------------------------
(* Enrollment: the Agent's join command and the Controller's service *)

\* The join command: it waits for the answer to request r, or has given up.
Waiting(x, c, r) == [x EXCEPT !.pc = "wait", !.code = c, !.r = r]
Quits(x)         == [x EXCEPT !.pc = "idle", !.r = 0]
Answered(x, n)   == [x EXCEPT !.pc = IF n = 0 THEN "idle" ELSE "config", !.node = n, !.r = 0]

Reinstalled(x)   == [pc |-> "idle", key |-> x.key + Cardinality(Agents), code |-> x.code,
                     node |-> 0, r |-> 0]

\* The Controller's handler: of a new request, of a node n found for it, ...
Request(pc, a, k, c) == [Free EXCEPT !.pc = pc, !.a = a, !.k = k, !.c = c]
Found(e, n, from)    == [e EXCEPT !.pc = "read", !.n = n, !.from = from]
Refused(e)           == [e EXCEPT !.pc = "reply", !.n = 0, !.from = "none"]
Observed(e, top)     == [e EXCEPT !.pc = "ensure", !.top = top]
Projected(e, n, pc)  == [e EXCEPT !.top = NoProj, !.from = "none", !.n = n, !.pc = pc]

\* JoinAgent of an unconfigured Agent: the persisted key, a code it was given.
JoinAgent(a, c) ==
  \E r \in Reqs :
    /\ \A o \in Reqs : o < r => enr[o] # Free
    /\ mem.up /\ ag[a].pc = "idle" /\ ag[a].node = 0 /\ ag[a].code \in {0, c}
    /\ c \in given.out /\ enr[r] = Free
    /\ ag' = [ag EXCEPT ![a] = Waiting(@, c, r)]
    /\ enr' = [enr EXCEPT ![r] =
                  Request(IF mem.audit THEN "consume" ELSE "replay", a, ag[a].key, c)]
    /\ UNCHANGED <<db, mem, adm, ses, quar, gh, given, n_>>

\* The attempt times out, or the join command is stopped before it persisted the
\* answer; the Controller's handler goes on.
AbandonJoin(a) ==
    /\ ag[a].pc = "wait" /\ Event
    /\ ag' = [ag EXCEPT ![a] = Quits(@)]
    /\ UNCHANGED <<db, mem, adm, enr, ses, quar, gh, given>>

\* The machine's state directory is lost: a new key, the same code.
ReinstallAgent(a) ==
    /\ Event
    /\ ag' = [ag EXCEPT ![a] = Reinstalled(@)]
    /\ UNCHANGED <<db, mem, adm, enr, ses, quar, gh, given>>

To(r, pc)    == enr' = [enr EXCEPT ![r] = At(@, pc)]
Redeemable(c) == db.toks[c] # 0 /\ db.toks[c] = db.epoch

Enrol(d, n, k, c) ==
    [d EXCEPT !.nodes[n] = [adm |-> "active", cred |-> 1, max |-> 1, key |-> k, code |-> c],
              !.rev = @ + 1, !.toks[c] = 0, !.replay[c] = n]

\* ConsumeEnrollmentWithAudit: node, default configuration, revision, replay row
\* and the end of the code in one transaction; a failure leaves them all.
ConsumeEnrollment(r) ==
    LET e == enr[r]
        n == Cardinality(Enrolled) + 1
    IN /\ e.pc = "consume"
       /\ IF AuditGate /\ Redeemable(e.c) /\ n \in Nodes
          THEN /\ db' = Enrol(db, n, e.k, e.c)
               /\ enr' = [enr EXCEPT ![r] = Found(e, n, "consume")]
          ELSE /\ To(r, "replay") /\ UNCHANGED db
       /\ UNCHANGED <<mem, adm, ag, ses, quar, gh, given, n_>>

ConsumeFails(r) ==
    /\ enr[r].pc = "consume" /\ mem.audit /\ Event
    /\ To(r, "replay") /\ mem' = Degraded(mem)
    /\ UNCHANGED <<db, adm, ag, ses, quar, gh, given>>

\* mutant: the replay is bound to the process that consumed the code
NeverReplays(e) == FALSE
Replays(e) ==
    /\ db.replay[e.c] # 0
    /\ db.nodes[db.replay[e.c]].adm # "revoked"
    /\ db.nodes[db.replay[e.c]].key = e.k

\* ReplayEnrollment: same code, same key; the code's epoch does not matter.
ReplayEnrollment(r) ==
    LET e == enr[r] IN
    /\ e.pc = "replay"
    /\ enr' = [enr EXCEPT ![r] =
                  IF Replays(e) THEN Found(e, db.replay[e.c], "replay") ELSE Refused(e)]
    /\ UNCHANGED <<db, mem, adm, ag, ses, quar, gh, given, n_>>

\* ensureNode: a fresh topology read, then the projection of this one node.
ReadTopology(r) ==
    /\ enr[r].pc = "read"
    /\ enr' = [enr EXCEPT ![r] = Observed(@, Topology(enr[r].n))]
    /\ UNCHANGED <<db, mem, adm, ag, ses, quar, gh, given, n_>>

EnsureNode(r) ==
    LET e    == enr[r]
        tops == [NoTops EXCEPT ![e.n] = e.top]
        ok   == Differs(tops) = {}
    IN /\ e.pc = "ensure"
       /\ mem' = IF ok THEN WithNodes(mem, EnsureRestartNodes(tops))
                 ELSE MarkManagementProjectionUnavailable(mem)
       /\ enr' = [enr EXCEPT ![r] =
                     Projected(e, IF ok THEN e.n ELSE 0,
                               IF ~ok /\ e.from = "consume" THEN "replay" ELSE "reply")]
       /\ UNCHANGED <<db, adm, ag, ses, quar, gh, given, n_>>

\* The answer, and persistAgentConfig in the join command that still waits for it.
Reply(r) ==
    LET e == enr[r]
        waits == ag[e.a].pc = "wait" /\ ag[e.a].r = r
    IN /\ e.pc = "reply"
       /\ enr' = [enr EXCEPT ![r] = Free]
       /\ ag' = IF waits THEN [ag EXCEPT ![e.a] = Answered(@, e.n)] ELSE ag
       /\ UNCHANGED <<db, mem, adm, ses, quar, gh, given, n_>>

\* A request whose handler died with the process.
LoseConnection(a) ==
    /\ ag[a].pc = "wait" /\ enr[ag[a].r].a # a
    /\ ag' = [ag EXCEPT ![a] = Quits(@)]
    /\ UNCHANGED <<db, mem, adm, enr, ses, quar, gh, given, n_>>

---------------------------------------------------------------------------
(* Agent sessions: UpgradeAuthenticatedWithSessions *)

\* AuthorizeCredential: the certificate carries the epoch it was issued with.
AuthorizeCredential(n) == db.nodes[n].adm # "revoked" /\ db.nodes[n].cred = 1

Session(n, s) == ses' = [ses EXCEPT ![n] = s]

\* confirmAgent and every later dial: authorized before the upgrade.
DialAgent(a) ==
    /\ mem.up /\ ag[a].pc \in {"config", "joined"} /\ ses[ag[a].node] = "none"
    /\ AuthorizeCredential(ag[a].node)
    /\ Session(ag[a].node, "checked")
    /\ UNCHANGED <<db, mem, adm, enr, ag, quar, gh, given, n_>>

\* The upgrade is accepted and the session registered; the join command returns.
RegisterSession(a) ==
    /\ ag[a].pc \in {"config", "joined"} /\ ses[ag[a].node] = "checked"
    /\ Session(ag[a].node, "registered")
    /\ ag' = [ag EXCEPT ![a] = At(@, "joined")]
    /\ UNCHANGED <<db, mem, adm, enr, quar, gh, given, n_>>

\* mutant: the credential is not looked at again after registration
StillTrusted(n) == TRUE
ReauthorizeCredential(n) == AuthorizeCredential(n)

\* The replay rows of a node are dropped.
Forget(d, n) == [d EXCEPT !.replay = [c \in Codes |-> IF @[c] = n THEN 0 ELSE @[c]]]

\* After registration the credential is authorized again, FinalizeEnrollment drops
\* the replay rows, and the broker serves the session.
FinalizeEnrollment(n) ==
    /\ ses[n] = "registered"
    /\ IF ReauthorizeCredential(n)
       THEN /\ db' = Forget(db, n)
            /\ Session(n, "serving")
       ELSE UNCHANGED db /\ Session(n, "none")
    /\ UNCHANGED <<mem, adm, enr, ag, quar, gh, given, n_>>

BreakSession(n) ==
    /\ ses[n] # "none" /\ Event
    /\ Session(n, "none")
    /\ UNCHANGED <<db, mem, adm, enr, ag, quar, gh, given>>

Quarantined(d, n) == [d EXCEPT !.nodes[n].adm = "quarantined"]

\* A session reports uncertain cleanup: quarantineNode commits, the projection of
\* the update follows (internal/store/controller_agent.go, ApplyExecutionUpdate).
QuarantineNode(n) ==
    /\ ses[n] = "serving" /\ n \notin quar /\ Event
    /\ db.nodes[n].adm \notin {"revoked", "quarantined"}
    /\ db' = Quarantined(db, n)
    /\ quar' = quar \cup {n}
    /\ UNCHANGED <<mem, adm, enr, ag, ses, gh, given>>

ProjectQuarantine(n) ==
    /\ n \in quar /\ quar' = quar \ {n}
    /\ mem' = IF mem.nodes[n] = NoProj THEN mem ELSE Standing(mem, n, "quarantined")
    /\ UNCHANGED <<db, adm, enr, ag, ses, gh, given, n_>>

---------------------------------------------------------------------------
(* The administrators' mutations, one at a time under mutationMu *)

\* The request of an administrator: a document read, a mutation begun on it, the nodes
\* of the restart snapshot it has to ensure.
Reading(rev, doc)    == [Rest EXCEPT !.pc = "read", !.rev = rev, !.base = doc, !.doc = doc]
Begun(q, op, n, doc) == [q EXCEPT !.pc = "snap", !.op = op, !.n = n, !.doc = doc]
Snapped(q, top)      == [q EXCEPT !.pc = "ensure", !.top = top]
Ensured(q, pc)       == [q EXCEPT !.pc = pc, !.top = NoTops]

RevisionMatches(rev) == db.rev = rev

\* getConfiguration: the document and its ETag.
ReadConfiguration(a) ==
    /\ mem.up /\ adm[a].pc \in {"idle", "read"} /\ n_.req < MaxRequests
    /\ adm' = [adm EXCEPT ![a] = Reading(db.rev, Document)]
    /\ UNCHANGED <<db, mem, enr, ag, ses, quar, gh, given, n_>>

Counted    == n_.req < MaxRequests /\ n_' = [n_ EXCEPT !.req = @ + 1]
\* The client keeps the document it read, and may base the next request on it.
Finish(a)  ==
    adm' = [adm EXCEPT ![a] = IF n_.req = MaxRequests THEN Rest ELSE Reading(@.rev, @.base)]
Locked(m, a) == [m EXCEPT !.lock = a]
Unlocked(m)  == Locked(m, 0)
Unmarked(m)  == [m EXCEPT !.unmarked = TRUE]
Goto(a, pc)  == adm' = [adm EXCEPT ![a] = At(@, pc)]

\* The documents an administrator may make of the one that was read, which they replace
\* as a whole: any maxima and Targets, and any version policy of a runner profile that a
\* Target keeps.  Bound: a document has at most one new Target.
Documents == [max : [Nodes -> 0..2], tgts : SUBSET Targets, pol : [Targets -> 0..1]]
Edits(doc) ==
    {d \in Documents :
        /\ \A n \in Nodes : d.max[n] = 0 <=> doc.max[n] = 0
        /\ \A t, u \in d.tgts \ doc.tgts : t = u
        /\ \A t \in Targets \ (d.tgts \cap doc.tgts) : d.pol[t] = doc.pol[t]}

\* A request is admitted: the projection must be healthy, and a document must be
\* based on the current revision.
Admitted(a, op) == mem.healthy /\ (op = "apply" => RevisionMatches(adm[a].rev))

MutationMuFree == mem.lock = 0

Begin(a, op, n, doc) ==
    /\ mem.up /\ adm[a].pc = "read" /\ MutationMuFree /\ Counted
    /\ IF Admitted(a, op)
       THEN /\ adm' = [adm EXCEPT ![a] = Begun(@, op, n, doc)]
            /\ mem' = Locked(mem, a)
       ELSE Finish(a) /\ UNCHANGED mem
    /\ UNCHANGED <<db, enr, ag, ses, quar, gh, given>>

ApplyConfiguration(a) == \E doc \in Edits(adm[a].doc) : Begin(a, "apply", 0, doc)
SetNodeState(a, n)    == \E op \in {"active", "draining", "revoked"} : Begin(a, op, n, adm[a].doc)

\* ensureDurableNodeProjection reads the restart snapshot, then ensures every node.
ReadSnapshot(a) ==
    /\ adm[a].pc = "snap"
    /\ adm' = [adm EXCEPT ![a] = Snapped(@, Restored)]
    /\ UNCHANGED <<db, mem, enr, ag, ses, quar, gh, given, n_>>

NewTargets(a) == adm[a].doc.tgts \ adm[a].base.tgts

EnsureDurableNodeProjection(a) ==
    /\ adm[a].pc = "ensure"
    /\ IF Differs(adm[a].top) = {}
       THEN /\ mem' = WithNodes(mem, EnsureRestartNodes(adm[a].top))
            /\ adm' = [adm EXCEPT ![a] =
                          Ensured(@, IF NewTargets(a) = {} THEN "enter" ELSE "verify")]
       ELSE /\ mem' = Unlocked(MarkManagementProjectionUnavailable(
                          WithNodes(mem, EnsureRestartNodes(adm[a].top))))
            /\ Finish(a)
    /\ UNCHANGED <<db, enr, ag, ses, quar, gh, given, n_>>

\* The provisioning of a request's new Target has no outcome the store knows.
Ambiguous(d, t) == IF t = 0 THEN d ELSE [d EXCEPT !.intent[t] = "ambiguous"]

\* The store's entry check of the audit, before the transaction begins.
EnterStore(a) ==
    /\ adm[a].pc = "enter"
    /\ IF mem.audit THEN Goto(a, "commit") /\ UNCHANGED <<db, mem>>
       ELSE /\ Finish(a) /\ mem' = Unlocked(mem)
            /\ db' = Ambiguous(db, adm[a].t)
    /\ UNCHANGED <<enr, ag, ses, quar, gh, given, n_>>

\* requireExactEnrolledNodes
ExactNodes(doc) == \A n \in Nodes : (doc.max[n] # 0) <=> (n \in Enrolled)
\* mutant: only reservations keep a Target
NoAuthority(t) == FALSE
\* managementTargetHasActiveAuthority: any claim row of its scale set keeps a Target.
HasActiveAuthority(t) == t \in db.claims
\* validateActiveManagementTransition: a Target or profile in use stays as it is.
ApplyAccepted(doc) ==
    /\ ExactNodes(doc)
    /\ \A t \in db.tgts : t \notin doc.tgts \/ doc.pol[t] # db.pol[t] => ~HasActiveAuthority(t)
\* The transitions an administrator may ask for.
SetAccepted(n, op) ==
    /\ n \in Enrolled
    /\ CASE op = "active"   -> db.nodes[n].adm = "draining"
         [] op = "draining" -> db.nodes[n].adm = "active"
         [] OTHER           -> db.nodes[n].adm # "revoked"

Accepted(a) ==
    /\ AuditGate /\ RevisionMatches(adm[a].rev)
    /\ IF adm[a].op = "apply" THEN ApplyAccepted(adm[a].doc) ELSE SetAccepted(adm[a].n, adm[a].op)

\* replaceManagementConfiguration: nodes, Targets and their bindings.
ReplaceConfiguration(d, doc) ==
    [d EXCEPT !.nodes = [n \in Nodes |-> [@[n] EXCEPT !.max = doc.max[n]]],
              !.tgts = doc.tgts, !.pol = doc.pol, !.rev = @ + 1]
\* A revocation also advances the credential epoch and ends replays of the node.
ReplaceNodeState(d, n, op) ==
    LET row == [d.nodes[n] EXCEPT !.adm = op,
                   !.cred = IF op = "revoked" THEN d.nodes[n].cred + 1 ELSE d.nodes[n].cred]
    IN [d EXCEPT !.nodes[n] = row, !.rev = @ + 1,
                 !.replay = IF op = "revoked" THEN Forget(d, n).replay ELSE d.replay]

\* ApplyManagementConfiguration, SetNodeAdministrativeStateWithAudit: one
\* transaction with its audit event; a refused one marks the new Targets ambiguous.
CommitMutation(a) ==
    LET q == adm[a] IN
    /\ q.pc = "commit"
    /\ IF Accepted(a)
       THEN /\ db' = IF q.op = "apply" THEN ReplaceConfiguration(db, q.doc)
                     ELSE ReplaceNodeState(db, q.n, q.op)
            /\ Goto(a, IF q.op = "revoked" THEN "notify"
                    ELSE IF q.op = "apply" /\ q.t # 0 THEN "mark" ELSE "project")
            /\ UNCHANGED mem
       ELSE /\ Finish(a) /\ mem' = Unlocked(mem)
            /\ db' = Ambiguous(db, q.t)
    /\ UNCHANGED <<enr, ag, ses, quar, gh, given, n_>>

\* The audit insert or the commit fails.
CommitFails(a) ==
    LET q == adm[a] IN
    /\ q.pc = "commit" /\ mem.audit /\ Event
    /\ Finish(a) /\ mem' = Unlocked(Degraded(mem))
    /\ db' = Ambiguous(db, q.t)
    /\ UNCHANGED <<enr, ag, ses, quar, gh, given>>

\* notifyRevocation: the hook closes the sessions registered under the credential.
NotifyRevocation(a) ==
    /\ adm[a].pc = "notify"
    /\ ses' = IF ses[adm[a].n] = "checked" THEN ses ELSE [ses EXCEPT ![adm[a].n] = "none"]
    /\ Goto(a, "project")
    /\ UNCHANGED <<db, mem, enr, ag, quar, gh, given, n_>>

---------------------------------------------------------------------------
(* resolveManagementAuthorities: the provisioning of a new Target *)

\* VerifyManagementTarget: the intent row first, then GitHub.
BeginProvisioning(a) ==
    \E t \in NewTargets(a) :
        /\ adm[a].pc = "verify"
        /\ db' = [db EXCEPT !.intent[t] = "creating"]
        /\ adm' = [adm EXCEPT ![a] = [@ EXCEPT !.pc = "provision", !.t = t]]
        /\ UNCHANGED <<mem, enr, ag, ses, quar, gh, given, n_>>

\* An owned runner group with the Target's name refuses the Target.
Taken(t) == t \notin Repos /\ t \in gh.groups
\* What GitHub may hold after createScaleSet failed and the group was given up.
Leftovers(t) ==
    {[sets |-> gh.sets \cup s, groups |-> gh.groups \cup g] :
        s \in SUBSET {t}, g \in SUBSET ({t} \ Repos)}
ProvisioningFailed(a, i) ==
    /\ db' = [db EXCEPT !.intent[adm[a].t] = i]
    /\ mem' = Unlocked(mem) /\ Finish(a)

\* VerifyAndProvisionTarget and the intent's next state.
Provision(a) ==
    LET t == adm[a].t IN
    /\ adm[a].pc = "provision"
    /\ \/ /\ Taken(t) /\ ProvisioningFailed(a, "rolled_back")
          /\ UNCHANGED <<gh, n_>>
       \/ /\ ~Taken(t) /\ Event /\ ProvisioningFailed(a, "rolled_back")
          /\ UNCHANGED gh
       \/ /\ ~Taken(t) /\ t \in gh.sets /\ ProvisioningFailed(a, "ambiguous")
          /\ UNCHANGED <<gh, n_>>
       \/ /\ ~Taken(t) /\ Event /\ gh' \in Leftovers(t) /\ ProvisioningFailed(a, "ambiguous")
       \/ /\ ~Taken(t) /\ t \notin gh.sets
          /\ gh' = [sets |-> gh.sets \cup {t}, groups |-> gh.groups \cup ({t} \ Repos)]
          /\ db' = [db EXCEPT !.intent[t] = "ready"]
          /\ Goto(a, "enter") /\ UNCHANGED <<mem, n_>>
    /\ UNCHANGED <<enr, ag, ses, quar, given>>

\* MarkManagementTargetCommitted, after the document's commit.
MarkCommitted(a) ==
    /\ adm[a].pc = "mark"
    /\ db' = [db EXCEPT !.intent[adm[a].t] = "committed"]
    /\ Goto(a, "project")
    /\ UNCHANGED <<mem, enr, ag, ses, quar, gh, given, n_>>

\* The mark fails: the intent is made ambiguous, or that fails too, and the answer is an
\* error.  The committed document is neither projected nor is the projection given up.
MarkFails(a) ==
    /\ adm[a].pc = "mark" /\ Event
    /\ \E i \in {"ready", "ambiguous"} : db' = [db EXCEPT !.intent[adm[a].t] = i]
    /\ Finish(a) /\ mem' = Unmarked(Unlocked(mem))
    /\ UNCHANGED <<enr, ag, ses, quar, gh, given>>

---------------------------------------------------------------------------
(* The projection of a committed mutation *)

ProjectMutation(a) ==
    LET q == adm[a] IN
    /\ q.pc = "project"
    /\ mem' = Unlocked(IF q.op = "apply" THEN ApplyNodeConfigurations(mem, q.doc)
                       ELSE SetAdministrativeState(mem, q.n, q.op))
    /\ Finish(a)
    /\ UNCHANGED <<db, enr, ag, ses, quar, gh, given, n_>>

---------------------------------------------------------------------------
AdminStep(a) ==
    \/ ReadSnapshot(a) \/ EnsureDurableNodeProjection(a)
    \/ BeginProvisioning(a) \/ Provision(a)
    \/ EnterStore(a) \/ CommitMutation(a) \/ NotifyRevocation(a)
    \/ MarkCommitted(a) \/ ProjectMutation(a)
EnrollStep(r) ==
    \/ ConsumeEnrollment(r) \/ ReplayEnrollment(r) \/ ReadTopology(r) \/ EnsureNode(r) \/ Reply(r)
ManagementNext ==
    \/ StartController \/ Crash \/ TokenAuditFails
    \/ \E c \in Codes : CreateJoinCode(c) \/ CancelJoinCode(c)
    \/ \E a \in Agents : \/ \E c \in Codes : JoinAgent(a, c)
                         \/ AbandonJoin(a) \/ LoseConnection(a) \/ ReinstallAgent(a)
                         \/ DialAgent(a) \/ RegisterSession(a)
    \/ \E r \in Reqs : EnrollStep(r) \/ ConsumeFails(r)
    \/ \E n \in Nodes : \/ FinalizeEnrollment(n) \/ BreakSession(n)
                        \/ QuarantineNode(n) \/ ProjectQuarantine(n)
    \/ \E a \in Admins : \/ ReadConfiguration(a) \/ ApplyConfiguration(a)
                         \/ \E n \in Enrolled : SetNodeState(a, n)
                         \/ AdminStep(a) \/ CommitFails(a) \/ MarkFails(a)

\* Handlers run, the service manager restarts the Controller, and an Agent's
\* operator repeats the join command while the code is worth it.
ManagementFairness ==
    /\ WF_mvars(StartController)
    /\ \A r \in Reqs : WF_mvars(EnrollStep(r))
    /\ \A a \in Admins : WF_mvars(AdminStep(a))
    /\ \A a \in Agents : /\ \A c \in Codes : SF_mvars(JoinAgent(a, c))
                         /\ WF_mvars(LoseConnection(a))
                         /\ SF_mvars(DialAgent(a)) /\ WF_mvars(RegisterSession(a))
    /\ \A n \in Nodes : WF_mvars(FinalizeEnrollment(n)) /\ WF_mvars(ProjectQuarantine(n))

Spec == Init /\ [][ManagementNext]_mvars /\ ManagementFairness

---------------------------------------------------------------------------
(* Properties *)

\* Rows, projection and requests have their types, and only the holder of mutationMu is
\* inside a mutation.
TypeOK ==
    /\ db \in [epoch : 0..MaxEpoch, rev : Nat, toks : [Codes -> 0..MaxEpoch],
               nodes : [Nodes -> [adm : {"none", "active", "draining", "quarantined", "revoked"},
                                  cred : 0..2, max : 0..2, key : Nat,
                                  code : {0} \cup Codes]],
               replay : [Codes -> {0} \cup Nodes], tgts : SUBSET Targets, claims : SUBSET Targets,
               pol : [Targets -> 0..1],
               intent : [Targets -> {"none", "creating", "ready", "committed", "rolled_back",
                                     "ambiguous"}]]
    /\ mem.lock \in {0} \cup Admins
    /\ \A n \in Nodes : mem.nodes[n] # NoProj => mem.nodes[n].max \in 1..2
    /\ \A a \in Admins : adm[a].pc \in {"idle", "read", "snap", "ensure", "verify", "provision",
                                        "enter", "commit", "notify", "mark", "project"}
    /\ \A a \in Admins : adm[a].pc \notin {"idle", "read"} => mem.lock = a
    /\ \A r \in Reqs : enr[r].pc \in {"idle", "consume", "replay", "read", "ensure", "reply"}
    /\ ses \in [Nodes -> {"none", "checked", "registered", "serving"}]

\* A request that has committed and still owes the projection its change.
Owed(n) ==
    \/ n \in quar
    \/ \E a \in Admins : /\ adm[a].pc \in {"notify", "mark", "project"}
                         /\ adm[a].op = "apply" \/ adm[a].n = n
    \/ \E r \in Reqs : enr[r].pc \in {"read", "ensure"} /\ enr[r].n = n
    \/ \E r \in Reqs : enr[r].pc = "replay" /\ enr[r].c = db.nodes[n].code

\* A Controller that calls its projection healthy admits work on exactly the nodes
\* the database calls active, once no committed change is on its way to memory, and
\* with the database's maxima as long as MarkManagementTargetCommitted has not failed
\* in this process: the handler then returns without a projection.
ProjectionFollowsStore ==
    mem.up /\ mem.healthy =>
        \A n \in Enrolled : Owed(n) \/
            /\ (mem.nodes[n].adm = "active") <=> (db.nodes[n].adm = "active")
            /\ mem.unmarked \/ mem.nodes[n].max = db.nodes[n].max

\* The claim of ManagementProjectionHealthy's comment: with no change on its way a
\* healthy projection matches the whole durable authority of every node.
HealthyMatchesStore ==
    mem.up /\ mem.healthy =>
        \A n \in Enrolled : Owed(n) \/ mem.nodes[n].cred = db.nodes[n].cred

\* However often the enrollment of a code is repeated, lost or raced, the code makes
\* one node, and an Agent is only ever configured as the node made for its own key
\* (ReplayEnrollment, ConsumeEnrollmentWithAudit).
OneNodePerCode ==
    /\ \A m, n \in Enrolled : db.nodes[m].code = db.nodes[n].code => m = n
    /\ \A a \in Agents : ag[a].node # 0 => db.nodes[ag[a].node].key = ag[a].key

\* A code whose cancellation was confirmed to the administrator has not made and
\* never makes a node (CancelTokenWithAudit against ConsumeEnrollmentWithAudit).
CancelledNeverEnrolls ==
    \A n \in Enrolled : db.nodes[n].code \notin given.cancelled

\* Once the revocation hook has run no session of a revoked node is served, not even
\* one that was authorized before the revocation and registered after the hook.
RevokedIsCut ==
    \A n \in Enrolled :
        /\ db.nodes[n].adm = "revoked" /\ ses[n] = "serving"
        => \E a \in Admins : adm[a].pc = "notify" /\ adm[a].n = n

\* A document that is committed replaces exactly the configuration it was read from:
\* no enrollment, other document or retry in between is overwritten.
NoLostUpdate ==
    [][\A a \in Admins :
         adm[a].pc = "commit" /\ adm[a].op = "apply" /\ db'.rev # db.rev /\ adm'[a].pc # "commit"
           => adm[a].base = Document]_mvars

\* After a failed audit write nothing that advances the revision commits any more in
\* this process, whatever passed the check before (commitWithManagementAudit).
DegradedIsClosed ==
    [][mem.up /\ ~mem.audit => db'.rev = db.rev]_mvars

\* What makes a code worth another try for an Agent that was given it.  A replay meets
\* the projection of its node, which a failed mark may have left behind until the next
\* start.
Worth(a) ==
    LET c == ag[a].code IN
    /\ c # 0 /\ mem.up
    /\ \/ Redeemable(c) /\ mem.audit
       \/ /\ db.replay[c] # 0 /\ db.nodes[db.replay[c]].key = ag[a].key
          /\ db.nodes[db.replay[c]].adm # "revoked" /\ ~mem.unmarked

\* An Agent whose code can still be redeemed or replayed ends up joined, across lost
\* answers, failed projections and Controller restarts.
AgentsJoin == \A a \in Agents : Worth(a) ~> (ag[a].pc = "joined" \/ ~Worth(a))

\* Enrollment, cancellation, revocation and the projection agree on who is a node.
NodesAreAuthorized ==
    /\ TypeOK
    /\ ProjectionFollowsStore
    /\ OneNodePerCode
    /\ CancelledNeverEnrolls
    /\ RevokedIsCut

\* A commit is made from what is current: the revision it read and an audit log that
\* still works.
CommitsAreCurrent == NoLostUpdate /\ DegradedIsClosed

=============================================================================
