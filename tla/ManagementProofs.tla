------------------------- MODULE ManagementProofs -------------------------
(***************************************************************************)
(* The management plane proved for any numbers of administrators, Agents,  *)
(* codes and concurrent enrollment requests, and any number of crashes.    *)
(*                                                                         *)
(* The invariant says of each actor what it may still rely on.  A node is  *)
(* as its enrollment made it until memory knows it (Unprojected): sessions *)
(* and mutations, the only ones that change a row, wait for the            *)
(* projection.  So a topology that was read long ago and is projected now  *)
(* is not stale.  A mutation is decided on the revision its document was   *)
(* read at (Requests); between its commit and its projection mutationMu    *)
(* keeps every mutation but not the quarantines out (Pending), and the     *)
(* projection of a state that a quarantine has overtaken is refused.       *)
(*                                                                         *)
(* The steps come first: what an operator makes of a record (Fields), what *)
(* a step with a choice does (Moves), and what each step leaves and        *)
(* changes (Effect).  The conjuncts of the invariant are proved from       *)
(* these, one lemma each.                                                  *)
(***************************************************************************)
EXTENDS Management, FiniteSetTheorems, TLAPS

\* Nodes are numbered from one.
LEMMA NodesType == Nodes \subseteq Nat \ {0} /\ Cardinality(Codes) \in Nat
  BY ManagementConstants, FS_CardinalityType DEF Nodes

---------------------------------------------------------------------------
(* Values *)

States   == {"none", "active", "draining", "quarantined", "revoked"}
RowRec   == [adm : States, cred : 0..2, max : 0..2, key : Nat, code : {0} \cup Codes]
ProjRec  == [adm : States, cred : 0..2, max : 0..2]
DocRec   == [max : [Nodes -> 0..2], tgts : SUBSET Targets, pol : [Targets -> 0..1]]
Intents  == {"none", "creating", "ready", "committed", "rolled_back", "ambiguous"}
DbRec    == [epoch : 0..MaxEpoch, rev : Nat, toks : [Codes -> 0..MaxEpoch],
             nodes : [Nodes -> RowRec], replay : [Codes -> {0} \cup Nodes],
             tgts : SUBSET Targets, claims : SUBSET Targets, pol : [Targets -> 0..1],
             intent : [Targets -> Intents]]
MemRec   == [up : BOOLEAN, audit : BOOLEAN, healthy : BOOLEAN, lock : {0} \cup Admins,
             nodes : [Nodes -> ProjRec], unmarked : BOOLEAN]
AdmPCs   == {"idle", "read", "snap", "ensure", "verify", "provision", "enter", "commit",
             "notify", "mark", "project"}
Mutations == {"none", "apply", "active", "draining", "revoked"}
AdmRec   == [pc : AdmPCs, op : Mutations, rev : Nat, base : DocRec, doc : DocRec,
             n : {0} \cup Nodes, t : {0} \cup Targets, top : [Nodes -> ProjRec]]
EnrPCs   == {"idle", "consume", "replay", "read", "ensure", "reply"}
EnrRec   == [pc : EnrPCs, a : {0} \cup Agents, k : Nat, c : {0} \cup Codes,
             n : {0} \cup Nodes, from : {"none", "consume", "replay"}, top : ProjRec]
AgRec    == [pc : {"idle", "wait", "config", "joined"}, key : Nat, code : {0} \cup Codes,
             node : {0} \cup Nodes, r : {0} \cup Reqs]
GivenRec == [out : SUBSET Codes, cancelled : SUBSET Codes]
Steps    == {"none", "checked", "registered", "serving"}

Typed ==
    /\ db \in DbRec /\ mem \in MemRec /\ adm \in [Admins -> AdmRec] /\ enr \in [Reqs -> EnrRec]
    /\ ag \in [Agents -> AgRec] /\ ses \in [Nodes -> Steps] /\ quar \subseteq Nodes
    /\ given \in GivenRec

---------------------------------------------------------------------------
(* The inductive invariant *)

\* The row of an enrolled node.  Nodes are numbered in order.
Row(n) ==
    /\ db.nodes[n].adm # "none" /\ db.nodes[n].max # 0 /\ db.nodes[n].code # 0
    /\ db.nodes[n].adm = "revoked" => db.nodes[n].cred = 2
    /\ db.nodes[n].adm # "revoked" => db.nodes[n].cred = 1
Rows ==
    /\ \E k \in Nat : Enrolled = 1..k
    /\ \A n \in Enrolled : Row(n)
    /\ \A c \in Codes : db.replay[c] # 0 => db.replay[c] \in Enrolled

\* A code is spent by the node it made, and by its cancellation.
Spent ==
    /\ \A c \in Codes : db.toks[c] # 0 => c \in given.out /\ c \notin given.cancelled
    /\ given.cancelled \subseteq given.out
    /\ \A n \in Enrolled : /\ db.nodes[n].code \in given.out \ given.cancelled
                           /\ db.toks[db.nodes[n].code] = 0
    /\ \A m, n \in Enrolled : db.nodes[m].code = db.nodes[n].code => m = n

\* An enrollment request carries the node that was made for its key.
Handler(r) ==
    /\ enr[r].pc = "idle" => enr[r] = Free
    /\ enr[r].pc # "idle" => mem.up /\ enr[r].c # 0 /\ enr[r].a # 0
    /\ enr[r].pc \in {"read", "ensure"} => enr[r].n # 0
    /\ enr[r].pc \in {"read", "ensure", "reply"} /\ enr[r].n # 0 =>
         enr[r].n \in Enrolled /\ db.nodes[enr[r].n].key = enr[r].k
    /\ enr[r].pc = "reply" /\ enr[r].n # 0 => mem.nodes[enr[r].n] # NoProj
    /\ enr[r].pc = "ensure" => enr[r].top.adm # "none" /\ enr[r].top.max # 0
Handlers == \A r \in Reqs : Handler(r)

\* So does the Agent that waits for it or was answered.
Joining(a) ==
    /\ ag[a].pc = "wait" => ag[a].r \in Reqs
    /\ ag[a].pc = "wait" /\ enr[ag[a].r].a = a => enr[ag[a].r].k = ag[a].key
    /\ ag[a].node # 0 => /\ ag[a].node \in Enrolled
                         /\ db.nodes[ag[a].node].key = ag[a].key
                         /\ mem.up => mem.nodes[ag[a].node] # NoProj
    /\ ag[a].pc \in {"config", "joined"} => ag[a].node # 0
Joins == \A a \in Agents : Joining(a)

\* A session is one of a node that memory knows: it can only quarantine such a node.
Sessions ==
    /\ \A n \in Nodes : ses[n] # "none" => mem.up /\ n \in Enrolled /\ mem.nodes[n] # NoProj
    /\ \A n \in quar : /\ mem.up /\ n \in Enrolled /\ mem.nodes[n] # NoProj
                       /\ db.nodes[n].adm \in {"quarantined", "revoked"}
    /\ RevokedIsCut

Committed == {"notify", "mark", "project"}
Deciding  == {"verify", "provision", "enter", "commit"}

\* A mutation is decided on the revision its document was read at.  While that is the
\* current one no node was enrolled, so memory knows all of them.
Requested(a) ==
    /\ adm[a].pc # "idle" => /\ mem.up /\ adm[a].rev <= db.rev
                             /\ adm[a].rev = db.rev => adm[a].base = Document
    /\ adm[a].pc \notin {"idle", "read"} => mem.lock = a /\ adm[a].op # "none"
    /\ adm[a].pc \notin {"idle", "read"} /\ adm[a].op # "apply" => adm[a].n \in Enrolled
    /\ adm[a].pc = "ensure" /\ adm[a].rev = db.rev =>
         \A n \in Enrolled : adm[a].top[n] # NoProj
    /\ adm[a].pc \in Deciding /\ adm[a].rev = db.rev =>
         \A n \in Enrolled : mem.nodes[n] # NoProj
Requests == \A a \in Admins : Requested(a)

\* What a committed mutation still has to project.
Owing(a) ==
    adm[a].pc \in Committed =>
      /\ adm[a].op = "apply" => \A n \in Nodes : adm[a].doc.max[n] # 0 =>
                                   db.nodes[n].max = adm[a].doc.max[n]
      /\ adm[a].op # "apply" => mem.nodes[adm[a].n] # NoProj /\ adm[a].pc # "mark"
      /\ adm[a].op \in {"draining", "revoked"} => db.nodes[adm[a].n].adm # "active"
      /\ adm[a].op = "active" =>
           \/ db.nodes[adm[a].n].adm = "active"
           \/ /\ db.nodes[adm[a].n].adm = "quarantined"
              /\ adm[a].n \in quar \/ mem.nodes[adm[a].n].adm = "quarantined"
Pending == \A a \in Admins : Owing(a)

\* As an enrollment makes it.
Fresh(x) == x.adm = "active" /\ x.cred = 1 /\ x.max = 1

\* A node that memory does not know yet is as its enrollment made it, and every topology
\* that was read of it says so, however old.
Unprojected ==
    /\ \A n \in Nodes : mem.nodes[n] # NoProj =>
         mem.up /\ n \in Enrolled /\ mem.nodes[n].adm # "none" /\ mem.nodes[n].max # 0
    /\ mem.up => \A n \in Enrolled : mem.nodes[n] = NoProj => Fresh(db.nodes[n])
    /\ \A n \in Nodes, r \in Reqs :
         mem.nodes[n] = NoProj /\ enr[r].pc = "ensure" /\ enr[r].n = n => Fresh(enr[r].top)
    /\ \A n \in Nodes, a \in Admins : adm[a].pc = "ensure" /\ adm[a].top[n] # NoProj =>
         /\ n \in Enrolled /\ adm[a].top[n].adm # "none" /\ adm[a].top[n].max # 0
         /\ mem.nodes[n] = NoProj => Fresh(adm[a].top[n])

Applying(a)   == adm[a].pc \in Committed /\ adm[a].op = "apply"
Setting(a, n) == adm[a].pc \in Committed /\ adm[a].op # "apply" /\ adm[a].n = n

\* A healthy projection knows every node but those an enrollment request is still bringing,
\* and of those it knows the state and the maximum but for what is pending; the maximum only
\* as long as no MarkManagementTargetCommitted has failed in the process.
Healthy ==
    mem.up /\ mem.healthy => \A n \in Enrolled :
      /\ mem.nodes[n] = NoProj => \E r \in Reqs : enr[r].pc \in {"read", "ensure"} /\ enr[r].n = n
      /\ mem.nodes[n] # NoProj /\ n \notin quar /\ ~(\E a \in Admins : Setting(a, n)) =>
           ((mem.nodes[n].adm = "active") <=> (db.nodes[n].adm = "active"))
      /\ mem.nodes[n] # NoProj /\ ~(\E a \in Admins : Applying(a)) /\ ~mem.unmarked =>
           mem.nodes[n].max = db.nodes[n].max

ManagementInv ==
    Typed /\ Rows /\ Spent /\ Handlers /\ Joins /\ Sessions /\ Requests /\ Pending
      /\ Unprojected /\ Healthy

---------------------------------------------------------------------------
(* The records of rows and requests *)

\* A node without a row.
LEMMA NoNodeFields ==
  /\ NoNode \in RowRec /\ NoNode.adm = "none" /\ NoNode.cred = 0 /\ NoNode.max = 0
  /\ NoNode.key = 0 /\ NoNode.code = 0
  BY DEF NoNode, RowRec, States

\* A node memory does not know.
LEMMA NoProjFields ==
  /\ NoProj \in ProjRec /\ NoProj.adm = "none" /\ NoProj.cred = 0 /\ NoProj.max = 0
  BY DEF NoProj, ProjRec, States

\* The empty document.
LEMMA NoDocFields ==
  /\ NoDoc \in DocRec
  BY DEF NoDoc, DocRec

\* No node at all.
LEMMA NoTopsFields ==
  NoTops \in [Nodes -> ProjRec] /\ \A n \in Nodes : NoTops[n] = NoProj
  BY NoProjFields DEF NoTops

\* A process that is down.
LEMMA DownFields ==
  /\ Down \in MemRec /\ ~Down.up /\ ~Down.audit /\ ~Down.healthy /\ Down.lock = 0
  /\ Down.nodes = NoTops /\ ~Down.unmarked
  BY NoTopsFields DEF Down, MemRec

\* An administrator without a request.
LEMMA RestFields ==
  /\ Rest \in AdmRec /\ Rest.pc = "idle" /\ Rest.op = "none" /\ Rest.rev = 0
  /\ Rest.base = NoDoc /\ Rest.doc = NoDoc /\ Rest.n = 0 /\ Rest.t = 0
  /\ Rest.top = NoTops
  BY NoTopsFields, NoDocFields DEF Rest, AdmRec, AdmPCs, Mutations

\* No enrollment request.
LEMMA FreeFields ==
  /\ Free \in EnrRec /\ Free.pc = "idle" /\ Free.a = 0 /\ Free.k = 0 /\ Free.c = 0
  /\ Free.n = 0 /\ Free.from = "none" /\ Free.top = NoProj
  BY NoProjFields DEF Free, EnrRec, EnrPCs

\* A request goes on.
LEMMA AtAdmFields ==
  ASSUME NEW q \in AdmRec, NEW pc \in AdmPCs
  PROVE  /\ At(q, pc) \in AdmRec /\ At(q, pc).pc = pc /\ At(q, pc).op = q.op
         /\ At(q, pc).rev = q.rev /\ At(q, pc).base = q.base /\ At(q, pc).doc = q.doc
         /\ At(q, pc).n = q.n /\ At(q, pc).t = q.t /\ At(q, pc).top = q.top
  BY DEF At, AdmRec

\* A document was read.
LEMMA ReadingFields ==
  ASSUME NEW rev \in Nat, NEW doc \in DocRec
  PROVE  /\ Reading(rev, doc) \in AdmRec /\ Reading(rev, doc).pc = "read"
         /\ Reading(rev, doc).op = "none" /\ Reading(rev, doc).rev = rev
         /\ Reading(rev, doc).base = doc /\ Reading(rev, doc).doc = doc
         /\ Reading(rev, doc).n = 0 /\ Reading(rev, doc).t = 0
         /\ Reading(rev, doc).top = NoTops
  BY NoTopsFields DEF Reading, Rest, AdmRec, AdmPCs, Mutations

\* A mutation has mutationMu.
LEMMA BegunFields ==
  ASSUME NEW q \in AdmRec, NEW op \in Mutations, NEW n \in {0} \cup Nodes, NEW doc \in DocRec
  PROVE  /\ Begun(q, op, n, doc) \in AdmRec /\ Begun(q, op, n, doc).pc = "snap"
         /\ Begun(q, op, n, doc).op = op /\ Begun(q, op, n, doc).rev = q.rev
         /\ Begun(q, op, n, doc).base = q.base /\ Begun(q, op, n, doc).doc = doc
         /\ Begun(q, op, n, doc).n = n /\ Begun(q, op, n, doc).t = q.t
         /\ Begun(q, op, n, doc).top = q.top
  BY DEF Begun, AdmRec, AdmPCs

\* The restart snapshot was read.
LEMMA SnappedFields ==
  ASSUME NEW q \in AdmRec, NEW top \in [Nodes -> ProjRec]
  PROVE  /\ Snapped(q, top) \in AdmRec /\ Snapped(q, top).pc = "ensure"
         /\ Snapped(q, top).op = q.op /\ Snapped(q, top).rev = q.rev
         /\ Snapped(q, top).base = q.base /\ Snapped(q, top).doc = q.doc
         /\ Snapped(q, top).n = q.n /\ Snapped(q, top).t = q.t
         /\ Snapped(q, top).top = top
  BY DEF Snapped, AdmRec, AdmPCs

\* Memory knows the snapshot.
LEMMA EnsuredFields ==
  ASSUME NEW q \in AdmRec, NEW pc \in AdmPCs
  PROVE  /\ Ensured(q, pc) \in AdmRec /\ Ensured(q, pc).pc = pc
         /\ Ensured(q, pc).op = q.op /\ Ensured(q, pc).rev = q.rev
         /\ Ensured(q, pc).base = q.base /\ Ensured(q, pc).doc = q.doc
         /\ Ensured(q, pc).n = q.n /\ Ensured(q, pc).t = q.t
         /\ Ensured(q, pc).top = NoTops
  BY NoTopsFields DEF Ensured, AdmRec

\* A handler goes on.
LEMMA AtEnrFields ==
  ASSUME NEW e \in EnrRec, NEW pc \in EnrPCs
  PROVE  /\ At(e, pc) \in EnrRec /\ At(e, pc).pc = pc /\ At(e, pc).a = e.a
         /\ At(e, pc).k = e.k /\ At(e, pc).c = e.c /\ At(e, pc).n = e.n
         /\ At(e, pc).from = e.from /\ At(e, pc).top = e.top
  BY DEF At, EnrRec

\* A new enrollment request.
LEMMA RequestFields ==
  ASSUME NEW pc \in EnrPCs, NEW a \in Agents, NEW k \in Nat, NEW c \in Codes
  PROVE  /\ Request(pc, a, k, c) \in EnrRec /\ Request(pc, a, k, c).pc = pc
         /\ Request(pc, a, k, c).a = a /\ Request(pc, a, k, c).k = k
         /\ Request(pc, a, k, c).c = c /\ Request(pc, a, k, c).n = 0
         /\ Request(pc, a, k, c).from = "none" /\ Request(pc, a, k, c).top = NoProj
  BY NoProjFields DEF Request, Free, EnrRec

\* The node of the code was made or found.
LEMMA FoundFields ==
  ASSUME NEW e \in EnrRec, NEW n \in Nodes, NEW x \in {"consume", "replay"}
  PROVE  /\ Found(e, n, x) \in EnrRec /\ Found(e, n, x).pc = "read"
         /\ Found(e, n, x).a = e.a /\ Found(e, n, x).k = e.k /\ Found(e, n, x).c = e.c
         /\ Found(e, n, x).n = n /\ Found(e, n, x).from = x /\ Found(e, n, x).top = e.top
  BY DEF Found, EnrRec, EnrPCs

\* The code is worth nothing.
LEMMA RefusedFields ==
  ASSUME NEW e \in EnrRec
  PROVE  /\ Refused(e) \in EnrRec /\ Refused(e).pc = "reply" /\ Refused(e).a = e.a
         /\ Refused(e).k = e.k /\ Refused(e).c = e.c /\ Refused(e).n = 0
         /\ Refused(e).from = "none" /\ Refused(e).top = e.top
  BY DEF Refused, EnrRec, EnrPCs

\* The node's topology was read.
LEMMA ObservedFields ==
  ASSUME NEW e \in EnrRec, NEW top \in ProjRec
  PROVE  /\ Observed(e, top) \in EnrRec /\ Observed(e, top).pc = "ensure"
         /\ Observed(e, top).a = e.a /\ Observed(e, top).k = e.k
         /\ Observed(e, top).c = e.c /\ Observed(e, top).n = e.n
         /\ Observed(e, top).from = e.from /\ Observed(e, top).top = top
  BY DEF Observed, EnrRec, EnrPCs

\* The node was projected, or not.
LEMMA ProjectedFields ==
  ASSUME NEW e \in EnrRec, NEW n \in {0} \cup Nodes, NEW pc \in EnrPCs
  PROVE  /\ Projected(e, n, pc) \in EnrRec /\ Projected(e, n, pc).pc = pc
         /\ Projected(e, n, pc).a = e.a /\ Projected(e, n, pc).k = e.k
         /\ Projected(e, n, pc).c = e.c /\ Projected(e, n, pc).n = n
         /\ Projected(e, n, pc).from = "none" /\ Projected(e, n, pc).top = NoProj
  BY NoProjFields DEF Projected, EnrRec

\* A join command waits.
LEMMA WaitingFields ==
  ASSUME NEW x \in AgRec, NEW c \in Codes, NEW r \in Reqs
  PROVE  /\ Waiting(x, c, r) \in AgRec /\ Waiting(x, c, r).pc = "wait"
         /\ Waiting(x, c, r).key = x.key /\ Waiting(x, c, r).code = c
         /\ Waiting(x, c, r).node = x.node /\ Waiting(x, c, r).r = r
  BY DEF Waiting, AgRec

\* A join command gave up.
LEMMA QuitsFields ==
  ASSUME NEW x \in AgRec
  PROVE  /\ Quits(x) \in AgRec /\ Quits(x).pc = "idle" /\ Quits(x).key = x.key
         /\ Quits(x).code = x.code /\ Quits(x).node = x.node /\ Quits(x).r = 0
  BY DEF Quits, AgRec

\* A join command was answered.
LEMMA AnsweredFields ==
  ASSUME NEW x \in AgRec, NEW n \in {0} \cup Nodes
  PROVE  /\ Answered(x, n) \in AgRec
         /\ Answered(x, n).pc = IF n = 0 THEN "idle" ELSE "config"
         /\ Answered(x, n).key = x.key /\ Answered(x, n).code = x.code
         /\ Answered(x, n).node = n /\ Answered(x, n).r = 0
  BY DEF Answered, AgRec

\* An Agent has joined.
LEMMA AtAgFields ==
  ASSUME NEW x \in AgRec
  PROVE  /\ At(x, "joined") \in AgRec /\ At(x, "joined").pc = "joined"
         /\ At(x, "joined").key = x.key /\ At(x, "joined").code = x.code
         /\ At(x, "joined").node = x.node /\ At(x, "joined").r = x.r
  BY DEF At, AgRec

\* mutationMu changes hands.
LEMMA LockedFields ==
  ASSUME NEW m \in MemRec, NEW a \in {0} \cup Admins
  PROVE  /\ Locked(m, a) \in MemRec /\ Locked(m, a).up = m.up
         /\ Locked(m, a).audit = m.audit /\ Locked(m, a).healthy = m.healthy
         /\ Locked(m, a).lock = a /\ Locked(m, a).nodes = m.nodes
         /\ Locked(m, a).unmarked = m.unmarked
  BY DEF Locked, MemRec

\* mutationMu is given up.
LEMMA UnlockedFields ==
  ASSUME NEW m \in MemRec
  PROVE  /\ Unlocked(m) \in MemRec /\ Unlocked(m).up = m.up /\ Unlocked(m).audit = m.audit
         /\ Unlocked(m).healthy = m.healthy /\ Unlocked(m).lock = 0
         /\ Unlocked(m).nodes = m.nodes /\ Unlocked(m).unmarked = m.unmarked
  BY DEF Unlocked, Locked, MemRec

\* MarkManagementTargetCommitted failed.
LEMMA UnmarkedFields ==
  ASSUME NEW m \in MemRec
  PROVE  /\ Unmarked(m) \in MemRec /\ Unmarked(m).up = m.up /\ Unmarked(m).audit = m.audit
         /\ Unmarked(m).healthy = m.healthy /\ Unmarked(m).lock = m.lock
         /\ Unmarked(m).nodes = m.nodes /\ Unmarked(m).unmarked
  BY DEF Unmarked, MemRec

\* The audit failed.
LEMMA DegradedFields ==
  ASSUME NEW m \in MemRec
  PROVE  /\ Degraded(m) \in MemRec /\ Degraded(m).up = m.up /\ ~Degraded(m).audit
         /\ Degraded(m).healthy = m.healthy /\ Degraded(m).lock = m.lock
         /\ Degraded(m).nodes = m.nodes /\ Degraded(m).unmarked = m.unmarked
  BY DEF Degraded, MemRec

\* The projection is known to be wrong.
LEMMA UnavailableFields ==
  ASSUME NEW m \in MemRec
  PROVE  /\ MarkManagementProjectionUnavailable(m) \in MemRec
         /\ MarkManagementProjectionUnavailable(m).up = m.up
         /\ MarkManagementProjectionUnavailable(m).audit = m.audit
         /\ ~MarkManagementProjectionUnavailable(m).healthy
         /\ MarkManagementProjectionUnavailable(m).lock = m.lock
         /\ MarkManagementProjectionUnavailable(m).nodes = m.nodes
         /\ MarkManagementProjectionUnavailable(m).unmarked = m.unmarked
  BY DEF MarkManagementProjectionUnavailable, MemRec

\* The projection is replaced.
LEMMA WithNodesFields ==
  ASSUME NEW m \in MemRec, NEW nodes \in [Nodes -> ProjRec]
  PROVE  /\ WithNodes(m, nodes) \in MemRec /\ WithNodes(m, nodes).up = m.up
         /\ WithNodes(m, nodes).audit = m.audit /\ WithNodes(m, nodes).healthy = m.healthy
         /\ WithNodes(m, nodes).lock = m.lock /\ WithNodes(m, nodes).nodes = nodes
         /\ WithNodes(m, nodes).unmarked = m.unmarked
  BY DEF WithNodes, MemRec

\* A node's state is projected.
LEMMA StandingFields ==
  ASSUME NEW m \in MemRec, NEW n \in Nodes, NEW s \in States
  PROVE  /\ Standing(m, n, s) \in MemRec /\ Standing(m, n, s).up = m.up
         /\ Standing(m, n, s).audit = m.audit /\ Standing(m, n, s).healthy = m.healthy
         /\ Standing(m, n, s).lock = m.lock /\ Standing(m, n, s).unmarked = m.unmarked
         /\ \A k \in Nodes \ {n} : Standing(m, n, s).nodes[k] = m.nodes[k]
         /\ Standing(m, n, s).nodes[n].adm = s
         /\ Standing(m, n, s).nodes[n].cred = m.nodes[n].cred
         /\ Standing(m, n, s).nodes[n].max = m.nodes[n].max
  BY DEF Standing, MemRec, ProjRec

\* A code is made or cancelled.
LEMMA BoundFields ==
  ASSUME NEW d \in DbRec, NEW c \in Codes, NEW e \in 0..MaxEpoch
  PROVE  /\ Bound(d, c, e) \in DbRec /\ Bound(d, c, e).epoch = d.epoch
         /\ Bound(d, c, e).rev = d.rev /\ Bound(d, c, e).toks = [d.toks EXCEPT ![c] = e]
         /\ Bound(d, c, e).nodes = d.nodes /\ Bound(d, c, e).replay = d.replay
         /\ Bound(d, c, e).tgts = d.tgts /\ Bound(d, c, e).claims = d.claims
         /\ Bound(d, c, e).pol = d.pol /\ Bound(d, c, e).intent = d.intent
  BY DEF Bound, DbRec

\* A code makes a node.
LEMMA EnrolFields ==
  ASSUME NEW d \in DbRec, NEW n \in Nodes, NEW k \in Nat, NEW c \in Codes
  PROVE  /\ Enrol(d, n, k, c) \in DbRec
         /\ \A m \in Nodes \ {n} : Enrol(d, n, k, c).nodes[m] = d.nodes[m]
         /\ Enrol(d, n, k, c).nodes[n].adm = "active"
         /\ Enrol(d, n, k, c).nodes[n].cred = 1 /\ Enrol(d, n, k, c).nodes[n].max = 1
         /\ Enrol(d, n, k, c).nodes[n].key = k /\ Enrol(d, n, k, c).nodes[n].code = c
<1> DEFINE x    == Enrol(d, n, k, c)
           row  == [adm |-> "active", cred |-> 1, max |-> 1, key |-> k, code |-> c]
           rows == [d.nodes EXCEPT ![n] = row]
           toks == [d.toks EXCEPT ![c] = 0]
           rep  == [d.replay EXCEPT ![c] = n]
           rev  == d.rev + 1
<1>1. row \in RowRec
  BY DEF RowRec, States
<1>2. rows \in [Nodes -> RowRec] /\ rows[n] = row /\ \A m \in Nodes \ {n} : rows[m] = d.nodes[m]
  BY <1>1 DEF DbRec
<1>3. /\ toks \in [Codes -> 0..MaxEpoch] /\ toks[c] = 0
      /\ rep \in [Codes -> {0} \cup Nodes] /\ rep[c] = n /\ rev \in Nat
      /\ \A b \in Codes \ {c} : toks[b] = d.toks[b] /\ rep[b] = d.replay[b]
  BY ManagementConstants DEF DbRec
<1>4. x = [d EXCEPT !.nodes = rows, !.rev = rev, !.toks = toks, !.replay = rep]
  BY DEF Enrol
<1>5. row.adm = "active" /\ row.cred = 1 /\ row.max = 1 /\ row.key = k /\ row.code = c
  OBVIOUS
<1> HIDE DEF x, row, rows, toks, rep, rev
<1>6. x \in DbRec /\ x.nodes = rows
  BY <1>2, <1>3, <1>4 DEF DbRec
<1> QED
  BY <1>2, <1>5, <1>6 DEF x

\* It is spent by the node, and the revision moves on.
LEMMA SpendFields ==
  ASSUME NEW d \in DbRec, NEW n \in Nodes, NEW k, NEW c \in Codes
  PROVE  /\ Enrol(d, n, k, c).rev = d.rev + 1 /\ Enrol(d, n, k, c).toks[c] = 0
         /\ Enrol(d, n, k, c).replay[c] = n
         /\ \A b \in Codes \ {c} : Enrol(d, n, k, c).toks[b] = d.toks[b]
         /\ \A b \in Codes \ {c} : Enrol(d, n, k, c).replay[b] = d.replay[b]
  BY ManagementConstants DEF Enrol, DbRec

\* The replay rows of a node are dropped.
LEMMA ForgetFields ==
  ASSUME NEW d \in DbRec, NEW n \in Nodes
  PROVE  /\ Forget(d, n) \in DbRec /\ Forget(d, n).epoch = d.epoch
         /\ Forget(d, n).rev = d.rev /\ Forget(d, n).toks = d.toks
         /\ Forget(d, n).nodes = d.nodes /\ Forget(d, n).tgts = d.tgts
         /\ Forget(d, n).claims = d.claims /\ Forget(d, n).pol = d.pol
         /\ Forget(d, n).intent = d.intent
         /\ \A c \in Codes : Forget(d, n).replay[c] \in {0, d.replay[c]}
  BY DEF Forget, DbRec

\* A node is quarantined.
LEMMA QuarantinedFields ==
  ASSUME NEW d \in DbRec, NEW n \in Nodes
  PROVE  /\ Quarantined(d, n) \in DbRec /\ Quarantined(d, n).epoch = d.epoch
         /\ Quarantined(d, n).rev = d.rev /\ Quarantined(d, n).toks = d.toks
         /\ Quarantined(d, n).replay = d.replay /\ Quarantined(d, n).tgts = d.tgts
         /\ Quarantined(d, n).claims = d.claims /\ Quarantined(d, n).pol = d.pol
         /\ Quarantined(d, n).intent = d.intent
         /\ \A m \in Nodes \ {n} : Quarantined(d, n).nodes[m] = d.nodes[m]
         /\ Quarantined(d, n).nodes[n].adm = "quarantined"
         /\ Quarantined(d, n).nodes[n].cred = d.nodes[n].cred
         /\ Quarantined(d, n).nodes[n].max = d.nodes[n].max
         /\ Quarantined(d, n).nodes[n].key = d.nodes[n].key
         /\ Quarantined(d, n).nodes[n].code = d.nodes[n].code
<1> DEFINE row == [d.nodes[n] EXCEPT !.adm = "quarantined"]
           rows == [d.nodes EXCEPT ![n] = row]
<1>1. d.nodes \in [Nodes -> RowRec] /\ d.nodes[n] \in RowRec
  BY DEF DbRec
<1>2. /\ row \in RowRec /\ row.adm = "quarantined" /\ row.cred = d.nodes[n].cred
      /\ row.max = d.nodes[n].max /\ row.key = d.nodes[n].key /\ row.code = d.nodes[n].code
  BY <1>1 DEF RowRec, States
<1> HIDE DEF row
<1>3. rows \in [Nodes -> RowRec] /\ rows[n] = row /\ \A m \in Nodes \ {n} : rows[m] = d.nodes[m]
  BY <1>1, <1>2
<1>4. Quarantined(d, n) = [d EXCEPT !.nodes = rows]
  BY DEF Quarantined, row
<1> HIDE DEF rows
<1>5. /\ Quarantined(d, n) \in DbRec /\ Quarantined(d, n).nodes = rows
      /\ Quarantined(d, n).epoch = d.epoch /\ Quarantined(d, n).rev = d.rev
      /\ Quarantined(d, n).toks = d.toks /\ Quarantined(d, n).replay = d.replay
      /\ Quarantined(d, n).tgts = d.tgts /\ Quarantined(d, n).claims = d.claims
      /\ Quarantined(d, n).pol = d.pol /\ Quarantined(d, n).intent = d.intent
  BY <1>3, <1>4 DEF DbRec
<1> QED
  BY <1>2, <1>3, <1>5

\* Only the intent is written.
LEMMA AmbiguousFields ==
  ASSUME NEW d \in DbRec, NEW t \in {0} \cup Targets
  PROVE  /\ Ambiguous(d, t) \in DbRec /\ Ambiguous(d, t).epoch = d.epoch
         /\ Ambiguous(d, t).rev = d.rev /\ Ambiguous(d, t).toks = d.toks
         /\ Ambiguous(d, t).nodes = d.nodes /\ Ambiguous(d, t).replay = d.replay
         /\ Ambiguous(d, t).tgts = d.tgts /\ Ambiguous(d, t).claims = d.claims
         /\ Ambiguous(d, t).pol = d.pol
  BY DEF Ambiguous, DbRec, Intents

\* The intent of a Target goes on.
IntentSet(d, t, i) == [d EXCEPT !.intent[t] = i]
LEMMA IntentFields ==
  ASSUME NEW d \in DbRec, NEW t \in {0} \cup Targets, NEW i \in Intents
  PROVE  /\ IntentSet(d, t, i) \in DbRec /\ IntentSet(d, t, i).epoch = d.epoch
         /\ IntentSet(d, t, i).rev = d.rev /\ IntentSet(d, t, i).toks = d.toks
         /\ IntentSet(d, t, i).nodes = d.nodes /\ IntentSet(d, t, i).replay = d.replay
         /\ IntentSet(d, t, i).tgts = d.tgts /\ IntentSet(d, t, i).claims = d.claims
         /\ IntentSet(d, t, i).pol = d.pol
<1> DEFINE intent == [d.intent EXCEPT ![t] = i]
<1>1. d.intent \in [Targets -> Intents]
  BY DEF DbRec
<1>2. intent \in [Targets -> Intents]
  BY <1>1
<1>3. IntentSet(d, t, i) = [d EXCEPT !.intent = intent]
  BY DEF IntentSet
<1> HIDE DEF intent
<1> QED
  BY <1>2, <1>3 DEF DbRec

\* A document is stored.
LEMMA ReplaceConfigurationFields ==
  ASSUME NEW d \in DbRec, NEW doc \in DocRec
  PROVE  /\ ReplaceConfiguration(d, doc) \in DbRec
         /\ ReplaceConfiguration(d, doc).epoch = d.epoch
         /\ ReplaceConfiguration(d, doc).rev = d.rev + 1
         /\ ReplaceConfiguration(d, doc).toks = d.toks
         /\ ReplaceConfiguration(d, doc).replay = d.replay
         /\ ReplaceConfiguration(d, doc).tgts = doc.tgts
         /\ ReplaceConfiguration(d, doc).claims = d.claims
         /\ ReplaceConfiguration(d, doc).pol = doc.pol
         /\ ReplaceConfiguration(d, doc).intent = d.intent
         /\ \A n \in Nodes : ReplaceConfiguration(d, doc).nodes[n].max = doc.max[n]
         /\ \A n \in Nodes : ReplaceConfiguration(d, doc).nodes[n].adm = d.nodes[n].adm
         /\ \A n \in Nodes : ReplaceConfiguration(d, doc).nodes[n].cred = d.nodes[n].cred
         /\ \A n \in Nodes : ReplaceConfiguration(d, doc).nodes[n].key = d.nodes[n].key
         /\ \A n \in Nodes : ReplaceConfiguration(d, doc).nodes[n].code = d.nodes[n].code
<1> DEFINE x    == ReplaceConfiguration(d, doc)
           rows == [n \in Nodes |-> [d.nodes[n] EXCEPT !.max = doc.max[n]]]
           rev  == d.rev + 1
<1>1. \A n \in Nodes : d.nodes[n] \in RowRec /\ doc.max[n] \in 0..2
  BY DEF DbRec, DocRec
<1>2. ASSUME NEW n \in Nodes
      PROVE  /\ rows[n] \in RowRec /\ rows[n].max = doc.max[n] /\ rows[n].adm = d.nodes[n].adm
             /\ rows[n].cred = d.nodes[n].cred /\ rows[n].key = d.nodes[n].key
             /\ rows[n].code = d.nodes[n].code
  BY <1>1 DEF RowRec
<1>3. rows \in [Nodes -> RowRec] /\ rev \in Nat
  BY <1>2 DEF DbRec
<1>4. doc.tgts \in SUBSET Targets /\ doc.pol \in [Targets -> 0..1]
  BY DEF DocRec
<1>5. x = [d EXCEPT !.nodes = rows, !.tgts = doc.tgts, !.pol = doc.pol, !.rev = rev]
  BY DEF ReplaceConfiguration
<1> HIDE DEF x, rows, rev
<1>6. /\ x \in DbRec /\ x.epoch = d.epoch /\ x.rev = rev /\ x.toks = d.toks /\ x.nodes = rows
      /\ x.replay = d.replay /\ x.tgts = doc.tgts /\ x.claims = d.claims /\ x.pol = doc.pol
      /\ x.intent = d.intent
  BY <1>3, <1>4, <1>5 DEF DbRec
<1> QED
  BY <1>2, <1>6 DEF x, rev

\* A node's state is stored.
LEMMA ReplaceNodeStateFields ==
  ASSUME NEW d \in DbRec, NEW n \in Nodes, NEW s \in {"active", "draining", "revoked"},
         d.nodes[n].cred \in 0..1
  PROVE  /\ ReplaceNodeState(d, n, s) \in DbRec
         /\ ReplaceNodeState(d, n, s).epoch = d.epoch
         /\ ReplaceNodeState(d, n, s).rev = d.rev + 1
         /\ ReplaceNodeState(d, n, s).toks = d.toks
         /\ ReplaceNodeState(d, n, s).tgts = d.tgts
         /\ ReplaceNodeState(d, n, s).claims = d.claims
         /\ ReplaceNodeState(d, n, s).pol = d.pol
         /\ ReplaceNodeState(d, n, s).intent = d.intent
         /\ \A c \in Codes : ReplaceNodeState(d, n, s).replay[c] \in {0, d.replay[c]}
         /\ \A m \in Nodes \ {n} : ReplaceNodeState(d, n, s).nodes[m] = d.nodes[m]
         /\ ReplaceNodeState(d, n, s).nodes[n].adm = s
         /\ ReplaceNodeState(d, n, s).nodes[n].cred =
              IF s = "revoked" THEN d.nodes[n].cred + 1 ELSE d.nodes[n].cred
         /\ ReplaceNodeState(d, n, s).nodes[n].max = d.nodes[n].max
         /\ ReplaceNodeState(d, n, s).nodes[n].key = d.nodes[n].key
         /\ ReplaceNodeState(d, n, s).nodes[n].code = d.nodes[n].code
<1> DEFINE x    == ReplaceNodeState(d, n, s)
           row  == [d.nodes[n] EXCEPT !.adm = s,
                       !.cred = IF s = "revoked" THEN d.nodes[n].cred + 1 ELSE d.nodes[n].cred]
           rows == [d.nodes EXCEPT ![n] = row]
           rep  == IF s = "revoked" THEN Forget(d, n).replay ELSE d.replay
           rev  == d.rev + 1
<1>1. d.nodes[n] \in RowRec /\ d.nodes[n].cred + 1 \in 0..2
  BY DEF DbRec
<1>2. /\ row \in RowRec /\ row.adm = s
      /\ row.cred = IF s = "revoked" THEN d.nodes[n].cred + 1 ELSE d.nodes[n].cred
      /\ row.max = d.nodes[n].max /\ row.key = d.nodes[n].key /\ row.code = d.nodes[n].code
  BY <1>1 DEF RowRec, States
<1>3. rows \in [Nodes -> RowRec] /\ rows[n] = row /\ \A m \in Nodes \ {n} : rows[m] = d.nodes[m]
  BY <1>2 DEF DbRec
<1>4. /\ rep \in [Codes -> {0} \cup Nodes] /\ rev \in Nat
      /\ \A c \in Codes : rep[c] \in {0, d.replay[c]}
  BY ForgetFields DEF DbRec
<1>5. x = [d EXCEPT !.nodes = rows, !.replay = rep, !.rev = rev]
  BY DEF ReplaceNodeState
<1> HIDE DEF x, row, rows, rep, rev
<1>6. /\ x \in DbRec /\ x.epoch = d.epoch /\ x.rev = rev /\ x.toks = d.toks /\ x.nodes = rows
      /\ x.replay = rep /\ x.tgts = d.tgts /\ x.claims = d.claims /\ x.pol = d.pol
      /\ x.intent = d.intent
  BY <1>3, <1>4, <1>5 DEF DbRec
<1> QED
  BY <1>2, <1>3, <1>4, <1>6 DEF x, rev

\* A process has started.
LEMMA ServingFields ==
  ASSUME NEW nodes \in [Nodes -> ProjRec]
  PROVE  /\ Serving(nodes) \in MemRec /\ Serving(nodes).up /\ Serving(nodes).audit
         /\ Serving(nodes).healthy /\ Serving(nodes).lock = 0
         /\ Serving(nodes).nodes = nodes /\ ~Serving(nodes).unmarked
  BY DEF Serving, MemRec

\* A machine was installed again.
LEMMA ReinstalledFields ==
  ASSUME NEW x \in AgRec
  PROVE  /\ Reinstalled(x) \in AgRec /\ Reinstalled(x).pc = "idle" /\ Reinstalled(x).node = 0
         /\ Reinstalled(x).r = 0 /\ Reinstalled(x).code = x.code
<1>1. Cardinality(Agents) \in Nat
  BY ManagementConstants, FS_CardinalityType
<1>2. x.key + Cardinality(Agents) \in Nat
  BY <1>1 DEF AgRec
<1> DEFINE k == x.key + Cardinality(Agents)
<1> HIDE DEF k
<1>3. [pc |-> "idle", key |-> k, code |-> x.code, node |-> 0, r |-> 0] \in AgRec
  BY <1>2 DEF AgRec, k
<1> QED
  BY <1>3 DEF Reinstalled, k

\* Codes given out, and cancelled.
LEMMA HandedOutFields ==
  ASSUME given \in GivenRec, NEW c \in Codes
  PROVE  /\ HandedOut(c) \in GivenRec /\ HandedOut(c).out = given.out \cup {c}
         /\ HandedOut(c).cancelled = given.cancelled
  BY DEF HandedOut, GivenRec

\* A cancelled code is still one that was given out.
LEMMA WithdrawnFields ==
  ASSUME given \in GivenRec, NEW c \in Codes
  PROVE  /\ Withdrawn(c) \in GivenRec /\ Withdrawn(c).out = given.out
         /\ Withdrawn(c).cancelled = given.cancelled \cup {c}
  BY DEF Withdrawn, GivenRec

\* The next process has a new epoch, and the codes of the one before have ended.
LEMMA AdvancedFields ==
  ASSUME db \in DbRec, db.epoch < MaxEpoch
  PROVE  /\ Advanced(db) \in DbRec /\ Advanced(db).nodes = db.nodes /\ Advanced(db).rev = db.rev
         /\ Advanced(db).replay = db.replay /\ Advanced(db).tgts = db.tgts
         /\ Advanced(db).pol = db.pol /\ Advanced(db).claims = db.claims
         /\ Advanced(db).intent = db.intent
         /\ \A c \in Codes : Advanced(db).toks[c] \in {0, db.toks[c]}
<1> DEFINE toks == TokensAfterStart
           epoch == db.epoch + 1
<1>1. toks \in [Codes -> 0..MaxEpoch] /\ \A c \in Codes : toks[c] \in {0, db.toks[c]}
  BY ManagementConstants DEF TokensAfterStart, DbRec
<1>2. epoch \in 0..MaxEpoch
  BY ManagementConstants DEF DbRec
<1>3. Advanced(db) = [db EXCEPT !.epoch = epoch, !.toks = toks]
  BY DEF Advanced
<1> HIDE DEF toks, epoch
<1> QED
  BY <1>1, <1>2, <1>3 DEF DbRec

\* What the rows say of a node.
LEMMA TopologyFields ==
  ASSUME db \in DbRec, NEW n \in Nodes
  PROVE  /\ Topology(n) \in ProjRec /\ Topology(n).adm = db.nodes[n].adm
         /\ Topology(n).cred = db.nodes[n].cred /\ Topology(n).max = db.nodes[n].max
<1>1. db.nodes[n] \in RowRec
  BY DEF DbRec
<1> QED
  BY <1>1 DEF Topology, RowRec, ProjRec

\* The restart snapshot has the enrolled nodes.
LEMMA RestoredFields ==
  ASSUME db \in DbRec
  PROVE  /\ Restored \in [Nodes -> ProjRec]
         /\ \A n \in Nodes : Restored[n] = IF n \in Enrolled THEN Topology(n) ELSE NoProj
  BY TopologyFields, NoProjFields DEF Restored

\* A document of the rows.
LEMMA DocumentFields ==
  ASSUME db \in DbRec
  PROVE  Document \in DocRec
<1>1. \A n \in Nodes : db.nodes[n].max \in 0..2
  BY DEF DbRec, RowRec
<1>2. db.tgts \in SUBSET Targets /\ db.pol \in [Targets -> 0..1]
  BY DEF DbRec
<1> QED
  BY <1>1, <1>2 DEF Document, DocRec

\* An edited document is one.
LEMMA EditFields ==
  ASSUME NEW doc \in DocRec, NEW x \in Edits(doc)
  PROVE  x \in DocRec
  BY DEF Edits, Documents, DocRec

\* EnsureRestartNode adds what memory does not know and changes nothing it knows.
LEMMA EnsureFields ==
  ASSUME mem \in MemRec, NEW top \in [Nodes -> ProjRec]
  PROVE  /\ EnsureRestartNodes(top) \in [Nodes -> ProjRec]
         /\ \A n \in Nodes :
              /\ EnsureRestartNodes(top)[n] \in {mem.nodes[n], top[n]}
              /\ mem.nodes[n] # NoProj => EnsureRestartNodes(top)[n] = mem.nodes[n]
              /\ Differs(top) = {} /\ mem.nodes[n] = NoProj => EnsureRestartNodes(top)[n] = top[n]
<1>1. mem.nodes \in [Nodes -> ProjRec]
  BY DEF MemRec
<1> QED
  BY <1>1 DEF EnsureRestartNodes

\* A row with nothing in it is none.
LEMMA EmptyRow ==
  ASSUME NEW x \in RowRec, x.adm = "none", x.cred = 0, x.max = 0, x.key = 0, x.code = 0
  PROVE  x = NoNode
  BY DEF NoNode, RowRec

\* A projection with nothing in it is none.
LEMMA EmptyProj ==
  ASSUME NEW x \in ProjRec, x.adm = "none", x.cred = 0, x.max = 0
  PROVE  x = NoProj
  BY DEF NoProj, ProjRec

\* A document is projected onto exactly the nodes it names, or not at all.
LEMMA ApplyFields ==
  ASSUME NEW m \in MemRec, NEW doc \in DocRec
  PROVE  LET x == ApplyNodeConfigurations(m, doc) IN
         /\ x \in MemRec /\ x.up = m.up /\ x.audit = m.audit /\ x.lock = m.lock
         /\ x.unmarked = m.unmarked
         /\ \A n \in Nodes : /\ x.nodes[n].adm = m.nodes[n].adm /\ x.nodes[n].cred = m.nodes[n].cred
                             /\ m.nodes[n] = NoProj => x.nodes[n] = NoProj
         /\ x.healthy => /\ m.healthy
                         /\ \A n \in Nodes : x.nodes[n].max = doc.max[n]
                         /\ \A n \in Nodes : (doc.max[n] = 0) <=> (m.nodes[n] = NoProj)
         /\ \/ x.nodes = m.nodes
            \/ \A n \in Nodes : /\ x.nodes[n].max = doc.max[n]
                                /\ (doc.max[n] = 0) <=> (m.nodes[n] = NoProj)
<1> DEFINE nodes == [n \in Nodes |-> [m.nodes[n] EXCEPT !.max = doc.max[n]]]
<1>1. \A n \in Nodes : m.nodes[n] \in ProjRec /\ doc.max[n] \in 0..2
  BY DEF MemRec, DocRec
<1>2. ASSUME NEW n \in Nodes
      PROVE  /\ nodes[n] \in ProjRec /\ nodes[n].adm = m.nodes[n].adm
             /\ nodes[n].cred = m.nodes[n].cred /\ nodes[n].max = doc.max[n]
  BY <1>1 DEF ProjRec
<1>3. nodes \in [Nodes -> ProjRec]
  BY <1>2
<1>4. ASSUME NEW n \in Nodes, m.nodes[n] = NoProj, doc.max[n] = 0
      PROVE  nodes[n] = NoProj
  <2>1. nodes[n] \in ProjRec /\ nodes[n].adm = "none" /\ nodes[n].cred = 0 /\ nodes[n].max = 0
    BY <1>2, <1>4, NoProjFields
  <2> HIDE DEF nodes
  <2> QED
    BY <2>1, EmptyProj
<1>5. CASE \A n \in Nodes : (doc.max[n] = 0) <=> (m.nodes[n] = NoProj)
  <2>1. ApplyNodeConfigurations(m, doc) = WithNodes(m, nodes)
    BY <1>5 DEF ApplyNodeConfigurations
  <2> HIDE DEF nodes
  <2> QED
    BY <1>2, <1>3, <1>4, <1>5, <2>1, WithNodesFields
<1>6. CASE ~(\A n \in Nodes : (doc.max[n] = 0) <=> (m.nodes[n] = NoProj))
  <2>1. ApplyNodeConfigurations(m, doc) = MarkManagementProjectionUnavailable(m)
    BY <1>6 DEF ApplyNodeConfigurations
  <2> QED
    BY <2>1, UnavailableFields
<1> QED
  BY <1>5, <1>6

\* A state is projected unless memory refuses it.
LEMMA SetFields ==
  ASSUME NEW m \in MemRec, NEW n \in Nodes, NEW s \in States
  PROVE  LET x == SetAdministrativeState(m, n, s) IN
         /\ x \in MemRec /\ x.up = m.up /\ x.audit = m.audit /\ x.lock = m.lock
         /\ x.unmarked = m.unmarked
         /\ \A k \in Nodes \ {n} : x.nodes[k] = m.nodes[k]
         /\ x.nodes[n].cred = m.nodes[n].cred /\ x.nodes[n].max = m.nodes[n].max
         /\ x.healthy => m.healthy /\ x.nodes[n].adm = s /\ ~SetRefused(m.nodes[n].adm, s)
         /\ \/ x.nodes = m.nodes
            \/ x.nodes[n].adm = s /\ m.nodes[n].adm # "none"
  BY UnavailableFields, StandingFields DEF SetAdministrativeState, SetRefused

\* A request that ends leaves its client with the document it read.
LEMMA FinishFields ==
  ASSUME Typed, NEW a \in Admins, Finish(a)
  PROVE  /\ adm' \in [Admins -> AdmRec]
         /\ \A b \in Admins \ {a} : adm'[b] = adm[b]
         /\ adm'[a].pc \in {"idle", "read"} /\ adm'[a].op = "none"
         /\ adm'[a].pc = "read" => adm'[a].rev = adm[a].rev /\ adm'[a].base = adm[a].base
<1>1. adm[a] \in AdmRec /\ adm[a].rev \in Nat /\ adm[a].base \in DocRec
  BY DEF Typed, AdmRec
<1>2. adm' = [adm EXCEPT ![a] = Rest] \/ adm' = [adm EXCEPT ![a] = Reading(adm[a].rev, adm[a].base)]
  BY DEF Finish
<1> QED
  BY <1>1, <1>2, RestFields, ReadingFields DEF Typed

\* What the types say of the parts.
LEMMA FunOf ==
  ASSUME Typed
  PROVE  /\ adm \in [Admins -> AdmRec] /\ enr \in [Reqs -> EnrRec] /\ ag \in [Agents -> AgRec]
         /\ ses \in [Nodes -> Steps] /\ quar \subseteq Nodes /\ given \in GivenRec
  BY DEF Typed

\* The fields of the database.
LEMMA DbOf ==
  ASSUME Typed
  PROVE  /\ db \in DbRec /\ db.epoch \in 0..MaxEpoch /\ db.rev \in Nat
         /\ db.toks \in [Codes -> 0..MaxEpoch] /\ db.nodes \in [Nodes -> RowRec]
         /\ db.replay \in [Codes -> {0} \cup Nodes]
  BY DEF Typed, DbRec

\* The fields of a row.
LEMMA RowOf ==
  ASSUME Typed, NEW n \in Nodes
  PROVE  /\ db.nodes[n] \in RowRec /\ db.nodes[n].adm \in States /\ db.nodes[n].cred \in 0..2
         /\ db.nodes[n].max \in 0..2 /\ db.nodes[n].key \in Nat /\ db.nodes[n].code \in {0} \cup Codes
<1>1. db.nodes[n] \in RowRec
  BY DbOf
<1> QED
  BY <1>1 DEF RowRec

\* The fields of memory.
LEMMA MemOf ==
  ASSUME Typed
  PROVE  /\ mem \in MemRec /\ mem.lock \in {0} \cup Admins /\ mem.nodes \in [Nodes -> ProjRec]
  BY DEF Typed, MemRec

\* The fields of an administrator's request.
LEMMA AdmOf ==
  ASSUME Typed, NEW a \in Admins
  PROVE  /\ adm[a] \in AdmRec /\ adm[a].pc \in AdmPCs /\ adm[a].op \in Mutations
         /\ adm[a].rev \in Nat /\ adm[a].base \in DocRec /\ adm[a].doc \in DocRec
         /\ adm[a].n \in {0} \cup Nodes /\ adm[a].t \in {0} \cup Targets
         /\ adm[a].top \in [Nodes -> ProjRec]
  BY DEF Typed, AdmRec

\* The fields of an enrollment request.
LEMMA EnrOf ==
  ASSUME Typed, NEW r \in Reqs
  PROVE  /\ enr[r] \in EnrRec /\ enr[r].pc \in EnrPCs /\ enr[r].a \in {0} \cup Agents
         /\ enr[r].k \in Nat /\ enr[r].c \in {0} \cup Codes /\ enr[r].n \in {0} \cup Nodes
         /\ enr[r].top \in ProjRec
  BY DEF Typed, EnrRec

\* The fields of an Agent.
LEMMA AgOf ==
  ASSUME Typed, NEW a \in Agents
  PROVE  /\ ag[a] \in AgRec /\ ag[a].key \in Nat /\ ag[a].code \in {0} \cup Codes
         /\ ag[a].node \in {0} \cup Nodes
  BY DEF Typed, AgRec

\* An enrolled node is a node.
LEMMA EnrolledNodes == Enrolled \subseteq Nodes
  BY DEF Enrolled


---------------------------------------------------------------------------
(* What the steps with a choice do *)

\* A code is made unless the audit has failed.
LEMMA CreateMoves ==
  ASSUME NEW c \in Codes, CreateJoinCode(c)
  PROVE  /\ mem.up /\ c \notin given.out
         /\ \/ db' = Bound(db, c, db.epoch) /\ given' = HandedOut(c)
            \/ UNCHANGED <<db, given>>
         /\ UNCHANGED <<mem, adm, enr, ag, ses, quar>>
  BY DEF CreateJoinCode

\* The next node is the first that has no row.
LEMMA NextNode ==
  ASSUME Rows, Cardinality(Enrolled) + 1 \in Nodes
  PROVE  \E n \in Nodes : /\ n = Cardinality(Enrolled) + 1 /\ n \notin Enrolled
                          /\ Enrolled \cup {n} = 1..n
<1>1. PICK k \in Nat : Enrolled = 1..k
  BY DEF Rows, Row
<1>2. Cardinality(Enrolled) = k
  BY <1>1, FS_Interval
<1> QED
  BY <1>1, <1>2

\* A redeemable code makes the next node; every other code is tried as a replay.
LEMMA ConsumeMoves ==
  ASSUME Typed, Rows, Handlers, NEW r \in Reqs, ConsumeEnrollment(r)
  PROVE  /\ enr[r].pc = "consume" /\ enr[r].c \in Codes /\ enr[r].k \in Nat
         /\ UNCHANGED <<mem, adm, ag, ses, quar, given>>
         /\ \/ \E n \in Nodes :
                 /\ n \notin Enrolled /\ Enrolled \cup {n} = 1..n
                 /\ mem.audit /\ db.toks[enr[r].c] # 0
                 /\ db' = Enrol(db, n, enr[r].k, enr[r].c)
                 /\ enr' = [enr EXCEPT ![r] = Found(enr[r], n, "consume")]
            \/ db' = db /\ enr' = [enr EXCEPT ![r] = At(enr[r], "replay")]
<1>1. enr[r].pc = "consume" /\ UNCHANGED <<mem, adm, ag, ses, quar, given>>
  BY DEF ConsumeEnrollment
<1>2. enr[r].c \in Codes /\ enr[r].k \in Nat
  BY <1>1, EnrOf DEF Handlers, Handler
<1>3. CASE AuditGate /\ Redeemable(enr[r].c) /\ Cardinality(Enrolled) + 1 \in Nodes
  <2>1. PICK n \in Nodes : /\ n = Cardinality(Enrolled) + 1 /\ n \notin Enrolled
                           /\ Enrolled \cup {n} = 1..n
    BY <1>3, NextNode
  <2>2. /\ db' = Enrol(db, n, enr[r].k, enr[r].c)
        /\ enr' = [enr EXCEPT ![r] = Found(enr[r], n, "consume")]
    BY <1>3, <2>1 DEF ConsumeEnrollment
  <2> QED
    BY <1>1, <1>2, <1>3, <2>1, <2>2 DEF AuditGate, Redeemable
<1>4. CASE ~(AuditGate /\ Redeemable(enr[r].c) /\ Cardinality(Enrolled) + 1 \in Nodes)
  BY <1>1, <1>2, <1>4 DEF ConsumeEnrollment, To
<1> QED
  BY <1>3, <1>4

\* A replay needs the key the node was made for.
LEMMA ReplayMoves ==
  ASSUME Typed, Rows, Handlers, NEW r \in Reqs, ReplayEnrollment(r)
  PROVE  /\ enr[r].pc = "replay" /\ enr[r].c \in Codes
         /\ UNCHANGED <<db, mem, adm, ag, ses, quar, given>>
         /\ \/ \E n \in Enrolled : /\ n = db.replay[enr[r].c] /\ db.nodes[n].key = enr[r].k
                                   /\ enr' = [enr EXCEPT ![r] = Found(enr[r], n, "replay")]
            \/ enr' = [enr EXCEPT ![r] = Refused(enr[r])]
<1>1. enr[r].pc = "replay" /\ UNCHANGED <<db, mem, adm, ag, ses, quar, given>>
  BY DEF ReplayEnrollment
<1>2. enr[r].c \in Codes
  BY <1>1, EnrOf DEF Handlers, Handler
<1>3. CASE Replays(enr[r])
  <2>1. db.replay[enr[r].c] \in Enrolled /\ db.nodes[db.replay[enr[r].c]].key = enr[r].k
    BY <1>2, <1>3 DEF Replays, Rows, Row
  <2> QED
    BY <1>1, <1>2, <1>3, <2>1 DEF ReplayEnrollment
<1>4. CASE ~Replays(enr[r])
  BY <1>1, <1>2, <1>4 DEF ReplayEnrollment
<1> QED
  BY <1>3, <1>4

\* One node is brought to memory.
LEMMA EnsureMoves ==
  ASSUME Typed, Handlers, NEW r \in Reqs, EnsureNode(r)
  PROVE  /\ enr[r].pc = "ensure" /\ enr[r].n \in Nodes /\ mem' \in MemRec
         /\ UNCHANGED <<db, adm, ag, ses, quar, given>>
         /\ mem'.up = mem.up /\ mem'.audit = mem.audit /\ mem'.lock = mem.lock
         /\ mem'.unmarked = mem.unmarked
         /\ \/ /\ \A n \in Nodes \ {enr[r].n} : mem'.nodes[n] = mem.nodes[n]
               /\ mem.nodes[enr[r].n] # NoProj => mem'.nodes[enr[r].n] = mem.nodes[enr[r].n]
               /\ mem.nodes[enr[r].n] = NoProj => mem'.nodes[enr[r].n] = enr[r].top
               /\ mem'.healthy = mem.healthy
               /\ enr' = [enr EXCEPT ![r] = Projected(enr[r], enr[r].n, "reply")]
            \/ /\ mem'.nodes = mem.nodes /\ ~mem'.healthy
               /\ \/ enr' = [enr EXCEPT ![r] = Projected(enr[r], 0, "reply")]
                  \/ enr' = [enr EXCEPT ![r] = Projected(enr[r], 0, "replay")]
<1> DEFINE tops == [NoTops EXCEPT ![enr[r].n] = enr[r].top]
<1>1. enr[r].pc = "ensure" /\ UNCHANGED <<db, adm, ag, ses, quar, given>>
  BY DEF EnsureNode
<1>2. enr[r].n \in Nodes /\ enr[r].top \in ProjRec
  BY <1>1, EnrOf DEF Handlers, Handler
<1>3. /\ tops \in [Nodes -> ProjRec] /\ tops[enr[r].n] = enr[r].top
      /\ \A n \in Nodes \ {enr[r].n} : tops[n] = NoProj
  BY <1>2, NoTopsFields
<1>4. CASE Differs(tops) = {}
  <2>1. /\ mem' = WithNodes(mem, EnsureRestartNodes(tops))
        /\ enr' = [enr EXCEPT ![r] = Projected(enr[r], enr[r].n, "reply")]
    BY <1>4 DEF EnsureNode
  <2> HIDE DEF tops
  <2>2. EnsureRestartNodes(tops) \in [Nodes -> ProjRec]
    BY <1>3, MemOf, EnsureFields
  <2>3. mem' \in MemRec /\ mem'.nodes = EnsureRestartNodes(tops) /\ mem'.healthy = mem.healthy
        /\ mem'.up = mem.up /\ mem'.audit = mem.audit /\ mem'.lock = mem.lock
        /\ mem'.unmarked = mem.unmarked
    BY <2>1, <2>2, MemOf, WithNodesFields
  <2>4. \A n \in Nodes : /\ mem.nodes[n] # NoProj => mem'.nodes[n] = mem.nodes[n]
                         /\ mem.nodes[n] = NoProj => mem'.nodes[n] = tops[n]
    BY <1>3, <1>4, <2>3, MemOf, EnsureFields
  <2> QED
    BY <1>1, <1>2, <1>3, <2>1, <2>3, <2>4
<1>5. CASE Differs(tops) # {}
  <2>1. /\ mem' = MarkManagementProjectionUnavailable(mem)
        /\ \/ enr' = [enr EXCEPT ![r] = Projected(enr[r], 0, "reply")]
           \/ enr' = [enr EXCEPT ![r] = Projected(enr[r], 0, "replay")]
    BY <1>5 DEF EnsureNode
  <2> QED
    BY <1>1, <1>2, <2>1, MemOf, UnavailableFields
<1> QED
  BY <1>4, <1>5

\* A join command that still waits takes the node the handler found.
LEMMA ReplyMoves ==
  ASSUME Typed, Handlers, NEW r \in Reqs, Reply(r)
  PROVE  /\ enr[r].pc = "reply" /\ enr' = [enr EXCEPT ![r] = Free]
         /\ UNCHANGED <<db, mem, adm, ses, quar, given>>
         /\ \/ \E a \in Agents : /\ a = enr[r].a /\ ag[a].pc = "wait" /\ ag[a].r = r
                                 /\ ag' = [ag EXCEPT ![a] = Answered(ag[a], enr[r].n)]
            \/ ag' = ag
<1>1. /\ enr[r].pc = "reply" /\ enr' = [enr EXCEPT ![r] = Free]
      /\ UNCHANGED <<db, mem, adm, ses, quar, given>>
  BY DEF Reply
<1>2. enr[r].a \in Agents
  BY <1>1, EnrOf DEF Handlers, Handler
<1> QED
  BY <1>1, <1>2 DEF Reply

\* A session is served when its credential is still good.
LEMMA FinalizeMoves ==
  ASSUME NEW n \in Nodes, FinalizeEnrollment(n)
  PROVE  /\ ses[n] = "registered" /\ UNCHANGED <<mem, adm, enr, ag, quar, given>>
         /\ \/ /\ db.nodes[n].adm # "revoked" /\ db' = Forget(db, n)
               /\ ses' = [ses EXCEPT ![n] = "serving"]
            \/ db' = db /\ ses' = [ses EXCEPT ![n] = "none"]
<1>1. CASE ReauthorizeCredential(n)
  BY <1>1 DEF FinalizeEnrollment, ReauthorizeCredential, AuthorizeCredential, Session
<1>2. CASE ~ReauthorizeCredential(n)
  BY <1>2 DEF FinalizeEnrollment, Session
<1> QED
  BY <1>1, <1>2

\* A mutation begins with mutationMu, or is refused.
LEMMA BeginMoves ==
  ASSUME NEW a \in Admins, NEW op, NEW n, NEW doc, Begin(a, op, n, doc)
  PROVE  /\ mem.up /\ adm[a].pc = "read" /\ mem.lock = 0
         /\ UNCHANGED <<db, enr, ag, ses, quar, given>>
         /\ \/ /\ op = "apply" => adm[a].rev = db.rev
               /\ adm' = [adm EXCEPT ![a] = Begun(adm[a], op, n, doc)]
               /\ mem' = Locked(mem, a)
            \/ Finish(a) /\ mem' = mem
<1>1. CASE Admitted(a, op)
  BY <1>1 DEF Begin, Admitted, MutationMuFree, RevisionMatches
<1>2. CASE ~Admitted(a, op)
  BY <1>2 DEF Begin, MutationMuFree
<1> QED
  BY <1>1, <1>2

\* A document is committed on the current revision, for exactly the enrolled nodes.
LEMMA ApplyMoves ==
  ASSUME Typed, NEW a \in Admins, ApplyConfiguration(a)
  PROVE  /\ mem.up /\ adm[a].pc = "read" /\ mem.lock = 0
         /\ UNCHANGED <<db, enr, ag, ses, quar, given>>
         /\ \/ \E doc \in DocRec : /\ adm[a].rev = db.rev /\ mem' = Locked(mem, a)
                                   /\ adm' = [adm EXCEPT ![a] = Begun(adm[a], "apply", 0, doc)]
            \/ Finish(a) /\ mem' = mem
<1>1. PICK doc \in Edits(adm[a].doc) : Begin(a, "apply", 0, doc)
  BY DEF ApplyConfiguration
<1>2. doc \in DocRec
  BY AdmOf, EditFields
<1> QED
  BY <1>1, <1>2, BeginMoves

\* A node state is committed on the current revision, along an allowed transition.
LEMMA SetMoves ==
  ASSUME Typed, NEW a \in Admins, NEW n \in Enrolled, SetNodeState(a, n)
  PROVE  /\ mem.up /\ adm[a].pc = "read" /\ mem.lock = 0
         /\ UNCHANGED <<db, enr, ag, ses, quar, given>>
         /\ \/ \E op \in {"active", "draining", "revoked"} :
                 /\ mem' = Locked(mem, a)
                 /\ adm' = [adm EXCEPT ![a] = Begun(adm[a], op, n, adm[a].doc)]
            \/ Finish(a) /\ mem' = mem
<1>1. PICK op \in {"active", "draining", "revoked"} : Begin(a, op, n, adm[a].doc)
  BY DEF SetNodeState
<1> QED
  BY <1>1, BeginMoves

\* Memory learns the nodes of a snapshot; a difference ends the mutation.
LEMMA DurableMoves ==
  ASSUME Typed, NEW a \in Admins, EnsureDurableNodeProjection(a)
  PROVE  /\ adm[a].pc = "ensure" /\ UNCHANGED <<db, enr, ag, ses, quar, given>>
         /\ mem' \in MemRec /\ mem'.up = mem.up /\ mem'.audit = mem.audit
         /\ mem'.unmarked = mem.unmarked
         /\ \A n \in Nodes : /\ mem'.nodes[n] \in {mem.nodes[n], adm[a].top[n]}
                             /\ mem.nodes[n] # NoProj => mem'.nodes[n] = mem.nodes[n]
         /\ \/ /\ \A n \in Nodes : mem.nodes[n] = NoProj => mem'.nodes[n] = adm[a].top[n]
               /\ mem'.healthy = mem.healthy /\ mem'.lock = mem.lock
               /\ \/ adm' = [adm EXCEPT ![a] = Ensured(adm[a], "enter")]
                  \/ adm' = [adm EXCEPT ![a] = Ensured(adm[a], "verify")]
            \/ ~mem'.healthy /\ mem'.lock = 0 /\ Finish(a)
<1> DEFINE new == EnsureRestartNodes(adm[a].top)
<1>1. adm[a].pc = "ensure" /\ UNCHANGED <<db, enr, ag, ses, quar, given>>
  BY DEF EnsureDurableNodeProjection
<1>2. adm[a].top \in [Nodes -> ProjRec]
  BY AdmOf
<1>3. /\ new \in [Nodes -> ProjRec]
      /\ \A n \in Nodes :
           /\ new[n] \in {mem.nodes[n], adm[a].top[n]}
           /\ mem.nodes[n] # NoProj => new[n] = mem.nodes[n]
           /\ Differs(adm[a].top) = {} /\ mem.nodes[n] = NoProj => new[n] = adm[a].top[n]
  BY <1>2, MemOf, EnsureFields
<1>4. CASE Differs(adm[a].top) = {}
  <2>1. /\ mem' = WithNodes(mem, new)
        /\ \/ adm' = [adm EXCEPT ![a] = Ensured(adm[a], "enter")]
           \/ adm' = [adm EXCEPT ![a] = Ensured(adm[a], "verify")]
    BY <1>4 DEF EnsureDurableNodeProjection
  <2> HIDE DEF new
  <2> QED
    BY <1>1, <1>3, <1>4, <2>1, MemOf, WithNodesFields
<1>5. CASE Differs(adm[a].top) # {}
  <2>1. /\ mem' = Unlocked(MarkManagementProjectionUnavailable(WithNodes(mem, new)))
        /\ Finish(a)
    BY <1>5 DEF EnsureDurableNodeProjection
  <2> HIDE DEF new
  <2> QED
    BY <1>1, <1>3, <2>1, MemOf, WithNodesFields, UnavailableFields, UnlockedFields
<1> QED
  BY <1>4, <1>5

\* A mutation is let into the store while the audit works.
LEMMA EnterMoves ==
  ASSUME NEW a \in Admins, EnterStore(a)
  PROVE  /\ adm[a].pc = "enter" /\ UNCHANGED <<enr, ag, ses, quar, given>>
         /\ \/ UNCHANGED <<db, mem>> /\ adm' = [adm EXCEPT ![a] = At(adm[a], "commit")]
            \/ db' = Ambiguous(db, adm[a].t) /\ mem' = Unlocked(mem) /\ Finish(a)
  BY DEF EnterStore, Goto

\* A mutation is committed on the revision it was read at, or not at all.
LEMMA CommitMoves ==
  ASSUME Typed, Rows, Requests, NEW a \in Admins, CommitMutation(a)
  PROVE  /\ adm[a].pc = "commit" /\ UNCHANGED <<enr, ag, ses, quar, given>>
         /\ \/ db' = Ambiguous(db, adm[a].t) /\ mem' = Unlocked(mem) /\ Finish(a)
            \/ /\ mem.audit /\ adm[a].rev = db.rev /\ mem' = mem /\ adm[a].op = "apply"
               /\ \A n \in Nodes : (adm[a].doc.max[n] # 0) <=> (n \in Enrolled)
               /\ db' = ReplaceConfiguration(db, adm[a].doc)
               /\ \E pc \in {"mark", "project"} : adm' = [adm EXCEPT ![a] = At(adm[a], pc)]
            \/ \E n \in Enrolled, op \in {"active", "draining", "revoked"} :
                 /\ mem.audit /\ adm[a].rev = db.rev /\ mem' = mem
                 /\ n = adm[a].n /\ op = adm[a].op
                 /\ db.nodes[n].adm # "revoked" /\ db.nodes[n].cred = 1
                 /\ op = "active" => db.nodes[n].adm = "draining"
                 /\ op = "draining" => db.nodes[n].adm = "active"
                 /\ db' = ReplaceNodeState(db, n, op)
                 /\ op = "revoked" => adm' = [adm EXCEPT ![a] = At(adm[a], "notify")]
                 /\ op # "revoked" => adm' = [adm EXCEPT ![a] = At(adm[a], "project")]
<1>1. adm[a].pc = "commit" /\ UNCHANGED <<enr, ag, ses, quar, given>>
  BY DEF CommitMutation
<1>2. adm[a].op \in {"apply", "active", "draining", "revoked"}
  BY <1>1, AdmOf DEF Requests, Requested, Mutations
<1>3. CASE ~Accepted(a)
  BY <1>1, <1>3 DEF CommitMutation
<1>4. CASE Accepted(a) /\ adm[a].op = "apply"
  <2>1. /\ mem' = mem /\ db' = ReplaceConfiguration(db, adm[a].doc)
        /\ \E pc \in {"mark", "project"} : adm' = [adm EXCEPT ![a] = At(adm[a], pc)]
    BY <1>4 DEF CommitMutation, Goto
  <2>2. mem.audit /\ adm[a].rev = db.rev /\ ApplyAccepted(adm[a].doc)
    BY <1>4 DEF Accepted, AuditGate, RevisionMatches
  <2> QED
    BY <1>1, <1>4, <2>1, <2>2 DEF ApplyAccepted, ExactNodes
<1>5. CASE Accepted(a) /\ adm[a].op # "apply"
  <2>1. /\ mem' = mem /\ db' = ReplaceNodeState(db, adm[a].n, adm[a].op)
        /\ adm[a].op = "revoked" => adm' = [adm EXCEPT ![a] = At(adm[a], "notify")]
        /\ adm[a].op # "revoked" => adm' = [adm EXCEPT ![a] = At(adm[a], "project")]
    BY <1>5 DEF CommitMutation, Goto
  <2>2. mem.audit /\ adm[a].rev = db.rev /\ SetAccepted(adm[a].n, adm[a].op)
    BY <1>5 DEF Accepted, AuditGate, RevisionMatches
  <2>3. /\ adm[a].n \in Enrolled /\ db.nodes[adm[a].n].adm # "revoked"
        /\ adm[a].op = "active" => db.nodes[adm[a].n].adm = "draining"
        /\ adm[a].op = "draining" => db.nodes[adm[a].n].adm = "active"
    BY <1>2, <1>5, <2>2 DEF SetAccepted
  <2>4. db.nodes[adm[a].n].cred = 1
    BY <2>3 DEF Rows, Row
  <2> QED
    BY <1>1, <1>2, <1>5, <2>1, <2>2, <2>3, <2>4
<1> QED
  BY <1>3, <1>4, <1>5

\* A commit that fails leaves only the mark of its Target.
LEMMA FailMoves ==
  ASSUME Typed, NEW a \in Admins, CommitFails(a)
  PROVE  /\ adm[a].pc = "commit" /\ UNCHANGED <<enr, ag, ses, quar, given>>
         /\ db' = Ambiguous(db, adm[a].t) /\ Finish(a)
         /\ mem' \in MemRec /\ mem'.up = mem.up /\ mem'.healthy = mem.healthy /\ mem'.lock = 0
         /\ mem'.nodes = mem.nodes /\ mem'.unmarked = mem.unmarked
  BY MemOf, DegradedFields, UnlockedFields DEF CommitFails

\* The hook closes the sessions it knows of.
LEMMA NotifyMoves ==
  ASSUME NEW a \in Admins, NotifyRevocation(a)
  PROVE  /\ adm[a].pc = "notify" /\ UNCHANGED <<db, mem, enr, ag, quar, given>>
         /\ adm' = [adm EXCEPT ![a] = At(adm[a], "project")]
         /\ \/ ses' = ses /\ ses[adm[a].n] = "checked"
            \/ ses' = [ses EXCEPT ![adm[a].n] = "none"]
  BY DEF NotifyRevocation, Goto

\* A committed mutation is projected.
LEMMA ProjectMoves ==
  ASSUME Typed, Requests, NEW a \in Admins, ProjectMutation(a)
  PROVE  /\ adm[a].pc = "project" /\ UNCHANGED <<db, enr, ag, ses, quar, given>> /\ Finish(a)
         /\ mem' \in MemRec /\ mem'.up = mem.up /\ mem'.audit = mem.audit /\ mem'.lock = 0
         /\ mem'.unmarked = mem.unmarked
         /\ \/ /\ adm[a].op = "apply"
               /\ \A n \in Nodes : /\ mem'.nodes[n].adm = mem.nodes[n].adm
                                   /\ mem.nodes[n] = NoProj => mem'.nodes[n] = NoProj
               /\ mem'.healthy => /\ mem.healthy
                                  /\ \A n \in Nodes : mem'.nodes[n].max = adm[a].doc.max[n]
               /\ \/ mem'.nodes = mem.nodes
                  \/ \A n \in Nodes : mem.nodes[n] # NoProj => mem'.nodes[n].max # 0
            \/ \E n \in Enrolled, op \in {"active", "draining", "revoked"} :
                 /\ n = adm[a].n /\ op = adm[a].op
                 /\ \A m \in Nodes \ {n} : mem'.nodes[m] = mem.nodes[m]
                 /\ mem'.nodes[n].max = mem.nodes[n].max
                 /\ mem'.healthy => /\ mem.healthy /\ mem'.nodes[n].adm = op
                                    /\ ~SetRefused(mem.nodes[n].adm, op)
                 /\ \/ mem'.nodes = mem.nodes
                    \/ mem'.nodes[n].adm = op /\ mem.nodes[n].adm # "none"
<1>1. /\ adm[a].pc = "project" /\ UNCHANGED <<db, enr, ag, ses, quar, given>> /\ Finish(a)
  BY DEF ProjectMutation
<1>2. adm[a].op \in {"apply", "active", "draining", "revoked"}
  BY <1>1, AdmOf DEF Requests, Requested, Mutations
<1>3. CASE adm[a].op = "apply"
  <2>1. mem' = Unlocked(ApplyNodeConfigurations(mem, adm[a].doc))
    BY <1>3 DEF ProjectMutation
  <2>2. adm[a].doc \in DocRec
    BY AdmOf
  <2>3. ApplyNodeConfigurations(mem, adm[a].doc) \in MemRec
    BY <2>2, MemOf, ApplyFields
  <2>4. /\ mem' \in MemRec /\ mem'.lock = 0
        /\ mem'.up = ApplyNodeConfigurations(mem, adm[a].doc).up
        /\ mem'.audit = ApplyNodeConfigurations(mem, adm[a].doc).audit
        /\ mem'.healthy = ApplyNodeConfigurations(mem, adm[a].doc).healthy
        /\ mem'.nodes = ApplyNodeConfigurations(mem, adm[a].doc).nodes
        /\ mem'.unmarked = ApplyNodeConfigurations(mem, adm[a].doc).unmarked
    BY <2>1, <2>3, UnlockedFields
  <2> QED
    BY <1>1, <1>3, <2>2, <2>4, MemOf, ApplyFields
<1>4. CASE adm[a].op # "apply"
  <2>1. mem' = Unlocked(SetAdministrativeState(mem, adm[a].n, adm[a].op))
    BY <1>4 DEF ProjectMutation
  <2>2. adm[a].n \in Enrolled /\ adm[a].n \in Nodes /\ adm[a].op \in States
    BY <1>1, <1>2, <1>4, EnrolledNodes DEF Requests, Requested, States
  <2>3. SetAdministrativeState(mem, adm[a].n, adm[a].op) \in MemRec
    BY <2>2, MemOf, SetFields
  <2>4. /\ mem' \in MemRec /\ mem'.lock = 0
        /\ mem'.up = SetAdministrativeState(mem, adm[a].n, adm[a].op).up
        /\ mem'.audit = SetAdministrativeState(mem, adm[a].n, adm[a].op).audit
        /\ mem'.healthy = SetAdministrativeState(mem, adm[a].n, adm[a].op).healthy
        /\ mem'.nodes = SetAdministrativeState(mem, adm[a].n, adm[a].op).nodes
        /\ mem'.unmarked = SetAdministrativeState(mem, adm[a].n, adm[a].op).unmarked
    BY <2>1, <2>3, UnlockedFields
  <2> DEFINE x == SetAdministrativeState(mem, adm[a].n, adm[a].op)
  <2>5. /\ x.up = mem.up /\ x.audit = mem.audit /\ x.unmarked = mem.unmarked
        /\ \A k \in Nodes \ {adm[a].n} : x.nodes[k] = mem.nodes[k]
        /\ x.nodes[adm[a].n].cred = mem.nodes[adm[a].n].cred
        /\ x.nodes[adm[a].n].max = mem.nodes[adm[a].n].max
        /\ x.healthy => /\ mem.healthy /\ x.nodes[adm[a].n].adm = adm[a].op
                        /\ ~SetRefused(mem.nodes[adm[a].n].adm, adm[a].op)
        /\ \/ x.nodes = mem.nodes
           \/ x.nodes[adm[a].n].adm = adm[a].op /\ mem.nodes[adm[a].n].adm # "none"
    BY <2>2, MemOf, SetFields
  <2>6. adm[a].op \in {"active", "draining", "revoked"}
    BY <1>2, <1>4
  <2>7. /\ mem'.up = mem.up /\ mem'.audit = mem.audit /\ mem'.unmarked = mem.unmarked
        /\ \A k \in Nodes \ {adm[a].n} : mem'.nodes[k] = mem.nodes[k]
        /\ mem'.nodes[adm[a].n].max = mem.nodes[adm[a].n].max
        /\ mem'.healthy => /\ mem.healthy /\ mem'.nodes[adm[a].n].adm = adm[a].op
                           /\ ~SetRefused(mem.nodes[adm[a].n].adm, adm[a].op)
        /\ \/ mem'.nodes = mem.nodes
           \/ mem'.nodes[adm[a].n].adm = adm[a].op /\ mem.nodes[adm[a].n].adm # "none"
    BY <2>4, <2>5
  <2> HIDE DEF x
  <2> QED
    BY <1>1, <2>2, <2>4, <2>6, <2>7
<1> QED
  BY <1>3, <1>4

---------------------------------------------------------------------------
(* The effect of every step, field by field *)

OnlyAdm(a) == adm' \in [Admins -> AdmRec] /\ \A b \in Admins \ {a} : adm'[b] = adm[b]
OnlyEnr(r) == enr' \in [Reqs -> EnrRec] /\ \A o \in Reqs \ {r} : enr'[o] = enr[o]
OnlyAg(a)  == ag' \in [Agents -> AgRec] /\ \A b \in Agents \ {a} : ag'[b] = ag[b]
OnlySes(n) == ses' \in [Nodes -> Steps] /\ \A m \in Nodes \ {n} : ses'[m] = ses[m]

\* Nothing of a document changes, and no node is enrolled.
KeptRows  == /\ db' \in DbRec /\ db'.nodes = db.nodes /\ db'.rev = db.rev
             /\ Enrolled' = Enrolled /\ Document' = Document
KeptCodes == db'.toks = db.toks /\ db'.replay = db.replay
KeptMem   == /\ mem' \in MemRec /\ mem'.up = mem.up /\ mem'.healthy = mem.healthy
             /\ mem'.nodes = mem.nodes
             /\ mem.unmarked => mem'.unmarked

\* A mutation goes on, or ends.
Goes(a, pc) == /\ OnlyAdm(a) /\ adm'[a].pc = pc /\ adm'[a].op = adm[a].op
               /\ adm'[a].rev = adm[a].rev /\ adm'[a].base = adm[a].base
               /\ adm'[a].doc = adm[a].doc /\ adm'[a].n = adm[a].n
Ends(a) == /\ OnlyAdm(a) /\ adm'[a].pc \in {"idle", "read"}
           /\ adm'[a].pc = "read" => adm'[a].rev = adm[a].rev /\ adm'[a].base = adm[a].base

\* A database that does not change keeps rows and codes.
LEMMA SameDb ==
  ASSUME Typed, db' = db
  PROVE  KeptRows /\ KeptCodes
  BY DbOf DEF KeptRows, KeptCodes, Enrolled, Document

\* So does memory.
LEMMA SameMem ==
  ASSUME Typed, mem' = mem
  PROVE  KeptMem /\ mem'.lock = mem.lock /\ mem'.audit = mem.audit
  BY MemOf DEF KeptMem

\* Rows, revision, Targets and policies make up the document.
LEMMA SameRows ==
  ASSUME db' \in DbRec, db'.nodes = db.nodes, db'.rev = db.rev, db'.tgts = db.tgts, db'.pol = db.pol
  PROVE  KeptRows
  BY DEF KeptRows, Enrolled, Document

\* An ambiguous provisioning leaves rows and codes alone.
LEMMA MarkedDb ==
  ASSUME Typed, NEW a \in Admins, db' = Ambiguous(db, adm[a].t)
  PROVE  KeptRows /\ KeptCodes
<1>1. adm[a].t \in {0} \cup Targets
  BY AdmOf
<1>2. /\ db' \in DbRec /\ db'.nodes = db.nodes /\ db'.rev = db.rev /\ db'.tgts = db.tgts
      /\ db'.pol = db.pol /\ db'.toks = db.toks /\ db'.replay = db.replay
  BY <1>1, DbOf, AmbiguousFields
<1> QED
  BY <1>2, SameRows DEF KeptCodes

\* Finish leaves the client at most the document it read.
LEMMA EndsMutation ==
  ASSUME Typed, NEW a \in Admins, Finish(a)
  PROVE  Ends(a)
  BY FinishFields DEF Ends, OnlyAdm

\* A mutation that goes on keeps all but its place.
LEMMA GoesOn ==
  ASSUME Typed, NEW a \in Admins, NEW pc \in AdmPCs, adm' = [adm EXCEPT ![a] = At(adm[a], pc)]
  PROVE  Goes(a, pc)
<1>1. adm[a] \in AdmRec
  BY AdmOf
<1>2. /\ At(adm[a], pc) \in AdmRec /\ At(adm[a], pc).pc = pc /\ At(adm[a], pc).op = adm[a].op
      /\ At(adm[a], pc).rev = adm[a].rev /\ At(adm[a], pc).base = adm[a].base
      /\ At(adm[a], pc).doc = adm[a].doc /\ At(adm[a], pc).n = adm[a].n
  BY <1>1, AtAdmFields
<1>3. adm'[a] = At(adm[a], pc) /\ OnlyAdm(a)
  BY <1>2, FunOf DEF OnlyAdm
<1> QED
  BY <1>2, <1>3 DEF Goes

\* A start restores every row into memory; codes only end.
LEMMA StartEffect ==
  ASSUME Typed, StartController
  PROVE  /\ ~mem.up /\ KeptRows /\ db'.replay = db.replay
         /\ \A c \in Codes : db'.toks[c] \in {0, db.toks[c]}
         /\ mem' \in MemRec /\ mem'.up /\ mem'.healthy /\ mem'.lock = 0
         /\ \A n \in Enrolled : /\ mem'.nodes[n].adm = db.nodes[n].adm
                                /\ mem'.nodes[n].cred = db.nodes[n].cred
                                /\ mem'.nodes[n].max = db.nodes[n].max
         /\ \A n \in Nodes \ Enrolled : mem'.nodes[n] = NoProj
         /\ UNCHANGED <<adm, enr, ag, ses, quar, given>>
<1>1. /\ ~mem.up /\ db.epoch < MaxEpoch /\ db' = Advanced(db) /\ mem' = Serving(Restored)
      /\ UNCHANGED <<adm, enr, ag, ses, quar, given>>
  BY DEF StartController
<1>2. /\ KeptRows /\ db'.replay = db.replay /\ \A c \in Codes : db'.toks[c] \in {0, db.toks[c]}
  <2>1. /\ db' \in DbRec /\ db'.nodes = db.nodes /\ db'.rev = db.rev /\ db'.tgts = db.tgts
        /\ db'.pol = db.pol /\ db'.replay = db.replay
        /\ \A c \in Codes : db'.toks[c] \in {0, db.toks[c]}
    BY <1>1, DbOf, AdvancedFields
  <2> QED
    BY <2>1, SameRows
<1>3. /\ Restored \in [Nodes -> ProjRec]
      /\ \A n \in Nodes : Restored[n] = IF n \in Enrolled THEN Topology(n) ELSE NoProj
  BY DbOf, RestoredFields
<1>4. /\ mem' \in MemRec /\ mem'.up /\ mem'.healthy /\ mem'.lock = 0 /\ mem'.nodes = Restored
  BY <1>1, <1>3, ServingFields
<1> QED
  BY <1>1, <1>2, <1>3, <1>4, DbOf, EnrolledNodes, TopologyFields

\* A crash leaves the database and the Agents.
LEMMA CrashEffect ==
  ASSUME Crash
  PROVE  /\ mem.up /\ mem' \in MemRec /\ ~mem'.up /\ mem'.lock = 0
         /\ \A n \in Nodes : mem'.nodes[n] = NoProj
         /\ adm' \in [Admins -> AdmRec] /\ \A a \in Admins : adm'[a].pc = "idle"
         /\ enr' \in [Reqs -> EnrRec] /\ \A r \in Reqs : enr'[r] = Free /\ enr'[r].pc = "idle"
         /\ \A r \in Reqs : enr'[r].a = 0
         /\ ses' = [n \in Nodes |-> "none"] /\ quar' = {} /\ UNCHANGED <<db, ag, given>>
  BY DownFields, NoTopsFields, RestFields, FreeFields DEF Crash

\* A failed audit write closes the audit and nothing else.
LEMMA TokenAuditEffect ==
  ASSUME Typed, TokenAuditFails
  PROVE  KeptMem /\ mem'.lock = mem.lock /\ UNCHANGED <<db, adm, enr, ag, ses, quar, given>>
  BY MemOf, DegradedFields DEF TokenAuditFails, KeptMem

\* A code is handed out once.
LEMMA CreateEffect ==
  ASSUME Typed, NEW c \in Codes, CreateJoinCode(c)
  PROVE  /\ mem.up /\ c \notin given.out /\ KeptRows /\ db'.replay = db.replay
         /\ given' \in GivenRec /\ given'.cancelled = given.cancelled
         /\ UNCHANGED <<mem, adm, enr, ag, ses, quar>>
         /\ \/ given'.out = given.out \cup {c} /\ \A d \in Codes \ {c} : db'.toks[d] = db.toks[d]
            \/ given'.out = given.out /\ db'.toks = db.toks
<1>1. CASE UNCHANGED <<db, given>>
  BY <1>1, CreateMoves, SameDb, FunOf DEF KeptCodes
<1>2. CASE db' = Bound(db, c, db.epoch) /\ given' = HandedOut(c)
  <2>1. db.epoch \in 0..MaxEpoch /\ db \in DbRec /\ db.toks \in [Codes -> 0..MaxEpoch]
    BY DbOf
  <2>2. /\ db' \in DbRec /\ db'.nodes = db.nodes /\ db'.rev = db.rev /\ db'.tgts = db.tgts
        /\ db'.pol = db.pol /\ db'.replay = db.replay
        /\ db'.toks = [db.toks EXCEPT ![c] = db.epoch]
    BY <1>2, <2>1, BoundFields
  <2>3. /\ given' \in GivenRec /\ given'.out = given.out \cup {c}
        /\ given'.cancelled = given.cancelled
    BY <1>2, FunOf, HandedOutFields
  <2> QED
    BY <2>1, <2>2, <2>3, SameRows, CreateMoves
<1> QED
  BY <1>1, <1>2, CreateMoves

\* Only a code that is still there is cancelled.
LEMMA CancelEffect ==
  ASSUME Typed, NEW c \in Codes, CancelJoinCode(c)
  PROVE  /\ mem.up /\ c \in given.out /\ db.toks[c] # 0 /\ KeptRows /\ db'.replay = db.replay
         /\ db'.toks[c] = 0 /\ \A d \in Codes \ {c} : db'.toks[d] = db.toks[d]
         /\ given' \in GivenRec /\ given'.out = given.out
         /\ given'.cancelled = given.cancelled \cup {c}
         /\ UNCHANGED <<mem, adm, enr, ag, ses, quar>>
<1>1. /\ mem.up /\ c \in given.out /\ db.toks[c] # 0 /\ db' = Bound(db, c, 0)
      /\ given' = Withdrawn(c) /\ UNCHANGED <<mem, adm, enr, ag, ses, quar>>
  BY DEF CancelJoinCode, Cancels
<1>2. 0 \in 0..MaxEpoch /\ db \in DbRec /\ db.toks \in [Codes -> 0..MaxEpoch]
  BY DbOf, ManagementConstants
<1>3. /\ db' \in DbRec /\ db'.nodes = db.nodes /\ db'.rev = db.rev /\ db'.tgts = db.tgts
      /\ db'.pol = db.pol /\ db'.replay = db.replay /\ db'.toks = [db.toks EXCEPT ![c] = 0]
  BY <1>1, <1>2, BoundFields
<1> QED
  BY <1>1, <1>2, <1>3, SameRows, FunOf, WithdrawnFields

\* A request carries the key of the Agent that sent it.
LEMMA JoinEffect ==
  ASSUME Typed, NEW a \in Agents, NEW c \in Codes, JoinAgent(a, c)
  PROVE  /\ mem.up /\ ag[a].node = 0 /\ OnlyAg(a)
         /\ ag'[a].key = ag[a].key /\ ag'[a].node = 0 /\ ag'[a].pc = "wait"
         /\ UNCHANGED <<db, mem, adm, ses, quar, given>>
         /\ \E r \in Reqs :
              /\ ag'[a].r = r /\ enr[r] = Free /\ OnlyEnr(r)
              /\ enr'[r].pc \in {"consume", "replay"} /\ enr'[r].a = a /\ enr'[r].k = ag[a].key
              /\ enr'[r].c = c /\ enr'[r].n = 0
<1>1. /\ mem.up /\ ag[a].node = 0 /\ UNCHANGED <<db, mem, adm, ses, quar, given>>
  BY DEF JoinAgent
<1>2. PICK r \in Reqs : /\ enr[r] = Free /\ ag' = [ag EXCEPT ![a] = Waiting(ag[a], c, r)]
                        /\ \E pc \in {"consume", "replay"} :
                             enr' = [enr EXCEPT ![r] = Request(pc, a, ag[a].key, c)]
  BY DEF JoinAgent
<1>3. PICK pc \in {"consume", "replay"} : enr' = [enr EXCEPT ![r] = Request(pc, a, ag[a].key, c)]
  BY <1>2
<1>4. ag[a] \in AgRec /\ ag[a].key \in Nat /\ pc \in EnrPCs
  BY AgOf DEF EnrPCs
<1>5. /\ Waiting(ag[a], c, r) \in AgRec /\ Waiting(ag[a], c, r).key = ag[a].key
      /\ Waiting(ag[a], c, r).node = ag[a].node /\ Waiting(ag[a], c, r).pc = "wait"
      /\ Waiting(ag[a], c, r).r = r
  BY <1>4, WaitingFields
<1>6. /\ OnlyAg(a) /\ ag'[a] = Waiting(ag[a], c, r)
  BY <1>2, <1>5, FunOf DEF OnlyAg
<1>7. /\ Request(pc, a, ag[a].key, c) \in EnrRec /\ Request(pc, a, ag[a].key, c).pc = pc
      /\ Request(pc, a, ag[a].key, c).a = a /\ Request(pc, a, ag[a].key, c).k = ag[a].key
      /\ Request(pc, a, ag[a].key, c).c = c /\ Request(pc, a, ag[a].key, c).n = 0
  BY <1>4, RequestFields
<1>8. OnlyEnr(r) /\ enr'[r] = Request(pc, a, ag[a].key, c)
  BY <1>3, <1>7, FunOf DEF OnlyEnr
<1> QED
  BY <1>1, <1>2, <1>5, <1>6, <1>7, <1>8

\* A join command that gives up keeps its node, a reinstalled Agent has none.
LEMMA QuitEffect ==
  ASSUME Typed, NEW a \in Agents, AbandonJoin(a) \/ LoseConnection(a) \/ ReinstallAgent(a)
  PROVE  /\ OnlyAg(a) /\ ag'[a].pc = "idle"
         /\ ag'[a].node # 0 => ag'[a].node = ag[a].node /\ ag'[a].key = ag[a].key
         /\ UNCHANGED <<db, mem, adm, enr, ses, quar, given>>
<1>1. ag[a] \in AgRec
  BY AgOf
<1>2. CASE AbandonJoin(a) \/ LoseConnection(a)
  <2>1. /\ ag' = [ag EXCEPT ![a] = Quits(ag[a])] /\ UNCHANGED <<db, mem, adm, enr, ses, quar, given>>
    BY <1>2 DEF AbandonJoin, LoseConnection
  <2>2. /\ Quits(ag[a]) \in AgRec /\ Quits(ag[a]).pc = "idle" /\ Quits(ag[a]).node = ag[a].node
        /\ Quits(ag[a]).key = ag[a].key
    BY <1>1, QuitsFields
  <2> QED
    BY <2>1, <2>2, FunOf DEF OnlyAg
<1>3. CASE ReinstallAgent(a)
  <2>1. /\ ag' = [ag EXCEPT ![a] = Reinstalled(ag[a])]
        /\ UNCHANGED <<db, mem, adm, enr, ses, quar, given>>
    BY <1>3 DEF ReinstallAgent
  <2>2. Reinstalled(ag[a]) \in AgRec /\ Reinstalled(ag[a]).pc = "idle" /\ Reinstalled(ag[a]).node = 0
    BY <1>1, ReinstalledFields
  <2> QED
    BY <2>1, <2>2, FunOf DEF OnlyAg
<1> QED
  BY <1>2, <1>3

\* An Agent dials as its node.
LEMMA DialEffect ==
  ASSUME Typed, Joins, NEW a \in Agents, DialAgent(a)
  PROVE  /\ mem.up /\ ag[a].node \in Nodes /\ ag[a].node # 0 /\ OnlySes(ag[a].node)
         /\ ses'[ag[a].node] = "checked" /\ UNCHANGED <<db, mem, adm, enr, ag, quar, given>>
<1>1. ag[a].node # 0 /\ ag[a].node \in Nodes
  BY AgOf DEF DialAgent, Joins, Joining
<1> QED
  BY <1>1, FunOf DEF DialAgent, Session, OnlySes, Steps

\* A session that was authorized is registered.
LEMMA RegisterEffect ==
  ASSUME Typed, Joins, NEW a \in Agents, RegisterSession(a)
  PROVE  /\ ag[a].node \in Nodes /\ ag[a].node # 0 /\ ses[ag[a].node] = "checked"
         /\ OnlySes(ag[a].node) /\ ses'[ag[a].node] = "registered"
         /\ OnlyAg(a) /\ ag'[a].pc = "joined" /\ ag'[a].node = ag[a].node /\ ag'[a].key = ag[a].key
         /\ UNCHANGED <<db, mem, adm, enr, quar, given>>
<1>1. ag[a].node # 0 /\ ag[a].node \in Nodes /\ ag[a] \in AgRec
  BY AgOf DEF RegisterSession, Joins, Joining
<1>2. /\ At(ag[a], "joined") \in AgRec /\ At(ag[a], "joined").pc = "joined"
      /\ At(ag[a], "joined").node = ag[a].node /\ At(ag[a], "joined").key = ag[a].key
  BY <1>1, AtAgFields
<1>3. /\ ses[ag[a].node] = "checked" /\ ses' = [ses EXCEPT ![ag[a].node] = "registered"]
      /\ ag' = [ag EXCEPT ![a] = At(ag[a], "joined")] /\ UNCHANGED <<db, mem, adm, enr, quar, given>>
  BY DEF RegisterSession, Session
<1> QED
  BY <1>1, <1>2, <1>3, FunOf DEF OnlySes, OnlyAg, Steps

\* An enrollment makes the next node for the key and ends its code, or does nothing.
LEMMA ConsumeEffect ==
  ASSUME Typed, Rows, Handlers, NEW r \in Reqs, ConsumeEnrollment(r)
  PROVE  /\ enr[r].pc = "consume" /\ UNCHANGED <<mem, adm, ag, ses, quar, given>>
         /\ OnlyEnr(r) /\ enr'[r].a = enr[r].a /\ enr'[r].k = enr[r].k /\ enr'[r].c = enr[r].c
         /\ \/ \E n \in Nodes :
                 /\ n \notin Enrolled /\ Enrolled \cup {n} = 1..n /\ Enrolled' = Enrolled \cup {n}
                 /\ mem.audit /\ enr[r].c \in Codes /\ db.toks[enr[r].c] # 0
                 /\ db' \in DbRec /\ db'.rev = db.rev + 1
                 /\ db'.toks[enr[r].c] = 0 /\ db'.replay[enr[r].c] = n
                 /\ \A c \in Codes \ {enr[r].c} : /\ db'.toks[c] = db.toks[c]
                                                  /\ db'.replay[c] = db.replay[c]
                 /\ \A m \in Nodes \ {n} : db'.nodes[m] = db.nodes[m]
                 /\ Fresh(db'.nodes[n])
                 /\ db'.nodes[n].key = enr[r].k /\ db'.nodes[n].code = enr[r].c
                 /\ enr'[r].pc = "read" /\ enr'[r].n = n
            \/ db' = db /\ enr'[r].pc = "replay" /\ enr'[r].n = enr[r].n
<1>1. enr[r] \in EnrRec /\ "replay" \in EnrPCs
  BY EnrOf DEF EnrPCs
<1>2. CASE db' = db /\ enr' = [enr EXCEPT ![r] = At(enr[r], "replay")]
  <2>1. /\ At(enr[r], "replay") \in EnrRec /\ At(enr[r], "replay").pc = "replay"
        /\ At(enr[r], "replay").a = enr[r].a /\ At(enr[r], "replay").k = enr[r].k
        /\ At(enr[r], "replay").c = enr[r].c /\ At(enr[r], "replay").n = enr[r].n
    BY <1>1, AtEnrFields
  <2>2. OnlyEnr(r) /\ enr'[r] = At(enr[r], "replay")
    BY <1>2, <2>1, FunOf DEF OnlyEnr
  <2> QED
    BY <1>2, <2>1, <2>2, ConsumeMoves
<1>3. ASSUME NEW n \in Nodes, n \notin Enrolled, Enrolled \cup {n} = 1..n, mem.audit,
             enr[r].c \in Codes, enr[r].k \in Nat, db.toks[enr[r].c] # 0,
             db' = Enrol(db, n, enr[r].k, enr[r].c),
             enr' = [enr EXCEPT ![r] = Found(enr[r], n, "consume")]
      PROVE  /\ OnlyEnr(r) /\ enr'[r].a = enr[r].a /\ enr'[r].k = enr[r].k /\ enr'[r].c = enr[r].c
             /\ enr'[r].pc = "read" /\ enr'[r].n = n
             /\ db' \in DbRec /\ db'.rev = db.rev + 1
             /\ db'.toks[enr[r].c] = 0 /\ db'.replay[enr[r].c] = n
             /\ \A c \in Codes \ {enr[r].c} : /\ db'.toks[c] = db.toks[c]
                                              /\ db'.replay[c] = db.replay[c]
             /\ \A m \in Nodes \ {n} : db'.nodes[m] = db.nodes[m]
             /\ Fresh(db'.nodes[n])
             /\ db'.nodes[n].key = enr[r].k /\ db'.nodes[n].code = enr[r].c
             /\ Enrolled' = Enrolled \cup {n}
  <2>1. /\ Found(enr[r], n, "consume") \in EnrRec /\ Found(enr[r], n, "consume").pc = "read"
        /\ Found(enr[r], n, "consume").a = enr[r].a /\ Found(enr[r], n, "consume").k = enr[r].k
        /\ Found(enr[r], n, "consume").c = enr[r].c /\ Found(enr[r], n, "consume").n = n
    BY <1>1, FoundFields
  <2>2. OnlyEnr(r) /\ enr'[r] = Found(enr[r], n, "consume")
    BY <1>3, <2>1, FunOf DEF OnlyEnr
  <2>3. db \in DbRec
    BY DbOf
  <2>4. /\ db' \in DbRec /\ db'.rev = db.rev + 1
        /\ db'.toks[enr[r].c] = 0 /\ db'.replay[enr[r].c] = n
        /\ \A c \in Codes \ {enr[r].c} : /\ db'.toks[c] = db.toks[c]
                                         /\ db'.replay[c] = db.replay[c]
        /\ \A m \in Nodes \ {n} : db'.nodes[m] = db.nodes[m]
        /\ db'.nodes[n].adm = "active" /\ db'.nodes[n].cred = 1 /\ db'.nodes[n].max = 1
        /\ db'.nodes[n].key = enr[r].k /\ db'.nodes[n].code = enr[r].c
    <3> DEFINE k == enr[r].k
               c == enr[r].c
               d == Enrol(db, n, k, c)
    <3>1. db' = Enrol(db, n, k, c) /\ k \in Nat /\ c \in Codes
      BY <1>3
    <3> HIDE DEF k, c
    <3>2. /\ d \in DbRec /\ d.rev = db.rev + 1 /\ d.toks[c] = 0 /\ d.replay[c] = n
          /\ \A b \in Codes \ {c} : d.toks[b] = db.toks[b] /\ d.replay[b] = db.replay[b]
          /\ \A m \in Nodes \ {n} : d.nodes[m] = db.nodes[m]
          /\ d.nodes[n].adm = "active" /\ d.nodes[n].cred = 1 /\ d.nodes[n].max = 1
          /\ d.nodes[n].key = k /\ d.nodes[n].code = c
      BY <2>3, <3>1, EnrolFields, SpendFields
    <3> HIDE DEF d
    <3>3. db' = d
      BY <3>1 DEF d
    <3> QED
      BY <3>2, <3>3 DEF k, c
  <2>5. db'.nodes[n] # NoNode
    BY <2>4, NoNodeFields
  <2>6. Enrolled' = Enrolled \cup {n}
    BY <2>4, <2>5 DEF Enrolled
  <2> QED
    BY <2>1, <2>2, <2>4, <2>6 DEF Fresh
<1>4. /\ enr[r].pc = "consume" /\ UNCHANGED <<mem, adm, ag, ses, quar, given>>
  BY ConsumeMoves
<1>5. CASE ~(db' = db /\ enr' = [enr EXCEPT ![r] = At(enr[r], "replay")])
  <2>1. PICK n \in Nodes : /\ n \notin Enrolled /\ Enrolled \cup {n} = 1..n
                           /\ mem.audit /\ db.toks[enr[r].c] # 0
                           /\ db' = Enrol(db, n, enr[r].k, enr[r].c)
                           /\ enr' = [enr EXCEPT ![r] = Found(enr[r], n, "consume")]
    BY <1>5, ConsumeMoves
  <2>2. enr[r].c \in Codes /\ enr[r].k \in Nat
    BY ConsumeMoves
  <2> QED
    BY <1>3, <1>4, <2>1, <2>2
<1> QED
  BY <1>2, <1>5

\* A replay finds the node of the code when it was made for the same key.
LEMMA ReplayEffect ==
  ASSUME Typed, Rows, Handlers, NEW r \in Reqs, ReplayEnrollment(r)
  PROVE  /\ enr[r].pc = "replay" /\ UNCHANGED <<db, mem, adm, ag, ses, quar, given>>
         /\ OnlyEnr(r) /\ enr'[r].a = enr[r].a /\ enr'[r].k = enr[r].k /\ enr'[r].c = enr[r].c
         /\ \/ /\ enr'[r].pc = "read" /\ enr'[r].n \in Enrolled /\ enr'[r].n # 0
               /\ db.nodes[enr'[r].n].key = enr[r].k
            \/ enr'[r].pc = "reply" /\ enr'[r].n = 0
<1>1. enr[r] \in EnrRec
  BY EnrOf
<1>2. CASE enr' = [enr EXCEPT ![r] = Refused(enr[r])]
  <2>1. /\ Refused(enr[r]) \in EnrRec /\ Refused(enr[r]).pc = "reply" /\ Refused(enr[r]).n = 0
        /\ Refused(enr[r]).a = enr[r].a /\ Refused(enr[r]).k = enr[r].k
        /\ Refused(enr[r]).c = enr[r].c
    BY <1>1, RefusedFields
  <2>2. OnlyEnr(r) /\ enr'[r] = Refused(enr[r])
    BY <1>2, <2>1, FunOf DEF OnlyEnr
  <2> QED
    BY <2>1, <2>2, ReplayMoves
<1>3. CASE ~(enr' = [enr EXCEPT ![r] = Refused(enr[r])])
  <2>1. PICK n \in Enrolled : /\ db.nodes[n].key = enr[r].k
                              /\ enr' = [enr EXCEPT ![r] = Found(enr[r], n, "replay")]
    BY <1>3, ReplayMoves
  <2>2. n \in Nodes /\ n # 0
    BY EnrolledNodes, NodesType
  <2>3. /\ Found(enr[r], n, "replay") \in EnrRec /\ Found(enr[r], n, "replay").pc = "read"
        /\ Found(enr[r], n, "replay").a = enr[r].a /\ Found(enr[r], n, "replay").k = enr[r].k
        /\ Found(enr[r], n, "replay").c = enr[r].c /\ Found(enr[r], n, "replay").n = n
    BY <1>1, <2>2, FoundFields
  <2>4. OnlyEnr(r) /\ enr'[r] = Found(enr[r], n, "replay")
    BY <2>1, <2>3, FunOf DEF OnlyEnr
  <2> QED
    BY <2>1, <2>2, <2>3, <2>4, ReplayMoves
<1> QED
  BY <1>2, <1>3

\* The handler reads the row as it is.
LEMMA TopologyEffect ==
  ASSUME Typed, Handlers, NEW r \in Reqs, ReadTopology(r)
  PROVE  /\ enr[r].pc = "read" /\ UNCHANGED <<db, mem, adm, ag, ses, quar, given>>
         /\ OnlyEnr(r) /\ enr'[r].a = enr[r].a /\ enr'[r].k = enr[r].k /\ enr'[r].c = enr[r].c
         /\ enr'[r].n = enr[r].n /\ enr'[r].pc = "ensure" /\ enr[r].n \in Enrolled
         /\ enr'[r].top.adm = db.nodes[enr[r].n].adm /\ enr'[r].top.cred = db.nodes[enr[r].n].cred
         /\ enr'[r].top.max = db.nodes[enr[r].n].max
<1> DEFINE top == Topology(enr[r].n)
<1>1. enr[r] \in EnrRec
  BY EnrOf
<1>2. /\ enr[r].pc = "read" /\ UNCHANGED <<db, mem, adm, ag, ses, quar, given>>
      /\ enr' = [enr EXCEPT ![r] = Observed(enr[r], top)]
  BY DEF ReadTopology
<1>3. enr[r].n \in Enrolled /\ enr[r].n \in Nodes
  BY <1>2, EnrolledNodes DEF Handlers, Handler
<1>4. /\ top \in ProjRec /\ top.adm = db.nodes[enr[r].n].adm /\ top.cred = db.nodes[enr[r].n].cred
      /\ top.max = db.nodes[enr[r].n].max
  BY <1>3, DbOf, TopologyFields
<1> HIDE DEF top
<1>5. /\ Observed(enr[r], top) \in EnrRec /\ Observed(enr[r], top).pc = "ensure"
      /\ Observed(enr[r], top).a = enr[r].a /\ Observed(enr[r], top).k = enr[r].k
      /\ Observed(enr[r], top).c = enr[r].c /\ Observed(enr[r], top).n = enr[r].n
      /\ Observed(enr[r], top).top = top
  BY <1>1, <1>4, ObservedFields
<1>6. OnlyEnr(r) /\ enr'[r] = Observed(enr[r], top)
  BY <1>2, <1>5, FunOf DEF OnlyEnr
<1> QED
  BY <1>2, <1>3, <1>4, <1>5, <1>6

\* The handler adds a node memory does not know, and changes none that it knows.
LEMMA EnsureEffect ==
  ASSUME Typed, Handlers, NEW r \in Reqs, EnsureNode(r)
  PROVE  /\ enr[r].pc = "ensure" /\ enr[r].n \in Nodes /\ enr[r].n # 0
         /\ mem' \in MemRec /\ mem'.up = mem.up /\ mem'.lock = mem.lock
         /\ mem'.unmarked = mem.unmarked /\ UNCHANGED <<db, adm, ag, ses, quar, given>>
         /\ OnlyEnr(r) /\ enr'[r].a = enr[r].a /\ enr'[r].k = enr[r].k /\ enr'[r].c = enr[r].c
         /\ enr'[r].pc \in {"reply", "replay"}
         /\ \A n \in Nodes \ {enr[r].n} : mem'.nodes[n] = mem.nodes[n]
         /\ mem.nodes[enr[r].n] # NoProj => mem'.nodes[enr[r].n] = mem.nodes[enr[r].n]
         /\ \/ /\ mem.nodes[enr[r].n] = NoProj => mem'.nodes[enr[r].n] = enr[r].top
               /\ mem'.healthy = mem.healthy /\ enr'[r].n = enr[r].n /\ enr'[r].pc = "reply"
            \/ mem'.nodes = mem.nodes /\ ~mem'.healthy /\ enr'[r].n = 0
<1>1. enr[r] \in EnrRec /\ "reply" \in EnrPCs /\ "replay" \in EnrPCs /\ enr[r].n \in {0} \cup Nodes
  BY EnrOf DEF EnrPCs
<1>2. PICK n \in {0, enr[r].n}, pc \in {"reply", "replay"} :
         /\ enr' = [enr EXCEPT ![r] = Projected(enr[r], n, pc)]
         /\ \/ /\ n = enr[r].n /\ pc = "reply" /\ mem'.healthy = mem.healthy
               /\ mem.nodes[enr[r].n] = NoProj => mem'.nodes[enr[r].n] = enr[r].top
            \/ n = 0 /\ mem'.nodes = mem.nodes /\ ~mem'.healthy
  BY EnsureMoves
<1>3. /\ Projected(enr[r], n, pc) \in EnrRec /\ Projected(enr[r], n, pc).pc = pc
      /\ Projected(enr[r], n, pc).a = enr[r].a /\ Projected(enr[r], n, pc).k = enr[r].k
      /\ Projected(enr[r], n, pc).c = enr[r].c /\ Projected(enr[r], n, pc).n = n
  BY <1>1, <1>2, ProjectedFields
<1>4. OnlyEnr(r) /\ enr'[r] = Projected(enr[r], n, pc)
  BY <1>2, <1>3, FunOf DEF OnlyEnr
<1>5. enr[r].n # 0
  BY EnsureMoves DEF Handlers, Handler
<1>6. /\ \A m \in Nodes \ {enr[r].n} : mem'.nodes[m] = mem.nodes[m]
      /\ mem.nodes[enr[r].n] # NoProj => mem'.nodes[enr[r].n] = mem.nodes[enr[r].n]
  BY EnsureMoves
<1>7. /\ enr[r].pc = "ensure" /\ enr[r].n \in Nodes
      /\ mem' \in MemRec /\ mem'.up = mem.up /\ mem'.lock = mem.lock
      /\ mem'.unmarked = mem.unmarked /\ UNCHANGED <<db, adm, ag, ses, quar, given>>
  BY EnsureMoves
<1> QED
  BY <1>2, <1>3, <1>4, <1>5, <1>6, <1>7

\* The answer is taken by the join command that still waits for it.
LEMMA ReplyEffect ==
  ASSUME Typed, Handlers, Joins, NEW r \in Reqs, Reply(r)
  PROVE  /\ enr[r].pc = "reply" /\ UNCHANGED <<db, mem, adm, ses, quar, given>>
         /\ OnlyEnr(r) /\ enr'[r] = Free /\ enr'[r].pc = "idle" /\ enr'[r].a = 0
         /\ \/ \E a \in Agents :
                 /\ OnlyAg(a) /\ ag'[a].key = ag[a].key /\ enr[r].k = ag[a].key
                 /\ ag'[a].node = enr[r].n
                 /\ ag'[a].pc = IF enr[r].n = 0 THEN "idle" ELSE "config"
            \/ ag' = ag
<1>1. /\ enr[r].pc = "reply" /\ UNCHANGED <<db, mem, adm, ses, quar, given>>
      /\ OnlyEnr(r) /\ enr'[r] = Free /\ enr'[r].pc = "idle" /\ enr'[r].a = 0
  BY ReplyMoves, FreeFields, FunOf DEF OnlyEnr
<1>2. CASE ag' # ag
  <2>1. PICK a \in Agents : /\ a = enr[r].a /\ ag[a].pc = "wait" /\ ag[a].r = r
                            /\ ag' = [ag EXCEPT ![a] = Answered(ag[a], enr[r].n)]
    BY <1>2, ReplyMoves
  <2>2. ag[a] \in AgRec /\ enr[r].n \in {0} \cup Nodes
    BY AgOf, EnrOf
  <2>3. /\ Answered(ag[a], enr[r].n) \in AgRec /\ Answered(ag[a], enr[r].n).key = ag[a].key
        /\ Answered(ag[a], enr[r].n).node = enr[r].n
        /\ Answered(ag[a], enr[r].n).pc = IF enr[r].n = 0 THEN "idle" ELSE "config"
    BY <2>2, AnsweredFields
  <2>4. OnlyAg(a) /\ ag'[a] = Answered(ag[a], enr[r].n)
    BY <2>1, <2>3, FunOf DEF OnlyAg
  <2>5. enr[r].k = ag[a].key
    BY <2>1 DEF Joins, Joining
  <2> QED
    BY <1>1, <2>3, <2>4, <2>5
<1> QED
  BY <1>1, <1>2

\* A failed enrollment is tried as a replay.
LEMMA ConsumeFailsEffect ==
  ASSUME Typed, NEW r \in Reqs, ConsumeFails(r)
  PROVE  /\ enr[r].pc = "consume" /\ KeptMem /\ mem'.lock = mem.lock
         /\ OnlyEnr(r) /\ enr'[r].a = enr[r].a /\ enr'[r].k = enr[r].k /\ enr'[r].c = enr[r].c
         /\ enr'[r].pc = "replay" /\ enr'[r].n = enr[r].n
         /\ UNCHANGED <<db, adm, ag, ses, quar, given>>
<1>1. enr[r] \in EnrRec /\ "replay" \in EnrPCs
  BY EnrOf DEF EnrPCs
<1>2. /\ enr[r].pc = "consume" /\ enr' = [enr EXCEPT ![r] = At(enr[r], "replay")]
      /\ mem' = Degraded(mem) /\ UNCHANGED <<db, adm, ag, ses, quar, given>>
  BY DEF ConsumeFails, To
<1>3. /\ At(enr[r], "replay") \in EnrRec /\ At(enr[r], "replay").pc = "replay"
      /\ At(enr[r], "replay").a = enr[r].a /\ At(enr[r], "replay").k = enr[r].k
      /\ At(enr[r], "replay").c = enr[r].c /\ At(enr[r], "replay").n = enr[r].n
  BY <1>1, AtEnrFields
<1>4. OnlyEnr(r) /\ enr'[r] = At(enr[r], "replay")
  BY <1>2, <1>3, FunOf DEF OnlyEnr
<1>5. KeptMem /\ mem'.lock = mem.lock
  BY <1>2, MemOf, DegradedFields DEF KeptMem
<1> QED
  BY <1>2, <1>3, <1>4, <1>5

\* A session is served only while its node is not revoked.
LEMMA FinalizeEffect ==
  ASSUME Typed, NEW n \in Nodes, FinalizeEnrollment(n)
  PROVE  /\ ses[n] = "registered" /\ UNCHANGED <<mem, adm, enr, ag, quar, given>>
         /\ KeptRows /\ db'.toks = db.toks /\ \A c \in Codes : db'.replay[c] \in {0, db.replay[c]}
         /\ OnlySes(n)
         /\ \/ db.nodes[n].adm # "revoked" /\ ses'[n] = "serving"
            \/ ses'[n] = "none"
<1>1. KeptRows /\ db'.toks = db.toks /\ \A c \in Codes : db'.replay[c] \in {0, db.replay[c]}
  <2>1. CASE db' = db
    BY <2>1, SameDb DEF KeptCodes
  <2>2. CASE db' = Forget(db, n)
    <3>1. db \in DbRec
      BY DbOf
    <3>2. /\ db' \in DbRec /\ db'.nodes = db.nodes /\ db'.rev = db.rev /\ db'.tgts = db.tgts
          /\ db'.pol = db.pol /\ db'.toks = db.toks
          /\ \A c \in Codes : db'.replay[c] \in {0, db.replay[c]}
      BY <2>2, <3>1, ForgetFields
    <3> QED
      BY <3>2, SameRows
  <2> QED
    BY <2>1, <2>2, FinalizeMoves
<1>2. OnlySes(n) /\ (ses'[n] = "none" \/ (db.nodes[n].adm # "revoked" /\ ses'[n] = "serving"))
  <2>1. \/ ses' = [ses EXCEPT ![n] = "none"]
        \/ db.nodes[n].adm # "revoked" /\ ses' = [ses EXCEPT ![n] = "serving"]
    BY FinalizeMoves
  <2>2. ses \in [Nodes -> Steps] /\ "none" \in Steps /\ "serving" \in Steps
    BY FunOf DEF Steps
  <2>3. CASE ses' = [ses EXCEPT ![n] = "none"]
    BY <2>2, <2>3 DEF OnlySes
  <2>4. CASE db.nodes[n].adm # "revoked" /\ ses' = [ses EXCEPT ![n] = "serving"]
    BY <2>2, <2>4 DEF OnlySes
  <2> QED
    BY <2>1, <2>3, <2>4
<1> QED
  BY <1>1, <1>2, FinalizeMoves

\* A session breaks.
LEMMA BreakEffect ==
  ASSUME Typed, NEW n \in Nodes, BreakSession(n)
  PROVE  /\ OnlySes(n) /\ ses'[n] = "none" /\ UNCHANGED <<db, mem, adm, enr, ag, quar, given>>
  BY FunOf DEF BreakSession, Session, OnlySes, Steps

\* A quarantine changes the state of one enrolled node and no document.
LEMMA QuarantineEffect ==
  ASSUME Typed, Rows, Sessions, NEW n \in Nodes, QuarantineNode(n)
  PROVE  /\ ses[n] = "serving" /\ n \in Enrolled /\ db.nodes[n].adm # "revoked"
         /\ db' \in DbRec /\ db'.rev = db.rev /\ Document' = Document /\ Enrolled' = Enrolled
         /\ KeptCodes /\ \A m \in Nodes \ {n} : db'.nodes[m] = db.nodes[m]
         /\ db'.nodes[n].adm = "quarantined" /\ db'.nodes[n].cred = db.nodes[n].cred
         /\ db'.nodes[n].max = db.nodes[n].max /\ db'.nodes[n].key = db.nodes[n].key
         /\ db'.nodes[n].code = db.nodes[n].code
         /\ quar' = quar \cup {n} /\ UNCHANGED <<mem, adm, enr, ag, ses, given>>
<1>1. /\ ses[n] = "serving" /\ db.nodes[n].adm # "revoked" /\ db' = Quarantined(db, n)
      /\ quar' = quar \cup {n} /\ UNCHANGED <<mem, adm, enr, ag, ses, given>>
  BY DEF QuarantineNode
<1>2. n \in Enrolled
  BY <1>1 DEF Sessions
<1>3. db \in DbRec
  BY DbOf
<1>4. /\ db' \in DbRec /\ db'.rev = db.rev /\ db'.toks = db.toks /\ db'.replay = db.replay
      /\ db'.tgts = db.tgts /\ db'.pol = db.pol
      /\ \A m \in Nodes \ {n} : db'.nodes[m] = db.nodes[m]
      /\ db'.nodes[n].adm = "quarantined" /\ db'.nodes[n].cred = db.nodes[n].cred
      /\ db'.nodes[n].max = db.nodes[n].max /\ db'.nodes[n].key = db.nodes[n].key
      /\ db'.nodes[n].code = db.nodes[n].code
  BY <1>1, <1>3, QuarantinedFields
<1>5. db'.nodes[n] # NoNode
  BY <1>4, NoNodeFields
<1>6. Enrolled' = Enrolled
  BY <1>2, <1>4, <1>5 DEF Enrolled
<1>7. \A m \in Nodes : db'.nodes[m].max = db.nodes[m].max
  BY <1>4
<1>8. Document' = Document
  BY <1>4, <1>7 DEF Document
<1> QED
  BY <1>1, <1>2, <1>4, <1>6, <1>8 DEF KeptCodes

\* Its projection changes that node in memory.
LEMMA ProjectQuarantineEffect ==
  ASSUME Typed, NEW n \in Nodes, ProjectQuarantine(n)
  PROVE  /\ n \in quar /\ quar' = quar \ {n} /\ UNCHANGED <<db, adm, enr, ag, ses, given>>
         /\ mem' \in MemRec /\ mem'.up = mem.up /\ mem'.healthy = mem.healthy
         /\ mem'.unmarked = mem.unmarked
         /\ mem'.lock = mem.lock /\ \A m \in Nodes \ {n} : mem'.nodes[m] = mem.nodes[m]
         /\ mem'.nodes[n].cred = mem.nodes[n].cred /\ mem'.nodes[n].max = mem.nodes[n].max
         /\ mem.nodes[n] = NoProj => mem'.nodes[n] = NoProj
         /\ mem.nodes[n] # NoProj => mem'.nodes[n].adm = "quarantined" /\ mem'.nodes[n] # NoProj
<1>1. "quarantined" \in States /\ mem \in MemRec
  BY MemOf DEF States
<1>2. /\ Standing(mem, n, "quarantined") \in MemRec
      /\ Standing(mem, n, "quarantined").up = mem.up
      /\ Standing(mem, n, "quarantined").healthy = mem.healthy
      /\ Standing(mem, n, "quarantined").lock = mem.lock
      /\ Standing(mem, n, "quarantined").unmarked = mem.unmarked
      /\ \A m \in Nodes \ {n} : Standing(mem, n, "quarantined").nodes[m] = mem.nodes[m]
      /\ Standing(mem, n, "quarantined").nodes[n].adm = "quarantined"
      /\ Standing(mem, n, "quarantined").nodes[n].cred = mem.nodes[n].cred
      /\ Standing(mem, n, "quarantined").nodes[n].max = mem.nodes[n].max
  BY <1>1, StandingFields
<1>3. Standing(mem, n, "quarantined").nodes[n] # NoProj
  BY <1>2, NoProjFields
<1>4. /\ n \in quar /\ quar' = quar \ {n} /\ UNCHANGED <<db, adm, enr, ag, ses, given>>
      /\ mem' = IF mem.nodes[n] = NoProj THEN mem ELSE Standing(mem, n, "quarantined")
  BY DEF ProjectQuarantine
<1> QED
  BY <1>1, <1>2, <1>3, <1>4

\* A document is read with its revision.
LEMMA ReadEffect ==
  ASSUME Typed, NEW a \in Admins, ReadConfiguration(a)
  PROVE  /\ mem.up /\ adm[a].pc \in {"idle", "read"} /\ OnlyAdm(a) /\ adm'[a].pc = "read"
         /\ adm'[a].rev = db.rev /\ adm'[a].base = Document
         /\ UNCHANGED <<db, mem, enr, ag, ses, quar, given>>
<1>1. /\ mem.up /\ adm[a].pc \in {"idle", "read"}
      /\ adm' = [adm EXCEPT ![a] = Reading(db.rev, Document)]
      /\ UNCHANGED <<db, mem, enr, ag, ses, quar, given>>
  BY DEF ReadConfiguration
<1>2. db.rev \in Nat /\ Document \in DocRec
  BY DbOf, DocumentFields
<1>3. /\ Reading(db.rev, Document) \in AdmRec /\ Reading(db.rev, Document).pc = "read"
      /\ Reading(db.rev, Document).rev = db.rev /\ Reading(db.rev, Document).base = Document
  BY <1>2, ReadingFields
<1> QED
  BY <1>1, <1>3, FunOf DEF OnlyAdm

\* A mutation begins under mutationMu, or is refused.
LEMMA BeginEffect ==
  ASSUME Typed, NEW a \in Admins,
         ApplyConfiguration(a) \/ \E n \in Enrolled : SetNodeState(a, n)
  PROVE  /\ mem.up /\ adm[a].pc = "read" /\ mem.lock = 0
         /\ KeptMem /\ UNCHANGED <<db, enr, ag, ses, quar, given>>
         /\ \/ /\ mem'.lock = a /\ OnlyAdm(a) /\ adm'[a].pc = "snap" /\ adm'[a].rev = adm[a].rev
               /\ adm'[a].base = adm[a].base /\ adm'[a].op # "none"
               /\ adm'[a].op # "apply" => adm'[a].n \in Enrolled
            \/ mem'.lock = mem.lock /\ Ends(a)
<1>1. /\ mem.up /\ adm[a].pc = "read" /\ mem.lock = 0 /\ UNCHANGED <<db, enr, ag, ses, quar, given>>
  BY ApplyMoves, SetMoves
<1>2. CASE Finish(a) /\ mem' = mem
  BY <1>1, <1>2, SameMem, EndsMutation
<1>3. ASSUME NEW op \in Mutations \ {"none"}, NEW n \in {0} \cup Nodes, NEW doc \in DocRec,
             op # "apply" => n \in Enrolled, mem' = Locked(mem, a),
             adm' = [adm EXCEPT ![a] = Begun(adm[a], op, n, doc)]
      PROVE  /\ KeptMem /\ mem'.lock = a /\ OnlyAdm(a) /\ adm'[a].pc = "snap"
             /\ adm'[a].rev = adm[a].rev /\ adm'[a].base = adm[a].base /\ adm'[a].op # "none"
             /\ adm'[a].op # "apply" => adm'[a].n \in Enrolled
  <2>1. adm[a] \in AdmRec /\ mem \in MemRec
    BY AdmOf, MemOf
  <2>2. /\ Begun(adm[a], op, n, doc) \in AdmRec /\ Begun(adm[a], op, n, doc).pc = "snap"
        /\ Begun(adm[a], op, n, doc).op = op /\ Begun(adm[a], op, n, doc).n = n
        /\ Begun(adm[a], op, n, doc).rev = adm[a].rev
        /\ Begun(adm[a], op, n, doc).base = adm[a].base
    BY <2>1, BegunFields
  <2>3. OnlyAdm(a) /\ adm'[a] = Begun(adm[a], op, n, doc)
    BY <1>3, <2>2, FunOf DEF OnlyAdm
  <2>4. KeptMem /\ mem'.lock = a
    BY <1>3, <2>1, LockedFields DEF KeptMem
  <2> QED
    BY <1>3, <2>2, <2>3, <2>4
<1>4. CASE ApplyConfiguration(a) /\ ~(Finish(a) /\ mem' = mem)
  <2>1. PICK doc \in DocRec : /\ mem' = Locked(mem, a)
                              /\ adm' = [adm EXCEPT ![a] = Begun(adm[a], "apply", 0, doc)]
    BY <1>4, ApplyMoves
  <2>2. "apply" \in Mutations \ {"none"}
    BY DEF Mutations
  <2> QED
    BY <1>1, <1>3, <2>1, <2>2
<1>5. CASE (\E n \in Enrolled : SetNodeState(a, n)) /\ ~(Finish(a) /\ mem' = mem)
  <2>1. PICK n \in Enrolled : SetNodeState(a, n)
    BY <1>5
  <2>2. PICK op \in {"active", "draining", "revoked"} :
           /\ mem' = Locked(mem, a)
           /\ adm' = [adm EXCEPT ![a] = Begun(adm[a], op, n, adm[a].doc)]
    BY <1>5, <2>1, SetMoves
  <2>3. op \in Mutations \ {"none"} /\ n \in {0} \cup Nodes /\ adm[a].doc \in DocRec
    BY AdmOf, EnrolledNodes DEF Mutations
  <2> QED
    BY <1>1, <1>3, <2>2, <2>3
<1> QED
  BY <1>2, <1>4, <1>5

\* The snapshot has every enrolled node as its row is.
LEMMA SnapshotEffect ==
  ASSUME Typed, NEW a \in Admins, ReadSnapshot(a)
  PROVE  /\ adm[a].pc = "snap" /\ Goes(a, "ensure")
         /\ \A n \in Enrolled : /\ adm'[a].top[n].adm = db.nodes[n].adm
                                /\ adm'[a].top[n].cred = db.nodes[n].cred
                                /\ adm'[a].top[n].max = db.nodes[n].max
         /\ \A n \in Nodes \ Enrolled : adm'[a].top[n] = NoProj
         /\ UNCHANGED <<db, mem, enr, ag, ses, quar, given>>
<1>1. /\ adm[a].pc = "snap" /\ adm' = [adm EXCEPT ![a] = Snapped(adm[a], Restored)]
      /\ UNCHANGED <<db, mem, enr, ag, ses, quar, given>>
  BY DEF ReadSnapshot
<1>2. /\ Restored \in [Nodes -> ProjRec]
      /\ \A n \in Nodes : Restored[n] = IF n \in Enrolled THEN Topology(n) ELSE NoProj
  BY DbOf, RestoredFields
<1>3. adm[a] \in AdmRec
  BY AdmOf
<1>4. LET q == Snapped(adm[a], Restored) IN
      /\ q \in AdmRec /\ q.pc = "ensure" /\ q.op = adm[a].op /\ q.rev = adm[a].rev
      /\ q.base = adm[a].base /\ q.doc = adm[a].doc /\ q.n = adm[a].n /\ q.top = Restored
  BY <1>2, <1>3, SnappedFields
<1>5. OnlyAdm(a) /\ adm'[a] = Snapped(adm[a], Restored)
  BY <1>1, <1>4, FunOf DEF OnlyAdm
<1>6. Goes(a, "ensure") /\ adm'[a].top = Restored
  BY <1>4, <1>5 DEF Goes
<1> QED
  BY <1>1, <1>2, <1>6, DbOf, EnrolledNodes, TopologyFields

\* The snapshot adds nodes that memory does not know, and changes none that it knows.
LEMMA DurableEffect ==
  ASSUME Typed, NEW a \in Admins, EnsureDurableNodeProjection(a)
  PROVE  /\ adm[a].pc = "ensure" /\ UNCHANGED <<db, enr, ag, ses, quar, given>>
         /\ mem' \in MemRec /\ mem'.up = mem.up /\ mem'.unmarked = mem.unmarked
         /\ \A n \in Nodes : /\ mem'.nodes[n] \in {mem.nodes[n], adm[a].top[n]}
                             /\ mem.nodes[n] # NoProj => mem'.nodes[n] = mem.nodes[n]
         /\ \/ /\ \A n \in Nodes : mem.nodes[n] = NoProj => mem'.nodes[n] = adm[a].top[n]
               /\ mem'.healthy = mem.healthy /\ mem'.lock = mem.lock
               /\ \E pc \in {"enter", "verify"} : Goes(a, pc)
            \/ ~mem'.healthy /\ mem'.lock = 0 /\ Ends(a)
<1>1. adm[a] \in AdmRec
  BY AdmOf
<1>2. ASSUME NEW pc \in {"enter", "verify"}, adm' = [adm EXCEPT ![a] = Ensured(adm[a], pc)]
      PROVE  Goes(a, pc)
  <2>1. pc \in AdmPCs
    BY DEF AdmPCs
  <2>2. LET q == Ensured(adm[a], pc) IN
        /\ q \in AdmRec /\ q.pc = pc /\ q.op = adm[a].op /\ q.rev = adm[a].rev
        /\ q.base = adm[a].base /\ q.doc = adm[a].doc /\ q.n = adm[a].n
    BY <1>1, <2>1, EnsuredFields
  <2>3. OnlyAdm(a) /\ adm'[a] = Ensured(adm[a], pc)
    BY <1>2, <2>2, FunOf DEF OnlyAdm
  <2> QED
    BY <2>2, <2>3 DEF Goes
<1>3. CASE Finish(a)
  BY <1>2, <1>3, DurableMoves, EndsMutation
<1>4. CASE ~Finish(a)
  <2>1. \E pc \in {"enter", "verify"} : Goes(a, pc)
    BY <1>2, <1>4, DurableMoves
  <2> QED
    BY <1>4, <2>1, DurableMoves
<1> QED
  BY <1>3, <1>4

\* The store's entry check changes no row.
LEMMA EnterEffect ==
  ASSUME Typed, NEW a \in Admins, EnterStore(a)
  PROVE  /\ adm[a].pc = "enter" /\ KeptRows /\ KeptCodes /\ KeptMem
         /\ UNCHANGED <<enr, ag, ses, quar, given>>
         /\ \/ Goes(a, "commit") /\ mem'.lock = mem.lock
            \/ Ends(a) /\ mem'.lock = 0
<1>1. CASE UNCHANGED <<db, mem>> /\ adm' = [adm EXCEPT ![a] = At(adm[a], "commit")]
  <2>1. "commit" \in AdmPCs
    BY DEF AdmPCs
  <2>2. Goes(a, "commit") /\ KeptRows /\ KeptCodes /\ KeptMem /\ mem'.lock = mem.lock
    BY <1>1, <2>1, SameDb, SameMem, GoesOn
  <2> QED
    BY <2>2, EnterMoves
<1>2. CASE db' = Ambiguous(db, adm[a].t) /\ mem' = Unlocked(mem) /\ Finish(a)
  <2>1. KeptMem /\ mem'.lock = 0
    BY <1>2, MemOf, UnlockedFields DEF KeptMem
  <2> QED
    BY <1>2, <2>1, EnterMoves, MarkedDb, EndsMutation
<1> QED
  BY <1>1, <1>2, EnterMoves

\* The steps of a mutation before and after its commit that change no row of a document.
Passes(a) ==
    \/ EnterStore(a) \/ BeginProvisioning(a) \/ Provision(a)
    \/ MarkCommitted(a) \/ MarkFails(a)

\* The write of an intent leaves rows and codes alone.
LEMMA IntentDb ==
  ASSUME Typed, NEW t \in {0} \cup Targets, NEW i \in Intents, db' = IntentSet(db, t, i)
  PROVE  KeptRows /\ KeptCodes
<1>1. /\ db' \in DbRec /\ db'.nodes = db.nodes /\ db'.rev = db.rev /\ db'.tgts = db.tgts
      /\ db'.pol = db.pol /\ db'.toks = db.toks /\ db'.replay = db.replay
  BY DbOf, IntentFields
<1> QED
  BY <1>1, SameRows DEF KeptCodes

\* Provisioning and the mark write the intent of the Target; a mark that fails ends the
\* mutation and is remembered.
LEMMA PassEffect ==
  ASSUME Typed, NEW a \in Admins, Passes(a)
  PROVE  /\ adm[a].pc \in {"verify", "provision", "enter", "mark"}
         /\ KeptRows /\ KeptCodes /\ KeptMem /\ UNCHANGED <<enr, ag, ses, quar, given>>
         /\ \/ /\ mem'.lock = mem.lock
               /\ \E pc \in {"provision", "enter", "commit", "project"} :
                    Goes(a, pc) /\ (pc = "project" <=> adm[a].pc = "mark")
            \/ Ends(a) /\ mem'.lock = 0 /\ (adm[a].pc = "mark" => mem'.unmarked)
<1> DEFINE t == adm[a].t
<1>1. /\ t \in {0} \cup Targets /\ adm[a].doc \in DocRec /\ adm[a] \in AdmRec
  BY AdmOf
<1>2. /\ {"provision", "enter", "commit", "project"} \subseteq AdmPCs
      /\ {"creating", "ready", "committed", "rolled_back", "ambiguous"} \subseteq Intents
  BY DEF AdmPCs, Intents
<1>3. CASE EnterStore(a)
  BY <1>3, EnterEffect
<1>4. CASE BeginProvisioning(a)
  <2>1. PICK u \in NewTargets(a) :
           /\ adm[a].pc = "verify" /\ db' = IntentSet(db, u, "creating")
           /\ adm' = [adm EXCEPT ![a] = [adm[a] EXCEPT !.pc = "provision", !.t = u]]
           /\ UNCHANGED <<mem, enr, ag, ses, quar, given>>
    BY <1>4 DEF BeginProvisioning, IntentSet
  <2>2. u \in Targets
    BY <1>1 DEF NewTargets, DocRec
  <2> DEFINE q == [adm[a] EXCEPT !.pc = "provision", !.t = u]
  <2>3. /\ q \in AdmRec /\ q.pc = "provision" /\ q.op = adm[a].op /\ q.rev = adm[a].rev
        /\ q.base = adm[a].base /\ q.doc = adm[a].doc /\ q.n = adm[a].n
    BY <1>1, <2>2 DEF AdmRec, AdmPCs
  <2>4. adm' = [adm EXCEPT ![a] = q]
    BY <2>1
  <2> HIDE DEF q
  <2>5. Goes(a, "provision")
    BY <2>3, <2>4, FunOf DEF Goes, OnlyAdm
  <2> QED
    BY <1>2, <2>1, <2>2, <2>5, IntentDb, SameMem
<1>5. CASE Provision(a)
  <2>1. adm[a].pc = "provision" /\ UNCHANGED <<enr, ag, ses, quar, given>>
    BY <1>5 DEF Provision
  <2>2. CASE \E i \in {"rolled_back", "ambiguous"} : ProvisioningFailed(a, i)
    <3>1. PICK i \in {"rolled_back", "ambiguous"} : ProvisioningFailed(a, i)
      BY <2>2
    <3>2. db' = IntentSet(db, t, i) /\ mem' = Unlocked(mem) /\ Finish(a)
      BY <3>1 DEF ProvisioningFailed, IntentSet
    <3>3. KeptMem /\ mem'.lock = 0
      BY <3>2, MemOf, UnlockedFields DEF KeptMem
    <3> HIDE DEF t
    <3>4. i \in Intents
      BY <1>2
    <3>5. KeptRows /\ KeptCodes
      BY <1>1, <3>2, <3>4, IntentDb
    <3> QED
      BY <2>1, <3>2, <3>3, <3>5, EndsMutation
  <2>3. CASE /\ db' = IntentSet(db, t, "ready") /\ mem' = mem
             /\ adm' = [adm EXCEPT ![a] = At(adm[a], "enter")]
    <3> HIDE DEF t
    <3>1. KeptRows /\ KeptCodes
      BY <1>1, <1>2, <2>3, IntentDb
    <3>2. Goes(a, "enter") /\ KeptMem /\ mem'.lock = mem.lock
      BY <1>2, <2>3, GoesOn, SameMem
    <3> QED
      BY <2>1, <3>1, <3>2
  <2> QED
    BY <1>5, <2>2, <2>3 DEF Provision, IntentSet, Goto
<1>6. CASE MarkCommitted(a)
  <2>1. /\ adm[a].pc = "mark" /\ db' = IntentSet(db, t, "committed")
        /\ adm' = [adm EXCEPT ![a] = At(adm[a], "project")]
        /\ UNCHANGED <<mem, enr, ag, ses, quar, given>>
    BY <1>6 DEF MarkCommitted, IntentSet, Goto
  <2> HIDE DEF t
  <2>2. KeptRows /\ KeptCodes
    BY <1>1, <1>2, <2>1, IntentDb
  <2>3. Goes(a, "project") /\ KeptMem /\ mem'.lock = mem.lock
    BY <1>2, <2>1, GoesOn, SameMem
  <2> QED
    BY <2>1, <2>2, <2>3
<1>7. CASE MarkFails(a)
  <2>1. PICK i \in {"ready", "ambiguous"} : db' = IntentSet(db, t, i)
    BY <1>7 DEF MarkFails, IntentSet
  <2>2. /\ adm[a].pc = "mark" /\ mem' = Unmarked(Unlocked(mem)) /\ Finish(a)
        /\ UNCHANGED <<enr, ag, ses, quar, given>>
    BY <1>7 DEF MarkFails
  <2> HIDE DEF t
  <2>3. i \in Intents
    BY <1>2
  <2>4. KeptRows /\ KeptCodes
    BY <1>1, <2>1, <2>3, IntentDb
  <2>5. KeptMem /\ mem'.lock = 0 /\ mem'.unmarked
    BY <2>2, MemOf, UnlockedFields, UnmarkedFields DEF KeptMem
  <2> QED
    BY <2>2, <2>4, <2>5, EndsMutation
<1> QED
  BY <1>3, <1>4, <1>5, <1>6, <1>7 DEF Passes

\* A commit is refused, or replaces the document or the state of one node and advances the
\* revision.
LEMMA CommitEffect ==
  ASSUME Typed, Rows, Requests, NEW a \in Admins, CommitMutation(a)
  PROVE  /\ adm[a].pc = "commit" /\ KeptMem /\ UNCHANGED <<enr, ag, ses, quar, given>>
         /\ \/ KeptRows /\ KeptCodes /\ mem'.lock = 0 /\ Ends(a)
            \/ /\ mem.audit /\ adm[a].rev = db.rev /\ mem'.lock = mem.lock /\ adm[a].op = "apply"
               /\ \A n \in Nodes : (adm[a].doc.max[n] # 0) <=> (n \in Enrolled)
               /\ \E pc \in {"mark", "project"} : Goes(a, pc)
               /\ db' \in DbRec /\ db'.rev = db.rev + 1 /\ KeptCodes /\ Enrolled' = Enrolled
               /\ \A n \in Nodes : /\ db'.nodes[n].max = adm[a].doc.max[n]
                                   /\ db'.nodes[n].adm = db.nodes[n].adm
                                   /\ db'.nodes[n].cred = db.nodes[n].cred
                                   /\ db'.nodes[n].key = db.nodes[n].key
                                   /\ db'.nodes[n].code = db.nodes[n].code
            \/ \E n \in Enrolled, op \in {"active", "draining", "revoked"} :
                 /\ mem.audit /\ adm[a].rev = db.rev /\ mem'.lock = mem.lock
                 /\ n = adm[a].n /\ op = adm[a].op /\ db.nodes[n].adm # "revoked"
                 /\ op = "active" => db.nodes[n].adm = "draining"
                 /\ op = "draining" => db.nodes[n].adm = "active"
                 /\ op = "revoked" => Goes(a, "notify")
                 /\ op # "revoked" => Goes(a, "project")
                 /\ db' \in DbRec /\ db'.rev = db.rev + 1 /\ db'.toks = db.toks
                 /\ Enrolled' = Enrolled /\ \A c \in Codes : db'.replay[c] \in {0, db.replay[c]}
                 /\ \A m \in Nodes \ {n} : db'.nodes[m] = db.nodes[m]
                 /\ db'.nodes[n].adm = op
                 /\ db'.nodes[n].cred = IF op = "revoked" THEN 2 ELSE 1
                 /\ db'.nodes[n].max = db.nodes[n].max /\ db'.nodes[n].key = db.nodes[n].key
                 /\ db'.nodes[n].code = db.nodes[n].code
<1>1. adm[a].pc = "commit" /\ UNCHANGED <<enr, ag, ses, quar, given>>
  BY CommitMoves
<1>2. "mark" \in AdmPCs /\ "project" \in AdmPCs /\ "notify" \in AdmPCs
  BY DEF AdmPCs
<1>3. CASE db' = Ambiguous(db, adm[a].t) /\ mem' = Unlocked(mem) /\ Finish(a)
  <2>1. KeptMem /\ mem'.lock = 0
    BY <1>3, MemOf, UnlockedFields DEF KeptMem
  <2> QED
    BY <1>1, <1>3, <2>1, MarkedDb, EndsMutation
<1>4. ASSUME mem.audit, adm[a].rev = db.rev, mem' = mem, adm[a].op = "apply",
             \A n \in Nodes : (adm[a].doc.max[n] # 0) <=> (n \in Enrolled),
             db' = ReplaceConfiguration(db, adm[a].doc),
             \E pc \in {"mark", "project"} : adm' = [adm EXCEPT ![a] = At(adm[a], pc)]
      PROVE  /\ KeptMem /\ mem'.lock = mem.lock
             /\ \E pc \in {"mark", "project"} : Goes(a, pc)
             /\ db' \in DbRec /\ db'.rev = db.rev + 1 /\ KeptCodes /\ Enrolled' = Enrolled
             /\ \A n \in Nodes : /\ db'.nodes[n].max = adm[a].doc.max[n]
                                 /\ db'.nodes[n].adm = db.nodes[n].adm
                                 /\ db'.nodes[n].cred = db.nodes[n].cred
                                 /\ db'.nodes[n].key = db.nodes[n].key
                                 /\ db'.nodes[n].code = db.nodes[n].code
  <2>1. db \in DbRec /\ adm[a].doc \in DocRec
    BY DbOf, AdmOf
  <2>2. /\ db' \in DbRec /\ db'.rev = db.rev + 1 /\ db'.toks = db.toks /\ db'.replay = db.replay
        /\ \A n \in Nodes : /\ db'.nodes[n].max = adm[a].doc.max[n]
                            /\ db'.nodes[n].adm = db.nodes[n].adm
                            /\ db'.nodes[n].cred = db.nodes[n].cred
                            /\ db'.nodes[n].key = db.nodes[n].key
                            /\ db'.nodes[n].code = db.nodes[n].code
    BY <1>4, <2>1, ReplaceConfigurationFields
  <2>3. db'.nodes \in [Nodes -> RowRec]
    BY <2>2 DEF DbRec
  <2>4. ASSUME NEW n \in Enrolled PROVE db'.nodes[n] # NoNode
    BY <2>2, EnrolledNodes, NoNodeFields DEF Rows, Row
  <2>5. ASSUME NEW n \in Nodes \ Enrolled PROVE db'.nodes[n] = NoNode
    <3>1. db.nodes[n] = NoNode /\ adm[a].doc.max[n] = 0
      BY <1>4, <2>5 DEF Enrolled
    <3> QED
      BY <2>2, <2>3, <3>1, NoNodeFields, EmptyRow
  <2>6. Enrolled' = Enrolled
    BY <2>4, <2>5, EnrolledNodes DEF Enrolled
  <2>7. \E pc \in {"mark", "project"} : Goes(a, pc)
    BY <1>2, <1>4, GoesOn
  <2> QED
    BY <1>4, <2>2, <2>6, <2>7, SameMem DEF KeptCodes
<1>5. ASSUME NEW n \in Enrolled, NEW op \in {"active", "draining", "revoked"},
             mem.audit, adm[a].rev = db.rev, mem' = mem, n = adm[a].n, op = adm[a].op,
             db.nodes[n].adm # "revoked", db.nodes[n].cred = 1,
             db' = ReplaceNodeState(db, n, op),
             op = "revoked" => adm' = [adm EXCEPT ![a] = At(adm[a], "notify")],
             op # "revoked" => adm' = [adm EXCEPT ![a] = At(adm[a], "project")]
      PROVE  /\ KeptMem /\ mem'.lock = mem.lock
             /\ op = "revoked" => Goes(a, "notify")
             /\ op # "revoked" => Goes(a, "project")
             /\ db' \in DbRec /\ db'.rev = db.rev + 1 /\ db'.toks = db.toks
             /\ Enrolled' = Enrolled /\ \A c \in Codes : db'.replay[c] \in {0, db.replay[c]}
             /\ \A m \in Nodes \ {n} : db'.nodes[m] = db.nodes[m]
             /\ db'.nodes[n].adm = op
             /\ db'.nodes[n].cred = IF op = "revoked" THEN 2 ELSE 1
             /\ db'.nodes[n].max = db.nodes[n].max /\ db'.nodes[n].key = db.nodes[n].key
             /\ db'.nodes[n].code = db.nodes[n].code
  <2>1. db \in DbRec /\ n \in Nodes /\ db.nodes[n].cred \in 0..1
    BY <1>5, DbOf, EnrolledNodes
  <2>2. /\ db' \in DbRec /\ db'.rev = db.rev + 1 /\ db'.toks = db.toks
        /\ \A c \in Codes : db'.replay[c] \in {0, db.replay[c]}
        /\ \A m \in Nodes \ {n} : db'.nodes[m] = db.nodes[m]
        /\ db'.nodes[n].adm = op
        /\ db'.nodes[n].cred = IF op = "revoked" THEN db.nodes[n].cred + 1 ELSE db.nodes[n].cred
        /\ db'.nodes[n].max = db.nodes[n].max /\ db'.nodes[n].key = db.nodes[n].key
        /\ db'.nodes[n].code = db.nodes[n].code
    <3> DEFINE d == ReplaceNodeState(db, n, op)
    <3>1. /\ d \in DbRec /\ d.rev = db.rev + 1 /\ d.toks = db.toks
          /\ \A c \in Codes : d.replay[c] \in {0, db.replay[c]}
          /\ \A m \in Nodes \ {n} : d.nodes[m] = db.nodes[m]
          /\ d.nodes[n].adm = op
          /\ d.nodes[n].cred = IF op = "revoked" THEN db.nodes[n].cred + 1 ELSE db.nodes[n].cred
          /\ d.nodes[n].max = db.nodes[n].max /\ d.nodes[n].key = db.nodes[n].key
          /\ d.nodes[n].code = db.nodes[n].code
      BY <2>1, ReplaceNodeStateFields
    <3>2. db' = d
      BY <1>5
    <3> HIDE DEF d
    <3> QED
      BY <3>1, <3>2
  <2>3. db'.nodes[n] # NoNode
    BY <2>2, NoNodeFields
  <2>4. Enrolled' = Enrolled
    BY <2>2, <2>3 DEF Enrolled
  <2>5. /\ op = "revoked" => Goes(a, "notify")
        /\ op # "revoked" => Goes(a, "project")
    BY <1>2, <1>5, GoesOn
  <2>6. db'.nodes[n].cred = IF op = "revoked" THEN 2 ELSE 1
    <3>1. db.nodes[n].cred = 1
      BY <1>5
    <3>2. db'.nodes[n].cred = IF op = "revoked" THEN db.nodes[n].cred + 1 ELSE db.nodes[n].cred
      BY <2>2
    <3> QED
      BY <3>1, <3>2
  <2>7. KeptMem /\ mem'.lock = mem.lock
    BY <1>5, SameMem
  <2> QED
    BY <2>2, <2>4, <2>5, <2>6, <2>7
<1>6. CASE ~(db' = Ambiguous(db, adm[a].t) /\ mem' = Unlocked(mem) /\ Finish(a))
           /\ adm[a].op = "apply"
  <2>1. /\ mem.audit /\ adm[a].rev = db.rev /\ mem' = mem
        /\ \A n \in Nodes : (adm[a].doc.max[n] # 0) <=> (n \in Enrolled)
        /\ db' = ReplaceConfiguration(db, adm[a].doc)
        /\ \E pc \in {"mark", "project"} : adm' = [adm EXCEPT ![a] = At(adm[a], pc)]
    BY <1>6, CommitMoves
  <2> QED
    BY <1>1, <1>4, <1>6, <2>1
<1>7. CASE ~(db' = Ambiguous(db, adm[a].t) /\ mem' = Unlocked(mem) /\ Finish(a))
           /\ adm[a].op # "apply"
  <2>1. PICK n \in Enrolled, op \in {"active", "draining", "revoked"} :
          /\ mem.audit /\ adm[a].rev = db.rev /\ mem' = mem
          /\ n = adm[a].n /\ op = adm[a].op
          /\ db.nodes[n].adm # "revoked" /\ db.nodes[n].cred = 1
          /\ op = "active" => db.nodes[n].adm = "draining"
          /\ op = "draining" => db.nodes[n].adm = "active"
          /\ db' = ReplaceNodeState(db, n, op)
          /\ op = "revoked" => adm' = [adm EXCEPT ![a] = At(adm[a], "notify")]
          /\ op # "revoked" => adm' = [adm EXCEPT ![a] = At(adm[a], "project")]
    BY <1>7, CommitMoves
  <2> QED
    BY <1>1, <1>5, <2>1
<1> QED
  BY <1>3, <1>6, <1>7

\* A commit that fails changes no row.
LEMMA FailEffect ==
  ASSUME Typed, NEW a \in Admins, CommitFails(a)
  PROVE  /\ adm[a].pc = "commit" /\ KeptRows /\ KeptCodes /\ KeptMem /\ mem'.lock = 0 /\ Ends(a)
         /\ UNCHANGED <<enr, ag, ses, quar, given>>
  BY FailMoves, MarkedDb, EndsMutation DEF KeptMem

\* The revocation hook ends the registered session of its node.
LEMMA NotifyEffect ==
  ASSUME Typed, Requests, Pending, NEW a \in Admins, NotifyRevocation(a)
  PROVE  /\ adm[a].pc = "notify" /\ Goes(a, "project")
         /\ UNCHANGED <<db, mem, enr, ag, quar, given>>
         /\ \/ ses' = ses /\ ses[adm[a].n] = "checked"
            \/ /\ ses' \in [Nodes -> Steps] /\ \A n \in Nodes \ {adm[a].n} : ses'[n] = ses[n]
               /\ adm[a].n \in Nodes => ses'[adm[a].n] = "none"
<1>1. "project" \in AdmPCs
  BY DEF AdmPCs
<1>2. /\ adm[a].pc = "notify" /\ Goes(a, "project") /\ UNCHANGED <<db, mem, enr, ag, quar, given>>
  BY <1>1, NotifyMoves, GoesOn
<1>3. \/ ses' = ses /\ ses[adm[a].n] = "checked"
      \/ ses' = [ses EXCEPT ![adm[a].n] = "none"]
  BY NotifyMoves
<1> QED
  BY <1>2, <1>3, FunOf DEF Steps

\* A mutation is projected, or the projection is called unavailable.
LEMMA ProjectEffect ==
  ASSUME Typed, Requests, NEW a \in Admins, ProjectMutation(a)
  PROVE  /\ adm[a].pc = "project" /\ UNCHANGED <<db, enr, ag, ses, quar, given>> /\ Ends(a)
         /\ mem' \in MemRec /\ mem'.up = mem.up /\ mem'.lock = 0
         /\ mem'.unmarked = mem.unmarked
         /\ \/ /\ adm[a].op = "apply"
               /\ \A n \in Nodes : /\ mem'.nodes[n].adm = mem.nodes[n].adm
                                   /\ mem.nodes[n] = NoProj => mem'.nodes[n] = NoProj
               /\ mem'.healthy => /\ mem.healthy
                                  /\ \A n \in Nodes : mem'.nodes[n].max = adm[a].doc.max[n]
               /\ \/ mem'.nodes = mem.nodes
                  \/ \A n \in Nodes : mem.nodes[n] # NoProj => mem'.nodes[n].max # 0
            \/ \E n \in Enrolled, op \in {"active", "draining", "revoked"} :
                 /\ n = adm[a].n /\ op = adm[a].op
                 /\ \A m \in Nodes \ {n} : mem'.nodes[m] = mem.nodes[m]
                 /\ mem'.nodes[n].max = mem.nodes[n].max
                 /\ mem'.healthy => /\ mem.healthy /\ mem'.nodes[n].adm = op
                                    /\ ~SetRefused(mem.nodes[n].adm, op)
                 /\ \/ mem'.nodes = mem.nodes
                    \/ mem'.nodes[n].adm = op /\ mem.nodes[n].adm # "none"
<1>1. Finish(a) => Ends(a)
  BY EndsMutation
<1> QED
  BY <1>1, ProjectMoves

---------------------------------------------------------------------------
(* Types *)

\* Rows stay well typed.
LEMMA DbTyped ==
  ASSUME ManagementInv, ManagementNext
  PROVE  db' \in DbRec
<1> USE DEF ManagementInv
<1>1. ASSUME StartController PROVE db' \in DbRec
  BY <1>1, StartEffect, DbOf DEF KeptRows
<1>2. ASSUME NEW c \in Codes, CreateJoinCode(c) PROVE db' \in DbRec
  BY <1>2, CreateEffect, DbOf DEF KeptRows
<1>3. ASSUME NEW c \in Codes, CancelJoinCode(c) PROVE db' \in DbRec
  BY <1>3, CancelEffect, DbOf DEF KeptRows
<1>4. ASSUME NEW r \in Reqs, ConsumeEnrollment(r) PROVE db' \in DbRec
  BY <1>4, ConsumeEffect, DbOf
<1>5. ASSUME NEW n \in Nodes, FinalizeEnrollment(n) PROVE db' \in DbRec
  BY <1>5, FinalizeEffect, DbOf DEF KeptRows
<1>6. ASSUME NEW n \in Nodes, QuarantineNode(n) PROVE db' \in DbRec
  BY <1>6, QuarantineEffect, DbOf DEF KeptCodes
<1>7. ASSUME NEW a \in Admins, Passes(a) PROVE db' \in DbRec
  BY <1>7, PassEffect, DbOf DEF KeptRows, KeptCodes
<1>8. ASSUME NEW a \in Admins, CommitMutation(a) PROVE db' \in DbRec
  BY <1>8, CommitEffect, DbOf DEF KeptRows, KeptCodes
<1>9. ASSUME NEW a \in Admins, CommitFails(a) PROVE db' \in DbRec
  BY <1>9, FailEffect, DbOf DEF KeptRows, KeptCodes
<1>10. ASSUME UNCHANGED db PROVE db' \in DbRec
  BY <1>10, DbOf DEF Enrolled, Document
<1> QED
  BY <1>1, <1>2, <1>3, <1>4, <1>5, <1>6, <1>7, <1>8, <1>9, <1>10 DEF ManagementNext,
     AdminStep, Passes, EnrollStep, Crash, TokenAuditFails, JoinAgent, AbandonJoin, LoseConnection,
     ReinstallAgent, DialAgent, RegisterSession, ReplayEnrollment, ReadTopology, EnsureNode,
     Reply, ConsumeFails, BreakSession, ProjectQuarantine, ReadConfiguration,
     ApplyConfiguration, SetNodeState, Begin, ReadSnapshot, EnsureDurableNodeProjection,
     NotifyRevocation, ProjectMutation

\* So does the process.
LEMMA MemTyped ==
  ASSUME ManagementInv, ManagementNext
  PROVE  mem' \in MemRec
<1> USE DEF ManagementInv
<1>1. ASSUME StartController PROVE mem' \in MemRec
  BY <1>1, StartEffect, MemOf
<1>2. ASSUME Crash PROVE mem' \in MemRec
  BY <1>2, CrashEffect, MemOf
<1>3. ASSUME TokenAuditFails PROVE mem' \in MemRec
  BY <1>3, TokenAuditEffect, MemOf DEF KeptMem
<1>4. ASSUME NEW r \in Reqs, EnsureNode(r) PROVE mem' \in MemRec
  BY <1>4, EnsureEffect, MemOf
<1>5. ASSUME NEW r \in Reqs, ConsumeFails(r) PROVE mem' \in MemRec
  BY <1>5, ConsumeFailsEffect, MemOf DEF KeptMem
<1>6. ASSUME NEW n \in Nodes, ProjectQuarantine(n) PROVE mem' \in MemRec
  BY <1>6, ProjectQuarantineEffect, MemOf
<1>7. ASSUME NEW a \in Admins, ApplyConfiguration(a) \/ \E n \in Enrolled : SetNodeState(a, n)
        PROVE mem' \in MemRec
  BY <1>7, BeginEffect, MemOf DEF KeptMem
<1>8. ASSUME NEW a \in Admins, EnsureDurableNodeProjection(a) PROVE mem' \in MemRec
  BY <1>8, DurableEffect, MemOf
<1>9. ASSUME NEW a \in Admins, Passes(a) PROVE mem' \in MemRec
  BY <1>9, PassEffect, MemOf DEF KeptMem
<1>10. ASSUME NEW a \in Admins, CommitMutation(a) PROVE mem' \in MemRec
  BY <1>10, CommitEffect, MemOf DEF KeptMem
<1>11. ASSUME NEW a \in Admins, CommitFails(a) PROVE mem' \in MemRec
  BY <1>11, FailEffect, MemOf DEF KeptMem
<1>12. ASSUME NEW a \in Admins, ProjectMutation(a) PROVE mem' \in MemRec
  BY <1>12, ProjectEffect, MemOf
<1>13. ASSUME UNCHANGED mem PROVE mem' \in MemRec
  BY <1>13, MemOf DEF Enrolled, Document
<1> QED
  BY <1>1, <1>2, <1>3, <1>4, <1>5, <1>6, <1>7, <1>8, <1>9, <1>10, <1>11, <1>12, <1>13 DEF
     ManagementNext, AdminStep, Passes, EnrollStep, CreateJoinCode, CancelJoinCode, JoinAgent,
     AbandonJoin, LoseConnection, ReinstallAgent, DialAgent, RegisterSession,
     ConsumeEnrollment, ReplayEnrollment, ReadTopology, Reply, FinalizeEnrollment,
     BreakSession, QuarantineNode, ReadConfiguration, ReadSnapshot, NotifyRevocation

\* So do the requests of the administrators.
LEMMA AdmTyped ==
  ASSUME ManagementInv, ManagementNext
  PROVE  adm' \in [Admins -> AdmRec]
<1> USE DEF ManagementInv
<1>1. ASSUME Crash PROVE adm' \in [Admins -> AdmRec]
  BY <1>1, CrashEffect, FunOf
<1>2. ASSUME NEW a \in Admins, ReadConfiguration(a) PROVE adm' \in [Admins -> AdmRec]
  BY <1>2, ReadEffect, FunOf DEF OnlyAdm
<1>3. ASSUME NEW a \in Admins, ApplyConfiguration(a) \/ \E n \in Enrolled : SetNodeState(a, n)
        PROVE adm' \in [Admins -> AdmRec]
  BY <1>3, BeginEffect, FunOf DEF OnlyAdm, Ends
<1>4. ASSUME NEW a \in Admins, ReadSnapshot(a) PROVE adm' \in [Admins -> AdmRec]
  BY <1>4, SnapshotEffect, FunOf DEF Goes, OnlyAdm
<1>5. ASSUME NEW a \in Admins, EnsureDurableNodeProjection(a) PROVE adm' \in [Admins ->
        AdmRec]
  BY <1>5, DurableEffect, FunOf DEF Goes, Ends, OnlyAdm
<1>6. ASSUME NEW a \in Admins, Passes(a) PROVE adm' \in [Admins -> AdmRec]
  BY <1>6, PassEffect, FunOf DEF Goes, Ends, OnlyAdm
<1>7. ASSUME NEW a \in Admins, CommitMutation(a) PROVE adm' \in [Admins -> AdmRec]
  BY <1>7, CommitEffect, FunOf DEF Goes, Ends, OnlyAdm
<1>8. ASSUME NEW a \in Admins, CommitFails(a) PROVE adm' \in [Admins -> AdmRec]
  BY <1>8, FailEffect, FunOf DEF Ends, OnlyAdm
<1>9. ASSUME NEW a \in Admins, NotifyRevocation(a) PROVE adm' \in [Admins -> AdmRec]
  BY <1>9, NotifyEffect, FunOf DEF Goes, OnlyAdm
<1>10. ASSUME NEW a \in Admins, ProjectMutation(a) PROVE adm' \in [Admins -> AdmRec]
  BY <1>10, ProjectEffect, FunOf DEF Ends, OnlyAdm
<1>11. ASSUME UNCHANGED adm PROVE adm' \in [Admins -> AdmRec]
  BY <1>11, FunOf DEF Enrolled, Document
<1> QED
  BY <1>1, <1>2, <1>3, <1>4, <1>5, <1>6, <1>7, <1>8, <1>9, <1>10, <1>11 DEF ManagementNext,
     AdminStep, Passes, EnrollStep, StartController, TokenAuditFails, CreateJoinCode, CancelJoinCode,
     JoinAgent, AbandonJoin, LoseConnection, ReinstallAgent, DialAgent, RegisterSession,
     ConsumeEnrollment, ReplayEnrollment, ReadTopology, EnsureNode, Reply, ConsumeFails,
     FinalizeEnrollment, BreakSession, QuarantineNode, ProjectQuarantine

\* So do the enrollment requests.
LEMMA EnrTyped ==
  ASSUME ManagementInv, ManagementNext
  PROVE  enr' \in [Reqs -> EnrRec]
<1> USE DEF ManagementInv
<1>1. ASSUME Crash PROVE enr' \in [Reqs -> EnrRec]
  BY <1>1, CrashEffect, FunOf
<1>2. ASSUME NEW a \in Agents, NEW c \in Codes, JoinAgent(a, c) PROVE enr' \in [Reqs ->
        EnrRec]
  BY <1>2, JoinEffect, FunOf DEF OnlyEnr
<1>3. ASSUME NEW r \in Reqs, ConsumeEnrollment(r) PROVE enr' \in [Reqs -> EnrRec]
  BY <1>3, ConsumeEffect, FunOf DEF OnlyEnr
<1>4. ASSUME NEW r \in Reqs, ReplayEnrollment(r) PROVE enr' \in [Reqs -> EnrRec]
  BY <1>4, ReplayEffect, FunOf DEF OnlyEnr
<1>5. ASSUME NEW r \in Reqs, ReadTopology(r) PROVE enr' \in [Reqs -> EnrRec]
  BY <1>5, TopologyEffect, FunOf DEF OnlyEnr
<1>6. ASSUME NEW r \in Reqs, EnsureNode(r) PROVE enr' \in [Reqs -> EnrRec]
  BY <1>6, EnsureEffect, FunOf DEF OnlyEnr
<1>7. ASSUME NEW r \in Reqs, Reply(r) PROVE enr' \in [Reqs -> EnrRec]
  BY <1>7, ReplyEffect, FunOf DEF OnlyEnr
<1>8. ASSUME NEW r \in Reqs, ConsumeFails(r) PROVE enr' \in [Reqs -> EnrRec]
  BY <1>8, ConsumeFailsEffect, FunOf DEF OnlyEnr
<1>9. ASSUME UNCHANGED enr PROVE enr' \in [Reqs -> EnrRec]
  BY <1>9, FunOf DEF Enrolled, Document
<1> QED
  BY <1>1, <1>2, <1>3, <1>4, <1>5, <1>6, <1>7, <1>8, <1>9 DEF ManagementNext, AdminStep,
     EnrollStep, StartController, TokenAuditFails, CreateJoinCode, CancelJoinCode,
     AbandonJoin, LoseConnection, ReinstallAgent, DialAgent, RegisterSession,
     FinalizeEnrollment, BreakSession, QuarantineNode, ProjectQuarantine, ReadConfiguration,
     ApplyConfiguration, SetNodeState, Begin, ReadSnapshot, EnsureDurableNodeProjection,
     EnterStore, BeginProvisioning, Provision,
     ProvisioningFailed, MarkCommitted, MarkFails, CommitMutation, CommitFails, NotifyRevocation, ProjectMutation

\* So do the Agents.
LEMMA AgTyped ==
  ASSUME ManagementInv, ManagementNext
  PROVE  ag' \in [Agents -> AgRec]
<1> USE DEF ManagementInv
<1>1. ASSUME NEW a \in Agents, NEW c \in Codes, JoinAgent(a, c) PROVE ag' \in [Agents ->
        AgRec]
  BY <1>1, JoinEffect, FunOf DEF OnlyAg
<1>2. ASSUME NEW a \in Agents, AbandonJoin(a) \/ LoseConnection(a) \/ ReinstallAgent(a) PROVE
        ag' \in [Agents -> AgRec]
  BY <1>2, QuitEffect, FunOf DEF OnlyAg
<1>3. ASSUME NEW a \in Agents, RegisterSession(a) PROVE ag' \in [Agents -> AgRec]
  BY <1>3, RegisterEffect, FunOf DEF OnlyAg
<1>4. ASSUME NEW r \in Reqs, Reply(r) PROVE ag' \in [Agents -> AgRec]
  BY <1>4, ReplyEffect, FunOf DEF OnlyAg
<1>5. ASSUME UNCHANGED ag PROVE ag' \in [Agents -> AgRec]
  BY <1>5, FunOf DEF Enrolled, Document
<1> QED
  BY <1>1, <1>2, <1>3, <1>4, <1>5 DEF ManagementNext, AdminStep, EnrollStep, StartController,
     Crash, TokenAuditFails, CreateJoinCode, CancelJoinCode, DialAgent, ConsumeEnrollment,
     ReplayEnrollment, ReadTopology, EnsureNode, ConsumeFails, FinalizeEnrollment,
     BreakSession, QuarantineNode, ProjectQuarantine, ReadConfiguration, ApplyConfiguration,
     SetNodeState, Begin, ReadSnapshot, EnsureDurableNodeProjection,
     EnterStore, BeginProvisioning, Provision,
     ProvisioningFailed, MarkCommitted, MarkFails,
     CommitMutation, CommitFails, NotifyRevocation, ProjectMutation

\* So do sessions, quarantines and codes.
LEMMA RestTyped ==
  ASSUME ManagementInv, ManagementNext
  PROVE  ses' \in [Nodes -> Steps] /\ quar' \subseteq Nodes /\ given' \in GivenRec
<1> USE DEF ManagementInv
<1> DEFINE Goal == ses' \in [Nodes -> Steps] /\ quar' \subseteq Nodes /\ given' \in GivenRec
<1>1. ASSUME Crash PROVE Goal
  BY <1>1, CrashEffect, FunOf DEF Steps
<1>2. ASSUME NEW c \in Codes, CreateJoinCode(c) PROVE Goal
  BY <1>2, CreateEffect, FunOf
<1>3. ASSUME NEW c \in Codes, CancelJoinCode(c) PROVE Goal
  BY <1>3, CancelEffect, FunOf
<1>4. ASSUME NEW a \in Agents, DialAgent(a) PROVE Goal
  BY <1>4, DialEffect, FunOf DEF OnlySes
<1>5. ASSUME NEW a \in Agents, RegisterSession(a) PROVE Goal
  BY <1>5, RegisterEffect, FunOf DEF OnlySes
<1>6. ASSUME NEW n \in Nodes, FinalizeEnrollment(n) PROVE Goal
  BY <1>6, FinalizeEffect, FunOf DEF OnlySes
<1>7. ASSUME NEW n \in Nodes, BreakSession(n) PROVE Goal
  BY <1>7, BreakEffect, FunOf DEF OnlySes
<1>8. ASSUME NEW n \in Nodes, QuarantineNode(n) PROVE Goal
  BY <1>8, QuarantineEffect, FunOf
<1>9. ASSUME NEW n \in Nodes, ProjectQuarantine(n) PROVE Goal
  BY <1>9, ProjectQuarantineEffect, FunOf
<1>10. ASSUME NEW a \in Admins, NotifyRevocation(a) PROVE Goal
  BY <1>10, NotifyEffect, FunOf
<1>11. ASSUME UNCHANGED <<ses, quar, given>> PROVE Goal
  BY <1>11, FunOf DEF Enrolled, Document
<1> QED
  BY <1>1, <1>2, <1>3, <1>4, <1>5, <1>6, <1>7, <1>8, <1>9, <1>10, <1>11 DEF ManagementNext,
     AdminStep, EnrollStep, StartController, TokenAuditFails, JoinAgent, AbandonJoin,
     LoseConnection, ReinstallAgent, ConsumeEnrollment, ReplayEnrollment, ReadTopology,
     EnsureNode, Reply, ConsumeFails, ReadConfiguration, ApplyConfiguration, SetNodeState,
     Begin, ReadSnapshot, EnsureDurableNodeProjection,
     EnterStore, BeginProvisioning, Provision,
     ProvisioningFailed, MarkCommitted, MarkFails, CommitMutation,
     CommitFails, ProjectMutation

---------------------------------------------------------------------------
(* The invariant *)

\* Nodes stay, with their keys and codes, and memory forgets none while the process runs.
NodesKept == /\ Enrolled \subseteq Enrolled'
             /\ \A n \in Enrolled : /\ db'.nodes[n].key = db.nodes[n].key
                                    /\ db'.nodes[n].code = db.nodes[n].code
MemoryKept == /\ mem.up => mem'.up
              /\ \A n \in Nodes : mem.nodes[n] # NoProj => mem'.nodes[n] # NoProj

\* A code that made a node is one of the codes.
LEMMA CodeOf ==
  ASSUME ManagementInv, NEW n \in Enrolled
  PROVE  n \in Nodes /\ db.nodes[n].code \in Codes /\ Row(n)
<1>1. n \in Nodes /\ Row(n)
  BY EnrolledNodes DEF ManagementInv, Rows
<1> QED
  BY <1>1, RowOf DEF ManagementInv, Row

\* Nodes stay.
LEMMA NodesStay ==
  ASSUME ManagementInv, ManagementNext
  PROVE  NodesKept
<1> USE DEF ManagementInv
<1>1. ASSUME StartController PROVE NodesKept
  BY <1>1, StartEffect, EnrolledNodes DEF KeptRows, NodesKept
<1>2. ASSUME NEW c \in Codes, CreateJoinCode(c) PROVE NodesKept
  BY <1>2, CreateEffect, EnrolledNodes DEF KeptRows, NodesKept
<1>3. ASSUME NEW c \in Codes, CancelJoinCode(c) PROVE NodesKept
  BY <1>3, CancelEffect, EnrolledNodes DEF KeptRows, NodesKept
<1>4. ASSUME NEW r \in Reqs, ConsumeEnrollment(r) PROVE NodesKept
  <2>1. CASE db' = db
    BY <2>1 DEF NodesKept, Enrolled
  <2>2. CASE db' # db
    <3>1. PICK n \in Nodes : /\ n \notin Enrolled /\ Enrolled' = Enrolled \cup {n}
                             /\ \A m \in Nodes \ {n} : db'.nodes[m] = db.nodes[m]
      BY <1>4, <2>2, ConsumeEffect
    <3> QED
      BY <3>1, EnrolledNodes DEF NodesKept
  <2> QED
    BY <2>1, <2>2
<1>5. ASSUME NEW n \in Nodes, FinalizeEnrollment(n) PROVE NodesKept
  BY <1>5, FinalizeEffect, EnrolledNodes DEF KeptRows, NodesKept
<1>6. ASSUME NEW n \in Nodes, QuarantineNode(n) PROVE NodesKept
  BY <1>6, QuarantineEffect, EnrolledNodes DEF KeptCodes, NodesKept
<1>7. ASSUME NEW a \in Admins, Passes(a) PROVE NodesKept
  BY <1>7, PassEffect, EnrolledNodes DEF KeptRows, KeptCodes, NodesKept
<1>8. ASSUME NEW a \in Admins, CommitMutation(a) PROVE NodesKept
  BY <1>8, CommitEffect, EnrolledNodes DEF KeptRows, KeptCodes, NodesKept
<1>9. ASSUME NEW a \in Admins, CommitFails(a) PROVE NodesKept
  BY <1>9, FailEffect, EnrolledNodes DEF KeptRows, KeptCodes, NodesKept
<1>10. ASSUME UNCHANGED db PROVE NodesKept
  BY <1>10, EnrolledNodes DEF NodesKept, Enrolled, Document
<1> QED
  BY <1>1, <1>2, <1>3, <1>4, <1>5, <1>6, <1>7, <1>8, <1>9, <1>10 DEF ManagementNext,
     AdminStep, Passes, EnrollStep, Crash, TokenAuditFails, JoinAgent, AbandonJoin, LoseConnection,
     ReinstallAgent, DialAgent, RegisterSession, ReplayEnrollment, ReadTopology, EnsureNode,
     Reply, ConsumeFails, BreakSession, ProjectQuarantine, ReadConfiguration,
     ApplyConfiguration, SetNodeState, Begin, ReadSnapshot, EnsureDurableNodeProjection,
     NotifyRevocation, ProjectMutation

\* Memory keeps what it knows, unless the process dies.
LEMMA MemoryStays ==
  ASSUME ManagementInv, ManagementNext, ~Crash
  PROVE  MemoryKept
<1> USE DEF ManagementInv
<1>1. ASSUME StartController PROVE MemoryKept
  BY <1>1, StartEffect DEF MemoryKept, Unprojected
<1>2. ASSUME Crash PROVE MemoryKept
  BY <1>2
<1>3. ASSUME TokenAuditFails PROVE MemoryKept
  BY <1>3, TokenAuditEffect, MemOf DEF KeptMem, MemoryKept
<1>4. ASSUME NEW r \in Reqs, EnsureNode(r) PROVE MemoryKept
  BY <1>4, EnsureEffect DEF MemoryKept
<1>5. ASSUME NEW r \in Reqs, ConsumeFails(r) PROVE MemoryKept
  BY <1>5, ConsumeFailsEffect, MemOf DEF KeptMem, MemoryKept
<1>6. ASSUME NEW n \in Nodes, ProjectQuarantine(n) PROVE MemoryKept
  BY <1>6, ProjectQuarantineEffect, MemOf DEF MemoryKept
<1>7. ASSUME NEW a \in Admins, ApplyConfiguration(a) \/ \E n \in Enrolled : SetNodeState(a, n)
        PROVE MemoryKept
  BY <1>7, BeginEffect, MemOf DEF KeptMem, MemoryKept
<1>8. ASSUME NEW a \in Admins, EnsureDurableNodeProjection(a) PROVE MemoryKept
  BY <1>8, DurableEffect, MemOf DEF MemoryKept
<1>9. ASSUME NEW a \in Admins, Passes(a) PROVE MemoryKept
  BY <1>9, PassEffect, MemOf DEF KeptMem, MemoryKept
<1>10. ASSUME NEW a \in Admins, CommitMutation(a) PROVE MemoryKept
  BY <1>10, CommitEffect, MemOf DEF KeptMem, MemoryKept
<1>11. ASSUME NEW a \in Admins, CommitFails(a) PROVE MemoryKept
  BY <1>11, FailEffect, MemOf DEF KeptMem, MemoryKept
<1>12. ASSUME NEW a \in Admins, ProjectMutation(a) PROVE MemoryKept
  <2>1. adm[a].pc = "project" /\ mem'.up = mem.up
    BY <1>12, ProjectEffect
  <2>2. ASSUME NEW n \in Nodes, mem.nodes[n] # NoProj PROVE mem'.nodes[n] # NoProj
    <3>1. mem.nodes[n].adm # "none" /\ mem.nodes[n].max # 0
      BY <2>2 DEF Unprojected
    <3>2. mem'.nodes[n].max # 0
      BY <1>12, <2>2, <3>1, ProjectEffect
    <3> QED
      BY <3>2, NoProjFields
  <2> QED
    BY <2>1, <2>2 DEF MemoryKept
<1>13. ASSUME UNCHANGED mem PROVE MemoryKept
  BY <1>13, MemOf DEF MemoryKept, Enrolled, Document
<1> QED
  BY <1>1, <1>2, <1>3, <1>4, <1>5, <1>6, <1>7, <1>8, <1>9, <1>10, <1>11, <1>12, <1>13 DEF
     ManagementNext, AdminStep, Passes, EnrollStep, CreateJoinCode, CancelJoinCode, JoinAgent,
     AbandonJoin, LoseConnection, ReinstallAgent, DialAgent, RegisterSession,
     ConsumeEnrollment, ReplayEnrollment, ReadTopology, Reply, FinalizeEnrollment,
     BreakSession, QuarantineNode, ReadConfiguration, ReadSnapshot, NotifyRevocation

\* Every step preserves the rows.
LEMMA RowsStep ==
  ASSUME ManagementInv, ManagementNext
  PROVE  Rows'
<1> USE DEF ManagementInv
<1>1. ASSUME StartController PROVE Rows'
  BY <1>1, StartEffect, DbOf, EnrolledNodes DEF KeptRows, Rows, Row
<1>2. ASSUME NEW c \in Codes, CreateJoinCode(c) PROVE Rows'
  BY <1>2, CreateEffect, DbOf, EnrolledNodes DEF KeptRows, Rows, Row
<1>3. ASSUME NEW c \in Codes, CancelJoinCode(c) PROVE Rows'
  BY <1>3, CancelEffect, DbOf, EnrolledNodes DEF KeptRows, Rows, Row
<1>4. ASSUME NEW r \in Reqs, ConsumeEnrollment(r) PROVE Rows'
  <2>1. CASE db' = db
    BY <2>1 DEF Rows, Row, Enrolled
  <2>2. CASE db' # db
    <3>1. PICK n \in Nodes :
            /\ n \notin Enrolled /\ Enrolled \cup {n} = 1..n /\ Enrolled' = Enrolled \cup {n}
            /\ enr[r].c \in Codes /\ db'.replay[enr[r].c] = n
            /\ \A c \in Codes \ {enr[r].c} : db'.replay[c] = db.replay[c]
            /\ \A m \in Nodes \ {n} : db'.nodes[m] = db.nodes[m]
            /\ Fresh(db'.nodes[n]) /\ db'.nodes[n].code = enr[r].c
      BY <1>4, <2>2, ConsumeEffect
    <3>2. n \in Nat /\ Enrolled' = 1..n
      BY <3>1, NodesType
    <3>3. Row(n)'
      BY <3>1, ManagementConstants DEF Row, Fresh
    <3>4. ASSUME NEW m \in Enrolled PROVE Row(m)'
      BY <3>1, EnrolledNodes DEF Rows, Row
    <3>5. \A c \in Codes : db'.replay[c] # 0 => db'.replay[c] \in Enrolled'
      BY <3>1 DEF Rows
    <3> QED
      BY <3>1, <3>2, <3>3, <3>4, <3>5 DEF Rows
  <2> QED
    BY <2>1, <2>2
<1>5. ASSUME NEW n \in Nodes, FinalizeEnrollment(n) PROVE Rows'
  BY <1>5, FinalizeEffect, DbOf, EnrolledNodes DEF KeptRows, Rows, Row
<1>6. ASSUME NEW n \in Nodes, QuarantineNode(n) PROVE Rows'
  <2>1. /\ Enrolled' = Enrolled /\ db'.replay = db.replay /\ n \in Enrolled
        /\ \A m \in Nodes \ {n} : db'.nodes[m] = db.nodes[m]
        /\ db.nodes[n].adm # "revoked" /\ db'.nodes[n].adm = "quarantined"
        /\ db'.nodes[n].cred = db.nodes[n].cred /\ db'.nodes[n].max = db.nodes[n].max
        /\ db'.nodes[n].code = db.nodes[n].code
    BY <1>6, QuarantineEffect DEF KeptCodes
  <2>2. ASSUME NEW m \in Enrolled PROVE Row(m)'
    BY <2>1, EnrolledNodes DEF Rows, Row
  <2> QED
    BY <2>1, <2>2 DEF Rows
<1>7. ASSUME NEW a \in Admins, Passes(a) PROVE Rows'
  BY <1>7, PassEffect, DbOf, EnrolledNodes DEF KeptRows, KeptCodes, Rows, Row
<1>8. ASSUME NEW a \in Admins, CommitMutation(a) PROVE Rows'
  <2>1. CASE KeptRows /\ KeptCodes
    BY <2>1 DEF KeptRows, KeptCodes, Rows, Row
  <2>2. CASE ~(KeptRows /\ KeptCodes) /\ adm[a].op = "apply"
    <3>1. /\ \A n \in Nodes : (adm[a].doc.max[n] # 0) <=> (n \in Enrolled)
          /\ KeptCodes /\ Enrolled' = Enrolled
          /\ \A n \in Nodes : /\ db'.nodes[n].max = adm[a].doc.max[n]
                              /\ db'.nodes[n].adm = db.nodes[n].adm
                              /\ db'.nodes[n].cred = db.nodes[n].cred
                              /\ db'.nodes[n].code = db.nodes[n].code
      BY <1>8, <2>2, CommitEffect
    <3>2. ASSUME NEW n \in Enrolled PROVE Row(n)'
      BY <3>1, EnrolledNodes DEF Rows, Row
    <3> QED
      BY <3>1, <3>2 DEF Rows, KeptCodes
  <2>3. CASE ~(KeptRows /\ KeptCodes) /\ adm[a].op # "apply"
    <3>1. PICK n \in Enrolled, op \in {"active", "draining", "revoked"} :
            /\ Enrolled' = Enrolled /\ \A c \in Codes : db'.replay[c] \in {0, db.replay[c]}
            /\ \A m \in Nodes \ {n} : db'.nodes[m] = db.nodes[m]
            /\ db'.nodes[n].adm = op /\ db'.nodes[n].cred = IF op = "revoked" THEN 2 ELSE 1
            /\ db'.nodes[n].max = db.nodes[n].max /\ db'.nodes[n].code = db.nodes[n].code
      BY <1>8, <2>3, CommitEffect
    <3>2. ASSUME NEW m \in Enrolled PROVE Row(m)'
      BY <3>1, EnrolledNodes DEF Rows, Row
    <3> QED
      BY <3>1, <3>2 DEF Rows
  <2> QED
    BY <2>1, <2>2, <2>3
<1>9. ASSUME NEW a \in Admins, CommitFails(a) PROVE Rows'
  BY <1>9, FailEffect, DbOf, EnrolledNodes DEF KeptRows, KeptCodes, Rows, Row
<1>10. ASSUME UNCHANGED db PROVE Rows'
  BY <1>10 DEF Rows, Row, Enrolled
<1> QED
  BY <1>1, <1>2, <1>3, <1>4, <1>5, <1>6, <1>7, <1>8, <1>9, <1>10 DEF ManagementNext,
     AdminStep, Passes, EnrollStep, Crash, TokenAuditFails, JoinAgent, AbandonJoin, LoseConnection,
     ReinstallAgent, DialAgent, RegisterSession, ReplayEnrollment, ReadTopology, EnsureNode,
     Reply, ConsumeFails, BreakSession, ProjectQuarantine, ReadConfiguration,
     ApplyConfiguration, SetNodeState, Begin, ReadSnapshot, EnsureDurableNodeProjection,
     NotifyRevocation, ProjectMutation

\* Codes that are at most ended leave what they made.
LEMMA SpentStays ==
  ASSUME ManagementInv, Enrolled' = Enrolled,
         \A n \in Enrolled : db'.nodes[n].code = db.nodes[n].code,
         \A c \in Codes : db'.toks[c] \in {0, db.toks[c]}, given' = given
  PROVE  Spent'
<1>1. \A n \in Enrolled : db.nodes[n].code \in Codes
  BY CodeOf
<1> QED
  BY <1>1 DEF Spent, ManagementInv

\* Every step preserves Spent: a code makes one node.
LEMMA SpentStep ==
  ASSUME ManagementInv, ManagementNext
  PROVE  Spent'
<1> USE DEF ManagementInv
<1>1. ASSUME StartController PROVE Spent'
  BY <1>1, StartEffect, SpentStays, EnrolledNodes DEF KeptRows, KeptCodes
<1>2. ASSUME NEW c \in Codes, CreateJoinCode(c) PROVE Spent'
  <2>1. CASE given'.out = given.out /\ db'.toks = db.toks
    BY <1>2, <2>1, CreateEffect, CodeOf DEF KeptRows, Spent
  <2>2. CASE given'.out = given.out \cup {c} /\ \A d \in Codes \ {c} : db'.toks[d] = db.toks[d]
    <3>1. /\ c \notin given.out /\ given'.cancelled = given.cancelled
          /\ db'.nodes = db.nodes /\ Enrolled' = Enrolled
      BY <1>2, CreateEffect DEF KeptRows
    <3>2. \A n \in Enrolled : db.nodes[n].code \in Codes \ {c}
      BY <3>1, CodeOf DEF Spent
    <3>3. \A d \in Codes : db'.toks[d] # 0 => d \in given'.out /\ d \notin given'.cancelled
      BY <2>2, <3>1 DEF Spent
    <3>4. \A n \in Enrolled : /\ db.nodes[n].code \in given'.out \ given'.cancelled
                              /\ db'.toks[db.nodes[n].code] = 0
      BY <2>2, <3>1, <3>2 DEF Spent
    <3> QED
      BY <2>2, <3>1, <3>3, <3>4 DEF Spent
  <2> QED
    BY <1>2, <2>1, <2>2, CreateEffect
<1>3. ASSUME NEW c \in Codes, CancelJoinCode(c) PROVE Spent'
  <2>1. /\ c \in given.out /\ db.toks[c] # 0 /\ db'.toks[c] = 0
        /\ \A d \in Codes \ {c} : db'.toks[d] = db.toks[d]
        /\ given'.out = given.out /\ given'.cancelled = given.cancelled \cup {c}
        /\ db'.nodes = db.nodes /\ Enrolled' = Enrolled
    BY <1>3, CancelEffect DEF KeptRows
  <2>2. \A n \in Enrolled : db.nodes[n].code \in Codes \ {c}
    BY <2>1, CodeOf DEF Spent
  <2>3. \A d \in Codes : db'.toks[d] # 0 => d \in given'.out /\ d \notin given'.cancelled
    BY <2>1 DEF Spent
  <2>4. \A n \in Enrolled : /\ db.nodes[n].code \in given'.out \ given'.cancelled
                            /\ db'.toks[db.nodes[n].code] = 0
    BY <2>1, <2>2 DEF Spent
  <2> QED
    BY <2>1, <2>3, <2>4 DEF Spent
<1>4. ASSUME NEW r \in Reqs, ConsumeEnrollment(r) PROVE Spent'
  <2>1. CASE db' = db
    BY <1>4, <2>1, ConsumeEffect DEF Spent, Enrolled
  <2>2. CASE db' # db
    <3>1. PICK n \in Nodes :
            /\ n \notin Enrolled /\ Enrolled' = Enrolled \cup {n} /\ given' = given
            /\ enr[r].c \in Codes /\ db.toks[enr[r].c] # 0 /\ db'.toks[enr[r].c] = 0
            /\ \A c \in Codes \ {enr[r].c} : db'.toks[c] = db.toks[c]
            /\ \A m \in Nodes \ {n} : db'.nodes[m] = db.nodes[m]
            /\ db'.nodes[n].code = enr[r].c
      BY <1>4, <2>2, ConsumeEffect
    <3>2. \A m \in Enrolled : /\ m # n /\ db'.nodes[m].code = db.nodes[m].code
                              /\ db.nodes[m].code \in Codes \ {enr[r].c}
      BY <3>1, CodeOf DEF Spent
    <3>3. \A c \in Codes : db'.toks[c] # 0 => c \in given'.out /\ c \notin given'.cancelled
      BY <3>1 DEF Spent
    <3>4. \A m \in Enrolled' : /\ db'.nodes[m].code \in given'.out \ given'.cancelled
                               /\ db'.toks[db'.nodes[m].code] = 0
      BY <3>1, <3>2 DEF Spent
    <3>5. \A l, m \in Enrolled' : db'.nodes[l].code = db'.nodes[m].code => l = m
      BY <3>1, <3>2 DEF Spent
    <3> QED
      BY <3>1, <3>3, <3>4, <3>5 DEF Spent
  <2> QED
    BY <2>1, <2>2
<1>5. ASSUME NEW n \in Nodes, FinalizeEnrollment(n) PROVE Spent'
  BY <1>5, FinalizeEffect, SpentStays, EnrolledNodes DEF KeptRows, KeptCodes
<1>6. ASSUME NEW n \in Nodes, QuarantineNode(n) PROVE Spent'
  BY <1>6, QuarantineEffect, SpentStays, EnrolledNodes DEF KeptRows, KeptCodes
<1>7. ASSUME NEW a \in Admins, Passes(a) PROVE Spent'
  BY <1>7, PassEffect, SpentStays, EnrolledNodes DEF KeptRows, KeptCodes
<1>8. ASSUME NEW a \in Admins, CommitMutation(a) PROVE Spent'
  <2>1. Enrolled' = Enrolled /\ given' = given /\ db'.toks = db.toks
    BY <1>8, CommitEffect DEF KeptRows, KeptCodes
  <2>2. \A n \in Enrolled : db'.nodes[n].code = db.nodes[n].code
    BY <1>8, NodesStay DEF NodesKept
  <2> QED
    BY <2>1, <2>2, SpentStays
<1>9. ASSUME NEW a \in Admins, CommitFails(a) PROVE Spent'
  BY <1>9, FailEffect, SpentStays, EnrolledNodes DEF KeptRows, KeptCodes
<1>10. ASSUME UNCHANGED <<db, given>> PROVE Spent'
  BY <1>10 DEF Spent, Enrolled
<1> QED
  BY <1>1, <1>2, <1>3, <1>4, <1>5, <1>6, <1>7, <1>8, <1>9, <1>10 DEF ManagementNext,
     AdminStep, Passes, EnrollStep, Crash, TokenAuditFails, JoinAgent, AbandonJoin, LoseConnection,
     ReinstallAgent, DialAgent, RegisterSession, ReplayEnrollment, ReadTopology, EnsureNode,
     Reply, ConsumeFails, BreakSession, ProjectQuarantine, ReadConfiguration,
     ApplyConfiguration, SetNodeState, Begin, ReadSnapshot, EnsureDurableNodeProjection,
     NotifyRevocation, ProjectMutation

\* A handler that does nothing keeps its node.
LEMMA HandlerStays ==
  ASSUME NodesKept, MemoryKept, Typed, NEW r \in Reqs, Handler(r), enr'[r] = enr[r]
  PROVE  Handler(r)'
<1>1. enr[r].n \in {0} \cup Nodes
  BY EnrOf
<1> QED
  BY <1>1 DEF Handler, NodesKept, MemoryKept

\* Every step preserves what an enrollment request carries.
LEMMA HandlersStep ==
  ASSUME ManagementInv, ManagementNext
  PROVE  Handlers'
<1> USE DEF ManagementInv
<1>1. CASE Crash
  BY <1>1, CrashEffect DEF Handlers, Handler
<1>2. ASSUME ~Crash, NEW r \in Reqs, enr'[r] = enr[r] PROVE Handler(r)'
  BY <1>2, NodesStay, MemoryStays, HandlerStays DEF Handlers
<1>3. ASSUME NEW a \in Agents, NEW c \in Codes, JoinAgent(a, c), ~Crash PROVE Handlers'
  <2>1. PICK r \in Reqs : /\ enr'[r].pc \in {"consume", "replay"} /\ enr'[r].a = a
                          /\ enr'[r].c = c /\ OnlyEnr(r)
    BY <1>3, JoinEffect
  <2>2. Handler(r)'
    <3>1. mem.up /\ mem' = mem /\ a # 0 /\ c # 0
      BY <1>3, JoinEffect, ManagementConstants
    <3> QED
      BY <2>1, <3>1 DEF Handler
  <2> QED
    BY <1>3, <1>2, <2>1, <2>2 DEF Handlers, OnlyEnr
<1>4. ASSUME NEW r \in Reqs, ConsumeEnrollment(r), ~Crash PROVE Handlers'
  <2>1. /\ enr[r].pc = "consume" /\ mem' = mem /\ OnlyEnr(r)
        /\ enr'[r].a = enr[r].a /\ enr'[r].k = enr[r].k /\ enr'[r].c = enr[r].c
    BY <1>4, ConsumeEffect
  <2>2. \/ /\ enr'[r].pc = "read" /\ enr'[r].n \in Enrolled' /\ enr'[r].n # 0
           /\ db'.nodes[enr'[r].n].key = enr[r].k
        \/ enr'[r].pc = "replay"
    BY <1>4, ConsumeEffect, NodesType
  <2>3. Handler(r)'
    BY <2>1, <2>2 DEF Handlers, Handler
  <2> QED
    BY <1>4, <1>2, <2>1, <2>3 DEF Handlers, OnlyEnr
<1>5. ASSUME NEW r \in Reqs, ReplayEnrollment(r), ~Crash PROVE Handlers'
  <2>1. /\ enr[r].pc = "replay" /\ mem' = mem /\ db' = db /\ Enrolled' = Enrolled /\ OnlyEnr(r)
        /\ enr'[r].a = enr[r].a /\ enr'[r].k = enr[r].k /\ enr'[r].c = enr[r].c
    BY <1>5, ReplayEffect DEF Enrolled
  <2>2. \/ /\ enr'[r].pc = "read" /\ enr'[r].n \in Enrolled /\ enr'[r].n # 0
           /\ db.nodes[enr'[r].n].key = enr[r].k
        \/ enr'[r].pc = "reply" /\ enr'[r].n = 0
    BY <1>5, ReplayEffect
  <2>3. Handler(r)'
    BY <2>1, <2>2 DEF Handlers, Handler
  <2> QED
    BY <1>5, <1>2, <2>1, <2>3 DEF Handlers, OnlyEnr
<1>6. ASSUME NEW r \in Reqs, ReadTopology(r), ~Crash PROVE Handlers'
  <2>1. /\ enr[r].pc = "read" /\ mem' = mem /\ db' = db /\ Enrolled' = Enrolled /\ OnlyEnr(r)
        /\ enr'[r].a = enr[r].a /\ enr'[r].k = enr[r].k /\ enr'[r].c = enr[r].c
        /\ enr'[r].n = enr[r].n /\ enr'[r].pc = "ensure" /\ enr[r].n \in Enrolled
        /\ enr'[r].top.adm = db.nodes[enr[r].n].adm /\ enr'[r].top.max = db.nodes[enr[r].n].max
    BY <1>6, TopologyEffect DEF Enrolled
  <2>2. db.nodes[enr[r].n].adm # "none" /\ db.nodes[enr[r].n].max # 0
    BY <2>1 DEF Rows, Row
  <2>3. Handler(r)'
    BY <2>1, <2>2 DEF Handlers, Handler
  <2> QED
    BY <1>6, <1>2, <2>1, <2>3 DEF Handlers, OnlyEnr
<1>7. ASSUME NEW r \in Reqs, EnsureNode(r), ~Crash PROVE Handlers'
  <2>1. /\ enr[r].pc = "ensure" /\ mem'.up = mem.up /\ db' = db /\ Enrolled' = Enrolled /\ OnlyEnr(r)
        /\ enr'[r].a = enr[r].a /\ enr'[r].k = enr[r].k /\ enr'[r].c = enr[r].c
        /\ enr'[r].pc \in {"reply", "replay"}
    BY <1>7, EnsureEffect DEF Enrolled
  <2>2. enr'[r].n # 0 => enr'[r].n = enr[r].n /\ mem'.nodes[enr[r].n] # NoProj
    <3>1. enr[r].top # NoProj
      BY <2>1, NoProjFields DEF Handlers, Handler
    <3> QED
      BY <1>7, <3>1, EnsureEffect
  <2>3. Handler(r)'
    BY <2>1, <2>2 DEF Handlers, Handler
  <2> QED
    BY <1>7, <1>2, <2>1, <2>3 DEF Handlers, OnlyEnr
<1>8. ASSUME NEW r \in Reqs, Reply(r), ~Crash PROVE Handlers'
  <2>1. OnlyEnr(r) /\ enr'[r] = Free /\ enr'[r].pc = "idle"
    BY <1>8, ReplyEffect
  <2>2. Handler(r)'
    BY <2>1 DEF Handler
  <2> QED
    BY <1>8, <1>2, <2>1, <2>2 DEF Handlers, OnlyEnr
<1>9. ASSUME NEW r \in Reqs, ConsumeFails(r), ~Crash PROVE Handlers'
  <2>1. /\ enr[r].pc = "consume" /\ mem'.up = mem.up /\ OnlyEnr(r) /\ enr'[r].pc = "replay"
        /\ enr'[r].a = enr[r].a /\ enr'[r].c = enr[r].c
    BY <1>9, ConsumeFailsEffect DEF KeptMem
  <2>2. Handler(r)'
    BY <2>1 DEF Handlers, Handler
  <2> QED
    BY <1>9, <1>2, <2>1, <2>2 DEF Handlers, OnlyEnr
<1>10. ASSUME ~Crash, UNCHANGED enr PROVE Handlers'
  BY <1>10, <1>2 DEF Handlers
<1> QED
  BY <1>1, <1>2, <1>3, <1>4, <1>5, <1>6, <1>7, <1>8, <1>9, <1>10 DEF ManagementNext,
     AdminStep, EnrollStep, StartController, TokenAuditFails, CreateJoinCode, CancelJoinCode,
     AbandonJoin, LoseConnection, ReinstallAgent, DialAgent, RegisterSession,
     FinalizeEnrollment, BreakSession, QuarantineNode, ProjectQuarantine, ReadConfiguration,
     ApplyConfiguration, SetNodeState, Begin, ReadSnapshot, EnsureDurableNodeProjection,
     EnterStore, BeginProvisioning, Provision,
     ProvisioningFailed, MarkCommitted, MarkFails, CommitMutation, CommitFails, NotifyRevocation, ProjectMutation

\* An Agent keeps its node.
LEMMA JoiningStays ==
  ASSUME NodesKept, MemoryKept, Typed, NEW a \in Agents, Joining(a), ag'[a] = ag[a],
         mem'.up => mem.up,
         ag[a].pc = "wait" => \/ enr'[ag[a].r].a # a
                              \/ /\ enr'[ag[a].r].a = enr[ag[a].r].a
                                 /\ enr'[ag[a].r].k = enr[ag[a].r].k
  PROVE  Joining(a)'
<1>1. ag[a].node \in {0} \cup Nodes
  BY AgOf
<1> QED
  BY <1>1 DEF Joining, NodesKept, MemoryKept

\* A process that is down is started by nobody else.
LEMMA DownAgain ==
  ASSUME ManagementInv, ManagementNext, ~StartController
  PROVE  mem'.up => mem.up
<1> USE DEF ManagementInv
<1>1. ASSUME StartController PROVE mem'.up => mem.up
  BY <1>1
<1>2. ASSUME Crash PROVE mem'.up => mem.up
  BY <1>2, CrashEffect
<1>3. ASSUME TokenAuditFails PROVE mem'.up => mem.up
  BY <1>3, TokenAuditEffect DEF KeptMem
<1>4. ASSUME NEW r \in Reqs, EnsureNode(r) PROVE mem'.up => mem.up
  BY <1>4, EnsureEffect
<1>5. ASSUME NEW r \in Reqs, ConsumeFails(r) PROVE mem'.up => mem.up
  BY <1>5, ConsumeFailsEffect DEF KeptMem
<1>6. ASSUME NEW n \in Nodes, ProjectQuarantine(n) PROVE mem'.up => mem.up
  BY <1>6, ProjectQuarantineEffect
<1>7. ASSUME NEW a \in Admins, ApplyConfiguration(a) \/ \E n \in Enrolled : SetNodeState(a, n)
        PROVE mem'.up => mem.up
  BY <1>7, BeginEffect DEF KeptMem
<1>8. ASSUME NEW a \in Admins, EnsureDurableNodeProjection(a) PROVE mem'.up => mem.up
  BY <1>8, DurableEffect
<1>9. ASSUME NEW a \in Admins, Passes(a) PROVE mem'.up => mem.up
  BY <1>9, PassEffect DEF KeptMem
<1>10. ASSUME NEW a \in Admins, CommitMutation(a) PROVE mem'.up => mem.up
  BY <1>10, CommitEffect DEF KeptMem
<1>11. ASSUME NEW a \in Admins, CommitFails(a) PROVE mem'.up => mem.up
  BY <1>11, FailEffect DEF KeptMem
<1>12. ASSUME NEW a \in Admins, ProjectMutation(a) PROVE mem'.up => mem.up
  BY <1>12, ProjectEffect
<1>13. ASSUME UNCHANGED mem PROVE mem'.up => mem.up
  BY <1>13 DEF Enrolled, Document
<1> QED
  BY <1>1, <1>2, <1>3, <1>4, <1>5, <1>6, <1>7, <1>8, <1>9, <1>10, <1>11, <1>12, <1>13 DEF
     ManagementNext, AdminStep, Passes, EnrollStep, CreateJoinCode, CancelJoinCode, JoinAgent,
     AbandonJoin, LoseConnection, ReinstallAgent, DialAgent, RegisterSession,
     ConsumeEnrollment, ReplayEnrollment, ReadTopology, Reply, FinalizeEnrollment,
     BreakSession, QuarantineNode, ReadConfiguration, ReadSnapshot, NotifyRevocation

\* The steps of the Agents.
LEMMA ChangesAg ==
  ASSUME ManagementNext
  PROVE  \/ UNCHANGED ag
         \/ \E a \in Agents, c \in Codes : JoinAgent(a, c)
         \/ \E a \in Agents : AbandonJoin(a) \/ LoseConnection(a) \/ ReinstallAgent(a)
         \/ \E a \in Agents : RegisterSession(a)
         \/ \E r \in Reqs : Reply(r)
  BY DEF ManagementNext, AdminStep, EnrollStep, StartController, Crash, TokenAuditFails,
     CreateJoinCode, CancelJoinCode, DialAgent, ConsumeEnrollment, ReplayEnrollment,
     ReadTopology, EnsureNode, ConsumeFails, FinalizeEnrollment, BreakSession, QuarantineNode,
     ProjectQuarantine, ReadConfiguration, ApplyConfiguration, SetNodeState, Begin,
     ReadSnapshot, EnsureDurableNodeProjection,
     EnterStore, BeginProvisioning, Provision,
     ProvisioningFailed, MarkCommitted, MarkFails, CommitMutation, CommitFails,
     NotifyRevocation, ProjectMutation

\* A request is answered to the Agent that made it.
LEMMA AskersStay ==
  ASSUME ManagementInv, ManagementNext, \A a \in Agents, c \in Codes : ~JoinAgent(a, c)
  PROVE  \A o \in Reqs : enr'[o].a # 0 => enr'[o].a = enr[o].a /\ enr'[o].k = enr[o].k
<1> USE DEF ManagementInv
<1> DEFINE Goal == \A o \in Reqs : enr'[o].a # 0 => enr'[o].a = enr[o].a /\ enr'[o].k = enr[o].k
<1>1. ASSUME Crash PROVE Goal
  BY <1>1, CrashEffect
<1>2. ASSUME NEW a \in Agents, NEW c \in Codes, JoinAgent(a, c) PROVE Goal
  BY <1>2
<1>3. ASSUME NEW r \in Reqs, ConsumeEnrollment(r) PROVE Goal
  BY <1>3, ConsumeEffect DEF OnlyEnr
<1>4. ASSUME NEW r \in Reqs, ReplayEnrollment(r) PROVE Goal
  BY <1>4, ReplayEffect DEF OnlyEnr
<1>5. ASSUME NEW r \in Reqs, ReadTopology(r) PROVE Goal
  BY <1>5, TopologyEffect DEF OnlyEnr
<1>6. ASSUME NEW r \in Reqs, EnsureNode(r) PROVE Goal
  BY <1>6, EnsureEffect DEF OnlyEnr
<1>7. ASSUME NEW r \in Reqs, Reply(r) PROVE Goal
  BY <1>7, ReplyEffect DEF OnlyEnr
<1>8. ASSUME NEW r \in Reqs, ConsumeFails(r) PROVE Goal
  BY <1>8, ConsumeFailsEffect DEF OnlyEnr
<1>9. ASSUME UNCHANGED enr PROVE Goal
  BY <1>9 DEF Enrolled, Document
<1> QED
  BY <1>1, <1>2, <1>3, <1>4, <1>5, <1>6, <1>7, <1>8, <1>9 DEF ManagementNext, AdminStep,
     EnrollStep, StartController, TokenAuditFails, CreateJoinCode, CancelJoinCode,
     AbandonJoin, LoseConnection, ReinstallAgent, DialAgent, RegisterSession,
     FinalizeEnrollment, BreakSession, QuarantineNode, ProjectQuarantine, ReadConfiguration,
     ApplyConfiguration, SetNodeState, Begin, ReadSnapshot, EnsureDurableNodeProjection,
     EnterStore, BeginProvisioning, Provision,
     ProvisioningFailed, MarkCommitted, MarkFails, CommitMutation, CommitFails, NotifyRevocation, ProjectMutation

\* Every step preserves what an Agent was answered.
LEMMA JoinsStep ==
  ASSUME ManagementInv, ManagementNext
  PROVE  Joins'
<1> USE DEF ManagementInv
<1>0. \A a \in Agents : a # 0
  BY ManagementConstants
<1>1. CASE Crash
  <2>1. /\ ag' = ag /\ db' = db /\ Enrolled' = Enrolled /\ ~mem'.up
        /\ \A r \in Reqs : enr'[r].a = 0
    BY <1>1, CrashEffect DEF Enrolled
  <2>2. ASSUME NEW a \in Agents PROVE Joining(a)'
    BY <1>0, <2>1 DEF Joins, Joining
  <2> QED
    BY <2>2 DEF Joins
<1>2. CASE StartController
  <2>1. /\ ag' = ag /\ enr' = enr /\ db'.nodes = db.nodes /\ Enrolled' = Enrolled
        /\ \A n \in Enrolled : mem'.nodes[n].adm = db.nodes[n].adm
    BY <1>2, StartEffect DEF KeptRows
  <2>2. \A n \in Enrolled : mem'.nodes[n] # NoProj
    BY <2>1, NoProjFields DEF Rows, Row
  <2>3. ASSUME NEW a \in Agents PROVE Joining(a)'
    BY <2>1, <2>2 DEF Joins, Joining
  <2> QED
    BY <2>3 DEF Joins
<1>3. ASSUME ~Crash, ~StartController PROVE NodesKept /\ MemoryKept /\ (mem'.up => mem.up)
  <2>1. NodesKept /\ MemoryKept
    BY <1>3, NodesStay, MemoryStays
  <2>2. mem'.up => mem.up
    BY <1>3, DownAgain
  <2> QED
    BY <2>1, <2>2
<1>4. ASSUME NEW b \in Agents, NEW c \in Codes, JoinAgent(b, c), ~Crash, ~StartController PROVE Joins'
  <2>1. PICK r \in Reqs : /\ ag'[b].r = r /\ OnlyEnr(r) /\ enr'[r].a = b /\ enr'[r].k = ag[b].key
    BY <1>4, JoinEffect
  <2>2. OnlyAg(b) /\ ag'[b].key = ag[b].key /\ ag'[b].node = 0 /\ ag'[b].pc = "wait"
    BY <1>4, JoinEffect
  <2>3. Joining(b)'
    BY <2>1, <2>2 DEF Joining
  <2>4. ASSUME NEW a \in Agents, a # b PROVE Joining(a)'
    <3>1. ag'[a] = ag[a]
      BY <2>2, <2>4 DEF OnlyAg
    <3>2. ag[a].pc = "wait" => \/ enr'[ag[a].r].a # a
                               \/ /\ enr'[ag[a].r].a = enr[ag[a].r].a
                                  /\ enr'[ag[a].r].k = enr[ag[a].r].k
      BY <2>1, <2>4 DEF OnlyEnr, Joins, Joining
    <3> QED
      BY <1>3, <1>4, <3>1, <3>2, JoiningStays DEF Joins
  <2> QED
    BY <2>3, <2>4 DEF Joins
<1>5. ASSUME \A a \in Agents, c \in Codes : ~JoinAgent(a, c), ~Crash, ~StartController,
             NEW a \in Agents, ag'[a] = ag[a]
      PROVE  Joining(a)'
  <2>1. ag[a].pc = "wait" => \/ enr'[ag[a].r].a # a
                             \/ /\ enr'[ag[a].r].a = enr[ag[a].r].a
                                /\ enr'[ag[a].r].k = enr[ag[a].r].k
    BY <1>0, <1>5, AskersStay DEF Joins, Joining
  <2> QED
    BY <1>3, <1>5, <2>1, JoiningStays DEF Joins
<1>6. ASSUME NEW b \in Agents, AbandonJoin(b) \/ LoseConnection(b) \/ ReinstallAgent(b),
             \A a \in Agents, c \in Codes : ~JoinAgent(a, c), ~Crash, ~StartController
      PROVE  Joins'
  <2>1. /\ OnlyAg(b) /\ ag'[b].pc = "idle" /\ mem' = mem /\ db' = db /\ Enrolled' = Enrolled
        /\ ag'[b].node # 0 => ag'[b].node = ag[b].node /\ ag'[b].key = ag[b].key
    BY <1>6, QuitEffect DEF Enrolled
  <2>2. Joining(b)'
    BY <2>1 DEF Joins, Joining
  <2> QED
    BY <1>5, <1>6, <2>1, <2>2 DEF Joins, OnlyAg
<1>7. ASSUME NEW b \in Agents, RegisterSession(b),
             \A a \in Agents, c \in Codes : ~JoinAgent(a, c), ~Crash, ~StartController
      PROVE  Joins'
  <2>1. /\ OnlyAg(b) /\ ag'[b].pc = "joined" /\ mem' = mem /\ db' = db /\ Enrolled' = Enrolled
        /\ ag'[b].node = ag[b].node /\ ag'[b].key = ag[b].key /\ ag[b].node # 0
    BY <1>7, RegisterEffect DEF Enrolled
  <2>2. Joining(b)'
    BY <2>1 DEF Joins, Joining
  <2> QED
    BY <1>5, <1>7, <2>1, <2>2 DEF Joins, OnlyAg
<1>8. ASSUME NEW r \in Reqs, Reply(r),
             \A a \in Agents, c \in Codes : ~JoinAgent(a, c), ~Crash, ~StartController
      PROVE  Joins'
  <2>1. CASE ag' = ag
    BY <1>5, <1>8, <2>1 DEF Joins
  <2>2. CASE ag' # ag
    <3>1. PICK b \in Agents : /\ OnlyAg(b) /\ ag'[b].key = ag[b].key /\ enr[r].k = ag[b].key
                              /\ ag'[b].node = enr[r].n
                              /\ ag'[b].pc = IF enr[r].n = 0 THEN "idle" ELSE "config"
      BY <1>8, <2>2, ReplyEffect
    <3>2. enr[r].pc = "reply" /\ mem' = mem /\ db' = db /\ Enrolled' = Enrolled
      BY <1>8, ReplyEffect DEF Enrolled
    <3>3. Joining(b)'
      BY <3>1, <3>2 DEF Handlers, Handler, Joining
    <3> QED
      BY <1>5, <1>8, <3>1, <3>3 DEF Joins, OnlyAg
  <2> QED
    BY <2>1, <2>2
<1>9. ASSUME UNCHANGED ag, \A a \in Agents, c \in Codes : ~JoinAgent(a, c), ~Crash, ~StartController
      PROVE  Joins'
  BY <1>5, <1>9 DEF Joins
<1> QED
  BY <1>1, <1>2, <1>4, <1>6, <1>7, <1>8, <1>9, ChangesAg

\* Only the hook ends a notification.
LEMMA NotifyStays ==
  ASSUME ManagementInv, ManagementNext, ~Crash, \A a \in Admins : ~NotifyRevocation(a)
  PROVE  \A o \in Admins : adm[o].pc = "notify" =>
           adm'[o].pc = "notify" /\ adm'[o].n = adm[o].n
<1> USE DEF ManagementInv
<1> DEFINE Goal == \A o \in Admins : adm[o].pc = "notify" =>
                     adm'[o].pc = "notify" /\ adm'[o].n = adm[o].n
<1>1. ASSUME Crash PROVE Goal
  BY <1>1
<1>2. ASSUME NEW a \in Admins, ReadConfiguration(a) PROVE Goal
  BY <1>2, ReadEffect DEF OnlyAdm
<1>3. ASSUME NEW a \in Admins, ApplyConfiguration(a) \/ \E n \in Enrolled : SetNodeState(a, n)
        PROVE Goal
  BY <1>3, BeginEffect DEF OnlyAdm, Ends
<1>4. ASSUME NEW a \in Admins, ReadSnapshot(a) PROVE Goal
  BY <1>4, SnapshotEffect DEF Goes, OnlyAdm
<1>5. ASSUME NEW a \in Admins, EnsureDurableNodeProjection(a) PROVE Goal
  BY <1>5, DurableEffect DEF Goes, Ends, OnlyAdm
<1>6. ASSUME NEW a \in Admins, Passes(a) PROVE Goal
  BY <1>6, PassEffect DEF Goes, Ends, OnlyAdm
<1>7. ASSUME NEW a \in Admins, CommitMutation(a) PROVE Goal
  BY <1>7, CommitEffect DEF Goes, Ends, OnlyAdm
<1>8. ASSUME NEW a \in Admins, CommitFails(a) PROVE Goal
  BY <1>8, FailEffect DEF Ends, OnlyAdm
<1>9. ASSUME NEW a \in Admins, NotifyRevocation(a) PROVE Goal
  BY <1>9
<1>10. ASSUME NEW a \in Admins, ProjectMutation(a) PROVE Goal
  BY <1>10, ProjectEffect DEF Ends, OnlyAdm
<1>11. ASSUME UNCHANGED adm PROVE Goal
  BY <1>11 DEF Enrolled, Document
<1> QED
  BY <1>1, <1>2, <1>3, <1>4, <1>5, <1>6, <1>7, <1>8, <1>9, <1>10, <1>11 DEF ManagementNext,
     AdminStep, Passes, EnrollStep, StartController, TokenAuditFails, CreateJoinCode, CancelJoinCode,
     JoinAgent, AbandonJoin, LoseConnection, ReinstallAgent, DialAgent, RegisterSession,
     ConsumeEnrollment, ReplayEnrollment, ReadTopology, EnsureNode, Reply, ConsumeFails,
     FinalizeEnrollment, BreakSession, QuarantineNode, ProjectQuarantine

\* The steps of the sessions.
LEMMA ChangesSes ==
  ASSUME ManagementNext
  PROVE  \/ UNCHANGED ses
         \/ Crash
         \/ \E a \in Agents : DialAgent(a)
         \/ \E a \in Agents : RegisterSession(a)
         \/ \E n \in Nodes : FinalizeEnrollment(n)
         \/ \E n \in Nodes : BreakSession(n)
         \/ \E a \in Admins : NotifyRevocation(a)
  BY DEF ManagementNext, AdminStep, EnrollStep, StartController, TokenAuditFails,
     CreateJoinCode, CancelJoinCode, JoinAgent, AbandonJoin, LoseConnection, ReinstallAgent,
     ConsumeEnrollment, ReplayEnrollment, ReadTopology, EnsureNode, Reply, ConsumeFails,
     QuarantineNode, ProjectQuarantine, ReadConfiguration, ApplyConfiguration, SetNodeState,
     Begin, ReadSnapshot, EnsureDurableNodeProjection,
     EnterStore, BeginProvisioning, Provision,
     ProvisioningFailed, MarkCommitted, MarkFails, CommitMutation,
     CommitFails, ProjectMutation

\* The steps of the quarantines.
LEMMA ChangesQuar ==
  ASSUME ManagementNext
  PROVE  \/ UNCHANGED quar
         \/ Crash
         \/ \E n \in Nodes : QuarantineNode(n)
         \/ \E n \in Nodes : ProjectQuarantine(n)
  BY DEF ManagementNext, AdminStep, EnrollStep, StartController, TokenAuditFails,
     CreateJoinCode, CancelJoinCode, JoinAgent, AbandonJoin, LoseConnection, ReinstallAgent,
     DialAgent, RegisterSession, ConsumeEnrollment, ReplayEnrollment, ReadTopology,
     EnsureNode, Reply, ConsumeFails, FinalizeEnrollment, BreakSession, ReadConfiguration,
     ApplyConfiguration, SetNodeState, Begin, ReadSnapshot, EnsureDurableNodeProjection,
     EnterStore, BeginProvisioning, Provision,
     ProvisioningFailed, MarkCommitted, MarkFails, CommitMutation, CommitFails, NotifyRevocation, ProjectMutation

\* The steps of the store.
LEMMA ChangesDb ==
  ASSUME ManagementNext
  PROVE  \/ UNCHANGED db
         \/ StartController
         \/ \E c \in Codes : CreateJoinCode(c)
         \/ \E c \in Codes : CancelJoinCode(c)
         \/ \E r \in Reqs : ConsumeEnrollment(r)
         \/ \E n \in Nodes : FinalizeEnrollment(n)
         \/ \E n \in Nodes : QuarantineNode(n)
         \/ \E a \in Admins : Passes(a)
         \/ \E a \in Admins : CommitMutation(a)
         \/ \E a \in Admins : CommitFails(a)
  BY DEF ManagementNext, AdminStep, Passes, EnrollStep, Crash, TokenAuditFails, JoinAgent,
     AbandonJoin, LoseConnection, ReinstallAgent, DialAgent, RegisterSession,
     ReplayEnrollment, ReadTopology, EnsureNode, Reply, ConsumeFails, BreakSession,
     ProjectQuarantine, ReadConfiguration, ApplyConfiguration, SetNodeState, Begin,
     ReadSnapshot, EnsureDurableNodeProjection, NotifyRevocation, ProjectMutation

\* A node that is quarantined is freed by nobody.
LEMMA QuarantineStays ==
  ASSUME ManagementInv, ManagementNext
  PROVE  \A m \in Enrolled : db.nodes[m].adm \in {"quarantined", "revoked"} =>
           db'.nodes[m].adm \in {"quarantined", "revoked"}
<1> USE DEF ManagementInv
<1> DEFINE Goal == \A m \in Enrolled : db.nodes[m].adm \in {"quarantined", "revoked"} =>
                     db'.nodes[m].adm \in {"quarantined", "revoked"}
<1>1. ASSUME StartController PROVE Goal
  BY <1>1, StartEffect, EnrolledNodes DEF KeptRows
<1>2. ASSUME NEW c \in Codes, CreateJoinCode(c) PROVE Goal
  BY <1>2, CreateEffect, EnrolledNodes DEF KeptRows
<1>3. ASSUME NEW c \in Codes, CancelJoinCode(c) PROVE Goal
  BY <1>3, CancelEffect, EnrolledNodes DEF KeptRows
<1>4. ASSUME NEW r \in Reqs, ConsumeEnrollment(r) PROVE Goal
  <2>1. \A m \in Enrolled : db'.nodes[m] = db.nodes[m]
    BY <1>4, ConsumeEffect, EnrolledNodes
  <2> QED
    BY <2>1
<1>5. ASSUME NEW n \in Nodes, FinalizeEnrollment(n) PROVE Goal
  BY <1>5, FinalizeEffect, EnrolledNodes DEF KeptRows
<1>6. ASSUME NEW n \in Nodes, QuarantineNode(n) PROVE Goal
  BY <1>6, QuarantineEffect, EnrolledNodes DEF KeptCodes
<1>7. ASSUME NEW a \in Admins, Passes(a) PROVE Goal
  BY <1>7, PassEffect, EnrolledNodes DEF KeptRows, KeptCodes
<1>8. ASSUME NEW a \in Admins, CommitMutation(a) PROVE Goal
  <2>1. ASSUME NEW m \in Enrolled PROVE db'.nodes[m].adm = db.nodes[m].adm \/ db'.nodes[m].adm = "revoked"
                                      \/ db.nodes[m].adm \in {"active", "draining"}
    BY <1>8, CommitEffect, EnrolledNodes DEF KeptRows
  <2> QED
    BY <2>1
<1>9. ASSUME NEW a \in Admins, CommitFails(a) PROVE Goal
  BY <1>9, FailEffect, EnrolledNodes DEF KeptRows, KeptCodes
<1>10. ASSUME UNCHANGED db PROVE Goal
  BY <1>10, EnrolledNodes DEF Enrolled, Document
<1> QED
  BY <1>1, <1>2, <1>3, <1>4, <1>5, <1>6, <1>7, <1>8, <1>9, <1>10 DEF ManagementNext,
     AdminStep, Passes, EnrollStep, Crash, TokenAuditFails, JoinAgent, AbandonJoin, LoseConnection,
     ReinstallAgent, DialAgent, RegisterSession, ReplayEnrollment, ReadTopology, EnsureNode,
     Reply, ConsumeFails, BreakSession, ProjectQuarantine, ReadConfiguration,
     ApplyConfiguration, SetNodeState, Begin, ReadSnapshot, EnsureDurableNodeProjection,
     NotifyRevocation, ProjectMutation

\* A node that is revoked stays so, and is revoked by a mutation that notifies.
LEMMA RevokedBy ==
  ASSUME ManagementInv, ManagementNext
  PROVE  \A m \in Enrolled' : db'.nodes[m].adm = "revoked" =>
           \/ m \in Enrolled /\ db.nodes[m].adm = "revoked"
           \/ \E o \in Admins : adm'[o].pc = "notify" /\ adm'[o].n = m
<1> USE DEF ManagementInv
<1> DEFINE Goal == \A m \in Enrolled' : db'.nodes[m].adm = "revoked" =>
                     \/ m \in Enrolled /\ db.nodes[m].adm = "revoked"
                     \/ \E o \in Admins : adm'[o].pc = "notify" /\ adm'[o].n = m
<1>1. ASSUME StartController PROVE Goal
  BY <1>1, StartEffect, EnrolledNodes DEF KeptRows
<1>2. ASSUME NEW c \in Codes, CreateJoinCode(c) PROVE Goal
  BY <1>2, CreateEffect, EnrolledNodes DEF KeptRows
<1>3. ASSUME NEW c \in Codes, CancelJoinCode(c) PROVE Goal
  BY <1>3, CancelEffect, EnrolledNodes DEF KeptRows
<1>4. ASSUME NEW r \in Reqs, ConsumeEnrollment(r) PROVE Goal
  <2>1. CASE db' = db
    BY <2>1 DEF Enrolled
  <2>2. CASE db' # db
    <3>1. PICK n \in Nodes : /\ Enrolled' = Enrolled \cup {n} /\ Fresh(db'.nodes[n])
                             /\ \A m \in Nodes \ {n} : db'.nodes[m] = db.nodes[m]
      BY <1>4, <2>2, ConsumeEffect
    <3> QED
      BY <3>1, EnrolledNodes DEF Fresh
  <2> QED
    BY <2>1, <2>2
<1>5. ASSUME NEW n \in Nodes, FinalizeEnrollment(n) PROVE Goal
  BY <1>5, FinalizeEffect, EnrolledNodes DEF KeptRows
<1>6. ASSUME NEW n \in Nodes, QuarantineNode(n) PROVE Goal
  BY <1>6, QuarantineEffect, EnrolledNodes DEF KeptCodes
<1>7. ASSUME NEW a \in Admins, Passes(a) PROVE Goal
  BY <1>7, PassEffect, EnrolledNodes DEF KeptRows, KeptCodes
<1>8. ASSUME NEW a \in Admins, CommitMutation(a) PROVE Goal
  <2>1. CASE KeptRows
    BY <2>1 DEF KeptRows
  <2>2. CASE ~KeptRows /\ adm[a].op = "apply"
    <3>1. Enrolled' = Enrolled /\ \A n \in Nodes : db'.nodes[n].adm = db.nodes[n].adm
      BY <1>8, <2>2, CommitEffect
    <3> QED
      BY <3>1, EnrolledNodes
  <2>3. CASE ~KeptRows /\ adm[a].op # "apply"
    <3>1. PICK n \in Enrolled, op \in {"active", "draining", "revoked"} :
            /\ Enrolled' = Enrolled /\ n = adm[a].n /\ db'.nodes[n].adm = op
            /\ \A m \in Nodes \ {n} : db'.nodes[m] = db.nodes[m]
            /\ op = "revoked" => Goes(a, "notify")
      BY <1>8, <2>3, CommitEffect
    <3> QED
      BY <3>1, EnrolledNodes DEF Goes
  <2> QED
    BY <2>1, <2>2, <2>3
<1>9. ASSUME NEW a \in Admins, CommitFails(a) PROVE Goal
  BY <1>9, FailEffect, EnrolledNodes DEF KeptRows, KeptCodes
<1>10. ASSUME UNCHANGED db PROVE Goal
  BY <1>10 DEF Enrolled
<1> QED
  BY <1>1, <1>2, <1>3, <1>4, <1>5, <1>6, <1>7, <1>8, <1>9, <1>10 DEF ManagementNext,
     AdminStep, Passes, EnrollStep, Crash, TokenAuditFails, JoinAgent, AbandonJoin, LoseConnection,
     ReinstallAgent, DialAgent, RegisterSession, ReplayEnrollment, ReadTopology, EnsureNode,
     Reply, ConsumeFails, BreakSession, ProjectQuarantine, ReadConfiguration,
     ApplyConfiguration, SetNodeState, Begin, ReadSnapshot, EnsureDurableNodeProjection,
     NotifyRevocation, ProjectMutation

\* Every step preserves what a session rests on.
LEMMA SessionsStep ==
  ASSUME ManagementInv, ManagementNext
  PROVE  Sessions'
<1> USE DEF ManagementInv
<1>1. CASE Crash
  BY <1>1, CrashEffect DEF Sessions, RevokedIsCut, Enrolled
<1>2. CASE ~Crash
  <2>1. NodesKept /\ MemoryKept
    BY <1>2, NodesStay, MemoryStays
  <2>2. \A n \in Nodes : ses'[n] # "none" =>
          \/ ses'[n] = ses[n]
          \/ ses[n] # "none"
          \/ mem.up /\ n \in Enrolled /\ mem.nodes[n] # NoProj
    <3>1. ASSUME NEW a \in Agents, DialAgent(a), NEW n \in Nodes, ses'[n] # "none", ses'[n] # ses[n]
          PROVE  mem.up /\ n \in Enrolled /\ mem.nodes[n] # NoProj
      BY <3>1, DialEffect DEF OnlySes, Joins, Joining
    <3>2. ASSUME NEW a \in Agents, RegisterSession(a), NEW n \in Nodes, ses'[n] # ses[n]
          PROVE  ses[n] # "none"
      BY <3>2, RegisterEffect DEF OnlySes
    <3>3. ASSUME NEW m \in Nodes, FinalizeEnrollment(m), NEW n \in Nodes, ses'[n] # ses[n]
          PROVE  ses[n] # "none"
      BY <3>3, FinalizeEffect DEF OnlySes
    <3>4. ASSUME NEW m \in Nodes, BreakSession(m), NEW n \in Nodes, ses'[n] # ses[n]
          PROVE  ses'[n] = "none"
      BY <3>4, BreakEffect DEF OnlySes
    <3>5. ASSUME NEW a \in Admins, NotifyRevocation(a), NEW n \in Nodes, ses'[n] # ses[n]
          PROVE  ses'[n] = "none"
      BY <3>5, NotifyEffect
    <3> QED
      BY <1>2, <3>1, <3>2, <3>3, <3>4, <3>5, ChangesSes
  <2>3. \A n \in Nodes : ses'[n] # "none" => mem'.up /\ n \in Enrolled' /\ mem'.nodes[n] # NoProj
    BY <2>1, <2>2 DEF Sessions, NodesKept, MemoryKept
  <2>4. ASSUME NEW n \in quar'
        PROVE  /\ mem'.up /\ n \in Enrolled' /\ mem'.nodes[n] # NoProj
               /\ db'.nodes[n].adm \in {"quarantined", "revoked"}
    <3>1. CASE n \in quar
      <4>1. n \in Nodes /\ mem.up /\ n \in Enrolled /\ mem.nodes[n] # NoProj
        BY <3>1, EnrolledNodes DEF Sessions
      <4>2. db'.nodes[n].adm \in {"quarantined", "revoked"}
        BY <3>1, <4>1, QuarantineStays DEF Sessions
      <4> QED
        BY <2>1, <4>1, <4>2 DEF NodesKept, MemoryKept
    <3>2. CASE n \notin quar
      <4>1. PICK m \in Nodes : QuarantineNode(m)
        BY <1>2, <2>4, <3>2, ChangesQuar, ProjectQuarantineEffect
      <4>2. /\ n = m /\ ses[n] = "serving" /\ n \in Enrolled /\ db'.nodes[n].adm = "quarantined"
        BY <2>4, <3>2, <4>1, QuarantineEffect
      <4>3. n \in Nodes /\ mem.up /\ mem.nodes[n] # NoProj
        BY <4>2, EnrolledNodes DEF Sessions
      <4> QED
        BY <2>1, <4>2, <4>3 DEF NodesKept, MemoryKept
    <3> QED
      BY <3>1, <3>2
  <2>5. ASSUME NEW n \in Enrolled', db'.nodes[n].adm = "revoked", ses'[n] = "serving"
        PROVE  \E a \in Admins : adm'[a].pc = "notify" /\ adm'[a].n = n
    <3>1. CASE \E o \in Admins : adm'[o].pc = "notify" /\ adm'[o].n = n
      BY <3>1
    <3>2. CASE n \in Enrolled /\ db.nodes[n].adm = "revoked"
      <4>1. n \in Nodes
        BY <3>2, EnrolledNodes
      <4>2. ses[n] = "serving"
        <5>1. ASSUME NEW a \in Agents, DialAgent(a) PROVE ses'[n] = ses[n]
          BY <2>5, <4>1, <5>1, DialEffect DEF OnlySes
        <5>2. ASSUME NEW a \in Agents, RegisterSession(a) PROVE ses'[n] = ses[n]
          BY <2>5, <4>1, <5>2, RegisterEffect DEF OnlySes
        <5>3. ASSUME NEW m \in Nodes, FinalizeEnrollment(m) PROVE ses'[n] = ses[n]
          BY <2>5, <3>2, <4>1, <5>3, FinalizeEffect DEF OnlySes
        <5>4. ASSUME NEW m \in Nodes, BreakSession(m) PROVE ses'[n] = ses[n]
          BY <2>5, <4>1, <5>4, BreakEffect DEF OnlySes
        <5>5. ASSUME NEW a \in Admins, NotifyRevocation(a) PROVE ses'[n] = ses[n]
          BY <2>5, <4>1, <5>5, NotifyEffect
        <5> QED
          BY <1>2, <2>5, <5>1, <5>2, <5>3, <5>4, <5>5, ChangesSes
      <4>3. PICK a \in Admins : adm[a].pc = "notify" /\ adm[a].n = n
        BY <3>2, <4>2 DEF Sessions, RevokedIsCut
      <4>4. CASE \A b \in Admins : ~NotifyRevocation(b)
        BY <1>2, <4>3, <4>4, NotifyStays
      <4>5. ASSUME NEW b \in Admins, NotifyRevocation(b), adm[b].n = n PROVE FALSE
        BY <2>5, <4>1, <4>5, NotifyEffect
      <4>6. ASSUME NEW b \in Admins, NotifyRevocation(b), adm[b].n # n
            PROVE  adm'[a].pc = "notify" /\ adm'[a].n = n
        BY <4>3, <4>6, NotifyEffect DEF Goes, OnlyAdm
      <4> QED
        BY <4>4, <4>5, <4>6
    <3> QED
      BY <2>5, <3>1, <3>2, RevokedBy
  <2> QED
    BY <2>3, <2>4, <2>5 DEF Sessions, RevokedIsCut
<1> QED
  BY <1>1, <1>2

\* The revision moves with every change of a document, and never back.
LEMMA RevisionMoves ==
  ASSUME ManagementInv, ManagementNext
  PROVE  \/ db'.rev = db.rev /\ Document' = Document /\ Enrolled' = Enrolled
         \/ db'.rev = db.rev + 1
<1> USE DEF ManagementInv
<1> DEFINE Goal == \/ db'.rev = db.rev /\ Document' = Document /\ Enrolled' = Enrolled
                   \/ db'.rev = db.rev + 1
<1>1. ASSUME StartController PROVE Goal
  BY <1>1, StartEffect DEF KeptRows
<1>2. ASSUME NEW c \in Codes, CreateJoinCode(c) PROVE Goal
  BY <1>2, CreateEffect DEF KeptRows
<1>3. ASSUME NEW c \in Codes, CancelJoinCode(c) PROVE Goal
  BY <1>3, CancelEffect DEF KeptRows
<1>4. ASSUME NEW r \in Reqs, ConsumeEnrollment(r) PROVE Goal
  <2>1. CASE db' = db
    BY <2>1 DEF Enrolled, Document
  <2>2. CASE db' # db
    BY <1>4, <2>2, ConsumeEffect
  <2> QED
    BY <2>1, <2>2
<1>5. ASSUME NEW n \in Nodes, FinalizeEnrollment(n) PROVE Goal
  BY <1>5, FinalizeEffect DEF KeptRows
<1>6. ASSUME NEW n \in Nodes, QuarantineNode(n) PROVE Goal
  BY <1>6, QuarantineEffect DEF KeptCodes
<1>7. ASSUME NEW a \in Admins, Passes(a) PROVE Goal
  BY <1>7, PassEffect DEF KeptRows, KeptCodes
<1>8. ASSUME NEW a \in Admins, CommitMutation(a) PROVE Goal
  BY <1>8, CommitEffect DEF KeptRows, KeptCodes
<1>9. ASSUME NEW a \in Admins, CommitFails(a) PROVE Goal
  BY <1>9, FailEffect DEF KeptRows, KeptCodes
<1>10. ASSUME UNCHANGED db PROVE Goal
  BY <1>10 DEF Enrolled, Document
<1> QED
  BY <1>1, <1>2, <1>3, <1>4, <1>5, <1>6, <1>7, <1>8, <1>9, <1>10 DEF ManagementNext,
     AdminStep, Passes, EnrollStep, Crash, TokenAuditFails, JoinAgent, AbandonJoin, LoseConnection,
     ReinstallAgent, DialAgent, RegisterSession, ReplayEnrollment, ReadTopology, EnsureNode,
     Reply, ConsumeFails, BreakSession, ProjectQuarantine, ReadConfiguration,
     ApplyConfiguration, SetNodeState, Begin, ReadSnapshot, EnsureDurableNodeProjection,
     NotifyRevocation, ProjectMutation

\* mutationMu stays with the mutation that has it.
LEMMA LockStays ==
  ASSUME ManagementInv, ManagementNext, ~Crash
  PROVE  \A o \in Admins :
           adm[o].pc \notin {"idle", "read"} /\ adm'[o].pc \notin {"idle", "read"} => mem'.lock = o
<1> USE DEF ManagementInv
<1> DEFINE Goal == \A o \in Admins :
                     adm[o].pc \notin {"idle", "read"} /\ adm'[o].pc \notin {"idle", "read"} => mem'.lock = o
<1>1. ASSUME StartController PROVE Goal
  BY <1>1, StartEffect, ManagementConstants DEF Requests, Requested
<1>2. ASSUME Crash PROVE Goal
  BY <1>2
<1>3. ASSUME TokenAuditFails PROVE Goal
  BY <1>3, TokenAuditEffect, ManagementConstants DEF KeptMem, Requests, Requested
<1>4. ASSUME NEW r \in Reqs, EnsureNode(r) PROVE Goal
  BY <1>4, EnsureEffect, ManagementConstants DEF Requests, Requested
<1>5. ASSUME NEW r \in Reqs, ConsumeFails(r) PROVE Goal
  BY <1>5, ConsumeFailsEffect, ManagementConstants DEF KeptMem, Requests, Requested
<1>6. ASSUME NEW n \in Nodes, ProjectQuarantine(n) PROVE Goal
  BY <1>6, ProjectQuarantineEffect, ManagementConstants DEF Requests, Requested
<1>7. ASSUME NEW a \in Admins, ApplyConfiguration(a) \/ \E n \in Enrolled : SetNodeState(a, n)
        PROVE Goal
  BY <1>7, BeginEffect, ManagementConstants DEF KeptMem, Ends, Requests, Requested
<1>8. ASSUME NEW a \in Admins, EnsureDurableNodeProjection(a) PROVE Goal
  <2>1. adm[a].pc \notin {"idle", "read"} /\ (mem'.lock = mem.lock \/ Ends(a))
    BY <1>8, DurableEffect DEF KeptMem
  <2>2. mem.lock = a
    BY <2>1 DEF Requests, Requested
  <2>3. Ends(a) => adm'[a].pc \in {"idle", "read"}
    BY DEF Ends
  <2> QED
    BY <2>1, <2>2, <2>3 DEF Requests, Requested
<1>9. ASSUME NEW a \in Admins, Passes(a) PROVE Goal
  <2>1. adm[a].pc \notin {"idle", "read"} /\ (mem'.lock = mem.lock \/ Ends(a))
    BY <1>9, PassEffect
  <2>2. mem.lock = a
    BY <2>1 DEF Requests, Requested
  <2>3. Ends(a) => adm'[a].pc \in {"idle", "read"}
    BY DEF Ends
  <2> QED
    BY <2>1, <2>2, <2>3 DEF Requests, Requested
<1>10. ASSUME NEW a \in Admins, CommitMutation(a) PROVE Goal
  BY <1>10, CommitEffect, ManagementConstants DEF KeptMem, Ends, Requests, Requested
<1>11. ASSUME NEW a \in Admins, CommitFails(a) PROVE Goal
  <2>1. adm[a].pc \notin {"idle", "read"} /\ (mem'.lock = mem.lock \/ Ends(a))
    BY <1>11, FailEffect DEF KeptMem
  <2>2. mem.lock = a
    BY <2>1 DEF Requests, Requested
  <2>3. Ends(a) => adm'[a].pc \in {"idle", "read"}
    BY DEF Ends
  <2> QED
    BY <2>1, <2>2, <2>3 DEF Requests, Requested
<1>12. ASSUME NEW a \in Admins, ProjectMutation(a) PROVE Goal
  <2>1. adm[a].pc \notin {"idle", "read"} /\ (mem'.lock = mem.lock \/ Ends(a))
    BY <1>12, ProjectEffect DEF KeptMem
  <2>2. mem.lock = a
    BY <2>1 DEF Requests, Requested
  <2>3. Ends(a) => adm'[a].pc \in {"idle", "read"}
    BY DEF Ends
  <2> QED
    BY <2>1, <2>2, <2>3 DEF Requests, Requested
<1>13. ASSUME UNCHANGED mem PROVE Goal
  BY <1>13, ManagementConstants DEF Requests, Requested, Enrolled, Document
<1> QED
  BY <1>1, <1>2, <1>3, <1>4, <1>5, <1>6, <1>7, <1>8, <1>9, <1>10, <1>11, <1>12, <1>13 DEF
     ManagementNext, AdminStep, Passes, EnrollStep, CreateJoinCode, CancelJoinCode, JoinAgent,
     AbandonJoin, LoseConnection, ReinstallAgent, DialAgent, RegisterSession,
     ConsumeEnrollment, ReplayEnrollment, ReadTopology, Reply, FinalizeEnrollment,
     BreakSession, QuarantineNode, ReadConfiguration, ReadSnapshot, NotifyRevocation

\* A request that waits for others.
LEMMA RequestedStays ==
  ASSUME ManagementInv, ManagementNext, ~Crash, NEW a \in Admins, adm'[a] = adm[a]
  PROVE  Requested(a)'
<1>1. MemoryKept /\ NodesKept
  BY MemoryStays, NodesStay
<1>2. /\ db.rev \in Nat /\ adm[a].rev \in Nat /\ Requested(a)
      /\ \/ db'.rev = db.rev /\ Document' = Document /\ Enrolled' = Enrolled
         \/ db'.rev = db.rev + 1
  BY RevisionMoves, DbOf, AdmOf DEF ManagementInv, Requests
<1>3. adm[a].pc \notin {"idle", "read"} => mem'.lock = a
  BY LockStays
<1> QED
  BY <1>1, <1>2, <1>3, EnrolledNodes DEF Requested, MemoryKept, NodesKept, Deciding

\* A request that ends.
LEMMA EndsRequested ==
  ASSUME ManagementInv, ManagementNext, ~Crash, NEW a \in Admins, adm[a].pc # "idle", Ends(a)
  PROVE  Requested(a)'
<1>1. MemoryKept
  BY MemoryStays
<1>2. /\ db.rev \in Nat /\ adm[a].rev \in Nat /\ Requested(a)
      /\ \/ db'.rev = db.rev /\ Document' = Document /\ Enrolled' = Enrolled
         \/ db'.rev = db.rev + 1
  BY RevisionMoves, DbOf, AdmOf DEF ManagementInv, Requests
<1> QED
  BY <1>1, <1>2 DEF Requested, Ends, MemoryKept, Deciding

\* A request that goes on.
LEMMA GoesRequested ==
  ASSUME ManagementInv, ManagementNext, ~Crash, NEW a \in Admins, NEW pc, Goes(a, pc),
         adm[a].pc \notin {"idle", "read"}, pc \notin {"idle", "read"},
         pc = "ensure" /\ adm[a].rev = db'.rev => \A n \in Enrolled' : adm'[a].top[n] # NoProj,
         pc \in Deciding /\ adm[a].rev = db'.rev => \A n \in Enrolled' : mem'.nodes[n] # NoProj
  PROVE  Requested(a)'
<1>1. MemoryKept /\ NodesKept
  BY MemoryStays, NodesStay
<1>2. /\ db.rev \in Nat /\ adm[a].rev \in Nat /\ Requested(a)
      /\ \/ db'.rev = db.rev /\ Document' = Document /\ Enrolled' = Enrolled
         \/ db'.rev = db.rev + 1
  BY RevisionMoves, DbOf, AdmOf DEF ManagementInv, Requests
<1>3. mem'.lock = a
  BY LockStays DEF Goes
<1> QED
  BY <1>1, <1>2, <1>3 DEF Requested, Goes, MemoryKept, NodesKept

\* The steps of the administrators.
LEMMA ChangesAdm ==
  ASSUME ManagementNext
  PROVE  \/ UNCHANGED adm
         \/ Crash
         \/ \E a \in Admins : ReadConfiguration(a)
         \/ \E a \in Admins : ApplyConfiguration(a) \/ \E n \in Enrolled : SetNodeState(a, n)
         \/ \E a \in Admins : ReadSnapshot(a)
         \/ \E a \in Admins : EnsureDurableNodeProjection(a)
         \/ \E a \in Admins : Passes(a)
         \/ \E a \in Admins : CommitMutation(a)
         \/ \E a \in Admins : CommitFails(a)
         \/ \E a \in Admins : NotifyRevocation(a)
         \/ \E a \in Admins : ProjectMutation(a)
  BY DEF ManagementNext, AdminStep, Passes, EnrollStep, StartController, TokenAuditFails,
     CreateJoinCode, CancelJoinCode, JoinAgent, AbandonJoin, LoseConnection, ReinstallAgent,
     DialAgent, RegisterSession, ConsumeEnrollment, ReplayEnrollment, ReadTopology,
     EnsureNode, Reply, ConsumeFails, FinalizeEnrollment, BreakSession, QuarantineNode,
     ProjectQuarantine

\* Every step preserves what a mutation is decided on.
LEMMA RequestsStep ==
  ASSUME ManagementInv, ManagementNext
  PROVE  Requests'
<1> USE DEF ManagementInv
<1>1. CASE Crash
  BY <1>1, CrashEffect DEF Requests, Requested, Deciding
<1>2. ASSUME ~Crash, NEW a \in Admins, OnlyAdm(a), Requested(a)' PROVE Requests'
  BY <1>2, RequestedStays DEF Requests, OnlyAdm
<1>3. ASSUME NEW a \in Admins, ReadConfiguration(a), ~Crash PROVE Requests'
  <2>1. /\ mem.up /\ OnlyAdm(a) /\ adm'[a].pc = "read" /\ adm'[a].rev = db.rev
        /\ adm'[a].base = Document /\ mem' = mem /\ db' = db /\ Document' = Document
    BY <1>3, ReadEffect DEF Document
  <2>2. Requested(a)'
    BY <2>1, DbOf DEF Requested, Deciding
  <2> QED
    BY <1>2, <1>3, <2>1, <2>2
<1>4. ASSUME NEW a \in Admins, ApplyConfiguration(a) \/ \E n \in Enrolled : SetNodeState(a, n), ~Crash
      PROVE  Requests'
  <2>1. /\ mem.up /\ adm[a].pc = "read" /\ mem'.up = mem.up /\ db' = db /\ Enrolled' = Enrolled
        /\ Document' = Document
    BY <1>4, BeginEffect DEF KeptMem, Enrolled, Document
  <2>2. CASE Ends(a)
    BY <1>2, <1>4, <2>1, <2>2, EndsRequested DEF Ends
  <2>3. CASE ~Ends(a)
    <3>1. /\ mem'.lock = a /\ OnlyAdm(a) /\ adm'[a].pc = "snap" /\ adm'[a].rev = adm[a].rev
          /\ adm'[a].base = adm[a].base /\ adm'[a].op # "none"
          /\ adm'[a].op # "apply" => adm'[a].n \in Enrolled
      BY <1>4, <2>3, BeginEffect
    <3>2. Requested(a)'
      BY <2>1, <3>1 DEF Requests, Requested, Deciding
    <3> QED
      BY <1>2, <1>4, <3>1, <3>2
  <2> QED
    BY <2>2, <2>3
<1>5. ASSUME NEW a \in Admins, ReadSnapshot(a), ~Crash PROVE Requests'
  <2>1. /\ adm[a].pc = "snap" /\ Goes(a, "ensure") /\ db' = db /\ Enrolled' = Enrolled
        /\ \A n \in Enrolled : adm'[a].top[n].adm = db.nodes[n].adm
    BY <1>5, SnapshotEffect DEF Enrolled
  <2>2. \A n \in Enrolled' : adm'[a].top[n] # NoProj
    BY <2>1, NoProjFields DEF Rows, Row
  <2>3. Requested(a)'
    BY <1>5, <2>1, <2>2, GoesRequested DEF Deciding
  <2> QED
    BY <1>2, <1>5, <2>1, <2>3 DEF Goes
<1>6. ASSUME NEW a \in Admins, EnsureDurableNodeProjection(a), ~Crash PROVE Requests'
  <2>1. adm[a].pc = "ensure" /\ db' = db /\ Enrolled' = Enrolled
    BY <1>6, DurableEffect DEF Enrolled
  <2>2. CASE Ends(a)
    BY <1>2, <1>6, <2>1, <2>2, EndsRequested DEF Ends
  <2>3. CASE ~Ends(a)
    <3>1. PICK pc \in {"enter", "verify"} : Goes(a, pc)
      BY <1>6, <2>3, DurableEffect
    <3>2. \A n \in Nodes : /\ mem.nodes[n] = NoProj => mem'.nodes[n] = adm[a].top[n]
                           /\ mem.nodes[n] # NoProj => mem'.nodes[n] = mem.nodes[n]
      BY <1>6, <2>3, DurableEffect
    <3>3. adm[a].rev = db'.rev => \A n \in Enrolled' : mem'.nodes[n] # NoProj
      BY <2>1, <3>2, EnrolledNodes DEF Requests, Requested
    <3>4. Requested(a)'
      BY <1>6, <2>1, <3>1, <3>3, GoesRequested
    <3> QED
      BY <1>2, <1>6, <3>1, <3>4 DEF Goes
  <2> QED
    BY <2>2, <2>3
<1>7. ASSUME NEW a \in Admins, Passes(a), ~Crash PROVE Requests'
  <2>1. /\ adm[a].pc \in {"verify", "provision", "enter", "mark"} /\ KeptRows /\ KeptMem
        /\ \/ Ends(a)
           \/ \E pc \in {"provision", "enter", "commit", "project"} :
                Goes(a, pc) /\ (pc = "project" <=> adm[a].pc = "mark")
    BY <1>7, PassEffect
  <2>2. CASE Ends(a)
    BY <1>2, <1>7, <2>1, <2>2, EndsRequested DEF Ends
  <2>3. ASSUME NEW pc \in {"provision", "enter", "commit", "project"},
               Goes(a, pc), pc = "project" <=> adm[a].pc = "mark"
        PROVE  Requests'
    <3>1. pc \in Deciding /\ adm[a].rev = db'.rev => \A n \in Enrolled' : mem'.nodes[n] # NoProj
      BY <2>1, <2>3 DEF Requests, Requested, KeptRows, KeptMem, Deciding
    <3>2. Requested(a)'
      BY <1>7, <2>1, <2>3, <3>1, GoesRequested
    <3> QED
      BY <1>2, <1>7, <2>3, <3>2 DEF Goes
  <2> QED
    BY <2>1, <2>2, <2>3
<1>8. ASSUME NEW a \in Admins, CommitMutation(a), ~Crash PROVE Requests'
  <2>1. adm[a].pc = "commit" /\ (Ends(a) \/ \E pc \in Committed : Goes(a, pc))
    BY <1>8, CommitEffect DEF Committed
  <2>2. CASE Ends(a)
    BY <1>2, <1>8, <2>1, <2>2, EndsRequested DEF Ends
  <2>3. ASSUME NEW pc \in Committed, Goes(a, pc) PROVE Requests'
    <3>1. Requested(a)'
      BY <1>8, <2>1, <2>3, GoesRequested DEF Committed, Deciding
    <3> QED
      BY <1>2, <1>8, <2>3, <3>1 DEF Goes
  <2> QED
    BY <2>1, <2>2, <2>3
<1>9. ASSUME NEW a \in Admins, CommitFails(a), ~Crash PROVE Requests'
  <2>1. adm[a].pc = "commit" /\ Ends(a)
    BY <1>9, FailEffect
  <2> QED
    BY <1>2, <1>9, <2>1, EndsRequested DEF Ends
<1>10. ASSUME NEW a \in Admins, NotifyRevocation(a), ~Crash PROVE Requests'
  <2>1. adm[a].pc = "notify" /\ Goes(a, "project")
    BY <1>10, NotifyEffect
  <2>2. Requested(a)'
    BY <1>10, <2>1, GoesRequested DEF Deciding
  <2> QED
    BY <1>2, <1>10, <2>1, <2>2 DEF Goes
<1>11. ASSUME NEW a \in Admins, ProjectMutation(a), ~Crash PROVE Requests'
  <2>1. adm[a].pc = "project" /\ Ends(a)
    BY <1>11, ProjectEffect
  <2> QED
    BY <1>2, <1>11, <2>1, EndsRequested DEF Ends
<1>12. ASSUME UNCHANGED adm, ~Crash PROVE Requests'
  BY <1>12, RequestedStays DEF Requests
<1> QED
  BY <1>1, <1>3, <1>4, <1>5, <1>6, <1>7, <1>8, <1>9, <1>10, <1>11, <1>12, ChangesAdm

\* The steps that change memory.
LEMMA ChangesMem ==
  ASSUME ManagementNext
  PROVE  \/ UNCHANGED mem
         \/ StartController
         \/ Crash
         \/ TokenAuditFails
         \/ \E r \in Reqs : EnsureNode(r)
         \/ \E r \in Reqs : ConsumeFails(r)
         \/ \E n \in Nodes : ProjectQuarantine(n)
         \/ \E a \in Admins : ApplyConfiguration(a) \/ \E n \in Enrolled : SetNodeState(a, n)
         \/ \E a \in Admins : EnsureDurableNodeProjection(a)
         \/ \E a \in Admins : Passes(a)
         \/ \E a \in Admins : CommitMutation(a)
         \/ \E a \in Admins : CommitFails(a)
         \/ \E a \in Admins : ProjectMutation(a)
  BY DEF ManagementNext, AdminStep, Passes, EnrollStep, CreateJoinCode, CancelJoinCode, JoinAgent,
     AbandonJoin, LoseConnection, ReinstallAgent, DialAgent, RegisterSession,
     ConsumeEnrollment, ReplayEnrollment, ReadTopology, Reply, FinalizeEnrollment,
     BreakSession, QuarantineNode, ReadConfiguration, ReadSnapshot, NotifyRevocation

\* The steps of the enrollment requests.
LEMMA ChangesEnr ==
  ASSUME ManagementNext
  PROVE  \/ UNCHANGED enr
         \/ Crash
         \/ \E a \in Agents, c \in Codes : JoinAgent(a, c)
         \/ \E r \in Reqs : ConsumeEnrollment(r)
         \/ \E r \in Reqs : ReplayEnrollment(r)
         \/ \E r \in Reqs : ReadTopology(r)
         \/ \E r \in Reqs : EnsureNode(r)
         \/ \E r \in Reqs : Reply(r)
         \/ \E r \in Reqs : ConsumeFails(r)
  BY DEF ManagementNext, AdminStep, EnrollStep, StartController, TokenAuditFails,
     CreateJoinCode, CancelJoinCode, AbandonJoin, LoseConnection, ReinstallAgent, DialAgent,
     RegisterSession, FinalizeEnrollment, BreakSession, QuarantineNode, ProjectQuarantine,
     ReadConfiguration, ApplyConfiguration, SetNodeState, Begin, ReadSnapshot,
     EnsureDurableNodeProjection,
     EnterStore, BeginProvisioning, Provision,
     ProvisioningFailed, MarkCommitted, MarkFails, CommitMutation, CommitFails, NotifyRevocation,
     ProjectMutation

\* A committed mutation stays one until it is projected, or until its mark fails.
LEMMA OwesStill ==
  ASSUME ManagementInv, ManagementNext, ~Crash, NEW o \in Admins, adm[o].pc \in Committed,
         ~ProjectMutation(o), adm[o].pc # "mark" \/ ~mem'.unmarked
  PROVE  /\ adm'[o].pc \in Committed /\ adm'[o].op = adm[o].op /\ adm'[o].n = adm[o].n
         /\ adm'[o].doc = adm[o].doc
<1> USE DEF ManagementInv
<1>1. ASSUME NEW a \in Admins, OnlyAdm(a), a = o => Goes(o, "project")
      PROVE  /\ adm'[o].pc \in Committed /\ adm'[o].op = adm[o].op /\ adm'[o].n = adm[o].n
             /\ adm'[o].doc = adm[o].doc
  BY <1>1 DEF OnlyAdm, Goes, Committed
<1>2. ASSUME NEW a \in Admins, ReadConfiguration(a) PROVE OnlyAdm(a) /\ a # o
  BY <1>2, ReadEffect DEF Committed
<1>3. ASSUME NEW a \in Admins, ApplyConfiguration(a) \/ \E n \in Enrolled : SetNodeState(a, n)
      PROVE  OnlyAdm(a) /\ a # o
  BY <1>3, BeginEffect DEF Committed, Ends
<1>4. ASSUME NEW a \in Admins, ReadSnapshot(a) PROVE OnlyAdm(a) /\ a # o
  BY <1>4, SnapshotEffect DEF Committed, Goes
<1>5. ASSUME NEW a \in Admins, EnsureDurableNodeProjection(a) PROVE OnlyAdm(a) /\ a # o
  BY <1>5, DurableEffect DEF Committed, Goes, Ends
<1>6. ASSUME NEW a \in Admins, Passes(a) PROVE OnlyAdm(a) /\ (a = o => Goes(o, "project"))
  BY <1>6, PassEffect DEF Committed, Goes, Ends
<1>7. ASSUME NEW a \in Admins, CommitMutation(a) PROVE OnlyAdm(a) /\ a # o
  BY <1>7, CommitEffect DEF Committed, Goes, Ends
<1>8. ASSUME NEW a \in Admins, CommitFails(a) PROVE OnlyAdm(a) /\ a # o
  BY <1>8, FailEffect DEF Committed, Ends
<1>9. ASSUME NEW a \in Admins, NotifyRevocation(a) PROVE OnlyAdm(a) /\ Goes(a, "project")
  BY <1>9, NotifyEffect DEF Goes
<1>10. ASSUME NEW a \in Admins, ProjectMutation(a) PROVE OnlyAdm(a) /\ a # o
  BY <1>10, ProjectEffect DEF Ends
<1> QED
  BY <1>1, <1>2, <1>3, <1>4, <1>5, <1>6, <1>7, <1>8, <1>9, <1>10, ChangesAdm

\* It becomes one by its commit.
LEMMA OwesBefore ==
  ASSUME ManagementInv, ManagementNext, ~Crash, NEW o \in Admins, adm'[o].pc \in Committed,
         ~CommitMutation(o)
  PROVE  /\ adm[o].pc \in Committed /\ adm'[o].op = adm[o].op /\ adm'[o].n = adm[o].n
         /\ adm'[o].doc = adm[o].doc /\ ~ProjectMutation(o)
         /\ adm'[o].pc = "mark" => adm[o].pc = "mark"
<1> USE DEF ManagementInv
<1>1. ASSUME NEW a \in Admins, OnlyAdm(a), a = o => adm[o].pc \in Committed /\ Goes(o, "project")
      PROVE  /\ adm[o].pc \in Committed /\ adm'[o].op = adm[o].op /\ adm'[o].n = adm[o].n
             /\ adm'[o].doc = adm[o].doc /\ (adm'[o].pc = "mark" => adm[o].pc = "mark")
  BY <1>1 DEF OnlyAdm, Goes, Committed
<1>2. ASSUME NEW a \in Admins, ReadConfiguration(a) PROVE OnlyAdm(a) /\ a # o
  BY <1>2, ReadEffect DEF Committed
<1>3. ASSUME NEW a \in Admins, ApplyConfiguration(a) \/ \E n \in Enrolled : SetNodeState(a, n)
      PROVE  OnlyAdm(a) /\ a # o
  BY <1>3, BeginEffect DEF Committed, Ends
<1>4. ASSUME NEW a \in Admins, ReadSnapshot(a) PROVE OnlyAdm(a) /\ a # o
  BY <1>4, SnapshotEffect DEF Committed, Goes
<1>5. ASSUME NEW a \in Admins, EnsureDurableNodeProjection(a) PROVE OnlyAdm(a) /\ a # o
  BY <1>5, DurableEffect DEF Committed, Goes, Ends
<1>6. ASSUME NEW a \in Admins, Passes(a)
      PROVE  OnlyAdm(a) /\ (a = o => adm[o].pc \in Committed /\ Goes(o, "project"))
  BY <1>6, PassEffect DEF Committed, Goes, Ends
<1>7. ASSUME NEW a \in Admins, CommitMutation(a) PROVE OnlyAdm(a) /\ a # o
  BY <1>7, CommitEffect DEF Goes, Ends
<1>8. ASSUME NEW a \in Admins, CommitFails(a) PROVE OnlyAdm(a) /\ a # o
  BY <1>8, FailEffect DEF Committed, Ends
<1>9. ASSUME NEW a \in Admins, NotifyRevocation(a)
      PROVE  OnlyAdm(a) /\ adm[a].pc \in Committed /\ Goes(a, "project")
  BY <1>9, NotifyEffect DEF Goes, Committed
<1>10. ASSUME NEW a \in Admins, ProjectMutation(a) PROVE OnlyAdm(a) /\ a # o
  BY <1>10, ProjectEffect DEF Ends, Committed
<1>11. /\ adm[o].pc \in Committed /\ adm'[o].op = adm[o].op /\ adm'[o].n = adm[o].n
       /\ adm'[o].doc = adm[o].doc /\ (adm'[o].pc = "mark" => adm[o].pc = "mark")
  BY <1>1, <1>2, <1>3, <1>4, <1>5, <1>6, <1>7, <1>8, <1>9, <1>10, ChangesAdm
<1> QED
  BY <1>10, <1>11

\* mutationMu keeps every other administrator out until the mutation is projected.
LEMMA OnlyCommitted ==
  ASSUME ManagementInv, NEW o \in Admins, adm[o].pc \in Committed, NEW a \in Admins,
         adm[a].pc \notin {"idle", "read"}
  PROVE  a = o
  BY DEF ManagementInv, Requests, Requested, Committed

\* What the steps do to the row of an enrolled node.
LEMMA RowChanges ==
  ASSUME ManagementInv, ManagementNext, NEW n \in Enrolled
  PROVE  \/ db'.nodes[n] = db.nodes[n]
         \/ QuarantineNode(n)
         \/ \E a \in Admins : CommitMutation(a)
<1> USE DEF ManagementInv
<1>0. n \in Nodes
  BY EnrolledNodes
<1>1. ASSUME StartController PROVE db'.nodes[n] = db.nodes[n]
  BY <1>1, StartEffect DEF KeptRows
<1>2. ASSUME NEW c \in Codes, CreateJoinCode(c) PROVE db'.nodes[n] = db.nodes[n]
  BY <1>2, CreateEffect DEF KeptRows
<1>3. ASSUME NEW c \in Codes, CancelJoinCode(c) PROVE db'.nodes[n] = db.nodes[n]
  BY <1>3, CancelEffect DEF KeptRows
<1>4. ASSUME NEW r \in Reqs, ConsumeEnrollment(r) PROVE db'.nodes[n] = db.nodes[n]
  <2>1. CASE db' = db
    BY <2>1
  <2>2. CASE db' # db
    <3>1. PICK m \in Nodes : m \notin Enrolled /\ \A i \in Nodes \ {m} : db'.nodes[i] = db.nodes[i]
      BY <1>4, <2>2, ConsumeEffect
    <3> QED
      BY <1>0, <3>1
  <2> QED
    BY <2>1, <2>2
<1>5. ASSUME NEW m \in Nodes, FinalizeEnrollment(m) PROVE db'.nodes[n] = db.nodes[n]
  BY <1>5, FinalizeEffect DEF KeptRows
<1>6. ASSUME NEW m \in Nodes, QuarantineNode(m) PROVE db'.nodes[n] = db.nodes[n] \/ QuarantineNode(n)
  BY <1>0, <1>6, QuarantineEffect
<1>7. ASSUME NEW a \in Admins, Passes(a) PROVE db'.nodes[n] = db.nodes[n]
  BY <1>7, PassEffect DEF KeptRows
<1>8. ASSUME NEW a \in Admins, CommitFails(a) PROVE db'.nodes[n] = db.nodes[n]
  BY <1>8, FailEffect DEF KeptRows
<1> QED
  BY <1>1, <1>2, <1>3, <1>4, <1>5, <1>6, <1>7, <1>8, ChangesDb

\* What the steps do to a node's projection, in a process that goes on.
LEMMA ProjectionChanges ==
  ASSUME ManagementInv, ManagementNext, ~Crash, ~StartController, NEW n \in Nodes
  PROVE  \/ mem'.nodes[n] = mem.nodes[n]
         \/ /\ mem.nodes[n] = NoProj /\ Fresh(mem'.nodes[n]) /\ n \in Enrolled
            /\ mem.up /\ db' = db
         \/ ProjectQuarantine(n)
         \/ \E a \in Admins : ProjectMutation(a)
<1> USE DEF ManagementInv
<1>1. ASSUME KeptMem PROVE mem'.nodes[n] = mem.nodes[n]
  BY <1>1 DEF KeptMem
<1>2. ASSUME NEW r \in Reqs, EnsureNode(r), mem'.nodes[n] # mem.nodes[n]
      PROVE  mem.nodes[n] = NoProj /\ Fresh(mem'.nodes[n]) /\ n \in Enrolled /\ mem.up /\ db' = db
  <2>1. /\ enr[r].pc = "ensure" /\ enr[r].n = n /\ mem.nodes[n] = NoProj
        /\ mem'.nodes[n] = enr[r].top /\ db' = db
    BY <1>2, EnsureEffect
  <2> QED
    BY <2>1 DEF Unprojected, Handlers, Handler
<1>3. ASSUME NEW a \in Admins, EnsureDurableNodeProjection(a), mem'.nodes[n] # mem.nodes[n]
      PROVE  mem.nodes[n] = NoProj /\ Fresh(mem'.nodes[n]) /\ n \in Enrolled /\ mem.up /\ db' = db
  <2>1. /\ adm[a].pc = "ensure" /\ mem.nodes[n] = NoProj /\ mem'.nodes[n] = adm[a].top[n]
        /\ db' = db
    BY <1>3, DurableEffect
  <2> QED
    BY <1>3, <2>1 DEF Unprojected, Requests, Requested
<1>4. ASSUME NEW m \in Nodes, ProjectQuarantine(m)
      PROVE  mem'.nodes[n] = mem.nodes[n] \/ ProjectQuarantine(n)
  BY <1>4, ProjectQuarantineEffect
<1>5. ASSUME TokenAuditFails PROVE KeptMem
  BY <1>5, TokenAuditEffect
<1>6. ASSUME NEW r \in Reqs, ConsumeFails(r) PROVE KeptMem
  BY <1>6, ConsumeFailsEffect
<1>7. ASSUME NEW a \in Admins, ApplyConfiguration(a) \/ \E m \in Enrolled : SetNodeState(a, m)
      PROVE  KeptMem
  BY <1>7, BeginEffect
<1>8. ASSUME NEW a \in Admins, Passes(a) PROVE KeptMem
  BY <1>8, PassEffect
<1>9. ASSUME NEW a \in Admins, CommitMutation(a) PROVE KeptMem
  BY <1>9, CommitEffect
<1>10. ASSUME NEW a \in Admins, CommitFails(a) PROVE KeptMem
  BY <1>10, FailEffect
<1> QED
  BY <1>1, <1>2, <1>3, <1>4, <1>5, <1>6, <1>7, <1>8, <1>9, <1>10, ChangesMem

\* A quarantine is projected before it is forgotten.
LEMMA QuarStays ==
  ASSUME ManagementInv, ManagementNext, ~Crash, NEW n \in quar, ~ProjectQuarantine(n)
  PROVE  n \in quar'
<1> USE DEF ManagementInv
<1>1. ASSUME NEW m \in Nodes, QuarantineNode(m) PROVE n \in quar'
  BY <1>1, QuarantineEffect
<1>2. ASSUME NEW m \in Nodes, ProjectQuarantine(m) PROVE n \in quar'
  BY <1>2, ProjectQuarantineEffect
<1> QED
  BY <1>1, <1>2, ChangesQuar

\* Every step preserves what a committed mutation owes.
LEMMA PendingStep ==
  ASSUME ManagementInv, ManagementNext
  PROVE  Pending'
<1> USE DEF ManagementInv
<1>1. CASE Crash
  BY <1>1, CrashEffect DEF Pending, Owing, Committed
<1>2. ASSUME ~Crash, NEW o \in Admins, adm'[o].pc \in Committed, CommitMutation(o)
      PROVE  Owing(o)'
  <2>1. adm[o].pc = "commit" /\ KeptMem
    BY <1>2, CommitEffect
  <2>2. CASE adm[o].op = "apply"
    <3>1. /\ \A n \in Nodes : db'.nodes[n].max = adm[o].doc.max[n]
          /\ \E pc \in {"mark", "project"} : Goes(o, pc)
      BY <1>2, <2>2, CommitEffect DEF Ends, Committed
    <3> QED
      BY <2>2, <3>1 DEF Owing, Goes
  <2>3. CASE adm[o].op # "apply"
    <3>1. PICK n \in Enrolled, op \in {"active", "draining", "revoked"} :
            /\ adm[o].rev = db.rev /\ n = adm[o].n /\ op = adm[o].op /\ db'.nodes[n].adm = op
            /\ op = "revoked" => Goes(o, "notify")
            /\ op # "revoked" => Goes(o, "project")
      BY <1>2, <2>3, CommitEffect DEF Ends, Committed
    <3>2. adm'[o].n = n /\ adm'[o].op = op /\ adm'[o].pc # "mark"
      BY <3>1 DEF Goes
    <3>3. mem'.nodes[n] # NoProj
      BY <2>1, <3>1 DEF Requests, Requested, Deciding, KeptMem
    <3> QED
      BY <3>1, <3>2, <3>3 DEF Owing
  <2> QED
    BY <2>2, <2>3
<1>3. ASSUME ~Crash, NEW o \in Admins, adm'[o].pc \in Committed, ~CommitMutation(o)
      PROVE  Owing(o)'
  <2>1. /\ adm[o].pc \in Committed /\ adm'[o].op = adm[o].op /\ adm'[o].n = adm[o].n
        /\ adm'[o].doc = adm[o].doc /\ ~ProjectMutation(o)
        /\ adm'[o].pc = "mark" => adm[o].pc = "mark"
    BY <1>3, OwesBefore
  <2>2. Owing(o) /\ mem.up
    BY <2>1 DEF Pending, Requests, Requested, Committed
  <2>3. ~(\E a \in Admins : CommitMutation(a)) /\ ~(\E a \in Admins : ProjectMutation(a))
    BY <1>3, <2>1, CommitEffect, ProjectEffect, OnlyCommitted
  <2>4. ~StartController
    BY <2>2, StartEffect
  <2>5. \A n \in Enrolled : db'.nodes[n] = db.nodes[n] \/ QuarantineNode(n)
    BY <2>3, RowChanges
  <2>6. CASE adm[o].op = "apply"
    <3>1. ASSUME NEW n \in Nodes, adm[o].doc.max[n] # 0 PROVE db'.nodes[n].max = adm[o].doc.max[n]
      <4>1. db.nodes[n].max = adm[o].doc.max[n]
        BY <2>1, <2>2, <2>6, <3>1 DEF Owing
      <4>2. n \in Enrolled
        BY <3>1, <4>1, NoNodeFields DEF Enrolled
      <4> QED
        BY <2>5, <4>1, <4>2, QuarantineEffect
    <3> QED
      BY <2>1, <2>6, <3>1 DEF Owing
  <2>7. CASE adm[o].op # "apply"
    <3> DEFINE n == adm[o].n
    <3>1. n \in Enrolled /\ n \in Nodes /\ mem.nodes[n] # NoProj /\ adm'[o].pc # "mark"
      BY <2>1, <2>2, <2>7, EnrolledNodes DEF Requests, Requested, Committed, Owing
    <3>2. mem'.nodes[n] # NoProj
      BY <1>3, <3>1, MemoryStays DEF MemoryKept
    <3>3. QuarantineNode(n) => db'.nodes[n].adm = "quarantined" /\ n \in quar'
      BY <3>1, QuarantineEffect
    <3>4. n \in quar \/ mem.nodes[n].adm = "quarantined" =>
            n \in quar' \/ mem'.nodes[n].adm = "quarantined"
      BY <1>3, <2>3, <2>4, <3>1, QuarStays, ProjectionChanges, ProjectQuarantineEffect
    <3> HIDE DEF n
    <3>5. Owing(o) => /\ adm[o].op \in {"draining", "revoked"} => db.nodes[n].adm # "active"
                      /\ adm[o].op = "active" =>
                           \/ db.nodes[n].adm = "active"
                           \/ /\ db.nodes[n].adm = "quarantined"
                              /\ n \in quar \/ mem.nodes[n].adm = "quarantined"
      BY <2>1 DEF Owing, n
    <3>6. /\ adm[o].op \in {"draining", "revoked"} => db'.nodes[n].adm # "active"
          /\ adm[o].op = "active" =>
               \/ db'.nodes[n].adm = "active"
               \/ /\ db'.nodes[n].adm = "quarantined"
                  /\ n \in quar' \/ mem'.nodes[n].adm = "quarantined"
      BY <2>2, <2>5, <3>1, <3>3, <3>4, <3>5
    <3> QED
      BY <2>1, <2>7, <3>1, <3>2, <3>6 DEF Owing, n
  <2> QED
    BY <2>6, <2>7
<1>4. ASSUME NEW o \in Admins, adm'[o].pc \notin Committed PROVE Owing(o)'
  BY <1>4 DEF Owing, Committed
<1> QED
  BY <1>1, <1>2, <1>3, <1>4 DEF Pending

\* Memory knows enrolled nodes only.
LEMMA ProjectedStep ==
  ASSUME ManagementInv, ManagementNext, NEW n \in Nodes, mem'.nodes[n] # NoProj
  PROVE  mem'.up /\ n \in Enrolled' /\ mem'.nodes[n].adm # "none" /\ mem'.nodes[n].max # 0
<1> USE DEF ManagementInv
<1>0. Enrolled \subseteq Enrolled'
  BY NodesStay DEF NodesKept
<1>1. CASE Crash
  BY <1>1, CrashEffect
<1>2. CASE StartController
  <2>1. n \in Enrolled
    BY <1>2, StartEffect
  <2> QED
    BY <1>0, <1>2, <2>1, StartEffect DEF Rows, Row
<1>3. CASE ~Crash /\ ~StartController
  <2>1. mem.up => mem'.up
    BY <1>3, MemoryStays DEF MemoryKept
  <2>2. CASE mem'.nodes[n] = mem.nodes[n]
    BY <1>0, <2>1, <2>2 DEF Unprojected
  <2>3. CASE Fresh(mem'.nodes[n]) /\ n \in Enrolled /\ mem.up
    BY <1>0, <2>1, <2>3 DEF Fresh
  <2>4. CASE ProjectQuarantine(n)
    <3>1. /\ mem.nodes[n] # NoProj /\ mem'.nodes[n].adm = "quarantined"
          /\ mem'.nodes[n].max = mem.nodes[n].max
      BY <2>4, ProjectQuarantineEffect
    <3> QED
      BY <1>0, <2>1, <3>1 DEF Unprojected
  <2>5. ASSUME NEW a \in Admins, ProjectMutation(a), mem'.nodes[n] # mem.nodes[n]
        PROVE  mem.nodes[n] # NoProj /\ mem'.nodes[n].adm # "none" /\ mem'.nodes[n].max # 0
    <3>1. CASE adm[a].op = "apply"
      <4>1. /\ mem'.nodes[n].adm = mem.nodes[n].adm
            /\ mem.nodes[n] = NoProj => mem'.nodes[n] = NoProj
            /\ mem.nodes[n] # NoProj => mem'.nodes[n].max # 0
        BY <2>5, <3>1, ProjectEffect
      <4> QED
        BY <4>1 DEF Unprojected
    <3>2. CASE adm[a].op # "apply"
      <4>1. PICK m \in Enrolled, op \in {"active", "draining", "revoked"} :
               /\ \A i \in Nodes \ {m} : mem'.nodes[i] = mem.nodes[i]
               /\ mem'.nodes[m].max = mem.nodes[m].max
               /\ \/ mem'.nodes = mem.nodes
                  \/ mem'.nodes[m].adm = op /\ mem.nodes[m].adm # "none"
        BY <2>5, <3>2, ProjectEffect
      <4>2. m = n /\ mem'.nodes[n].adm = op /\ mem.nodes[n].adm # "none"
        BY <2>5, <4>1
      <4>3. mem.nodes[n] # NoProj
        BY <4>2, NoProjFields
      <4> QED
        BY <4>1, <4>2, <4>3 DEF Unprojected
    <3> QED
      BY <3>1, <3>2
  <2>6. CASE \E a \in Admins : ProjectMutation(a)
    BY <1>0, <2>1, <2>2, <2>5, <2>6 DEF Unprojected
  <2> QED
    BY <1>3, <2>2, <2>3, <2>4, <2>6, ProjectionChanges
<1> QED
  BY <1>1, <1>2, <1>3

\* Only an enrollment makes a node.
LEMMA ConsumesOnly ==
  ASSUME ManagementInv, ManagementNext, NEW n \in Enrolled', n \notin Enrolled
  PROVE  \E r \in Reqs : ConsumeEnrollment(r)
<1> USE DEF ManagementInv
<1>1. ASSUME StartController PROVE FALSE
  BY <1>1, StartEffect DEF KeptRows
<1>2. ASSUME NEW c \in Codes, CreateJoinCode(c) PROVE FALSE
  BY <1>2, CreateEffect DEF KeptRows
<1>3. ASSUME NEW c \in Codes, CancelJoinCode(c) PROVE FALSE
  BY <1>3, CancelEffect DEF KeptRows
<1>4. ASSUME NEW m \in Nodes, FinalizeEnrollment(m) PROVE FALSE
  BY <1>4, FinalizeEffect DEF KeptRows
<1>5. ASSUME NEW m \in Nodes, QuarantineNode(m) PROVE FALSE
  BY <1>5, QuarantineEffect
<1>6. ASSUME NEW a \in Admins, Passes(a) PROVE FALSE
  BY <1>6, PassEffect DEF KeptRows
<1>7. ASSUME NEW a \in Admins, CommitMutation(a) PROVE FALSE
  BY <1>7, CommitEffect DEF KeptRows
<1>8. ASSUME NEW a \in Admins, CommitFails(a) PROVE FALSE
  BY <1>8, FailEffect DEF KeptRows
<1>9. ASSUME UNCHANGED db PROVE FALSE
  BY <1>9 DEF Enrolled
<1> QED
  BY <1>1, <1>2, <1>3, <1>4, <1>5, <1>6, <1>7, <1>8, <1>9, ChangesDb

\* A node that memory does not know is as its enrollment made it.
LEMMA FreshStep ==
  ASSUME ManagementInv, ManagementNext, mem'.up, NEW n \in Enrolled', mem'.nodes[n] = NoProj
  PROVE  Fresh(db'.nodes[n]) /\ mem.up /\ mem.nodes[n] = NoProj
<1> USE DEF ManagementInv
<1>0. ~Crash
  BY CrashEffect
<1>1. ASSUME StartController PROVE FALSE
  <2>1. n \in Enrolled /\ mem'.nodes[n].adm = db.nodes[n].adm
    BY <1>1, StartEffect DEF KeptRows
  <2> QED
    BY <2>1, NoProjFields DEF Rows, Row
<1>2. mem.up
  BY <1>1, DownAgain
<1>3. CASE n \in Enrolled
  <2>0. n \in Nodes
    BY <1>3, EnrolledNodes
  <2>1. mem.nodes[n] = NoProj
    BY <1>0, <2>0, MemoryStays DEF MemoryKept
  <2>2. Fresh(db.nodes[n])
    BY <1>2, <1>3, <2>1 DEF Unprojected
  <2>3. ~QuarantineNode(n)
    BY <2>0, <2>1, QuarantineEffect DEF Sessions
  <2>4. ASSUME NEW a \in Admins, CommitMutation(a), db'.nodes[n] # db.nodes[n] PROVE FALSE
    <3>1. adm[a].pc = "commit" /\ adm[a].rev = db.rev
      BY <2>4, CommitEffect DEF KeptRows
    <3> QED
      BY <1>3, <2>1, <3>1 DEF Requests, Requested, Deciding
  <2> QED
    BY <1>2, <1>3, <2>1, <2>2, <2>3, <2>4, RowChanges
<1>4. CASE n \notin Enrolled
  <2>1. PICK r \in Reqs : ConsumeEnrollment(r)
    BY <1>4, ConsumesOnly
  <2>2. db' # db
    BY <1>4 DEF Enrolled
  <2>3. Fresh(db'.nodes[n]) /\ mem' = mem
    BY <1>4, <2>1, <2>2, ConsumeEffect
  <2> QED
    BY <1>2, <2>3
<1> QED
  BY <1>3, <1>4

\* An enrollment request reads the topology of a node that memory does not know as its
\* enrollment made it.
LEMMA ObservedStep ==
  ASSUME ManagementInv, ManagementNext, NEW n \in Nodes, NEW r \in Reqs,
         mem'.nodes[n] = NoProj, enr'[r].pc = "ensure", enr'[r].n = n
  PROVE  Fresh(enr'[r].top)
<1> USE DEF ManagementInv
<1>0. ~Crash
  BY CrashEffect
<1>1. mem.nodes[n] = NoProj
  BY <1>0, MemoryStays DEF MemoryKept
<1>2. CASE enr'[r] = enr[r]
  BY <1>1, <1>2 DEF Unprojected
<1>3. ASSUME NEW o \in Reqs, ReadTopology(o) PROVE Fresh(enr'[r].top)
  <2>1. CASE o = r
    <3>1. /\ enr[r].pc = "read" /\ enr[r].n = n /\ n \in Enrolled
          /\ enr'[r].top.adm = db.nodes[n].adm /\ enr'[r].top.cred = db.nodes[n].cred
          /\ enr'[r].top.max = db.nodes[n].max
      BY <1>3, <2>1, TopologyEffect
    <3>2. Fresh(db.nodes[n])
      BY <1>1, <3>1 DEF Unprojected, Handlers, Handler
    <3> QED
      BY <3>1, <3>2 DEF Fresh
  <2> QED
    BY <1>2, <1>3, <2>1, TopologyEffect DEF OnlyEnr
<1>4. ASSUME NEW a \in Agents, NEW c \in Codes, JoinAgent(a, c) PROVE enr'[r] = enr[r]
  BY <1>4, JoinEffect DEF OnlyEnr
<1>5. ASSUME NEW o \in Reqs, ConsumeEnrollment(o) PROVE enr'[r] = enr[r]
  BY <1>5, ConsumeEffect DEF OnlyEnr
<1>6. ASSUME NEW o \in Reqs, ReplayEnrollment(o) PROVE enr'[r] = enr[r]
  BY <1>6, ReplayEffect DEF OnlyEnr
<1>7. ASSUME NEW o \in Reqs, EnsureNode(o) PROVE enr'[r] = enr[r]
  BY <1>7, EnsureEffect DEF OnlyEnr
<1>8. ASSUME NEW o \in Reqs, Reply(o) PROVE enr'[r] = enr[r]
  BY <1>8, ReplyEffect DEF OnlyEnr
<1>9. ASSUME NEW o \in Reqs, ConsumeFails(o) PROVE enr'[r] = enr[r]
  BY <1>9, ConsumeFailsEffect DEF OnlyEnr
<1> QED
  BY <1>0, <1>2, <1>3, <1>4, <1>5, <1>6, <1>7, <1>8, <1>9, ChangesEnr

\* So does a mutation.
LEMMA SnapshotStep ==
  ASSUME ManagementInv, ManagementNext, NEW n \in Nodes, NEW a \in Admins,
         adm'[a].pc = "ensure", adm'[a].top[n] # NoProj
  PROVE  /\ n \in Enrolled' /\ adm'[a].top[n].adm # "none" /\ adm'[a].top[n].max # 0
         /\ mem'.nodes[n] = NoProj => Fresh(adm'[a].top[n])
<1> USE DEF ManagementInv
<1> DEFINE Goal == /\ n \in Enrolled' /\ adm'[a].top[n].adm # "none" /\ adm'[a].top[n].max # 0
                   /\ mem'.nodes[n] = NoProj => Fresh(adm'[a].top[n])
<1>0. ~Crash /\ Enrolled \subseteq Enrolled'
  BY CrashEffect, NodesStay DEF NodesKept
<1>1. mem'.nodes[n] = NoProj => mem.nodes[n] = NoProj
  BY <1>0, MemoryStays DEF MemoryKept
<1>2. CASE adm'[a] = adm[a]
  BY <1>0, <1>1, <1>2 DEF Unprojected
<1>3. ASSUME NEW o \in Admins, ReadSnapshot(o) PROVE Goal
  <2>1. CASE o = a
    <3>1. /\ adm[a].pc = "snap" /\ n \in Enrolled
          /\ adm'[a].top[n].adm = db.nodes[n].adm /\ adm'[a].top[n].cred = db.nodes[n].cred
          /\ adm'[a].top[n].max = db.nodes[n].max
      BY <1>3, <2>1, SnapshotEffect
    <3>2. Row(n)
      BY <3>1, CodeOf
    <3>3. mem.up
      BY <3>1 DEF Requests, Requested
    <3>4. mem.nodes[n] = NoProj => Fresh(db.nodes[n])
      BY <3>1, <3>3 DEF Unprojected
    <3> QED
      BY <1>0, <1>1, <3>1, <3>2, <3>4 DEF Row, Fresh
  <2> QED
    BY <1>2, <1>3, <2>1, SnapshotEffect DEF Goes, OnlyAdm
<1>4. ASSUME NEW o \in Admins, OnlyAdm(o), adm'[o].pc # "ensure" PROVE adm'[a] = adm[a]
  BY <1>4 DEF OnlyAdm
<1>5. ASSUME NEW o \in Admins, ReadConfiguration(o) PROVE OnlyAdm(o) /\ adm'[o].pc # "ensure"
  BY <1>5, ReadEffect
<1>6. ASSUME NEW o \in Admins, ApplyConfiguration(o) \/ \E m \in Enrolled : SetNodeState(o, m)
      PROVE  OnlyAdm(o) /\ adm'[o].pc # "ensure"
  BY <1>6, BeginEffect DEF Ends
<1>7. ASSUME NEW o \in Admins, EnsureDurableNodeProjection(o)
      PROVE  OnlyAdm(o) /\ adm'[o].pc # "ensure"
  BY <1>7, DurableEffect DEF Goes, Ends
<1>8. ASSUME NEW o \in Admins, Passes(o) PROVE OnlyAdm(o) /\ adm'[o].pc # "ensure"
  BY <1>8, PassEffect DEF Goes, Ends
<1>9. ASSUME NEW o \in Admins, CommitMutation(o) PROVE OnlyAdm(o) /\ adm'[o].pc # "ensure"
  BY <1>9, CommitEffect DEF Goes, Ends
<1>10. ASSUME NEW o \in Admins, CommitFails(o) PROVE OnlyAdm(o) /\ adm'[o].pc # "ensure"
  BY <1>10, FailEffect DEF Ends
<1>11. ASSUME NEW o \in Admins, NotifyRevocation(o) PROVE OnlyAdm(o) /\ adm'[o].pc # "ensure"
  BY <1>11, NotifyEffect DEF Goes
<1>12. ASSUME NEW o \in Admins, ProjectMutation(o) PROVE OnlyAdm(o) /\ adm'[o].pc # "ensure"
  BY <1>12, ProjectEffect DEF Ends
<1> QED
  BY <1>0, <1>2, <1>3, <1>4, <1>5, <1>6, <1>7, <1>8, <1>9, <1>10, <1>11, <1>12, ChangesAdm

\* Every step preserves what holds of nodes memory does not know.
LEMMA UnprojectedStep ==
  ASSUME ManagementInv, ManagementNext
  PROVE  Unprojected'
  BY ProjectedStep, FreshStep, ObservedStep, SnapshotStep DEF Unprojected

\* A projection is healthy until the next start once it is called unavailable.
LEMMA HealthStays ==
  ASSUME ManagementInv, ManagementNext, ~StartController, mem'.up, mem'.healthy
  PROVE  mem.up /\ mem.healthy /\ ~Crash
<1> USE DEF ManagementInv
<1>1. mem.up /\ ~Crash
  BY DownAgain, CrashEffect
<1>2. ASSUME TokenAuditFails PROVE mem.healthy
  BY <1>2, TokenAuditEffect DEF KeptMem
<1>3. ASSUME NEW r \in Reqs, EnsureNode(r) PROVE mem.healthy
  BY <1>3, EnsureEffect
<1>4. ASSUME NEW r \in Reqs, ConsumeFails(r) PROVE mem.healthy
  BY <1>4, ConsumeFailsEffect DEF KeptMem
<1>5. ASSUME NEW n \in Nodes, ProjectQuarantine(n) PROVE mem.healthy
  BY <1>5, ProjectQuarantineEffect
<1>6. ASSUME NEW a \in Admins, ApplyConfiguration(a) \/ \E n \in Enrolled : SetNodeState(a, n)
      PROVE  mem.healthy
  BY <1>6, BeginEffect DEF KeptMem
<1>7. ASSUME NEW a \in Admins, EnsureDurableNodeProjection(a) PROVE mem.healthy
  BY <1>7, DurableEffect
<1>8. ASSUME NEW a \in Admins, Passes(a) PROVE mem.healthy
  BY <1>8, PassEffect DEF KeptMem
<1>9. ASSUME NEW a \in Admins, CommitMutation(a) PROVE mem.healthy
  BY <1>9, CommitEffect DEF KeptMem
<1>10. ASSUME NEW a \in Admins, CommitFails(a) PROVE mem.healthy
  BY <1>10, FailEffect DEF KeptMem
<1>11. ASSUME NEW a \in Admins, ProjectMutation(a) PROVE mem.healthy
  BY <1>11, ProjectEffect
<1> QED
  BY <1>1, <1>2, <1>3, <1>4, <1>5, <1>6, <1>7, <1>8, <1>9, <1>10, <1>11, ChangesMem

\* A process remembers that a mark has failed in it.
LEMMA UnmarkedStays ==
  ASSUME ManagementInv, ManagementNext, ~Crash, ~StartController, mem.unmarked
  PROVE  mem'.unmarked
<1> USE DEF ManagementInv
<1>1. ASSUME TokenAuditFails PROVE mem'.unmarked
  BY <1>1, TokenAuditEffect DEF KeptMem
<1>2. ASSUME NEW r \in Reqs, EnsureNode(r) PROVE mem'.unmarked
  BY <1>2, EnsureEffect
<1>3. ASSUME NEW r \in Reqs, ConsumeFails(r) PROVE mem'.unmarked
  BY <1>3, ConsumeFailsEffect DEF KeptMem
<1>4. ASSUME NEW n \in Nodes, ProjectQuarantine(n) PROVE mem'.unmarked
  BY <1>4, ProjectQuarantineEffect
<1>5. ASSUME NEW a \in Admins, ApplyConfiguration(a) \/ \E n \in Enrolled : SetNodeState(a, n)
      PROVE  mem'.unmarked
  BY <1>5, BeginEffect DEF KeptMem
<1>6. ASSUME NEW a \in Admins, EnsureDurableNodeProjection(a) PROVE mem'.unmarked
  BY <1>6, DurableEffect
<1>7. ASSUME NEW a \in Admins, Passes(a) PROVE mem'.unmarked
  BY <1>7, PassEffect DEF KeptMem
<1>8. ASSUME NEW a \in Admins, CommitMutation(a) PROVE mem'.unmarked
  BY <1>8, CommitEffect DEF KeptMem
<1>9. ASSUME NEW a \in Admins, CommitFails(a) PROVE mem'.unmarked
  BY <1>9, FailEffect DEF KeptMem
<1>10. ASSUME NEW a \in Admins, ProjectMutation(a) PROVE mem'.unmarked
  BY <1>10, ProjectEffect
<1> QED
  BY <1>1, <1>2, <1>3, <1>4, <1>5, <1>6, <1>7, <1>8, <1>9, <1>10, ChangesMem

\* A healthy process that goes on.
Going == ManagementInv /\ ManagementNext /\ ~StartController /\ mem'.up /\ mem'.healthy

\* A node that memory does not know yet is still brought by a request.
LEMMA BroughtStep ==
  ASSUME Going, NEW n \in Enrolled', mem'.nodes[n] = NoProj
  PROVE  \E r \in Reqs : enr'[r].pc \in {"read", "ensure"} /\ enr'[r].n = n
<1> USE DEF ManagementInv, Going
<1>0. mem.up /\ mem.healthy /\ ~Crash
  BY HealthStays
<1>1. mem.nodes[n] = NoProj
  BY FreshStep
<1>2. CASE n \in Enrolled
  <2>1. PICK r \in Reqs : enr[r].pc \in {"read", "ensure"} /\ enr[r].n = n
    BY <1>0, <1>1, <1>2 DEF Healthy
  <2>2. ASSUME NEW o \in Reqs, OnlyEnr(o), o # r
        PROVE  \E i \in Reqs : enr'[i].pc \in {"read", "ensure"} /\ enr'[i].n = n
    BY <2>1, <2>2 DEF OnlyEnr
  <2>3. ASSUME NEW a \in Agents, NEW c \in Codes, JoinAgent(a, c)
        PROVE  \E o \in Reqs : OnlyEnr(o) /\ o # r
    <3>1. PICK o \in Reqs : enr[o] = Free /\ OnlyEnr(o)
      BY <2>3, JoinEffect
    <3> QED
      BY <2>1, <3>1, FreeFields
  <2>4. ASSUME NEW o \in Reqs, ConsumeEnrollment(o) PROVE OnlyEnr(o) /\ o # r
    BY <2>1, <2>4, ConsumeEffect
  <2>5. ASSUME NEW o \in Reqs, ReplayEnrollment(o) PROVE OnlyEnr(o) /\ o # r
    BY <2>1, <2>5, ReplayEffect
  <2>6. ASSUME NEW o \in Reqs, Reply(o) PROVE OnlyEnr(o) /\ o # r
    BY <2>1, <2>6, ReplyEffect
  <2>7. ASSUME NEW o \in Reqs, ConsumeFails(o) PROVE OnlyEnr(o) /\ o # r
    BY <2>1, <2>7, ConsumeFailsEffect
  <2>8. ASSUME NEW o \in Reqs, ReadTopology(o)
        PROVE  \E i \in Reqs : enr'[i].pc \in {"read", "ensure"} /\ enr'[i].n = n
    BY <2>1, <2>2, <2>8, TopologyEffect
  <2>9. ASSUME NEW o \in Reqs, EnsureNode(o) PROVE OnlyEnr(o) /\ o # r
    <3>1. ASSUME o = r PROVE FALSE
      <4>1. enr[r].pc = "ensure" /\ mem'.nodes[n] = enr[r].top
        BY <1>1, <2>1, <2>9, <3>1, EnsureEffect
      <4>2. enr[r].top.adm # "none"
        BY <4>1 DEF Handlers, Handler
      <4> QED
        BY <4>1, <4>2, NoProjFields
    <3> QED
      BY <2>9, <3>1, EnsureEffect
  <2>10. ASSUME UNCHANGED enr
         PROVE  \E i \in Reqs : enr'[i].pc \in {"read", "ensure"} /\ enr'[i].n = n
    BY <2>1, <2>10
  <2> QED
    BY <1>0, <2>2, <2>3, <2>4, <2>5, <2>6, <2>7, <2>8, <2>9, <2>10, ChangesEnr
<1>3. CASE n \notin Enrolled
  <2>1. PICK r \in Reqs : ConsumeEnrollment(r)
    BY <1>3, ConsumesOnly
  <2>2. CASE db' = db
    BY <1>3, <2>2 DEF Enrolled
  <2>3. CASE db' # db
    BY <1>3, <2>1, <2>3, ConsumeEffect
  <2> QED
    BY <2>2, <2>3
<1> QED
  BY <1>2, <1>3

\* A node that becomes enrolled is not known to memory.
LEMMA UnknownStep ==
  ASSUME Going, NEW n \in Enrolled', n \notin Enrolled
  PROVE  mem'.nodes[n] = NoProj
<1> USE DEF ManagementInv, Going
<1>1. mem' = mem
  BY ConsumesOnly, ConsumeEffect
<1>2. n \in Nodes
  BY DEF Enrolled
<1> QED
  BY <1>1, <1>2 DEF Unprojected

\* The states that memory and the store have of a node agree but for what is pending.
LEMMA StateStep ==
  ASSUME Going, NEW n \in Enrolled, mem'.nodes[n] # NoProj, n \notin quar',
         ~(\E a \in Admins : Setting(a, n)')
  PROVE  (mem'.nodes[n].adm = "active") <=> (db'.nodes[n].adm = "active")
<1> USE DEF ManagementInv, Going
<1>0. mem.up /\ mem.healthy /\ ~Crash /\ n \in Nodes
  BY HealthStays, EnrolledNodes
<1>1. ASSUME n \in quar PROVE ProjectQuarantine(n)
  BY <1>0, <1>1, QuarStays
<1>2. ASSUME NEW a \in Admins, Setting(a, n) PROVE ProjectMutation(a)
  <2>1. adm[a].pc # "mark"
    BY <1>2 DEF Setting, Pending, Owing
  <2> QED
    BY <1>0, <1>2, <2>1, OwesStill DEF Setting
<1>3. CASE ProjectQuarantine(n)
  <2>1. /\ n \in quar /\ db' = db /\ mem'.nodes[n].adm = "quarantined"
    BY <1>0, <1>3, ProjectQuarantineEffect
  <2> QED
    BY <2>1 DEF Sessions
<1>4. ASSUME NEW a \in Admins, ProjectMutation(a), n \notin quar
      PROVE  (mem'.nodes[n].adm = "active") <=> (db'.nodes[n].adm = "active")
  <2>0. adm[a].pc = "project" /\ db' = db
    BY <1>4, ProjectEffect
  <2>1. CASE adm[a].op = "apply"
    <3>1. /\ mem'.nodes[n].adm = mem.nodes[n].adm
          /\ mem.nodes[n] = NoProj => mem'.nodes[n] = NoProj
      BY <1>0, <1>4, <2>1, ProjectEffect
    <3>2. ~(\E b \in Admins : Setting(b, n))
      BY <1>2, <1>4, <2>0, <2>1, OnlyCommitted DEF Setting, Committed
    <3> QED
      BY <1>0, <1>4, <2>0, <3>1, <3>2 DEF Healthy
  <2>2. CASE adm[a].op # "apply"
    <3>1. PICK m \in Enrolled, op \in {"active", "draining", "revoked"} :
             /\ m = adm[a].n /\ op = adm[a].op
             /\ \A i \in Nodes \ {m} : mem'.nodes[i] = mem.nodes[i]
             /\ mem'.nodes[m].adm = op /\ ~SetRefused(mem.nodes[m].adm, op)
      BY <1>4, <2>2, ProjectEffect
    <3>2. CASE m = n
      <4>1. Owing(a) /\ adm[a].pc \in Committed
        BY <2>0 DEF Pending, Committed
      <4>2. ~(mem.nodes[n].adm = "quarantined" /\ op = "active")
        BY <3>1, <3>2 DEF SetRefused
      <4> QED
        BY <1>4, <2>0, <3>1, <3>2, <4>1, <4>2 DEF Owing
    <3>3. CASE m # n
      <4>1. ~(\E b \in Admins : Setting(b, n))
        BY <1>2, <1>4, <2>0, <3>1, <3>3, OnlyCommitted DEF Setting, Committed
      <4>2. mem'.nodes[n] = mem.nodes[n]
        BY <1>0, <3>1, <3>3
      <4> QED
        BY <1>0, <1>4, <2>0, <4>1, <4>2 DEF Healthy
    <3> QED
      BY <3>2, <3>3
  <2> QED
    BY <2>1, <2>2
<1>5. ASSUME NEW a \in Admins, CommitMutation(a)
      PROVE  mem'.nodes = mem.nodes /\ db'.nodes[n].adm = db.nodes[n].adm
  <2>1. KeptMem
    BY <1>5, CommitEffect
  <2>2. ASSUME db'.nodes[n].adm # db.nodes[n].adm PROVE FALSE
    <3>1. PICK m \in Enrolled, op \in {"active", "draining", "revoked"} :
             /\ m = adm[a].n /\ op = adm[a].op
             /\ op = "revoked" => Goes(a, "notify")
             /\ op # "revoked" => Goes(a, "project")
             /\ \A i \in Nodes \ {m} : db'.nodes[i] = db.nodes[i]
      BY <1>0, <1>5, <2>2, CommitEffect DEF KeptRows
    <3>2. m = n
      BY <1>0, <2>2, <3>1
    <3>3. Setting(a, n)'
      BY <3>1, <3>2 DEF Setting, Goes, Committed
    <3> QED
      BY <3>3
  <2> QED
    BY <2>1, <2>2 DEF KeptMem
<1>6. CASE ~ProjectQuarantine(n) /\ ~(\E a \in Admins : ProjectMutation(a))
  <2>1. n \notin quar /\ ~(\E a \in Admins : Setting(a, n))
    BY <1>1, <1>2, <1>6
  <2>2. ~QuarantineNode(n)
    BY <1>0, QuarantineEffect
  <2>3. db'.nodes[n].adm = db.nodes[n].adm
    BY <1>5, <2>2, RowChanges
  <2>4. CASE mem'.nodes[n] = mem.nodes[n]
    BY <1>0, <2>1, <2>3, <2>4 DEF Healthy
  <2>5. CASE mem.nodes[n] = NoProj /\ Fresh(mem'.nodes[n])
    BY <1>0, <2>3, <2>5 DEF Unprojected, Fresh
  <2> QED
    BY <1>0, <1>6, <2>4, <2>5, ProjectionChanges
<1> QED
  BY <1>1, <1>3, <1>4, <1>6

\* So do the maxima.
LEMMA MaximumStep ==
  ASSUME Going, NEW n \in Enrolled, mem'.nodes[n] # NoProj, ~(\E a \in Admins : Applying(a)'),
         ~mem'.unmarked
  PROVE  mem'.nodes[n].max = db'.nodes[n].max
<1> USE DEF ManagementInv, Going
<1>0. mem.up /\ mem.healthy /\ ~Crash /\ n \in Nodes /\ ~mem.unmarked
  BY HealthStays, EnrolledNodes, UnmarkedStays
<1>1. ASSUME NEW a \in Admins, Applying(a) PROVE ProjectMutation(a)
  BY <1>0, <1>1, OwesStill DEF Applying
<1>2. CASE ProjectQuarantine(n)
  <2>1. /\ db' = db /\ mem'.nodes[n].max = mem.nodes[n].max /\ mem.nodes[n] # NoProj
        /\ UNCHANGED adm
    BY <1>0, <1>2, ProjectQuarantineEffect
  <2>2. ~(\E a \in Admins : Applying(a))
    BY <2>1 DEF Applying
  <2> QED
    BY <1>0, <2>1, <2>2 DEF Healthy
<1>3. ASSUME NEW a \in Admins, ProjectMutation(a) PROVE mem'.nodes[n].max = db'.nodes[n].max
  <2>0. adm[a].pc = "project" /\ db' = db
    BY <1>3, ProjectEffect
  <2>1. CASE adm[a].op = "apply"
    <3>1. mem'.nodes[n].max = adm[a].doc.max[n]
      BY <1>0, <1>3, <2>1, ProjectEffect
    <3>2. mem'.nodes[n].max # 0
      BY <1>0, ProjectedStep
    <3>3. Owing(a) /\ adm[a].pc \in Committed
      BY <2>0 DEF Pending, Committed
    <3> QED
      BY <1>0, <2>0, <2>1, <3>1, <3>2, <3>3 DEF Owing
  <2>2. CASE adm[a].op # "apply"
    <3>0. Typed /\ Requests /\ mem'.healthy
      OBVIOUS
    <3>1. PICK m \in Enrolled, op \in {"active", "draining", "revoked"} :
             /\ \A i \in Nodes \ {m} : mem'.nodes[i] = mem.nodes[i]
             /\ mem'.nodes[m].max = mem.nodes[m].max /\ ~SetRefused(mem.nodes[m].adm, op)
      <4> HIDE DEF ManagementInv, Going
      <4> QED
        BY <1>3, <2>2, <3>0, ProjectEffect
    <3>2. mem'.nodes[n].max = mem.nodes[n].max /\ mem.nodes[n] # NoProj
      BY <1>0, <3>1, NoProjFields DEF SetRefused
    <3>3. ~(\E b \in Admins : Applying(b))
      BY <1>1, <1>3, <2>0, <2>2, OnlyCommitted DEF Applying, Committed
    <3> QED
      BY <1>0, <2>0, <3>2, <3>3 DEF Healthy
  <2> QED
    BY <2>1, <2>2
<1>4. ASSUME NEW a \in Admins, CommitMutation(a) PROVE db'.nodes[n].max = db.nodes[n].max
  <2>1. ASSUME db'.nodes[n].max # db.nodes[n].max PROVE FALSE
    <3>1. adm[a].op = "apply" /\ \E pc \in {"mark", "project"} : Goes(a, pc)
      BY <1>0, <1>4, <2>1, CommitEffect DEF KeptRows
    <3>2. Applying(a)'
      BY <3>1 DEF Applying, Goes, Committed
    <3> QED
      BY <3>2
  <2> QED
    BY <2>1
<1>5. CASE ~ProjectQuarantine(n) /\ ~(\E a \in Admins : ProjectMutation(a))
  <2>1. ~(\E a \in Admins : Applying(a))
    BY <1>1, <1>5
  <2>2. QuarantineNode(n) => db'.nodes[n].max = db.nodes[n].max
    BY <1>0, QuarantineEffect
  <2>3. db'.nodes[n].max = db.nodes[n].max
    BY <1>4, <2>2, RowChanges
  <2>4. CASE mem'.nodes[n] = mem.nodes[n]
    BY <1>0, <2>1, <2>3, <2>4 DEF Healthy
  <2>5. CASE mem.nodes[n] = NoProj /\ Fresh(mem'.nodes[n])
    BY <1>0, <2>3, <2>5 DEF Unprojected, Fresh
  <2> QED
    BY <1>0, <1>5, <2>4, <2>5, ProjectionChanges
<1> QED
  BY <1>2, <1>3, <1>5

\* Every step preserves what a healthy projection knows.
LEMMA HealthyStep ==
  ASSUME ManagementInv, ManagementNext
  PROVE  Healthy'
<1> USE DEF ManagementInv
<1>1. CASE StartController
  <2>1. /\ Enrolled' = Enrolled /\ db'.nodes = db.nodes
        /\ \A n \in Enrolled : /\ mem'.nodes[n].adm = db.nodes[n].adm
                               /\ mem'.nodes[n].max = db.nodes[n].max
    BY <1>1, StartEffect DEF KeptRows
  <2>2. \A n \in Enrolled : mem'.nodes[n] # NoProj
    BY <2>1, NoProjFields DEF Rows, Row
  <2> QED
    BY <2>1, <2>2 DEF Healthy
<1>2. CASE Going
  BY <1>2, BroughtStep, UnknownStep, StateStep, MaximumStep DEF Healthy
<1>3. CASE ~(mem'.up /\ mem'.healthy)
  BY <1>3 DEF Healthy
<1> QED
  BY <1>1, <1>2, <1>3 DEF Going

---------------------------------------------------------------------------
(* The theorems *)

\* The database InitController leaves: no node, at most the first code.
LEMMA InitDb ==
  ASSUME Init
  PROVE  /\ db \in DbRec /\ \A n \in Nodes : db.nodes[n] = NoNode
         /\ \A c \in Codes : db.replay[c] = 0 /\ db.toks[c] = (IF c = 1 THEN 1 ELSE 0)
         /\ given \in GivenRec /\ given.out = Codes \cap {1} /\ given.cancelled = {}
<1>1. [n \in Nodes |-> NoNode] \in [Nodes -> RowRec]
  BY NoNodeFields
<1>2. [c \in Codes |-> IF c = 1 THEN 1 ELSE 0] \in [Codes -> 0..MaxEpoch]
  BY ManagementConstants
<1> QED
  BY <1>1, <1>2, ManagementConstants DEF Init, DbRec, GivenRec, Intents

\* The process is down and nobody has asked for anything.
LEMMA InitRest ==
  ASSUME Init
  PROVE  /\ mem \in MemRec /\ ~mem.up /\ \A n \in Nodes : mem.nodes[n] = NoProj
         /\ adm \in [Admins -> AdmRec] /\ \A a \in Admins : adm[a].pc = "idle"
         /\ enr \in [Reqs -> EnrRec] /\ \A r \in Reqs : enr[r] = Free /\ enr[r].pc = "idle"
         /\ ag \in [Agents -> AgRec]
         /\ \A a \in Agents : ag[a].pc = "idle" /\ ag[a].node = 0
         /\ ses \in [Nodes -> Steps] /\ \A n \in Nodes : ses[n] = "none"
         /\ quar = {}
<1>1. mem \in MemRec /\ ~mem.up /\ \A n \in Nodes : mem.nodes[n] = NoProj
  BY DownFields, NoTopsFields DEF Init
<1>2. adm \in [Admins -> AdmRec] /\ \A a \in Admins : adm[a].pc = "idle"
  BY RestFields DEF Init
<1>3. enr \in [Reqs -> EnrRec] /\ \A r \in Reqs : enr[r] = Free /\ enr[r].pc = "idle"
  BY FreeFields DEF Init
<1>4. ag \in [Agents -> AgRec] /\ \A a \in Agents : ag[a].pc = "idle" /\ ag[a].node = 0
  BY ManagementConstants DEF Init, AgRec
<1>5. ses \in [Nodes -> Steps] /\ (\A n \in Nodes : ses[n] = "none") /\ quar = {}
  BY DEF Init, Steps
<1> QED
  BY <1>1, <1>2, <1>3, <1>4, <1>5

\* The initial state has the invariant.
LEMMA InitInv == Init => ManagementInv
<1> SUFFICES ASSUME Init PROVE ManagementInv
  OBVIOUS
<1>1. Typed
  BY InitDb, InitRest DEF Typed
<1>2. Enrolled = {}
  BY InitDb DEF Enrolled
<1>3. Rows
  <2>1. Enrolled = 1..0 /\ 0 \in Nat
    BY <1>2
  <2> QED
    BY <1>2, <2>1, InitDb DEF Rows
<1>4. Spent
  BY <1>2, InitDb DEF Spent
<1>5. Handlers
  BY InitRest DEF Handlers, Handler
<1>6. Joins
  BY InitRest DEF Joins, Joining
<1>7. Sessions
  BY <1>2, InitRest DEF Sessions, RevokedIsCut
<1>8. Requests /\ Pending
  BY InitRest DEF Requests, Requested, Pending, Owing, Committed, Deciding
<1>9. Unprojected /\ Healthy
  BY InitRest DEF Unprojected, Healthy
<1> QED
  BY <1>1, <1>3, <1>4, <1>5, <1>6, <1>7, <1>8, <1>9 DEF ManagementInv

\* Every step preserves the invariant.
LEMMA InvStep == ManagementInv /\ [ManagementNext]_mvars => ManagementInv'
<1>1. ASSUME ManagementInv, ManagementNext PROVE ManagementInv'
  <2>1. Typed'
    BY <1>1, DbTyped, MemTyped, AdmTyped, EnrTyped, AgTyped, RestTyped DEF Typed
  <2> QED
    BY <1>1, <2>1, RowsStep, SpentStep, HandlersStep, JoinsStep, SessionsStep, RequestsStep,
       PendingStep, UnprojectedStep, HealthyStep DEF ManagementInv
<1>2. ASSUME ManagementInv, UNCHANGED mvars PROVE ManagementInv'
  <2> USE <1>2 DEF ManagementInv, mvars
  <2>0. Enrolled' = Enrolled /\ Document' = Document
    BY DEF Enrolled, Document
  <2>1. Typed' /\ Rows' /\ Spent'
    BY <2>0 DEF Typed, Rows, Row, Spent
  <2>2. Handlers' /\ Joins' /\ Sessions'
    BY <2>0 DEF Handlers, Handler, Joins, Joining, Sessions, RevokedIsCut
  <2>3. Requests'
    BY <2>0 DEF Requests, Requested
  <2>4. Pending'
    BY DEF Pending, Owing
  <2>5. Unprojected'
    BY <2>0 DEF Unprojected, Fresh
  <2>6. Healthy'
    BY <2>0 DEF Healthy, Setting, Applying
  <2> QED
    BY <2>1, <2>2, <2>3, <2>4, <2>5, <2>6
<1> QED
  BY <1>1, <1>2

\* What the invariant says of the nodes.
LEMMA Authorized == ManagementInv => NodesAreAuthorized
<1> SUFFICES ASSUME ManagementInv PROVE NodesAreAuthorized
  OBVIOUS
<1> USE DEF ManagementInv
<1>1. TypeOK
  <2>1. \A n \in Nodes : mem.nodes[n] # NoProj => mem.nodes[n].max \in 1..2
    <3> TAKE n \in Nodes
    <3>1. mem.nodes[n].max \in 0..2
      BY MemOf DEF ProjRec
    <3> QED
      BY <3>1 DEF Unprojected
  <2>2. \A a \in Admins : adm[a].pc \in AdmPCs
    BY AdmOf
  <2>3. \A r \in Reqs : enr[r].pc \in EnrPCs
    BY EnrOf
  <2>4. \A a \in Admins : adm[a].pc \notin {"idle", "read"} => mem.lock = a
    BY DEF Requests, Requested
  <2> QED
    BY <2>1, <2>2, <2>3, <2>4, DbOf, MemOf, FunOf
       DEF TypeOK, DbRec, RowRec, States, Intents, AdmPCs, EnrPCs, Steps
<1>2. ProjectionFollowsStore
  <2> SUFFICES ASSUME mem.up, mem.healthy, NEW n \in Enrolled, ~Owed(n)
               PROVE  /\ (mem.nodes[n].adm = "active") <=> (db.nodes[n].adm = "active")
                      /\ mem.unmarked \/ mem.nodes[n].max = db.nodes[n].max
    BY DEF ProjectionFollowsStore
  <2>1. mem.nodes[n] # NoProj
    BY DEF Owed, Healthy
  <2>2. n \notin quar /\ ~(\E a \in Admins : Setting(a, n)) /\ ~(\E a \in Admins : Applying(a))
    BY DEF Owed, Setting, Applying, Committed
  <2> QED
    BY <2>1, <2>2 DEF Healthy
<1>3. OneNodePerCode
  BY DEF OneNodePerCode, Spent, Joins, Joining
<1>4. CancelledNeverEnrolls
  BY DEF CancelledNeverEnrolls, Spent
<1> QED
  BY <1>1, <1>2, <1>3, <1>4 DEF NodesAreAuthorized, Sessions

\* Whatever enrollments, cancellations, mutations, quarantines and restarts do to each
\* other, a healthy projection has the store's node states (ManagementProjectionHealthy) and,
\* until a MarkManagementTargetCommitted fails in the process, its maxima; a code makes one
\* node and a cancelled one none (ConsumeEnrollmentWithAudit, CancelTokenWithAudit), and no
\* session of a revoked node is served once the revocation hook has run.
THEOREM NodesAuthorized == Spec => []NodesAreAuthorized
<1>1. Spec => []ManagementInv
  BY InitInv, InvStep, PTL DEF Spec
<1> QED
  BY <1>1, Authorized, PTL

\* The steps that advance the revision.
LEMMA RevisionBy ==
  ASSUME ManagementInv, ManagementNext, db'.rev # db.rev
  PROVE  \/ UNCHANGED adm /\ mem.audit
         \/ \E a \in Admins : /\ OnlyAdm(a) /\ adm[a].pc = "commit" /\ adm[a].rev = db.rev
                              /\ mem.audit
<1> USE DEF ManagementInv
<1>1. ASSUME NEW r \in Reqs, ConsumeEnrollment(r) PROVE UNCHANGED adm /\ mem.audit
  BY <1>1, ConsumeEffect
<1>2. ASSUME NEW a \in Admins, CommitMutation(a)
      PROVE  OnlyAdm(a) /\ adm[a].pc = "commit" /\ adm[a].rev = db.rev /\ mem.audit
  BY <1>2, CommitEffect DEF KeptRows, Goes
<1>3. ASSUME StartController PROVE FALSE
  BY <1>3, StartEffect DEF KeptRows
<1>4. ASSUME NEW c \in Codes, CreateJoinCode(c) PROVE FALSE
  BY <1>4, CreateEffect DEF KeptRows
<1>5. ASSUME NEW c \in Codes, CancelJoinCode(c) PROVE FALSE
  BY <1>5, CancelEffect DEF KeptRows
<1>6. ASSUME NEW n \in Nodes, FinalizeEnrollment(n) PROVE FALSE
  BY <1>6, FinalizeEffect DEF KeptRows
<1>7. ASSUME NEW n \in Nodes, QuarantineNode(n) PROVE FALSE
  BY <1>7, QuarantineEffect
<1>8. ASSUME NEW a \in Admins, Passes(a) PROVE FALSE
  BY <1>8, PassEffect DEF KeptRows
<1>9. ASSUME NEW a \in Admins, CommitFails(a) PROVE FALSE
  BY <1>9, FailEffect DEF KeptRows
<1> QED
  BY <1>1, <1>2, <1>3, <1>4, <1>5, <1>6, <1>7, <1>8, <1>9, ChangesDb

\* A committed document replaces exactly the configuration it was read from, and after a
\* failed audit write nothing advances the revision (commitWithManagementAudit).
THEOREM CurrentCommits == Spec => CommitsAreCurrent
<1>1. Spec => []ManagementInv
  BY InitInv, InvStep, PTL DEF Spec
<1>2. ManagementInv /\ [ManagementNext]_mvars =>
        [\A a \in Admins :
           adm[a].pc = "commit" /\ adm[a].op = "apply" /\ db'.rev # db.rev /\ adm'[a].pc # "commit"
             => adm[a].base = Document]_mvars
  <2> SUFFICES ASSUME ManagementInv, ManagementNext, NEW a \in Admins, adm[a].pc = "commit",
                      db'.rev # db.rev, adm'[a].pc # "commit"
               PROVE  adm[a].base = Document
    OBVIOUS
  <2>1. PICK b \in Admins : OnlyAdm(b) /\ adm[b].pc = "commit" /\ adm[b].rev = db.rev
    BY RevisionBy
  <2>2. a = b
    BY <2>1 DEF OnlyAdm
  <2> QED
    BY <2>1, <2>2 DEF ManagementInv, Requests, Requested
<1>3. ManagementInv /\ [ManagementNext]_mvars => [mem.up /\ ~mem.audit => db'.rev = db.rev]_mvars
  BY RevisionBy
<1> QED
  BY <1>1, <1>2, <1>3, PTL DEF Spec, CommitsAreCurrent, NoLostUpdate, DegradedIsClosed


=============================================================================
