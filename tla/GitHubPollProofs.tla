-------------------------- MODULE GitHubPollProofs --------------------------
(***************************************************************************)
(* The coordinator's poll, for every set of nodes and jobs and any number  *)
(* of failures, restarts, redeliveries and clock ticks.                    *)
(*                                                                         *)
(* PollInv is inductive.  Its parts relate what the coordinator captured   *)
(* before an interval in which everything may change to the state it meets *)
(* afterwards: the claim of a message that is about to be deleted and the  *)
(* node of one that is redelivered (Messages), the reservation of a claim  *)
(* that is not over (Slots), the candidate an advertised capacity came     *)
(* from (Offer), and the release a deadline was computed from (Deadline).  *)
(* One lemma per action, or per group of actions that touch the same       *)
(* columns, shows that it is kept; the three properties follow from it.    *)
(***************************************************************************)
EXTENDS GitHubPoll, FiniteSetTheorems, WellFoundedInduction, TLAPS

Policies  == {"auto", "pinned"}
Freshness == {"unknown", "fresh", "stale"}
AgentRows == [rev : Nat, ready : BOOLEAN, epoch : Nat]
Releases  == [fresh : Freshness, gen : Nat, cur : BOOLEAN, at : Nat, obs : Nat]
ClaimRows == [key : Keys, node : Nodes, st : {"pending", "acquired", "started", "done"}]
Auths     == [rev : Nat, pol : Policies, gen : Nat, epoch : Nat, rel : Nat, until : Nat,
              agent : AgentRows]
Scopes    == [node : Nodes \cup {0}, claimable : BOOLEAN, auth : Auths]
Bindings  == [node : Nodes \cup {0}, enabled : BOOLEAN]
Polls     == [pc : Pcs, pol : Policies, i : Nat, scope : Scopes, adv : Nat, cut : BOOLEAN,
              aud : BOOLEAN, recheck : Nat, drive : BOOLEAN, msg : Jobs \cup {0}, last : Nat,
              bind : Bindings, moved : BOOLEAN]
Stores    == [sess : [fresh : Freshness, gen : Nat], rel : Releases,
              prof : [pol : Policies, rev : Nat], agent : [Nodes -> AgentRows],
              active : [Nodes -> BOOLEAN], slot : [Nodes -> Keys \cup {Free, Foreign}],
              claims : Seq(ClaimRows), demand : 0..1, epoch : Nat]

Typed ==
    /\ db \in Stores /\ co \in Polls
    /\ mem \in [Nodes -> [on : BOOLEAN, ready : BOOLEAN, rev : Nat]]
    /\ audit \in BOOLEAN /\ now \in 0..MaxTime /\ events \in 0..MaxEvents
    /\ gh \in [queue : SUBSET Jobs, sent : 0..Cardinality(Jobs), assigned : 0..1]

\* The observed release is of the past.
Observed == db.rel.at <= db.rel.obs /\ db.rel.obs <= now

rows  == db.claims
Index == 1..Len(db.claims)

\* A key has one claim, and a claim that is not over has its node's slot: two of them
\* are of two nodes.
Slots ==
    /\ \A i, j \in Index : i # j => rows[i].key # rows[j].key
    /\ \A i \in Index : rows[i].st # "done" => db.slot[rows[i].node] = rows[i].key

\* A message is deleted once its claim is durable, and the coordinator binds it to the
\* node of the claim it may already have.
Messages ==
    /\ \A j \in 1..gh.sent : j \in gh.queue \/ \E i \in Index : rows[i].key = j
    /\ co.pc = "ack" => \E i \in Index : rows[i].key = co.msg
    /\ co.pc = "commit" =>
          /\ co.bind.node \in Nodes
          /\ co.msg # 0 => \A i \in Index : rows[i].key = co.msg => rows[i].node = co.bind.node
    /\ ~co.moved

Selected == {"poll", "healthy", "commit", "ack"}

\* An evaluation counts each candidate once and has its scope from the first one on.
Evaluation ==
    /\ co.adv <= Cardinality(Nodes)
    /\ co.pc = "eval" => co.i \in Nodes /\ co.adv < co.i /\ co.scope.node \in Nodes
    /\ co.pc \in Selected => co.scope.node \in Nodes

Usable(n) == mem[n].on /\ mem[n].ready /\ db.active[n] /\ db.slot[n] = Free

\* What an evaluation or its long poll has counted is still there, or the change has
\* reached the poll.
Offer ==
    co.pc \in {"eval", "poll"} /\ co.adv > 0 =>
        co.aud /\ (co.cut \/ \E n \in Nodes : Usable(n))

\* The deadline the poll captured is the current release's, unless that is of a later
\* generation.
Deadline ==
    LET a == co.scope.auth IN
    a.pol = "pinned" =>
        /\ a.rel <= db.rel.gen
        /\ a.rel = db.rel.gen /\ a.until # 0 =>
              a.until <= db.rel.obs + Window /\ (db.rel.cur \/ a.until <= db.rel.at + Window)

PollInv == Typed /\ Observed /\ Slots /\ Messages /\ Evaluation /\ Offer /\ Deadline

-----------------------------------------------------------------------------
(* Constants, and what an update of one column leaves of the others *)

LEMMA ConstantsAre ==
  /\ Cardinality(Nodes) \in Nat \ {0} /\ Cardinality(Jobs) \in Nat
  /\ Nodes = 1..Cardinality(Nodes) /\ Jobs = 1..Cardinality(Jobs) /\ 1 \in Nodes
  /\ Window \in Nat \ {0} /\ MaxTime \in Nat /\ MaxEvents \in Nat
<1>1. Cardinality(Nodes) \in Nat /\ Cardinality(Jobs) \in Nat
  BY PollConstants, FS_CardinalityType
<1>2. Cardinality(Nodes) # 0
  BY <1>1, PollConstants
<1> QED
  BY <1>1, <1>2, PollConstants

LEMMA KeysAre ==
  /\ Jobs \subseteq Keys /\ DemandKey \in Keys /\ Free \notin Keys /\ Foreign \notin Keys
  /\ 0 \notin Jobs /\ Free \notin Nodes /\ DemandKey \notin Jobs
  BY ConstantsAre DEF Keys, DemandKey, Free, Foreign

\* The ledger, and the rest of the database
ledger == <<db.claims, db.slot>>

LEMMA StoreFields ==
  ASSUME db \in Stores
  PROVE  /\ db.sess \in [fresh : Freshness, gen : Nat] /\ db.rel \in Releases
         /\ db.prof \in [pol : Policies, rev : Nat] /\ db.agent \in [Nodes -> AgentRows]
         /\ db.active \in [Nodes -> BOOLEAN] /\ db.slot \in [Nodes -> Keys \cup {Free, Foreign}]
         /\ db.claims \in Seq(ClaimRows) /\ db.demand \in 0..1 /\ db.epoch \in Nat
  BY DEF Stores

LEMMA SetSession ==
  ASSUME db \in Stores, NEW s \in [fresh : Freshness, gen : Nat], NEW d \in 0..1,
         db' = [db EXCEPT !.sess = s, !.demand = d]
  PROVE  /\ db' \in Stores /\ db'.sess = s /\ db'.demand = d
         /\ UNCHANGED <<db.rel, db.prof, db.agent, db.active, db.slot, db.claims, db.epoch>>
  BY DEF Stores

LEMMA SetDemand ==
  ASSUME db \in Stores, NEW d \in 0..1, db' = [db EXCEPT !.demand = d]
  PROVE  /\ db' \in Stores /\ db'.demand = d
         /\ UNCHANGED <<db.rel, db.prof, db.agent, db.active, db.slot, db.claims, db.epoch, db.sess>>
  BY DEF Stores

LEMMA SetRelease ==
  ASSUME db \in Stores, NEW r \in Releases, db' = [db EXCEPT !.rel = r]
  PROVE  /\ db' \in Stores /\ db'.rel = r
         /\ UNCHANGED <<db.sess, db.prof, db.agent, db.active, db.slot, db.claims, db.epoch>>
  BY DEF Stores

LEMMA SetProfile ==
  ASSUME db \in Stores, NEW p \in [pol : Policies, rev : Nat], db' = [db EXCEPT !.prof = p]
  PROVE  /\ db' \in Stores
         /\ UNCHANGED <<db.sess, db.rel, db.agent, db.active, db.slot, db.claims, db.epoch>>
  BY DEF Stores

LEMMA SetAgent ==
  ASSUME db \in Stores, NEW n \in Nodes, NEW r \in AgentRows, db' = [db EXCEPT !.agent[n] = r]
  PROVE  /\ db' \in Stores
         /\ UNCHANGED <<db.sess, db.rel, db.prof, db.active, db.slot, db.claims, db.epoch>>
  BY DEF Stores

LEMMA SetActive ==
  ASSUME db \in Stores, NEW n \in Nodes, NEW b \in BOOLEAN, db' = [db EXCEPT !.active[n] = b]
  PROVE  /\ db' \in Stores
         /\ UNCHANGED <<db.sess, db.rel, db.prof, db.agent, db.slot, db.claims, db.epoch>>
<1> DEFINE f == [db.active EXCEPT ![n] = b]
<1>1. f \in [Nodes -> BOOLEAN] /\ db' = [db EXCEPT !.active = f]
  BY DEF Stores
<1> HIDE DEF f
<1> QED
  BY <1>1 DEF Stores

LEMMA SetSlot ==
  ASSUME db \in Stores, NEW n \in Nodes, NEW k \in Keys \cup {Free, Foreign},
         db' = [db EXCEPT !.slot[n] = k]
  PROVE  /\ db' \in Stores /\ db'.slot = [db.slot EXCEPT ![n] = k]
         /\ UNCHANGED <<db.sess, db.rel, db.prof, db.agent, db.active, db.claims, db.epoch>>
  BY DEF Stores

LEMMA SetEpoch ==
  ASSUME db \in Stores, NEW e \in Nat, db' = [db EXCEPT !.epoch = e]
  PROVE  /\ db' \in Stores
         /\ UNCHANGED <<db.sess, db.rel, db.prof, db.agent, db.active, db.slot, db.claims>>
  BY DEF Stores

\* The state of one claim
LEMMA SetState ==
  ASSUME db \in Stores, NEW i \in Index, NEW s \in {"pending", "acquired", "started", "done"},
         db' = [db EXCEPT !.claims[i].st = s]
  PROVE  /\ db' \in Stores /\ Index' = Index
         /\ UNCHANGED <<db.sess, db.rel, db.prof, db.agent, db.active, db.slot, db.epoch>>
         /\ \A j \in Index : rows'[j].key = rows[j].key /\ rows'[j].node = rows[j].node
         /\ \A j \in Index \ {i} : rows'[j].st = rows[j].st
         /\ rows'[i].st = s
<1> DEFINE r == [rows[i] EXCEPT !.st = s]
<1>1. rows \in Seq(ClaimRows) /\ rows[i] \in ClaimRows
  BY StoreFields DEF rows, Index
<1>2. r \in ClaimRows /\ r.key = rows[i].key /\ r.node = rows[i].node /\ r.st = s
  BY <1>1 DEF ClaimRows
<1>3. db' = [db EXCEPT !.claims = [db.claims EXCEPT ![i] = r]]
  BY DEF rows, Stores
<1> HIDE DEF r
<1> DEFINE q == [db.claims EXCEPT ![i] = r]
<1>4. /\ q \in Seq(ClaimRows) /\ Len(q) = Len(db.claims) /\ q[i] = r
      /\ \A j \in Index \ {i} : q[j] = rows[j]
  BY <1>1, <1>2 DEF rows, Index
<1> HIDE DEF q
<1>5. /\ db' \in Stores /\ db'.claims = q
      /\ UNCHANGED <<db.sess, db.rel, db.prof, db.agent, db.active, db.slot, db.epoch>>
  BY <1>3, <1>4 DEF q, Stores
<1> QED
  BY <1>2, <1>4, <1>5 DEF rows, Index

-----------------------------------------------------------------------------
(* What a step leaves of the invariant *)

\* The columns of the coordinator that the invariant is about
Position == <<co.pc, co.i, co.scope, co.adv, co.aud, co.msg, co.bind, co.moved>>

LEMMA Signalled ==
  ASSUME co \in Polls, co' = Signal(co)
  PROVE  co' \in Polls /\ UNCHANGED Position /\ (co.pc \in {"eval", "poll"} => co'.cut)
<1>1. CASE Watching(co)
  BY <1>1 DEF Signal, Polls, Position
<1>2. CASE ~Watching(co)
  BY <1>2 DEF Signal, Watching, Position
<1> QED
  BY <1>1, <1>2

\* clearPollScope and the end of the coordinator
Away ==
    /\ co' \in Polls /\ co'.scope = NoScope /\ co'.adv = 0 /\ co'.moved = co.moved
    /\ co'.pc \in {"closed", "loop", "drive", "retry", "await"}

LEMMA ClosedIs ==
  /\ Closed \in Polls /\ Closed.scope = NoScope /\ Closed.adv = 0 /\ ~Closed.moved
  /\ Closed.msg = 0 /\ Closed.i = 1 /\ Closed.bind = NoBinding /\ Closed.recheck = 0
  /\ NoScope \in Scopes /\ NoScope.node = 0 /\ NoScope.auth = NoAuth /\ NoAuth.pol = "auto"
  /\ ~NoScope.claimable /\ Closed.pc = "closed"
<1>1. NoAuth \in Auths /\ NoAuth.pol = "auto"
  BY DEF NoAuth, Auths, AgentRows, Policies
<1>2. NoScope \in Scopes /\ NoScope.node = 0 /\ NoScope.auth = NoAuth /\ ~NoScope.claimable
  BY <1>1 DEF NoScope, Scopes
<1>3. NoBinding \in Bindings
  BY DEF NoBinding, Bindings
<1> QED
  BY <1>1, <1>2, <1>3 DEF Closed, Polls, Pcs, Policies

LEMMA LeavesAre ==
  ASSUME co \in Polls, NEW s \in {"loop", "drive", "retry", "await"}, NEW d \in BOOLEAN,
         co' = Leave(s, d)
  PROVE  Away /\ co'.pc = s
<1>1. co.pol \in Policies /\ co.last \in Nat /\ co.moved \in BOOLEAN
  BY DEF Polls
<1>2. /\ Leave(s, d) \in Polls /\ Leave(s, d).pc = s /\ Leave(s, d).scope = Closed.scope
      /\ Leave(s, d).adv = Closed.adv /\ Leave(s, d).moved = co.moved
  BY <1>1, ClosedIs DEF Leave, Polls, Pcs
<1> QED
  BY <1>2, ClosedIs DEF Away

LEMMA ExitIs == ASSUME co \in Polls, co' = Exit PROVE Away
<1>1. co.moved \in BOOLEAN
  BY DEF Polls
<1>2. /\ Exit \in Polls /\ Exit.pc = "closed" /\ Exit.scope = Closed.scope
      /\ Exit.adv = Closed.adv /\ Exit.moved = co.moved
  BY <1>1, ClosedIs DEF Exit, Polls
<1> QED
  BY <1>2, ClosedIs DEF Away

\* Every claim stays with its key and its node.
ClaimsKept ==
    \A i \in Index : i \in Index' /\ rows'[i].key = rows[i].key /\ rows'[i].node = rows[i].node

LEMMA LedgerKept ==
  ASSUME UNCHANGED ledger
  PROVE  ClaimsKept /\ (Slots => Slots')
  BY DEF ledger, ClaimsKept, Slots, Index, rows

LEMMA QueueKept ==
  ASSUME Messages, ClaimsKept, gh'.sent = gh.sent, gh'.queue = gh.queue
  PROVE  (\A j \in 1..gh.sent : j \in gh.queue \/ \E i \in Index : rows[i].key = j)'
<1> SUFFICES ASSUME NEW j \in 1..gh.sent, j \notin gh.queue
             PROVE  \E i \in Index' : rows'[i].key = j
  OBVIOUS
<1>1. PICK i \in Index : rows[i].key = j
  BY DEF Messages
<1> QED
  BY <1>1 DEF ClaimsKept

\* A step that ends the poll
LEMMA AwayStep ==
  ASSUME PollInv, Away, Typed', Observed', Slots', ClaimsKept, gh'.sent = gh.sent,
         gh'.queue = gh.queue
  PROVE  PollInv'
<1> USE DEF PollInv
<1>1. Messages'
  BY QueueKept DEF Away, Messages
<1>2. Evaluation' /\ Offer'
  BY ConstantsAre DEF Away, Evaluation, Offer, Selected
<1>3. Deadline'
  BY ClosedIs DEF Away, Deadline
<1> QED
  BY <1>1, <1>2, <1>3

\* A step of the environment on the database, the memory or the clock
LEMMA StillMessages ==
  ASSUME Messages, UNCHANGED Position, UNCHANGED <<db.claims, gh.sent, gh.queue>>
  PROVE  Messages'
  BY DEF Messages, Position, Index, rows

LEMMA StillPosition ==
  ASSUME Evaluation, UNCHANGED Position PROVE Evaluation'
  BY DEF Evaluation, Position, Selected

LEMMA CutOffer ==
  ASSUME Offer, UNCHANGED Position, co.pc \in {"eval", "poll"} => co'.cut PROVE Offer'
  BY DEF Offer, Position

LEMMA SameOffer ==
  ASSUME Offer, UNCHANGED co, UNCHANGED <<mem, db.active, db.slot>> PROVE Offer'
  BY DEF Offer, Usable

LEMMA SameDeadline ==
  ASSUME Deadline, UNCHANGED Position, UNCHANGED db.rel PROVE Deadline'
  BY DEF Deadline, Position

LEMMA SignalStep ==
  ASSUME PollInv, co' = Signal(co), Typed', Observed', Slots', ClaimsKept,
         Messages', UNCHANGED db.rel
  PROVE  PollInv'
<1>1. UNCHANGED Position /\ (co.pc \in {"eval", "poll"} => co'.cut)
  BY Signalled DEF PollInv, Typed
<1> QED
  BY <1>1, StillPosition, CutOffer, SameDeadline DEF PollInv

\* A step that only changes columns no part but the types is about
LEMMA StillStep ==
  ASSUME PollInv, Typed', Observed', UNCHANGED <<co, mem, gh.sent, gh.queue>>,
         UNCHANGED <<db.claims, db.slot, db.active, db.rel>>
  PROVE  PollInv'
<1> USE DEF PollInv
<1>1. Slots'
  BY LedgerKept DEF ledger
<1>2. UNCHANGED Position
  BY DEF Position
<1> QED
  BY <1>1, <1>2, StillMessages, StillPosition, SameOffer, SameDeadline

-----------------------------------------------------------------------------
(* The initial state, and the environment *)

LEMMA InvInit == ASSUME Init PROVE PollInv
<1>1. PICK pol \in {"auto", "pinned"} :
          db = [sess |-> [fresh |-> "unknown", gen |-> 0],
                rel |-> IF pol = "auto" THEN [fresh |-> "unknown", gen |-> 0, cur |-> TRUE, at |-> 0, obs |-> 0]
                        ELSE [fresh |-> "fresh", gen |-> 1, cur |-> FALSE, at |-> 0, obs |-> 0],
                prof |-> [pol |-> pol, rev |-> 1],
                agent |-> [n \in Nodes |-> [rev |-> 0, ready |-> FALSE, epoch |-> 0]],
                active |-> [n \in Nodes |-> TRUE], slot |-> [n \in Nodes |-> Free],
                claims |-> <<>>, demand |-> 0, epoch |-> 1]
  BY DEF Init
<1>2. /\ mem = [n \in Nodes |-> Offline] /\ audit = TRUE /\ now = 0 /\ co = Closed /\ events = 0
      /\ gh = [queue |-> {}, sent |-> 0, assigned |-> 0]
  BY DEF Init
<1>3. db.rel \in Releases /\ db.rel.at = 0 /\ db.rel.obs = 0 /\ db.claims = <<>>
  BY <1>1 DEF Releases, Freshness
<1>4. db \in Stores
  <2>1. [n \in Nodes |-> [rev |-> 0, ready |-> FALSE, epoch |-> 0]] \in [Nodes -> AgentRows]
    BY DEF AgentRows
  <2>2. <<>> \in Seq(ClaimRows) /\ [n \in Nodes |-> TRUE] \in [Nodes -> BOOLEAN]
        /\ [n \in Nodes |-> Free] \in [Nodes -> Keys \cup {Free, Foreign}]
    OBVIOUS
  <2> QED
    BY <1>1, <1>3, <2>1, <2>2 DEF Stores, Freshness, Policies
<1>5. Typed
  BY <1>2, <1>4, ClosedIs, ConstantsAre DEF Typed, Offline
<1>6. Observed /\ Slots /\ Messages
  BY <1>2, <1>3, ClosedIs DEF Observed, Slots, Messages, Index, rows, Closed
<1>7. Evaluation /\ Offer /\ Deadline
  BY <1>2, ClosedIs, ConstantsAre DEF Evaluation, Offer, Deadline, Selected, Closed
<1> QED
  BY <1>5, <1>6, <1>7 DEF PollInv

LEMMA EventIs == ASSUME Typed, Event PROVE events' \in 0..MaxEvents
  BY ConstantsAre DEF Typed, Event

LEMMA JobStep == ASSUME PollInv, NewJob PROVE PollInv'
<1> USE DEF PollInv
<1>1. /\ gh.sent + 1 \in Jobs /\ gh.sent + 1 \in 0..Cardinality(Jobs) /\ gh.sent \in Nat
      /\ UNCHANGED <<db, mem, audit, now, co, events>>
  BY ConstantsAre DEF NewJob, Typed
<1>2. /\ gh'.queue = gh.queue \cup {gh.sent + 1} /\ gh'.sent = gh.sent + 1
      /\ gh'.assigned = gh.assigned
  BY DEF NewJob, Typed
<1>3. Typed'
  BY <1>1, <1>2 DEF Typed, NewJob
<1>4. Messages'
  BY <1>1, <1>2 DEF Messages, Index, rows
<1> QED
  BY <1>1, <1>3, <1>4
     DEF Observed, Slots, Evaluation, Offer, Deadline, Usable, Index, rows, Selected

LEMMA AssignStep == ASSUME PollInv, AssignJob PROVE PollInv'
<1> USE DEF PollInv
<1>1. /\ events' \in 0..MaxEvents /\ UNCHANGED <<db, mem, audit, now, co, gh.sent, gh.queue>>
      /\ gh' = [gh EXCEPT !.assigned = 1 - gh.assigned]
  BY EventIs DEF AssignJob, Typed
<1>2. 1 - gh.assigned \in 0..1
  BY DEF Typed
<1>3. Typed'
  BY <1>1, <1>2 DEF Typed
<1> QED
  BY <1>1, <1>3, StillStep DEF Observed

LEMMA TickStep == ASSUME PollInv, Tick \/ AuditDegrades PROVE PollInv'
<1> USE DEF PollInv
<1>1. events' \in 0..MaxEvents /\ UNCHANGED <<db, mem, gh, co>>
  BY EventIs DEF Tick, AuditDegrades
<1>2. now' \in 0..MaxTime /\ now' >= now /\ now \in Nat
  BY ConstantsAre DEF Tick, AuditDegrades, Typed
<1>0. audit' \in BOOLEAN
  BY DEF Tick, AuditDegrades, Typed
<1>3. Typed'
  BY <1>0, <1>1, <1>2 DEF Typed
<1>4. db.rel.obs \in Nat
  BY StoreFields DEF Typed, Releases
<1>5. Observed'
  BY <1>1, <1>2, <1>4 DEF Observed
<1> QED
  BY <1>1, <1>3, <1>5, StillStep

LEMMA ProfileStep == ASSUME PollInv, ConfigureRunnerProfile PROVE PollInv'
<1> USE DEF PollInv
<1> DEFINE p == [pol |-> IF db.prof.pol = "auto" THEN "pinned" ELSE "auto", rev |-> db.prof.rev + 1]
<1>1. /\ events' \in 0..MaxEvents /\ UNCHANGED <<mem, audit, gh, now, co>>
      /\ db' = [db EXCEPT !.prof = p]
  BY EventIs DEF ConfigureRunnerProfile, Typed, Stores
<1>2. p \in [pol : Policies, rev : Nat]
  BY StoreFields DEF Typed, Policies
<1> HIDE DEF p
<1>3. /\ db' \in Stores
      /\ UNCHANGED <<db.sess, db.rel, db.agent, db.active, db.slot, db.claims, db.epoch>>
  BY <1>1, <1>2, SetProfile DEF Typed
<1>4. Typed'
  BY <1>1, <1>3 DEF Typed
<1> QED
  BY <1>1, <1>3, <1>4, StillStep DEF Observed

\* The release a poll relied on is only superseded by a later generation.
LEMMA ReleaseStep ==
  ASSUME PollInv, NEW r \in Releases, db' = [db EXCEPT !.rel = r], events' \in 0..MaxEvents,
         UNCHANGED <<mem, audit, gh, now, co>>,
         r.at <= r.obs, r.obs <= now, r.gen >= db.rel.gen,
         r.gen = db.rel.gen => r.cur = db.rel.cur /\ r.at = db.rel.at /\ r.obs >= db.rel.obs
  PROVE  PollInv'
<1> USE DEF PollInv
<1>1. /\ db' \in Stores /\ db'.rel = r
      /\ UNCHANGED <<db.sess, db.prof, db.agent, db.active, db.slot, db.claims, db.epoch>>
  BY SetRelease DEF Typed
<1>2. Typed' /\ Observed' /\ UNCHANGED Position
  BY <1>1 DEF Typed, Observed, Position
<1>3. Slots'
  BY <1>1, LedgerKept DEF ledger
<1>4. db.rel \in Releases /\ co.scope.auth \in Auths
  BY StoreFields DEF Typed, Polls, Scopes
<1>5. /\ db.rel.gen \in Nat /\ db.rel.obs \in Nat /\ r.gen \in Nat /\ r.obs \in Nat
      /\ co.scope.auth.rel \in Nat /\ co.scope.auth.until \in Nat /\ Window \in Nat
  BY <1>4, ConstantsAre DEF Releases, Auths
<1>6. Deadline'
  BY <1>1, <1>5 DEF Deadline
<1> QED
  BY <1>1, <1>2, <1>3, <1>6, StillMessages, StillPosition, SameOffer

LEMMA ObservedStep ==
  ASSUME PollInv, NEW cur \in BOOLEAN, NEW at \in 0..MaxTime, ReleaseObserved(cur, at)
  PROVE  PollInv'
<1> USE DEF PollInv
<1> DEFINE g == IF db.rel.fresh = "fresh" /\ db.rel.cur = cur /\ db.rel.at = at
                  THEN db.rel.gen ELSE db.rel.gen + 1
           r == [fresh |-> "fresh", cur |-> cur, at |-> at, obs |-> now, gen |-> g]
<1>1. /\ db' = [db EXCEPT !.rel = r] /\ at \in db.rel.at..now
      /\ UNCHANGED <<mem, audit, gh, now, co>>
  BY DEF ReleaseObserved
<1>2. events' \in 0..MaxEvents
  BY EventIs DEF ReleaseObserved
<1>3. db.rel \in Releases /\ db.rel.gen \in Nat /\ now \in Nat /\ at \in Nat
  BY StoreFields, ConstantsAre DEF Typed, Releases
<1>4. g \in Nat /\ g >= db.rel.gen /\ (g = db.rel.gen => cur = db.rel.cur /\ at = db.rel.at)
  BY <1>3
<1> HIDE DEF g
<1>5. r \in Releases /\ r.at = at /\ r.obs = now /\ r.gen = g /\ r.cur = cur
  BY <1>3, <1>4 DEF Releases, Freshness
<1>6. r.at <= r.obs /\ r.obs <= now /\ r.obs >= db.rel.obs
  BY <1>1, <1>3, <1>5 DEF Observed, Releases
<1> HIDE DEF r, PollInv
<1> QED
  BY <1>1, <1>2, <1>4, <1>5, <1>6, ReleaseStep

LEMMA FailsStep == ASSUME PollInv, ReleaseFails PROVE PollInv'
<1> USE DEF PollInv
<1> DEFINE s == IF db.rel.gen = 0 THEN [db.rel EXCEPT !.gen = 1]
                ELSE [db.rel EXCEPT !.fresh = "stale", !.gen = db.rel.gen + 1]
<1>1. db' = [db EXCEPT !.rel = s] /\ UNCHANGED <<mem, audit, gh, now, co>>
  BY DEF ReleaseFails
<1>2. events' \in 0..MaxEvents
  BY EventIs DEF ReleaseFails
<1>3. db.rel \in Releases
  BY StoreFields DEF Typed
<1>5. db.rel.gen \in Nat /\ db.rel.gen + 1 \in Nat
  BY <1>3 DEF Releases
<1>4. s \in Releases /\ s.at = db.rel.at /\ s.obs = db.rel.obs /\ s.gen = db.rel.gen + 1
  <2>1. CASE db.rel.gen = 0
    BY <1>3, <2>1 DEF Releases
  <2>2. CASE db.rel.gen # 0
    BY <1>3, <1>5, <2>2 DEF Releases, Freshness
  <2> QED
    BY <2>1, <2>2
<1> HIDE DEF s
<1> QED
  BY <1>1, <1>2, <1>4, <1>5, ReleaseStep DEF Observed

\* The durable row of an Agent
LEMMA AgentRow ==
  ASSUME PollInv, NEW n \in Nodes, NEW r \in AgentRows, db' = [db EXCEPT !.agent[n] = r],
         mem' \in [Nodes -> [on : BOOLEAN, ready : BOOLEAN, rev : Nat]],
         events' \in 0..MaxEvents, UNCHANGED <<audit, gh, now>>,
         co' = Signal(co) \/ UNCHANGED <<co, mem>>
  PROVE  PollInv'
<1> USE DEF PollInv
<1>1. /\ db' \in Stores
      /\ UNCHANGED <<db.sess, db.rel, db.prof, db.active, db.slot, db.claims, db.epoch>>
  BY SetAgent DEF Typed
<1>2. co' \in Polls /\ UNCHANGED Position
  BY Signalled DEF Typed, Position
<1>3. Typed' /\ Observed'
  BY <1>1, <1>2 DEF Typed, Observed
<1>4. Slots' /\ ClaimsKept
  BY <1>1, LedgerKept DEF ledger
<1>5. Messages'
  BY <1>1, <1>2, StillMessages
<1> HIDE DEF PollInv
<1>6. CASE co' = Signal(co)
  BY <1>1, <1>3, <1>4, <1>5, <1>6, SignalStep
<1>7. CASE UNCHANGED <<co, mem>>
  BY <1>1, <1>3, <1>7, StillStep
<1> QED
  BY <1>6, <1>7

LEMMA AgentStep ==
  ASSUME PollInv, NEW n \in Nodes,
         \/ \E r \in BOOLEAN : AgentStored(n, r)
         \/ AgentConnects(n) \/ DisconnectRecorded(n)
  PROVE  PollInv'
<1>1. /\ Typed /\ db.agent[n] \in AgentRows /\ db.agent[n].rev + 1 \in Nat /\ db.epoch \in Nat
      /\ mem \in [Nodes -> [on : BOOLEAN, ready : BOOLEAN, rev : Nat]] /\ events \in 0..MaxEvents
  BY StoreFields DEF PollInv, Typed, AgentRows
<1>2. ASSUME NEW b \in BOOLEAN
      PROVE  [rev |-> db.agent[n].rev + 1, ready |-> b, epoch |-> db.epoch] \in AgentRows
  BY <1>1 DEF AgentRows
<1>3. ASSUME NEW b \in BOOLEAN, AgentStored(n, b) PROVE PollInv'
  <2> DEFINE r == [rev |-> db.agent[n].rev + 1, ready |-> b, epoch |-> db.epoch]
  <2>1. db' = [db EXCEPT !.agent[n] = r] /\ UNCHANGED <<mem, audit, gh, now, co>>
    BY <1>1, <1>3 DEF AgentStored, Typed, Stores
  <2>2. events' \in 0..MaxEvents
    BY <1>1, <1>3, EventIs DEF AgentStored
  <2>3. r \in AgentRows
    BY <1>2
  <2> HIDE DEF r
  <2> QED
    BY <1>1, <2>1, <2>2, <2>3, AgentRow
<1>4. CASE AgentConnects(n)
  <2> DEFINE r == [rev |-> db.agent[n].rev + 1, ready |-> TRUE, epoch |-> db.epoch]
  <2>1. db' = [db EXCEPT !.agent[n] = r] /\ UNCHANGED <<audit, gh, now, events>>
    BY <1>1, <1>4 DEF AgentConnects, Typed, Stores
  <2>2. mem' \in [Nodes -> [on : BOOLEAN, ready : BOOLEAN, rev : Nat]] /\ co' = Signal(co)
    BY <1>1, <1>4 DEF AgentConnects
  <2>3. r \in AgentRows
    BY <1>2
  <2> HIDE DEF r
  <2> QED
    BY <1>1, <2>1, <2>2, <2>3, AgentRow
<1>5. CASE DisconnectRecorded(n)
  <2> DEFINE r == [db.agent[n] EXCEPT !.ready = FALSE]
  <2>1. db' = [db EXCEPT !.agent[n] = r] /\ UNCHANGED <<mem, audit, gh, now, co, events>>
    BY <1>1, <1>5 DEF DisconnectRecorded, Typed, Stores
  <2>2. r \in AgentRows
    BY <1>1 DEF AgentRows
  <2> HIDE DEF r
  <2> QED
    BY <1>1, <2>1, <2>2, AgentRow
<1> QED
  BY <1>3, <1>4, <1>5

\* The broker's and the reconciler's memory of a node
LEMMA MemoryStep ==
  ASSUME PollInv, NEW n \in Nodes, AgentProjected(n) \/ AgentLost(n)
  PROVE  PollInv'
<1> USE DEF PollInv
<1>1. co' = Signal(co) /\ UNCHANGED <<db, audit, gh, now>>
  BY DEF AgentProjected, AgentLost
<1>2. events' \in 0..MaxEvents
  BY EventIs DEF AgentProjected, AgentLost, Typed
<1>3. mem' \in [Nodes -> [on : BOOLEAN, ready : BOOLEAN, rev : Nat]]
  <2>1. db.agent[n] \in AgentRows
    BY StoreFields DEF Typed
  <2>2. mem[n] \in [on : BOOLEAN, ready : BOOLEAN, rev : Nat]
    BY DEF Typed
  <2>3. CASE AgentProjected(n)
    BY <2>1, <2>3 DEF AgentProjected, AgentRows, Typed
  <2>4. CASE AgentLost(n)
    <3>1. mem' = [mem EXCEPT ![n] = [mem[n] EXCEPT !.on = FALSE, !.ready = FALSE]]
      BY <2>4 DEF AgentLost, Typed
    <3>2. [mem[n] EXCEPT !.on = FALSE, !.ready = FALSE] \in [on : BOOLEAN, ready : BOOLEAN, rev : Nat]
      BY <2>2
    <3> QED
      BY <3>1, <3>2 DEF Typed
  <2> QED
    BY <2>3, <2>4
<1>4. co' \in Polls /\ UNCHANGED Position
  BY <1>1, Signalled DEF Typed
<1>5. Typed' /\ Observed'
  BY <1>1, <1>2, <1>3, <1>4 DEF Typed, Observed
<1>6. Slots' /\ ClaimsKept /\ Messages'
  BY <1>1, <1>4, LedgerKept, StillMessages DEF ledger
<1> HIDE DEF PollInv
<1> QED
  BY <1>1, <1>5, <1>6, SignalStep

LEMMA NodeStep == ASSUME PollInv, NEW n \in Nodes, SetNodeAdministrativeState(n) PROVE PollInv'
<1> USE DEF PollInv
<1>1. /\ co' = Signal(co) /\ UNCHANGED <<mem, audit, gh, now>>
      /\ db' = [db EXCEPT !.active[n] = ~db.active[n]]
  BY DEF SetNodeAdministrativeState, Typed, Stores
<1>2. events' \in 0..MaxEvents
  BY EventIs DEF SetNodeAdministrativeState
<1>3. (~db.active[n]) \in BOOLEAN
  OBVIOUS
<1>4. /\ db' \in Stores
      /\ UNCHANGED <<db.sess, db.rel, db.prof, db.agent, db.slot, db.claims, db.epoch>>
  BY <1>1, <1>3, SetActive DEF Typed
<1>5. co' \in Polls /\ UNCHANGED Position
  BY <1>1, Signalled DEF Typed
<1>6. Typed' /\ Observed'
  BY <1>1, <1>2, <1>4, <1>5 DEF Typed, Observed
<1>7. Slots' /\ ClaimsKept /\ Messages'
  BY <1>1, <1>4, <1>5, LedgerKept, StillMessages DEF ledger
<1> HIDE DEF PollInv
<1> QED
  BY <1>1, <1>4, <1>6, <1>7, SignalStep

\* Another Target never takes the slot of a claim that is not over.
LEMMA ForeignStep == ASSUME PollInv, NEW n \in Nodes, OtherTarget(n) PROVE PollInv'
<1> USE DEF PollInv
<1>1. PICK k \in {Free, Foreign} : db' = [db EXCEPT !.slot[n] = k]
  BY DEF OtherTarget, Typed, Stores
<1>2. co' = Signal(co) /\ UNCHANGED <<mem, audit, gh, now>> /\ db.slot[n] \in {Free, Foreign}
  BY DEF OtherTarget
<1>3. events' \in 0..MaxEvents
  BY EventIs DEF OtherTarget
<1>4. /\ db' \in Stores /\ db'.slot = [db.slot EXCEPT ![n] = k]
      /\ UNCHANGED <<db.sess, db.rel, db.prof, db.agent, db.active, db.claims, db.epoch>>
  BY <1>1, SetSlot DEF Typed
<1>5. co' \in Polls /\ UNCHANGED Position
  BY <1>2, Signalled DEF Typed
<1>6. Typed' /\ Observed'
  BY <1>2, <1>3, <1>4, <1>5 DEF Typed, Observed
<1>7. ClaimsKept /\ Messages'
  BY <1>2, <1>4, <1>5, StillMessages DEF ClaimsKept, Index, rows
<1>8. Slots'
  <2>1. \A i \in Index : rows[i] \in ClaimRows /\ rows[i].key \in Keys /\ rows[i].node \in Nodes
    <3>1. db.claims \in Seq(ClaimRows)
      BY StoreFields DEF Typed
    <3>2. \A i \in Index : rows[i] \in ClaimRows
      BY <3>1 DEF rows, Index
    <3> QED
      BY <3>2 DEF ClaimRows
  <2>2. \A i \in Index : rows[i].st # "done" => rows[i].node # n
    BY <1>2, <2>1, KeysAre DEF Slots
  <2>3. \A m \in Nodes \ {n} : db'.slot[m] = db.slot[m]
    BY <1>4, StoreFields DEF Typed
  <2> QED
    BY <1>4, <2>1, <2>2, <2>3 DEF Slots, rows, Index
<1> HIDE DEF PollInv
<1> QED
  BY <1>2, <1>4, <1>6, <1>7, <1>8, SignalStep

\* The reservation that ends is the claim's own.
LEMMA EndsStep == ASSUME PollInv, NEW i \in 1..Cardinality(Keys), JobEnds(i) PROVE PollInv'
<1> USE DEF PollInv
<1> DEFINE n == rows[i].node
           r == [rows[i] EXCEPT !.st = "done"]
           q == [db.claims EXCEPT ![i] = r]
           f == [db.slot EXCEPT ![n] = Free]
<1>1. i \in Index /\ rows[i].st = "started" /\ co' = Signal(co)
      /\ UNCHANGED <<mem, audit, gh, now, events>>
  BY DEF JobEnds, Index, rows
<1>2. db.claims \in Seq(ClaimRows) /\ \A j \in Index : rows[j] \in ClaimRows
  BY StoreFields DEF Typed, rows, Index
<1>3. n \in Nodes /\ r \in ClaimRows /\ r.key = rows[i].key /\ r.node = n /\ r.st = "done"
  BY <1>1, <1>2 DEF ClaimRows
<1>4. db' = [db EXCEPT !.claims = q, !.slot = f]
  BY <1>1 DEF JobEnds, rows, Typed, Stores
<1> HIDE DEF r
<1>5. /\ q \in Seq(ClaimRows) /\ Len(q) = Len(db.claims) /\ q[i] = r
      /\ \A j \in Index \ {i} : q[j] = rows[j]
  BY <1>1, <1>2, <1>3 DEF rows, Index
<1>6. f \in [Nodes -> Keys \cup {Free, Foreign}] /\ \A m \in Nodes \ {n} : f[m] = db.slot[m]
  BY <1>3, StoreFields DEF Typed
<1> HIDE DEF q, f
<1>7. /\ db' \in Stores /\ db'.claims = q /\ db'.slot = f
      /\ UNCHANGED <<db.sess, db.rel, db.prof, db.agent, db.active, db.epoch>>
  BY <1>4, <1>5, <1>6 DEF Typed, Stores
<1>8. co' \in Polls /\ UNCHANGED Position
  BY <1>1, Signalled DEF Typed
<1>9. Typed' /\ Observed'
  BY <1>1, <1>7, <1>8 DEF Typed, Observed
<1>10. /\ Index' = Index /\ ClaimsKept
       /\ \A j \in Index : rows'[j].key = rows[j].key /\ rows'[j].node = rows[j].node
       /\ rows'[i].st = "done" /\ \A j \in Index \ {i} : rows'[j] = rows[j]
  BY <1>1, <1>3, <1>5, <1>7 DEF Index, rows, ClaimsKept
<1>11. Messages'
  BY <1>1, <1>8, <1>10 DEF Messages, Position
<1>12. Slots'
  <2>1. \A j \in Index \ {i} : rows[j].st # "done" => rows[j].node # n
    BY <1>1 DEF Slots
  <2>2. \A j \in Index : rows[j].node \in Nodes
    BY <1>2 DEF ClaimRows
  <2>3. \A j, k \in Index : j # k => rows'[j].key # rows'[k].key
    BY <1>10 DEF Slots
  <2>4. ASSUME NEW j \in Index, rows'[j].st # "done"
        PROVE  db'.slot[rows'[j].node] = rows'[j].key
    <3>1. j # i /\ rows[j].st # "done" /\ rows[j].node # n /\ rows[j].node \in Nodes
      BY <1>10, <2>1, <2>2, <2>4
    <3>2. db'.slot[rows[j].node] = db.slot[rows[j].node]
      BY <1>6, <1>7, <3>1
    <3> QED
      BY <1>10, <3>1, <3>2 DEF Slots
  <2> QED
    BY <1>10, <2>3, <2>4 DEF Slots
<1> HIDE DEF PollInv
<1> QED
  BY <1>1, <1>7, <1>9, <1>10, <1>11, <1>12, SignalStep

-----------------------------------------------------------------------------
(* The coordinator *)

\* Steps that end the poll and leave the ledger alone
LEMMA LeaveStep ==
  ASSUME PollInv, Away, db' \in Stores, UNCHANGED <<db.claims, db.slot, db.rel>>,
         UNCHANGED <<gh, now>>, audit' \in BOOLEAN, events' \in 0..MaxEvents,
         mem' \in [Nodes -> [on : BOOLEAN, ready : BOOLEAN, rev : Nat]]
  PROVE  PollInv'
<1>1. Typed' /\ Observed'
  BY DEF PollInv, Typed, Observed, Away
<1>2. Slots' /\ ClaimsKept
  BY LedgerKept DEF PollInv, ledger
<1> QED
  BY <1>1, <1>2, AwayStep

LEMMA OpenIs == ASSUME Typed, Open PROVE Away
<1> DEFINE d == Actionable # {} /\ db.claims[NextClaim].st = "acquired"
           c == [Closed EXCEPT !.pc = "loop", !.pol = db.prof.pol, !.moved = co.moved, !.drive = d]
<1>1. co' = c
  BY DEF Open
<1>2. d \in BOOLEAN /\ db.prof.pol \in Policies /\ co.moved \in BOOLEAN
  BY StoreFields DEF Typed, Polls
<1> HIDE DEF d
<1>3. c \in Polls /\ c.pc = "loop" /\ c.scope = Closed.scope /\ c.adv = Closed.adv
      /\ c.moved = co.moved
  BY <1>2, ClosedIs DEF Polls, Pcs
<1> HIDE DEF c
<1> QED
  BY <1>1, <1>3, ClosedIs DEF Away

\* Openings, interruptions, waits, refused drives
LEMMA IdleStep ==
  ASSUME PollInv,
         \/ Open \/ Interrupted \/ DriveNothing \/ DriveRefused \/ AwaitReadiness
         \/ RetryElapses \/ StoreFails \/ Stop
  PROVE  PollInv'
<1>1. Typed /\ co \in Polls /\ co.drive \in BOOLEAN
  BY DEF PollInv, Typed, Polls
<1>2. UNCHANGED <<db, mem, audit, gh, now>>
  BY DEF Open, Interrupted, DriveNothing, DriveRefused, AwaitReadiness, RetryElapses,
         StoreFails, Stop
<1>3. events' \in 0..MaxEvents
  <2>1. UNCHANGED events \/ Event
    BY DEF Open, Interrupted, DriveNothing, DriveRefused, AwaitReadiness, RetryElapses,
           StoreFails, Stop
  <2> QED
    BY <1>1, <2>1, EventIs DEF Typed
<1>4. Away
  <2>1. \/ Open \/ co' = Exit
        \/ \E s \in {"loop", "drive", "retry", "await"}, d \in BOOLEAN : co' = Leave(s, d)
    BY <1>1 DEF Interrupted, DriveNothing, DriveRefused, AwaitReadiness, RetryElapses,
                StoreFails, Stop, Reevaluate
  <2> QED
    BY <1>1, <2>1, OpenIs, ExitIs, LeavesAre
<1> QED
  BY <1>1, <1>2, <1>3, <1>4, LeaveStep DEF Typed

\* A provider failure that is persisted, or that could not be
LEMMA FailureIs ==
  ASSUME Typed, NEW d \in BOOLEAN, ProviderFails(d)
  PROVE  Away /\ db' \in Stores /\ UNCHANGED <<db.claims, db.slot, db.rel>>
<1>1. co \in Polls /\ db \in Stores
  BY DEF Typed
<1>2. CASE co' = Exit /\ UNCHANGED db
  BY <1>1, <1>2, ExitIs
<1>3. CASE co' = Leave("retry", d) /\ db' = [db EXCEPT !.sess = SessionFailure(db.sess)]
  <2> DEFINE s == SessionFailure(db.sess)
  <2>1. s \in [fresh : Freshness, gen : Nat]
    BY <1>1, StoreFields DEF SessionFailure, Freshness
  <2> HIDE DEF s
  <2>2. db' \in Stores /\ UNCHANGED <<db.claims, db.slot, db.rel>>
    BY <1>1, <1>3, <2>1 DEF s, Stores
  <2> QED
    BY <1>1, <1>3, <2>2, LeavesAre
<1> QED
  BY <1>1, <1>2, <1>3 DEF ProviderFails, Stores

LEMMA FailureStep == ASSUME PollInv, PollFails \/ DriveFails PROVE PollInv'
<1>1. Typed /\ co.drive \in BOOLEAN
  BY DEF PollInv, Typed, Polls
<1>2. /\ UNCHANGED <<mem, audit, gh, now>> /\ Event
      /\ ProviderFails(co.drive) \/ ProviderFails(TRUE)
  BY DEF PollFails, DriveFails
<1>3. Away /\ db' \in Stores /\ UNCHANGED <<db.claims, db.slot, db.rel>>
  BY <1>1, <1>2, FailureIs
<1> QED
  BY <1>1, <1>2, <1>3, EventIs, LeaveStep DEF Typed

LEMMA RestartStep == ASSUME PollInv, Restart PROVE PollInv'
<1>1. Typed /\ co \in Polls /\ db \in Stores /\ db.epoch + 1 \in Nat
  BY StoreFields DEF PollInv, Typed
<1>2. /\ db' = [db EXCEPT !.epoch = db.epoch + 1] /\ mem' = [n \in Nodes |-> Offline]
      /\ audit' = TRUE /\ co' = Exit /\ UNCHANGED <<gh, now>> /\ Event
  BY DEF Restart
<1>3. db' \in Stores /\ UNCHANGED <<db.rel, db.slot, db.claims>>
  BY <1>1, <1>2, SetEpoch
<1>4. mem' \in [Nodes -> [on : BOOLEAN, ready : BOOLEAN, rev : Nat]]
  BY <1>2 DEF Offline
<1> QED
  BY <1>1, <1>2, <1>3, <1>4, EventIs, ExitIs, LeaveStep

LEMMA LeastOf ==
  ASSUME NEW S, S \subseteq Nat, S # {}
  PROVE  \E k \in S : \A j \in S : k <= j
<1> DEFINE R == OpToRel(<, Nat)
<1>1. IsWellFoundedOn(R, Nat)
  BY NatLessThanWellFounded
<1>2. R = {ss \in Nat \X Nat : ss[1] < ss[2]}
  BY DEF OpToRel
<1> HIDE DEF R
<1>3. PICK k \in S : \A j \in S : <<j, k>> \notin R
  BY <1>1, WFMin
<1>4. ASSUME NEW j \in S PROVE k <= j
  <2>1. <<j, k>> \in Nat \X Nat /\ <<j, k>> \notin R /\ j \in Nat /\ k \in Nat
    BY <1>3
  <2>2. ~(j < k)
    BY <1>2, <2>1
  <2> QED
    BY <2>1, <2>2
<1> QED
  BY <1>4

\* acquire, prepare, generateAndStart: the claim keeps its slot.
LEMMA DriveStep == ASSUME PollInv, DriveClaim PROVE PollInv'
<1> DEFINE i == NextClaim
<1>1. PICK s \in {"acquired", "started"} : Advance(s)
  BY DEF DriveClaim
<1>2. UNCHANGED <<mem, audit, gh, now, events>> /\ Typed
  BY DEF DriveClaim, PollInv
<1>3. i \in Actionable
  <2>1. Actionable # {} /\ Actionable \subseteq Nat
    BY DEF DriveClaim, Drives, Actionable
  <2>2. \E k \in Actionable : \A j \in Actionable : k <= j
    BY <2>1, LeastOf
  <2> QED
    BY <2>2 DEF NextClaim
<1>4. i \in Index /\ rows[i].st # "done"
  BY <1>3 DEF Actionable, Index, rows
<1>5. db' = [db EXCEPT !.claims[i].st = s]
  BY <1>1 DEF Advance
<1> HIDE DEF i
<1>6. /\ db' \in Stores /\ Index' = Index
      /\ UNCHANGED <<db.sess, db.rel, db.prof, db.agent, db.active, db.slot, db.epoch>>
      /\ \A j \in Index : rows'[j].key = rows[j].key /\ rows'[j].node = rows[j].node
      /\ \A j \in Index \ {i} : rows'[j].st = rows[j].st
  BY <1>2, <1>4, <1>5, SetState DEF Typed
<1>7. Slots' /\ ClaimsKept
  BY <1>4, <1>6 DEF PollInv, Slots, ClaimsKept
<1>8. Away
  <2>1. PICK d \in BOOLEAN : co' = Leave("loop", d)
    BY <1>1 DEF Advance
  <2> QED
    BY <1>2, <2>1, LeavesAre DEF Typed
<1>9. Typed' /\ Observed'
  BY <1>2, <1>6, <1>8 DEF PollInv, Typed, Observed, Away
<1> QED
  BY <1>2, <1>7, <1>8, <1>9, AwayStep

-----------------------------------------------------------------------------
(* The long poll and the deletion of its message *)

LEMMA DeliveryStep == ASSUME PollInv, PollEmpty \/ PollDelivers PROVE PollInv'
<1> USE DEF PollInv
<1>1. co.pc = "poll" /\ UNCHANGED <<db, mem, audit, gh, now, events>>
  BY DEF PollEmpty, PollDelivers
<1>2. PICK m \in Jobs \cup {0} : co' = [co EXCEPT !.pc = "healthy", !.msg = m]
  <2>1. co.msg \in Jobs \cup {0} /\ gh.queue \subseteq Jobs
    BY DEF Typed, Polls
  <2>2. CASE PollEmpty
    <3>1. co' = [co EXCEPT !.pc = "healthy", !.msg = co.msg]
      BY <2>2 DEF PollEmpty, Typed, Polls
    <3> QED
      BY <2>1, <3>1
  <2>3. CASE PollDelivers
    BY <2>1, <2>3 DEF PollDelivers
  <2> QED
    BY <2>2, <2>3
<1>3. /\ co' \in Polls /\ co'.pc = "healthy"
      /\ UNCHANGED <<co.i, co.scope, co.adv, co.aud, co.bind, co.moved>>
  BY <1>2 DEF Typed, Polls, Pcs
<1>4. Typed' /\ Observed'
  BY <1>1, <1>3 DEF Typed, Observed
<1>5. Slots' /\ ClaimsKept
  BY <1>1, LedgerKept DEF ledger
<1>6. Messages'
  BY <1>1, <1>3, <1>5, QueueKept DEF Messages
<1>7. Evaluation'
  BY <1>1, <1>3 DEF Evaluation, Selected
<1>8. Offer' /\ Deadline'
  BY <1>1, <1>3 DEF Offer, Deadline
<1> QED
  BY <1>4, <1>5, <1>6, <1>7, <1>8

\* The message GitHub may have deleted has its claim.
LEMMA DeletionStep ==
  ASSUME PollInv, co.pc = "ack", Away, gh' \in {gh, [gh EXCEPT !.queue = @ \ {co.msg}]},
         db' \in Stores, UNCHANGED <<db.claims, db.slot, db.rel>>, UNCHANGED <<mem, audit, now>>,
         events' \in 0..MaxEvents
  PROVE  PollInv'
<1> USE DEF PollInv
<1>1. /\ gh'.sent = gh.sent /\ gh'.assigned = gh.assigned
      /\ gh' \in [queue : SUBSET Jobs, sent : 0..Cardinality(Jobs), assigned : 0..1]
      /\ \A j \in gh.queue : j \in gh'.queue \/ j = co.msg
  BY DEF Typed
<1>2. Typed' /\ Observed'
  BY <1>1 DEF Typed, Observed, Away
<1>3. Slots' /\ Index' = Index /\ rows' = rows
  BY LedgerKept DEF ledger, Index, rows
<1>4. Messages'
  <2>1. ASSUME NEW j \in 1..gh.sent, j \notin gh'.queue
        PROVE  \E i \in Index : rows[i].key = j
    <3>1. CASE j = co.msg
      BY <3>1 DEF Messages
    <3>2. CASE j # co.msg
      BY <1>1, <2>1, <3>2 DEF Messages
    <3> QED
      BY <3>1, <3>2
  <2> QED
    BY <1>1, <1>3, <2>1 DEF Messages, Away
<1>5. Evaluation' /\ Offer'
  BY ConstantsAre DEF Away, Evaluation, Offer, Selected
<1>6. Deadline'
  BY ClosedIs DEF Away, Deadline
<1> QED
  BY <1>2, <1>3, <1>4, <1>5, <1>6

LEMMA AckStep == ASSUME PollInv, Acknowledge \/ AckCancelled \/ AckFails PROVE PollInv'
<1>1. Typed /\ co \in Polls /\ db \in Stores /\ co.drive \in BOOLEAN /\ co.msg \in Nat
  BY ConstantsAre DEF PollInv, Typed, Polls
<1>2. /\ co.pc = "ack" /\ gh' \in {gh, [gh EXCEPT !.queue = @ \ {co.msg}]}
      /\ UNCHANGED <<mem, audit, now>>
  BY DEF Acknowledge, AckCancelled, AckFails
<1>3. events' \in 0..MaxEvents
  BY <1>1, EventIs DEF Acknowledge, AckCancelled, AckFails, Typed
<1>4. Away /\ db' \in Stores /\ UNCHANGED <<db.claims, db.slot, db.rel>>
  <2>1. CASE AckFails
    BY <1>1, <2>1, FailureIs DEF AckFails
  <2>2. CASE AckCancelled
    <3>1. co' = Leave("loop", TRUE) /\ UNCHANGED db
      BY <2>2 DEF AckCancelled, Reevaluate
    <3> QED
      BY <1>1, <3>1, LeavesAre
  <2>3. CASE Acknowledge
    <3>1. PICK s \in {"loop", "drive"}, d \in BOOLEAN : co' = [Leave(s, d) EXCEPT !.last = co.msg]
      BY <1>1, <2>3 DEF Acknowledge, Reevaluate
    <3>2. co.pol \in Policies /\ co.last \in Nat /\ co.moved \in BOOLEAN
      BY <1>1 DEF Polls
    <3>3. /\ Leave(s, d) \in Polls /\ Leave(s, d).pc = s /\ Leave(s, d).scope = NoScope
          /\ Leave(s, d).adv = 0 /\ Leave(s, d).moved = co.moved
      BY <3>2, ClosedIs DEF Leave, Polls, Pcs
    <3>4. /\ co' \in Polls /\ co'.pc = s /\ co'.scope = NoScope /\ co'.adv = 0
          /\ co'.moved = co.moved
      BY <1>1, <3>1, <3>3 DEF Polls
    <3> QED
      BY <1>1, <2>3, <3>4 DEF Away, Acknowledge
  <2> QED
    BY <2>1, <2>2, <2>3
<1> QED
  BY <1>2, <1>3, <1>4, DeletionStep

-----------------------------------------------------------------------------
(* The evaluation of the candidates *)

\* A captured deadline is one of the current release.
LEMMA RecheckIs ==
  ASSUME Typed, NEW pol \in Policies
  PROVE  /\ RecheckAt(pol) \in Nat
         /\ RecheckAt(pol) # 0 =>
               /\ RecheckAt(pol) <= db.rel.obs + Window
               /\ db.rel.cur \/ RecheckAt(pol) <= db.rel.at + Window
<1>1. db.rel.obs \in Nat /\ db.rel.at \in Nat /\ Window \in Nat \ {0}
  BY StoreFields, ConstantsAre DEF Typed, Releases
<1> QED
  BY <1>1 DEF RecheckAt, Earliest

LEMMA StateIs ==
  ASSUME Typed, NEW n \in Nodes
  PROVE  /\ PollState(n) \in Auths /\ PollState(n).pol = db.prof.pol
         /\ PollState(n).until = RecheckAt(db.prof.pol)
         /\ db.prof.pol = "pinned" => PollState(n).rel = db.rel.gen
<1>1. /\ db.prof.rev \in Nat /\ db.prof.pol \in Policies /\ db.sess.gen \in Nat /\ db.epoch \in Nat
      /\ db.agent[n] \in AgentRows
  BY StoreFields DEF Typed
<1>2. db.rel.gen \in Nat
  BY StoreFields DEF Typed, Releases
<1>3. RecheckAt(db.prof.pol) \in Nat
  BY <1>1, RecheckIs
<1> QED
  BY <1>1, <1>2, <1>3 DEF PollState, Auths

LEMMA CapacityIs ==
  ASSUME NEW n \in Nodes, NEW b \in BOOLEAN
  PROVE  Capacity(n, b) \in 0..1 /\ (Capacity(n, b) = 1 => b /\ Usable(n))
  BY DEF Capacity, SlotAvailable, Admits, Usable

\* The evaluation so far
Evaluated(c) ==
    /\ c \in Polls /\ c.pc = "eval" /\ c.i \in Nodes /\ c.adv < c.i /\ ~c.moved
    /\ c.i = 1 \/ c.scope.node \in Nodes
    /\ c.adv > 0 => c.aud /\ (c.cut \/ \E n \in Nodes : Usable(n))
    /\ c.scope.auth.pol = "pinned" =>
        /\ c.scope.auth.rel <= db.rel.gen
        /\ c.scope.auth.rel = db.rel.gen /\ c.scope.auth.until # 0 =>
              /\ c.scope.auth.until <= db.rel.obs + Window
              /\ db.rel.cur \/ c.scope.auth.until <= db.rel.at + Window

LEMMA EvaluatedIs ==
  ASSUME PollInv, EvaluateCandidate
  PROVE  \E c \in Polls : Evaluated(c) /\ Evaluate(c)
<1> USE DEF PollInv
<1>1. CASE co.pc = "eval" /\ Evaluate(co)
  <2>1. co \in Polls /\ ~co.moved /\ co.i \in Nodes /\ co.adv < co.i /\ co.scope.node \in Nodes
    BY <1>1 DEF Typed, Messages, Evaluation
  <2>2. Evaluated(co)
    BY <1>1, <2>1 DEF Evaluated, Offer, Deadline
  <2> QED
    BY <1>1, <2>1, <2>2
<1>2. CASE co.pc = "loop" /\ Evaluate([Leave("eval", FALSE) EXCEPT !.aud = audit])
  <2> DEFINE c == [Leave("eval", FALSE) EXCEPT !.aud = audit]
  <2>1. co.pol \in Policies /\ co.last \in Nat /\ co.moved \in BOOLEAN /\ ~co.moved /\ audit \in BOOLEAN
    BY DEF Typed, Polls, Messages
  <2>2. /\ Leave("eval", FALSE) \in Polls /\ Leave("eval", FALSE).pc = "eval"
        /\ Leave("eval", FALSE).scope = NoScope /\ Leave("eval", FALSE).adv = 0
        /\ Leave("eval", FALSE).i = 1 /\ Leave("eval", FALSE).moved = co.moved
    BY <2>1, ClosedIs DEF Leave, Polls, Pcs
  <2>3. c \in Polls /\ c.pc = "eval" /\ c.scope = NoScope /\ c.adv = 0 /\ c.i = 1 /\ ~c.moved
    BY <2>1, <2>2 DEF Polls
  <2>4. Evaluate(c)
    BY <1>2
  <2> HIDE DEF c
  <2>5. Evaluated(c)
    BY <2>3, ConstantsAre, ClosedIs DEF Evaluated
  <2> QED
    BY <2>3, <2>4, <2>5
<1> QED
  BY <1>1, <1>2 DEF EvaluateCandidate

\* One candidate more
LEMMA CandidateIs ==
  ASSUME Typed, NEW c \in Polls, Evaluated(c), Evaluate(c), db.prof.pol = c.pol
  PROVE  /\ co' \in Polls /\ co'.i = c.i + 1 /\ co'.adv = c.adv + Capacity(c.i, c.aud)
         /\ co'.pc = (IF c.i + 1 \notin Nodes THEN "poll" ELSE "eval")
         /\ co'.aud = c.aud /\ co'.cut = c.cut /\ co'.moved = c.moved
         /\ \/ co'.scope = c.scope /\ c.i # 1
            \/ co'.scope.node = c.i /\ co'.scope.auth = PollState(c.i)
         /\ db' \in Stores
         /\ UNCHANGED <<db.rel, db.active, db.slot, db.claims>>
<1> DEFINE n == c.i
           cap == Capacity(n, c.aud)
           last == n + 1 \notin Nodes
           take == [node |-> n, claimable |-> cap = 1, auth |-> PollState(n)]
           s == IF Takes(n, cap, c) THEN take ELSE c.scope
           r == Earliest(c.recheck, RecheckAt(c.pol))
           p == IF last THEN "poll" ELSE "eval"
           d == IF last THEN gh.assigned ELSE db.demand
<1>1. /\ co' = [c EXCEPT !.i = n + 1, !.adv = c.adv + cap, !.pc = p, !.recheck = r, !.scope = s]
      /\ db' = [db EXCEPT !.demand = d]
  BY DEF Evaluate
<1>2. n \in Nodes /\ n + 1 \in Nat /\ c.adv \in Nat /\ c.aud \in BOOLEAN /\ c.recheck \in Nat
      /\ c.pol \in Policies /\ c.scope \in Scopes
  BY ConstantsAre DEF Evaluated, Polls
<1>3. cap \in 0..1
  BY <1>2, CapacityIs
<1>4. take \in Scopes /\ take.node = n /\ take.auth = PollState(n)
  BY <1>2, StateIs DEF Scopes
<1>5. s \in Scopes /\ \/ s = c.scope /\ n # 1
                      \/ s.node = n /\ s.auth = PollState(n)
  BY <1>2, <1>4 DEF Takes
<1>6. r \in Nat
  BY <1>2, RecheckIs DEF Earliest
<1>7. d \in 0..1 /\ p \in Pcs
  BY StoreFields DEF Typed, Pcs
<1>8. c.adv + cap \in Nat
  BY <1>2, <1>3
<1> HIDE DEF s, r, d, p, cap
<1>9. /\ co' \in Polls /\ co'.i = n + 1 /\ co'.adv = c.adv + cap /\ co'.pc = p /\ co'.scope = s
      /\ co'.aud = c.aud /\ co'.cut = c.cut /\ co'.moved = c.moved
  BY <1>1, <1>2, <1>5, <1>6, <1>7, <1>8 DEF Polls
<1>10. db' \in Stores /\ UNCHANGED <<db.rel, db.active, db.slot, db.claims>>
  BY <1>1, <1>7, SetDemand DEF Typed
<1> QED
  BY <1>5, <1>9, <1>10 DEF p, cap

LEMMA CandidateStep == ASSUME PollInv, EvaluateCandidate PROVE PollInv'
<1> USE DEF PollInv
<1>1. PICK c \in Polls : Evaluated(c) /\ Evaluate(c)
  BY EvaluatedIs
<1>2. UNCHANGED <<mem, audit, gh, now, events>>
  BY DEF EvaluateCandidate
<1>3. CASE db.prof.pol # c.pol
  <2>1. co' = Exit /\ UNCHANGED db
    BY <1>1, <1>3 DEF Evaluate
  <2>2. Away
    BY <2>1, ExitIs DEF Typed
  <2> HIDE DEF PollInv
  <2> QED
    BY <1>2, <2>1, <2>2, LeaveStep DEF PollInv, Typed
<1>4. CASE db.prof.pol = c.pol
  <2> DEFINE n == c.i
             cap == Capacity(n, c.aud)
  <2>1. /\ co' \in Polls /\ co'.i = n + 1 /\ co'.adv = c.adv + cap
        /\ co'.pc = (IF n + 1 \notin Nodes THEN "poll" ELSE "eval")
        /\ co'.aud = c.aud /\ co'.cut = c.cut /\ co'.moved = c.moved
        /\ \/ co'.scope = c.scope /\ n # 1
           \/ co'.scope.node = n /\ co'.scope.auth = PollState(n)
        /\ db' \in Stores
        /\ UNCHANGED <<db.rel, db.active, db.slot, db.claims>>
    BY <1>1, <1>4, CandidateIs
  <2>2. n \in Nodes /\ c.adv \in Nat /\ c.adv < n /\ c.aud \in BOOLEAN /\ ~c.moved
    BY <1>1 DEF Evaluated, Polls
  <2>3. cap \in 0..1 /\ (cap = 1 => c.aud /\ Usable(n))
    BY <2>2, CapacityIs
  <2> HIDE DEF n, cap
  <2>4. Typed' /\ Observed'
    BY <1>2, <2>1 DEF Typed, Observed
  <2>5. Slots' /\ ClaimsKept
    BY <2>1, LedgerKept DEF ledger
  <2>6. co'.pc \in {"eval", "poll"}
    BY <2>1
  <2>7. Messages'
    BY <1>2, <2>1, <2>2, <2>5, <2>6, QueueKept DEF Messages
  <2>8. Evaluation'
    <3>1. co'.scope.node \in Nodes
      BY <1>1, <2>1, <2>2 DEF n, Evaluated
    <3>2. co'.adv <= n /\ n <= Cardinality(Nodes) /\ co'.adv < co'.i /\ co'.adv <= Cardinality(Nodes)
      BY <2>1, <2>2, <2>3, ConstantsAre
    <3> QED
      BY <2>1, <3>1, <3>2 DEF Evaluation, Selected
  <2>9. Offer'
    <3>1. ASSUME co'.adv > 0
          PROVE  c.aud /\ (c.cut \/ \E m \in Nodes : Usable(m))
      <4>1. CASE cap = 1
        BY <2>2, <2>3, <4>1
      <4>2. CASE cap = 0
        <5>1. c.adv > 0
          BY <2>1, <2>2, <3>1, <4>2
        <5> QED
          BY <1>1, <5>1 DEF Evaluated
      <4> QED
        BY <2>3, <4>1, <4>2
    <3>2. \A m \in Nodes : Usable(m) => Usable(m)'
      BY <1>2, <2>1 DEF Usable
    <3> QED
      BY <2>1, <3>1, <3>2 DEF Offer
  <2>10. Deadline'
    <3>1. CASE co'.scope = c.scope
      BY <1>1, <2>1, <3>1 DEF Evaluated, Deadline
    <3>2. CASE co'.scope.auth = PollState(n)
      <4>1. /\ PollState(n).pol = db.prof.pol /\ PollState(n).until = RecheckAt(db.prof.pol)
            /\ db.prof.pol = "pinned" => PollState(n).rel = db.rel.gen
        BY <2>2, StateIs
      <4>2. RecheckAt(db.prof.pol) # 0 =>
               /\ RecheckAt(db.prof.pol) <= db.rel.obs + Window
               /\ db.rel.cur \/ RecheckAt(db.prof.pol) <= db.rel.at + Window
        BY RecheckIs, StoreFields DEF Typed
      <4>3. db.rel.gen <= db.rel.gen
        BY StoreFields DEF Typed, Releases
      <4> QED
        BY <2>1, <3>2, <4>1, <4>2, <4>3 DEF Deadline
    <3> QED
      BY <2>1, <3>1, <3>2
  <2> QED
    BY <2>4, <2>5, <2>7, <2>8, <2>9, <2>10
<1> QED
  BY <1>3, <1>4

-----------------------------------------------------------------------------
(* The commit of what the poll returned *)

LEMMA ClaimTypes ==
  ASSUME Typed
  PROVE  /\ db.claims \in Seq(ClaimRows) /\ Len(db.claims) \in Nat
         /\ \A i \in Index : /\ rows[i] \in ClaimRows /\ rows[i].key \in Keys /\ rows[i].node \in Nodes
                             /\ rows[i].st \in {"pending", "acquired", "started", "done"}
<1>1. db.claims \in Seq(ClaimRows)
  BY StoreFields DEF Typed
<1>2. \A i \in Index : rows[i] \in ClaimRows
  BY <1>1 DEF rows, Index
<1> QED
  BY <1>1, <1>2 DEF ClaimRows

LEMMA ClaimedIs ==
  ASSUME NEW k
  PROVE  Claimed(k) <=> \E i \in Index : rows[i].key = k
  BY DEF Claimed, ClaimOf, Index, rows

LEMMA OwnerIs ==
  ASSUME Typed, Slots, NEW k, Claimed(k)
  PROVE  /\ OwnerOf(k) \in Nodes
         /\ \A i \in Index : rows[i].key = k => rows[i].node = OwnerOf(k)
<1> DEFINE c == CHOOSE i \in ClaimOf(k) : TRUE
<1>1. c \in ClaimOf(k)
  BY DEF Claimed
<1>2. OwnerOf(k) = rows[c].node
  BY DEF OwnerOf, rows
<1> HIDE DEF c
<1>3. c \in Index /\ rows[c].key = k
  BY <1>1 DEF ClaimOf, Index, rows
<1> QED
  BY <1>2, <1>3, ClaimTypes DEF Slots

LEMMA HealthyStep == ASSUME PollInv, CommitHealthy PROVE PollInv'
<1> USE DEF PollInv
<1>1. co.pc = "healthy" /\ UNCHANGED <<mem, audit, gh, now, events>>
  BY DEF CommitHealthy
<1>2. PICK d \in {db.demand, gh.assigned} : db' = [db EXCEPT !.sess = SessionSuccess(db.sess), !.demand = d]
  BY DEF CommitHealthy, Refreshed, Typed, Stores
<1>3. d \in 0..1 /\ SessionSuccess(db.sess) \in [fresh : Freshness, gen : Nat]
  BY StoreFields DEF Typed, SessionSuccess, Freshness
<1>4. /\ db' \in Stores
      /\ UNCHANGED <<db.rel, db.prof, db.agent, db.active, db.slot, db.claims, db.epoch>>
  BY <1>2, <1>3, SetSession DEF Typed
<1>5. co \in Polls /\ co.drive \in BOOLEAN /\ co.scope.node \in Nodes
  BY <1>1 DEF Typed, Polls, Evaluation, Selected
<1> DEFINE n == IF co.msg = 0 THEN co.scope.node ELSE BindingNode(co.msg)
<1>6. CASE Away
  <2> HIDE DEF PollInv
  <2> QED
    BY <1>1, <1>4, <1>6, LeaveStep DEF PollInv, Typed
<1>7. CASE co' = [co EXCEPT !.pc = "commit", !.bind = [node |-> n, enabled |-> ClaimEnabled(n)]]
  <2>1. n \in Nodes
    BY <1>5, OwnerIs DEF BindingNode
  <2>2. co.msg # 0 => \A i \in Index : rows[i].key = co.msg => rows[i].node = n
    BY OwnerIs, ClaimedIs DEF BindingNode
  <2>3. ClaimEnabled(n) \in BOOLEAN
    <3>1. co.scope.claimable \in BOOLEAN
      BY <1>5 DEF Polls, Scopes
    <3>2. mem[n].on \in BOOLEAN /\ mem[n].ready \in BOOLEAN /\ db.active[n] \in BOOLEAN
      BY <2>1, StoreFields DEF Typed
    <3> QED
      BY <3>1, <3>2 DEF ClaimEnabled, Admits
  <2> DEFINE b == [node |-> n, enabled |-> ClaimEnabled(n)]
  <2>4. b \in Bindings /\ b.node = n
    BY <2>1, <2>3 DEF Bindings
  <2>5. co' = [co EXCEPT !.pc = "commit", !.bind = b]
    BY <1>7
  <2> HIDE DEF b, n
  <2>6. /\ co' \in Polls /\ co'.pc = "commit" /\ co'.bind.node = n
        /\ UNCHANGED <<co.i, co.scope, co.adv, co.aud, co.msg, co.moved>>
    BY <1>5, <2>4, <2>5 DEF Polls, Pcs
  <2>7. Typed' /\ Observed'
    BY <1>1, <1>4, <2>6 DEF Typed, Observed
  <2>8. Slots' /\ ClaimsKept
    BY <1>4, LedgerKept DEF ledger
  <2>9. Index' = Index /\ rows' = rows
    BY <1>4 DEF Index, rows
  <2>10. Messages'
    BY <1>1, <2>1, <2>2, <2>6, <2>8, <2>9, QueueKept DEF Messages
  <2>11. Evaluation'
    BY <1>1, <2>6 DEF Evaluation, Selected
  <2>12. Offer' /\ Deadline'
    BY <1>4, <2>6 DEF Offer, Deadline
  <2> QED
    BY <2>7, <2>8, <2>10, <2>11, <2>12
<1>8. \/ co' = Exit \/ \E s \in {"loop", "drive"}, e \in BOOLEAN : co' = Leave(s, e)
      \/ co' = [co EXCEPT !.pc = "commit", !.bind = [node |-> n, enabled |-> ClaimEnabled(n)]]
  BY <1>5 DEF CommitHealthy, Bound, Reevaluate
<1> HIDE DEF n
<1> QED
  BY <1>5, <1>6, <1>7, <1>8, ExitIs, LeavesAre

\* A new claim has a key and a slot of its own.
LEMMA InsertIs ==
  ASSUME PollInv, co.bind.node \in Nodes, db.slot[co.bind.node] = Free,
         NEW k \in Keys, ~Claimed(k), NEW s \in {"pending", "acquired"}, db' = Insert(db, k, s)
  PROVE  /\ db' \in Stores /\ UNCHANGED <<db.sess, db.rel, db.prof, db.agent, db.active, db.epoch>>
         /\ Slots' /\ ClaimsKept /\ Len(db'.claims) = Len(db.claims) + 1
         /\ rows'[Len(db'.claims)].key = k /\ rows'[Len(db'.claims)].node = co.bind.node
         /\ \E i \in Index' : rows'[i].key = k
<1> USE DEF PollInv
<1> DEFINE n == co.bind.node
           r == [key |-> k, node |-> n, st |-> s]
           q == Append(db.claims, r)
           f == [db.slot EXCEPT ![n] = k]
           l == Len(db.claims)
<1>1. db' = [db EXCEPT !.slot = f, !.claims = q]
  BY DEF Insert, Typed, Stores
<1>2. r \in ClaimRows /\ r.key = k /\ r.node = n /\ r.st # "done"
  BY DEF ClaimRows
<1> HIDE DEF r
<1>3. /\ q \in Seq(ClaimRows) /\ Len(q) = l + 1 /\ q[l + 1] = r
      /\ \A j \in Index : q[j] = rows[j]
  BY <1>2, ClaimTypes DEF Index, rows
<1>4. /\ f \in [Nodes -> Keys \cup {Free, Foreign}] /\ f[n] = k
      /\ \A m \in Nodes \ {n} : f[m] = db.slot[m]
  BY StoreFields DEF Typed
<1> HIDE DEF q, f
<1>5. /\ db' \in Stores /\ db'.claims = q /\ db'.slot = f
      /\ UNCHANGED <<db.sess, db.rel, db.prof, db.agent, db.active, db.epoch>>
  BY <1>1, <1>3, <1>4 DEF Typed, Stores
<1>6. /\ Index' = Index \cup {l + 1} /\ l + 1 \notin Index
      /\ \A j \in Index : rows'[j] = rows[j]
      /\ rows'[l + 1] = r /\ l \in Nat
  BY <1>3, <1>5, ClaimTypes DEF Index, rows
<1>7. \A j \in Index : rows[j].key # k
  BY ClaimedIs
<1>8. \A j \in Index : rows[j].st # "done" => rows[j].node # n
  BY KeysAre, ClaimTypes DEF Slots
<1>9. \A i, j \in Index' : i # j => rows'[i].key # rows'[j].key
  BY <1>2, <1>6, <1>7 DEF Slots
<1>10. ASSUME NEW i \in Index', rows'[i].st # "done"
       PROVE  db'.slot[rows'[i].node] = rows'[i].key
  <2>1. CASE i = l + 1
    BY <1>2, <1>4, <1>5, <1>6, <2>1
  <2>2. CASE i \in Index
    <3>1. rows'[i] = rows[i] /\ rows[i].st # "done" /\ rows[i].node # n /\ rows[i].node \in Nodes
      BY <1>6, <1>8, <1>10, <2>2, ClaimTypes
    <3>2. f[rows[i].node] = db.slot[rows[i].node]
      BY <1>4, <3>1
    <3> QED
      BY <1>5, <2>2, <3>1, <3>2 DEF Slots
  <2> QED
    BY <1>6, <2>1, <2>2
<1>11. Slots'
  BY <1>9, <1>10 DEF Slots
<1>12. ClaimsKept
  BY <1>6 DEF ClaimsKept
<1>13. Len(db'.claims) = l + 1
  BY <1>3, <1>5
<1> HIDE DEF l
<1> QED
  BY <1>2, <1>5, <1>6, <1>11, <1>12, <1>13 DEF l

\* What a commit may do to the ledger
Committed(k, s) ==
    /\ MayClaim(co.bind) /\ ~Claimed(k) /\ db' = Insert(db, k, s)

LEMMA CommittedIs ==
  ASSUME PollInv, co.pc = "commit", NEW k \in Keys, NEW s \in {"pending", "acquired"},
         Committed(k, s)
  PROVE  /\ db' \in Stores /\ UNCHANGED <<db.sess, db.rel, db.prof, db.agent, db.active, db.epoch>>
         /\ Slots' /\ ClaimsKept /\ Len(db'.claims) = Len(db.claims) + 1
         /\ rows'[Len(db'.claims)].key = k /\ rows'[Len(db'.claims)].node = co.bind.node
         /\ \E i \in Index' : rows'[i].key = k
<1>1. co.bind.node \in Nodes
  BY DEF PollInv, Messages
<1>2. db.slot[co.bind.node] = Free
  BY DEF Committed, MayClaim, SlotAvailable
<1> QED
  BY <1>1, <1>2, InsertIs DEF Committed

\* The commit ends the poll, with a claim for the assigned demand or without.
LEMMA DemandStep ==
  ASSUME PollInv, co.pc = "commit", Away, UNCHANGED <<mem, audit, gh, now, events>>,
         db' = WithDemand(db)
  PROVE  PollInv'
<1>1. CASE DemandDue
  <2>1. Committed(DemandKey, "acquired")
    BY <1>1 DEF WithDemand, DemandDue, Committed
  <2>2. db' \in Stores /\ Slots' /\ ClaimsKept /\ UNCHANGED db.rel
    BY <2>1, CommittedIs, KeysAre
  <2>3. Typed' /\ Observed'
    BY <2>2 DEF PollInv, Typed, Observed, Away
  <2> QED
    BY <2>2, <2>3, AwayStep
<1>2. CASE ~DemandDue
  <2>1. UNCHANGED db
    BY <1>2 DEF WithDemand
  <2> QED
    BY <2>1, LeaveStep DEF PollInv, Typed
<1> QED
  BY <1>1, <1>2

\* The message has its claim, and is to be deleted.
LEMMA ClaimedStep ==
  ASSUME PollInv, co.pc = "commit", NEW b \in BOOLEAN, co' = [co EXCEPT !.pc = "ack", !.cut = b],
         UNCHANGED <<mem, audit, gh, now, events>>, db' \in Stores, UNCHANGED db.rel,
         Slots', ClaimsKept, \E i \in Index' : rows'[i].key = co.msg
  PROVE  PollInv'
<1> USE DEF PollInv
<1>1. /\ co' \in Polls /\ co'.pc = "ack"
      /\ UNCHANGED <<co.i, co.scope, co.adv, co.aud, co.msg, co.bind, co.moved>>
  BY DEF Typed, Polls, Pcs
<1>2. Typed' /\ Observed'
  BY <1>1 DEF Typed, Observed
<1>3. Messages'
  BY <1>1, QueueKept DEF Messages
<1>4. Evaluation'
  BY <1>1 DEF Evaluation, Selected
<1>5. Offer' /\ Deadline'
  BY <1>1 DEF Offer, Deadline
<1> QED
  BY <1>2, <1>3, <1>4, <1>5

LEMMA MessageStep == ASSUME PollInv, CommitMessage PROVE PollInv'
<1> DEFINE m == co.msg
<1>1. /\ co.pc = "commit" /\ m # 0 /\ UNCHANGED <<mem, audit, gh, now, events>>
      /\ Typed /\ Slots /\ Messages
  BY DEF CommitMessage, PollInv
<1>2. /\ co \in Polls /\ db \in Stores /\ co.drive \in BOOLEAN /\ m \in Keys
      /\ co.cut \in BOOLEAN /\ co.bind.node \in Nodes
  BY <1>1, KeysAre DEF Typed, Polls, Messages
<1>3. CASE ~audit /\ co' = Exit /\ UNCHANGED db
  BY <1>1, <1>2, <1>3, ExitIs, LeaveStep DEF Typed
<1>4. CASE Claimed(m) /\ UNCHANGED db /\ co' = IF OwnerOf(m) = co.bind.node
                       THEN [co EXCEPT !.pc = "ack", !.cut = co.cut \/ mem[co.bind.node].rev # 0]
                       ELSE [Exit EXCEPT !.moved = TRUE]
  <2>1. PICK i \in Index : rows[i].key = m
    BY <1>4, ClaimedIs
  <2>2. OwnerOf(m) = co.bind.node
    BY <1>1, <1>4, <2>1, OwnerIs DEF Messages
  <2>3. (co.cut \/ mem[co.bind.node].rev # 0) \in BOOLEAN
    BY <1>2
  <2>4. Slots' /\ ClaimsKept
    BY <1>1, <1>4, LedgerKept DEF ledger
  <2>5. \E k \in Index' : rows'[k].key = co.msg
    BY <1>4, <2>1 DEF Index, rows
  <2> QED
    BY <1>1, <1>2, <1>4, <2>2, <2>3, <2>4, <2>5, ClaimedStep
<1>5. CASE ~Claimed(m) /\ MayClaim(co.bind) /\ db' = Insert(db, m, "pending")
           /\ co' = [co EXCEPT !.pc = "ack", !.cut = TRUE]
  <2>1. Committed(m, "pending")
    BY <1>5 DEF Committed
  <2>2. /\ db' \in Stores /\ Slots' /\ ClaimsKept /\ UNCHANGED db.rel
        /\ \E i \in Index' : rows'[i].key = m
    BY <1>1, <1>2, <2>1, CommittedIs
  <2> QED
    BY <1>1, <1>5, <2>2, ClaimedStep
<1>6. CASE db' = WithDemand(db) /\ co' = Leave("retry", co.drive)
  BY <1>1, <1>2, <1>6, LeavesAre, DemandStep
<1> HIDE DEF m
<1> QED
  BY <1>2, <1>3, <1>4, <1>5, <1>6 DEF CommitMessage, AfterCommit, m, Polls

LEMMA DemandCommitStep == ASSUME PollInv, CommitDemand PROVE PollInv'
<1>1. co.pc = "commit" /\ UNCHANGED <<mem, audit, gh, now, events>> /\ Typed
  BY DEF CommitDemand, PollInv
<1>2. co \in Polls /\ db \in Stores /\ co.drive \in BOOLEAN
  BY <1>1 DEF Typed, Polls
<1>3. CASE co' = Exit /\ UNCHANGED db
  BY <1>1, <1>2, <1>3, ExitIs, LeaveStep DEF Typed
<1>4. CASE co' = Leave("drive", co.drive) /\ db' = WithDemand(db)
  BY <1>1, <1>2, <1>4, LeavesAre, DemandStep
<1> QED
  BY <1>3, <1>4 DEF CommitDemand

-----------------------------------------------------------------------------
(* The theorems *)

LEMMA InvStep == ASSUME PollInv, [Next]_vars PROVE PollInv'
<1>1. CASE UNCHANGED vars
  <2>1. PollInv /\ UNCHANGED <<db, mem, audit, gh, now, co, events>>
    BY <1>1 DEF vars
  <2> QED
    BY <2>1 DEF PollInv, Typed, Observed, Slots, Messages, Evaluation, Offer, Deadline, Usable,
                Index, rows, Selected
<1>2. CASE Coordinator
  BY <1>2, IdleStep, CandidateStep, DeliveryStep, HealthyStep, MessageStep, DemandCommitStep,
     AckStep, DriveStep
     DEF Coordinator
<1>3. CASE Faults
  BY <1>3, FailureStep, IdleStep, AckStep, TickStep, RestartStep DEF Faults
<1>4. CASE Environment
  BY <1>4, JobStep, AssignStep, TickStep, FailsStep, ProfileStep, ObservedStep, AgentStep,
     MemoryStep, NodeStep, ForeignStep, EndsStep
     DEF Environment
<1> QED
  BY <1>1, <1>2, <1>3, <1>4 DEF Next

\* The inductive invariant holds: types, claims with their slots, messages with their
\* claims, and what evaluation, offer and captured deadline say of the state they were
\* read from.
THEOREM PollInvariant == Spec => []PollInv
<1>1. Init => PollInv
  BY InvInit
<1>2. PollInv /\ [Next]_vars => PollInv'
  BY InvStep
<1> QED
  BY <1>1, <1>2, PTL DEF Spec

LEMMA TypesFollow == ASSUME PollInv PROVE TypeOK
<1>1. /\ db.sess.fresh \in Freshness /\ db.rel.fresh \in Freshness /\ db.demand \in 0..1
  BY StoreFields DEF PollInv, Typed, Releases
<1>2. /\ co.pc \in Pcs /\ co.adv \in Nat /\ now \in 0..MaxTime /\ events \in 0..MaxEvents
  BY DEF PollInv, Typed, Polls
<1>3. co.adv \in 0..Cardinality(Nodes)
  BY <1>2, ConstantsAre DEF PollInv, Evaluation
<1>4. \A i \in 1..Len(db.claims) : /\ db.claims[i].key \in Keys /\ db.claims[i].node \in Nodes
                                   /\ db.claims[i].st \in {"pending", "acquired", "started", "done"}
  BY ClaimTypes DEF PollInv, rows, Index
<1>5. co.pc \in {"poll", "healthy", "commit", "ack"} => co.scope.node \in Nodes
  BY DEF PollInv, Evaluation, Selected
<1> QED
  BY <1>1, <1>2, <1>3, <1>4, <1>5 DEF PollInv, Observed, TypeOK, Freshness

LEMMA MatchFollows == ASSUME PollInv PROVE ClaimsMatchMessages
<1>1. DeletedIsClaimed
  BY ClaimedIs DEF PollInv, Messages, DeletedIsClaimed
<1>2. OneClaim
  BY DEF PollInv, Slots, OneClaim, Index, rows
<1>3. RedeliveryKeepsNode
  BY DEF PollInv, Messages, RedeliveryKeepsNode
<1> QED
  BY <1>1, <1>2, <1>3, TypesFollow DEF ClaimsMatchMessages

\* No job is lost and none has two claims: a message that is no longer on GitHub's queue
\* has its job in a durable claim, a job has one claim and a slot one job that is not over,
\* and a redelivered message keeps its node, over every cancelled poll, failed deletion,
\* restart and change of node (Poller.PollOnce, CommitGitHubQueueMessage,
\* existingClaimNode).
THEOREM MessagesKeepTheirClaims == Spec => []ClaimsMatchMessages
<1>1. PollInv => ClaimsMatchMessages
  BY MatchFollows
<1> QED
  BY <1>1, PollInvariant, PTL

LEMMA CutFollows == ASSUME PollInv PROVE WithdrawnOfferIsCut
<1>1. SUFFICES ASSUME co.pc = "poll", co.adv > 0, ~Offerable, ~co.cut, ~(co.aud /\ ~audit)
               PROVE  co.recheck # 0 /\ now >= co.recheck
  BY DEF WithdrawnOfferIsCut
<1>2. co.aud /\ audit /\ \E n \in Nodes : Usable(n)
  BY <1>1 DEF PollInv, Offer
<1>3. co.recheck # 0 /\ ~(now < co.recheck)
  BY <1>1, <1>2 DEF Offerable, Usable
<1>4. now \in Nat /\ co.recheck \in Nat
  BY ConstantsAre DEF PollInv, Typed, Polls
<1> QED
  BY <1>3, <1>4

\* A long poll that advertises capacity nobody has any more has been cancelled, also when
\* the capacity went while the candidates were still being evaluated (pollOnce captures
\* the change channels before it reads).
THEOREM WithdrawnOffersAreCut == Spec => []WithdrawnOfferIsCut
<1>1. PollInv => WithdrawnOfferIsCut
  BY CutFollows
<1> QED
  BY <1>1, PollInvariant, PTL

\* The evidence at a claim
Authorised(n) ==
    /\ db.agent[n].ready /\ db.agent[n].epoch = db.epoch /\ db.active[n] /\ db.slot[n] = Free
    /\ db.sess.fresh = "fresh" /\ audit
    /\ db.prof.pol = "pinned" =>
          /\ db.rel.fresh = "fresh" /\ now < db.rel.obs + Window
          /\ db.rel.cur \/ now < db.rel.at + Window

LEMMA SameButDeadline ==
  ASSUME NEW x \in Auths, NEW y \in Auths, [x EXCEPT !.until = 0] = [y EXCEPT !.until = 0]
  PROVE  x.agent = y.agent /\ x.epoch = y.epoch /\ x.pol = y.pol /\ x.rel = y.rel
<1>1. [x EXCEPT !.until = 0].agent = x.agent /\ [y EXCEPT !.until = 0].agent = y.agent
  BY DEF Auths
<1>2. [x EXCEPT !.until = 0].epoch = x.epoch /\ [y EXCEPT !.until = 0].epoch = y.epoch
  BY DEF Auths
<1>3. [x EXCEPT !.until = 0].pol = x.pol /\ [y EXCEPT !.until = 0].pol = y.pol
  BY DEF Auths
<1>4. [x EXCEPT !.until = 0].rel = x.rel /\ [y EXCEPT !.until = 0].rel = y.rel
  BY DEF Auths
<1> QED
  BY <1>1, <1>2, <1>3, <1>4, Zenon

\* The captured authority equals what the commit reads, but for its deadline; that is the
\* current release's because the generation is.
LEMMA AuthorityIs ==
  ASSUME PollInv, audit, co.bind.node \in Nodes, MayClaim(co.bind)
  PROVE  Authorised(co.bind.node)
<1> DEFINE a == co.scope.auth
           n == co.bind.node
           p == PollState(n)
<1>1. /\ db.active[n] /\ db.slot[n] = Free /\ AuthorityCurrent(a, n)
  BY DEF MayClaim, SlotAvailable
<1>2. a \in Auths /\ p \in Auths
  BY StateIs DEF PollInv, Typed, Polls, Scopes
<1>3. /\ a.agent.ready /\ a.agent.epoch = a.epoch /\ db.sess.fresh = "fresh"
      /\ a.pol = "pinned" => db.rel.fresh = "fresh" /\ now < a.until
      /\ [a EXCEPT !.until = 0] = [p EXCEPT !.until = 0]
  BY <1>1 DEF AuthorityCurrent
<1>4. a.agent = p.agent /\ a.epoch = p.epoch /\ a.pol = p.pol /\ a.rel = p.rel
  <2> HIDE DEF a, p
  <2> QED
    BY <1>2, <1>3, SameButDeadline
<1>5. /\ p.agent = db.agent[n] /\ p.epoch = db.epoch /\ p.pol = db.prof.pol
      /\ db.prof.pol = "pinned" => p.rel = db.rel.gen
  BY DEF PollState
<1>6. db.agent[n].ready /\ db.agent[n].epoch = db.epoch
  BY <1>3, <1>4, <1>5
<1>7. ASSUME db.prof.pol = "pinned"
      PROVE  /\ db.rel.fresh = "fresh" /\ now < db.rel.obs + Window
             /\ db.rel.cur \/ now < db.rel.at + Window
  <2>1. a.pol = "pinned" /\ a.rel = db.rel.gen /\ db.rel.fresh = "fresh" /\ now < a.until
    BY <1>3, <1>4, <1>5, <1>7
  <2>2. now \in Nat /\ a.until \in Nat /\ db.rel.obs \in Nat /\ db.rel.at \in Nat /\ Window \in Nat
    <3>1. now \in Nat /\ db.rel \in Releases /\ Window \in Nat
      BY StoreFields, ConstantsAre DEF PollInv, Typed
    <3>2. a.until \in Nat
      BY <1>2 DEF Auths
    <3> QED
      BY <3>1, <3>2 DEF Releases
  <2>3. a.until # 0
    BY <2>1, <2>2
  <2>4. a.until <= db.rel.obs + Window /\ (db.rel.cur \/ a.until <= db.rel.at + Window)
    BY <2>1, <2>3 DEF PollInv, Deadline
  <2> QED
    BY <2>1, <2>2, <2>4
<1> QED
  BY <1>1, <1>3, <1>6, <1>7 DEF Authorised

\* A commit makes no claim, or an authorised one.
LEMMA CommitAuthorised ==
  ASSUME PollInv, CommitMessage \/ CommitDemand, Len(db'.claims) > Len(db.claims)
  PROVE  Authorised(db'.claims[Len(db'.claims)].node)
<1>1. co.pc = "commit" /\ Typed /\ co.bind.node \in Nodes /\ Len(db.claims) \in Nat
  BY ClaimTypes DEF CommitMessage, CommitDemand, PollInv, Messages
<1>2. db' # db
  BY <1>1
<1>3. /\ audit
      /\ \/ co.msg # 0 /\ Committed(co.msg, "pending")
         \/ Committed(DemandKey, "acquired")
  <2>1. CASE CommitMessage
    BY <1>2, <2>1 DEF CommitMessage, Committed, WithDemand, DemandDue
  <2>2. CASE CommitDemand
    BY <1>2, <2>2 DEF CommitDemand, Committed, WithDemand, DemandDue
  <2> QED
    BY <2>1, <2>2
<1>4. MayClaim(co.bind)
  BY <1>3 DEF Committed
<1>5. co.msg # 0 => co.msg \in Keys
  BY <1>1, KeysAre DEF Typed, Polls
<1>6. rows'[Len(db'.claims)].node = co.bind.node
  BY <1>1, <1>3, <1>5, CommittedIs, KeysAre
<1> QED
  BY <1>1, <1>3, <1>4, <1>6, AuthorityIs DEF rows

\* No other step makes a claim.
LEMMA EvaluationClaimsNothing == ASSUME PollInv, EvaluateCandidate PROVE UNCHANGED db.claims
<1>1. PICK c \in Polls : Evaluated(c) /\ Evaluate(c)
  BY EvaluatedIs
<1> QED
  BY <1>1, CandidateIs DEF PollInv, Evaluate

LEMMA OthersClaimNothing ==
  ASSUME PollInv, [Next]_vars, ~CommitMessage, ~CommitDemand
  PROVE  Len(db'.claims) = Len(db.claims)
<1>1. Typed /\ db \in Stores
  BY DEF PollInv, Typed
<1>2. CASE UNCHANGED db
  BY <1>2
<1>3. CASE EvaluateCandidate
  BY <1>3, EvaluationClaimsNothing
<1>4. CASE CommitHealthy \/ (\E d \in BOOLEAN : ProviderFails(d)) \/ Restart
  BY <1>1, <1>4 DEF CommitHealthy, Refreshed, ProviderFails, Restart, Stores
<1>5. CASE DriveClaim
  <2>1. PICK i, s : db' = [db EXCEPT !.claims[i].st = s]
    BY <1>5 DEF DriveClaim, Advance
  <2>2. db'.claims = [db.claims EXCEPT ![i].st = s]
    BY <1>1, <2>1 DEF Stores
  <2> QED
    BY <1>1, <2>2, ClaimTypes
<1>6. CASE ReleaseFails \/ ConfigureRunnerProfile
           \/ \E cur \in BOOLEAN, at \in 0..MaxTime : ReleaseObserved(cur, at)
  BY <1>1, <1>6 DEF ReleaseFails, ConfigureRunnerProfile, ReleaseObserved, Stores
<1>7. CASE \E n \in Nodes : \/ \E r \in BOOLEAN : AgentStored(n, r)
                             \/ AgentConnects(n) \/ DisconnectRecorded(n)
                             \/ SetNodeAdministrativeState(n) \/ OtherTarget(n)
  BY <1>1, <1>7 DEF AgentStored, AgentConnects, DisconnectRecorded, SetNodeAdministrativeState,
                    OtherTarget, Stores
<1>8. CASE \E i \in 1..Cardinality(Keys) : JobEnds(i)
  <2>1. PICK i, n : db' = [db EXCEPT !.claims[i].st = "done", !.slot[n] = Free]
    BY <1>8 DEF JobEnds
  <2>2. db'.claims = [db.claims EXCEPT ![i].st = "done"]
    BY <1>1, <2>1 DEF Stores
  <2> QED
    BY <1>1, <2>2, ClaimTypes
<1>9. CASE UNCHANGED vars
  BY <1>2, <1>9 DEF vars
<1>10. CASE Coordinator
  <2>1. UNCHANGED db \/ EvaluateCandidate \/ CommitHealthy \/ DriveClaim
    BY <1>10 DEF Coordinator, Open, PollEmpty, PollDelivers, Interrupted, Acknowledge, AckCancelled,
                 DriveNothing, DriveRefused, AwaitReadiness, RetryElapses
  <2> QED
    BY <1>2, <1>3, <1>4, <1>5, <2>1
<1>11. CASE Faults
  <2>1. UNCHANGED db \/ ProviderFails(co.drive) \/ ProviderFails(TRUE) \/ Restart
    BY <1>11 DEF Faults, PollFails, StoreFails, AckFails, DriveFails, AuditDegrades, Stop
  <2>2. co.drive \in BOOLEAN
    BY <1>1 DEF Typed, Polls
  <2> QED
    BY <1>2, <1>4, <2>1, <2>2
<1>12. CASE Environment
  <2>1. CASE NewJob \/ AssignJob \/ Tick \/ \E n \in Nodes : AgentProjected(n) \/ AgentLost(n)
    BY <1>2, <2>1 DEF NewJob, AssignJob, Tick, AgentProjected, AgentLost
  <2> QED
    BY <1>6, <1>7, <1>8, <1>12, <2>1 DEF Environment
<1> QED
  BY <1>9, <1>10, <1>11, <1>12 DEF Next

LEMMA AuthorityStep ==
  ASSUME PollInv, [Next]_vars, Len(db'.claims) > Len(db.claims)
  PROVE  Authorised(db'.claims[Len(db'.claims)].node)
<1>1. Len(db.claims) \in Nat
  BY ClaimTypes DEF PollInv
<1>2. CommitMessage \/ CommitDemand
  BY <1>1, OthersClaimNothing
<1> QED
  BY <1>2, CommitAuthorised

\* A claim is created only while its node's Agent is durably ready in this Controller
\* epoch, the node active and free, the session fresh, the audit log healthy and a pinned
\* runner inside its window, although the poll captured that evidence before a long poll
\* during which all of it could change (githubPollClaimAuthorityCurrent).
THEOREM ClaimsAreAuthorised == Spec => ClaimUnderAuthority
<1>1. PollInv /\ [Next]_vars =>
         [Len(db'.claims) > Len(db.claims) =>
            LET n == db'.claims[Len(db'.claims)].node IN
            /\ db.agent[n].ready /\ db.agent[n].epoch = db.epoch /\ db.active[n] /\ db.slot[n] = Free
            /\ db.sess.fresh = "fresh" /\ audit
            /\ db.prof.pol = "pinned" =>
                  /\ db.rel.fresh = "fresh" /\ now < db.rel.obs + Window
                  /\ db.rel.cur \/ now < db.rel.at + Window]_vars
  BY AuthorityStep DEF Authorised
<1> QED
  BY <1>1, PollInvariant, PTL DEF Spec, ClaimUnderAuthority

=============================================================================
