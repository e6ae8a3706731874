----------------------------- MODULE Scheduler -----------------------------
(***************************************************************************)
(* Placement of Targets on concrete node slots: the Scheduler of           *)
(* internal/scheduler/scheduler.go over the SlotLedger of                  *)
(* internal/domain/slot_ledger.go.  Every method runs under one mutex, so  *)
(* an action is a whole call; a call that returns an error changes nothing *)
(* and is not a step.  Callers keep the GrantRef they were given, and may  *)
(* use an outdated one at any later time.                                  *)
(*                                                                         *)
(* Nodes are named by their rank in NodeID order and Targets by their      *)
(* position in targetOrder: those orders break ties and drive round-robin. *)
(***************************************************************************)
EXTENDS Integers, FiniteSets

CONSTANTS
    NodeCount,      \* number of configured nodes
    TargetCount,    \* len(targetOrder)
    MaxRunners,     \* node -> number of its slots
    FleetMaximum,   \* the fleet-wide slot bound
    Compatible,     \* target -> nodes with the operating system and architecture of its profile
    MinMemory,      \* target -> MinAvailableMemoryBytes
    Executions,
    NoExecution,    \* the empty ExecutionID
    MaxGrantID,     \* largest GrantID, 2^64 - 1 in the code
    Snapshots       \* observations a node can report

Nodes   == 1..NodeCount
Targets == 0..(TargetCount - 1)
Slots   == UNION {{[node |-> n, index |-> i] : i \in 0..(MaxRunners[n] - 1)} : n \in Nodes}

\* The part of NodeSnapshot placement reads.  admitted: administratively
\* active, online, reconciled and native-ready; cached: the Targets whose
\* runner package is in the node's cache.
SnapshotType == [admitted : BOOLEAN, memory : Nat, active : SUBSET Executions,
                 cached : SUBSET Targets, excluded : SUBSET Targets]

ASSUME TopologyAssumption ==
    /\ NodeCount \in Nat /\ TargetCount \in Nat
    /\ MaxRunners \in [Nodes -> Nat \ {0}]
ASSUME ProfileAssumption ==
    /\ Compatible \in [Targets -> SUBSET Nodes]
    /\ MinMemory \in [Targets -> Nat]
ASSUME ExecutionAssumption == NoExecution \notin Executions
ASSUME BoundAssumption ==
    /\ FleetMaximum \in Nat \ {0} /\ MaxGrantID \in Nat
    /\ FleetMaximum <= MaxGrantID
ASSUME SnapshotAssumption == Snapshots \subseteq SnapshotType

VARIABLES
    restoring,      \* RestoredReservations the constructor has not claimed yet, by slot
    nodes,          \* node -> latest snapshot
    ledger,         \* SlotLedger.slots: owner of each owned slot
    claimed,        \* SlotLedger.claimed
    grants,         \* GrantID -> Grant
    grantBySlot,    \* slot -> GrantID
    nextTarget,     \* round-robin cursor
    nextGrantID,    \* 0 once the identifiers are used up
    held,           \* callers: the current GrantRef of every grant not yet given back
    outdated,       \* callers: GrantRefs superseded by a binding or already released
    waiting         \* history: grants in a row that passed over a Target that could be served

books   == <<ledger, claimed, grants, grantBySlot>>
callers == <<held, outdated>>
vars    == <<restoring, nodes, books, nextTarget, nextGrantID, callers, waiting>>

Ids        == 1..MaxGrantID
Bindings   == Executions \cup {NoExecution}
Owner      == [target : Targets, execution : Bindings]
Grant      == [id : Ids, target : Targets, slot : Slots, execution : Bindings]

Empty         == [x \in {} |-> x]
Put(f, k, v)  == [x \in DOMAIN f \cup {k} |-> IF x = k THEN v ELSE f[x]]
Without(f, k) == [x \in DOMAIN f \ {k} |-> f[x]]

---------------------------------------------------------------------------
(* Ownership and capacity *)

\* executionBackedOnNodeLocked
Backed(n, e) ==
    \E id \in DOMAIN grants : grants[id].slot.node = n /\ grants[id].execution = e

\* Executions a node reports without a grant that owns them there.
Unbacked == {p \in Nodes \X Executions : p[2] \in nodes[p[1]].active /\ ~Backed(p[1], p[2])}

NodeOwnershipAligned(n) == \A e \in nodes[n].active : Backed(n, e)

\* occupiedCapacityLocked
ClaimedOnly == claimed               \* mutant: unbacked runtimes are not counted
OccupiedCapacity == claimed + Cardinality(Unbacked)

---------------------------------------------------------------------------
(* Candidates and their ranking *)

Eligible(n, t) ==
    /\ nodes[n].admitted
    /\ n \in Compatible[t]
    /\ nodes[n].memory >= MinMemory[t]

Candidates(t) ==
    {s \in Slots : /\ s \notin DOMAIN ledger
                   /\ Eligible(s.node, t) /\ NodeOwnershipAligned(s.node)
                   /\ t \notin nodes[s.node].excluded}

\* Reservations can precede the Agent's observation: the larger count rules.
ActiveRunners(n) ==
    LET reported == Cardinality(nodes[n].active)
        owned    == Cardinality({s \in DOMAIN grantBySlot : s.node = n})
    IN  IF owned > reported THEN owned ELSE reported

\* Slot a ranks before slot b for Target t.
Precedes(a, b, t) ==
    LET A == nodes[a.node]
        B == nodes[b.node]
    IN  \/ ActiveRunners(a.node) < ActiveRunners(b.node)
        \/ /\ ActiveRunners(a.node) = ActiveRunners(b.node)
           /\ \/ A.memory > B.memory
              \/ /\ A.memory = B.memory
                 /\ \/ t \in A.cached /\ t \notin B.cached
                    \/ /\ t \in A.cached <=> t \in B.cached
                       /\ \/ a.node < b.node
                          \/ a.node = b.node /\ a.index < b.index

Best(t) == {s \in Candidates(t) : \A r \in Candidates(t) \ {s} : Precedes(s, r, t)}

---------------------------------------------------------------------------
(* Round-robin *)

\* i modulo TargetCount for the sums that occur, all below 2 * TargetCount.
Wrap(i) == IF i < TargetCount THEN i ELSE i - TargetCount

\* How far the cursor is from Target t.
Distance(t) == Wrap(t + TargetCount - nextTarget)

StayAt(t) == t                       \* mutant: the cursor stays at the served Target
Advance(t) == Wrap(t + 1)

Servable(demand) == {t \in demand : Candidates(t) # {}}

\* uint64 increment.
NextID(id) == IF id = MaxGrantID THEN 0 ELSE id + 1

---------------------------------------------------------------------------
(* Books *)

\* SlotLedger.Claim and the grant that records it.
Claim(g) ==
    /\ g.slot \in Slots \ DOMAIN ledger
    /\ claimed < FleetMaximum
    /\ ledger' = Put(ledger, g.slot, [target |-> g.target, execution |-> g.execution])
    /\ claimed' = claimed + 1
    /\ grants' = Put(grants, g.id, g)
    /\ grantBySlot' = Put(grantBySlot, g.slot, g.id)
    /\ nextGrantID' = NextID(nextGrantID)

\* restoreReservations: durable ownership is claimed before any placement.
Restore ==
    \E s \in DOMAIN restoring :
        LET g == [id |-> nextGrantID, target |-> restoring[s].target, slot |-> s,
                  execution |-> restoring[s].execution]
        IN  /\ \A r \in DOMAIN restoring :
                 s.node < r.node \/ (s.node = r.node /\ s.index <= r.index)
            /\ Claim(g)
            /\ held' = held \cup {g}
            /\ restoring' = Without(restoring, s)
            /\ UNCHANGED <<nodes, nextTarget, outdated, waiting>>

\* The constructor has returned.
Constructed == DOMAIN restoring = {}

UpdateNode(n, snapshot) ==
    /\ Constructed
    /\ Cardinality(snapshot.active) <= MaxRunners[n]
    /\ nodes' = [nodes EXCEPT ![n] = snapshot]
    /\ UNCHANGED <<restoring, books, nextTarget, nextGrantID, callers, waiting>>

\* GrantNext: the first demanded Target from the cursor on that has a
\* candidate gets its best-ranked slot.
GrantNext(demand) ==
    /\ Constructed
    /\ OccupiedCapacity < FleetMaximum
    /\ nextGrantID # 0
    /\ \E t \in Servable(demand) :
         /\ \A u \in Servable(demand) : Distance(t) <= Distance(u)
         /\ \E s \in Best(t) :
              LET g == [id |-> nextGrantID, target |-> t, slot |-> s,
                        execution |-> NoExecution]
              IN  Claim(g) /\ held' = held \cup {g}
         /\ nextTarget' = Advance(t)
         /\ waiting' = [u \in Targets |->
                          IF u \in Servable(demand) \ {t} THEN waiting[u] + 1 ELSE 0]
    /\ UNCHANGED <<restoring, nodes, outdated>>

\* lookupGrantIdentityLocked
Identifies(ref) ==
    /\ ref.id \in DOMAIN grants
    /\ grants[ref.id].target = ref.target
    /\ grants[ref.id].slot = ref.slot

\* Mutant: an execution may be bound to a second grant.
BindAgain(ref, e) ==
    /\ Constructed
    /\ Identifies(ref) /\ ref.execution = NoExecution
    /\ grants[ref.id].execution = NoExecution
    /\ LET g == [grants[ref.id] EXCEPT !.execution = e]
       IN  /\ ledger' = Put(ledger, g.slot, [target |-> g.target, execution |-> e])
           /\ grants' = Put(grants, g.id, g)
           /\ held' = (held \ {ref}) \cup {g}
    /\ outdated' = outdated \cup {ref}
    /\ UNCHANGED <<restoring, nodes, claimed, grantBySlot, nextTarget, nextGrantID, waiting>>

\* BindExecution; repeating a binding changes nothing.
BindExecution(ref, e) ==
    /\ Constructed
    /\ Identifies(ref) /\ ref.execution = NoExecution
    /\ grants[ref.id].execution = NoExecution
    /\ \A id \in DOMAIN grants : grants[id].execution # e
    /\ LET g == [grants[ref.id] EXCEPT !.execution = e]
       IN  /\ ledger[g.slot].target = g.target
           /\ ledger' = Put(ledger, g.slot, [target |-> g.target, execution |-> e])
           /\ grants' = Put(grants, g.id, g)
           /\ held' = (held \ {ref}) \cup {g}
    /\ outdated' = outdated \cup {ref}
    /\ UNCHANGED <<restoring, nodes, claimed, grantBySlot, nextTarget, nextGrantID, waiting>>

NeverActive(n, e) == FALSE           \* mutant: the node's report is not consulted
ReportsActive(n, e) == e # NoExecution /\ e \in nodes[n].active

\* Mutant: the grant is found by its slot.
ReleaseSlot(ref) ==
    /\ Constructed
    /\ ref.slot \in DOMAIN ledger
    /\ ledger[ref.slot].execution = ref.execution
    /\ ~ReportsActive(ref.slot.node, ref.execution)
    /\ ledger' = Without(ledger, ref.slot)
    /\ claimed' = claimed - 1
    /\ grants' = Without(grants, grantBySlot[ref.slot])
    /\ grantBySlot' = Without(grantBySlot, ref.slot)
    /\ held' = held \ {ref} /\ outdated' = outdated \cup {ref}
    /\ UNCHANGED <<restoring, nodes, nextTarget, nextGrantID, waiting>>

\* Release frees a grant only for its complete current identity.
Release(ref) ==
    /\ Constructed
    /\ Identifies(ref) /\ grants[ref.id].execution = ref.execution
    /\ ~ReportsActive(ref.slot.node, ref.execution)
    /\ ref.slot \in DOMAIN ledger
    /\ ledger[ref.slot] = [target |-> ref.target, execution |-> ref.execution]
    /\ ledger' = Without(ledger, ref.slot)
    /\ claimed' = claimed - 1
    /\ grants' = Without(grants, ref.id)
    /\ grantBySlot' = Without(grantBySlot, ref.slot)
    /\ held' = held \ {ref} /\ outdated' = outdated \cup {ref}
    /\ UNCHANGED <<restoring, nodes, nextTarget, nextGrantID, waiting>>

---------------------------------------------------------------------------
\* What restoreReservations accepts: no execution twice, no more than the
\* fleet maximum.
Restorable(reservations) ==
    /\ IsFiniteSet(DOMAIN reservations)
    /\ Cardinality(DOMAIN reservations) <= FleetMaximum
    /\ \A r, s \in DOMAIN reservations :
         r # s /\ reservations[r].execution = reservations[s].execution
            => reservations[r].execution = NoExecution

Init ==
    /\ \E S \in SUBSET Slots : restoring \in [S -> Owner]
    /\ Restorable(restoring)
    /\ nodes \in [Nodes -> Snapshots]
    /\ \A n \in Nodes : Cardinality(nodes[n].active) <= MaxRunners[n]
    /\ ledger = Empty /\ claimed = 0
    /\ grants = Empty /\ grantBySlot = Empty
    /\ nextTarget = 0 /\ nextGrantID = 1
    /\ held = {} /\ outdated = {}
    /\ waiting = [t \in Targets |-> 0]

Next ==
    \/ Restore
    \/ \E n \in Nodes, snapshot \in Snapshots : UpdateNode(n, snapshot)
    \/ \E demand \in SUBSET Targets : GrantNext(demand)
    \/ \E ref \in held \cup outdated :
         Release(ref) \/ \E e \in Executions : BindExecution(ref, e)

Spec == Init /\ [][Next]_vars

---------------------------------------------------------------------------
(* Properties *)

\* Type correctness of the Scheduler's indexes and of the ledger.  A grant never
\* gets the identifier 0 that a wrapped counter would hand out.
TypeOK ==
    /\ DOMAIN restoring \subseteq Slots /\ restoring \in [DOMAIN restoring -> Owner]
    /\ nodes \in [Nodes -> Snapshots]
    /\ DOMAIN ledger \subseteq Slots /\ ledger \in [DOMAIN ledger -> Owner]
    /\ DOMAIN grants \subseteq Ids /\ grants \in [DOMAIN grants -> Grant]
    /\ DOMAIN grantBySlot \subseteq Slots /\ grantBySlot \in [DOMAIN grantBySlot -> Ids]
    /\ claimed \in Nat
    /\ nextTarget \in Nat /\ nextGrantID \in 0..MaxGrantID
    /\ held \subseteq Grant /\ outdated \subseteq Grant
    /\ waiting \in [Targets -> Nat]

\* Scheduler.Validate: the grant indexes and the ledger describe one state, in
\* which a slot has one owner and an execution one grant.
BooksAgree ==
    /\ DOMAIN ledger = DOMAIN grantBySlot
    /\ \A id \in DOMAIN grants :
         LET g == grants[id]
         IN  /\ g.id = id
             /\ g.slot \in DOMAIN ledger /\ grantBySlot[g.slot] = id
             /\ ledger[g.slot] = [target |-> g.target, execution |-> g.execution]
    /\ \A s \in DOMAIN grantBySlot :
         grantBySlot[s] \in DOMAIN grants /\ grants[grantBySlot[s]].slot = s

\* An execution is bound to at most one grant (ErrExecutionAlreadyBound).
ExecutionBoundOnce ==
    \A i, j \in DOMAIN grants :
        grants[i].execution = grants[j].execution /\ i # j => grants[i].execution = NoExecution

\* The claimed count is the number of grants and respects fleet_max_runners.
FleetBound ==
    /\ claimed = Cardinality(DOMAIN grants)
    /\ claimed <= FleetMaximum

\* What Scheduler.Validate checks of the books holds after every call.
Validate == BooksAgree /\ ExecutionBoundOnce /\ FleetBound

\* No late or repeated Bind or Release, with whatever reference of the past,
\* takes a grant from the caller that holds it.
HoldersKeepGrants ==
    \A ref \in held : ref.id \in DOMAIN grants /\ grants[ref.id] = ref

\* Round-robin starves nobody: a Target that is demanded and could be served is
\* passed over by fewer grants in a row than there are Targets.
NoStarvation == \A t \in Targets : waiting[t] < TargetCount

\* Placement never fills the fleet beyond its maximum, counting the runtimes
\* nodes report that no grant accounts for.
PlacementIsBounded ==
    [][Constructed /\ DOMAIN grants' \ DOMAIN grants # {}
         => Cardinality(DOMAIN grants') + Cardinality(Unbacked') <= FleetMaximum]_vars

\* No call makes a runtime that a node reports lose its grant.
BackedStaysBacked == [][nodes' = nodes => Unbacked' \subseteq Unbacked]_vars
============================================================================
