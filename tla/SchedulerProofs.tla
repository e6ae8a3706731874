-------------------------- MODULE SchedulerProofs --------------------------
(***************************************************************************)
(* Machine-checked facts about Scheduler, for any topology, Targets,       *)
(* profiles, executions, fleet maximum and node observations.              *)
(***************************************************************************)
EXTENDS Scheduler, FiniteSetTheorems, TLAPS

USE DEF books, callers

---------------------------------------------------------------------------
(* The inductive invariant *)

\* Identifiers are handed out in increasing order and never twice: every
\* reference a caller ever got lies behind the counter until it is used up.
IdsBehind ==
    nextGrantID # 0 =>
        /\ \A id \in DOMAIN grants : id < nextGrantID
        /\ \A ref \in held \cup outdated : ref.id < nextGrantID

\* What the constructor has not claimed yet fits beside what it has.
RestoreFits ==
    /\ IsFiniteSet(DOMAIN restoring)
    /\ DOMAIN restoring \cap DOMAIN ledger = {}
    /\ claimed + Cardinality(DOMAIN restoring) <= FleetMaximum
    /\ DOMAIN restoring # {} => nextGrantID = claimed + 1
    /\ \A r, s \in DOMAIN restoring :
         r # s /\ restoring[r].execution = restoring[s].execution
            => restoring[r].execution = NoExecution
    /\ \A s \in DOMAIN restoring : \A id \in DOMAIN grants :
         restoring[s].execution = grants[id].execution
            => restoring[s].execution = NoExecution

\* An outdated reference names no grant, or one that was bound after it.
OutdatedPowerless ==
    \A ref \in outdated :
        ref.id \in DOMAIN grants =>
            ref.execution = NoExecution /\ grants[ref.id].execution # NoExecution

\* Every grant that passes Target t over brings the cursor closer to it.
CursorCloses ==
    /\ TargetCount > 0 => nextTarget \in Targets
    /\ \A t \in Targets : waiting[t] + Distance(t) < TargetCount

Ownership == TypeOK /\ Validate /\ IdsBehind /\ RestoreFits
Holding   == HoldersKeepGrants /\ OutdatedPowerless
IInv      == Ownership /\ Holding /\ CursorCloses

---------------------------------------------------------------------------
(* Partial functions *)

\* Adding an entry to a map keeps the type of its values.
LEMMA PutType ==
  ASSUME NEW f, NEW S, f \in [DOMAIN f -> S], NEW k, NEW v \in S
  PROVE  Put(f, k, v) \in [DOMAIN Put(f, k, v) -> S]
  BY DEF Put

\* Deleting an entry of a map keeps the type of its values.
LEMMA WithoutType ==
  ASSUME NEW f, NEW S, f \in [DOMAIN f -> S], NEW k
  PROVE  Without(f, k) \in [DOMAIN Without(f, k) -> S]
  BY DEF Without

\* The fields of a grant have their types, and name an owner of its slot.
LEMMA GrantFields ==
  ASSUME NEW g \in Grant
  PROVE  /\ g.id \in Ids /\ g.target \in Targets /\ g.slot \in Slots
         /\ g.execution \in Bindings
         /\ [target |-> g.target, execution |-> g.execution] \in Owner
  BY DEF Grant, Owner

\* A grant is known by its four fields.
LEMMA GrantExtensional ==
  ASSUME NEW g \in Grant, NEW h \in Grant,
         g.id = h.id, g.target = h.target, g.slot = h.slot, g.execution = h.execution
  PROVE  g = h
  BY DEF Grant

\* The set of live grant identifiers is finite, so it can be counted.
LEMMA GrantsFinite ==
  ASSUME TypeOK
  PROVE  IsFiniteSet(DOMAIN grants)
<1>1. IsFiniteSet(Ids)
  BY FS_Interval, BoundAssumption DEF Ids
<1>2. DOMAIN grants \in SUBSET Ids
  BY DEF TypeOK
<1> QED BY <1>1, <1>2, FS_Subset

---------------------------------------------------------------------------
(* The claim shared by Restore and GrantNext *)

\* A grant under the next identifier, for a free slot and an execution nobody
\* else is bound to, keeps the books.
LEMMA ClaimKeepsBooks ==
  ASSUME TypeOK, Validate, IdsBehind, nextGrantID # 0,
         NEW g \in Grant, g.id = nextGrantID, Claim(g),
         \A id \in DOMAIN grants :
            grants[id].execution = g.execution => g.execution = NoExecution
  PROVE  /\ Validate'
         /\ DOMAIN ledger' \subseteq Slots /\ ledger' \in [DOMAIN ledger' -> Owner]
         /\ DOMAIN grants' \subseteq Ids /\ grants' \in [DOMAIN grants' -> Grant]
         /\ DOMAIN grantBySlot' \subseteq Slots
         /\ grantBySlot' \in [DOMAIN grantBySlot' -> Ids]
         /\ claimed' \in Nat /\ nextGrantID' \in 0..MaxGrantID
<1> DEFINE owner == [target |-> g.target, execution |-> g.execution]
<1>1. /\ g.id \in Ids /\ g.slot \in Slots /\ owner \in Owner
  BY GrantFields
<1>2. g.id \notin DOMAIN grants
  BY DEF IdsBehind, TypeOK, Ids
<1>3. /\ g.slot \notin DOMAIN ledger
      /\ claimed < FleetMaximum /\ claimed' = claimed + 1
      /\ ledger' = Put(ledger, g.slot, owner)
      /\ grants' = Put(grants, g.id, g)
      /\ grantBySlot' = Put(grantBySlot, g.slot, g.id)
      /\ nextGrantID' = NextID(nextGrantID)
  BY DEF Claim
<1> HIDE DEF owner
<1>4. /\ DOMAIN ledger' = DOMAIN ledger \cup {g.slot}
      /\ ledger'[g.slot] = owner
      /\ \A x \in DOMAIN ledger : ledger'[x] = ledger[x]
  BY <1>3 DEF Put
<1>5. /\ DOMAIN grants' = DOMAIN grants \cup {g.id}
      /\ grants'[g.id] = g
      /\ \A x \in DOMAIN grants : grants'[x] = grants[x]
  BY <1>2, <1>3 DEF Put
<1>6. /\ DOMAIN grantBySlot' = DOMAIN grantBySlot \cup {g.slot}
      /\ grantBySlot'[g.slot] = g.id
      /\ \A x \in DOMAIN grantBySlot : grantBySlot'[x] = grantBySlot[x]
  BY <1>3 DEF Put, Validate, BooksAgree
<1>7. BooksAgree'
  <2>1. DOMAIN ledger' = DOMAIN grantBySlot'
    BY <1>4, <1>6 DEF Validate, BooksAgree
  <2>2. ASSUME NEW id \in DOMAIN grants'
        PROVE  /\ grants'[id].id = id
               /\ grants'[id].slot \in DOMAIN ledger'
               /\ grantBySlot'[grants'[id].slot] = id
               /\ ledger'[grants'[id].slot] =
                    [target |-> grants'[id].target, execution |-> grants'[id].execution]
    <3>1. CASE id = g.id
      BY <3>1, <1>4, <1>5, <1>6 DEF owner
    <3>2. CASE id \in DOMAIN grants
      BY <3>2, <1>4, <1>5, <1>6 DEF Validate, BooksAgree
    <3> QED BY <3>1, <3>2, <1>5
  <2>3. ASSUME NEW s \in DOMAIN grantBySlot'
        PROVE  grantBySlot'[s] \in DOMAIN grants' /\ grants'[grantBySlot'[s]].slot = s
    <3>1. CASE s = g.slot
      BY <3>1, <1>5, <1>6
    <3>2. CASE s \in DOMAIN grantBySlot
      BY <3>2, <1>5, <1>6 DEF Validate, BooksAgree
    <3> QED BY <3>1, <3>2, <1>6
  <2> QED BY <2>1, <2>2, <2>3 DEF BooksAgree
<1>8. ExecutionBoundOnce'
  BY <1>5 DEF Validate, ExecutionBoundOnce
<1>9. FleetBound'
  <2>1. IsFiniteSet(DOMAIN grants)
    BY GrantsFinite
  <2>2. Cardinality(DOMAIN grants') = Cardinality(DOMAIN grants) + 1
    BY <2>1, <1>2, <1>5, FS_AddElement
  <2> QED BY <2>2, <1>3, BoundAssumption DEF Validate, FleetBound, TypeOK
<1>10. nextGrantID' \in 0..MaxGrantID
  BY <1>3, BoundAssumption DEF NextID, TypeOK
<1>11. claimed' \in Nat
  BY <1>3 DEF TypeOK
<1>12. DOMAIN ledger' \subseteq Slots /\ ledger' \in [DOMAIN ledger' -> Owner]
  BY <1>1, <1>3, <1>4, PutType DEF TypeOK
<1>13. DOMAIN grants' \subseteq Ids /\ grants' \in [DOMAIN grants' -> Grant]
  BY <1>1, <1>3, <1>5, PutType DEF TypeOK
<1>14. /\ DOMAIN grantBySlot' \subseteq Slots
       /\ grantBySlot' \in [DOMAIN grantBySlot' -> Ids]
  BY <1>1, <1>3, <1>6, PutType DEF TypeOK
<1> QED BY <1>7, <1>8, <1>9, <1>10, <1>11, <1>12, <1>13, <1>14 DEF Validate

\* The claimed grant is held, and every other reference keeps its standing.
LEMMA ClaimKeepsHolding ==
  ASSUME TypeOK, IdsBehind, Holding, nextGrantID # 0,
         NEW g \in Grant, g.id = nextGrantID, Claim(g),
         held' = held \cup {g}, outdated' = outdated
  PROVE  Holding' /\ IdsBehind'
<1>1. g.id \notin DOMAIN grants /\ \A ref \in held \cup outdated : ref.id # g.id
  BY GrantFields DEF IdsBehind, TypeOK, Ids, Grant
<1>2. /\ DOMAIN grants' = DOMAIN grants \cup {g.id}
      /\ grants'[g.id] = g
      /\ \A x \in DOMAIN grants : grants'[x] = grants[x]
  BY <1>1 DEF Claim, Put
<1>3. HoldersKeepGrants'
  BY <1>1, <1>2 DEF Holding, HoldersKeepGrants
<1>4. OutdatedPowerless'
  BY <1>1, <1>2 DEF Holding, OutdatedPowerless
<1>5. IdsBehind'
  <2>1. nextGrantID' = NextID(nextGrantID)
    BY DEF Claim
  <2>2. nextGrantID' # 0 => nextGrantID' = nextGrantID + 1
    BY <2>1 DEF NextID
  <2>3. /\ \A id \in DOMAIN grants : id \in Int
        /\ \A ref \in held \cup outdated : ref.id \in Int
        /\ nextGrantID \in Int
    BY DEF TypeOK, Ids, Grant
  <2> QED BY <2>2, <2>3, <1>2 DEF IdsBehind
<1> QED BY <1>3, <1>4, <1>5 DEF Holding

---------------------------------------------------------------------------
(* One lemma per action *)

\* NewWithReservations starts from books that satisfy the invariant.
LEMMA InitHolds ==
  ASSUME Init
  PROVE  IInv
<1>1. TypeOK
  <2>1. DOMAIN restoring \subseteq Slots /\ restoring \in [DOMAIN restoring -> Owner]
    BY DEF Init
  <2>2. /\ DOMAIN ledger = {} /\ DOMAIN grants = {} /\ DOMAIN grantBySlot = {}
    BY DEF Init, Empty
  <2>3. /\ ledger \in [DOMAIN ledger -> Owner] /\ grants \in [DOMAIN grants -> Grant]
        /\ grantBySlot \in [DOMAIN grantBySlot -> Ids]
    BY DEF Init, Empty
  <2>4. nextGrantID \in 0..MaxGrantID
    BY BoundAssumption DEF Init
  <2> QED BY <2>1, <2>2, <2>3, <2>4 DEF Init, TypeOK
<1>2. Validate
  BY FS_EmptySet, BoundAssumption
  DEF Init, Empty, Validate, BooksAgree, ExecutionBoundOnce, FleetBound
<1>3. IdsBehind
  BY DEF Init, Empty, IdsBehind
<1>4. RestoreFits
  <2>1. IsFiniteSet(DOMAIN restoring) /\ Cardinality(DOMAIN restoring) \in Nat
    BY FS_CardinalityType DEF Init, Restorable
  <2> QED BY <2>1 DEF Init, Empty, Restorable, RestoreFits
<1>5. Holding
  BY DEF Init, Holding, HoldersKeepGrants, OutdatedPowerless
<1>6. CursorCloses
  BY TopologyAssumption DEF Init, CursorCloses, Distance, Wrap, Targets
<1> QED BY <1>1, <1>2, <1>3, <1>4, <1>5, <1>6 DEF IInv, Ownership

\* Restoring one reservation keeps the invariant.
LEMMA RestoreStep ==
  ASSUME IInv, Restore
  PROVE  IInv'
<1> USE DEF IInv, Ownership
<1> PICK s \in DOMAIN restoring :
      LET g == [id |-> nextGrantID, target |-> restoring[s].target, slot |-> s,
                execution |-> restoring[s].execution]
      IN  /\ Claim(g)
          /\ held' = held \cup {g}
          /\ restoring' = Without(restoring, s)
          /\ UNCHANGED <<nodes, nextTarget, outdated, waiting>>
  BY DEF Restore
<1> DEFINE g == [id |-> nextGrantID, target |-> restoring[s].target, slot |-> s,
                 execution |-> restoring[s].execution]
<1>1. nextGrantID = claimed + 1 /\ claimed < FleetMaximum
  BY DEF RestoreFits, Claim
<1>2. nextGrantID \in Ids /\ nextGrantID # 0
  BY <1>1, BoundAssumption DEF TypeOK, Ids
<1>3. restoring[s] \in Owner /\ s \in Slots
  BY DEF TypeOK
<1>4. g \in Grant /\ g.id = nextGrantID /\ g.slot = s /\ g.execution = restoring[s].execution
  BY <1>2, <1>3 DEF Grant, Owner
<1>5. /\ Claim(g) /\ held' = held \cup {g} /\ restoring' = Without(restoring, s)
      /\ UNCHANGED <<nodes, nextTarget, outdated, waiting>>
  OBVIOUS
<1>6. \A id \in DOMAIN grants :
         grants[id].execution = g.execution => g.execution = NoExecution
  BY <1>4 DEF RestoreFits
<1> HIDE DEF g
<1>7. /\ Validate'
      /\ DOMAIN ledger' \subseteq Slots /\ ledger' \in [DOMAIN ledger' -> Owner]
      /\ DOMAIN grants' \subseteq Ids /\ grants' \in [DOMAIN grants' -> Grant]
      /\ DOMAIN grantBySlot' \subseteq Slots
      /\ grantBySlot' \in [DOMAIN grantBySlot' -> Ids]
      /\ claimed' \in Nat /\ nextGrantID' \in 0..MaxGrantID
  BY <1>2, <1>4, <1>5, <1>6, ClaimKeepsBooks
<1>8. TypeOK'
  <2>1. /\ DOMAIN restoring' \subseteq Slots /\ restoring' \in [DOMAIN restoring' -> Owner]
    BY <1>5, WithoutType DEF TypeOK, Without
  <2> QED BY <2>1, <1>4, <1>5, <1>7 DEF TypeOK
<1>9. Holding' /\ IdsBehind'
  BY <1>2, <1>4, <1>5, ClaimKeepsHolding
<1>10. RestoreFits'
  <2>1. /\ DOMAIN restoring' = DOMAIN restoring \ {s}
        /\ \A r \in DOMAIN restoring' : restoring'[r] = restoring[r]
    BY <1>5 DEF Without
  <2>2. /\ IsFiniteSet(DOMAIN restoring')
        /\ Cardinality(DOMAIN restoring) \in Nat
        /\ Cardinality(DOMAIN restoring') = Cardinality(DOMAIN restoring) - 1
    BY <2>1, FS_RemoveElement, FS_CardinalityType DEF RestoreFits
  <2>3. claimed' = claimed + 1 /\ nextGrantID' = NextID(nextGrantID)
        /\ DOMAIN ledger' = DOMAIN ledger \cup {s}
    BY <1>4, <1>5 DEF Claim, Put
  <2>4. claimed' + Cardinality(DOMAIN restoring') <= FleetMaximum
    BY <2>2, <2>3, BoundAssumption DEF RestoreFits, TypeOK
  <2>5. DOMAIN restoring' # {} => nextGrantID' = claimed' + 1
    <3>1. ASSUME DOMAIN restoring' # {}
          PROVE  Cardinality(DOMAIN restoring') \in Nat \ {0}
      BY <3>1, <2>2, FS_EmptySet, FS_CardinalityType
    <3> QED BY <3>1, <2>2, <2>3, <2>4, <1>1, BoundAssumption DEF NextID, TypeOK
  <2>6. \A r \in DOMAIN restoring' : \A id \in DOMAIN grants' :
           restoring'[r].execution = grants'[id].execution
              => restoring'[r].execution = NoExecution
    <3>1. /\ DOMAIN grants' = DOMAIN grants \cup {g.id}
          /\ grants'[g.id] = g
          /\ \A x \in DOMAIN grants : x # g.id => grants'[x] = grants[x]
      BY <1>5 DEF Claim, Put
    <3> QED BY <3>1, <2>1, <1>4 DEF RestoreFits
  <2> QED BY <2>1, <2>2, <2>3, <2>4, <2>5, <2>6 DEF RestoreFits
<1>11. CursorCloses'
  BY <1>5 DEF CursorCloses, Distance
<1> QED BY <1>7, <1>8, <1>9, <1>10, <1>11

\* UpdateNode touches no book, so it keeps the invariant.
LEMMA UpdateStep ==
  ASSUME IInv, NEW n \in Nodes, NEW snapshot \in Snapshots, UpdateNode(n, snapshot)
  PROVE  IInv'
<1> USE DEF IInv, Ownership, UpdateNode
<1>1. TypeOK'
  BY DEF TypeOK
<1>2. Validate' /\ IdsBehind' /\ RestoreFits'
  BY DEF Validate, BooksAgree, ExecutionBoundOnce, FleetBound, IdsBehind, RestoreFits
<1>3. Holding' /\ CursorCloses'
  BY DEF Holding, HoldersKeepGrants, OutdatedPowerless, CursorCloses, Distance
<1> QED BY <1>1, <1>2, <1>3

\* Serving t moves the cursor past t, hence closer to everything after t.
LEMMA CursorAdvances ==
  ASSUME TypeOK, CursorCloses, NEW demand \in SUBSET Targets,
         NEW t \in Servable(demand),
         \A u \in Servable(demand) : Distance(t) <= Distance(u),
         nextTarget' = Advance(t),
         waiting' = [u \in Targets |->
                       IF u \in Servable(demand) \ {t} THEN waiting[u] + 1 ELSE 0]
  PROVE  CursorCloses' /\ nextTarget' \in Nat /\ waiting' \in [Targets -> Nat]
<1>1. t \in Targets /\ TargetCount > 0 /\ nextTarget \in Targets
  BY TopologyAssumption DEF Servable, Targets, CursorCloses
<1>2. nextTarget' \in Targets
  BY <1>1, TopologyAssumption DEF Advance, Wrap, Targets
<1>3. waiting' \in [Targets -> Nat]
  BY DEF TypeOK
<1>4. ASSUME NEW u \in Targets
      PROVE  waiting'[u] + Distance(u)' < TargetCount
  <2>1. CASE u \in Servable(demand) \ {t}
    <3>1. waiting'[u] = waiting[u] + 1 /\ waiting[u] \in Nat
      BY <2>1 DEF TypeOK
    <3>2. Distance(t) <= Distance(u) /\ u # t
      BY <2>1
    <3>3. Distance(u)' < Distance(u) /\ Distance(u)' \in Nat /\ Distance(u) \in Nat
      BY <3>2, <1>1, TopologyAssumption DEF Distance, Advance, Wrap, Targets
    <3> QED BY <3>1, <3>3, TopologyAssumption DEF CursorCloses
  <2>2. CASE u \notin Servable(demand) \ {t}
    <3>1. waiting'[u] = 0
      BY <2>2
    <3>2. Distance(u)' \in Nat /\ Distance(u)' < TargetCount
      BY <1>2, TopologyAssumption DEF Distance, Wrap, Targets
    <3> QED BY <3>1, <3>2
  <2> QED BY <2>1, <2>2
<1> QED BY <1>2, <1>3, <1>4 DEF CursorCloses, Targets

\* GrantNext keeps the invariant, the round-robin distances included.
LEMMA GrantStep ==
  ASSUME IInv, NEW demand \in SUBSET Targets, GrantNext(demand)
  PROVE  IInv'
<1> USE DEF IInv, Ownership
<1> PICK t \in Servable(demand) :
      /\ \A u \in Servable(demand) : Distance(t) <= Distance(u)
      /\ \E s \in Best(t) :
           LET g == [id |-> nextGrantID, target |-> t, slot |-> s,
                     execution |-> NoExecution]
           IN  Claim(g) /\ held' = held \cup {g}
      /\ nextTarget' = Advance(t)
      /\ waiting' = [u \in Targets |->
                       IF u \in Servable(demand) \ {t} THEN waiting[u] + 1 ELSE 0]
  BY DEF GrantNext
<1> PICK s \in Best(t) :
      LET g == [id |-> nextGrantID, target |-> t, slot |-> s, execution |-> NoExecution]
      IN  Claim(g) /\ held' = held \cup {g}
  OBVIOUS
<1> DEFINE g == [id |-> nextGrantID, target |-> t, slot |-> s, execution |-> NoExecution]
<1>1. /\ Constructed /\ nextGrantID # 0
      /\ UNCHANGED <<restoring, nodes, outdated>>
  BY DEF GrantNext
<1>2. g \in Grant /\ g.id = nextGrantID /\ g.execution = NoExecution
  BY <1>1, BoundAssumption
  DEF Grant, Best, Candidates, Servable, Ids, Bindings, TypeOK
<1>3. Claim(g) /\ held' = held \cup {g}
  OBVIOUS
<1> HIDE DEF g
<1>4. /\ Validate'
      /\ DOMAIN ledger' \subseteq Slots /\ ledger' \in [DOMAIN ledger' -> Owner]
      /\ DOMAIN grants' \subseteq Ids /\ grants' \in [DOMAIN grants' -> Grant]
      /\ DOMAIN grantBySlot' \subseteq Slots
      /\ grantBySlot' \in [DOMAIN grantBySlot' -> Ids]
      /\ claimed' \in Nat /\ nextGrantID' \in 0..MaxGrantID
  BY <1>1, <1>2, <1>3, ClaimKeepsBooks
<1>5. Holding' /\ IdsBehind'
  BY <1>1, <1>2, <1>3, ClaimKeepsHolding
<1>6. CursorCloses' /\ nextTarget' \in Nat /\ waiting' \in [Targets -> Nat]
  BY CursorAdvances
<1>7. TypeOK'
  BY <1>1, <1>2, <1>3, <1>4, <1>6 DEF TypeOK
<1>8. RestoreFits'
  <2>1. DOMAIN restoring' = {}
    BY <1>1 DEF Constructed
  <2> QED BY <2>1, <1>4, FS_EmptySet, BoundAssumption DEF RestoreFits, Validate, FleetBound
<1> QED BY <1>4, <1>5, <1>6, <1>7, <1>8

\* Only a reference that is still held binds: it is replaced by the bound one.
LEMMA BindStep ==
  ASSUME IInv, NEW ref \in held \cup outdated, NEW e \in Executions, BindExecution(ref, e)
  PROVE  IInv'
<1> USE DEF IInv, Ownership
<1> DEFINE g == [grants[ref.id] EXCEPT !.execution = e]
           owner == [target |-> g.target, execution |-> e]
<1>1. /\ Constructed /\ Identifies(ref) /\ ref.execution = NoExecution
      /\ grants[ref.id].execution = NoExecution
      /\ \A id \in DOMAIN grants : grants[id].execution # e
      /\ ledger' = Put(ledger, g.slot, owner)
      /\ grants' = Put(grants, g.id, g)
      /\ held' = (held \ {ref}) \cup {g}
      /\ outdated' = outdated \cup {ref}
      /\ UNCHANGED <<restoring, nodes, claimed, grantBySlot, nextTarget, nextGrantID, waiting>>
  BY DEF BindExecution
<1>2. ref \in Grant /\ ref.id \in DOMAIN grants /\ grants[ref.id] \in Grant
      /\ grants[ref.id].id = ref.id
  BY <1>1 DEF TypeOK, Identifies, Validate, BooksAgree
<1>3. /\ g \in Grant /\ g.id = ref.id /\ g.slot = grants[ref.id].slot
      /\ g.target = grants[ref.id].target /\ g.execution = e
      /\ owner \in Owner
  BY <1>2 DEF Grant, Bindings, Owner
<1>4. g.execution # NoExecution
  BY <1>3, ExecutionAssumption
<1>5. g.slot \in DOMAIN ledger /\ grantBySlot[g.slot] = g.id
  BY <1>2, <1>3 DEF Validate, BooksAgree
<1>6. owner.target = g.target /\ owner.execution = g.execution
  BY <1>3
<1> HIDE DEF g
<1>7. owner = [target |-> g.target, execution |-> g.execution]
  BY <1>3
<1> HIDE DEF owner
<1>8. /\ DOMAIN ledger' = DOMAIN ledger /\ ledger'[g.slot] = owner
      /\ \A x \in DOMAIN ledger : x # g.slot => ledger'[x] = ledger[x]
  BY <1>1, <1>5 DEF Put
<1>9. /\ DOMAIN grants' = DOMAIN grants /\ grants'[g.id] = g
      /\ \A x \in DOMAIN grants : x # g.id => grants'[x] = grants[x]
  BY <1>1, <1>2, <1>3 DEF Put
<1>10. TypeOK'
  <2>1. ledger' \in [DOMAIN ledger' -> Owner] /\ grants' \in [DOMAIN grants' -> Grant]
    BY <1>1, <1>3, PutType DEF TypeOK
  <2> QED BY <2>1, <1>1, <1>2, <1>3, <1>8, <1>9 DEF TypeOK
<1>11. BooksAgree'
  <2>1. ASSUME NEW id \in DOMAIN grants'
        PROVE  /\ grants'[id].id = id
               /\ grants'[id].slot \in DOMAIN ledger'
               /\ grantBySlot'[grants'[id].slot] = id
               /\ ledger'[grants'[id].slot] =
                    [target |-> grants'[id].target, execution |-> grants'[id].execution]
    <3>1. CASE id = g.id
      <4>1. grants'[id] = g /\ grantBySlot' = grantBySlot
        BY <3>1, <1>1, <1>9
      <4> QED BY <3>1, <4>1, <1>5, <1>7, <1>8
    <3>2. CASE id # g.id
      <4>1. grants'[id] = grants[id] /\ id \in DOMAIN grants
        BY <3>2, <1>9
      <4>2. grants[id].slot # g.slot
        BY <3>2, <4>1, <1>5 DEF Validate, BooksAgree
      <4> QED BY <4>1, <4>2, <1>1, <1>8 DEF Validate, BooksAgree
    <3> QED BY <3>1, <3>2
  <2>2. \A s \in DOMAIN grantBySlot' :
           grantBySlot'[s] \in DOMAIN grants' /\ grants'[grantBySlot'[s]].slot = s
    BY <1>1, <1>3, <1>9 DEF Validate, BooksAgree
  <2>3. DOMAIN ledger' = DOMAIN grantBySlot'
    BY <1>1, <1>8 DEF Validate, BooksAgree
  <2> QED BY <2>1, <2>2, <2>3 DEF BooksAgree
<1>12. ExecutionBoundOnce'
  BY <1>1, <1>3, <1>9 DEF Validate, ExecutionBoundOnce
<1>13. FleetBound'
  BY <1>1, <1>9 DEF Validate, FleetBound
<1>14. IdsBehind'
  BY <1>1, <1>2, <1>3, <1>9 DEF IdsBehind
<1>15. RestoreFits'
  BY <1>1, <1>8 DEF RestoreFits, Constructed
<1>16. Holding'
  <2>1. ref \in held /\ grants[ref.id] = ref
    BY <1>1, <1>2 DEF Holding, HoldersKeepGrants, OutdatedPowerless
  <2>2. HoldersKeepGrants'
    <3>1. \A r \in held \ {ref} : r.id \in DOMAIN grants /\ r.id # ref.id /\ grants[r.id] = r
      BY <2>1 DEF Holding, HoldersKeepGrants
    <3>2. SUFFICES ASSUME NEW r \in held'
                   PROVE  r.id \in DOMAIN grants' /\ grants'[r.id] = r
      BY DEF HoldersKeepGrants
    <3>3. CASE r = g
      BY <3>3, <1>2, <1>3, <1>9
    <3>4. CASE r \in held \ {ref}
      BY <3>1, <3>4, <1>3, <1>9
    <3> QED BY <3>3, <3>4, <1>1
  <2>3. OutdatedPowerless'
    BY <1>1, <1>3, <1>4, <1>9 DEF Holding, OutdatedPowerless
  <2> QED BY <2>2, <2>3 DEF Holding
<1>17. CursorCloses'
  BY <1>1 DEF CursorCloses, Distance
<1> QED BY <1>10, <1>11, <1>12, <1>13, <1>14, <1>15, <1>16, <1>17 DEF Validate

\* Only a reference that is still held releases, and only its own grant.
LEMMA ReleaseStep ==
  ASSUME IInv, NEW ref \in held \cup outdated, Release(ref)
  PROVE  IInv'
<1> USE DEF IInv, Ownership
<1>1. /\ Constructed /\ Identifies(ref) /\ grants[ref.id].execution = ref.execution
      /\ ledger' = Without(ledger, ref.slot)
      /\ claimed' = claimed - 1
      /\ grants' = Without(grants, ref.id)
      /\ grantBySlot' = Without(grantBySlot, ref.slot)
      /\ held' = held \ {ref} /\ outdated' = outdated \cup {ref}
      /\ UNCHANGED <<restoring, nodes, nextTarget, nextGrantID, waiting>>
  BY DEF Release
<1>2. /\ ref \in Grant /\ ref.id \in DOMAIN grants /\ ref.slot = grants[ref.id].slot
      /\ grantBySlot[ref.slot] = ref.id
  <2>1. ref \in Grant
    BY DEF TypeOK
  <2>2. ref.id \in DOMAIN grants /\ ref.slot = grants[ref.id].slot
    BY <1>1 DEF Identifies
  <2>3. grantBySlot[grants[ref.id].slot] = ref.id
    <3>1. BooksAgree
      BY DEF Validate
    <3> HIDE DEF IInv, Ownership
    <3> QED
      BY <2>2, <3>1 DEF BooksAgree
  <2> HIDE DEF IInv, Ownership
  <2> QED
    BY <2>1, <2>2, <2>3
<1>3. /\ DOMAIN ledger' = DOMAIN ledger \ {ref.slot}
      /\ \A x \in DOMAIN ledger' : ledger'[x] = ledger[x]
  BY <1>1 DEF Without
<1>4. /\ DOMAIN grants' = DOMAIN grants \ {ref.id}
      /\ \A x \in DOMAIN grants' : grants'[x] = grants[x]
  BY <1>1 DEF Without
<1>5. /\ DOMAIN grantBySlot' = DOMAIN grantBySlot \ {ref.slot}
      /\ \A x \in DOMAIN grantBySlot' : grantBySlot'[x] = grantBySlot[x]
  BY <1>1 DEF Without
<1>6. BooksAgree'
  <2>1. \A id \in DOMAIN grants' : grants[id].slot # ref.slot
    BY <1>2, <1>4 DEF Validate, BooksAgree
  <2>2. \A s \in DOMAIN grantBySlot' : grantBySlot[s] # ref.id
    BY <1>2, <1>5 DEF Validate, BooksAgree
  <2> QED BY <2>1, <2>2, <1>3, <1>4, <1>5 DEF Validate, BooksAgree
<1>7. ExecutionBoundOnce'
  BY <1>4 DEF Validate, ExecutionBoundOnce
<1>8. FleetBound' /\ claimed' \in Nat
  <2>1. IsFiniteSet(DOMAIN grants)
    BY GrantsFinite
  <2>2. /\ Cardinality(DOMAIN grants') = Cardinality(DOMAIN grants) - 1
        /\ Cardinality(DOMAIN grants') \in Nat
    BY <2>1, <1>2, <1>4, FS_RemoveElement, FS_CardinalityType
  <2> QED BY <2>2, <1>1, BoundAssumption DEF Validate, FleetBound, TypeOK
<1>9. TypeOK'
  <2>1. /\ ledger' \in [DOMAIN ledger' -> Owner] /\ grants' \in [DOMAIN grants' -> Grant]
        /\ grantBySlot' \in [DOMAIN grantBySlot' -> Ids]
    BY <1>1, WithoutType DEF TypeOK
  <2> QED BY <2>1, <1>1, <1>2, <1>3, <1>4, <1>5, <1>8 DEF TypeOK
<1>10. IdsBehind'
  BY <1>1, <1>4 DEF IdsBehind
<1>11. RestoreFits'
  <2>1. DOMAIN restoring' = {}
    BY <1>1 DEF Constructed
  <2> QED BY <2>1, <1>8, FS_EmptySet, BoundAssumption DEF RestoreFits, FleetBound
<1>12. Holding'
  <2>1. ref \in held /\ grants[ref.id] = ref
    BY <1>1, <1>2 DEF Holding, HoldersKeepGrants, OutdatedPowerless
  <2>2. HoldersKeepGrants'
    BY <2>1, <1>1, <1>4 DEF Holding, HoldersKeepGrants
  <2>3. OutdatedPowerless'
    BY <1>1, <1>4 DEF Holding, OutdatedPowerless
  <2> QED BY <2>2, <2>3 DEF Holding
<1>13. CursorCloses'
  BY <1>1 DEF CursorCloses, Distance
<1> QED BY <1>6, <1>7, <1>8, <1>9, <1>10, <1>11, <1>12, <1>13 DEF Validate

\* A step that changes nothing keeps the invariant.
LEMMA StutterStep ==
  ASSUME IInv, UNCHANGED vars
  PROVE  IInv'
  BY DEF vars, IInv, Ownership, TypeOK, Validate, BooksAgree, ExecutionBoundOnce, FleetBound,
         IdsBehind, RestoreFits, Holding, HoldersKeepGrants, OutdatedPowerless, CursorCloses,
         Distance

---------------------------------------------------------------------------
(* Theorems *)

\* Every reachable state satisfies the inductive invariant.
THEOREM Inductive == Spec => []IInv
<1>1. Init => IInv
  BY InitHolds
<1>2. IInv /\ [Next]_vars => IInv'
  <2> SUFFICES ASSUME IInv, [Next]_vars PROVE IInv'
    OBVIOUS
  <2>1. CASE Restore
    BY <2>1, RestoreStep
  <2>2. CASE \E n \in Nodes, snapshot \in Snapshots : UpdateNode(n, snapshot)
    BY <2>2, UpdateStep
  <2>3. CASE \E demand \in SUBSET Targets : GrantNext(demand)
    BY <2>3, GrantStep
  <2>4. CASE \E ref \in held \cup outdated : Release(ref)
    BY <2>4, ReleaseStep
  <2>5. CASE \E ref \in held \cup outdated : \E e \in Executions : BindExecution(ref, e)
    BY <2>5, BindStep
  <2>6. CASE UNCHANGED vars
    BY <2>6, StutterStep
  <2> QED BY <2>1, <2>2, <2>3, <2>4, <2>5, <2>6 DEF Next
<1> QED BY <1>1, <1>2, PTL DEF Spec

\* Type correctness of the books, the cursor and the callers' references.
THEOREM TypeCorrect == Spec => []TypeOK
  BY Inductive, PTL DEF IInv, Ownership

\* What Scheduler.Validate checks is an invariant: the grant indexes and the
\* ledger never disagree, a slot has one owner, an execution one grant, and the
\* fleet maximum is never exceeded by claims.
THEOREM BooksStayValid == Spec => []Validate
  BY Inductive, PTL DEF IInv, Ownership

\* A grant is only ever taken back through the reference its holder has.
THEOREM HoldersAreSafe == Spec => []HoldersKeepGrants
  BY Inductive, PTL DEF IInv, Holding

\* GrantNext passes a servable Target over fewer than TargetCount times in a row.
THEOREM RoundRobinIsFair == Spec => []NoStarvation
<1>1. IInv => NoStarvation
  <2> SUFFICES ASSUME IInv, NEW t \in Targets PROVE waiting[t] < TargetCount
    BY DEF NoStarvation
  <2>1. waiting[t] + Distance(t) < TargetCount /\ waiting[t] \in Nat
    BY DEF IInv, Ownership, TypeOK, CursorCloses
  <2>2. Distance(t) \in Nat
    BY TopologyAssumption
    DEF IInv, CursorCloses, Distance, Wrap, Targets
  <2> QED BY <2>1, <2>2, TopologyAssumption
<1> QED BY <1>1, Inductive, PTL

\* No call of the Scheduler takes the grant of a runtime its node still reports.
THEOREM RuntimesKeepGrants == Spec => BackedStaysBacked
<1>1. IInv /\ [Next]_vars => [nodes' = nodes => Unbacked' \subseteq Unbacked]_vars
  <2> SUFFICES ASSUME IInv, Next, nodes' = nodes PROVE Unbacked' \subseteq Unbacked
    OBVIOUS
  <2> SUFFICES ASSUME NEW n \in Nodes, NEW e \in Executions, e \in nodes[n].active, Backed(n, e)
               PROVE  Backed(n, e)'
    BY DEF Unbacked
  <2> PICK id \in DOMAIN grants : grants[id].slot.node = n /\ grants[id].execution = e
    BY DEF Backed
  <2>0. e # NoExecution
    BY ExecutionAssumption
  <2>1. ASSUME NEW g, Claim(g), g.id \notin DOMAIN grants
        PROVE  Backed(n, e)'
    BY <2>1 DEF Claim, Put, Backed
  <2>2. CASE Restore
    <3> PICK s \in DOMAIN restoring :
          Claim([id |-> nextGrantID, target |-> restoring[s].target, slot |-> s,
                 execution |-> restoring[s].execution])
      BY <2>2 DEF Restore
    <3>1. nextGrantID \notin DOMAIN grants
      BY BoundAssumption DEF IInv, Ownership, RestoreFits, IdsBehind, TypeOK, Ids
    <3> QED BY <3>1, <2>1
  <2>3. CASE \E demand \in SUBSET Targets : GrantNext(demand)
    <3> PICK t \in Targets : \E s \in Best(t) :
          Claim([id |-> nextGrantID, target |-> t, slot |-> s, execution |-> NoExecution])
      BY <2>3 DEF GrantNext, Servable
    <3> PICK s \in Best(t) :
          Claim([id |-> nextGrantID, target |-> t, slot |-> s, execution |-> NoExecution])
      OBVIOUS
    <3>1. nextGrantID \notin DOMAIN grants
      BY <2>3 DEF GrantNext, IInv, Ownership, IdsBehind, TypeOK, Ids
    <3> QED BY <3>1, <2>1
  <2>4. CASE \E n2 \in Nodes, snapshot \in Snapshots : UpdateNode(n2, snapshot)
    BY <2>4 DEF UpdateNode, Backed
  <2>5. ASSUME NEW ref \in held \cup outdated, Release(ref)
        PROVE  Backed(n, e)'
    <3>1. id # ref.id
      BY <2>0, <2>5 DEF Release, Identifies, ReportsActive
    <3> QED BY <3>1, <2>5 DEF Release, Without, Backed
  <2>6. ASSUME NEW ref \in held \cup outdated, NEW e2 \in Executions, BindExecution(ref, e2)
        PROVE  Backed(n, e)'
    <3>1. ref.id \in DOMAIN grants /\ grants[ref.id].id = ref.id
          /\ grants[ref.id].execution = NoExecution /\ grants[ref.id] \in Grant
      BY <2>6 DEF BindExecution, Identifies, IInv, Ownership, Validate, BooksAgree, TypeOK
    <3>2. id # ref.id
      BY <3>1, <2>0
    <3>3. [grants[ref.id] EXCEPT !.execution = e2].id = ref.id
      BY <3>1 DEF Grant
    <3> QED BY <3>1, <3>2, <3>3, <2>6 DEF BindExecution, Put, Backed
  <2> QED BY <2>2, <2>3, <2>4, <2>5, <2>6 DEF Next
<1> QED BY <1>1, Inductive, PTL DEF Spec, BackedStaysBacked
============================================================================
