------------------------- MODULE AgentBrokerProofs -------------------------
(***************************************************************************)
(* What overlapping sessions of one node cannot do to each other, proved   *)
(* for any number of connections, callers, commands and events.            *)
(*                                                                         *)
(* The argument has three layers.  An actor by itself: every update of its *)
(* record keeps the timer at the current lease, off the leases that have   *)
(* fired, and a terminated actor has no command pending (Actors).  The     *)
(* lifecycle lock: the actor that holds it is the one that projects, and   *)
(* what the store holds is not newer than the projection that was recorded,*)
(* so a later projection replaces an earlier one (Projecting).  Dispatches:*)
(* the command in flight names the session of its only caller, that session*)
(* is the one projected last, and a pending command has its caller         *)
(* (Dispatching).                                                          *)
(*                                                                         *)
(* What is under way between the sessions and the Agent, and why a session *)
(* never meets an update whose command it does not know, takes two more.   *)
(*                                                                         *)
(* BeatInv: one connection is up, the newest (Connected); a session that   *)
(*   may act is the broker's (Served); the store follows the projections   *)
(*   and holds the owner's intent its session read (Followed, Intended);   *)
(*   and a heartbeat is under way or acknowledged, never both, with its    *)
(*   intent in the store once it is acknowledged (Beats).                  *)
(*                                                                         *)
(* WireInv: per session, what the greeting carries (Greeting), that a      *)
(*   command under way is the last one issued (Ordered), that a command    *)
(*   and its acknowledgement are under way only between the write and the  *)
(*   answer (Flow), that one update or its acknowledgement is under way    *)
(*   (Stream), and that every update under way finds its command known or  *)
(*   acknowledged by the time it is read (Cover); for the node, that       *)
(*   commands are issued in order (Issue) and that the outbox reports      *)
(*   journaled commands, the end of the execution last (Outbox).           *)
(*                                                                         *)
(* Cover is the claim; the other parts are what it rests on.  Ordered      *)
(* needs that no second caller keeps an older command at the gate:         *)
(* OneCaller, what the execution's coordinator lock gives.                 *)
(*                                                                         *)
(* Each action is first reduced to its effect (Greets, Takes, Tells, ...;  *)
(* lemmas ...Does, ...Cases and ...Mild), and each effect is shown to keep *)
(* the two invariants (lemmas ...Beat and ...Wire).                        *)
(***************************************************************************)
EXTENDS AgentBroker, FiniteSetTheorems, SequenceTheorems, TLAPS

---------------------------------------------------------------------------
(* Values *)

Generations == 0..MaxGen
Intents  == 0..2          \* the owner's: none known, available, stopped
Names    == Cmds \cup {0}
Journals == [cmds : SUBSET Cmds, done : BOOLEAN]
Snaps    == [j : Journals, nat : BOOLEAN, own : Intents]
Pends    == [cmd : Names, acked : BOOLEAN]
Phases   == {"none", "hello", "captured", "locked", "stored", "active", "run", "ret",
             "uncap", "disc", "withdrawn", "kept", "closed"}
ActorRecords == [pc : Phases, term : BOOLEAN, ready : BOOLEAN, snap : Snaps, lease : Nat,
                 timer : Nat, fired : SUBSET Nat, pend : Pends, known : SUBSET Cmds]

\* The running timer is of the current lease and has not fired, no later lease
\* has fired, no command is pending in a terminated actor, and only a pending
\* command is acknowledged.
Orderly(x) ==
    /\ x.timer \in {0, x.lease}
    /\ \A n \in x.fired : n <= x.lease
    /\ x.timer # 0 => x.timer \notin x.fired
    /\ x.term => x.pend.cmd = 0
    /\ x.pend.cmd = 0 => ~x.pend.acked
Actors == {x \in ActorRecords : Orderly(x)}

Captures == [g : Generations, seq : Nat, busy : BOOLEAN]
Brokers  == [session : Generations, projected : Generations, capture : Captures, seq : Nat,
             inFlight : Generations, disc : Generations, derr : BOOLEAN, closed : BOOLEAN,
             lock : Generations, gen : Generations]
CallPhases == {"idle", "gate", "disp", "write", "wait", "end"}
CallRecords == [pc : CallPhases, g : Generations, cmd : Names, replay : BOOLEAN, dig : Journals]
\* A caller under way has a session and a command.
Calls    == {x \in CallRecords : x.pc # "idle" => x.g \in Gens /\ x.cmd \in Cmds}
Stores   == [snap : Snaps, gen : Generations, issued : SUBSET Cmds, open : SUBSET Names,
             done : BOOLEAN]

\* What the Agent sends, and its updates; what the Controller sends.
Updates  == [t : {"open"}, of : Cmds, s : Snaps] \cup [t : {"done"}, of : Names, s : Snaps]
Reports  == Updates \cup [t : {"hello", "snap", "hb"}, of : {0}, s : Snaps]
                    \cup [t : {"ack"}, of : Cmds, s : Snaps]
Orders   == [t : {"cmd"}, of : Cmds, s : Snaps]
                    \cup [t : {"ack"}, of : {"hello", "snap", "hb", "upd"}, s : Snaps]
AgentRecords == [pc : {"off", "hello", "snap", "run"}, g : Generations, j : Journals,
                 out : Seq(Updates), own : {1, 2}, dur : {1, 2}, req : SUBSET {1, 2}, hb : Intents,
                 upd : BOOLEAN, conf : Intents]
\* An Agent that is connected has a session, and the update it has sent is still
\* the head of its outbox.
Agents   == {x \in AgentRecords : (x.pc # "off" => x.g \in Gens) /\ (x.upd => x.out # <<>>)}

Typed ==
    /\ b \in Brokers /\ act \in [Gens -> Actors] /\ call \in [Callers -> Calls]
    /\ db \in Stores /\ ag \in Agents /\ up \in [Gens -> BOOLEAN]
    /\ toC \in [Gens -> Seq(Reports)] /\ toA \in [Gens -> Seq(Orders)]

---------------------------------------------------------------------------
(* The inductive invariant *)

\* Who holds the lifecycle lock, and what the store may hold meanwhile.
Projecting ==
    /\ \A g \in Gens : act[g].pc \in {"locked", "stored"} <=> b.lock = g
    /\ \A g \in Gens : act[g].pc = "locked" => db.gen <= b.projected /\ b.projected < g
    /\ \A g \in Gens : act[g].pc = "stored" => db.gen = g /\ b.projected < g
    /\ b.lock = 0 /\ ~b.closed => db.gen <= b.projected

Under == {"disp", "write", "wait", "end"}
\* A dispatch is the only one, of the session projected last, and no projection is
\* under way; a pending command is the one of a caller that writes or waits.
Dispatching ==
    /\ \A k \in Callers : call[k].pc \in Under
         => call[k].g = b.inFlight /\ call[k].g = b.projected
    /\ \A k, o \in Callers : call[k].pc \in Under /\ call[o].pc \in Under => k = o
    /\ b.lock # 0 => b.inFlight = 0
    /\ \A g \in Gens : act[g].pend.cmd # 0 =>
         \E k \in Callers : /\ call[k].pc \in {"write", "wait"} /\ call[k].g = g
                            /\ call[k].cmd = act[g].pend.cmd

\* Only a numbered connection has an actor.
Numbered == \A g \in Gens : act[g].pc # "none" => g <= b.gen

Inv == Typed /\ Numbered /\ Projecting /\ (~b.closed => Dispatching)

---------------------------------------------------------------------------
(* Constants *)

LEMMA Cmd == 0 \notin Cmds /\ Cardinality(Cmds) \in Names /\ Cardinality(Cmds) \in Nat
<1>1. Cardinality(Cmds) \in Nat BY BrokerConstants, FS_CardinalityType
<1>2. \A n \in Nat : n \in Names <=> n = 0 \/ n \in Cmds BY DEF Names
<1>3. Cmds = 1..Cardinality(Cmds) BY BrokerConstants
<1> QED BY <1>1, <1>2, <1>3

LEMMA Gen == /\ MaxGen \in Nat /\ Gens \subseteq Generations /\ 0 \notin Gens /\ 0 \in Generations
             /\ Gens \subseteq Nat /\ Generations \subseteq Nat
             /\ \A g \in Generations : g # 0 => g \in Gens
BY BrokerConstants DEF Gens, Generations

LEMMA Intent == 0 \in Intents /\ 1 \in Intents /\ 2 \in Intents
BY DEF Intents

LEMMA NothingSnap == NoJournal \in Journals /\ NoSnap \in Snaps /\ NoPend \in Pends
BY Intent DEF NoJournal, Journals, NoSnap, Snaps, NoPend, Pends, Names

LEMMA Fresh ==
    /\ NewActor \in Actors /\ NewActor.pc = "none" /\ NewActor.pend.cmd = 0 /\ ~NewActor.snap.nat
    /\ Gone \in Actors /\ Gone.pc = "closed" /\ Gone.pend.cmd = 0 /\ Gone.term
BY NothingSnap DEF NewActor, Gone, Actors, ActorRecords, Orderly, Phases, NoPend, NoSnap

LEMMA FreshRecords ==
    /\ NoCapture \in Captures
    /\ Resting \in Calls /\ Resting.pc = "idle"
BY NothingSnap, Gen DEF NoCapture, Captures, Resting, Calls, CallRecords, CallPhases, Names

LEMMA ActorOf == ASSUME NEW x \in Actors
                 PROVE  /\ x.pc \in Phases /\ x.term \in BOOLEAN /\ x.ready \in BOOLEAN
                        /\ x.snap \in Snaps /\ x.lease \in Nat /\ x.timer \in Nat
                        /\ x.fired \in SUBSET Nat /\ x.pend \in Pends /\ x.known \in SUBSET Cmds
                        /\ x.pend.cmd \in Names /\ x.snap.nat \in BOOLEAN /\ x.snap.j \in Journals
                        /\ x.snap.own \in Intents /\ x.snap.j.cmds \in SUBSET Cmds
                        /\ Orderly(x)
BY DEF Actors, ActorRecords, Pends, Snaps, Journals

---------------------------------------------------------------------------
(* Updates of an actor *)

LEMMA TerminateFields ==
    ASSUME NEW x \in Actors
    PROVE  /\ Terminate(x) \in Actors
           /\ Terminate(x).pc = x.pc /\ Terminate(x).term /\ Terminate(x).pend.cmd = 0
           /\ Terminate(x).snap = x.snap
BY NothingSnap DEF Terminate, Actors, ActorRecords, Orderly, NoPend

LEMMA PhaseFields ==
    ASSUME NEW x \in Actors, NEW p \in Phases
    PROVE  LET y == [x EXCEPT !.pc = p]
           IN  /\ y \in Actors /\ y.pc = p /\ y.term = x.term /\ y.pend = x.pend /\ y.snap = x.snap
BY DEF Actors, ActorRecords, Orderly

LEMMA EndReaderFields ==
    ASSUME NEW x \in Actors
    PROVE  /\ EndReader(x) \in Actors
           /\ EndReader(x).pc = "ret" /\ EndReader(x).term /\ EndReader(x).pend.cmd = 0
           /\ EndReader(x).snap = x.snap
<1>1. "ret" \in Phases BY DEF Phases
<1> QED BY <1>1, TerminateFields, PhaseFields DEF EndReader

LEMMA SnapFields ==
    ASSUME NEW x \in Actors, NEW s \in Snaps
    PROVE  LET y == [x EXCEPT !.snap = s]
           IN  /\ y \in Actors /\ y.pc = x.pc /\ y.term = x.term /\ y.pend = x.pend /\ y.snap = s
BY DEF Actors, ActorRecords, Orderly

Leased(x, n, m, s) == [x EXCEPT !.lease = n, !.timer = m, !.snap = s]

LEMMA LeaseFields ==
    ASSUME NEW x \in ActorRecords, NEW n \in Nat, NEW m \in Nat, NEW s \in Snaps
    PROVE  LET y == Leased(x, n, m, s)
           IN  /\ y \in ActorRecords /\ y.lease = n /\ y.timer = m /\ y.fired = x.fired
               /\ y.pc = x.pc /\ y.term = x.term /\ y.pend = x.pend /\ y.snap = s
BY DEF ActorRecords, Leased

LEMMA ArmFields ==
    ASSUME NEW x \in Actors
    PROVE  /\ Arm(x) \in Actors
           /\ Arm(x).pc = x.pc /\ Arm(x).term = x.term /\ Arm(x).pend = x.pend
           /\ Arm(x).snap = x.snap
<1>1. x \in ActorRecords /\ Orderly(x) /\ x.lease \in Nat BY ActorOf DEF Actors
<1>2. /\ Arm(x) \in ActorRecords /\ Arm(x).lease = x.lease + 1 /\ Arm(x).timer = x.lease + 1
      /\ Arm(x).fired = x.fired /\ Arm(x).pc = x.pc /\ Arm(x).term = x.term /\ Arm(x).pend = x.pend
      /\ Arm(x).snap = x.snap
  <2> DEFINE n == x.lease + 1
  <2>1. n \in Nat BY <1>1
  <2>2. Arm(x) = Leased(x, n, n, x.snap) BY <1>1 DEF Arm, ActorRecords, Leased
  <2>3. x.snap \in Snaps BY ActorOf
  <2> HIDE DEF n
  <2>4. /\ Arm(x) \in ActorRecords /\ Arm(x).lease = n /\ Arm(x).timer = n
        /\ Arm(x).fired = x.fired /\ Arm(x).pc = x.pc /\ Arm(x).term = x.term
        /\ Arm(x).pend = x.pend /\ Arm(x).snap = x.snap
    BY <1>1, <2>1, <2>2, <2>3, LeaseFields
  <2> QED BY <2>4 DEF n
<1>3. \A n \in x.fired : n \in Nat /\ n <= x.lease BY <1>1, ActorOf DEF Orderly
<1>4. (\A n \in x.fired : n <= x.lease + 1) /\ x.lease + 1 \notin x.fired BY <1>1, <1>3
<1> QED BY <1>1, <1>2, <1>4 DEF Actors, Orderly

LEMMA SetReadyFields ==
    ASSUME NEW x \in Actors, NEW r \in BOOLEAN
    PROVE  /\ SetReady(x, r) \in Actors
           /\ SetReady(x, r).pc = x.pc /\ SetReady(x, r).term = x.term
           /\ SetReady(x, r).pend = x.pend /\ SetReady(x, r).snap.j = x.snap.j
           /\ SetReady(x, r).snap.nat = r /\ SetReady(x, r).snap.own = x.snap.own
<1> DEFINE s == [x.snap EXCEPT !.nat = r]
           y == [x EXCEPT !.lease = @ + 1, !.timer = 0, !.snap.nat = r]
<1>1. x \in ActorRecords /\ Orderly(x) /\ x.lease \in Nat /\ x.snap \in Snaps BY ActorOf DEF Actors
<1>2. s \in Snaps /\ s.nat = r /\ s.j = x.snap.j /\ s.own = x.snap.own BY <1>1 DEF Snaps
<1>3. y = [x EXCEPT !.lease = x.lease + 1, !.timer = 0, !.snap = s] BY <1>1 DEF ActorRecords
<1> HIDE DEF s
<1>4. /\ y \in ActorRecords /\ y.lease = x.lease + 1 /\ y.timer = 0 /\ y.fired = x.fired
      /\ y.pc = x.pc /\ y.term = x.term /\ y.pend = x.pend /\ y.snap = s
  <2> DEFINE n == x.lease + 1
  <2>1. n \in Nat /\ 0 \in Nat BY <1>1
  <2>2. y = Leased(x, n, 0, s) BY <1>3 DEF Leased
  <2> HIDE DEF n, y
  <2>3. /\ y \in ActorRecords /\ y.lease = n /\ y.timer = 0 /\ y.fired = x.fired
        /\ y.pc = x.pc /\ y.term = x.term /\ y.pend = x.pend /\ y.snap = s
    <3>1. x \in ActorRecords /\ s \in Snaps BY <1>1, <1>2
    <3> QED BY <3>1, <2>1, <2>2, LeaseFields
  <2> QED BY <2>3 DEF n
<1>5. \A n \in x.fired : n \in Nat /\ n <= x.lease BY <1>1, ActorOf DEF Orderly
<1>6. \A n \in x.fired : n <= x.lease + 1 BY <1>1, <1>5
<1>7. y \in Actors BY <1>1, <1>4, <1>6 DEF Actors, Orderly
<1>8. SetReady(x, r) = IF r THEN Arm(y) ELSE y BY DEF SetReady
<1> HIDE DEF y
<1> QED BY <1>2, <1>4, <1>7, <1>8, ArmFields

LEMMA PendFields ==
    ASSUME NEW x \in Actors, NEW p \in Pends, x.term => p.cmd = 0, p.cmd = 0 => ~p.acked
    PROVE  LET y == [x EXCEPT !.pend = p]
           IN  /\ y \in Actors /\ y.pc = x.pc /\ y.term = x.term /\ y.pend = p /\ y.snap = x.snap
BY DEF Actors, ActorRecords, Orderly

LEMMA KnownFields ==
    ASSUME NEW x \in Actors, NEW S \in SUBSET Cmds
    PROVE  LET y == [x EXCEPT !.known = S]
           IN  /\ y \in Actors /\ y.pc = x.pc /\ y.term = x.term /\ y.pend = x.pend
               /\ y.snap = x.snap
BY DEF Actors, ActorRecords, Orderly

LEMMA ReadyFields ==
    ASSUME NEW x \in Actors, NEW r \in BOOLEAN
    PROVE  LET y == [x EXCEPT !.ready = r]
           IN  /\ y \in Actors /\ y.pc = x.pc /\ y.term = x.term /\ y.pend = x.pend
               /\ y.snap = x.snap
BY DEF Actors, ActorRecords, Orderly

---------------------------------------------------------------------------
(* Messages and records *)

LEMMA QueueTail ==
    ASSUME NEW S, NEW q \in [Gens -> Seq(S)], NEW g \in Gens, q[g] # <<>>
    PROVE  /\ [q EXCEPT ![g] = Tail(@)] \in [Gens -> Seq(S)]
           /\ [q EXCEPT ![g] = Tail(@)] # q
           /\ Head(q[g]) \in S
<1>1. q[g] \in Seq(S) OBVIOUS
<1>2. Tail(q[g]) \in Seq(S) /\ Head(q[g]) \in S /\ Len(Tail(q[g])) = Len(q[g]) - 1 /\ Len(q[g]) \in Nat
  BY <1>1
<1>3. ASSUME Tail(q[g]) = q[g] PROVE FALSE
  <2> DEFINE n == Len(q[g])
             m == Len(Tail(q[g]))
  <2>1. n \in Nat /\ m = n - 1 BY <1>2
  <2>2. m = n BY <1>3
  <2> HIDE DEF n, m
  <2> QED BY <2>1, <2>2
<1>4. [q EXCEPT ![g] = Tail(@)][g] = Tail(q[g]) OBVIOUS
<1> QED BY <1>2, <1>3, <1>4

LEMMA QueueSend ==
    ASSUME NEW S, NEW q \in [Gens -> Seq(S)], NEW g \in Gens, NEW m \in S
    PROVE  Send(q, g, m) \in [Gens -> Seq(S)]
<1>1. q[g] \in Seq(S) /\ Append(q[g], m) \in Seq(S) OBVIOUS
<1> QED BY <1>1 DEF Send

LEMMA QueueClear ==
    ASSUME NEW S, NEW q \in [Gens -> Seq(S)], NEW g \in Gens
    PROVE  [q EXCEPT ![g] = <<>>] \in [Gens -> Seq(S)]
<1>1. <<>> \in Seq(S) OBVIOUS
<1> QED BY <1>1

LEMMA MessageTyped ==
    /\ \A of \in {"hello", "snap", "hb", "upd"} : Msg("ack", of) \in Orders
    /\ \A c \in Cmds : /\ Msg("cmd", c) \in Orders /\ Msg("ack", c) \in Reports
                       /\ Msg("open", c) \in Updates
    /\ \A c \in Names : Msg("done", c) \in Updates
    /\ Msg("hello", 0) \in Reports
    /\ \A s \in Snaps : /\ [Msg("snap", 0) EXCEPT !.s = s] \in Reports
                        /\ [Msg("hb", 0) EXCEPT !.s = s] \in Reports
BY NothingSnap DEF Msg, Orders, Reports, Updates

LEMMA ReportOf ==
    ASSUME NEW m \in Reports
    PROVE  /\ m.s \in Snaps /\ m.s.nat \in BOOLEAN /\ m.s.own \in Intents /\ m.of \in Names
           /\ m.t \in {"open", "ack"} => m.of \in Cmds
BY DEF Reports, Updates, Snaps, Names

LEMMA BrokerOf ==
    ASSUME b \in Brokers
    PROVE  /\ b.session \in Generations /\ b.projected \in Generations /\ b.capture \in Captures
           /\ b.seq \in Nat /\ b.inFlight \in Generations /\ b.disc \in Generations
           /\ b.derr \in BOOLEAN /\ b.closed \in BOOLEAN /\ b.lock \in Generations
           /\ b.gen \in Generations /\ b.capture.g \in Generations
BY DEF Brokers, Captures

LEMMA StoreOf ==
    ASSUME db \in Stores
    PROVE  /\ db.snap \in Snaps /\ db.gen \in Generations /\ db.issued \in SUBSET Cmds
           /\ db.open \in SUBSET Names /\ db.done \in BOOLEAN
           /\ db.snap.nat \in BOOLEAN /\ db.snap.own \in Intents /\ db.snap.j \in Journals
BY DEF Stores, Snaps

LEMMA StoreSnap ==
    ASSUME db \in Stores, NEW s \in Snaps
    PROVE  LET d == [db EXCEPT !.snap = s] IN d \in Stores /\ d.gen = db.gen
BY DEF Stores

LEMMA StoreReadiness ==
    ASSUME db \in Stores, NEW n \in BOOLEAN, NEW o \in Intents
    PROVE  LET d == [db EXCEPT !.snap.nat = n, !.snap.own = o] IN d \in Stores /\ d.gen = db.gen
<1> DEFINE s == [db.snap EXCEPT !.nat = n, !.own = o]
<1>1. s \in Snaps BY StoreOf DEF Snaps
<1>2. [db EXCEPT !.snap.nat = n, !.snap.own = o] = [db EXCEPT !.snap = s] BY DEF Stores
<1> HIDE DEF s
<1> QED BY <1>1, <1>2, StoreSnap

LEMMA StoreWithdrawn ==
    ASSUME db \in Stores
    PROVE  LET d == [db EXCEPT !.snap.nat = FALSE] IN d \in Stores /\ d.gen = db.gen
<1> DEFINE s == [db.snap EXCEPT !.nat = FALSE]
<1>1. s \in Snaps BY StoreOf DEF Snaps
<1>2. [db EXCEPT !.snap.nat = FALSE] = [db EXCEPT !.snap = s] BY DEF Stores
<1> HIDE DEF s
<1> QED BY <1>1, <1>2, StoreSnap

---------------------------------------------------------------------------
(* Steps *)

\* An actor keeps its place in the projection, gets no new pending command, and
\* its readiness is not withdrawn while its timer runs.
Calm(x, y) ==
    /\ y.pc = x.pc \/ {x.pc, y.pc} \cap {"locked", "stored"} = {}
    /\ x.pc = "none" => y.pc = "none"
    /\ y.pend.cmd \in {0, x.pend.cmd}
Steady(x, y) == x.timer # 0 /\ x.snap.nat /\ ~y.term => y.snap.nat

Still == /\ b'.lock = b.lock /\ b'.projected = b.projected /\ b'.inFlight = b.inFlight
         /\ b'.closed = b.closed /\ b'.gen = b.gen /\ db'.gen = db.gen
Calmly == \A h \in Gens : Calm(act[h], act'[h])
NoDispatch == \A k \in Callers : call'[k] = call[k] \/ {call[k].pc, call'[k].pc} \cap Under = {}
Renewed == toC' = toC => \A h \in Gens : Steady(act[h], act'[h])
Quiet == Typed' /\ Still /\ Calmly /\ NoDispatch /\ Renewed

\* Projections stay in their places.
LEMMA ProjectingKeeps ==
    ASSUME Projecting, b'.lock = b.lock, b'.projected = b.projected, b.closed => b'.closed,
           db'.gen = db.gen,
           \A h \in Gens : \/ act'[h].pc = act[h].pc
                          \/ {act[h].pc, act'[h].pc} \cap {"locked", "stored"} = {}
    PROVE  Projecting'
<1>1. \A h \in Gens : act'[h].pc \in {"locked", "stored"} <=> act[h].pc \in {"locked", "stored"}
  OBVIOUS
<1>2. \A h \in Gens : act'[h].pc \in {"locked", "stored"} => act'[h].pc = act[h].pc OBVIOUS
<1> QED BY <1>1, <1>2 DEF Projecting

\* A dispatch moves on, or out of the dispatch, and takes its pending command
\* with it.
LEMMA DispatchingMoves ==
    ASSUME Dispatching, b'.lock = b.lock, b'.projected = b.projected, b'.inFlight = b.inFlight,
           \A o \in Callers : call'[o].pc \in Under => call[o].pc \in Under /\ call'[o].g = call[o].g,
           \A h \in Gens : act'[h].pend.cmd # 0 =>
             \E o \in Callers : /\ call'[o].pc \in {"write", "wait"} /\ call'[o].g = h
                                /\ call'[o].cmd = act'[h].pend.cmd
    PROVE  Dispatching'
BY DEF Dispatching

LEMMA QuietKeeps == ASSUME Inv, Quiet PROVE Inv'
<1> USE DEF Inv, Quiet
<1>1. Typed' OBVIOUS
<1>2. Projecting'
  <2>1. \A h \in Gens : \/ act'[h].pc = act[h].pc
                       \/ {act[h].pc, act'[h].pc} \cap {"locked", "stored"} = {}
    BY DEF Calmly, Calm
  <2> QED BY <2>1, ProjectingKeeps DEF Still
<1>3. ASSUME ~b'.closed PROVE Dispatching'
  <2>1. Dispatching BY <1>3 DEF Still
  <2>2. \A k \in Callers : (call'[k].pc \in Under \/ call[k].pc \in Under) => call'[k] = call[k]
    BY DEF NoDispatch
  <2>3. ASSUME NEW g \in Gens, act'[g].pend.cmd # 0
        PROVE  \E k \in Callers : /\ call'[k].pc \in {"write", "wait"} /\ call'[k].g = g
                                  /\ call'[k].cmd = act'[g].pend.cmd
    <3>1. act[g].pend.cmd # 0 /\ act'[g].pend.cmd = act[g].pend.cmd BY <2>3 DEF Calmly, Calm
    <3>2. PICK k \in Callers : /\ call[k].pc \in {"write", "wait"} /\ call[k].g = g
                               /\ call[k].cmd = act[g].pend.cmd
      BY <2>1, <3>1 DEF Dispatching
    <3>3. call'[k] = call[k] BY <2>2, <3>2 DEF Under
    <3> QED BY <3>1, <3>2, <3>3
  <2> QED BY <2>1, <2>2, <2>3, DispatchingMoves DEF Still
<1>4. Numbered' BY DEF Numbered, Still, Calmly, Calm
<1> QED BY <1>1, <1>2, <1>3, <1>4

LEMMA OneActor ==
    ASSUME Typed, NEW g \in Gens, NEW y \in Actors, act' = [act EXCEPT ![g] = y]
    PROVE  /\ act' \in [Gens -> Actors] /\ act'[g] = y
           /\ \A h \in Gens : h # g => act'[h] = act[h]
BY DEF Typed

LEMMA OneCalm ==
    ASSUME Typed, NEW g \in Gens, NEW y \in Actors, act' = [act EXCEPT ![g] = y],
           Calm(act[g], y)
    PROVE  /\ act' \in [Gens -> Actors] /\ Calmly
           /\ Steady(act[g], y) => \A h \in Gens : Steady(act[h], act'[h])
           /\ act'[g] = y /\ act[g] \in Actors
<1>1. act \in [Gens -> Actors] BY DEF Typed
<1>2. \A h \in Gens : h # g => act'[h] = act[h] BY OneActor
<1>3. act'[g] = y /\ act' \in [Gens -> Actors] BY OneActor
<1> QED BY <1>1, <1>2, <1>3 DEF Calmly, Calm, Steady

\* The steps of the Agent leave the Controller alone.
LEMMA OtherQuiet ==
    ASSUME Typed, Typed', UNCHANGED <<b, act, call, db>>
    PROVE  Quiet
<1>1. Still BY DEF Still
<1>2. Calmly BY DEF Calmly, Calm
<1>3. NoDispatch BY DEF NoDispatch
<1>4. Renewed BY DEF Renewed, Steady
<1> QED BY <1>1, <1>2, <1>3, <1>4 DEF Quiet

---------------------------------------------------------------------------
(* Sessions: the steps that project nothing *)

LEMMA ReadHelloQuiet == ASSUME Typed, NEW g \in Gens, ReadHello(g) PROVE Quiet
<1> DEFINE refused == b.closed \/ b.disc # 0 \/ ~Supersedes(g) \/ b.capture.g >= g
<1>0. /\ act[g].pc = "hello" /\ toC[g] # <<>> /\ toC' = [toC EXCEPT ![g] = Tail(@)]
      /\ UNCHANGED <<call, db, ag, up>>
  BY DEF ReadHello
<1>1. /\ act \in [Gens -> Actors] /\ b \in Brokers /\ toC \in [Gens -> Seq(Reports)]
      /\ toA \in [Gens -> Seq(Orders)]
  BY DEF Typed
<1>2. toC' \in [Gens -> Seq(Reports)] /\ toC' # toC BY <1>0, <1>1, QueueTail
<1>3. NoDispatch BY <1>0 DEF NoDispatch
<1>4. Renewed BY <1>2 DEF Renewed
<1>5. act' \in [Gens -> Actors] /\ Calmly /\ b' \in Brokers /\ Still /\ toA' \in [Gens -> Seq(Orders)]
  <2>1. CASE refused
    <3>1. act' = [act EXCEPT ![g] = EndReader(act[g])] /\ UNCHANGED <<b, toA>>
      BY <2>1 DEF ReadHello
    <3>2. act[g] \in Actors /\ EndReader(act[g]) \in Actors /\ Calm(act[g], EndReader(act[g]))
      BY <1>0, <1>1, EndReaderFields DEF Calm
    <3>3. act' \in [Gens -> Actors] /\ Calmly BY <3>1, <3>2, OneCalm
    <3>4. Still BY <1>0, <3>1 DEF Still
    <3> QED BY <1>1, <3>1, <3>3, <3>4
  <2>2. CASE ~refused
    <3> DEFINE cap == [g |-> g, seq |-> b.seq, busy |-> b.inFlight # 0]
    <3>1. /\ b' = [b EXCEPT !.capture = cap]
          /\ act' = [h \in Gens |-> IF h = g THEN [act[h] EXCEPT !.pc = "captured"]
                                    ELSE IF h = b.capture.g THEN Terminate(act[h]) ELSE act[h]]
          /\ toA' = Send(toA, g, Msg("ack", "hello"))
      BY <2>2 DEF ReadHello
    <3>2. cap \in Captures BY <1>1, BrokerOf, Gen DEF Captures
    <3> HIDE DEF cap
    <3>3. b' \in Brokers /\ Still BY <1>0, <1>1, <3>1, <3>2 DEF Brokers, Still
    <3>4. "captured" \in Phases BY DEF Phases
    <3>5. ASSUME NEW h \in Gens PROVE act'[h] \in Actors /\ Calm(act[h], act'[h])
      <4>1. act[h] \in Actors BY <1>1
      <4>2. CASE h = g
        BY <1>0, <3>1, <3>4, <4>1, <4>2, PhaseFields DEF Calm
      <4>3. CASE h # g /\ h = b.capture.g
        BY <3>1, <4>1, <4>3, TerminateFields DEF Calm
      <4>4. CASE h # g /\ h # b.capture.g
        BY <3>1, <4>1, <4>4 DEF Calm
      <4> QED BY <4>2, <4>3, <4>4
    <3>6. toA' \in [Gens -> Seq(Orders)] BY <1>1, <3>1, MessageTyped, QueueSend
    <3>7. act' \in [Gens -> Actors] BY <3>1, <3>5
    <3> QED BY <3>3, <3>5, <3>6, <3>7 DEF Calmly
  <2> QED BY <2>1, <2>2
<1>6. Typed' BY <1>0, <1>2, <1>5 DEF Typed
<1> QED BY <1>3, <1>4, <1>5, <1>6 DEF Quiet

LEMMA MarkReadyQuiet == ASSUME Typed, NEW g \in Gens, MarkReady(g) PROVE Quiet
<1>0. act[g].pc = "active" /\ UNCHANGED <<call, db, ag, up, toC>> BY DEF MarkReady
<1>1. act \in [Gens -> Actors] /\ b \in Brokers /\ toA \in [Gens -> Seq(Orders)] /\ act[g] \in Actors
  BY DEF Typed
<1>3. NoDispatch BY <1>0 DEF NoDispatch
<1>5. /\ act' \in [Gens -> Actors] /\ Calmly /\ b' \in Brokers /\ Still
      /\ toA' \in [Gens -> Seq(Orders)] /\ Renewed
  <2>1. CASE act' = [act EXCEPT ![g] = EndReader(@)] /\ UNCHANGED <<b, toA>>
    <3>2. EndReader(act[g]) \in Actors /\ Calm(act[g], EndReader(act[g])) /\ Steady(act[g], EndReader(act[g]))
      BY <1>0, <1>1, EndReaderFields DEF Calm, Steady
    <3>3. act' \in [Gens -> Actors] /\ Calmly /\ Renewed BY <2>1, <3>2, OneCalm DEF Renewed
    <3>4. Still BY <1>0, <2>1 DEF Still
    <3> QED BY <1>1, <2>1, <3>3, <3>4
  <2>2. CASE /\ act' = [act EXCEPT ![g].pc = "run", ![g].ready = TRUE]
             /\ toA' = Send(toA, g, Msg("ack", "snap")) /\ b' = [b EXCEPT !.derr = FALSE]
    <3> DEFINE x == [act[g] EXCEPT !.pc = "run"]
               y == [x EXCEPT !.ready = TRUE]
    <3>1. act' = [act EXCEPT ![g] = y] BY <1>1, <2>2
    <3>2. "run" \in Phases BY DEF Phases
    <3>3. x \in Actors /\ x.pc = "run" /\ x.pend = act[g].pend /\ x.snap = act[g].snap
      BY <1>1, <3>2, PhaseFields
    <3> HIDE DEF x
    <3>4. y \in Actors /\ y.pc = "run" /\ y.pend = act[g].pend /\ y.snap = act[g].snap
      BY <3>3, ReadyFields
    <3> HIDE DEF y
    <3>5. Calm(act[g], y) /\ Steady(act[g], y) BY <1>0, <3>4 DEF Calm, Steady
    <3>6. act' \in [Gens -> Actors] /\ Calmly /\ Renewed BY <3>1, <3>4, <3>5, OneCalm DEF Renewed
    <3>7. b' \in Brokers /\ Still BY <1>0, <1>1, <2>2 DEF Brokers, Still
    <3>8. toA' \in [Gens -> Seq(Orders)] BY <1>1, <2>2, MessageTyped, QueueSend
    <3> QED BY <3>6, <3>7, <3>8
  <2> QED BY <2>1, <2>2 DEF MarkReady
<1>6. Typed' BY <1>0, <1>5 DEF Typed
<1> QED BY <1>0, <1>3, <1>5, <1>6 DEF Quiet

LEMMA HandleHeartbeatQuiet == ASSUME Typed, NEW g \in Gens, HandleHeartbeat(g) PROVE Quiet
<1> DEFINE m == Head(toC[g]).s
           x == act[g]
<1>0. /\ act[g].pc = "run" /\ toC[g] # <<>> /\ toC' = [toC EXCEPT ![g] = Tail(@)]
      /\ UNCHANGED <<b, call, ag, up>>
  BY DEF HandleHeartbeat
<1>1. /\ act \in [Gens -> Actors] /\ b \in Brokers /\ toC \in [Gens -> Seq(Reports)]
      /\ toA \in [Gens -> Seq(Orders)] /\ x \in Actors /\ db \in Stores
  BY DEF Typed
<1>2. toC' \in [Gens -> Seq(Reports)] /\ toC' # toC /\ m \in Snaps /\ m.nat \in BOOLEAN /\ m.own \in Intents
  BY <1>0, <1>1, QueueTail, ReportOf
<1>3. NoDispatch BY <1>0 DEF NoDispatch
<1>4. Renewed BY <1>2 DEF Renewed
<1> DEFINE r == IF x.snap.nat # m.nat THEN SetReady(x, m.nat) ELSE IF m.nat THEN Arm(x) ELSE x
           y == [r EXCEPT !.snap.own = m.own]
<1>5. /\ act' \in [Gens -> Actors] /\ Calmly /\ db' \in Stores /\ db'.gen = db.gen
      /\ toA' \in [Gens -> Seq(Orders)]
  <2>1. CASE act' = [act EXCEPT ![g] = EndReader(@)] /\ UNCHANGED <<db, toA>>
    <3>2. EndReader(act[g]) \in Actors /\ Calm(act[g], EndReader(act[g]))
      BY <1>0, <1>1, EndReaderFields DEF Calm
    <3>3. act' \in [Gens -> Actors] /\ Calmly BY <2>1, <3>2, OneCalm
    <3> QED BY <1>1, <2>1, <3>3
  <2>2. CASE /\ db' = [db EXCEPT !.snap.nat = IF x.snap.nat # m.nat THEN m.nat ELSE @,
                                 !.snap.own = AdoptOwnerState(@, x, m)]
             /\ act' = [act EXCEPT ![g] = y]
             /\ toA' = Send(toA, g, Msg("ack", "hb"))
    <3>1. r \in Actors /\ r.pc = x.pc /\ r.pend = x.pend
      BY <1>1, <1>2, SetReadyFields, ArmFields
    <3>2. y \in Actors /\ y.pc = x.pc /\ y.pend = x.pend
      <4> DEFINE s == [r.snap EXCEPT !.own = m.own]
      <4> HIDE DEF r, m
      <4>1. s \in Snaps BY <1>2, <3>1, ActorOf DEF Snaps
      <4>2. y = [r EXCEPT !.snap = s] OBVIOUS
      <4> HIDE DEF s
      <4> QED BY <3>1, <4>1, <4>2, SnapFields
    <3> HIDE DEF y
    <3>3. Calm(x, y) BY <3>2 DEF Calm
    <3>4. act' \in [Gens -> Actors] /\ Calmly BY <2>2, <3>2, <3>3, OneCalm
    <3>5. db' \in Stores /\ db'.gen = db.gen
      <4> DEFINE n == IF x.snap.nat # m.nat THEN m.nat ELSE db.snap.nat
                 o == AdoptOwnerState(db.snap.own, x, m)
      <4>1. n \in BOOLEAN /\ o \in Intents BY <1>1, <1>2, StoreOf DEF AdoptOwnerState
      <4>2. db' = [db EXCEPT !.snap.nat = n, !.snap.own = o]
        <5>1. [[db EXCEPT !.snap.nat = n].snap EXCEPT !.own = o] = [[db.snap EXCEPT !.nat = n] EXCEPT !.own = o]
          BY <1>1 DEF Stores
        <5>2. [db EXCEPT !.snap.nat = n].snap.own = db.snap.own BY <1>1, StoreOf DEF Stores, Snaps
        <5> QED BY <2>2, <5>2
      <4> HIDE DEF n, o
      <4> QED BY <1>1, <4>1, <4>2, StoreReadiness
    <3>6. toA' \in [Gens -> Seq(Orders)] BY <1>1, <2>2, MessageTyped, QueueSend
    <3> QED BY <3>4, <3>5, <3>6
  <2> QED BY <2>1, <2>2 DEF HandleHeartbeat
<1>6. Still BY <1>0, <1>5 DEF Still
<1>7. Typed' BY <1>0, <1>1, <1>2, <1>5 DEF Typed
<1> QED BY <1>3, <1>4, <1>5, <1>6, <1>7 DEF Quiet

LEMMA FiredFields ==
    ASSUME NEW x \in Actors, NEW F \in SUBSET Nat, \A n \in F : n <= x.lease, NEW t \in {0, x.timer},
           t # 0 => t \notin F
    PROVE  LET y == [x EXCEPT !.fired = F, !.timer = t]
           IN  /\ y \in Actors /\ y.pc = x.pc /\ y.term = x.term /\ y.pend = x.pend
               /\ y.snap = x.snap
<1> DEFINE y == [x EXCEPT !.fired = F, !.timer = t]
<1>1. x \in ActorRecords /\ Orderly(x) /\ t \in Nat BY ActorOf DEF Actors
<1>2. /\ y \in ActorRecords /\ y.fired = F /\ y.timer = t /\ y.lease = x.lease /\ y.pc = x.pc
      /\ y.term = x.term /\ y.pend = x.pend /\ y.snap = x.snap
  BY <1>1 DEF ActorRecords
<1> HIDE DEF y
<1>3. Orderly(y) BY <1>1, <1>2 DEF Orderly
<1>4. y \in Actors BY <1>2, <1>3 DEF Actors
<1> QED BY <1>2, <1>4 DEF y

LEMMA LeaseElapsesQuiet == ASSUME Typed, NEW g \in Gens, LeaseElapses(g) PROVE Quiet
<1> DEFINE F == act[g].fired \cup {act[g].timer}
           y == [act[g] EXCEPT !.fired = F, !.timer = 0]
<1>0. act[g].timer # 0 /\ act' = [act EXCEPT ![g] = y] /\ UNCHANGED <<b, call, db, ag, up, toC, toA>>
  BY DEF LeaseElapses
<1>1. act[g] \in Actors BY DEF Typed
<1>2. F \in SUBSET Nat /\ \A n \in F : n <= act[g].lease BY <1>0, <1>1, ActorOf DEF Orderly
<1> HIDE DEF F
<1>3. /\ y \in Actors /\ y.pc = act[g].pc /\ y.term = act[g].term /\ y.pend = act[g].pend
      /\ y.snap = act[g].snap
  BY <1>1, <1>2, FiredFields
<1> HIDE DEF y
<1>4. Calm(act[g], y) /\ Steady(act[g], y) BY <1>3 DEF Calm, Steady
<1>5. act' \in [Gens -> Actors] /\ Calmly /\ Renewed BY <1>0, <1>3, <1>4, OneCalm DEF Renewed
<1>6. Typed' BY <1>0, <1>5 DEF Typed
<1>7. Still /\ NoDispatch BY <1>0 DEF Still, NoDispatch
<1> QED BY <1>5, <1>6, <1>7 DEF Quiet

\* A timer that fires for the current lease is not running any more.
LEMMA ExpireReadinessQuiet == ASSUME Typed, NEW g \in Gens, ExpireReadiness(g) PROVE Quiet
<1>0. UNCHANGED <<b, call, ag, up, toC, toA>> BY DEF ExpireReadiness
<1>1. act[g] \in Actors /\ db \in Stores BY DEF Typed
<1>2. PICK n \in act[g].fired :
        LET x == [act[g] EXCEPT !.fired = @ \ {n}] IN
         IF ~Current(g) \/ ~LeaseIs(g, n) \/ ~x.snap.nat
         THEN act' = [act EXCEPT ![g] = x] /\ UNCHANGED <<db, events>>
         ELSE \/ /\ Digest(db.snap) = Digest(x.snap)
                 /\ act' = [act EXCEPT ![g] = SetReady(x, FALSE)]
                 /\ db' = [db EXCEPT !.snap.nat = FALSE] /\ UNCHANGED events
              \/ /\ Event
                 /\ act' = [act EXCEPT ![g] = Terminate(SetReady(x, FALSE))] /\ UNCHANGED db
  BY DEF ExpireReadiness
<1> DEFINE x == [act[g] EXCEPT !.fired = @ \ {n}]
<1>3. /\ x \in Actors /\ x.pc = act[g].pc /\ x.term = act[g].term /\ x.pend = act[g].pend
      /\ x.snap = act[g].snap
  <2> DEFINE F == act[g].fired \ {n}
  <2>1. /\ F \in SUBSET Nat /\ (\A i \in F : i <= act[g].lease)
        /\ (act[g].timer # 0 => act[g].timer \notin F)
    BY <1>1, ActorOf DEF Orderly
  <2>2. x = [act[g] EXCEPT !.fired = F, !.timer = act[g].timer] BY <1>1 DEF Actors, ActorRecords
  <2> HIDE DEF F, x
  <2> QED BY <1>1, <2>1, <2>2, FiredFields
<1>4. \E y \in Actors : /\ act' = [act EXCEPT ![g] = y] /\ Calm(act[g], y) /\ Steady(act[g], y)
                        /\ db' \in Stores /\ db'.gen = db.gen
  <2>1. CASE ~Current(g) \/ ~LeaseIs(g, n) \/ ~x.snap.nat
    <3>1. act' = [act EXCEPT ![g] = x] /\ db' = db BY <1>2, <2>1
    <3> HIDE DEF x
    <3>2. Calm(act[g], x) /\ Steady(act[g], x) BY <1>3 DEF Calm, Steady
    <3> QED BY <1>1, <1>3, <3>1, <3>2
  <2>2. CASE ~(~Current(g) \/ ~LeaseIs(g, n) \/ ~x.snap.nat)
    <3>1. act[g].timer = 0 BY <1>1, <2>2, ActorOf DEF LeaseIs, Orderly
    <3>2. \/ act' = [act EXCEPT ![g] = SetReady(x, FALSE)] /\ db' = [db EXCEPT !.snap.nat = FALSE]
          \/ act' = [act EXCEPT ![g] = Terminate(SetReady(x, FALSE))] /\ db' = db
      BY <1>2, <2>2
    <3> HIDE DEF x
    <3> DEFINE y == SetReady(x, FALSE)
               z == Terminate(y)
    <3>3. y \in Actors /\ y.pc = act[g].pc /\ y.pend = act[g].pend BY <1>3, SetReadyFields
    <3> HIDE DEF y
    <3>4. z \in Actors /\ z.pc = act[g].pc /\ z.pend.cmd = 0 BY <3>3, TerminateFields
    <3> HIDE DEF z
    <3>5. Calm(act[g], y) /\ Steady(act[g], y) /\ Calm(act[g], z) /\ Steady(act[g], z)
      BY <3>1, <3>3, <3>4 DEF Calm, Steady
    <3>6. CASE act' = [act EXCEPT ![g] = y] /\ db' = [db EXCEPT !.snap.nat = FALSE]
      BY <1>1, <3>3, <3>5, <3>6, StoreWithdrawn
    <3>7. CASE act' = [act EXCEPT ![g] = z] /\ db' = db
      BY <1>1, <3>4, <3>5, <3>7
    <3> QED BY <3>2, <3>6, <3>7 DEF y, z
  <2> QED BY <2>1, <2>2
<1>5. act' \in [Gens -> Actors] /\ Calmly /\ Renewed /\ db' \in Stores /\ db'.gen = db.gen
  BY <1>0, <1>4, OneCalm DEF Renewed
<1>6. Typed' BY <1>0, <1>5 DEF Typed
<1>7. Still /\ NoDispatch BY <1>0, <1>5 DEF Still, NoDispatch
<1> QED BY <1>5, <1>6, <1>7 DEF Quiet

LEMMA HandleCommandAckQuiet == ASSUME Typed, NEW g \in Gens, HandleCommandAck(g) PROVE Quiet
<1> DEFINE m == Head(toC[g])
           mine == act[g].pend.cmd = m.of /\ ~act[g].pend.acked
<1>0. /\ act[g].pc = "run" /\ toC[g] # <<>> /\ m.t = "ack" /\ ~act[g].term
      /\ toC' = [toC EXCEPT ![g] = Tail(@)] /\ UNCHANGED <<b, call, db, ag, up, toA>>
      /\ act' = [act EXCEPT ![g] = IF mine THEN [act[g] EXCEPT !.pend.acked = TRUE] ELSE EndReader(act[g])]
  BY DEF HandleCommandAck
<1>1. act[g] \in Actors /\ toC \in [Gens -> Seq(Reports)] BY DEF Typed
<1>2. toC' \in [Gens -> Seq(Reports)] /\ toC' # toC /\ m \in Reports BY <1>0, <1>1, QueueTail
<1>3. m.of \in Cmds BY <1>0, <1>2, ReportOf
<1>4. \E y \in Actors : act' = [act EXCEPT ![g] = y] /\ Calm(act[g], y)
  <2>1. CASE mine
    <3> DEFINE p == [act[g].pend EXCEPT !.acked = TRUE]
               y == [act[g] EXCEPT !.pend = p]
    <3>1. act' = [act EXCEPT ![g] = y] BY <1>0, <2>1
    <3>2. act[g].pend.cmd # 0 /\ act[g].pend \in Pends BY <1>1, <1>3, <2>1, Cmd, ActorOf
    <3>3. p \in Pends /\ p.cmd = act[g].pend.cmd BY <3>2 DEF Pends
    <3> HIDE DEF p
    <3>4. y \in Actors /\ y.pc = act[g].pc /\ y.pend = p BY <1>0, <1>1, <3>2, <3>3, PendFields
    <3> HIDE DEF y
    <3>5. Calm(act[g], y) BY <1>0, <3>3, <3>4 DEF Calm
    <3> QED BY <3>1, <3>4, <3>5
  <2>2. CASE ~mine
    <3>1. EndReader(act[g]) \in Actors /\ Calm(act[g], EndReader(act[g]))
      BY <1>0, <1>1, EndReaderFields DEF Calm
    <3> QED BY <1>0, <2>2, <3>1
  <2> QED BY <2>1, <2>2
<1>5. act' \in [Gens -> Actors] /\ Calmly BY <1>4, OneCalm
<1>6. Typed' BY <1>0, <1>2, <1>5 DEF Typed
<1>7. Still /\ NoDispatch /\ Renewed BY <1>0, <1>2 DEF Still, NoDispatch, Renewed
<1> QED BY <1>5, <1>6, <1>7 DEF Quiet

LEMMA ReadFailsQuiet == ASSUME Typed, NEW g \in Gens, ReadFails(g) PROVE Quiet
<1>0. /\ act[g].pc \in {"hello", "captured", "run"} /\ act' = [act EXCEPT ![g] = EndReader(act[g])]
      /\ UNCHANGED <<b, call, db, ag, up, toC, toA>>
  BY DEF ReadFails
<1>1. act[g] \in Actors BY DEF Typed
<1>2. /\ EndReader(act[g]) \in Actors /\ Calm(act[g], EndReader(act[g]))
      /\ Steady(act[g], EndReader(act[g]))
  BY <1>0, <1>1, EndReaderFields DEF Calm, Steady
<1>3. act' \in [Gens -> Actors] /\ Calmly /\ Renewed BY <1>0, <1>2, OneCalm DEF Renewed
<1>4. Typed' BY <1>0, <1>3 DEF Typed
<1>5. Still /\ NoDispatch BY <1>0 DEF Still, NoDispatch
<1> QED BY <1>3, <1>4, <1>5 DEF Quiet

LEMMA EndSnapshotCaptureQuiet == ASSUME Typed, NEW g \in Gens, EndSnapshotCapture(g) PROVE Quiet
<1> DEFINE y == [act[g] EXCEPT !.pc = "uncap"]
<1>0. /\ act[g].pc = "ret" /\ act' = [act EXCEPT ![g] = y] /\ toC' = [toC EXCEPT ![g] = <<>>]
      /\ b' = [b EXCEPT !.capture = IF b.capture.g = g THEN NoCapture ELSE b.capture]
      /\ UNCHANGED <<call, db, ag, up, toA>>
  BY DEF EndSnapshotCapture
<1>1. act[g] \in Actors /\ b \in Brokers /\ toC \in [Gens -> Seq(Reports)] BY DEF Typed
<1>2. "uncap" \in Phases BY DEF Phases
<1>3. y \in Actors /\ y.pc = "uncap" /\ y.pend = act[g].pend /\ y.snap = act[g].snap
  BY <1>1, <1>2, PhaseFields
<1> HIDE DEF y
<1>4. Calm(act[g], y) /\ Steady(act[g], y) BY <1>0, <1>3 DEF Calm, Steady
<1>5. act' \in [Gens -> Actors] /\ Calmly /\ Renewed BY <1>0, <1>3, <1>4, OneCalm DEF Renewed
<1>6. b' \in Brokers /\ Still BY <1>0, <1>1, FreshRecords DEF Brokers, Still
<1>7. toC' \in [Gens -> Seq(Reports)] BY <1>0, <1>1, QueueClear
<1>8. Typed' BY <1>0, <1>5, <1>6, <1>7 DEF Typed
<1>9. NoDispatch BY <1>0 DEF NoDispatch
<1> QED BY <1>5, <1>6, <1>8, <1>9 DEF Quiet

LEMMA DeactivateQuiet == ASSUME Typed, NEW g \in Gens, Deactivate(g) PROVE Quiet
<1> DEFINE mine == b.session = g
           y == IF mine /\ MayDisconnect(g) THEN [act[g] EXCEPT !.pc = "disc"] ELSE Gone
<1>0. /\ act[g].pc = "uncap" /\ act' = [act EXCEPT ![g] = y]
      /\ b' = [b EXCEPT !.session = IF mine THEN 0 ELSE b.session,
                         !.disc = IF mine /\ MayDisconnect(g) THEN g ELSE b.disc,
                         !.derr = IF mine /\ b.disc # 0 THEN TRUE ELSE b.derr]
      /\ UNCHANGED <<call, db, ag, up, toC, toA>>
  BY DEF Deactivate
<1>1. act[g] \in Actors /\ b \in Brokers /\ g \in Generations BY Gen DEF Typed
<1>2. "disc" \in Phases BY DEF Phases
<1>3. y \in Actors /\ Calm(act[g], y) /\ Steady(act[g], y)
  <2>1. CASE mine /\ MayDisconnect(g)
    BY <1>0, <1>1, <1>2, <2>1, PhaseFields DEF Calm, Steady
  <2>2. CASE ~(mine /\ MayDisconnect(g))
    BY <1>0, <1>1, <2>2, Fresh DEF Calm, Steady
  <2> QED BY <2>1, <2>2
<1> HIDE DEF y
<1>5. act' \in [Gens -> Actors] /\ Calmly /\ Renewed BY <1>0, <1>3, OneCalm DEF Renewed
<1>6. b' \in Brokers /\ Still BY <1>0, <1>1, Gen DEF Brokers, Still
<1>8. Typed' BY <1>0, <1>5, <1>6 DEF Typed
<1>9. NoDispatch BY <1>0 DEF NoDispatch
<1> QED BY <1>5, <1>6, <1>8, <1>9 DEF Quiet

LEMMA CommitDisconnectQuiet == ASSUME Typed, NEW g \in Gens, CommitDisconnect(g) PROVE Quiet
<1>0. act[g].pc = "disc" /\ UNCHANGED <<b, call, ag, up, toC, toA>> BY DEF CommitDisconnect
<1>1. act[g] \in Actors /\ db \in Stores BY DEF Typed
<1>2. PICK p \in {"withdrawn", "kept"} :
        act' = [act EXCEPT ![g].pc = p] /\ (db' = db \/ db' = [db EXCEPT !.snap.nat = FALSE])
  BY DEF CommitDisconnect
<1> DEFINE y == [act[g] EXCEPT !.pc = p]
<1>3. p \in Phases BY DEF Phases
<1>4. y \in Actors /\ y.pc = p /\ y.pend = act[g].pend /\ y.snap = act[g].snap
  BY <1>1, <1>3, PhaseFields
<1>5. act' = [act EXCEPT ![g] = y] BY <1>2
<1> HIDE DEF y
<1>6. Calm(act[g], y) /\ Steady(act[g], y) BY <1>0, <1>4 DEF Calm, Steady
<1>7. act' \in [Gens -> Actors] /\ Calmly /\ Renewed BY <1>4, <1>5, <1>6, OneCalm DEF Renewed
<1>8. db' \in Stores /\ db'.gen = db.gen BY <1>1, <1>2, StoreWithdrawn
<1>9. Typed' BY <1>0, <1>7, <1>8 DEF Typed
<1>10. Still /\ NoDispatch BY <1>0, <1>8 DEF Still, NoDispatch
<1> QED BY <1>7, <1>9, <1>10 DEF Quiet

LEMMA FinishDisconnectQuiet == ASSUME Typed, NEW g \in Gens, FinishDisconnect(g) PROVE Quiet
<1>0. /\ act[g].pc \in {"withdrawn", "kept"} /\ act' = [act EXCEPT ![g] = Gone]
      /\ b' = [b EXCEPT !.disc = 0, !.derr = (act[g].pc = "kept")]
      /\ UNCHANGED <<call, db, ag, up, toC, toA>>
  BY DEF FinishDisconnect, DisconnectFailed
<1>1. act[g] \in Actors /\ b \in Brokers BY DEF Typed
<1>2. Gone \in Actors /\ Calm(act[g], Gone) /\ Steady(act[g], Gone) BY <1>0, Fresh DEF Calm, Steady
<1>3. act' \in [Gens -> Actors] /\ Calmly /\ Renewed BY <1>0, <1>2, OneCalm DEF Renewed
<1>4. b' \in Brokers /\ Still BY <1>0, <1>1, Gen DEF Brokers, Still
<1>5. Typed' BY <1>0, <1>3, <1>4 DEF Typed
<1>6. NoDispatch BY <1>0 DEF NoDispatch
<1> QED BY <1>3, <1>4, <1>5, <1>6 DEF Quiet

LEMMA BeginCallQuiet == ASSUME Typed, NEW k \in Callers, BeginCall(k) PROVE Quiet
<1>0. call[k] = Resting /\ b.session # 0 /\ UNCHANGED <<b, act, db, ag, up, toC, toA>>
  BY DEF BeginCall
<1>1. PICK r \in BOOLEAN, c \in Cmds :
        call' = [call EXCEPT ![k] = [pc |-> "gate", g |-> b.session, cmd |-> c, replay |-> r,
                                     dig |-> IF r THEN Digest(db.snap) ELSE NoJournal]]
  BY DEF BeginCall
<1> DEFINE x == [pc |-> "gate", g |-> b.session, cmd |-> c, replay |-> r,
                 dig |-> IF r THEN Digest(db.snap) ELSE NoJournal]
<1>2. b \in Brokers /\ db \in Stores /\ call \in [Callers -> Calls] BY DEF Typed
<1>3. b.session \in Gens /\ b.session \in Generations BY <1>0, <1>2, BrokerOf, Gen
<1>4. (IF r THEN Digest(db.snap) ELSE NoJournal) \in Journals
  BY <1>2, StoreOf, NothingSnap DEF Digest
<1>5. x \in Calls /\ x.pc = "gate"
  BY <1>3, <1>4 DEF Calls, CallRecords, CallPhases, Names
<1>6. call' = [call EXCEPT ![k] = x] BY <1>1
<1> HIDE DEF x
<1>7. call' \in [Callers -> Calls] BY <1>2, <1>5, <1>6
<1>8. NoDispatch
  <2>1. call'[k].pc \notin Under /\ call[k].pc \notin Under BY <1>0, <1>2, <1>5, <1>6, FreshRecords DEF Under
  <2>2. \A o \in Callers : o # k => call'[o] = call[o] BY <1>2, <1>6
  <2> QED BY <2>1, <2>2 DEF NoDispatch
<1>9. Typed' BY <1>0, <1>7 DEF Typed
<1>10. Still /\ Calmly /\ Renewed BY <1>0 DEF Still, Calmly, Renewed, Calm, Steady
<1> QED BY <1>8, <1>9, <1>10 DEF Quiet

---------------------------------------------------------------------------
(* The Agent *)

LEMMA AgentOf ==
    ASSUME NEW x \in Agents
    PROVE  /\ x \in AgentRecords /\ (x.pc # "off" => x.g \in Gens) /\ (x.upd => x.out # <<>>)
           /\ x.out \in Seq(Updates) /\ x.j \in Journals /\ x.own \in {1, 2} /\ x.hb \in Intents
           /\ x.req \in SUBSET {1, 2} /\ x.dur \in {1, 2} /\ x.conf \in Intents
           /\ x.pc \in {"off", "hello", "snap", "run"} /\ x.upd \in BOOLEAN
BY DEF Agents, AgentRecords

LEMMA OfflineTyped == ASSUME ag \in Agents PROVE Offline \in Agents
BY Intent DEF Offline, Agents, AgentRecords

LEMMA ReportTyped == ASSUME ag \in Agents, NEW nat \in BOOLEAN PROVE Report(nat) \in Snaps
<1>1. ag.j \in Journals /\ ag.own \in Intents BY AgentOf, Intent
<1> QED BY <1>1 DEF Report, Snaps, Accepts

LEMMA OutboxAppend ==
    ASSUME NEW s \in Seq(Updates), NEW u \in Updates
    PROVE  Append(s, u) \in Seq(Updates) /\ Append(s, u) # <<>>
<1>1. Append(s, u) \in Seq(Updates) /\ Len(Append(s, u)) = Len(s) + 1 /\ Len(s) \in Nat OBVIOUS
<1>2. Len(Append(s, u)) # 0 BY <1>1
<1> QED BY <1>1, <1>2, EmptySeq

LEMMA AgentSnapshotQuiet == ASSUME Typed, AgentSnapshot PROVE Quiet
<1>0. /\ ag.pc = "hello" /\ toA[ag.g] # <<>> /\ toA' = [toA EXCEPT ![ag.g] = Tail(@)]
      /\ toC' = Send(toC, ag.g, [Msg("snap", 0) EXCEPT !.s = Report(TRUE)])
      /\ ag' = [ag EXCEPT !.pc = "snap"] /\ UNCHANGED <<b, act, call, db, up>>
  BY DEF AgentSnapshot
<1>1. ag \in Agents /\ toA \in [Gens -> Seq(Orders)] /\ toC \in [Gens -> Seq(Reports)] BY DEF Typed
<1>2. ag.g \in Gens BY <1>0, <1>1, AgentOf
<1>3. [Msg("snap", 0) EXCEPT !.s = Report(TRUE)] \in Reports BY <1>1, ReportTyped, MessageTyped
<1>4. toC' \in [Gens -> Seq(Reports)] BY <1>0, <1>1, <1>2, <1>3, QueueSend
<1>5. toA' \in [Gens -> Seq(Orders)] BY <1>0, <1>1, <1>2, QueueTail
<1>6. ag' \in Agents BY <1>0, <1>1, <1>2 DEF Agents, AgentRecords
<1>7. Typed' BY <1>0, <1>4, <1>5, <1>6 DEF Typed
<1> QED BY <1>0, <1>7, OtherQuiet

LEMMA AgentSendsUpdateQuiet == ASSUME Typed, AgentSendsUpdate PROVE Quiet
<1>0. /\ ag.pc = "run" /\ ag.out # <<>> /\ toC' = Send(toC, ag.g, Head(ag.out))
      /\ ag' = [ag EXCEPT !.upd = TRUE] /\ UNCHANGED <<b, act, call, db, up, toA>>
  BY DEF AgentSendsUpdate
<1>1. ag \in Agents /\ toC \in [Gens -> Seq(Reports)] BY DEF Typed
<1>2. ag.g \in Gens /\ ag.out \in Seq(Updates) BY <1>0, <1>1, AgentOf
<1>3. Head(ag.out) \in Updates BY <1>0, <1>2
<1>4. Head(ag.out) \in Reports BY <1>3 DEF Reports
<1>5. toC' \in [Gens -> Seq(Reports)] BY <1>0, <1>1, <1>2, <1>4, QueueSend
<1>6. ag' \in Agents BY <1>0, <1>1, <1>2 DEF Agents, AgentRecords
<1>7. Typed' BY <1>0, <1>5, <1>6 DEF Typed
<1> QED BY <1>0, <1>7, OtherQuiet

LEMMA AgentHeartbeatQuiet == ASSUME Typed, AgentHeartbeat PROVE Quiet
<1>0. ag.pc = "run" /\ UNCHANGED <<b, act, call, db, toA>> BY DEF AgentHeartbeat
<1>1. ag \in Agents /\ toC \in [Gens -> Seq(Reports)] /\ up \in [Gens -> BOOLEAN] BY DEF Typed
<1>2. ag.g \in Gens /\ ag.own \in Intents BY <1>0, <1>1, AgentOf, Intent
<1>3. ag' \in Agents /\ up' \in [Gens -> BOOLEAN] /\ toC' \in [Gens -> Seq(Reports)]
  <2>1. CASE ag.hb # 0
    <3>1. ag' = Offline /\ up' = [up EXCEPT ![ag.g] = FALSE] /\ toC' = toC
      BY <2>1 DEF AgentHeartbeat
    <3> QED BY <1>1, <1>2, <3>1, OfflineTyped
  <2>2. CASE ag.hb = 0
    <3>1. ag' = [ag EXCEPT !.hb = ag.own] /\ up' = up BY <2>2 DEF AgentHeartbeat
    <3>2. PICK nat \in BOOLEAN : toC' = Send(toC, ag.g, [Msg("hb", 0) EXCEPT !.s = Report(nat)])
      BY <2>2 DEF AgentHeartbeat
    <3>3. [Msg("hb", 0) EXCEPT !.s = Report(nat)] \in Reports BY <1>1, ReportTyped, MessageTyped
    <3>4. toC' \in [Gens -> Seq(Reports)] BY <1>1, <1>2, <3>2, <3>3, QueueSend
    <3>5. ag' \in Agents BY <1>1, <1>2, <3>1 DEF Agents, AgentRecords
    <3> QED BY <1>1, <3>1, <3>4, <3>5
  <2> QED BY <2>1, <2>2
<1>4. Typed' BY <1>0, <1>3 DEF Typed
<1> QED BY <1>0, <1>4, OtherQuiet

LEMMA AcknowledgedTyped ==
    ASSUME ag \in Agents, NEW of \in {"hello", "snap", "hb", "upd"}, ag.pc \in {"snap", "run"}, Awaited(of)
    PROVE  Acknowledged(of) \in Agents
<1>0. /\ ag \in AgentRecords /\ ag.g \in Gens /\ ag.out \in Seq(Updates) /\ ag.hb \in Intents
      /\ (ag.upd => ag.out # <<>>)
  BY AgentOf
<1>1. CASE of = "snap"
  <2>1. Acknowledged(of) = [ag EXCEPT !.pc = "run"] BY <1>1 DEF Acknowledged
  <2> QED BY <1>0, <2>1 DEF Agents, AgentRecords
<1>2. CASE of = "hb"
  <2>1. Acknowledged(of) = [ag EXCEPT !.conf = ag.hb, !.hb = 0] BY <1>2 DEF Acknowledged
  <2> QED BY <1>0, <2>1, Intent DEF Agents, AgentRecords
<1>3. CASE of \notin {"snap", "hb"}
  <2> DEFINE out == Tail(ag.out)
             j == IF Head(ag.out).t = "done" THEN NoJournal ELSE ag.j
  <2>1. Acknowledged(of) = [ag EXCEPT !.upd = FALSE, !.out = out, !.j = j]
    BY <1>3 DEF Acknowledged
  <2>2. ag.upd BY <1>3 DEF Awaited
  <2>3. out \in Seq(Updates) BY <1>0, <2>2
  <2>4. j \in Journals BY <1>0, NothingSnap, AgentOf
  <2> HIDE DEF out, j
  <2> QED BY <1>0, <2>1, <2>3, <2>4 DEF Agents, AgentRecords
<1> QED BY <1>1, <1>2, <1>3

LEMMA AgentReadsAckQuiet == ASSUME Typed, AgentReadsAck PROVE Quiet
<1> DEFINE of == Head(toA[ag.g]).of
<1>0. /\ ag.pc \in {"snap", "run"} /\ toA[ag.g] # <<>> /\ Head(toA[ag.g]).t = "ack"
      /\ ag' = IF Awaited(of) THEN Acknowledged(of) ELSE Offline
      /\ up' = [up EXCEPT ![ag.g] = up[ag.g] /\ Awaited(of)]
      /\ toA' = [toA EXCEPT ![ag.g] = IF Awaited(of) THEN Tail(@) ELSE <<>>]
      /\ UNCHANGED <<b, act, call, db, toC>>
  BY DEF AgentReadsAck
<1>1. ag \in Agents /\ toA \in [Gens -> Seq(Orders)] /\ up \in [Gens -> BOOLEAN] BY DEF Typed
<1>2. ag.g \in Gens BY <1>0, <1>1, AgentOf
<1>3. Head(toA[ag.g]) \in Orders BY <1>0, <1>1, <1>2, QueueTail
<1>4. of \in {"hello", "snap", "hb", "upd"} BY <1>0, <1>3 DEF Orders
<1> HIDE DEF of
<1>5. ag' \in Agents BY <1>0, <1>1, <1>4, AcknowledgedTyped, OfflineTyped
<1>6. toA' \in [Gens -> Seq(Orders)]
  <2>1. CASE Awaited(of) BY <1>0, <1>1, <1>2, <2>1, QueueTail
  <2>2. CASE ~Awaited(of) BY <1>0, <1>1, <1>2, <2>2, QueueClear
  <2> QED BY <2>1, <2>2
<1>7. up' \in [Gens -> BOOLEAN]
  <2>1. (up[ag.g] /\ Awaited(of)) \in BOOLEAN OBVIOUS
  <2> QED BY <1>0, <1>1, <1>2, <2>1
<1>8. Typed' BY <1>0, <1>5, <1>6, <1>7 DEF Typed
<1> QED BY <1>0, <1>8, OtherQuiet

LEMMA AgentCommandQuiet == ASSUME Typed, AgentCommand PROVE Quiet
<1> DEFINE c == Head(toA[ag.g]).of
           u == Msg(IF ag.j.done THEN "done" ELSE "open", c)
           out == IF \E i \in DOMAIN ag.out : ag.out[i] = u THEN ag.out ELSE Append(ag.out, u)
           j == [ag.j EXCEPT !.cmds = @ \cup {c}]
<1>0. /\ ag.pc = "run" /\ toA[ag.g] # <<>> /\ Head(toA[ag.g]).t = "cmd"
      /\ ag' = [ag EXCEPT !.j.cmds = @ \cup {c}, !.out = out]
      /\ toA' = [toA EXCEPT ![ag.g] = Tail(@)] /\ toC' = Send(toC, ag.g, Msg("ack", c))
      /\ UNCHANGED <<b, act, call, db, up>>
  BY DEF AgentCommand
<1>1. /\ ag \in Agents /\ toA \in [Gens -> Seq(Orders)] /\ toC \in [Gens -> Seq(Reports)]
      /\ ag \in AgentRecords
  BY AgentOf DEF Typed
<1>2. ag.g \in Gens /\ ag.out \in Seq(Updates) /\ ag.j \in Journals /\ (ag.upd => ag.out # <<>>)
  BY <1>0, <1>1, AgentOf
<1>3. Head(toA[ag.g]) \in Orders /\ toA' \in [Gens -> Seq(Orders)] BY <1>0, <1>1, <1>2, QueueTail
<1>4. c \in Cmds /\ c \in Names BY <1>0, <1>3 DEF Orders, Names
<1>5. ag' = [ag EXCEPT !.j = j, !.out = out] BY <1>0, <1>1 DEF AgentRecords
<1>6. j \in Journals BY <1>2, <1>4 DEF Journals
<1> HIDE DEF c, j
<1>7. u \in Updates BY <1>4, MessageTyped
<1> HIDE DEF u
<1>8. out \in Seq(Updates) /\ (ag.upd => out # <<>>) BY <1>2, <1>7, OutboxAppend
<1> HIDE DEF out
<1>9. ag' \in Agents BY <1>1, <1>2, <1>5, <1>6, <1>8 DEF Agents, AgentRecords
<1>10. toC' \in [Gens -> Seq(Reports)] BY <1>0, <1>1, <1>2, <1>4, MessageTyped, QueueSend
<1>11. Typed' BY <1>0, <1>3, <1>9, <1>10 DEF Typed
<1> QED BY <1>0, <1>11, OtherQuiet

LEMMA AgentFinishesQuiet == ASSUME Typed, AgentFinishes PROVE Quiet
<1> DEFINE u == Msg("done", Cardinality(Cmds))
           out == Append(ag.out, u)
           j == [ag.j EXCEPT !.done = TRUE]
<1>0. ag' = [ag EXCEPT !.j.done = TRUE, !.out = out] /\ UNCHANGED <<b, act, call, db, up, toC, toA>>
  BY DEF AgentFinishes
<1>1. ag \in Agents /\ ag \in AgentRecords BY AgentOf DEF Typed
<1>2. ag.out \in Seq(Updates) /\ ag.j \in Journals /\ (ag.pc # "off" => ag.g \in Gens) BY <1>1, AgentOf
<1>3. ag' = [ag EXCEPT !.j = j, !.out = out] BY <1>0, <1>1 DEF AgentRecords
<1>4. j \in Journals BY <1>2 DEF Journals
<1>5. u \in Updates BY Cmd, MessageTyped
<1> HIDE DEF u, j
<1>6. out \in Seq(Updates) /\ out # <<>> BY <1>2, <1>5, OutboxAppend
<1> HIDE DEF out
<1>7. ag' \in Agents BY <1>1, <1>2, <1>3, <1>4, <1>6 DEF Agents, AgentRecords
<1>8. Typed' BY <1>0, <1>7 DEF Typed
<1> QED BY <1>0, <1>8, OtherQuiet

LEMMA ConnectionEndsQuiet == ASSUME Typed, Break \/ AgentSeesEnd PROVE Quiet
<1>0. /\ ag.pc # "off" /\ up' = [up EXCEPT ![ag.g] = FALSE] /\ toA' = [toA EXCEPT ![ag.g] = <<>>]
      /\ ag' = Offline /\ UNCHANGED <<b, act, call, db, toC>>
  BY DEF Break, AgentSeesEnd
<1>1. ag \in Agents /\ toA \in [Gens -> Seq(Orders)] /\ up \in [Gens -> BOOLEAN] BY DEF Typed
<1>2. ag.g \in Gens BY <1>0, <1>1, AgentOf
<1>3. /\ ag' \in Agents /\ toA' \in [Gens -> Seq(Orders)] /\ up' \in [Gens -> BOOLEAN]
  BY <1>0, <1>1, <1>2, OfflineTyped, QueueClear
<1>4. Typed' BY <1>0, <1>3 DEF Typed
<1> QED BY <1>0, <1>4, OtherQuiet

LEMMA OwnerQuiet == ASSUME Typed, SetAvailability \/ SetIntent PROVE Quiet
<1>0. UNCHANGED <<b, act, call, db, up, toC, toA>> BY DEF SetAvailability, SetIntent
<1>1. ag \in Agents BY DEF Typed
<1>2. ag' \in Agents
  <2>1. CASE SetAvailability
    <3>1. PICK v \in {1, 2} : ag' = [ag EXCEPT !.dur = v, !.req = @ \cup {v}] BY <2>1 DEF SetAvailability
    <3> QED BY <1>1, <3>1 DEF Agents, AgentRecords
  <2>2. CASE SetIntent
    <3>1. PICK v \in ag.req : ag' = [ag EXCEPT !.own = v, !.req = @ \ {v}, !.conf = IF @ = v THEN v ELSE 0]
      BY <2>2 DEF SetIntent
    <3>2. v \in {1, 2} /\ v \in Intents BY <1>1, AgentOf, Intent
    <3> QED BY <1>1, <3>1, <3>2, Intent DEF Agents, AgentRecords
  <2> QED BY <2>1, <2>2
<1>3. Typed' BY <1>0, <1>2 DEF Typed
<1> QED BY <1>0, <1>3, OtherQuiet

---------------------------------------------------------------------------
(* Connections and projections *)

\* What every step does: the invariant is kept, a running lease is not withdrawn
\* and the store's journal does not get older.
Good == Inv' /\ Renewed /\ db'.gen >= db.gen

LEMMA QuietGood == ASSUME Inv, Quiet PROVE Good
<1>1. Inv' /\ Renewed BY QuietKeeps DEF Quiet
<1>2. db \in Stores /\ db'.gen = db.gen BY DEF Quiet, Still, Inv, Typed
<1>3. db.gen \in Nat BY <1>2, StoreOf, Gen
<1> QED BY <1>1, <1>2, <1>3 DEF Good

LEMMA StoreStays == ASSUME Inv, UNCHANGED db PROVE db'.gen >= db.gen
<1>1. db.gen \in Nat BY StoreOf, Gen DEF Inv, Typed
<1> QED BY <1>1

LEMMA DialGood == ASSUME Inv, Dial PROVE Good
<1> DEFINE g == b.gen + 1
           y == [act[g] EXCEPT !.pc = "hello"]
           q == <<Msg("hello", 0)>>
<1>0. /\ b.gen < MaxGen /\ b' = [b EXCEPT !.gen = g] /\ act' = [act EXCEPT ![g] = y]
      /\ up' = [up EXCEPT ![g] = TRUE] /\ toC' = [toC EXCEPT ![g] = q]
      /\ ag' = [ag EXCEPT !.pc = "hello", !.g = g, !.hb = 0, !.upd = FALSE]
      /\ UNCHANGED <<call, db, toA>>
  BY DEF Dial
<1>1. Typed /\ Numbered /\ Projecting /\ (~b.closed => Dispatching) BY DEF Inv
<1>2. b \in Brokers /\ act \in [Gens -> Actors] /\ ag \in Agents BY <1>1 DEF Typed
<1>3. b.gen \in Nat /\ g \in Gens /\ g \in Generations /\ ~(g <= b.gen)
  <2>1. b.gen \in Nat /\ MaxGen \in Nat BY <1>2, BrokerOf, Gen
  <2> QED BY <1>0, <2>1 DEF Gens, Generations
<1>4. act[g].pc = "none" BY <1>1, <1>3 DEF Numbered
<1>5. "hello" \in Phases BY DEF Phases
<1>6. \A n \in Gens : n <= b.gen => n <= g
  <2>1. \A n \in Gens : n \in Nat BY Gen
  <2> QED BY <1>3, <2>1
<1>7. q \in Seq(Reports) BY MessageTyped
<1> HIDE DEF g, q
<1>8. y \in Actors /\ y.pc = "hello" /\ y.pend = act[g].pend /\ y.snap = act[g].snap
  BY <1>2, <1>3, <1>5, PhaseFields
<1> HIDE DEF y
<1>9. /\ act' \in [Gens -> Actors] /\ act'[g] = y
      /\ \A h \in Gens : h # g => act'[h] = act[h]
  BY <1>0, <1>1, <1>3, <1>8, OneActor
<1>10. /\ b' \in Brokers /\ b'.lock = b.lock /\ b'.projected = b.projected
       /\ b'.inFlight = b.inFlight /\ b'.closed = b.closed /\ b'.gen = g
  BY <1>0, <1>2, <1>3 DEF Brokers
<1>11. ag' \in Agents BY <1>0, <1>2, <1>3, Intent DEF Agents, AgentRecords
<1>12. Typed'
  <2>1. toC' \in [Gens -> Seq(Reports)] /\ up' \in [Gens -> BOOLEAN]
    BY <1>0, <1>1, <1>3, <1>7 DEF Typed
  <2> QED BY <1>0, <1>1, <1>9, <1>10, <1>11, <2>1 DEF Typed
<1>13. Numbered'
  <2>1. ASSUME NEW h \in Gens, act'[h].pc # "none" PROVE h <= b'.gen
    <3>1. CASE h = g BY <1>3, <1>10, <3>1, Gen
    <3>2. CASE h # g BY <1>1, <1>6, <1>9, <1>10, <2>1, <3>2 DEF Numbered
    <3> QED BY <3>1, <3>2
  <2> QED BY <2>1 DEF Numbered
<1>14. Projecting'
  <2>1. \A h \in Gens : \/ act'[h].pc = act[h].pc
                       \/ {act[h].pc, act'[h].pc} \cap {"locked", "stored"} = {}
    BY <1>4, <1>8, <1>9
  <2> QED BY <1>0, <1>1, <1>10, <2>1, ProjectingKeeps
<1>15. ~b'.closed => Dispatching'
  <2>1. \A h \in Gens : act'[h].pend = act[h].pend BY <1>8, <1>9
  <2> QED BY <1>0, <1>1, <1>10, <2>1 DEF Dispatching
<1>16. Renewed BY <1>8, <1>9 DEF Renewed, Steady
<1>17. db'.gen >= db.gen BY <1>0, StoreStays
<1> QED BY <1>12, <1>13, <1>14, <1>15, <1>16, <1>17 DEF Good, Inv

LEMMA BeginProjectionGood == ASSUME Inv, NEW g \in Gens, BeginProjection(g) PROVE Good
<1>0. /\ act[g].pc = "captured" /\ b.lock = 0 /\ toC[g] # <<>>
      /\ toC' = [toC EXCEPT ![g] = Tail(@)] /\ UNCHANGED <<call, db, ag, up, toA>>
  BY DEF BeginProjection
<1>1. Typed /\ Numbered /\ Projecting /\ (~b.closed => Dispatching) BY DEF Inv
<1>2. /\ act \in [Gens -> Actors] /\ act[g] \in Actors /\ b \in Brokers /\ toC \in [Gens -> Seq(Reports)]
  BY <1>1 DEF Typed
<1>3. toC' \in [Gens -> Seq(Reports)] /\ toC' # toC /\ Head(toC[g]) \in Reports
  BY <1>0, <1>2, QueueTail
<1>4. Renewed BY <1>3 DEF Renewed
<1>5. CASE ~MayProject(g)
  <2>1. act' = [act EXCEPT ![g] = EndReader(act[g])] /\ b' = b BY <1>5 DEF BeginProjection
  <2>2. EndReader(act[g]) \in Actors /\ Calm(act[g], EndReader(act[g]))
    BY <1>0, <1>2, EndReaderFields DEF Calm
  <2>3. act' \in [Gens -> Actors] /\ Calmly BY <1>1, <2>1, <2>2, OneCalm
  <2>4. Typed' BY <1>0, <1>1, <1>3, <2>1, <2>3 DEF Typed
  <2>5. Still /\ NoDispatch BY <1>0, <2>1 DEF Still, NoDispatch
  <2> QED BY <1>4, <2>3, <2>4, <2>5, QuietGood DEF Quiet
<1>6. CASE MayProject(g)
  <2> DEFINE x == [act[g] EXCEPT !.pc = "locked"]
             y == [x EXCEPT !.snap = Head(toC[g]).s]
  <2>1. b' = [b EXCEPT !.lock = g] /\ act' = [act EXCEPT ![g] = y] BY <1>2, <1>6 DEF BeginProjection
  <2>2. ~b.closed /\ b.inFlight = 0 /\ b.projected < g BY <1>2, <1>6, BrokerOf, Gen DEF MayProject, Supersedes
  <2>3. "locked" \in Phases BY DEF Phases
  <2>4. x \in Actors /\ x.pc = "locked" /\ x.pend = act[g].pend BY <1>2, <2>3, PhaseFields
  <2>5. Head(toC[g]).s \in Snaps BY <1>3, ReportOf
  <2> HIDE DEF x
  <2>6. y \in Actors /\ y.pc = "locked" /\ y.pend = act[g].pend BY <2>4, <2>5, SnapFields
  <2> HIDE DEF y
  <2>7. /\ act' \in [Gens -> Actors] /\ act'[g] = y
        /\ \A h \in Gens : h # g => act'[h] = act[h]
    BY <1>1, <2>1, <2>6, OneActor
  <2>8. /\ b' \in Brokers /\ b'.lock = g /\ b'.projected = b.projected
        /\ b'.inFlight = b.inFlight /\ b'.closed = b.closed /\ b'.gen = b.gen
    BY <1>2, <2>1, Gen DEF Brokers
  <2>9. Typed' BY <1>0, <1>1, <1>3, <2>7, <2>8 DEF Typed
  <2>10. Numbered' BY <1>0, <1>1, <2>6, <2>7, <2>8 DEF Numbered
  <2>11. Projecting'
    <3>1. \A h \in Gens : h # g => act'[h].pc \notin {"locked", "stored"}
      BY <1>0, <1>1, <2>7, Gen DEF Projecting
    <3>2. db.gen <= b.projected BY <1>0, <1>1, <2>2 DEF Projecting
    <3> QED BY <1>0, <2>2, <2>6, <2>7, <2>8, <3>1, <3>2, Gen DEF Projecting
  <2>12. Dispatching'
    <3>1. \A h \in Gens : act'[h].pend = act[h].pend BY <2>6, <2>7
    <3> QED BY <1>0, <1>1, <2>2, <2>8, <3>1 DEF Dispatching
  <2>13. db'.gen >= db.gen BY <1>0, StoreStays
  <2> QED BY <1>4, <2>9, <2>10, <2>11, <2>12, <2>13 DEF Good, Inv
<1> QED BY <1>5, <1>6

LEMMA HandleAgentSnapshotGood == ASSUME Inv, NEW g \in Gens, HandleAgentSnapshot(g) PROVE Good
<1>0. act[g].pc = "locked" /\ UNCHANGED <<call, ag, up, toC, toA>> BY DEF HandleAgentSnapshot
<1>1. Typed /\ Numbered /\ Projecting /\ (~b.closed => Dispatching) BY DEF Inv
<1>2. act[g] \in Actors /\ b \in Brokers /\ db \in Stores BY <1>1 DEF Typed
<1>3. b.lock = g /\ db.gen <= b.projected /\ b.projected < g BY <1>0, <1>1 DEF Projecting
<1>4. b.projected \in Nat /\ db.gen \in Nat /\ g \in Nat /\ g # 0 /\ g \in Generations
  BY <1>2, BrokerOf, StoreOf, Gen
<1>5. \A h \in Gens : h # g => act[h].pc \notin {"locked", "stored"} BY <1>1, <1>3 DEF Projecting
<1>6. CASE /\ db' = [db EXCEPT !.snap = act[g].snap, !.gen = g]
           /\ act' = [act EXCEPT ![g].pc = "stored"] /\ UNCHANGED b
  <2> DEFINE y == [act[g] EXCEPT !.pc = "stored"]
  <2>1. act' = [act EXCEPT ![g] = y] BY <1>6
  <2>2. "stored" \in Phases BY DEF Phases
  <2>3. y \in Actors /\ y.pc = "stored" /\ y.pend = act[g].pend /\ y.snap = act[g].snap
    BY <1>2, <2>2, PhaseFields
  <2> HIDE DEF y
  <2>4. /\ act' \in [Gens -> Actors] /\ act'[g] = y
        /\ \A h \in Gens : h # g => act'[h] = act[h]
    BY <1>1, <2>1, <2>3, OneActor
  <2>5. db' \in Stores /\ db'.gen = g
    <3>1. act[g].snap \in Snaps BY <1>2, ActorOf
    <3> QED BY <1>2, <1>4, <1>6, <3>1 DEF Stores
  <2>6. Typed' BY <1>0, <1>1, <1>6, <2>4, <2>5 DEF Typed
  <2>7. Numbered' BY <1>0, <1>1, <1>6, <2>3, <2>4 DEF Numbered
  <2>8. Projecting' BY <1>3, <1>4, <1>5, <1>6, <2>3, <2>4, <2>5 DEF Projecting
  <2>9. ~b'.closed => Dispatching'
    <3>1. \A h \in Gens : act'[h].pend = act[h].pend BY <2>3, <2>4
    <3> QED BY <1>0, <1>1, <1>6, <3>1 DEF Dispatching
  <2>10. Renewed BY <2>3, <2>4 DEF Renewed, Steady
  <2>11. db'.gen >= db.gen BY <1>3, <1>4, <2>5
  <2> QED BY <2>6, <2>7, <2>8, <2>9, <2>10, <2>11 DEF Good, Inv
<1>7. CASE act' = [act EXCEPT ![g] = EndReader(@)] /\ b' = [b EXCEPT !.lock = 0] /\ UNCHANGED db
  <2>1. /\ EndReader(act[g]) \in Actors /\ EndReader(act[g]).pc = "ret" /\ EndReader(act[g]).term
        /\ EndReader(act[g]).pend.cmd = 0
    BY <1>2, EndReaderFields
  <2>2. /\ act' \in [Gens -> Actors] /\ act'[g] = EndReader(act[g])
        /\ \A h \in Gens : h # g => act'[h] = act[h]
    BY <1>1, <1>7, <2>1, OneActor
  <2>3. /\ b' \in Brokers /\ b'.lock = 0 /\ b'.projected = b.projected
        /\ b'.inFlight = b.inFlight /\ b'.closed = b.closed /\ b'.gen = b.gen
    BY <1>2, <1>7, Gen DEF Brokers
  <2>4. Typed' BY <1>0, <1>1, <1>7, <2>2, <2>3 DEF Typed
  <2>5. Numbered' BY <1>0, <1>1, <2>2, <2>3 DEF Numbered
  <2>6. Projecting' BY <1>3, <1>5, <1>7, <2>1, <2>2, <2>3, Gen DEF Projecting
  <2>7. ~b'.closed => Dispatching'
    <3>1. \A h \in Gens : act'[h].pend.cmd # 0 => act'[h].pend = act[h].pend BY <2>1, <2>2
    <3> QED BY <1>0, <1>1, <2>3, <3>1 DEF Dispatching
  <2>8. Renewed BY <2>1, <2>2 DEF Renewed, Steady
  <2>9. db'.gen >= db.gen BY <1>7, StoreStays
  <2> QED BY <2>4, <2>5, <2>6, <2>7, <2>8, <2>9 DEF Good, Inv
<1> QED BY <1>6, <1>7 DEF HandleAgentSnapshot

LEMMA RecordProjectionGood == ASSUME Inv, NEW g \in Gens, RecordProjection(g) PROVE Good
<1>0. act[g].pc = "stored" /\ UNCHANGED <<call, db, ag, up, toC, toA>> BY DEF RecordProjection
<1>1. Typed /\ Numbered /\ Projecting /\ (~b.closed => Dispatching) BY DEF Inv
<1>2. act \in [Gens -> Actors] /\ act[g] \in Actors /\ b \in Brokers /\ db \in Stores BY <1>1 DEF Typed
<1>3. b.lock = g /\ db.gen = g /\ b.projected < g /\ g # 0 /\ g \in Generations /\ g \in Nat
  BY <1>0, <1>1, Gen DEF Projecting
<1>4. \A h \in Gens : h # g => act[h].pc \notin {"locked", "stored"} BY <1>1, <1>3 DEF Projecting
<1>5. db'.gen >= db.gen BY <1>0, StoreStays
<1>6. CASE ~b.closed
  <2> DEFINE n == act[g].snap.nat
             x == SetReady(act[g], n)
             z == [x EXCEPT !.pc = "active"]
             y == [z EXCEPT !.known = act[g].snap.j.cmds]
  <2>1. /\ b' = [b EXCEPT !.projected = g, !.session = g, !.capture = NoCapture, !.lock = 0]
        /\ act' = [h \in Gens |-> IF h = g THEN y
                                  ELSE IF h = b.session THEN Terminate(act[h]) ELSE act[h]]
    BY <1>6 DEF RecordProjection
  <2>2. n \in BOOLEAN /\ act[g].snap.j.cmds \in SUBSET Cmds BY <1>2, ActorOf
  <2>3. x \in Actors /\ x.pend = act[g].pend /\ x.snap.nat = n BY <1>2, <2>2, SetReadyFields
  <2> HIDE DEF x
  <2>4. "active" \in Phases BY DEF Phases
  <2>5. z \in Actors /\ z.pc = "active" /\ z.pend = act[g].pend /\ z.snap.nat = n
    BY <2>3, <2>4, PhaseFields
  <2> HIDE DEF z
  <2>6. y \in Actors /\ y.pc = "active" /\ y.pend = act[g].pend /\ y.snap.nat = n
    BY <2>2, <2>5, KnownFields
  <2> HIDE DEF y
  <2>7. ASSUME NEW h \in Gens
        PROVE  /\ act'[h] \in Actors /\ Steady(act[h], act'[h])
               /\ act'[h].pc = IF h = g THEN "active" ELSE act[h].pc
               /\ act'[h].pend.cmd \in {0, act[h].pend.cmd}
    <3>1. CASE h = g BY <2>1, <2>6, <3>1 DEF Steady
    <3>2. CASE h # g /\ h = b.session BY <1>2, <2>1, <3>2, TerminateFields DEF Steady
    <3>3. CASE h # g /\ h # b.session BY <1>2, <2>1, <3>3 DEF Steady
    <3> QED BY <3>1, <3>2, <3>3
  <2>8. act' \in [Gens -> Actors] BY <2>1, <2>7
  <2>9. /\ b' \in Brokers /\ b'.lock = 0 /\ b'.projected = g
        /\ b'.inFlight = b.inFlight /\ b'.closed = b.closed /\ b'.gen = b.gen
    BY <1>2, <1>3, <2>1, Gen, FreshRecords DEF Brokers
  <2>10. Typed' BY <1>0, <1>1, <2>8, <2>9 DEF Typed
  <2>11. Numbered' BY <1>0, <1>1, <2>7, <2>9 DEF Numbered
  <2>12. Projecting'
    <3>1. \A h \in Gens : act'[h].pc \notin {"locked", "stored"} BY <1>4, <2>7
    <3> QED BY <1>0, <1>3, <2>9, <3>1, Gen DEF Projecting
  <2>13. Dispatching'
    <3>1. Dispatching /\ b.inFlight = 0 BY <1>1, <1>3, <1>6 DEF Dispatching
    <3>2. \A k \in Callers : call[k].pc \notin Under
      <4>1. ASSUME NEW k \in Callers, call[k].pc \in Under PROVE FALSE
        <5>1. call[k].g = 0 BY <3>1, <4>1 DEF Dispatching
        <5>2. call[k] \in Calls BY <1>1 DEF Typed
        <5>3. call[k].g \in Gens BY <4>1, <5>2 DEF Calls, Under
        <5> QED BY <5>1, <5>3, Gen
      <4> QED BY <4>1
    <3>3. \A h \in Gens : act'[h].pend.cmd = 0
      BY <2>7, <3>1, <3>2 DEF Dispatching, Under
    <3> QED BY <1>0, <2>9, <3>2, <3>3 DEF Dispatching
  <2>14. Renewed BY <2>7 DEF Renewed
  <2> QED BY <1>5, <2>10, <2>11, <2>12, <2>13, <2>14 DEF Good, Inv
<1>7. CASE b.closed
  <2> DEFINE p == IF MayDisconnect(g) THEN "disc" ELSE "ret"
             y == [Terminate(act[g]) EXCEPT !.pc = p]
  <2>1. /\ b' = [b EXCEPT !.disc = IF MayDisconnect(g) THEN g ELSE b.disc,
                          !.derr = b.derr \/ b.disc # 0, !.lock = 0]
        /\ act' = [act EXCEPT ![g] = y]
    BY <1>7 DEF RecordProjection
  <2>2. p \in Phases /\ p \notin {"locked", "stored"} BY DEF Phases
  <2> HIDE DEF p
  <2>3. y \in Actors /\ y.pc = p /\ y.term BY <1>2, <2>2, TerminateFields, PhaseFields
  <2> HIDE DEF y
  <2>4. /\ act' \in [Gens -> Actors] /\ act'[g] = y
        /\ \A h \in Gens : h # g => act'[h] = act[h]
    BY <1>1, <2>1, <2>3, OneActor
  <2>5. /\ b' \in Brokers /\ b'.lock = 0 /\ b'.projected = b.projected
        /\ b'.closed /\ b'.gen = b.gen
    BY <1>2, <1>3, <1>7, <2>1, Gen DEF Brokers
  <2>6. Typed' BY <1>0, <1>1, <2>4, <2>5 DEF Typed
  <2>7. Numbered' BY <1>0, <1>1, <2>4, <2>5 DEF Numbered
  <2>8. Projecting'
    <3>1. \A h \in Gens : act'[h].pc \notin {"locked", "stored"} BY <1>4, <2>2, <2>3, <2>4
    <3> QED BY <2>5, <3>1, Gen DEF Projecting
  <2>9. Renewed BY <2>3, <2>4 DEF Renewed, Steady
  <2> QED BY <1>5, <2>5, <2>6, <2>7, <2>8, <2>9 DEF Good, Inv
<1> QED BY <1>6, <1>7

LEMMA CloseBrokerGood == ASSUME Inv, CloseBroker PROVE Good
<1>0. /\ b' = [b EXCEPT !.closed = TRUE, !.derr = FALSE, !.inFlight = 0, !.capture = NoCapture]
      /\ act' = [g \in Gens |-> IF g = b.session THEN Terminate(act[g]) ELSE act[g]]
      /\ UNCHANGED <<call, db, ag, up, toC, toA>>
  BY DEF CloseBroker
<1>1. Typed /\ Numbered /\ Projecting BY DEF Inv
<1>2. act \in [Gens -> Actors] /\ b \in Brokers BY <1>1 DEF Typed
<1>3. \A h \in Gens : act'[h] \in Actors /\ act'[h].pc = act[h].pc /\ Steady(act[h], act'[h])
  <2>1. ASSUME NEW h \in Gens
        PROVE  act'[h] \in Actors /\ act'[h].pc = act[h].pc /\ Steady(act[h], act'[h])
    <3>1. CASE h = b.session BY <1>0, <1>2, <3>1, TerminateFields DEF Steady
    <3>2. CASE h # b.session BY <1>0, <1>2, <3>2 DEF Steady
    <3> QED BY <3>1, <3>2
  <2> QED BY <2>1
<1>4. act' \in [Gens -> Actors] BY <1>0, <1>3
<1>5. /\ b' \in Brokers /\ b'.lock = b.lock /\ b'.projected = b.projected /\ b'.closed /\ b'.gen = b.gen
  BY <1>0, <1>2, Gen, FreshRecords DEF Brokers
<1>6. Typed' BY <1>0, <1>1, <1>4, <1>5 DEF Typed
<1>7. Numbered' BY <1>1, <1>3, <1>5 DEF Numbered
<1>8. Projecting' BY <1>0, <1>1, <1>3, <1>5, ProjectingKeeps
<1>9. Renewed BY <1>3 DEF Renewed
<1>10. db'.gen >= db.gen BY <1>0, StoreStays
<1> QED BY <1>5, <1>6, <1>7, <1>8, <1>9, <1>10 DEF Good, Inv

---------------------------------------------------------------------------
(* Commands *)

LEMMA CallOf ==
    ASSUME NEW x \in Calls
    PROVE  /\ x.pc \in CallPhases /\ x.g \in Generations /\ x.cmd \in Names
           /\ x.pc # "idle" => x.g \in Gens /\ x.cmd \in Cmds
BY DEF Calls, CallRecords

LEMMA CallMoves ==
    ASSUME NEW x \in Calls, x.pc # "idle", NEW p \in CallPhases
    PROVE  LET y == [x EXCEPT !.pc = p] IN y \in Calls /\ y.pc = p /\ y.g = x.g /\ y.cmd = x.cmd
BY DEF Calls, CallRecords

LEMMA OneCall ==
    ASSUME Typed, NEW k \in Callers, NEW y \in Calls, call' = [call EXCEPT ![k] = y]
    PROVE  /\ call' \in [Callers -> Calls] /\ call'[k] = y
           /\ \A o \in Callers : o # k => call'[o] = call[o]
BY DEF Typed

LEMMA BeginCommandDispatchGood ==
    ASSUME Inv, NEW k \in Callers, BeginCommandDispatch(k) PROVE Good
<1>0. call[k].pc = "gate" /\ b.lock = 0 /\ UNCHANGED <<act, db, ag, up, toC, toA>>
  BY DEF BeginCommandDispatch
<1>1. Typed /\ Numbered /\ Projecting /\ (~b.closed => Dispatching) BY DEF Inv
<1>2. b \in Brokers /\ call[k] \in Calls BY <1>1 DEF Typed
<1>3. Renewed BY <1>0 DEF Renewed, Steady
<1>4. CASE ~MayDispatch(k)
  <2>1. call' = [call EXCEPT ![k] = Resting] /\ b' = b BY <1>4 DEF BeginCommandDispatch
  <2>2. /\ call' \in [Callers -> Calls] /\ call'[k] = Resting
        /\ \A o \in Callers : o # k => call'[o] = call[o]
    BY <1>1, <2>1, FreshRecords, OneCall
  <2>3. NoDispatch BY <1>0, <2>2, FreshRecords DEF NoDispatch, Under
  <2>4. Typed' BY <1>0, <1>1, <2>1, <2>2 DEF Typed
  <2>5. Still /\ Calmly BY <1>0, <2>1 DEF Still, Calmly, Calm
  <2> QED BY <1>3, <2>3, <2>4, <2>5, QuietGood DEF Quiet
<1>5. CASE MayDispatch(k)
  <2> DEFINE g == call[k].g
             y == [call[k] EXCEPT !.pc = "disp"]
  <2>1. b' = [b EXCEPT !.seq = @ + 1, !.inFlight = g] /\ call' = [call EXCEPT ![k] = y]
    BY <1>5 DEF BeginCommandDispatch
  <2>2. ~b.closed /\ b.projected = g /\ b.inFlight = 0 /\ g \in Gens
    BY <1>0, <1>2, <1>5, CallOf DEF MayDispatch, Current
  <2>3. "disp" \in CallPhases BY DEF CallPhases
  <2>4. y \in Calls /\ y.pc = "disp" /\ y.g = g BY <1>0, <1>2, <2>3, CallMoves
  <2> HIDE DEF y
  <2>5. /\ call' \in [Callers -> Calls] /\ call'[k] = y
        /\ \A o \in Callers : o # k => call'[o] = call[o]
    BY <1>1, <2>1, <2>4, OneCall
  <2>6. /\ b' \in Brokers /\ b'.lock = b.lock /\ b'.projected = b.projected
        /\ b'.inFlight = g /\ b'.closed = b.closed /\ b'.gen = b.gen
    <3> DEFINE n == b.seq + 1
    <3>1. n \in Nat /\ g \in Generations BY <1>2, <2>2, BrokerOf, Gen
    <3>2. b' = [b EXCEPT !.seq = n, !.inFlight = g] BY <2>1
    <3> HIDE DEF n, g
    <3> QED BY <1>2, <3>1, <3>2 DEF Brokers
  <2>7. Typed' BY <1>0, <1>1, <2>5, <2>6 DEF Typed
  <2>8. Numbered' BY <1>0, <1>1, <2>6 DEF Numbered
  <2>9. Projecting' BY <1>0, <1>1, <2>6, ProjectingKeeps
  <2>10. \A o \in Callers : call[o].pc \notin Under
    <3>1. ASSUME NEW o \in Callers, call[o].pc \in Under PROVE FALSE
      <4>1. call[o].g = 0 BY <1>1, <2>2, <3>1 DEF Dispatching
      <4>2. call[o] \in Calls BY <1>1 DEF Typed
      <4>3. call[o].g \in Gens BY <3>1, <4>2, CallOf DEF Under
      <4> QED BY <4>1, <4>3, Gen
    <3> QED BY <3>1
  <2>11. Dispatching'
    <3>1. \A h \in Gens : act'[h].pend.cmd = 0 BY <1>0, <1>1, <2>2, <2>10 DEF Dispatching, Under
    <3>2. \A o \in Callers : call'[o].pc \in Under => o = k BY <2>5, <2>10
    <3>3. call'[k].g = b'.inFlight /\ call'[k].g = b'.projected BY <2>2, <2>4, <2>5, <2>6
    <3> QED BY <1>0, <2>6, <3>1, <3>2, <3>3 DEF Dispatching
  <2>12. db'.gen >= db.gen BY <1>0, StoreStays
  <2> QED BY <1>3, <2>7, <2>8, <2>9, <2>11, <2>12 DEF Good, Inv
<1> QED BY <1>4, <1>5

\* One caller of a dispatch moves on, its actor may be terminated or get its
\* pending command; everything else of the broker and its sessions stays.
LEMMA DispatchStep ==
    ASSUME Inv, NEW k \in Callers, call[k].pc \in Under, NEW p \in Under,
           call' = [call EXCEPT ![k].pc = p],
           NEW y \in Actors, act' = [act EXCEPT ![call[k].g] = y], y.pc = act[call[k].g].pc,
           Steady(act[call[k].g], y),
           y.pend.cmd # 0 /\ ~b.closed => p \in {"write", "wait"} /\ y.pend.cmd = call[k].cmd,
           db' \in Stores, db'.gen = db.gen, toA' \in [Gens -> Seq(Orders)],
           UNCHANGED <<b, ag, up, toC>>
    PROVE  Good
<1> DEFINE g == call[k].g
           x == [call[k] EXCEPT !.pc = p]
<1>1. Typed /\ Numbered /\ Projecting /\ (~b.closed => Dispatching) BY DEF Inv
<1>2. call[k] \in Calls /\ call \in [Callers -> Calls] BY <1>1 DEF Typed
<1>3. g \in Gens /\ p \in CallPhases /\ call[k].pc # "idle" BY <1>2, CallOf DEF Under, CallPhases
<1>4. x \in Calls /\ x.pc = p /\ x.g = g /\ x.cmd = call[k].cmd BY <1>2, <1>3, CallMoves
<1>5. call' = [call EXCEPT ![k] = x] OBVIOUS
<1> HIDE DEF x
<1>6. /\ call' \in [Callers -> Calls] /\ call'[k] = x
      /\ \A o \in Callers : o # k => call'[o] = call[o]
  BY <1>1, <1>4, <1>5, OneCall
<1>7. act' = [act EXCEPT ![g] = y] /\ y.pc = act[g].pc /\ Steady(act[g], y) OBVIOUS
<1> HIDE DEF g
<1>8. /\ act' \in [Gens -> Actors] /\ act'[g] = y
      /\ \A h \in Gens : h # g => act'[h] = act[h]
  BY <1>1, <1>3, <1>7, OneActor
<1>9. Typed' BY <1>1, <1>6, <1>8 DEF Typed
<1>10. \A h \in Gens : act'[h].pc = act[h].pc BY <1>7, <1>8
<1>11. Numbered' BY <1>1, <1>10 DEF Numbered
<1>12. Projecting' BY <1>1, <1>10, ProjectingKeeps
<1>13. ASSUME ~b'.closed PROVE Dispatching'
  <2>1. Dispatching BY <1>1, <1>13
  <2>2. \A o \in Callers : call'[o].pc \in Under => call[o].pc \in Under /\ call'[o].g = call[o].g
    BY <1>4, <1>6 DEF g
  <2>3. ASSUME NEW h \in Gens, act'[h].pend.cmd # 0
        PROVE  \E o \in Callers : /\ call'[o].pc \in {"write", "wait"} /\ call'[o].g = h
                                  /\ call'[o].cmd = act'[h].pend.cmd
    <3>1. CASE h = g BY <1>4, <1>6, <1>8, <1>13, <2>3, <3>1
    <3>2. CASE h # g
      <4>1. act'[h] = act[h] BY <1>8, <3>2
      <4>2. PICK o \in Callers : /\ call[o].pc \in {"write", "wait"} /\ call[o].g = h
                                 /\ call[o].cmd = act[h].pend.cmd
        BY <2>1, <2>3, <4>1 DEF Dispatching
      <4>3. o # k BY <3>2, <4>2 DEF g
      <4> QED BY <1>6, <4>1, <4>2, <4>3
    <3> QED BY <3>1, <3>2
  <2> QED BY <2>1, <2>2, <2>3, DispatchingMoves
<1>14. Renewed BY <1>7, <1>8 DEF Renewed, Steady
<1>15. db'.gen >= db.gen
  <2>1. db.gen \in Nat BY <1>1, StoreOf, Gen DEF Typed
  <2> QED BY <2>1
<1> QED BY <1>9, <1>11, <1>12, <1>13, <1>14, <1>15 DEF Good, Inv

\* While its caller has not registered it, the session of a dispatch has no
\* pending command.
LEMMA OnlyItsCommand ==
    ASSUME Inv, NEW k \in Callers, call[k].pc \in Under, ~b.closed
    PROVE  act[call[k].g].pend.cmd # 0
             => call[k].pc \in {"write", "wait"} /\ act[call[k].g].pend.cmd = call[k].cmd
<1>1. Typed /\ Dispatching BY DEF Inv
<1>2. call[k] \in Calls BY <1>1 DEF Typed
<1>3. call[k].g \in Gens BY <1>2, CallOf DEF Under
<1>4. SUFFICES ASSUME act[call[k].g].pend.cmd # 0
               PROVE  call[k].pc \in {"write", "wait"} /\ act[call[k].g].pend.cmd = call[k].cmd
  OBVIOUS
<1>5. PICK o \in Callers : /\ call[o].pc \in {"write", "wait"} /\ call[o].g = call[k].g
                           /\ call[o].cmd = act[call[k].g].pend.cmd
  BY <1>1, <1>3, <1>4 DEF Dispatching
<1>6. o = k BY <1>1, <1>5 DEF Dispatching, Under
<1> QED BY <1>5, <1>6

LEMMA RegisterCommandGood == ASSUME Inv, NEW k \in Callers, RegisterCommand(k) PROVE Good
<1> DEFINE g == call[k].g
<1>0. call[k].pc = "disp" /\ call[k].pc \in Under /\ UNCHANGED <<b, ag, up, toC, toA>>
  BY DEF RegisterCommand, Under
<1>1. Typed BY DEF Inv
<1>2. call[k] \in Calls /\ db \in Stores /\ act \in [Gens -> Actors] /\ toA \in [Gens -> Seq(Orders)]
  BY <1>1 DEF Typed
<1>3. g \in Gens /\ call[k].cmd \in Cmds BY <1>0, <1>2, CallOf
<1>4. act[g] \in Actors BY <1>2, <1>3
<1>5. CASE call' = [call EXCEPT ![k].pc = "end"] /\ UNCHANGED <<act, db>>
  <2>1. act' = [act EXCEPT ![g] = act[g]] BY <1>2, <1>5
  <2>2. act[g].pend.cmd # 0 => b.closed BY <1>0, OnlyItsCommand
  <2>3. "end" \in Under BY DEF Under
  <2>4. Steady(act[g], act[g]) BY DEF Steady
  <2> QED BY <1>0, <1>2, <1>4, <1>5, <2>1, <2>2, <2>3, <2>4, DispatchStep
<1>6. CASE /\ ~act[g].term /\ act' = [act EXCEPT ![g].pend = [cmd |-> call[k].cmd, acked |-> FALSE]]
           /\ db' = [db EXCEPT !.issued = @ \cup {call[k].cmd}]
           /\ call' = [call EXCEPT ![k].pc = "write"]
  <2> DEFINE p == [cmd |-> call[k].cmd, acked |-> FALSE]
             y == [act[g] EXCEPT !.pend = p]
  <2>1. act' = [act EXCEPT ![g] = y] BY <1>6
  <2>2. p \in Pends /\ p.cmd = call[k].cmd /\ ~p.acked BY <1>3 DEF Pends, Names
  <2> HIDE DEF p
  <2>3. y \in Actors /\ y.pc = act[g].pc /\ y.pend = p /\ y.snap = act[g].snap
    BY <1>4, <1>6, <2>2, PendFields
  <2> HIDE DEF y
  <2>4. Steady(act[g], y) BY <2>3 DEF Steady
  <2>5. db' \in Stores /\ db'.gen = db.gen BY <1>2, <1>3, <1>6 DEF Stores
  <2>6. "write" \in Under BY DEF Under
  <2> QED BY <1>0, <1>2, <1>6, <2>1, <2>2, <2>3, <2>4, <2>5, <2>6, DispatchStep
<1> QED BY <1>5, <1>6 DEF RegisterCommand

LEMMA WriteCommandGood == ASSUME Inv, NEW k \in Callers, WriteCommand(k) PROVE Good
<1> DEFINE g == call[k].g
<1>0. call[k].pc = "write" /\ call[k].pc \in Under /\ UNCHANGED <<b, db, ag, up, toC>>
  BY DEF WriteCommand, Under
<1>1. Typed BY DEF Inv
<1>2. call[k] \in Calls /\ db \in Stores /\ act \in [Gens -> Actors] /\ toA \in [Gens -> Seq(Orders)]
  BY <1>1 DEF Typed
<1>3. g \in Gens /\ call[k].cmd \in Cmds BY <1>0, <1>2, CallOf
<1>4. act[g] \in Actors BY <1>2, <1>3
<1>5. CASE /\ toA' = Send(toA, g, Msg("cmd", call[k].cmd))
           /\ call' = [call EXCEPT ![k].pc = "wait"] /\ UNCHANGED act
  <2>1. act' = [act EXCEPT ![g] = act[g]] BY <1>2, <1>5
  <2>2. act[g].pend.cmd # 0 /\ ~b.closed => act[g].pend.cmd = call[k].cmd BY <1>0, OnlyItsCommand
  <2>3. "wait" \in Under BY DEF Under
  <2>4. Steady(act[g], act[g]) BY DEF Steady
  <2>5. toA' \in [Gens -> Seq(Orders)] BY <1>2, <1>3, <1>5, MessageTyped, QueueSend
  <2> QED BY <1>0, <1>2, <1>4, <1>5, <2>1, <2>2, <2>3, <2>4, <2>5, DispatchStep
<1>6. CASE act' = [act EXCEPT ![g] = Terminate(@)] /\ call' = [call EXCEPT ![k].pc = "end"] /\ UNCHANGED toA
  <2>1. /\ Terminate(act[g]) \in Actors /\ Terminate(act[g]).pc = act[g].pc
        /\ Terminate(act[g]).pend.cmd = 0 /\ Steady(act[g], Terminate(act[g]))
    BY <1>4, TerminateFields DEF Steady
  <2>2. "end" \in Under BY DEF Under
  <2> QED BY <1>0, <1>2, <1>6, <2>1, <2>2, DispatchStep
<1> QED BY <1>5, <1>6 DEF WriteCommand

LEMMA AbandonCommandGood == ASSUME Inv, NEW k \in Callers, AbandonCommand(k) PROVE Good
<1> DEFINE g == call[k].g
<1>0. /\ call[k].pc = "wait" /\ call[k].pc \in Under /\ call' = [call EXCEPT ![k].pc = "end"]
      /\ UNCHANGED <<b, db, ag, up, toC, toA>>
  BY DEF AbandonCommand, Under
<1>1. Typed BY DEF Inv
<1>2. call[k] \in Calls /\ db \in Stores /\ act \in [Gens -> Actors] /\ toA \in [Gens -> Seq(Orders)]
  BY <1>1 DEF Typed
<1>3. g \in Gens BY <1>0, <1>2, CallOf
<1>4. act[g] \in Actors /\ "end" \in Under BY <1>2, <1>3 DEF Under
<1>5. CASE act[g].term /\ UNCHANGED act
  <2>1. act' = [act EXCEPT ![g] = act[g]] BY <1>2, <1>5
  <2>2. act[g].pend.cmd = 0 /\ Steady(act[g], act[g]) BY <1>4, <1>5, ActorOf DEF Orderly, Steady
  <2> QED BY <1>0, <1>2, <1>4, <2>1, <2>2, DispatchStep
<1>6. CASE act' = [act EXCEPT ![g] = Terminate(@)]
  <2>1. /\ Terminate(act[g]) \in Actors /\ Terminate(act[g]).pc = act[g].pc
        /\ Terminate(act[g]).pend.cmd = 0 /\ Steady(act[g], Terminate(act[g]))
    BY <1>4, TerminateFields DEF Steady
  <2> QED BY <1>0, <1>2, <1>4, <1>6, <2>1, DispatchStep
<1> QED BY <1>5, <1>6 DEF AbandonCommand, SessionDone

LEMMA EndCommandDispatchGood == ASSUME Inv, NEW k \in Callers, EndCommandDispatch(k) PROVE Good
<1>0. /\ call[k].pc = "end" /\ b.lock = 0 /\ call' = [call EXCEPT ![k] = Resting]
      /\ b' = [b EXCEPT !.inFlight = IF b.inFlight = call[k].g THEN 0 ELSE b.inFlight]
      /\ UNCHANGED <<act, db, ag, up, toC, toA>>
  BY DEF EndCommandDispatch
<1>1. Typed /\ Numbered /\ Projecting /\ (~b.closed => Dispatching) BY DEF Inv
<1>2. b \in Brokers BY <1>1 DEF Typed
<1>3. /\ call' \in [Callers -> Calls] /\ call'[k] = Resting
      /\ \A o \in Callers : o # k => call'[o] = call[o]
  BY <1>0, <1>1, FreshRecords, OneCall
<1>4. /\ b' \in Brokers /\ b'.lock = b.lock /\ b'.projected = b.projected
      /\ b'.closed = b.closed /\ b'.gen = b.gen
  BY <1>0, <1>2, Gen DEF Brokers
<1>5. Typed' BY <1>0, <1>1, <1>3, <1>4 DEF Typed
<1>6. Numbered' BY <1>0, <1>1, <1>4 DEF Numbered
<1>7. Projecting' BY <1>0, <1>1, <1>4, ProjectingKeeps
<1>8. ASSUME ~b'.closed PROVE Dispatching'
  <2>1. Dispatching BY <1>1, <1>4, <1>8
  <2>2. \A o \in Callers : call[o].pc \in Under => o = k BY <1>0, <2>1 DEF Dispatching, Under
  <2>3. \A o \in Callers : call'[o].pc \notin Under BY <1>3, <2>2, FreshRecords DEF Under
  <2>4. \A h \in Gens : act[h].pend.cmd = 0
    <3>1. ASSUME NEW h \in Gens, act[h].pend.cmd # 0 PROVE FALSE
      <4>1. PICK o \in Callers : call[o].pc \in {"write", "wait"} BY <2>1, <3>1 DEF Dispatching
      <4>2. o = k BY <2>2, <4>1 DEF Under
      <4> QED BY <1>0, <4>1, <4>2
    <3> QED BY <3>1
  <2> QED BY <1>0, <1>4, <2>3, <2>4 DEF Dispatching
<1>9. Renewed BY <1>0 DEF Renewed, Steady
<1>10. db'.gen >= db.gen BY <1>0, StoreStays
<1> QED BY <1>5, <1>6, <1>7, <1>8, <1>9, <1>10 DEF Good, Inv

LEMMA HandleExecutionUpdateGood ==
    ASSUME Inv, NEW g \in Gens, HandleExecutionUpdate(g) PROVE Good
<1> DEFINE m == Head(toC[g])
           first == act[g].pend.cmd = m.of
<1>0. /\ act[g].pc = "run" /\ toC[g] # <<>> /\ m.t \in {"open", "done"}
      /\ toC' = [toC EXCEPT ![g] = Tail(@)] /\ UNCHANGED <<b, ag, up>>
  BY DEF HandleExecutionUpdate
<1>1. Typed /\ Numbered /\ Projecting /\ (~b.closed => Dispatching) BY DEF Inv
<1>2. /\ act \in [Gens -> Actors] /\ act[g] \in Actors /\ toC \in [Gens -> Seq(Reports)]
      /\ toA \in [Gens -> Seq(Orders)] /\ db \in Stores /\ call \in [Callers -> Calls]
  BY <1>1 DEF Typed
<1>3. toC' \in [Gens -> Seq(Reports)] /\ toC' # toC /\ m \in Reports BY <1>0, <1>2, QueueTail
<1>4. m.of \in Names /\ (m.t # "done" => m.of \in Cmds) BY <1>0, <1>3, ReportOf
<1>5. Renewed BY <1>3 DEF Renewed
<1> HIDE DEF m
<1>6. CASE act' = [act EXCEPT ![g] = EndReader(@)] /\ UNCHANGED <<db, toA, call>>
  <2>1. EndReader(act[g]) \in Actors /\ Calm(act[g], EndReader(act[g]))
    BY <1>0, <1>2, EndReaderFields DEF Calm
  <2>2. act' \in [Gens -> Actors] /\ Calmly BY <1>1, <1>6, <2>1, OneCalm
  <2>3. Typed' BY <1>0, <1>1, <1>3, <1>6, <2>2 DEF Typed
  <2>4. Still /\ NoDispatch BY <1>0, <1>6 DEF Still, NoDispatch
  <2> QED BY <1>5, <2>2, <2>3, <2>4, QuietGood DEF Quiet
<1> DEFINE kn == KnownAfter(act[g].known, m)
           pd == IF first THEN NoPend ELSE act[g].pend
           z == [act[g] EXCEPT !.known = kn]
           y == IF act[g].term THEN EndReader(act[g]) ELSE [z EXCEPT !.pend = pd]
<1>7. CASE /\ db' = [db EXCEPT !.done = @ \/ m.t = "done", !.open = @ \cup {m.of}]
           /\ toA' = IF act[g].term THEN toA ELSE Send(toA, g, Msg("ack", "upd"))
           /\ act' = [act EXCEPT ![g] = y]
           /\ call' = [k \in Callers |-> IF first /\ call[k].pc = "wait" /\ call[k].g = g
                                         THEN [call[k] EXCEPT !.pc = "end"] ELSE call[k]]
  <2>1. db' \in Stores /\ db'.gen = db.gen
    <3>1. (db.done \/ m.t = "done") \in BOOLEAN /\ (db.open \cup {m.of}) \in SUBSET Names
      BY <1>2, <1>4, StoreOf
    <3> QED BY <1>2, <1>7, <3>1 DEF Stores
  <2>2. toA' \in [Gens -> Seq(Orders)] BY <1>2, <1>7, MessageTyped, QueueSend
  <2>3. kn \in SUBSET Cmds BY <1>2, <1>4, ActorOf DEF KnownAfter
  <2>4. pd \in Pends /\ (act[g].term => pd.cmd = 0) /\ (pd.cmd = 0 => ~pd.acked)
        /\ pd.cmd \in {0, act[g].pend.cmd} /\ (first => pd.cmd = 0)
    <3>1. NoPend \in Pends /\ NoPend.cmd = 0 /\ ~NoPend.acked BY NothingSnap DEF NoPend
    <3>2. act[g].pend \in Pends /\ Orderly(act[g]) BY <1>2, ActorOf
    <3> QED BY <3>1, <3>2 DEF Orderly
  <2> HIDE DEF first, kn, pd
  <2>5. z \in Actors /\ z.pc = act[g].pc /\ z.term = act[g].term BY <1>2, <2>3, KnownFields
  <2> HIDE DEF z
  <2>6. y \in Actors /\ Calm(act[g], y) /\ (first => y.pend.cmd = 0)
    <3>1. CASE act[g].term
      BY <1>0, <1>2, <3>1, EndReaderFields DEF Calm
    <3>2. CASE ~act[g].term
      <4>1. y \in Actors /\ y.pc = act[g].pc /\ y.pend = pd BY <2>4, <2>5, <3>2, PendFields
      <4> QED BY <1>0, <2>4, <4>1 DEF Calm
    <3> QED BY <3>1, <3>2
  <2> HIDE DEF y
  <2>7. act' \in [Gens -> Actors] /\ Calmly /\ act'[g] = y BY <1>1, <1>7, <2>6, OneCalm
  <2>8. ASSUME NEW k \in Callers
        PROVE  /\ call'[k] \in Calls /\ call'[k].g = call[k].g
               /\ call'[k].pc \in Under <=> call[k].pc \in Under
               /\ (~first \/ call[k].g # g) => call'[k] = call[k]
    <3>1. CASE first /\ call[k].pc = "wait" /\ call[k].g = g
      <4>1. "end" \in CallPhases BY DEF CallPhases
      <4>2. call[k] \in Calls /\ call'[k] = [call[k] EXCEPT !.pc = "end"] BY <1>2, <1>7, <3>1
      <4>3. call'[k] \in Calls /\ call'[k].g = call[k].g /\ call'[k].pc = "end"
        BY <3>1, <4>1, <4>2, CallMoves
      <4> QED BY <3>1, <4>3 DEF Under
    <3>2. CASE ~(first /\ call[k].pc = "wait" /\ call[k].g = g)
      <4>1. call'[k] = call[k] /\ call[k] \in Calls BY <1>2, <1>7, <3>2
      <4> QED BY <4>1
    <3> QED BY <3>1, <3>2
  <2>9. call' \in [Callers -> Calls] BY <1>7, <2>8
  <2>10. Typed' BY <1>0, <1>1, <1>3, <2>1, <2>2, <2>7, <2>9 DEF Typed
  <2>11. Numbered' BY <1>0, <1>1, <2>7 DEF Numbered, Calmly, Calm
  <2>12. Projecting'
    <3>1. \A h \in Gens : \/ act'[h].pc = act[h].pc
                         \/ {act[h].pc, act'[h].pc} \cap {"locked", "stored"} = {}
      BY <2>7 DEF Calmly, Calm
    <3> QED BY <1>0, <1>1, <2>1, <3>1, ProjectingKeeps
  <2>13. ASSUME ~b'.closed PROVE Dispatching'
    <3>1. Dispatching BY <1>0, <1>1, <2>13
    <3>2. ASSUME NEW h \in Gens, act'[h].pend.cmd # 0
          PROVE  \E o \in Callers : /\ call'[o].pc \in {"write", "wait"} /\ call'[o].g = h
                                    /\ call'[o].cmd = act'[h].pend.cmd
      <4>1. act[h].pend.cmd # 0 /\ act'[h].pend.cmd = act[h].pend.cmd BY <2>7, <3>2 DEF Calmly, Calm
      <4>2. ~first \/ h # g BY <2>6, <2>7, <3>2
      <4>3. PICK o \in Callers : /\ call[o].pc \in {"write", "wait"} /\ call[o].g = h
                                 /\ call[o].cmd = act[h].pend.cmd
        BY <3>1, <4>1 DEF Dispatching
      <4>4. call'[o] = call[o] BY <2>8, <4>2, <4>3
      <4> QED BY <4>1, <4>3, <4>4
    <3>3. \A o \in Callers : call'[o].pc \in Under => call[o].pc \in Under /\ call'[o].g = call[o].g
      BY <2>8
    <3> QED BY <1>0, <3>1, <3>2, <3>3, DispatchingMoves
  <2>14. db'.gen >= db.gen
    <3>1. db.gen \in Nat BY <1>2, StoreOf, Gen
    <3> QED BY <2>1, <3>1
  <2> QED BY <1>5, <2>10, <2>11, <2>12, <2>13, <2>14 DEF Good, Inv
<1> QED BY <1>6, <1>7 DEF HandleExecutionUpdate, m, Updated

---------------------------------------------------------------------------
(* The theorems *)

LEMMA InitInv == Init => Inv
<1> SUFFICES ASSUME Init PROVE Inv OBVIOUS
<1> USE DEF Init
<1>1. Typed
  <2>1. b \in Brokers BY FreshRecords, Gen DEF Brokers
  <2>2. act \in [Gens -> Actors] BY Fresh
  <2>3. call \in [Callers -> Calls] BY FreshRecords
  <2>4. db \in Stores BY NothingSnap, Gen DEF Stores
  <2>5. ag \in Agents
    <3>1. <<>> \in Seq(Updates) OBVIOUS
    <3> QED BY <3>1, NothingSnap, Gen, Intent DEF Agents, AgentRecords
  <2>6. up \in [Gens -> BOOLEAN] OBVIOUS
  <2>7. toC \in [Gens -> Seq(Reports)] /\ toA \in [Gens -> Seq(Orders)] OBVIOUS
  <2> QED BY <2>1, <2>2, <2>3, <2>4, <2>5, <2>6, <2>7 DEF Typed
<1>2. \A g \in Gens : act[g].pc = "none" /\ act[g].pend.cmd = 0 BY Fresh
<1>3. Numbered BY <1>2 DEF Numbered
<1>4. Projecting BY <1>2, Gen DEF Projecting
<1>5. Dispatching BY <1>2, FreshRecords DEF Dispatching, Under
<1> QED BY <1>1, <1>3, <1>4, <1>5 DEF Inv

LEMMA NextGood == ASSUME Inv, Next PROVE Good
<1>0. Typed BY DEF Inv
<1>1. ASSUME NEW g \in Gens, Reader(g) \/ LeaseElapses(g) \/ ExpireReadiness(g) PROVE Good
  <2>1. CASE ReadHello(g) BY <1>0, <2>1, ReadHelloQuiet, QuietGood
  <2>2. CASE BeginProjection(g) BY <2>2, BeginProjectionGood
  <2>3. CASE HandleAgentSnapshot(g) BY <2>3, HandleAgentSnapshotGood
  <2>4. CASE RecordProjection(g) BY <2>4, RecordProjectionGood
  <2>5. CASE MarkReady(g) BY <1>0, <2>5, MarkReadyQuiet, QuietGood
  <2>6. CASE HandleHeartbeat(g) BY <1>0, <2>6, HandleHeartbeatQuiet, QuietGood
  <2>7. CASE HandleCommandAck(g) BY <1>0, <2>7, HandleCommandAckQuiet, QuietGood
  <2>8. CASE HandleExecutionUpdate(g) BY <2>8, HandleExecutionUpdateGood
  <2>9. CASE ReadFails(g) BY <1>0, <2>9, ReadFailsQuiet, QuietGood
  <2>10. CASE EndSnapshotCapture(g) BY <1>0, <2>10, EndSnapshotCaptureQuiet, QuietGood
  <2>11. CASE Deactivate(g) BY <1>0, <2>11, DeactivateQuiet, QuietGood
  <2>12. CASE CommitDisconnect(g) BY <1>0, <2>12, CommitDisconnectQuiet, QuietGood
  <2>13. CASE FinishDisconnect(g) BY <1>0, <2>13, FinishDisconnectQuiet, QuietGood
  <2>14. CASE LeaseElapses(g) BY <1>0, <2>14, LeaseElapsesQuiet, QuietGood
  <2>15. CASE ExpireReadiness(g) BY <1>0, <2>15, ExpireReadinessQuiet, QuietGood
  <2> QED BY <1>1, <2>1, <2>2, <2>3, <2>4, <2>5, <2>6, <2>7, <2>8, <2>9, <2>10, <2>11, <2>12, <2>13,
             <2>14, <2>15 DEF Reader
<1>2. ASSUME NEW k \in Callers, BeginCall(k) \/ Caller(k) PROVE Good
  <2>1. CASE BeginCall(k) BY <1>0, <2>1, BeginCallQuiet, QuietGood
  <2>2. CASE BeginCommandDispatch(k) BY <2>2, BeginCommandDispatchGood
  <2>3. CASE RegisterCommand(k) BY <2>3, RegisterCommandGood
  <2>4. CASE WriteCommand(k) BY <2>4, WriteCommandGood
  <2>5. CASE AbandonCommand(k) BY <2>5, AbandonCommandGood
  <2>6. CASE EndCommandDispatch(k) BY <2>6, EndCommandDispatchGood
  <2> QED BY <1>2, <2>1, <2>2, <2>3, <2>4, <2>5, <2>6 DEF Caller
<1>3. CASE AgentStep
  <2>1. CASE AgentSnapshot BY <1>0, <2>1, AgentSnapshotQuiet, QuietGood
  <2>2. CASE AgentSendsUpdate BY <1>0, <2>2, AgentSendsUpdateQuiet, QuietGood
  <2>3. CASE AgentReadsAck BY <1>0, <2>3, AgentReadsAckQuiet, QuietGood
  <2>4. CASE AgentCommand BY <1>0, <2>4, AgentCommandQuiet, QuietGood
  <2>5. CASE AgentSeesEnd BY <1>0, <2>5, ConnectionEndsQuiet, QuietGood
  <2> QED BY <1>3, <2>1, <2>2, <2>3, <2>4, <2>5 DEF AgentStep
<1>4. CASE Dial BY <1>4, DialGood
<1>5. CASE AgentHeartbeat BY <1>0, <1>5, AgentHeartbeatQuiet, QuietGood
<1>6. CASE AgentFinishes BY <1>0, <1>6, AgentFinishesQuiet, QuietGood
<1>7. CASE Break BY <1>0, <1>7, ConnectionEndsQuiet, QuietGood
<1>8. CASE SetAvailability \/ SetIntent BY <1>0, <1>8, OwnerQuiet, QuietGood
<1>9. CASE CloseBroker BY <1>9, CloseBrokerGood
<1> QED BY <1>1, <1>2, <1>3, <1>4, <1>5, <1>6, <1>7, <1>8, <1>9 DEF Next

LEMMA StutterGood == ASSUME Inv, UNCHANGED vars PROVE Inv'
BY DEF vars, Inv, Typed, Numbered, Projecting, Dispatching

LEMMA Invariant == Spec => []Inv
<1>1. Inv /\ [Next]_vars => Inv' BY NextGood, StutterGood DEF Good
<1> QED BY <1>1, InitInv, PTL DEF Spec

\* The journal the store holds is never replaced by one of an older connection,
\* and a readiness timer that a later heartbeat has overtaken never takes the
\* node out of capacity, for any number of connections, callers and events.
THEOREM LateLoses == Spec => NewestWins
<1>1. Inv /\ [Next]_vars => [db'.gen >= db.gen]_vars BY NextGood DEF Good
<1>2. Inv /\ [Next]_vars
        => [\A g \in Gens : act[g].timer # 0 /\ act[g].snap.nat /\ toC' = toC /\ ~act'[g].term
                              => act'[g].snap.nat]_vars
  BY NextGood DEF Good, Renewed, Steady
<1>3. Spec => NewestJournal BY <1>1, Invariant, PTL DEF Spec, NewestJournal
<1>4. Spec => RenewedLeaseHolds BY <1>2, Invariant, PTL DEF Spec, RenewedLeaseHolds
<1> QED BY <1>3, <1>4 DEF NewestWins

\* A command never crosses a snapshot and never meets another one: from its
\* dispatch to its answer no session is projected, its own stays the one
\* projected last, and no other command of it is pending (beginCommandDispatch,
\* mayProject, recordProjection); and every value keeps its type.
THEOREM CommandsAreAlone == Spec => [](TypeOK /\ DispatchExcludesProjection /\ DispatchPinsSession)
<1>1. ASSUME Inv PROVE TypeOK
  <2>1. Typed BY <1>1 DEF Inv
  <2>2. b \in Brokers /\ db \in Stores /\ ag \in Agents /\ act \in [Gens -> Actors] BY <2>1 DEF Typed
  <2>3. {b.session, b.projected, b.capture.g, b.inFlight, b.disc, b.lock, b.gen} \subseteq 0..MaxGen
    BY <2>2, BrokerOf DEF Generations
  <2>4. ASSUME NEW g \in Gens
        PROVE  /\ act[g].pc \in {"none", "hello", "captured", "locked", "stored", "active", "run", "ret",
                                 "uncap", "disc", "withdrawn", "kept", "closed"}
               /\ act[g].known \subseteq Cmds /\ act[g].pend.cmd \in Cmds \cup {0}
               /\ act[g].timer \in {0, act[g].lease}
    <3>1. act[g] \in Actors BY <2>2
    <3> QED BY <3>1, ActorOf DEF Phases, Names, Orderly
  <2>5. db.issued \subseteq Cmds BY <2>2, StoreOf
  <2>6. ag.j \in Journals /\ ag.own \in {1, 2} /\ ag.dur \in {1, 2} /\ ag.req \in SUBSET {1, 2}
        /\ ag.conf \in Intents
    BY <2>2, AgentOf
  <2>7. ag.j.cmds \subseteq Cmds BY <2>6 DEF Journals
  <2>8. {ag.own, ag.dur} \cup ag.req \subseteq {1, 2} /\ ag.conf \in {0, 1, 2} BY <2>6 DEF Intents
  <2> QED BY <2>3, <2>4, <2>5, <2>7, <2>8 DEF TypeOK
<1>2. ASSUME Inv PROVE DispatchExcludesProjection
  <2> SUFFICES ASSUME ~b.closed, NEW k \in Callers, NEW g \in Gens,
                      call[k].pc \in {"disp", "write", "wait"}, act[g].pc \in {"locked", "stored"}
               PROVE  FALSE
    BY DEF DispatchExcludesProjection
  <2>1. Typed /\ Projecting /\ Dispatching BY <1>2 DEF Inv
  <2>2. b.lock = g /\ g # 0 BY <2>1, Gen DEF Projecting
  <2>3. call[k].g = 0 BY <2>1, <2>2 DEF Dispatching, Under
  <2>4. call[k] \in Calls BY <2>1 DEF Typed
  <2> QED BY <2>3, <2>4, CallOf, Gen
<1>3. ASSUME Inv PROVE DispatchPinsSession
  <2> SUFFICES ASSUME ~b.closed, NEW k \in Callers, call[k].pc \in {"disp", "write", "wait"}
               PROVE  b.projected = call[k].g /\ act[call[k].g].pend.cmd \in {0, call[k].cmd}
    BY DEF DispatchPinsSession
  <2>1. call[k].pc \in Under /\ Dispatching BY <1>3 DEF Under, Inv
  <2>2. b.projected = call[k].g BY <2>1 DEF Dispatching
  <2>3. act[call[k].g].pend.cmd \in {0, call[k].cmd} BY <1>3, <2>1, OnlyItsCommand
  <2> QED BY <2>2, <2>3
<1> QED BY <1>1, <1>2, <1>3, Invariant, PTL

---------------------------------------------------------------------------
(* Messages of a kind in a queue *)

HbC   == {m \in Reports : m.t = "hb"}
SnapC == {m \in Reports : m.t = "snap"}
AckC  == {m \in Reports : m.t = "ack"}
UpdC  == {m \in Reports : m.t \in {"open", "done"}}
HbA   == {m \in Orders : m.t = "ack" /\ m.of = "hb"}
UpdA  == {m \in Orders : m.t = "ack" /\ m.of = "upd"}
CmdA  == {m \in Orders : m.t = "cmd"}

None(q, M) == \A i \in DOMAIN q : q[i] \notin M
One(q, M)  == \A i, j \in DOMAIN q : q[i] \in M /\ q[j] \in M => i = j

\* What r has of the kind it has from q.
Kept(q, r, M) ==
    /\ \A i \in DOMAIN r : r[i] \in M => \E j \in DOMAIN q : q[j] = r[i]
    /\ One(q, M) => One(r, M)

LEMMA TailOf ==
    ASSUME NEW S, NEW q \in Seq(S), q # <<>>
    PROVE  /\ Tail(q) \in Seq(S) /\ Head(q) \in S /\ Head(q) = q[1] /\ 1 \in DOMAIN q
           /\ Len(q) \in Nat /\ Len(q) >= 1 /\ Len(Tail(q)) = Len(q) - 1
           /\ DOMAIN q = 1..Len(q) /\ DOMAIN Tail(q) = 1..(Len(q) - 1)
           /\ \A i \in DOMAIN Tail(q) : i \in Nat /\ i + 1 \in DOMAIN q /\ Tail(q)[i] = q[i + 1]
<1>1. Len(q) \in Nat /\ Len(q) >= 1 /\ DOMAIN q = 1..Len(q) BY EmptySeq
<1>2. Tail(q) \in Seq(S) /\ Head(q) \in S /\ Head(q) = q[1] /\ Len(Tail(q)) = Len(q) - 1 OBVIOUS
<1>3. DOMAIN Tail(q) = 1..(Len(q) - 1) BY <1>2
<1>4. \A i \in 1..(Len(q) - 1) : i \in Nat /\ i + 1 \in 1..Len(q) /\ Tail(q)[i] = q[i + 1]
  BY <1>1, <1>2
<1> QED BY <1>1, <1>2, <1>3, <1>4

LEMMA AppendOf ==
    ASSUME NEW S, NEW q \in Seq(S), NEW m \in S
    PROVE  /\ Append(q, m) \in Seq(S) /\ Len(q) \in Nat /\ Len(Append(q, m)) = Len(q) + 1
           /\ DOMAIN q = 1..Len(q) /\ DOMAIN Append(q, m) = 1..(Len(q) + 1)
           /\ Append(q, m)[Len(q) + 1] = m
           /\ \A i \in DOMAIN q : i \in Nat /\ i <= Len(q) /\ i \in DOMAIN Append(q, m) /\ Append(q, m)[i] = q[i]
           /\ \A i \in DOMAIN Append(q, m) : i \in Nat /\ (i \in DOMAIN q \/ i = Len(q) + 1)
<1>1. Append(q, m) \in Seq(S) /\ Len(q) \in Nat /\ Len(Append(q, m)) = Len(q) + 1 OBVIOUS
<1>2. DOMAIN q = 1..Len(q) /\ DOMAIN Append(q, m) = 1..(Len(q) + 1) BY <1>1
<1>3. Append(q, m)[Len(q) + 1] = m /\ \A i \in 1..Len(q) : Append(q, m)[i] = q[i] OBVIOUS
<1> QED BY <1>1, <1>2, <1>3

LEMMA KeptSame == ASSUME NEW q, NEW M PROVE Kept(q, q, M)
BY DEF Kept

LEMMA KeptClear == ASSUME NEW q, NEW M PROVE Kept(q, <<>>, M)
BY DEF Kept, One

LEMMA KeptTail ==
    ASSUME NEW S, NEW q \in Seq(S), q # <<>>, NEW M
    PROVE  Kept(q, Tail(q), M)
<1>1. \A i \in DOMAIN Tail(q) : i \in Nat /\ i + 1 \in DOMAIN q /\ Tail(q)[i] = q[i + 1] BY TailOf
<1>2. \A i \in DOMAIN Tail(q) : \E j \in DOMAIN q : q[j] = Tail(q)[i] BY <1>1
<1>3. ASSUME One(q, M), NEW i \in DOMAIN Tail(q), NEW j \in DOMAIN Tail(q), Tail(q)[i] \in M, Tail(q)[j] \in M
      PROVE  i = j
  <2>1. i + 1 = j + 1 BY <1>1, <1>3 DEF One
  <2> QED BY <1>1, <2>1
<1> QED BY <1>2, <1>3 DEF Kept, One

LEMMA KeptAppend ==
    ASSUME NEW S, NEW q \in Seq(S), NEW m \in S, NEW M, m \notin M
    PROVE  Kept(q, Append(q, m), M)
<1>1. \A i \in DOMAIN Append(q, m) : Append(q, m)[i] \in M => i \in DOMAIN q /\ Append(q, m)[i] = q[i]
  BY AppendOf
<1> QED BY <1>1 DEF Kept, One

\* The only one is read.
LEMMA ReadOne ==
    ASSUME NEW S, NEW q \in Seq(S), q # <<>>, NEW M, One(q, M), Head(q) \in M
    PROVE  None(Tail(q), M)
<1>1. /\ 1 \in DOMAIN q /\ Head(q) = q[1]
      /\ \A i \in DOMAIN Tail(q) : i \in Nat /\ i + 1 \in DOMAIN q /\ Tail(q)[i] = q[i + 1] /\ i \in 1..(Len(q) - 1)
  BY TailOf
<1> SUFFICES ASSUME NEW i \in DOMAIN Tail(q), Tail(q)[i] \in M PROVE FALSE BY DEF None
<1>2. i + 1 = 1 BY <1>1 DEF One
<1>3. i \in Nat /\ i >= 1 BY <1>1, TailOf
<1> QED BY <1>2, <1>3

\* The first one is sent.
LEMMA SendOne ==
    ASSUME NEW S, NEW q \in Seq(S), NEW m \in S, NEW M, None(q, M)
    PROVE  /\ One(Append(q, m), M)
           /\ \A i \in DOMAIN Append(q, m) : Append(q, m)[i] \in M => Append(q, m)[i] = m
<1>1. \A i \in DOMAIN Append(q, m) : Append(q, m)[i] \in M => i = Len(q) + 1 BY AppendOf DEF None
<1>2. Append(q, m)[Len(q) + 1] = m BY AppendOf
<1> QED BY <1>1, <1>2 DEF One

LEMMA KeptNone == ASSUME NEW q, NEW r, NEW M, Kept(q, r, M), None(q, M) PROVE None(r, M)
BY DEF Kept, None

LEMMA SentTo ==
    ASSUME NEW S, NEW q \in [Gens -> Seq(S)], NEW g \in Gens, NEW m \in S
    PROVE  /\ \A h \in Gens : h # g \/ ~up[g] => Send(q, g, m)[h] = q[h]
           /\ up[g] => Send(q, g, m)[g] = Append(q[g], m)
BY DEF Send

LEMMA KeptSend ==
    ASSUME NEW S, NEW q \in [Gens -> Seq(S)], NEW g \in Gens, NEW m \in S, NEW M, m \notin M, NEW h \in Gens
    PROVE  Kept(q[h], Send(q, g, m)[h], M)
<1>1. q[g] \in Seq(S) OBVIOUS
<1>2. CASE h # g \/ ~up[g] BY <1>2, SentTo, KeptSame
<1>3. CASE h = g /\ up[g]
  <2>1. Send(q, g, m)[h] = Append(q[g], m) BY <1>3, SentTo
  <2> QED BY <1>1, <1>3, <2>1, KeptAppend
<1> QED BY <1>2, <1>3

LEMMA KeptRead ==
    ASSUME NEW S, NEW q \in [Gens -> Seq(S)], NEW g \in Gens, q[g] # <<>>, NEW M, NEW h \in Gens
    PROVE  Kept(q[h], [q EXCEPT ![g] = Tail(@)][h], M)
<1>1. q[g] \in Seq(S) OBVIOUS
<1>2. CASE h # g BY <1>2, KeptSame
<1>3. CASE h = g
  <2>1. [q EXCEPT ![g] = Tail(@)][h] = Tail(q[g]) BY <1>3
  <2> QED BY <1>1, <1>3, <2>1, KeptTail
<1> QED BY <1>2, <1>3

---------------------------------------------------------------------------
(* Connections, the owner's intent, heartbeats *)

On(g) == ag.pc # "off" /\ ag.g = g

\* A connection the ends believe in is the Agent's own and the newest; one that has not
\* been accepted has no messages.
Connected ==
    /\ \A g \in Gens : up[g] <=> On(g)
    /\ ag.pc # "off" => ag.g = b.gen
    /\ \A g \in Gens : g > b.gen => toC[g] = <<>> /\ toA[g] = <<>>

\* The store follows the projections, and a session whose snapshot it holds knows the
\* intent in it.
Followed == ~b.closed /\ (\A g \in Gens : act[g].pc # "stored") => db.gen = b.projected
Holding == {"stored", "active", "run"}
Intended == \A g \in Gens : act[g].pc \in Holding /\ db.gen = g => db.snap.own = act[g].snap.own

\* A heartbeat is either under way or acknowledged, and the store holds the intent of
\* an acknowledged one.
Beat(g) ==
    /\ One(toC[g], HbC) /\ One(toA[g], HbA)
    /\ None(toC[g], HbC) \/ None(toA[g], HbA)
    /\ ag.hb = 0 \/ ag.pc # "run" => None(toC[g], HbC) /\ None(toA[g], HbA)
    /\ \A i \in DOMAIN toC[g] : toC[g][i] \in HbC => toC[g][i].s.own = ag.hb
    /\ ~None(toA[g], HbA) => db.snap.own = ag.hb /\ b.projected = g
Beats == \A g \in Gens : On(g) => Beat(g)

Early == {"none", "hello", "captured", "locked", "stored", "active"}
Ended == {"ret", "uncap", "disc", "withdrawn", "kept", "closed"}
Live(g) == act[g].pc \in {"active", "run"} /\ ~act[g].term

\* A session that may act is the broker's.
Serve(g) ==
    /\ Live(g) => b.session = g /\ ~b.closed
    /\ act[g].pc \in Ended => act[g].term
    /\ act[g].ready => act[g].pc \notin Early
Served == \A g \in Gens : Serve(g)

BeatInv == Connected /\ Served /\ Followed /\ Intended /\ Beats

---------------------------------------------------------------------------
(* Steps that leave the sessions as they are, or end one *)

\* An actor stays what it was, is terminated where it stands, or has left its session.
Mild(x, y) ==
    \/ /\ y.pc = x.pc /\ y.term = x.term /\ y.pend = x.pend /\ y.known = x.known /\ y.ready = x.ready
       /\ y.snap.j = x.snap.j /\ y.snap.own = x.snap.own
    \/ y.term /\ y.pc = x.pc /\ y.ready = x.ready /\ y.snap.j = x.snap.j /\ y.snap.own = x.snap.own
    \/ y.term /\ y.pc \in Ended

\* Only an actor that has left its session drops messages.
Drain(h) ==
    \/ toC'[h] = toC[h]
    \/ /\ act'[h].pc \in Ended /\ act'[h].term
       /\ Kept(toC[h], toC'[h], HbC) /\ Kept(toC[h], toC'[h], SnapC) /\ Kept(toC[h], toC'[h], UpdC)

\* A caller waits, starts, or leaves.
Onward(x, y) ==
    \/ y = x \/ y.pc = "idle"
    \/ /\ y.g = x.g /\ y.cmd = x.cmd /\ x.pc # "idle"
       /\ y.pc = "end" \/ (x.pc = "gate" /\ y.pc = "disp")

Elsewhere ==
    /\ UNCHANGED <<ag, up, toA>>
    /\ b'.projected = b.projected /\ b'.gen = b.gen
    /\ db'.gen = db.gen /\ db'.snap.own = db.snap.own /\ db'.issued = db.issued
    /\ db.open \subseteq db'.open
    /\ \A k \in Callers : Onward(call[k], call'[k])
MildStep ==
    /\ Elsewhere
    /\ b.closed => b'.closed
    /\ \A h \in Gens : Mild(act[h], act'[h]) /\ Drain(h) /\ (h > b.gen => toC'[h] = toC[h])
    /\ b'.closed \/ \A h \in Gens : act[h].pc = "stored" => act'[h].pc = "stored"
    /\ \/ b'.session = b.session /\ b'.closed = b.closed
       \/ \A h \in Gens : Live(h)' => b'.session = h /\ ~b'.closed

LEMMA BeatKeeps ==
    ASSUME NEW g \in Gens, Beat(g), Kept(toC[g], toC'[g], HbC), Kept(toA[g], toA'[g], HbA),
           ag'.hb = ag.hb, ag.pc = "run" => ag'.pc = "run",
           None(toA[g], HbA) \/ (db'.snap.own = db.snap.own /\ b'.projected = b.projected)
    PROVE  Beat(g)'
<1>1. One(toC'[g], HbC) /\ One(toA'[g], HbA) BY DEF Beat, Kept
<1>2. None(toC[g], HbC) => None(toC'[g], HbC) BY KeptNone
<1>3. None(toA[g], HbA) => None(toA'[g], HbA) BY KeptNone
<1>4. \A i \in DOMAIN toC'[g] : toC'[g][i] \in HbC => toC'[g][i].s.own = ag'.hb BY DEF Beat, Kept
<1>5. None(toC'[g], HbC) \/ None(toA'[g], HbA) BY <1>2, <1>3 DEF Beat
<1>6. ag'.hb = 0 \/ ag'.pc # "run" => None(toC'[g], HbC) /\ None(toA'[g], HbA)
  BY <1>2, <1>3 DEF Beat
<1>7. ~None(toA'[g], HbA) => db'.snap.own = ag'.hb /\ b'.projected = g BY <1>3 DEF Beat
<1>8. HbC' = HbC /\ HbA' = HbA BY DEF HbC, HbA, Reports, Orders, Updates
<1> QED BY <1>1, <1>4, <1>5, <1>6, <1>7, <1>8 DEF Beat, None, One

LEMMA MildServed == ASSUME BeatInv, MildStep PROVE Served'
<1> SUFFICES ASSUME NEW h \in Gens PROVE Serve(h)' BY DEF Served
<1>1. Serve(h) /\ Mild(act[h], act'[h]) BY DEF BeatInv, Served, MildStep
<1>2. Live(h)' => Live(h) BY <1>1 DEF Mild, Live, Ended
<1>3. Live(h)' => b'.session = h /\ ~b'.closed BY <1>1, <1>2 DEF MildStep, Serve
<1>4. act'[h].pc \in Ended => act'[h].term BY <1>1 DEF Mild, Serve
<1>5. act'[h].ready => act'[h].pc \notin Early BY <1>1 DEF Mild, Serve, Ended, Early
<1> QED BY <1>3, <1>4, <1>5 DEF Serve

LEMMA MildBeat == ASSUME BeatInv, MildStep PROVE BeatInv'
<1>1. Served' BY MildServed
<1>2. Connected' BY DEF BeatInv, MildStep, Elsewhere, Connected, On
<1>3. Followed' BY DEF BeatInv, MildStep, Elsewhere, Followed
<1>4. Intended'
  <2> SUFFICES ASSUME NEW h \in Gens, act'[h].pc \in Holding, db'.gen = h
               PROVE  db'.snap.own = act'[h].snap.own
    BY DEF Intended
  <2>1. Mild(act[h], act'[h]) /\ db'.gen = db.gen /\ db'.snap.own = db.snap.own
    BY DEF MildStep, Elsewhere
  <2>2. act'[h].pc = act[h].pc /\ act'[h].snap.own = act[h].snap.own BY <2>1 DEF Mild, Ended, Holding
  <2> QED BY <2>1, <2>2 DEF BeatInv, Intended
<1>5. Beats'
  <2> SUFFICES ASSUME NEW h \in Gens, On(h)' PROVE Beat(h)' BY DEF Beats
  <2>1. On(h) /\ ag' = ag /\ toA' = toA BY DEF MildStep, Elsewhere, On
  <2>2. Beat(h) BY <2>1 DEF BeatInv, Beats
  <2>3. Kept(toC[h], toC'[h], HbC) BY KeptSame DEF MildStep, Drain
  <2>4. Kept(toA[h], toA'[h], HbA) BY <2>1, KeptSame
  <2>5. db'.snap.own = db.snap.own /\ b'.projected = b.projected BY DEF MildStep, Elsewhere
  <2> QED BY <2>1, <2>2, <2>3, <2>4, <2>5, BeatKeeps
<1> QED BY <1>1, <1>2, <1>3, <1>4, <1>5 DEF BeatInv

Beside == Elsewhere /\ b'.session = b.session /\ b'.closed = b.closed

LEMMA OneMild ==
    ASSUME Inv, NEW g \in Gens, NEW y \in Actors, act' = [act EXCEPT ![g] = y], Mild(act[g], y),
           act[g].pc = "stored" => y.pc = "stored" \/ b.closed, Beside, toC' = toC
    PROVE  MildStep
<1>1. act'[g] = y /\ \A h \in Gens : h # g => act'[h] = act[h] BY OneActor DEF Inv
<1>2. \A h \in Gens : Mild(act[h], act'[h]) BY <1>1 DEF Mild
<1>3. \A h \in Gens : Drain(h) BY DEF Drain
<1>4. b.closed \/ \A h \in Gens : act[h].pc = "stored" => act'[h].pc = "stored" BY <1>1
<1> QED BY <1>2, <1>3, <1>4 DEF MildStep, Beside

LEMMA OneStops ==
    ASSUME Inv, NEW g \in Gens, act[g].pc \notin {"none", "stored"}, NEW y \in Actors, y.term,
           y.pc \in Ended, act' = [act EXCEPT ![g] = y], Beside,
           \/ toC' = toC \/ toC' = [toC EXCEPT ![g] = <<>>]
           \/ toC[g] # <<>> /\ toC' = [toC EXCEPT ![g] = Tail(@)]
    PROVE  MildStep
<1>1. act'[g] = y /\ \A h \in Gens : h # g => act'[h] = act[h] BY OneActor DEF Inv
<1>2. \A h \in Gens : Mild(act[h], act'[h]) BY <1>1 DEF Mild
<1>3. toC \in [Gens -> Seq(Reports)] BY DEF Inv, Typed
<1>4. \A h \in Gens : h # g => toC'[h] = toC[h] BY <1>3
<1>5. toC'[g] = toC[g] \/ toC'[g] = <<>> \/ (toC[g] # <<>> /\ toC'[g] = Tail(toC[g])) BY <1>3
<1>6. \A M : Kept(toC[g], toC'[g], M)
  <2> TAKE M
  <2>1. toC[g] \in Seq(Reports) BY <1>3
  <2>2. toC[g] # <<>> => Kept(toC[g], Tail(toC[g]), M) BY <2>1, KeptTail
  <2> QED BY <1>5, <2>2, KeptSame, KeptClear
<1>7. \A h \in Gens : Drain(h) BY <1>1, <1>4, <1>6 DEF Drain
<1>8. ~(g > b.gen)
  <2>1. g <= b.gen /\ g \in Nat BY Gen DEF Inv, Numbered
  <2>2. b.gen \in Nat BY BrokerOf, Gen DEF Inv, Typed
  <2> QED BY <2>1, <2>2
<1>9. \A h \in Gens : act[h].pc = "stored" => act'[h].pc = "stored" BY <1>1
<1> QED BY <1>2, <1>4, <1>7, <1>8, <1>9 DEF MildStep, Beside

LEMMA TerminateWhole ==
    ASSUME NEW x \in Actors
    PROVE  /\ Terminate(x) \in Actors /\ Mild(x, Terminate(x)) /\ Terminate(x).term
           /\ Terminate(x).pc = x.pc
<1>1. /\ Terminate(x).pc = x.pc /\ Terminate(x).ready = x.ready /\ Terminate(x).snap = x.snap
      /\ Terminate(x).term
  BY DEF Terminate, Actors, ActorRecords
<1> QED BY <1>1, TerminateFields DEF Mild

LEMMA EndWhole ==
    ASSUME NEW x \in Actors
    PROVE  EndReader(x) \in Actors /\ EndReader(x).term /\ EndReader(x).pc \in Ended
BY EndReaderFields DEF Ended

LEMMA BesideAll ==
    ASSUME UNCHANGED <<b, call, db, ag, up, toA>> PROVE Beside
BY DEF Beside, Elsewhere, Onward

\* The reader of a session ends; b's other fields and the rest of the store may change.
LEMMA ReaderEnds ==
    ASSUME Inv, NEW g \in Gens, act[g].pc \notin {"none", "stored"},
           act' = [act EXCEPT ![g] = EndReader(act[g])], Beside,
           \/ toC' = toC
           \/ toC[g] # <<>> /\ toC' = [toC EXCEPT ![g] = Tail(@)]
    PROVE  MildStep
<1>1. act[g] \in Actors BY DEF Inv, Typed
<1>2. EndReader(act[g]) \in Actors /\ EndReader(act[g]).term /\ EndReader(act[g]).pc \in Ended
  BY <1>1, EndWhole
<1> QED BY <1>2, OneStops

LEMMA ReadFailsMild == ASSUME Inv, NEW g \in Gens, ReadFails(g) PROVE MildStep
<1>1. /\ act[g].pc \in {"hello", "captured", "run"} /\ act' = [act EXCEPT ![g] = EndReader(act[g])]
      /\ UNCHANGED <<b, call, db, ag, up, toC, toA>>
  BY DEF ReadFails
<1> QED BY <1>1, BesideAll, ReaderEnds

LEMMA LeaseElapsesMild == ASSUME Inv, NEW g \in Gens, LeaseElapses(g) PROVE MildStep
<1> DEFINE y == [act[g] EXCEPT !.fired = @ \cup {act[g].timer}, !.timer = 0]
<1>1. act' = [act EXCEPT ![g] = y] /\ UNCHANGED <<b, call, db, ag, up, toC, toA>>
  BY DEF LeaseElapses
<1>2. act \in [Gens -> Actors] /\ act' \in [Gens -> Actors] /\ act[g] \in ActorRecords
  BY LeaseElapsesQuiet DEF Inv, Typed, Quiet, Actors
<1>3. y \in Actors
  <2>1. act'[g] = y BY <1>1, <1>2
  <2> QED BY <1>2, <2>1
<1>4. Mild(act[g], y) /\ y.pc = act[g].pc BY <1>2 DEF ActorRecords, Mild
<1> HIDE DEF y
<1> QED BY <1>1, <1>3, <1>4, BesideAll, OneMild

LEMMA ReadyWhole ==
    ASSUME NEW x \in Actors, NEW r \in BOOLEAN
    PROVE  SetReady(x, r).known = x.known /\ SetReady(x, r).ready = x.ready
BY DEF SetReady, Arm, Actors, ActorRecords

LEMMA ExpireReadinessMild == ASSUME Inv, NEW g \in Gens, ExpireReadiness(g) PROVE MildStep
<1>0. UNCHANGED <<b, call, ag, up, toC, toA>> BY DEF ExpireReadiness
<1>1. act[g] \in Actors /\ db \in Stores /\ act \in [Gens -> Actors] BY DEF Inv, Typed
<1>2. PICK n \in act[g].fired :
        LET x == [act[g] EXCEPT !.fired = @ \ {n}] IN
         \/ act' = [act EXCEPT ![g] = x] /\ UNCHANGED db
         \/ /\ act' = [act EXCEPT ![g] = SetReady(x, FALSE)]
            /\ db' = [db EXCEPT !.snap.nat = FALSE]
         \/ act' = [act EXCEPT ![g] = Terminate(SetReady(x, FALSE))] /\ UNCHANGED db
  BY DEF ExpireReadiness
<1> DEFINE x == [act[g] EXCEPT !.fired = @ \ {n}]
           z == SetReady(x, FALSE)
           t == Terminate(z)
<1>3. x \in Actors /\ Mild(act[g], x) /\ x.pc = act[g].pc /\ x.snap = act[g].snap
      /\ x.ready = act[g].ready /\ x.term = act[g].term /\ x.known = act[g].known /\ x.pend = act[g].pend
  <2> DEFINE F == act[g].fired \ {n}
  <2>1. /\ F \in SUBSET Nat /\ (\A i \in F : i <= act[g].lease)
        /\ (act[g].timer # 0 => act[g].timer \notin F)
    BY <1>1, ActorOf DEF Orderly
  <2>2. x = [act[g] EXCEPT !.fired = F, !.timer = act[g].timer] BY <1>1 DEF Actors, ActorRecords
  <2>3. x.ready = act[g].ready /\ x.known = act[g].known BY <1>1 DEF Actors, ActorRecords
  <2> HIDE DEF F, x
  <2>4. x \in Actors /\ x.pc = act[g].pc /\ x.term = act[g].term /\ x.pend = act[g].pend
        /\ x.snap = act[g].snap
    BY <1>1, <2>1, <2>2, FiredFields
  <2> QED BY <2>3, <2>4 DEF Mild
<1> HIDE DEF x
<1>4. z \in Actors /\ Mild(act[g], z) /\ z.pc = act[g].pc /\ z.ready = act[g].ready
      /\ z.snap.j = act[g].snap.j /\ z.snap.own = act[g].snap.own
  <2>1. /\ z \in Actors /\ z.pc = x.pc /\ z.term = x.term /\ z.pend = x.pend /\ z.snap.j = x.snap.j
        /\ z.snap.own = x.snap.own
    BY <1>3, SetReadyFields
  <2>2. z.known = x.known /\ z.ready = x.ready BY <1>3, ReadyWhole
  <2> HIDE DEF z
  <2> QED BY <1>3, <2>1, <2>2 DEF Mild
<1> HIDE DEF z
<1>5. t \in Actors /\ Mild(act[g], t) /\ t.pc = act[g].pc
  <2>1. t \in Actors /\ t.term /\ t.pc = z.pc /\ t.snap = z.snap BY <1>4, TerminateFields
  <2>2. t.ready = z.ready BY <1>4 DEF Terminate, Actors, ActorRecords
  <2> HIDE DEF t
  <2> QED BY <1>4, <2>1, <2>2 DEF Mild
<1> HIDE DEF t
<1>6. PICK y \in {x, z, t} : /\ act' = [act EXCEPT ![g] = y]
                             /\ db' = db \/ db' = [db EXCEPT !.snap.nat = FALSE]
  BY <1>2 DEF x, z, t
<1>7. /\ db'.gen = db.gen /\ db'.snap.own = db.snap.own /\ db'.issued = db.issued /\ db'.open = db.open
  BY <1>1, <1>6, StoreOf DEF Stores, Snaps
<1>8. Beside BY <1>0, <1>7 DEF Beside, Elsewhere, Onward
<1> QED BY <1>0, <1>3, <1>4, <1>5, <1>6, <1>8, OneMild

LEMMA EndSnapshotCaptureMild == ASSUME Inv, BeatInv, NEW g \in Gens, EndSnapshotCapture(g) PROVE MildStep
<1> DEFINE y == [act[g] EXCEPT !.pc = "uncap"]
<1>1. /\ act[g].pc = "ret" /\ act' = [act EXCEPT ![g] = y] /\ toC' = [toC EXCEPT ![g] = <<>>]
      /\ b' = [b EXCEPT !.capture = IF b.capture.g = g THEN NoCapture ELSE b.capture]
      /\ UNCHANGED <<call, db, ag, up, toA>>
  BY DEF EndSnapshotCapture
<1>2. act[g] \in Actors /\ b \in Brokers /\ "uncap" \in Phases BY DEF Inv, Typed, Phases
<1>3. act[g].term BY <1>1 DEF BeatInv, Served, Serve, Ended
<1>4. y \in Actors /\ y.pc \in Ended /\ y.term BY <1>2, <1>3, PhaseFields DEF Ended
<1> HIDE DEF y
<1>5. b'.session = b.session /\ b'.closed = b.closed /\ b'.projected = b.projected /\ b'.gen = b.gen
  BY <1>1, <1>2 DEF Brokers
<1>6. Beside BY <1>1, <1>5 DEF Beside, Elsewhere, Onward
<1> QED BY <1>1, <1>4, <1>6, OneStops

LEMMA DeactivateMild == ASSUME Inv, BeatInv, NEW g \in Gens, Deactivate(g) PROVE MildStep
<1> DEFINE mine == b.session = g
           y == IF mine /\ MayDisconnect(g) THEN [act[g] EXCEPT !.pc = "disc"] ELSE Gone
<1>1. /\ act[g].pc = "uncap" /\ act' = [act EXCEPT ![g] = y]
      /\ b' = [b EXCEPT !.session = IF mine THEN 0 ELSE b.session,
                         !.disc = IF mine /\ MayDisconnect(g) THEN g ELSE b.disc,
                         !.derr = IF mine /\ b.disc # 0 THEN TRUE ELSE b.derr]
      /\ UNCHANGED <<call, db, ag, up, toC, toA>>
  BY DEF Deactivate
<1>2. act[g] \in Actors /\ b \in Brokers /\ "disc" \in Phases BY DEF Inv, Typed, Phases
<1>3. act[g].term BY <1>1 DEF BeatInv, Served, Serve, Ended
<1>4. y \in Actors /\ y.pc \in Ended /\ y.term BY <1>2, <1>3, PhaseFields, Fresh DEF Ended
<1> HIDE DEF y
<1>5. /\ b'.closed = b.closed /\ b'.projected = b.projected /\ b'.gen = b.gen
      /\ b'.session = IF mine THEN 0 ELSE b.session
  BY <1>1, <1>2 DEF Brokers
<1>6. Elsewhere BY <1>1, <1>5 DEF Elsewhere, Onward
<1>7. act'[g] = y /\ \A h \in Gens : h # g => act'[h] = act[h] BY <1>1, <1>4, OneActor DEF Inv
<1>8. \A h \in Gens : Mild(act[h], act'[h]) /\ Drain(h) BY <1>1, <1>4, <1>7 DEF Mild, Drain
<1>9. \A h \in Gens : act[h].pc = "stored" => act'[h].pc = "stored" BY <1>1, <1>7
<1>10. ASSUME NEW h \in Gens, Live(h)' PROVE b'.session = h /\ ~b'.closed
  <2>1. h # g BY <1>4, <1>7, <1>10 DEF Live, Ended
  <2>2. Live(h) BY <1>7, <1>10, <2>1 DEF Live
  <2>3. b.session = h /\ ~b.closed BY <2>2 DEF BeatInv, Served, Serve
  <2> QED BY <1>5, <2>1, <2>3
<1> QED BY <1>1, <1>5, <1>6, <1>8, <1>9, <1>10 DEF MildStep

LEMMA CommitDisconnectMild == ASSUME Inv, BeatInv, NEW g \in Gens, CommitDisconnect(g) PROVE MildStep
<1>0. act[g].pc = "disc" /\ UNCHANGED <<b, call, ag, up, toC, toA>> BY DEF CommitDisconnect
<1>1. act[g] \in Actors /\ db \in Stores BY DEF Inv, Typed
<1>2. PICK p \in {"withdrawn", "kept"} :
        act' = [act EXCEPT ![g].pc = p] /\ (db' = db \/ db' = [db EXCEPT !.snap.nat = FALSE])
  BY DEF CommitDisconnect
<1> DEFINE y == [act[g] EXCEPT !.pc = p]
<1>3. act[g].term /\ p \in Phases /\ p \in Ended BY <1>0 DEF BeatInv, Served, Serve, Ended, Phases
<1>4. y \in Actors /\ y.pc \in Ended /\ y.term BY <1>1, <1>3, PhaseFields
<1>5. act' = [act EXCEPT ![g] = y] BY <1>2
<1> HIDE DEF y
<1>6. /\ db'.gen = db.gen /\ db'.snap.own = db.snap.own /\ db'.issued = db.issued /\ db'.open = db.open
  BY <1>1, <1>2, StoreOf DEF Stores, Snaps
<1>7. Beside BY <1>0, <1>6 DEF Beside, Elsewhere, Onward
<1> QED BY <1>0, <1>4, <1>5, <1>7, OneStops

LEMMA FinishDisconnectMild == ASSUME Inv, NEW g \in Gens, FinishDisconnect(g) PROVE MildStep
<1>1. /\ act[g].pc \in {"withdrawn", "kept"} /\ act' = [act EXCEPT ![g] = Gone]
      /\ b' = [b EXCEPT !.disc = 0, !.derr = DisconnectFailed(g)]
      /\ UNCHANGED <<call, db, ag, up, toC, toA>>
  BY DEF FinishDisconnect
<1>2. b \in Brokers BY DEF Inv, Typed
<1>3. b'.session = b.session /\ b'.closed = b.closed /\ b'.projected = b.projected /\ b'.gen = b.gen
  BY <1>1, <1>2 DEF Brokers
<1>4. Beside BY <1>1, <1>3 DEF Beside, Elsewhere, Onward
<1>5. Gone \in Actors /\ Gone.pc \in Ended /\ Gone.term BY Fresh DEF Ended
<1> QED BY <1>1, <1>4, <1>5, OneStops

LEMMA CloseBrokerMild == ASSUME Inv, BeatInv, CloseBroker PROVE MildStep
<1>0. /\ b' = [b EXCEPT !.closed = TRUE, !.derr = FALSE, !.inFlight = 0, !.capture = NoCapture]
      /\ act' = [g \in Gens |-> IF g = b.session THEN Terminate(act[g]) ELSE act[g]]
      /\ UNCHANGED <<call, db, ag, up, toC, toA>>
  BY DEF CloseBroker
<1>1. act \in [Gens -> Actors] /\ b \in Brokers BY DEF Inv, Typed
<1>2. /\ b'.projected = b.projected /\ b'.closed /\ b'.gen = b.gen
  BY <1>0, <1>1 DEF Brokers
<1>3. Elsewhere BY <1>0, <1>2 DEF Elsewhere, Onward
<1>4. ASSUME NEW h \in Gens PROVE Mild(act[h], act'[h]) /\ (Live(h)' => h # b.session /\ Live(h))
  <2>1. act[h] \in Actors BY <1>1
  <2>2. CASE h = b.session
    <3>1. act'[h] = Terminate(act[h]) BY <1>0, <2>2
    <3>2. Mild(act[h], act'[h]) /\ act'[h].term BY <2>1, <3>1, TerminateWhole
    <3> QED BY <3>2 DEF Live
  <2>3. CASE h # b.session
    <3>1. act'[h] = act[h] BY <1>0, <2>3
    <3> QED BY <2>3, <3>1 DEF Mild, Live
  <2> QED BY <2>2, <2>3
<1>5. \A h \in Gens : ~Live(h)' BY <1>4 DEF BeatInv, Served, Serve
<1>6. \A h \in Gens : Drain(h) BY <1>0 DEF Drain
<1> QED BY <1>0, <1>2, <1>3, <1>4, <1>5, <1>6 DEF MildStep

\* Callers that change nothing but their own place.
LEMMA CallMild ==
    ASSUME Inv, NEW k \in Callers, NEW y \in Calls, call' = [call EXCEPT ![k] = y], Onward(call[k], y),
           b'.session = b.session, b'.closed = b.closed, b'.projected = b.projected, b'.gen = b.gen,
           UNCHANGED <<act, db, ag, up, toC, toA>>
    PROVE  MildStep
<1>1. call'[k] = y /\ \A o \in Callers : o # k => call'[o] = call[o] BY OneCall DEF Inv
<1>2. \A o \in Callers : Onward(call[o], call'[o]) BY <1>1 DEF Onward
<1>3. Elsewhere BY <1>2 DEF Elsewhere
<1>4. \A h \in Gens : Mild(act[h], act'[h]) /\ Drain(h) BY DEF Mild, Drain
<1> QED BY <1>3, <1>4 DEF MildStep

LEMMA BeginCommandDispatchMild == ASSUME Inv, NEW k \in Callers, BeginCommandDispatch(k) PROVE MildStep
<1>0. call[k].pc = "gate" /\ UNCHANGED <<act, db, ag, up, toC, toA>> BY DEF BeginCommandDispatch
<1>1. call[k] \in Calls /\ b \in Brokers BY DEF Inv, Typed
<1>2. CASE call' = [call EXCEPT ![k] = Resting] /\ UNCHANGED b
  <2>1. Resting \in Calls /\ Onward(call[k], Resting) BY FreshRecords DEF Onward
  <2> QED BY <1>0, <1>2, <2>1, CallMild
<1>3. CASE /\ b' = [b EXCEPT !.seq = @ + 1, !.inFlight = call[k].g]
           /\ call' = [call EXCEPT ![k].pc = "disp"]
  <2> DEFINE y == [call[k] EXCEPT !.pc = "disp"]
  <2>1. y \in Calls /\ y.pc = "disp" /\ y.g = call[k].g /\ y.cmd = call[k].cmd
    <3>1. "disp" \in CallPhases BY DEF CallPhases
    <3> QED BY <1>0, <1>1, <3>1, CallMoves
  <2>2. call' = [call EXCEPT ![k] = y] BY <1>3
  <2> HIDE DEF y
  <2>3. Onward(call[k], y) BY <1>0, <2>1 DEF Onward
  <2>4. b'.session = b.session /\ b'.closed = b.closed /\ b'.projected = b.projected /\ b'.gen = b.gen
    BY <1>1, <1>3 DEF Brokers
  <2> QED BY <1>0, <2>1, <2>2, <2>3, <2>4, CallMild
<1> QED BY <1>2, <1>3 DEF BeginCommandDispatch

LEMMA EndCommandDispatchMild == ASSUME Inv, NEW k \in Callers, EndCommandDispatch(k) PROVE MildStep
<1>1. /\ call' = [call EXCEPT ![k] = Resting] /\ UNCHANGED <<act, db, ag, up, toC, toA>>
      /\ b' = [b EXCEPT !.inFlight = IF b.inFlight = call[k].g THEN 0 ELSE b.inFlight]
  BY DEF EndCommandDispatch
<1>2. b \in Brokers BY DEF Inv, Typed
<1>3. Resting \in Calls /\ Onward(call[k], Resting) BY FreshRecords DEF Onward
<1>4. b'.session = b.session /\ b'.closed = b.closed /\ b'.projected = b.projected /\ b'.gen = b.gen
  BY <1>1, <1>2 DEF Brokers
<1> QED BY <1>1, <1>3, <1>4, CallMild

\* A caller leaves its dispatch; its session may have been terminated by it.
LEMMA CallerLeaves ==
    ASSUME Inv, NEW k \in Callers, call[k].pc # "idle", call' = [call EXCEPT ![k].pc = "end"],
           act' = act \/ act' = [act EXCEPT ![call[k].g] = Terminate(@)],
           UNCHANGED <<b, db, ag, up, toC, toA>>
    PROVE  MildStep
<1> DEFINE x == call[k]
           y == [x EXCEPT !.pc = "end"]
           g == x.g
<1>1. x \in Calls /\ act \in [Gens -> Actors] BY DEF Inv, Typed
<1>2. g \in Gens BY <1>1, CallOf
<1>3. y \in Calls /\ y.pc = "end" /\ y.g = x.g /\ y.cmd = x.cmd
  <2>1. "end" \in CallPhases BY DEF CallPhases
  <2> QED BY <1>1, <2>1, CallMoves
<1>4. call' = [call EXCEPT ![k] = y] OBVIOUS
<1> HIDE DEF y
<1>5. Onward(x, y) BY <1>3 DEF Onward
<1>6. call'[k] = y /\ \A o \in Callers : o # k => call'[o] = call[o] BY <1>3, <1>4, OneCall DEF Inv
<1>7. \A o \in Callers : Onward(call[o], call'[o]) BY <1>5, <1>6 DEF Onward
<1>8. Beside BY <1>7 DEF Beside, Elsewhere
<1>9. \E z \in Actors : act' = [act EXCEPT ![g] = z] /\ Mild(act[g], z) /\ z.pc = act[g].pc
  <2>1. act[g] \in Actors BY <1>1, <1>2
  <2>2. CASE act' = act
    <3>1. act' = [act EXCEPT ![g] = act[g]] BY <1>1, <2>2
    <3> QED BY <2>1, <3>1 DEF Mild
  <2>3. CASE act' = [act EXCEPT ![call[k].g] = Terminate(@)]
    <3>1. act' = [act EXCEPT ![g] = Terminate(act[g])] BY <2>3
    <3> QED BY <2>1, <3>1, TerminateWhole
  <2> QED BY <2>2, <2>3
<1> QED BY <1>2, <1>8, <1>9, OneMild

LEMMA AbandonCommandMild == ASSUME Inv, NEW k \in Callers, AbandonCommand(k) PROVE MildStep
<1>1. /\ call[k].pc = "wait" /\ call' = [call EXCEPT ![k].pc = "end"]
      /\ act' = act \/ act' = [act EXCEPT ![call[k].g] = Terminate(@)]
      /\ UNCHANGED <<b, db, ag, up, toC, toA>>
  BY DEF AbandonCommand
<1> QED BY <1>1, CallerLeaves

---------------------------------------------------------------------------
(* Steps that carry a session on: what they do *)

\* The other sessions stay where they are, and so does what is not about sessions.
Others(g) == \A h \in Gens \ {g} : /\ Mild(act[h], act'[h]) /\ act'[h].pc = act[h].pc
                                   /\ toC'[h] = toC[h] /\ toA'[h] = toA[h]
Fixed == /\ UNCHANGED <<ag, up>> /\ b'.session = b.session /\ b'.closed = b.closed
         /\ b'.projected = b.projected /\ b'.gen = b.gen
         /\ db'.gen = db.gen /\ db'.snap.own = db.snap.own /\ db'.issued = db.issued
         /\ db.open \subseteq db'.open
Read(g)   == toC[g] # <<>> /\ toC'[g] = Tail(toC[g])
Sent(g, m) == toA'[g] = IF up[g] THEN Append(toA[g], m) ELSE toA[g]

LEMMA ReadAt ==
    ASSUME Inv, NEW g \in Gens, toC[g] # <<>>, toC' = [toC EXCEPT ![g] = Tail(@)]
    PROVE  Read(g) /\ \A h \in Gens \ {g} : toC'[h] = toC[h]
<1>1. toC \in [Gens -> Seq(Reports)] BY DEF Inv, Typed
<1> QED BY <1>1 DEF Read

LEMMA SentAt ==
    ASSUME Inv, NEW g \in Gens, NEW m, toA' = Send(toA, g, m)
    PROVE  Sent(g, m) /\ \A h \in Gens \ {g} : toA'[h] = toA[h]
<1>1. toA \in [Gens -> Seq(Orders)] BY DEF Inv, Typed
<1> QED BY <1>1 DEF Sent, Send

\* The Hello has been read and is acknowledged.
Greets(g) ==
    /\ Fixed /\ Others(g) /\ UNCHANGED call /\ Read(g) /\ Sent(g, Msg("ack", "hello"))
    /\ act[g].pc = "hello" /\ act'[g] = [act[g] EXCEPT !.pc = "captured"]

LEMMA ReadHelloCases == ASSUME Inv, NEW g \in Gens, ReadHello(g) PROVE MildStep \/ Greets(g)
<1> DEFINE refused == b.closed \/ b.disc # 0 \/ ~Supersedes(g) \/ b.capture.g >= g
<1>0. /\ act[g].pc = "hello" /\ toC[g] # <<>> /\ toC' = [toC EXCEPT ![g] = Tail(@)]
      /\ UNCHANGED <<call, db, ag, up>>
  BY DEF ReadHello
<1>1. act \in [Gens -> Actors] /\ b \in Brokers BY DEF Inv, Typed
<1>2. CASE refused
  <2>1. act' = [act EXCEPT ![g] = EndReader(act[g])] /\ UNCHANGED <<b, toA>> BY <1>2 DEF ReadHello
  <2> QED BY <1>0, <2>1, BesideAll, ReaderEnds
<1>3. CASE ~refused
  <2> DEFINE cap == [g |-> g, seq |-> b.seq, busy |-> b.inFlight # 0]
  <2>1. /\ b' = [b EXCEPT !.capture = cap]
        /\ act' = [h \in Gens |-> IF h = g THEN [act[h] EXCEPT !.pc = "captured"]
                                  ELSE IF h = b.capture.g THEN Terminate(act[h]) ELSE act[h]]
        /\ toA' = Send(toA, g, Msg("ack", "hello"))
    BY <1>3 DEF ReadHello
  <2> HIDE DEF cap
  <2>2. Fixed
    <3>1. b'.session = b.session /\ b'.closed = b.closed /\ b'.projected = b.projected /\ b'.gen = b.gen
      BY <1>1, <2>1 DEF Brokers
    <3> QED BY <1>0, <3>1 DEF Fixed
  <2>3. Read(g) /\ \A h \in Gens \ {g} : toC'[h] = toC[h] BY <1>0, ReadAt
  <2>4. Sent(g, Msg("ack", "hello")) /\ \A h \in Gens \ {g} : toA'[h] = toA[h] BY <2>1, SentAt
  <2>5. ASSUME NEW h \in Gens \ {g} PROVE Mild(act[h], act'[h]) /\ act'[h].pc = act[h].pc
    <3>1. act[h] \in Actors BY <1>1
    <3>2. act'[h] = act[h] \/ act'[h] = Terminate(act[h]) BY <2>1
    <3> QED BY <3>1, <3>2, TerminateWhole DEF Mild
  <2>6. act'[g] = [act[g] EXCEPT !.pc = "captured"] BY <2>1
  <2> QED BY <1>0, <2>2, <2>3, <2>4, <2>5, <2>6 DEF Greets, Others
<1> QED BY <1>2, <1>3

\* One actor changes; the others are not touched.
LEMMA OnlyActor ==
    ASSUME Inv, NEW g \in Gens, NEW y, act' = [act EXCEPT ![g] = y],
           \A h \in Gens \ {g} : toC'[h] = toC[h] /\ toA'[h] = toA[h]
    PROVE  act'[g] = y /\ Others(g)
<1>1. act \in [Gens -> Actors] BY DEF Inv, Typed
<1>2. act'[g] = y /\ \A h \in Gens \ {g} : act'[h] = act[h] BY <1>1
<1> QED BY <1>2 DEF Others, Mild

\* The snapshot has been read and its projection begins.
Projects(g) ==
    /\ Fixed /\ Others(g) /\ UNCHANGED call /\ Read(g) /\ toA'[g] = toA[g]
    /\ act[g].pc = "captured"
    /\ act'[g] = [act[g] EXCEPT !.pc = "locked", !.snap = Head(toC[g]).s]

LEMMA BeginProjectionCases == ASSUME Inv, NEW g \in Gens, BeginProjection(g) PROVE MildStep \/ Projects(g)
<1>0. /\ act[g].pc = "captured" /\ toC[g] # <<>> /\ toC' = [toC EXCEPT ![g] = Tail(@)]
      /\ UNCHANGED <<call, db, ag, up, toA>>
  BY DEF BeginProjection
<1>1. act \in [Gens -> Actors] /\ b \in Brokers BY DEF Inv, Typed
<1>2. CASE act' = [act EXCEPT ![g] = EndReader(@)] /\ UNCHANGED b
  BY <1>0, <1>2, BesideAll, ReaderEnds
<1>3. CASE b' = [b EXCEPT !.lock = g] /\ act' = [act EXCEPT ![g].pc = "locked", ![g].snap = Head(toC[g]).s]
  <2> DEFINE y == [act[g] EXCEPT !.pc = "locked", !.snap = Head(toC[g]).s]
  <2>1. act' = [act EXCEPT ![g] = y] BY <1>1, <1>3
  <2>2. Read(g) /\ \A h \in Gens \ {g} : toC'[h] = toC[h] BY <1>0, ReadAt
  <2>3. act'[g] = y /\ Others(g) BY <1>0, <2>1, <2>2, OnlyActor
  <2>4. b'.session = b.session /\ b'.closed = b.closed /\ b'.projected = b.projected /\ b'.gen = b.gen
    BY <1>1, <1>3 DEF Brokers
  <2>5. Fixed BY <1>0, <2>4 DEF Fixed
  <2> QED BY <1>0, <2>2, <2>3, <2>5 DEF Projects
<1> QED BY <1>2, <1>3 DEF BeginProjection

\* The snapshot is the node's.
Commits(g) ==
    /\ UNCHANGED <<b, call, ag, up, toC, toA>> /\ Others(g)
    /\ db'.gen = g /\ db'.snap = act[g].snap /\ db'.issued = db.issued /\ db'.open = db.open
    /\ act[g].pc = "locked" /\ act'[g] = [act[g] EXCEPT !.pc = "stored"]

LEMMA HandleAgentSnapshotCases ==
    ASSUME Inv, NEW g \in Gens, HandleAgentSnapshot(g) PROVE MildStep \/ Commits(g)
<1>0. act[g].pc = "locked" /\ UNCHANGED <<call, ag, up, toC, toA>> BY DEF HandleAgentSnapshot
<1>1. act \in [Gens -> Actors] /\ b \in Brokers /\ db \in Stores BY DEF Inv, Typed
<1>2. CASE act' = [act EXCEPT ![g] = EndReader(@)] /\ b' = [b EXCEPT !.lock = 0] /\ UNCHANGED db
  <2>1. b'.session = b.session /\ b'.closed = b.closed /\ b'.projected = b.projected /\ b'.gen = b.gen
    BY <1>1, <1>2 DEF Brokers
  <2>2. Beside BY <1>0, <1>2, <2>1 DEF Beside, Elsewhere, Onward
  <2> QED BY <1>0, <1>2, <2>2, ReaderEnds
<1>3. CASE /\ db' = [db EXCEPT !.snap = act[g].snap, !.gen = g]
           /\ act' = [act EXCEPT ![g].pc = "stored"] /\ UNCHANGED b
  <2> DEFINE y == [act[g] EXCEPT !.pc = "stored"]
  <2>1. act' = [act EXCEPT ![g] = y] BY <1>3
  <2>2. act'[g] = y /\ Others(g) BY <1>0, <2>1, OnlyActor
  <2>3. db'.gen = g /\ db'.snap = act[g].snap /\ db'.issued = db.issued /\ db'.open = db.open
    BY <1>1, <1>3 DEF Stores
  <2> QED BY <1>0, <1>3, <2>2, <2>3 DEF Commits
<1> QED BY <1>2, <1>3 DEF HandleAgentSnapshot

\* The session is the broker's.
Records(g) ==
    /\ UNCHANGED <<call, db, ag, up, toC, toA>> /\ ~b.closed
    /\ b'.projected = g /\ b'.session = g /\ b'.closed = b.closed /\ b'.gen = b.gen
    /\ \A h \in Gens \ {g} : /\ Mild(act[h], act'[h]) /\ act'[h].pc = act[h].pc
                             /\ h = b.session => act'[h].term
    /\ act[g].pc = "stored" /\ act'[g].pc = "active" /\ act'[g].known = act[g].snap.j.cmds
    /\ act'[g].term = act[g].term /\ act'[g].pend = act[g].pend /\ act'[g].ready = act[g].ready
    /\ act'[g].snap.own = act[g].snap.own

LEMMA RecordProjectionCases ==
    ASSUME Inv, NEW g \in Gens, RecordProjection(g) PROVE MildStep \/ Records(g)
<1>0. act[g].pc = "stored" /\ UNCHANGED <<call, db, ag, up, toC, toA>> BY DEF RecordProjection
<1>1. act \in [Gens -> Actors] /\ act[g] \in Actors /\ b \in Brokers BY DEF Inv, Typed
<1>2. CASE b.closed
  <2> DEFINE p == IF MayDisconnect(g) THEN "disc" ELSE "ret"
             y == [Terminate(act[g]) EXCEPT !.pc = p]
  <2>1. /\ b' = [b EXCEPT !.disc = IF MayDisconnect(g) THEN g ELSE b.disc,
                          !.derr = b.derr \/ b.disc # 0, !.lock = 0]
        /\ act' = [act EXCEPT ![g] = y]
    BY <1>2 DEF RecordProjection
  <2>2. p \in Phases /\ p \in Ended BY DEF Phases, Ended
  <2> HIDE DEF p
  <2>3. y \in Actors /\ y.pc = p /\ y.term BY <1>1, <2>2, TerminateFields, PhaseFields
  <2> HIDE DEF y
  <2>4. Mild(act[g], y) BY <2>2, <2>3 DEF Mild
  <2>5. b'.session = b.session /\ b'.closed = b.closed /\ b'.projected = b.projected /\ b'.gen = b.gen
    BY <1>1, <2>1 DEF Brokers
  <2>6. Beside BY <1>0, <2>5 DEF Beside, Elsewhere, Onward
  <2> QED BY <1>0, <1>2, <2>1, <2>3, <2>4, <2>6, OneMild
<1>3. CASE ~b.closed
  <2> DEFINE n == act[g].snap.nat
             x == SetReady(act[g], n)
             y == [x EXCEPT !.pc = "active", !.known = act[g].snap.j.cmds]
  <2>1. /\ b' = [b EXCEPT !.projected = g, !.session = g, !.capture = NoCapture, !.lock = 0]
        /\ act' = [h \in Gens |-> IF h = g THEN y
                                  ELSE IF h = b.session THEN Terminate(act[h]) ELSE act[h]]
    BY <1>3 DEF RecordProjection
  <2>2. n \in BOOLEAN BY <1>1, ActorOf
  <2>3. /\ x \in Actors /\ x.term = act[g].term /\ x.pend = act[g].pend /\ x.ready = act[g].ready
        /\ x.snap.own = act[g].snap.own
    BY <1>1, <2>2, SetReadyFields, ReadyWhole
  <2> HIDE DEF x
  <2>4. /\ y.pc = "active" /\ y.known = act[g].snap.j.cmds /\ y.term = x.term /\ y.pend = x.pend
        /\ y.ready = x.ready /\ y.snap = x.snap
    BY <2>3 DEF Actors, ActorRecords
  <2> HIDE DEF y
  <2>5. act'[g] = y BY <2>1
  <2>6. ASSUME NEW h \in Gens \ {g}
        PROVE  Mild(act[h], act'[h]) /\ act'[h].pc = act[h].pc /\ (h = b.session => act'[h].term)
    <3>1. act[h] \in Actors BY <1>1
    <3>2. act'[h] = Terminate(act[h]) \/ (h # b.session /\ act'[h] = act[h]) BY <2>1
    <3> QED BY <3>1, <3>2, TerminateWhole DEF Mild
  <2>7. b'.session = g /\ b'.closed = b.closed /\ b'.projected = g /\ b'.gen = b.gen
    BY <1>1, <2>1 DEF Brokers
  <2> QED BY <1>0, <1>3, <2>3, <2>4, <2>5, <2>6, <2>7 DEF Records
<1> QED BY <1>2, <1>3

\* The snapshot is acknowledged.
Marks(g) ==
    /\ Fixed /\ Others(g) /\ UNCHANGED call /\ toC'[g] = toC[g] /\ Sent(g, Msg("ack", "snap"))
    /\ act[g].pc = "active" /\ ~act[g].term /\ ~b.closed /\ b.session = g
    /\ act'[g] = [act[g] EXCEPT !.pc = "run", !.ready = TRUE]

LEMMA MarkReadyCases == ASSUME Inv, NEW g \in Gens, MarkReady(g) PROVE MildStep \/ Marks(g)
<1>0. act[g].pc = "active" /\ UNCHANGED <<call, db, ag, up, toC>> BY DEF MarkReady
<1>1. act \in [Gens -> Actors] /\ b \in Brokers BY DEF Inv, Typed
<1>2. CASE act' = [act EXCEPT ![g] = EndReader(@)] /\ UNCHANGED <<b, toA>>
  BY <1>0, <1>2, BesideAll, ReaderEnds
<1>3. CASE /\ ~act[g].term /\ ~b.closed /\ b.session = g
           /\ act' = [act EXCEPT ![g].pc = "run", ![g].ready = TRUE]
           /\ toA' = Send(toA, g, Msg("ack", "snap")) /\ b' = [b EXCEPT !.derr = FALSE]
  <2> DEFINE y == [act[g] EXCEPT !.pc = "run", !.ready = TRUE]
  <2>1. act' = [act EXCEPT ![g] = y] BY <1>1, <1>3
  <2>2. Sent(g, Msg("ack", "snap")) /\ \A h \in Gens \ {g} : toA'[h] = toA[h] BY <1>3, SentAt
  <2>3. act'[g] = y /\ Others(g) BY <1>0, <2>1, <2>2, OnlyActor
  <2>4. b'.session = b.session /\ b'.closed = b.closed /\ b'.projected = b.projected /\ b'.gen = b.gen
    BY <1>1, <1>3 DEF Brokers
  <2>5. Fixed BY <1>0, <2>4 DEF Fixed
  <2> QED BY <1>0, <1>3, <2>2, <2>3, <2>5 DEF Marks
<1> QED BY <1>2, <1>3 DEF MarkReady

\* A heartbeat is taken and acknowledged.
Hears(g) ==
    /\ Others(g) /\ UNCHANGED <<b, call, ag, up>> /\ Read(g) /\ Sent(g, Msg("ack", "hb"))
    /\ Head(toC[g]) \in HbC /\ act[g].pc = "run" /\ b.lock = 0 /\ Current(g)
    /\ db'.gen = db.gen /\ db'.issued = db.issued /\ db'.open = db.open
    /\ db'.snap.own = AdoptOwnerState(db.snap.own, act[g], Head(toC[g]).s)
    /\ act'[g].pc = "run" /\ act'[g].term = act[g].term /\ act'[g].ready = act[g].ready
    /\ act'[g].pend = act[g].pend /\ act'[g].known = act[g].known
    /\ act'[g].snap.own = Head(toC[g]).s.own

LEMMA HandleHeartbeatCases == ASSUME Inv, NEW g \in Gens, HandleHeartbeat(g) PROVE MildStep \/ Hears(g)
<1> DEFINE m == Head(toC[g]).s
           x == act[g]
<1>0. /\ act[g].pc = "run" /\ b.lock = 0 /\ toC[g] # <<>> /\ Head(toC[g]).t = "hb"
      /\ toC' = [toC EXCEPT ![g] = Tail(@)] /\ UNCHANGED <<b, call, ag, up>>
  BY DEF HandleHeartbeat
<1>1. /\ act \in [Gens -> Actors] /\ toC \in [Gens -> Seq(Reports)] /\ x \in Actors /\ db \in Stores
  BY DEF Inv, Typed
<1>2. Head(toC[g]) \in Reports /\ m \in Snaps /\ m.nat \in BOOLEAN /\ m.own \in Intents
  BY <1>0, <1>1, QueueTail, ReportOf
<1> DEFINE r == IF x.snap.nat # m.nat THEN SetReady(x, m.nat) ELSE IF m.nat THEN Arm(x) ELSE x
           y == [r EXCEPT !.snap.own = m.own]
<1>3. CASE act' = [act EXCEPT ![g] = EndReader(@)] /\ UNCHANGED <<db, toA>>
  BY <1>0, <1>3, BesideAll, ReaderEnds
<1>4. CASE /\ Current(g)
           /\ db' = [db EXCEPT !.snap.nat = IF x.snap.nat # m.nat THEN m.nat ELSE @,
                               !.snap.own = AdoptOwnerState(@, x, m)]
           /\ act' = [act EXCEPT ![g] = y]
           /\ toA' = Send(toA, g, Msg("ack", "hb"))
  <2>1. Read(g) /\ \A h \in Gens \ {g} : toC'[h] = toC[h] BY <1>0, ReadAt
  <2>2. Sent(g, Msg("ack", "hb")) /\ \A h \in Gens \ {g} : toA'[h] = toA[h] BY <1>4, SentAt
  <2>3. /\ r \in Actors /\ r.pc = x.pc /\ r.pend = x.pend /\ r.term = x.term /\ r.known = x.known
        /\ r.ready = x.ready
    <3>1. Arm(x).known = x.known /\ Arm(x).ready = x.ready BY <1>1 DEF Arm, Actors, ActorRecords
    <3>2. CASE x.snap.nat # m.nat BY <1>1, <1>2, <3>2, SetReadyFields, ReadyWhole
    <3>3. CASE x.snap.nat = m.nat BY <1>1, <3>1, <3>3, ArmFields
    <3> QED BY <3>2, <3>3
  <2> HIDE DEF r
  <2>4. /\ y.pc = x.pc /\ y.pend = x.pend /\ y.term = x.term /\ y.known = x.known
        /\ y.ready = x.ready /\ y.snap.own = m.own
    <3>1. r \in ActorRecords /\ r.snap \in Snaps BY <2>3, ActorOf DEF Actors
    <3>2. /\ y.pc = r.pc /\ y.pend = r.pend /\ y.term = r.term /\ y.known = r.known
          /\ y.ready = r.ready /\ y.snap = [r.snap EXCEPT !.own = m.own]
      BY <3>1 DEF ActorRecords
    <3>3. [r.snap EXCEPT !.own = m.own].own = m.own BY <3>1 DEF Snaps
    <3> QED BY <2>3, <3>2, <3>3
  <2> HIDE DEF y
  <2>5. act'[g] = y /\ Others(g) BY <1>4, <2>1, <2>2, OnlyActor
  <2>6. /\ db'.gen = db.gen /\ db'.issued = db.issued /\ db'.open = db.open
        /\ db'.snap.own = AdoptOwnerState(db.snap.own, x, m)
    <3> DEFINE n == IF x.snap.nat # m.nat THEN m.nat ELSE db.snap.nat
               o == AdoptOwnerState(db.snap.own, x, m)
               s == [db.snap EXCEPT !.nat = n, !.own = o]
    <3>1. db' = [db EXCEPT !.snap.nat = n, !.snap.own = o]
      <4>1. [db EXCEPT !.snap.nat = n].snap.own = db.snap.own BY <1>1, StoreOf DEF Stores, Snaps
      <4> QED BY <1>4, <4>1
    <3>2. s.own = o BY <1>1, StoreOf DEF Snaps
    <3> HIDE DEF n, o
    <3>3. db' = [db EXCEPT !.snap = s] BY <1>1, <3>1 DEF Stores
    <3> HIDE DEF s
    <3>4. db'.snap = s /\ db'.gen = db.gen /\ db'.issued = db.issued /\ db'.open = db.open
      BY <1>1, <3>3 DEF Stores
    <3> QED BY <3>2, <3>4 DEF o
  <2>7. Head(toC[g]) \in HbC BY <1>0, <1>2 DEF HbC
  <2> QED BY <1>0, <1>4, <2>1, <2>2, <2>4, <2>5, <2>6, <2>7 DEF Hears
<1> QED BY <1>3, <1>4 DEF HandleHeartbeat

\* The acknowledgement of the pending command is taken.
Learns(g) ==
    /\ Fixed /\ Others(g) /\ UNCHANGED call /\ Read(g) /\ toA'[g] = toA[g]
    /\ Head(toC[g]) \in AckC /\ act[g].pc = "run" /\ ~act[g].term
    /\ act[g].pend.cmd = Head(toC[g]).of /\ ~act[g].pend.acked
    /\ act'[g].pc = "run" /\ act'[g].term = act[g].term /\ act'[g].ready = act[g].ready
    /\ act'[g].known = act[g].known /\ act'[g].snap = act[g].snap
    /\ act'[g].pend.cmd = act[g].pend.cmd /\ act'[g].pend.acked

LEMMA HandleCommandAckCases == ASSUME Inv, NEW g \in Gens, HandleCommandAck(g) PROVE MildStep \/ Learns(g)
<1> DEFINE m == Head(toC[g])
           x == act[g]
           mine == x.pend.cmd = m.of /\ ~x.pend.acked
<1>0. /\ x.pc = "run" /\ toC[g] # <<>> /\ m.t = "ack" /\ ~x.term
      /\ toC' = [toC EXCEPT ![g] = Tail(@)] /\ UNCHANGED <<b, call, db, ag, up, toA>>
      /\ act' = [act EXCEPT ![g] = IF mine THEN [x EXCEPT !.pend.acked = TRUE] ELSE EndReader(x)]
  BY DEF HandleCommandAck
<1>1. act \in [Gens -> Actors] /\ x \in Actors /\ toC \in [Gens -> Seq(Reports)] BY DEF Inv, Typed
<1>2. m \in Reports BY <1>0, <1>1, QueueTail
<1>3. CASE ~mine BY <1>0, <1>3, BesideAll, ReaderEnds
<1>4. CASE mine
  <2> DEFINE y == [x EXCEPT !.pend.acked = TRUE]
  <2>1. Read(g) /\ \A h \in Gens \ {g} : toC'[h] = toC[h] BY <1>0, ReadAt
  <2>2. act' = [act EXCEPT ![g] = y] BY <1>0, <1>4
  <2>3. act'[g] = y /\ Others(g) BY <1>0, <2>1, <2>2, OnlyActor
  <2>4. /\ y.pc = x.pc /\ y.term = x.term /\ y.ready = x.ready /\ y.known = x.known /\ y.snap = x.snap
        /\ y.pend = [x.pend EXCEPT !.acked = TRUE]
    BY <1>1 DEF Actors, ActorRecords
  <2>5. [x.pend EXCEPT !.acked = TRUE].cmd = x.pend.cmd /\ [x.pend EXCEPT !.acked = TRUE].acked
    <3>1. x.pend \in Pends BY <1>1, ActorOf
    <3> QED BY <3>1 DEF Pends
  <2>6. Fixed BY <1>0 DEF Fixed
  <2>7. m \in AckC BY <1>0, <1>2 DEF AckC
  <2>8. y.pend.cmd = x.pend.cmd /\ y.pend.acked BY <2>4, <2>5
  <2>9. y.pc = "run" /\ toA'[g] = toA[g] /\ UNCHANGED call BY <1>0, <2>4
  <2> HIDE DEF y
  <2> QED BY <1>0, <1>4, <2>1, <2>3, <2>4, <2>6, <2>7, <2>8, <2>9 DEF Learns
<1> QED BY <1>3, <1>4

\* An update is committed and acknowledged.
First(g) == act[g].pend.cmd = Head(toC[g]).of
Takes(g) ==
    /\ Fixed /\ Others(g) /\ Read(g) /\ Sent(g, Msg("ack", "upd"))
    /\ Head(toC[g]) \in UpdC /\ act[g].pc = "run" /\ ~act[g].term
    /\ IF First(g) THEN act[g].pend.acked ELSE Head(toC[g]).of \in act[g].known
    /\ act'[g].pc = "run" /\ act'[g].term = act[g].term /\ act'[g].ready = act[g].ready
    /\ act'[g].snap = act[g].snap
    /\ act'[g].known = KnownAfter(act[g].known, Head(toC[g]))
    /\ act'[g].pend = IF First(g) THEN NoPend ELSE act[g].pend
    /\ \A k \in Callers : \/ call'[k] = call[k]
                          \/ /\ call[k].pc = "wait" /\ call'[k].pc = "end"
                             /\ call'[k].g = call[k].g /\ call'[k].cmd = call[k].cmd

LEMMA HandleExecutionUpdateCases ==
    ASSUME Inv, NEW g \in Gens, HandleExecutionUpdate(g) PROVE MildStep \/ Takes(g)
<1> DEFINE m == Head(toC[g])
           x == act[g]
<1>0. /\ x.pc = "run" /\ toC[g] # <<>> /\ m.t \in {"open", "done"}
      /\ toC' = [toC EXCEPT ![g] = Tail(@)] /\ UNCHANGED <<b, ag, up>>
  BY DEF HandleExecutionUpdate
<1>1. /\ act \in [Gens -> Actors] /\ x \in Actors /\ toC \in [Gens -> Seq(Reports)]
      /\ db \in Stores /\ call \in [Callers -> Calls]
  BY DEF Inv, Typed
<1>2. m \in Reports BY <1>0, <1>1, QueueTail
<1>3. CASE act' = [act EXCEPT ![g] = EndReader(@)] /\ UNCHANGED <<db, toA, call>>
  BY <1>0, <1>3, BesideAll, ReaderEnds
<1>4. CASE /\ IF First(g) THEN x.pend.acked ELSE m.of \in x.known
           /\ db' = [db EXCEPT !.done = @ \/ m.t = "done", !.open = @ \cup {m.of}]
           /\ toA' = IF x.term THEN toA ELSE Send(toA, g, Msg("ack", "upd"))
           /\ act' = [act EXCEPT ![g] = Updated(x, m, First(g))]
           /\ call' = [k \in Callers |-> IF First(g) /\ call[k].pc = "wait" /\ call[k].g = g
                                         THEN [call[k] EXCEPT !.pc = "end"] ELSE call[k]]
  <2>1. /\ db'.gen = db.gen /\ db'.snap = db.snap /\ db'.issued = db.issued /\ db.open \subseteq db'.open
    BY <1>1, <1>4 DEF Stores
  <2>2. ASSUME NEW k \in Callers
        PROVE  \/ call'[k] = call[k]
               \/ /\ call[k].pc = "wait" /\ call'[k].pc = "end"
                  /\ call'[k].g = call[k].g /\ call'[k].cmd = call[k].cmd
    <3>1. "end" \in CallPhases /\ call[k] \in Calls BY <1>1 DEF CallPhases
    <3>2. \/ call'[k] = call[k]
          \/ call[k].pc = "wait" /\ call'[k] = [call[k] EXCEPT !.pc = "end"]
      BY <1>4
    <3>3. CASE call'[k] = call[k] BY <3>3
    <3>4. CASE call[k].pc = "wait" /\ call'[k] = [call[k] EXCEPT !.pc = "end"]
      <4>1. call'[k].pc = "end" /\ call'[k].g = call[k].g /\ call'[k].cmd = call[k].cmd
        BY <3>1, <3>4, CallMoves
      <4> QED BY <3>4, <4>1
    <3> QED BY <3>2, <3>3, <3>4
  <2>3. \A k \in Callers : Onward(call[k], call'[k]) BY <2>2 DEF Onward
  <2>4. CASE x.term
    <3>1. act' = [act EXCEPT ![g] = EndReader(act[g])] /\ toA' = toA BY <1>4, <2>4 DEF Updated
    <3>2. Beside BY <1>0, <2>1, <2>3, <3>1 DEF Beside, Elsewhere
    <3> QED BY <1>0, <3>1, <3>2, ReaderEnds
  <2>5. CASE ~x.term
    <3> DEFINE y == [x EXCEPT !.known = KnownAfter(x.known, m), !.pend = IF First(g) THEN NoPend ELSE x.pend]
    <3>1. act' = [act EXCEPT ![g] = y] /\ toA' = Send(toA, g, Msg("ack", "upd"))
      BY <1>4, <2>5 DEF Updated
    <3>2. Read(g) /\ \A h \in Gens \ {g} : toC'[h] = toC[h] BY <1>0, ReadAt
    <3>3. Sent(g, Msg("ack", "upd")) /\ \A h \in Gens \ {g} : toA'[h] = toA[h] BY <3>1, SentAt
    <3>5. /\ y.pc = x.pc /\ y.term = x.term /\ y.ready = x.ready /\ y.snap = x.snap
          /\ y.known = KnownAfter(x.known, m) /\ y.pend = IF First(g) THEN NoPend ELSE x.pend
      BY <1>1 DEF Actors, ActorRecords
    <3> HIDE DEF y
    <3>4. act'[g] = y /\ Others(g) BY <3>1, <3>2, <3>3, OnlyActor
    <3>6. Fixed BY <1>0, <2>1 DEF Fixed
    <3>7. m \in UpdC BY <1>0, <1>2 DEF UpdC
    <3> QED BY <1>0, <1>4, <2>2, <2>5, <3>2, <3>3, <3>4, <3>5, <3>6, <3>7 DEF Takes
  <2> QED BY <2>4, <2>5
<1> QED BY <1>3, <1>4 DEF HandleExecutionUpdate, First

\* A command is registered, and written.
Registers(k) ==
    LET g == call[k].g IN
    /\ g \in Gens /\ call[k].cmd \in Cmds
    /\ UNCHANGED <<b, ag, up, toC, toA>> /\ Others(g)
    /\ db'.gen = db.gen /\ db'.snap = db.snap /\ db'.issued = db.issued \cup {call[k].cmd}
    /\ db'.open = db.open
    /\ call[k].pc = "disp" /\ call'[k].pc = "write" /\ call'[k].g = g /\ call'[k].cmd = call[k].cmd
    /\ \A o \in Callers \ {k} : call'[o] = call[o]
    /\ ~act[g].term /\ act'[g].pc = act[g].pc /\ act'[g].term = act[g].term
    /\ act'[g].ready = act[g].ready /\ act'[g].known = act[g].known /\ act'[g].snap = act[g].snap
    /\ act'[g].pend = [cmd |-> call[k].cmd, acked |-> FALSE]

LEMMA RegisterCommandCases == ASSUME Inv, NEW k \in Callers, RegisterCommand(k) PROVE MildStep \/ Registers(k)
<1> DEFINE g == call[k].g
<1>0. call[k].pc = "disp" /\ UNCHANGED <<b, ag, up, toC, toA>> BY DEF RegisterCommand
<1>1. call[k] \in Calls /\ db \in Stores /\ act \in [Gens -> Actors] /\ call \in [Callers -> Calls]
  BY DEF Inv, Typed
<1>2. g \in Gens /\ call[k].cmd \in Cmds BY <1>0, <1>1, CallOf
<1>3. CASE call' = [call EXCEPT ![k].pc = "end"] /\ UNCHANGED <<act, db>>
  BY <1>0, <1>3, CallerLeaves
<1>4. CASE /\ ~act[g].term /\ act' = [act EXCEPT ![g].pend = [cmd |-> call[k].cmd, acked |-> FALSE]]
           /\ db' = [db EXCEPT !.issued = @ \cup {call[k].cmd}]
           /\ call' = [call EXCEPT ![k].pc = "write"]
  <2> DEFINE p == [cmd |-> call[k].cmd, acked |-> FALSE]
             y == [act[g] EXCEPT !.pend = p]
             z == [call[k] EXCEPT !.pc = "write"]
  <2>1. act' = [act EXCEPT ![g] = y] /\ call' = [call EXCEPT ![k] = z] BY <1>4
  <2>3. act[g] \in Actors BY <1>1, <1>2
  <2>4. /\ y.pc = act[g].pc /\ y.term = act[g].term /\ y.ready = act[g].ready
        /\ y.known = act[g].known /\ y.snap = act[g].snap /\ y.pend = p
    BY <2>3 DEF Actors, ActorRecords
  <2> HIDE DEF y
  <2>2. act'[g] = y /\ Others(g) BY <1>0, <1>2, <2>1, OnlyActor
  <2>5. z \in Calls /\ z.pc = "write" /\ z.g = g /\ z.cmd = call[k].cmd
    <3>1. "write" \in CallPhases BY DEF CallPhases
    <3> QED BY <1>0, <1>1, <3>1, CallMoves
  <2> HIDE DEF z
  <2>6. call'[k] = z /\ \A o \in Callers \ {k} : call'[o] = call[o] BY <1>1, <2>1
  <2>7. /\ db'.gen = db.gen /\ db'.snap = db.snap /\ db'.issued = db.issued \cup {call[k].cmd}
        /\ db'.open = db.open
    BY <1>1, <1>4 DEF Stores
  <2> QED BY <1>0, <1>2, <1>4, <2>2, <2>4, <2>5, <2>6, <2>7 DEF Registers
<1> QED BY <1>3, <1>4 DEF RegisterCommand

Sends(k) ==
    LET g == call[k].g IN
    /\ g \in Gens /\ call[k].cmd \in Cmds
    /\ UNCHANGED <<b, act, db, ag, up, toC>> /\ up[g] /\ ~act[g].term
    /\ toA'[g] = Append(toA[g], Msg("cmd", call[k].cmd))
    /\ \A h \in Gens \ {g} : toA'[h] = toA[h]
    /\ call[k].pc = "write" /\ call'[k].pc = "wait" /\ call'[k].g = g /\ call'[k].cmd = call[k].cmd
    /\ \A o \in Callers \ {k} : call'[o] = call[o]

LEMMA WriteCommandCases == ASSUME Inv, NEW k \in Callers, WriteCommand(k) PROVE MildStep \/ Sends(k)
<1> DEFINE g == call[k].g
<1>0. call[k].pc = "write" /\ UNCHANGED <<b, db, ag, up, toC>> BY DEF WriteCommand
<1>1. call[k] \in Calls /\ call \in [Callers -> Calls] BY DEF Inv, Typed
<1>2. g \in Gens /\ call[k].cmd \in Cmds BY <1>0, <1>1, CallOf
<1>3. CASE /\ act' = [act EXCEPT ![g] = Terminate(@)]
           /\ call' = [call EXCEPT ![k].pc = "end"] /\ UNCHANGED toA
  BY <1>0, <1>3, CallerLeaves
<1>4. CASE /\ up[g] /\ ~act[g].term /\ toA' = Send(toA, g, Msg("cmd", call[k].cmd))
           /\ call' = [call EXCEPT ![k].pc = "wait"] /\ UNCHANGED act
  <2> DEFINE z == [call[k] EXCEPT !.pc = "wait"]
  <2>1. call' = [call EXCEPT ![k] = z] BY <1>4
  <2>2. z \in Calls /\ z.pc = "wait" /\ z.g = g /\ z.cmd = call[k].cmd
    <3>1. "wait" \in CallPhases BY DEF CallPhases
    <3> QED BY <1>0, <1>1, <3>1, CallMoves
  <2> HIDE DEF z
  <2>3. call'[k] = z /\ \A o \in Callers \ {k} : call'[o] = call[o] BY <1>1, <2>1
  <2>4. Sent(g, Msg("cmd", call[k].cmd)) /\ \A h \in Gens \ {g} : toA'[h] = toA[h]
    BY <1>2, <1>4, SentAt
  <2>5. toA'[g] = Append(toA[g], Msg("cmd", call[k].cmd)) BY <1>4, <2>4 DEF Sent
  <2> QED BY <1>0, <1>2, <1>4, <2>2, <2>3, <2>4, <2>5 DEF Sends
<1> QED BY <1>3, <1>4 DEF WriteCommand

---------------------------------------------------------------------------
(* The store holds an acknowledged intent: steps of the sessions *)

LEMMA OtherServed ==
    ASSUME BeatInv, NEW g \in Gens, NEW h \in Gens \ {g}, Mild(act[h], act'[h]),
           Live(h)' => b'.session = b.session /\ b'.closed = b.closed
    PROVE  Serve(h)'
<1>1. Serve(h) BY DEF BeatInv, Served
<1>2. Live(h)' => Live(h) BY DEF Mild, Live, Ended
<1>3. Live(h)' => b'.session = h /\ ~b'.closed BY <1>1, <1>2 DEF Serve
<1>4. act'[h].pc \in Ended => act'[h].term BY <1>1 DEF Mild, Serve
<1>5. act'[h].ready => act'[h].pc \notin Early BY <1>1 DEF Mild, Serve, Ended, Early
<1> QED BY <1>3, <1>4, <1>5 DEF Serve

LEMMA ReadKeeps == ASSUME Inv, NEW g \in Gens, Read(g), NEW M PROVE Kept(toC[g], toC'[g], M)
<1>1. toC[g] \in Seq(Reports) BY DEF Inv, Typed
<1> QED BY <1>1, KeptTail DEF Read

LEMMA SentKeeps ==
    ASSUME Inv, NEW g \in Gens, NEW m \in Orders, Sent(g, m), NEW M, m \notin M
    PROVE  Kept(toA[g], toA'[g], M)
<1>1. toA[g] \in Seq(Orders) BY DEF Inv, Typed
<1>2. CASE up[g] BY <1>1, <1>2, KeptAppend DEF Sent
<1>3. CASE ~up[g] BY <1>3, KeptSame DEF Sent
<1> QED BY <1>2, <1>3

LEMMA NotLater == ASSUME Inv, NEW g \in Gens, act[g].pc # "none" PROVE ~(g > b.gen)
<1>1. g \in Nat /\ b.gen \in Nat BY Gen, BrokerOf DEF Inv, Typed
<1>2. g <= b.gen BY DEF Inv, Numbered
<1> QED BY <1>1, <1>2

\* A step of one session that leaves the intent and the heartbeats alone.
LEMMA SessionFrame ==
    ASSUME Inv, BeatInv, NEW g \in Gens, Others(g), Serve(g)', UNCHANGED <<ag, up>>,
           b'.session = b.session, b'.closed = b.closed, b'.projected = b.projected, b'.gen = b.gen,
           db'.gen = db.gen, db'.snap.own = db.snap.own,
           g > b.gen => toC'[g] = toC[g] /\ toA'[g] = toA[g],
           act'[g].pc \in Holding => act[g].pc \in Holding /\ act'[g].snap.own = act[g].snap.own,
           act[g].pc = "stored" => act'[g].pc = "stored",
           Kept(toC[g], toC'[g], HbC), Kept(toA[g], toA'[g], HbA)
    PROVE  BeatInv'
<1>1. Served'
  <2> SUFFICES ASSUME NEW h \in Gens PROVE Serve(h)' BY DEF Served
  <2>1. CASE h = g BY <2>1
  <2>2. CASE h # g
    <3>1. h \in Gens \ {g} /\ Mild(act[h], act'[h]) BY <2>2 DEF Others
    <3> QED BY <3>1, OtherServed
  <2> QED BY <2>1, <2>2
<1>4. Connected'
  <2>1. \A h \in Gens : h > b.gen => toC'[h] = toC[h] /\ toA'[h] = toA[h] BY DEF Others
  <2> QED BY <2>1 DEF BeatInv, Connected, On
<1>5. \A h \in Gens : act[h].pc = "stored" => act'[h].pc = "stored" BY DEF Others
<1>6. Followed' BY <1>5 DEF BeatInv, Followed
<1>7. Intended'
  <2> SUFFICES ASSUME NEW h \in Gens, act'[h].pc \in Holding, db'.gen = h
               PROVE  db'.snap.own = act'[h].snap.own
    BY DEF Intended
  <2>1. act[h].pc \in Holding /\ act'[h].snap.own = act[h].snap.own
    <3>1. CASE h = g BY <3>1
    <3>2. CASE h # g BY <3>2 DEF Others, Mild, Ended, Holding
    <3> QED BY <3>1, <3>2
  <2> QED BY <2>1 DEF BeatInv, Intended
<1>8. Beats'
  <2> SUFFICES ASSUME NEW h \in Gens, On(h)' PROVE Beat(h)' BY DEF Beats
  <2>1. On(h) /\ Beat(h) BY DEF On, BeatInv, Beats
  <2>2. Kept(toC[h], toC'[h], HbC) /\ Kept(toA[h], toA'[h], HbA)
    <3>1. CASE h = g BY <3>1
    <3>2. CASE h # g
      <4>1. toC'[h] = toC[h] /\ toA'[h] = toA[h] BY <3>2 DEF Others
      <4> QED BY <4>1, KeptSame
    <3> QED BY <3>1, <3>2
  <2> QED BY <2>1, <2>2, BeatKeeps
<1> QED BY <1>1, <1>4, <1>6, <1>7, <1>8 DEF BeatInv

LEMMA AckKinds ==
    /\ \A of \in {"hello", "snap", "upd"} : Msg("ack", of) \in Orders /\ Msg("ack", of) \notin HbA
    /\ \A c \in Cmds : Msg("cmd", c) \in Orders /\ Msg("cmd", c) \notin HbA
<1>1. \A of \in {"hello", "snap", "upd"} : Msg("ack", of).of = of BY DEF Msg
<1>2. \A c \in Cmds : Msg("cmd", c).t = "cmd" BY DEF Msg
<1> QED BY <1>1, <1>2, MessageTyped DEF HbA

LEMMA GreetsBeat == ASSUME Inv, BeatInv, NEW g \in Gens, Greets(g) PROVE BeatInv'
<1>1. act[g] \in Actors /\ Serve(g) BY DEF Inv, Typed, BeatInv, Served
<1>2. act'[g].pc = "captured" /\ act'[g].ready = act[g].ready BY <1>1 DEF Greets, Actors, ActorRecords
<1>3. Serve(g)' BY <1>1, <1>2 DEF Greets, Serve, Live, Early, Ended
<1>4. Kept(toC[g], toC'[g], HbC) BY ReadKeeps DEF Greets
<1>5. Kept(toA[g], toA'[g], HbA)
  <2>1. Sent(g, Msg("ack", "hello")) BY DEF Greets
  <2> QED BY <2>1, AckKinds, SentKeeps
<1> QED BY <1>2, <1>3, <1>4, <1>5, NotLater, SessionFrame DEF Greets, Fixed, Holding

LEMMA ProjectsBeat == ASSUME Inv, BeatInv, NEW g \in Gens, Projects(g) PROVE BeatInv'
<1>1. act[g] \in Actors /\ Serve(g) BY DEF Inv, Typed, BeatInv, Served
<1>2. act'[g].pc = "locked" /\ act'[g].ready = act[g].ready BY <1>1 DEF Projects, Actors, ActorRecords
<1>3. Serve(g)' BY <1>1, <1>2 DEF Projects, Serve, Live, Early, Ended
<1>4. Kept(toC[g], toC'[g], HbC) BY ReadKeeps DEF Projects
<1>5. Kept(toA[g], toA'[g], HbA) BY KeptSame DEF Projects
<1> QED BY <1>2, <1>3, <1>4, <1>5, NotLater, SessionFrame DEF Projects, Fixed, Holding

LEMMA MarksBeat == ASSUME Inv, BeatInv, NEW g \in Gens, Marks(g) PROVE BeatInv'
<1>1. act[g] \in Actors BY DEF Inv, Typed
<1>2. act'[g].pc = "run" /\ act'[g].snap = act[g].snap BY <1>1 DEF Marks, Actors, ActorRecords
<1>3. Serve(g)' BY <1>2 DEF Marks, Fixed, Serve, Early, Ended
<1>4. Kept(toC[g], toC'[g], HbC) BY KeptSame DEF Marks
<1>5. Kept(toA[g], toA'[g], HbA)
  <2>1. Sent(g, Msg("ack", "snap")) BY DEF Marks
  <2> QED BY <2>1, AckKinds, SentKeeps
<1> QED BY <1>2, <1>3, <1>4, <1>5, NotLater, SessionFrame DEF Marks, Fixed, Holding

LEMMA LearnsBeat == ASSUME Inv, BeatInv, NEW g \in Gens, Learns(g) PROVE BeatInv'
<1>1. Serve(g) BY DEF BeatInv, Served
<1>2. Serve(g)' BY <1>1 DEF Learns, Fixed, Serve, Live, Early, Ended
<1>3. Kept(toC[g], toC'[g], HbC) BY ReadKeeps DEF Learns
<1>4. Kept(toA[g], toA'[g], HbA) BY KeptSame DEF Learns
<1> QED BY <1>2, <1>3, <1>4, NotLater, SessionFrame DEF Learns, Fixed, Holding

LEMMA TakesBeat == ASSUME Inv, BeatInv, NEW g \in Gens, Takes(g) PROVE BeatInv'
<1>1. Serve(g) BY DEF BeatInv, Served
<1>2. Serve(g)' BY <1>1 DEF Takes, Fixed, Serve, Live, Early, Ended
<1>3. Kept(toC[g], toC'[g], HbC) BY ReadKeeps DEF Takes
<1>4. Kept(toA[g], toA'[g], HbA)
  <2>1. Sent(g, Msg("ack", "upd")) BY DEF Takes
  <2> QED BY <2>1, AckKinds, SentKeeps
<1> QED BY <1>2, <1>3, <1>4, NotLater, SessionFrame DEF Takes, Fixed, Holding

LEMMA RegistersBeat == ASSUME Inv, BeatInv, NEW k \in Callers, Registers(k) PROVE BeatInv'
<1>1. PICK g \in Gens : g = call[k].g BY DEF Registers
<1>2. Serve(g) BY <1>1 DEF BeatInv, Served
<1>3. /\ Others(g) /\ UNCHANGED <<b, ag, up, toC, toA>> /\ db'.gen = db.gen /\ db'.snap = db.snap
      /\ act'[g].pc = act[g].pc /\ act'[g].term = act[g].term /\ act'[g].ready = act[g].ready
      /\ act'[g].snap = act[g].snap
  BY <1>1 DEF Registers
<1>4. Serve(g)' BY <1>2, <1>3 DEF Serve, Live
<1>5. Kept(toC[g], toC'[g], HbC) /\ Kept(toA[g], toA'[g], HbA) BY <1>3, KeptSame
<1> QED BY <1>1, <1>3, <1>4, <1>5, SessionFrame

LEMMA SendsBeat == ASSUME Inv, BeatInv, NEW k \in Callers, Sends(k) PROVE BeatInv'
<1>1. PICK g \in Gens : g = call[k].g BY DEF Sends
<1>2. Serve(g) BY <1>1 DEF BeatInv, Served
<1>3. /\ UNCHANGED <<b, act, db, ag, up, toC>> /\ up[g] /\ call[k].cmd \in Cmds
      /\ toA'[g] = Append(toA[g], Msg("cmd", call[k].cmd)) /\ \A h \in Gens \ {g} : toA'[h] = toA[h]
  BY <1>1 DEF Sends
<1>4. Serve(g)' BY <1>2, <1>3 DEF Serve, Live
<1>5. Others(g) BY <1>3 DEF Others, Mild
<1>6. Sent(g, Msg("cmd", call[k].cmd)) BY <1>3 DEF Sent
<1>7. Kept(toC[g], toC'[g], HbC) BY <1>3, KeptSame
<1>8. Kept(toA[g], toA'[g], HbA) BY <1>1, <1>3, <1>6, AckKinds, SentKeeps
<1>9. ~(g > b.gen)
  <2>1. g = b.gen /\ b.gen \in Nat BY <1>3, Gen DEF BeatInv, Connected, On
  <2> QED BY <2>1
<1> QED BY <1>1, <1>3, <1>4, <1>5, <1>7, <1>8, <1>9, SessionFrame

\* While a snapshot is projected no heartbeat of the Agent's connection has been acknowledged.
LEMMA UnbeatenWhileProjecting ==
    ASSUME Inv, BeatInv, NEW g \in Gens, act[g].pc \in {"locked", "stored"}, NEW h \in Gens, On(h)
    PROVE  None(toA[h], HbA)
<1> SUFFICES ASSUME ~None(toA[h], HbA) PROVE FALSE OBVIOUS
<1>1. Beat(h) BY DEF BeatInv, Beats
<1>2. b.projected = h BY <1>1 DEF Beat
<1>3. h = b.gen BY DEF BeatInv, Connected, On
<1>4. b.projected < g /\ g <= b.gen BY DEF Inv, Projecting, Numbered
<1>5. g \in Nat /\ h \in Nat BY Gen
<1> QED BY <1>2, <1>3, <1>4, <1>5

LEMMA CommitsBeat == ASSUME Inv, BeatInv, NEW g \in Gens, Commits(g) PROVE BeatInv'
<1>0. /\ UNCHANGED <<b, ag, up, toC, toA>> /\ Others(g) /\ db'.gen = g /\ db'.snap = act[g].snap
      /\ act[g].pc = "locked" /\ act'[g] = [act[g] EXCEPT !.pc = "stored"]
  BY DEF Commits
<1>1. act[g] \in Actors /\ Serve(g) BY DEF Inv, Typed, BeatInv, Served
<1>2. act'[g].pc = "stored" /\ act'[g].ready = act[g].ready /\ act'[g].snap = act[g].snap
  BY <1>0, <1>1 DEF Actors, ActorRecords
<1>3. Served'
  <2> SUFFICES ASSUME NEW h \in Gens PROVE Serve(h)' BY DEF Served
  <2>1. CASE h = g BY <1>0, <1>1, <1>2, <2>1 DEF Serve, Live, Early, Ended
  <2>2. CASE h # g
    <3>1. h \in Gens \ {g} /\ Mild(act[h], act'[h]) BY <1>0, <2>2 DEF Others
    <3> QED BY <1>0, <3>1, OtherServed
  <2> QED BY <2>1, <2>2
<1>4. Connected' BY <1>0 DEF BeatInv, Connected, On
<1>5. Followed' BY <1>2 DEF Followed
<1>6. Intended' BY <1>0, <1>2 DEF Intended
<1>7. Beats'
  <2> SUFFICES ASSUME NEW h \in Gens, On(h)' PROVE Beat(h)' BY DEF Beats
  <2>1. On(h) BY <1>0 DEF On
  <2>2. Beat(h) /\ None(toA[h], HbA) BY <1>0, <2>1, UnbeatenWhileProjecting DEF BeatInv, Beats
  <2>3. Kept(toC[h], toC'[h], HbC) /\ Kept(toA[h], toA'[h], HbA) BY <1>0, KeptSame
  <2> QED BY <1>0, <2>2, <2>3, BeatKeeps
<1> QED BY <1>3, <1>4, <1>5, <1>6, <1>7 DEF BeatInv

LEMMA RecordsBeat == ASSUME Inv, BeatInv, NEW g \in Gens, Records(g) PROVE BeatInv'
<1>0. /\ UNCHANGED <<db, ag, up, toC, toA>> /\ ~b.closed /\ b'.projected = g /\ b'.session = g
      /\ b'.closed = b.closed /\ b'.gen = b.gen /\ act[g].pc = "stored" /\ act'[g].pc = "active"
      /\ act'[g].ready = act[g].ready /\ act'[g].snap.own = act[g].snap.own
  BY DEF Records
<1>1. Serve(g) /\ ~act[g].ready BY <1>0 DEF BeatInv, Served, Serve, Early
<1>2. Served'
  <2> SUFFICES ASSUME NEW h \in Gens PROVE Serve(h)' BY DEF Served
  <2>1. CASE h = g BY <1>0, <1>1, <2>1 DEF Serve, Early, Ended
  <2>2. CASE h # g
    <3>1. h \in Gens \ {g} /\ Mild(act[h], act'[h]) /\ (h = b.session => act'[h].term)
      BY <2>2 DEF Records
    <3>2. Serve(h) BY DEF BeatInv, Served
    <3>3. Live(h)' => Live(h) BY <3>1 DEF Mild, Live, Ended
    <3>4. ~Live(h)' BY <3>1, <3>2, <3>3 DEF Serve, Live
    <3> QED BY <3>1, <3>4, OtherServed
  <2> QED BY <2>1, <2>2
<1>3. Connected' BY <1>0 DEF BeatInv, Connected, On
<1>4. db.gen = g BY <1>0 DEF Inv, Projecting
<1>5. Followed' BY <1>0, <1>4 DEF Followed
<1>6. Intended' BY <1>0, <1>4 DEF BeatInv, Intended, Holding
<1>7. Beats'
  <2> SUFFICES ASSUME NEW h \in Gens, On(h)' PROVE Beat(h)' BY DEF Beats
  <2>1. On(h) BY <1>0 DEF On
  <2>2. Beat(h) /\ None(toA[h], HbA) BY <1>0, <2>1, UnbeatenWhileProjecting DEF BeatInv, Beats
  <2>3. Kept(toC[h], toC'[h], HbC) /\ Kept(toA[h], toA'[h], HbA) BY <1>0, KeptSame
  <2> QED BY <1>0, <2>2, <2>3, BeatKeeps
<1> QED BY <1>2, <1>3, <1>5, <1>6, <1>7 DEF BeatInv

LEMMA HearsBeat == ASSUME Inv, BeatInv, NEW g \in Gens, Hears(g) PROVE BeatInv'
<1> DEFINE m == Head(toC[g])
<1>0. /\ UNCHANGED <<b, ag, up>> /\ Others(g) /\ Read(g) /\ Sent(g, Msg("ack", "hb")) /\ m \in HbC
      /\ act[g].pc = "run" /\ b.lock = 0 /\ b.projected = g /\ ~b.closed /\ db'.gen = db.gen
      /\ db'.snap.own = AdoptOwnerState(db.snap.own, act[g], m.s)
      /\ act'[g].pc = "run" /\ act'[g].term = act[g].term /\ act'[g].ready = act[g].ready
      /\ act'[g].snap.own = m.s.own
  BY DEF Hears, Current
<1>1. toC[g] \in Seq(Reports) /\ toA[g] \in Seq(Orders) BY DEF Inv, Typed
<1>2. \A h \in Gens : act[h].pc # "stored"
  <2>1. 0 \notin Gens BY Gen
  <2> QED BY <1>0, <2>1 DEF Inv, Projecting
<1>3. db.gen = g BY <1>0, <1>2 DEF BeatInv, Followed
<1>4. db.snap.own = act[g].snap.own BY <1>0, <1>3 DEF BeatInv, Intended, Holding
<1>5. db'.snap.own = m.s.own BY <1>0, <1>4 DEF AdoptOwnerState, OwnerChanged
<1> HIDE DEF m
<1>6. Served'
  <2> SUFFICES ASSUME NEW h \in Gens PROVE Serve(h)' BY DEF Served
  <2>1. CASE h = g
    <3>1. Serve(g) BY DEF BeatInv, Served
    <3> QED BY <1>0, <2>1, <3>1 DEF Serve, Live, Early, Ended
  <2>2. CASE h # g
    <3>1. h \in Gens \ {g} /\ Mild(act[h], act'[h]) BY <1>0, <2>2 DEF Others
    <3> QED BY <1>0, <3>1, OtherServed
  <2> QED BY <2>1, <2>2
<1>7. Connected'
  <2>1. ~(g > b.gen) BY <1>0, NotLater
  <2>2. \A h \in Gens : h > b.gen => toC'[h] = toC[h] /\ toA'[h] = toA[h] BY <1>0, <2>1 DEF Others
  <2> QED BY <1>0, <2>2 DEF BeatInv, Connected, On
<1>8. Followed' BY <1>0, <1>3 DEF Followed
<1>9. Intended' BY <1>0, <1>3, <1>5 DEF Intended
<1>10. Beats'
  <2> SUFFICES ASSUME NEW h \in Gens, On(h)' PROVE Beat(h)' BY DEF Beats
  <2>1. On(h) /\ Beat(h) BY <1>0 DEF On, BeatInv, Beats
  <2>2. CASE h # g
    <3>1. toC'[h] = toC[h] /\ toA'[h] = toA[h] BY <1>0, <2>2 DEF Others
    <3>2. None(toA[h], HbA) BY <1>0, <2>1, <2>2 DEF Beat
    <3>3. Kept(toC[h], toC'[h], HbC) /\ Kept(toA[h], toA'[h], HbA) BY <3>1, KeptSame
    <3> QED BY <1>0, <2>1, <3>2, <3>3, BeatKeeps
  <2>3. CASE h = g
    <3>1. 1 \in DOMAIN toC[g] /\ m = toC[g][1] BY <1>0, <1>1, TailOf DEF Read, m
    <3>2. ~None(toC[g], HbC) BY <1>0, <3>1 DEF None
    <3>3. None(toA[g], HbA) /\ ag.hb # 0 /\ ag.pc = "run" /\ One(toC[g], HbC) /\ m.s.own = ag.hb
      BY <1>0, <2>1, <2>3, <3>1, <3>2 DEF Beat
    <3>4. None(toC'[g], HbC) BY <1>0, <1>1, <3>3, ReadOne DEF Read, m
    <3>5. up[g] BY <2>1, <2>3 DEF BeatInv, Connected
    <3>6. toA'[g] = Append(toA[g], Msg("ack", "hb")) /\ Msg("ack", "hb") \in Orders
      BY <1>0, <3>5, MessageTyped DEF Sent
    <3>7. One(toA'[g], HbA) BY <1>1, <3>3, <3>6, SendOne
    <3>8. HbC' = HbC /\ HbA' = HbA BY DEF HbC, HbA, Reports, Orders, Updates
    <3>9. One(toC'[g], HbC) /\ \A i \in DOMAIN toC'[g] : toC'[g][i] \notin HbC BY <3>4 DEF None, One
    <3>10. ag' = ag /\ db'.snap.own = ag.hb /\ b' = b BY <1>0, <1>5, <3>3
    <3> QED BY <1>0, <2>3, <3>3, <3>4, <3>7, <3>8, <3>9, <3>10 DEF Beat, None, One
  <2> QED BY <2>2, <2>3
<1> QED BY <1>6, <1>7, <1>8, <1>9, <1>10 DEF BeatInv

---------------------------------------------------------------------------
(* The Agent's steps: what they do *)

\* The connection goes on: only its queues and the Agent change.
Talks(g) ==
    /\ UNCHANGED <<b, act, call, db, up>> /\ On(g) /\ ag'.pc # "off" /\ ag'.g = g
    /\ \A h \in Gens \ {g} : toC'[h] = toC[h] /\ toA'[h] = toA[h]
Says(g, m) == m \in Reports /\ toC'[g] = Append(toC[g], m)
Listens(g) == toA[g] # <<>> /\ toA'[g] = Tail(toA[g])

LEMMA SaysAt ==
    ASSUME Inv, BeatInv, NEW g \in Gens, On(g), NEW m \in Reports, toC' = Send(toC, g, m)
    PROVE  Says(g, m) /\ \A h \in Gens \ {g} : toC'[h] = toC[h]
<1>1. toC \in [Gens -> Seq(Reports)] BY DEF Inv, Typed
<1>2. up[g] BY DEF BeatInv, Connected
<1> QED BY <1>1, <1>2, SentTo DEF Says

LEMMA ListensAt ==
    ASSUME Inv, NEW g \in Gens, toA[g] # <<>>, toA' = [toA EXCEPT ![g] = Tail(@)]
    PROVE  Listens(g) /\ \A h \in Gens \ {g} : toA'[h] = toA[h]
<1>1. toA \in [Gens -> Seq(Orders)] BY DEF Inv, Typed
<1> QED BY <1>1 DEF Listens

LEMMA Here == ASSUME Inv, ag.pc # "off" PROVE \E g \in Gens : g = ag.g /\ On(g)
<1>1. ag \in Agents BY DEF Inv, Typed
<1>2. ag.g \in Gens BY <1>1, AgentOf
<1> QED BY <1>2 DEF On

\* The snapshot is sent.
Presents(g) ==
    /\ Talks(g) /\ Listens(g) /\ \E m \in SnapC : Says(g, m) /\ m.s.j = ag.j
    /\ ag.pc = "hello" /\ ag'.pc = "snap"
    /\ ag'.j = ag.j /\ ag'.out = ag.out /\ ag'.hb = ag.hb /\ ag'.upd = ag.upd

LEMMA AgentSnapshotDoes == ASSUME Inv, BeatInv, AgentSnapshot PROVE \E g \in Gens : Presents(g)
<1>0. ag.pc = "hello" /\ UNCHANGED <<b, act, call, db, up>> BY DEF AgentSnapshot
<1>1. PICK g \in Gens : g = ag.g /\ On(g) BY <1>0, Here
<1> DEFINE m == [Msg("snap", 0) EXCEPT !.s = Report(TRUE)]
<1>2. ag \in Agents BY DEF Inv, Typed
<1>3. m \in Reports /\ m.t = "snap" /\ m.s = Report(TRUE)
  <2>1. m \in Reports BY <1>2, ReportTyped, MessageTyped
  <2> QED BY <2>1 DEF Msg
<1>4. m.s.j = ag.j BY <1>3 DEF Report
<1>5. m \in SnapC BY <1>3 DEF SnapC
<1>6. toA[g] # <<>> /\ toA' = [toA EXCEPT ![g] = Tail(@)] /\ toC' = Send(toC, g, m) BY <1>1 DEF AgentSnapshot
<1> HIDE DEF m
<1>7. Says(g, m) /\ \A h \in Gens \ {g} : toC'[h] = toC[h] BY <1>1, <1>3, <1>6, SaysAt
<1>8. Listens(g) /\ \A h \in Gens \ {g} : toA'[h] = toA[h] BY <1>6, ListensAt
<1>9. /\ ag'.pc = "snap" /\ ag'.g = ag.g /\ ag'.j = ag.j /\ ag'.out = ag.out /\ ag'.hb = ag.hb
      /\ ag'.upd = ag.upd
  BY <1>2 DEF AgentSnapshot, Agents, AgentRecords
<1>10. Talks(g) BY <1>0, <1>1, <1>7, <1>8, <1>9 DEF Talks
<1> QED BY <1>0, <1>4, <1>5, <1>7, <1>8, <1>9, <1>10 DEF Presents

\* The head of the outbox is sent.
Tells(g) ==
    /\ Talks(g) /\ toA'[g] = toA[g] /\ Says(g, ag.out[1]) /\ ag.out[1] \in Updates
    /\ ag.pc = "run" /\ ag'.pc = "run" /\ ~ag.upd /\ ag'.upd /\ ag.out # <<>>
    /\ ag'.j = ag.j /\ ag'.out = ag.out /\ ag'.hb = ag.hb

LEMMA AgentSendsUpdateDoes == ASSUME Inv, BeatInv, AgentSendsUpdate PROVE \E g \in Gens : Tells(g)
<1>0. /\ ag.pc = "run" /\ ~ag.upd /\ ag.out # <<>> /\ UNCHANGED <<b, act, call, db, up, toA>>
      /\ ag' = [ag EXCEPT !.upd = TRUE] /\ toC' = Send(toC, ag.g, Head(ag.out))
  BY DEF AgentSendsUpdate
<1>1. PICK g \in Gens : g = ag.g /\ On(g) BY <1>0, Here
<1>2. ag \in Agents /\ ag.out \in Seq(Updates) BY AgentOf DEF Inv, Typed
<1>3. Head(ag.out) = ag.out[1] /\ ag.out[1] \in Updates BY <1>0, <1>2, TailOf
<1>4. ag.out[1] \in Reports BY <1>3 DEF Reports
<1>5. Says(g, ag.out[1]) /\ \A h \in Gens \ {g} : toC'[h] = toC[h] BY <1>0, <1>1, <1>3, <1>4, SaysAt
<1>6. /\ ag'.pc = "run" /\ ag'.g = ag.g /\ ag'.j = ag.j /\ ag'.out = ag.out /\ ag'.hb = ag.hb /\ ag'.upd
  BY <1>0, <1>2 DEF Agents, AgentRecords
<1>7. Talks(g) BY <1>0, <1>1, <1>5, <1>6 DEF Talks
<1> QED BY <1>0, <1>3, <1>5, <1>6, <1>7 DEF Tells

\* The Agent is off its connection.
Leaves(g) ==
    /\ UNCHANGED <<b, act, call, db, toC>> /\ On(g) /\ up' = [up EXCEPT ![g] = FALSE]
    /\ \A h \in Gens : toA'[h] = toA[h] \/ (h = g /\ toA'[h] = <<>>)
    /\ ag'.pc = "off" /\ ag'.j = ag.j /\ ag'.out = ag.out /\ ag'.upd = ag.upd

LEMMA OfflineIs ==
    ASSUME Inv PROVE /\ Offline.pc = "off" /\ Offline.j = ag.j /\ Offline.out = ag.out
                     /\ Offline.upd = ag.upd /\ Offline.hb = 0
<1>1. ag \in Agents BY DEF Inv, Typed
<1> QED BY <1>1 DEF Offline, Agents, AgentRecords

\* A heartbeat is sent.
Beating(g) ==
    /\ Talks(g) /\ toA'[g] = toA[g] /\ \E m \in HbC : Says(g, m) /\ m.s.own = ag.own
    /\ ag.pc = "run" /\ ag'.pc = "run" /\ ag.hb = 0 /\ ag'.hb = ag.own
    /\ ag'.j = ag.j /\ ag'.out = ag.out /\ ag'.upd = ag.upd

LEMMA AgentHeartbeatDoes ==
    ASSUME Inv, BeatInv, AgentHeartbeat PROVE \E g \in Gens : Beating(g) \/ Leaves(g)
<1>0. ag.pc = "run" /\ UNCHANGED <<b, act, call, db, toA>> BY DEF AgentHeartbeat
<1>1. PICK g \in Gens : g = ag.g /\ On(g) BY <1>0, Here
<1>2. ag \in Agents BY DEF Inv, Typed
<1>3. CASE ag.hb # 0
  <2>1. ag' = Offline /\ up' = [up EXCEPT ![g] = FALSE] /\ toC' = toC BY <1>1, <1>3 DEF AgentHeartbeat
  <2> QED BY <1>0, <1>1, <2>1, OfflineIs DEF Leaves
<1>4. CASE ag.hb = 0
  <2>1. ag' = [ag EXCEPT !.hb = ag.own] /\ up' = up BY <1>4 DEF AgentHeartbeat
  <2>2. PICK nat \in BOOLEAN : toC' = Send(toC, g, [Msg("hb", 0) EXCEPT !.s = Report(nat)])
    BY <1>1, <1>4 DEF AgentHeartbeat
  <2> DEFINE m == [Msg("hb", 0) EXCEPT !.s = Report(nat)]
  <2>3. m \in Reports /\ m.t = "hb" /\ m.s = Report(nat)
    <3>1. m \in Reports BY <1>2, ReportTyped, MessageTyped
    <3> QED BY <3>1 DEF Msg
  <2>4. m.s.own = ag.own BY <2>3 DEF Report
  <2>5. m \in HbC BY <2>3 DEF HbC
  <2> HIDE DEF m
  <2>6. toC' = Send(toC, g, m) BY <2>2 DEF m
  <2>7. Says(g, m) /\ \A h \in Gens \ {g} : toC'[h] = toC[h] BY <1>1, <2>3, <2>6, SaysAt
  <2>8. /\ ag'.pc = "run" /\ ag'.g = ag.g /\ ag'.j = ag.j /\ ag'.out = ag.out /\ ag'.hb = ag.own
        /\ ag'.upd = ag.upd
    BY <1>0, <1>2, <2>1 DEF Agents, AgentRecords
  <2>9. Talks(g) BY <1>0, <1>1, <2>1, <2>7, <2>8 DEF Talks
  <2> QED BY <1>0, <1>4, <2>4, <2>5, <2>7, <2>8, <2>9 DEF Beating
<1> QED BY <1>3, <1>4

LEMMA ConnectionEndsDoes == ASSUME Inv, Break \/ AgentSeesEnd PROVE \E g \in Gens : Leaves(g)
<1>0. /\ ag.pc # "off" /\ up' = [up EXCEPT ![ag.g] = FALSE] /\ toA' = [toA EXCEPT ![ag.g] = <<>>]
      /\ ag' = Offline /\ UNCHANGED <<b, act, call, db, toC>>
  BY DEF Break, AgentSeesEnd
<1>1. PICK g \in Gens : g = ag.g /\ On(g) BY <1>0, Here
<1>2. toA \in [Gens -> Seq(Orders)] BY DEF Inv, Typed
<1>3. \A h \in Gens : toA'[h] = toA[h] \/ (h = g /\ toA'[h] = <<>>) BY <1>0, <1>1, <1>2
<1> QED BY <1>0, <1>1, <1>3, OfflineIs DEF Leaves

\* An acknowledgement is read: of the snapshot, of the heartbeat, of the update.
Opens(g) ==
    /\ Talks(g) /\ Listens(g) /\ toC'[g] = toC[g] /\ ag.pc = "snap" /\ ag'.pc = "run"
    /\ Head(toA[g]).t = "ack" /\ Head(toA[g]).of = "snap"
    /\ ag'.j = ag.j /\ ag'.out = ag.out /\ ag'.hb = ag.hb /\ ag'.upd = ag.upd
Confirms(g) ==
    /\ Talks(g) /\ Listens(g) /\ toC'[g] = toC[g] /\ ag.pc = "run" /\ ag'.pc = "run"
    /\ Head(toA[g]) \in HbA /\ ag'.hb = 0
    /\ ag'.j = ag.j /\ ag'.out = ag.out /\ ag'.upd = ag.upd
Clears(g) ==
    /\ Talks(g) /\ Listens(g) /\ toC'[g] = toC[g] /\ ag.pc = "run" /\ ag'.pc = "run"
    /\ Head(toA[g]) \in UpdA /\ ag.upd /\ ~ag'.upd /\ ag.out # <<>> /\ ag'.out = Tail(ag.out)
    /\ ag'.j = (IF ag.out[1].t = "done" THEN NoJournal ELSE ag.j) /\ ag'.hb = ag.hb

LEMMA AgentReadsAckDoes ==
    ASSUME Inv, BeatInv, AgentReadsAck
    PROVE  \E g \in Gens : Opens(g) \/ Confirms(g) \/ Clears(g) \/ Leaves(g)
<1>0. /\ ag.pc \in {"snap", "run"} /\ toA[ag.g] # <<>> /\ Head(toA[ag.g]).t = "ack"
      /\ UNCHANGED <<b, act, call, db, toC>>
  BY DEF AgentReadsAck
<1>1. PICK g \in Gens : g = ag.g /\ On(g) BY <1>0, Here
<1> DEFINE of == Head(toA[g]).of
<1>2. /\ ag' = IF Awaited(of) THEN Acknowledged(of) ELSE Offline
      /\ up' = [up EXCEPT ![g] = up[g] /\ Awaited(of)]
      /\ toA' = [toA EXCEPT ![g] = IF Awaited(of) THEN Tail(@) ELSE <<>>]
  BY <1>1 DEF AgentReadsAck
<1>3. ag \in Agents /\ up \in [Gens -> BOOLEAN] /\ toA \in [Gens -> Seq(Orders)] BY DEF Inv, Typed
<1>4. Head(toA[g]) \in Orders BY <1>0, <1>1, <1>3, QueueTail
<1>5. of \in {"hello", "snap", "hb", "upd"} BY <1>0, <1>1, <1>4 DEF Orders
<1> HIDE DEF of
<1>6. CASE ~Awaited(of)
  <2>1. ag' = Offline /\ up' = [up EXCEPT ![g] = FALSE] /\ toA' = [toA EXCEPT ![g] = <<>>] BY <1>2, <1>6
  <2>2. \A h \in Gens : toA'[h] = toA[h] \/ (h = g /\ toA'[h] = <<>>) BY <1>3, <2>1
  <2> QED BY <1>0, <1>1, <2>1, <2>2, OfflineIs DEF Leaves
<1>7. CASE Awaited(of)
  <2>1. up[g] BY <1>1 DEF BeatInv, Connected
  <2>2. up' = up
    <3>1. (up[g] /\ Awaited(of)) = up[g] BY <1>3, <1>7, <2>1
    <3> QED BY <1>2, <1>3, <3>1
  <2>3. ag' = Acknowledged(of) /\ toA' = [toA EXCEPT ![g] = Tail(@)] BY <1>2, <1>7
  <2>4. Listens(g) /\ \A h \in Gens \ {g} : toA'[h] = toA[h] BY <1>0, <1>1, <2>3, ListensAt
  <2>5. CASE ag.pc = "snap"
    <3>1. of = "snap" BY <1>7, <2>5 DEF Awaited
    <3>2. ag' = [ag EXCEPT !.pc = "run"] BY <2>3, <3>1 DEF Acknowledged
    <3>3. /\ ag'.pc = "run" /\ ag'.g = ag.g /\ ag'.j = ag.j /\ ag'.out = ag.out /\ ag'.hb = ag.hb
          /\ ag'.upd = ag.upd
      BY <1>3, <3>2 DEF Agents, AgentRecords
    <3>4. Talks(g) BY <1>0, <1>1, <2>2, <2>4, <3>3 DEF Talks
    <3> QED BY <1>0, <1>1, <2>4, <2>5, <3>1, <3>3, <3>4 DEF Opens, of
  <2>6. CASE ag.pc = "run" /\ of = "hb"
    <3>1. ag' = [ag EXCEPT !.conf = ag.hb, !.hb = 0] BY <2>3, <2>6 DEF Acknowledged
    <3>2. /\ ag'.pc = "run" /\ ag'.g = ag.g /\ ag'.j = ag.j /\ ag'.out = ag.out /\ ag'.hb = 0
          /\ ag'.upd = ag.upd
      BY <1>3, <2>6, <3>1 DEF Agents, AgentRecords
    <3>3. Talks(g) BY <1>0, <1>1, <2>2, <2>4, <3>2 DEF Talks
    <3>4. Head(toA[g]) \in HbA BY <1>0, <1>1, <1>4, <2>6 DEF HbA, of
    <3> QED BY <1>0, <2>4, <2>6, <3>2, <3>3, <3>4 DEF Confirms
  <2>7. CASE ag.pc = "run" /\ of # "hb"
    <3>1. of = "upd" /\ ag.upd BY <1>7, <2>7 DEF Awaited
    <3>2. ag' = [ag EXCEPT !.upd = FALSE, !.out = Tail(ag.out),
                           !.j = IF Head(ag.out).t = "done" THEN NoJournal ELSE ag.j]
      BY <2>3, <3>1 DEF Acknowledged
    <3>3. ag.out # <<>> /\ ag.out \in Seq(Updates) BY <1>3, <3>1, AgentOf
    <3>4. Head(ag.out) = ag.out[1] BY <3>3, TailOf
    <3>5. /\ ag'.pc = "run" /\ ag'.g = ag.g /\ ag'.out = Tail(ag.out) /\ ag'.hb = ag.hb /\ ~ag'.upd
          /\ ag'.j = (IF ag.out[1].t = "done" THEN NoJournal ELSE ag.j)
      BY <1>3, <2>7, <3>2, <3>4 DEF Agents, AgentRecords
    <3>6. Talks(g) BY <1>0, <1>1, <2>2, <2>4, <3>5 DEF Talks
    <3>7. Head(toA[g]) \in UpdA BY <1>0, <1>1, <1>4, <3>1 DEF UpdA, of
    <3> QED BY <1>0, <2>4, <2>7, <3>1, <3>3, <3>5, <3>6, <3>7 DEF Clears
  <2> QED BY <1>0, <2>5, <2>6, <2>7
<1> QED BY <1>6, <1>7

\* A command is journaled, acknowledged, and its report queued.
Reported(c) == Msg(IF ag.j.done THEN "done" ELSE "open", c)
Enters(g) ==
    /\ Talks(g) /\ Listens(g) /\ Head(toA[g]) \in CmdA /\ Says(g, Msg("ack", Head(toA[g]).of))
    /\ ag.pc = "run" /\ ag'.pc = "run" /\ ag'.hb = ag.hb /\ ag'.upd = ag.upd
    /\ ag'.j.cmds = ag.j.cmds \cup {Head(toA[g]).of} /\ ag'.j.done = ag.j.done
    /\ LET u == Reported(Head(toA[g]).of)
       IN  /\ u \in Updates
           /\ ag'.out = IF \E i \in DOMAIN ag.out : ag.out[i] = u THEN ag.out ELSE Append(ag.out, u)

LEMMA AgentCommandDoes == ASSUME Inv, BeatInv, AgentCommand PROVE \E g \in Gens : Enters(g)
<1>0. ag.pc = "run" /\ UNCHANGED <<b, act, call, db, up>> BY DEF AgentCommand
<1>1. PICK g \in Gens : g = ag.g /\ On(g) BY <1>0, Here
<1> DEFINE c == Head(toA[g]).of
           u == Reported(c)
           out == IF \E i \in DOMAIN ag.out : ag.out[i] = u THEN ag.out ELSE Append(ag.out, u)
           j == [ag.j EXCEPT !.cmds = ag.j.cmds \cup {c}]
<1>2. /\ toA[g] # <<>> /\ Head(toA[g]).t = "cmd" /\ toA' = [toA EXCEPT ![g] = Tail(@)]
      /\ ag' = [ag EXCEPT !.j.cmds = ag.j.cmds \cup {c}, !.out = out]
      /\ toC' = Send(toC, g, Msg("ack", c))
  BY <1>1 DEF AgentCommand, Reported
<1>3. ag \in Agents /\ ag \in AgentRecords /\ ag.j \in Journals /\ toA \in [Gens -> Seq(Orders)]
  BY AgentOf DEF Inv, Typed
<1>4. Head(toA[g]) \in Orders BY <1>2, <1>3, QueueTail
<1>5. c \in Cmds /\ c \in Names /\ Head(toA[g]) \in CmdA BY <1>2, <1>4 DEF Orders, Names, CmdA
<1>6. ag' = [ag EXCEPT !.j = j, !.out = out] BY <1>2, <1>3 DEF AgentRecords
<1>7. j.cmds = ag.j.cmds \cup {c} /\ j.done = ag.j.done BY <1>3 DEF Journals
<1>8. u \in Updates BY <1>5, MessageTyped DEF Reported
<1>9. Listens(g) /\ \A h \in Gens \ {g} : toA'[h] = toA[h] BY <1>2, ListensAt
<1>10. Says(g, Msg("ack", c)) /\ \A h \in Gens \ {g} : toC'[h] = toC[h]
  BY <1>1, <1>2, <1>5, MessageTyped, SaysAt
<1> HIDE DEF c, u, out, j
<1>11. /\ ag'.pc = "run" /\ ag'.g = ag.g /\ ag'.j = j /\ ag'.out = out /\ ag'.hb = ag.hb
       /\ ag'.upd = ag.upd
  BY <1>0, <1>3, <1>6 DEF AgentRecords
<1>12. Talks(g) BY <1>0, <1>1, <1>9, <1>10, <1>11 DEF Talks
<1>13. ag'.out = IF \E i \in DOMAIN ag.out : ag.out[i] = Reported(Head(toA[g]).of) THEN ag.out
                 ELSE Append(ag.out, Reported(Head(toA[g]).of))
  BY <1>11 DEF out, u, c
<1>14. Reported(Head(toA[g]).of) \in Updates BY <1>8 DEF u, c
<1>15. /\ ag'.j.cmds = ag.j.cmds \cup {Head(toA[g]).of} /\ ag'.j.done = ag.j.done
       /\ Says(g, Msg("ack", Head(toA[g]).of))
  BY <1>7, <1>10, <1>11 DEF c
<1> QED BY <1>0, <1>5, <1>9, <1>11, <1>12, <1>13, <1>14, <1>15 DEF Enters

\* The Agent changes by itself.
Alone == /\ UNCHANGED <<b, act, db, up, toC, toA>>
         /\ ag'.pc = ag.pc /\ ag'.g = ag.g /\ ag'.hb = ag.hb /\ ag'.upd = ag.upd
Finishing ==
    /\ Alone /\ UNCHANGED call /\ Cmds \subseteq ag.j.cmds /\ ~ag.j.done /\ \A i \in DOMAIN ag.out : ag.out[i].t # "done"
    /\ ag'.j.cmds = ag.j.cmds /\ ag'.j.done /\ ag'.out = Append(ag.out, Msg("done", Cardinality(Cmds)))

LEMMA AgentFinishesDoes == ASSUME Inv, AgentFinishes PROVE Finishing
<1> DEFINE u == Msg("done", Cardinality(Cmds))
           out == Append(ag.out, u)
           j == [ag.j EXCEPT !.done = TRUE]
<1>0. /\ ag' = [ag EXCEPT !.j.done = TRUE, !.out = out] /\ UNCHANGED <<b, act, call, db, up, toC, toA>>
      /\ Cmds \subseteq ag.j.cmds /\ ~ag.j.done /\ \A i \in DOMAIN ag.out : ag.out[i].t # "done"
  BY DEF AgentFinishes
<1>1. ag \in AgentRecords /\ ag.j \in Journals BY AgentOf DEF Inv, Typed
<1>2. ag' = [ag EXCEPT !.j = j, !.out = out] BY <1>0, <1>1 DEF AgentRecords
<1>3. j.cmds = ag.j.cmds /\ j.done BY <1>1 DEF Journals
<1> HIDE DEF j, out
<1>4. /\ ag'.pc = ag.pc /\ ag'.g = ag.g /\ ag'.j = j /\ ag'.out = out /\ ag'.hb = ag.hb
      /\ ag'.upd = ag.upd
  BY <1>1, <1>2 DEF AgentRecords
<1> QED BY <1>0, <1>3, <1>4 DEF Finishing, Alone, out

Decides == Alone /\ UNCHANGED call /\ ag'.j = ag.j /\ ag'.out = ag.out

LEMMA OwnerDoes == ASSUME Inv, SetAvailability \/ SetIntent PROVE Decides
<1>1. ag \in AgentRecords BY AgentOf DEF Inv, Typed
<1>2. UNCHANGED <<b, act, call, db, up, toC, toA>> BY DEF SetAvailability, SetIntent
<1>3. /\ ag'.pc = ag.pc /\ ag'.g = ag.g /\ ag'.j = ag.j /\ ag'.out = ag.out /\ ag'.hb = ag.hb
      /\ ag'.upd = ag.upd
  <2>1. CASE SetAvailability
    <3>1. PICK v : ag' = [ag EXCEPT !.dur = v, !.req = @ \cup {v}] BY <2>1 DEF SetAvailability
    <3> QED BY <1>1, <3>1 DEF AgentRecords
  <2>2. CASE SetIntent
    <3>1. PICK v : ag' = [ag EXCEPT !.own = v, !.req = @ \ {v}, !.conf = IF @ = v THEN v ELSE 0]
      BY <2>2 DEF SetIntent
    <3> QED BY <1>1, <3>1 DEF AgentRecords
  <2> QED BY <2>1, <2>2
<1> QED BY <1>2, <1>3 DEF Decides, Alone

\* A new connection.
Dials(g) ==
    /\ UNCHANGED <<call, db, toA>> /\ g = b.gen + 1 /\ b.gen < g /\ ag.pc = "off" /\ ~b.closed
    /\ b'.gen = g /\ b'.session = b.session /\ b'.closed = b.closed /\ b'.projected = b.projected
    /\ \A h \in Gens \ {g} : act'[h] = act[h] /\ toC'[h] = toC[h]
    /\ act[g].pc = "none" /\ act'[g] = [act[g] EXCEPT !.pc = "hello"]
    /\ up' = [up EXCEPT ![g] = TRUE] /\ toC'[g] = <<Msg("hello", 0)>> /\ toC[g] = <<>> /\ toA[g] = <<>>
    /\ ag'.pc = "hello" /\ ag'.g = g /\ ag'.j = ag.j /\ ag'.out = ag.out /\ ag'.hb = 0 /\ ~ag'.upd

LEMMA DialDoes == ASSUME Inv, BeatInv, Dial PROVE \E g \in Gens : Dials(g)
<1>1. /\ b \in Brokers /\ act \in [Gens -> Actors] /\ toC \in [Gens -> Seq(Reports)] /\ ag \in AgentRecords
  BY AgentOf DEF Inv, Typed
<1>2. b.gen \in Nat /\ MaxGen \in Nat BY <1>1, BrokerOf, Gen
<1>3. PICK g \in Gens : g = b.gen + 1 /\ b.gen < g
  <2>1. b.gen < MaxGen BY DEF Dial
  <2> QED BY <1>2, <2>1 DEF Gens
<1>4. /\ ag.pc = "off" /\ ~b.closed /\ b' = [b EXCEPT !.gen = g] /\ act' = [act EXCEPT ![g].pc = "hello"]
      /\ up' = [up EXCEPT ![g] = TRUE] /\ toC' = [toC EXCEPT ![g] = <<Msg("hello", 0)>>]
      /\ ag' = [ag EXCEPT !.pc = "hello", !.g = g, !.hb = 0, !.upd = FALSE]
      /\ UNCHANGED <<call, db, toA>>
  BY <1>3 DEF Dial
<1>5. b'.gen = g /\ b'.session = b.session /\ b'.closed = b.closed /\ b'.projected = b.projected
  BY <1>1, <1>4 DEF Brokers
<1>6. act'[g] = [act[g] EXCEPT !.pc = "hello"] /\ \A h \in Gens \ {g} : act'[h] = act[h] BY <1>1, <1>4
<1>7. toC'[g] = <<Msg("hello", 0)>> /\ \A h \in Gens \ {g} : toC'[h] = toC[h] BY <1>1, <1>4
<1>8. /\ ag'.pc = "hello" /\ ag'.g = g /\ ag'.j = ag.j /\ ag'.out = ag.out /\ ag'.hb = 0 /\ ~ag'.upd
  BY <1>1, <1>4 DEF AgentRecords
<1>9. g > b.gen BY <1>2, <1>3
<1>10. act[g].pc = "none" BY <1>9, NotLater DEF Inv
<1>11. toC[g] = <<>> /\ toA[g] = <<>> BY <1>9 DEF BeatInv, Connected
<1> QED BY <1>3, <1>4, <1>5, <1>6, <1>7, <1>8, <1>10, <1>11 DEF Dials

---------------------------------------------------------------------------
(* The store holds an acknowledged intent: steps of the Agent *)

LEMMA TalksBeat ==
    ASSUME Inv, BeatInv, NEW g \in Gens, Talks(g), Beat(g)' PROVE BeatInv'
<1>1. g = b.gen /\ ~(g > b.gen)
  <2>1. g = b.gen BY DEF BeatInv, Connected, Talks, On
  <2>2. g \in Nat BY Gen
  <2> QED BY <2>1, <2>2
<1>2. \A h \in Gens : h > b.gen => toC'[h] = toC[h] /\ toA'[h] = toA[h] BY <1>1 DEF Talks
<1>3. \A h \in Gens : On(h)' <=> h = g BY DEF Talks, On
<1>4. \A h \in Gens : On(h) <=> h = g BY DEF Talks, On
<1>5. Connected' BY <1>1, <1>2, <1>3, <1>4 DEF Talks, BeatInv, Connected
<1>6. Served' /\ Followed' /\ Intended'
  BY DEF Talks, BeatInv, Served, Serve, Live, Followed, Intended
<1>7. Beats' BY <1>3 DEF Beats
<1> QED BY <1>5, <1>6, <1>7 DEF BeatInv

LEMMA SaysKeeps ==
    ASSUME Inv, NEW g \in Gens, NEW m, Says(g, m), NEW M, m \notin M
    PROVE  Kept(toC[g], toC'[g], M)
<1>1. toC[g] \in Seq(Reports) BY DEF Inv, Typed
<1> QED BY <1>1, KeptAppend DEF Says

LEMMA ListensKeeps == ASSUME Inv, NEW g \in Gens, Listens(g), NEW M PROVE Kept(toA[g], toA'[g], M)
<1>1. toA[g] \in Seq(Orders) BY DEF Inv, Typed
<1> QED BY <1>1, KeptTail DEF Listens

LEMMA TalksKeep ==
    ASSUME Inv, BeatInv, NEW g \in Gens, Talks(g), Kept(toC[g], toC'[g], HbC), Kept(toA[g], toA'[g], HbA),
           ag'.hb = ag.hb, ag.pc = "run" => ag'.pc = "run"
    PROVE  BeatInv'
<1>1. Beat(g) BY DEF Talks, BeatInv, Beats
<1>2. db' = db /\ b' = b BY DEF Talks
<1>3. Beat(g)' BY <1>1, <1>2, BeatKeeps
<1> QED BY <1>3, TalksBeat

LEMMA PresentsBeat == ASSUME Inv, BeatInv, NEW g \in Gens, Presents(g) PROVE BeatInv'
<1>1. PICK m \in SnapC : Says(g, m) BY DEF Presents
<1>2. m \notin HbC BY <1>1 DEF SnapC, HbC
<1>3. Kept(toC[g], toC'[g], HbC) BY <1>1, <1>2, SaysKeeps
<1>4. Kept(toA[g], toA'[g], HbA) BY ListensKeeps DEF Presents
<1> QED BY <1>3, <1>4, TalksKeep DEF Presents

LEMMA TellsBeat == ASSUME Inv, BeatInv, NEW g \in Gens, Tells(g) PROVE BeatInv'
<1>1. ag.out[1] \notin HbC BY DEF Tells, Updates, HbC
<1>2. Kept(toC[g], toC'[g], HbC) BY <1>1, SaysKeeps DEF Tells
<1>3. Kept(toA[g], toA'[g], HbA) BY KeptSame DEF Tells
<1> QED BY <1>2, <1>3, TalksKeep DEF Tells

LEMMA EntersBeat == ASSUME Inv, BeatInv, NEW g \in Gens, Enters(g) PROVE BeatInv'
<1> DEFINE m == Msg("ack", Head(toA[g]).of)
<1>1. m \notin HbC
  <2>1. m.t = "ack" BY DEF Msg
  <2> QED BY <2>1 DEF HbC
<1>2. Says(g, m) BY DEF Enters
<1> HIDE DEF m
<1>3. Kept(toC[g], toC'[g], HbC) BY <1>1, <1>2, SaysKeeps
<1>4. Kept(toA[g], toA'[g], HbA) BY ListensKeeps DEF Enters
<1> QED BY <1>3, <1>4, TalksKeep DEF Enters

LEMMA OpensBeat == ASSUME Inv, BeatInv, NEW g \in Gens, Opens(g) PROVE BeatInv'
<1>1. Kept(toC[g], toC'[g], HbC) BY KeptSame DEF Opens
<1>2. Kept(toA[g], toA'[g], HbA) BY ListensKeeps DEF Opens
<1> QED BY <1>1, <1>2, TalksKeep DEF Opens

LEMMA ClearsBeat == ASSUME Inv, BeatInv, NEW g \in Gens, Clears(g) PROVE BeatInv'
<1>1. Kept(toC[g], toC'[g], HbC) BY KeptSame DEF Clears
<1>2. Kept(toA[g], toA'[g], HbA) BY ListensKeeps DEF Clears
<1> QED BY <1>1, <1>2, TalksKeep DEF Clears

LEMMA KindsStay == /\ HbC' = HbC /\ HbA' = HbA /\ SnapC' = SnapC /\ AckC' = AckC /\ UpdC' = UpdC
                   /\ UpdA' = UpdA /\ CmdA' = CmdA
BY DEF HbC, HbA, SnapC, AckC, UpdC, UpdA, CmdA, Reports, Orders, Updates

LEMMA ConfirmsBeat == ASSUME Inv, BeatInv, NEW g \in Gens, Confirms(g) PROVE BeatInv'
<1>0. Talks(g) /\ Listens(g) /\ toC'[g] = toC[g] /\ Head(toA[g]) \in HbA /\ ag'.hb = 0 BY DEF Confirms
<1>1. toA[g] \in Seq(Orders) BY DEF Inv, Typed
<1>2. Beat(g) BY <1>0 DEF Talks, BeatInv, Beats
<1>3. 1 \in DOMAIN toA[g] /\ Head(toA[g]) = toA[g][1] BY <1>0, <1>1, TailOf DEF Listens
<1>4. ~None(toA[g], HbA) BY <1>0, <1>3 DEF None
<1>5. None(toC[g], HbC) /\ One(toA[g], HbA) BY <1>2, <1>4 DEF Beat
<1>6. None(toA'[g], HbA) BY <1>0, <1>1, <1>5, ReadOne DEF Listens
<1>7. None(toC'[g], HbC) BY <1>0, <1>5
<1>8. Beat(g)' BY <1>6, <1>7, KindsStay DEF Beat, None, One
<1> QED BY <1>0, <1>8, TalksBeat

LEMMA BeatingBeat == ASSUME Inv, BeatInv, NEW g \in Gens, Beating(g) PROVE BeatInv'
<1>0. /\ Talks(g) /\ toA'[g] = toA[g] /\ ag.pc = "run" /\ ag'.pc = "run" /\ ag.hb = 0 /\ ag'.hb = ag.own
  BY DEF Beating
<1>1. PICK m \in HbC : Says(g, m) /\ m.s.own = ag.own BY DEF Beating
<1>2. toC[g] \in Seq(Reports) BY DEF Inv, Typed
<1>3. Beat(g) BY <1>0 DEF Talks, BeatInv, Beats
<1>4. None(toC[g], HbC) /\ None(toA[g], HbA) BY <1>0, <1>3 DEF Beat
<1>5. One(toC'[g], HbC) /\ \A i \in DOMAIN toC'[g] : toC'[g][i] \in HbC => toC'[g][i] = m
  BY <1>1, <1>2, <1>4, SendOne DEF Says
<1>6. None(toA'[g], HbA) BY <1>0, <1>4
<1>7. ag'.hb # 0
  <2>1. ag.own \in {1, 2} BY AgentOf DEF Inv, Typed
  <2> QED BY <1>0, <2>1
<1>8. Beat(g)' BY <1>0, <1>1, <1>5, <1>6, <1>7, KindsStay DEF Beat, None, One
<1> QED BY <1>0, <1>8, TalksBeat

LEMMA LeavesBeat == ASSUME Inv, BeatInv, NEW g \in Gens, Leaves(g) PROVE BeatInv'
<1>1. \A h \in Gens : On(h) <=> h = g BY DEF Leaves, On
<1>2. \A h \in Gens : ~On(h)' BY DEF Leaves, On
<1>3. up \in [Gens -> BOOLEAN] BY DEF Inv, Typed
<1>4. \A h \in Gens : ~up'[h] BY <1>1, <1>3 DEF Leaves, BeatInv, Connected
<1>5. \A h \in Gens : h > b.gen => toC'[h] = <<>> /\ toA'[h] = <<>> BY DEF Leaves, BeatInv, Connected
<1>6. Connected' BY <1>2, <1>4, <1>5 DEF Leaves, Connected
<1>7. Served' /\ Followed' /\ Intended'
  BY DEF Leaves, BeatInv, Served, Serve, Live, Followed, Intended
<1>8. Beats' BY <1>2 DEF Beats
<1> QED BY <1>6, <1>7, <1>8 DEF BeatInv

LEMMA AloneBeat == ASSUME BeatInv, Alone PROVE BeatInv'
<1>1. Connected' BY DEF Alone, BeatInv, Connected, On
<1>2. Served' /\ Followed' /\ Intended'
  BY DEF Alone, BeatInv, Served, Serve, Live, Followed, Intended
<1>3. Beats'
  <2> SUFFICES ASSUME NEW h \in Gens, On(h)' PROVE Beat(h)' BY DEF Beats
  <2>1. Beat(h) BY DEF Alone, On, BeatInv, Beats
  <2>2. /\ Kept(toC[h], toC'[h], HbC) /\ Kept(toA[h], toA'[h], HbA) /\ ag'.hb = ag.hb /\ ag'.pc = ag.pc
        /\ b' = b /\ db' = db
    BY KeptSame DEF Alone
  <2> QED BY <2>1, <2>2, BeatKeeps
<1> QED BY <1>1, <1>2, <1>3 DEF BeatInv

LEMMA DialsBeat == ASSUME Inv, BeatInv, NEW g \in Gens, Dials(g) PROVE BeatInv'
<1>0. act[g] \in Actors /\ act \in [Gens -> Actors] /\ up \in [Gens -> BOOLEAN] /\ b \in Brokers
  BY DEF Inv, Typed
<1>1. act'[g].pc = "hello" /\ act'[g].ready = act[g].ready BY <1>0 DEF Dials, Actors, ActorRecords
<1>2. \A h \in Gens : h # g => act'[h] = act[h] BY DEF Dials
<1>3. Served'
  <2> SUFFICES ASSUME NEW h \in Gens PROVE Serve(h)' BY DEF Served
  <2>1. Serve(h) BY DEF BeatInv, Served
  <2>2. CASE h = g BY <1>1, <2>1, <2>2 DEF Dials, Serve, Live, Early, Ended
  <2>3. CASE h # g BY <1>2, <2>1, <2>3 DEF Dials, Serve, Live
  <2> QED BY <2>2, <2>3
<1>4. \A h \in Gens : On(h)' <=> h = g BY DEF Dials, On
<1>5. \A h \in Gens : up'[h] <=> h = g BY <1>0 DEF Dials, BeatInv, Connected, On
<1>6. \A h \in Gens : h > g => h # g /\ h > b.gen
  <2>1. b.gen \in Nat /\ Gens \subseteq Nat BY <1>0, BrokerOf, Gen
  <2>2. b.gen < g BY DEF Dials
  <2> QED BY <2>1, <2>2
<1>7. Connected'
  <2>1. \A h \in Gens : h > g => toC'[h] = <<>> /\ toA'[h] = <<>>
    BY <1>6 DEF Dials, BeatInv, Connected
  <2> QED BY <1>4, <1>5, <2>1 DEF Dials, Connected
<1>8. Followed'
  <2>1. (\A h \in Gens : act'[h].pc # "stored") => \A h \in Gens : act[h].pc # "stored"
    BY <1>2 DEF Dials
  <2> QED BY <2>1 DEF Dials, BeatInv, Followed
<1>9. Intended' BY <1>1, <1>2 DEF Dials, BeatInv, Intended, Holding
<1>10. Beats'
  <2> SUFFICES Beat(g)' BY <1>4 DEF Beats
  <2>1. toC'[g] = <<Msg("hello", 0)>> /\ toA'[g] = <<>> BY DEF Dials
  <2>2. None(toA'[g], HbA) BY <2>1 DEF None
  <2>3. Msg("hello", 0) \notin HbC
    <3>1. Msg("hello", 0).t = "hello" BY DEF Msg
    <3> QED BY <3>1 DEF HbC
  <2>4. None(toC'[g], HbC) BY <2>1, <2>3 DEF None
  <2> QED BY <2>2, <2>4, KindsStay DEF Beat, None, One
<1> QED BY <1>3, <1>7, <1>8, <1>9, <1>10 DEF BeatInv

---------------------------------------------------------------------------
LEMMA InitBeat == Init => BeatInv
<1> SUFFICES ASSUME Init PROVE BeatInv OBVIOUS
<1> USE DEF Init
<1>1. \A g \in Gens : act[g].pc = "none" /\ ~act[g].ready BY Fresh DEF NewActor
<1>2. \A g \in Gens : ~On(g) /\ ~up[g] BY DEF On
<1>3. Connected BY <1>2 DEF Connected
<1>4. Served BY <1>1 DEF Served, Serve, Live, Ended
<1>5. Followed /\ Intended BY <1>1 DEF Followed, Intended, Holding
<1>6. Beats BY <1>2 DEF Beats
<1> QED BY <1>3, <1>4, <1>5, <1>6 DEF BeatInv

LEMMA NextBeat == ASSUME Inv, BeatInv, Next PROVE BeatInv'
<1>1. ASSUME NEW g \in Gens, Reader(g) \/ LeaseElapses(g) \/ ExpireReadiness(g) PROVE BeatInv'
  <2>1. CASE ReadHello(g) BY <2>1, ReadHelloCases, MildBeat, GreetsBeat
  <2>2. CASE BeginProjection(g) BY <2>2, BeginProjectionCases, MildBeat, ProjectsBeat
  <2>3. CASE HandleAgentSnapshot(g) BY <2>3, HandleAgentSnapshotCases, MildBeat, CommitsBeat
  <2>4. CASE RecordProjection(g) BY <2>4, RecordProjectionCases, MildBeat, RecordsBeat
  <2>5. CASE MarkReady(g) BY <2>5, MarkReadyCases, MildBeat, MarksBeat
  <2>6. CASE HandleHeartbeat(g) BY <2>6, HandleHeartbeatCases, MildBeat, HearsBeat
  <2>7. CASE HandleCommandAck(g) BY <2>7, HandleCommandAckCases, MildBeat, LearnsBeat
  <2>8. CASE HandleExecutionUpdate(g) BY <2>8, HandleExecutionUpdateCases, MildBeat, TakesBeat
  <2>9. CASE ReadFails(g) BY <2>9, ReadFailsMild, MildBeat
  <2>10. CASE EndSnapshotCapture(g) BY <2>10, EndSnapshotCaptureMild, MildBeat
  <2>11. CASE Deactivate(g) BY <2>11, DeactivateMild, MildBeat
  <2>12. CASE CommitDisconnect(g) BY <2>12, CommitDisconnectMild, MildBeat
  <2>13. CASE FinishDisconnect(g) BY <2>13, FinishDisconnectMild, MildBeat
  <2>14. CASE LeaseElapses(g) BY <2>14, LeaseElapsesMild, MildBeat
  <2>15. CASE ExpireReadiness(g) BY <2>15, ExpireReadinessMild, MildBeat
  <2> QED BY <1>1, <2>1, <2>2, <2>3, <2>4, <2>5, <2>6, <2>7, <2>8, <2>9, <2>10, <2>11, <2>12, <2>13,
             <2>14, <2>15 DEF Reader
<1>2. ASSUME NEW k \in Callers, BeginCall(k) \/ Caller(k) PROVE BeatInv'
  <2>1. CASE BeginCall(k)
    <3>1. UNCHANGED <<b, act, db, ag, up, toC, toA>> BY <2>1 DEF BeginCall
    <3>2. Alone BY <3>1 DEF Alone
    <3> QED BY <3>2, AloneBeat
  <2>2. CASE BeginCommandDispatch(k) BY <2>2, BeginCommandDispatchMild, MildBeat
  <2>3. CASE RegisterCommand(k) BY <2>3, RegisterCommandCases, MildBeat, RegistersBeat
  <2>4. CASE WriteCommand(k) BY <2>4, WriteCommandCases, MildBeat, SendsBeat
  <2>5. CASE AbandonCommand(k) BY <2>5, AbandonCommandMild, MildBeat
  <2>6. CASE EndCommandDispatch(k) BY <2>6, EndCommandDispatchMild, MildBeat
  <2> QED BY <1>2, <2>1, <2>2, <2>3, <2>4, <2>5, <2>6 DEF Caller
<1>3. CASE AgentStep
  <2>1. CASE AgentSnapshot BY <2>1, AgentSnapshotDoes, PresentsBeat
  <2>2. CASE AgentSendsUpdate BY <2>2, AgentSendsUpdateDoes, TellsBeat
  <2>3. CASE AgentReadsAck
    BY <2>3, AgentReadsAckDoes, OpensBeat, ConfirmsBeat, ClearsBeat, LeavesBeat
  <2>4. CASE AgentCommand BY <2>4, AgentCommandDoes, EntersBeat
  <2>5. CASE AgentSeesEnd BY <2>5, ConnectionEndsDoes, LeavesBeat
  <2> QED BY <1>3, <2>1, <2>2, <2>3, <2>4, <2>5 DEF AgentStep
<1>4. CASE Dial BY <1>4, DialDoes, DialsBeat
<1>5. CASE AgentHeartbeat BY <1>5, AgentHeartbeatDoes, BeatingBeat, LeavesBeat
<1>6. CASE AgentFinishes BY <1>6, AgentFinishesDoes, AloneBeat DEF Finishing
<1>7. CASE Break BY <1>7, ConnectionEndsDoes, LeavesBeat
<1>8. CASE SetAvailability \/ SetIntent BY <1>8, OwnerDoes, AloneBeat DEF Decides
<1>9. CASE CloseBroker BY <1>9, CloseBrokerMild, MildBeat
<1> QED BY <1>1, <1>2, <1>3, <1>4, <1>5, <1>6, <1>7, <1>8, <1>9 DEF Next

LEMMA StutterBeat == ASSUME BeatInv, UNCHANGED vars PROVE BeatInv'
<1>1. Alone BY DEF vars, Alone
<1> QED BY <1>1, AloneBeat

LEMMA BeatInvariant == Spec => [](Inv /\ BeatInv)
<1>1. Inv /\ BeatInv /\ [Next]_vars => BeatInv' BY NextBeat, StutterBeat
<1> QED BY <1>1, InitBeat, Invariant, PTL DEF Spec

LEMMA Confirmed == ASSUME Inv, BeatInv PROVE ConfirmedIsDurable
<1> SUFFICES ASSUME ag.pc = "run", toA[ag.g] # <<>>, Head(toA[ag.g]) = Msg("ack", "hb")
             PROVE  db.snap.own = ag.hb
  BY DEF ConfirmedIsDurable
<1>1. PICK g \in Gens : g = ag.g /\ On(g) BY Here
<1>2. toA[g] \in Seq(Orders) BY DEF Inv, Typed
<1>3. 1 \in DOMAIN toA[g] /\ toA[g][1] = Msg("ack", "hb") BY <1>1, <1>2, TailOf
<1>4. Msg("ack", "hb") \in HbA
  <2>1. Msg("ack", "hb").t = "ack" /\ Msg("ack", "hb").of = "hb" BY DEF Msg
  <2>2. Msg("ack", "hb") \in Orders BY MessageTyped
  <2> QED BY <2>1, <2>2 DEF HbA
<1>5. ~None(toA[g], HbA) BY <1>3, <1>4 DEF None
<1> QED BY <1>1, <1>5 DEF BeatInv, Beats, Beat

---------------------------------------------------------------------------
(* Commands and updates, for a node with one caller *)

\* Before the snapshot is acknowledged only Hello and snapshot have been sent, and the
\* snapshot names the commands the Agent still has.
Greeting(g) ==
    /\ act[g].pc \in Early =>
         /\ \A i \in DOMAIN toC[g] : toC[g][i].t \in {"hello", "snap"}
         /\ \A i \in DOMAIN toA[g] : toA[g][i].t = "ack" /\ toA[g][i].of = "hello"
         /\ On(g) => ag.pc # "run"
    /\ act[g].pc = "hello" =>
         Len(toC[g]) = 1 /\ toA[g] = <<>> /\ (On(g) => ag.pc = "hello")
    /\ act[g].pc = "captured" => \A i \in DOMAIN toC[g] : toC[g][i].t = "snap"
    /\ On(g) /\ ag.pc # "run" =>
         \A i \in DOMAIN toC[g] : toC[g][i] \in SnapC => toC[g][i].s.j.cmds = ag.j.cmds
    /\ On(g) /\ act[g].pc \in {"locked", "stored"} => act[g].snap.j.cmds = ag.j.cmds

\* A command on its way to the Agent is the last one issued.
Top(c)    == \A d \in db.issued : d <= c
Before(c) == \A d \in Cmds : d < c => d \in db.issued /\ d \in db.open
Ordered(g) ==
    On(g) => \A i \in DOMAIN toA[g] : toA[g][i] \in CmdA =>
        /\ b.projected = g /\ toA[g][i].of \in db.issued /\ Top(toA[g][i].of)
        /\ act[g].term \/ act[g].pend.cmd = toA[g][i].of

\* A command or its acknowledgement is under way only between the write and the answer.
Writes(k, g)  == call[k].pc = "write" /\ call[k].g = g
Unanswered(g) == act[g].pend.cmd # 0 /\ ~act[g].pend.acked /\ \A k \in Callers : ~Writes(k, g)
Flow(g) ==
    Live(g) =>
        /\ One(toC[g], AckC) /\ (On(g) => One(toA[g], CmdA))
        /\ None(toC[g], AckC) \/ (On(g) => None(toA[g], CmdA))
        /\ ~Unanswered(g) => None(toC[g], AckC) /\ (On(g) => None(toA[g], CmdA))
        /\ \A k \in Callers : Writes(k, g) => act[g].pend.cmd = call[k].cmd /\ ~act[g].pend.acked

\* One update is under way, the head of the outbox, or its acknowledgement is.
Stream(g) ==
    /\ One(toC[g], UpdC)
    /\ On(g) =>
         /\ \A i \in DOMAIN toC[g] : toC[g][i] \in UpdC => ag.upd /\ ag.out[1] = toC[g][i]
         /\ One(toA[g], UpdA)
         /\ None(toC[g], UpdC) \/ None(toA[g], UpdA)
         /\ ~ag.upd => None(toA[g], UpdA)

\* The session knows the command, or will have read its acknowledgement, when it comes
\* to the message after n.
Acked(g, c, n) == \E j \in DOMAIN toC[g] : j <= n /\ toC[g][j] \in AckC /\ toC[g][j].of = c
Covered(g, c, n) ==
    c \in act[g].known \/ (act[g].pend.cmd = c /\ (act[g].pend.acked \/ Acked(g, c, n)))

\* Every update under way is covered, and so is everything the Agent may still report,
\* until its last report has been taken.
Cover(g) ==
    /\ Live(g) => \A i \in DOMAIN toC[g] : toC[g][i] \in UpdC => Covered(g, toC[g][i].of, i - 1)
    /\ On(g) /\ Live(g) =>
         \/ \A c \in ag.j.cmds : Covered(g, c, Len(toC[g]))
         \/ ag.upd /\ ag.out[1].t = "done" /\ None(toC[g], UpdC)

Session(g) == Greeting(g) /\ Ordered(g) /\ Flow(g) /\ Stream(g) /\ Cover(g)

\* Commands are issued in order, each after the ones before it were answered, through a
\* session that has been activated.
Issue ==
    /\ \A c \in db.issued : Before(c)
    /\ ag.j.cmds \subseteq db.issued
    /\ \A k \in Callers : call[k].pc \in {"gate", "disp", "write", "wait"} =>
         Top(call[k].cmd) /\ Before(call[k].cmd)
    /\ \A k \in Callers : call[k].pc \in {"write", "wait"} => call[k].cmd \in db.issued
    /\ \A k \in Callers : call[k].pc # "idle" => act[call[k].g].pc \notin Early

\* The outbox reports journaled commands, and the end of the execution last.
Outbox ==
    /\ \A i \in DOMAIN ag.out : ag.out[i].of \in ag.j.cmds
    /\ \A i \in DOMAIN ag.out : ag.out[i].t = "done" => i = Len(ag.out) /\ ag.j.done
    /\ ag.j.done => /\ ag.out # <<>> /\ ag.out[Len(ag.out)] = Msg("done", Cardinality(Cmds))
                    /\ Cmds \subseteq ag.j.cmds

Wired   == \A g \in Gens : Session(g)
WireInv == Wired /\ Issue /\ Outbox

\* A node's execution has one coordinator, which sends its commands one by one (driveMu).
OneCaller == \A k, o \in Callers : k = o

---------------------------------------------------------------------------
(* What keeps the parts of WireInv *)

LEMMA NoneOne == ASSUME NEW q, NEW M, None(q, M) PROVE One(q, M)
BY DEF None, One

LEMMA StreamKeeps ==
    ASSUME NEW g \in Gens, Stream(g), Kept(toC[g], toC'[g], UpdC), Kept(toA[g], toA'[g], UpdA),
           On(g)' => On(g) /\ (ag'.upd <=> ag.upd) /\ (ag.upd => ag'.out[1] = ag.out[1])
    PROVE  Stream(g)'
<1>1. One(toC'[g], UpdC) BY DEF Stream, Kept
<1>2. ASSUME On(g)'
      PROVE  /\ \A i \in DOMAIN toC'[g] : toC'[g][i] \in UpdC => ag'.upd /\ ag'.out[1] = toC'[g][i]
             /\ One(toA'[g], UpdA)
             /\ None(toC'[g], UpdC) \/ None(toA'[g], UpdA)
             /\ ~ag'.upd => None(toA'[g], UpdA)
  <2>1. \A i \in DOMAIN toC'[g] : toC'[g][i] \in UpdC => ag'.upd /\ ag'.out[1] = toC'[g][i]
    BY <1>2 DEF Stream, Kept
  <2>2. One(toA'[g], UpdA) BY <1>2 DEF Stream, Kept
  <2>3. None(toC[g], UpdC) => None(toC'[g], UpdC) BY KeptNone
  <2>4. None(toA[g], UpdA) => None(toA'[g], UpdA) BY KeptNone
  <2> QED BY <1>2, <2>1, <2>2, <2>3, <2>4 DEF Stream
<1> QED BY <1>1, <1>2, KindsStay DEF Stream, One, None

LEMMA OrderedNone == ASSUME NEW g \in Gens, On(g)' => None(toA'[g], CmdA) PROVE Ordered(g)'
BY KindsStay DEF Ordered, None

LEMMA OrderedKeeps ==
    ASSUME NEW g \in Gens, Ordered(g), Kept(toA[g], toA'[g], CmdA), On(g)' => On(g),
           b'.projected = b.projected, db'.issued = db.issued,
           act'[g].term \/ (act'[g].pend.cmd = act[g].pend.cmd /\ ~act[g].term)
    PROVE  Ordered(g)'
<1> SUFFICES ASSUME On(g)', NEW i \in DOMAIN toA'[g], toA'[g][i] \in CmdA
             PROVE  /\ b'.projected = g /\ toA'[g][i].of \in db'.issued /\ Top(toA[g][i].of)'
                    /\ act'[g].term \/ act'[g].pend.cmd = toA'[g][i].of
  BY KindsStay DEF Ordered
<1>1. PICK j \in DOMAIN toA[g] : toA[g][j] = toA'[g][i] BY DEF Kept
<1>2. /\ b.projected = g /\ toA[g][j].of \in db.issued /\ Top(toA[g][j].of)
      /\ act[g].term \/ act[g].pend.cmd = toA[g][j].of
  BY <1>1 DEF Ordered
<1> QED BY <1>1, <1>2 DEF Top

LEMMA FlowKeeps ==
    ASSUME NEW g \in Gens, Flow(g), Kept(toC[g], toC'[g], AckC), Kept(toA[g], toA'[g], CmdA),
           Live(g)' => Live(g) /\ act'[g].pend = act[g].pend, On(g)' => On(g),
           \A k \in Callers : Writes(k, g)' => Writes(k, g) /\ call'[k].cmd = call[k].cmd
    PROVE  Flow(g)'
<1> SUFFICES ASSUME Live(g)'
             PROVE  /\ One(toC'[g], AckC) /\ (On(g)' => One(toA'[g], CmdA))
                    /\ None(toC'[g], AckC) \/ (On(g)' => None(toA'[g], CmdA))
                    /\ ~Unanswered(g)' => None(toC'[g], AckC) /\ (On(g)' => None(toA'[g], CmdA))
                    /\ \A k \in Callers : Writes(k, g)' => act'[g].pend.cmd = call'[k].cmd
                                                           /\ ~act'[g].pend.acked
  BY KindsStay DEF Flow, One, None, Unanswered, Writes
<1>1. Live(g) /\ act'[g].pend = act[g].pend OBVIOUS
<1>2. One(toC'[g], AckC) /\ (On(g)' => One(toA'[g], CmdA)) BY <1>1 DEF Flow, Kept
<1>3. None(toC[g], AckC) => None(toC'[g], AckC) BY KeptNone
<1>4. None(toA[g], CmdA) => None(toA'[g], CmdA) BY KeptNone
<1>5. ~Unanswered(g)' => ~Unanswered(g) BY <1>1 DEF Unanswered, Writes
<1>6. \A k \in Callers : Writes(k, g)' => act'[g].pend.cmd = call'[k].cmd /\ ~act'[g].pend.acked
  BY <1>1 DEF Flow
<1> QED BY <1>1, <1>2, <1>3, <1>4, <1>5, <1>6 DEF Flow

\* An acknowledgement stays ahead of the updates it was ahead of.
Along(g) ==
    /\ \A i \in DOMAIN toC'[g] : toC'[g][i] \in UpdC =>
         \E j \in DOMAIN toC[g] : /\ toC[g][j] = toC'[g][i]
                                  /\ \A c : Acked(g, c, j - 1) => Acked(g, c, i - 1)'
    /\ \A c : Acked(g, c, Len(toC[g])) => Acked(g, c, Len(toC[g]))'

LEMMA AlongSame == ASSUME NEW g \in Gens, toC'[g] = toC[g] PROVE Along(g)
BY KindsStay DEF Along, Acked

LEMMA AlongTail == ASSUME Inv, NEW g \in Gens, Read(g), Head(toC[g]) \notin AckC PROVE Along(g)
<1>1. toC[g] \in Seq(Reports) /\ toC[g] # <<>> /\ toC'[g] = Tail(toC[g]) BY DEF Inv, Typed, Read
<1>2. /\ Len(toC[g]) \in Nat /\ DOMAIN toC[g] = 1..Len(toC[g]) /\ DOMAIN toC'[g] = 1..(Len(toC[g]) - 1)
      /\ Len(toC'[g]) = Len(toC[g]) - 1 /\ Head(toC[g]) = toC[g][1]
      /\ \A i \in DOMAIN toC'[g] : i \in Nat /\ i + 1 \in DOMAIN toC[g] /\ toC'[g][i] = toC[g][i + 1]
  BY <1>1, TailOf
<1>3. ASSUME NEW c, NEW n \in Nat, Acked(g, c, n) PROVE Acked(g, c, n - 1)'
  <2>1. PICK k \in DOMAIN toC[g] : k <= n /\ toC[g][k] \in AckC /\ toC[g][k].of = c BY <1>3 DEF Acked
  <2>2. k # 1 BY <1>2, <2>1
  <2> DEFINE l == k - 1
  <2>3. l \in DOMAIN toC'[g] /\ l + 1 = k /\ l <= n - 1 BY <1>2, <1>3, <2>1, <2>2
  <2> HIDE DEF l
  <2>4. toC'[g][l] = toC[g][k] BY <1>2, <2>3
  <2> QED BY <2>1, <2>3, <2>4, KindsStay DEF Acked
<1>4. ASSUME NEW i \in DOMAIN toC'[g]
      PROVE  \E j \in DOMAIN toC[g] : /\ toC[g][j] = toC'[g][i]
                                      /\ \A c : Acked(g, c, j - 1) => Acked(g, c, i - 1)'
  <2>1. i \in Nat /\ i + 1 \in DOMAIN toC[g] /\ toC[g][i + 1] = toC'[g][i] /\ (i + 1) - 1 = i BY <1>2, <1>4
  <2>2. \A c : Acked(g, c, i) => Acked(g, c, i - 1)' BY <1>3, <2>1
  <2> QED BY <2>1, <2>2
<1>5. \A c : Acked(g, c, Len(toC[g])) => Acked(g, c, Len(toC[g]))'
  <2> TAKE c
  <2> HAVE Acked(g, c, Len(toC[g]))
  <2>1. PICK n \in Nat : n = Len(toC[g]) /\ n - 1 = Len(toC'[g]) BY <1>2
  <2>2. Acked(g, c, n - 1)' BY <1>3, <2>1
  <2> QED BY <2>1, <2>2 DEF Acked
<1> QED BY <1>4, <1>5 DEF Along

LEMMA AlongAppend == ASSUME Inv, NEW g \in Gens, NEW m, Says(g, m), m \notin UpdC PROVE Along(g)
<1>1. toC[g] \in Seq(Reports) /\ m \in Reports /\ toC'[g] = Append(toC[g], m) BY DEF Inv, Typed, Says
<1>2. /\ Len(toC[g]) \in Nat /\ Len(toC'[g]) = Len(toC[g]) + 1 /\ toC'[g][Len(toC[g]) + 1] = m
      /\ DOMAIN toC[g] = 1..Len(toC[g])
      /\ \A i \in DOMAIN toC[g] : i \in DOMAIN toC'[g] /\ toC'[g][i] = toC[g][i]
      /\ \A i \in DOMAIN toC'[g] : i \in Nat /\ (i \in DOMAIN toC[g] \/ i = Len(toC[g]) + 1)
  BY <1>1, AppendOf
<1>3. ASSUME NEW c, NEW n, Acked(g, c, n) PROVE Acked(g, c, n)'
  <2>1. PICK k \in DOMAIN toC[g] : k <= n /\ toC[g][k] \in AckC /\ toC[g][k].of = c BY <1>3 DEF Acked
  <2>2. k \in DOMAIN toC'[g] /\ toC'[g][k] = toC[g][k] BY <1>2, <2>1
  <2> QED BY <2>1, <2>2, KindsStay DEF Acked
<1>4. ASSUME NEW i \in DOMAIN toC'[g], toC'[g][i] \in UpdC
      PROVE  \E j \in DOMAIN toC[g] : /\ toC[g][j] = toC'[g][i]
                                      /\ \A c : Acked(g, c, j - 1) => Acked(g, c, i - 1)'
  <2>1. i \in DOMAIN toC[g] /\ toC'[g][i] = toC[g][i] BY <1>2, <1>4
  <2>2. \A c : Acked(g, c, i - 1) => Acked(g, c, i - 1)' BY <1>3
  <2> QED BY <2>1, <2>2
<1>5. \A c : Acked(g, c, Len(toC[g])) => Acked(g, c, Len(toC[g]))'
  <2> TAKE c
  <2> HAVE Acked(g, c, Len(toC[g]))
  <2>1. PICK k \in DOMAIN toC[g] : k <= Len(toC[g]) /\ toC[g][k] \in AckC /\ toC[g][k].of = c BY DEF Acked
  <2>2. k \in DOMAIN toC'[g] /\ toC'[g][k] = toC[g][k] BY <1>2, <2>1
  <2>3. k <= Len(toC'[g]) BY <1>2, <2>1
  <2> QED BY <2>1, <2>2, <2>3, KindsStay DEF Acked
<1> QED BY <1>4, <1>5 DEF Along

LEMMA CoverGrows ==
    ASSUME NEW g \in Gens, Cover(g), Along(g), Kept(toC[g], toC'[g], UpdC),
           Live(g)' => Live(g) /\ act[g].known \subseteq act'[g].known /\ act'[g].pend = act[g].pend,
           On(g)' => On(g) /\ (ag.upd /\ ag.out[1].t = "done" => ag'.upd /\ ag'.out[1].t = "done"),
           On(g)' /\ Live(g)' => \A c \in ag'.j.cmds : c \in ag.j.cmds \/ Covered(g, c, Len(toC[g]))'
    PROVE  Cover(g)'
<1>1. ASSUME Live(g)', NEW i \in DOMAIN toC'[g], toC'[g][i] \in UpdC, NEW c, c = toC'[g][i].of
      PROVE  Covered(g, c, i - 1)'
  <2>1. PICK j \in DOMAIN toC[g] : /\ toC[g][j] = toC'[g][i]
                                   /\ \A d : Acked(g, d, j - 1) => Acked(g, d, i - 1)'
    BY <1>1 DEF Along
  <2>2. Covered(g, c, j - 1) BY <1>1, <2>1 DEF Cover
  <2>3. Acked(g, c, j - 1) => Acked(g, c, i - 1)' BY <2>1
  <2> QED BY <1>1, <2>2, <2>3 DEF Covered
<1>2. ASSUME On(g)', Live(g)'
      PROVE  \/ \A c \in ag'.j.cmds : Covered(g, c, Len(toC[g]))'
             \/ ag'.upd /\ ag'.out[1].t = "done" /\ None(toC'[g], UpdC)
  <2>1. CASE \A c \in ag.j.cmds : Covered(g, c, Len(toC[g]))
    <3>1. ASSUME NEW c \in ag'.j.cmds PROVE Covered(g, c, Len(toC[g]))'
      <4>0. CASE c \notin ag.j.cmds BY <1>2, <3>1, <4>0
      <4>3. CASE c \in ag.j.cmds
        <5>1. Covered(g, c, Len(toC[g])) BY <2>1, <4>3
        <5>2. Acked(g, c, Len(toC[g])) => Acked(g, c, Len(toC[g]))' BY DEF Along
        <5> QED BY <1>2, <5>1, <5>2 DEF Covered
      <4> QED BY <4>0, <4>3
    <3> QED BY <3>1
  <2>2. CASE ag.upd /\ ag.out[1].t = "done" /\ None(toC[g], UpdC)
    <3>1. None(toC'[g], UpdC) BY <2>2, KeptNone
    <3> QED BY <1>2, <2>2, <3>1
  <2> QED BY <1>2, <2>1, <2>2 DEF Cover
<1>3. Live(g)' => \A i \in DOMAIN toC'[g] : toC'[g][i] \in UpdC' => Covered(g, toC[g][i].of, i - 1)'
  BY <1>1, KindsStay DEF Covered, Acked
<1>4. On(g)' /\ Live(g)' => \/ \A c \in ag'.j.cmds : Covered(g, c, Len(toC[g]))'
                            \/ ag'.upd /\ ag'.out[1].t = "done" /\ None(toC[g], UpdC)'
  BY <1>2, KindsStay DEF None
<1> QED BY <1>3, <1>4 DEF Cover

LEMMA CoverKeeps ==
    ASSUME NEW g \in Gens, Cover(g), Along(g), Kept(toC[g], toC'[g], UpdC),
           Live(g)' => Live(g) /\ act[g].known \subseteq act'[g].known /\ act'[g].pend = act[g].pend,
           On(g)' => /\ On(g) /\ ag'.j.cmds \subseteq ag.j.cmds
                     /\ ag.upd /\ ag.out[1].t = "done" => ag'.upd /\ ag'.out[1].t = "done"
    PROVE  Cover(g)'
<1>1. On(g)' /\ Live(g)' => \A c \in ag'.j.cmds : c \in ag.j.cmds \/ Covered(g, c, Len(toC[g]))' OBVIOUS
<1> QED BY <1>1, CoverGrows

LEMMA DeadWire == ASSUME NEW g \in Gens, ~Live(g)' PROVE Flow(g)' /\ Cover(g)'
BY DEF Flow, Cover

LEMMA GreetingRun ==
    ASSUME NEW g \in Gens, Greeting(g), act'[g].pc \notin Early, Kept(toC[g], toC'[g], SnapC),
           On(g)' /\ ag'.pc # "run" => On(g) /\ ag.pc # "run" /\ ag'.j.cmds = ag.j.cmds
    PROVE  Greeting(g)'
<1>1. act'[g].pc \notin {"hello", "captured", "locked", "stored"} BY DEF Early
<1>2. On(g)' /\ ag'.pc # "run" =>
        \A i \in DOMAIN toC'[g] : toC'[g][i] \in SnapC => toC'[g][i].s.j.cmds = ag'.j.cmds
  BY DEF Greeting, Kept
<1> QED BY <1>1, <1>2, KindsStay DEF Greeting, Early

LEMMA GreetingSame ==
    ASSUME NEW g \in Gens, Greeting(g), act'[g].pc = act[g].pc, act'[g].snap.j = act[g].snap.j,
           toC'[g] = toC[g], toA'[g] = toA[g], On(g)' => On(g) /\ ag'.pc = ag.pc /\ ag'.j.cmds = ag.j.cmds
    PROVE  Greeting(g)'
BY KindsStay DEF Greeting, Early

LEMMA IssueKeeps ==
    ASSUME Issue, db'.issued = db.issued, db.open \subseteq db'.open, ag'.j.cmds \subseteq db.issued,
           \A k \in Callers : Onward(call[k], call'[k]),
           \A h \in Gens : act[h].pc \notin Early => act'[h].pc \notin Early,
           call \in [Callers -> Calls]
    PROVE  Issue'
<1>1. \A c : Before(c) => Before(c)' BY DEF Before
<1>2. \A c : Top(c) => Top(c)' BY DEF Top
<1>3. \A c \in db'.issued : Before(c)' BY <1>1 DEF Issue
<1>4. ASSUME NEW k \in Callers
      PROVE  /\ call'[k].pc \in {"gate", "disp", "write", "wait"} => Top(call[k].cmd)' /\ Before(call[k].cmd)'
             /\ call'[k].pc \in {"write", "wait"} => call'[k].cmd \in db'.issued
             /\ call'[k].pc # "idle" => act'[call'[k].g].pc \notin Early
  <2>1. Onward(call[k], call'[k]) OBVIOUS
  <2>2. call'[k].pc # "idle" => /\ call[k].pc # "idle" /\ call'[k].g = call[k].g /\ call'[k].cmd = call[k].cmd
                                /\ call'[k].pc \in {"gate", "disp", "write", "wait"} =>
                                     call[k].pc \in {"gate", "disp", "write", "wait"}
                                /\ call'[k].pc \in {"write", "wait"} => call[k].pc \in {"write", "wait"}
    BY <2>1 DEF Onward
  <2>3. call[k].pc # "idle" => call[k].g \in Gens BY CallOf
  <2>4. call'[k].pc # "idle" => act'[call'[k].g].pc \notin Early BY <2>2, <2>3 DEF Issue
  <2>5. PICK c : c = call[k].cmd OBVIOUS
  <2>6. call[k].pc \in {"gate", "disp", "write", "wait"} => Top(c)' /\ Before(c)' BY <1>1, <1>2, <2>5 DEF Issue
  <2>7. call'[k].pc \in {"gate", "disp", "write", "wait"} => Top(call[k].cmd)' /\ Before(call[k].cmd)'
    BY <2>2, <2>5, <2>6 DEF Top, Before
  <2>8. call'[k].pc \in {"write", "wait"} => call'[k].cmd \in db'.issued BY <2>2 DEF Issue
  <2> QED BY <2>4, <2>7, <2>8
<1> QED BY <1>3, <1>4 DEF Issue, Top, Before

LEMMA OnwardWrites ==
    ASSUME \A k \in Callers : Onward(call[k], call'[k]), NEW g \in Gens, NEW k \in Callers, Writes(k, g)'
    PROVE  Writes(k, g) /\ call'[k].cmd = call[k].cmd
BY DEF Writes, Onward

\* A session that nothing carries on.
LEMMA MildSession ==
    ASSUME NEW h \in Gens, Session(h), Mild(act[h], act'[h]), Drain(h), toA'[h] = toA[h], ag' = ag,
           \/ b'.projected = b.projected /\ db'.issued = db.issued
           \/ On(h) => None(toA[h], CmdA),
           \A k \in Callers : Writes(k, h)' => Writes(k, h) /\ call'[k].cmd = call[k].cmd
    PROVE  Session(h)'
<1>0. Greeting(h) /\ Ordered(h) /\ Flow(h) /\ Stream(h) /\ Cover(h) BY DEF Session
<1>1. On(h)' <=> On(h) BY DEF On
<1>2. Kept(toC[h], toC'[h], SnapC) /\ Kept(toC[h], toC'[h], UpdC) BY KeptSame DEF Drain
<1>3. Kept(toA[h], toA'[h], CmdA) /\ Kept(toA[h], toA'[h], UpdA) BY KeptSame
<1>4. Greeting(h)'
  <2>1. CASE act'[h].pc \in Ended
    <3>1. act'[h].pc \notin Early BY <2>1 DEF Ended, Early
    <3> QED BY <1>0, <1>1, <1>2, <3>1, GreetingRun
  <2>2. CASE act'[h].pc \notin Ended
    <3>1. act'[h].pc = act[h].pc /\ act'[h].snap.j = act[h].snap.j /\ toC'[h] = toC[h]
      BY <2>2 DEF Mild, Drain
    <3> QED BY <1>0, <1>1, <3>1, GreetingSame
  <2> QED BY <2>1, <2>2
<1>5. Ordered(h)'
  <2>1. CASE On(h) => None(toA[h], CmdA) BY <1>1, <2>1, OrderedNone
  <2>2. CASE b'.projected = b.projected /\ db'.issued = db.issued
    <3>1. act'[h].term \/ (act'[h].pend = act[h].pend /\ act'[h].term = act[h].term) BY DEF Mild
    <3>2. act'[h].term \/ (act'[h].pend.cmd = act[h].pend.cmd /\ ~act[h].term) BY <3>1
    <3> QED BY <1>0, <1>1, <1>3, <2>2, <3>2, OrderedKeeps
  <2> QED BY <2>1, <2>2
<1>6. Stream(h)' BY <1>0, <1>1, <1>2, <1>3, StreamKeeps
<1>7. Flow(h)' /\ Cover(h)'
  <2>1. CASE ~Live(h)' BY <2>1, DeadWire
  <2>2. CASE Live(h)'
    <3>1. /\ Live(h) /\ act'[h].pend = act[h].pend /\ act'[h].known = act[h].known /\ toC'[h] = toC[h]
      BY <2>2 DEF Live, Mild, Drain, Ended
    <3>2. Kept(toC[h], toC'[h], AckC) BY <3>1, KeptSame
    <3>3. Flow(h)' BY <1>0, <1>1, <1>3, <3>1, <3>2, FlowKeeps
    <3>4. Along(h) BY <3>1, AlongSame
    <3>5. Cover(h)' BY <1>0, <1>1, <1>2, <3>1, <3>4, CoverKeeps
    <3> QED BY <3>3, <3>5
  <2> QED BY <2>1, <2>2
<1> QED BY <1>4, <1>5, <1>6, <1>7 DEF Session

LEMMA OutboxSame == ASSUME Outbox, ag'.j = ag.j, ag'.out = ag.out PROVE Outbox'
BY DEF Outbox

LEMMA MildWire == ASSUME Inv, WireInv, MildStep PROVE WireInv'
<1>0. Wired /\ Issue /\ Outbox BY DEF WireInv
<1>1. /\ UNCHANGED <<ag, up, toA>> /\ b'.projected = b.projected /\ db'.issued = db.issued
      /\ db.open \subseteq db'.open /\ \A k \in Callers : Onward(call[k], call'[k])
      /\ \A h \in Gens : Mild(act[h], act'[h]) /\ Drain(h)
  BY DEF MildStep, Elsewhere
<1>2. \A h \in Gens, k \in Callers : Writes(k, h)' => Writes(k, h) /\ call'[k].cmd = call[k].cmd
  BY <1>1, OnwardWrites
<1>3. Wired'
  <2> SUFFICES ASSUME NEW h \in Gens PROVE Session(h)' BY DEF Wired
  <2>1. Session(h) BY <1>0 DEF Wired
  <2> QED BY <1>1, <1>2, <2>1, MildSession
<1>4. Issue'
  <2>1. \A h \in Gens : act[h].pc \notin Early => act'[h].pc \notin Early
    BY <1>1 DEF Mild, Early, Ended
  <2>2. ag'.j.cmds \subseteq db.issued BY <1>0, <1>1 DEF Issue
  <2>3. call \in [Callers -> Calls] BY DEF Inv, Typed
  <2> QED BY <1>0, <1>1, <2>1, <2>2, <2>3, IssueKeeps
<1>5. Outbox' BY <1>0, <1>1, OutboxSame
<1> QED BY <1>3, <1>4, <1>5 DEF WireInv

\* One session is carried on.
LEMMA SessionWire ==
    ASSUME Inv, WireInv, NEW g \in Gens, Others(g), Session(g)', ag' = ag,
           b'.projected = b.projected, db'.issued = db.issued, db.open \subseteq db'.open,
           \A k \in Callers : Onward(call[k], call'[k]),
           act[g].pc \notin Early => act'[g].pc \notin Early
    PROVE  WireInv'
<1>0. Wired /\ Issue /\ Outbox BY DEF WireInv
<1>1. \A h \in Gens, k \in Callers : Writes(k, h)' => Writes(k, h) /\ call'[k].cmd = call[k].cmd
  BY OnwardWrites
<1>2. Wired'
  <2> SUFFICES ASSUME NEW h \in Gens PROVE Session(h)' BY DEF Wired
  <2>1. CASE h = g BY <2>1
  <2>2. CASE h # g
    <3>1. Session(h) BY <1>0 DEF Wired
    <3>2. Mild(act[h], act'[h]) /\ Drain(h) /\ toA'[h] = toA[h] BY <2>2 DEF Others, Drain
    <3> QED BY <1>1, <3>1, <3>2, MildSession
  <2> QED BY <2>1, <2>2
<1>3. Issue'
  <2>1. \A h \in Gens : act[h].pc \notin Early => act'[h].pc \notin Early BY DEF Others
  <2>2. ag'.j.cmds \subseteq db.issued BY <1>0 DEF Issue
  <2>3. call \in [Callers -> Calls] BY DEF Inv, Typed
  <2> QED BY <1>0, <2>1, <2>2, <2>3, IssueKeeps
<1>4. Outbox' BY <1>0, OutboxSame
<1> QED BY <1>2, <1>3, <1>4 DEF WireInv

LEMMA EmptyTail ==
    ASSUME NEW S, NEW q \in Seq(S), q # <<>>, Len(q) = 1 PROVE DOMAIN Tail(q) = {}
<1>1. DOMAIN Tail(q) = 1..(Len(q) - 1) BY TailOf
<1> QED BY <1>1

LEMMA GreetsWire == ASSUME Inv, WireInv, NEW g \in Gens, Greets(g) PROVE WireInv'
<1>0. /\ Fixed /\ Others(g) /\ UNCHANGED call /\ Read(g) /\ Sent(g, Msg("ack", "hello"))
      /\ act[g].pc = "hello" /\ act'[g] = [act[g] EXCEPT !.pc = "captured"]
  BY DEF Greets
<1>1. act[g] \in Actors /\ toC[g] \in Seq(Reports) /\ toA[g] \in Seq(Orders) BY DEF Inv, Typed
<1>2. act'[g].pc = "captured" BY <1>0, <1>1 DEF Actors, ActorRecords
<1>3. Session(g) BY DEF WireInv, Wired
<1>4. Len(toC[g]) = 1 /\ toA[g] = <<>> /\ (On(g) => ag.pc = "hello") BY <1>0, <1>3 DEF Session, Greeting
<1>5. DOMAIN toC'[g] = {} BY <1>0, <1>1, <1>4, EmptyTail DEF Read
<1>6. \A i \in DOMAIN toA'[g] : toA'[g][i] = Msg("ack", "hello")
  <2>1. Append(<<>>, Msg("ack", "hello")) = <<Msg("ack", "hello")>> OBVIOUS
  <2>2. toA'[g] = <<>> \/ toA'[g] = <<Msg("ack", "hello")>> BY <1>0, <1>4, <2>1 DEF Sent
  <2> QED BY <2>2
<1>7. Msg("ack", "hello").t = "ack" /\ Msg("ack", "hello").of = "hello" BY DEF Msg
<1>8. ag' = ag /\ (On(g)' <=> On(g)) BY <1>0 DEF Fixed, On
<1>9. Greeting(g)' BY <1>2, <1>4, <1>5, <1>6, <1>7, <1>8 DEF Greeting, Early
<1>10. None(toC'[g], UpdC) /\ None(toA'[g], UpdA) /\ None(toA'[g], CmdA)
  BY <1>5, <1>6, <1>7 DEF None, UpdA, CmdA
<1>11. Ordered(g)' BY <1>10, OrderedNone
<1>12. Stream(g)' BY <1>10, KindsStay DEF Stream, None, One
<1>13. Flow(g)' /\ Cover(g)' BY <1>2, DeadWire DEF Live
<1>14. Session(g)' BY <1>9, <1>11, <1>12, <1>13 DEF Session
<1>15. \A k \in Callers : Onward(call[k], call'[k]) BY <1>0 DEF Onward
<1> QED BY <1>0, <1>14, <1>15, SessionWire DEF Fixed, Early

LEMMA ProjectsWire == ASSUME Inv, WireInv, NEW g \in Gens, Projects(g) PROVE WireInv'
<1>0. /\ Fixed /\ Others(g) /\ UNCHANGED call /\ Read(g) /\ toA'[g] = toA[g]
      /\ act[g].pc = "captured" /\ act'[g] = [act[g] EXCEPT !.pc = "locked", !.snap = Head(toC[g]).s]
  BY DEF Projects
<1>1. act[g] \in Actors /\ toC[g] \in Seq(Reports) BY DEF Inv, Typed
<1>2. act'[g].pc = "locked" /\ act'[g].snap = Head(toC[g]).s /\ act'[g].term = act[g].term
      /\ act'[g].pend = act[g].pend
  BY <1>0, <1>1 DEF Actors, ActorRecords
<1>3. Greeting(g) /\ Ordered(g) /\ Stream(g) BY DEF WireInv, Wired, Session
<1>4. ag' = ag /\ (On(g)' <=> On(g)) BY <1>0 DEF Fixed, On
<1>5. /\ 1 \in DOMAIN toC[g] /\ Head(toC[g]) = toC[g][1] /\ Head(toC[g]) \in Reports
      /\ \A i \in DOMAIN toC'[g] : i + 1 \in DOMAIN toC[g] /\ toC'[g][i] = toC[g][i + 1]
  BY <1>0, <1>1, TailOf DEF Read
<1>6. Head(toC[g]) \in SnapC BY <1>0, <1>3, <1>5 DEF Greeting, SnapC
<1>7. On(g) => ag.pc # "run" /\ Head(toC[g]).s.j.cmds = ag.j.cmds BY <1>0, <1>3, <1>5, <1>6 DEF Greeting, Early
<1>8. Greeting(g)' BY <1>0, <1>2, <1>3, <1>4, <1>5, <1>7, KindsStay DEF Greeting, Early
<1>9. Kept(toC[g], toC'[g], UpdC) BY <1>0, ReadKeeps
<1>10. Kept(toA[g], toA'[g], UpdA) /\ Kept(toA[g], toA'[g], CmdA) BY <1>0, KeptSame
<1>11. Stream(g)' BY <1>3, <1>4, <1>9, <1>10, StreamKeeps
<1>12. act'[g].term \/ (act'[g].pend.cmd = act[g].pend.cmd /\ ~act[g].term) BY <1>2
<1>13. Ordered(g)' BY <1>0, <1>3, <1>4, <1>10, <1>12, OrderedKeeps DEF Fixed
<1>14. Flow(g)' /\ Cover(g)' BY <1>2, DeadWire DEF Live
<1>15. Session(g)' BY <1>8, <1>11, <1>13, <1>14 DEF Session
<1>16. \A k \in Callers : Onward(call[k], call'[k]) BY <1>0 DEF Onward
<1> QED BY <1>0, <1>15, <1>16, SessionWire DEF Fixed, Early

LEMMA CommitsWire == ASSUME Inv, WireInv, NEW g \in Gens, Commits(g) PROVE WireInv'
<1>0. /\ UNCHANGED <<b, call, ag, up, toC, toA>> /\ Others(g) /\ db'.issued = db.issued /\ db'.open = db.open
      /\ act[g].pc = "locked" /\ act'[g] = [act[g] EXCEPT !.pc = "stored"]
  BY DEF Commits
<1>1. act[g] \in Actors BY DEF Inv, Typed
<1>2. act'[g].pc = "stored" /\ act'[g].snap = act[g].snap /\ act'[g].term = act[g].term
      /\ act'[g].pend = act[g].pend
  BY <1>0, <1>1 DEF Actors, ActorRecords
<1>3. Greeting(g) /\ Ordered(g) /\ Stream(g) BY DEF WireInv, Wired, Session
<1>4. On(g)' <=> On(g) BY <1>0 DEF On
<1>5. Greeting(g)' BY <1>0, <1>2, <1>3, <1>4, KindsStay DEF Greeting, Early
<1>6. Kept(toC[g], toC'[g], UpdC) /\ Kept(toA[g], toA'[g], UpdA) /\ Kept(toA[g], toA'[g], CmdA)
  BY <1>0, KeptSame
<1>7. Stream(g)' BY <1>0, <1>3, <1>4, <1>6, StreamKeeps
<1>8. act'[g].term \/ (act'[g].pend.cmd = act[g].pend.cmd /\ ~act[g].term) BY <1>2
<1>9. Ordered(g)' BY <1>0, <1>3, <1>4, <1>6, <1>8, OrderedKeeps
<1>10. Flow(g)' /\ Cover(g)' BY <1>2, DeadWire DEF Live
<1>11. Session(g)' BY <1>5, <1>7, <1>9, <1>10 DEF Session
<1>12. \A k \in Callers : Onward(call[k], call'[k]) BY <1>0 DEF Onward
<1> QED BY <1>0, <1>11, <1>12, SessionWire DEF Early

\* While a snapshot is projected no command is on its way to the Agent.
LEMMA NoCommandWhileProjecting ==
    ASSUME Inv, BeatInv, WireInv, NEW g \in Gens, act[g].pc \in {"locked", "stored"}, NEW h \in Gens, On(h)
    PROVE  None(toA[h], CmdA)
<1> SUFFICES ASSUME NEW i \in DOMAIN toA[h], toA[h][i] \in CmdA PROVE FALSE BY DEF None
<1>1. b.projected = h BY DEF WireInv, Wired, Session, Ordered
<1>2. h = b.gen BY DEF BeatInv, Connected, On
<1>3. b.projected < g /\ g <= b.gen BY DEF Inv, Projecting, Numbered
<1>4. g \in Nat /\ h \in Nat BY Gen
<1> QED BY <1>1, <1>2, <1>3, <1>4

LEMMA RecordsWire == ASSUME Inv, BeatInv, WireInv, NEW g \in Gens, Records(g) PROVE WireInv'
<1>0. /\ UNCHANGED <<call, db, ag, up, toC, toA>>
      /\ \A h \in Gens \ {g} : Mild(act[h], act'[h]) /\ act'[h].pc = act[h].pc
      /\ act[g].pc = "stored" /\ act'[g].pc = "active" /\ act'[g].known = act[g].snap.j.cmds
  BY DEF Records
<1>1. Wired /\ Issue /\ Outbox BY DEF WireInv
<1>2. \A h \in Gens : On(h) => None(toA[h], CmdA) BY <1>0, NoCommandWhileProjecting
<1>3. \A h \in Gens : On(h)' <=> On(h) BY <1>0 DEF On
<1>4. Greeting(g) /\ Stream(g) BY <1>1 DEF Wired, Session
<1>5. ASSUME NEW k \in Callers PROVE call[k].pc = "idle" \/ call[k].g # g
  BY <1>0, <1>1 DEF Issue, Early
<1>6. \A i \in DOMAIN toC[g] : toC[g][i].t \in {"hello", "snap"} BY <1>0, <1>4 DEF Greeting, Early
<1>7. None(toC[g], AckC) /\ None(toC[g], UpdC) BY <1>6 DEF None, AckC, UpdC
<1>8. Session(g)'
  <2>1. Greeting(g)' BY <1>0, <1>3, <1>4, KindsStay DEF Greeting, Early
  <2>2. Ordered(g)' BY <1>0, <1>2, <1>3, OrderedNone
  <2>3. Kept(toC[g], toC'[g], UpdC) /\ Kept(toA[g], toA'[g], UpdA) BY <1>0, KeptSame
  <2>4. Stream(g)' BY <1>0, <1>3, <1>4, <2>3, StreamKeeps
  <2>5. None(toC[g], AckC)' /\ (On(g)' => None(toA[g], CmdA)') BY <1>0, <1>2, <1>3, <1>7, KindsStay DEF None
  <2>6. \A k \in Callers : ~Writes(k, g)' BY <1>0, <1>5 DEF Writes
  <2>7. Flow(g)' BY <2>5, <2>6 DEF Flow, One, None
  <2>8. On(g) => \A c \in ag.j.cmds : c \in act'[g].known BY <1>0, <1>4 DEF Greeting
  <2>9. None(toC[g], UpdC)' BY <1>0, <1>7, KindsStay DEF None
  <2>10. Cover(g)' BY <1>0, <1>3, <2>8, <2>9 DEF Cover, Covered, None
  <2> QED BY <2>1, <2>2, <2>4, <2>7, <2>10 DEF Session
<1>9. Wired'
  <2> SUFFICES ASSUME NEW h \in Gens PROVE Session(h)' BY DEF Wired
  <2>1. CASE h = g BY <1>8, <2>1
  <2>2. CASE h # g
    <3>1. Session(h) BY <1>1 DEF Wired
    <3>2. Mild(act[h], act'[h]) /\ Drain(h) /\ toA'[h] = toA[h] /\ ag' = ag BY <1>0, <2>2 DEF Drain
    <3>3. \A k \in Callers : Writes(k, h)' => Writes(k, h) /\ call'[k].cmd = call[k].cmd BY <1>0 DEF Writes
    <3> QED BY <1>2, <3>1, <3>2, <3>3, MildSession
  <2> QED BY <2>1, <2>2
<1>10. Issue'
  <2>1. \A h \in Gens : act[h].pc \notin Early => act'[h].pc \notin Early BY <1>0 DEF Early
  <2>2. \A k \in Callers : Onward(call[k], call'[k]) BY <1>0 DEF Onward
  <2>3. call \in [Callers -> Calls] BY DEF Inv, Typed
  <2>4. ag'.j.cmds \subseteq db.issued /\ db'.issued = db.issued /\ db.open \subseteq db'.open
    BY <1>0, <1>1 DEF Issue
  <2> QED BY <1>1, <2>1, <2>2, <2>3, <2>4, IssueKeeps
<1>11. Outbox' BY <1>0, <1>1, OutboxSame
<1> QED BY <1>9, <1>10, <1>11 DEF WireInv

LEMMA RunKinds ==
    /\ \A of \in {"hello", "snap", "hb"} : Msg("ack", of) \in Orders /\ Msg("ack", of) \notin UpdA
    /\ \A of \in {"hello", "snap", "hb", "upd"} : Msg("ack", of) \notin CmdA
    /\ \A c \in Cmds : Msg("cmd", c) \in Orders /\ Msg("cmd", c) \notin UpdA
<1>1. \A of \in {"hello", "snap", "hb", "upd"} : Msg("ack", of).of = of /\ Msg("ack", of).t = "ack" BY DEF Msg
<1>2. \A c \in Cmds : Msg("cmd", c).t = "cmd" BY DEF Msg
<1>3. \A of \in {"hello", "snap", "hb"} : Msg("ack", of) \notin UpdA BY <1>1 DEF UpdA
<1>4. \A of \in {"hello", "snap", "hb", "upd"} : Msg("ack", of) \notin CmdA BY <1>1 DEF CmdA
<1>5. \A c \in Cmds : Msg("cmd", c) \notin UpdA BY <1>2 DEF UpdA
<1> QED BY <1>3, <1>4, <1>5, MessageTyped

LEMMA MarksWire == ASSUME Inv, WireInv, NEW g \in Gens, Marks(g) PROVE WireInv'
<1>0. /\ Fixed /\ Others(g) /\ UNCHANGED call /\ toC'[g] = toC[g] /\ Sent(g, Msg("ack", "snap"))
      /\ act[g].pc = "active" /\ ~act[g].term /\ act'[g] = [act[g] EXCEPT !.pc = "run", !.ready = TRUE]
  BY DEF Marks
<1>1. act[g] \in Actors BY DEF Inv, Typed
<1>2. /\ act'[g].pc = "run" /\ act'[g].term = act[g].term /\ act'[g].pend = act[g].pend
      /\ act'[g].known = act[g].known
  BY <1>0, <1>1 DEF Actors, ActorRecords
<1>3. Greeting(g) /\ Ordered(g) /\ Flow(g) /\ Stream(g) /\ Cover(g) BY DEF WireInv, Wired, Session
<1>4. ag' = ag /\ (On(g)' <=> On(g)) BY <1>0 DEF Fixed, On
<1>5. Kept(toC[g], toC'[g], SnapC) /\ Kept(toC[g], toC'[g], UpdC) /\ Kept(toC[g], toC'[g], AckC)
  BY <1>0, KeptSame
<1>6. Kept(toA[g], toA'[g], UpdA) BY <1>0, RunKinds, SentKeeps
<1>7. Kept(toA[g], toA'[g], CmdA) BY <1>0, RunKinds, SentKeeps
<1>8. Greeting(g)'
  <2>1. act'[g].pc \notin Early BY <1>2 DEF Early
  <2> QED BY <1>3, <1>4, <1>5, <2>1, GreetingRun
<1>9. Ordered(g)'
  <2>1. act'[g].term \/ (act'[g].pend.cmd = act[g].pend.cmd /\ ~act[g].term) BY <1>2
  <2> QED BY <1>0, <1>3, <1>4, <1>7, <2>1, OrderedKeeps DEF Fixed
<1>10. Live(g) BY <1>0 DEF Live
<1>11. Flow(g)'
  <2>1. \A k \in Callers : Writes(k, g)' => Writes(k, g) /\ call'[k].cmd = call[k].cmd BY <1>0 DEF Writes
  <2> QED BY <1>2, <1>3, <1>4, <1>5, <1>7, <1>10, <2>1, FlowKeeps
<1>12. Stream(g)' BY <1>3, <1>4, <1>5, <1>6, StreamKeeps
<1>13. Cover(g)'
  <2>1. Along(g) BY <1>0, AlongSame
  <2> QED BY <1>2, <1>3, <1>4, <1>5, <1>10, <2>1, CoverKeeps
<1>14. Session(g)' BY <1>8, <1>9, <1>11, <1>12, <1>13 DEF Session
<1>15. \A k \in Callers : Onward(call[k], call'[k]) BY <1>0 DEF Onward
<1>16. act'[g].pc \notin Early BY <1>2 DEF Early
<1> QED BY <1>0, <1>14, <1>15, <1>16, SessionWire DEF Fixed

LEMMA HearsWire == ASSUME Inv, WireInv, NEW g \in Gens, Hears(g) PROVE WireInv'
<1>0. /\ Others(g) /\ UNCHANGED <<b, call, ag, up>> /\ Read(g) /\ Sent(g, Msg("ack", "hb"))
      /\ Head(toC[g]) \in HbC /\ act[g].pc = "run" /\ db'.issued = db.issued /\ db'.open = db.open
      /\ act'[g].pc = "run" /\ act'[g].term = act[g].term /\ act'[g].pend = act[g].pend
      /\ act'[g].known = act[g].known
  BY DEF Hears
<1>1. Greeting(g) /\ Ordered(g) /\ Flow(g) /\ Stream(g) /\ Cover(g) BY DEF WireInv, Wired, Session
<1>2. On(g)' <=> On(g) BY <1>0 DEF On
<1>3. Kept(toC[g], toC'[g], SnapC) /\ Kept(toC[g], toC'[g], UpdC) /\ Kept(toC[g], toC'[g], AckC)
  BY <1>0, ReadKeeps
<1>4. Kept(toA[g], toA'[g], UpdA) BY <1>0, RunKinds, SentKeeps
<1>5. Kept(toA[g], toA'[g], CmdA) BY <1>0, RunKinds, SentKeeps
<1>6. act'[g].pc \notin Early BY <1>0 DEF Early
<1>7. Greeting(g)' BY <1>0, <1>1, <1>2, <1>3, <1>6, GreetingRun
<1>8. act'[g].term \/ (act'[g].pend.cmd = act[g].pend.cmd /\ ~act[g].term) BY <1>0
<1>9. Ordered(g)' BY <1>0, <1>1, <1>2, <1>5, <1>8, OrderedKeeps
<1>10. Live(g)' <=> Live(g) BY <1>0 DEF Live
<1>11. \A k \in Callers : Writes(k, g)' => Writes(k, g) /\ call'[k].cmd = call[k].cmd BY <1>0 DEF Writes
<1>12. Flow(g)' BY <1>0, <1>1, <1>2, <1>3, <1>5, <1>10, <1>11, FlowKeeps
<1>13. Stream(g)' BY <1>0, <1>1, <1>2, <1>3, <1>4, StreamKeeps
<1>14. Head(toC[g]) \notin AckC BY <1>0 DEF HbC, AckC
<1>15. Along(g) BY <1>0, <1>14, AlongTail
<1>16. Cover(g)' BY <1>0, <1>1, <1>2, <1>3, <1>10, <1>15, CoverKeeps
<1>17. Session(g)' BY <1>7, <1>9, <1>12, <1>13, <1>16 DEF Session
<1>18. \A k \in Callers : Onward(call[k], call'[k]) BY <1>0 DEF Onward
<1> QED BY <1>0, <1>6, <1>17, <1>18, SessionWire

LEMMA HeadIn == ASSUME Inv, NEW g \in Gens, Read(g), NEW M, Head(toC[g]) \in M PROVE ~None(toC[g], M)
<1>1. toC[g] \in Seq(Reports) BY DEF Inv, Typed
<1>2. 1 \in DOMAIN toC[g] /\ Head(toC[g]) = toC[g][1] BY <1>1, TailOf DEF Read
<1> QED BY <1>2 DEF None

LEMMA LastRead == ASSUME Inv, NEW g \in Gens, Read(g), NEW M, One(toC[g], M), Head(toC[g]) \in M
                  PROVE  None(toC'[g], M)
<1>1. toC[g] \in Seq(Reports) BY DEF Inv, Typed
<1> QED BY <1>1, ReadOne DEF Read

LEMMA LearnsWire == ASSUME Inv, WireInv, NEW g \in Gens, Learns(g) PROVE WireInv'
<1>0. /\ Fixed /\ Others(g) /\ UNCHANGED call /\ Read(g) /\ toA'[g] = toA[g]
      /\ Head(toC[g]) \in AckC /\ act[g].pc = "run" /\ ~act[g].term
      /\ act'[g].pc = "run" /\ act'[g].term = act[g].term /\ act'[g].known = act[g].known
      /\ act'[g].pend.cmd = act[g].pend.cmd /\ act'[g].pend.acked
  BY DEF Learns
<1>1. Greeting(g) /\ Ordered(g) /\ Flow(g) /\ Stream(g) /\ Cover(g) BY DEF WireInv, Wired, Session
<1>2. ag' = ag /\ (On(g)' <=> On(g)) BY <1>0 DEF Fixed, On
<1>3. Kept(toC[g], toC'[g], SnapC) /\ Kept(toC[g], toC'[g], UpdC) BY <1>0, ReadKeeps
<1>4. Kept(toA[g], toA'[g], UpdA) /\ Kept(toA[g], toA'[g], CmdA) BY <1>0, KeptSame
<1>5. act'[g].pc \notin Early BY <1>0 DEF Early
<1>6. Greeting(g)' BY <1>1, <1>2, <1>3, <1>5, GreetingRun
<1>7. Ordered(g)' BY <1>0, <1>1, <1>2, <1>4, OrderedKeeps DEF Fixed
<1>8. Stream(g)' BY <1>1, <1>2, <1>3, <1>4, StreamKeeps
<1>9. Live(g) BY <1>0 DEF Live
<1>10. ~None(toC[g], AckC) /\ One(toC[g], AckC) BY <1>0, <1>1, <1>9, HeadIn DEF Flow
<1>11. Unanswered(g) /\ (On(g) => None(toA[g], CmdA)) BY <1>1, <1>9, <1>10 DEF Flow
<1>12. None(toC'[g], AckC) BY <1>0, <1>10, LastRead
<1>13. \A k \in Callers : ~Writes(k, g)' BY <1>0, <1>11 DEF Unanswered, Writes
<1>14. Flow(g)'
  <2>1. None(toC[g], AckC)' /\ (On(g)' => None(toA[g], CmdA)')
    BY <1>0, <1>2, <1>11, <1>12, KindsStay DEF None
  <2> QED BY <1>13, <2>1 DEF Flow, None, One
<1>15. \A c, n, m : Covered(g, c, n) => Covered(g, c, m)' BY <1>0 DEF Covered
<1>16. Cover(g)'
  <2>1. ASSUME NEW i \in DOMAIN toC'[g], toC'[g][i] \in UpdC, NEW c, c = toC'[g][i].of
        PROVE  Covered(g, c, i - 1)'
    <3>1. PICK j \in DOMAIN toC[g] : toC[g][j] = toC'[g][i] BY <1>3, <2>1 DEF Kept
    <3>2. Covered(g, c, j - 1) BY <1>1, <1>9, <2>1, <3>1 DEF Cover
    <3> QED BY <1>15, <3>2
  <2>2. \A i \in DOMAIN toC'[g] : toC'[g][i] \in UpdC' => Covered(g, toC[g][i].of, i - 1)'
    BY <2>1, KindsStay DEF Covered, Acked
  <2>3. ASSUME On(g)
        PROVE  \/ \A c \in ag'.j.cmds : Covered(g, c, Len(toC[g]))'
               \/ ag'.upd /\ ag'.out[1].t = "done" /\ None(toC[g], UpdC)'
    <3>1. CASE \A c \in ag.j.cmds : Covered(g, c, Len(toC[g]))
      <4>1. PICK m : m = Len(toC'[g]) OBVIOUS
      <4>2. \A c \in ag'.j.cmds : Covered(g, c, m)' BY <1>2, <1>15, <3>1
      <4> QED BY <4>1, <4>2 DEF Covered, Acked
    <3>2. CASE ag.upd /\ ag.out[1].t = "done" /\ None(toC[g], UpdC)
      <4>1. None(toC'[g], UpdC) BY <1>3, <3>2, KeptNone
      <4>2. None(toC[g], UpdC)' BY <4>1, KindsStay DEF None
      <4> QED BY <1>2, <3>2, <4>2
    <3> QED BY <1>1, <1>9, <2>3, <3>1, <3>2 DEF Cover
  <2> QED BY <1>2, <2>2, <2>3 DEF Cover
<1>17. Session(g)' BY <1>6, <1>7, <1>8, <1>14, <1>16 DEF Session
<1>18. \A k \in Callers : Onward(call[k], call'[k]) BY <1>0 DEF Onward
<1> QED BY <1>0, <1>5, <1>17, <1>18, SessionWire DEF Fixed

LEMMA TakesWire == ASSUME Inv, WireInv, NEW g \in Gens, Takes(g) PROVE WireInv'
<1>0. /\ Fixed /\ Others(g) /\ Read(g) /\ Sent(g, Msg("ack", "upd"))
      /\ Head(toC[g]) \in UpdC /\ act[g].pc = "run" /\ ~act[g].term
      /\ IF First(g) THEN act[g].pend.acked ELSE Head(toC[g]).of \in act[g].known
      /\ act'[g].pc = "run" /\ act'[g].term = act[g].term
      /\ act'[g].known = KnownAfter(act[g].known, Head(toC[g]))
      /\ act'[g].pend = IF First(g) THEN NoPend ELSE act[g].pend
      /\ \A k \in Callers : \/ call'[k] = call[k]
                            \/ /\ call[k].pc = "wait" /\ call'[k].pc = "end"
                               /\ call'[k].g = call[k].g /\ call'[k].cmd = call[k].cmd
  BY DEF Takes
<1>1. Greeting(g) /\ Ordered(g) /\ Flow(g) /\ Stream(g) /\ Cover(g) BY DEF WireInv, Wired, Session
<1>2. ag' = ag /\ (On(g)' <=> On(g)) BY <1>0 DEF Fixed, On
<1>3. Kept(toC[g], toC'[g], SnapC) /\ Kept(toC[g], toC'[g], AckC) BY <1>0, ReadKeeps
<1>4. Kept(toA[g], toA'[g], CmdA) BY <1>0, RunKinds, MessageTyped, SentKeeps
<1>5. act'[g].pc \notin Early /\ Live(g) BY <1>0 DEF Early, Live
<1>6. Greeting(g)' BY <1>1, <1>2, <1>3, <1>5, GreetingRun
<1>7. None(toC'[g], UpdC) /\ ~None(toC[g], UpdC) BY <1>0, <1>1, LastRead, HeadIn DEF Stream
<1>8. On(g) => ag.upd /\ ag.out[1] = Head(toC[g]) /\ None(toA[g], UpdA)
  <2>1. toC[g] \in Seq(Reports) BY DEF Inv, Typed
  <2>2. 1 \in DOMAIN toC[g] /\ Head(toC[g]) = toC[g][1] BY <1>0, <2>1, TailOf DEF Read
  <2> QED BY <1>0, <1>1, <1>7, <2>2 DEF Stream
<1>9. Stream(g)'
  <2>1. On(g) => One(toA'[g], UpdA)
    <3>1. toA[g] \in Seq(Orders) /\ Msg("ack", "upd") \in Orders BY MessageTyped DEF Inv, Typed
    <3>2. CASE up[g] BY <1>0, <1>8, <3>1, <3>2, SendOne DEF Sent
    <3>3. CASE ~up[g] BY <1>0, <1>8, <3>3, NoneOne DEF Sent
    <3> QED BY <3>2, <3>3
  <2>2. One(toC'[g], UpdC) BY <1>7, NoneOne
  <2> QED BY <1>2, <1>7, <1>8, <2>1, <2>2, KindsStay DEF Stream, None, One
<1>10. \A k \in Callers : Onward(call[k], call'[k]) BY <1>0 DEF Onward
<1>11. \A k \in Callers : Writes(k, g)' => Writes(k, g) /\ call'[k].cmd = call[k].cmd BY <1>10, OnwardWrites
<1>12. ASSUME First(g)
       PROVE  /\ None(toC'[g], AckC) /\ (On(g) => None(toA'[g], CmdA))
              /\ \A k \in Callers : ~Writes(k, g)'
  <2>1. ~Unanswered(g) /\ act[g].pend.acked BY <1>0, <1>12 DEF Unanswered
  <2>2. None(toC[g], AckC) /\ (On(g) => None(toA[g], CmdA)) BY <1>1, <1>5, <2>1 DEF Flow
  <2>3. \A k \in Callers : ~Writes(k, g)' BY <1>1, <1>5, <1>11, <2>1 DEF Flow
  <2> QED BY <1>3, <1>4, <2>2, <2>3, KeptNone
<1>13. Flow(g)'
  <2>1. CASE First(g)
    <3>1. None(toC[g], AckC)' /\ (On(g)' => None(toA[g], CmdA)')
      BY <1>2, <1>12, <2>1, KindsStay DEF None
    <3> QED BY <1>12, <2>1, <3>1 DEF Flow, None, One
  <2>2. CASE ~First(g) BY <1>0, <1>1, <1>2, <1>3, <1>4, <1>5, <1>11, <2>2, FlowKeeps
  <2> QED BY <2>1, <2>2
<1>14. Ordered(g)'
  <2>1. CASE First(g) BY <1>2, <1>12, <2>1, OrderedNone
  <2>2. CASE ~First(g) BY <1>0, <1>1, <1>2, <1>4, <2>2, OrderedKeeps DEF Fixed
  <2> QED BY <2>1, <2>2
<1>15. ASSUME On(g), Head(toC[g]).t # "done", NEW c \in ag.j.cmds PROVE Covered(g, c, Len(toC[g]))'
  <2>1. Covered(g, c, Len(toC[g])) BY <1>1, <1>5, <1>7, <1>15 DEF Cover
  <2>2. act'[g].known = act[g].known \cup {Head(toC[g]).of} BY <1>0, <1>15 DEF KnownAfter
  <2>3. Head(toC[g]) \notin AckC BY <1>0 DEF UpdC, AckC
  <2>4. Acked(g, c, Len(toC[g])) => Acked(g, c, Len(toC[g]))' BY <1>0, <2>3, AlongTail DEF Along
  <2>5. First(g) /\ act[g].pend.cmd = c => c \in act'[g].known BY <2>2 DEF First
  <2> QED BY <1>0, <2>1, <2>2, <2>4, <2>5 DEF Covered
<1>16. Cover(g)'
  <2>1. None(toC[g], UpdC)' BY <1>7, KindsStay DEF None
  <2>2. ASSUME On(g) PROVE \/ \A c \in ag'.j.cmds : Covered(g, c, Len(toC[g]))'
                           \/ ag'.upd /\ ag'.out[1].t = "done" /\ None(toC[g], UpdC)'
    <3>1. CASE Head(toC[g]).t = "done" BY <1>2, <1>8, <2>1, <2>2, <3>1
    <3>2. CASE Head(toC[g]).t # "done" BY <1>2, <1>15, <2>2, <3>2
    <3> QED BY <3>1, <3>2
  <2> QED BY <1>2, <2>1, <2>2 DEF Cover, None
<1>17. Session(g)' BY <1>6, <1>9, <1>13, <1>14, <1>16 DEF Session
<1> QED BY <1>0, <1>2, <1>5, <1>10, <1>17, SessionWire DEF Fixed

---------------------------------------------------------------------------
(* Callers *)

LEMMA CmdNat == Cmds \subseteq Nat \ {0} /\ Cardinality(Cmds) \in Nat
<1>1. Cardinality(Cmds) \in Nat BY BrokerConstants, FS_CardinalityType
<1> QED BY <1>1, BrokerConstants

\* The session of a dispatch that has not been terminated is the broker's.
LEMMA CallerLive ==
    ASSUME Inv, BeatInv, WireInv, NEW k \in Callers, NEW g \in Gens, call[k].g = g,
           call[k].pc \in {"disp", "write", "wait"}, ~act[g].term
    PROVE  /\ Live(g) /\ act[g].pc = "run" /\ ~b.closed /\ b.projected = g
           /\ \A o \in Callers : call[o].pc \in Under => o = k
           /\ \A h \in Gens : On(h) /\ h # g => None(toA[h], CmdA)
<1>1. act[g].pc \notin Early BY DEF WireInv, Issue
<1>2. act[g].pc \notin Ended BY DEF BeatInv, Served, Serve
<1>3. act[g].pc \in Phases BY ActorOf DEF Inv, Typed
<1>4. act[g].pc = "run" BY <1>1, <1>2, <1>3 DEF Early, Ended, Phases
<1>5. Live(g) BY <1>4 DEF Live
<1>6. ~b.closed BY <1>5 DEF BeatInv, Served, Serve
<1>7. Dispatching BY <1>6 DEF Inv
<1>8. b.projected = g /\ \A o \in Callers : call[o].pc \in Under => o = k BY <1>7 DEF Dispatching, Under
<1>9. \A h \in Gens : On(h) /\ h # g => None(toA[h], CmdA)
  <2> SUFFICES ASSUME NEW h \in Gens, On(h), h # g, NEW i \in DOMAIN toA[h], toA[h][i] \in CmdA PROVE FALSE
    BY DEF None
  <2>1. b.projected = h BY DEF WireInv, Wired, Session, Ordered
  <2> QED BY <1>8, <2>1
<1> QED BY <1>4, <1>5, <1>6, <1>8, <1>9

LEMMA RegistersWire ==
    ASSUME OneCaller, Inv, BeatInv, WireInv, NEW k \in Callers, Registers(k) PROVE WireInv'
<1>0. PICK g \in Gens : g = call[k].g BY DEF Registers
<1>1. PICK c \in Cmds : c = call[k].cmd BY DEF Registers
<1>2. /\ UNCHANGED <<b, ag, up, toC, toA>> /\ Others(g)
      /\ db'.issued = db.issued \cup {c} /\ db'.open = db.open
      /\ call[k].pc = "disp" /\ call'[k].pc = "write" /\ call'[k].g = g /\ call'[k].cmd = c
      /\ \A o \in Callers \ {k} : call'[o] = call[o]
      /\ ~act[g].term /\ act'[g].pc = act[g].pc /\ act'[g].term = act[g].term
      /\ act'[g].known = act[g].known /\ act'[g].snap = act[g].snap
      /\ act'[g].pend = [cmd |-> c, acked |-> FALSE]
  BY <1>0, <1>1 DEF Registers
<1>3. /\ Live(g) /\ act[g].pc = "run" /\ ~b.closed /\ b.projected = g
      /\ \A o \in Callers : call[o].pc \in Under => o = k
      /\ \A h \in Gens : On(h) /\ h # g => None(toA[h], CmdA)
  BY <1>0, <1>2, CallerLive
<1>4. Wired /\ Issue /\ Outbox /\ Session(g) BY DEF WireInv, Wired
<1>5. act[g].pend.cmd = 0 /\ ~act[g].pend.acked
  <2>1. act[g].pend.cmd # 0 => \E o \in Callers : call[o].pc \in {"write", "wait"}
    BY <1>3 DEF Inv, Dispatching
  <2>2. act[g].pend.cmd = 0 BY <1>2, <1>3, <2>1 DEF Under
  <2> QED BY <2>2, ActorOf DEF Inv, Typed, Orderly
<1>6. ~Unanswered(g) BY <1>5 DEF Unanswered
<1>7. None(toC[g], AckC) /\ (On(g) => None(toA[g], CmdA)) BY <1>3, <1>4, <1>6 DEF Session, Flow
<1>8. \A o \in Callers : Writes(o, g)' => o = k BY <1>2, <1>3 DEF Writes, Under
<1>9. \A h \in Gens : On(h)' <=> On(h) BY <1>2 DEF On
<1>10. Session(g)'
  <2>1. Greeting(g)' BY <1>2, <1>4, <1>9, GreetingSame DEF Session
  <2>2. Ordered(g)' BY <1>2, <1>7, <1>9, OrderedNone
  <2>3. None(toC[g], AckC)' /\ (On(g)' => None(toA[g], CmdA)') BY <1>2, <1>7, <1>9, KindsStay DEF None
  <2>4. \A o \in Callers : Writes(o, g)' => act'[g].pend.cmd = call'[o].cmd /\ ~act'[g].pend.acked
    BY <1>2, <1>8
  <2>5. Flow(g)' BY <2>3, <2>4 DEF Flow, None, One
  <2>6. Kept(toC[g], toC'[g], UpdC) /\ Kept(toA[g], toA'[g], UpdA) BY <1>2, KeptSame
  <2>7. Stream(g)' BY <1>2, <1>4, <1>9, <2>6, StreamKeeps DEF Session
  <2>8. \A d, n : Covered(g, d, n) => Covered(g, d, n)'
    <3> SUFFICES ASSUME NEW d, NEW n, Covered(g, d, n) PROVE d \in act[g].known BY <1>2 DEF Covered
    <3>1. ~Acked(g, d, n) BY <1>7 DEF None, Acked
    <3> QED BY <1>5, <3>1 DEF Covered
  <2>9. Cover(g)'
    <3>1. Live(g)' <=> Live(g) BY <1>2 DEF Live
    <3>2. \A i \in DOMAIN toC[g] : toC[g][i] \in UpdC => Covered(g, toC[g][i].of, i - 1)'
      <4> SUFFICES ASSUME NEW i \in DOMAIN toC[g], toC[g][i] \in UpdC PROVE Covered(g, toC[g][i].of, i - 1)'
        OBVIOUS
      <4>1. PICK d, n : d = toC[g][i].of /\ n = i - 1 OBVIOUS
      <4>2. Covered(g, d, n) BY <1>3, <1>4, <4>1 DEF Session, Cover
      <4>3. Covered(g, d, n)' BY <2>8, <4>2
      <4> QED BY <1>2, <4>1, <4>3 DEF Covered, Acked
    <3>3. ASSUME On(g) PROVE \/ \A d \in ag'.j.cmds : Covered(g, d, Len(toC[g]))'
                             \/ ag'.upd /\ ag'.out[1].t = "done" /\ None(toC[g], UpdC)'
      <4>1. PICK n : n = Len(toC[g]) OBVIOUS
      <4>2. CASE \A d \in ag.j.cmds : Covered(g, d, n)
        <5>1. \A d \in ag.j.cmds : Covered(g, d, n)' BY <2>8, <4>2
        <5> QED BY <1>2, <4>1, <5>1 DEF Covered, Acked
      <4>3. CASE ag.upd /\ ag.out[1].t = "done" /\ None(toC[g], UpdC)
        BY <1>2, <4>3, KindsStay DEF None
      <4> QED BY <1>3, <1>4, <3>3, <4>1, <4>2, <4>3 DEF Session, Cover
    <3> QED BY <1>2, <1>9, <3>2, <3>3, KindsStay DEF Cover
  <2> QED BY <2>1, <2>2, <2>5, <2>7, <2>9 DEF Session
<1>11. Wired'
  <2> SUFFICES ASSUME NEW h \in Gens PROVE Session(h)' BY DEF Wired
  <2>1. CASE h = g BY <1>10, <2>1
  <2>2. CASE h # g
    <3>1. Session(h) BY <1>4 DEF Wired
    <3>2. Mild(act[h], act'[h]) /\ Drain(h) /\ toA'[h] = toA[h] /\ ag' = ag BY <1>2, <2>2 DEF Others, Drain
    <3>3. \A o \in Callers : Writes(o, h)' => Writes(o, h) /\ call'[o].cmd = call[o].cmd
      BY <1>2, <2>2 DEF Writes
    <3> QED BY <1>3, <2>2, <3>1, <3>2, <3>3, MildSession
  <2> QED BY <2>1, <2>2
<1>12. Issue'
  <2>1. Top(c) /\ Before(c) BY <1>1, <1>2, <1>4 DEF Issue
  <2>2. Top(c)'
    <3>1. c <= c BY CmdNat
    <3> QED BY <1>2, <2>1, <3>1 DEF Top
  <2>3. \A d : Before(d) => Before(d)' BY <1>2 DEF Before
  <2>4. \A d \in db'.issued : Before(d)' BY <1>2, <1>4, <2>1, <2>3 DEF Issue
  <2>5. \A o \in Callers : call'[o].cmd = c /\ call'[o].g = g /\ c \in db'.issued BY <1>2 DEF OneCaller
  <2>6. act'[g].pc \notin Early BY <1>2, <1>3 DEF Early
  <2>7. ag'.j.cmds \subseteq db'.issued BY <1>2, <1>4 DEF Issue
  <2>8. Before(c)' BY <2>1, <2>3
  <2>9. \A o \in Callers : Top(call[o].cmd)' /\ Before(call[o].cmd)' BY <2>2, <2>5, <2>8 DEF Top, Before
  <2> QED BY <2>4, <2>5, <2>6, <2>7, <2>9 DEF Issue
<1>13. Outbox' BY <1>2, <1>4, OutboxSame
<1> QED BY <1>11, <1>12, <1>13 DEF WireInv

LEMMA SendsWire == ASSUME Inv, BeatInv, WireInv, NEW k \in Callers, Sends(k) PROVE WireInv'
<1>0. PICK g \in Gens : g = call[k].g BY DEF Sends
<1>1. PICK c \in Cmds : c = call[k].cmd BY DEF Sends
<1>2. /\ UNCHANGED <<b, act, db, ag, up, toC>> /\ up[g] /\ ~act[g].term
      /\ toA'[g] = Append(toA[g], Msg("cmd", c)) /\ \A h \in Gens \ {g} : toA'[h] = toA[h]
      /\ call[k].pc = "write" /\ call'[k].pc = "wait" /\ call'[k].g = g /\ call'[k].cmd = c
      /\ \A o \in Callers \ {k} : call'[o] = call[o]
  BY <1>0, <1>1 DEF Sends
<1>3. /\ Live(g) /\ act[g].pc = "run" /\ b.projected = g
      /\ \A o \in Callers : call[o].pc \in Under => o = k
  BY <1>0, <1>2, CallerLive
<1>4. Wired /\ Issue /\ Outbox BY DEF WireInv
<1>5. Greeting(g) /\ Flow(g) /\ Stream(g) /\ Cover(g) BY <1>4 DEF Wired, Session
<1>6. Writes(k, g) BY <1>0, <1>2 DEF Writes
<1>7. act[g].pend.cmd = c /\ ~act[g].pend.acked BY <1>1, <1>3, <1>5, <1>6 DEF Flow
<1>8. ~Unanswered(g) BY <1>6 DEF Unanswered
<1>9. On(g) BY <1>2 DEF BeatInv, Connected
<1>10. None(toC[g], AckC) /\ None(toA[g], CmdA) BY <1>3, <1>5, <1>8, <1>9 DEF Flow
<1>11. /\ toA[g] \in Seq(Orders) /\ Msg("cmd", c) \in Orders /\ Msg("cmd", c) \notin UpdA
  BY RunKinds DEF Inv, Typed
<1>12. One(toA'[g], CmdA) /\ \A i \in DOMAIN toA'[g] : toA'[g][i] \in CmdA => toA'[g][i] = Msg("cmd", c)
  BY <1>2, <1>10, <1>11, SendOne
<1>13. \A o \in Callers : ~Writes(o, g)' BY <1>2, <1>3 DEF Writes, Under
<1>14. \A h \in Gens : On(h)' <=> On(h) BY <1>2 DEF On
<1>15. Kept(toC[g], toC'[g], SnapC) /\ Kept(toC[g], toC'[g], UpdC) BY <1>2, KeptSame
<1>16. Session(g)'
  <2>1. Greeting(g)'
    <3>1. act'[g].pc \notin Early BY <1>2, <1>3 DEF Early
    <3> QED BY <1>2, <1>5, <1>14, <1>15, <3>1, GreetingRun
  <2>2. Ordered(g)'
    <3>1. Msg("cmd", c).of = c BY DEF Msg
    <3>2. c \in db.issued /\ Top(c) BY <1>1, <1>2, <1>4 DEF Issue
    <3>3. \A i \in DOMAIN toA'[g] : toA'[g][i] \in CmdA => toA'[g][i].of = c BY <1>12, <3>1
    <3>4. Top(c)' BY <1>2, <3>2 DEF Top
    <3>5. \A i \in DOMAIN toA'[g] : toA'[g][i] \in CmdA' => Top(toA[g][i].of)'
      BY <3>3, <3>4, KindsStay DEF Top
    <3> QED BY <1>2, <1>3, <1>7, <3>2, <3>3, <3>5, KindsStay DEF Ordered
  <2>3. Unanswered(g)'
    <3>1. c # 0 BY CmdNat
    <3> QED BY <1>2, <1>7, <1>13, <3>1 DEF Unanswered
  <2>4. None(toC[g], AckC)' /\ One(toA[g], CmdA)' BY <1>2, <1>10, <1>12, KindsStay DEF None, One
  <2>5. Flow(g)' BY <1>13, <2>3, <2>4 DEF Flow, None, One
  <2>6. Kept(toA[g], toA'[g], UpdA) BY <1>2, <1>11, KeptAppend
  <2>7. Stream(g)' BY <1>2, <1>5, <1>14, <1>15, <2>6, StreamKeeps
  <2>8. Along(g) BY <1>2, AlongSame
  <2>9. Live(g)' <=> Live(g) BY <1>2 DEF Live
  <2>10. Cover(g)' BY <1>2, <1>5, <1>14, <1>15, <2>8, <2>9, CoverKeeps
  <2> QED BY <2>1, <2>2, <2>5, <2>7, <2>10 DEF Session
<1>17. Wired'
  <2> SUFFICES ASSUME NEW h \in Gens PROVE Session(h)' BY DEF Wired
  <2>1. CASE h = g BY <1>16, <2>1
  <2>2. CASE h # g
    <3>1. Session(h) BY <1>4 DEF Wired
    <3>2. Mild(act[h], act'[h]) /\ Drain(h) /\ toA'[h] = toA[h] /\ ag' = ag BY <1>2, <2>2 DEF Mild, Drain
    <3>3. \A o \in Callers : Writes(o, h)' => Writes(o, h) /\ call'[o].cmd = call[o].cmd
      BY <1>2, <2>2 DEF Writes
    <3>4. b'.projected = b.projected /\ db'.issued = db.issued BY <1>2
    <3> QED BY <3>1, <3>2, <3>3, <3>4, MildSession
  <2> QED BY <2>1, <2>2
<1>18. Issue'
  <2>1. \A d : (Before(d)' <=> Before(d)) /\ (Top(d)' <=> Top(d)) BY <1>2 DEF Before, Top
  <2>2. \A d \in db'.issued : Before(d)' BY <1>2, <1>4, <2>1 DEF Issue
  <2>3. ASSUME NEW o \in Callers
        PROVE  /\ call'[o].pc \in {"gate", "disp", "write", "wait"} => Top(call[o].cmd)' /\ Before(call[o].cmd)'
               /\ call'[o].pc \in {"write", "wait"} => call'[o].cmd \in db'.issued
               /\ call'[o].pc # "idle" => act'[call'[o].g].pc \notin Early
    <3>0. PICK d : d = call[o].cmd /\ d = call'[o].cmd BY <1>1, <1>2
    <3>1. /\ call'[o].g = call[o].g
          /\ call'[o].pc = call[o].pc \/ (call[o].pc = "write" /\ call'[o].pc = "wait")
      BY <1>0, <1>2
    <3>2. call'[o].pc \in {"gate", "disp", "write", "wait"} => Top(d) /\ Before(d) BY <1>4, <3>0, <3>1 DEF Issue
    <3>3. call'[o].pc \in {"gate", "disp", "write", "wait"} => Top(call[o].cmd)' /\ Before(call[o].cmd)'
      BY <2>1, <3>0, <3>2 DEF Top, Before
    <3>4. call'[o].pc \in {"write", "wait"} => call'[o].cmd \in db'.issued BY <1>2, <1>4, <3>0, <3>1 DEF Issue
    <3>5. call'[o].pc # "idle" => act'[call'[o].g].pc \notin Early BY <1>2, <1>4, <3>1 DEF Issue, Early
    <3> QED BY <3>3, <3>4, <3>5
  <2>4. ag'.j.cmds \subseteq db'.issued BY <1>2, <1>4 DEF Issue
  <2> QED BY <2>2, <2>3, <2>4 DEF Issue, Top, Before
<1>19. Outbox' BY <1>2, <1>4, OutboxSame
<1> QED BY <1>17, <1>18, <1>19 DEF WireInv

LEMMA BeginCallWire == ASSUME Inv, BeatInv, WireInv, NEW k \in Callers, BeginCall(k) PROVE WireInv'
<1>0. UNCHANGED <<b, act, db, ag, up, toC, toA>> /\ b.session # 0 /\ act[b.session].ready BY DEF BeginCall
<1>1. PICK r \in BOOLEAN, c \in Cmds :
        /\ IF r THEN c \in db.issued \ (db.snap.j.cmds \cup db.open)
           ELSE c \in NextCmd /\ db.issued \subseteq db.open
        /\ call' = [call EXCEPT ![k] = [pc |-> "gate", g |-> b.session, cmd |-> c, replay |-> r,
                                        dig |-> IF r THEN Digest(db.snap) ELSE NoJournal]]
  BY DEF BeginCall
<1>2. call \in [Callers -> Calls] /\ db.issued \subseteq Cmds /\ b.session \in Gens
  <2>1. b.session \in Generations BY BrokerOf DEF Inv, Typed
  <2> QED BY <1>0, <2>1, StoreOf, Gen DEF Inv, Typed
<1>3. /\ call'[k].pc = "gate" /\ call'[k].g = b.session /\ call'[k].cmd = c
      /\ \A o \in Callers : o # k => call'[o] = call[o]
  BY <1>1, <1>2
<1>4. Wired /\ Issue /\ Outbox BY DEF WireInv
<1>5. act[b.session].pc \notin Early BY <1>0, <1>2 DEF BeatInv, Served, Serve
<1>6. Wired'
  <2> SUFFICES ASSUME NEW h \in Gens PROVE Session(h)' BY DEF Wired
  <2>1. Session(h) BY <1>4 DEF Wired
  <2>2. Mild(act[h], act'[h]) /\ Drain(h) /\ toA'[h] = toA[h] /\ ag' = ag BY <1>0 DEF Mild, Drain
  <2>3. \A o \in Callers : Writes(o, h)' => Writes(o, h) /\ call'[o].cmd = call[o].cmd BY <1>3 DEF Writes
  <2>4. b'.projected = b.projected /\ db'.issued = db.issued BY <1>0
  <2> QED BY <2>1, <2>2, <2>3, <2>4, MildSession
<1>7. Top(c) /\ Before(c)
  <2>1. Before(c)
    <3>1. CASE r BY <1>1, <1>4, <3>1 DEF Issue
    <3>2. CASE ~r BY <1>1, <3>2 DEF NextCmd, Before
    <3> QED BY <3>1, <3>2
  <2>2. ASSUME NEW d \in db.issued PROVE ~(c < d)
    <3>1. c < d => c \in db.issued /\ c \in db.open BY <1>4 DEF Issue, Before
    <3>2. CASE r BY <1>1, <3>1, <3>2
    <3>3. CASE ~r BY <1>1, <3>1, <3>3 DEF NextCmd
    <3> QED BY <3>2, <3>3
  <2>3. \A d \in db.issued : d \in Nat BY <1>2, CmdNat
  <2>4. c \in Nat BY CmdNat
  <2>5. Top(c) BY <2>2, <2>3, <2>4 DEF Top
  <2> QED BY <2>1, <2>5
<1>8. Issue'
  <2>1. \A d : (Before(d)' <=> Before(d)) /\ (Top(d)' <=> Top(d)) BY <1>0 DEF Before, Top
  <2>2. \A d \in db'.issued : Before(d)' BY <1>0, <1>4, <2>1 DEF Issue
  <2>3. ASSUME NEW o \in Callers
        PROVE  /\ call'[o].pc \in {"gate", "disp", "write", "wait"} => Top(call[o].cmd)' /\ Before(call[o].cmd)'
               /\ call'[o].pc \in {"write", "wait"} => call'[o].cmd \in db'.issued
               /\ call'[o].pc # "idle" => act'[call'[o].g].pc \notin Early
    <3>1. CASE o = k
      <4>1. Top(c)' /\ Before(c)' BY <1>7, <2>1
      <4>2. Top(call[o].cmd)' /\ Before(call[o].cmd)' BY <1>3, <3>1, <4>1 DEF Top, Before
      <4> QED BY <1>0, <1>3, <1>5, <3>1, <4>2 DEF Early
    <3>2. CASE o # k
      <4>1. PICK d : d = call[o].cmd OBVIOUS
      <4>2. call[o].pc \in {"gate", "disp", "write", "wait"} => Top(d)' /\ Before(d)' BY <1>4, <2>1, <4>1 DEF Issue
      <4>3. call'[o].pc \in {"gate", "disp", "write", "wait"} => Top(call[o].cmd)' /\ Before(call[o].cmd)'
        BY <1>3, <3>2, <4>1, <4>2 DEF Top, Before
      <4> QED BY <1>0, <1>3, <1>4, <3>2, <4>3 DEF Issue, Early
    <3> QED BY <3>1, <3>2
  <2>4. ag'.j.cmds \subseteq db'.issued BY <1>0, <1>4 DEF Issue
  <2> QED BY <2>2, <2>3, <2>4 DEF Issue, Top, Before
<1>9. Outbox' BY <1>0, <1>4, OutboxSame
<1> QED BY <1>6, <1>8, <1>9 DEF WireInv

---------------------------------------------------------------------------
(* The Agent *)

\* A session the Agent has no part in.
LEMMA AwaySession ==
    ASSUME NEW h \in Gens, Session(h), ~On(h)', act'[h] = act[h], toC'[h] = toC[h], call' = call,
           toA'[h] = toA[h] \/ toA'[h] = <<>>
    PROVE  Session(h)'
<1>0. Greeting(h) /\ Ordered(h) /\ Flow(h) /\ Stream(h) /\ Cover(h) BY DEF Session
<1>1. Kept(toC[h], toC'[h], UpdC) /\ Kept(toC[h], toC'[h], AckC) BY KeptSame
<1>2. Kept(toA[h], toA'[h], UpdA) /\ Kept(toA[h], toA'[h], CmdA) BY KeptSame, KeptClear
<1>3. Greeting(h)' BY <1>0, KindsStay DEF Greeting, Early
<1>4. Ordered(h)' BY DEF Ordered
<1>5. Live(h)' <=> Live(h) BY DEF Live
<1>6. \A k \in Callers : Writes(k, h)' => Writes(k, h) /\ call'[k].cmd = call[k].cmd BY DEF Writes
<1>7. Flow(h)' BY <1>0, <1>1, <1>2, <1>5, <1>6, FlowKeeps
<1>8. Stream(h)' BY <1>0, <1>1, <1>2, StreamKeeps
<1>9. Along(h) BY AlongSame
<1>10. Cover(h)' BY <1>0, <1>1, <1>5, <1>9, CoverKeeps
<1> QED BY <1>3, <1>4, <1>7, <1>8, <1>10 DEF Session

LEMMA TalksWire ==
    ASSUME Inv, WireInv, NEW g \in Gens, Talks(g), Session(g)', ag'.j.cmds \subseteq db.issued, Outbox'
    PROVE  WireInv'
<1>0. Wired /\ Issue BY DEF WireInv
<1>1. Wired'
  <2> SUFFICES ASSUME NEW h \in Gens PROVE Session(h)' BY DEF Wired
  <2>1. CASE h = g BY <2>1
  <2>2. CASE h # g
    <3>1. ~On(h)' /\ act'[h] = act[h] /\ toC'[h] = toC[h] /\ toA'[h] = toA[h] /\ call' = call
      BY <2>2 DEF Talks, On
    <3>2. Session(h) BY <1>0 DEF Wired
    <3> QED BY <3>1, <3>2, AwaySession
  <2> QED BY <2>1, <2>2
<1>2. Issue'
  <2>1. \A k \in Callers : Onward(call[k], call'[k]) BY DEF Talks, Onward
  <2>2. call \in [Callers -> Calls] BY DEF Inv, Typed
  <2>3. \A h \in Gens : act[h].pc \notin Early => act'[h].pc \notin Early BY DEF Talks
  <2>4. db'.issued = db.issued /\ db.open \subseteq db'.open BY DEF Talks
  <2> QED BY <1>0, <2>1, <2>2, <2>3, <2>4, IssueKeeps
<1> QED BY <1>1, <1>2 DEF WireInv

\* What a step of the Agent in its session leaves as it was.
LEMMA TalksSession ==
    ASSUME Inv, WireInv, NEW g \in Gens, Talks(g)
    PROVE  /\ Greeting(g) /\ Ordered(g) /\ Flow(g) /\ Stream(g) /\ Cover(g)
           /\ On(g) /\ On(g)' /\ (Live(g)' <=> Live(g)) /\ (Unanswered(g)' <=> Unanswered(g))
           /\ \A k \in Callers : Writes(k, g)' => Writes(k, g) /\ call'[k].cmd = call[k].cmd
           /\ act'[g] = act[g] /\ b' = b /\ db' = db
           /\ ag.j.cmds \subseteq db.issued /\ Outbox
           /\ Kept(toA[g], toA'[g], CmdA) => Ordered(g)'
<1>1. Greeting(g) /\ Ordered(g) /\ Flow(g) /\ Stream(g) /\ Cover(g) BY DEF WireInv, Wired, Session
<1>2. UNCHANGED <<b, act, call, db>> /\ On(g) /\ On(g)' BY DEF Talks, On
<1>3. (Live(g)' <=> Live(g)) /\ (Unanswered(g)' <=> Unanswered(g)) BY <1>2 DEF Live, Unanswered, Writes
<1>4. \A k \in Callers : Writes(k, g)' => Writes(k, g) /\ call'[k].cmd = call[k].cmd BY <1>2 DEF Writes
<1>5. ASSUME Kept(toA[g], toA'[g], CmdA) PROVE Ordered(g)'
  <2>1. CASE act[g].term
    <3>1. act'[g].term BY <1>2, <2>1
    <3> QED BY <1>1, <1>2, <1>5, <3>1, OrderedKeeps
  <2>2. CASE ~act[g].term
    <3>1. act'[g].pend.cmd = act[g].pend.cmd /\ ~act[g].term BY <1>2, <2>2
    <3> QED BY <1>1, <1>2, <1>5, <3>1, OrderedKeeps
  <2> QED BY <2>1, <2>2
<1> QED BY <1>1, <1>2, <1>3, <1>4, <1>5 DEF WireInv, Issue

\* The Agent's journal and outbox stay as they are.
LEMMA TalksOn ==
    ASSUME Inv, WireInv, NEW g \in Gens, Talks(g), Greeting(g)', Along(g),
           Kept(toC[g], toC'[g], UpdC), Kept(toC[g], toC'[g], AckC),
           Kept(toA[g], toA'[g], UpdA), Kept(toA[g], toA'[g], CmdA),
           ag'.j = ag.j, ag'.out = ag.out, ag'.upd = ag.upd
    PROVE  WireInv'
<1>0. /\ Ordered(g)' /\ Flow(g) /\ Stream(g) /\ Cover(g) /\ On(g) /\ On(g)' /\ (Live(g)' <=> Live(g))
      /\ \A k \in Callers : Writes(k, g)' => Writes(k, g) /\ call'[k].cmd = call[k].cmd
      /\ act'[g] = act[g] /\ ag.j.cmds \subseteq db.issued /\ Outbox
  BY TalksSession
<1>1. Flow(g)' BY <1>0, FlowKeeps
<1>2. Stream(g)' BY <1>0, StreamKeeps
<1>3. Cover(g)' BY <1>0, CoverKeeps
<1>4. Session(g)' BY <1>0, <1>1, <1>2, <1>3 DEF Session
<1>5. Outbox' BY <1>0, OutboxSame
<1> QED BY <1>0, <1>4, <1>5, TalksWire

LEMMA RunLate == ASSUME WireInv, NEW g \in Gens, Talks(g), ag.pc = "run" PROVE act'[g].pc \notin Early
BY DEF Talks, WireInv, Wired, Session, Greeting

LEMMA PresentsWire == ASSUME Inv, WireInv, NEW g \in Gens, Presents(g) PROVE WireInv'
<1>0. /\ Talks(g) /\ Listens(g) /\ ag.pc = "hello" /\ ag'.pc = "snap"
      /\ ag'.j = ag.j /\ ag'.out = ag.out /\ ag'.upd = ag.upd
  BY DEF Presents
<1>1. PICK m \in SnapC : Says(g, m) /\ m.s.j = ag.j BY DEF Presents
<1>2. m \notin UpdC /\ m \notin AckC /\ m.t = "snap" BY <1>1 DEF SnapC, UpdC, AckC
<1>3. Greeting(g) /\ On(g) /\ On(g)' /\ act'[g] = act[g] BY <1>0, TalksSession
<1>4. toC[g] \in Seq(Reports) /\ toA[g] \in Seq(Orders) /\ m \in Reports /\ toC'[g] = Append(toC[g], m)
  BY <1>1 DEF Inv, Typed, Says
<1>5. act[g].pc # "hello" BY <1>0, <1>3 DEF Greeting, Listens
<1>6. \A i \in DOMAIN toC'[g] : (i \in DOMAIN toC[g] /\ toC'[g][i] = toC[g][i]) \/ toC'[g][i] = m
  BY <1>4, AppendOf
<1>7. \A i \in DOMAIN toA'[g] : i + 1 \in DOMAIN toA[g] /\ toA'[g][i] = toA[g][i + 1]
  BY <1>0, <1>4, TailOf DEF Listens
<1>8. Greeting(g)'
  <2>1. act[g].pc \in Early => /\ \A i \in DOMAIN toC'[g] : toC'[g][i].t \in {"hello", "snap"}
                               /\ \A i \in DOMAIN toA'[g] : toA'[g][i].t = "ack" /\ toA'[g][i].of = "hello"
    BY <1>2, <1>3, <1>6, <1>7 DEF Greeting
  <2>2. act[g].pc = "captured" => \A i \in DOMAIN toC'[g] : toC'[g][i].t = "snap"
    BY <1>2, <1>3, <1>6 DEF Greeting
  <2>3. \A i \in DOMAIN toC'[g] : toC'[g][i] \in SnapC => toC'[g][i].s.j.cmds = ag'.j.cmds
    BY <1>0, <1>1, <1>3, <1>6 DEF Greeting
  <2>4. act[g].pc \in {"locked", "stored"} => act[g].snap.j.cmds = ag'.j.cmds BY <1>0, <1>3 DEF Greeting
  <2> QED BY <1>0, <1>3, <1>5, <2>1, <2>2, <2>3, <2>4, KindsStay DEF Greeting, Early
<1>9. Kept(toC[g], toC'[g], UpdC) /\ Kept(toC[g], toC'[g], AckC) BY <1>1, <1>2, SaysKeeps
<1>10. Kept(toA[g], toA'[g], UpdA) /\ Kept(toA[g], toA'[g], CmdA) BY <1>0, ListensKeeps
<1>11. Along(g) BY <1>1, <1>2, AlongAppend
<1> QED BY <1>0, <1>8, <1>9, <1>10, <1>11, TalksOn

LEMMA BeatingWire == ASSUME Inv, WireInv, NEW g \in Gens, Beating(g) PROVE WireInv'
<1>0. /\ Talks(g) /\ toA'[g] = toA[g] /\ ag.pc = "run" /\ ag'.pc = "run"
      /\ ag'.j = ag.j /\ ag'.out = ag.out /\ ag'.upd = ag.upd
  BY DEF Beating
<1>1. PICK m \in HbC : Says(g, m) BY DEF Beating
<1>2. m \notin UpdC /\ m \notin AckC /\ m \notin SnapC BY <1>1 DEF HbC, SnapC, UpdC, AckC
<1>3. Kept(toC[g], toC'[g], UpdC) /\ Kept(toC[g], toC'[g], AckC) /\ Kept(toC[g], toC'[g], SnapC)
  BY <1>1, <1>2, SaysKeeps
<1>4. Kept(toA[g], toA'[g], UpdA) /\ Kept(toA[g], toA'[g], CmdA) BY <1>0, KeptSame
<1>5. Along(g) BY <1>1, <1>2, AlongAppend
<1>6. Greeting(g) /\ act'[g].pc \notin Early BY <1>0, RunLate, TalksSession
<1>7. Greeting(g)' BY <1>0, <1>3, <1>6, GreetingRun
<1> QED BY <1>0, <1>3, <1>4, <1>5, <1>7, TalksOn

LEMMA ConfirmsWire == ASSUME Inv, WireInv, NEW g \in Gens, Confirms(g) PROVE WireInv'
<1>0. /\ Talks(g) /\ Listens(g) /\ toC'[g] = toC[g] /\ ag.pc = "run" /\ ag'.pc = "run"
      /\ ag'.j = ag.j /\ ag'.out = ag.out /\ ag'.upd = ag.upd
  BY DEF Confirms
<1>1. Kept(toC[g], toC'[g], UpdC) /\ Kept(toC[g], toC'[g], AckC) /\ Kept(toC[g], toC'[g], SnapC)
  BY <1>0, KeptSame
<1>2. Kept(toA[g], toA'[g], UpdA) /\ Kept(toA[g], toA'[g], CmdA) BY <1>0, ListensKeeps
<1>3. Along(g) BY <1>0, AlongSame
<1>4. Greeting(g) /\ act'[g].pc \notin Early BY <1>0, RunLate, TalksSession
<1>5. Greeting(g)' BY <1>0, <1>1, <1>4, GreetingRun
<1> QED BY <1>0, <1>1, <1>2, <1>3, <1>5, TalksOn

LEMMA OpensWire == ASSUME Inv, WireInv, NEW g \in Gens, Opens(g) PROVE WireInv'
<1>0. /\ Talks(g) /\ Listens(g) /\ toC'[g] = toC[g] /\ ag'.pc = "run" /\ Head(toA[g]).of = "snap"
      /\ ag'.j = ag.j /\ ag'.out = ag.out /\ ag'.upd = ag.upd
  BY DEF Opens
<1>1. Kept(toC[g], toC'[g], UpdC) /\ Kept(toC[g], toC'[g], AckC) /\ Kept(toC[g], toC'[g], SnapC)
  BY <1>0, KeptSame
<1>2. Kept(toA[g], toA'[g], UpdA) /\ Kept(toA[g], toA'[g], CmdA) BY <1>0, ListensKeeps
<1>3. Along(g) BY <1>0, AlongSame
<1>4. Greeting(g) /\ act'[g] = act[g] BY <1>0, TalksSession
<1>5. act'[g].pc \notin Early
  <2>1. toA[g] \in Seq(Orders) BY DEF Inv, Typed
  <2>2. 1 \in DOMAIN toA[g] /\ Head(toA[g]) = toA[g][1] BY <1>0, <2>1, TailOf DEF Listens
  <2> QED BY <1>0, <1>4, <2>2 DEF Greeting
<1>6. Greeting(g)' BY <1>0, <1>1, <1>4, <1>5, GreetingRun
<1> QED BY <1>0, <1>1, <1>2, <1>3, <1>6, TalksOn

LEMMA AckedAppend ==
    ASSUME Inv, NEW g \in Gens, NEW m, Says(g, m), NEW c, NEW n, Acked(g, c, n) PROVE Acked(g, c, n)'
<1>1. toC[g] \in Seq(Reports) /\ m \in Reports /\ toC'[g] = Append(toC[g], m) BY DEF Inv, Typed, Says
<1>2. PICK k \in DOMAIN toC[g] : k <= n /\ toC[g][k] \in AckC /\ toC[g][k].of = c BY DEF Acked
<1>3. k \in DOMAIN toC'[g] /\ toC'[g][k] = toC[g][k] BY <1>1, <1>2, AppendOf
<1> QED BY <1>2, <1>3, KindsStay DEF Acked

LEMMA TellsWire == ASSUME Inv, WireInv, NEW g \in Gens, Tells(g) PROVE WireInv'
<1>0. /\ Talks(g) /\ toA'[g] = toA[g] /\ ag.pc = "run" /\ ag'.pc = "run" /\ ~ag.upd /\ ag'.upd
      /\ ag.out # <<>> /\ ag'.j = ag.j /\ ag'.out = ag.out
  BY DEF Tells
<1>1. PICK m : m = ag.out[1] /\ m \in Updates /\ Says(g, m) BY DEF Tells
<1>2. m \in UpdC /\ m \notin AckC /\ m \notin SnapC BY <1>1 DEF Updates, UpdC, AckC, SnapC, Reports
<1>3. /\ Greeting(g) /\ Flow(g) /\ Stream(g) /\ Cover(g) /\ On(g) /\ On(g)' /\ (Live(g)' <=> Live(g))
      /\ \A k \in Callers : Writes(k, g)' => Writes(k, g) /\ call'[k].cmd = call[k].cmd
      /\ act'[g] = act[g] /\ ag.j.cmds \subseteq db.issued /\ Outbox
  BY <1>0, TalksSession
<1>4. toC[g] \in Seq(Reports) /\ m \in Reports /\ toC'[g] = Append(toC[g], m) BY <1>1 DEF Inv, Typed, Says
<1>5. Kept(toC[g], toC'[g], AckC) /\ Kept(toC[g], toC'[g], SnapC) BY <1>1, <1>2, SaysKeeps
<1>6. Kept(toA[g], toA'[g], CmdA) BY <1>0, KeptSame
<1>7. Ordered(g)' BY <1>0, <1>6, TalksSession
<1>8. act'[g].pc \notin Early BY <1>0, RunLate
<1>9. Greeting(g)' BY <1>0, <1>3, <1>5, <1>8, GreetingRun
<1>10. Flow(g)' BY <1>3, <1>5, <1>6, FlowKeeps
<1>11. None(toC[g], UpdC) /\ None(toA[g], UpdA) BY <1>0, <1>3 DEF Stream, None
<1>12. One(toC'[g], UpdC) /\ \A i \in DOMAIN toC'[g] : toC'[g][i] \in UpdC => toC'[g][i] = m
  BY <1>4, <1>11, SendOne
<1>13. Stream(g)'
  <2>1. One(toA[g], UpdA) BY <1>11, NoneOne
  <2> QED BY <1>0, <1>1, <1>11, <1>12, <2>1, KindsStay DEF Stream, None, One
<1>14. PICK n \in Nat : n = Len(toC[g]) /\ n + 1 = Len(toC'[g]) BY <1>4, AppendOf
<1>15. \A c \in ag.j.cmds : Live(g) => Covered(g, c, n)' /\ Covered(g, c, n + 1)'
  <2> SUFFICES ASSUME NEW c \in ag.j.cmds, Live(g) PROVE Covered(g, c, n)' /\ Covered(g, c, n + 1)' OBVIOUS
  <2>1. Covered(g, c, n) BY <1>0, <1>3, <1>14 DEF Cover
  <2>2. Acked(g, c, n) => Acked(g, c, n)' BY <1>1, AckedAppend
  <2>3. \A k : k \in DOMAIN toC'[g] /\ k <= n => k <= n + 1
    <3>1. \A k \in DOMAIN toC'[g] : k \in Nat BY <1>4, AppendOf
    <3> QED BY <1>14, <3>1
  <2>4. Acked(g, c, n)' => Acked(g, c, n + 1)' BY <2>3 DEF Acked
  <2> QED BY <1>3, <2>1, <2>2, <2>4 DEF Covered
<1>16. m.of \in ag.j.cmds
  <2>1. ag.out \in Seq(Updates) BY AgentOf DEF Inv, Typed
  <2>2. 1 \in DOMAIN ag.out BY <1>0, <2>1, TailOf
  <2> QED BY <1>1, <1>3, <2>2 DEF Outbox
<1>17. Cover(g)'
  <2>1. ASSUME NEW i \in DOMAIN toC'[g], toC'[g][i] \in UpdC, Live(g) PROVE Covered(g, toC[g][i].of, i - 1)'
    <3>1. toC'[g][i] = m BY <1>12, <2>1
    <3>2. i = n + 1 BY <1>2, <1>4, <1>11, <1>14, <2>1, AppendOf DEF None
    <3>3. i - 1 = n BY <1>14, <3>2
    <3>4. PICK c : c = m.of OBVIOUS
    <3>5. Covered(g, c, n)' BY <1>15, <1>16, <2>1, <3>4
    <3> QED BY <3>1, <3>3, <3>4, <3>5 DEF Covered, Acked
  <2>2. ASSUME Live(g), NEW c \in ag'.j.cmds PROVE Covered(g, c, Len(toC[g]))'
    <3>1. Covered(g, c, n + 1)' BY <1>0, <1>15, <2>2
    <3> QED BY <1>14, <3>1 DEF Covered, Acked
  <2> QED BY <1>3, <2>1, <2>2, KindsStay DEF Cover
<1>18. Session(g)' BY <1>7, <1>9, <1>10, <1>13, <1>17 DEF Session
<1>19. Outbox' BY <1>0, <1>3, OutboxSame
<1> QED BY <1>0, <1>3, <1>18, <1>19, TalksWire

LEMMA OneLess ==
    ASSUME NEW n \in Nat, n >= 1, n # 1
    PROVE  n - 1 \in Nat /\ n - 1 \in 1..(n - 1) /\ (n - 1) + 1 = n /\ n - 1 # 0
OBVIOUS

LEMMA ClearsOutbox ==
    ASSUME Inv, Outbox, ag.out # <<>>, ag'.out = Tail(ag.out),
           ag'.j = IF ag.out[1].t = "done" THEN NoJournal ELSE ag.j
    PROVE  Outbox' /\ ag'.j.cmds \subseteq ag.j.cmds /\ (ag.out[1].t = "done" => ag'.j.cmds = {})
<1>1. ag.out \in Seq(Updates) BY AgentOf DEF Inv, Typed
<1>2. PICK n \in Nat : n = Len(ag.out) /\ n >= 1 BY <1>1, TailOf
<1>3. /\ 1 \in DOMAIN ag.out /\ DOMAIN ag.out = 1..n /\ DOMAIN ag'.out = 1..(n - 1) /\ Len(ag'.out) = n - 1
      /\ \A i \in DOMAIN ag'.out : i \in Nat /\ i + 1 \in DOMAIN ag.out /\ ag'.out[i] = ag.out[i + 1]
  BY <1>1, <1>2, TailOf
<1>4. CASE ag.out[1].t = "done"
  <2>1. 1 = n BY <1>2, <1>3, <1>4 DEF Outbox
  <2>2. DOMAIN ag'.out = {} BY <1>3, <2>1
  <2>3. ag'.j.cmds = {} /\ ~ag'.j.done BY <1>4 DEF NoJournal
  <2> QED BY <2>2, <2>3 DEF Outbox
<1>5. CASE ag.out[1].t # "done"
  <2>1. ag'.j = ag.j BY <1>5
  <2>2. \A i \in DOMAIN ag'.out : ag'.out[i].of \in ag'.j.cmds BY <1>3, <2>1 DEF Outbox
  <2>3. ASSUME NEW i \in DOMAIN ag'.out, ag'.out[i].t = "done" PROVE i = Len(ag'.out) /\ ag'.j.done
    <3>1. i + 1 = n /\ ag.j.done BY <1>2, <1>3, <2>3 DEF Outbox
    <3> QED BY <1>2, <1>3, <2>1, <3>1
  <2>4. ASSUME ag'.j.done
        PROVE  ag'.out # <<>> /\ ag'.out[Len(ag'.out)] = Msg("done", Cardinality(Cmds)) /\ Cmds \subseteq ag'.j.cmds
    <3>1. ag.out[n] = Msg("done", Cardinality(Cmds)) /\ Cmds \subseteq ag.j.cmds BY <1>2, <2>1, <2>4 DEF Outbox
    <3>2. Msg("done", Cardinality(Cmds)).t = "done" BY DEF Msg
    <3>3. n # 1 BY <1>5, <3>1, <3>2
    <3>4. PICK l \in Nat : l = n - 1 /\ l \in 1..(n - 1) /\ l + 1 = n /\ l # 0
      <4>1. n - 1 \in Nat /\ n - 1 \in 1..(n - 1) /\ (n - 1) + 1 = n /\ n - 1 # 0 BY <1>2, <3>3, OneLess
      <4> QED BY <4>1
    <3>5. l \in DOMAIN ag'.out /\ l = Len(ag'.out) BY <1>3, <3>4
    <3>7. ag'.out[l] = ag.out[n] BY <1>3, <3>4, <3>5
    <3>6. ag'.out # <<>>
      <4>1. Len(<<>>) = 0 OBVIOUS
      <4> QED BY <3>4, <3>5, <4>1
    <3> QED BY <2>1, <3>1, <3>5, <3>6, <3>7
  <2> QED BY <1>5, <2>1, <2>2, <2>3, <2>4 DEF Outbox
<1> QED BY <1>4, <1>5

LEMMA ClearsWire == ASSUME Inv, WireInv, NEW g \in Gens, Clears(g) PROVE WireInv'
<1>0. /\ Talks(g) /\ Listens(g) /\ toC'[g] = toC[g] /\ ag.pc = "run" /\ ag'.pc = "run"
      /\ Head(toA[g]) \in UpdA /\ ag.upd /\ ~ag'.upd /\ ag.out # <<>> /\ ag'.out = Tail(ag.out)
      /\ ag'.j = (IF ag.out[1].t = "done" THEN NoJournal ELSE ag.j)
  BY DEF Clears
<1>1. /\ Greeting(g) /\ Flow(g) /\ Stream(g) /\ Cover(g) /\ On(g) /\ On(g)' /\ (Live(g)' <=> Live(g))
      /\ \A k \in Callers : Writes(k, g)' => Writes(k, g) /\ call'[k].cmd = call[k].cmd
      /\ act'[g] = act[g] /\ ag.j.cmds \subseteq db.issued /\ Outbox
  BY <1>0, TalksSession
<1>2. Kept(toC[g], toC'[g], SnapC) /\ Kept(toC[g], toC'[g], AckC) BY <1>0, KeptSame
<1>3. Kept(toA[g], toA'[g], CmdA) BY <1>0, ListensKeeps
<1>4. Ordered(g)' BY <1>0, <1>3, TalksSession
<1>5. act'[g].pc \notin Early BY <1>0, RunLate
<1>6. Greeting(g)' BY <1>0, <1>1, <1>2, <1>5, GreetingRun
<1>7. Flow(g)' BY <1>1, <1>2, <1>3, FlowKeeps
<1>8. toA[g] \in Seq(Orders) BY DEF Inv, Typed
<1>9. ~None(toA[g], UpdA)
  <2>1. 1 \in DOMAIN toA[g] /\ Head(toA[g]) = toA[g][1] BY <1>0, <1>8, TailOf DEF Listens
  <2> QED BY <1>0, <2>1 DEF None
<1>10. None(toC[g], UpdC) /\ One(toA[g], UpdA) BY <1>1, <1>9 DEF Stream
<1>11. None(toA'[g], UpdA) BY <1>0, <1>8, <1>10, ReadOne DEF Listens
<1>12. Stream(g)' BY <1>0, <1>10, <1>11, KindsStay DEF Stream, None, One
<1>13. Outbox' /\ ag'.j.cmds \subseteq ag.j.cmds /\ (ag.out[1].t = "done" => ag'.j.cmds = {})
  BY <1>0, <1>1, ClearsOutbox
<1>14. Cover(g)'
  <2>1. \A c, n : Covered(g, c, n) => Covered(g, c, n)' BY <1>0, <1>1, KindsStay DEF Covered, Acked
  <2>2. None(toC[g], UpdC)' BY <1>0, <1>10, KindsStay DEF None
  <2>3. ASSUME Live(g), NEW c \in ag'.j.cmds PROVE Covered(g, c, Len(toC[g]))'
    <3>1. PICK n : n = Len(toC[g]) /\ n = Len(toC'[g]) BY <1>0
    <3>2. c \in ag.j.cmds /\ ag.out[1].t # "done" BY <1>13, <2>3
    <3>3. Covered(g, c, n) BY <1>1, <2>3, <3>1, <3>2 DEF Cover
    <3>4. Covered(g, c, n)' BY <2>1, <3>3
    <3> QED BY <3>1, <3>4 DEF Covered, Acked
  <2> QED BY <1>1, <2>2, <2>3 DEF Cover, None
<1>15. Session(g)' BY <1>4, <1>6, <1>7, <1>12, <1>14 DEF Session
<1>16. ag'.j.cmds \subseteq db.issued BY <1>1, <1>13
<1> QED BY <1>0, <1>13, <1>15, <1>16, TalksWire

LEMMA LastCommand == Cmds # {} => Cardinality(Cmds) \in Cmds /\ \A c \in Cmds : Cardinality(Cmds) <= c => c = Cardinality(Cmds)
<1>1. PICK n \in Nat : n = Cardinality(Cmds) /\ Cmds = 1..n BY CmdNat, BrokerConstants
<1>2. \A c \in 1..n : n <= c => c = n BY <1>1
<1>3. 1..n # {} => n \in 1..n BY <1>1
<1> QED BY <1>1, <1>2, <1>3

LEMMA EntersOutbox ==
    ASSUME Inv, Outbox, NEW c \in Cmds, ag.j.cmds \subseteq db.issued, Top(c),
           ag'.j.cmds = ag.j.cmds \cup {c}, ag'.j.done = ag.j.done, Reported(c) \in Updates,
           ag'.out = IF \E i \in DOMAIN ag.out : ag.out[i] = Reported(c) THEN ag.out
                     ELSE Append(ag.out, Reported(c))
    PROVE  Outbox' /\ (ag.out # <<>> => ag'.out[1] = ag.out[1])
<1>1. ag.out \in Seq(Updates) BY AgentOf DEF Inv, Typed
<1>2. CASE ag.j.done
  <2>1. Cmds \subseteq ag.j.cmds /\ ag.out # <<>> /\ ag.out[Len(ag.out)] = Msg("done", Cardinality(Cmds))
    BY <1>2 DEF Outbox
  <2>2. Cardinality(Cmds) <= c BY <2>1, LastCommand DEF Top
  <2>3. c = Cardinality(Cmds) BY <2>2, LastCommand
  <2>4. Reported(c) = ag.out[Len(ag.out)] BY <1>2, <2>1, <2>3 DEF Reported
  <2>5. Len(ag.out) \in DOMAIN ag.out
    <3>1. Len(ag.out) \in Nat /\ Len(ag.out) >= 1 /\ DOMAIN ag.out = 1..Len(ag.out) BY <1>1, <2>1, TailOf
    <3> QED BY <3>1
  <2>6. ag'.out = ag.out BY <2>4, <2>5
  <2> QED BY <2>6 DEF Outbox
<1>3. CASE ~ag.j.done
  <2>1. \A i \in DOMAIN ag.out : ag.out[i].t # "done" BY <1>3 DEF Outbox
  <2>2. Reported(c).t = "open" /\ Reported(c).of = c BY <1>3 DEF Reported, Msg
  <2>3. CASE ag'.out = ag.out BY <1>3, <2>1, <2>3 DEF Outbox
  <2>4. CASE ag'.out = Append(ag.out, Reported(c))
    <3>1. \A i \in DOMAIN ag'.out : (i \in DOMAIN ag.out /\ ag'.out[i] = ag.out[i]) \/ ag'.out[i] = Reported(c)
      BY <1>1, <2>4, AppendOf
    <3>2. \A i \in DOMAIN ag'.out : ag'.out[i].t # "done" /\ ag'.out[i].of \in ag'.j.cmds
      BY <2>1, <2>2, <3>1 DEF Outbox
    <3>3. ag.out # <<>> => ag'.out[1] = ag.out[1]
      <4>1. ag.out # <<>> => 1 \in DOMAIN ag.out BY <1>1, TailOf
      <4> QED BY <1>1, <2>4, <4>1, AppendOf
    <3> QED BY <1>3, <3>2, <3>3 DEF Outbox
  <2> QED BY <2>3, <2>4
<1> QED BY <1>2, <1>3

LEMMA EntersWire == ASSUME Inv, WireInv, NEW g \in Gens, Enters(g) PROVE WireInv'
<1>0. toA[g] \in Seq(Orders) /\ toC[g] \in Seq(Reports) /\ ag \in Agents BY DEF Inv, Typed
<1>1. PICK c \in Cmds : c = Head(toA[g]).of /\ Head(toA[g]) = toA[g][1] /\ 1 \in DOMAIN toA[g]
  <2>1. Listens(g) /\ Head(toA[g]) \in CmdA BY DEF Enters
  <2>2. Head(toA[g]).of \in Cmds BY <2>1 DEF CmdA, Orders
  <2> QED BY <1>0, <2>1, <2>2, TailOf DEF Listens
<1>2. /\ Talks(g) /\ Listens(g) /\ Head(toA[g]) \in CmdA /\ Says(g, Msg("ack", c))
      /\ ag.pc = "run" /\ ag'.pc = "run" /\ ag'.upd = ag.upd
      /\ ag'.j.cmds = ag.j.cmds \cup {c} /\ ag'.j.done = ag.j.done /\ Reported(c) \in Updates
      /\ ag'.out = IF \E i \in DOMAIN ag.out : ag.out[i] = Reported(c) THEN ag.out
                   ELSE Append(ag.out, Reported(c))
  BY <1>1 DEF Enters
<1>3. PICK m \in Reports : m = Msg("ack", c) /\ m.t = "ack" /\ m.of = c BY MessageTyped DEF Msg
<1>4. m \in AckC /\ m \notin UpdC /\ m \notin SnapC BY <1>3 DEF AckC, UpdC, SnapC
<1>5. /\ Greeting(g) /\ Ordered(g) /\ Flow(g) /\ Stream(g) /\ Cover(g) /\ On(g) /\ On(g)'
      /\ (Live(g)' <=> Live(g)) /\ (Unanswered(g)' <=> Unanswered(g))
      /\ \A k \in Callers : Writes(k, g)' => Writes(k, g) /\ call'[k].cmd = call[k].cmd
      /\ act'[g] = act[g] /\ ag.j.cmds \subseteq db.issued /\ Outbox
  BY <1>2, TalksSession
<1>6. c \in db.issued /\ Top(c) /\ (act[g].term \/ act[g].pend.cmd = c)
  BY <1>1, <1>2, <1>5 DEF Ordered
<1>7. Outbox' /\ (ag.out # <<>> => ag'.out[1] = ag.out[1]) BY <1>2, <1>5, <1>6, EntersOutbox
<1>8. ag.upd => ag'.out[1] = ag.out[1] BY <1>0, <1>7, AgentOf
<1>9. Says(g, m) /\ toC'[g] = Append(toC[g], m) BY <1>2, <1>3 DEF Says
<1>10. Kept(toC[g], toC'[g], SnapC) /\ Kept(toC[g], toC'[g], UpdC) BY <1>4, <1>9, SaysKeeps
<1>11. Kept(toA[g], toA'[g], CmdA) /\ Kept(toA[g], toA'[g], UpdA) BY <1>2, ListensKeeps
<1>12. Ordered(g)' BY <1>2, <1>11, TalksSession
<1>13. act'[g].pc \notin Early BY <1>2, RunLate
<1>14. Greeting(g)' BY <1>2, <1>5, <1>10, <1>13, GreetingRun
<1>15. Stream(g)' BY <1>2, <1>5, <1>8, <1>10, <1>11, StreamKeeps
<1>16. Flow(g)'
  <2> SUFFICES ASSUME Live(g) PROVE Flow(g)' BY <1>5 DEF Flow
  <2>1. ~None(toA[g], CmdA) BY <1>1, <1>2 DEF None
  <2>2. One(toA[g], CmdA) /\ None(toC[g], AckC) /\ Unanswered(g) BY <1>5, <2>1 DEF Flow
  <2>3. None(toA'[g], CmdA) BY <1>0, <1>2, <2>2, ReadOne DEF Listens
  <2>4. One(toC'[g], AckC) BY <1>0, <1>9, <2>2, SendOne
  <2>5. None(toA[g], CmdA)' /\ One(toC[g], AckC)' BY <2>3, <2>4, KindsStay DEF None, One
  <2>6. \A k \in Callers : ~Writes(k, g)' BY <1>5, <2>2 DEF Unanswered
  <2> QED BY <1>5, <2>2, <2>5, <2>6 DEF Flow, None, One
<1>17. Cover(g)'
  <2>1. Along(g) BY <1>4, <1>9, AlongAppend
  <2>2. ASSUME Live(g)' PROVE Covered(g, c, Len(toC[g]))'
    <3>1. PICK n \in Nat : n = Len(toC'[g]) /\ n \in DOMAIN toC'[g] /\ toC'[g][n] = m
      <4>1. /\ Len(toC[g]) \in Nat /\ Len(toC'[g]) = Len(toC[g]) + 1 /\ DOMAIN toC'[g] = 1..(Len(toC[g]) + 1)
            /\ toC'[g][Len(toC[g]) + 1] = m
        BY <1>0, <1>9, AppendOf
      <4>2. Len(toC[g]) + 1 \in Nat /\ Len(toC[g]) + 1 \in 1..(Len(toC[g]) + 1) BY <4>1
      <4> QED BY <4>1, <4>2
    <3>2. n <= n BY <3>1
    <3>3. Acked(g, c, n)' BY <1>3, <1>4, <3>1, <3>2, KindsStay DEF Acked
    <3>4. act'[g].pend.cmd = c BY <1>5, <1>6, <2>2 DEF Live
    <3>5. Covered(g, c, n)' BY <3>3, <3>4 DEF Covered
    <3> QED BY <3>1, <3>5 DEF Covered, Acked
  <2>3. On(g)' /\ Live(g)' => \A d \in ag'.j.cmds : d \in ag.j.cmds \/ Covered(g, d, Len(toC[g]))'
    BY <1>2, <2>2
  <2>4. On(g)' => On(g) /\ (ag.upd /\ ag.out[1].t = "done" => ag'.upd /\ ag'.out[1].t = "done")
    BY <1>2, <1>5, <1>8
  <2> QED BY <1>5, <1>10, <2>1, <2>3, <2>4, CoverGrows
<1>18. Session(g)' BY <1>12, <1>14, <1>15, <1>16, <1>17 DEF Session
<1>19. ag'.j.cmds \subseteq db.issued BY <1>2, <1>5, <1>6
<1> QED BY <1>2, <1>7, <1>18, <1>19, TalksWire

LEMMA LeavesWire == ASSUME Inv, WireInv, NEW g \in Gens, Leaves(g) PROVE WireInv'
<1>0. /\ UNCHANGED <<b, act, call, db, toC>> /\ ag'.pc = "off" /\ ag'.j = ag.j /\ ag'.out = ag.out
      /\ \A h \in Gens : toA'[h] = toA[h] \/ toA'[h] = <<>>
  BY DEF Leaves
<1>1. Wired /\ Issue /\ Outbox BY DEF WireInv
<1>2. Wired'
  <2> SUFFICES ASSUME NEW h \in Gens PROVE Session(h)' BY DEF Wired
  <2>1. ~On(h)' BY <1>0 DEF On
  <2>2. Session(h) BY <1>1 DEF Wired
  <2> QED BY <1>0, <2>1, <2>2, AwaySession
<1>3. Issue'
  <2>1. \A k \in Callers : Onward(call[k], call'[k]) BY <1>0 DEF Onward
  <2>2. call \in [Callers -> Calls] /\ ag'.j.cmds \subseteq db.issued BY <1>0, <1>1 DEF Inv, Typed, Issue
  <2> QED BY <1>0, <1>1, <2>1, <2>2, IssueKeeps
<1>4. Outbox' BY <1>0, <1>1, OutboxSame
<1> QED BY <1>2, <1>3, <1>4 DEF WireInv

\* The Agent changes by itself, and the head of its outbox stays.
LEMMA AloneWire ==
    ASSUME Inv, WireInv, Alone, UNCHANGED call, ag'.j.cmds = ag.j.cmds,
           ag.out # <<>> => ag'.out[1] = ag.out[1], Outbox'
    PROVE  WireInv'
<1>0. /\ UNCHANGED <<b, act, db, up, toC, toA>> /\ ag'.pc = ag.pc /\ ag'.g = ag.g /\ ag'.upd = ag.upd
  BY DEF Alone
<1>1. Wired /\ Issue BY DEF WireInv
<1>2. ag.upd => ag'.out[1] = ag.out[1] BY AgentOf DEF Inv, Typed
<1>3. Wired'
  <2> SUFFICES ASSUME NEW h \in Gens PROVE Session(h)' BY DEF Wired
  <2>0. Greeting(h) /\ Ordered(h) /\ Flow(h) /\ Stream(h) /\ Cover(h) BY <1>1 DEF Wired, Session
  <2>1. (On(h)' <=> On(h)) /\ (Live(h)' <=> Live(h)) BY <1>0 DEF On, Live
  <2>2. Kept(toC[h], toC'[h], UpdC) /\ Kept(toC[h], toC'[h], AckC) BY <1>0, KeptSame
  <2>3. Kept(toA[h], toA'[h], UpdA) /\ Kept(toA[h], toA'[h], CmdA) BY <1>0, KeptSame
  <2>4. Greeting(h)' BY <1>0, <2>0, <2>1, GreetingSame
  <2>5. Ordered(h)'
    <3>1. CASE act[h].term
      <4>1. act'[h].term BY <1>0, <3>1
      <4> QED BY <1>0, <2>0, <2>1, <2>3, <4>1, OrderedKeeps
    <3>2. CASE ~act[h].term
      <4>1. act'[h].pend.cmd = act[h].pend.cmd BY <1>0
      <4> QED BY <1>0, <2>0, <2>1, <2>3, <3>2, <4>1, OrderedKeeps
    <3> QED BY <3>1, <3>2
  <2>6. \A k \in Callers : Writes(k, h)' => Writes(k, h) /\ call'[k].cmd = call[k].cmd BY DEF Writes
  <2>7. Flow(h)' BY <1>0, <2>0, <2>1, <2>2, <2>3, <2>6, FlowKeeps
  <2>8. Stream(h)' BY <1>0, <1>2, <2>0, <2>1, <2>2, <2>3, StreamKeeps
  <2>9. Along(h) BY <1>0, AlongSame
  <2>10. Cover(h)' BY <1>0, <1>2, <2>0, <2>1, <2>2, <2>9, CoverKeeps
  <2> QED BY <2>4, <2>5, <2>7, <2>8, <2>10 DEF Session
<1>4. Issue'
  <2>1. \A k \in Callers : Onward(call[k], call'[k]) BY DEF Onward
  <2>2. call \in [Callers -> Calls] /\ ag'.j.cmds \subseteq db.issued BY <1>1 DEF Inv, Typed, Issue
  <2> QED BY <1>0, <1>1, <2>1, <2>2, IssueKeeps
<1> QED BY <1>3, <1>4 DEF WireInv

LEMMA DecidesWire == ASSUME Inv, WireInv, Decides PROVE WireInv'
<1>1. Outbox' BY OutboxSame DEF WireInv, Decides
<1> QED BY <1>1, AloneWire DEF Decides

LEMMA FinishingWire == ASSUME Inv, WireInv, Cmds # {}, Finishing PROVE WireInv'
<1>0. /\ Alone /\ UNCHANGED call /\ Cmds \subseteq ag.j.cmds /\ \A i \in DOMAIN ag.out : ag.out[i].t # "done"
      /\ ag'.j.cmds = ag.j.cmds /\ ag'.j.done /\ ag'.out = Append(ag.out, Msg("done", Cardinality(Cmds)))
  BY DEF Finishing
<1>1. PICK u \in Updates : u = Msg("done", Cardinality(Cmds)) /\ u.t = "done" /\ u.of = Cardinality(Cmds)
  <2>1. Cardinality(Cmds) \in Names BY LastCommand DEF Names
  <2> QED BY <2>1, MessageTyped DEF Msg
<1>2. ag.out \in Seq(Updates) /\ Outbox BY AgentOf DEF Inv, Typed, WireInv
<1>3. PICK n \in Nat : n = Len(ag.out) BY <1>2, AppendOf
<1>4. /\ Len(ag'.out) = n + 1 /\ ag'.out[n + 1] = u
      /\ \A i \in DOMAIN ag.out : ag'.out[i] = ag.out[i]
      /\ \A i \in DOMAIN ag'.out : i \in DOMAIN ag.out \/ i = n + 1
  BY <1>0, <1>1, <1>2, <1>3, AppendOf
<1>5. u.of \in ag.j.cmds BY <1>0, <1>1, LastCommand
<1>6. \A i \in DOMAIN ag'.out : ag'.out[i].of \in ag'.j.cmds BY <1>0, <1>2, <1>4, <1>5 DEF Outbox
<1>7. \A i \in DOMAIN ag'.out : ag'.out[i].t = "done" => i = Len(ag'.out) /\ ag'.j.done BY <1>0, <1>4
<1>8. ag'.out # <<>> BY <1>0, <1>1, <1>2, OutboxAppend
<1>9. Outbox' BY <1>0, <1>1, <1>4, <1>6, <1>7, <1>8 DEF Outbox
<1>10. ag.out # <<>> => ag'.out[1] = ag.out[1]
  <2>1. ag.out # <<>> => 1 \in DOMAIN ag.out BY <1>2, TailOf
  <2> QED BY <1>4, <2>1
<1> QED BY <1>0, <1>9, <1>10, AloneWire

LEMMA DialsWire == ASSUME Inv, WireInv, NEW g \in Gens, Dials(g) PROVE WireInv'
<1>0. /\ UNCHANGED <<call, db, toA>> /\ b'.projected = b.projected
      /\ \A h \in Gens \ {g} : act'[h] = act[h] /\ toC'[h] = toC[h]
      /\ act[g].pc = "none" /\ act'[g] = [act[g] EXCEPT !.pc = "hello"]
      /\ toC'[g] = <<Msg("hello", 0)>> /\ toA[g] = <<>>
      /\ ag'.pc = "hello" /\ ag'.g = g /\ ag'.j = ag.j /\ ag'.out = ag.out /\ ~ag'.upd
  BY DEF Dials
<1>1. Wired /\ Issue /\ Outbox BY DEF WireInv
<1>2. act'[g].pc = "hello"
  <2>1. act[g] \in Actors BY DEF Inv, Typed
  <2> QED BY <1>0, <2>1 DEF Actors, ActorRecords
<1>3. Session(g)'
  <2>1. DOMAIN toC'[g] = {1} /\ Len(toC'[g]) = 1 /\ toC'[g][1] = Msg("hello", 0)
    <3>1. DOMAIN <<Msg("hello", 0)>> = 1..1 /\ 1..1 = {1} OBVIOUS
    <3> QED BY <1>0, <3>1
  <2>2. \A i \in DOMAIN toC'[g] : toC'[g][i].t = "hello" BY <2>1 DEF Msg
  <2>3. DOMAIN toA'[g] = {} /\ toA'[g] = <<>> BY <1>0
  <2>4. Greeting(g)' BY <1>0, <1>2, <2>1, <2>2, <2>3 DEF Greeting, SnapC, Early
  <2>5. None(toC'[g], UpdC) /\ None(toA'[g], UpdA) /\ None(toA'[g], CmdA)
    BY <2>2, <2>3 DEF None, UpdC
  <2>6. Ordered(g)' BY <2>5, OrderedNone
  <2>7. Stream(g)' BY <2>5, KindsStay DEF Stream, None, One
  <2>8. Flow(g)' /\ Cover(g)' BY <1>2, DeadWire DEF Live
  <2> QED BY <2>4, <2>6, <2>7, <2>8 DEF Session
<1>4. Wired'
  <2> SUFFICES ASSUME NEW h \in Gens PROVE Session(h)' BY DEF Wired
  <2>1. CASE h = g BY <1>3, <2>1
  <2>2. CASE h # g
    <3>1. ~On(h)' BY <1>0, <2>2 DEF On
    <3>2. Session(h) BY <1>1 DEF Wired
    <3> QED BY <1>0, <2>2, <3>1, <3>2, AwaySession
  <2> QED BY <2>1, <2>2
<1>5. Issue'
  <2>1. \A k \in Callers : Onward(call[k], call'[k]) BY <1>0 DEF Onward
  <2>2. call \in [Callers -> Calls] /\ ag'.j.cmds \subseteq db.issued BY <1>0, <1>1 DEF Inv, Typed, Issue
  <2>3. \A h \in Gens : act[h].pc \notin Early => act'[h].pc \notin Early BY <1>0 DEF Early
  <2> QED BY <1>0, <1>1, <2>1, <2>2, <2>3, IssueKeeps
<1>6. Outbox' BY <1>0, <1>1, OutboxSame
<1> QED BY <1>4, <1>5, <1>6 DEF WireInv

---------------------------------------------------------------------------
LEMMA InitWire == ASSUME Init PROVE WireInv
<1> USE DEF Init
<1>1. \A g \in Gens : act[g].pc = "none" BY Fresh
<1>2. \A g \in Gens : ~On(g) /\ ~Live(g) BY <1>1 DEF On, Live
<1>3. \A g \in Gens : DOMAIN toC[g] = {} /\ DOMAIN toA[g] = {} OBVIOUS
<1>4. Wired
  <2> SUFFICES ASSUME NEW g \in Gens PROVE Session(g) BY DEF Wired
  <2>1. Greeting(g) BY <1>1, <1>2, <1>3 DEF Greeting
  <2>2. Ordered(g) /\ Flow(g) /\ Cover(g) BY <1>2 DEF Ordered, Flow, Cover
  <2>3. Stream(g) BY <1>2, <1>3 DEF Stream, One
  <2> QED BY <2>1, <2>2, <2>3 DEF Session
<1>5. \A k \in Callers : call[k].pc = "idle" BY DEF Resting
<1>6. ag.out = <<>> /\ ag.j.cmds = {} /\ ~ag.j.done BY DEF NoJournal
<1>7. Issue BY <1>5, <1>6 DEF Issue
<1>8. DOMAIN ag.out = {} BY <1>6
<1>9. Outbox BY <1>6, <1>8 DEF Outbox
<1> QED BY <1>4, <1>7, <1>9 DEF WireInv

LEMMA NextWire == ASSUME OneCaller, Cmds # {}, Inv, BeatInv, WireInv, Next PROVE WireInv'
<1>1. ASSUME NEW g \in Gens, Reader(g) \/ LeaseElapses(g) \/ ExpireReadiness(g) PROVE WireInv'
  <2>1. CASE ReadHello(g) BY <2>1, ReadHelloCases, MildWire, GreetsWire
  <2>2. CASE BeginProjection(g) BY <2>2, BeginProjectionCases, MildWire, ProjectsWire
  <2>3. CASE HandleAgentSnapshot(g) BY <2>3, HandleAgentSnapshotCases, MildWire, CommitsWire
  <2>4. CASE RecordProjection(g) BY <2>4, RecordProjectionCases, MildWire, RecordsWire
  <2>5. CASE MarkReady(g) BY <2>5, MarkReadyCases, MildWire, MarksWire
  <2>6. CASE HandleHeartbeat(g) BY <2>6, HandleHeartbeatCases, MildWire, HearsWire
  <2>7. CASE HandleCommandAck(g) BY <2>7, HandleCommandAckCases, MildWire, LearnsWire
  <2>8. CASE HandleExecutionUpdate(g) BY <2>8, HandleExecutionUpdateCases, MildWire, TakesWire
  <2>9. CASE ReadFails(g) BY <2>9, ReadFailsMild, MildWire
  <2>10. CASE EndSnapshotCapture(g) BY <2>10, EndSnapshotCaptureMild, MildWire
  <2>11. CASE Deactivate(g) BY <2>11, DeactivateMild, MildWire
  <2>12. CASE CommitDisconnect(g) BY <2>12, CommitDisconnectMild, MildWire
  <2>13. CASE FinishDisconnect(g) BY <2>13, FinishDisconnectMild, MildWire
  <2>14. CASE LeaseElapses(g) BY <2>14, LeaseElapsesMild, MildWire
  <2>15. CASE ExpireReadiness(g) BY <2>15, ExpireReadinessMild, MildWire
  <2> QED BY <1>1, <2>1, <2>2, <2>3, <2>4, <2>5, <2>6, <2>7, <2>8, <2>9, <2>10, <2>11, <2>12, <2>13,
             <2>14, <2>15 DEF Reader
<1>2. ASSUME NEW k \in Callers, BeginCall(k) \/ Caller(k) PROVE WireInv'
  <2>1. CASE BeginCall(k) BY <2>1, BeginCallWire
  <2>2. CASE BeginCommandDispatch(k) BY <2>2, BeginCommandDispatchMild, MildWire
  <2>3. CASE RegisterCommand(k) BY <2>3, RegisterCommandCases, MildWire, RegistersWire
  <2>4. CASE WriteCommand(k) BY <2>4, WriteCommandCases, MildWire, SendsWire
  <2>5. CASE AbandonCommand(k) BY <2>5, AbandonCommandMild, MildWire
  <2>6. CASE EndCommandDispatch(k) BY <2>6, EndCommandDispatchMild, MildWire
  <2> QED BY <1>2, <2>1, <2>2, <2>3, <2>4, <2>5, <2>6 DEF Caller
<1>3. CASE AgentStep
  <2>1. CASE AgentSnapshot BY <2>1, AgentSnapshotDoes, PresentsWire
  <2>2. CASE AgentSendsUpdate BY <2>2, AgentSendsUpdateDoes, TellsWire
  <2>3. CASE AgentReadsAck
    BY <2>3, AgentReadsAckDoes, OpensWire, ConfirmsWire, ClearsWire, LeavesWire
  <2>4. CASE AgentCommand BY <2>4, AgentCommandDoes, EntersWire
  <2>5. CASE AgentSeesEnd BY <2>5, ConnectionEndsDoes, LeavesWire
  <2> QED BY <1>3, <2>1, <2>2, <2>3, <2>4, <2>5 DEF AgentStep
<1>4. CASE Dial BY <1>4, DialDoes, DialsWire
<1>5. CASE AgentHeartbeat BY <1>5, AgentHeartbeatDoes, BeatingWire, LeavesWire
<1>6. CASE AgentFinishes BY <1>6, AgentFinishesDoes, FinishingWire
<1>7. CASE Break BY <1>7, ConnectionEndsDoes, LeavesWire
<1>8. CASE SetAvailability \/ SetIntent BY <1>8, OwnerDoes, DecidesWire
<1>9. CASE CloseBroker BY <1>9, CloseBrokerMild, MildWire
<1> QED BY <1>1, <1>2, <1>3, <1>4, <1>5, <1>6, <1>7, <1>8, <1>9 DEF Next

LEMMA StutterWire == ASSUME Inv, WireInv, UNCHANGED vars PROVE WireInv'
<1>1. Decides BY DEF vars, Decides, Alone
<1> QED BY <1>1, DecidesWire

LEMMA Known == ASSUME Inv, WireInv PROVE UpdatesAreKnown
<1> SUFFICES ASSUME NEW g \in Gens, act[g].pc = "run", ~act[g].term, toC[g] # <<>>,
                    Head(toC[g]).t \in {"open", "done"}
             PROVE  \/ act[g].pend.cmd = Head(toC[g]).of /\ act[g].pend.acked
                    \/ Head(toC[g]).of \in act[g].known
  BY DEF UpdatesAreKnown
<1>1. toC[g] \in Seq(Reports) BY DEF Inv, Typed
<1>2. /\ 1 \in DOMAIN toC[g] /\ Head(toC[g]) = toC[g][1] /\ Head(toC[g]) \in Reports
      /\ DOMAIN toC[g] = 1..Len(toC[g])
  BY <1>1, TailOf
<1>3. toC[g][1] \in UpdC BY <1>2 DEF UpdC
<1>4. Live(g) BY DEF Live
<1>5. PICK c : c = Head(toC[g]).of OBVIOUS
<1>6. Covered(g, c, 1 - 1) BY <1>2, <1>3, <1>4, <1>5 DEF WireInv, Wired, Session, Cover
<1>7. ~Acked(g, c, 1 - 1)
  <2> SUFFICES ASSUME NEW j \in DOMAIN toC[g], j <= 1 - 1 PROVE FALSE BY DEF Acked
  <2>1. PICK n : n = Len(toC[g]) OBVIOUS
  <2>2. j \in 1..n BY <1>2, <2>1
  <2> QED BY <2>2
<1> QED BY <1>5, <1>6, <1>7 DEF Covered

\* A heartbeat is acknowledged only when the store holds the owner's intent it carried
\* (handleHeartbeat, adoptOwnerStateUnderLifecycle), for any number of connections,
\* callers, commands and events.
THEOREM ConfirmationsAreDurable == Spec => []ConfirmedIsDurable
BY BeatInvariant, Confirmed, PTL

\* Commands, snapshots, updates and acknowledgements of overlapping sessions do not take
\* each other's place: besides the parts proved above, no update the Agent has queued,
\* in this session or an earlier one, ends the session that reads it because its command
\* is unknown (handleExecutionUpdate).  The node's execution has one coordinator that
\* sends its commands (driveMu) and at least one command.
THEOREM UpdatesFindTheirCommand == ASSUME OneCaller, Cmds # {} PROVE Spec => []SessionsDoNotMix
<1>1. Inv /\ BeatInv /\ WireInv /\ [Next]_vars => WireInv' BY NextWire, StutterWire
<1>2. Init => WireInv BY InitWire
<1>3. Spec => []WireInv BY <1>1, <1>2, BeatInvariant, PTL DEF Spec
<1>4. Inv /\ WireInv => UpdatesAreKnown BY Known
<1>5. Spec => []UpdatesAreKnown BY <1>3, <1>4, Invariant, PTL
<1>6. TypeOK /\ DispatchExcludesProjection /\ DispatchPinsSession /\ UpdatesAreKnown
        /\ ConfirmedIsDurable => SessionsDoNotMix
  BY DEF SessionsDoNotMix
<1> QED BY <1>5, <1>6, CommandsAreAlone, ConfirmationsAreDurable, PTL

=============================================================================
