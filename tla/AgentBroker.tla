----------------------------- MODULE AgentBroker -----------------------------
(***************************************************************************)
(* The Controller's side of the Agent sessions of one node                 *)
(* (internal/app/agent_broker.go) against the Agent's session loop         *)
(* (internal/app/agent.go).  Each connection has an actor numbered by its  *)
(* generation; its reader, its readiness timer, the callers that send      *)
(* commands and the disconnect projection are goroutines.  The per-node    *)
(* lifecycle lock is held over a snapshot projection and taken for one step*)
(* everywhere else.  A connection breaks for the two ends separately: the  *)
(* Agent dials again while its old actor may still be reading what was     *)
(* sent before.                                                            *)
(***************************************************************************)
EXTENDS Naturals, Sequences, FiniteSets

CONSTANTS
    Callers,        \* coordinators that may send a command to this node
    Cmds,           \* commands of the node's execution, in order: 1..n
    MaxGen,         \* bound: connections
    MaxEvents       \* bound: heartbeats, breaks, owner and runtime changes

ASSUME BrokerConstants ==
    /\ IsFiniteSet(Callers) /\ IsFiniteSet(Cmds) /\ Cmds = 1..Cardinality(Cmds)
    /\ MaxGen \in Nat \ {0} /\ MaxEvents \in Nat

Gens == 1..MaxGen

VARIABLES
    b,              \* AgentBroker: session, projected, capture, seq, inFlight,
                    \*   disc (disconnectProjections), derr, closed, lock, gen
    act,            \* agentSessionActor of each generation
    call,           \* callers inside sendCommandWithAuthority
    db,             \* what the consumers made durable
    ag,             \* the Agent
    up,             \* connections both ends believe in
    toC, toA,       \* messages under way
    events

vars == <<b, act, call, db, ag, up, toC, toA, events>>

---------------------------------------------------------------------------
NoJournal == [cmds |-> {}, done |-> FALSE]
NoSnap    == [j |-> NoJournal, nat |-> FALSE, own |-> 0]
NoPend    == [cmd |-> 0, acked |-> FALSE]
Digest(s) == s.j                    \* AgentSnapshotDigest covers the journal only
NoCapture == [g |-> 0, seq |-> 0, busy |-> FALSE]
NewActor  == [pc |-> "none", term |-> FALSE, ready |-> FALSE, snap |-> NoSnap, lease |-> 0,
              timer |-> 0, fired |-> {}, pend |-> NoPend, known |-> {}]
Gone      == [NewActor EXCEPT !.pc = "closed", !.term = TRUE]
Resting   == [pc |-> "idle", g |-> 0, cmd |-> 0, replay |-> FALSE, dig |-> NoJournal]

Init ==
    /\ b = [session |-> 0, projected |-> 0, capture |-> NoCapture, seq |-> 0, inFlight |-> 0,
            disc |-> 0, derr |-> FALSE, closed |-> FALSE, lock |-> 0, gen |-> 0]
    /\ act = [g \in Gens |-> NewActor]
    /\ call = [k \in Callers |-> Resting]
    /\ db = [snap |-> NoSnap, gen |-> 0, issued |-> {}, open |-> {}, done |-> FALSE]
    /\ ag = [pc |-> "off", g |-> 0, j |-> NoJournal, out |-> <<>>, own |-> 1,
             dur |-> 1, req |-> {}, hb |-> 0, upd |-> FALSE, conf |-> 0]
    /\ up = [g \in Gens |-> FALSE]
    /\ toC = [g \in Gens |-> <<>>] /\ toA = [g \in Gens |-> <<>>]
    /\ events = 0

Event == events < MaxEvents /\ events' = events + 1
Send(q, g, m) == [q EXCEPT ![g] = IF up[g] THEN Append(@, m) ELSE @]
Msg(t, of)    == [t |-> t, of |-> of, s |-> NoSnap]

\* terminate: once; the pending command gets its error.
Terminate(x) == [x EXCEPT !.term = TRUE, !.timer = 0, !.pend = NoPend]
EndReader(x) == [Terminate(x) EXCEPT !.pc = "ret"]

\* currentProjectedActor, and the first half of beginCommandDispatch.
Current(g) ==
    /\ ~b.closed /\ b.session = g /\ b.projected = g
    /\ act[g].ready /\ ~act[g].term

---------------------------------------------------------------------------
(* One session, from Hello to ready *)

\* A projection only moves to a later connection.
Supersedes(g) == g > b.projected

\* readHello and beginSnapshotCapture: the command sequence is noted before the
\* Agent is told to build its snapshot, and an older capture is ended.
ReadHello(g) ==
    /\ act[g].pc = "hello" /\ b.lock = 0 /\ toC[g] # <<>> /\ ~act[g].term
    /\ toC' = [toC EXCEPT ![g] = Tail(@)]
    /\ IF b.closed \/ b.disc # 0 \/ ~Supersedes(g) \/ b.capture.g >= g
       THEN /\ act' = [act EXCEPT ![g] = EndReader(@)]
            /\ UNCHANGED <<b, toA>>
       ELSE /\ b' = [b EXCEPT !.capture = [g |-> g, seq |-> b.seq, busy |-> b.inFlight # 0]]
            /\ act' = [h \in Gens |-> IF h = g THEN [act[h] EXCEPT !.pc = "captured"]
                                      ELSE IF h = b.capture.g THEN Terminate(act[h]) ELSE act[h]]
            /\ toA' = Send(toA, g, Msg("ack", "hello"))
    /\ UNCHANGED <<call, db, ag, up, events>>

\* mayProject, under the lifecycle lock; the snapshot may have been read before
\* the session was ended.
MayProject(g) ==
    /\ ~b.closed /\ b.capture.g = g /\ ~b.capture.busy
    /\ b.inFlight = 0 /\ b.capture.seq = b.seq
    /\ Supersedes(g)
BeginProjection(g) ==
    /\ act[g].pc = "captured" /\ b.lock = 0 /\ toC[g] # <<>>
    /\ toC' = [toC EXCEPT ![g] = Tail(@)]
    /\ IF MayProject(g)
       THEN /\ b' = [b EXCEPT !.lock = g]
            /\ act' = [act EXCEPT ![g].pc = "locked", ![g].snap = Head(toC[g]).s]
       ELSE act' = [act EXCEPT ![g] = EndReader(@)] /\ UNCHANGED b
    /\ UNCHANGED <<call, db, ag, up, toA, events>>

\* HandleAgentSnapshot commits the snapshot, or the store refuses it.
HandleAgentSnapshot(g) ==
    /\ act[g].pc = "locked"
    /\ \/ /\ db' = [db EXCEPT !.snap = act[g].snap, !.gen = g]
          /\ act' = [act EXCEPT ![g].pc = "stored"] /\ UNCHANGED <<b, events>>
       \/ /\ Event
          /\ act' = [act EXCEPT ![g] = EndReader(@)]
          /\ b' = [b EXCEPT !.lock = 0] /\ UNCHANGED db
    /\ UNCHANGED <<call, ag, up, toC, toA>>

\* replaceReadinessStateLocked and armReadinessLeaseLocked.
Arm(x)        == [x EXCEPT !.lease = @ + 1, !.timer = x.lease + 1]
SetReady(x, r) == LET y == [x EXCEPT !.lease = @ + 1, !.timer = 0, !.snap.nat = r]
                  IN IF r THEN Arm(y) ELSE y

\* beginDisconnectProjectionUnderLifecycle: one projection of the node at a time.
MayDisconnect(g) == b.disc = 0

\* recordProjection and activate: the session replaces its predecessor, or, when
\* the broker was closed meanwhile, the snapshot it has just made durable is
\* withdrawn by a disconnect projection.
RecordProjection(g) ==
    /\ act[g].pc = "stored"
    /\ IF ~b.closed
       THEN /\ b' = [b EXCEPT !.projected = g, !.session = g, !.capture = NoCapture, !.lock = 0]
            /\ act' = [h \in Gens |->
                 IF h = g THEN [SetReady(act[g], act[g].snap.nat) EXCEPT
                                  !.pc = "active", !.known = act[g].snap.j.cmds]
                 ELSE IF h = b.session THEN Terminate(act[h]) ELSE act[h]]
       ELSE /\ b' = [b EXCEPT !.disc = IF MayDisconnect(g) THEN g ELSE @,
                              !.derr = @ \/ b.disc # 0, !.lock = 0]
            /\ act' = [act EXCEPT ![g] = [Terminate(@) EXCEPT
                         !.pc = IF MayDisconnect(g) THEN "disc" ELSE "ret"]]
    /\ UNCHANGED <<call, db, ag, up, toC, toA, events>>

\* The acknowledgement is written outside the lock (and fails when the connection
\* is known to be broken), then markReady.
MarkReady(g) ==
    /\ act[g].pc = "active"
    /\ \/ /\ act[g].term \/ b.closed \/ b.session # g \/ ~up[g]
          /\ act' = [act EXCEPT ![g] = EndReader(@)] /\ UNCHANGED <<b, toA>>
       \/ /\ ~act[g].term /\ ~b.closed /\ b.session = g
          /\ act' = [act EXCEPT ![g].pc = "run", ![g].ready = TRUE]
          /\ toA' = Send(toA, g, Msg("ack", "snap"))
          /\ b' = [b EXCEPT !.derr = FALSE]
    /\ UNCHANGED <<call, db, ag, up, toC, events>>

---------------------------------------------------------------------------
(* The reader of an active session *)

\* adoptOwnerStateUnderLifecycle: a heartbeat that repeats the session's last known
\* intent is no change.
OwnerChanged(x, m) == x.snap.own # m.own

\* adoptNodeOwnerState, for the snapshot row the authority names.
AdoptWhenReady(own, x, m) ==         \* mutant: taken from healthy heartbeats only
    IF m.nat THEN m.own ELSE own
AdoptOwnerState(own, x, m) == IF OwnerChanged(x, m) THEN m.own ELSE own

\* RecordAgentReadiness and RecordNodeOwnerState both require the committed
\* snapshot to be the one this session projected.
SnapshotAuthority(x) == Digest(db.snap) = Digest(x.snap)

\* handleHeartbeat: readiness moves by a compare-and-swap on the session's own
\* journal, an equal readiness renews the lease, and an owner change is durable
\* before it is acknowledged.  A change the store refuses ends the session.
HandleHeartbeat(g) ==
    /\ act[g].pc = "run" /\ b.lock = 0 /\ toC[g] # <<>> /\ Head(toC[g]).t = "hb"
    /\ toC' = [toC EXCEPT ![g] = Tail(@)]
    /\ LET m == Head(toC[g]).s
           x == act[g]
           change == x.snap.nat # m.nat \/ OwnerChanged(x, m) IN
       \/ /\ Current(g) /\ (change => SnapshotAuthority(x))
          /\ db' = [db EXCEPT !.snap.nat = IF x.snap.nat # m.nat THEN m.nat ELSE @,
                                !.snap.own = AdoptOwnerState(@, x, m)]
          /\ act' = [act EXCEPT ![g] =
               [(IF x.snap.nat # m.nat THEN SetReady(x, m.nat)
                 ELSE IF m.nat THEN Arm(x) ELSE x) EXCEPT !.snap.own = m.own]]
          /\ toA' = Send(toA, g, Msg("ack", "hb")) /\ UNCHANGED events
       \/ /\ IF Current(g) THEN change /\ Event ELSE UNCHANGED events
          /\ act' = [act EXCEPT ![g] = EndReader(@)] /\ UNCHANGED <<db, toA>>
    /\ UNCHANGED <<b, call, ag, up>>

\* time.AfterFunc: the armed timer fires and its goroutine waits for the lock.
LeaseElapses(g) ==
    /\ act[g].timer # 0 /\ Event
    /\ act' = [act EXCEPT ![g].fired = @ \cup {act[g].timer}, ![g].timer = 0]
    /\ UNCHANGED <<b, call, db, ag, up, toC, toA>>

\* expireReadiness: memory first, then the store; a failed commit ends the session.
AnyLease(g, n) == TRUE               \* mutant: an old timer counts
LeaseBefore(g, n) == act[g].lease = n + 1   \* mutant: the lease before this one
LeaseIs(g, n)  == act[g].lease = n
ExpireReadiness(g) ==
    /\ b.lock = 0
    /\ \E n \in act[g].fired :
         LET x == [act[g] EXCEPT !.fired = @ \ {n}] IN
         IF ~Current(g) \/ ~LeaseIs(g, n) \/ ~x.snap.nat
         THEN act' = [act EXCEPT ![g] = x] /\ UNCHANGED <<db, events>>
         ELSE \/ /\ Digest(db.snap) = Digest(x.snap)
                 /\ act' = [act EXCEPT ![g] = SetReady(x, FALSE)]
                 /\ db' = [db EXCEPT !.snap.nat = FALSE] /\ UNCHANGED events
              \/ /\ Event
                 /\ act' = [act EXCEPT ![g] = Terminate(SetReady(x, FALSE))] /\ UNCHANGED db
    /\ UNCHANGED <<b, call, ag, up, toC, toA>>

\* handleCommandAck
HandleCommandAck(g) ==
    /\ act[g].pc = "run" /\ toC[g] # <<>> /\ Head(toC[g]).t = "ack" /\ ~act[g].term
    /\ toC' = [toC EXCEPT ![g] = Tail(@)]
    /\ act' = [act EXCEPT ![g] =
         IF @.pend.cmd = Head(toC[g]).of /\ ~@.pend.acked THEN [@ EXCEPT !.pend.acked = TRUE]
         ELSE EndReader(@)]
    /\ UNCHANGED <<b, call, db, ag, up, toA, events>>

\* handleExecutionUpdate: committed, acknowledged, and only then the caller is
\* answered; the commands of a finished execution are forgotten.  The update may
\* have been read before the session was ended: it is committed, not acknowledged.
KnownAfter(known, m) == IF m.t = "done" THEN {} ELSE known \cup {m.of}
Updated(x, m, first) ==
    IF x.term THEN EndReader(x)
    ELSE [x EXCEPT !.known = KnownAfter(x.known, m), !.pend = IF first THEN NoPend ELSE x.pend]
HandleExecutionUpdate(g) ==
    /\ act[g].pc = "run" /\ toC[g] # <<>> /\ Head(toC[g]).t \in {"open", "done"}
    /\ toC' = [toC EXCEPT ![g] = Tail(@)]
    /\ LET m == Head(toC[g])
           first == act[g].pend.cmd = m.of
           ok == IF first THEN act[g].pend.acked ELSE m.of \in act[g].known IN
       \/ /\ ok
          /\ db' = [db EXCEPT !.done = @ \/ m.t = "done", !.open = @ \cup {m.of}]
          /\ toA' = IF act[g].term THEN toA ELSE Send(toA, g, Msg("ack", "upd"))
          /\ act' = [act EXCEPT ![g] = Updated(@, m, first)]
          /\ call' = [k \in Callers |->
               IF first /\ call[k].pc = "wait" /\ call[k].g = g
               THEN [call[k] EXCEPT !.pc = "end"] ELSE call[k]]
          /\ UNCHANGED events
       \/ /\ IF ok THEN Event ELSE UNCHANGED events
          /\ act' = [act EXCEPT ![g] = EndReader(@)] /\ UNCHANGED <<db, toA, call>>
    /\ UNCHANGED <<b, ag, up>>

\* The read fails, or the actor has been terminated under it.
ReadFails(g) ==
    /\ act[g].pc \in {"hello", "captured", "run"}
    /\ act[g].term \/ (~up[g] /\ toC[g] = <<>>)
    /\ act' = [act EXCEPT ![g] = EndReader(@)]
    /\ UNCHANGED <<b, call, db, ag, up, toC, toA, events>>

\* run returns: endSnapshotCapture, then deactivate.
EndSnapshotCapture(g) ==
    /\ act[g].pc = "ret" /\ b.lock = 0
    /\ b' = [b EXCEPT !.capture = IF @.g = g THEN NoCapture ELSE @]
    /\ act' = [act EXCEPT ![g].pc = "uncap"]
    /\ toC' = [toC EXCEPT ![g] = <<>>]
    /\ UNCHANGED <<call, db, ag, up, toA, events>>

\* deactivate: only the node's current session has a disconnect to project, and
\* an overlapping one is recorded as an error.
Deactivate(g) ==
    /\ act[g].pc = "uncap" /\ b.lock = 0
    /\ LET mine == b.session = g IN
       /\ b' = [b EXCEPT !.session = IF mine THEN 0 ELSE @,
                         !.disc = IF mine /\ MayDisconnect(g) THEN g ELSE @,
                         !.derr = IF mine /\ b.disc # 0 THEN TRUE ELSE @]
       /\ act' = [act EXCEPT ![g] = IF mine /\ MayDisconnect(g) THEN [@ EXCEPT !.pc = "disc"]
                                    ELSE Gone]
    /\ UNCHANGED <<call, db, ag, up, toC, toA, events>>

\* commitDisconnectProjection: outside the lock, a compare-and-swap on the digest
\* of the journal that activated the session; it fails when another journal is
\* current, when the broker is closed, or when the store refuses it.
CommitDisconnect(g) ==
    /\ act[g].pc = "disc"
    /\ \/ /\ ~b.closed /\ Digest(db.snap) = Digest(act[g].snap)
          /\ db' = [db EXCEPT !.snap.nat = FALSE]
          /\ act' = [act EXCEPT ![g].pc = "withdrawn"]
          /\ UNCHANGED events
       \/ /\ IF b.closed \/ Digest(db.snap) # Digest(act[g].snap) THEN UNCHANGED events ELSE Event
          /\ act' = [act EXCEPT ![g].pc = "kept"] /\ UNCHANGED db
    /\ UNCHANGED <<b, call, ag, up, toC, toA>>
DisconnectFailed(g) == act[g].pc = "kept"
FinishDisconnect(g) ==
    /\ act[g].pc \in {"withdrawn", "kept"} /\ b.lock = 0
    /\ b' = [b EXCEPT !.disc = 0, !.derr = DisconnectFailed(g)]
    /\ act' = [act EXCEPT ![g] = Gone]
    /\ UNCHANGED <<call, db, ag, up, toC, toA, events>>

---------------------------------------------------------------------------
(* Callers: sendCommandWithAuthority *)

\* The next command of the execution, or the last issued one again under the
\* authority of the snapshot that is current now.
NextCmd == {c \in Cmds : c \notin db.issued /\ \A d \in Cmds : d < c => d \in db.issued}
BeginCall(k) ==
    /\ call[k] = Resting /\ ~db.done
    /\ b.session # 0 /\ act[b.session].ready /\ ~act[b.session].term
    /\ \E r \in BOOLEAN, c \in Cmds :
         /\ IF r THEN c \in db.issued \ (db.snap.j.cmds \cup db.open)
            ELSE c \in NextCmd /\ db.issued \subseteq db.open
         /\ call' = [call EXCEPT ![k] = [pc |-> "gate", g |-> b.session, cmd |-> c,
                                         replay |-> r, dig |-> IF r THEN Digest(db.snap) ELSE NoJournal]]
    /\ UNCHANGED <<b, act, db, ag, up, toC, toA, events>>

\* commandGate, ready, beginCommandDispatch
MayDispatch(k) == Current(call[k].g) /\ b.inFlight = 0
BeginCommandDispatch(k) ==
    /\ call[k].pc = "gate" /\ b.lock = 0
    /\ \A o \in Callers : call[o].g = call[k].g => call[o].pc \in {"idle", "gate"}
    /\ IF MayDispatch(k)
       THEN /\ b' = [b EXCEPT !.seq = @ + 1, !.inFlight = call[k].g]
            /\ call' = [call EXCEPT ![k].pc = "disp"]
       ELSE call' = [call EXCEPT ![k] = Resting] /\ UNCHANGED b
    /\ UNCHANGED <<act, db, ag, up, toC, toA, events>>

\* The digest of a replayed action, the pending slot, HandleAgentCommand (which
\* the store may refuse: nothing has been sent then).
RegisterCommand(k) ==
    /\ call[k].pc = "disp"
    /\ LET g == call[k].g
           stale == act[g].term \/ (call[k].replay /\ Digest(act[g].snap) # call[k].dig) IN
       \/ /\ IF stale THEN UNCHANGED events ELSE Event
          /\ call' = [call EXCEPT ![k].pc = "end"] /\ UNCHANGED <<act, db>>
       \/ /\ ~stale
          /\ act' = [act EXCEPT ![g].pend = [cmd |-> call[k].cmd, acked |-> FALSE]]
          /\ db' = [db EXCEPT !.issued = @ \cup {call[k].cmd}]
          /\ call' = [call EXCEPT ![k].pc = "write"] /\ UNCHANGED events
    /\ UNCHANGED <<b, ag, up, toC, toA>>

WriteCommand(k) ==
    /\ call[k].pc = "write"
    /\ LET g == call[k].g IN
       IF up[g] /\ ~act[g].term
       THEN /\ toA' = Send(toA, g, Msg("cmd", call[k].cmd))
            /\ call' = [call EXCEPT ![k].pc = "wait"] /\ UNCHANGED act
       ELSE /\ act' = [act EXCEPT ![g] = Terminate(@)]
            /\ call' = [call EXCEPT ![k].pc = "end"] /\ UNCHANGED toA
    /\ UNCHANGED <<b, db, ag, up, toC, events>>

\* The session ends, or the caller's context: then the session is torn down.
SessionDone(k) == act[call[k].g].term
AbandonCommand(k) ==
    /\ call[k].pc = "wait"
    /\ \/ SessionDone(k) /\ UNCHANGED <<act, events>>
       \/ Event /\ act' = [act EXCEPT ![call[k].g] = Terminate(@)]
    /\ call' = [call EXCEPT ![k].pc = "end"]
    /\ UNCHANGED <<b, db, ag, up, toC, toA>>

EndCommandDispatch(k) ==
    /\ call[k].pc = "end" /\ b.lock = 0
    /\ b' = [b EXCEPT !.inFlight = IF @ = call[k].g THEN 0 ELSE @]
    /\ call' = [call EXCEPT ![k] = Resting]
    /\ UNCHANGED <<act, db, ag, up, toC, toA, events>>

\* Close: the process is ending, and what it no longer answers is left out.
CloseBroker ==
    /\ ~b.closed /\ events < MaxEvents /\ events' = MaxEvents
    /\ b' = [b EXCEPT !.closed = TRUE, !.derr = FALSE, !.inFlight = 0, !.capture = NoCapture]
    /\ act' = [g \in Gens |-> IF g = b.session THEN Terminate(act[g]) ELSE act[g]]
    /\ UNCHANGED <<call, db, ag, up, toC, toA>>

---------------------------------------------------------------------------
(* The Agent: one session after another *)

\* agentAvailability.Accepts: the local half of admission, of the cached intent.
Accepts == ag.own = 1
\* setConnected(false): what the Controller confirmed was this session's.
Offline == [ag EXCEPT !.pc = "off", !.hb = 0, !.conf = 0]

\* Capacity is reported when the native runtime is probed ready and the owner
\* has not stopped the node.
Report(nat) == [j |-> ag.j, nat |-> nat /\ Accepts, own |-> ag.own]

\* dialAgent and serveSession: the connection is accepted and numbered.
Dial ==
    /\ ag.pc = "off" /\ b.gen < MaxGen /\ ~b.closed
    /\ LET g == b.gen + 1 IN
       /\ b' = [b EXCEPT !.gen = g]
       /\ act' = [act EXCEPT ![g].pc = "hello"]
       /\ up' = [up EXCEPT ![g] = TRUE]
       /\ toC' = [toC EXCEPT ![g] = <<Msg("hello", 0)>>]
       /\ ag' = [ag EXCEPT !.pc = "hello", !.g = g, !.hb = 0, !.upd = FALSE]
    /\ UNCHANGED <<call, db, toA, events>>

\* runAgentSessionWithOptions: the snapshot is built after the Hello is acknowledged.
AgentSnapshot ==
    /\ ag.pc = "hello" /\ toA[ag.g] # <<>>
    /\ toA' = [toA EXCEPT ![ag.g] = Tail(@)]
    /\ toC' = Send(toC, ag.g, [Msg("snap", 0) EXCEPT !.s = Report(TRUE)])
    /\ ag' = [ag EXCEPT !.pc = "snap"]
    /\ UNCHANGED <<b, act, call, db, up, events>>

\* runAgentSessionActor: the head of the outbox, when none is unacknowledged.
AgentSendsUpdate ==
    /\ ag.pc = "run" /\ ~ag.upd /\ ag.out # <<>>
    /\ toC' = Send(toC, ag.g, Head(ag.out))
    /\ ag' = [ag EXCEPT !.upd = TRUE]
    /\ UNCHANGED <<b, act, call, db, up, toA, events>>

\* The heartbeat tick; an unacknowledged one ends the session.
AgentHeartbeat ==
    /\ ag.pc = "run" /\ Event
    /\ IF ag.hb # 0
       THEN ag' = Offline /\ up' = [up EXCEPT ![ag.g] = FALSE] /\ UNCHANGED toC
       ELSE /\ \E nat \in BOOLEAN : toC' = Send(toC, ag.g, [Msg("hb", 0) EXCEPT !.s = Report(nat)])
            /\ ag' = [ag EXCEPT !.hb = ag.own] /\ UNCHANGED up
    /\ UNCHANGED <<b, act, call, db, toA>>

\* Acknowledgements: the snapshot's opens the loop, a heartbeat's confirms the
\* owner's intent, an update's removes it and prunes what is finished.  One that
\* the Agent does not wait for ends the session.
Awaited(of) ==
    CASE ag.pc = "snap"             -> of = "snap"
      [] ag.pc = "run" /\ of = "hb" -> ag.hb # 0
      [] OTHER                      -> of = "upd" /\ ag.upd
Acknowledged(of) ==
    CASE of = "snap" -> [ag EXCEPT !.pc = "run"]
      [] of = "hb"   -> [ag EXCEPT !.conf = ag.hb, !.hb = 0]
      [] OTHER       -> [ag EXCEPT !.upd = FALSE, !.out = Tail(@),
                                   !.j = IF Head(ag.out).t = "done" THEN NoJournal ELSE @]
AgentReadsAck ==
    /\ ag.pc \in {"snap", "run"} /\ toA[ag.g] # <<>> /\ Head(toA[ag.g]).t = "ack"
    /\ LET of == Head(toA[ag.g]).of IN
       /\ ag' = IF Awaited(of) THEN Acknowledged(of) ELSE Offline
       /\ up' = [up EXCEPT ![ag.g] = @ /\ Awaited(of)]
       /\ toA' = [toA EXCEPT ![ag.g] = IF Awaited(of) THEN Tail(@) ELSE <<>>]
    /\ UNCHANGED <<b, act, call, db, toC, events>>

\* dispatchAgentCommand: journaled, acknowledged, then reported; an exact replay
\* is reported again.
AgentCommand ==
    /\ ag.pc = "run" /\ toA[ag.g] # <<>> /\ Head(toA[ag.g]).t = "cmd"
    /\ toA' = [toA EXCEPT ![ag.g] = Tail(@)]
    /\ LET c == Head(toA[ag.g]).of
           u == Msg(IF ag.j.done THEN "done" ELSE "open", c) IN
       /\ ag' = [ag EXCEPT !.j.cmds = @ \cup {c},
                           !.out = IF \E i \in DOMAIN @ : @[i] = u THEN @ ELSE Append(@, u)]
       /\ toC' = Send(toC, ag.g, Msg("ack", c))
    /\ UNCHANGED <<b, act, call, db, up, events>>

\* The last command's runner finishes; its update is queued behind the others.
AgentFinishes ==
    /\ Cmds \subseteq ag.j.cmds /\ ~ag.j.done /\ \A i \in DOMAIN ag.out : ag.out[i].t # "done"
    /\ ag' = [ag EXCEPT !.j.done = TRUE, !.out = Append(@, Msg("done", Cardinality(Cmds)))]
    /\ UNCHANGED <<b, act, call, db, up, toC, toA, events>>

\* The connection breaks; the Agent's end sees it at once, the actor when it
\* has read what was sent before.
Break ==
    /\ ag.pc # "off" /\ Event
    /\ up' = [up EXCEPT ![ag.g] = FALSE] /\ toA' = [toA EXCEPT ![ag.g] = <<>>]
    /\ ag' = Offline
    /\ UNCHANGED <<b, act, call, db, toC>>
\* The actor has been terminated and its connection is closed for the Agent.
AgentSeesEnd ==
    /\ ag.pc # "off" /\ act[ag.g].term
    /\ up' = [up EXCEPT ![ag.g] = FALSE] /\ toA' = [toA EXCEPT ![ag.g] = <<>>]
    /\ ag' = Offline
    /\ UNCHANGED <<b, act, call, db, toC, events>>

\* SetAvailability: a node-control request of the owner stops the node or resumes it,
\* durably; requests are served concurrently.
SetAvailability ==
    /\ Event
    /\ \E v \in {1, 2} \ {ag.dur} : ag' = [ag EXCEPT !.dur = v, !.req = @ \cup {v}]
    /\ UNCHANGED <<b, act, call, db, up, toC, toA>>

\* SetIntent, after its write: the cached record heartbeats carry.
SetIntent ==
    /\ \E v \in ag.req :
         ag' = [ag EXCEPT !.own = v, !.req = @ \ {v}, !.conf = IF @ = v THEN v ELSE 0]
    /\ UNCHANGED <<b, act, call, db, up, toC, toA, events>>

---------------------------------------------------------------------------
Reader(g) ==
    \/ ReadHello(g) \/ BeginProjection(g) \/ HandleAgentSnapshot(g) \/ RecordProjection(g)
    \/ MarkReady(g) \/ HandleHeartbeat(g) \/ HandleCommandAck(g) \/ HandleExecutionUpdate(g)
    \/ ReadFails(g) \/ EndSnapshotCapture(g) \/ Deactivate(g)
    \/ CommitDisconnect(g) \/ FinishDisconnect(g)
Caller(k) ==
    \/ BeginCommandDispatch(k) \/ RegisterCommand(k) \/ WriteCommand(k)
    \/ AbandonCommand(k) \/ EndCommandDispatch(k)
AgentStep == AgentSnapshot \/ AgentSendsUpdate \/ AgentReadsAck \/ AgentCommand \/ AgentSeesEnd

Next ==
    \/ \E g \in Gens : Reader(g) \/ LeaseElapses(g) \/ ExpireReadiness(g)
    \/ \E k \in Callers : BeginCall(k) \/ Caller(k)
    \/ AgentStep \/ Dial \/ AgentHeartbeat \/ AgentFinishes \/ Break
    \/ SetAvailability \/ SetIntent
    \/ CloseBroker

\* Goroutines are scheduled, and the Agent's loop reads and dials again.  No
\* fairness is given to time, to breaks, or to the caller's context.
Fairness ==
    /\ \A g \in Gens : WF_vars(Reader(g)) /\ WF_vars(ExpireReadiness(g))
    /\ \A k \in Callers : WF_vars(Caller(k))
    /\ WF_vars(AgentStep) /\ WF_vars(Dial)
Spec == Init /\ [][Next]_vars /\ Fairness

---------------------------------------------------------------------------
(* Properties *)

\* Generations, actors and messages have their types, and a timer that runs is the
\* one of the actor's current lease (setReady).
TypeOK ==
    /\ {b.session, b.projected, b.capture.g, b.inFlight, b.disc, b.lock, b.gen} \subseteq 0..MaxGen
    /\ \A g \in Gens :
         /\ act[g].pc \in {"none", "hello", "captured", "locked", "stored", "active", "run", "ret",
                           "uncap", "disc", "withdrawn", "kept", "closed"}
         /\ act[g].known \subseteq Cmds /\ act[g].pend.cmd \in Cmds \cup {0}
         /\ act[g].timer \in {0, act[g].lease}
    /\ db.issued \subseteq Cmds /\ ag.j.cmds \subseteq Cmds
    /\ {ag.own, ag.dur} \cup ag.req \subseteq {1, 2} /\ ag.conf \in {0, 1, 2}

\* A snapshot and a command never cross: while a command is being committed or
\* written no other session's snapshot is being projected, so no snapshot that
\* misses the command can become the node's journal after the command's row.
DispatchExcludesProjection ==
    ~b.closed => \A k \in Callers, g \in Gens :
        call[k].pc \in {"disp", "write", "wait"} /\ act[g].pc \in {"locked", "stored"}
            => call[k].g = g

\* The session that is current when a caller starts its dispatch stays the
\* newest projected one until the dispatch ends, and no other command of the
\* session is pending: a command is never committed for a session that another
\* one has replaced, and never takes another one's answer.
DispatchPinsSession ==
    ~b.closed => \A k \in Callers : call[k].pc \in {"disp", "write", "wait"}
        => /\ b.projected = call[k].g
           /\ act[call[k].g].pend.cmd \in {0, call[k].cmd}

\* The journal the store holds is never replaced by one of an older connection,
\* whatever order delayed handshakes are read in.
NewestJournal == [][db'.gen >= db.gen]_vars

\* A session is never ended because the Controller does not know the command of
\* an update the Agent has queued, even when the update was queued in an
\* earlier session, behind others, or after its own command was answered.
UpdatesAreKnown ==
    \A g \in Gens : act[g].pc = "run" /\ ~act[g].term /\ toC[g] # <<>>
                    /\ Head(toC[g]).t \in {"open", "done"}
        => \/ act[g].pend.cmd = Head(toC[g]).of /\ act[g].pend.acked
           \/ Head(toC[g]).of \in act[g].known

\* A readiness timer that a later heartbeat has overtaken never takes the node
\* out of capacity, although its goroutine may have been waiting for the lock.
RenewedLeaseHolds ==
    [][\A g \in Gens :
         act[g].timer # 0 /\ act[g].snap.nat /\ toC' = toC /\ ~act'[g].term
            => act'[g].snap.nat]_vars

\* A lease that runs out in an acknowledged session is noticed: unless a
\* heartbeat renews it or the session ends, the session stops advertising its
\* runner.  (One that runs out before markReady is dropped: see the README.)
LeaseRevokes ==
    \A g \in Gens : (act[g].ready /\ act[g].lease \in act[g].fired)
        ~> (act[g].timer # 0 \/ act[g].term \/ ~act[g].snap.nat)

\* A heartbeat is acknowledged only when the store holds the owner's intent that it
\* carried, although the owner may have changed it again and an older session's
\* withdrawal may still be under way.
ConfirmedIsDurable ==
    ag.pc = "run" /\ toA[ag.g] # <<>> /\ Head(toA[ag.g]) = Msg("ack", "hb")
        => db.snap.own = ag.hb

\* A caller inside a dispatch returns when its session has ended, and the node
\* accepts a new dispatch then: nobody waits for the answer of a dead session.
CallersReturn ==
    \A k \in Callers : (call[k].pc # "idle" /\ act[call[k].g].term) ~> call[k].pc = "idle"

\* When the newest session's disconnect is being projected its readiness is
\* withdrawn from the store, unless another session took over, the broker
\* closed, or the withdrawal failed and says so.
OfflineConverges ==
    (b.disc # 0 /\ b.disc = b.projected)
        ~> (~db.snap.nat \/ b.session # 0 \/ b.closed \/ b.derr)

\* Commands, snapshots, updates and acknowledgements of overlapping sessions do not
\* take each other's place.
SessionsDoNotMix ==
    /\ TypeOK
    /\ DispatchExcludesProjection
    /\ DispatchPinsSession
    /\ UpdatesAreKnown
    /\ ConfirmedIsDurable

\* What is late loses: an older connection's journal and an older lease's timer.
NewestWins == NewestJournal /\ RenewedLeaseHolds

\* A session that has gone leaves nothing behind: no lease, no caller, no readiness.
SessionsEnd == LeaseRevokes /\ CallersReturn /\ OfflineConverges

=============================================================================
