---------------------------- MODULE ControllerFleet ----------------------------
(***************************************************************************)
(* The fleet of runner coordinators (internal/app/controller_fleet.go)     *)
(* beside the management plane: one worker per Target that the database    *)
(* calls for, each with at most one GitHub message session of the Target's *)
(* scale set, while administrators add, change and remove Targets and the  *)
(* process is shut down, crashes and comes back.                           *)
(***************************************************************************)
EXTENDS Management

VARIABLES
    fl,             \* ControllerFleet: pc of Run, want, stale, map (workers), err, ret;
                    \*   cancelled: the context of ServeController
    w               \* worker goroutines: two slots per Target

fvars == <<mvars, fl, w>>

Slots  == 1..2
NoVal  == 2                    \* a Target that does not resolve
NoWant == [t \in Targets |-> NoVal]
NoWork == [pc |-> "none", val |-> NoVal, cancel |-> FALSE]
Idle   == [t \in Targets |-> [i \in Slots |-> NoWork]]
FleetDown == [pc |-> "down", want |-> NoWant, stale |-> {}, map |-> [t \in Targets |-> 0],
              err |-> FALSE, ret |-> FALSE, cancelled |-> FALSE]

FleetInit == Init /\ fl = FleetDown /\ w = Idle

---------------------------------------------------------------------------
(* What the database calls for *)

\* resolveTarget: configured, bound and its provisioning committed.  The value is
\* the version policy; the several reads linearize at the first of them.
Resolve(t) == IF t \in db.tgts /\ db.intent[t] = "committed" THEN db.pol[t] ELSE NoVal
DesiredTargets == [t \in Targets |-> Resolve(t)]

Keeps(t, i, want) == want[t] # NoVal /\ want[t] = w[t][i].val

---------------------------------------------------------------------------
(* Run *)

ServeFleet ==
    /\ mem.up /\ fl.pc = "down"
    /\ fl' = [FleetDown EXCEPT !.pc = "reconcile"]
    /\ UNCHANGED <<mvars, w>>

\* The context of ServeController ends.
Shutdown ==
    /\ fl.pc \notin {"down", "returned"} /\ ~fl.cancelled /\ Event
    /\ fl' = [fl EXCEPT !.cancelled = TRUE]
    /\ UNCHANGED <<db, mem, adm, enr, ag, ses, quar, gh, given, w>>

Workers == {<<t, fl.map[t]>> : t \in {u \in Targets : fl.map[u] # 0}}

\* Run returns shutdownResult, evaluated before the deferred stopAll: stopAll takes
\* every worker out of the map and cancels it.
StopAll ==
    /\ fl' = [fl EXCEPT !.pc = "stopall", !.want = NoWant, !.ret = fl.err,
                        !.stale = Workers, !.map = [t \in Targets |-> 0]]
    /\ w' = [t \in Targets |-> [i \in Slots |->
                IF <<t, i>> \in Workers /\ w[t][i] # NoWork
                THEN [w[t][i] EXCEPT !.cancel = TRUE] ELSE w[t][i]]]

\* reconcile, first part: the stale workers leave the map under the lock.
ReadDesired ==
    /\ fl.pc = "reconcile"
    /\ IF fl.cancelled THEN StopAll
       ELSE LET stale == {x \in Workers : ~Keeps(x[1], x[2], DesiredTargets)} IN
            /\ fl' = [fl EXCEPT !.pc = "stop", !.want = DesiredTargets, !.stale = stale,
                          !.map = [t \in Targets |-> IF <<t, @[t]>> \in stale THEN 0 ELSE @[t]]]
            /\ UNCHANGED w
    /\ UNCHANGED mvars

DesiredUnreadable ==
    /\ fl.pc = "reconcile" /\ ~fl.cancelled /\ Event
    /\ fl' = [fl EXCEPT !.pc = "wait"]
    /\ UNCHANGED <<db, mem, adm, enr, ag, ses, quar, gh, given, w>>

WorkerDone(x) == w[x[1]][x[2]] = NoWork

\* cancel and <-done, one stale worker after the other.
CancelStale ==
    /\ fl.pc = "stop"
    /\ \E x \in fl.stale :
        /\ \A y \in fl.stale : x[1] <= y[1]
        /\ ~w[x[1]][x[2]].cancel /\ ~WorkerDone(x)
        /\ w' = [w EXCEPT ![x[1]][x[2]].cancel = TRUE]
    /\ UNCHANGED <<mvars, fl>>
AwaitStale ==
    /\ fl.pc = "stop"
    /\ \E x \in fl.stale :
        /\ \A y \in fl.stale : x[1] <= y[1]
        /\ WorkerDone(x)
        /\ fl' = [fl EXCEPT !.stale = @ \ {x}]
    /\ UNCHANGED <<mvars, w>>

\* reconcile, last part: a worker for every wanted Target that has none.
Missing == {t \in Targets : fl.want[t] # NoVal /\ fl.map[t] = 0}
FreeSlot(t) == CHOOSE i \in Slots : w[t][i] = NoWork
StartWorkers ==
    /\ fl.pc = "stop" /\ fl.stale = {}
    /\ LET new == IF fl.cancelled THEN {} ELSE Missing IN
       /\ fl' = [fl EXCEPT !.pc = "wait", !.want = NoWant,
                    !.map = [t \in Targets |-> IF t \in new THEN FreeSlot(t) ELSE @[t]]]
       /\ w' = [t \in Targets |-> [i \in Slots |->
                   IF t \in new /\ i = FreeSlot(t)
                   THEN [pc |-> "check", val |-> fl.want[t], cancel |-> FALSE] ELSE w[t][i]]]
    /\ UNCHANGED mvars

\* The change signal of the projection, or the resync timer.
Wake ==
    /\ fl.pc = "wait"
    /\ fl' = [fl EXCEPT !.pc = "reconcile"]
    /\ UNCHANGED <<mvars, w>>
ContextDone ==
    /\ fl.pc = "wait" /\ fl.cancelled
    /\ StopAll
    /\ UNCHANGED mvars

\* stopAll waits for every worker; Run has returned.
StoppedAll ==
    /\ fl.pc = "stopall" /\ \A x \in fl.stale : WorkerDone(x)
    /\ fl' = [fl EXCEPT !.pc = "returned", !.stale = {}]
    /\ UNCHANGED <<mvars, w>>

\* ServeController returns after its servers and the fleet: the process ends.
ProcessExits ==
    /\ fl.pc = "returned"
    /\ mem' = Down
    /\ adm' = [a \in Admins |-> Rest] /\ enr' = [r \in Reqs |-> Free]
    /\ ses' = [n \in Nodes |-> "none"] /\ quar' = {}
    /\ fl' = FleetDown /\ w' = Idle
    /\ UNCHANGED <<db, ag, gh, given, n_>>

---------------------------------------------------------------------------
(* superviseTarget and runTargetOnce *)

Cancelled(t, i) == fl.cancelled \/ w[t][i].cancel

Become(t, i, pc) == w' = [w EXCEPT ![t][i].pc = pc]
\* Every return of superviseTarget is a look at the context.
Return(t, i) == w' = [w EXCEPT ![t][i] = NoWork]
\* waitBackoff, or the end of a cancelled worker
BackOff(t, i) == IF Cancelled(t, i) THEN Return(t, i) ELSE Become(t, i, "backoff")

\* targetStillDesired: exactly the value the worker was started for.
CheckTarget(t, i) ==
    /\ w[t][i].pc = "check"
    /\ IF ~Cancelled(t, i) /\ Resolve(t) = w[t][i].val
       THEN Become(t, i, "open") ELSE BackOff(t, i)
    /\ UNCHANGED <<mvars, fl>>

\* Somebody deletes the scale set at GitHub.
DeleteScaleSet(t) ==
    /\ t \in gh.sets /\ Event
    /\ gh' = [gh EXCEPT !.sets = @ \ {t}]
    /\ UNCHANGED <<db, mem, adm, enr, ag, ses, quar, given, fl, w>>

\* provider.Open confirms the scale set at GitHub before the message session.
ScaleSetConfirmed(t) == t \in gh.sets
OpenSession(t, i) ==
    /\ w[t][i].pc = "open"
    /\ IF ScaleSetConfirmed(t) THEN Become(t, i, "run") ELSE BackOff(t, i)
    /\ UNCHANGED <<mvars, fl>>
OpenFails(t, i) ==
    /\ w[t][i].pc = "open" /\ (Cancelled(t, i) \/ n_.ev < MaxEvents)
    /\ BackOff(t, i)
    /\ IF Cancelled(t, i) THEN UNCHANGED n_ ELSE Event
    /\ UNCHANGED <<db, mem, adm, enr, ag, ses, quar, gh, given, fl>>

\* mutant: the claim's transaction does not read the binding
AnyBinding(t) == TRUE
BindingStored(t) == t \in db.tgts

\* The coordinator commits a claim: the runtime binding is read in its transaction.
CommitClaim(t, i) ==
    /\ w[t][i].pc = "run" /\ ~Cancelled(t, i)
    /\ t \notin db.claims /\ BindingStored(t)
    /\ db' = [db EXCEPT !.claims = @ \cup {t}]
    /\ UNCHANGED <<mem, adm, enr, ag, ses, quar, gh, given, n_, fl, w>>

\* mutant: a poll that nothing interrupts
NeverEnds(t, i) == FALSE
RunEnds(t, i) == Cancelled(t, i)

\* coordinator.Run returns because its context ended, or with an error.
RunReturns(t, i) ==
    /\ w[t][i].pc = "run" /\ RunEnds(t, i)
    /\ Become(t, i, "close")
    /\ UNCHANGED <<mvars, fl>>
RunFails(t, i) ==
    /\ w[t][i].pc = "run" /\ Event
    /\ Become(t, i, "close")
    /\ UNCHANGED <<db, mem, adm, enr, ag, ses, quar, gh, given, fl>>

\* The deferred Close, on a context of its own; recordError keeps the first failure.
CloseSession(t, i) ==
    /\ w[t][i].pc = "close"
    /\ BackOff(t, i)
    /\ UNCHANGED <<mvars, fl>>
CloseFails(t, i) ==
    /\ w[t][i].pc = "close" /\ Event
    /\ BackOff(t, i)
    /\ fl' = [fl EXCEPT !.err = TRUE]
    /\ UNCHANGED <<db, mem, adm, enr, ag, ses, quar, gh, given>>

Retry(t, i) ==
    /\ w[t][i].pc = "backoff"
    /\ IF Cancelled(t, i) THEN Return(t, i) ELSE Become(t, i, "check")
    /\ UNCHANGED <<mvars, fl>>

---------------------------------------------------------------------------
FleetStep ==
    \/ ServeFleet \/ ReadDesired \/ CancelStale \/ AwaitStale \/ StartWorkers
    \/ ContextDone \/ StoppedAll \/ ProcessExits
WorkerStep(t, i) ==
    \/ CheckTarget(t, i) \/ OpenSession(t, i) \/ RunReturns(t, i) \/ CloseSession(t, i)
    \/ Retry(t, i)

\* The fleet dies with the process.
FleetFollows ==
    IF mem'.up \/ ~mem.up THEN UNCHANGED <<fl, w>> ELSE fl' = FleetDown /\ w' = Idle
Next ==
    \/ ManagementNext /\ FleetFollows
    \/ FleetStep \/ Wake \/ Shutdown \/ DesiredUnreadable
    \/ \E t \in Targets : DeleteScaleSet(t)
    \/ \E t \in Targets, i \in Slots :
        WorkerStep(t, i) \/ OpenFails(t, i) \/ CommitClaim(t, i) \/ RunFails(t, i) \/ CloseFails(t, i)

\* Goroutines run, timers fire, calls to GitHub return.
FleetFairness ==
    /\ WF_fvars(FleetStep) /\ WF_fvars(Wake)
    /\ \A t \in Targets, i \in Slots : WF_fvars(WorkerStep(t, i))
FleetSpec == FleetInit /\ [][Next]_fvars /\ ManagementFairness /\ FleetFairness

---------------------------------------------------------------------------
(* Properties *)

\* The fleet and its workers have their types, and every worker that exists is known to
\* Run: in its map, or among those it still has to wait for.
FleetTypeOK ==
    /\ TypeOK
    /\ fl.pc \in {"down", "reconcile", "stop", "wait", "stopall", "returned"}
    /\ fl.map \in [Targets -> {0} \cup Slots] /\ fl.want \in [Targets -> 0..2]
    /\ fl.stale \subseteq Targets \X Slots
    /\ \A t \in Targets, i \in Slots :
        /\ w[t][i].pc \in {"none", "check", "open", "run", "close", "backoff"}
        /\ w[t][i] # NoWork => <<t, i>> \in fl.stale \/ fl.map[t] = i

Holding(t) == {i \in Slots : w[t][i].pc \in {"run", "close"}}

\* One scale set never has two live message sessions, not even while the worker of a
\* changed Target is replaced (reconcile).
OneSession == \A t \in Targets : Cardinality(Holding(t)) <= 1

\* A claim belongs to a Target that is configured, whichever of the worker's commit and
\* the administrator's removal came first.
ClaimsAreConfigured == db.claims \subseteq db.tgts

\* A Target with claims keeps its configuration until they are gone
\* (validateActiveManagementTransition).
ClaimsKeepTarget ==
    [][\A t \in db.claims : t \in db'.tgts /\ db'.pol[t] = db.pol[t]]_fvars

\* When Run has returned no worker is left that holds a session or could commit.
ReturnedIsQuiet == fl.pc = "returned" => w = Idle

\* What a Target's session is driven for.
Driven(t) == IF \E i \in Slots : w[t][i].pc = "run"
             THEN (CHOOSE i \in Slots : w[t][i].pc = "run") ELSE 0

\* A Target whose resolved value and scale set stay in a running Controller ends up driven
\* by a session opened for exactly that value, and one that stays withdrawn ends up with
\* no session, whatever was added, changed, withdrawn or failed before.
FleetConverges ==
    \A t \in Targets, v \in 0..2 :
        <>[](mem.up /\ ~fl.cancelled /\ Resolve(t) = v /\ (v # NoVal => t \in gh.sets))
          => <>[](IF v = NoVal THEN Holding(t) = {}
                  ELSE Driven(t) # 0 /\ w[t][Driven(t)].val = v)

\* A shutdown always gets to the end of Run: no worker keeps it waiting.
ShutdownCompletes == fl.cancelled ~> ~fl.cancelled

\* Sessions, workers and claims are those of the configuration.
FleetIsAccounted ==
    /\ FleetTypeOK
    /\ OneSession
    /\ ClaimsAreConfigured
    /\ ReturnedIsQuiet

\* The fleet gets to where the configuration, or the shutdown, wants it.
FleetSettles == FleetConverges /\ ShutdownCompletes

=============================================================================
