---------------------------- MODULE LinuxRuntime ----------------------------
(***************************************************************************)
(* The Linux platform behind runner.Supervisor: the Agent's adapter         *)
(* (internal/platform/linux/adapter.go), its connections to the privileged  *)
(* helper (helper_linux.go) and the helper's file fences, cgroups and       *)
(* workspaces (cgroup.go, workspace.go).                                    *)
(*                                                                         *)
(* The Agent's runner.Manager makes one call at a time.  Each helper        *)
(* connection is a goroutine of the helper, an op: it works on after its    *)
(* Agent is gone, so the op of a crashed Agent meets the ops of the next    *)
(* one.  An execution has one fence token, so it is named by the execution. *)
(* A file is written in one step, and a crash at that step may tear it.     *)
(***************************************************************************)
EXTENDS Naturals, FiniteSets

CONSTANTS
    Execs,          \* executions of the node
    Ops,            \* helper connections at the same time
    MaxEvents       \* bound: crashes, timeouts, restarts, reboots, I/O failures

ASSUME LinuxConstants == IsFiniteSet(Execs) /\ Ops \subseteq Nat \ {0} /\ MaxEvents \in Nat

VARIABLES
    jrn,            \* state of each execution in the Agent's runner journal
    ep,             \* boot epoch in its journaled containment, 0 before
    call,           \* the Manager's call in progress: what it does next
    op,             \* the helper's connections
    mu,             \* HelperServer.launchMu: the op holding it, or 0
    srv,            \* the helper: "up", "closing" (Serve returning), "down"
    cg,             \* cgroup leaf: "absent", "empty", "busy" (populated)
    ws,             \* workspace: "absent", "root" (quarantine), "runner"
    dir,            \* the owner's fence directory exists
    lock,           \* containment.lock: "none", "new" (still empty), "ok"
    st,             \* the token's state file
    pub,            \* finalized tombstone and its temporary
    boot,           \* current boot epoch
    stopped,        \* history: executions whose Stop returned nil
    events

agent == <<jrn, ep, call, stopped>>
fence == <<dir, lock, st, pub>>
host  == <<cg, ws, boot>>
vars  == <<agent, op, mu, srv, fence, host, events>>

---------------------------------------------------------------------------
Kinds == {"prepare", "start", "stop", "alive", "finalize", "gc", "remove"}

NoOp == [kind |-> "none", e |-> 0, pc |-> "idle", up |-> FALSE, made |-> FALSE, fd |-> "none",
         held |-> FALSE, launched |-> FALSE, revoked |-> FALSE, killed |-> FALSE]
NoCall == [next |-> "none", e |-> 0, to |-> "none"]

\* What a step changes of the connection r: it goes on at pc, having ...
At(r, pc)           == [r EXCEPT !.pc = pc]
Lost(r)             == [r EXCEPT !.up = FALSE]                      \* lost its client
Opening(r, l)       == [r EXCEPT !.pc = "flock", !.fd = "path", !.made = l = "none"]
Locked(r, pc, s)    == [r EXCEPT !.pc = pc, !.held = TRUE, !.made = FALSE,   \* read the state s
                                 !.revoked = s = "revoked", !.launched = s = "launched"]
Launched(r, pc)     == [r EXCEPT !.pc = pc, !.launched = TRUE]
Revoked(r, pc)      == [r EXCEPT !.pc = pc, !.revoked = TRUE]
Killed(r)           == [r EXCEPT !.pc = "close", !.killed = TRUE]
Reopened(r, pc, fd) == [r EXCEPT !.pc = pc, !.fd = fd]
Relocked(r, pc)     == [r EXCEPT !.pc = pc, !.held = TRUE]
Unlocked(r, pc)     == [r EXCEPT !.pc = pc, !.held = FALSE, !.fd = "none"]
Nameless(r)         == [r EXCEPT !.fd = "gone"]                     \* lost its lock file

\* The connection of a new request
Dialled(kind, e) ==
    [NoOp EXCEPT !.kind = kind, !.e = e, !.up = TRUE,
                 !.pc = IF kind \in {"start", "stop", "alive"} THEN "check" ELSE kind]

Init ==
    /\ jrn = [e \in Execs |-> "none"] /\ ep = [e \in Execs |-> 0]
    /\ call = NoCall /\ stopped = {}
    /\ op = [o \in Ops |-> NoOp] /\ mu = 0 /\ srv = "up"
    /\ cg = [e \in Execs |-> "absent"] /\ ws = [e \in Execs |-> "absent"]
    /\ dir = [e \in Execs |-> FALSE] /\ lock = [e \in Execs |-> "none"]
    /\ st = [e \in Execs |-> "none"] /\ pub = [e \in Execs |-> "none"]
    /\ boot = 1 /\ events = 0

Event == events < MaxEvents /\ events' = events + 1

ValidScope(e)   == ep[e] = boot
CgroupAbsent(e) == cg[e] = "absent"

\* recoverFinalizedPublication: a temporary of unknown content stops every
\* finalization; this token's own complete one is dropped, or unlinked when
\* it is the second name of the tombstone.
Recoverable  == \A x \in Execs : pub[x] # "torn"
Recovered(p) == CASE p = "temp" -> "none" [] p = "linked" -> "done" [] OTHER -> p

---------------------------------------------------------------------------
(* The Manager's side of a call *)

Calling(next, e, to) == [next |-> next, e |-> e, to |-> to]
Then(c, next)        == [c EXCEPT !.next = next]
ThenTo(c, next, to)  == [c EXCEPT !.next = next, !.to = to]

\* What a failed Start leaves behind once its fence is stopped: depends on
\* how far the connection came.
Unwinds(pc) == CASE pc = "verify" -> "cleanup_failed"
                 [] pc \in {"check", "open", "flock", "ready"} -> "starting"
                 [] OTHER -> "failed"

\* What the Manager does when the operation it waits for succeeded ...
Succeeds(e, kind) ==
    /\ ep' = ep
    /\ stopped' = IF kind = "stop" THEN stopped \cup {e} ELSE stopped
    /\ jrn' = [jrn EXCEPT ![e] =
                 CASE kind = "prepare"  -> "prepared"
                   [] kind = "start"    -> "running"
                   [] kind = "stop" /\ call.next = "unwind" -> IF call.to = "failed" THEN "cleaning" ELSE call.to
                   [] kind = "finalize" -> "released"
                   [] kind = "remove"   -> call.to
                   [] OTHER -> @]
    /\ call' = CASE kind = "stop" /\ call.next = "stop" -> Then(call, "finalize")
                 [] kind = "stop" /\ call.to = "failed" -> Then(call, "remove")
                 [] kind = "finalize" -> Then(call, "gc")
                 [] OTHER -> NoCall

\* ... and when it failed at this point of the connection.
Fails(e, kind, pc) ==
    /\ ep' = ep /\ stopped' = stopped
    /\ jrn' = [jrn EXCEPT ![e] = CASE kind \in {"stop", "finalize", "remove"} -> "cleanup_failed"
                                      [] kind = "alive" -> "cleaning"
                                      [] OTHER -> @]
    /\ call' = CASE kind = "prepare" -> ThenTo(call, "remove", "failed")
                 [] kind = "start"   -> ThenTo(call, "unwind", Unwinds(pc))
                 [] kind = "alive"   -> Then(call, "stop")
                 [] OTHER -> NoCall

\* The reply reaches the Manager only over a connection that is still up.
Replies(o, good) ==
    IF ~op[o].up THEN UNCHANGED agent
    ELSE IF good THEN Succeeds(op[o].e, op[o].kind)
    ELSE Fails(op[o].e, op[o].kind, op[o].pc)

\* EnsurePrepared commits Preparing and asks for the workspace.
Create(e) ==
    /\ call = NoCall /\ jrn[e] = "none"
    /\ jrn' = [jrn EXCEPT ![e] = "preparing"]
    /\ call' = Calling("prepare", e, "none")
    /\ UNCHANGED <<ep, stopped, op, mu, srv, fence, host, events>>

\* EnsureCgroup makes the leaf, or accepts an empty one.
EnsureCgroup(e) == cg[e] # "busy" /\ cg' = [cg EXCEPT ![e] = "empty"]

\* PrepareContainment makes the leaf before the journal names it.
PrepareContainment(e) ==
    /\ call = NoCall /\ jrn[e] = "prepared" /\ srv = "up"
    /\ EnsureCgroup(e)
    /\ call' = Calling("cas", e, "none")
    /\ UNCHANGED <<jrn, ep, stopped, op, mu, srv, fence, ws, boot, events>>

\* The Starting commit names the containment and its token, or fails.
CommitStarting ==
    /\ call.next = "cas"
    /\ \/ /\ jrn' = [jrn EXCEPT ![call.e] = "starting"]
          /\ ep' = [ep EXCEPT ![call.e] = boot]
          /\ call' = Then(call, "start")
          /\ UNCHANGED events
       \/ Event /\ call' = NoCall /\ UNCHANGED <<jrn, ep>>
    /\ UNCHANGED <<stopped, op, mu, srv, fence, host>>

\* Destroy, or the Destroy of a recovery, commits Cleaning and stops the
\* containment the record names.
Destroy(e) ==
    /\ call = NoCall
    /\ jrn[e] \in {"preparing", "prepared", "starting", "running", "cleaning"}
    /\ IF jrn[e] = "preparing"
         THEN jrn' = [jrn EXCEPT ![e] = "cleanup_failed"] /\ call' = NoCall
         ELSE /\ jrn' = [jrn EXCEPT ![e] = "cleaning"]
              /\ call' = IF ep[e] # 0 THEN Calling("stop", e, "none")
                         ELSE Calling("remove", e, "released")
    /\ UNCHANGED <<ep, stopped, op, mu, srv, fence, host, events>>

\* Recovery of a Running record observes it before adopting it.
Recover(e) ==
    /\ call = NoCall /\ jrn[e] = "running"
    /\ call' = Calling("alive", e, "none")
    /\ UNCHANGED <<jrn, ep, stopped, op, mu, srv, fence, host, events>>

\* Recovery of a Released record collects the tombstone again.
CollectAgain(e) ==
    /\ call = NoCall /\ jrn[e] = "released" /\ pub[e] # "none"
    /\ call' = Calling("gc", e, "none")
    /\ UNCHANGED <<jrn, ep, stopped, op, mu, srv, fence, host, events>>

Wanted == IF call.next = "unwind" THEN "stop" ELSE call.next

\* The Manager's next operation opens a connection (dial and first request) ...
Dial(o) ==
    /\ Wanted \in Kinds /\ srv = "up"
    /\ op[o] = NoOp /\ \A p \in Ops : ~op[p].up
    /\ op' = [op EXCEPT ![o] = Dialled(Wanted, call.e)]
    /\ UNCHANGED <<agent, mu, srv, fence, host, events>>

\* ... or finds no helper listening.
DialFails ==
    /\ Wanted \in Kinds /\ srv # "up" /\ \A p \in Ops : ~op[p].up
    /\ Fails(call.e, Wanted, "check")
    /\ UNCHANGED <<op, mu, srv, fence, host, events>>

---------------------------------------------------------------------------
(* LockFence *)

Set(o, r)   == op' = [op EXCEPT ![o] = r]
To(o, pc)   == Set(o, At(op[o], pc))

\* Mutant: a fence is closed without giving up its descriptors.
KeepDescriptors(o) == op' = [op EXCEPT ![o].pc = "closed", ![o].up = FALSE]

\* The connection ends; closing the fence gives up its flock.
Release(o)  == Set(o, NoOp)

ReplyEnd(o, good) == Replies(o, good) /\ Release(o)

\* Where the caller of LockFence goes on with the open fence
Opened(o) == CASE op[o].kind = "finalize" -> "validated"
               [] op[o].kind = "alive"    -> "observe"
               [] OTHER -> "ready"

\* The flock on the file the op has open can be taken.
FlockFree(o) == \A p \in Ops \ {o} : ~(op[p].e = op[o].e /\ op[p].held /\ op[p].fd = op[o].fd)

\* fenceFinalized, as LockFence reads it
Finalized(e) == pub[e] = "done"

\* LockFence first looks for a tombstone: a finalized fence is revoked and
\* needs no lock, and one whose publication is half done is refused.
LockCheck(o) ==
    /\ op[o].pc = "check"
    /\ LET e == op[o].e IN
       IF ~ValidScope(e) \/ pub[e] = "linked" THEN ReplyEnd(o, FALSE)
       ELSE /\ IF Finalized(e) THEN Set(o, Revoked(op[o], Opened(o))) ELSE To(o, "open")
            /\ UNCHANGED agent
    /\ UNCHANGED <<mu, srv, fence, host, events>>

\* Make the owner directory and open or create its lock.
LockOpen(o) ==
    /\ op[o].pc = "open"
    /\ LET e == op[o].e IN
       /\ dir' = [dir EXCEPT ![e] = TRUE]
       /\ lock' = [lock EXCEPT ![e] = IF @ = "none" THEN "new" ELSE @]
       /\ Set(o, Opening(op[o], lock[e]))
    /\ UNCHANGED <<agent, mu, srv, st, pub, host, events>>

\* validFenceFile: the locked file is still the one at the path.
SameFile(o) == op[o].fd = "path"

\* Take the flock, check that the lock is the file at the path and complete,
\* and open the token's state, creating it active.
LockTake(o) ==
    /\ op[o].pc = "flock" /\ FlockFree(o)
    /\ LET e == op[o].e
           good == SameFile(o) /\ (lock[e] = "ok" \/ op[o].made) /\ st[e] # "torn"
           now == IF st[e] = "none" THEN "active" ELSE st[e]
       IN  /\ lock' = [lock EXCEPT ![e] = IF op[o].made /\ op[o].fd = "path" THEN "ok" ELSE @]
           /\ IF good
                THEN /\ st' = [st EXCEPT ![e] = now]
                     /\ Set(o, Locked(op[o], Opened(o), now))
                     /\ UNCHANGED agent
                ELSE ReplyEnd(o, FALSE) /\ UNCHANGED st
    /\ UNCHANGED <<mu, srv, dir, pub, host, events>>

---------------------------------------------------------------------------
(* serveFenceSession, driven by Adapter.Start and stopContainment *)

\* Adapter.Start, holding the fence, refuses a revoked one, verifies the
\* workspace and delivers the JIT configuration with the launch request.
StartReady(o) ==
    /\ op[o].pc = "ready" /\ op[o].kind = "start" /\ op[o].up
    /\ To(o, IF op[o].revoked THEN "fenced"
             ELSE IF ws[op[o].e] # "runner" THEN "verify" ELSE "launch")
    /\ UNCHANGED <<agent, mu, srv, fence, host, events>>

\* The caller of Adapter.Start is done before the delivery is known to have
\* ended: the Start of a launched runner is the first to contain it, with a
\* revoke, a kill and a close over the session that launched it.
StartCancelled(o) ==
    /\ op[o].pc = "close" /\ op[o].kind = "start" /\ op[o].up /\ ~op[o].revoked
    /\ Event
    /\ To(o, "revoke")
    /\ UNCHANGED <<agent, mu, srv, fence, host>>

\* stopContainment revokes before it kills.
StopReady(o) ==
    /\ op[o].pc = "ready" /\ op[o].kind = "stop" /\ op[o].up
    /\ To(o, "revoke")
    /\ UNCHANGED <<agent, mu, srv, fence, host, events>>

\* A session whose client is gone reads no further request.
HangUp(o) ==
    /\ op[o].pc \in {"ready", "launch", "revoke", "kill"} /\ ~op[o].up
    /\ To(o, "end")
    /\ UNCHANGED <<agent, mu, srv, fence, host, events>>

\* Any other leaf, and a populated own one, make the slot busy.
SlotBusy(e) == cg[e] = "busy" \/ \E x \in Execs \ {e} : cg[x] # "absent"

\* So does any other workspace.
WorkspaceBusy(e) == \E x \in Execs \ {e} : ws[x] # "absent"

\* PinLaunch opens the workspace the record names.
Pinned(e) == ws[e] = "runner"

\* The launch request: refused on a spent session, else admitted under launchMu.
Launch(o) ==
    /\ op[o].pc = "launch" /\ mu = 0
    /\ LET e == op[o].e
           refused == op[o].launched \/ op[o].revoked \/ SlotBusy(e) \/ WorkspaceBusy(e) \/ ~Pinned(e)
       IN  IF refused THEN To(o, "end") /\ UNCHANGED mu ELSE To(o, "spawn") /\ mu' = o
    /\ UNCHANGED <<agent, srv, fence, host, events>>

\* ExecLauncher.Launch puts the child into the leaf; it may still report a
\* failure afterwards, as does a launch whose client disconnected.
Spawn(o) ==
    /\ op[o].pc = "spawn" /\ mu = o
    /\ mu' = 0
    /\ LET e == op[o].e IN
       \/ cg[e] # "absent" /\ cg' = [cg EXCEPT ![e] = "busy"] /\ To(o, "mark") /\ UNCHANGED events
       \/ /\ cg[e] # "absent" /\ cg' = [cg EXCEPT ![e] = "busy"] /\ To(o, "end")
          /\ IF op[o].up THEN Event ELSE UNCHANGED events
       \/ cg[e] = "absent" /\ To(o, "end") /\ UNCHANGED <<cg, events>>
    /\ UNCHANGED <<agent, srv, fence, ws, boot>>

\* MarkLaunched makes the launch durable; a failure revokes and kills.
MarkLaunched(o) ==
    /\ op[o].pc = "mark"
    /\ \/ /\ srv = "up"
          /\ st' = [st EXCEPT ![op[o].e] = "launched"]
          /\ Set(o, Launched(op[o], IF op[o].up THEN "close" ELSE "end"))
          /\ UNCHANGED events
       \/ (IF srv = "up" THEN Event ELSE UNCHANGED events) /\ To(o, "end") /\ UNCHANGED st
    /\ UNCHANGED <<agent, mu, srv, dir, lock, pub, host>>

\* The revoke request of a Stop or of a cancelled Start
Revoke(o) ==
    /\ op[o].pc = "revoke"
    /\ \/ /\ srv = "up"
          /\ st' = [st EXCEPT ![op[o].e] = IF op[o].held THEN "revoked" ELSE @]
          /\ Set(o, Revoked(op[o], IF op[o].up THEN "kill" ELSE "end"))
          /\ UNCHANGED events
       \/ (IF srv = "up" THEN Event ELSE UNCHANGED events) /\ To(o, "end") /\ UNCHANGED st
    /\ UNCHANGED <<agent, mu, srv, dir, lock, pub, host>>

DurablyRevoked(e) == ValidScope(e) /\ (pub[e] = "done" \/ st[e] = "revoked")

\* KillAndWait: kill the leaf, wait until it is empty and remove it; without
\* a leaf only a durably revoked fence is success.  It can fail halfway.
KillAndWait(o, ok, bad) ==
    LET e == op[o].e IN
    \/ /\ cg[e] # "absent" /\ ValidScope(e)
       /\ cg' = [cg EXCEPT ![e] = "absent"]
       /\ Set(o, ok) /\ UNCHANGED events
    \/ /\ cg[e] # "absent" /\ ValidScope(e) /\ Event
       /\ cg' \in {cg, [cg EXCEPT ![e] = "empty"]}
       /\ Set(o, bad)
    \/ /\ cg[e] = "absent"
       /\ Set(o, IF DurablyRevoked(e) THEN ok ELSE bad)
       /\ UNCHANGED <<cg, events>>

\* The kill request of a Stop or of a cancelled Start
Kill(o) ==
    /\ op[o].pc = "kill"
    /\ KillAndWait(o, Killed(op[o]), At(op[o], "end"))
    /\ UNCHANGED <<agent, mu, srv, fence, ws, boot>>

\* The close request.  A session that launched, revoked or killed ends
\* without cleanup; the flock goes with the connection.  A Start that revoked
\* its own launch reports a failure.
Close(o) ==
    /\ op[o].pc \in {"close", "fenced", "verify"}
    /\ LET done == op[o].pc = "close" \/ op[o].revoked
       IN  IF ~op[o].up THEN To(o, "end") /\ UNCHANGED agent
           ELSE /\ Replies(o, op[o].pc = "close" /\ ~(op[o].kind = "start" /\ op[o].revoked))
                /\ IF done THEN Release(o)
                   ELSE Set(o, At(Lost(op[o]), "end"))
    /\ UNCHANGED <<mu, srv, fence, host, events>>

\* Mutant: a lost session is always torn down.
NeverCommitted(o) == FALSE

\* A launched runner is left alone by the loss of the Agent alone.
Committed(o) == op[o].launched /\ ~op[o].revoked /\ ~op[o].killed /\ srv = "up"

\* A session ending any other way revokes its fence ...
End(o) ==
    /\ op[o].pc = "end"
    /\ IF Committed(o) THEN ReplyEnd(o, FALSE) /\ UNCHANGED <<st, events>>
       ELSE /\ \/ /\ st' = [st EXCEPT ![op[o].e] = IF op[o].held THEN "revoked" ELSE @]
                  /\ UNCHANGED events
               \/ Event /\ UNCHANGED st
            /\ Replies(o, FALSE)
            /\ Set(o, At(Lost(op[o]), "endkill"))
    /\ UNCHANGED <<mu, srv, dir, lock, pub, host>>

\* ... and empties its leaf before it lets go of the flock.
EndKill(o) ==
    /\ op[o].pc = "endkill"
    /\ KillAndWait(o, NoOp, NoOp)
    /\ UNCHANGED <<agent, mu, srv, fence, ws, boot>>

---------------------------------------------------------------------------
(* One-shot operations *)

\* Alive: a durably launched, unrevoked fence, then the leaf.  An unknown
\* answer makes the recovery destroy the execution.
Alive(o) ==
    /\ op[o].pc = "observe"
    /\ ReplyEnd(o, op[o].launched /\ cg[op[o].e] # "absent")
    /\ UNCHANGED <<mu, srv, fence, host, events>>

\* PrepareOfficial rebuilds the workspace under root ownership ...
PrepareOfficial(o) ==
    /\ op[o].pc = "prepare"
    /\ IF \A x \in Execs \ {op[o].e} : ws[x] = "absent"
         THEN ws' = [ws EXCEPT ![op[o].e] = "root"] /\ To(o, "handoff") /\ UNCHANGED agent
         ELSE ReplyEnd(o, FALSE) /\ UNCHANGED ws
    /\ UNCHANGED <<mu, srv, fence, cg, boot, events>>

\* ... and hands it to the runner last; a failure leaves a root-owned quarantine.
HandOff(o) ==
    /\ op[o].pc = "handoff"
    /\ \/ ws' = [ws EXCEPT ![op[o].e] = "runner"] /\ ReplyEnd(o, TRUE) /\ UNCHANGED events
       \/ Event /\ UNCHANGED ws /\ ReplyEnd(o, FALSE)
    /\ UNCHANGED <<mu, srv, fence, cg, boot>>

\* RemoveAndVerify of a record without containment; absence is no success.
RemoveWorkspace(o) ==
    /\ op[o].pc = "remove"
    /\ ws' = [ws EXCEPT ![op[o].e] = IF @ = "runner" THEN "absent" ELSE @]
    /\ ReplyEnd(o, ws[op[o].e] = "runner")
    /\ UNCHANGED <<mu, srv, fence, cg, boot, events>>

\* The finalize_cleanup request begins with FenceFinalized: a finalized fence
\* only needs the workspace to be absent.
FenceFinalized(o) ==
    /\ op[o].pc = "finalize"
    /\ LET e == op[o].e
           p == Recovered(pub[e])
       IN  IF ~Recoverable THEN ReplyEnd(o, FALSE) /\ UNCHANGED pub
           ELSE /\ pub' = [pub EXCEPT ![e] = p]
                /\ IF p # "done" THEN To(o, "wsremove") /\ UNCHANGED agent
                   ELSE IF ws[e] = "absent" THEN To(o, "fin") /\ UNCHANGED agent
                   ELSE ReplyEnd(o, FALSE)
    /\ UNCHANGED <<mu, srv, dir, lock, st, host, events>>

\* Mutant: a failed removal does not stop the finalization.
RemoveIgnored(o) ==
    /\ op[o].pc = "wsremove"
    /\ ws' \in {ws, [ws EXCEPT ![op[o].e] = "absent"]}
    /\ To(o, "validate")
    /\ UNCHANGED <<agent, mu, srv, fence, cg, boot, events>>

\* The exact workspace is removed, or was already.
FinalizeWorkspace(o) ==
    /\ op[o].pc = "wsremove"
    /\ LET e == op[o].e IN
       IF ws[e] = "root" THEN ReplyEnd(o, FALSE) /\ UNCHANGED ws
       ELSE ws' = [ws EXCEPT ![e] = "absent"] /\ To(o, "validate") /\ UNCHANGED agent
    /\ UNCHANGED <<mu, srv, fence, cg, boot, events>>

\* ValidateFinalization: no leaf, then a tombstone or a revoked fence.
ValidateFinalization(o) ==
    /\ op[o].pc = "validate"
    /\ LET e == op[o].e
           p == Recovered(pub[e])
       IN  IF ~(CgroupAbsent(e) /\ Recoverable) THEN ReplyEnd(o, FALSE) /\ UNCHANGED pub
           ELSE /\ pub' = [pub EXCEPT ![e] = p]
                /\ To(o, IF p = "done" THEN "fin" ELSE "check")
                /\ UNCHANGED agent
    /\ UNCHANGED <<mu, srv, dir, lock, st, host, events>>

Validated(o) ==
    /\ op[o].pc = "validated"
    /\ IF op[o].revoked
         THEN /\ Set(o, Unlocked(op[o], "fin"))
              /\ UNCHANGED agent
         ELSE ReplyEnd(o, FALSE)
    /\ UNCHANGED <<mu, srv, fence, host, events>>

\* FinalizeFence finishes a published finalization, or begins one for an
\* owner directory without a leaf.
FinalizeFence(o) ==
    /\ op[o].pc = "fin"
    /\ LET e == op[o].e
           p == Recovered(pub[e])
           good == Recoverable /\ CgroupAbsent(e)
                   /\ (p = "done" \/ (ValidScope(e) /\ dir[e] /\ lock[e] # "none"))
       IN  /\ pub' = [pub EXCEPT ![e] = IF Recoverable THEN p ELSE @]
           /\ IF ~good THEN ReplyEnd(o, FALSE)
              ELSE IF ~dir[e] THEN ReplyEnd(o, TRUE)
              ELSE /\ Set(o, IF lock[e] = "none" THEN Reopened(op[o], "rmdir", "none")
                              ELSE Reopened(op[o], IF p = "done" THEN "resume" ELSE "finlock", "path"))
                   /\ UNCHANGED agent
    /\ UNCHANGED <<mu, srv, dir, lock, st, host, events>>

\* Under the flock, only a revoked fence is replaced by a tombstone.
FinalizeLock(o) ==
    /\ op[o].pc \in {"finlock", "resume"} /\ FlockFree(o)
    /\ LET e == op[o].e
           good == /\ SameFile(o) /\ lock[e] = "ok"
                   /\ st[e] = "revoked" \/ (op[o].pc = "resume" /\ st[e] = "none")
       IN  IF good THEN /\ Set(o, Relocked(op[o], IF op[o].pc = "resume" THEN "rmstate" ELSE "ptemp"))
                        /\ UNCHANGED agent
           ELSE ReplyEnd(o, FALSE)
    /\ UNCHANGED <<mu, srv, fence, host, events>>

\* publishFinalizedFence: create the temporary, write it, link it to its
\* name and unlink it again.  Recovery by another op may remove it meanwhile.
PublishTemp(o) ==
    LET e == op[o].e
        p == Recovered(pub[e])
    IN  IF ~Recoverable THEN ReplyEnd(o, FALSE) /\ UNCHANGED pub
        ELSE /\ pub' = [pub EXCEPT ![e] = IF p = "done" THEN p ELSE "torn"]
             /\ To(o, IF p = "done" THEN "rmstate" ELSE "pwrite")
             /\ UNCHANGED agent

PublishFurther(o, from, to, next) ==
    IF pub[op[o].e] = from
      THEN pub' = [pub EXCEPT ![op[o].e] = to] /\ To(o, next) /\ UNCHANGED agent
      ELSE ReplyEnd(o, FALSE) /\ UNCHANGED pub

Publish(o) ==
    /\ \/ op[o].pc = "ptemp"   /\ PublishTemp(o)
       \/ op[o].pc = "pwrite"  /\ PublishFurther(o, "torn", "temp", "plink")
       \/ op[o].pc = "plink"   /\ PublishFurther(o, "temp", "linked", "punlink")
       \/ op[o].pc = "punlink" /\ PublishFurther(o, "linked", "done", "rmstate")
    /\ UNCHANGED <<mu, srv, dir, lock, st, host, events>>

\* Remove the state, then the lock with its flock; whoever opened the lock
\* before now holds a file without a name.
RemoveFiles(o) ==
    /\ op[o].pc \in {"rmstate", "rmlock"}
    /\ LET e == op[o].e IN
       IF op[o].pc = "rmstate"
         THEN st' = [st EXCEPT ![e] = "none"] /\ To(o, "rmlock") /\ UNCHANGED lock
         ELSE /\ lock' = [lock EXCEPT ![e] = "none"]
              /\ op' = [p \in Ops |->
                          IF p = o THEN Unlocked(op[o], "rmdir")
                          ELSE IF op[p].e = e /\ op[p].fd = "path" THEN Nameless(op[p])
                          ELSE op[p]]
              /\ UNCHANGED st
    /\ UNCHANGED <<agent, mu, srv, dir, pub, host, events>>

\* The empty directory goes last.
RemoveDirectory(o) ==
    /\ op[o].pc = "rmdir"
    /\ LET e == op[o].e
           good == dir[e] /\ lock[e] = "none"
       IN  dir' = [dir EXCEPT ![e] = IF good THEN FALSE ELSE @] /\ ReplyEnd(o, good)
    /\ UNCHANGED <<mu, srv, lock, st, pub, host, events>>

\* GarbageCollectFence drops the tombstone of an owner without directory.
GarbageCollectFence(o) ==
    /\ op[o].pc = "gc"
    /\ LET e == op[o].e
           p == Recovered(pub[e])
           good == CgroupAbsent(e) /\ Recoverable
       IN  /\ pub' = [pub EXCEPT ![e] = IF ~good THEN @ ELSE IF p = "done" /\ ~dir[e] THEN "none" ELSE p]
           /\ ReplyEnd(o, good /\ ~dir[e])
    /\ UNCHANGED <<mu, srv, dir, lock, st, host, events>>

\* Waiting for a flock ends with the service; a one-shot also ends when its
\* client is gone.
Abort(o) ==
    /\ \/ srv # "up" /\ op[o].pc \in {"check", "flock"}
       \/ /\ op[o].kind \in {"prepare", "alive", "finalize", "gc", "remove"} /\ ~op[o].up
          /\ op[o].pc \in {"prepare", "finalize", "wsremove", "validate", "check", "flock",
                          "fin", "finlock", "resume", "gc", "remove"}
    /\ Release(o)
    /\ UNCHANGED <<agent, mu, srv, fence, host, events>>

---------------------------------------------------------------------------
(* The world *)

RunnerExits(e) ==
    /\ cg[e] = "busy" /\ cg' = [cg EXCEPT ![e] = "empty"]
    /\ UNCHANGED <<agent, op, mu, srv, fence, ws, boot, events>>

\* The client of a connection gives up (deadline, cancelled caller).
Timeout(o) ==
    /\ op[o].up /\ Event
    /\ Fails(op[o].e, op[o].kind, op[o].pc)
    /\ Set(o, Lost(op[o]))
    /\ UNCHANGED <<mu, srv, fence, host>>

LoseClients == [o \in Ops |-> Lost(op[o])]

AgentCrash ==
    /\ Event /\ call' = NoCall /\ op' = LoseClients
    /\ UNCHANGED <<jrn, ep, stopped, mu, srv, fence, host>>

\* The Manager sees its operation fail when the helper goes away.
ClientsFail ==
    IF \E o \in Ops : op[o].up
      THEN LET o == CHOOSE o \in Ops : op[o].up IN Fails(op[o].e, op[o].kind, op[o].pc)
      ELSE UNCHANGED agent

\* State files a crash may leave torn: an op is about to write them.
Writing(e) ==
    \E o \in Ops : op[o].e = e /\
        \/ op[o].pc \in {"mark", "revoke", "end"} /\ op[o].held /\ st[e] # "revoked"
        \/ op[o].pc = "flock" /\ FlockFree(o) /\ lock[e] = "ok" /\ st[e] = "none"

Torn == \E S \in SUBSET {e \in Execs : Writing(e)} :
            st' = [e \in Execs |-> IF e \in S THEN "torn" ELSE st[e]]

\* The helper dies; its unit's control group is killed, and the leaves may go.
HelperCrash ==
    /\ Event /\ Torn /\ ClientsFail
    /\ op' = [o \in Ops |-> NoOp] /\ mu' = 0 /\ srv' = "up"
    /\ cg' \in {[e \in Execs |-> "absent"],
                [e \in Execs |-> IF cg[e] = "absent" THEN "absent" ELSE "empty"]}
    /\ UNCHANGED <<dir, lock, pub, ws, boot>>

Reboot ==
    /\ Event /\ boot = 1 /\ boot' = 2 /\ Torn
    /\ call' = NoCall /\ op' = [o \in Ops |-> NoOp] /\ mu' = 0 /\ srv' = "up"
    /\ cg' = [e \in Execs |-> "absent"]
    /\ UNCHANGED <<jrn, ep, stopped, dir, lock, pub, ws>>

\* Serve returns: connections are closed and their goroutines awaited ...
SupervisorStop ==
    /\ srv = "up" /\ Event /\ srv' = "closing"
    /\ ClientsFail /\ op' = LoseClients
    /\ UNCHANGED <<mu, fence, host>>

\* Owner directories Shutdown can revoke and empty
ShutdownAble(e) ==
    \/ pub[e] = "done" /\ lock[e] = "ok" /\ st[e] # "none"
    \/ pub[e] \notin {"done", "linked"} /\ ValidScope(e) /\ lock[e] = "ok"
       /\ st[e] \notin {"none", "torn"}

\* ... then Shutdown revokes and empties the owners up to the first it cannot.
Shutdown ==
    /\ srv = "closing" /\ \A o \in Ops : op[o] = NoOp
    /\ srv' = "down"
    /\ \E S \in SUBSET {e \in Execs : dir[e] /\ ShutdownAble(e)} :
         /\ \/ S = {e \in Execs : dir[e]}
            \/ \E e \in Execs \ S : dir[e] /\ ~ShutdownAble(e)
         /\ st' = [e \in Execs |-> IF e \in S /\ pub[e] # "done" THEN "revoked" ELSE st[e]]
         /\ cg' = [e \in Execs |-> IF e \in S THEN "absent" ELSE cg[e]]
    /\ UNCHANGED <<agent, op, mu, dir, lock, pub, ws, boot, events>>

HelperStart ==
    /\ srv = "down" /\ srv' = "up"
    /\ UNCHANGED <<agent, op, mu, fence, host, events>>

---------------------------------------------------------------------------
Serve(o) ==
    \/ LockCheck(o) \/ LockOpen(o) \/ LockTake(o) \/ StartReady(o) \/ StopReady(o) \/ Launch(o) \/ Spawn(o)
    \/ MarkLaunched(o) \/ Revoke(o) \/ Kill(o) \/ Close(o) \/ End(o) \/ EndKill(o) \/ HangUp(o)
    \/ Alive(o)
    \/ PrepareOfficial(o) \/ HandOff(o) \/ RemoveWorkspace(o) \/ FenceFinalized(o)
    \/ FinalizeWorkspace(o) \/ ValidateFinalization(o) \/ Validated(o) \/ FinalizeFence(o)
    \/ FinalizeLock(o) \/ Publish(o) \/ RemoveFiles(o) \/ RemoveDirectory(o)
    \/ GarbageCollectFence(o) \/ Abort(o)

Next ==
    \/ \E o \in Ops : Serve(o) \/ Dial(o) \/ StartCancelled(o) \/ Timeout(o)
    \/ \E e \in Execs : Create(e) \/ PrepareContainment(e) \/ Destroy(e) \/ Recover(e) \/ CollectAgain(e)
                        \/ RunnerExits(e)
    \/ CommitStarting \/ DialFails
    \/ AgentCrash \/ HelperCrash \/ Reboot \/ SupervisorStop \/ Shutdown \/ HelperStart

\* The helper's goroutines run, a Manager call goes on, and the service
\* manager starts the helper again.
Fairness ==
    /\ \A o \in Ops : WF_vars(Serve(o)) /\ WF_vars(Dial(o))
    /\ WF_vars(CommitStarting) /\ WF_vars(DialFails)
    /\ WF_vars(Shutdown) /\ WF_vars(HelperStart)

Spec == Init /\ [][Next]_vars /\ Fairness

---------------------------------------------------------------------------
\* Values of the variables; a fence file exists only in its owner directory,
\* and launchMu is held only across one launch.
TypeOK ==
    /\ jrn \in [Execs -> {"none", "preparing", "prepared", "starting", "running", "cleaning",
                          "released", "failed", "cleanup_failed"}]
    /\ ep \in [Execs -> 0..2] /\ boot \in 1..2
    /\ cg \in [Execs -> {"absent", "empty", "busy"}]
    /\ ws \in [Execs -> {"absent", "root", "runner"}]
    /\ lock \in [Execs -> {"none", "new", "ok"}]
    /\ st \in [Execs -> {"none", "active", "launched", "revoked", "torn"}]
    /\ pub \in [Execs -> {"none", "torn", "temp", "linked", "done"}]
    /\ mu # 0 => op[mu].pc = "spawn"
    /\ \A e \in Execs : lock[e] # "none" \/ st[e] # "none" => dir[e]

\* At most one connection acts under an execution's fence, also while its
\* lock file is removed and created again.
OneFenceHolder == \A o, p \in Ops : op[o].held /\ op[p].held /\ op[o].e = op[p].e => o = p

\* Once Stop has returned nil for an execution, no process of it ever runs
\* again, whatever session of a crashed Agent is still under way.
StopIsFinal == \A e \in stopped : cg[e] # "busy"

\* A tombstone is on disk only when the leaf and the workspace are gone, so
\* that a replayed finalization may trust it without looking again.
TombstoneIsProof == \A e \in Execs : pub[e] \in {"linked", "done"} => cg[e] = "absent" /\ ws[e] = "absent"

\* Connections whose client may ask to revoke a launch
MayRevoke(o) == op[o].kind = "stop" \/ (op[o].kind = "start" /\ op[o].launched)

\* The durable launch of a runner is revoked only by a request to do so, of a
\* Stop of that runner or of the Start that launched it once its caller is done,
\* or by the end of the helper itself: never because the session that launched
\* it, or any other Agent's session, was lost.
AgentLossKeepsRunner ==
    [][\A e \in Execs : st[e] = "launched" /\ st'[e] = "revoked" =>
           \/ srv # "up"
           \/ \E o \in Ops : op[o].e = e /\ op[o].pc = "revoke" /\ MayRevoke(o)]_vars

\* Every call of the Manager returns: no flock, launch lock or half finished
\* finalization keeps it waiting for ever.
CallsReturn == (call # NoCall) ~> (call = NoCall)

\* What the fence files say holds of the machine: one holder, nothing after a Stop,
\* nothing under a tombstone.
FenceIsTrue ==
    /\ TypeOK
    /\ OneFenceHolder
    /\ StopIsFinal
    /\ TombstoneIsProof

=============================================================================
